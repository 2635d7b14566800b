---------------------------- MODULE MCStoreUses ----------------------------
(***************************************************************************)
(* What is done with a store, for TLC: clients write and read it through    *)
(* the server, the server archives it, or an operator migrates it to        *)
(* another data key.  The three have nothing in common but the store, so    *)
(* that a behaviour has one of them.                                        *)
(***************************************************************************)
EXTENDS Replay, KeyMigration, Snapshots, TLC

CONSTANTS
    h1, x1,
    MaxMigrated  \* bound: nodes ever minted in a store that is migrated

VARIABLE use

migrationOwn == <<leftover, migVars, powerLost>>

UsesInit ==
    /\ ReplayInit
    /\ MigrationInit
    /\ SnapshotInit
    /\ use \in {"clients", "migration", "snapshots"}

UsesNext ==
    \/ /\ use = "clients"
       /\ ReplayNext
       /\ UNCHANGED <<migrationOwn, snapVars, use>>
    \/ /\ use = "migration"
       /\ MigrationNext
       /\ minted' <= MaxMigrated
       /\ UNCHANGED <<replayVars, snapVars, use>>
    \/ /\ use = "snapshots"
       /\ SnapshotNext
       /\ UNCHANGED <<refVars, replayVars, migrationOwn, use>>

UsesSpec == UsesInit /\ [][UsesNext]_<<allVars, replayVars, migrationOwn, snapVars, use>>

\* All variables but the store's records of its answers, reply and acks, and
\* refReply.  No property that is checked with this view reads them, and no action
\* but StoreStep, which adds to seen the nodes of acks: with the new one, those that
\* seen has already.
Unanswered ==
    <<disk, memory, named, namedSurvivors, refPC, seen,
      replayVars, migrationOwn, snapVars, use>>
=============================================================================
