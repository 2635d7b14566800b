----------------------------- MODULE FcntlLock -----------------------------
(***************************************************************************)
(* The writer lock of lock_fcntl.go.  A POSIX record lock belongs to the    *)
(* process, not to the open file: a second open in one process gets it too, *)
(* and closing any descriptor of the file gives it up for all of them.      *)
(* acquireStoreLock therefore reserves the path in a map of the process     *)
(* first, and Close gives the reservation back last.                        *)
(***************************************************************************)
EXTENDS FiniteSets

CONSTANTS
    Stores,    \* Store instances, all of one directory
    Processes,
    ProcessOf, \* the process in which each instance lives
    Nobody

ASSUME FcntlAssumption ==
    /\ ProcessOf \in [Stores -> Processes]
    /\ Nobody \notin Processes

VARIABLES
    held,   \* fcntlProcessLocks.held[path] of each process
    kernel, \* the process that has the record lock
    at      \* where each instance is

lockVars == <<held, kernel, at>>

Places == {"idle", "reserved", "opened", "locked", "owner", "unlocked", "closing"}

LockInit ==
    /\ held = [p \in Processes |-> FALSE]
    /\ kernel = Nobody
    /\ at = [s \in Stores |-> "idle"]

\* What closing a descriptor of the lock file in process p leaves of the lock.
AfterClose(p) == IF kernel = p THEN Nobody ELSE kernel

Move(s, place) == at' = [at EXCEPT ![s] = place]

-----------------------------------------------------------------------------
(***************************************************************************)
(* acquireStoreLock.                                                        *)
(***************************************************************************)

\* A plausible bug: the map is not consulted.
ReserveUnchecked(s) ==
    /\ at[s] = "idle"
    /\ held' = [held EXCEPT ![ProcessOf[s]] = TRUE]
    /\ Move(s, "reserved")
    /\ UNCHANGED kernel

Reserve(s) ==
    /\ at[s] = "idle"
    /\ ~held[ProcessOf[s]]
    /\ held' = [held EXCEPT ![ProcessOf[s]] = TRUE]
    /\ Move(s, "reserved")
    /\ UNCHANGED kernel

\* os.OpenFile fails, and the deferred function drops the reservation.
OpenFileFails(s) ==
    /\ at[s] = "reserved"
    /\ Move(s, "closing")
    /\ UNCHANGED <<held, kernel>>

OpenFile(s) ==
    /\ at[s] = "reserved"
    /\ Move(s, "opened")
    /\ UNCHANGED <<held, kernel>>

\* F_SETLK succeeds when no other process has the lock.
SetLock(s) ==
    /\ at[s] = "opened"
    /\ kernel \in {Nobody, ProcessOf[s]}
    /\ kernel' = ProcessOf[s]
    /\ Move(s, "locked")
    /\ UNCHANGED held

\* A plausible bug: F_SETLKW, which waits until the other process is done.
SetLockWaits(s) ==
    /\ at[s] = "opened"
    /\ kernel \notin {Nobody, ProcessOf[s]}
    /\ UNCHANGED lockVars

\* It fails otherwise, and may fail for another reason (no lock left in the
\* kernel's table); the descriptor is closed either way.
SetLockFails(s) ==
    /\ at[s] = "opened"
    /\ kernel' = AfterClose(ProcessOf[s])
    /\ Move(s, "closing")
    /\ UNCHANGED held

\* Truncating, writing or syncing the lock file fails; the descriptor is closed.
WritePidFails(s) ==
    /\ at[s] = "locked"
    /\ kernel' = AfterClose(ProcessOf[s])
    /\ Move(s, "closing")
    /\ UNCHANGED held

WritePid(s) ==
    /\ at[s] = "locked"
    /\ Move(s, "owner")
    /\ UNCHANGED <<held, kernel>>

-----------------------------------------------------------------------------
(***************************************************************************)
(* storeLock.Close: unlock, close the descriptor, drop the reservation.     *)
(***************************************************************************)

\* A plausible bug: the reservation is dropped before the descriptor is closed.
UnlockUnreserving(s) ==
    /\ at[s] = "owner"
    /\ kernel' = AfterClose(ProcessOf[s])
    /\ held' = [held EXCEPT ![ProcessOf[s]] = FALSE]
    /\ Move(s, "unlocked")

Unlock(s) ==
    /\ at[s] = "owner"
    /\ kernel' = AfterClose(ProcessOf[s])
    /\ Move(s, "unlocked")
    /\ UNCHANGED held

CloseFile(s) ==
    /\ at[s] = "unlocked"
    /\ kernel' = AfterClose(ProcessOf[s])
    /\ Move(s, "closing")
    /\ UNCHANGED held

\* A plausible bug: the reservation is never dropped.
UnreserveForgotten(s) ==
    /\ at[s] = "closing"
    /\ Move(s, "idle")
    /\ UNCHANGED <<held, kernel>>

Unreserve(s) ==
    /\ at[s] = "closing"
    /\ held' = [held EXCEPT ![ProcessOf[s]] = FALSE]
    /\ Move(s, "idle")
    /\ UNCHANGED kernel

\* The kernel drops the locks of a process that dies; its map dies with it.
Die(p) ==
    /\ \E s \in Stores : ProcessOf[s] = p /\ at[s] # "idle"
    /\ held' = [held EXCEPT ![p] = FALSE]
    /\ kernel' = AfterClose(p)
    /\ at' = [s \in Stores |-> IF ProcessOf[s] = p THEN "idle" ELSE at[s]]

StoreNext(s) ==
    \/ Reserve(s)
    \/ OpenFileFails(s)
    \/ OpenFile(s)
    \/ SetLock(s)
    \/ SetLockFails(s)
    \/ WritePidFails(s)
    \/ WritePid(s)
    \/ Unlock(s)
    \/ CloseFile(s)
    \/ Unreserve(s)

LockNext ==
    \/ \E s \in Stores : StoreNext(s)
    \/ \E p \in Processes : Die(p)

LockSpec == LockInit /\ [][LockNext]_lockVars

\* Calls return: an instance that has begun to acquire or to close goes on.
LockFairness ==
    \A s \in Stores :
        /\ WF_lockVars(OpenFile(s) \/ OpenFileFails(s))
        /\ WF_lockVars(SetLock(s) \/ SetLockFails(s))
        /\ WF_lockVars(WritePid(s) \/ WritePidFails(s))
        /\ WF_lockVars(CloseFile(s))
        /\ WF_lockVars(Unreserve(s))

FairLockSpec == LockSpec /\ LockFairness

-----------------------------------------------------------------------------

\* Type invariant: map, lock and places keep their types.
LockTypeOK ==
    /\ held \in [Processes -> BOOLEAN]
    /\ kernel \in Processes \cup {Nobody}
    /\ at \in [Stores -> Places]

\* Instance s has the record lock of its process.
Locking(s) == at[s] \in {"locked", "owner"}

\* The map and the record lock say the same of every instance: a process's
\* reservation stands exactly while one of its instances is under way, for that
\* one instance, and the record lock is with a process exactly while one of its
\* instances has taken it and not begun to give it back.
LockInv ==
    /\ LockTypeOK
    /\ \A s \in Stores : at[s] # "idle" => held[ProcessOf[s]]
    /\ \A p \in Processes : held[p] => \E s \in Stores : ProcessOf[s] = p /\ at[s] # "idle"
    /\ \A s, t \in Stores :
          ProcessOf[s] = ProcessOf[t] /\ at[s] # "idle" /\ at[t] # "idle" => s = t
    /\ \A s \in Stores : Locking(s) => kernel = ProcessOf[s]
    /\ kernel # Nobody => \E s \in Stores : ProcessOf[s] = kernel /\ Locking(s)

\* No two Store instances own one directory, in one process or in two, and
\* the owner's process has the record lock for as long as it believes so (the
\* error of acquireStoreLock: "store is already open by another process or Store
\* instance").
OneOwner ==
    /\ \A s, t \in Stores : at[s] = "owner" /\ at[t] = "owner" => s = t
    /\ \A s \in Stores : at[s] = "owner" => kernel = ProcessOf[s]

\* When no instance is using the lock, nothing of it is left behind that
\* would keep the next one out (architecture.md: "an unclean process exit does
\* not strand ownership").
NothingStranded ==
    (\A s \in Stores : at[s] = "idle") =>
        /\ kernel = Nobody
        /\ \A p \in Processes : ~held[p]

\* An attempt to acquire ends in ownership or in a refusal that leaves nothing.
AttemptEnds ==
    \A s \in Stores : at[s] = "reserved" ~> at[s] \in {"owner", "idle"}
=============================================================================
