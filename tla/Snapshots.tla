------------------------------ MODULE Snapshots ------------------------------
(***************************************************************************)
(* Snapshots of the store (snapshot.go) and the route that makes them       *)
(* (server.go): estimate, check of the free space, archive, pruning, under  *)
(* the mutex of the route; beside them the store, with all its faults.      *)
(*                                                                         *)
(* The estimate and the archive are each made under the store's read lock,  *)
(* and the store goes on between the two.  An archive is named by the       *)
(* clock.  Sizes are counted in node files.                                 *)
(***************************************************************************)
EXTENDS JaybaseStore

CONSTANTS
    Slack,     \* what the estimate adds to the size of the files
    Capacity,  \* size of the backup volume
    MinFree,   \* JAYBASE_SNAPSHOT_MIN_FREE_BYTES
    Width,     \* width of uint64, in bits
    Retain,    \* JAYBASE_SNAPSHOT_RETENTION
    MaxClock   \* bound: readings of the clock

\* Snapshots do not look at request IDs: the appends beside them carry none.
ASSUME SnapshotAssumption ==
    /\ PlainRequestIDs = {Empty}
    /\ Slack \in Nat
    /\ Capacity \in Nat
    /\ MinFree \in Nat
    /\ Width \in Nat
    /\ Capacity < 2^Width /\ MinFree < 2^Width
    /\ Retain \in Nat \ {0}
    /\ MaxClock \in Nat \ {0}

VARIABLES
    clock,       \* the wall clock
    archives,    \* the archive of each name in the backup directory
    partial,     \* size of a temporary archive that a process left when it died
    snap,        \* the request that holds snapshotMu
    answer,      \* the last answer to a request
    \* For properties only.
    steppedBack, \* has the clock been set back?
    pins         \* roots of answered snapshots that had settled in refs/root

snapVars == <<clock, archives, partial, snap, answer, steppedBack, pins>>
snapshotVars == <<vars, snapVars>>

Times == 1..MaxClock

NoArchive == [there |-> FALSE, root |-> NoNode, files |-> {}]

IdleRequest == [pc |-> "idle", estimate |-> 0, at |-> 1, settled |-> FALSE]

NoAnswer == [kind |-> "none", at |-> 1, root |-> NoNode]

SnapshotInit ==
    /\ Init
    /\ clock = 1
    /\ archives = [t \in Times |-> NoArchive]
    /\ partial = 0
    /\ snap = IdleRequest
    /\ answer = NoAnswer
    /\ steppedBack = FALSE
    /\ pins = {}

-----------------------------------------------------------------------------

Present(as) == {t \in Times : as[t].there}

\* The node files in the archives, each with the archive that holds it.
Stored(as) == {p \in Times \X Nodes : as[p[1]].there /\ p[2] \in as[p[1]].files}

\* The space that the backup directory takes.
Used(as, extra) == extra + Cardinality(Stored(as))

Available == Capacity - Used(archives, partial)

\* SnapshotSizeEstimate, for which the route takes snapshotMu.
SnapshotSizeEstimate ==
    /\ pc = "open"
    /\ snap.pc = "idle"
    /\ snap' = [IdleRequest EXCEPT !.pc = "estimated", !.estimate = Cardinality(files) + Slack]
    /\ answer' = NoAnswer
    /\ UNCHANGED <<vars, clock, archives, partial, steppedBack, pins>>

Reply(kind, at, r) ==
    /\ answer' = [kind |-> kind, at |-> at, root |-> r]
    /\ snap' = IdleRequest

\* A plausible bug: the reserve is subtracted before it is compared.
HasSpaceWrapped(estimate) == ~((Available - MinFree) % 2^Width < estimate)

\* available < minFree || available-minFree < estimate, in uint64.
HasSpace(estimate) ==
    /\ ~(Available < MinFree)
    /\ ~((Available - MinFree) % 2^Width < estimate)

CheckSpace ==
    /\ snap.pc = "estimated"
    /\ IF HasSpace(snap.estimate)
       THEN snap' = [snap EXCEPT !.pc = "checked"] /\ UNCHANGED answer
       ELSE Reply("capacity", 1, NoNode)
    /\ UNCHANGED <<vars, clock, archives, partial, steppedBack, pins>>

\* A plausible bug: the archive takes the nodes of the index with the root of
\* the disk.
ArchivedFilesIndexed == {history[i] : i \in 1..Len(history)}

\* Walk of objects/nodes: every file, whether it is in the history or not.
ArchivedFiles == files

Archive == [there |-> TRUE, root |-> root, files |-> ArchivedFiles]

\* CreateSnapshot: the archive of the present root under the present time.
\* It is renamed into place and the directory synced, or the request fails, for
\* want of space or otherwise, before the rename or after it.
CreateSnapshot(ok, renamed) ==
    /\ pc = "open"
    /\ snap.pc = "checked"
    /\ ok => renamed
    /\ renamed => Cardinality(ArchivedFiles) <= Available
    /\ archives' = IF renamed THEN [archives EXCEPT ![clock] = Archive] ELSE archives
    /\ IF ok
       THEN /\ snap' = [snap EXCEPT !.pc = "written", !.at = clock,
                                    !.settled = (rootSurvivors = {root})]
            /\ UNCHANGED answer
       ELSE Reply("failed", 1, NoNode)
    /\ UNCHANGED <<vars, clock, partial, steppedBack, pins>>

\* A plausible bug: the names are sorted the other way round.
FirstPrunedNewest(ts, k) == {t \in ts : Cardinality({u \in ts : u > t}) < k}

\* The first k names in the order of slices.Sort.
FirstPruned(ts, k) == {t \in ts : Cardinality({u \in ts : u < t}) < k}

\* How many names are above the retention.
Surplus == IF Cardinality(Present(archives)) > Retain
           THEN Cardinality(Present(archives)) - Retain ELSE 0

\* pruneSnapshots: it stops after k removals when one fails, which is only
\* logged, and the archive is answered with 201.
PruneSnapshots(k) ==
    /\ snap.pc = "written"
    /\ k \in 0..Surplus
    /\ archives' = [t \in Times |-> IF t \in FirstPruned(Present(archives), k) THEN NoArchive
                                    ELSE archives[t]]
    /\ Reply("created", snap.at, archives[snap.at].root)
    /\ pins' = IF snap.settled THEN pins \cup ({archives[snap.at].root} \ {NoNode}) ELSE pins
    /\ UNCHANGED <<vars, clock, partial, steppedBack>>

\* The wall clock moves, or is set back.
ClockMoves(t) ==
    /\ t # clock
    /\ clock' = t
    /\ steppedBack' = (steppedBack \/ t < clock)
    /\ UNCHANGED <<vars, archives, partial, snap, answer, pins>>

\* The process or the machine dies and the request with it.  A temporary
\* archive stays if one was being written: its name is not one that is pruned.
\* (A removal that a power loss undoes is a removal that failed.)
SnapshotDies ==
    /\ ProcessCrash \/ PowerLoss
    /\ partial' \in {partial} \cup
           (IF snap.pc = "checked" /\ partial = 0 /\ Available > 0 THEN {1} ELSE {})
    /\ snap' = IdleRequest
    /\ answer' = NoAnswer
    /\ UNCHANGED <<clock, archives, steppedBack, pins>>

\* The store's own steps.
StoreBeside ==
    /\ \/ OpenStore
       \/ WalkStep
       \/ RebuildIndexes
       \/ \E h \in RequestHashes : PlainAppend(Empty, h, root)
       \/ LinkNode
       \/ SyncNodesDir
       \/ RenameRoot
       \/ SyncRefsDir
       \/ AppendIOError
    /\ UNCHANGED snapVars

\* Close, when no request is under way.
SnapshotClose ==
    /\ snap.pc = "idle"
    /\ Close
    /\ UNCHANGED snapVars

SnapshotNext ==
    \/ SnapshotSizeEstimate
    \/ CheckSpace
    \/ \E ok, renamed \in BOOLEAN : CreateSnapshot(ok, renamed)
    \/ \E k \in 0..MaxClock : PruneSnapshots(k)
    \/ \E t \in Times : ClockMoves(t)
    \/ SnapshotDies
    \/ StoreBeside
    \/ SnapshotClose

SnapshotSpec == SnapshotInit /\ [][SnapshotNext]_snapshotVars

-----------------------------------------------------------------------------

\* Every archive can be restored: the root in it starts a complete chain of
\* the node files in it, although appends had failed half-way or died before it
\* was made (snapshot.go: "a consistent gzip-compressed tar archive containing all
\* encrypted nodes and refs").
ArchivesRestore ==
    \A t \in Present(archives) : Loadable(archives[t].root, archives[t].files)

\* The root of a snapshot that was answered, when it had settled in refs/root,
\* is in the live history ever after: a server that pins it as its minimum root is
\* ready and takes writes after any crash, power loss and restart, and its operator
\* is not told of a rollback that never happened (operations.md: "prove that the
\* recorded root is still in live history").
PinnedRootPresent ==
    pc = "open" /\ IndexIsCurrent => \A r \in pins \cup {NoNode} : Ready(r)

\* The archive that the answer names is there when it is answered and holds
\* the root that is answered, unless the clock has been set back: then pruning can
\* take the newest archive for the oldest (operations.md: "Jaybase deletes the
\* oldest matching jaybase-*.tar.gz files").
AnsweredArchiveKept ==
    answer.kind = "created" /\ ~steppedBack =>
        /\ archives[answer.at].there
        /\ archives[answer.at].root = answer.root

\* An archive leaves the reserve free, but for what appends have added to
\* the store beyond the slack of the estimate between the check and the archive
\* (operations.md: the reserve "is preserved in addition to the estimated snapshot
\* size").
ReserveKept ==
    snap.pc = "written" =>
        LET size  == Cardinality(archives[snap.at].files)
            grown == IF size > snap.estimate THEN size - snap.estimate ELSE 0
        IN  Available + grown >= MinFree
=============================================================================
