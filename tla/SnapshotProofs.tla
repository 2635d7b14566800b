--------------------------- MODULE SnapshotProofs ---------------------------
(***************************************************************************)
(* Proofs about the snapshots of the store.                                 *)
(***************************************************************************)
EXTENDS Snapshots, StoreProofs, FiniteSetTheorems

\* Beside snapshots, a step of the store is a step of JaybaseStore.
LEMMA SnapshotStoreStep ==
    ASSUME TypeOK, [SnapshotNext]_snapshotVars
    PROVE  [Next]_vars
<1>1. \A h \in RequestHashes : PlainAppend(Empty, h, root) => Next
  BY SnapshotAssumption DEF Next, TypeOK
<1>2. StoreBeside => Next
  BY <1>1 DEF StoreBeside, Next
<1>3. SnapshotClose \/ SnapshotDies => Next
  BY DEF SnapshotClose, SnapshotDies, Next
<1>4. SnapshotSizeEstimate \/ CheckSpace => UNCHANGED vars
  BY DEF SnapshotSizeEstimate, CheckSpace
<1>5. \A ok, renamed \in BOOLEAN : CreateSnapshot(ok, renamed) => UNCHANGED vars
  BY DEF CreateSnapshot
<1>6. \A k \in 0..MaxClock : PruneSnapshots(k) => UNCHANGED vars
  BY DEF PruneSnapshots
<1>7. \A t \in Times : ClockMoves(t) => UNCHANGED vars
  BY DEF ClockMoves
<1> QED BY <1>2, <1>3, <1>4, <1>5, <1>6, <1>7 DEF SnapshotNext, snapshotVars

-----------------------------------------------------------------------------
(***************************************************************************)
(* Types.                                                                   *)
(***************************************************************************)

ArchiveRecord == [there : BOOLEAN, root : Roots, files : SUBSET Nodes]

RequestRecord == [pc       : {"idle", "estimated", "checked", "written"},
                  estimate : Nat,
                  at       : Times,
                  settled  : BOOLEAN]

AnswerRecord == [kind : {"none", "capacity", "failed", "created"}, at : Times, root : Roots]

SnapTypeOK ==
    /\ clock \in Times
    /\ archives \in [Times -> ArchiveRecord]
    /\ partial \in 0..1
    /\ snap \in RequestRecord
    /\ answer \in AnswerRecord
    /\ steppedBack \in BOOLEAN
    /\ pins \subseteq Nodes

\* The records that stand for nothing have their types.
LEMMA NothingTypes ==
    /\ NoArchive \in ArchiveRecord
    /\ IdleRequest \in RequestRecord
    /\ NoAnswer \in AnswerRecord
    /\ NoNode \in Roots
    /\ 1 \in Times
  BY StoreAssumption, SnapshotAssumption
     DEF NoArchive, IdleRequest, NoAnswer, ArchiveRecord, RequestRecord, AnswerRecord,
         NoNode, Roots, Nodes, Times

\* The initial state has its types.
LEMMA SnapTypeInit == SnapshotInit => SnapTypeOK
<1> SUFFICES ASSUME SnapshotInit PROVE SnapTypeOK
  OBVIOUS
<1>1. archives \in [Times -> ArchiveRecord]
  BY NothingTypes DEF SnapshotInit
<1>2. steppedBack \in BOOLEAN
  BY DEF SnapshotInit
<1>3. partial \in 0..1
  BY DEF SnapshotInit
<1> QED BY <1>1, <1>2, <1>3, NothingTypes DEF SnapshotInit, SnapTypeOK

\* Every step keeps them.
LEMMA SnapTypeStep ==
    ASSUME TypeOK, SnapTypeOK, [SnapshotNext]_snapshotVars
    PROVE  SnapTypeOK'
<1> USE NothingTypes
<1>1. CASE SnapshotSizeEstimate
  <2>1. files \subseteq 1..MaxNodes /\ 1 \in Int /\ MaxNodes \in Int
    BY StoreAssumption DEF TypeOK, Nodes
  <2>2. Cardinality(files) \in Nat
    BY <2>1, FS_Interval, FS_Subset, FS_CardinalityType
  <2>3. Cardinality(files) + Slack \in Nat
    BY <2>2, SnapshotAssumption
  <2>4. snap' \in RequestRecord
    BY <1>1, <2>3 DEF SnapshotSizeEstimate, IdleRequest, RequestRecord
  <2> QED BY <1>1, <2>4 DEF SnapshotSizeEstimate, SnapTypeOK
<1>2. CASE CheckSpace
  <2>1. CASE UNCHANGED answer /\ snap' = [snap EXCEPT !.pc = "checked"]
    <3>1. snap' \in RequestRecord
      BY <2>1 DEF SnapTypeOK, RequestRecord
    <3> QED BY <1>2, <2>1, <3>1 DEF CheckSpace, SnapTypeOK
  <2>2. CASE Reply("capacity", 1, NoNode)
    <3>1. answer' \in AnswerRecord
      BY <2>2 DEF Reply, AnswerRecord
    <3> QED BY <1>2, <2>2, <3>1 DEF CheckSpace, Reply, SnapTypeOK
  <2> QED BY <1>2, <2>1, <2>2 DEF CheckSpace
<1>3. ASSUME NEW ok \in BOOLEAN, NEW renamed \in BOOLEAN, CreateSnapshot(ok, renamed)
      PROVE  SnapTypeOK'
  <2>1. Archive \in ArchiveRecord
    BY DEF Archive, ArchivedFiles, ArchiveRecord, TypeOK
  <2>2. archives' \in [Times -> ArchiveRecord]
    BY <1>3, <2>1 DEF CreateSnapshot, SnapTypeOK
  <2>3. CASE ok
    <3>1. PICK b \in BOOLEAN : b = (rootSurvivors = {root})
      OBVIOUS
    <3>2. snap' = [snap EXCEPT !.pc = "written", !.at = clock, !.settled = b] /\ UNCHANGED answer
      BY <1>3, <2>3, <3>1 DEF CreateSnapshot
    <3>3. snap' \in RequestRecord
      BY <3>2 DEF SnapTypeOK, RequestRecord
    <3> QED BY <1>3, <2>2, <3>2, <3>3 DEF CreateSnapshot, SnapTypeOK
  <2>4. CASE ~ok
    <3>1. Reply("failed", 1, NoNode)
      BY <1>3, <2>4 DEF CreateSnapshot
    <3>2. answer' \in AnswerRecord
      BY <3>1 DEF Reply, AnswerRecord
    <3> QED BY <1>3, <2>2, <3>1, <3>2 DEF CreateSnapshot, SnapTypeOK, Reply
  <2> QED BY <2>3, <2>4
<1>4. ASSUME NEW k \in 0..MaxClock, PruneSnapshots(k)
      PROVE  SnapTypeOK'
  <2>1. archives' \in [Times -> ArchiveRecord]
    BY <1>4 DEF PruneSnapshots, SnapTypeOK
  <2>2. archives[snap.at].root \in Roots /\ snap.at \in Times
    BY DEF SnapTypeOK, RequestRecord, ArchiveRecord
  <2>3. answer' \in AnswerRecord /\ snap' \in RequestRecord
    BY <1>4, <2>2 DEF PruneSnapshots, Reply, AnswerRecord
  <2>4. {archives[snap.at].root} \ {NoNode} \subseteq Nodes
    BY <2>2, StoreAssumption DEF Roots, Nodes, NoNode
  <2>5. pins' \subseteq Nodes
    BY <1>4, <2>4 DEF PruneSnapshots, SnapTypeOK
  <2> QED BY <1>4, <2>1, <2>3, <2>5 DEF PruneSnapshots, SnapTypeOK
<1>5. ASSUME NEW t \in Times, ClockMoves(t)
      PROVE  SnapTypeOK'
  <2>1. PICK b \in BOOLEAN : b = (steppedBack \/ t < clock)
    OBVIOUS
  <2>2. steppedBack' \in BOOLEAN
    BY <1>5, <2>1 DEF ClockMoves
  <2> QED BY <1>5, <2>2 DEF ClockMoves, SnapTypeOK
<1>6. CASE SnapshotDies
  <2>1. partial' \in 0..1
    BY <1>6 DEF SnapshotDies, SnapTypeOK
  <2> QED BY <1>6, <2>1 DEF SnapshotDies, SnapTypeOK
<1>7. CASE UNCHANGED snapVars
  BY <1>7 DEF snapVars, SnapTypeOK
<1> QED
  BY <1>1, <1>2, <1>3, <1>4, <1>5, <1>6, <1>7
     DEF SnapshotNext, StoreBeside, SnapshotClose, snapshotVars

\* An archive that has been written is in its place.
LEMMA Written ==
    ASSUME SnapTypeOK, NEW ok \in BOOLEAN, NEW renamed \in BOOLEAN, CreateSnapshot(ok, renamed),
           snap'.pc = "written"
    PROVE  /\ snap'.at = clock
           /\ snap'.estimate = snap.estimate
           /\ snap'.settled => rootSurvivors = {root}
           /\ archives' = [archives EXCEPT ![clock] = Archive]
           /\ archives'[clock] = Archive
<1>1. ok
  BY DEF CreateSnapshot, Reply, IdleRequest
<1>2. PICK b \in BOOLEAN : b = (rootSurvivors = {root})
  OBVIOUS
<1>3. snap' = [snap EXCEPT !.pc = "written", !.at = clock, !.settled = b]
  BY <1>1, <1>2 DEF CreateSnapshot
<1>4. archives' = [archives EXCEPT ![clock] = Archive]
  BY <1>1 DEF CreateSnapshot
<1> QED BY <1>2, <1>3, <1>4 DEF SnapTypeOK, RequestRecord

-----------------------------------------------------------------------------
(***************************************************************************)
(* Archives can be restored.                                                *)
(***************************************************************************)

\* Archive a holds only nodes that have been minted, which never change.
Restorable(a) ==
    /\ a.files \subseteq 1..minted
    /\ Loadable(a.root, a.files)

ArchiveInv == \A t \in Present(archives) : Restorable(archives[t])

\* What can be restored can still be restored after a step.
LEMMA RestorableStep ==
    ASSUME TypeOK, DiskInv, [Next]_vars, NEW a, Restorable(a)
    PROVE  Restorable(a)'
<1>1. PICK A \in SUBSET a.files : ParentClosed(A) /\ Holds(A, a.root) /\ OneNodeEach(A)
  BY DEF Restorable, Loadable
<1>2. minted <= minted' /\ \A n \in 1..minted : node'[n] = node[n]
  BY StepFrame
<1>3. minted \in Int /\ minted' \in Int
  BY TypeStep, StoreAssumption DEF TypeOK
<1>4. ParentClosed(A)' /\ Holds(A, a.root)' /\ OneNodeEach(A)'
  BY <1>1, <1>2 DEF ParentClosed, Holds, OneNodeEach, Restorable
<1>5. a.files \subseteq 1..minted'
  BY <1>2, <1>3 DEF Restorable
<1> QED BY <1>4, <1>5 DEF Restorable, Loadable

\* The archive that CreateSnapshot makes can be restored.
LEMMA NewArchiveLoads ==
    ASSUME TypeOK, StoreInv
    PROVE  Restorable(Archive)
<1>1. Archive.root = root /\ Archive.files = files
  BY DEF Archive, ArchivedFiles
<1>2. root \in rootSurvivors /\ files \subseteq 1..minted
  BY DEF StoreInv, DurabilityInv, DiskInv
<1>3. PICK A \in SUBSET durable : ParentClosed(A) /\ Holds(A, root) /\ Unshared(A)
  BY <1>2, RootsLoad
<1>4. A \subseteq files
  BY <1>3 DEF TypeOK
<1>5. OneNodeEach(A)
  BY <1>3, SnapshotAssumption DEF Unshared, OneNodeEach, Shareable
<1> QED BY <1>1, <1>2, <1>3, <1>4, <1>5 DEF Restorable, Loadable

\* Every step keeps the archives such that they can be restored.
LEMMA ArchiveInvStep ==
    ASSUME TypeOK, StoreInv, SnapTypeOK, ArchiveInv, [SnapshotNext]_snapshotVars
    PROVE  ArchiveInv'
<1> SUFFICES ASSUME NEW t \in Times, archives'[t].there
             PROVE  Restorable(archives[t])'
  BY DEF ArchiveInv, Present
<1>1. PICK a : a = archives'[t]
  OBVIOUS
<1>2. ASSUME Restorable(a) PROVE Restorable(archives[t])'
  <2>1. Restorable(a)'
    BY <1>2, SnapshotStoreStep, RestorableStep DEF StoreInv, DurabilityInv
  <2> QED BY <1>1, <2>1
<1>3. CASE archives'[t] = archives[t]
  BY <1>1, <1>2, <1>3 DEF ArchiveInv, Present
<1>4. ASSUME NEW ok \in BOOLEAN, NEW renamed \in BOOLEAN, CreateSnapshot(ok, renamed)
      PROVE  archives'[t] = archives[t] \/ archives'[t] = Archive
  BY <1>4 DEF CreateSnapshot, SnapTypeOK
<1>5. CASE archives'[t] = Archive
  BY <1>1, <1>2, <1>5, NewArchiveLoads
<1>6. ASSUME NEW k \in 0..MaxClock, PruneSnapshots(k)
      PROVE  archives'[t] = archives[t]
  BY <1>6 DEF PruneSnapshots, NoArchive
<1> QED
  BY <1>3, <1>4, <1>5, <1>6
     DEF SnapshotNext, SnapshotSizeEstimate, CheckSpace, ClockMoves, SnapshotDies, StoreBeside,
         SnapshotClose, snapshotVars, snapVars

-----------------------------------------------------------------------------
(***************************************************************************)
(* Pinned roots stay in the history.                                        *)
(***************************************************************************)

\* Node n is in every history that a power loss may leave.
Settled(n) == \A r \in rootSurvivors : InChain(n, r)

\* What is settled stays settled.
LEMMA SettledStep ==
    ASSUME TypeOK, DiskInv, PendingInv, [Next]_vars, NEW n, Settled(n)
    PROVE  Settled(n)'
<1>1. \A r : InChain(n, r) => InChain(n, r)'
  BY ChainStep
<1>2. CASE rootSurvivors' \subseteq rootSurvivors
  BY <1>1, <1>2 DEF Settled
<1>3. CASE RenameRoot
  <2>1. pending \in Nodes /\ node[pending].parent = root /\ root \in rootSurvivors
    BY <1>3 DEF RenameRoot, PendingInv, Appending, DiskInv, TypeOK
  <2>2. root = NoNode \/ InChain(root, pending)
    BY <2>1, ChainParent
  <2>3. InChain(n, pending)
    BY <2>1, <2>2, ChainTransitive DEF Settled
  <2> QED BY <1>1, <1>3, <2>3 DEF RenameRoot, Settled
<1>4. CASE SyncRefsDir
  BY <1>2, <1>4 DEF SyncRefsDir, DiskInv
<1>5. CASE PowerLoss
  BY <1>2, <1>5 DEF PowerLoss
<1> QED
  BY <1>2, <1>3, <1>4, <1>5, StepCases
     DEF vars, disk, AnswersAtOnce, Mints, MintNode, OpenStore, WalkStep, RebuildIndexes,
         OpenFails, Close, LinkNode, SyncNodesDir, AppendIOError, ProcessCrash

\* The root of the archive that has been written and is not yet answered, if
\* refs/root had settled, and the roots of those that have been answered.
PinInv ==
    /\ \A r \in pins : Settled(r)
    /\ snap.pc = "written" /\ snap.settled =>
           archives[snap.at].root = NoNode \/ Settled(archives[snap.at].root)

\* Every step keeps them in the history.
LEMMA PinInvStep ==
    ASSUME TypeOK, StoreInv, SnapTypeOK, PinInv, [SnapshotNext]_snapshotVars
    PROVE  PinInv'
<1>1. \A n : Settled(n) => Settled(n)'
  BY SnapshotStoreStep, SettledStep DEF StoreInv, DurabilityInv
<1>2. CASE pins' = pins /\ snap'.pc # "written"
  BY <1>1, <1>2 DEF PinInv
<1>3. CASE UNCHANGED <<pins, snap, archives>>
  <2>1. PICK r : r = archives[snap.at].root
    OBVIOUS
  <2>2. snap.pc = "written" /\ snap.settled => r = NoNode \/ Settled(r)
    BY <2>1 DEF PinInv
  <2>3. snap.pc = "written" /\ snap.settled => r = NoNode \/ Settled(r)'
    BY <1>1, <2>2
  <2>4. (archives[snap.at].root)' = r
    BY <1>3, <2>1
  <2>5. (snap.pc = "written" /\ snap.settled =>
            archives[snap.at].root = NoNode \/ Settled(archives[snap.at].root))'
    BY <1>3, <2>3, <2>4
  <2>6. (\A s \in pins : Settled(s))'
    BY <1>1, <1>3 DEF PinInv
  <2> QED BY <2>5, <2>6 DEF PinInv
<1>4. ASSUME NEW ok \in BOOLEAN, NEW renamed \in BOOLEAN, CreateSnapshot(ok, renamed)
      PROVE  PinInv'
  <2>1. CASE snap'.pc # "written"
    BY <1>2, <1>4, <2>1 DEF CreateSnapshot
  <2>2. CASE snap'.pc = "written"
    <3>1. /\ snap'.settled => rootSurvivors = {root}
          /\ (archives[snap.at].root)' = root
      BY <1>4, <2>2, Written DEF Archive
    <3>2. ASSUME snap'.settled, root # NoNode PROVE Settled(root)
      <4>1. root \in Nodes
        BY <3>2 DEF TypeOK, Roots, Nodes, NoNode
      <4> QED BY <3>1, <3>2, <4>1, ChainParent DEF Settled
    <3>3. PICK r : r = root
      OBVIOUS
    <3>4. snap'.settled => r = NoNode \/ Settled(r)'
      BY <1>1, <3>2, <3>3
    <3>5. (\A s \in pins : Settled(s))'
      BY <1>1, <1>4 DEF CreateSnapshot, PinInv
    <3> QED BY <3>1, <3>3, <3>4, <3>5 DEF PinInv
  <2> QED BY <2>1, <2>2
<1>5. ASSUME NEW k \in 0..MaxClock, PruneSnapshots(k)
      PROVE  PinInv'
  <2>1. snap'.pc # "written"
    BY <1>5 DEF PruneSnapshots, Reply, IdleRequest
  <2>2. \A r \in pins' : Settled(r)
    BY <1>5 DEF PruneSnapshots, PinInv
  <2> QED BY <1>1, <2>1, <2>2 DEF PinInv
<1>6. CASE SnapshotSizeEstimate
  BY <1>2, <1>6 DEF SnapshotSizeEstimate, IdleRequest
<1>7. CASE CheckSpace
  <2>1. snap'.pc # "written"
    BY <1>7 DEF CheckSpace, Reply, IdleRequest, SnapTypeOK, RequestRecord
  <2> QED BY <1>2, <1>7, <2>1 DEF CheckSpace
<1>8. CASE SnapshotDies
  BY <1>2, <1>8 DEF SnapshotDies, IdleRequest
<1> QED
  BY <1>3, <1>4, <1>5, <1>6, <1>7, <1>8
     DEF SnapshotNext, ClockMoves, StoreBeside, SnapshotClose, snapshotVars, snapVars

-----------------------------------------------------------------------------
(***************************************************************************)
(* The archive that is answered is kept.                                    *)
(***************************************************************************)

\* While the clock only goes forward, the archive just written is the newest.
KeptInv ==
    /\ snap.pc = "written" => archives[snap.at].there
    /\ ~steppedBack =>
           \A t \in Present(archives) : t <= clock /\ (snap.pc = "written" => t <= snap.at)
    /\ answer.kind = "created" => snap.pc = "idle"
    /\ AnsweredArchiveKept

\* A set of names is finite.
LEMMA NamesFinite ==
    ASSUME NEW P \in SUBSET Times
    PROVE  IsFiniteSet(P) /\ Cardinality(P) \in Nat
<1>1. 1 \in Int /\ MaxClock \in Int
  BY SnapshotAssumption
<1>2. IsFiniteSet(Times)
  BY <1>1, FS_Interval DEF Times
<1>3. IsFiniteSet(P)
  BY <1>2, FS_Subset
<1> QED BY <1>3, FS_CardinalityType

\* Pruning down to at least one name spares the last.
LEMMA NewestSpared ==
    ASSUME NEW P \in SUBSET Times, NEW newest \in P, \A t \in P : t <= newest,
           NEW k \in Nat, k = 0 \/ k <= Cardinality(P) - Retain
    PROVE  newest \notin FirstPruned(P, k)
<1>1. MaxClock \in Int /\ Retain \in Int /\ Retain >= 1
  BY SnapshotAssumption
<1>2. IsFiniteSet(P)
  BY NamesFinite
<1>3. {u \in P : u < newest} = P \ {newest}
  <2>1. \A u \in P : u \in Int
    BY <1>1 DEF Times
  <2>2. \A u \in P : u < newest <=> u # newest
    BY <2>1
  <2> QED BY <2>2
<1>4. Cardinality(P \ {newest}) = Cardinality(P) - 1 /\ IsFiniteSet(P \ {newest})
  BY <1>2, FS_RemoveElement
<1>5. Cardinality(P) \in Nat /\ Cardinality(P \ {newest}) \in Nat
  BY <1>2, <1>4, FS_CardinalityType
<1>6. ~(Cardinality(P \ {newest}) < k)
  BY <1>1, <1>4, <1>5
<1> QED BY <1>3, <1>6 DEF FirstPruned

\* Pruning keeps the archive that it answers.
LEMMA PrunedKept ==
    ASSUME SnapTypeOK, KeptInv, NEW k \in 0..MaxClock, PruneSnapshots(k)
    PROVE  KeptInv'
<1>1. /\ snap.pc = "written" /\ snap.at \in Times
      /\ snap' = IdleRequest
      /\ answer' = [kind |-> "created", at |-> snap.at, root |-> archives[snap.at].root]
      /\ archives' = [t \in Times |-> IF t \in FirstPruned(Present(archives), k) THEN NoArchive
                                      ELSE archives[t]]
      /\ UNCHANGED <<clock, steppedBack>>
  BY DEF PruneSnapshots, Reply, SnapTypeOK, RequestRecord
<1>2. Present(archives)' \subseteq Present(archives)
  BY <1>1 DEF Present, NoArchive
<1>3. ASSUME ~steppedBack
      PROVE  archives'[snap.at] = archives[snap.at]
  <2>1. PICK P, newest : P = Present(archives) /\ newest = snap.at
    OBVIOUS
  <2>2. P \in SUBSET Times /\ newest \in P /\ \A t \in P : t <= newest
    BY <1>1, <1>3, <2>1 DEF KeptInv, Present
  <2>4. Cardinality(P) \in Nat
    BY <2>2, NamesFinite
  <2>5. k \in Nat /\ (k = 0 \/ k <= Cardinality(P) - Retain)
    BY <2>1, <2>4, SnapshotAssumption DEF PruneSnapshots, Surplus
  <2>6. newest \notin FirstPruned(P, k)
    BY <2>2, <2>5, NewestSpared
  <2> QED BY <1>1, <2>1, <2>6
<1>4. AnsweredArchiveKept'
  <2>1. answer'.at = snap.at /\ answer'.root = archives[snap.at].root
    BY <1>1
  <2>2. ~steppedBack' => archives'[answer'.at] = archives[snap.at]
    BY <1>1, <1>3, <2>1
  <2> QED BY <1>1, <2>1, <2>2 DEF AnsweredArchiveKept, KeptInv
<1>5. (~steppedBack => \A t \in Present(archives) : t <= clock)'
  BY <1>1, <1>2 DEF KeptInv
<1> QED BY <1>1, <1>4, <1>5 DEF KeptInv, IdleRequest

\* Every step keeps the archive that was answered.
LEMMA KeptInvStep ==
    ASSUME SnapTypeOK, KeptInv, [SnapshotNext]_snapshotVars
    PROVE  KeptInv'
<1>1. CASE SnapshotSizeEstimate
  BY <1>1 DEF SnapshotSizeEstimate, IdleRequest, NoAnswer, KeptInv, AnsweredArchiveKept, Present
<1>2. CASE CheckSpace
  <2>1. answer.kind # "created"
    BY <1>2 DEF CheckSpace, KeptInv
  <2>2. snap'.pc # "written" /\ answer'.kind # "created"
    BY <1>2, <2>1 DEF CheckSpace, Reply, IdleRequest, SnapTypeOK, RequestRecord
  <2> QED BY <1>2, <2>2 DEF CheckSpace, KeptInv, AnsweredArchiveKept, Present
<1>3. ASSUME NEW ok \in BOOLEAN, NEW renamed \in BOOLEAN, CreateSnapshot(ok, renamed)
      PROVE  KeptInv'
  <2>1. answer'.kind # "created"
    BY <1>3 DEF CreateSnapshot, Reply, KeptInv
  <2>2. Present(archives)' \subseteq Present(archives) \cup {clock}
    BY <1>3 DEF CreateSnapshot, Present, SnapTypeOK
  <2>3. snap'.pc = "written" => snap'.at = clock /\ archives'[clock].there
    BY <1>3, Written DEF Archive
  <2>4. clock \in Int
    BY SnapshotAssumption DEF SnapTypeOK, Times
  <2>5. (~steppedBack =>
            \A t \in Present(archives) : t <= clock /\ (snap.pc = "written" => t <= snap.at))'
    BY <1>3, <2>2, <2>3, <2>4 DEF CreateSnapshot, KeptInv
  <2> QED BY <2>1, <2>3, <2>5 DEF KeptInv, AnsweredArchiveKept
<1>4. ASSUME NEW t \in Times, ClockMoves(t)
      PROVE  KeptInv'
  <2>1. /\ clock' = t
        /\ ~steppedBack' => ~steppedBack /\ ~(t < clock)
        /\ UNCHANGED <<archives, snap, answer>>
    BY <1>4 DEF ClockMoves
  <2>2. t \in Int /\ clock \in Int /\ Present(archives) \subseteq Int
    BY SnapshotAssumption DEF SnapTypeOK, Times, Present
  <2>3. (~steppedBack =>
            \A u \in Present(archives) : u <= clock /\ (snap.pc = "written" => u <= snap.at))'
    BY <2>1, <2>2 DEF KeptInv, Present
  <2> QED BY <2>1, <2>3 DEF KeptInv, AnsweredArchiveKept
<1>5. CASE SnapshotDies
  BY <1>5 DEF SnapshotDies, IdleRequest, NoAnswer, KeptInv, AnsweredArchiveKept, Present
<1>6. CASE UNCHANGED snapVars
  BY <1>6 DEF snapVars, KeptInv, AnsweredArchiveKept, Present
<1> QED
  BY <1>1, <1>2, <1>3, <1>4, <1>5, <1>6, PrunedKept
     DEF SnapshotNext, StoreBeside, SnapshotClose, snapshotVars

-----------------------------------------------------------------------------
(***************************************************************************)
(* The reserve.                                                             *)
(***************************************************************************)

ReserveInv ==
    /\ snap.pc = "checked" => Available - MinFree >= snap.estimate
    /\ ReserveKept

\* What the archives hold can be counted.
LEMMA StoredFinite ==
    ASSUME NEW as
    PROVE  IsFiniteSet(Stored(as)) /\ Cardinality(Stored(as)) \in Nat
<1>1. 1 \in Int /\ MaxClock \in Int /\ MaxNodes \in Int
  BY StoreAssumption, SnapshotAssumption
<1>2. IsFiniteSet(Times) /\ IsFiniteSet(Nodes)
  BY <1>1, FS_Interval DEF Times, Nodes
<1>3. IsFiniteSet(Times \X Nodes)
  BY <1>2, FS_Product
<1>4. Stored(as) \in SUBSET (Times \X Nodes)
  BY DEF Stored
<1>5. IsFiniteSet(Stored(as))
  BY <1>3, <1>4, FS_Subset
<1> QED BY <1>5, FS_CardinalityType

\* The number of node files in an archive.
LEMMA FilesFinite ==
    ASSUME NEW F \in SUBSET Nodes
    PROVE  IsFiniteSet(F) /\ Cardinality(F) \in Nat
<1>1. 1 \in Int /\ MaxNodes \in Int
  BY StoreAssumption
<1>2. IsFiniteSet(Nodes)
  BY <1>1, FS_Interval DEF Nodes
<1>3. IsFiniteSet(F)
  BY <1>2, FS_Subset
<1> QED BY <1>3, FS_CardinalityType

\* One more archive takes at most its own size.
LEMMA StoredGrows ==
    ASSUME NEW as, NEW bs, NEW t \in Times, NEW F \in SUBSET Nodes,
           \A u \in Times : u # t => bs[u] = as[u], bs[t].files = F
    PROVE  Cardinality(Stored(bs)) <= Cardinality(Stored(as)) + Cardinality(F)
<1>1. Stored(bs) \subseteq Stored(as) \cup ({t} \X F)
  BY DEF Stored
<1>2. IsFiniteSet({t}) /\ Cardinality({t}) = 1
  BY FS_Singleton
<1>3. IsFiniteSet(F) /\ Cardinality(F) \in Nat
  BY FilesFinite
<1>4. IsFiniteSet({t} \X F) /\ Cardinality({t} \X F) = 1 * Cardinality(F)
  BY <1>2, <1>3, FS_Product
<1>5. IsFiniteSet(Stored(as)) /\ Cardinality(Stored(as)) \in Nat
  BY StoredFinite
<1>6. /\ IsFiniteSet(Stored(as) \cup ({t} \X F))
      /\ Cardinality(Stored(as) \cup ({t} \X F)) =
            Cardinality(Stored(as)) + Cardinality({t} \X F) - Cardinality(Stored(as) \cap ({t} \X F))
  BY <1>4, <1>5, FS_Union
<1>7. Cardinality(Stored(as) \cap ({t} \X F)) \in Nat
  BY <1>4, FS_Intersection, FS_CardinalityType
<1>8. Cardinality(Stored(bs)) <= Cardinality(Stored(as) \cup ({t} \X F))
  BY <1>1, <1>6, FS_Subset
<1>9. Cardinality(Stored(bs)) \in Nat /\ Cardinality(Stored(as) \cup ({t} \X F)) \in Nat
  BY <1>6, StoredFinite, FS_CardinalityType
<1>10. PICK a, b, c, d, e : /\ a = Cardinality(Stored(as)) /\ b = Cardinality(F)
                            /\ c = Cardinality(Stored(as) \cap ({t} \X F))
                            /\ d = Cardinality(Stored(bs))
                            /\ e = Cardinality(Stored(as) \cup ({t} \X F))
  OBVIOUS
<1>11. a \in Nat /\ b \in Nat /\ c \in Nat /\ d \in Nat
  BY <1>3, <1>5, <1>7, <1>9, <1>10, Zenon
<1>12. e = a + b - c /\ d <= e
  <2>1. 1 * b = b
    BY <1>11
  <2>2. Cardinality({t} \X F) = b
    BY <1>4, <1>10, <2>1, Zenon
  <2>3. e = a + b - c
    BY <1>6, <1>10, <2>2, Zenon
  <2> QED BY <1>8, <1>10, <2>3, Zenon
<1>13. d <= a + b
  BY <1>11, <1>12
<1> QED BY <1>10, <1>13

\* The width of the integers gives a modulus.
LEMMA ModulusIsNat == 2^Width \in Nat
<1>1. 1 \in Int /\ Width \in Int /\ Width \in Nat
  BY SnapshotAssumption
<1>2. IsFiniteSet(1..Width) /\ Cardinality(1..Width) = IF 1 > Width THEN 0 ELSE Width - 1 + 1
  BY <1>1, FS_Interval
<1>3. Cardinality(1..Width) = Width
  BY <1>1, <1>2
<1>4. IsFiniteSet(SUBSET (1..Width)) /\ Cardinality(SUBSET (1..Width)) = 2^Width
  BY <1>2, <1>3, FS_SUBSET
<1> QED BY <1>4, FS_CardinalityType

\* A number below the modulus is its own remainder.
LEMMA SmallRemainder ==
    ASSUME NEW m \in Nat, NEW s \in Nat, s < m
    PROVE  s % m = s
  OBVIOUS

\* The comparison in unsigned integers means what it says: the reserve is
\* taken off only what exceeds it.
LEMMA SpaceMeansSpace ==
    ASSUME SnapTypeOK, NEW estimate \in Nat, HasSpace(estimate)
    PROVE  Available - MinFree >= estimate
<1>1. Cardinality(Stored(archives)) \in Nat /\ partial \in Nat
  BY StoredFinite DEF SnapTypeOK
<1>2. Available \in Int /\ Available <= Capacity
  BY <1>1, SnapshotAssumption DEF Available, Used
<1>3. PICK spare : spare = Available - MinFree
  OBVIOUS
<1>4. spare \in Nat /\ spare < 2^Width
  BY <1>2, <1>3, SnapshotAssumption, ModulusIsNat DEF HasSpace
<1>5. spare % 2^Width = spare
  BY <1>4, ModulusIsNat, SmallRemainder
<1> QED BY <1>3, <1>4, <1>5 DEF HasSpace

\* An archive made after the check leaves the reserve free, but for what the
\* store has grown.
LEMMA WrittenReserve ==
    ASSUME TypeOK, SnapTypeOK, ReserveInv,
           NEW ok \in BOOLEAN, NEW renamed \in BOOLEAN, CreateSnapshot(ok, renamed),
           snap'.pc = "written"
    PROVE  ReserveKept'
<1>1. /\ snap'.at = clock
      /\ snap'.estimate = snap.estimate
      /\ archives' = [archives EXCEPT ![clock] = Archive]
      /\ archives'[clock] = Archive
  BY Written
<1>2. Archive.files = files /\ files \in SUBSET Nodes /\ clock \in Times
  BY DEF Archive, ArchivedFiles, TypeOK, SnapTypeOK
<1>3. PICK as, bs, t, F : as = archives /\ bs = archives' /\ t = clock /\ F = files
  OBVIOUS
<1>4. /\ t \in Times /\ F \in SUBSET Nodes /\ bs[t].files = F
      /\ \A u \in Times : u # t => bs[u] = as[u]
  BY <1>1, <1>2, <1>3 DEF SnapTypeOK
<1>5. Cardinality(Stored(bs)) <= Cardinality(Stored(as)) + Cardinality(F)
  BY <1>4, StoredGrows
<1>6. /\ Cardinality(Stored(as)) \in Nat /\ Cardinality(Stored(bs)) \in Nat
      /\ Cardinality(F) \in Nat
  BY <1>4, StoredFinite, FilesFinite
<1>7. PICK a, b, size : /\ a = Cardinality(Stored(as)) /\ b = Cardinality(Stored(bs))
                        /\ size = Cardinality(F)
  OBVIOUS
<1>8. /\ a \in Nat /\ b \in Nat /\ size \in Nat /\ b <= a + size
      /\ partial \in Nat /\ snap.estimate \in Nat
  <2>1. a \in Nat /\ b \in Nat /\ size \in Nat /\ b <= a + size
    BY <1>5, <1>6, <1>7, Zenon
  <2> QED BY <2>1 DEF SnapTypeOK, RequestRecord
<1>9. Available = Capacity - (partial + a) /\ Available' = Capacity - (partial + b)
  BY <1>3, <1>7 DEF Available, Used, CreateSnapshot
<1>10. Available - MinFree >= snap.estimate
  BY DEF ReserveInv, CreateSnapshot
<1>11. Cardinality(archives[snap.at].files)' = size
  BY <1>1, <1>2, <1>3, <1>7
<1>12. Available' + (IF size > snap.estimate THEN size - snap.estimate ELSE 0) >= MinFree
  BY <1>8, <1>9, <1>10, SnapshotAssumption
<1> QED BY <1>1, <1>11, <1>12 DEF ReserveKept

\* Every step keeps the reserve.
LEMMA ReserveInvStep ==
    ASSUME TypeOK, SnapTypeOK, ReserveInv, [SnapshotNext]_snapshotVars
    PROVE  ReserveInv'
<1>1. CASE snap'.pc \in {"idle", "estimated"}
  BY <1>1 DEF ReserveInv, ReserveKept
<1>2. CASE SnapshotSizeEstimate \/ SnapshotDies
  <2>1. SnapshotSizeEstimate => snap'.pc = "estimated"
    BY DEF SnapshotSizeEstimate, IdleRequest
  <2>2. SnapshotDies => snap'.pc = "idle"
    BY DEF SnapshotDies, IdleRequest
  <2> QED BY <1>1, <1>2, <2>1, <2>2
<1>3. CASE CheckSpace
  <2>1. CASE Reply("capacity", 1, NoNode)
    BY <1>1, <2>1 DEF Reply, IdleRequest
  <2>2. CASE HasSpace(snap.estimate) /\ snap' = [snap EXCEPT !.pc = "checked"]
    <3>1. snap'.pc = "checked" /\ snap'.estimate = snap.estimate
      BY <2>2 DEF SnapTypeOK, RequestRecord
    <3>2. PICK e \in Nat : e = snap.estimate
      BY DEF SnapTypeOK, RequestRecord
    <3>3. Available - MinFree >= snap.estimate
      BY <2>2, <3>2, SpaceMeansSpace
    <3> QED BY <1>3, <3>1, <3>3 DEF ReserveInv, ReserveKept, CheckSpace, Available, Used, Stored
  <2> QED BY <1>3, <2>1, <2>2 DEF CheckSpace
<1>4. ASSUME NEW ok \in BOOLEAN, NEW renamed \in BOOLEAN, CreateSnapshot(ok, renamed)
      PROVE  ReserveInv'
  <2>1. CASE ~ok
    BY <1>1, <1>4, <2>1 DEF CreateSnapshot, Reply, IdleRequest
  <2>2. CASE ok
    <3>1. PICK b \in BOOLEAN : b = (rootSurvivors = {root})
      OBVIOUS
    <3>2. snap' = [snap EXCEPT !.pc = "written", !.at = clock, !.settled = b]
      BY <1>4, <2>2, <3>1 DEF CreateSnapshot
    <3>3. snap'.pc = "written"
      BY <3>2 DEF SnapTypeOK, RequestRecord
    <3> QED BY <1>4, <3>3, WrittenReserve DEF ReserveInv
  <2> QED BY <2>1, <2>2
<1>5. ASSUME NEW k \in 0..MaxClock, PruneSnapshots(k)
      PROVE  ReserveInv'
  BY <1>1, <1>5 DEF PruneSnapshots, Reply, IdleRequest
<1>6. CASE UNCHANGED <<snap, archives, partial>>
  BY <1>6 DEF ReserveInv, ReserveKept, Available, Used, Stored
<1> QED
  BY <1>2, <1>3, <1>4, <1>5, <1>6
     DEF SnapshotNext, ClockMoves, StoreBeside, SnapshotClose, snapshotVars, snapVars

-----------------------------------------------------------------------------
(***************************************************************************)
(* The invariant and what it gives.                                         *)
(***************************************************************************)

SnapInv ==
    /\ TypeOK /\ StoreInv /\ SnapTypeOK
    /\ ArchiveInv /\ PinInv /\ KeptInv /\ ReserveInv

\* Nothing has been archived at first.
LEMMA SnapInvInit == SnapshotInit => SnapInv
<1> SUFFICES ASSUME SnapshotInit PROVE SnapInv
  OBVIOUS
<1>1. TypeOK /\ StoreInv /\ SnapTypeOK
  BY TypeInit, StoreInvInit, SnapTypeInit DEF SnapshotInit
<1>2. Present(archives) = {}
  BY DEF SnapshotInit, Present, NoArchive
<1>3. snap.pc = "idle" /\ answer.kind = "none" /\ pins = {}
  BY DEF SnapshotInit, IdleRequest, NoAnswer
<1> QED
  BY <1>1, <1>2, <1>3
     DEF SnapInv, ArchiveInv, PinInv, KeptInv, AnsweredArchiveKept, ReserveInv, ReserveKept

\* SnapInv is an invariant of the store with its snapshots.
THEOREM SnapshotInvariance == SnapshotSpec => []SnapInv
<1>1. SnapInv /\ [SnapshotNext]_snapshotVars => SnapInv'
  <2> SUFFICES ASSUME SnapInv, [SnapshotNext]_snapshotVars PROVE SnapInv'
    OBVIOUS
  <2>1. TypeOK' /\ StoreInv'
    BY SnapshotStoreStep, TypeStep, StoreInvStep DEF SnapInv
  <2>2. SnapTypeOK' /\ ArchiveInv' /\ PinInv' /\ KeptInv' /\ ReserveInv'
    BY SnapTypeStep, ArchiveInvStep, PinInvStep, KeptInvStep, ReserveInvStep DEF SnapInv
  <2> QED BY <2>1, <2>2 DEF SnapInv
<1> QED BY <1>1, SnapInvInit, PTL DEF SnapshotSpec

\* Whatever appends had failed or died when it was made, every archive can
\* be restored.
THEOREM ArchivesAlwaysRestore == SnapshotSpec => []ArchivesRestore
<1>1. SnapInv => ArchivesRestore
  BY DEF SnapInv, ArchiveInv, Restorable, ArchivesRestore
<1> QED BY <1>1, SnapshotInvariance, PTL

\* A server that pins the root of an answered snapshot that had settled is
\* ready whenever it is open with a current index.
THEOREM PinnedRootsStay == SnapshotSpec => []PinnedRootPresent
<1>1. SnapInv => PinnedRootPresent
  <2> SUFFICES ASSUME SnapInv, pc = "open", IndexIsCurrent, NEW r \in pins \cup {NoNode}
               PROVE  Ready(r)
    BY DEF PinnedRootPresent
  <2>1. TypeOK /\ StoreInv /\ root = IndexedRoot /\ root \in rootSurvivors
    BY DEF SnapInv, StoreInv, DurabilityInv, DiskInv, IndexIsCurrent
  <2>2. VerifyHead
    BY <2>1 DEF VerifyHead, StoreInv, DurabilityInv, DiskInv, TypeOK
  <2>3. ASSUME r # NoNode PROVE r \in Indexed
    BY <2>1, <2>3, ChainIndexed DEF SnapInv, PinInv, Settled
  <2>4. MinimumRootPresent(r)
    BY <2>3 DEF MinimumRootPresent, ContainsRoot, Indexed
  <2> QED BY <2>2, <2>4 DEF Ready
<1> QED BY <1>1, SnapshotInvariance, PTL

\* For every retention and every pattern of failed removals, an answered
\* archive is in its place, unless the clock was set back.
THEOREM AnswersAreKept == SnapshotSpec => []AnsweredArchiveKept
<1>1. SnapInv => AnsweredArchiveKept
  BY DEF SnapInv, KeptInv
<1> QED BY <1>1, SnapshotInvariance, PTL

\* For every capacity, reserve and slack, and every width of the integers, an
\* archive eats into the reserve only by what the store grew after the estimate.
THEOREM ReserveIsKept == SnapshotSpec => []ReserveKept
<1>1. SnapInv => ReserveKept
  BY DEF SnapInv, ReserveInv
<1> QED BY <1>1, SnapshotInvariance, PTL

=============================================================================
