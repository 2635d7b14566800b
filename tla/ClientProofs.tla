---------------------------- MODULE ClientProofs ----------------------------
(***************************************************************************)
(* Proofs about what uses the store: named refs, the readers of its history *)
(* and payloads, and the migration to another data key.                     *)
(***************************************************************************)
EXTENDS Replay, KeyMigration, StoreProofs

(***************************************************************************)
(* Named refs.                                                              *)
(***************************************************************************)

\* Beside refs, a step of the store is a step of JaybaseStore.
LEMMA RefStoreStep ==
    ASSUME RefNext
    PROVE  [Next]_vars
<1>1. \A h \in RequestHashes, e \in Roots : PlainAppend(Empty, h, e) => Next
  BY RefAssumption DEF Next
<1>2. StoreStep => Next
  BY <1>1 DEF StoreStep, Next
<1>3. RefClose \/ RefProcessCrash \/ RefPowerLoss => Next
  BY DEF RefClose, RefProcessCrash, RefPowerLoss, Next
<1>4. ASSUME NEW x, NEW r, WriteNamedRef(x, r) PROVE UNCHANGED vars
  BY <1>4 DEF WriteNamedRef, writeNamedRef, RefuseRef
<1>5. ASSUME NEW x, NEW r, NEW e, WriteNamedRefAt(x, r, e) PROVE UNCHANGED vars
  BY <1>5 DEF WriteNamedRefAt, writeNamedRef, RefuseRef
<1>6. CurrentRoot \/ SyncNamedDir \/ RefIOError => UNCHANGED vars
  BY DEF CurrentRoot, SyncNamedDir, RefIOError
<1> QED BY <1>2, <1>3, <1>4, <1>5, <1>6 DEF RefNext, RefStep, RefStop

\* What clients have seen and what refs may hold cannot be lost.
RefInv ==
    /\ named \in [Names -> Roots]
    /\ namedSurvivors \in [Names -> SUBSET Roots]
    /\ seen \subseteq durable
    /\ \A x \in Names : named[x] \in namedSurvivors[x]
    /\ \A x \in Names : namedSurvivors[x] \subseteq durable \cup {NoNode}
    /\ \A a \in acks : a.fresh

\* The ref is written only with a durable root.
LEMMA RefWritten ==
    ASSUME TypeOK, RefInv, NEW x \in Names, NEW r \in Sendable, writeNamedRef(x, r)
    PROVE  RefInv'
<1>1. CASE r \notin files
  BY <1>1 DEF writeNamedRef, RefuseRef, RefInv, vars
<1>2. CASE r \in files
  <2>1. r \in durable /\ r \in Roots
    BY <1>2 DEF Sendable, RefInv, TypeOK, Nodes, Roots
  <2>2. /\ named' = [named EXCEPT ![x] = r]
        /\ namedSurvivors' = [namedSurvivors EXCEPT ![x] = @ \cup {r}]
        /\ UNCHANGED <<seen, durable, acks>>
    BY <1>2 DEF writeNamedRef, vars
  <2>3. named' \in [Names -> Roots] /\ namedSurvivors' \in [Names -> SUBSET Roots]
    BY <2>1, <2>2 DEF RefInv
  <2>4. ASSUME NEW y \in Names
        PROVE  /\ named'[y] \in namedSurvivors'[y]
               /\ namedSurvivors'[y] \subseteq durable \cup {NoNode}
    BY <2>1, <2>2 DEF RefInv
  <2> QED BY <2>2, <2>3, <2>4 DEF RefInv
<1> QED BY <1>1, <1>2

\* What clients are told of an append is durable.
LEMMA AckedDurable ==
    ASSUME TypeOK, StoreInv, NEW a \in acks, a.fresh
    PROVE  a.node \in durable
<1>1. root \in rootSurvivors
  BY DEF StoreInv, DurabilityInv, DiskInv
<1>2. InChain(a.node, root)
  BY <1>1 DEF StoreInv, DurabilityInv, FreshAcksSurvive
<1>3. PICK A \in SUBSET durable : ParentClosed(A) /\ Holds(A, root) /\ Unshared(A)
  BY <1>1, RootsLoad
<1> QED BY <1>2, <1>3 DEF InChain, TypeOK
\* What is answered to appends, and what was seen before, is durable after a step
\* of the store.
LEMMA SeenStep ==
    ASSUME TypeOK, StoreInv, RefInv, StoreStep
    PROVE  /\ seen' \subseteq durable'
           /\ \A a \in acks' : a.fresh
<1>1. [Next]_vars
  BY RefStoreStep DEF RefNext, RefStep
<1>2. durable \subseteq durable'
  BY <1>1, StepFrame DEF StoreInv, DurabilityInv
<1>3. \A a \in acks : a.fresh /\ a.node \in durable
  BY AckedDurable DEF RefInv
<1>4. CASE SyncRefsDir
  <2>1. pending \in durable
    BY <1>4 DEF SyncRefsDir, StoreInv, DurabilityInv, PendingInv, Appending
  <2>2. acks' = acks \cup {[rid |-> node[pending].rid, rhash |-> node[pending].rhash,
                            node |-> pending, fresh |-> TRUE]}
    BY <1>4 DEF SyncRefsDir, AckPending
  <2>3. \A a \in acks' : a.fresh /\ a.node \in durable
    BY <1>3, <2>1, <2>2
  <2> QED BY <1>2, <2>3 DEF StoreStep, RefInv
<1>5. CASE acks' = acks
  BY <1>2, <1>3, <1>5 DEF StoreStep, RefInv
<1>6. ASSUME NEW h \in RequestHashes, NEW e \in Roots, PlainAppend(Empty, h, e)
      PROVE  acks' = acks
  BY <1>6 DEF PlainAppend, AppendInner, Refuse, MintNode
<1> QED
  BY <1>4, <1>5, <1>6
     DEF StoreStep, OpenStore, WalkStep, RebuildIndexes, LinkNode, SyncNodesDir, RenameRoot,
         AppendIOError

\* Every step of a writer keeps what refs hold durable.
LEMMA RefInvStep ==
    ASSUME TypeOK, StoreInv, RefInv, RefNext
    PROVE  RefInv'
<1>1. durable \subseteq durable'
  BY RefStoreStep, StepFrame DEF StoreInv, DurabilityInv
<1>2. CASE CurrentRoot
  <2>1. root \in durable
    BY <1>2 DEF CurrentRoot, StoreInv, DurabilityInv, DiskInv
  <2> QED BY <1>2, <2>1 DEF CurrentRoot, RefInv, vars
<1>3. ASSUME NEW x \in Names, NEW r \in Sendable, WriteNamedRef(x, r)
      PROVE  RefInv'
  BY <1>3, RefWritten DEF WriteNamedRef
<1>4. ASSUME NEW x \in Names, NEW r \in Sendable, NEW e \in Roots, WriteNamedRefAt(x, r, e)
      PROVE  RefInv'
  <2>1. CASE RefuseRef("conflict")
    BY <2>1 DEF RefuseRef, RefInv, vars
  <2>2. CASE writeNamedRef(x, r)
    BY <2>2, RefWritten
  <2> QED BY <1>4, <2>1, <2>2 DEF WriteNamedRefAt
<1>5. CASE SyncNamedDir
  <2>1. namedSurvivors' = [x \in Names |-> {named[x]}] /\ UNCHANGED <<named, seen, durable, acks>>
    BY <1>5 DEF SyncNamedDir, vars
  <2> QED BY <2>1 DEF RefInv
<1>6. CASE RefIOError
  BY <1>6 DEF RefIOError, RefInv, vars
<1>7. CASE StoreStep
  <2>1. UNCHANGED <<named, namedSurvivors>>
    BY <1>7 DEF StoreStep
  <2> QED BY <1>1, <1>7, <2>1, SeenStep DEF RefInv
<1>8. CASE RefClose \/ RefProcessCrash
  BY <1>1, <1>8 DEF RefClose, RefProcessCrash, Close, ProcessCrash, RefInv, refVars
<1>9. CASE RefPowerLoss
  <2>1. /\ named' \in [Names -> Roots]
        /\ \A x \in Names : named'[x] \in namedSurvivors[x]
        /\ namedSurvivors' = [x \in Names |-> {named'[x]}]
        /\ UNCHANGED <<seen, acks>>
    BY <1>9 DEF RefPowerLoss, PowerLoss
  <2> QED BY <1>1, <2>1 DEF RefInv
<1> QED
  BY <1>2, <1>3, <1>4, <1>5, <1>6, <1>7, <1>8, <1>9 DEF RefNext, RefStep, RefStop

\* At first nothing has been seen and there is no ref.
LEMMA RefInvInit == RefInit => RefInv
  BY StoreAssumption DEF RefInit, Init, RefInv, NoNode, Roots

\* A durable node starts a complete chain.
LEMMA DurableLoads ==
    ASSUME TypeOK, StoreInv, NEW r \in durable \cup {NoNode}
    PROVE  Loadable(r, durable)
<1>1. CASE r = NoNode
  <2>1. ParentClosed({}) /\ Holds({}, r) /\ OneNodeEach({})
    BY <1>1 DEF ParentClosed, Holds, OneNodeEach
  <2> QED BY <2>1 DEF Loadable
<1>2. CASE r \in durable
  <2>1. PICK A \in SUBSET durable : ParentClosed(A) /\ r \in A /\ Unshared(A)
    <3>1. r \in files /\ durable \cup {r} = durable
      BY <1>2 DEF TypeOK
    <3> QED BY <3>1 DEF StoreInv, HistoryInv, RequestInv
  <2>2. OneNodeEach(A)
    BY <2>1, RefAssumption DEF Unshared, OneNodeEach, Shareable
  <2> QED BY <2>1, <2>2 DEF Loadable, Holds
<1> QED BY <1>1, <1>2

\* What is durable and what refs may hold resolves.
LEMMA RefsResolve == TypeOK /\ StoreInv /\ RefInv => NamedRefsResolve
  BY DurableLoads DEF RefInv, NamedRefsResolve

\* The store below the refs is in order, and so are the refs.
LEMMA RefInvariance == RefSpec => [](TypeOK /\ StoreInv /\ RefInv)
<1>1. RefInit => TypeOK /\ StoreInv /\ RefInv
  BY TypeInit, StoreInvInit, RefInvInit DEF RefInit
<1>2. TypeOK /\ StoreInv /\ RefInv /\ [RefNext]_allVars => (TypeOK /\ StoreInv /\ RefInv)'
  <2> SUFFICES ASSUME TypeOK, StoreInv, RefInv, [RefNext]_allVars
               PROVE  (TypeOK /\ StoreInv /\ RefInv)'
    OBVIOUS
  <2>1. [Next]_vars
    BY RefStoreStep DEF allVars
  <2>2. CASE RefNext
    BY <2>1, <2>2, TypeStep, StoreInvStep, RefInvStep
  <2>3. CASE UNCHANGED allVars
    BY <2>1, <2>3, TypeStep, StoreInvStep DEF allVars, refVars, vars, RefInv
  <2> QED BY <2>2, <2>3
<1> QED BY <1>1, <1>2, PTL DEF RefSpec

\* Whatever fails, a named ref that is there names a node whose whole chain
\* can be read.
THEOREM RefsAlwaysResolve == RefSpec => []NamedRefsResolve
  BY RefInvariance, RefsResolve, PTL

-----------------------------------------------------------------------------
(***************************************************************************)
(* Replay.                                                                  *)
(***************************************************************************)

\* Beside readers, the store takes the steps of JaybaseStore.
LEMMA ReplayStoreStep ==
    ASSUME ReplayNext
    PROVE  [Next]_vars
<1>1. RefStep \/ RefStop => [Next]_vars
  BY RefStoreStep DEF RefNext
<1>2. (\E l \in Limits : GetEvents(l)) \/ GetEventsUnknown
         \/ (\E ids, r : SelectPayloads(ids, r)) \/ (\E n \in Nodes : ReadPayload(n))
      => UNCHANGED vars
  BY DEF GetEvents, GetEventsUnknown, SelectPayloads, ReadPayload, allVars
<1> QED BY <1>1, <1>2 DEF ReplayNext, WriterStep, ReadersCut

\* What a client has is a chain of durable nodes that ends where a completed scan
\* ended, and a batch holds durable nodes below its root.
ReplayInv ==
    /\ view \in Seq(Nodes)
    /\ observed \in Roots
    /\ \A i \in 1..Len(view) : view[i] \in durable
    /\ batch.selected \subseteq durable
    /\ batch \in [root : Roots, selected : SUBSET Nodes]
    /\ ViewIsChain
    /\ ScanEndsAtRoot
    /\ PayloadsStayReadable

\* A step that leaves the client's state alone leaves what it has readable.
LEMMA ReplayFrame ==
    ASSUME TypeOK, StoreInv, ReplayInv, [Next]_vars, UNCHANGED <<view, observed, scanned>>,
           batch' = batch \/ batch' = NoBatch
           \/ (batch'.root = batch.root /\ batch'.selected \subseteq batch.selected
               /\ batch' \in [root : Roots, selected : SUBSET Nodes])
    PROVE  ReplayInv'
<1>1. /\ durable \subseteq durable'
      /\ \A n \in 1..minted : node'[n] = node[n]
  BY StepFrame DEF StoreInv, DurabilityInv
<1>2. \A n \in durable : n \in 1..minted
  BY DEF StoreInv, DurabilityInv, DiskInv, TypeOK
<1>3. ViewIsChain'
  BY <1>1, <1>2 DEF ReplayInv, ViewIsChain
<1>4. ScanEndsAtRoot'
  BY DEF ReplayInv, ScanEndsAtRoot, LastOf
<1>5. batch'.selected \subseteq durable' /\ batch' \in [root : Roots, selected : SUBSET Nodes]
  BY <1>1, StoreAssumption DEF ReplayInv, NoBatch, Roots, NoNode
<1>6. \A n \in batch'.selected : InChain(n, batch'.root)
  BY DEF ReplayInv, PayloadsStayReadable, NoBatch
<1>7. \A n \in batch'.selected : InChain(n, batch.root)'
  BY <1>6, ChainStep DEF StoreInv, DurabilityInv
<1>8. durable' \subseteq files'
  BY TypeStep DEF TypeOK
<1>9. PayloadsStayReadable'
  BY <1>5, <1>7, <1>8 DEF PayloadsStayReadable
<1> QED BY <1>1, <1>3, <1>4, <1>5, <1>9 DEF ReplayInv

\* The index finds each of its nodes where it is.
LEMMA PositionFound ==
    ASSUME TypeOK, NEW n, InHistory(n)
    PROVE  /\ Position(n) \in 0..Len(history)
           /\ Position(n) = 0 <=> n = NoNode
           /\ n # NoNode => history[Position(n)] = n
<1>1. CASE n = NoNode
  BY <1>1 DEF Position, TypeOK
<1>2. CASE n # NoNode
  <2>1. \E i \in 1..Len(history) : history[i] = n
    BY <1>2 DEF InHistory
  <2>2. Position(n) = CHOOSE i \in 1..Len(history) : history[i] = n
    BY <1>2 DEF Position
  <2>3. Position(n) \in 1..Len(history) /\ history[Position(n)] = n
    BY <2>1, <2>2
  <2> QED BY <1>2, <2>3 DEF TypeOK
<1> QED BY <1>1, <1>2

\* A page goes on where the client's view ends, and ends at the observed root or
\* before it.
LEMMA PageStep ==
    ASSUME TypeOK, StoreInv, ReplayInv, NEW limit \in Limits, GetEvents(limit)
    PROVE  ReplayInv' /\ seen' \subseteq seen \cup durable
<1> DEFINE S == Start(LastOf(view))
           E == End(LastOf(view), observed, limit)
           T == TargetEnd(observed)
           page == EventPageAt(LastOf(view), observed, limit)
<1>1. /\ pc = "open"
      /\ root = IndexedRoot
      /\ InHistory(observed) /\ InHistory(LastOf(view))
      /\ S <= T
      /\ view' = view \o page.nodes
      /\ observed' = IF page.hasMore THEN page.root ELSE NoNode
      /\ scanned' = IF page.hasMore THEN NoNode ELSE page.root
      /\ seen' = seen \cup {page.nodes[i] : i \in 1..Len(page.nodes)}
      /\ UNCHANGED <<vars, batch>>
  BY DEF GetEvents, Free, IndexIsCurrent, Known, Start
<1>2. history \in Seq(Nodes) /\ Len(history) \in Nat /\ limit \in Nat /\ limit > 0
  BY ReplayAssumption DEF TypeOK
<1>3. /\ S \in 0..Len(history)
      /\ S = 0 <=> LastOf(view) = NoNode
      /\ S # 0 => history[S] = LastOf(view)
  BY <1>1, PositionFound DEF Start
<1>4. /\ T \in 0..Len(history)
      /\ observed # NoNode => T # 0 /\ history[T] = observed
      /\ observed = NoNode => T = Len(history)
  BY <1>1, <1>2, PositionFound DEF TargetEnd
<1>5. E \in S..T /\ E \in Nat
  BY <1>1, <1>2, <1>3, <1>4 DEF End
<1>6. page = [nodes   |-> SubSeq(history, S + 1, E),
              root    |-> IF observed = NoNode THEN root ELSE observed,
              hasMore |-> E < T]
  BY DEF EventPageAt
<1> HIDE DEF S, E, T, page
<1>7. /\ page.nodes \in Seq(Nodes)
      /\ Len(page.nodes) = E - S
      /\ \A i \in 1..(E - S) : page.nodes[i] = history[S + i]
  <2>1. page.nodes = SubSeq(history, S + 1, E)
    BY <1>6
  <2>2. S \in Nat /\ E \in Nat /\ S <= E /\ E <= Len(history)
    BY <1>2, <1>3, <1>4, <1>5
  <2> QED BY <1>2, <2>1, <2>2
<1>8. /\ view \in Seq(Nodes)
      /\ Len(view) \in Nat
      /\ S \in Nat /\ E \in Nat /\ S <= E /\ E <= Len(history)
  BY <1>2, <1>3, <1>4, <1>5 DEF ReplayInv
<1>9. view' \in Seq(Nodes) /\ Len(view') = Len(view) + (E - S)
  <2> DEFINE new == page.nodes
  <2>1. view \in Seq(Nodes) /\ new \in Seq(Nodes) /\ Len(new) = E - S
    BY <1>7, <1>8
  <2>2. view' = view \o new
    BY <1>1
  <2> HIDE DEF new
  <2>3. view \o new \in Seq(Nodes) /\ Len(view \o new) = Len(view) + Len(new)
    BY <2>1
  <2> QED BY <2>1, <2>2, <2>3
<1>10. \A i \in 1..Len(view) : view'[i] = view[i]
  BY <1>1, <1>7, <1>8
<1>11. \A i \in 1..(E - S) : view'[Len(view) + i] = history[S + i]
  BY <1>1, <1>7, <1>8
<1>12. \A i \in 1..Len(history) : history[i] \in durable
  BY <1>1 DEF StoreInv, HistoryInv, IndexInv, Indexed
<1>13. \A i \in (Len(view) + 1)..Len(view') :
           i - Len(view) \in 1..(E - S) /\ S + (i - Len(view)) \in 1..Len(history)
  BY <1>8, <1>9
<1>14. \A i \in 1..Len(view') : view'[i] \in durable'
  <2> SUFFICES ASSUME NEW i \in 1..Len(view') PROVE view'[i] \in durable
    BY <1>1 DEF vars
  <2>1. CASE i \in 1..Len(view)
    BY <1>10, <2>1 DEF ReplayInv
  <2>2. CASE i \in (Len(view) + 1)..Len(view')
    <3>1. view'[i] = history[S + (i - Len(view))]
      <4>1. i = Len(view) + (i - Len(view))
        BY <1>8
      <4> QED BY <1>11, <1>13, <2>2, <4>1
    <3> QED BY <1>12, <1>13, <2>2, <3>1
  <2> QED BY <1>8, <1>9, <2>1, <2>2
<1>15. LastOf(view) = NoNode <=> view = <<>>
  <2>1. view # <<>> => Len(view) \in 1..Len(view) /\ view[Len(view)] \in Nodes
    BY <1>8
  <2> QED BY <2>1 DEF LastOf, Nodes, NoNode
<1>16. ViewIsChain'
  <2> SUFFICES ASSUME NEW i \in 1..Len(view')
               PROVE  node[view'[i]].parent = IF i = 1 THEN NoNode ELSE view'[i - 1]
    BY <1>1 DEF ViewIsChain, vars
  <2>1. CASE i \in 1..Len(view)
    <3>1. i # 1 => i - 1 \in 1..Len(view)
      BY <1>8, <2>1
    <3> QED BY <1>10, <2>1, <3>1 DEF ReplayInv, ViewIsChain
  <2>2. CASE i \in (Len(view) + 1)..Len(view')
    <3> DEFINE k == i - Len(view)
    <3>1. k \in 1..(E - S) /\ S + k \in 1..Len(history) /\ i = Len(view) + k
      BY <1>8, <1>13, <2>2
    <3> HIDE DEF k
    <3>2. view'[i] = history[S + k]
      BY <1>11, <3>1
    <3>3. node[history[S + k]].parent = IF S + k = 1 THEN NoNode ELSE history[(S + k) - 1]
      <4>1. \A j \in 1..Len(history) :
                node[history[j]].parent = IF j = 1 THEN NoNode ELSE history[j - 1]
        BY <1>1 DEF StoreInv, HistoryInv, IndexInv
      <4> DEFINE j == S + k
      <4>2. j \in 1..Len(history)
        BY <3>1
      <4> HIDE DEF j
      <4>3. node[history[j]].parent = IF j = 1 THEN NoNode ELSE history[j - 1]
        BY <4>1, <4>2
      <4> QED BY <4>3 DEF j
    <3>4. CASE k = 1
      <4>1. S + k = 1 <=> S = 0
        BY <1>8, <3>4
      <4>2. CASE view = <<>>
        BY <1>3, <1>8, <1>15, <3>1, <3>2, <3>3, <3>4, <4>1, <4>2
      <4>3. CASE view # <<>>
        <5>1. S # 0 /\ (S + k) - 1 = S /\ history[S] = view[Len(view)]
          BY <1>3, <1>8, <1>15, <3>4, <4>3 DEF LastOf
        <5>2. Len(view) \in 1..Len(view) /\ i # 1 /\ i - 1 = Len(view)
          BY <1>8, <3>1, <3>4, <4>3
        <5> QED BY <1>10, <3>2, <3>3, <4>1, <5>1, <5>2
      <4> QED BY <4>2, <4>3
    <3>5. CASE k # 1
      <4>1. k - 1 \in 1..(E - S) /\ i # 1 /\ i - 1 = Len(view) + (k - 1)
            /\ S + k # 1 /\ (S + k) - 1 = S + (k - 1)
        BY <1>8, <3>1, <3>5
      <4>2. view'[i - 1] = history[S + (k - 1)]
        BY <1>11, <4>1
      <4> QED BY <3>2, <3>3, <4>1, <4>2
    <3> QED BY <3>4, <3>5
  <2> QED BY <1>8, <1>9, <2>1, <2>2
<1>17. ScanEndsAtRoot'
  <2> SUFFICES ASSUME scanned' # NoNode PROVE LastOf(view') = scanned'
    BY DEF ScanEndsAtRoot, LastOf
  <2>1. ~page.hasMore /\ scanned' = page.root
    BY <1>1
  <2>2. E = T
    <3>1. page.hasMore = (E < T)
      BY <1>6
    <3>2. ~(E < T)
      BY <2>1, <3>1
    <3> QED BY <1>2, <1>4, <1>5, <1>8, <3>2
  <2>3. scanned' = IF observed = NoNode THEN root ELSE observed
    BY <1>6, <2>1
  <2>4. T # 0 /\ history[T] = scanned'
    <3>1. CASE observed # NoNode
      BY <1>4, <2>3, <3>1
    <3>2. CASE observed = NoNode
      <4>1. T = Len(history) /\ scanned' = IndexedRoot
        BY <1>1, <1>4, <2>3, <3>2
      <4>2. history # <<>>
        BY <4>1 DEF IndexedRoot
      <4> QED BY <1>2, <4>1, <4>2 DEF IndexedRoot
    <3> QED BY <3>1, <3>2
  <2>5. CASE E = S
    <3>1. history[S] = LastOf(view) /\ view' = view
      <4>1. Len(page.nodes) = 0 /\ page.nodes = <<>>
        BY <1>7, <1>8, <2>5
      <4> QED BY <1>1, <1>3, <1>8, <2>2, <2>4, <2>5, <4>1
    <3> QED BY <2>2, <2>4, <2>5, <3>1 DEF LastOf
  <2>6. CASE E # S
    <3>1. E - S \in 1..(E - S) /\ Len(view') = Len(view) + (E - S) /\ S + (E - S) = E
      BY <1>8, <1>9, <2>6
    <3>2. view'[Len(view')] = history[E]
      BY <1>11, <3>1
    <3>3. view' # <<>>
      BY <1>8, <1>9, <3>1
    <3> QED BY <2>2, <2>4, <3>2, <3>3 DEF LastOf
  <2> QED BY <2>5, <2>6
<1>18. PayloadsStayReadable'
  BY <1>1 DEF ReplayInv, PayloadsStayReadable, vars, InChain, ParentClosed, Holds
<1>19. observed' \in Roots
  BY <1>1, <1>6, StoreAssumption DEF ReplayInv, TypeOK, Roots, NoNode
<1>20. seen' \subseteq seen \cup durable
  <2>1. \A i \in 1..(E - S) : S + i \in 1..Len(history)
    BY <1>8
  <2>2. \A i \in 1..Len(page.nodes) : page.nodes[i] \in durable
    BY <1>7, <1>12, <2>1
  <2> QED BY <1>1, <2>2
<1> QED
  BY <1>1, <1>9, <1>14, <1>16, <1>17, <1>18, <1>19, <1>20 DEF ReplayInv, vars

\* A batch is selected from the history at or before its root.
LEMMA SelectStep ==
    ASSUME TypeOK, StoreInv, ReplayInv, NEW ids, NEW r \in Nodes, ids \subseteq Nodes,
           SelectPayloads(ids, r)
    PROVE  ReplayInv'
<1>1. /\ pc = "open"
      /\ InHistory(r)
      /\ \A n \in ids : InHistory(n) /\ Position(n) <= Position(r)
      /\ batch' = [root |-> r, selected |-> ids]
      /\ UNCHANGED <<vars, view, observed, scanned>>
  BY DEF SelectPayloads, Free, Selectable, allVars
<1>2. r # NoNode /\ Position(r) \in 1..Len(history) /\ history[Position(r)] = r
  <2>1. r # NoNode
    BY DEF Nodes, NoNode
  <2> QED BY <1>1, <2>1, PositionFound DEF TypeOK
<1>3. ASSUME NEW n \in ids
      PROVE  n \in durable /\ InChain(n, r)
  <2>1. n # NoNode
    BY DEF Nodes, NoNode
  <2>2. Position(n) \in 1..Len(history) /\ history[Position(n)] = n /\ Position(n) <= Position(r)
    BY <1>1, <2>1, PositionFound DEF TypeOK
  <2>3. /\ \A i \in 1..Len(history) : history[i] \in durable
        /\ \A i, j \in 1..Len(history) : i < j => InChain(history[i], history[j])
    BY <1>1 DEF StoreInv, HistoryInv, IndexInv, Indexed
  <2>4. CASE Position(n) = Position(r)
    BY <1>2, <2>2, <2>3, <2>4, ChainParent
  <2>5. CASE Position(n) < Position(r)
    BY <1>2, <2>2, <2>3, <2>5
  <2> QED BY <1>2, <2>2, <2>4, <2>5 DEF TypeOK
<1>4. PayloadsStayReadable'
  <2>1. \A n \in batch'.selected : n \in files /\ InChain(n, r)
    BY <1>1, <1>3 DEF TypeOK
  <2> QED BY <1>1, <2>1 DEF PayloadsStayReadable, vars, InChain, ParentClosed, Holds
<1>5. ViewIsChain' /\ ScanEndsAtRoot'
  BY <1>1 DEF ReplayInv, ViewIsChain, ScanEndsAtRoot, LastOf, vars
<1>6. batch' \in [root : Roots, selected : SUBSET Nodes]
  BY <1>1 DEF Roots, Nodes
<1> QED BY <1>1, <1>3, <1>4, <1>5, <1>6 DEF ReplayInv, vars

\* Every step keeps what readers have.
LEMMA ReplayInvStep ==
    ASSUME TypeOK, StoreInv, RefInv, ReplayInv, ReplayNext
    PROVE  RefInv' /\ ReplayInv'
<1>1. [Next]_vars
  BY ReplayStoreStep
<1>2. ASSUME UNCHANGED allVars
      PROVE  RefInv'
  BY <1>2 DEF allVars, refVars, vars, RefInv
<1>3. ASSUME NEW l \in Limits, GetEvents(l)
      PROVE  RefInv' /\ ReplayInv'
  <2>1. ReplayInv' /\ seen' \subseteq durable
    BY <1>3, PageStep DEF RefInv
  <2>2. UNCHANGED <<vars, named, namedSurvivors>>
    BY <1>3 DEF GetEvents
  <2> QED BY <2>1, <2>2 DEF RefInv, vars
<1>4. CASE GetEventsUnknown
  <2>1. /\ view' = <<>> /\ observed' = NoNode /\ scanned' = NoNode
        /\ UNCHANGED <<allVars, batch>>
    BY <1>4 DEF GetEventsUnknown
  <2>2. ViewIsChain' /\ ScanEndsAtRoot'
    BY <2>1 DEF ViewIsChain, ScanEndsAtRoot
  <2>3. PayloadsStayReadable'
    BY <2>1 DEF ReplayInv, PayloadsStayReadable, allVars, vars, InChain, ParentClosed, Holds
  <2>4. view' \in Seq(Nodes) /\ (\A i \in 1..Len(view') : view'[i] \in durable')
        /\ observed' \in Roots
    BY <2>1, StoreAssumption DEF Roots, NoNode
  <2> QED BY <1>2, <2>1, <2>2, <2>3, <2>4 DEF ReplayInv, allVars, vars
<1>5. ASSUME NEW ids \in (SUBSET {view[i] : i \in 1..Len(view)}) \ {{}},
             NEW r \in {view[i] : i \in 1..Len(view)}, SelectPayloads(ids, r)
      PROVE  RefInv' /\ ReplayInv'
  <2>1. \A i \in 1..Len(view) : view[i] \in Nodes
    BY DEF ReplayInv
  <2>2. ids \subseteq Nodes /\ r \in Nodes
    BY <2>1
  <2>3. UNCHANGED allVars
    BY <1>5 DEF SelectPayloads
  <2> QED BY <1>2, <1>5, <2>2, <2>3, SelectStep
<1>6. ASSUME NEW n \in Nodes, ReadPayload(n)
      PROVE  RefInv' /\ ReplayInv'
  <2>1. UNCHANGED <<allVars, view, observed, scanned>>
    BY <1>6 DEF ReadPayload
  <2>2. \/ batch' = NoBatch
        \/ batch' = [batch EXCEPT !.selected = @ \ {n}]
    BY <1>6 DEF ReadPayload
  <2>3. ASSUME batch' = [batch EXCEPT !.selected = @ \ {n}]
        PROVE  /\ batch'.root = batch.root /\ batch'.selected \subseteq batch.selected
               /\ batch' \in [root : Roots, selected : SUBSET Nodes]
    BY <2>3 DEF ReplayInv
  <2> QED BY <1>1, <1>2, <2>1, <2>2, <2>3, ReplayFrame
<1>7. CASE WriterStep
  BY <1>1, <1>7, RefInvStep, ReplayFrame DEF WriterStep, RefNext, replayVars
<1>8. CASE ReadersCut
  BY <1>1, <1>8, RefInvStep, ReplayFrame DEF ReadersCut, RefNext
<1> QED BY <1>3, <1>4, <1>5, <1>6, <1>7, <1>8 DEF ReplayNext

\* Readers begin with nothing.
LEMMA ReplayInvInit == ReplayInit => ReplayInv
  BY StoreAssumption
     DEF ReplayInit, ReplayInv, ViewIsChain, ScanEndsAtRoot, PayloadsStayReadable, NoBatch,
         Roots, NoNode

\* Store, refs and readers are in order together.
LEMMA ReplayInvariance == ReplaySpec => [](TypeOK /\ StoreInv /\ RefInv /\ ReplayInv)
<1> DEFINE Inv == TypeOK /\ StoreInv /\ RefInv /\ ReplayInv
<1>1. ReplayInit => Inv
  BY TypeInit, StoreInvInit, RefInvInit, ReplayInvInit DEF ReplayInit, RefInit
<1>2. Inv /\ [ReplayNext]_readVars => Inv'
  <2> SUFFICES ASSUME Inv, [ReplayNext]_readVars PROVE Inv'
    OBVIOUS
  <2>1. [Next]_vars
    BY ReplayStoreStep DEF readVars, allVars
  <2>2. CASE ReplayNext
    BY <2>1, <2>2, TypeStep, StoreInvStep, ReplayInvStep
  <2>3. CASE UNCHANGED readVars
    <3>1. RefInv'
      BY <2>3 DEF readVars, allVars, refVars, vars, RefInv
    <3>2. ReplayInv'
      BY <2>1, <2>3, ReplayFrame DEF readVars, replayVars
    <3> QED BY <2>1, <3>1, <3>2, TypeStep, StoreInvStep
  <2> QED BY <2>2, <2>3
<1> QED BY <1>1, <1>2, PTL DEF ReplaySpec

\* What a client collects page after page is one gapless chain from the first
\* event on, whatever happens between its pages.
THEOREM ReplayIsGapless == ReplaySpec => []ViewIsChain
<1>1. ReplayInv => ViewIsChain
  BY DEF ReplayInv
<1> QED BY <1>1, ReplayInvariance, PTL

\* A scan that is told that there is no more ends with the root that its first
\* page captured.
THEOREM ScansComplete == ReplaySpec => []ScanEndsAtRoot
<1>1. ReplayInv => ScanEndsAtRoot
  BY DEF ReplayInv
<1> QED BY <1>1, ReplayInvariance, PTL

\* A payload that was selected under the lock can be read after it is
\* released, and is at or before the batch's root.
THEOREM PayloadsReadable == ReplaySpec => []PayloadsStayReadable
<1>1. ReplayInv => PayloadsStayReadable
  BY DEF ReplayInv
<1> QED BY <1>1, ReplayInvariance, PTL

-----------------------------------------------------------------------------
(***************************************************************************)
(* The migration to another data key.                                       *)
(***************************************************************************)

\* Beside a migration, its source takes the steps of NamedRefs ...
LEMMA MigrationSourceStep ==
    ASSUME MigrationNext
    PROVE  [RefNext]_allVars
<1>1. CallNext => UNCHANGED allVars
  BY DEF CallNext, OpenDestination, CopyNode, ListRefs, CopyRef, KeepDestination,
         CloseDestination, RemoveDestination, CallStep
<1>2. MigrateDataKey \/ OperatorRemoves => UNCHANGED allVars
  BY DEF MigrateDataKey, OperatorRemoves
<1>3. ProcessDies \/ MachineDies \/ SourceStep => RefNext
  BY DEF ProcessDies, MachineDies, SourceStep, RefNext, RefStop
<1>4. \A r \in Roots : DiesWritingRef(r) => RefNext
  BY DEF DiesWritingRef, RefNext, RefStop
<1> QED BY <1>1, <1>2, <1>3, <1>4 DEF MigrationNext

\* ... and is in order.
LEMMA SourceInvStep ==
    ASSUME TypeOK, StoreInv, RefInv, [RefNext]_allVars
    PROVE  [Next]_vars /\ TypeOK' /\ StoreInv' /\ RefInv'
<1>1. [Next]_vars
  BY RefStoreStep DEF allVars
<1>2. CASE RefNext
  BY <1>1, <1>2, TypeStep, StoreInvStep, RefInvStep
<1>3. CASE UNCHANGED allVars
  BY <1>1, <1>3, TypeStep, StoreInvStep DEF allVars, refVars, vars, RefInv
<1> QED BY <1>2, <1>3

\* What clients have seen and what refs hold is in the history.
RefsInHistory ==
    /\ \A n \in seen : InChain(n, root)
    /\ \A x \in Names : named[x] = NoNode \/ InChain(named[x], root)

\* Only a power loss puts refs/root back.
LEMMA RootAdvances ==
    ASSUME TypeOK, StoreInv, RefStep \/ RefClose \/ RefProcessCrash,
           NEW n, InChain(n, root)
    PROVE  InChain(n, root)'
<1>1. [Next]_vars
  BY RefStoreStep DEF RefNext, RefStop
<1>2. \A r : InChain(n, r) => InChain(n, r)'
  BY <1>1, ChainStep DEF StoreInv, DurabilityInv
<1>3. PICK r : r = root'
  OBVIOUS
<1>4. CASE r = root
  BY <1>2, <1>3, <1>4
<1>5. CASE RenameRoot
  <2>1. pending \in Nodes /\ node[pending].parent = root /\ r = pending
    BY <1>3, <1>5 DEF RenameRoot, StoreInv, DurabilityInv, PendingInv, Appending, TypeOK
  <2>2. root = NoNode \/ InChain(root, pending)
    BY <2>1, ChainParent
  <2>3. InChain(n, r)
    BY <2>1, <2>2, ChainTransitive
  <2> QED BY <1>2, <1>3, <2>3
<1>6. CASE UNCHANGED vars
  BY <1>3, <1>4, <1>6 DEF vars
<1>7. ASSUME NEW h \in RequestHashes, NEW e \in Roots, PlainAppend(Empty, h, e)
      PROVE  root' = root
  BY <1>7 DEF PlainAppend, AppendInner, Refuse, MintNode, disk
<1>8. CASE StoreStep
  BY <1>3, <1>4, <1>5, <1>7, <1>8
     DEF StoreStep, OpenStore, WalkStep, RebuildIndexes, LinkNode, SyncNodesDir, SyncRefsDir,
         AppendIOError, disk
<1>9. CASE RefClose \/ RefProcessCrash
  BY <1>3, <1>4, <1>9 DEF RefClose, RefProcessCrash, Close, ProcessCrash, disk
<1>10. ASSUME NEW x, NEW s, WriteNamedRef(x, s) PROVE UNCHANGED vars
  BY <1>10 DEF WriteNamedRef, writeNamedRef, RefuseRef
<1>11. ASSUME NEW x, NEW s, NEW e, WriteNamedRefAt(x, s, e) PROVE UNCHANGED vars
  BY <1>11 DEF WriteNamedRefAt, writeNamedRef, RefuseRef
<1>12. CurrentRoot \/ SyncNamedDir \/ RefIOError => UNCHANGED vars
  BY DEF CurrentRoot, SyncNamedDir, RefIOError
<1> QED BY <1>6, <1>8, <1>9, <1>10, <1>11, <1>12 DEF RefStep

\* So until then every ref leads into the history.
LEMMA RefsInHistoryStep ==
    ASSUME TypeOK, StoreInv, RefInv, RefsInHistory, RefStep \/ RefClose \/ RefProcessCrash
    PROVE  RefsInHistory'
<1>1. \A n : InChain(n, root) => InChain(n, root)'
  BY RootAdvances
<1>2. RefNext /\ StoreInv' /\ RefInv'
  BY SourceInvStep DEF RefNext, RefStop
<1>3. ASSUME seen' \subseteq seen,
             \A x \in Names : named'[x] = named[x] \/ named'[x] \in seen
      PROVE  RefsInHistory'
  BY <1>1, <1>3 DEF RefsInHistory
<1>4. CASE CurrentRoot
  <2>1. root \in Nodes
    BY <1>4 DEF CurrentRoot, TypeOK, Roots, Nodes, NoNode
  <2>2. InChain(root, root)
    BY <2>1, ChainParent
  <2>3. seen' = seen \cup {root} /\ UNCHANGED named
    BY <1>4 DEF CurrentRoot
  <2>4. \A n \in seen' : InChain(n, root)
    BY <2>2, <2>3 DEF RefsInHistory
  <2> QED BY <1>1, <2>3, <2>4 DEF RefsInHistory
<1>5. ASSUME NEW x \in Names, NEW r \in Sendable, writeNamedRef(x, r)
      PROVE  RefsInHistory'
  BY <1>3, <1>5 DEF writeNamedRef, RefuseRef, Sendable, RefInv
<1>6. CASE StoreStep
  <2>1. root' \in rootSurvivors' /\ FreshAcksSurvive'
    BY <1>2 DEF StoreInv, DurabilityInv, DiskInv
  <2>2. \A a \in acks' : a.fresh
    BY <1>2 DEF RefInv
  <2>3. \A a \in acks' : InChain(a.node, root)'
    BY <2>1, <2>2 DEF FreshAcksSurvive
  <2>4. seen' = seen \cup {a.node : a \in acks'} /\ UNCHANGED named
    BY <1>6 DEF StoreStep
  <2>5. \A n \in seen' : InChain(n, root)'
    BY <1>1, <2>3, <2>4 DEF RefsInHistory
  <2> QED BY <1>1, <2>4, <2>5 DEF RefsInHistory
<1>7. CASE SyncNamedDir \/ RefIOError \/ RefClose \/ RefProcessCrash
  BY <1>3, <1>7 DEF SyncNamedDir, RefIOError, RefClose, RefProcessCrash, refVars
<1>8. \A k : RefuseRef(k) => RefsInHistory'
  BY <1>3 DEF RefuseRef
<1> QED
  BY <1>4, <1>5, <1>6, <1>7, <1>8 DEF RefStep, WriteNamedRef, WriteNamedRefAt

CallRecord == [pc      : {"idle", "made", "copying", "refs", "closing", "cleanup"},
               newRoot : Nat,
               rootMap : [Nodes -> Nat],
               left    : SUBSET Entries,
               stray   : BOOLEAN]

DirectoryRecord ==
    [there : BOOLEAN, events : Seq(Nodes), refs : [Entries -> Nat], broken : BOOLEAN]

MigrationTypeOK ==
    /\ leftover \in [there : BOOLEAN, root : Roots]
    /\ mig \in CallRecord
    /\ dest \in DirectoryRecord

\* A call has the source to itself, and its index is current.
CallInv ==
    /\ mig.pc = "idle" => mig = IdleCall
    /\ mig.pc # "idle" =>
           Free /\ IndexIsCurrent /\ dest.there /\ ~dest.broken /\ ~manifest.printed

\* The events that have been copied are the first of the history, and the map
\* leads to them and to nothing else.
CopyInv ==
    mig.pc \in {"made", "copying", "refs", "closing"} =>
        /\ mig.newRoot = Len(dest.events)
        /\ mig.newRoot <= Len(history)
        /\ \A i \in 1..mig.newRoot : dest.events[i] = history[i] /\ mig.rootMap[history[i]] = i
        /\ \A n \in Nodes : \/ mig.rootMap[n] = NoNode
                            \/ mig.rootMap[n] \in 1..mig.newRoot /\ history[mig.rootMap[n]] = n

\* Ref x of the destination names the copy of what it names in the source.
Translated(x) ==
    /\ dest.refs[x] \in 1..Len(dest.events)
    /\ dest.events[dest.refs[x]] = named[x]

TranslationInv ==
    /\ mig.pc \in {"refs", "closing"} =>
           /\ AllCopied
           /\ \A x \in Names : named[x] # NoNode => x \in mig.left \/ Translated(x)
    /\ mig.pc = "refs" => mig.left \subseteq Listed
    /\ mig.pc = "closing" => mig.left = {}

\* The events are a prefix of a history.
PrefixEvents(events) ==
    /\ events \in Seq(Nodes)
    /\ \A i \in 1..Len(events) : events[i] \in 1..minted
    /\ IsPrefixCopy(events)

\* Directory d holds one, or what is left of one.
PrefixCopy(d) == d \in DirectoryRecord /\ PrefixEvents(d.events)

Told == outcome \in {"stranded", "died", "conflict", "unprinted"}

\* Whatever call left it, the destination is a prefix of the history, and the
\* operator was told or power was lost.
DestInv ==
    /\ PrefixCopy(dest)
    /\ dest.there /\ mig.pc = "idle" /\ ~manifest.printed => cut \/ Told

\* What a power loss may bring back is a prefix too.
RemovedInv == \A events \in removed : PrefixEvents(events)

ManifestInv ==
    manifest.printed /\ ~cut =>
        /\ dest.there
        /\ ~dest.broken
        /\ LastEvent(dest) = manifest.sourceRoot
        /\ \A i \in 1..Len(dest.events) : manifest.rootMap[dest.events[i]] = i

MigrationInv ==
    /\ MigrationTypeOK /\ CallInv /\ CopyInv /\ TranslationInv /\ DestInv /\ ManifestInv
    /\ StrayRefNeedsFault
    /\ ~powerLost => RefsInHistory

\* A directory with one field changed.
LEMMA ThereEdit ==
    ASSUME NEW d \in DirectoryRecord, NEW b \in BOOLEAN
    PROVE  /\ [d EXCEPT !.there = b] \in DirectoryRecord
           /\ [d EXCEPT !.there = b].there = b
           /\ [d EXCEPT !.there = b].events = d.events
           /\ [d EXCEPT !.there = b].broken = d.broken
<1>1. PICK S, F : S = Seq(Nodes) /\ F = [Entries -> Nat]
  OBVIOUS
<1>2. DirectoryRecord = [there : BOOLEAN, events : S, refs : F, broken : BOOLEAN]
  BY <1>1 DEF DirectoryRecord
<1> QED BY <1>1, <1>2

\* The same for its events ...
LEMMA EventsEdit ==
    ASSUME NEW d \in DirectoryRecord, NEW s \in Seq(Nodes)
    PROVE  /\ [d EXCEPT !.events = s] \in DirectoryRecord
           /\ [d EXCEPT !.events = s].there = d.there
           /\ [d EXCEPT !.events = s].events = s
           /\ [d EXCEPT !.events = s].refs = d.refs
           /\ [d EXCEPT !.events = s].broken = d.broken
<1>1. PICK S, F : S = Seq(Nodes) /\ F = [Entries -> Nat]
  OBVIOUS
<1>2. DirectoryRecord = [there : BOOLEAN, events : S, refs : F, broken : BOOLEAN]
  BY <1>1 DEF DirectoryRecord
<1> QED BY <1>1, <1>2

\* ... and for one of its refs.
LEMMA RefsEdit ==
    ASSUME NEW d \in DirectoryRecord, NEW e \in Entries, NEW n \in Nat
    PROVE  /\ [d EXCEPT !.refs[e] = n] \in DirectoryRecord
           /\ [d EXCEPT !.refs[e] = n].there = d.there
           /\ [d EXCEPT !.refs[e] = n].events = d.events
           /\ [d EXCEPT !.refs[e] = n].refs = [d.refs EXCEPT ![e] = n]
           /\ [d EXCEPT !.refs[e] = n].broken = d.broken
<1>1. PICK S, F, f : S = Seq(Nodes) /\ F = [Entries -> Nat] /\ f = [d.refs EXCEPT ![e] = n]
  OBVIOUS
<1>2. DirectoryRecord = [there : BOOLEAN, events : S, refs : F, broken : BOOLEAN]
  BY <1>1 DEF DirectoryRecord
<1>3. f \in F
  BY <1>1, <1>2
<1>4. [d EXCEPT !.refs[e] = n] = [d EXCEPT !.refs = f]
  BY <1>1
<1> QED BY <1>1, <1>2, <1>3, <1>4

\* The same for the mark of a directory whose nodes are missing.
LEMMA BrokenEdit ==
    ASSUME NEW d \in DirectoryRecord, NEW b \in BOOLEAN
    PROVE  /\ [d EXCEPT !.broken = b] \in DirectoryRecord
           /\ [d EXCEPT !.broken = b].events = d.events
<1>1. PICK S, F : S = Seq(Nodes) /\ F = [Entries -> Nat]
  OBVIOUS
<1>2. DirectoryRecord = [there : BOOLEAN, events : S, refs : F, broken : BOOLEAN]
  BY <1>1 DEF DirectoryRecord
<1> QED BY <1>1, <1>2

\* A prefix stays a prefix.
LEMMA PrefixStep ==
    ASSUME TypeOK, StoreInv, [Next]_vars, NEW s, PrefixEvents(s)
    PROVE  PrefixEvents(s)'
<1>1. minted <= minted' /\ \A n \in 1..minted : node'[n] = node[n]
  BY StepFrame DEF StoreInv, DurabilityInv
<1>2. minted \in Int /\ minted' \in Int
  BY TypeStep, StoreAssumption DEF TypeOK
<1>3. \A i \in 1..Len(s) : s[i] \in 1..minted'
  BY <1>1, <1>2 DEF PrefixEvents
<1>4. IsPrefixCopy(s)'
  BY <1>1 DEF PrefixEvents, IsPrefixCopy
<1> QED BY <1>3, <1>4 DEF PrefixEvents

LEMMA PrefixCopyStep ==
    ASSUME TypeOK, StoreInv, [Next]_vars, NEW d, PrefixCopy(d)
    PROVE  PrefixCopy(d)'
<1>1. PICK s : s = d.events
  OBVIOUS
<1>2. PrefixEvents(s)'
  BY <1>1, PrefixStep DEF PrefixCopy
<1> QED BY <1>1, <1>2 DEF PrefixCopy

\* A directory with nothing in it is one.
LEMMA EmptyDirectory ==
    /\ NoDirectory.there = FALSE
    /\ NoDirectory.events = <<>>
    /\ EmptyDestination.there = TRUE
    /\ EmptyDestination.events = <<>>
    /\ EmptyDestination.broken = FALSE
    /\ PrefixCopy(EmptyDestination)
    /\ PrefixCopy(NoDirectory)
    /\ PrefixEvents(<<>>)
<1>1. /\ NoDirectory \in DirectoryRecord /\ NoDirectory.events = <<>>
      /\ NoDirectory.there = FALSE /\ NoDirectory.broken = FALSE
  BY DEF NoDirectory, NoRefs, DirectoryRecord, NoNode
<1>2. /\ EmptyDestination \in DirectoryRecord /\ EmptyDestination.events = <<>>
      /\ EmptyDestination.there = TRUE /\ EmptyDestination.broken = FALSE
  <2>1. PICK d \in DirectoryRecord : d = NoDirectory /\ d.events = <<>> /\ d.broken = FALSE
    BY <1>1
  <2>2. EmptyDestination = [d EXCEPT !.there = TRUE]
    BY <2>1 DEF EmptyDestination
  <2> QED BY <2>1, <2>2, ThereEdit
<1>3. PrefixEvents(<<>>)
  BY DEF PrefixEvents, IsPrefixCopy
<1> QED BY <1>1, <1>2, <1>3 DEF PrefixCopy

\* The next event of the history makes a longer one.
LEMMA PrefixGrows ==
    ASSUME TypeOK, StoreInv, MigrationInv, mig.pc = "copying", mig.newRoot < Len(history),
           NEW n, n = history[mig.newRoot + 1]
    PROVE  /\ n \in Nodes
           /\ PrefixCopy(Appended(dest, n))
           /\ Appended(dest, n).events = Append(dest.events, n)
           /\ Appended(dest, n).there = dest.there
           /\ Appended(dest, n).refs = dest.refs
           /\ Appended(dest, n).broken = dest.broken
<1>1. PICK e, k : e = dest.events /\ k = mig.newRoot
  OBVIOUS
<1>2. /\ e \in Seq(Nodes) /\ k \in Nat /\ Len(e) = k /\ k < Len(history)
      /\ \A i \in 1..k : e[i] = history[i]
      /\ history \in Seq(Nodes)
  BY <1>1 DEF MigrationInv, MigrationTypeOK, DirectoryRecord, CallRecord, CopyInv, TypeOK
<1>3. k + 1 \in 1..Len(history)
  BY <1>2
<1>4. n \in Nodes /\ n = history[k + 1]
  BY <1>1, <1>2, <1>3
<1>5. /\ Appended(dest, n) \in DirectoryRecord
      /\ Appended(dest, n).events = Append(e, n)
      /\ Appended(dest, n).there = dest.there
      /\ Appended(dest, n).refs = dest.refs
      /\ Appended(dest, n).broken = dest.broken
  <2>1. PICK d \in DirectoryRecord : d = dest
    BY DEF MigrationInv, MigrationTypeOK
  <2>2. PICK s \in Seq(Nodes) : s = Append(e, n)
    <3>1. Append(e, n) \in Seq(Nodes)
      BY <1>2, <1>4
    <3> QED BY <3>1
  <2>3. Appended(dest, n) = [d EXCEPT !.events = s]
    BY <1>1, <2>1, <2>2 DEF Appended
  <2>4. /\ [d EXCEPT !.events = s] \in DirectoryRecord
        /\ [d EXCEPT !.events = s].there = d.there
        /\ [d EXCEPT !.events = s].events = s
        /\ [d EXCEPT !.events = s].refs = d.refs
        /\ [d EXCEPT !.events = s].broken = d.broken
    BY EventsEdit
  <2> QED BY <2>1, <2>2, <2>3, <2>4, Zenon
<1>6. /\ \A i \in 1..Len(history) :
            node[history[i]].parent = IF i = 1 THEN NoNode ELSE history[i - 1]
      /\ Indexed \subseteq 1..minted
  BY DEF MigrationInv, CallInv, Free, StoreInv, DurabilityInv, DiskInv, HistoryInv, IndexInv, TypeOK
<1>7. n \in 1..minted
  BY <1>3, <1>4, <1>6 DEF Indexed
<1>8. \A i \in 1..Len(Append(e, n)) : Append(e, n)[i] = history[i]
  BY <1>2, <1>4
<1>9. Len(Append(e, n)) = k + 1
  BY <1>2, <1>4
<1>10. \A i \in 1..Len(Append(e, n)) : Append(e, n)[i] \in 1..minted
  BY <1>2, <1>3, <1>6, <1>8, <1>9 DEF Indexed
<1>11. \A i \in 1..Len(Append(e, n)) :
          node[Append(e, n)[i]].parent = IF i = 1 THEN NoNode ELSE Append(e, n)[i - 1]
  <2> SUFFICES ASSUME NEW i \in 1..Len(Append(e, n))
               PROVE  node[Append(e, n)[i]].parent = IF i = 1 THEN NoNode ELSE Append(e, n)[i - 1]
    OBVIOUS
  <2>1. i \in 1..Len(history) /\ (i # 1 => i - 1 \in 1..Len(Append(e, n)))
    BY <1>2, <1>3, <1>9
  <2> QED BY <1>6, <1>8, <2>1
<1>12. PrefixCopy(Appended(dest, n))
  <2>1. Append(e, n) \in Seq(Nodes)
    BY <1>2, <1>4
  <2>2. PrefixEvents(Append(e, n))
    BY <1>10, <1>11, <2>1 DEF PrefixEvents, IsPrefixCopy
  <2> QED BY <1>5, <2>2 DEF PrefixCopy
<1> QED BY <1>1, <1>4, <1>5, <1>12

\* The steps of a call leave the source alone.
LEMMA CallFrame ==
    ASSUME MigrationInv, UNCHANGED <<allVars, leftover, powerLost>>
    PROVE  /\ (~powerLost => RefsInHistory)'
           /\ Free => Free'
           /\ IndexIsCurrent => IndexIsCurrent'
           /\ \A d : PrefixCopy(d) => PrefixCopy(d)'
           /\ leftover' \in [there : BOOLEAN, root : Roots]
           /\ Listed' = Listed
           /\ UNCHANGED <<root, history, named, leftover, powerLost>>
<1>1. UNCHANGED <<node, minted, root, history, pc, refPC, named, seen, leftover, powerLost>>
  BY DEF allVars, vars, refVars
<1>2. RefsInHistory => RefsInHistory'
  BY <1>1 DEF RefsInHistory, InChain, Holds, ParentClosed
<1>3. \A d : PrefixCopy(d) => PrefixCopy(d)'
  BY <1>1 DEF PrefixCopy, PrefixEvents, IsPrefixCopy
<1>4. (Free => Free') /\ (IndexIsCurrent => IndexIsCurrent') /\ Listed' = Listed
  BY <1>1 DEF Free, IndexIsCurrent, IndexedRoot, Listed
<1> QED BY <1>1, <1>2, <1>3, <1>4 DEF MigrationInv, MigrationTypeOK

\* A call that is given up leaves a destination to be removed.
LEMMA AbandonKeeps ==
    ASSUME MigrationInv, mig.pc # "idle", NEW b \in BOOLEAN, Abandon(b),
           b => powerLost \/ leftover.there, CallStep
    PROVE  MigrationInv'
<1>1. mig' \in CallRecord /\ mig'.pc = "cleanup" /\ mig'.stray = b
  BY DEF Abandon, MigrationInv, MigrationTypeOK, CallRecord
<1>2. UNCHANGED <<dest, manifest, cut>> /\ UNCHANGED <<allVars, leftover, powerLost>>
  BY DEF Abandon, CallStep
<1>3. MigrationTypeOK'
  BY <1>1, <1>2, CallFrame DEF MigrationInv, MigrationTypeOK
<1>4. CallInv'
  BY <1>1, <1>2, CallFrame DEF MigrationInv, CallInv
<1>5. DestInv'
  <2>1. PICK d : d = dest
    OBVIOUS
  <2>2. PrefixCopy(d)'
    BY <1>2, <2>1, CallFrame DEF MigrationInv, DestInv
  <2> QED BY <1>1, <1>2, <2>1, <2>2 DEF DestInv
<1>6. ManifestInv'
  BY <1>2 DEF MigrationInv, ManifestInv, LastEvent
<1>7. StrayRefNeedsFault'
  BY <1>1, <1>2 DEF StrayRefNeedsFault
<1> QED
  BY <1>1, <1>2, <1>3, <1>4, <1>5, <1>6, <1>7, CallFrame
     DEF MigrationInv, CopyInv, TranslationInv

\* A call begins with a directory that it has just made.
LEMMA BeginKeeps ==
    ASSUME TypeOK, MigrationInv, MigrateDataKey
    PROVE  MigrationInv'
<1>1. UNCHANGED <<allVars, leftover, powerLost>> /\ mig.pc = "idle" /\ Free
  BY DEF MigrateDataKey
<1>2. CASE UNCHANGED <<mig, dest, manifest, cut>> /\ (~dest.there \/ outcome' = "conflict")
  <2>1. PICK d : d = dest
    OBVIOUS
  <2>2. PrefixCopy(d)'
    BY <1>1, <2>1, CallFrame DEF MigrationInv, DestInv
  <2>3. DestInv'
    BY <1>1, <1>2, <2>1, <2>2 DEF DestInv, Told
  <2>4. MigrationTypeOK' /\ ManifestInv' /\ CallInv'
    BY <1>1, <1>2, CallFrame DEF MigrationInv, MigrationTypeOK, ManifestInv, LastEvent, CallInv
  <2>5. CopyInv' /\ TranslationInv' /\ StrayRefNeedsFault'
    BY <1>1, <1>2 DEF MigrationInv, CopyInv, TranslationInv, StrayRefNeedsFault
  <2> QED BY <1>1, <2>3, <2>4, <2>5, CallFrame DEF MigrationInv
<1>3. CASE /\ IndexIsCurrent
           /\ mig' = [IdleCall EXCEPT !.pc = "made"]
           /\ dest' = EmptyDestination
           /\ manifest' = NoManifest
  <2>1. PICK d : d = EmptyDestination
    OBVIOUS
  <2>2. /\ PrefixCopy(d) /\ d.there = TRUE /\ d.events = <<>> /\ d.broken = FALSE
        /\ d \in DirectoryRecord
    BY <2>1, EmptyDirectory DEF PrefixCopy
  <2>3. PrefixCopy(d)'
    BY <1>1, <2>2, CallFrame
  <2>4. /\ mig'.pc = "made" /\ mig'.newRoot = 0 /\ mig'.rootMap = [n \in Nodes |-> 0]
        /\ mig'.stray = FALSE /\ mig' \in CallRecord
    BY <1>3 DEF IdleCall, CallRecord, NotMapped, NoNode
  <2>5. ~manifest'.printed
    BY <1>3 DEF NoManifest
  <2>6. MigrationTypeOK' /\ CallInv' /\ DestInv' /\ ManifestInv'
    BY <1>1, <1>3, <2>1, <2>2, <2>3, <2>4, <2>5, CallFrame
       DEF MigrationTypeOK, CallInv, DestInv, ManifestInv
  <2>7. CopyInv'
    <3>1. UNCHANGED history /\ Len(history) \in Nat /\ Len(dest'.events) = 0
      BY <1>1, <1>3, <2>1, <2>2, CallFrame DEF TypeOK
    <3> QED BY <2>4, <3>1 DEF CopyInv, NoNode
  <2>8. TranslationInv' /\ StrayRefNeedsFault'
    BY <2>4 DEF TranslationInv, StrayRefNeedsFault
  <2> QED BY <1>1, <2>6, <2>7, <2>8, CallFrame DEF MigrationInv
<1> QED BY <1>2, <1>3 DEF MigrateDataKey

\* What holds of a call that goes on with the same destination.
LEMMA GoesOn ==
    ASSUME MigrationInv, mig.pc # "idle", CallStep, UNCHANGED dest,
           mig' \in CallRecord, mig'.pc # "idle", mig'.stray = mig.stray
    PROVE  /\ MigrationTypeOK' /\ CallInv' /\ DestInv' /\ ManifestInv' /\ StrayRefNeedsFault'
           /\ (~powerLost => RefsInHistory)'
<1>1. UNCHANGED <<manifest, cut>> /\ UNCHANGED <<allVars, leftover, powerLost>>
  BY DEF CallStep
<1>2. PICK d : d = dest
  OBVIOUS
<1>3. PrefixCopy(d)'
  BY <1>1, <1>2, CallFrame DEF MigrationInv, DestInv
<1>4. DestInv'
  BY <1>2, <1>3 DEF DestInv
<1>5. MigrationTypeOK' /\ CallInv'
  BY <1>1, CallFrame DEF MigrationInv, MigrationTypeOK, CallInv
<1>6. ManifestInv' /\ StrayRefNeedsFault'
  BY <1>1, CallFrame DEF MigrationInv, ManifestInv, LastEvent, StrayRefNeedsFault
<1> QED BY <1>1, <1>4, <1>5, <1>6, CallFrame

\* The destination is opened.
LEMMA OpenKeeps ==
    ASSUME TypeOK, MigrationInv, NEW ok \in BOOLEAN, OpenDestination(ok)
    PROVE  MigrationInv'
<1>1. mig.pc = "made" /\ CallStep
  BY DEF OpenDestination
<1>2. CASE ~ok
  BY <1>1, <1>2, AbandonKeeps DEF OpenDestination
<1>3. CASE ok
  <2>1. mig' = [mig EXCEPT !.pc = "copying"] /\ UNCHANGED dest
    BY <1>3 DEF OpenDestination
  <2>2. /\ mig' \in CallRecord /\ mig'.pc = "copying" /\ mig'.stray = mig.stray
        /\ mig'.newRoot = mig.newRoot /\ mig'.rootMap = mig.rootMap
    BY <2>1 DEF MigrationInv, MigrationTypeOK, CallRecord
  <2>3. UNCHANGED history
    BY <1>1 DEF CallStep, allVars, vars
  <2>4. CopyInv' /\ TranslationInv'
    BY <1>1, <2>1, <2>2, <2>3 DEF MigrationInv, CopyInv, TranslationInv
  <2> QED BY <1>1, <2>1, <2>2, <2>4, GoesOn DEF MigrationInv
<1> QED BY <1>2, <1>3

\* One event is copied.
LEMMA CopyNodeKeeps ==
    ASSUME TypeOK, StoreInv, MigrationInv, NEW ok \in BOOLEAN, CopyNode(ok)
    PROVE  MigrationInv'
<1>1. mig.pc = "copying" /\ mig.newRoot < Len(history) /\ CallStep
  BY DEF CopyNode
<1>2. CASE Abandon(FALSE)
  BY <1>1, <1>2, AbandonKeeps
<1>3. CASE ~Abandon(FALSE)
  <2>1. PICK n : n = history[mig.newRoot + 1]
    OBVIOUS
  <2>2. /\ dest' = Appended(dest, n)
        /\ mig' = [mig EXCEPT !.newRoot = Len(dest'.events), !.rootMap[n] = Len(dest'.events)]
    BY <1>3, <2>1 DEF CopyNode
  <2>3. /\ n \in Nodes
        /\ PrefixCopy(Appended(dest, n))
        /\ Appended(dest, n).events = Append(dest.events, n)
        /\ Appended(dest, n).there = dest.there
        /\ Appended(dest, n).broken = dest.broken
    BY <1>1, <2>1, PrefixGrows
  <2>4. PICK k \in Nat : k = mig.newRoot
    BY DEF MigrationInv, MigrationTypeOK, CallRecord
  <2>5. /\ dest.events \in Seq(Nodes) /\ Len(dest.events) = k
        /\ \A i \in 1..k : dest.events[i] = history[i] /\ mig.rootMap[history[i]] = i
        /\ \A m \in Nodes : \/ mig.rootMap[m] = NoNode
                            \/ mig.rootMap[m] \in 1..k /\ history[mig.rootMap[m]] = m
    BY <1>1, <2>4 DEF MigrationInv, MigrationTypeOK, DirectoryRecord, CopyInv
  <2>6. /\ dest'.events = Append(dest.events, n) /\ Len(dest'.events) = k + 1
        /\ dest'.there = dest.there /\ dest'.broken = dest.broken
    BY <2>2, <2>3, <2>5
  <2>7. mig' = [mig EXCEPT !.newRoot = k + 1, !.rootMap[n] = k + 1]
    BY <2>2, <2>6
  <2>8. /\ mig' \in CallRecord /\ mig'.pc = "copying" /\ mig'.newRoot = k + 1
        /\ mig'.rootMap = [mig.rootMap EXCEPT ![n] = k + 1] /\ mig'.stray = mig.stray
    <3>1. PICK M, f : M = [Nodes -> Nat] /\ f = [mig.rootMap EXCEPT ![n] = k + 1]
      OBVIOUS
    <3>2. mig \in [pc : {"idle", "made", "copying", "refs", "closing", "cleanup"}, newRoot : Nat,
                   rootMap : M, left : SUBSET Entries, stray : BOOLEAN]
      BY <3>1 DEF MigrationInv, MigrationTypeOK, CallRecord
    <3>3. f \in M
      BY <2>3, <3>1, <3>2
    <3>4. [mig EXCEPT !.newRoot = k + 1].rootMap = mig.rootMap
      BY <3>2
    <3>5. mig' = [mig EXCEPT !.newRoot = k + 1, !.rootMap = f]
      BY <2>7, <3>1, <3>4
    <3>6. k + 1 \in Nat
      OBVIOUS
    <3>7. /\ mig' \in [pc : {"idle", "made", "copying", "refs", "closing", "cleanup"}, newRoot : Nat,
                       rootMap : M, left : SUBSET Entries, stray : BOOLEAN]
          /\ mig'.pc = mig.pc /\ mig'.newRoot = k + 1 /\ mig'.rootMap = f /\ mig'.stray = mig.stray
      BY <3>2, <3>3, <3>5, <3>6
    <3> QED BY <1>1, <3>1, <3>7 DEF CallRecord
  <2>9. UNCHANGED <<manifest, cut>> /\ UNCHANGED <<allVars, leftover, powerLost>>
    BY <1>1 DEF CallStep
  <2>10. PrefixCopy(dest)'
    <3>1. PICK d : d = Appended(dest, n)
      OBVIOUS
    <3>2. PrefixCopy(d)'
      BY <2>3, <2>9, <3>1, CallFrame
    <3> QED BY <2>2, <3>1, <3>2
  <2>11. MigrationTypeOK' /\ CallInv' /\ DestInv'
    BY <1>1, <2>6, <2>8, <2>9, <2>10, CallFrame
       DEF MigrationInv, MigrationTypeOK, CallInv, DestInv, PrefixCopy
  <2>12. ManifestInv' /\ StrayRefNeedsFault' /\ TranslationInv'
    BY <1>1, <2>8, <2>9, CallFrame
       DEF MigrationInv, CallInv, ManifestInv, StrayRefNeedsFault, TranslationInv
  <2>13. CopyInv'
    <3>1. /\ history \in Seq(Nodes) /\ k < Len(history) /\ n = history[k + 1] /\ Len(history) \in Nat
          /\ \A i, j \in 1..Len(history) : i < j => history[i] < history[j]
      BY <1>1, <2>1, <2>4 DEF MigrationInv, CallInv, Free, StoreInv, HistoryInv, IndexInv, TypeOK
    <3>2. \A i \in 1..k : history[i] # n /\ history[i] \in Nodes
      <4>1. \A i \in 1..Len(history) : history[i] \in Int
        BY <3>1, StoreAssumption DEF Nodes
      <4>2. ASSUME NEW i \in 1..k PROVE history[i] < history[k + 1] /\ i \in 1..Len(history)
        BY <3>1
      <4>3. k + 1 \in 1..Len(history)
        BY <3>1
      <4> QED BY <3>1, <4>1, <4>2, <4>3
    <3>3. mig.rootMap \in [Nodes -> Nat]
      BY DEF MigrationInv, MigrationTypeOK, CallRecord
    <3>4. \A i \in 1..(k + 1) : dest'.events[i] = history[i]
      BY <2>3, <2>5, <2>6, <3>1
    <3>5. \A i \in 1..(k + 1) : mig'.rootMap[history[i]] = i
      BY <2>3, <2>5, <2>8, <3>1, <3>2, <3>3
    <3>6. \A m \in Nodes : \/ mig'.rootMap[m] = NoNode
                           \/ mig'.rootMap[m] \in 1..(k + 1) /\ history[mig'.rootMap[m]] = m
      BY <2>5, <2>8, <3>1, <3>3
    <3>7. UNCHANGED history
      BY <2>9, CallFrame
    <3>8. k + 1 <= Len(history)
      BY <3>1
    <3> QED BY <2>6, <2>8, <3>4, <3>5, <3>6, <3>7, <3>8 DEF CopyInv
  <2> QED BY <2>9, <2>11, <2>12, <2>13, CallFrame DEF MigrationInv
<1> QED BY <1>2, <1>3

\* The names of the refs are read.
LEMMA ListRefsKeeps ==
    ASSUME TypeOK, MigrationInv, NEW ok \in BOOLEAN, ListRefs(ok)
    PROVE  MigrationInv'
<1>1. mig.pc = "copying" /\ AllCopied /\ CallStep
  BY DEF ListRefs
<1>2. CASE ~ok
  BY <1>1, <1>2, AbandonKeeps DEF ListRefs
<1>3. CASE ok
  <2>1. mig' = [mig EXCEPT !.pc = "refs", !.left = Listed] /\ UNCHANGED dest
    BY <1>3 DEF ListRefs
  <2>2. Listed \in SUBSET Entries
    BY DEF Listed, Entries
  <2>3. /\ mig' \in CallRecord /\ mig'.pc = "refs" /\ mig'.stray = mig.stray
        /\ mig'.newRoot = mig.newRoot /\ mig'.rootMap = mig.rootMap /\ mig'.left = Listed
    BY <2>1, <2>2 DEF MigrationInv, MigrationTypeOK, CallRecord
  <2>4. UNCHANGED <<history, named, leftover>>
    BY <1>1 DEF CallStep, allVars, vars, refVars
  <2>5. CopyInv'
    BY <1>1, <2>1, <2>3, <2>4 DEF MigrationInv, CopyInv
  <2>6. TranslationInv'
    BY <1>1, <2>3, <2>4 DEF TranslationInv, AllCopied, Listed
  <2> QED BY <1>1, <2>1, <2>3, <2>5, <2>6, GoesOn DEF MigrationInv
<1> QED BY <1>2, <1>3

\* A ref that does not lead into the history was left by a fault.
LEMMA StrayMeansFault ==
    ASSUME TypeOK, StoreInv, RefInv, MigrationInv, mig.pc = "refs", NEW e \in mig.left,
           Content(e) = NoNode \/ mig.rootMap[Content(e)] = NoNode
    PROVE  powerLost \/ leftover.there
<1> SUFFICES ASSUME ~powerLost, ~leftover.there PROVE FALSE
  OBVIOUS
<1>1. e \in Names /\ named[e] # NoNode
  BY DEF MigrationInv, TranslationInv, Listed
<1>2. Content(e) = named[e]
  BY <1>1, MigrationAssumption DEF Content
<1>3. InChain(named[e], root)
  BY <1>1 DEF MigrationInv, RefsInHistory
<1>4. PICK n : n = named[e]
  OBVIOUS
<1>5. root \in rootSurvivors /\ root = IndexedRoot /\ pc = "open"
  BY DEF MigrationInv, CallInv, Free, IndexIsCurrent, StoreInv, DurabilityInv, DiskInv
<1>6. PICK r \in rootSurvivors : r = root
  BY <1>5
<1>7. n \in Indexed
  BY <1>3, <1>4, <1>5, <1>6, ChainIndexed
<1>8. PICK i \in 1..Len(history) : history[i] = n
  BY <1>7 DEF Indexed
<1>9. mig.newRoot = Len(history) /\ \A j \in 1..mig.newRoot : mig.rootMap[history[j]] = j
  BY DEF MigrationInv, TranslationInv, AllCopied, CopyInv
<1>10. mig.rootMap[n] = i /\ i # NoNode
  BY <1>8, <1>9 DEF NoNode
<1> QED BY <1>1, <1>2, <1>4, <1>10

\* One ref is translated.
LEMMA CopyRefKeeps ==
    ASSUME TypeOK, StoreInv, RefInv, MigrationInv, NEW ok \in BOOLEAN, NEW e \in Entries,
           CopyRef(e, ok)
    PROVE  MigrationInv'
<1>1. mig.pc = "refs" /\ e \in mig.left /\ CallStep
  BY DEF CopyRef
<1>2. CASE Abandon(FALSE)
  BY <1>1, <1>2, AbandonKeeps
<1>3. CASE Content(e) = NoNode \/ mig.rootMap[Content(e)] = NoNode
  <2>1. Abandon(TRUE)
    BY <1>3 DEF CopyRef
  <2>2. powerLost \/ leftover.there
    BY <1>1, <1>3, StrayMeansFault
  <2> QED BY <1>1, <2>1, <2>2, AbandonKeeps
<1>4. CASE ~(Content(e) = NoNode \/ mig.rootMap[Content(e)] = NoNode) /\ ~Abandon(FALSE)
  <2>1. PICK k, c : c = Content(e) /\ k = mig.rootMap[c]
    OBVIOUS
  <2>2. c \in Nodes
    BY <1>4, <2>1, StoreAssumption
       DEF Content, Entries, MigrationInv, MigrationTypeOK, RefInv, NoNode, Nodes, Roots
  <2>3. /\ dest' = [dest EXCEPT !.refs[e] = k]
        /\ mig' = [mig EXCEPT !.left = @ \ {e}]
    BY <1>4, <2>1 DEF CopyRef
  <2>4. /\ k \in 1..mig.newRoot /\ history[k] = c
        /\ mig.newRoot = Len(dest.events)
        /\ \A i \in 1..mig.newRoot : dest.events[i] = history[i]
    BY <1>1, <1>4, <2>1, <2>2 DEF MigrationInv, CopyInv
  <2>5. k \in Nat /\ k \in 1..Len(dest.events) /\ dest.events[k] = c
    BY <2>4
  <2>6. /\ dest' \in DirectoryRecord /\ dest'.there = dest.there /\ dest'.events = dest.events
        /\ dest'.refs = [dest.refs EXCEPT ![e] = k] /\ dest'.broken = dest.broken
    <3>1. PICK d \in DirectoryRecord : d = dest
      BY DEF MigrationInv, MigrationTypeOK
    <3> QED BY <2>3, <2>5, <3>1, RefsEdit
  <2>7. /\ mig' \in CallRecord /\ mig'.pc = "refs" /\ mig'.stray = mig.stray
        /\ mig'.newRoot = mig.newRoot /\ mig'.rootMap = mig.rootMap /\ mig'.left = mig.left \ {e}
    BY <1>1, <2>3 DEF MigrationInv, MigrationTypeOK, CallRecord
  <2>8. UNCHANGED <<manifest, cut>> /\ UNCHANGED <<allVars, leftover, powerLost>>
    BY <1>1 DEF CallStep
  <2>9. PrefixCopy(dest)'
    <3>1. PICK d : d = dest
      OBVIOUS
    <3>2. PrefixCopy(d)'
      BY <2>8, <3>1, CallFrame DEF MigrationInv, DestInv
    <3> QED BY <2>6, <3>1, <3>2 DEF PrefixCopy, PrefixEvents, IsPrefixCopy
  <2>10. MigrationTypeOK' /\ CallInv' /\ DestInv' /\ ManifestInv' /\ StrayRefNeedsFault'
    BY <1>1, <2>6, <2>7, <2>8, <2>9, CallFrame
       DEF MigrationInv, MigrationTypeOK, CallInv, DestInv, ManifestInv, StrayRefNeedsFault
  <2>11. UNCHANGED <<history, named>> /\ Listed' = Listed
    BY <2>8, CallFrame
  <2>12. CopyInv'
    BY <1>1, <2>6, <2>7, <2>11 DEF MigrationInv, CopyInv
  <2>13. TranslationInv'
    <3>1. ASSUME NEW x \in Names, named[x] # NoNode, x \notin mig'.left
          PROVE  Translated(x)'
      <4>1. dest.refs \in [Entries -> Nat] /\ x \in Entries
        BY DEF MigrationInv, MigrationTypeOK, DirectoryRecord, Entries
      <4>2. CASE x = e
        <5>1. c = named[x]
          BY <2>1, <4>2, MigrationAssumption DEF Content
        <5> QED BY <2>5, <2>6, <2>11, <4>1, <4>2, <5>1 DEF Translated
      <4>3. CASE x # e
        <5>1. Translated(x)
          BY <1>1, <2>7, <3>1, <4>3 DEF MigrationInv, TranslationInv
        <5> QED BY <2>6, <2>11, <4>1, <4>3, <5>1 DEF Translated
      <4> QED BY <4>2, <4>3
    <3>2. AllCopied' /\ mig'.left \subseteq Listed'
      BY <1>1, <2>7, <2>11 DEF MigrationInv, TranslationInv, AllCopied
    <3> QED BY <2>7, <2>11, <3>1, <3>2 DEF TranslationInv
  <2> QED BY <2>8, <2>10, <2>12, <2>13, CallFrame DEF MigrationInv
<1> QED BY <1>2, <1>3, <1>4

\* The destination is to be kept.
LEMMA KeepKeeps ==
    ASSUME MigrationInv, KeepDestination
    PROVE  MigrationInv'
<1>1. /\ mig.pc = "refs" /\ CallStep /\ mig.left = {} /\ UNCHANGED dest
      /\ mig' = [mig EXCEPT !.pc = "closing"]
  BY DEF KeepDestination
<1>2. /\ mig' \in CallRecord /\ mig'.pc = "closing" /\ mig'.stray = mig.stray
      /\ mig'.newRoot = mig.newRoot /\ mig'.rootMap = mig.rootMap /\ mig'.left = {}
  BY <1>1 DEF MigrationInv, MigrationTypeOK, CallRecord
<1>3. UNCHANGED <<history, named>>
  BY <1>1 DEF CallStep, allVars, vars, refVars
<1>4. CopyInv'
  BY <1>1, <1>2, <1>3 DEF MigrationInv, CopyInv
<1>5. TranslationInv'
  BY <1>1, <1>2, <1>3 DEF MigrationInv, TranslationInv, AllCopied, Translated
<1> QED BY <1>1, <1>2, <1>4, <1>5, GoesOn DEF MigrationInv

\* After a call, mig is as before it.
LEMMA IdleMeansNothing ==
    /\ IdleCall \in CallRecord
    /\ IdleCall.pc = "idle" /\ IdleCall.stray = FALSE /\ IdleCall.left = {}
  BY DEF IdleCall, CallRecord, NotMapped, NoNode

\* What is printed describes the destination.
LEMMA CloseKeeps ==
    ASSUME TypeOK, MigrationInv, NEW ok \in BOOLEAN, NEW printed \in BOOLEAN,
           CloseDestination(ok, printed)
    PROVE  MigrationInv'
<1>1. /\ mig.pc = "closing" /\ mig' = IdleCall /\ UNCHANGED <<dest, cut>>
      /\ UNCHANGED <<allVars, leftover, powerLost>>
  BY DEF CloseDestination
<1>2. mig'.pc = "idle" /\ mig'.stray = FALSE /\ mig' \in CallRecord
  BY <1>1, IdleMeansNothing
<1>3. \/ /\ manifest'.printed /\ manifest'.sourceRoot = root
         /\ manifest'.rootMap = mig.rootMap
      \/ ~manifest'.printed /\ outcome' = "unprinted"
  BY <1>1 DEF CloseDestination, MigrationInv, CallInv
<1>4. MigrationTypeOK' /\ CallInv'
  BY <1>1, <1>2, CallFrame DEF MigrationInv, MigrationTypeOK, CallInv
<1>5. DestInv'
  <2>1. PICK d : d = dest
    OBVIOUS
  <2>2. PrefixCopy(d)'
    BY <1>1, <2>1, CallFrame DEF MigrationInv, DestInv
  <2> QED BY <1>1, <1>3, <2>1, <2>2 DEF DestInv, Told
<1>6. ManifestInv'
  <2>1. PICK e : e = dest.events
    OBVIOUS
  <2>2. /\ e \in Seq(Nodes) /\ history \in Seq(Nodes) /\ Len(e) = Len(history)
        /\ \A i \in 1..Len(e) : e[i] = history[i] /\ mig.rootMap[e[i]] = i
        /\ root = IndexedRoot /\ dest.there /\ ~dest.broken
    BY <1>1, <2>1
       DEF MigrationInv, MigrationTypeOK, DirectoryRecord, TypeOK, CopyInv, TranslationInv,
           AllCopied, CallInv, IndexIsCurrent
  <2>3. LastEvent(dest) = root
    BY <2>1, <2>2 DEF LastEvent, IndexedRoot
  <2>4. LastEvent(dest)' = LastEvent(dest)
    BY <1>1 DEF LastEvent
  <2> QED BY <1>1, <1>3, <2>1, <2>2, <2>3, <2>4 DEF ManifestInv
<1>7. CopyInv' /\ TranslationInv' /\ StrayRefNeedsFault'
  BY <1>2 DEF CopyInv, TranslationInv, StrayRefNeedsFault
<1> QED BY <1>1, <1>4, <1>5, <1>6, <1>7, CallFrame DEF MigrationInv

\* When no call is left, the destination has to be a prefix that was heard of.
LEMMA ReturnsKeep ==
    ASSUME TypeOK, StoreInv, MigrationInv, [Next]_vars, mig' = IdleCall, UNCHANGED manifest,
           leftover' \in [there : BOOLEAN, root : Roots], (~powerLost => RefsInHistory)',
           PrefixCopy(dest'),
           manifest.printed /\ ~cut' => dest' = dest /\ ~cut,
           dest'.there /\ ~manifest.printed => cut' \/ Told'
    PROVE  MigrationInv'
<1>1. mig'.pc = "idle" /\ mig'.stray = FALSE /\ mig' \in CallRecord
  BY IdleMeansNothing
<1>2. PICK d : d = dest'
  OBVIOUS
<1>3. PrefixCopy(d)'
  BY <1>2, PrefixCopyStep
<1>4. DestInv' /\ MigrationTypeOK'
  BY <1>1, <1>2, <1>3 DEF DestInv, MigrationTypeOK, PrefixCopy
<1>5. ManifestInv'
  BY DEF MigrationInv, ManifestInv, LastEvent
<1>6. CallInv' /\ CopyInv' /\ TranslationInv' /\ StrayRefNeedsFault'
  BY <1>1 DEF CallInv, CopyInv, TranslationInv, StrayRefNeedsFault
<1> QED BY <1>4, <1>5, <1>6 DEF MigrationInv

\* What is left of a prefix is one.
LEMMA RemainsPrefix ==
    ASSUME NEW s, PrefixEvents(s), NEW d \in Remains(s)
    PROVE  PrefixCopy(d)
<1>1. PICK F : F = [Entries -> Nat]
  OBVIOUS
<1>2. NoRefs \in F
  BY <1>1 DEF NoRefs, NoNode
<1>3. PICK S : S = Seq(Nodes) /\ s \in S /\ <<>> \in S
  <2>1. s \in Seq(Nodes) /\ <<>> \in Seq(Nodes)
    BY DEF PrefixEvents
  <2> QED BY <2>1
<1>4. d \in [there : {TRUE}, events : {s, <<>>}, refs : {NoRefs}, broken : BOOLEAN]
  BY DEF Remains
<1>5. d \in [there : BOOLEAN, events : S, refs : F, broken : BOOLEAN]
      /\ (d.events = s \/ d.events = <<>>)
  BY <1>2, <1>3, <1>4
<1>6. d \in DirectoryRecord
  BY <1>1, <1>3, <1>5 DEF DirectoryRecord
<1>7. PrefixEvents(d.events)
  BY <1>5, EmptyDirectory
<1> QED BY <1>6, <1>7 DEF PrefixCopy

\* So is what a power loss leaves of it.
LEMMA SurvivesPrefix ==
    ASSUME NEW d, PrefixCopy(d), NEW c \in Survives(d)
    PROVE  PrefixCopy(c)
<1>1. CASE c = d \/ c = NoDirectory \/ c = EmptyDestination
  BY <1>1, EmptyDirectory
<1>2. CASE c = [d EXCEPT !.broken = TRUE]
  <2>1. d \in DirectoryRecord
    BY DEF PrefixCopy
  <2>2. c \in DirectoryRecord /\ c.events = d.events
    BY <1>2, <2>1, BrokenEdit
  <2> QED BY <2>2 DEF PrefixCopy
<1> QED BY <1>1, <1>2 DEF Survives

\* The destination is removed, or is reported to stay.
LEMMA RemoveKeeps ==
    ASSUME TypeOK, StoreInv, MigrationInv, NEW ok \in BOOLEAN, RemoveDestination(ok)
    PROVE  MigrationInv'
<1>1. /\ mig.pc = "cleanup" /\ mig' = IdleCall /\ UNCHANGED <<manifest, cut>>
      /\ UNCHANGED <<allVars, leftover, powerLost>>
      /\ ok => dest' = NoDirectory
      /\ ~ok => dest' \in Remains(dest.events) /\ outcome' = "stranded"
  BY DEF RemoveDestination
<1>2. PrefixCopy(dest')
  <2>1. PICK s : s = dest.events
    OBVIOUS
  <2>2. PrefixEvents(s)
    BY <2>1 DEF MigrationInv, DestInv, PrefixCopy
  <2>3. PICK d : d = dest'
    OBVIOUS
  <2>4. d \in Remains(s) \/ d = NoDirectory
    BY <1>1, <2>1, <2>3
  <2> QED BY <2>2, <2>3, <2>4, RemainsPrefix, EmptyDirectory
<1>3. ~manifest.printed
  BY <1>1 DEF MigrationInv, CallInv
<1>4. dest'.there => Told'
  BY <1>1, EmptyDirectory DEF Told
<1>5. UNCHANGED vars
  BY <1>1 DEF allVars
<1> QED BY <1>1, <1>2, <1>3, <1>4, <1>5, CallFrame, ReturnsKeep

\* The operator removes a destination that has no manifest.
LEMMA OperatorKeeps ==
    ASSUME TypeOK, StoreInv, MigrationInv, OperatorRemoves
    PROVE  MigrationInv'
<1>1. /\ mig.pc = "idle" /\ UNCHANGED <<mig, manifest>> /\ ~manifest.printed
      /\ dest' = NoDirectory /\ UNCHANGED <<allVars, leftover, powerLost>>
  BY DEF OperatorRemoves
<1>2. mig' = IdleCall
  BY <1>1 DEF MigrationInv, CallInv
<1>3. PrefixCopy(dest') /\ ~dest'.there
  BY <1>1, EmptyDirectory
<1>4. UNCHANGED vars
  BY <1>1 DEF allVars
<1> QED BY <1>1, <1>2, <1>3, <1>4, CallFrame, ReturnsKeep

\* What a process that dies leaves is a prefix, and without a call it is what
\* was there.
LEMMA CutOffPrefix ==
    ASSUME TypeOK, StoreInv, RefInv, MigrationInv, NEW d \in CutOff(dest)
    PROVE  /\ PrefixCopy(d)
           /\ mig.pc = "idle" => d = dest
<1>1. CASE d = dest
  BY <1>1 DEF MigrationInv, DestInv
<1>2. ASSUME mig.pc = "copying", mig.newRoot < Len(history),
             d = Appended(dest, history[mig.newRoot + 1])
      PROVE  PrefixCopy(d)
  BY <1>2, PrefixGrows
<1>3. ASSUME NEW e \in mig.left, Content(e) # NoNode,
             d = [dest EXCEPT !.refs[e] = mig.rootMap[Content(e)]]
      PROVE  PrefixCopy(d) /\ mig.pc # "idle"
  <2>1. PICK k : k = mig.rootMap[Content(e)]
    OBVIOUS
  <2>2. e \in Entries /\ mig.rootMap \in [Nodes -> Nat]
    BY DEF MigrationInv, MigrationTypeOK, CallRecord
  <2>3. Content(e) \in Nodes
    BY <1>3, <2>2, StoreAssumption
       DEF Content, Entries, MigrationInv, MigrationTypeOK, RefInv, NoNode, Nodes, Roots
  <2>4. k \in Nat
    BY <2>1, <2>2, <2>3
  <2>5. PICK c \in DirectoryRecord : c = dest
    BY DEF MigrationInv, MigrationTypeOK
  <2>6. d = [c EXCEPT !.refs[e] = k]
    BY <1>3, <2>1, <2>5
  <2>7. d \in DirectoryRecord /\ d.events = dest.events
    BY <2>2, <2>4, <2>5, <2>6, RefsEdit
  <2>8. PrefixCopy(d)
    BY <2>7 DEF MigrationInv, DestInv, PrefixCopy
  <2>9. mig.pc # "idle"
    BY IdleMeansNothing DEF MigrationInv, CallInv
  <2> QED BY <2>8, <2>9
<1>4. ASSUME mig.pc = "cleanup", d \in Remains(dest.events) \cup {NoDirectory}
      PROVE  PrefixCopy(d)
  <2>1. PICK s : s = dest.events
    OBVIOUS
  <2>2. PrefixEvents(s)
    BY <2>1 DEF MigrationInv, DestInv, PrefixCopy
  <2> QED BY <1>4, <2>1, <2>2, RemainsPrefix, EmptyDirectory
<1>5. \/ d = dest
      \/ /\ mig.pc = "copying" /\ mig.newRoot < Len(history)
         /\ d = Appended(dest, history[mig.newRoot + 1])
      \/ \E e \in mig.left : /\ Content(e) # NoNode
                             /\ d = [dest EXCEPT !.refs[e] = mig.rootMap[Content(e)]]
      \/ mig.pc = "cleanup" /\ d \in Remains(dest.events) \cup {NoDirectory}
  BY DEF CutOff
<1> QED BY <1>1, <1>2, <1>3, <1>4, <1>5

\* The process or the machine dies, with the call or without one.
LEMMA DeathKeeps ==
    ASSUME TypeOK, StoreInv, RefInv, MigrationInv, RemovedInv, ProcessDies \/ MachineDies
    PROVE  MigrationInv'
<1>1. CallDies /\ UNCHANGED leftover
  BY DEF ProcessDies, MachineDies
<1>2. mig' = IdleCall /\ UNCHANGED manifest
      /\ outcome' = IF mig.pc = "idle" THEN outcome ELSE "died"
  BY <1>1 DEF CallDies
<1>3. RefNext
  BY DEF ProcessDies, MachineDies, RefNext, RefStop
<1>4. [Next]_vars
  BY <1>3, RefStoreStep
<1>5. leftover' \in [there : BOOLEAN, root : Roots]
  BY <1>1 DEF MigrationInv, MigrationTypeOK
<1>6. CASE ProcessDies
  <2>1. dest' \in CutOff(dest) /\ UNCHANGED <<cut, powerLost>> /\ RefProcessCrash
    BY <1>6 DEF ProcessDies
  <2>2. PICK d \in CutOff(dest) : d = dest'
    BY <2>1
  <2>3. PrefixCopy(dest') /\ (mig.pc = "idle" => dest' = dest)
    BY <2>2, CutOffPrefix
  <2>4. (~powerLost => RefsInHistory)'
    BY <2>1, RefsInHistoryStep DEF MigrationInv
  <2>5. manifest.printed /\ ~cut' => dest' = dest /\ ~cut
    BY <2>1, <2>3 DEF MigrationInv, CallInv
  <2>6. dest'.there /\ ~manifest.printed => cut' \/ Told'
    BY <1>2, <2>1, <2>3 DEF MigrationInv, DestInv, Told
  <2> QED BY <1>2, <1>4, <1>5, <2>3, <2>4, <2>5, <2>6, ReturnsKeep
<1>7. CASE MachineDies
  <2>1. /\ cut' /\ powerLost'
        /\ \/ \E d \in CutOff(dest) : dest' \in Survives(d)
           \/ \E s \in removed : dest' \in Remains(s)
    BY <1>7 DEF MachineDies
  <2>2. PICK c : c = dest'
    OBVIOUS
  <2>3. ASSUME NEW d \in CutOff(dest), c \in Survives(d) PROVE PrefixCopy(c)
    <3>1. PrefixCopy(d)
      BY CutOffPrefix
    <3> QED BY <2>3, <3>1, SurvivesPrefix
  <2>4. ASSUME NEW s \in removed, c \in Remains(s) PROVE PrefixCopy(c)
    BY <2>4, RemainsPrefix DEF RemovedInv
  <2>5. PrefixCopy(dest')
    BY <2>1, <2>2, <2>3, <2>4
  <2> QED BY <1>2, <1>4, <1>5, <2>1, <2>5, ReturnsKeep
<1> QED BY <1>6, <1>7

\* The source goes on, or dies while it writes a ref.
LEMMA SourceKeeps ==
    ASSUME TypeOK, StoreInv, RefInv, MigrationInv,
           SourceStep \/ \E r \in Roots : DiesWritingRef(r)
    PROVE  MigrationInv'
<1>1. /\ mig.pc = "idle" /\ UNCHANGED <<mig, dest, outcome, manifest, cut, powerLost>>
      /\ RefStep \/ RefClose \/ RefProcessCrash
  BY DEF SourceStep, DiesWritingRef, migVars
<1>2. [Next]_vars
  BY <1>1, RefStoreStep DEF RefNext, RefStop
<1>3. mig' = IdleCall
  BY <1>1 DEF MigrationInv, CallInv
<1>4. leftover' \in [there : BOOLEAN, root : Roots]
  <2>1. SourceStep => leftover' = leftover
    BY DEF SourceStep
  <2>2. ASSUME NEW r \in Roots, DiesWritingRef(r) PROVE leftover' \in [there : BOOLEAN, root : Roots]
    BY <2>2 DEF DiesWritingRef
  <2> QED BY <2>1, <2>2 DEF MigrationInv, MigrationTypeOK
<1>5. (~powerLost => RefsInHistory)'
  BY <1>1, RefsInHistoryStep DEF MigrationInv
<1>6. PrefixCopy(dest') /\ dest' = dest
  BY <1>1 DEF MigrationInv, DestInv
<1>7. dest'.there /\ ~manifest.printed => cut' \/ Told'
  BY <1>1 DEF MigrationInv, DestInv, Told
<1> QED BY <1>1, <1>2, <1>3, <1>4, <1>5, <1>6, <1>7, ReturnsKeep

\* What was removed stays a prefix.
LEMMA RemovedStep ==
    ASSUME TypeOK, StoreInv, RefInv, MigrationInv, RemovedInv, [MigrationNext]_migrationVars
    PROVE  RemovedInv'
<1>1. [Next]_vars
  BY MigrationSourceStep, SourceInvStep DEF migrationVars
<1>2. removed' \subseteq removed \cup {dest.events}
  <2>1. CallNext => removed' \subseteq removed \cup {dest.events}
    BY DEF CallNext, OpenDestination, CopyNode, ListRefs, CopyRef, KeepDestination,
           CloseDestination, RemoveDestination, CallStep
  <2>2. MigrateDataKey \/ OperatorRemoves \/ ProcessDies \/ MachineDies \/ SourceStep
           \/ (\E r \in Roots : DiesWritingRef(r)) \/ UNCHANGED migrationVars
        => removed' \subseteq removed \cup {dest.events}
    BY DEF MigrateDataKey, OperatorRemoves, ProcessDies, MachineDies, SourceStep,
           DiesWritingRef, migVars, migrationVars
  <2> QED BY <2>1, <2>2 DEF MigrationNext
<1>3. \A s \in removed \cup {dest.events} : PrefixEvents(s)
  BY DEF RemovedInv, MigrationInv, DestInv, PrefixCopy
<1>4. ASSUME NEW s \in removed' PROVE PrefixEvents(s)'
  BY <1>1, <1>2, <1>3, PrefixStep
<1> QED BY <1>4 DEF RemovedInv

\* Every step of a migration and of what goes on around it keeps the invariant.
LEMMA MigrationInvStep ==
    ASSUME TypeOK, StoreInv, RefInv, MigrationInv, RemovedInv, [MigrationNext]_migrationVars
    PROVE  MigrationInv'
<1>1. CASE UNCHANGED migrationVars
  <2>1. UNCHANGED <<allVars, leftover, powerLost>> /\ UNCHANGED <<mig, dest, outcome, manifest, cut>>
    BY <1>1 DEF migrationVars, migVars
  <2>2. PICK d : d = dest
    OBVIOUS
  <2>3. PrefixCopy(d)'
    BY <2>1, <2>2, CallFrame DEF MigrationInv, DestInv
  <2>4. DestInv' /\ MigrationTypeOK' /\ CallInv'
    BY <2>1, <2>2, <2>3, CallFrame DEF MigrationInv, DestInv, Told, MigrationTypeOK, CallInv
  <2>5. CopyInv' /\ TranslationInv'
    BY <2>1, CallFrame DEF MigrationInv, CopyInv, TranslationInv, AllCopied, Translated
  <2>6. ManifestInv' /\ StrayRefNeedsFault'
    BY <2>1 DEF MigrationInv, ManifestInv, LastEvent, StrayRefNeedsFault
  <2> QED BY <2>1, <2>4, <2>5, <2>6, CallFrame DEF MigrationInv
<1>2. CASE CallNext
  BY <1>2, OpenKeeps, CopyNodeKeeps, ListRefsKeeps, CopyRefKeeps, CloseKeeps, RemoveKeeps, KeepKeeps
     DEF CallNext
<1> QED
  BY <1>1, <1>2, BeginKeeps, DeathKeeps, SourceKeeps, OperatorKeeps DEF MigrationNext

\* At first there is neither a call nor a destination.
LEMMA MigrationInvInit == MigrationInit => MigrationInv /\ RemovedInv
<1> SUFFICES ASSUME MigrationInit PROVE MigrationInv /\ RemovedInv
  OBVIOUS
<1>1. /\ mig.pc = "idle" /\ mig.stray = FALSE /\ mig \in CallRecord /\ mig = IdleCall
      /\ ~dest.there /\ dest = NoDirectory /\ ~manifest.printed /\ removed = {}
  BY IdleMeansNothing, EmptyDirectory DEF MigrationInit, NoManifest
<1>2. PrefixCopy(dest)
  BY <1>1, EmptyDirectory
<1>3. leftover \in [there : BOOLEAN, root : Roots]
  BY StoreAssumption DEF MigrationInit, NoLeftover, NoNode, Roots
<1>4. RefsInHistory
  BY DEF MigrationInit, RefInit, RefsInHistory
<1> QED
  BY <1>1, <1>2, <1>3, <1>4
     DEF MigrationInv, MigrationTypeOK, CallInv, CopyInv, TranslationInv, DestInv, ManifestInv,
         StrayRefNeedsFault, PrefixCopy, RemovedInv

\* The source, its refs and the migration are in order.
LEMMA MigrationInvariance ==
    MigrationSpec => [](TypeOK /\ StoreInv /\ RefInv /\ MigrationInv /\ RemovedInv)
<1> DEFINE Inv == TypeOK /\ StoreInv /\ RefInv /\ MigrationInv /\ RemovedInv
<1>1. MigrationInit => Inv
  BY TypeInit, StoreInvInit, RefInvInit, MigrationInvInit DEF MigrationInit, RefInit
<1>2. Inv /\ [MigrationNext]_migrationVars => Inv'
  <2> SUFFICES ASSUME Inv, [MigrationNext]_migrationVars PROVE Inv'
    OBVIOUS
  <2>1. [RefNext]_allVars
    BY MigrationSourceStep DEF migrationVars
  <2> QED BY <2>1, SourceInvStep, MigrationInvStep, RemovedStep
<1> QED BY <1>1, <1>2, PTL DEF MigrationSpec

\* Whatever failed before, a printed result describes a complete destination,
\* until the machine loses power.
THEOREM ManifestsAreComplete == MigrationSpec => []ManifestIsComplete
<1>1. MigrationInv => ManifestIsComplete
  BY DEF MigrationInv, TranslationInv, Translated, ManifestInv, DestInv, PrefixCopy,
         PrefixEvents, ManifestIsComplete, AsPrinted
<1> QED BY <1>1, MigrationInvariance, PTL

\* Every destination that opens is a gapless prefix, and without a result it was
\* heard of, or power was lost.
THEOREM PartialsArePrefixes == MigrationSpec => []PartialIsPrefix
<1>1. MigrationInv => PartialIsPrefix
  BY DEF MigrationInv, DestInv, PrefixCopy, PrefixEvents, Told, PartialIsPrefix
<1> QED BY <1>1, MigrationInvariance, PTL

\* Only a power loss or a death in the write of a ref leaves a ref that stops a
\* migration.
THEOREM StrayRefsAreExplained == MigrationSpec => []StrayRefNeedsFault
<1>1. MigrationInv => StrayRefNeedsFault
  BY DEF MigrationInv
<1> QED BY <1>1, MigrationInvariance, PTL

=============================================================================
