----------------------------- MODULE StoreProofs -----------------------------
(***************************************************************************)
(* Proofs about JaybaseStore and its refinement of EventLog, for every set  *)
(* of requests, every bound on the nodes and every combination of faults.   *)
(***************************************************************************)
EXTENDS StoreInvariant, StoreLog, TLAPS

(***************************************************************************)
(* A call of an append operation either answers at once and leaves disk and *)
(* memory alone, or mints a node on top of the indexed root.                *)
(***************************************************************************)
AnswersAtOnce ==
    /\ UNCHANGED <<disk, memory>>
    /\ reply' \in [kind : ReplyKinds, rid : RequestIDs \cup {Empty}]
    /\ \/ acks' = acks
       \/ \E q \in RequestIDs, h \in RequestHashes :
             /\ pc = "open"
             /\ requestIndex[q] # NoNode
             /\ node[requestIndex[q]].rhash = h
             /\ acks' = acks \cup {[rid |-> q, rhash |-> h, node |-> requestIndex[q],
                                    fresh |-> FALSE]}

\* An idempotent append is one of the two, and mints only for a new request.
LEMMA IdempotentCases ==
    ASSUME NEW q \in RequestIDs, NEW h \in RequestHashes, NEW e \in Roots,
           AppendIdempotent(q, h, e)
    PROVE  \/ AnswersAtOnce
           \/ /\ pc = "open"
              /\ root = IndexedRoot
              /\ requestIndex[q] = NoNode
              /\ MintNode(q, h)
<1>1. CASE requestIndex[q] # NoNode
  BY <1>1 DEF AppendIdempotent, AnswersAtOnce, Refuse, Answer, ReplyKinds
<1>2. CASE requestIndex[q] = NoNode
  BY <1>2 DEF AppendIdempotent, AppendInner, IndexIsCurrent, AnswersAtOnce, Refuse,
              Answer, ReplyKinds
<1> QED BY <1>1, <1>2

\* A plain append is one of the two.
LEMMA PlainCases ==
    ASSUME NEW q \in RequestIDs \cup {Empty}, NEW h \in RequestHashes, NEW e \in Roots,
           PlainAppend(q, h, e)
    PROVE  \/ AnswersAtOnce
           \/ /\ pc = "open"
              /\ root = IndexedRoot
              /\ MintNode(q, h)
  BY DEF PlainAppend, AppendInner, IndexIsCurrent, AnswersAtOnce, Refuse, Answer, ReplyKinds

-----------------------------------------------------------------------------
(***************************************************************************)
(* Types.                                                                   *)
(***************************************************************************)

\* Walking backwards over a sequence of nodes gives a sequence of nodes.
LEMMA ReverseType ==
    ASSUME NEW s \in Seq(Nodes)
    PROVE  [i \in 1..Len(s) |-> s[Len(s) + 1 - i]] \in Seq(Nodes)
<1>1. \A i \in 1..Len(s) : Len(s) + 1 - i \in 1..Len(s)
  OBVIOUS
<1>2. \A i \in 1..Len(s) : s[Len(s) + 1 - i] \in Nodes
  BY <1>1
<1> QED BY <1>2

\* The index that is rebuilt from a sequence of nodes maps requests to nodes.
LEMMA IndexOfType ==
    ASSUME NEW s \in Seq(Nodes)
    PROVE  IndexOf(s) \in [RequestIDs -> Roots]
<1>1. \A q \in RequestIDs : IndexOf(s)[q] \in Roots
  <2> SUFFICES ASSUME NEW q \in RequestIDs PROVE IndexOf(s)[q] \in Roots
    OBVIOUS
  <2>1. CASE \E i \in 1..Len(s) : node[s[i]].rid = q
    <3> DEFINE k == CHOOSE i \in 1..Len(s) : node[s[i]].rid = q
    <3>1. k \in 1..Len(s)
      BY <2>1
    <3>2. IndexOf(s)[q] = s[k]
      BY <2>1 DEF IndexOf
    <3>3. s[k] \in Nodes
      BY <3>1
    <3> QED BY <3>2, <3>3 DEF Nodes, Roots
  <2>2. CASE ~ \E i \in 1..Len(s) : node[s[i]].rid = q
    BY <2>2, StoreAssumption DEF IndexOf, Roots, NoNode
  <2> QED BY <2>1, <2>2
<1> QED BY <1>1 DEF IndexOf

\* Every step keeps every variable in its type.
LEMMA TypeStep == TypeOK /\ [Next]_vars => TypeOK'
<1> SUFFICES ASSUME TypeOK, [Next]_vars PROVE TypeOK'
  OBVIOUS
<1> USE StoreAssumption
<1>a. NoNode \in Roots /\ Nodes \subseteq Roots /\ <<>> \in Seq(Nodes)
  BY DEF NoNode, Roots, Nodes
<1>b. [q \in RequestIDs |-> NoNode] \in [RequestIDs -> Roots]
  BY <1>a
<1>c. Forget => /\ cursor' \in Roots /\ reversed' \in Seq(Nodes) /\ history' \in Seq(Nodes)
                /\ requestIndex' \in [RequestIDs -> Roots] /\ pending' \in Roots
  BY <1>a, <1>b DEF Forget
<1>d. AnswersAtOnce => TypeOK'
  <2> SUFFICES ASSUME AnswersAtOnce PROVE TypeOK'
    OBVIOUS
  <2>1. acks' \subseteq AckRecord
    <3>1. CASE acks' = acks
      BY <3>1 DEF TypeOK
    <3>2. CASE acks' # acks
      <4>1. PICK q \in RequestIDs, h \in RequestHashes :
               /\ requestIndex[q] # NoNode
               /\ acks' = acks \cup {[rid |-> q, rhash |-> h, node |-> requestIndex[q],
                                      fresh |-> FALSE]}
        BY <3>2 DEF AnswersAtOnce
      <4>2. requestIndex[q] \in Nodes
        BY <4>1 DEF TypeOK, Roots, Nodes, NoNode
      <4>3. [rid |-> q, rhash |-> h, node |-> requestIndex[q], fresh |-> FALSE] \in AckRecord
        BY <4>2, Zenon DEF AckRecord
      <4> QED BY <4>1, <4>3 DEF TypeOK
    <3> QED BY <3>1, <3>2
  <2> QED BY <2>1 DEF TypeOK, AnswersAtOnce, disk, memory
<1>e. ASSUME NEW q \in RequestIDs \cup {Empty}, NEW h \in RequestHashes, MintNode(q, h)
      PROVE  TypeOK'
  <2>1. minted + 1 \in Nodes /\ minted' \in 0..MaxNodes
    BY <1>e DEF TypeOK, MintNode, Nodes
  <2>2. [parent |-> root, rid |-> q, rhash |-> h] \in NodeRecord
    BY DEF TypeOK, NodeRecord
  <2>3. node' \in [Nodes -> NodeRecord]
    BY <1>e, <2>1, <2>2 DEF TypeOK, MintNode
  <2>4. pending' \in Nodes
    BY <1>e, <2>1 DEF MintNode
  <2>5. reply' \in [kind : ReplyKinds, rid : RequestIDs \cup {Empty}]
    BY <1>e DEF MintNode, NoReply, ReplyKinds
  <2> QED BY <1>a, <1>e, <2>1, <2>3, <2>4, <2>5 DEF TypeOK, MintNode, PCs, Appending
<1>1. CASE OpenStore
  BY <1>1, <1>a DEF TypeOK, OpenStore, disk, PCs, Appending, NoReply, ReplyKinds
<1>2. CASE WalkStep
  <2>1. cursor \in Nodes
    BY <1>2 DEF TypeOK, WalkStep
  <2>2. reversed' \in Seq(Nodes) /\ cursor' \in Roots
    BY <1>2, <2>1 DEF TypeOK, WalkStep, NodeRecord
  <2> QED BY <1>2, <2>2 DEF TypeOK, WalkStep, disk
<1>3. CASE RebuildIndexes
  <2>1. history' \in Seq(Nodes)
    BY <1>3, ReverseType DEF TypeOK, RebuildIndexes
  <2>2. requestIndex' \in [RequestIDs -> Roots]
    BY <1>3, IndexOfType DEF TypeOK, RebuildIndexes
  <2> QED BY <1>3, <1>a, <2>1, <2>2 DEF TypeOK, RebuildIndexes, disk, PCs, Appending
<1>4. CASE OpenFails
  BY <1>4, <1>c DEF TypeOK, OpenFails, disk, PCs, Appending, Answer, ReplyKinds
<1>5. CASE Close
  BY <1>5, <1>c DEF TypeOK, Close, disk, PCs, Appending, NoReply, ReplyKinds
<1>6. ASSUME NEW q \in RequestIDs, NEW h \in RequestHashes, NEW e \in Roots,
             AppendIdempotent(q, h, e)
      PROVE  TypeOK'
  BY <1>6, <1>d, <1>e, IdempotentCases
<1>7. ASSUME NEW q \in PlainRequestIDs, NEW h \in RequestHashes, NEW e \in Roots,
             PlainAppend(q, h, e)
      PROVE  TypeOK'
  BY <1>7, <1>d, <1>e, PlainCases
<1>8. CASE LinkNode
  BY <1>8 DEF TypeOK, LinkNode, PCs, Appending
<1>9. CASE SyncNodesDir
  BY <1>9 DEF TypeOK, SyncNodesDir, PCs, Appending
<1>10. CASE RenameRoot
  BY <1>10, <1>a DEF TypeOK, RenameRoot, PCs, Appending
<1>11. CASE SyncRefsDir
  <2>1. pending \in Nodes /\ node[pending] \in NodeRecord
    BY <1>11 DEF TypeOK, SyncRefsDir, Appending
  <2>2. history' \in Seq(Nodes) /\ pending' \in Roots
    BY <1>11, <1>a, <2>1 DEF TypeOK, SyncRefsDir, IndexPending
  <2>3. requestIndex' \in [RequestIDs -> Roots]
    BY <1>11, <1>a, <2>1 DEF TypeOK, SyncRefsDir, IndexPending
  <2>4. reply' \in [kind : ReplyKinds, rid : RequestIDs \cup {Empty}]
    BY <1>11, <2>1 DEF SyncRefsDir, AckPending, Answer, ReplyKinds, NodeRecord
  <2>5. acks' \subseteq AckRecord
    <3>1. node[pending].rid \in RequestIDs \cup {Empty}
          /\ node[pending].rhash \in RequestHashes \cup {Empty}
      BY <2>1 DEF NodeRecord
    <3>2. [rid |-> node[pending].rid, rhash |-> node[pending].rhash, node |-> pending,
           fresh |-> TRUE] \in AckRecord
      BY <2>1, <3>1, Zenon DEF AckRecord
    <3> QED BY <1>11, <3>2 DEF TypeOK, SyncRefsDir, AckPending
  <2> QED BY <1>11, <2>2, <2>3, <2>4, <2>5 DEF TypeOK, SyncRefsDir, PCs, Appending
<1>12. CASE AppendIOError
  <2>1. reply' \in [kind : ReplyKinds, rid : RequestIDs \cup {Empty}]
    BY <1>12 DEF TypeOK, AppendIOError, Answer, ReplyKinds, NodeRecord
  <2> QED BY <1>12, <1>a, <2>1 DEF TypeOK, AppendIOError, disk, PCs, Appending
<1>13. CASE ProcessCrash
  BY <1>13, <1>c DEF TypeOK, ProcessCrash, disk, PCs, Appending, NoReply, ReplyKinds
<1>14. CASE PowerLoss
  BY <1>14, <1>c DEF TypeOK, PowerLoss, PCs, Appending, NoReply, ReplyKinds
<1>15. CASE UNCHANGED vars
  BY <1>15 DEF TypeOK, vars
<1> QED
  BY <1>1, <1>2, <1>3, <1>4, <1>5, <1>6, <1>7, <1>8, <1>9, <1>10, <1>11, <1>12, <1>13,
     <1>14, <1>15 DEF Next

\* In the initial state every variable has its type.
LEMMA TypeInit == Init => TypeOK
  BY StoreAssumption DEF Init, TypeOK, NodeRecord, Blank, NoNode, Roots, Nodes, PCs,
     Appending, NoReply, ReplyKinds

\* TypeOK is an invariant of the store, for every set of requests, every
\* bound and every combination of faults.
THEOREM TypeCorrect == Spec => []TypeOK
  BY TypeInit, TypeStep, PTL DEF Spec

-----------------------------------------------------------------------------
(***************************************************************************)
(* Durability.                                                              *)
(***************************************************************************)

Mints(q, h) ==
    /\ pc = "open"
    /\ root = IndexedRoot
    /\ MintNode(q, h)

\* The steps of the store, with the appends in the two forms above.
LEMMA StepCases ==
    ASSUME [Next]_vars
    PROVE  \/ UNCHANGED vars
           \/ AnswersAtOnce
           \/ \E q \in RequestIDs, h \in RequestHashes :
                 Mints(q, h) /\ requestIndex[q] = NoNode
           \/ \E q \in PlainRequestIDs, h \in RequestHashes : Mints(q, h)
           \/ OpenStore \/ WalkStep \/ RebuildIndexes \/ OpenFails \/ Close
           \/ LinkNode \/ SyncNodesDir \/ RenameRoot \/ SyncRefsDir \/ AppendIOError
           \/ ProcessCrash \/ PowerLoss
<1>1. ASSUME NEW q \in RequestIDs, NEW h \in RequestHashes, NEW e \in Roots,
             AppendIdempotent(q, h, e)
      PROVE  AnswersAtOnce \/ (Mints(q, h) /\ requestIndex[q] = NoNode)
  BY <1>1, IdempotentCases DEF Mints
<1>2. ASSUME NEW q \in PlainRequestIDs, NEW h \in RequestHashes, NEW e \in Roots,
             PlainAppend(q, h, e)
      PROVE  AnswersAtOnce \/ Mints(q, h)
  BY <1>2, PlainCases, StoreAssumption DEF Mints
<1> QED BY <1>1, <1>2 DEF Next

\* A step that leaves the disk alone leaves DiskInv alone.
LEMMA DiskFrame == DiskInv /\ UNCHANGED disk => DiskInv'
  BY DEF DiskInv, disk

\* Every step keeps node files, roots and their durability in order.
LEMMA DiskStep ==
    ASSUME TypeOK, DiskInv, PendingInv, [Next]_vars
    PROVE  DiskInv'
<1>1. CASE UNCHANGED disk
  BY <1>1, DiskFrame
<1>2. ASSUME NEW q, NEW h, Mints(q, h)
      PROVE  DiskInv'
  <2>1. minted \in Nat /\ minted + 1 \in Nodes /\ minted' = minted + 1
    BY <1>2, StoreAssumption DEF Mints, MintNode, TypeOK, Nodes
  <2>2. \A n \in Nodes : n # minted + 1 => node'[n] = node[n]
    BY <1>2, <2>1 DEF Mints, MintNode, TypeOK
  <2>3. \A n \in Nodes : n > minted' => node'[n] = Blank
    BY <2>1, <2>2 DEF DiskInv, Nodes
  <2>4. UNCHANGED <<files, durable, root, rootSurvivors>>
    BY <1>2 DEF Mints, MintNode
  <2>5. \A n \in files : n \in Nodes /\ n # minted + 1
    BY <2>1 DEF DiskInv, TypeOK
  <2>6. files' \subseteq 1..minted'
    BY <2>1, <2>4 DEF DiskInv
  <2>7. root \in 0..minted /\ node'[minted + 1].parent = root
    BY <1>2, <2>1 DEF Mints, MintNode, DiskInv, TypeOK, NoNode
  <2>8. \A n \in Nodes : node'[n].parent < n
    BY <2>1, <2>2, <2>7 DEF DiskInv
  <2> QED BY <2>2, <2>3, <2>4, <2>5, <2>6, <2>8 DEF DiskInv
<1>3. CASE LinkNode
  <2>1. pending \in 1..minted /\ node[pending].parent = root
    BY <1>3 DEF LinkNode, PendingInv, Appending
  <2> QED BY <1>3, <2>1 DEF LinkNode, DiskInv
<1>4. CASE SyncNodesDir
  BY <1>4 DEF SyncNodesDir, DiskInv, TypeOK
<1>5. CASE RenameRoot
  <2>1. pending \in durable
    BY <1>5 DEF RenameRoot, PendingInv, Appending
  <2> QED BY <1>5, <2>1 DEF RenameRoot, DiskInv
<1>6. CASE SyncRefsDir
  BY <1>6 DEF SyncRefsDir, DiskInv
<1>7. CASE PowerLoss
  BY <1>7 DEF PowerLoss, DiskInv, TypeOK
<1> QED
  BY <1>1, <1>2, <1>3, <1>4, <1>5, <1>6, <1>7, StepCases
     DEF vars, disk, AnswersAtOnce, OpenStore, WalkStep, RebuildIndexes, OpenFails, Close,
         AppendIOError, ProcessCrash

\* Every step keeps the pending node where the running append needs it.
LEMMA PendingStep ==
    ASSUME TypeOK, DiskInv, PendingInv, [Next]_vars
    PROVE  PendingInv'
<1>1. CASE pc' \notin Appending
  BY <1>1 DEF PendingInv
<1>2. CASE UNCHANGED <<disk, memory>>
  BY <1>2 DEF PendingInv, IndexedRoot, disk, memory
<1>3. ASSUME NEW q, NEW h, Mints(q, h)
      PROVE  PendingInv'
  <2>1. minted \in Nat /\ minted + 1 \in Nodes /\ minted' = minted + 1
    BY <1>3, StoreAssumption DEF Mints, MintNode, TypeOK, Nodes
  <2>2. node'[minted + 1].parent = root /\ pending' = minted + 1
    BY <1>3, <2>1 DEF Mints, MintNode, TypeOK
  <2>3. pending' \in 1..minted' /\ pending' \notin files'
    BY <1>3, <2>1, <2>2 DEF Mints, MintNode, DiskInv
  <2> QED BY <1>3, <2>2, <2>3 DEF Mints, MintNode, PendingInv, IndexedRoot, Appending
<1>4. CASE LinkNode
  BY <1>4 DEF LinkNode, PendingInv, IndexedRoot, Appending
<1>5. CASE SyncNodesDir
  BY <1>5 DEF SyncNodesDir, PendingInv, IndexedRoot, Appending
<1>6. CASE RenameRoot
  BY <1>6 DEF RenameRoot, PendingInv, IndexedRoot, Appending
<1>7. CASE WalkStep \/ OpenStore \/ RebuildIndexes \/ OpenFails \/ Close \/ SyncRefsDir
           \/ AppendIOError \/ ProcessCrash \/ PowerLoss
  <2>1. pc' \in {"walking", "open", "closed"}
    BY <1>7 DEF WalkStep, OpenStore, RebuildIndexes, OpenFails, Close, SyncRefsDir,
                AppendIOError, ProcessCrash, PowerLoss
  <2> QED BY <1>1, <2>1 DEF Appending
<1> QED
  BY <1>2, <1>3, <1>4, <1>5, <1>6, <1>7, StepCases DEF vars, disk, memory, AnswersAtOnce

\* The chain below a node goes on below each node of it.
LEMMA ChainTransitive ==
    ASSUME NEW m, NEW n, NEW r, InChain(m, n), n = NoNode \/ InChain(n, r)
    PROVE  InChain(m, r)
  BY DEF InChain, Holds

\* A node and its parent are in its chain.
LEMMA ChainParent ==
    ASSUME NEW n \in Nodes
    PROVE  /\ InChain(n, n)
           /\ node[n].parent = NoNode \/ InChain(node[n].parent, n)
<1>1. n # NoNode
  BY DEF Nodes, NoNode
<1> QED BY <1>1 DEF InChain, Holds, ParentClosed

\* No chain is changed by a step that leaves the nodes alone ...
LEMMA ChainFrame ==
    ASSUME NEW n, NEW r, InChain(n, r), UNCHANGED node
    PROVE  InChain(n, r)'
  BY DEF InChain, Holds, ParentClosed

\* ... and minting a node takes nothing out of one.
LEMMA ChainMint ==
    ASSUME TypeOK, DiskInv, NEW q, NEW h, Mints(q, h), NEW n, NEW r, InChain(n, r)
    PROVE  InChain(n, r)'
<1>1. minted + 1 \in Nodes /\ minted \in Nat
  BY StoreAssumption DEF Mints, MintNode, TypeOK, Nodes
<1>2. node[minted + 1].parent = NoNode
  BY <1>1 DEF DiskInv, Blank
<1>3. \A m \in Nodes : m # minted + 1 => node'[m] = node[m]
  BY <1>1 DEF Mints, MintNode, TypeOK
<1>4. ASSUME NEW A \in SUBSET Nodes, ParentClosed(A)'
      PROVE  ParentClosed(A)
  BY <1>2, <1>3, <1>4 DEF ParentClosed
<1> QED BY <1>4 DEF InChain, Holds

\* No step takes a node out of a chain.
LEMMA ChainStep ==
    ASSUME TypeOK, DiskInv, [Next]_vars, NEW n, NEW r, InChain(n, r)
    PROVE  InChain(n, r)'
<1>1. ASSUME NEW q, NEW h, Mints(q, h)
      PROVE  InChain(n, r)'
  BY <1>1, ChainMint
<1>2. CASE UNCHANGED node
  BY <1>2, ChainFrame
<1> QED
  BY <1>1, <1>2, StepCases
     DEF vars, disk, AnswersAtOnce, OpenStore, WalkStep, RebuildIndexes, OpenFails, Close,
         LinkNode, SyncNodesDir, RenameRoot, SyncRefsDir, AppendIOError, ProcessCrash, PowerLoss

\* What is durable stays durable, and what is minted stays what it is.
LEMMA StepFrame ==
    ASSUME TypeOK, DiskInv, [Next]_vars
    PROVE  /\ durable \subseteq durable'
           /\ minted <= minted'
           /\ \A n \in 1..minted : node'[n] = node[n]
<1>1. ASSUME NEW q, NEW h, Mints(q, h)
      PROVE  /\ durable \subseteq durable'
             /\ minted <= minted'
             /\ \A n \in 1..minted : node'[n] = node[n]
  <2>1. minted \in Nat /\ minted' = minted + 1 /\ UNCHANGED durable
    BY <1>1, StoreAssumption DEF Mints, MintNode, TypeOK
  <2>2. \A n \in 1..minted : n \in Nodes /\ n # minted + 1
    BY <2>1, StoreAssumption DEF Nodes, TypeOK
  <2>3. \A n \in Nodes : n # minted + 1 => node'[n] = node[n]
    BY <1>1 DEF Mints, MintNode, TypeOK
  <2> QED BY <2>1, <2>2, <2>3
<1>2. CASE UNCHANGED <<node, minted>> /\ durable \subseteq durable'
  BY <1>2, StoreAssumption DEF TypeOK
<1>3. CASE SyncNodesDir \/ PowerLoss
  BY <1>2, <1>3 DEF SyncNodesDir, PowerLoss, TypeOK
<1> QED
  BY <1>1, <1>2, <1>3, StepCases
     DEF vars, disk, AnswersAtOnce, OpenStore, WalkStep, RebuildIndexes, OpenFails, Close,
         LinkNode, RenameRoot, SyncRefsDir, AppendIOError, ProcessCrash

\* Every step keeps the roots that a power loss may leave below the present one.
LEMMA SurvivorStep ==
    ASSUME TypeOK, DiskInv, SurvivorInv, PendingInv, [Next]_vars
    PROVE  SurvivorInv'
<1>1. CASE UNCHANGED disk \/ LinkNode \/ SyncNodesDir
  BY <1>1, ChainFrame DEF SurvivorInv, disk, LinkNode, SyncNodesDir
<1>2. ASSUME NEW q, NEW h, Mints(q, h)
      PROVE  SurvivorInv'
  BY <1>2, ChainMint DEF SurvivorInv, Mints, MintNode
<1>3. CASE RenameRoot
  <2>1. pending \in Nodes /\ node[pending].parent = root
    BY <1>3 DEF RenameRoot, PendingInv, Appending, TypeOK
  <2>2. root = NoNode \/ InChain(root, pending)
    BY <2>1, ChainParent
  <2>3. \A r \in rootSurvivors : r = NoNode \/ InChain(r, pending)
    BY <2>2, ChainTransitive DEF SurvivorInv
  <2>4. \A r \in rootSurvivors' : r = NoNode \/ InChain(r, pending)
    BY <1>3, <2>1, <2>3, ChainParent DEF RenameRoot
  <2> QED BY <1>3, <2>4, ChainFrame DEF RenameRoot, SurvivorInv
<1>4. ASSUME rootSurvivors' = {root'}, root' \in Roots, UNCHANGED node
      PROVE  SurvivorInv'
  <2>1. root' = NoNode \/ root' \in Nodes
    BY <1>4, StoreAssumption DEF Roots, Nodes, NoNode
  <2>2. root' = NoNode \/ InChain(root', root')
    BY <2>1, ChainParent
  <2>3. root' = NoNode \/ InChain(root, root)'
    BY <1>4, <2>2 DEF InChain, Holds, ParentClosed
  <2> QED BY <1>4, <2>3 DEF SurvivorInv
<1>5. CASE SyncRefsDir
  BY <1>4, <1>5 DEF SyncRefsDir, TypeOK
<1>6. CASE PowerLoss
  BY <1>4, <1>6 DEF PowerLoss, TypeOK
<1> QED
  BY <1>1, <1>2, <1>3, <1>5, <1>6, StepCases
     DEF vars, disk, AnswersAtOnce, OpenStore, WalkStep, RebuildIndexes, OpenFails, Close,
         AppendIOError, ProcessCrash

\* Every step keeps each confirmed node in the chain of each root that a
\* power loss may leave.
LEMMA AcksStep ==
    ASSUME TypeOK, DiskInv, PendingInv, FreshAcksSurvive, [Next]_vars
    PROVE  FreshAcksSurvive'
<1>1. ASSUME UNCHANGED node, rootSurvivors' \subseteq rootSurvivors,
             \A a \in acks' : a.fresh => a \in acks
      PROVE  FreshAcksSurvive'
  BY <1>1, ChainFrame DEF FreshAcksSurvive
<1>2. ASSUME NEW q, NEW h, Mints(q, h)
      PROVE  FreshAcksSurvive'
  BY <1>2, ChainMint DEF FreshAcksSurvive, Mints, MintNode
<1>3. CASE RenameRoot
  <2>1. pending \in Nodes /\ node[pending].parent = root /\ root \in rootSurvivors
    BY <1>3 DEF RenameRoot, PendingInv, Appending, DiskInv, TypeOK
  <2>2. root = NoNode \/ InChain(root, pending)
    BY <2>1, ChainParent
  <2>3. \A a \in acks : a.fresh => InChain(a.node, pending)
    BY <2>1, <2>2, ChainTransitive DEF FreshAcksSurvive
  <2> QED BY <1>3, <2>3, ChainFrame DEF FreshAcksSurvive, RenameRoot
<1>4. CASE SyncRefsDir
  <2>1. pending \in Nodes /\ root = pending /\ root \in rootSurvivors
    BY <1>4 DEF SyncRefsDir, PendingInv, Appending, DiskInv, TypeOK
  <2>2. InChain(pending, root)
    BY <2>1, ChainParent
  <2>3. \A a \in acks : a.fresh => InChain(a.node, root)
    BY <2>1 DEF FreshAcksSurvive
  <2>4. \A a \in acks' : a \in acks \/ a.node = pending
    BY <1>4 DEF SyncRefsDir, AckPending
  <2>5. \A a \in acks' : a.fresh => InChain(a.node, root)
    BY <2>2, <2>3, <2>4
  <2> QED BY <1>4, <2>5, ChainFrame DEF FreshAcksSurvive, SyncRefsDir
<1>5. CASE AnswersAtOnce
  <2>1. \A a \in acks' : a.fresh => a \in acks
    BY <1>5 DEF AnswersAtOnce
  <2> QED BY <1>1, <1>5, <2>1 DEF AnswersAtOnce, disk
<1>6. CASE PowerLoss
  BY <1>1, <1>6 DEF PowerLoss
<1>7. CASE UNCHANGED <<disk, acks>> \/ LinkNode \/ SyncNodesDir
  BY <1>1, <1>7 DEF disk, LinkNode, SyncNodesDir
<1> QED
  BY <1>2, <1>3, <1>4, <1>5, <1>6, <1>7, StepCases
     DEF vars, disk, OpenStore, WalkStep, RebuildIndexes, OpenFails, Close,
         AppendIOError, ProcessCrash

\* The initial state is durable.
LEMMA DurabilityInit == Init => DurabilityInv
<1>1. Init => DiskInv
  BY StoreAssumption DEF Init, DiskInv, Nodes, Blank, NoNode
<1> QED BY <1>1 DEF Init, DurabilityInv, SurvivorInv, PendingInv, FreshAcksSurvive, Appending

\* DurabilityInv is an invariant of the store.
THEOREM Durability == Spec => []DurabilityInv
<1>1. TypeOK /\ DurabilityInv /\ [Next]_vars => DurabilityInv'
  BY DiskStep, SurvivorStep, PendingStep, AcksStep DEF DurabilityInv
<1> QED BY <1>1, DurabilityInit, TypeCorrect, PTL DEF Spec

\* An append that answered success is never lost: its node stays below
\* every root that crashes and power losses may leave.
THEOREM ConfirmedIsDurable == Spec => []FreshAcksSurvive
<1>1. DurabilityInv => FreshAcksSurvive
  BY DEF DurabilityInv
<1> QED BY <1>1, Durability, PTL

-----------------------------------------------------------------------------
(***************************************************************************)
(* Recovery.                                                                *)
(***************************************************************************)

\* Appending adds one element to the elements of a sequence.
LEMMA AppendElements ==
    ASSUME NEW s \in Seq(Nodes), NEW x \in Nodes
    PROVE  {Append(s, x)[i] : i \in 1..Len(Append(s, x))} = {s[i] : i \in 1..Len(s)} \cup {x}
<1> DEFINE t == Append(s, x)
<1>1. Len(t) = Len(s) + 1 /\ Len(s) \in Nat
  OBVIOUS
<1>2. \A i \in 1..Len(s) : t[i] = s[i] /\ i \in 1..Len(t)
  BY <1>1
<1>3. t[Len(s) + 1] = x /\ Len(s) + 1 \in 1..Len(t)
  BY <1>1
<1>4. \A i \in 1..Len(t) : i \in 1..Len(s) \/ i = Len(s) + 1
  BY <1>1
<1> HIDE DEF t
<1>5. {t[i] : i \in 1..Len(t)} = {s[i] : i \in 1..Len(s)} \cup {x}
  BY <1>2, <1>3, <1>4
<1> QED BY <1>5 DEF t

\* Reversing a sequence keeps its elements.
LEMMA ReverseElements ==
    ASSUME NEW s \in Seq(Nodes), NEW t,
           t = [i \in 1..Len(s) |-> s[Len(s) + 1 - i]]
    PROVE  {t[i] : i \in 1..Len(t)} = {s[i] : i \in 1..Len(s)}
<1>1. Len(s) \in Nat /\ t \in Seq(Nodes)
  BY ReverseType
<1>2. Len(t) = Len(s)
  BY <1>1
<1>3. \A i \in 1..Len(s) : Len(s) + 1 - i \in 1..Len(s) /\ t[i] = s[Len(s) + 1 - i]
  BY <1>1
<1>4. \A i \in 1..Len(s) : s[i] = t[Len(s) + 1 - i]
  BY <1>1, <1>3
<1>5. \A i \in 1..Len(t) : t[i] \in {s[j] : j \in 1..Len(s)}
  BY <1>2, <1>3
<1>6. \A i \in 1..Len(s) : s[i] \in {t[j] : j \in 1..Len(t)}
  BY <1>2, <1>3, <1>4
<1>7. {t[i] : i \in 1..Len(t)} \subseteq {s[j] : j \in 1..Len(s)}
  BY <1>5
<1>8. {s[i] : i \in 1..Len(s)} \subseteq {t[j] : j \in 1..Len(t)}
  BY <1>6
<1> QED BY <1>7, <1>8

\* The tip of the index is one of its nodes.
LEMMA IndexedRootIndexed ==
    ASSUME TypeOK
    PROVE  Holds(Indexed, IndexedRoot)
<1>1. CASE history = <<>>
  BY <1>1 DEF Holds, IndexedRoot
<1>2. CASE history # <<>>
  <2>1. Len(history) \in 1..Len(history)
    BY <1>2 DEF TypeOK
  <2> QED BY <1>2, <2>1 DEF Holds, IndexedRoot, Indexed
<1> QED BY <1>1, <1>2

\* Minting a node changes no node that already has a file.
LEMMA MintFrame ==
    ASSUME TypeOK, DiskInv, NEW q, NEW h, Mints(q, h)
    PROVE  /\ \A n \in files : node'[n] = node[n]
           /\ node'[minted + 1] = [parent |-> root, rid |-> q, rhash |-> h]
           /\ UNCHANGED <<files, durable, root, rootSurvivors, history, requestIndex>>
           /\ pending' = minted + 1
<1>1. minted \in Nat /\ minted + 1 \in Nodes
  BY StoreAssumption DEF Mints, MintNode, TypeOK, Nodes
<1>2. \A n \in files : n \in Nodes /\ n # minted + 1
  BY <1>1 DEF DiskInv, TypeOK
<1> QED BY <1>1, <1>2 DEF Mints, MintNode, TypeOK

\* The indexed chain has the parent of each of its nodes.
LEMMA IndexedClosed ==
    ASSUME TypeOK, IndexInv, pc \in {"open"} \cup Appending
    PROVE  ParentClosed(Indexed)
<1> SUFFICES ASSUME NEW n \in Indexed PROVE node[n].parent \in Indexed \cup {NoNode}
  BY DEF ParentClosed
<1>1. PICK i \in 1..Len(history) : history[i] = n
  BY DEF Indexed
<1>2. node[n].parent = IF i = 1 THEN NoNode ELSE history[i - 1]
  BY <1>1 DEF IndexInv
<1>3. i # 1 => i - 1 \in 1..Len(history)
  BY DEF TypeOK
<1> QED BY <1>2, <1>3 DEF Indexed

\* Linked nodes stay loadable when nodes only become durable.
LEMMA RequestFrame ==
    ASSUME RequestInv, files' \subseteq files, durable \subseteq durable',
           \A n \in files : node'[n] = node[n], durable \subseteq files
    PROVE  RequestInv'
<1> SUFFICES ASSUME NEW n \in files'
             PROVE  \E A \in SUBSET (durable' \cup {n}) :
                       ParentClosed(A)' /\ n \in A /\ Unshared(A)'
  BY DEF RequestInv, ParentClosed, Unshared
<1>1. PICK A \in SUBSET (durable \cup {n}) : ParentClosed(A) /\ n \in A /\ Unshared(A)
  BY DEF RequestInv
<1>2. A \subseteq files /\ A \in SUBSET (durable' \cup {n})
  OBVIOUS
<1>3. ParentClosed(A)' /\ Unshared(A)'
  BY <1>1, <1>2 DEF ParentClosed, Unshared
<1> QED BY <1>1, <1>2, <1>3

\* A pending node repeats no request of the indexed chain, unless its ID is used
\* for plain appends too.
LEMMA PendingUnshared ==
    ASSUME TypeOK, IndexInv, PendingRequestInv, pc \in Appending
    PROVE  Unshared(Indexed \cup {pending})
<1>1. /\ Unshared(Indexed)
      /\ \A n \in Indexed : node[n].rid # Empty => requestIndex[node[n].rid] # NoNode
  BY DEF IndexInv
<1>2. node[pending].rid \notin Shareable => requestIndex[node[pending].rid] = NoNode
  BY DEF PendingRequestInv
<1> QED BY <1>1, <1>2 DEF Unshared, Shareable

\* Every step keeps every linked node loadable.
LEMMA RequestStep ==
    ASSUME TypeOK, DiskInv, PendingInv, HistoryInv, [Next]_vars
    PROVE  RequestInv'
<1> USE DEF HistoryInv
<1>1. CASE UNCHANGED disk
  BY <1>1, RequestFrame DEF disk, TypeOK
<1>2. ASSUME NEW q, NEW h, Mints(q, h)
      PROVE  RequestInv'
  BY <1>2, MintFrame, RequestFrame DEF TypeOK
<1>3. CASE LinkNode
  <2>1. pc \in Appending /\ pending \in Nodes /\ node[pending].parent = IndexedRoot
    BY <1>3 DEF LinkNode, PendingInv, TypeOK, Appending
  <2> DEFINE A == Indexed \cup {pending}
  <2>2. A \subseteq durable \cup {pending}
    BY <2>1 DEF IndexInv
  <2>3. ParentClosed(A)
    BY <2>1, IndexedRootIndexed, IndexedClosed DEF ParentClosed, Holds
  <2>4. Unshared(A)
    BY <2>1, PendingUnshared
  <2>5. \E B \in SUBSET (durable \cup {pending}) :
           ParentClosed(B) /\ pending \in B /\ Unshared(B)
    BY <2>2, <2>3, <2>4
  <2>6. \A n \in files' : \E B \in SUBSET (durable \cup {n}) :
           ParentClosed(B) /\ n \in B /\ Unshared(B)
    BY <1>3, <2>5 DEF LinkNode, RequestInv
  <2> QED BY <1>3, <2>6 DEF LinkNode, RequestInv, ParentClosed, Unshared
<1>4. CASE SyncNodesDir \/ RenameRoot \/ SyncRefsDir
  BY <1>4, RequestFrame DEF SyncNodesDir, RenameRoot, SyncRefsDir, TypeOK
<1>5. CASE PowerLoss
  <2>1. files' \subseteq files /\ durable \subseteq durable' /\ UNCHANGED node
    BY <1>5 DEF PowerLoss, TypeOK
  <2> QED BY <2>1, RequestFrame DEF TypeOK
<1> QED
  BY <1>1, <1>2, <1>3, <1>4, <1>5, StepCases
     DEF vars, disk, AnswersAtOnce, OpenStore, WalkStep, RebuildIndexes, OpenFails, Close,
         AppendIOError, ProcessCrash

\* An index stays in order when its nodes do and nothing becomes less durable.
LEMMA IndexFrame ==
    ASSUME TypeOK, IndexInv, pc \in {"open"} \cup Appending, durable \subseteq durable',
           \A n \in files : node'[n] = node[n], \A m, n : InChain(m, n) => InChain(m, n)',
           UNCHANGED <<history, requestIndex>>
    PROVE  IndexInv'
<1>1. Indexed' = Indexed /\ \A n \in Indexed : node'[n] = node[n]
  BY DEF Indexed, IndexInv, TypeOK
<1>2. \A i \in 1..Len(history) : history[i] \in Indexed
  BY DEF Indexed
<1>3. \A i \in 1..Len(history') :
          node'[history'[i]].parent = IF i = 1 THEN NoNode ELSE history'[i - 1]
  BY <1>1, <1>2 DEF IndexInv
<1>4. Unshared(Indexed)'
  BY <1>1 DEF IndexInv, Unshared
<1>5. /\ \A n \in Indexed' : node'[n].rid # Empty => requestIndex'[node'[n].rid] # NoNode
      /\ \A q \in RequestIDs : requestIndex'[q] # NoNode =>
             requestIndex'[q] \in Indexed' /\ node'[requestIndex'[q]].rid = q
  BY <1>1 DEF IndexInv
<1>6. \A i, j \in 1..Len(history') : i < j =>
          history'[i] < history'[j] /\ InChain(history[i], history[j])'
  BY DEF IndexInv
<1> QED BY <1>1, <1>3, <1>4, <1>5, <1>6 DEF IndexInv

\* Indexing the node of an append that returns keeps the indexes in order.
LEMMA IndexPendingStep ==
    ASSUME TypeOK, DiskInv, PendingInv, PendingRequestInv, IndexInv, SyncRefsDir
    PROVE  IndexInv'
<1>1. /\ pc \in Appending
      /\ pending \in Nodes
      /\ pending \in durable
      /\ node[pending].parent = IndexedRoot
  BY DEF SyncRefsDir, PendingInv, TypeOK, Appending
<1>2. /\ Indexed \subseteq durable
      /\ \A i \in 1..Len(history) :
             node[history[i]].parent = IF i = 1 THEN NoNode ELSE history[i - 1]
      /\ \A i, j \in 1..Len(history) :
             i < j => history[i] < history[j] /\ InChain(history[i], history[j])
      /\ \A n \in Indexed : node[n].rid # Empty => requestIndex[node[n].rid] # NoNode
      /\ \A q \in RequestIDs : requestIndex[q] # NoNode =>
             requestIndex[q] \in Indexed /\ node[requestIndex[q]].rid = q
  BY <1>1 DEF IndexInv
<1>3. /\ history' = Append(history, pending)
      /\ requestIndex' = [q \in RequestIDs |->
                             IF node[pending].rid = q THEN pending ELSE requestIndex[q]]
      /\ UNCHANGED <<node, durable>>
  BY DEF SyncRefsDir, IndexPending
<1>4. Indexed' = Indexed \cup {pending}
  BY <1>1, <1>3, AppendElements DEF Indexed, TypeOK
<1>5. ASSUME NEW i \in 1..Len(history')
      PROVE  node'[history'[i]].parent = IF i = 1 THEN NoNode ELSE history'[i - 1]
  <2>1. history \in Seq(Nodes) /\ Len(history) \in Nat /\ Len(history') = Len(history) + 1
    BY <1>3 DEF TypeOK
  <2>2. CASE i \in 1..Len(history)
    <3>1. history'[i] = history[i] /\ (i # 1 => history'[i - 1] = history[i - 1])
      BY <1>3, <2>1, <2>2
    <3> QED BY <1>2, <1>3, <2>2, <3>1
  <2>3. CASE i = Len(history) + 1
    <3>1. history'[i] = pending /\ (i # 1 => history'[i - 1] = history[Len(history)])
      BY <1>3, <2>1, <2>3
    <3>2. i = 1 <=> history = <<>>
      BY <2>1, <2>3
    <3> QED BY <1>1, <1>3, <3>1, <3>2 DEF IndexedRoot
  <2> QED BY <2>1, <2>2, <2>3
<1>6. Unshared(Indexed)'
  BY <1>1, <1>3, <1>4, PendingUnshared DEF Unshared
<1>a. ASSUME NEW i \in 1..Len(history'), NEW j \in 1..Len(history'), i < j
      PROVE  history'[i] < history'[j] /\ InChain(history'[i], history'[j])
  <2>1. history \in Seq(Nodes) /\ Len(history) \in Nat /\ Len(history') = Len(history) + 1
    BY <1>3 DEF TypeOK
  <2>2. i \in 1..Len(history) /\ history'[i] = history[i] /\ history[i] \in Nodes
    BY <1>1, <1>3, <1>a, <2>1
  <2>3. CASE j \in 1..Len(history)
    BY <1>1, <1>2, <1>3, <1>a, <2>1, <2>2, <2>3
  <2>4. CASE j = Len(history) + 1
    <3>1. history # <<>> /\ Len(history) \in 1..Len(history)
      BY <2>1, <2>2
    <3>2. IndexedRoot = history[Len(history)] /\ history[Len(history)] \in Nodes
      BY <2>1, <3>1 DEF IndexedRoot
    <3>3. IndexedRoot < pending /\ InChain(IndexedRoot, pending)
      <4>1. IndexedRoot # NoNode
        BY <3>2 DEF Nodes, NoNode
      <4> QED BY <1>1, <4>1, ChainParent DEF DiskInv
    <3>4. \/ i = Len(history)
          \/ history[i] < history[Len(history)] /\ InChain(history[i], history[Len(history)])
      BY <1>2, <2>1, <2>2, <3>1
    <3>5. history'[j] = pending
      BY <1>1, <1>3, <2>1, <2>4
    <3>6. history[i] < pending
      BY <1>1, <2>2, <3>2, <3>3, <3>4 DEF Nodes
    <3>7. InChain(history[i], pending)
      BY <3>2, <3>3, <3>4, ChainTransitive
    <3> QED BY <2>2, <3>5, <3>6, <3>7
  <2> QED BY <2>1, <2>3, <2>4
<1>7. pending # NoNode
  BY <1>1 DEF Nodes, NoNode
<1>8. \A n \in Indexed' : node'[n].rid # Empty => requestIndex'[node'[n].rid] # NoNode
  <2> SUFFICES ASSUME NEW n \in Indexed', node[n].rid # Empty
               PROVE  requestIndex'[node[n].rid] # NoNode
    BY <1>3
  <2>1. n \in Nodes /\ node[n].rid \in RequestIDs
    BY <1>1, <1>2, <1>4 DEF TypeOK, NodeRecord
  <2> QED BY <1>2, <1>3, <1>4, <1>7, <2>1
<1>9. \A q \in RequestIDs : requestIndex'[q] # NoNode =>
          requestIndex'[q] \in Indexed' /\ node'[requestIndex'[q]].rid = q
  BY <1>2, <1>3, <1>4
<1>b. \A i, j \in 1..Len(history') : i < j => InChain(history[i], history[j])'
  BY <1>3, <1>a DEF InChain, Holds, ParentClosed
<1> QED BY <1>1, <1>2, <1>3, <1>4, <1>5, <1>6, <1>8, <1>9, <1>a, <1>b DEF IndexInv

\* The indexes that are rebuilt from a finished walk are in order, and current.
LEMMA RebuildStep ==
    ASSUME TypeOK, WalkInv, RebuildIndexes
    PROVE  IndexInv' /\ TipInv'
<1> DEFINE L == Len(reversed)
<1>1. /\ reversed \in Seq(Nodes)
      /\ L \in Nat
      /\ history' = [i \in 1..L |-> reversed[L + 1 - i]]
      /\ requestIndex' = IndexOf(reversed)
      /\ cursor = NoNode
      /\ UNCHANGED <<node, durable, root>>
  BY DEF RebuildIndexes, TypeOK, disk
<1>2. /\ Walked \subseteq durable
      /\ IF reversed = <<>> THEN cursor = root ELSE reversed[1] = root
      /\ \A i \in 1..L :
             node[reversed[i]].parent = IF i = L THEN cursor ELSE reversed[i + 1]
      /\ \A i, j \in 1..L :
             i < j => reversed[j] < reversed[i] /\ InChain(reversed[j], reversed[i])
  BY DEF RebuildIndexes, WalkInv
<1>3. history' \in Seq(Nodes) /\ Len(history') = L
  BY <1>1, ReverseType
<1>4. Indexed' = Walked
  BY <1>1, <1>3, ReverseElements DEF Indexed, Walked
<1>5. ASSUME NEW i \in 1..Len(history')
      PROVE  node'[history'[i]].parent = IF i = 1 THEN NoNode ELSE history'[i - 1]
  <2>1. i \in 1..L /\ L + 1 - i \in 1..L /\ history'[i] = reversed[L + 1 - i]
    BY <1>1, <1>3
  <2>2. L + 1 - i = L <=> i = 1
    BY <1>1, <2>1
  <2>3. i # 1 => history'[i - 1] = reversed[(L + 1 - i) + 1]
    <3>1. i # 1 => i - 1 \in 1..L /\ L + 1 - (i - 1) = (L + 1 - i) + 1
      BY <1>1, <2>1
    <3> QED BY <1>1, <3>1
  <2> QED BY <1>1, <1>2, <2>1, <2>2, <2>3
<1>a. ASSUME NEW i \in 1..Len(history'), NEW j \in 1..Len(history'), i < j
      PROVE  history'[i] < history'[j] /\ InChain(history'[i], history'[j])
  <2>1. /\ L + 1 - i \in 1..L /\ history'[i] = reversed[L + 1 - i]
        /\ L + 1 - j \in 1..L /\ history'[j] = reversed[L + 1 - j]
    BY <1>1, <1>3
  <2>2. L + 1 - j < L + 1 - i
    BY <1>1, <1>3, <1>a
  <2> QED BY <1>2, <2>1, <2>2
<1>6. Unshared(Walked)
  BY DEF RebuildIndexes, DuplicateRequest, Unshared, Walked, Shareable
<1>7. ASSUME NEW q \in RequestIDs, NEW j \in 1..L, node[reversed[j]].rid = q
      PROVE  requestIndex'[q] \in Walked /\ node[requestIndex'[q]].rid = q
  <2> DEFINE k == CHOOSE i \in 1..L : node[reversed[i]].rid = q
  <2>1. k \in 1..L /\ node[reversed[k]].rid = q
    BY <1>7
  <2>2. requestIndex'[q] = reversed[k]
    BY <1>1, <1>7 DEF IndexOf
  <2> QED BY <2>1, <2>2 DEF Walked
<1>8. ASSUME NEW q \in RequestIDs, requestIndex'[q] # NoNode
      PROVE  requestIndex'[q] \in Walked /\ node[requestIndex'[q]].rid = q
  <2>1. \E i \in 1..L : node[reversed[i]].rid = q
    BY <1>1, <1>8 DEF IndexOf
  <2> QED BY <1>7, <2>1
<1>9. ASSUME NEW n \in Walked, node[n].rid # Empty
      PROVE  requestIndex'[node[n].rid] # NoNode
  <2>1. PICK j \in 1..L : reversed[j] = n
    BY DEF Walked
  <2>2. node[n].rid \in RequestIDs
    BY <1>1, <1>9, <2>1 DEF TypeOK, NodeRecord
  <2>3. requestIndex'[node[n].rid] \in Nodes
    BY <1>2, <1>7, <2>1, <2>2 DEF TypeOK
  <2> QED BY <2>3 DEF Nodes, NoNode
<1>10. Unshared(Indexed)'
  BY <1>1, <1>4, <1>6 DEF Unshared
<1>11. IndexInv'
  <2>1. \A i, j \in 1..Len(history') : i < j => InChain(history[i], history[j])'
    BY <1>1, <1>a DEF InChain, Holds, ParentClosed
  <2> QED BY <1>1, <1>2, <1>4, <1>5, <1>8, <1>9, <1>10, <1>a, <2>1 DEF IndexInv
<1>12. root' = IndexedRoot'
  <2>1. CASE reversed = <<>>
    BY <1>1, <1>2, <1>3, <2>1 DEF IndexedRoot
  <2>2. CASE reversed # <<>>
    <3>1. L \in 1..L /\ L + 1 - L = 1
      BY <1>1, <2>2
    <3>2. history'[L] = reversed[1]
      BY <1>1, <3>1
    <3>3. history' # <<>>
      BY <1>3, <3>1
    <3> QED BY <1>1, <1>2, <1>3, <2>2, <3>2, <3>3 DEF IndexedRoot
  <2> QED BY <2>1, <2>2
<1> QED BY <1>11, <1>12 DEF TipInv

\* Every step keeps the indexes of an open store in order.
LEMMA IndexStep ==
    ASSUME TypeOK, DiskInv, PendingInv, HistoryInv, [Next]_vars
    PROVE  IndexInv'
<1> USE DEF HistoryInv
<1>1. CASE pc' \notin {"open"} \cup Appending
  BY <1>1 DEF IndexInv
<1>2. CASE UNCHANGED <<disk, memory>>
  <2>1. CASE pc \in {"open"} \cup Appending
    BY <1>2, <2>1, ChainStep, IndexFrame DEF disk, memory
  <2> QED BY <1>1, <1>2, <2>1 DEF memory
<1>3. ASSUME NEW q, NEW h, Mints(q, h)
      PROVE  IndexInv'
  <2>1. pc \in {"open"} \cup Appending
    BY <1>3 DEF Mints
  <2> QED BY <1>3, <2>1, MintFrame, ChainStep, IndexFrame
<1>4. CASE LinkNode \/ SyncNodesDir \/ RenameRoot \/ AppendIOError
  <2>1. pc \in {"open"} \cup Appending
    BY <1>4 DEF LinkNode, SyncNodesDir, RenameRoot, AppendIOError, Appending
  <2>2. durable \subseteq durable' /\ UNCHANGED <<node, history, requestIndex>>
    BY <1>4 DEF LinkNode, SyncNodesDir, RenameRoot, AppendIOError, disk, TypeOK
  <2> QED BY <2>1, <2>2, ChainStep, IndexFrame
<1>5. CASE SyncRefsDir
  BY <1>5, IndexPendingStep
<1>6. CASE RebuildIndexes
  BY <1>6, RebuildStep
<1>7. CASE WalkStep \/ OpenStore \/ OpenFails \/ Close \/ ProcessCrash \/ PowerLoss
  <2>1. pc' \in {"walking", "closed"}
    BY <1>7 DEF WalkStep, OpenStore, OpenFails, Close, ProcessCrash, PowerLoss
  <2> QED BY <1>1, <2>1 DEF Appending
<1> QED
  BY <1>2, <1>3, <1>4, <1>5, <1>6, <1>7, StepCases DEF vars, disk, memory, AnswersAtOnce

\* Every step leaves the index at most one failed append behind the disk.
LEMMA TipStep ==
    ASSUME TypeOK, PendingInv, HistoryInv, [Next]_vars
    PROVE  TipInv'
<1> USE DEF HistoryInv
<1>1. CASE pc' # "open"
  BY <1>1 DEF TipInv
<1>2. CASE UNCHANGED <<disk, memory>>
  BY <1>2 DEF TipInv, IndexedRoot, disk, memory
<1>3. CASE RebuildIndexes
  BY <1>3, RebuildStep
<1>4. CASE SyncRefsDir
  <2>1. pending \in Nodes /\ root = pending
    BY <1>4 DEF SyncRefsDir, PendingInv, TypeOK, Appending
  <2>2. history \in Seq(Nodes) /\ history' = Append(history, pending) /\ root' = root
    BY <1>4 DEF SyncRefsDir, IndexPending, TypeOK
  <2>3. history' # <<>> /\ history'[Len(history')] = pending
    BY <2>1, <2>2
  <2> QED BY <2>1, <2>2, <2>3 DEF TipInv, IndexedRoot
<1>5. CASE AppendIOError
  BY <1>5 DEF AppendIOError, PendingInv, TipInv, IndexedRoot, Appending, disk
<1>6. CASE WalkStep \/ OpenStore \/ OpenFails \/ Close \/ LinkNode \/ SyncNodesDir
           \/ RenameRoot \/ ProcessCrash \/ PowerLoss
  <2>1. pc' # "open"
    BY <1>6 DEF WalkStep, OpenStore, OpenFails, Close, LinkNode, SyncNodesDir, RenameRoot,
                ProcessCrash, PowerLoss
  <2> QED BY <1>1, <2>1
<1>7. ASSUME NEW q, NEW h, Mints(q, h)
      PROVE  TipInv'
  BY <1>1, <1>7 DEF Mints, MintNode
<1> QED
  BY <1>2, <1>3, <1>4, <1>5, <1>6, <1>7, StepCases DEF vars, disk, memory, AnswersAtOnce

\* Every step keeps the request of the running append new.
LEMMA PendingRequestStep ==
    ASSUME TypeOK, DiskInv, HistoryInv, [Next]_vars
    PROVE  PendingRequestInv'
<1> USE DEF HistoryInv
<1>1. CASE pc' \notin Appending
  BY <1>1 DEF PendingRequestInv
<1>2. ASSUME NEW q, NEW h, Mints(q, h), q \in Shareable \/ requestIndex[q] = NoNode
      PROVE  PendingRequestInv'
  <2>1. /\ pending' = minted + 1
        /\ node'[minted + 1] = [parent |-> root, rid |-> q, rhash |-> h]
    BY <1>2, MintFrame
  <2>2. node'[pending'].rid = q
    BY <2>1
  <2>3. requestIndex' = requestIndex
    BY <1>2 DEF Mints, MintNode
  <2> QED BY <1>2, <2>2, <2>3 DEF PendingRequestInv, Shareable
<1>3. CASE UNCHANGED <<disk, memory>> \/ LinkNode \/ SyncNodesDir \/ RenameRoot
  BY <1>3 DEF PendingRequestInv, disk, memory, LinkNode, SyncNodesDir, RenameRoot, Appending
<1>4. CASE WalkStep \/ OpenStore \/ RebuildIndexes \/ OpenFails \/ Close \/ SyncRefsDir
           \/ AppendIOError \/ ProcessCrash \/ PowerLoss
  <2>1. pc' \in {"walking", "open", "closed"}
    BY <1>4 DEF WalkStep, OpenStore, RebuildIndexes, OpenFails, Close, SyncRefsDir,
                AppendIOError, ProcessCrash, PowerLoss
  <2> QED BY <1>1, <2>1 DEF Appending
<1> QED
  BY <1>2, <1>3, <1>4, StepCases DEF vars, disk, memory, AnswersAtOnce, Shareable

\* Every step keeps the nodes that the walk has read in one chain.
LEMMA WalkInvStep ==
    ASSUME TypeOK, DiskInv, HistoryInv, [Next]_vars
    PROVE  WalkInv'
<1> USE DEF HistoryInv
<1>1. CASE pc' # "walking"
  BY <1>1 DEF WalkInv
<1>2. CASE OpenStore
  <2>1. Walked' = {} /\ reversed' = <<>> /\ cursor' = root /\ UNCHANGED <<node, durable, root>>
    BY <1>2 DEF OpenStore, Walked, disk
  <2>2. root \in durable \cup {NoNode} /\ (root # NoNode => root \in Nodes)
    BY DEF DiskInv, TypeOK
  <2>3. root = NoNode \/ InChain(root, root)
    BY <2>2, ChainParent
  <2>4. root = NoNode \/ InChain(root, root)'
    BY <2>1, <2>3 DEF InChain, Holds, ParentClosed
  <2>5. 1..Len(reversed') = {}
    BY <2>1
  <2> QED BY <2>1, <2>2, <2>4, <2>5 DEF WalkInv
<1>3. CASE WalkStep
  <2>1. cursor \in durable /\ cursor \in files /\ cursor \in Nodes /\ cursor # NoNode
    BY <1>3 DEF WalkStep, WalkInv, TypeOK
  <2>2. /\ reversed \in Seq(Nodes)
        /\ Len(reversed) \in Nat
        /\ reversed' = Append(reversed, cursor)
        /\ cursor' = node[cursor].parent
        /\ UNCHANGED <<node, durable, root>>
    BY <1>3 DEF WalkStep, TypeOK, disk
  <2>3. Walked' = Walked \cup {cursor}
    BY <2>1, <2>2, AppendElements DEF Walked
  <2>4. cursor' \in durable \cup {NoNode}
    BY <2>1, <2>2 DEF DiskInv
  <2>5. /\ Walked \subseteq durable
        /\ IF reversed = <<>> THEN cursor = root ELSE reversed[1] = root
        /\ \A i \in 1..Len(reversed) :
               node[reversed[i]].parent =
                   IF i = Len(reversed) THEN cursor ELSE reversed[i + 1]
        /\ \A i, j \in 1..Len(reversed) :
               i < j => reversed[j] < reversed[i] /\ InChain(reversed[j], reversed[i])
        /\ \A n \in Walked : cursor < n /\ (cursor = NoNode \/ InChain(cursor, n))
        /\ \A n \in Walked \cup {cursor} : n = NoNode \/ InChain(n, root)
    BY <1>3 DEF WalkStep, WalkInv
  <2>6. reversed' # <<>> /\ reversed'[1] = root'
    <3>1. CASE reversed = <<>>
      BY <2>1, <2>2, <2>5, <3>1
    <3>2. CASE reversed # <<>>
      <4>1. 1 \in 1..Len(reversed)
        BY <2>2, <3>2
      <4> QED BY <2>1, <2>2, <2>5, <3>2, <4>1
    <3> QED BY <3>1, <3>2
  <2>7. ASSUME NEW i \in 1..Len(reversed')
        PROVE  node'[reversed'[i]].parent =
                   IF i = Len(reversed') THEN cursor' ELSE reversed'[i + 1]
    <3>1. Len(reversed') = Len(reversed) + 1 /\ reversed'[Len(reversed) + 1] = cursor
      BY <2>1, <2>2
    <3>2. CASE i = Len(reversed) + 1
      BY <2>2, <3>1, <3>2
    <3>3. CASE i = Len(reversed)
      BY <2>1, <2>2, <2>5, <3>1, <3>3
    <3>4. CASE i \in 1..Len(reversed) /\ i # Len(reversed)
      <4>1. i + 1 \in 1..Len(reversed) /\ reversed'[i] = reversed[i]
            /\ reversed'[i + 1] = reversed[i + 1]
        BY <2>1, <2>2, <3>4
      <4> QED BY <2>2, <2>5, <3>1, <3>4, <4>1
    <3> QED BY <2>2, <3>1, <3>2, <3>3, <3>4
  <2>8. cursor' = NoNode \/ InChain(cursor', root)
    <3>1. cursor' = NoNode \/ InChain(cursor', cursor)
      BY <2>1, <2>2, ChainParent
    <3>2. InChain(cursor, root)
      BY <2>1, <2>5
    <3> QED BY <3>1, <3>2, ChainTransitive
  <2>9. \A n \in Walked' \cup {cursor'} : n = NoNode \/ InChain(n, root)
    BY <2>3, <2>5, <2>8
  <2>10. \A n \in Walked' \cup {cursor'} : n = NoNode \/ InChain(n, root)'
    BY <2>2, <2>9 DEF InChain, Holds, ParentClosed
  <2>11. ASSUME NEW i \in 1..Len(reversed'), NEW j \in 1..Len(reversed'), i < j
         PROVE  reversed'[j] < reversed'[i] /\ InChain(reversed'[j], reversed'[i])
    <3>1. Len(reversed') = Len(reversed) + 1
      BY <2>1, <2>2
    <3>2. i \in 1..Len(reversed) /\ reversed'[i] = reversed[i] /\ reversed[i] \in Walked
      BY <2>1, <2>2, <2>11, <3>1 DEF Walked
    <3>3. CASE j \in 1..Len(reversed)
      BY <2>1, <2>2, <2>5, <2>11, <3>2, <3>3
    <3>4. CASE j = Len(reversed) + 1
      BY <2>1, <2>2, <2>5, <3>2, <3>4
    <3> QED BY <2>2, <3>1, <3>3, <3>4
  <2>12. \A n \in Walked' : cursor' < n
    <3>1. cursor' < cursor /\ cursor' \in Roots
      BY <2>1, <2>2 DEF DiskInv, TypeOK, NodeRecord
    <3>2. \A n \in Walked : n \in Nodes
      BY <2>5 DEF TypeOK
    <3> QED BY <2>1, <2>3, <2>5, <3>1, <3>2 DEF Nodes, Roots
  <2>13. \A n \in Walked' : cursor' = NoNode \/ InChain(cursor', n)
    <3>1. cursor' = NoNode \/ InChain(cursor', cursor)
      BY <2>1, <2>2, ChainParent
    <3> QED BY <2>1, <2>3, <2>5, <3>1, ChainTransitive
  <2>14. /\ \A i, j \in 1..Len(reversed') : i < j => InChain(reversed[j], reversed[i])'
         /\ \A n \in Walked' : cursor' = NoNode \/ InChain(cursor, n)'
    BY <2>2, <2>11, <2>13 DEF InChain, Holds, ParentClosed
  <2> QED BY <2>1, <2>2, <2>3, <2>4, <2>5, <2>6, <2>7, <2>10, <2>11, <2>12, <2>14 DEF WalkInv
<1>4. CASE UNCHANGED <<disk, memory>>
  <2>1. UNCHANGED <<pc, cursor, reversed, node, durable, root>> /\ Walked' = Walked
    BY <1>4 DEF disk, memory, Walked
  <2>2. \A m, n : InChain(m, n) => InChain(m, n)'
    BY ChainStep
  <2> QED BY <2>1, <2>2 DEF WalkInv
<1>5. CASE RebuildIndexes \/ OpenFails \/ Close \/ LinkNode \/ SyncNodesDir \/ RenameRoot
           \/ SyncRefsDir \/ AppendIOError \/ ProcessCrash \/ PowerLoss
  BY <1>1, <1>5 DEF RebuildIndexes, OpenFails, Close, LinkNode, SyncNodesDir, RenameRoot,
     SyncRefsDir, AppendIOError, ProcessCrash, PowerLoss
<1>6. ASSUME NEW q, NEW h, Mints(q, h)
      PROVE  WalkInv'
  BY <1>1, <1>6 DEF Mints, MintNode
<1> QED
  BY <1>2, <1>3, <1>4, <1>5, <1>6, StepCases DEF vars, disk, memory, AnswersAtOnce

\* Every step keeps what successes say about their nodes true.
LEMMA AckInvStep ==
    ASSUME TypeOK, DiskInv, PendingInv, HistoryInv, [Next]_vars
    PROVE  AckInv'
<1> USE DEF HistoryInv
<1>1. CASE UNCHANGED <<node, minted, acks>>
  BY <1>1 DEF AckInv
<1>2. ASSUME NEW q, NEW h, Mints(q, h)
      PROVE  AckInv'
  <2>1. minted \in Nat /\ minted' = minted + 1 /\ minted + 1 \in Nodes /\ UNCHANGED acks
    BY <1>2, StoreAssumption DEF Mints, MintNode, TypeOK, Nodes
  <2>2. \A n \in 1..minted : n \in Nodes /\ n # minted + 1 /\ n \in 1..minted'
    BY <2>1, StoreAssumption DEF Nodes
  <2>3. \A n \in Nodes : n # minted + 1 => node'[n] = node[n]
    BY <1>2 DEF Mints, MintNode, TypeOK
  <2> QED BY <2>1, <2>2, <2>3 DEF AckInv
<1>3. CASE AnswersAtOnce
  <2>1. CASE acks' = acks
    BY <1>1, <1>3, <2>1 DEF AnswersAtOnce, disk
  <2>2. CASE acks' # acks
    <3>1. PICK q \in RequestIDs, h \in RequestHashes :
             /\ pc = "open"
             /\ requestIndex[q] # NoNode
             /\ node[requestIndex[q]].rhash = h
             /\ acks' = acks \cup {[rid |-> q, rhash |-> h, node |-> requestIndex[q],
                                    fresh |-> FALSE]}
      BY <1>3, <2>2 DEF AnswersAtOnce
    <3>2. requestIndex[q] \in Indexed /\ node[requestIndex[q]].rid = q
      BY <3>1 DEF IndexInv
    <3>3. requestIndex[q] \in 1..minted
      BY <3>1, <3>2 DEF IndexInv, DiskInv, TypeOK
    <3> QED BY <1>3, <3>1, <3>2, <3>3 DEF AckInv, AnswersAtOnce, disk
  <2> QED BY <2>1, <2>2
<1>4. CASE SyncRefsDir
  <2>1. pending \in 1..minted /\ UNCHANGED <<node, minted>>
    BY <1>4 DEF SyncRefsDir, PendingInv, Appending
  <2>2. acks' = acks \cup {[rid |-> node[pending].rid, rhash |-> node[pending].rhash,
                            node |-> pending, fresh |-> TRUE]}
    BY <1>4 DEF SyncRefsDir, AckPending
  <2> QED BY <2>1, <2>2 DEF AckInv
<1> QED
  BY <1>1, <1>2, <1>3, <1>4, StepCases
     DEF vars, disk, OpenStore, WalkStep, RebuildIndexes, OpenFails, Close, LinkNode,
         SyncNodesDir, RenameRoot, AppendIOError, ProcessCrash, PowerLoss

\* The initial history is empty and in order.
LEMMA HistoryInit == Init => HistoryInv
  BY DEF Init, HistoryInv, RequestInv, IndexInv, TipInv, PendingRequestInv, WalkInv, AckInv,
     Appending

\* The initial store is in order ...
LEMMA StoreInvInit == Init => StoreInv
  BY DurabilityInit, HistoryInit DEF StoreInv

\* ... and every step keeps it in order.
LEMMA StoreInvStep ==
    ASSUME TypeOK, StoreInv, [Next]_vars
    PROVE  StoreInv'
<1>1. DurabilityInv'
  BY DiskStep, SurvivorStep, PendingStep, AcksStep DEF StoreInv, DurabilityInv
<1>2. HistoryInv'
  BY RequestStep, IndexStep, TipStep, PendingRequestStep, WalkInvStep, AckInvStep
     DEF StoreInv, DurabilityInv, HistoryInv
<1> QED BY <1>1, <1>2 DEF StoreInv

\* StoreInv is an invariant of the store.
THEOREM StoreInvariance == Spec => []StoreInv
  BY StoreInvInit, StoreInvStep, TypeCorrect, PTL DEF Spec

-----------------------------------------------------------------------------
(***************************************************************************)
(* What callers and operators can rely on.                                  *)
(***************************************************************************)

\* Every root that may be found is loadable, but for IDs of plain appends.
LEMMA RootsLoad ==
    ASSUME TypeOK, StoreInv, NEW r \in rootSurvivors
    PROVE  \E A \in SUBSET durable : ParentClosed(A) /\ Holds(A, r) /\ Unshared(A)
<1>1. CASE r = NoNode
  <2>1. ParentClosed({}) /\ Holds({}, r) /\ Unshared({})
    BY <1>1 DEF ParentClosed, Holds, Unshared
  <2> QED BY <2>1
<1>2. CASE r # NoNode
  <2>1. r \in durable /\ r \in files
    BY <1>2 DEF StoreInv, DurabilityInv, DiskInv, TypeOK
  <2>2. durable \cup {r} = durable
    BY <2>1
  <2> QED BY <2>1, <2>2 DEF StoreInv, HistoryInv, RequestInv, Holds
<1> QED BY <1>1, <1>2

\* Whatever callers do with request IDs, every root that may be found starts
\* a complete, durable chain, and an ID that was left to AppendIdempotent occurs in
\* it once.
THEOREM AlwaysRecoverableButForPlain == Spec => []RecoverableButForPlain
<1>1. TypeOK /\ StoreInv => RecoverableButForPlain
  BY RootsLoad DEF RecoverableButForPlain
<1> QED BY <1>1, TypeCorrect, StoreInvariance, PTL

\* Whenever the process or the machine dies, the store can be opened again:
\* every root that may be found starts a complete, durable chain in which no
\* request occurs twice.  It needs that no caller passes a request ID to Append
\* or AppendAt.
THEOREM AlwaysRecoverable ==
    ASSUME RequestsAreIdempotent
    PROVE  Spec => []Recoverable
<1>1. TypeOK /\ StoreInv => Recoverable
  <2> SUFFICES ASSUME TypeOK, StoreInv, NEW r \in rootSurvivors PROVE Loadable(r, durable)
    BY DEF Recoverable
  <2>1. PICK A \in SUBSET durable : ParentClosed(A) /\ Holds(A, r) /\ Unshared(A)
    BY RootsLoad
  <2>2. OneNodeEach(A)
    BY <2>1 DEF Unshared, OneNodeEach, Shareable, RequestsAreIdempotent
  <2> QED BY <2>1, <2>2 DEF Loadable
<1> QED BY <1>1, TypeCorrect, StoreInvariance, PTL

\* So OpenStore never finds a node missing, a cycle, or a request twice.
THEOREM OpeningSucceeds ==
    ASSUME RequestsAreIdempotent
    PROVE  Spec => [][~OpenFails]_vars
<1>1. TypeOK /\ StoreInv => ~OpenFails
  <2> SUFFICES ASSUME TypeOK, StoreInv, OpenFails PROVE FALSE
    OBVIOUS
  <2>1. /\ Walked \subseteq durable
        /\ cursor \in durable \cup {NoNode}
        /\ \A i, j \in 1..Len(reversed) : i < j => reversed[j] < reversed[i]
        /\ \A n \in Walked : cursor < n
        /\ \A n \in Walked : n = NoNode \/ InChain(n, root)
    BY DEF OpenFails, StoreInv, HistoryInv, WalkInv
  <2>2. DuplicateRequest(reversed)
    <3>1. Walked \subseteq Nat
      BY <2>1 DEF TypeOK, Nodes
    <3>2. cursor \notin Walked
      BY <2>1, <3>1
    <3> QED BY <2>1, <3>2 DEF OpenFails, TypeOK
  <2>3. root \in rootSurvivors
    BY DEF StoreInv, DurabilityInv, DiskInv
  <2>4. PICK A \in SUBSET durable : ParentClosed(A) /\ Holds(A, root) /\ Unshared(A)
    BY <2>3, RootsLoad
  <2>5. A \in SUBSET Nodes
    BY DEF TypeOK
  <2>6. Walked \subseteq A
    <3>1. \A n \in Walked : n # NoNode
      BY <2>1 DEF TypeOK, Nodes, NoNode
    <3> QED BY <2>1, <2>4, <2>5, <3>1 DEF InChain
  <2>7. PICK i \in 1..Len(reversed), j \in 1..Len(reversed) :
           /\ i # j
           /\ node[reversed[i]].rid = node[reversed[j]].rid
           /\ node[reversed[i]].rid # Empty
    BY <2>2 DEF DuplicateRequest
  <2>8. reversed[i] \in Walked /\ reversed[j] \in Walked
    BY DEF Walked
  <2>9. reversed[i] = reversed[j]
    BY <2>4, <2>6, <2>7, <2>8 DEF Unshared, Shareable, RequestsAreIdempotent
  <2>10. reversed[i] \in Nodes /\ (i < j \/ j < i)
    BY <2>7 DEF TypeOK
  <2> QED BY <2>1, <2>9, <2>10 DEF Nodes
<1> QED BY <1>1, TypeCorrect, StoreInvariance, PTL

\* A store that answers ready can read all of its history and takes appends,
\* and one that must refuse appends is not ready.
THEOREM ReadinessIsSound == Spec => []ReadyIsSound
<1>1. TypeOK /\ StoreInv => ReadyIsSound
  <2> SUFFICES ASSUME TypeOK, StoreInv, pc = "open" PROVE Ready(NoNode) <=> VerifyAll
    BY DEF ReadyIsSound
  <2>1. /\ Indexed \subseteq durable
        /\ root = IndexedRoot \/ root \in durable
    BY DEF StoreInv, HistoryInv, IndexInv, TipInv
  <2>2. \A i \in 1..Len(history) : history[i] \in files
    BY <2>1 DEF Indexed, TypeOK
  <2>3. Holds(Indexed, IndexedRoot)
    BY IndexedRootIndexed
  <2>4. NoNode \notin durable
    BY DEF TypeOK, Nodes, NoNode
  <2>5. root = IndexedRoot => root = NoNode \/ root \in files
    BY <2>1, <2>3 DEF Holds, TypeOK
  <2> QED BY <2>1, <2>2, <2>4, <2>5
          DEF Ready, VerifyHead, VerifyAll, MinimumRootPresent, IndexIsCurrent
<1> QED BY <1>1, TypeCorrect, StoreInvariance, PTL

\* Between operations the indexes describe the chain on disk, or all of it
\* but the node of one failed append.
THEOREM IndexesDescribeDisk == Spec => []IndexMatchesDisk
<1>1. TypeOK /\ StoreInv => IndexMatchesDisk
  <2> SUFFICES ASSUME TypeOK, StoreInv, pc = "open" PROVE IndexMatchesDisk
    BY DEF IndexMatchesDisk
  <2>1. IndexInv /\ TipInv /\ pc \in {"open"} \cup Appending
    BY DEF StoreInv, HistoryInv
  <2>2. ASSUME NEW q \in RequestIDs \ PlainRequestIDs, NEW n \in 1..minted
        PROVE  requestIndex[q] = n <=> n \in Indexed /\ node[n].rid = q
    <3>1. n # NoNode /\ q \notin Shareable /\ q # Empty
      BY StoreAssumption DEF NoNode, Shareable, TypeOK
    <3>2. CASE requestIndex[q] = n
      BY <2>1, <3>1, <3>2 DEF IndexInv
    <3>3. CASE n \in Indexed /\ node[n].rid = q
      <4>1. requestIndex[q] # NoNode
        BY <2>1, <3>1, <3>3 DEF IndexInv
      <4>2. requestIndex[q] \in Indexed /\ node[requestIndex[q]].rid = q
        BY <2>1, <4>1 DEF IndexInv
      <4> QED BY <2>1, <3>1, <3>3, <4>2 DEF IndexInv, Unshared
    <3> QED BY <3>2, <3>3
  <2>3. \A n : n \in Indexed <=> \E i \in 1..Len(history) : history[i] = n
    BY DEF Indexed
  <2> QED BY <2>1, <2>2, <2>3 DEF IndexMatchesDisk, IndexInv, TipInv
<1> QED BY <1>1, TypeCorrect, StoreInvariance, PTL

\* All successes for one request that are in the history name one node and
\* one content.
THEOREM RequestsHaveOneNode == Spec => []OneNodePerRequest
<1>1. TypeOK /\ StoreInv => OneNodePerRequest
  <2> SUFFICES ASSUME TypeOK, StoreInv, NEW a \in acks, NEW b \in acks,
                      a.rid = b.rid, a.rid \notin Shareable,
                      InChain(a.node, root), InChain(b.node, root)
               PROVE  a.node = b.node /\ a.rhash = b.rhash
    BY DEF OneNodePerRequest
  <2>1. root \in rootSurvivors
    BY DEF StoreInv, DurabilityInv, DiskInv
  <2>2. PICK A \in SUBSET durable : ParentClosed(A) /\ Holds(A, root) /\ Unshared(A)
    BY <2>1, RootsLoad
  <2>3. A \in SUBSET Nodes
    BY DEF TypeOK
  <2>4. a.node \in A /\ b.node \in A
    BY <2>2, <2>3 DEF InChain
  <2>5. /\ node[a.node].rid = a.rid /\ node[a.node].rhash = a.rhash
        /\ node[b.node].rid = b.rid /\ node[b.node].rhash = b.rhash
    BY DEF StoreInv, HistoryInv, AckInv
  <2>6. a.node = b.node
    BY <2>2, <2>4, <2>5 DEF Unshared
  <2> QED BY <2>5, <2>6
<1> QED BY <1>1, TypeCorrect, StoreInvariance, PTL

\* With a current index, every root that a power loss may leave is indexed, and
\* so is every node below it.
LEMMA ChainIndexed ==
    ASSUME TypeOK, StoreInv, pc = "open", root = IndexedRoot,
           NEW r \in rootSurvivors, NEW n, InChain(n, r)
    PROVE  n \in Indexed
<1>1. ParentClosed(Indexed) /\ Holds(Indexed, root)
  BY IndexedClosed, IndexedRootIndexed DEF StoreInv, HistoryInv
<1>2. Indexed \in SUBSET Nodes
  BY DEF StoreInv, HistoryInv, IndexInv, TypeOK
<1>3. InChain(n, root)
  BY ChainTransitive DEF StoreInv, DurabilityInv, SurvivorInv
<1> QED BY <1>1, <1>2, <1>3 DEF InChain

\* A request that is refused because the root changed is not in the history
\* and cannot come back into it.
THEOREM RejectedIsAbsent == Spec => RootChangedMeansAbsent
<1> DEFINE Step == (reply' # reply /\ reply'.kind = "rootChanged"
                       /\ reply'.rid \notin Shareable) =>
                   \A r \in rootSurvivors, n \in 1..minted :
                       node[n].rid = reply'.rid => ~InChain(n, r)
<1>1. TypeOK /\ StoreInv /\ [Next]_vars => [Step]_vars
  <2> SUFFICES ASSUME TypeOK, StoreInv, Next, reply' # reply, reply'.kind = "rootChanged",
                      reply'.rid \notin Shareable,
                      NEW r \in rootSurvivors, NEW n \in 1..minted,
                      node[n].rid = reply'.rid, InChain(n, r)
               PROVE  FALSE
    OBVIOUS
  <2>1. ASSUME NEW q \in RequestIDs, NEW h \in RequestHashes, NEW e \in Roots,
               AppendIdempotent(q, h, e)
        PROVE  FALSE
    <3>1. /\ pc = "open" /\ root = IndexedRoot
          /\ requestIndex[q] = NoNode /\ reply'.rid = q
      BY <2>1 DEF AppendIdempotent, AppendInner, IndexIsCurrent, Refuse, Answer, MintNode, NoReply
    <3>2. n \in Indexed
      BY <3>1, ChainIndexed
    <3>3. node[n].rid = q /\ q # Empty
      BY <3>1, StoreAssumption
    <3> QED BY <3>1, <3>2, <3>3 DEF StoreInv, HistoryInv, IndexInv
  <2>2. ASSUME NEW q \in PlainRequestIDs, NEW h \in RequestHashes, NEW e \in Roots,
               PlainAppend(q, h, e)
        PROVE  FALSE
    BY <2>2 DEF PlainAppend, AppendInner, Refuse, Answer, MintNode, NoReply, Shareable
  <2>3. ASSUME reply' = reply \/ reply' = NoReply \/ reply' = Answer("integrity", Empty)
               \/ AckPending \/ AppendIOError
        PROVE  FALSE
    BY <2>3 DEF NoReply, Answer, AckPending, AppendIOError
  <2> QED
    BY <2>1, <2>2, <2>3
       DEF Next, OpenStore, WalkStep, RebuildIndexes, OpenFails, Close, LinkNode,
           SyncNodesDir, RenameRoot, SyncRefsDir, ProcessCrash, PowerLoss
<1> QED BY <1>1, TypeCorrect, StoreInvariance, PTL DEF Spec, RootChangedMeansAbsent

-----------------------------------------------------------------------------
(***************************************************************************)
(* The store implements EventLog.  PathTo is defined by recursion over the  *)
(* chain, and no prover here does induction over it: what it computes is    *)
(* carried along the behaviour instead.  Nodes are minted one at a time, on *)
(* top of nodes that are already there, so each step extends the solution   *)
(* of the recursive equation by one value, and it stays the only one.       *)
(***************************************************************************)

\* f solves the equation that defines PathTo.
IsPath(f) ==
    f = [n \in Roots |-> IF n = NoNode THEN <<>> ELSE Append(f[node[n].parent], n)]

\* The path u that ends in n is made of older and older nodes of n's chain, and
\* what is left of it when newer ones are left off is the path of its end.
PathFact(f, n, u) ==
    /\ u \in Seq(Nodes)
    /\ \A i \in 1..Len(u) :
          /\ u[i] <= n
          /\ InChain(u[i], n)
          /\ Len(f[u[i]]) = i
          /\ \A j \in 1..i : f[u[i]][j] = u[j]
    /\ \A i, j \in 1..Len(u) : i < j => u[i] < u[j]

PathFacts(f) == \A n \in Roots : PathFact(f, n, f[n])

PathInv ==
    /\ \A f, g : IsPath(f) /\ IsPath(g) => f = g
    /\ IsPath(PathTo)
    /\ PathFacts(PathTo)

\* One of the roots that may survive is the oldest.
OldestInv == \E x \in rootSurvivors : \A y \in rootSurvivors : x <= y

LEMMA PathToIsPath ==
    ASSUME NEW f, IsPath(f)
    PROVE  IsPath(PathTo)
BY Zenon DEF PathTo, IsPath

LEMMA PathToNext ==
    ASSUME NEW f, IsPath(f)', \A g : IsPath(g)' => g = f
    PROVE  PathTo' = f /\ IsPath(PathTo)'
<1>1. IsPath(PathTo)'
  BY Zenon DEF PathTo, IsPath
<1>2. PathTo' = f
  BY Zenon DEF PathTo, IsPath
<1> QED
  BY <1>1, <1>2

\* What it is to be a path, value by value.
LEMMA PathValues ==
    ASSUME TypeOK, NEW f
    PROVE  IsPath(f) <=> /\ f = [n \in Roots |-> f[n]]
                         /\ f[NoNode] = <<>>
                         /\ \A n \in Nodes : f[n] = Append(f[node[n].parent], n)
<1>1. Roots = Nodes \cup {NoNode} /\ NoNode \notin Nodes
  BY StoreAssumption DEF Roots, Nodes, NoNode
<1>2. IsPath(f) => /\ f = [n \in Roots |-> f[n]]
                   /\ f[NoNode] = <<>>
                   /\ \A n \in Nodes : f[n] = Append(f[node[n].parent], n)
  BY <1>1 DEF IsPath
<1>3. ASSUME f = [n \in Roots |-> f[n]], f[NoNode] = <<>>,
             \A n \in Nodes : f[n] = Append(f[node[n].parent], n)
      PROVE  IsPath(f)
  <2>1. \A n \in Roots :
            f[n] = IF n = NoNode THEN <<>> ELSE Append(f[node[n].parent], n)
    BY <1>1, <1>3
  <2> QED
    BY <1>3, <2>1 DEF IsPath
<1> QED
  BY <1>2, <1>3

LEMMA PathInit == Init => PathInv /\ OldestInv
<1> SUFFICES ASSUME Init PROVE PathInv /\ OldestInv
  OBVIOUS
<1> DEFINE s == [n \in Roots |-> IF n = NoNode THEN <<>> ELSE <<n>>]
<1>1. TypeOK
  BY TypeInit
<1>2. Roots = Nodes \cup {NoNode} /\ NoNode \notin Nodes /\ Nodes \subseteq Nat
  BY StoreAssumption DEF Roots, Nodes, NoNode
<1>3. \A n \in Nodes : node[n].parent = NoNode
  BY DEF Init, Blank
<1>4. s[NoNode] = <<>> /\ \A n \in Nodes : s[n] = <<n>> /\ s[n] = Append(<<>>, n)
  BY <1>2
<1>5. IsPath(s)
  BY <1>1, <1>3, <1>4, PathValues
<1>6. ASSUME NEW f, IsPath(f) PROVE f = s
  <2>1. /\ f = [n \in Roots |-> f[n]]
        /\ f[NoNode] = <<>>
        /\ \A n \in Nodes : f[n] = Append(<<>>, n)
    BY <1>1, <1>3, <1>6, PathValues
  <2>2. \A n \in Roots : f[n] = s[n]
    BY <1>2, <1>4, <2>1
  <2> QED
    BY <2>1, <2>2
<1>7. IsPath(PathTo) /\ PathTo = s
  BY <1>5, <1>6, PathToIsPath
<1>8. PathFacts(s)
  <2> SUFFICES ASSUME NEW n \in Roots PROVE PathFact(s, n, s[n])
    BY DEF PathFacts
  <2>1. CASE n = NoNode
    <3>1. s[n] = <<>>
      BY <1>4, <2>1
    <3> HIDE DEF s
    <3>2. PathFact(s, n, <<>>)
      BY DEF PathFact
    <3> QED
      BY <3>1, <3>2
  <2>2. CASE n \in Nodes
    <3>1. s[n] = <<n>> /\ n \in Nat /\ InChain(n, n)
      BY <1>2, <1>4, <2>2, ChainParent
    <3> HIDE DEF s
    <3> PICK u : u = <<n>>
      OBVIOUS
    <3>2. Len(u) = 1 /\ u[1] = n /\ u \in Seq(Nodes) /\ 1..Len(u) = {1}
      BY <2>2
    <3>3. \A i \in 1..Len(u) :
              /\ u[i] <= n
              /\ InChain(u[i], n)
              /\ Len(s[u[i]]) = i
              /\ \A j \in 1..i : s[u[i]][j] = u[j]
      <4> TAKE i \in 1..Len(u)
      <4>1. i = 1 /\ u[i] = n /\ s[u[i]] = u
        BY <3>1, <3>2
      <4> QED
        BY <3>1, <3>2, <4>1
    <3>4. \A i, j \in 1..Len(u) : i < j => u[i] < u[j]
      BY <3>2
    <3>5. PathFact(s, n, u)
      BY <3>2, <3>3, <3>4 DEF PathFact
    <3> QED
      BY <3>1, <3>5
  <2> QED
    BY <1>2, <2>1, <2>2
<1>9. OldestInv
  BY DEF Init, OldestInv, NoNode
<1> QED
  BY <1>5, <1>6, <1>7, <1>8, <1>9 DEF PathInv

\* A step that mints no node changes no path ...
LEMMA PathFrame ==
    ASSUME PathInv, UNCHANGED node
    PROVE  PathInv' /\ PathTo' = PathTo
<1>1. \A f : IsPath(f)' <=> IsPath(f)
  BY DEF IsPath
<1>2. PathTo' = PathTo
  BY Zenon DEF PathTo
<1> PICK p : p = PathTo
  OBVIOUS
<1>3. PathFacts(p) => PathFacts(p)'
  <2>1. \A n, r : InChain(n, r) <=> InChain(n, r)'
    BY DEF InChain, ParentClosed, Holds
  <2> QED
    BY <2>1 DEF PathFacts, PathFact
<1> QED
  BY <1>1, <1>2, <1>3 DEF PathInv

\* ... and minting one adds its path and changes no other.
LEMMA PathMint ==
    ASSUME TypeOK, TypeOK', DiskInv, PathInv, NEW q, NEW h, Mints(q, h)
    PROVE  /\ PathInv'
           /\ \A n \in Roots : n <= minted => PathTo'[n] = PathTo[n]
<1> PICK p, m, r : p = PathTo /\ m = minted + 1 /\ r = root
  OBVIOUS
<1>1. /\ m \in Nodes /\ m \in Roots /\ r \in Roots /\ r < m /\ r # m /\ r \in Nat /\ m \in Nat
      /\ Roots = Nodes \cup {NoNode} /\ NoNode \notin Nodes
      /\ Nodes \subseteq Nat /\ Roots \subseteq Nat /\ minted \in Nat
  BY StoreAssumption DEF Mints, MintNode, TypeOK, DiskInv, Nodes, Roots, NoNode
<1>2. /\ node'[m].parent = r
      /\ \A n \in Nodes : n # m => node'[n] = node[n]
      /\ \A n \in Nodes : n # m => node[n].parent # m
      /\ node[m].parent = NoNode
      /\ \A n \in Nodes : node[n].parent \in Roots
  <2>1. /\ node'[m].parent = r
        /\ \A n \in Nodes : n # m => node'[n] = node[n]
    BY <1>1 DEF Mints, MintNode, TypeOK
  <2>2. node[m].parent = NoNode
    BY <1>1 DEF DiskInv, TypeOK, Blank
  <2>3. \A n \in Nodes : node[n].parent \in Roots
    BY DEF TypeOK, NodeRecord
  <2>4. ASSUME NEW n \in Nodes, n # m PROVE node[n].parent # m
    <3>1. CASE n > minted
      BY <1>1, <2>4, <3>1 DEF DiskInv, Blank
    <3>2. CASE ~(n > minted)
      BY <1>1, <3>2, StoreAssumption DEF DiskInv, TypeOK, Nodes, Roots
    <3> QED
      BY <3>1, <3>2
  <2> QED
    BY <2>1, <2>2, <2>3, <2>4
<1> PICK s : s = [n \in Roots |-> IF n = m THEN Append(p[r], m) ELSE p[n]]
  OBVIOUS
<1>3. /\ p = [n \in Roots |-> p[n]] /\ p[NoNode] = <<>>
      /\ \A n \in Nodes : p[n] = Append(p[node[n].parent], n)
  BY PathValues DEF PathInv
<1>4. /\ s = [n \in Roots |-> s[n]] /\ s[m] = Append(p[r], m)
      /\ \A n \in Roots : n # m => s[n] = p[n]
  BY <1>1
<1>5. IsPath(s)'
  <2>1. s[NoNode] = <<>>
    BY <1>1, <1>3, <1>4
  <2>2. \A n \in Nodes : s[n] = Append(s[node'[n].parent], n)
    <3> TAKE n \in Nodes
    <3>1. CASE n = m
      <4>1. s[r] = p[r]
        BY <1>1, <1>4
      <4> QED
        BY <1>2, <1>4, <3>1, <4>1
    <3>2. CASE n # m
      <4> PICK k \in Roots : k = node[n].parent
        BY <1>2
      <4>1. k # m /\ node'[n] = node[n]
        BY <1>2, <3>2
      <4>2. s[k] = p[k] /\ s[n] = p[n]
        BY <1>1, <1>4, <3>2, <4>1
      <4>3. p[n] = Append(p[k], n)
        BY <1>3
      <4> QED
        BY <4>1, <4>2, <4>3
    <3> QED
      BY <3>1, <3>2
  <2>3. \A n \in Roots :
            s[n] = IF n = NoNode THEN <<>> ELSE Append(s[node'[n].parent], n)
    BY <1>1, <2>1, <2>2
  <2> QED
    BY <1>4, <2>3 DEF IsPath
<1>6. ASSUME NEW f, IsPath(f)' PROVE f = s
  <2>1. /\ f = [n \in Roots |-> f[n]]
        /\ \A n \in Roots :
               f[n] = IF n = NoNode THEN <<>> ELSE Append(f[node'[n].parent], n)
    BY <1>6 DEF IsPath
  <2> PICK g : g = [n \in Roots |-> IF n = m THEN <<m>> ELSE f[n]]
    OBVIOUS
  <2>2. /\ g = [n \in Roots |-> g[n]] /\ g[m] = <<m>>
        /\ \A n \in Roots : n # m => g[n] = f[n]
    BY <1>1
  <2>3. g[NoNode] = <<>>
    BY <1>1, <2>1, <2>2
  <2>4. \A n \in Nodes : g[n] = Append(g[node[n].parent], n)
    <3> TAKE n \in Nodes
    <3>1. CASE n = m
      <4>1. Append(<<>>, m) = <<m>>
        BY <1>1
      <4> QED
        BY <1>2, <2>2, <2>3, <3>1, <4>1
    <3>2. CASE n # m
      <4> PICK k \in Roots : k = node[n].parent
        BY <1>2
      <4>1. k # m /\ node'[n] = node[n]
        BY <1>2, <3>2
      <4>2. g[k] = f[k] /\ g[n] = f[n]
        BY <1>1, <2>2, <3>2, <4>1
      <4>3. f[n] = Append(f[k], n)
        BY <1>1, <2>1, <4>1
      <4> QED
        BY <4>2, <4>3
    <3> QED
      BY <3>1, <3>2
  <2>5. IsPath(g)
    BY <2>2, <2>3, <2>4, PathValues
  <2>6. g = p
    BY <2>5 DEF PathInv
  <2>7. \A n \in Roots : n # m => f[n] = p[n]
    BY <2>2, <2>6
  <2>8. f[m] = Append(f[r], m)
    BY <1>1, <1>2, <2>1
  <2>9. \A n \in Roots : f[n] = s[n]
    <3>1. f[r] = p[r]
      BY <1>1, <2>7
    <3> QED
      BY <1>4, <2>7, <2>8, <3>1
  <2> QED
    BY <1>4, <2>1, <2>9
<1>7. PathTo' = s /\ IsPath(PathTo)'
  BY <1>5, <1>6, PathToNext
<1>8. PathFacts(s)'
  <2>1. PathFacts(p)
    BY DEF PathInv
  <2>2. \A n, k : InChain(k, n) => InChain(k, n)'
    BY ChainMint
  <2>3. InChain(m, m)' /\ (r = NoNode \/ InChain(r, m)')
    <3>1. \A A \in SUBSET Nodes : ParentClosed(A)' /\ m \in A => r \in A \cup {NoNode}
      BY <1>2 DEF ParentClosed
    <3> QED
      BY <1>1, <3>1 DEF InChain, Holds
  <2> SUFFICES ASSUME NEW n \in Roots PROVE PathFact(s, n, s[n])'
    BY DEF PathFacts
  <2>4. CASE n # m
    <3> PICK u : u = p[n]
      OBVIOUS
    <3>1. s[n] = u /\ PathFact(p, n, u)
      BY <1>4, <2>1, <2>4 DEF PathFacts
    <3>2. ASSUME NEW i \in 1..Len(u) PROVE u[i] \in Roots /\ u[i] # m
      <4>1. u[i] \in Nodes /\ u[i] <= n
        BY <3>1 DEF PathFact
      <4>2. CASE n < m
        BY <1>1, <4>1, <4>2
      <4>3. CASE ~(n < m)
        <5>1. n \in Nodes /\ n > minted
          <6>1. n \in Nat /\ n # NoNode
            BY <1>1, <4>3 DEF NoNode
          <6> QED
            BY <1>1, <2>4, <4>3, <6>1
        <5>2. node[n].parent = NoNode
          BY <5>1 DEF DiskInv, Blank
        <5>3. u = Append(<<>>, n)
          BY <1>3, <5>1, <5>2
        <5>4. u = <<n>>
          BY <5>1, <5>3
        <5>5. u[i] = n
          BY <5>4
        <5> QED
          BY <2>4, <5>5
      <4> QED
        BY <1>1, <4>1, <4>2, <4>3
    <3>3. ASSUME NEW i \in 1..Len(u)
          PROVE  /\ u[i] <= n
                 /\ InChain(u[i], n)'
                 /\ Len(s[u[i]]) = i
                 /\ \A j \in 1..i : s[u[i]][j] = u[j]
      <4>1. /\ u[i] <= n /\ InChain(u[i], n)
            /\ Len(p[u[i]]) = i /\ \A j \in 1..i : p[u[i]][j] = u[j]
        BY <3>1 DEF PathFact
      <4>2. s[u[i]] = p[u[i]]
        BY <1>4, <3>2
      <4>3. InChain(u[i], n)'
        BY <2>2, <4>1
      <4> QED
        BY <4>1, <4>2, <4>3
    <3>4. PathFact(s, n, u)'
      BY <3>1, <3>3 DEF PathFact
    <3> QED
      BY <3>1, <3>4
  <2>5. CASE n = m
    <3> PICK u, t, l : u = p[r] /\ t = Append(u, m) /\ l = Len(u)
      OBVIOUS
    <3>1. PathFact(p, r, u)
      BY <1>1, <2>1 DEF PathFacts
    <3>2. /\ u \in Seq(Nodes)
          /\ \A i \in 1..l :
                /\ u[i] <= r
                /\ InChain(u[i], r)
                /\ Len(p[u[i]]) = i
                /\ \A j \in 1..i : p[u[i]][j] = u[j]
          /\ \A i, j \in 1..l : i < j => u[i] < u[j]
      BY <3>1 DEF PathFact
    <3>3. /\ l \in Nat /\ t \in Seq(Nodes) /\ Len(t) = l + 1 /\ t[l + 1] = m
          /\ \A i \in 1..l : t[i] = u[i]
          /\ \A i \in 1..(l + 1) : i \in 1..l \/ i = l + 1
      <4>1. u \in Seq(Nodes) /\ m \in Nodes
        BY <1>1, <3>2, Zenon
      <4>2. /\ l \in Nat /\ t \in Seq(Nodes) /\ Len(t) = l + 1 /\ t[l + 1] = m
            /\ \A i \in 1..l : t[i] = u[i]
        BY <4>1
      <4>3. \A i \in 1..(l + 1) : i \in 1..l \/ i = l + 1
        BY <4>2
      <4> QED
        BY <4>2, <4>3
    <3>4. \A i \in 1..l : t[i] \in Nodes /\ t[i] \in Nat /\ t[i] <= r /\ t[i] < m
      <4> TAKE i \in 1..l
      <4>1. u[i] \in Nodes /\ u[i] <= r
        BY <3>2
      <4> QED
        BY <1>1, <3>3, <4>1
    <3>5. \A i \in 1..l : InChain(t[i], m)'
      <4> TAKE i \in 1..l
      <4>1. r # NoNode
        BY <1>3, <3>3
      <4>2. InChain(t[i], r)' /\ InChain(r, m)'
        BY <2>2, <2>3, <3>2, <3>3, <4>1
      <4> QED
        BY <4>1, <4>2 DEF InChain, Holds
    <3>6. s[m] = t
      BY <1>4
    <3>7. ASSUME NEW i \in 1..Len(t)
          PROVE  /\ t[i] <= m
                 /\ InChain(t[i], m)'
                 /\ Len(s[t[i]]) = i
                 /\ \A j \in 1..i : s[t[i]][j] = t[j]
      <4>1. CASE i \in 1..l
        <5>1. t[i] <= m /\ InChain(t[i], m)'
          BY <1>1, <3>4, <3>5, <4>1
        <5>2. s[t[i]] = p[u[i]] /\ Len(p[u[i]]) = i
          <6>1. t[i] = u[i] /\ t[i] \in Roots /\ t[i] # m
            BY <1>1, <3>3, <3>4, <4>1
          <6> QED
            BY <1>4, <3>2, <4>1, <6>1
        <5>3. \A j \in 1..i : p[u[i]][j] = u[j] /\ t[j] = u[j]
          <6>1. \A j \in 1..i : j \in 1..l
            BY <3>3, <4>1
          <6> QED
            BY <3>2, <3>3, <4>1, <6>1
        <5>4. Len(s[t[i]]) = i
          BY <5>2, Zenon
        <5>5. ASSUME NEW j \in 1..i PROVE s[t[i]][j] = t[j]
          <6>1. p[u[i]][j] = u[j] /\ t[j] = u[j]
            BY <5>3, Zenon
          <6> QED
            BY <5>2, <6>1, Zenon
        <5> QED
          BY <5>1, <5>4, <5>5, Zenon
      <4>2. CASE i = l + 1
        <5>1. t[i] = m /\ s[t[i]] = t /\ Len(t) = i
          BY <3>3, <3>6, <4>2
        <5>2. t[i] <= m
          BY <1>1, <5>1
        <5> QED
          BY <2>3, <5>1, <5>2, Zenon
      <4> QED
        BY <3>3, <4>1, <4>2
    <3>8. ASSUME NEW i \in 1..Len(t), NEW j \in 1..Len(t), i < j PROVE t[i] < t[j]
      <4>1. i \in 1..l
        BY <3>3, <3>8
      <4>2. CASE j \in 1..l
        BY <3>2, <3>3, <3>8, <4>1, <4>2
      <4>3. CASE j = l + 1
        BY <3>3, <3>4, <4>1, <4>3
      <4> QED
        BY <3>3, <4>2, <4>3
    <3>9. PathFact(s, m, t)'
      BY <3>3, <3>7, <3>8 DEF PathFact
    <3> QED
      BY <2>5, <3>6, <3>9
  <2> QED
    BY <2>4, <2>5
<1>9. \A n \in Roots : n <= minted => PathTo'[n] = PathTo[n]
  BY <1>1, <1>4, <1>7 DEF TypeOK
<1> QED
  BY <1>5, <1>6, <1>7, <1>8, <1>9 DEF PathInv

\* A path has every node of its chain.
LEMMA PathComplete ==
    ASSUME TypeOK, PathInv, NEW r \in Roots, NEW n, InChain(n, r)
    PROVE  \E i \in 1..Len(PathTo[r]) : PathTo[r][i] = n
<1> PICK p, u, A : p = PathTo /\ u = p[r] /\ A = {u[i] : i \in 1..Len(u)}
  OBVIOUS
<1>1. /\ p[NoNode] = <<>>
      /\ \A k \in Nodes : p[k] = Append(p[node[k].parent], k)
  BY PathValues DEF PathInv
<1>2. Roots = Nodes \cup {NoNode} /\ NoNode \notin Nodes
  BY StoreAssumption DEF Roots, Nodes, NoNode
<1>3. \A k \in Roots : PathFact(p, k, p[k])
  BY DEF PathInv, PathFacts
<1>4. \A k \in Roots : p[k] \in Seq(Nodes)
  BY <1>3 DEF PathFact
<1>5. \A k \in Nodes : /\ Len(p[k]) = Len(p[node[k].parent]) + 1
                       /\ Len(p[k]) \in Nat /\ Len(p[node[k].parent]) \in Nat
                       /\ p[k][Len(p[k])] = k
                       /\ \A j \in 1..Len(p[node[k].parent]) : p[k][j] = p[node[k].parent][j]
  <2> TAKE k \in Nodes
  <2> PICK v : v = p[node[k].parent]
    OBVIOUS
  <2>1. v \in Seq(Nodes) /\ p[k] = Append(v, k)
    <3>1. node[k].parent \in Roots
      BY DEF TypeOK, NodeRecord
    <3> QED
      BY <1>1, <1>4, <3>1
  <2> QED
    BY <2>1
<1>6. A \in SUBSET Nodes
  BY <1>4
<1>7. Holds(A, r)
  <2>1. CASE r = NoNode
    BY <2>1 DEF Holds
  <2>2. CASE r \in Nodes
    <3>1. Len(u) \in 1..Len(u) /\ u[Len(u)] = r
      BY <1>5, <2>2
    <3> QED
      BY <3>1 DEF Holds
  <2> QED
    BY <1>2, <2>1, <2>2
<1>8. ParentClosed(A)
  <2> SUFFICES ASSUME NEW k \in A PROVE node[k].parent \in A \cup {NoNode}
    BY DEF ParentClosed
  <2>1. PICK i \in 1..Len(u) : u[i] = k
    OBVIOUS
  <2>2. k \in Nodes /\ Len(p[k]) = i /\ \A j \in 1..i : p[k][j] = u[j]
    BY <1>3, <1>6, <2>1 DEF PathFact
  <2> PICK g \in Roots : g = node[k].parent
    BY <2>2 DEF TypeOK, NodeRecord
  <2>3. CASE g = NoNode
    BY <2>3
  <2>4. CASE g \in Nodes
    <3>1. Len(p[g]) = i - 1 /\ i - 1 \in 1..i /\ i - 1 \in 1..Len(u)
      <4>1. Len(p[g]) \in Nat /\ Len(p[g]) >= 1
        BY <1>5, <2>4
      <4>2. Len(u) \in Nat /\ i = Len(p[g]) + 1
        BY <1>4, <1>5, <2>2
      <4> QED
        BY <4>1, <4>2
    <3>2. p[g][i - 1] = g
      BY <1>5, <2>4, <3>1
    <3>3. p[k][i - 1] = p[g][i - 1]
      <4>1. i - 1 \in 1..Len(p[g])
        BY <2>1, <3>1
      <4> QED
        BY <1>5, <2>2, <4>1
    <3>4. u[i - 1] = g
      BY <2>2, <3>1, <3>2, <3>3
    <3> QED
      BY <3>1, <3>4
  <2> QED
    BY <1>2, <2>3, <2>4
<1>9. n \in A
  BY <1>6, <1>7, <1>8 DEF InChain
<1> QED
  BY <1>9

-----------------------------------------------------------------------------

\* The events of a chain are those of its path.
LEMMA ChainEvents ==
    ASSUME TypeOK, PathInv, NEW r \in Roots
    PROVE  /\ Chain(r) \in Seq([hash : Nodes, rid : RequestIDs \cup {Empty}])
           /\ Len(Chain(r)) = Len(PathTo[r])
           /\ Len(PathTo[r]) \in Nat
           /\ \A i \in 1..Len(PathTo[r]) :
                  /\ PathTo[r][i] \in Nodes
                  /\ Chain(r)[i] = EventOf(PathTo[r][i])
                  /\ Chain(r)[i].hash = PathTo[r][i]
                  /\ Chain(r)[i].rid = node[PathTo[r][i]].rid
<1> PICK u : u = PathTo[r]
  OBVIOUS
<1>1. u \in Seq(Nodes)
  BY DEF PathInv, PathFacts, PathFact
<1>2. \A i \in 1..Len(u) : u[i] \in Nodes /\ node[u[i]].rid \in RequestIDs \cup {Empty}
  BY <1>1 DEF TypeOK, NodeRecord
<1>3. Chain(r) = [i \in 1..Len(u) |-> [hash |-> u[i], rid |-> node[u[i]].rid]]
  BY DEF Chain, EventOf
<1> QED
  BY <1>1, <1>2, <1>3 DEF EventOf

\* A chain grows by the event of the node on top of it.
LEMMA ChainGrows ==
    ASSUME TypeOK, PathInv, NEW n \in Nodes, NEW g, g = node[n].parent
    PROVE  /\ Chain(n) = Append(Chain(g), EventOf(n))
           /\ Chain(n) # <<>>
           /\ Chain(n)[Len(Chain(n))].hash = n
<1>1. g \in Roots /\ n \in Roots
  BY StoreAssumption DEF TypeOK, NodeRecord, Nodes, Roots
<1> PICK u, v, c, d : u = PathTo[g] /\ v = PathTo[n] /\ c = Chain(g) /\ d = Chain(n)
  OBVIOUS
<1>2. u \in Seq(Nodes) /\ v = Append(u, n)
  <2>1. v = Append(u, n)
    BY PathValues DEF PathInv
  <2>2. u \in Seq(Nodes)
    BY <1>1 DEF PathInv, PathFacts, PathFact
  <2> QED
    BY <2>1, <2>2
<1>3. /\ c \in Seq([hash : Nodes, rid : RequestIDs \cup {Empty}])
      /\ Len(c) = Len(u)
      /\ \A i \in 1..Len(u) : c[i] = EventOf(u[i])
  BY <1>1, ChainEvents
<1>4. /\ d \in Seq([hash : Nodes, rid : RequestIDs \cup {Empty}])
      /\ Len(d) = Len(v)
      /\ \A i \in 1..Len(v) : d[i] = EventOf(v[i])
  BY <1>1, ChainEvents
<1>5. /\ Len(v) = Len(u) + 1 /\ Len(u) \in Nat /\ v[Len(u) + 1] = n
      /\ \A i \in 1..Len(u) : v[i] = u[i]
  BY <1>2
<1> PICK e : e = EventOf(n)
  OBVIOUS
<1>6. e \in [hash : Nodes, rid : RequestIDs \cup {Empty}] /\ e.hash = n
  BY DEF EventOf, TypeOK, NodeRecord
<1>7. d[Len(u) + 1] = e /\ \A i \in 1..Len(u) : d[i] = c[i]
  <2>1. Len(u) + 1 \in 1..Len(v) /\ \A i \in 1..Len(u) : i \in 1..Len(v)
    BY <1>5
  <2>2. \A i \in 1..Len(v) : d[i] = EventOf(v[i])
    BY <1>4, Zenon
  <2>3. d[Len(u) + 1] = e
    BY <1>5, <2>1, <2>2, Zenon
  <2>4. ASSUME NEW i \in 1..Len(u) PROVE d[i] = c[i]
    <3>1. d[i] = EventOf(v[i]) /\ v[i] = u[i] /\ c[i] = EventOf(u[i])
      BY <1>3, <1>5, <2>1, <2>2, Zenon
    <3> QED
      BY <3>1, Zenon
  <2> QED
    BY <2>3, <2>4
<1>8. d = Append(c, e)
  BY <1>3, <1>4, <1>5, <1>6, <1>7, SMTT(30)
<1>9. d # <<>> /\ d[Len(d)] = e
  BY <1>4, <1>5, <1>7
<1> QED
  BY <1>6, <1>8, <1>9

\* The chain of a node that is in another chain is the beginning of that.
LEMMA ChainBegins ==
    ASSUME TypeOK, PathInv, NEW r \in Roots, NEW n \in Roots,
           n = NoNode \/ InChain(n, r)
    PROVE  /\ Len(Chain(n)) \in 0..Len(Chain(r))
           /\ Chain(n) = SubSeq(Chain(r), 1, Len(Chain(n)))
<1> PICK p, u, v, c, d :
         p = PathTo /\ u = p[r] /\ v = p[n] /\ c = Chain(r) /\ d = Chain(n)
  OBVIOUS
<1>1. /\ c \in Seq([hash : Nodes, rid : RequestIDs \cup {Empty}])
      /\ Len(c) = Len(u) /\ Len(u) \in Nat
      /\ \A i \in 1..Len(u) : c[i] = EventOf(u[i])
  BY ChainEvents
<1>2. /\ d \in Seq([hash : Nodes, rid : RequestIDs \cup {Empty}])
      /\ Len(d) = Len(v) /\ Len(v) \in Nat
      /\ \A i \in 1..Len(v) : d[i] = EventOf(v[i])
  BY ChainEvents
<1>3. Len(v) \in 0..Len(u) /\ \A j \in 1..Len(v) : v[j] = u[j]
  <2>1. CASE n = NoNode
    <3>1. v = <<>>
      BY <2>1, PathValues DEF PathInv
    <3> QED
      BY <1>1, <3>1
  <2>2. CASE InChain(n, r)
    <3>1. PICK i \in 1..Len(u) : u[i] = n
      BY <2>2, PathComplete
    <3>2. Len(v) = i /\ \A j \in 1..i : v[j] = u[j]
      BY <3>1 DEF PathInv, PathFacts, PathFact
    <3> QED
      BY <1>1, <3>2
  <2> QED
    BY <2>1, <2>2
<1>4. \A j \in 1..Len(d) : d[j] = c[j]
  BY <1>1, <1>2, <1>3
<1>5. Len(d) \in 0..Len(c)
  BY <1>1, <1>2, <1>3
<1>6. SubSeq(c, 1, Len(d)) = d
  BY <1>1, <1>2, <1>4, <1>5
<1> QED
  BY <1>5, <1>6

\* Of two nodes of a chain, the older one has the shorter chain.
LEMMA OlderIsShorter ==
    ASSUME TypeOK, PathInv, NEW r \in Roots, NEW m \in Roots, NEW n \in Roots,
           m = NoNode \/ InChain(m, r), n = NoNode \/ InChain(n, r), m <= n
    PROVE  Len(Chain(m)) <= Len(Chain(n))
<1> PICK p, u : p = PathTo /\ u = p[r]
  OBVIOUS
<1>1. /\ Len(Chain(m)) = Len(p[m]) /\ Len(p[m]) \in Nat
      /\ Len(Chain(n)) = Len(p[n]) /\ Len(p[n]) \in Nat
  BY ChainEvents
<1>2. CASE m = NoNode
  <2>1. p[m] = <<>>
    BY <1>2, PathValues DEF PathInv
  <2> QED
    BY <1>1, <2>1
<1>3. CASE m # NoNode
  <2>1. n # NoNode
    BY <1>3, StoreAssumption DEF Roots, NoNode
  <2>2. PICK i \in 1..Len(u) : u[i] = m
    BY <1>3, PathComplete
  <2>3. PICK j \in 1..Len(u) : u[j] = n
    BY <2>1, PathComplete
  <2>4. Len(p[m]) = i /\ Len(p[n]) = j
    BY <2>2, <2>3 DEF PathInv, PathFacts, PathFact
  <2>5. j < i => n < m
    BY <2>2, <2>3 DEF PathInv, PathFacts, PathFact
  <2>6. ~(n < m)
    BY StoreAssumption DEF Roots
  <2> QED
    BY <1>1, <2>4, <2>5, <2>6
<1> QED
  BY <1>2, <1>3

\* No step changes the chain of a node that has been minted.
LEMMA ChainKeeps ==
    ASSUME TypeOK, PathInv, NEW r \in Roots, PathTo'[r] = PathTo[r],
           \A n \in Nodes : n <= r => node'[n] = node[n]
    PROVE  Chain(r)' = Chain(r)
<1> PICK u : u = PathTo[r]
  OBVIOUS
<1>1. u \in Seq(Nodes) /\ \A i \in 1..Len(u) : u[i] <= r
  BY DEF PathInv, PathFacts, PathFact
<1>2. \A i \in 1..Len(u) : node'[u[i]] = node[u[i]]
  BY <1>1
<1>3. Chain(r) = [i \in 1..Len(u) |-> [hash |-> u[i], rid |-> node[u[i]].rid]]
  BY DEF Chain, EventOf
<1>4. Chain(r)' = [i \in 1..Len(u) |-> [hash |-> u[i], rid |-> node'[u[i]].rid]]
  BY DEF Chain, EventOf
<1> QED
  BY <1>2, <1>3, <1>4

\* What Min finds.
LEMMA MinIs ==
    ASSUME NEW S \in SUBSET Nat, NEW x \in S, \A y \in S : x <= y
    PROVE  Min(S) = x
<1>1. Min(S) \in S /\ \A y \in S : Min(S) <= y
  BY Zenon DEF Min
<1> PICK z : z = Min(S)
  OBVIOUS
<1>2. z \in Nat /\ x \in Nat /\ z <= x /\ x <= z
  BY <1>1
<1> QED
  BY <1>2

\* The oldest root that may survive, and what is settled below it.
LEMMA OldestSurvivor ==
    ASSUME TypeOK, StoreInv, OldestInv
    PROVE  \E x \in Roots :
               /\ x = Min(rootSurvivors)
               /\ x \in rootSurvivors
               /\ \A y \in rootSurvivors : x <= y
               /\ x = NoNode \/ InChain(x, root)
<1>1. rootSurvivors \in SUBSET Nat
  BY StoreAssumption DEF TypeOK, Roots
<1>2. PICK x \in rootSurvivors : \A y \in rootSurvivors : x <= y
  BY DEF OldestInv
<1>3. x = Min(rootSurvivors)
  BY <1>1, <1>2, MinIs
<1>4. x \in Roots
  BY DEF TypeOK
<1> QED
  BY <1>2, <1>3, <1>4 DEF StoreInv, DurabilityInv, SurvivorInv

\* Every step leaves an oldest root.
LEMMA OldestStep ==
    ASSUME TypeOK, TypeOK', StoreInv, OldestInv, [Next]_vars
    PROVE  OldestInv'
<1>1. CASE UNCHANGED rootSurvivors
  BY <1>1 DEF OldestInv
<1>2. CASE RenameRoot
  <2>1. /\ root \in rootSurvivors /\ node[pending].parent = root
        /\ pending \in Nodes /\ node[pending].parent < pending
    BY <1>2 DEF RenameRoot, StoreInv, DurabilityInv, PendingInv, DiskInv, Appending, TypeOK
  <2>2. rootSurvivors \subseteq Nat /\ pending \in Nat
    BY <2>1, StoreAssumption DEF TypeOK, Roots, Nodes
  <2>3. PICK x \in rootSurvivors : \A y \in rootSurvivors : x <= y
    BY DEF OldestInv
  <2>4. x <= root /\ root < pending
    BY <2>1, <2>3
  <2>5. x <= pending
    BY <2>1, <2>2, <2>4
  <2> QED
    BY <1>2, <2>3, <2>5 DEF RenameRoot, OldestInv
<1>3. ASSUME NEW r, r \in Nat, rootSurvivors' = {r} PROVE OldestInv'
  BY <1>3 DEF OldestInv
<1>4. CASE SyncRefsDir
  <2>1. root \in Nat
    BY StoreAssumption DEF TypeOK, Roots
  <2> PICK r : r = root
    OBVIOUS
  <2> QED
    BY <1>3, <1>4, <2>1 DEF SyncRefsDir
<1>5. CASE PowerLoss
  <2>1. PICK r \in rootSurvivors : rootSurvivors' = {r}
    BY <1>5 DEF PowerLoss
  <2>2. r \in Nat
    BY StoreAssumption DEF TypeOK, Roots
  <2> QED
    BY <1>3, <2>1, <2>2
<1> QED
  BY <1>1, <1>2, <1>4, <1>5, StepCases
     DEF vars, disk, AnswersAtOnce, Mints, MintNode, OpenStore, WalkStep, RebuildIndexes,
         OpenFails, Close, LinkNode, SyncNodesDir, AppendIOError, ProcessCrash

\* Every step keeps the paths.
LEMMA PathStep ==
    ASSUME TypeOK, TypeOK', StoreInv, PathInv, [Next]_vars
    PROVE  PathInv'
<1>1. CASE UNCHANGED node
  BY <1>1, PathFrame
<1>2. ASSUME NEW q, NEW h, Mints(q, h) PROVE PathInv'
  BY <1>2, PathMint DEF StoreInv, DurabilityInv
<1> QED
  BY <1>1, <1>2, StepCases
     DEF vars, disk, AnswersAtOnce, OpenStore, WalkStep, RebuildIndexes, OpenFails, Close,
         LinkNode, SyncNodesDir, RenameRoot, SyncRefsDir, AppendIOError, ProcessCrash, PowerLoss

\* The variables of the log stay when the chains, the roots and the answers do.
LEMMA LogStays ==
    ASSUME TypeOK, StoreInv, PathInv, OldestInv,
           UNCHANGED <<root, rootSurvivors, acks>>,
           \A r \in Roots : r \in rootSurvivors => Chain(r)' = Chain(r)
    PROVE  UNCHANGED Log!logVars
<1>1. PICK x \in Roots : x = Min(rootSurvivors) /\ x \in rootSurvivors
  BY OldestSurvivor
<1>2. Min(rootSurvivors)' = x
  BY <1>1
<1>3. Len(Chain(Min(rootSurvivors)))' = Len(Chain(Min(rootSurvivors)))
  <2>1. Chain(x)' = Chain(x)
    BY <1>1
  <2>2. Chain(Min(rootSurvivors)) = Chain(x)
    BY <1>1
  <2>3. Chain(Min(rootSurvivors))' = Chain(x)'
    BY <1>2 DEF Chain
  <2> QED
    BY <2>1, <2>2, <2>3
<1>4. Chain(root)' = Chain(root)
  <2>1. PICK r \in Roots : r = root /\ r \in rootSurvivors
    BY DEF TypeOK, StoreInv, DurabilityInv, DiskInv
  <2>2. Chain(r)' = Chain(r)
    BY <2>1
  <2>3. Chain(root)' = Chain(r)'
    BY <2>1 DEF Chain
  <2> QED
    BY <2>1, <2>2, <2>3
<1> QED
  BY <1>3, <1>4 DEF Log!logVars

\* The rename of refs/root commits the pending event: it is on top of the log
\* and new to it.
LEMMA RenameCommits ==
    ASSUME TypeOK, StoreInv, PathInv, OldestInv, RenameRoot
    PROVE  \E e \in [hash : Nodes, rid : RequestIDs \cup {Empty}] : Log!Commit(e)
<1> PICK n, r, x : n = pending /\ r = root /\ x = Min(rootSurvivors)
  OBVIOUS
<1>1. /\ n \in Nodes /\ r \in Roots /\ node[n].parent = r /\ r = IndexedRoot
      /\ r < n /\ r \in rootSurvivors /\ n \in Nat /\ r \in Nat
      /\ rootSurvivors \subseteq Nat
  <2>1. /\ n \in Nodes /\ r \in Roots /\ node[n].parent = r /\ r = IndexedRoot
        /\ node[n].parent < n /\ r \in rootSurvivors
    BY DEF RenameRoot, StoreInv, DurabilityInv, PendingInv, DiskInv, Appending, TypeOK
  <2> QED
    BY <2>1, StoreAssumption DEF Roots, Nodes, TypeOK
<1>2. /\ x \in rootSurvivors /\ x \in Roots
      /\ \A y \in rootSurvivors : x <= y
  BY OldestSurvivor
<1>3. PathTo' = PathTo /\ UNCHANGED <<node, acks>> /\ root' = n
      /\ rootSurvivors' = rootSurvivors \cup {n}
  BY PathFrame DEF RenameRoot
<1>4. \A y : Chain(y)' = Chain(y)
  BY <1>3 DEF Chain, EventOf
<1>5. Chain(n) = Append(Chain(r), EventOf(n))
  BY <1>1, ChainGrows
<1> PICK e, c : e = EventOf(n) /\ c = Chain(r)
  OBVIOUS
<1>6. e \in [hash : Nodes, rid : RequestIDs \cup {Empty}] /\ e.hash = n /\ e.rid = node[n].rid
  BY <1>1 DEF EventOf, TypeOK, NodeRecord
<1>7. \A i \in 1..Len(c) : /\ c[i].hash \in Nodes /\ c[i].hash <= r
                           /\ c[i].rid = node[c[i].hash].rid
                           /\ InChain(c[i].hash, r)
  <2> TAKE i \in 1..Len(c)
  <2>1. /\ i \in 1..Len(PathTo[r]) /\ c[i].hash = PathTo[r][i]
        /\ c[i].rid = node[PathTo[r][i]].rid /\ PathTo[r][i] \in Nodes
    BY <1>1, ChainEvents
  <2>2. PathTo[r][i] <= r /\ InChain(PathTo[r][i], r)
    BY <1>1, <2>1 DEF PathInv, PathFacts, PathFact
  <2> QED
    BY <2>1, <2>2
<1>8. ~Log!Logged(e.hash)
  <2>1. \A i \in 1..Len(c) : c[i].hash # n
    <3> TAKE i \in 1..Len(c)
    <3> PICK k \in Nat : k = c[i].hash
      BY <1>7, StoreAssumption DEF Nodes
    <3>1. k <= r
      BY <1>7
    <3> QED
      BY <1>1, <3>1
  <2> QED
    BY <1>6, <2>1 DEF Log!Logged
<1>9. e.rid \in Shareable \/ ~Log!Requested(e.rid)
  <2> SUFFICES ASSUME e.rid \notin Shareable, NEW i \in 1..Len(c), c[i].rid = e.rid
               PROVE  FALSE
    BY DEF Log!Requested
  <2> PICK k : k = c[i].hash
    OBVIOUS
  <2>1. InChain(k, r) /\ node[k].rid = node[n].rid
    BY <1>6, <1>7
  <2>2. pc \in Appending
    BY DEF RenameRoot, Appending
  <2>3. k \in Indexed
    <3>1. ParentClosed(Indexed) /\ Holds(Indexed, r)
      BY <1>1, <2>2, IndexedClosed, IndexedRootIndexed DEF StoreInv, HistoryInv
    <3>2. Indexed \in SUBSET Nodes
      BY <2>2 DEF StoreInv, HistoryInv, IndexInv, TypeOK
    <3> QED
      BY <2>1, <3>1, <3>2 DEF InChain
  <2>4. node[n].rid \notin Shareable /\ node[n].rid # Empty
    BY <1>6 DEF Shareable
  <2>5. requestIndex[node[k].rid] # NoNode
    BY <2>1, <2>2, <2>3, <2>4 DEF StoreInv, HistoryInv, IndexInv
  <2> QED
    BY <2>1, <2>2, <2>4, <2>5 DEF StoreInv, HistoryInv, PendingRequestInv
<1>10. Chain(root)' = Append(Chain(root), e)
  <2>1. Chain(root)' = Chain(n)'
    BY <1>3 DEF Chain
  <2> QED
    BY <1>4, <1>5, <2>1
<1>11. Min(rootSurvivors)' = x
  <2> PICK S : S = rootSurvivors \cup {n}
    OBVIOUS
  <2>1. S \in SUBSET Nat /\ x \in S
    BY <1>1, <1>2
  <2>2. \A y \in S : x <= y
    <3>1. x <= r /\ x \in Nat
      BY <1>1, <1>2
    <3>2. x <= n
      BY <1>1, <3>1
    <3> QED
      BY <1>2, <3>2
  <2>3. Min(S) = x
    BY <2>1, <2>2, MinIs
  <2> QED
    BY <1>3, <2>3
<1>12. Len(Chain(Min(rootSurvivors)))' = Len(Chain(Min(rootSurvivors)))
  <2>1. Chain(Min(rootSurvivors))' = Chain(x)'
    BY <1>11 DEF Chain
  <2> QED
    BY <1>4, <2>1
<1>13. Log!Commit(e)
  BY <1>3, <1>8, <1>9, <1>10, <1>12 DEF Log!Commit
<1> QED
  BY <1>6, <1>13

\* The sync of refs/ settles the whole log and confirms its last event.
LEMMA SyncSettles ==
    ASSUME TypeOK, StoreInv, PathInv, SyncRefsDir
    PROVE  Log!Settle
<1> PICK n, c : n = pending /\ c = Chain(root)
  OBVIOUS
<1>1. n \in Nodes /\ n = root /\ n \in Roots /\ n \in Nat
  <2>1. n \in Nodes /\ n = root
    BY DEF SyncRefsDir, StoreInv, DurabilityInv, PendingInv, Appending, TypeOK
  <2> QED
    BY <2>1, StoreAssumption DEF Roots, Nodes
<1>2. PathTo' = PathTo /\ UNCHANGED <<node, root>> /\ rootSurvivors' = {n}
  BY <1>1, PathFrame DEF SyncRefsDir
<1>3. c # <<>> /\ c[Len(c)].hash = n
  <2> PICK g : g = node[n].parent
    OBVIOUS
  <2> QED
    BY <1>1, ChainGrows
<1>4. Chain(root)' = c
  BY <1>2 DEF Chain, EventOf
<1>5. Len(Chain(Min(rootSurvivors)))' = Len(c)
  <2>1. Min({n}) = n
    BY <1>1, MinIs
  <2>2. Min(rootSurvivors)' = n
    BY <1>2, <2>1
  <2>3. Chain(Min(rootSurvivors))' = Chain(root)'
    BY <1>1, <1>2, <2>2 DEF Chain
  <2> QED
    BY <1>4, <2>3
<1> PICK a : a = [rid |-> node[n].rid, rhash |-> node[n].rhash, node |-> n, fresh |-> TRUE]
  OBVIOUS
<1>6. acks' = acks \cup {a} /\ a.node = n /\ a.fresh = TRUE
  BY DEF SyncRefsDir, AckPending
<1>7. {b.node : b \in {b \in acks : b.fresh}}' = {b.node : b \in {b \in acks : b.fresh}} \cup {n}
  BY <1>6
<1>8. {b.node : b \in {b \in acks : ~b.fresh}}' = {b.node : b \in {b \in acks : ~b.fresh}}
  BY <1>6
<1> QED
  BY <1>3, <1>4, <1>5, <1>7, <1>8 DEF Log!Settle

\* A replay answers an event of the log.
LEMMA ReplayAnswers ==
    ASSUME TypeOK, StoreInv, PathInv, OldestInv, AnswersAtOnce, acks' # acks
    PROVE  Log!ReplayAnswer
<1>1. PICK q \in RequestIDs, h \in RequestHashes :
          /\ pc = "open" /\ requestIndex[q] # NoNode
          /\ acks' = acks \cup {[rid |-> q, rhash |-> h, node |-> requestIndex[q],
                                 fresh |-> FALSE]}
  BY DEF AnswersAtOnce
<1> PICK n, r, c : n = requestIndex[q] /\ r = root /\ c = Chain(root)
  OBVIOUS
<1>2. r \in Roots /\ UNCHANGED <<node, root, rootSurvivors>> /\ PathTo' = PathTo
  BY PathFrame DEF AnswersAtOnce, disk, TypeOK
<1>3. InChain(n, r)
  <2>1. PICK i \in 1..Len(history) : history[i] = n
    BY <1>1 DEF StoreInv, HistoryInv, IndexInv, Indexed
  <2>2. history \in Seq(Nodes) /\ history # <<>>
    BY <2>1 DEF TypeOK
  <2> PICK l, t : l = Len(history) /\ t = history[l]
    OBVIOUS
  <2>3. l \in 1..Len(history) /\ t \in Nodes /\ t = IndexedRoot
    BY <2>2 DEF IndexedRoot
  <2>4. InChain(n, t)
    <3>1. CASE i = l
      BY <2>1, <2>3, <3>1, ChainParent
    <3>2. CASE i # l
      <4>1. i < l
        BY <2>2, <3>2
      <4> QED
        BY <1>1, <2>1, <2>3, <4>1 DEF StoreInv, HistoryInv, IndexInv
    <3> QED
      BY <3>1, <3>2
  <2>5. CASE r = t
    BY <2>4, <2>5
  <2>6. CASE r # t
    <3>1. r \in durable /\ node[r].parent = t
      BY <1>1, <2>3, <2>6 DEF StoreInv, HistoryInv, TipInv
    <3>2. r \in Nodes /\ t # NoNode
      BY <2>3, <3>1 DEF TypeOK, Nodes, NoNode
    <3>3. InChain(t, r)
      BY <3>1, <3>2, ChainParent
    <3> QED
      BY <2>4, <3>3, ChainTransitive
  <2> QED
    BY <2>5, <2>6
<1>4. PICK i \in 1..Len(PathTo[r]) : PathTo[r][i] = n
  BY <1>2, <1>3, PathComplete
<1>5. i \in 1..Len(c) /\ c[i].hash = n
  BY <1>2, <1>4, ChainEvents
<1> PICK a : a = [rid |-> q, rhash |-> h, node |-> n, fresh |-> FALSE]
  OBVIOUS
<1>6. acks' = acks \cup {a} /\ a.node = n /\ a.fresh = FALSE
  BY <1>1
<1>7. {b.node : b \in {b \in acks : ~b.fresh}}' = {b.node : b \in {b \in acks : ~b.fresh}} \cup {n}
  BY <1>6
<1>8. {b.node : b \in {b \in acks : b.fresh}}' = {b.node : b \in {b \in acks : b.fresh}}
  BY <1>6
<1>9. \A y : Chain(y)' = Chain(y)
  BY <1>2 DEF Chain, EventOf
<1>10. Chain(root)' = Chain(root)
       /\ Len(Chain(Min(rootSurvivors)))' = Len(Chain(Min(rootSurvivors)))
  BY <1>2, <1>9 DEF Chain, EventOf
<1> QED
  BY <1>5, <1>7, <1>8, <1>10 DEF Log!ReplayAnswer

\* A power loss takes an unsettled end of the log away.
LEMMA LossLosesTail ==
    ASSUME TypeOK, StoreInv, PathInv, OldestInv, PowerLoss
    PROVE  Log!LoseTail
<1>1. PICK r \in rootSurvivors : root' = r /\ rootSurvivors' = {r}
  BY DEF PowerLoss
<1> PICK t, c, d : t = root /\ c = Chain(root) /\ d = Chain(r)
  OBVIOUS
<1>2. /\ r \in Roots /\ t \in Roots /\ r \in Nat
      /\ r = NoNode \/ InChain(r, t)
  BY StoreAssumption DEF TypeOK, StoreInv, DurabilityInv, SurvivorInv, Roots
<1>3. PICK x \in Roots : /\ x = Min(rootSurvivors)
                         /\ \A y \in rootSurvivors : x <= y
                         /\ x = NoNode \/ InChain(x, t)
  BY OldestSurvivor
<1>4. Len(d) \in 0..Len(c) /\ d = SubSeq(c, 1, Len(d))
  BY <1>2, ChainBegins
<1>5. Len(Chain(x)) <= Len(d)
  BY <1>2, <1>3, OlderIsShorter
<1>6. Len(Chain(x)) \in Nat /\ Len(c) \in Nat
  BY <1>2, <1>3, ChainEvents
<1>7. Len(d) \in Len(Chain(Min(rootSurvivors)))..Len(c)
  BY <1>3, <1>4, <1>5, <1>6
<1>8. \A y : Chain(y)' = Chain(y)
  BY PathFrame DEF PowerLoss, Chain, EventOf
<1>9. Chain(root)' = d
  <2>1. Chain(root)' = Chain(r)'
    BY <1>1 DEF Chain
  <2> QED
    BY <1>8, <2>1
<1>10. Len(Chain(Min(rootSurvivors)))' = Len(d)
  <2>1. Min({r}) = r
    BY <1>2, MinIs
  <2>2. Min(rootSurvivors)' = r
    BY <1>1, <2>1
  <2>3. Chain(Min(rootSurvivors))' = Chain(r)'
    BY <2>2 DEF Chain
  <2> QED
    BY <1>8, <2>3
<1>11. UNCHANGED acks
  BY DEF PowerLoss
<1> QED
  BY <1>4, <1>7, <1>9, <1>10, <1>11 DEF Log!LoseTail

\* Every step of the store is a step of the log or none.
LEMMA LogStep ==
    ASSUME TypeOK, TypeOK', StoreInv, PathInv, OldestInv, [Next]_vars
    PROVE  [Log!LogNext]_(Log!logVars)
<1>1. ASSUME UNCHANGED <<node, root, rootSurvivors, acks>>
      PROVE  UNCHANGED Log!logVars
  <2>1. \A r : Chain(r)' = Chain(r)
    BY <1>1, PathFrame DEF Chain, EventOf
  <2> QED
    BY <1>1, <2>1, LogStays
<1>2. ASSUME NEW q, NEW h, Mints(q, h) PROVE UNCHANGED Log!logVars
  <2>1. \A r \in Roots : r <= minted => PathTo'[r] = PathTo[r]
    BY <1>2, PathMint DEF StoreInv, DurabilityInv
  <2>2. UNCHANGED <<root, rootSurvivors, acks>>
    BY <1>2 DEF Mints, MintNode
  <2>3. \A n \in 1..minted : node'[n] = node[n]
    BY StepFrame DEF StoreInv, DurabilityInv
  <2>4. ASSUME NEW r \in Roots, r \in rootSurvivors PROVE Chain(r)' = Chain(r)
    <3>1. r <= minted /\ minted \in Nat
      BY <2>4, StoreAssumption DEF StoreInv, DurabilityInv, DiskInv, TypeOK, NoNode
    <3>2. \A n \in Nodes : n <= r => n \in 1..minted
      BY <3>1, StoreAssumption DEF Nodes, Roots
    <3> QED
      BY <2>1, <2>3, <3>1, <3>2, ChainKeeps
  <2> QED
    BY <2>2, <2>4, LogStays
<1>3. CASE RenameRoot
  BY <1>3, RenameCommits DEF Log!LogNext
<1>4. CASE SyncRefsDir
  BY <1>4, SyncSettles DEF Log!LogNext
<1>5. CASE AnswersAtOnce
  <2>1. CASE acks' = acks
    BY <1>1, <1>5, <2>1 DEF AnswersAtOnce, disk
  <2>2. CASE acks' # acks
    BY <1>5, <2>2, ReplayAnswers DEF Log!LogNext
  <2> QED
    BY <2>1, <2>2
<1>6. CASE PowerLoss
  BY <1>6, LossLosesTail DEF Log!LogNext
<1> QED
  BY <1>1, <1>2, <1>3, <1>4, <1>5, <1>6, StepCases
     DEF vars, disk, OpenStore, WalkStep, RebuildIndexes, OpenFails, Close,
         LinkNode, SyncNodesDir, AppendIOError, ProcessCrash

LEMMA LogInitial == Init => Log!LogInit
<1> SUFFICES ASSUME Init PROVE Log!LogInit
  OBVIOUS
<1>1. TypeOK /\ PathInv
  BY TypeInit, PathInit
<1>2. PathTo[NoNode] = <<>>
  BY <1>1, PathValues DEF PathInv
<1>3. Chain(NoNode) = <<>>
  BY <1>2 DEF Chain
<1>4. Min({NoNode}) = NoNode
  BY MinIs DEF NoNode
<1>5. root = NoNode /\ rootSurvivors = {NoNode} /\ acks = {}
  BY DEF Init
<1> QED
  BY <1>3, <1>4, <1>5 DEF Log!LogInit

\* The store implements the log of EventLog: refs/root makes the history grow
\* by one event at its end, a request that is left to AppendIdempotent is taken once,
\* and no crash, error or power loss takes more away than an end that no append has
\* confirmed.
THEOREM StoreImplementsLog == Spec => LogRefinement
<1>1. Init => PathInv /\ OldestInv
  BY PathInit
<1>2. ASSUME TypeOK, TypeOK', StoreInv, PathInv /\ OldestInv, [Next]_vars
      PROVE  (PathInv /\ OldestInv)'
  BY <1>2, PathStep, OldestStep
<1>3. TypeOK /\ TypeOK' /\ StoreInv /\ PathInv /\ OldestInv /\ [Next]_vars
          => [Log!LogNext]_(Log!logVars)
  BY LogStep
<1> QED
  BY <1>1, <1>2, <1>3, LogInitial, TypeCorrect, StoreInvariance, PTL
     DEF Spec, LogRefinement, Log!LogSpec

=============================================================================
