----------------------------- MODULE ServeProofs ----------------------------
(***************************************************************************)
(* Proofs about the life of server processes: who owns the volume, and that *)
(* the history is linear and every key has one node as long as no handler   *)
(* outlives its store.                                                      *)
(***************************************************************************)
EXTENDS ServeLifecycle, TLAPS

NodeRecord ==
    [parent : Nat, key : Keys \cup {Nobody}, by : Procs \cup {Nobody}, chain : SUBSET Nat]

HandlerRecord ==
    [place : Places, proc : Procs \cup {Nobody}, key : Keys \cup {Nobody},
     expected : Nat, node : Nat]

\* Every variable keeps its type.
LifeType ==
    /\ kernel \in BOOLEAN
    /\ phase \in [Procs -> Phases]
    /\ owner \in Procs \cup {Nobody}
    /\ node \in [1..MaxNodes -> NodeRecord]
    /\ minted \in 0..MaxNodes
    /\ root \in Nat
    /\ index \in [Procs -> Nat]
    /\ mutex \in [Procs -> Handlers \cup {Nobody}]
    /\ handler \in [Handlers -> HandlerRecord]
    /\ answered \in [Keys -> SUBSET Nat]
    /\ late \in BOOLEAN

\* The chain of a node is that of its parent and the node, and no key comes
\* twice in it; the root and the indexes name nodes, or none.
NodeInv ==
    /\ root \in 0..minted
    /\ \A p \in Procs : index[p] \in 0..minted
    /\ \A n \in 1..minted :
          /\ node[n].parent \in 0..minted
          /\ node[n].chain = Chain(node[n].parent) \cup {n}
          /\ node[n].chain \subseteq 1..minted
          /\ \A a, b \in node[n].chain : node[a].key = node[b].key => a = b

\* A handler runs in a process that is there, and one that has made its node
\* holds the mutex of its process.
HandlerInv ==
    \A h \in Handlers :
        /\ handler[h].place \in Busy =>
               /\ handler[h].proc \in Procs
               /\ phase[handler[h].proc] # "down"
               /\ handler[h].key \in Keys
        /\ handler[h].place \in {"minted", "renamed"} =>
               /\ mutex[handler[h].proc] = h
               /\ handler[h].node \in 1..minted
               /\ node[handler[h].node].key = handler[h].key
               /\ node[handler[h].node].by = handler[h].proc

Active == {"serving", "draining"}

\* As long as no handler has used a closed store: the process that has the
\* volume has the root indexed, or is behind by a node of its own; an append that
\* is under way is one of that process and extends the root that it has indexed; and
\* what was answered is in the history.
LinearInv ==
    ~late =>
        /\ \A p \in Procs : phase[p] \in Active => index[p] = root \/ BehindByOwn(p)
        /\ \A h \in Handlers :
               /\ handler[h].place \in {"minted", "renamed"} =>
                      /\ phase[handler[h].proc] \in Active
                      /\ node[handler[h].node].parent = index[handler[h].proc]
               /\ handler[h].place = "minted" => index[handler[h].proc] = root
               /\ handler[h].place = "renamed" => handler[h].node = root
        /\ \A k \in Keys : \A n \in answered[k] : n \in Chain(root) /\ node[n].key = k

LifeInv == LifeType /\ ServingOwnsVolume /\ NodeInv /\ HandlerInv /\ LinearInv

\* An idle handler is a handler record.
LEMMA IdleRecord == Idle \in HandlerRecord /\ Idle.place = "idle" /\ "idle" \notin Busy
  BY DEF Idle, HandlerRecord, Places, Busy

\* At first no process runs.
LEMMA LifeInvInit == LifeInit => LifeInv
<1> SUFFICES ASSUME LifeInit PROVE LifeInv
  OBVIOUS
<1>1. LifeType
  <2>1. handler \in [Handlers -> HandlerRecord]
    BY IdleRecord DEF LifeInit
  <2>2. minted \in 0..MaxNodes /\ node \in [1..MaxNodes -> NodeRecord]
    <3>1. Unminted \in NodeRecord
      BY DEF Unminted, NodeRecord
    <3> QED BY <3>1, LifecycleAssumption DEF LifeInit
  <2> QED BY <2>1, <2>2 DEF LifeInit, LifeType, Phases
<1>2. \A h \in Handlers : handler[h].place = "idle" /\ "idle" \in Places /\ "idle" \notin Busy
  BY DEF LifeInit, Idle, Places, Busy
<1>3. ServingOwnsVolume
  BY <1>2, LifecycleAssumption DEF LifeInit, ServingOwnsVolume, Phases
<1>4. NodeInv
  BY DEF LifeInit, NodeInv
<1>5. HandlerInv /\ LinearInv
  BY <1>2 DEF LifeInit, HandlerInv, LinearInv, Active, Busy
<1> QED BY <1>1, <1>3, <1>4, <1>5 DEF LifeInv

\* What the nodes, the root and the indexes are kept by keeps their invariant.
LEMMA NodesKept ==
    ASSUME NodeInv, UNCHANGED <<root, node, minted, index>>
    PROVE  NodeInv'
  BY DEF NodeInv, Chain

\* Opening: the lock is free, so no process serves, and the root is indexed.
LEMMA StartStep ==
    ASSUME LifeInv, NEW p \in Procs, Start(p)
    PROVE  LifeInv'
<1>1. /\ phase[p] = "down" /\ owner = Nobody /\ owner' = p
      /\ index' = [index EXCEPT ![p] = root]
      /\ phase' = [phase EXCEPT ![p] = "serving"]
      /\ UNCHANGED <<kernel, root, node, minted, mutex, handler, answered, late>>
  BY DEF Start, AcquireStoreLock
<1>2. \A q \in Procs : phase[q] \notin Active
  BY <1>1, LifecycleAssumption DEF LifeInv, ServingOwnsVolume, Active
<1>3. LifeType'
  BY <1>1 DEF LifeInv, LifeType, Phases
<1>4. ServingOwnsVolume'
  BY <1>1, <1>2 DEF LifeInv, LifeType, ServingOwnsVolume, Phases, Active
<1>5. NodeInv'
  BY <1>1 DEF LifeInv, LifeType, NodeInv, Chain
<1>6. HandlerInv'
  BY <1>1 DEF LifeInv, LifeType, HandlerInv
<1>7. LinearInv'
  <2> SUFFICES ASSUME ~late' PROVE LinearInv'
    BY DEF LinearInv
  <2>1. \A h \in Handlers : handler[h].place \notin {"minted", "renamed"}
    BY <1>1, <1>2 DEF LifeInv, HandlerInv, LinearInv, Busy
  <2>2. \A q \in Procs : phase'[q] \in Active => index'[q] = root'
    BY <1>1, <1>2 DEF LifeInv, LifeType
  <2>3. \A k \in Keys : \A n \in answered'[k] : n \in Chain(root)' /\ node'[n].key = k
    BY <1>1 DEF LifeInv, LinearInv, Chain
  <2> QED BY <1>1, <2>1, <2>2, <2>3 DEF LinearInv
<1> QED BY <1>3, <1>4, <1>5, <1>6, <1>7 DEF LifeInv

\* A request is accepted by a process that serves.
LEMMA AcceptStep ==
    ASSUME LifeInv, NEW p \in Procs, NEW h \in Handlers, NEW k \in Keys,
           NEW e \in Chain(root) \cup {0}, Accept(p, h, k, e)
    PROVE  LifeInv'
<1> DEFINE new == [place |-> "accepted", proc |-> p, key |-> k, expected |-> e, node |-> 0]
<1>1. /\ phase[p] = "serving"
      /\ handler' = [handler EXCEPT ![h] = new]
      /\ UNCHANGED <<kernel, phase, owner, root, node, minted, index, mutex, answered, late>>
  BY DEF Accept
<1>2. e \in Nat
  <2>1. Chain(root) \subseteq Nat
    BY DEF LifeInv, LifeType, NodeInv, NodeRecord, Chain
  <2> QED BY <2>1
<1>3. new \in HandlerRecord /\ new.place = "accepted" /\ new.proc = p /\ new.key = k
  BY <1>2 DEF HandlerRecord, Places, Busy
<1> HIDE DEF new
<1>4. LifeType'
  BY <1>1, <1>3 DEF LifeInv, LifeType
<1>5. \A g \in Handlers : handler'[g] = IF g = h THEN new ELSE handler[g]
  BY <1>1 DEF LifeInv, LifeType
<1>6. ServingOwnsVolume'
  BY <1>1, <1>3, <1>5 DEF LifeInv, ServingOwnsVolume, Places, Busy
<1>7. NodeInv'
  BY <1>1, NodesKept DEF LifeInv
<1>8. HandlerInv'
  BY <1>1, <1>3, <1>5 DEF LifeInv, HandlerInv
<1>9. LinearInv'
  BY <1>1, <1>3, <1>5 DEF LifeInv, LinearInv, BehindByOwn, Chain
<1> QED BY <1>4, <1>6, <1>7, <1>8, <1>9 DEF LifeInv

\* The history is made of nodes.
LEMMA HistoryIsMinted ==
    ASSUME LifeInv
    PROVE  root \in 0..minted /\ Chain(root) \subseteq 1..minted
  BY DEF LifeInv, LifeType, NodeInv, Chain

\* What a process that has the volume has indexed is in the history.
LEMMA IndexedIsHistory ==
    ASSUME LifeInv, ~late, NEW p \in Procs, phase[p] \in Active
    PROVE  Chain(index[p]) \subseteq Chain(root)
<1>1. CASE index[p] = root
  BY <1>1
<1>2. CASE BehindByOwn(p)
  <2>1. root \in 1..minted
    BY <1>2 DEF LifeInv, LifeType, NodeInv, BehindByOwn
  <2>2. node[root].chain = Chain(index[p]) \cup {root}
    BY <1>2, <2>1 DEF LifeInv, NodeInv, BehindByOwn
  <2> QED BY <1>2, <2>2 DEF BehindByOwn, Chain
<1> QED BY <1>1, <1>2 DEF LifeInv, LinearInv

\* A handler of p ends: the log, the root and the mutexes are as they were, and
\* what it has answered, if anything, is indexed under its key.
LEMMA AnswerStep ==
    ASSUME LifeInv, NEW p \in Procs, NEW h \in Handlers, TakesMutex(p, h), Ends(h),
           UNCHANGED <<kernel, phase, owner, root, node, minted, index, mutex>>,
           NEW A \in SUBSET Found(p, h),
           answered' = [answered EXCEPT ![handler[h].key] = @ \cup A]
    PROVE  LifeInv'
<1>1. /\ handler[h].place = "accepted" /\ handler[h].proc = p
      /\ late' = (late \/ phase[p] = "closed")
      /\ handler' = [handler EXCEPT ![h] = Idle]
  BY DEF TakesMutex, Ends
<1>2. phase[p] # "down" /\ handler[h].key \in Keys /\ late \in BOOLEAN
  BY <1>1 DEF LifeInv, LifeType, HandlerInv, Busy
<1>3. A \subseteq Chain(index[p]) /\ \A n \in A : node[n].key = handler[h].key
  BY DEF Found
<1>4. Chain(index[p]) \subseteq Nat
  BY DEF LifeInv, LifeType, NodeInv, NodeRecord, Chain
<1>5. /\ handler' \in [Handlers -> HandlerRecord]
      /\ \A g \in Handlers : handler'[g] = IF g = h THEN Idle ELSE handler[g]
  BY <1>1, IdleRecord DEF LifeInv, LifeType
<1>6. \A k \in Keys : answered'[k] = IF k = handler[h].key THEN answered[k] \cup A ELSE answered[k]
  BY <1>2 DEF LifeInv, LifeType
<1>7. answered' \in [Keys -> SUBSET Nat]
  BY <1>2, <1>3, <1>4 DEF LifeInv, LifeType
<1>8. LifeType'
  BY <1>1, <1>2, <1>5, <1>7 DEF LifeInv, LifeType
<1>9. ServingOwnsVolume'
  BY <1>5, IdleRecord DEF LifeInv, ServingOwnsVolume, HandlerRecord
<1>10. NodeInv'
  BY NodesKept DEF LifeInv
<1>11. HandlerInv'
  BY <1>5, IdleRecord DEF LifeInv, HandlerInv, Busy
<1>12. LinearInv'
  <2> SUFFICES ASSUME ~late' PROVE LinearInv'
    BY DEF LinearInv
  <2>1. ~late /\ phase[p] \in Active
    BY <1>1, <1>2 DEF LifeInv, LifeType, Phases, Active
  <2>2. A \subseteq Chain(root)
    BY <1>3, <2>1, IndexedIsHistory
  <2>3. \A k \in Keys : \A n \in answered'[k] : n \in Chain(root) /\ node[n].key = k
    BY <1>3, <1>6, <2>1, <2>2 DEF LifeInv, LinearInv
  <2>4. \A g \in Handlers : handler'[g].place \in {"minted", "renamed"} => handler'[g] = handler[g]
    BY <1>5, IdleRecord DEF Busy
  <2>5. \A k \in Keys : \A n \in answered'[k] : n \in Chain(root)' /\ node'[n].key = k
    BY <2>3 DEF Chain
  <2>6. \A q \in Procs : phase'[q] \in Active => (index[q] = root \/ BehindByOwn(q))'
    BY <2>1 DEF LifeInv, LinearInv, BehindByOwn
  <2>7. \A g \in Handlers : handler'[g].place \in {"minted", "renamed"} =>
            /\ phase'[handler'[g].proc] \in Active
            /\ node'[handler'[g].node].parent = index'[handler'[g].proc]
            /\ handler'[g].place = "minted" => index'[handler'[g].proc] = root'
            /\ handler'[g].place = "renamed" => handler'[g].node = root'
    BY <2>1, <2>4 DEF LifeInv, LinearInv
  <2> QED BY <2>5, <2>6, <2>7 DEF LinearInv
<1> QED BY <1>8, <1>9, <1>10, <1>11, <1>12 DEF LifeInv

\* The three answers that are given without a write.
LEMMA AnswersStep ==
    ASSUME LifeInv, NEW p \in Procs, NEW h \in Handlers,
           AnswerIndexed(p, h) \/ RefuseAppend(p, h) \/ RootChanged(p, h)
    PROVE  LifeInv'
<1>1. TakesMutex(p, h) /\ Ends(h) /\ UNCHANGED <<kernel, phase, owner, root, node, minted, index, mutex>>
  BY DEF AnswerIndexed, RefuseAppend, RootChanged
<1>2. CASE AnswerIndexed(p, h)
  <2> DEFINE A == {n \in Found(p, h) : node[n].parent = handler[h].expected}
  <2>1. answered' = [answered EXCEPT ![handler[h].key] = @ \cup A] /\ A \in SUBSET Found(p, h)
    BY <1>2 DEF AnswerIndexed
  <2> HIDE DEF A
  <2> QED BY <1>1, <2>1, AnswerStep
<1>3. CASE RefuseAppend(p, h) \/ RootChanged(p, h)
  <2>1. answered' = answered
    BY <1>3 DEF RefuseAppend, RootChanged
  <2>2. answered' = [answered EXCEPT ![handler[h].key] = @ \cup {}]
    BY <2>1 DEF LifeInv, LifeType
  <2>3. {} \in SUBSET Found(p, h)
    OBVIOUS
  <2> QED BY <1>1, <2>2, <2>3, AnswerStep
<1> QED BY <1>2, <1>3

\* What MintNode does to the nodes.
LEMMA MintedNode ==
    ASSUME LifeInv, NEW p \in Procs, NEW h \in Handlers, handler[h].key \in Keys,
           root = index[p], Found(p, h) = {}, MintNode(p, h), UNCHANGED <<root, index>>
    PROVE  /\ minted' = minted + 1 /\ minted' \in 1..MaxNodes /\ minted \in Nat
           /\ node' \in [1..MaxNodes -> NodeRecord]
           /\ node'[minted'] = [parent |-> root, key |-> handler[h].key, by |-> p,
                                chain |-> Chain(root) \cup {minted'}]
           /\ \A n \in 1..minted : node'[n] = node[n]
           /\ \A r \in 0..minted : Chain(r)' = Chain(r)
           /\ NodeInv'
<1>1. /\ minted < MaxNodes /\ minted' = minted + 1
      /\ node' = [node EXCEPT ![minted + 1] =
                     [parent |-> root, key |-> handler[h].key, by |-> p,
                      chain |-> Chain(root) \cup {minted + 1}]]
  BY DEF MintNode
<1>2. /\ minted \in Nat /\ MaxNodes \in Nat /\ minted + 1 \in 1..MaxNodes
      /\ node \in [1..MaxNodes -> NodeRecord]
  BY <1>1, LifecycleAssumption DEF LifeInv, LifeType
<1>3. root \in 0..minted /\ Chain(root) \subseteq 1..minted
  BY HistoryIsMinted
<1>4. node'[minted + 1] = [parent |-> root, key |-> handler[h].key, by |-> p,
                           chain |-> Chain(root) \cup {minted + 1}]
  BY <1>1, <1>2
<1>5. \A n \in 1..minted : node'[n] = node[n]
  BY <1>1, <1>2
<1>6. node' \in [1..MaxNodes -> NodeRecord]
  <2>1. Chain(root) \cup {minted + 1} \in SUBSET Nat
    BY <1>2, <1>3
  <2>2. node'[minted + 1] \in NodeRecord
    BY <1>2, <1>3, <1>4, <2>1 DEF NodeRecord
  <2> QED BY <1>1, <1>2, <1>4, <2>2
<1>7. \A r \in 0..minted : Chain(r)' = Chain(r)
  BY <1>2, <1>5 DEF Chain
<1>8. NodeInv'
  <2>1. root' \in 0..minted' /\ \A q \in Procs : index'[q] \in 0..minted'
    BY <1>1, <1>2, <1>3 DEF LifeInv, NodeInv
  <2>2. ASSUME NEW n \in 1..minted'
        PROVE  /\ node'[n].parent \in 0..minted'
               /\ node'[n].chain = Chain(node[n].parent)' \cup {n}
               /\ node'[n].chain \subseteq 1..minted'
               /\ \A a, b \in node'[n].chain : node'[a].key = node'[b].key => a = b
    <3>1. CASE n \in 1..minted
      <4>1. /\ node[n].parent \in 0..minted
            /\ node[n].chain = Chain(node[n].parent) \cup {n}
            /\ node[n].chain \subseteq 1..minted
            /\ \A a, b \in node[n].chain : node[a].key = node[b].key => a = b
        BY <3>1 DEF LifeInv, NodeInv
      <4> QED BY <1>1, <1>2, <1>5, <1>7, <3>1, <4>1
    <3>2. CASE n = minted + 1
      <4>1. \A a, b \in Chain(root) : node[a].key = node[b].key => a = b
        BY <1>3 DEF LifeInv, NodeInv, Chain
      <4>2. \A a \in Chain(root) : node[a].key # handler[h].key
        BY DEF Found
      <4>3. node'[n].chain = Chain(root) \cup {n} /\ node'[n].key = handler[h].key
        BY <1>4, <3>2
      <4>4. \A a, b \in node'[n].chain : node'[a].key = node'[b].key => a = b
        BY <1>3, <1>5, <4>1, <4>2, <4>3
      <4>5. node'[n].parent = root /\ Chain(root)' = Chain(root)
        BY <1>3, <1>4, <1>7, <3>2
      <4>6. node'[n].chain = Chain(node[n].parent)' \cup {n}
        BY <4>3, <4>5
      <4> QED BY <1>1, <1>2, <1>3, <3>2, <4>3, <4>4, <4>5, <4>6
    <3> QED BY <1>1, <1>2, <3>1, <3>2
  <2> QED BY <2>1, <2>2 DEF NodeInv
<1> QED BY <1>1, <1>2, <1>4, <1>5, <1>6, <1>7, <1>8

\* An append begins on the indexed root, and alone.
LEMMA BeginStep ==
    ASSUME LifeInv, NEW p \in Procs, NEW h \in Handlers, BeginAppend(p, h)
    PROVE  LifeInv'
<1>1. /\ handler[h].place = "accepted" /\ handler[h].proc = p
      /\ mutex[p] = Nobody /\ index[p] = root
      /\ Found(p, h) = {} /\ MintNode(p, h)
      /\ mutex' = [mutex EXCEPT ![p] = h]
      /\ late' = (late \/ phase[p] = "closed")
      /\ UNCHANGED <<kernel, phase, owner, root, index, answered>>
  BY DEF BeginAppend, TakesMutex
<1>2. phase[p] # "down" /\ handler[h].key \in Keys /\ late \in BOOLEAN
  BY <1>1 DEF LifeInv, LifeType, HandlerInv, Busy
<1>3. /\ minted' = minted + 1 /\ minted' \in 1..MaxNodes /\ minted \in Nat
      /\ node' \in [1..MaxNodes -> NodeRecord]
      /\ node'[minted'] = [parent |-> root, key |-> handler[h].key, by |-> p,
                           chain |-> Chain(root) \cup {minted'}]
      /\ \A n \in 1..minted : node'[n] = node[n]
      /\ \A r \in 0..minted : Chain(r)' = Chain(r)
      /\ NodeInv'
  BY <1>1, <1>2, MintedNode
<1>4. /\ handler' \in [Handlers -> HandlerRecord]
      /\ \A g \in Handlers : g # h => handler'[g] = handler[g]
      /\ handler'[h].place = "minted" /\ handler'[h].proc = p
      /\ handler'[h].key = handler[h].key /\ handler'[h].node = minted'
  <2>1. /\ handler \in [Handlers -> HandlerRecord]
        /\ handler' = [handler EXCEPT ![h] = [@ EXCEPT !.place = "minted", !.node = minted + 1]]
    BY <1>1 DEF LifeInv, LifeType, MintNode
  <2>2. handler'[h] = [handler[h] EXCEPT !.place = "minted", !.node = minted + 1]
    BY <2>1
  <2>3. handler[h] \in HandlerRecord /\ minted + 1 \in Nat
    BY <1>3, <2>1
  <2>4. /\ handler'[h] \in HandlerRecord
        /\ handler'[h].place = "minted" /\ handler'[h].proc = handler[h].proc
        /\ handler'[h].key = handler[h].key /\ handler'[h].node = minted + 1
    BY <2>2, <2>3 DEF HandlerRecord, Places, Busy
  <2> QED BY <1>1, <1>3, <2>1, <2>4
<1>5. LifeType'
  BY <1>1, <1>2, <1>3, <1>4 DEF LifeInv, LifeType
<1>6. ServingOwnsVolume'
  BY <1>1, <1>4 DEF LifeInv, ServingOwnsVolume, Places, Busy
<1>7. \A g \in Handlers : handler[g].place \in {"minted", "renamed"} => g # h /\ handler[g].proc # p
  BY <1>1, LifecycleAssumption DEF LifeInv, HandlerInv
<1>8. HandlerInv'
  <2> SUFFICES ASSUME NEW g \in Handlers
               PROVE  /\ handler'[g].place \in Busy =>
                             /\ handler'[g].proc \in Procs
                             /\ phase'[handler'[g].proc] # "down"
                             /\ handler'[g].key \in Keys
                      /\ handler'[g].place \in {"minted", "renamed"} =>
                             /\ mutex'[handler'[g].proc] = g
                             /\ handler'[g].node \in 1..minted'
                             /\ node'[handler'[g].node].key = handler'[g].key
                             /\ node'[handler'[g].node].by = handler'[g].proc
    BY DEF HandlerInv
  <2>1. CASE g = h
    <3>1. mutex'[p] = h
      BY <1>1 DEF LifeInv, LifeType
    <3>2. node'[minted'].key = handler[h].key /\ node'[minted'].by = p /\ minted' \in 1..minted'
      BY <1>3
    <3> QED BY <1>1, <1>2, <1>4, <2>1, <3>1, <3>2
  <2>2. CASE g # h
    <3>1. handler'[g] = handler[g] /\ phase' = phase
      BY <1>1, <1>4, <2>2
    <3>2. handler[g].place \in {"minted", "renamed"} =>
             /\ handler[g].proc \in Procs /\ handler[g].proc # p
             /\ mutex[handler[g].proc] = g /\ handler[g].node \in 1..minted
             /\ node[handler[g].node].key = handler[g].key
             /\ node[handler[g].node].by = handler[g].proc
      BY <1>7 DEF LifeInv, HandlerInv, Busy
    <3>3. \A q \in Procs : q # p => mutex'[q] = mutex[q]
      BY <1>1 DEF LifeInv, LifeType
    <3>4. handler[g].place \in {"minted", "renamed"} =>
             /\ mutex'[handler[g].proc] = g /\ handler[g].node \in 1..minted'
             /\ node'[handler[g].node] = node[handler[g].node]
      BY <1>3, <3>2, <3>3
    <3>5. handler[g].place \in Busy =>
             /\ handler[g].proc \in Procs
             /\ phase[handler[g].proc] # "down"
             /\ handler[g].key \in Keys
      BY DEF LifeInv, HandlerInv
    <3> QED BY <3>1, <3>2, <3>4, <3>5
  <2> QED BY <2>1, <2>2
<1>9. LinearInv'
  <2> SUFFICES ASSUME ~late' PROVE LinearInv'
    BY DEF LinearInv
  <2>1. ~late /\ phase[p] \in Active
    BY <1>1, <1>2 DEF LifeInv, LifeType, Phases, Active
  <2>2. \A g \in Handlers : handler[g].place \notin {"minted", "renamed"}
    BY <1>7, <2>1 DEF LifeInv, LinearInv, HandlerInv, ServingOwnsVolume, Active, Busy
  <2>3. \A g \in Handlers : handler'[g].place \in {"minted", "renamed"} => g = h
    BY <1>4, <2>2
  <2>4. node'[minted'].parent = root
    BY <1>3
  <2>5. \A q \in Procs : phase'[q] \in Active => index'[q] = root'
    BY <1>1, <2>1 DEF LifeInv, ServingOwnsVolume, Active
  <2>6. root \in 0..minted /\ Chain(root)' = Chain(root) /\ Chain(root) \subseteq 1..minted
    <3>1. root \in 0..minted /\ Chain(root) \subseteq 1..minted
      BY HistoryIsMinted
    <3>2. root' = root
      BY <1>1
    <3>3. ASSUME root # 0
          PROVE  node'[root] = node[root]
      BY <1>3, <3>1, <3>3
    <3> QED BY <3>1, <3>2, <3>3 DEF Chain
  <2>7. \A k \in Keys : \A n \in answered'[k] : n \in Chain(root)' /\ node'[n].key = k
    BY <1>1, <1>3, <2>1, <2>6 DEF LifeInv, LinearInv
  <2>8. \A g \in Handlers : handler'[g].place \in {"minted", "renamed"} =>
            /\ handler'[g].place = "minted"
            /\ phase'[handler'[g].proc] \in Active
            /\ node'[handler'[g].node].parent = index'[handler'[g].proc]
            /\ index'[handler'[g].proc] = root'
    BY <1>1, <1>4, <2>1, <2>3, <2>4
  <2> QED BY <2>5, <2>7, <2>8 DEF LinearInv
<1> QED BY <1>3, <1>5, <1>6, <1>8, <1>9 DEF LifeInv

\* The root is renamed to a child of the one it replaces.
LEMMA RenameStep ==
    ASSUME LifeInv, NEW p \in Procs, NEW h \in Handlers, RenameRoot(p, h)
    PROVE  LifeInv' /\ (~late' => root' # 0 /\ node'[root'].parent = root)
<1>1. /\ handler[h].place = "minted" /\ handler[h].proc = p
      /\ root' = handler[h].node
      /\ UNCHANGED <<kernel, phase, owner, node, minted, index, mutex, answered, late>>
  BY DEF RenameRoot
<1>2. /\ handler' \in [Handlers -> HandlerRecord]
      /\ \A g \in Handlers : g # h => handler'[g] = handler[g]
      /\ handler'[h].place = "renamed" /\ handler'[h].proc = p
      /\ handler'[h].key = handler[h].key /\ handler'[h].node = root'
  <2>1. /\ handler \in [Handlers -> HandlerRecord] /\ handler[h] \in HandlerRecord
        /\ handler'[h] = [handler[h] EXCEPT !.place = "renamed"]
        /\ handler' = [handler EXCEPT ![h] = [@ EXCEPT !.place = "renamed"]]
    BY DEF LifeInv, LifeType, RenameRoot
  <2>2. /\ handler'[h] \in HandlerRecord
        /\ handler'[h].place = "renamed" /\ handler'[h].proc = handler[h].proc
        /\ handler'[h].key = handler[h].key /\ handler'[h].node = handler[h].node
    BY <2>1 DEF HandlerRecord, Places, Busy
  <2> QED BY <1>1, <2>1, <2>2
<1>3. /\ p \in Procs /\ phase[p] # "down" /\ handler[h].key \in Keys
      /\ mutex[p] = h /\ root' \in 1..minted
      /\ node[root'].key = handler[h].key /\ node[root'].by = p
  BY <1>1 DEF LifeInv, HandlerInv, Busy
<1>4. LifeType'
  BY <1>1, <1>2, <1>3 DEF LifeInv, LifeType
<1>5. ServingOwnsVolume'
  BY <1>1, <1>2 DEF LifeInv, ServingOwnsVolume, Places, Busy
<1>6. NodeInv'
  <2>1. minted \in Nat
    BY LifecycleAssumption DEF LifeInv, LifeType
  <2> QED BY <1>1, <1>3, <2>1 DEF LifeInv, NodeInv, Chain
<1>7. HandlerInv'
  <2>1. \A g \in Handlers : g # h =>
            handler'[g] = handler[g]
    BY <1>2
  <2> QED BY <1>1, <1>2, <1>3, <2>1 DEF LifeInv, HandlerInv, Busy
<1>8. ASSUME ~late'
      PROVE  LinearInv' /\ root' # 0 /\ node'[root'].parent = root
  <2>1. /\ ~late /\ phase[p] \in Active
        /\ node[root'].parent = index[p] /\ index[p] = root
    BY <1>1, <1>8 DEF LifeInv, LinearInv
  <2>2. \A q \in Procs : phase[q] \in Active => q = p
    BY <2>1 DEF LifeInv, ServingOwnsVolume, Active
  <2>3. root' # 0
    BY <1>3 DEF LifeInv, LifeType
  <2>4. BehindByOwn(p)'
    BY <1>1, <1>3, <2>1, <2>3 DEF BehindByOwn
  <2>5. \A g \in Handlers : handler'[g].place \in {"minted", "renamed"} => g = h
    BY <1>2, <1>3, <2>1, <2>2 DEF LifeInv, LinearInv, HandlerInv, Busy
  <2>6. Chain(root) \subseteq Chain(root)'
    <3>1. node[root'].chain = Chain(root) \cup {root'}
      BY <1>3, <2>1 DEF LifeInv, NodeInv
    <3> QED BY <1>1, <2>3, <3>1 DEF Chain
  <2>7. \A k \in Keys : \A n \in answered'[k] : n \in Chain(root)' /\ node'[n].key = k
    BY <1>1, <2>1, <2>6 DEF LifeInv, LinearInv
  <2>8. \A g \in Handlers : handler'[g].place \in {"minted", "renamed"} =>
            /\ handler'[g].place = "renamed"
            /\ phase'[handler'[g].proc] \in Active
            /\ node'[handler'[g].node].parent = index'[handler'[g].proc]
            /\ handler'[g].node = root'
    BY <1>1, <1>2, <2>1, <2>5
  <2>9. LinearInv'
    BY <1>1, <2>2, <2>4, <2>7, <2>8 DEF LinearInv
  <2> QED BY <1>1, <2>1, <2>3, <2>9
<1>9. LinearInv'
  BY <1>8 DEF LinearInv
<1> QED BY <1>4, <1>5, <1>6, <1>7, <1>8, <1>9 DEF LifeInv

\* A handler that holds the mutex of p ends, answered or with an error.
LEMMA ReleaseStep ==
    ASSUME LifeInv, NEW p \in Procs, NEW h \in Handlers,
           handler[h].place \in {"minted", "renamed"}, handler[h].proc = p, Ends(h),
           mutex' = [mutex EXCEPT ![p] = Nobody],
           UNCHANGED <<kernel, phase, owner, root, node, minted, late>>,
           index' \in [Procs -> Nat], answered' \in [Keys -> SUBSET Nat],
           \A q \in Procs : q # p => index'[q] = index[q],
           index'[p] \in 0..minted,
           ~late => index'[p] = root \/ BehindByOwn(p)',
           ~late => \A k \in Keys : \A n \in answered'[k] : n \in Chain(root) /\ node[n].key = k
    PROVE  LifeInv'
<1>1. /\ handler' \in [Handlers -> HandlerRecord]
      /\ \A g \in Handlers : handler'[g] = IF g = h THEN Idle ELSE handler[g]
  BY IdleRecord DEF LifeInv, LifeType, Ends
<1>2. mutex[p] = h
  BY DEF LifeInv, HandlerInv
<1>3. \A g \in Handlers : handler'[g].place \in Busy => g # h /\ handler'[g] = handler[g]
  BY <1>1, IdleRecord
<1>4. LifeType'
  BY <1>1 DEF LifeInv, LifeType
<1>5. ServingOwnsVolume'
  BY <1>1, IdleRecord DEF LifeInv, ServingOwnsVolume, HandlerRecord
<1>6. NodeInv'
  BY DEF LifeInv, NodeInv, Chain
<1>7. \A g \in Handlers : handler'[g].place \in {"minted", "renamed"} =>
          handler'[g] = handler[g] /\ handler[g].proc \in Procs /\ handler[g].proc # p
  BY <1>2, <1>3 DEF LifeInv, HandlerInv, Busy
<1>8. HandlerInv'
  <2>1. \A q \in Procs : q # p => mutex'[q] = mutex[q]
    BY DEF LifeInv, LifeType
  <2> QED BY <1>3, <1>7, <2>1 DEF LifeInv, HandlerInv
<1>9. LinearInv'
  <2> SUFFICES ASSUME ~late' PROVE LinearInv'
    BY DEF LinearInv
  <2>1. ~late /\ phase[p] \in Active
    BY DEF LifeInv, LinearInv
  <2>2. \A q \in Procs : phase[q] \in Active => q = p
    BY <2>1 DEF LifeInv, ServingOwnsVolume, Active
  <2>3. \A g \in Handlers : handler'[g].place \notin {"minted", "renamed"}
    BY <1>7, <2>1, <2>2 DEF LifeInv, LinearInv
  <2>4. \A k \in Keys : \A n \in answered'[k] : n \in Chain(root)' /\ node'[n].key = k
    BY <2>1 DEF Chain
  <2>5. \A q \in Procs : phase'[q] \in Active => (index[q] = root \/ BehindByOwn(q))'
    BY <2>1, <2>2
  <2> QED BY <2>3, <2>4, <2>5 DEF LinearInv
<1> QED BY <1>4, <1>5, <1>6, <1>8, <1>9 DEF LifeInv

\* An append ends, and its node is answered.
LEMMA FinishStep ==
    ASSUME LifeInv, NEW p \in Procs, NEW h \in Handlers, FinishAppend(p, h)
    PROVE  LifeInv'
<1>1. /\ handler[h].place = "renamed" /\ handler[h].proc = p
      /\ index' = [index EXCEPT ![p] = handler[h].node]
      /\ mutex' = [mutex EXCEPT ![p] = Nobody]
      /\ answered' = [answered EXCEPT ![handler[h].key] = @ \cup {handler[h].node}]
      /\ Ends(h)
      /\ UNCHANGED <<kernel, phase, owner, root, node, minted, late>>
  BY DEF FinishAppend
<1>2. /\ handler[h].key \in Keys /\ handler[h].node \in 1..minted /\ minted \in Nat
      /\ node[handler[h].node].key = handler[h].key
  BY <1>1 DEF LifeInv, LifeType, HandlerInv, Busy
<1>3. /\ index' \in [Procs -> Nat] /\ index'[p] = handler[h].node
      /\ \A q \in Procs : q # p => index'[q] = index[q]
  BY <1>1, <1>2 DEF LifeInv, LifeType
<1>4. /\ answered' \in [Keys -> SUBSET Nat]
      /\ \A k \in Keys : answered'[k] =
            IF k = handler[h].key THEN answered[k] \cup {handler[h].node} ELSE answered[k]
  <2>1. answered \in [Keys -> SUBSET Nat] /\ handler[h].node \in Nat
    BY <1>2 DEF LifeInv, LifeType
  <2> QED BY <1>1, <1>2, <2>1
<1>5. ASSUME ~late
      PROVE  /\ index'[p] = root
             /\ \A k \in Keys : \A n \in answered'[k] : n \in Chain(root) /\ node[n].key = k
  <2>1. handler[h].node = root
    BY <1>1, <1>5 DEF LifeInv, LinearInv
  <2>2. root \in Chain(root)
    BY <1>2, <2>1 DEF LifeInv, NodeInv, Chain
  <2>3. \A k \in Keys : \A n \in answered[k] : n \in Chain(root) /\ node[n].key = k
    BY <1>5 DEF LifeInv, LinearInv
  <2> QED BY <1>2, <1>3, <1>4, <2>1, <2>2, <2>3
<1>6. index'[p] \in 0..minted
  BY <1>2, <1>3
<1>7. handler[h].place \in {"minted", "renamed"}
  BY <1>1
<1> QED BY <1>1, <1>3, <1>4, <1>5, <1>6, <1>7, ReleaseStep

\* An append fails, before or after its rename.
LEMMA FailStep ==
    ASSUME LifeInv, NEW p \in Procs, NEW h \in Handlers, AppendFails(p, h)
    PROVE  LifeInv'
<1>1. /\ handler[h].place \in {"minted", "renamed"} /\ handler[h].proc = p
      /\ mutex' = [mutex EXCEPT ![p] = Nobody]
      /\ Ends(h)
      /\ UNCHANGED <<kernel, phase, owner, root, node, minted, index, answered, late>>
  BY DEF AppendFails
<1>2. /\ index' \in [Procs -> Nat] /\ answered' \in [Keys -> SUBSET Nat]
      /\ index'[p] \in 0..minted
      /\ \A q \in Procs : q # p => index'[q] = index[q]
  BY <1>1 DEF LifeInv, LifeType, NodeInv
<1>3. ASSUME ~late
      PROVE  /\ index'[p] = root \/ BehindByOwn(p)'
             /\ \A k \in Keys : \A n \in answered'[k] : n \in Chain(root) /\ node[n].key = k
  <2>1. phase[p] \in Active
    BY <1>1, <1>3 DEF LifeInv, LinearInv
  <2>2. index[p] = root \/ BehindByOwn(p)
    BY <1>3, <2>1 DEF LifeInv, LinearInv
  <2>3. \A k \in Keys : \A n \in answered[k] : n \in Chain(root) /\ node[n].key = k
    BY <1>3 DEF LifeInv, LinearInv
  <2> QED BY <1>1, <2>2, <2>3 DEF BehindByOwn
<1> QED BY <1>1, <1>2, <1>3, ReleaseStep

\* A step that changes phases and the owner alone.
LEMMA PhaseStep ==
    ASSUME LifeInv, NEW p \in Procs, Shutdown(p) \/ CloseStore(p)
    PROVE  LifeInv'
<1>1. PICK f \in {"draining", "closed"} :
         /\ phase[p] \in Active
         /\ f = "closed" => mutex[p] = Nobody
         /\ phase' = [phase EXCEPT ![p] = f]
         /\ owner' = IF f = "closed" THEN Nobody ELSE p
         /\ UNCHANGED <<kernel, root, node, minted, index, mutex, handler, answered, late>>
  <2>1. CASE Shutdown(p)
    BY <2>1 DEF Shutdown, logVars, Active, LifeInv, ServingOwnsVolume
  <2>2. CASE CloseStore(p)
    BY <2>2 DEF CloseStore, ReleaseStoreLock, logVars, Active, LifeInv, ServingOwnsVolume
  <2> QED BY <2>1, <2>2
<1>2. LifeType'
  BY <1>1 DEF LifeInv, LifeType, Phases
<1>3. \A q \in Procs : phase'[q] = IF q = p THEN f ELSE phase[q]
  BY <1>1 DEF LifeInv, LifeType
<1>4. \A q \in Procs : phase[q] \in Active => q = p
  BY <1>1 DEF LifeInv, ServingOwnsVolume, Active
<1>5. ServingOwnsVolume'
  BY <1>1, <1>2, <1>3, <1>4, LifecycleAssumption DEF LifeInv, LifeType, ServingOwnsVolume, Active
<1>6. NodeInv'
  BY <1>1, NodesKept DEF LifeInv
<1>7. HandlerInv'
  BY <1>1, <1>3 DEF LifeInv, LifeType, HandlerInv
<1>8. LinearInv'
  <2> SUFFICES ASSUME ~late' PROVE LinearInv'
    BY DEF LinearInv
  <2>1. ~late /\ f \in {"draining", "closed"}
    BY <1>1
  <2>2. \A h \in Handlers : handler[h].place \in {"minted", "renamed"} =>
            /\ handler[h].proc = p
            /\ phase'[handler[h].proc] \in Active
    BY <1>1, <1>3, <1>4, <2>1, LifecycleAssumption
       DEF LifeInv, LinearInv, HandlerInv, Active, Busy
  <2>3. \A q \in Procs : phase'[q] \in Active => phase[q] \in Active
    BY <1>1, <1>3
  <2>4. \A q \in Procs : phase'[q] \in Active => (index[q] = root \/ BehindByOwn(q))'
    BY <1>1, <2>1, <2>3 DEF LifeInv, LinearInv, BehindByOwn
  <2>5. \A k \in Keys : \A n \in answered'[k] : n \in Chain(root)' /\ node'[n].key = k
    BY <1>1, <2>1 DEF LifeInv, LinearInv, Chain
  <2>6. \A h \in Handlers :
            /\ handler'[h].place \in {"minted", "renamed"} =>
                   /\ phase'[handler'[h].proc] \in Active
                   /\ node'[handler'[h].node].parent = index'[handler'[h].proc]
            /\ handler'[h].place = "minted" => index'[handler'[h].proc] = root'
            /\ handler'[h].place = "renamed" => handler'[h].node = root'
    BY <1>1, <2>1, <2>2 DEF LifeInv, LinearInv
  <2> QED BY <2>4, <2>5, <2>6 DEF LinearInv
<1> QED BY <1>2, <1>5, <1>6, <1>7, <1>8 DEF LifeInv

\* A process goes, and its handlers with it.
LEMMA GoneStep ==
    ASSUME LifeInv, NEW p \in Procs, Gone(p),
           owner' \in Procs \cup {Nobody},
           \A q \in Procs : q # p /\ phase[q] \in Active => owner' = q,
           kernel => owner' # p /\ (owner' = owner \/ owner' = Nobody)
    PROVE  LifeInv'
<1>1. /\ phase' = [phase EXCEPT ![p] = "down"]
      /\ mutex' = [mutex EXCEPT ![p] = Nobody]
      /\ handler' = [h \in Handlers |-> IF h \in Running(p) THEN Idle ELSE handler[h]]
      /\ index' = [index EXCEPT ![p] = 0]
      /\ UNCHANGED <<kernel, root, node, minted, answered, late>>
  BY DEF Gone
<1>2. /\ \A g \in Handlers : handler'[g] = IF g \in Running(p) THEN Idle ELSE handler[g]
      /\ handler' \in [Handlers -> HandlerRecord]
  BY <1>1, IdleRecord DEF LifeInv, LifeType
<1>3. LifeType'
  BY <1>1, <1>2 DEF LifeInv, LifeType, Phases
<1>4. /\ \A q \in Procs : phase'[q] = IF q = p THEN "down" ELSE phase[q]
      /\ \A q \in Procs : q # p => mutex'[q] = mutex[q] /\ index'[q] = index[q]
      /\ index'[p] = 0
  BY <1>1 DEF LifeInv, LifeType
<1>5. ServingOwnsVolume'
  BY <1>1, <1>2, <1>3, <1>4, IdleRecord, LifecycleAssumption
     DEF LifeInv, LifeType, ServingOwnsVolume, Active, HandlerRecord
<1>6. NodeInv'
  <2>1. 0 \in 0..minted
    BY DEF LifeInv, LifeType
  <2>2. \A q \in Procs : index'[q] \in 0..minted
    BY <1>4, <2>1 DEF LifeInv, NodeInv
  <2> QED BY <1>1, <2>2 DEF LifeInv, NodeInv, Chain
<1>7. \A g \in Handlers : handler'[g].place \in Busy =>
          handler'[g] = handler[g] /\ handler[g].proc # p
  BY <1>2, IdleRecord DEF Running
<1>8. HandlerInv'
  <2>1. \A g \in Handlers : handler[g].place \in Busy => handler[g].proc \in Procs
    BY DEF LifeInv, HandlerInv
  <2> QED BY <1>1, <1>4, <1>7, <2>1 DEF LifeInv, HandlerInv, Busy
<1>9. LinearInv'
  <2> SUFFICES ASSUME ~late' PROVE LinearInv'
    BY DEF LinearInv
  <2>1. ~late
    BY <1>1
  <2>2. \A q \in Procs : phase'[q] \in Active => q # p /\ phase[q] \in Active
    BY <1>4 DEF Active
  <2>3. \A q \in Procs : phase'[q] \in Active => (index[q] = root \/ BehindByOwn(q))'
    BY <1>1, <1>4, <2>1, <2>2 DEF LifeInv, LinearInv, BehindByOwn
  <2>4. \A k \in Keys : \A n \in answered'[k] : n \in Chain(root)' /\ node'[n].key = k
    BY <1>1, <2>1 DEF LifeInv, LinearInv, Chain
  <2>5. ASSUME NEW g \in Handlers, handler'[g].place \in {"minted", "renamed"}
        PROVE  /\ phase'[handler'[g].proc] \in Active
               /\ node'[handler'[g].node].parent = index'[handler'[g].proc]
               /\ handler'[g].place = "minted" => index'[handler'[g].proc] = root'
               /\ handler'[g].place = "renamed" => handler'[g].node = root'
    <3>1. handler'[g] = handler[g] /\ handler[g].proc # p
      BY <1>7, <2>5 DEF Busy
    <3>2. handler[g].proc \in Procs
      BY <2>5, <3>1 DEF LifeInv, HandlerInv, Busy
    <3>3. /\ phase[handler[g].proc] \in Active
          /\ node[handler[g].node].parent = index[handler[g].proc]
          /\ handler[g].place = "minted" => index[handler[g].proc] = root
          /\ handler[g].place = "renamed" => handler[g].node = root
      BY <2>1, <2>5, <3>1 DEF LifeInv, LinearInv
    <3> QED BY <1>1, <1>4, <3>1, <3>2, <3>3
  <2> QED BY <2>3, <2>4, <2>5 DEF LinearInv
<1> QED BY <1>3, <1>5, <1>6, <1>8, <1>9 DEF LifeInv

\* Every step keeps the invariant.
LEMMA LifeInvStep ==
    ASSUME LifeInv, [LifeNext]_lifeVars
    PROVE  LifeInv'
<1>1. CASE UNCHANGED lifeVars
  BY <1>1 DEF lifeVars, logVars, LifeInv, LifeType, ServingOwnsVolume, NodeInv, HandlerInv,
              LinearInv, BehindByOwn, Chain
<1>2. ASSUME NEW p \in Procs, Exit(p)
      PROVE  LifeInv'
  <2>1. phase[p] = "closed" /\ Gone(p) /\ owner' = owner /\ kernel \in BOOLEAN
    BY <1>2 DEF Exit, LifeInv, LifeType
  <2>2. owner \in Procs \cup {Nobody} /\ (kernel => owner # p)
    BY <2>1 DEF LifeInv, LifeType, ServingOwnsVolume
  <2>3. \A q \in Procs : phase[q] \in Active => owner = q
    BY DEF LifeInv, ServingOwnsVolume, Active
  <2> QED BY <2>1, <2>2, <2>3, GoneStep
<1>3. ASSUME NEW p \in Procs, Kill(p)
      PROVE  LifeInv'
  <2>1. /\ phase[p] \in Active /\ Gone(p)
        /\ owner' = owner \/ owner' = Nobody
        /\ kernel => owner' = IF owner = p THEN Nobody ELSE owner
    BY <1>3 DEF Kill, ReleaseStoreLock, Active
  <2>2. owner = p /\ \A q \in Procs : phase[q] \in Active => q = p
    BY <2>1 DEF LifeInv, ServingOwnsVolume, Active
  <2> QED BY <2>1, <2>2, LifecycleAssumption, GoneStep
<1>4. CASE RemoveLockFile
  <2>1. /\ \A p \in Procs : phase[p] = "down"
        /\ owner' = Nobody
        /\ UNCHANGED <<kernel, phase, root, node, minted, index, mutex, handler, answered, late>>
    BY <1>4 DEF RemoveLockFile, logVars
  <2>2. LifeType' /\ ServingOwnsVolume'
    BY <2>1, LifecycleAssumption DEF LifeInv, LifeType, ServingOwnsVolume
  <2>3. NodeInv'
    BY <2>1, NodesKept DEF LifeInv
  <2>4. HandlerInv' /\ LinearInv'
    BY <2>1 DEF LifeInv, HandlerInv, LinearInv, BehindByOwn, Chain
  <2> QED BY <2>2, <2>3, <2>4 DEF LifeInv
<1> QED
  BY <1>1, <1>2, <1>3, <1>4, StartStep, AcceptStep, AnswersStep, BeginStep, RenameStep,
     FinishStep, FailStep, PhaseStep DEF LifeNext

\* Processes and handlers are where the invariant says.
LEMMA LifeInvariance == LifeSpec => []LifeInv
  BY LifeInvInit, LifeInvStep, PTL DEF LifeSpec

\* A process that serves has the writer lock, and no process that is gone
\* keeps it, but for a lock file.
THEOREM VolumeHasOneServer == LifeSpec => []ServingOwnsVolume
<1>1. LifeInv => ServingOwnsVolume
  BY DEF LifeInv
<1> QED BY <1>1, LifeInvariance, PTL

\* As long as no handler uses a closed store, the root only moves to a child of
\* the root that it replaces, and an append is refused for a stale index only by a
\* process that is behind by an append of its own.
THEOREM HistoryIsLinear == LifeSpec => LinearHistory
<1> DEFINE Linear ==
      ~late' => /\ root' # root => node'[root'].parent = root
                /\ \A p \in Procs, h \in Handlers : RefuseAppend(p, h) => BehindByOwn(p)
<1>1. LifeInv /\ [LifeNext]_lifeVars => [Linear]_lifeVars
  <2> SUFFICES ASSUME LifeInv, [LifeNext]_lifeVars, ~late'
               PROVE  /\ root' # root => node'[root'].parent = root
                      /\ \A p \in Procs, h \in Handlers : RefuseAppend(p, h) => BehindByOwn(p)
    OBVIOUS
  <2>1. ASSUME NEW p \in Procs, NEW h \in Handlers, RefuseAppend(p, h)
        PROVE  BehindByOwn(p)
    <3>1. /\ handler[h].place = "accepted" /\ handler[h].proc = p
          /\ late' = (late \/ phase[p] = "closed")
          /\ index[p] # root
      BY <2>1 DEF RefuseAppend, TakesMutex
    <3>2. phase[p] # "down" /\ late \in BOOLEAN
      BY <3>1 DEF LifeInv, LifeType, HandlerInv, Busy
    <3>3. ~late /\ phase[p] \in Active
      BY <3>1, <3>2 DEF LifeInv, LifeType, Phases, Active
    <3> QED BY <3>1, <3>3 DEF LifeInv, LinearInv
  <2>2. ASSUME NEW p \in Procs, NEW h \in Handlers, RenameRoot(p, h)
        PROVE  node'[root'].parent = root
    BY <2>2, RenameStep
  <2>3. root' = root \/ \E p \in Procs, h \in Handlers : RenameRoot(p, h)
    BY DEF LifeNext, lifeVars, logVars, Start, Shutdown, CloseStore, Exit, Kill, Gone, Accept,
           AnswerIndexed, RefuseAppend, RootChanged, BeginAppend, FinishAppend, AppendFails,
           RemoveLockFile
  <2> QED BY <2>1, <2>2, <2>3
<1> QED BY <1>1, LifeInvariance, PTL DEF LifeSpec, LinearHistory

\* As long as no handler uses a closed store, all answers to a key name one
\* node, which is in the history and alone there with that key.
THEOREM RetriesHaveOneAnswer == LifeSpec => []RetriesAgree
<1>1. LifeInv => RetriesAgree
  <2> SUFFICES ASSUME LifeInv, ~late
               PROVE  /\ \A k \in Keys : \A m, n \in answered[k] : m = n
                      /\ \A k \in Keys : answered[k] \subseteq Chain(root)
                      /\ \A m, n \in Chain(root) : node[m].key = node[n].key => m = n
    BY DEF RetriesAgree
  <2>1. \A m, n \in Chain(root) : node[m].key = node[n].key => m = n
    BY DEF LifeInv, LifeType, NodeInv, Chain
  <2>2. \A k \in Keys : \A n \in answered[k] : n \in Chain(root) /\ node[n].key = k
    BY DEF LifeInv, LinearInv
  <2> QED BY <2>1, <2>2
<1> QED BY <1>1, LifeInvariance, PTL

=============================================================================
