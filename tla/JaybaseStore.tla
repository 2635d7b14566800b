---------------------------- MODULE JaybaseStore ----------------------------
(***************************************************************************)
(* The event store of storage.go: a linear chain of node files, the mutable *)
(* ref refs/root that names its tip, and the in-memory indexes that the one *)
(* writer process rebuilds when it opens the directory.                     *)
(*                                                                         *)
(* An append runs under the store mutex, so no other store operation sees   *)
(* its middle; a crash, a power loss or an I/O error does, and each system  *)
(* call that changes the disk is therefore a step of its own.               *)
(*                                                                         *)
(* A node is named by a number.  The sealed payload has a fresh random      *)
(* nonce, so every append makes a hash never seen before: the numbers are   *)
(* handed out in order and NoNode, 0, is the empty root "".                 *)
(***************************************************************************)
EXTENDS Integers, Sequences, FiniteSets

CONSTANTS
    RequestIDs,       \* the request IDs that clients use
    RequestHashes,    \* hashes of request contents
    Empty,            \* the empty string: no request ID, no request hash
    PlainRequestIDs,  \* AppendOptions.RequestID values passed to Append, AppendAt
    MaxNodes,         \* bound: nodes ever minted
    ProcessCrashes,   \* may the process die?
    PowerLosses,      \* may the machine lose power?
    IOErrors          \* may a file operation of an append return an error?

ASSUME StoreAssumption ==
    /\ Empty \notin RequestIDs
    /\ Empty \notin RequestHashes
    /\ PlainRequestIDs \subseteq RequestIDs \cup {Empty}
    /\ MaxNodes \in Nat
    /\ ProcessCrashes \in BOOLEAN
    /\ PowerLosses \in BOOLEAN
    /\ IOErrors \in BOOLEAN

NoNode == 0
Nodes == 1..MaxNodes
Roots == 0..MaxNodes

VARIABLES
    \* The disk.
    node,          \* contents of every node minted so far, addressed by node
    minted,        \* how many nodes have been minted
    files,         \* node files visible under objects/nodes
    durable,       \* node files whose directory entry has been synced
    root,          \* the visible contents of refs/root
    rootSurvivors, \* the contents refs/root may have after a power loss
    \* The process.
    pc,            \* where the process is
    cursor,        \* nodesFromRoot: the next node to read
    reversed,      \* nodesFromRoot: the nodes read so far, newest first
    history,       \* Store.history
    requestIndex,  \* Store.requestIndex: the node of each request, or NoNode
    pending,       \* the node that the running append has minted
    \* What callers saw.
    reply,         \* the last answer
    acks           \* every success that was ever answered

disk == <<node, minted, files, durable, root, rootSurvivors>>
memory == <<pc, cursor, reversed, history, requestIndex, pending>>
vars == <<node, minted, files, durable, root, rootSurvivors,
          pc, cursor, reversed, history, requestIndex, pending, reply, acks>>

(***************************************************************************)
(* A node's parent, request ID and request hash.  requestRecord's copy of   *)
(* the request hash is the one in the node, which never changes.            *)
(***************************************************************************)
NodeRecord == [parent : Roots,
               rid    : RequestIDs \cup {Empty},
               rhash  : RequestHashes \cup {Empty}]

Blank == [parent |-> NoNode, rid |-> Empty, rhash |-> Empty]

\* A success: what was asked, the node answered, and whether it is a new one.
AckRecord == [rid   : RequestIDs \cup {Empty},
              rhash : RequestHashes \cup {Empty},
              node  : Nodes,
              fresh : BOOLEAN]

\* The steps of an append, in the order in which it takes them.
Appending == {"minted", "linked", "nodeSynced", "renamed"}

PCs == {"closed", "walking", "open"} \cup Appending

ReplyKinds == {"none", "appended", "replayed", "reused", "rootChanged",
               "integrity", "ioError"}

NoReply == [kind |-> "none", rid |-> Empty]

Answer(k, q) == [kind |-> k, rid |-> q]

Init ==
    /\ node = [n \in Nodes |-> Blank]
    /\ minted = 0
    /\ files = {}
    /\ durable = {}
    /\ root = NoNode
    /\ rootSurvivors = {NoNode}
    /\ pc = "closed"
    /\ cursor = NoNode
    /\ reversed = <<>>
    /\ history = <<>>
    /\ requestIndex = [q \in RequestIDs |-> NoNode]
    /\ pending = NoNode
    /\ reply = NoReply
    /\ acks = {}

-----------------------------------------------------------------------------
(***************************************************************************)
(* Opening the store: nodesFromRoot walks from refs/root to the first node, *)
(* reading one node file per iteration, and rebuildIndexes then indexes the *)
(* nodes in order.                                                          *)
(***************************************************************************)

\* Memory of a process that is not running, or has only just started.
Forget ==
    /\ cursor' = NoNode
    /\ reversed' = <<>>
    /\ history' = <<>>
    /\ requestIndex' = [q \in RequestIDs |-> NoNode]
    /\ pending' = NoNode

OpenStore ==
    /\ pc = "closed"
    /\ pc' = "walking"
    /\ cursor' = root
    /\ reversed' = <<>>
    /\ reply' = NoReply
    /\ UNCHANGED <<disk, history, requestIndex, pending, acks>>

\* The nodes that nodesFromRoot has seen.
Walked == {reversed[i] : i \in 1..Len(reversed)}

\* A node has one parent or none, as append writes it (storage.go:419-422), so
\* the walk never meets the merge that nodesFromRoot refuses.
WalkStep ==
    /\ pc = "walking"
    /\ cursor # NoNode
    /\ cursor \notin Walked
    /\ cursor \in files
    /\ reversed' = Append(reversed, cursor)
    /\ cursor' = node[cursor].parent
    /\ UNCHANGED <<disk, pc, history, requestIndex, pending, reply, acks>>

\* Two of the nodes in s carry the same request ID.
DuplicateRequest(s) ==
    \E i, j \in 1..Len(s) :
        /\ i # j
        /\ node[s[i]].rid = node[s[j]].rid
        /\ node[s[i]].rid # Empty

\* The requestIndex that rebuildIndexes makes of the nodes in s.
IndexOf(s) ==
    [q \in RequestIDs |->
        IF \E i \in 1..Len(s) : node[s[i]].rid = q
        THEN s[CHOOSE i \in 1..Len(s) : node[s[i]].rid = q]
        ELSE NoNode]

\* A plausible bug: the walked nodes are indexed newest first.
RebuildIndexesUnreversed ==
    /\ pc = "walking"
    /\ cursor = NoNode
    /\ ~DuplicateRequest(reversed)
    /\ pc' = "open"
    /\ history' = reversed
    /\ requestIndex' = IndexOf(reversed)
    /\ reversed' = <<>>
    /\ UNCHANGED <<disk, cursor, pending, reply, acks>>

RebuildIndexes ==
    /\ pc = "walking"
    /\ cursor = NoNode
    /\ ~DuplicateRequest(reversed)
    /\ pc' = "open"
    /\ history' = [i \in 1..Len(reversed) |-> reversed[Len(reversed) + 1 - i]]
    /\ requestIndex' = IndexOf(reversed)
    /\ reversed' = <<>>
    /\ UNCHANGED <<disk, cursor, pending, reply, acks>>

\* A node of the history comes twice or cannot be read, or two nodes carry one
\* request ID.
OpenFails ==
    /\ pc = "walking"
    /\ IF cursor = NoNode THEN DuplicateRequest(reversed)
       ELSE cursor \in Walked \/ cursor \notin files
    /\ pc' = "closed"
    /\ reply' = Answer("integrity", Empty)
    /\ Forget
    /\ UNCHANGED <<disk, acks>>

Close ==
    /\ pc = "open"
    /\ pc' = "closed"
    /\ reply' = NoReply
    /\ Forget
    /\ UNCHANGED <<disk, acks>>

-----------------------------------------------------------------------------
(***************************************************************************)
(* Appending.                                                               *)
(***************************************************************************)

IndexedRoot == IF history = <<>> THEN NoNode ELSE history[Len(history)]

Refuse(kind, q) ==
    /\ reply' = Answer(kind, q)
    /\ UNCHANGED <<disk, memory, acks>>

\* A plausible bug: append trusts refs/root without comparing it with its index.
IndexIsCurrentUnchecked == TRUE

IndexIsCurrent == root = IndexedRoot

\* append, up to the first system call that changes the disk: the node
\* exists in memory, under a hash that no other node has.
MintNode(q, h) ==
    /\ minted < MaxNodes
    /\ minted' = minted + 1
    /\ node' = [node EXCEPT ![minted + 1] = [parent |-> root, rid |-> q, rhash |-> h]]
    /\ pending' = minted + 1
    /\ pc' = "minted"
    /\ reply' = NoReply
    /\ UNCHANGED <<files, durable, root, rootSurvivors,
                   cursor, reversed, history, requestIndex, acks>>

\* A plausible bug: the expected root is compared before the index is.
AppendInnerSwapped(q, h, expected) ==
    IF expected # root
    THEN Refuse("rootChanged", q)
    ELSE IF ~IndexIsCurrent
         THEN Refuse("integrity", q)
         ELSE MintNode(q, h)

\* append with an expected root: the index must agree with the disk, then
\* the caller's expected root must.
AppendInner(q, h, expected) ==
    IF ~IndexIsCurrent
    THEN Refuse("integrity", q)
    ELSE IF expected # root
         THEN Refuse("rootChanged", q)
         ELSE MintNode(q, h)

\* A plausible bug: any content is answered with the node first stored.
AppendIdempotentAnyContent(q, h, expected) ==
    /\ pc = "open"
    /\ IF requestIndex[q] # NoNode
       THEN /\ reply' = Answer("replayed", q)
            /\ acks' = acks \cup {[rid |-> q, rhash |-> h, node |-> requestIndex[q],
                                   fresh |-> FALSE]}
            /\ UNCHANGED <<disk, memory>>
       ELSE AppendInner(q, h, expected)

AppendIdempotent(q, h, expected) ==
    /\ pc = "open"
    /\ IF requestIndex[q] # NoNode
       THEN IF node[requestIndex[q]].rhash # h
            THEN Refuse("reused", q)
            ELSE /\ reply' = Answer("replayed", q)
                 /\ acks' = acks \cup {[rid |-> q, rhash |-> h, node |-> requestIndex[q],
                                        fresh |-> FALSE]}
                 /\ UNCHANGED <<disk, memory>>
       ELSE AppendInner(q, h, expected)

\* Append and AppendAt keep whatever request ID the caller put into
\* AppendOptions and do not look it up in requestIndex.  Append passes no
\* expected root, which is to expect the root that is there.
PlainAppend(q, h, expected) ==
    /\ pc = "open"
    /\ AppendInner(q, h, expected)

\* atomicCreateFile: the synced temporary file gets the node's name.
LinkNode ==
    /\ pc = "minted"
    /\ files' = files \cup {pending}
    /\ pc' = "linked"
    /\ UNCHANGED <<node, minted, durable, root, rootSurvivors,
                   cursor, reversed, history, requestIndex, pending, reply, acks>>

\* A plausible bug: the directory of the nodes is never synced.
SyncNodesDirSkipped ==
    /\ pc = "linked"
    /\ pc' = "nodeSynced"
    /\ UNCHANGED <<node, minted, files, durable, root, rootSurvivors,
                   cursor, reversed, history, requestIndex, pending, reply, acks>>

\* atomicCreateFile: syncing the directory makes every entry in it durable.
SyncNodesDir ==
    /\ pc = "linked"
    /\ durable' = files
    /\ pc' = "nodeSynced"
    /\ UNCHANGED <<node, minted, files, root, rootSurvivors,
                   cursor, reversed, history, requestIndex, pending, reply, acks>>

\* A plausible bug: refs/root is truncated and written in place.
RenameRootInPlace ==
    /\ pc = "nodeSynced"
    /\ root' = pending
    /\ rootSurvivors' = rootSurvivors \cup {pending, NoNode}
    /\ pc' = "renamed"
    /\ UNCHANGED <<node, minted, files, durable,
                   cursor, reversed, history, requestIndex, pending, reply, acks>>

\* atomicWriteFile: the rename is visible at once, and after a power loss
\* refs/root holds the old value or the new one.
RenameRoot ==
    /\ pc = "nodeSynced"
    /\ root' = pending
    /\ rootSurvivors' = rootSurvivors \cup {pending}
    /\ pc' = "renamed"
    /\ UNCHANGED <<node, minted, files, durable,
                   cursor, reversed, history, requestIndex, pending, reply, acks>>

\* A plausible bug: a new node is not entered under its request ID.
IndexPendingHistoryOnly ==
    /\ history' = Append(history, pending)
    /\ requestIndex' = requestIndex
    /\ pending' = NoNode

\* Store.history, historyIndex and requestIndex take the new node.
IndexPending ==
    /\ history' = Append(history, pending)
    /\ requestIndex' = [q \in RequestIDs |->
                            IF node[pending].rid = q THEN pending ELSE requestIndex[q]]
    /\ pending' = NoNode

\* A plausible bug: a shadowed variable makes append return no hash.
AckPendingShadowed ==
    /\ reply' = Answer("appended", node[pending].rid)
    /\ acks' = acks \cup {[rid |-> node[pending].rid, rhash |-> node[pending].rhash,
                           node |-> NoNode, fresh |-> TRUE]}

AckPending ==
    /\ reply' = Answer("appended", node[pending].rid)
    /\ acks' = acks \cup {[rid |-> node[pending].rid, rhash |-> node[pending].rhash,
                           node |-> pending, fresh |-> TRUE]}

\* A plausible bug: the append answers without syncing the directory of refs/root.
SyncRefsDirSkipped ==
    /\ pc = "renamed"
    /\ pc' = "open"
    /\ IndexPending
    /\ AckPending
    /\ UNCHANGED <<node, minted, files, durable, root, rootSurvivors, cursor, reversed>>

\* atomicWriteFile: the directory sync settles refs/root; the append returns.
SyncRefsDir ==
    /\ pc = "renamed"
    /\ rootSurvivors' = {root}
    /\ pc' = "open"
    /\ IndexPending
    /\ AckPending
    /\ UNCHANGED <<node, minted, files, durable, root, cursor, reversed>>

\* One of the file operations fails and append returns its error.  Nothing
\* is undone: a node file that was linked and a root that was renamed stay.
AppendIOError ==
    /\ IOErrors
    /\ pc \in Appending
    /\ pc' = "open"
    /\ pending' = NoNode
    /\ reply' = Answer("ioError", node[pending].rid)
    /\ UNCHANGED <<disk, cursor, reversed, history, requestIndex, acks>>

-----------------------------------------------------------------------------
(***************************************************************************)
(* Faults.                                                                  *)
(***************************************************************************)

\* The process dies; the kernel keeps what the file system shows.
ProcessCrash ==
    /\ ProcessCrashes
    /\ pc # "closed"
    /\ pc' = "closed"
    /\ reply' = NoReply
    /\ Forget
    /\ UNCHANGED <<disk, acks>>

\* The machine dies: entries that were never synced may be lost, and refs/root
\* falls back to any of the values that may have survived.
PowerLoss ==
    /\ PowerLosses
    /\ \E lost \in SUBSET (files \ durable) : files' = files \ lost
    /\ durable' = files'
    /\ \E r \in rootSurvivors :
          /\ root' = r
          /\ rootSurvivors' = {r}
    /\ pc' = "closed"
    /\ reply' = NoReply
    /\ Forget
    /\ UNCHANGED <<node, minted, acks>>

-----------------------------------------------------------------------------
(***************************************************************************)
(* Verification: what the probes and the operator's routes read under the   *)
(* read lock of an open store.                                              *)
(***************************************************************************)

\* A plausible bug: the head is read without comparing it with the index.
VerifyHeadUnindexed == root = NoNode \/ root \in files

\* VerifyHead, for the readiness probe; an empty root verifies at once.
VerifyHead == root = NoNode \/ (IndexIsCurrent /\ root \in files)

\* VerifyAll reads every node of the indexed history.
VerifyAll == IndexIsCurrent /\ \A i \in 1..Len(history) : history[i] \in files

\* ContainsRoot: is r in the indexed history, and that history current?
ContainsRoot(r) == IndexIsCurrent /\ \E i \in 1..Len(history) : history[i] = r

\* minimumRootPresent: no root is pinned, or it is in the live history.
MinimumRootPresent(pin) == pin = NoNode \/ ContainsRoot(pin)

\* ready: the readiness probe of a server that was given pin as minimum root.
Ready(pin) == VerifyHead /\ MinimumRootPresent(pin)

-----------------------------------------------------------------------------

Next ==
    \/ OpenStore
    \/ WalkStep
    \/ RebuildIndexes
    \/ OpenFails
    \/ Close
    \/ \E q \in RequestIDs, h \in RequestHashes, expected \in Roots :
          AppendIdempotent(q, h, expected)
    \/ \E q \in PlainRequestIDs, h \in RequestHashes, expected \in Roots :
          PlainAppend(q, h, expected)
    \/ LinkNode
    \/ SyncNodesDir
    \/ RenameRoot
    \/ SyncRefsDir
    \/ AppendIOError
    \/ ProcessCrash
    \/ PowerLoss

Spec == Init /\ [][Next]_vars

-----------------------------------------------------------------------------
(***************************************************************************)
(* The chain below a root, without recursion: it is the least set that      *)
(* holds the root and the parent of each of its nodes.                      *)
(***************************************************************************)

ParentClosed(A) == \A n \in A : node[n].parent \in A \cup {NoNode}

Holds(A, r) == r = NoNode \/ r \in A

OneNodeEach(A) ==
    \A m, n \in A : node[m].rid = node[n].rid /\ node[m].rid # Empty => m = n

\* Request IDs that AppendIdempotent is not the only one to use, and no ID at all.
Shareable == PlainRequestIDs \cup {Empty}

\* In A, a request ID that was left to AppendIdempotent has one node.
Unshared(A) ==
    \A m, n \in A : node[m].rid = node[n].rid /\ m # n => node[m].rid \in Shareable

\* OpenStore would succeed with r in refs/root and only the node files in D.
Loadable(r, D) ==
    \E A \in SUBSET D : ParentClosed(A) /\ Holds(A, r) /\ OneNodeEach(A)

\* Node n is in the chain below r.
InChain(n, r) ==
    \A A \in SUBSET Nodes : ParentClosed(A) /\ Holds(A, r) => n \in A

-----------------------------------------------------------------------------
(***************************************************************************)
(* Properties.                                                              *)
(***************************************************************************)

\* Type invariant: every variable of the store keeps its type.
TypeOK ==
    /\ node \in [Nodes -> NodeRecord]
    /\ minted \in 0..MaxNodes
    /\ files \subseteq Nodes
    /\ durable \subseteq files
    /\ root \in Roots
    /\ rootSurvivors \subseteq Roots
    /\ pc \in PCs
    /\ cursor \in Roots
    /\ reversed \in Seq(Nodes)
    /\ history \in Seq(Nodes)
    /\ requestIndex \in [RequestIDs -> Roots]
    /\ pending \in Roots
    /\ pc \in Appending => pending \in Nodes
    /\ reply \in [kind : ReplyKinds, rid : RequestIDs \cup {Empty}]
    /\ acks \subseteq AckRecord

\* Whatever instant the process or the machine dies at, OpenStore succeeds
\* afterwards: each value that refs/root may then hold starts a complete chain
\* of durable node files in which no request ID occurs twice (openStore,
\* rebuildIndexes; architecture.md: a crash "cannot make the root reference a
\* partially written node").
Recoverable == \A r \in rootSurvivors : Loadable(r, durable)

\* The same when callers also put request IDs into AppendOptions for Append and
\* AppendAt: the chain is still complete, and what keeps a store from opening is
\* only that such an ID was used twice; the IDs that were left to AppendIdempotent
\* never occur twice (rebuildIndexes: "duplicate request ID").
RecoverableButForPlain ==
    \A r \in rootSurvivors :
        \E A \in SUBSET durable : ParentClosed(A) /\ Holds(A, r) /\ Unshared(A)

\* A ready store is one that works: when the probe, which reads one node,
\* succeeds, all of the history can be read and appends are not refused for a
\* stale index, and a store that must refuse them is not ready (ready).
ReadyIsSound == pc = "open" => (Ready(NoNode) <=> VerifyAll)

\* Between operations the in-memory indexes describe the chain on disk, or
\* they describe all of it but the one node of an append that failed after its
\* rename, and then the store refuses to append (append's integrity check).  A
\* request ID that callers also put into AppendOptions may have several nodes.
IndexMatchesDisk ==
    pc = "open" =>
        /\ \A i \in 1..Len(history) :
               node[history[i]].parent = IF i = 1 THEN NoNode ELSE history[i - 1]
        /\ \A q \in RequestIDs \ PlainRequestIDs, n \in 1..minted :
               requestIndex[q] = n <=> /\ \E i \in 1..Len(history) : history[i] = n
                                       /\ node[n].rid = q
        /\ \/ root = IndexedRoot
           \/ root \in durable /\ node[root].parent = IndexedRoot

\* A node whose append returned success stays in the history whatever
\* fails later: power losses and crashes at any step, in any order.
FreshAcksSurvive ==
    \A a \in acks, r \in rootSurvivors : a.fresh => InChain(a.node, r)

\* The same for every success, the replays of AppendIdempotent included
\* (storage.go: "a durable request ID"; llm.md: a replayed request "was already
\* committed; treat it as success").
AcksSurvive ==
    \A a \in acks, r \in rootSurvivors : InChain(a.node, r)

\* All the successes ever answered for one request ID, if it was left to
\* AppendIdempotent, name one node and one content, through any number of crashes,
\* failed appends and retries: two of them differ only when a power loss has taken
\* the node of one away.
OneNodePerRequest ==
    \A a, b \in acks :
        (a.rid = b.rid /\ a.rid \notin Shareable /\ InChain(a.node, root) /\ InChain(b.node, root))
            => a.node = b.node /\ a.rhash = b.rhash

\* A caller of AppendIdempotent that is told that the root changed can rely on
\* it that its request is not in the history, so it may decide anew under the same
\* request ID (llm.md: "It is safe to retain the idempotency key when the stale
\* request was definitively rejected").
RootChangedMeansAbsent ==
    [][ (reply' # reply /\ reply'.kind = "rootChanged" /\ reply'.rid \notin Shareable) =>
            \A r \in rootSurvivors, n \in 1..minted :
                node[n].rid = reply'.rid => ~InChain(n, r) ]_vars
=============================================================================
