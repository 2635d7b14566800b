--------------------------- MODULE StoreInvariant ---------------------------
(***************************************************************************)
(* The inductive invariant of JaybaseStore, in the parts in which the       *)
(* proofs of StoreProofs use it.                                            *)
(***************************************************************************)
EXTENDS JaybaseStore

Indexed == {history[i] : i \in 1..Len(history)}

\* The files: a linked node has a durable parent, which is older than it, and
\* every root that may be found after a power loss is durable.
DiskInv ==
    /\ files \subseteq 1..minted
    /\ \A n \in Nodes : n > minted => node[n] = Blank
    /\ \A n \in Nodes : node[n].parent < n
    /\ root \in rootSurvivors
    /\ rootSurvivors \subseteq durable \cup {NoNode}
    /\ \A n \in files : node[n].parent \in durable \cup {NoNode}

\* A power loss brings back the present root or one below it.
SurvivorInv == \A r \in rootSurvivors : r = NoNode \/ InChain(r, root)

\* The append that holds the mutex: its node extends the indexed chain, and
\* its file is as far as the step says.
PendingInv ==
    pc \in Appending =>
        /\ pending \in 1..minted
        /\ node[pending].parent = IndexedRoot
        /\ pc # "renamed" => root = IndexedRoot
        /\ pc = "minted" => pending \notin files
        /\ pc = "linked" => pending \in files
        /\ pc = "nodeSynced" => pending \in durable
        /\ pc = "renamed" => pending \in durable /\ root = pending

\* The files that an acknowledged node needs are in place before the next step
\* relies on them.
DurabilityInv == DiskInv /\ SurvivorInv /\ PendingInv /\ FreshAcksSurvive

\* Request IDs: no linked node has an ancestor with its own request ID, if that
\* was left to AppendIdempotent.
RequestInv ==
    \A n \in files :
        \E A \in SUBSET (durable \cup {n}) : ParentClosed(A) /\ n \in A /\ Unshared(A)

\* The indexes of an open store: a whole chain, oldest first, with each request
\* in its place.
IndexInv ==
    pc \in {"open"} \cup Appending =>
        /\ Indexed \subseteq durable
        /\ \A i \in 1..Len(history) :
               node[history[i]].parent = IF i = 1 THEN NoNode ELSE history[i - 1]
        /\ \A i, j \in 1..Len(history) :
               i < j => history[i] < history[j] /\ InChain(history[i], history[j])
        /\ Unshared(Indexed)
        /\ \A n \in Indexed : node[n].rid # Empty => requestIndex[node[n].rid] # NoNode
        /\ \A q \in RequestIDs : requestIndex[q] # NoNode =>
               requestIndex[q] \in Indexed /\ node[requestIndex[q]].rid = q

\* Between appends the index is current, or misses the one node of an append
\* that failed after its rename.
TipInv ==
    pc = "open" =>
        \/ root = IndexedRoot
        \/ root \in durable /\ node[root].parent = IndexedRoot

\* The request of the append that holds the mutex is new.
PendingRequestInv ==
    pc \in Appending =>
        (node[pending].rid \notin Shareable => requestIndex[node[pending].rid] = NoNode)

\* The walk of nodesFromRoot: the nodes read so far are a chain from the root
\* down to the one that is read next.
WalkInv ==
    pc = "walking" =>
        /\ Walked \subseteq durable
        /\ cursor \in durable \cup {NoNode}
        /\ IF reversed = <<>> THEN cursor = root ELSE reversed[1] = root
        /\ \A i \in 1..Len(reversed) :
               node[reversed[i]].parent = IF i = Len(reversed) THEN cursor ELSE reversed[i + 1]
        /\ \A i, j \in 1..Len(reversed) :
               i < j => reversed[j] < reversed[i] /\ InChain(reversed[j], reversed[i])
        /\ \A n \in Walked : cursor < n /\ (cursor = NoNode \/ InChain(cursor, n))
        /\ \A n \in Walked \cup {cursor} : n = NoNode \/ InChain(n, root)

\* A success names a node with the request and the content that was asked for.
AckInv ==
    \A a \in acks :
        /\ a.node \in 1..minted
        /\ node[a.node].rid = a.rid
        /\ node[a.node].rhash = a.rhash

HistoryInv == RequestInv /\ IndexInv /\ TipInv /\ PendingRequestInv /\ WalkInv /\ AckInv

\* Callers give request IDs to AppendIdempotent only.
RequestsAreIdempotent == PlainRequestIDs \subseteq {Empty}

\* No step of an append, of opening the store or of a fault leaves a root, an
\* index, an answer or a pending node that a later step could not build on: the
\* parts above hold together in every reachable state, and each needs the others.
StoreInv == DurabilityInv /\ HistoryInv
=============================================================================
