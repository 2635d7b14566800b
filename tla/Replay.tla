-------------------------------- MODULE Replay --------------------------------
(***************************************************************************)
(* Reading the history: the pages of GET /v1/events and the payload batches *)
(* of POST /v1/events/payloads, beside the writers of events and refs, under *)
(* failed writes and restarts.                                              *)
(*                                                                         *)
(* A page is read under the store's read lock, so it is one step between    *)
(* operations.  A payload batch is selected under the lock and read from    *)
(* the node files after it is released.  The client is the one of llm.md:   *)
(* it asks for the page after the last event that it has, names the root of *)
(* its first page until a page says that there is no more, and begins anew  *)
(* when the store does not know its cursor or its root.                     *)
(***************************************************************************)
EXTENDS NamedRefs

CONSTANTS Limits   \* page limits

ASSUME ReplayAssumption == Limits \subseteq Nat \ {0}

VARIABLES
    view,     \* the events that the client has, oldest first
    observed, \* the root of the scan under way, NoNode between scans
    scanned,  \* the root that the last page completed, if it completed one
    batch     \* the payload batch under way: its root and the events selected

replayVars == <<view, observed, scanned, batch>>
readVars == <<allVars, replayVars>>

NoBatch == [root |-> NoNode, selected |-> {}]

ReplayInit ==
    /\ RefInit
    /\ view = <<>>
    /\ observed = NoNode
    /\ scanned = NoNode
    /\ batch = NoBatch

LastOf(s) == IF s = <<>> THEN NoNode ELSE s[Len(s)]

\* Store.historyIndex, counted from 1; 0 for the empty hash.
Position(n) == IF n = NoNode THEN 0 ELSE CHOOSE i \in 1..Len(history) : history[i] = n

InHistory(n) == n = NoNode \/ \E i \in 1..Len(history) : history[i] = n

\* The position of the last event that the page may hold.
TargetEnd(observedRoot) == IF observedRoot = NoNode THEN Len(history) ELSE Position(observedRoot)

\* A plausible bug: the cursor is inclusive.
StartInclusive(after) == IF after = NoNode THEN 0 ELSE Position(after) - 1

\* How many events of the history come before the page.
Start(after) == Position(after)

\* A plausible bug: only the first page stops at the observed root.
EndUnbounded(after, observedRoot, limit) ==
    IF Start(after) + limit > Len(history) THEN Len(history) ELSE Start(after) + limit

End(after, observedRoot, limit) ==
    IF Start(after) + limit > TargetEnd(observedRoot) THEN TargetEnd(observedRoot) ELSE Start(after) + limit

\* Cursor and root are in the history, and the cursor is not beyond the root.
Known(after, observedRoot) ==
    /\ InHistory(observedRoot)
    /\ InHistory(after)
    /\ Position(after) <= TargetEnd(observedRoot)

\* The page that eventPageAt answers: hashes, the root it is bounded by, and
\* whether the history goes on before that root.
EventPageAt(after, observedRoot, limit) ==
    [nodes   |-> SubSeq(history, Start(after) + 1, End(after, observedRoot, limit)),
     root    |-> IF observedRoot = NoNode THEN root ELSE observedRoot,
     hasMore |-> End(after, observedRoot, limit) < TargetEnd(observedRoot)]

\* GET /v1/events for the client's next page.
GetEvents(limit) ==
    /\ Free
    /\ IndexIsCurrent
    /\ Known(LastOf(view), observed)
    /\ LET page == EventPageAt(LastOf(view), observed, limit)
       IN  /\ view' = view \o page.nodes
           /\ observed' = IF page.hasMore THEN page.root ELSE NoNode
           /\ scanned' = IF page.hasMore THEN NoNode ELSE page.root
           /\ seen' = seen \cup {page.nodes[i] : i \in 1..Len(page.nodes)}
    /\ UNCHANGED <<vars, named, namedSurvivors, refPC, refReply, batch>>

\* The store answers 404 or 409 and the client begins anew.
GetEventsUnknown ==
    /\ Free
    /\ IndexIsCurrent
    /\ ~Known(LastOf(view), observed)
    /\ view' = <<>>
    /\ observed' = NoNode
    /\ scanned' = NoNode
    /\ UNCHANGED <<allVars, batch>>

\* A plausible bug: an event only has to be in the store.
SelectableUnbounded(ids, r) == InHistory(r) /\ \A n \in ids : InHistory(n)

\* selectPayloadEventIDs accepts the events: at or before the observed root.
Selectable(ids, r) ==
    /\ InHistory(r)
    /\ \A n \in ids : InHistory(n) /\ Position(n) <= Position(r)

\* eventPayloads: the events of a batch are selected, and the lock released.
SelectPayloads(ids, r) ==
    /\ Free
    /\ IndexIsCurrent
    /\ batch = NoBatch
    /\ Selectable(ids, r)
    /\ batch' = [root |-> r, selected |-> ids]
    /\ UNCHANGED <<allVars, view, observed, scanned>>

\* eventPayloadsWithReader: an event of the batch is read from its node file,
\* without the lock, whatever the writer is doing.
ReadPayload(n) ==
    /\ n \in batch.selected
    /\ batch' = IF batch.selected = {n} THEN NoBatch
                ELSE [batch EXCEPT !.selected = @ \ {n}]
    /\ UNCHANGED <<allVars, view, observed, scanned>>

\* The writers, beside whom the readers work.
WriterStep ==
    /\ RefStep
    /\ UNCHANGED replayVars

\* A process that ends takes the batch with it; the client keeps its view.
ReadersCut ==
    /\ RefStop
    /\ batch' = NoBatch
    /\ UNCHANGED <<view, observed, scanned>>

ReplayNext ==
    \/ \E limit \in Limits : GetEvents(limit)
    \/ GetEventsUnknown
    \/ \E ids \in (SUBSET {view[i] : i \in 1..Len(view)}) \ {{}} :
          \E r \in {view[i] : i \in 1..Len(view)} : SelectPayloads(ids, r)
    \/ \E n \in Nodes : ReadPayload(n)
    \/ WriterStep
    \/ ReadersCut

ReplaySpec == ReplayInit /\ [][ReplayNext]_readVars

-----------------------------------------------------------------------------

\* What the client has collected, page after page, is one gapless chain from
\* the first event on, each event once, whatever was appended, failed, lost or
\* restarted between its pages (storage.go: "prevents concurrent appends from
\* changing the scan's contents").
ViewIsChain ==
    \A i \in 1..Len(view) :
        node[view[i]].parent = IF i = 1 THEN NoNode ELSE view[i - 1]

\* A scan that is told that there is no more has all events through the root
\* that its first page captured, and none beyond it (storage.go: clients "stop
\* exactly when that event is reached").
ScanEndsAtRoot == scanned # NoNode => LastOf(view) = scanned

\* A payload that is read after the lock is released is there to be read and
\* is at or before the batch's root, although the writer has gone on (storage.go:
\* "Node objects are immutable after their atomic creation").
PayloadsStayReadable ==
    \A n \in batch.selected : n \in files /\ InChain(n, batch.root)
=============================================================================
