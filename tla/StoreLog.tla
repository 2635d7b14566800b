------------------------------ MODULE StoreLog ------------------------------
(***************************************************************************)
(* JaybaseStore implements EventLog: the log is the chain below refs/root,  *)
(* and what is settled of it is the chain below the oldest root that may    *)
(* survive a power loss.                                                    *)
(***************************************************************************)
EXTENDS JaybaseStore, FiniteSetsExt

EventOf(n) == [hash |-> n, rid |-> node[n].rid]

\* The nodes of the chain that ends in n, oldest first.
PathTo[n \in Roots] ==
    IF n = NoNode THEN <<>> ELSE Append(PathTo[node[n].parent], n)

\* The events of the chain below r, oldest first.
Chain(r) == LET path == PathTo[r] IN [i \in 1..Len(path) |-> EventOf(path[i])]

Log == INSTANCE EventLog WITH
    Events     <- [hash : Nodes, rid : RequestIDs \cup {Empty}],
    Repeatable <- Shareable,
    log        <- Chain(root),
    settled    <- Len(Chain(Min(rootSurvivors))),
    confirmed  <- {a.node : a \in {b \in acks : b.fresh}},
    replayed   <- {a.node : a \in {b \in acks : ~b.fresh}}

\* Every step of the store is a step of the log or none: the chain on disk
\* grows by one event at its end, takes a request once, if that was left to
\* AppendIdempotent, and loses only what no append has confirmed, whatever the process
\* and the machine do.
LogRefinement == Log!LogSpec
=============================================================================
