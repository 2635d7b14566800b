--------------------------- MODULE ServeLifecycle ---------------------------
(***************************************************************************)
(* The life of a server process (serve in main.go): it opens the store,     *)
(* which takes the writer lock, answers requests, and on SIGTERM closes the *)
(* store and exits.  http.Server.Shutdown closes the listener and then      *)
(* waits for the running handlers, but ListenAndServe returns as soon as    *)
(* the listener is closed: serve goes on to its deferred store.Close and    *)
(* the process ends, whatever the handlers are doing.                       *)
(*                                                                         *)
(* An append is reduced to the checks that AppendIdempotent makes, the write *)
(* of the root and the index, with the store mutex held from first to last; *)
(* JaybaseStore has its steps on the disk.  A client may send a request     *)
(* again at any time, to whatever process serves, under the same key.       *)
(***************************************************************************)
EXTENDS Integers, FiniteSets

CONSTANTS
    Procs,     \* server processes on one data volume
    Handlers,  \* goroutines that handle an append each
    Keys,      \* idempotency keys
    Nobody,
    MaxNodes   \* bound: nodes ever minted

ASSUME LifecycleAssumption ==
    /\ Nobody \notin Procs \cup Handlers \cup Keys
    /\ MaxNodes \in Nat

VARIABLES
    phase,    \* of each process
    kernel,   \* does the kernel hold the writer lock, or a file created for it?
    owner,    \* the process that has the writer lock
    root,     \* refs/root
    node,     \* of each node: its parent, its key, the process that made it, its chain
    minted,   \* how many nodes there are
    index,    \* the indexed root of each process
    mutex,    \* the handler that holds the store mutex of each process
    handler,  \* each handler: where it is, in which process, with which request
    answered, \* the nodes that the answers to each key named.  For properties only
    late      \* has a handler used a store that was closed?  For properties only

logVars == <<root, node, minted, index, mutex, handler, answered, late>>
lifeVars == <<kernel, phase, owner, logVars>>

Phases == {"down", "serving", "draining", "closed"}

Busy == {"accepted", "minted", "renamed"}
Places == Busy \cup {"idle"}

Idle == [place |-> "idle", proc |-> Nobody, key |-> Nobody, expected |-> 0, node |-> 0]
Unminted == [parent |-> 0, key |-> Nobody, by |-> Nobody, chain |-> {}]

LifeInit ==
    /\ kernel \in BOOLEAN
    /\ phase = [p \in Procs |-> "down"]
    /\ owner = Nobody
    /\ root = 0
    /\ node = [n \in 1..MaxNodes |-> Unminted]
    /\ minted = 0
    /\ index = [p \in Procs |-> 0]
    /\ mutex = [p \in Procs |-> Nobody]
    /\ handler = [h \in Handlers |-> Idle]
    /\ answered = [k \in Keys |-> {}]
    /\ late = FALSE

\* The nodes from the first one to r.
Chain(r) == IF r = 0 THEN {} ELSE node[r].chain

\* A plausible bug: the lock file is opened but never locked.
AcquireStoreLockUnlocked(p) == owner' = p

\* flock with LOCK_NB, or the exclusive creation of the lock file where there
\* is no flock: the lock, or an error at once.
AcquireStoreLock(p) ==
    /\ owner = Nobody
    /\ owner' = p

\* storeLock.Close
ReleaseStoreLock(p) == owner' = IF owner = p THEN Nobody ELSE owner

\* openStore takes the lock, or fails at once, and indexes what is on disk.
Start(p) ==
    /\ phase[p] = "down"
    /\ AcquireStoreLock(p)
    /\ index' = [index EXCEPT ![p] = root]
    /\ phase' = [phase EXCEPT ![p] = "serving"]
    /\ UNCHANGED <<kernel, root, node, minted, mutex, handler, answered, late>>

\* The listener accepts a request and starts its handler: the first time that
\* the key is sent, or again after an answer, an error or none.  The root that the
\* client expects is one of the history, or the empty one.
Accept(p, h, k, expected) ==
    /\ phase[p] = "serving"
    /\ handler[h] = Idle
    /\ handler' = [handler EXCEPT
          ![h] = [place |-> "accepted", proc |-> p, key |-> k, expected |-> expected, node |-> 0]]
    /\ UNCHANGED <<kernel, phase, owner, root, node, minted, index, mutex, answered, late>>

\* A handler of p takes the store mutex.  Nothing asks whether Close was called.
TakesMutex(p, h) ==
    /\ handler[h].place = "accepted" /\ handler[h].proc = p
    /\ mutex[p] = Nobody
    /\ late' = (late \/ phase[p] = "closed")

\* The nodes that p's requestIndex has for the key of h.
Found(p, h) == {n \in Chain(index[p]) : node[n].key = handler[h].key}

\* The handler answers and ends.
Ends(h) == handler' = [handler EXCEPT ![h] = Idle]

\* The key is indexed.  The request hash covers the expected root, which is the
\* parent of the node that the first request made: the same content is answered
\* with that node, other content is a conflict.
AnswerIndexed(p, h) ==
    /\ TakesMutex(p, h)
    /\ Found(p, h) # {}
    /\ Ends(h)
    /\ answered' = [answered EXCEPT
          ![handler[h].key] = @ \cup {n \in Found(p, h) : node[n].parent = handler[h].expected}]
    /\ UNCHANGED <<kernel, phase, owner, root, node, minted, index, mutex>>

\* The root on disk is not the indexed one: an integrity error.
RefuseAppend(p, h) ==
    /\ TakesMutex(p, h)
    /\ Found(p, h) = {}
    /\ index[p] # root
    /\ Ends(h)
    /\ UNCHANGED <<kernel, phase, owner, root, node, minted, index, mutex, answered>>

\* The root on disk is not the one that the client expects: a conflict.
RootChanged(p, h) ==
    /\ TakesMutex(p, h)
    /\ Found(p, h) = {}
    /\ index[p] = root
    /\ handler[h].expected # root
    /\ Ends(h)
    /\ UNCHANGED <<kernel, phase, owner, root, node, minted, index, mutex, answered>>

\* append makes the node of the request, as a child of the root.
MintNode(p, h) ==
    /\ minted < MaxNodes
    /\ minted' = minted + 1
    /\ node' = [node EXCEPT
          ![minted + 1] = [parent |-> root, key |-> handler[h].key, by |-> p,
                           chain |-> Chain(root) \cup {minted + 1}]]
    /\ handler' = [handler EXCEPT ![h] = [@ EXCEPT !.place = "minted", !.node = minted + 1]]

\* A plausible bug: the handler appends without the mutex.
BeginAppendUnlocked(p, h) ==
    /\ handler[h].place = "accepted" /\ handler[h].proc = p
    /\ Found(p, h) = {}
    /\ index[p] = root
    /\ handler[h].expected = root
    /\ MintNode(p, h)
    /\ late' = (late \/ phase[p] = "closed")
    /\ UNCHANGED <<kernel, phase, owner, root, index, mutex, answered>>

\* A plausible bug: the root on disk is not compared with the indexed one.
BeginAppendUncompared(p, h) ==
    /\ TakesMutex(p, h)
    /\ Found(p, h) = {}
    /\ handler[h].expected = root
    /\ MintNode(p, h)
    /\ mutex' = [mutex EXCEPT ![p] = h]
    /\ UNCHANGED <<kernel, phase, owner, root, index, answered>>

\* append up to the write of refs/root.
BeginAppend(p, h) ==
    /\ TakesMutex(p, h)
    /\ Found(p, h) = {}
    /\ index[p] = root
    /\ handler[h].expected = root
    /\ MintNode(p, h)
    /\ mutex' = [mutex EXCEPT ![p] = h]
    /\ UNCHANGED <<kernel, phase, owner, root, index, answered>>

\* refs/root is renamed into place.
RenameRoot(p, h) ==
    /\ handler[h].place = "minted" /\ handler[h].proc = p
    /\ root' = handler[h].node
    /\ handler' = [handler EXCEPT ![h] = [@ EXCEPT !.place = "renamed"]]
    /\ UNCHANGED <<kernel, phase, owner, node, minted, index, mutex, answered, late>>

\* The index follows, the mutex is released, the request answered.
FinishAppend(p, h) ==
    /\ handler[h].place = "renamed" /\ handler[h].proc = p
    /\ index' = [index EXCEPT ![p] = handler[h].node]
    /\ mutex' = [mutex EXCEPT ![p] = Nobody]
    /\ answered' = [answered EXCEPT ![handler[h].key] = @ \cup {handler[h].node}]
    /\ Ends(h)
    /\ UNCHANGED <<kernel, phase, owner, root, node, minted, late>>

\* A write or a sync fails, before or after the rename: the mutex is released,
\* the index stays as it was, the client gets an error.
AppendFails(p, h) ==
    /\ handler[h].place \in {"minted", "renamed"} /\ handler[h].proc = p
    /\ mutex' = [mutex EXCEPT ![p] = Nobody]
    /\ Ends(h)
    /\ UNCHANGED <<kernel, phase, owner, root, node, minted, index, answered, late>>

\* SIGTERM: Shutdown closes the listener and ListenAndServe returns.
Shutdown(p) ==
    /\ phase[p] = "serving"
    /\ phase' = [phase EXCEPT ![p] = "draining"]
    /\ UNCHANGED <<kernel, owner, logVars>>

\* serve's deferred store.Close waits for the mutex and unlocks the volume.
CloseStore(p) ==
    /\ phase[p] = "draining"
    /\ mutex[p] = Nobody
    /\ ReleaseStoreLock(p)
    /\ phase' = [phase EXCEPT ![p] = "closed"]
    /\ UNCHANGED <<kernel, logVars>>

\* The handlers that are still running when process p ends.
Running(p) == {h \in Handlers : handler[h].proc = p /\ handler[h].place \in Busy}

\* Process p is gone, and its handlers, their requests unanswered, with it.
Gone(p) ==
    /\ phase' = [phase EXCEPT ![p] = "down"]
    /\ mutex' = [mutex EXCEPT ![p] = Nobody]
    /\ handler' = [h \in Handlers |-> IF h \in Running(p) THEN Idle ELSE handler[h]]
    /\ index' = [index EXCEPT ![p] = 0]
    /\ UNCHANGED <<kernel, root, node, minted, answered, late>>

\* main returns.
Exit(p) ==
    /\ phase[p] = "closed"
    /\ Gone(p)
    /\ UNCHANGED owner

\* The process is killed.  The kernel drops its lock, but not a file.
Kill(p) ==
    /\ phase[p] \in {"serving", "draining"}
    /\ IF kernel THEN ReleaseStoreLock(p) ELSE UNCHANGED owner
    /\ Gone(p)

\* The operator removes a lock file when no process is running
\* (architecture.md).
RemoveLockFile ==
    /\ ~kernel
    /\ \A p \in Procs : phase[p] = "down"
    /\ owner # Nobody
    /\ owner' = Nobody
    /\ UNCHANGED <<kernel, phase, logVars>>

LifeNext ==
    \/ \E p \in Procs :
          \/ Start(p)
          \/ Shutdown(p)
          \/ CloseStore(p)
          \/ Exit(p)
          \/ Kill(p)
          \/ \E h \in Handlers :
                \/ \E k \in Keys, expected \in Chain(root) \cup {0} : Accept(p, h, k, expected)
                \/ AnswerIndexed(p, h)
                \/ RefuseAppend(p, h)
                \/ RootChanged(p, h)
                \/ BeginAppend(p, h)
                \/ RenameRoot(p, h)
                \/ FinishAppend(p, h)
                \/ AppendFails(p, h)
    \/ RemoveLockFile

LifeSpec == LifeInit /\ [][LifeNext]_lifeVars

-----------------------------------------------------------------------------

\* A process that serves, or has not yet closed its store, has the writer
\* lock, so that no two serve one volume, even when one is started while the
\* other still shuts down; and a process that has closed or is gone keeps no lock,
\* but for a lock file (architecture.md: "an unclean process exit does not strand
\* ownership").  With it the type of phases and handlers.
ServingOwnsVolume ==
    /\ phase \in [Procs -> Phases]
    /\ \A h \in Handlers : handler[h].place \in Places
    /\ \A p \in Procs : phase[p] \in {"serving", "draining"} => owner = p
    /\ \A p \in Procs : owner = p /\ kernel => phase[p] \in {"serving", "draining"}

\* Process p is one node behind the disk, and by a node that it made itself.
BehindByOwn(p) == root # 0 /\ node[root].parent = index[p] /\ node[root].by = p

\* As long as no handler uses a store that was closed, the root only ever
\* moves to a child of the root that it replaces, and an append is refused for a
\* stale index only by a process that is behind by an append of its own, which
\* failed after it had renamed the root: no committed event is dropped from the
\* history, and no process is made to refuse by another one, by a restart, a kill in
\* the middle of an append, or a process started while another one shuts down
\* (architecture.md: one process holds the volume lock and "a second process fails
\* to open the same store").
LinearHistory ==
    [][ ~late' =>
          /\ root' # root => node'[root'].parent = root
          /\ \A p \in Procs, h \in Handlers : RefuseAppend(p, h) => BehindByOwn(p) ]_lifeVars

\* As long as no handler uses a store that was closed, all answers to a key
\* name one node, it is in the history, and no other node of the history has that
\* key: whichever process answers, however often the request is sent, at the same
\* time too, and whatever became of the earlier ones (architecture.md: "Retrying
\* identical content returns the original node, even after later events").
RetriesAgree ==
    ~late =>
        /\ \A k \in Keys : \A m, n \in answered[k] : m = n
        /\ \A k \in Keys : answered[k] \subseteq Chain(root)
        /\ \A m, n \in Chain(root) : node[m].key = node[n].key => m = n

\* When serve closes the store, the handlers of the requests that it has
\* accepted are done with it (storage.go: "A Store must not be used after Close";
\* main.go gives them 15 seconds and logs "graceful shutdown failed" when they take
\* longer).
ShutdownDrains ==
    \A p \in Procs : phase[p] = "closed" => Running(p) = {}
=============================================================================
