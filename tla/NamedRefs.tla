------------------------------ MODULE NamedRefs ------------------------------
(***************************************************************************)
(* Named refs on top of the store: WriteNamedRef, WriteNamedRefAt and the   *)
(* reads that tell clients which roots there are.  A ref is a file of its   *)
(* own under refs/named, written by the same temporary file, rename and     *)
(* directory sync as refs/root, under the same mutex.                       *)
(***************************************************************************)
EXTENDS JaybaseStore

CONSTANTS Names   \* names of refs

\* Refs do not look at request IDs: the appends beside them carry none.
ASSUME RefAssumption == PlainRequestIDs = {Empty}

VARIABLES
    named,          \* the visible contents of each ref, NoNode when it is absent
    namedSurvivors, \* the contents that each ref may have after a power loss
    refPC,          \* where a write of a ref is: "idle" or "renamed"
    refReply,       \* "none", or the last answer: "ok", "conflict", "notFound", "ioError"
    seen            \* the roots that clients have learned

refVars == <<named, namedSurvivors, refPC, refReply, seen>>
allVars == <<vars, refVars>>

RefInit ==
    /\ Init
    /\ named = [x \in Names |-> NoNode]
    /\ namedSurvivors = [x \in Names |-> {NoNode}]
    /\ refPC = "idle"
    /\ refReply = "none"
    /\ seen = {}

\* The mutex is free and the store is open.
Free == pc = "open" /\ refPC = "idle"

\* Hashes a client can send: those it has learned, and those of no file.
Sendable == seen \cup (Nodes \ files)

\* CurrentRoot reads refs/root and does not look at the index.
CurrentRoot ==
    /\ Free
    /\ root # NoNode
    /\ seen' = seen \cup {root}
    /\ UNCHANGED <<vars, named, namedSurvivors, refPC, refReply>>

RefuseRef(k) ==
    /\ refReply' = k
    /\ UNCHANGED <<vars, named, namedSurvivors, refPC, seen>>

\* A plausible bug: the root is not looked up before the ref is written.
writeNamedRefUnread(x, r) ==
    /\ named' = [named EXCEPT ![x] = r]
    /\ namedSurvivors' = [namedSurvivors EXCEPT ![x] = @ \cup {r}]
    /\ refPC' = "renamed"
    /\ refReply' = "none"
    /\ UNCHANGED <<vars, seen>>

\* writeNamedRef, up to the rename: the root must be a node that can be read.
writeNamedRef(x, r) ==
    IF r \notin files
    THEN RefuseRef("notFound")
    ELSE /\ named' = [named EXCEPT ![x] = r]
         /\ namedSurvivors' = [namedSurvivors EXCEPT ![x] = @ \cup {r}]
         /\ refPC' = "renamed"
         /\ refReply' = "none"
         /\ UNCHANGED <<vars, seen>>

WriteNamedRef(x, r) ==
    /\ Free
    /\ writeNamedRef(x, r)

WriteNamedRefAt(x, r, expected) ==
    /\ Free
    /\ IF named[x] # expected
       THEN RefuseRef("conflict")
       ELSE writeNamedRef(x, r)

\* syncDir of refs/named settles every ref in it; the write returns.
SyncNamedDir ==
    /\ refPC = "renamed"
    /\ namedSurvivors' = [x \in Names |-> {named[x]}]
    /\ refPC' = "idle"
    /\ refReply' = "ok"
    /\ UNCHANGED <<vars, named, seen>>

\* An error before the rename changes nothing, one after it undoes nothing.
RefIOError ==
    /\ IOErrors
    /\ refPC = "renamed"
    /\ refPC' = "idle"
    /\ refReply' = "ioError"
    /\ UNCHANGED <<vars, named, namedSurvivors, seen>>

\* The steps of the store, which need the mutex.  An append that returns tells
\* its client the node.  Opening never fails (OpeningSucceeds in StoreProofs).
StoreStep ==
    /\ refPC = "idle"
    /\ \/ OpenStore
       \/ WalkStep
       \/ RebuildIndexes
       \/ \E h \in RequestHashes, expected \in Roots : PlainAppend(Empty, h, expected)
       \/ LinkNode
       \/ SyncNodesDir
       \/ RenameRoot
       \/ SyncRefsDir
       \/ AppendIOError
    /\ seen' = seen \cup {a.node : a \in acks'}
    /\ UNCHANGED <<named, namedSurvivors, refPC, refReply>>

RefClose ==
    /\ refPC = "idle"
    /\ Close
    /\ UNCHANGED refVars

RefProcessCrash ==
    /\ ProcessCrash
    /\ refPC' = "idle"
    /\ refReply' = "none"
    /\ UNCHANGED <<named, namedSurvivors, seen>>

RefPowerLoss ==
    /\ PowerLoss
    /\ named' \in {f \in [Names -> Roots] : \A x \in Names : f[x] \in namedSurvivors[x]}
    /\ namedSurvivors' = [x \in Names |-> {named'[x]}]
    /\ refPC' = "idle"
    /\ refReply' = "none"
    /\ UNCHANGED seen

\* A step of a process that goes on.
RefStep ==
    \/ CurrentRoot
    \/ \E x \in Names, r \in Sendable : WriteNamedRef(x, r)
    \/ \E x \in Names, r \in Sendable, expected \in Roots : WriteNamedRefAt(x, r, expected)
    \/ SyncNamedDir
    \/ RefIOError
    \/ StoreStep

\* A step with which the process ends.
RefStop ==
    \/ RefClose
    \/ RefProcessCrash
    \/ RefPowerLoss

RefNext == RefStep \/ RefStop

RefSpec == RefInit /\ [][RefNext]_allVars

-----------------------------------------------------------------------------

\* Whatever fails, a ref that is there names a node whose whole chain can be
\* read: writeNamedRef looks up the root before it writes the ref, and what it
\* found cannot be lost afterwards (llm.md: "The root must already exist").
NamedRefsResolve ==
    \A x \in Names : \A r \in namedSurvivors[x] : Loadable(r, durable)
=============================================================================
