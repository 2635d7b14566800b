--------------------------- MODULE CatalogAppends ---------------------------
(***************************************************************************)
(* The append route beside the editors of the catalog (appendEvent in       *)
(* server.go): a request is authorized by the server's copy of the catalog, *)
(* and only then does the store look up its idempotency key, answer it from *)
(* the history or append it.  A client that had no answer sends the same    *)
(* request again.                                                           *)
(***************************************************************************)
EXTENDS CatalogWrites

VARIABLES
    authorized, \* the requests that have passed authorization
    committed,  \* the requests whose events are in the history
    answer      \* the last answer: to which request, and of which kind

appendVars == <<authorized, committed, answer>>
catalogVars == <<catVars, appendVars>>

\* A request appends one event, under its own idempotency key.
AppendRequests == Types \X Commands

NoAnswer == [request |-> {}, kind |-> "none"]

AppendInit ==
    /\ CatInit
    /\ authorized = {}
    /\ committed = {}
    /\ answer = NoAnswer

\* Catalog.authorize
Allows(doc, t, c) == ~doc.enforced \/ c \in doc.entries[t]

\* authorizeAppend lets the request through to the store ...
AuthorizeAppend(t, c) ==
    /\ up
    /\ Allows(mem, t, c)
    /\ authorized' = authorized \cup {<<t, c>>}
    /\ UNCHANGED <<catVars, committed, answer>>

\* ... or answers 403, whatever the store has for its key.
DenyAppend(t, c) ==
    /\ up
    /\ ~Allows(mem, t, c)
    /\ answer' = [request |-> <<t, c>>, kind |-> "denied"]
    /\ UNCHANGED <<catVars, authorized, committed>>

\* AppendIdempotent: 201 for a new event, 200 for one that the history has.
AnswerAppend(request) ==
    /\ up
    /\ request \in authorized
    /\ authorized' = authorized \ {request}
    /\ committed' = committed \cup {request}
    /\ answer' = [request |-> request,
                  kind    |-> IF request \in committed THEN "replayed" ELSE "created"]
    /\ UNCHANGED catVars

\* AppendIdempotent answers a request that the history does not have with an
\* error: the root has changed, or a write failed, and after the rename of the root
\* the event is there all the same.
FailAppend(request, there) ==
    /\ up
    /\ request \in authorized \ committed
    /\ authorized' = authorized \ {request}
    /\ committed' = IF there THEN committed \cup {request} ELSE committed
    /\ answer' = [request |-> request, kind |-> "error"]
    /\ UNCHANGED catVars

\* The catalog is edited, or the server starts or stops; the handlers of a
\* server that stops are gone.
CatalogStep ==
    /\ CatNext
    /\ authorized' = IF up' THEN authorized ELSE {}
    /\ UNCHANGED <<committed, answer>>

AppendNext ==
    \/ CatalogStep
    \/ \E t \in Types, c \in Commands : AuthorizeAppend(t, c)
    \/ \E t \in Types, c \in Commands : DenyAppend(t, c)
    \/ \E request \in AppendRequests : AnswerAppend(request)
    \/ \E request \in AppendRequests, there \in BOOLEAN : FailAppend(request, there)

AppendSpec == AppendInit /\ [][AppendNext]_catalogVars

-----------------------------------------------------------------------------

\* A request that is committed is not denied when it is sent again (llm.md:
\* "If the first request committed, Jaybase returns the original hash with
\* `replayed: true`").  It is when the catalog has been edited in between: the retry
\* is authorized before it is recognized.
CommittedRetryReplayed == answer.kind = "denied" => answer.request \notin committed
=============================================================================
