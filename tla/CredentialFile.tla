--------------------------- MODULE CredentialFile ---------------------------
(***************************************************************************)
(* The credential file (auth.go), the commands add-token and revoke-token   *)
(* that edit it, and the server that loads it once and serves calls with    *)
(* it: authentication, roles (server.go) and allow scopes (allow.go).       *)
(*                                                                         *)
(* An edit reads the file, checks and changes what it read and renames a    *)
(* whole new file into place, with no lock: two edits can overlap, and time *)
(* passes between the check and the rename.  Tokens are random and each is  *)
(* issued for one credential, so a token stands for its digest.             *)
(***************************************************************************)
EXTENDS Integers, SequencesExt

CONSTANTS
    Tokens,      \* plaintext tokens
    Issues,      \* functions from tokens to the credentials they are issued for
    FirstFiles,  \* sets of tokens that a hand-written file may begin with
    Operations,  \* what callers ask for
    Editors,     \* edits that may be under way at a time
    MaxTime      \* bound: ticks of the clock

ASSUME CredentialAssumption == MaxTime \in Nat

VARIABLES
    issued,  \* the credential each token is issued for
    file,    \* the credential file: a set of records
    now,     \* the clock
    editor,  \* how far each edit is, and the file that it has read or will write
    up,      \* is the server running?
    creds,   \* Authenticator.credentials
    \* What was promised, for the properties only.
    may,     \* whether each token may be in the file, given the answers so far
    loaded,  \* may, when the server read the file
    written, \* when the edit that wrote the file was checked, 0 before the first
    read,    \* written, when the server read the file
    behind   \* edits whose copy misses what another has written

credVars == <<issued, file, now, editor, up, creds, may, loaded, written, read, behind>>

NeverExpires == MaxTime + 1

NoAllow == [scoped |-> FALSE]
Absent == [there |-> FALSE, of |-> {}]
List(s) == [there |-> TRUE, of |-> s]

\* What json and the flags make of a list, a scope and a record.
IsList(list) == list = Absent \/ list = List(list.of)

IsAllow(allow) ==
    \/ allow = NoAllow
    \/ /\ allow = [scoped |-> TRUE, types |-> allow.types,
                   commands |-> allow.commands, refs |-> allow.refs]
       /\ IsList(allow.commands)
       /\ IsList(allow.refs)

Roles == {"reader", "writer", "admin", "operator"}
Routes == {"read", "append", "putRef", "maintain", "catalog"}

ASSUME IssueAssumption ==
    /\ FirstFiles \subseteq SUBSET Tokens
    /\ \A f \in Issues, k \in Tokens :
          f[k].role \in Roles /\ f[k].notAfter \in Nat /\ IsAllow(f[k].allow)
    /\ \A op \in Operations : op.route \in Routes

NotEditing == [stage |-> "idle"]
Editing == {e \in Editors : editor[e].stage # "idle"}
NothingLoaded == [k \in Tokens |-> {FALSE}]

-----------------------------------------------------------------------------
(***************************************************************************)
(* Allow scopes.                                                            *)
(***************************************************************************)

\* typeAllowed and refAllowed: a pattern is a name, or a strict prefix of one.
\* Types are sequences of segments, ref names sequences of characters.
Matches(pattern, name) ==
    IF pattern.star THEN IsStrictPrefix(pattern.body, name) ELSE pattern.body = name

\* validateAllow: one namespace, and commands only with types.
ValidAllow(allow) ==
    allow.scoped =>
        /\ \A p, q \in allow.types : p.body[1] = q.body[1]
        /\ allow.commands.there => allow.types # {}

\* A plausible bug: a list is looked at only when it has something in it.
AuthorizeAppendNonempty(allow, type, command) ==
    allow.scoped =>
        /\ allow.types # {} => \E p \in allow.types : Matches(p, type)
        /\ allow.commands.of # {} => command \in allow.commands.of

\* Allow.authorizeAppend
AuthorizeAppend(allow, type, command) ==
    allow.scoped =>
        /\ \E p \in allow.types : Matches(p, type)
        /\ allow.commands.there => command \in allow.commands.of

\* Allow.authorizeRef
AuthorizeRef(allow, name) ==
    allow.scoped /\ allow.refs.there => \E p \in allow.refs.of : Matches(p, name)

\* json omits an empty list when the file is written: it is absent from then on.
Rewritten(allow) ==
    IF ~allow.scoped THEN allow
    ELSE LET Omitted(list) == IF list.of = {} THEN Absent ELSE list
         IN  [allow EXCEPT !.commands = Omitted(@), !.refs = Omitted(@)]

-----------------------------------------------------------------------------
(***************************************************************************)
(* The file.                                                                *)
(***************************************************************************)

RecordOf(k, allow) ==
    [token |-> k, id |-> issued[k].id, role |-> issued[k].role,
     notAfter |-> issued[k].notAfter, allow |-> allow]

\* notAfter == nil || now.Before(notAfter)
Active(c, t) == t < c.notAfter

\* The checks of LoadAuthenticator and loadCredentialFile.
Loads(doc) ==
    /\ doc # {}
    /\ \A c, d \in doc : c # d => c.id # d.id /\ c.token # d.token
    /\ \A c \in doc : ValidAllow(c.allow)

TokensOf(doc) == {c.token : c \in doc}

\* A success settles whether the token is in the file, an error leaves both
\* open, and an edit that is behind may undo what others have written.
Promised(e, k, ok, isIn, next) ==
    [j \in Tokens |->
        (IF j # k THEN may[j] ELSE IF ok THEN {isIn} ELSE may[k] \cup {isIn})
            \cup (IF e \in behind THEN {(j \in TokensOf(next))} ELSE {})]

CredInit ==
    /\ issued \in Issues
    /\ \E first \in FirstFiles :
          /\ file = {RecordOf(k, issued[k].allow) : k \in first}
          /\ may = [k \in Tokens |-> {(k \in first)}]
    /\ Loads(file)
    /\ now = 1
    /\ editor = [e \in Editors |-> NotEditing]
    /\ up = FALSE
    /\ creds = {}
    /\ loaded = NothingLoaded
    /\ written = 0
    /\ read = 0
    /\ behind = {}

Tick ==
    /\ now < MaxTime
    /\ now' = now + 1
    /\ UNCHANGED <<issued, file, editor, up, creds, may, loaded, written, read, behind>>

-----------------------------------------------------------------------------
(***************************************************************************)
(* Edits.                                                                   *)
(***************************************************************************)

\* LoadAuthenticator, which checks the file, and then loadCredentialFile, which
\* reads it again: it keeps the second reading, of a file that loads too.
LoadFile(e) ==
    /\ e \notin Editing
    /\ Loads(file)
    /\ editor' = [editor EXCEPT ![e] = [stage |-> "loaded", doc |-> file]]
    /\ UNCHANGED <<issued, file, now, up, creds, may, loaded, written, read, behind>>

\* The edit has passed its checks and is about to write next: token k will be
\* in the file, or not.
Checked(e, next, k, isIn) ==
    /\ editor' = [editor EXCEPT
          ![e] = [stage |-> "checked", doc |-> next, token |-> k, isIn |-> isIn, at |-> now]]
    /\ UNCHANGED <<issued, file, now, up, creds, may, loaded, written, read, behind>>

\* A plausible bug: the new record replaces the list.
AddedAlone(doc, c) == {c}

Added(doc, c) == doc \cup {c}

CanAdd(doc, c) ==
    /\ c.notAfter > now
    /\ ValidAllow(c.allow)
    /\ \A d \in doc : d.id # c.id /\ d.token # c.token

\* The scope that flags for the lists of allow make: no flag, no scope.
ParseAllowFlags(allow) ==
    IF ~allow.scoped THEN NoAllow
    ELSE IF allow.types = {} /\ allow.commands.of = {} /\ allow.refs.of = {} THEN NoAllow
    ELSE Rewritten(allow)

\* add-token, for a scope that its flags can ask for.
AddToken(e, k) ==
    LET c   == RecordOf(k, ParseAllowFlags(issued[k].allow))
        doc == editor[e].doc
    IN  /\ editor[e].stage = "loaded"
        /\ c.allow = issued[k].allow
        /\ CanAdd(doc, c)
        /\ Checked(e, Added(doc, c), k, TRUE)

\* A plausible bug: the check counts the credential that is being revoked.
CanRevokeSelf(doc, k) == k \in TokensOf(doc) /\ \E c \in doc : Active(c, now)

Filtered(doc, k) == {c \in doc : c.token # k}

\* The credential is there, and another one is active.
CanRevoke(doc, k) ==
    /\ k \in TokensOf(doc)
    /\ \E c \in Filtered(doc, k) : Active(c, now)

\* revoke-token
RevokeToken(e, k) ==
    LET doc == editor[e].doc
    IN  /\ editor[e].stage = "loaded"
        /\ CanRevoke(doc, k)
        /\ Checked(e, Filtered(doc, k), k, FALSE)

\* writeCredentialFile: the new file is renamed into place; the sync of the
\* directory after it may fail, and then the edit returns an error.
WriteCredentialFile(e, ok) ==
    LET edit == editor[e]
    IN  /\ edit.stage = "checked"
        /\ file' = {[c EXCEPT !.allow = Rewritten(@)] : c \in edit.doc}
        /\ editor' = [editor EXCEPT ![e] = NotEditing]
        /\ may' = Promised(e, edit.token, ok, edit.isIn, edit.doc)
        /\ written' = edit.at
        /\ behind' = Editing \ {e}
        /\ UNCHANGED <<issued, now, up, creds, loaded, read>>

\* An edit that is refused, or fails before the rename.
LeaveFile(e) ==
    /\ e \in Editing
    /\ editor' = [editor EXCEPT ![e] = NotEditing]
    /\ behind' = behind \ {e}
    /\ UNCHANGED <<issued, file, now, up, creds, may, loaded, written, read>>

-----------------------------------------------------------------------------
(***************************************************************************)
(* The server.                                                              *)
(***************************************************************************)

ServerStart ==
    /\ ~up
    /\ Loads(file)
    /\ up' = TRUE
    /\ creds' = file
    /\ loaded' = may
    /\ read' = written
    /\ UNCHANGED <<issued, file, now, editor, may, written, behind>>

ServerStop ==
    /\ up
    /\ up' = FALSE
    /\ creds' = {}
    /\ loaded' = NothingLoaded
    /\ read' = 0
    /\ UNCHANGED <<issued, file, now, editor, may, written, behind>>

\* The numbers of the roles.
Rank == [reader |-> 1, writer |-> 2, admin |-> 3, operator |-> 4]

\* A plausible bug: operator is taken for the top of the ladder.
RoleSatisfiesLadder(have, minimum) == Rank[have] >= Rank[minimum]

RoleSatisfies(have, minimum) ==
    IF have = "admin" THEN TRUE
    ELSE IF minimum = "operator" \/ have = "operator" THEN have = minimum
    ELSE Rank[have] >= Rank[minimum]

\* routes: the role that each group of routes asks for.
Minimum == [read |-> "reader", append |-> "writer", putRef |-> "writer",
            maintain |-> "admin", catalog |-> "operator"]

\* Authenticator.Authenticate
Authenticate(k) == {c \in creds : c.token = k /\ Active(c, now)}

\* appendEvent and putNamedRef ask the principal's scope.
AppendEvent(c, op) == AuthorizeAppend(c.allow, op.type, op.command)

PutNamedRef(c, op) == AuthorizeRef(c.allow, op.name)

Authorized(c, op) ==
    CASE op.route = "append" -> AppendEvent(c, op)
      [] op.route = "putRef" -> PutNamedRef(c, op)
      [] OTHER -> TRUE

\* require and the handler: what a call with token k is answered, when no
\* limiter, pinned root, malformed body, catalog or store refuses it.  A call
\* changes none of the variables here.
Verdict(k, op) ==
    IF Authenticate(k) = {} THEN "unauthenticated"
    ELSE LET principal == CHOOSE c \in Authenticate(k) : TRUE
         IN  IF RoleSatisfies(principal.role, Minimum[op.route]) /\ Authorized(principal, op)
             THEN "served" ELSE "forbidden"

CredNext ==
    \/ Tick
    \/ \E e \in Editors : LoadFile(e)
    \/ \E e \in Editors, k \in Tokens : AddToken(e, k)
    \/ \E e \in Editors, k \in Tokens : RevokeToken(e, k)
    \/ \E e \in Editors, ok \in BOOLEAN : WriteCredentialFile(e, ok)
    \/ \E e \in Editors : LeaveFile(e)
    \/ ServerStart
    \/ ServerStop

CredSpec == CredInit /\ [][CredNext]_credVars

-----------------------------------------------------------------------------
(***************************************************************************)
(* Properties.                                                              *)
(***************************************************************************)

\* A credential whose add was answered with success is in the file and a
\* revoked one is not, whatever fails in between, until an edit that is behind
\* writes the file; and an edit changes no other credential, but for lists that
\* were present and empty (AddToken, RevokeToken; main.go: "Token revoked").
CredentialEditsHold ==
    /\ \A k \in Tokens : (k \in TokensOf(file)) \in may[k]
    /\ \A c \in file : c \in {RecordOf(c.token, issued[c.token].allow),
                              RecordOf(c.token, Rewritten(issued[c.token].allow))}

\* The server can always be started again, and the file holds a credential that
\* was active when the edit that wrote it last was checked, also when edits overlap
\* (RevokeToken: "refusing to revoke the final active credential").  It may have
\* expired when the file is renamed into place.
NeverLockedOut ==
    /\ Loads(file)
    /\ written > 0 => \E c \in file : Active(c, written)

\* What a credential entitles to: the docs' table of the roles ...
RoleTable == [reader   |-> {"read"},
              writer   |-> {"read", "append", "putRef"},
              admin    |-> {"read", "append", "putRef", "maintain", "catalog"},
              operator |-> {"catalog"}]

\* ... and their reading of a scope: types must match, and a list of commands
\* or refs that is present must have a match, also when it is empty.
Refused(allow, op) ==
    CASE op.route = "append" ->
             \/ {p \in allow.types : Matches(p, op.type)} = {}
             \/ allow.commands # Absent /\ op.command \notin allow.commands.of
      [] op.route = "putRef" ->
             allow.refs # Absent /\ {p \in allow.refs.of : Matches(p, op.name)} = {}
      [] OTHER -> FALSE

ScopeAllows(allow, op) == allow = NoAllow \/ ~Refused(allow, op)

EntitledBy(k, allow, op) ==
    /\ now < issued[k].notAfter
    /\ op.route \in RoleTable[issued[k].role]
    /\ ScopeAllows(allow, op)

Entitled(k, op) == EntitledBy(k, issued[k].allow, op)

\* The server serves only what the credential that the token was issued for
\* entitles to, and nothing for a token that was revoked before the server
\* started, through any edits, failures, restarts and expiries (require,
\* authorizeAppend, authorizeRef); only when an edit has written the file that the
\* server read may it serve what the scope allows without its empty lists.
ServedAreEntitled ==
    up => \A k \in Tokens, op \in Operations :
              Verdict(k, op) = "served" =>
                  /\ TRUE \in loaded[k]
                  /\ \/ Entitled(k, op)
                     \/ read > 0 /\ EntitledBy(k, Rewritten(issued[k].allow), op)

\* The server serves only what the scope allows that the token was issued with
\* (api.md: "if `commands` is present, the command must be listed exactly").  It
\* serves more when the scope has a list that is present and empty and any other
\* credential was added or revoked: json leaves the list out.
ScopesAreKept ==
    up => \A k \in Tokens, op \in Operations :
              Verdict(k, op) = "served" => ScopeAllows(issued[k].allow, op)

\* Nothing is refused that a token is entitled to which was certainly in the
\* file when the server started (main.go: "recreate the service to load the updated
\* auth file").
EntitledAreServed ==
    up => \A k \in Tokens, op \in Operations :
              loaded[k] = {TRUE} /\ Entitled(k, op) => Verdict(k, op) = "served"
=============================================================================
