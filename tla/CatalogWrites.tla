---------------------------- MODULE CatalogWrites ----------------------------
(***************************************************************************)
(* The catalog of installed event types (catalog.go) and its editors.  The  *)
(* server loads the file when it starts, edits its own copy through the     *)
(* HTTP routes and writes the whole copy back; the host command             *)
(* `jaybase-server catalog` loads the file, edits and writes it back in a   *)
(* process of its own.  There is no lock on the file: a writer whose copy   *)
(* is behind undoes what the others have written.  CatalogAppends adds the  *)
(* appends that the catalog governs.                                        *)
(***************************************************************************)
EXTENDS Integers, FiniteSets

CONSTANTS
    Types,      \* event types
    Commands,   \* commands
    Editors,    \* runs of the host command that may be under way at a time
    MaxEntries  \* maxCatalogEntries

ASSUME CatalogAssumption ==
    /\ MaxEntries \in Nat
    /\ "server" \notin Editors

VARIABLES
    file,    \* the catalog file; a missing file is the empty, unenforced catalog
    up,      \* is the server running?
    mem,     \* the server's copy
    editor,  \* what each run of the host command has loaded, or Idle
    \* What was promised, for the properties only.
    entriesMay,  \* the values each type's entry may have, given the answers so far
    enforcedMay, \* the values enforcement may have
    behind       \* writers whose copy misses what another has written

catVars == <<file, up, mem, editor, entriesMay, enforcedMay, behind>>

promises == <<entriesMay, enforcedMay, behind>>

\* An entry is the set of its commands; a type that is not installed has none.
Entries == [Types -> SUBSET Commands]
Catalogs == [enforced : BOOLEAN, entries : Entries]

Blank == [enforced |-> FALSE, entries |-> [t \in Types |-> {}]]

Idle == [busy |-> FALSE, doc |-> Blank]

Installed(doc) == {t \in Types : doc.entries[t] # {}}

CatInit ==
    /\ file = Blank
    /\ up = FALSE
    /\ mem = Blank
    /\ editor = [e \in Editors |-> Idle]
    /\ entriesMay = [t \in Types |-> {{}}]
    /\ enforcedMay = {FALSE}
    /\ behind = {}

-----------------------------------------------------------------------------
(***************************************************************************)
(* The three edits, as functions from a loaded catalog to the next one.     *)
(***************************************************************************)

\* A plausible bug: the limit is compared with > in Install as it is on loading.
CanInstallOneMore(doc, t) ==
    t \in Installed(doc) \/ ~(Cardinality(Installed(doc)) > MaxEntries)

CanInstall(doc, t) ==
    t \in Installed(doc) \/ ~(Cardinality(Installed(doc)) >= MaxEntries)

\* A plausible bug: the list of commands is stored as one command.
InstallingNested(doc, t, cs) ==
    [enforced |-> TRUE, entries |-> [doc.entries EXCEPT ![t] = {cs}]]

Installing(doc, t, cs) == [enforced |-> TRUE, entries |-> [doc.entries EXCEPT ![t] = cs]]

\* A plausible bug: removing the last entry returns the catalog to open writes.
RemovingReopens(doc, t) ==
    [enforced |-> doc.enforced /\ Installed(doc) # {t},
     entries  |-> [doc.entries EXCEPT ![t] = {}]]

Removing(doc, t) == [doc EXCEPT !.entries[t] = {}]

Enforcing(doc, b) == [doc EXCEPT !.enforced = b]

\* The loader's own check of the limit (decodeCatalog).
Loads(doc) == ~(Cardinality(Installed(doc)) > MaxEntries)

\* An answer of success narrows what may be there to what was written, an
\* error widens it: the rename may have happened, or not have.
Promise(ok, may, value) == IF ok THEN {value} ELSE may \cup {value}

\* A writer that is behind may put back what was there before.
Undoing(w, may, value) == IF w \in behind THEN may \cup {value} ELSE may

Holders == {e \in Editors : editor[e].busy} \cup (IF up THEN {"server"} ELSE {})

\* Writer w has renamed next into place, and keeps it as its copy if ok.
Wrote(w, next, ok) ==
    /\ file' = next
    /\ behind' = (Holders \ {w}) \cup (IF ok THEN {} ELSE behind \cap {w})

\* What the answer to an edit of the entry of t promises ...
PromiseEntry(w, ok, t, next) ==
    entriesMay' = [u \in Types |->
        Undoing(w, IF u = t THEN Promise(ok, entriesMay[t], next.entries[t]) ELSE entriesMay[u],
                next.entries[u])]

\* ... and one of the enforcement.
PromiseEnforced(w, ok, next) ==
    enforcedMay' = Undoing(w, Promise(ok, enforcedMay, next.enforced), next.enforced)

KeepEntries(w, next) ==
    entriesMay' = [u \in Types |-> Undoing(w, entriesMay[u], next.entries[u])]

KeepEnforced(w, next) == enforcedMay' = Undoing(w, enforcedMay, next.enforced)

-----------------------------------------------------------------------------
(***************************************************************************)
(* The server.                                                              *)
(***************************************************************************)

\* LoadCatalog, called by serve.
ServerStart ==
    /\ ~up
    /\ Loads(file)
    /\ up' = TRUE
    /\ mem' = file
    /\ UNCHANGED <<file, editor, promises>>

ServerStop ==
    /\ up
    /\ up' = FALSE
    /\ mem' = Blank
    /\ behind' = behind \ {"server"}
    /\ UNCHANGED <<file, editor, entriesMay, enforcedMay>>

\* A plausible bug: the server's copy is not updated after the file is.
ServerPersistFileOnly(next, ok) ==
    /\ Wrote("server", next, ok)
    /\ mem' = mem
    /\ UNCHANGED <<up, editor>>

\* persist renames the new file into place and syncs the directory; if the
\* sync fails the edit returns an error and the server keeps its old copy.
ServerPersist(next, ok) ==
    /\ Wrote("server", next, ok)
    /\ mem' = IF ok THEN next ELSE mem
    /\ UNCHANGED <<up, editor>>

HTTPInstall(t, cs, ok) ==
    LET next == Installing(mem, t, cs)
    IN  /\ up
        /\ CanInstall(mem, t)
        /\ ServerPersist(next, ok)
        /\ PromiseEntry("server", ok, t, next)
        /\ PromiseEnforced("server", ok, next)

HTTPRemove(t, ok) ==
    LET next == Removing(mem, t)
    IN  /\ up
        /\ t \in Installed(mem)
        /\ ServerPersist(next, ok)
        /\ PromiseEntry("server", ok, t, next)
        /\ KeepEnforced("server", next)

-----------------------------------------------------------------------------
(***************************************************************************)
(* The host command.                                                        *)
(***************************************************************************)

HostLoad(e) ==
    /\ ~editor[e].busy
    /\ Loads(file)
    /\ editor' = [editor EXCEPT ![e] = [busy |-> TRUE, doc |-> file]]
    /\ UNCHANGED <<file, up, mem, promises>>

HostPersist(e, next) ==
    /\ Wrote(e, next, TRUE)
    /\ editor' = [editor EXCEPT ![e] = Idle]
    /\ UNCHANGED <<up, mem>>

HostInstall(e, t, cs, ok) ==
    LET next == Installing(editor[e].doc, t, cs)
    IN  /\ editor[e].busy
        /\ CanInstall(editor[e].doc, t)
        /\ HostPersist(e, next)
        /\ PromiseEntry(e, ok, t, next)
        /\ PromiseEnforced(e, ok, next)

HostRemove(e, t, ok) ==
    LET next == Removing(editor[e].doc, t)
    IN  /\ editor[e].busy
        /\ t \in Installed(editor[e].doc)
        /\ HostPersist(e, next)
        /\ PromiseEntry(e, ok, t, next)
        /\ KeepEnforced(e, next)

HostEnforce(e, b, ok) ==
    LET next == Enforcing(editor[e].doc, b)
    IN  /\ editor[e].busy
        /\ HostPersist(e, next)
        /\ PromiseEnforced(e, ok, next)
        /\ KeepEntries(e, next)

\* `show`, or an edit that is refused or fails before the rename.
HostLeave(e) ==
    /\ editor[e].busy
    /\ editor' = [editor EXCEPT ![e] = Idle]
    /\ behind' = behind \ {e}
    /\ UNCHANGED <<file, up, mem, entriesMay, enforcedMay>>

-----------------------------------------------------------------------------

CatNext ==
    \/ ServerStart
    \/ ServerStop
    \/ \E t \in Types, cs \in (SUBSET Commands) \ {{}}, ok \in BOOLEAN :
          HTTPInstall(t, cs, ok)
    \/ \E t \in Types, ok \in BOOLEAN : HTTPRemove(t, ok)
    \/ \E e \in Editors : HostLoad(e)
    \/ \E e \in Editors : HostLeave(e)
    \/ \E e \in Editors, t \in Types, cs \in (SUBSET Commands) \ {{}}, ok \in BOOLEAN :
          HostInstall(e, t, cs, ok)
    \/ \E e \in Editors, t \in Types, ok \in BOOLEAN : HostRemove(e, t, ok)
    \/ \E e \in Editors, b \in BOOLEAN, ok \in BOOLEAN : HostEnforce(e, b, ok)

CatSpec == CatInit /\ [][CatNext]_catVars

-----------------------------------------------------------------------------

\* Type invariant: catalogs and copies keep their types.
CatTypeOK ==
    /\ file \in Catalogs
    /\ mem \in Catalogs
    /\ up \in BOOLEAN
    /\ editor \in [Editors -> [busy : BOOLEAN, doc : Catalogs]]

\* An edit that was answered with success is in the file until another edit
\* of the same entry or of the enforcement is asked for, or a writer that is
\* behind, the server or another run of the command, writes the file (main.go:
\* "Catalog updated and enforcement is on"; operations.md: "The same file can be
\* edited from the host").
AckedEditsSurvive ==
    /\ \A t \in Types : file.entries[t] \in entriesMay[t]
    /\ file.enforced \in enforcedMay

\* It is in the server's copy too, through failed edits and restarts, unless
\* the host has written the file since the server read it (main.go: "Recreate
\* Jaybase if it was already running").
CopyIsCurrent ==
    up /\ "server" \notin behind =>
        /\ \A t \in Types : mem.entries[t] \in entriesMay[t]
        /\ mem.enforced \in enforcedMay

\* Whatever the editors write, and however they overlap, the next start of the
\* server can load.
FileLoads == Loads(file)
=============================================================================
