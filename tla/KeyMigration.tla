---------------------------- MODULE KeyMigration ----------------------------
(***************************************************************************)
(* MigrateDataKey (migration.go) and the command migrate-key: the history   *)
(* and the named refs of a store are written again, under another data key, *)
(* to a directory that must not exist.  The source is the store of          *)
(* NamedRefs with all its faults; the call holds its read lock, so nothing  *)
(* else happens to the source until the call returns or the process dies.   *)
(*                                                                         *)
(* The destination is a store of its own: an AppendAt or WriteNamedRefAt on *)
(* it that returns has synced what it wrote and one that is cut off has     *)
(* happened or not, which is what JaybaseStore and NamedRefs are checked    *)
(* for.  The directories that hold all this are new and nothing syncs the   *)
(* entries that lead to them.  Its nodes are numbered from 1 and each is    *)
(* known by the source node that it copies.                                 *)
(***************************************************************************)
EXTENDS NamedRefs

CONSTANTS
    Leftover,    \* the name of a temporary file that a write of a ref left behind
    MaxAttempts  \* bound: calls of MigrateDataKey

ASSUME MigrationAssumption ==
    /\ Leftover \notin Names
    /\ MaxAttempts \in Nat

VARIABLES
    leftover,  \* that temporary file in refs/named of the source
    mig,       \* the call of MigrateDataKey
    dest,      \* the destination directory
    outcome,   \* what the last call returned
    manifest,  \* the result that the command has printed
    attempts,  \* how many calls there have been
    removed,   \* the events of directories that were removed since power was last lost
    \* For properties only.
    powerLost, \* has the machine lost power?
    cut        \* has it since the destination was made?

migVars == <<mig, dest, outcome, manifest, attempts, removed, cut>>
migrationVars == <<allVars, leftover, migVars, powerLost>>

Entries == Names \cup {Leftover}

\* A file that was cut short holds no root: NoNode.
NoLeftover == [there |-> FALSE, root |-> NoNode]

NotMapped == [n \in Nodes |-> NoNode]

IdleCall == [pc |-> "idle", newRoot |-> NoNode, rootMap |-> NotMapped, left |-> {}, stray |-> FALSE]

NoRefs == [e \in Entries |-> NoNode]

\* A directory is broken when node files below its refs/root are missing: it
\* does not open.
NoDirectory == [there |-> FALSE, events |-> <<>>, refs |-> NoRefs, broken |-> FALSE]

EmptyDestination == [NoDirectory EXCEPT !.there = TRUE]

NoManifest == [printed |-> FALSE, sourceRoot |-> NoNode, rootMap |-> NotMapped]

MigrationInit ==
    /\ RefInit
    /\ leftover = NoLeftover
    /\ mig = IdleCall
    /\ dest = NoDirectory
    /\ outcome = "none"
    /\ manifest = NoManifest
    /\ attempts = 0
    /\ removed = {}
    /\ powerLost = FALSE
    /\ cut = FALSE

-----------------------------------------------------------------------------
(***************************************************************************)
(* The call.                                                                *)
(***************************************************************************)

\* The directory entries that the loop over refs/named reads, and their roots.
Listed == {x \in Names : named[x] # NoNode} \cup (IF leftover.there THEN {Leftover} ELSE {})

Content(e) == IF e = Leftover THEN leftover.root ELSE named[e]

\* Lstat of the destination, the check of the index, and Mkdir.
MigrateDataKey ==
    /\ Free
    /\ mig.pc = "idle"
    /\ attempts < MaxAttempts
    /\ attempts' = attempts + 1
    /\ IF dest.there
       THEN /\ outcome' = "conflict"
            /\ UNCHANGED <<mig, dest, manifest, cut>>
       ELSE IF ~IndexIsCurrent
            THEN /\ outcome' = "integrity"
                 /\ UNCHANGED <<mig, dest, manifest, cut>>
            ELSE /\ outcome' = "none"
                 /\ mig' = [IdleCall EXCEPT !.pc = "made"]
                 /\ dest' = EmptyDestination
                 /\ manifest' = NoManifest
                 /\ cut' = FALSE
    /\ UNCHANGED <<allVars, leftover, removed, powerLost>>

\* An early return: the deferred function closes and removes the destination.
Abandon(isStray) ==
    /\ mig' = [mig EXCEPT !.pc = "cleanup", !.stray = isStray]
    /\ UNCHANGED dest

CallStep ==
    UNCHANGED <<allVars, leftover, outcome, manifest, attempts, removed, powerLost, cut>>

OpenDestination(ok) ==
    /\ mig.pc = "made"
    /\ IF ok
       THEN mig' = [mig EXCEPT !.pc = "copying"] /\ UNCHANGED dest
       ELSE Abandon(FALSE)
    /\ CallStep

\* The destination with one more event: the copy of source node n.
Appended(d, n) == [d EXCEPT !.events = Append(@, n)]

\* AppendAt refuses when the root is not the expected one.
CanAppendAt(d, expected) == Len(d.events) = expected

\* One iteration over s.history: read, decrypt, AppendAt under the new key.
CopyNode(ok) ==
    /\ mig.pc = "copying"
    /\ mig.newRoot < Len(history)
    /\ IF ok /\ CanAppendAt(dest, mig.newRoot)
       THEN LET n == history[mig.newRoot + 1] IN
            /\ dest' = Appended(dest, n)
            /\ mig' = [mig EXCEPT !.newRoot = Len(dest'.events),
                                  !.rootMap[n] = Len(dest'.events)]
       ELSE Abandon(FALSE)
    /\ CallStep

\* A plausible bug: the entries are listed while the last node is still missing.
AllCopiedButOne == mig.newRoot + 1 >= Len(history)

AllCopied == mig.newRoot = Len(history)

\* ReadDir of refs/named.
ListRefs(ok) ==
    /\ mig.pc = "copying"
    /\ AllCopied
    /\ IF ok
       THEN mig' = [mig EXCEPT !.pc = "refs", !.left = Listed] /\ UNCHANGED dest
       ELSE Abandon(FALSE)
    /\ CallStep

\* One iteration over refs/named: every file there is taken for a ref.
CopyRef(e, ok) ==
    /\ mig.pc = "refs"
    /\ e \in mig.left
    /\ IF Content(e) = NoNode
       THEN Abandon(TRUE)
       ELSE IF mig.rootMap[Content(e)] = NoNode
            THEN Abandon(TRUE)
            ELSE IF ok
                 THEN /\ dest' = [dest EXCEPT !.refs[e] = mig.rootMap[Content(e)]]
                      /\ mig' = [mig EXCEPT !.left = @ \ {e}]
                 ELSE Abandon(FALSE)
    /\ CallStep

\* The result is complete: cleanupDestination = false.
KeepDestination ==
    /\ mig.pc = "refs"
    /\ mig.left = {}
    /\ mig' = [mig EXCEPT !.pc = "closing"]
    /\ UNCHANGED dest
    /\ CallStep

\* The final Close, whose failure is reported with the result; migrate-key
\* prints the result in both cases, unless it cannot write it out.
CloseDestination(ok, printed) ==
    /\ mig.pc = "closing"
    /\ outcome' = IF ~printed THEN "unprinted" ELSE IF ok THEN "complete" ELSE "closeFailed"
    /\ manifest' = IF printed
                   THEN [printed |-> TRUE, sourceRoot |-> root, rootMap |-> mig.rootMap]
                   ELSE manifest
    /\ mig' = IdleCall
    /\ UNCHANGED <<allVars, leftover, dest, attempts, removed, powerLost, cut>>

\* What RemoveAll leaves of a directory when it fails or is cut off.  It removes
\* files in any order: without refs/root the store opens as an empty one, and with
\* refs/root and not all nodes it does not open.  Which named refs are left is not
\* followed.
Remains(events) ==
    {d \in [there : {TRUE}, events : {events, <<>>}, refs : {NoRefs}, broken : BOOLEAN] :
        d.broken => d.events # <<>>}

\* A plausible bug: the destination is removed only when it had been opened.
RemoveDestinationOpened(ok) ==
    /\ mig.pc = "cleanup"
    /\ outcome' = "failed"
    /\ dest' = IF mig.newRoot = NoNode THEN dest ELSE NoDirectory
    /\ removed' = removed \cup {dest.events}
    /\ mig' = IdleCall
    /\ UNCHANGED <<allVars, leftover, manifest, attempts, powerLost, cut>>

\* The deferred Close and RemoveAll; a failure is joined to the error.
RemoveDestination(ok) ==
    /\ mig.pc = "cleanup"
    /\ outcome' = IF ok THEN "failed" ELSE "stranded"
    /\ IF ok THEN dest' = NoDirectory ELSE dest' \in Remains(dest.events)
    /\ removed' = removed \cup {dest.events}
    /\ mig' = IdleCall
    /\ UNCHANGED <<allVars, leftover, manifest, attempts, powerLost, cut>>

-----------------------------------------------------------------------------
(***************************************************************************)
(* Around the call.                                                         *)
(***************************************************************************)

\* What a process that dies may leave: the AppendAt or WriteNamedRefAt that it
\* was in has happened or not, and RemoveAll has come as far as it has.
CutOff(d) ==
    {d}
    \cup {Appended(d, history[mig.newRoot + 1]) :
             x \in {y \in {mig} : y.pc = "copying" /\ y.newRoot < Len(history)}}
    \cup {[d EXCEPT !.refs[e] = mig.rootMap[Content(e)]] :
             e \in {x \in mig.left : Content(x) # NoNode}}
    \cup (IF mig.pc = "cleanup" THEN Remains(d.events) \cup {NoDirectory} ELSE {})

CallDies ==
    /\ outcome' = IF mig.pc = "idle" THEN outcome ELSE "died"
    /\ mig' = IdleCall
    /\ UNCHANGED <<manifest, attempts>>

ProcessDies ==
    /\ RefProcessCrash
    /\ CallDies
    /\ dest' \in CutOff(dest)
    /\ removed' = IF mig.pc = "cleanup" THEN removed \cup {dest.events} ELSE removed
    /\ UNCHANGED <<leftover, powerLost, cut>>

\* The process dies in atomicWriteFile of a ref before the rename, and its
\* temporary file stays in refs/named, whole or cut short.
DiesWritingRef(r) ==
    /\ Free
    /\ mig.pc = "idle"
    /\ ~leftover.there
    /\ r \in (Sendable \cap files) \cup {NoNode}
    /\ RefProcessCrash
    /\ leftover' = [there |-> TRUE, root |-> r]
    /\ UNCHANGED <<migVars, powerLost>>

\* What a power loss may leave of a directory.  Neither Mkdir nor openStore syncs
\* the entries of the directories that they make: it may be gone, or refs/ with all
\* refs, or objects/ with all nodes.
Survives(d) ==
    {d}
    \cup (IF d.there THEN {NoDirectory, EmptyDestination} ELSE {})
    \cup (IF d.there /\ d.events # <<>> THEN {[d EXCEPT !.broken = TRUE]} ELSE {})

\* RemoveAll is not synced either: what it has removed may be back.
MachineDies ==
    /\ RefPowerLoss
    /\ CallDies
    /\ \/ \E d \in CutOff(dest) : dest' \in Survives(d)
       \/ \E events \in removed : dest' \in Remains(events)
    /\ removed' = {}
    /\ powerLost' = TRUE
    /\ cut' = TRUE
    /\ UNCHANGED leftover

\* The source is used as a store between the calls, and not followed any more
\* after the last one.
SourceStep ==
    /\ mig.pc = "idle"
    /\ attempts < MaxAttempts
    /\ RefStep \/ RefClose
    /\ UNCHANGED <<leftover, migVars, powerLost>>

\* The operator removes a destination for which there is no manifest.
OperatorRemoves ==
    /\ mig.pc = "idle"
    /\ dest.there
    /\ ~manifest.printed
    /\ dest' = NoDirectory
    /\ removed' = removed \cup {dest.events}
    /\ UNCHANGED <<allVars, leftover, mig, outcome, manifest, attempts, powerLost, cut>>

CallNext ==
    \/ \E ok \in BOOLEAN :
          \/ OpenDestination(ok)
          \/ CopyNode(ok)
          \/ ListRefs(ok)
          \/ \E e \in Entries : CopyRef(e, ok)
          \/ \E printed \in BOOLEAN : CloseDestination(ok, printed)
          \/ RemoveDestination(ok)
    \/ KeepDestination

MigrationNext ==
    \/ MigrateDataKey
    \/ CallNext
    \/ ProcessDies
    \/ \E r \in Roots : DiesWritingRef(r)
    \/ MachineDies
    \/ SourceStep
    \/ OperatorRemoves

MigrationSpec == MigrationInit /\ [][MigrationNext]_migrationVars

-----------------------------------------------------------------------------

LastEvent(d) == IF d.events = <<>> THEN NoNode ELSE d.events[Len(d.events)]

\* The events are a gapless piece of the history from its first event on.
IsPrefixCopy(events) ==
    \A i \in 1..Len(events) :
        node[events[i]].parent = IF i = 1 THEN NoNode ELSE events[i - 1]

\* Directory d holds what the printed result says.
AsPrinted(d) ==
    /\ d.there
    /\ ~d.broken
    /\ IsPrefixCopy(d.events)
    /\ LastEvent(d) = manifest.sourceRoot
    /\ \A i \in 1..Len(d.events) : manifest.rootMap[d.events[i]] = i

\* When the command prints a result, the destination holds the whole history
\* below the source root that it names, the hash map leads from each source node to
\* its copy, and every named ref has been translated, whatever failed before, in
\* this call or in an earlier one, and so it stays until the machine loses power
\* (migration.go: "a complete cutover point"; operations.md: "Named refs are translated
\* automatically").
ManifestIsComplete ==
    /\ mig.pc = "closing" =>
           \A x \in Names : named[x] # NoNode =>
               /\ dest.refs[x] \in 1..Len(dest.events)
               /\ dest.events[dest.refs[x]] = named[x]
    /\ manifest.printed /\ ~cut => AsPrinted(dest)

\* The destination of a printed result stays complete (migration.go: "so the
\* returned destination is a complete cutover point").  A power loss can take it
\* away, or its refs/ or objects/, since the entries of the new directories were
\* never synced.
CutoverPointStays == manifest.printed => AsPrinted(dest)

\* A destination without a result is one that the operator was told about, or
\* of a process that died or of a machine that lost power, and if it opens it holds a
\* gapless prefix of the history: a call never goes on with what an earlier one left
\* (operations.md: "Jaybase closes and removes the destination it created; a cleanup
\* failure is joined into the reported error").
PartialIsPrefix ==
    dest.there =>
        /\ ~dest.broken => IsPrefixCopy(dest.events)
        /\ mig.pc = "idle" /\ ~manifest.printed =>
               cut \/ outcome \in {"stranded", "died", "conflict", "unprinted"}

\* A call finds a ref that does not lead into the history only after the
\* machine has lost power or a process has died while it wrote a ref: neither failed
\* appends nor process crashes nor restarts leave one (migration.go: "named ref %q
\* points outside the current history").
StrayRefNeedsFault == mig.stray => powerLost \/ leftover.there
=============================================================================
