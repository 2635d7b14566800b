--------------------------- MODULE CatalogProofs ----------------------------
(***************************************************************************)
(* Proofs about the event catalog: every overlap of the server's and the    *)
(* host's edits, for any number of types, commands and editors.             *)
(***************************************************************************)
EXTENDS CatalogWrites, FiniteSetTheorems, TLAPS

(***************************************************************************)
(* The inductive invariant.                                                 *)
(***************************************************************************)

\* A catalog that the loader takes.  (Types need not be finite.)
Sound(doc) ==
    /\ doc \in Catalogs
    /\ IsFiniteSet(Installed(doc))
    /\ Loads(doc)

\* What doc holds is what the answers so far leave open.
Promised(doc) ==
    /\ \A t \in Types : doc.entries[t] \in entriesMay[t]
    /\ doc.enforced \in enforcedMay

\* The same, after a step.
PromisedNext(doc) ==
    /\ \A t \in Types : doc.entries[t] \in entriesMay'[t]
    /\ doc.enforced \in enforcedMay'

\* Every copy is a sound catalog, only those who hold a copy are behind, and
\* who is not behind holds what the answers leave open.  The file is what a host
\* command that is not behind has loaded; the server's copy need not be the file,
\* for a failed edit may have written it.
CatInv ==
    /\ CatTypeOK
    /\ Sound(file)
    /\ Sound(mem)
    /\ \A e \in Editors : Sound(editor[e].doc)
    /\ behind \subseteq Holders
    /\ Promised(file)
    /\ up /\ "server" \notin behind => Promised(mem)
    /\ \A e \in Editors : editor[e].busy /\ e \notin behind => editor[e].doc = file

(***************************************************************************)
(* The edits keep a catalog sound.                                          *)
(***************************************************************************)

\* The empty catalog is sound.
LEMMA BlankSound == Sound(Blank)
<1>1. Blank \in Catalogs
  BY DEF Blank, Catalogs, Entries
<1>2. Installed(Blank) = {}
  BY DEF Installed, Blank
<1>3. IsFiniteSet({}) /\ Cardinality({}) = 0
  BY FS_EmptySet
<1> QED BY <1>1, <1>2, <1>3, CatalogAssumption DEF Sound, Loads

\* Install takes one more type only below the limit.
LEMMA InstallSound ==
    ASSUME NEW doc, Sound(doc), NEW t \in Types, NEW cs \in (SUBSET Commands) \ {{}},
           CanInstall(doc, t)
    PROVE  Sound(Installing(doc, t, cs))
<1> DEFINE next == Installing(doc, t, cs)
<1>1. /\ doc.entries \in [Types -> SUBSET Commands]
      /\ next \in Catalogs
      /\ next.entries = [doc.entries EXCEPT ![t] = cs]
  BY DEF Sound, Catalogs, Entries, Installing
<1>2. Installed(next) = Installed(doc) \cup {t}
  BY <1>1 DEF Installed
<1>3. /\ IsFiniteSet(Installed(doc))
      /\ Cardinality(Installed(doc)) \in Nat
      /\ Cardinality(Installed(doc)) <= MaxEntries
  BY FS_CardinalityType, CatalogAssumption DEF Sound, Loads
<1>4. /\ IsFiniteSet(Installed(doc) \cup {t})
      /\ Cardinality(Installed(doc) \cup {t}) =
             IF t \in Installed(doc) THEN Cardinality(Installed(doc))
             ELSE Cardinality(Installed(doc)) + 1
  BY <1>3, FS_AddElement
<1>5. ~(Cardinality(Installed(next)) > MaxEntries)
  BY <1>2, <1>3, <1>4, CatalogAssumption DEF CanInstall
<1> QED BY <1>1, <1>2, <1>4, <1>5 DEF Sound, Loads

\* Remove takes a type away.
LEMMA RemoveSound ==
    ASSUME NEW doc, Sound(doc), NEW t \in Types
    PROVE  Sound(Removing(doc, t))
<1> DEFINE next == Removing(doc, t)
<1>1. /\ doc.entries \in [Types -> SUBSET Commands]
      /\ next \in Catalogs
      /\ next.entries = [doc.entries EXCEPT ![t] = {}]
  BY DEF Sound, Catalogs, Entries, Removing
<1>2. Installed(next) = Installed(doc) \ {t}
  BY <1>1 DEF Installed
<1>3. IsFiniteSet(Installed(doc)) /\ Cardinality(Installed(doc)) \in Nat
  BY FS_CardinalityType DEF Sound
<1>4. /\ IsFiniteSet(Installed(doc) \ {t})
      /\ Cardinality(Installed(doc) \ {t}) =
             IF t \in Installed(doc) THEN Cardinality(Installed(doc)) - 1
             ELSE Cardinality(Installed(doc))
  BY <1>3, FS_RemoveElement
<1>5. ~(Cardinality(Installed(next)) > MaxEntries)
  BY <1>2, <1>3, <1>4, CatalogAssumption DEF Sound, Loads
<1> QED BY <1>1, <1>2, <1>4, <1>5 DEF Sound, Loads

\* Enforcement is no matter of the entries.
LEMMA EnforceSound ==
    ASSUME NEW doc, Sound(doc), NEW b \in BOOLEAN
    PROVE  Sound(Enforcing(doc, b))
<1>1. Enforcing(doc, b) \in Catalogs /\ Enforcing(doc, b).entries = doc.entries
  BY DEF Sound, Catalogs, Enforcing
<1> QED BY <1>1 DEF Sound, Loads, Installed

(***************************************************************************)
(* What an answer promises is what was written.                             *)
(***************************************************************************)

\* The entries of doc and next differ in that of t only.
SameBut(t, doc, next) == \A u \in Types : u # t => next.entries[u] = doc.entries[u]

\* An edit of the entry of t: the entries that are written are ones that may be
\* there afterwards, and so are those of the old copy when the edit fails.
LEMMA EntryPromise ==
    ASSUME NEW w, NEW ok \in BOOLEAN, NEW t \in Types, NEW doc, NEW next,
           w \notin behind => Promised(doc),
           SameBut(t, doc, next),
           PromiseEntry(w, ok, t, next)
    PROVE  /\ \A u \in Types : next.entries[u] \in entriesMay'[u]
           /\ ~ok /\ w \notin behind => \A u \in Types : doc.entries[u] \in entriesMay'[u]
<1> SUFFICES ASSUME NEW u \in Types
             PROVE  /\ next.entries[u] \in entriesMay'[u]
                    /\ ~ok /\ w \notin behind => doc.entries[u] \in entriesMay'[u]
  OBVIOUS
<1>1. entriesMay'[u] =
          Undoing(w, IF u = t THEN Promise(ok, entriesMay[t], next.entries[t])
                     ELSE entriesMay[u],
                  next.entries[u])
  BY DEF PromiseEntry
<1>2. CASE w \in behind
  BY <1>1, <1>2 DEF Undoing
<1>3. CASE w \notin behind
  BY <1>1, <1>3 DEF Undoing, Promise, Promised, SameBut
<1> QED BY <1>2, <1>3

\* The same for an edit of the enforcement ...
LEMMA EnforcedPromise ==
    ASSUME NEW w, NEW ok \in BOOLEAN, NEW doc, NEW next,
           w \notin behind => Promised(doc),
           PromiseEnforced(w, ok, next)
    PROVE  /\ next.enforced \in enforcedMay'
           /\ ~ok /\ w \notin behind => doc.enforced \in enforcedMay'
  BY DEF PromiseEnforced, Undoing, Promise, Promised

\* ... and for what an edit leaves as it is.
LEMMA KeepPromise ==
    ASSUME NEW w, NEW doc, NEW next, w \notin behind => Promised(doc)
    PROVE  /\ next.enforced = doc.enforced /\ KeepEnforced(w, next) =>
                  /\ next.enforced \in enforcedMay'
                  /\ w \notin behind => doc.enforced \in enforcedMay'
           /\ next.entries = doc.entries /\ KeepEntries(w, next) =>
                  \A u \in Types : next.entries[u] \in entriesMay'[u]
  BY DEF KeepEnforced, KeepEntries, Undoing, Promised

\* A write leaves everybody else behind, so that only the writer's own copy and
\* the file have to be what was promised.
LEMMA WrittenInv ==
    ASSUME CatInv, NEW w, NEW next, NEW ok \in BOOLEAN,
           Sound(next), Wrote(w, next, ok), PromisedNext(next),
           \/ /\ w = "server" /\ up
              /\ mem' = IF ok THEN next ELSE mem
              /\ UNCHANGED <<up, editor>>
              /\ ~ok /\ w \notin behind => PromisedNext(mem)
           \/ /\ w \in Editors /\ editor[w].busy /\ ok
              /\ editor' = [editor EXCEPT ![w] = Idle]
              /\ UNCHANGED <<up, mem>>
    PROVE  CatInv'
<1>1. /\ file' = next
      /\ behind' = (Holders \ {w}) \cup (IF ok THEN {} ELSE behind \cap {w})
  BY DEF Wrote
<1>2. next \in Catalogs /\ Sound(next)' /\ Promised(file)'
  BY <1>1 DEF Sound, Promised, PromisedNext, Installed, Loads
<1>3. CASE /\ w = "server" /\ up
           /\ mem' = IF ok THEN next ELSE mem
           /\ UNCHANGED <<up, editor>>
           /\ ~ok /\ w \notin behind => PromisedNext(mem)
  <2>1. CatTypeOK' /\ Sound(file)' /\ Sound(mem)' /\ \A e \in Editors : Sound(editor[e].doc)'
    BY <1>1, <1>2, <1>3 DEF CatInv, CatTypeOK, Sound, Loads, Installed
  <2>2. Holders' = Holders /\ behind' \subseteq Holders'
    BY <1>1, <1>3 DEF CatInv, Holders
  <2>3. up' /\ "server" \notin behind' => Promised(mem)'
    BY <1>1, <1>2, <1>3 DEF Promised, PromisedNext
  <2>4. ASSUME NEW e \in Editors, editor'[e].busy
        PROVE  e \in behind'
    BY <1>1, <1>3, <2>4, CatalogAssumption DEF Holders
  <2> QED BY <1>2, <2>1, <2>2, <2>3, <2>4 DEF CatInv
<1>4. CASE /\ w \in Editors /\ editor[w].busy /\ ok
           /\ editor' = [editor EXCEPT ![w] = Idle]
           /\ UNCHANGED <<up, mem>>
  <2>1. /\ CatTypeOK
        /\ \A e \in Editors : editor'[e] = IF e = w THEN Idle ELSE editor[e]
        /\ editor' \in [Editors -> [busy : BOOLEAN, doc : Catalogs]]
        /\ Sound(Idle.doc)
    BY <1>4, BlankSound DEF CatInv, CatTypeOK, Idle, Sound
  <2>2. \A e \in Editors : Sound(editor[e].doc)'
    BY <2>1 DEF CatInv, Sound, Loads, Installed
  <2>3. CatTypeOK' /\ Sound(file)' /\ Sound(mem)'
    BY <1>1, <1>2, <1>4, <2>1 DEF CatInv, CatTypeOK, Sound, Loads, Installed
  <2>4. ASSUME NEW e \in Editors, editor'[e].busy
        PROVE  e \in behind'
    BY <1>1, <1>4, <2>1, <2>4 DEF Holders, Idle
  <2>5. behind' \subseteq Holders'
    BY <1>1, <1>4, <2>1 DEF Holders
  <2>6. up' => "server" \in behind'
    BY <1>1, <1>4, CatalogAssumption DEF Holders
  <2> QED BY <1>2, <2>2, <2>3, <2>4, <2>5, <2>6 DEF CatInv
<1> QED BY <1>3, <1>4

(***************************************************************************)
(* The steps.                                                               *)
(***************************************************************************)

\* A writer's copy is sound, and promised when the writer is not behind.
LEMMA CopiesPromised ==
    ASSUME CatInv
    PROVE  /\ up /\ "server" \notin behind => Promised(mem)
           /\ \A e \in Editors : editor[e].busy /\ e \notin behind => Promised(editor[e].doc)
  BY DEF CatInv

\* The edits over HTTP.
LEMMA HTTPStep ==
    ASSUME CatInv, NEW t \in Types, NEW ok \in BOOLEAN
    PROVE  /\ \A cs \in (SUBSET Commands) \ {{}} : HTTPInstall(t, cs, ok) => CatInv'
           /\ HTTPRemove(t, ok) => CatInv'
<1> PICK doc : doc = mem
  OBVIOUS
<1>1. Sound(doc)
  BY DEF CatInv
<1>2. ASSUME NEW cs \in (SUBSET Commands) \ {{}}, HTTPInstall(t, cs, ok)
      PROVE  CatInv'
  <2> PICK next : next = Installing(doc, t, cs)
    OBVIOUS
  <2>1. /\ up /\ CanInstall(doc, t)
        /\ Wrote("server", next, ok)
        /\ mem' = IF ok THEN next ELSE mem
        /\ UNCHANGED <<up, editor>>
        /\ PromiseEntry("server", ok, t, next)
        /\ PromiseEnforced("server", ok, next)
    BY <1>2 DEF HTTPInstall, ServerPersist
  <2>2. Sound(next)
    BY <1>1, <2>1, InstallSound
  <2>3. SameBut(t, doc, next)
    BY <1>1 DEF SameBut, Installing, Sound, Catalogs, Entries
  <2>4. "server" \notin behind => Promised(doc)
    BY <2>1, CopiesPromised
  <2>5. /\ \A u \in Types : next.entries[u] \in entriesMay'[u]
        /\ ~ok /\ "server" \notin behind => \A u \in Types : doc.entries[u] \in entriesMay'[u]
    BY <2>1, <2>3, <2>4, EntryPromise
  <2>6. /\ next.enforced \in enforcedMay'
        /\ ~ok /\ "server" \notin behind => doc.enforced \in enforcedMay'
    BY <2>1, <2>4, EnforcedPromise
  <2>7. PromisedNext(next) /\ (~ok /\ "server" \notin behind => PromisedNext(doc))
    BY <2>1, <2>5, <2>6 DEF PromisedNext
  <2> QED BY <2>1, <2>2, <2>7, WrittenInv
<1>3. ASSUME HTTPRemove(t, ok)
      PROVE  CatInv'
  <2> PICK next : next = Removing(doc, t)
    OBVIOUS
  <2>1. /\ up
        /\ Wrote("server", next, ok)
        /\ mem' = IF ok THEN next ELSE mem
        /\ UNCHANGED <<up, editor>>
        /\ PromiseEntry("server", ok, t, next)
        /\ KeepEnforced("server", next)
    BY <1>3 DEF HTTPRemove, ServerPersist
  <2>2. Sound(next)
    BY <1>1, RemoveSound
  <2>3. next.enforced = doc.enforced /\ SameBut(t, doc, next)
    BY <1>1 DEF SameBut, Removing, Sound, Catalogs, Entries
  <2>4. "server" \notin behind => Promised(doc)
    BY <2>1, CopiesPromised
  <2>5. /\ \A u \in Types : next.entries[u] \in entriesMay'[u]
        /\ ~ok /\ "server" \notin behind => \A u \in Types : doc.entries[u] \in entriesMay'[u]
    BY <2>1, <2>3, <2>4, EntryPromise
  <2>6. /\ next.enforced \in enforcedMay'
        /\ "server" \notin behind => doc.enforced \in enforcedMay'
    BY <2>1, <2>3, <2>4, KeepPromise
  <2>7. PromisedNext(next) /\ (~ok /\ "server" \notin behind => PromisedNext(doc))
    BY <2>1, <2>5, <2>6 DEF PromisedNext
  <2> QED BY <2>1, <2>2, <2>7, WrittenInv
<1> QED BY <1>2, <1>3

\* The edits of the host command, whose copy is gone once it has written.
LEMMA HostStep ==
    ASSUME CatInv, NEW e \in Editors, NEW ok \in BOOLEAN
    PROVE  /\ \A t \in Types, cs \in (SUBSET Commands) \ {{}} :
                  HostInstall(e, t, cs, ok) => CatInv'
           /\ \A t \in Types : HostRemove(e, t, ok) => CatInv'
           /\ \A b \in BOOLEAN : HostEnforce(e, b, ok) => CatInv'
<1> PICK doc : doc = editor[e].doc
  OBVIOUS
<1>1. Sound(doc)
  BY DEF CatInv
<1>2. ASSUME NEW next, Sound(next), editor[e].busy, HostPersist(e, next), PromisedNext(next)
      PROVE  CatInv'
  <2>1. /\ Wrote(e, next, TRUE)
        /\ editor' = [editor EXCEPT ![e] = Idle]
        /\ UNCHANGED <<up, mem>>
    BY <1>2 DEF HostPersist
  <2> QED BY <1>2, <2>1, WrittenInv
<1>3. editor[e].busy => (e \notin behind => Promised(doc))
  BY CopiesPromised
<1>4. ASSUME NEW t \in Types, NEW cs \in (SUBSET Commands) \ {{}}, HostInstall(e, t, cs, ok)
      PROVE  CatInv'
  <2> PICK next : next = Installing(doc, t, cs)
    OBVIOUS
  <2>1. /\ editor[e].busy /\ CanInstall(doc, t)
        /\ HostPersist(e, next)
        /\ PromiseEntry(e, ok, t, next)
        /\ PromiseEnforced(e, ok, next)
    BY <1>4 DEF HostInstall
  <2>2. Sound(next)
    BY <1>1, <2>1, InstallSound
  <2>3. SameBut(t, doc, next)
    BY <1>1 DEF SameBut, Installing, Sound, Catalogs, Entries
  <2>4. \A u \in Types : next.entries[u] \in entriesMay'[u]
    BY <1>3, <2>1, <2>3, EntryPromise
  <2>5. next.enforced \in enforcedMay'
    BY <1>3, <2>1, EnforcedPromise
  <2>6. PromisedNext(next)
    BY <2>4, <2>5 DEF PromisedNext
  <2> QED BY <1>2, <2>1, <2>2, <2>6
<1>5. ASSUME NEW t \in Types, HostRemove(e, t, ok)
      PROVE  CatInv'
  <2> PICK next : next = Removing(doc, t)
    OBVIOUS
  <2>1. /\ editor[e].busy
        /\ HostPersist(e, next)
        /\ PromiseEntry(e, ok, t, next)
        /\ KeepEnforced(e, next)
    BY <1>5 DEF HostRemove
  <2>2. Sound(next)
    BY <1>1, RemoveSound
  <2>3. next.enforced = doc.enforced /\ SameBut(t, doc, next)
    BY <1>1 DEF SameBut, Removing, Sound, Catalogs, Entries
  <2>4. \A u \in Types : next.entries[u] \in entriesMay'[u]
    BY <1>3, <2>1, <2>3, EntryPromise
  <2>5. next.enforced \in enforcedMay'
    BY <1>3, <2>1, <2>3, KeepPromise
  <2>6. PromisedNext(next)
    BY <2>4, <2>5 DEF PromisedNext
  <2> QED BY <1>2, <2>1, <2>2, <2>6
<1>6. ASSUME NEW b \in BOOLEAN, HostEnforce(e, b, ok)
      PROVE  CatInv'
  <2> PICK next : next = Enforcing(doc, b)
    OBVIOUS
  <2>1. /\ editor[e].busy
        /\ HostPersist(e, next)
        /\ PromiseEnforced(e, ok, next)
        /\ KeepEntries(e, next)
    BY <1>6 DEF HostEnforce
  <2>2. Sound(next)
    BY <1>1, EnforceSound
  <2>3. next.entries = doc.entries
    BY <1>1 DEF Enforcing, Sound, Catalogs
  <2>4. \A u \in Types : next.entries[u] \in entriesMay'[u]
    BY <1>3, <2>1, <2>3, KeepPromise
  <2>5. next.enforced \in enforcedMay'
    BY <1>3, <2>1, EnforcedPromise
  <2>6. PromisedNext(next)
    BY <2>4, <2>5 DEF PromisedNext
  <2> QED BY <1>2, <2>1, <2>2, <2>6
<1> QED BY <1>4, <1>5, <1>6

\* Every step keeps the copies sound and what is promised there.
LEMMA CatInvStep ==
    ASSUME CatInv, [CatNext]_catVars
    PROVE  CatInv'
<1>1. CASE UNCHANGED catVars
  BY <1>1 DEF catVars, CatInv, CatTypeOK, Sound, Loads, Installed, Holders, Promised
<1>2. CASE ServerStart
  <2>1. /\ ~up /\ up' = TRUE /\ mem' = file
        /\ UNCHANGED <<file, editor, entriesMay, enforcedMay, behind>>
    BY <1>2 DEF ServerStart, promises
  <2>2. Holders' = Holders \cup {"server"}
    BY <2>1 DEF Holders
  <2>3. CatTypeOK'
    BY <2>1 DEF CatInv, CatTypeOK
  <2>4. Sound(file') /\ Sound(mem') /\ \A e \in Editors : Sound(editor'[e].doc)
    BY <2>1 DEF CatInv
  <2>5. Promised(file)' /\ Promised(mem)'
    BY <2>1 DEF CatInv, Promised
  <2> QED BY <2>1, <2>2, <2>3, <2>4, <2>5 DEF CatInv
<1>3. CASE ServerStop
  <2>1. /\ up /\ up' = FALSE /\ mem' = Blank /\ behind' = behind \ {"server"}
        /\ UNCHANGED <<file, editor, entriesMay, enforcedMay>>
    BY <1>3 DEF ServerStop
  <2>2. Holders' = Holders \ {"server"}
    BY <2>1, CatalogAssumption DEF Holders
  <2>3. CatTypeOK'
    BY <2>1, BlankSound DEF CatInv, CatTypeOK, Sound
  <2>4. Sound(file') /\ Sound(mem') /\ \A e \in Editors : Sound(editor'[e].doc)
    BY <2>1, BlankSound DEF CatInv
  <2>5. Promised(file)'
    BY <2>1 DEF CatInv, Promised
  <2>6. behind' \subseteq Holders'
    BY <2>1, <2>2 DEF CatInv
  <2>7. ASSUME NEW e \in Editors, editor'[e].busy, e \notin behind'
        PROVE  editor'[e].doc = file'
    BY <2>1, <2>7, CatalogAssumption DEF CatInv
  <2> QED BY <2>1, <2>3, <2>4, <2>5, <2>6, <2>7 DEF CatInv
<1>4. ASSUME NEW e \in Editors, HostLoad(e)
      PROVE  CatInv'
  <2>1. /\ ~editor[e].busy
        /\ editor' = [editor EXCEPT ![e] = [busy |-> TRUE, doc |-> file]]
        /\ UNCHANGED <<file, up, mem, entriesMay, enforcedMay, behind>>
    BY <1>4 DEF HostLoad, promises
  <2>2. \A o \in Editors :
            editor'[o] = IF o = e THEN [busy |-> TRUE, doc |-> file] ELSE editor[o]
    BY <2>1 DEF CatInv, CatTypeOK
  <2>3. CatTypeOK'
    BY <2>1 DEF CatInv, CatTypeOK
  <2>4. Sound(file') /\ Sound(mem') /\ \A o \in Editors : Sound(editor'[o].doc)
    BY <2>1, <2>2 DEF CatInv
  <2>5. Promised(file)' /\ (up' /\ "server" \notin behind' => Promised(mem)')
    BY <2>1 DEF CatInv, Promised
  <2>6. behind' \subseteq Holders'
    BY <2>1, <2>2 DEF CatInv, Holders
  <2>7. ASSUME NEW o \in Editors, editor'[o].busy, o \notin behind'
        PROVE  editor'[o].doc = file'
    BY <2>1, <2>2, <2>7 DEF CatInv
  <2> QED BY <2>1, <2>3, <2>4, <2>5, <2>6, <2>7 DEF CatInv
<1>5. ASSUME NEW e \in Editors, HostLeave(e)
      PROVE  CatInv'
  <2>1. /\ editor[e].busy
        /\ editor' = [editor EXCEPT ![e] = Idle]
        /\ behind' = behind \ {e}
        /\ UNCHANGED <<file, up, mem, entriesMay, enforcedMay>>
    BY <1>5 DEF HostLeave
  <2>2. /\ \A o \in Editors : editor'[o] = IF o = e THEN Idle ELSE editor[o]
        /\ Idle.busy = FALSE /\ Sound(Idle.doc)
    BY <2>1, BlankSound DEF CatInv, CatTypeOK, Idle
  <2>3. CatTypeOK'
    BY <2>1, <2>2 DEF CatInv, CatTypeOK, Idle, Sound
  <2>4. Sound(file') /\ Sound(mem') /\ \A o \in Editors : Sound(editor'[o].doc)
    BY <2>1, <2>2 DEF CatInv
  <2>5. Promised(file)' /\ (up' /\ "server" \notin behind' => Promised(mem)')
    BY <2>1, CatalogAssumption DEF CatInv, Promised
  <2>6. behind' \subseteq Holders'
    BY <2>1, <2>2 DEF CatInv, Holders
  <2>7. ASSUME NEW o \in Editors, editor'[o].busy, o \notin behind'
        PROVE  editor'[o].doc = file'
    BY <2>1, <2>2, <2>7 DEF CatInv
  <2> QED BY <2>1, <2>3, <2>4, <2>5, <2>6, <2>7 DEF CatInv
<1> QED BY <1>1, <1>2, <1>3, <1>4, <1>5, HTTPStep, HostStep DEF CatNext

\* At first there is no file and nobody holds a copy.
LEMMA CatInvInit == CatInit => CatInv
<1> SUFFICES ASSUME CatInit PROVE CatInv
  OBVIOUS
<1>1. /\ file = Blank /\ mem = Blank /\ up = FALSE
      /\ editor = [e \in Editors |-> Idle]
      /\ entriesMay = [t \in Types |-> {{}}] /\ enforcedMay = {FALSE} /\ behind = {}
  BY DEF CatInit
<1>2. Blank \in Catalogs /\ Idle = [busy |-> FALSE, doc |-> Blank]
  BY BlankSound DEF Sound, Idle
<1>3. CatTypeOK
  BY <1>1, <1>2 DEF CatTypeOK
<1>4. Promised(file)
  BY <1>1 DEF Promised, Blank
<1> QED BY <1>1, <1>2, <1>3, <1>4, BlankSound DEF CatInv

\* The copies are sound and what is promised is there.
LEMMA CatInvariance == CatSpec => []CatInv
  BY CatInvInit, CatInvStep, PTL DEF CatSpec

(***************************************************************************)
(* The theorems.                                                            *)
(***************************************************************************)

\* The file, the server's copy and the host's copies keep their types.
THEOREM CatTypeCorrect == CatSpec => []CatTypeOK
<1>1. CatInv => CatTypeOK
  BY DEF CatInv
<1> QED BY <1>1, CatInvariance, PTL

\* A catalog edit that was answered with success is in the file until a later
\* edit, or a writer that is behind, changes it.
THEOREM EditsSurvive == CatSpec => []AckedEditsSurvive
<1>1. CatInv => AckedEditsSurvive
  BY DEF CatInv, Promised, AckedEditsSurvive
<1> QED BY <1>1, CatInvariance, PTL

\* It is in the server's copy too, unless the host has written since.
THEOREM ServerCopyIsCurrent == CatSpec => []CopyIsCurrent
<1>1. CatInv => CopyIsCurrent
  BY DEF CatInv, Promised, CopyIsCurrent
<1> QED BY <1>1, CatInvariance, PTL

\* Whatever the editors write, the next start of the server can load.
THEOREM FileAlwaysLoads == CatSpec => []FileLoads
<1>1. CatInv => FileLoads
  BY DEF CatInv, Sound, FileLoads
<1> QED BY <1>1, CatInvariance, PTL

=============================================================================
