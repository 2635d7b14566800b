-------------------------- MODULE CredentialProofs --------------------------
(***************************************************************************)
(* Proofs about the credential file, its editors and the server that serves *)
(* calls with it, for any tokens, credentials, scopes and operations.       *)
(***************************************************************************)
EXTENDS CredentialFile, TLAPS

(***************************************************************************)
(* The inductive invariant.                                                 *)
(***************************************************************************)

\* A record is what the token was issued for, before or after a rewrite.
AuthenticRecord(c) ==
    /\ c.token \in Tokens
    /\ c \in {RecordOf(c.token, issued[c.token].allow),
              RecordOf(c.token, Rewritten(issued[c.token].allow))}

Authentic(doc) == \A c \in doc : AuthenticRecord(c)

\* What is in doc is what the answers that m stands for leave open.
Agrees(doc, m) ==
    \A k \in Tokens :
        /\ k \in TokensOf(doc) => TRUE \in m[k]
        /\ k \notin TokensOf(doc) => FALSE \in m[k]

\* A record as a hand-written file has it: its scope is the one that was issued.
Untouched(doc) == \A c \in doc : c = RecordOf(c.token, issued[c.token].allow)

\* What an edit has read, or will write, loads, and differs from the file in its
\* own token only, unless it is stale: the file was written since it was read.
EditOK(edit, stale) ==
    edit.stage # "idle" =>
        /\ edit.stage \in {"loaded", "checked"}
        /\ Authentic(edit.doc)
        /\ Loads(edit.doc)
        /\ edit.stage = "loaded" /\ ~stale => edit.doc = file
        /\ edit.stage = "checked" =>
               /\ edit.token \in Tokens
               /\ edit.isIn \in BOOLEAN
               /\ edit.at \in Nat /\ edit.at > 0
               /\ \E c \in edit.doc : Active(c, edit.at)
               /\ edit.token \in TokensOf(edit.doc) <=> edit.isIn
               /\ ~stale => \A j \in Tokens : j # edit.token =>
                                (j \in TokensOf(edit.doc) <=> j \in TokensOf(file))

EditorInv ==
    /\ editor = [e \in Editors |-> editor[e]]
    /\ behind \subseteq Editing
    /\ \A e \in Editors : EditOK(editor[e], e \in behind)

FileInv ==
    /\ Authentic(file)
    /\ Loads(file)
    /\ Agrees(file, may)
    /\ written \in Nat
    /\ written > 0 => \E c \in file : Active(c, written)
    /\ written = 0 => Untouched(file)

ServerInv ==
    up => /\ Authentic(creds)
          /\ Agrees(creds, loaded)
          /\ read \in Nat
          /\ read = 0 => Untouched(creds)

CredInv ==
    /\ issued \in Issues
    /\ now \in Nat /\ now > 0
    /\ EditorInv
    /\ FileInv
    /\ ServerInv

(***************************************************************************)
(* Rewriting a file.                                                        *)
(***************************************************************************)

\* What a rewrite makes of a scope.
LEMMA RewrittenScope ==
    ASSUME NEW t, NEW c, NEW r
    PROVE  Rewritten([scoped |-> TRUE, types |-> t, commands |-> c, refs |-> r]) =
               [scoped |-> TRUE, types |-> t,
                commands |-> IF c.of = {} THEN Absent ELSE c,
                refs     |-> IF r.of = {} THEN Absent ELSE r]
  BY DEF Rewritten

\* A rewrite drops empty lists and nothing else, and a second one changes nothing.
LEMMA RewrittenAllow ==
    ASSUME NEW allow, IsAllow(allow)
    PROVE  /\ Rewritten(Rewritten(allow)) = Rewritten(allow)
           /\ Rewritten(allow).scoped = allow.scoped
           /\ ValidAllow(allow) => ValidAllow(Rewritten(allow))
           /\ allow.scoped =>
                  /\ Rewritten(allow).types = allow.types
                  /\ Rewritten(allow).commands =
                         IF allow.commands.of = {} THEN Absent ELSE allow.commands
                  /\ Rewritten(allow).refs =
                         IF allow.refs.of = {} THEN Absent ELSE allow.refs
<1>1. CASE allow = NoAllow
  BY <1>1 DEF NoAllow, Rewritten, ValidAllow
<1>2. CASE allow # NoAllow
  <2>1. PICK t, c, r : allow = [scoped |-> TRUE, types |-> t, commands |-> c, refs |-> r]
    BY <1>2 DEF IsAllow
  <2>2. PICK C, R : /\ C = IF c.of = {} THEN Absent ELSE c
                    /\ R = IF r.of = {} THEN Absent ELSE r
    OBVIOUS
  <2>3. PICK b : b = Rewritten(allow)
    OBVIOUS
  <2>4. b = [scoped |-> TRUE, types |-> t, commands |-> C, refs |-> R]
    BY <2>1, <2>2, <2>3, RewrittenScope
  <2>5. (IF C.of = {} THEN Absent ELSE C) = C /\ (IF R.of = {} THEN Absent ELSE R) = R
    BY <2>2 DEF Absent
  <2>6. Rewritten(b) = b
    BY <2>4, <2>5, RewrittenScope
  <2>7. C.there => c.there
    BY <2>2 DEF Absent
  <2>8. /\ allow.scoped = TRUE /\ allow.types = t /\ allow.commands = c /\ allow.refs = r
        /\ b.scoped = TRUE /\ b.types = t /\ b.commands = C /\ b.refs = R
    BY <2>1, <2>4
  <2>9. ValidAllow(allow) => ValidAllow(b)
    BY <2>7, <2>8 DEF ValidAllow
  <2> QED BY <2>2, <2>3, <2>6, <2>8, <2>9
<1> QED BY <1>1, <1>2

\* The scopes that tokens are issued for are scopes.
LEMMA IssuedAllow ==
    ASSUME issued \in Issues, NEW k \in Tokens
    PROVE  IsAllow(issued[k].allow)
  BY IssueAssumption

\* A record of the new file, and the record that it was written from.
LEMMA RewrittenRecord ==
    ASSUME issued \in Issues, NEW c, AuthenticRecord(c), NEW d,
           d = [c EXCEPT !.allow = Rewritten(@)]
    PROVE  /\ d.token = c.token /\ d.id = c.id /\ d.notAfter = c.notAfter
           /\ d = RecordOf(c.token, Rewritten(issued[c.token].allow))
           /\ ValidAllow(c.allow) => ValidAllow(d.allow)
<1> DEFINE allow == issued[c.token].allow
<1>1. c.token \in Tokens /\ IsAllow(allow)
  BY IssuedAllow DEF AuthenticRecord
<1>2. Rewritten(Rewritten(allow)) = Rewritten(allow) /\ (ValidAllow(allow) => ValidAllow(Rewritten(allow)))
  BY <1>1, RewrittenAllow
<1>3. c.allow = allow \/ c.allow = Rewritten(allow)
  BY DEF AuthenticRecord, RecordOf
<1> HIDE DEF allow
<1>4. Rewritten(c.allow) = Rewritten(allow)
  BY <1>2, <1>3
<1>5. c = RecordOf(c.token, allow) \/ c = RecordOf(c.token, Rewritten(allow))
  BY DEF AuthenticRecord, allow
<1>6. /\ d.token = c.token /\ d.id = c.id /\ d.notAfter = c.notAfter
      /\ d = RecordOf(c.token, Rewritten(allow))
  BY <1>4, <1>5 DEF RecordOf
<1>7. d.allow = Rewritten(allow)
  BY <1>6 DEF RecordOf
<1> QED BY <1>2, <1>3, <1>6, <1>7 DEF allow

\* The new file holds the tokens that were written, and loads.
LEMMA RewrittenFile ==
    ASSUME issued \in Issues, NEW next, Authentic(next), Loads(next), NEW new,
           new = {[c EXCEPT !.allow = Rewritten(@)] : c \in next}
    PROVE  /\ Authentic(new)
           /\ Loads(new)
           /\ TokensOf(new) = TokensOf(next)
           /\ \A t : (\E c \in next : Active(c, t)) => \E c \in new : Active(c, t)
<1>1. \A c \in next : \E d \in new :
          /\ d = [c EXCEPT !.allow = Rewritten(@)]
          /\ d.token = c.token /\ d.id = c.id /\ d.notAfter = c.notAfter
  BY RewrittenRecord DEF Authentic
<1>2. \A d \in new : \E c \in next :
          /\ d = [c EXCEPT !.allow = Rewritten(@)]
          /\ d.token = c.token /\ d.id = c.id /\ d.notAfter = c.notAfter
          /\ d = RecordOf(c.token, Rewritten(issued[c.token].allow))
          /\ ValidAllow(c.allow) => ValidAllow(d.allow)
  <2> SUFFICES ASSUME NEW d \in new
               PROVE  \E c \in next :
                          /\ d = [c EXCEPT !.allow = Rewritten(@)]
                          /\ d.token = c.token /\ d.id = c.id /\ d.notAfter = c.notAfter
                          /\ d = RecordOf(c.token, Rewritten(issued[c.token].allow))
                          /\ ValidAllow(c.allow) => ValidAllow(d.allow)
    OBVIOUS
  <2>1. PICK c \in next : d = [c EXCEPT !.allow = Rewritten(@)]
    OBVIOUS
  <2>2. AuthenticRecord(c)
    BY DEF Authentic
  <2> QED BY <2>1, <2>2, RewrittenRecord
<1>3. Authentic(new)
  <2> SUFFICES ASSUME NEW d \in new PROVE AuthenticRecord(d)
    BY DEF Authentic
  <2>1. PICK c \in next : /\ d.token = c.token
                          /\ d = RecordOf(c.token, Rewritten(issued[c.token].allow))
    BY <1>2
  <2>2. c.token \in Tokens
    BY DEF Authentic, AuthenticRecord
  <2> QED BY <2>1, <2>2 DEF AuthenticRecord
<1>4. Loads(new)
  <2>1. new # {}
    BY <1>1 DEF Loads
  <2>2. ASSUME NEW d1 \in new, NEW d2 \in new, d1 # d2
        PROVE  d1.id # d2.id /\ d1.token # d2.token
    <3>1. PICK c1 \in next : d1 = [c1 EXCEPT !.allow = Rewritten(@)]
                             /\ d1.token = c1.token /\ d1.id = c1.id
      BY <1>2
    <3>2. PICK c2 \in next : d2 = [c2 EXCEPT !.allow = Rewritten(@)]
                             /\ d2.token = c2.token /\ d2.id = c2.id
      BY <1>2
    <3>3. c1 # c2
      BY <2>2, <3>1, <3>2
    <3> QED BY <3>1, <3>2, <3>3 DEF Loads
  <2>3. \A d \in new : ValidAllow(d.allow)
    BY <1>2 DEF Loads
  <2> QED BY <2>1, <2>2, <2>3 DEF Loads
<1>5. TokensOf(new) = TokensOf(next)
  <2>1. \A c \in next : \E d \in new : d.token = c.token
    BY <1>1
  <2>2. \A d \in new : \E c \in next : d.token = c.token
    BY <1>2
  <2>3. TokensOf(next) \subseteq TokensOf(new)
    BY <2>1, Zenon DEF TokensOf
  <2>4. TokensOf(new) \subseteq TokensOf(next)
    BY <2>2, Zenon DEF TokensOf
  <2> QED BY <2>3, <2>4
<1>6. ASSUME NEW t, NEW c \in next, Active(c, t)
      PROVE  \E d \in new : Active(d, t)
  BY <1>1, <1>6 DEF Active
<1> QED BY <1>3, <1>4, <1>5, <1>6

(***************************************************************************)
(* The steps.                                                               *)
(***************************************************************************)

\* An edit stays in order while nothing is written, and when it becomes stale.
LEMMA EditKept ==
    ASSUME NEW edit, NEW stale, EditOK(edit, stale), issued' = issued,
           NEW staler, stale => staler, file' = file \/ staler
    PROVE  EditOK(edit, staler)'
<1>1. Authentic(edit.doc) => Authentic(edit.doc)'
  BY DEF Authentic, AuthenticRecord, RecordOf
<1>2. CASE file' = file
  BY <1>1, <1>2 DEF EditOK, TokensOf, Loads, ValidAllow, Active
<1>3. CASE staler
  BY <1>1, <1>3 DEF EditOK, TokensOf, Loads, ValidAllow, Active
<1> QED BY <1>2, <1>3

\* The editors when one of them has taken a step that writes nothing.
LEMMA EditStep ==
    ASSUME EditorInv, NEW e \in Editors, NEW edit, editor' = [editor EXCEPT ![e] = edit],
           EditOK(edit, e \in behind'), behind' = behind \/ behind' = behind \ {e},
           edit.stage = "idle" => e \notin behind',
           UNCHANGED <<issued, file>>
    PROVE  EditorInv'
<1>1. /\ editor' = [o \in Editors |-> editor'[o]]
      /\ \A o \in Editors : editor'[o] = IF o = e THEN edit ELSE editor[o]
  BY DEF EditorInv
<1>2. behind' \subseteq Editing'
  <2>1. ASSUME NEW o \in behind' PROVE o \in Editors /\ editor'[o].stage # "idle"
    BY <1>1 DEF EditorInv, Editing
  <2> QED BY <2>1 DEF Editing
<1>3. ASSUME NEW o \in Editors
      PROVE  EditOK(editor[o], o \in behind)'
  <2>1. PICK d : d = editor'[o]
    OBVIOUS
  <2>2. PICK stale : stale = (o \in behind')
    OBVIOUS
  <2>3. EditOK(d, stale)
    <3>1. CASE o = e
      BY <1>1, <2>1, <2>2, <3>1
    <3>2. CASE o # e
      <4>1. (o \in behind) = stale
        BY <2>2, <3>2
      <4>2. EditOK(editor[o], o \in behind)
        BY DEF EditorInv
      <4> QED BY <1>1, <2>1, <3>2, <4>1, <4>2
    <3> QED BY <3>1, <3>2
  <2>4. EditOK(d, stale)'
    BY <2>3, EditKept
  <2> QED BY <2>1, <2>2, <2>4
<1> QED BY <1>1, <1>2, <1>3 DEF EditorInv

\* The file and the server are in order when nothing is written or read.
LEMMA FileKept ==
    ASSUME FileInv, UNCHANGED <<issued, file, may, written>>
    PROVE  FileInv'
  BY DEF FileInv, Authentic, AuthenticRecord, RecordOf, Agrees, TokensOf, Untouched

LEMMA ServerKept ==
    ASSUME ServerInv, UNCHANGED <<issued, up, creds, loaded, read>>
    PROVE  ServerInv'
  BY DEF ServerInv, Authentic, AuthenticRecord, RecordOf, Agrees, TokensOf, Untouched

\* An edit is renamed into place.
LEMMA WriteStep ==
    ASSUME CredInv, NEW e \in Editors, NEW ok \in BOOLEAN, WriteCredentialFile(e, ok)
    PROVE  CredInv'
<1> PICK edit : edit = editor[e]
  OBVIOUS
<1> PICK next : next = edit.doc
  OBVIOUS
<1> PICK k : k = edit.token
  OBVIOUS
<1> PICK isIn : isIn = edit.isIn
  OBVIOUS
<1>1. /\ edit.stage = "checked"
      /\ file' = {[c EXCEPT !.allow = Rewritten(@)] : c \in next}
      /\ editor' = [editor EXCEPT ![e] = NotEditing]
      /\ may' = Promised(e, k, ok, isIn, next)
      /\ written' = edit.at
      /\ behind' = Editing \ {e}
      /\ UNCHANGED <<issued, now, up, creds, loaded, read>>
  BY DEF WriteCredentialFile
<1>2. /\ Authentic(next) /\ Loads(next)
      /\ k \in Tokens /\ isIn \in BOOLEAN
      /\ edit.at \in Nat /\ edit.at > 0
      /\ \E c \in next : Active(c, edit.at)
      /\ k \in TokensOf(next) <=> isIn
      /\ e \notin behind => \A j \in Tokens : j # k =>
                                (j \in TokensOf(next) <=> j \in TokensOf(file))
  <2>1. EditOK(edit, e \in behind)
    BY DEF CredInv, EditorInv
  <2> QED BY <1>1, <2>1 DEF EditOK
<1>3. PICK new : new = file'
  OBVIOUS
<1>4. /\ Authentic(new) /\ Loads(new)
      /\ TokensOf(new) = TokensOf(next)
      /\ \E c \in new : Active(c, edit.at)
  BY <1>1, <1>2, <1>3, RewrittenFile DEF CredInv
<1>5. ASSUME NEW j \in Tokens
      PROVE  /\ j \in TokensOf(new) => TRUE \in may'[j]
             /\ j \notin TokensOf(new) => FALSE \in may'[j]
  <2>1. may'[j] = (IF j # k THEN may[j] ELSE IF ok THEN {isIn} ELSE may[k] \cup {isIn})
                      \cup (IF e \in behind THEN {(j \in TokensOf(next))} ELSE {})
    BY <1>1 DEF Promised
  <2>2. CASE j = k
    <3>1. isIn \in may'[j]
      BY <2>1, <2>2
    <3>2. CASE isIn = TRUE
      BY <1>2, <1>4, <2>2, <3>1, <3>2
    <3>3. CASE isIn = FALSE
      BY <1>2, <1>4, <2>2, <3>1, <3>3
    <3> QED BY <1>2, <3>2, <3>3
  <2>3. CASE j # k /\ e \in behind
    <3>1. (j \in TokensOf(next)) \in may'[j]
      BY <2>1, <2>3
    <3>2. CASE j \in TokensOf(next)
      <4>1. (j \in TokensOf(next)) = TRUE
        BY <3>2
      <4> QED BY <1>4, <3>1, <3>2, <4>1
    <3>3. CASE j \notin TokensOf(next)
      <4>1. (j \in TokensOf(next)) = FALSE
        BY <3>3
      <4> QED BY <1>4, <3>1, <3>3, <4>1
    <3> QED BY <3>2, <3>3
  <2>4. CASE j # k /\ e \notin behind
    <3>1. j \in TokensOf(new) <=> j \in TokensOf(file)
      BY <1>2, <1>4, <2>4
    <3>2. may'[j] = may[j]
      BY <2>1, <2>4
    <3> QED BY <3>1, <3>2 DEF CredInv, FileInv, Agrees
  <2> QED BY <2>2, <2>3, <2>4
<1>6. FileInv'
  <2>1. Agrees(file, may)'
    BY <1>3, <1>5 DEF Agrees, TokensOf
  <2>2. Authentic(file)'
    BY <1>1, <1>3, <1>4 DEF Authentic, AuthenticRecord, RecordOf
  <2>3. Loads(file)'
    BY <1>3, <1>4
  <2>4. written' \in Nat /\ written' > 0 /\ \E c \in file' : Active(c, written')
    BY <1>1, <1>2, <1>3, <1>4
  <2> QED BY <2>1, <2>2, <2>3, <2>4 DEF FileInv
<1>7. \A o \in Editors : editor'[o] = IF o = e THEN NotEditing ELSE editor[o]
  BY <1>1 DEF CredInv, EditorInv
<1>8. EditorInv'
  <2>1. editor' = [o \in Editors |-> editor'[o]]
    BY <1>1 DEF CredInv, EditorInv
  <2>2. behind' \subseteq Editing'
    BY <1>1, <1>7 DEF Editing
  <2>3. ASSUME NEW o \in Editors
        PROVE  EditOK(editor[o], o \in behind)'
    <3>1. PICK d : d = editor'[o]
      OBVIOUS
    <3>2. CASE d.stage = "idle"
      BY <3>1, <3>2 DEF EditOK
    <3>3. CASE d.stage # "idle"
      <4>1. o # e /\ d = editor[o]
        BY <1>7, <3>1, <3>3 DEF NotEditing
      <4>2. o \in behind'
        BY <1>1, <3>3, <4>1 DEF Editing
      <4>3. PICK stale : stale = (o \in behind)
        OBVIOUS
      <4>4. EditOK(d, stale)
        BY <4>1, <4>3 DEF CredInv, EditorInv
      <4>5. PICK staler : staler = TRUE
        OBVIOUS
      <4>6. EditOK(d, staler)'
        BY <1>1, <4>4, <4>5, EditKept
      <4>7. (o \in behind)' = staler
        BY <4>2, <4>5
      <4> QED BY <3>1, <4>6, <4>7
    <3> QED BY <3>2, <3>3
  <2> QED BY <2>1, <2>2, <2>3 DEF EditorInv
<1>9. ServerInv'
  BY <1>1, ServerKept DEF CredInv
<1> QED BY <1>1, <1>6, <1>8, <1>9 DEF CredInv

\* An edit that has passed its checks.
LEMMA CheckedStep ==
    ASSUME CredInv, NEW e \in Editors, NEW k \in Tokens, NEW isIn \in BOOLEAN, NEW next,
           Checked(e, next, k, isIn), editor[e].stage = "loaded",
           Authentic(next), Loads(next), \E c \in next : Active(c, now),
           \A j \in Tokens : j # k => (j \in TokensOf(next) <=> j \in TokensOf(editor[e].doc)),
           k \in TokensOf(next) <=> isIn
    PROVE  CredInv'
<1>1. PICK t : t = now
  OBVIOUS
<1>2. PICK edit : edit = [stage |-> "checked", doc |-> next, token |-> k, isIn |-> isIn,
                          at |-> t]
  OBVIOUS
<1>3. /\ editor' = [editor EXCEPT ![e] = edit]
      /\ UNCHANGED <<issued, file, now, up, creds, may, loaded, written, read, behind>>
  BY <1>1, <1>2 DEF Checked
<1>4. PICK stale : stale = (e \in behind)
  OBVIOUS
<1>5. ~stale => editor[e].doc = file
  BY <1>4 DEF CredInv, EditorInv, EditOK
<1>6. /\ edit.stage = "checked" /\ edit.doc = next /\ edit.token = k
      /\ edit.isIn = isIn /\ edit.at = t
  BY <1>2
<1>7. EditOK(edit, stale)
  BY <1>1, <1>5, <1>6 DEF EditOK, CredInv
<1>8. EditorInv'
  <2>1. EditOK(edit, e \in behind')
    BY <1>3, <1>4, <1>7
  <2> QED BY <1>3, <1>6, <2>1, EditStep DEF CredInv
<1> QED BY <1>3, <1>8, FileKept, ServerKept DEF CredInv

\* add-token: the flags' scope is the one that the token is issued for.
LEMMA AddStep ==
    ASSUME CredInv, NEW e \in Editors, NEW k \in Tokens, AddToken(e, k)
    PROVE  CredInv'
<1> PICK doc : doc = editor[e].doc
  OBVIOUS
<1> PICK c : c = RecordOf(k, ParseAllowFlags(issued[k].allow))
  OBVIOUS
<1> PICK next : next = doc \cup {c}
  OBVIOUS
<1>1. /\ editor[e].stage = "loaded"
      /\ c.allow = issued[k].allow
      /\ CanAdd(doc, c)
      /\ Checked(e, next, k, TRUE)
  BY DEF AddToken, Added
<1>2. Authentic(doc) /\ Loads(doc)
  BY <1>1 DEF CredInv, EditorInv, EditOK
<1>3. c.token = k /\ c = RecordOf(k, issued[k].allow)
  BY <1>1 DEF RecordOf
<1>4. AuthenticRecord(c)
  BY <1>3 DEF AuthenticRecord
<1>5. Authentic(next)
  BY <1>2, <1>4 DEF Authentic
<1>6. /\ c.notAfter > now /\ ValidAllow(c.allow)
      /\ \A d \in doc : d.id # c.id /\ d.token # c.token
  BY <1>1 DEF CanAdd
<1>7. Loads(next)
  BY <1>2, <1>6 DEF Loads
<1>8. Active(c, now)
  <2>1. c.notAfter = issued[k].notAfter /\ issued[k].notAfter \in Nat /\ now \in Nat
    BY <1>3, IssueAssumption DEF RecordOf, CredInv
  <2> QED BY <1>6, <2>1 DEF Active
<1>9. /\ \A j \in Tokens : j # k => (j \in TokensOf(next) <=> j \in TokensOf(doc))
      /\ k \in TokensOf(next)
  BY <1>3 DEF TokensOf
<1>10. \E d \in next : Active(d, now)
  BY <1>8
<1>11. PICK isIn \in BOOLEAN : isIn = TRUE
  OBVIOUS
<1>12. Checked(e, next, k, isIn) /\ (k \in TokensOf(next) <=> isIn)
  BY <1>1, <1>9, <1>11
<1> QED BY <1>1, <1>5, <1>7, <1>9, <1>10, <1>12, CheckedStep, SMTT(30)

\* revoke-token leaves a credential that is active.
LEMMA RevokeStep ==
    ASSUME CredInv, NEW e \in Editors, NEW k \in Tokens, RevokeToken(e, k)
    PROVE  CredInv'
<1> PICK doc : doc = editor[e].doc
  OBVIOUS
<1> PICK next : next = {c \in doc : c.token # k}
  OBVIOUS
<1>1. /\ editor[e].stage = "loaded"
      /\ \E c \in next : Active(c, now)
      /\ Checked(e, next, k, FALSE)
  BY DEF RevokeToken, CanRevoke, Filtered
<1>2. Authentic(doc) /\ Loads(doc)
  BY <1>1 DEF CredInv, EditorInv, EditOK
<1>3. Authentic(next)
  BY <1>2 DEF Authentic
<1>4. Loads(next)
  BY <1>1, <1>2 DEF Loads
<1>5. /\ \A j \in Tokens : j # k => (j \in TokensOf(next) <=> j \in TokensOf(doc))
      /\ k \notin TokensOf(next)
  BY DEF TokensOf
<1>6. PICK isIn \in BOOLEAN : isIn = FALSE
  OBVIOUS
<1>7. Checked(e, next, k, isIn) /\ (k \in TokensOf(next) <=> isIn)
  BY <1>1, <1>5, <1>6
<1> QED BY <1>1, <1>3, <1>4, <1>5, <1>7, CheckedStep, SMTT(30)

\* Every step keeps the invariant.
LEMMA CredInvStep ==
    ASSUME CredInv, [CredNext]_credVars
    PROVE  CredInv'
<1>1. ASSUME UNCHANGED <<issued, file, editor, may, written, behind>>
      PROVE  EditorInv' /\ FileInv' /\ issued' \in Issues
  <2>1. EditorInv'
    BY <1>1 DEF CredInv, EditorInv, Editing, EditOK, Authentic, AuthenticRecord, RecordOf,
                TokensOf, Loads, Active
  <2>2. FileInv'
    BY <1>1, FileKept DEF CredInv
  <2> QED BY <1>1, <2>1, <2>2 DEF CredInv
<1>2. CASE UNCHANGED credVars
  BY <1>1, <1>2, ServerKept DEF credVars, CredInv
<1>3. CASE Tick
  <2>1. now' \in Nat /\ now' > 0
    BY <1>3 DEF Tick, CredInv
  <2> QED BY <1>1, <1>3, <2>1, ServerKept DEF Tick, CredInv
<1>4. ASSUME NEW e \in Editors, LoadFile(e)
      PROVE  CredInv'
  <2>1. PICK doc : doc = file
    OBVIOUS
  <2>2. PICK edit : edit = [stage |-> "loaded", doc |-> doc]
    OBVIOUS
  <2>3. /\ e \notin Editing
        /\ editor' = [editor EXCEPT ![e] = edit]
        /\ UNCHANGED <<issued, file, now, up, creds, may, loaded, written, read, behind>>
    BY <1>4, <2>1, <2>2 DEF LoadFile
  <2>4. edit.stage = "loaded" /\ edit.doc = file
    BY <2>1, <2>2
  <2>5. EditOK(edit, e \in behind')
    BY <2>4 DEF CredInv, FileInv, EditOK
  <2>6. EditorInv'
    BY <2>3, <2>4, <2>5, EditStep DEF CredInv
  <2> QED BY <2>3, <2>6, FileKept, ServerKept DEF CredInv
<1>5. ASSUME NEW e \in Editors, LeaveFile(e)
      PROVE  CredInv'
  <2>1. PICK edit : edit = NotEditing
    OBVIOUS
  <2>2. /\ editor' = [editor EXCEPT ![e] = edit]
        /\ behind' = behind \ {e}
        /\ UNCHANGED <<issued, file, now, up, creds, may, loaded, written, read>>
    BY <1>5, <2>1 DEF LeaveFile
  <2>3. edit.stage = "idle"
    BY <2>1 DEF NotEditing
  <2>4. EditOK(edit, e \in behind') /\ e \notin behind'
    BY <2>2, <2>3 DEF EditOK
  <2>5. EditorInv'
    BY <2>2, <2>4, EditStep DEF CredInv
  <2> QED BY <2>2, <2>5, FileKept, ServerKept DEF CredInv
<1>6. CASE ServerStart
  <2>1. /\ creds' = file /\ loaded' = may /\ read' = written
        /\ UNCHANGED <<issued, file, now, editor, may, written, behind>>
    BY <1>6 DEF ServerStart
  <2>2. ServerInv'
    BY <2>1 DEF CredInv, FileInv, ServerInv, Authentic, AuthenticRecord, RecordOf, Agrees,
                TokensOf, Untouched
  <2> QED BY <1>1, <2>1, <2>2 DEF CredInv
<1>7. CASE ServerStop
  <2>1. ServerInv'
    BY <1>7 DEF ServerStop, ServerInv
  <2> QED BY <1>1, <1>7, <2>1 DEF ServerStop, CredInv
<1> QED
  BY <1>2, <1>3, <1>4, <1>5, <1>6, <1>7, AddStep, RevokeStep, WriteStep DEF CredNext

\* A hand-written file that loads is where it begins.
LEMMA CredInvInit == CredInit => CredInv
<1> SUFFICES ASSUME CredInit PROVE CredInv
  OBVIOUS
<1>1. PICK first \in FirstFiles :
          /\ file = {RecordOf(k, issued[k].allow) : k \in first}
          /\ may = [k \in Tokens |-> {(k \in first)}]
  BY DEF CredInit
<1>2. first \subseteq Tokens
  BY IssueAssumption
<1>3. issued \in Issues /\ Loads(file) /\ now = 1 /\ written = 0 /\ up = FALSE
  BY DEF CredInit
<1>4. Authentic(file)
  BY <1>1, <1>2 DEF Authentic, AuthenticRecord, RecordOf
<1>5. TokensOf(file) = first
  <2>1. \A k \in first : RecordOf(k, issued[k].allow).token = k
    BY DEF RecordOf
  <2>2. first \subseteq TokensOf(file)
    BY <1>1, <2>1, Zenon DEF TokensOf
  <2>3. TokensOf(file) \subseteq first
    BY <1>1, <2>1, Zenon DEF TokensOf
  <2> QED BY <2>2, <2>3
<1>6. ASSUME NEW k \in Tokens
      PROVE  (k \in first => TRUE \in may[k]) /\ (k \notin first => FALSE \in may[k])
  <2>1. may[k] = {(k \in first)}
    BY <1>1
  <2>2. CASE k \in first
    <3>1. (k \in first) = TRUE
      BY <2>2
    <3> QED BY <2>1, <2>2, <3>1
  <2>3. CASE k \notin first
    <3>1. (k \in first) = FALSE
      BY <2>3
    <3> QED BY <2>1, <2>3, <3>1
  <2> QED BY <2>2, <2>3
<1>7. FileInv
  <2>1. written \in Nat /\ ~(written > 0)
    BY <1>3
  <2>2. Agrees(file, may)
    BY <1>5, <1>6, Zenon DEF Agrees
  <2>3. Untouched(file)
    BY <1>1 DEF Untouched, RecordOf
  <2> QED BY <1>3, <1>4, <2>1, <2>2, <2>3 DEF FileInv
<1>8. EditorInv
  BY DEF CredInit, EditorInv, Editing, EditOK, NotEditing
<1> QED BY <1>3, <1>7, <1>8 DEF CredInv, ServerInv

\* File, editors and server are in order together.
LEMMA CredInvariance == CredSpec => []CredInv
  BY CredInvInit, CredInvStep, PTL DEF CredSpec

(***************************************************************************)
(* Roles and scopes.                                                        *)
(***************************************************************************)

\* The roles satisfy the minimum of just the routes that the docs' table gives
\* them: the numbers order reader, writer and admin, and operator is beside them.
LEMMA RolesMatch ==
    ASSUME NEW role \in Roles, NEW route \in Routes
    PROVE  RoleSatisfies(role, Minimum[route]) <=> route \in RoleTable[role]
<1>1. /\ Minimum["read"] = "reader" /\ Minimum["append"] = "writer"
      /\ Minimum["putRef"] = "writer" /\ Minimum["maintain"] = "admin"
      /\ Minimum["catalog"] = "operator"
  BY DEF Minimum
<1>2. /\ Rank["reader"] = 1 /\ Rank["writer"] = 2 /\ Rank["admin"] = 3 /\ Rank["operator"] = 4
  BY DEF Rank
<1>3. /\ RoleTable["reader"] = {"read"}
      /\ RoleTable["writer"] = {"read", "append", "putRef"}
      /\ RoleTable["admin"] = {"read", "append", "putRef", "maintain", "catalog"}
      /\ RoleTable["operator"] = {"catalog"}
  BY DEF RoleTable
<1>4. CASE role = "reader"
  BY <1>1, <1>2, <1>3, <1>4 DEF Routes, RoleSatisfies
<1>5. CASE role = "writer"
  BY <1>1, <1>2, <1>3, <1>5 DEF Routes, RoleSatisfies
<1>6. CASE role = "admin"
  BY <1>3, <1>6 DEF Routes, RoleSatisfies
<1>7. CASE role = "operator"
  BY <1>1, <1>2, <1>3, <1>7 DEF Routes, RoleSatisfies
<1> QED BY <1>4, <1>5, <1>6, <1>7 DEF Roles

\* The handlers read a scope as the docs do: types must match, and a list that
\* is present must have a match, also when it is empty.
LEMMA ScopesMatch ==
    ASSUME NEW allow, IsAllow(allow), NEW c, c.allow = allow, NEW op, op.route \in Routes
    PROVE  Authorized(c, op) <=> ScopeAllows(allow, op)
<1>1. CASE allow = NoAllow
  <2>1. allow.scoped = FALSE
    BY <1>1 DEF NoAllow
  <2> QED BY <1>1, <2>1 DEF Authorized, AppendEvent, PutNamedRef, AuthorizeAppend,
             AuthorizeRef, ScopeAllows
<1>2. CASE allow # NoAllow
  <2>1. allow.scoped = TRUE /\ IsList(allow.commands) /\ IsList(allow.refs)
    BY <1>2 DEF IsAllow
  <2>2. \A list : IsList(list) => (list.there <=> list # Absent)
    BY DEF IsList, Absent, List
  <2>3. CASE op.route = "append"
    <3>1. Authorized(c, op) <=> AuthorizeAppend(allow, op.type, op.command)
      BY <2>3 DEF Authorized, AppendEvent
    <3>2. ScopeAllows(allow, op) <=>
              /\ {p \in allow.types : Matches(p, op.type)} # {}
              /\ allow.commands # Absent => op.command \in allow.commands.of
      BY <1>2, <2>3 DEF ScopeAllows, Refused
    <3> QED BY <2>1, <2>2, <3>1, <3>2 DEF AuthorizeAppend
  <2>4. CASE op.route = "putRef"
    <3>1. Authorized(c, op) <=> AuthorizeRef(allow, op.name)
      BY <2>4 DEF Authorized, PutNamedRef
    <3>2. ScopeAllows(allow, op) <=>
              (allow.refs # Absent => {p \in allow.refs.of : Matches(p, op.name)} # {})
      BY <1>2, <2>4 DEF ScopeAllows, Refused
    <3> QED BY <2>1, <2>2, <3>1, <3>2 DEF AuthorizeRef
  <2>5. CASE op.route \notin {"append", "putRef"}
    BY <2>5 DEF Authorized, ScopeAllows, Refused
  <2> QED BY <2>3, <2>4, <2>5
<1> QED BY <1>1, <1>2

\* A rewrite makes a scope of a scope, and one that allows no less.
LEMMA RewritingWidens ==
    ASSUME NEW allow, IsAllow(allow), NEW op, op.route \in Routes
    PROVE  /\ IsAllow(Rewritten(allow))
           /\ ScopeAllows(allow, op) => ScopeAllows(Rewritten(allow), op)
<1>1. CASE allow = NoAllow
  BY <1>1 DEF NoAllow, Rewritten
<1>2. CASE allow # NoAllow
  <2>1. PICK t, c, r : /\ allow = [scoped |-> TRUE, types |-> t, commands |-> c, refs |-> r]
                       /\ IsList(c) /\ IsList(r)
    BY <1>2 DEF IsAllow
  <2>2. PICK C, R : /\ C = IF c.of = {} THEN Absent ELSE c
                    /\ R = IF r.of = {} THEN Absent ELSE r
    OBVIOUS
  <2>3. PICK b : b = Rewritten(allow)
    OBVIOUS
  <2>4. b = [scoped |-> TRUE, types |-> t, commands |-> C, refs |-> R]
    BY <2>1, <2>2, <2>3, RewrittenScope
  <2>5. /\ allow.types = t /\ allow.commands = c /\ allow.refs = r
        /\ b.types = t /\ b.commands = C /\ b.refs = R
    BY <2>1, <2>4
  <2>6. IsList(C) /\ IsList(R)
    BY <2>1, <2>2 DEF IsList
  <2>7. IsAllow(b)
    BY <2>4, <2>5, <2>6 DEF IsAllow
  <2>8. C # Absent => C = c
    BY <2>2
  <2>9. R # Absent => R = r
    BY <2>2
  <2>10. Refused(b, op) => Refused(allow, op)
    <3>1. CASE op.route = "append"
      BY <2>5, <2>8, <3>1 DEF Refused
    <3>2. CASE op.route = "putRef"
      BY <2>5, <2>9, <3>2 DEF Refused
    <3>3. CASE op.route \notin {"append", "putRef"}
      BY <3>3 DEF Refused
    <3> QED BY <3>1, <3>2, <3>3
  <2> QED BY <1>2, <2>3, <2>7, <2>10 DEF ScopeAllows
<1> QED BY <1>1, <1>2

\* What an authenticated call may do.
LEMMA PrincipalMatches ==
    ASSUME CredInv, NEW k \in Tokens, NEW op \in Operations, NEW c, AuthenticRecord(c),
           c.token = k
    PROVE  /\ Active(c, now) <=> now < issued[k].notAfter
           /\ RoleSatisfies(c.role, Minimum[op.route]) <=> op.route \in RoleTable[issued[k].role]
           /\ Authorized(c, op) <=> ScopeAllows(c.allow, op)
           /\ c.allow = issued[k].allow \/ c.allow = Rewritten(issued[k].allow)
           /\ ScopeAllows(issued[k].allow, op) => ScopeAllows(c.allow, op)
<1>1. /\ issued[k].role \in Roles /\ IsAllow(issued[k].allow) /\ op.route \in Routes
  BY IssueAssumption DEF CredInv
<1>2. /\ c.role = issued[k].role /\ c.notAfter = issued[k].notAfter
      /\ c.allow = issued[k].allow \/ c.allow = Rewritten(issued[k].allow)
  BY DEF AuthenticRecord, RecordOf
<1>3. RoleSatisfies(c.role, Minimum[op.route]) <=> op.route \in RoleTable[issued[k].role]
  BY <1>1, <1>2, RolesMatch
<1>4. PICK allow : allow = issued[k].allow
  OBVIOUS
<1>5. /\ IsAllow(Rewritten(allow))
      /\ ScopeAllows(allow, op) => ScopeAllows(Rewritten(allow), op)
  BY <1>1, <1>4, RewritingWidens
<1>6. PICK a : a = c.allow
  OBVIOUS
<1>7. IsAllow(a)
  BY <1>1, <1>2, <1>4, <1>5, <1>6
<1>8. Authorized(c, op) <=> ScopeAllows(a, op)
  BY <1>1, <1>6, <1>7, ScopesMatch
<1> QED BY <1>2, <1>3, <1>4, <1>5, <1>6, <1>8 DEF Active

(***************************************************************************)
(* The theorems.                                                            *)
(***************************************************************************)

\* A credential whose add was answered is in the file, a revoked one is not,
\* and no edit changes another credential, but for lists that were present and empty.
THEOREM EditsHold == CredSpec => []CredentialEditsHold
<1>1. CredInv => CredentialEditsHold
  <2> SUFFICES ASSUME CredInv PROVE CredentialEditsHold
    OBVIOUS
  <2>1. ASSUME NEW k \in Tokens
        PROVE  (k \in TokensOf(file)) \in may[k]
    <3>1. CASE k \in TokensOf(file)
      <4>1. (k \in TokensOf(file)) = TRUE
        BY <3>1
      <4>2. TRUE \in may[k]
        BY <3>1 DEF CredInv, FileInv, Agrees
      <4> QED BY <4>1, <4>2, Zenon
    <3>2. CASE k \notin TokensOf(file)
      <4>1. (k \in TokensOf(file)) = FALSE
        BY <3>2
      <4>2. FALSE \in may[k]
        BY <3>2 DEF CredInv, FileInv, Agrees
      <4> QED BY <4>1, <4>2, Zenon
    <3> QED BY <3>1, <3>2
  <2>2. \A c \in file : c \in {RecordOf(c.token, issued[c.token].allow),
                               RecordOf(c.token, Rewritten(issued[c.token].allow))}
    BY DEF CredInv, FileInv, Authentic, AuthenticRecord
  <2> QED BY <2>1, <2>2, Zenon DEF CredentialEditsHold
<1> QED BY <1>1, CredInvariance, PTL

\* The server can always be started again, and every edit leaves a credential
\* that was active when it was checked.
THEOREM ServerCanStart == CredSpec => []NeverLockedOut
<1>1. CredInv => NeverLockedOut
  BY DEF CredInv, FileInv, NeverLockedOut
<1> QED BY <1>1, CredInvariance, PTL

\* The server serves only what the credential that the token was issued for
\* entitles to, and nothing for a token that was revoked before it started; only
\* out of a file that an edit has written may it serve what the scope allows
\* without its empty lists.
THEOREM ServesTheEntitled == CredSpec => []ServedAreEntitled
<1>1. CredInv => ServedAreEntitled
  <2> SUFFICES ASSUME CredInv, up, NEW k \in Tokens, NEW op \in Operations,
                      Verdict(k, op) = "served"
               PROVE  /\ TRUE \in loaded[k]
                      /\ \/ Entitled(k, op)
                         \/ read > 0 /\ EntitledBy(k, Rewritten(issued[k].allow), op)
    BY DEF ServedAreEntitled
  <2>1. PICK c : c = CHOOSE d \in Authenticate(k) : TRUE
    OBVIOUS
  <2>2. /\ Authenticate(k) # {}
        /\ RoleSatisfies(c.role, Minimum[op.route]) /\ Authorized(c, op)
    BY <2>1 DEF Verdict
  <2>3. c \in Authenticate(k)
    BY <2>1, <2>2
  <2>4. c \in creds /\ c.token = k /\ Active(c, now)
    BY <2>3 DEF Authenticate
  <2>5. AuthenticRecord(c)
    BY <2>4 DEF CredInv, ServerInv, Authentic
  <2>6. TRUE \in loaded[k]
    BY <2>4 DEF CredInv, ServerInv, Agrees, TokensOf
  <2>7. /\ now < issued[k].notAfter
        /\ op.route \in RoleTable[issued[k].role]
        /\ ScopeAllows(c.allow, op)
        /\ c.allow = issued[k].allow \/ c.allow = Rewritten(issued[k].allow)
    BY <2>2, <2>4, <2>5, PrincipalMatches
  <2>8. read \in Nat /\ (read = 0 => c = RecordOf(k, issued[k].allow))
    BY <2>4 DEF CredInv, ServerInv, Untouched
  <2>9. CASE c.allow = issued[k].allow
    BY <2>6, <2>7, <2>9 DEF Entitled, EntitledBy
  <2>10. CASE c.allow # issued[k].allow
    <3>1. read # 0
      BY <2>8, <2>10 DEF RecordOf
    <3>2. read > 0
      BY <2>8, <3>1
    <3> QED BY <2>6, <2>7, <2>10, <3>2 DEF EntitledBy
  <2> QED BY <2>9, <2>10
<1> QED BY <1>1, CredInvariance, PTL

\* Nothing is refused that a token is entitled to which was certainly in the
\* file when the server started.
THEOREM EntitledCallsAreServed == CredSpec => []EntitledAreServed
<1>1. CredInv => EntitledAreServed
  <2> SUFFICES ASSUME CredInv, up, NEW k \in Tokens, NEW op \in Operations,
                      loaded[k] = {TRUE}, Entitled(k, op)
               PROVE  Verdict(k, op) = "served"
    BY DEF EntitledAreServed
  <2>1. FALSE \notin loaded[k]
    OBVIOUS
  <2>2. k \in TokensOf(creds)
    BY <2>1 DEF CredInv, ServerInv, Agrees
  <2>3. /\ now < issued[k].notAfter
        /\ op.route \in RoleTable[issued[k].role]
        /\ ScopeAllows(issued[k].allow, op)
    BY DEF Entitled, EntitledBy
  <2>4. \A c \in creds : AuthenticRecord(c)
    BY DEF CredInv, ServerInv, Authentic
  <2>5. Authenticate(k) # {}
    <3>1. PICK d \in creds : d.token = k
      BY <2>2 DEF TokensOf
    <3>2. Active(d, now)
      BY <2>3, <2>4, <3>1, PrincipalMatches
    <3> QED BY <3>1, <3>2 DEF Authenticate
  <2>6. PICK c : c = CHOOSE d \in Authenticate(k) : TRUE
    OBVIOUS
  <2>7. c \in creds /\ c.token = k
    BY <2>5, <2>6 DEF Authenticate
  <2>8. RoleSatisfies(c.role, Minimum[op.route]) /\ Authorized(c, op)
    BY <2>3, <2>4, <2>7, PrincipalMatches
  <2> QED BY <2>5, <2>6, <2>8 DEF Verdict
<1> QED BY <1>1, CredInvariance, PTL

=============================================================================
