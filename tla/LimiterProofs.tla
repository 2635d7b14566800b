--------------------------- MODULE LimiterProofs ---------------------------
(***************************************************************************)
(* What FixedWindowLimiter promises, for every set of keys, every limit,    *)
(* every window and every size of the map.  Each key is argued about alone: *)
(* Fits relates the clock, the ticks at which its calls were admitted and   *)
(* its entry.  The entry forgets the windows before it, so Fits remembers   *)
(* what those can still contribute to a stretch that overlaps this one.     *)
(***************************************************************************)
EXTENDS FixedWindowLimiter, FiniteSetTheorems, TLAPS

\* The elements of s from a to b, counted.
Hits(s, a, b) == {i \in 1..Len(s) : a <= s[i] /\ s[i] <= b}

Cnt(s, a, b) == Cardinality(Hits(s, a, b))

\* No stretch as long as a window holds more than twice the limit.
Calm(s) == \A t \in Int : Cnt(s, t, t + Window - 1) <= 2 * Limit

\* The past of a key that has no window open at n.
Spent(n, s) ==
    /\ \A i \in 1..Len(s) : s[i] < n
    /\ Cnt(s, n - Window, n) <= Limit

\* The past of a key whose window is e.
Open(n, s, e) ==
    /\ e.started <= n
    /\ e.count >= 1
    /\ \A i \in 1..Len(s) : s[i] < e.started + Window
    /\ Cnt(s, e.started - Window, e.started - 1) <= Limit
    /\ e.count <= Limit => Cnt(s, e.started, n) = e.count
    /\ e.count > Limit => Cnt(s, e.started, n) = Limit

Fits(n, s, e) ==
    /\ n \in Nat
    /\ s \in Seq(Nat)
    /\ e \in [started : Nat, count : Nat]
    /\ \A i \in 1..Len(s) : s[i] <= n
    /\ Calm(s)
    /\ e = Absent => Spent(n, s)
    /\ e # Absent => Open(n, s, e)

LimTypeOK ==
    /\ now \in Nat
    /\ entries \in [Keys -> [started : Nat, count : Nat]]
    /\ verdict \in [key : Keys \cup {"none"}, ok : BOOLEAN]
    /\ admitted \in [Keys -> Seq(Nat)]

LimInv ==
    /\ LimTypeOK
    /\ \A k \in Keys : Fits(now, admitted[k], entries[k])
    /\ RefusalsDeserved

-----------------------------------------------------------------------------

\* Counting: bounds, monotonicity, additivity and one more element.

LEMMA ElementsAreNat ==
    ASSUME NEW s \in Seq(Nat)
    PROVE  Len(s) \in Nat /\ \A i \in 1..Len(s) : s[i] \in Nat
OBVIOUS

LEMMA AppendElements ==
    ASSUME NEW s \in Seq(Nat), NEW x \in Nat
    PROVE  /\ Append(s, x) \in Seq(Nat)
           /\ Len(Append(s, x)) = Len(s) + 1
           /\ \A i \in 1..Len(s) : Append(s, x)[i] = s[i]
           /\ Append(s, x)[Len(s) + 1] = x
           /\ \A i \in 1..Len(Append(s, x)) :
                  \/ i \in 1..Len(s) /\ Append(s, x)[i] = s[i]
                  \/ Append(s, x)[i] = x
OBVIOUS

LEMMA CntType ==
    ASSUME NEW s \in Seq(Nat), NEW a, NEW b
    PROVE  IsFiniteSet(Hits(s, a, b)) /\ Cnt(s, a, b) \in Nat
<1>1. IsFiniteSet(1..Len(s))
  BY FS_Interval, ElementsAreNat
<1>2. Hits(s, a, b) \subseteq 1..Len(s)
  BY DEF Hits
<1> QED
  BY <1>1, <1>2, FS_Subset, FS_CardinalityType DEF Cnt

LEMMA CntMono ==
    ASSUME NEW s \in Seq(Nat), NEW a \in Int, NEW b \in Int,
           NEW c \in Int, NEW d \in Int,
           \A i \in 1..Len(s) : a <= s[i] /\ s[i] <= b => c <= s[i] /\ s[i] <= d
    PROVE  Cnt(s, a, b) <= Cnt(s, c, d)
<1>1. Hits(s, a, b) \subseteq Hits(s, c, d)
  BY DEF Hits
<1> QED
  BY <1>1, CntType, FS_Subset DEF Cnt

\* A stretch that two others cover.
LEMMA CntUnion ==
    ASSUME NEW s \in Seq(Nat), NEW a \in Int, NEW b \in Int,
           NEW c \in Int, NEW d \in Int, NEW f \in Int, NEW g \in Int,
           \A i \in 1..Len(s) :
               a <= s[i] /\ s[i] <= b =>
                   (c <= s[i] /\ s[i] <= d) \/ (f <= s[i] /\ s[i] <= g)
    PROVE  Cnt(s, a, b) <= Cnt(s, c, d) + Cnt(s, f, g)
<1>1. Hits(s, a, b) \subseteq Hits(s, c, d) \cup Hits(s, f, g)
  BY DEF Hits
<1>2. /\ IsFiniteSet(Hits(s, c, d)) /\ IsFiniteSet(Hits(s, f, g))
      /\ Cnt(s, a, b) \in Nat /\ Cnt(s, c, d) \in Nat /\ Cnt(s, f, g) \in Nat
  BY CntType
<1> PICK H, A, B : H = Hits(s, a, b) /\ A = Hits(s, c, d) /\ B = Hits(s, f, g)
  OBVIOUS
<1>3. /\ IsFiniteSet(A \cup B)
      /\ Cardinality(A \cup B) =
             Cardinality(A) + Cardinality(B) - Cardinality(A \cap B)
  BY <1>2, FS_Union
<1>4. Cardinality(A \cap B) \in Nat
  BY <1>2, FS_Intersection, FS_CardinalityType
<1>5. Cardinality(H) <= Cardinality(A \cup B)
  BY <1>1, <1>3, FS_Subset
<1>6. /\ Cardinality(H) = Cnt(s, a, b)
      /\ Cardinality(A) = Cnt(s, c, d)
      /\ Cardinality(B) = Cnt(s, f, g)
  BY DEF Cnt
<1> QED
  BY <1>2, <1>3, <1>4, <1>5, <1>6

LEMMA CntAppend ==
    ASSUME NEW s \in Seq(Nat), NEW x \in Nat, NEW a \in Int, NEW b \in Int
    PROVE  /\ a <= x /\ x <= b => Cnt(Append(s, x), a, b) = Cnt(s, a, b) + 1
           /\ ~(a <= x /\ x <= b) => Cnt(Append(s, x), a, b) = Cnt(s, a, b)
<1>1. ASSUME a <= x, x <= b
      PROVE  Cnt(Append(s, x), a, b) = Cnt(s, a, b) + 1
  <2>1. Hits(Append(s, x), a, b) = Hits(s, a, b) \cup {Len(s) + 1}
    BY <1>1, AppendElements, ElementsAreNat DEF Hits
  <2>2. Len(s) + 1 \notin Hits(s, a, b)
    BY ElementsAreNat DEF Hits
  <2> QED
    BY <2>1, <2>2, CntType, FS_AddElement DEF Cnt
<1>2. ASSUME ~(a <= x /\ x <= b)
      PROVE  Cnt(Append(s, x), a, b) = Cnt(s, a, b)
  <2>1. Hits(Append(s, x), a, b) = Hits(s, a, b)
    BY <1>2, AppendElements, ElementsAreNat DEF Hits
  <2> QED
    BY <2>1 DEF Cnt
<1> QED
  BY <1>1, <1>2

LEMMA CntNone ==
    ASSUME NEW s \in Seq(Nat), NEW a \in Int, NEW b \in Int,
           \A i \in 1..Len(s) : ~(a <= s[i] /\ s[i] <= b)
    PROVE  Cnt(s, a, b) = 0
<1>1. Hits(s, a, b) = {}
  BY DEF Hits
<1> QED
  BY <1>1, FS_EmptySet DEF Cnt

-----------------------------------------------------------------------------

\* One key through the clock, the eviction and the two kinds of call.

LEMMA FitsAtStart == Fits(0, <<>>, Absent)
<1>1. ASSUME NEW a \in Int, NEW b \in Int PROVE Cnt(<<>>, a, b) = 0
  <2>1. <<>> \in Seq(Nat) /\ Len(<<>>) = 0
    OBVIOUS
  <2>2. 1..Len(<<>>) = {}
    BY <2>1
  <2> QED
    BY <2>1, <2>2, CntNone
<1>2. Calm(<<>>)
  BY <1>1, LimiterAssumption DEF Calm
<1> QED
  BY <1>1, <1>2, LimiterAssumption DEF Fits, Spent, Absent

LEMMA FitsTick ==
    ASSUME NEW n, NEW s, NEW e, Fits(n, s, e)
    PROVE  Fits(n + 1, s, e)
<1> USE LimiterAssumption
<1>1. /\ n \in Nat /\ s \in Seq(Nat) /\ e \in [started : Nat, count : Nat]
      /\ \A i \in 1..Len(s) : s[i] <= n /\ s[i] \in Nat
  BY ElementsAreNat DEF Fits
<1>2. ASSUME Spent(n, s) PROVE Spent(n + 1, s)
  <2>1. Cnt(s, (n + 1) - Window, n + 1) <= Cnt(s, n - Window, n)
    BY <1>1, CntMono
  <2>2. /\ Cnt(s, (n + 1) - Window, n + 1) \in Nat
        /\ Cnt(s, n - Window, n) \in Nat
    BY <1>1, CntType
  <2> QED
    BY <1>1, <1>2, <2>1, <2>2 DEF Spent
<1>3. ASSUME Open(n, s, e) PROVE Open(n + 1, s, e)
  <2>1. Cnt(s, e.started, n + 1) = Cnt(s, e.started, n)
    <3>1. /\ Cnt(s, e.started, n + 1) <= Cnt(s, e.started, n)
          /\ Cnt(s, e.started, n) <= Cnt(s, e.started, n + 1)
      BY <1>1, CntMono
    <3> QED
      BY <1>1, <3>1, CntType
  <2> QED
    BY <1>1, <1>3, <2>1 DEF Open
<1> QED
  BY <1>1, <1>2, <1>3 DEF Fits

\* A key whose window is over has spent it: nothing it did can be counted
\* together with calls that are still to come, but for one window's worth.
LEMMA OverIsSpent ==
    ASSUME NEW n, NEW s, NEW e, Fits(n, s, e),
           e = Absent \/ n - e.started >= Window
    PROVE  Spent(n, s)
<1> USE LimiterAssumption
<1>1. /\ n \in Nat /\ s \in Seq(Nat) /\ e \in [started : Nat, count : Nat]
      /\ \A i \in 1..Len(s) : s[i] <= n /\ s[i] \in Nat
  BY ElementsAreNat DEF Fits
<1>2. CASE e = Absent
  BY <1>2 DEF Fits
<1>3. CASE e # Absent
  <2>1. Open(n, s, e) /\ n - e.started >= Window
    BY <1>3 DEF Fits
  <2>2. \A i \in 1..Len(s) : s[i] < n
    BY <1>1, <2>1 DEF Open
  <2>3. Cnt(s, n - Window, n) <= Cnt(s, e.started, n)
    <3> PICK p \in Nat : p = e.started
      BY <1>1
    <3>1. \A i \in 1..Len(s) : n - Window <= s[i] /\ s[i] <= n => p <= s[i] /\ s[i] <= n
      BY <1>1, <2>1
    <3>2. n - Window \in Int
      BY <1>1
    <3>3. Cnt(s, n - Window, n) <= Cnt(s, p, n)
      BY <1>1, <3>1, <3>2, CntMono
    <3> QED
      BY <3>3
  <2>4. /\ Cnt(s, n - Window, n) \in Nat
        /\ Cnt(s, e.started, n) \in Nat
    BY <1>1, CntType
  <2>5. Cnt(s, e.started, n) <= Limit
    BY <1>1, <2>1, <2>4 DEF Open
  <2> QED
    BY <2>2, <2>3, <2>4, <2>5 DEF Spent
<1> QED
  BY <1>2, <1>3

LEMMA FitsEvicted ==
    ASSUME NEW n, NEW s, NEW e, Fits(n, s, e), n - e.started >= Window
    PROVE  Fits(n, s, Absent)
BY OverIsSpent DEF Fits, Absent

\* An admitted call keeps every stretch within twice the limit: those that
\* reach back before the window meet at most one window before it.
LEMMA StretchBound ==
    ASSUME NEW n \in Nat, NEW s \in Seq(Nat), NEW p \in Nat,
           p <= n,
           \A i \in 1..Len(s) : s[i] <= n,
           Calm(s),
           Cnt(s, p - Window, p - 1) <= Limit,
           Cnt(s, p, n) < Limit
    PROVE  Calm(Append(s, n))
<1> USE LimiterAssumption
<1> SUFFICES ASSUME NEW t \in Int
             PROVE  Cnt(Append(s, n), t, t + Window - 1) <= 2 * Limit
  BY DEF Calm
<1> DEFINE r == Append(s, n)
<1>1. /\ r \in Seq(Nat)
      /\ \A i \in 1..Len(s) : s[i] \in Nat
      /\ \A i \in 1..Len(r) : r[i] <= n /\ r[i] \in Nat
  BY ElementsAreNat, AppendElements
<1>2. CASE t >= p - Window
  <2>1. Cnt(r, t, t + Window - 1) <= Cnt(r, p - Window, p - 1) + Cnt(r, p, n)
    <3> HIDE DEF r
    <3>1. \A i \in 1..Len(r) :
              t <= r[i] /\ r[i] <= t + Window - 1 =>
                  (p - Window <= r[i] /\ r[i] <= p - 1) \/ (p <= r[i] /\ r[i] <= n)
      <4> TAKE i \in 1..Len(r)
      <4> PICK v \in Nat : v = r[i] /\ v <= n
        BY <1>1
      <4> QED
        BY <1>2
    <3> PICK b, c, d \in Int : b = t + Window - 1 /\ c = p - Window /\ d = p - 1
      OBVIOUS
    <3>2. Cnt(r, t, b) <= Cnt(r, c, d) + Cnt(r, p, n)
      <4>1. p \in Int /\ n \in Int
        OBVIOUS
      <4>2. \A i \in 1..Len(r) :
                t <= r[i] /\ r[i] <= b =>
                    (c <= r[i] /\ r[i] <= d) \/ (p <= r[i] /\ r[i] <= n)
        BY <3>1
      <4> QED
        BY <1>1, <4>1, <4>2, CntUnion
    <3> QED
      BY <3>2
  <2>2. Cnt(r, p - Window, p - 1) = Cnt(s, p - Window, p - 1)
    BY CntAppend
  <2>3. Cnt(r, p, n) = Cnt(s, p, n) + 1
    BY CntAppend
  <2>4. /\ Cnt(r, t, t + Window - 1) \in Nat
        /\ Cnt(s, p - Window, p - 1) \in Nat
        /\ Cnt(s, p, n) \in Nat
    BY <1>1, CntType
  <2>5. Cnt(r, t, t + Window - 1) <= 2 * Limit
    <3> HIDE DEF r
    <3> QED
      BY <2>1, <2>2, <2>3, <2>4
  <2> QED
    BY <2>5
<1>3. CASE t < p - Window
  <2>1. ~(t <= n /\ n <= t + Window - 1)
    BY <1>3
  <2>2. Cnt(r, t, t + Window - 1) = Cnt(s, t, t + Window - 1)
    BY <2>1, CntAppend
  <2> QED
    BY <2>2 DEF Calm
<1> QED
  BY <1>2, <1>3

\* The first call of a window.
LEMMA FitsNewWindow ==
    ASSUME NEW n, NEW s, NEW e, Fits(n, s, e), Spent(n, s)
    PROVE  /\ 1 <= Limit => Fits(n, Append(s, n), [started |-> n, count |-> 1])
           /\ ~(1 <= Limit) => Fits(n, s, [started |-> n, count |-> 1])
<1> USE LimiterAssumption
<1> DEFINE w == [started |-> n, count |-> 1]
<1>1. /\ n \in Nat /\ s \in Seq(Nat)
      /\ \A i \in 1..Len(s) : s[i] < n /\ s[i] \in Nat
      /\ Calm(s)
  BY ElementsAreNat DEF Fits, Spent
<1>2. /\ w \in [started : Nat, count : Nat]
      /\ w.started = n /\ w.count = 1 /\ w # Absent
  BY <1>1 DEF Absent
<1>3. Cnt(s, n, n) = 0
  BY <1>1, CntNone
<1>4. Cnt(s, n - Window, n - 1) <= Limit
  <2>1. Cnt(s, n - Window, n - 1) <= Cnt(s, n - Window, n)
    BY <1>1, CntMono
  <2>2. /\ Cnt(s, n - Window, n - 1) \in Nat
        /\ Cnt(s, n - Window, n) \in Nat
    BY <1>1, CntType
  <2> QED
    BY <2>1, <2>2 DEF Spent
<1> HIDE DEF w
<1>5. ASSUME 1 <= Limit PROVE Fits(n, Append(s, n), w)
  <2>1. Calm(Append(s, n))
    BY <1>1, <1>3, <1>4, <1>5, StretchBound, SMTT(30)
  <2>2. Cnt(Append(s, n), n, n) = 1
    BY <1>1, <1>3, CntAppend
  <2>3. Cnt(Append(s, n), n - Window, n - 1) <= Limit
    BY <1>1, <1>4, CntAppend
  <2>4. \A i \in 1..Len(Append(s, n)) : Append(s, n)[i] <= n
    BY <1>1, AppendElements
  <2>5. Open(n, Append(s, n), w)
    BY <1>1, <1>2, <1>5, <2>2, <2>3, <2>4 DEF Open
  <2> QED
    BY <1>1, <1>2, <2>1, <2>4, <2>5 DEF Fits
<1>6. ASSUME ~(1 <= Limit) PROVE Fits(n, s, w)
  <2>1. Limit = 0
    BY <1>6
  <2>2. Open(n, s, w)
    BY <1>1, <1>2, <1>3, <1>4, <2>1 DEF Open
  <2> QED
    BY <1>1, <1>2, <2>2 DEF Fits
<1> QED
  BY <1>5, <1>6 DEF w

\* One more call of a window that is not over.
LEMMA FitsCounted ==
    ASSUME NEW n, NEW s, NEW e, Fits(n, s, e), e # Absent,
           ~(n - e.started >= Window)
    PROVE  LET w == [e EXCEPT !.count = @ + 1]
           IN  /\ w.count <= Limit => Fits(n, Append(s, n), w)
               /\ ~(w.count <= Limit) => Fits(n, s, w)
<1> USE LimiterAssumption
<1> DEFINE w == [e EXCEPT !.count = @ + 1]
<1>1. /\ n \in Nat /\ s \in Seq(Nat)
      /\ e \in [started : Nat, count : Nat]
      /\ \A i \in 1..Len(s) : s[i] <= n /\ s[i] \in Nat
      /\ Calm(s)
      /\ Open(n, s, e)
  BY ElementsAreNat DEF Fits
<1>2. /\ w \in [started : Nat, count : Nat]
      /\ w.started = e.started /\ w.count = e.count + 1
  BY <1>1
<1>3. w # Absent
  BY <1>1, <1>2 DEF Absent
<1>4. Cnt(s, e.started, n) \in Nat
  BY <1>1, CntType
<1> HIDE DEF w
<1>5. ASSUME w.count <= Limit PROVE Fits(n, Append(s, n), w)
  <2>1. Cnt(s, e.started, n) = e.count /\ e.count < Limit
    BY <1>1, <1>2, <1>5 DEF Open
  <2>2. Calm(Append(s, n))
    BY <1>1, <2>1, StretchBound DEF Open
  <2>3. Cnt(Append(s, n), e.started, n) = e.count + 1
    BY <1>1, <2>1, CntAppend DEF Open
  <2>4. Cnt(Append(s, n), e.started - Window, e.started - 1) <= Limit
    BY <1>1, CntAppend DEF Open
  <2>5. \A i \in 1..Len(Append(s, n)) :
            Append(s, n)[i] <= n /\ Append(s, n)[i] < e.started + Window
    BY <1>1, AppendElements DEF Open
  <2>6. Open(n, Append(s, n), w)
    BY <1>1, <1>2, <1>5, <2>3, <2>4, <2>5 DEF Open
  <2> QED
    BY <1>1, <1>2, <1>3, <2>2, <2>5, <2>6 DEF Fits
<1>6. ASSUME ~(w.count <= Limit) PROVE Fits(n, s, w)
  <2>1. Cnt(s, e.started, n) = Limit
    BY <1>1, <1>2, <1>4, <1>6 DEF Open
  <2>2. Open(n, s, w)
    BY <1>1, <1>2, <1>6, <2>1 DEF Open
  <2> QED
    BY <1>1, <1>2, <1>3, <2>2 DEF Fits
<1> QED
  BY <1>5, <1>6 DEF w
-----------------------------------------------------------------------------

\* The counting of the model is the counting of the lemmas.
LEMMA AdmittedIsCnt ==
    ASSUME LimTypeOK, NEW k \in Keys, NEW a \in Int, NEW b \in Int
    PROVE  AdmittedIn(k, a..b) = Cnt(admitted[k], a, b)
<1> PICK s \in Seq(Nat) : s = admitted[k]
  BY DEF LimTypeOK
<1>1. {i \in 1..Len(s) : s[i] \in a..b} = Hits(s, a, b)
  BY ElementsAreNat DEF Hits
<1> QED
  BY <1>1 DEF AdmittedIn, Cnt

LEMMA LimInitial == LimInit => LimInv
<1> SUFFICES ASSUME LimInit PROVE LimInv
  OBVIOUS
<1>1. LimTypeOK
  <2>1. Absent \in [started : Nat, count : Nat]
    BY DEF Absent
  <2> QED
    BY <2>1 DEF LimInit, LimTypeOK
<1>2. \A k \in Keys : Fits(now, admitted[k], entries[k])
  BY FitsAtStart DEF LimInit
<1>3. RefusalsDeserved
  BY DEF LimInit, RefusalsDeserved
<1> QED
  BY <1>1, <1>2, <1>3 DEF LimInv

LEMMA TickKeeps == LimInv /\ Tick => LimInv'
<1> SUFFICES ASSUME LimInv, Tick PROVE LimInv'
  OBVIOUS
<1>1. LimTypeOK'
  BY DEF LimInv, Tick, LimTypeOK
<1>2. \A k \in Keys : Fits(now', admitted'[k], entries'[k])
  BY FitsTick DEF LimInv, Tick
<1>3. RefusalsDeserved'
  BY DEF Tick, RefusalsDeserved
<1> QED
  BY <1>1, <1>2, <1>3 DEF LimInv

\* The entry a call leaves for its own key, before the eviction.
LEMMA CallFits ==
    ASSUME LimInv, NEW k \in Keys, Allow(k)
    PROVE  Fits(now, admitted'[k], Counted(k))
<1> PICK n, s, e : n = now /\ s = admitted[k] /\ e = entries[k]
  OBVIOUS
<1>1. Fits(n, s, e)
  BY DEF LimInv
<1>2. /\ Admits(Counted(k).count) => admitted'[k] = Append(s, n)
      /\ ~Admits(Counted(k).count) => admitted'[k] = s
  BY DEF LimInv, LimTypeOK, Allow
<1>3. CASE e = Absent \/ n - e.started >= Window
  <2>1. Spent(n, s)
    BY <1>1, <1>3, OverIsSpent
  <2>2. Counted(k) = [started |-> n, count |-> 1]
    BY <1>3 DEF Counted, Expired
  <2>3. Counted(k).count = 1
    BY <2>2
  <2>4. /\ 1 <= Limit => Fits(n, Append(s, n), [started |-> n, count |-> 1])
        /\ ~(1 <= Limit) => Fits(n, s, [started |-> n, count |-> 1])
    BY <1>1, <2>1, FitsNewWindow
  <2> QED
    BY <1>2, <2>2, <2>3, <2>4 DEF Admits
<1>4. CASE ~(e = Absent \/ n - e.started >= Window)
  <2>1. Counted(k) = [e EXCEPT !.count = @ + 1]
    BY <1>4 DEF Counted, Expired
  <2>2. LET w == [e EXCEPT !.count = @ + 1]
        IN  /\ w.count <= Limit => Fits(n, Append(s, n), w)
            /\ ~(w.count <= Limit) => Fits(n, s, w)
    BY <1>1, <1>4, FitsCounted
  <2> QED
    BY <1>2, <2>1, <2>2 DEF Admits
<1> QED
  BY <1>3, <1>4

\* A refused call: its window is not over, so all that it admitted lies
\* within the last window's length, and that is the limit.
LEMMA RefusalFits ==
    ASSUME LimInv, NEW k \in Keys, Allow(k), ~Admits(Counted(k).count)
    PROVE  Cnt(admitted[k], now - Window + 1, now) >= Limit
<1> USE LimiterAssumption
<1> PICK n, s, e : n = now /\ s = admitted[k] /\ e = entries[k]
  OBVIOUS
<1>1. Fits(n, s, e)
  BY DEF LimInv
<1>2. /\ n \in Nat /\ s \in Seq(Nat) /\ e \in [started : Nat, count : Nat]
      /\ \A i \in 1..Len(s) : s[i] \in Nat
  BY <1>1, ElementsAreNat DEF Fits
<1>3. Cnt(s, n - Window + 1, n) \in Nat
  BY <1>2, CntType
<1>4. CASE e = Absent \/ n - e.started >= Window
  <2>1. Counted(k) = [started |-> n, count |-> 1]
    BY <1>4 DEF Counted, Expired
  <2>2. Limit = 0
    BY <2>1 DEF Admits
  <2> QED
    BY <1>3, <2>2
<1>5. CASE ~(e = Absent \/ n - e.started >= Window)
  <2>1. Counted(k) = [e EXCEPT !.count = @ + 1]
    BY <1>5 DEF Counted, Expired
  <2>2. ~(e.count + 1 <= Limit)
    BY <1>2, <2>1 DEF Admits
  <2> PICK p, c \in Nat : p = e.started /\ c = e.count
    BY <1>2
  <2>3. Cnt(s, p, n) \in Nat
    BY <1>2, CntType
  <2>4. Cnt(s, p, n) = Limit
    <3>1. /\ c <= Limit => Cnt(s, p, n) = c
          /\ c > Limit => Cnt(s, p, n) = Limit
      BY <1>1, <1>5 DEF Fits, Open
    <3> QED
      BY <2>2, <3>1
  <2>5. Cnt(s, p, n) <= Cnt(s, n - Window + 1, n)
    <3>1. n - Window + 1 <= p
      BY <1>2, <1>5
    <3> PICK b \in Int : b = n - Window + 1
      BY <1>2
    <3>2. \A i \in 1..Len(s) : p <= s[i] /\ s[i] <= n => b <= s[i] /\ s[i] <= n
      BY <1>2, <3>1
    <3>3. Cnt(s, p, n) <= Cnt(s, b, n)
      <4>1. p \in Int /\ n \in Int
        BY <1>2
      <4> QED
        BY <1>2, <3>2, <4>1, CntMono
    <3> QED
      BY <3>3
  <2> QED
    BY <1>3, <2>3, <2>4, <2>5
<1> QED
  BY <1>4, <1>5

LEMMA AllowKeeps ==
    ASSUME LimInv, NEW k \in Keys, Allow(k)
    PROVE  LimInv'
<1> USE LimiterAssumption
<1> PICK es : es = [entries EXCEPT ![k] = Counted(k)]
  OBVIOUS
<1>1. \A q \in Keys : Fits(now, admitted'[q], es[q])
  <2> TAKE q \in Keys
  <2>1. CASE q = k
    <3>1. es[q] = Counted(k)
      BY <2>1 DEF LimInv, LimTypeOK
    <3> QED
      BY <2>1, <3>1, CallFits
  <2>2. CASE q # k
    <3>1. es[q] = entries[q] /\ admitted'[q] = admitted[q]
      BY <2>2 DEF LimInv, LimTypeOK, Allow
    <3> QED
      BY <3>1 DEF LimInv
  <2> QED
    BY <2>1, <2>2
<1>2. DOMAIN es = Keys /\ es = [q \in Keys |-> es[q]]
  BY DEF LimInv, LimTypeOK
<1>3. entries' = Evicted(es)
  BY DEF Allow
<1>4. \A q \in Keys : entries'[q] = es[q]
                      \/ (entries'[q] = Absent /\ now - es[q].started >= Window)
  BY <1>3 DEF Evicted, Expired
<1>5. entries' = [q \in Keys |-> entries'[q]]
  BY <1>2, <1>3 DEF Evicted
<1>6. \A q \in Keys : Fits(now', admitted'[q], entries'[q])
  <2> TAKE q \in Keys
  <2>1. now' = now
    BY DEF Allow
  <2>2. CASE entries'[q] = es[q]
    BY <1>1, <2>1, <2>2
  <2>3. CASE entries'[q] = Absent /\ now - es[q].started >= Window
    BY <1>1, <2>1, <2>3, FitsEvicted
  <2> QED
    BY <1>4, <2>2, <2>3
<1>7. LimTypeOK'
  <2>1. now' \in Nat
    BY DEF Allow, LimInv, LimTypeOK
  <2>2. entries' \in [Keys -> [started : Nat, count : Nat]]
    BY <1>5, <1>6 DEF Fits
  <2>3. verdict' \in [key : Keys \cup {"none"}, ok : BOOLEAN]
    BY DEF Allow, Admits
  <2>4. admitted' \in [Keys -> Seq(Nat)]
    BY AppendElements DEF Allow, LimInv, LimTypeOK
  <2> QED
    BY <2>1, <2>2, <2>3, <2>4 DEF LimTypeOK
<1>8. RefusalsDeserved'
  <2> SUFFICES ASSUME ~verdict'.ok
               PROVE  AdmittedIn(verdict.key, (now - Window + 1)..now)' >= Limit
    BY DEF RefusalsDeserved
  <2>1. verdict'.key = k /\ ~Admits(Counted(k).count)
    BY DEF Allow
  <2>2. admitted' = admitted /\ now' = now
    BY <2>1 DEF Allow
  <2>3. Cnt(admitted[k], now - Window + 1, now) >= Limit
    BY <2>1, RefusalFits
  <2>4. AdmittedIn(k, (now - Window + 1)..now) = Cnt(admitted[k], now - Window + 1, now)
    <3>1. LimTypeOK /\ now \in Int /\ now - Window + 1 \in Int
      BY DEF LimInv, LimTypeOK
    <3> PICK a, b \in Int : a = now - Window + 1 /\ b = now
      BY <3>1
    <3>2. AdmittedIn(k, a..b) = Cnt(admitted[k], a, b)
      BY <3>1, AdmittedIsCnt
    <3> QED
      BY <3>2
  <2> QED
    BY <2>1, <2>2, <2>3, <2>4 DEF AdmittedIn
<1> QED
  BY <1>6, <1>7, <1>8 DEF LimInv

LEMMA LimStep == LimInv /\ [LimNext]_limVars => LimInv'
<1> SUFFICES ASSUME LimInv, [LimNext]_limVars PROVE LimInv'
  OBVIOUS
<1>1. CASE Tick
  BY <1>1, TickKeeps
<1>2. ASSUME NEW k \in Keys, Allow(k) PROVE LimInv'
  BY <1>2, AllowKeeps
<1>3. CASE UNCHANGED limVars
  BY <1>3 DEF limVars, LimInv, LimTypeOK, RefusalsDeserved, AdmittedIn
<1> QED
  BY <1>1, <1>2, <1>3 DEF LimNext

LEMMA LimInvariance == LimSpec => []LimInv
BY LimInitial, LimStep, PTL DEF LimSpec

LEMMA InvBoundsAdmissions == LimInv => AdmissionsBounded
<1> USE LimiterAssumption
<1> SUFFICES ASSUME LimInv, NEW k \in Keys
             PROVE  /\ \A t \in 0..MaxTime :
                           AdmittedIn(k, t..(t + Window - 1)) <= 2 * Limit
                    /\ entries[k] # Absent =>
                           AdmittedIn(k, entries[k].started..(entries[k].started + Window - 1))
                               <= Limit
  BY DEF AdmissionsBounded
<1> PICK n, s, e : n = now /\ s = admitted[k] /\ e = entries[k]
  OBVIOUS
<1>1. Fits(n, s, e)
  BY DEF LimInv
<1>2. \A a, b \in Int : AdmittedIn(k, a..b) = Cnt(s, a, b)
  BY AdmittedIsCnt DEF LimInv
<1>3. ASSUME NEW t \in 0..MaxTime
      PROVE  AdmittedIn(k, t..(t + Window - 1)) <= 2 * Limit
  <2>1. Cnt(s, t, t + Window - 1) <= 2 * Limit
    BY <1>1 DEF Fits, Calm
  <2>2. t \in Int /\ t + Window - 1 \in Int
    OBVIOUS
  <2> QED
    BY <1>2, <2>1, <2>2
<1>4. ASSUME e # Absent
      PROVE  AdmittedIn(k, e.started..(e.started + Window - 1)) <= Limit
  <2>1. /\ n \in Nat /\ s \in Seq(Nat) /\ e \in [started : Nat, count : Nat]
        /\ \A i \in 1..Len(s) : s[i] <= n /\ s[i] \in Nat
    BY <1>1, ElementsAreNat DEF Fits
  <2> PICK p, c \in Nat : p = e.started /\ c = e.count
    BY <2>1
  <2> PICK b \in Int : b = p + Window - 1
    OBVIOUS
  <2>2. Cnt(s, p, b) <= Cnt(s, p, n)
    <3>1. p \in Int /\ n \in Int
      BY <2>1
    <3>2. \A i \in 1..Len(s) : p <= s[i] /\ s[i] <= b => p <= s[i] /\ s[i] <= n
      BY <2>1
    <3> QED
      BY <2>1, <3>1, <3>2, CntMono
  <2>3. Cnt(s, p, b) \in Nat /\ Cnt(s, p, n) \in Nat
    BY <2>1, CntType
  <2>4. Cnt(s, p, n) <= Limit
    <3>1. /\ c <= Limit => Cnt(s, p, n) = c
          /\ c > Limit => Cnt(s, p, n) = Limit
      BY <1>1, <1>4 DEF Fits, Open
    <3> QED
      BY <3>1
  <2>5. AdmittedIn(k, p..b) = Cnt(s, p, b)
    BY <1>2
  <2> QED
    BY <2>2, <2>3, <2>4, <2>5
<1> QED
  BY <1>3, <1>4

\* However calls fall on the boundaries of windows, and whatever the eviction
\* of limiter.go deletes, a key is admitted at most twice its limit in any
\* window's length, and at most its limit in the window that is counted.
THEOREM AdmissionsAreBounded == LimSpec => []AdmissionsBounded
BY LimInvariance, InvBoundsAdmissions, PTL

\* allow() says no only to a key that has had its whole limit within the last
\* window's length, so the wait that Retry-After names is always long enough.
THEOREM RefusalsAreDeserved == LimSpec => []RefusalsDeserved
<1>1. LimInv => RefusalsDeserved
  BY DEF LimInv
<1> QED
  BY <1>1, LimInvariance, PTL

=============================================================================
