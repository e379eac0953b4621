----------------------------- MODULE SequenceLemmas -----------------------------
(***************************************************************************)
(* What the proofs about queues, lists and views need of the natural       *)
(* numbers and of sequences: induction for a set, the greatest number that *)
(* the folds of the community modules choose next, an element that is      *)
(* appended, put in or taken out, sequences that are flattened, and how    *)
(* often a value occurs.                                                   *)
(***************************************************************************)
EXTENDS Integers, FiniteSets, SequencesExt, SequenceTheorems, FiniteSetTheorems,
        WellFoundedInduction, TLAPS

(* Induction over the natural numbers, for a set. *)
LEMMA Induct ==
  ASSUME NEW S, 0 \in S, \A n \in Nat : n \in S => n + 1 \in S
  PROVE  Nat \subseteq S
<1> DEFINE T == Nat \ S
<1> SUFFICES ASSUME T # {} PROVE FALSE
  OBVIOUS
<1>1. PICK x \in T : \A y \in T : ~(<<y, x>> \in OpToRel(<, Nat))
  <2>1. T \subseteq Nat
    OBVIOUS
  <2> HIDE DEF T
  <2> QED
    BY <2>1, NatLessThanWellFounded, WFMin
<1>2. \A y \in T : ~(y < x)
  BY <1>1 DEF OpToRel
<1>3. x # 0 /\ x - 1 \in Nat /\ x - 1 \in S
  BY <1>2
<1> QED
  BY <1>3

(* The greatest element of a set of numbers up to n that holds n, and of any other. *)
LEMMA Greatest ==
  ASSUME NEW n \in Nat, NEW s \in SUBSET (1 .. n), n \in s
  PROVE  Max(s) = n
<1>1. \A x \in s : (\A y \in s : x >= y) => x = n
  OBVIOUS
<1>2. n \in s /\ \A y \in s : n >= y
  OBVIOUS
<1> QED
  BY <1>1, <1>2 DEF Max

LEMMA GreatestIsElement ==
  ASSUME NEW n \in Nat, NEW s \in SUBSET (1 .. n), s # {}
  PROVE  Max(s) \in s
<1> DEFINE S == {k \in Nat : \A r \in SUBSET (1 .. k) : r # {} => Max(r) \in r}
<1>1. 0 \in S
  <2>1. \A r \in SUBSET (1 .. 0) : r = {}
    OBVIOUS
  <2> QED
    BY <2>1
<1>2. ASSUME NEW k \in Nat, k \in S PROVE k + 1 \in S
  <2> SUFFICES ASSUME NEW r \in SUBSET (1 .. k + 1), r # {} PROVE Max(r) \in r
    OBVIOUS
  <2>1. CASE k + 1 \in r
    BY <2>1, Greatest
  <2>2. CASE k + 1 \notin r
    <3>1. r \in SUBSET (1 .. k)
      BY <2>2
    <3> QED
      BY <1>2, <3>1
  <2> QED
    BY <2>1, <2>2
<1> HIDE DEF S
<1>3. n \in S
  BY <1>1, <1>2, Induct
<1> QED
  BY <1>3 DEF S

--------------------------------------------------------------------------------
(* Append *)

LEMMA Appending ==
  ASSUME NEW P, NEW q \in Seq(P), NEW p \in P
  PROVE  /\ Append(q, p) \in Seq(P)
         /\ ToSet(Append(q, p)) = ToSet(q) \cup {p}
         /\ Append(q, p) # q
<1>1. DOMAIN q = 1 .. Len(q) /\ Len(q) \in Nat
  BY LenProperties
<1>2. /\ Append(q, p) \in Seq(P) /\ Len(Append(q, p)) = Len(q) + 1
      /\ \A i \in 1 .. Len(q) : Append(q, p)[i] = q[i]
      /\ Append(q, p)[Len(q) + 1] = p
  BY AppendProperties
<1>3. DOMAIN Append(q, p) = 1 .. Len(q) + 1
  BY <1>2, LenProperties
<1>4. \A i \in 1 .. Len(q) + 1 : i \in 1 .. Len(q) \/ i = Len(q) + 1
  BY <1>1
<1>5. \A n \in Nat : n + 1 \in 1 .. n + 1 /\ 1 .. n \subseteq 1 .. n + 1 /\ n + 1 # n
  OBVIOUS
<1> DEFINE r == Append(q, p)
<1>6. ToSet(r) = {r[i] : i \in 1 .. Len(q) + 1} /\ ToSet(q) = {q[i] : i \in 1 .. Len(q)}
  BY <1>1, <1>3 DEF ToSet
<1>7. /\ \A i \in 1 .. Len(q) : r[i] = q[i]
      /\ r[Len(q) + 1] = p
  BY <1>2
<1> HIDE DEF r
<1>8. ToSet(r) = ToSet(q) \cup {p}
  BY <1>1, <1>4, <1>5, <1>6, <1>7
<1> QED
  BY <1>1, <1>2, <1>5, <1>8 DEF r

LEMMA InjectiveAppend ==
  ASSUME NEW P, NEW q \in Seq(P), NEW p \in P, IsInjective(q), p \notin ToSet(q)
  PROVE  IsInjective(Append(q, p))
<1> DEFINE r == Append(q, p)
           n == Len(q)
<1>1. DOMAIN q = 1 .. n /\ n \in Nat
  BY LenProperties
<1>2. /\ r \in Seq(P) /\ Len(r) = n + 1
      /\ \A i \in 1 .. n : r[i] = q[i]
      /\ r[n + 1] = p
  BY AppendProperties
<1>3. DOMAIN r = 1 .. n + 1
  BY <1>2, LenProperties
<1>4. \A i \in 1 .. n : q[i] # p
  BY <1>1 DEF ToSet
<1>5. \A i, j \in 1 .. n : q[i] = q[j] => i = j
  BY <1>1 DEF IsInjective
<1> HIDE DEF r, n
<1>6. \A i \in 1 .. n + 1 : i \in 1 .. n \/ i = n + 1
  BY <1>1
<1>7. \A i, j \in 1 .. n + 1 : r[i] = r[j] => i = j
  BY <1>2, <1>4, <1>5, <1>6
<1> QED
  BY <1>3, <1>7 DEF IsInjective, r

--------------------------------------------------------------------------------
(* An element put in, and one taken out *)

PutIn(P, s, i, e) ==
  /\ InsertAt(s, i, e) \in Seq(P)
  /\ Len(InsertAt(s, i, e)) = Len(s) + 1
  /\ \A k \in 1 .. Len(s) + 1 :
       InsertAt(s, i, e)[k] = IF k < i THEN s[k] ELSE IF k = i THEN e ELSE s[k - 1]

TakenOut(P, s, i) ==
  /\ RemoveAt(s, i) \in Seq(P)
  /\ Len(RemoveAt(s, i)) = Len(s) - 1
  /\ \A k \in 1 .. Len(s) - 1 : RemoveAt(s, i)[k] = IF k < i THEN s[k] ELSE s[k + 1]

LEMMA Inserting ==
  ASSUME NEW P, NEW s \in Seq(P), NEW e \in P, NEW i \in 1 .. Len(s) + 1
  PROVE  PutIn(P, s, i, e)
<1> DEFINE n == Len(s)
           a == SubSeq(s, 1, i - 1)
           b == <<e>>
           c == SubSeq(s, i, n)
           t == InsertAt(s, i, e)
<1>1. n \in Nat /\ \A k \in 1 .. n : s[k] \in P
  BY LenProperties, ElementOfSeq
<1>2. t = a \o b \o c
  BY DEF InsertAt
<1>3. i \in Int /\ 1 <= i /\ i <= n + 1 /\ i - 1 \in Int
  BY <1>1
<1> HIDE DEF n, t
<1>4. a \in Seq(P) /\ Len(a) = i - 1 /\ \A k \in 1 .. i - 1 : a[k] = s[k]
  <2>1. \A k \in 1 .. i - 1 : s[k] \in P
    BY <1>1, <1>3
  <2>2. /\ a \in Seq(P) /\ Len(a) = IF 1 <= i - 1 THEN (i - 1) - 1 + 1 ELSE 0
        /\ \A k \in 1 .. (i - 1) - 1 + 1 : a[k] = s[1 + k - 1]
    BY <1>3, <2>1, SubSeqProperties
  <2>3. Len(a) = i - 1 /\ (i - 1) - 1 + 1 = i - 1 /\ \A k \in 1 .. i - 1 : 1 + k - 1 = k
    BY <1>3, <2>2
  <2> QED
    BY <2>2, <2>3
<1>5. c \in Seq(P) /\ Len(c) = n - i + 1 /\ \A k \in 1 .. n - i + 1 : c[k] = s[i + k - 1]
  <2>1. \A k \in i .. n : s[k] \in P
    BY <1>1, <1>3
  <2>2. /\ c \in Seq(P) /\ Len(c) = IF i <= n THEN n - i + 1 ELSE 0
        /\ \A k \in 1 .. n - i + 1 : c[k] = s[i + k - 1]
    BY <1>1, <1>3, <2>1, SubSeqProperties
  <2>3. Len(c) = n - i + 1
    BY <1>1, <1>3, <2>2
  <2> QED
    BY <2>2, <2>3
<1>6. b \in Seq(P) /\ Len(b) = 1 /\ b[1] = e
  OBVIOUS
<1> HIDE DEF a, b, c
<1>7. /\ a \o b \in Seq(P) /\ Len(a \o b) = i
      /\ \A k \in 1 .. i : (a \o b)[k] = IF k < i THEN s[k] ELSE e
  <2>1. /\ a \o b \in Seq(P) /\ Len(a \o b) = i - 1 + 1
        /\ \A k \in 1 .. i - 1 + 1 : (a \o b)[k] = IF k <= i - 1 THEN a[k] ELSE b[k - (i - 1)]
    <3>1. /\ a \o b \in Seq(P) /\ Len(a \o b) = Len(a) + Len(b)
          /\ \A k \in 1 .. Len(a) + Len(b) : (a \o b)[k] = IF k <= Len(a) THEN a[k] ELSE b[k - Len(a)]
      BY <1>4, <1>6, ConcatProperties
    <3> QED
      BY <1>4, <1>6, <3>1
  <2>2. ASSUME NEW k \in 1 .. i PROVE (a \o b)[k] = IF k < i THEN s[k] ELSE e
    <3>1. (a \o b)[k] = IF k <= i - 1 THEN a[k] ELSE b[k - (i - 1)]
      BY <1>3, <2>1
    <3>2. CASE k < i
      <4>1. k \in 1 .. i - 1 /\ k <= i - 1
        BY <1>3, <3>2
      <4> QED
        BY <1>4, <3>1, <3>2, <4>1
    <3>3. CASE k = i
      <4>1. ~(k <= i - 1) /\ k - (i - 1) = 1
        BY <1>3, <3>3
      <4> QED
        BY <1>6, <3>1, <3>3, <4>1
    <3>4. k < i \/ k = i
      BY <1>3
    <3> QED
      BY <3>2, <3>3, <3>4
  <2>3. i - 1 + 1 = i
    BY <1>3
  <2> QED
    BY <2>1, <2>2, <2>3
<1>8. /\ t \in Seq(P) /\ Len(t) = i + (n - i + 1)
      /\ \A k \in 1 .. i + (n - i + 1) : t[k] = IF k <= i THEN (a \o b)[k] ELSE c[k - i]
  <2> DEFINE ab == a \o b
  <2>1. ab \in Seq(P) /\ Len(ab) = i
    BY <1>7
  <2> HIDE DEF ab
  <2>2. /\ ab \o c \in Seq(P) /\ Len(ab \o c) = Len(ab) + Len(c)
        /\ \A k \in 1 .. Len(ab) + Len(c) : (ab \o c)[k] = IF k <= Len(ab) THEN ab[k] ELSE c[k - Len(ab)]
    BY <1>5, <2>1, ConcatProperties
  <2>3. t = ab \o c
    BY <1>2 DEF ab
  <2> QED
    BY <1>5, <2>1, <2>2, <2>3 DEF ab
<1>9. Len(t) = n + 1 /\ i + (n - i + 1) = n + 1
  BY <1>1, <1>3, <1>8
<1>10. ASSUME NEW k \in 1 .. n + 1
       PROVE  t[k] = IF k < i THEN s[k] ELSE IF k = i THEN e ELSE s[k - 1]
  <2>1. t[k] = IF k <= i THEN (a \o b)[k] ELSE c[k - i]
    BY <1>8, <1>9
  <2>2. CASE k <= i
    <3>1. k \in 1 .. i /\ (~(k < i) => k = i)
      BY <1>1, <1>3, <2>2
    <3> QED
      BY <1>7, <2>1, <2>2, <3>1
  <2>3. CASE ~(k <= i)
    <3>1. k - i \in 1 .. n - i + 1 /\ i + (k - i) - 1 = k - 1 /\ ~(k < i) /\ k # i
      BY <1>1, <1>3, <2>3
    <3>2. c[k - i] = s[i + (k - i) - 1]
      BY <1>5, <3>1
    <3> QED
      BY <2>1, <2>3, <3>1, <3>2
  <2> QED
    BY <2>2, <2>3
<1> QED
  BY <1>8, <1>9, <1>10 DEF n, t, PutIn

LEMMA Removing ==
  ASSUME NEW P, NEW s \in Seq(P), NEW i \in 1 .. Len(s)
  PROVE  TakenOut(P, s, i)
<1> DEFINE n == Len(s)
           a == SubSeq(s, 1, i - 1)
           c == SubSeq(s, i + 1, n)
           t == RemoveAt(s, i)
<1>1. n \in Nat /\ \A k \in 1 .. n : s[k] \in P
  BY LenProperties, ElementOfSeq
<1>2. t = a \o c
  BY DEF RemoveAt
<1>3. i \in Int /\ 1 <= i /\ i <= n /\ i - 1 \in Int /\ i + 1 \in Int
  BY <1>1
<1> HIDE DEF n, t
<1>4. a \in Seq(P) /\ Len(a) = i - 1 /\ \A k \in 1 .. i - 1 : a[k] = s[k]
  <2>1. \A k \in 1 .. i - 1 : s[k] \in P
    BY <1>1, <1>3
  <2>2. /\ a \in Seq(P) /\ Len(a) = IF 1 <= i - 1 THEN (i - 1) - 1 + 1 ELSE 0
        /\ \A k \in 1 .. (i - 1) - 1 + 1 : a[k] = s[1 + k - 1]
    BY <1>3, <2>1, SubSeqProperties
  <2>3. Len(a) = i - 1 /\ (i - 1) - 1 + 1 = i - 1 /\ \A k \in 1 .. i - 1 : 1 + k - 1 = k
    BY <1>3, <2>2
  <2> QED
    BY <2>2, <2>3
<1>5. c \in Seq(P) /\ Len(c) = n - i /\ \A k \in 1 .. n - i : c[k] = s[i + k]
  <2>1. \A k \in i + 1 .. n : s[k] \in P
    BY <1>1, <1>3
  <2>2. /\ c \in Seq(P) /\ Len(c) = IF i + 1 <= n THEN n - (i + 1) + 1 ELSE 0
        /\ \A k \in 1 .. n - (i + 1) + 1 : c[k] = s[(i + 1) + k - 1]
    BY <1>1, <1>3, <2>1, SubSeqProperties
  <2>3. Len(c) = n - i /\ n - (i + 1) + 1 = n - i /\ \A k \in 1 .. n - i : (i + 1) + k - 1 = i + k
    BY <1>1, <1>3, <2>2
  <2> QED
    BY <2>2, <2>3
<1> HIDE DEF a, c
<1>6. /\ t \in Seq(P) /\ Len(t) = (i - 1) + (n - i)
      /\ \A k \in 1 .. (i - 1) + (n - i) : t[k] = IF k <= i - 1 THEN a[k] ELSE c[k - (i - 1)]
  BY <1>2, <1>4, <1>5, ConcatProperties
<1>7. Len(t) = n - 1 /\ (i - 1) + (n - i) = n - 1
  BY <1>1, <1>3, <1>6
<1>8. ASSUME NEW k \in 1 .. n - 1 PROVE t[k] = IF k < i THEN s[k] ELSE s[k + 1]
  <2>1. t[k] = IF k <= i - 1 THEN a[k] ELSE c[k - (i - 1)]
    BY <1>6, <1>7
  <2>2. CASE k < i
    <3>1. k \in 1 .. i - 1 /\ k <= i - 1
      BY <1>1, <1>3, <2>2
    <3> QED
      BY <1>4, <2>1, <2>2, <3>1
  <2>3. CASE ~(k < i)
    <3>1. k - (i - 1) \in 1 .. n - i /\ i + (k - (i - 1)) = k + 1 /\ ~(k <= i - 1)
      BY <1>1, <1>3, <2>3
    <3>2. c[k - (i - 1)] = s[k + 1]
      BY <1>5, <3>1
    <3> QED
      BY <2>1, <2>3, <3>1, <3>2
  <2> QED
    BY <2>2, <2>3
<1> QED
  BY <1>6, <1>7, <1>8 DEF n, t, TakenOut

OnceMore(s, i, e) ==
  IsInjective(InsertAt(s, i, e)) /\ ToSet(InsertAt(s, i, e)) = ToSet(s) \cup {e}

LEMMA InsertingOnce ==
  ASSUME NEW P, NEW g \in Seq(P), IsInjective(g), NEW r \in P, r \notin ToSet(g),
         NEW at \in 1 .. Len(g) + 1
  PROVE  OnceMore(g, at, r)
<1> DEFINE n == Len(g)
           h == InsertAt(g, at, r)
<1>1. n \in Nat /\ DOMAIN g = 1 .. n
  BY LenProperties
<1>2. /\ h \in Seq(P) /\ Len(h) = n + 1
      /\ \A k \in 1 .. n + 1 : h[k] = IF k < at THEN g[k] ELSE IF k = at THEN r ELSE g[k - 1]
  BY Inserting DEF PutIn
<1>3. /\ \A k \in 1 .. n : g[k] # r /\ g[k] \in ToSet(g)
      /\ \A j, k \in 1 .. n : g[j] = g[k] => j = k
      /\ ToSet(g) = {g[k] : k \in 1 .. n}
  BY <1>1 DEF ToSet, IsInjective
<1>4. DOMAIN h = 1 .. n + 1
  BY <1>2, LenProperties
<1>11. at \in Int /\ 1 <= at /\ at <= n + 1
  BY <1>1
<1> HIDE DEF n, h
<1>5. \A k \in 1 .. n + 1 : (k < at => k \in 1 .. n) /\ (k > at => k - 1 \in 1 .. n) /\ (k < at \/ k = at \/ k > at)
  BY <1>1, <1>11
<1>6. ASSUME NEW j \in 1 .. n + 1, NEW k \in 1 .. n + 1, h[j] = h[k] PROVE j = k
  <2>1. j \in Int /\ k \in Int
    OBVIOUS
  <2>2. CASE j < at
    <3>1. h[j] = g[j] /\ j \in 1 .. n
      BY <1>2, <1>5, <2>2
    <3>2. k < at => h[k] = g[k] /\ k \in 1 .. n
      BY <1>2, <1>5
    <3>3. k = at => h[k] = r
      BY <1>2, <1>11
    <3>4. k > at => h[k] = g[k - 1] /\ k - 1 \in 1 .. n /\ k - 1 # j
      BY <1>2, <1>5, <1>11, <2>1, <2>2
    <3> QED
      BY <1>3, <1>5, <1>6, <3>1, <3>2, <3>3, <3>4
  <2>3. CASE j = at
    <3>1. h[j] = r
      BY <1>2, <1>11, <2>3
    <3>2. k < at => h[k] = g[k] /\ k \in 1 .. n
      BY <1>2, <1>5
    <3>4. k > at => h[k] = g[k - 1] /\ k - 1 \in 1 .. n
      BY <1>2, <1>5, <1>11, <2>1
    <3> QED
      BY <1>3, <1>5, <1>6, <2>3, <3>1, <3>2, <3>4
  <2>4. CASE j > at
    <3>1. h[j] = g[j - 1] /\ j - 1 \in 1 .. n
      BY <1>2, <1>5, <1>11, <2>1, <2>4
    <3>2. k < at => h[k] = g[k] /\ k \in 1 .. n /\ k # j - 1
      BY <1>2, <1>5, <1>11, <2>1, <2>4
    <3>3. k = at => h[k] = r
      BY <1>2, <1>11
    <3>4. k > at => h[k] = g[k - 1] /\ k - 1 \in 1 .. n /\ (k - 1 = j - 1 => k = j)
      BY <1>2, <1>5, <1>11, <2>1
    <3> QED
      BY <1>3, <1>5, <1>6, <3>1, <3>2, <3>3, <3>4
  <2> QED
    BY <1>5, <2>2, <2>3, <2>4
<1>7. IsInjective(h)
  BY <1>4, <1>6 DEF IsInjective
<1>8. ToSet(h) = ToSet(g) \cup {r}
  <2>1. ToSet(h) = {h[k] : k \in 1 .. n + 1}
    BY <1>4 DEF ToSet
  <2>2. ASSUME NEW k \in 1 .. n + 1 PROVE h[k] \in ToSet(g) \cup {r}
    <3>1. (h[k] = g[k] /\ k \in 1 .. n) \/ h[k] = r \/ (h[k] = g[k - 1] /\ k - 1 \in 1 .. n)
      BY <1>2, <1>5, <1>11
    <3> QED
      BY <1>3, <3>1
  <2>3. r \in ToSet(h)
    <3>1. at \in 1 .. n + 1 /\ h[at] = r
      BY <1>2, <1>11
    <3> QED
      BY <2>1, <3>1
  <2>4. ASSUME NEW k \in 1 .. n PROVE g[k] \in ToSet(h)
    <3>1. k \in Int /\ k \in 1 .. n + 1 /\ k + 1 \in 1 .. n + 1 /\ (k + 1) - 1 = k
      BY <1>1
    <3>2. CASE k < at
      BY <1>2, <2>1, <3>1, <3>2
    <3>3. CASE ~(k < at)
      <4>1. ~(k + 1 < at) /\ k + 1 # at
        BY <1>11, <3>1, <3>3
      <4>2. h[k + 1] = g[k]
        BY <1>2, <3>1, <4>1
      <4> QED
        BY <2>1, <3>1, <4>2
    <3> QED
      BY <3>2, <3>3
  <2> QED
    BY <1>3, <2>1, <2>2, <2>3, <2>4
<1> QED
  BY <1>7, <1>8 DEF OnceMore, h

OnceLess(s, i) ==
  IsInjective(RemoveAt(s, i)) /\ ToSet(RemoveAt(s, i)) = ToSet(s) \ {s[i]}

LEMMA RemovingOnce ==
  ASSUME NEW P, NEW g \in Seq(P), IsInjective(g), NEW at \in 1 .. Len(g)
  PROVE  OnceLess(g, at)
<1> DEFINE n == Len(g)
           h == RemoveAt(g, at)
<1>1. n \in Nat /\ DOMAIN g = 1 .. n
  BY LenProperties
<1>2. /\ h \in Seq(P) /\ Len(h) = n - 1
      /\ \A k \in 1 .. n - 1 : h[k] = IF k < at THEN g[k] ELSE g[k + 1]
  BY Removing DEF TakenOut
<1>3. \A j, k \in 1 .. n : g[j] = g[k] => j = k
  BY <1>1 DEF IsInjective
<1>4. ToSet(g) = {g[k] : k \in 1 .. n}
  BY <1>1 DEF ToSet
<1>5. DOMAIN h = 1 .. n - 1
  BY <1>2, LenProperties
<1>6. at \in Int /\ 1 <= at /\ at <= n
  BY <1>1
<1> HIDE DEF n, h
<1> DEFINE Old(k) == IF k < at THEN k ELSE k + 1
<1>7. \A k \in 1 .. n - 1 : h[k] = g[Old(k)] /\ Old(k) \in 1 .. n /\ Old(k) # at
  BY <1>1, <1>2, <1>6
<1>8. \A j, k \in 1 .. n - 1 : Old(j) = Old(k) => j = k
  BY <1>1, <1>6
<1>9. \A k \in 1 .. n : k # at => \E j \in 1 .. n - 1 : Old(j) = k
  <2> SUFFICES ASSUME NEW k \in 1 .. n, k # at PROVE \E j \in 1 .. n - 1 : Old(j) = k
    OBVIOUS
  <2>1. CASE k < at
    <3>1. k \in 1 .. n - 1 /\ Old(k) = k
      BY <1>1, <1>6, <2>1
    <3> QED
      BY <3>1
  <2>2. CASE ~(k < at)
    <3>1. k - 1 \in 1 .. n - 1 /\ Old(k - 1) = k
      BY <1>1, <1>6, <2>2
    <3> QED
      BY <3>1
  <2> QED
    BY <2>1, <2>2
<1> HIDE DEF Old
<1>10. IsInjective(h)
  <2>1. ASSUME NEW j \in 1 .. n - 1, NEW k \in 1 .. n - 1, h[j] = h[k] PROVE j = k
    BY <1>3, <1>7, <1>8, <2>1
  <2> QED
    BY <1>5, <2>1 DEF IsInjective
<1>11. ToSet(h) = ToSet(g) \ {g[at]}
  <2>1. ToSet(h) = {h[k] : k \in 1 .. n - 1}
    BY <1>5 DEF ToSet
  <2>2. ASSUME NEW k \in 1 .. n - 1 PROVE h[k] \in ToSet(g) \ {g[at]}
    BY <1>1, <1>3, <1>4, <1>6, <1>7
  <2>3. ASSUME NEW k \in 1 .. n, g[k] # g[at] PROVE g[k] \in ToSet(h)
    <3>1. PICK j \in 1 .. n - 1 : Old(j) = k
      BY <1>9, <2>3
    <3> QED
      BY <1>7, <2>1, <3>1
  <2> QED
    BY <1>4, <2>1, <2>2, <2>3
<1> QED
  BY <1>10, <1>11 DEF OnceLess, h

LEMMA Least ==
  ASSUME NEW S \in SUBSET Nat, S # {}
  PROVE  Min(S) \in S /\ \A x \in S : Min(S) <= x
<1>1. PICK x \in S : \A y \in S : ~(<<y, x>> \in OpToRel(<, Nat))
  BY NatLessThanWellFounded, WFMin
<1>2. \A y \in S : ~(y < x)
  BY <1>1 DEF OpToRel
<1>3. \A y \in S : x <= y
  BY <1>2
<1> QED
  BY <1>3 DEF Min

LEMMA RemovingFirst ==
  ASSUME NEW P, NEW s \in Seq(P), IsInjective(s), NEW e
  PROVE  /\ RemoveFirst(s, e) \in Seq(P) /\ IsInjective(RemoveFirst(s, e))
         /\ ToSet(RemoveFirst(s, e)) = ToSet(s) \ {e}
<1> DEFINE I == {i \in 1 .. Len(s) : s[i] = e}
<1>1. Len(s) \in Nat /\ DOMAIN s = 1 .. Len(s)
  BY LenProperties
<1>2. ToSet(s) = {s[i] : i \in 1 .. Len(s)}
  BY <1>1 DEF ToSet
<1>3. CASE I = {}
  <2>1. RemoveFirst(s, e) = s
    BY <1>3 DEF RemoveFirst
  <2> QED
    BY <1>2, <1>3, <2>1
<1>4. CASE I # {}
  <2> DEFINE at == Min(I)
  <2>1. at \in I
    <3>1. I \in SUBSET Nat
      BY <1>1
    <3> HIDE DEF I
    <3> QED
      BY <1>4, <3>1, Least
  <2>2. RemoveFirst(s, e) = RemoveAt(s, at)
    BY <1>4 DEF RemoveFirst, SelectInSeq
  <2>3. at \in 1 .. Len(s) /\ s[at] = e
    BY <2>1
  <2> HIDE DEF at
  <2>4. TakenOut(P, s, at) /\ OnceLess(s, at)
    BY <2>3, Removing, RemovingOnce
  <2> QED
    BY <2>2, <2>3, <2>4 DEF TakenOut, OnceLess
<1> QED
  BY <1>3, <1>4

--------------------------------------------------------------------------------
(* FlattenSeq and SetToSeq *)

\* What FlattenSeq() goes through.
Flattens(h, seqs, N) ==
  h[0] = <<>> /\ h[N] = FlattenSeq(seqs) /\ \A n \in 1 .. N : h[n] = h[n - 1] \o seqs[n]

LEMMA FlattenSteps ==
  ASSUME NEW P, NEW seqs \in Seq(Seq(P)), NEW N, N = Len(seqs)
  PROVE  \E h : Flattens(h, seqs, N)
<1> DEFINE Body(g, i) == IF i = 1 THEN seqs[i] ELSE g[i - 1] \o seqs[i]
           Flat(g, m) == g = [i \in 1 .. m |-> Body(g, i)]
           f == CHOOSE g : Flat(g, N)
           S == {m \in Nat : \E g : Flat(g, m)}
           h == [n \in 0 .. N |-> IF n = 0 THEN <<>> ELSE f[n]]
<1>1. N \in Nat /\ \A i \in 1 .. N : seqs[i] \in Seq(P)
  BY LenProperties, ElementOfSeq
<1>2. 0 \in S
  <2>1. Flat([i \in 1 .. 0 |-> 0], 0)
    OBVIOUS
  <2> QED
    BY <2>1
<1>3. ASSUME NEW m \in Nat, m \in S PROVE m + 1 \in S
  <2>1. PICK g : Flat(g, m)
    BY <1>3
  <2> DEFINE g2 == [i \in 1 .. m + 1 |-> Body(g, i)]
  <2>2. g = [i \in 1 .. m |-> Body(g, i)]
    BY <2>1
  <2>3. ASSUME NEW i \in 1 .. m PROVE g2[i] = g[i]
    <3>1. i \in 1 .. m + 1
      OBVIOUS
    <3>2. g2[i] = Body(g, i)
      BY <3>1
    <3> HIDE DEF g2, Body
    <3> QED
      BY <2>2, <3>2
  <2>4. ASSUME NEW i \in 1 .. m + 1 PROVE Body(g2, i) = Body(g, i)
    <3>1. CASE i = 1
      BY <3>1
    <3>2. CASE i # 1
      <4>1. i - 1 \in 1 .. m
        BY <3>2
      <4> HIDE DEF g2
      <4> QED
        BY <2>3, <4>1
    <3> QED
      BY <3>1, <3>2
  <2>5. Flat(g2, m + 1)
    BY <2>4
  <2> HIDE DEF g2, Flat
  <2> QED
    BY <2>5
<1> HIDE DEF S
<1>4. N \in S
  BY <1>1, <1>2, <1>3, Induct
<1>5. Flat(f, N)
  BY <1>4 DEF S
<1>6. N # 0 => FlattenSeq(seqs) = f[N]
  BY Zenon DEF FlattenSeq
<1>7. N = 0 => FlattenSeq(seqs) = <<>>
  <2>1. N = 0 => seqs = <<>>
    BY EmptySeq
  <2> QED
    BY <2>1 DEF FlattenSeq
<1> HIDE DEF f
<1>8. h[0] = <<>> /\ h[N] = FlattenSeq(seqs)
  BY <1>1, <1>6, <1>7
<1>9. ASSUME NEW n \in 1 .. N PROVE h[n] = h[n - 1] \o seqs[n]
  <2>1. f[n] = Body(f, n) /\ h[n] = f[n]
    <3>1. n \in 0 .. N /\ n # 0
      BY <1>1
    <3>2. f[n] = Body(f, n)
      <4> HIDE DEF h, Body
      <4> QED
        BY <1>5
    <3> QED
      BY <3>1, <3>2
  <2>2. CASE n = 1
    <3>1. h[n] = seqs[1] /\ h[n - 1] = <<>> /\ seqs[1] \in Seq(P)
      BY <1>1, <2>1, <2>2
    <3> HIDE DEF h
    <3> QED
      BY <2>2, <3>1, ConcatEmptySeq
  <2>3. CASE n # 1
    <3>1. n - 1 \in 0 .. N /\ n - 1 # 0
      BY <1>1, <2>3
    <3> QED
      BY <2>1, <2>3, <3>1
  <2> QED
    BY <2>2, <2>3
<1> HIDE DEF h
<1> QED
  BY <1>8, <1>9 DEF Flattens

LEMMA Flattening ==
  ASSUME NEW P, NEW seqs \in Seq(Seq(P))
  PROVE  FlattenSeq(seqs) \in Seq(P)
<1>1. PICK N : N = Len(seqs) /\ N \in Nat /\ \A i \in 1 .. N : seqs[i] \in Seq(P)
  BY LenProperties, ElementOfSeq
<1>2. PICK h : Flattens(h, seqs, N)
  BY <1>1, FlattenSteps
<1> DEFINE T == {m \in Nat : m \in 0 .. N => h[m] \in Seq(P)}
<1>3. 0 \in T
  BY <1>2, EmptySeq DEF Flattens
<1>4. ASSUME NEW m \in Nat, m \in T PROVE m + 1 \in T
  <2>1. CASE m + 1 \in 0 .. N
    <3>1. m + 1 \in 1 .. N /\ m \in 0 .. N /\ (m + 1) - 1 = m
      BY <1>1, <2>1
    <3>2. h[m + 1] = h[m] \o seqs[m + 1]
      BY <1>2, <3>1 DEF Flattens
    <3>3. h[m] \in Seq(P) /\ seqs[m + 1] \in Seq(P)
      BY <1>1, <1>4, <3>1
    <3>4. h[m + 1] \in Seq(P)
      BY <3>2, <3>3, ConcatProperties
    <3> QED
      BY <3>4
  <2>2. CASE m + 1 \notin 0 .. N
    BY <2>2
  <2> QED
    BY <2>1, <2>2
<1> HIDE DEF T
<1>5. N \in T
  BY <1>1, <1>3, <1>4, Induct
<1> QED
  BY <1>1, <1>2, <1>5 DEF T, Flattens

\* The elements of a finite set, in any order.
LEMMA Listing ==
  ASSUME NEW P, NEW X \in SUBSET P, IsFiniteSet(X)
  PROVE  SetToSeq(X) \in Seq(P)
<1> DEFINE n == Cardinality(X)
<1>1. n \in Nat /\ ExistsBijection(1 .. n, X)
  BY FS_CardinalityType
<1>2. PICK g : g \in Bijection(1 .. n, X)
  BY <1>1 DEF ExistsBijection
<1>3. g \in [1 .. n -> X] /\ IsInjective(g)
  BY <1>2 DEF Bijection, Injection, IsInjective
<1>4. SetToSeq(X) \in [1 .. n -> X]
  BY <1>3 DEF SetToSeq
<1> QED
  BY <1>1, <1>4

--------------------------------------------------------------------------------
(* How often a value occurs in a sequence, and in its first n places *)

CountTo(s, t, n) == Cardinality({k \in 1 .. n : s[k] = t})
HowOften(s, t) == Cardinality({k \in DOMAIN s : s[k] = t})

Counts(s, t, n) ==
  /\ CountTo(s, t, n) \in Nat /\ CountTo(s, t, 0) = 0
  /\ CountTo(s, t, n + 1) = CountTo(s, t, n) + IF s[n + 1] = t THEN 1 ELSE 0

LEMMA Counting ==
  ASSUME NEW s, NEW t, NEW n \in Nat
  PROVE  Counts(s, t, n)
<1> DEFINE A == {k \in 1 .. n : s[k] = t}
           B == {k \in 1 .. n + 1 : s[k] = t}
<1>1. IsFiniteSet(A)
  <2>1. IsFiniteSet(1 .. n) /\ A \in SUBSET (1 .. n)
    BY FS_Interval
  <2> QED
    BY <2>1, FS_Subset
<1>2. {k \in 1 .. 0 : s[k] = t} = {}
  OBVIOUS
<1>3. B = IF s[n + 1] = t THEN A \cup {n + 1} ELSE A
  OBVIOUS
<1>4. n + 1 \notin A
  OBVIOUS
<1> HIDE DEF A, B
<1>5. Cardinality(A) \in Nat
  BY <1>1, FS_CardinalityType
<1>6. Cardinality(B) = Cardinality(A) + IF s[n + 1] = t THEN 1 ELSE 0
  <2>1. CASE s[n + 1] = t
    BY <1>1, <1>3, <1>4, <2>1, FS_AddElement
  <2>2. CASE s[n + 1] # t
    BY <1>3, <1>5, <2>2
  <2> QED
    BY <2>1, <2>2
<1>7. CountTo(s, t, 0) = 0
  BY <1>2, FS_EmptySet DEF CountTo
<1> QED
  BY <1>5, <1>6, <1>7 DEF A, B, CountTo, Counts

\* A longer part holds the value as often or more often, and all of its places count.
LEMMA CountingMore ==
  ASSUME NEW s, NEW t, NEW n \in Nat, NEW m \in Nat, m <= n
  PROVE  CountTo(s, t, m) <= CountTo(s, t, n)
<1> DEFINE A == {k \in 1 .. m : s[k] = t}
           B == {k \in 1 .. n : s[k] = t}
<1>1. IsFiniteSet(B)
  <2>1. IsFiniteSet(1 .. n) /\ B \in SUBSET (1 .. n)
    BY FS_Interval
  <2> QED
    BY <2>1, FS_Subset
<1>2. A \in SUBSET B
  OBVIOUS
<1> HIDE DEF A, B
<1>3. Cardinality(A) <= Cardinality(B)
  BY <1>1, <1>2, FS_Subset
<1> QED
  BY <1>3 DEF A, B, CountTo

LEMMA Often ==
  ASSUME NEW P, NEW s \in Seq(P), NEW t
  PROVE  /\ HowOften(s, t) = CountTo(s, t, Len(s)) /\ HowOften(s, t) \in Nat
         /\ HowOften(s, t) > 0 => \E k \in 1 .. Len(s) : s[k] = t
<1>1. Len(s) \in Nat /\ DOMAIN s = 1 .. Len(s)
  BY LenProperties
<1>2. HowOften(s, t) = CountTo(s, t, Len(s))
  BY <1>1 DEF HowOften, CountTo
<1>3. HowOften(s, t) \in Nat
  BY <1>1, <1>2, Counting DEF Counts
<1>4. ASSUME \A k \in 1 .. Len(s) : s[k] # t PROVE HowOften(s, t) = 0
  <2>1. {k \in 1 .. Len(s) : s[k] = t} = {}
    BY <1>4
  <2> QED
    BY <1>2, <2>1, FS_EmptySet DEF CountTo
<1> QED
  BY <1>2, <1>3, <1>4

\* Two sequences with the same elements at the first places.
LEMMA CountingSame ==
  ASSUME NEW r, NEW s, NEW t, NEW n, \A k \in 1 .. n : r[k] = s[k]
  PROVE  CountTo(r, t, n) = CountTo(s, t, n)
<1>1. {k \in 1 .. n : r[k] = t} = {k \in 1 .. n : s[k] = t}
  OBVIOUS
<1> QED
  BY <1>1 DEF CountTo

\* One sequence behind another.
LEMMA OftenConcat ==
  ASSUME NEW P, NEW a \in Seq(P), NEW b \in Seq(P), NEW t
  PROVE  HowOften(a \o b, t) = HowOften(a, t) + HowOften(b, t)
<1> DEFINE n == Len(a)
           c == a \o b
           S == {k \in Nat : k <= Len(b) => CountTo(c, t, n + k) = CountTo(a, t, n) + CountTo(b, t, k)}
<1>1. n \in Nat /\ Len(b) \in Nat
  BY LenProperties
<1>2. c \in Seq(P) /\ Len(c) = n + Len(b) /\ \A k \in 1 .. n + Len(b) : c[k] = IF k <= n THEN a[k] ELSE b[k - n]
  BY ConcatProperties
<1> HIDE DEF n, c
<1>3. 0 \in S
  <2>1. \A k \in 1 .. n : c[k] = a[k]
    BY <1>1, <1>2
  <2>2. CountTo(c, t, n) = CountTo(a, t, n)
    BY <2>1, CountingSame
  <2>3. CountTo(b, t, 0) = 0 /\ CountTo(a, t, n) \in Nat /\ n + 0 = n
    BY <1>1, Counting DEF Counts
  <2> QED
    BY <2>2, <2>3
<1>4. ASSUME NEW k \in Nat, k \in S PROVE k + 1 \in S
  <2> SUFFICES ASSUME k + 1 <= Len(b)
               PROVE  CountTo(c, t, n + (k + 1)) = CountTo(a, t, n) + CountTo(b, t, k + 1)
    OBVIOUS
  <2>1. CountTo(c, t, n + k) = CountTo(a, t, n) + CountTo(b, t, k)
    BY <1>1, <1>4
  <2>2. c[(n + k) + 1] = b[k + 1]
    <3>1. (n + k) + 1 \in 1 .. n + Len(b) /\ ~((n + k) + 1 <= n) /\ ((n + k) + 1) - n = k + 1
      BY <1>1
    <3> QED
      BY <1>2, <3>1
  <2>3. n + k \in Nat /\ (n + k) + 1 = n + (k + 1)
    BY <1>1
  <2>4. Counts(c, t, n + k) /\ Counts(b, t, k) /\ Counts(a, t, n)
    BY <1>1, <2>3, Counting
  <2> QED
    BY <2>1, <2>2, <2>3, <2>4 DEF Counts
<1> HIDE DEF S
<1>5. Len(b) \in S
  BY <1>1, <1>3, <1>4, Induct
<1>6. CountTo(c, t, n + Len(b)) = CountTo(a, t, n) + CountTo(b, t, Len(b))
  BY <1>1, <1>5 DEF S
<1>7. /\ HowOften(c, t) = CountTo(c, t, Len(c)) /\ HowOften(a, t) = CountTo(a, t, n)
      /\ HowOften(b, t) = CountTo(b, t, Len(b))
  BY <1>2, Often DEF n
<1> QED
  BY <1>2, <1>6, <1>7 DEF c

LEMMA OftenOne ==
  ASSUME NEW e, NEW t
  PROVE  HowOften(<<e>>, t) = (IF e = t THEN 1 ELSE 0) /\ HowOften(<<>>, t) = 0
<1> DEFINE s == <<e>>
<1>1. s \in Seq({e}) /\ Len(s) = 1 /\ s[1] = e
  OBVIOUS
<1> HIDE DEF s
<1>2. Counts(s, t, 0)
  BY Counting
<1>3. CountTo(s, t, 1) = IF e = t THEN 1 ELSE 0
  BY <1>1, <1>2 DEF Counts
<1>4. HowOften(s, t) = CountTo(s, t, 1)
  BY <1>1, Often
<1>5. HowOften(s, t) = IF e = t THEN 1 ELSE 0
  BY <1>3, <1>4
<1>6. {k \in DOMAIN <<>> : <<>>[k] = t} = {}
  OBVIOUS
<1> QED
  BY <1>5, <1>6, FS_EmptySet DEF s, HowOften

\* An element is taken out.
LEMMA OftenLess ==
  ASSUME NEW P, NEW s \in Seq(P), NEW at \in 1 .. Len(s), NEW t
  PROVE  HowOften(RemoveAt(s, at), t) = HowOften(s, t) - IF s[at] = t THEN 1 ELSE 0
<1> DEFINE n == Len(s)
           r == RemoveAt(s, at)
           one == IF s[at] = t THEN 1 ELSE 0
           S == {k \in Nat : k <= n - 1 =>
                   CountTo(r, t, k) = IF k < at THEN CountTo(s, t, k) ELSE CountTo(s, t, k + 1) - one}
<1>1. n \in Nat /\ at \in Int /\ 1 <= at /\ at <= n /\ one \in Nat
  BY LenProperties
<1>2. r \in Seq(P) /\ Len(r) = n - 1 /\ \A k \in 1 .. n - 1 : r[k] = IF k < at THEN s[k] ELSE s[k + 1]
  <2>1. TakenOut(P, s, at)
    BY Removing
  <2> QED
    BY <2>1 DEF TakenOut
<1>3. \A k \in Nat : Counts(r, t, k) /\ Counts(s, t, k)
  BY Counting
<1>4. HowOften(r, t) = CountTo(r, t, n - 1) /\ HowOften(s, t) = CountTo(s, t, n)
  BY <1>2, Often
<1>5. (IF s[at] = t THEN 1 ELSE 0) = one
  OBVIOUS
<1> HIDE DEF n, r, one
<1>6. 0 \in S
  BY <1>1, <1>3 DEF Counts
<1>7. ASSUME NEW k \in Nat, k \in S PROVE k + 1 \in S
  <2> SUFFICES ASSUME k + 1 <= n - 1
               PROVE  CountTo(r, t, k + 1) =
                        IF k + 1 < at THEN CountTo(s, t, k + 1) ELSE CountTo(s, t, (k + 1) + 1) - one
    OBVIOUS
  <2>1. CountTo(r, t, k) = IF k < at THEN CountTo(s, t, k) ELSE CountTo(s, t, k + 1) - one
    BY <1>1, <1>7
  <2>2. Counts(r, t, k) /\ Counts(s, t, k) /\ Counts(s, t, k + 1)
    BY <1>3
  <2>3. r[k + 1] = IF k + 1 < at THEN s[k + 1] ELSE s[(k + 1) + 1]
    BY <1>1, <1>2
  <2>4. CASE k + 1 < at
    <3>1. k < at
      BY <1>1, <2>4
    <3> QED
      BY <2>1, <2>2, <2>3, <2>4, <3>1 DEF Counts
  <2>5. CASE k + 1 = at
    <3>1. k < at /\ ~(k + 1 < at)
      BY <1>1, <2>5
    <3>2. one = IF s[k + 1] = t THEN 1 ELSE 0
      BY <2>5 DEF one
    <3>3. CountTo(s, t, k + 1) = CountTo(s, t, k) + one
      BY <2>2, <3>2 DEF Counts
    <3>4. CountTo(r, t, k + 1) = CountTo(s, t, k) + IF s[(k + 1) + 1] = t THEN 1 ELSE 0
      BY <2>1, <2>2, <2>3, <3>1 DEF Counts
    <3>5. CountTo(s, t, (k + 1) + 1) = CountTo(s, t, k + 1) + IF s[(k + 1) + 1] = t THEN 1 ELSE 0
      BY <2>2 DEF Counts
    <3>6. CountTo(s, t, k) \in Nat
      BY <2>2 DEF Counts
    <3> QED
      BY <1>1, <3>1, <3>3, <3>4, <3>5, <3>6
  <2>6. CASE at < k + 1
    <3>1. ~(k < at) /\ ~(k + 1 < at)
      BY <1>1, <2>6
    <3>2. CountTo(r, t, k + 1) = CountTo(r, t, k) + IF s[(k + 1) + 1] = t THEN 1 ELSE 0
      BY <2>2, <2>3, <3>1 DEF Counts
    <3>3. CountTo(s, t, (k + 1) + 1) = CountTo(s, t, k + 1) + IF s[(k + 1) + 1] = t THEN 1 ELSE 0
      BY <2>2 DEF Counts
    <3>4. CountTo(s, t, k + 1) \in Nat
      BY <2>2 DEF Counts
    <3> QED
      BY <1>1, <2>1, <3>1, <3>2, <3>3, <3>4
  <2>7. k + 1 < at \/ k + 1 = at \/ at < k + 1
    BY <1>1
  <2> QED
    BY <2>4, <2>5, <2>6, <2>7
<1> HIDE DEF S
<1>8. n - 1 \in Nat
  BY <1>1
<1>9. n - 1 \in S
  BY <1>6, <1>7, <1>8, Induct
<1>10. CountTo(r, t, n - 1) = IF n - 1 < at THEN CountTo(s, t, n - 1) ELSE CountTo(s, t, (n - 1) + 1) - one
  BY <1>8, <1>9 DEF S
<1>11. CASE n - 1 < at
  <2>1. at = n /\ (n - 1) + 1 = n
    BY <1>1, <1>11
  <2>2. Counts(s, t, n - 1)
    BY <1>3, <1>8
  <2>3. CountTo(s, t, n) = CountTo(s, t, n - 1) + one
    BY <2>1, <2>2 DEF Counts, one
  <2>4. CountTo(s, t, n - 1) \in Nat
    BY <2>2 DEF Counts
  <2> QED
    BY <1>1, <1>4, <1>10, <1>11, <2>3, <2>4 DEF r, one
<1>12. CASE ~(n - 1 < at)
  <2>1. (n - 1) + 1 = n
    BY <1>1
  <2> QED
    BY <1>4, <1>10, <1>12, <2>1 DEF r, one
<1> QED
  BY <1>11, <1>12

\* Two sequences that differ by what is at a place of the one, which the other lacks or has otherwise.
LEMMA OftenSameRest ==
  ASSUME NEW P, NEW r \in Seq(P), NEW s \in Seq(P), NEW t, Len(r) = Len(s),
         \A k \in 1 .. Len(s) : r[k] = s[k]
  PROVE  HowOften(r, t) = HowOften(s, t)
<1>1. CountTo(r, t, Len(s)) = CountTo(s, t, Len(s))
  BY CountingSame
<1> QED
  BY <1>1, Often

LEMMA OftenMore ==
  ASSUME NEW P, NEW s \in Seq(P), NEW at \in 1 .. Len(s) + 1, NEW e \in P, NEW t
  PROVE  HowOften(InsertAt(s, at, e), t) = HowOften(s, t) + IF e = t THEN 1 ELSE 0
<1> DEFINE n == Len(s)
           r == InsertAt(s, at, e)
           q == RemoveAt(r, at)
<1>1. n \in Nat /\ at \in Int /\ 1 <= at /\ at <= n + 1
  BY LenProperties
<1>2. /\ r \in Seq(P) /\ Len(r) = n + 1
      /\ \A k \in 1 .. n + 1 : r[k] = IF k < at THEN s[k] ELSE IF k = at THEN e ELSE s[k - 1]
  <2>1. PutIn(P, s, at, e)
    BY Inserting
  <2> QED
    BY <2>1 DEF PutIn
<1> HIDE DEF n, r
<1>3. at \in 1 .. Len(r)
  BY <1>1, <1>2
<1>4. q \in Seq(P) /\ Len(q) = n /\ \A k \in 1 .. n : q[k] = IF k < at THEN r[k] ELSE r[k + 1]
  <2>1. TakenOut(P, r, at)
    BY <1>2, <1>3, Removing
  <2> QED
    BY <1>1, <1>2, <2>1 DEF TakenOut
<1>5. HowOften(q, t) = HowOften(r, t) - IF r[at] = t THEN 1 ELSE 0
  BY <1>2, <1>3, OftenLess
<1> HIDE DEF q
<1>6. \A k \in 1 .. n : q[k] = s[k]
  <2> SUFFICES ASSUME NEW k \in 1 .. n PROVE q[k] = s[k]
    OBVIOUS
  <2>1. CASE k < at
    <3>1. k \in 1 .. n + 1
      BY <1>1
    <3> QED
      BY <1>2, <1>4, <2>1, <3>1
  <2>2. CASE ~(k < at)
    <3>1. k + 1 \in 1 .. n + 1 /\ ~(k + 1 < at) /\ k + 1 # at /\ (k + 1) - 1 = k
      BY <1>1, <2>2
    <3> QED
      BY <1>2, <1>4, <2>2, <3>1
  <2> QED
    BY <2>1, <2>2
<1>7. HowOften(q, t) = HowOften(s, t)
  BY <1>4, <1>6, OftenSameRest DEF n
<1>8. r[at] = e
  BY <1>1, <1>2
<1>9. HowOften(r, t) \in Nat
  BY <1>2, Often
<1> QED
  BY <1>5, <1>7, <1>8, <1>9 DEF r

LEMMA OftenElsewhere ==
  ASSUME NEW P, NEW r \in Seq(P), NEW s \in Seq(P), NEW at \in 1 .. Len(s), NEW t,
         Len(r) = Len(s), \A k \in 1 .. Len(s) : k # at => r[k] = s[k]
  PROVE  HowOften(r, t) = HowOften(s, t) - (IF s[at] = t THEN 1 ELSE 0) + IF r[at] = t THEN 1 ELSE 0
<1> DEFINE p == RemoveAt(r, at)
           q == RemoveAt(s, at)
           n == Len(s)
<1>2. at \in 1 .. Len(r) /\ n \in Nat /\ at \in Int /\ Len(r) = n
  BY LenProperties
<1>3. p \in Seq(P) /\ Len(p) = n - 1 /\ \A k \in 1 .. n - 1 : p[k] = IF k < at THEN r[k] ELSE r[k + 1]
  <2>1. TakenOut(P, r, at)
    BY <1>2, Removing
  <2> QED
    BY <1>2, <2>1 DEF TakenOut
<1>4. q \in Seq(P) /\ Len(q) = n - 1 /\ \A k \in 1 .. n - 1 : q[k] = IF k < at THEN s[k] ELSE s[k + 1]
  <2>1. TakenOut(P, s, at)
    BY Removing
  <2> QED
    BY <2>1 DEF TakenOut
<1>5. HowOften(p, t) = HowOften(r, t) - IF r[at] = t THEN 1 ELSE 0
  BY <1>2, OftenLess
<1>6. HowOften(q, t) = HowOften(s, t) - IF s[at] = t THEN 1 ELSE 0
  BY OftenLess
<1> HIDE DEF p, q, n
<1>7. \A k \in 1 .. n - 1 : p[k] = q[k]
  <2> SUFFICES ASSUME NEW k \in 1 .. n - 1 PROVE p[k] = q[k]
    OBVIOUS
  <2>1. k \in 1 .. n /\ k + 1 \in 1 .. n /\ (k < at => k # at) /\ (~(k < at) => k + 1 # at)
    BY <1>2
  <2> QED
    BY <1>3, <1>4, <2>1 DEF n
<1>8. HowOften(p, t) = HowOften(q, t)
  BY <1>3, <1>4, <1>7, OftenSameRest
<1>9. HowOften(r, t) \in Nat /\ HowOften(s, t) \in Nat
  BY Often
<1> QED
  BY <1>5, <1>6, <1>8, <1>9

LEMMA OftenTail ==
  ASSUME NEW P, NEW s \in Seq(P), s # <<>>, NEW t
  PROVE  HowOften(Tail(s), t) = HowOften(s, t) - IF Head(s) = t THEN 1 ELSE 0
<1> DEFINE n == Len(s)
           q == RemoveAt(s, 1)
           r == Tail(s)
<1>1. n \in Nat \ {0}
  BY EmptySeq
<1>2. r \in Seq(P) /\ Len(r) = n - 1 /\ Head(s) = s[1] /\ \A k \in 1 .. n - 1 : r[k] = s[k + 1]
  BY HeadTailProperties
<1>3. 1 \in 1 .. n
  BY <1>1
<1>4. q \in Seq(P) /\ Len(q) = n - 1 /\ \A k \in 1 .. n - 1 : q[k] = IF k < 1 THEN s[k] ELSE s[k + 1]
  <2>1. TakenOut(P, s, 1)
    BY <1>3, Removing
  <2> QED
    BY <2>1 DEF TakenOut
<1>5. HowOften(q, t) = HowOften(s, t) - IF s[1] = t THEN 1 ELSE 0
  BY <1>3, OftenLess
<1> HIDE DEF q, r, n
<1>6. \A k \in 1 .. n - 1 : r[k] = q[k]
  <2>1. \A k \in 1 .. n - 1 : ~(k < 1)
    BY <1>1
  <2> QED
    BY <1>2, <1>4, <2>1
<1>7. HowOften(r, t) = HowOften(q, t)
  BY <1>2, <1>4, <1>6, OftenSameRest
<1> QED
  BY <1>2, <1>5, <1>7 DEF r

\* A function that goes to each element of B from exactly one of A.
LEMMA SameNumber ==
  ASSUME NEW A, NEW B, IsFiniteSet(A), NEW f \in [A -> B],
         \A j, k \in A : f[j] = f[k] => j = k, \A b \in B : \E a \in A : f[a] = b
  PROVE  IsFiniteSet(B) /\ Cardinality(A) = Cardinality(B)
<1>1. f \in Bijection(A, B)
  BY DEF Bijection, Injection, Surjection, IsInjective
<1>2. ExistsBijection(A, B)
  BY <1>1 DEF ExistsBijection
<1> QED
  BY <1>2, FS_Bijection

LEMMA FinitePlaces ==
  ASSUME NEW P, NEW s \in Seq(P), NEW X, X \subseteq DOMAIN s
  PROVE  IsFiniteSet(X) /\ Cardinality(X) \in Nat
<1>1. DOMAIN s = 1 .. Len(s) /\ Len(s) \in Nat
  BY LenProperties
<1>2. IsFiniteSet(1 .. Len(s)) /\ X \in SUBSET (1 .. Len(s))
  BY <1>1, FS_Interval
<1> QED
  BY <1>2, FS_Subset, FS_CardinalityType

LEMMA OftenReverse ==
  ASSUME NEW P, NEW s \in Seq(P), NEW t
  PROVE  HowOften(Reverse(s), t) = HowOften(s, t)
<1> DEFINE n == Len(s)
           r == Reverse(s)
           A == {k \in DOMAIN r : r[k] = t}
           B == {k \in DOMAIN s : s[k] = t}
           f == [k \in A |-> (n - k) + 1]
<1>1. n \in Nat /\ DOMAIN s = 1 .. n
  BY LenProperties
<1>2. DOMAIN r = 1 .. n /\ \A k \in 1 .. n : r[k] = s[(n - k) + 1]
  BY DEF Reverse
<1>3. IsFiniteSet(A)
  <2>1. A \subseteq DOMAIN s
    BY <1>1, <1>2
  <2> HIDE DEF A
  <2> QED
    BY <2>1, FinitePlaces
<1> HIDE DEF n, r
<1>4. \A k \in A : k \in 1 .. n /\ (n - k) + 1 \in B
  <2> TAKE k \in A
  <2>1. k \in 1 .. n /\ r[k] = t
    BY <1>2
  <2>2. (n - k) + 1 \in 1 .. n
    BY <1>1, <2>1
  <2> QED
    BY <1>1, <1>2, <2>1, <2>2
<1>5. \A k \in B : (n - k) + 1 \in A /\ (n - ((n - k) + 1)) + 1 = k
  <2> TAKE k \in B
  <2>1. k \in 1 .. n /\ s[k] = t
    BY <1>1
  <2>2. (n - k) + 1 \in 1 .. n /\ (n - ((n - k) + 1)) + 1 = k
    BY <1>1, <2>1
  <2> QED
    BY <1>1, <1>2, <2>1, <2>2
<1> HIDE DEF A, B
<1>6. f \in [A -> B]
  BY <1>4
<1>7. \A j, k \in A : f[j] = f[k] => j = k
  BY <1>1, <1>4
<1>8. \A b \in B : \E a \in A : f[a] = b
  BY <1>5
<1> HIDE DEF f
<1>9. Cardinality(A) = Cardinality(B)
  BY <1>3, <1>6, <1>7, <1>8, SameNumber
<1> QED
  BY <1>9 DEF A, B, r, HowOften

\* FlattenSeq puts one sequence behind the other, and a value occurs as often as in all of them.
OftenFlat(h, seqs, N, P, t) ==
  /\ HowOften(h[0], t) = 0
  /\ \A n \in 1 .. N : /\ h[n - 1] \in Seq(P) /\ seqs[n] \in Seq(P)
                       /\ HowOften(h[n], t) = HowOften(h[n - 1], t) + HowOften(seqs[n], t)

LEMMA OftenFlattened ==
  ASSUME NEW P, NEW seqs \in Seq(Seq(P)), NEW N, N = Len(seqs), NEW h, Flattens(h, seqs, N), NEW t
  PROVE  OftenFlat(h, seqs, N, P, t)
<1>1. N \in Nat /\ \A n \in 1 .. N : seqs[n] \in Seq(P)
  BY LenProperties, ElementOfSeq
<1> DEFINE S == {n \in Nat : n \in 0 .. N => h[n] \in Seq(P)}
<1>2. 0 \in S
  BY EmptySeq DEF Flattens
<1>3. ASSUME NEW n \in Nat, n \in S PROVE n + 1 \in S
  <2>1. CASE n + 1 \in 0 .. N
    <3>1. n + 1 \in 1 .. N /\ n \in 0 .. N /\ (n + 1) - 1 = n
      BY <1>1, <2>1
    <3>2. h[n + 1] = h[n] \o seqs[n + 1]
      BY <3>1 DEF Flattens
    <3>3. h[n] \in Seq(P) /\ seqs[n + 1] \in Seq(P)
      BY <1>1, <1>3, <3>1
    <3>4. h[n + 1] \in Seq(P)
      BY <3>2, <3>3, ConcatProperties
    <3> QED
      BY <3>4
  <2>2. CASE n + 1 \notin 0 .. N
    BY <2>2
  <2> QED
    BY <2>1, <2>2
<1> HIDE DEF S
<1>4. Nat \subseteq S
  BY <1>2, <1>3, Induct
<1>5. ASSUME NEW n \in 1 .. N
      PROVE  /\ h[n - 1] \in Seq(P) /\ seqs[n] \in Seq(P)
             /\ HowOften(h[n], t) = HowOften(h[n - 1], t) + HowOften(seqs[n], t)
  <2>1. n - 1 \in 0 .. N /\ n - 1 \in Nat
    BY <1>1
  <2>2. h[n - 1] \in Seq(P)
    BY <1>4, <2>1 DEF S
  <2>3. h[n] = h[n - 1] \o seqs[n]
    BY DEF Flattens
  <2>4. HowOften(h[n - 1] \o seqs[n], t) = HowOften(h[n - 1], t) + HowOften(seqs[n], t)
    BY <1>1, <2>2, OftenConcat
  <2> QED
    BY <1>1, <2>2, <2>3, <2>4
<1>6. h[0] = <<>> /\ HowOften(<<>>, t) = 0
  BY OftenOne DEF Flattens
<1> QED
  BY <1>5, <1>6 DEF OftenFlat

\* A part of a sequence: the elements at the places that are not in J.
Singly(s, J) == [k \in DOMAIN s |-> IF k \in J THEN <<>> ELSE <<s[k]>>]
OftenSome(P, s, J, t) ==
  /\ Singly(s, J) \in Seq(Seq(P)) /\ FlattenSeq(Singly(s, J)) \in Seq(P)
  /\ HowOften(FlattenSeq(Singly(s, J)), t) = Cardinality({k \in DOMAIN s : k \notin J /\ s[k] = t})

LEMMA FlattenSome ==
  ASSUME NEW P, NEW s \in Seq(P), NEW J, NEW t
  PROVE  OftenSome(P, s, J, t)
<1>0. PICK q : q = Singly(s, J) /\ q = [k \in DOMAIN s |-> IF k \in J THEN <<>> ELSE <<s[k]>>]
  BY DEF Singly
<1>1. PICK N : N = Len(s) /\ N \in Nat /\ DOMAIN s = 1 .. N /\ \A k \in 1 .. N : s[k] \in P
  BY LenProperties, ElementOfSeq
<1>2. q \in [1 .. N -> Seq(P)]
  <2>1. \A k \in 1 .. N : <<s[k]>> \in Seq(P) /\ <<>> \in Seq(P)
    BY <1>1, EmptySeq
  <2> QED
    BY <1>0, <1>1, <2>1
<1>3. q \in Seq(Seq(P)) /\ Len(q) = N
  BY <1>0, <1>1, <1>2
<1>4. FlattenSeq(q) \in Seq(P)
  BY <1>3, Flattening
<1>5. PICK h : Flattens(h, q, N)
  BY <1>3, FlattenSteps
<1>6. OftenFlat(h, q, N, P, t)
  BY <1>3, <1>5, OftenFlattened
<1> DEFINE b == [k \in 1 .. N |-> IF k \notin J /\ s[k] = t THEN 1 ELSE 0]
           S == {n \in Nat : n \in 0 .. N => HowOften(h[n], t) = CountTo(b, 1, n)}
<1>7. \A k \in 1 .. N : b[k] = 1 <=> k \notin J /\ s[k] = t
  OBVIOUS
<1> HIDE DEF b
<1>8. 0 \in S
  BY <1>6, Counting DEF OftenFlat, Counts
<1>9. ASSUME NEW n \in Nat, n \in S PROVE n + 1 \in S
  <2>1. CASE n + 1 \in 0 .. N
    <3>1. n + 1 \in 1 .. N /\ n \in 0 .. N /\ (n + 1) - 1 = n
      BY <1>1, <2>1
    <3>2. HowOften(h[n + 1], t) = HowOften(h[n], t) + HowOften(q[n + 1], t)
      BY <1>6, <3>1 DEF OftenFlat
    <3>3. HowOften(h[n], t) = CountTo(b, 1, n)
      BY <1>9, <3>1
    <3>4. Counts(b, 1, n)
      BY Counting
    <3>5. HowOften(q[n + 1], t) = IF b[n + 1] = 1 THEN 1 ELSE 0
      <4>1. q[n + 1] = IF n + 1 \in J THEN <<>> ELSE <<s[n + 1]>>
        BY <1>0, <1>1, <3>1
      <4>2. HowOften(<<>>, t) = 0 /\ HowOften(<<s[n + 1]>>, t) = IF s[n + 1] = t THEN 1 ELSE 0
        BY OftenOne
      <4> QED
        BY <1>7, <3>1, <4>1, <4>2
    <3>6. HowOften(h[n + 1], t) = CountTo(b, 1, n + 1)
      BY <3>2, <3>3, <3>4, <3>5 DEF Counts
    <3> QED
      BY <3>6
  <2>2. CASE n + 1 \notin 0 .. N
    BY <2>2
  <2> QED
    BY <2>1, <2>2
<1> HIDE DEF S
<1>10. N \in S
  BY <1>1, <1>8, <1>9, Induct
<1>11. HowOften(h[N], t) = CountTo(b, 1, N)
  BY <1>1, <1>10 DEF S
<1>12. CountTo(b, 1, N) = Cardinality({k \in DOMAIN s : k \notin J /\ s[k] = t})
  <2>1. {k \in 1 .. N : b[k] = 1} = {k \in DOMAIN s : k \notin J /\ s[k] = t}
    BY <1>1, <1>7
  <2> QED
    BY <2>1 DEF CountTo
<1> QED
  BY <1>0, <1>3, <1>4, <1>5, <1>11, <1>12 DEF Flattens, OftenSome
=================================================================================
