--------------------------- MODULE SequenceLemmas ---------------------------
(***************************************************************************)
(* Facts about naturals and sequences that the proofs share.               *)
(***************************************************************************)
EXTENDS Integers, SequencesExt, FiniteSetTheorems, WellFoundedInduction, TLAPS

Below == {p \in Nat \X Nat : p[1] < p[2]}

(* A nonempty set of naturals has a least element: what Min and SelectInSeq *)
(* choose exists, and a proof by induction can ask for the least            *)
(* counterexample.                                                          *)
LEMMA LeastExists ==
    ASSUME NEW S \in SUBSET Nat, S # {}
    PROVE  \E m \in S : \A n \in S : m <= n
<1>1. OpToRel(<, Nat) = Below
  BY Zenon DEF OpToRel, Below
<1>2. IsWellFoundedOn(Below, Nat)
  BY <1>1, NatLessThanWellFounded, Zenon
<1>3. PICK m \in S : \A n \in S : ~ (<<n, m>> \in Below)
  BY <1>2, WFMin
<1>4. ASSUME NEW n \in S PROVE m <= n
  <2>1. m \in Nat /\ n \in Nat /\ <<n, m>> \in Nat \X Nat
    OBVIOUS
  <2>2. ~ (<<n, m>> \in Below)
    BY <1>3
  <2>3. n < m => <<n, m>> \in Below
    BY <2>1 DEF Below
  <2> QED
    BY <2>1, <2>2, <2>3
<1> QED
  BY <1>4

(* A set of numbers below a bound has a greatest one.                       *)
LEMMA GreatestExists ==
    ASSUME NEW N \in Nat, NEW S \in SUBSET (0 .. N), S # {}
    PROVE  \E m \in S : \A n \in S : m >= n
<1> DEFINE T == {N - n : n \in S}
<1>0. \A n \in S : n \in Nat /\ N - n \in Nat
  <2> SUFFICES ASSUME NEW n \in S PROVE n \in Nat /\ N - n \in Nat
    OBVIOUS
  <2>1. n \in 0 .. N
    OBVIOUS
  <2> QED
    BY <2>1
<1>1. T \in SUBSET Nat /\ T # {}
  BY <1>0
<1>2. PICK t \in T : \A n \in T : t <= n
  <2> HIDE DEF T
  <2> QED
    BY <1>1, LeastExists
<1>3. PICK m \in S : t = N - m
  OBVIOUS
<1>4. ASSUME NEW n \in S PROVE m >= n
  <2>1. N - m <= N - n
    BY <1>2, <1>3
  <2> QED
    BY <1>0, <2>1
<1> QED
  BY <1>4

LEMMA RemoveAtProperties ==
    ASSUME NEW E, NEW s \in Seq(E), NEW i \in DOMAIN s
    PROVE  /\ RemoveAt(s, i) \in Seq(E)
           /\ Len(RemoveAt(s, i)) = Len(s) - 1
           /\ \A j \in 1 .. Len(s) - 1 :
                 RemoveAt(s, i)[j] = IF j < i THEN s[j] ELSE s[j + 1]
<1> DEFINE a == SubSeq(s, 1, i - 1)
           b == SubSeq(s, i + 1, Len(s))
<1>1. i \in 1 .. Len(s) /\ Len(s) \in Nat
  OBVIOUS
<1>2. a \in Seq(E) /\ Len(a) = i - 1 /\ \A j \in 1 .. i - 1 : a[j] = s[j]
  BY <1>1
<1>3. /\ b \in Seq(E) /\ Len(b) = Len(s) - i
      /\ \A j \in 1 .. Len(s) - i : b[j] = s[i + j]
  BY <1>1
<1>4. RemoveAt(s, i) = a \o b
  BY DEF RemoveAt
<1> HIDE DEF a, b
<1>5. a \o b \in Seq(E) /\ Len(a \o b) = Len(s) - 1
  BY <1>1, <1>2, <1>3
<1>6. \A j \in 1 .. Len(s) - 1 : (a \o b)[j] = IF j < i THEN s[j] ELSE s[j + 1]
  <2> TAKE j \in 1 .. Len(s) - 1
  <2>1. (a \o b)[j] = IF j <= Len(a) THEN a[j] ELSE b[j - Len(a)]
    BY <1>1, <1>2, <1>3
  <2>2. j >= i => j - (i - 1) \in 1 .. Len(s) - i /\ i + (j - (i - 1)) = j + 1
    BY <1>1
  <2> QED
    BY <1>1, <1>2, <1>3, <2>1, <2>2
<1> QED
  BY <1>4, <1>5, <1>6

(* Sequences of the same length with the same elements are the same.       *)
LEMMA SeqSame ==
    ASSUME NEW E, NEW s \in Seq(E), NEW t \in Seq(E), Len(s) = Len(t),
           \A i \in 1 .. Len(s) : s[i] = t[i]
    PROVE  s = t
OBVIOUS

(* t is s with e put in at place i. *)
LEMMA InsertedSeq ==
    ASSUME NEW E, NEW s \in Seq(E), NEW i \in 1 .. Len(s) + 1, NEW e \in E, NEW t \in Seq(E),
           Len(t) = Len(s) + 1, t[i] = e,
           \A j \in 1 .. i - 1 : t[j] = s[j],
           \A j \in i + 1 .. Len(s) + 1 : t[j] = s[j - 1]
    PROVE  t = SubSeq(s, 1, i - 1) \o <<e>> \o SubSeq(s, i, Len(s))
<1> DEFINE a == SubSeq(s, 1, i - 1)
           b == SubSeq(s, i, Len(s))
           c == a \o <<e>>
<1>1. Len(s) \in Nat
  OBVIOUS
<1>2. a \in Seq(E) /\ Len(a) = i - 1 /\ \A j \in 1 .. i - 1 : a[j] = s[j]
  BY <1>1
<1>3. /\ b \in Seq(E) /\ Len(b) = Len(s) + 1 - i
      /\ \A j \in 1 .. Len(s) + 1 - i : b[j] = s[i + j - 1]
  BY <1>1
<1> HIDE DEF a, b
<1>4. c \in Seq(E) /\ Len(c) = i /\ c[i] = e
  <2>1. Len(<<e>>) = 1 /\ <<e>>[1] = e /\ <<e>> \in Seq(E)
    OBVIOUS
  <2>2. c \in Seq(E) /\ Len(c) = i
    BY <1>2, <2>1
  <2>3. c[i] = <<e>>[1]
    BY <1>1, <1>2, <2>1
  <2> QED
    BY <2>1, <2>2, <2>3
<1>8. ASSUME NEW j \in 1 .. i - 1 PROVE c[j] = s[j]
  <2>1. c[j] = a[j]
    BY <1>1, <1>2
  <2> QED
    BY <1>2, <2>1
<1> HIDE DEF c
<1>5. c \o b \in Seq(E) /\ Len(c \o b) = Len(s) + 1
  BY <1>1, <1>3, <1>4
<1>6. ASSUME NEW j \in 1 .. Len(s) + 1 PROVE (c \o b)[j] = t[j]
  <2>1. (c \o b)[j] = IF j <= Len(c) THEN c[j] ELSE b[j - Len(c)]
    BY <1>1, <1>3, <1>4
  <2>2. CASE j < i
    <3>1. j \in 1 .. i - 1 /\ c[j] = s[j] /\ t[j] = s[j]
      BY <1>1, <1>8, <2>2
    <3> QED
      BY <1>4, <2>1, <2>2, <3>1
  <2>4. CASE j = i
    BY <1>4, <2>1, <2>4
  <2>3. CASE j > i
    <3>1. PICK k \in 1 .. Len(s) + 1 - i : k = j - i /\ i + k - 1 = j - 1
      BY <1>1, <2>3
    <3>2. t[j] = s[j - 1]
      BY <1>1, <2>3
    <3>3. b[k] = s[i + k - 1]
      BY <1>3, <3>1
    <3>4. (c \o b)[j] = b[k]
      BY <1>4, <2>1, <2>3, <3>1
    <3> QED
      BY <3>1, <3>2, <3>3, <3>4
  <2>5. j < i \/ j = i \/ j > i
    BY <1>1
  <2> QED
    BY ONLY <2>2, <2>3, <2>4, <2>5
<1>7. t = c \o b
  BY <1>5, <1>6, SeqSame
<1> QED
  BY <1>7 DEF a, b, c

(* t is s without what stands at place i. *)
LEMMA RemovedSeq ==
    ASSUME NEW E, NEW s \in Seq(E), NEW i \in DOMAIN s, NEW t \in Seq(E),
           Len(t) = Len(s) - 1,
           \A j \in 1 .. Len(t) : t[j] = IF j < i THEN s[j] ELSE s[j + 1]
    PROVE  t = SubSeq(s, 1, i - 1) \o SubSeq(s, i + 1, Len(s))
<1>1. RemoveAt(s, i) = t
  <2>1. RemoveAt(s, i) \in Seq(E) /\ Len(RemoveAt(s, i)) = Len(t)
    BY RemoveAtProperties
  <2>2. ASSUME NEW j \in 1 .. Len(t) PROVE RemoveAt(s, i)[j] = t[j]
    BY RemoveAtProperties
  <2> QED
    BY <2>1, <2>2, SeqSame
<1> QED
  BY <1>1 DEF RemoveAt

(* t is the first n elements of s. *)
LEMMA PrefixSeq ==
    ASSUME NEW E, NEW s \in Seq(E), NEW n \in 0 .. Len(s), NEW t \in Seq(E),
           Len(t) = n, \A j \in 1 .. n : t[j] = s[j]
    PROVE  t = SubSeq(s, 1, n)
<1>1. /\ SubSeq(s, 1, n) \in Seq(E) /\ Len(SubSeq(s, 1, n)) = n
      /\ \A j \in 1 .. n : SubSeq(s, 1, n)[j] = s[j]
  OBVIOUS
<1> QED
  BY <1>1, SeqSame

-----------------------------------------------------------------------------
AscendingTo(s, n) == \A x, y \in 1 .. n : x < y => s[x] < s[y]

(* Two ascending sequences agree before m, and the second one reaches all of S. *)
LEMMA AscendingBelow ==
    ASSUME NEW S \in SUBSET Nat, NEW n \in Nat, NEW s \in [1 .. n -> S], NEW t \in [1 .. n -> S],
           AscendingTo(s, n), AscendingTo(t, n), \A e \in S : \E k \in 1 .. n : t[k] = e,
           NEW m \in 1 .. n, \A k \in 1 .. n : k < m => s[k] = t[k]
    PROVE  t[m] <= s[m]
<1>1. PICK k \in 1 .. n : t[k] = s[m]
  OBVIOUS
<1>5. s[k] \in Nat /\ t[k] \in Nat /\ s[m] \in Nat /\ t[m] \in Nat
  OBVIOUS
<1>2. CASE k < m
  <2>1. s[k] = t[k]
    BY <1>2
  <2>2. s[k] < s[m]
    BY <1>2 DEF AscendingTo
  <2> QED
    BY <1>1, <1>5, <2>1, <2>2
<1>3. CASE k = m
  BY <1>1, <1>3, <1>5
<1>4. CASE k > m
  <2>1. t[m] < t[k]
    BY <1>4 DEF AscendingTo
  <2> QED
    BY <1>1, <1>5, <2>1
<1>6. k < m \/ k = m \/ k > m
  OBVIOUS
<1> QED
  BY ONLY <1>2, <1>3, <1>4, <1>6

LEMMA AscendingInjective ==
    ASSUME NEW S \in SUBSET Nat, NEW n \in Nat, NEW s \in [1 .. n -> S], AscendingTo(s, n)
    PROVE  s \in Injection(1 .. n, S)
<1>1. ASSUME NEW x \in 1 .. n, NEW y \in 1 .. n, s[x] = s[y] PROVE x = y
  <2>3. x \in Nat /\ y \in Nat
    OBVIOUS
  <2>4. s[x] \in Nat
    OBVIOUS
  <2>5. s[y] \in Nat
    OBVIOUS
  <2>1. x \in Nat /\ y \in Nat /\ s[x] \in Nat /\ s[y] \in Nat
    BY <2>3, <2>4, <2>5
  <2>2. ~ (x < y) /\ ~ (y < x)
    BY <1>1, <2>1 DEF AscendingTo
  <2> QED
    BY <2>1, <2>2
<1>2. DOMAIN s = 1 .. n
  OBVIOUS
<1>3. \A x, y \in 1 .. n : s[x] = s[y] => x = y
  BY <1>1
<1> QED
  BY <1>2, <1>3 DEF Injection, IsInjective

(* A finite set of naturals has one strictly ascending enumeration.         *)
LEMMA AscendingUnique ==
    ASSUME NEW S \in SUBSET Nat, NEW n \in Nat, NEW s \in [1 .. n -> S], AscendingTo(s, n),
           \A e \in S : \E k \in 1 .. n : s[k] = e
    PROVE  /\ Cardinality(S) = n
           /\ \A t \in [1 .. n -> S] : AscendingTo(t, n) => t = s
<1>1. s \in Injection(1 .. n, S) /\ s \in Surjection(1 .. n, S)
  BY AscendingInjective DEF Surjection
<1>2. IsFiniteSet(1 .. n) /\ Cardinality(1 .. n) = n
  BY FS_Interval
<1>3. Cardinality(S) = n /\ IsFiniteSet(S)
  BY <1>1, <1>2, FS_Surjection
<1>4. ASSUME NEW t \in [1 .. n -> S], AscendingTo(t, n)
      PROVE  t = s
  <2>1. t \in Injection(1 .. n, S)
    BY <1>4, AscendingInjective
  <2>2. t \in Surjection(1 .. n, S)
    BY <1>2, <1>3, <2>1, FS_Injection
  <2>3. \A e \in S : \E k \in 1 .. n : t[k] = e
    BY <2>2 DEF Surjection
  <2> DEFINE D == {k \in 1 .. n : s[k] # t[k]}
  <2>5. ASSUME D # {} PROVE FALSE
    <3>1. D \in SUBSET Nat
      OBVIOUS
    <3>2. PICK m \in D : \A k \in D : m <= k
      <4> HIDE DEF D
      <4> QED
        BY <2>5, <3>1, LeastExists
    <3>3. m \in 1 .. n /\ s[m] # t[m]
      BY <3>2
    <3>6. ASSUME NEW k \in 1 .. n, k < m PROVE s[k] = t[k]
      <4>1. k \notin D
        BY <3>1, <3>2, <3>3, <3>6
      <4> QED
        BY <4>1
    <3>4. t[m] <= s[m]
      BY <1>4, <2>3, <3>3, <3>6, AscendingBelow
    <3>7. \A k \in 1 .. n : k < m => t[k] = s[k]
      BY <3>6
    <3>5. s[m] <= t[m]
      BY <1>4, <3>3, <3>7, AscendingBelow
    <3>8. s[m] \in Nat /\ t[m] \in Nat
      BY <3>3
    <3> QED
      BY <3>3, <3>4, <3>5, <3>8
  <2> QED
    BY <2>5
<1> QED
  BY <1>3, <1>4

-----------------------------------------------------------------------------
(* Reading a sequence element by element: all is what has been read, r, and *)
(* what is left of s from place p on.                                       *)
Continues(all, r, s, p) ==
    /\ p \in 1 .. Len(s) + 1
    /\ all = r \o SubSeq(s, p, Len(s))

LEMMA ReadNothing ==
    ASSUME NEW E, NEW s \in Seq(E)
    PROVE  Continues(s, <<>>, s, 1)
  BY DEF Continues

LEMMA ReadNext ==
    ASSUME NEW E, NEW all, NEW r \in Seq(E), NEW s \in Seq(E), NEW p \in 1 .. Len(s),
           Continues(all, r, s, p)
    PROVE  Continues(all, Append(r, s[p]), s, p + 1)
<1> DEFINE a == SubSeq(s, p, Len(s))
           b == SubSeq(s, p + 1, Len(s))
           t == Append(r, s[p])
<1>1. Len(s) \in Nat /\ p \in Nat /\ s[p] \in E
  OBVIOUS
<1>2. PICK m \in Nat : m = Len(s) - p
  BY <1>1
<1>3. a \in Seq(E) /\ Len(a) = m + 1 /\ \A j \in 1 .. m + 1 : a[j] = s[p + j - 1]
  BY <1>1, <1>2
<1>4. b \in Seq(E) /\ Len(b) = m /\ \A j \in 1 .. m : b[j] = s[p + j]
  BY <1>1, <1>2
<1>5. /\ t \in Seq(E) /\ Len(t) = Len(r) + 1 /\ t[Len(r) + 1] = s[p]
      /\ \A j \in 1 .. Len(r) : t[j] = r[j]
  BY <1>1
<1> HIDE DEF a, b, t
<1>6. PICK n \in Nat : n = Len(r)
  OBVIOUS
<1>7. r \o a \in Seq(E) /\ Len(r \o a) = n + m + 1
  BY <1>3, <1>6
<1>8. t \o b \in Seq(E) /\ Len(t \o b) = n + m + 1
  <2>1. t \o b \in Seq(E) /\ Len(t \o b) = Len(t) + Len(b)
    BY <1>4, <1>5
  <2> QED
    BY <1>4, <1>5, <1>6, <2>1
<1>9. ASSUME NEW j \in 1 .. n + m + 1 PROVE (r \o a)[j] = (t \o b)[j]
  <2>1. (r \o a)[j] = IF j <= n THEN r[j] ELSE a[j - n]
    BY <1>3, <1>6, <1>7
  <2>2. (t \o b)[j] = IF j <= n + 1 THEN t[j] ELSE b[j - (n + 1)]
    BY <1>4, <1>5, <1>6, <1>8
  <2>3. CASE j <= n
    BY <1>5, <1>6, <2>1, <2>2, <2>3
  <2>4. CASE j = n + 1
    <3>1. a[1] = s[p]
      BY <1>1, <1>3
    <3> QED
      BY <1>5, <1>6, <2>1, <2>2, <2>4, <3>1
  <2>5. CASE j > n + 1
    <3>1. PICK k \in 1 .. m : k + n + 1 = j
      <4>1. j - n - 1 \in 1 .. m /\ (j - n - 1) + n + 1 = j
        BY <2>5
      <4> QED
        BY <4>1
    <3>2. a[k + 1] = s[p + k] /\ b[k] = s[p + k]
      BY <1>1, <1>3, <1>4
    <3>3. j - n = k + 1 /\ j - (n + 1) = k
      BY <3>1
    <3> QED
      BY <2>1, <2>2, <2>5, <3>2, <3>3
  <2>6. j <= n \/ j = n + 1 \/ j > n + 1
    OBVIOUS
  <2> QED
    BY ONLY <2>3, <2>4, <2>5, <2>6
<1>10. r \o a = t \o b
  BY <1>7, <1>8, <1>9, SeqSame
<1> QED
  BY <1>1, <1>10 DEF Continues, a, b, t

(* What was left of the first part is read. *)
LEMMA ReadPart ==
    ASSUME NEW E, NEW all, NEW r \in Seq(E), NEW w \in Seq(E), NEW s \in Seq(E),
           Continues(all, r, w \o s, Len(w) + 1)
    PROVE  Continues(all, r, s, 1)
<1> DEFINE c == w \o s
           d == SubSeq(c, Len(w) + 1, Len(c))
<1>1. Len(w) \in Nat /\ Len(s) \in Nat
  OBVIOUS
<1>2. c \in Seq(E) /\ Len(c) = Len(w) + Len(s)
  OBVIOUS
<1>3. \A j \in 1 .. Len(s) : c[Len(w) + j] = s[j]
  BY <1>1
<1> HIDE DEF c
<1>4. d \in Seq(E) /\ Len(d) = Len(s) /\ \A j \in 1 .. Len(s) : d[j] = c[Len(w) + j]
  BY <1>1, <1>2
<1>5. d = s
  <2> HIDE DEF d
  <2> QED
    BY <1>3, <1>4, SeqSame
<1>6. SubSeq(s, 1, Len(s)) = s
  OBVIOUS
<1> QED
  <2>1. SubSeq(w \o s, Len(w) + 1, Len(w \o s)) = SubSeq(s, 1, Len(s))
    BY <1>5, <1>6 DEF c, d
  <2> QED
    BY <1>1, <2>1 DEF Continues

LEMMA ReadAll ==
    ASSUME NEW E, NEW all, NEW r \in Seq(E), Continues(all, r, <<>>, 1)
    PROVE  all = r
  BY DEF Continues

LEMMA ReadIsPrefix ==
    ASSUME NEW E, NEW all, NEW r \in Seq(E), NEW s \in Seq(E), NEW p, Continues(all, r, s, p)
    PROVE  IsPrefix(r, all)
<1> DEFINE a == SubSeq(s, p, Len(s))
<1>1. a \in Seq(E) /\ all = r \o a
  BY DEF Continues
<1> HIDE DEF a
<1>2. Len(r) \in Nat /\ Len(a) \in Nat /\ Len(r \o a) = Len(r) + Len(a) /\ r \o a \in Seq(E)
  BY <1>1
<1>3. Len(r) <= Len(r \o a)
  BY <1>2
<1>4. r = SubSeq(r \o a, 1, Len(r))
  <2>1. \A j \in 1 .. Len(r) : r[j] = (r \o a)[j]
    BY <1>1, <1>2
  <2> QED
    BY <1>2, <1>3, <2>1, PrefixSeq
<1>5. SubSeq(r, 1, Len(r)) = r
  OBVIOUS
<1> QED
  BY <1>1, <1>3, <1>4, <1>5 DEF IsPrefix

-----------------------------------------------------------------------------
(* Recursive functions.  A rank tells which values a value depends on.      *)
LEMMA RankInduction ==
    ASSUME NEW D, NEW rank \in [D -> Nat], NEW Good,
           \A p \in D : (\A q \in D : rank[q] < rank[p] => q \in Good) => p \in Good
    PROVE  D \subseteq Good
<1> DEFINE Bad == {n \in Nat : \E p \in D : rank[p] = n /\ p \notin Good}
<1>1. ASSUME Bad # {} PROVE FALSE
  <2>1. Bad \in SUBSET Nat
    OBVIOUS
  <2>2. PICK m \in Bad : \A n \in Bad : m <= n
    <3> HIDE DEF Bad
    <3> QED
      BY <1>1, <2>1, LeastExists
  <2>3. PICK p \in D : rank[p] = m /\ p \notin Good
    OBVIOUS
  <2>4. PICK q \in D : rank[q] < rank[p] /\ q \notin Good
    BY <2>3
  <2>5. rank[q] \in Nat /\ rank[p] \in Nat
    OBVIOUS
  <2>6. rank[q] \in Bad
    BY <2>4, <2>5
  <2> QED
    BY <2>2, <2>3, <2>4, <2>5, <2>6
<1>2. ASSUME NEW p \in D PROVE p \in Good
  <2>1. p \notin Good => rank[p] \in Bad
    OBVIOUS
  <2> QED
    BY <1>1, <2>1
<1> QED
  BY <1>2

(* body[f] is the right side of a recursive definition of f in [D -> S],    *)
(* whose value at p is made of values of lower rank, all of them below N.   *)
Recursion(D, S, rank, N, body) ==
    /\ S # {} /\ N \in Nat
    /\ rank \in [D -> Nat] /\ \A p \in D : rank[p] < N
    /\ body \in [[D -> S] -> [D -> S]]
    /\ \A f, g \in [D -> S] : \A p \in D :
          (\A q \in D : rank[q] < rank[p] => f[q] = g[q]) => body[f][p] = body[g][p]

LEMMA RecursionExists ==
    ASSUME NEW D, NEW S, NEW rank, NEW N, NEW body, Recursion(D, S, rank, N, body)
    PROVE  \E f \in [D -> S] : f = body[f]
<1> USE DEF Recursion
<1> DEFINE Solves(f, n) == \A p \in D : rank[p] < n => f[p] = body[f][p]
           Without == {n \in Nat : ~ \E f \in [D -> S] : Solves(f, n)}
<1>1. 0 \notin Without
  <2>1. PICK e \in S : TRUE
    OBVIOUS
  <2>2. [p \in D |-> e] \in [D -> S]
    OBVIOUS
  <2>3. Solves([p \in D |-> e], 0)
    OBVIOUS
  <2> QED
    BY <2>2, <2>3
<1>2. ASSUME NEW n \in Nat, n \notin Without PROVE n + 1 \notin Without
  <2>1. PICK f \in [D -> S] : Solves(f, n)
    BY <1>2
  <2>2. PICK g \in [D -> S] : g = body[f]
    OBVIOUS
  <2>3. ASSUME NEW p \in D, rank[p] < n + 1 PROVE g[p] = body[g][p]
    <3>1. ASSUME NEW q \in D, rank[q] < rank[p] PROVE f[q] = g[q]
      <4>1. rank[q] \in Nat /\ rank[p] \in Nat
        OBVIOUS
      <4>2. rank[q] < n
        BY <2>3, <3>1, <4>1
      <4> QED
        BY <2>1, <2>2, <4>2
    <3>2. body[f][p] = body[g][p]
      BY <3>1
    <3> QED
      BY <2>2, <3>2
  <2>4. Solves(g, n + 1)
    BY <2>3
  <2> QED
    BY <2>4
<1>3. Without = {}
  <2>1. ASSUME Without # {} PROVE FALSE
    <3>1. Without \in SUBSET Nat
      OBVIOUS
    <3>2. PICK m \in Without : \A n \in Without : m <= n
      <4> HIDE DEF Without
      <4> QED
        BY <2>1, <3>1, LeastExists
    <3>3. m \in Nat /\ m # 0
      BY <1>1, <3>2
    <3>4. PICK n \in Nat : n + 1 = m
      <4>1. m - 1 \in Nat /\ (m - 1) + 1 = m
        BY <3>3
      <4> QED
        BY <4>1
    <3>5. n \notin Without
      <4> HIDE DEF Without
      <4> QED
        BY <3>2, <3>4
    <3> HIDE DEF Without
    <3> QED
      BY <1>2, <3>2, <3>4, <3>5
  <2> QED
    BY <2>1
<1>4. PICK f \in [D -> S] : Solves(f, N)
  <2>1. N \notin Without
    BY <1>3
  <2> QED
    BY <2>1
<1>5. \A p \in D : f[p] = body[f][p]
  BY <1>4
<1>6. body[f] \in [D -> S]
  OBVIOUS
<1> QED
  BY <1>5, <1>6

(* f gives the flattened prefixes of a sequence of sequences.               *)
Flattens(E, ss, f) ==
    /\ f \in [1 .. Len(ss) -> Seq(E)]
    /\ FlattenSeq(ss) = f[Len(ss)]
    /\ f[1] = ss[1]
    /\ \A x \in 1 .. Len(ss) : x # 1 => f[x] = f[x - 1] \o ss[x]

LEMMA FlattenIs ==
    ASSUME NEW E, NEW ss \in Seq(Seq(E)), ss # <<>>
    PROVE  \E f : Flattens(E, ss, f)
<1> DEFINE D == 1 .. Len(ss)
           Right(f, x) == IF x = 1 THEN ss[x] ELSE f[x - 1] \o ss[x]
           rank == [x \in D |-> x]
           body == [f \in [D -> Seq(E)] |-> [x \in D |-> Right(f, x)]]
<1>1. Len(ss) \in Nat /\ Len(ss) # 0 /\ 1 \in D /\ Len(ss) \in D
  OBVIOUS
<1>2. \A x \in D : ss[x] \in Seq(E)
  OBVIOUS
<1>3. \A x \in D : x # 1 => x - 1 \in D /\ x - 1 < x
  BY <1>1
<1>4. ASSUME NEW a \in Seq(E), NEW b \in Seq(E) PROVE a \o b \in Seq(E)
  OBVIOUS
<1>5. ASSUME NEW f \in [D -> Seq(E)], NEW x \in D PROVE Right(f, x) \in Seq(E)
  <2>1. x # 1 => f[x - 1] \in Seq(E)
    <3> HIDE DEF D
    <3> QED
      BY <1>3
  <2> HIDE DEF D
  <2> QED
    BY <1>2, <1>4, <2>1
<1>6. body \in [[D -> Seq(E)] -> [D -> Seq(E)]]
  <2> HIDE DEF D, Right
  <2> QED
    BY <1>5
<1>7. rank \in [D -> Nat] /\ Len(ss) + 1 \in Nat /\ \A x \in D : rank[x] < Len(ss) + 1
  BY <1>1
<1>8. \A f, g \in [D -> Seq(E)] : \A x \in D :
        (\A y \in D : rank[y] < rank[x] => f[y] = g[y]) => body[f][x] = body[g][x]
  <2> TAKE f, g \in [D -> Seq(E)]
  <2> TAKE x \in D
  <2> HAVE \A y \in D : rank[y] < rank[x] => f[y] = g[y]
  <2>1. \A y \in D : rank[y] = y
    OBVIOUS
  <2>2. x # 1 => f[x - 1] = g[x - 1]
    <3> HIDE DEF D, rank
    <3> QED
      BY <1>3, <2>1
  <2>3. Right(f, x) = Right(g, x)
    BY <2>2
  <2> HIDE DEF D, Right
  <2> QED
    BY <2>3
<1>9. \E f \in [D -> Seq(E)] : f = body[f]
  <2> DEFINE S == Seq(E)
             N == Len(ss) + 1
  <2>1. S # {}
    OBVIOUS
  <2>2. /\ rank \in [D -> Nat] /\ N \in Nat /\ \A x \in D : rank[x] < N
        /\ body \in [[D -> S] -> [D -> S]]
    BY <1>6, <1>7
  <2>3. \A f, g \in [D -> S] : \A x \in D :
          (\A y \in D : rank[y] < rank[x] => f[y] = g[y]) => body[f][x] = body[g][x]
    BY <1>8
  <2> HIDE DEF D, rank, body, S, N
  <2>4. Recursion(D, S, rank, N, body)
    BY <2>1, <2>2, <2>3 DEF Recursion
  <2>5. \E f \in [D -> S] : f = body[f]
    BY <2>4, RecursionExists
  <2> QED
    BY <2>5 DEF S
<1>10. PICK f \in [D -> Seq(E)] : f = body[f]
  BY <1>9
<1>11. f = [x \in D |-> Right(f, x)]
  <2> HIDE DEF D, Right
  <2> QED
    BY <1>10
<1>12. PICK h : h = [x \in D |-> Right(h, x)] /\ FlattenSeq(ss) = h[Len(ss)]
  <2> DEFINE h == CHOOSE h : h = [x \in D |-> Right(h, x)]
  <2>1. h = [x \in D |-> Right(h, x)]
    BY <1>11, Zenon
  <2>2. FlattenSeq(ss) = h[Len(ss)]
    BY <1>1, Zenon DEF FlattenSeq
  <2> QED
    BY <2>1, <2>2
<1>13. \A x \in D : h[x] = Right(h, x)
  <2> HIDE DEF D, Right
  <2> QED
    BY <1>12
<1>14. D \subseteq {x \in D : h[x] \in Seq(E)}
  <2> DEFINE Good == {x \in D : h[x] \in Seq(E)}
  <2>1. ASSUME NEW x \in D, \A y \in D : rank[y] < rank[x] => y \in Good PROVE x \in Good
    <3>1. \A y \in D : rank[y] = y
      OBVIOUS
    <3>2. x # 1 => h[x - 1] \in Seq(E)
      <4> HIDE DEF D, rank
      <4> QED
        BY <1>3, <2>1, <3>1
    <3>3. Right(h, x) \in Seq(E)
      <4> HIDE DEF D
      <4> QED
        BY <1>2, <1>4, <3>2
    <3> HIDE DEF D, Right, rank
    <3> QED
      BY <1>13, <3>3
  <2> HIDE DEF D, rank, Good
  <2>2. \A x \in D : (\A y \in D : rank[y] < rank[x] => y \in Good) => x \in Good
    BY <2>1
  <2>3. D \subseteq Good
    BY <1>7, <2>2, RankInduction
  <2> QED
    BY <2>3 DEF Good
<1>15. h \in [D -> Seq(E)]
  <2> HIDE DEF D, Right
  <2> QED
    BY <1>12, <1>14
<1>16. h[1] = ss[1]
  <2> HIDE DEF D
  <2> QED
    BY <1>1, <1>13
<1>17. \A x \in D : x # 1 => h[x] = h[x - 1] \o ss[x]
  <2> HIDE DEF D
  <2> QED
    BY <1>13
<1> QED
  <2> HIDE DEF D
  <2>1. /\ h \in [D -> Seq(E)] /\ FlattenSeq(ss) = h[Len(ss)] /\ h[1] = ss[1]
        /\ \A x \in D : x # 1 => h[x] = h[x - 1] \o ss[x]
    BY <1>12, <1>15, <1>16, <1>17
  <2>2. Flattens(E, ss, h)
    BY <2>1 DEF Flattens, D
  <2> QED
    BY <2>2

LEMMA FlattenType ==
    ASSUME NEW E, NEW ss \in Seq(Seq(E))
    PROVE  FlattenSeq(ss) \in Seq(E)
<1>1. CASE ss = <<>>
  BY <1>1, Len(ss) = 0 DEF FlattenSeq
<1>2. CASE ss # <<>>
  <2>1. PICK f : f \in [1 .. Len(ss) -> Seq(E)] /\ FlattenSeq(ss) = f[Len(ss)]
    BY <1>2, FlattenIs DEF Flattens
  <2>2. Len(ss) \in 1 .. Len(ss)
    BY <1>2
  <2> QED
    BY <2>1, <2>2
<1> QED
  BY <1>1, <1>2

LEMMA UpTo ==
    ASSUME NEW N \in Nat, NEW Good, 0 \in Good, \A n \in 1 .. N : n - 1 \in Good => n \in Good
    PROVE  0 .. N \subseteq Good
<1> DEFINE Bad == {n \in 0 .. N : n \notin Good}
<1>1. ASSUME Bad # {} PROVE FALSE
  <2>1. Bad \in SUBSET Nat
    OBVIOUS
  <2>2. PICK m \in Bad : \A n \in Bad : m <= n
    <3> HIDE DEF Bad
    <3> QED
      BY <1>1, <2>1, LeastExists
  <2>3. m \in 1 .. N /\ m - 1 \in 0 .. N /\ m - 1 \notin Good
    OBVIOUS
  <2> QED
    BY <2>2, <2>3
<1> QED
  BY <1>1

LEMMA FlattenAppend ==
    ASSUME NEW E, NEW ss \in Seq(Seq(E)), NEW e \in Seq(E)
    PROVE  FlattenSeq(Append(ss, e)) = FlattenSeq(ss) \o e
<1> DEFINE tt == Append(ss, e)
<1>1. /\ tt \in Seq(Seq(E)) /\ Len(tt) = Len(ss) + 1 /\ tt # <<>> /\ Len(ss) \in Nat
      /\ tt[Len(ss) + 1] = e /\ \A x \in 1 .. Len(ss) : tt[x] = ss[x]
  <2> DEFINE S == Seq(E)
  <2>1. ss \in Seq(S) /\ e \in S
    OBVIOUS
  <2> HIDE DEF S
  <2>2. tt \in Seq(S) /\ Len(tt) = Len(ss) + 1 /\ Len(ss) \in Nat
    BY <2>1
  <2>3. tt[Len(ss) + 1] = e /\ \A x \in 1 .. Len(ss) : tt[x] = ss[x]
    BY <2>1
  <2>4. tt # <<>>
    BY <2>2
  <2> QED
    BY <2>2, <2>3, <2>4 DEF S
<1> HIDE DEF tt
<1>2. PICK g : Flattens(E, tt, g)
  BY <1>1, FlattenIs
<1>3. CASE ss = <<>>
  <2>1. Len(ss) = 0
    BY <1>3
  <2>2. FlattenSeq(ss) = <<>>
    BY <1>3, <2>1 DEF FlattenSeq
  <2>3. FlattenSeq(tt) = e
    BY <1>1, <1>2, <2>1 DEF Flattens
  <2>4. <<>> \o e = e
    OBVIOUS
  <2> QED
    BY <2>2, <2>3, <2>4 DEF tt
<1>4. CASE ss # <<>>
  <2>1. PICK f : Flattens(E, ss, f)
    BY <1>4, FlattenIs
  <2> DEFINE Good == {x \in 0 .. Len(ss) : x # 0 => f[x] = g[x]}
  <2>2. \A x \in 1 .. Len(ss) : x - 1 \in Good => x \in Good
    <3> SUFFICES ASSUME NEW x \in 1 .. Len(ss), x - 1 \in Good PROVE f[x] = g[x]
      OBVIOUS
    <3>1. CASE x = 1
      BY <1>1, <1>2, <2>1, <3>1 DEF Flattens
    <3>2. CASE x # 1
      <4>1. f[x - 1] = g[x - 1]
        BY <3>2
      <4>2. x \in 1 .. Len(tt) /\ ss[x] = tt[x]
        BY <1>1
      <4> QED
        BY <1>2, <2>1, <3>2, <4>1, <4>2 DEF Flattens
    <3> QED
      BY <3>1, <3>2
  <2>3. 0 .. Len(ss) \subseteq Good
    <3>1. 0 \in Good
      BY <1>1
    <3> HIDE DEF Good
    <3> QED
      BY <1>1, <2>2, <3>1, UpTo
  <2>4. Len(ss) \in Good /\ Len(ss) # 0
    <3>1. Len(ss) # 0
      BY <1>4
    <3>2. Len(ss) \in 0 .. Len(ss)
      BY <1>1
    <3> HIDE DEF Good
    <3> QED
      BY <2>3, <3>1, <3>2
  <2>5. f[Len(ss)] = g[Len(ss)]
    BY <2>4
  <2>6. g[Len(tt)] = g[Len(ss)] \o tt[Len(tt)]
    <3>1. Len(tt) \in 1 .. Len(tt) /\ Len(tt) # 1 /\ Len(tt) - 1 = Len(ss)
      BY <1>1, <2>4
    <3> QED
      BY <1>2, <3>1 DEF Flattens
  <2> QED
    BY <1>1, <1>2, <2>1, <2>5, <2>6 DEF tt, Flattens
<1> QED
  BY <1>3, <1>4

(* What a flattened sequence of sequences holds.                            *)
Within(e, s) == \E y \in DOMAIN s : s[y] = e

LEMMA FlattenHolds ==
    ASSUME NEW E, NEW ss \in Seq(Seq(E)), ss # <<>>, NEW e
    PROVE  Within(e, FlattenSeq(ss)) <=> \E x \in DOMAIN ss : Within(e, ss[x])
<1> DEFINE In(s) == \E y \in DOMAIN s : s[y] = e
           Upto(n) == \E x \in 1 .. n : In(ss[x])
<1>1. PICK f : Flattens(E, ss, f)
  BY FlattenIs
<1>2. PICK N \in Nat \ {0} : N = Len(ss) /\ DOMAIN ss = 1 .. N
  OBVIOUS
<1>3. /\ \A n \in 1 .. N : f[n] \in Seq(E) /\ ss[n] \in Seq(E)
      /\ FlattenSeq(ss) = f[N] /\ f[1] = ss[1]
      /\ \A n \in 1 .. N : n # 1 => f[n] = f[n - 1] \o ss[n]
  <2>1. \A n \in 1 .. N : ss[n] \in Seq(E)
    BY <1>2
  <2>2. /\ f \in [1 .. N -> Seq(E)] /\ FlattenSeq(ss) = f[N] /\ f[1] = ss[1]
        /\ \A n \in 1 .. N : n # 1 => f[n] = f[n - 1] \o ss[n]
    BY <1>1, <1>2, Zenon DEF Flattens
  <2>3. \A n \in 1 .. N : f[n] \in Seq(E)
    BY <2>2
  <2> QED
    BY <2>1, <2>2, <2>3
<1>4. ASSUME NEW s \in Seq(E), NEW t \in Seq(E) PROVE In(s \o t) <=> In(s) \/ In(t)
  <2>1. PICK m \in Nat, n \in Nat : m = Len(s) /\ n = Len(t)
    OBVIOUS
  <2>2. PICK u \in Seq(E) : u = s \o t
    <3>1. \A a, b \in Seq(E) : a \o b \in Seq(E)
      BY ONLY TRUE
    <3> QED
      BY <3>1
  <2>3. /\ DOMAIN s = 1 .. m /\ DOMAIN t = 1 .. n /\ DOMAIN u = 1 .. m + n
        /\ \A x \in 1 .. m : u[x] = s[x]
        /\ \A x \in 1 .. n : u[m + x] = t[x]
        /\ \A x \in m + 1 .. m + n : u[x] = t[x - m]
    BY <2>1, <2>2
  <2>4. In(s) => In(u)
    BY <2>3
  <2>5. In(t) => In(u)
    <3> SUFFICES ASSUME NEW x \in 1 .. n, t[x] = e PROVE In(u)
      BY <2>3
    <3>1. m + x \in 1 .. m + n /\ u[m + x] = e
      BY <2>3
    <3> QED
      BY <2>3, <3>1
  <2>6. In(u) => In(s) \/ In(t)
    <3> SUFFICES ASSUME NEW x \in 1 .. m + n, u[x] = e PROVE In(s) \/ In(t)
      BY <2>3
    <3>1. CASE x <= m
      <4>1. x \in 1 .. m /\ s[x] = e
        BY <2>3, <3>1
      <4> QED
        BY <2>3, <4>1
    <3>2. CASE ~(x <= m)
      <4>1. x - m \in 1 .. n /\ t[x - m] = e
        BY <2>3, <3>2
      <4> QED
        BY <2>3, <4>1
    <3> QED
      BY <3>1, <3>2
  <2> QED
    BY <2>2, <2>4, <2>5, <2>6
<1>5. N \in {n \in 0 .. N : n # 0 => (In(f[n]) <=> Upto(n))}
  <2> DEFINE Good == {n \in 0 .. N : n # 0 => (In(f[n]) <=> Upto(n))}
  <2>1. 0 \in Good
    OBVIOUS
  <2>2. ASSUME NEW n \in 1 .. N, n - 1 \in Good PROVE n \in Good
    <3>1. CASE n = 1
      <4>1. Upto(1) <=> In(ss[1])
        OBVIOUS
      <4>2. In(f[1]) <=> In(ss[1])
        BY <1>3
      <4> HIDE DEF In, Upto
      <4> QED
        BY <3>1, <4>1, <4>2
    <3>2. CASE n # 1
      <4>1. n - 1 \in 1 .. N /\ (In(f[n - 1]) <=> Upto(n - 1))
        BY <2>2, <3>2
      <4>2. In(f[n]) <=> In(f[n - 1]) \/ In(ss[n])
        <5>1. f[n] = f[n - 1] \o ss[n] /\ f[n - 1] \in Seq(E) /\ ss[n] \in Seq(E)
          BY <1>3, <3>2, <4>1
        <5> HIDE DEF In
        <5> QED
          BY <1>4, <5>1
      <4>3. Upto(n) <=> Upto(n - 1) \/ In(ss[n])
        <5> HIDE DEF In
        <5>1. 1 .. n = 1 .. n - 1 \cup {n}
          OBVIOUS
        <5> QED
          BY <5>1
      <4> HIDE DEF In, Upto
      <4> QED
        BY <4>1, <4>2, <4>3
    <3> QED
      BY <3>1, <3>2
  <2>3. \A n \in 1 .. N : n - 1 \in Good => n \in Good
    <3> HIDE DEF Good
    <3> QED
      BY <2>2
  <2>4. 0 .. N \subseteq Good
    <3> HIDE DEF Good
    <3> QED
      BY <2>1, <2>3, UpTo
  <2> QED
    BY <2>4
<1>6. In(FlattenSeq(ss)) <=> Upto(N)
  <2> HIDE DEF In, Upto
  <2> QED
    BY <1>3, <1>5
<1> QED
  BY <1>2, <1>6 DEF Within
=============================================================================
