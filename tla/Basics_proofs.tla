---------------------------- MODULE Basics_proofs ----------------------------
(***************************************************************************)
(* Facts about numbers, sequences of numbers, and lists of descriptors     *)
(* that the proofs of several modules rest on.                             *)
(***************************************************************************)
EXTENDS Descriptors, Integers, SequenceTheorems, NaturalsInduction, WellFoundedInduction, TLAPS

-----------------------------------------------------------------------------
(***************************************************************************)
(* Numbers.                                                                *)
(***************************************************************************)

LEMMA LeastElement ==
  ASSUME NEW T \in SUBSET Nat, T # {}
  PROVE  \E x \in T : \A y \in T : x <= y
<1>1. PICK x \in T : \A y \in T : ~(<<y, x>> \in OpToRel(<, Nat))
  BY Zenon, NatLessThanWellFounded, WFMin
<1>2. \A y \in T : ~(y < x)
  BY <1>1 DEF OpToRel
<1> QED BY <1>2

LEMMA GreatestElement ==
  ASSUME NEW b \in Nat, NEW T \in SUBSET (0..b), T # {}
  PROVE  \E x \in T : \A y \in T : y <= x
<1> DEFINE D == {n \in 0..b : b - n \in T}
<1>1. D \in SUBSET Nat
  OBVIOUS
<1>2. D # {}
  <2>1. PICK t \in T : TRUE
    OBVIOUS
  <2>2. b - t \in 0..b /\ b - (b - t) = t
    OBVIOUS
  <2> QED BY <2>2
<1>3. PICK d \in D : \A n \in D : d <= n
  BY <1>1, <1>2, LeastElement
<1>4. \A y \in T : b - y \in D
  <2> SUFFICES ASSUME NEW y \in T PROVE b - y \in D
    OBVIOUS
  <2>1. b - y \in 0..b /\ b - (b - y) = y
    OBVIOUS
  <2> QED OBVIOUS
<1>5. \A y \in T : y <= b - d
  BY <1>3
<1> QED BY <1>3

LEMMA DivisionIs ==
  ASSUME NEW a \in Nat, NEW m \in Nat \ {0}
  PROVE  /\ a \div m \in Nat
         /\ (a \div m) * m <= a
OBVIOUS

LEMMA DivisionSplits ==
  ASSUME NEW a \in Nat, NEW m \in Nat \ {0}
  PROVE  /\ a % m \in 0..(m - 1) /\ a \div m \in Nat
         /\ a = (a \div m) * m + (a % m)
<1>1. a % m \in 0..(m - 1)
  OBVIOUS
<1>2. a \div m \in Nat
  OBVIOUS
<1>3. a = (a \div m) * m + (a % m)
  OBVIOUS
<1> QED BY <1>1, <1>2, <1>3

\* What fits in c characters of m bytes is no more than c characters.
LEMMA FitsCharacters ==
  ASSUME NEW a \in Nat, NEW c \in Nat, NEW m \in Nat \ {0}, a <= c * m
  PROVE  a \div m <= c
<1> DEFINE q == a \div m
<1>1. q \in Nat /\ q * m <= a
  BY DivisionIs
<1> HIDE DEF q
<1>2. SUFFICES ASSUME q >= c + 1 PROVE FALSE
  BY <1>1 DEF q
<1>3. q * m >= (c + 1) * m
  BY <1>1, <1>2
<1>4. (c + 1) * m = c * m + m
  OBVIOUS
<1>5. q * m \in Nat /\ c * m \in Nat /\ (c + 1) * m \in Nat
  BY <1>1
<1> QED BY <1>1, <1>3, <1>4, <1>5

LEMMA ProductsGrow ==
  ASSUME NEW a \in Nat, NEW b \in Nat, a <= b, NEW m \in Nat
  PROVE  a * m \in Nat /\ b * m \in Nat /\ a * m <= b * m
<1>1. b - a \in Nat /\ b = a + (b - a)
  OBVIOUS
<1>2. b * m = a * m + (b - a) * m
  BY <1>1
<1>3. (b - a) * m \in Nat /\ a * m \in Nat /\ b * m \in Nat
  BY <1>1
<1> QED BY <1>2, <1>3

\* Products with a number above zero compare as their factors do.
LEMMA ProductsCompare ==
  ASSUME NEW a \in Nat, NEW b \in Nat, NEW m \in Nat \ {0}, a * m <= b * m
  PROVE  a <= b
<1> SUFFICES ASSUME b + 1 <= a PROVE FALSE
  OBVIOUS
<1>1. b + 1 \in Nat /\ m \in Nat
  OBVIOUS
<1>2. a * m \in Nat /\ (b + 1) * m \in Nat /\ (b + 1) * m <= a * m
  BY <1>1, ProductsGrow
<1>3. (b + 1) * m = b * m + m
  OBVIOUS
<1>4. b * m \in Nat
  OBVIOUS
<1> QED BY <1>2, <1>3, <1>4

-----------------------------------------------------------------------------
(***************************************************************************)
(* Sequences of numbers.                                                   *)
(***************************************************************************)

LEMMA JoinIs ==
  ASSUME NEW s \in Seq(Nat), NEW t \in Seq(Nat)
  PROVE  /\ s \o t \in Seq(Nat)
         /\ Len(s \o t) = Len(s) + Len(t)
         /\ Len(s) \in Nat /\ Len(t) \in Nat
         /\ \A i \in 1..(Len(s) + Len(t)) :
              (s \o t)[i] = IF i <= Len(s) THEN s[i] ELSE t[i - Len(s)]
BY ConcatProperties, LenProperties

LEMMA PieceIs ==
  ASSUME NEW s \in Seq(Nat), NEW a \in Nat \ {0}, NEW b \in 0..Len(s), a <= b + 1
  PROVE  /\ SubSeq(s, a, b) \in Seq(Nat)
         /\ Len(SubSeq(s, a, b)) = b + 1 - a
         /\ \A i \in 1..(b + 1 - a) : SubSeq(s, a, b)[i] = s[a + i - 1]
<1>1. Len(s) \in Nat /\ \A i \in 1..Len(s) : s[i] \in Nat
  BY LenProperties, ElementOfSeq
<1>2. \A i \in a..b : s[i] \in Nat
  BY <1>1
<1>3. /\ SubSeq(s, a, b) \in Seq(Nat)
      /\ Len(SubSeq(s, a, b)) = IF a <= b THEN b - a + 1 ELSE 0
      /\ \A i \in 1..(b - a + 1) : SubSeq(s, a, b)[i] = s[a + i - 1]
  BY <1>1, <1>2, SubSeqProperties
<1> QED BY <1>1, <1>3

\* Concatenation is associative.
LEMMA JoinAssociative == \A s, t, u \in Seq(Nat) : (s \o t) \o u = s \o (t \o u)
<1> DEFINE A(S) == \A s, t, u \in Seq(S) : (s \o t) \o u = s \o (t \o u)
<1>1. \A S : A(S)
  BY Zenon, ConcatAssociative
<1> HIDE DEF A
<1>2. A(Nat)
  BY Zenon, <1>1
<1> QED BY <1>2 DEF A

LEMMA JoinEmpty ==
  /\ <<>> \in Seq(Nat) /\ Len(<<>>) = 0
  /\ \A s \in Seq(Nat) : s \o <<>> = s /\ <<>> \o s = s
<1> DEFINE A(S) == \A s \in Seq(S) : s \o <<>> = s /\ <<>> \o s = s
<1>1. \A S : A(S)
  BY Zenon, ConcatEmptySeq
<1> HIDE DEF A
<1>2. A(Nat)
  BY Zenon, <1>1
<1>3. \A s \in Seq(Nat) : s \o <<>> = s /\ <<>> \o s = s
  BY <1>2 DEF A
<1>4. <<>> \in Seq(Nat) /\ Len(<<>>) = 0
  OBVIOUS
<1> QED BY <1>3, <1>4

\* A sequence and its two parts.
LEMMA PiecesJoin ==
  ASSUME NEW s \in Seq(Nat), NEW a \in Nat, NEW b \in Nat, a <= b, b <= Len(s)
  PROVE  SubSeq(s, 1, a) \o SubSeq(s, a + 1, b) = SubSeq(s, 1, b)
<1> DEFINE p == SubSeq(s, 1, a)
           q == SubSeq(s, a + 1, b)
           r == SubSeq(s, 1, b)
<1>1. Len(s) \in Nat
  BY LenProperties
<1>2. /\ p \in Seq(Nat) /\ Len(p) = a /\ \A i \in 1..a : p[i] = s[i]
  <2>1. a \in 0..Len(s) /\ 1 <= a + 1 /\ 1 \in Nat \ {0} /\ a + 1 - 1 = a
    BY <1>1
  <2>2. /\ p \in Seq(Nat) /\ Len(p) = a + 1 - 1
        /\ \A i \in 1..(a + 1 - 1) : p[i] = s[1 + i - 1]
    BY <2>1, PieceIs
  <2>3. \A i \in 1..a : 1 + i - 1 = i
    OBVIOUS
  <2> QED BY <2>1, <2>2, <2>3
<1>3. /\ r \in Seq(Nat) /\ Len(r) = b /\ \A i \in 1..b : r[i] = s[i]
  <2>1. b \in 0..Len(s) /\ 1 <= b + 1 /\ 1 \in Nat \ {0} /\ b + 1 - 1 = b
    BY <1>1
  <2>2. /\ r \in Seq(Nat) /\ Len(r) = b + 1 - 1
        /\ \A i \in 1..(b + 1 - 1) : r[i] = s[1 + i - 1]
    BY <2>1, PieceIs
  <2>3. \A i \in 1..b : 1 + i - 1 = i
    OBVIOUS
  <2> QED BY <2>1, <2>2, <2>3
<1>4. /\ q \in Seq(Nat) /\ Len(q) = b - a /\ \A i \in 1..(b - a) : q[i] = s[a + i]
  <2>1. b \in 0..Len(s) /\ a + 1 <= b + 1 /\ a + 1 \in Nat \ {0} /\ b + 1 - (a + 1) = b - a
    BY <1>1
  <2>2. /\ q \in Seq(Nat) /\ Len(q) = b + 1 - (a + 1)
        /\ \A i \in 1..(b + 1 - (a + 1)) : q[i] = s[(a + 1) + i - 1]
    BY <2>1, PieceIs
  <2>3. \A i \in 1..(b - a) : (a + 1) + i - 1 = a + i
    OBVIOUS
  <2> QED BY <2>1, <2>2, <2>3
<1> HIDE DEF p, q, r
<1>5. /\ p \o q \in Seq(Nat) /\ Len(p \o q) = Len(p) + Len(q)
      /\ \A i \in 1..(Len(p) + Len(q)) : (p \o q)[i] = IF i <= Len(p) THEN p[i] ELSE q[i - Len(p)]
  BY <1>2, <1>4, JoinIs
<1>6. /\ Len(p \o q) = b
      /\ \A i \in 1..b : (p \o q)[i] = IF i <= a THEN p[i] ELSE q[i - a]
  <2>1. Len(p) = a /\ Len(p) + Len(q) = b
    BY <1>2, <1>4
  <2> QED BY <1>5, <2>1
<1>7. ASSUME NEW i \in 1..b PROVE (p \o q)[i] = r[i]
  <2>1. CASE i <= a
    <3>1. i \in 1..a
      BY <2>1
    <3>2. (p \o q)[i] = p[i]
      BY <1>6, <2>1
    <3> QED BY <1>2, <1>3, <3>1, <3>2
  <2>2. CASE i > a
    <3>1. i - a \in 1..(b - a) /\ ~(i <= a) /\ a + (i - a) = i
      BY <2>2
    <3>2. (p \o q)[i] = q[i - a]
      BY <1>6, <3>1
    <3>3. q[i - a] = s[a + (i - a)]
      BY <1>4, <3>1
    <3> QED BY <1>3, <3>1, <3>2, <3>3
  <2>3. i <= a \/ i > a
    OBVIOUS
  <2> QED BY <2>1, <2>2, <2>3
<1>8. p \o q = r
  BY <1>3, <1>5, <1>6, <1>7, SeqEqual
<1> QED BY <1>8 DEF p, q, r

-----------------------------------------------------------------------------
(***************************************************************************)
(* Lists of descriptors.                                                   *)
(***************************************************************************)

\* The edges of a list of descriptors never go back.
LEMMA EdgesGrow ==
  ASSUME NEW e, IsList(e), NEW i \in 1..Len(e), NEW j \in 1..Len(e), i <= j
  PROVE  e[i] \in Nat /\ e[j] \in Nat /\ e[i] <= e[j]
<1>1. /\ Len(e) \in Nat /\ \A n \in 1..Len(e) : e[n] \in Nat
      /\ \A n \in 1..(Len(e) - 1) : e[n] <= e[n + 1]
  BY DEF IsList
<1> DEFINE T == {n \in i..Len(e) : e[n] < e[i]}
<1>2. CASE T = {}
  BY <1>1, <1>2
<1>3. CASE T # {}
  <2>1. T \in SUBSET Nat
    OBVIOUS
  <2>2. PICK n \in T : \A m \in T : n <= m
    BY <1>3, <2>1, LeastElement
  <2>3. n \in 1..Len(e) /\ n > i /\ e[n] < e[i]
    BY <1>1
  <2>4. n - 1 \in i..Len(e) /\ n - 1 \in 1..(Len(e) - 1) /\ n - 1 < n
    BY <1>1
  <2>5. n - 1 \notin T
    BY <2>2
  <2>6. e[n - 1] >= e[i]
    <3>1. ~(e[n - 1] < e[i])
      BY <2>4, <2>5
    <3>2. e[n - 1] \in Nat /\ e[i] \in Nat
      <4>1. n - 1 \in 1..Len(e)
        BY <1>1, <2>3
      <4> QED BY <4>1, <1>1
    <3> QED BY <3>1, <3>2
  <2>7. e[n - 1] <= e[(n - 1) + 1] /\ (n - 1) + 1 = n
    BY <1>1
  <2> QED BY <1>1, <2>6
<1> QED BY <1>2, <1>3

LEMMA OfferedIs ==
  ASSUME NEW e, IsList(e), NEW i \in 1..Len(e), i < Len(e), NEW m \in Nat \ {0}
  PROVE  Offered(e, i, m) \in (i + 1)..Len(e)
BY DEF Offered

\* Where k bytes end in a list of descriptors.
LEMMA PositionFits ==
  ASSUME NEW e, IsList(e), NEW i \in 1..Len(e), NEW last \in i..Len(e), NEW k \in Nat
  PROVE  LET p == Position(e, i, last, k)
         IN  /\ p \in i..last /\ p \in 1..Len(e) /\ e[p] - e[i] <= k
             /\ \A l \in (p + 1)..last : e[l] - e[i] > k
<1>1. /\ Len(e) \in Nat /\ i \in Nat /\ last \in Nat /\ last \in 1..Len(e)
      /\ \A n \in i..last : n \in 1..Len(e) /\ e[n] \in Nat
  BY DEF IsList
<1> DEFINE T == {n \in i..last : e[n] - e[i] <= k}
<1>2. T \in SUBSET (0..last) /\ i \in T
  BY <1>1
<1>3. PICK p \in T : \A n \in T : n <= p
  BY <1>1, <1>2, GreatestElement
<1>4. p \in i..last /\ e[p] - e[i] <= k /\ \A l \in (p + 1)..last : e[l] - e[i] > k
  BY <1>1, <1>3
<1> QED BY <1>1, <1>4 DEF Position

LEMMA PositionIs ==
  ASSUME NEW e, IsList(e), NEW i \in 1..Len(e), NEW last \in (i + 1)..Len(e),
         NEW k \in 0..(e[last] - e[i])
  PROVE  LET p == Position(e, i, last, k)
         IN  /\ p \in i..last /\ p \in 1..Len(e)
             /\ e[p] - e[i] <= k
             /\ p < last => k < e[p + 1] - e[i]
             /\ p = last => k = e[last] - e[i]
             /\ p = i => e[i] < e[last]
<1>1. /\ Len(e) \in Nat /\ i \in Nat /\ last \in Nat /\ last \in 1..Len(e)
      /\ \A n \in i..last : n \in 1..Len(e) /\ e[n] \in Nat
  BY DEF IsList
<1> DEFINE q == Position(e, i, last, k)
<1>2. q \in i..last /\ e[q] - e[i] <= k /\ \A l \in (q + 1)..last : e[l] - e[i] > k
  <2>1. last \in i..Len(e) /\ k \in Nat
    BY <1>1
  <2> QED BY <2>1, PositionFits
<1> HIDE DEF q
<1>3. q \in 1..Len(e) /\ e[q] \in Nat /\ e[i] \in Nat /\ e[last] \in Nat
  BY <1>1, <1>2
<1>4. q < last => k < e[q + 1] - e[i]
  <2> SUFFICES ASSUME q < last PROVE k < e[q + 1] - e[i]
    OBVIOUS
  <2>1. q + 1 \in (q + 1)..last /\ q + 1 \in i..last
    BY <1>2
  <2>2. e[q + 1] - e[i] > k /\ e[q + 1] \in Nat
    BY <1>1, <1>2
  <2> QED BY <2>2
<1>5. q = last => k = e[last] - e[i]
  BY <1>2, <1>3
<1>6. q = i => e[i] < e[last]
  <2> SUFFICES ASSUME q = i PROVE e[i] < e[last]
    OBVIOUS
  <2>1. last \in (q + 1)..last
    OBVIOUS
  <2> QED BY <1>2, <1>3
<1> QED BY <1>2, <1>3, <1>4, <1>5 DEF q

=============================================================================
