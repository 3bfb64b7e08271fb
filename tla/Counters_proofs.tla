-------------------------- MODULE Counters_proofs --------------------------
(***************************************************************************)
(* Proofs about Positions, for every width of the types, every set of      *)
(* lengths and every size of a character, and, below, about HashContext,   *)
(* for every size of a block, of the length field and of the counter, and  *)
(* for pieces of any length.                                               *)
(***************************************************************************)
EXTENDS Positions, HashContext, Integers, SequenceTheorems, TLAPS

\* Beyond TypeOK and Tracks the induction needs to know what the scan of a
\* batch has found: the sum of what it has scanned, or that there is no
\* uintfpos_t for it and so no position either.
ScanIsTrue ==
  scan => /\ ~over => total = batch
          /\ over => batch > UMaxPos

IInv == TypeOK /\ Tracks /\ ScanIsTrue

\* fposoffadd_nonegative is the sum of a position that is not negative and any
\* length, or the greatest position.
LEMMA AddNonnegativeIsSum ==
  ASSUME NEW o \in 0..MaxPos, NEW d \in Nat
  PROVE  /\ AddNonnegative(o, d) = Saturated(o + d)
         /\ AddNonnegative(o, d) \in o..MaxPos
  BY PositionsAssumption DEF AddNonnegative, Saturated, MinPos

LEMMA Initially == Init => IInv
<1> SUFFICES ASSUME Init  PROVE IInv
  OBVIOUS
<1> USE PositionsAssumption
<1>1. TypeOK
  <2>1. off \in 0..MaxPos /\ from \in 0..MaxPos /\ total \in 0..UMaxPos
    BY DEF Init
  <2>2. over \in BOOLEAN /\ scan \in BOOLEAN
    BY DEF Init
  <2>3. moved \in Nat /\ batch \in Nat
    BY DEF Init
  <2> QED  BY <2>1, <2>2, <2>3 DEF TypeOK
<1>2. Tracks
  BY DEF Init, Tracks, Saturated, MinPos
<1>3. ScanIsTrue
  BY DEF Init, ScanIsTrue
<1> QED  BY <1>1, <1>2, <1>3 DEF IInv

LEMMA DescriptorKeeps ==
  ASSUME IInv, Descriptor
  PROVE  IInv' /\ off' >= off
<1> USE PositionsAssumption
<1>1. PICK d \in Lengths : off' = AddNonnegative(off, d) /\ moved' = moved + d
  BY DEF Descriptor
<1>2. /\ d \in Nat /\ off \in 0..MaxPos /\ from \in 0..MaxPos /\ moved \in Nat
      /\ off = Saturated(from + moved)
  BY DEF IInv, TypeOK, Tracks
<1>3. off' \in off..MaxPos
  BY <1>1, <1>2, AddNonnegativeIsSum
<1>4. off' = Saturated(from + (moved + d))
  BY <1>1, <1>2 DEF AddNonnegative, Saturated, MinPos
<1>5. UNCHANGED <<total, over, scan, from, batch>> /\ ~scan
  BY DEF Descriptor
<1>6. TypeOK'
  BY <1>1, <1>2, <1>3, <1>5 DEF IInv, TypeOK
<1>7. Tracks'
  BY <1>1, <1>4, <1>5 DEF Tracks, Saturated
<1>8. ScanIsTrue'
  BY <1>5 DEF ScanIsTrue
<1> QED  BY <1>2, <1>3, <1>6, <1>7, <1>8 DEF IInv

LEMMA BeginKeeps ==
  ASSUME IInv, Begin
  PROVE  IInv' /\ off' >= off
<1> USE PositionsAssumption
<1>1. TypeOK'
  <2>1. total' \in 0..UMaxPos /\ batch' \in Nat
    BY DEF Begin
  <2>2. over' \in BOOLEAN /\ scan' \in BOOLEAN
    BY DEF Begin
  <2>3. UNCHANGED <<off, from, moved>>
    BY DEF Begin
  <2> QED  BY <2>1, <2>2, <2>3 DEF IInv, TypeOK
<1>2. Tracks'
  BY DEF IInv, Begin, Tracks, Saturated
<1>3. ScanIsTrue'
  BY DEF Begin, ScanIsTrue
<1>4. off' >= off
  BY DEF IInv, TypeOK, Begin
<1> QED  BY <1>1, <1>2, <1>3, <1>4 DEF IInv

LEMMA ScanKeeps ==
  ASSUME IInv, Scan
  PROVE  IInv' /\ off' >= off
<1> USE PositionsAssumption
<1>1. PICK d \in Lengths :
        /\ batch' = batch + d
        /\ IF ~over /\ Fits(d) THEN total' = (total + d) % (UMaxPos + 1) /\ UNCHANGED over
           ELSE over' = TRUE /\ UNCHANGED total
  BY DEF Scan
<1>2. /\ UNCHANGED <<off, scan, from, moved>> /\ scan
      /\ d \in Nat /\ total \in 0..UMaxPos /\ batch \in Nat /\ over \in BOOLEAN
      /\ ~over => total = batch
      /\ over => batch > UMaxPos
  BY DEF Scan, IInv, TypeOK, ScanIsTrue
<1>3. CASE ~over /\ Fits(d)
  <2>1. total + d \in 0..UMaxPos
    BY <1>2, <1>3 DEF Fits
  <2>2. total' = total + d /\ over' = over
    BY <1>1, <1>2, <1>3, <2>1
  <2> QED  BY <1>1, <1>2, <1>3, <2>1, <2>2 DEF IInv, TypeOK, Tracks, ScanIsTrue, Saturated
<1>4. CASE ~(~over /\ Fits(d))
  <2>1. over' = TRUE /\ total' = total
    BY <1>1, <1>4
  <2>2. batch' > UMaxPos
    BY <1>1, <1>2, <1>4 DEF Fits
  <2> QED  BY <1>1, <1>2, <2>1, <2>2 DEF IInv, TypeOK, Tracks, ScanIsTrue, Saturated
<1> QED  BY <1>3, <1>4

LEMMA AdvanceKeeps ==
  ASSUME IInv, Advance
  PROVE  IInv' /\ off' >= off
<1> USE PositionsAssumption
<1>1. PICK part \in Lengths :
        /\ off' = IF over THEN MaxPos ELSE AddNonnegative(AddNonnegative(off, total), part)
        /\ moved' = moved + batch + part
  BY DEF Advance
<1>2. /\ UNCHANGED <<total, over, from, batch>> /\ scan /\ scan' = FALSE
      /\ part \in Nat /\ total \in Nat /\ batch \in Nat /\ moved \in Nat
      /\ off \in 0..MaxPos /\ from \in 0..MaxPos /\ over \in BOOLEAN
      /\ off = Saturated(from + moved)
      /\ ~over => total = batch
      /\ over => batch > UMaxPos
  BY DEF Advance, IInv, TypeOK, Tracks, ScanIsTrue
<1>3. off' \in off..MaxPos /\ off' = Saturated(from + moved')
  <2>1. CASE over
    BY <1>1, <1>2, <2>1 DEF Saturated
  <2>2. CASE ~over
    <3> DEFINE mid == AddNonnegative(off, total)
    <3>1. mid \in off..MaxPos
      BY <1>2, AddNonnegativeIsSum
    <3>2. mid = Saturated(from + (moved + batch))
      BY <1>2, <2>2 DEF AddNonnegative, Saturated, MinPos
    <3>3. mid \in 0..MaxPos
      BY <1>2, <3>1
    <3>4. off' = AddNonnegative(mid, part)
      BY <1>1, <2>2
    <3> HIDE DEF mid
    <3>5. off' \in mid..MaxPos
      BY <1>2, <3>3, <3>4, AddNonnegativeIsSum
    <3>6. off' = Saturated(from + ((moved + batch) + part))
      BY <1>2, <3>2, <3>3, <3>4 DEF AddNonnegative, Saturated, MinPos
    <3> QED  BY <1>1, <1>2, <3>1, <3>5, <3>6
  <2> QED  BY <2>1, <2>2, <1>2
<1>4. TypeOK'
  <2>1. moved' \in Nat
    BY <1>1, <1>2
  <2>2. off' \in 0..MaxPos
    BY <1>2, <1>3
  <2>3. scan' \in BOOLEAN
    BY <1>2
  <2>4. UNCHANGED <<total, over, from, batch>>
    BY <1>2
  <2> QED  BY <2>1, <2>2, <2>3, <2>4 DEF IInv, TypeOK
<1>5. Tracks'
  BY <1>2, <1>3 DEF Tracks, Saturated
<1>6. ScanIsTrue'
  BY <1>2 DEF ScanIsTrue
<1> QED  BY <1>2, <1>3, <1>4, <1>5, <1>6 DEF IInv

LEMMA StepKeeps == IInv /\ [Next]_vars => IInv' /\ off' >= off
<1> SUFFICES ASSUME IInv, [Next]_vars  PROVE IInv' /\ off' >= off
  OBVIOUS
<1>1. CASE UNCHANGED vars
  BY <1>1, PositionsAssumption DEF IInv, TypeOK, Tracks, ScanIsTrue, Saturated, vars
<1>2. CASE Next
  BY <1>2, DescriptorKeeps, BeginKeeps, ScanKeeps, AdvanceKeeps DEF Next
<1> QED  BY <1>1, <1>2

LEMMA Invariant == Spec => []IInv
  BY Initially, StepKeeps, PTL DEF Spec

-----------------------------------------------------------------------------
\* Positions are positions and sums are sums: the arithmetic never leaves its
\* types (fposoffadd_nonegative, find_scatter_total_size_overflow_impl).
THEOREM PositionsTyped == Spec => []TypeOK
<1>1. IInv => TypeOK  BY DEF IInv
<1> QED  BY Invariant, <1>1, PTL

\* However a positional operation is cut into descriptors and batches, it goes
\* on where one operation that moved all of it would, or at the greatest
\* position (fposoffadd_scatters).
THEOREM PositionTracks == Spec => []Tracks
<1>1. IInv => Tracks  BY DEF IInv
<1> QED  BY Invariant, <1>1, PTL

\* The position of an operation never goes back over what it has written.
THEOREM PositionNeverBack == Spec => NeverBack
<1>1. IInv /\ [Next]_vars => [off' >= off]_vars
  BY StepKeeps
<1> QED  BY Invariant, <1>1, PTL DEF Spec, NeverBack

\* fposoffadd saturates and does nothing else.
THEOREM SumSaturates == Spec => []AddIsSum
<1>1. IInv => AddIsSum
  BY PositionsAssumption DEF IInv, TypeOK, AddIsSum, Add, AddNonnegative, Saturated, MinPos
<1> QED  BY Invariant, <1>1, PTL

-----------------------------------------------------------------------------
LEMMA Quotient ==
  ASSUME NEW a \in Nat, NEW u \in Nat \ {0}
  PROVE  /\ a \div u \in Nat
         /\ (a \div u) * u <= a /\ a < (a \div u) * u + u
OBVIOUS

LEMMA Products ==
  ASSUME NEW x \in Int, NEW u \in Nat
  PROVE  x * u \in Int /\ (x + 1) * u = x * u + u /\ (-x) * u = -(x * u)
OBVIOUS

LEMMA ProductsGrow ==
  \A x, y \in Int : \A u \in Nat : x <= y => x * u <= y * u
OBVIOUS

\* scatter_fpos_mul, which compares with the quotients of the ends, is the
\* product of any position and any size of a character, or the end beyond
\* which that is.
LEMMA MultiplyIsTrue ==
  ASSUME NEW u \in Nat \ {0}, NEW o \in Int
  PROVE  Multiply(o, u) = Saturated(o * u)
<1> DEFINE upper == MaxPos \div u
           lower == (-MinPos) \div u
           product == o * u
<1>1. MaxPos \in Nat /\ -MinPos = MaxPos + 1 /\ -MinPos \in Nat /\ MinPos < MaxPos /\ MinPos \in Int
  BY PositionsAssumption DEF MinPos
<1>2. /\ upper \in Nat /\ upper * u <= MaxPos /\ MaxPos < upper * u + u
      /\ lower \in Nat /\ lower * u <= -MinPos /\ -MinPos < lower * u + u
  BY <1>1, Quotient
<1> HIDE DEF upper, lower
<1>3. /\ upper * u \in Int /\ (upper + 1) * u = upper * u + u
      /\ lower * u \in Int /\ (lower + 1) * u = lower * u + u
      /\ product \in Int /\ (-o) * u = -product
  BY <1>2, Products
<1>4. /\ o > upper => (upper + 1) * u <= product
      /\ ~(o > upper) => product <= upper * u
  <2>1. o > upper => upper + 1 <= o
    BY <1>2
  <2>2. ~(o > upper) => o <= upper
    BY <1>2
  <2> QED BY <2>1, <2>2, <1>2, ProductsGrow
<1>5. /\ o < -lower => (lower + 1) * u <= (-o) * u
      /\ ~(o < -lower) => (-o) * u <= lower * u
  <2>1. o < -lower => lower + 1 <= -o
    BY <1>2
  <2>2. ~(o < -lower) => -o <= lower
    BY <1>2
  <2>3. -o \in Int /\ lower \in Int /\ lower + 1 \in Int /\ u \in Nat
    BY <1>2
  <2> QED BY <2>1, <2>2, <2>3, ProductsGrow
<1> HIDE DEF product
<1>6. CASE o > upper
  <2>1. product > MaxPos /\ Multiply(o, u) = MaxPos
    <3>1. ~(o < -lower)
      BY <1>6, <1>2
    <3>2. product > MaxPos
      BY <1>6, <1>1, <1>2, <1>3, <1>4
    <3> QED BY <1>6, <3>1, <3>2 DEF Multiply, upper, lower
  <2> QED BY <2>1 DEF Saturated, product
<1>7. CASE o < -lower
  <2>1. product < MinPos /\ ~(o > upper)
    BY <1>7, <1>1, <1>2, <1>3, <1>5
  <2>2. Multiply(o, u) = MinPos
    BY <1>7, <2>1 DEF Multiply, upper, lower
  <2> QED BY <2>1, <2>2, <1>1, <1>3 DEF Saturated, product
<1>8. CASE ~(o > upper) /\ ~(o < -lower)
  <2>1. ~(product > MaxPos) /\ ~(product < MinPos)
    BY <1>8, <1>1, <1>2, <1>3, <1>4, <1>5
  <2>2. Multiply(o, u) = product
    BY <1>8 DEF Multiply, upper, lower, product
  <2> QED BY <2>1, <2>2 DEF Saturated, product
<1> QED BY <1>6, <1>7, <1>8

\* Positions in characters become positions in bytes, on both sides of zero:
\* with PositionsTyped and SumSaturates, the arithmetic of positions is that
\* of the integers or stops at the ends.
THEOREM ArithmeticSaturates == Spec => []PositionsAreTrue
<1>1. IInv => MultiplyIsProduct
  <2> SUFFICES ASSUME IInv, NEW u \in Units, NEW o \in {off, -off, MinPos + off}
               PROVE  Multiply(o, u) = Saturated(o * u)
    BY DEF MultiplyIsProduct
  <2>1. off \in Int /\ MinPos \in Int
    BY PositionsAssumption DEF IInv, TypeOK, MinPos
  <2>2. u \in Nat \ {0} /\ o \in Int
    BY <2>1, PositionsAssumption
  <2> QED BY <2>2, MultiplyIsTrue
<1>2. TypeOK /\ AddIsSum /\ MultiplyIsProduct => PositionsAreTrue
  BY DEF PositionsAreTrue
<1> QED BY Invariant, PositionsTyped, SumSaturates, <1>1, <1>2, PTL

-----------------------------------------------------------------------------
(***************************************************************************)
(* Hash contexts.                                                          *)
(***************************************************************************)

-----------------------------------------------------------------------------
\* What a byte is: see HashContext.
Byte == {"msg", "junk", "pad", "len"} \X Nat

(***************************************************************************)
(* Division with remainder.                                                *)
(***************************************************************************)
LEMMA Division ==
  ASSUME NEW a \in Nat, NEW m \in Nat \ {0}
  PROVE  /\ a % m \in 0..(m - 1) /\ a \div m \in Nat
         /\ a = (a \div m) * m + (a % m)
<1>1. a % m \in 0..(m - 1)
  OBVIOUS
<1>2. a \div m \in Nat
  OBVIOUS
<1>3. a = (a \div m) * m + (a % m)
  OBVIOUS
<1> QED BY <1>1, <1>2, <1>3

LEMMA Multiple ==
  ASSUME NEW d \in Int, NEW m \in Nat \ {0}
  PROVE  /\ d * m \in Int
         /\ d >= 1 => d * m >= m
         /\ d <= -1 => d * m <= -m
OBVIOUS

LEMMA Remainder ==
  ASSUME NEW m \in Nat \ {0}, NEW q \in Nat, NEW r \in 0..(m - 1)
  PROVE  (q * m + r) % m = r
<1> DEFINE a == q * m + r
           d == q - a \div m
<1>1. a \in Nat
  BY Multiple
<1>2. a % m \in 0..(m - 1) /\ a \div m \in Nat /\ a = (a \div m) * m + (a % m)
  OBVIOUS
<1>3. d \in Int /\ d * m = (a % m) - r
  OBVIOUS
<1>4. (a % m) - r < m /\ (a % m) - r > -m
  OBVIOUS
<1>5. d = 0
  <2>1. ~(d >= 1) /\ ~(d <= -1)
    OBVIOUS
  <2> QED OBVIOUS
<1> QED OBVIOUS

LEMMA RemainderOfSum ==
  ASSUME NEW m \in Nat \ {0}, NEW a \in Nat, NEW b \in Nat
  PROVE  ((a % m) + b) % m = (a + b) % m
<1> DEFINE c == (a % m) + b
<1>1. /\ a % m \in 0..(m - 1) /\ a \div m \in Nat /\ a = (a \div m) * m + (a % m)
      /\ c \in Nat /\ c % m \in 0..(m - 1) /\ c \div m \in Nat
      /\ c = (c \div m) * m + (c % m)
  <2>1. /\ a % m \in 0..(m - 1) /\ a \div m \in Nat /\ a = (a \div m) * m + (a % m)
    OBVIOUS
  <2>2. c \in Nat
    OBVIOUS
  <2> HIDE DEF c
  <2>3. c % m \in 0..(m - 1) /\ c \div m \in Nat /\ c = (c \div m) * m + (c % m)
    BY <2>2
  <2> QED BY <2>2
<1>2. a + b = (a \div m + c \div m) * m + (c % m)
  OBVIOUS
<1>3. a \div m + c \div m \in Nat
  OBVIOUS
<1> HIDE DEF c
<1>4. (a + b) % m = c % m
  <2> DEFINE q == a \div m + c \div m
             r == c % m
  <2>1. a + b = q * m + r /\ q \in Nat /\ r \in 0..(m - 1)
    BY <1>1, <1>2, <1>3
  <2> HIDE DEF q, r
  <2>2. (q * m + r) % m = r
    BY <2>1, Remainder
  <2>3. (a + b) % m = r
    BY <2>1, <2>2
  <2> QED BY <2>3 DEF r
<1> QED BY <1>4 DEF c

LEMMA RemainderOfProduct ==
  ASSUME NEW m \in Nat \ {0}, NEW a \in Nat, NEW b \in Nat, NEW k \in Nat
  PROVE  (((a % m) + b) * k) % m = (k * (a + b)) % m
<1> DEFINE c == ((a % m) + b) * k
           t == (a \div m) * k
<1>1. /\ a % m \in 0..(m - 1) /\ a \div m \in Nat /\ a = (a \div m) * m + (a % m)
      /\ c \in Nat /\ c % m \in 0..(m - 1) /\ c \div m \in Nat /\ t \in Nat
      /\ c = (c \div m) * m + (c % m)
  <2>1. /\ a % m \in 0..(m - 1) /\ a \div m \in Nat /\ a = (a \div m) * m + (a % m)
    OBVIOUS
  <2>2. \A x, y \in Nat : x * y \in Nat
    OBVIOUS
  <2>3. (a % m) + b \in Nat
    BY <2>1
  <2>4. c \in Nat /\ t \in Nat
    OBVIOUS
  <2> HIDE DEF c, t
  <2>5. c % m \in 0..(m - 1) /\ c \div m \in Nat /\ c = (c \div m) * m + (c % m)
    BY <2>4
  <2> QED BY <2>4
<1>2. k * (a + b) = t * m + c
  OBVIOUS
<1>3. k * (a + b) = (t + c \div m) * m + (c % m)
  OBVIOUS
<1>4. t + c \div m \in Nat
  OBVIOUS
<1> HIDE DEF c, t
<1>5. (k * (a + b)) % m = c % m
  <2> DEFINE q == t + c \div m
             r == c % m
             z == k * (a + b)
  <2>1. z = q * m + r /\ q \in Nat /\ r \in 0..(m - 1)
    BY <1>1, <1>3, <1>4
  <2> HIDE DEF q, r, z
  <2>2. (q * m + r) % m = r
    BY <2>1, Remainder
  <2>3. z % m = r
    BY <2>1, <2>2
  <2> QED BY <2>3 DEF r, z
<1> QED BY <1>5 DEF c

LEMMA WholeBlocks ==
  ASSUME NEW m \in Nat \ {0}, NEW a \in Nat, a % m = 0, NEW b \in Nat
  PROVE  (a + b) % m = b % m
<1>1. ((a % m) + b) % m = (a + b) % m
  BY RemainderOfSum
<1> QED BY <1>1

LEMMA LeftOver ==
  ASSUME NEW m \in Nat \ {0}, NEW a \in Nat
  PROVE  a - (a % m) \in Nat /\ (a - (a % m)) % m = 0
<1>1. /\ a % m \in 0..(m - 1) /\ a \div m \in Nat
      /\ a = (a \div m) * m + (a % m)
  OBVIOUS
<1>2. (a \div m) * m \in Nat /\ a - (a % m) = (a \div m) * m
  OBVIOUS
<1>3. \A r \in 0..(m - 1) : ((a \div m) * m + r) % m = r
  OBVIOUS
<1>4. 0 \in 0..(m - 1) /\ (a \div m) * m + 0 = (a \div m) * m
  OBVIOUS
<1> QED BY <1>2

\* The number of zeros is the only one that ends a block.
LEMMA GapIs ==
  ASSUME HashAssumption, NEW n \in Nat, NEW z \in 0..(BlockSize - 1),
         (n + 1 + z + CountSize) % BlockSize = 0
  PROVE  Gap(n) = z
<1> DEFINE B == BlockSize
           c == n + 1 + CountSize
<1>1. B \in Nat \ {0} /\ c \in Nat
  BY DEF HashAssumption
<1>2. ASSUME NEW y \in 0..(B - 1), (n + 1 + y + CountSize) % B = 0
      PROVE  y = z
  <2> DEFINE d == (c + y) \div B - (c + z) \div B
  <2>1. n + 1 + y + CountSize = c + y /\ n + 1 + z + CountSize = c + z
        /\ c + y \in Nat /\ c + z \in Nat
    BY DEF HashAssumption
  <2>2. (c + y) % B = 0 /\ (c + z) % B = 0
    BY <2>1, <1>2
  <2>3. /\ (c + y) \div B \in Nat /\ c + y = ((c + y) \div B) * B + ((c + y) % B)
        /\ (c + z) \div B \in Nat /\ c + z = ((c + z) \div B) * B + ((c + z) % B)
    BY <1>1, <2>1, Division
  <2>4. d \in Int /\ d * B = y - z
    <3>1. \A p, q \in Nat : (p - q) \in Int /\ (p - q) * B = p * B - q * B
      BY <1>1
    <3>2. d \in Int /\ d * B = ((c + y) \div B) * B - ((c + z) \div B) * B
      BY <2>3, <3>1
    <3>3. ((c + y) \div B) * B = c + y /\ ((c + z) \div B) * B = c + z
      <4>1. ASSUME NEW a \in Nat, a % B = 0  PROVE (a \div B) * B = a
        <5>1. a \div B \in Nat /\ a = (a \div B) * B + 0
          BY <1>1, <4>1
        <5>2. (a \div B) * B \in Int
          BY <1>1
        <5> QED BY <5>1, <5>2
      <4> QED BY <4>1, <2>1, <2>2
    <3> QED BY <3>2, <3>3, <1>1
  <2>5. y - z < B /\ y - z > -B
    BY <1>1
  <2>6. d = 0
    <3>1. ~(d >= 1) /\ ~(d <= -1)
      BY <1>1, <2>4
    <3> QED BY <3>1, <2>4
  <2> QED BY <2>4, <1>1
<1> QED BY DEF Gap

(***************************************************************************)
(* What makes Absorbed inductive: the same said of single bytes, and of    *)
(* what kind the bytes are.                                                *)
(***************************************************************************)
Blocks == [1..BlockSize -> Byte]

Typed ==
  /\ hashed \in Seq(Byte) /\ msg \in Seq(Byte) /\ buffer \in Blocks
  /\ offset \in 0..(BlockSize - 1) /\ counter \in 0..(CountMod - 1) /\ next \in Nat \ {0}
  /\ final \in BOOLEAN

Holds ==
  /\ Len(msg) = Len(hashed) + offset
  /\ \A i \in 1..Len(hashed) : hashed[i] = msg[i]
  /\ \A i \in 1..offset : buffer[i] = msg[Len(hashed) + i]
  /\ counter = Len(hashed) % CountMod

Inv ==
  /\ Typed
  /\ Len(hashed) % BlockSize = 0
  /\ ~final => Holds
  /\ final => hashed = Padded(msg)

LEMMA Sizes ==
  ASSUME HashAssumption
  PROVE  /\ BlockSize \in Nat \ {0} /\ CountSize \in Nat \ {0} /\ CountMod \in Nat \ {0}
         /\ CountSize < BlockSize
BY DEF HashAssumption

LEMMA BlockIs ==
  ASSUME HashAssumption, NEW b \in Blocks
  PROVE  b \in Seq(Byte) /\ Len(b) = BlockSize
<1>1. BlockSize \in Nat
  BY Sizes
<1> QED BY <1>1 DEF Blocks

\* Over copies s into a block behind its first pos bytes and changes no others.
LEMMA OverIs ==
  ASSUME HashAssumption, NEW b \in Blocks, NEW pos \in Nat, NEW s \in Seq(Byte)
  PROVE  /\ Over(b, pos, s) \in Blocks
         /\ \A k \in 1..BlockSize :
              Over(b, pos, s)[k] =
                IF pos < k /\ k <= pos + Len(s) THEN s[k - pos] ELSE b[k]
<1>1. BlockSize \in Nat /\ Len(s) \in Nat /\ DOMAIN s = 1..Len(s) /\ DOMAIN b = 1..BlockSize
  BY Sizes DEF Blocks
<1>2. \A k \in 1..BlockSize : k - pos \in DOMAIN s <=> pos < k /\ k <= pos + Len(s)
  OBVIOUS
<1>3. \A i \in DOMAIN s : s[i] \in Byte
  OBVIOUS
<1>4. \A k \in 1..BlockSize : (IF k - pos \in DOMAIN s THEN s[k - pos] ELSE b[k]) \in Byte
  BY DEF Blocks
<1>5. Over(b, pos, s) = [k \in 1..BlockSize |-> IF k - pos \in DOMAIN s THEN s[k - pos] ELSE b[k]]
  BY <1>1 DEF Over
<1> QED BY <1>5 DEF Blocks

\* The kinds of bytes padding is made of.
LEMMA PiecesAre ==
  ASSUME HashAssumption, NEW n \in Nat
  PROVE  /\ <<Mark>> \in Seq(Byte) /\ Len(<<Mark>>) = 1 /\ <<Mark>>[1] = Mark
         /\ Zeros(n) \in Seq(Byte) /\ Len(Zeros(n)) = n
         /\ \A i \in 1..n : Zeros(n)[i] = <<"pad", 0>>
         /\ Length(n) \in Seq(Byte) /\ Len(Length(n)) = CountSize
         /\ \A i \in 1..CountSize : Length(n)[i] = <<"len", n % CountMod>>
<1>1. CountSize \in Nat /\ n % CountMod \in Nat
  <2>1. CountSize \in Nat /\ CountMod \in Nat \ {0}
    BY Sizes
  <2> QED BY <2>1
<1>2. Mark \in Byte /\ <<"pad", 0>> \in Byte /\ <<"len", n % CountMod>> \in Byte
  BY <1>1 DEF Mark, Byte
<1>3. Zeros(n) \in Seq(Byte) /\ Len(Zeros(n)) = n
  <2>1. Zeros(n) \in [1..n -> Byte]
    BY <1>2 DEF Zeros
  <2> QED BY <2>1
<1>4. Length(n) \in Seq(Byte) /\ Len(Length(n)) = CountSize
  <2>1. Length(n) \in [1..CountSize -> Byte]
    BY <1>2 DEF Length
  <2> QED BY <2>1, <1>1
<1>5. <<Mark>> \in Seq(Byte) /\ Len(<<Mark>>) = 1 /\ <<Mark>>[1] = Mark
  BY <1>2
<1>6. \A i \in 1..n : Zeros(n)[i] = <<"pad", 0>>
  BY DEF Zeros
<1>7. \A i \in 1..CountSize : Length(n)[i] = <<"len", n % CountMod>>
  BY DEF Length
<1> QED BY <1>3, <1>4, <1>5, <1>6, <1>7

LEMMA FreshIs ==
  ASSUME Typed, NEW n \in Nat
  PROVE  Fresh(n) \in Seq(Byte) /\ Len(Fresh(n)) = n
<1>1. \A i \in 1..n : <<"msg", next + i - 1>> \in Byte
  BY DEF Typed, Byte
<1>2. Fresh(n) \in [1..n -> Byte]
  BY <1>1 DEF Fresh
<1> QED BY <1>2

(***************************************************************************)
(* A piece, whether it fills the block under construction or not.          *)
(***************************************************************************)
LEMMA KeepHolds ==
  ASSUME HashAssumption, Typed, Holds, NEW s \in Seq(Byte), Keep(s), msg' = msg \o s
  PROVE  /\ Holds' /\ buffer' \in Blocks /\ hashed' = hashed
         /\ offset' \in 0..(BlockSize - 1) /\ counter' = counter
<1> DEFINE h == Len(hashed)
<1>1. /\ offset \in Nat /\ Len(s) \in Nat /\ h \in Nat /\ Len(msg) \in Nat
      /\ BlockSize \in Nat /\ offset < BlockSize
  BY Sizes DEF Typed
<1>2. /\ buffer' = Over(buffer, offset, s) /\ offset' = offset + Len(s)
      /\ hashed' = hashed /\ counter' = counter /\ Len(s) < BlockSize - offset
  BY DEF Keep
<1>3. /\ buffer' \in Blocks
      /\ \A k \in 1..BlockSize :
           buffer'[k] = IF offset < k /\ k <= offset + Len(s) THEN s[k - offset] ELSE buffer[k]
  <2>1. buffer \in Blocks
    BY DEF Typed
  <2> QED BY <2>1, <1>1, <1>2, OverIs
<1>4. /\ Len(msg \o s) = Len(msg) + Len(s)
      /\ \A i \in 1..(Len(msg) + Len(s)) :
           (msg \o s)[i] = IF i <= Len(msg) THEN msg[i] ELSE s[i - Len(msg)]
  OBVIOUS
<1>5. /\ Len(msg) = h + offset
      /\ \A i \in 1..h : hashed[i] = msg[i]
      /\ \A i \in 1..offset : buffer[i] = msg[h + i]
      /\ counter = h % CountMod
  BY DEF Holds
<1>6. Len(msg') = Len(hashed') + offset'
  BY <1>1, <1>2, <1>4, <1>5
<1>7. \A i \in 1..Len(hashed') : hashed'[i] = msg'[i]
  BY <1>1, <1>2, <1>5
<1>8. ASSUME NEW i \in 1..offset' PROVE buffer'[i] = msg'[Len(hashed') + i]
  <2>1. i \in 1..BlockSize /\ h + i \in 1..(Len(msg) + Len(s))
    BY <1>1, <1>2, <1>5
  <2>2. CASE i <= offset
    <3>1. h + i <= Len(msg) /\ ~(offset < i) /\ i \in 1..offset
      BY <2>2, <1>1, <1>5
    <3> QED BY <3>1, <2>1, <1>2, <1>3, <1>4, <1>5
  <2>3. CASE offset < i
    <3>1. ~(h + i <= Len(msg)) /\ i <= offset + Len(s) /\ h + i - Len(msg) = i - offset
      BY <2>3, <1>1, <1>2, <1>5
    <3> QED BY <3>1, <2>1, <2>3, <1>2, <1>3
  <2>4. i \in Nat
    OBVIOUS
  <2>5. i <= offset \/ offset < i
    BY <1>1
  <2> QED BY <2>2, <2>3, <2>5
<1>9. offset' \in 0..(BlockSize - 1)
  BY <1>1, <1>2
<1> QED BY <1>2, <1>3, <1>6, <1>7, <1>8, <1>9 DEF Holds

LEMMA AbsorbHolds ==
  ASSUME HashAssumption, Typed, Holds, Len(hashed) % BlockSize = 0,
         NEW s \in Seq(Byte), Absorb(s), msg' = msg \o s
  PROVE  /\ Holds' /\ buffer' \in Blocks /\ hashed' \in Seq(Byte)
         /\ Len(hashed') % BlockSize = 0
         /\ offset' \in 0..(BlockSize - 1) /\ counter' \in 0..(CountMod - 1)
<1> DEFINE B == BlockSize
           h == Len(hashed)
           L == Len(s)
           head == IF offset = 0 THEN 0 ELSE B - offset
           first == SubSeq(s, 1, head)
           full == Over(buffer, offset, first)
           rest == (L - head) % B
           pre == IF head = 0 THEN <<>> ELSE full
           whole == SubSeq(s, head + 1, L - rest)
           last == SubSeq(s, L - rest + 1, L)
<1>1. /\ B \in Nat \ {0} /\ offset \in Nat /\ offset < B /\ h \in Nat /\ L \in Nat
      /\ Len(msg) = h + offset /\ h % B = 0
      /\ \A i \in 1..h : hashed[i] = msg[i]
      /\ \A i \in 1..offset : buffer[i] = msg[h + i]
      /\ counter = h % CountMod
  BY Sizes DEF Typed, Holds
<1>2. /\ L >= B - offset
      /\ hashed' = (hashed \o pre) \o whole
      /\ counter' = (counter + (Len(hashed') - Len(hashed))) % CountMod
      /\ buffer' = Over(full, 0, last)
      /\ offset' = rest
  BY DEF Absorb
<1>3. head \in Nat /\ head <= L /\ (head = 0 <=> offset = 0) /\ (head # 0 => head = B - offset)
  BY <1>1, <1>2
<1> HIDE DEF head
<1>4. rest \in 0..(B - 1) /\ (L - head) - rest \in Nat /\ ((L - head) - rest) % B = 0
  <2>1. L - head \in Nat
    BY <1>3
  <2> QED BY <2>1, <1>1, Division, LeftOver
<1> HIDE DEF rest
<1>5. /\ first \in Seq(Byte) /\ Len(first) = head
      /\ \A i \in 1..head : first[i] = s[i]
  <2>1. \A i \in 1..head : s[i] \in Byte
    BY <1>3
  <2>2. first \in Seq(Byte) /\ Len(first) = (IF 1 <= head THEN head - 1 + 1 ELSE 0)
        /\ \A i \in 1..(head - 1 + 1) : first[i] = s[1 + i - 1]
    BY <1>3
  <2> QED BY <1>3
<1>6. /\ whole \in Seq(Byte) /\ Len(whole) = L - rest - head
      /\ \A i \in 1..(L - rest - head) : whole[i] = s[head + i]
  <2>1. \A i \in (head + 1)..(L - rest) : s[i] \in Byte
    BY <1>3, <1>4, ElementOfSeq
  <2>2. /\ whole \in Seq(Byte)
        /\ Len(whole) = (IF head + 1 <= L - rest THEN (L - rest) - (head + 1) + 1 ELSE 0)
        /\ \A i \in 1..((L - rest) - (head + 1) + 1) : whole[i] = s[head + 1 + i - 1]
    BY <2>1, <1>3, <1>4
  <2>3. (L - rest) - (head + 1) + 1 = L - rest - head /\ L - rest - head \in Nat
    BY <1>3, <1>4
  <2> HIDE DEF whole
  <2>4. Len(whole) = L - rest - head
    BY <2>2, <1>1, <1>3, <1>4
  <2>5. ASSUME NEW i \in 1..(L - rest - head) PROVE whole[i] = s[head + i]
    <3>1. head + 1 + i - 1 = head + i
      BY <1>3
    <3> QED BY <3>1, <2>2, <2>3
  <2> QED BY <2>2, <2>4, <2>5
<1>7. /\ last \in Seq(Byte) /\ Len(last) = rest
      /\ \A i \in 1..rest : last[i] = s[L - rest + i]
  <2>1. \A i \in (L - rest + 1)..L : s[i] \in Byte
    BY <1>3, <1>4
  <2>2. /\ last \in Seq(Byte)
        /\ Len(last) = (IF L - rest + 1 <= L THEN L - (L - rest + 1) + 1 ELSE 0)
        /\ \A i \in 1..(L - (L - rest + 1) + 1) : last[i] = s[L - rest + 1 + i - 1]
    BY <2>1, <1>4
  <2> HIDE DEF last
  <2>3. L - (L - rest + 1) + 1 = rest /\ Len(last) = rest
    BY <2>2, <1>4
  <2>4. ASSUME NEW i \in 1..rest PROVE last[i] = s[L - rest + i]
    <3>1. L - rest + 1 + i - 1 = L - rest + i
      BY <1>4
    <3> QED BY <2>2, <2>3
  <2> QED BY <2>2, <2>3
<1>8. /\ full \in Blocks
      /\ \A k \in 1..B :
           full[k] = IF offset < k /\ k <= offset + head THEN s[k - offset] ELSE buffer[k]
  <2>1. /\ full \in Blocks
        /\ \A k \in 1..B :
             full[k] = IF offset < k /\ k <= offset + head THEN first[k - offset] ELSE buffer[k]
    <3> HIDE DEF first
    <3>1. buffer \in Blocks /\ first \in Seq(Byte) /\ offset \in Nat
      BY <1>5 DEF Typed
    <3>2. /\ full \in Blocks
          /\ \A k \in 1..BlockSize :
               full[k] = IF offset < k /\ k <= offset + Len(first) THEN first[k - offset] ELSE buffer[k]
      BY <3>1, OverIs
    <3> QED BY <3>2, <1>5
  <2>2. \A k \in 1..B : offset < k /\ k <= offset + head => k - offset \in 1..head
    BY <1>1, <1>3
  <2> QED BY <2>1, <2>2, <1>5
<1>9. buffer' \in Blocks /\ \A k \in 1..rest : buffer'[k] = s[L - rest + k]
  <2>1. /\ buffer' \in Blocks
        /\ \A k \in 1..B : buffer'[k] = IF 0 < k /\ k <= 0 + rest THEN last[k - 0] ELSE full[k]
    <3> HIDE DEF last, full
    <3>1. full \in Blocks /\ last \in Seq(Byte) /\ 0 \in Nat
      BY <1>7, <1>8
    <3>2. /\ Over(full, 0, last) \in Blocks
          /\ \A k \in 1..BlockSize :
               Over(full, 0, last)[k] =
                 IF 0 < k /\ k <= 0 + Len(last) THEN last[k - 0] ELSE full[k]
      BY <3>1, OverIs
    <3> QED BY <3>2, <1>2, <1>7
  <2>2. \A k \in 1..rest : k \in 1..B /\ 0 < k /\ k <= 0 + rest /\ k - 0 = k
    BY <1>1, <1>4
  <2> QED BY <2>1, <2>2, <1>7
<1>10. /\ pre \in Seq(Byte) /\ Len(pre) = offset + head
       /\ \A i \in 1..(offset + head) : pre[i] = full[i]
  <2>1. CASE head = 0
    <3>1. pre = <<>> /\ offset + head = 0
      BY <2>1, <1>3
    <3>2. <<>> \in Seq(Byte) /\ Len(<<>>) = 0
      OBVIOUS
    <3>3. 1..(offset + head) = {}
      BY <3>1
    <3> QED BY <3>1, <3>2, <3>3
  <2>2. CASE head # 0
    <3>1. pre = full /\ offset + head = B
      BY <2>2, <1>1, <1>3
    <3> QED BY <3>1, <1>8, BlockIs
  <2> QED BY <2>1, <2>2
<1> HIDE DEF first, full, pre, whole, last
<1>11. /\ hashed' \in Seq(Byte) /\ Len(hashed') = h + (offset + head) + (L - rest - head)
       /\ \A i \in 1..Len(hashed') :
            hashed'[i] = IF i <= h THEN hashed[i]
                         ELSE IF i <= h + (offset + head) THEN pre[i - h]
                         ELSE whole[i - (h + (offset + head))]
  <2>1. /\ hashed \o pre \in Seq(Byte) /\ Len(hashed \o pre) = h + (offset + head)
        /\ \A i \in 1..(h + (offset + head)) :
             (hashed \o pre)[i] = IF i <= h THEN hashed[i] ELSE pre[i - h]
    <3>1. hashed \in Seq(Byte) /\ pre \in Seq(Byte) /\ Len(pre) = offset + head
      BY <1>10 DEF Typed
    <3>2. /\ hashed \o pre \in Seq(Byte) /\ Len(hashed \o pre) = h + Len(pre)
          /\ \A i \in 1..(h + Len(pre)) :
               (hashed \o pre)[i] = IF i <= h THEN hashed[i] ELSE pre[i - h]
      BY <3>1, ConcatProperties
    <3> QED BY <3>1, <3>2
  <2>2. /\ hashed' \in Seq(Byte)
        /\ Len(hashed') = h + (offset + head) + (L - rest - head)
        /\ \A i \in 1..Len(hashed') :
             hashed'[i] = IF i <= h + (offset + head) THEN (hashed \o pre)[i]
                          ELSE whole[i - (h + (offset + head))]
    <3> DEFINE hp == hashed \o pre
    <3>1. hp \in Seq(Byte) /\ Len(hp) = h + (offset + head) /\ hashed' = hp \o whole
      BY <2>1, <1>2
    <3> HIDE DEF hp
    <3>2. whole \in Seq(Byte) /\ Len(whole) = L - rest - head
      BY <1>6
    <3>3. /\ hp \o whole \in Seq(Byte) /\ Len(hp \o whole) = Len(hp) + Len(whole)
          /\ \A i \in 1..(Len(hp) + Len(whole)) :
               (hp \o whole)[i] = IF i <= Len(hp) THEN hp[i] ELSE whole[i - Len(hp)]
      BY <3>1, <3>2, ConcatProperties
    <3>4. /\ hashed' \in Seq(Byte)
          /\ Len(hashed') = h + (offset + head) + (L - rest - head)
          /\ \A i \in 1..Len(hashed') :
               hashed'[i] = IF i <= h + (offset + head) THEN hp[i]
                            ELSE whole[i - (h + (offset + head))]
      BY <3>1, <3>2
    <3> QED BY <3>4 DEF hp
  <2>3. ASSUME NEW i \in 1..Len(hashed') PROVE i <= h => i <= h + (offset + head)
    BY <1>1, <1>3
  <2>4. ASSUME NEW i \in 1..Len(hashed'), i <= h + (offset + head)
        PROVE i \in 1..(h + (offset + head))
    BY <2>4
  <2> QED BY <2>1, <2>2
<1>12. Len(hashed') = h + offset + (L - rest) /\ Len(hashed') = h + ((offset + head) + (L - head - rest))
  BY <1>1, <1>3, <1>4, <1>11
<1>13. /\ Len(msg') = h + offset + L
       /\ \A i \in 1..(h + offset + L) :
            msg'[i] = IF i <= h + offset THEN msg[i] ELSE s[i - (h + offset)]
  <2>1. msg \in Seq(Byte) /\ msg' = msg \o s
    BY DEF Typed
  <2>2. /\ Len(msg') = Len(msg) + Len(s)
        /\ \A i \in 1..(Len(msg) + Len(s)) :
             msg'[i] = IF i <= Len(msg) THEN msg[i] ELSE s[i - Len(msg)]
    OBVIOUS
  <2> QED BY <2>2, <1>1
<1>14. Len(hashed') % B = 0
  <2>1. (offset + head) % B = 0
    <3>1. 0 % B = 0 /\ B % B = 0
      BY <1>1
    <3>2. offset + head = 0 \/ offset + head = B
      BY <1>1, <1>3
    <3> QED BY <3>1, <3>2
  <2>2. offset + head \in Nat /\ L - head - rest \in Nat /\ (L - head - rest) % B = 0
    BY <1>1, <1>3, <1>4
  <2>3. ((offset + head) + (L - head - rest)) % B = 0
    BY <2>1, <2>2, <1>1, WholeBlocks
  <2> DEFINE d == (offset + head) + (L - head - rest)
  <2>4. d \in Nat /\ d % B = 0 /\ Len(hashed') = h + d
    BY <2>2, <2>3, <1>12
  <2> HIDE DEF d
  <2>5. (h + d) % B = d % B
    BY <2>4, <1>1, WholeBlocks
  <2> QED BY <2>4, <2>5
<1>15. ASSUME NEW i \in 1..Len(hashed') PROVE hashed'[i] = msg'[i]
  <2>1. i \in Nat /\ i >= 1 /\ i \in 1..(h + offset + L) /\ i <= h + offset + (L - rest)
    BY <1>1, <1>4, <1>12
  <2>2. CASE i <= h
    <3>1. i <= h + offset /\ i \in 1..h
      BY <2>2, <1>1
    <3> QED BY <2>1, <2>2, <3>1, <1>1, <1>11, <1>13
  <2>3. CASE h < i /\ i <= h + offset
    <3>1. /\ ~(i <= h) /\ i <= h + (offset + head) /\ i - h \in 1..(offset + head)
          /\ i - h \in 1..B /\ ~(offset < i - h) /\ i - h \in 1..offset /\ h + (i - h) = i
      BY <2>3, <1>1, <1>3
    <3>2. hashed'[i] = full[i - h]
      BY <3>1, <1>10, <1>11
    <3>3. full[i - h] = buffer[i - h]
      BY <3>1, <1>8
    <3>4. buffer[i - h] = msg[i]
      BY <3>1, <1>1
    <3> QED BY <2>1, <2>3, <3>2, <3>3, <3>4, <1>13
  <2>4. CASE h + offset < i /\ i <= h + (offset + head)
    <3>1. /\ ~(i <= h) /\ ~(i <= h + offset) /\ i - h \in 1..(offset + head)
          /\ i - h \in 1..B /\ offset < i - h /\ i - h <= offset + head
          /\ i - (h + offset) = (i - h) - offset
      BY <2>4, <1>1, <1>3
    <3>2. hashed'[i] = full[i - h]
      BY <3>1, <1>10, <1>11
    <3>3. full[i - h] = s[(i - h) - offset]
      BY <3>1, <1>8
    <3>4. (i - h) - offset = i - (h + offset)
      BY <3>1
    <3>5. hashed'[i] = s[i - (h + offset)]
      BY <3>2, <3>3, <3>4
    <3> QED BY <2>1, <3>1, <3>5, <1>13
  <2>5. CASE h + (offset + head) < i
    <3> DEFINE j == i - (h + (offset + head))
    <3>0. h \in Nat /\ offset \in Nat /\ head \in Nat /\ L \in Nat /\ rest \in Nat
      BY <1>1, <1>3, <1>4
    <3>1. /\ ~(i <= h) /\ ~(i <= h + (offset + head)) /\ ~(i <= h + offset)
          /\ j \in 1..(L - rest - head) /\ head + j = i - (h + offset)
      BY <2>1, <2>5, <3>0
    <3>2. hashed'[i] = whole[j]
      BY <3>1, <1>11
    <3> HIDE DEF j
    <3>3. whole[j] = s[i - (h + offset)]
      BY <3>1, <1>6
    <3> QED BY <2>1, <3>1, <3>2, <3>3, <1>13
  <2>6. \/ i <= h \/ (h < i /\ i <= h + offset)
        \/ (h + offset < i /\ i <= h + (offset + head)) \/ h + (offset + head) < i
    BY <1>1, <1>3
  <2> QED BY <2>2, <2>3, <2>4, <2>5, <2>6
<1>16. ASSUME NEW i \in 1..offset' PROVE buffer'[i] = msg'[Len(hashed') + i]
  <2>1. /\ i \in 1..rest /\ Len(hashed') + i \in 1..(h + offset + L)
        /\ ~(Len(hashed') + i <= h + offset)
        /\ (Len(hashed') + i) - (h + offset) = L - rest + i
    <3>1. i \in 1..rest
      BY <1>2
    <3>2. L - rest \in Nat /\ L \in Nat /\ rest \in Nat
      BY <1>1, <1>3, <1>4
    <3>3. h \in Nat /\ offset \in Nat
      BY <1>1
    <3>4. Len(hashed') = h + offset + (L - rest)
      BY <1>12
    <3> QED BY <3>1, <3>2, <3>3, <3>4
  <2>2. \A x \in 1..(h + offset + L) :
          ~(x <= h + offset) => msg'[x] = s[x - (h + offset)]
    BY <1>13
  <2>3. msg'[Len(hashed') + i] = s[(Len(hashed') + i) - (h + offset)]
    BY <2>1, <2>2
  <2>4. msg'[Len(hashed') + i] = s[L - rest + i]
    BY <2>1, <2>3
  <2> QED BY <2>1, <2>4, <1>9
<1>17. counter' = Len(hashed') % CountMod /\ counter' \in 0..(CountMod - 1)
  <2>1. CountMod \in Nat \ {0}
    BY Sizes
  <2> DEFINE d == offset + (L - rest)
  <2>2. d \in Nat /\ Len(hashed') = h + d /\ Len(hashed') - h = d
    BY <1>1, <1>3, <1>4, <1>12
  <2>3. counter' = ((h % CountMod) + d) % CountMod
    BY <2>2, <1>1, <1>2
  <2> HIDE DEF d
  <2>4. counter' = (h + d) % CountMod
    BY <2>1, <2>2, <2>3, <1>1, RemainderOfSum
  <2>5. h + d \in Nat
    BY <2>2
  <2>6. (h + d) % CountMod \in 0..(CountMod - 1)
    BY <2>1, <2>5
  <2> QED BY <2>2, <2>4, <2>6
<1>18. Len(msg') = Len(hashed') + offset'
  BY <1>1, <1>2, <1>4, <1>12, <1>13
<1>19. offset' \in 0..(BlockSize - 1)
  BY <1>2, <1>4
<1> QED BY <1>9, <1>11, <1>14, <1>15, <1>16, <1>17, <1>18, <1>19 DEF Holds

(***************************************************************************)
(* The padding.                                                            *)
(***************************************************************************)
\* The length in bits is that of the message, although the counter goes round.
LEMMA LengthIsTrue ==
  ASSUME HashAssumption, Typed, Holds
  PROVE  /\ (counter + offset) * 8 \in Nat /\ 8 * Len(msg) \in Nat
         /\ Length((counter + offset) * 8) = Length(8 * Len(msg))
<1> DEFINE h == Len(hashed)
           x == ((h % CountMod) + offset) * 8
           y == 8 * (h + offset)
<1>1. /\ h \in Nat /\ offset \in Nat /\ counter = h % CountMod /\ counter \in Nat
      /\ Len(msg) = h + offset /\ CountMod \in Nat \ {0}
  BY Sizes DEF Typed, Holds
<1>2. (((h % CountMod) + offset) * 8) % CountMod = (8 * (h + offset)) % CountMod
  <2> HIDE DEF h
  <2>1. h \in Nat /\ offset \in Nat /\ CountMod \in Nat \ {0} /\ 8 \in Nat
    BY <1>1
  <2> QED BY <2>1, RemainderOfProduct
<1>3. Length(x) = Length(y)
  BY <1>2 DEF Length
<1> QED BY <1>1, <1>3

LEMMA SentinelIs ==
  ASSUME HashAssumption, Typed, Holds, NEW b \in Blocks
  PROVE  /\ Sentinel(b) \in Blocks
         /\ \A k \in 1..BlockSize :
              Sentinel(b)[k] = IF BlockSize - CountSize < k
                               THEN <<"len", (8 * Len(msg)) % CountMod>> ELSE b[k]
<1> DEFINE room == BlockSize - CountSize
           len == Length(8 * Len(msg))
<1>1. room \in Nat /\ room + CountSize = BlockSize /\ CountSize \in Nat
  BY Sizes
<1>2. /\ len \in Seq(Byte) /\ Len(len) = CountSize
      /\ \A i \in 1..CountSize : len[i] = <<"len", (8 * Len(msg)) % CountMod>>
  BY LengthIsTrue, PiecesAre
<1>3. Sentinel(b) = Over(b, room, len)
  BY LengthIsTrue DEF Sentinel
<1> HIDE DEF len
<1>4. /\ Over(b, room, len) \in Blocks
      /\ \A k \in 1..BlockSize :
           Over(b, room, len)[k] =
             IF room < k /\ k <= room + Len(len) THEN len[k - room] ELSE b[k]
  BY <1>1, <1>2, OverIs
<1>5. ASSUME NEW k \in 1..BlockSize
      PROVE  /\ room < k /\ k <= room + Len(len) <=> room < k
             /\ room < k => k - room \in 1..CountSize
  BY <1>1, <1>2
<1> QED BY <1>2, <1>3, <1>4, <1>5

\* What stands where in the block or the two blocks a message ends with.
Ending(room) ==
  [k \in 1..(room + CountSize) |->
     IF k <= offset THEN buffer[k]
     ELSE IF k = offset + 1 THEN Mark
     ELSE IF k <= room THEN <<"pad", 0>> ELSE <<"len", (8 * Len(msg)) % CountMod>>]

LEMMA PaddingIs ==
  ASSUME HashAssumption, Typed, Holds
  PROVE  \E room \in Nat :
           /\ offset + 1 <= room /\ room - (offset + 1) < BlockSize
           /\ room + CountSize \in {BlockSize, 2 * BlockSize}
           /\ Padding \in Seq(Byte) /\ Padding = Ending(room)
<1> DEFINE B == BlockSize
           C == CountSize
           low == B - C
           marked == Over(buffer, offset, <<Mark>>)
           len == <<"len", (8 * Len(msg)) % CountMod>>
<1>1. /\ B \in Nat \ {0} /\ C \in Nat \ {0} /\ C < B /\ low \in Nat /\ low + C = B
      /\ offset \in Nat /\ offset < B /\ buffer \in Blocks
  BY Sizes DEF Typed
<1>2. /\ marked \in Blocks
      /\ \A k \in 1..B : marked[k] = IF k = offset + 1 THEN Mark ELSE buffer[k]
  <2>1. <<Mark>> \in Seq(Byte) /\ Len(<<Mark>>) = 1 /\ <<Mark>>[1] = Mark
    BY PiecesAre
  <2> DEFINE m == <<Mark>>
  <2> HIDE DEF m
  <2>2. m \in Seq(Byte) /\ Len(m) = 1 /\ m[1] = Mark
    BY <2>1 DEF m
  <2>3. /\ Over(buffer, offset, m) \in Blocks
        /\ \A k \in 1..BlockSize :
             Over(buffer, offset, m)[k] =
               IF offset < k /\ k <= offset + Len(m) THEN m[k - offset] ELSE buffer[k]
    BY <2>2, <1>1, OverIs
  <2>4. ASSUME NEW k \in 1..B
        PROVE  /\ offset < k /\ k <= offset + 1 <=> k = offset + 1
               /\ k = offset + 1 => k - offset = 1
    BY <1>1
  <2>5. /\ Over(buffer, offset, m) \in Blocks
        /\ \A k \in 1..B : Over(buffer, offset, m)[k] = IF k = offset + 1 THEN Mark ELSE buffer[k]
    BY <2>2, <2>3, <2>4
  <2> QED BY <2>5 DEF m
<1> HIDE DEF marked
<1>3. ASSUME NEW b \in Blocks, NEW p \in Nat, NEW n \in Nat
      PROVE  /\ Over(b, p, Zeros(n)) \in Blocks
             /\ \A k \in 1..B : Over(b, p, Zeros(n))[k] =
                                  IF p < k /\ k <= p + n THEN <<"pad", 0>> ELSE b[k]
  <2> DEFINE z == Zeros(n)
  <2>1. z \in Seq(Byte) /\ Len(z) = n /\ \A i \in 1..n : z[i] = <<"pad", 0>>
    BY PiecesAre
  <2> HIDE DEF z
  <2>2. /\ Over(b, p, z) \in Blocks
        /\ \A k \in 1..BlockSize :
             Over(b, p, z)[k] = IF p < k /\ k <= p + Len(z) THEN z[k - p] ELSE b[k]
    BY <2>1, OverIs
  <2>3. ASSUME NEW k \in 1..B, p < k /\ k <= p + n PROVE k - p \in 1..n
    BY <2>3
  <2>4. Over(b, p, z) \in Blocks
    BY <2>2
  <2>5. \A k \in 1..B : Over(b, p, z)[k] = IF p < k /\ k <= p + n THEN <<"pad", 0>> ELSE b[k]
    BY <2>1, <2>2, <2>3
  <2> QED BY <2>4, <2>5 DEF z
<1>4. CASE offset + 1 <= low
  <2> DEFINE n == low - (offset + 1)
             filled == Over(marked, offset + 1, Zeros(n))
  <2>1. n \in Nat /\ (offset + 1) + n = low /\ offset + 1 \in Nat /\ n < B
    BY <1>1, <1>4
  <2>2. /\ filled \in Blocks
        /\ \A k \in 1..B : filled[k] = IF offset + 1 < k /\ k <= low THEN <<"pad", 0>> ELSE marked[k]
    <3>1. /\ filled \in Blocks
          /\ \A k \in 1..B : filled[k] = IF offset + 1 < k /\ k <= (offset + 1) + n THEN <<"pad", 0>> ELSE marked[k]
      BY <1>2, <1>3, <2>1
    <3> QED BY <2>1, <3>1
  <2>3. Padding = Sentinel(filled)
    BY <1>4 DEF Padding, marked
  <2> HIDE DEF filled
  <2>4. /\ Sentinel(filled) \in Blocks
        /\ \A k \in 1..B : Sentinel(filled)[k] = IF low < k THEN len ELSE filled[k]
    BY <2>2, SentinelIs
  <2>5. ASSUME NEW k \in 1..B
        PROVE  Padding[k] = Ending(low)[k]
    <3>1. k \in 1..(low + C)
      BY <1>1
    <3>2. Ending(low)[k] = IF k <= offset THEN buffer[k]
                           ELSE IF k = offset + 1 THEN Mark
                           ELSE IF k <= low THEN <<"pad", 0>> ELSE len
      BY <3>1 DEF Ending
    <3>3. CASE k <= offset
      <4>1. ~(low < k) /\ ~(offset + 1 < k) /\ k # offset + 1
        BY <3>3, <1>1, <1>4
      <4> QED BY <3>2, <3>3, <4>1, <2>2, <2>3, <2>4, <1>2
    <3>4. CASE k = offset + 1
      <4>1. ~(low < k) /\ ~(offset + 1 < k) /\ ~(k <= offset)
        BY <3>4, <1>1, <1>4
      <4> QED BY <3>2, <3>4, <4>1, <2>2, <2>3, <2>4, <1>2
    <3>5. CASE offset + 1 < k /\ k <= low
      <4>1. ~(low < k) /\ ~(k <= offset) /\ k # offset + 1
        BY <3>5, <1>1
      <4> QED BY <3>2, <3>5, <4>1, <2>2, <2>3, <2>4
    <3>6. CASE low < k
      <4>1. ~(k <= low) /\ ~(k <= offset) /\ k # offset + 1
        BY <3>6, <1>1, <1>4
      <4> QED BY <3>2, <3>6, <4>1, <2>3, <2>4
    <3>7. k <= offset \/ k = offset + 1 \/ (offset + 1 < k /\ k <= low) \/ low < k
      BY <1>1
    <3> QED BY <3>3, <3>4, <3>5, <3>6, <3>7
  <2>6. Padding = Ending(low)
    <3>1. Padding \in [1..B -> Byte]
      BY <2>3, <2>4 DEF Blocks
    <3>2. Padding = [k \in 1..B |-> Padding[k]] /\ Ending(low) = [k \in 1..B |-> Ending(low)[k]]
      BY <3>1, <1>1 DEF Ending
    <3> QED BY <3>2, <2>5
  <2>7. Padding \in Seq(Byte)
    BY <2>3, <2>4, BlockIs
  <2> QED BY <2>1, <2>6, <2>7, <1>1
<1>5. CASE ~(offset + 1 <= low)
  <2> DEFINE n == B - (offset + 1)
             first == Over(marked, offset + 1, Zeros(n))
             second == Over(first, 0, Zeros(low))
             room == B + low
  <2>1. n \in Nat /\ (offset + 1) + n = B /\ offset + 1 \in Nat
        /\ room \in Nat /\ room + C = 2 * B /\ offset + 1 <= room /\ room - (offset + 1) < B
    BY <1>1, <1>5
  <2>2. /\ first \in Blocks
        /\ \A k \in 1..B : first[k] = IF offset + 1 < k THEN <<"pad", 0>> ELSE marked[k]
    <3>1. /\ first \in Blocks
          /\ \A k \in 1..B : first[k] = IF offset + 1 < k /\ k <= (offset + 1) + n THEN <<"pad", 0>> ELSE marked[k]
      BY <1>2, <1>3, <2>1
    <3>2. \A k \in 1..B : k <= (offset + 1) + n
      BY <2>1
    <3> QED BY <3>1, <3>2
  <2> HIDE DEF first
  <2>3. /\ second \in Blocks
        /\ \A k \in 1..B : second[k] = IF k <= low THEN <<"pad", 0>> ELSE first[k]
    <3>1. /\ second \in Blocks
          /\ \A k \in 1..B : second[k] = IF 0 < k /\ k <= 0 + low THEN <<"pad", 0>> ELSE first[k]
      <4> HIDE DEF low
      <4>1. first \in Blocks /\ low \in Nat /\ 0 \in Nat
        BY <1>1, <2>2
      <4> QED BY <4>1, <1>3
    <3>2. \A k \in 1..B : (0 < k /\ k <= 0 + low) <=> k <= low
      BY <1>1
    <3> QED BY <3>1, <3>2
  <2>4. Padding = first \o Sentinel(second)
    BY <1>5 DEF Padding, marked, first
  <2> HIDE DEF second
  <2>5. /\ Sentinel(second) \in Blocks
        /\ \A k \in 1..B : Sentinel(second)[k] = IF low < k THEN len ELSE <<"pad", 0>>
    <3>1. /\ Sentinel(second) \in Blocks
          /\ \A k \in 1..B : Sentinel(second)[k] = IF low < k THEN len ELSE second[k]
      BY <2>3, SentinelIs
    <3>2. \A k \in 1..B : ~(low < k) => k <= low
      BY <1>1
    <3> QED BY <3>1, <3>2, <2>3
  <2>6. /\ Padding \in Seq(Byte) /\ Len(Padding) = B + B
        /\ \A k \in 1..(B + B) : Padding[k] = IF k <= B THEN first[k] ELSE Sentinel(second)[k - B]
    <3> DEFINE snd == Sentinel(second)
    <3> HIDE DEF snd
    <3>1. first \in Seq(Byte) /\ Len(first) = B /\ snd \in Seq(Byte) /\ Len(snd) = B
      BY <2>2, <2>5, BlockIs DEF snd
    <3>2. /\ first \o snd \in Seq(Byte) /\ Len(first \o snd) = Len(first) + Len(snd)
          /\ \A k \in 1..(Len(first) + Len(snd)) :
               (first \o snd)[k] = IF k <= Len(first) THEN first[k] ELSE snd[k - Len(first)]
      BY <3>1
    <3>3. Padding = first \o snd
      BY <2>4 DEF snd
    <3>4. /\ Padding \in Seq(Byte) /\ Len(Padding) = B + B
          /\ \A k \in 1..(B + B) : Padding[k] = IF k <= B THEN first[k] ELSE snd[k - B]
      BY <3>1, <3>2, <3>3
    <3> QED BY <3>4 DEF snd
  <2>7. ASSUME NEW k \in 1..(B + B) PROVE Padding[k] = Ending(room)[k]
    <3>1. k \in 1..(room + C)
      BY <1>1
    <3>2. Ending(room)[k] = IF k <= offset THEN buffer[k]
                            ELSE IF k = offset + 1 THEN Mark
                            ELSE IF k <= room THEN <<"pad", 0>> ELSE len
      BY <3>1 DEF Ending
    <3>3. CASE k <= offset
      <4>1. k <= B /\ k \in 1..B /\ ~(offset + 1 < k) /\ k # offset + 1
        BY <3>3, <1>1
      <4> QED BY <3>2, <3>3, <4>1, <2>2, <2>6, <1>2
    <3>4. CASE k = offset + 1
      <4>1. k <= B /\ k \in 1..B /\ ~(offset + 1 < k) /\ ~(k <= offset)
        BY <3>4, <1>1
      <4> QED BY <3>2, <3>4, <4>1, <2>2, <2>6, <1>2
    <3>5. CASE offset + 1 < k /\ k <= B
      <4>1. k \in 1..B /\ k <= room /\ ~(k <= offset) /\ k # offset + 1
        BY <3>5, <1>1
      <4> QED BY <3>2, <3>5, <4>1, <2>2, <2>6
    <3>6. CASE B < k
      <4>1. /\ ~(k <= B) /\ ~(k <= offset) /\ k # offset + 1 /\ k - B \in 1..B
            /\ k <= room <=> ~(low < k - B)
        BY <3>6, <1>1
      <4> QED BY <3>2, <4>1, <2>5, <2>6
    <3>7. k <= offset \/ k = offset + 1 \/ (offset + 1 < k /\ k <= B) \/ B < k
      BY <1>1
    <3> QED BY <3>3, <3>4, <3>5, <3>6, <3>7
  <2>8. Padding = Ending(room)
    <3>1. room + C = B + B
      BY <1>1
    <3>2. Padding = [k \in 1..(B + B) |-> Padding[k]]
      BY <2>6
    <3>3. Ending(room) = [k \in 1..(B + B) |-> Ending(room)[k]]
      BY <3>1 DEF Ending
    <3> QED BY <3>2, <3>3, <2>7
  <2> QED BY <2>1, <2>6, <2>8
<1> QED BY <1>4, <1>5

LEMMA DoFinalHolds ==
  ASSUME HashAssumption, Inv, DoFinal
  PROVE  Inv'
<1> DEFINE h == Len(hashed)
           B == BlockSize
           C == CountSize
           n == Len(msg)
           len == <<"len", (8 * n) % CountMod>>
<1>1. /\ Typed /\ Holds /\ ~final /\ final' /\ h % B = 0
      /\ hashed' = hashed \o Padding
      /\ buffer' = SubSeq(Padding, Len(Padding) - B + 1, Len(Padding))
      /\ UNCHANGED <<offset, counter, next, msg>>
      /\ final' = TRUE
  BY DEF Inv, DoFinal
<1>2. PICK room \in Nat :
        /\ offset + 1 <= room /\ room - (offset + 1) < B /\ room + C \in {B, 2 * B}
        /\ Padding \in Seq(Byte) /\ Padding = Ending(room)
  BY <1>1, PaddingIs
<1>3. /\ B \in Nat \ {0} /\ C \in Nat \ {0} /\ CountMod \in Nat \ {0}
      /\ h \in Nat /\ offset \in Nat /\ n = h + offset /\ n \in Nat
      /\ hashed \in Seq(Byte) /\ msg \in Seq(Byte)
      /\ \A i \in 1..h : hashed[i] = msg[i]
      /\ \A i \in 1..offset : buffer[i] = msg[h + i]
  BY <1>1, Sizes DEF Typed, Holds
<1>4. Len(Padding) = room + C
  BY <1>2, <1>3 DEF Ending
<1>5. /\ hashed' \in Seq(Byte) /\ Len(hashed') = h + (room + C)
      /\ \A i \in 1..(h + (room + C)) :
           hashed'[i] = IF i <= h THEN hashed[i] ELSE Padding[i - h]
  <2>1. /\ hashed \o Padding \in Seq(Byte) /\ Len(hashed \o Padding) = h + Len(Padding)
        /\ \A i \in 1..(h + Len(Padding)) :
             (hashed \o Padding)[i] = IF i <= h THEN hashed[i] ELSE Padding[i - h]
    BY <1>2, <1>3
  <2> QED BY <2>1, <1>1, <1>4
<1>6. (room + C) % B = 0
  <2>1. \A m \in Nat \ {0} : m % m = 0 /\ (2 * m) % m = 0
    <3> SUFFICES ASSUME NEW m \in Nat \ {0} PROVE m % m = 0 /\ (2 * m) % m = 0
      OBVIOUS
    <3>1. 0 \in 0..(m - 1) /\ 1 \in Nat /\ 2 \in Nat /\ 1 * m + 0 = m /\ 2 * m + 0 = 2 * m
      OBVIOUS
    <3>2. \A q \in Nat : \A r \in 0..(m - 1) : (q * m + r) % m = r
      BY Remainder
    <3>3. (1 * m + 0) % m = 0 /\ (2 * m + 0) % m = 0
      OBVIOUS
    <3> QED OBVIOUS
  <2> QED BY <1>2, <1>3
<1>7. Len(hashed') % B = 0
  <2> DEFINE d == room + C
  <2>1. d \in Nat /\ d % B = 0 /\ Len(hashed') = h + d
    BY <1>3, <1>5, <1>6
  <2> HIDE DEF d
  <2>2. (h + d) % B = d % B
    BY <2>1, <1>1, <1>3, WholeBlocks
  <2> QED BY <2>1, <2>2
<1>8. buffer' \in Blocks
  <2> DEFINE p == Len(Padding)
  <2>1. p \in Nat /\ p >= B /\ p - B + 1 \in Int /\ 1 <= p - B + 1
    <3>1. p = room + C /\ room + C >= B
      BY <1>2, <1>3, <1>4
    <3> QED BY <3>1, <1>3
  <2>2. \A i \in (p - B + 1)..p : Padding[i] \in Byte
    <3>1. \A i \in (p - B + 1)..p : i \in 1..p
      BY <2>1
    <3> QED BY <3>1, <1>2
  <2>3. /\ buffer' \in Seq(Byte)
        /\ Len(buffer') = IF p - B + 1 <= p THEN p - (p - B + 1) + 1 ELSE 0
    BY <2>1, <2>2, <1>1
  <2> HIDE DEF p
  <2>4. Len(buffer') = B
    BY <2>1, <2>3, <1>3
  <2> QED BY <2>3, <2>4 DEF Blocks
\* The zeros are as many as the standard wants.
<1>9. Gap(n) = room - (offset + 1)
  <2> DEFINE z == room - (offset + 1)
  <2>1. z \in 0..(B - 1)
    BY <1>2, <1>3
  <2>2. n + 1 + z + C = h + (room + C) /\ room + C \in Nat
    BY <1>3
  <2>3. (n + 1 + z + C) % B = 0
    BY <2>2, <1>5, <1>7
  <2> HIDE DEF z
  <2>4. Gap(n) = z
    BY <2>1, <2>3, GapIs
  <2> QED BY <2>4 DEF z
<1>10. hashed' = Padded(msg)
  <2> DEFINE g == Gap(n)
             zeros == Zeros(g)
             length == Length(8 * n)
             m1 == msg \o <<Mark>>
             m2 == m1 \o zeros
             m3 == m2 \o length
  <2>1. g \in Nat /\ g = room - (offset + 1) /\ 8 * n \in Nat /\ n + 1 + g = h + room
    BY <1>2, <1>3, <1>9
  <2> HIDE DEF g
  <2>2. /\ <<Mark>> \in Seq(Byte) /\ Len(<<Mark>>) = 1 /\ <<Mark>>[1] = Mark
        /\ zeros \in Seq(Byte) /\ Len(zeros) = g /\ \A i \in 1..g : zeros[i] = <<"pad", 0>>
        /\ length \in Seq(Byte) /\ Len(length) = C /\ \A i \in 1..C : length[i] = len
    BY <2>1, PiecesAre
  <2> HIDE DEF zeros, length
  <2>3. /\ m1 \in Seq(Byte) /\ Len(m1) = n + 1
        /\ \A i \in 1..(n + 1) : m1[i] = IF i <= n THEN msg[i] ELSE Mark
    <3> DEFINE mark == <<Mark>>
    <3>1. mark \in Seq(Byte) /\ Len(mark) = 1 /\ mark[1] = Mark
      BY <2>2
    <3> HIDE DEF mark
    <3>2. /\ msg \o mark \in Seq(Byte) /\ Len(msg \o mark) = n + Len(mark)
          /\ \A i \in 1..(n + Len(mark)) : (msg \o mark)[i] = IF i <= n THEN msg[i] ELSE mark[i - n]
      BY <3>1, <1>3, ConcatProperties
    <3>3. ASSUME NEW i \in 1..(n + 1), ~(i <= n) PROVE i - n = 1
      BY <3>3
    <3>4. /\ msg \o mark \in Seq(Byte) /\ Len(msg \o mark) = n + 1
          /\ \A i \in 1..(n + 1) : (msg \o mark)[i] = IF i <= n THEN msg[i] ELSE Mark
      BY <3>1, <3>2
    <3> QED BY <3>4 DEF mark
  <2> HIDE DEF m1
  <2>4. /\ m2 \in Seq(Byte) /\ Len(m2) = n + 1 + g
        /\ \A i \in 1..(n + 1 + g) : m2[i] = IF i <= n + 1 THEN m1[i] ELSE <<"pad", 0>>
    <3>1. /\ m2 \in Seq(Byte) /\ Len(m2) = Len(m1) + Len(zeros)
          /\ \A i \in 1..(Len(m1) + Len(zeros)) :
               m2[i] = IF i <= Len(m1) THEN m1[i] ELSE zeros[i - Len(m1)]
      BY <2>2, <2>3, ConcatProperties
    <3>2. ASSUME NEW i \in 1..(n + 1 + g), ~(i <= n + 1) PROVE i - (n + 1) \in 1..g
      BY <3>2, <2>1
    <3> QED BY <3>1, <3>2, <2>2, <2>3
  <2> HIDE DEF m2
  <2>5. /\ m3 \in Seq(Byte) /\ Len(m3) = (n + 1 + g) + C
        /\ \A i \in 1..((n + 1 + g) + C) : m3[i] = IF i <= n + 1 + g THEN m2[i] ELSE len
    <3>a. m2 \in Seq(Byte) /\ length \in Seq(Byte)
      BY <2>2, <2>4
    <3>1. /\ m3 \in Seq(Byte) /\ Len(m3) = Len(m2) + Len(length)
          /\ \A i \in 1..(Len(m2) + Len(length)) :
               m3[i] = IF i <= Len(m2) THEN m2[i] ELSE length[i - Len(m2)]
      BY <3>a
    <3>2. ASSUME NEW i \in 1..((n + 1 + g) + C), ~(i <= n + 1 + g) PROVE i - (n + 1 + g) \in 1..C
      BY <3>2, <1>3, <2>1
    <3> QED BY <3>1, <3>2, <2>2, <2>4
  <2>6. Padded(msg) = m3
    BY DEF Padded, g, zeros, length, m1, m2
  <2> HIDE DEF m3
  <2>7. Len(m3) = Len(hashed')
    BY <2>1, <2>5, <1>3, <1>5
  <2>a. /\ h \in Nat /\ offset \in Nat /\ g \in Nat /\ C \in Nat /\ n = h + offset
        /\ offset + 1 <= room /\ g = room - (offset + 1)
    BY <2>1, <1>3
  <2>8. ASSUME NEW i \in 1..Len(hashed') PROVE hashed'[i] = m3[i]
    <3>1. i \in Nat /\ 1 <= i /\ i \in 1..(h + (room + C)) /\ i \in 1..((n + 1 + g) + C)
      BY <2>5, <2>7, <1>5
    <3>2. CASE i <= h
      <4>1. i \in 1..h /\ i <= n /\ i <= n + 1 /\ i <= n + 1 + g /\ i \in 1..(n + 1) /\ i \in 1..(n + 1 + g)
        BY <3>2, <2>a
      <4> QED BY <3>1, <3>2, <4>1, <1>3, <1>5, <2>3, <2>4, <2>5
    <3>3. CASE h < i
      <4> DEFINE k == i - h
      <4>1. k \in 1..(room + C) /\ ~(i <= h) /\ h + k = i
        BY <3>1, <3>3, <1>3
      <4> HIDE DEF k
      <4>2. hashed'[i] = Ending(room)[k]
        BY <4>1, <1>2, <1>5 DEF k
      <4>3. Ending(room)[k] = IF k <= offset THEN buffer[k]
                              ELSE IF k = offset + 1 THEN Mark
                              ELSE IF k <= room THEN <<"pad", 0>> ELSE len
        BY <4>1 DEF Ending
      <4>4. CASE k <= offset
        <5>1. k \in 1..offset /\ i <= n /\ i <= n + 1 /\ i <= n + 1 + g /\ i \in 1..(n + 1) /\ i \in 1..(n + 1 + g)
          BY <4>1, <4>4, <2>a
        <5>2. buffer[k] = msg[i]
          BY <5>1, <4>1, <1>3
        <5> QED BY <3>1, <4>2, <4>3, <5>1, <5>2, <2>3, <2>4, <2>5
      <4>5. CASE k = offset + 1
        <5>1. ~(k <= offset) /\ i = n + 1 /\ ~(i <= n) /\ i <= n + 1 /\ i <= n + 1 + g /\ i \in 1..(n + 1) /\ i \in 1..(n + 1 + g)
          BY <4>1, <4>5, <2>a
        <5> QED BY <3>1, <4>2, <4>3, <4>5, <5>1, <2>3, <2>4, <2>5
      <4>6. CASE offset + 1 < k /\ k <= room
        <5>1. ~(k <= offset) /\ k # offset + 1 /\ ~(i <= n + 1) /\ i <= n + 1 + g /\ i \in 1..(n + 1 + g)
          BY <4>1, <4>6, <2>a
        <5> QED BY <3>1, <4>2, <4>3, <4>6, <5>1, <2>4, <2>5
      <4>7. CASE room < k
        <5>1. ~(k <= offset) /\ k # offset + 1 /\ ~(k <= room) /\ ~(i <= n + 1 + g)
          BY <4>1, <4>7, <2>a
        <5> QED BY <3>1, <4>2, <4>3, <5>1, <2>5
      <4>8. k <= offset \/ k = offset + 1 \/ (offset + 1 < k /\ k <= room) \/ room < k
        BY <4>1, <1>3
      <4> QED BY <4>4, <4>5, <4>6, <4>7, <4>8
    <3> QED BY <3>2, <3>3
  <2> QED BY <2>5, <2>6, <2>7, <2>8, <1>5
<1>11. Typed'
  <2>1. UNCHANGED <<offset, counter, next, msg>> /\ final' \in BOOLEAN
    BY <1>1
  <2> QED BY <1>1, <1>5, <1>8 DEF Typed
<1> QED BY <1>1, <1>7, <1>10, <1>11 DEF Inv

-----------------------------------------------------------------------------
LEMMA InitHolds == ASSUME HashAssumption PROVE HashInit => Inv
<1> SUFFICES ASSUME HashInit PROVE Inv
  OBVIOUS
<1>1. /\ hashed = <<>> /\ msg = <<>> /\ offset = 0 /\ counter = 0 /\ next = 1 /\ final = FALSE
      /\ buffer = [i \in 1..BlockSize |-> Junk]
  BY DEF HashInit
<1>2. /\ hashed \in Seq(Byte) /\ msg \in Seq(Byte) /\ Len(hashed) = 0 /\ Len(msg) = 0
  BY <1>1
<1>3. /\ 0 % BlockSize = 0 /\ 0 % CountMod = 0 /\ 0 \in 0..(BlockSize - 1)
      /\ 0 \in 0..(CountMod - 1)
  BY Sizes
<1>4. Junk \in Byte
  BY DEF Junk, Byte
<1>5. Typed
  <2>1. buffer \in Blocks
    BY <1>1, <1>4 DEF Blocks
  <2>2. 1 \in Nat \ {0} /\ FALSE \in BOOLEAN
    OBVIOUS
  <2> QED BY <2>1, <2>2, <1>1, <1>2, <1>3 DEF Typed
<1>6. Holds
  BY <1>1, <1>3 DEF Holds
<1> QED BY <1>1, <1>3, <1>5, <1>6 DEF Inv

LEMMA NextHolds == ASSUME HashAssumption PROVE Inv /\ [HashNext]_hashVars => Inv'
<1> SUFFICES ASSUME Inv, [HashNext]_hashVars PROVE Inv'
  OBVIOUS
<1>1. ASSUME NEW n \in 0..MaxPiece, Update(n) PROVE Inv'
  <2> DEFINE s == Fresh(n)
  <2>1. n \in Nat
    BY DEF HashAssumption
  <2>2. Typed /\ Holds /\ ~final /\ Len(hashed) % BlockSize = 0
    BY <1>1 DEF Inv, Update
  <2>3. s \in Seq(Byte) /\ Len(s) = n
    BY <2>2, FreshIs
  <2>4. /\ Keep(s) \/ Absorb(s)
        /\ msg' = msg \o s /\ next' = next + n /\ final' = final
    BY <1>1 DEF Update
  <2> HIDE DEF s
  <2>5. next' \in Nat \ {0} /\ msg' \in Seq(Byte)
    BY <2>2, <2>3, <2>4 DEF Typed
  <2>6. CASE Keep(s)
    <3>1. /\ Holds' /\ buffer' \in Blocks /\ hashed' = hashed
          /\ offset' \in 0..(BlockSize - 1) /\ counter' = counter
      BY <2>2, <2>3, <2>4, <2>6, KeepHolds
    <3>2. Typed'
      BY <3>1, <2>2, <2>4, <2>5 DEF Typed
    <3> QED BY <3>1, <3>2, <2>2, <2>4 DEF Inv
  <2>7. CASE Absorb(s)
    <3>1. /\ Holds' /\ buffer' \in Blocks /\ hashed' \in Seq(Byte)
          /\ Len(hashed') % BlockSize = 0
          /\ offset' \in 0..(BlockSize - 1) /\ counter' \in 0..(CountMod - 1)
      BY <2>2, <2>3, <2>4, <2>7, AbsorbHolds
    <3>2. Typed'
      BY <3>1, <2>2, <2>4, <2>5 DEF Typed
    <3> QED BY <3>1, <3>2, <2>2, <2>4 DEF Inv
  <2> QED BY <2>4, <2>6, <2>7
<1>2. CASE DoFinal
  BY <1>2, DoFinalHolds
<1>3. CASE Reset
  <2>1. /\ hashed' = <<>> /\ counter' = 0 /\ offset' = 0 /\ msg' = <<>> /\ final' = FALSE
        /\ buffer' = buffer /\ next' = next /\ Typed
    BY <1>3 DEF Reset, Inv
  <2>2. /\ hashed' \in Seq(Byte) /\ msg' \in Seq(Byte) /\ Len(hashed') = 0 /\ Len(msg') = 0
    BY <2>1
  <2>3. /\ 0 % BlockSize = 0 /\ 0 % CountMod = 0 /\ 0 \in 0..(BlockSize - 1)
        /\ 0 \in 0..(CountMod - 1)
    BY Sizes
  <2>4. Typed'
    BY <2>1, <2>2, <2>3 DEF Typed
  <2>5. Holds'
    BY <2>1, <2>3 DEF Holds
  <2> QED BY <2>1, <2>3, <2>4, <2>5 DEF Inv
<1>4. CASE UNCHANGED hashVars
  <2>1. UNCHANGED <<hashed, buffer, offset, counter, next, msg, final>>
    BY <1>4 DEF hashVars
  <2>2. UNCHANGED <<Typed, Holds>> /\ Padded(msg') = Padded(msg)
    BY <2>1 DEF Typed, Holds
  <2> QED BY <2>1, <2>2 DEF Inv
<1> QED BY <1>1, <1>2, <1>3, <1>4 DEF HashNext

LEMMA InvIsEnough == ASSUME HashAssumption PROVE Inv => DigestOfMessage
<1> SUFFICES ASSUME Inv PROVE DigestOfMessage
  OBVIOUS
<1>1. Typed /\ BlockSize \in Nat \ {0} /\ CountMod \in Nat \ {0}
  BY Sizes DEF Inv
<1>2. Absorbed
  <2> SUFFICES ASSUME ~final PROVE Absorbed
    BY DEF Absorbed
  <2> DEFINE h == Len(hashed)
             kept == SubSeq(buffer, 1, offset)
  <2>1. /\ h \in Nat /\ offset \in Nat /\ offset < BlockSize /\ Len(msg) = h + offset
        /\ \A i \in 1..h : hashed[i] = msg[i]
        /\ \A i \in 1..offset : buffer[i] = msg[h + i]
        /\ counter = h % CountMod
    BY <1>1 DEF Inv, Holds, Typed
  <2>2. \A i \in 1..offset : buffer[i] \in Byte
    BY <1>1 DEF Typed, Blocks
  <2>3. kept \in Seq(Byte) /\ Len(kept) = offset /\ \A i \in 1..offset : kept[i] = buffer[i]
    <3>1. /\ kept \in Seq(Byte) /\ Len(kept) = (IF 1 <= offset THEN offset - 1 + 1 ELSE 0)
          /\ \A i \in 1..(offset - 1 + 1) : kept[i] = buffer[1 + i - 1]
      BY <2>1, <2>2
    <3> HIDE DEF kept
    <3>2. offset - 1 + 1 = offset /\ \A i \in 1..offset : 1 + i - 1 = i
      BY <2>1
    <3> QED BY <3>1, <2>1
  <2> HIDE DEF kept
  <2> DEFINE all == hashed \o kept
  <2>4. /\ all \in Seq(Byte) /\ Len(all) = h + offset
        /\ \A i \in 1..(h + offset) : all[i] = IF i <= h THEN hashed[i] ELSE kept[i - h]
    <3>1. /\ all \in Seq(Byte) /\ Len(all) = h + Len(kept)
          /\ \A i \in 1..(h + Len(kept)) : all[i] = IF i <= h THEN hashed[i] ELSE kept[i - h]
      BY <2>3, <1>1 DEF Typed
    <3> QED BY <3>1, <2>3
  <2> HIDE DEF all
  <2>5. ASSUME NEW i \in 1..Len(all) PROVE all[i] = msg[i]
    <3>1. i \in 1..(h + offset) /\ (i <= h => i \in 1..h)
          /\ (~(i <= h) => i - h \in 1..offset /\ h + (i - h) = i)
      BY <2>1, <2>4
    <3>2. CASE i <= h
      BY <3>2, <2>1, <2>4
    <3>3. CASE ~(i <= h)
      <4>1. all[i] = buffer[i - h]
        BY <3>3, <2>3, <2>4
      <4>2. buffer[i - h] = msg[h + (i - h)]
        BY <3>1, <3>3, <2>1
      <4> QED BY <4>1, <4>2
    <3> QED BY <3>2, <3>3
  <2>6. all = msg
    BY <2>1, <2>4, <2>5, <1>1 DEF Typed
  <2> QED BY <2>1, <2>6 DEF Absorbed, all
<1>3. HashTypeOK
  <2>1. Len(buffer) = BlockSize
    BY <1>1 DEF Typed, Blocks
  <2> QED BY <2>1 DEF HashTypeOK, Inv, Typed
<1>4. DigestIsPadded
  BY DEF Inv, DigestIsPadded
<1> QED BY <1>2, <1>3, <1>4 DEF DigestOfMessage

\* However a message is cut and whatever went through the context before, what
\* has been hashed and what is kept are its bytes in order, and the digest is
\* that of the message padded as the standards say.
THEOREM DigestIsOfMessage == ASSUME HashAssumption PROVE HashSpec => []DigestOfMessage
<1>1. HashInit => Inv
  BY InitHolds
<1>2. Inv /\ [HashNext]_hashVars => Inv'
  BY NextHolds
<1>3. Inv => DigestOfMessage
  BY InvIsEnough
<1> QED BY <1>1, <1>2, <1>3, PTL DEF HashSpec
=============================================================================
