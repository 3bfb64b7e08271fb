---------------------------- MODULE Buffers_proofs ----------------------------
(***************************************************************************)
(* Proofs about OBuffer, for every size of the put area and every bound,   *)
(* and about IBuffer, for every size of the get area and of a character,   *)
(* for any amount of data and any number of failures.                      *)
(***************************************************************************)
EXTENDS MCBuffers, Basics_proofs, SequenceTheorems, TLAPS

-----------------------------------------------------------------------------
(* The put area. *)

(* Sequences of characters. *)

\* Concatenation is associative.
LEMMA Associative == \A s, t, u \in Seq(Nat) : (s \o t) \o u = s \o (t \o u)
<1> DEFINE A(S) == \A s, t, u \in Seq(S) : (s \o t) \o u = s \o (t \o u)
<1>1. \A S : A(S)
  BY Zenon, ConcatAssociative
<1> HIDE DEF A
<1>2. A(Nat)
  BY Zenon, <1>1
<1> QED BY <1>2 DEF A

\* The characters of a concatenation are those of its parts.
LEMMA ToSetConcat ==
  ASSUME NEW s \in Seq(Nat), NEW t \in Seq(Nat)
  PROVE  ToSet(s \o t) = ToSet(s) \cup ToSet(t)
<1>1. /\ DOMAIN s = 1..Len(s) /\ DOMAIN t = 1..Len(t)
      /\ Len(s) \in Nat /\ Len(t) \in Nat
      /\ s \o t \in Seq(Nat)
      /\ DOMAIN (s \o t) = 1..(Len(s) + Len(t))
      /\ \A i \in 1..(Len(s) + Len(t)) :
           (s \o t)[i] = IF i <= Len(s) THEN s[i] ELSE t[i - Len(s)]
  BY ConcatProperties, LenProperties
<1>2. ToSet(s \o t) \subseteq ToSet(s) \cup ToSet(t)
  <2>1. ASSUME NEW i \in 1..(Len(s) + Len(t))
        PROVE  (s \o t)[i] \in ToSet(s) \cup ToSet(t)
    <3>1. CASE i <= Len(s)
      <4>1. i \in 1..Len(s) /\ (s \o t)[i] = s[i]
        BY <1>1, <3>1
      <4>2. s[i] \in ToSet(s)
        BY <1>1, <4>1 DEF ToSet
      <4> QED BY <4>1, <4>2
    <3>2. CASE i > Len(s)
      <4>1. i - Len(s) \in 1..Len(t)
        BY <1>1, <3>2
      <4>2. (s \o t)[i] = t[i - Len(s)]
        BY <1>1, <3>2
      <4> QED BY <1>1, <4>1, <4>2 DEF ToSet
    <3> QED BY <1>1, <3>1, <3>2
  <2> QED BY <1>1, <2>1 DEF ToSet
<1>3. ToSet(s) \subseteq ToSet(s \o t)
  <2>1. ASSUME NEW i \in 1..Len(s)
        PROVE  s[i] \in ToSet(s \o t)
    <3>1. i \in 1..(Len(s) + Len(t)) /\ (s \o t)[i] = s[i]
      BY <1>1
    <3> QED BY <1>1, <3>1 DEF ToSet
  <2> QED BY <1>1, <2>1 DEF ToSet
<1>4. ToSet(t) \subseteq ToSet(s \o t)
  <2>1. ASSUME NEW i \in 1..Len(t)
        PROVE  t[i] \in ToSet(s \o t)
    <3>1. i + Len(s) \in 1..(Len(s) + Len(t)) /\ (s \o t)[i + Len(s)] = t[i]
      BY <1>1
    <3> QED BY <1>1, <3>1 DEF ToSet
  <2> QED BY <1>1, <2>1 DEF ToSet
<1> QED BY <1>2, <1>3, <1>4

\* A piece of a sequence has its characters.
LEMMA ToSetSubSeq ==
  ASSUME NEW s \in Seq(Nat), NEW i \in 1..(Len(s) + 1), NEW j \in 0..Len(s)
  PROVE  /\ SubSeq(s, i, j) \in Seq(Nat)
         /\ Len(SubSeq(s, i, j)) = IF i <= j THEN j - i + 1 ELSE 0
         /\ ToSet(SubSeq(s, i, j)) \subseteq ToSet(s)
<1> DEFINE p == SubSeq(s, i, j)
<1>1. Len(s) \in Nat /\ DOMAIN s = 1..Len(s) /\ \A m \in 1..Len(s) : s[m] \in Nat
  BY LenProperties, ElementOfSeq
<1>2. /\ p \in Seq(Nat)
      /\ Len(p) = IF i <= j THEN j - i + 1 ELSE 0
      /\ \A m \in 1..(j - i + 1) : p[m] = s[i + m - 1]
  BY <1>1, SubSeqProperties
<1>3. \A m \in 1..Len(p) : i + m - 1 \in 1..Len(s) /\ p[m] = s[i + m - 1]
  BY <1>1, <1>2
<1>4. DOMAIN p = 1..Len(p)
  BY <1>2, LenProperties
<1> QED BY <1>1, <1>2, <1>3, <1>4 DEF ToSet

\* A first part of a sequence is a sequence of its characters.
LEMMA FirstProperties ==
  ASSUME NEW s \in Seq(Nat), NEW k \in 0..Len(s)
  PROVE  /\ First(s, k) \in Seq(Nat)
         /\ Len(First(s, k)) = k
         /\ ToSet(First(s, k)) \subseteq ToSet(s)
<1>1. Len(s) \in Nat
  BY LenProperties
<1> QED BY <1>1, ToSetSubSeq DEF First

\* The empty sequence has no characters.
LEMMA ToSetEmpty == ToSet(<<>>) = {} /\ <<>> \in Seq(Nat) /\ Len(<<>>) = 0
BY EmptySeq DEF ToSet

\* Characters numbered from m on.
LEMMA Numbered ==
  ASSUME NEW m \in Nat, NEW n \in Nat, NEW s, s = [i \in 1..n |-> m + i - 1]
  PROVE  /\ s \in Seq(Nat)
         /\ Len(s) = n
         /\ ToSet(s) = m..(m + n - 1)
<1>1. \A i \in 1..n : m + i - 1 \in Nat
  OBVIOUS
<1>2. s \in [1..n -> Nat]
  BY <1>1
<1>3. s \in Seq(Nat) /\ Len(s) = n
  BY <1>2
<1>4. ToSet(s) = {m + i - 1 : i \in 1..n}
  BY DEF ToSet
<1>5. {m + i - 1 : i \in 1..n} = m..(m + n - 1)
  <2>1. ASSUME NEW c \in m..(m + n - 1)
        PROVE  c \in {m + i - 1 : i \in 1..n}
    <3>1. c - m + 1 \in 1..n /\ c = m + (c - m + 1) - 1
      OBVIOUS
    <3> QED BY <3>1
  <2>2. ASSUME NEW i \in 1..n
        PROVE  m + i - 1 \in m..(m + n - 1)
    OBVIOUS
  <2>3. {m + i - 1 : i \in 1..n} \subseteq m..(m + n - 1)
    BY <2>2
  <2>4. m..(m + n - 1) \subseteq {m + i - 1 : i \in 1..n}
    BY <2>1
  <2> QED BY <2>3, <2>4
<1> QED BY <1>3, <1>4, <1>5

\* Fresh(n) is n characters, numbered from next on.
LEMMA FreshProperties ==
  ASSUME next \in Nat, NEW n \in Nat
  PROVE  /\ Fresh(n) \in Seq(Nat)
         /\ Len(Fresh(n)) = n
         /\ ToSet(Fresh(n)) = next..(next + n - 1)
<1>1. Fresh(n) = [i \in 1..n |-> next + i - 1]
  BY DEF Fresh
<1> QED BY <1>1, Numbered

-----------------------------------------------------------------------------
(***************************************************************************)
(* The inductive invariant.  NoLoss needs that nothing is sealed or        *)
(* written after a destructor lost the put area; NoStray needs that the    *)
(* numbers of the current handle start no later than next.  With gathered  *)
(* writes that may stop inside the put area the code loses characters, so  *)
(* the last part holds only without them.                                  *)
(***************************************************************************)

Delivered == NoLoss /\ SealedNoLoss /\ InOrder

IInv ==
  /\ TypeOK
  /\ base <= next
  /\ NoStray
  /\ lost => hstate = "dead"
  /\ ~ShortGather => Delivered

USE BufSizeAssumption, ShortGatherAssumption

\* The invariant holds initially.
LEMMA InitInvariant == Init => IInv
<1> SUFFICES ASSUME Init PROVE IInv
  OBVIOUS
<1>1. /\ alloc = FALSE /\ pend = <<>> /\ dev = <<>> /\ acc = <<>> /\ hstate = "open"
      /\ next = 1 /\ base = 1 /\ errs = 0 /\ lost = FALSE /\ sealed = {}
  BY DEF Init
<1>2. TypeOK
  <2>1. Len(pend) <= IF alloc THEN BufSize ELSE 0
    BY <1>1, ToSetEmpty
  <2>2. \A e \in sealed : e.acc \in Seq(Nat) /\ e.dev \in Seq(Nat)
    BY <1>1
  <2> QED BY <1>1, <2>1, <2>2, ToSetEmpty DEF TypeOK
<1>3. NoStray
  BY <1>1, ToSetEmpty DEF NoStray
<1>4. Delivered
  <2>1. NoLoss /\ SealedNoLoss
    BY <1>1, ToSetEmpty DEF NoLoss, SealedNoLoss
  <2>2. InOrder
    BY <1>1, ToSetEmpty, ConcatEmptySeq DEF InOrder
  <2> QED BY <2>1, <2>2 DEF Delivered
<1> QED BY <1>1, <1>2, <1>3, <1>4 DEF IInv

-----------------------------------------------------------------------------
(* The two ways a call ends: it reports what it wrote, or it throws. *)

\* A call that reports n characters and puts them behind all the others, in
\* the handle or the put area, preserves the invariant.
LEMMA AcceptPreserves ==
  ASSUME IInv, NEW n \in Nat, Accept(n), UNCHANGED <<errs, history>>,
         alloc' \in BOOLEAN, dev' \in Seq(Nat), pend' \in Seq(Nat),
         Len(pend') <= IF alloc' THEN BufSize ELSE 0,
         dev' \o pend' = (dev \o pend) \o Fresh(n)
  PROVE  IInv'
<1>1. /\ dev \in Seq(Nat) /\ pend \in Seq(Nat) /\ acc \in Seq(Nat)
      /\ next \in Nat /\ base \in Nat /\ base <= next
  BY DEF IInv, TypeOK
<1>2. /\ acc' = acc \o Fresh(n) /\ next' = next + n
      /\ errs' = errs /\ hstate' = hstate /\ lost' = lost
      /\ sealed' = sealed /\ base' = base
  BY DEF Accept, history
<1>3. /\ Fresh(n) \in Seq(Nat)
      /\ ToSet(Fresh(n)) = next..(next + n - 1)
  BY <1>1, FreshProperties
<1>4. ToSet(dev') \cup ToSet(pend') = ToSet(dev) \cup ToSet(pend) \cup ToSet(Fresh(n))
  <2>1. dev \o pend \in Seq(Nat)
    BY <1>1, ConcatProperties
  <2>2. ToSet((dev \o pend) \o Fresh(n)) = ToSet(dev) \cup ToSet(pend) \cup ToSet(Fresh(n))
    <3>1. ToSet((dev \o pend) \o Fresh(n)) = ToSet(dev \o pend) \cup ToSet(Fresh(n))
      BY <1>3, <2>1, ToSetConcat
    <3>2. ToSet(dev \o pend) = ToSet(dev) \cup ToSet(pend)
      BY <1>1, ToSetConcat
    <3> QED BY <3>1, <3>2
  <2>3. ToSet(dev' \o pend') = ToSet(dev') \cup ToSet(pend')
    BY ToSetConcat
  <2> QED BY <2>2, <2>3
<1>5. acc' \in Seq(Nat) /\ ToSet(acc') = ToSet(acc) \cup ToSet(Fresh(n))
  BY <1>1, <1>2, <1>3, ToSetConcat, ConcatProperties
<1>6. TypeOK'
  BY <1>1, <1>2, <1>5 DEF IInv, TypeOK
<1>7. NoStray'
  <2>1. ToSet(dev) \cup ToSet(pend) \subseteq base..(next - 1)
    BY DEF IInv, NoStray
  <2>2. base..(next - 1) \subseteq base..(next + n - 1) /\ next..(next + n - 1) \subseteq base..(next + n - 1)
    BY <1>1
  <2>3. base'..(next' - 1) = base..(next + n - 1)
    BY <1>1, <1>2
  <2>4. ToSet(dev') \cup ToSet(pend') \subseteq base..(next + n - 1)
    BY <1>3, <1>4, <2>1, <2>2
  <2> QED BY <2>3, <2>4 DEF NoStray
<1>8. ASSUME Delivered PROVE Delivered'
  <2>1. NoLoss'
    BY <1>2, <1>4, <1>5, <1>8 DEF Delivered, NoLoss
  <2>2. SealedNoLoss'
    BY <1>2, <1>8 DEF Delivered, SealedNoLoss
  <2>3. InOrder'
    BY <1>2, <1>8 DEF Delivered, InOrder
  <2> QED BY <2>1, <2>2, <2>3 DEF Delivered
<1> QED BY <1>1, <1>2, <1>6, <1>7, <1>8 DEF IInv

\* A call that throws after the handle took some of the put area and of the
\* failed request, and that leaves the put area alone, preserves it too.
LEMMA RejectPreserves ==
  ASSUME IInv, NEW n \in Nat, Reject(n), NEW s \in Seq(Nat), Breaks(s),
         ToSet(s) \subseteq ToSet(pend) \cup next..(next + n - 1),
         UNCHANGED <<alloc, pend, history>>
  PROVE  IInv'
<1>1. /\ dev \in Seq(Nat) /\ pend \in Seq(Nat) /\ acc \in Seq(Nat)
      /\ next \in Nat /\ base \in Nat /\ base <= next /\ errs \in Nat
  BY DEF IInv, TypeOK
<1>2. /\ acc' = acc /\ next' = next + n /\ errs' = errs + 1
      /\ alloc' = alloc /\ pend' = pend
      /\ hstate' = hstate /\ lost' = lost /\ sealed' = sealed /\ base' = base
  BY DEF Reject, history
<1>3. PICK k \in 0..(Len(s) - 1) : dev' = dev \o First(s, k)
  BY DEF Breaks
<1>4. k \in 0..Len(s)
  BY LenProperties
<1>5. First(s, k) \in Seq(Nat) /\ ToSet(First(s, k)) \subseteq ToSet(s)
  BY <1>4, FirstProperties
<1>6. dev' \in Seq(Nat) /\ ToSet(dev') = ToSet(dev) \cup ToSet(First(s, k))
  BY <1>1, <1>3, <1>5, ConcatProperties, ToSetConcat
<1>7. TypeOK'
  BY <1>1, <1>2, <1>6 DEF IInv, TypeOK
<1>8. NoStray'
  <2>1. ToSet(dev) \cup ToSet(pend) \subseteq base..(next - 1)
    BY DEF IInv, NoStray
  <2>2. base..(next - 1) \subseteq base..(next + n - 1) /\ next..(next + n - 1) \subseteq base..(next + n - 1)
    BY <1>1
  <2>3. base'..(next' - 1) = base..(next + n - 1)
    BY <1>1, <1>2
  <2>4. ToSet(dev') \cup ToSet(pend) \subseteq base..(next + n - 1)
    BY <1>5, <1>6, <2>1, <2>2
  <2> QED BY <1>2, <2>3, <2>4 DEF NoStray
<1>9. ASSUME Delivered PROVE Delivered'
  <2>1. NoLoss'
    BY <1>2, <1>6, <1>9 DEF Delivered, NoLoss
  <2>2. SealedNoLoss'
    BY <1>2, <1>9 DEF Delivered, SealedNoLoss
  <2>3. InOrder'
    BY <1>1, <1>2 DEF InOrder
  <2> QED BY <2>1, <2>2, <2>3 DEF Delivered
<1> QED BY <1>1, <1>2, <1>7, <1>8, <1>9 DEF IInv

-----------------------------------------------------------------------------
(* The writing operations. *)

LEMMA PutInBufferStep ==
  ASSUME IInv, NEW n \in Nat, PutInBuffer(n), UNCHANGED history
  PROVE  IInv'
<1>1. /\ dev \in Seq(Nat) /\ pend \in Seq(Nat) /\ alloc \in BOOLEAN /\ next \in Nat
      /\ Len(pend) <= IF alloc THEN BufSize ELSE 0
  BY DEF IInv, TypeOK
<1>2. /\ n <= Remaining /\ pend' = pend \o Fresh(n) /\ Accept(n)
      /\ alloc' = alloc /\ dev' = dev /\ errs' = errs
  BY DEF PutInBuffer
<1>3. Fresh(n) \in Seq(Nat) /\ Len(Fresh(n)) = n
  BY <1>1, FreshProperties
<1>4. pend' \in Seq(Nat) /\ Len(pend') = Len(pend) + n
  BY <1>1, <1>2, <1>3, ConcatProperties
<1>5. Len(pend') <= IF alloc' THEN BufSize ELSE 0
  BY <1>1, <1>2, <1>4, LenProperties DEF Remaining
<1>6. dev' \o pend' = (dev \o pend) \o Fresh(n)
  <2>1. \A s, t, u \in Seq(Nat) : (s \o t) \o u = s \o (t \o u)
    BY Associative
  <2>2. (dev \o pend) \o Fresh(n) = dev \o (pend \o Fresh(n))
    BY <1>1, <1>3, <2>1
  <2> QED BY <1>2, <2>2
<1> QED BY <1>1, <1>2, <1>4, <1>5, <1>6, AcceptPreserves

LEMMA AllocateAndPutStep ==
  ASSUME IInv, NEW n \in Nat, AllocateAndPut(n), UNCHANGED history
  PROVE  IInv'
<1>1. /\ dev \in Seq(Nat) /\ pend \in Seq(Nat) /\ next \in Nat
      /\ Len(pend) <= IF alloc THEN BufSize ELSE 0
  BY DEF IInv, TypeOK
<1>2. /\ ~alloc /\ n < BufSize /\ alloc' = TRUE /\ pend' = Fresh(n) /\ Accept(n)
      /\ dev' = dev /\ errs' = errs
  BY DEF AllocateAndPut
<1>3. pend = <<>>
  BY <1>1, <1>2, EmptySeq, LenProperties
<1>4. Fresh(n) \in Seq(Nat) /\ Len(Fresh(n)) = n
  BY <1>1, FreshProperties
<1>5. dev' \o pend' = (dev \o pend) \o Fresh(n)
  <2>1. dev \o pend = dev
    BY <1>1, <1>3, ConcatEqualIffEmpty
  <2>2. dev' \o pend' = dev \o Fresh(n)
    BY <1>2
  <2> QED BY <2>1, <2>2
<1>6. Len(pend') <= IF alloc' THEN BufSize ELSE 0
  BY <1>2, <1>4
<1> QED BY <1>1, <1>2, <1>4, <1>5, <1>6, AcceptPreserves

\* The put area and the first n characters of the range reach the handle.
LEMMA GatheredStep ==
  ASSUME IInv, NEW n \in Nat, dev' = dev \o pend \o Fresh(n), pend' = <<>>,
         Accept(n), UNCHANGED <<alloc, errs, history>>
  PROVE  IInv'
<1>1. /\ dev \in Seq(Nat) /\ pend \in Seq(Nat) /\ alloc \in BOOLEAN /\ next \in Nat
  BY DEF IInv, TypeOK
<1>2. Fresh(n) \in Seq(Nat)
  BY <1>1, FreshProperties
<1>3. dev \o pend \in Seq(Nat)
  BY <1>1, ConcatProperties
<1>4. dev' \in Seq(Nat) /\ dev' \o pend' = (dev \o pend) \o Fresh(n)
  BY <1>2, <1>3, ConcatProperties, ConcatEmptySeq
<1>5. pend' \in Seq(Nat) /\ Len(pend') = 0
  BY ToSetEmpty
<1>6. alloc' \in BOOLEAN /\ Len(pend') <= IF alloc' THEN BufSize ELSE 0
  BY <1>1, <1>5
<1> QED BY <1>4, <1>5, <1>6, AcceptPreserves

LEMMA WriteAllThrowsStep ==
  ASSUME IInv, NEW n \in Nat, WriteAllThrows(n), UNCHANGED history
  PROVE  IInv'
<1>1. pend \in Seq(Nat) /\ next \in Nat
  BY DEF IInv, TypeOK
<1>2. /\ Breaks(pend \o Fresh(n)) /\ Reject(n)
      /\ alloc' = alloc /\ pend' = pend
  BY DEF WriteAllThrows
<1>3. Fresh(n) \in Seq(Nat) /\ ToSet(Fresh(n)) = next..(next + n - 1)
  BY <1>1, FreshProperties
<1>4. /\ pend \o Fresh(n) \in Seq(Nat)
      /\ ToSet(pend \o Fresh(n)) = ToSet(pend) \cup next..(next + n - 1)
  BY <1>1, <1>3, ToSetConcat, ConcatProperties
<1> QED BY <1>2, <1>4, RejectPreserves

LEMMA WriteAllStep ==
  ASSUME IInv, NEW n \in 1..MaxReq, WriteAll(n)
  PROVE  IInv'
<1>1. n \in Nat /\ UNCHANGED history
  BY BoundsAssumption DEF WriteAll
<1>2. CASE PutInBuffer(n)
  BY <1>1, <1>2, PutInBufferStep
<1>3. CASE AllocateAndPut(n)
  BY <1>1, <1>3, AllocateAndPutStep
<1>4. CASE WriteAllThrough(n)
  BY <1>1, <1>4, GatheredStep DEF WriteAllThrough
<1>5. CASE WriteAllThrows(n)
  BY <1>1, <1>5, WriteAllThrowsStep
<1> QED BY <1>2, <1>3, <1>4, <1>5 DEF WriteAll

LEMMA CharPutStep ==
  ASSUME IInv, CharPut
  PROVE  IInv'
<1>1. UNCHANGED history
  BY DEF CharPut
<1>2. CASE PutInBuffer(1)
  BY <1>1, <1>2, PutInBufferStep
<1>3. CASE AllocateAndPut(1)
  BY <1>1, <1>3, AllocateAndPutStep
<1>4. CASE WriteAllThrough(1)
  BY <1>1, <1>4, GatheredStep DEF WriteAllThrough
<1>5. CASE WriteAllThrows(1)
  BY <1>1, <1>5, WriteAllThrowsStep
<1> QED BY <1>2, <1>3, <1>4, <1>5 DEF CharPut

\* The code keeps k of the buffered characters, not always the right ones.
LEMMA WrotePartOfBufferStep ==
  ASSUME IInv, WrotePartOfBuffer, UNCHANGED <<alloc, errs, history>>
  PROVE  IInv'
<1>1. /\ dev \in Seq(Nat) /\ pend \in Seq(Nat) /\ alloc \in BOOLEAN /\ acc \in Seq(Nat)
      /\ next \in Nat /\ base \in Nat /\ base <= next
      /\ Len(pend) <= IF alloc THEN BufSize ELSE 0
      /\ Len(pend) \in Nat
  BY LenProperties DEF IInv, TypeOK
<1>2. PICK k \in 1..(Len(pend) - 1) : dev' = dev \o First(pend, k) /\ pend' = Kept(k)
  BY DEF WrotePartOfBuffer
<1>3. /\ ShortGather /\ acc' = acc /\ next' = next /\ alloc' = alloc /\ errs' = errs
      /\ hstate' = hstate /\ lost' = lost /\ sealed' = sealed /\ base' = base
  BY DEF WrotePartOfBuffer, history
<1>4. First(pend, k) \in Seq(Nat) /\ ToSet(First(pend, k)) \subseteq ToSet(pend)
  <2>1. k \in 0..Len(pend)
    BY <1>1
  <2> QED BY <1>1, <2>1, FirstProperties
<1>5. dev' \in Seq(Nat) /\ ToSet(dev') = ToSet(dev) \cup ToSet(First(pend, k))
  BY <1>1, <1>2, <1>4, ConcatProperties, ToSetConcat
<1>6. Len(pend) - k + 1 \in 1..(Len(pend) + 1) /\ Len(pend) \in 0..Len(pend)
  BY <1>1, <1>2
<1>7. /\ pend' \in Seq(Nat)
      /\ Len(pend') = k
      /\ ToSet(pend') \subseteq ToSet(pend)
  <2>1. pend' = SubSeq(pend, Len(pend) - k + 1, Len(pend))
    BY <1>2 DEF Kept
  <2>2. /\ pend' \in Seq(Nat)
        /\ ToSet(pend') \subseteq ToSet(pend)
        /\ Len(pend') = IF Len(pend) - k + 1 <= Len(pend)
                        THEN Len(pend) - (Len(pend) - k + 1) + 1 ELSE 0
    BY <1>1, <1>6, <2>1, ToSetSubSeq
  <2> QED BY <1>1, <2>2
<1>8. TypeOK'
  BY <1>1, <1>2, <1>3, <1>5, <1>7 DEF IInv, TypeOK
<1>9. NoStray'
  BY <1>3, <1>4, <1>5, <1>7 DEF IInv, NoStray
<1> QED BY <1>1, <1>3, <1>8, <1>9 DEF IInv

LEMMA WriteSomeStep ==
  ASSUME IInv, NEW n \in 1..MaxReq, WriteSome(n)
  PROVE  IInv'
<1>1. n \in Nat /\ UNCHANGED history
  BY BoundsAssumption DEF WriteSome
<1>2. CASE PutInBuffer(n)
  BY <1>1, <1>2, PutInBufferStep
<1>3. CASE AllocateAndPut(n)
  BY <1>1, <1>3, AllocateAndPutStep
<1>4. CASE WriteSomeThrough(n)
  <2>1. UNCHANGED <<alloc, errs, history>>
    BY <1>1, <1>4 DEF WriteSomeThrough
  <2>2. CASE WroteBoth(n)
    BY <1>1, <2>1, <2>2, GatheredStep DEF WroteBoth
  <2>3. CASE WroteBuffer(n)
    <3>1. PICK k \in 0..(n - 1) : /\ dev' = dev \o pend \o Fresh(k)
                                 /\ pend' = <<>> /\ Accept(k)
      BY <2>3 DEF WroteBuffer
    <3>2. k \in Nat
      BY <1>1
    <3> QED BY <2>1, <3>1, <3>2, GatheredStep
  <2>4. CASE WrotePartOfBuffer
    BY <2>1, <2>4, WrotePartOfBufferStep
  <2> QED BY <1>4, <2>2, <2>3, <2>4 DEF WriteSomeThrough
<1>5. CASE WriteSomeThrows(n)
  BY <1>1, <1>5, WriteAllThrowsStep DEF WriteSomeThrows
<1> QED BY <1>2, <1>3, <1>4, <1>5 DEF WriteSome

-----------------------------------------------------------------------------
(* Flushing and the life of the handle. *)

LEMMA FlushDoneStep ==
  ASSUME IInv, FlushDone, alloc' = alloc, UNCHANGED history
  PROVE  IInv'
<1>1. /\ dev \in Seq(Nat) /\ pend \in Seq(Nat) /\ alloc \in BOOLEAN /\ acc \in Seq(Nat)
      /\ next \in Nat /\ dev \o pend \in Seq(Nat)
  BY ConcatProperties DEF IInv, TypeOK
<1>2. /\ dev' = dev \o pend /\ pend' = <<>> /\ acc' = acc /\ next' = next /\ errs' = errs
  BY DEF FlushDone
<1>3. Fresh(0) = <<>>
  <2>1. Fresh(0) \in Seq(Nat) /\ Len(Fresh(0)) = 0
    BY <1>1, FreshProperties
  <2> QED BY <2>1, EmptySeq
<1>4. Accept(0)
  <2>1. acc \o <<>> = acc
    BY <1>1, ConcatEmptySeq
  <2> QED BY <1>1, <1>2, <1>3, <2>1 DEF Accept
<1>5. dev' \o pend' = (dev \o pend) \o Fresh(0)
  BY <1>2, <1>3
<1>6. dev' \in Seq(Nat) /\ pend' \in Seq(Nat) /\ Len(pend') = 0
  BY <1>1, <1>2, ToSetEmpty
<1>7. alloc' \in BOOLEAN /\ Len(pend') <= IF alloc' THEN BufSize ELSE 0
  BY <1>1, <1>6
<1> QED BY <1>2, <1>4, <1>5, <1>6, <1>7, AcceptPreserves

LEMMA FlushThrowsStep ==
  ASSUME IInv, FlushThrows, alloc' = alloc, UNCHANGED history
  PROVE  IInv'
<1>1. pend \in Seq(Nat) /\ next \in Nat
  BY DEF IInv, TypeOK
<1>2. Breaks(pend) /\ Reject(0) /\ pend' = pend
  BY DEF FlushThrows
<1> QED BY <1>1, <1>2, RejectPreserves

LEMMA FlushStep ==
  ASSUME IInv, Flush
  PROVE  IInv'
BY FlushDoneStep, FlushThrowsStep DEF Flush

LEMMA PrepareMinimumStep ==
  ASSUME IInv, PrepareMinimum
  PROVE  IInv'
<1>1. UNCHANGED history
  BY DEF PrepareMinimum
<1>2. CASE pend = <<>> /\ alloc' = TRUE /\ UNCHANGED <<pend, dev, acc, next, errs>>
  <2>1. Len(pend) = 0
    BY <1>2, ToSetEmpty
  <2>2. TypeOK'
    BY <1>1, <1>2, <2>1 DEF IInv, TypeOK, history
  <2>3. NoStray' /\ base' <= next' /\ (lost' => hstate' = "dead")
    BY <1>1, <1>2 DEF IInv, NoStray, history
  <2>4. ASSUME Delivered PROVE Delivered'
    BY <1>1, <1>2, <2>4 DEF Delivered, NoLoss, SealedNoLoss, InOrder, history
  <2> QED BY <2>2, <2>3, <2>4 DEF IInv
<1>3. CASE pend # <<>> /\ (FlushDone \/ FlushThrows) /\ UNCHANGED alloc
  BY <1>1, <1>3, FlushDoneStep, FlushThrowsStep
<1> QED BY <1>2, <1>3 DEF PrepareMinimum

\* What is sealed had been delivered.
LEMMA SealStep ==
  ASSUME IInv, hstate = "open", Seal(dev \o pend)
  PROVE  /\ \A e \in sealed' : e.acc \in Seq(Nat) /\ e.dev \in Seq(Nat)
         /\ Delivered => SealedNoLoss'
<1>1. /\ dev \in Seq(Nat) /\ pend \in Seq(Nat) /\ acc \in Seq(Nat)
      /\ \A e \in sealed : e.acc \in Seq(Nat) /\ e.dev \in Seq(Nat)
      /\ ~lost
  BY DEF IInv, TypeOK
<1>2. /\ dev \o pend \in Seq(Nat)
      /\ ToSet(dev \o pend) = ToSet(dev) \cup ToSet(pend)
  BY <1>1, ConcatProperties, ToSetConcat
<1>3. ASSUME NEW e \in sealed' PROVE e \in sealed \/ (e.acc = acc /\ e.dev = dev \o pend)
  BY DEF Seal
<1>4. \A e \in sealed' : e.acc \in Seq(Nat) /\ e.dev \in Seq(Nat)
  BY <1>1, <1>2, <1>3
<1>5. ASSUME Delivered PROVE SealedNoLoss'
  <2>1. ToSet(acc) \subseteq ToSet(dev \o pend)
    BY <1>1, <1>2, <1>5 DEF Delivered, NoLoss
  <2> QED BY <1>3, <1>5, <2>1 DEF Delivered, SealedNoLoss
<1> QED BY <1>4, <1>5

\* The stream starts over with an empty target and an empty put area.
LEMMA StartOver ==
  ASSUME IInv, dev' = <<>>, pend' = <<>>, acc' = <<>>, next' = next, alloc' = alloc,
         lost' = lost, hstate # "dead", hstate' \in {"open", "closed"},
         base' \in Nat, base' <= next, errs' \in Nat,
         \A e \in sealed' : e.acc \in Seq(Nat) /\ e.dev \in Seq(Nat),
         Delivered => SealedNoLoss'
  PROVE  IInv'
<1>1. TypeOK'
  <2>1. Len(pend') <= IF alloc' THEN BufSize ELSE 0
    BY ToSetEmpty DEF IInv, TypeOK
  <2>2. dev' \in Seq(Nat) /\ pend' \in Seq(Nat) /\ acc' \in Seq(Nat)
    BY ToSetEmpty
  <2>3. alloc' \in BOOLEAN /\ next' \in Nat /\ lost' \in BOOLEAN
    BY DEF IInv, TypeOK
  <2> QED BY <2>1, <2>2, <2>3 DEF TypeOK
<1>2. NoStray'
  BY ToSetEmpty DEF NoStray
<1>3. ~lost'
  BY DEF IInv
<1>4. ASSUME Delivered PROVE Delivered'
  <2>1. NoLoss'
    BY ToSetEmpty DEF NoLoss
  <2>2. <<>> \o <<>> = <<>>
    BY ToSetEmpty, ConcatEmptySeq
  <2>3. InOrder'
    BY <2>2 DEF InOrder
  <2> QED BY <1>4, <2>1, <2>3 DEF Delivered
<1> QED BY <1>1, <1>2, <1>3, <1>4 DEF IInv

LEMMA CloseStep ==
  ASSUME IInv, Close
  PROVE  IInv'
<1>1. /\ hstate = "open" /\ alloc' = alloc /\ base' = base /\ lost' = lost
      /\ errs \in Nat /\ base \in Nat /\ base <= next
  BY DEF Close, IInv, TypeOK
<1>2. CASE FlushThrows /\ UNCHANGED <<hstate, sealed>>
  BY <1>1, <1>2, FlushThrowsStep DEF history
<1>3. CASE ~(FlushThrows /\ UNCHANGED <<hstate, sealed>>)
  <2>1. /\ Seal(dev \o pend) /\ hstate' = "closed"
        /\ dev' = <<>> /\ pend' = <<>> /\ acc' = <<>> /\ next' = next
        /\ errs' \in {errs} \cup {e \in {errs + 1} : e <= MaxErrs}
    BY <1>3 DEF Close
  <2>2. errs' \in Nat
    BY <1>1, <2>1
  <2> QED BY <1>1, <2>1, <2>2, SealStep, StartOver
<1> QED BY <1>2, <1>3

LEMMA ReopenStep ==
  ASSUME IInv, Reopen
  PROVE  IInv'
<1>1. /\ hstate \in {"open", "closed"} /\ alloc' = alloc /\ lost' = lost
      /\ errs \in Nat /\ base \in Nat /\ next \in Nat /\ base <= next
  BY DEF Reopen, IInv, TypeOK
<1>2. CASE FlushThrows /\ UNCHANGED <<hstate, base, sealed>>
  BY <1>1, <1>2, FlushThrowsStep DEF history
<1>3. CASE /\ dev' = dev \o pend /\ pend' = <<>> /\ Reject(0)
           /\ UNCHANGED <<hstate, base, sealed>>
  \* As a flush that succeeds, except that a failure is counted.
  <2>1. /\ dev \in Seq(Nat) /\ pend \in Seq(Nat) /\ acc \in Seq(Nat) /\ alloc \in BOOLEAN
    BY DEF IInv, TypeOK
  <2>2. /\ dev' \in Seq(Nat) /\ pend' \in Seq(Nat) /\ Len(pend') = 0
        /\ ToSet(dev') = ToSet(dev) \cup ToSet(pend) /\ ToSet(pend') = {}
    BY <1>3, <2>1, ConcatProperties, ToSetConcat, ToSetEmpty
  <2>3. acc' = acc /\ next' = next /\ errs' = errs + 1
    BY <1>1, <1>3 DEF Reject
  <2>4. TypeOK'
    BY <1>1, <1>3, <2>1, <2>2, <2>3 DEF IInv, TypeOK
  <2>5. NoStray'
    BY <1>3, <2>2, <2>3 DEF IInv, NoStray
  <2>6. ASSUME Delivered PROVE Delivered'
    <3>1. NoLoss' /\ SealedNoLoss'
      BY <1>1, <1>3, <2>2, <2>3, <2>6 DEF Delivered, NoLoss, SealedNoLoss
    <3>2. InOrder'
      BY <1>1, <2>3 DEF InOrder
    <3> QED BY <3>1, <3>2 DEF Delivered
  <2> QED BY <1>1, <1>3, <2>3, <2>4, <2>5, <2>6 DEF IInv
<1>4. CASE /\ IF hstate = "open" THEN Seal(dev \o pend) ELSE UNCHANGED sealed
           /\ hstate' = "open"
           /\ dev' = <<>> /\ pend' = <<>> /\ acc' = <<>>
           /\ base' = next
           /\ UNCHANGED <<next, errs>>
  <2>1. /\ \A e \in sealed' : e.acc \in Seq(Nat) /\ e.dev \in Seq(Nat)
        /\ Delivered => SealedNoLoss'
    <3>1. CASE hstate = "open"
      BY <1>4, <3>1, SealStep
    <3>2. CASE hstate # "open"
      BY <1>4, <3>2 DEF IInv, TypeOK, Delivered, SealedNoLoss
    <3> QED BY <3>1, <3>2
  <2> QED BY <1>1, <1>4, <2>1, StartOver
<1> QED BY <1>2, <1>3, <1>4 DEF Reopen

LEMMA DestroyStep ==
  ASSUME IInv, Destroy
  PROVE  IInv'
<1>1. /\ dev \in Seq(Nat) /\ pend \in Seq(Nat) /\ acc \in Seq(Nat) /\ errs \in Nat
  BY DEF IInv, TypeOK
<1>2. /\ pend' = <<>> /\ alloc' = FALSE /\ hstate' = "dead"
      /\ acc' = acc /\ next' = next /\ base' = base /\ sealed' = sealed
  BY DEF Destroy
<1>3. /\ dev' \in Seq(Nat)
      /\ ToSet(dev') \subseteq ToSet(dev) \cup ToSet(pend)
      /\ errs' \in Nat /\ lost' \in BOOLEAN
      /\ lost' \/ (dev' = dev \o pend /\ errs' = errs /\ lost' = lost)
      /\ lost' => (errs' = errs + 1 \/ lost)
  <2>1. CASE dev' = dev \o pend /\ UNCHANGED <<errs, lost>>
    BY <1>1, <2>1, ConcatProperties, ToSetConcat DEF IInv, TypeOK
  <2>2. CASE Breaks(pend) /\ errs' = errs + 1 /\ lost' = TRUE
    <3>1. PICK k \in 0..(Len(pend) - 1) : dev' = dev \o First(pend, k)
      BY <2>2 DEF Breaks
    <3>2. k \in 0..Len(pend)
      BY <1>1, LenProperties
    <3>3. First(pend, k) \in Seq(Nat) /\ ToSet(First(pend, k)) \subseteq ToSet(pend)
      BY <1>1, <3>2, FirstProperties
    <3>4. dev' \in Seq(Nat) /\ ToSet(dev') = ToSet(dev) \cup ToSet(First(pend, k))
      BY <1>1, <3>1, <3>3, ConcatProperties, ToSetConcat
    <3> QED BY <1>1, <2>2, <3>3, <3>4
  <2> QED BY <2>1, <2>2 DEF Destroy
<1>4. TypeOK'
  <2>1. pend' \in Seq(Nat) /\ Len(pend') <= IF alloc' THEN BufSize ELSE 0
    BY <1>2, ToSetEmpty
  <2> QED BY <1>1, <1>2, <1>3, <2>1 DEF IInv, TypeOK
<1>5. NoStray'
  BY <1>2, <1>3, ToSetEmpty DEF IInv, NoStray
<1>6. ASSUME Delivered PROVE Delivered'
  <2>1. NoLoss'
    <3>1. CASE lost'
      BY <3>1 DEF NoLoss
    <3>2. CASE ~lost'
      <4>1. ToSet(dev') = ToSet(dev) \cup ToSet(pend)
        BY <1>1, <1>3, <3>2, ToSetConcat
      <4> QED BY <1>2, <1>3, <1>6, <3>2, <4>1 DEF Delivered, NoLoss
    <3> QED BY <3>1, <3>2
  <2>2. SealedNoLoss'
    BY <1>2, <1>6 DEF Delivered, SealedNoLoss
  <2>3. InOrder'
    <3>1. ~lost
      BY DEF IInv, Destroy
    <3>2. CASE lost'
      BY <1>1, <1>3, <3>1, <3>2 DEF InOrder
    <3>3. CASE ~lost'
      <4>1. dev' \o pend' = dev \o pend
        BY <1>1, <1>2, <1>3, <3>3, ConcatProperties, ConcatEmptySeq
      <4> QED BY <1>2, <1>3, <1>6, <3>3, <4>1 DEF Delivered, InOrder
    <3> QED BY <3>2, <3>3
  <2> QED BY <2>1, <2>2, <2>3 DEF Delivered
<1> QED BY <1>2, <1>4, <1>5, <1>6 DEF IInv

-----------------------------------------------------------------------------
(* The theorems. *)

\* Every step keeps the invariant.
LEMMA NextInvariant == IInv /\ [Next]_vars => IInv'
<1> SUFFICES ASSUME IInv, [Next]_vars PROVE IInv'
  OBVIOUS
<1>1. ASSUME NEW n \in 1..MaxReq, WriteAll(n) PROVE IInv'
  BY <1>1, WriteAllStep
<1>2. ASSUME NEW n \in 1..MaxReq, WriteSome(n) PROVE IInv'
  BY <1>2, WriteSomeStep
<1>3. CASE CharPut
  BY <1>3, CharPutStep
<1>4. CASE Flush
  BY <1>4, FlushStep
<1>5. CASE PrepareMinimum
  BY <1>5, PrepareMinimumStep
<1>6. CASE Close
  BY <1>6, CloseStep
<1>7. CASE Reopen
  BY <1>7, ReopenStep
<1>8. CASE Destroy
  BY <1>8, DestroyStep
<1>9. CASE UNCHANGED vars
  BY <1>9 DEF vars, IInv, TypeOK, NoStray, Delivered, NoLoss, SealedNoLoss, InOrder
<1> QED BY <1>1, <1>2, <1>3, <1>4, <1>5, <1>6, <1>7, <1>8, <1>9 DEF Next

THEOREM Invariance == Spec => []IInv
BY InitInvariant, NextInvariant, PTL DEF Spec

\* The put area is never overrun, whatever the sizes of buffer and requests.
THEOREM TypeCorrect == Spec => []TypeOK
<1>1. IInv => TypeOK
  BY DEF IInv
<1> QED BY <1>1, Invariance, PTL

\* Nothing written for one handle reaches the next, even with gathered
\* writes that stop inside the put area.
THEOREM HandlesKeptApart == Spec => []NoStray
<1>1. IInv => NoStray
  BY DEF IInv
<1> QED BY <1>1, Invariance, PTL

\* A stream over a handle whose gathered writes take at least the put area
\* loses nothing it reported written, whenever and however often the handle
\* fails.
THEOREM NothingLost ==
  ASSUME ~ShortGather
  PROVE  Spec => []NoLoss
<1>1. IInv => NoLoss
  BY DEF IInv, Delivered
<1> QED BY <1>1, Invariance, PTL

\* What was written through a handle that the stream has closed, or let go of
\* for another one, is in that handle.
THEOREM SealedIsComplete ==
  ASSUME ~ShortGather
  PROVE  Spec => []SealedNoLoss
<1>1. IInv => SealedNoLoss
  BY DEF IInv, Delivered
<1> QED BY <1>1, Invariance, PTL

\* Until the handle fails it receives exactly the characters reported
\* written, in order and once each.
THEOREM DeliveredInOrder ==
  ASSUME ~ShortGather
  PROVE  Spec => []InOrder
<1>1. IInv => InOrder
  BY DEF IInv, Delivered
<1> QED BY <1>1, Invariance, PTL

-----------------------------------------------------------------------------
(***************************************************************************)
(* What failures can make the stream send again.                           *)
(*                                                                         *)
(* ResendInOrder is about dev \o pend, which a failing flush lengthens in   *)
(* the middle.  What every step keeps is that the put area increases, and  *)
(* that what is in it but not in the handle comes after all the handle     *)
(* has.                                                                    *)
(***************************************************************************)
Increasing(s) == \A i, j \in 1..Len(s) : i < j => s[i] < s[j]

Records(s) ==
  \A i \in 1..Len(s) : \/ \E j \in 1..(i - 1) : s[j] = s[i]
                       \/ \A j \in 1..(i - 1) : s[j] < s[i]

Follows(s, t) == \A y \in ToSet(t) : y \in ToSet(s) \/ \A x \in ToSet(s) : x < y

Orderly == Records(dev) /\ Increasing(pend) /\ Follows(dev, pend)

\* A sequence of numbers: its places and what it has there.
LEMMA Elements ==
  ASSUME NEW s \in Seq(Nat)
  PROVE  /\ Len(s) \in Nat /\ DOMAIN s = 1..Len(s)
         /\ \A i \in 1..Len(s) : s[i] \in Nat /\ s[i] \in ToSet(s)
         /\ \A x \in ToSet(s) : x \in Nat /\ \E i \in 1..Len(s) : s[i] = x
<1>1. Len(s) \in Nat /\ DOMAIN s = 1..Len(s) /\ \A i \in 1..Len(s) : s[i] \in Nat
  BY LenProperties, ElementOfSeq
<1> QED BY <1>1 DEF ToSet

\* An increasing sequence that follows one of records makes it longer.
LEMMA RecordsGrow ==
  ASSUME NEW d \in Seq(Nat), NEW p \in Seq(Nat), Records(d), Increasing(p), Follows(d, p)
  PROVE  Records(d \o p)
<1> DEFINE D == Len(d)
           a == d \o p
<1>1. /\ D \in Nat /\ Len(p) \in Nat /\ Len(a) = D + Len(p)
      /\ \A i \in 1..(D + Len(p)) : a[i] = IF i <= D THEN d[i] ELSE p[i - D]
  BY ConcatProperties, LenProperties
<1> HIDE DEF a, D
<1>2. \A i \in 1..D : i \in 1..(D + Len(p)) /\ a[i] = d[i]
  BY <1>1
<1>3. ASSUME NEW i \in 1..Len(a)
      PROVE  (\E j \in 1..(i - 1) : a[j] = a[i]) \/ (\A j \in 1..(i - 1) : a[j] < a[i])
  <2>1. CASE i <= D
    <3>1. i \in 1..D /\ \A j \in 1..(i - 1) : j \in 1..D
      BY <2>1, <1>1
    <3>2. (\E j \in 1..(i - 1) : d[j] = d[i]) \/ (\A j \in 1..(i - 1) : d[j] < d[i])
      BY <3>1 DEF Records, D
    <3>3. a[i] = d[i] /\ \A j \in 1..(i - 1) : a[j] = d[j]
      BY <3>1, <1>2
    <3> QED BY <3>2, <3>3
  <2>2. CASE ~(i <= D)
    <3> DEFINE m == i - D
    <3>1. m \in 1..Len(p) /\ a[i] = p[m] /\ \A j \in 1..D : j \in 1..(i - 1)
      BY <2>2, <1>1
    <3>2. p[m] \in ToSet(p)
      BY <3>1, Elements
    <3>3. CASE p[m] \in ToSet(d)
      <4>1. PICK j \in 1..D : d[j] = p[m]
        BY <3>3, Elements DEF D
      <4> QED BY <4>1, <3>1, <1>2
    <3>4. CASE \A x \in ToSet(d) : x < p[m]
      <4>1. ASSUME NEW j \in 1..(i - 1) PROVE a[j] < a[i]
        <5>1. CASE j <= D
          <6>1. j \in 1..D
            BY <5>1
          <6>2. d[j] \in ToSet(d)
            BY <6>1, Elements DEF D
          <6> QED BY <6>1, <6>2, <3>1, <3>4, <1>2
        <5>2. CASE ~(j <= D)
          <6>1. j - D \in 1..Len(p) /\ j - D < m /\ a[j] = p[j - D]
            BY <5>2, <2>2, <1>1
          <6>2. p[j - D] < p[m]
            BY <6>1, <3>1 DEF Increasing
          <6> QED BY <6>1, <6>2, <3>1
        <5> QED BY <5>1, <5>2
      <4> QED BY <4>1
    <3> QED BY <3>2, <3>3, <3>4 DEF Follows
  <2> QED BY <2>1, <2>2
<1> QED BY <1>3 DEF Records, a

\* A first part of an increasing sequence increases, and what the sequence
\* has beyond it comes after it.
LEMMA FirstIncreases ==
  ASSUME NEW p \in Seq(Nat), Increasing(p), NEW k \in 0..Len(p)
  PROVE  /\ Increasing(First(p, k))
         /\ \A y \in ToSet(p) : y \in ToSet(First(p, k)) \/ \A x \in ToSet(First(p, k)) : x < y
<1> DEFINE q == First(p, k)
<1>1. /\ q \in Seq(Nat) /\ Len(q) = k /\ Len(p) \in Nat /\ \A i \in 1..k : q[i] = p[i]
  <2>1. Len(p) \in Nat /\ \A i \in 1..k : p[i] \in Nat
    BY Elements
  <2>2. \A i \in 1..(k - 1 + 1) : SubSeq(p, 1, k)[i] = p[1 + i - 1]
    BY <2>1, SubSeqProperties
  <2> QED BY <2>1, <2>2, FirstProperties DEF First
<1> HIDE DEF q
<1>2. Increasing(q)
  <2>1. \A i \in 1..k : i \in 1..Len(p)
    BY <1>1
  <2>2. \A i, j \in 1..k : i < j => p[i] < p[j]
    BY <2>1 DEF Increasing
  <2>3. \A i, j \in 1..k : i < j => q[i] < q[j]
    BY <2>2, <1>1
  <2> QED BY <2>3, <1>1 DEF Increasing
<1>3. ASSUME NEW y \in ToSet(p), y \notin ToSet(q), NEW x \in ToSet(q)
      PROVE  x < y
  <2>1. PICK i \in 1..Len(p) : p[i] = y
    BY Elements
  <2>2. PICK j \in 1..k : q[j] = x
    BY <1>1, Elements
  <2>3. ~(i <= k)
    <3>1. \A h \in 1..k : q[h] \in ToSet(q)
      BY <1>1, Elements
    <3> QED BY <1>1, <1>3, <2>1, <3>1
  <2>4. j \in 1..Len(p) /\ j < i
    BY <1>1, <2>3
  <2> QED BY <1>1, <2>1, <2>2, <2>4 DEF Increasing
<1> QED BY <1>2, <1>3 DEF q

\* The handle takes a first part of what follows: what is sent once more
\* still follows.
LEMMA BreakOrderly ==
  ASSUME NEW d \in Seq(Nat), NEW p \in Seq(Nat), Records(d), Increasing(p), Follows(d, p),
         NEW k \in 0..Len(p)
  PROVE  /\ d \o First(p, k) \in Seq(Nat)
         /\ Records(d \o First(p, k))
         /\ Follows(d \o First(p, k), p)
<1> DEFINE q == First(p, k)
<1>1. q \in Seq(Nat) /\ ToSet(q) \subseteq ToSet(p) /\ Increasing(q)
  BY FirstProperties, FirstIncreases
<1>2. Follows(d, q)
  BY <1>1 DEF Follows
<1>3. \A y \in ToSet(p) : y \in ToSet(q) \/ \A x \in ToSet(q) : x < y
  BY FirstIncreases
<1> HIDE DEF q
<1>4. d \o q \in Seq(Nat) /\ ToSet(d \o q) = ToSet(d) \cup ToSet(q)
  BY <1>1, ToSetConcat, ConcatProperties
<1>5. Records(d \o q)
  BY <1>1, <1>2, RecordsGrow
<1>6. Follows(d \o q, p)
  BY <1>3, <1>4 DEF Follows
<1> QED BY <1>4, <1>5, <1>6 DEF q

\* The put area with the program's next characters behind it.
LEMMA FreshFollows ==
  ASSUME TypeOK, NoStray, Orderly, NEW n \in Nat
  PROVE  /\ pend \o Fresh(n) \in Seq(Nat) /\ ToSet(pend) \subseteq ToSet(pend \o Fresh(n))
         /\ Increasing(pend \o Fresh(n)) /\ Follows(dev, pend \o Fresh(n))
         /\ Len(pend \o Fresh(n)) = Len(pend) + n
         /\ Fresh(n) \in Seq(Nat) /\ Increasing(Fresh(n)) /\ Follows(dev, Fresh(n))
         /\ dev \o pend \o Fresh(n) = dev \o (pend \o Fresh(n))
<1>1. pend \in Seq(Nat) /\ dev \in Seq(Nat) /\ next \in Nat /\ base \in Nat
  BY DEF TypeOK
<1>2. Fresh(n) \in Seq(Nat) /\ Len(Fresh(n)) = n /\ ToSet(Fresh(n)) = next..(next + n - 1)
  BY <1>1, FreshProperties
<1>3. \A i \in 1..n : Fresh(n)[i] = next + i - 1
  BY DEF Fresh
<1>4. \A x \in ToSet(dev) \cup ToSet(pend) : x \in Nat /\ x < next
  BY <1>1 DEF NoStray
<1>5. Increasing(Fresh(n))
  BY <1>1, <1>2, <1>3 DEF Increasing
<1>6. Follows(dev, Fresh(n))
  <2>1. \A x \in ToSet(dev) : \A y \in next..(next + n - 1) : x < y
    BY <1>1, <1>4
  <2> QED BY <2>1, <1>2 DEF Follows
<1> DEFINE a == pend \o Fresh(n)
           L == Len(pend)
<1>7. /\ a \in Seq(Nat) /\ ToSet(a) = ToSet(pend) \cup ToSet(Fresh(n))
      /\ L \in Nat /\ Len(a) = L + n
      /\ \A i \in 1..(L + n) : a[i] = IF i <= L THEN pend[i] ELSE Fresh(n)[i - L]
  <2>1. ToSet(a) = ToSet(pend) \cup ToSet(Fresh(n))
    BY <1>1, <1>2, ToSetConcat
  <2>2. /\ a \in Seq(Nat) /\ Len(a) = L + Len(Fresh(n))
        /\ \A i \in 1..(L + Len(Fresh(n))) : a[i] = IF i <= L THEN pend[i] ELSE Fresh(n)[i - L]
    BY <1>1, <1>2, ConcatProperties
  <2>3. L \in Nat
    BY <1>1, LenProperties
  <2> QED BY <2>1, <2>2, <2>3, <1>2
<1>8. Follows(dev, a)
  BY <1>6, <1>7 DEF Follows, Orderly
<1>9. \A i \in 1..L : pend[i] \in Nat /\ pend[i] < next
  BY <1>1, <1>4, Elements
<1> HIDE DEF a, L
<1>10. ASSUME NEW i \in 1..Len(a), NEW j \in 1..Len(a), i < j
       PROVE  a[i] < a[j]
  <2>1. CASE j <= L
    <3>1. i \in 1..L /\ j \in 1..L /\ a[i] = pend[i] /\ a[j] = pend[j]
      BY <2>1, <1>7, <1>10
    <3>2. pend[i] < pend[j]
      BY <3>1, <1>10 DEF Orderly, Increasing, L
    <3> QED BY <3>1, <3>2
  <2>2. CASE ~(j <= L)
    <3>1. j - L \in 1..n /\ a[j] = Fresh(n)[j - L]
      BY <2>2, <1>7
    <3>2. a[j] = next + (j - L) - 1
      BY <3>1, <1>3
    <3>3. CASE i <= L
      <4>1. i \in 1..L /\ a[i] = pend[i]
        BY <3>3, <1>7
      <4>2. pend[i] \in Nat /\ pend[i] < next
        BY <4>1, <1>9
      <4>3. next <= next + (j - L) - 1
        BY <3>1, <1>1
      <4> DEFINE z == next + (j - L) - 1
      <4>4. z \in Int /\ next <= z
        BY <4>3, <3>1, <1>1
      <4> HIDE DEF z
      <4>5. pend[i] < z
        BY <4>2, <4>4, <1>1
      <4> QED BY <4>1, <4>5, <3>2 DEF z
    <3>4. CASE ~(i <= L)
      <4>1. i - L \in 1..n /\ a[i] = Fresh(n)[i - L]
        BY <3>4, <1>7
      <4>2. a[i] = next + (i - L) - 1
        BY <4>1, <1>3
      <4> QED BY <4>2, <3>2, <1>1, <1>7, <1>10
    <3> QED BY <3>3, <3>4
  <2> QED BY <2>1, <2>2
<1>11. Increasing(a)
  BY <1>10 DEF Increasing
<1>12. dev \o pend \o Fresh(n) = dev \o (pend \o Fresh(n))
  <2>1. \A f \in Seq(Nat) : (dev \o pend) \o f = dev \o (pend \o f)
    BY <1>1, Associative
  <2> QED BY <2>1, <1>2
<1> QED BY <1>2, <1>5, <1>6, <1>7, <1>8, <1>11, <1>12 DEF a, L

\* Everything in the put area reaches the handle, and n fresh characters.
LEMMA ThroughOrderly ==
  ASSUME TypeOK, NoStray, Orderly, NEW n \in Nat
  PROVE  Records(dev \o pend \o Fresh(n)) /\ Records(dev \o pend)
<1>1. dev \in Seq(Nat) /\ pend \in Seq(Nat)
  BY DEF TypeOK
<1>2. Records(dev \o pend)
  BY <1>1, RecordsGrow DEF Orderly
<1> DEFINE a == pend \o Fresh(n)
<1>3. a \in Seq(Nat) /\ Increasing(a) /\ Follows(dev, a) /\ dev \o pend \o Fresh(n) = dev \o a
  BY FreshFollows
<1> HIDE DEF a
<1>4. Records(dev \o a)
  BY <1>1, <1>3, RecordsGrow DEF Orderly
<1> QED BY <1>2, <1>3, <1>4

\* Nothing is left in the put area.
LEMMA EmptyOrderly ==
  ASSUME Records(dev'), pend' = <<>>
  PROVE  Orderly'
<1>1. ToSet(<<>>) = {} /\ Len(<<>>) = 0
  BY ToSetEmpty
<1> QED BY <1>1 DEF Orderly, Increasing, Follows

\* The handle breaks after a first part of put area and new range, and the
\* put area is kept.
LEMMA ThrowsOrderly ==
  ASSUME TypeOK, NoStray, Orderly, NEW n \in Nat, Breaks(pend \o Fresh(n)), pend' = pend
  PROVE  Orderly'
<1> DEFINE a == pend \o Fresh(n)
<1>1. /\ a \in Seq(Nat) /\ Increasing(a) /\ Follows(dev, a) /\ ToSet(pend) \subseteq ToSet(a)
  BY FreshFollows
<1>2. PICK k \in 0..(Len(a) - 1) : dev' = dev \o First(a, k)
  BY DEF Breaks
<1> HIDE DEF a
<1>3. dev \in Seq(Nat) /\ k \in 0..Len(a)
  BY <1>1, <1>2, LenProperties DEF TypeOK
<1>4. Records(dev \o First(a, k)) /\ Follows(dev \o First(a, k), a)
  BY <1>1, <1>3, BreakOrderly DEF Orderly
<1> QED BY <1>1, <1>2, <1>4 DEF Orderly, Follows

\* As before, in a flush.
LEMMA FlushThrowsOrderly ==
  ASSUME TypeOK, Orderly, Breaks(pend)
  PROVE  /\ pend' = pend => Orderly'
         /\ Records(dev')
<1>1. PICK k \in 0..(Len(pend) - 1) : dev' = dev \o First(pend, k)
  BY DEF Breaks
<1>2. dev \in Seq(Nat) /\ pend \in Seq(Nat) /\ k \in 0..Len(pend)
  BY <1>1, LenProperties DEF TypeOK
<1>3. Records(dev \o First(pend, k)) /\ Follows(dev \o First(pend, k), pend)
  BY <1>2, BreakOrderly DEF Orderly
<1> QED BY <1>1, <1>3 DEF Orderly

\* The new characters join the put area.
LEMMA PutOrderly ==
  ASSUME TypeOK, NoStray, Orderly, NEW n \in Nat, dev' = dev,
         pend' = pend \o Fresh(n) \/ pend' = Fresh(n)
  PROVE  Orderly'
BY FreshFollows DEF Orderly

\* A gathered write stops inside the put area, and the code keeps the wrong
\* characters: they are late, but in order.
LEMMA PartOrderly ==
  ASSUME TypeOK, Orderly, WrotePartOfBuffer
  PROVE  Orderly'
<1>1. PICK k \in 1..(Len(pend) - 1) : dev' = dev \o First(pend, k) /\ pend' = Kept(k)
  BY DEF WrotePartOfBuffer
<1>2. dev \in Seq(Nat) /\ pend \in Seq(Nat) /\ k \in 0..Len(pend) /\ Len(pend) \in Nat
  BY <1>1, LenProperties DEF TypeOK
<1>3. Records(dev \o First(pend, k)) /\ Follows(dev \o First(pend, k), pend)
  BY <1>2, BreakOrderly DEF Orderly
<1> DEFINE L == Len(pend)
           q == SubSeq(pend, (L - k) + 1, L)
<1>4. /\ q \in Seq(Nat) /\ ToSet(q) \subseteq ToSet(pend) /\ Len(q) = k
      /\ \A i \in 1..k : q[i] = pend[(L - k) + i]
  <2>1. (L - k) + 1 \in 1..(L + 1) /\ L \in 0..L /\ L \in Int /\ (L - k) + 1 \in Int
    BY <1>1, <1>2
  <2>2. q \in Seq(Nat) /\ ToSet(q) \subseteq ToSet(pend)
        /\ Len(q) = IF (L - k) + 1 <= L THEN L - ((L - k) + 1) + 1 ELSE 0
    BY <2>1, <1>2, ToSetSubSeq
  <2>3. (IF (L - k) + 1 <= L THEN L - ((L - k) + 1) + 1 ELSE 0) = k
    BY <1>1, <1>2
  <2>4. \A i \in 1..(L - ((L - k) + 1) + 1) : q[i] = pend[((L - k) + 1) + i - 1]
    <3>1. \A i \in ((L - k) + 1)..L : pend[i] \in Nat
      BY <1>1, <1>2, Elements
    <3> DEFINE m == (L - k) + 1
    <3>2. m \in Int /\ L \in Int /\ \A i \in m..L : pend[i] \in Nat
      BY <2>1, <3>1
    <3> HIDE DEF m, L
    <3>3. \A i \in 1..(L - m + 1) : SubSeq(pend, m, L)[i] = pend[m + i - 1]
      BY <3>2, SubSeqProperties
    <3> QED BY <3>3 DEF m, L
  <2>5. ASSUME NEW i \in 1..k
        PROVE  /\ i \in 1..(L - ((L - k) + 1) + 1)
               /\ ((L - k) + 1) + i - 1 = (L - k) + i
    BY <1>1, <1>2
  <2> QED BY <2>2, <2>3, <2>4, <2>5
<1>5. Kept(k) = q
  BY DEF Kept
<1> HIDE DEF q, L
<1>6. Increasing(q)
  <2>1. ASSUME NEW i \in 1..k, NEW j \in 1..k, i < j
        PROVE  q[i] < q[j]
    <3>1. (L - k) + i \in 1..L /\ (L - k) + j \in 1..L /\ (L - k) + i < (L - k) + j
      BY <1>1, <1>2, <2>1 DEF L
    <3>2. pend[(L - k) + i] < pend[(L - k) + j]
      BY <3>1 DEF Orderly, Increasing, L
    <3> QED BY <3>2, <1>4
  <2> QED BY <2>1, <1>4 DEF Increasing
<1>7. Follows(dev \o First(pend, k), q)
  BY <1>3, <1>4 DEF Follows
<1> QED BY <1>1, <1>3, <1>5, <1>6, <1>7 DEF Orderly

LEMMA OrderlyAtFirst == Init => Orderly
<1>1. ToSet(<<>>) = {} /\ Len(<<>>) = 0
  BY ToSetEmpty
<1> QED BY <1>1 DEF Init, Orderly, Records, Increasing, Follows

LEMMA OrderlyKept == IInv /\ Orderly /\ [Next]_vars => Orderly'
<1> SUFFICES ASSUME IInv, Orderly, [Next]_vars PROVE Orderly'
  OBVIOUS
<1>1. TypeOK /\ NoStray /\ dev \in Seq(Nat) /\ pend \in Seq(Nat)
  BY DEF IInv, TypeOK
<1>2. Records(<<>>)
  BY ToSetEmpty DEF Records
<1>3. Records(dev \o pend)
  BY <1>1, ThroughOrderly
<1>4. ASSUME NEW n \in Nat, PutInBuffer(n) \/ AllocateAndPut(n) PROVE Orderly'
  BY <1>1, <1>4, PutOrderly DEF PutInBuffer, AllocateAndPut
<1>5. ASSUME NEW n \in Nat, WriteAllThrough(n) PROVE Orderly'
  BY <1>1, <1>5, ThroughOrderly, EmptyOrderly DEF WriteAllThrough
<1>6. ASSUME NEW n \in Nat, WriteAllThrows(n) PROVE Orderly'
  BY <1>1, <1>6, ThrowsOrderly DEF WriteAllThrows
<1>7. ASSUME NEW n \in Nat, WriteSomeThrough(n) PROVE Orderly'
  <2>1. CASE WroteBoth(n)
    BY <2>1, <1>1, <1>7, ThroughOrderly, EmptyOrderly DEF WroteBoth
  <2>2. CASE WroteBuffer(n)
    <3>1. PICK k \in 0..(n - 1) : dev' = dev \o pend \o Fresh(k) /\ pend' = <<>>
      BY <2>2 DEF WroteBuffer
    <3> QED BY <3>1, <1>1, <1>7, ThroughOrderly, EmptyOrderly
  <2>3. CASE WrotePartOfBuffer
    BY <2>3, <1>1, PartOrderly
  <2> QED BY <2>1, <2>2, <2>3, <1>7 DEF WriteSomeThrough
<1>8. ASSUME NEW n \in 1..MaxReq, WriteAll(n) \/ WriteSome(n) PROVE Orderly'
  <2>1. n \in Nat
    BY BoundsAssumption
  <2> QED BY <2>1, <1>4, <1>5, <1>6, <1>7, <1>8 DEF WriteAll, WriteSome, WriteSomeThrows
<1>9. CASE CharPut
  BY <1>4, <1>5, <1>6, <1>9 DEF CharPut
<1>10. ASSUME FlushThrows PROVE Orderly'
  BY <1>1, <1>10, FlushThrowsOrderly DEF FlushThrows
<1>11. ASSUME dev' = dev \o pend, pend' = <<>> PROVE Orderly'
  BY <1>3, <1>11, EmptyOrderly
<1>12. ASSUME dev' = <<>>, pend' = <<>> PROVE Orderly'
  BY <1>2, <1>12, EmptyOrderly
<1>13. CASE Flush
  BY <1>10, <1>11, <1>13 DEF Flush, FlushDone
<1>14. CASE PrepareMinimum
  <2>1. CASE UNCHANGED <<dev, pend>>
    BY <2>1 DEF Orderly
  <2> QED BY <2>1, <1>10, <1>11, <1>14 DEF PrepareMinimum, FlushDone
<1>15. CASE Close
  BY <1>10, <1>12, <1>15 DEF Close
<1>16. CASE Reopen
  BY <1>10, <1>11, <1>12, <1>16 DEF Reopen
<1>17. CASE Destroy
  <2>1. pend' = <<>> /\ (dev' = dev \o pend \/ Breaks(pend))
    BY <1>17 DEF Destroy
  <2>2. Records(dev')
    BY <2>1, <1>1, <1>3, FlushThrowsOrderly
  <2> QED BY <2>1, <2>2, EmptyOrderly
<1>18. CASE UNCHANGED vars
  BY <1>18 DEF vars, Orderly
<1> QED BY <1>8, <1>9, <1>13, <1>14, <1>15, <1>16, <1>17, <1>18 DEF Next

\* However often the handle fails, and even with gathered writes that stop
\* inside the put area: a character that reaches the handle for the first
\* time, or waits for it in the put area, comes after all that are there.
THEOREM ResentInOrder == Spec => []ResendInOrder
<1>1. Init => IInv /\ Orderly
  BY InitInvariant, OrderlyAtFirst
<1>2. IInv /\ Orderly /\ [Next]_vars => (IInv /\ Orderly)'
  BY NextInvariant, OrderlyKept
<1>3. IInv /\ Orderly => ResendInOrder
  <2> SUFFICES ASSUME IInv, Orderly PROVE ResendInOrder
    OBVIOUS
  <2> DEFINE all == dev \o pend
  <2>1. Records(all) /\ all \in Seq(Nat)
    BY RecordsGrow, ConcatProperties DEF IInv, TypeOK, Orderly
  <2>2. DOMAIN all = 1..Len(all)
    BY <2>1, LenProperties
  <2> HIDE DEF all
  <2>3. \A i \in DOMAIN all : (\E j \in 1..(i - 1) : all[j] = all[i])
                              \/ (\A j \in 1..(i - 1) : all[j] < all[i])
    BY <2>1, <2>2 DEF Records
  <2> QED BY <2>3 DEF ResendInOrder, all
<1> QED BY <1>1, <1>2, <1>3, PTL DEF Spec

-----------------------------------------------------------------------------
(***************************************************************************)
(* The buffered output stream implements ByteSink.                         *)
(***************************************************************************)

(* Prefixes. *)

\* A sequence is a prefix of one that begins with its elements.
LEMMA PrefixByElements ==
  ASSUME NEW s \in Seq(Nat), NEW t \in Seq(Nat),
         Len(s) <= Len(t), \A i \in 1..Len(s) : s[i] = t[i]
  PROVE  IsPrefix(s, t)
<1>1. /\ Len(s) \in Nat /\ Len(t) \in Nat
      /\ \A i \in 1..Len(s) : s[i] \in Nat
      /\ \A i \in 1..Len(s) : t[i] \in Nat
  BY LenProperties, ElementOfSeq
<1> DEFINE p == SubSeq(s, 1, Len(s))
           q == SubSeq(t, 1, Len(s))
<1>2. /\ p \in Seq(Nat) /\ Len(p) = Len(s)
      /\ \A i \in 1..Len(s) : p[i] = s[i]
  BY <1>1, SubSeqProperties
<1>3. /\ q \in Seq(Nat) /\ Len(q) = Len(s)
      /\ \A i \in 1..Len(s) : q[i] = t[i]
  BY <1>1, SubSeqProperties
<1>4. \A i \in 1..Len(p) : p[i] = q[i]
  BY <1>2, <1>3
<1>5. p = q
  <2> HIDE DEF p, q
  <2> QED BY <1>2, <1>3, <1>4, SeqEqual
<1> QED BY <1>5 DEF IsPrefix

\* Appending leaves a prefix.
LEMMA PrefixOfConcat ==
  ASSUME NEW s \in Seq(Nat), NEW t \in Seq(Nat)
  PROVE  IsPrefix(s, s \o t)
<1>1. /\ Len(s) \in Nat /\ Len(t) \in Nat
      /\ s \o t \in Seq(Nat) /\ Len(s \o t) = Len(s) + Len(t)
      /\ \A i \in 1..(Len(s) + Len(t)) :
           (s \o t)[i] = IF i <= Len(s) THEN s[i] ELSE t[i - Len(s)]
  BY ConcatProperties, LenProperties
<1> DEFINE u == s \o t
<1>2. u \in Seq(Nat) /\ Len(s) <= Len(u) /\ \A i \in 1..Len(s) : s[i] = u[i]
  BY <1>1
<1> HIDE DEF u
<1>3. IsPrefix(s, u)
  BY <1>2, PrefixByElements
<1> QED BY <1>3 DEF u

\* Every sequence is a prefix of itself.
LEMMA PrefixOfSelf ==
  ASSUME NEW s \in Seq(Nat)
  PROVE  IsPrefix(s, s)
BY LenProperties, PrefixByElements

\* The first characters of s \o t agree with s as far as either goes.
LEMMA FirstOfConcat ==
  ASSUME NEW s \in Seq(Nat), NEW t \in Seq(Nat), NEW k \in 0..Len(s \o t)
  PROVE  IsPrefix(First(s \o t, k), s) \/ IsPrefix(s, First(s \o t, k))
<1> DEFINE f == First(s \o t, k)
<1>1. /\ Len(s) \in Nat /\ Len(t) \in Nat /\ k \in Nat
      /\ s \o t \in Seq(Nat) /\ Len(s \o t) = Len(s) + Len(t)
      /\ \A i \in 1..(Len(s) + Len(t)) :
           (s \o t)[i] = IF i <= Len(s) THEN s[i] ELSE t[i - Len(s)]
  BY ConcatProperties, LenProperties
<1>2. f \in Seq(Nat) /\ Len(f) = k
  BY <1>1, FirstProperties
<1>3. \A i \in 1..k : f[i] = (s \o t)[i]
  <2>1. \A i \in 1..k : (s \o t)[i] \in Nat
    BY <1>1, ElementOfSeq
  <2> QED BY <1>1, <2>1, SubSeqProperties DEF First
<1>4. \A i \in 1..k : i <= Len(s) => f[i] = s[i]
  BY <1>1, <1>3
<1> HIDE DEF f
<1>5. CASE k <= Len(s)
  <2>1. \A i \in 1..Len(f) : f[i] = s[i]
    BY <1>1, <1>2, <1>4, <1>5
  <2>2. IsPrefix(f, s)
    BY <1>2, <1>5, <2>1, PrefixByElements
  <2> QED BY <2>2 DEF f
<1>6. CASE Len(s) <= k
  <2>1. \A i \in 1..Len(s) : s[i] = f[i]
    BY <1>1, <1>2, <1>4, <1>6
  <2>2. IsPrefix(s, f)
    BY <1>2, <1>6, <2>1, PrefixByElements
  <2> QED BY <2>2 DEF f
<1> QED BY <1>1, <1>5, <1>6

\* A first part of a sequence is a prefix of it.
LEMMA FirstIsPrefix ==
  ASSUME NEW s \in Seq(Nat), NEW k \in 0..Len(s)
  PROVE  IsPrefix(First(s, k), s)
<1>1. Len(s) \in Nat /\ \A i \in 1..k : s[i] \in Nat
  BY LenProperties, ElementOfSeq
<1>2. First(s, k) \in Seq(Nat) /\ Len(First(s, k)) = k
  BY <1>1, FirstProperties
<1>3. \A i \in 1..k : First(s, k)[i] = s[i]
  BY <1>1, SubSeqProperties DEF First
<1> DEFINE f == First(s, k)
<1>4. f \in Seq(Nat) /\ Len(f) <= Len(s) /\ \A i \in 1..Len(f) : f[i] = s[i]
  BY <1>1, <1>2, <1>3
<1> HIDE DEF f
<1>5. IsPrefix(f, s)
  BY <1>4, PrefixByElements
<1> QED BY <1>5 DEF f

\* What a target received, when it received t behind s.
LEMMA ReceivedTail ==
  ASSUME NEW s \in Seq(Nat), NEW t \in Seq(Nat)
  PROVE  SubSeq(s \o t, Len(s) + 1, Len(s \o t)) = t
<1>1. /\ Len(s) \in Nat /\ Len(t) \in Nat
      /\ s \o t \in Seq(Nat) /\ Len(s \o t) = Len(s) + Len(t)
      /\ \A i \in 1..(Len(s) + Len(t)) :
           (s \o t)[i] = IF i <= Len(s) THEN s[i] ELSE t[i - Len(s)]
  BY ConcatProperties, LenProperties
<1> DEFINE r == SubSeq(s \o t, Len(s) + 1, Len(s) + Len(t))
<1>2. \A i \in (Len(s) + 1)..(Len(s) + Len(t)) : (s \o t)[i] \in Nat
  BY <1>1, ElementOfSeq
<1>3. /\ r \in Seq(Nat)
      /\ Len(r) = IF Len(s) + 1 <= Len(s) + Len(t)
                  THEN Len(s) + Len(t) - (Len(s) + 1) + 1 ELSE 0
      /\ \A i \in 1..(Len(s) + Len(t) - (Len(s) + 1) + 1) :
           r[i] = (s \o t)[Len(s) + 1 + i - 1]
  BY <1>1, <1>2, SubSeqProperties
<1> HIDE DEF r
<1>4. Len(r) = Len(t)
  BY <1>1, <1>3
<1>5. ASSUME NEW i \in 1..Len(t) PROVE r[i] = t[i]
  <2>1. i \in 1..(Len(s) + Len(t) - (Len(s) + 1) + 1) /\ Len(s) + 1 + i - 1 = Len(s) + i
    BY <1>1
  <2>2. /\ Len(s) + i \in 1..(Len(s) + Len(t)) /\ ~(Len(s) + i <= Len(s))
        /\ Len(s) + i - Len(s) = i
    BY <1>1
  <2>3. (s \o t)[Len(s) + i] = t[i]
    BY <1>1, <2>2
  <2> QED BY <1>3, <2>1, <2>3
<1>6. r = t
  BY <1>3, <1>4, <1>5, SeqEqual
<1> QED BY <1>1, <1>6 DEF r

-----------------------------------------------------------------------------
(***************************************************************************)
(* The steps of the stream as steps of the sink.  Reopening a closed       *)
(* stream is a stutter, because a closed stream holds nothing.             *)
(***************************************************************************)

RInv == IInv /\ (hstate = "closed" => dev = <<>> /\ pend = <<>>)

\* The stream starts open.
LEMMA InitEmpty == Init => RInv
BY InitInvariant DEF Init, RInv

\* Closing empties the stream, and a closed stream stays empty until reopened.
LEMMA NextEmpty == RInv /\ [Next]_vars => RInv'
<1> SUFFICES ASSUME RInv, [Next]_vars, hstate' = "closed"
             PROVE  dev' = <<>> /\ pend' = <<>>
  BY NextInvariant DEF RInv
<1>1. ASSUME hstate' = hstate PROVE hstate = "closed" /\ dev = <<>> /\ pend = <<>>
  BY <1>1 DEF RInv
<1>2. ASSUME NEW n \in 1..MaxReq, WriteAll(n) \/ WriteSome(n) PROVE FALSE
  BY <1>2, <1>1 DEF WriteAll, WriteSome, CanWrite, history
<1>3. CASE CharPut
  BY <1>3, <1>1 DEF CharPut, CanWrite, history
<1>4. CASE Flush
  BY <1>4, <1>1 DEF Flush, history
<1>5. CASE PrepareMinimum
  BY <1>5, <1>1 DEF PrepareMinimum, history
<1>6. CASE Close
  BY <1>6, <1>1 DEF Close
<1>7. CASE Reopen
  <2>1. ~FlushThrows \/ hstate' # hstate
    BY <1>1 DEF FlushThrows
  <2>2. CASE dev' = dev \o pend /\ pend' = <<>> /\ Reject(0) /\ UNCHANGED <<hstate, base, sealed>>
    <3>1. dev' = <<>> \o <<>>
      BY <1>1, <2>2
    <3> QED BY <2>2, <3>1, ToSetEmpty, ConcatEmptySeq
  <2> QED BY <1>7, <2>1, <2>2 DEF Reopen
<1>8. CASE Destroy
  BY <1>8 DEF Destroy
<1>9. CASE UNCHANGED vars
  BY <1>9, <1>1 DEF vars
<1> QED BY <1>2, <1>3, <1>4, <1>5, <1>6, <1>7, <1>8, <1>9 DEF Next

\* The sink's variables under the refinement mapping.
sinkVars == <<dev, pend, {e.dev : e \in sealed}, hstate = "dead">>

\* Bytes that reach the target, and bytes that join the queue behind it, are
\* a step forward.
LEMMA ForwardStep ==
  ASSUME IInv, hstate # "dead", UNCHANGED <<hstate, sealed>>,
         NEW x \in Seq(Nat), dev' = dev \o x,
         NEW y \in Seq(Nat), dev' \o pend' = (dev \o pend) \o y
  PROVE  Sink!Forward
<1>1. dev \in Seq(Nat) /\ pend \in Seq(Nat)
  BY DEF IInv, TypeOK
<1>2. dev \o pend \in Seq(Nat)
  BY <1>1, ConcatProperties
<1>3. IsPrefix(dev, dev \o x) /\ IsPrefix(dev \o pend, (dev \o pend) \o y)
  BY <1>1, <1>2, PrefixOfConcat
<1>4. IsPrefix(dev, dev') /\ IsPrefix(dev \o pend, dev' \o pend')
  BY <1>3
<1> QED BY <1>4 DEF Sink!Forward, Sink!IsPrefix, IsPrefix

\* A call that throws is a failure of the sink.
LEMMA FailStep ==
  ASSUME IInv, hstate # "dead", UNCHANGED <<hstate, sealed, pend>>,
         NEW y \in Seq(Nat), Breaks(pend \o y)
  PROVE  Sink!Fail
<1>1. dev \in Seq(Nat) /\ pend \in Seq(Nat)
  BY DEF IInv, TypeOK
<1>2. PICK k \in 0..(Len(pend \o y) - 1) : dev' = dev \o First(pend \o y, k)
  BY DEF Breaks
<1>3. pend \o y \in Seq(Nat) /\ Len(pend \o y) \in Nat
  BY <1>1, ConcatProperties, LenProperties
<1>4. k \in 0..Len(pend \o y)
  BY <1>3
<1>5. First(pend \o y, k) \in Seq(Nat)
  BY <1>3, <1>4, FirstProperties
<1>6. IsPrefix(dev, dev')
  BY <1>1, <1>2, <1>5, PrefixOfConcat
<1>7. Sink!Received = First(pend \o y, k)
  BY <1>1, <1>2, <1>5, ReceivedTail DEF Sink!Received
<1>8. IsPrefix(Sink!Received, pend) \/ IsPrefix(pend, Sink!Received)
  BY <1>1, <1>4, <1>7, FirstOfConcat
<1> QED BY <1>6, <1>8 DEF Sink!Fail, Sink!IsPrefix, IsPrefix

\* Sealing a handle and starting over rebinds the sink.
LEMMA RebindStep ==
  ASSUME hstate # "dead", hstate' # "dead", Seal(dev \o pend),
         dev' = <<>>, pend' = <<>>
  PROVE  Sink!Rebind
<1> DEFINE last == [acc |-> acc, dev |-> dev \o pend]
<1>1. sealed' = sealed \cup {last} /\ last.dev = dev \o pend
  BY DEF Seal
<1> HIDE DEF last
<1>2. {e.dev : e \in sealed'} = {e.dev : e \in sealed} \cup {last.dev}
  BY <1>1
<1> QED BY <1>1, <1>2 DEF Sink!Rebind

\* The destructor retires the sink.
LEMMA RetireStep ==
  ASSUME IInv, Destroy
  PROVE  Sink!Retire
<1>1. /\ hstate # "dead" /\ hstate' = "dead" /\ pend' = <<>> /\ sealed' = sealed
      /\ dev \in Seq(Nat) /\ pend \in Seq(Nat)
  BY DEF Destroy, IInv, TypeOK
<1>2. PICK x \in Seq(Nat) : dev' = dev \o x /\ IsPrefix(x, pend)
  <2>1. CASE dev' = dev \o pend
    BY <1>1, <2>1, PrefixOfSelf
  <2>2. CASE Breaks(pend)
    <3>1. PICK k \in 0..(Len(pend) - 1) : dev' = dev \o First(pend, k)
      BY <2>2 DEF Breaks
    <3>2. k \in 0..Len(pend)
      BY <1>1, LenProperties
    <3> QED BY <1>1, <3>1, <3>2, FirstProperties, FirstIsPrefix
  <2> QED BY <2>1, <2>2 DEF Destroy
<1>3. IsPrefix(dev, dev')
  BY <1>1, <1>2, PrefixOfConcat
<1>4. Sink!Received = x
  BY <1>1, <1>2, ReceivedTail DEF Sink!Received
<1> QED BY <1>1, <1>2, <1>3, <1>4 DEF Sink!Retire, Sink!IsPrefix, IsPrefix

\* The fast path and the first allocation queue the range.
LEMMA QueueStep ==
  ASSUME IInv, hstate # "dead", UNCHANGED history, NEW n \in Nat,
         PutInBuffer(n) \/ AllocateAndPut(n)
  PROVE  Sink!Forward
<1>1. /\ dev \in Seq(Nat) /\ pend \in Seq(Nat) /\ next \in Nat
      /\ Len(pend) <= IF alloc THEN BufSize ELSE 0
      /\ <<>> \in Seq(Nat) /\ UNCHANGED <<hstate, sealed>>
  BY ToSetEmpty DEF IInv, TypeOK, history
<1>2. Fresh(n) \in Seq(Nat)
  BY <1>1, FreshProperties
<1>3. \A s, t, u \in Seq(Nat) : (s \o t) \o u = s \o (t \o u)
  BY Associative
<1>4. dev' = dev /\ pend' = pend \o Fresh(n)
  <2>1. CASE PutInBuffer(n)
    BY <2>1 DEF PutInBuffer
  <2>2. CASE AllocateAndPut(n)
    <3>1. pend = <<>>
      BY <1>1, <2>2, EmptySeq, LenProperties DEF AllocateAndPut
    <3>2. <<>> \o Fresh(n) = Fresh(n)
      BY <1>2, ConcatEmptySeq
    <3> QED BY <2>2, <3>1, <3>2 DEF AllocateAndPut
  <2> QED BY <2>1, <2>2
<1>5. dev' = dev \o <<>>
  BY <1>1, <1>4, ConcatEmptySeq
<1>6. dev' \o pend' = (dev \o pend) \o Fresh(n)
  BY <1>1, <1>2, <1>3, <1>4
<1> QED BY <1>1, <1>2, <1>5, <1>6, ForwardStep

\* A gathered write of the put area and n characters of the range.
LEMMA GatherForward ==
  ASSUME IInv, hstate # "dead", UNCHANGED history, NEW n \in Nat,
         dev' = dev \o pend \o Fresh(n), pend' = <<>>
  PROVE  Sink!Forward
<1>1. /\ dev \in Seq(Nat) /\ pend \in Seq(Nat) /\ next \in Nat
      /\ UNCHANGED <<hstate, sealed>>
  BY DEF IInv, TypeOK, history
<1>2. Fresh(n) \in Seq(Nat)
  BY <1>1, FreshProperties
<1>3. \A s, t, u \in Seq(Nat) : (s \o t) \o u = s \o (t \o u)
  BY Associative
<1>4. pend \o Fresh(n) \in Seq(Nat) /\ (dev \o pend) \o Fresh(n) \in Seq(Nat)
  BY <1>1, <1>2, ConcatProperties
<1>5. dev' = dev \o (pend \o Fresh(n))
  BY <1>1, <1>2, <1>3
<1>6. dev' \o pend' = (dev \o pend) \o Fresh(n)
  BY <1>4, ConcatEmptySeq
<1> QED BY <1>1, <1>2, <1>4, <1>5, <1>6, ForwardStep

\* A flush hands over the queue.
LEMMA FlushForward ==
  ASSUME IInv, hstate # "dead", UNCHANGED <<hstate, sealed>>,
         dev' = dev \o pend, pend' = <<>>
  PROVE  Sink!Forward
<1>1. dev \in Seq(Nat) /\ pend \in Seq(Nat) /\ <<>> \in Seq(Nat)
  BY ToSetEmpty DEF IInv, TypeOK
<1> QED BY <1>1, ForwardStep

\* A write_all or write_some that throws, and a flush that does.
LEMMA ThrowStep ==
  ASSUME IInv, hstate # "dead", UNCHANGED <<hstate, sealed>>,
         \/ FlushThrows
         \/ \E n \in Nat : WriteAllThrows(n)
  PROVE  Sink!Fail
<1>1. pend \in Seq(Nat) /\ next \in Nat /\ <<>> \in Seq(Nat)
  BY ToSetEmpty DEF IInv, TypeOK
<1>2. CASE FlushThrows
  <2>1. pend \o <<>> = pend
    BY <1>1, ConcatEmptySeq
  <2>2. Breaks(pend \o <<>>) /\ pend' = pend
    BY <1>2, <2>1 DEF FlushThrows
  <2> QED BY <1>1, <2>2, FailStep
<1>3. ASSUME NEW n \in Nat, WriteAllThrows(n) PROVE Sink!Fail
  <2>1. Fresh(n) \in Seq(Nat)
    BY <1>1, FreshProperties
  <2>2. Breaks(pend \o Fresh(n)) /\ pend' = pend
    BY <1>3 DEF WriteAllThrows
  <2> QED BY <2>1, <2>2, FailStep
<1> QED BY <1>2, <1>3

-----------------------------------------------------------------------------
(* The theorem. *)

\* Every step of the stream is a step of the sink or a stutter.
LEMMA StepImplements ==
  ASSUME ~ShortGather, RInv, [Next]_vars
  PROVE  [Sink!Next]_sinkVars
<1>1. IInv
  BY DEF RInv
<1>2. \A n \in 1..MaxReq : n \in Nat
  BY BoundsAssumption
<1>3. ASSUME NEW n \in 1..MaxReq, WriteAll(n) PROVE Sink!Next
  <2>1. hstate # "dead" /\ UNCHANGED history /\ UNCHANGED <<hstate, sealed>> /\ n \in Nat
    BY <1>2, <1>3 DEF WriteAll, CanWrite, history
  <2>2. CASE PutInBuffer(n) \/ AllocateAndPut(n)
    BY <1>1, <2>1, <2>2, QueueStep DEF Sink!Next
  <2>3. CASE WriteAllThrough(n)
    BY <1>1, <2>1, <2>3, GatherForward DEF WriteAllThrough, Sink!Next
  <2>4. CASE WriteAllThrows(n)
    BY <1>1, <2>1, <2>4, ThrowStep DEF Sink!Next
  <2> QED BY <1>3, <2>2, <2>3, <2>4 DEF WriteAll
<1>4. ASSUME NEW n \in 1..MaxReq, WriteSome(n) PROVE Sink!Next
  <2>1. hstate # "dead" /\ UNCHANGED history /\ UNCHANGED <<hstate, sealed>> /\ n \in Nat
    BY <1>2, <1>4 DEF WriteSome, CanWrite, history
  <2>2. CASE PutInBuffer(n) \/ AllocateAndPut(n)
    BY <1>1, <2>1, <2>2, QueueStep DEF Sink!Next
  <2>3. CASE WriteSomeThrough(n)
    <3>1. \E k \in Nat : dev' = dev \o pend \o Fresh(k) /\ pend' = <<>>
      BY <2>1, <2>3 DEF WriteSomeThrough, WroteBoth, WroteBuffer, WrotePartOfBuffer
    <3> QED BY <1>1, <2>1, <3>1, GatherForward DEF Sink!Next
  <2>4. CASE WriteSomeThrows(n)
    BY <1>1, <2>1, <2>4, ThrowStep DEF WriteSomeThrows, Sink!Next
  <2> QED BY <1>4, <2>2, <2>3, <2>4 DEF WriteSome
<1>5. CASE CharPut
  <2>1. hstate # "dead" /\ UNCHANGED history /\ UNCHANGED <<hstate, sealed>>
    BY <1>5 DEF CharPut, CanWrite, history
  <2>2. CASE PutInBuffer(1) \/ AllocateAndPut(1)
    BY <1>1, <2>1, <2>2, QueueStep DEF Sink!Next
  <2>3. CASE WriteAllThrough(1)
    BY <1>1, <2>1, <2>3, GatherForward DEF WriteAllThrough, Sink!Next
  <2>4. CASE WriteAllThrows(1)
    BY <1>1, <2>1, <2>4, ThrowStep DEF Sink!Next
  <2> QED BY <1>5, <2>2, <2>3, <2>4 DEF CharPut
<1>6. CASE Flush
  <2>1. hstate # "dead" /\ UNCHANGED <<hstate, sealed>>
    BY <1>6 DEF Flush, history
  <2> QED BY <1>1, <1>6, <2>1, FlushForward, ThrowStep DEF Flush, FlushDone, Sink!Next
<1>7. CASE PrepareMinimum
  <2>1. hstate # "dead" /\ UNCHANGED <<hstate, sealed>>
    BY <1>7 DEF PrepareMinimum, history
  <2>2. CASE UNCHANGED <<pend, dev>>
    BY <2>1, <2>2 DEF sinkVars
  <2>3. CASE FlushDone \/ FlushThrows
    BY <1>1, <2>1, <2>3, FlushForward, ThrowStep DEF FlushDone, Sink!Next
  <2> QED BY <1>7, <2>2, <2>3 DEF PrepareMinimum
<1>8. CASE Close
  <2>1. CASE FlushThrows /\ UNCHANGED <<hstate, sealed>>
    BY <1>1, <1>8, <2>1, ThrowStep DEF Close, Sink!Next
  <2>2. CASE ~(FlushThrows /\ UNCHANGED <<hstate, sealed>>)
    BY <1>8, <2>2, RebindStep DEF Close, Sink!Next
  <2> QED BY <2>1, <2>2
<1>9. CASE Reopen
  <2>1. hstate # "dead"
    BY <1>9 DEF Reopen
  <2>2. CASE FlushThrows /\ UNCHANGED <<hstate, base, sealed>>
    BY <1>1, <2>1, <2>2, ThrowStep DEF Sink!Next
  <2>3. CASE dev' = dev \o pend /\ pend' = <<>> /\ UNCHANGED <<hstate, base, sealed>>
    BY <1>1, <2>1, <2>3, FlushForward DEF Sink!Next
  <2>4. CASE /\ IF hstate = "open" THEN Seal(dev \o pend) ELSE UNCHANGED sealed
             /\ hstate' = "open" /\ dev' = <<>> /\ pend' = <<>>
    <3>1. CASE hstate = "open"
      BY <2>4, <3>1, RebindStep DEF Sink!Next
    <3>2. CASE hstate # "open"
      <4>1. dev = <<>> /\ pend = <<>>
        BY <1>9, <3>2 DEF Reopen, RInv
      <4> QED BY <2>1, <2>4, <3>2, <4>1 DEF sinkVars
    <3> QED BY <3>1, <3>2
  <2> QED BY <1>9, <2>2, <2>3, <2>4 DEF Reopen
<1>10. CASE Destroy
  BY <1>1, <1>10, RetireStep DEF Sink!Next
<1>11. CASE UNCHANGED vars
  BY <1>11 DEF vars, sinkVars
<1> QED BY <1>3, <1>4, <1>5, <1>6, <1>7, <1>8, <1>9, <1>10, <1>11 DEF Next

\* Over handles whose gathered writes take at least the put area, the
\* buffered stream is a byte sink: whatever the failures, bytes move forward
\* in order, a failed call keeps the queue, and only a destructor gives up.
THEOREM Implements ==
  ASSUME ~ShortGather
  PROVE  Spec => SinkSpec
<1>1. Spec => []RInv
  BY InitEmpty, NextEmpty, PTL DEF Spec
<1>2. Init => Sink!Init
  BY DEF Init, Sink!Init
<1>3. RInv /\ [Next]_vars => [Sink!Next]_sinkVars
  BY StepImplements
<1> QED BY <1>1, <1>2, <1>3, PTL DEF Spec, SinkSpec, Sink!Spec, sinkVars

-----------------------------------------------------------------------------
(* The get area. *)

(***************************************************************************)
(* The inductive invariant.                                                *)
(***************************************************************************)

Areas ==
  /\ width \in Widths
  /\ chunk \in Seq(Nat) /\ Len(chunk) <= InSize
  /\ curr \in 0..Len(chunk)
  /\ rd \in Nat /\ avail \in Nat /\ rd <= avail
  /\ used \in Seq(Nat)

History ==
  /\ fails \in Nat /\ opens \in Nat
  /\ eof \in BOOLEAN /\ dropped \in BOOLEAN

\* The get area holds the last characters that were taken off the handle.
\* A scanner that puts input back relies on it.
HoldsLast ==
  width = 1 =>
    /\ Len(chunk) <= rd
    /\ \A i \in 1..Len(chunk) : chunk[i] = rd - Len(chunk) + (i - 1)

\* What the program has is the beginning of the data, and the rest of the get
\* area is what follows it.
UsedInOrder ==
  width = 1 /\ ~dropped =>
    /\ Len(used) + Left = rd
    /\ \A i \in 1..Len(used) : used[i] = i - 1

Ordered == HoldsLast /\ UsedInOrder

Drained == width = 1 => EofIsDrained

Calls ==
  [kind : {"idle", "all", "some", "scan"}, need : Nat, from : Nat, begin : Nat,
   list : Seq(Nat), at : Nat]

\* A call is at a descriptor of its list, and no more of a token lies in the
\* chunk than the scanner has taken since the token began.
CallIs ==
  /\ op \in Calls
  /\ op.kind # "idle" => op.from <= Len(used)
  /\ op.kind = "scan" => op.begin <= curr /\ op.from + (curr - op.begin) <= Len(used)
  /\ op.kind \in {"all", "some"} => IsList(op.list) /\ op.at \in 1..(Len(op.list) - 1)

Sound == Areas /\ History /\ Ordered /\ Drained /\ CallIs

-----------------------------------------------------------------------------
(***************************************************************************)
(* Sizes and pieces.                                                       *)
(***************************************************************************)

LEMMA SizesAre ==
  ASSUME Areas
  PROVE  width \in Nat \ {0} /\ InSize \in Nat /\ Left \in Nat
<1>1. width \in Nat \ {0} /\ InBytes \in Nat
  BY InAssumption DEF Areas
<1>2. InSize \in Nat
  BY <1>1, DivisionIs DEF InSize
<1>3. Left \in Nat
  <2>1. Len(chunk) \in Nat /\ curr \in 0..Len(chunk)
    BY LenProperties DEF Areas
  <2> QED BY <2>1 DEF Left
<1> QED BY <1>1, <1>2, <1>3

\* The rest of the get area.
LEMMA RestIs ==
  ASSUME Areas
  PROVE  /\ Rest \in Seq(Nat) /\ Len(Rest) = Left /\ Left \in Nat
         /\ Len(chunk) \in Nat /\ curr + Left = Len(chunk)
         /\ \A i \in 1..Left : Rest[i] = chunk[curr + i]
<1>1. /\ chunk \in Seq(Nat) /\ Len(chunk) \in Nat /\ curr \in 0..Len(chunk)
  BY LenProperties DEF Areas
<1>2. curr + 1 \in Nat \ {0} /\ Len(chunk) \in 0..Len(chunk) /\ curr + 1 <= Len(chunk) + 1
  BY <1>1
<1>3. /\ Rest \in Seq(Nat) /\ Len(Rest) = Len(chunk) + 1 - (curr + 1)
      /\ \A i \in 1..(Len(chunk) + 1 - (curr + 1)) : Rest[i] = chunk[(curr + 1) + i - 1]
  BY <1>1, <1>2, PieceIs DEF Rest
<1>4. Left \in Nat /\ Left = Len(chunk) + 1 - (curr + 1) /\ curr + Left = Len(chunk)
  BY <1>1 DEF Left
<1>5. \A i \in 1..Left : (curr + 1) + i - 1 = curr + i
  BY <1>1, <1>4
<1> QED BY <1>1, <1>3, <1>4, <1>5

\* The characters of the next k bytes.
LEMMA CharsAre ==
  ASSUME Areas, NEW k \in Nat
  PROVE  /\ Chars(k) \in Seq(Nat) /\ Len(Chars(k)) = k \div width /\ k \div width \in Nat
         /\ width = 1 => /\ Len(Chars(k)) = k
                         /\ \A i \in 1..k : Chars(k)[i] = rd + (i - 1)
<1>1. width \in Nat \ {0} /\ rd \in Nat /\ k \div width \in Nat
  BY SizesAre, DivisionIs DEF Areas
<1>2. \A i \in 1..(k \div width) : rd + (i - 1) * width \in Nat
  <2> SUFFICES ASSUME NEW i \in 1..(k \div width) PROVE rd + (i - 1) * width \in Nat
    OBVIOUS
  <2>1. i - 1 \in Nat
    BY <1>1
  <2>2. (i - 1) * width \in Nat
    BY <1>1, <2>1
  <2> QED BY <1>1, <2>2
<1>3. Chars(k) \in [1..(k \div width) -> Nat]
  BY <1>2 DEF Chars
<1>4. Chars(k) \in Seq(Nat) /\ Len(Chars(k)) = k \div width
  BY <1>1, <1>3
<1>5. ASSUME width = 1
      PROVE  /\ Len(Chars(k)) = k
             /\ \A i \in 1..k : Chars(k)[i] = rd + (i - 1)
  <2>1. k \div width = k
    BY <1>5
  <2>2. \A i \in 1..k : (i - 1) * width = i - 1
    BY <1>5
  <2> QED BY <1>4, <2>1, <2>2 DEF Chars
<1> QED BY <1>1, <1>4, <1>5

-----------------------------------------------------------------------------
(***************************************************************************)
(* What moves characters: out of the get area, and past it.                *)
(***************************************************************************)

LEMMA FromBufferKeeps ==
  ASSUME Areas, Ordered, NEW n \in Nat, FromBuffer(n),
         UNCHANGED <<width, avail, dropped>>
  PROVE  /\ Areas' /\ Ordered'
         /\ Len(used) \in Nat /\ Len(used') = Len(used) + n
         /\ curr' = curr + n /\ curr \in Nat /\ rd' = rd
<1>1. /\ n <= Left /\ used' = used \o SubSeq(Rest, 1, n) /\ curr' = curr + n
      /\ chunk' = chunk /\ rd' = rd /\ width' = width /\ avail' = avail
      /\ dropped' = dropped
  BY DEF FromBuffer
<1>2. /\ used \in Seq(Nat) /\ Len(used) \in Nat /\ curr \in Nat /\ Left \in Nat
      /\ Len(chunk) \in Nat /\ curr + Left = Len(chunk)
      /\ Rest \in Seq(Nat) /\ Len(Rest) = Left
      /\ \A i \in 1..Left : Rest[i] = chunk[curr + i]
  BY RestIs, LenProperties DEF Areas
<1> DEFINE piece == SubSeq(Rest, 1, n)
<1>3. /\ piece \in Seq(Nat) /\ Len(piece) = n
      /\ \A i \in 1..n : piece[i] = chunk[curr + i]
  <2>1. n \in 0..Len(Rest) /\ 1 <= n + 1 /\ 1 \in Nat \ {0}
    BY <1>1, <1>2
  <2>2. /\ piece \in Seq(Nat) /\ Len(piece) = n + 1 - 1
        /\ \A i \in 1..(n + 1 - 1) : piece[i] = Rest[1 + i - 1]
    BY <1>2, <2>1, PieceIs
  <2>3. n + 1 - 1 = n /\ \A i \in 1..n : 1 + i - 1 = i /\ i \in 1..Left
    BY <1>1, <1>2
  <2>4. /\ piece \in Seq(Nat) /\ Len(piece) = n
        /\ \A i \in 1..n : piece[i] = Rest[i]
    BY <2>2, <2>3
  <2> HIDE DEF piece
  <2> QED BY <1>2, <2>3, <2>4
<1> HIDE DEF piece
<1>4. /\ used' \in Seq(Nat) /\ Len(used') = Len(used) + n
      /\ \A i \in 1..(Len(used) + n) :
           used'[i] = IF i <= Len(used) THEN used[i] ELSE piece[i - Len(used)]
  BY <1>1, <1>2, <1>3, JoinIs DEF piece
<1>5. curr + n \in 0..Len(chunk) /\ Left' = Left - n
  <2>1. curr + n \in 0..Len(chunk) /\ Left = Len(chunk) - curr
    BY <1>1, <1>2 DEF Left
  <2>2. Left' = Len(chunk) - (curr + n)
    BY <1>1 DEF Left
  <2> QED BY <1>1, <1>2, <2>1, <2>2
<1>6. Areas'
  <2>1. InSize' = InSize
    BY <1>1 DEF InSize
  <2>2. chunk' \in Seq(Nat) /\ Len(chunk') <= InSize'
    BY <1>1, <2>1 DEF Areas
  <2>3. width' \in Widths
    BY <1>1 DEF Areas
  <2>4. rd' \in Nat /\ avail' \in Nat /\ rd' <= avail'
    BY <1>1 DEF Areas
  <2>5. curr' \in 0..Len(chunk')
    BY <1>1, <1>5
  <2> QED BY <1>4, <2>2, <2>3, <2>4, <2>5 DEF Areas
<1>7. HoldsLast'
  BY <1>1 DEF Ordered, HoldsLast
<1>8. UsedInOrder'
  <2> SUFFICES ASSUME width = 1, ~dropped
               PROVE  /\ Len(used') + Left' = rd
                      /\ \A i \in 1..Len(used') : used'[i] = i - 1
    BY <1>1 DEF UsedInOrder
  <2>1. /\ Len(used) + Left = rd
        /\ \A i \in 1..Len(used) : used[i] = i - 1
    BY DEF Ordered, UsedInOrder
  <2>2. \A i \in 1..Len(chunk) : chunk[i] = rd - Len(chunk) + (i - 1)
    BY DEF Ordered, HoldsLast
  <2>3. rd \in Nat
    BY DEF Areas
  <2>4. Len(used') + Left' = rd
    <3>1. \A a, b, c \in Nat : a <= c => (b + a) + (c - a) = b + c
      OBVIOUS
    <3>2. (Len(used) + n) + (Left - n) = Len(used) + Left
      BY <1>1, <1>2, <3>1
    <3>3. Len(used') + Left' = (Len(used) + n) + (Left - n)
      BY <1>4, <1>5
    <3> QED BY <2>1, <3>2, <3>3
  <2>5. ASSUME NEW i \in 1..(Len(used) + n), i > Len(used)
        PROVE  used'[i] = i - 1
    <3> DEFINE j == i - Len(used)
    <3>1. j \in 1..n /\ curr + j \in 1..Len(chunk)
      BY <1>1, <1>2, <2>5
    <3>2. used'[i] = piece[j]
      BY <1>2, <1>4, <2>5
    <3>3. piece[j] = chunk[curr + j]
      BY <1>3, <3>1
    <3>4. chunk[curr + j] = rd - Len(chunk) + ((curr + j) - 1)
      BY <2>2, <3>1
    <3>5. rd - Len(chunk) + ((curr + j) - 1) = i - 1
      <4>1. rd = Len(used) + Left /\ Len(chunk) = curr + Left /\ i \in Nat
        BY <1>2, <2>1
      <4>2. \A u, l, c \in Nat : (u + l) - (c + l) + ((c + (i - u)) - 1) = i - 1
        BY <4>1
      <4> QED BY <1>2, <4>1, <4>2
    <3> QED BY <3>2, <3>3, <3>4, <3>5
  <2>6. ASSUME NEW i \in 1..(Len(used) + n), i <= Len(used)
        PROVE  used'[i] = i - 1
    <3>1. i \in 1..Len(used)
      BY <1>2, <2>6
    <3> QED BY <1>4, <2>1, <2>6, <3>1
  <2>7. \A i \in 1..(Len(used) + n) : used'[i] = i - 1
    <3>1. \A i \in 1..(Len(used) + n) : i > Len(used) \/ i <= Len(used)
      BY <1>2
    <3> QED BY <2>5, <2>6, <3>1
  <2> QED BY <1>4, <2>4, <2>7
<1> QED BY <1>1, <1>2, <1>4, <1>6, <1>7, <1>8 DEF Ordered

LEMMA UnderflowKeeps ==
  ASSUME Areas, Ordered, NEW n \in Nat, n > Left, NEW k \in Nat,
         Underflow(n, k), UNCHANGED <<width, avail, dropped>>
  PROVE  /\ Areas' /\ Ordered'
         /\ Len(used) \in Nat /\ Len(used') \in Nat
         /\ Len(used) <= Len(used') /\ Len(used') <= Len(used) + n
         /\ width = 1 /\ Len(used') = Len(used) => rd' = avail'
<1> DEFINE new == Chars(k)
           room == (n - Left + InSize) * width
           here == Least(Len(new), n - Left)
           head == SubSeq(new, 1, here)
<1>1. /\ k \in Delivers(room) /\ used' = (used \o Rest) \o head
      /\ chunk' = SubSeq(new, here + 1, Len(new))
      /\ curr' = 0 /\ rd' = rd + k /\ width' = width /\ avail' = avail
      /\ dropped' = dropped
  BY DEF Underflow
<1>2. /\ used \in Seq(Nat) /\ Len(used) \in Nat /\ curr \in Nat /\ Left \in Nat
      /\ Len(chunk) \in Nat /\ curr + Left = Len(chunk)
      /\ Rest \in Seq(Nat) /\ Len(Rest) = Left
      /\ \A i \in 1..Left : Rest[i] = chunk[curr + i]
  BY RestIs, LenProperties DEF Areas
<1>3. /\ rd \in Nat /\ avail \in Nat /\ rd <= avail /\ InSize \in Nat
      /\ width \in Nat \ {0}
  BY SizesAre DEF Areas
<1>4. /\ k <= room /\ rd + k <= avail
      /\ k = 0 => avail = rd
  <2>1. n - Left + InSize \in Nat
    BY <1>2, <1>3
  <2>2. room \in Nat
    BY <1>3, <2>1
  <2> HIDE DEF room
  <2>3. CASE avail = rd
    <3>1. k = 0
      BY <1>1, <2>3 DEF Delivers
    <3> QED BY <1>3, <2>2, <2>3, <3>1
  <2>4. CASE avail # rd
    <3>1. k \in 1..Least(room, avail - rd)
      BY <1>1, <2>4 DEF Delivers
    <3>2. k >= 1 /\ k <= room /\ k <= avail - rd
      BY <1>3, <2>2, <3>1 DEF Least
    <3> QED BY <1>3, <2>2, <3>2
  <2> QED BY <2>3, <2>4
<1>5. /\ new \in Seq(Nat) /\ Len(new) = k \div width /\ Len(new) \in Nat
      /\ width = 1 => Len(new) = k /\ \A i \in 1..k : new[i] = rd + (i - 1)
  BY CharsAre
<1>6. Len(new) <= n - Left + InSize
  <2>1. n - Left + InSize \in Nat
    BY <1>2, <1>3
  <2> QED BY <1>3, <1>4, <1>5, <2>1, FitsCharacters
<1> HIDE DEF new, room
<1>7. /\ here \in Nat /\ here <= Len(new) /\ here <= n - Left
      /\ here = 0 => Len(new) = 0
      /\ Len(new) - here <= InSize
  BY <1>2, <1>3, <1>5, <1>6 DEF Least
<1> HIDE DEF here
<1>8. /\ head \in Seq(Nat) /\ Len(head) = here
      /\ \A i \in 1..here : head[i] = new[i]
  <2>1. here \in 0..Len(new) /\ 1 <= here + 1 /\ 1 \in Nat \ {0}
    BY <1>5, <1>7
  <2>2. /\ head \in Seq(Nat) /\ Len(head) = here + 1 - 1
        /\ \A i \in 1..(here + 1 - 1) : head[i] = new[1 + i - 1]
    BY <1>5, <2>1, PieceIs
  <2>3. \A i \in 1..here : 1 + i - 1 = i
    BY <1>7
  <2> QED BY <1>7, <2>2, <2>3
<1>9. /\ chunk' \in Seq(Nat) /\ Len(chunk') = Len(new) - here /\ Len(chunk') \in Nat
      /\ \A i \in 1..(Len(new) - here) : chunk'[i] = new[here + i]
  <2>1. Len(new) \in 0..Len(new) /\ here + 1 <= Len(new) + 1 /\ here + 1 \in Nat \ {0}
    BY <1>5, <1>7
  <2>2. /\ chunk' \in Seq(Nat) /\ Len(chunk') = Len(new) + 1 - (here + 1)
        /\ \A i \in 1..(Len(new) + 1 - (here + 1)) : chunk'[i] = new[(here + 1) + i - 1]
    BY <1>1, <1>5, <2>1, PieceIs
  <2>3. /\ Len(new) + 1 - (here + 1) = Len(new) - here /\ Len(new) - here \in Nat
        /\ \A i \in 1..(Len(new) - here) : (here + 1) + i - 1 = here + i
    BY <1>5, <1>7
  <2> QED BY <2>2, <2>3
<1> HIDE DEF head
<1>10. /\ used \o Rest \in Seq(Nat) /\ Len(used \o Rest) = Len(used) + Left
       /\ \A i \in 1..(Len(used) + Left) :
            (used \o Rest)[i] = IF i <= Len(used) THEN used[i] ELSE Rest[i - Len(used)]
  BY <1>2, JoinIs
<1> DEFINE before == used \o Rest
<1>11. before \in Seq(Nat) /\ Len(before) = Len(used) + Left /\ used' = before \o head
  BY <1>1, <1>10
<1> HIDE DEF before
<1>12. /\ used' \in Seq(Nat) /\ Len(used') = (Len(used) + Left) + here
       /\ \A i \in 1..((Len(used) + Left) + here) :
            used'[i] = IF i <= Len(used) + Left THEN before[i] ELSE head[i - (Len(used) + Left)]
  <2>1. /\ before \o head \in Seq(Nat) /\ Len(before \o head) = Len(before) + Len(head)
        /\ \A i \in 1..(Len(before) + Len(head)) :
             (before \o head)[i] = IF i <= Len(before) THEN before[i] ELSE head[i - Len(before)]
    BY <1>8, <1>11, JoinIs
  <2>2. Len(before) = Len(used) + Left /\ Len(head) = here /\ used' = before \o head
    BY <1>8, <1>11
  <2> QED BY <2>1, <2>2
<1>13. Left' = Len(new) - here
  BY <1>1, <1>9 DEF Left
<1>14. Areas'
  <2>1. InSize' = InSize
    BY <1>1 DEF InSize
  <2>2. Len(chunk') <= InSize'
    BY <1>7, <1>9, <2>1
  <2>3. width' \in Widths
    BY <1>1 DEF Areas
  <2>4. rd' \in Nat /\ avail' \in Nat /\ rd' <= avail'
    BY <1>1, <1>3, <1>4
  <2>5. curr' \in 0..Len(chunk')
    BY <1>1, <1>9
  <2> QED BY <1>9, <1>12, <2>2, <2>3, <2>4, <2>5 DEF Areas
<1>15. HoldsLast'
  <2> SUFFICES ASSUME width = 1
               PROVE  /\ Len(chunk') <= rd'
                      /\ \A i \in 1..Len(chunk') : chunk'[i] = rd' - Len(chunk') + (i - 1)
    BY <1>1 DEF HoldsLast
  <2>1. Len(new) = k /\ \A i \in 1..k : new[i] = rd + (i - 1)
    BY <1>5
  <2>2. rd' = rd + k /\ Len(chunk') = k - here
    BY <1>1, <1>9, <2>1
  <2>3. ASSUME NEW i \in 1..(k - here)
        PROVE  chunk'[i] = rd' - Len(chunk') + (i - 1)
    <3>1. here + i \in 1..k
      BY <1>7
    <3>2. chunk'[i] = rd + ((here + i) - 1)
      BY <1>9, <2>1, <3>1
    <3>3. rd + ((here + i) - 1) = rd' - Len(chunk') + (i - 1)
      BY <1>3, <1>7, <2>2
    <3> QED BY <3>2, <3>3
  <2>4. Len(chunk') <= rd'
    BY <1>3, <1>7, <2>2
  <2> QED BY <2>2, <2>3, <2>4
<1>16. UsedInOrder'
  <2> SUFFICES ASSUME width = 1, ~dropped
               PROVE  /\ Len(used') + Left' = rd'
                      /\ \A i \in 1..Len(used') : used'[i] = i - 1
    BY <1>1 DEF UsedInOrder
  <2>1. /\ Len(used) + Left = rd
        /\ \A i \in 1..Len(used) : used[i] = i - 1
    BY DEF Ordered, UsedInOrder
  <2>2. \A i \in 1..Len(chunk) : chunk[i] = rd - Len(chunk) + (i - 1)
    BY DEF Ordered, HoldsLast
  <2>3. Len(new) = k /\ \A i \in 1..k : new[i] = rd + (i - 1)
    BY <1>5
  <2>4. Len(used') + Left' = rd'
    <3>1. rd' = rd + k /\ Left' = k - here /\ here <= k /\ Len(used') = rd + here
      BY <1>1, <1>7, <1>12, <1>13, <2>1, <2>3
    <3>2. \A a, b, c \in Nat : (a + b) + (c - b) = a + c
      OBVIOUS
    <3> QED BY <1>3, <1>7, <3>1, <3>2
  <2>5. \A i \in 1..(Len(used) + Left) : before[i] = i - 1
    <3>1. ASSUME NEW i \in 1..Len(used) PROVE before[i] = i - 1
      <4>1. i \in 1..(Len(used) + Left) /\ i <= Len(used)
        BY <1>2
      <4> QED BY <1>10, <2>1, <4>1 DEF before
    <3>2. ASSUME NEW i \in 1..(Len(used) + Left), i > Len(used)
          PROVE  before[i] = i - 1
      <4> DEFINE j == i - Len(used)
      <4>1. j \in 1..Left /\ curr + j \in 1..Len(chunk) /\ ~(i <= Len(used))
        BY <1>2, <3>2
      <4>2. before[i] = Rest[j]
        BY <1>10, <4>1 DEF before
      <4>3. Rest[j] = chunk[curr + j]
        BY <1>2, <4>1
      <4>4. chunk[curr + j] = rd - Len(chunk) + ((curr + j) - 1)
        BY <2>2, <4>1
      <4>5. rd - Len(chunk) + ((curr + j) - 1) = i - 1
        <5>1. rd = Len(used) + Left /\ Len(chunk) = curr + Left /\ i \in Nat
          BY <1>2, <2>1
        <5>2. \A u, l, c \in Nat : (u + l) - (c + l) + ((c + (i - u)) - 1) = i - 1
          BY <5>1
        <5> QED BY <1>2, <5>1, <5>2
      <4> QED BY <4>2, <4>3, <4>4, <4>5
    <3>3. \A i \in 1..(Len(used) + Left) : i \in 1..Len(used) \/ i > Len(used)
      BY <1>2
    <3> QED BY <3>1, <3>2, <3>3
  <2>6. ASSUME NEW i \in 1..((Len(used) + Left) + here), i > Len(used) + Left
        PROVE  used'[i] = i - 1
    <3> DEFINE j == i - (Len(used) + Left)
    <3>1. j \in 1..here /\ j \in 1..k /\ ~(i <= Len(used) + Left)
      BY <1>2, <1>7, <2>3, <2>6
    <3>2. used'[i] = head[j]
      BY <1>12, <3>1
    <3>3. head[j] = rd + (j - 1)
      BY <1>8, <2>3, <3>1
    <3>4. rd + (j - 1) = i - 1
      <4>1. j = i - rd /\ i \in Nat
        BY <1>2, <1>7, <2>1
      <4> QED BY <1>3, <4>1
    <3> QED BY <3>2, <3>3, <3>4
  <2>7. ASSUME NEW i \in 1..(Len(used) + Left)
        PROVE  used'[i] = i - 1
    <3>1. i \in 1..((Len(used) + Left) + here) /\ i <= Len(used) + Left
      BY <1>2, <1>7
    <3> QED BY <1>12, <2>5, <3>1
  <2>8. \A i \in 1..Len(used') : i > Len(used) + Left \/ i \in 1..(Len(used) + Left)
    BY <1>2, <1>7, <1>12
  <2> QED BY <1>12, <2>4, <2>6, <2>7, <2>8
<1>17. ASSUME width = 1, Len(used') = Len(used) PROVE rd' = avail'
  <2>1. here = 0
    BY <1>2, <1>7, <1>12, <1>17
  <2>2. k = 0
    BY <1>5, <1>7, <1>17, <2>1
  <2> QED BY <1>1, <1>3, <1>4, <2>2
<1>18. Len(used') \in Nat /\ Len(used) <= Len(used') /\ Len(used') <= Len(used) + n
  BY <1>2, <1>7, <1>12
<1> QED BY <1>2, <1>14, <1>15, <1>16, <1>17, <1>18 DEF Ordered

-----------------------------------------------------------------------------
(***************************************************************************)
(* Calls.                                                                  *)
(***************************************************************************)

\* What a step may do to what the program has.
Rewinds ==
  opens' = opens /\ Len(used') < Len(used) => op.kind = "scan" /\ Len(used') >= op.from

LEMMA LengthsAre ==
  ASSUME Areas
  PROVE  /\ Len(chunk) \in Nat /\ Len(used) \in Nat /\ curr \in Nat /\ Left \in Nat
         /\ Left = Len(chunk) - curr
BY LenProperties DEF Areas, Left

LEMMA AreasStay ==
  ASSUME Areas, UNCHANGED <<width, chunk, curr, rd, used>>, avail' \in Nat, avail <= avail'
  PROVE  Areas'
<1>1. rd' <= avail'
  BY DEF Areas
<1>2. width' \in Widths /\ chunk' \in Seq(Nat) /\ used' \in Seq(Nat) /\ rd' \in Nat
  BY DEF Areas
<1>3. Len(chunk') <= InSize' /\ curr' \in 0..Len(chunk')
  BY DEF Areas, InSize
<1> QED BY <1>1, <1>2, <1>3 DEF Areas

LEMMA OrderStays ==
  ASSUME Ordered, UNCHANGED <<width, chunk, curr, rd, used, dropped>>
  PROVE  Ordered'
BY DEF Ordered, HoldsLast, UsedInOrder, Left

LEMMA IdleIs == Idle \in Calls /\ Idle.kind = "idle"
<1>1. <<0>> \in Seq(Nat)
  OBVIOUS
<1> QED BY <1>1 DEF Idle, Calls

LEMMA IdleKeeps ==
  ASSUME op' = Idle
  PROVE  CallIs'
BY IdleIs DEF CallIs

LEMMA DescendIs ==
  ASSUME NEW o \in Calls, o.kind \in {"all", "some"}, IsList(o.list), NEW i \in 1..Len(o.list)
  PROVE  \/ Descend(o, i) = Idle
         \/ /\ i \in 1..(Len(o.list) - 1)
            /\ Descend(o, i) \in Calls
            /\ Descend(o, i).kind = o.kind /\ Descend(o, i).from = o.from
            /\ Descend(o, i).list = o.list /\ Descend(o, i).at = i
<1> DEFINE e == o.list
<1>1. CASE i = Len(e)
  BY <1>1 DEF Descend
<1>2. CASE i # Len(e)
  <2>1. Len(e) \in Nat /\ i \in 1..(Len(e) - 1) /\ i + 1 \in 1..Len(e) /\ i \in Nat
    BY <1>2 DEF IsList
  <2>2. e[i + 1] - e[i] \in Nat
    <3>1. e[i] \in Nat /\ e[i + 1] \in Nat /\ e[i] <= e[i + 1]
      BY <2>1, EdgesGrow
    <3> QED BY <3>1
  <2>3. Descend(o, i) = [o EXCEPT !.at = i, !.need = e[i + 1] - e[i]]
    BY <1>2 DEF Descend
  <2> DEFINE d == [o EXCEPT !.at = i, !.need = e[i + 1] - e[i]]
  <2>4. d \in Calls
    BY <2>1, <2>2 DEF Calls
  <2>5. d.kind = o.kind /\ d.from = o.from /\ d.list = o.list /\ d.at = i
    BY DEF Calls
  <2> QED BY <2>1, <2>3, <2>4, <2>5
<1> QED BY <1>1, <1>2

\* A call that goes on to a descriptor, or is over, is a call.
LEMMA DescendKeeps ==
  ASSUME NEW o \in Calls, o.kind \in {"all", "some"}, IsList(o.list), NEW i \in 1..Len(o.list),
         op' = Descend(o, i), o.from <= Len(used')
  PROVE  CallIs'
<1>1. CASE Descend(o, i) = Idle
  BY <1>1, IdleKeeps
<1>2. CASE Descend(o, i) # Idle
  <2>1. /\ op' \in Calls /\ op'.kind = o.kind /\ op'.from = o.from
        /\ op'.list = o.list /\ op'.at = i /\ i \in 1..(Len(o.list) - 1)
    BY <1>2, DescendIs
  <2>2. op'.kind # "scan"
    BY <2>1
  <2> QED BY <2>1, <2>2 DEF CallIs
<1> QED BY <1>1, <1>2

LEMMA ListsAre ==
  /\ \A n \in 1..MaxToken : IsList(<<0, n>>)
  /\ \A e \in Scatters : IsList(e)
<1>1. ASSUME NEW n \in Nat PROVE IsList(<<0, n>>)
  <2> DEFINE e == <<0, n>>
  <2>1. e \in Seq(Nat) /\ Len(e) = 2 /\ e[1] = 0 /\ e[2] = n
    OBVIOUS
  <2>2. \A i \in 1..(2 - 1) : e[i] <= e[i + 1]
    BY <2>1
  <2> HIDE DEF e
  <2>3. IsList(e)
    BY <2>1, <2>2 DEF IsList
  <2> QED BY <2>3 DEF e
<1>2. ASSUME NEW a \in Nat, NEW b \in Nat PROVE IsList(<<0, a, a + b>>)
  <2> DEFINE e == <<0, a, a + b>>
  <2>1. e \in Seq(Nat) /\ Len(e) = 3 /\ e[1] = 0 /\ e[2] = a /\ e[3] = a + b
    OBVIOUS
  <2>2. \A i \in 1..(3 - 1) : e[i] <= e[i + 1]
    <3>1. 0 <= a /\ a <= a + b
      OBVIOUS
    <3>2. ASSUME NEW i \in 1..(3 - 1) PROVE i = 1 \/ i = 2
      OBVIOUS
    <3>3. 1 + 1 = 2 /\ 2 + 1 = 3
      OBVIOUS
    <3> HIDE DEF e
    <3>4. e[1] <= e[1 + 1] /\ e[2] <= e[2 + 1]
      BY <2>1, <3>1, <3>3
    <3> QED BY <3>2, <3>4
  <2> HIDE DEF e
  <2>3. IsList(e)
    BY <2>1, <2>2 DEF IsList
  <2> QED BY <2>3 DEF e
<1>3. MaxToken \in Nat
  BY InAssumption
<1>4. \A n \in 1..MaxToken : n \in Nat
  BY <1>3
<1>5. \A n \in 0..MaxToken : n \in Nat
  BY <1>3
<1>6. \A n \in 1..MaxToken : IsList(<<0, n>>)
  BY <1>1, <1>4
<1>7. \A a, b \in 0..MaxToken : IsList(<<0, a, a + b>>)
  BY <1>2, <1>5
<1>8. ASSUME NEW e \in Scatters PROVE IsList(e)
  <2>1. PICK a, b \in 0..MaxToken : e = <<0, a, a + b>>
    BY DEF Scatters
  <2> QED BY Zenon, <1>7, <2>1
<1> QED BY <1>6, <1>8

LEMMA InitSound ==
  ASSUME InInit
  PROVE  Sound
<1>1. width \in Nat \ {0} /\ InBytes \in Nat /\ width \in Widths
  BY InAssumption DEF InInit
<1>2. InSize \in Nat
  BY <1>1, DivisionIs DEF InSize
<1>3. chunk = <<>> /\ curr = 0 /\ rd = 0 /\ avail = 0 /\ used = <<>>
  BY DEF InInit
<1>4. <<>> \in Seq(Nat) /\ Len(<<>>) = 0
  OBVIOUS
<1>5. Areas
  BY <1>1, <1>2, <1>3, <1>4 DEF Areas
<1>6. Ordered
  <2>1. Left = 0
    BY <1>3, <1>4 DEF Left
  <2> QED BY <1>3, <1>4, <2>1 DEF Ordered, HoldsLast, UsedInOrder
<1>7. History /\ Drained
  BY DEF InInit, History, Drained, EofIsDrained
<1>8. CallIs
  BY IdleIs DEF InInit, CallIs
<1> QED BY <1>5, <1>6, <1>7, <1>8 DEF Sound

LEMMA ArriveKeeps ==
  ASSUME Sound, Arrive
  PROVE  Sound' /\ Rewinds
<1>1. /\ avail' = avail + 1 /\ eof' = FALSE
      /\ UNCHANGED <<width, chunk, curr, rd, op, used, fails, opens, dropped>>
  BY DEF Arrive, binding
<1>2. avail \in Nat /\ Len(used) \in Nat
  BY LengthsAre DEF Sound, Areas
<1>3. Areas'
  <2>1. avail' \in Nat /\ avail <= avail'
    BY <1>1, <1>2
  <2> QED BY <1>1, <2>1, AreasStay DEF Sound
<1>4. Ordered'
  BY <1>1, OrderStays DEF Sound
<1>5. History' /\ Drained'
  BY <1>1 DEF Sound, History, Drained, EofIsDrained
<1>6. CallIs'
  BY <1>1 DEF Sound, CallIs
<1>7. Rewinds
  BY <1>1, <1>2 DEF Rewinds
<1> QED BY <1>3, <1>4, <1>5, <1>6, <1>7 DEF Sound

LEMMA ReadSomeKeeps ==
  ASSUME Sound, NEW n \in 1..MaxToken, ReadSome(n)
  PROVE  Sound' /\ Rewinds
<1>1. /\ op = Idle /\ op' = op /\ avail' = avail
      /\ width' = width /\ opens' = opens /\ dropped' = dropped
      /\ eof' = (fails' = fails /\ used' = used)
  BY DEF ReadSome, binding
<1>2. n \in Nat /\ n >= 1 /\ Left \in Nat /\ Len(used) \in Nat /\ fails \in Nat /\ avail \in Nat
  BY LengthsAre, InAssumption DEF Sound, History, Areas
<1>3. CallIs'
  BY <1>1, IdleKeeps
<1>4. eof' \in BOOLEAN
  BY <1>1
<1>5. ASSUME fails' \in Nat PROVE History'
  BY <1>1, <1>4, <1>5 DEF Sound, History
<1>6. CASE FromBuffer(n) /\ UNCHANGED fails
  <2>1. /\ Areas' /\ Ordered' /\ Len(used') = Len(used) + n
    BY <1>1, <1>2, <1>6, FromBufferKeeps DEF Sound
  <2>2. used' # used
    <3>1. Len(used') # Len(used)
      BY <1>2, <2>1
    <3> QED BY <3>1
  <2>3. ~eof'
    BY <1>1, <2>2
  <2>4. Drained'
    BY <2>3 DEF Drained, EofIsDrained
  <2>5. Rewinds
    BY <1>2, <2>1 DEF Rewinds
  <2> QED BY <1>2, <1>3, <1>5, <1>6, <2>1, <2>4, <2>5 DEF Sound
<1>7. CASE /\ n > Left
           /\ \E k \in 0..((n + InSize) * width) : Underflow(n, k)
           /\ UNCHANGED fails
  <2>1. PICK k \in 0..((n + InSize) * width) : Underflow(n, k)
    BY <1>7
  <2>2. k \in Nat
    OBVIOUS
  <2>3. /\ Areas' /\ Ordered' /\ Len(used') \in Nat /\ Len(used) <= Len(used')
        /\ width = 1 /\ Len(used') = Len(used) => rd' = avail'
    BY <1>1, <1>2, <1>7, <2>1, <2>2, UnderflowKeeps DEF Sound
  <2>4. eof' => used' = used
    BY <1>1
  <2>5. eof' => Len(used') = Len(used)
    BY <2>4
  <2>6. Drained'
    BY <1>1, <2>3, <2>5 DEF Drained, EofIsDrained
  <2>7. Rewinds
    BY <1>2, <2>3 DEF Rewinds
  <2> QED BY <1>2, <1>3, <1>5, <1>7, <2>3, <2>6, <2>7 DEF Sound
<1>8. CASE n > Left /\ Fails /\ UNCHANGED <<chunk, curr, rd, used>>
  <2>1. fails' = fails + 1
    BY <1>8 DEF Fails
  <2>2. fails' \in Nat /\ fails' # fails
    BY <1>2, <2>1
  <2>3. ~eof'
    BY <1>1, <2>2
  <2>4. Drained'
    BY <2>3 DEF Drained, EofIsDrained
  <2>5. Areas'
    <3>1. avail' \in Nat /\ avail <= avail'
      BY <1>1, <1>2
    <3> QED BY <1>1, <1>8, <3>1, AreasStay DEF Sound
  <2>6. Ordered'
    BY <1>1, <1>8, OrderStays DEF Sound
  <2>7. Rewinds
    BY <1>2, <1>8 DEF Rewinds
  <2> QED BY <1>3, <1>5, <2>2, <2>4, <2>5, <2>6, <2>7 DEF Sound
<1> QED BY <1>6, <1>7, <1>8 DEF ReadSome

LEMMA StartKeeps ==
  ASSUME Sound, NEW kind \in {"all", "some"}, NEW e, IsList(e), Start(kind, e)
  PROVE  Sound' /\ Rewinds
<1> DEFINE i == Position(e, 1, Len(e), Left)
           o == [Idle EXCEPT !.kind = kind, !.from = Len(used), !.list = e]
<1>1. /\ FromBuffer(e[i]) /\ op' = Descend(o, i) /\ eof' = FALSE
      /\ UNCHANGED <<avail, fails, width, opens, dropped>>
  BY DEF Start, binding
<1>2. Left \in Nat /\ Len(used) \in Nat
  BY LengthsAre DEF Sound
<1>3. i \in 1..Len(e) /\ e[i] \in Nat
  <2>1. 1 \in 1..Len(e) /\ Len(e) \in 1..Len(e)
    BY DEF IsList
  <2>2. i \in 1..Len(e)
    BY <1>2, <2>1, PositionFits
  <2> HIDE DEF i
  <2> QED BY <2>2, EdgesGrow DEF IsList
<1> HIDE DEF i
<1>4. /\ Areas' /\ Ordered' /\ Len(used') = Len(used) + e[i]
  BY <1>1, <1>3, FromBufferKeeps DEF Sound
<1>5. o \in Calls /\ o.kind = kind /\ o.from = Len(used) /\ o.list = e
  <2>1. e \in Seq(Nat) /\ <<0>> \in Seq(Nat)
    BY DEF IsList
  <2> QED BY <1>2, <2>1 DEF Idle, Calls
<1> HIDE DEF o
<1>6. o.from <= Len(used')
  BY <1>2, <1>3, <1>4, <1>5
<1>7. CallIs'
  BY <1>1, <1>3, <1>5, <1>6, DescendKeeps
<1>8. History' /\ Drained'
  BY <1>1 DEF Sound, History, Drained, EofIsDrained
<1>9. Rewinds
  BY <1>2, <1>3, <1>4 DEF Rewinds
<1> QED BY <1>4, <1>7, <1>8, <1>9 DEF Sound

\* What a round of a call leaves, whether it filled the descriptor or not.
LEMMA OutcomeKeeps ==
  ASSUME CallIs, op.kind \in {"all", "some"}, NEW progress \in Nat, progress <= op.need,
         Len(used) \in Nat, Len(used') = Len(used) + progress,
         IF op.kind = "all" THEN AllOutcome(progress) ELSE SomeOutcome(progress)
  PROVE  /\ CallIs' /\ eof' \in BOOLEAN
         /\ eof' => progress # op.need /\ Len(used') = Len(used)
<1>1. /\ op \in Calls /\ op.from <= Len(used) /\ IsList(op.list)
      /\ op.at \in 1..(Len(op.list) - 1) /\ op.need \in Nat /\ op.from \in Nat
      /\ op.kind # "idle"
  BY DEF CallIs, Calls
<1>2. op.from <= Len(used')
  BY <1>1
<1>3. op.at + 1 \in 1..Len(op.list)
  <2>1. Len(op.list) \in Nat
    BY <1>1 DEF IsList
  <2> QED BY <1>1, <2>1
<1>4. ASSUME op' = Descend(op, op.at + 1) PROVE CallIs'
  BY <1>1, <1>2, <1>3, <1>4, DescendKeeps
<1>5. ASSUME op' = Idle PROVE CallIs'
  BY <1>5, IdleKeeps
<1>6. ASSUME op' = [op EXCEPT !.need = @ - progress] PROVE CallIs'
  <2>1. op.need - progress \in Nat
    BY <1>1
  <2>2. op' \in Calls
    BY <1>1, <1>6, <2>1 DEF Calls
  <2>3. op'.kind = op.kind /\ op'.from = op.from /\ op'.list = op.list /\ op'.at = op.at
    BY <1>1, <1>6 DEF Calls
  <2>4. op'.kind # "scan"
    BY <2>3
  <2> QED BY <1>1, <1>2, <2>2, <2>3, <2>4 DEF CallIs
<1>7. CASE op.kind = "all"
  <2>1. AllOutcome(progress)
    BY <1>7
  <2>2. eof' = (progress = 0 /\ op.need > 0)
    BY <2>1 DEF AllOutcome
  <2>3. eof' \in BOOLEAN
    BY <2>2
  <2>4. eof' => progress = 0 /\ op.need > 0
    BY <2>2
  <2>5. eof' => progress # op.need /\ Len(used') = Len(used)
    BY <1>1, <2>4
  <2>6. \/ op' = Descend(op, op.at + 1)
        \/ op' = Idle
        \/ op' = [op EXCEPT !.need = @ - progress]
    BY <2>1 DEF AllOutcome
  <2> QED BY <1>4, <1>5, <1>6, <2>3, <2>5, <2>6
<1>8. CASE op.kind = "some"
  <2>1. SomeOutcome(progress)
    BY <1>8
  <2>2. eof' = (progress # op.need /\ Len(used') = op.from)
    BY <2>1 DEF SomeOutcome
  <2>3. eof' \in BOOLEAN
    BY <2>2
  <2>4. eof' => progress # op.need /\ Len(used') = op.from
    BY <2>2
  <2>5. eof' => progress # op.need /\ Len(used') = Len(used)
    BY <1>1, <2>4
  <2>6. op' = Descend(op, op.at + 1) \/ op' = Idle
    BY <2>1 DEF SomeOutcome
  <2> QED BY <1>4, <1>5, <2>3, <2>5, <2>6
<1> QED BY <1>7, <1>8

LEMMA RoundKeeps ==
  ASSUME Sound, Round
  PROVE  Sound' /\ Rewinds
<1> DEFINE progress == Len(used') - Len(used)
           outcome == IF op.kind = "all" THEN AllOutcome(progress) ELSE SomeOutcome(progress)
<1>1. op.kind \in {"all", "some"} /\ UNCHANGED <<avail, width, opens, dropped>>
  BY DEF Round, binding
<1>2. /\ Left \in Nat /\ Len(used) \in Nat /\ fails \in Nat /\ avail \in Nat
      /\ op.need \in Nat /\ CallIs
  BY LengthsAre DEF Sound, History, Areas, CallIs, Calls
<1>3. CASE FromBuffer(op.need) /\ outcome /\ UNCHANGED fails
  <2>1. /\ Areas' /\ Ordered' /\ Len(used') = Len(used) + op.need
    BY <1>1, <1>2, <1>3, FromBufferKeeps DEF Sound
  <2>2. progress = op.need
    BY <1>2, <2>1
  <2>3. CallIs' /\ eof' \in BOOLEAN /\ ~eof'
    <3> HIDE DEF progress
    <3>1. progress \in Nat /\ progress <= op.need /\ Len(used') = Len(used) + progress
      BY <1>2, <2>1, <2>2
    <3> QED BY <1>1, <1>2, <1>3, <2>2, <3>1, OutcomeKeeps
  <2>4. History' /\ Drained'
    BY <1>1, <1>3, <2>3 DEF Sound, History, Drained, EofIsDrained
  <2>5. Rewinds
    BY <1>2, <2>1 DEF Rewinds
  <2> QED BY <2>1, <2>3, <2>4, <2>5 DEF Sound
<1>4. CASE /\ op.need > Left
           /\ \E k \in 0..((op.need + InSize) * width) : Underflow(op.need, k)
           /\ outcome /\ UNCHANGED fails
  <2>1. PICK k \in 0..((op.need + InSize) * width) : Underflow(op.need, k)
    BY <1>4
  <2>2. k \in Nat
    OBVIOUS
  <2>3. /\ Areas' /\ Ordered' /\ Len(used') \in Nat
        /\ Len(used) <= Len(used') /\ Len(used') <= Len(used) + op.need
        /\ width = 1 /\ Len(used') = Len(used) => rd' = avail'
    BY <1>1, <1>2, <1>4, <2>1, <2>2, UnderflowKeeps DEF Sound
  <2>4. progress \in Nat /\ progress <= op.need /\ Len(used') = Len(used) + progress
    BY <1>2, <2>3
  <2>5. CallIs' /\ eof' \in BOOLEAN /\ (eof' => Len(used') = Len(used))
    <3> HIDE DEF progress
    <3> QED BY <1>1, <1>2, <1>4, <2>4, OutcomeKeeps
  <2>6. Drained'
    BY <1>1, <2>3, <2>5 DEF Drained, EofIsDrained
  <2>7. History'
    BY <1>1, <1>4, <2>5 DEF Sound, History
  <2>8. Rewinds
    BY <1>2, <2>3 DEF Rewinds
  <2> QED BY <2>3, <2>5, <2>6, <2>7, <2>8 DEF Sound
<1>5. CASE /\ op.need > Left /\ Fails
           /\ op' = Idle /\ eof' = FALSE /\ UNCHANGED <<chunk, curr, rd, used>>
  <2>1. fails' \in Nat
    BY <1>2, <1>5 DEF Fails
  <2>2. Areas'
    <3>1. avail' \in Nat /\ avail <= avail'
      BY <1>1, <1>2
    <3> QED BY <1>1, <1>5, <3>1, AreasStay DEF Sound
  <2>3. Ordered'
    BY <1>1, <1>5, OrderStays DEF Sound
  <2>4. CallIs'
    BY <1>5, IdleKeeps
  <2>5. History' /\ Drained'
    BY <1>1, <1>5, <2>1 DEF Sound, History, Drained, EofIsDrained
  <2>6. Rewinds
    BY <1>2, <1>5 DEF Rewinds
  <2> QED BY <2>2, <2>3, <2>4, <2>5, <2>6 DEF Sound
<1> QED BY <1>3, <1>4, <1>5 DEF Round

-----------------------------------------------------------------------------
(***************************************************************************)
(* Scanners, and other handles.                                            *)
(***************************************************************************)

LEMMA ScanStartKeeps ==
  ASSUME Sound, NEW n \in 1..MaxToken, ScanStart(n)
  PROVE  Sound' /\ Rewinds
<1> DEFINE o == [Idle EXCEPT !.kind = "scan", !.need = n, !.from = Len(used), !.begin = curr]
<1>1. /\ op' = o /\ eof' = FALSE
      /\ UNCHANGED <<width, chunk, curr, rd, avail, used, fails, opens, dropped>>
  BY DEF ScanStart, binding
<1>2. Len(used) \in Nat /\ curr \in Nat /\ avail \in Nat /\ n \in Nat
  BY LengthsAre, InAssumption DEF Sound, Areas
<1>3. o \in Calls /\ o.kind = "scan" /\ o.from = Len(used) /\ o.begin = curr
  <2>1. <<0>> \in Seq(Nat)
    OBVIOUS
  <2> QED BY <1>2, <2>1 DEF Idle, Calls
<1> HIDE DEF o
<1>4. CallIs'
  <2>1. /\ op' \in Calls /\ op'.kind = "scan" /\ op'.from = Len(used')
        /\ op'.begin = curr' /\ Len(used') = Len(used) /\ curr' = curr
    BY <1>1, <1>3
  <2>2. op'.begin <= curr' /\ op'.from + (curr' - op'.begin) <= Len(used')
    BY <1>2, <2>1
  <2>3. op'.from <= Len(used')
    BY <1>2, <2>1
  <2> QED BY <2>1, <2>2, <2>3 DEF CallIs
<1>5. Areas'
  <2>1. avail' \in Nat /\ avail <= avail'
    BY <1>1, <1>2
  <2> QED BY <1>1, <2>1, AreasStay DEF Sound
<1>6. Ordered'
  BY <1>1, OrderStays DEF Sound
<1>7. History' /\ Drained'
  BY <1>1 DEF Sound, History, Drained, EofIsDrained
<1>8. Rewinds
  BY <1>1, <1>2 DEF Rewinds
<1> QED BY <1>4, <1>5, <1>6, <1>7, <1>8 DEF Sound

\* Where a token in progress lies.
LEMMA ScanIs ==
  ASSUME Sound, op.kind = "scan"
  PROVE  /\ op \in Calls /\ op.need \in Nat /\ op.from \in Nat /\ op.begin \in Nat
         /\ op.begin <= curr /\ op.from + (curr - op.begin) <= Len(used)
         /\ op.from <= Len(used)
         /\ Len(used) \in Nat /\ curr \in Nat /\ Left \in Nat /\ Len(chunk) \in Nat
         /\ Left = Len(chunk) - curr
<1>1. /\ Len(used) \in Nat /\ curr \in Nat /\ Left \in Nat /\ Len(chunk) \in Nat
      /\ Left = Len(chunk) - curr
  BY LengthsAre DEF Sound
<1>2. /\ op \in Calls /\ op.need \in Nat /\ op.from \in Nat /\ op.begin \in Nat
      /\ op.begin <= curr /\ op.from + (curr - op.begin) <= Len(used)
      /\ op.from <= Len(used)
  BY DEF Sound, CallIs, Calls
<1> QED BY <1>1, <1>2

LEMMA ScanChunkKeeps ==
  ASSUME Sound, ScanChunk
  PROVE  Sound' /\ Rewinds
<1> DEFINE n == Least(op.need, Left)
           o == [op EXCEPT !.need = @ - n]
<1>1. /\ op.kind = "scan" /\ FromBuffer(n)
      /\ op' = IF n = op.need THEN Idle ELSE o
      /\ eof' = FALSE /\ UNCHANGED <<avail, fails, width, opens, dropped>>
  BY DEF ScanChunk, binding
<1>2. /\ op \in Calls /\ op.need \in Nat /\ op.from \in Nat /\ op.begin \in Nat
      /\ op.begin <= curr /\ op.from + (curr - op.begin) <= Len(used)
      /\ op.from <= Len(used)
      /\ Len(used) \in Nat /\ curr \in Nat /\ Left \in Nat
  BY <1>1, ScanIs
<1>3. n \in Nat /\ n <= op.need
  BY <1>2 DEF Least
<1> HIDE DEF n
<1>4. /\ Areas' /\ Ordered' /\ Len(used') = Len(used) + n /\ curr' = curr + n
  BY <1>1, <1>3, FromBufferKeeps DEF Sound
<1>5. CASE n = op.need
  <2>1. CallIs'
    BY <1>1, <1>5, IdleKeeps
  <2>2. History' /\ Drained'
    BY <1>1 DEF Sound, History, Drained, EofIsDrained
  <2>3. Rewinds
    BY <1>2, <1>3, <1>4 DEF Rewinds
  <2> QED BY <1>4, <2>1, <2>2, <2>3 DEF Sound
<1>6. CASE n # op.need
  <2>1. op.need - n \in Nat
    BY <1>2, <1>3
  <2>2. o \in Calls /\ o.kind = op.kind /\ o.from = op.from /\ o.begin = op.begin
    BY <1>2, <2>1 DEF Calls
  <2> HIDE DEF o
  <2>3. op' \in Calls /\ op'.kind = "scan" /\ op'.from = op.from /\ op'.begin = op.begin
    BY <1>1, <1>6, <2>2
  <2>4. op'.begin <= curr' /\ op'.from + (curr' - op'.begin) <= Len(used') /\ op'.from <= Len(used')
    BY <1>2, <1>3, <1>4, <2>3
  <2>5. CallIs'
    BY <2>3, <2>4 DEF CallIs
  <2>6. History' /\ Drained'
    BY <1>1 DEF Sound, History, Drained, EofIsDrained
  <2>7. Rewinds
    BY <1>2, <1>3, <1>4 DEF Rewinds
  <2> QED BY <1>4, <2>5, <2>6, <2>7 DEF Sound
<1> QED BY <1>5, <1>6

\* ibuffer_underflow puts new characters in place of those that were handed
\* out.
LEMMA RefillKeeps ==
  ASSUME Sound, Left = 0, NEW k \in Nat, Refill(InSize, k),
         UNCHANGED <<width, avail, used, dropped>>
  PROVE  Areas' /\ Ordered' /\ curr' = 0
<1> DEFINE room == InSize * width
           new == Chars(k)
<1>1. /\ k \in Delivers(room) /\ k > 0 /\ chunk' = new /\ curr' = 0 /\ rd' = rd + k
      /\ width' = width /\ avail' = avail /\ used' = used /\ dropped' = dropped
  BY DEF Refill
<1>2. /\ rd \in Nat /\ avail \in Nat /\ rd <= avail /\ InSize \in Nat
      /\ width \in Nat \ {0} /\ width \in Widths /\ used \in Seq(Nat)
      /\ Len(used) \in Nat
  BY SizesAre, LengthsAre DEF Sound, Areas
<1>3. k <= room /\ rd + k <= avail
  <2>1. room \in Nat
    BY <1>2
  <2> HIDE DEF room
  <2>2. avail # rd
    <3> SUFFICES ASSUME avail = rd PROVE FALSE
      OBVIOUS
    <3>1. k = 0
      BY <1>1 DEF Delivers
    <3> QED BY <1>1, <3>1
  <2>3. k \in 1..Least(room, avail - rd)
    BY <1>1, <2>2 DEF Delivers
  <2> QED BY <1>2, <2>1, <2>3 DEF Least
<1>4. /\ new \in Seq(Nat) /\ Len(new) = k \div width /\ Len(new) \in Nat
      /\ width = 1 => Len(new) = k /\ \A i \in 1..k : new[i] = rd + (i - 1)
  BY CharsAre DEF Sound
<1>5. Len(new) <= InSize
  BY <1>2, <1>3, <1>4, FitsCharacters
<1> HIDE DEF new, room
<1>6. Areas'
  <2>1. InSize' = InSize
    BY <1>1 DEF InSize
  <2>2. rd' \in Nat /\ avail' \in Nat /\ rd' <= avail'
    BY <1>1, <1>2, <1>3
  <2>3. curr' \in 0..Len(chunk')
    BY <1>1, <1>4
  <2>4. chunk' \in Seq(Nat) /\ Len(chunk') <= InSize'
    BY <1>1, <1>4, <1>5, <2>1
  <2> QED BY <1>1, <1>2, <2>2, <2>3, <2>4 DEF Areas
<1>7. HoldsLast'
  <2> SUFFICES ASSUME width = 1
               PROVE  /\ Len(new) <= rd + k
                      /\ \A i \in 1..Len(new) : new[i] = (rd + k) - Len(new) + (i - 1)
    BY <1>1 DEF HoldsLast
  <2>1. Len(new) = k /\ \A i \in 1..k : new[i] = rd + (i - 1)
    BY <1>4
  <2>2. k <= rd + k /\ \A i \in 1..k : (rd + k) - k + (i - 1) = rd + (i - 1)
    BY <1>2
  <2>3. ASSUME NEW i \in 1..k PROVE new[i] = (rd + k) - k + (i - 1)
    BY <2>1, <2>2
  <2> QED BY Zenon, <2>1, <2>2, <2>3
<1>8. UsedInOrder'
  <2> SUFFICES ASSUME width = 1, ~dropped
               PROVE  /\ Len(used) + Left' = rd + k
                      /\ \A i \in 1..Len(used) : used[i] = i - 1
    BY <1>1 DEF UsedInOrder
  <2>1. Len(used) + Left = rd /\ \A i \in 1..Len(used) : used[i] = i - 1
    BY DEF Sound, Ordered, UsedInOrder
  <2>2. Left' = Len(new) - 0 /\ Len(new) = k
    BY <1>1, <1>4 DEF Left
  <2>3. Len(used) + Left' = rd + k
    <3>1. Len(used) = rd
      BY <1>2, <2>1
    <3>2. Left' = k
      BY <2>2
    <3> QED BY <3>1, <3>2
  <2> QED BY <2>1, <2>3
<1> QED BY <1>1, <1>6, <1>7, <1>8 DEF Ordered

LEMMA ScanRefillKeeps ==
  ASSUME Sound, ScanRefill
  PROVE  Sound' /\ Rewinds
<1>1. /\ op.kind = "scan" /\ Left = 0
      /\ UNCHANGED <<avail, used, width, opens, dropped>>
  BY DEF ScanRefill, binding
<1>2. /\ op \in Calls /\ op.need \in Nat /\ op.from \in Nat /\ op.begin \in Nat
      /\ op.from <= Len(used) /\ Len(used) \in Nat
  BY <1>1, ScanIs
<1>3. avail \in Nat /\ rd \in Nat /\ rd <= avail /\ fails \in Nat /\ width \in Nat \ {0}
  BY SizesAre DEF Sound, Areas, History
<1>4. Rewinds
  BY <1>1, <1>2 DEF Rewinds
<1>5. CASE \E k \in 1..(InSize * width) :
             /\ Refill(InSize, k)
             /\ op' = [op EXCEPT !.begin = 0]
             /\ eof' = FALSE /\ UNCHANGED fails
  <2>1. PICK k \in 1..(InSize * width) :
             /\ Refill(InSize, k)
             /\ op' = [op EXCEPT !.begin = 0]
             /\ eof' = FALSE /\ UNCHANGED fails
    BY <1>5
  <2>2. k \in Nat
    OBVIOUS
  <2>3. Areas' /\ Ordered' /\ curr' = 0
    BY <1>1, <2>1, <2>2, RefillKeeps
  <2> DEFINE o == [op EXCEPT !.begin = 0]
  <2>4. o \in Calls /\ o.kind = op.kind /\ o.from = op.from /\ o.begin = 0
    BY <1>2 DEF Calls
  <2> HIDE DEF o
  <2>5. op' \in Calls /\ op'.kind = "scan" /\ op'.from = op.from /\ op'.begin = 0
    BY <1>1, <2>1, <2>4 DEF o
  <2>6. op'.begin <= curr' /\ op'.from + (curr' - op'.begin) <= Len(used') /\ op'.from <= Len(used')
    BY <1>1, <1>2, <2>3, <2>5
  <2>7. CallIs'
    BY <2>5, <2>6 DEF CallIs
  <2>8. History' /\ Drained'
    BY <1>1, <2>1 DEF Sound, History, Drained, EofIsDrained
  <2> QED BY <1>4, <2>3, <2>7, <2>8 DEF Sound
<1>6. CASE RefillSplit /\ op' = Idle /\ eof' = TRUE /\ UNCHANGED <<chunk, curr, fails>>
  <2>1. (avail - rd) % width # 0 /\ rd' = avail
    BY <1>6 DEF RefillSplit
  <2>2. width # 1
    <3> SUFFICES ASSUME width = 1 PROVE FALSE
      OBVIOUS
    <3>1. \A x \in Nat : x % 1 = 0
      OBVIOUS
    <3>2. avail - rd \in Nat
      BY <1>3
    <3> QED BY <2>1, <3>1, <3>2
  <2>3. Areas'
    <3>1. InSize' = InSize
      BY <1>1 DEF InSize
    <3>2. rd' \in Nat /\ avail' \in Nat /\ rd' <= avail'
      BY <1>1, <1>3, <2>1
    <3> QED BY <1>1, <1>6, <3>1, <3>2 DEF Sound, Areas
  <2>4. Ordered'
    BY <1>1, <2>2 DEF Ordered, HoldsLast, UsedInOrder
  <2>5. CallIs'
    BY <1>6, IdleKeeps
  <2>6. History' /\ Drained'
    BY <1>1, <1>6, <2>2 DEF Sound, History, Drained
  <2> QED BY <1>4, <2>3, <2>4, <2>5, <2>6 DEF Sound
<1>7. CASE Fails /\ op' = Idle /\ eof' = FALSE /\ UNCHANGED <<chunk, curr, rd>>
  <2>1. fails' \in Nat
    BY <1>3, <1>7 DEF Fails
  <2>2. Areas'
    <3>1. avail' \in Nat /\ avail <= avail'
      BY <1>1, <1>3
    <3> QED BY <1>1, <1>7, <3>1, AreasStay DEF Sound
  <2>3. Ordered'
    BY <1>1, <1>7, OrderStays DEF Sound
  <2>4. CallIs'
    BY <1>7, IdleKeeps
  <2>5. History' /\ Drained'
    BY <1>1, <1>7, <2>1 DEF Sound, History, Drained, EofIsDrained
  <2> QED BY <1>4, <2>2, <2>3, <2>4, <2>5 DEF Sound
<1> QED BY <1>5, <1>6, <1>7 DEF ScanRefill

\* At the end of the data a scanner gives back characters of its own token,
\* and they are the last of the get area.
LEMMA ScanEofKeeps ==
  ASSUME Sound, ScanEof
  PROVE  Sound' /\ Rewinds
<1>1. PICK r \in 0..MaxToken :
        LET back == GiveBack(r)
        IN  /\ curr' = Len(chunk) - back
            /\ used' = SubSeq(used, 1, Len(used) - back)
  BY DEF ScanEof
<1> DEFINE back == GiveBack(r)
<1>2. /\ curr' = Len(chunk) - back
      /\ used' = SubSeq(used, 1, Len(used) - back)
      /\ op.kind = "scan" /\ Left = 0 /\ avail = rd /\ op' = Idle /\ eof' = TRUE
      /\ UNCHANGED <<chunk, rd, avail, fails, width, opens, dropped>>
  BY <1>1 DEF ScanEof, binding
<1>3. /\ op.from \in Nat /\ op.begin \in Nat
      /\ op.begin <= curr /\ op.from + (curr - op.begin) <= Len(used)
      /\ Len(used) \in Nat /\ curr \in Nat /\ Len(chunk) \in Nat
      /\ Left = Len(chunk) - curr
  BY <1>2, ScanIs
<1>4. curr = Len(chunk)
  BY <1>2, <1>3
<1>5. /\ back \in Nat /\ back <= Len(chunk)
      /\ back <= Len(used) /\ Len(used) - back >= op.from
  <2>1. r \in Nat
    BY InAssumption
  <2>2. Len(chunk) - op.begin \in Nat
    BY <1>3, <1>4
  <2>3. back \in Nat /\ back <= Len(chunk) - op.begin
    BY <2>1, <2>2 DEF GiveBack, Least
  <2> HIDE DEF back
  <2> QED BY <1>3, <1>4, <2>2, <2>3
<1> HIDE DEF back
<1>6. /\ used' \in Seq(Nat) /\ Len(used') = Len(used) - back
      /\ \A i \in 1..(Len(used) - back) : used'[i] = used[i]
  <2> DEFINE m == Len(used) - back
  <2>1. m \in 0..Len(used) /\ 1 <= m + 1 /\ 1 \in Nat \ {0} /\ m + 1 - 1 = m
    BY <1>3, <1>5
  <2>2. used \in Seq(Nat)
    BY DEF Sound, Areas
  <2> HIDE DEF m
  <2>3. /\ SubSeq(used, 1, m) \in Seq(Nat) /\ Len(SubSeq(used, 1, m)) = m + 1 - 1
        /\ \A i \in 1..(m + 1 - 1) : SubSeq(used, 1, m)[i] = used[1 + i - 1]
    BY <2>1, <2>2, PieceIs
  <2>4. \A i \in 1..m : 1 + i - 1 = i
    BY <2>1
  <2>5. used' = SubSeq(used, 1, m)
    BY <1>2 DEF m
  <2>6. /\ used' \in Seq(Nat) /\ Len(used') = m
        /\ \A i \in 1..m : used'[i] = used[i]
    BY <2>1, <2>3, <2>4, <2>5
  <2> QED BY <2>6 DEF m
<1>7. Areas'
  <2>1. InSize' = InSize
    BY <1>2 DEF InSize
  <2>2. curr' \in 0..Len(chunk')
    BY <1>2, <1>3, <1>5
  <2> QED BY <1>2, <1>6, <2>1, <2>2 DEF Sound, Areas
<1>8. HoldsLast'
  BY <1>2 DEF Sound, Ordered, HoldsLast
<1>9. UsedInOrder'
  <2> SUFFICES ASSUME width = 1, ~dropped
               PROVE  /\ Len(used') + Left' = rd
                      /\ \A i \in 1..Len(used') : used'[i] = i - 1
    BY <1>2 DEF UsedInOrder
  <2>1. Len(used) + Left = rd /\ \A i \in 1..Len(used) : used[i] = i - 1
    BY DEF Sound, Ordered, UsedInOrder
  <2>2. Left' = Len(chunk) - (Len(chunk) - back)
    BY <1>2 DEF Left
  <2>3. Left' = back
    BY <1>3, <1>5, <2>2
  <2>4. Len(used') + Left' = rd
    BY <1>2, <1>3, <1>5, <1>6, <2>1, <2>3
  <2>5. \A i \in 1..(Len(used) - back) : i \in 1..Len(used)
    BY <1>3, <1>5
  <2> QED BY <1>6, <2>1, <2>4, <2>5
<1>10. CallIs'
  BY <1>2, IdleKeeps
<1>11. History' /\ Drained'
  BY <1>2 DEF Sound, History, Drained, EofIsDrained
<1>12. Rewinds
  BY <1>2, <1>5, <1>6 DEF Rewinds
<1> QED BY <1>7, <1>8, <1>9, <1>10, <1>11, <1>12 DEF Sound, Ordered

LEMMA RebindKeeps ==
  ASSUME Sound, Rebind
  PROVE  Sound' /\ Rewinds
<1>1. /\ op = Idle /\ op' = op /\ width' = width /\ opens' = opens + 1
      /\ chunk' = <<>> /\ curr' = 0 /\ eof' = FALSE
  BY DEF Rebind
<1>2. opens \in Nat /\ fails \in Nat /\ avail \in Nat /\ rd \in Nat /\ rd <= avail
  BY DEF Sound, History, Areas
<1>3. /\ InSize' = InSize /\ InSize \in Nat /\ width \in Widths
      /\ Left \in Nat /\ Len(used) \in Nat /\ used \in Seq(Nat)
  BY <1>1, SizesAre, LengthsAre DEF InSize, Sound, Areas
<1>4. chunk' \in Seq(Nat) /\ Len(chunk') = 0 /\ curr' \in 0..Len(chunk') /\ Left' = 0
  <2>1. <<>> \in Seq(Nat) /\ Len(<<>>) = 0
    OBVIOUS
  <2>2. Left' = Len(<<>>) - 0
    BY <1>1 DEF Left
  <2> QED BY <1>1, <2>1, <2>2
<1>5. ASSUME rd' \in Nat PROVE HoldsLast'
  BY <1>4, <1>5 DEF HoldsLast
<1>6. CallIs'
  BY <1>1, IdleKeeps
<1>7. Drained'
  BY <1>1 DEF Drained, EofIsDrained
<1>8. Rewinds
  BY <1>1, <1>2 DEF Rewinds
<1>9. CASE /\ rd' = 0 /\ avail' = 0 /\ used' = <<>> /\ dropped' = FALSE
           /\ UNCHANGED fails
  <2>1. used' \in Seq(Nat) /\ Len(used') = 0
    BY <1>9
  <2>2. rd' \in Nat /\ avail' \in Nat /\ rd' <= avail'
    BY <1>9
  <2>3. Areas'
    BY <1>1, <1>3, <1>4, <2>1, <2>2 DEF Areas
  <2>4. UsedInOrder'
    BY <1>4, <1>9, <2>1 DEF UsedInOrder
  <2>5. History'
    <3>1. opens' \in Nat
      BY <1>1, <1>2
    <3> QED BY <1>1, <1>2, <1>9, <3>1 DEF History
  <2> QED BY <1>5, <1>6, <1>7, <1>8, <2>2, <2>3, <2>4, <2>5 DEF Sound, Ordered
<1>10. CASE /\ Fails
            /\ dropped' = (dropped \/ Left > 0)
            /\ UNCHANGED <<rd, avail, used>>
  <2>1. fails' = fails + 1
    BY <1>10 DEF Fails
  <2>2. fails' \in Nat /\ opens' \in Nat
    BY <1>1, <1>2, <2>1
  <2>3. Areas'
    BY <1>1, <1>2, <1>3, <1>4, <1>10 DEF Areas
  <2>4. ~dropped' => ~dropped /\ ~(Left > 0)
    BY <1>10
  <2>5. ~dropped' => ~dropped /\ Left = 0
    BY <1>3, <2>4
  <2>6. UsedInOrder'
    <3> SUFFICES ASSUME width = 1, ~dropped'
                 PROVE  /\ Len(used) + 0 = rd
                        /\ \A i \in 1..Len(used) : used[i] = i - 1
      BY <1>1, <1>4, <1>10 DEF UsedInOrder
    <3>1. Len(used) + Left = rd /\ \A i \in 1..Len(used) : used[i] = i - 1
      BY <2>5 DEF Sound, Ordered, UsedInOrder
    <3> QED BY <2>5, <3>1
  <2>7. dropped' \in BOOLEAN
    BY <1>10
  <2>8. History'
    BY <1>1, <2>2, <2>7 DEF History
  <2> QED BY <1>2, <1>5, <1>6, <1>7, <1>8, <1>10, <2>3, <2>6, <2>8 DEF Sound, Ordered
<1> QED BY <1>9, <1>10 DEF Rebind

-----------------------------------------------------------------------------
(***************************************************************************)
(* The invariant, and what it says.                                        *)
(***************************************************************************)

LEMMA StepSound ==
  ASSUME Sound, [InNext]_inVars
  PROVE  Sound' /\ Rewinds
<1>1. CASE Arrive
  BY <1>1, ArriveKeeps
<1>2. ASSUME NEW n \in 1..MaxToken, ReadSome(n) \/ Start("all", <<0, n>>) \/ ScanStart(n)
      PROVE  Sound' /\ Rewinds
  <2>1. IsList(<<0, n>>)
    BY ListsAre
  <2> QED BY <1>2, <2>1, ReadSomeKeeps, StartKeeps, ScanStartKeeps
<1>3. ASSUME NEW e \in Scatters, Start("all", e) \/ Start("some", e)
      PROVE  Sound' /\ Rewinds
  BY <1>3, ListsAre, StartKeeps
<1>4. CASE CallStep
  BY <1>4, RoundKeeps, ScanChunkKeeps, ScanRefillKeeps, ScanEofKeeps DEF CallStep
<1>5. CASE Rebind
  BY <1>5, RebindKeeps
<1>6. CASE UNCHANGED inVars
  <2>1. UNCHANGED <<width, chunk, curr, rd, avail, op, used, eof, fails, opens, dropped>>
    BY <1>6 DEF inVars
  <2>2. Areas' /\ Ordered'
    <3>1. avail' \in Nat /\ avail <= avail'
      BY <2>1 DEF Sound, Areas
    <3> QED BY <2>1, <3>1, AreasStay, OrderStays DEF Sound
  <2>3. History' /\ Drained' /\ CallIs'
    BY <2>1 DEF Sound, History, Drained, EofIsDrained, CallIs
  <2>4. Rewinds
    <3>1. Len(used) \in Nat
      BY LengthsAre DEF Sound
    <3> QED BY <2>1, <3>1 DEF Rewinds
  <2> QED BY <2>2, <2>3, <2>4 DEF Sound
<1> QED BY <1>1, <1>2, <1>3, <1>4, <1>5, <1>6 DEF InNext

LEMMA AlwaysSound == InSpec => []Sound
<1>1. InInit => Sound
  BY InitSound
<1>2. Sound /\ [InNext]_inVars => Sound'
  BY StepSound
<1> QED BY <1>1, <1>2, PTL DEF InSpec

\* No get area is overrun and no call leaves its list: ibuffer's pointers and
\* the descriptors of read_all and of the scatter reads keep their ranges, for
\* characters of every size.
THEOREM GetAreaTyped == InSpec => []InTypeOK
<1>1. Sound => InTypeOK
  BY DEF Sound, Areas, History, CallIs, Calls, InTypeOK
<1> QED BY <1>1, AlwaysSound, PTL

LEMMA SoundInOrder ==
  ASSUME Sound
  PROVE  InputInOrder
<1> SUFFICES ASSUME width = 1 PROVE OnceInOrder /\ EofIsDrained
  BY DEF InputInOrder
<1>1. EofIsDrained
  BY DEF Sound, Drained
<1>2. ASSUME ~dropped PROVE used \o Rest = [i \in 1..rd |-> i - 1]
  <2>1. /\ used \in Seq(Nat) /\ Len(used) \in Nat
        /\ Rest \in Seq(Nat) /\ Len(Rest) = Left /\ Left \in Nat
        /\ Len(chunk) \in Nat /\ curr + Left = Len(chunk) /\ curr \in Nat
        /\ \A i \in 1..Left : Rest[i] = chunk[curr + i]
    BY RestIs, LengthsAre DEF Sound, Areas
  <2>2. Len(used) + Left = rd /\ \A i \in 1..Len(used) : used[i] = i - 1
    BY <1>2 DEF Sound, Ordered, UsedInOrder
  <2>3. \A i \in 1..Len(chunk) : chunk[i] = rd - Len(chunk) + (i - 1)
    BY DEF Sound, Ordered, HoldsLast
  <2> DEFINE all == used \o Rest
  <2>4. /\ all \in Seq(Nat) /\ Len(all) = rd
        /\ \A i \in 1..rd : all[i] = IF i <= Len(used) THEN used[i] ELSE Rest[i - Len(used)]
    <3>1. /\ all \in Seq(Nat) /\ Len(all) = Len(used) + Len(Rest)
          /\ \A i \in 1..(Len(used) + Len(Rest)) :
               all[i] = IF i <= Len(used) THEN used[i] ELSE Rest[i - Len(used)]
      BY <2>1, JoinIs
    <3>2. Len(used) + Len(Rest) = rd
      BY <2>1, <2>2
    <3> QED BY <3>1, <3>2
  <2> HIDE DEF all
  <2>5. ASSUME NEW i \in 1..rd PROVE all[i] = i - 1
    <3>1. CASE i <= Len(used)
      <4>1. i \in 1..Len(used) /\ all[i] = used[i]
        BY <2>1, <2>4, <3>1
      <4> QED BY <2>2, <4>1
    <3>2. CASE i > Len(used)
      <4> DEFINE j == i - Len(used)
      <4>1. j \in 1..Left /\ curr + j \in 1..Len(chunk) /\ ~(i <= Len(used))
        BY <2>1, <2>2, <3>2
      <4>2. all[i] = chunk[curr + j]
        BY <2>1, <2>4, <4>1
      <4>3. chunk[curr + j] = rd - Len(chunk) + ((curr + j) - 1)
        BY <2>3, <4>1
      <4>4. rd - Len(chunk) + ((curr + j) - 1) = i - 1
        <5>1. rd = Len(used) + Left /\ Len(chunk) = curr + Left /\ i \in Nat
          BY <2>1, <2>2
        <5>2. \A u, l, c \in Nat : (u + l) - (c + l) + ((c + (i - u)) - 1) = i - 1
          BY <5>1
        <5> QED BY <2>1, <5>1, <5>2
      <4> QED BY <4>2, <4>3, <4>4
    <3> QED BY <2>1, <3>1, <3>2
  <2>6. all = [i \in 1..Len(all) |-> all[i]]
    BY <2>4
  <2>7. all = [i \in 1..rd |-> i - 1]
    BY <2>4, <2>5, <2>6
  <2> QED BY <2>7 DEF all
<1> QED BY <1>1, <1>2 DEF OnceInOrder

\* Characters of one byte are handed out once and in the order in which they
\* came, and the end of the data is told only when all of it was taken,
\* whatever a read returns, wherever a call fails and however a scanner
\* rewinds (read_some_underflow, ibuffer_underflow, the eof rewind).
THEOREM CharactersInOrder == InSpec => []InputInOrder
<1>1. Sound => InputInOrder
  BY SoundInOrder
<1> QED BY <1>1, AlwaysSound, PTL

\* scan_context_eof_rewind puts back no character from before its own token.
THEOREM RewindKeepsToken == InSpec => RewindWithinToken
<1>1. Sound /\ [InNext]_inVars =>
        [opens' = opens /\ Len(used') < Len(used) =>
           op.kind = "scan" /\ Len(used') >= op.from]_inVars
  BY StepSound DEF Rewinds
<1> QED BY <1>1, AlwaysSound, PTL DEF InSpec, RewindWithinToken

-----------------------------------------------------------------------------
(***************************************************************************)
(* The two put areas and the get area side by side.  That a gathered write *)
(* may stop inside the put area loses characters, and no area is overrun   *)
(* by it, nor does a character stray: what the code keeps of the put area, *)
(* if not the right part, is a part of it.                                 *)
(***************************************************************************)

ShortHolds == Short!TypeOK /\ Short!NoStray /\ sBase <= sNext

LEMMA ShortIs ==
  ASSUME ShortHolds
  PROVE  /\ sAlloc \in BOOLEAN /\ sPend \in Seq(Nat) /\ sDev \in Seq(Nat) /\ sAcc \in Seq(Nat)
         /\ Len(sPend) \in Nat /\ Len(sPend) <= (IF sAlloc THEN BufSize ELSE 0)
         /\ sHandle \in {"open", "closed", "dead"}
         /\ sNext \in Nat /\ sBase \in Nat /\ sErrs \in Nat /\ sLost \in BOOLEAN
         /\ \A e \in sSealed : e.acc \in Seq(Nat) /\ e.dev \in Seq(Nat)
         /\ sBase <= sNext
         /\ ToSet(sDev) \cup ToSet(sPend) \subseteq sBase..(sNext - 1)
<1>1. /\ Short!TypeOK /\ sBase <= sNext
      /\ ToSet(sDev) \cup ToSet(sPend) \subseteq sBase..(sNext - 1)
  BY DEF ShortHolds, Short!NoStray, Short!ToSet, ToSet
<1>2. sPend \in Seq(Nat)
  BY <1>1 DEF Short!TypeOK
<1>3. Len(sPend) \in Nat
  BY <1>2, LenProperties
<1> QED BY <1>1, <1>3 DEF Short!TypeOK

LEMMA ShortFresh ==
  ASSUME ShortHolds, NEW n \in Nat
  PROVE  /\ Short!Fresh(n) \in Seq(Nat) /\ Len(Short!Fresh(n)) = n
         /\ ToSet(Short!Fresh(n)) = sNext..(sNext + n - 1)
<1>1. Short!Fresh(n) = [i \in 1..n |-> sNext + i - 1]
  BY DEF Short!Fresh
<1> QED BY <1>1, ShortIs, Numbered

\* A step that takes n characters from the program, and puts them and those
\* there were where it may.
LEMMA ShortGoesOn ==
  ASSUME ShortHolds, NEW n \in Nat,
         sNext' = sNext + n, sBase' = sBase, sSealed' = sSealed,
         sHandle' \in {"open", "closed", "dead"}, sLost' \in BOOLEAN,
         sErrs' \in Nat, sAcc' \in Seq(Nat), sAlloc' \in BOOLEAN,
         sDev' \in Seq(Nat), sPend' \in Seq(Nat),
         Len(sPend') <= (IF sAlloc' THEN BufSize ELSE 0),
         ToSet(sDev') \cup ToSet(sPend')
           \subseteq ToSet(sDev) \cup ToSet(sPend) \cup sNext..(sNext + n - 1)
  PROVE  ShortHolds'
<1>1. /\ sNext \in Nat /\ sBase \in Nat /\ sBase <= sNext
      /\ ToSet(sDev) \cup ToSet(sPend) \subseteq sBase..(sNext - 1)
      /\ \A e \in sSealed : e.acc \in Seq(Nat) /\ e.dev \in Seq(Nat)
  BY ShortIs
<1>2. sNext' \in Nat /\ sBase' \in Nat /\ sBase' <= sNext'
  BY <1>1
<1>3. Short!TypeOK'
  BY <1>1, <1>2 DEF Short!TypeOK
<1>4. /\ sBase..(sNext - 1) \subseteq sBase..(sNext + n - 1)
      /\ sNext..(sNext + n - 1) \subseteq sBase..(sNext + n - 1)
  BY <1>1
<1>5. ToSet(sDev') \cup ToSet(sPend') \subseteq sBase'..(sNext' - 1)
  <2>1. sBase'..(sNext' - 1) = sBase..(sNext + n - 1)
    BY <1>1
  <2>2. ToSet(sDev') \cup ToSet(sPend') \subseteq sBase..(sNext + n - 1)
    BY <1>1, <1>4
  <2> QED BY <2>1, <2>2
<1>6. Short!NoStray'
  BY <1>5 DEF Short!NoStray, Short!ToSet, ToSet
<1> QED BY <1>2, <1>3, <1>6 DEF ShortHolds

\* A step that begins with an empty put area and nothing received.
LEMMA ShortStartsOver ==
  ASSUME ShortHolds, sNext' = sNext, sBase' \in {sBase, sNext},
         sHandle' \in {"open", "closed", "dead"}, sLost' = sLost,
         sErrs' \in Nat, sAcc' = <<>>, sAlloc' = sAlloc, sDev' = <<>>, sPend' = <<>>,
         sSealed' = sSealed \/ Short!Seal(sDev \o sPend)
  PROVE  ShortHolds'
<1>1. /\ sAlloc \in BOOLEAN /\ sPend \in Seq(Nat) /\ sDev \in Seq(Nat) /\ sAcc \in Seq(Nat)
      /\ sNext \in Nat /\ sBase \in Nat /\ sLost \in BOOLEAN /\ sBase <= sNext
      /\ \A e \in sSealed : e.acc \in Seq(Nat) /\ e.dev \in Seq(Nat)
  BY ShortIs
<1>2. sNext' \in Nat /\ sBase' \in Nat /\ sBase' <= sNext'
  BY <1>1
<1>3. \A e \in sSealed' : e.acc \in Seq(Nat) /\ e.dev \in Seq(Nat)
  <2>1. CASE sSealed' = sSealed
    BY <1>1, <2>1
  <2>2. CASE Short!Seal(sDev \o sPend)
    <3>1. sDev \o sPend \in Seq(Nat)
      BY <1>1, ConcatProperties
    <3>2. ASSUME NEW e \in sSealed'
          PROVE  e \in sSealed \/ (e.acc = sAcc /\ e.dev = sDev \o sPend)
      BY <2>2 DEF Short!Seal
    <3> QED BY <1>1, <3>1, <3>2
  <2> QED BY <2>1, <2>2
<1>4. /\ sDev' \in Seq(Nat) /\ sPend' \in Seq(Nat) /\ sAcc' \in Seq(Nat)
      /\ Len(sPend') = 0 /\ ToSet(sDev') = {} /\ ToSet(sPend') = {}
  BY ToSetEmpty
<1>5. Short!TypeOK'
  BY <1>1, <1>2, <1>3, <1>4 DEF Short!TypeOK
<1>6. Short!NoStray'
  BY <1>4 DEF Short!NoStray, Short!ToSet, ToSet
<1> QED BY <1>2, <1>5, <1>6 DEF ShortHolds

\* What is accepted has numbers.
LEMMA ShortAccepts ==
  ASSUME ShortHolds, NEW n \in Nat, Short!Accept(n)
  PROVE  sAcc' \in Seq(Nat) /\ sNext' = sNext + n
BY ShortIs, ShortFresh, ConcatProperties DEF Short!Accept

LEMMA ShortPuts ==
  ASSUME ShortHolds, NEW n \in Nat, Short!PutInBuffer(n) \/ Short!AllocateAndPut(n),
         UNCHANGED Short!history
  PROVE  ShortHolds'
<1>1. /\ sAlloc \in BOOLEAN /\ sPend \in Seq(Nat) /\ sDev \in Seq(Nat) /\ sErrs \in Nat
      /\ Len(sPend) \in Nat /\ Len(sPend) <= (IF sAlloc THEN BufSize ELSE 0)
      /\ sHandle \in {"open", "closed", "dead"} /\ sLost \in BOOLEAN
  BY ShortIs
<1>2. /\ sHandle' = sHandle /\ sLost' = sLost /\ sBase' = sBase /\ sSealed' = sSealed
      /\ Short!Accept(n) /\ sDev' = sDev /\ sErrs' = sErrs
  BY DEF Short!history, Short!PutInBuffer, Short!AllocateAndPut
<1>3. sAcc' \in Seq(Nat) /\ sNext' = sNext + n
  BY <1>2, ShortAccepts
<1>4. /\ Short!Fresh(n) \in Seq(Nat) /\ Len(Short!Fresh(n)) = n
      /\ ToSet(Short!Fresh(n)) = sNext..(sNext + n - 1)
  BY ShortFresh
<1>5. /\ sAlloc' \in BOOLEAN /\ sPend' \in Seq(Nat)
      /\ Len(sPend') <= (IF sAlloc' THEN BufSize ELSE 0)
      /\ ToSet(sPend') \subseteq ToSet(sPend) \cup sNext..(sNext + n - 1)
  <2>1. CASE Short!PutInBuffer(n)
    <3>1. n <= Short!Remaining /\ sPend' = sPend \o Short!Fresh(n) /\ sAlloc' = sAlloc
      BY <2>1 DEF Short!PutInBuffer
    <3>2. /\ sPend' \in Seq(Nat) /\ Len(sPend') = Len(sPend) + n
          /\ ToSet(sPend') = ToSet(sPend) \cup sNext..(sNext + n - 1)
      <4>1. /\ sPend \o Short!Fresh(n) \in Seq(Nat)
            /\ Len(sPend \o Short!Fresh(n)) = Len(sPend) + Len(Short!Fresh(n))
        BY <1>1, <1>4, ConcatProperties
      <4>2. ToSet(sPend \o Short!Fresh(n)) = ToSet(sPend) \cup ToSet(Short!Fresh(n))
        BY <1>1, <1>4, ToSetConcat
      <4> QED BY <1>4, <3>1, <4>1, <4>2
    <3> QED BY <1>1, <3>1, <3>2 DEF Short!Remaining
  <2>2. CASE Short!AllocateAndPut(n)
    <3>1. n < BufSize /\ sAlloc' = TRUE /\ sPend' = Short!Fresh(n)
      BY <2>2 DEF Short!AllocateAndPut
    <3> QED BY <1>4, <3>1
  <2> QED BY <2>1, <2>2
<1> QED BY <1>1, <1>2, <1>3, <1>5, ShortGoesOn

\* The handle takes the put area and the first n of the range.
LEMMA ShortGathers ==
  ASSUME ShortHolds, NEW n \in Nat, sDev' = sDev \o sPend \o Short!Fresh(n), sPend' = <<>>,
         Short!Accept(n), UNCHANGED <<sAlloc, sErrs, Short!history>>
  PROVE  ShortHolds'
<1>1. /\ sAlloc \in BOOLEAN /\ sPend \in Seq(Nat) /\ sDev \in Seq(Nat) /\ sErrs \in Nat
      /\ sHandle \in {"open", "closed", "dead"} /\ sLost \in BOOLEAN
  BY ShortIs
<1>2. sHandle' = sHandle /\ sLost' = sLost /\ sBase' = sBase /\ sSealed' = sSealed
  BY DEF Short!history
<1>3. sAcc' \in Seq(Nat) /\ sNext' = sNext + n
  BY ShortAccepts
<1>4. /\ Short!Fresh(n) \in Seq(Nat)
      /\ ToSet(Short!Fresh(n)) = sNext..(sNext + n - 1)
  BY ShortFresh
<1>5. sDev \o sPend \in Seq(Nat) /\ ToSet(sDev \o sPend) = ToSet(sDev) \cup ToSet(sPend)
  BY <1>1, ConcatProperties, ToSetConcat
<1>6. /\ sDev' \in Seq(Nat)
      /\ ToSet(sDev') = ToSet(sDev) \cup ToSet(sPend) \cup sNext..(sNext + n - 1)
  BY <1>4, <1>5, ConcatProperties, ToSetConcat
<1>7. /\ sPend' \in Seq(Nat) /\ Len(sPend') = 0 /\ ToSet(sPend') = {}
      /\ 0 <= (IF sAlloc' THEN BufSize ELSE 0)
  BY ToSetEmpty
<1> QED BY <1>1, <1>2, <1>3, <1>6, <1>7, ShortGoesOn

\* The handle takes a beginning of the put area and of n more characters, and
\* throws.
LEMMA ShortBreaks ==
  ASSUME ShortHolds, NEW n \in Nat, NEW s \in Seq(Nat),
         ToSet(s) \subseteq ToSet(sPend) \cup sNext..(sNext + n - 1),
         Short!Breaks(s), Short!Reject(n), UNCHANGED <<sAlloc, sPend, Short!history>>
  PROVE  ShortHolds'
<1>1. /\ sAlloc \in BOOLEAN /\ sPend \in Seq(Nat) /\ sDev \in Seq(Nat) /\ sErrs \in Nat
      /\ sAcc \in Seq(Nat) /\ Len(sPend) <= (IF sAlloc THEN BufSize ELSE 0)
      /\ sHandle \in {"open", "closed", "dead"} /\ sLost \in BOOLEAN
  BY ShortIs
<1>2. /\ sHandle' = sHandle /\ sLost' = sLost /\ sBase' = sBase /\ sSealed' = sSealed
      /\ sAlloc' = sAlloc /\ sPend' = sPend
      /\ sErrs' = sErrs + 1 /\ sNext' = sNext + n /\ sAcc' = sAcc
  BY DEF Short!history, Short!Reject
<1>3. PICK k \in 0..(Len(s) - 1) : sDev' = sDev \o Short!First(s, k)
  BY DEF Short!Breaks
<1>4. Short!First(s, k) \in Seq(Nat) /\ ToSet(Short!First(s, k)) \subseteq ToSet(s)
  <2>1. Short!First(s, k) = First(s, k) /\ k \in 0..Len(s)
    BY <1>3, LenProperties DEF Short!First, First
  <2> QED BY <2>1, FirstProperties
<1>5. sDev' \in Seq(Nat) /\ ToSet(sDev') = ToSet(sDev) \cup ToSet(Short!First(s, k))
  BY <1>1, <1>3, <1>4, ConcatProperties, ToSetConcat
<1>6. ToSet(sDev') \cup ToSet(sPend')
        \subseteq ToSet(sDev) \cup ToSet(sPend) \cup sNext..(sNext + n - 1)
  BY <1>2, <1>4, <1>5
<1>7. sErrs' \in Nat
  BY <1>1, <1>2
<1> QED BY <1>1, <1>2, <1>5, <1>6, <1>7, ShortGoesOn

LEMMA ShortWriteBreaks ==
  ASSUME ShortHolds, NEW n \in Nat, Short!WriteAllThrows(n), UNCHANGED Short!history
  PROVE  ShortHolds'
<1>1. sPend \in Seq(Nat) /\ Short!Fresh(n) \in Seq(Nat)
      /\ ToSet(Short!Fresh(n)) = sNext..(sNext + n - 1)
  BY ShortIs, ShortFresh
<1>2. /\ sPend \o Short!Fresh(n) \in Seq(Nat)
      /\ ToSet(sPend \o Short!Fresh(n)) = ToSet(sPend) \cup sNext..(sNext + n - 1)
  BY <1>1, ConcatProperties, ToSetConcat
<1>3. /\ Short!Breaks(sPend \o Short!Fresh(n)) /\ Short!Reject(n)
      /\ UNCHANGED <<sAlloc, sPend, Short!history>>
  BY DEF Short!WriteAllThrows
<1> QED BY <1>2, <1>3, ShortBreaks

\* The handle stops inside the put area: k characters of it are kept.
LEMMA ShortStops ==
  ASSUME ShortHolds, Short!WrotePartOfBuffer, UNCHANGED <<sAlloc, sErrs, Short!history>>
  PROVE  ShortHolds'
<1>1. /\ sAlloc \in BOOLEAN /\ sPend \in Seq(Nat) /\ sDev \in Seq(Nat) /\ sErrs \in Nat
      /\ sAcc \in Seq(Nat) /\ Len(sPend) \in Nat /\ Len(sPend) <= (IF sAlloc THEN BufSize ELSE 0)
      /\ sHandle \in {"open", "closed", "dead"} /\ sLost \in BOOLEAN /\ sNext \in Nat
  BY ShortIs
<1>2. PICK k \in 1..(Len(sPend) - 1) :
        sDev' = sDev \o Short!First(sPend, k) /\ sPend' = Short!Kept(k)
  BY DEF Short!WrotePartOfBuffer
<1>3. /\ sHandle' = sHandle /\ sLost' = sLost /\ sBase' = sBase /\ sSealed' = sSealed
      /\ sAlloc' = sAlloc /\ sErrs' = sErrs /\ sAcc' = sAcc /\ sNext' = sNext + 0
  BY <1>1 DEF Short!history, Short!WrotePartOfBuffer
<1>4. /\ Short!First(sPend, k) \in Seq(Nat)
      /\ ToSet(Short!First(sPend, k)) \subseteq ToSet(sPend)
  <2>1. Short!First(sPend, k) = First(sPend, k) /\ k \in 0..Len(sPend)
    BY <1>1, <1>2 DEF Short!First, First
  <2> QED BY <1>1, <2>1, FirstProperties
<1>5. sDev' \in Seq(Nat) /\ ToSet(sDev') = ToSet(sDev) \cup ToSet(Short!First(sPend, k))
  BY <1>1, <1>2, <1>4, ConcatProperties, ToSetConcat
<1>6. /\ sPend' \in Seq(Nat) /\ Len(sPend') = k /\ ToSet(sPend') \subseteq ToSet(sPend)
  <2>1. sPend' = SubSeq(sPend, Len(sPend) - k + 1, Len(sPend))
    BY <1>2 DEF Short!Kept
  <2>2. Len(sPend) - k + 1 \in 1..(Len(sPend) + 1) /\ Len(sPend) \in 0..Len(sPend)
    BY <1>1, <1>2
  <2>3. /\ sPend' \in Seq(Nat) /\ ToSet(sPend') \subseteq ToSet(sPend)
        /\ Len(sPend') = IF Len(sPend) - k + 1 <= Len(sPend)
                         THEN Len(sPend) - (Len(sPend) - k + 1) + 1 ELSE 0
    BY <1>1, <2>1, <2>2, ToSetSubSeq
  <2> QED BY <1>1, <1>2, <2>3
<1>7. Len(sPend') <= (IF sAlloc' THEN BufSize ELSE 0)
  BY <1>1, <1>2, <1>3, <1>6
<1> QED BY <1>1, <1>3, <1>4, <1>5, <1>6, <1>7, ShortGoesOn

\* The put area goes to the handle, whether a failure follows or not.
LEMMA ShortEmpties ==
  ASSUME ShortHolds, sDev' = sDev \o sPend, sPend' = <<>>, sAcc' = sAcc, sNext' = sNext,
         sErrs' \in Nat, sAlloc' \in BOOLEAN, sHandle' \in {"open", "closed", "dead"},
         sLost' \in BOOLEAN, sBase' = sBase, sSealed' = sSealed
  PROVE  ShortHolds'
<1>1. sPend \in Seq(Nat) /\ sDev \in Seq(Nat) /\ sAcc \in Seq(Nat) /\ sNext \in Nat
  BY ShortIs
<1>2. sDev' \in Seq(Nat) /\ ToSet(sDev') = ToSet(sDev) \cup ToSet(sPend)
  BY <1>1, ConcatProperties, ToSetConcat
<1>3. /\ sPend' \in Seq(Nat) /\ Len(sPend') = 0 /\ ToSet(sPend') = {}
      /\ 0 <= (IF sAlloc' THEN BufSize ELSE 0)
  BY ToSetEmpty
<1>4. sNext' = sNext + 0 /\ sAcc' \in Seq(Nat)
  BY <1>1
<1>5. ToSet(sDev') \cup ToSet(sPend')
        \subseteq ToSet(sDev) \cup ToSet(sPend) \cup sNext..(sNext + 0 - 1)
  BY <1>2, <1>3
<1> QED BY <1>2, <1>3, <1>4, <1>5, ShortGoesOn

LEMMA ShortFlushes ==
  ASSUME ShortHolds, Short!FlushDone \/ Short!FlushThrows, UNCHANGED <<sAlloc, Short!history>>
  PROVE  ShortHolds'
<1>1. /\ sAlloc \in BOOLEAN /\ sPend \in Seq(Nat) /\ sErrs \in Nat /\ sNext \in Nat
      /\ sHandle \in {"open", "closed", "dead"} /\ sLost \in BOOLEAN
  BY ShortIs
<1>2. /\ sHandle' = sHandle /\ sLost' = sLost /\ sBase' = sBase /\ sSealed' = sSealed
      /\ sAlloc' = sAlloc
  BY DEF Short!history
<1>3. CASE Short!FlushDone
  BY <1>1, <1>2, <1>3, ShortEmpties DEF Short!FlushDone
<1>4. CASE Short!FlushThrows
  <2>1. /\ Short!Breaks(sPend) /\ Short!Reject(0) /\ sPend' = sPend
        /\ ToSet(sPend) \subseteq ToSet(sPend) \cup sNext..(sNext + 0 - 1)
    BY <1>4 DEF Short!FlushThrows
  <2> QED BY <1>1, <1>2, <2>1, ShortBreaks DEF Short!history
<1> QED BY <1>3, <1>4

LEMMA ShortWrites ==
  ASSUME ShortHolds, NEW n \in Nat, UNCHANGED Short!history,
         \/ Short!PutInBuffer(n) \/ Short!AllocateAndPut(n)
         \/ Short!WriteAllThrough(n) \/ Short!WriteAllThrows(n)
         \/ Short!WriteSomeThrough(n)
  PROVE  ShortHolds'
<1>1. CASE Short!PutInBuffer(n) \/ Short!AllocateAndPut(n)
  BY <1>1, ShortPuts
<1>2. CASE Short!WriteAllThrough(n)
  BY <1>2, ShortGathers DEF Short!WriteAllThrough
<1>3. CASE Short!WriteAllThrows(n)
  BY <1>3, ShortWriteBreaks
<1>4. CASE Short!WriteSomeThrough(n)
  <2>1. UNCHANGED <<sAlloc, sErrs, Short!history>>
    BY <1>4 DEF Short!WriteSomeThrough
  <2>2. CASE Short!WroteBoth(n)
    BY <2>1, <2>2, ShortGathers DEF Short!WroteBoth
  <2>3. CASE Short!WroteBuffer(n)
    <3>1. PICK k \in 0..(n - 1) :
            sDev' = sDev \o sPend \o Short!Fresh(k) /\ sPend' = <<>> /\ Short!Accept(k)
      BY <2>3 DEF Short!WroteBuffer
    <3>2. k \in Nat
      OBVIOUS
    <3> QED BY <2>1, <3>1, <3>2, ShortGathers
  <2>4. CASE Short!WrotePartOfBuffer
    BY <2>1, <2>4, ShortStops
  <2> QED BY <1>4, <2>2, <2>3, <2>4 DEF Short!WriteSomeThrough
<1> QED BY <1>1, <1>2, <1>3, <1>4

LEMMA ShortPrepares ==
  ASSUME ShortHolds, Short!PrepareMinimum
  PROVE  ShortHolds'
<1>1. UNCHANGED Short!history
  BY DEF Short!PrepareMinimum
<1>2. CASE /\ sPend = <<>> /\ sAlloc' = TRUE
           /\ UNCHANGED <<sPend, sDev, sAcc, sNext, sErrs>>
  <2>1. /\ sDev \in Seq(Nat) /\ sPend \in Seq(Nat) /\ sAcc \in Seq(Nat) /\ sErrs \in Nat
        /\ sNext \in Nat /\ sHandle \in {"open", "closed", "dead"} /\ sLost \in BOOLEAN
    BY ShortIs
  <2>2. sNext' = sNext + 0 /\ Len(sPend') = 0 /\ sAlloc' \in BOOLEAN
    BY <1>2, <2>1, ToSetEmpty
  <2>3. Len(sPend') <= (IF sAlloc' THEN BufSize ELSE 0)
    BY <1>2, <2>2
  <2>4. ToSet(sDev') \cup ToSet(sPend')
          \subseteq ToSet(sDev) \cup ToSet(sPend) \cup sNext..(sNext + 0 - 1)
    BY <1>2
  <2> QED BY <1>1, <1>2, <2>1, <2>2, <2>3, <2>4, ShortGoesOn DEF Short!history
<1>3. CASE sPend # <<>> /\ (Short!FlushDone \/ Short!FlushThrows) /\ UNCHANGED sAlloc
  BY <1>1, <1>3, ShortFlushes
<1> QED BY <1>2, <1>3 DEF Short!PrepareMinimum

LEMMA ShortCloses ==
  ASSUME ShortHolds, Short!Close
  PROVE  ShortHolds'
<1>1. /\ sErrs \in Nat /\ sAlloc' = sAlloc /\ sBase' = sBase /\ sLost' = sLost
  BY ShortIs DEF Short!Close
<1>2. CASE Short!FlushThrows /\ UNCHANGED <<sHandle, sSealed>>
  BY <1>1, <1>2, ShortFlushes DEF Short!history
<1>3. CASE ~(Short!FlushThrows /\ UNCHANGED <<sHandle, sSealed>>)
  <2>1. /\ Short!Seal(sDev \o sPend) /\ sHandle' = "closed"
        /\ sDev' = <<>> /\ sPend' = <<>> /\ sAcc' = <<>> /\ sNext' = sNext
        /\ sErrs' \in {sErrs} \cup {e \in {sErrs + 1} : e <= 1}
    BY <1>3 DEF Short!Close
  <2>2. sErrs' \in Nat
    BY <1>1, <2>1
  <2> QED BY <1>1, <2>1, <2>2, ShortStartsOver
<1> QED BY <1>2, <1>3

LEMMA ShortReopens ==
  ASSUME ShortHolds, Short!Reopen
  PROVE  ShortHolds'
<1>1. /\ sErrs \in Nat /\ sAlloc \in BOOLEAN /\ sNext \in Nat /\ sLost \in BOOLEAN
      /\ sHandle \in {"open", "closed", "dead"}
  BY ShortIs
<1>2. sAlloc' = sAlloc /\ sLost' = sLost
  BY DEF Short!Reopen
<1>3. CASE Short!FlushThrows /\ UNCHANGED <<sHandle, sBase, sSealed>>
  BY <1>2, <1>3, ShortFlushes DEF Short!history
<1>4. CASE /\ sDev' = sDev \o sPend /\ sPend' = <<>> /\ Short!Reject(0)
           /\ UNCHANGED <<sHandle, sBase, sSealed>>
  <2>1. sAcc' = sAcc /\ sNext' = sNext /\ sErrs' \in Nat
    BY <1>1, <1>4 DEF Short!Reject
  <2> QED BY <1>1, <1>2, <1>4, <2>1, ShortEmpties
<1>5. CASE /\ IF sHandle = "open" THEN Short!Seal(sDev \o sPend) ELSE UNCHANGED sSealed
           /\ sHandle' = "open"
           /\ sDev' = <<>> /\ sPend' = <<>> /\ sAcc' = <<>>
           /\ sBase' = sNext
           /\ UNCHANGED <<sNext, sErrs>>
  <2>1. sSealed' = sSealed \/ Short!Seal(sDev \o sPend)
    BY <1>5
  <2> QED BY <1>1, <1>2, <1>5, <2>1, ShortStartsOver
<1> QED BY <1>3, <1>4, <1>5 DEF Short!Reopen

LEMMA ShortDies ==
  ASSUME ShortHolds, Short!Destroy
  PROVE  ShortHolds'
<1>1. /\ sDev \in Seq(Nat) /\ sPend \in Seq(Nat) /\ sAcc \in Seq(Nat) /\ sErrs \in Nat
      /\ sNext \in Nat /\ sLost \in BOOLEAN
  BY ShortIs
<1>2. /\ sPend' = <<>> /\ sAlloc' = FALSE /\ sHandle' = "dead"
      /\ sAcc' = sAcc /\ sNext' = sNext /\ sBase' = sBase /\ sSealed' = sSealed
  BY DEF Short!Destroy
<1>3. CASE sDev' = sDev \o sPend /\ UNCHANGED <<sErrs, sLost>>
  BY <1>1, <1>2, <1>3, ShortEmpties
<1>4. CASE Short!Breaks(sPend) /\ sErrs' = sErrs + 1 /\ sLost' = TRUE
  <2>1. PICK k \in 0..(Len(sPend) - 1) : sDev' = sDev \o Short!First(sPend, k)
    BY <1>4 DEF Short!Breaks
  <2>2. Short!First(sPend, k) = First(sPend, k) /\ k \in 0..Len(sPend)
    BY <1>1, <2>1, LenProperties DEF Short!First, First
  <2>3. First(sPend, k) \in Seq(Nat) /\ ToSet(First(sPend, k)) \subseteq ToSet(sPend)
    BY <1>1, <2>2, FirstProperties
  <2>4. sDev' \in Seq(Nat) /\ ToSet(sDev') = ToSet(sDev) \cup ToSet(First(sPend, k))
    BY <1>1, <2>1, <2>2, <2>3, ConcatProperties, ToSetConcat
  <2>5. sPend' \in Seq(Nat) /\ Len(sPend') = 0 /\ ToSet(sPend') = {}
    BY <1>2, ToSetEmpty
  <2>6. /\ sNext' = sNext + 0 /\ sErrs' \in Nat
        /\ Len(sPend') <= (IF sAlloc' THEN BufSize ELSE 0)
    BY <1>1, <1>2, <1>4, <2>5
  <2>7. ToSet(sDev') \cup ToSet(sPend')
          \subseteq ToSet(sDev) \cup ToSet(sPend) \cup sNext..(sNext + 0 - 1)
    BY <2>3, <2>4, <2>5
  <2> QED BY <1>1, <1>2, <1>4, <2>4, <2>5, <2>6, <2>7, ShortGoesOn
<1> QED BY <1>3, <1>4 DEF Short!Destroy

\* Every step keeps the areas.
LEMMA ShortKeeps == ShortHolds /\ [Short!Next]_shortVars => ShortHolds'
<1> SUFFICES ASSUME ShortHolds, [Short!Next]_shortVars PROVE ShortHolds'
  OBVIOUS
<1>1. ASSUME NEW n \in 1..MaxReq, Short!WriteAll(n) \/ Short!WriteSome(n) PROVE ShortHolds'
  <2>1. n \in Nat /\ UNCHANGED Short!history
    BY <1>1, BoundsAssumption DEF Short!WriteAll, Short!WriteSome
  <2> QED BY <1>1, <2>1, ShortWrites DEF Short!WriteAll, Short!WriteSome, Short!WriteSomeThrows
<1>2. CASE Short!CharPut
  <2>1. UNCHANGED Short!history
    BY <1>2 DEF Short!CharPut
  <2> QED BY <1>2, <2>1, ShortWrites DEF Short!CharPut
<1>3. CASE Short!Flush
  BY <1>3, ShortFlushes DEF Short!Flush
<1>4. CASE UNCHANGED shortVars
  BY <1>4 DEF shortVars, ShortHolds, Short!TypeOK, Short!NoStray
<1> QED BY <1>1, <1>2, <1>3, <1>4, ShortPrepares, ShortCloses, ShortReopens, ShortDies
        DEF Short!Next

LEMMA ShortBegins == Short!Init => ShortHolds
<1> SUFFICES ASSUME Short!Init PROVE ShortHolds
  OBVIOUS
<1>1. /\ sAlloc = FALSE /\ sPend = <<>> /\ sDev = <<>> /\ sAcc = <<>> /\ sHandle = "open"
      /\ sNext = 1 /\ sBase = 1 /\ sErrs = 0 /\ sLost = FALSE /\ sSealed = {}
  BY DEF Short!Init
<1>2. Short!TypeOK
  <2>1. Len(sPend) <= IF sAlloc THEN BufSize ELSE 0
    BY <1>1, ToSetEmpty
  <2>2. \A e \in sSealed : e.acc \in Seq(Nat) /\ e.dev \in Seq(Nat)
    BY <1>1
  <2> QED BY <1>1, <2>1, <2>2, ToSetEmpty DEF Short!TypeOK
<1>3. Short!NoStray
  <2>1. ToSet(sDev) = {} /\ ToSet(sPend) = {}
    BY <1>1, ToSetEmpty
  <2> QED BY <2>1 DEF Short!NoStray, Short!ToSet, ToSet
<1> QED BY <1>1, <1>2, <1>3 DEF ShortHolds

\* No area is overrun, whatever the sizes of buffers, characters and requests;
\* and over a handle that stops a gathered write anywhere nothing written for
\* one handle strays to the next.
THEOREM AreasAlwaysHold == AllSpec => []AreasHold
<1>1. AllInit => Init /\ Short!Init /\ InInit
  BY DEF AllInit
<1>2. [AllNext]_allVars => [Next]_vars
  BY DEF AllNext, allVars
<1>3. [AllNext]_allVars => [Short!Next]_shortVars
  BY DEF AllNext, allVars
<1>4. [AllNext]_allVars => [InNext]_inVars
  BY DEF AllNext, allVars
<1>5. TypeOK /\ ShortHolds /\ InTypeOK => AreasHold
  BY DEF AreasHold, ShortHolds
<1>6. AllSpec => AllInit /\ [][AllNext]_allVars
  BY PTL DEF AllSpec
<1>7. AllSpec => []TypeOK
  BY <1>1, <1>2, <1>6, TypeCorrect, PTL DEF Spec
<1>8. AllSpec => []InTypeOK
  BY <1>1, <1>4, <1>6, GetAreaTyped, PTL DEF InSpec
<1>9. AllSpec => []ShortHolds
  BY <1>1, <1>3, <1>6, ShortBegins, ShortKeeps, PTL
<1> QED BY <1>5, <1>7, <1>8, <1>9, PTL

=============================================================================
