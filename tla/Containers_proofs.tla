--------------------------- MODULE Containers_proofs ---------------------------
(***************************************************************************)
(* Proofs about Deque, for every size of a block and of an element, every  *)
(* slack of the allocator and any number of elements.                      *)
(***************************************************************************)
EXTENDS Deque, Basics_proofs, SequenceTheorems, TLAPS

-----------------------------------------------------------------------------
(***************************************************************************)
(* The inductive invariant.                                                *)
(***************************************************************************)

Elements == {Plain, Marked}
Points == [c : Nat, i : 0..BlockSize]
Queues == [cap : Nat, rs : Nat, n : Nat, cells : Seq({Raw, Plain, Marked}), f : Points, b : Points]

Span(q) == q.n * BlockSize

\* The elements s lie behind `place` in the blocks, and nothing else does.
Filled(q, place, s) ==
  /\ s \in Seq(Elements) /\ Len(q.cells) = Span(q) /\ place + Len(s) <= Span(q)
  /\ \A x \in 1..Span(q) :
       q.cells[x] = IF x \in (place + 1)..(place + Len(s)) THEN s[x - place] ELSE Raw

\* The reserved blocks are in the controller, and the ends in the blocks.
Framed(q) ==
  /\ q \in Queues
  /\ q.rs + q.n <= q.cap
  /\ q.f.c < q.n /\ q.b.c < q.n

\* The ends of elements are in the blocks of the first and the last one; a
\* queue without elements has both ends inside a block.
Ended(q) ==
  /\ q.f.i < BlockSize /\ q.b.i > 0
  /\ Place(q.f) = Place(q.b) => q.f = q.b

Good(q, s) ==
  /\ Framed(q) /\ Ended(q)
  /\ Filled(q, Place(q.f), s) /\ Place(q.b) = Place(q.f) + Len(s)

Kept(q, s) == (q = Null /\ s = <<>>) \/ Good(q, s)

\* The free places behind the elements; what has been promised is there.
Behind(q) == Span(q) - Place(q.b)
Prepared(q, s, size) == size > Len(s) => q.n > 0 /\ size - Len(s) <= Behind(q)

Regular ==
  /\ type \in Types /\ Len(seq) <= type.most /\ promise \in Nat
  /\ Kept(d, seq) /\ Prepared(d, seq, promise)

\* Without its order at the ends.
Held(q, s) ==
  /\ Framed(q)
  /\ Filled(q, Place(q.f), s) /\ Place(q.b) = Place(q.f) + Len(s)

\* In order but for the ends of a queue without elements.
Ready(q, s) == Held(q, s) /\ q.f.i < BlockSize

\* Both ends behind a block, and no element: where the erase of a single one
\* that cannot be relocated may leave them.
Bordered(q) == Held(q, <<>>) /\ q.f = q.b /\ q.b.i = BlockSize

Legal(q, s) == Kept(q, s) \/ (Bordered(q) /\ s = <<>>)

Loose == ~type.relocatable /\ "reserve" \notin type.ops

AtBorder == type \in Types /\ Loose /\ Bordered(d) /\ seq = <<>> /\ promise = 0

DequeInv == Regular \/ AtBorder

-----------------------------------------------------------------------------
(***************************************************************************)
(* Places.                                                                 *)
(***************************************************************************)

LEMMA BlocksAre ==
  ASSUME type \in Types
  PROVE  /\ BlockSize \in Nat /\ BlockSize >= 2 /\ Slack \in Nat /\ Unit \in Nat \ {0}
         /\ Half \in 1..(BlockSize - 1)
<1>1. /\ BlockSize \in Nat /\ BlockSize >= 2 /\ Slack \in Nat /\ Unit \in Nat \ {0}
  BY DequeAssumption DEF BlockSize, Slack, Unit
<1> HIDE DEF BlockSize
<1>2. Half \in 1..(BlockSize - 1)
  BY <1>1 DEF Half
<1> QED BY <1>1, <1>2

LEMMA PlaceIs ==
  ASSUME type \in Types, NEW p \in Points
  PROVE  /\ p.c \in Nat /\ p.i \in Nat /\ p.i <= BlockSize /\ Place(p) \in Nat
         /\ Place(p) = p.c * BlockSize + p.i /\ p.c * BlockSize \in Nat
<1>1. BlockSize \in Nat
  BY BlocksAre
<1> HIDE DEF BlockSize
<1>2. p.c \in Nat /\ p.i \in 0..BlockSize
  BY DEF Points
<1>3. p.c * BlockSize \in Nat
  BY <1>1, <1>2
<1> QED BY <1>1, <1>2, <1>3 DEF Place

\* A place is in one block.
LEMMA AtIs ==
  ASSUME type \in Types, NEW x \in Nat
  PROVE  /\ At(x) \in Points /\ At(x).i < BlockSize /\ Place(At(x)) = x
<1>1. BlockSize \in Nat /\ BlockSize \in Nat \ {0}
  BY BlocksAre
<1> HIDE DEF BlockSize
<1>2. /\ x % BlockSize \in 0..(BlockSize - 1) /\ x \div BlockSize \in Nat
      /\ x = (x \div BlockSize) * BlockSize + (x % BlockSize)
  BY <1>1, DivisionSplits
<1>3. At(x).c = x \div BlockSize /\ At(x).i = x % BlockSize
  BY DEF At
<1>4. At(x) \in Points /\ At(x).i < BlockSize
  BY <1>1, <1>2 DEF At, Points
<1> QED BY <1>2, <1>3, <1>4 DEF Place

\* Blocks and places are in the same order.
LEMMA Order ==
  ASSUME type \in Types, NEW c \in Nat, NEW n \in Nat, c < n
  PROVE  c * BlockSize + BlockSize <= n * BlockSize /\ c * BlockSize \in Nat /\ n * BlockSize \in Nat
<1>1. BlockSize \in Nat
  BY BlocksAre
<1> HIDE DEF BlockSize
<1>2. c + 1 \in Nat /\ c + 1 <= n
  OBVIOUS
<1>3. (c + 1) * BlockSize <= n * BlockSize /\ (c + 1) * BlockSize \in Nat /\ n * BlockSize \in Nat
  BY <1>1, <1>2, ProductsGrow
<1>4. (c + 1) * BlockSize = c * BlockSize + BlockSize
  BY <1>1
<1> QED BY <1>1, <1>3, <1>4

\* The end of a block is the place of the start of the next one.
LEMMA BlockEnds ==
  ASSUME type \in Types, NEW c \in Nat
  PROVE  /\ [c |-> c, i |-> BlockSize] \in Points /\ [c |-> c + 1, i |-> 0] \in Points
         /\ Place([c |-> c, i |-> BlockSize]) = Place([c |-> c + 1, i |-> 0])
<1>1. BlockSize \in Nat
  BY BlocksAre
<1> HIDE DEF BlockSize
<1>2. (c + 1) * BlockSize = c * BlockSize + BlockSize /\ (c + 1) * BlockSize \in Nat
  BY <1>1
<1>3. /\ Place([c |-> c, i |-> BlockSize]) = c * BlockSize + BlockSize
      /\ Place([c |-> c + 1, i |-> 0]) = (c + 1) * BlockSize + 0
  BY DEF Place
<1>4. [c |-> c, i |-> BlockSize] \in Points /\ [c |-> c + 1, i |-> 0] \in Points
  BY <1>1 DEF Points
<1> DEFINE X == (c + 1) * BlockSize
<1>5. /\ Place([c |-> c, i |-> BlockSize]) = X /\ Place([c |-> c + 1, i |-> 0]) = X + 0 /\ X \in Nat
  BY <1>2, <1>3
<1> HIDE DEF X
<1> QED BY <1>4, <1>5

LEMMA InBlocks ==
  ASSUME type \in Types, NEW p \in Points, NEW n \in Nat, p.c < n
  PROVE  Place(p) <= n * BlockSize /\ (p.i < BlockSize => Place(p) < n * BlockSize)
<1>1. p.c * BlockSize + BlockSize <= n * BlockSize
  BY PlaceIs, Order
<1>2. /\ Place(p) = p.c * BlockSize + p.i /\ p.i \in Nat /\ p.i <= BlockSize /\ BlockSize \in Nat
      /\ p.c * BlockSize \in Nat /\ n * BlockSize \in Nat
  BY PlaceIs, BlocksAre, Order
<1> HIDE DEF BlockSize
<1> QED BY <1>1, <1>2

LEMMA BlockOf ==
  ASSUME type \in Types, NEW p \in Points, NEW n \in Nat, p.i < BlockSize
  PROVE  /\ Place(p) < n * BlockSize => p.c < n
         /\ Place(p) <= n * BlockSize => p.c < n \/ (p.c = n /\ p.i = 0)
         /\ n * BlockSize <= Place(p) => n <= p.c
<1> DEFINE C == p.c
           I == p.i
           X == C * BlockSize
           Y == n * BlockSize
<1>1. C \in Nat /\ I \in Nat /\ Place(p) = X + I /\ X \in Nat /\ Y \in Nat /\ BlockSize \in Nat /\ I < BlockSize
  BY PlaceIs, BlocksAre
<1>2. C < n => X + BlockSize <= Y
  BY <1>1, Order
<1>3. n < C => Y + BlockSize <= X
  BY <1>1, Order
<1>4. C = n => X = Y
  OBVIOUS
<1> HIDE DEF C, I, X, Y, BlockSize
<1>5. Place(p) < Y => C < n
  BY <1>1, <1>3, <1>4
<1>6. Place(p) <= Y => C < n \/ (C = n /\ I = 0)
  BY <1>1, <1>3, <1>4
<1>7. Y <= Place(p) => n <= C
  BY <1>1, <1>2
<1> QED BY <1>5, <1>6, <1>7 DEF C, I, Y

\* Two points inside blocks at one place are one.
LEMMA OnePoint ==
  ASSUME type \in Types, NEW p \in Points, NEW q \in Points, Place(p) = Place(q),
         p.i < BlockSize, q.i < BlockSize
  PROVE  p = q
<1>1. p.c \in Nat /\ q.c \in Nat /\ p.i \in Nat /\ q.i \in Nat
  BY PlaceIs
<1>2. p.c <= q.c
  <2>1. p.c * BlockSize <= Place(q)
    BY PlaceIs
  <2> QED BY <1>1, <2>1, BlockOf
<1>3. q.c <= p.c
  <2>1. q.c * BlockSize <= Place(p)
    BY PlaceIs
  <2> QED BY <1>1, <2>1, BlockOf
<1>4. p.c = q.c
  BY <1>1, <1>2, <1>3
<1>5. p.i = q.i
  <2>1. Place(p) = p.c * BlockSize + p.i /\ Place(q) = p.c * BlockSize + q.i /\ p.c * BlockSize \in Nat
    BY <1>4, PlaceIs
  <2> DEFINE X == p.c * BlockSize
  <2>2. X + p.i = X + q.i /\ X \in Nat
    BY <2>1
  <2> HIDE DEF X
  <2> QED BY <1>1, <2>2
<1> QED BY <1>4, <1>5 DEF Points

-----------------------------------------------------------------------------
(***************************************************************************)
(* Elements in the blocks.                                                 *)
(***************************************************************************)

LEMMA SequenceOf ==
  ASSUME NEW T, NEW n \in Nat, NEW g \in [1..n -> T]
  PROVE  g \in Seq(T) /\ Len(g) = n
  OBVIOUS

LEMMA ElementsAre == ~(Raw \in Elements) /\ Elements \subseteq {Raw, Plain, Marked}
  BY DEF Elements, Raw, Plain, Marked

LEMMA SpanIs ==
  ASSUME type \in Types, NEW q \in Queues
  PROVE  /\ Span(q) \in Nat /\ q.n \in Nat /\ q.cap \in Nat /\ q.rs \in Nat
         /\ q.f \in Points /\ q.b \in Points /\ q.cells \in Seq({Raw, Plain, Marked})
<1>1. BlockSize \in Nat
  BY BlocksAre
<1> HIDE DEF BlockSize
<1>2. q.n \in Nat
  BY DEF Queues
<1>3. q.n * BlockSize \in Nat
  BY <1>1, <1>2
<1> QED BY <1>3 DEF Queues, Span

LEMMA SubIs ==
  ASSUME NEW T, NEW s \in Seq(T), NEW a \in Nat \ {0}, NEW b \in 0..Len(s), a <= b + 1
  PROVE  /\ SubSeq(s, a, b) \in Seq(T)
         /\ Len(SubSeq(s, a, b)) = b + 1 - a
         /\ \A x \in 1..(b + 1 - a) : SubSeq(s, a, b)[x] = s[a + x - 1]
<1>1. Len(s) \in Nat /\ \A x \in 1..Len(s) : s[x] \in T
  BY LenProperties, ElementOfSeq
<1>2. \A x \in a..b : s[x] \in T
  BY <1>1
<1>3. a \in Int /\ b \in Int
  BY <1>1
<1>4. /\ SubSeq(s, a, b) \in Seq(T)
      /\ Len(SubSeq(s, a, b)) = IF a <= b THEN b - a + 1 ELSE 0
      /\ \A x \in 1..(b - a + 1) : SubSeq(s, a, b)[x] = s[a + x - 1]
  BY <1>2, <1>3, SubSeqProperties
<1>5. b + 1 - a = b - a + 1 /\ (~(a <= b) => b + 1 - a = 0)
  BY <1>1
<1> QED BY <1>4, <1>5

LEMMA ConcatIs ==
  ASSUME NEW T, NEW s \in Seq(T), NEW t \in Seq(T)
  PROVE  /\ s \o t \in Seq(T) /\ Len(s \o t) = Len(s) + Len(t)
         /\ Len(s) \in Nat /\ Len(t) \in Nat
         /\ \A x \in 1..(Len(s) + Len(t)) : (s \o t)[x] = IF x <= Len(s) THEN s[x] ELSE t[x - Len(s)]
  BY ConcatProperties, LenProperties

\* Where there are as many blocks with the same in them, there are the same
\* elements.
LEMMA FilledAlike ==
  ASSUME NEW q, NEW r, r.n = q.n, r.cells = q.cells, NEW place, NEW s, Filled(q, place, s)
  PROVE  Filled(r, place, s)
  BY DEF Filled, Span

LEMMA FilledNowhere ==
  ASSUME type \in Types, NEW q \in Queues, NEW a \in Nat, NEW b \in Nat, Filled(q, a, <<>>), b <= Span(q)
  PROVE  Filled(q, b, <<>>)
<1>1. Len(<<>>) = 0 /\ Span(q) \in Nat
  BY SpanIs
<1>2. \A x \in 1..Span(q) : x \notin (a + 1)..(a + 0) /\ x \notin (b + 1)..(b + 0)
  BY <1>1
<1> QED BY <1>1, <1>2 DEF Filled

\* Put writes es and leaves the rest.
LEMMA PutIs ==
  ASSUME type \in Types, NEW q \in Queues, NEW place \in Nat, NEW es \in Seq({Raw, Plain, Marked}),
         Len(q.cells) = Span(q), place + Len(es) <= Span(q)
  PROVE  LET r == Put(q, place, es)
         IN  /\ r \in Queues /\ r.n = q.n /\ r.cap = q.cap /\ r.rs = q.rs /\ r.f = q.f /\ r.b = q.b
             /\ Len(r.cells) = Span(r) /\ Span(r) = Span(q)
             /\ \A x \in 1..Span(q) :
                  r.cells[x] = IF x \in (place + 1)..(place + Len(es)) THEN es[x - place] ELSE q.cells[x]
<1> DEFINE T == {Raw, Plain, Marked}
           g == [x \in 1..Span(q) |->
                  IF x \in (place + 1)..(place + Len(es)) THEN es[x - place] ELSE q.cells[x]]
<1>1. Span(q) \in Nat /\ q.cells \in Seq(T) /\ Len(es) \in Nat
  BY SpanIs, LenProperties
<1> HIDE DEF T
<1>2. DOMAIN q.cells = 1..Span(q) /\ (\A x \in 1..Span(q) : q.cells[x] \in T)
      /\ \A x \in 1..Len(es) : es[x] \in T
  BY <1>1, LenProperties, ElementOfSeq DEF T
<1>3. \A x \in (place + 1)..(place + Len(es)) : x - place \in 1..Len(es)
  BY <1>1
<1>4. g \in [1..Span(q) -> T]
  BY <1>2, <1>3
<1>6. Put(q, place, es) = [q EXCEPT !.cells = g]
  BY <1>2 DEF Put
<1> HIDE DEF g
<1>5. g \in Seq(T) /\ Len(g) = Span(q)
  BY <1>1, <1>4, SequenceOf
<1>7. [q EXCEPT !.cells = g] \in Queues
  BY <1>5 DEF Queues, T
<1> DEFINE r == [q EXCEPT !.cells = g]
<1>8. r.n = q.n /\ r.cap = q.cap /\ r.rs = q.rs /\ r.f = q.f /\ r.b = q.b /\ r.cells = g
  BY DEF Queues
<1> HIDE DEF r
<1>9. Span(r) = Span(q)
  BY <1>8 DEF Span
<1> QED BY <1>5, <1>6, <1>7, <1>8, <1>9 DEF r, g

LEMMA PutsAre ==
  ASSUME NEW s \in Seq(Elements)
  PROVE  s \in Seq({Raw, Plain, Marked}) /\ Len(s) \in Nat /\ (\A x \in 1..Len(s) : s[x] \in Elements)
<1>1. s \in [1..Len(s) -> Elements] /\ Len(s) \in Nat
  BY LenProperties
<1>2. s \in [1..Len(s) -> {Raw, Plain, Marked}]
  BY <1>1, ElementsAre
<1> QED BY <1>1, <1>2, SequenceOf

\* Behind the elements more are put,
LEMMA PutBehind ==
  ASSUME type \in Types, NEW q \in Queues, NEW place \in Nat, NEW s, Filled(q, place, s),
         NEW es \in Seq(Elements), place + Len(s) + Len(es) <= Span(q)
  PROVE  LET r == Put(q, place + Len(s), es)
         IN  /\ r \in Queues /\ r.n = q.n /\ r.cap = q.cap /\ r.rs = q.rs /\ r.f = q.f /\ r.b = q.b
             /\ Filled(r, place, s \o es)
<1> DEFINE r == Put(q, place + Len(s), es)
<1>1. /\ Span(q) \in Nat /\ s \in Seq(Elements) /\ Len(s) \in Nat /\ Len(es) \in Nat /\ Len(q.cells) = Span(q)
      /\ es \in Seq({Raw, Plain, Marked}) /\ place + Len(s) \in Nat
  BY SpanIs, PutsAre DEF Filled
<1>2. /\ r \in Queues /\ r.n = q.n /\ r.cap = q.cap /\ r.rs = q.rs /\ r.f = q.f /\ r.b = q.b
      /\ Len(r.cells) = Span(r) /\ Span(r) = Span(q)
      /\ \A x \in 1..Span(q) :
           r.cells[x] = IF x \in (place + Len(s) + 1)..(place + Len(s) + Len(es))
                        THEN es[x - (place + Len(s))] ELSE q.cells[x]
  BY <1>1, PutIs
<1> HIDE DEF r
<1>3. /\ s \o es \in Seq(Elements) /\ Len(s \o es) = Len(s) + Len(es)
      /\ \A x \in 1..(Len(s) + Len(es)) : (s \o es)[x] = IF x <= Len(s) THEN s[x] ELSE es[x - Len(s)]
  BY <1>1, ConcatProperties
<1>4. ASSUME NEW x \in 1..Span(q)
      PROVE  r.cells[x] = IF x \in (place + 1)..(place + (Len(s) + Len(es))) THEN (s \o es)[x - place] ELSE Raw
  <2>1. q.cells[x] = IF x \in (place + 1)..(place + Len(s)) THEN s[x - place] ELSE Raw
    BY DEF Filled
  <2>2. CASE x \in (place + Len(s) + 1)..(place + Len(s) + Len(es))
    <3>1. r.cells[x] = es[x - (place + Len(s))]
      BY <1>2, <2>2
    <3>2. x - place \in 1..(Len(s) + Len(es)) /\ ~(x - place <= Len(s)) /\ x - place - Len(s) = x - (place + Len(s))
      BY <1>1, <2>2
    <3>3. (s \o es)[x - place] = es[x - place - Len(s)]
      BY <1>3, <3>2
    <3>4. x \in (place + 1)..(place + (Len(s) + Len(es)))
      BY <1>1, <2>2
    <3> QED BY <3>1, <3>2, <3>3, <3>4
  <2>3. CASE x \in (place + 1)..(place + Len(s))
    <3>1. x \notin (place + Len(s) + 1)..(place + Len(s) + Len(es)) /\ x \in (place + 1)..(place + (Len(s) + Len(es)))
      BY <1>1, <2>3
    <3>2. r.cells[x] = s[x - place]
      BY <1>2, <2>1, <2>3, <3>1
    <3>3. x - place \in 1..(Len(s) + Len(es)) /\ x - place <= Len(s)
      BY <1>1, <2>3
    <3> QED BY <1>3, <3>1, <3>2, <3>3
  <2>4. CASE x \notin (place + 1)..(place + Len(s)) /\ x \notin (place + Len(s) + 1)..(place + Len(s) + Len(es))
    <3>1. x \notin (place + 1)..(place + (Len(s) + Len(es)))
      BY <1>1, <2>4
    <3> QED BY <1>2, <2>1, <2>4, <3>1
  <2> QED BY <2>2, <2>3, <2>4
<1>5. Filled(r, place, s \o es)
  BY <1>1, <1>2, <1>3, <1>4 DEF Filled
<1> QED BY <1>2, <1>5 DEF r

\* before them one,
LEMMA PutBefore ==
  ASSUME type \in Types, NEW q \in Queues, NEW place \in Nat, place > 0, NEW s, Filled(q, place, s),
         NEW v \in Elements
  PROVE  LET r == Put(q, place - 1, <<v>>)
         IN  /\ r \in Queues /\ r.n = q.n /\ r.cap = q.cap /\ r.rs = q.rs /\ r.f = q.f /\ r.b = q.b
             /\ Filled(r, place - 1, <<v>> \o s)
<1> DEFINE r == Put(q, place - 1, <<v>>)
           es == <<v>>
<1>1. /\ Span(q) \in Nat /\ s \in Seq(Elements) /\ Len(s) \in Nat /\ Len(q.cells) = Span(q)
      /\ place + Len(s) <= Span(q)
  BY SpanIs, PutsAre DEF Filled
<1>2. es \in Seq(Elements) /\ Len(es) = 1 /\ es[1] = v
  OBVIOUS
<1> HIDE DEF es
<1>3. es \in Seq({Raw, Plain, Marked}) /\ place - 1 \in Nat /\ place - 1 + 1 = place
  BY <1>2, PutsAre
<1>4. /\ r \in Queues /\ r.n = q.n /\ r.cap = q.cap /\ r.rs = q.rs /\ r.f = q.f /\ r.b = q.b
      /\ Len(r.cells) = Span(r) /\ Span(r) = Span(q)
      /\ \A x \in 1..Span(q) :
           r.cells[x] = IF x \in ((place - 1) + 1)..((place - 1) + Len(es)) THEN es[x - (place - 1)] ELSE q.cells[x]
  <2>1. (place - 1) + Len(es) <= Span(q)
    BY <1>1, <1>2
  <2> QED BY <1>1, <1>3, <2>1, PutIs DEF es
<1> HIDE DEF r
<1>5. /\ es \o s \in Seq(Elements) /\ Len(es \o s) = 1 + Len(s)
      /\ \A x \in 1..(1 + Len(s)) : (es \o s)[x] = IF x <= 1 THEN es[x] ELSE s[x - 1]
  <2>1. /\ es \o s \in Seq(Elements) /\ Len(es \o s) = Len(es) + Len(s)
        /\ \A x \in 1..(Len(es) + Len(s)) : (es \o s)[x] = IF x <= Len(es) THEN es[x] ELSE s[x - Len(es)]
    BY <1>1, <1>2, ConcatProperties
  <2> QED BY <1>2, <2>1
<1>6. ASSUME NEW x \in 1..Span(q)
      PROVE  r.cells[x] = IF x \in ((place - 1) + 1)..((place - 1) + (1 + Len(s)))
                          THEN (es \o s)[x - (place - 1)] ELSE Raw
  <2>1. q.cells[x] = IF x \in (place + 1)..(place + Len(s)) THEN s[x - place] ELSE Raw
    BY DEF Filled
  <2>2. CASE x = place
    <3>1. x \in ((place - 1) + 1)..((place - 1) + Len(es)) /\ x - (place - 1) = 1
          /\ x \in ((place - 1) + 1)..((place - 1) + (1 + Len(s))) /\ 1 \in 1..(1 + Len(s))
      BY <1>1, <1>2, <2>2
    <3>2. r.cells[x] = es[1]
      BY <1>4, <3>1
    <3> QED BY <1>5, <3>1, <3>2
  <2>3. CASE x \in (place + 1)..(place + Len(s))
    <3>1. /\ x \notin ((place - 1) + 1)..((place - 1) + Len(es)) /\ x - (place - 1) - 1 = x - place
          /\ x \in ((place - 1) + 1)..((place - 1) + (1 + Len(s)))
          /\ x - (place - 1) \in 1..(1 + Len(s)) /\ ~(x - (place - 1) <= 1)
      BY <1>1, <1>2, <2>3
    <3>2. r.cells[x] = s[x - place]
      BY <1>4, <2>1, <2>3, <3>1
    <3>3. (es \o s)[x - (place - 1)] = s[x - place]
      BY <1>5, <3>1
    <3> QED BY <3>1, <3>2, <3>3
  <2>4. CASE x # place /\ x \notin (place + 1)..(place + Len(s))
    <3>1. /\ x \notin ((place - 1) + 1)..((place - 1) + Len(es))
          /\ x \notin ((place - 1) + 1)..((place - 1) + (1 + Len(s)))
      BY <1>1, <1>2, <2>4
    <3> QED BY <1>4, <2>1, <2>4, <3>1
  <2> QED BY <2>2, <2>3, <2>4
<1>7. Filled(r, place - 1, es \o s)
  BY <1>1, <1>4, <1>5, <1>6 DEF Filled
<1> QED BY <1>4, <1>7 DEF r, es

\* and one is taken off the end
LEMMA PutLastOff ==
  ASSUME type \in Types, NEW q \in Queues, NEW place \in Nat, NEW s, Filled(q, place, s), Len(s) > 0
  PROVE  LET r == Put(q, place + Len(s) - 1, <<Raw>>)
         IN  /\ r \in Queues /\ r.n = q.n /\ r.cap = q.cap /\ r.rs = q.rs /\ r.f = q.f /\ r.b = q.b
             /\ Filled(r, place, Front(s)) /\ Len(Front(s)) = Len(s) - 1
<1> DEFINE r == Put(q, place + Len(s) - 1, <<Raw>>)
           es == <<Raw>>
           t == Front(s)
           p == place + Len(s) - 1
<1>1. /\ Span(q) \in Nat /\ s \in Seq(Elements) /\ Len(s) \in Nat /\ Len(q.cells) = Span(q)
      /\ place + Len(s) <= Span(q)
  BY SpanIs, PutsAre DEF Filled
<1>2. es \in Seq({Raw, Plain, Marked}) /\ Len(es) = 1 /\ es[1] = Raw
  OBVIOUS
<1>3. p \in Nat /\ p + 1 = place + Len(s) /\ p + Len(es) <= Span(q)
  BY <1>1, <1>2
<1> HIDE DEF es
<1>4. /\ r \in Queues /\ r.n = q.n /\ r.cap = q.cap /\ r.rs = q.rs /\ r.f = q.f /\ r.b = q.b
      /\ Len(r.cells) = Span(r) /\ Span(r) = Span(q)
      /\ \A x \in 1..Span(q) :
           r.cells[x] = IF x \in (p + 1)..(p + Len(es)) THEN es[x - p] ELSE q.cells[x]
  BY <1>1, <1>2, <1>3, PutIs DEF es
<1>5. /\ t \in Seq(Elements) /\ Len(t) = Len(s) - 1 /\ \A x \in 1..(Len(s) - 1) : t[x] = s[x]
  <2>1. t = SubSeq(s, 1, Len(s) - 1)
    BY DEF Front
  <2>2. Len(s) - 1 \in 0..Len(s) /\ 1 <= (Len(s) - 1) + 1 /\ 1 \in Nat \ {0}
    BY <1>1
  <2> DEFINE b == Len(s) - 1
  <2>3. /\ SubSeq(s, 1, b) \in Seq(Elements) /\ Len(SubSeq(s, 1, b)) = b + 1 - 1
        /\ \A x \in 1..(b + 1 - 1) : SubSeq(s, 1, b)[x] = s[1 + x - 1]
    <3>1. s \in Seq(Elements) /\ b \in 0..Len(s) /\ 1 <= b + 1 /\ 1 \in Nat \ {0}
      BY <1>1, <2>2
    <3> HIDE DEF b
    <3> QED BY ZenonT(60), <3>1, SubIs
  <2>4. b + 1 - 1 = Len(s) - 1 /\ \A x \in 1..(Len(s) - 1) : 1 + x - 1 = x
    BY <1>1
  <2> HIDE DEF b
  <2> QED BY <2>1, <2>3, <2>4 DEF b
<1> HIDE DEF r, p, t
<1>6. ASSUME NEW x \in 1..Span(q)
      PROVE  r.cells[x] = IF x \in (place + 1)..(place + Len(t)) THEN t[x - place] ELSE Raw
  <2>1. q.cells[x] = IF x \in (place + 1)..(place + Len(s)) THEN s[x - place] ELSE Raw
    BY DEF Filled
  <2>2. CASE x = p + 1
    <3>1. x \in (p + 1)..(p + Len(es)) /\ x - p = 1 /\ x \notin (place + 1)..(place + Len(t))
      BY <1>1, <1>2, <1>3, <1>5, <2>2
    <3> QED BY <1>2, <1>4, <3>1
  <2>3. CASE x # p + 1
    <3>1. x \notin (p + 1)..(p + Len(es))
      BY <1>1, <1>2, <1>3, <2>3
    <3>2. r.cells[x] = q.cells[x]
      BY <1>4, <3>1
    <3>3. x \in (place + 1)..(place + Len(t)) <=> x \in (place + 1)..(place + Len(s))
      BY <1>1, <1>3, <1>5, <2>3
    <3>4. x \in (place + 1)..(place + Len(t)) => t[x - place] = s[x - place]
      BY SMTT(20), <1>1, <1>5
    <3> QED BY <2>1, <3>2, <3>3, <3>4
  <2> QED BY <2>2, <2>3
<1>7. Filled(r, place, t)
  BY <1>1, <1>3, <1>4, <1>5, <1>6 DEF Filled
<1> QED BY <1>4, <1>5, <1>7 DEF r, es, p, t

\* or off the front.
LEMMA PutFirstOff ==
  ASSUME type \in Types, NEW q \in Queues, NEW place \in Nat, NEW s, Filled(q, place, s), Len(s) > 0
  PROVE  LET r == Put(q, place, <<Raw>>)
         IN  /\ r \in Queues /\ r.n = q.n /\ r.cap = q.cap /\ r.rs = q.rs /\ r.f = q.f /\ r.b = q.b
             /\ Filled(r, place + 1, Tail(s)) /\ Len(Tail(s)) = Len(s) - 1
<1> DEFINE r == Put(q, place, <<Raw>>)
           es == <<Raw>>
           t == Tail(s)
<1>1. /\ Span(q) \in Nat /\ s \in Seq(Elements) /\ Len(s) \in Nat /\ Len(q.cells) = Span(q)
      /\ place + Len(s) <= Span(q)
  BY SpanIs, PutsAre DEF Filled
<1>2. es \in Seq({Raw, Plain, Marked}) /\ Len(es) = 1 /\ es[1] = Raw
  OBVIOUS
<1> HIDE DEF es
<1>4. /\ r \in Queues /\ r.n = q.n /\ r.cap = q.cap /\ r.rs = q.rs /\ r.f = q.f /\ r.b = q.b
      /\ Len(r.cells) = Span(r) /\ Span(r) = Span(q)
      /\ \A x \in 1..Span(q) :
           r.cells[x] = IF x \in (place + 1)..(place + Len(es)) THEN es[x - place] ELSE q.cells[x]
  <2>1. place + Len(es) <= Span(q)
    BY <1>1, <1>2
  <2> QED BY <1>1, <1>2, <2>1, PutIs DEF es
<1>5. /\ t \in Seq(Elements) /\ Len(t) = Len(s) - 1 /\ \A x \in 1..(Len(s) - 1) : t[x] = s[x + 1]
  <2>1. s # <<>>
    BY <1>1
  <2> QED BY <1>1, <2>1, HeadTailProperties
<1> HIDE DEF r, t
<1>6. ASSUME NEW x \in 1..Span(q)
      PROVE  r.cells[x] = IF x \in (place + 1 + 1)..(place + 1 + Len(t)) THEN t[x - (place + 1)] ELSE Raw
  <2>1. q.cells[x] = IF x \in (place + 1)..(place + Len(s)) THEN s[x - place] ELSE Raw
    BY DEF Filled
  <2>2. CASE x = place + 1
    <3>1. x \in (place + 1)..(place + Len(es)) /\ x - place = 1 /\ x \notin (place + 1 + 1)..(place + 1 + Len(t))
      BY <1>1, <1>2, <1>5, <2>2
    <3> QED BY <1>2, <1>4, <3>1
  <2>3. CASE x # place + 1
    <3>1. x \notin (place + 1)..(place + Len(es))
      BY <1>1, <1>2, <2>3
    <3>2. r.cells[x] = q.cells[x]
      BY <1>4, <3>1
    <3>3. x \in (place + 1 + 1)..(place + 1 + Len(t)) <=> x \in (place + 1)..(place + Len(s))
      BY <1>1, <1>5, <2>3
    <3>4. x \in (place + 1 + 1)..(place + 1 + Len(t)) => t[x - (place + 1)] = s[x - place]
      <4> SUFFICES ASSUME x \in (place + 1 + 1)..(place + 1 + Len(t)) PROVE t[x - (place + 1)] = s[x - place]
        OBVIOUS
      <4>1. x - (place + 1) \in 1..(Len(s) - 1) /\ x - (place + 1) + 1 = x - place
        BY <1>1, <1>5
      <4> QED BY <1>5, <4>1
    <3> QED BY <2>1, <3>2, <3>3, <3>4
  <2> QED BY <2>2, <2>3
<1>7. Filled(r, place + 1, t)
  BY <1>1, <1>4, <1>5, <1>6 DEF Filled
<1> QED BY <1>4, <1>5, <1>7 DEF r, es, t

\* Nothing but es is in the blocks when they are arranged.
LEMMA ArrangeIs ==
  ASSUME type \in Types, NEW q \in Queues, Len(q.cells) = Span(q), NEW place \in Nat,
         NEW es \in Seq(Elements), place + Len(es) <= Span(q)
  PROVE  LET r == Arrange(q, place, es)
         IN  /\ r \in Queues /\ r.n = q.n /\ r.cap = q.cap /\ r.rs = q.rs /\ r.f = q.f /\ r.b = q.b
             /\ Filled(r, place, es)
<1> DEFINE T == {Raw, Plain, Marked}
           g == [x \in 1..Span(q) |-> Raw]
           p == [q EXCEPT !.cells = g]
           r == Put(p, place, es)
<1>1. Span(q) \in Nat /\ q.cells \in Seq(T) /\ Len(es) \in Nat /\ es \in Seq(T)
  BY SpanIs, PutsAre
<1>2. DOMAIN q.cells = 1..Span(q)
  BY <1>1, LenProperties
<1>3. Arrange(q, place, es) = r
  BY <1>2 DEF Arrange
<1>4. g \in Seq(T) /\ Len(g) = Span(q) /\ \A x \in 1..Span(q) : g[x] = Raw
  <2>1. g \in [1..Span(q) -> T]
    OBVIOUS
  <2> QED BY <1>1, <2>1, SequenceOf
<1> HIDE DEF g
<1>5. /\ p \in Queues /\ p.n = q.n /\ p.cap = q.cap /\ p.rs = q.rs /\ p.f = q.f /\ p.b = q.b
      /\ p.cells = g
  BY <1>4 DEF Queues
<1> HIDE DEF p, T
<1>6. Span(p) = Span(q) /\ Len(p.cells) = Span(p)
  BY <1>4, <1>5 DEF Span
<1>7. /\ r \in Queues /\ r.n = p.n /\ r.cap = p.cap /\ r.rs = p.rs /\ r.f = p.f /\ r.b = p.b
      /\ Len(r.cells) = Span(r) /\ Span(r) = Span(p)
      /\ \A x \in 1..Span(p) :
           r.cells[x] = IF x \in (place + 1)..(place + Len(es)) THEN es[x - place] ELSE p.cells[x]
  BY <1>1, <1>5, <1>6, PutIs DEF T
<1> HIDE DEF r
<1>8. Filled(r, place, es)
  BY <1>1, <1>4, <1>5, <1>6, <1>7 DEF Filled
<1> QED BY <1>3, <1>5, <1>7, <1>8

\* The elements are those between the ends.
LEMMA HeldIs ==
  ASSUME type \in Types, NEW q, NEW s, Held(q, s)
  PROVE  Contents(q) = s /\ Size(q) = Len(s) /\ Len(s) \in Nat
<1>1. /\ q \in Queues /\ s \in Seq(Elements) /\ Len(q.cells) = Span(q) /\ Place(q.f) + Len(s) <= Span(q)
      /\ Place(q.b) = Place(q.f) + Len(s)
  BY DEF Held, Framed, Filled
<1> DEFINE F == Place(q.f)
<1>2. /\ F \in Nat /\ Span(q) \in Nat /\ Len(s) \in Nat /\ q.cells \in Seq({Raw, Plain, Marked})
  BY <1>1, SpanIs, PlaceIs, PutsAre
<1>3. \A x \in 1..Span(q) : q.cells[x] = IF x \in (F + 1)..(F + Len(s)) THEN s[x - F] ELSE Raw
  BY DEF Held, Filled
<1> HIDE DEF F
<1> DEFINE a == F + 1
           b == F + Len(s)
           t == SubSeq(q.cells, a, b)
<1>4. /\ a \in Nat \ {0} /\ b \in 0..Len(q.cells) /\ a <= b + 1
  BY <1>1, <1>2 DEF F
<1>5. b + 1 - a = Len(s)
  BY <1>2
<1> HIDE DEF a, b
<1>6. /\ t \in Seq({Raw, Plain, Marked}) /\ Len(t) = Len(s)
      /\ \A x \in 1..Len(s) : t[x] = q.cells[a + x - 1]
  BY <1>2, <1>4, <1>5, SubIs
<1> HIDE DEF t
<1>7. \A x \in 1..Len(s) : t[x] = s[x]
  <2> TAKE x \in 1..Len(s)
  <2> DEFINE y == a + x - 1
  <2>2. t[x] = q.cells[y]
    BY <1>6
  <2>3. y \in 1..Span(q) /\ y \in (F + 1)..(F + Len(s)) /\ y - F = x
    BY <1>1, <1>2 DEF F, a
  <2> HIDE DEF y
  <2>4. q.cells[y] = s[y - F]
    BY <1>3, <2>3
  <2> QED BY <2>2, <2>3, <2>4
<1>8. t = s
  <2>1. s \in Seq({Raw, Plain, Marked})
    BY <1>1, PutsAre
  <2> QED BY <1>6, <1>7, <2>1, SeqEqual
<1>9. Contents(q) = t
  BY <1>1 DEF Contents, t, a, b, F
<1>10. Size(q) = Len(s)
  <2>1. Place(q.b) = F + Len(s)
    BY <1>1 DEF F
  <2> QED BY <1>2, <2>1 DEF Size, F
<1> QED BY <1>2, <1>8, <1>9, <1>10

LEMMA ContentsIs ==
  ASSUME type \in Types, NEW q, NEW s, Good(q, s)
  PROVE  Contents(q) = s /\ Size(q) = Len(s) /\ Len(s) \in Nat
<1>1. Held(q, s)
  BY DEF Good, Held
<1> QED BY <1>1, HeldIs

LEMMA RawBlocksAre ==
  ASSUME type \in Types, NEW k \in Nat
  PROVE  /\ RawBlocks(k) \in Seq({Raw, Plain, Marked}) /\ Len(RawBlocks(k)) = k * BlockSize
         /\ k * BlockSize \in Nat
         /\ \A x \in 1..(k * BlockSize) : RawBlocks(k)[x] = Raw
<1> DEFINE L == k * BlockSize
           g == [x \in 1..L |-> Raw]
<1>1. L \in Nat
  BY BlocksAre
<1> HIDE DEF L
<1>2. g \in [1..L -> {Raw, Plain, Marked}] /\ \A x \in 1..L : g[x] = Raw
  OBVIOUS
<1>3. g \in Seq({Raw, Plain, Marked}) /\ Len(g) = L
  BY <1>1, <1>2, SequenceOf
<1>4. RawBlocks(k) = g
  BY DEF RawBlocks, L
<1> HIDE DEF g
<1> QED BY <1>1, <1>2, <1>3, <1>4 DEF L

\* Elements that stay in order while the blocks move.
LEMMA FilledMoved ==
  ASSUME NEW q, NEW place, NEW s, Filled(q, place, s), Span(q) \in Nat, place \in Nat,
         NEW r, Len(r.cells) = Span(r), Span(r) \in Nat,
         NEW there \in Nat, there + Len(s) <= Span(r),
         \A x \in 1..Span(r) :
           r.cells[x] = IF x \in (there + 1)..(there + Len(s)) THEN q.cells[x - there + place] ELSE Raw
  PROVE  Filled(r, there, s)
<1>1. s \in Seq(Elements) /\ Len(s) \in Nat /\ place + Len(s) <= Span(q)
  BY PutsAre DEF Filled
<1>2. ASSUME NEW x \in 1..Span(r)
      PROVE  r.cells[x] = IF x \in (there + 1)..(there + Len(s)) THEN s[x - there] ELSE Raw
  <2>1. CASE x \in (there + 1)..(there + Len(s))
    <3>1. /\ x - there + place \in 1..Span(q) /\ x - there + place \in (place + 1)..(place + Len(s))
          /\ x - there + place - place = x - there
      BY <1>1, <2>1
    <3>2. q.cells[x - there + place] = s[x - there]
      BY <3>1 DEF Filled
    <3> QED BY <2>1, <3>2
  <2>2. CASE x \notin (there + 1)..(there + Len(s))
    BY <2>2
  <2> QED BY <2>1, <2>2
<1> QED BY <1>1, <1>2 DEF Filled

-----------------------------------------------------------------------------
(***************************************************************************)
(* Blocks that are borrowed.                                               *)
(***************************************************************************)

\* The first K places go behind the others, and new ones behind them.
TurnedBack(z, K, new) == SubSeq(z, K + 1, Len(z)) \o SubSeq(z, 1, K) \o new

\* Where the places are then.
TurnsBack(u, T, z, K, new) ==
  /\ u \in Seq(T) /\ Len(u) = Len(z) + Len(new)
  /\ \A x \in 1..(Len(z) + Len(new)) :
       /\ x <= Len(z) - K => u[x] = z[x + K]
       /\ Len(z) - K < x /\ x <= Len(z) => u[x] = z[x - (Len(z) - K)]
       /\ Len(z) < x => u[x] = new[x - Len(z)]

LEMMA TurnedBackIs ==
  ASSUME NEW T, NEW z \in Seq(T), NEW new \in Seq(T), NEW K \in Nat, K <= Len(z)
  PROVE  TurnsBack(TurnedBack(z, K, new), T, z, K, new)
<1> DEFINE L == Len(z)
           M == Len(new)
           a == SubSeq(z, K + 1, Len(z))
           b == SubSeq(z, 1, K)
           ab == a \o b
           u == TurnedBack(z, K, new)
<1>0. u = ab \o new
  BY DEF TurnedBack
<1> HIDE DEF u
<1>1. L \in Nat /\ M \in Nat
  BY LenProperties
<1>2. a \in Seq(T) /\ Len(a) = L - K /\ \A x \in 1..(L - K) : a[x] = z[K + 1 + x - 1]
  <2>1. K + 1 \in Nat \ {0} /\ L \in 0..Len(z) /\ K + 1 <= L + 1 /\ L + 1 - (K + 1) = L - K
    BY <1>1
  <2> DEFINE k == K + 1
  <2> HIDE DEF k
  <2>2. SubSeq(z, k, Len(z)) \in Seq(T) /\ Len(SubSeq(z, k, Len(z))) = L + 1 - k
        /\ \A x \in 1..(L + 1 - k) : SubSeq(z, k, Len(z))[x] = z[k + x - 1]
    BY <2>1, SubIs DEF k
  <2> QED BY <2>1, <2>2 DEF k
<1>3. b \in Seq(T) /\ Len(b) = K /\ \A x \in 1..K : b[x] = z[1 + x - 1]
  <2>1. 1 \in Nat \ {0} /\ K \in 0..Len(z) /\ 1 <= K + 1 /\ K + 1 - 1 = K
    BY <1>1
  <2>2. b \in Seq(T) /\ Len(b) = K + 1 - 1 /\ \A x \in 1..(K + 1 - 1) : b[x] = z[1 + x - 1]
    BY <2>1, SubIs
  <2> QED BY <2>1, <2>2
<1> HIDE DEF a, b
<1>4. /\ ab \in Seq(T) /\ Len(ab) = L
      /\ \A x \in 1..L : ab[x] = IF x <= L - K THEN a[x] ELSE b[x - (L - K)]
  <2>1. L - K + K = L
    BY <1>1
  <2>2. /\ ab \in Seq(T) /\ Len(ab) = Len(a) + Len(b)
        /\ \A x \in 1..(Len(a) + Len(b)) : ab[x] = IF x <= Len(a) THEN a[x] ELSE b[x - Len(a)]
    <3>1. a \in Seq(T) /\ b \in Seq(T)
      BY <1>2, <1>3
    <3> QED BY <3>1, ConcatIs
  <2> QED BY <1>2, <1>3, <2>1, <2>2
<1> HIDE DEF ab
<1>5. /\ u \in Seq(T) /\ Len(u) = L + M
      /\ \A x \in 1..(L + M) : u[x] = IF x <= L THEN ab[x] ELSE new[x - L]
  <2>1. /\ u \in Seq(T) /\ Len(u) = Len(ab) + Len(new)
        /\ \A x \in 1..(Len(ab) + Len(new)) : u[x] = IF x <= Len(ab) THEN ab[x] ELSE new[x - Len(ab)]
    <3>1. ab \in Seq(T)
      BY <1>4
    <3> QED BY <1>0, <3>1, ConcatIs
  <2> QED BY <1>4, <2>1
<1>6. ASSUME NEW x \in 1..(L + M)
      PROVE  /\ x <= L - K => u[x] = z[x + K]
             /\ L - K < x /\ x <= L => u[x] = z[x - (L - K)]
             /\ L < x => u[x] = new[x - L]
  <2>1. ASSUME x <= L - K PROVE u[x] = z[x + K]
    <3>1. x \in 1..L /\ x \in 1..(L - K) /\ x <= L /\ K + 1 + x - 1 = x + K
      BY <1>1, <2>1
    <3>2. u[x] = ab[x] /\ ab[x] = a[x] /\ a[x] = z[K + 1 + x - 1]
      BY <1>2, <1>4, <1>5, <2>1, <3>1
    <3> QED BY <3>1, <3>2
  <2>2. ASSUME L - K < x, x <= L PROVE u[x] = z[x - (L - K)]
    <3>1. x \in 1..L /\ ~(x <= L - K) /\ x - (L - K) \in 1..K
      BY <1>1, <2>2
    <3>2. u[x] = ab[x] /\ ab[x] = b[x - (L - K)]
      BY <1>4, <1>5, <2>2, <3>1
    <3> DEFINE y == x - (L - K)
    <3> HIDE DEF y
    <3>3. y \in 1..K /\ 1 + y - 1 = y
      BY <3>1 DEF y
    <3>4. b[y] = z[y]
      BY <1>3, <3>3
    <3> QED BY <3>2, <3>4 DEF y
  <2>3. ASSUME L < x PROVE u[x] = new[x - L]
    BY <1>1, <1>5, <2>3
  <2> QED BY <2>1, <2>2, <2>3
<1> QED BY <1>5, <1>6 DEF u, TurnsBack

\* The last K places go before the others, and new ones before them.
TurnedFront(z, K, new) == new \o SubSeq(z, Len(z) - K + 1, Len(z)) \o SubSeq(z, 1, Len(z) - K)

TurnsFront(u, T, z, K, new) ==
  /\ u \in Seq(T) /\ Len(u) = Len(z) + Len(new)
  /\ \A x \in 1..(Len(z) + Len(new)) :
       /\ x <= Len(new) => u[x] = new[x]
       /\ Len(new) < x /\ x <= Len(new) + K => u[x] = z[x - Len(new) + (Len(z) - K)]
       /\ Len(new) + K < x => u[x] = z[x - (Len(new) + K)]

LEMMA TurnedFrontIs ==
  ASSUME NEW T, NEW z \in Seq(T), NEW new \in Seq(T), NEW K \in Nat, K <= Len(z)
  PROVE  TurnsFront(TurnedFront(z, K, new), T, z, K, new)
<1> DEFINE L == Len(z)
           M == Len(new)
           a == SubSeq(z, Len(z) - K + 1, Len(z))
           b == SubSeq(z, 1, Len(z) - K)
           na == new \o a
           u == TurnedFront(z, K, new)
<1>0. u = na \o b
  BY DEF TurnedFront
<1> HIDE DEF u
<1>1. L \in Nat /\ M \in Nat
  BY LenProperties
<1>2. a \in Seq(T) /\ Len(a) = K /\ \A x \in 1..K : a[x] = z[x + (L - K)]
  <2> DEFINE k == L - K + 1
  <2>1. /\ k \in Nat \ {0} /\ L \in 0..Len(z) /\ k <= L + 1 /\ L + 1 - k = K
        /\ \A x \in 1..K : k + x - 1 = x + (L - K)
    BY <1>1
  <2> HIDE DEF k
  <2>2. SubSeq(z, k, Len(z)) \in Seq(T) /\ Len(SubSeq(z, k, Len(z))) = L + 1 - k
        /\ \A x \in 1..(L + 1 - k) : SubSeq(z, k, Len(z))[x] = z[k + x - 1]
    BY <2>1, SubIs
  <2>3. a = SubSeq(z, k, Len(z))
    BY DEF k
  <2> HIDE DEF a
  <2> QED BY <2>1, <2>2, <2>3
<1>3. b \in Seq(T) /\ Len(b) = L - K /\ \A x \in 1..(L - K) : b[x] = z[x]
  <2> DEFINE k == L - K
  <2>1. /\ 1 \in Nat \ {0} /\ k \in 0..Len(z) /\ 1 <= k + 1 /\ k + 1 - 1 = k
        /\ \A x \in 1..k : 1 + x - 1 = x
    BY <1>1
  <2> HIDE DEF k
  <2>2. SubSeq(z, 1, k) \in Seq(T) /\ Len(SubSeq(z, 1, k)) = k + 1 - 1
        /\ \A x \in 1..(k + 1 - 1) : SubSeq(z, 1, k)[x] = z[1 + x - 1]
    BY <2>1, SubIs
  <2>3. b = SubSeq(z, 1, k)
    BY DEF k
  <2> HIDE DEF b
  <2>4. /\ b \in Seq(T) /\ Len(b) = k + 1 - 1
        /\ \A x \in 1..(k + 1 - 1) : b[x] = z[1 + x - 1]
    BY <2>2, <2>3
  <2>5. b \in Seq(T) /\ Len(b) = k /\ \A x \in 1..k : b[x] = z[x]
    BY <2>1, <2>4
  <2> QED BY <2>5 DEF k
<1> HIDE DEF a, b
<1>4. /\ na \in Seq(T) /\ Len(na) = M + K
      /\ \A x \in 1..(M + K) : na[x] = IF x <= M THEN new[x] ELSE a[x - M]
  <2>1. /\ na \in Seq(T) /\ Len(na) = Len(new) + Len(a)
        /\ \A x \in 1..(Len(new) + Len(a)) : na[x] = IF x <= Len(new) THEN new[x] ELSE a[x - Len(new)]
    <3>1. a \in Seq(T)
      BY <1>2
    <3> QED BY <3>1, ConcatIs
  <2> QED BY <1>2, <2>1
<1> HIDE DEF na
<1>5. /\ u \in Seq(T) /\ Len(u) = L + M
      /\ \A x \in 1..(L + M) : u[x] = IF x <= M + K THEN na[x] ELSE b[x - (M + K)]
  <2>1. /\ u \in Seq(T) /\ Len(u) = Len(na) + Len(b)
        /\ \A x \in 1..(Len(na) + Len(b)) : u[x] = IF x <= Len(na) THEN na[x] ELSE b[x - Len(na)]
    <3>1. na \in Seq(T) /\ b \in Seq(T)
      BY <1>3, <1>4
    <3> QED BY <1>0, <3>1, ConcatIs
  <2>2. M + K + (L - K) = L + M
    BY <1>1
  <2> QED BY <1>3, <1>4, <2>1, <2>2
<1>6. ASSUME NEW x \in 1..(L + M)
      PROVE  /\ x <= M => u[x] = new[x]
             /\ M < x /\ x <= M + K => u[x] = z[x - M + (L - K)]
             /\ M + K < x => u[x] = z[x - (M + K)]
  <2>1. ASSUME x <= M PROVE u[x] = new[x]
    <3>1. x \in 1..(M + K) /\ x <= M + K
      BY <1>1, <2>1
    <3> QED BY <1>4, <1>5, <2>1, <3>1
  <2>2. ASSUME M < x, x <= M + K PROVE u[x] = z[x - M + (L - K)]
    <3>1. x \in 1..(M + K) /\ ~(x <= M) /\ x - M \in 1..K
      BY <1>1, <2>2
    <3>2. u[x] = na[x] /\ na[x] = a[x - M] /\ a[x - M] = z[x - M + (L - K)]
      BY <1>2, <1>4, <1>5, <2>2, <3>1
    <3> QED BY <3>2
  <2>3. ASSUME M + K < x PROVE u[x] = z[x - (M + K)]
    <3>1. ~(x <= M + K) /\ x - (M + K) \in 1..(L - K)
      BY <1>1, <2>3
    <3>2. u[x] = b[x - (M + K)] /\ b[x - (M + K)] = z[x - (M + K)]
      BY <1>3, <1>5, <3>1
    <3> QED BY <3>2
  <2> QED BY <2>1, <2>2, <2>3
<1> QED BY <1>5, <1>6 DEF u, TurnsFront

LEMMA Distributes ==
  ASSUME NEW a \in Nat, NEW b \in Nat, NEW m \in Nat
  PROVE  (a + b) * m = a * m + b * m /\ a * m \in Nat /\ b * m \in Nat /\ (a + b) * m \in Nat
  OBVIOUS

LEMMA PointExcept ==
  ASSUME NEW p \in Points, NEW x
  PROVE  /\ [p EXCEPT !.c = x] = [c |-> x, i |-> p.i]
         /\ [p EXCEPT !.i = x] = [c |-> p.c, i |-> x]
  BY DEF Points

LEMMA PointsMoved ==
  ASSUME type \in Types, NEW p \in Points, NEW k \in Nat
  PROVE  /\ LET r == [c |-> p.c + k, i |-> p.i]
            IN  r \in Points /\ Place(r) = Place(p) + k * BlockSize
         /\ k <= p.c => LET r == [c |-> p.c - k, i |-> p.i]
                        IN  r \in Points /\ Place(r) = Place(p) - k * BlockSize
         /\ k * BlockSize \in Nat
<1> DEFINE C == p.c
           I == p.i
<1>1. C \in Nat /\ I \in 0..BlockSize /\ BlockSize \in Nat /\ Place(p) = C * BlockSize + I
  BY PlaceIs, BlocksAre DEF Points
<1> HIDE DEF C, I, BlockSize
<1>2. /\ (C + k) * BlockSize = C * BlockSize + k * BlockSize
      /\ C * BlockSize \in Nat /\ k * BlockSize \in Nat
  BY <1>1
<1>3. /\ [c |-> C + k, i |-> I] \in Points
      /\ Place([c |-> C + k, i |-> I]) = Place(p) + k * BlockSize
  <2>1. Place([c |-> C + k, i |-> I]) = (C + k) * BlockSize + I
    BY DEF Place
  <2> QED BY <1>1, <1>2, <2>1 DEF Points
<1>4. ASSUME k <= C
      PROVE  /\ [c |-> C - k, i |-> I] \in Points
             /\ Place([c |-> C - k, i |-> I]) = Place(p) - k * BlockSize
  <2>1. C - k \in Nat /\ C = (C - k) + k
    BY <1>1, <1>4
  <2>2. C * BlockSize = (C - k) * BlockSize + k * BlockSize /\ (C - k) * BlockSize \in Nat
    BY <1>1, <2>1
  <2>3. Place([c |-> C - k, i |-> I]) = (C - k) * BlockSize + I
    BY DEF Place
  <2> QED BY <1>1, <1>2, <2>1, <2>2, <2>3 DEF Points
<1> QED BY <1>2, <1>3, <1>4 DEF C, I

\* The end that borrows has more blocks, and the elements are what they were.
LEMMA BorrowBackIs ==
  ASSUME type \in Types, NEW q \in Queues, NEW k \in Nat, NEW new \in Nat, NEW s,
         Filled(q, Place(q.f), s), Place(q.b) = Place(q.f) + Len(s), k <= q.f.c, k <= q.b.c
  PROVE  LET r == BorrowBack(q, k, new)
         IN  /\ r \in Queues /\ r.n = q.n + new /\ r.cap = q.cap /\ r.rs = q.rs + k
             /\ r.f = [c |-> q.f.c - k, i |-> q.f.i] /\ r.b = [c |-> q.b.c - k, i |-> q.b.i]
             /\ Filled(r, Place(r.f), s) /\ Place(r.b) = Place(r.f) + Len(s)
             /\ Place(r.b) = Place(q.b) - k * BlockSize
<1> DEFINE K == k * BlockSize
           M == new * BlockSize
           F == Place(q.f)
           r == BorrowBack(q, k, new)
           T == {Raw, Plain, Marked}
           u == SubSeq(q.cells, k * BlockSize + 1, Len(q.cells)) \o SubSeq(q.cells, 1, k * BlockSize)
                  \o RawBlocks(new)
           rf == [c |-> q.f.c - k, i |-> q.f.i]
           rb == [c |-> q.b.c - k, i |-> q.b.i]
           L == Span(q)
<1>1. /\ q.cells \in Seq(T) /\ Len(q.cells) = L /\ L \in Nat /\ q.n \in Nat /\ q.rs \in Nat
      /\ q.f \in Points /\ q.b \in Points /\ F \in Nat /\ Len(s) \in Nat /\ F + Len(s) <= L
  BY SpanIs, PlaceIs, PutsAre DEF Filled
<1>2. /\ rf \in Points /\ Place(rf) = F - K /\ rb \in Points /\ Place(rb) = Place(q.b) - K /\ K \in Nat
  BY <1>1, PointsMoved
<1>3. F - K \in Nat /\ K <= F
  BY <1>1, <1>2, PlaceIs
<1>4. RawBlocks(new) \in Seq(T) /\ Len(RawBlocks(new)) = M /\ M \in Nat /\ \A x \in 1..M : RawBlocks(new)[x] = Raw
  BY RawBlocksAre
<1> HIDE DEF T, L, F, K, M
<1>5. /\ u \in Seq(T) /\ Len(u) = L + M
      /\ \A x \in 1..(L + M) :
           /\ x <= L - K => u[x] = q.cells[x + K]
           /\ L - K < x /\ x <= L => u[x] = q.cells[x - (L - K)]
           /\ L < x => u[x] = RawBlocks(new)[x - L]
  <2>1. K <= Len(q.cells)
    BY <1>1, <1>2, <1>3
  <2> DEFINE z == q.cells
             R == RawBlocks(new)
  <2>2. /\ z \in Seq(T) /\ R \in Seq(T) /\ K \in Nat /\ K <= Len(z) /\ Len(z) = L /\ Len(R) = M
        /\ u = TurnedBack(z, K, R)
    BY <1>1, <1>2, <1>4, <2>1 DEF K, TurnedBack
  <2> HIDE DEF u, z, R
  <2>3. TurnsBack(TurnedBack(z, K, R), T, z, K, R)
    BY <2>2, TurnedBackIs
  <2>4. /\ u \in Seq(T) /\ Len(u) = L + M
        /\ \A x \in 1..(L + M) :
             /\ x <= L - K => u[x] = z[x + K]
             /\ L - K < x /\ x <= L => u[x] = z[x - (L - K)]
             /\ L < x => u[x] = R[x - L]
    BY <2>2, <2>3 DEF TurnsBack
  <2> QED BY <2>4 DEF z, R
<1>6. r = [q EXCEPT !.n = q.n + new, !.rs = q.rs + k, !.f = rf, !.b = rb, !.cells = u]
  <2>1. [q.f EXCEPT !.c = q.f.c - k] = rf /\ [q.b EXCEPT !.c = q.b.c - k] = rb
    BY <1>1, PointExcept
  <2> HIDE DEF rf, rb
  <2> QED BY <2>1 DEF BorrowBack
<1> HIDE DEF u, rf, rb, r
<1>7. /\ r \in Queues /\ r.n = q.n + new /\ r.cap = q.cap /\ r.rs = q.rs + k
      /\ r.f = rf /\ r.b = rb /\ r.cells = u
  <2>1. q.n + new \in Nat /\ q.rs + k \in Nat /\ u \in Seq(T) /\ rf \in Points /\ rb \in Points
    BY SMTT(30), <1>1, <1>2, <1>5
  <2> QED BY <1>6, <2>1 DEF Queues, T
<1>8. Span(r) = L + M /\ Span(r) \in Nat
  <2>1. BlockSize \in Nat /\ q.n \in Nat
    BY <1>1, BlocksAre
  <2> HIDE DEF BlockSize
  <2>2. (q.n + new) * BlockSize = q.n * BlockSize + new * BlockSize
    BY <2>1, Distributes
  <2>3. Span(r) = (q.n + new) * BlockSize
    BY <1>7 DEF Span
  <2>4. L = q.n * BlockSize /\ M = new * BlockSize
    BY DEF Span, L, M
  <2> HIDE DEF L, M
  <2>5. Span(r) = L + M
    BY <2>2, <2>3, <2>4
  <2> QED BY <1>1, <1>4, <2>5
<1>9. Filled(r, F - K, s)
  <2>1. \A x \in 1..L : q.cells[x] = IF x \in (F + 1)..(F + Len(s)) THEN s[x - F] ELSE Raw
    BY DEF Filled, F, L
  <2>2. ASSUME NEW x \in 1..Span(r)
        PROVE  r.cells[x] = IF x \in (F - K + 1)..(F - K + Len(s)) THEN q.cells[x - (F - K) + F] ELSE Raw
    <3>1. CASE x <= L - K
      <4>1. x + K \in 1..L /\ x - (F - K) + F = x + K
            /\ (x \in (F - K + 1)..(F - K + Len(s)) <=> x + K \in (F + 1)..(F + Len(s)))
        BY <1>1, <1>2, <1>3, <3>1
      <4>2. r.cells[x] = q.cells[x + K]
        BY <1>5, <1>7, <1>8, <3>1
      <4>3. x + K \notin (F + 1)..(F + Len(s)) => q.cells[x + K] = Raw
        BY <2>1, <4>1
      <4> QED BY <4>1, <4>2, <4>3
    <3>2. CASE L - K < x /\ x <= L
      <4>1. /\ x - (L - K) \in 1..L /\ x - (L - K) \notin (F + 1)..(F + Len(s))
            /\ x \notin (F - K + 1)..(F - K + Len(s))
        BY <1>1, <1>2, <1>3, <3>2
      <4>2. r.cells[x] = q.cells[x - (L - K)]
        BY <1>5, <1>7, <1>8, <3>2
      <4> QED BY <2>1, <4>1, <4>2
    <3>3. CASE L < x
      <4>1. x - L \in 1..M /\ x \notin (F - K + 1)..(F - K + Len(s))
        BY <1>1, <1>2, <1>3, <1>4, <1>8, <3>3
      <4>2. r.cells[x] = RawBlocks(new)[x - L]
        BY <1>5, <1>7, <1>8, <3>3
      <4> QED BY <1>4, <4>1, <4>2
    <3> QED BY <1>1, <1>2, <1>8, <3>1, <3>2, <3>3
  <2>3. F - K + Len(s) <= Span(r) /\ Len(r.cells) = Span(r)
    BY <1>1, <1>2, <1>3, <1>4, <1>5, <1>7, <1>8
  <2>4. Filled(q, F, s) /\ Span(q) \in Nat
    BY <1>1 DEF F, L
  <2>5. F \in Nat /\ F - K \in Nat /\ Span(r) \in Nat
    BY <1>1, <1>3, <1>8
  <2> DEFINE there == F - K
  <2> HIDE DEF there
  <2>6. /\ there \in Nat /\ there + Len(s) <= Span(r)
        /\ \A x \in 1..Span(r) :
             r.cells[x] = IF x \in (there + 1)..(there + Len(s)) THEN q.cells[x - there + F] ELSE Raw
    BY <2>2, <2>3, <2>5 DEF there
  <2>7. Filled(r, there, s)
    BY <2>3, <2>4, <2>5, <2>6, FilledMoved
  <2> QED BY <2>7 DEF there
<1>10. Place(rb) = Place(rf) + Len(s)
  <2>1. Place(q.b) = F + Len(s)
    BY DEF F
  <2> QED BY <1>1, <1>2, <2>1
<1>11. Place(rb) = Place(q.b) - k * BlockSize
  BY <1>2 DEF K
<1> QED BY <1>2, <1>7, <1>9, <1>10, <1>11 DEF r, rf, rb

Lends(q, k, new, s) ==
  /\ Filled(q, Place(q.f), s) /\ Place(q.b) = Place(q.f) + Len(s)
  /\ q.b.c + k < q.n /\ k + new <= q.rs

LEMMA BorrowFrontIs ==
  ASSUME type \in Types, NEW q \in Queues, NEW k \in Nat, NEW new \in Nat, NEW s
  PROVE  Lends(q, k, new, s) =>
         LET r == BorrowFront(q, k, new)
         IN  /\ r \in Queues /\ r.n = q.n + new /\ r.cap = q.cap /\ r.rs = q.rs - (k + new)
             /\ r.f = [c |-> q.f.c + (k + new), i |-> q.f.i] /\ r.b = [c |-> q.b.c + (k + new), i |-> q.b.i]
             /\ Filled(r, Place(r.f), s) /\ Place(r.b) = Place(r.f) + Len(s)
<1> DEFINE K == k * BlockSize
           M == new * BlockSize
           F == Place(q.f)
           r == BorrowFront(q, k, new)
           T == {Raw, Plain, Marked}
           u == RawBlocks(new) \o SubSeq(q.cells, Len(q.cells) - k * BlockSize + 1, Len(q.cells))
                  \o SubSeq(q.cells, 1, Len(q.cells) - k * BlockSize)
           rf == [c |-> q.f.c + (k + new), i |-> q.f.i]
           rb == [c |-> q.b.c + (k + new), i |-> q.b.i]
           L == Span(q)
           S == Len(s)
<1>0. SUFFICES ASSUME Lends(q, k, new, s)
               PROVE  /\ r \in Queues /\ r.n = q.n + new /\ r.cap = q.cap /\ r.rs = q.rs - (k + new)
                      /\ r.f = rf /\ r.b = rb
                      /\ Filled(r, Place(r.f), s) /\ Place(r.b) = Place(r.f) + Len(s)
  OBVIOUS
<1>1. /\ q.cells \in Seq(T) /\ Len(q.cells) = L /\ L \in Nat /\ q.n \in Nat /\ q.rs \in Nat
      /\ q.f \in Points /\ q.b \in Points /\ F \in Nat /\ Len(s) \in Nat /\ F + Len(s) + K <= L
  <2>1. /\ q.cells \in Seq(T) /\ Len(q.cells) = L /\ L \in Nat /\ q.n \in Nat /\ q.rs \in Nat
        /\ q.f \in Points /\ q.b \in Points /\ F \in Nat /\ Len(s) \in Nat
    BY <1>0, SpanIs, PlaceIs, PutsAre DEF Filled, Lends
  <2> DEFINE e == [c |-> q.b.c + k, i |-> q.b.i]
  <2>2. e \in Points /\ Place(e) = Place(q.b) + K
    BY <2>1, PointsMoved
  <2>3. e.c < q.n
    BY <1>0 DEF Lends
  <2> HIDE DEF e
  <2>4. Place(e) <= L
    BY <2>1, <2>2, <2>3, InBlocks DEF Span
  <2>5. Place(q.b) = F + Len(s)
    BY <1>0 DEF Lends
  <2> HIDE DEF F, K, L, T
  <2> QED BY <2>1, <2>2, <2>4, <2>5
<1>4. RawBlocks(new) \in Seq(T) /\ Len(RawBlocks(new)) = M /\ M \in Nat /\ \A x \in 1..M : RawBlocks(new)[x] = Raw
  BY RawBlocksAre
<1>2. /\ rf \in Points /\ Place(rf) = F + K + M /\ rb \in Points /\ Place(rb) = Place(q.b) + K + M /\ K \in Nat
  <2> DEFINE e == k + new
  <2>1. e \in Nat
    OBVIOUS
  <2>2. /\ rf \in Points /\ Place(rf) = F + e * BlockSize
        /\ rb \in Points /\ Place(rb) = Place(q.b) + e * BlockSize
    <3>1. rf = [c |-> q.f.c + e, i |-> q.f.i] /\ rb = [c |-> q.b.c + e, i |-> q.b.i]
      OBVIOUS
    <3> HIDE DEF e, rf, rb
    <3>2. q.f \in Points /\ q.b \in Points
      BY <1>1
    <3> QED BY <2>1, <3>1, <3>2, PointsMoved
  <2>3. BlockSize \in Nat
    BY BlocksAre
  <2> HIDE DEF BlockSize
  <2>4. e * BlockSize = K + M /\ K \in Nat
    BY <2>3, Distributes
  <2>5. Place(q.b) \in Nat /\ F \in Nat /\ M \in Nat
    BY <1>1, <1>4, PlaceIs
  <2> HIDE DEF e, K, M, F, rf, rb
  <2>6. F + e * BlockSize = F + K + M /\ Place(q.b) + e * BlockSize = Place(q.b) + K + M
    BY <2>4, <2>5
  <2> QED BY <2>2, <2>4, <2>6
<1> HIDE DEF T, L, F, K, M, S
<1>3. L \in Nat /\ F \in Nat /\ K \in Nat /\ M \in Nat /\ S \in Nat /\ F + S + K <= L
  BY <1>1, <1>2, <1>4 DEF S
<1>5. /\ u \in Seq(T) /\ Len(u) = L + M
      /\ \A x \in 1..(L + M) :
           /\ x <= M => u[x] = RawBlocks(new)[x]
           /\ M < x /\ x <= M + K => u[x] = q.cells[x - M + (L - K)]
           /\ M + K < x => u[x] = q.cells[x - (M + K)]
  <2>1. K <= Len(q.cells)
    BY <1>1, <1>2
  <2> DEFINE z == q.cells
             R == RawBlocks(new)
  <2>2. /\ z \in Seq(T) /\ R \in Seq(T) /\ K \in Nat /\ K <= Len(z) /\ Len(z) = L /\ Len(R) = M
        /\ u = TurnedFront(z, K, R)
    BY <1>1, <1>2, <1>4, <2>1 DEF K, TurnedFront
  <2> HIDE DEF u, z, R
  <2>3. TurnsFront(TurnedFront(z, K, R), T, z, K, R)
    BY <2>2, TurnedFrontIs
  <2>4. /\ u \in Seq(T) /\ Len(u) = L + M
        /\ \A x \in 1..(L + M) :
             /\ x <= M => u[x] = R[x]
             /\ M < x /\ x <= M + K => u[x] = z[x - M + (L - K)]
             /\ M + K < x => u[x] = z[x - (M + K)]
    BY <2>2, <2>3 DEF TurnsFront
  <2> QED BY <2>4 DEF z, R
<1>6. r = [q EXCEPT !.n = q.n + new, !.rs = q.rs - (k + new), !.f = rf, !.b = rb, !.cells = u]
  <2>1. [q.f EXCEPT !.c = q.f.c + (k + new)] = rf /\ [q.b EXCEPT !.c = q.b.c + (k + new)] = rb
    BY <1>1, PointExcept
  <2>2. q.f.c \in Nat /\ q.b.c \in Nat
    BY <1>1, PlaceIs
  <2>3. /\ q.f.c + k + new = q.f.c + (k + new) /\ q.b.c + k + new = q.b.c + (k + new)
        /\ q.rs - k - new = q.rs - (k + new)
    <3>1. q.rs \in Nat
      BY <1>1
    <3> QED BY <2>2, <3>1
  <2> HIDE DEF rf, rb
  <2> QED BY <2>1, <2>3 DEF BorrowFront
<1> HIDE DEF u, rf, rb, r
<1>7. /\ r \in Queues /\ r.n = q.n + new /\ r.cap = q.cap /\ r.rs = q.rs - (k + new)
      /\ r.f = rf /\ r.b = rb /\ r.cells = u
  <2>1. q.n + new \in Nat /\ q.rs - (k + new) \in Nat /\ u \in Seq(T) /\ rf \in Points /\ rb \in Points
    BY SMTT(30), <1>0, <1>1, <1>2, <1>5 DEF Lends
  <2> QED BY <1>6, <2>1 DEF Queues, T
<1>8. Span(r) = L + M /\ Span(r) \in Nat
  <2>1. BlockSize \in Nat /\ q.n \in Nat
    BY <1>1, BlocksAre
  <2> HIDE DEF BlockSize
  <2>2. (q.n + new) * BlockSize = q.n * BlockSize + new * BlockSize
    BY <2>1, Distributes
  <2>3. Span(r) = (q.n + new) * BlockSize
    BY <1>7 DEF Span
  <2>4. L = q.n * BlockSize /\ M = new * BlockSize
    BY DEF Span, L, M
  <2> HIDE DEF L, M
  <2>5. Span(r) = L + M
    BY <2>2, <2>3, <2>4
  <2> QED BY <1>1, <1>4, <2>5
<1> DEFINE there == F + K + M
<1>9. Filled(r, there, s)
  <2>1. \A x \in 1..L : q.cells[x] = IF x \in (F + 1)..(F + S) THEN s[x - F] ELSE Raw
    BY <1>0 DEF Filled, F, L, Lends, S
  <2>2. ASSUME NEW x \in 1..Span(r)
        PROVE  r.cells[x] = IF x \in (there + 1)..(there + S) THEN q.cells[x - there + F] ELSE Raw
    <3>1. CASE x <= M
      <4>1. x \in 1..M /\ x \notin (there + 1)..(there + S)
        BY <1>3, <3>1
      <4>2. r.cells[x] = RawBlocks(new)[x]
        BY <1>5, <1>7, <1>8, <3>1
      <4> QED BY <1>4, <4>1, <4>2
    <3>2. CASE M < x /\ x <= M + K
      <4> DEFINE y == x - M + (L - K)
      <4>1. y \in 1..L /\ y \notin (F + 1)..(F + S)
        <5>1. x \in Nat /\ M < x /\ x <= M + K /\ K <= L
          BY <1>3, <1>8, <3>2
        <5> QED BY <1>3, <5>1
      <4>2. x \notin (there + 1)..(there + S)
        BY <1>3, <3>2
      <4>3. r.cells[x] = q.cells[y]
        BY <1>5, <1>7, <1>8, <3>2
      <4> HIDE DEF y, there
      <4> QED BY <2>1, <4>1, <4>2, <4>3
    <3>3. CASE M + K < x
      <4>1. /\ x - (M + K) \in 1..L /\ x - there + F = x - (M + K)
            /\ (x \in (there + 1)..(there + S) <=> x - (M + K) \in (F + 1)..(F + S))
        BY <1>3, <1>8, <3>3
      <4>2. r.cells[x] = q.cells[x - (M + K)]
        BY <1>5, <1>7, <1>8, <3>3
      <4>3. x - (M + K) \notin (F + 1)..(F + S) => q.cells[x - (M + K)] = Raw
        BY <2>1, <4>1
      <4> QED BY <4>1, <4>2, <4>3
    <3> QED BY <1>3, <1>8, <3>1, <3>2, <3>3
  <2>3. there \in Nat /\ there + S <= Span(r)
    BY <1>3, <1>8
  <2>6. Len(r.cells) = Span(r)
    BY <1>5, <1>7, <1>8
  <2>4. Filled(q, F, s) /\ Span(q) \in Nat /\ F \in Nat
    BY <1>0, <1>1 DEF F, L, Lends
  <2> HIDE DEF there
  <2>5. Span(r) \in Nat
    BY <1>8
  <2> QED BY <2>2, <2>3, <2>4, <2>5, <2>6, FilledMoved DEF S
<1>10. Place(rb) = Place(rf) + Len(s)
  <2>1. Place(q.b) = F + Len(s)
    BY <1>0 DEF F, Lends
  <2> QED BY <1>1, <1>2, <1>4, <2>1
<1> QED BY <1>2, <1>7, <1>9, <1>10 DEF r, rf, rb

-----------------------------------------------------------------------------
(***************************************************************************)
(* Blocks that are reserved.                                               *)
(***************************************************************************)

LEMMA LargerIs ==
  ASSUME NEW x \in Int, NEW y \in Int
  PROVE  Larger(x, y) \in Int /\ x <= Larger(x, y) /\ y <= Larger(x, y)
  BY DEF Larger

\* The controller has slots for the blocks in use and for those that come.
LEMMA GrowToIs ==
  ASSUME type \in Types, NEW q \in Queues, q.f.c <= q.b.c, q.b.c < q.n, NEW extra \in Nat,
         NEW atBack \in BOOLEAN, atBack \/ q.f.c <= extra,
         NEW least \in Nat, q.b.c - q.f.c + 1 + extra <= least
  PROVE  LET r == GrowTo(q, least, atBack)
         IN  /\ r \in Queues /\ r.n = q.n /\ r.cells = q.cells /\ r.f = q.f /\ r.b = q.b
             /\ atBack => r.rs + q.b.c + 1 + extra <= r.cap
             /\ ~atBack => q.f.c + r.rs >= extra + 1 /\ r.rs + q.n - q.f.c <= r.cap
<1> DEFINE F == q.f.c
           B == q.b.c
           N == q.n
           used == B - F + 1
           opposite == IF atBack THEN B + 1 ELSE N - F
           need == least + Larger(opposite, 2 * used) + 1
           cap == IF q.cap + 1 < need THEN need + Slack - 1 ELSE q.cap
           rs == IF atBack THEN cap - least - F ELSE least - B
           r == [q EXCEPT !.cap = cap, !.rs = rs]
<1>1. F \in Nat /\ B \in Nat /\ N \in Nat /\ F <= B /\ B < N /\ Slack \in Nat /\ q.cap \in Nat
  BY SpanIs, PlaceIs, BlocksAre
<1>2. GrowTo(q, least, atBack) = r
  BY DEF GrowTo
<1> HIDE DEF F, B, N
<1>3. /\ used \in Nat /\ opposite \in Nat /\ used + extra <= least /\ (atBack \/ F <= extra)
      /\ atBack => opposite = B + 1
      /\ ~atBack => opposite = N - F
  BY <1>1 DEF F, B, N
<1> HIDE DEF opposite
<1>4. /\ need \in Nat /\ least + opposite + 1 <= need
  <2>1. Larger(opposite, 2 * used) \in Int /\ opposite <= Larger(opposite, 2 * used)
    <3> DEFINE x == opposite
               y == 2 * used
    <3>1. x \in Int /\ y \in Int
      BY <1>1, <1>3
    <3> HIDE DEF x, y
    <3>2. Larger(x, y) \in Int /\ x <= Larger(x, y)
      BY <3>1, LargerIs
    <3> QED BY <3>2 DEF x, y
  <2> QED BY <1>1, <1>3, <2>1
<1> HIDE DEF need
<1>5. cap \in Nat /\ least + opposite <= cap
  BY <1>1, <1>3, <1>4
<1> HIDE DEF cap
<1>6. /\ rs \in Nat
      /\ atBack => rs = cap - least - F
      /\ ~atBack => rs = least - B
  BY <1>1, <1>3, <1>5
<1> HIDE DEF rs
<1>7. /\ r \in Queues /\ r.cap = cap /\ r.rs = rs /\ r.n = q.n /\ r.cells = q.cells /\ r.f = q.f /\ r.b = q.b
  <2>1. cap \in Nat /\ rs \in Nat
    BY <1>5, <1>6
  <2> QED BY <2>1 DEF Queues
<1>8. atBack => rs + B + 1 + extra <= cap
  BY <1>1, <1>3, <1>5, <1>6
<1>9. ~atBack => F + rs >= extra + 1 /\ rs + N - F <= cap
  BY <1>1, <1>3, <1>5, <1>6
<1> HIDE DEF r
<1> QED BY <1>2, <1>7, <1>8, <1>9 DEF F, B, N

LEMMA RebalanceIs ==
  ASSUME type \in Types, NEW q \in Queues, q.f.c <= q.b.c, q.b.c < q.n, NEW extra \in Nat,
         NEW atBack \in BOOLEAN, atBack \/ q.f.c <= extra
  PROVE  LET r == Rebalance(q, extra, atBack)
         IN  /\ r \in Queues /\ r.n = q.n /\ r.cells = q.cells /\ r.f = q.f /\ r.b = q.b
             /\ atBack => r.rs + q.b.c + 1 + extra <= r.cap
             /\ ~atBack => q.f.c + r.rs >= extra + 1 /\ r.rs + q.n - q.f.c <= r.cap
<1> DEFINE room == IF atBack THEN q.cap - (q.rs + q.f.c) ELSE q.rs + q.b.c + 1
           needed == q.b.c - q.f.c + 1 + extra
           least == Larger(2 * room, needed)
<1>1. q.f.c \in Nat /\ q.b.c \in Nat /\ q.cap \in Nat /\ q.rs \in Nat
  BY SpanIs, PlaceIs
<1>2. room \in Int /\ needed \in Nat
  BY <1>1
<1>3. Rebalance(q, extra, atBack) = GrowTo(q, least, atBack)
  BY DEF Rebalance
<1> HIDE DEF room
<1>4. least \in Nat /\ needed <= least
  <2>1. 2 * room \in Int
    BY <1>2
  <2> HIDE DEF needed
  <2>2. least \in Int /\ needed <= least
    BY <1>2, <2>1, LargerIs
  <2> QED BY <1>2, <2>2
<1> HIDE DEF least
<1>5. q.b.c - q.f.c + 1 + extra <= least
  BY <1>4
<1> QED BY <1>3, <1>4, <1>5, GrowToIs

LEMMA GoodIs ==
  ASSUME type \in Types, NEW q, NEW s, Good(q, s)
  PROVE  /\ q \in Queues /\ q.f \in Points /\ q.b \in Points /\ q.n \in Nat /\ q.cap \in Nat /\ q.rs \in Nat
         /\ q.f.c \in Nat /\ q.f.i \in Nat /\ q.b.c \in Nat /\ q.b.i \in Nat
         /\ q.f.i < BlockSize /\ 0 < q.b.i /\ q.b.i <= BlockSize /\ BlockSize \in Nat
         /\ q.f.c <= q.b.c /\ q.b.c < q.n /\ q.rs + q.n <= q.cap
         /\ s \in Seq(Elements) /\ Len(s) \in Nat
<1>1. /\ q \in Queues /\ q.rs + q.n <= q.cap /\ q.f.c < q.n /\ q.b.c < q.n
      /\ q.f.i < BlockSize /\ q.b.i > 0 /\ (Place(q.f) = Place(q.b) => q.f = q.b)
      /\ s \in Seq(Elements) /\ Place(q.b) = Place(q.f) + Len(s)
  BY DEF Good, Framed, Ended, Filled
<1>2. /\ q.f \in Points /\ q.b \in Points /\ q.n \in Nat /\ q.cap \in Nat /\ q.rs \in Nat
      /\ q.f.c \in Nat /\ q.f.i \in Nat /\ q.b.c \in Nat /\ q.b.i \in Nat /\ q.b.i <= BlockSize
      /\ BlockSize \in Nat /\ Len(s) \in Nat
  BY <1>1, SpanIs, PlaceIs, PutsAre, BlocksAre
<1>3. q.f.c <= q.b.c
  <2>1. SUFFICES ASSUME q.b.c < q.f.c PROVE FALSE
    BY <1>2
  <2> DEFINE X == q.b.c * BlockSize
             Y == q.f.c * BlockSize
  <2>2. X + BlockSize <= Y /\ X \in Nat /\ Y \in Nat
    BY <1>2, <2>1, Order
  <2>3. Place(q.b) = X + q.b.i /\ Place(q.f) = Y + q.f.i
    BY <1>1, <1>2, PlaceIs
  <2> HIDE DEF X, Y
  <2>4. X + q.b.i = Y + q.f.i + Len(s)
    BY <1>1, <2>3
  <2>5. Y + q.f.i = X + q.b.i
    BY SMTT(30), <1>2, <2>2, <2>4
  <2> QED BY <1>1, <1>2, <2>1, <2>3, <2>5
<1> QED BY <1>1, <1>2, <1>3

LEMMA FramedIs ==
  ASSUME type \in Types, NEW q, Framed(q)
  PROVE  /\ q \in Queues /\ q.f \in Points /\ q.b \in Points /\ q.n \in Nat /\ q.cap \in Nat /\ q.rs \in Nat
         /\ q.f.c \in Nat /\ q.f.i \in Nat /\ q.b.c \in Nat /\ q.b.i \in Nat /\ q.b.i <= BlockSize
         /\ q.f.c < q.n /\ q.b.c < q.n /\ q.rs + q.n <= q.cap
<1>1. q \in Queues /\ q.rs + q.n <= q.cap /\ q.f.c < q.n /\ q.b.c < q.n
  BY DEF Framed
<1> QED BY <1>1, SpanIs, PlaceIs

\* reserve_back leaves as many free blocks behind the elements as asked for,
\* and the elements where they were among the others.
BackBlocks(q, nb) ==
  LET moved == IF q.cap - (q.rs + q.b.c) <= nb THEN Rebalance(q, nb, TRUE) ELSE q
      need == nb - (q.n - q.b.c - 1)
      k == IF need < q.f.c THEN need ELSE q.f.c
  IN  IF q.n - q.b.c <= nb THEN BorrowBack(moved, k, need - k) ELSE q

LEMMA BackBlocksAre ==
  ASSUME type \in Types, NEW q, NEW s, Held(q, s), q.f.c <= q.b.c, NEW nb \in Nat \ {0}
  PROVE  LET r == BackBlocks(q, nb)
         IN  /\ Held(r, s) /\ r.b.i = q.b.i /\ r.f.i = q.f.i /\ (q.f = q.b => r.f = r.b)
             /\ r.n - r.b.c >= nb + 1 /\ r.n - r.b.c >= q.n - q.b.c
             /\ q.n - q.b.c > nb => r = q
<1> DEFINE r == BackBlocks(q, nb)
           moved == IF q.cap - (q.rs + q.b.c) <= nb THEN Rebalance(q, nb, TRUE) ELSE q
           need == nb - (q.n - q.b.c - 1)
           k == IF need < q.f.c THEN need ELSE q.f.c
           new == need - k
           p == BorrowBack(moved, k, new)
<1>1. /\ q \in Queues /\ q.n \in Nat /\ q.cap \in Nat /\ q.rs \in Nat /\ q.f \in Points /\ q.b \in Points
      /\ q.f.c \in Nat /\ q.b.c \in Nat /\ q.f.c <= q.b.c /\ q.b.c < q.n /\ q.rs + q.n <= q.cap
      /\ Len(s) \in Nat
  BY HeldIs, FramedIs DEF Held
<1>2. BlockSize \in Nat
  BY BlocksAre
<1> HIDE DEF BlockSize
<1>3. ASSUME q.n - q.b.c > nb PROVE r = q
  <2>1. ~(q.n - q.b.c <= nb)
    BY <1>1, <1>3
  <2> QED BY <2>1 DEF BackBlocks
<1>4. ASSUME q.n - q.b.c <= nb
      PROVE  /\ Held(r, s) /\ r.b.i = q.b.i /\ r.f.i = q.f.i /\ (q.f = q.b => r.f = r.b)
             /\ r.n - r.b.c >= nb + 1 /\ r.n - r.b.c >= q.n - q.b.c
  <2>1. /\ moved \in Queues /\ moved.n = q.n /\ moved.cells = q.cells /\ moved.f = q.f /\ moved.b = q.b
        /\ moved.rs + q.b.c + 1 + nb <= moved.cap /\ moved.cap \in Nat /\ moved.rs \in Nat
    <3>1. CASE q.cap - (q.rs + q.b.c) <= nb
      <4> DEFINE m == Rebalance(q, nb, TRUE)
      <4>1. /\ m \in Queues /\ m.n = q.n /\ m.cells = q.cells /\ m.f = q.f /\ m.b = q.b
            /\ m.rs + q.b.c + 1 + nb <= m.cap
        BY <1>1, RebalanceIs
      <4>2. moved = m
        BY <3>1
      <4> HIDE DEF m, moved
      <4> QED BY <4>1, <4>2, SpanIs
    <3>2. CASE ~(q.cap - (q.rs + q.b.c) <= nb)
      <4>1. moved = q
        BY <3>2
      <4> HIDE DEF moved
      <4>2. q.rs + q.b.c + 1 + nb <= q.cap
        BY <1>1, <3>2
      <4> QED BY <1>1, <4>1, <4>2
    <3> QED BY <3>1, <3>2
  <2> HIDE DEF moved
  <2>2. need \in Nat /\ need = nb + q.b.c + 1 - q.n /\ need >= 1
    <3> DEFINE N == q.n
               C == q.b.c
    <3>1. N \in Nat /\ C \in Nat /\ C < N /\ N - C <= nb /\ nb \in Nat
      BY <1>1, <1>4
    <3> HIDE DEF N, C
    <3>2. nb - (N - C - 1) \in Nat /\ nb - (N - C - 1) = nb + C + 1 - N /\ nb - (N - C - 1) >= 1
      BY <3>1
    <3> QED BY <3>2 DEF N, C
  <2> HIDE DEF need
  <2>3. k \in Nat /\ k <= q.f.c /\ k <= q.b.c /\ new \in Nat /\ k + new = need
    BY SMTT(20), <1>1, <2>2
  <2> HIDE DEF k, new
  <2>4. Filled(moved, Place(moved.f), s) /\ Place(moved.b) = Place(moved.f) + Len(s)
    <3>1. Filled(q, Place(q.f), s) /\ Place(q.b) = Place(q.f) + Len(s)
      BY DEF Held
    <3> QED BY <2>1, <3>1, FilledAlike
  <2>5. /\ p \in Queues /\ p.n = q.n + new /\ p.cap = moved.cap /\ p.rs = moved.rs + k
        /\ p.f = [c |-> q.f.c - k, i |-> q.f.i] /\ p.b = [c |-> q.b.c - k, i |-> q.b.i]
        /\ Filled(p, Place(p.f), s) /\ Place(p.b) = Place(p.f) + Len(s)
    BY <2>1, <2>3, <2>4, BorrowBackIs
  <2>6. r = p
    BY <1>4 DEF BackBlocks, moved, need, k, new
  <2> HIDE DEF p, r
  <2>7. p.b.i = q.b.i /\ p.f.i = q.f.i /\ p.f.c = q.f.c - k /\ p.b.c = q.b.c - k
    BY <2>5
  <2> DEFINE N == q.n
             C == q.b.c
             F == q.f.c
             R == moved.rs
             X == moved.cap
  <2>12. /\ N \in Nat /\ C \in Nat /\ F \in Nat /\ R \in Nat /\ X \in Nat /\ k \in Nat /\ new \in Nat
         /\ F <= C /\ C < N /\ N - C <= nb /\ nb \in Nat /\ k + new = nb + C + 1 - N
         /\ R + C + 1 + nb <= X /\ k <= F
    BY <1>1, <1>4, <2>1, <2>2, <2>3
  <2>13. p.n = N + new /\ p.b.c = C - k /\ p.f.c = F - k /\ p.rs = R + k /\ p.cap = X
    BY <2>5, <2>7
  <2> HIDE DEF N, C, F, R, X
  <2>8. p.n - p.b.c >= nb + 1 /\ p.n - p.b.c >= q.n - q.b.c
    <3>1. (N + new) - (C - k) >= nb + 1 /\ (N + new) - (C - k) >= N - C
      BY <2>12
    <3> QED BY <2>13, <3>1 DEF N, C
  <2>9. p.rs + p.n <= p.cap /\ p.f.c < p.n /\ p.b.c < p.n
    <3>1. (R + k) + (N + new) <= X /\ F - k < N + new /\ C - k < N + new
      BY <2>12
    <3> QED BY <2>13, <3>1
  <2>10. q.f = q.b => p.f = p.b
    BY <2>5
  <2>11. Held(p, s)
    BY <2>5, <2>9 DEF Held, Framed
  <2> QED BY <2>6, <2>7, <2>8, <2>10, <2>11
<1>5. q.n - q.b.c > nb \/ q.n - q.b.c <= nb
  BY <1>1
<1>6. q.n - q.b.c > nb => q.n - q.b.c >= nb + 1 /\ q.n - q.b.c >= q.n - q.b.c /\ ~(q.n - q.b.c <= nb)
  BY <1>1
<1> HIDE DEF r
<1> QED BY <1>3, <1>4, <1>5, <1>6 DEF r

LEMMA ReserveBackBlocksIs ==
  ASSUME type \in Types, NEW q, NEW s, Good(q, s), NEW nb \in Nat \ {0}
  PROVE  LET r == ReserveBackBlocks(q, nb)
         IN  /\ Good(r, s) /\ r.b.i = q.b.i
             /\ r.n - r.b.c >= nb + 1 /\ r.n - r.b.c >= q.n - q.b.c
             /\ q.n - q.b.c > nb => r = q
<1> DEFINE r == BackBlocks(q, nb)
<1>1. Held(q, s) /\ q.f.c <= q.b.c /\ q.f.i < BlockSize /\ q.f.i \in Nat /\ BlockSize \in Nat /\ q.b.i > 0
  BY GoodIs DEF Good, Held
<1>2. /\ Held(r, s) /\ r.b.i = q.b.i /\ r.f.i = q.f.i /\ (q.f = q.b => r.f = r.b)
      /\ r.n - r.b.c >= nb + 1 /\ r.n - r.b.c >= q.n - q.b.c
      /\ q.n - q.b.c > nb => r = q
  BY <1>1, BackBlocksAre
<1>3. ReserveBackBlocks(q, nb) = IF r.b.c = r.f.c /\ r.f.i = BlockSize
                                THEN [r EXCEPT !.f = [c |-> r.f.c + 1, i |-> 0]] ELSE r
  BY DEF ReserveBackBlocks, BackBlocks
<1> HIDE DEF r, BlockSize
<1>4. ReserveBackBlocks(q, nb) = r
  <2>1. r.f.i # BlockSize
    BY <1>1, <1>2
  <2> QED BY <1>3, <2>1
<1>5. Ended(r)
  <2>1. ASSUME Place(r.f) = Place(r.b) PROVE r.f = r.b
    <3>1. Len(s) \in Nat /\ Place(r.f) \in Nat /\ Place(q.f) \in Nat
      BY <1>1, <1>2, HeldIs, FramedIs, PlaceIs DEF Held
    <3>2. Len(s) = 0
      BY <1>2, <2>1, <3>1 DEF Held
    <3>3. Place(q.b) = Place(q.f)
      BY <1>1, <3>1, <3>2 DEF Held
    <3>4. q.f = q.b
      BY <3>3 DEF Good, Ended
    <3> QED BY <1>2, <3>4
  <2> QED BY <1>1, <1>2, <2>1 DEF Ended
<1>6. Good(r, s)
  BY <1>2, <1>5 DEF Held, Good
<1> QED BY <1>2, <1>4, <1>6

\* Between blocks without an element, the start goes to the next block.
LEMMA BorderBlocksAre ==
  ASSUME type \in Types, NEW q, Bordered(q), NEW nb \in Nat \ {0}
  PROVE  LET r == ReserveBackBlocks(q, nb)
         IN  /\ Held(r, <<>>) /\ r.f = [c |-> r.b.c + 1, i |-> 0] /\ r.b.i = BlockSize
             /\ r.n - r.b.c >= nb + 1
<1> DEFINE p == BackBlocks(q, nb)
           f == [c |-> p.b.c + 1, i |-> 0]
           r == ReserveBackBlocks(q, nb)
<1>1. Held(q, <<>>) /\ q.f.c <= q.b.c /\ q.f.i = BlockSize /\ BlockSize \in Nat
  <2>1. Held(q, <<>>) /\ q.f = q.b /\ q.b.i = BlockSize
    BY DEF Bordered
  <2>2. q.b.c \in Nat /\ BlockSize \in Nat
    BY <2>1, FramedIs, BlocksAre DEF Held
  <2> QED BY <2>1, <2>2
<1>2. Held(p, <<>>) /\ p.b.i = BlockSize /\ p.f = p.b /\ p.n - p.b.c >= nb + 1
  BY <1>1, BackBlocksAre DEF Bordered
<1>3. r = IF p.b.c = p.f.c /\ p.f.i = BlockSize THEN [p EXCEPT !.f = [c |-> p.f.c + 1, i |-> 0]] ELSE p
  BY DEF ReserveBackBlocks, BackBlocks
<1> HIDE DEF p, r, BlockSize
<1>4. r = [p EXCEPT !.f = f]
  BY <1>2, <1>3
<1>5. p \in Queues /\ p.b \in Points /\ p.b.c \in Nat /\ p.n \in Nat /\ p.rs + p.n <= p.cap
  BY <1>2, FramedIs DEF Held
<1>6. f \in Points /\ Place(f) = Place(p.b) /\ f.c = p.b.c + 1 /\ f.i = 0
  <2> DEFINE c == p.b.c
  <2>1. p.b = [c |-> c, i |-> BlockSize]
    BY <1>2, <1>5 DEF Points
  <2>2. [c |-> c + 1, i |-> 0] \in Points /\ Place([c |-> c, i |-> BlockSize]) = Place([c |-> c + 1, i |-> 0])
    BY <1>5, BlockEnds
  <2> QED BY <2>1, <2>2
<1> HIDE DEF f
<1>7. /\ r \in Queues /\ r.n = p.n /\ r.rs = p.rs /\ r.cap = p.cap /\ r.cells = p.cells /\ r.b = p.b /\ r.f = f
  BY <1>4, <1>5, <1>6 DEF Queues
<1>8. Framed(r)
  <2>1. f.c < p.n /\ p.b.c < p.n
    BY <1>2, <1>5, <1>6
  <2> QED BY <1>5, <1>7, <2>1 DEF Framed
<1>9. Filled(r, Place(r.f), <<>>) /\ Place(r.b) = Place(r.f) + Len(<<>>)
  <2>1. Filled(p, Place(p.f), <<>>) /\ Place(p.b) = Place(p.f) + Len(<<>>) /\ Place(f) = Place(p.f)
    BY <1>2, <1>6 DEF Held
  <2> QED BY <1>6, <1>7, <2>1, FilledAlike
<1> QED BY <1>2, <1>6, <1>7, <1>8, <1>9 DEF Held, f, r

\* A block before the first one with elements.
LEMMA ReserveFrontBlockIs ==
  ASSUME type \in Types, NEW q, NEW s, Good(q, s)
  PROVE  LET r == ReserveFrontBlocks(q, 1)
         IN  Good(r, s) /\ r.f.c >= 1 /\ r.f.i = q.f.i
<1> DEFINE r == ReserveFrontBlocks(q, 1)
           moved == IF q.rs + q.f.c < 1 THEN Rebalance(q, 1, FALSE) ELSE q
           need == 1 - q.f.c
           free == q.n - q.b.c - 1
           k == IF need < free THEN 1 ELSE free
           new == IF need < free THEN 0 ELSE need - free
           p == BorrowFront(moved, k, new)
<1>1. /\ q \in Queues /\ q.n \in Nat /\ q.cap \in Nat /\ q.rs \in Nat /\ q.f \in Points /\ q.b \in Points
      /\ q.f.c \in Nat /\ q.b.c \in Nat /\ q.f.c <= q.b.c /\ q.b.c < q.n /\ q.rs + q.n <= q.cap
      /\ Len(s) \in Nat
  BY GoodIs
<1>3. ASSUME q.f.c >= 1 PROVE r = q /\ Good(r, s) /\ r.f.c >= 1 /\ r.f.i = q.f.i
  <2>1. r = q
    BY <1>3 DEF ReserveFrontBlocks
  <2> HIDE DEF r
  <2> QED BY <1>3, <2>1
<1>4. ASSUME ~(q.f.c >= 1) PROVE Good(r, s) /\ r.f.c >= 1 /\ r.f.i = q.f.i
  <2>0. q.f.c = 0
    BY <1>1, <1>4
  <2>1. /\ moved \in Queues /\ moved.n = q.n /\ moved.cells = q.cells /\ moved.f = q.f /\ moved.b = q.b
        /\ 1 <= moved.rs /\ moved.rs + q.n <= moved.cap /\ moved.cap \in Nat /\ moved.rs \in Nat
    <3>1. CASE q.rs + q.f.c < 1
      <4> DEFINE m == Rebalance(q, 1, FALSE)
      <4>1. /\ m \in Queues /\ m.n = q.n /\ m.cells = q.cells /\ m.f = q.f /\ m.b = q.b
            /\ q.f.c + m.rs >= 1 + 1 /\ m.rs + q.n - q.f.c <= m.cap
        <5>1. q.f.c <= 1 /\ 1 \in Nat /\ FALSE \in BOOLEAN
          BY <2>0
        <5> QED BY <1>1, <5>1, RebalanceIs
      <4>2. moved = m
        BY <3>1
      <4> HIDE DEF m, moved
      <4>3. m.cap \in Nat /\ m.rs \in Nat
        BY <4>1, SpanIs
      <4>4. 1 <= m.rs /\ m.rs + q.n <= m.cap
        BY <1>1, <2>0, <4>1, <4>3
      <4> QED BY <4>1, <4>2, <4>3, <4>4
    <3>2. CASE ~(q.rs + q.f.c < 1)
      <4>1. moved = q
        BY <3>2
      <4> HIDE DEF moved
      <4>2. 1 <= q.rs
        BY <1>1, <2>0, <3>2
      <4> QED BY <1>1, <4>1, <4>2
    <3> QED BY <3>1, <3>2
  <2> HIDE DEF moved
  <2>2. need = 1 /\ free \in Nat /\ free = q.n - q.b.c - 1
    BY <1>1, <2>0
  <2> HIDE DEF need, free
  <2>3. k \in Nat /\ k <= free /\ new \in Nat /\ k + new = 1
    BY <2>2
  <2>4. r = p
    <3>1. CASE need < free
      <4>1. r = BorrowFront(moved, 1, 0)
        BY <1>4, <3>1 DEF ReserveFrontBlocks, moved, need, free
      <4>2. k = 1 /\ new = 0
        BY <3>1
      <4> HIDE DEF k, new
      <4> QED BY <4>1, <4>2
    <3>2. CASE ~(need < free)
      <4>1. r = BorrowFront(moved, free, need - free)
        BY <1>4, <3>2 DEF ReserveFrontBlocks, moved, need, free
      <4>2. k = free /\ new = need - free
        BY <3>2
      <4> HIDE DEF k, new
      <4> QED BY <4>1, <4>2
    <3> QED BY <3>1, <3>2
  <2> HIDE DEF k, new, r
  <2>5. Lends(moved, k, new, s)
    <3>1. Filled(q, Place(q.f), s) /\ Place(q.b) = Place(q.f) + Len(s)
      BY DEF Good
    <3>2. Filled(moved, Place(moved.f), s) /\ Place(moved.b) = Place(moved.f) + Len(s)
      BY <2>1, <3>1, FilledAlike
    <3>3. q.b.c + k < q.n
      BY <1>1, <2>2, <2>3
    <3> QED BY <2>1, <2>3, <3>2, <3>3 DEF Lends
  <2>6. /\ p \in Queues /\ p.n = q.n + new /\ p.cap = moved.cap /\ p.rs = moved.rs - 1
        /\ p.f = [c |-> q.f.c + 1, i |-> q.f.i] /\ p.b = [c |-> q.b.c + 1, i |-> q.b.i]
        /\ Filled(p, Place(p.f), s) /\ Place(p.b) = Place(p.f) + Len(s)
    <3>1. /\ p \in Queues /\ p.n = moved.n + new /\ p.cap = moved.cap /\ p.rs = moved.rs - (k + new)
          /\ p.f = [c |-> moved.f.c + (k + new), i |-> moved.f.i]
          /\ p.b = [c |-> moved.b.c + (k + new), i |-> moved.b.i]
          /\ Filled(p, Place(p.f), s) /\ Place(p.b) = Place(p.f) + Len(s)
      BY <2>1, <2>3, <2>5, BorrowFrontIs
    <3> HIDE DEF p
    <3> QED BY <2>1, <2>3, <3>1
  <2> HIDE DEF p
  <2>7. p.b.i = q.b.i /\ p.f.i = q.f.i /\ p.f.c = q.f.c + 1 /\ p.b.c = q.b.c + 1
    BY <2>6
  <2> DEFINE N == q.n
             C == q.b.c
             R == moved.rs
             X == moved.cap
  <2>8. p.rs + p.n <= p.cap /\ p.f.c < p.n /\ p.b.c < p.n /\ p.f.c >= 1
    <3>1. /\ N \in Nat /\ C \in Nat /\ R \in Nat /\ X \in Nat /\ free \in Nat
          /\ 1 <= R /\ R + N <= X /\ k \in Nat /\ new \in Nat /\ k + new = 1 /\ k <= free /\ free = N - C - 1
      BY <1>1, <2>1, <2>2, <2>3
    <3>2. p.n = N + new /\ p.b.c = C + 1 /\ p.f.c = 1 /\ p.rs = R - 1 /\ p.cap = X
      BY <2>0, <2>6, <2>7
    <3> HIDE DEF N, C, R, X
    <3>3. (R - 1) + (N + new) <= X /\ 1 < N + new /\ C + 1 < N + new
      BY <3>1
    <3> QED BY <3>2, <3>3
  <2>9. Ended(p)
    <3>1. p.f.i < BlockSize /\ p.b.i > 0
      BY <2>7, GoodIs
    <3>2. ASSUME Place(p.f) = Place(p.b) PROVE p.f = p.b
      <4>1. Place(p.f) \in Nat /\ Place(q.f) \in Nat
        BY <1>1, <2>6, SpanIs, PlaceIs
      <4>2. Len(s) = 0
        BY <1>1, <2>6, <3>2, <4>1
      <4>3. Place(q.b) = Place(q.f)
        BY <4>1, <4>2 DEF Good
      <4>4. q.f = q.b
        BY <4>3 DEF Good, Ended
      <4> QED BY <2>6, <4>4
    <3> QED BY <3>1, <3>2 DEF Ended
  <2>10. Good(p, s)
    BY <2>6, <2>8, <2>9 DEF Good, Framed
  <2> QED BY <2>4, <2>7, <2>8, <2>10
<1> HIDE DEF r
<1> QED BY <1>3, <1>4 DEF r

LEMMA AllocateIs ==
  ASSUME type \in Types, NEW k \in Nat \ {0}, NEW f \in Points, NEW b \in Points, f.c < k, b.c < k
  PROVE  LET r == Allocate(k, f, b)
         IN  /\ Framed(r) /\ r.n = k /\ r.f = f /\ r.b = b /\ Len(r.cells) = Span(r)
             /\ \A x \in 1..Span(r) : r.cells[x] = Raw
<1> DEFINE r == Allocate(k, f, b)
           cap == k + Slack
           rs == (k + Slack) \div 2 - k \div 2
<1>1. k \in Nat /\ Slack \in Nat
  BY BlocksAre
<1>2. cap \in Nat /\ rs \in Nat /\ rs + k <= cap
  <2> HIDE DEF Slack
  <2> QED BY <1>1
<1>3. RawBlocks(k) \in Seq({Raw, Plain, Marked}) /\ Len(RawBlocks(k)) = k * BlockSize
      /\ \A x \in 1..(k * BlockSize) : RawBlocks(k)[x] = Raw
  BY <1>1, RawBlocksAre
<1>4. r = [cap |-> cap, rs |-> rs, n |-> k, cells |-> RawBlocks(k), f |-> f, b |-> b]
  BY DEF Allocate
<1> HIDE DEF cap, rs, r, BlockSize
<1>5. /\ r \in Queues /\ r.n = k /\ r.f = f /\ r.b = b /\ r.cells = RawBlocks(k) /\ r.rs = rs /\ r.cap = cap
  BY <1>1, <1>2, <1>3, <1>4 DEF Queues
<1>6. Framed(r)
  BY <1>2, <1>5 DEF Framed
<1>7. Span(r) = k * BlockSize
  BY <1>5 DEF Span
<1> QED BY <1>3, <1>5, <1>6, <1>7 DEF r

LEMMA AllRaw ==
  ASSUME NEW q, NEW place \in Nat, place <= Span(q), Len(q.cells) = Span(q), Span(q) \in Nat,
         \A x \in 1..Span(q) : q.cells[x] = Raw
  PROVE  Filled(q, place, <<>>)
<1>1. <<>> \in Seq(Elements) /\ Len(<<>>) = 0
  OBVIOUS
<1>2. \A x \in 1..Span(q) : x \notin (place + 1)..(place + 0)
  OBVIOUS
<1> QED BY <1>1, <1>2 DEF Filled

\* A queue without elements.
LEMMA AllocatedIsGood ==
  ASSUME type \in Types, NEW k \in Nat \ {0}, NEW p \in Points, p.c < k, 0 < p.i, p.i < BlockSize
  PROVE  LET r == Allocate(k, p, p) IN Good(r, <<>>) /\ r.n = k /\ r.f = p /\ r.b = p
<1> DEFINE r == Allocate(k, p, p)
<1>1. /\ Framed(r) /\ r.n = k /\ r.f = p /\ r.b = p /\ Len(r.cells) = Span(r)
      /\ \A x \in 1..Span(r) : r.cells[x] = Raw
  BY SMTT(30), AllocateIs
<1> HIDE DEF r
<1>2. Place(p) \in Nat /\ Place(p) <= k * BlockSize /\ k * BlockSize \in Nat
  <2>1. k \in Nat
    OBVIOUS
  <2> QED BY <2>1, PlaceIs, InBlocks, RawBlocksAre
<1>3. Span(r) = k * BlockSize
  BY <1>1 DEF Span
<1>4. Filled(r, Place(p), <<>>)
  BY <1>1, <1>2, <1>3, AllRaw
<1>5. Ended(r)
  BY <1>1 DEF Ended
<1>6. Place(r.b) = Place(r.f) + Len(<<>>)
  <2>1. Len(<<>>) = 0 /\ Place(p) + 0 = Place(p)
    BY <1>2
  <2> QED BY <1>1, <2>1
<1> QED BY <1>1, <1>4, <1>5, <1>6 DEF Good, r

LEMMA FreeBehind ==
  ASSUME type \in Types, NEW q, Framed(q), NEW n \in Nat, n <= q.n - q.b.c
  PROVE  /\ Behind(q) \in Nat /\ Behind(q) >= n * BlockSize - q.b.i /\ n * BlockSize \in Nat
         /\ Behind(q) = (q.n - q.b.c) * BlockSize - q.b.i
<1> DEFINE N == q.n
           C == q.b.c
           I == q.b.i
<1>1. N \in Nat /\ C \in Nat /\ I \in Nat /\ I <= BlockSize /\ BlockSize \in Nat /\ C < N /\ n <= N - C
  BY FramedIs, BlocksAre
<1>2. Place(q.b) = C * BlockSize + I /\ Span(q) = N * BlockSize
  BY FramedIs, PlaceIs DEF Span
<1> HIDE DEF N, C, I, BlockSize
<1> DEFINE e == N - C
<1>3. e \in Nat /\ N = C + e /\ n <= e /\ 1 <= e
  BY <1>1
<1> HIDE DEF e
<1>4. N * BlockSize = C * BlockSize + e * BlockSize /\ C * BlockSize \in Nat /\ e * BlockSize \in Nat
  BY <1>1, <1>3, Distributes
<1>5. n * BlockSize <= e * BlockSize /\ n * BlockSize \in Nat
  BY <1>1, <1>3, ProductsGrow
<1>6. BlockSize <= e * BlockSize
  <2>1. 1 * BlockSize <= e * BlockSize /\ 1 * BlockSize = BlockSize
    BY <1>1, <1>3, ProductsGrow
  <2> QED BY <2>1
<1> DEFINE X == C * BlockSize
           Y == e * BlockSize
           Z == n * BlockSize
<1>7. Behind(q) = (X + Y) - (X + I)
  BY <1>2, <1>4 DEF Behind
<1>8. Z <= Y /\ Z \in Nat /\ X \in Nat /\ Y \in Nat /\ BlockSize <= Y
  BY <1>4, <1>5, <1>6
<1> HIDE DEF X, Y, Z
<1>9. Behind(q) = Y - I /\ Behind(q) \in Nat /\ Behind(q) >= Z - I
  BY <1>1, <1>7, <1>8
<1> QED BY <1>8, <1>9 DEF Y, Z, e, N, C, I

LEMMA BehindIs ==
  ASSUME type \in Types, NEW q, NEW s, Good(q, s), NEW n \in Nat, n <= q.n - q.b.c
  PROVE  /\ Behind(q) \in Nat /\ Behind(q) >= n * BlockSize - q.b.i /\ n * BlockSize \in Nat
         /\ Behind(q) = (q.n - q.b.c) * BlockSize - q.b.i
<1>1. Framed(q)
  BY DEF Good
<1> HIDE DEF Framed
<1> QED BY <1>1, FreeBehind

LEMMA QuotientIs ==
  ASSUME NEW a \in Nat, NEW m \in Nat \ {0}
  PROVE  /\ a \div m \in Nat /\ a < (a \div m + 1) * m /\ (a \div m + 1) * m \in Nat
         /\ a < m => a \div m = 0
<1> DEFINE e == a \div m
           X == e * m
<1>1. e \in Nat /\ a % m \in 0..(m - 1) /\ a = X + (a % m) /\ m \in Nat /\ m >= 1
  <2>1. m \in Nat /\ m >= 1
    OBVIOUS
  <2>2. e \in Nat /\ a % m \in 0..(m - 1) /\ a = X + (a % m)
    BY Zenon, DivisionSplits
  <2> QED BY <2>1, <2>2
<1> HIDE DEF e
<1>2. (e + 1) * m = X + 1 * m /\ 1 * m = m /\ X \in Nat
  BY <1>1, Distributes
<1>3. e >= 1 => X >= m
  <2> SUFFICES ASSUME e >= 1 PROVE X >= m
    OBVIOUS
  <2>1. 1 * m <= e * m
    BY <1>1, ProductsGrow
  <2> QED BY <1>2, <2>1
<1> DEFINE Y == (e + 1) * m
<1>4. Y = X + m
  BY <1>2
<1> HIDE DEF X, Y
<1>5. a < Y /\ Y \in Nat
  BY <1>1, <1>2, <1>4
<1>6. a < m => e = 0
  BY <1>1, <1>2, <1>3
<1> QED BY <1>1, <1>5, <1>6 DEF e, Y

LEMMA NullIs == Null.n = 0 /\ Null.f = [c |-> 0, i |-> 0] /\ Null.b = [c |-> 0, i |-> 0]
  BY DEF Null

\* reserve_back leaves as many free places behind the elements as asked for.
LEMMA ReserveBackSpacesIs ==
  ASSUME type \in Types, NEW q, NEW s, Kept(q, s), NEW x \in Nat \ {0}
  PROVE  LET r == ReserveBackSpaces(q, x)
         IN  /\ Good(r, s) /\ Behind(r) >= x
             /\ q.n > 0 => Behind(r) >= Behind(q)
<1> DEFINE r == ReserveBackSpaces(q, x)
           room == RoomBack(q)
           a == x - room
           nb == a \div BlockSize + 1
<1>1. BlockSize \in Nat /\ BlockSize >= 2 /\ BlockSize \in Nat \ {0}
  BY BlocksAre
<1>2. CASE q = Null /\ s = <<>>
  <2> DEFINE p == [c |-> 0, i |-> 1]
  <2>1. q.n = 0
    BY <1>2, NullIs
  <2>2. room = 0
    BY <2>1 DEF RoomBack
  <2>3. a = x /\ a \in Nat /\ ~(x <= room)
    BY <2>2
  <2>4. r = Allocate(nb, p, p)
    BY <2>1, <2>3 DEF ReserveBackSpaces
  <2>5. nb \in Nat \ {0} /\ x < nb * BlockSize /\ nb * BlockSize \in Nat
    BY <1>1, <2>3, QuotientIs
  <2> HIDE DEF r, nb, BlockSize
  <2>6. p \in Points /\ p.c < nb /\ 0 < p.i /\ p.i < BlockSize
    BY <1>1, <2>5 DEF Points
  <2>7. Good(r, <<>>) /\ r.n = nb /\ r.b = p
    BY <2>4, <2>5, <2>6, AllocatedIsGood
  <2>8. Behind(r) >= nb * BlockSize - 1
    <3>1. nb \in Nat /\ nb <= r.n - r.b.c /\ r.b.i = 1
      BY <2>5, <2>7
    <3> QED BY <2>7, <3>1, BehindIs
  <2> DEFINE Y == nb * BlockSize
  <2>9. Behind(r) \in Nat
    <3>1. 0 \in Nat /\ 0 <= r.n - r.b.c
      BY <2>5, <2>7
    <3> QED BY <2>7, <3>1, BehindIs
  <2>10. Y \in Nat /\ x < Y /\ Behind(r) >= Y - 1
    BY <2>5, <2>8
  <2> HIDE DEF Y
  <2>11. Behind(r) >= x
    BY <2>9, <2>10
  <2>12. ~(q.n > 0)
    BY <2>1
  <2> QED BY <1>2, <2>7, <2>11, <2>12 DEF r
<1>3. CASE Good(q, s)
  <2> DEFINE N == q.n
             C == q.b.c
             I == q.b.i
  <2>1. N \in Nat /\ C \in Nat /\ I \in Nat /\ I <= BlockSize /\ C < N /\ N > 0
    BY <1>3, GoodIs
  <2>2. room = BlockSize - I /\ room \in Nat
    BY <1>1, <2>1 DEF RoomBack
  <2> HIDE DEF room, BlockSize
  <2>3. Behind(q) \in Nat /\ Behind(q) >= room
    <3>1. 1 \in Nat /\ 1 <= q.n - q.b.c
      BY <2>1
    <3>2. Behind(q) \in Nat /\ Behind(q) >= 1 * BlockSize - q.b.i
      BY <1>3, <3>1, BehindIs
    <3> HIDE DEF N, C
    <3> QED BY <1>1, <2>1, <2>2, <3>2
  <2>4. CASE x <= room
    <3>1. r = q
      BY <2>4 DEF ReserveBackSpaces, room
    <3> HIDE DEF r
    <3>2. Behind(q) >= x /\ Behind(q) >= Behind(q)
      BY <2>2, <2>3, <2>4
    <3> QED BY <1>3, <3>1, <3>2 DEF r
  <2>5. CASE ~(x <= room)
    <3>1. a \in Nat
      BY <2>2, <2>5
    <3>2. r = ReserveBackBlocks(q, nb)
      BY <2>1, <2>5 DEF ReserveBackSpaces, room
    <3>3. nb \in Nat \ {0} /\ a < nb * BlockSize /\ nb * BlockSize \in Nat
      <4> HIDE DEF a
      <4> QED BY <1>1, <3>1, QuotientIs
    <3> HIDE DEF nb, r
    <3>4. Good(r, s) /\ r.b.i = I /\ r.n - r.b.c >= nb + 1 /\ r.n - r.b.c >= q.n - q.b.c
      BY <1>3, <3>2, <3>3, ReserveBackBlocksIs
    <3> DEFINE Y == nb * BlockSize
               Z == (N - C) * BlockSize
    <3>5. Behind(r) \in Nat /\ Behind(r) >= Y + BlockSize - I
      <4>1. nb + 1 \in Nat
        BY <3>3
      <4>2. r.n - r.b.c \in Int
        BY <3>4, GoodIs
      <4>3. Behind(r) \in Nat /\ Behind(r) >= (nb + 1) * BlockSize - r.b.i
        <5>1. nb + 1 <= r.n - r.b.c
          BY <3>4, <4>1, <4>2
        <5> QED BY <3>4, <4>1, <5>1, BehindIs
      <4>4. (nb + 1) * BlockSize = nb * BlockSize + 1 * BlockSize /\ 1 * BlockSize = BlockSize
        BY <1>1, <3>3, Distributes
      <4> DEFINE W == (nb + 1) * BlockSize
      <4>5. W = Y + BlockSize /\ Y \in Nat /\ Behind(r) \in Nat /\ Behind(r) >= W - I
        BY <3>3, <3>4, <4>3, <4>4
      <4> HIDE DEF W, Y
      <4> QED BY <1>1, <2>1, <4>5
    <3>6. Behind(r) >= Z - I /\ Behind(q) = Z - I
      <4>1. N - C \in Nat
        BY <2>1
      <4>2. r.n - r.b.c \in Int
        BY <3>4, GoodIs
      <4>3. Behind(r) >= (N - C) * BlockSize - r.b.i
        <5>1. N - C <= r.n - r.b.c
          BY <3>4, <4>1, <4>2
        <5> QED BY <3>4, <4>1, <5>1, BehindIs
      <4>4. Behind(q) = (q.n - q.b.c) * BlockSize - q.b.i
        <5>1. 0 \in Nat /\ 0 <= q.n - q.b.c
          BY <2>1
        <5> QED BY <1>3, <5>1, BehindIs
      <4>5. r.b.i = q.b.i
        BY <3>4
      <4> HIDE DEF Z, I
      <4>6. Behind(r) >= Z - q.b.i /\ Behind(q) = Z - q.b.i
        BY <4>3, <4>4, <4>5 DEF Z
      <4> QED BY <4>6 DEF I
    <3>7. Y \in Nat /\ x - room < Y
      BY <3>3
    <3> HIDE DEF Y, Z, I, N, C
    <3>8. Behind(r) >= x /\ Behind(r) >= Behind(q)
      <4>1. x < Y + room
        BY <2>2, <3>7
      <4> QED BY <1>1, <2>1, <2>2, <3>5, <3>6, <3>7, <4>1
    <3> QED BY <3>4, <3>8 DEF r
  <2> QED BY <2>4, <2>5
<1> QED BY <1>2, <1>3 DEF Kept

LEMMA BorderSpacesAre ==
  ASSUME type \in Types, NEW q, Bordered(q), NEW x \in Nat \ {0}
  PROVE  LET r == ReserveBackSpaces(q, x) IN Ready(r, <<>>) /\ Behind(r) >= x
<1> DEFINE r == ReserveBackSpaces(q, x)
           nb == x \div BlockSize + 1
           Y == nb * BlockSize
<1>1. BlockSize \in Nat /\ BlockSize >= 2 /\ BlockSize \in Nat \ {0}
  BY BlocksAre
<1>2. q.n \in Nat /\ q.n > 0 /\ q.b.i = BlockSize
  <2>1. Framed(q) /\ q.b.i = BlockSize
    BY DEF Bordered, Held
  <2>2. q.n \in Nat /\ q.b.c \in Nat /\ q.b.c < q.n
    BY <2>1, FramedIs
  <2> QED BY <2>1, <2>2
<1> HIDE DEF BlockSize
<1>3. RoomBack(q) = 0
  BY <1>1, <1>2 DEF RoomBack
<1>4. r = ReserveBackBlocks(q, nb)
  <2>1. x - RoomBack(q) = x /\ ~(x <= RoomBack(q)) /\ q.n # 0
    BY <1>2, <1>3
  <2> QED BY <2>1 DEF ReserveBackSpaces
<1>5. nb \in Nat \ {0} /\ x < Y /\ Y \in Nat
  BY <1>1, QuotientIs
<1> HIDE DEF r, nb
<1>6. Held(r, <<>>) /\ r.f = [c |-> r.b.c + 1, i |-> 0] /\ r.b.i = BlockSize /\ r.n - r.b.c >= nb + 1
  BY <1>4, <1>5, BorderBlocksAre
<1>7. Behind(r) >= (nb + 1) * BlockSize - BlockSize /\ Behind(r) \in Nat
  <2>1. Framed(r) /\ nb + 1 \in Nat
    BY <1>5, <1>6 DEF Held
  <2>2. r.n \in Nat /\ r.b.c \in Nat
    BY <2>1, FramedIs
  <2>3. nb + 1 <= r.n - r.b.c
    BY <1>5, <1>6, <2>2
  <2> QED BY <1>6, <2>1, <2>3, FreeBehind
<1>8. (nb + 1) * BlockSize = Y + BlockSize
  <2>1. (nb + 1) * BlockSize = nb * BlockSize + 1 * BlockSize /\ 1 * BlockSize = BlockSize
    BY <1>1, <1>5, Distributes
  <2> QED BY <2>1
<1> DEFINE W == (nb + 1) * BlockSize
<1>9. Behind(r) >= W - BlockSize /\ W = Y + BlockSize
  BY <1>7, <1>8
<1> HIDE DEF W, Y
<1>10. Behind(r) >= x
  BY <1>1, <1>5, <1>7, <1>9
<1>11. r.f.i < BlockSize
  BY <1>1, <1>6
<1> QED BY <1>6, <1>10, <1>11 DEF Ready, r

\* Whatever the queue was like, the elements can now be put behind the others.
LEMMA SpacesAreReady ==
  ASSUME type \in Types, NEW q, NEW s, Legal(q, s), NEW x \in Nat \ {0}
  PROVE  LET r == ReserveBackSpaces(q, x) IN Ready(r, s) /\ Behind(r) >= x
<1> DEFINE r == ReserveBackSpaces(q, x)
<1>1. CASE Kept(q, s)
  <2>1. Good(r, s) /\ Behind(r) >= x
    BY <1>1, ReserveBackSpacesIs
  <2> HIDE DEF r
  <2>2. Ready(r, s)
    BY <2>1 DEF Ready, Held, Good, Ended
  <2> QED BY <2>1, <2>2 DEF r
<1>2. CASE Bordered(q) /\ s = <<>>
  BY <1>2, BorderSpacesAre
<1> QED BY <1>1, <1>2 DEF Legal

\* reserve_front for fewer elements than a block has; that the places are
\* there is known where they are counted in elements.
LEMMA ReserveFrontSpacesIs ==
  ASSUME type \in Types, NEW q, NEW s, Kept(q, s), NEW x \in 1..(BlockSize - 1), NEW unit \in Nat \ {0}
  PROVE  LET r == ReserveFrontSpaces(q, x, unit)
         IN  Good(r, s) /\ (unit = 1 => Place(r.f) >= x)
<1> DEFINE r == ReserveFrontSpaces(q, x, unit)
           room == q.f.i * unit
           a == x - room
           nb == a \div BlockSize + 1
           last == [c |-> nb - 1, i |-> BlockSize - 1]
<1>1. BlockSize \in Nat /\ BlockSize >= 2 /\ BlockSize \in Nat \ {0} /\ x \in Nat /\ 1 <= x /\ x < BlockSize
  BY BlocksAre
<1>2. ASSUME room \in Nat, ~(x <= room) PROVE nb = 1 /\ last = [c |-> 0, i |-> BlockSize - 1]
  <2>1. a \in Nat /\ a < BlockSize
    BY <1>1, <1>2
  <2> HIDE DEF a, BlockSize
  <2>2. a \div BlockSize = 0
    BY <1>1, <2>1, QuotientIs
  <2> QED BY <2>2
<1>3. CASE q = Null /\ s = <<>>
  <2> DEFINE p == [c |-> 0, i |-> BlockSize - 1]
  <2>1. q.n = 0 /\ q.f.i = 0
    BY <1>3, NullIs
  <2>2. room \in Nat /\ ~(x <= room)
    BY <1>1, <2>1
  <2>3. r = Allocate(1, p, p)
    <3>1. r = Allocate(nb, last, last)
      BY <2>1, <2>2 DEF ReserveFrontSpaces
    <3>2. nb = 1 /\ last = p
      BY <1>2, <2>2
    <3> HIDE DEF r, nb, last, p
    <3> QED BY <3>1, <3>2
  <2> HIDE DEF r, BlockSize
  <2>4. p \in Points /\ p.c < 1 /\ 0 < p.i /\ p.i < BlockSize /\ 1 \in Nat \ {0}
    BY <1>1 DEF Points
  <2>5. Good(r, <<>>) /\ r.f = p
    BY <2>3, <2>4, AllocatedIsGood
  <2>6. Place(r.f) >= x
    <3>1. Place(p) = BlockSize - 1
      BY <1>1 DEF Place
    <3> QED BY <1>1, <2>5, <3>1
  <2> QED BY <1>3, <2>5, <2>6 DEF r
<1>4. CASE Good(q, s)
  <2>1. /\ q.n > 0 /\ q.f.i \in Nat /\ q.f \in Points
    <3>1. q.n \in Nat /\ q.b.c \in Nat /\ q.b.c < q.n /\ q.f.i \in Nat /\ q.f \in Points
      BY <1>4, GoodIs
    <3> QED BY <3>1
  <2>2. room \in Nat
    BY <2>1
  <2>3. unit = 1 => room = q.f.i
    BY <2>1
  <2> HIDE DEF room
  <2>4. CASE x <= room
    <3>1. r = q
      BY <2>4 DEF ReserveFrontSpaces, room
    <3> HIDE DEF r
    <3>2. Place(q.f) = q.f.c * BlockSize + q.f.i /\ q.f.c * BlockSize \in Nat
      BY <2>1, PlaceIs
    <3> DEFINE X == q.f.c * BlockSize
    <3>3. Place(q.f) = X + q.f.i /\ X \in Nat
      BY <3>2
    <3> HIDE DEF X, BlockSize
    <3>4. unit = 1 => Place(q.f) >= x
      BY <1>1, <2>1, <2>3, <2>4, <3>3
    <3> QED BY <1>4, <3>1, <3>4 DEF r
  <2>5. CASE ~(x <= room)
    <3>1. nb = 1
      BY <1>2, <2>2, <2>5
    <3>2. r = ReserveFrontBlocks(q, nb)
      BY <2>1, <2>5 DEF ReserveFrontSpaces, room
    <3> HIDE DEF r, nb
    <3>3. Good(r, s) /\ r.f.c >= 1
      BY <1>4, <3>1, <3>2, ReserveFrontBlockIs
    <3>4. r.f \in Points /\ r.f.c \in Nat /\ r.f.i \in Nat
      BY <3>3, GoodIs
    <3>5. Place(r.f) = r.f.c * BlockSize + r.f.i
      BY <3>4, PlaceIs
    <3>6. 1 * BlockSize <= r.f.c * BlockSize /\ 1 * BlockSize = BlockSize /\ r.f.c * BlockSize \in Nat
      BY <1>1, <3>3, <3>4, ProductsGrow
    <3> DEFINE X == r.f.c * BlockSize
    <3>7. Place(r.f) = X + r.f.i /\ X \in Nat /\ BlockSize <= X
      BY <3>5, <3>6
    <3> HIDE DEF X, BlockSize
    <3>8. Place(r.f) >= x
      BY <1>1, <3>4, <3>7
    <3> QED BY <3>3, <3>8 DEF r
  <2> QED BY <2>4, <2>5
<1> QED BY <1>3, <1>4 DEF Kept

-----------------------------------------------------------------------------
(***************************************************************************)
(* The end of the elements.                                                *)
(***************************************************************************)

\* Points that are inside a block on either side of a place.
LEMMA SamePoint ==
  ASSUME type \in Types, NEW p \in Points, NEW q \in Points, Place(p) = Place(q),
         p.i > 0, p.i < BlockSize, q.i > 0
  PROVE  p = q
<1>1. p.c \in Nat /\ p.i \in Nat /\ q.c \in Nat /\ q.i \in Nat /\ q.i <= BlockSize /\ BlockSize \in Nat
  BY PlaceIs, BlocksAre
<1>2. CASE q.i < BlockSize
  BY <1>2, OnePoint
<1>3. CASE q.i = BlockSize
  <2> DEFINE e == [c |-> q.c + 1, i |-> 0]
  <2>1. e \in Points /\ Place(e) = Place(q)
    <3>1. q = [c |-> q.c, i |-> BlockSize]
      BY <1>3 DEF Points
    <3> HIDE DEF BlockSize
    <3>2. Place([c |-> q.c, i |-> BlockSize]) = Place(e) /\ e \in Points
      BY <1>1, BlockEnds
    <3> HIDE DEF e
    <3> QED BY <3>1, <3>2
  <2>2. e.i < BlockSize
    BY <1>1
  <2>3. e.i = 0
    OBVIOUS
  <2> HIDE DEF e
  <2>4. p = e
    BY <2>1, <2>2, OnePoint
  <2> QED BY <1>1, <2>3, <2>4
<1> QED BY <1>1, <1>2, <1>3

LEMMA EndInBlocks ==
  ASSUME type \in Types, NEW e \in Points, e.i > 0, NEW n \in Nat, Place(e) <= n * BlockSize
  PROVE  e.c < n
<1> DEFINE C == e.c
           I == e.i
           X == C * BlockSize
           Y == n * BlockSize
<1>1. C \in Nat /\ I \in Nat /\ I > 0 /\ Place(e) = X + I /\ X \in Nat /\ BlockSize \in Nat /\ Place(e) <= Y
  BY PlaceIs, BlocksAre
<1> HIDE DEF C, I, BlockSize
<1>2. SUFFICES ASSUME n <= C PROVE FALSE
  BY <1>1 DEF C
<1>3. Y <= X /\ Y \in Nat
  BY <1>1, <1>2, ProductsGrow
<1> HIDE DEF X, Y
<1> QED BY <1>1, <1>3

LEMMA NoElements ==
  ASSUME NEW s \in Seq(Elements), Len(s) = 0
  PROVE  s = <<>>
  BY EmptySeq

\* The end goes behind the elements, and into the block of the last one.
LEMMA SetEndIs ==
  ASSUME type \in Types, NEW q \in Queues, q.rs + q.n <= q.cap, q.f.c < q.n, q.f.i < BlockSize,
         NEW s, Filled(q, Place(q.f), s), NEW e \in Points, Place(e) = Place(q.f) + Len(s),
         e.i < BlockSize \/ Len(s) > 0
  PROVE  Good(SetEnd(q, e), s)
<1> DEFINE r == SetEnd(q, e)
           F == q.f.c
           I == q.f.i
           C == e.c
           L == Len(s)
<1>1. /\ q.n \in Nat /\ F \in Nat /\ I \in Nat /\ C \in Nat /\ e.i \in Nat /\ q.f \in Points
      /\ BlockSize \in Nat /\ L \in Nat /\ s \in Seq(Elements) /\ I < BlockSize
      /\ Half \in 1..(BlockSize - 1)
  BY SpanIs, PlaceIs, BlocksAre, PutsAre DEF Filled
<1>2. /\ Place(q.f) = F * BlockSize + I /\ Place(e) = C * BlockSize + e.i
      /\ F * BlockSize \in Nat /\ C * BlockSize \in Nat /\ Place(q.f) \in Nat /\ Place(e) \in Nat
  BY <1>1, PlaceIs
<1>3. Place(e) <= q.n * BlockSize
  BY DEF Filled, Span
<1>4. CASE e.i > 0
  <2>1. r = [q EXCEPT !.b = e]
    BY <1>4 DEF SetEnd
  <2> HIDE DEF r
  <2>2. r \in Queues /\ r.n = q.n /\ r.cap = q.cap /\ r.rs = q.rs /\ r.cells = q.cells /\ r.f = q.f /\ r.b = e
    BY <2>1 DEF Queues
  <2>3. e.c < q.n
    BY <1>1, <1>3, <1>4, EndInBlocks
  <2>4. Filled(r, Place(r.f), s)
    BY <2>2, FilledAlike
  <2>5. ASSUME Place(q.f) = Place(e) PROVE q.f = e
    <3>1. L = 0
      BY <1>1, <1>2, <2>5
    <3>2. e.i < BlockSize
      BY <3>1
    <3> QED BY <1>1, <2>5, <3>2, OnePoint
  <2>6. Framed(r) /\ Ended(r)
    BY <1>4, <2>2, <2>3, <2>5 DEF Framed, Ended
  <2> QED BY <2>2, <2>4, <2>6 DEF Good, r
<1>5. CASE e.i = 0 /\ e.c = q.f.c
  <2> DEFINE p == [c |-> e.c, i |-> Half]
  <2>1. r = [q EXCEPT !.f = p, !.b = p]
    <3>1. [q.f EXCEPT !.i = Half] = p
      <4>1. q.f \in Points
        BY <1>1
      <4>2. [q.f EXCEPT !.i = Half] = [c |-> q.f.c, i |-> Half]
        BY <4>1, PointExcept
      <4> QED BY <1>5, <4>2
    <3> HIDE DEF p
    <3>2. r = [q EXCEPT !.f.i = Half, !.b = p]
      BY <1>5 DEF SetEnd, p
    <3> HIDE DEF r, Half
    <3> QED BY <3>1, <3>2
  <2> HIDE DEF r, Half
  <2>2. p \in Points /\ p.i = Half /\ p.c = q.f.c
    BY <1>1, <1>5 DEF Points
  <2> HIDE DEF p
  <2>3. r \in Queues /\ r.n = q.n /\ r.cap = q.cap /\ r.rs = q.rs /\ r.cells = q.cells /\ r.f = p /\ r.b = p
    BY <2>1, <2>2 DEF Queues
  <2>4. L = 0
    <3> DEFINE X == F * BlockSize
    <3>1. X + 0 = X + I + L /\ X \in Nat
      BY <1>2, <1>5
    <3> HIDE DEF X, F, I, L
    <3> QED BY <1>1, <3>1
  <2>5. s = <<>>
    BY <1>1, <2>4, NoElements
  <2>6. Filled(r, Place(p), <<>>)
    <3>1. Filled(q, Place(q.f), <<>>)
      BY <2>5
    <3>2. Place(p) \in Nat /\ Place(p) <= Span(q)
      BY <1>1, <2>2, PlaceIs, InBlocks DEF Span
    <3>3. Filled(q, Place(p), <<>>)
      BY <1>2, <3>1, <3>2, FilledNowhere
    <3> QED BY <2>3, <3>3, FilledAlike
  <2>7. Place(p) = Place(p) + Len(s)
    BY <1>1, <2>2, <2>4, PlaceIs
  <2>8. Framed(r) /\ Ended(r)
    BY <1>1, <2>2, <2>3 DEF Framed, Ended
  <2> QED BY <2>3, <2>5, <2>6, <2>7, <2>8 DEF Good, r
<1>6. CASE e.i = 0 /\ e.c # q.f.c
  <2> DEFINE p == [c |-> e.c - 1, i |-> BlockSize]
  <2>1. r = [q EXCEPT !.b = p]
    BY <1>6 DEF SetEnd
  <2>2. Place(e) = C * BlockSize /\ F * BlockSize <= C * BlockSize
    <3> DEFINE X == F * BlockSize
               Y == C * BlockSize
    <3>1. X \in Nat /\ Y \in Nat /\ Place(e) = Y + 0 /\ Place(e) = X + I + L
      BY <1>2, <1>6
    <3> HIDE DEF X, Y, I, L
    <3>2. Place(e) = Y /\ X <= Y
      BY <1>1, <3>1
    <3> QED BY <3>2 DEF X, Y
  <2>3. F < C
    <3>1. BlockSize \in Nat \ {0}
      BY BlocksAre
    <3>2. F <= C
      BY <1>1, <2>2, <3>1, ProductsCompare
    <3> QED BY <1>1, <1>6, <3>2
  <2> HIDE DEF r, BlockSize
  <2>4. p \in Points /\ p.c = C - 1 /\ p.i = BlockSize
    BY <1>1, <2>3 DEF Points
  <2>5. Place(p) = Place(e)
    <3>1. C - 1 \in Nat /\ 1 \in Nat /\ (C - 1) + 1 = C
      BY <1>1, <2>3
    <3>2. C * BlockSize = (C - 1) * BlockSize + 1 * BlockSize /\ 1 * BlockSize = BlockSize
      BY <1>1, <3>1, Distributes
    <3>3. Place(p) = (C - 1) * BlockSize + BlockSize
      BY DEF Place
    <3> QED BY <2>2, <3>2, <3>3
  <2> HIDE DEF p
  <2>6. r \in Queues /\ r.n = q.n /\ r.cap = q.cap /\ r.rs = q.rs /\ r.cells = q.cells /\ r.f = q.f /\ r.b = p
    BY <2>1, <2>4 DEF Queues
  <2>7. p.c < q.n /\ p.i > 0
    BY <1>1, <1>3, <2>4, <2>5, EndInBlocks
  <2>8. Place(q.f) # Place(p)
    <3>1. SUFFICES ASSUME C * BlockSize <= Place(q.f) PROVE FALSE
      BY <1>2, <2>2, <2>5
    <3>2. C <= F
      BY <1>1, <3>1, BlockOf
    <3> QED BY <1>1, <2>3, <3>2
  <2>9. Filled(r, Place(r.f), s)
    BY <2>6, FilledAlike
  <2>10. Place(p) = Place(q.f) + Len(s)
    BY <2>5
  <2>11. Framed(r) /\ Ended(r)
    BY <2>6, <2>7, <2>8 DEF Framed, Ended
  <2> QED BY <2>6, <2>9, <2>10, <2>11 DEF Good, r
<1>7. e.i > 0 \/ e.i = 0
  BY <1>1
<1> QED BY <1>4, <1>5, <1>6, <1>7

-----------------------------------------------------------------------------
(***************************************************************************)
(* One element at an end.                                                  *)
(***************************************************************************)

\* A place in a block and the next one.
LEMMA NextPlace ==
  ASSUME type \in Types, NEW p \in Points
  PROVE  /\ p.i < BlockSize => LET r == [p EXCEPT !.i = @ + 1]
                               IN  /\ r \in Points /\ Place(r) = Place(p) + 1
                                   /\ r = [c |-> p.c, i |-> p.i + 1]
         /\ p.i > 0 => LET r == [p EXCEPT !.i = @ - 1]
                       IN  /\ r \in Points /\ Place(r) = Place(p) - 1 /\ r = [c |-> p.c, i |-> p.i - 1]
<1> DEFINE X == p.c * BlockSize
           I == p.i
<1>1. p.c \in Nat /\ I \in Nat /\ I <= BlockSize /\ BlockSize \in Nat /\ X \in Nat /\ Place(p) = X + I
  BY PlaceIs, BlocksAre
<1>2. ASSUME I < BlockSize
      PROVE  /\ [c |-> p.c, i |-> I + 1] \in Points /\ Place([c |-> p.c, i |-> I + 1]) = Place(p) + 1
             /\ [p EXCEPT !.i = I + 1] = [c |-> p.c, i |-> I + 1]
  <2>1. Place([c |-> p.c, i |-> I + 1]) = X + (I + 1)
    BY DEF Place
  <2>2. [p EXCEPT !.i = I + 1] = [c |-> p.c, i |-> I + 1]
    BY PointExcept
  <2> HIDE DEF X, I, BlockSize
  <2>3. X + (I + 1) = X + I + 1 /\ I + 1 \in 0..BlockSize
    BY <1>1, <1>2
  <2>4. [c |-> p.c, i |-> I + 1] \in Points
    BY <1>1, <2>3 DEF Points
  <2> QED BY <1>1, <2>1, <2>2, <2>3, <2>4
<1>3. ASSUME I > 0
      PROVE  /\ [c |-> p.c, i |-> I - 1] \in Points /\ Place([c |-> p.c, i |-> I - 1]) = Place(p) - 1
             /\ [p EXCEPT !.i = I - 1] = [c |-> p.c, i |-> I - 1]
  <2>1. Place([c |-> p.c, i |-> I - 1]) = X + (I - 1)
    BY DEF Place
  <2>2. [p EXCEPT !.i = I - 1] = [c |-> p.c, i |-> I - 1]
    BY PointExcept
  <2> HIDE DEF X, I, BlockSize
  <2>3. X + (I - 1) = X + I - 1 /\ I - 1 \in 0..BlockSize
    BY <1>1, <1>3
  <2>4. [c |-> p.c, i |-> I - 1] \in Points
    BY <1>1, <2>3 DEF Points
  <2> QED BY <1>1, <2>1, <2>2, <2>3, <2>4
<1> QED BY <1>2, <1>3

\* A queue whose end has a place behind it.
Open(q, s) ==
  /\ Framed(q) /\ q.f.i < BlockSize /\ q.b.i < BlockSize
  /\ Filled(q, Place(q.f), s) /\ Place(q.b) = Place(q.f) + Len(s)

LEMMA PushBackIs ==
  ASSUME type \in Types, NEW q, NEW s, Open(q, s), NEW v \in Elements
  PROVE  LET r == [Put(q, Place(q.b), <<v>>) EXCEPT !.b.i = @ + 1]
         IN  Good(r, Append(s, v)) /\ r.n = q.n /\ Behind(r) = Behind(q) - 1
<1> DEFINE p == Put(q, Place(q.b), <<v>>)
           b == [q.b EXCEPT !.i = @ + 1]
           r == [p EXCEPT !.b.i = @ + 1]
           es == <<v>>
<1>1. /\ q \in Queues /\ q.rs + q.n <= q.cap /\ q.f.c < q.n /\ q.b.c < q.n
      /\ q.f.i < BlockSize /\ q.b.i < BlockSize /\ Filled(q, Place(q.f), s)
      /\ Place(q.b) = Place(q.f) + Len(s)
  BY DEF Open, Framed
<1>2. /\ q.f \in Points /\ q.b \in Points /\ q.n \in Nat /\ Place(q.f) \in Nat /\ Place(q.b) \in Nat
      /\ s \in Seq(Elements) /\ Len(s) \in Nat /\ Span(q) \in Nat
  BY <1>1, SpanIs, PlaceIs, PutsAre DEF Filled
<1>3. Place(q.b) < Span(q)
  BY <1>1, <1>2, InBlocks DEF Span
<1>4. es \in Seq(Elements) /\ Len(es) = 1
  OBVIOUS
<1>5. /\ p \in Queues /\ p.n = q.n /\ p.cap = q.cap /\ p.rs = q.rs /\ p.f = q.f /\ p.b = q.b
      /\ Filled(p, Place(q.f), s \o es)
  <2> HIDE DEF es
  <2>1. Place(q.f) + Len(s) + Len(es) <= Span(q)
    BY <1>1, <1>2, <1>3, <1>4
  <2>2. p = Put(q, Place(q.f) + Len(s), es)
    BY <1>1 DEF es
  <2> DEFINE F == Place(q.f)
  <2>3. q \in Queues /\ F \in Nat /\ Filled(q, F, s) /\ es \in Seq(Elements) /\ F + Len(s) + Len(es) <= Span(q)
    BY <1>1, <1>2, <1>4, <2>1
  <2> HIDE DEF p, F
  <2> DEFINE u == Put(q, F + Len(s), es)
  <2>4. /\ u \in Queues /\ u.n = q.n /\ u.cap = q.cap /\ u.rs = q.rs /\ u.f = q.f /\ u.b = q.b
        /\ Filled(u, F, s \o es)
    BY <2>3, PutBehind
  <2>5. p = u
    BY <2>2 DEF F
  <2> HIDE DEF u
  <2> QED BY <2>4, <2>5 DEF F
<1> HIDE DEF p
<1>6. b \in Points /\ Place(b) = Place(q.b) + 1 /\ b.c = q.b.c /\ b.i = q.b.i + 1
  BY <1>1, <1>2, NextPlace
<1>7. r = [p EXCEPT !.b = b]
  BY <1>5 DEF Queues
<1> HIDE DEF b, r
<1>8. /\ r \in Queues /\ r.n = q.n /\ r.cap = q.cap /\ r.rs = q.rs /\ r.f = q.f /\ r.b = b
      /\ r.cells = p.cells
  BY <1>5, <1>6, <1>7 DEF Queues
<1>9. Append(s, v) = s \o es /\ Len(Append(s, v)) = Len(s) + 1
  BY <1>2, AppendIsConcat, AppendProperties
<1>10. Filled(r, Place(r.f), Append(s, v))
  BY <1>5, <1>8, <1>9, FilledAlike
<1>11. Place(r.b) = Place(r.f) + Len(Append(s, v))
  BY <1>1, <1>2, <1>6, <1>8, <1>9
<1>12. Framed(r)
  BY <1>1, <1>6, <1>8 DEF Framed
<1>13. Ended(r)
  <2>1. r.f.i < BlockSize /\ r.b.i > 0
    BY <1>1, <1>2, <1>6, <1>8, PlaceIs
  <2>2. Place(r.f) # Place(r.b)
    BY <1>2, <1>8, <1>9, <1>11
  <2> QED BY <2>1, <2>2 DEF Ended
<1>14. Behind(r) = Behind(q) - 1
  <2>1. Span(r) = Span(q)
    BY <1>8 DEF Span
  <2>2. Place(r.b) = Place(q.b) + 1
    BY <1>6, <1>8
  <2> QED BY <1>2, <2>1, <2>2 DEF Behind
<1>15. Good(r, Append(s, v))
  BY <1>10, <1>11, <1>12, <1>13 DEF Good
<1> QED BY <1>8, <1>14, <1>15 DEF r, p

\* A block of which neither end is at its end.
LEMMA SingleBlockIs ==
  ASSUME type \in Types
  PROVE  /\ Good(SingleBlock, <<>>) /\ SingleBlock.f.i = Half /\ SingleBlock.b.i = Half
         /\ Half > 0 /\ Half < BlockSize
<1> DEFINE p == [c |-> 0, i |-> Half]
<1>1. Half \in 1..(BlockSize - 1) /\ BlockSize \in Nat
  BY BlocksAre
<1> HIDE DEF BlockSize
<1>2. p \in Points /\ p.c < 1 /\ 0 < p.i /\ p.i < BlockSize /\ p.i = Half /\ 1 \in Nat \ {0}
  BY <1>1 DEF Points
<1>3. SingleBlock = Allocate(1, p, p)
  BY DEF SingleBlock
<1> HIDE DEF p
<1>4. Good(SingleBlock, <<>>) /\ SingleBlock.f = p /\ SingleBlock.b = p
  BY <1>2, <1>3, AllocatedIsGood
<1> QED BY <1>2, <1>4

\* Before the last block is full the next one is taken.
GrownBack(q) == IF q.b.i = (IF q.n = 0 THEN 0 ELSE BlockSize) THEN GrowBack(q) ELSE q

LEMMA GrowBackIs ==
  ASSUME type \in Types, NEW q, NEW s, Kept(q, s)
  PROVE  LET p == GrownBack(q)
         IN  /\ Open(p, s)
             /\ q.n > 0 => Behind(p) >= Behind(q) /\ (Behind(q) >= 1 => p.n = q.n)
<1> DEFINE p == GrownBack(q)
<1>1. BlockSize \in Nat /\ BlockSize >= 2
  BY BlocksAre
<1>2. CASE q = Null /\ s = <<>>
  <2>1. q.n = 0 /\ q.b.i = 0 /\ ~(q.n > 0)
    BY <1>2, NullIs
  <2>2. p = SingleBlock
    BY <2>1 DEF GrownBack, GrowBack
  <2> HIDE DEF p
  <2>3. Good(p, <<>>) /\ p.b.i < BlockSize
    BY <2>2, SingleBlockIs
  <2>4. Open(p, <<>>)
    BY <2>3 DEF Open, Good, Ended
  <2> QED BY <1>2, <2>1, <2>4 DEF p
<1>3. CASE Good(q, s) /\ q.b.i < BlockSize
  <2>1. q.n > 0 /\ q.b.i # BlockSize
    <3>1. q.n \in Nat /\ q.b.c \in Nat /\ q.b.c < q.n /\ q.b.i \in Nat
      BY <1>3, GoodIs
    <3> QED BY <1>1, <1>3, <3>1
  <2>2. p = q
    BY <2>1 DEF GrownBack
  <2> HIDE DEF p
  <2>3. Open(p, s)
    BY <1>3, <2>2 DEF Open, Good, Ended
  <2>4. Behind(q) >= Behind(q)
    <3>1. 0 \in Nat /\ 0 <= q.n - q.b.c
      BY <1>3, GoodIs
    <3>2. Behind(q) \in Nat
      BY <1>3, <3>1, BehindIs
    <3> QED BY <3>2
  <2> QED BY <2>2, <2>3, <2>4 DEF p
<1>4. CASE Good(q, s) /\ q.b.i = BlockSize
  <2> DEFINE r == ReserveBackBlocks(q, 1)
             b == [c |-> r.b.c + 1, i |-> 0]
  <2>1. q.n > 0 /\ q.n # 0 /\ q.n \in Nat /\ q.b.c \in Nat /\ q.b.c < q.n
    <3>1. q.n \in Nat /\ q.b.c \in Nat /\ q.b.c < q.n
      BY <1>4, GoodIs
    <3> QED BY <3>1
  <2>2. p = [r EXCEPT !.b = b]
    BY <1>4, <2>1 DEF GrownBack, GrowBack
  <2>3. /\ Good(r, s) /\ r.b.i = q.b.i /\ r.n - r.b.c >= 2 /\ r.n - r.b.c >= q.n - q.b.c
        /\ q.n - q.b.c > 1 => r = q
    <3>1. 1 \in Nat \ {0}
      OBVIOUS
    <3>2. /\ Good(r, s) /\ r.b.i = q.b.i /\ r.n - r.b.c >= 1 + 1 /\ r.n - r.b.c >= q.n - q.b.c
          /\ q.n - q.b.c > 1 => r = q
      BY <1>4, <3>1, ReserveBackBlocksIs
    <3> HIDE DEF r
    <3> QED BY <3>2
  <2> HIDE DEF r, p, BlockSize
  <2>4. /\ r \in Queues /\ r.n \in Nat /\ r.b.c \in Nat /\ r.b \in Points /\ r.f.i < BlockSize /\ r.f.c < r.n
        /\ r.rs + r.n <= r.cap /\ Filled(r, Place(r.f), s) /\ Place(r.b) = Place(r.f) + Len(s)
    <3>1. r \in Queues /\ r.n \in Nat /\ r.b.c \in Nat /\ r.b \in Points
      BY <2>3, GoodIs
    <3> QED BY <2>3, <3>1 DEF Good, Framed, Ended
  <2>5. b \in Points /\ Place(b) = Place(r.b) /\ b.c = r.b.c + 1 /\ b.i = 0
    <3>1. r.b = [c |-> r.b.c, i |-> BlockSize]
      BY <1>4, <2>3, <2>4 DEF Points
    <3>2. Place([c |-> r.b.c, i |-> BlockSize]) = Place(b) /\ b \in Points
      BY <2>4, BlockEnds
    <3>3. b.c = r.b.c + 1 /\ b.i = 0
      OBVIOUS
    <3> HIDE DEF b
    <3> QED BY <3>1, <3>2, <3>3
  <2> HIDE DEF b
  <2>6. /\ p \in Queues /\ p.n = r.n /\ p.cap = r.cap /\ p.rs = r.rs /\ p.f = r.f /\ p.b = b
        /\ p.cells = r.cells
    BY <2>2, <2>4, <2>5 DEF Queues
  <2>7. b.c < r.n
    BY <2>3, <2>4, <2>5
  <2>8. Open(p, s)
    <3>1. Filled(p, Place(p.f), s)
      BY <2>4, <2>6, FilledAlike
    <3> QED BY <1>1, <2>4, <2>5, <2>6, <2>7, <3>1 DEF Open, Framed
  <2>9. Behind(p) = Behind(r)
    BY <2>5, <2>6 DEF Behind, Span
  <2> DEFINE e == q.n - q.b.c
             Z == e * BlockSize
  <2>10. e \in Nat /\ r.n - r.b.c >= e /\ e >= 1
    BY <2>1, <2>3
  <2>11. Behind(r) \in Nat /\ Behind(r) >= Z - BlockSize /\ Behind(q) = Z - BlockSize /\ Z \in Nat
    <3>1. e <= r.n - r.b.c
      BY <2>4, <2>10
    <3>2. Behind(r) \in Nat /\ Behind(r) >= e * BlockSize - r.b.i /\ e * BlockSize \in Nat
      <4> HIDE DEF e
      <4> QED BY <2>3, <2>10, <3>1, BehindIs
    <3>3. Behind(q) = (q.n - q.b.c) * BlockSize - q.b.i
      <4>1. 0 \in Nat /\ 0 <= q.n - q.b.c
        BY <2>1
      <4> QED BY <1>4, <4>1, BehindIs
    <3>4. r.b.i = BlockSize /\ q.b.i = BlockSize
      BY <1>4, <2>3
    <3>5. Behind(r) >= Z - r.b.i /\ Z \in Nat /\ Behind(q) = Z - q.b.i
      BY <3>2, <3>3
    <3> HIDE DEF Z
    <3> QED BY <3>2, <3>4, <3>5
  <2>12. Behind(p) >= Behind(q)
    <3> HIDE DEF Z
    <3> QED BY <1>1, <2>9, <2>11
  <2>13. ASSUME Behind(q) >= 1 PROVE p.n = q.n
    <3>1. e # 1
      <4>1. 1 * BlockSize = BlockSize
        BY <1>1
      <4>2. e = 1 => Z = BlockSize
        BY <4>1
      <4> HIDE DEF Z, e
      <4> QED BY <1>1, <2>11, <2>13, <4>2
    <3>2. q.n - q.b.c > 1
      BY <2>10, <3>1
    <3> QED BY <2>3, <2>6, <3>2
  <2> QED BY <2>8, <2>12, <2>13 DEF p
<1>5. q.b.i < BlockSize \/ q.b.i = BlockSize \/ ~Good(q, s)
  <2>1. Good(q, s) => q.b.i \in Nat /\ q.b.i <= BlockSize
    BY GoodIs
  <2> QED BY <1>1, <2>1
<1> QED BY <1>2, <1>3, <1>4, <1>5 DEF Kept

LEMMA GrowBorderIs ==
  ASSUME type \in Types, NEW q, Bordered(q)
  PROVE  Open(GrownBack(q), <<>>)
<1> DEFINE r == ReserveBackBlocks(q, 1)
           b == [c |-> r.b.c + 1, i |-> 0]
           p == GrownBack(q)
<1>1. BlockSize \in Nat /\ BlockSize >= 2
  BY BlocksAre
<1>2. q.n # 0 /\ q.b.i = BlockSize
  <2>1. Framed(q) /\ q.b.i = BlockSize
    BY DEF Bordered, Held
  <2>2. q.n \in Nat /\ q.b.c \in Nat /\ q.b.c < q.n
    BY <2>1, FramedIs
  <2> QED BY <2>1, <2>2
<1>3. p = [r EXCEPT !.b = b]
  BY <1>2 DEF GrownBack, GrowBack
<1>4. Held(r, <<>>) /\ r.f = b /\ r.b.i = BlockSize
  <2>1. 1 \in Nat \ {0}
    OBVIOUS
  <2> QED BY <2>1, BorderBlocksAre
<1> HIDE DEF p, r, BlockSize
<1>5. /\ r \in Queues /\ r.f \in Points /\ r.f.c < r.n /\ r.rs + r.n <= r.cap
      /\ Filled(r, Place(r.f), <<>>)
  BY <1>4, FramedIs DEF Held
<1>6. b.i = 0
  OBVIOUS
<1> HIDE DEF b
<1>7. /\ p \in Queues /\ p.n = r.n /\ p.cap = r.cap /\ p.rs = r.rs /\ p.f = r.f /\ p.b = r.f
      /\ p.cells = r.cells
  BY <1>3, <1>4, <1>5 DEF Queues
<1>8. Framed(p)
  BY <1>5, <1>7 DEF Framed
<1>9. Filled(p, Place(p.f), <<>>) /\ Place(p.b) = Place(p.f) + Len(<<>>)
  <2>1. Place(p.f) \in Nat
    BY <1>5, <1>7, PlaceIs
  <2>2. Len(<<>>) = 0
    OBVIOUS
  <2>3. Place(p.b) = Place(p.f) + Len(<<>>)
    BY <1>7, <2>1, <2>2
  <2>4. Filled(p, Place(p.f), <<>>)
    BY <1>5, <1>7, FilledAlike
  <2> QED BY <2>3, <2>4
<1> QED BY <1>1, <1>4, <1>6, <1>7, <1>8, <1>9 DEF Open, p

LEMMA PushFrontIs ==
  ASSUME type \in Types, NEW q, NEW s, Framed(q), q.f.i > 0, q.b.i > 0,
         Filled(q, Place(q.f), s), Place(q.b) = Place(q.f) + Len(s), NEW v \in Elements
  PROVE  Good([Put(q, Place(q.f) - 1, <<v>>) EXCEPT !.f.i = @ - 1], <<v>> \o s)
<1> DEFINE p == Put(q, Place(q.f) - 1, <<v>>)
           f == [q.f EXCEPT !.i = @ - 1]
           r == [p EXCEPT !.f.i = @ - 1]
           t == <<v>> \o s
<1>1. /\ q \in Queues /\ q.rs + q.n <= q.cap /\ q.f.c < q.n /\ q.b.c < q.n
  BY DEF Framed
<1>2. /\ q.f \in Points /\ q.b \in Points /\ q.n \in Nat /\ Place(q.f) \in Nat /\ Place(q.b) \in Nat
      /\ s \in Seq(Elements) /\ Len(s) \in Nat /\ q.f.i \in Nat /\ q.f.i <= BlockSize /\ BlockSize \in Nat
  BY <1>1, SpanIs, PlaceIs, PutsAre, BlocksAre DEF Filled
<1> HIDE DEF BlockSize
<1>3. f \in Points /\ Place(f) = Place(q.f) - 1 /\ f.c = q.f.c /\ f.i = q.f.i - 1
  BY <1>1, <1>2, NextPlace
<1>4. Place(q.f) > 0
  <2>1. Place(f) \in Nat
    BY <1>3, PlaceIs
  <2> QED BY <1>2, <1>3, <2>1
<1>5. /\ p \in Queues /\ p.n = q.n /\ p.cap = q.cap /\ p.rs = q.rs /\ p.f = q.f /\ p.b = q.b
      /\ Filled(p, Place(q.f) - 1, t)
  BY <1>1, <1>2, <1>4, PutBefore
<1> HIDE DEF p
<1>6. r = [p EXCEPT !.f = f]
  BY <1>5 DEF Queues
<1> HIDE DEF f, r
<1>7. /\ r \in Queues /\ r.n = q.n /\ r.cap = q.cap /\ r.rs = q.rs /\ r.f = f /\ r.b = q.b
      /\ r.cells = p.cells
  BY <1>3, <1>5, <1>6 DEF Queues
<1>8. Len(t) = Len(s) + 1
  <2>1. <<v>> \in Seq(Elements) /\ Len(<<v>>) = 1
    OBVIOUS
  <2>2. Len(t) = Len(<<v>>) + Len(s)
    BY <1>2, <2>1, ConcatIs
  <2> QED BY <1>2, <2>1, <2>2
<1> HIDE DEF t
<1>9. Filled(r, Place(r.f), t)
  BY <1>3, <1>5, <1>7, FilledAlike
<1>10. Place(r.b) = Place(r.f) + Len(t)
  BY <1>2, <1>3, <1>7, <1>8
<1>11. Framed(r)
  BY <1>1, <1>3, <1>7 DEF Framed
<1>12. Ended(r)
  <2>1. r.f.i < BlockSize /\ r.b.i > 0
    BY <1>2, <1>3, <1>7
  <2>2. Place(r.f) # Place(r.b)
    BY <1>2, <1>3, <1>7, <1>8, <1>10
  <2> QED BY <2>1, <2>2 DEF Ended
<1>13. Good(r, t)
  BY <1>9, <1>10, <1>11, <1>12 DEF Good
<1> QED BY <1>13 DEF r, p, t

\* A constructor that throws leaves the queue as it was, but for the blocks
\* that have come.
GrownFront(q) == IF q.f.i = 0 THEN GrowFront(q) ELSE q

LEMMA GrowFrontIs ==
  ASSUME type \in Types, NEW q, NEW s, Kept(q, s)
  PROVE  LET p == GrownFront(q)
         IN  /\ Framed(p) /\ p.f.i > 0 /\ p.b.i > 0
             /\ Filled(p, Place(p.f), s) /\ Place(p.b) = Place(p.f) + Len(s)
             /\ Good(Undone(p), s)
<1> DEFINE p == GrownFront(q)
<1>1. BlockSize \in Nat /\ BlockSize >= 2
  BY BlocksAre
<1> DEFINE Grown(x) == /\ Framed(x) /\ x.f.i > 0 /\ x.b.i > 0
                       /\ Filled(x, Place(x.f), s) /\ Place(x.b) = Place(x.f) + Len(s)
                       /\ Good(Undone(x), s)
<1>2. ASSUME NEW x, Good(x, s), x.f.i > 0 PROVE Grown(x)
  <2>1. Undone(x) = x
    <3>1. x.f.i # BlockSize
      BY <1>2, GoodIs
    <3> QED BY <3>1 DEF Undone
  <2> QED BY <1>2, <2>1 DEF Good, Ended
<1>3. CASE q = Null /\ s = <<>>
  <2>1. q.n = 0 /\ q.f.i = 0
    BY <1>3, NullIs
  <2>2. p = SingleBlock
    BY <2>1 DEF GrownFront, GrowFront
  <2>3. Good(SingleBlock, s) /\ SingleBlock.f.i > 0
    BY <1>3, SingleBlockIs
  <2> HIDE DEF p, Grown
  <2>4. Grown(p)
    BY <1>2, <2>2, <2>3
  <2> QED BY <2>4 DEF p, Grown
<1>4. CASE Good(q, s) /\ q.f.i # 0
  <2>1. p = q
    BY <1>4 DEF GrownFront
  <2>2. q.f.i > 0
    BY <1>4, GoodIs
  <2> HIDE DEF p, Grown
  <2>3. Grown(p)
    BY <1>2, <1>4, <2>1, <2>2
  <2> QED BY <2>3 DEF p, Grown
<1>5. CASE Good(q, s) /\ q.f.i = 0
  <2> DEFINE r == ReserveFrontBlocks(q, 1)
             f == [c |-> r.f.c - 1, i |-> BlockSize]
  <2>1. q.n # 0
    <3>1. q.n \in Nat /\ q.b.c \in Nat /\ q.b.c < q.n
      BY <1>5, GoodIs
    <3> QED BY <3>1
  <2>2. p = [r EXCEPT !.f = f]
    BY <1>5, <2>1 DEF GrownFront, GrowFront
  <2>3. Good(r, s) /\ r.f.c >= 1 /\ r.f.i = 0
    BY <1>5, ReserveFrontBlockIs
  <2> HIDE DEF r, p, BlockSize
  <2>4. /\ r \in Queues /\ r.n \in Nat /\ r.f.c \in Nat /\ r.f \in Points /\ r.b.c \in Nat /\ r.f.c < r.n
        /\ r.f.c <= r.b.c /\ r.b.c < r.n /\ r.b.i > 0
        /\ r.rs + r.n <= r.cap /\ Filled(r, Place(r.f), s) /\ Place(r.b) = Place(r.f) + Len(s)
    <3>1. r \in Queues /\ r.n \in Nat /\ r.f.c \in Nat /\ r.f \in Points /\ r.f.c <= r.b.c /\ r.b.c \in Nat
      BY <2>3, GoodIs
    <3> QED BY <2>3, <3>1 DEF Good, Framed, Ended
  <2>5. f \in Points /\ Place(f) = Place(r.f) /\ f.c = r.f.c - 1 /\ f.i = BlockSize
    <3>1. r.f.c - 1 \in Nat /\ (r.f.c - 1) + 1 = r.f.c
      BY <2>3, <2>4
    <3>2. f \in Points /\ Place(f) = Place([c |-> (r.f.c - 1) + 1, i |-> 0])
      BY <3>1, BlockEnds
    <3>3. r.f = [c |-> (r.f.c - 1) + 1, i |-> 0]
      BY <2>3, <2>4, <3>1 DEF Points
    <3> QED BY <3>2, <3>3
  <2> HIDE DEF f
  <2>6. /\ p \in Queues /\ p.n = r.n /\ p.cap = r.cap /\ p.rs = r.rs /\ p.f = f /\ p.b = r.b
        /\ p.cells = r.cells
    BY <2>2, <2>4, <2>5 DEF Queues
  <2>7. f.c < r.n /\ f.c # r.b.c /\ f.c + 1 = r.f.c
    BY <2>3, <2>4, <2>5
  <2>8. Filled(p, Place(p.f), s)
    BY <2>4, <2>5, <2>6, FilledAlike
  <2>9. Undone(p) = r
    <3>1. Undone(p) = [p EXCEPT !.f = [c |-> f.c + 1, i |-> 0]]
      BY <2>5, <2>6, <2>7 DEF Undone
    <3>2. r.f = [c |-> f.c + 1, i |-> 0]
      BY <2>3, <2>4, <2>7 DEF Points
    <3>3. [p EXCEPT !.f = r.f] = r
      BY <2>2, <2>4 DEF Queues
    <3> QED BY <3>1, <3>2, <3>3
  <2>10. Framed(p) /\ p.f.i > 0 /\ p.b.i > 0
    BY <1>1, <2>4, <2>5, <2>6, <2>7 DEF Framed
  <2>11. Place(p.b) = Place(p.f) + Len(s)
    BY <2>4, <2>5, <2>6
  <2> QED BY <2>3, <2>8, <2>9, <2>10, <2>11 DEF p
<1> QED BY <1>3, <1>4, <1>5 DEF Kept

LEMMA EmptyIs ==
  ASSUME type \in Types, NEW q, NEW s, Kept(q, s)
  PROVE  /\ Empty(q) <=> s = <<>>
         /\ ~Empty(q) => Good(q, s) /\ Len(s) > 0
         /\ s \in Seq(Elements) /\ Len(s) \in Nat
<1>1. CASE q = Null /\ s = <<>>
  <2>1. Empty(q)
    BY <1>1, NullIs DEF Empty
  <2>2. <<>> \in Seq(Elements) /\ Len(<<>>) = 0
    OBVIOUS
  <2> QED BY <1>1, <2>1, <2>2
<1>2. CASE Good(q, s)
  <2>1. /\ s \in Seq(Elements) /\ Len(s) \in Nat /\ q.f \in Points /\ q.b \in Points
    BY <1>2, GoodIs
  <2>2. Place(q.f) \in Nat /\ Place(q.b) \in Nat
    BY <2>1, PlaceIs
  <2>3. Place(q.b) = Place(q.f) + Len(s) /\ (Place(q.f) = Place(q.b) => q.f = q.b)
    BY <1>2 DEF Good, Ended
  <2>4. q.f = q.b <=> Len(s) = 0
    BY <2>1, <2>2, <2>3
  <2>5. s = <<>> <=> Len(s) = 0
    BY <2>1, NoElements
  <2> QED BY <1>2, <2>1, <2>4, <2>5 DEF Empty
<1> QED BY <1>1, <1>2 DEF Kept

LEMMA PopBackIs ==
  ASSUME type \in Types, NEW q, NEW s, Kept(q, s), ~Empty(q)
  PROVE  Good(Backspace([Put(q, Place(q.b) - 1, <<Raw>>) EXCEPT !.b.i = @ - 1]), Front(s))
<1> DEFINE p == Put(q, Place(q.b) - 1, <<Raw>>)
           b == [q.b EXCEPT !.i = @ - 1]
           x == [p EXCEPT !.b.i = @ - 1]
           t == Front(s)
<1>0. Good(q, s) /\ Len(s) > 0
  BY EmptyIs
<1>1. /\ q \in Queues /\ q.f \in Points /\ q.b \in Points /\ q.n \in Nat
      /\ q.f.i < BlockSize /\ 0 < q.b.i /\ q.b.i <= BlockSize /\ q.b.i \in Nat /\ BlockSize \in Nat
      /\ Len(s) \in Nat /\ Place(q.f) \in Nat /\ Place(q.b) \in Nat
  BY <1>0, GoodIs, PlaceIs
<1>2. /\ q.rs + q.n <= q.cap /\ q.f.c < q.n /\ Filled(q, Place(q.f), s) /\ Place(q.b) = Place(q.f) + Len(s)
  BY <1>0 DEF Good, Framed
<1> HIDE DEF BlockSize
<1>3. /\ p \in Queues /\ p.n = q.n /\ p.cap = q.cap /\ p.rs = q.rs /\ p.f = q.f /\ p.b = q.b
      /\ Filled(p, Place(q.f), t) /\ Len(t) = Len(s) - 1
  <2> DEFINE F == Place(q.f)
             u == Put(q, F + Len(s) - 1, <<Raw>>)
  <2>1. F \in Nat /\ Filled(q, F, s) /\ q \in Queues /\ Len(s) > 0
    BY <1>0, <1>1, <1>2
  <2>2. p = u
    <3>1. Place(q.b) - 1 = F + Len(s) - 1
      BY <1>1, <1>2
    <3> QED BY <3>1
  <2> HIDE DEF F, p
  <2>3. /\ u \in Queues /\ u.n = q.n /\ u.cap = q.cap /\ u.rs = q.rs /\ u.f = q.f /\ u.b = q.b
        /\ Filled(u, F, t) /\ Len(t) = Len(s) - 1
    BY <2>1, PutLastOff
  <2> HIDE DEF u, t
  <2> QED BY <2>2, <2>3 DEF F
<1> HIDE DEF p, t
<1>4. b \in Points /\ Place(b) = Place(q.b) - 1 /\ b.c = q.b.c /\ b.i = q.b.i - 1
  BY <1>1, NextPlace
<1>5. x = [p EXCEPT !.b = b]
  BY <1>3 DEF Queues
<1> HIDE DEF b, x
<1>6. /\ x \in Queues /\ x.n = q.n /\ x.cap = q.cap /\ x.rs = q.rs /\ x.f = q.f /\ x.b = b
      /\ x.cells = p.cells
  BY <1>3, <1>4, <1>5 DEF Queues
<1>7. Backspace(x) = SetEnd(x, x.b)
  <2>1. [x EXCEPT !.b = x.b] = x
    BY <1>6 DEF Queues
  <2>3. [x EXCEPT !.f.i = Half, !.b.i = Half] = [x EXCEPT !.f.i = Half, !.b = [c |-> x.b.c, i |-> Half]]
    <3>1. [x.b EXCEPT !.i = Half] = [c |-> x.b.c, i |-> Half]
      BY <1>4, <1>6, PointExcept
    <3> QED BY <3>1, <1>6 DEF Queues
  <2> QED BY <2>1, <2>3 DEF Backspace, SetEnd
<1>8. Filled(x, Place(x.f), t)
  BY <1>3, <1>6, FilledAlike
<1>9. Place(x.b) = Place(x.f) + Len(t) /\ x.b.i < BlockSize
  BY SMTT(20), <1>1, <1>2, <1>3, <1>4, <1>6
<1>10. Good(SetEnd(x, x.b), t)
  <2>1. x.rs + x.n <= x.cap /\ x.f.c < x.n /\ x.f.i < BlockSize /\ x.b \in Points
    BY <1>1, <1>2, <1>4, <1>6
  <2> QED BY <1>6, <1>8, <1>9, <2>1, SetEndIs
<1> QED BY <1>7, <1>10 DEF x, p, t

LEMMA PopFrontIs ==
  ASSUME type \in Types, NEW q, NEW s, Kept(q, s), ~Empty(q)
  PROVE  Good(Forespace([Put(q, Place(q.f), <<Raw>>) EXCEPT !.f.i = @ + 1]), Tail(s))
<1> DEFINE p == Put(q, Place(q.f), <<Raw>>)
           f == [q.f EXCEPT !.i = @ + 1]
           x == [p EXCEPT !.f.i = @ + 1]
           t == Tail(s)
           r == Forespace(x)
           F == q.f.c
           B == q.b.c
<1>0. Good(q, s) /\ Len(s) > 0
  BY EmptyIs
<1>1. /\ q \in Queues /\ q.f \in Points /\ q.b \in Points /\ q.n \in Nat
      /\ q.f.i < BlockSize /\ q.f.i \in Nat /\ 0 < q.b.i /\ q.b.i <= BlockSize /\ q.b.i \in Nat
      /\ BlockSize \in Nat /\ BlockSize >= 2 /\ F \in Nat /\ B \in Nat /\ F <= B /\ B < q.n
      /\ Len(s) \in Nat /\ Place(q.f) \in Nat /\ Place(q.b) \in Nat
  BY <1>0, GoodIs, PlaceIs, BlocksAre
<1>2. /\ q.rs + q.n <= q.cap /\ Filled(q, Place(q.f), s) /\ Place(q.b) = Place(q.f) + Len(s)
  BY <1>0 DEF Good, Framed
<1> HIDE DEF BlockSize
<1>3. /\ p \in Queues /\ p.n = q.n /\ p.cap = q.cap /\ p.rs = q.rs /\ p.f = q.f /\ p.b = q.b
      /\ Filled(p, Place(q.f) + 1, t) /\ Len(t) = Len(s) - 1
  BY <1>0, <1>1, <1>2, PutFirstOff
<1> HIDE DEF p
<1>4. f \in Points /\ Place(f) = Place(q.f) + 1 /\ f.c = F /\ f.i = q.f.i + 1
  BY <1>1, NextPlace
<1>5. x = [p EXCEPT !.f = f]
  BY <1>3 DEF Queues
<1> HIDE DEF f, x
<1>6. /\ x \in Queues /\ x.n = q.n /\ x.cap = q.cap /\ x.rs = q.rs /\ x.f = f /\ x.b = q.b
      /\ x.cells = p.cells
  BY <1>3, <1>4, <1>5 DEF Queues
<1>7. Filled(x, Place(f), t) /\ Place(q.b) = Place(f) + Len(t)
  <2>1. Filled(x, Place(f), t)
    BY <1>3, <1>4, <1>6, FilledAlike
  <2>2. Place(q.b) = Place(f) + Len(t)
    <3> DEFINE X == Place(q.f)
               N == Len(s)
    <3>1. /\ X \in Nat /\ N \in Nat /\ Place(q.b) = X + N /\ Place(f) = X + 1
          /\ Len(t) = N - 1
      BY <1>1, <1>2, <1>3, <1>4
    <3> HIDE DEF X, N, f, t
    <3> QED BY <3>1
  <2> QED BY <2>1, <2>2
<1>8. t \in Seq(Elements) /\ Len(t) \in Nat
  BY <1>7, PutsAre DEF Filled
<1> HIDE DEF t, F, B
<1>9. CASE f.i < BlockSize
  <2>1. r = x
    BY <1>6, <1>9 DEF Forespace
  <2> HIDE DEF r
  <2>2. Ended(x)
    <3>1. Place(f) = Place(q.b) => f = q.b
      BY <1>1, <1>4, <1>9, SamePoint
    <3> QED BY <1>1, <1>6, <1>9, <3>1 DEF Ended
  <2>3. Framed(x)
    BY <1>1, <1>2, <1>4, <1>6 DEF Framed, F, B
  <2> QED BY <1>6, <1>7, <2>1, <2>2, <2>3 DEF Good, r, x, p, t
<1>10. CASE f.i = BlockSize /\ q.b.c = q.f.c
  <2> DEFINE e == [c |-> q.f.c, i |-> Half]
  <2>1. r = [x EXCEPT !.f = e, !.b = e]
    <3>1. [x.f EXCEPT !.i = Half] = e /\ [x.b EXCEPT !.i = Half] = e
      <4>1. [x.f EXCEPT !.i = Half] = [c |-> x.f.c, i |-> Half] /\ [x.b EXCEPT !.i = Half] = [c |-> x.b.c, i |-> Half]
        BY <1>1, <1>4, <1>6, PointExcept
      <4>2. x.f.c = q.f.c /\ x.b.c = q.f.c
        BY <1>4, <1>6, <1>10 DEF F
      <4> QED BY <4>1, <4>2
    <3>2. r = [x EXCEPT !.f.i = Half, !.b.i = Half]
      <4>1. ~(x.f.i < BlockSize) /\ x.b.c = x.f.c
        BY <1>1, <1>4, <1>6, <1>10 DEF F
      <4> QED BY <4>1 DEF Forespace
    <3> HIDE DEF e, r
    <3>3. [x EXCEPT !.f.i = Half, !.b.i = Half] = [x EXCEPT !.f = e, !.b = e]
      BY <3>1, <1>6 DEF Queues
    <3> QED BY <3>2, <3>3
  <2>2. Half \in 1..(BlockSize - 1)
    BY BlocksAre
  <2>3. e \in Points /\ e.c = q.f.c /\ e.i = Half
    BY <1>1, <2>2 DEF Points, F
  <2> HIDE DEF r, e
  <2>4. /\ r \in Queues /\ r.n = q.n /\ r.cap = q.cap /\ r.rs = q.rs /\ r.f = e /\ r.b = e
        /\ r.cells = x.cells
    BY <1>6, <2>1, <2>3 DEF Queues
  <2>5. Len(t) = 0
    <3> DEFINE X == F * BlockSize
    <3>1. Place(f) = X + BlockSize /\ Place(q.b) = X + q.b.i /\ X \in Nat
      <4>1. Place(f) = f.c * BlockSize + f.i /\ Place(q.b) = q.b.c * BlockSize + q.b.i /\ f.c * BlockSize \in Nat
        BY <1>1, <1>4, PlaceIs
      <4> QED BY <1>4, <1>10, <4>1 DEF F
    <3> HIDE DEF X
    <3> QED BY <1>1, <1>7, <1>8, <3>1
  <2>6. t = <<>>
    BY <1>8, <2>5, NoElements
  <2>7. Filled(r, Place(e), <<>>)
    <3>1. Filled(x, Place(f), <<>>) /\ Place(f) \in Nat
      BY <1>4, <1>7, <2>6, PlaceIs
    <3>2. Place(e) \in Nat /\ Place(e) <= Span(x)
      <4>1. e.c < x.n /\ x.n \in Nat
        BY <1>1, <1>6, <2>3 DEF F, B
      <4> QED BY <2>3, <4>1, PlaceIs, InBlocks DEF Span
    <3>3. Filled(x, Place(e), <<>>)
      BY <1>6, <3>1, <3>2, FilledNowhere
    <3> QED BY <1>6, <2>4, <3>3, FilledAlike
  <2>8. Place(e) = Place(e) + Len(t)
    BY <2>3, <2>5, PlaceIs
  <2>9. Framed(r) /\ Ended(r)
    BY <1>1, <1>2, <2>2, <2>3, <2>4 DEF Framed, Ended, F, B
  <2> QED BY <2>4, <2>6, <2>7, <2>8, <2>9 DEF Good, r, x, p, t
<1>11. CASE f.i = BlockSize /\ q.b.c # q.f.c
  <2> DEFINE e == [c |-> q.f.c + 1, i |-> 0]
  <2>1. r = [x EXCEPT !.f = e]
    <3>1. ~(x.f.i < BlockSize) /\ x.b.c # x.f.c /\ x.f.c = q.f.c
      BY <1>1, <1>4, <1>6, <1>11 DEF F
    <3> QED BY <3>1 DEF Forespace
  <2>2. e \in Points /\ Place(e) = Place(f) /\ e.c = F + 1 /\ e.i = 0
    <3>1. f = [c |-> F, i |-> BlockSize]
      BY <1>4, <1>11 DEF Points
    <3>2. Place([c |-> F, i |-> BlockSize]) = Place([c |-> F + 1, i |-> 0]) /\ [c |-> F + 1, i |-> 0] \in Points
      BY <1>1, BlockEnds
    <3>3. e = [c |-> F + 1, i |-> 0]
      BY DEF F
    <3> HIDE DEF e
    <3> QED BY <3>1, <3>2, <3>3
  <2> HIDE DEF r, e
  <2>3. /\ r \in Queues /\ r.n = q.n /\ r.cap = q.cap /\ r.rs = q.rs /\ r.f = e /\ r.b = q.b
        /\ r.cells = x.cells
    BY <1>6, <2>1, <2>2 DEF Queues
  <2>4. F + 1 <= B /\ F + 1 < q.n
    BY <1>1, <1>11 DEF F, B
  <2>5. Filled(r, Place(e), t) /\ Place(q.b) = Place(e) + Len(t)
    BY <1>6, <1>7, <2>2, <2>3, FilledAlike
  <2>6. Place(e) # Place(q.b)
    <3>1. SUFFICES ASSUME Place(e) = Place(q.b) PROVE FALSE
      OBVIOUS
    <3>2. e.c * BlockSize + 0 = q.b.c * BlockSize + q.b.i /\ q.b.c * BlockSize \in Nat /\ e.c * BlockSize \in Nat
      BY <1>1, <2>2, <3>1, PlaceIs
    <3>3. (F + 1) * BlockSize <= B * BlockSize
      BY <1>1, <2>4, ProductsGrow
    <3> DEFINE X == e.c * BlockSize
               Y == q.b.c * BlockSize
    <3>4. X + 0 = Y + q.b.i /\ X \in Nat /\ Y \in Nat /\ X <= Y
      BY <2>2, <3>2, <3>3 DEF B
    <3> HIDE DEF X, Y
    <3> QED BY <1>1, <3>4
  <2>7. Framed(r) /\ Ended(r)
    BY <1>1, <1>2, <2>2, <2>3, <2>4, <2>6 DEF Framed, Ended, B
  <2> QED BY <2>3, <2>5, <2>7 DEF Good, r, x, p, t
<1>12. f.i < BlockSize \/ f.i = BlockSize
  BY <1>1, <1>4
<1> QED BY <1>9, <1>10, <1>11, <1>12

-----------------------------------------------------------------------------
(***************************************************************************)
(* The operations that arrange the elements anew.                          *)
(***************************************************************************)

\* The elements es from f up to e, and no others, are a queue that is in order
\* when its end is set.
LEMMA RearrangedIs ==
  ASSUME type \in Types, NEW q, Framed(q), Len(q.cells) = Span(q),
         NEW f \in Points, f.i < BlockSize, f.c < q.n,
         NEW es \in Seq(Elements), NEW e \in Points, Place(e) = Place(f) + Len(es),
         Place(e) <= Span(q), e.i < BlockSize \/ Len(es) > 0
  PROVE  LET r == SetEnd([Arrange(q, Place(f), es) EXCEPT !.f = f], e)
         IN  Good(r, es) /\ r.n = q.n
<1> DEFINE F == Place(f)
           a == Arrange(q, F, es)
           p == [a EXCEPT !.f = f]
           r == SetEnd(p, e)
<1>1. q \in Queues /\ q.rs + q.n <= q.cap /\ F \in Nat /\ F + Len(es) <= Span(q)
  BY PlaceIs DEF Framed
<1>2. /\ a \in Queues /\ a.n = q.n /\ a.cap = q.cap /\ a.rs = q.rs /\ Filled(a, F, es)
  <2> HIDE DEF F, a
  <2>1. LET u == Arrange(q, F, es)
        IN  /\ u \in Queues /\ u.n = q.n /\ u.cap = q.cap /\ u.rs = q.rs /\ Filled(u, F, es)
    BY <1>1, ArrangeIs
  <2> QED BY <2>1 DEF a
<1> HIDE DEF a
<1>3. /\ p \in Queues /\ p.n = q.n /\ p.cap = q.cap /\ p.rs = q.rs /\ p.f = f /\ p.cells = a.cells
  BY <1>2 DEF Queues
<1> HIDE DEF p
<1>4. Filled(p, Place(p.f), es)
  BY <1>2, <1>3, FilledAlike DEF F
<1>5. Place(e) = Place(p.f) + Len(es)
  BY <1>3
<1>6. p.rs + p.n <= p.cap /\ p.f.c < p.n /\ p.f.i < BlockSize
  BY <1>1, <1>3
<1> HIDE DEF F
<1>7. Good(SetEnd(p, e), es)
  BY <1>3, <1>4, <1>5, <1>6, SetEndIs
<1>8. r.n = p.n
  BY <1>3 DEF SetEnd, Queues
<1> QED BY <1>3, <1>7, <1>8 DEF r, p, a, F

LEMMA HeldBlocks ==
  ASSUME type \in Types, NEW q, NEW s, Held(q, s)
  PROVE  /\ Framed(q) /\ Len(q.cells) = Span(q) /\ Span(q) \in Nat /\ s \in Seq(Elements) /\ Len(s) \in Nat
         /\ Place(q.f) \in Nat /\ Place(q.b) \in Nat /\ Place(q.b) = Place(q.f) + Len(s)
         /\ Place(q.b) <= Span(q) /\ Place(q.f) <= Span(q)
<1>1. Framed(q) /\ Filled(q, Place(q.f), s) /\ Place(q.b) = Place(q.f) + Len(s)
  BY DEF Held
<1>2. Len(q.cells) = Span(q) /\ q \in Queues /\ q.f.c < q.n /\ q.b.c < q.n /\ s \in Seq(Elements)
  BY <1>1 DEF Filled, Framed
<1>3. Span(q) \in Nat /\ q.f \in Points /\ q.b \in Points /\ q.n \in Nat
  BY <1>2, SpanIs
<1>4. Place(q.f) \in Nat /\ Place(q.b) \in Nat
  BY <1>3, PlaceIs
<1>5. Place(q.b) <= Span(q) /\ Place(q.f) <= Span(q)
  BY <1>2, <1>3, InBlocks DEF Span
<1> QED BY <1>1, <1>2, <1>3, <1>4, <1>5, HeldIs

\* What the elements are found in.
LEMMA GoodBlocks ==
  ASSUME type \in Types, NEW q, NEW s, Good(q, s)
  PROVE  /\ Framed(q) /\ Len(q.cells) = Span(q) /\ Span(q) \in Nat
         /\ Place(q.f) \in Nat /\ Place(q.b) \in Nat /\ Place(q.b) = Place(q.f) + Len(s)
         /\ Place(q.b) <= Span(q) /\ Place(q.f) < Span(q)
<1>1. Framed(q) /\ Filled(q, Place(q.f), s) /\ Place(q.b) = Place(q.f) + Len(s) /\ q.f.i < BlockSize
  BY DEF Good, Ended
<1>2. Len(q.cells) = Span(q) /\ q \in Queues /\ q.f.c < q.n /\ q.b.c < q.n
  BY <1>1 DEF Filled, Framed
<1>3. Span(q) \in Nat /\ q.f \in Points /\ q.b \in Points /\ q.n \in Nat
  BY <1>2, SpanIs
<1>4. Place(q.f) \in Nat /\ Place(q.b) \in Nat
  BY <1>3, PlaceIs
<1>5. Place(q.b) <= Span(q) /\ Place(q.f) < Span(q)
  BY <1>1, <1>2, <1>3, InBlocks DEF Span
<1> QED BY <1>1, <1>2, <1>3, <1>4, <1>5

\* A queue is itself with its own front and its own end.
LEMMA SameEnds ==
  ASSUME NEW q \in Queues
  PROVE  [q EXCEPT !.f = q.f] = q /\ [q EXCEPT !.b = q.b] = q
  BY DEF Queues

LEMMA InsertedIs ==
  ASSUME NEW s \in Seq(Elements), NEW pos \in 0..Len(s), NEW es \in Seq(Elements)
  PROVE  Inserted(s, pos, es) \in Seq(Elements) /\ Len(Inserted(s, pos, es)) = Len(s) + Len(es)
<1> DEFINE a == SubSeq(s, 1, pos)
           z == SubSeq(s, pos + 1, Len(s))
<1>1. Len(s) \in Nat /\ Len(es) \in Nat
  BY LenProperties
<1>2. a \in Seq(Elements) /\ Len(a) = pos
  BY <1>1, SubIs
<1>3. z \in Seq(Elements) /\ Len(z) = Len(s) - pos
  BY <1>1, SubIs
<1> HIDE DEF a, z
<1>4. a \o es \in Seq(Elements) /\ Len(a \o es) = pos + Len(es)
  BY <1>2, ConcatIs
<1> DEFINE x == a \o es
<1>5. x \in Seq(Elements) /\ Len(x) = pos + Len(es)
  BY <1>4
<1> HIDE DEF x
<1>6. x \o z \in Seq(Elements) /\ Len(x \o z) = Len(x) + Len(z)
  BY <1>3, <1>5, ConcatIs
<1>7. Inserted(s, pos, es) = x \o z
  BY DEF Inserted, x, a, z
<1> DEFINE y == x \o z
<1>8. y \in Seq(Elements) /\ Len(y) = (pos + Len(es)) + (Len(s) - pos) /\ pos \in Nat
  BY <1>1, <1>3, <1>5, <1>6
<1> HIDE DEF y
<1>9. Len(y) = Len(s) + Len(es)
  BY <1>1, <1>8
<1> QED BY <1>7, <1>8, <1>9 DEF y

\* Elements behind all others, and before all others.
LEMMA InsertedAtEnds ==
  ASSUME NEW s \in Seq(Elements), NEW es \in Seq(Elements)
  PROVE  Inserted(s, Len(s), es) = s \o es /\ Inserted(s, 0, es) = es \o s
<1> DEFINE n == Len(s)
<1>1. n \in Nat
  BY LenProperties
<1>2. SubSeq(s, 1, n) = s /\ SubSeq(s, n + 1, n) = <<>> /\ SubSeq(s, 1, 0) = <<>>
  <2>1. SubSeq(s, 1, n) \in Seq(Elements) /\ Len(SubSeq(s, 1, n)) = n /\ \A x \in 1..n : SubSeq(s, 1, n)[x] = s[x]
    BY <1>1, SubIs
  <2>2. SubSeq(s, 1, n) = s
    BY <1>1, <2>1, SeqEqual
  <2>3. SubSeq(s, n + 1, n) = <<>> /\ SubSeq(s, 1, 0) = <<>>
    BY <1>1
  <2> QED BY <2>2, <2>3
<1>3. s \o es \in Seq(Elements) /\ \A t \in Seq(Elements) : t \o <<>> = t /\ <<>> \o t = t
  BY ConcatIs
<1> HIDE DEF n
<1>4. Inserted(s, n, es) = (s \o es) \o <<>>
  BY <1>2 DEF Inserted, n
<1>5. SubSeq(s, 0 + 1, n) = s
  BY <1>2
<1>6. Inserted(s, 0, es) = (<<>> \o es) \o s
  BY <1>2, <1>5 DEF Inserted, n
<1> QED BY <1>3, <1>4, <1>6 DEF n

\* n elements come before the first one, and what was behind them closes up.
LEMMA InsertFrontIs ==
  ASSUME type \in Types, Legal(d, seq), NEW pos \in 0..Len(seq), NEW es \in Seq(Elements),
         Len(es) \in 1..(BlockSize - 1)
  PROVE  Good(InsertFront(pos, es), Inserted(seq, pos, es))
<1> DEFINE q == ReserveFrontSpaces(d, Len(es), 1)
           N == Len(es)
           first == Place(q.f) - N
           t == Inserted(seq, pos, es)
           T == Inserted(Contents(q), pos, es)
           p == [Arrange(q, first, T) EXCEPT !.f = At(first)]
<1>1. Held(q, seq) /\ Place(q.f) >= N /\ q.b.i > 0
  <2>1. CASE Kept(d, seq)
    <3>1. Good(q, seq) /\ Place(q.f) >= N
      BY <2>1, ReserveFrontSpacesIs
    <3> HIDE DEF q, N
    <3>2. q.b.i > 0 /\ Held(q, seq)
      BY <3>1 DEF Held, Good, Ended
    <3> QED BY <3>1, <3>2
  <2>2. CASE Bordered(d) /\ seq = <<>>
    <3> DEFINE X == d.f.c * BlockSize
    <3>1. Held(d, <<>>) /\ d.f.i = BlockSize /\ d.b.i = BlockSize
      BY <2>2 DEF Bordered
    <3>2. BlockSize \in Nat /\ BlockSize >= 2
      BY BlocksAre
    <3>3. d.f \in Points
      BY <3>1, FramedIs DEF Held
    <3>4. Place(d.f) = X + BlockSize /\ X \in Nat
      BY <3>1, <3>3, PlaceIs
    <3> HIDE DEF X, BlockSize
    <3>5. N \in Nat /\ N <= BlockSize
      <4> USE DEF BlockSize
      <4>1. N \in 1..(BlockSize - 1)
        OBVIOUS
      <4> HIDE DEF N, BlockSize
      <4> QED BY <3>2, <4>1
    <3>6. q = d
      <4>1. d.f.i * 1 = BlockSize
        BY <3>1, <3>2
      <4>2. N <= d.f.i * 1
        BY <3>5, <4>1
      <4> QED BY <4>2 DEF ReserveFrontSpaces
    <3> HIDE DEF q, N
    <3> QED BY <2>2, <3>1, <3>2, <3>4, <3>5, <3>6
  <2> QED BY <2>1, <2>2 DEF Legal
<1> HIDE DEF q
<1>2. Contents(q) = seq /\ T = t
  <2>1. Contents(q) = seq
    BY <1>1, HeldIs
  <2> QED BY <2>1
<1>3. t \in Seq(Elements) /\ Len(t) = Len(seq) + N /\ Len(seq) \in Nat /\ N \in Nat /\ N > 0
  <2>1. seq \in Seq(Elements) /\ Len(seq) \in Nat
    BY <1>1, HeldBlocks
  <2>2. BlockSize \in Nat
    BY BlocksAre
  <2>3. N \in Nat /\ N > 0
    BY <2>2
  <2> QED BY <2>1, <2>3, InsertedIs
<1>4. /\ Framed(q) /\ Len(q.cells) = Span(q) /\ Span(q) \in Nat
      /\ Place(q.f) \in Nat /\ Place(q.b) \in Nat /\ Place(q.b) = Place(q.f) + Len(seq)
      /\ Place(q.b) <= Span(q) /\ Place(q.f) <= Span(q)
  BY <1>1, HeldBlocks
<1>5. q.f \in Points /\ q.b \in Points /\ q.n \in Nat /\ q.b.i > 0 /\ q.b.c < q.n
  BY <1>1, <1>4, FramedIs
<1> DEFINE f == At(first)
<1> HIDE DEF T, t, N
<1>6. first \in Nat /\ first < Span(q) /\ Place(q.b) = first + Len(t)
  BY <1>1, <1>3, <1>4
<1> HIDE DEF first
<1>7. f \in Points /\ f.i < BlockSize /\ Place(f) = first
  BY <1>6, AtIs
<1> HIDE DEF f
<1>8. f.c < q.n
  BY <1>5, <1>6, <1>7, BlockOf DEF Span
<1>9. Good(SetEnd([Arrange(q, Place(f), t) EXCEPT !.f = f], q.b), t)
  <2>1. Place(q.b) = Place(f) + Len(t) /\ Len(t) > 0 /\ Place(q.b) <= Span(q)
    BY <1>3, <1>4, <1>6, <1>7
  <2> QED BY <1>3, <1>4, <1>5, <1>7, <1>8, <2>1, RearrangedIs
<1>10. p = [Arrange(q, Place(f), t) EXCEPT !.f = f]
  BY <1>2, <1>7 DEF f
<1>11. p \in Queues /\ p.b = q.b
  <2> DEFINE u == Arrange(q, first, t)
  <2>1. u \in Queues /\ u.b = q.b
    <3>1. q \in Queues /\ first + Len(t) <= Span(q)
      BY <1>4, <1>6 DEF Framed
    <3> QED BY <1>3, <1>4, <1>6, <3>1, ArrangeIs
  <2> HIDE DEF u
  <2>2. p = [u EXCEPT !.f = f]
    BY <1>7, <1>10 DEF u
  <2> HIDE DEF p
  <2> QED BY <1>7, <2>1, <2>2 DEF Queues
<1> HIDE DEF p
<1>12. SetEnd(p, q.b) = p
  BY <1>5, <1>11, SameEnds DEF SetEnd
<1>13. Good(p, t)
  BY <1>9, <1>10, <1>12
<1>14. p = InsertFront(pos, es)
  BY DEF p, T, first, N, q, f, InsertFront
<1> QED BY <1>13, <1>14 DEF t

\* end() and the end of the elements are one place.
LEMMA EndIs ==
  ASSUME type \in Types, NEW q \in Queues
  PROVE  End(q) \in Points /\ Place(End(q)) = Place(q.b)
<1>1. q.b \in Points /\ q.b.c \in Nat
  BY SpanIs, PlaceIs
<1>2. CASE q.n > 0 /\ q.b.i = BlockSize
  <2>1. q.b = [c |-> q.b.c, i |-> BlockSize]
    BY <1>1, <1>2 DEF Points
  <2>2. End(q) = [c |-> q.b.c + 1, i |-> 0]
    BY <1>2 DEF End
  <2> DEFINE c == q.b.c
  <2>3. /\ [c |-> c + 1, i |-> 0] \in Points
        /\ Place([c |-> c, i |-> BlockSize]) = Place([c |-> c + 1, i |-> 0])
    BY <1>1, BlockEnds
  <2> QED BY <2>1, <2>2, <2>3
<1>3. CASE ~(q.n > 0 /\ q.b.i = BlockSize)
  BY <1>1, <1>3 DEF End
<1> QED BY <1>2, <1>3

\* n elements come behind the last one.
LEMMA InsertBackIs ==
  ASSUME type \in Types, Legal(d, seq), NEW pos \in 0..Len(seq), NEW es \in Seq(Elements), Len(es) > 0
  PROVE  Good(InsertBack(pos, es), Inserted(seq, pos, es))
<1> DEFINE q == ReserveBackSpaces(d, Len(es))
           N == Len(es)
           e == At(Place(End(q)) + N)
           t == Inserted(seq, pos, es)
           T == Inserted(Contents(q), pos, es)
           a == Arrange(q, Place(q.f), T)
           p == [a EXCEPT !.b = IF e.i = 0 THEN [c |-> e.c - 1, i |-> BlockSize] ELSE e]
<1>0. N \in Nat /\ N > 0
  BY LenProperties
<1>1. Ready(q, seq) /\ Behind(q) >= N
  BY <1>0, SpacesAreReady
<1> HIDE DEF q
<1>2. Contents(q) = seq /\ T = t
  <2>1. Contents(q) = seq
    BY <1>1, HeldIs DEF Ready
  <2> QED BY <2>1
<1>3. t \in Seq(Elements) /\ Len(t) = Len(seq) + N /\ Len(seq) \in Nat
  <2>1. seq \in Seq(Elements) /\ Len(seq) \in Nat
    BY <1>1, HeldBlocks DEF Ready
  <2> QED BY <2>1, InsertedIs
<1>4. /\ Framed(q) /\ Len(q.cells) = Span(q) /\ Span(q) \in Nat
      /\ Place(q.f) \in Nat /\ Place(q.b) \in Nat /\ Place(q.b) = Place(q.f) + Len(seq)
  BY <1>1, HeldBlocks DEF Ready
<1>5. /\ q \in Queues /\ q.f \in Points /\ q.n \in Nat /\ q.f.i < BlockSize /\ q.f.c < q.n /\ q.f.c \in Nat
  BY <1>1, <1>4, FramedIs DEF Ready
<1> HIDE DEF T, t, N
<1>6. e \in Points /\ e.i < BlockSize /\ Place(e) = Place(q.b) + N
  <2>1. Place(End(q)) = Place(q.b)
    BY <1>5, EndIs
  <2>2. Place(q.b) + N \in Nat
    BY <1>0, <1>4
  <2> QED BY <2>1, <2>2, AtIs
<1> HIDE DEF e
<1>7. Place(e) = Place(q.f) + Len(t) /\ Place(e) <= Span(q) /\ Len(t) > 0
  BY <1>0, <1>1, <1>3, <1>4, <1>6 DEF Behind
<1>8. Good(SetEnd([Arrange(q, Place(q.f), t) EXCEPT !.f = q.f], e), t)
  BY <1>3, <1>4, <1>5, <1>6, <1>7, RearrangedIs
<1>9. a \in Queues /\ a.f = q.f /\ a = Arrange(q, Place(q.f), t)
  <2>1. Place(q.f) + Len(t) <= Span(q)
    BY <1>7
  <2>2. LET u == Arrange(q, Place(q.f), t) IN u \in Queues /\ u.f = q.f
    BY <1>3, <1>4, <1>5, <2>1, ArrangeIs
  <2> QED BY <1>2, <2>2
<1> HIDE DEF a
<1>10. [Arrange(q, Place(q.f), t) EXCEPT !.f = q.f] = a
  BY <1>9, SameEnds
<1>11. p = SetEnd(a, e)
  <2>1. e.i = 0 => e.c # q.f.c
    <3>1. SUFFICES ASSUME e.i = 0, e.c = q.f.c PROVE FALSE
      OBVIOUS
    <3> DEFINE X == q.f.c * BlockSize
    <3>2. Place(e) = X + 0 /\ Place(q.f) = X + q.f.i /\ X \in Nat /\ q.f.i \in Nat
      BY <1>5, <1>6, <3>1, PlaceIs
    <3> HIDE DEF X
    <3> QED BY <1>3, <1>7, <3>2
  <2>2. e.i \in Nat
    BY <1>6, PlaceIs
  <2> QED BY <1>9, <2>1, <2>2 DEF SetEnd
<1>12. Good(p, t)
  BY <1>8, <1>10, <1>11
<1>13. p = InsertBack(pos, es)
  BY DEF p, a, T, N, q, e, InsertBack
<1> QED BY <1>12, <1>13 DEF t

LEMMA KeptIs ==
  ASSUME type \in Types, NEW q, NEW s, Kept(q, s)
  PROVE  /\ Contents(q) = s /\ Size(q) = Len(s) /\ s \in Seq(Elements) /\ Len(s) \in Nat
         /\ q.n \in Nat /\ (q.n > 0 => Good(q, s)) /\ (q.n = 0 => q = Null /\ s = <<>>)
<1>1. CASE q = Null /\ s = <<>>
  <2>1. q.n = 0 /\ q.cells = <<>> /\ q.f = [c |-> 0, i |-> 0] /\ q.b = [c |-> 0, i |-> 0]
    BY <1>1 DEF Null
  <2>2. BlockSize \in Nat
    BY BlocksAre
  <2> HIDE DEF BlockSize
  <2>3. Place([c |-> 0, i |-> 0]) = 0
    BY <2>2 DEF Place
  <2>4. SubSeq(<<>>, 0 + 1, 0) = <<>> /\ Len(<<>>) = 0 /\ <<>> \in Seq(Elements)
    OBVIOUS
  <2>5. Contents(q) = s /\ Size(q) = Len(s)
    BY <1>1, <2>1, <2>3, <2>4 DEF Contents, Size
  <2> QED BY <1>1, <2>1, <2>4, <2>5
<1>2. CASE Good(q, s)
  <2>1. s \in Seq(Elements) /\ Len(s) \in Nat /\ q.n \in Nat /\ q.b.c \in Nat /\ q.b.c < q.n
    BY <1>2, GoodIs
  <2>2. Contents(q) = s /\ Size(q) = Len(s)
    BY <1>2, ContentsIs
  <2> QED BY <1>2, <2>1, <2>2
<1> QED BY <1>1, <1>2 DEF Kept

LEMMA LegalIs ==
  ASSUME type \in Types, NEW q, NEW s, Legal(q, s)
  PROVE  /\ Contents(q) = s /\ Size(q) = Len(s) /\ s \in Seq(Elements) /\ Len(s) \in Nat
         /\ q.n \in Nat /\ (q.n = 0 => q = Null /\ s = <<>>) /\ (q.n > 0 => Held(q, s))
         /\ (s # <<>> \/ RoomBack(q) > 0) => Good(q, s)
<1>1. CASE Kept(q, s)
  <2>1. /\ Contents(q) = s /\ Size(q) = Len(s) /\ s \in Seq(Elements) /\ Len(s) \in Nat
        /\ q.n \in Nat /\ (q.n > 0 => Good(q, s)) /\ (q.n = 0 => q = Null /\ s = <<>>)
    BY <1>1, KeptIs
  <2>2. q.n > 0 => Held(q, s)
    BY <2>1 DEF Good, Held
  <2>3. s # <<>> \/ RoomBack(q) > 0 => q.n > 0
    BY <2>1 DEF RoomBack
  <2> QED BY <2>1, <2>2, <2>3
<1>2. CASE Bordered(q) /\ s = <<>>
  <2>1. Held(q, s) /\ q.b.i = BlockSize
    BY <1>2 DEF Bordered
  <2>2. Contents(q) = s /\ Size(q) = Len(s)
    BY <2>1, HeldIs
  <2>3. s \in Seq(Elements) /\ Len(s) \in Nat
    BY <2>1, HeldBlocks
  <2>4. q.n \in Nat /\ q.b.c \in Nat /\ q.b.c < q.n
    BY <2>1, FramedIs DEF Held
  <2>5. BlockSize \in Nat
    BY BlocksAre
  <2> HIDE DEF BlockSize
  <2>6. ~(RoomBack(q) > 0)
    BY <2>1, <2>4, <2>5 DEF RoomBack
  <2>7. q.n # 0
    BY <2>4
  <2> QED BY <1>2, <2>1, <2>2, <2>3, <2>4, <2>6, <2>7
<1> QED BY <1>1, <1>2 DEF Legal

LEMMA InsertNearIs ==
  ASSUME type \in Types, Legal(d, seq), NEW pos \in 0..Len(seq), NEW es \in Seq(Elements),
         Len(es) \in 1..(BlockSize - 1)
  PROVE  Good(InsertNear(pos, es), Inserted(seq, pos, es))
<1>1. BlockSize \in Nat
  BY BlocksAre
<1>2. Good(InsertFront(pos, es), Inserted(seq, pos, es))
  BY InsertFrontIs
<1> HIDE DEF BlockSize
<1>3. Len(es) > 0
  BY <1>1
<1>4. Good(InsertBack(pos, es), Inserted(seq, pos, es))
  BY <1>3, InsertBackIs
<1> QED BY <1>2, <1>4 DEF InsertNear

\* emplace_index: an element at the end, at the front, or among the others.
LEMMA EmplacedIs ==
  ASSUME type \in Types, Legal(d, seq), NEW pos \in 0..Len(seq), NEW v \in Elements
  PROVE  LET q == IF pos = Size(d) /\ RoomBack(d) > 0
                    THEN [Put(d, Place(d.b), <<v>>) EXCEPT !.b.i = @ + 1]
                  ELSE IF pos = 0 /\ pos < Size(d) /\ d.f.i > 0
                    THEN [Put(d, Place(d.f) - 1, <<v>>) EXCEPT !.f.i = @ - 1]
                  ELSE InsertNear(pos, <<v>>)
         IN  Good(q, Inserted(seq, pos, <<v>>))
<1> DEFINE last == [Put(d, Place(d.b), <<v>>) EXCEPT !.b.i = @ + 1]
           first == [Put(d, Place(d.f) - 1, <<v>>) EXCEPT !.f.i = @ - 1]
           near == InsertNear(pos, <<v>>)
           t == Inserted(seq, pos, <<v>>)
<1>1. /\ Size(d) = Len(seq) /\ seq \in Seq(Elements) /\ Len(seq) \in Nat
      /\ d.n \in Nat /\ ((seq # <<>> \/ RoomBack(d) > 0) => Good(d, seq))
  BY LegalIs
<1>2. <<v>> \in Seq(Elements) /\ Len(<<v>>) = 1
  OBVIOUS
<1>3. BlockSize \in Nat /\ BlockSize >= 2
  BY BlocksAre
<1>4. Good(near, t)
  <2>1. Len(<<v>>) \in 1..(BlockSize - 1)
    BY <1>2, <1>3
  <2> QED BY <1>2, <2>1, InsertNearIs
<1> HIDE DEF BlockSize
<1>5. CASE pos = Size(d) /\ RoomBack(d) > 0
  <2>1. d.n > 0 /\ BlockSize - d.b.i > 0
    BY <1>1, <1>5 DEF RoomBack
  <2>2. Good(d, seq)
    BY <1>1, <1>5
  <2>3. Open(d, seq)
    <3>1. d.b.i < BlockSize
      BY <1>3, <2>1, <2>2, GoodIs
    <3> QED BY <2>2, <3>1 DEF Open, Good, Ended
  <2>4. Good(last, Append(seq, v))
    BY <2>3, PushBackIs
  <2>5. Append(seq, v) = seq \o <<v>>
    BY <1>1, AppendIsConcat
  <2>6. t = seq \o <<v>>
    BY <1>1, <1>2, <1>5, InsertedAtEnds
  <2> QED BY <1>5, <2>4, <2>5, <2>6
<1>6. CASE pos = 0 /\ pos < Size(d) /\ d.f.i > 0 /\ ~(pos = Size(d) /\ RoomBack(d) > 0)
  <2>1. Good(d, seq)
    <3>1. seq # <<>>
      BY <1>1, <1>6
    <3> QED BY <1>1, <3>1
  <2>2. /\ Framed(d) /\ d.b.i > 0 /\ Filled(d, Place(d.f), seq) /\ Place(d.b) = Place(d.f) + Len(seq)
    BY <2>1 DEF Good, Ended
  <2>3. Good(first, <<v>> \o seq)
    BY <1>6, <2>2, PushFrontIs
  <2>4. t = <<v>> \o seq
    BY <1>1, <1>2, <1>6, InsertedAtEnds
  <2> QED BY <1>6, <2>3, <2>4
<1> HIDE DEF last, first, near, t
<1> QED BY <1>4, <1>5, <1>6 DEF last, first, near, t

LEMMA WithoutIs ==
  ASSUME NEW s \in Seq(Elements), NEW j \in 0..Len(s), NEW i \in 0..j
  PROVE  Without(s, i, j) \in Seq(Elements) /\ Len(Without(s, i, j)) = Len(s) - (j - i)
<1> DEFINE a == SubSeq(s, 1, i)
           z == SubSeq(s, j + 1, Len(s))
<1>1. Len(s) \in Nat /\ i \in Nat /\ j \in Nat
  BY LenProperties
<1>2. a \in Seq(Elements) /\ Len(a) = i
  BY <1>1, SubIs
<1>3. z \in Seq(Elements) /\ Len(z) = Len(s) - j
  BY <1>1, SubIs
<1> HIDE DEF a, z
<1> DEFINE x == a \o z
<1>4. x \in Seq(Elements) /\ Len(x) = i + (Len(s) - j)
  BY <1>2, <1>3, ConcatIs
<1>5. Without(s, i, j) = x
  BY DEF Without, a, z
<1> HIDE DEF x
<1> QED BY <1>1, <1>4, <1>5

\* Where no elements are arranged they are nowhere.
LEMMA ArrangeNothing ==
  ASSUME NEW q, NEW a \in Nat, NEW b \in Nat
  PROVE  Arrange(q, a, <<>>) = Arrange(q, b, <<>>)
<1> DEFINE r == [q EXCEPT !.cells = [x \in DOMAIN @ |-> Raw]]
<1>1. \A x : ~(x \in (a + 1)..(a + Len(<<>>))) /\ ~(x \in (b + 1)..(b + Len(<<>>)))
  OBVIOUS
<1>2. Put(r, a, <<>>) = [r EXCEPT !.cells = [x \in DOMAIN @ |-> @[x]]]
  BY <1>1 DEF Put
<1>3. Put(r, b, <<>>) = [r EXCEPT !.cells = [x \in DOMAIN @ |-> @[x]]]
  BY <1>1 DEF Put
<1> QED BY <1>2, <1>3 DEF Arrange

\* From either end: what is left is in order, and nothing else is there.
LEMMA ErasedIs ==
  ASSUME type \in Types, Kept(d, seq), NEW j \in 0..Len(seq), NEW i \in 0..j, i < j,
         NEW moveLeft \in BOOLEAN, NEW trivial \in BOOLEAN,
         moveLeft /\ ~trivial => j < Len(seq)
  PROVE  Good(Erased(i, j, moveLeft, trivial), Without(seq, i, j))
<1> DEFINE rest == Without(Contents(d), i, j)
           t == Without(seq, i, j)
           N == Len(seq)
           first == Place(d.f) + (j - i)
           f == At(first)
           left == [Arrange(d, first, rest) EXCEPT !.f = IF j = Size(d) /\ ~trivial THEN d.b ELSE f]
           right == Arrange(d, Place(d.f), rest)
           r == Erased(i, j, moveLeft, trivial)
<1>1. /\ Contents(d) = seq /\ Size(d) = N /\ seq \in Seq(Elements) /\ N \in Nat
      /\ i \in Nat /\ j \in Nat
  BY KeptIs
<1>2. Good(d, seq)
  <2>1. seq # <<>>
    BY <1>1
  <2> QED BY <2>1 DEF Kept
<1>3. rest = t /\ t \in Seq(Elements) /\ Len(t) = N - (j - i) /\ Len(t) \in Nat
  <2>1. rest = t
    BY <1>1
  <2>2. t \in Seq(Elements) /\ Len(t) = N - (j - i)
    BY <1>1, WithoutIs
  <2> HIDE DEF rest, t
  <2>3. Len(t) \in Nat
    BY <1>1, <2>2
  <2> QED BY <2>1, <2>2, <2>3
<1>4. /\ Framed(d) /\ Len(d.cells) = Span(d) /\ Span(d) \in Nat
      /\ Place(d.f) \in Nat /\ Place(d.b) \in Nat /\ Place(d.b) = Place(d.f) + N
      /\ Place(d.b) <= Span(d) /\ Place(d.f) < Span(d)
  BY <1>2, GoodBlocks
<1>5. /\ d \in Queues /\ d.f \in Points /\ d.b \in Points /\ d.n \in Nat /\ d.f.i < BlockSize /\ d.f.c < d.n
      /\ d.f.c \in Nat /\ d.b.c < d.n /\ d.b.c \in Nat /\ d.b.i > 0 /\ d.b.i \in Nat /\ d.b.i <= BlockSize
      /\ BlockSize \in Nat
  BY <1>2, <1>4, GoodIs DEF Framed
<1>6. first \in Nat /\ first + Len(t) = Place(d.b)
  BY <1>1, <1>3, <1>4
<1> HIDE DEF rest, t, N, BlockSize
<1>7. f \in Points /\ f.i < BlockSize /\ Place(f) = first
  BY <1>6, AtIs
<1>8. CASE ~moveLeft
  <2> DEFINE e == At(Place(d.f) + Len(t))
  <2>1. Place(d.f) + Len(t) \in Nat /\ Place(d.f) + Len(t) <= Span(d)
    BY <1>1, <1>3, <1>4
  <2>2. e \in Points /\ e.i < BlockSize /\ Place(e) = Place(d.f) + Len(t)
    BY <2>1, AtIs
  <2> HIDE DEF e
  <2>3. Good(SetEnd([Arrange(d, Place(d.f), t) EXCEPT !.f = d.f], e), t)
    BY <1>3, <1>4, <1>5, <2>1, <2>2, RearrangedIs
  <2>4. [Arrange(d, Place(d.f), t) EXCEPT !.f = d.f] = right
    <3>1. LET u == Arrange(d, Place(d.f), t) IN u \in Queues /\ u.f = d.f
      BY <1>3, <1>4, <1>5, <2>1, ArrangeIs
    <3> QED BY <1>3, <3>1, SameEnds
  <2>5. r = SetEnd(right, e)
    BY <1>3, <1>8 DEF Erased, rest, e
  <2> QED BY <2>3, <2>4, <2>5 DEF t
<1>9. CASE moveLeft /\ trivial /\ rest = <<>> /\ d.b.i = BlockSize
  <2> DEFINE m == [c |-> d.b.c, i |-> Half]
  <2>1. Half \in Nat /\ Half > 0 /\ Half < BlockSize
    <3>1. Half \in 1..(BlockSize - 1)
      BY BlocksAre
    <3> QED BY <1>5, <3>1
  <2>2. m \in Points /\ m.c = d.b.c /\ m.i = Half /\ m.c < d.n
    BY <1>5, <2>1 DEF Points
  <2>3. Place(m) \in Nat /\ Place(m) <= Span(d)
    BY <1>5, <2>2, PlaceIs, InBlocks DEF Span
  <2>4. t = <<>> /\ Len(<<>>) = 0 /\ Place(m) = Place(m) + Len(t)
    BY <1>3, <1>9, <2>3
  <2> HIDE DEF m
  <2>5. Good(SetEnd([Arrange(d, Place(m), t) EXCEPT !.f = m], m), t)
    BY <1>3, <1>4, <2>1, <2>2, <2>3, <2>4, RearrangedIs
  <2>6. SetEnd([Arrange(d, Place(m), t) EXCEPT !.f = m], m) = [[Arrange(d, Place(m), t) EXCEPT !.f = m] EXCEPT !.b = m]
    BY <2>1, <2>2 DEF SetEnd
  <2> DEFINE u == Arrange(d, first, t)
  <2>7. Arrange(d, Place(m), t) = u
    BY <1>6, <2>3, <2>4, ArrangeNothing
  <2>8. u \in Queues /\ u.b = d.b
    <3>1. first + Len(t) <= Span(d)
      BY <1>4, <1>6
    <3> HIDE DEF first
    <3> QED BY <1>3, <1>4, <1>5, <1>6, <3>1, ArrangeIs
  <2>9. r = [left EXCEPT !.f = [c |-> d.b.c, i |-> Half], !.b.i = Half]
    BY <1>9 DEF Erased, rest
  <2>10. left = [u EXCEPT !.f = f]
    BY <1>3, <1>9
  <2> HIDE DEF u, left, r, f
  <2>11. /\ left \in Queues /\ left.b = d.b /\ left.n = u.n /\ left.cap = u.cap /\ left.rs = u.rs
         /\ left.cells = u.cells
    BY <1>7, <2>8, <2>10 DEF Queues
  <2>12. [left.b EXCEPT !.i = Half] = m
    <3>1. [d.b EXCEPT !.i = Half] = [c |-> d.b.c, i |-> Half]
      BY <1>5, PointExcept
    <3> QED BY <2>11, <3>1 DEF m
  <2>13. r = [left EXCEPT !.f = m, !.b = m]
    BY <2>9, <2>11, <2>12 DEF m, Queues
  <2>14. r = [[u EXCEPT !.f = m] EXCEPT !.b = m]
    BY <2>8, <2>11, <2>13 DEF Queues
  <2> QED BY <2>5, <2>6, <2>7, <2>14 DEF r, t
<1>10. CASE moveLeft /\ ~(trivial /\ rest = <<>> /\ d.b.i = BlockSize)
  <2>1. left = [Arrange(d, Place(f), t) EXCEPT !.f = f]
    <3>1. ~(j = Size(d) /\ ~trivial)
      BY <1>1, <1>10 DEF N
    <3> QED BY <1>3, <1>7, <3>1
  <2>2. Len(t) = 0 => d.b.i < BlockSize
    <3>1. SUFFICES ASSUME Len(t) = 0 PROVE d.b.i < BlockSize
      OBVIOUS
    <3>2. t = <<>>
      BY <1>3, <3>1, NoElements
    <3>3. trivial
      <4>1. j < N => Len(t) > 0
        BY <1>1, <1>3
      <4> QED BY <1>1, <1>10, <3>1, <4>1 DEF N
    <3> QED BY <1>3, <1>5, <1>10, <3>2, <3>3
  <2>3. first < Span(d)
    <3>1. CASE Len(t) = 0
      <4>1. Place(d.b) < Span(d)
        BY <1>5, <2>2, <3>1, InBlocks DEF Span
      <4> QED BY <1>4, <1>6, <3>1, <4>1
    <3>2. CASE Len(t) > 0
      BY <1>3, <1>4, <1>6, <3>2
    <3> QED BY <1>3, <3>1, <3>2
  <2> HIDE DEF f
  <2>4. f.c < d.n
    BY <1>5, <1>7, <2>3, BlockOf DEF Span
  <2>5. Place(d.b) = Place(f) + Len(t) /\ (d.b.i < BlockSize \/ Len(t) > 0)
    BY <1>3, <1>6, <1>7, <2>2
  <2>6. Good(SetEnd([Arrange(d, Place(f), t) EXCEPT !.f = f], d.b), t)
    BY <1>3, <1>4, <1>5, <1>7, <2>4, <2>5, RearrangedIs
  <2>7. r = SetEnd(left, d.b)
    BY <1>10 DEF Erased, rest, f
  <2> QED BY <2>1, <2>6, <2>7 DEF r, t
<1> QED BY <1>8, <1>9, <1>10

\* The only element is moved from, and both ends stand where the end was.
LEMMA ErasedLastIs ==
  ASSUME type \in Types, Good(d, seq), Len(seq) = 1
  PROVE  LET r == Erased(0, 1, TRUE, FALSE)
         IN  Without(seq, 0, 1) = <<>> /\ (Good(r, <<>>) \/ Bordered(r))
<1> DEFINE t == Without(seq, 0, 1)
           first == Place(d.f) + (1 - 0)
           u == Arrange(d, first, t)
           left == [u EXCEPT !.f = d.b]
           r == Erased(0, 1, TRUE, FALSE)
<1>1. Contents(d) = seq /\ Size(d) = 1
  BY ContentsIs
<1>2. seq \in Seq(Elements)
  BY GoodIs
<1>3. t = <<>> /\ t \in Seq(Elements) /\ Len(t) = 0
  <2>1. 1 \in 0..Len(seq) /\ 0 \in 0..1
    OBVIOUS
  <2> DEFINE i == 0
             j == 1
  <2>2. j \in 0..Len(seq) /\ i \in 0..j
    BY <2>1
  <2> HIDE DEF i, j
  <2>3. Without(seq, i, j) \in Seq(Elements) /\ Len(Without(seq, i, j)) = Len(seq) - (j - i)
    BY <1>2, <2>2, WithoutIs
  <2>4. t \in Seq(Elements) /\ Len(t) = 0
    BY <2>3 DEF i, j
  <2> HIDE DEF t
  <2> QED BY <2>4, NoElements
<1>4. /\ Framed(d) /\ Len(d.cells) = Span(d) /\ Span(d) \in Nat /\ Place(d.f) \in Nat /\ Place(d.b) \in Nat
      /\ Place(d.b) = Place(d.f) + 1 /\ Place(d.b) <= Span(d)
  BY GoodBlocks
<1>5. /\ d \in Queues /\ d.b \in Points /\ d.b.i > 0 /\ d.b.i \in Nat /\ d.b.i <= BlockSize /\ BlockSize \in Nat
      /\ d.b.c < d.n /\ d.rs + d.n <= d.cap
  BY GoodIs
<1>6. r = SetEnd(left, d.b)
  BY <1>1 DEF Erased
<1>7. first = Place(d.b)
  BY <1>4
<1> HIDE DEF first, t
<1>8. u \in Queues /\ u.n = d.n /\ u.cap = d.cap /\ u.rs = d.rs /\ u.b = d.b /\ Filled(u, Place(d.b), t)
  <2>1. Place(d.b) + Len(t) <= Span(d)
    BY <1>3, <1>4
  <2> QED BY <1>3, <1>4, <1>5, <1>7, <2>1, ArrangeIs
<1> HIDE DEF u
<1>9. /\ left \in Queues /\ left.n = d.n /\ left.cap = d.cap /\ left.rs = d.rs /\ left.f = d.b /\ left.b = d.b
      /\ left.cells = u.cells
  BY <1>5, <1>8 DEF Queues
<1> HIDE DEF left, r, BlockSize
<1>10. r = left
  <2>1. r = [left EXCEPT !.b = left.b]
    BY <1>5, <1>6, <1>9 DEF SetEnd
  <2> QED BY <1>9, <2>1, SameEnds
<1>11. Held(left, <<>>)
  <2>1. Framed(left)
    BY <1>5, <1>9 DEF Framed
  <2>2. Filled(left, Place(left.f), <<>>)
    BY <1>3, <1>8, <1>9, FilledAlike
  <2>3. Place(left.b) = Place(left.f) + Len(<<>>)
    BY <1>4, <1>9
  <2> QED BY <2>1, <2>2, <2>3 DEF Held
<1>12. CASE d.b.i = BlockSize
  <2>1. Bordered(left)
    BY <1>9, <1>11, <1>12 DEF Bordered
  <2> QED BY <1>3, <1>10, <2>1 DEF r, t
<1>13. CASE d.b.i # BlockSize
  <2>1. Ended(left)
    BY <1>5, <1>9, <1>13 DEF Ended
  <2>2. Good(left, <<>>)
    BY <1>11, <2>1 DEF Good, Held
  <2> QED BY <1>3, <1>10, <2>2 DEF r, t
<1> QED BY <1>12, <1>13

-----------------------------------------------------------------------------
(***************************************************************************)
(* The operations on the whole queue.                                      *)
(***************************************************************************)

LEMMA ClearedIs ==
  ASSUME type \in Types, NEW q, NEW s, Legal(q, s)
  PROVE  Kept(Cleared(q), <<>>)
<1> DEFINE m == [c |-> q.n \div 2, i |-> Half]
           u == Arrange(q, 0, <<>>)
<1>1. q.n \in Nat /\ (q.n > 0 => Held(q, s)) /\ (q.n = 0 => q = Null)
  BY LegalIs
<1>2. CASE q.n = 0
  BY <1>1, <1>2 DEF Cleared, Kept
<1>3. CASE q.n # 0
  <2>1. Held(q, s)
    BY <1>1, <1>3
  <2>2. /\ Framed(q) /\ Len(q.cells) = Span(q) /\ Span(q) \in Nat /\ q \in Queues
    BY <2>1, HeldBlocks DEF Framed
  <2>3. BlockSize \in Nat /\ Half \in Nat /\ Half > 0 /\ Half < BlockSize
    <3>1. BlockSize \in Nat /\ Half \in 1..(BlockSize - 1)
      BY BlocksAre
    <3> HIDE DEF BlockSize
    <3> QED BY <3>1
  <2> HIDE DEF BlockSize, Half
  <2>4. m \in Points /\ m.c < q.n /\ m.i = Half
    BY <1>1, <1>3, <2>3 DEF Points
  <2> HIDE DEF m
  <2>5. Place(m) \in Nat /\ Place(m) <= Span(q)
    BY <1>1, <2>4, PlaceIs, InBlocks DEF Span
  <2>6. <<>> \in Seq(Elements) /\ Len(<<>>) = 0 /\ Place(m) = Place(m) + Len(<<>>)
    BY <2>5
  <2>7. Good(SetEnd([Arrange(q, Place(m), <<>>) EXCEPT !.f = m], m), <<>>)
    BY <2>2, <2>3, <2>4, <2>5, <2>6, RearrangedIs
  <2>8. Arrange(q, Place(m), <<>>) = u
    BY <2>5, ArrangeNothing
  <2>9. u \in Queues
    <3> DEFINE z == 0
               es == <<>>
    <3>1. z \in Nat /\ es \in Seq(Elements) /\ z + Len(es) <= Span(q)
      BY <2>2, <2>6
    <3> HIDE DEF z, es
    <3>2. Arrange(q, z, es) \in Queues
      BY <2>2, <3>1, ArrangeIs
    <3> QED BY <3>2 DEF z, es
  <2> HIDE DEF u
  <2>10. SetEnd([u EXCEPT !.f = m], m) = [u EXCEPT !.f = m, !.b = m]
    BY <2>3, <2>4, <2>9 DEF SetEnd, Queues
  <2>11. Cleared(q) = [u EXCEPT !.f = m, !.b = m]
    BY <1>3 DEF Cleared, u, m
  <2> QED BY <2>7, <2>8, <2>10, <2>11 DEF Kept
<1> QED BY <1>2, <1>3

\* reserve_back: what is asked for beyond the size is behind the elements.
LEMMA ReserveBackIs ==
  ASSUME type \in Types, NEW q, NEW s, Kept(q, s), NEW count \in Nat
  PROVE  LET r == ReserveBack(q, count)
         IN  /\ Kept(r, s)
             /\ count > Len(s) => Good(r, s) /\ Behind(r) >= count - Len(s)
             /\ q.n > 0 => r.n > 0 /\ Behind(r) >= Behind(q)
<1> DEFINE r == ReserveBack(q, count)
           x == count - Len(s)
<1>1. Size(q) = Len(s) /\ Len(s) \in Nat /\ q.n \in Nat /\ (q.n > 0 => Good(q, s))
  BY KeptIs
<1>2. CASE count <= Len(s)
  <2>1. r = q
    BY <1>1, <1>2 DEF ReserveBack
  <2>2. q.n > 0 => Behind(q) \in Nat
    <3>1. SUFFICES ASSUME q.n > 0 PROVE Behind(q) \in Nat
      OBVIOUS
    <3>2. Good(q, s)
      BY <1>1, <3>1
    <3>3. Span(q) \in Nat /\ Place(q.b) \in Nat /\ Place(q.b) <= Span(q)
      BY <3>2, GoodBlocks
    <3> QED BY <3>3 DEF Behind
  <2>3. ~(count > Len(s))
    BY <1>1, <1>2
  <2> HIDE DEF r
  <2> QED BY <2>1, <2>2, <2>3 DEF r
<1>3. CASE count > Len(s)
  <2>1. r = ReserveBackSpaces(q, x)
    BY <1>1, <1>3 DEF ReserveBack
  <2>2. x \in Nat \ {0}
    BY <1>1, <1>3
  <2> HIDE DEF x
  <2> DEFINE p == ReserveBackSpaces(q, x)
  <2>3. Good(p, s) /\ Behind(p) >= x /\ (q.n > 0 => Behind(p) >= Behind(q))
    BY <2>2, ReserveBackSpacesIs
  <2> HIDE DEF p
  <2>4. p.n > 0
    <3>1. p.n \in Nat /\ p.b.c \in Nat /\ p.b.c < p.n
      BY <2>3, GoodIs
    <3> QED BY <3>1
  <2> QED BY <2>1, <2>3, <2>4 DEF p, x, Kept
<1> QED BY <1>1, <1>2, <1>3

LEMMA ReserveFrontIs ==
  ASSUME type \in Types, Kept(d, seq), NEW count \in 1..(BlockSize - 1)
  PROVE  Kept(IF count <= Size(d) THEN d ELSE ReserveFrontSpaces(d, count - Size(d), Unit), seq)
<1>1. Size(d) = Len(seq) /\ Len(seq) \in Nat
  BY KeptIs
<1>2. BlockSize \in Nat /\ Unit \in Nat \ {0}
  BY BlocksAre
<1>3. CASE count > Size(d)
  <2> DEFINE x == count - Size(d)
  <2> HIDE DEF BlockSize, Unit
  <2>1. x \in 1..(BlockSize - 1)
    BY <1>1, <1>2, <1>3
  <2> HIDE DEF x
  <2>2. Good(ReserveFrontSpaces(d, x, Unit), seq)
    <3> USE DEF BlockSize
    <3> QED BY <1>2, <2>1, ReserveFrontSpacesIs
  <2>3. ~(count <= Size(d))
    BY <1>1, <1>2, <1>3
  <2> QED BY <2>2, <2>3 DEF x, Kept
<1>4. CASE ~(count > Size(d))
  <2>1. count <= Size(d)
    BY <1>1, <1>2, <1>4
  <2> QED BY <2>1
<1> QED BY <1>3, <1>4

LEMMA GoodIsReady ==
  ASSUME NEW q, NEW s, Good(q, s)
  PROVE  Ready(q, s)
BY DEF Good, Ended, Held, Ready

\* Elements put behind the others, when the end is set behind them.
LEMMA FilledUp ==
  ASSUME type \in Types, NEW q, NEW s, Ready(q, s), NEW es \in Seq(Elements), Len(es) <= Behind(q)
  PROVE  LET place == Place(q.f) + Len(s)
         IN  Good(SetEnd(Put(q, place, es), At(place + Len(es))), s \o es)
<1> DEFINE F == Place(q.f)
           place == F + Len(s)
           p == Put(q, place, es)
           e == At(place + Len(es))
           t == s \o es
<1>1. /\ Framed(q) /\ Span(q) \in Nat /\ F \in Nat /\ Place(q.b) \in Nat /\ Place(q.b) = F + Len(s)
      /\ q \in Queues /\ q.rs + q.n <= q.cap /\ q.f.c < q.n
  BY HeldBlocks DEF Ready, Framed
<1>2. s \in Seq(Elements) /\ Len(s) \in Nat /\ Len(es) \in Nat /\ q.f.i < BlockSize /\ Filled(q, F, s)
  BY HeldBlocks, LenProperties DEF Ready, Held
<1> HIDE DEF F
<1>3. F + Len(s) + Len(es) <= Span(q) /\ place + Len(es) \in Nat
  BY <1>1, <1>2 DEF Behind
<1>4. /\ p \in Queues /\ p.n = q.n /\ p.cap = q.cap /\ p.rs = q.rs /\ p.f = q.f
      /\ Filled(p, F, t)
  <2> DEFINE u == Put(q, F + Len(s), es)
  <2>1. u \in Queues /\ u.n = q.n /\ u.cap = q.cap /\ u.rs = q.rs /\ u.f = q.f /\ Filled(u, F, t)
    BY <1>1, <1>2, <1>3, PutBehind
  <2> HIDE DEF u
  <2> QED BY <2>1 DEF u
<1>5. t \in Seq(Elements) /\ Len(t) = Len(s) + Len(es)
  BY <1>2, ConcatIs
<1> HIDE DEF p, t
<1>6. e \in Points /\ e.i < BlockSize /\ Place(e) = F + Len(t)
  <2>1. e \in Points /\ e.i < BlockSize /\ Place(e) = place + Len(es)
    BY <1>3, AtIs
  <2> HIDE DEF e
  <2> QED BY <1>1, <1>2, <1>5, <2>1
<1> HIDE DEF e
<1>7. Good(SetEnd(p, e), t)
  <2>1. p.rs + p.n <= p.cap /\ p.f.c < p.n /\ p.f.i < BlockSize /\ Filled(p, Place(p.f), t)
        /\ Place(e) = Place(p.f) + Len(t)
    BY <1>1, <1>2, <1>4, <1>6 DEF F
  <2> QED BY <1>4, <1>6, <2>1, SetEndIs
<1> QED BY <1>7 DEF p, e, t, F

LEMMA ResizedIs ==
  ASSUME type \in Types, Legal(d, seq), NEW count \in Nat, count # Len(seq)
  PROVE  LET q == ReserveBack(d, count)
             more == [x \in 1..(count - Len(seq)) |-> Plain]
         IN  /\ count < Len(seq) =>
                  Good(SetEnd(Arrange(d, Place(d.f), SubSeq(Contents(d), 1, count)),
                              At(Place(End(d)) - (Size(d) - count))), SubSeq(seq, 1, count))
             /\ count > Len(seq) =>
                  Good(SetEnd(Put(q, Place(End(q)), more), At(Place(End(q)) + Len(more))), seq \o more)
<1> DEFINE q == ReserveBack(d, count)
           N == Len(seq)
           more == [x \in 1..(count - N) |-> Plain]
           t == SubSeq(seq, 1, count)
           e == At(Place(End(d)) - (Size(d) - count))
           less == SetEnd(Arrange(d, Place(d.f), SubSeq(Contents(d), 1, count)), e)
           longer == SetEnd(Put(q, Place(End(q)), more), At(Place(End(q)) + Len(more)))
<1>1. /\ Size(d) = N /\ N \in Nat /\ seq \in Seq(Elements) /\ d.n \in Nat /\ (seq # <<>> => Good(d, seq))
      /\ Contents(d) = seq
  BY LegalIs
<1>2. CASE count < N
  <2>1. Good(d, seq)
    <3>1. seq # <<>>
      BY <1>1, <1>2
    <3> QED BY <1>1, <3>1
  <2>2. /\ Framed(d) /\ Len(d.cells) = Span(d) /\ Span(d) \in Nat
        /\ Place(d.f) \in Nat /\ Place(d.b) \in Nat /\ Place(d.b) = Place(d.f) + N
        /\ Place(d.b) <= Span(d) /\ d \in Queues /\ d.f.c < d.n
    BY <2>1, GoodBlocks DEF Framed
  <2>3. d.f \in Points /\ d.f.i < BlockSize
    BY <2>1, GoodIs
  <2>4. Place(End(d)) = Place(d.b)
    BY <2>2, EndIs
  <2>5. t \in Seq(Elements) /\ Len(t) = count
    <3>1. count \in 0..N
      BY <1>1, <1>2
    <3>2. t \in Seq(Elements) /\ Len(t) = count + 1 - 1
      BY <1>1, <3>1, SubIs
    <3> HIDE DEF t
    <3> QED BY <3>2
  <2> HIDE DEF N, t
  <2>6. /\ Place(End(d)) - (Size(d) - count) \in Nat
        /\ Place(End(d)) - (Size(d) - count) = Place(d.f) + Len(t)
        /\ Place(d.f) + Len(t) <= Span(d)
    BY <1>1, <1>2, <2>2, <2>4, <2>5
  <2>7. e \in Points /\ e.i < BlockSize /\ Place(e) = Place(d.f) + Len(t)
    BY <2>6, AtIs
  <2> HIDE DEF e
  <2>8. Good(SetEnd([Arrange(d, Place(d.f), t) EXCEPT !.f = d.f], e), t)
    BY <2>2, <2>3, <2>5, <2>6, <2>7, RearrangedIs
  <2>9. [Arrange(d, Place(d.f), t) EXCEPT !.f = d.f] = Arrange(d, Place(d.f), t)
    <3>1. LET u == Arrange(d, Place(d.f), t) IN u \in Queues /\ u.f = d.f
      BY <2>2, <2>5, <2>6, ArrangeIs
    <3> QED BY <3>1, SameEnds
  <2>10. less = SetEnd(Arrange(d, Place(d.f), t), e)
    BY <1>1 DEF t
  <2>11. ~(count > N)
    BY <1>1, <1>2
  <2> HIDE DEF less, longer
  <2>12. Good(less, t)
    BY <2>8, <2>9, <2>10
  <2> QED BY <2>11, <2>12 DEF less, t, e, N
<1>3. CASE count > N
  <2>1. Ready(q, seq) /\ Behind(q) >= count - N
    <3> DEFINE x == count - N
    <3>1. x \in Nat \ {0} /\ q = ReserveBackSpaces(d, x)
      <4>1. ~(count <= Size(d)) /\ count - Size(d) = x /\ x \in Nat \ {0}
        BY <1>1, <1>3
      <4> QED BY <4>1 DEF ReserveBack
    <3> HIDE DEF x, q
    <3>2. Ready(q, seq) /\ Behind(q) >= x
      BY <3>1, SpacesAreReady
    <3> QED BY <3>2 DEF x
  <2>2. more \in Seq(Elements) /\ Len(more) = count - N
    <3> DEFINE k == count - N
    <3>1. k \in Nat
      BY <1>1, <1>3
    <3> HIDE DEF k
    <3>2. [x \in 1..k |-> Plain] \in [1..k -> Elements]
      BY DEF Elements
    <3> DEFINE g == [x \in 1..k |-> Plain]
    <3>3. g \in Seq(Elements) /\ Len(g) = k
      <4> HIDE DEF g
      <4> QED BY <3>1, <3>2, SequenceOf DEF g
    <3>4. more = g
      BY DEF k
    <3> QED BY <3>3, <3>4 DEF k
  <2> HIDE DEF q, more
  <2>3. q \in Queues /\ Place(q.b) = Place(q.f) + N
    BY <2>1, HeldBlocks DEF Framed, Ready
  <2>4. Place(End(q)) = Place(q.f) + N
    BY <2>3, EndIs
  <2>5. Len(more) <= Behind(q)
    <3>1. Span(q) \in Nat /\ Place(q.b) \in Nat
      BY <2>1, HeldBlocks DEF Ready
    <3> QED BY <1>1, <2>1, <2>2, <3>1 DEF Behind
  <2> DEFINE place == Place(q.f) + Len(seq)
  <2>6. Good(SetEnd(Put(q, place, more), At(place + Len(more))), seq \o more)
    BY <2>1, <2>2, <2>5, FilledUp
  <2>7. Place(End(q)) = place
    BY <2>4
  <2> HIDE DEF place
  <2>8. Good(longer, seq \o more)
    BY <2>6, <2>7
  <2>9. ~(count < N)
    BY <1>1, <1>3
  <2> HIDE DEF longer
  <2> QED BY <2>8, <2>9 DEF longer, more, q, N
<1> HIDE DEF q, more, t, e, less, longer
<1>4. count < N \/ count > N
  BY <1>1 DEF N
<1> QED BY <1>2, <1>3, <1>4

LEMMA AssignedIs ==
  ASSUME type \in Types, Legal(d, seq), NEW es \in Seq(Elements), Len(es) > 0
  PROVE  LET q == ReserveBack(Cleared(d), Len(es))
         IN  Good(SetEnd(Put(q, Place(q.f), es), At(Place(q.f) + Len(es))), es)
<1> DEFINE c == Cleared(d)
           q == ReserveBack(c, Len(es))
           s == <<>>
<1>1. Len(es) \in Nat
  BY LenProperties
<1>2. Kept(c, s)
  BY ClearedIs
<1>3. Len(s) = 0 /\ s \o es = es
  <2>1. \A t \in Seq(Elements) : <<>> \o t = t
    OBVIOUS
  <2> QED BY <2>1
<1> HIDE DEF c, s
<1>4. Good(q, s) /\ Behind(q) >= Len(es)
  <2>1. Good(q, s) /\ Behind(q) >= Len(es) - Len(s)
    BY <1>1, <1>2, <1>3, ReserveBackIs
  <2> QED BY <1>1, <1>3, <2>1
<1> HIDE DEF q
<1>5. Span(q) \in Nat /\ Place(q.b) \in Nat /\ Place(q.f) \in Nat
  BY <1>4, GoodBlocks
<1>6. Len(es) <= Behind(q)
  BY <1>1, <1>4, <1>5 DEF Behind
<1> DEFINE place == Place(q.f) + Len(s)
<1>7. Good(SetEnd(Put(q, place, es), At(place + Len(es))), s \o es)
  BY <1>4, <1>6, GoodIsReady, FilledUp
<1>8. place = Place(q.f)
  BY <1>3, <1>5
<1> HIDE DEF place
<1> QED BY <1>3, <1>7, <1>8 DEF q, c

\* Positions, and places, counted from the first block that is used.
LEMMA UsedBlocks ==
  ASSUME type \in Types, NEW q, NEW s, Good(q, s)
  PROVE  LET used == q.b.c - q.f.c + 1
             f == [c |-> 0, i |-> q.f.i]
             b == [c |-> used - 1, i |-> q.b.i]
         IN  /\ used \in Nat \ {0} /\ f \in Points /\ b \in Points
             /\ Place(f) = Place(q.f) - q.f.c * BlockSize
             /\ Place(b) = Place(q.b) - q.f.c * BlockSize
             /\ Place(b) = Place(f) + Len(s) /\ Place(f) \in Nat
<1> DEFINE F == q.f.c
           B == q.b.c
           f == [c |-> 0, i |-> q.f.i]
           used == B - F + 1
           b == [c |-> used - 1, i |-> q.b.i]
           K == F * BlockSize
<1>1. /\ F \in Nat /\ B \in Nat /\ F <= B /\ q.f \in Points /\ q.b \in Points /\ Len(s) \in Nat
  BY GoodIs
<1>2. Place(q.f) \in Nat /\ Place(q.b) \in Nat /\ Place(q.b) = Place(q.f) + Len(s)
  BY GoodBlocks
<1>3. used \in Nat \ {0} /\ F - F = 0 /\ B - F = used - 1
  BY <1>1
<1> HIDE DEF BlockSize
<1>4. /\ [c |-> F - F, i |-> q.f.i] \in Points
      /\ Place([c |-> F - F, i |-> q.f.i]) = Place(q.f) - K /\ K \in Nat
  <2> DEFINE p == q.f
             k == F
  <2>1. p \in Points /\ k \in Nat /\ k <= p.c
    BY <1>1
  <2> HIDE DEF k, p
  <2>2. /\ [c |-> p.c - k, i |-> p.i] \in Points /\ Place([c |-> p.c - k, i |-> p.i]) = Place(p) - k * BlockSize
        /\ k * BlockSize \in Nat
    BY <2>1, PointsMoved
  <2> QED BY <2>2 DEF k, p
<1>5. /\ [c |-> B - F, i |-> q.b.i] \in Points
      /\ Place([c |-> B - F, i |-> q.b.i]) = Place(q.b) - K
  BY <1>1, PointsMoved
<1>6. f = [c |-> F - F, i |-> q.f.i] /\ b = [c |-> B - F, i |-> q.b.i]
  BY <1>3
<1> HIDE DEF f, b
<1>7. f \in Points /\ b \in Points /\ Place(f) = Place(q.f) - K /\ Place(b) = Place(q.b) - K
  BY <1>4, <1>5, <1>6
<1>8. Place(f) \in Nat
  BY <1>7, PlaceIs
<1> HIDE DEF K
<1>9. Place(b) = Place(f) + Len(s)
  BY <1>1, <1>2, <1>4, <1>7
<1>10. /\ used \in Nat \ {0} /\ f \in Points /\ b \in Points
       /\ Place(f) = Place(q.f) - F * BlockSize /\ Place(b) = Place(q.b) - F * BlockSize
       /\ Place(b) = Place(f) + Len(s) /\ Place(f) \in Nat
  <2> HIDE DEF F, B, used
  <2> QED BY <1>3, <1>7, <1>8, <1>9 DEF K
<1> QED BY <1>10 DEF f, b, used, F, B

\* The blocks in use move to a controller of their own.
LEMMA TightIs ==
  ASSUME type \in Types, NEW q, NEW s, Good(q, s), Len(s) > 0
  PROVE  Good(Tight(q), s)
<1> DEFINE r == Tight(q)
           used == q.b.c - q.f.c + 1
           f == [c |-> 0, i |-> q.f.i]
           b == [c |-> used - 1, i |-> q.b.i]
           B == q.b.c
           F == q.f.c
           K == F * BlockSize
           E == (B + 1) * BlockSize
<1>1. /\ q \in Queues /\ F \in Nat /\ B \in Nat /\ F <= B /\ B < q.n /\ q.n \in Nat /\ Len(s) \in Nat
      /\ q.f.i < BlockSize /\ 0 < q.b.i /\ BlockSize \in Nat /\ q.b.i <= BlockSize /\ q.b.i \in Nat /\ q.b \in Points
  BY GoodIs
<1>2. /\ Len(q.cells) = Span(q) /\ Span(q) \in Nat /\ Place(q.f) \in Nat /\ Place(q.b) \in Nat
      /\ Place(q.b) = Place(q.f) + Len(s)
  BY GoodBlocks
<1>3. /\ used \in Nat \ {0} /\ f \in Points /\ b \in Points
      /\ Place(f) = Place(q.f) - K /\ Place(b) = Place(q.b) - K
      /\ Place(b) = Place(f) + Len(s) /\ Place(f) \in Nat
  BY UsedBlocks
<1>4. Slack \in Nat
  BY BlocksAre
<1> HIDE DEF BlockSize, Slack
<1>5. K \in Nat /\ E \in Nat /\ E = K + used * BlockSize /\ used * BlockSize \in Nat /\ E <= Span(q)
  <2>1. F + used = B + 1
    BY <1>1
  <2>2. (F + used) * BlockSize = K + used * BlockSize /\ K \in Nat /\ used * BlockSize \in Nat
    <3> HIDE DEF used
    <3>1. used \in Nat
      BY <1>3
    <3> QED BY <1>1, <3>1, Distributes
  <2>3. B + 1 \in Nat /\ B + 1 <= q.n
    BY <1>1
  <2>4. E <= q.n * BlockSize /\ E \in Nat
    BY <1>1, <2>3, ProductsGrow
  <2> HIDE DEF used
  <2>5. E = K + used * BlockSize
    BY <2>1, <2>2
  <2> QED BY <2>2, <2>4, <2>5 DEF Span
<1> DEFINE U == used * BlockSize
<1>6. Place(b) <= U
  <2>1. used - 1 < used /\ used \in Nat
    BY <1>3
  <2>2. b.c < used /\ b \in Points
    BY <1>3, <2>1
  <2> HIDE DEF b, used
  <2> QED BY <2>1, <2>2, InBlocks
<1> DEFINE z == SubSeq(q.cells, K + 1, E)
<1>7. r = [cap |-> used + Slack, rs |-> 0, n |-> used, cells |-> z, f |-> f, b |-> b]
  BY DEF Tight
<1>8. /\ z \in Seq({Raw, Plain, Marked}) /\ Len(z) = U
      /\ \A x \in 1..U : z[x] = q.cells[K + x]
  <2> DEFINE T == {Raw, Plain, Marked}
             y == q.cells
             a == K + 1
  <2>1. y \in Seq(T)
    BY <1>1 DEF Queues
  <2>2. a \in Nat \ {0} /\ E \in 0..Len(y) /\ a <= E + 1 /\ E + 1 - a = U
    <3> HIDE DEF K, E, used
    <3>1. E = K + U /\ U \in Nat /\ K \in Nat /\ E \in Nat /\ E <= Len(y)
      BY <1>2, <1>5 DEF U
    <3> HIDE DEF U
    <3> QED BY <3>1
  <2> HIDE DEF T, y, a, E
  <2>3. /\ SubSeq(y, a, E) \in Seq(T) /\ Len(SubSeq(y, a, E)) = E + 1 - a
        /\ \A x \in 1..(E + 1 - a) : SubSeq(y, a, E)[x] = y[a + x - 1]
    BY <2>1, <2>2, SubIs
  <2> HIDE DEF U
  <2>4. \A x \in 1..U : a + x - 1 = K + x
    <3> HIDE DEF K, used
    <3>1. K \in Nat /\ U \in Nat
      BY <1>5 DEF U
    <3> QED BY <3>1 DEF a
  <2>5. z = SubSeq(y, a, E)
    BY DEF y, a
  <2> HIDE DEF z
  <2>6. z \in Seq(T) /\ Len(z) = U /\ \A x \in 1..U : z[x] = y[a + x - 1]
    BY <2>2, <2>3, <2>5
  <2> QED BY <2>4, <2>6 DEF T, y
<1> HIDE DEF z, r, f, b
<1>9. /\ r \in Queues /\ r.n = used /\ r.cells = z /\ r.f = f /\ r.b = b /\ r.rs = 0
      /\ r.cap = used + Slack
  <2>1. used + Slack \in Nat /\ used \in Nat
    BY <1>3, <1>4
  <2> HIDE DEF used
  <2> QED BY <1>3, <1>7, <1>8, <2>1 DEF Queues
<1>10. Filled(r, Place(r.f), s)
  <2> DEFINE there == Place(f)
             place == Place(q.f)
             N == Len(s)
  <2>1. Filled(q, place, s)
    BY DEF Good
  <2>2. Span(r) = U
    BY <1>9 DEF Span
  <2>3. U \in Nat /\ K \in Nat /\ K + U <= Span(q)
    <3> HIDE DEF K, E, used
    <3> QED BY <1>5
  <2> HIDE DEF U, K, there, place, N
  <2>4. there \in Nat /\ place \in Nat /\ there = place - K /\ there + N <= U /\ N \in Nat
    BY <1>1, <1>2, <1>3, <1>6 DEF there, place, N
  <2>5. ASSUME NEW x \in 1..U
        PROVE  z[x] = IF x \in (there + 1)..(there + N) THEN q.cells[x - there + place] ELSE Raw
    <3>1. z[x] = q.cells[K + x] /\ K + x \in 1..Span(q)
      BY <1>2, <1>8, <2>3
    <3>2. CASE x \in (there + 1)..(there + N)
      <4>1. x - there + place = K + x
        BY <2>3, <2>4
      <4> QED BY <3>1, <3>2, <4>1
    <3>3. CASE ~(x \in (there + 1)..(there + N))
      <4>1. ~(K + x \in (place + 1)..(place + N))
        BY <2>3, <2>4, <3>3
      <4>2. q.cells[K + x] = Raw
        BY <2>1, <3>1, <4>1 DEF Filled, N
      <4> QED BY <3>1, <3>3, <4>2
    <3> QED BY <3>2, <3>3
  <2>6. \A x \in 1..Span(r) :
          r.cells[x] = IF x \in (there + 1)..(there + Len(s)) THEN q.cells[x - there + place] ELSE Raw
    BY <1>9, <2>2, <2>5 DEF N
  <2>7. Filled(r, there, s)
    <3>1. Len(r.cells) = Span(r) /\ Span(r) \in Nat /\ there + Len(s) <= Span(r)
      BY <1>8, <1>9, <2>2, <2>3, <2>4 DEF N
    <3>2. Filled(q, place, s) /\ Span(q) \in Nat /\ place \in Nat /\ there \in Nat
      BY <1>2, <2>1, <2>4
    <3> HIDE DEF Filled
    <3> QED BY <2>6, <3>1, <3>2, FilledMoved
  <2> QED BY <1>9, <2>7 DEF there
<1>11. Framed(r)
  <2>1. 0 + used <= used + Slack /\ 0 < used /\ used - 1 < used
    BY <1>3, <1>4
  <2> QED BY <1>9, <2>1 DEF Framed, f, b
<1>12. Ended(r)
  <2>1. Place(f) # Place(b)
    <3>1. Place(f) \in Nat /\ Place(b) = Place(f) + Len(s)
      BY <1>3
    <3> QED BY <1>1, <3>1
  <2> QED BY <1>1, <1>9, <2>1 DEF Ended, f, b
<1>13. Place(r.b) = Place(r.f) + Len(s)
  BY <1>3, <1>9
<1> QED BY <1>10, <1>11, <1>12, <1>13 DEF Good, r

LEMMA CopiedIs ==
  ASSUME type \in Types, Kept(d, seq)
  PROVE  Kept(Copied, seq)
<1> DEFINE used == d.b.c - d.f.c + 1
           front == [c |-> 0, i |-> IF used = 1 THEN 0 ELSE d.f.i]
           back == [c |-> used - 1, i |-> IF used = 1 THEN Size(d) ELSE d.b.i]
           q == Allocate(used, front, back)
<1>1. CASE Empty(d)
  BY <1>1, EmptyIs DEF Copied, Kept
<1>2. CASE ~Empty(d)
  <2>1. Good(d, seq) /\ Len(seq) > 0
    BY <1>2, EmptyIs
  <2>2. /\ Size(d) = Len(seq) /\ Contents(d) = seq /\ seq \in Seq(Elements) /\ Len(seq) \in Nat
    BY KeptIs
  <2>3. /\ d.f.i \in Nat /\ d.f.i < BlockSize /\ d.b.i > 0 /\ BlockSize \in Nat /\ d.b.i \in Nat /\ d.b.i <= BlockSize
        /\ d.f \in Points /\ d.b \in Points
    BY <2>1, GoodIs
  <2>4. /\ used \in Nat \ {0} /\ [c |-> 0, i |-> d.f.i] \in Points /\ [c |-> used - 1, i |-> d.b.i] \in Points
        /\ Place([c |-> used - 1, i |-> d.b.i]) = Place([c |-> 0, i |-> d.f.i]) + Len(seq)
    BY <2>1, UsedBlocks
  <2> HIDE DEF BlockSize
  <2>5. /\ front \in Points /\ back \in Points /\ front.c < used /\ back.c < used
        /\ front.i < BlockSize /\ back.i > 0 /\ Place(back) = Place(front) + Len(seq)
    <3>1. CASE used = 1
      <4>1. front = [c |-> 0, i |-> 0] /\ back = [c |-> 0, i |-> Len(seq)]
        BY <2>2, <3>1
      <4>2. 0 * BlockSize + d.b.i = 0 * BlockSize + d.f.i + Len(seq) /\ 0 * BlockSize = 0
        BY <2>3, <2>4, <3>1 DEF Place
      <4>3. Len(seq) <= BlockSize
        BY <2>2, <2>3, <4>2
      <4>4. front \in Points /\ back \in Points /\ front.i < BlockSize /\ back.i > 0 /\ front.c = 0 /\ back.c = 0
        <5> HIDE DEF front, back
        <5> QED BY <2>1, <2>2, <2>3, <4>1, <4>3 DEF Points
      <4>5. Place(front) = 0 /\ Place(back) = Len(seq)
        BY <2>2, <2>3, <4>1, <4>2 DEF Place
      <4> QED BY <2>2, <3>1, <4>4, <4>5
    <3>2. CASE used # 1
      <4>1. front = [c |-> 0, i |-> d.f.i] /\ back = [c |-> used - 1, i |-> d.b.i]
        BY <3>2
      <4>2. 0 < used /\ used - 1 < used
        BY <2>4
      <4> HIDE DEF front, back, used
      <4> QED BY <2>3, <2>4, <4>1, <4>2
    <3> QED BY <3>1, <3>2
  <2> HIDE DEF used, front, back
  <2>6. /\ Framed(q) /\ q.n = used /\ q.f = front /\ q.b = back /\ Len(q.cells) = Span(q)
    BY <2>4, <2>5, AllocateIs
  <2> HIDE DEF q
  <2>7. q \in Queues /\ Place(front) \in Nat /\ Place(back) <= Span(q) /\ Span(q) \in Nat
    <3>1. q \in Queues /\ used \in Nat
      BY <2>4, <2>6 DEF Framed
    <3>2. Place(back) <= used * BlockSize
      BY <2>5, <3>1, InBlocks
    <3> QED BY <2>5, <2>6, <3>1, <3>2, PlaceIs, SpanIs DEF Span
  <2> DEFINE a == Arrange(q, Place(front), seq)
             p == [a EXCEPT !.f = front]
  <2>8. Good(SetEnd(p, back), seq)
    BY <2>1, <2>2, <2>5, <2>6, <2>7, RearrangedIs
  <2>9. a \in Queues /\ a.f = front /\ a.b = back
    BY <2>2, <2>5, <2>6, <2>7, ArrangeIs
  <2> HIDE DEF a
  <2>10. p = a
    BY <2>9, SameEnds
  <2>11. SetEnd(a, back) = a
    BY <2>5, <2>9, SameEnds DEF SetEnd
  <2>12. Copied = a
    BY <1>2, <2>2 DEF Copied, a, q, used, front, back
  <2> HIDE DEF p
  <2>13. Good(Copied, seq)
    BY <2>8, <2>10, <2>11, <2>12
  <2> QED BY <2>13 DEF Kept
<1> QED BY <1>1, <1>2

-----------------------------------------------------------------------------
(***************************************************************************)
(* The steps.  Each one is a call of the queue that is there, d, and its   *)
(* elements, seq.                                                          *)
(***************************************************************************)

\* What is inserted, and how many.
LEMMA FreshIs ==
  ASSUME NEW n \in Nat, NEW es \in Fresh(n)
  PROVE  es \in Seq(Elements) /\ Len(es) = n
<1>1. PICK m : es = [x \in 1..n |-> IF x = m THEN Marked ELSE Plain]
  BY DEF Fresh
<1>2. es \in [1..n -> Elements]
  BY <1>1 DEF Elements
<1> QED BY <1>2, SequenceOf

LEMMA FreshOne ==
  ASSUME NEW es \in Fresh(1)
  PROVE  es[1] \in Elements
<1>1. PICK m : es = [x \in 1..1 |-> IF x = m THEN Marked ELSE Plain]
  BY DEF Fresh
<1>2. es \in [1..1 -> Elements]
  BY <1>1 DEF Elements
<1> QED BY <1>2

\* What a step leaves: a queue that is in order, and what has been promised; or
\* one whose ends are behind a block.
LeftAtBorder == Loose /\ Bordered(d') /\ seq' = <<>> /\ promise' = 0 /\ UNCHANGED type
Left == Kept(d', seq') /\ Prepared(d', seq', promise') /\ Len(seq') <= type.most /\ UNCHANGED type /\ promise' \in Nat

LEMMA LeftIs ==
  ASSUME type \in Types, NEW q, NEW s, After(q, s), NoPromise, Kept(q, s)
  PROVE  Left
<1>1. d' = q /\ seq' = s /\ Len(s) <= type.most /\ type' = type /\ promise' = 0
  BY DEF After, NoPromise
<1>2. s \in Seq(Elements) /\ Len(s) \in Nat
  BY KeptIs
<1>3. Prepared(q, s, 0)
  BY <1>2 DEF Prepared
<1> QED BY <1>1, <1>3 DEF Left

LEMMA PushBackKeeps ==
  ASSUME Regular, NEW v \in Elements, ~type.throws, EmplaceBack(v)
  PROVE  Left
<1> DEFINE p == GrownBack(d)
           r == [Put(p, Place(p.b), <<v>>) EXCEPT !.b.i = @ + 1]
           s == Append(seq, v)
<1>1. type \in Types /\ Kept(d, seq) /\ Prepared(d, seq, promise) /\ promise \in Nat
  BY DEF Regular
<1>2. After(r, s) /\ promise' = promise
  BY DEF EmplaceBack, GrownBack
<1>3. seq \in Seq(Elements) /\ Len(seq) \in Nat /\ d.n \in Nat /\ (d.n > 0 => Good(d, seq))
  BY <1>1, KeptIs
<1>4. Open(p, seq) /\ (d.n > 0 => Behind(p) >= Behind(d))
  BY <1>1, GrowBackIs
<1> HIDE DEF p
<1>5. Good(r, s) /\ Behind(r) = Behind(p) - 1
  BY <1>1, <1>4, PushBackIs
<1>6. Len(s) = Len(seq) + 1
  BY <1>3, AppendProperties
<1> HIDE DEF r, s
<1>7. Prepared(r, s, promise)
  <2>1. SUFFICES ASSUME promise > Len(s) PROVE r.n > 0 /\ promise - Len(s) <= Behind(r)
    BY DEF Prepared
  <2>2. d.n > 0 /\ promise - Len(seq) <= Behind(d)
    BY <1>1, <1>3, <1>6, <2>1 DEF Prepared
  <2>3. r.n > 0
    <3>1. r.n \in Nat /\ r.b.c \in Nat /\ r.b.c < r.n
      BY <1>1, <1>5, GoodIs
    <3> QED BY <3>1
  <2>4. Behind(d) \in Int /\ Behind(p) \in Int /\ Behind(r) \in Int
    <3>1. Good(d, seq)
      BY <1>3, <2>2
    <3>2. Span(d) \in Nat /\ Place(d.b) \in Nat /\ Span(r) \in Nat /\ Place(r.b) \in Nat
      BY <1>1, <1>5, <3>1, GoodBlocks
    <3>3. p \in Queues
      BY <1>4 DEF Open, Framed
    <3>4. Span(p) \in Nat /\ Place(p.b) \in Nat
      BY <1>1, <3>3, SpanIs, PlaceIs
    <3> QED BY <3>2, <3>4 DEF Behind
  <2>5. promise - Len(s) <= Behind(r)
    BY <1>1, <1>3, <1>4, <1>5, <1>6, <2>2, <2>4
  <2> QED BY <2>3, <2>5
<1>8. d' = r /\ seq' = s /\ Len(s) <= type.most /\ type' = type
  BY <1>2 DEF After
<1> QED BY <1>1, <1>2, <1>5, <1>7, <1>8 DEF Left, Kept

LEMMA PushFrontKeeps ==
  ASSUME Regular, NEW v \in Elements, EmplaceFront(v)
  PROVE  Left
<1> DEFINE p == GrownFront(d)
           r == [Put(p, Place(p.f) - 1, <<v>>) EXCEPT !.f.i = @ - 1]
<1>1. type \in Types /\ Kept(d, seq)
  BY DEF Regular
<1>2. NoPromise /\ (After(r, <<v>> \o seq) \/ After(Undone(p), seq))
  BY DEF EmplaceFront, GrownFront
<1>3. /\ Framed(p) /\ p.f.i > 0 /\ p.b.i > 0
      /\ Filled(p, Place(p.f), seq) /\ Place(p.b) = Place(p.f) + Len(seq)
      /\ Good(Undone(p), seq)
  BY <1>1, GrowFrontIs
<1> HIDE DEF p
<1>4. Good(r, <<v>> \o seq)
  BY <1>1, <1>3, PushFrontIs
<1> HIDE DEF r
<1>5. CASE After(r, <<v>> \o seq)
  BY <1>2, <1>4, <1>5, <1>1, LeftIs DEF Kept
<1>6. CASE After(Undone(p), seq)
  BY <1>2, <1>3, <1>6, <1>1, LeftIs DEF Kept
<1> QED BY <1>2, <1>5, <1>6

LEMMA PopsKeep ==
  ASSUME Regular, PopBack \/ PopFront
  PROVE  Left
<1> DEFINE b == Backspace([Put(d, Place(d.b) - 1, <<Raw>>) EXCEPT !.b.i = @ - 1])
           f == Forespace([Put(d, Place(d.f), <<Raw>>) EXCEPT !.f.i = @ + 1])
<1>1. type \in Types /\ Kept(d, seq)
  BY DEF Regular
<1>2. CASE PopBack
  <2>1. ~Empty(d) /\ After(b, Front(seq)) /\ NoPromise
    BY <1>2 DEF PopBack
  <2>2. Good(b, Front(seq))
    BY <1>1, <2>1, PopBackIs
  <2> HIDE DEF b
  <2> QED BY <2>1, <2>2, <1>1, LeftIs DEF Kept
<1>3. CASE PopFront
  <2>1. ~Empty(d) /\ After(f, Tail(seq)) /\ NoPromise
    BY <1>3 DEF PopFront
  <2>2. Good(f, Tail(seq))
    BY <1>1, <2>1, PopFrontIs
  <2> HIDE DEF f
  <2> QED BY <2>1, <2>2, <1>1, LeftIs DEF Kept
<1> QED BY <1>2, <1>3

LEMMA ClearsKeep ==
  ASSUME Regular, Clear \/ ClearDestroy \/ ShrinkToFit
  PROVE  Left
<1>1. type \in Types /\ Kept(d, seq)
  BY DEF Regular
<1>2. CASE Clear
  <2>1. After(Cleared(d), <<>>) /\ NoPromise /\ Kept(Cleared(d), <<>>)
    BY <1>1, <1>2, ClearedIs DEF Clear, Legal
  <2> QED BY <2>1, <1>1, LeftIs
<1>3. CASE ClearDestroy
  <2>1. After(Null, <<>>) /\ NoPromise /\ Kept(Null, <<>>)
    BY <1>3 DEF ClearDestroy, Kept
  <2> QED BY <2>1, <1>1, LeftIs
<1>4. CASE ShrinkToFit
  <2> DEFINE used == d.b.c - d.f.c + 1
             q == IF Empty(d) THEN Null ELSE IF d.n = used /\ d.cap <= used THEN d ELSE Tight(d)
  <2>1. After(q, seq) /\ NoPromise
    BY <1>4 DEF ShrinkToFit
  <2>2. (Empty(d) => seq = <<>>) /\ (~Empty(d) => Good(d, seq) /\ Len(seq) > 0)
    BY <1>1, EmptyIs
  <2>3. Kept(q, seq)
    <3>1. CASE Empty(d)
      BY <2>2, <3>1 DEF Kept
    <3>2. CASE ~Empty(d)
      <4>1. Good(Tight(d), seq) /\ Good(d, seq)
        BY <1>1, <2>2, <3>2, TightIs
      <4> QED BY <3>2, <4>1 DEF Kept
    <3> QED BY <3>1, <3>2
  <2> HIDE DEF q
  <2> QED BY <2>1, <2>3, <1>1, LeftIs
<1> QED BY <1>2, <1>3, <1>4

\* Fewer elements than a block holds.
LEMMA FewFit ==
  ASSUME type \in Types, NEW n \in type.counts
  PROVE  n \in Nat /\ n > 0 /\ (n < type.block => n \in 1..(BlockSize - 1))
<1>1. n \in Nat \ {0} /\ BlockSize \in Nat /\ BlockSize = type.block
  BY BlocksAre, DequeAssumption DEF BlockSize
<1>2. n \in Nat /\ n > 0
  BY <1>1
<1> HIDE DEF BlockSize
<1>3. n < type.block => n \in 1..(BlockSize - 1)
  BY <1>1
<1> QED BY <1>2, <1>3

LEMMA InsertsKeep ==
  ASSUME type \in Types, Legal(d, seq),
         \/ AnyEmplace \/ AnyAppend
         \/ (\A n \in type.counts : n < type.block) /\ (AnyPrepend \/ AnyInsert)
  PROVE  Left
<1>1. type \in Types /\ Legal(d, seq)
  OBVIOUS
<1>2. Size(d) = Len(seq) /\ Len(seq) \in Nat /\ seq \in Seq(Elements) /\ Inside(0) = 0..Len(seq)
  <2>1. Size(d) = Len(seq) /\ Len(seq) \in Nat /\ seq \in Seq(Elements)
    BY <1>1, LegalIs
  <2>2. Inside(0) = 0..Len(seq)
    BY <2>1 DEF Inside
  <2> QED BY <2>1, <2>2
<1>3. CASE AnyEmplace
  <2>1. PICK v \in Fresh(1), pos \in Inside(0) : EmplaceIndex(pos, v[1])
    BY <1>3 DEF AnyEmplace
  <2> DEFINE w == v[1]
             q == IF pos = Size(d) /\ RoomBack(d) > 0
                    THEN [Put(d, Place(d.b), <<w>>) EXCEPT !.b.i = @ + 1]
                  ELSE IF pos = 0 /\ pos < Size(d) /\ d.f.i > 0
                    THEN [Put(d, Place(d.f) - 1, <<w>>) EXCEPT !.f.i = @ - 1]
                  ELSE InsertNear(pos, <<w>>)
  <2>2. w \in Elements /\ pos \in 0..Len(seq)
    BY <1>2, FreshOne
  <2>3. After(q, Inserted(seq, pos, <<w>>)) /\ NoPromise
    BY <2>1 DEF EmplaceIndex
  <2> HIDE DEF w
  <2>4. Good(q, Inserted(seq, pos, <<w>>))
    BY <1>1, <2>2, EmplacedIs
  <2> HIDE DEF q
  <2> QED BY <2>3, <2>4, <1>1, LeftIs DEF Kept
<1>4. CASE AnyAppend
  <2>1. PICK n \in type.counts : \E es \in Fresh(n) : AppendRange(es)
    BY <1>4 DEF AnyAppend
  <2>2. PICK es \in Fresh(n) : AppendRange(es)
    BY <2>1
  <2>3. n \in Nat /\ n > 0
    BY <1>1, FewFit
  <2>4. es \in Seq(Elements) /\ Len(es) > 0
    BY <2>3, FreshIs
  <2>5. Len(seq) \in 0..Len(seq)
    BY <1>2
  <2>6. Good(InsertBack(Len(seq), es), Inserted(seq, Len(seq), es))
    BY <1>1, <2>4, <2>5, InsertBackIs
  <2>7. Inserted(seq, Len(seq), es) = seq \o es
    BY <1>2, <2>4, InsertedAtEnds
  <2>8. After(InsertBack(Len(seq), es), seq \o es) /\ NoPromise
    BY <2>2 DEF AppendRange
  <2> QED BY <2>6, <2>7, <2>8, <1>1, LeftIs DEF Kept
<1>5. CASE (\A n \in type.counts : n < type.block) /\ AnyPrepend
  <2>1. PICK n \in type.counts : \E es \in Fresh(n) : PrependRange(es)
    BY <1>5 DEF AnyPrepend
  <2>2. PICK es \in Fresh(n) : PrependRange(es)
    BY <2>1
  <2>3. n \in Nat /\ n \in 1..(BlockSize - 1)
    BY <1>1, <1>5, FewFit
  <2>4. es \in Seq(Elements) /\ Len(es) \in 1..(BlockSize - 1)
    BY <2>3, FreshIs
  <2>5. 0 \in 0..Len(seq)
    BY <1>2
  <2>6. Good(InsertFront(0, es), Inserted(seq, 0, es))
    BY <1>1, <2>4, <2>5, InsertFrontIs
  <2>7. Inserted(seq, 0, es) = es \o seq
    BY <1>2, <2>4, InsertedAtEnds
  <2>8. After(InsertFront(0, es), es \o seq) /\ NoPromise
    BY <2>2 DEF PrependRange
  <2> QED BY <2>6, <2>7, <2>8, <1>1, LeftIs DEF Kept
<1>6. CASE (\A n \in type.counts : n < type.block) /\ AnyInsert
  <2>1. PICK n \in type.counts, pos \in Inside(0) : \E es \in Fresh(n) : InsertRange(pos, es)
    BY <1>6 DEF AnyInsert
  <2>2. PICK es \in Fresh(n) : InsertRange(pos, es)
    BY <2>1
  <2>3. n \in Nat /\ n \in 1..(BlockSize - 1) /\ pos \in 0..Len(seq)
    BY <1>1, <1>2, <1>6, FewFit
  <2>4. es \in Seq(Elements) /\ Len(es) \in 1..(BlockSize - 1)
    BY <2>3, FreshIs
  <2>5. Good(InsertNear(pos, es), Inserted(seq, pos, es))
    BY <1>1, <2>3, <2>4, InsertNearIs
  <2>6. After(InsertNear(pos, es), Inserted(seq, pos, es)) /\ NoPromise
    BY <2>2 DEF InsertRange
  <2> QED BY <2>5, <2>6, <1>1, LeftIs DEF Kept
<1> QED BY <1>3, <1>4, <1>5, <1>6

LEMMA ErasesKeep ==
  ASSUME Regular, type.relocatable \/ "reserve" \notin type.ops, AnyErase
  PROVE  Left \/ LeftAtBorder
<1>1. type \in Types /\ Kept(d, seq)
  BY DEF Regular
<1>2. Size(d) = Len(seq) /\ Len(seq) \in Nat
  BY <1>1, KeptIs
<1>3. CASE \E i \in Inside(1) : EraseOne(i)
  <2>1. PICK i \in Inside(1) : EraseOne(i)
    BY <1>3
  <2> DEFINE moveLeft == i < Size(d) - i
             q == Erased(i, i + 1, moveLeft, type.relocatable)
  <2>2. i \in Nat /\ i + 1 <= Len(seq)
    BY <1>2 DEF Inside
  <2>3. i + 1 \in 0..Len(seq) /\ i \in 0..(i + 1) /\ i < i + 1
    BY <1>2, <2>2
  <2>4. After(q, Without(seq, i, i + 1)) /\ NoPromise
    BY <2>1 DEF EraseOne
  <2> DEFINE j == i + 1
  <2>5. moveLeft \in BOOLEAN /\ type.relocatable \in BOOLEAN
    BY <1>1, DequeAssumption
  <2>6. j \in 0..Len(seq) /\ i \in 0..j /\ i < j
    BY <2>3
  <2>7. CASE moveLeft /\ ~type.relocatable => j < Len(seq)
    <3> HIDE DEF moveLeft, j
    <3>1. Good(Erased(i, j, moveLeft, type.relocatable), Without(seq, i, j))
      BY <1>1, <2>5, <2>6, <2>7, ErasedIs
    <3>2. Kept(q, Without(seq, i, i + 1))
      BY <3>1 DEF j, Kept
    <3> HIDE DEF q
    <3> QED BY <1>1, <2>4, <3>2, LeftIs
  <2>8. CASE ~(moveLeft /\ ~type.relocatable => j < Len(seq))
    <3>1. i = 0 /\ Len(seq) = 1 /\ moveLeft = TRUE /\ type.relocatable = FALSE
      BY <1>2, <2>2, <2>5, <2>8
    <3>2. Good(d, seq)
      <4>1. seq # <<>>
        BY <3>1
      <4> QED BY <1>1, <4>1 DEF Kept
    <3> DEFINE r == Erased(0, 1, TRUE, FALSE)
    <3>3. Without(seq, 0, 1) = <<>> /\ (Good(r, <<>>) \/ Bordered(r))
      BY <1>1, <3>1, <3>2, ErasedLastIs
    <3>4. q = r
      <4>1. i + 1 = 1
        BY <3>1
      <4>2. i = 0 /\ moveLeft = TRUE /\ type.relocatable = FALSE
        BY <3>1
      <4> HIDE DEF moveLeft
      <4> QED BY <4>1, <4>2, Zenon
    <3> HIDE DEF q, r
    <3>5. After(r, <<>>) /\ NoPromise
      BY <2>4, <3>1, <3>3, <3>4
    <3>6. CASE Good(r, <<>>)
      <4>1. Kept(r, <<>>)
        BY <3>6 DEF Kept
      <4> QED BY <1>1, <3>5, <4>1, LeftIs
    <3>7. CASE Bordered(r)
      <4>1. Loose
        BY <3>1 DEF Loose
      <4>2. d' = r /\ seq' = <<>> /\ promise' = 0 /\ type' = type
        BY <3>5 DEF After, NoPromise
      <4> QED BY <3>7, <4>1, <4>2 DEF LeftAtBorder
    <3> QED BY <3>3, <3>6, <3>7
  <2> QED BY <2>7, <2>8
<1>4. CASE \E i, j \in Inside(0) : i < j /\ EraseRange(i, j)
  <2>1. PICK i \in Inside(0), j \in Inside(0) : i < j /\ EraseRange(i, j)
    BY <1>4
  <2> DEFINE moveLeft == i < Size(d) - j
             q == Erased(i, j, moveLeft, FALSE)
  <2>2. j \in 0..Len(seq) /\ i \in 0..j /\ i < j
    BY <1>2, <2>1 DEF Inside
  <2>3. moveLeft \in BOOLEAN /\ FALSE \in BOOLEAN /\ (moveLeft /\ ~FALSE => j < Len(seq))
    BY <1>2, <2>2
  <2>4. After(q, Without(seq, i, j)) /\ NoPromise
    BY <2>1 DEF EraseRange
  <2> HIDE DEF moveLeft
  <2>5. Good(q, Without(seq, i, j))
    BY <1>1, <2>2, <2>3, ErasedIs
  <2> HIDE DEF q
  <2> QED BY <2>4, <2>5, <1>1, LeftIs DEF Kept
<1> QED BY <1>3, <1>4 DEF AnyErase

LEMMA ReservesKeep ==
  ASSUME Regular,
         AnyReserve \/ (AnyReserveFront /\ \A n \in type.counts : n < type.block)
  PROVE  Left
<1>1. type \in Types /\ Kept(d, seq) /\ Prepared(d, seq, promise) /\ promise \in Nat
  BY DEF Regular
<1>2. Len(seq) \in Nat /\ d.n \in Nat /\ (d.n > 0 => Good(d, seq))
  BY <1>1, KeptIs
<1>3. CASE AnyReserve
  <2>1. PICK n \in type.counts : Reserve(n)
    BY <1>3 DEF AnyReserve
  <2> DEFINE r == ReserveBack(d, n)
             k == Larger(n, promise)
  <2>2. n \in Nat /\ n > 0
    BY <1>1, FewFit
  <2>3. After(r, seq) /\ promise' = k
    BY <2>1 DEF Reserve
  <2>4. /\ Kept(r, seq)
        /\ n > Len(seq) => Good(r, seq) /\ Behind(r) >= n - Len(seq)
        /\ d.n > 0 => r.n > 0 /\ Behind(r) >= Behind(d)
    BY <1>1, <2>2, ReserveBackIs
  <2> HIDE DEF r
  <2>5. k \in Nat /\ (k = n \/ k = promise)
    BY <1>1, <2>2 DEF Larger
  <2> HIDE DEF k
  <2>6. Prepared(r, seq, k)
    <3>1. SUFFICES ASSUME k > Len(seq) PROVE r.n > 0 /\ k - Len(seq) <= Behind(r)
      BY DEF Prepared
    <3>2. CASE k = n
      <4>1. Good(r, seq) /\ Behind(r) >= k - Len(seq)
        BY <2>4, <3>1, <3>2
      <4>2. r.n \in Nat /\ r.b.c \in Nat /\ r.b.c < r.n /\ Span(r) \in Nat /\ Place(r.b) \in Nat
        BY <1>1, <4>1, GoodIs, GoodBlocks
      <4>3. Behind(r) \in Int
        BY <4>2 DEF Behind
      <4> QED BY <1>2, <2>5, <4>1, <4>2, <4>3
    <3>3. CASE k = promise
      <4>1. d.n > 0 /\ k - Len(seq) <= Behind(d)
        BY <1>1, <3>1, <3>3 DEF Prepared
      <4>2. r.n > 0 /\ Behind(r) >= Behind(d)
        BY <2>4, <4>1
      <4>3. Good(d, seq) /\ Good(r, seq)
        <5>1. Good(d, seq)
          BY <1>2, <4>1
        <5>2. Good(r, seq)
          BY <1>1, <2>4, <4>2, KeptIs
        <5> QED BY <5>1, <5>2
      <4>4. Span(d) \in Nat /\ Place(d.b) \in Nat /\ Span(r) \in Nat /\ Place(r.b) \in Nat
        BY <1>1, <4>3, GoodBlocks
      <4>5. Behind(d) \in Int /\ Behind(r) \in Int
        BY <4>4 DEF Behind
      <4> QED BY <1>2, <2>5, <4>1, <4>2, <4>5
    <3> QED BY <2>5, <3>2, <3>3
  <2>7. d' = r /\ seq' = seq /\ Len(seq) <= type.most /\ type' = type
    BY <2>3 DEF After
  <2> QED BY <2>3, <2>4, <2>5, <2>6, <2>7 DEF Left
<1>4. CASE AnyReserveFront /\ \A n \in type.counts : n < type.block
  <2>1. PICK n \in type.counts : ReserveFront(n)
    BY <1>4 DEF AnyReserveFront
  <2>2. n \in 1..(BlockSize - 1)
    BY <1>1, <1>4, FewFit
  <2> DEFINE q == IF n <= Size(d) THEN d ELSE ReserveFrontSpaces(d, n - Size(d), Unit)
  <2>3. After(q, seq) /\ NoPromise
    BY <2>1 DEF ReserveFront
  <2>4. Kept(q, seq)
    BY <1>1, <2>2, ReserveFrontIs
  <2> HIDE DEF q
  <2> QED BY <2>3, <2>4, <1>1, LeftIs
<1> QED BY <1>3, <1>4

LEMMA ResizesKeep ==
  ASSUME type \in Types, Legal(d, seq), AnyResize \/ AnyAssign
  PROVE  Left
<1>1. type \in Types /\ Legal(d, seq)
  OBVIOUS
<1>2. Size(d) = Len(seq) /\ Len(seq) \in Nat
  BY <1>1, LegalIs
<1>3. CASE AnyResize
  <2>1. PICK n \in type.counts \union {0} : Resize(n)
    BY <1>3 DEF AnyResize
  <2>2. n \in Nat
    BY <1>1, FewFit
  <2> DEFINE q == ReserveBack(d, n)
             more == [x \in 1..(n - Len(seq)) |-> Plain]
             less == SetEnd(Arrange(d, Place(d.f), SubSeq(Contents(d), 1, n)),
                            At(Place(End(d)) - (Size(d) - n)))
             longer == SetEnd(Put(q, Place(End(q)), more), At(Place(End(q)) + Len(more)))
  <2>3. /\ n # Len(seq) /\ NoPromise
        /\ n < Len(seq) => After(less, SubSeq(seq, 1, n))
        /\ ~(n < Len(seq)) => After(longer, seq \o more)
    BY <1>2, <2>1 DEF Resize
  <2>4. /\ n < Len(seq) => Good(less, SubSeq(seq, 1, n))
        /\ n > Len(seq) => Good(longer, seq \o more)
    BY <1>1, <2>2, <2>3, ResizedIs
  <2> HIDE DEF less, longer, more
  <2>5. CASE n < Len(seq)
    BY <2>3, <2>4, <2>5, <1>1, LeftIs DEF Kept
  <2>6. CASE n > Len(seq)
    <3>1. ~(n < Len(seq))
      BY <1>2, <2>2, <2>6
    <3> QED BY <2>3, <2>4, <2>6, <3>1, <1>1, LeftIs DEF Kept
  <2> QED BY <1>2, <2>2, <2>3, <2>5, <2>6
<1>4. CASE AnyAssign
  <2>1. PICK n \in type.counts : \E es \in Fresh(n) : Assign(es)
    BY <1>4 DEF AnyAssign
  <2>2. PICK es \in Fresh(n) : Assign(es)
    BY <2>1
  <2>3. n \in Nat /\ n > 0
    BY <1>1, FewFit
  <2>4. es \in Seq(Elements) /\ Len(es) > 0
    BY <2>3, FreshIs
  <2> DEFINE q == ReserveBack(Cleared(d), Len(es))
             r == SetEnd(Put(q, Place(q.f), es), At(Place(q.f) + Len(es)))
  <2>5. After(r, es) /\ NoPromise
    BY <2>2 DEF Assign
  <2>6. Good(r, es)
    BY <1>1, <2>4, AssignedIs
  <2> HIDE DEF r
  <2> QED BY <2>5, <2>6, <1>1, LeftIs DEF Kept
<1> QED BY <1>3, <1>4

\* Every call of a queue that is in order leaves one.
LEMMA RegularStep ==
  ASSUME Regular, Tame(type), DequeNext
  PROVE  Left \/ LeftAtBorder
<1>0. type \in Types /\ Legal(d, seq) /\ Kept(d, seq)
  BY DEF Regular, Legal
<1>1. /\ type.ops \cap {"prepend", "insert", "reserve_front"} # {} => \A n \in type.counts : n < type.block
      /\ type.relocatable \/ ~({"erase", "reserve"} \subseteq type.ops)
      /\ ~type.throws \/ "back" \notin type.ops
  BY DEF Tame
<1>2. CASE "back" \in type.ops /\ AnyBack
  <2>1. CASE \E v \in Fresh(1) : EmplaceBack(v[1])
    <3>1. PICK v \in Fresh(1) : EmplaceBack(v[1])
      BY <2>1
    <3> QED BY <1>1, <1>2, <3>1, FreshOne, PushBackKeeps
  <2>2. CASE PopBack
    BY <2>2, PopsKeep
  <2> QED BY <1>2, <2>1, <2>2 DEF AnyBack
<1>3. CASE "front" \in type.ops /\ AnyFront
  <2>1. CASE \E v \in Fresh(1) : EmplaceFront(v[1])
    <3>1. PICK v \in Fresh(1) : EmplaceFront(v[1])
      BY <2>1
    <3> QED BY <3>1, FreshOne, PushFrontKeeps
  <2>2. CASE PopFront
    BY <2>2, PopsKeep
  <2> QED BY <1>3, <2>1, <2>2 DEF AnyFront
<1>4. CASE "clear" \in type.ops /\ (Clear \/ ClearDestroy \/ ShrinkToFit)
  BY <1>4, ClearsKeep
<1>5. CASE "emplace" \in type.ops /\ AnyEmplace
  BY <1>0, <1>5, InsertsKeep
<1>6. CASE "append" \in type.ops /\ AnyAppend
  BY <1>0, <1>6, InsertsKeep
<1>7. CASE "prepend" \in type.ops /\ AnyPrepend
  <2>1. \A n \in type.counts : n < type.block
    BY <1>1, <1>7
  <2> QED BY <1>0, <1>7, <2>1, InsertsKeep
<1>8. CASE "insert" \in type.ops /\ AnyInsert
  <2>1. \A n \in type.counts : n < type.block
    BY <1>1, <1>8
  <2> QED BY <1>0, <1>8, <2>1, InsertsKeep
<1>9. CASE "erase" \in type.ops /\ AnyErase
  <2>1. type.relocatable \/ "reserve" \notin type.ops
    BY <1>1, <1>9
  <2> QED BY <1>9, <2>1, ErasesKeep
<1>10. CASE "reserve" \in type.ops /\ AnyReserve
  BY <1>10, ReservesKeep
<1>11. CASE "reserve_front" \in type.ops /\ AnyReserveFront
  <2>1. \A n \in type.counts : n < type.block
    BY <1>1, <1>11
  <2> QED BY <1>11, <2>1, ReservesKeep
<1>12. CASE "resize" \in type.ops /\ (AnyResize \/ AnyAssign)
  BY <1>0, <1>12, ResizesKeep
<1>13. CASE "copy" \in type.ops /\ Copy
  <2>2. Kept(Copied, seq)
    BY <1>0, CopiedIs
  <2>3. After(Copied, seq) /\ NoPromise
    BY <1>13 DEF Copy
  <2> QED BY <1>0, <2>2, <2>3, LeftIs
<1> QED BY <1>2, <1>3, <1>4, <1>5, <1>6, <1>7, <1>8, <1>9, <1>10, <1>11, <1>12, <1>13 DEF DequeNext

\* And so does every call of one whose ends are behind a block.
LEMMA BorderStep ==
  ASSUME AtBorder, Tame(type), DequeNext
  PROVE  Left \/ LeftAtBorder
<1>1. /\ type \in Types /\ Loose /\ Bordered(d) /\ seq = <<>> /\ promise = 0 /\ Legal(d, seq)
  BY DEF AtBorder, Legal
<1>2. /\ type.ops \cap {"prepend", "insert", "reserve_front"} # {} => \A n \in type.counts : n < type.block
      /\ ~type.throws \/ "back" \notin type.ops
  BY DEF Tame
<1>3. /\ Held(d, <<>>) /\ d.f = d.b /\ d.b.i = BlockSize /\ Empty(d)
  BY <1>1 DEF Bordered, Empty
<1>4. /\ Framed(d) /\ d.n \in Nat /\ d.n > 0 /\ BlockSize \in Nat /\ BlockSize >= 2 /\ Unit \in Nat \ {0}
  <2>1. Framed(d)
    BY <1>3 DEF Held
  <2>2. d.n \in Nat /\ d.b.c \in Nat /\ d.b.c < d.n
    BY <1>1, <2>1, FramedIs
  <2> QED BY <1>1, <2>1, <2>2, BlocksAre
<1>5. Size(d) = 0 /\ Len(seq) = 0 /\ seq \in Seq(Elements)
  <2>1. Len(<<>>) = 0
    OBVIOUS
  <2> QED BY <1>1, <2>1, LegalIs
<1>6. CASE "back" \in type.ops /\ AnyBack
  <2>1. PICK v \in Fresh(1) : EmplaceBack(v[1])
    BY <1>3, <1>6 DEF AnyBack, PopBack
  <2> DEFINE w == v[1]
             p == GrownBack(d)
             r == [Put(p, Place(p.b), <<w>>) EXCEPT !.b.i = @ + 1]
  <2>2. w \in Elements
    BY FreshOne
  <2>3. After(r, Append(seq, w)) /\ promise' = promise
    BY <1>2, <1>6, <2>1 DEF EmplaceBack, GrownBack
  <2>4. Open(p, seq)
    BY <1>1, GrowBorderIs
  <2> HIDE DEF p, w
  <2>5. Good(r, Append(seq, w))
    BY <1>1, <2>2, <2>4, PushBackIs
  <2> HIDE DEF r
  <2>6. NoPromise
    BY <1>1, <2>3 DEF NoPromise
  <2> QED BY <1>1, <2>3, <2>5, <2>6, LeftIs DEF Kept
<1>7. CASE "front" \in type.ops /\ AnyFront
  <2>1. PICK v \in Fresh(1) : EmplaceFront(v[1])
    BY <1>3, <1>7 DEF AnyFront, PopFront
  <2> DEFINE w == v[1]
             r == [Put(d, Place(d.f) - 1, <<w>>) EXCEPT !.f.i = @ - 1]
  <2>2. w \in Elements
    BY FreshOne
  <2>3. d.f.i # 0 /\ Undone(d) = d
    <3> HIDE DEF BlockSize
    <3> QED BY <1>3, <1>4 DEF Undone
  <2>4. NoPromise /\ (After(r, <<w>> \o seq) \/ After(d, seq))
    BY <2>1, <2>3 DEF EmplaceFront
  <2>5. Good(r, <<w>> \o seq)
    <3>1. d.f.i > 0 /\ d.b.i > 0
      <4> HIDE DEF BlockSize
      <4> QED BY <1>3, <1>4
    <3> HIDE DEF w
    <3> QED BY <1>1, <1>3, <1>4, <2>2, <3>1, PushFrontIs DEF Held
  <2> HIDE DEF r
  <2>6. CASE After(r, <<w>> \o seq)
    BY <1>1, <2>4, <2>5, <2>6, LeftIs DEF Kept
  <2>7. CASE After(d, seq)
    BY <1>1, <2>4, <2>7 DEF After, NoPromise, LeftAtBorder
  <2> QED BY <2>4, <2>6, <2>7
<1>8. CASE "clear" \in type.ops /\ (Clear \/ ClearDestroy \/ ShrinkToFit)
  <2>1. Kept(Cleared(d), <<>>) /\ Kept(Null, <<>>)
    BY <1>1, ClearedIs DEF Kept
  <2>2. CASE Clear
    BY <1>1, <2>1, <2>2, LeftIs DEF Clear
  <2>3. CASE ClearDestroy
    BY <1>1, <2>1, <2>3, LeftIs DEF ClearDestroy
  <2>4. CASE ShrinkToFit
    <3>1. After(Null, <<>>) /\ NoPromise
      BY <1>1, <1>3, <2>4 DEF ShrinkToFit
    <3> QED BY <1>1, <2>1, <3>1, LeftIs
  <2> QED BY <1>8, <2>2, <2>3, <2>4
<1>9. CASE "emplace" \in type.ops /\ AnyEmplace
  BY <1>1, <1>9, InsertsKeep
<1>10. CASE "append" \in type.ops /\ AnyAppend
  BY <1>1, <1>10, InsertsKeep
<1>11. CASE "prepend" \in type.ops /\ AnyPrepend
  <2>1. \A n \in type.counts : n < type.block
    BY <1>2, <1>11
  <2> QED BY <1>1, <1>11, <2>1, InsertsKeep
<1>12. CASE "insert" \in type.ops /\ AnyInsert
  <2>1. \A n \in type.counts : n < type.block
    BY <1>2, <1>12
  <2> QED BY <1>1, <1>12, <2>1, InsertsKeep
<1>13. CASE "erase" \in type.ops /\ AnyErase
  BY <1>5, <1>13 DEF AnyErase, Inside
<1>14. CASE "reserve" \in type.ops /\ AnyReserve
  BY <1>1, <1>14 DEF Loose
<1>15. CASE "reserve_front" \in type.ops /\ AnyReserveFront
  <2>1. PICK n \in type.counts : ReserveFront(n)
    BY <1>15 DEF AnyReserveFront
  <2>2. n \in 1..(BlockSize - 1)
    BY <1>1, <1>2, <1>15, FewFit
  <2>3. n <= d.f.i * Unit /\ ~(n <= Size(d)) /\ n - Size(d) = n
    <3> HIDE DEF BlockSize, Unit
    <3>1. d.f.i = BlockSize /\ n \in Nat /\ n > 0 /\ n <= BlockSize
      BY <1>3, <1>4, <2>2
    <3>2. BlockSize * 1 <= BlockSize * Unit
      <4>1. 1 \in Nat /\ Unit \in Nat /\ 1 <= Unit
        BY <1>4
      <4>2. 1 * BlockSize <= Unit * BlockSize
        BY <1>4, <4>1, ProductsGrow
      <4> QED BY <1>4, <4>2
    <3>3. BlockSize * Unit \in Nat /\ BlockSize * 1 = BlockSize
      BY <1>4
    <3> DEFINE X == BlockSize * Unit
    <3>4. X \in Nat /\ BlockSize <= X
      BY <3>2, <3>3
    <3> HIDE DEF X
    <3>5. n <= X
      BY <1>4, <3>1, <3>4
    <3> QED BY <1>5, <3>1, <3>5 DEF X
  <2>4. After(d, seq) /\ NoPromise
    BY <2>1, <2>3 DEF ReserveFront, ReserveFrontSpaces
  <2> QED BY <1>1, <2>4 DEF After, NoPromise, LeftAtBorder
<1>16. CASE "resize" \in type.ops /\ (AnyResize \/ AnyAssign)
  BY <1>1, <1>16, ResizesKeep
<1>17. CASE "copy" \in type.ops /\ Copy
  <2>1. After(Null, <<>>) /\ NoPromise /\ Kept(Null, <<>>)
    BY <1>1, <1>3, <1>17 DEF Copy, Copied, Kept
  <2> QED BY <1>1, <2>1, LeftIs
<1> QED BY <1>6, <1>7, <1>8, <1>9, <1>10, <1>11, <1>12, <1>13, <1>14, <1>15, <1>16, <1>17 DEF DequeNext

\* The type does not change: what is in order stays so in the next state.
LEMMA LeftKeeps ==
  ASSUME DequeInv, Left \/ LeftAtBorder
  PROVE  DequeInv'
<1>0. type \in Types /\ type.most \in Nat
  BY DequeAssumption DEF DequeInv, Regular, AtBorder
<1>1. type' = type
  BY DEF Left, LeftAtBorder
<1>2. BlockSize' = BlockSize
  BY <1>1 DEF BlockSize
<1> HIDE DEF BlockSize
<1>3. Points' = Points
  BY <1>2 DEF Points
<1>4. Queues' = Queues
  BY <1>3 DEF Queues
<1>5. Place(d.f)' = Place(d'.f) /\ Place(d.b)' = Place(d'.b)
  BY <1>2 DEF Place
<1>6. Span(d)' = Span(d')
  BY <1>2 DEF Span
<1>7. Framed(d)' <=> Framed(d')
  BY <1>4 DEF Framed
<1>8. CASE Left
  <2>1. Filled(d, Place(d.f), seq)' <=> Filled(d', Place(d'.f), seq')
    BY <1>5, <1>6 DEF Filled
  <2>2. Ended(d)' <=> Ended(d')
    BY <1>2, <1>5 DEF Ended
  <2>3. Good(d, seq)' <=> Good(d', seq')
    BY <1>5, <1>7, <2>1, <2>2 DEF Good
  <2>4. Kept(d, seq)'
    BY <1>8, <2>3 DEF Left, Kept
  <2>5. Prepared(d, seq, promise)'
    <3>1. Behind(d)' = Behind(d')
      BY <1>2 DEF Behind, Span, Place
    <3> QED BY <1>8, <3>1 DEF Left, Prepared
  <2>6. Regular'
    BY <1>0, <1>1, <1>8, <2>4, <2>5 DEF Regular, Left
  <2> QED BY <2>6 DEF DequeInv
<1>9. CASE LeftAtBorder
  <2>1. Filled(d, Place(d.f), <<>>)' <=> Filled(d', Place(d'.f), <<>>)
    BY <1>5, <1>6 DEF Filled
  <2>2. Held(d, <<>>)' <=> Held(d', <<>>)
    BY <1>5, <1>7, <2>1 DEF Held
  <2>3. Bordered(d)'
    BY <1>2, <1>9, <2>2 DEF LeftAtBorder, Bordered
  <2>4. AtBorder'
    BY <1>0, <1>1, <1>9, <2>3 DEF AtBorder, LeftAtBorder, Loose
  <2> QED BY <2>4 DEF DequeInv
<1> QED BY <1>8, <1>9

-----------------------------------------------------------------------------
(***************************************************************************)
(* The theorems.                                                           *)
(***************************************************************************)

\* The inductive invariant: reserved blocks in the controller, ends inside the
\* blocks, the elements between them, and room for what has been promised.
THEOREM DequeInvHolds ==
  ASSUME \A t \in Types : Tame(t)
  PROVE  DequeSpec => []DequeInv
<1>1. DequeInit => DequeInv
  <2>1. SUFFICES ASSUME DequeInit PROVE DequeInv
    OBVIOUS
  <2>2. type \in Types /\ d = Null /\ seq = <<>> /\ promise = 0 /\ type.most \in Nat
    BY <2>1, DequeAssumption DEF DequeInit
  <2>3. Len(<<>>) = 0 /\ ~(0 > 0)
    OBVIOUS
  <2> QED BY <2>2, <2>3 DEF DequeInv, Regular, Kept, Prepared
<1>2. DequeInv /\ [DequeNext]_dequeVars => DequeInv'
  <2>1. SUFFICES ASSUME DequeInv, [DequeNext]_dequeVars PROVE DequeInv'
    OBVIOUS
  <2>2. type \in Types
    BY <2>1 DEF DequeInv, Regular, AtBorder
  <2>3. CASE DequeNext
    <3>1. Left \/ LeftAtBorder
      BY <2>1, <2>2, <2>3, RegularStep, BorderStep DEF DequeInv
    <3> QED BY <2>1, <3>1, LeftKeeps
  <2>4. CASE UNCHANGED dequeVars
    <3>1. UNCHANGED <<type, d, seq, promise>>
      BY <2>4 DEF dequeVars
    <3>2. Left \/ LeftAtBorder
      BY <2>1, <3>1 DEF DequeInv, Regular, AtBorder, Left, LeftAtBorder
    <3> QED BY <2>1, <3>2, LeftKeeps
  <2> QED BY <2>1, <2>3, <2>4
<1> QED BY <1>1, <1>2, PTL DEF DequeSpec

\* Whatever was borrowed, shifted and moved, the deque holds the elements a
\* sequence would hold after the same calls, in their order.
THEOREM DequeHoldsAlways ==
  ASSUME \A t \in Types : Tame(t)
  PROVE  DequeSpec => []DequeHolds
<1>1. DequeInv => DequeHolds
  BY LegalIs DEF DequeInv, Regular, AtBorder, Legal, DequeHolds
<1> QED BY <1>1, DequeInvHolds, PTL

LEMMA RegularIsSound ==
  ASSUME Regular
  PROVE  DequeIsSound
<1>1. type \in Types /\ Len(seq) <= type.most /\ promise \in Nat /\ Kept(d, seq)
  BY DEF Regular
<1>2. EmptyAgrees
  BY <1>1, EmptyIs DEF EmptyAgrees
<1>3. Size(d) = Len(seq) /\ seq \in Seq({Plain, Marked}) /\ Len(seq) \in Nat
  BY <1>1, KeptIs DEF Elements
<1>4. BlockSize \in Nat
  BY <1>1, BlocksAre
<1> HIDE DEF BlockSize
<1>5. CASE d = Null /\ seq = <<>>
  <2>1. /\ d.cap = 0 /\ d.rs = 0 /\ d.n = 0 /\ d.cells = <<>> /\ Len(<<>>) = 0
        /\ d.f = [c |-> 0, i |-> 0] /\ d.b = [c |-> 0, i |-> 0]
    BY <1>5 DEF Null
  <2>2. DequeTypeOK
    <3>1. [c |-> 0, i |-> 0] \in [c : Nat, i : 0..BlockSize]
      BY <1>4
    <3>2. d \in [cap : Nat, rs : Nat, n : Nat, cells : Seq({Raw, Plain, Marked}),
                 f : [c : Nat, i : 0..BlockSize], b : [c : Nat, i : 0..BlockSize]]
      BY <1>5, <3>1 DEF Null
    <3>3. Len(d.cells) = d.n * BlockSize
      BY <1>4, <2>1
    <3> QED BY <1>1, <1>3, <3>2, <3>3 DEF DequeTypeOK
  <2>3. StaysInside
    BY <2>1 DEF StaysInside, Sound
  <2>4. EndsAtHand
    BY <1>3, <1>5 DEF EndsAtHand, AtHand
  <2>5. OnlyElements
    BY <2>1 DEF OnlyElements
  <2> QED BY <1>2, <2>2, <2>3, <2>4, <2>5 DEF DequeIsSound
<1>6. CASE Good(d, seq)
  <2>1. Framed(d) /\ Ended(d) /\ Filled(d, Place(d.f), seq) /\ Place(d.b) = Place(d.f) + Len(seq)
    BY <1>6 DEF Good
  <2>2. /\ Len(d.cells) = Span(d) /\ Span(d) \in Nat /\ Place(d.f) \in Nat /\ Place(d.b) \in Nat
    BY <1>1, <1>6, GoodBlocks
  <2>3. /\ d \in Queues /\ d.n \in Nat /\ d.rs \in Nat /\ d.f.c \in Nat /\ d.b.c \in Nat /\ d.rs + d.n <= d.cap
        /\ d.b.c < d.n /\ d.f.i < BlockSize /\ 0 < d.b.i
    BY <1>1, <1>6, GoodIs
  <2>4. DequeTypeOK
    BY <1>1, <1>3, <2>2, <2>3 DEF DequeTypeOK, Queues, Points, Span
  <2>5. StaysInside
    <3>1. Place(d.f) <= Place(d.b)
      BY <1>3, <2>1, <2>2
    <3> QED BY <2>3, <3>1 DEF StaysInside, Sound
  <2>6. EndsAtHand
    BY <2>3 DEF EndsAtHand, AtHand
  <2>7. OnlyElements
    <3> DEFINE F == Place(d.f)
               N == Len(seq)
    <3>1. DOMAIN d.cells = 1..Span(d)
      BY <2>2, <2>3 DEF Queues
    <3>2. ASSUME NEW x \in 1..Span(d)
          PROVE  d.cells[x] # Raw <=> x \in (F + 1)..(F + N)
      <4>1. d.cells[x] = IF x \in (F + 1)..(F + N) THEN seq[x - F] ELSE Raw
        BY <2>1 DEF Filled
      <4>2. x \in (F + 1)..(F + N) => seq[x - F] \in {Plain, Marked}
        <5>1. SUFFICES ASSUME x \in (F + 1)..(F + N) PROVE seq[x - F] \in {Plain, Marked}
          OBVIOUS
        <5>2. x - F \in 1..N
          BY <1>3, <2>2, <5>1
        <5> QED BY <1>3, <5>2, ElementOfSeq
      <4>3. ~(Raw \in {Plain, Marked})
        BY ElementsAre DEF Elements
      <4> QED BY <4>1, <4>2, <4>3
    <3> QED BY <2>1, <3>1, <3>2 DEF OnlyElements
  <2> QED BY <1>2, <2>4, <2>5, <2>6, <2>7 DEF DequeIsSound
<1> QED BY <1>1, <1>5, <1>6 DEF Kept

LEMMA BorderIsSound ==
  ASSUME AtBorder
  PROVE  DequeIsSound
<1>1. /\ type \in Types /\ Held(d, <<>>) /\ d.f = d.b /\ d.b.i = BlockSize /\ seq = <<>> /\ promise = 0
      /\ type.most \in Nat
  BY DequeAssumption DEF AtBorder, Bordered
<1>2. /\ d \in Queues /\ d.n \in Nat /\ d.rs \in Nat /\ d.f.c \in Nat /\ d.b.c \in Nat /\ d.rs + d.n <= d.cap
      /\ d.b.c < d.n
  BY <1>1, FramedIs DEF Held
<1>3. /\ Len(d.cells) = Span(d) /\ Span(d) \in Nat /\ Place(d.f) \in Nat /\ Place(d.f) = Place(d.b)
  BY <1>1, HeldBlocks
<1>4. Len(<<>>) = 0
  OBVIOUS
<1>5. DequeTypeOK
  <2>1. Len(d.cells) = d.n * BlockSize
    BY <1>3 DEF Span
  <2>2. seq \in Seq({Plain, Marked}) /\ Len(seq) <= type.most /\ promise \in Nat
    BY <1>1, <1>4
  <2> QED BY <1>1, <1>2, <2>1, <2>2 DEF DequeTypeOK, Queues, Points
<1> HIDE DEF BlockSize
<1>6. StaysInside
  BY <1>2, <1>3 DEF StaysInside, Sound
<1>7. EmptyAgrees
  BY <1>1 DEF EmptyAgrees, Empty
<1>8. EndsAtHand
  <2>1. Size(d) = 0
    BY <1>3 DEF Size
  <2> QED BY <2>1 DEF EndsAtHand, AtHand
<1>9. OnlyElements
  <2> DEFINE F == Place(d.f)
  <2>1. DOMAIN d.cells = 1..Span(d)
    BY <1>2, <1>3 DEF Queues
  <2>2. \A x \in 1..Span(d) : d.cells[x] = IF x \in (F + 1)..(F + Len(<<>>)) THEN <<>>[x - F] ELSE Raw
    BY <1>1 DEF Held, Filled
  <2> HIDE DEF F
  <2>3. F \in Nat /\ Place(d.b) = F /\ Place(d.f) = F
    BY <1>3 DEF F
  <2>4. \A x \in 1..Span(d) : d.cells[x] = Raw /\ ~(x \in (F + 1)..F)
    <3> TAKE x \in 1..Span(d)
    <3>1. ~(x \in (F + 1)..F) /\ F + Len(<<>>) = F
      BY <1>3, <1>4, <2>3
    <3> QED BY <2>2, <3>1
  <2> QED BY <2>1, <2>3, <2>4 DEF OnlyElements
<1> QED BY <1>5, <1>6, <1>7, <1>8, <1>9 DEF DequeIsSound

LEMMA InvIsSound == DequeInv => DequeIsSound
BY RegularIsSound, BorderIsSound DEF DequeInv

\* No call leaves the deque outside its blocks or its blocks outside the
\* controller; empty() and size() agree; the ends point into the blocks of the
\* first and the last element; between the ends, and only there, are elements.
THEOREM DequeIsSoundAlways ==
  ASSUME \A t \in Types : Tame(t)
  PROVE  DequeSpec => []DequeIsSound
<1> QED BY InvIsSound, DequeInvHolds, PTL

\* reserve_back keeps its promise: below the size that it has prepared for, no
\* emplace_back allocates a block.
THEOREM PromiseKept ==
  ASSUME \A t \in Types : Tame(t)
  PROVE  DequeSpec => DequeKeepsPromise
<1> DEFINE Step == \A v \in {Plain, Marked} : EmplaceBack(v) /\ Len(seq) < promise => d'.n = d.n
<1>1. DequeInv /\ [DequeNext]_dequeVars => [Step]_dequeVars
  <2>1. SUFFICES ASSUME DequeInv, NEW v \in Elements, EmplaceBack(v), Len(seq) < promise PROVE d'.n = d.n
    BY DEF Elements
  <2> DEFINE p == GrownBack(d)
             r == [Put(p, Place(p.b), <<v>>) EXCEPT !.b.i = @ + 1]
  <2>2. type \in Types /\ Kept(d, seq) /\ Prepared(d, seq, promise) /\ promise \in Nat
    <3>1. Regular
      <4>1. Len(<<>>) = 0 /\ ~(0 < 0)
        OBVIOUS
      <4> QED BY <2>1, <4>1 DEF DequeInv, AtBorder
    <3> QED BY <3>1 DEF Regular
  <2>3. Len(seq) \in Nat /\ d.n \in Nat /\ (d.n > 0 => Good(d, seq))
    BY <2>2, KeptIs
  <2>4. d.n > 0 /\ promise - Len(seq) <= Behind(d)
    BY <2>1, <2>2, <2>3 DEF Prepared
  <2>5. Behind(d) >= 1
    <3>1. Span(d) \in Nat /\ Place(d.b) \in Nat
      BY <2>2, <2>3, <2>4, GoodBlocks
    <3>2. Behind(d) \in Int
      BY <3>1 DEF Behind
    <3> QED BY <2>1, <2>2, <2>3, <2>4, <3>2
  <2>6. Open(p, seq) /\ p.n = d.n
    BY <2>2, <2>4, <2>5, GrowBackIs
  <2>7. d' = r \/ d' = p
    BY <2>1 DEF EmplaceBack, After, GrownBack
  <2> HIDE DEF p
  <2>8. r.n = p.n
    BY <2>1, <2>2, <2>6, PushBackIs
  <2> HIDE DEF r
  <2> QED BY <2>6, <2>7, <2>8
<1> QED BY <1>1, DequeInvHolds, PTL DEF DequeSpec, DequeKeepsPromise

=============================================================================
