-------------------------------- MODULE Deque --------------------------------
(***************************************************************************)
(* The double ended queue.  Blocks of BlockSize elements hang on an array  *)
(* of pointers, the controller; the reserved blocks are a run inside it,   *)
(* with the elements somewhere in the run and free blocks on both sides.   *)
(* An end that runs out of room borrows free blocks of the other end,      *)
(* allocates blocks, shifts the run inside the controller or moves it to a *)
(* greater one.                                                            *)
(*                                                                         *)
(* A position in the reserved blocks is [c, i]: the block, counted from    *)
(* the first reserved one, and the place in it.  The end of one block and  *)
(* the start of the next one are different positions, as they are          *)
(* different pointers.                                                     *)
(***************************************************************************)
EXTENDS Integers, Sequences, SequencesExt

CONSTANT
  Types  \* the element types and allocators, and what is done with the queue

\* block: elements of a block; slack: how many slots allocate_at_least gives
\* beyond the request; unit: bytes of an element; relocatable: whether the
\* element type is trivially so; throws: whether its constructors may; ops:
\* the operations that are called; counts: how many elements a call inserts;
\* most: bound, elements.  deque_block_size is a power of two and at least 16.
ASSUME DequeAssumption ==
  \A t \in Types :
    /\ t.block \in Nat /\ t.block >= 2 /\ t.slack \in Nat /\ t.unit \in Nat \ {0}
    /\ t.relocatable \in BOOLEAN /\ t.throws \in BOOLEAN
    /\ t.counts \subseteq Nat \ {0} /\ t.most \in Nat

VARIABLES
  type,     \* which of them; it never changes
  d,        \* the controller and the blocks
  seq,      \* history: the elements there should be
  promise   \* history: the size reserve_back has prepared for

dequeVars == <<type, d, seq, promise>>

BlockSize == type.block
Slack == type.slack
Unit == type.unit

\* A place without an element; of the elements at most one is marked, and it
\* stands for any of them.
Raw == "raw"
Plain == "plain"
Marked == "marked"

Null == [cap |-> 0, rs |-> 0, n |-> 0, cells |-> <<>>,
         f |-> [c |-> 0, i |-> 0], b |-> [c |-> 0, i |-> 0]]

DequeInit == type \in Types /\ d = Null /\ seq = <<>> /\ promise = 0

-----------------------------------------------------------------------------
(***************************************************************************)
(* Positions and elements.                                                 *)
(***************************************************************************)
Larger(x, y) == IF x < y THEN y ELSE x
Half == BlockSize \div 2
RawBlocks(k) == [x \in 1..(k * BlockSize) |-> Raw]

Place(p) == p.c * BlockSize + p.i

\* deque_add_assign_unsigned_impl, deque_sub_assign_unsigned_impl.
At(place) == [c |-> place \div BlockSize, i |-> place % BlockSize]

\* deque_iter_difference_unsigned_common, empty.
Size(q) == Place(q.b) - Place(q.f)
Empty(q) == q.f = q.b

\* end_common.
End(q) == IF q.n > 0 /\ q.b.i = BlockSize THEN [c |-> q.b.c + 1, i |-> 0] ELSE q.b

\* The elements from `place` on become es, and the others stay.
Put(q, place, es) ==
  [q EXCEPT !.cells = [x \in DOMAIN @ |->
     IF x \in (place + 1)..(place + Len(es)) THEN es[x - place] ELSE @[x]]]

Contents(q) == SubSeq(q.cells, Place(q.f) + 1, Place(q.b))

\* The queue with the elements es from `place` on, and no other element.
Arrange(q, place, es) ==
  Put([q EXCEPT !.cells = [x \in DOMAIN @ |-> Raw]], place, es)

-----------------------------------------------------------------------------
(***************************************************************************)
(* Blocks.                                                                 *)
(***************************************************************************)
\* deque_allocate_on_empty_common_with_n_impl and
\* deque_allocate_init_blocks_dezeroing_impl: k blocks in the middle.
Allocate(k, f, b) ==
  [cap |-> k + Slack, rs |-> (k + Slack) \div 2 - k \div 2, n |-> k,
   cells |-> RawBlocks(k), f |-> f, b |-> b]

\* deque_allocate_empty_single_block_impl.
SingleBlock == Allocate(1, [c |-> 0, i |-> Half], [c |-> 0, i |-> Half])

\* deque_grow_to_new_blocks_count_direction_impl, deque_new_blocks_count_compute_impl.
GrowTo(q, least, atBack) ==
  LET used == q.b.c - q.f.c + 1
      opposite == IF atBack THEN q.b.c + 1 ELSE q.n - q.f.c
      need == least + Larger(opposite, 2 * used) + 1
      cap == IF q.cap + 1 < need THEN need + Slack - 1 ELSE q.cap
  IN  [q EXCEPT !.cap = cap, !.rs = IF atBack THEN cap - least - q.f.c ELSE least - q.b.c]

\* deque_rebalance_or_grow_insertation_direction_impl.
Rebalance(q, extra, atBack) ==
  LET room == IF atBack THEN q.cap - (q.rs + q.f.c) ELSE q.rs + q.b.c + 1
  IN  GrowTo(q, Larger(2 * room, q.b.c - q.f.c + 1 + extra), atBack)

\* Mutant: the front's free blocks are not taken off the front.
BorrowForgets(q, k, new) ==
  [q EXCEPT !.n = @ + new, !.rs = @ + k,
            !.cells = SubSeq(@, k * BlockSize + 1, Len(@)) \o SubSeq(@, 1, k * BlockSize)
                        \o RawBlocks(new)]

\* k free blocks of the front and `new` ones go behind the last block.
BorrowBack(q, k, new) ==
  [q EXCEPT !.n = @ + new, !.rs = @ + k, !.f.c = @ - k, !.b.c = @ - k,
            !.cells = SubSeq(@, k * BlockSize + 1, Len(@)) \o SubSeq(@, 1, k * BlockSize)
                        \o RawBlocks(new)]

\* k free blocks of the back and `new` ones go before the first block.
BorrowFront(q, k, new) ==
  [q EXCEPT !.n = @ + new, !.rs = @ - k - new, !.f.c = @ + k + new, !.b.c = @ + k + new,
            !.cells = RawBlocks(new) \o SubSeq(@, Len(@) - k * BlockSize + 1, Len(@))
                        \o SubSeq(@, 1, Len(@) - k * BlockSize)]

\* deque_reserve_back_blocks_impl_none_empty.
ReserveBackBlocks(q, nb) ==
  LET moved == IF q.cap - (q.rs + q.b.c) <= nb THEN Rebalance(q, nb, TRUE) ELSE q
      need == nb - (q.n - q.b.c - 1)
      k == IF need < q.f.c THEN need ELSE q.f.c
      r == IF q.n - q.b.c <= nb THEN BorrowBack(moved, k, need - k) ELSE q
  IN  IF r.b.c = r.f.c /\ r.f.i = BlockSize
      THEN [r EXCEPT !.f = [c |-> r.f.c + 1, i |-> 0]] ELSE r

\* deque_reserve_front_blocks_none_empty_impl.  Fewer free blocks at the back
\* than asked for, but more than needed: all that was asked for is taken.
ReserveFrontBlocks(q, nb) ==
  LET moved == IF q.rs + q.f.c < nb THEN Rebalance(q, nb, FALSE) ELSE q
      need == nb - q.f.c
      free == q.n - q.b.c - 1
  IN  IF q.f.c >= nb THEN q
      ELSE IF need < free THEN BorrowFront(moved, nb, 0)
      ELSE BorrowFront(moved, free, need - free)

RoomBack(q) == IF q.n = 0 THEN 0 ELSE BlockSize - q.b.i

\* deque_reserve_back_spaces_impl, deque_reserve_back_blocks_impl.
ReserveBackSpaces(q, x) ==
  LET nb == (x - RoomBack(q)) \div BlockSize + 1
  IN  IF x <= RoomBack(q) THEN q
      ELSE IF q.n = 0 THEN Allocate(nb, [c |-> 0, i |-> 1], [c |-> 0, i |-> 1])
      ELSE ReserveBackBlocks(q, nb)

\* deque_reserve_front_spaces_impl, deque_reserve_front_blocks_impl; room is
\* counted in bytes when it comes through the untyped controller.
ReserveFrontSpaces(q, x, unit) ==
  LET nb == (x - q.f.i * unit) \div BlockSize + 1
      last == [c |-> nb - 1, i |-> BlockSize - 1]
  IN  IF x <= q.f.i * unit THEN q
      ELSE IF q.n = 0 THEN Allocate(nb, last, last)
      ELSE ReserveFrontBlocks(q, nb)

\* deque_grow_back_common_impl.
GrowBack(q) ==
  LET r == ReserveBackBlocks(q, 1)
  IN  IF q.n = 0 THEN SingleBlock ELSE [r EXCEPT !.b = [c |-> r.b.c + 1, i |-> 0]]

\* deque_grow_front_common_impl.
GrowFront(q) ==
  LET r == ReserveFrontBlocks(q, 1)
  IN  IF q.n = 0 THEN SingleBlock ELSE [r EXCEPT !.f = [c |-> r.f.c - 1, i |-> BlockSize]]

\* set_newed_common.
SetEnd(q, e) ==
  IF e.i > 0 THEN [q EXCEPT !.b = e]
  ELSE IF e.c = q.f.c THEN [q EXCEPT !.f.i = Half, !.b = [c |-> e.c, i |-> Half]]
  ELSE [q EXCEPT !.b = [c |-> e.c - 1, i |-> BlockSize]]

-----------------------------------------------------------------------------
(***************************************************************************)
(* Operations.  After(q, s) is their common end.                           *)
(***************************************************************************)
\* What a call inserts: n elements, one of which may be the marked one.
Fresh(n) ==
  { [x \in 1..n |-> IF x = m THEN Marked ELSE Plain] :
      m \in IF Contains(seq, Marked) THEN {0} ELSE 0..n }

After(q, s) ==
  d' = q /\ seq' = s /\ Len(s) <= type.most /\ UNCHANGED type

NoPromise == promise' = 0

EmplaceBack(v) ==
  LET q == IF d.b.i = (IF d.n = 0 THEN 0 ELSE BlockSize) THEN GrowBack(d) ELSE d
  IN  /\ \/ After([Put(q, Place(q.b), <<v>>) EXCEPT !.b.i = @ + 1], Append(seq, v))
         \/ type.throws /\ After(q, seq)
      /\ UNCHANGED promise

\* emplace_front_guard: a new block goes back to the free ones.
Undone(q) ==
  IF q.f.i = BlockSize /\ q.f.c # q.b.c THEN [q EXCEPT !.f = [c |-> q.f.c + 1, i |-> 0]] ELSE q

EmplaceFront(v) ==
  LET q == IF d.f.i = 0 THEN GrowFront(d) ELSE d
  IN  /\ \/ After([Put(q, Place(q.f) - 1, <<v>>) EXCEPT !.f.i = @ - 1], <<v>> \o seq)
         \/ type.throws /\ After(Undone(q), seq)
      /\ NoPromise

\* back_backspace.
Backspace(q) ==
  IF q.b.i > 0 THEN q
  ELSE IF q.b.c = q.f.c THEN [q EXCEPT !.f.i = Half, !.b.i = Half]
  ELSE [q EXCEPT !.b = [c |-> q.b.c - 1, i |-> BlockSize]]

PopBack ==
  /\ ~Empty(d)
  /\ After(Backspace([Put(d, Place(d.b) - 1, <<Raw>>) EXCEPT !.b.i = @ - 1]), Front(seq))
  /\ NoPromise

\* front_backspace.
Forespace(q) ==
  IF q.f.i < BlockSize THEN q
  ELSE IF q.b.c = q.f.c THEN [q EXCEPT !.f.i = Half, !.b.i = Half]
  ELSE [q EXCEPT !.f = [c |-> q.f.c + 1, i |-> 0]]

PopFront ==
  /\ ~Empty(d)
  /\ After(Forespace([Put(d, Place(d.f), <<Raw>>) EXCEPT !.f.i = @ + 1]), Tail(seq))
  /\ NoPromise

\* deque_clear_common_impl.
Cleared(q) ==
  LET mid == [c |-> q.n \div 2, i |-> Half]
  IN  IF q.n = 0 THEN q ELSE [Arrange(q, 0, <<>>) EXCEPT !.f = mid, !.b = mid]

Clear == After(Cleared(d), <<>>) /\ NoPromise
ClearDestroy == After(Null, <<>>) /\ NoPromise

Inserted(s, pos, es) == SubSeq(s, 1, pos) \o es \o SubSeq(s, pos + 1, Len(s))
Without(s, i, j) == SubSeq(s, 1, i) \o SubSeq(s, j + 1, Len(s))

\* insert_n_front_common_impl, then the elements are built.
InsertFront(pos, es) ==
  LET q == ReserveFrontSpaces(d, Len(es), 1)
      first == Place(q.f) - Len(es)
  IN  [Arrange(q, first, Inserted(Contents(q), pos, es)) EXCEPT !.f = At(first)]

\* insert_n_back_common_impl, then the elements are built.
InsertBack(pos, es) ==
  LET q == ReserveBackSpaces(d, Len(es))
      end == At(Place(End(q)) + Len(es))
  IN  [Arrange(q, Place(q.f), Inserted(Contents(q), pos, es))
         EXCEPT !.b = IF end.i = 0 THEN [c |-> end.c - 1, i |-> BlockSize] ELSE end]

\* append_range, prepend_range, insert_range and insert of n elements.
AppendRange(es) == After(InsertBack(Len(seq), es), seq \o es) /\ NoPromise
PrependRange(es) == After(InsertFront(0, es), es \o seq) /\ NoPromise

\* Mutant: at the front the elements are built backwards.
InsertBackwards(pos, es) ==
  IF pos < Size(d) \div 2 THEN InsertFront(pos, Reverse(es)) ELSE InsertBack(pos, es)

InsertNear(pos, es) ==
  IF pos < Size(d) \div 2 THEN InsertFront(pos, es) ELSE InsertBack(pos, es)

InsertRange(pos, es) == After(InsertNear(pos, es), Inserted(seq, pos, es)) /\ NoPromise

\* emplace_index.
EmplaceIndex(pos, v) ==
  LET q == IF pos = Size(d) /\ RoomBack(d) > 0
             THEN [Put(d, Place(d.b), <<v>>) EXCEPT !.b.i = @ + 1]
           ELSE IF pos = 0 /\ pos < Size(d) /\ d.f.i > 0
             THEN [Put(d, Place(d.f) - 1, <<v>>) EXCEPT !.f.i = @ - 1]
           ELSE InsertNear(pos, <<v>>)
  IN  After(q, Inserted(seq, pos, <<v>>)) /\ NoPromise

\* erase_no_destroy_common_impl, and deque_erase_common_trivial_impl for one
\* element of a relocatable type.
Erased(i, j, moveLeft, trivial) ==
  LET rest == Without(Contents(d), i, j)
      first == Place(d.f) + (j - i)
      left == [Arrange(d, first, rest)
                 EXCEPT !.f = IF j = Size(d) /\ ~trivial THEN d.b ELSE At(first)]
      right == Arrange(d, Place(d.f), rest)
  IN  IF ~moveLeft THEN SetEnd(right, At(Place(d.f) + Len(rest)))
      ELSE IF trivial /\ rest = <<>> /\ d.b.i = BlockSize
           THEN [left EXCEPT !.f = [c |-> d.b.c, i |-> Half], !.b.i = Half]
      ELSE SetEnd(left, d.b)

\* erase of a range, from either end.
EraseRange(i, j) ==
  /\ After(Erased(i, j, i < Size(d) - j, FALSE), Without(seq, i, j)) /\ NoPromise

\* erase of one element.
EraseOne(i) ==
  /\ After(Erased(i, i + 1, i < Size(d) - i, type.relocatable), Without(seq, i, i + 1))
  /\ NoPromise

\* reserve_back; nothing happens below the size.
ReserveBack(q, count) ==
  IF count <= Size(q) THEN q ELSE ReserveBackSpaces(q, count - Size(q))

\* Mutant: one element less is prepared for.
ReserveShort(count) ==
  /\ After(ReserveBack(d, count - 1), seq)
  /\ promise' = Larger(count, promise)

Reserve(count) ==
  /\ After(ReserveBack(d, count), seq)
  /\ promise' = Larger(count, promise)

ReserveFront(count) ==
  /\ After(IF count <= Size(d) THEN d ELSE ReserveFrontSpaces(d, count - Size(d), Unit), seq)
  /\ NoPromise

\* resize_impl.
Resize(count) ==
  LET q == ReserveBack(d, count)
      more == [x \in 1..(count - Len(seq)) |-> Plain]
  IN  /\ count # Size(d)
      /\ IF count < Size(d)
         THEN After(SetEnd(Arrange(d, Place(d.f), SubSeq(Contents(d), 1, count)),
                           At(Place(End(d)) - (Size(d) - count))),
                    SubSeq(seq, 1, count))
         ELSE After(SetEnd(Put(q, Place(End(q)), more), At(Place(End(q)) + Len(more))),
                    seq \o more)
      /\ NoPromise

\* assign: the queue is cleared and filled.
Assign(es) ==
  LET q == ReserveBack(Cleared(d), Len(es))
  IN  After(SetEnd(Put(q, Place(q.f), es), At(Place(q.f) + Len(es))), es) /\ NoPromise

\* The blocks that hold elements, on a controller of their number.
Tight(q) ==
  LET used == q.b.c - q.f.c + 1
  IN  [cap |-> used + Slack, rs |-> 0, n |-> used,
       cells |-> SubSeq(q.cells, q.f.c * BlockSize + 1, (q.b.c + 1) * BlockSize),
       f |-> [c |-> 0, i |-> q.f.i], b |-> [c |-> used - 1, i |-> q.b.i]]

\* deque_shrink_to_fit_common.
ShrinkToFit ==
  LET used == d.b.c - d.f.c + 1
  IN  /\ After(IF Empty(d) THEN Null ELSE IF d.n = used /\ d.cap <= used THEN d ELSE Tight(d), seq)
      /\ NoPromise

-----------------------------------------------------------------------------
\* copy_construct_impl and deque_clone_trivial_impl.
Copied ==
  LET used == d.b.c - d.f.c + 1
      front == [c |-> 0, i |-> IF used = 1 THEN 0 ELSE d.f.i]
      back == [c |-> used - 1, i |-> IF used = 1 THEN Size(d) ELSE d.b.i]
      q == Allocate(used, front, back)
  IN  IF Empty(d) THEN Null ELSE Arrange(q, Place(front), Contents(d))

\* operator=: a copy takes the place of the original.
Copy == After(Copied, seq) /\ NoPromise

-----------------------------------------------------------------------------
\* The queue has not left its blocks, and its last element is in the block its
\* end is in: of a queue that is beyond itself nothing more is said.
Sound(q) ==
  /\ 0 <= q.rs /\ q.rs + q.n <= q.cap
  /\ q.n > 0 => 0 <= q.f.c /\ q.b.c < q.n /\ Place(q.f) <= Place(q.b)

AtHand(q) == Size(q) > 0 => q.b.i > 0 /\ q.f.i < BlockSize

Inside(n) == 0..(Size(d) - n)

AnyBack == \/ \E v \in Fresh(1) : EmplaceBack(v[1])
           \/ PopBack

AnyFront == \/ \E v \in Fresh(1) : EmplaceFront(v[1])
            \/ PopFront

AnyEmplace == \E v \in Fresh(1), pos \in Inside(0) : EmplaceIndex(pos, v[1])
AnyAppend == \E n \in type.counts : \E es \in Fresh(n) : AppendRange(es)
AnyPrepend == \E n \in type.counts : \E es \in Fresh(n) : PrependRange(es)

AnyInsert == \E n \in type.counts, pos \in Inside(0) : \E es \in Fresh(n) : InsertRange(pos, es)

AnyErase == \/ \E i \in Inside(1) : EraseOne(i)
            \/ \E i, j \in Inside(0) : i < j /\ EraseRange(i, j)

AnyReserve == \E n \in type.counts : Reserve(n)
AnyReserveFront == \E n \in type.counts : ReserveFront(n)
AnyResize == \E n \in type.counts \union {0} : Resize(n)
AnyAssign == \E n \in type.counts : \E es \in Fresh(n) : Assign(es)

DequeNext ==
  /\ Sound(d) /\ AtHand(d)
  /\ \/ "back" \in type.ops /\ AnyBack
     \/ "front" \in type.ops /\ AnyFront
     \/ "clear" \in type.ops /\ (Clear \/ ClearDestroy \/ ShrinkToFit)
     \/ "emplace" \in type.ops /\ AnyEmplace
     \/ "append" \in type.ops /\ AnyAppend
     \/ "prepend" \in type.ops /\ AnyPrepend
     \/ "insert" \in type.ops /\ AnyInsert
     \/ "erase" \in type.ops /\ AnyErase
     \/ "reserve" \in type.ops /\ AnyReserve
     \/ "reserve_front" \in type.ops /\ AnyReserveFront
     \/ "resize" \in type.ops /\ (AnyResize \/ AnyAssign)
     \/ "copy" \in type.ops /\ Copy

DequeSpec == DequeInit /\ [][DequeNext]_dequeVars

-----------------------------------------------------------------------------
\* The queue is in its controller, its elements in its blocks; the marked
\* element is there at most once.
DequeTypeOK ==
  /\ type \in Types
  /\ d \in [cap : Nat, rs : Nat, n : Nat, cells : Seq({Raw, Plain, Marked}),
            f : [c : Nat, i : 0..BlockSize], b : [c : Nat, i : 0..BlockSize]]
  /\ Len(d.cells) = d.n * BlockSize
  /\ seq \in Seq({Plain, Marked}) /\ Len(seq) <= type.most
  /\ promise \in Nat

\* What no finding is about: elements at the front come by fewer than a
\* block; one that cannot be relocated, erased when it is alone, may leave both
\* ends behind its block, where reserve_back takes them apart; constructors
\* that throw at the back leave the end of a block for that of its last element.
Tame(t) ==
  /\ t.ops \cap {"prepend", "insert", "reserve_front"} # {} => \A n \in t.counts : n < t.block
  /\ t.relocatable \/ ~({"erase", "reserve"} \subseteq t.ops)
  /\ ~t.throws \/ "back" \notin t.ops

\* Whatever was borrowed, shifted and moved, the queue holds the elements a
\* sequence would hold after the same calls, in their order.
DequeHolds == Contents(d) = seq

\* No call leaves the queue outside its blocks or the reserved blocks outside
\* the controller.
StaysInside == Sound(d)

\* empty() compares two pointers, size() counts blocks: they agree.
EmptyAgrees == Empty(d) <=> seq = <<>>

\* back(), pop_back(), front() and pop_front() look into the block that back and
\* front point to: the last and the first element are in it.
EndsAtHand == AtHand(d)

\* An element is destroyed once: between front and back every place holds one,
\* and no place outside does.
OnlyElements ==
  \A x \in DOMAIN d.cells : d.cells[x] # Raw <=> x \in (Place(d.f) + 1)..Place(d.b)

DequeIsSound == DequeTypeOK /\ StaysInside /\ EmptyAgrees /\ EndsAtHand /\ OnlyElements

\* reserve_back keeps its promise: nothing is allocated below it.
DequeKeepsPromise ==
  [][\A v \in {Plain, Marked} : EmplaceBack(v) /\ Len(seq) < promise => d'.n = d.n]_dequeVars

=============================================================================
