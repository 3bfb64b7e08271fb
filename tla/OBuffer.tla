------------------------------- MODULE OBuffer -------------------------------
(***************************************************************************)
(* The output half of fast_io's basic_io_buffer: a put area of BufSize     *)
(* characters in front of a handle (file, pipe, socket) that may accept    *)
(* only part of a request and may fail at any point of one.                *)
(*                                                                         *)
(* The characters a program writes are numbered in the order it hands them *)
(* over, so that a lost, repeated or reordered character shows.  A call on *)
(* the handle is one step with its outcome: all of the request, or a       *)
(* proper prefix followed by an exception (ScatterWriteAll models the loop *)
(* behind that step).                                                      *)
(***************************************************************************)
EXTENDS Naturals, Sequences, FiniteSets, SequencesExt

CONSTANTS
  BufSize,     \* traits_type::output_buffer_size
  ShortGather, \* may a gathered write_some stop inside the buffered part?
  MaxReq,      \* bound: the longest range passed to one call
  MaxChars,    \* bound: characters the program writes in all
  MaxErrs,     \* bound: failures of the handle
  MaxOpens     \* bound: handles the stream is bound to, one after the other

ASSUME BufSizeAssumption == BufSize \in Nat \ {0}
ASSUME ShortGatherAssumption == ShortGather \in BOOLEAN
ASSUME BoundsAssumption ==
  /\ MaxReq \in Nat /\ MaxChars \in Nat /\ MaxErrs \in Nat /\ MaxOpens \in Nat

VARIABLES
  alloc,   \* buffer_begin # nullptr
  pend,    \* the characters in [buffer_begin, buffer_curr)
  dev,     \* what the current handle has received
  hstate,  \* "open", "closed" (no handle) or "dead" (destructor has run)
  next,    \* number of the next character the program writes
  base,    \* value of next when the current handle was opened
  acc,     \* history: the characters calls on this handle reported written
  errs,    \* history: failures of the handle so far
  lost,    \* history: the destructor swallowed a failure of its flush
  sealed   \* history: [acc, dev] of the handles closed or replaced

vars == <<alloc, pend, dev, hstate, next, base, acc, errs, lost, sealed>>

history == <<lost, sealed, base, hstate>>

Init ==
  /\ alloc = FALSE
  /\ pend = <<>>
  /\ dev = <<>>
  /\ hstate = "open"
  /\ next = 1
  /\ base = 1
  /\ acc = <<>>
  /\ errs = 0
  /\ lost = FALSE
  /\ sealed = {}

(***************************************************************************)
(* The pieces the operations are built from.                               *)
(***************************************************************************)

\* The program's next n characters.
Fresh(n) == [i \in 1..n |-> next + i - 1]

First(s, k) == SubSeq(s, 1, k)

\* A call may be made with a range of n characters.
CanWrite(n) ==
  /\ hstate = "open"
  /\ n \in 1..MaxReq
  /\ next + n <= MaxChars + 1

\* obuffer_remaining_size: an unallocated put area has no room.
Remaining == IF alloc THEN BufSize - Len(pend) ELSE 0

\* The call reports the first n characters of its range as written.
Accept(n) ==
  /\ acc' = acc \o Fresh(n)
  /\ next' = next + n

\* The call throws: whatever it was given is no longer the program's to
\* write again under the same number.
Reject(n) ==
  /\ errs < MaxErrs
  /\ errs' = errs + 1
  /\ next' = next + n
  /\ acc' = acc

\* The handle throws after it has taken some of the characters of s.
Breaks(s) == \E k \in 0..(Len(s) - 1) : dev' = dev \o First(s, k)

\* The range fits the put area and is copied there, an exact fit included.
PutInBuffer(n) ==
  /\ n <= Remaining
  /\ pend' = pend \o Fresh(n)
  /\ Accept(n)
  /\ UNCHANGED <<alloc, dev, errs>>

\* write_nullptr_case: the first short write allocates the put area.
AllocateAndPut(n) ==
  /\ ~alloc
  /\ n < BufSize
  /\ alloc' = TRUE
  /\ pend' = Fresh(n)
  /\ Accept(n)
  /\ UNCHANGED <<dev, errs>>

Overflows(n) == IF alloc THEN n > Remaining ELSE n >= BufSize

(***************************************************************************)
(* write_all: the put area and the new range go to the handle in one       *)
(* gathered write; with nothing allocated a long range goes there alone.   *)
(***************************************************************************)

\* Mutant: a long range goes straight to the handle, past the put area.
WriteAllBypass(n) ==
  /\ Overflows(n)
  /\ dev' = dev \o Fresh(n)
  /\ Accept(n)
  /\ UNCHANGED <<alloc, pend, errs>>

WriteAllThrough(n) ==
  /\ Overflows(n)
  /\ dev' = dev \o pend \o Fresh(n)
  /\ pend' = <<>>
  /\ Accept(n)
  /\ UNCHANGED <<alloc, errs>>

WriteAllThrows(n) ==
  /\ Overflows(n)
  /\ Breaks(pend \o Fresh(n))
  /\ Reject(n)
  /\ UNCHANGED <<alloc, pend>>

WriteAll(n) ==
  /\ CanWrite(n)
  /\ PutInBuffer(n) \/ AllocateAndPut(n) \/ WriteAllThrough(n) \/ WriteAllThrows(n)
  /\ UNCHANGED history

\* char_put: one character into the put area unless it is full or missing,
\* else a write_all of that character.
CharPut ==
  /\ CanWrite(1)
  /\ \/ Remaining # 0 /\ PutInBuffer(1)
     \/ /\ Remaining = 0
        /\ AllocateAndPut(1) \/ WriteAllThrough(1) \/ WriteAllThrows(1)
  /\ UNCHANGED history

(***************************************************************************)
(* write_some: one gathered attempt on {put area, new range}.  The handle  *)
(* says how many descriptors it consumed and how far it got in the next:   *)
(* all of both, part of the range, or not even the whole put area.         *)
(***************************************************************************)

WroteBoth(n) ==
  /\ dev' = dev \o pend \o Fresh(n)
  /\ pend' = <<>>
  /\ Accept(n)

WroteBuffer(n) ==
  \E k \in 0..(n - 1) :
    /\ Len(pend) + k > 0
    /\ dev' = dev \o pend \o Fresh(k)
    /\ pend' = <<>>
    /\ Accept(k)

\* What the code keeps when the handle took k < Len(pend) characters: it
\* copies the last k characters before buffer_curr to the front.
Kept(k) == SubSeq(pend, Len(pend) - k + 1, Len(pend))

WrotePartOfBuffer ==
  /\ ShortGather
  /\ \E k \in 1..(Len(pend) - 1) :
       /\ dev' = dev \o First(pend, k)
       /\ pend' = Kept(k)
  /\ UNCHANGED <<acc, next>>

WriteSomeThrough(n) ==
  /\ Overflows(n)
  /\ WroteBoth(n) \/ WroteBuffer(n) \/ WrotePartOfBuffer
  /\ UNCHANGED <<alloc, errs>>

\* Nothing is reported written when the attempt throws; a handle without a
\* gathered write may have taken a first part before it does.
WriteSomeThrows(n) == WriteAllThrows(n)

WriteSome(n) ==
  /\ CanWrite(n)
  /\ PutInBuffer(n) \/ AllocateAndPut(n) \/ WriteSomeThrough(n) \/ WriteSomeThrows(n)
  /\ UNCHANGED history

(***************************************************************************)
(* Flushing.  The pointers move only when the handle has taken everything. *)
(***************************************************************************)

FlushDone ==
  /\ dev' = dev \o pend
  /\ pend' = <<>>
  /\ UNCHANGED <<acc, next, errs>>

\* Mutant: the cursor is reset before the write that may throw.
FlushThrowsAfterReset ==
  /\ pend # <<>>
  /\ Breaks(pend)
  /\ Reject(0)
  /\ pend' = <<>>

FlushThrows ==
  /\ pend # <<>>
  /\ Breaks(pend)
  /\ Reject(0)
  /\ UNCHANGED pend

Flush ==
  /\ hstate = "open"
  /\ FlushDone \/ FlushThrows
  /\ UNCHANGED <<alloc, history>>

\* obuffer_minimum_size_flush_prepare: a formatter wants BufSize free places.
PrepareMinimum ==
  /\ hstate = "open"
  /\ \/ pend = <<>> /\ alloc' = TRUE /\ UNCHANGED <<pend, dev, acc, next, errs>>
     \/ pend # <<>> /\ (FlushDone \/ FlushThrows) /\ UNCHANGED alloc
  /\ UNCHANGED history

(***************************************************************************)
(* The life of the handle under the stream.                                *)
(***************************************************************************)

\* Mutant: close forgets to flush.
SealUnflushed(content) == sealed' = sealed \cup {[acc |-> acc, dev |-> dev]}

Seal(content) == sealed' = sealed \cup {[acc |-> acc, dev |-> content]}

\* close: flush, reset the cursors, close the handle.  The handle is gone
\* even when closing it throws.
Close ==
  /\ hstate = "open"
  /\ \/ /\ Seal(dev \o pend)
        /\ hstate' = "closed"
        /\ dev' = <<>> /\ pend' = <<>> /\ acc' = <<>>
        /\ errs' \in {errs} \cup {e \in {errs + 1} : e <= MaxErrs}
        /\ UNCHANGED next
     \/ FlushThrows /\ UNCHANGED <<hstate, sealed>>
  /\ UNCHANGED <<alloc, base, lost>>

\* Mutant: reopen swaps the handle first and leaves the put area for it.
ReopenUnflushed ==
  /\ hstate \in {"open", "closed"}
  /\ Cardinality(sealed) < MaxOpens
  /\ IF hstate = "open" THEN Seal(dev) ELSE UNCHANGED sealed
  /\ hstate' = "open"
  /\ dev' = <<>> /\ acc' = <<>>
  /\ base' = next
  /\ UNCHANGED <<alloc, pend, next, errs, lost>>

\* reopen: as close, but the new handle is opened before the old one goes.
Reopen ==
  /\ hstate \in {"open", "closed"}
  /\ Cardinality(sealed) < MaxOpens
  /\ \/ /\ IF hstate = "open" THEN Seal(dev \o pend) ELSE UNCHANGED sealed
        /\ hstate' = "open"
        /\ dev' = <<>> /\ pend' = <<>> /\ acc' = <<>>
        /\ base' = next
        /\ UNCHANGED <<next, errs>>
     \/ \* the flush succeeds, opening the new handle throws
        /\ dev' = dev \o pend
        /\ pend' = <<>>
        /\ Reject(0)
        /\ UNCHANGED <<hstate, base, sealed>>
     \/ FlushThrows /\ UNCHANGED <<hstate, base, sealed>>
  /\ UNCHANGED <<alloc, lost>>

\* The destructor flushes, swallows a failure and frees the put area.
Destroy ==
  /\ hstate # "dead"
  /\ \/ dev' = dev \o pend /\ UNCHANGED <<errs, lost>>
     \/ /\ pend # <<>>
        /\ Breaks(pend)
        /\ errs < MaxErrs /\ errs' = errs + 1
        /\ lost' = TRUE
  /\ pend' = <<>>
  /\ alloc' = FALSE
  /\ hstate' = "dead"
  /\ UNCHANGED <<acc, next, base, sealed>>

Next ==
  \/ \E n \in 1..MaxReq : WriteAll(n) \/ WriteSome(n)
  \/ CharPut
  \/ Flush
  \/ PrepareMinimum
  \/ Close
  \/ Reopen
  \/ Destroy

Spec == Init /\ [][Next]_vars

-----------------------------------------------------------------------------
(***************************************************************************)
(* Correctness.                                                            *)
(***************************************************************************)

\* The put area is never overrun and exists whenever it holds something.
TypeOK ==
  /\ alloc \in BOOLEAN
  /\ pend \in Seq(Nat)
  /\ Len(pend) <= IF alloc THEN BufSize ELSE 0
  /\ dev \in Seq(Nat)
  /\ acc \in Seq(Nat)
  /\ hstate \in {"open", "closed", "dead"}
  /\ next \in Nat /\ base \in Nat
  /\ errs \in Nat
  /\ lost \in BOOLEAN
  /\ \A e \in sealed : e.acc \in Seq(Nat) /\ e.dev \in Seq(Nat)

\* Whatever a call reported written is in the handle or still in the put
\* area, whichever calls failed in between; only a destructor whose flush
\* failed may lose it (destroy_basic_io_buffer swallows the exception).
NoLoss == ~lost => ToSet(acc) \subseteq ToSet(dev) \cup ToSet(pend)

\* A handle that was closed or replaced had received everything the stream
\* accepted for it: close and reopen flush before they let go of the handle.
SealedNoLoss == \A e \in sealed : ToSet(e.acc) \subseteq ToSet(e.dev)

\* Until the handle fails, it and the put area together hold exactly the
\* characters reported written, once each and in order.
InOrder == errs = 0 => dev \o pend = acc

\* Failures can make the stream send characters again, never send them for
\* the first time out of order: a character not seen before is later than
\* all before it.
ResendInOrder ==
  LET all == dev \o pend
  IN  \A i \in DOMAIN all :
        \/ \E j \in 1..(i - 1) : all[j] = all[i]
        \/ \A j \in 1..(i - 1) : all[j] < all[i]

\* No character written for one handle turns up in the next one: reopen
\* leaves nothing behind in the put area.
NoStray == ToSet(dev) \cup ToSet(pend) \subseteq base..(next - 1)

\* The buffered stream is a byte sink (see ByteSink).
Sink == INSTANCE ByteSink WITH out <- dev, queue <- pend,
                               sealed <- {e.dev : e \in sealed},
                               gone <- (hstate = "dead")
SinkSpec == Sink!Spec
=============================================================================
