------------------------------- MODULE IBuffer -------------------------------
(***************************************************************************)
(* The input half of fast_io's basic_io_buffer: a get area behind a handle *)
(* that delivers what has arrived in pieces of any size, may fail, and     *)
(* answers "nothing" at the end of its data, which need not be the end for *)
(* good (a growing file, a terminal).                                      *)
(*                                                                         *)
(* Bytes are numbered from 0 in the order the handle delivers them, and a  *)
(* character is named by the number of its first byte.  With characters of *)
(* one byte the two are the same.                                          *)
(***************************************************************************)
EXTENDS Descriptors, SequencesExt

CONSTANTS
  InBytes,   \* the size of the get area in bytes
  Widths,    \* sizes a character may have
  MaxToken,  \* bound: the longest range or token asked for
  MaxBytes,  \* bound: bytes that arrive at the handle
  MaxFails,  \* bound: failures of the handle
  MaxRebinds \* bound: handles the stream is bound to, one after the other

ASSUME InAssumption ==
  /\ InBytes \in Nat /\ Widths \subseteq 1..InBytes
  /\ MaxToken \in Nat /\ MaxBytes \in Nat /\ MaxFails \in Nat /\ MaxRebinds \in Nat

VARIABLES
  width,   \* sizeof(char_type)
  chunk,   \* the characters in [buffer_begin, buffer_end)
  curr,    \* buffer_curr - buffer_begin
  rd,      \* bytes taken off the handle
  avail,   \* bytes that have arrived at the handle
  op,      \* the call in progress, see Idle, Descend and ScanStart
  used,    \* history: the characters handed to the program, in order
  eof,     \* history: the call that just returned met the end of the data
  fails,   \* history: failures of the handle
  opens,   \* history: rebindings of the stream
  dropped  \* history: a reopen that failed threw buffered input away

inVars == <<width, chunk, curr, rd, avail, op, used, eof, fails, opens, dropped>>
binding == <<width, opens, dropped>>

Idle == [kind |-> "idle", need |-> 0, from |-> 0, begin |-> 0, list |-> <<0>>, at |-> 1]

InInit ==
  /\ width \in Widths
  /\ chunk = <<>> /\ curr = 0
  /\ rd = 0 /\ avail = 0
  /\ op = Idle
  /\ used = <<>>
  /\ eof = FALSE /\ fails = 0 /\ opens = 0
  /\ dropped = FALSE

\* traits_type::input_buffer_size, io_default_buffer_size of the char_type.
InSize == InBytes \div width

\* ibuffer_remaining_size and the characters it counts.
Rest == SubSeq(chunk, curr + 1, Len(chunk))
Left == Len(chunk) - curr
Least(a, b) == IF a < b THEN a ELSE b

-----------------------------------------------------------------------------
(***************************************************************************)
(* The handle.                                                             *)
(***************************************************************************)

\* Data arrives, at any time, also within a call.
Arrive ==
  /\ avail < MaxBytes
  /\ avail' = avail + 1
  /\ eof' = FALSE
  /\ UNCHANGED <<chunk, curr, rd, op, used, fails, binding>>

\* What one read of at most `room` bytes may return.
Delivers(room) ==
  IF avail = rd THEN {0} ELSE 1..Least(room, avail - rd)

\* The whole characters among the next k bytes.
Chars(k) == [i \in 1..(k \div width) |-> rd + (i - 1) * width]

Fails == fails < MaxFails /\ fails' = fails + 1

-----------------------------------------------------------------------------
(***************************************************************************)
(* read_some_underflow: hand over what is left in the get area, then read  *)
(* once into {rest of the range, get area}.                                *)
(***************************************************************************)

\* Mutant: the first descriptor still has the length of the whole range.
UnderflowWholeRange(n, k) ==
  LET new == Chars(k)
      here == Least(Len(new), n - Left)
  IN  /\ k \in Delivers((n + InSize) * width)
      /\ used' = used \o Rest \o SubSeq(new, 1, here)
      /\ chunk' = SubSeq(new, here + 1, Len(new))
      /\ curr' = 0
      /\ rd' = rd + k

\* Mutant: what is left of the get area is forgotten.
UnderflowDropsRest(n, k) ==
  LET new == Chars(k)
      here == Least(Len(new), n - Left)
  IN  /\ k \in Delivers((n - Left + InSize) * width)
      /\ used' = used \o SubSeq(new, 1, here)
      /\ chunk' = SubSeq(new, here + 1, Len(new))
      /\ curr' = 0
      /\ rd' = rd + k

Underflow(n, k) ==
  LET new == Chars(k)
      here == Least(Len(new), n - Left)
  IN  /\ k \in Delivers((n - Left + InSize) * width)
      /\ used' = used \o Rest \o SubSeq(new, 1, here)
      /\ chunk' = SubSeq(new, here + 1, Len(new))
      /\ curr' = 0
      /\ rd' = rd + k

\* The range is in the get area already.
FromBuffer(n) ==
  /\ n <= Left
  /\ used' = used \o SubSeq(Rest, 1, n)
  /\ curr' = curr + n
  /\ UNCHANGED <<chunk, rd>>

\* read_some.  A failed read leaves the get area as it was: the characters
\* already copied to the caller come again with the next call.
ReadSome(n) ==
  /\ op = Idle
  /\ \/ FromBuffer(n) /\ UNCHANGED fails
     \/ /\ n > Left
        /\ \E k \in 0..((n + InSize) * width) : Underflow(n, k)
        /\ UNCHANGED fails
     \/ n > Left /\ Fails /\ UNCHANGED <<chunk, curr, rd, used>>
  /\ eof' = (fails' = fails /\ used' = used)
  /\ UNCHANGED <<avail, op, binding>>

(***************************************************************************)
(* read_all, scatter_read_all and scatter_read_some: calls of several      *)
(* rounds.  The first is the second with one descriptor.  op.list and      *)
(* op.at are the descriptors and the one in turn, op.need what it lacks.   *)
(***************************************************************************)

Scatters == {<<0, a, a + b>> : a, b \in 0..MaxToken}

\* On to descriptor i; behind the last one the call is over.
Descend(o, i) ==
  IF i = Len(o.list) THEN Idle
  ELSE [o EXCEPT !.at = i, !.need = o.list[i + 1] - o.list[i]]

\* The descriptors that the get area covers are filled from it at once.
Start(kind, e) ==
  /\ op = Idle
  /\ LET i == Position(e, 1, Len(e), Left)
     IN  /\ FromBuffer(e[i])
         /\ op' = Descend([Idle EXCEPT !.kind = kind, !.from = Len(used), !.list = e], i)
  /\ eof' = FALSE
  /\ UNCHANGED <<avail, fails, binding>>

\* Mutant: no progress is no reason to stop.
AllOutcomeRetries(progress) ==
  /\ op' = IF progress = op.need THEN Descend(op, op.at + 1) ELSE [op EXCEPT !.need = @ - progress]
  /\ eof' = FALSE

\* A round of read_all that makes no progress throws end_of_file.
AllOutcome(progress) ==
  /\ op' = CASE progress = op.need -> Descend(op, op.at + 1)
             [] progress = 0 /\ op.need > 0 -> Idle
             [] OTHER -> [op EXCEPT !.need = @ - progress]
  /\ eof' = (progress = 0 /\ op.need > 0)

\* scatter_read_some returns with the first descriptor that is not filled; a
\* status of nothing is how the end is told.
SomeOutcome(progress) ==
  /\ op' = IF progress = op.need THEN Descend(op, op.at + 1) ELSE Idle
  /\ eof' = (progress # op.need /\ Len(used') = op.from)

\* One round.  A read that was not filled leaves the get area empty, so the
\* copy the code tries between two rounds never finds anything.
Round ==
  /\ op.kind \in {"all", "some"}
  /\ \/ /\ \/ FromBuffer(op.need)
           \/ /\ op.need > Left
              /\ \E k \in 0..((op.need + InSize) * width) : Underflow(op.need, k)
        /\ LET progress == Len(used') - Len(used)
           IN  IF op.kind = "all" THEN AllOutcome(progress) ELSE SomeOutcome(progress)
        /\ UNCHANGED fails
     \/ /\ op.need > Left /\ Fails
        /\ op' = Idle /\ eof' = FALSE /\ UNCHANGED <<chunk, curr, rd, used>>
  /\ UNCHANGED <<avail, binding>>

(***************************************************************************)
(* A context scanner: it parses a token of `need` characters straight from *)
(* the get area and refills it through ibuffer_underflow.  op.begin is the *)
(* active_chunk_begin, op.from the place of the token in the input.        *)
(***************************************************************************)

ScanStart(n) ==
  /\ op = Idle
  /\ op' = [Idle EXCEPT !.kind = "scan", !.need = n, !.from = Len(used), !.begin = curr]
  /\ eof' = FALSE
  /\ UNCHANGED <<chunk, curr, rd, avail, used, fails, binding>>

\* The scanner takes what the chunk has; the token may end within it.
ScanChunk ==
  /\ op.kind = "scan" /\ Left > 0
  /\ LET n == Least(op.need, Left)
     IN  /\ FromBuffer(n)
         /\ op' = IF n = op.need THEN Idle ELSE [op EXCEPT !.need = @ - n]
  /\ eof' = FALSE
  /\ UNCHANGED <<avail, fails, binding>>

\* ibuffer_underflow got something: a typed read never splits a character,
\* it waits for the missing bytes of the last one.
Refill(n, k) ==
  /\ k \in Delivers(n * width)
  /\ k > 0 /\ k % width = 0
  /\ chunk' = Chars(k)
  /\ curr' = 0
  /\ rd' = rd + k

\* The read returned all there was, half a character at its end, and the rest
\* of that never comes: read_all_bytes throws and what was read is gone.
RefillSplit ==
  /\ (avail - rd) % width # 0
  /\ avail - rd < InSize * width
  /\ rd' = avail

ScanRefill ==
  /\ op.kind = "scan" /\ Left = 0
  /\ \/ \E k \in 1..(InSize * width) :
          /\ Refill(InSize, k)
          /\ op' = [op EXCEPT !.begin = 0]
          /\ eof' = FALSE /\ UNCHANGED fails
     \/ RefillSplit /\ op' = Idle /\ eof' = TRUE /\ UNCHANGED <<chunk, curr, fails>>
     \/ Fails /\ op' = Idle /\ eof' = FALSE /\ UNCHANGED <<chunk, curr, rd>>
  /\ UNCHANGED <<avail, used, binding>>

\* Mutant: the rewind goes back to the start of the get area.
GiveBackToBufferBegin(r) == Least(r, Len(chunk))

\* scan_context_eof_rewind_if_available: at most the part of the token that
\* lies in the terminal chunk.
GiveBack(r) == Least(r, Len(chunk) - op.begin)

\* The end of the data within a token: the scanner accepts what it has, or
\* reports the end, or fails and may put r characters back.  The failed
\* underflow has kept buffer_end, so the terminal chunk is still there.
ScanEof ==
  /\ op.kind = "scan" /\ Left = 0 /\ avail = rd
  /\ \E r \in 0..MaxToken :
       LET back == GiveBack(r)
       IN  /\ curr' = Len(chunk) - back
           /\ used' = SubSeq(used, 1, Len(used) - back)
  /\ op' = Idle
  /\ eof' = TRUE
  /\ UNCHANGED <<chunk, rd, avail, fails, binding>>

-----------------------------------------------------------------------------
\* reopen or close, and open again: the get area is emptied first, then the
\* handle is replaced.  When the new one cannot be opened the old one stays.
Rebind ==
  /\ op = Idle
  /\ opens < MaxRebinds /\ opens' = opens + 1
  /\ chunk' = <<>> /\ curr' = 0
  /\ \/ /\ rd' = 0 /\ avail' = 0 /\ used' = <<>> /\ dropped' = FALSE
        /\ UNCHANGED fails
     \/ /\ Fails
        /\ dropped' = (dropped \/ Left > 0)
        /\ UNCHANGED <<rd, avail, used>>
  /\ eof' = FALSE
  /\ UNCHANGED <<width, op>>

CallStep == Round \/ ScanChunk \/ ScanRefill \/ ScanEof

InNext ==
  \/ Arrive
  \/ \E n \in 1..MaxToken : ReadSome(n) \/ Start("all", <<0, n>>) \/ ScanStart(n)
  \/ \E e \in Scatters : Start("all", e) \/ Start("some", e)
  \/ CallStep
  \/ Rebind

InSpec == InInit /\ [][InNext]_inVars

\* A thread inside a call goes on with it.
FairInSpec == InSpec /\ WF_inVars(CallStep)

-----------------------------------------------------------------------------
(***************************************************************************)
(* Correctness.                                                            *)
(***************************************************************************)

InTypeOK ==
  /\ width \in Widths
  /\ chunk \in Seq(Nat) /\ Len(chunk) <= InSize
  /\ curr \in 0..Len(chunk)
  /\ rd \in Nat /\ avail \in Nat /\ rd <= avail
  /\ op.kind \in {"idle", "all", "some", "scan"}
  /\ op.need \in Nat /\ op.from \in Nat /\ op.begin \in Nat
  /\ used \in Seq(Nat)
  /\ fails \in Nat /\ opens \in Nat
  /\ eof \in BOOLEAN /\ dropped \in BOOLEAN

\* A character is made of consecutive bytes of the stream that belong
\* together: no short read shifts the boundaries of wide characters.
NeverSplit == \A i \in DOMAIN used : used[i] % width = 0

\* Every character of one byte that the handle delivered has been handed to
\* the program or waits in the get area: none twice, none skipped, in order,
\* whichever calls failed, met the end of the data or were rewound.
OnceInOrder ==
  ~dropped => used \o Rest = [i \in 1..rd |-> i - 1]

\* The end of the data is reported only when all that had arrived has been
\* taken off the handle: a short read is never taken for the end.
EofIsDrained == eof => rd = avail

\* Characters of one byte come once and in order, and the end is the end.
InputInOrder == width = 1 => OnceInOrder /\ EofIsDrained

\* Input is put back only by a scanner at the end of the data, and only what
\* belongs to its own token.
RewindWithinToken ==
  [][opens' = opens /\ Len(used') < Len(used) =>
       op.kind = "scan" /\ Len(used') >= op.from]_inVars

\* A call on a stream whose data ends comes back.
CallsReturn == op.kind # "idle" ~> op.kind = "idle"
=============================================================================
