---------------------------- MODULE TranscodeInput ----------------------------
(***************************************************************************)
(* basic_itranscoder: an input stream that reads another stream, puts what *)
(* it gives through an engine and publishes the result in a get area.      *)
(*                                                                         *)
(* An engine whose output has the character type of the adapter fills the  *)
(* get area itself (Exact).  One that gives bytes fills scratch storage,   *)
(* from which whole characters of Unit bytes are assembled; what makes no  *)
(* character waits in the remainder.  Bytes may be read as well, from all  *)
(* of these in turn.  A duplex adapter flushes its output before it waits  *)
(* for input.                                                              *)
(*                                                                         *)
(* Any engine is meant that keeps to the protocol; it translates nothing   *)
(* and keeps back up to Hold bytes.  Bytes are numbered as the source has  *)
(* them.                                                                   *)
(***************************************************************************)
EXTENDS Transcode, FiniteSetsExt

CONSTANTS
  Bindings,   \* whether target_binding is exact_units: a set of booleans
  Public,     \* public_buffer_size, in characters
  Transform,  \* transform_buffer_size, in bytes
  Source      \* the most one read of the source gives

ASSUME TranscodeInputAssumption ==
  /\ {Public, Transform, Source} \subseteq Nat \ {0} /\ Bindings \subseteq BOOLEAN
  /\ Hold >= Unit - 1

VARIABLES
  exact,      \* target_binding is exact_units
  istate,     \* itranscoder_state
  public,     \* the get area from its cursor, from the first unread byte
  dest,       \* characters assembled and not yet published
  remainder,  \* target_remainder
  trans,      \* transform_buffer from its cursor
  kept,       \* what the engine keeps
  raw,        \* source_buffer, or the get area below
  unread,     \* what the source still has
  total,      \* what it had at first
  eof,        \* source_eof
  ended,      \* engine_finished
  offset,     \* byte_boundary_offset
  request,    \* "none", "typed", "bytes" or "drain"
  point,      \* where the operation is
  want,       \* bytes the caller still wants
  prompt,     \* the output side holds what the peer waits for
  gone,       \* history: bytes read, or discarded at the caller's request
  told        \* history: a read has come back short at the end

inVars == <<exact, istate, public, dest, remainder, trans, kept, raw, unread, total, eof, ended,
            offset, request, point, want, prompt, gone, told>>
stores == <<public, dest, remainder, trans>>
engine == <<exact, kept, raw, unread, total, eof, ended>>
call == <<request, point, want>>

First(s, n) == SubSeq(s, 1, n)

InInit ==
  /\ exact \in Bindings
  /\ istate = "open" /\ public = <<>> /\ dest = <<>> /\ remainder = <<>> /\ trans = <<>>
  /\ kept = <<>> /\ raw = <<>> /\ eof = FALSE /\ ended = FALSE
  /\ total \in 0..Bytes /\ (exact => total % Unit = 0) /\ unread = All(total)
  /\ offset = 0 /\ request = "none" /\ point = "none" /\ want = 0
  /\ prompt = FALSE /\ gone = <<>> /\ told = FALSE

\* Mutant: the peer must guess.
FlushNot == UNCHANGED prompt

\* before_source_refill.
FlushOutput == prompt' = FALSE

-----------------------------------------------------------------------------
(***************************************************************************)
(* Calls.                                                                  *)
(***************************************************************************)

\* Mutant: characters are read from the middle of one.
ReadAnywhere == istate \in {"open", "finished"}

\* require_typed_read_boundary.
ReadBoundary == istate \in {"open", "finished"} /\ offset = 0

\* The output side is written to between reads.
Prompt ==
  /\ request = "none" /\ istate = "open" /\ ~prompt /\ prompt' = TRUE
  /\ UNCHANGED <<istate, stores, engine, offset, call, gone, told>>

\* read_some_impl: what fits the get area is taken from it.
Get ==
  /\ request = "none" /\ ReadBoundary
  /\ \E n \in 1..Public :
       /\ n * Unit <= Len(public)
       /\ gone' = gone \o First(public, n * Unit) /\ public' = Cut(public, n * Unit)
  /\ UNCHANGED <<istate, dest, remainder, trans, engine, offset, call, prompt, told>>

\* read_some or read_some_bytes of a stream that has finished.
ReadAtEnd ==
  /\ request = "none" /\ istate = "finished" /\ told' = TRUE
  /\ UNCHANGED <<istate, stores, engine, offset, call, prompt, gone>>

\* read_some: what the get area has, whatever is wanted.
ReadTyped ==
  /\ request = "none" /\ ReadBoundary /\ istate = "open"
  /\ \E n \in 1..(Public + 1) :
       /\ n * Unit > Len(public)
       /\ request' = "typed" /\ want' = n * Unit
       /\ IF public # <<>> THEN point' = "deliver" /\ UNCHANGED prompt
          ELSE point' = (IF exact THEN "refill" ELSE "assemble") /\ FlushOutput
  /\ UNCHANGED <<istate, stores, engine, offset, gone, told>>

\* read_some_bytes.
ReadBytes ==
  /\ request = "none" /\ istate = "open"
  /\ request' = "bytes" /\ want' \in 1..(Public * Unit + 1) /\ point' = "copy"
  /\ UNCHANGED <<istate, stores, engine, offset, prompt, gone, told>>

\* drain_and_finish.
DrainAndFinish ==
  /\ request = "none" /\ istate = "open"
  /\ request' = "drain" /\ point' = "refill"
  /\ gone' = gone \o public \o remainder \o trans
  /\ public' = <<>> /\ remainder' = <<>> /\ trans' = <<>> /\ offset' = 0
  /\ FlushOutput
  /\ UNCHANGED <<istate, dest, engine, want, told>>

\* cancel, also by the destructor.
CancelInput ==
  /\ request = "none" /\ istate = "open"
  /\ istate' = "cancelled" /\ public' = <<>> /\ remainder' = <<>> /\ trans' = <<>>
  /\ offset' = 0
  /\ UNCHANGED <<dest, engine, call, prompt, gone, told>>

-----------------------------------------------------------------------------
(***************************************************************************)
(* refill_exact and refill_transformed: one block, or the end.             *)
(***************************************************************************)

\* Where a refill that has given something goes on.
Given ==
  CASE request = "typed" /\ exact -> "deliver"
    [] request = "typed" /\ ~exact -> "assemble"
    [] request = "bytes" -> "copy"
    [] request = "drain" -> "refill"

\* The get area, or the scratch storage, receives a block.
Store(block) ==
  CASE request = "drain" -> gone' = gone \o block /\ UNCHANGED <<public, trans>>
    [] request # "drain" /\ exact -> public' = block /\ UNCHANGED <<gone, trans>>
    [] request # "drain" /\ ~exact -> trans' = block /\ UNCHANGED <<gone, public>>

Window == IF exact THEN Public * Unit ELSE Transform
Blocks(all) == {m \in 0..Min({Len(all), Window}) : exact => m % Unit = 0}

\* prepare_transcode_source: what was left over first; then a read, which
\* gives something or finds the end.
PrepareSource ==
  /\ point = "refill" /\ ~ended /\ ~eof /\ raw = <<>>
  /\ IF unread = <<>> THEN eof' = TRUE /\ UNCHANGED <<raw, unread>>
     ELSE \E k \in 1..Min({Source, Len(unread)}) :
            raw' = First(unread, k) /\ unread' = Cut(unread, k) /\ UNCHANGED eof
  /\ UNCHANGED <<exact, istate, stores, kept, total, ended, offset, call, prompt, gone, told>>

\* Mutant: what the engine has not taken is read over.
TakesAll(k) == <<>>

\* commit_transcode_source.
LeftOver(k) == Cut(raw, k)

FillBlock ==
  /\ point = "refill" /\ ~ended /\ raw # <<>>
  /\ \E k \in 0..Len(raw) :
       LET all == kept \o First(raw, k)
       IN \E m \in Blocks(all) :
            /\ k > 0 \/ m > 0
            /\ Len(all) - m <= Hold
            /\ raw' = LeftOver(k) /\ kept' = Cut(all, m)
            /\ Store(First(all, m)) /\ point' = IF m > 0 THEN Given ELSE "refill"
  /\ UNCHANGED <<exact, istate, dest, remainder, unread, total, eof, ended, offset, request, want,
                 prompt, told>>

\* transcode_drain_status::complete.
Finished(left) == left = <<>>

\* What finish gave is published before the end is reported.
AfterFinish(m) == IF m > 0 THEN Given ELSE "end"

EngineFinish ==
  /\ point = "refill" /\ ~ended /\ eof
  /\ \E m \in Blocks(kept) :
       /\ m > 0 \/ kept = <<>>
       /\ kept' = Cut(kept, m) /\ ended' = Finished(Cut(kept, m))
       /\ Store(First(kept, m)) /\ point' = AfterFinish(m)
       /\ istate' = IF m > 0 THEN istate ELSE "finished"
  /\ UNCHANGED <<exact, dest, remainder, raw, unread, total, eof, offset, request, want, prompt, told>>

\* There is nothing more: the stream has finished.
NoMore ==
  /\ point = "refill" /\ ended
  /\ istate' = "finished" /\ point' = "end"
  /\ UNCHANGED <<stores, engine, offset, request, want, prompt, gone, told>>

-----------------------------------------------------------------------------
(***************************************************************************)
(* refill_typed_from_bytes.                                                *)
(***************************************************************************)

Publish ==
  /\ public' = dest /\ dest' = <<>> /\ point' = "deliver"

Full == Len(dest) = Public * Unit
Short == remainder # <<>> /\ trans = <<>>

\* The get area is full, or the remainder needs bytes that are not there yet.
AssembleEnds ==
  /\ point = "assemble" /\ (Full \/ (Short /\ dest # <<>>))
  /\ Publish
  /\ UNCHANGED <<istate, remainder, trans, engine, offset, request, want, prompt, gone, told>>

\* More bytes are asked for.
AssembleRefills ==
  /\ point = "assemble" /\ ~Full /\ trans = <<>> /\ (Short => dest = <<>>)
  /\ point' = "refill"
  /\ UNCHANGED <<istate, stores, engine, offset, request, want, prompt, gone, told>>

\* The remainder is filled up to a character.
AssembleRemainder ==
  /\ point = "assemble" /\ ~Full /\ remainder # <<>> /\ trans # <<>>
  /\ LET k == Min({Unit - Len(remainder), Len(trans)})
         all == remainder \o First(trans, k)
     IN /\ trans' = Cut(trans, k)
        /\ IF Len(all) = Unit THEN dest' = dest \o all /\ remainder' = <<>>
           ELSE remainder' = all /\ UNCHANGED dest
  /\ UNCHANGED <<istate, public, engine, offset, call, prompt, gone, told>>

Rest(s) == s

\* Mutant: only whole characters are copied.
CopiesWhole ==
  /\ point = "assemble" /\ ~Full /\ remainder = <<>> /\ trans # <<>>
  /\ LET k == Min({Public * Unit - Len(dest), (Len(trans) \div Unit) * Unit})
     IN dest' = dest \o First(trans, k) /\ trans' = Cut(trans, k)
  /\ UNCHANGED <<istate, public, remainder, engine, offset, call, prompt, gone, told>>

\* Whole characters are copied; what makes none is kept.
AssembleCopy ==
  /\ point = "assemble" /\ ~Full /\ remainder = <<>> /\ trans # <<>>
  /\ LET k == Min({Public * Unit - Len(dest), (Len(trans) \div Unit) * Unit})
     IN IF k > 0 THEN dest' = dest \o First(trans, k) /\ trans' = Cut(trans, k) /\ UNCHANGED remainder
        ELSE remainder' = Rest(trans) /\ trans' = <<>> /\ UNCHANGED dest
  /\ UNCHANGED <<istate, public, engine, offset, call, prompt, gone, told>>

-----------------------------------------------------------------------------
(***************************************************************************)
(* What the caller gets.                                                   *)
(***************************************************************************)

\* read_some, and the end if there was nothing to publish.
Deliver ==
  /\ point = "deliver"
  /\ LET k == Min({want, Len(public)})
     IN gone' = gone \o First(public, k) /\ public' = Cut(public, k) /\ told' = (told \/ k = 0)
  /\ request' = "none" /\ point' = "none" /\ want' = 0
  /\ UNCHANGED <<istate, dest, remainder, trans, engine, offset, prompt>>

\* copy_public_bytes, copy_remainder_bytes and copy_transformed_bytes.
Queued == public \o remainder \o trans

\* The stores in their order, until the caller has what it wants.
Copy ==
  /\ point = "copy"
  /\ LET k == Min({want, Len(Queued)})
         a == Min({k, Len(public)})
         b == Min({k - a, Len(remainder)})
     IN /\ gone' = gone \o First(Queued, k)
        /\ public' = Cut(public, a) /\ remainder' = Cut(remainder, b) /\ trans' = Cut(trans, k - a - b)
        /\ want' = want - k /\ offset' = (offset + k) % Unit
        /\ IF k = want THEN request' = "none" /\ point' = "none" /\ UNCHANGED prompt
           ELSE point' = "refill" /\ FlushOutput /\ UNCHANGED request
  /\ UNCHANGED <<istate, dest, engine, told>>

\* The refill has found the end: what was asked for before it counts, and
\* part of a character is an error for a reader of characters.
End ==
  /\ point = "end"
  /\ IF request = "typed" /\ remainder # <<>>
     THEN istate' = "failed" /\ request' = "none" /\ point' = "none" /\ want' = 0 /\ UNCHANGED <<public, dest, told>>
     ELSE IF request = "typed"
     THEN Publish /\ UNCHANGED <<istate, request, want, told>>
     ELSE /\ request' = "none" /\ point' = "none" /\ want' = 0
          /\ told' = (told \/ request = "bytes")
          /\ UNCHANGED <<istate, public, dest>>
  /\ UNCHANGED <<remainder, trans, engine, offset, prompt, gone>>

\* guarded: the flush of the output, the source or the engine throws.
InThrows ==
  /\ Fails /\ point = "refill"
  /\ istate' = "failed" /\ request' = "none" /\ point' = "none" /\ want' = 0
  /\ UNCHANGED <<stores, engine, offset, prompt, gone, told>>

InStep ==
  \/ PrepareSource \/ FillBlock \/ EngineFinish \/ NoMore
  \/ AssembleEnds \/ AssembleRefills \/ AssembleRemainder \/ AssembleCopy
  \/ Deliver \/ Copy \/ End \/ InThrows

InNext ==
  \/ Prompt \/ Get \/ ReadAtEnd \/ ReadTyped \/ ReadBytes
  \/ DrainAndFinish \/ CancelInput
  \/ InStep

InSpec == InInit /\ [][InNext]_inVars /\ WF_inVars(InStep)

-----------------------------------------------------------------------------
(***************************************************************************)
(* Properties.                                                             *)
(***************************************************************************)

\* The parts have their types, and no cursor leaves its storage.
InTypeOK ==
  /\ exact \in Bindings
  /\ istate \in {"open", "finished", "cancelled", "failed"}
  /\ Len(public) <= Public * Unit /\ Len(dest) <= Public * Unit /\ Len(remainder) < Unit
  /\ Len(trans) <= Transform /\ Len(raw) <= Source /\ offset \in 0..(Unit - 1)
  /\ {eof, ended, prompt, told} \subseteq BOOLEAN
  /\ request \in {"none", "typed", "bytes", "drain"} /\ want \in 0..((Public + 1) * Unit)
  /\ point \in {"none", "refill", "assemble", "deliver", "copy", "end"}

\* Read as characters and as bytes by turns, in whatever blocks: every byte is
\* in one place, and the places are in order.
BytesKept ==
  istate \in {"open", "finished"} =>
    gone \o public \o dest \o remainder \o trans \o kept \o raw \o unread = All(total)

Left == public \o dest \o remainder \o trans \o kept \o raw \o unread

\* A reader is told of the end only when it has read everything.
EndIsTrue == told => Left = <<>>

\* "Physical EOF and engine finish both completed with no pending output."
FinishedIsDrained == istate = "finished" => Left = <<>>

\* Every byte of the source is in one place, in order; if its engine gives
\* whole characters, a reader is told of the end, and the adapter is finished,
\* only when everything is read.
InputInOrder == InTypeOK /\ BytesKept /\ (exact => EndIsTrue /\ FinishedIsDrained)

\* A character that is read begins where a character of the stream begins.
WholeCharacters == request = "typed" /\ request' = "none" /\ gone' # gone => Len(gone) % Unit = 0

\* Nobody waits for a peer that waits for what the output side holds.
PromptFirst == unread' # unread => ~prompt

\* The output side is flushed before the source is waited for, and characters
\* and bytes read by turns keep the boundaries of characters.
ReadsInTurn == [][PromptFirst /\ WholeCharacters]_inVars

\* Every call ends, if the source answers.
ReadsEnd == request # "none" ~> request = "none"

=============================================================================
