---------------------------- MODULE TranscodeOutput ----------------------------
(***************************************************************************)
(* basic_otranscoder: an output stream that puts what it is given through  *)
(* an engine and the result on another stream.                             *)
(*                                                                         *)
(* Characters of Unit bytes collect in a put area of their own.  They are  *)
(* put through the engine when they no longer fit, when a large range      *)
(* comes, and on flush and finish.  The engine writes straight into the    *)
(* put area of the stream below, or into scratch storage from which one    *)
(* write is made.  Bytes may be written too, and leave part of a character *)
(* over.                                                                   *)
(*                                                                         *)
(* Any engine is meant that keeps to the protocol: what it takes it may    *)
(* keep for a while, up to Hold bytes, and it throws when it likes.  It    *)
(* translates nothing: what comes out is what went in, so that order and   *)
(* loss can be seen.                                                       *)
(***************************************************************************)
EXTENDS Transcode, SequencesExt, FiniteSetsExt

CONSTANTS
  Native,   \* the engine takes bytes; otherwise it takes characters
  Cap,      \* public_buffer_size, in characters
  Below,    \* the size of the put area below, 0 if there is none
  Scratch   \* transform_buffer_size

ASSUME TranscodeOutputAssumption ==
  /\ {Cap, Scratch} \subseteq Nat \ {0} /\ Below \in Nat /\ Native \in BOOLEAN

VARIABLES
  state,  \* otranscoder_state
  pub,    \* the put area up to its cursor
  area,   \* there is a put area
  rem,    \* source_remainder
  held,   \* what the engine keeps
  op,     \* "none", "prepare", "typed", "bytes", "flush" or "finish"
  stage,  \* where the operation is
  from,   \* process_source: what is left of its range
  rest,   \* what of the caller's range has not been looked at
  below,  \* the put area of the stream below
  sink,   \* what that stream has handed on
  given   \* history: the bytes 1..given were given

vars == <<state, pub, area, rem, held, op, stage, from, rest, below, sink, given>>
stream == <<below, sink>>
store == <<pub, area, rem>>

Init ==
  /\ state = "open" /\ pub = <<>> /\ area = FALSE /\ rem = <<>> /\ held = <<>>
  /\ op = "none" /\ stage = "none" /\ from = <<>> /\ rest = <<>>
  /\ below = <<>> /\ sink = <<>> /\ given = 0

-----------------------------------------------------------------------------
Some(n) == [i \in 1..n |-> given + i]
Room == IF area THEN Cap * Unit - Len(pub) ELSE 0

\* Mutant: a character may begin while part of another one is over.
BoundaryNot == state = "open"

\* require_typed_write_boundary.
Boundary == state = "open" /\ rem = <<>>

-----------------------------------------------------------------------------
(***************************************************************************)
(* Calls.                                                                  *)
(***************************************************************************)

\* Characters that fit are put into the put area by the caller.
Put ==
  /\ op = "none" /\ Boundary
  /\ \E n \in 1..(Room \div Unit) :
       /\ given + n * Unit <= Bytes
       /\ pub' = pub \o Some(n * Unit)
       /\ given' = given + n * Unit
  /\ UNCHANGED <<state, area, rem, held, op, stage, from, rest, stream>>

\* prepare_put_area, before characters are formatted in place.
Prepare ==
  /\ op = "none" /\ Boundary
  /\ op' = "prepare" /\ stage' = "prefix" /\ from' = pub /\ pub' = <<>>
  /\ UNCHANGED <<state, area, rem, held, rest, stream, given>>

\* write_all_overflow: what does not fit.
WriteTyped ==
  /\ op = "none" /\ Boundary
  /\ \E n \in 1..Bytes :
       /\ n * Unit > Room /\ given + n * Unit <= Bytes
       /\ op' = "typed" /\ stage' = "prefix" /\ from' = pub /\ pub' = <<>>
       /\ rest' = Some(n * Unit) /\ given' = given + n * Unit
  /\ UNCHANGED <<state, area, rem, held, stream>>

\* write_all_bytes_overflow.
WriteBytes ==
  /\ op = "none" /\ state = "open"
  /\ \E n \in 1..(Bytes - given) :
       /\ op' = "bytes" /\ rest' = Some(n) /\ given' = given + n
       /\ IF Native THEN stage' = "prefix" /\ from' = pub /\ pub' = <<>> /\ UNCHANGED area
          ELSE stage' = "fill" /\ area' = TRUE /\ UNCHANGED <<from, pub>>
  /\ UNCHANGED <<state, rem, held, stream>>

Flush ==
  /\ op = "none" /\ state = "open"
  /\ op' = "flush" /\ stage' = "prefix" /\ from' = pub /\ pub' = <<>>
  /\ UNCHANGED <<state, area, rem, held, rest, stream, given>>

Incomplete == rem # <<>>

\* finish fails while part of a character is over.
Finish ==
  /\ op = "none" /\ state = "open"
  /\ IF Incomplete THEN state' = "failed" /\ UNCHANGED <<op, stage, from, pub>>
     ELSE op' = "finish" /\ stage' = "prefix" /\ from' = pub /\ pub' = <<>> /\ UNCHANGED state
  /\ UNCHANGED <<area, rem, held, rest, stream, given>>

\* cancel, also by the destructor.
Cancel ==
  /\ op = "none" /\ state = "open"
  /\ state' = "cancelled" /\ pub' = <<>> /\ rem' = <<>>
  /\ UNCHANGED <<area, held, op, stage, from, rest, stream, given>>

-----------------------------------------------------------------------------
(***************************************************************************)
(* The engine and the stream below.                                        *)
(***************************************************************************)

\* prepare_transcode_destination: the put area below if a unit fits it.
Direct == Below > Len(below)

\* write_all below: any part moves on, and the rest is queued.
WriteBelow(made) ==
  LET all == below \o made
  IN \E k \in 0..Len(all) :
       /\ Len(all) - k <= Below
       /\ sink' = sink \o SubSeq(all, 1, k) /\ below' = Cut(all, k)

\* commit_transcode_destination.
Commit(made) ==
  CASE Direct -> below' = below \o made /\ UNCHANGED sink
    [] ~Direct /\ made = <<>> -> UNCHANGED stream
    [] ~Direct /\ made # <<>> -> WriteBelow(made)

Capacity == IF Direct THEN Below - Len(below) ELSE Scratch

\* What an engine may take of a source, and how much it may then produce.
Took == {k \in 0..Len(from) : Native \/ k % Unit = 0}
Makes(all) == {m \in 0..Min({Len(all), Capacity}) : Len(all) - m <= Hold}

\* process_source: one call of the engine; it takes or makes something.
Process ==
  /\ stage \in {"prefix", "rest"} /\ from # <<>>
  /\ \E k \in Took :
       LET all == held \o SubSeq(from, 1, k)
       IN \E m \in Makes(all) :
            /\ k > 0 \/ m > 0
            /\ Commit(SubSeq(all, 1, m)) /\ held' = Cut(all, m)
            /\ from' = Cut(from, k)
  /\ UNCHANGED <<state, store, op, stage, rest, given>>

Large == Len(rest) >= Cap * Unit

\* What follows when the put area's contents are through the engine.
PrefixDone ==
  /\ stage = "prefix" /\ from = <<>>
  /\ CASE op = "prepare" -> op' = "none" /\ stage' = "none" /\ area' = TRUE /\ UNCHANGED <<from, rest, pub>>
       [] op = "typed" /\ Large -> stage' = "rest" /\ from' = rest /\ rest' = <<>> /\ UNCHANGED <<op, area, pub>>
       [] op = "typed" /\ ~Large ->
            /\ pub' = rest /\ rest' = <<>> /\ area' = TRUE
            /\ op' = "none" /\ stage' = "none" /\ UNCHANGED from
       [] op = "bytes" /\ Native -> stage' = "rest" /\ from' = rest /\ rest' = <<>> /\ UNCHANGED <<op, area, pub>>
       [] op = "bytes" /\ ~Native -> stage' = "fill" /\ UNCHANGED <<op, from, rest, area, pub>>
       [] op \in {"flush", "finish"} -> stage' = "drain" /\ UNCHANGED <<op, from, rest, area, pub>>
  /\ UNCHANGED <<state, rem, held, stream, given>>

RestDone ==
  /\ stage = "rest" /\ from = <<>>
  /\ op' = "none" /\ stage' = "none"
  /\ UNCHANGED <<state, store, held, from, rest, stream, given>>

-----------------------------------------------------------------------------
(***************************************************************************)
(* write_all_bytes_overflow with an engine that takes characters.          *)
(***************************************************************************)

\* A character to put is there, or enough bytes for one are.
Wants == Len(rem) = Unit \/ (rem = <<>> /\ Len(rest) >= Unit)

\* The part of a character that is over takes what it lacks.
FillRemainder ==
  /\ stage = "fill" /\ Len(rem) \in 1..(Unit - 1) /\ rest # <<>>
  /\ LET k == Min({Unit - Len(rem), Len(rest)})
     IN rem' = rem \o SubSeq(rest, 1, k) /\ rest' = Cut(rest, k)
  /\ UNCHANGED <<state, pub, area, held, op, stage, from, stream, given>>

FillFlush ==
  /\ stage = "fill" /\ Wants /\ Room = 0
  /\ stage' = "prefix" /\ from' = pub /\ pub' = <<>>
  /\ UNCHANGED <<state, area, rem, held, op, rest, stream, given>>

FillPut ==
  /\ stage = "fill" /\ Wants /\ Room > 0
  /\ IF rem # <<>> THEN pub' = pub \o rem /\ rem' = <<>> /\ UNCHANGED rest
     ELSE LET k == Min({Room, (Len(rest) \div Unit) * Unit})
          IN pub' = pub \o SubSeq(rest, 1, k) /\ rest' = Cut(rest, k) /\ UNCHANGED rem
  /\ UNCHANGED <<state, area, held, op, stage, from, stream, given>>

\* The bytes that make no character are kept.
FillDone ==
  /\ stage = "fill" /\ ~Wants /\ (rem = <<>> \/ rest = <<>>)
  /\ rem' = rem \o rest /\ rest' = <<>>
  /\ op' = "none" /\ stage' = "none"
  /\ UNCHANGED <<state, pub, area, held, from, stream, given>>

-----------------------------------------------------------------------------
(***************************************************************************)
(* Flush, finish and failure.                                              *)
(***************************************************************************)

\* Mutant: one call of the engine is taken to be enough.
OneCall(left) == TRUE

\* transcode_drain_status::complete.
Complete(left) == left = <<>>

\* drain: one call of sync_flush or finish.
Drain ==
  /\ stage = "drain"
  /\ \E m \in 0..Min({Len(held), Capacity}) :
       /\ m > 0 \/ held = <<>>
       /\ Commit(SubSeq(held, 1, m)) /\ held' = Cut(held, m)
       /\ stage' = IF Complete(Cut(held, m)) THEN "under" ELSE "drain"
  /\ UNCHANGED <<state, store, op, from, rest, given>>

\* flush_underlying.
FlushBelow ==
  /\ stage = "under"
  /\ sink' = sink \o below /\ below' = <<>>
  /\ op' = "none" /\ stage' = "none"
  /\ state' = IF op = "finish" THEN "finished" ELSE state
  /\ UNCHANGED <<store, held, from, rest, given>>

\* guarded: the engine or the stream below throws, which has then handed on
\* some part of what it was given.
Throws ==
  /\ Fails /\ stage \in {"prefix", "rest", "drain", "under"}
  /\ \E m \in 0..Min({Len(held \o from), Scratch}) :
       LET all == below \o SubSeq(held \o from, 1, m)
       IN \E k \in 0..Len(all) :
            sink' = sink \o SubSeq(all, 1, k) /\ below' = SubSeq(all, k + 1, Min({k + Below, Len(all)}))
  /\ state' = "failed" /\ op' = "none" /\ stage' = "none"
  /\ UNCHANGED <<store, held, from, rest, given>>

Step ==
  \/ Process \/ PrefixDone \/ RestDone
  \/ FillRemainder \/ FillFlush \/ FillPut \/ FillDone
  \/ Drain \/ FlushBelow \/ Throws

Next ==
  \/ Put \/ Prepare \/ WriteTyped \/ WriteBytes \/ Flush \/ Finish \/ Cancel
  \/ Step

Spec == Init /\ [][Next]_vars /\ WF_vars(Step)

-----------------------------------------------------------------------------
(***************************************************************************)
(* Properties.                                                             *)
(***************************************************************************)

\* The parts have their types, and no cursor leaves its storage.
TypeOK ==
  /\ state \in {"open", "finished", "cancelled", "failed"} /\ area \in BOOLEAN
  /\ op \in {"none", "prepare", "typed", "bytes", "flush", "finish"}
  /\ stage \in {"none", "prefix", "rest", "fill", "drain", "under"}
  /\ Len(pub) <= Cap * Unit /\ Len(pub) % Unit = 0 /\ (pub # <<>> => area)
  /\ Len(rem) <= Unit /\ Len(below) <= Below /\ given \in 0..Bytes

\* Large ranges, small ones and bytes, in place or by scratch storage: every
\* byte is in one place, and the places are in order.
InOrder ==
  state \in {"open", "finished"} =>
    sink \o below \o held \o from \o pub \o rem \o rest = All(given)

\* What reached the stream below before a failure or a cancellation is a
\* beginning of what was given; nothing is sent twice or sent past a gap.
NoGap == IsPrefix(sink \o below, All(given))

\* A finished stream has handed on everything.
FinishedIsAll == state = "finished" => sink = All(given)

\* Every byte given is in one place, in order; what a failure leaves below is
\* a beginning of it, and a finished stream all.
OutputInOrder == TypeOK /\ InOrder /\ NoGap /\ FinishedIsAll

\* After a flush all but part of a character is in the hands of the system.
FlushShows == [][op = "flush" /\ op' = "none" /\ state' = "open" => sink' \o rem' = All(given')]_vars

\* Every call ends.
CallsEnd == op # "none" ~> op = "none"

=============================================================================
