-------------------------------- MODULE EolPipe --------------------------------
(***************************************************************************)
(* The end-of-line transcoders (basic_eol): lf to crlf, which turns every  *)
(* LF into CR LF, and crlf to lf, which turns every CR LF into LF and      *)
(* leaves a lone CR alone.  A call of process() works on bounded windows:  *)
(* of a source of which it sees a part, into a destination which may be    *)
(* full at any point.  One flag, pending_character, carries over what a    *)
(* window cuts in two: an LF that has still to follow its CR, or a CR of   *)
(* which it is not known yet what follows it.                              *)
(*                                                                         *)
(* Each round of the loop in process() is a step.  The encoder's output is *)
(* put through the decoder, in windows of its own.  copy_plain_prefix      *)
(* copies one unit a round; its vector loops copy what that would.         *)
(***************************************************************************)
EXTENDS Integers, Sequences, FiniteSets, SequencesExt

CONSTANTS
  Units,    \* code units
  Texts,    \* what may be encoded
  Streams,  \* what else the decoder may be given
  Windows   \* the sizes of windows

CR == "CR"
LF == "LF"

ASSUME EolAssumption ==
  /\ {CR, LF} \subseteq Units /\ Windows \subseteq Nat
  /\ Texts \subseteq Seq(Units) /\ Streams \subseteq Seq(Units)

VARIABLES
  text,           \* what is encoded
  src,            \* what of it is still to come
  encPending,     \* pending_character of the encoder
  encoded,        \* history: all the encoder has produced
  encEnded,       \* its finish is complete
  mid,            \* what the decoder has not taken yet
  decPending,     \* pending_character of the decoder
  decoded,        \* all the decoder has produced
  decEnded,       \* its finish is complete
  loop            \* the call of process() that is under way, see Begins

enc == <<text, src, encPending, encoded, encEnded>>
dec == <<mid, decPending, decoded, decEnded>>
eolVars == <<enc, dec, loop>>

\* No call: of the source `left` units are in the window, of the destination
\* `room` are free, and the call has taken or made something.
NoLoop == [in |-> "none", left |-> 0, room |-> 0, moved |-> FALSE]

EolInit ==
  /\ encPending = FALSE /\ decPending = FALSE /\ decoded = <<>> /\ decEnded = FALSE
  /\ loop = NoLoop
  /\ \/ /\ text \in Texts /\ src = text /\ encoded = <<>> /\ mid = <<>> /\ encEnded = FALSE
     \/ /\ text = <<>> /\ src = <<>> /\ encoded \in Streams /\ mid = encoded /\ encEnded = TRUE

-----------------------------------------------------------------------------
(***************************************************************************)
(* The calls.                                                              *)
(***************************************************************************)

\* A call with a part of s.  Without room it returns at once, and nothing has
\* changed.
Begins(engine, s) ==
  /\ loop = NoLoop
  /\ \E n \in Windows \cap 1..Len(s), room \in Windows \ {0} :
       loop' = [in |-> engine, left |-> n, room |-> room, moved |-> FALSE]
  /\ UNCHANGED <<enc, dec>>

\* A round takes `taken` units and makes `made`.
Round(taken, made) ==
  loop' = [loop EXCEPT !.left = @ - taken, !.room = @ - made, !.moved = TRUE]

\* A call ends when its destination is full, or its window empty and nothing
\* owed.
CallEnds(engine, pending) ==
  /\ loop.in = engine
  /\ loop.room = 0 \/ (loop.left = 0 /\ ~pending)

Unread(s, n) == SubSeq(s, n + 1, Len(s))

-----------------------------------------------------------------------------
(***************************************************************************)
(* lf to crlf.                                                             *)
(***************************************************************************)

Emit(made) == encoded' = encoded \o made /\ mid' = mid \o made
EncoderOnly == UNCHANGED <<text, encEnded, decPending, decoded, decEnded>>

\* The LF whose CR was the last that fitted.
EncodeSecond ==
  /\ loop.in = "encode" /\ encPending /\ loop.room > 0
  /\ Round(0, 1) /\ Emit(<<LF>>)
  /\ encPending' = FALSE
  /\ UNCHANGED src /\ EncoderOnly

Encoding == loop.in = "encode" /\ ~encPending /\ loop.left > 0 /\ loop.room > 0

EncodePlain ==
  /\ Encoding /\ Head(src) # LF
  /\ Round(1, 1) /\ Emit(<<Head(src)>>)
  /\ src' = Tail(src)
  /\ UNCHANGED encPending /\ EncoderOnly

EncodePair ==
  /\ Encoding /\ Head(src) = LF /\ loop.room > 1
  /\ Round(1, 2) /\ Emit(<<CR, LF>>)
  /\ src' = Tail(src)
  /\ UNCHANGED encPending /\ EncoderOnly

\* Only the CR fits.
EncodeFirst ==
  /\ Encoding /\ Head(src) = LF /\ loop.room = 1
  /\ Round(1, 1) /\ Emit(<<CR>>)
  /\ encPending' = TRUE
  /\ src' = Tail(src)
  /\ EncoderOnly

EncodeReturn ==
  /\ CallEnds("encode", encPending)
  /\ loop' = NoLoop
  /\ UNCHANGED <<enc, dec>>

\* drain: both sync_flush, between any two calls, and finish, after the last.
EncodeDrain ==
  /\ loop = NoLoop /\ ~encEnded
  /\ \E room \in Windows :
       /\ IF encPending /\ room > 0 THEN encPending' = FALSE /\ Emit(<<LF>>)
          ELSE UNCHANGED <<encPending, encoded, mid>>
       /\ encEnded' \in {encEnded, src = <<>> /\ ~encPending'}
  /\ UNCHANGED <<text, src, decPending, decoded, decEnded, loop>>

Encode ==
  \/ Begins("encode", src)
  \/ EncodeSecond \/ EncodePlain \/ EncodePair \/ EncodeFirst
  \/ EncodeReturn

-----------------------------------------------------------------------------
(***************************************************************************)
(* crlf to lf.                                                             *)
(***************************************************************************)

Decoding == loop.in = "decode" /\ loop.left > 0 /\ loop.room > 0

\* The CR of an earlier window has its LF.
DecodeJoined ==
  /\ Decoding /\ decPending /\ Head(mid) = LF
  /\ Round(1, 1) /\ decoded' = Append(decoded, LF)
  /\ decPending' = FALSE
  /\ mid' = Tail(mid)
  /\ UNCHANGED <<enc, decEnded>>

\* Mutant: what follows a lone CR is taken with it.
LoneTakes ==
  /\ Decoding /\ decPending /\ Head(mid) # LF
  /\ Round(1, 1) /\ decoded' = Append(decoded, CR)
  /\ decPending' = FALSE
  /\ mid' = Tail(mid)
  /\ UNCHANGED <<enc, decEnded>>

\* It turns out to be a lone one.
DecodeLone ==
  /\ Decoding /\ decPending /\ Head(mid) # LF
  /\ Round(0, 1) /\ decoded' = Append(decoded, CR)
  /\ decPending' = FALSE
  /\ UNCHANGED <<enc, mid, decEnded>>

DecodePlain ==
  /\ Decoding /\ ~decPending /\ Head(mid) # CR
  /\ Round(1, 1) /\ decoded' = Append(decoded, Head(mid))
  /\ mid' = Tail(mid)
  /\ UNCHANGED <<enc, decPending, decEnded>>

\* A CR at the end of the window: what follows it is still to be seen.
DecodeLast ==
  /\ Decoding /\ ~decPending /\ Head(mid) = CR /\ loop.left = 1
  /\ Round(1, 0)
  /\ decPending' = TRUE
  /\ mid' = Tail(mid)
  /\ UNCHANGED <<enc, decoded, decEnded>>

DecodePair ==
  /\ Decoding /\ ~decPending /\ Head(mid) = CR /\ loop.left > 1
  /\ IF mid[2] = LF
     THEN Round(2, 1) /\ decoded' = Append(decoded, LF) /\ mid' = Unread(mid, 2)
     ELSE Round(1, 1) /\ decoded' = Append(decoded, CR) /\ mid' = Tail(mid)
  /\ UNCHANGED <<enc, decPending, decEnded>>

\* With a CR kept, too, a window without source ends the call.
DecodeReturn ==
  /\ CallEnds("decode", FALSE)
  /\ loop' = NoLoop
  /\ UNCHANGED <<enc, dec>>

\* finish, once the end of the source is seen.  A decoder on the way in, which
\* this is, gets no sync_flush; one would end its wait for the LF of a CR.
DecodeFinish ==
  /\ loop = NoLoop /\ encEnded /\ mid = <<>> /\ ~decEnded
  /\ \E room \in Windows :
       IF decPending /\ room = 0 THEN UNCHANGED <<decPending, decoded, decEnded>>
       ELSE /\ decoded' = IF decPending THEN Append(decoded, CR) ELSE decoded
            /\ decPending' = FALSE /\ decEnded' = TRUE
  /\ UNCHANGED <<enc, mid, loop>>

Decode ==
  \/ Begins("decode", mid)
  \/ DecodeJoined \/ DecodeLone \/ DecodePlain \/ DecodeLast \/ DecodePair
  \/ DecodeReturn

EolNext == Encode \/ EncodeDrain \/ Decode \/ DecodeFinish

\* The adapters call with a destination of at least one unit until a phase is
\* complete, so calls that change something do not fail to appear.
EolSpec == EolInit /\ [][EolNext]_eolVars
FairEolSpec == EolSpec /\ WF_eolVars(EolNext)

-----------------------------------------------------------------------------
(***************************************************************************)
(* Properties.                                                             *)
(***************************************************************************)

\* What a text becomes, seen at once.  Encoded: unit k goes to place At(t, k),
\* and the places nothing goes to are the CRs before LFs.
At(t, k) == k + Cardinality({i \in 1..k : t[i] = LF})
Sources(t, p) == {k \in 1..Len(t) : At(t, k) = p}
Encoded(t) ==
  [p \in 1..At(t, Len(t)) |->
     IF Sources(t, p) = {} THEN CR ELSE t[CHOOSE k \in Sources(t, p) : TRUE]]

\* Decoded: the units that stay, which are all but the CRs before LFs.
Stays(t) == {i \in 1..Len(t) : ~(t[i] = CR /\ i < Len(t) /\ t[i + 1] = LF)}
To(t, i) == Cardinality(Stays(t) \cap 1..i)
Origins(t, p) == {i \in Stays(t) : To(t, i) = p}
Decoded(t) == [p \in 1..To(t, Len(t)) |-> t[CHOOSE i \in Origins(t, p) : TRUE]]

\* A call stays in its window and its destination, the source ends but once,
\* and a flag stands for the one unit it may stand for.
EolTypeOK ==
  /\ loop.in \in {"none", "encode", "decode"} /\ loop.moved \in BOOLEAN
  /\ loop.room \in Nat /\ loop.left \in Nat
  /\ loop.in = "encode" => loop.left <= Len(src)
  /\ loop.in = "decode" => loop.left <= Len(mid)
  /\ {encPending, encEnded, decPending, decEnded} \subseteq BOOLEAN
  /\ encPending => encoded # <<>> /\ Last(encoded) = CR
  /\ encEnded => src = <<>> /\ ~encPending
  /\ decEnded => encEnded /\ mid = <<>> /\ ~decPending

\* However the windows fall, the encoder's output is that of the whole text.
EncodesText ==
  text # <<>> => /\ IsPrefix(encoded, Encoded(text))
                 /\ encEnded => encoded = Encoded(text)

\* And so is the decoder's, also of a stream no encoder has made.
DecodesStream ==
  LET whole == Decoded(encoded)
  IN /\ IsPrefix(decoded, whole)
     /\ decEnded => decoded = whole

\* What is encoded and decoded again is the text, whatever CR and LF it has.
RoundTrip ==
  text # <<>> => /\ IsPrefix(decoded, text)
                 /\ decEnded => decoded = text

\* A call that changes nothing would be repeated for ever: every call with
\* room for one unit takes or makes something.
Moves == CallEnds("encode", encPending) \/ CallEnds("decode", FALSE) => loop.moved

\* Encoder and decoder make of a text, in whatever windows, what they would
\* make of it at once; together they give it back; no call leaves its windows
\* and none is in vain.
EndsOfLines == EolTypeOK /\ EncodesText /\ DecodesStream /\ RoundTrip /\ Moves

\* Everything is encoded and decoded in the end.
Arrives == <>decEnded

=============================================================================
