--------------------------------- MODULE Printing ---------------------------------
(***************************************************************************)
(* print and println: how a list of arguments becomes calls on a stream.   *)
(*                                                                         *)
(* An argument prints itself by one of five protocols.  "reserve": it      *)
(* writes into storage of a size known beforehand, and may scribble over   *)
(* all of it.  "dynamic": the same, with a size asked for at run time.     *)
(* "scatter": it is a range in memory.  "context": it fills whatever       *)
(* window it is given, as often as it needs.  "plain": it writes to the    *)
(* stream by itself.  Leading runs of arguments are put together, in the   *)
(* put area of a buffered stream, in a local buffer or as one gather       *)
(* write; what does not fit takes another way, and the text must come out  *)
(* in order all the same.                                                  *)
(*                                                                         *)
(* The characters of the whole text are numbered, so a list is given by    *)
(* where each argument's text ends; its storage is laid out in the same    *)
(* way.  Writes do not fail here and take everything: OBuffer and          *)
(* ScatterWrite are about that.                                            *)
(***************************************************************************)
EXTENDS Descriptors, SequencesExt, FiniteSetsExt

CONSTANTS
  Arguments,  \* the argument lists: kind, and the edges of text and of room,
              \* the storage each argument may use
  Lines,      \* print or println: a set of booleans
  Media,      \* the streams: whether there is a put area, of what size (cap),
              \* and obuffer_minimum_size_define (minimum): a smaller run always
              \* fits after a flush; 0 if the stream does not say
  Window,     \* the smallest window a context argument asks for
  Hint,       \* static stack size of the dynamic arguments
  Least       \* the smallest capture buffer (32 in the code)

Kinds == {"reserve", "dynamic", "scatter", "context", "plain"}

IsArguments(l) ==
  /\ l.kind \in Seq(Kinds) /\ IsList(l.text) /\ IsList(l.room)
  /\ Count(l.text) = Len(l.kind) /\ Count(l.room) = Len(l.kind)
  /\ \A i \in DOMAIN l.kind : l.text[i + 1] - l.text[i] <= l.room[i + 1] - l.room[i]

ASSUME PrintAssumption ==
  /\ \A l \in Arguments : IsArguments(l)
  /\ Lines \subseteq BOOLEAN
  /\ \A m \in Media : m.buffered \in BOOLEAN /\ m.cap \in Nat /\ m.minimum \in 0..m.cap
  /\ Window \in Nat \ {0} /\ Hint \in Nat /\ Least \in Nat

VARIABLES
  medium,      \* the stream printed to
  args, line,  \* what is printed
  turn,        \* the argument whose turn it is
  stage,       \* "dispatch", "capture", "finish", "context", "window",
               \* "plain" or "done"
  head, end,   \* the first and the last argument of the captured run
  made,        \* characters the context argument has produced
  buf,         \* the capture buffer up to its cursor
  put, area,   \* the put area up to its cursor, and whether there is one yet
  out,         \* what the stream has handed on
  calls,       \* history: writes on the stream, 2 for more than one
  over         \* history: an argument was given too little storage

given == <<medium, args, line>>
run == <<head, end>>
outlet == <<put, area, out, calls>>
printVars == <<given, turn, stage, run, made, buf, outlet, over>>

PrintInit ==
  /\ medium \in Media /\ args \in Arguments /\ line \in Lines
  /\ turn = 1 /\ stage = "dispatch" /\ head = 0 /\ end = 0 /\ made = 0
  /\ buf = <<>> /\ put = <<>> /\ area = FALSE /\ out = <<>>
  /\ calls = 0 /\ over = FALSE

-----------------------------------------------------------------------------
(***************************************************************************)
(* Text and runs.                                                          *)
(***************************************************************************)

Buffered == medium.buffered
Cap == medium.cap
MinSize == medium.minimum

N == Len(args.kind)
Characters(m, n) == [x \in 1..(n - m) |-> m + x]
Text(i, j) == Characters(args.text[i], args.text[j + 1])
Length(i) == args.text[i + 1] - args.text[i]
Bounds(i, j) == args.room[j + 1] - args.room[i]
Newline == Total(args.text) + 1
Ending(l) == IF l THEN <<Newline>> ELSE <<>>
Whole == Text(1, N) \o Ending(line)

\* The last argument of the longest run from i on of the given kinds.
RunEnd(i, kinds) == Max({i - 1} \cup {j \in i..N : \A k \in i..j : args.kind[k] \in kinds})
HasKind(i, j, kind) == \E k \in i..j : args.kind[k] = kind
\* needprintlf: the newline belongs to a run that reaches the end.
LineAt(j) == line /\ j = N

\* The largest sum of consecutive static bounds.
Burst(i, j) ==
  Max({0} \cup {Bounds(p[1], p[2]) : p \in
    {r \in (i..j) \X (i..j) : r[1] <= r[2] /\ \A k \in r[1]..r[2] : args.kind[k] = "reserve"}})
\* The capture buffer has room for each kind's largest need.
CaptureSize(i, j) ==
  Max({Least, Burst(i, j), IF HasKind(i, j, "context") THEN Window ELSE 0,
       IF HasKind(i, j, "dynamic") THEN Hint ELSE 0})

-----------------------------------------------------------------------------
(***************************************************************************)
(* The stream.                                                             *)
(***************************************************************************)

Counted == calls' = IF calls < 2 THEN calls + 1 ELSE 2

\* write_all: whatever part of the queued text moves on, the rest is in the
\* put area.
WriteAll(text) ==
  /\ Counted
  /\ IF Buffered
     THEN \E k \in 0..Len(put \o text) :
            /\ Len(put \o text) - k <= Cap
            /\ k = 0 \/ k >= Len(put)
            /\ out' = out \o SubSeq(put \o text, 1, k)
            /\ put' = SubSeq(put \o text, k + 1, Len(put \o text))
            /\ area' = (area \/ k < Len(put \o text))
     ELSE out' = out \o text /\ UNCHANGED <<put, area>>

Remaining == IF Buffered /\ area THEN Cap - Len(put) ELSE 0

\* Straight into the put area behind its contents, out of storage with room
\* for bound characters.
PutDirect(text, bound) ==
  /\ put' = put \o text
  /\ over' = (over \/ bound > Remaining)
  /\ UNCHANGED <<area, out, calls>>

\* Mutant: the cursor is reset and the queued text is not written.
ResetAndPut(text, bound) ==
  /\ put' = text /\ area' = TRUE
  /\ Counted
  /\ over' = (over \/ bound > Cap)
  /\ UNCHANGED out

\* obuffer_minimum_size_flush_prepare, then straight into the put area.
FlushAndPut(text, bound) ==
  /\ out' = out \o put /\ put' = text /\ area' = TRUE
  /\ Counted
  /\ over' = (over \/ bound > Cap)

Needs(i, j) == Bounds(i, j) + (IF LineAt(j) THEN 1 ELSE 0)

\* A run of reserve or dynamic arguments, and the newline if it ends there:
\* in place, or by way of storage of its own and one write.
Reserve(i, j) ==
  LET text == Text(i, j) \o Ending(LineAt(j))
  IN CASE Buffered /\ Needs(i, j) <= Remaining -> PutDirect(text, Bounds(i, j) + Len(Ending(LineAt(j))))
       [] Buffered /\ Needs(i, j) > Remaining /\ Needs(i, j) < MinSize /\ ~HasKind(i, j, "dynamic") ->
            FlushAndPut(text, Needs(i, j))
       [] OTHER -> WriteAll(text) /\ UNCHANGED over

-----------------------------------------------------------------------------
(***************************************************************************)
(* Choosing the way: print_controls_impl, print_controls_buffer_impl.      *)
(***************************************************************************)

Then(j) == /\ turn' = j + 1
           /\ stage' = IF j = N THEN "done" ELSE "dispatch"

\* A context with others that go through one capture buffer.
CaptureEnd == RunEnd(turn, {"reserve", "dynamic", "context"})
Captures == ~Buffered /\ turn < N /\ HasKind(turn, CaptureEnd, "context")

\* What is taken together into one write.
GatherEnd ==
  IF Buffered THEN RunEnd(turn, {"scatter"}) ELSE RunEnd(turn, {"scatter", "reserve", "dynamic"})

StartCapture ==
  /\ stage = "dispatch" /\ Captures
  /\ stage' = "capture" /\ head' = turn /\ end' = CaptureEnd /\ made' = 0
  /\ UNCHANGED <<given, turn, buf, outlet, over>>

\* Scatters, or scatters and reserves, as one gather write.
Gather ==
  /\ stage = "dispatch" /\ ~Captures /\ GatherEnd >= turn
  /\ Buffered \/ turn < N \/ args.kind[turn] = "scatter"
  /\ WriteAll(Text(turn, GatherEnd) \o Ending(LineAt(GatherEnd)))
  /\ Then(GatherEnd)
  /\ UNCHANGED <<given, run, made, buf, over>>

\* The static reserves of a buffered stream together, anything else alone.
ReserveRun ==
  LET j == IF Buffered /\ args.kind[turn] = "reserve" THEN RunEnd(turn, {"reserve"}) ELSE turn
  IN /\ stage = "dispatch" /\ ~Captures
     /\ args.kind[turn] \in {"reserve", "dynamic"}
     /\ Buffered \/ turn = N
     /\ Reserve(turn, j)
     /\ Then(j)
     /\ UNCHANGED <<given, run, made, buf>>

\* print_control_single for the rest.
Single ==
  /\ stage = "dispatch" /\ ~Captures
  /\ args.kind[turn] \in {"context", "plain"}
  /\ stage' = IF args.kind[turn] = "plain" THEN "plain" ELSE IF Buffered THEN "context" ELSE "window"
  /\ made' = 0
  /\ UNCHANGED <<given, turn, run, buf, outlet, over>>

-----------------------------------------------------------------------------
(***************************************************************************)
(* One argument at a time.                                                 *)
(***************************************************************************)

\* What a context produces in a window of the given size: something, and all
\* the rest only if it is done.  It may be done with nothing more to write.
Produced(room) == {k \in 0..room : made + k <= Length(turn) /\ (k > 0 \/ made = Length(turn))}
Piece(k) == Characters(args.text[turn] + made, args.text[turn] + made + k)
IsDone(k) == made + k = Length(turn)

\* print_define writes to the stream itself, then the newline is put.
PlainPart ==
  /\ stage = "plain" /\ made < Length(turn)
  /\ \E k \in 1..(Length(turn) - made) : WriteAll(Piece(k)) /\ made' = made + k
  /\ UNCHANGED <<given, turn, stage, run, buf, over>>

PlainEnd ==
  /\ stage = "plain" /\ made = Length(turn)
  /\ IF LineAt(turn) THEN WriteAll(<<Newline>>) ELSE UNCHANGED outlet
  /\ Then(turn)
  /\ UNCHANGED <<given, run, made, buf, over>>

\* The context fills what is left of the put area.
ContextInPlace ==
  /\ stage = "context" /\ Remaining > 0
  /\ \E k \in Produced(Remaining) :
       /\ put' = put \o Piece(k) /\ made' = made + k
       /\ stage' = IF IsDone(k) THEN "plain" ELSE "context"
  /\ UNCHANGED <<given, turn, run, buf, area, out, calls, over>>

Emptied == out' = out \o put /\ put' = <<>>

\* An exhausted put area is flushed; one that has never been allocated stays
\* absent unless the stream promises a minimum.
ContextFlush ==
  /\ stage = "context" /\ Remaining = 0
  /\ Emptied
  /\ area' = (area \/ Window < MinSize)
  /\ Counted
  /\ stage' = IF Window < MinSize \/ (area /\ Cap >= Window) THEN "context" ELSE "window"
  /\ UNCHANGED <<given, turn, run, made, buf, over>>

\* print_context_define_to_window: every window is written at once; the last
\* one takes the newline along.
ContextWindow ==
  /\ stage = "window"
  /\ \E k \in Produced(Window) :
       /\ WriteAll(Piece(k) \o Ending(LineAt(turn) /\ IsDone(k)))
       /\ made' = made + k
       /\ IF IsDone(k) THEN Then(turn) ELSE UNCHANGED <<turn, stage>>
  /\ UNCHANGED <<given, run, buf, over>>

-----------------------------------------------------------------------------
(***************************************************************************)
(* print_context_capture_run.                                              *)
(***************************************************************************)

Size == CaptureSize(head, end)
Room == Size - Len(buf)

FitsBehind == Bounds(turn, turn) <= Room

NextCaptured ==
  IF turn < end THEN turn' = turn + 1 /\ UNCHANGED stage ELSE stage' = "finish" /\ UNCHANGED turn

\* context_capture_flush, and then the argument by its ordinary way.
FlushFirst(text) ==
  /\ buf' = <<>>
  /\ WriteAll(buf \o text)

\* An argument that still fits behind the others, or fits the emptied buffer.
CaptureFits ==
  /\ stage = "capture" /\ args.kind[turn] \in {"reserve", "dynamic"} /\ FitsBehind
  /\ buf' = buf \o Text(turn, turn)
  /\ over' = (over \/ Bounds(turn, turn) > Room)
  /\ NextCaptured
  /\ UNCHANGED <<given, run, made, outlet>>

CaptureFlushes ==
  /\ stage = "capture" /\ args.kind[turn] \in {"reserve", "dynamic"} /\ ~FitsBehind
  /\ IF Bounds(turn, turn) <= Size
     THEN /\ IF buf = <<>> THEN UNCHANGED outlet ELSE WriteAll(buf)
          /\ buf' = Text(turn, turn)
     ELSE FlushFirst(Text(turn, turn))
  /\ NextCaptured
  /\ UNCHANGED <<given, run, made, over>>

\* A context produces into the rest of the buffer, which is flushed when full.
CaptureContext ==
  /\ stage = "capture" /\ args.kind[turn] = "context"
  /\ IF Room = 0
     THEN WriteAll(buf) /\ buf' = <<>> /\ UNCHANGED <<made, turn, stage>>
     ELSE /\ \E k \in Produced(Room) :
               /\ buf' = buf \o Piece(k)
               /\ IF IsDone(k) THEN made' = 0 /\ NextCaptured
                  ELSE made' = made + k /\ UNCHANGED <<turn, stage>>
          /\ UNCHANGED outlet
  /\ UNCHANGED <<given, run, over>>

\* The newline needs a place, and the rest is flushed.
CaptureEnds ==
  /\ stage = "finish"
  /\ IF buf = <<>> /\ ~LineAt(end) THEN UNCHANGED outlet ELSE WriteAll(buf \o Ending(LineAt(end)))
  /\ buf' = <<>>
  /\ Then(end)
  /\ UNCHANGED <<given, run, made, over>>

PrintNext ==
  \/ StartCapture \/ Gather \/ ReserveRun \/ Single
  \/ PlainPart \/ PlainEnd \/ ContextInPlace \/ ContextFlush \/ ContextWindow
  \/ CaptureFits \/ CaptureFlushes \/ CaptureContext \/ CaptureEnds

PrintSpec == PrintInit /\ [][PrintNext]_printVars /\ WF_printVars(PrintNext)

-----------------------------------------------------------------------------
(***************************************************************************)
(* Properties.                                                             *)
(***************************************************************************)

\* The parts have their types, and no cursor leaves its storage.
PrintTypeOK ==
  /\ turn \in 1..(N + 1) /\ head \in 0..N /\ end \in 0..N /\ made \in Nat /\ calls \in Nat
  /\ stage \in {"dispatch", "capture", "finish", "context", "window", "plain", "done"}
  /\ area \in BOOLEAN /\ over \in BOOLEAN
  /\ Len(put) <= Cap /\ (put # <<>> => area)
  /\ stage \in {"capture", "finish"} => Len(buf) <= Size

Printed == out \o put \o buf

\* However the arguments are put together, the text comes out in order, with
\* nothing missing, doubled or overtaken, and println ends it with one newline.
TextInOrder == IsPrefix(Printed, Whole) /\ (stage = "done" => Printed = Whole /\ buf = <<>>)

\* No argument is ever given less storage than it may use.
EnoughRoom == ~over

\* Without a put area a list of ranges and reserves is one write, so lines of
\* several programs on one file do not mix.
OneWrite ==
  ~Buffered /\ (\A i \in 1..N : args.kind[i] \in {"scatter", "reserve", "dynamic"}) => calls <= 1

\* What is printed comes out in order, whatever its kinds and the put area;
\* no argument is given too little storage, and a line of simple arguments to
\* a stream without a put area is one write.
PrintsInOrder == PrintTypeOK /\ TextInOrder /\ EnoughRoom /\ OneWrite

\* Every print ends, whatever windows its contexts fill.
PrintEnds == <>(stage = "done")

=============================================================================
