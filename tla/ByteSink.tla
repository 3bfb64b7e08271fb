------------------------------ MODULE ByteSink ------------------------------
(***************************************************************************)
(* What a buffered output stream promises to the code that writes to it,   *)
(* without saying when or in which pieces the bytes travel.                *)
(*                                                                         *)
(*   out     what the underlying target has received so far                *)
(*   queue   what the stream has accepted and not handed over yet          *)
(*   sealed  the final contents of the targets the stream was bound to     *)
(*           before and has let go of                                      *)
(*   gone    the stream exists no longer                                   *)
(***************************************************************************)
EXTENDS Naturals, Sequences, SequencesExt

VARIABLES out, queue, sealed, gone

Init == out = <<>> /\ queue = <<>> /\ sealed = {} /\ gone = FALSE

\* Bytes only move forward: what was received stays received, what was queued
\* stays in order in front of whatever the step accepts.
Forward ==
  /\ ~gone
  /\ IsPrefix(out, out')
  /\ IsPrefix(out \o queue, out' \o queue')
  /\ UNCHANGED <<sealed, gone>>

\* The bytes the target received in a step that grew it.
Received == SubSeq(out', Len(out) + 1, Len(out'))

\* A call that failed part way: the target saw the first bytes of the queue,
\* then possibly the first bytes of the failed request; the queue is kept, so
\* the next attempt sends its head again.
Fail ==
  /\ ~gone
  /\ IsPrefix(out, out')
  /\ IsPrefix(Received, queue) \/ IsPrefix(queue, Received)
  /\ UNCHANGED <<queue, sealed, gone>>

\* The stream moves to a fresh target; the old one got everything queued.
Rebind ==
  /\ ~gone
  /\ sealed' = sealed \cup {out \o queue}
  /\ out' = <<>>
  /\ queue' = <<>>
  /\ UNCHANGED gone

\* The stream ends: it hands over its queue as far as the target takes it.
Retire ==
  /\ ~gone /\ gone' = TRUE
  /\ IsPrefix(out, out')
  /\ IsPrefix(Received, queue)
  /\ queue' = <<>>
  /\ UNCHANGED sealed

Next == Forward \/ Fail \/ Rebind \/ Retire

Spec == Init /\ [][Next]_<<out, queue, sealed, gone>>
=============================================================================
