------------------------------- MODULE Transmit -------------------------------
(***************************************************************************)
(* transmit_all, transmit_some and transmit_until_eof: copies from stream  *)
(* to stream through a bounded staging buffer, by several threads on       *)
(* streams they share.  A stream has one side that is read and one that is *)
(* written (a socket, a file open for both) and perhaps a mutex; a copy    *)
(* holds the output's and then the input's for the whole transfer.         *)
(*                                                                         *)
(* Element i of the data of stream s is the value <<s, i>>; what is        *)
(* written keeps the name of the thread next to it.                        *)
(***************************************************************************)
EXTENDS Naturals, Sequences, FiniteSets

CONSTANTS
  Movers,   \* the threads, each with one copy to make
  Streams,
  Lockable, \* the streams that have a mutex
  Job,      \* Job[m]: a record of kind, to, from and (but for "eof") count
  Data,     \* Data[s]: number of elements there are to read in stream s
  Block,    \* elements of the staging buffer (transmit_buffer_size_cache)
  MaxPos,   \* the largest uintfpos_t
  MaxErrs,  \* bound: failing system calls
  NoMover

TransmitAssumption ==
  /\ NoMover \notin Movers /\ Lockable \subseteq Streams
  /\ \A m \in Movers :
       /\ Job[m].kind \in {"all", "some", "eof"}
       /\ {Job[m].to, Job[m].from} \subseteq Streams
       /\ Job[m].count \in Nat
  /\ Data \in [Streams -> Nat]
  /\ Block \in Nat \ {0} /\ MaxPos \in Nat /\ MaxErrs \in Nat

VARIABLES
  state,  \* "lockout", "lockin", "read", "write", "unlockin", "unlockout", "out"
  res,    \* "none", "ok" or "error"
  left,   \* totransmit: elements still to copy ("all" and "some")
  total,  \* the sum transmit_until_eof returns
  block,  \* the elements in the staging buffer
  done,   \* of these, the ones write_all has put out
  taken,  \* taken[s]: elements of stream s that have been read
  sink,   \* sink[s]: what has been written to stream s, with its writer
  holder, \* holder[s]: the thread that has locked the mutex of s
  got,    \* history: the elements a thread has read
  errs    \* history: failed system calls

copyVars == <<state, res, left, total, block, done, taken, sink, holder, got, errs>>

CopyInit ==
  /\ state = [m \in Movers |-> "lockout"] /\ res = [m \in Movers |-> "none"]
  /\ left = [m \in Movers |-> Job[m].count] /\ total = [m \in Movers |-> 0]
  /\ block = [m \in Movers |-> <<>>] /\ done = [m \in Movers |-> 0]
  /\ taken = [s \in Streams |-> 0] /\ sink = [s \in Streams |-> <<>>]
  /\ holder = [s \in Streams |-> NoMover]
  /\ got = [m \in Movers |-> <<>>] /\ errs = 0

To(m) == Job[m].to
From(m) == Job[m].from
Kind(m) == Job[m].kind
Lesser(a, b) == IF a < b THEN a ELSE b

Lock(m, s) ==
  /\ s \in Lockable => holder[s] = NoMover
  /\ holder' = IF s \in Lockable THEN [holder EXCEPT ![s] = m] ELSE holder

Unlock(m, s) ==
  holder' = IF s \in Lockable THEN [holder EXCEPT ![s] = NoMover] ELSE holder

\* The end of the body, by return or by exception.
Leave(m, how) == state' = [state EXCEPT ![m] = "unlockin"] /\ res' = [res EXCEPT ![m] = how]

-----------------------------------------------------------------------------
\* Mutant: bounded copies lock the input first.
LockOutputSwapped(m) ==
  /\ state[m] = "lockout"
  /\ Lock(m, IF Kind(m) = "some" THEN From(m) ELSE To(m))
  /\ state' = [state EXCEPT ![m] = "lockin"]
  /\ UNCHANGED <<res, left, total, block, done, taken, sink, got, errs>>

LockOutput(m) ==
  /\ state[m] = "lockout"
  /\ Lock(m, To(m))
  /\ state' = [state EXCEPT ![m] = "lockin"]
  /\ UNCHANGED <<res, left, total, block, done, taken, sink, got, errs>>

\* A copy of nothing takes the locks too, and returns before it reads.
LockInput(m) ==
  /\ state[m] = "lockin"
  /\ Lock(m, From(m))
  /\ IF Kind(m) # "eof" /\ left[m] = 0
     THEN Leave(m, "ok")
     ELSE state' = [state EXCEPT ![m] = "read"] /\ UNCHANGED res
  /\ UNCHANGED <<left, total, block, done, taken, sink, got, errs>>

\* this_round, or the whole staging buffer when there is no count.
Round(m) == IF Kind(m) = "eof" THEN Block ELSE Lesser(Block, left[m])

\* Elements the stream still has to give.
Ready(m) == Data[From(m)] - taken[From(m)]

\* k elements come off the stream into the staging buffer, behind the ones
\* read_all has there already.
Takes(m, k) ==
  LET new == [i \in 1..k |-> <<From(m), taken[From(m)] + i>>]
  IN  /\ taken' = [taken EXCEPT ![From(m)] = @ + k]
      /\ block' = [block EXCEPT ![m] = @ \o new]
      /\ got' = [got EXCEPT ![m] = @ \o new]

\* What a read may still put into the staging buffer.
Want(m) == Round(m) - Len(block[m])

\* read_some, or one turn of read_all, which goes on until the round is full.
ReadBlock(m) ==
  /\ state[m] = "read"
  /\ \E k \in 1..Lesser(Want(m), Ready(m)) :
       /\ Takes(m, k)
       /\ state' = [state EXCEPT ![m] = IF Kind(m) = "all" /\ k < Want(m)
                                        THEN "read" ELSE "write"]
  /\ UNCHANGED <<res, left, total, done, sink, holder, errs>>

\* The end of the data: an exception out of read_all, the end of the loop
\* for the other two.
EndOfData(m) ==
  /\ state[m] = "read" /\ Ready(m) = 0
  /\ Leave(m, IF Kind(m) = "all" THEN "error" ELSE "ok")
  /\ UNCHANGED <<left, total, block, done, taken, sink, holder, got, errs>>

\* transmit_integer_add_define
Add(a, b) == IF MaxPos - b < a THEN MaxPos ELSE a + b

\* The end of a round: it is added or subtracted, and the loop asked again.
CountOff(m) ==
  IF Kind(m) = "eof"
  THEN /\ total' = [total EXCEPT ![m] = Add(@, Len(block[m]))]
       /\ state' = [state EXCEPT ![m] = "read"] /\ UNCHANGED <<left, res>>
  ELSE /\ left' = [left EXCEPT ![m] = @ - Len(block[m])]
       /\ IF left[m] = Len(block[m])
          THEN Leave(m, "ok")
          ELSE state' = [state EXCEPT ![m] = "read"] /\ UNCHANGED res
       /\ UNCHANGED total

\* Mutant: what a short write leaves over is dropped.
WriteOnce(m) ==
  /\ state[m] = "write"
  /\ \E k \in 1..(Len(block[m]) - done[m]) :
       /\ sink' = [sink EXCEPT ![To(m)] =
                     @ \o [i \in 1..k |-> <<m, block[m][done[m] + i]>>]]
       /\ done' = [done EXCEPT ![m] = 0]
       /\ block' = [block EXCEPT ![m] = <<>>]
       /\ CountOff(m)
  /\ UNCHANGED <<taken, holder, got, errs>>

\* One turn of write_all: the handle takes part of what is left of the block.
WriteBlock(m) ==
  /\ state[m] = "write"
  /\ \E k \in 1..(Len(block[m]) - done[m]) :
       /\ sink' = [sink EXCEPT ![To(m)] =
                     @ \o [i \in 1..k |-> <<m, block[m][done[m] + i]>>]]
       /\ IF done[m] + k < Len(block[m])
          THEN /\ done' = [done EXCEPT ![m] = @ + k]
               /\ UNCHANGED <<state, res, left, total, block>>
          ELSE /\ done' = [done EXCEPT ![m] = 0]
               /\ block' = [block EXCEPT ![m] = <<>>]
               /\ CountOff(m)
  /\ UNCHANGED <<taken, holder, got, errs>>

\* A system call fails: the staging buffer goes with the stack frame.
Throw(m) ==
  /\ state[m] \in {"read", "write"}
  /\ errs < MaxErrs /\ errs' = errs + 1
  /\ Leave(m, "error")
  /\ UNCHANGED <<left, total, block, done, taken, sink, holder, got>>

\* ~stream_ref_decay_lock_guard of the input, then of the output.
UnlockInput(m) ==
  /\ state[m] = "unlockin"
  /\ Unlock(m, From(m))
  /\ state' = [state EXCEPT ![m] = "unlockout"]
  /\ UNCHANGED <<res, left, total, block, done, taken, sink, got, errs>>

UnlockOutput(m) ==
  /\ state[m] = "unlockout"
  /\ Unlock(m, To(m))
  /\ state' = [state EXCEPT ![m] = "out"]
  /\ UNCHANGED <<res, left, total, block, done, taken, sink, got, errs>>

Run(m) ==
  \/ LockOutput(m) \/ LockInput(m) \/ ReadBlock(m) \/ EndOfData(m) \/ WriteBlock(m)
  \/ UnlockInput(m) \/ UnlockOutput(m)

\* A thread of M goes on.
Copying(M) == \E m \in M : Run(m) \/ Throw(m)

CopyNext == Copying(Movers)

CopySpec == CopyInit /\ [][CopyNext]_copyVars

\* Every thread is scheduled; a failing system call is never owed to it.
FairCopySpec == CopySpec /\ \A m \in Movers : WF_copyVars(Run(m))

-----------------------------------------------------------------------------
(***************************************************************************)
(* Correctness.                                                            *)
(***************************************************************************)

CopyTypeOK ==
  /\ state \in [Movers -> {"lockout", "lockin", "read", "write", "unlockin",
                        "unlockout", "out"}]
  /\ res \in [Movers -> {"none", "ok", "error"}]
  /\ left \in [Movers -> Nat] /\ total \in [Movers -> 0..MaxPos]
  /\ block \in [Movers -> Seq(Streams \X Nat)]
  /\ done \in [Movers -> Nat]
  /\ \A m \in Movers : Len(block[m]) <= Block /\ done[m] <= Len(block[m])
  /\ taken \in [Streams -> Nat] /\ \A s \in Streams : taken[s] <= Data[s]
  /\ sink \in [Streams -> Seq(Movers \X (Streams \X Nat))]
  /\ holder \in [Streams -> Movers \cup {NoMover}]
  /\ got \in [Movers -> Seq(Streams \X Nat)] /\ errs \in Nat

\* The places of what thread m has written.
Places(m) == {i \in 1..Len(sink[To(m)]) : sink[To(m)][i][1] = m}

\* How much thread m has written.
Sent(m) == Len(got[m]) - Len(block[m]) + done[m]

\* What a thread has read is written once each and in the order it was read,
\* whatever the sizes of the pieces; what is missing is at most what lies in
\* the staging buffer, also when an exception ends the copy.
Delivered ==
  \A m \in Movers :
    /\ Cardinality(Places(m)) = Sent(m)
    /\ \A i \in Places(m) :
         sink[To(m)][i][2] = got[m][Cardinality({j \in Places(m) : j <= i})]

\* A copy returns without an exception only when everything it has read is
\* out; the number it returns is how much that is; and it is short of the
\* number asked for only at the end of the data.
ResultIsTrue ==
  \A m \in Movers : res[m] = "ok" =>
    /\ Sent(m) = Len(got[m])
    /\ CASE Kind(m) = "all"  -> Sent(m) = Job[m].count
         [] Kind(m) = "some" -> /\ Job[m].count - left[m] = Sent(m)
                                /\ left[m] > 0 => Ready(m) = 0
         [] OTHER            -> /\ total[m] = Lesser(Sent(m), MaxPos)
                                /\ Ready(m) = 0

\* A counted copy never takes more off its input than it was asked to.
NeverDrainsBeyond ==
  \A m \in Movers : Kind(m) # "eof" => Len(got[m]) <= Job[m].count

\* What one copy writes to a stream with a mutex is one piece of it, and what
\* it reads from one is one piece of that, whoever else uses the two.
OnePiece ==
  \A m \in Movers :
    /\ To(m) \in Lockable => \A i, j \in Places(m) : i..j \subseteq Places(m)
    /\ From(m) \in Lockable =>
         \A i \in 1..(Len(got[m]) - 1) : got[m][i + 1][2] = got[m][i][2] + 1

\* What a copy reads it writes, once each and in order, in one piece of a
\* stream with a mutex; its result is what it has copied, and a counted copy
\* leaves the rest in its input.
CopiesDeliver == CopyTypeOK /\ Delivered /\ OnePiece /\ ResultIsTrue /\ NeverDrainsBeyond

\* The stream whose mutex a thread is waiting for.
Wanted(m) == IF state[m] = "lockout" THEN {To(m)} \cap Lockable
             ELSE IF state[m] = "lockin" THEN {From(m)} \cap Lockable ELSE {}

\* Threads none of which can go on before another of them has.
Stuck(M) == M # {} /\ \A m \in M : \E s \in Wanted(m) : holder[s] \in M

\* Copies in a circle: each reads what another, or it itself, writes.
Circle(M) == \A m \in M : \E n \in M : From(m) = To(n)

\* Copies wait for each other for ever only where some of them run in a
\* circle, which the code does not exclude (common.h says so): copies of
\* different kinds never take two mutexes in opposite orders.
StuckOnlyInCircle ==
  \A M \in SUBSET Movers :
    Stuck(M) => \E N \in SUBSET M : N # {} /\ Circle(N)

\* Where copies do not run in a circle all of them end, with every mutex free
\* again.
AllOut(M) == <>[](/\ \A m \in M : state[m] = "out"
                  /\ \A s \in Streams : holder[s] = NoMover)
=============================================================================
