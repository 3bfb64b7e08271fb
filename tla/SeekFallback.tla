----------------------------- MODULE SeekFallback -----------------------------
(***************************************************************************)
(* Positional output to a handle that can only seek and write: the         *)
(* position is asked for, moved, the bytes are written, and the position   *)
(* is moved back.  Threads share the handle, whose other writes go where   *)
(* its one position is; a lockable stream takes its mutex around each      *)
(* operation.  A write may take less than it is given.                     *)
(***************************************************************************)
EXTENDS Integers

CONSTANTS
  Thread,   \* the threads
  Nobody,   \* no thread
  Locked,   \* the stream has a mutex
  Fails,    \* the system may refuse
  Offsets,  \* where positional writes go
  Lengths,  \* how much is written
  Bound     \* bound: bytes of plain writes

ASSUME SeekFallbackAssumption ==
  /\ Nobody \notin Thread /\ Locked \in BOOLEAN /\ Fails \in BOOLEAN
  /\ Offsets \subseteq Nat /\ Lengths \subseteq Nat \ {0} /\ Bound \in Nat

VARIABLES
  pos,     \* the position of the handle
  owner,   \* who has the mutex
  pc,      \* where each thread is
  kind,    \* "plain", or positional: "some" or "all"
  old,     \* oldoff
  off,     \* where the operation writes
  done,    \* how much it has written
  length,  \* how much it is given
  stream,  \* history: bytes of plain writes
  hit,     \* history: the places each operation has written
  astray   \* history: an operation has failed between its seeks

vars == <<pos, owner, pc, kind, old, off, done, length, stream, hit, astray>>
request == <<kind, off, length>>

Init ==
  /\ pos = 0 /\ owner = Nobody /\ stream = 0 /\ astray = FALSE
  /\ pc = [t \in Thread |-> "idle"] /\ kind = [t \in Thread |-> "plain"]
  /\ old = [t \in Thread |-> 0] /\ off = [t \in Thread |-> 0]
  /\ done = [t \in Thread |-> 0] /\ length = [t \in Thread |-> 0]
  /\ hit = [t \in Thread |-> {}]

-----------------------------------------------------------------------------
\* Mutant: the mutex is not waited for.
MayEnterNot == TRUE

\* The lock guard.
MayEnter == Locked => owner = Nobody

Leave(t) ==
  /\ owner' = IF Locked THEN Nobody ELSE owner
  /\ pc' = [pc EXCEPT ![t] = "idle"] /\ kind' = [kind EXCEPT ![t] = "plain"]
  /\ old' = [old EXCEPT ![t] = 0] /\ off' = [off EXCEPT ![t] = 0]
  /\ done' = [done EXCEPT ![t] = 0] /\ length' = [length EXCEPT ![t] = 0]
  /\ hit' = [hit EXCEPT ![t] = {}]

Enter(t) ==
  /\ pc[t] = "idle" /\ MayEnter
  /\ owner' = IF Locked THEN t ELSE owner
  /\ \E n \in Lengths, o \in Offsets, k \in {"plain", "some", "all"} :
       /\ k = "plain" => stream + n <= Bound
       /\ kind' = [kind EXCEPT ![t] = k] /\ off' = [off EXCEPT ![t] = o]
       /\ length' = [length EXCEPT ![t] = n]
       /\ pc' = [pc EXCEPT ![t] = IF k = "plain" THEN "write" ELSE "ask"]
  /\ UNCHANGED <<pos, old, done, stream, hit, astray>>

\* oldoff: seek by nothing tells the position.
Ask(t) ==
  /\ pc[t] = "ask" /\ pc' = [pc EXCEPT ![t] = "go"]
  /\ old' = [old EXCEPT ![t] = pos]
  /\ UNCHANGED <<pos, owner, request, done, stream, hit, astray>>

Go(t) ==
  /\ pc[t] = "go" /\ pc' = [pc EXCEPT ![t] = "write"]
  /\ pos' = off[t]
  /\ UNCHANGED <<owner, request, old, done, stream, hit, astray>>

\* One write of the system, which takes a part.
Write(t) ==
  /\ pc[t] = "write"
  /\ \E k \in 0..(length[t] - done[t]) :
       /\ kind[t] = "some" \/ k > 0
       /\ pos' = pos + k
       /\ stream' = IF kind[t] = "plain" THEN stream + k ELSE stream
       /\ IF kind[t] = "plain" /\ done[t] + k = length[t] THEN Leave(t)
          ELSE /\ done' = [done EXCEPT ![t] = @ + k]
               /\ hit' = [hit EXCEPT ![t] = @ \union pos..(pos + k - 1)]
               /\ pc' = [pc EXCEPT ![t] =
                           IF kind[t] = "some" \/ done[t] + k = length[t] THEN "back" ELSE "write"]
               /\ UNCHANGED <<owner, request, old>>
  /\ UNCHANGED astray

\* Mutant: the position stays where the bytes end.
BackNot(t) == pos

\* The seek to oldoff.
OldPosition(t) == old[t]

Back(t) ==
  /\ pc[t] = "back" /\ Leave(t)
  /\ pos' = OldPosition(t)
  /\ UNCHANGED <<stream, astray>>

\* A seek or a write throws; nothing moves the position back.
Throws(t) ==
  /\ Fails /\ pc[t] # "idle" /\ Leave(t)
  /\ astray' = (astray \/ (pc[t] \in {"write", "back"} /\ kind[t] # "plain"))
  /\ UNCHANGED <<pos, stream>>

Next ==
  \E t \in Thread : Enter(t) \/ Ask(t) \/ Go(t) \/ Write(t) \/ Back(t) \/ Throws(t)

Spec == Init /\ [][Next]_vars

-----------------------------------------------------------------------------
(***************************************************************************)
(* Properties.                                                             *)
(***************************************************************************)

TypeOK ==
  /\ pos \in Nat /\ owner \in Thread \union {Nobody} /\ stream \in Nat /\ astray \in BOOLEAN
  /\ pc \in [Thread -> {"idle", "ask", "go", "write", "back"}]
  /\ kind \in [Thread -> {"plain", "some", "all"}]
  /\ old \in [Thread -> Nat] /\ off \in [Thread -> Nat]
  /\ done \in [Thread -> Nat] /\ length \in [Thread -> Nat]
  /\ hit \in [Thread -> SUBSET Nat]

\* A positional write that has returned has not moved the stream: whoever
\* writes next goes on where the stream's own writes have ended.
StreamKept == ~astray /\ owner = Nobody => pos = stream

\* The bytes of a positional write, whole or in part, are at its offset.
Placed ==
  \A t \in Thread : pc[t] = "back" => hit[t] = off[t]..(off[t] + done[t] - 1)

=============================================================================
