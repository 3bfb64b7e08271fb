----------------------------- MODULE ScatterWrite -----------------------------
(***************************************************************************)
(* scatter_write_all_bytes and scatter_pwrite_all_bytes over a POSIX       *)
(* handle: the retry loops that finish a gathered write the kernel took    *)
(* only part of, run by several threads on one open file, either with      *)
(* explicit offsets, or through the file's own position, or through the    *)
(* position under the lock of a basic_io_lockable.                         *)
(*                                                                         *)
(* Byte j of thread w is the value <<w, j>>, so that every place of the    *)
(* file tells who wrote what there.                                        *)
(***************************************************************************)
EXTENDS ScatterCalls

CONSTANT FileSize \* bound: places of the file that are looked at

ScatterAssumption == CallsAssumption /\ FileSize \in Nat

VARIABLES
  positional, \* scatter_pwrite_all, else scatter_write_all
  locked,     \* the stream has a mutex, and the call takes it
  edge,       \* the descriptors of each thread's call
  at,         \* pscatters: the first descriptor not finished
  tail,       \* bytes of that descriptor already written, in the inner write_all
  offset,     \* the offset the next positional write goes to
  st,         \* "ready", "gather", "tail", "unlock" or "out"
  res,        \* how the call ends: "none" yet, "ok" or "error"
  file,       \* what is where
  cursor,     \* the position of the open file
  holder,     \* the thread that has locked the mutex
  errs        \* history: failed system calls

writeVars == <<positional, locked, edge, at, tail, offset, st, res, file, cursor,
               holder, errs>>

Hole == <<NoCaller, 0>>

WriteInit ==
  /\ \E way \in Ways : positional = way[1] /\ locked = way[2]
  /\ edge \in [Callers -> Lists]
  /\ at = [w \in Callers |-> 1]
  /\ tail = [w \in Callers |-> 0]
  /\ offset = Origin
  /\ st = [w \in Callers |-> "ready"]
  /\ res = [w \in Callers |-> "none"]
  /\ file = [x \in 0..(FileSize - 1) |-> Hole]
  /\ cursor = 0
  /\ holder = NoCaller
  /\ errs = 0

Sent(w) == edge[w][at[w]] + tail[w]

(***************************************************************************)
(* The kernel takes the next k bytes of thread w.                          *)
(***************************************************************************)

WritePlace(w) == IF positional THEN offset[w] ELSE cursor

Takes(w, k) ==
  /\ WritePlace(w) + k <= FileSize
  /\ file' = [x \in DOMAIN file |->
                IF x \in WritePlace(w)..(WritePlace(w) + k - 1)
                THEN <<w, Sent(w) + x - WritePlace(w) + 1>> ELSE file[x]]
  /\ cursor' = IF positional THEN cursor ELSE cursor + k
  /\ offset' = IF positional THEN [offset EXCEPT ![w] = @ + k] ELSE offset

\* What may be taken of a request of m bytes.  A kernel that takes nothing
\* of a nonempty request leaves the loop where it is, which is no step.
Accepts(m) == IF m = 0 THEN {0} ELSE 1..m

-----------------------------------------------------------------------------
\* An empty list returns before the lock is taken.
BeginWrite(w) ==
  /\ st[w] = "ready"
  /\ holder' = IF locked THEN w ELSE holder
  /\ locked => holder = NoCaller
  /\ st' = [st EXCEPT ![w] = "gather"]
  /\ UNCHANGED <<positional, locked, edge, at, tail, offset, res, file, cursor, errs>>

\* Leaving the call, normally or by exception, runs the guard's destructor.
LeaveWrite(w, how) ==
  /\ st' = [st EXCEPT ![w] = "unlock"]
  /\ res' = [res EXCEPT ![w] = how]

\* Mutant: the bytes of a partly written descriptor are written again.
AdvanceForgetsPart(w, pos, part) ==
  /\ at' = [at EXCEPT ![w] = pos]
  /\ tail' = [tail EXCEPT ![w] = 0]
  /\ IF pos = Len(edge[w]) THEN LeaveWrite(w, "ok")
     ELSE /\ st' = [st EXCEPT ![w] = IF part > 0 THEN "tail" ELSE "gather"]
          /\ UNCHANGED res

\* What the loop does with a status: return, or finish the descriptor the
\* kernel stopped in with write_all, or go round again behind it.
AdvanceWrite(w, pos, part) ==
  /\ at' = [at EXCEPT ![w] = pos]
  /\ tail' = [tail EXCEPT ![w] = part]
  /\ IF pos = Len(edge[w]) THEN LeaveWrite(w, "ok")
     ELSE /\ st' = [st EXCEPT ![w] = IF part > 0 THEN "tail" ELSE "gather"]
          /\ UNCHANGED res

\* One scatter_write_some or scatter_pwrite_some.
GatherWrite(w) ==
  /\ st[w] = "gather"
  /\ LET e == edge[w]
         last == Offered(e, at[w], MaxCount)
     IN  \E k \in Accepts(e[last] - e[at[w]]) :
           LET pos == Position(e, at[w], last, k)
           IN  /\ Takes(w, k)
               /\ AdvanceWrite(w, pos, k - (e[pos] - e[at[w]]))
  /\ UNCHANGED <<positional, locked, edge, holder, errs>>

\* One write_some of the inner write_all.  When the last descriptor is done
\* the loop asks for an empty list, which is complete.
FinishWrite(w) ==
  /\ st[w] = "tail"
  /\ LET rest == edge[w][at[w] + 1] - edge[w][at[w]] - tail[w]
     IN  \E k \in Accepts(rest) :
           /\ Takes(w, k)
           /\ IF k < rest
              THEN /\ tail' = [tail EXCEPT ![w] = @ + k]
                   /\ UNCHANGED <<at, st, res>>
              ELSE AdvanceWrite(w, at[w] + 1, 0)
  /\ UNCHANGED <<positional, locked, edge, holder, errs>>

\* A system call fails (EINTR among the reasons): the exception leaves both
\* loops, and nothing is undone.
ThrowWrite(w) ==
  /\ st[w] \in {"gather", "tail"}
  /\ errs < MaxErrs /\ errs' = errs + 1
  /\ LeaveWrite(w, "error")
  /\ UNCHANGED <<positional, locked, edge, at, tail, offset, file, cursor, holder>>

\* Mutant: an exception leaves the mutex locked.
UnlockOnReturnOnly(w) ==
  /\ st[w] = "unlock"
  /\ holder' = IF locked /\ res[w] = "ok" THEN NoCaller ELSE holder
  /\ st' = [st EXCEPT ![w] = "out"]
  /\ UNCHANGED <<positional, locked, edge, at, tail, offset, res, file, cursor, errs>>

\* ~stream_ref_decay_lock_guard
UnlockWrite(w) ==
  /\ st[w] = "unlock"
  /\ holder' = IF locked THEN NoCaller ELSE holder
  /\ st' = [st EXCEPT ![w] = "out"]
  /\ UNCHANGED <<positional, locked, edge, at, tail, offset, res, file, cursor, errs>>

\* What the code of a thread does by itself.
CallWrite(w) == BeginWrite(w) \/ GatherWrite(w) \/ FinishWrite(w) \/ UnlockWrite(w)

StepWrite(w) == CallWrite(w) \/ ThrowWrite(w)

WriteNext == \E w \in Callers : StepWrite(w)

WriteSpec == WriteInit /\ [][WriteNext]_writeVars

\* Every thread is scheduled; a failing system call is never owed to it.
FairWriteSpec == WriteSpec /\ \A w \in Callers : WF_writeVars(CallWrite(w))

-----------------------------------------------------------------------------
(***************************************************************************)
(* Correctness.                                                            *)
(***************************************************************************)

WriteTypeOK ==
  /\ positional \in BOOLEAN /\ locked \in BOOLEAN
  /\ edge \in [Callers -> Lists]
  /\ \A w \in Callers :
       /\ at[w] \in 1..Len(edge[w])
       /\ tail[w] \in Nat
       /\ st[w] = "tail" => /\ at[w] <= Count(edge[w])
                            /\ edge[w][at[w]] + tail[w] < edge[w][at[w] + 1]
  /\ offset \in [Callers -> Nat]
  /\ st \in [Callers -> {"ready", "gather", "tail", "unlock", "out"}]
  /\ res \in [Callers -> {"none", "ok", "error"}]
  /\ file \in [0..(FileSize - 1) -> {Hole} \cup (Callers \X Nat)]
  /\ cursor \in Nat
  /\ holder \in Callers \cup {NoCaller}
  /\ errs \in Nat

\* Where thread w's bytes are, as a set of places.
Places(w) == {x \in DOMAIN file : file[x][1] = w}

\* The bytes of a call reach the file once each and in order, whatever the
\* sizes of the pieces and whoever writes in between: the places of thread w
\* hold exactly its first Sent(w) bytes, later ones further on.
OnceInOrder ==
  \A w \in Callers :
    /\ {file[x] : x \in Places(w)} = {w} \X (1..Sent(w))
    /\ \A x, y \in Places(w) : x < y => file[x][2] < file[y][2]

\* A call returns without an exception only when all of its bytes are out,
\* the ones behind the kernel's limit on descriptors included.
OkIsComplete == \A w \in Callers : res[w] = "ok" => Sent(w) = Total(edge[w])

\* Positional writes land at their offset, and leave the position of the
\* file, which other threads write through, alone.
AtItsOffset ==
  /\ \A w \in Callers :
       \A i \in 1..Sent(w) : file[Origin[w] + i - 1] = <<w, i>>
  /\ cursor = 0

\* Under the lock the record of a call is one piece of the file, also when
\* the kernel cut it up and other threads were waiting to write.
Contiguous ==
  \A w \in Callers : \A x, y \in Places(w) : x..y \subseteq Places(w)

\* The threads pass offsets so far apart that none writes over another.
Apart ==
  \A v, w \in Callers : v # w => \A d, e \in Lists :
    Origin[v] + Total(d) <= Origin[w] \/ Origin[w] + Total(e) <= Origin[v]

\* A call with several descriptors writes each byte once, in order; under the
\* mutex in one piece of the file, with an offset there and without moving
\* the position; and it returns without an exception only when all are out.
ScattersInOrder ==
  /\ WriteTypeOK /\ OkIsComplete
  /\ ~positional => OnceInOrder
  /\ locked /\ ~positional => Contiguous
  /\ positional /\ Apart => AtItsOffset

\* Every call comes back, and with the lock free again for the next one.
WritersOut == <>[](holder = NoCaller /\ \A w \in Callers : st[w] = "out")
=============================================================================
