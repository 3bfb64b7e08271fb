----------------------------- MODULE ScatterRead -----------------------------
(***************************************************************************)
(* scatter_read_all_bytes and scatter_pread_all_bytes over a POSIX handle: *)
(* the retry loops that fill a list of descriptors from reads which give   *)
(* less than they were asked for, until the list is full or the data ends. *)
(* Several threads read one open file: with offsets of their own, through  *)
(* the file's position, or through it under the mutex of a lockable        *)
(* stream.                                                                 *)
(*                                                                         *)
(* The bytes of the file are numbered from 1, so that every place of a     *)
(* destination tells what it was filled with.                              *)
(***************************************************************************)
EXTENDS ScatterCalls

CONSTANT Sizes \* what the length of the file may be

ScatterReadAssumption == CallsAssumption /\ Sizes \subseteq Nat

VARIABLES
  size,     \* of the file
  byOffset, \* scatter_pread_all, else scatter_read_all
  mutexed,  \* the stream has a mutex, and the call takes it
  want,     \* the descriptors of each thread's call
  nth,      \* pscatters: the first descriptor not finished
  partly,   \* bytes of it already read, in the inner read_all
  reach,    \* the offset the next positional read starts at
  phase,    \* "ready", "gather", "tail", "unlock" or "out"
  outcome,  \* how the call ends: "none" yet, "ok", "end" of the file or "error"
  dest,     \* dest[r][j]: the byte at place j of the destination, or 0
  front,    \* the position of the open file
  keeper,   \* the thread that has locked the mutex
  failures  \* history: failed system calls

readVars == <<size, byOffset, mutexed, want, nth, partly, reach, phase, outcome, dest,
              front, keeper, failures>>

ReadInit ==
  /\ size \in Sizes
  /\ \E way \in Ways : byOffset = way[1] /\ mutexed = way[2]
  /\ want \in [Callers -> Lists]
  /\ nth = [r \in Callers |-> 1] /\ partly = [r \in Callers |-> 0]
  /\ reach = Origin
  /\ phase = [r \in Callers |-> "ready"] /\ outcome = [r \in Callers |-> "none"]
  /\ dest = [r \in Callers |-> [j \in 1..Total(want[r]) |-> 0]]
  /\ front = 0 /\ keeper = NoCaller /\ failures = 0

Got(r) == want[r][nth[r]] + partly[r]
ReadPlace(r) == IF byOffset THEN reach[r] ELSE front

-----------------------------------------------------------------------------
\* What a read of m bytes may give: at least one byte unless the file ends,
\* and none at or behind the end.
Gives(r, m) ==
  {k \in 0..m : IF k = 0 THEN m = 0 \/ ReadPlace(r) >= size ELSE ReadPlace(r) + k <= size}

\* The next k bytes go where thread r has got to.
Fills(r, k) ==
  /\ dest' = [dest EXCEPT ![r] = [j \in DOMAIN @ |->
                IF j \in (Got(r) + 1)..(Got(r) + k)
                THEN ReadPlace(r) + j - Got(r) ELSE @[j]]]
  /\ IF byOffset THEN reach' = [reach EXCEPT ![r] = @ + k] /\ UNCHANGED front
                 ELSE front' = front + k /\ UNCHANGED reach

\* Leaving the call, normally or by exception, runs the guard's destructor.
LeaveRead(r, how) ==
  /\ phase' = [phase EXCEPT ![r] = "unlock"]
  /\ outcome' = [outcome EXCEPT ![r] = how]

\* Mutant: a read that ends with a descriptor is taken for the end.
NoneGot(pos, from, part) == part = 0

\* The status that stands for the end of the data.
Nothing(pos, from, part) == pos = from /\ part = 0

\* What the loop does with a status.
AdvanceRead(r, pos, part) ==
  /\ nth' = [nth EXCEPT ![r] = pos]
  /\ partly' = [partly EXCEPT ![r] = part]
  /\ CASE pos = Len(want[r]) -> LeaveRead(r, "ok")
       [] pos < Len(want[r]) /\ Nothing(pos, nth[r], part) -> LeaveRead(r, "end")
       [] OTHER -> /\ phase' = [phase EXCEPT ![r] = IF part > 0 THEN "tail" ELSE "gather"]
                   /\ UNCHANGED outcome

-----------------------------------------------------------------------------
BeginRead(r) ==
  /\ phase[r] = "ready"
  /\ mutexed => keeper = NoCaller
  /\ keeper' = IF mutexed THEN r ELSE keeper
  /\ phase' = [phase EXCEPT ![r] = "gather"]
  /\ UNCHANGED <<size, byOffset, mutexed, want, nth, partly, reach, outcome, dest,
                 front, failures>>

\* One scatter_read_some or scatter_pread_some.
GatherRead(r) ==
  /\ phase[r] = "gather"
  /\ LET e == want[r]
         last == Offered(e, nth[r], MaxCount)
     IN  \E k \in Gives(r, e[last] - e[nth[r]]) :
           LET pos == Position(e, nth[r], last, k)
           IN  Fills(r, k) /\ AdvanceRead(r, pos, k - (e[pos] - e[nth[r]]))
  /\ UNCHANGED <<size, byOffset, mutexed, want, keeper, failures>>

\* One read_some of the inner read_all.  When the last descriptor is full the
\* loop asks for an empty list, which is complete.
FinishRead(r) ==
  /\ phase[r] = "tail"
  /\ LET rest == want[r][nth[r] + 1] - Got(r)
     IN  \E k \in Gives(r, rest) :
           /\ Fills(r, k)
           /\ CASE k = rest -> AdvanceRead(r, nth[r] + 1, 0)
                [] k = 0 -> LeaveRead(r, "end") /\ UNCHANGED <<nth, partly>>
                [] OTHER -> /\ partly' = [partly EXCEPT ![r] = @ + k]
                            /\ UNCHANGED <<nth, phase, outcome>>
  /\ UNCHANGED <<size, byOffset, mutexed, want, keeper, failures>>

\* A system call fails: the exception leaves both loops.
ThrowRead(r) ==
  /\ phase[r] \in {"gather", "tail"}
  /\ failures < MaxErrs /\ failures' = failures + 1
  /\ LeaveRead(r, "error")
  /\ UNCHANGED <<size, byOffset, mutexed, want, nth, partly, reach, dest, front, keeper>>

\* ~stream_ref_decay_lock_guard
UnlockRead(r) ==
  /\ phase[r] = "unlock"
  /\ keeper' = IF mutexed THEN NoCaller ELSE keeper
  /\ phase' = [phase EXCEPT ![r] = "out"]
  /\ UNCHANGED <<size, byOffset, mutexed, want, nth, partly, reach, outcome, dest,
                 front, failures>>

\* What the code of a thread does by itself.
CallRead(r) == BeginRead(r) \/ GatherRead(r) \/ FinishRead(r) \/ UnlockRead(r)

ReadNext == \E r \in Callers : CallRead(r) \/ ThrowRead(r)

ReadSpec == ReadInit /\ [][ReadNext]_readVars

\* Every thread is scheduled; a failing system call is never owed to it.
FairReadSpec == ReadSpec /\ \A r \in Callers : WF_readVars(CallRead(r))

-----------------------------------------------------------------------------
ReadTypeOK ==
  /\ size \in Sizes /\ byOffset \in BOOLEAN /\ mutexed \in BOOLEAN
  /\ want \in [Callers -> Lists]
  /\ \A r \in Callers :
       /\ nth[r] \in 1..Len(want[r]) /\ partly[r] \in Nat
       /\ phase[r] = "tail" => nth[r] <= Count(want[r]) /\ partly[r] > 0
       /\ dest[r] \in [1..Total(want[r]) -> 0..size]
  /\ reach \in [Callers -> Nat] /\ front \in 0..size
  /\ phase \in [Callers -> {"ready", "gather", "tail", "unlock", "out"}]
  /\ outcome \in [Callers -> {"none", "ok", "end", "error"}]
  /\ keeper \in Callers \cup {NoCaller} /\ failures \in Nat

Filled(r) == {j \in DOMAIN dest[r] : dest[r][j] > 0}
Taken(r) == {dest[r][j] : j \in Filled(r)}

\* A destination fills from its start and in the order of the file, whatever
\* the sizes of the pieces (the loop over a list of descriptors).
FillsInOrder ==
  \A r \in Callers :
    /\ Filled(r) = 1..Got(r)
    /\ \A i, j \in Filled(r) : i < j => dest[r][i] < dest[r][j]

\* Through one position every byte of the file before it has gone to exactly
\* one reader.
GivenOnce ==
  /\ UNION {Taken(r) : r \in Callers} = 1..front
  /\ \A r, s \in Callers : r # s => Taken(r) \cap Taken(s) = {}

\* Under the mutex what one call reads is one piece of the file.
OnePiece ==
  \A r \in Callers : \A j \in Filled(r) : j > 1 => dest[r][j] = dest[r][j - 1] + 1

\* A positional read fills with what is at its offset, and leaves the
\* position of the file alone.
FromItsOffset ==
  /\ \A r \in Callers : \A j \in Filled(r) : dest[r][j] = Origin[r] + j
  /\ front = 0

\* A call that returns has filled its list, and one that reports the end has
\* not, and has left nothing in the file that could fill it.
EndIsTrue ==
  \A r \in Callers :
    /\ outcome[r] = "ok" => Got(r) = Total(want[r])
    /\ outcome[r] = "end" => Got(r) < Total(want[r]) /\ ReadPlace(r) >= size

\* A call with several descriptors fills them in order with what no other
\* call gets; under the mutex with one piece of the file, with an offset with
\* what is there; it returns full, or reports the end, which is true.
ReadsInOrder ==
  /\ ReadTypeOK /\ FillsInOrder /\ EndIsTrue
  /\ byOffset => FromItsOffset
  /\ ~byOffset => GivenOnce
  /\ mutexed /\ ~byOffset => OnePiece

\* Every call comes back, and with the mutex free for the next one.
ReadersOut == <>[](keeper = NoCaller /\ \A r \in Callers : phase[r] = "out")
=============================================================================
