---------------------------- MODULE ScatterCalls ----------------------------
(***************************************************************************)
(* What calls with several descriptors threads make on one open file.      *)
(***************************************************************************)
EXTENDS Descriptors

CONSTANTS
  Callers,  \* the threads
  Lists,    \* the descriptor lists a thread may pass
  Origin,   \* Origin[w]: the offset thread w passes (positional calls)
  Ways,     \* how they call: with offsets or not, under a mutex or not
  MaxCount, \* posix_scatter_maximum_count, the kernel's IOV_MAX
  MaxErrs,  \* bound: failing system calls
  NoCaller

CallsAssumption ==
  /\ NoCaller \notin Callers
  /\ \A e \in Lists : IsList(e)
  /\ Origin \in [Callers -> Nat] /\ Ways \subseteq BOOLEAN \X BOOLEAN
  /\ MaxCount \in Nat \ {0} /\ MaxErrs \in Nat

=============================================================================
