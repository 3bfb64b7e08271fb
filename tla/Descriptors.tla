----------------------------- MODULE Descriptors -----------------------------
(***************************************************************************)
(* Lists of descriptors (io_scatter_t) as their edges: a list of n         *)
(* descriptors is a sequence of n + 1 numbers that begins with 0, and      *)
(* descriptor i holds the bytes after edge i up to and with edge i + 1.    *)
(* It is empty if the two are equal.                                       *)
(***************************************************************************)
EXTENDS Naturals, Sequences

IsList(e) ==
  /\ e \in Seq(Nat) /\ Len(e) >= 2 /\ e[1] = 0
  /\ \A i \in 1..(Len(e) - 1) : e[i] <= e[i + 1]

Count(e) == Len(e) - 1
Total(e) == e[Len(e)]

\* One behind the last descriptor that a call which begins with descriptor i
\* is given: never more than max of them.
Offered(e, i, max) == IF i + max <= Len(e) THEN i + max ELSE Len(e)

\* scatter_size_to_status: the first descriptor from i on, of those before
\* last, that k bytes do not cover; empty ones are covered by nothing.
Position(e, i, last, k) ==
  CHOOSE j \in i..last :
    /\ e[j] - e[i] <= k
    /\ \A l \in (j + 1)..last : e[l] - e[i] > k

=============================================================================
