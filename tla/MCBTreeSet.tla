------------------------------ MODULE MCBTreeSet ------------------------------
(***************************************************************************)
(* A set of seventeen keys, on three levels, for TLC.                      *)
(***************************************************************************)
EXTENDS BTreeSet

Seventeen == 1..17
UpToSeventeen == {[i \in 1..17 |-> i]}

=============================================================================
