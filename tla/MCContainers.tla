----------------------------- MODULE MCContainers -----------------------------
(***************************************************************************)
(* The containers for TLC.  All begin empty and one of them is used, with  *)
(* one choice of its parameters; which one never changes, so the states    *)
(* are those of the containers side by side.                               *)
(***************************************************************************)
EXTENDS Deque

CONSTANT Parts  \* which containers

VARIABLES used, tree, set, calls

treeVars == <<tree, set, calls>>
vars == <<used, dequeVars, treeVars>>

\* Blocks of two: every block boundary is met, and the controller is tight;
\* elements whose constructors throw; and elements that are moved one by one,
\* inserted and erased anywhere.
AllTypes ==
  { [block |-> 2, slack |-> 0, unit |-> 4, relocatable |-> TRUE, throws |-> FALSE, most |-> 6,
     ops |-> {"back", "front", "clear", "emplace", "append", "erase", "reserve", "resize", "copy"},
     counts |-> {1, 3}],
    [block |-> 2, slack |-> 1, unit |-> 4, relocatable |-> TRUE, throws |-> TRUE, most |-> 6,
     ops |-> {"front", "clear", "erase", "copy"}, counts |-> {1, 2}],
    [block |-> 4, slack |-> 1, unit |-> 4, relocatable |-> FALSE, throws |-> FALSE, most |-> 6,
     ops |-> {"back", "front", "clear", "emplace", "insert", "prepend", "erase", "reserve_front"},
     counts |-> {1, 3}] }

ASSUME \A t \in AllTypes : Tame(t)

\* Prepends over several blocks.
Prepending ==
  { [block |-> 2, slack |-> 0, unit |-> 4, relocatable |-> TRUE, throws |-> FALSE, most |-> 8,
     ops |-> {"back", "front", "prepend"}, counts |-> {1, 3, 5}] }

\* Any order of nine keys, on up to two levels.
Tree == INSTANCE BTreeSet WITH
  Order <- 4, Keys <- 1..9, Touched <- 1..9, Lists <- {<<>>}, Calls <- 14, DeepErase <- TRUE

\* Three levels at once; the keys that are touched lie on the lower two, and
\* the erases end when levels collapse.
DeepTree == INSTANCE BTreeSet WITH
  Order <- 4, Keys <- 1..17, Touched <- {1, 2, 4, 5, 7, 10, 11, 13, 14},
  Lists <- {[i \in 1..17 |-> i]}, Calls <- 11, DeepErase <- FALSE

ASSUME Tree!BTreeAssumption /\ DeepTree!BTreeAssumption

Init ==
  /\ used \in Parts /\ DequeInit
  /\ IF used = "deep" THEN DeepTree!Init ELSE Tree!Init
  /\ used # "deque" => type = CHOOSE t \in Types : TRUE

Next ==
  /\ UNCHANGED used
  /\ \/ used = "deque" /\ DequeNext /\ UNCHANGED treeVars
     \/ used = "tree" /\ Tree!Next /\ UNCHANGED dequeVars
     \/ used = "deep" /\ DeepTree!Next /\ UNCHANGED dequeVars

Spec == Init /\ [][Next]_vars

-----------------------------------------------------------------------------
\* An iterator meets every key of a set once, in ascending order, and in
\* descending order from the end; contains() and find() know just these.
SetHolds ==
  /\ used = "tree" => Tree!InOrder /\ Tree!InReverse /\ Tree!Finds
  /\ used = "deep" => DeepTree!InOrder /\ DeepTree!InReverse

\* No node has too many or, but for the root, too few keys; leaves are at one
\* depth; nodes know their parents and places; none is lost.
SetIsSound ==
  /\ used = "tree" => Tree!TypeOK /\ Tree!Balanced /\ Tree!Linked /\ Tree!NothingLost
  /\ used = "deep" => DeepTree!TypeOK /\ DeepTree!Balanced /\ DeepTree!Linked /\ DeepTree!NothingLost

=============================================================================
