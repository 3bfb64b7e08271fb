------------------------------ MODULE BTreeSet ------------------------------
(***************************************************************************)
(* The ordered set of strings, a B tree.  A node holds at most Order keys  *)
(* and one child more; it knows its parent and its place there, and the    *)
(* tree knows its leftmost and rightmost leaves, so that an iterator can   *)
(* walk from key to key without the root.  A full node is divided and its  *)
(* middle key goes up; a node that is left with too few keys borrows one   *)
(* of a sibling or is merged with it.                                      *)
(*                                                                         *)
(* Keys are numbers, compared as the strings are.  Nodes are numbers too,  *)
(* 0 is the null pointer, and places count from 0.                         *)
(***************************************************************************)
EXTENDS Integers, Sequences, SequencesExt, FiniteSets, FiniteSetsExt

CONSTANTS
  Order,      \* keys_number, even and not 0
  Keys,       \* the keys there are
  Touched,    \* the keys that are inserted and erased
  Lists,      \* the lists the set is constructed from
  Calls,      \* bound: calls after that
  DeepErase   \* a key above two levels of nodes may be erased

BTreeAssumption ==
  /\ Order \in Nat \ {0} /\ Order % 2 = 0
  /\ Keys \subseteq Nat \ {0} /\ Touched \subseteq Keys
  /\ Lists \subseteq Seq(Keys)
  /\ Calls \in Nat /\ DeepErase \in BOOLEAN

VARIABLES
  tree,   \* [node, root, leftmost, rightmost]
  set,    \* history: the keys there should be
  calls   \* history: calls so far

vars == <<tree, set, calls>>

-----------------------------------------------------------------------------
Half == Order \div 2
Least == Half - 1

Empty == [node |-> <<>>, root |-> 0, leftmost |-> 0, rightmost |-> 0]

IsLeaf(t, id) == t.node[id].kids = <<>>
Size(t, id) == Len(t.node[id].keys)
Kid(t, id, pos) == t.node[id].kids[pos + 1]

\* allocate: a node that is not in use.
Unused(t) ==
  CHOOSE id \in 1..(Cardinality(DOMAIN t.node) + 1) : id \notin DOMAIN t.node

With(t, id, keys, kids, up, at) ==
  [t EXCEPT !.node = (id :> [keys |-> keys, kids |-> kids, up |-> up, at |-> at]) @@ @]

\* fix_child_links.
Relink(t, id) ==
  [t EXCEPT !.node = [n \in DOMAIN @ |->
     IF Contains(@[id].kids, n)
     THEN [@[n] EXCEPT !.up = id, !.at = (CHOOSE i \in DOMAIN t.node[id].kids :
                                            t.node[id].kids[i] = n) - 1]
     ELSE @[n]]]

-----------------------------------------------------------------------------
(***************************************************************************)
(* Looking for a key.                                                      *)
(***************************************************************************)
\* find_str_btree_node_insert_position: the first place whose key is not less.
InsertPosition(t, id, k) ==
  LET i == SelectInSeq(t.node[id].keys, LAMBDA x : k <= x)
  IN  IF i = 0 THEN Size(t, id) ELSE i - 1

\* str_btree_find, and the descent of str_btree_insert_key_with_root.
RECURSIVE Find(_, _, _)
Find(t, id, k) ==
  LET pos == InsertPosition(t, id, k)
      found == pos < Size(t, id) /\ t.node[id].keys[pos + 1] = k
  IN  IF found \/ IsLeaf(t, id) THEN [id |-> id, pos |-> pos, found |-> found]
      ELSE Find(t, Kid(t, id, pos), k)

Has(t, k) == t.root # 0 /\ Find(t, t.root, k).found

-----------------------------------------------------------------------------
(***************************************************************************)
(* Inserting.                                                              *)
(***************************************************************************)
\* A node that would have these keys and children is divided: it keeps the
\* first half, a new one to its right has the second, the middle key goes up.
Divide(t, id, keys, kids) ==
  LET right == Unused(t)
      s == With(t, right, SubSeq(keys, Half + 2, Len(keys)),
                IF kids = <<>> THEN <<>> ELSE SubSeq(kids, Half + 2, Len(kids)), 0, 0)
      u == [s EXCEPT !.node[id].keys = SubSeq(keys, 1, Half),
                     !.node[id].kids = IF kids = <<>> THEN <<>> ELSE SubSeq(kids, 1, Half + 1),
                     !.rightmost = IF id = @ THEN right ELSE @]
  IN  Relink(Relink(u, id), right)

\* str_btree_insert_key_cold, from the division on: a key and the node to its
\* right go into the parent, which may have to be divided in turn.
RECURSIVE Promote(_, _, _, _)
Promote(t, id, key, right) ==
  LET up == t.node[id].up
      at == t.node[id].at
      keys == InsertAt(t.node[up].keys, at + 1, key)
      kids == InsertAt(t.node[up].kids, at + 2, right)
      root == Unused(t)
  IN  IF up = 0
        THEN Relink([With(t, root, <<key>>, <<id, right>>, 0, 0) EXCEPT !.root = root], root)
      ELSE IF Len(keys) <= Order
        THEN Relink([t EXCEPT !.node[up].keys = keys, !.node[up].kids = kids], up)
      ELSE Promote(Divide(t, up, keys, kids), up, keys[Half + 1], Unused(t))

\* str_btree_insert_key_with_root.
Inserted(t, k) ==
  LET place == Find(t, t.root, k)
      keys == InsertAt(t.node[place.id].keys, place.pos + 1, k)
  IN  IF t.root = 0
        THEN [With(t, 1, <<k>>, <<>>, 0, 0) EXCEPT !.root = 1, !.leftmost = 1, !.rightmost = 1]
      ELSE IF place.found THEN t
      ELSE IF Len(keys) <= Order THEN [t EXCEPT !.node[place.id].keys = keys]
      ELSE Promote(Divide(t, place.id, keys, <<>>), place.id, keys[Half + 1], Unused(t))

-----------------------------------------------------------------------------
(***************************************************************************)
(* Erasing.                                                                *)
(***************************************************************************)
Freed(t, id) == [t EXCEPT !.node = Restrict(@, DOMAIN @ \ {id})]

\* A key of the right sibling goes up, the key between them comes down, and
\* the sibling's first child changes sides.
BorrowRight(t, id, up, at) ==
  LET right == Kid(t, up, at + 1)
      s == [t EXCEPT
             !.node[id].keys = Append(@, t.node[up].keys[at + 1]),
             !.node[id].kids = IF @ = <<>> THEN @ ELSE Append(@, Head(t.node[right].kids)),
             !.node[up].keys[at + 1] = Head(t.node[right].keys),
             !.node[right].keys = Tail(@),
             !.node[right].kids = IF @ = <<>> THEN @ ELSE Tail(@)]
  IN  Relink(Relink(s, id), right)

BorrowLeft(t, id, up, at) ==
  LET left == Kid(t, up, at - 1)
      s == [t EXCEPT
             !.node[id].keys = <<t.node[up].keys[at]>> \o @,
             !.node[id].kids = IF @ = <<>> THEN @ ELSE <<Last(t.node[left].kids)>> \o @,
             !.node[up].keys[at] = Last(t.node[left].keys),
             !.node[left].keys = Front(@),
             !.node[left].kids = IF @ = <<>> THEN @ ELSE Front(@)]
  IN  Relink(Relink(s, id), left)

\* The child at `at`, the key after it and the next child become one node.
Merge(t, up, at) ==
  LET left == Kid(t, up, at)
      right == Kid(t, up, at + 1)
      s == [t EXCEPT
             !.node[left].keys = @ \o <<t.node[up].keys[at + 1]>> \o t.node[right].keys,
             !.node[left].kids = @ \o t.node[right].kids,
             !.node[up].keys = RemoveAt(@, at + 1),
             !.node[up].kids = RemoveAt(@, at + 2),
             !.rightmost = IF @ = right THEN left ELSE @]
  IN  Freed(Relink(Relink(s, left), up), right)

\* A root without keys gives way to its only child.
Promoted(t, id) ==
  Freed([t EXCEPT !.root = Kid(t, id, 0), !.node[Kid(t, id, 0)].up = 0,
                  !.node[Kid(t, id, 0)].at = 0], id)

\* Mutant: a sibling lends its last spare key and one more.
RECURSIVE UnderflowGreedy(_, _)
UnderflowGreedy(t, id) ==
  LET up == t.node[id].up
      at == t.node[id].at
      spare(pos) == Size(t, Kid(t, up, pos)) >= Least
  IN  IF Size(t, id) >= Least THEN t
      ELSE IF up = 0 THEN IF Size(t, id) = 0 THEN Promoted(t, id) ELSE t
      ELSE IF at < Size(t, up) /\ spare(at + 1) THEN BorrowRight(t, id, up, at)
      ELSE IF at > 0 /\ spare(at - 1) THEN BorrowLeft(t, id, up, at)
      ELSE IF at < Size(t, up) THEN UnderflowGreedy(Merge(t, up, at), up)
      ELSE UnderflowGreedy(Merge(t, up, at - 1), up)

\* str_btree_erase_underflow, and the same for a leaf in str_btree_erase.
RECURSIVE Underflow(_, _)
Underflow(t, id) ==
  LET up == t.node[id].up
      at == t.node[id].at
      spare(pos) == Size(t, Kid(t, up, pos)) > Least
  IN  IF Size(t, id) >= Least THEN t
      ELSE IF up = 0 THEN IF Size(t, id) = 0 THEN Promoted(t, id) ELSE t
      ELSE IF at < Size(t, up) /\ spare(at + 1) THEN BorrowRight(t, id, up, at)
      ELSE IF at > 0 /\ spare(at - 1) THEN BorrowLeft(t, id, up, at)
      ELSE IF at < Size(t, up) THEN Underflow(Merge(t, up, at), up)
      ELSE Underflow(Merge(t, up, at - 1), up)

RECURSIVE LeftmostLeaf(_, _), RightmostLeaf(_, _)
LeftmostLeaf(t, id) == IF IsLeaf(t, id) THEN id ELSE LeftmostLeaf(t, Kid(t, id, 0))
RightmostLeaf(t, id) ==
  IF IsLeaf(t, id) THEN id ELSE RightmostLeaf(t, Kid(t, id, Size(t, id)))

\* A key of a leaf.
ErasedFromLeaf(t, id, pos) ==
  LET s == [t EXCEPT !.node[id].keys = RemoveAt(@, pos + 1)]
  IN  IF t.node[id].up = 0 THEN IF Size(s, id) = 0 THEN Empty ELSE s
      ELSE Underflow(s, id)

\* Mutant: the last key of the left subtree stays in its leaf.
ReplacedTwice(t, id, pos, leaf, key, rest) ==
  [t EXCEPT !.node[id].keys[pos + 1] = key]

\* The last key of the left subtree, or the first of the right one, takes the
\* place of an erased key.  If its leaf has too few keys then, the repair
\* starts at the leaf's parent.
ReplacedBy(t, id, pos, leaf, key, rest) ==
  LET s == [t EXCEPT !.node[id].keys[pos + 1] = key, !.node[leaf].keys = rest]
  IN  IF Len(rest) < Least THEN Underflow(s, t.node[leaf].up) ELSE s

\* str_btree_erase.
RECURSIVE Erased(_, _)
Erased(t, k) ==
  LET place == Find(t, t.root, k)
      id == place.id
      pos == place.pos
      left == Kid(t, id, pos)
      right == Kid(t, id, pos + 1)
      before == RightmostLeaf(t, left)
      after == LeftmostLeaf(t, right)
  IN  IF ~Has(t, k) THEN t
      ELSE IF IsLeaf(t, id) THEN ErasedFromLeaf(t, id, pos)
      ELSE IF Size(t, left) > Least
        THEN ReplacedBy(t, id, pos, before, Last(t.node[before].keys), Front(t.node[before].keys))
      ELSE IF Size(t, right) > Least
        THEN ReplacedBy(t, id, pos, after, Head(t.node[after].keys), Tail(t.node[after].keys))
      ELSE Erased(Underflow(Merge(t, id, pos), id), k)

-----------------------------------------------------------------------------
(***************************************************************************)
(* Iterators.                                                              *)
(***************************************************************************)
\* begin and end; --end goes to the last key of the rightmost leaf.
Begin(t) == [id |-> t.leftmost, pos |-> 0]
Back(t) == [id |-> t.rightmost, pos |-> IF t.rightmost = 0 THEN 0 ELSE Size(t, t.rightmost) - 1]

RECURSIVE ClimbNext(_, _, _), ClimbPrev(_, _, _)
ClimbNext(t, up, at) ==
  IF up # 0 /\ at = Size(t, up) THEN ClimbNext(t, t.node[up].up, t.node[up].at)
  ELSE [id |-> up, pos |-> at]
ClimbPrev(t, up, at) ==
  IF up # 0 /\ at = 0 THEN ClimbPrev(t, t.node[up].up, t.node[up].at)
  ELSE [id |-> up, pos |-> IF up = 0 THEN 0 ELSE at - 1]

\* str_btree_set_next_node.
NextNode(t, it) ==
  LET n == t.node[it.id]
  IN  IF ~IsLeaf(t, it.id) THEN [id |-> LeftmostLeaf(t, Kid(t, it.id, it.pos + 1)), pos |-> 0]
      ELSE IF it.pos + 1 = Len(n.keys) THEN ClimbNext(t, n.up, n.at)
      ELSE [id |-> it.id, pos |-> it.pos + 1]

\* str_btree_set_prev_node.
PrevNode(t, it) ==
  LET n == t.node[it.id]
      last == RightmostLeaf(t, Kid(t, it.id, it.pos))
  IN  IF ~IsLeaf(t, it.id) THEN [id |-> last, pos |-> Size(t, last) - 1]
      ELSE IF it.pos = 0 THEN ClimbPrev(t, n.up, n.at)
      ELSE [id |-> it.id, pos |-> it.pos - 1]

\* An iterator that is not at a key reads what is left in the node: Stale.
Stale == 0
AtKey(t, it) == it.id \in DOMAIN t.node /\ it.pos \in 0..(Size(t, it.id) - 1)

RECURSIVE Ascending(_, _), Descending(_, _)
Ascending(t, it) ==
  IF it.id = 0 THEN <<>>
  ELSE IF ~AtKey(t, it) THEN <<Stale>>
  ELSE <<t.node[it.id].keys[it.pos + 1]>> \o Ascending(t, NextNode(t, it))
Descending(t, it) ==
  IF it.id = 0 THEN <<>>
  ELSE IF ~AtKey(t, it) THEN <<Stale>>
  ELSE <<t.node[it.id].keys[it.pos + 1]>> \o Descending(t, PrevNode(t, it))

-----------------------------------------------------------------------------
\* basic_str_btree_set(initializer_list).
Init == \E list \in Lists :
  /\ tree = FoldLeft(Inserted, Empty, list)
  /\ set = ToSet(list)
  /\ calls = 0

Call == calls < Calls /\ calls' = calls + 1

Insert(k) == Call /\ tree' = Inserted(tree, k) /\ set' = set \union {k}

\* Depth of the node's leaves below it, by its first children.
RECURSIVE Height(_, _)
Height(t, id) == IF IsLeaf(t, id) THEN 0 ELSE 1 + Height(t, Kid(t, id, 0))

Erase(k) ==
  /\ Call
  /\ Has(tree, k) /\ ~DeepErase => Height(tree, Find(tree, tree.root, k).id) < 2
  /\ tree' = Erased(tree, k) /\ set' = set \ {k}

Clear == Call /\ tree' = Empty /\ set' = {}

\* The members of a set of numbers in ascending order.
Sorted(S) == [i \in 1..Cardinality(S) |-> CHOOSE x \in S : Cardinality({y \in S : y <= x}) = i]

Walkable == Ascending(tree, Begin(tree)) = Sorted(set)

\* Of a tree that cannot be walked nothing more is said.
Next == Walkable /\ (\/ \E k \in Touched : Insert(k)
                     \/ \E k \in Touched : Erase(k)
                     \/ Clear)

Spec == Init /\ [][Next]_vars

-----------------------------------------------------------------------------
Nodes == DOMAIN tree.node

TypeOK ==
  /\ \A id \in Nodes : /\ tree.node[id].keys \in Seq(Keys)
                       /\ tree.node[id].kids \in Seq(Nodes)
                       /\ tree.node[id].up \in Nodes \union {0}
                       /\ tree.node[id].at \in 0..Order
  /\ {tree.root, tree.leftmost, tree.rightmost} \subseteq Nodes \union {0}
  /\ set \subseteq Keys /\ calls \in 0..Calls

\* An iterator meets every key once, in ascending order, from begin() to end().
InOrder == Walkable

\* And backwards from end(), over the rightmost leaf.
InReverse == Walkable => Descending(tree, Back(tree)) = Reverse(Sorted(set))

\* contains() and find() know the keys that were inserted and not erased.
Finds == \A k \in Keys : Has(tree, k) <=> k \in set

\* A node never has more keys than it has room for nor, but for the root, too
\* few, it has one child more than keys, and all leaves are at the same depth.
Balanced ==
  /\ \A id \in Nodes :
       /\ Size(tree, id) <= Order /\ (id # tree.root => Size(tree, id) >= Least)
       /\ ~IsLeaf(tree, id) => Len(tree.node[id].kids) = Size(tree, id) + 1
  /\ \A id \in Nodes : \A x, y \in ToSet(tree.node[id].kids) : Height(tree, x) = Height(tree, y)

\* Every node knows its parent and its place there.
Linked ==
  \A id \in Nodes :
    IF id = tree.root THEN tree.node[id].up = 0
    ELSE LET up == tree.node[id].up
         IN  up \in Nodes /\ tree.node[id].at < Len(tree.node[up].kids)
               /\ Kid(tree, up, tree.node[id].at) = id

\* A node that was given back is no longer reachable, and the nodes in use are
\* those of the tree.
NothingLost ==
  LET named == UNION {ToSet(tree.node[id].kids) : id \in Nodes} \union {tree.root}
  IN  named \ {0} = Nodes /\ {tree.leftmost, tree.rightmost} \ {0} \subseteq Nodes

=============================================================================
