------------------------------ MODULE Positions ------------------------------
(***************************************************************************)
(* Positions in files.  A positional operation that is not done at once    *)
(* goes on at the position it has reached, which is advanced by what each  *)
(* descriptor, or each batch of them, has moved.  All arithmetic saturates *)
(* at the ends of intfpos_t, which has the values MinPos..MaxPos; the      *)
(* lengths of a batch are added up in uintfpos_t, which ends at UMaxPos.   *)
(***************************************************************************)
EXTENDS Integers

CONSTANTS
  MaxPos,   \* the greatest intfpos_t
  UMaxPos,  \* the greatest uintfpos_t
  Lengths,  \* the lengths of descriptors
  Units,    \* sizes of characters
  Bound     \* bound: characters moved in all

ASSUME PositionsAssumption ==
  /\ MaxPos \in Nat /\ UMaxPos \in Nat /\ UMaxPos >= MaxPos
  /\ Lengths \subseteq Nat /\ Units \subseteq Nat \ {0} /\ Bound \in Nat

MinPos == -MaxPos - 1

VARIABLES
  off,    \* the position at which the operation goes on
  total,  \* what the scan of a batch has added up
  over,   \* that sum has left uintfpos_t
  scan,   \* a batch is being scanned
  from,   \* history: where the operation began
  moved,  \* history: moved by what has been accounted for
  batch   \* history: moved by what of the batch has been scanned

vars == <<off, total, over, scan, from, moved, batch>>

-----------------------------------------------------------------------------
\* Mutant: an addition that ends beyond the greatest position wraps.
AddWraps(o, d) == IF o + d > MaxPos THEN o + d - UMaxPos - 1 ELSE o + d

\* fposoffadd_nonegative.
AddNonnegative(o, d) ==
  IF d > MaxPos \/ MaxPos - d < o THEN MaxPos ELSE o + d

\* fposoffadd.
Add(o, d) ==
  CASE d > MaxPos -> MaxPos
    [] d < 0 /\ (d < MinPos \/ o < MinPos - d) -> MinPos
    [] d < 0 /\ ~(d < MinPos \/ o < MinPos - d) -> o + d
    [] d \in 0..MaxPos -> AddNonnegative(o, d)

\* Mutant: positions are taken to be nonnegative.
MultiplyUpper(o, u) == IF o > MaxPos \div u THEN MaxPos ELSE o * u

\* scatter_fpos_mul; C++ divides towards zero.
Multiply(o, u) ==
  CASE o > MaxPos \div u -> MaxPos
    [] o < -((-MinPos) \div u) -> MinPos
    [] OTHER -> o * u

-----------------------------------------------------------------------------
Init ==
  /\ off \in 0..MaxPos /\ from = off
  /\ total = 0 /\ over = FALSE /\ scan = FALSE /\ moved = 0 /\ batch = 0

\* One descriptor has moved d characters.
Descriptor ==
  /\ ~scan
  /\ \E d \in Lengths :
       /\ moved + d <= Bound
       /\ off' = AddNonnegative(off, d) /\ moved' = moved + d
  /\ UNCHANGED <<total, over, scan, from, batch>>

Begin ==
  /\ ~scan /\ scan' = TRUE
  /\ total' = 0 /\ over' = FALSE /\ batch' = 0
  /\ UNCHANGED <<off, from, moved>>

\* Mutant: a sum that does not fit goes round.
FitsNot(d) == d <= UMaxPos

\* total + d is a uintfpos_t.
Fits(d) == d <= UMaxPos /\ UMaxPos - total >= d

\* find_scatter_total_size_overflow_impl, one descriptor.
Scan ==
  /\ scan
  /\ \E d \in Lengths :
       /\ moved + batch + d <= Bound
       /\ batch' = batch + d
       /\ IF ~over /\ Fits(d) THEN total' = (total + d) % (UMaxPos + 1) /\ UNCHANGED over
          ELSE over' = TRUE /\ UNCHANGED total
  /\ UNCHANGED <<off, scan, from, moved>>

\* fposoffadd_scatters: the whole descriptors, then a part of the next one.
Advance ==
  /\ scan /\ scan' = FALSE
  /\ \E part \in Lengths :
       /\ moved + batch + part <= Bound
       /\ off' = IF over THEN MaxPos ELSE AddNonnegative(AddNonnegative(off, total), part)
       /\ moved' = moved + batch + part
  /\ UNCHANGED <<total, over, from, batch>>

Next == Descriptor \/ Begin \/ Scan \/ Advance

Spec == Init /\ [][Next]_vars

-----------------------------------------------------------------------------
(***************************************************************************)
(* Properties.                                                             *)
(***************************************************************************)

TypeOK ==
  /\ off \in 0..MaxPos /\ from \in 0..MaxPos
  /\ total \in 0..UMaxPos /\ over \in BOOLEAN /\ scan \in BOOLEAN
  /\ moved \in Nat /\ batch \in Nat

Saturated(x) == IF x > MaxPos THEN MaxPos ELSE IF x < MinPos THEN MinPos ELSE x

\* However the way is cut into descriptors and batches, the position is where
\* one operation that moved all of it would have gone on, or the greatest.
Tracks == off = Saturated(from + moved)

\* A position never goes back, so nothing that was written is written over.
NeverBack == [][off' >= off]_vars

\* fposoffadd is the sum, or the end that the sum is beyond, for every delta
\* that is a position.
AddIsSum ==
  \A d \in MinPos..MaxPos, o \in {off, -off, MinPos + off} : Add(o, d) = Saturated(o + d)

\* Positions in characters become positions in bytes, on both sides of zero.
MultiplyIsProduct ==
  \A u \in Units, o \in {off, -off, MinPos + off} : Multiply(o, u) = Saturated(o * u)

\* A position is one of the system, and adding to it or making bytes of it
\* saturates.
PositionsAreTrue == TypeOK /\ AddIsSum /\ MultiplyIsProduct

=============================================================================
