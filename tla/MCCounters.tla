------------------------------ MODULE MCCounters ------------------------------
(***************************************************************************)
(* What counts bytes, for TLC: positions of files, and the contexts of     *)
(* hashes.  Which of the two a behaviour is about never changes.  Messages *)
(* come in every split of up to three blocks and a half, and the counter   *)
(* is as narrow as its length field.                                       *)
(***************************************************************************)
EXTENDS Positions, HashContext

VARIABLE about

allVars == <<about, vars, hashVars>>

ASSUME HashAssumption

AllInit ==
  /\ Init /\ HashInit
  /\ \/ about = "position"
     \/ about = "hash" /\ off = 0

AllNext ==
  /\ UNCHANGED about
  /\ \/ about = "position" /\ Next /\ UNCHANGED hashVars
     \/ about = "hash" /\ HashNext /\ UNCHANGED vars

AllSpec == AllInit /\ [][AllNext]_allVars

=============================================================================
