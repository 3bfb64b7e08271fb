------------------------------- MODULE MCWrites -------------------------------
(***************************************************************************)
(* What is built on single reads and writes, for TLC: positional writes of *)
(* handles that can only seek, calls with several descriptors, and print.  *)
(* Which of these a behaviour is about never changes.                      *)
(***************************************************************************)
EXTENDS SeekFallback, ScatterWrite, ScatterRead, Printing, TLC

CONSTANTS w1, w2

VARIABLES about

allVars == <<about, vars, writeVars, readVars, printVars>>

\* Empty descriptors at every place; more of them than one call may pass.
Edges == {<<0, 2>>, <<0, 1, 1, 3>>, <<0, 0, 0, 2, 3>>, <<0, 2, 3, 3, 3>>}

\* Adjacent regions, so that a byte too many or one misplaced is seen.
Regions == w1 :> 3 @@ w2 :> 0

\* Offsets; one position and none; one position under a mutex.
Manners == {<<TRUE, FALSE>>, <<FALSE, FALSE>>, <<FALSE, TRUE>>}

\* The data ends anywhere.
FileSizes == 0..6

Some == {
  [kind |-> "reserve", len |-> 1, bound |-> 2], [kind |-> "dynamic", len |-> 1, bound |-> 2],
  [kind |-> "scatter", len |-> 2, bound |-> 2], [kind |-> "context", len |-> 3, bound |-> 3],
  [kind |-> "plain", len |-> 2, bound |-> 2] }

More == Some \cup {
  [kind |-> "reserve", len |-> 3, bound |-> 3], [kind |-> "dynamic", len |-> 3, bound |-> 4],
  [kind |-> "dynamic", len |-> 0, bound |-> 1], [kind |-> "scatter", len |-> 0, bound |-> 0],
  [kind |-> "context", len |-> 0, bound |-> 0] }

\* Where each of a sequence of lengths begins and the last one ends.
Laid(lengths) == [i \in 1..(Len(lengths) + 1) |-> FoldSeq(+, 0, SubSeq(lengths, 1, i - 1))]

\* Up to three arguments of ten, and four of five.
Printable ==
  { [kind |-> [i \in DOMAIN l |-> l[i].kind],
     text |-> Laid([i \in DOMAIN l |-> l[i].len]),
     room |-> Laid([i \in DOMAIN l |-> l[i].bound])] :
    l \in UNION {[1..n -> More] : n \in 1..3} \cup [1..4 -> Some] }

\* A stream without a put area; one with; one that says how small a write fits.
Bare == [buffered |-> FALSE, cap |-> 0, minimum |-> 0]
Area == [buffered |-> TRUE, cap |-> 4, minimum |-> 0]
Streams == {Bare, Area, [Area EXCEPT !.minimum = 4]}

ASSUME ScatterAssumption /\ ScatterReadAssumption /\ Apart

Idle == [kind |-> <<"scatter">>, text |-> <<0, 0>>, room |-> <<0, 0>>]
Small == [w \in Callers |-> <<0, 2>>]

AllInit ==
  /\ about \in {"fallback", "write", "read", "print"}
  /\ Init
  /\ WriteInit /\ (about # "write" => ~positional /\ ~locked /\ edge = Small)
  /\ ReadInit /\ (about # "read" => ~byOffset /\ ~mutexed /\ want = Small /\ size = 0)
  /\ (about # "print" => medium = Bare /\ args = Idle /\ line = FALSE) /\ PrintInit

AllNext ==
  /\ UNCHANGED about
  /\ \/ about = "fallback" /\ Next /\ UNCHANGED <<writeVars, readVars, printVars>>
     \/ about = "write" /\ WriteNext /\ UNCHANGED <<vars, readVars, printVars>>
     \/ about = "read" /\ ReadNext /\ UNCHANGED <<vars, writeVars, printVars>>
     \/ about = "print" /\ PrintNext /\ UNCHANGED <<vars, writeVars, readVars>>

\* The fairness of ScatterWrite, ScatterRead and Printing, each for its behaviours.
AllSpec ==
  /\ AllInit /\ [][AllNext]_allVars
  /\ \A w \in Callers :
       /\ WF_allVars(/\ about = "write" /\ CallWrite(w)
                     /\ UNCHANGED <<about, vars, readVars, printVars>>)
       /\ WF_allVars(/\ about = "read" /\ CallRead(w)
                     /\ UNCHANGED <<about, vars, writeVars, printVars>>)
  /\ WF_allVars(/\ about = "print" /\ PrintNext
                /\ UNCHANGED <<about, vars, writeVars, readVars>>)

-----------------------------------------------------------------------------
\* Every call comes back and frees the mutex; every print ends.
CallsReturn == /\ about = "write" => WritersOut
               /\ about = "read" => ReadersOut
               /\ about = "print" => PrintEnds

=============================================================================
