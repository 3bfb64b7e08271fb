------------------------------- MODULE MCStreams -------------------------------
(***************************************************************************)
(* Streams that depend on each other, for TLC: two peers over tied input   *)
(* and output, or threads that copy from stream to stream.  Which of these *)
(* a behaviour is about, and which copies are made, never changes.         *)
(***************************************************************************)
EXTENDS TiedIO, Transmit, TLC

CONSTANTS m1, m2, m3, n1, n2, n3, a, b, c, d, e

VARIABLE about

allVars == <<about, vars, copyVars>>

Copy(kind, to, from, count) ==
  [kind |-> kind, to |-> to, from |-> from, count |-> count]

\* Two copies share both streams, a third reads what they write, and the
\* stream it writes has no mutex: no circle.
Tree == m1 :> Copy("all", b, a, 3) @@ m2 :> Copy("some", b, a, 3) @@ m3 :> Copy("eof", c, b, 0)

\* The third copy runs against the first two.
Opposed == n1 :> Copy("all", e, d, 2) @@ n2 :> Copy("some", e, d, 3) @@ n3 :> Copy("eof", d, e, 0)

Copies == Tree @@ Opposed
Elements == a :> 5 @@ b :> 3 @@ c :> 0 @@ d :> 5 @@ e :> 3

ASSUME TransmitAssumption

AllInit == about \in {"tied", "tree", "opposed"} /\ Init /\ CopyInit

AllNext ==
  /\ UNCHANGED about
  /\ \/ about = "tied" /\ Next /\ UNCHANGED copyVars
     \/ about = "tree" /\ Copying(DOMAIN Tree) /\ UNCHANGED vars
     \/ about = "opposed" /\ Copying(DOMAIN Opposed) /\ UNCHANGED vars

\* The fairness of TiedIO and of Transmit, each for its behaviours.
AllSpec ==
  /\ AllInit /\ [][AllNext]_allVars
  /\ \A p \in Peers :
       WF_allVars(about = "tied" /\ Step(p) /\ UNCHANGED <<about, copyVars>>)
  /\ \A m \in DOMAIN Tree :
       WF_allVars(about = "tree" /\ Run(m) /\ UNCHANGED <<about, vars>>)

-----------------------------------------------------------------------------
\* Over tied streams every request is answered and the answer read, and
\* copies that do not run in a circle all end.
AllGetOn == /\ about = "tied" => Answered
            /\ about = "tree" => AllOut(DOMAIN Tree)

=============================================================================
