------------------------------- MODULE MCBuffers -------------------------------
(***************************************************************************)
(* basic_io_buffer for TLC: its put area, over a system that takes a       *)
(* gathered write to a descriptor's end or stops it anywhere; and its get  *)
(* area, with characters of one byte or of two.  Which of these a          *)
(* behaviour is about never changes.                                       *)
(***************************************************************************)
EXTENDS OBuffer, IBuffer

VARIABLES about, sAlloc, sPend, sDev, sHandle, sNext, sBase, sAcc, sErrs, sLost, sSealed

shortVars == <<sAlloc, sPend, sDev, sHandle, sNext, sBase, sAcc, sErrs, sLost, sSealed>>
allVars == <<about, vars, shortVars, inVars>>

\* A gathered write_some may stop inside what was buffered.
Short == INSTANCE OBuffer WITH
  ShortGather <- TRUE, MaxErrs <- 1,
  alloc <- sAlloc, pend <- sPend, dev <- sDev, hstate <- sHandle, next <- sNext,
  base <- sBase, acc <- sAcc, errs <- sErrs, lost <- sLost, sealed <- sSealed

AllInit ==
  /\ about \in {"output", "short", "input"}
  /\ Init /\ Short!Init /\ InInit /\ (about # "input" => width = 1)

AllNext ==
  /\ UNCHANGED about
  /\ \/ about = "output" /\ Next /\ UNCHANGED <<shortVars, inVars>>
     \/ about = "short" /\ Short!Next /\ UNCHANGED <<vars, inVars>>
     \/ about = "input" /\ InNext /\ UNCHANGED <<vars, shortVars>>

\* The fairness of IBuffer.
AllSpec ==
  /\ AllInit /\ [][AllNext]_allVars
  /\ WF_allVars(about = "input" /\ CallStep /\ UNCHANGED <<about, vars, shortVars>>)

-----------------------------------------------------------------------------
\* No area is overrun; and over a handle that stops a gathered write anywhere
\* still nothing written for one handle strays to the next.
AreasHold ==
  /\ TypeOK /\ Short!TypeOK /\ Short!NoStray /\ InTypeOK

=============================================================================
