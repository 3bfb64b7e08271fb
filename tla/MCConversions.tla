----------------------------- MODULE MCConversions -----------------------------
(***************************************************************************)
(* Streams that convert, for TLC: the transcoding adapters for output and  *)
(* for input, and the engines for ends of lines.  Which of these a         *)
(* behaviour is about never changes.                                       *)
(***************************************************************************)
EXTENDS TranscodeOutput, TranscodeInput, EolPipe

VARIABLE about

allVars == <<about, vars, inVars, eolVars>>

\* An engine that takes bytes and never fails, over a handle.
Bytewise == INSTANCE TranscodeOutput WITH
  Native <- TRUE, Below <- 0, Fails <- FALSE, Bytes <- 8

\* All texts and all other streams that are not too long.
AllTexts == UNION {[1..n -> Units] : n \in 1..5}
AllStreams == UNION {[1..n -> Units] : n \in 1..6}

AllInit ==
  /\ about \in {"output", "bytewise", "input", "eol"}
  /\ Init
  /\ InInit /\ (about # "input" => exact /\ total = 0)
  /\ EolInit /\ (about # "eol" => text = <<"x">>)

AllNext ==
  /\ UNCHANGED about
  /\ \/ /\ \/ about = "output" /\ Next
           \/ about = "bytewise" /\ Bytewise!Next
        /\ UNCHANGED <<inVars, eolVars>>
     \/ about = "input" /\ InNext /\ UNCHANGED <<vars, eolVars>>
     \/ about = "eol" /\ EolNext /\ UNCHANGED <<vars, inVars>>

\* The fairness of the parts, each for its behaviours.
AllSpec ==
  /\ AllInit /\ [][AllNext]_allVars
  /\ WF_allVars(about = "bytewise" /\ Bytewise!Step /\ UNCHANGED <<about, inVars, eolVars>>)
  /\ WF_allVars(about = "input" /\ InStep /\ UNCHANGED <<about, vars, eolVars>>)
  /\ WF_allVars(about = "eol" /\ EolNext /\ UNCHANGED <<about, vars, inVars>>)

-----------------------------------------------------------------------------
\* Every call on an adapter ends, if the source answers, and everything is
\* encoded and decoded in the end.
ConversionsEnd ==
  /\ about = "bytewise" => Bytewise!CallsEnd
  /\ about = "input" => ReadsEnd
  /\ about = "eol" => Arrives

=============================================================================
