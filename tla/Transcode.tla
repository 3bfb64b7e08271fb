------------------------------- MODULE Transcode -------------------------------
(***************************************************************************)
(* What the adapters for output and for input have in common: characters   *)
(* of Unit bytes, and an engine that keeps back up to Hold bytes.          *)
(***************************************************************************)
EXTENDS Naturals, Sequences

CONSTANTS
  Unit,   \* bytes of a character of the adapter
  Hold,   \* the most an engine keeps
  Fails,  \* the engine and the stream below may throw
  Bytes   \* bound: bytes given, or bytes of the source

ASSUME TranscodeAssumption ==
  Unit \in Nat \ {0} /\ Hold \in Nat /\ Bytes \in Nat /\ Fails \in BOOLEAN

All(n) == [i \in 1..n |-> i]
Cut(s, n) == SubSeq(s, n + 1, Len(s))

=============================================================================
