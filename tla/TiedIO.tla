-------------------------------- MODULE TiedIO --------------------------------
(***************************************************************************)
(* Two programs that talk to each other through basic_iobufs on the ends   *)
(* of a socket.  A program writes into its put area and reads through its  *)
(* get area; with buffer_mode::tie a refill of the get area flushes the    *)
(* put area first, so that nobody waits for an answer to a question he has *)
(* not sent.  Only the numbers of characters are kept: OBuffer and IBuffer *)
(* say which ones they are.                                                *)
(***************************************************************************)
EXTENDS Naturals

CONSTANTS
  Client, Server,
  OutSize,  \* traits_type::output_buffer_size
  InSize,   \* traits_type::input_buffer_size
  Tie,      \* mode has buffer_mode::tie
  Capacity, \* what the socket holds in each direction
  AskSize,  \* characters of a request
  TellSize, \* characters of a response
  Window,   \* bound: requests the client may have under way
  Rounds    \* bound: requests in all

ASSUME PeersAssumption == Client # Server
ASSUME TiedSizesAssumption ==
  /\ OutSize \in Nat \ {0} /\ InSize \in Nat \ {0} /\ Capacity \in Nat \ {0}
  /\ AskSize \in 1..(OutSize - 1) /\ TellSize \in 1..(OutSize - 1)
  /\ Window \in Nat \ {0} /\ Rounds \in Nat
ASSUME TieAssumption == Tie \in BOOLEAN

VARIABLES
  st,   \* what a peer is in: "run", "write", "flush" or "read"
  put,  \* characters in its put area
  todo, \* characters the write it is in has still to hand to the socket
  get,  \* characters in its get area
  need, \* characters the read it is in has still to find
  wire, \* characters it sent that the other has not taken off the socket
  made, \* history: messages it has written
  took  \* history: messages it has read

vars == <<st, put, todo, get, need, wire, made, took>>

Peers == {Client, Server}
Other(p) == IF p = Client THEN Server ELSE Client
Size(p) == IF p = Client THEN AskSize ELSE TellSize
Least(a, b) == IF a < b THEN a ELSE b

Init ==
  /\ st = [p \in Peers |-> "run"]
  /\ put = [p \in Peers |-> 0] /\ todo = [p \in Peers |-> 0]
  /\ get = [p \in Peers |-> 0] /\ need = [p \in Peers |-> 0]
  /\ wire = [p \in Peers |-> 0]
  /\ made = [p \in Peers |-> 0] /\ took = [p \in Peers |-> 0]

\* The two programs: the client asks and reads answers in an order of its
\* own, the server answers each request before it reads the next.
MayWrite(p) ==
  IF p = Client THEN made[p] < Rounds /\ made[p] - took[p] < Window
                ELSE made[p] < took[p]
MayRead(p) ==
  IF p = Client THEN took[p] < made[p]
                ELSE made[p] = took[p]

\* write_all: into the put area, or with it to the handle.
Write(p) ==
  /\ st[p] = "run" /\ MayWrite(p)
  /\ made' = [made EXCEPT ![p] = @ + 1]
  /\ IF Size(p) <= OutSize - put[p]
     THEN /\ put' = [put EXCEPT ![p] = @ + Size(p)]
          /\ UNCHANGED <<st, todo>>
     ELSE /\ st' = [st EXCEPT ![p] = "write"]
          /\ todo' = [todo EXCEPT ![p] = put[p] + Size(p)]
          /\ UNCHANGED put
  /\ UNCHANGED <<get, need, wire, took>>

\* The retry loop of a write or a flush: the socket takes what it has room
\* for, the cursor of the put area moves at the end.
Push(p) ==
  /\ st[p] \in {"write", "flush"}
  /\ \E k \in 1..Least(todo[p], Capacity - wire[p]) :
       /\ wire' = [wire EXCEPT ![p] = @ + k]
       /\ todo' = [todo EXCEPT ![p] = @ - k]
       /\ IF k = todo[p]
          THEN /\ put' = [put EXCEPT ![p] = 0]
               /\ st' = [st EXCEPT ![p] = IF @ = "flush" THEN "read" ELSE "run"]
          ELSE UNCHANGED <<put, st>>
  /\ UNCHANGED <<get, need, made, took>>

\* Mutant: the refill goes to the handle straight away.
UnderflowUntied(p) == st' = [st EXCEPT ![p] = "read"] /\ UNCHANGED todo

\* Mutant: the put area is flushed only when it is full.
UnderflowFlushesFull(p) ==
  IF Tie /\ put[p] = OutSize
  THEN /\ st' = [st EXCEPT ![p] = "flush"]
       /\ todo' = [todo EXCEPT ![p] = put[p]]
  ELSE st' = [st EXCEPT ![p] = "read"] /\ UNCHANGED todo

\* read_some_underflow: flush the tied put area, then read.
Underflow(p) ==
  IF Tie /\ put[p] > 0
  THEN /\ st' = [st EXCEPT ![p] = "flush"]
       /\ todo' = [todo EXCEPT ![p] = put[p]]
  ELSE st' = [st EXCEPT ![p] = "read"] /\ UNCHANGED todo

\* read_all of one message: from the get area alone if it is all there.
Read(p) ==
  /\ st[p] = "run" /\ MayRead(p)
  /\ LET n == Size(Other(p))
     IN  IF n <= get[p]
         THEN /\ get' = [get EXCEPT ![p] = @ - n]
              /\ took' = [took EXCEPT ![p] = @ + 1]
              /\ UNCHANGED <<st, todo, need>>
         ELSE /\ need' = [need EXCEPT ![p] = n - get[p]]
              /\ get' = [get EXCEPT ![p] = 0]
              /\ Underflow(p)
              /\ UNCHANGED took
  /\ UNCHANGED <<put, wire, made>>

\* Mutant: what the read found beyond the message is not kept.
ReceiveDropsExtra(p) ==
  /\ st[p] = "read"
  /\ \E k \in 1..Least(need[p] + InSize, wire[Other(p)]) :
       /\ wire' = [wire EXCEPT ![Other(p)] = @ - k]
       /\ IF k < need[p]
          THEN need' = [need EXCEPT ![p] = @ - k] /\ UNCHANGED <<st, get, took>>
          ELSE /\ need' = [need EXCEPT ![p] = 0]
               /\ took' = [took EXCEPT ![p] = @ + 1]
               /\ st' = [st EXCEPT ![p] = "run"]
               /\ UNCHANGED get
  /\ UNCHANGED <<put, todo, made>>

\* One read of {rest of the message, get area}; it waits for a character.
Receive(p) ==
  /\ st[p] = "read"
  /\ \E k \in 1..Least(need[p] + InSize, wire[Other(p)]) :
       /\ wire' = [wire EXCEPT ![Other(p)] = @ - k]
       /\ IF k < need[p]
          THEN need' = [need EXCEPT ![p] = @ - k] /\ UNCHANGED <<st, get, took>>
          ELSE /\ need' = [need EXCEPT ![p] = 0]
               /\ get' = [get EXCEPT ![p] = k - need[p]]
               /\ took' = [took EXCEPT ![p] = @ + 1]
               /\ st' = [st EXCEPT ![p] = "run"]
  /\ UNCHANGED <<put, todo, made>>

Step(p) == Write(p) \/ Push(p) \/ Read(p) \/ Receive(p)

Next == \E p \in Peers : Step(p)

Spec == Init /\ [][Next]_vars

\* Both programs run on when they can.
FairSpec == Spec /\ \A p \in Peers : WF_vars(Step(p))

-----------------------------------------------------------------------------
TypeOK ==
  /\ st \in [Peers -> {"run", "write", "flush", "read"}]
  /\ put \in [Peers -> 0..OutSize]
  /\ todo \in [Peers -> 0..(2 * OutSize)]
  /\ get \in [Peers -> 0..InSize]
  /\ need \in [Peers -> 0..OutSize]
  /\ wire \in [Peers -> 0..Capacity]
  /\ made \in [Peers -> 0..Rounds] /\ took \in [Peers -> 0..Rounds]

\* Characters a peer has written that its socket has not got yet.
Held(p) == IF st[p] \in {"write", "flush"} THEN todo[p] ELSE put[p]

\* Characters of the message it is reading a peer has already found.
Found(p) == IF st[p] \in {"flush", "read"} THEN Size(Other(p)) - need[p] ELSE 0

\* Every character of every message is in exactly one place: held back,
\* on the wire, buffered at the other end or read there.
Conserved ==
  \A p \in Peers :
    LET q == Other(p)
    IN  made[p] * Size(p) =
          Held(p) + wire[p] + get[q] + Found(q) + took[q] * Size(p)

\* The two never both wait for the other while characters that would free
\* one of them lie in a put area.
NobodyHoldsBack ==
  \A p \in Peers : st[p] = "read" /\ wire[Other(p)] = 0 => Held(p) = 0

\* Every request is answered and the answer read.
Answered == <>(took[Client] = Rounds)
=============================================================================
