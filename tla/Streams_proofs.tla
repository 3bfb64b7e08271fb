--------------------------- MODULE Streams_proofs ---------------------------
(***************************************************************************)
(* Proofs about streams that work together: tied buffers over a socket, of *)
(* any sizes and capacity and for any number of requests; and, below,      *)
(* copies from stream to stream, for any number of threads and streams.    *)
(***************************************************************************)
EXTENDS TiedIO, Transmit, Integers, FiniteSetTheorems, SequenceTheorems, TLAPS

-----------------------------------------------------------------------------
(***************************************************************************)
(* Tied streams: no character is lost between the two programs, and        *)
(* neither waits for the other with characters of its own held back.       *)
(***************************************************************************)

\* What the cursors are: natural numbers; a peer inside a read has taken its
\* get area and has characters of one message left to find.
Cursors ==
  /\ st \in [Peers -> {"run", "write", "flush", "read"}]
  /\ put \in [Peers -> Nat] /\ todo \in [Peers -> Nat]
  /\ get \in [Peers -> Nat] /\ need \in [Peers -> Nat]
  /\ wire \in [Peers -> Nat]
  /\ made \in [Peers -> Nat] /\ took \in [Peers -> Nat]

Reading ==
  \A p \in Peers :
    st[p] \in {"flush", "read"} => need[p] <= Size(Other(p)) /\ get[p] = 0

IInv == Cursors /\ Reading /\ Conserved

\* The peers are two, and each is the other of the other; messages have a
\* length.
LEMMA TwoPeers ==
  ASSUME NEW p \in Peers
  PROVE  /\ Other(p) \in Peers /\ Other(p) # p /\ Other(Other(p)) = p
         /\ Peers = {p, Other(p)}
         /\ Size(p) \in Nat /\ Size(Other(p)) \in Nat
  BY PeersAssumption, TiedSizesAssumption DEF Peers, Other, Size

LEMMA OneMore == \A a, s \in Nat : (a + 1) * s = a * s + s
  BY SMT

LEMMA Products == \A a, s \in Nat : a * s \in Nat
  BY SMT

\* Both peers are run, their areas and the wires empty.
LEMMA Starts == Init => IInv
<1> SUFFICES ASSUME Init PROVE IInv
  OBVIOUS
<1>1. Cursors /\ Reading
  BY DEF Init, Cursors, Reading
<1>2. ASSUME NEW p \in Peers
      PROVE  made[p] * Size(p) = Held(p) + wire[p] + get[Other(p)] + Found(Other(p)) + took[Other(p)] * Size(p)
  BY TwoPeers DEF Init, Held, Found
<1> QED
  BY <1>1, <1>2 DEF IInv, Conserved

\* What the peer p does keeps the account of its own messages and that of the
\* other's.
Account(p) ==
  made[p] * Size(p) =
    Held(p) + wire[p] + get[Other(p)] + Found(Other(p)) + took[Other(p)] * Size(p)

LEMMA BothAccounts ==
  ASSUME NEW p \in Peers, Account(p)', Account(Other(p))'
  PROVE  Conserved'
  BY TwoPeers DEF Conserved, Account

\* The numbers of an account.
LEMMA AccountIs ==
  ASSUME IInv, NEW p \in Peers
  PROVE  /\ made[p] * Size(p) \in Nat /\ took[Other(p)] * Size(p) \in Nat
         /\ Held(p) \in Nat /\ wire[p] \in Nat /\ get[Other(p)] \in Nat
         /\ Found(Other(p)) \in Nat
<1>1. made[p] \in Nat /\ took[Other(p)] \in Nat /\ Size(p) \in Nat
  BY TwoPeers DEF IInv, Cursors
<1>2. Held(p) \in Nat /\ wire[p] \in Nat /\ get[Other(p)] \in Nat
  BY TwoPeers DEF IInv, Cursors, Held
<1>3. Found(Other(p)) \in Nat
  <2>1. need[Other(p)] \in Nat
    BY TwoPeers DEF IInv, Cursors
  <2>2. st[Other(p)] \in {"flush", "read"} => need[Other(p)] <= Size(p)
    BY TwoPeers DEF IInv, Reading
  <2> QED
    BY <2>1, <2>2, TwoPeers DEF Found
<1> QED
  BY <1>1, <1>2, <1>3, Products

\* write_all: the message is counted and lies in the put area, or in the
\* write under way.
LEMMA WriteKeeps ==
  ASSUME IInv, NEW p \in Peers, Write(p)
  PROVE  IInv'
<1> DEFINE q == Other(p)
<1>t. /\ q \in Peers /\ q # p /\ Other(q) = p /\ Peers = {p, q}
      /\ Size(p) \in Nat /\ Size(q) \in Nat
  BY TwoPeers
<1>c. Cursors' /\ Reading'
  BY <1>t DEF IInv, Cursors, Reading, Write
<1>1. Account(p) /\ Account(q)
  BY <1>t DEF IInv, Conserved, Account
<1>2. /\ made'[p] = made[p] + 1 /\ made'[q] = made[q]
      /\ wire' = wire /\ get' = get /\ took' = took /\ need' = need
      /\ Held(p)' = Held(p) + Size(p) /\ Held(q)' = Held(q)
      /\ Found(p)' = Found(p) /\ Found(q)' = Found(q)
  BY <1>t DEF IInv, Cursors, Write, Held, Found
<1>3. made'[p] * Size(p) = made[p] * Size(p) + Size(p)
  BY <1>2, <1>t, OneMore DEF IInv, Cursors
<1>4. Account(p)'
  BY <1>1, <1>2, <1>3, <1>t, AccountIs DEF Account
<1>5. Account(q)'
  BY <1>1, <1>2, <1>t DEF Account
<1> QED
  BY <1>c, <1>4, <1>5, BothAccounts DEF IInv

\* The retry loop moves characters from the account's first place to its
\* second.
LEMMA PushKeeps ==
  ASSUME IInv, NEW p \in Peers, Push(p)
  PROVE  IInv'
<1> DEFINE q == Other(p)
<1>t. /\ q \in Peers /\ q # p /\ Other(q) = p /\ Peers = {p, q}
      /\ Size(p) \in Nat /\ Size(q) \in Nat
  BY TwoPeers
<1>1. PICK k \in 1..Least(todo[p], Capacity - wire[p]) :
        /\ wire' = [wire EXCEPT ![p] = @ + k]
        /\ todo' = [todo EXCEPT ![p] = @ - k]
        /\ IF k = todo[p]
           THEN /\ put' = [put EXCEPT ![p] = 0]
                /\ st' = [st EXCEPT ![p] = IF @ = "flush" THEN "read" ELSE "run"]
           ELSE UNCHANGED <<put, st>>
  BY DEF Push
<1>2. k \in Nat /\ k <= todo[p]
  BY <1>t, TiedSizesAssumption DEF IInv, Cursors, Least
<1>3. Cursors'
  BY <1>1, <1>2, <1>t DEF IInv, Cursors, Push
<1>4. Reading'
  BY <1>1, <1>t DEF IInv, Cursors, Reading, Push
<1>5. /\ made' = made /\ get' = get /\ took' = took
      /\ wire'[p] = wire[p] + k /\ wire'[q] = wire[q]
      /\ Held(q)' = Held(q) /\ Found(q)' = Found(q)
  BY <1>1, <1>t DEF IInv, Cursors, Push, Held, Found
<1>6. Held(p)' = Held(p) - k
  BY <1>1, <1>2, <1>t DEF IInv, Cursors, Push, Held
<1>7. Found(p)' = Found(p)
  BY <1>1, <1>t DEF IInv, Cursors, Push, Found
<1>8. Account(p) /\ Account(q)
  BY <1>t DEF IInv, Conserved, Account
<1>9. Account(p)'
  BY <1>2, <1>5, <1>6, <1>8, <1>t, AccountIs DEF Account
<1>10. Account(q)'
  BY <1>5, <1>7, <1>8, <1>t DEF Account
<1> QED
  BY <1>3, <1>4, <1>9, <1>10, BothAccounts DEF IInv

\* read_all: the message comes out of the get area, or what is there of it is
\* found and the refill begins.
LEMMA ReadKeeps ==
  ASSUME IInv, NEW p \in Peers, Read(p)
  PROVE  IInv'
<1> DEFINE q == Other(p)
<1>t. /\ q \in Peers /\ q # p /\ Other(q) = p /\ Peers = {p, q}
      /\ Size(p) \in Nat /\ Size(q) \in Nat
  BY TwoPeers
<1>1. Account(p) /\ Account(q)
  BY <1>t DEF IInv, Conserved, Account
<1>2. get[p] \in Nat /\ took[p] \in Nat /\ st[p] = "run" /\ Found(p) = 0
  BY <1>t DEF IInv, Cursors, Read, Found
<1>3. CASE Size(q) <= get[p]
  <2>1. Cursors'
    BY <1>3, <1>t DEF IInv, Cursors, Read
  <2>2. Reading'
    BY <1>3, <1>t DEF IInv, Cursors, Reading, Read
  <2>3. /\ made' = made /\ wire' = wire /\ get'[q] = get[q]
        /\ took'[q] = took[q] /\ took'[p] = took[p] + 1 /\ get'[p] = get[p] - Size(q)
        /\ Held(p)' = Held(p) /\ Held(q)' = Held(q)
        /\ Found(p)' = Found(p) /\ Found(q)' = Found(q)
    BY <1>3, <1>t DEF IInv, Cursors, Read, Held, Found
  <2>4. Account(p)'
    BY <1>1, <2>3, <1>t DEF Account
  <2>5. took'[p] * Size(q) = took[p] * Size(q) + Size(q)
    BY <2>3, <1>2, <1>t, OneMore
  <2>6. Account(q)'
    BY <1>1, <1>2, <2>3, <2>5, <1>t, AccountIs DEF Account
  <2> QED
    BY <2>1, <2>2, <2>4, <2>6, BothAccounts DEF IInv
<1>4. CASE ~(Size(q) <= get[p])
  <2>1. Cursors'
    BY <1>4, <1>t DEF IInv, Cursors, Read, Underflow
  <2>2. Reading'
    BY <1>4, <1>2, <1>t DEF IInv, Cursors, Reading, Read, Underflow
  <2>3. /\ made' = made /\ wire' = wire /\ get'[q] = get[q] /\ took' = took
        /\ get'[p] = 0 /\ need'[p] = Size(q) - get[p]
        /\ Held(q)' = Held(q) /\ Found(q)' = Found(q)
    BY <1>4, <1>t DEF IInv, Cursors, Read, Underflow, Held, Found
  <2>4. st'[p] \in {"flush", "read"}
    BY <1>4, <1>t DEF IInv, Cursors, Read, Underflow
  <2>5. Held(p)' = Held(p)
    BY <1>4, <1>2, <1>t DEF IInv, Cursors, Read, Underflow, Held
  <2>6. Found(p)' = get[p]
    BY <2>3, <2>4, <1>2, <1>t DEF Found
  <2>7. Account(p)'
    BY <1>1, <2>3, <2>5, <1>t DEF Account
  <2>8. Account(q)'
    BY <1>1, <1>2, <2>3, <2>6, <1>t, AccountIs DEF Account
  <2> QED
    BY <2>1, <2>2, <2>7, <2>8, BothAccounts DEF IInv
<1> QED
  BY <1>3, <1>4

\* One read of the handle: characters leave the wire for the message, and
\* what is beyond it for the get area.
LEMMA ReceiveKeeps ==
  ASSUME IInv, NEW p \in Peers, Receive(p)
  PROVE  IInv'
<1> DEFINE q == Other(p)
<1>t. /\ q \in Peers /\ q # p /\ Other(q) = p /\ Peers = {p, q}
      /\ Size(p) \in Nat /\ Size(q) \in Nat
  BY TwoPeers
<1>1. PICK k \in 1..Least(need[p] + InSize, wire[q]) :
        /\ wire' = [wire EXCEPT ![Other(p)] = @ - k]
        /\ IF k < need[p]
           THEN need' = [need EXCEPT ![p] = @ - k] /\ UNCHANGED <<st, get, took>>
           ELSE /\ need' = [need EXCEPT ![p] = 0]
                /\ get' = [get EXCEPT ![p] = k - need[p]]
                /\ took' = [took EXCEPT ![p] = @ + 1]
                /\ st' = [st EXCEPT ![p] = "run"]
  BY DEF Receive
<1>2. k \in Nat /\ k <= wire[q]
  BY <1>t, TiedSizesAssumption DEF IInv, Cursors, Least
<1>3. /\ st[p] = "read" /\ get[p] = 0 /\ need[p] \in Nat /\ need[p] <= Size(q)
      /\ took[p] \in Nat /\ wire[q] \in Nat
  BY <1>t DEF IInv, Cursors, Reading, Receive
<1>4. Account(p) /\ Account(q)
  BY <1>t DEF IInv, Conserved, Account
<1>5. Cursors'
  BY <1>1, <1>2, <1>3, <1>t DEF IInv, Cursors, Receive
<1>6. Reading'
  BY <1>1, <1>2, <1>3, <1>t DEF IInv, Cursors, Reading, Receive
<1>7. /\ made' = made /\ wire'[p] = wire[p] /\ wire'[q] = wire[q] - k
      /\ get'[q] = get[q] /\ took'[q] = took[q]
      /\ Held(q)' = Held(q) /\ Found(q)' = Found(q)
  BY <1>1, <1>t DEF IInv, Cursors, Receive, Held, Found
<1>8. Held(p)' = Held(p)
  BY <1>1, <1>3, <1>t DEF IInv, Cursors, Receive, Held
<1>9. Found(p)' + get'[p] + took'[p] * Size(q) = Found(p) + get[p] + took[p] * Size(q) + k
  <2>1. Found(p) = Size(q) - need[p]
    BY <1>3 DEF Found
  <2>2. CASE k < need[p]
    <3>1. Found(p)' = Size(q) - (need[p] - k)
      BY <2>2, <1>1, <1>3, <1>t DEF IInv, Cursors, Found
    <3>2. get'[p] = get[p] /\ took'[p] = took[p]
      BY <2>2, <1>1
    <3> QED
      BY <2>1, <3>1, <3>2, <1>2, <1>3, <1>t, Products
  <2>3. CASE ~(k < need[p])
    <3>1. Found(p)' = 0 /\ get'[p] = k - need[p] /\ took'[p] = took[p] + 1
      BY <2>3, <1>1, <1>t DEF IInv, Cursors, Found
    <3>2. took'[p] * Size(q) = took[p] * Size(q) + Size(q)
      BY <3>1, <1>3, <1>t, OneMore
    <3> QED
      BY <2>1, <3>1, <3>2, <1>2, <1>3, <1>t, Products
  <2> QED
    BY <2>2, <2>3
<1>10. Account(p)'
  BY <1>4, <1>7, <1>8, <1>t DEF Account
<1>11. Account(q)'
  <2>1. Found(p)' \in Int /\ get'[p] \in Int /\ took'[p] * Size(q) \in Int
    BY <1>5, <1>t, Products DEF Cursors, Found
  <2>2. made[q] * Size(q) = Held(q) + wire[q] + get[p] + Found(p) + took[p] * Size(q)
    BY <1>4, <1>t DEF Account
  <2>3. Found(p) \in Int /\ took[p] * Size(q) \in Int /\ Held(q) \in Int
    BY <1>3, <1>t, Products, AccountIs DEF Found
  <2>4. made[q] * Size(q) = Held(q) + (wire[q] - k) + get'[p] + Found(p)' + took'[p] * Size(q)
    BY <1>2, <1>3, <1>9, <2>1, <2>2, <2>3
  <2> QED
    BY <1>7, <1>t, <2>4 DEF Account
<1> QED
  BY <1>5, <1>6, <1>10, <1>11, BothAccounts DEF IInv

LEMMA Kept == IInv /\ [Next]_vars => IInv'
<1> SUFFICES ASSUME IInv, [Next]_vars PROVE IInv'
  OBVIOUS
<1>1. ASSUME NEW p \in Peers, Step(p) PROVE IInv'
  BY <1>1, WriteKeeps, PushKeeps, ReadKeeps, ReceiveKeeps DEF Step
<1>2. CASE UNCHANGED vars
  BY <1>2 DEF vars, IInv, Cursors, Reading, Conserved, Held, Found
<1> QED
  BY <1>1, <1>2 DEF Next

\* Every character of every message is in one place, whatever the sizes of
\* the areas, the messages and the socket (output.h, input.h: the cursors of
\* basic_io_buffer move by what was written and read).
THEOREM CharactersConserved == Spec => []Conserved
<1>1. IInv => Conserved
  BY DEF IInv
<1> QED
  BY Starts, Kept, <1>1, PTL DEF Spec

-----------------------------------------------------------------------------
\* A peer that reads the handle has nothing in its put area.
Flushed ==
  /\ put \in [Peers -> Nat] /\ st \in [Peers -> {"run", "write", "flush", "read"}]
  /\ \A p \in Peers : st[p] = "read" => put[p] = 0

LEMMA FlushedKept ==
  ASSUME Tie, Flushed, [Next]_vars
  PROVE  Flushed'
<1>1. ASSUME NEW p \in Peers, Write(p) PROVE Flushed'
  BY <1>1, TwoPeers DEF Flushed, Write
<1>2. ASSUME NEW p \in Peers, Push(p) PROVE Flushed'
  BY <1>2, TwoPeers DEF Flushed, Push
<1>3. ASSUME NEW p \in Peers, Read(p) PROVE Flushed'
  BY <1>3, TwoPeers DEF Flushed, Read, Underflow
<1>4. ASSUME NEW p \in Peers, Receive(p) PROVE Flushed'
  BY <1>4, TwoPeers DEF Flushed, Receive
<1>5. CASE UNCHANGED vars
  BY <1>5 DEF vars, Flushed
<1> QED
  BY <1>1, <1>2, <1>3, <1>4, <1>5 DEF Next, Step

\* With tied streams nobody waits for the other while holding back what the
\* other may wait for (input.h:142: the refill flushes the put area first).
THEOREM TiedHoldsNothingBack == Tie => (Spec => []NobodyHoldsBack)
<1> SUFFICES ASSUME Tie PROVE Spec => []NobodyHoldsBack
  OBVIOUS
<1>1. Init => Flushed
  BY DEF Init, Flushed
<1>2. Flushed => NobodyHoldsBack
  BY DEF Flushed, NobodyHoldsBack, Held
<1> QED
  BY <1>1, <1>2, FlushedKept, PTL DEF Spec

-----------------------------------------------------------------------------
(***************************************************************************)
(* Copies: they wait for each other for ever only where they run in a      *)
(* circle, and what they read they deliver.                                *)
(***************************************************************************)

-----------------------------------------------------------------------------
(***************************************************************************)
(* Which mutexes a thread has locked.                                      *)
(***************************************************************************)
MutexStates ==
  /\ state \in [Movers -> {"lockout", "lockin", "read", "write", "unlockin",
                        "unlockout", "out"}]
  /\ holder \in [Streams -> Movers \cup {NoMover}]
  /\ \A m \in Movers : \A s \in Streams : holder[s] = m =>
       /\ s \in Lockable
       /\ \/ s = To(m) /\ state[m] \notin {"lockout", "out"}
          \/ s = From(m) /\ state[m] \in {"read", "write", "unlockin"}
  /\ \A m \in Movers :
       /\ To(m) \in Lockable /\ state[m] \notin {"lockout", "out"} => holder[To(m)] = m
       /\ From(m) \in Lockable /\ state[m] \in {"read", "write", "unlockin"} =>
            holder[From(m)] = m /\ From(m) # To(m)

LEMMA MutexStatesKept ==
  ASSUME TransmitAssumption
  PROVE  /\ CopyInit => MutexStates
         /\ MutexStates /\ [CopyNext]_copyVars => MutexStates'
<1>1. NoMover \notin Movers /\ \A m \in Movers : To(m) \in Streams /\ From(m) \in Streams
  BY DEF TransmitAssumption, To, From
<1>2. CopyInit => MutexStates
  BY <1>1 DEF CopyInit, MutexStates
<1>3. ASSUME MutexStates, [CopyNext]_copyVars PROVE MutexStates'
  <2>1. ASSUME NEW m \in Movers, LockOutput(m) PROVE MutexStates'
    BY <2>1, <1>1, <1>3 DEF LockOutput, Lock, MutexStates
  <2>2. ASSUME NEW m \in Movers, LockInput(m) PROVE MutexStates'
    BY <2>2, <1>1, <1>3 DEF LockInput, Lock, Leave, MutexStates
  <2>3. ASSUME NEW m \in Movers, ReadBlock(m) \/ EndOfData(m) \/ WriteBlock(m) \/ Throw(m)
        PROVE  MutexStates'
    <3>1. /\ state[m] \in {"read", "write"} /\ holder' = holder
          /\ \E t \in {"read", "write", "unlockin"} : state' = [state EXCEPT ![m] = t] \/ state' = state
      BY <2>3 DEF ReadBlock, EndOfData, WriteBlock, Throw, Leave, CountOff
    <3> QED BY <3>1, <1>3 DEF MutexStates
  <2>4. ASSUME NEW m \in Movers, UnlockInput(m) PROVE MutexStates'
    BY <2>4, <1>1, <1>3 DEF UnlockInput, Unlock, MutexStates
  <2>5. ASSUME NEW m \in Movers, UnlockOutput(m) PROVE MutexStates'
    BY <2>5, <1>1, <1>3 DEF UnlockOutput, Unlock, MutexStates
  <2>6. CASE UNCHANGED copyVars
    BY <2>6, <1>3 DEF copyVars, MutexStates
  <2> QED BY <1>3, <2>1, <2>2, <2>3, <2>4, <2>5, <2>6 DEF CopyNext, Copying, Run
<1> QED BY <1>2, <1>3

(***************************************************************************)
(* A thread that waits for its output's mutex holds none, so whoever is    *)
(* waited for waits for its input's and holds its output's: those threads  *)
(* are the circle.                                                         *)
(***************************************************************************)
LEMMA WaitersFormCircle ==
  ASSUME TransmitAssumption, MutexStates
  PROVE  StuckOnlyInCircle
<1> SUFFICES ASSUME NEW M \in SUBSET Movers, Stuck(M)
             PROVE  \E N \in SUBSET M : N # {} /\ Circle(N)
  BY DEF StuckOnlyInCircle
<1> DEFINE N == {m \in M : state[m] = "lockin"}
<1>1. ASSUME NEW m \in M
      PROVE  \E n \in N : To(n) \in Wanted(m)
  <2>1. PICK s \in Wanted(m) : holder[s] \in M
    BY DEF Stuck
  <2>2. s \in Streams
    BY DEF Wanted, TransmitAssumption
  <2> DEFINE n == holder[s]
  <2>3. Wanted(n) # {}
    BY <2>1 DEF Stuck
  <2>4. state[n] \in {"lockout", "lockin"}
    BY <2>3 DEF Wanted
  <2>5. state[n] = "lockin" /\ s = To(n)
    BY <2>1, <2>2, <2>4 DEF MutexStates
  <2> QED BY <2>1, <2>5
<1>2. N # {}
  BY <1>1 DEF Stuck
<1>3. Circle(N)
  <2>1. ASSUME NEW m \in N PROVE \E n \in N : From(m) = To(n)
    <3>1. PICK n \in N : To(n) \in Wanted(m)
      BY <1>1
    <3>2. Wanted(m) \subseteq {From(m)}
      BY DEF Wanted
    <3> QED BY <3>1, <3>2
  <2> QED BY <2>1 DEF Circle
<1> QED BY <1>2, <1>3

\* Threads that copy between streams wait for each other for ever only where
\* some of the copies run in a circle: output before input is an order that
\* the mutexes are always taken in.
THEOREM StuckOnlyWhereCircular == ASSUME TransmitAssumption PROVE CopySpec => []StuckOnlyInCircle
<1>1. CopyInit => MutexStates
  BY MutexStatesKept
<1>2. MutexStates /\ [CopyNext]_copyVars => MutexStates'
  BY MutexStatesKept
<1>3. MutexStates => StuckOnlyInCircle
  BY WaitersFormCircle
<1> QED BY <1>1, <1>2, <1>3, PTL DEF CopySpec

-----------------------------------------------------------------------------
(***************************************************************************)
(* What makes CopiesDeliver inductive: what is in the staging buffer is    *)
(* the end of what has been read, and the counts of a copy agree with it.  *)
(***************************************************************************)
Staged(m) ==
  /\ Len(block[m]) <= Len(got[m])
  /\ \A i \in 1..Len(block[m]) : block[m][i] = got[m][(Len(got[m]) - Len(block[m])) + i]
  /\ state[m] = "read" => /\ done[m] = 0
                          /\ Kind(m) # "all" => Len(block[m]) = 0
                          /\ Kind(m) # "eof" => left[m] > 0

Counted(m) ==
  IF Kind(m) = "eof" THEN total[m] = Lesser(Len(got[m]) - Len(block[m]), MaxPos)
  ELSE /\ Len(block[m]) <= left[m]
       /\ Job[m].count = left[m] + (Len(got[m]) - Len(block[m]))

Ended(m) ==
  /\ state[m] \in {"lockout", "lockin"} => Len(got[m]) = 0 /\ Len(block[m]) = 0 /\ done[m] = 0
  /\ state[m] \in {"lockout", "lockin", "read", "write"} => res[m] = "none"
  /\ res[m] = "ok" => /\ Len(block[m]) = 0
                      /\ Kind(m) = "all" => left[m] = 0
                      /\ Kind(m) = "some" /\ left[m] > 0 => Ready(m) = 0
                      /\ Kind(m) = "eof" => Ready(m) = 0

\* The places of a copy that holds the mutex of its output go on to its end,
\* and what it has read from an input with a mutex goes on to what is next.
Latest(m) ==
  state[m] \in {"read", "write"} =>
    /\ To(m) \in Lockable =>
         \A i \in Places(m) : \A j \in i..Len(sink[To(m)]) : j \in Places(m)
    /\ From(m) \in Lockable /\ Len(got[m]) > 0 =>
         got[m][Len(got[m])][2] = taken[From(m)]

Inv ==
  /\ CopyTypeOK /\ MutexStates
  /\ \A m \in Movers : Staged(m) /\ Counted(m) /\ Ended(m) /\ Latest(m)
  /\ Delivered /\ OnePiece

Elements == Streams \X Nat

LEMMA Jobs ==
  ASSUME TransmitAssumption, NEW m \in Movers
  PROVE  /\ To(m) \in Streams /\ From(m) \in Streams /\ Job[m].count \in Nat
         /\ Kind(m) \in {"all", "some", "eof"}
         /\ Block \in Nat \ {0} /\ MaxPos \in Nat /\ Data[From(m)] \in Nat
BY DEF TransmitAssumption, To, From, Kind

LEMMA Numbers ==
  ASSUME TransmitAssumption, CopyTypeOK, NEW m \in Movers
  PROVE  /\ block[m] \in Seq(Elements) /\ got[m] \in Seq(Elements)
         /\ Len(block[m]) \in Nat /\ Len(got[m]) \in Nat /\ done[m] \in Nat /\ left[m] \in Nat
         /\ Len(block[m]) <= Block /\ done[m] <= Len(block[m]) /\ total[m] \in Nat
         /\ taken[From(m)] \in Nat /\ taken[From(m)] <= Data[From(m)]
         /\ sink[To(m)] \in Seq(Movers \X Elements) /\ Len(sink[To(m)]) \in Nat
<1>1. block[m] \in Seq(Elements) /\ got[m] \in Seq(Elements) /\ sink[To(m)] \in Seq(Movers \X Elements)
  BY Jobs DEF CopyTypeOK, Elements
<1>2. Len(block[m]) \in Nat /\ Len(got[m]) \in Nat /\ Len(sink[To(m)]) \in Nat
  OBVIOUS
<1>3. /\ done[m] \in Nat /\ left[m] \in Nat /\ total[m] \in 0..MaxPos
      /\ Len(block[m]) <= Block /\ done[m] <= Len(block[m])
      /\ taken[From(m)] \in Nat /\ taken[From(m)] <= Data[From(m)]
  BY Jobs DEF CopyTypeOK
<1> QED BY <1>1, <1>3

\* The places of a thread are finitely many, and each has a number among them.
LEMMA PlacesAreFinite ==
  ASSUME TransmitAssumption, CopyTypeOK, NEW m \in Movers
  PROVE  /\ IsFiniteSet(Places(m)) /\ Cardinality(Places(m)) \in Nat
         /\ \A i \in Places(m) :
              Cardinality({j \in Places(m) : j <= i}) \in 1..Cardinality(Places(m))
<1>1. Len(sink[To(m)]) \in Nat
  OBVIOUS
<1>2. IsFiniteSet(1..Len(sink[To(m)]))
  BY FS_Interval
<1>3. IsFiniteSet(Places(m)) /\ Cardinality(Places(m)) \in Nat
  <2>1. Places(m) \subseteq 1..Len(sink[To(m)])
    BY DEF Places
  <2> QED BY <1>2, <2>1, FS_Subset, FS_CardinalityType
<1>4. ASSUME NEW i \in Places(m)
      PROVE  Cardinality({j \in Places(m) : j <= i}) \in 1..Cardinality(Places(m))
  <2> DEFINE A == {j \in Places(m) : j <= i}
  <2>1. A \subseteq Places(m) /\ A # {}
    <3>1. i \in Nat
      BY DEF Places
    <3>2. i \in A
      BY <3>1
    <3> QED BY <3>2
  <2>2. IsFiniteSet(A) /\ Cardinality(A) \in Nat /\ Cardinality(A) <= Cardinality(Places(m))
    BY <1>3, FS_Subset, FS_CardinalityType
  <2>3. Cardinality(A) # 0
    BY <2>1, <2>2, FS_EmptySet
  <2> QED BY <2>2, <2>3
<1> QED BY <1>3, <1>4

(***************************************************************************)
(* Steps that move no data.                                                *)
(***************************************************************************)
MovesOn(m, t, how) ==
  /\ t \in {"lockin", "read", "unlockin", "unlockout", "out"} /\ state' = [state EXCEPT ![m] = t]
  /\ how \in {"none", "ok", "error"} /\ res' = [res EXCEPT ![m] = how]
  /\ t = "lockin" => state[m] = "lockout" /\ how = "none"
  /\ t = "read" => state[m] = "lockin" /\ how = "none" /\ (Kind(m) # "eof" => left[m] > 0)
  /\ how = "ok" => /\ Len(block[m]) = 0
                   /\ Kind(m) = "all" => left[m] = 0
                   /\ Kind(m) = "some" /\ left[m] > 0 => Ready(m) = 0
                   /\ Kind(m) = "eof" => Ready(m) = 0
  /\ UNCHANGED <<left, total, block, done, taken, sink, got>>
  /\ errs' \in Nat

LEMMA StillHolds ==
  ASSUME TransmitAssumption, Inv, NEW m \in Movers, NEW t, NEW how,
         MovesOn(m, t, how), MutexStates'
  PROVE  Inv'
<1>0. /\ t \in {"lockin", "read", "unlockin", "unlockout", "out"} /\ state' = [state EXCEPT ![m] = t]
      /\ how \in {"none", "ok", "error"} /\ res' = [res EXCEPT ![m] = how]
      /\ t = "lockin" => state[m] = "lockout" /\ how = "none"
      /\ t = "read" => state[m] = "lockin" /\ how = "none" /\ (Kind(m) # "eof" => left[m] > 0)
      /\ how = "ok" => /\ Len(block[m]) = 0
                       /\ Kind(m) = "all" => left[m] = 0
                       /\ Kind(m) = "some" /\ left[m] > 0 => Ready(m) = 0
                       /\ Kind(m) = "eof" => Ready(m) = 0
      /\ UNCHANGED <<left, total, block, done, taken, sink, got>>
      /\ errs' \in Nat /\ holder' \in [Streams -> Movers \cup {NoMover}]
  BY DEF MovesOn, MutexStates
<1>1. CopyTypeOK /\ MutexStates /\ Delivered /\ OnePiece
      /\ \A n \in Movers : Staged(n) /\ Counted(n) /\ Ended(n) /\ Latest(n)
  BY DEF Inv
<1>2. CopyTypeOK'
  BY <1>0, <1>1 DEF CopyTypeOK
<1>3. /\ state'[m] = t /\ res'[m] = how
      /\ \A n \in Movers \ {m} : state'[n] = state[n] /\ res'[n] = res[n]
  BY <1>0, <1>1 DEF CopyTypeOK
<1>4. /\ UNCHANGED <<Delivered, OnePiece>>
      /\ \A n \in Movers : Places(n)' = Places(n) /\ Ready(n)' = Ready(n)
  <2>1. UNCHANGED <<Delivered, OnePiece>>
    BY <1>0 DEF Delivered, OnePiece, Places, Sent
  <2> QED BY <1>0, <2>1 DEF Places, Ready
<1>5. ASSUME NEW n \in Movers
      PROVE  (Staged(n) /\ Counted(n) /\ Ended(n) /\ Latest(n))'
  <2>1. CASE n # m
    <3>1. Staged(n)' /\ Counted(n)'
      BY <1>0, <2>1, <1>1, <1>3 DEF Staged, Counted
    <3>2. Ended(n)'
      BY <1>0, <2>1, <1>1, <1>3, <1>4 DEF Ended
    <3>3. Latest(n)'
      BY <1>0, <2>1, <1>1, <1>3, <1>4 DEF Latest
    <3> QED BY <2>1, <3>1, <3>2, <3>3
  <2>2. CASE n = m
    <3>1. Staged(m)'
      BY <1>0, <1>1, <1>3 DEF Staged, Ended
    <3>2. Counted(m)'
      BY <1>0, <1>1 DEF Counted
    <3>3. Ended(m)'
      BY <1>0, <1>1, <1>3, <1>4 DEF Ended
    <3>4. Latest(m)'
      <4>1. CASE t # "read"
        BY <1>0, <4>1, <1>3 DEF Latest
      <4>2. CASE t = "read"
        <5>1. Len(got[m]) = 0 /\ Len(block[m]) = 0 /\ done[m] = 0
          BY <1>0, <4>2, <1>1 DEF Ended
        <5>2. Cardinality(Places(m)) = 0
          <6>1. Sent(m) = 0
            BY <5>1 DEF Sent
          <6>2. Cardinality(Places(m)) = Sent(m)
            BY <1>1 DEF Delivered
          <6> QED BY <6>1, <6>2
        <5>3. Places(m) = {}
          BY <5>2, <1>1, PlacesAreFinite, FS_EmptySet
        <5> QED BY <1>0, <5>1, <5>3, <1>4 DEF Latest
      <4> QED BY <4>1, <4>2
    <3> QED BY <2>2, <3>1, <3>2, <3>3, <3>4
  <2> QED BY <2>1, <2>2
<1> QED BY <1>2, <1>4, <1>5 DEF Inv

(***************************************************************************)
(* Reading.                                                                *)
(***************************************************************************)
LEMMA ReadHolds ==
  ASSUME TransmitAssumption, Inv, NEW m \in Movers, ReadBlock(m), MutexStates'
  PROVE  Inv'
<1> DEFINE s == From(m)
           b == Len(block[m])
           g == Len(got[m])
<1>1. /\ CopyTypeOK /\ MutexStates /\ Delivered /\ OnePiece /\ Staged(m) /\ Counted(m) /\ Ended(m)
      /\ \A n \in Movers : Staged(n) /\ Counted(n) /\ Ended(n) /\ Latest(n)
  BY DEF Inv
<1>2. PICK k \in 1..Lesser(Want(m), Ready(m)) :
        /\ Takes(m, k)
        /\ state' = [state EXCEPT ![m] = IF Kind(m) = "all" /\ k < Want(m)
                                         THEN "read" ELSE "write"]
  BY DEF ReadBlock
<1> DEFINE new == [i \in 1..k |-> <<s, taken[s] + i>>]
<1>3. /\ state[m] = "read" /\ state'[m] \in {"read", "write"} /\ (state'[m] = "read" => Kind(m) = "all" /\ k < Want(m))
      /\ \A n \in Movers \ {m} : state'[n] = state[n]
      /\ state' \in [Movers -> {"lockout", "lockin", "read", "write", "unlockin", "unlockout", "out"}]
      /\ UNCHANGED <<res, left, total, done, sink, holder, errs>>
      /\ taken' = [taken EXCEPT ![s] = @ + k]
      /\ block' = [block EXCEPT ![m] = @ \o new]
      /\ got' = [got EXCEPT ![m] = @ \o new]
  BY <1>1, <1>2 DEF ReadBlock, Takes, CopyTypeOK
<1>4. /\ done[m] = 0 /\ (Kind(m) # "all" => b = 0) /\ (Kind(m) # "eof" => left[m] > 0)
      /\ b <= g /\ res[m] = "none"
      /\ \A i \in 1..b : block[m][i] = got[m][(g - b) + i]
  BY <1>1, <1>3 DEF Staged, Ended
<1>5. /\ b \in Nat /\ g \in Nat /\ left[m] \in Nat /\ Block \in Nat /\ b <= Block
      /\ taken[s] \in Nat /\ taken[s] <= Data[s] /\ Data[s] \in Nat /\ s \in Streams
      /\ block[m] \in Seq(Elements) /\ got[m] \in Seq(Elements)
  BY <1>1, Numbers, Jobs
<1>6. /\ k \in Nat /\ k >= 1 /\ taken[s] + k <= Data[s] /\ b + k <= Block
      /\ Kind(m) # "eof" => b + k <= left[m]
  <2>1. \A x, y \in Int : \A z \in 1..Lesser(x, y) : z \in Nat /\ 1 <= z /\ z <= x /\ z <= y
    BY DEF Lesser
  <2>2. \A x, y \in Int : Lesser(x, y) <= x /\ Lesser(x, y) <= y /\ Lesser(x, y) \in Int
    BY DEF Lesser
  <2>3. Round(m) \in Int /\ Round(m) <= Block /\ (Kind(m) # "eof" => Round(m) <= left[m])
    <3>1. CASE Kind(m) = "eof"
      BY <3>1, <1>5 DEF Round
    <3>2. CASE Kind(m) # "eof"
      <4>1. Round(m) = Lesser(Block, left[m])
        BY <3>2 DEF Round
      <4> QED BY <4>1, <1>5 DEF Lesser
    <3> QED BY <3>1, <3>2
  <2>4. Want(m) = Round(m) - b /\ Want(m) \in Int /\ Ready(m) = Data[s] - taken[s] /\ Ready(m) \in Int
    BY <2>3, <1>5 DEF Want, Ready
  <2>5. k \in Nat /\ 1 <= k /\ k <= Want(m) /\ k <= Ready(m)
    <3>1. Want(m) \in Int /\ Ready(m) \in Int /\ k \in 1..Lesser(Want(m), Ready(m))
      BY <2>4
    <3> QED BY <3>1, <2>1
  <2>6. k \in Nat /\ 1 <= k /\ k <= Round(m) - b /\ k <= Data[s] - taken[s]
    BY <2>4, <2>5
  <2> HIDE DEF s, b
  <2> QED BY <2>3, <2>6, <1>5
<1>7. new \in Seq(Elements) /\ Len(new) = k /\ \A i \in 1..k : new[i] = <<s, taken[s] + i>>
  <2>1. \A i \in 1..k : <<s, taken[s] + i>> \in Elements
    BY <1>5 DEF Elements
  <2>2. new \in [1..k -> Elements]
    BY <2>1
  <2> QED BY <2>2
<1> HIDE DEF new
<1>8. /\ block'[m] \in Seq(Elements) /\ Len(block'[m]) = b + k
      /\ \A i \in 1..(b + k) : block'[m][i] = IF i <= b THEN block[m][i] ELSE new[i - b]
  <2>1. block'[m] = block[m] \o new
    BY <1>1, <1>3 DEF CopyTypeOK
  <2>2. /\ block[m] \o new \in Seq(Elements) /\ Len(block[m] \o new) = b + Len(new)
        /\ \A i \in 1..(b + Len(new)) :
             (block[m] \o new)[i] = IF i <= b THEN block[m][i] ELSE new[i - b]
    <3>1. block[m] \in Seq(Elements) /\ new \in Seq(Elements)
      BY <1>5, <1>7
    <3> QED BY <3>1, ConcatProperties
  <2> QED BY <2>1, <2>2, <1>7
<1>9. /\ got'[m] \in Seq(Elements) /\ Len(got'[m]) = g + k
      /\ \A i \in 1..(g + k) : got'[m][i] = IF i <= g THEN got[m][i] ELSE new[i - g]
  <2>1. got'[m] = got[m] \o new
    BY <1>1, <1>3 DEF CopyTypeOK
  <2>2. /\ got[m] \o new \in Seq(Elements) /\ Len(got[m] \o new) = g + Len(new)
        /\ \A i \in 1..(g + Len(new)) :
             (got[m] \o new)[i] = IF i <= g THEN got[m][i] ELSE new[i - g]
    <3>1. got[m] \in Seq(Elements) /\ new \in Seq(Elements)
      BY <1>5, <1>7
    <3> QED BY <3>1
  <2> QED BY <2>1, <2>2, <1>7
<1>10. /\ \A n \in Movers \ {m} : block'[n] = block[n] /\ got'[n] = got[n]
       /\ taken'[s] = taken[s] + k /\ \A r \in Streams \ {s} : taken'[r] = taken[r]
  <2>1. \A n \in Movers \ {m} : block'[n] = block[n] /\ got'[n] = got[n]
    BY <1>3
  <2>2. taken'[s] = taken[s] + k /\ \A r \in Streams \ {s} : taken'[r] = taken[r]
    BY <1>1, <1>3, <1>5 DEF CopyTypeOK
  <2> QED BY <2>1, <2>2
\* The numbers of all this.
<1>a. /\ b \in Nat /\ g \in Nat /\ k \in Nat /\ k >= 1 /\ b <= g
      /\ Len(block'[m]) = b + k /\ Len(got'[m]) = g + k
  BY <1>4, <1>8, <1>9
<1>11. /\ \A n \in Movers : Places(n)' = Places(n)
       /\ \A n \in Movers : Sent(n)' = Sent(n)
  <2>1. \A n \in Movers : Places(n)' = Places(n)
    BY <1>3 DEF Places
  <2>2. \A n \in Movers \ {m} : Sent(n)' = Sent(n)
    BY <1>3 DEF Sent
  <2>3. Sent(m)' = Sent(m)
    <3>1. Len(got'[m]) - Len(block'[m]) = g - b
      BY <1>a
    <3> QED BY <3>1, <1>3 DEF Sent
  <2> QED BY <2>1, <2>2, <2>3
<1>12. CopyTypeOK'
  <2>1. block' \in [Movers -> Seq(Streams \X Nat)] /\ got' \in [Movers -> Seq(Streams \X Nat)]
    BY <1>1, <1>3, <1>8, <1>9 DEF CopyTypeOK, Elements
  <2>2. taken' \in [Streams -> Nat] /\ \A r \in Streams : taken'[r] <= Data[r]
    <3>1. taken[s] + k \in Nat
      BY <1>5, <1>6
    <3>2. taken' \in [Streams -> Nat]
      BY <3>1, <1>1, <1>3 DEF CopyTypeOK
    <3>3. \A r \in Streams : taken[r] <= Data[r]
      BY <1>1 DEF CopyTypeOK
    <3> QED BY <3>2, <3>3, <1>6, <1>10
  <2>3. \A n \in Movers : Len(block'[n]) <= Block /\ done'[n] <= Len(block'[n])
    <3>1. Len(block'[m]) <= Block /\ done'[m] <= Len(block'[m])
      BY <1>3, <1>4, <1>6, <1>8
    <3> QED BY <3>1, <1>1, <1>3 DEF CopyTypeOK
  <2> QED BY <2>1, <2>2, <2>3, <1>1, <1>3 DEF CopyTypeOK
<1>13. ASSUME NEW n \in Movers
       PROVE  (Staged(n) /\ Counted(n) /\ Ended(n))'
  <2>1. CASE n # m
    <3>1. Ready(n) = 0 => Ready(n)' = 0
      <4>1. CASE From(n) # s
        BY <4>1, <1>10, Jobs DEF Ready
      <4>2. CASE From(n) = s
        <5>1. Ready(n) = Data[s] - taken[s] /\ Ready(n) # 0
          BY <4>2, <1>5, <1>6 DEF Ready
        <5> QED BY <5>1
      <4> QED BY <4>1, <4>2
    <3>2. /\ state'[n] = state[n] /\ block'[n] = block[n] /\ got'[n] = got[n]
          /\ UNCHANGED <<res, left, total, done>>
      BY <2>1, <1>3
    <3>3. Staged(n) /\ Counted(n) /\ Ended(n)
      BY <1>1
    <3>4. Staged(n)' /\ Counted(n)'
      BY <3>2, <3>3 DEF Staged, Counted
    <3>5. Ended(n)'
      BY <3>1, <3>2, <3>3 DEF Ended
    <3> QED BY <3>4, <3>5
  <2>2. CASE n = m
    <3>1. Staged(m)'
      <4>1. Len(block'[m]) <= Len(got'[m])
        BY <1>4, <1>8, <1>9
      <4>2. ASSUME NEW i \in 1..Len(block'[m])
            PROVE  block'[m][i] = got'[m][(Len(got'[m]) - Len(block'[m])) + i]
        <5>1. /\ (Len(got'[m]) - Len(block'[m])) + i = (g - b) + i
              /\ i \in 1..(b + k) /\ (g - b) + i \in 1..(g + k)
              /\ (g - b) + i <= g <=> i <= b
              /\ ((g - b) + i) - g = i - b
              /\ i <= b => i \in 1..b
          <6>1. i \in Nat /\ 1 <= i /\ i <= b + k /\ Len(got'[m]) - Len(block'[m]) = g - b
            BY <1>a
          <6>2. (Len(got'[m]) - Len(block'[m])) + i = (g - b) + i
            BY <6>1
          <6> HIDE DEF g, b
          <6>3. i \in 1..(b + k) /\ (g - b) + i \in 1..(g + k) /\ ((g - b) + i) - g = i - b
            BY <1>a
          <6>4. ((g - b) + i <= g <=> i <= b) /\ (i <= b => i \in 1..b)
            BY <1>a
          <6> QED BY <6>2, <6>3, <6>4
        <5>2. block'[m][i] = IF i <= b THEN block[m][i] ELSE new[i - b]
          BY <1>8
        <5>3. got'[m][(g - b) + i] = IF i <= b THEN got[m][(g - b) + i] ELSE new[i - b]
          BY <5>1, <1>9
        <5>4. i <= b => block[m][i] = got[m][(g - b) + i]
          BY <5>1, <1>4
        <5>5. block'[m][i] = got'[m][(g - b) + i]
          BY <5>2, <5>3, <5>4
        <5> QED BY <5>1, <5>5
      <4>3. state'[m] = "read" => /\ done'[m] = 0
                                  /\ Kind(m) # "all" => Len(block'[m]) = 0
                                  /\ Kind(m) # "eof" => left'[m] > 0
        BY <1>3, <1>4
      <4> QED BY <4>1, <4>2, <4>3 DEF Staged
    <3>2. Counted(m)'
      <4>1. Len(got'[m]) - Len(block'[m]) = g - b
        BY <1>a
      <4>2. Kind(m) # "eof" => Len(block'[m]) <= left'[m]
        BY <1>3, <1>6, <1>8
      <4> QED BY <4>1, <4>2, <1>1, <1>3 DEF Counted
    <3>3. Ended(m)'
      BY <1>1, <1>3 DEF Ended
    <3> QED BY <2>2, <3>1, <3>2, <3>3
  <2> QED BY <2>1, <2>2
<1>14. Delivered'
  <2>1. ASSUME NEW n \in Movers
        PROVE  /\ Cardinality(Places(n)) = Sent(n)
               /\ \A i \in Places(n) :
                    sink[To(n)][i][2] = got'[n][Cardinality({j \in Places(n) : j <= i})]
    <3>1. Cardinality(Places(n)) = Sent(n)
      BY <1>1 DEF Delivered
    <3>2. ASSUME NEW i \in Places(n)
          PROVE  sink[To(n)][i][2] = got'[n][Cardinality({j \in Places(n) : j <= i})]
      <4> DEFINE c == Cardinality({j \in Places(n) : j <= i})
      <4>1. sink[To(n)][i][2] = got[n][c]
        BY <1>1 DEF Delivered
      <4>2. CASE n # m
        BY <4>1, <4>2, <1>10
      <4>3. CASE n = m
        <5>1. c \in 1..Sent(n)
          BY <3>1, <1>1, PlacesAreFinite
        <5>2. Sent(m) <= g /\ Sent(m) \in Nat
          <6>1. Sent(m) = (g - b) + 0
            BY <1>4 DEF Sent
          <6> HIDE DEF g, b
          <6>2. (g - b) + 0 \in Nat /\ (g - b) + 0 <= g
            BY <1>a
          <6> QED BY <6>1, <6>2
        <5> HIDE DEF c
        <5>3. c \in 1..(g + k) /\ c <= g
          BY <4>3, <5>1, <5>2
        <5> QED BY <4>1, <4>3, <5>3, <1>9 DEF c
      <4> QED BY <4>2, <4>3
    <3> QED BY <3>1, <3>2
  <2>2. ASSUME NEW n \in Movers
        PROVE  (/\ Cardinality(Places(n)) = Sent(n)
                /\ \A i \in Places(n) :
                     sink[To(n)][i][2] = got[n][Cardinality({j \in Places(n) : j <= i})])'
    <3>1. Places(n)' = Places(n) /\ Sent(n)' = Sent(n) /\ sink' = sink
      BY <1>3, <1>11
    <3>2. \A i : {j \in Places(n)' : j <= i} = {j \in Places(n) : j <= i}
      BY <3>1
    <3> QED BY <2>1, <3>1
  <2> QED BY <2>2 DEF Delivered
\* The mutex of the input keeps the others from reading on.
<1>15. ASSUME NEW n \in Movers, n # m, state[n] \in {"read", "write"}, From(n) \in Lockable
       PROVE  From(n) # s
  BY <1>3, <1>15 DEF MutexStates
<1>16. /\ Latest(m)'
       /\ s \in Lockable =>
            \A i \in 1..(Len(got'[m]) - 1) : got'[m][i + 1][2] = got'[m][i][2] + 1
  <2>1. got'[m][g + k] = <<s, taken[s] + k>>
    <3>1. g + k \in 1..(g + k) /\ ~(g + k <= g) /\ (g + k) - g = k /\ k \in 1..k
      OBVIOUS
    <3> QED BY <3>1, <1>7, <1>9
  <2>2. Latest(m)'
    <3>1. got'[m][Len(got'[m])][2] = taken'[s]
      BY <2>1, <1>a, <1>10
    <3>2. /\ Latest(m) /\ Places(m)' = Places(m) /\ sink' = sink /\ state[m] = "read"
      BY <1>1, <1>3, <1>11
    <3> QED BY <3>1, <3>2 DEF Latest
  <2>3. ASSUME s \in Lockable, NEW i \in 1..(Len(got'[m]) - 1)
        PROVE  got'[m][i + 1][2] = got'[m][i][2] + 1
    <3>1. /\ i \in Nat /\ 1 <= i /\ i < g + k /\ i \in 1..(g + k) /\ i + 1 \in 1..(g + k)
      BY <1>9
    <3>2. CASE i < g
      <4>1. i \in 1..(g - 1) /\ i <= g /\ i + 1 <= g
        BY <3>2
      <4>2. got[m][i + 1][2] = got[m][i][2] + 1
        BY <4>1, <2>3, <1>1 DEF OnePiece
      <4> QED BY <3>1, <4>1, <4>2, <1>9
    <3>3. CASE i = g
      <4>1. got[m][g][2] = taken[s]
        BY <3>3, <2>3, <1>1, <1>3 DEF Latest
      <4>2. ~(i + 1 <= g) /\ (i + 1) - g = 1 /\ i <= g /\ 1 \in 1..k
        BY <3>3
      <4>3. got'[m][i + 1] = <<s, taken[s] + 1>>
        <5>1. got'[m][i + 1] = new[(i + 1) - g]
          BY <3>1, <4>2, <1>9
        <5> QED BY <4>2, <5>1, <1>7
      <4>4. got'[m][i] = got[m][g]
        BY <3>3, <1>9
      <4> QED BY <4>1, <4>3, <4>4
    <3>4. CASE i > g
      <4> DEFINE j == i - g
      <4>1. /\ ~(i + 1 <= g) /\ ~(i <= g) /\ (i + 1) - g = j + 1 /\ j \in 1..k /\ j + 1 \in 1..k
        BY <3>1, <3>4
      <4>2. got'[m][i + 1] = <<s, taken[s] + (j + 1)>> /\ got'[m][i] = <<s, taken[s] + j>>
        BY <3>1, <4>1, <1>7, <1>9
      <4>3. got'[m][i + 1][2] = taken[s] + (j + 1) /\ got'[m][i][2] = taken[s] + j
        BY <4>2
      <4> HIDE DEF j
      <4>4. taken[s] + (j + 1) = (taken[s] + j) + 1
        <5>1. j \in Nat /\ taken[s] \in Nat
          BY <4>1, <1>5
        <5> QED BY <5>1
      <4> QED BY <4>3, <4>4
    <3> QED BY <3>2, <3>3, <3>4
  <2> QED BY <2>2, <2>3
<1>17. ASSUME NEW n \in Movers PROVE Latest(n)'
  <2>1. CASE n # m
    <3>1. state[n] \in {"read", "write"} /\ From(n) \in Lockable => taken'[From(n)] = taken[From(n)]
      BY <2>1, <1>10, <1>15, Jobs
    <3> QED BY <2>1, <3>1, <1>1, <1>3, <1>11 DEF Latest
  <2> QED BY <2>1, <1>16
<1>18. OnePiece'
  <2>1. ASSUME NEW n \in Movers
        PROVE  /\ To(n) \in Lockable => \A i, j \in Places(n) : i..j \subseteq Places(n)
               /\ From(n) \in Lockable =>
                    \A i \in 1..(Len(got'[n]) - 1) : got'[n][i + 1][2] = got'[n][i][2] + 1
    BY <1>1, <1>10, <1>16 DEF OnePiece
  <2> QED BY <2>1, <1>11 DEF OnePiece
<1> QED BY <1>12, <1>13, <1>14, <1>17, <1>18 DEF Inv

(***************************************************************************)
(* Writing.                                                                *)
(***************************************************************************)
LEMMA AddIsLeast ==
  ASSUME NEW x \in Nat, NEW d \in Nat, MaxPos \in Nat
  PROVE  Add(Lesser(x, MaxPos), d) = Lesser(x + d, MaxPos) /\ Lesser(x + d, MaxPos) \in 0..MaxPos
BY DEF Add, Lesser

LEMMA WriteHolds ==
  ASSUME TransmitAssumption, Inv, NEW m \in Movers, WriteBlock(m), MutexStates'
  PROVE  Inv'
<1> DEFINE T == To(m)
           b == Len(block[m])
           g == Len(got[m])
           d == done[m]
           L == Len(sink[T])
<1>1. /\ CopyTypeOK /\ MutexStates /\ Delivered /\ OnePiece
      /\ \A n \in Movers : Staged(n) /\ Counted(n) /\ Ended(n) /\ Latest(n)
      /\ state[m] = "write" /\ UNCHANGED <<taken, holder, got, errs>>
  BY DEF Inv, WriteBlock
<1>2. PICK k \in 1..(b - d) :
        /\ sink' = [sink EXCEPT ![T] = @ \o [i \in 1..k |-> <<m, block[m][d + i]>>]]
        /\ IF d + k < b
           THEN /\ done' = [done EXCEPT ![m] = @ + k]
                /\ UNCHANGED <<state, res, left, total, block>>
           ELSE /\ done' = [done EXCEPT ![m] = 0]
                /\ block' = [block EXCEPT ![m] = <<>>]
                /\ CountOff(m)
  BY DEF WriteBlock
<1>3. /\ b \in Nat /\ g \in Nat /\ d \in Nat /\ left[m] \in Nat /\ MaxPos \in Nat
      /\ b <= Block /\ Block \in Nat /\ b <= g /\ d + k <= b /\ k \in Nat /\ k >= 1
      /\ Job[m].count \in Nat
  <2>1. /\ b \in Nat /\ g \in Nat /\ d \in Nat /\ left[m] \in Nat /\ MaxPos \in Nat
        /\ b <= Block /\ Block \in Nat /\ Job[m].count \in Nat
    BY <1>1, Numbers, Jobs
  <2>2. b <= g
    BY <1>1 DEF Staged
  <2>3. d + k <= b /\ k \in Nat /\ k >= 1
    BY <2>1
  <2> QED BY <2>1, <2>2
<1>4. /\ block[m] \in Seq(Elements) /\ got[m] \in Seq(Elements)
      /\ \A i \in 1..b : block[m][i] = got[m][(g - b) + i]
  BY <1>1, Numbers DEF Staged
<1> DEFINE new == [i \in 1..k |-> <<m, block[m][d + i]>>]
<1>5. /\ new \in Seq(Movers \X Elements) /\ Len(new) = k
      /\ \A i \in 1..k : new[i][1] = m /\ new[i][2] = block[m][d + i]
  <2>1. \A i \in 1..k : d + i \in 1..b
    BY <1>3
  <2>2. \A i \in 1..k : block[m][d + i] \in Elements
    BY <2>1, <1>4
  <2>3. new \in [1..k -> Movers \X Elements]
    BY <2>2
  <2> QED BY <2>3
<1>6. sink' = [sink EXCEPT ![T] = @ \o new]
  BY <1>2
<1> HIDE DEF new
<1>7. /\ sink' \in [Streams -> Seq(Movers \X Elements)]
      /\ L \in Nat /\ Len(sink'[T]) = L + k
      /\ \A i \in 1..L : sink'[T][i] = sink[T][i]
      /\ \A i \in 1..k : sink'[T][L + i] = new[i]
      /\ Places(m) \subseteq 1..L /\ Places(m)' = Places(m) \cup ((L + 1)..(L + k))
      /\ \A n \in Movers \ {m} :
           /\ Places(n)' = Places(n)
           /\ \A i \in Places(n) : sink'[To(n)][i] = sink[To(n)][i]
      /\ \A s \in Streams \ {T} : sink'[s] = sink[s]
  <2>a. new \in Seq(Movers \X Elements) /\ Len(new) = k /\ k \in Nat /\ \A i \in 1..k : new[i][1] = m
    BY <1>5
  <2>1. /\ T \in Streams /\ sink[T] \in Seq(Movers \X Elements) /\ L \in Nat
        /\ sink \in [Streams -> Seq(Movers \X Elements)]
    BY <1>1, Numbers, Jobs DEF CopyTypeOK, Elements
  <2>2. sink'[T] = sink[T] \o new /\ \A s \in Streams \ {T} : sink'[s] = sink[s]
    BY <1>6, <2>1
  <2>3. /\ sink'[T] \in Seq(Movers \X Elements) /\ Len(sink'[T]) = L + k
        /\ \A i \in 1..(L + k) : sink'[T][i] = IF i <= L THEN sink[T][i] ELSE new[i - L]
    <3>1. /\ sink[T] \o new \in Seq(Movers \X Elements) /\ Len(sink[T] \o new) = L + Len(new)
          /\ \A i \in 1..(L + Len(new)) :
               (sink[T] \o new)[i] = IF i <= L THEN sink[T][i] ELSE new[i - L]
      BY <2>a, <2>1, ConcatProperties
    <3> QED BY <2>a, <3>1, <2>2
  <2>4. sink' \in [Streams -> Seq(Movers \X Elements)]
    BY <1>6, <2>1, <2>3
  <2>5. ASSUME NEW i \in 1..L PROVE sink'[T][i] = sink[T][i]
    <3>1. i \in 1..(L + k) /\ i <= L
      OBVIOUS
    <3> QED BY <3>1, <2>3
  <2>6. ASSUME NEW i \in 1..k PROVE sink'[T][L + i] = new[i]
    <3>1. L + i \in 1..(L + k) /\ ~(L + i <= L) /\ (L + i) - L = i
      OBVIOUS
    <3> QED BY <3>1, <2>3
  <2>7. Places(m) \subseteq 1..L
    BY DEF Places
  <2>8. Places(m)' = Places(m) \cup ((L + 1)..(L + k))
    <3>1. Places(m)' = {i \in 1..(L + k) : sink'[T][i][1] = m}
      BY <2>3 DEF Places
    <3>2. Places(m) = {i \in 1..L : sink[T][i][1] = m}
      BY DEF Places
    <3>3. ASSUME NEW i \in 1..(L + k)
          PROVE  sink'[T][i][1] = m <=> i \in Places(m) \/ i \in (L + 1)..(L + k)
      <4>1. CASE i <= L
        <5>1. i \in 1..L /\ i \notin (L + 1)..(L + k)
          BY <4>1
        <5> QED BY <5>1, <3>2, <2>5
      <4>2. CASE ~(i <= L)
        <5>1. i \notin 1..L /\ i \in (L + 1)..(L + k) /\ i - L \in 1..k /\ L + (i - L) = i
          BY <4>2
        <5>2. sink'[T][i][1] = m
          BY <2>a, <5>1, <2>6
        <5> QED BY <5>1, <5>2
      <4> QED BY <4>1, <4>2
    <3>4. Places(m) \subseteq 1..(L + k) /\ (L + 1)..(L + k) \subseteq 1..(L + k)
      <4>1. 1..L \subseteq 1..(L + k) /\ (L + 1)..(L + k) \subseteq 1..(L + k)
        OBVIOUS
      <4> QED BY <2>7
    <3> QED BY <3>1, <3>3, <3>4
  <2>9. ASSUME NEW n \in Movers \ {m}
        PROVE  /\ Places(n)' = Places(n)
               /\ \A i \in Places(n) : sink'[To(n)][i] = sink[To(n)][i]
    <3>1. CASE To(n) = T
      <4>1. Places(n)' = {i \in 1..(L + k) : sink'[T][i][1] = n}
        BY <3>1, <2>3 DEF Places
      <4>2. Places(n) = {i \in 1..L : sink[T][i][1] = n}
        BY <3>1 DEF Places
      <4>3. ASSUME NEW i \in 1..(L + k)
            PROVE  sink'[T][i][1] = n <=> i \in Places(n)
        <5>1. CASE i <= L
          <6>1. i \in 1..L
            BY <5>1
          <6> QED BY <6>1, <4>2, <2>5
        <5>2. CASE ~(i <= L)
          <6>1. i \notin 1..L /\ i - L \in 1..k /\ L + (i - L) = i
            BY <5>2
          <6>2. sink'[T][i] = new[i - L]
            BY <6>1, <2>6
          <6>3. sink'[T][i][1] = m
            BY <2>a, <6>1, <6>2
          <6> QED BY <6>1, <6>3, <4>2
        <5> QED BY <5>1, <5>2
      <4>4. 1..L \subseteq 1..(L + k)
        OBVIOUS
      <4>5. Places(n)' = Places(n)
        BY <4>1, <4>2, <4>3
      <4> QED BY <3>1, <4>2, <4>5, <2>5
    <3>2. CASE To(n) # T
      <4>1. sink'[To(n)] = sink[To(n)]
        BY <3>2, <2>2, Jobs
      <4> QED BY <4>1 DEF Places
    <3> QED BY <3>1, <3>2
  <2> QED BY <2>a, <2>1, <2>2, <2>4, <2>7, <2>8, <2>9
\* What becomes of the thread itself: it has more to write, or has written
\* the block and counts it.
<1>8. /\ done' \in [Movers -> Nat] /\ state' \in [Movers -> {"lockout", "lockin", "read", "write", "unlockin",
                        "unlockout", "out"}]
      /\ \A n \in Movers \ {m} :
           /\ done'[n] = done[n] /\ block'[n] = block[n] /\ state'[n] = state[n] /\ res'[n] = res[n]
           /\ left'[n] = left[n] /\ total'[n] = total[n]
      /\ \/ /\ d + k < b /\ done'[m] = d + k /\ block'[m] = block[m] /\ state'[m] = "write"
            /\ res' = res /\ left' = left /\ total' = total /\ block' = block
         \/ /\ d + k = b /\ done'[m] = 0 /\ Len(block'[m]) = 0
            /\ block' \in [Movers -> Seq(Elements)]
            /\ \/ /\ Kind(m) = "eof" /\ total' = [total EXCEPT ![m] = Add(@, b)]
                  /\ state'[m] = "read" /\ left' = left /\ res' = res
               \/ /\ Kind(m) # "eof" /\ left' = [left EXCEPT ![m] = @ - b] /\ total' = total
                  /\ \/ left[m] = b /\ state'[m] = "unlockin" /\ res' = [res EXCEPT ![m] = "ok"]
                     \/ left[m] # b /\ state'[m] = "read" /\ res' = res
  <2>1. CASE d + k < b
    <3>1. done' = [done EXCEPT ![m] = @ + k] /\ UNCHANGED <<state, res, left, total, block>>
      BY <2>1, <1>2
    <3>2. d + k \in Nat /\ done \in [Movers -> Nat]
      <4>1. done \in [Movers -> Nat]
        BY <1>1 DEF CopyTypeOK
      <4>2. d + k \in Nat
        BY <1>3
      <4> QED BY <4>1
    <3>3. /\ done'[m] = d + k /\ done' \in [Movers -> Nat]
          /\ \A n \in Movers \ {m} : done'[n] = done[n]
      BY <3>1, <3>2
    <3>4. /\ state' = state /\ res' = res /\ left' = left /\ total' = total /\ block' = block
          /\ state'[m] = "write" /\ state \in [Movers -> {"lockout", "lockin", "read", "write", "unlockin",
                        "unlockout", "out"}]
      BY <3>1, <1>1 DEF CopyTypeOK
    <3> QED BY <2>1, <3>3, <3>4
  <2>2. CASE ~(d + k < b)
    <3>1. /\ done' = [done EXCEPT ![m] = 0] /\ block' = [block EXCEPT ![m] = <<>>] /\ CountOff(m)
          /\ d + k = b
      <4>1. d + k = b
        BY <2>2, <1>3
      <4> QED BY <2>2, <4>1, <1>2
    <3>2. <<>> \in Seq(Elements) /\ Len(<<>>) = 0
      OBVIOUS
    <3>3. /\ done'[m] = 0 /\ done' \in [Movers -> Nat] /\ Len(block'[m]) = 0
          /\ block' \in [Movers -> Seq(Elements)]
          /\ \A n \in Movers \ {m} : done'[n] = done[n] /\ block'[n] = block[n]
      BY <3>1, <3>2, <1>1 DEF CopyTypeOK, Elements
    <3>4. CASE Kind(m) = "eof"
      <4>1. /\ total' = [total EXCEPT ![m] = Add(@, b)]
            /\ state' = [state EXCEPT ![m] = "read"] /\ UNCHANGED <<left, res>>
        BY <3>1, <3>4 DEF CountOff
      <4> QED BY <3>1, <3>3, <3>4, <4>1, <1>1 DEF CopyTypeOK
    <3>5. CASE Kind(m) # "eof"
      <4>1. /\ left' = [left EXCEPT ![m] = @ - b] /\ total' = total
            /\ IF left[m] = b THEN Leave(m, "ok")
               ELSE state' = [state EXCEPT ![m] = "read"] /\ UNCHANGED res
        BY <3>1, <3>5 DEF CountOff
      <4>2. CASE left[m] = b
        <5>1. state' = [state EXCEPT ![m] = "unlockin"] /\ res' = [res EXCEPT ![m] = "ok"]
          BY <4>1, <4>2 DEF Leave
        <5>2. /\ state'[m] = "unlockin"
              /\ state' \in [Movers -> {"lockout", "lockin", "read", "write", "unlockin",
                        "unlockout", "out"}]
              /\ \A n \in Movers \ {m} : state'[n] = state[n] /\ res'[n] = res[n]
          BY <5>1, <1>1 DEF CopyTypeOK
        <5>3. \A n \in Movers \ {m} : left'[n] = left[n] /\ total'[n] = total[n]
          <6>1. \A n \in Movers \ {m} : left'[n] = left[n]
            BY <4>1, <1>1 DEF CopyTypeOK
          <6> QED BY <6>1, <4>1
        <5> QED BY <3>1, <3>3, <3>5, <4>1, <4>2, <5>1, <5>2, <5>3
      <4>3. CASE left[m] # b
        <5>1. state' = [state EXCEPT ![m] = "read"] /\ res' = res
          BY <4>1, <4>3
        <5>2. /\ state'[m] = "read"
              /\ state' \in [Movers -> {"lockout", "lockin", "read", "write", "unlockin",
                        "unlockout", "out"}]
              /\ \A n \in Movers \ {m} : state'[n] = state[n]
          BY <5>1, <1>1 DEF CopyTypeOK
        <5>3. \A n \in Movers \ {m} : left'[n] = left[n]
          BY <4>1
        <5> QED BY <3>1, <3>3, <3>5, <4>1, <4>3, <5>1, <5>2, <5>3
      <4> QED BY <4>2, <4>3
    <3> QED BY <3>4, <3>5
  <2> QED BY <2>1, <2>2
<1> HIDE DEF T, L
\* The numbers of all this.
<1>a. /\ \A x, y, z, w \in Int : (x - y) + (z + w) = ((x - y) + z) + w
      /\ \A x, y, z, w \in Int : z + w = y => (x - 0) + 0 = ((x - y) + z) + w
      /\ \A x, y, z, w \in Int : y <= z /\ w = z + (x - y) => z - y >= 0 /\ w = (z - y) + x
  OBVIOUS
<1>b. b \in Int /\ g \in Int /\ d \in Int /\ k \in Int /\ left[m] \in Int /\ Job[m].count \in Int
  BY <1>3
<1>9. CopyTypeOK' /\ Staged(m)' /\ Counted(m)' /\ Ended(m)' /\ Sent(m)' = Sent(m) + k
      /\ Sent(m) = (g - b) + d
  <2>1. CASE d + k < b
    <3>1. /\ done'[m] = d + k /\ state'[m] = "write" /\ UNCHANGED <<block, res, left, total>>
          /\ state' = state
      BY <2>1, <1>1, <1>8 DEF CopyTypeOK
    <3>2. done'[m] <= Len(block'[m])
      BY <3>1, <1>3
    <3>3. CopyTypeOK'
      <4>1. \A n \in Movers : Len(block'[n]) <= Block /\ done'[n] <= Len(block'[n])
        BY <3>1, <3>2, <1>1, <1>8 DEF CopyTypeOK
      <4> QED BY <3>1, <4>1, <1>1, <1>7, <1>8 DEF CopyTypeOK, Elements
    <3>4. Staged(m)' /\ Counted(m)' /\ Ended(m)'
      <4>1. Staged(m) /\ Counted(m) /\ Ended(m)
        BY <1>1
      <4> QED BY <3>1, <1>1 DEF Staged, Counted, Ended
    <3>5. Sent(m) = (g - b) + d /\ Sent(m)' = (g - b) + (d + k)
      BY <3>1, <1>1 DEF Sent
    <3>6. (g - b) + (d + k) = ((g - b) + d) + k
      <4> HIDE DEF b, g, d
      <4> QED BY <1>b
    <3> QED BY <3>3, <3>4, <3>5, <3>6
  <2>2. CASE ~(d + k < b)
    <3>1. /\ d + k = b /\ done'[m] = 0 /\ Len(block'[m]) = 0
          /\ block' \in [Movers -> Seq(Elements)]
          /\ \/ /\ Kind(m) = "eof" /\ total' = [total EXCEPT ![m] = Add(@, b)]
                /\ state'[m] = "read" /\ left' = left /\ res' = res
             \/ /\ Kind(m) # "eof" /\ left' = [left EXCEPT ![m] = @ - b] /\ total' = total
                /\ \/ left[m] = b /\ state'[m] = "unlockin" /\ res' = [res EXCEPT ![m] = "ok"]
                   \/ left[m] # b /\ state'[m] = "read" /\ res' = res
      BY <2>2, <1>8
    <3>2. Staged(m) /\ Counted(m) /\ Ended(m) /\ res[m] = "none"
      BY <1>1 DEF Ended
    <3>3. ASSUME Kind(m) = "eof"
          PROVE  /\ total' \in [Movers -> 0..MaxPos] /\ left' \in [Movers -> Nat]
                 /\ res' \in [Movers -> {"none", "ok", "error"}]
                 /\ Staged(m)' /\ Counted(m)' /\ Ended(m)'
      <4>1. /\ total' = [total EXCEPT ![m] = Add(@, b)] /\ state'[m] = "read" /\ left' = left /\ res' = res
        BY <3>1, <3>3
      <4>2. total[m] = Lesser(g - b, MaxPos)
        BY <3>2, <3>3 DEF Counted
      <4>3. Add(total[m], b) = Lesser(g, MaxPos) /\ Lesser(g, MaxPos) \in 0..MaxPos
        <5>1. g - b \in Nat /\ (g - b) + b = g
          BY <1>3
        <5> QED BY <4>2, <5>1, <1>3, AddIsLeast
      <4>4. /\ total' \in [Movers -> 0..MaxPos] /\ total'[m] = Lesser(g, MaxPos)
        BY <4>1, <4>3, <1>1 DEF CopyTypeOK
      <4>5. Counted(m)'
        <5>1. Len(got'[m]) - Len(block'[m]) = g
          BY <3>1, <1>1
        <5> QED BY <3>3, <4>4, <5>1 DEF Counted
      <4>6. Staged(m)'
        <5>1. Len(block'[m]) <= Len(got'[m]) /\ 1..Len(block'[m]) = {}
          BY <3>1
        <5> QED BY <3>1, <3>3 DEF Staged
      <4>7. Ended(m)'
        BY <3>2, <4>1 DEF Ended
      <4>8. left' \in [Movers -> Nat] /\ res' \in [Movers -> {"none", "ok", "error"}]
        BY <4>1, <1>1 DEF CopyTypeOK
      <4> QED BY <4>4, <4>5, <4>6, <4>7, <4>8
    <3>4. ASSUME Kind(m) # "eof"
          PROVE  /\ total' \in [Movers -> 0..MaxPos] /\ left' \in [Movers -> Nat]
                 /\ res' \in [Movers -> {"none", "ok", "error"}]
                 /\ Staged(m)' /\ Counted(m)' /\ Ended(m)'
      <4>1. /\ left' = [left EXCEPT ![m] = @ - b] /\ total' = total
            /\ \/ left[m] = b /\ state'[m] = "unlockin" /\ res' = [res EXCEPT ![m] = "ok"]
               \/ left[m] # b /\ state'[m] = "read" /\ res' = res
        BY <3>1, <3>4
      <4>2. b <= left[m] /\ Job[m].count = left[m] + (g - b)
        BY <3>2, <3>4 DEF Counted
      <4>3. left[m] - b \in Nat /\ Job[m].count = (left[m] - b) + g
        <5> HIDE DEF b, g, d
        <5>1. left[m] - b >= 0 /\ Job[m].count = (left[m] - b) + g
          BY <4>2, <1>b
        <5> QED BY <5>1, <1>b
      <4>4. left' \in [Movers -> Nat] /\ left'[m] = left[m] - b
        BY <4>1, <4>3, <1>1 DEF CopyTypeOK
      <4>5. Counted(m)'
        <5>1. Len(got'[m]) - Len(block'[m]) = g /\ Len(block'[m]) <= left'[m]
          BY <3>1, <4>4, <1>1
        <5> QED BY <3>4, <4>3, <4>4, <5>1 DEF Counted
      <4>6. Staged(m)'
        <5>1. Len(block'[m]) <= Len(got'[m]) /\ 1..Len(block'[m]) = {}
          BY <3>1
        <5>2. state'[m] = "read" => left'[m] > 0
          BY <4>1, <4>2, <1>3
        <5> QED BY <3>1, <5>2 DEF Staged
      <4>7. res' \in [Movers -> {"none", "ok", "error"}]
        BY <4>1, <1>1 DEF CopyTypeOK
      <4>8. Ended(m)'
        <5>1. CASE left[m] = b
          <6>1. state'[m] = "unlockin" /\ left'[m] = 0
            BY <4>1, <4>4, <5>1
          <6> QED BY <6>1, <3>1 DEF Ended
        <5>2. CASE left[m] # b
          BY <3>2, <4>1, <5>2 DEF Ended
        <5> QED BY <5>1, <5>2
      <4>9. total' \in [Movers -> 0..MaxPos]
        BY <4>1, <1>1 DEF CopyTypeOK
      <4> QED BY <4>4, <4>5, <4>6, <4>7, <4>8, <4>9
    <3>5. CopyTypeOK'
      <4>1. left' \in [Movers -> Nat] /\ total' \in [Movers -> 0..MaxPos]
            /\ res' \in [Movers -> {"none", "ok", "error"}]
        BY <3>3, <3>4
      <4>2. \A n \in Movers : Len(block'[n]) <= Block /\ done'[n] <= Len(block'[n])
        <5>1. Len(block'[m]) <= Block /\ done'[m] <= Len(block'[m])
          BY <3>1, <1>3
        <5> QED BY <5>1, <1>1, <1>8 DEF CopyTypeOK
      <4> QED BY <4>1, <4>2, <1>1, <1>7, <1>8 DEF CopyTypeOK, Elements
    <3>6. Sent(m) = (g - b) + d /\ Sent(m)' = (g - 0) + 0
      BY <3>1, <1>1 DEF Sent
    <3>7. (g - 0) + 0 = ((g - b) + d) + k
      <4>1. d + k = b
        BY <3>1
      <4> HIDE DEF b, g, d
      <4> QED BY <4>1, <1>b
    <3> QED BY <3>3, <3>4, <3>5, <3>6, <3>7
  <2> QED BY <2>1, <2>2
<1>10. ASSUME NEW n \in Movers \ {m}
       PROVE  /\ (Staged(n) /\ Counted(n) /\ Ended(n))' /\ Sent(n)' = Sent(n)
  <2>1. /\ state'[n] = state[n] /\ block'[n] = block[n] /\ got'[n] = got[n] /\ done'[n] = done[n]
        /\ res'[n] = res[n] /\ left'[n] = left[n] /\ total'[n] = total[n] /\ taken' = taken
        /\ Staged(n) /\ Counted(n) /\ Ended(n)
    BY <1>1, <1>8
  <2>2. Staged(n)' /\ Sent(n)' = Sent(n)
    BY <2>1 DEF Staged, Sent
  <2>3. Counted(n)'
    BY <2>1 DEF Counted
  <2>4. Ended(n)'
    BY <2>1 DEF Ended, Ready
  <2> QED BY <2>2, <2>3, <2>4
<1>11. /\ IsFiniteSet(Places(m)) /\ Cardinality(Places(m)) = Sent(m) /\ Sent(m) \in Nat
       /\ \A x \in 0..k :
            Cardinality(Places(m) \cup ((L + 1)..(L + x))) = Sent(m) + x
  <2>1. /\ IsFiniteSet(Places(m)) /\ Cardinality(Places(m)) = Sent(m) /\ Sent(m) \in Nat
    BY <1>1, PlacesAreFinite DEF Delivered
  <2>2. ASSUME NEW x \in 0..k
        PROVE  Cardinality(Places(m) \cup ((L + 1)..(L + x))) = Sent(m) + x
    <3> DEFINE I == (L + 1)..(L + x)
    <3>1. L + 1 \in Int /\ L + x \in Int /\ x \in Nat /\ L \in Nat
      BY <1>7
    <3>2. IsFiniteSet(I) /\ Cardinality(I) = x
      <4>1. Cardinality(I) = IF L + 1 > L + x THEN 0 ELSE (L + x) - (L + 1) + 1
        BY <3>1, FS_Interval
      <4>2. (IF L + 1 > L + x THEN 0 ELSE (L + x) - (L + 1) + 1) = x
        BY <3>1
      <4>3. IsFiniteSet(I)
        BY <3>1, FS_Interval
      <4> QED BY <4>1, <4>2, <4>3
    <3>3. Places(m) \cap I = {}
      <4>1. \A i \in 1..L : i \notin I
        BY <1>7
      <4> QED BY <1>7
    <3> HIDE DEF I
    <3>4. Cardinality(Places(m) \cup I) =
            Cardinality(Places(m)) + Cardinality(I) - Cardinality(Places(m) \cap I)
      BY <2>1, <3>2, FS_Union
    <3>5. Cardinality(Places(m) \cap I) = 0
      BY <3>3, FS_EmptySet
    <3>6. Cardinality(Places(m) \cup I) = Sent(m) + x
      BY <2>1, <3>2, <3>4, <3>5
    <3> QED BY <3>6 DEF I
  <2> QED BY <2>1, <2>2
<1>12. Delivered'
  <2>1. ASSUME NEW n \in Movers \ {m}
        PROVE  (/\ Cardinality(Places(n)) = Sent(n)
                /\ \A i \in Places(n) :
                     sink[To(n)][i][2] = got[n][Cardinality({j \in Places(n) : j <= i})])'
    <3>1. /\ Places(n)' = Places(n) /\ Sent(n)' = Sent(n) /\ got' = got
          /\ \A i \in Places(n) : sink'[To(n)][i] = sink[To(n)][i]
      BY <1>1, <1>7, <1>10
    <3>2. \A i : {j \in Places(n)' : j <= i} = {j \in Places(n) : j <= i}
      BY <3>1
    <3>3. /\ Cardinality(Places(n)) = Sent(n)
          /\ \A i \in Places(n) :
               sink[To(n)][i][2] = got[n][Cardinality({j \in Places(n) : j <= i})]
      BY <1>1 DEF Delivered
    <3> QED BY <3>1, <3>3
  <2>2. Cardinality(Places(m)') = Sent(m)'
    <3>1. k \in 0..k
      OBVIOUS
    <3> QED BY <3>1, <1>7, <1>9, <1>11
  <2>3. ASSUME NEW i \in Places(m)'
        PROVE  sink'[T][i][2] = got'[m][Cardinality({j \in Places(m)' : j <= i})]
    <3>1. CASE i \in Places(m)
      <4>1. i \in 1..L
        BY <3>1, <1>7
      <4>2. \A j \in (L + 1)..(L + k) : ~(j <= i)
        BY <4>1, <1>7
      <4>3. {j \in Places(m)' : j <= i} = {j \in Places(m) : j <= i}
        BY <4>2, <1>7
      <4>4. sink[To(m)][i][2] = got[m][Cardinality({j \in Places(m) : j <= i})]
        BY <3>1, <1>1 DEF Delivered
      <4> QED BY <4>1, <4>3, <4>4, <1>1, <1>7 DEF T
    <3>2. CASE i \in (L + 1)..(L + k)
      <4> DEFINE x == i - L
      <4>1. x \in 1..k /\ x \in 0..k /\ i = L + x
        BY <3>2, <1>7
      <4> HIDE DEF x
      <4>2. {j \in Places(m)' : j <= i} = Places(m) \cup ((L + 1)..(L + x))
        <5>1. \A j \in 1..L : j <= i
          BY <4>1, <1>7
        <5>a. L \in Nat /\ k \in Nat /\ x \in Nat /\ x <= k /\ i = L + x
          BY <4>1, <1>7
        <5>2. \A j \in (L + 1)..(L + k) : j <= i <=> j \in (L + 1)..(L + x)
          BY <5>a
        <5>3. (L + 1)..(L + x) \subseteq (L + 1)..(L + k)
          BY <5>a
        <5>4. Places(m) \subseteq 1..L /\ Places(m)' = Places(m) \cup ((L + 1)..(L + k))
          BY <1>7
        <5> QED BY <5>1, <5>2, <5>3, <5>4
      <4>3. Cardinality({j \in Places(m)' : j <= i}) = Sent(m) + x
        BY <4>1, <4>2, <1>11
      <4>4. sink'[T][i][2] = block[m][d + x]
        BY <4>1, <1>5, <1>7
      <4>5. block[m][d + x] = got[m][(g - b) + (d + x)]
        <5>1. d + x \in 1..b
          <6>1. x \in Nat /\ x >= 1 /\ x <= k
            BY <4>1
          <6> QED BY <6>1, <1>3
        <5> QED BY <5>1, <1>4
      <4>6. (g - b) + (d + x) = Sent(m) + x
        <5>1. x \in Int /\ Sent(m) = (g - b) + d
          BY <4>1, <1>9
        <5> HIDE DEF b, g, d
        <5> QED BY <5>1, <1>b
      <4> QED BY <4>3, <4>4, <4>5, <4>6, <1>1
    <3> QED BY <3>1, <3>2, <1>7
  <2>4. ASSUME NEW n \in Movers
        PROVE  (/\ Cardinality(Places(n)) = Sent(n)
                /\ \A i \in Places(n) :
                     sink[To(n)][i][2] = got[n][Cardinality({j \in Places(n) : j <= i})])'
    <3>1. CASE n = m
      BY <3>1, <2>2, <2>3 DEF T
    <3> QED BY <3>1, <2>1
  <2> QED BY <2>4 DEF Delivered
\* The mutex of the output keeps the others from writing behind it.
<1>13. T \in Lockable =>
         \A i \in Places(m)' : \A j \in i..(L + k) : j \in Places(m)'
  <2> SUFFICES ASSUME T \in Lockable, NEW i \in Places(m)', NEW j \in i..(L + k)
               PROVE  j \in Places(m)'
    OBVIOUS
  <2>1. i \in Nat /\ 1 <= i /\ j \in Nat /\ i <= j
    BY <1>7
  <2>2. CASE j <= L
    <3>1. i \in Places(m)
      <4>1. i \notin (L + 1)..(L + k)
        BY <2>2, <1>7
      <4> QED BY <4>1, <1>7
    <3>2. j \in i..L
      BY <2>2
    <3>3. j \in Places(m)
      BY <3>1, <3>2, <1>1 DEF Latest, T, L
    <3> QED BY <3>3, <1>7
  <2>3. CASE ~(j <= L)
    <3>1. j \in (L + 1)..(L + k)
      BY <2>3, <1>7
    <3> QED BY <3>1, <1>7
  <2> QED BY <2>2, <2>3
<1>14. ASSUME NEW n \in Movers PROVE Latest(n)'
  <2>1. CASE n = m
    <3>1. state[m] = "write" /\ got' = got /\ taken' = taken /\ Len(sink'[T]) = L + k /\ Latest(m)
      BY <1>1, <1>7
    <3> QED BY <2>1, <3>1, <1>13 DEF Latest, T
  <2>2. CASE n # m
    <3> SUFFICES ASSUME state'[n] \in {"read", "write"}
                 PROVE  Latest(n)'
      BY DEF Latest
    <3>1. /\ state[n] \in {"read", "write"} /\ Latest(n) /\ Places(n)' = Places(n)
          /\ got' = got /\ taken' = taken
      BY <2>2, <1>1, <1>7, <1>8
    <3>2. To(n) \in Lockable => To(n) # T
      BY <2>2, <1>1 DEF MutexStates, T
    <3>3. To(n) \in Lockable => sink'[To(n)] = sink[To(n)]
      BY <3>2, <1>7, Jobs
    <3> QED BY <3>1, <3>3 DEF Latest
  <2> QED BY <2>1, <2>2
<1>15. OnePiece'
  <2>1. ASSUME NEW n \in Movers, To(n) \in Lockable, NEW i \in Places(n)', NEW j \in Places(n)'
        PROVE  i..j \subseteq Places(n)'
    <3>1. CASE n = m
      <4>1. j <= L + k /\ j \in Nat /\ i \in Nat
        BY <3>1, <1>7
      <4>2. i..j \subseteq i..(L + k)
        BY <4>1, <1>7
      <4> QED BY <2>1, <3>1, <4>2, <1>13 DEF T
    <3>2. CASE n # m
      BY <2>1, <3>2, <1>1, <1>7 DEF OnePiece
    <3> QED BY <3>1, <3>2
  <2>2. \A n \in Movers : From(n) \in Lockable =>
          \A i \in 1..(Len(got[n]) - 1) : got[n][i + 1][2] = got[n][i][2] + 1
    BY <1>1 DEF OnePiece
  <2>3. got' = got
    BY <1>1
  <2> QED BY <2>1, <2>2, <2>3 DEF OnePiece
<1> QED BY <1>9, <1>10, <1>12, <1>14, <1>15 DEF Inv

(***************************************************************************)
(* The start, and every step.                                              *)
(***************************************************************************)
LEMMA InvAtFirst ==
  ASSUME TransmitAssumption, CopyInit
  PROVE  Inv
<1>1. CopyTypeOK
  <2>1. /\ <<>> \in Seq(Streams \X Nat) /\ <<>> \in Seq(Movers \X (Streams \X Nat)) /\ Len(<<>>) = 0
        /\ \A m \in Movers : Job[m].count \in Nat
        /\ Block \in Nat /\ MaxPos \in Nat /\ \A s \in Streams : Data[s] \in Nat
    BY DEF TransmitAssumption
  <2>2. /\ state \in [Movers -> {"lockout", "lockin", "read", "write", "unlockin", "unlockout", "out"}]
        /\ res \in [Movers -> {"none", "ok", "error"}] /\ done \in [Movers -> Nat]
        /\ holder \in [Streams -> Movers \cup {NoMover}] /\ errs \in Nat
        /\ taken \in [Streams -> Nat] /\ \A s \in Streams : taken[s] <= Data[s]
    BY <2>1 DEF CopyInit
  <2>3. left \in [Movers -> Nat] /\ total \in [Movers -> 0..MaxPos]
    BY <2>1 DEF CopyInit
  <2>4. /\ block \in [Movers -> Seq(Streams \X Nat)] /\ got \in [Movers -> Seq(Streams \X Nat)]
        /\ sink \in [Streams -> Seq(Movers \X (Streams \X Nat))]
    BY DEF CopyInit
  <2>5. \A m \in Movers : Len(block[m]) <= Block /\ done[m] <= Len(block[m])
    BY <2>1 DEF CopyInit
  <2> QED BY <2>2, <2>3, <2>4, <2>5 DEF CopyTypeOK
<1>2. MutexStates
  BY MutexStatesKept
<1>3. ASSUME NEW m \in Movers
      PROVE  /\ Len(block[m]) = 0 /\ Len(got[m]) = 0 /\ done[m] = 0 /\ state[m] = "lockout"
             /\ res[m] = "none" /\ left[m] = Job[m].count /\ total[m] = 0
             /\ Job[m].count \in Nat /\ MaxPos \in Nat /\ Places(m) = {}
  <2>1. Len(<<>>) = 0 /\ 1..0 = {}
    OBVIOUS
  <2>2. Places(m) = {}
    <3>1. sink[To(m)] = <<>>
      BY Jobs DEF CopyInit
    <3> QED BY <3>1 DEF Places
  <2> QED BY <2>2, Jobs DEF CopyInit
<1>4. ASSUME NEW m \in Movers
      PROVE  Staged(m) /\ Counted(m) /\ Ended(m) /\ Latest(m)
  <2>1. Staged(m)
    <3>1. Len(block[m]) <= Len(got[m]) /\ done[m] = 0 /\ Len(block[m]) = 0
      BY <1>3
    <3>2. \A x \in 1..0 : FALSE
      OBVIOUS
    <3> QED BY <3>1, <3>2, <1>3 DEF Staged
  <2>2. Counted(m)
    <3>1. Len(got[m]) - Len(block[m]) = 0 /\ Len(block[m]) <= left[m] /\ Job[m].count = left[m] + 0
      BY <1>3
    <3>2. Lesser(0, MaxPos) = 0
      BY <1>3 DEF Lesser
    <3> QED BY <1>3, <3>1, <3>2 DEF Counted
  <2>3. Ended(m) /\ Latest(m)
    BY <1>3 DEF Ended, Latest
  <2> QED BY <2>1, <2>2, <2>3
<1>5. Delivered
  <2>1. ASSUME NEW m \in Movers PROVE Cardinality(Places(m)) = Sent(m)
    <3>1. Sent(m) = (0 - 0) + 0
      BY <1>3 DEF Sent
    <3>2. Cardinality(Places(m)) = 0
      BY <1>3, FS_EmptySet
    <3> QED BY <3>1, <3>2
  <2> QED BY <2>1, <1>3 DEF Delivered
<1>6. OnePiece
  <2>1. \A m \in Movers : 1..(Len(got[m]) - 1) = {}
    BY <1>3
  <2> QED BY <1>3 DEF OnePiece
<1> QED BY <1>1, <1>2, <1>4, <1>5, <1>6 DEF Inv

LEMMA InvKept ==
  ASSUME TransmitAssumption, Inv, [CopyNext]_copyVars
  PROVE  Inv'
<1>1. /\ CopyTypeOK /\ MutexStates /\ Delivered /\ OnePiece
      /\ \A n \in Movers : Staged(n) /\ Counted(n) /\ Ended(n) /\ Latest(n)
  BY DEF Inv
<1>2. MutexStates'
  BY <1>1, MutexStatesKept
<1>4. /\ res \in [Movers -> {"none", "ok", "error"}] /\ errs \in Nat
      /\ \A m \in Movers : [res EXCEPT ![m] = res[m]] = res
  BY <1>1 DEF CopyTypeOK
<1>5. ASSUME NEW m \in Movers, LockOutput(m) PROVE Inv'
  <2>1. /\ state[m] = "lockout" /\ state' = [state EXCEPT ![m] = "lockin"] /\ res[m] = "none"
        /\ res' = [res EXCEPT ![m] = "none"] /\ errs' \in Nat
        /\ UNCHANGED <<left, total, block, done, taken, sink, got>>
    BY <1>1, <1>4, <1>5 DEF LockOutput, Ended
  <2>9. MovesOn(m, "lockin", "none")
    BY <2>1 DEF MovesOn
  <2> QED BY <2>9, <1>2, StillHolds
<1>6. ASSUME NEW m \in Movers, LockInput(m) PROVE Inv'
  <2>1. /\ state[m] = "lockin" /\ res[m] = "none" /\ errs' \in Nat
        /\ Len(block[m]) = 0
        /\ UNCHANGED <<left, total, block, done, taken, sink, got>>
    BY <1>1, <1>4, <1>6 DEF LockInput, Ended
  <2>2. CASE Kind(m) # "eof" /\ left[m] = 0
    <3>1. state' = [state EXCEPT ![m] = "unlockin"] /\ res' = [res EXCEPT ![m] = "ok"]
      BY <2>2, <1>6 DEF LockInput, Leave
    <3>2. Kind(m) # "eof" /\ left[m] = 0 /\ ~(left[m] > 0)
      BY <2>2
    <3>9. MovesOn(m, "unlockin", "ok")
      BY <2>1, <3>1, <3>2 DEF MovesOn
    <3> QED BY <3>9, <1>2, StillHolds
  <2>3. CASE ~(Kind(m) # "eof" /\ left[m] = 0)
    <3>1. state' = [state EXCEPT ![m] = "read"] /\ res' = [res EXCEPT ![m] = "none"]
      BY <2>1, <2>3, <1>4, <1>6 DEF LockInput
    <3>2. Kind(m) # "eof" => left[m] > 0
      <4>1. left[m] \in Nat
        BY <1>1, Numbers
      <4> QED BY <4>1, <2>3
    <3>9. MovesOn(m, "read", "none")
      BY <2>1, <3>1, <3>2 DEF MovesOn
    <3> QED BY <3>9, <1>2, StillHolds
  <2> QED BY <2>2, <2>3
<1>7. ASSUME NEW m \in Movers, EndOfData(m) PROVE Inv'
  <2>1. /\ state[m] = "read" /\ Ready(m) = 0 /\ errs' \in Nat
        /\ Kind(m) # "all" => Len(block[m]) = 0
        /\ UNCHANGED <<left, total, block, done, taken, sink, got>>
    BY <1>1, <1>4, <1>7 DEF EndOfData, Staged
  <2>2. CASE Kind(m) = "all"
    <3>1. state' = [state EXCEPT ![m] = "unlockin"] /\ res' = [res EXCEPT ![m] = "error"]
      BY <2>2, <1>7 DEF EndOfData, Leave
    <3>9. MovesOn(m, "unlockin", "error")
      BY <2>1, <3>1 DEF MovesOn
    <3> QED BY <3>9, <1>2, StillHolds
  <2>3. CASE Kind(m) # "all"
    <3>1. state' = [state EXCEPT ![m] = "unlockin"] /\ res' = [res EXCEPT ![m] = "ok"]
      BY <2>3, <1>7 DEF EndOfData, Leave
    <3>9. MovesOn(m, "unlockin", "ok")
      BY <2>1, <2>3, <3>1 DEF MovesOn
    <3> QED BY <3>9, <1>2, StillHolds
  <2> QED BY <2>2, <2>3
<1>8. ASSUME NEW m \in Movers, Throw(m) PROVE Inv'
  <2>1. /\ state' = [state EXCEPT ![m] = "unlockin"] /\ res' = [res EXCEPT ![m] = "error"]
        /\ UNCHANGED <<left, total, block, done, taken, sink, got>>
    BY <1>8 DEF Throw, Leave
  <2>2. errs' \in Nat
    BY <1>4, <1>8 DEF Throw
  <2>9. MovesOn(m, "unlockin", "error")
    BY <2>1, <2>2 DEF MovesOn
  <2> QED BY <2>9, <1>2, StillHolds
<1>9. ASSUME NEW m \in Movers, UnlockInput(m) \/ UnlockOutput(m) PROVE Inv'
  <2>1. PICK t \in {"unlockout", "out"} : state' = [state EXCEPT ![m] = t]
    BY <1>9 DEF UnlockInput, UnlockOutput
  <2>2. /\ res' = [res EXCEPT ![m] = res[m]] /\ res[m] \in {"none", "ok", "error"} /\ errs' \in Nat
        /\ UNCHANGED <<left, total, block, done, taken, sink, got>>
    BY <1>4, <1>9 DEF UnlockInput, UnlockOutput
  <2>3. res[m] = "ok" => /\ Len(block[m]) = 0
                         /\ Kind(m) = "all" => left[m] = 0
                         /\ Kind(m) = "some" /\ left[m] > 0 => Ready(m) = 0
                         /\ Kind(m) = "eof" => Ready(m) = 0
    BY <1>1 DEF Ended
  <2>9. MovesOn(m, t, res[m])
    BY <2>1, <2>2, <2>3 DEF MovesOn
  <2> QED BY <2>9, <1>2, StillHolds
<1>10. ASSUME UNCHANGED copyVars PROVE Inv'
  <2>1. UNCHANGED <<CopyTypeOK, Delivered, OnePiece>>
    BY <1>10 DEF copyVars, CopyTypeOK, Delivered, OnePiece, Places, Sent
  <2>2. ASSUME NEW n \in Movers
        PROVE  (Staged(n) /\ Counted(n) /\ Ended(n) /\ Latest(n))'
    <3>1. Staged(n)' /\ Counted(n)'
      BY <1>1, <1>10 DEF copyVars, Staged, Counted
    <3>2. Ended(n)' /\ Latest(n)'
      BY <1>1, <1>10 DEF copyVars, Ended, Latest, Places, Ready
    <3> QED BY <3>1, <3>2
  <2> QED BY <1>2, <2>1, <2>2 DEF Inv
<1>11. ASSUME NEW m \in Movers, ReadBlock(m) PROVE Inv'
  BY <1>2, <1>11, ReadHolds
<1>12. ASSUME NEW m \in Movers, WriteBlock(m) PROVE Inv'
  BY <1>2, <1>12, WriteHolds
<1> QED BY <1>5, <1>6, <1>7, <1>8, <1>9, <1>10, <1>11, <1>12 DEF CopyNext, Copying, Run

LEMMA InvDelivers ==
  ASSUME TransmitAssumption, Inv
  PROVE  CopiesDeliver
<1>1. /\ CopyTypeOK /\ Delivered /\ OnePiece
      /\ \A n \in Movers : Counted(n) /\ Ended(n)
  BY DEF Inv
<1>2. ASSUME NEW m \in Movers, res[m] = "ok"
      PROVE  /\ Sent(m) = Len(got[m])
             /\ CASE Kind(m) = "all"  -> Sent(m) = Job[m].count
                  [] Kind(m) = "some" -> /\ Job[m].count - left[m] = Sent(m)
                                         /\ left[m] > 0 => Ready(m) = 0
                  [] OTHER            -> /\ total[m] = Lesser(Sent(m), MaxPos)
                                         /\ Ready(m) = 0
  <2>1. /\ Len(block[m]) = 0 /\ done[m] \in Nat /\ done[m] <= Len(block[m]) /\ Len(got[m]) \in Nat
        /\ left[m] \in Nat
    BY <1>1, <1>2, Numbers DEF Ended
  <2>2. done[m] = 0 /\ (Len(got[m]) - 0) + 0 = Len(got[m]) /\ Len(got[m]) - 0 = Len(got[m])
    BY <2>1
  <2>3. Sent(m) = Len(got[m])
    BY <2>1 DEF Sent
  <2>4. Counted(m) /\ Ended(m) /\ Kind(m) \in {"all", "some", "eof"}
    BY <1>1, Jobs
  <2>5. CASE Kind(m) = "all"
    <3>1. Job[m].count = left[m] + Len(got[m]) /\ left[m] = 0
      BY <1>2, <2>1, <2>4, <2>5 DEF Counted, Ended
    <3>2. Job[m].count = Len(got[m])
      BY <3>1
    <3> QED BY <2>3, <2>5, <3>2
  <2>6. CASE Kind(m) = "some"
    <3>1. Job[m].count = left[m] + Len(got[m]) /\ (left[m] > 0 => Ready(m) = 0)
      BY <1>2, <2>1, <2>4, <2>6 DEF Counted, Ended
    <3>2. Job[m].count - left[m] = Len(got[m])
      BY <3>1, <2>1
    <3> QED BY <2>3, <2>6, <3>1, <3>2
  <2>7. CASE Kind(m) = "eof"
    <3>1. total[m] = Lesser(Len(got[m]), MaxPos) /\ Ready(m) = 0
      BY <1>2, <2>1, <2>4, <2>7 DEF Counted, Ended
    <3> QED BY <2>3, <2>7, <3>1
  <2> QED BY <2>4, <2>5, <2>6, <2>7
<1>3. ASSUME NEW m \in Movers, Kind(m) # "eof"
      PROVE  Len(got[m]) <= Job[m].count
  <2>1. /\ Len(block[m]) <= left[m] /\ Job[m].count = left[m] + (Len(got[m]) - Len(block[m]))
    BY <1>1, <1>3 DEF Counted
  <2>2. Len(block[m]) \in Nat /\ left[m] \in Nat /\ Len(got[m]) \in Nat
    BY <1>1, Numbers
  <2>3. Len(got[m]) <= left[m] + (Len(got[m]) - Len(block[m]))
    <3> DEFINE g == Len(got[m])
               b == Len(block[m])
               l == left[m]
    <3>1. b <= l /\ b \in Nat /\ l \in Nat /\ g \in Nat
      BY <2>1, <2>2
    <3> HIDE DEF g, b, l
    <3>2. g <= l + (g - b)
      BY <3>1
    <3> QED BY <3>2 DEF g, b, l
  <2> QED BY <2>1, <2>3
<1>4. ResultIsTrue
  BY <1>2 DEF ResultIsTrue
<1>5. NeverDrainsBeyond
  BY <1>3 DEF NeverDrainsBeyond
<1> QED BY <1>1, <1>4, <1>5 DEF CopiesDeliver

\* However many threads copy between the streams they share, in pieces of
\* whatever sizes and with system calls that fail: what a copy reads it writes
\* once each and in order, in one piece of a stream with a mutex; the number
\* it returns is what it has copied; and a counted copy leaves the rest of its
\* input alone.
THEOREM CopiesAreDelivered == ASSUME TransmitAssumption PROVE CopySpec => []CopiesDeliver
<1>1. CopyInit => Inv
  BY InvAtFirst
<1>2. Inv /\ [CopyNext]_copyVars => Inv'
  BY InvKept
<1>3. Inv => CopiesDeliver
  BY InvDelivers
<1> QED BY <1>1, <1>2, <1>3, PTL DEF CopySpec
=============================================================================
