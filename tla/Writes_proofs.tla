--------------------------- MODULE Writes_proofs ---------------------------
(***************************************************************************)
(* Proofs about SeekFallback, ScatterRead and ScatterWrite, for any number *)
(* of threads, any lists of descriptors and any limit of the system; and   *)
(* about Printing, for any arguments and any stream.                       *)
(***************************************************************************)
EXTENDS SeekFallback, ScatterRead, ScatterWrite, Printing, Basics_proofs, Integers, TLAPS

-----------------------------------------------------------------------------
(***************************************************************************)
(* Positional writes by seeking.                                           *)
(***************************************************************************)

\* Only the owner of the mutex is in an operation.
OwnerOnly == \A t \in Thread : pc[t] # "idle" => owner = t

\* Only positional operations ask, go and come back.
Positional == \A t \in Thread : pc[t] \in {"ask", "go", "back"} => kind[t] # "plain"

\* Before it writes, an operation has written nothing.
Fresh == \A t \in Thread : pc[t] \in {"idle", "ask", "go"} => done[t] = 0 /\ hit[t] = {}

\* While a positional operation is away from the stream's position, it has it
\* in oldoff; at all other times the handle is there.
Remembers ==
  ~astray =>
    /\ owner = Nobody => pos = stream
    /\ \A t \in Thread :
         /\ pc[t] \in {"ask", "go"} => pos = stream
         /\ pc[t] = "write" /\ kind[t] = "plain" => pos = stream
         /\ pc[t] \in {"go", "back"} => old[t] = stream
         /\ pc[t] = "write" /\ kind[t] # "plain" => old[t] = stream

\* A positional operation has written from its offset to where the handle is.
Reaches ==
  \A t \in Thread :
    /\ pc[t] = "write" /\ kind[t] # "plain" => pos = off[t] + done[t]
    /\ (pc[t] = "write" /\ kind[t] # "plain") \/ pc[t] = "back"
         => hit[t] = off[t]..(off[t] + done[t] - 1)

IInv == TypeOK /\ OwnerOnly /\ Positional /\ Fresh /\ Remembers /\ Reaches

LEMMA Initially == Init => IInv
<1> SUFFICES ASSUME Init  PROVE IInv
  OBVIOUS
<1>1. TypeOK
  BY DEF Init, TypeOK
<1>2. OwnerOnly /\ Positional /\ Fresh /\ Remembers /\ Reaches
  BY DEF Init, OwnerOnly, Positional, Fresh, Remembers, Reaches
<1> QED  BY <1>1, <1>2 DEF IInv

\* An operation ends: its thread is as at the start, and the mutex is free.
LEMMA Leaves ==
  ASSUME Locked, IInv, NEW t \in Thread, pc[t] # "idle", Leave(t),
         pos' \in Nat, stream' \in Nat, astray' \in BOOLEAN,
         ~astray' => pos' = stream'
  PROVE  IInv'
<1> USE SeekFallbackAssumption
<1>1. TypeOK'
  <2>1. owner' \in Thread \union {Nobody}
    BY DEF Leave
  <2>2. /\ pc' \in [Thread -> {"idle", "ask", "go", "write", "back"}]
        /\ kind' \in [Thread -> {"plain", "some", "all"}]
    BY DEF IInv, TypeOK, Leave
  <2>3. old' \in [Thread -> Nat] /\ off' \in [Thread -> Nat]
    BY DEF IInv, TypeOK, Leave
  <2>4. done' \in [Thread -> Nat] /\ length' \in [Thread -> Nat]
    BY DEF IInv, TypeOK, Leave
  <2>5. hit' \in [Thread -> SUBSET Nat]
    BY DEF IInv, TypeOK, Leave
  <2> QED  BY <2>1, <2>2, <2>3, <2>4, <2>5 DEF TypeOK
<1>2. \A u \in Thread : pc'[u] = "idle"
  BY DEF IInv, TypeOK, OwnerOnly, Leave
<1>3. OwnerOnly' /\ Positional' /\ Reaches'
  BY <1>2 DEF OwnerOnly, Positional, Reaches
<1>4. Fresh'
  <2> SUFFICES ASSUME NEW u \in Thread  PROVE done'[u] = 0 /\ hit'[u] = {}
    BY DEF Fresh
  <2>1. CASE u = t
    BY <2>1 DEF IInv, TypeOK, Leave
  <2>2. CASE u # t
    <3>1. pc[u] = "idle"
      BY <2>2 DEF IInv, OwnerOnly
    <3> QED  BY <2>2, <3>1 DEF IInv, TypeOK, Fresh, Leave
  <2> QED  BY <2>1, <2>2
<1>5. Remembers'
  BY <1>2 DEF Remembers
<1> QED  BY <1>1, <1>3, <1>4, <1>5 DEF IInv

LEMMA EnterKeeps ==
  ASSUME Locked, IInv, NEW t \in Thread, Enter(t)
  PROVE  IInv'
<1> USE SeekFallbackAssumption
<1>1. PICK n \in Lengths, o \in Offsets, k \in {"plain", "some", "all"} :
        /\ kind' = [kind EXCEPT ![t] = k] /\ off' = [off EXCEPT ![t] = o]
        /\ length' = [length EXCEPT ![t] = n]
        /\ pc' = [pc EXCEPT ![t] = IF k = "plain" THEN "write" ELSE "ask"]
  BY DEF Enter
<1>2. UNCHANGED <<pos, old, done, stream, hit, astray>>
  BY DEF Enter
<1>3. owner = Nobody /\ owner' = t /\ pc[t] = "idle"
  BY DEF Enter, MayEnter
<1>4. n \in Nat /\ o \in Nat
  OBVIOUS
<1>5. \A u \in Thread : pc[u] = "idle"
  BY <1>3 DEF IInv, OwnerOnly
<1>6. \A u \in Thread : u # t => pc'[u] = "idle"
  BY <1>1, <1>5 DEF IInv, TypeOK
<1>7. /\ pc'[t] = (IF k = "plain" THEN "write" ELSE "ask")
      /\ kind'[t] = k
  BY <1>1 DEF IInv, TypeOK
<1>8. TypeOK'
  <2>1. /\ pc' \in [Thread -> {"idle", "ask", "go", "write", "back"}]
        /\ kind' \in [Thread -> {"plain", "some", "all"}]
    BY <1>1 DEF IInv, TypeOK
  <2>2. off' \in [Thread -> Nat] /\ length' \in [Thread -> Nat]
    BY <1>1, <1>4 DEF IInv, TypeOK
  <2>3. owner' \in Thread \union {Nobody}
    BY <1>3
  <2> QED  BY <1>2, <2>1, <2>2, <2>3 DEF IInv, TypeOK
<1>9. OwnerOnly'
  BY <1>3, <1>6 DEF OwnerOnly
<1>10. Positional'
  BY <1>6, <1>7 DEF Positional
<1>11. Fresh'
  BY <1>2, <1>5 DEF IInv, Fresh
<1>12. Remembers'
  <2>1. ~astray' => pos' = stream'
    BY <1>2, <1>3 DEF IInv, Remembers
  <2>2. owner' # Nobody
    BY <1>3
  <2> QED  BY <1>6, <1>7, <2>1, <2>2 DEF Remembers
<1>13. Reaches'
  BY <1>6, <1>7 DEF Reaches
<1> QED  BY <1>8, <1>9, <1>10, <1>11, <1>12, <1>13 DEF IInv

\* The owner goes on inside its operation: no other thread is concerned.
LEMMA OwnerSteps ==
  ASSUME IInv, NEW t \in Thread, pc[t] # "idle"
  PROVE  owner = t /\ owner # Nobody /\ \A u \in Thread : u # t => pc[u] = "idle"
  BY SeekFallbackAssumption DEF IInv, OwnerOnly

LEMMA AskKeeps ==
  ASSUME IInv, NEW t \in Thread, Ask(t)
  PROVE  IInv'
<1>1. /\ pc[t] = "ask" /\ pc' = [pc EXCEPT ![t] = "go"] /\ old' = [old EXCEPT ![t] = pos]
      /\ UNCHANGED <<pos, owner, kind, off, length, done, stream, hit, astray>>
  BY DEF Ask, request
<1>2. owner = t /\ owner # Nobody /\ \A u \in Thread : u # t => pc[u] = "idle"
  BY <1>1, OwnerSteps
<1>3. pc'[t] = "go" /\ old'[t] = pos /\ \A u \in Thread : u # t => pc'[u] = "idle"
  BY <1>1, <1>2 DEF IInv, TypeOK
<1>4. TypeOK'
  <2>1. pc' \in [Thread -> {"idle", "ask", "go", "write", "back"}]
    BY <1>1 DEF IInv, TypeOK
  <2>2. old' \in [Thread -> Nat]
    BY <1>1 DEF IInv, TypeOK
  <2> QED  BY <1>1, <2>1, <2>2 DEF IInv, TypeOK
<1>5. OwnerOnly' /\ Positional'
  BY <1>1, <1>2, <1>3 DEF IInv, OwnerOnly, Positional
<1>6. Fresh'
  BY <1>1, <1>2, <1>3 DEF IInv, Fresh
<1>7. Remembers'
  BY <1>1, <1>2, <1>3 DEF IInv, Remembers
<1>8. Reaches'
  BY <1>3 DEF Reaches
<1> QED  BY <1>4, <1>5, <1>6, <1>7, <1>8 DEF IInv

LEMMA GoKeeps ==
  ASSUME IInv, NEW t \in Thread, Go(t)
  PROVE  IInv'
<1>1. /\ pc[t] = "go" /\ pc' = [pc EXCEPT ![t] = "write"] /\ pos' = off[t]
      /\ UNCHANGED <<owner, kind, off, length, old, done, stream, hit, astray>>
  BY DEF Go, request
<1>2. owner = t /\ owner # Nobody /\ \A u \in Thread : u # t => pc[u] = "idle"
  BY <1>1, OwnerSteps
<1>3. pc'[t] = "write" /\ \A u \in Thread : u # t => pc'[u] = "idle"
  BY <1>1, <1>2 DEF IInv, TypeOK
<1>4. kind[t] # "plain" /\ done[t] = 0 /\ hit[t] = {} /\ off[t] \in Nat
  BY <1>1 DEF IInv, TypeOK, Positional, Fresh
<1>5. TypeOK'
  <2>1. pc' \in [Thread -> {"idle", "ask", "go", "write", "back"}]
    BY <1>1 DEF IInv, TypeOK
  <2>2. pos' \in Nat
    BY <1>1, <1>4
  <2> QED  BY <1>1, <2>1, <2>2 DEF IInv, TypeOK
<1>6. OwnerOnly' /\ Positional'
  BY <1>1, <1>2, <1>3 DEF OwnerOnly, Positional
<1>7. Fresh'
  BY <1>1, <1>2, <1>3 DEF IInv, Fresh
<1>8. Remembers'
  BY <1>1, <1>2, <1>3, <1>4 DEF IInv, Remembers
<1>9. Reaches'
  <2>1. off[t]..(off[t] + 0 - 1) = {} /\ off[t] = off[t] + 0
    BY <1>4
  <2> QED  BY <1>1, <1>3, <1>4, <2>1 DEF Reaches
<1> QED  BY <1>5, <1>6, <1>7, <1>8, <1>9 DEF IInv

\* Places written one after the other are places without a gap.
LEMMA Abut ==
  ASSUME NEW o \in Nat, NEW d \in Nat, NEW k \in Nat
  PROVE  o..(o + d - 1) \union (o + d)..(o + d + k - 1) = o..(o + (d + k) - 1)
<1> SUFFICES ASSUME NEW x
             PROVE  x \in o..(o + d - 1) \/ x \in (o + d)..(o + d + k - 1)
                      <=> x \in o..(o + (d + k) - 1)
  OBVIOUS
<1> QED  OBVIOUS

LEMMA WriteKeeps ==
  ASSUME Locked, IInv, NEW t \in Thread, Write(t)
  PROVE  IInv'
<1>1. PICK k \in 0..(length[t] - done[t]) :
        /\ pos' = pos + k
        /\ stream' = IF kind[t] = "plain" THEN stream + k ELSE stream
        /\ IF kind[t] = "plain" /\ done[t] + k = length[t] THEN Leave(t)
           ELSE /\ done' = [done EXCEPT ![t] = @ + k]
                /\ hit' = [hit EXCEPT ![t] = @ \union pos..(pos + k - 1)]
                /\ pc' = [pc EXCEPT ![t] =
                            IF kind[t] = "some" \/ done[t] + k = length[t] THEN "back" ELSE "write"]
                /\ UNCHANGED <<owner, request, old>>
  BY DEF Write
<1>2. pc[t] = "write" /\ UNCHANGED astray
  BY DEF Write
<1>3. owner = t /\ owner # Nobody /\ \A u \in Thread : u # t => pc[u] = "idle"
  BY <1>2, OwnerSteps
<1>4. /\ k \in Nat /\ pos \in Nat /\ stream \in Nat /\ done[t] \in Nat /\ off[t] \in Nat
      /\ pos' \in Nat /\ stream' \in Nat
  BY <1>1 DEF IInv, TypeOK
<1>5. CASE kind[t] = "plain" /\ done[t] + k = length[t]
  <2>1. ~astray' => pos' = stream'
    BY <1>1, <1>2, <1>5 DEF IInv, Remembers
  <2>2. astray' \in BOOLEAN
    BY <1>2 DEF IInv, TypeOK
  <2> QED  BY <1>1, <1>2, <1>4, <1>5, <2>1, <2>2, Leaves
<1>6. CASE ~(kind[t] = "plain" /\ done[t] + k = length[t])
  <2>1. /\ done' = [done EXCEPT ![t] = @ + k]
        /\ hit' = [hit EXCEPT ![t] = @ \union pos..(pos + k - 1)]
        /\ UNCHANGED <<owner, kind, off, length, old>>
    BY <1>1, <1>6 DEF request
  <2>2. PICK where \in {"write", "back"} :
          pc' = [pc EXCEPT ![t] = where] /\ (where = "back" => kind[t] # "plain")
    BY <1>1, <1>6 DEF IInv, TypeOK
  <2>3. pc'[t] = where /\ \A u \in Thread : u # t => pc'[u] = "idle"
    BY <1>3, <2>2 DEF IInv, TypeOK
  <2>4. /\ done'[t] = done[t] + k
        /\ hit'[t] = hit[t] \union pos..(pos + k - 1)
    BY <2>1 DEF IInv, TypeOK
  <2>5. TypeOK'
    <3>1. pc' \in [Thread -> {"idle", "ask", "go", "write", "back"}]
      BY <2>2 DEF IInv, TypeOK
    <3>2. done' \in [Thread -> Nat]
      BY <1>4, <2>1 DEF IInv, TypeOK
    <3>3. hit' \in [Thread -> SUBSET Nat]
      <4>1. pos..(pos + k - 1) \subseteq Nat
        BY <1>4
      <4> QED  BY <2>1, <4>1 DEF IInv, TypeOK
    <3> QED  BY <1>2, <1>4, <2>1, <3>1, <3>2, <3>3 DEF IInv, TypeOK
  <2>6. OwnerOnly' /\ Positional'
    BY <1>3, <2>1, <2>2, <2>3 DEF OwnerOnly, Positional
  <2>7. Fresh'
    <3> SUFFICES ASSUME NEW u \in Thread, u # t  PROVE done'[u] = 0 /\ hit'[u] = {}
      BY <2>3 DEF Fresh
    <3> QED  BY <1>3, <2>1 DEF IInv, TypeOK, Fresh
  <2>8. Remembers'
    <3>1. ~astray => (kind[t] = "plain" => pos = stream) /\ (kind[t] # "plain" => old[t] = stream)
      BY <1>2 DEF IInv, Remembers
    <3>2. ~astray => /\ kind[t] = "plain" => pos' = stream'
                     /\ kind[t] # "plain" => old[t] = stream'
      BY <1>1, <3>1
    <3> QED  BY <1>2, <1>3, <2>1, <2>2, <2>3, <3>2 DEF Remembers
  <2>9. Reaches'
    <3>1. CASE kind[t] = "plain"
      BY <2>1, <2>2, <2>3, <3>1 DEF Reaches
    <3>2. CASE kind[t] # "plain"
      <4>1. pos = off[t] + done[t] /\ hit[t] = off[t]..(off[t] + done[t] - 1)
        BY <1>2, <3>2 DEF IInv, Reaches
      <4>2. pos' = off[t] + done'[t]
        BY <1>1, <1>4, <2>4, <4>1
      <4>3. hit'[t] = off[t]..(off[t] + done'[t] - 1)
        <5>1. off[t]..(off[t] + done[t] - 1)
                \union (off[t] + done[t])..(off[t] + done[t] + k - 1)
              = off[t]..(off[t] + (done[t] + k) - 1)
          BY <1>4, Abut
        <5> QED BY <2>4, <4>1, <5>1
      <4> QED  BY <2>1, <2>3, <4>2, <4>3 DEF Reaches
    <3> QED  BY <3>1, <3>2
  <2> QED  BY <2>5, <2>6, <2>7, <2>8, <2>9 DEF IInv
<1> QED  BY <1>5, <1>6

LEMMA BackKeeps ==
  ASSUME Locked, IInv, NEW t \in Thread, Back(t)
  PROVE  IInv'
<1>1. pc[t] = "back" /\ Leave(t) /\ pos' = old[t] /\ stream' = stream /\ astray' = astray
  BY DEF Back, OldPosition
<1>2. pos' \in Nat /\ stream' \in Nat
  BY <1>1 DEF IInv, TypeOK
<1>3. astray' \in BOOLEAN
  BY <1>1 DEF IInv, TypeOK
<1>4. ~astray' => pos' = stream'
  BY <1>1 DEF IInv, Remembers
<1> QED  BY <1>1, <1>2, <1>3, <1>4, Leaves

LEMMA ThrowsKeeps ==
  ASSUME Locked, IInv, NEW t \in Thread, Throws(t)
  PROVE  IInv'
<1>1. /\ pc[t] # "idle" /\ Leave(t) /\ pos' = pos /\ stream' = stream
      /\ astray' = (astray \/ (pc[t] \in {"write", "back"} /\ kind[t] # "plain"))
  BY DEF Throws
<1>2. pos' \in Nat /\ stream' \in Nat
  BY <1>1 DEF IInv, TypeOK
<1>3. astray' \in BOOLEAN
  BY <1>1
<1>4. ~astray' => pos' = stream'
  <2> SUFFICES ASSUME ~astray'  PROVE pos = stream
    BY <1>1
  <2>1. ~astray /\ (pc[t] \in {"ask", "go"} \/ (pc[t] \in {"write", "back"} /\ kind[t] = "plain"))
    BY <1>1 DEF IInv, TypeOK
  <2> QED  BY <2>1 DEF IInv, Positional, Remembers
<1> QED  BY <1>1, <1>2, <1>3, <1>4, Leaves

LEMMA StepKeeps == Locked /\ IInv /\ [Next]_vars => IInv'
<1> SUFFICES ASSUME Locked, IInv, [Next]_vars  PROVE IInv'
  OBVIOUS
<1>1. CASE UNCHANGED vars
  BY <1>1 DEF IInv, TypeOK, OwnerOnly, Positional, Fresh, Remembers, Reaches, vars
<1>2. CASE Next
  BY <1>2, EnterKeeps, AskKeeps, GoKeeps, WriteKeeps, BackKeeps, ThrowsKeeps DEF Next
<1> QED  BY <1>1, <1>2

LEMMA Invariant ==
  ASSUME Locked  PROVE Spec => []IInv
<1>1. IInv /\ [Next]_vars => IInv'
  BY StepKeeps
<1> QED  BY Initially, <1>1, PTL DEF Spec

-----------------------------------------------------------------------------
\* Behind a mutex, a positional write by seeks leaves the stream's position
\* where its own writes have ended, unless it failed between its seeks
\* (pwrite_all_bytes_impl and pwrite_some_bytes_impl under the lock guard).
THEOREM FallbackKeepsStream ==
  ASSUME Locked  PROVE Spec => []StreamKept
<1>1. IInv => StreamKept
  BY DEF IInv, Remembers, StreamKept
<1> QED  BY Invariant, <1>1, PTL

\* Behind a mutex, the bytes of a positional write by seeks are at its offset
\* and without a gap, however the handle cuts them.
THEOREM FallbackPlaces ==
  ASSUME Locked  PROVE Spec => []Placed
<1>1. IInv => Placed
  BY DEF IInv, Reaches, Placed
<1> QED  BY Invariant, <1>1, PTL

-----------------------------------------------------------------------------
(***************************************************************************)
(* Calls with several descriptors.                                         *)
(***************************************************************************)

(***************************************************************************)
(* What makes the invariants inductive: where a call is in its list, and   *)
(* that what it has got lies before the place it reads from next.          *)
(***************************************************************************)
Functions ==
  /\ nth \in [Callers -> Nat] /\ partly \in [Callers -> Nat]
  /\ DOMAIN dest = Callers

Where(r) ==
  /\ partly[r] > 0 => nth[r] < Len(want[r]) /\ Got(r) < want[r][nth[r] + 1]
  /\ phase[r] = "tail" => partly[r] > 0
  /\ phase[r] \in {"ready", "gather"} => partly[r] = 0 /\ nth[r] < Len(want[r])
  /\ phase[r] = "ready" => nth[r] = 1
  /\ outcome[r] = "none" <=> phase[r] \in {"ready", "gather", "tail"}

BehindPlace == \A r \in Callers : \A j \in DOMAIN dest[r] : dest[r][j] <= ReadPlace(r)

OffIsTrue == byOffset => \A r \in Callers : reach[r] = Origin[r] + Got(r)

MutexHeld ==
  mutexed => \A r \in Callers : keeper = r <=> phase[r] \in {"gather", "tail", "unlock"}

EndsAtCursor ==
  mutexed /\ ~byOffset =>
    \A r \in Callers : phase[r] \in {"gather", "tail"} /\ Got(r) > 0 => dest[r][Got(r)] = front

Inv ==
  /\ ReadTypeOK /\ Functions /\ \A r \in Callers : Where(r)
  /\ FillsInOrder /\ BehindPlace /\ OffIsTrue /\ EndIsTrue /\ MutexHeld
  /\ ~byOffset => GivenOnce
  /\ mutexed /\ ~byOffset => OnePiece /\ EndsAtCursor
  /\ byOffset => FromItsOffset

-----------------------------------------------------------------------------
(***************************************************************************)
(* scatter_read_all and scatter_pread_all.                                 *)
(***************************************************************************)
LEMMA Basics ==
  ASSUME ScatterReadAssumption, Inv, NEW r \in Callers
  PROVE  /\ IsList(want[r]) /\ Len(want[r]) \in Nat /\ Len(want[r]) >= 2
         /\ nth[r] \in 1..Len(want[r]) /\ partly[r] \in Nat
         /\ \A n \in 1..Len(want[r]) : want[r][n] \in Nat /\ want[r][n] <= Total(want[r])
         /\ Total(want[r]) \in Nat /\ Got(r) \in Nat /\ ReadPlace(r) \in Nat /\ size \in Nat
         /\ Got(r) <= Total(want[r])
         /\ dest[r] \in [1..Total(want[r]) -> 0..size] /\ DOMAIN dest[r] = 1..Total(want[r])
<1>1. ReadTypeOK /\ Functions /\ Where(r)
  BY DEF Inv
<1>2. IsList(want[r]) /\ size \in Nat
  BY <1>1 DEF ScatterReadAssumption, CallsAssumption, ReadTypeOK
<1>3. /\ Len(want[r]) \in Nat /\ Len(want[r]) >= 2
      /\ nth[r] \in 1..Len(want[r]) /\ partly[r] \in Nat
  BY <1>1, <1>2 DEF ReadTypeOK, IsList
<1>4. Len(want[r]) \in 1..Len(want[r])
  BY <1>3
<1>5. \A n \in 1..Len(want[r]) : want[r][n] \in Nat /\ want[r][n] <= Total(want[r])
  BY <1>2, EdgesGrow DEF Total
<1>6. Total(want[r]) \in Nat
  BY <1>4, <1>5 DEF Total
<1>7. Got(r) \in Nat
  BY <1>3, <1>5 DEF Got
<1>8. Got(r) <= Total(want[r])
  <2>1. CASE partly[r] = 0
    BY <2>1, <1>3, <1>5 DEF Got
  <2>2. CASE partly[r] > 0
    <3>1. nth[r] + 1 \in 1..Len(want[r]) /\ Got(r) < want[r][nth[r] + 1]
      BY <2>2, <1>1, <1>3 DEF Where
    <3> QED BY <3>1, <1>5, <1>6, <1>7
  <2> QED BY <2>1, <2>2, <1>3
<1>9. ReadPlace(r) \in Nat
  BY <1>1 DEF ReadPlace, ReadTypeOK
<1>10. dest[r] \in [1..Total(want[r]) -> 0..size] /\ DOMAIN dest[r] = 1..Total(want[r])
  BY <1>1 DEF ReadTypeOK
<1> QED BY <1>2, <1>3, <1>5, <1>6, <1>7, <1>8, <1>9, <1>10

\* Where a call is after k more bytes: at p in its list with q bytes of that
\* descriptor, in state s and with the result how.
Goes(r, k, p, q, s, how) ==
  /\ Fills(r, k) /\ UNCHANGED <<size, byOffset, mutexed, want, keeper, failures>>
  /\ k > 0 => ReadPlace(r) + k <= size
  /\ nth' = [nth EXCEPT ![r] = p] /\ partly' = [partly EXCEPT ![r] = q]
  /\ phase' = [phase EXCEPT ![r] = s] /\ outcome' = [outcome EXCEPT ![r] = how]
  /\ p \in 1..Len(want[r]) /\ q \in Nat
  /\ want[r][p] + q = Got(r) + k /\ Got(r) + k <= Total(want[r])
  /\ q > 0 => p < Len(want[r]) /\ want[r][p] + q < want[r][p + 1]
  /\ \/ s = "unlock" /\ how = "ok" /\ Got(r) + k = Total(want[r])
     \/ s = "unlock" /\ how = "end" /\ Got(r) + k < Total(want[r]) /\ k = 0 /\ ReadPlace(r) >= size
     \/ s = "tail" /\ how = "none" /\ q > 0
     \/ s = "gather" /\ how = "none" /\ q = 0 /\ p < Len(want[r])

LEMMA GatherGoes ==
  ASSUME ScatterReadAssumption, Inv, NEW r \in Callers, GatherRead(r)
  PROVE  \E k, q \in Nat : \E p, s, how : Goes(r, k, p, q, s, how)
<1> DEFINE e == want[r]
           i == nth[r]
           last == Offered(e, i, MaxCount)
<1>1. /\ IsList(e) /\ Len(e) \in Nat /\ i \in 1..Len(e) /\ partly[r] = 0 /\ i < Len(e)
      /\ \A n \in 1..Len(e) : e[n] \in Nat /\ e[n] <= Total(e)
      /\ Total(e) \in Nat /\ Got(r) = e[i] /\ ReadPlace(r) \in Nat /\ size \in Nat
      /\ outcome[r] = "none"
  <2>1. phase[r] = "gather" /\ Where(r)
    BY DEF GatherRead, Inv
  <2>2. partly[r] = 0 /\ i < Len(e) /\ outcome[r] = "none"
    BY <2>1 DEF Where
  <2>3. /\ IsList(e) /\ Len(e) \in Nat /\ i \in 1..Len(e) /\ Total(e) \in Nat
        /\ \A n \in 1..Len(e) : e[n] \in Nat /\ e[n] <= Total(e)
        /\ ReadPlace(r) \in Nat /\ size \in Nat
    BY Basics
  <2>4. Got(r) = e[i]
    <3>1. Got(r) = e[i] + 0
      BY <2>2 DEF Got
    <3>2. e[i] \in Nat
      BY <2>3
    <3> QED BY <3>1, <3>2
  <2> QED BY <2>2, <2>3, <2>4
<1>2. last \in (i + 1)..Len(e) /\ last \in 1..Len(e)
  <2>1. MaxCount \in Nat \ {0}
    BY DEF ScatterReadAssumption, CallsAssumption
  <2>2. last \in (i + 1)..Len(e)
    BY <1>1, <2>1, OfferedIs
  <2> QED BY <1>1, <2>2
<1> HIDE DEF last
<1>3. PICK k \in Gives(r, e[last] - e[i]) :
        LET stop == Position(e, i, last, k)
        IN  Fills(r, k) /\ AdvanceRead(r, stop, k - (e[stop] - e[i]))
  BY DEF GatherRead, last
<1>4. /\ k \in 0..(e[last] - e[i]) /\ k \in Nat
      /\ k > 0 => ReadPlace(r) + k <= size
      /\ k = 0 => e[last] - e[i] = 0 \/ ReadPlace(r) >= size
  BY DEF Gives
<1> DEFINE p == Position(e, i, last, k)
           q == k - (e[p] - e[i])
<1>5. /\ p \in i..last /\ p \in 1..Len(e)
      /\ e[p] - e[i] <= k
      /\ p < last => k < e[p + 1] - e[i]
      /\ p = last => k = e[last] - e[i]
      /\ p = i => e[i] < e[last]
  BY <1>1, <1>2, <1>4, PositionIs
<1>6. Fills(r, k) /\ AdvanceRead(r, p, q) /\ UNCHANGED <<size, byOffset, mutexed, want, keeper, failures>>
  BY <1>3 DEF GatherRead
<1> HIDE DEF p
<1>7. /\ e[p] \in Nat /\ e[i] \in Nat /\ e[last] \in Nat /\ p \in Nat /\ last \in Nat
      /\ e[last] <= Total(e) /\ Total(e) \in Nat /\ Len(e) \in Nat
      /\ Got(r) = e[i] /\ k \in Nat /\ e[p] - e[i] <= k /\ k <= e[last] - e[i]
      /\ p <= last /\ last <= Len(e)
  <2>1. e[p] \in Nat /\ e[i] \in Nat /\ e[last] \in Nat /\ e[last] <= Total(e)
    BY <1>1, <1>2, <1>5
  <2>2. p \in Nat /\ last \in Nat /\ p <= last /\ last <= Len(e)
    BY <1>1, <1>2, <1>5
  <2>3. \A x, y \in Nat : \A z \in 0..(y - x) : z <= y - x
    OBVIOUS
  <2>4. k <= e[last] - e[i]
    BY <2>1, <2>3, <1>4
  <2> QED BY <2>1, <2>2, <2>4, <1>1, <1>4, <1>5
<1>8. q \in Nat /\ e[p] + q = Got(r) + k
  <2>1. \A x, y, z \in Nat : y - x <= z => z - (y - x) \in Nat /\ y + (z - (y - x)) = x + z
    OBVIOUS
  <2>2. e[p] \in Nat /\ e[i] \in Nat /\ k \in Nat /\ e[p] - e[i] <= k
    BY <1>7
  <2>3. q \in Nat /\ e[p] + q = e[i] + k
    BY <2>1, <2>2
  <2> HIDE DEF q, e, i
  <2> QED BY <2>3, <1>7
<1>9. q > 0 => p < Len(e) /\ e[p] + q < e[p + 1]
  <2> SUFFICES ASSUME q > 0 PROVE p < Len(e) /\ e[p] + q < e[p + 1]
    OBVIOUS
  <2>1. p < last
    <3>1. p # last
      <4>1. \A x, y, z \in Nat : z = y - x => ~(z - (y - x) > 0)
        OBVIOUS
      <4>2. ASSUME p = last PROVE FALSE
        <5>1. k = e[p] - e[i] /\ e[p] \in Nat /\ e[i] \in Nat /\ k \in Nat
          BY <4>2, <1>5, <1>7
        <5> QED BY <4>1, <5>1
      <4> QED BY <4>2
    <3>2. p \in Nat /\ last \in Nat /\ p <= last
      BY <1>7
    <3> QED BY <3>1, <3>2
  <2>2. p + 1 \in 1..Len(e)
    <3>1. p \in Nat /\ last \in Nat /\ last <= Len(e) /\ Len(e) \in Nat
      BY <1>7
    <3> QED BY <2>1, <3>1
  <2>3. e[p + 1] \in Nat
    BY <2>2, <1>1
  <2>4. k < e[p + 1] - e[i]
    BY <2>1, <1>5
  <2>5. \A x, y, z, w \in Nat : z < w - x => y + (z - (y - x)) < w
    OBVIOUS
  <2>6. p < Len(e)
    BY <2>1, <1>7
  <2>7. e[p] \in Nat /\ e[i] \in Nat /\ k \in Nat
    BY <1>7
  <2>8. e[p] + (k - (e[p] - e[i])) < e[p + 1]
    BY <2>3, <2>4, <2>5, <2>7
  <2> QED BY <2>6, <2>8
<1>10. Got(r) + k <= Total(e)
  <2>1. \A x, y, z, w \in Nat : z <= y - x /\ y <= w => x + z <= w
    OBVIOUS
  <2>2. e[i] + k <= Total(e)
    BY <2>1, <1>7
  <2> QED BY <2>2, <1>7
<1> DEFINE s == IF p = Len(e) \/ Nothing(p, i, q) THEN "unlock" ELSE IF q > 0 THEN "tail" ELSE "gather"
           how == IF p = Len(e) THEN "ok" ELSE IF Nothing(p, i, q) THEN "end" ELSE "none"
<1>11. p = Len(e) => q = 0 /\ Got(r) + k = Total(e)
  BY <1>1, <1>8, <1>9 DEF Total
<1>12. p # Len(e) /\ Nothing(p, i, q) => k = 0 /\ ReadPlace(r) >= size /\ Got(r) + k < Total(e)
  <2> SUFFICES ASSUME p = i, q = 0 PROVE k = 0 /\ ReadPlace(r) >= size /\ Got(r) + k < Total(e)
    BY DEF Nothing
  <2>1. k = 0
    BY <1>7
  <2>2. e[i] < e[last] /\ e[last] <= Total(e)
    BY <1>5, <1>1, <1>2
  <2> QED BY <2>1, <2>2, <1>4, <1>7
<1>13. /\ nth' = [nth EXCEPT ![r] = p] /\ partly' = [partly EXCEPT ![r] = q]
       /\ phase' = [phase EXCEPT ![r] = s] /\ outcome' = [outcome EXCEPT ![r] = how]
  <2>0. p <= Len(e) /\ outcome \in [Callers -> {"none", "ok", "end", "error"}]
    BY <1>5 DEF Inv, ReadTypeOK
  <2>1. CASE p = Len(e)
    BY <1>6, <2>1 DEF AdvanceRead, LeaveRead
  <2>2. CASE p < Len(e) /\ Nothing(p, i, q)
    BY <1>6, <2>2 DEF AdvanceRead, LeaveRead
  <2>3. CASE p < Len(e) /\ ~Nothing(p, i, q)
    <3>1. /\ nth' = [nth EXCEPT ![r] = p] /\ partly' = [partly EXCEPT ![r] = q]
          /\ phase' = [phase EXCEPT ![r] = IF q > 0 THEN "tail" ELSE "gather"] /\ outcome' = outcome
      BY <1>6, <2>3 DEF AdvanceRead
    <3>2. outcome = [outcome EXCEPT ![r] = "none"]
      BY <1>1, <2>0
    <3>3. p # Len(e)
      BY <2>3
    <3> HIDE DEF q
    <3> QED BY <2>3, <3>1, <3>2, <3>3
  <2> QED BY <2>1, <2>2, <2>3, <1>7
<1>14. \/ s = "unlock" /\ how = "ok" /\ Got(r) + k = Total(e)
       \/ s = "unlock" /\ how = "end" /\ Got(r) + k < Total(e) /\ k = 0 /\ ReadPlace(r) >= size
       \/ s = "tail" /\ how = "none" /\ q > 0
       \/ s = "gather" /\ how = "none" /\ q = 0 /\ p < Len(e)
  <2>1. CASE p = Len(e)
    BY <1>11, <2>1
  <2>2. CASE p # Len(e) /\ Nothing(p, i, q)
    BY <1>12, <2>2
  <2>3. CASE p # Len(e) /\ ~Nothing(p, i, q)
    <3>1. p < Len(e) /\ (q > 0 \/ q = 0)
      BY <1>5, <1>8, <2>3
    <3> QED BY <2>3, <3>1
  <2> QED BY <2>1, <2>2, <2>3
<1> HIDE DEF q, s, how
<1>15. Goes(r, k, p, q, s, how)
  BY <1>4, <1>5, <1>6, <1>8, <1>9, <1>10, <1>13, <1>14 DEF Goes
<1> QED BY <1>4, <1>8, <1>15

LEMMA FinishGoes ==
  ASSUME ScatterReadAssumption, Inv, NEW r \in Callers, FinishRead(r)
  PROVE  \E k, q \in Nat : \E p, s, how : Goes(r, k, p, q, s, how)
<1> DEFINE e == want[r]
           i == nth[r]
           rest == e[i + 1] - Got(r)
<1>1. /\ IsList(e) /\ Len(e) \in Nat /\ i \in 1..Len(e) /\ partly[r] \in Nat /\ partly[r] > 0
      /\ i < Len(e) /\ Got(r) < e[i + 1] /\ Got(r) = e[i] + partly[r]
      /\ \A n \in 1..Len(e) : e[n] \in Nat /\ e[n] <= Total(e)
      /\ Total(e) \in Nat /\ Got(r) \in Nat /\ ReadPlace(r) \in Nat /\ size \in Nat
      /\ outcome[r] = "none" /\ phase[r] = "tail"
  BY Basics DEF FinishRead, Inv, Where, Got
<1>2. i + 1 \in 1..Len(e) /\ e[i + 1] \in Nat /\ e[i + 1] <= Total(e) /\ e[i] \in Nat /\ i + 1 # i
  <2>1. \A n \in Nat : \A x \in 1..n : x < n => x + 1 \in 1..n /\ x + 1 # x
    OBVIOUS
  <2>2. i + 1 \in 1..Len(e) /\ i + 1 # i
    BY <2>1, <1>1
  <2>3. \A n \in 1..Len(e) : e[n] \in Nat /\ e[n] <= Total(e)
    BY <1>1
  <2> QED BY <2>2, <2>3, <1>1
<1>3. rest \in Nat /\ rest > 0
  <2>1. e[i + 1] \in Nat /\ Got(r) \in Nat /\ Got(r) < e[i + 1]
    BY <1>1, <1>2
  <2>2. \A a, b \in Nat : b < a => a - b \in Nat /\ a - b > 0
    OBVIOUS
  <2> QED BY Zenon, <2>1, <2>2
<1>4. PICK k \in Gives(r, rest) :
        /\ Fills(r, k)
        /\ CASE k = rest -> AdvanceRead(r, i + 1, 0)
             [] k = 0 -> LeaveRead(r, "end") /\ UNCHANGED <<nth, partly>>
             [] OTHER -> partly' = [partly EXCEPT ![r] = @ + k] /\ UNCHANGED <<nth, phase, outcome>>
  BY DEF FinishRead
<1>5. /\ k \in 0..rest /\ k \in Nat
      /\ k > 0 => ReadPlace(r) + k <= size
      /\ k = 0 => ReadPlace(r) >= size
  BY <1>3 DEF Gives
<1>6. UNCHANGED <<size, byOffset, mutexed, want, keeper, failures>>
  BY DEF FinishRead
<1>7. /\ nth = [nth EXCEPT ![r] = i] /\ partly = [partly EXCEPT ![r] = partly[r]]
      /\ phase = [phase EXCEPT ![r] = "tail"] /\ outcome = [outcome EXCEPT ![r] = "none"]
  BY <1>1 DEF Inv, ReadTypeOK, Functions
<1>8. CASE k = rest
  <2> HIDE DEF rest
  <2>1. Fills(r, k) /\ AdvanceRead(r, i + 1, 0)
    BY <1>3, <1>4, <1>8
  <2>2. ~Nothing(i + 1, nth[r], 0)
    BY <1>2 DEF Nothing
  <2>3. Got(r) + k = e[i + 1]
    <3>1. e[i + 1] \in Nat /\ Got(r) \in Nat
      BY <1>1, <1>2
    <3> QED BY <1>8, <3>1 DEF rest
  <2>4. CASE i + 1 = Len(e)
    <3>1. phase' = [phase EXCEPT ![r] = "unlock"] /\ outcome' = [outcome EXCEPT ![r] = "ok"]
      BY <2>1, <2>4 DEF AdvanceRead, LeaveRead
    <3>2. Got(r) + k = Total(e)
      BY <2>3, <2>4 DEF Total
    <3>3. Goes(r, k, i + 1, 0, "unlock", "ok")
      BY <1>2, <1>5, <1>6, <2>1, <2>3, <3>1, <3>2 DEF Goes, AdvanceRead
    <3> QED BY <1>5, <3>3
  <2>5. CASE i + 1 # Len(e)
    <3>1. i + 1 < Len(e)
      BY <2>5, <1>1
    <3>2. phase' = [phase EXCEPT ![r] = "gather"] /\ outcome' = outcome
      BY <2>1, <2>2, <2>5 DEF AdvanceRead
    <3>3. nth' = [nth EXCEPT ![r] = i + 1] /\ partly' = [partly EXCEPT ![r] = 0]
      BY <2>1 DEF AdvanceRead
    <3>4. outcome' = [outcome EXCEPT ![r] = "none"]
      BY <1>7, <3>2
    <3>5. Goes(r, k, i + 1, 0, "gather", "none")
      <4>1. e[i + 1] + 0 = Got(r) + k /\ Got(r) + k <= Total(e) /\ ~(0 > 0)
        BY <1>2, <2>3
      <4> QED BY <1>2, <1>5, <1>6, <2>1, <3>1, <3>2, <3>3, <3>4, <4>1 DEF Goes
    <3> QED BY <1>5, <3>5
  <2> QED BY <2>4, <2>5
<1>9. CASE k # rest /\ k = 0
  <2>1. LeaveRead(r, "end") /\ UNCHANGED <<nth, partly>> /\ Fills(r, k)
    BY <1>4, <1>9
  <2>2. /\ nth' = [nth EXCEPT ![r] = i] /\ partly' = [partly EXCEPT ![r] = partly[r]]
        /\ phase' = [phase EXCEPT ![r] = "unlock"] /\ outcome' = [outcome EXCEPT ![r] = "end"]
    BY <2>1, <1>7 DEF LeaveRead
  <2>3. /\ e[i] + partly[r] = Got(r) + k /\ Got(r) + k < Total(e) /\ Got(r) + k <= Total(e)
        /\ e[i] + partly[r] < e[i + 1]
    <3>1. /\ Got(r) = e[i] + partly[r] /\ Got(r) \in Nat /\ Got(r) < e[i + 1]
          /\ e[i + 1] \in Nat /\ e[i + 1] <= Total(e) /\ Total(e) \in Nat /\ k = 0
      BY <1>1, <1>2, <1>9
    <3>2. Got(r) + k = Got(r)
      BY <3>1
    <3> QED BY <3>1, <3>2
  <2>4. Goes(r, k, i, partly[r], "unlock", "end")
    BY <1>1, <1>5, <1>6, <1>9, <2>1, <2>2, <2>3 DEF Goes
  <2> QED BY <1>1, <1>5, <2>4
<1>10. CASE k # rest /\ k # 0
  <2>1. partly' = [partly EXCEPT ![r] = partly[r] + k] /\ UNCHANGED <<nth, phase, outcome>> /\ Fills(r, k)
    BY <1>4, <1>10
  <2>2. /\ partly[r] + k \in Nat /\ partly[r] + k > 0 /\ e[i] + (partly[r] + k) = Got(r) + k
        /\ Got(r) + k < e[i + 1] /\ Got(r) + k <= Total(e)
    <3>1. /\ e[i + 1] \in Nat /\ e[i] \in Nat /\ partly[r] \in Nat /\ partly[r] > 0 /\ Got(r) \in Nat
          /\ Got(r) = e[i] + partly[r] /\ e[i + 1] <= Total(e) /\ Total(e) \in Nat
      BY <1>1, <1>2
    <3> QED BY <3>1, <1>5, <1>10
  <2>3. Goes(r, k, i, partly[r] + k, "tail", "none")
    BY <1>1, <1>5, <1>6, <1>7, <2>1, <2>2 DEF Goes
  <2> QED BY <1>5, <2>2, <2>3
<1> QED BY <1>8, <1>9, <1>10

-----------------------------------------------------------------------------
\* A read that gives k bytes keeps the invariant.
LEMMA GoesKeeps ==
  ASSUME ScatterReadAssumption, Inv, NEW r \in Callers, phase[r] \in {"gather", "tail"},
         NEW k \in Nat, NEW q \in Nat, NEW p, NEW s, NEW how, Goes(r, k, p, q, s, how)
  PROVE  Inv'
<1> DEFINE g == Got(r)
           pl == ReadPlace(r)
           T == Total(want[r])
<1>a. /\ ReadTypeOK /\ Functions /\ FillsInOrder /\ BehindPlace /\ OffIsTrue /\ EndIsTrue /\ MutexHeld
      /\ \A w \in Callers : Where(w)
  BY DEF Inv
<1>b. /\ g \in Nat /\ pl \in Nat /\ T \in Nat /\ size \in Nat /\ g + k <= T
      /\ k > 0 => pl + k <= size
      /\ dest[r] \in [1..T -> 0..size] /\ DOMAIN dest[r] = 1..T
      /\ front \in Nat /\ front <= size /\ reach \in [Callers -> Nat]
  <2>1. /\ g \in Nat /\ pl \in Nat /\ T \in Nat /\ size \in Nat
        /\ dest[r] \in [1..T -> 0..size] /\ DOMAIN dest[r] = 1..T
    BY Basics
  <2>2. g + k <= T /\ k > 0 => pl + k <= size
    BY DEF Goes
  <2>3. g + k <= T
    BY DEF Goes
  <2>4. front \in 0..size /\ reach \in [Callers -> Nat]
    BY <1>a DEF ReadTypeOK
  <2> QED BY <2>1, <2>2, <2>3, <2>4
<1>c. /\ nth' = [nth EXCEPT ![r] = p] /\ partly' = [partly EXCEPT ![r] = q]
      /\ phase' = [phase EXCEPT ![r] = s] /\ outcome' = [outcome EXCEPT ![r] = how]
      /\ UNCHANGED <<size, byOffset, mutexed, want, keeper, failures>>
      /\ p \in 1..Len(want[r]) /\ want[r][p] + q = g + k
      /\ q > 0 => p < Len(want[r]) /\ want[r][p] + q < want[r][p + 1]
      /\ \/ s = "unlock" /\ how = "ok" /\ g + k = T
         \/ s = "unlock" /\ how = "end" /\ g + k < T /\ k = 0 /\ pl >= size
         \/ s = "tail" /\ how = "none" /\ q > 0
         \/ s = "gather" /\ how = "none" /\ q = 0 /\ p < Len(want[r])
  BY DEF Goes
<1>d. /\ dest' = [dest EXCEPT ![r] = [j \in DOMAIN @ |->
                    IF j \in (g + 1)..(g + k) THEN pl + j - g ELSE @[j]]]
      /\ byOffset => reach' = [reach EXCEPT ![r] = @ + k] /\ front' = front
      /\ ~byOffset => front' = front + k /\ reach' = reach
      /\ byOffset' = byOffset /\ mutexed' = mutexed
  BY DEF Goes, Fills
<1> HIDE DEF g, pl, T
\* What becomes of thread r, and of the others.
<1>1. /\ nth'[r] = p /\ partly'[r] = q /\ phase'[r] = s /\ outcome'[r] = how /\ want' = want
      /\ Got(r)' = g + k
      /\ \A w \in Callers \ {r} :
           /\ nth'[w] = nth[w] /\ partly'[w] = partly[w] /\ phase'[w] = phase[w] /\ outcome'[w] = outcome[w]
           /\ dest'[w] = dest[w] /\ Got(w)' = Got(w)
  BY <1>a, <1>c, <1>d DEF ReadTypeOK, Functions, Got
<1>2. DOMAIN dest' = Callers /\ DOMAIN dest'[r] = 1..T
  BY <1>a, <1>b, <1>d DEF Functions
<1>3. \A j \in 1..T : dest'[r][j] = IF j \in (g + 1)..(g + k) THEN pl + j - g ELSE dest[r][j]
  BY <1>a, <1>b, <1>d DEF Functions
<1>4. /\ ReadPlace(r)' = pl + k
      /\ \A w \in Callers : ReadPlace(w)' \in Nat /\ ReadPlace(w)' >= ReadPlace(w) /\ ReadPlace(w) \in Nat
  <2>1. CASE byOffset
    BY <2>1, <1>b, <1>d DEF ReadPlace, pl
  <2>2. CASE ~byOffset
    BY <2>2, <1>b, <1>d DEF ReadPlace, pl
  <2> QED BY <2>1, <2>2
\* The first g bytes are filled, from what is before the place; the rest is not.
<1>5. \A j \in 1..T : /\ j <= g => dest[r][j] \in 1..pl
                      /\ j > g => dest[r][j] = 0
  <2> SUFFICES ASSUME NEW j \in 1..T
               PROVE  /\ j <= g => dest[r][j] \in 1..pl
                      /\ j > g => dest[r][j] = 0
    OBVIOUS
  <2>1. dest[r][j] \in Nat /\ dest[r][j] <= pl
    BY <1>a, <1>b DEF BehindPlace, pl
  <2>2. dest[r][j] > 0 <=> j \in 1..g
    BY <1>a, <1>b DEF FillsInOrder, Filled, g
  <2>3. g \in Nat /\ pl \in Nat /\ j \in Nat /\ j >= 1
    BY <1>b
  <2> QED BY <2>1, <2>2, <2>3
<1>6. \A j \in 1..T : /\ j <= g => dest'[r][j] = dest[r][j]
                      /\ j > g /\ j <= g + k => dest'[r][j] = pl + (j - g)
                      /\ j > g + k => dest'[r][j] = 0
  <2> SUFFICES ASSUME NEW j \in 1..T
               PROVE  /\ j <= g => dest'[r][j] = dest[r][j]
                      /\ j > g /\ j <= g + k => dest'[r][j] = pl + (j - g)
                      /\ j > g + k => dest'[r][j] = 0
    OBVIOUS
  <2>1. g \in Nat /\ k \in Nat /\ pl \in Nat /\ j \in Nat
    BY <1>b
  <2>2. CASE j <= g
    <3>1. j \notin (g + 1)..(g + k) /\ ~(j > g) /\ ~(j > g + k)
      BY <2>1, <2>2
    <3> QED BY <3>1, <1>3
  <2>3. CASE j > g /\ j <= g + k
    <3>1. j \in (g + 1)..(g + k) /\ ~(j <= g) /\ ~(j > g + k) /\ pl + j - g = pl + (j - g)
      BY <2>1, <2>3
    <3> QED BY <3>1, <1>3
  <2>4. CASE j > g + k
    <3>1. j \notin (g + 1)..(g + k) /\ ~(j <= g) /\ ~(j <= g + k) /\ j > g
      BY <2>1, <2>4
    <3>2. dest[r][j] = 0
      BY <3>1, <1>5
    <3> QED BY <3>1, <3>2, <1>3
  <2> QED BY <2>1, <2>2, <2>3, <2>4
<1>7. \A j \in 1..T : /\ j <= g + k => dest'[r][j] \in 1..(pl + k)
                      /\ dest'[r][j] \in 0..size
  <2> SUFFICES ASSUME NEW j \in 1..T
               PROVE  /\ j <= g + k => dest'[r][j] \in 1..(pl + k)
                      /\ dest'[r][j] \in 0..size
    OBVIOUS
  <2>1. CASE j <= g
    <3>1. dest'[r][j] = dest[r][j] /\ dest[r][j] \in 1..pl /\ dest[r][j] \in 0..size
      BY <2>1, <1>5, <1>6, <1>b
    <3>2. pl + k \in Nat /\ 1..pl \subseteq 1..(pl + k)
      BY <1>b
    <3> QED BY <3>1, <3>2
  <2>2. CASE j > g /\ j <= g + k
    <3>1. dest'[r][j] = pl + (j - g)
      BY <2>2, <1>6
    <3>2. j - g \in 1..k /\ k > 0 /\ pl + k <= size /\ pl + k \in Nat
      BY <2>2, <1>b
    <3>3. \A x \in 1..k : pl + x \in 1..(pl + k) /\ pl + x \in 0..size
      BY <1>b
    <3> QED BY <3>1, <3>2, <3>3
  <2>3. CASE j > g + k
    BY <2>3, <1>6, <1>b
  <2> QED BY <2>1, <2>2, <2>3, <1>b
<1>8. Filled(r)' = 1..(g + k)
  <2>1. \A j \in 1..T : dest'[r][j] > 0 <=> j <= g + k
    BY <1>6, <1>7, <1>b
  <2>2. 1..(g + k) \subseteq 1..T
    BY <1>b
  <2> QED BY <2>1, <2>2, <1>2 DEF Filled
<1>9. \A w \in Callers \ {r} : Filled(w)' = Filled(w) /\ Taken(w)' = Taken(w)
  BY <1>1 DEF Filled, Taken
<1>10. ReadTypeOK'
  <2>1. dest'[r] \in [1..T -> 0..size]
    BY <1>2, <1>7, <1>d
  <2>2. reach' \in [Callers -> Nat] /\ front' \in 0..size
    <3>1. CASE byOffset
      BY <3>1, <1>b, <1>d
    <3>2. CASE ~byOffset
      <4>1. pl = front
        BY <3>2 DEF pl, ReadPlace
      <4> QED BY <4>1, <1>b, <1>d
    <3> QED BY <3>1, <3>2
  <2>3. s = "tail" => p <= Count(want[r]) /\ q > 0
    <3>1. Len(want[r]) \in Nat
      OBVIOUS
    <3> QED BY <1>c DEF Count
  <2>4. /\ phase' \in [Callers -> {"ready", "gather", "tail", "unlock", "out"}]
        /\ outcome' \in [Callers -> {"none", "ok", "end", "error"}]
    BY <1>a, <1>c DEF ReadTypeOK
  <2>5. \A w \in Callers :
          /\ nth'[w] \in 1..Len(want[w]) /\ partly'[w] \in Nat
          /\ phase'[w] = "tail" => nth'[w] <= Count(want[w]) /\ partly'[w] > 0
          /\ dest'[w] \in [1..Total(want[w]) -> 0..size]
    <3> SUFFICES ASSUME NEW w \in Callers
                 PROVE  /\ nth'[w] \in 1..Len(want[w]) /\ partly'[w] \in Nat
                        /\ phase'[w] = "tail" => nth'[w] <= Count(want[w]) /\ partly'[w] > 0
                        /\ dest'[w] \in [1..Total(want[w]) -> 0..size]
      OBVIOUS
    <3>1. CASE w = r
      BY <3>1, <1>1, <1>c, <2>1, <2>3 DEF T
    <3>2. CASE w # r
      BY <3>2, <1>1, <1>a DEF ReadTypeOK
    <3> QED BY <3>1, <3>2
  <2> QED BY <1>a, <1>c, <2>2, <2>5 DEF ReadTypeOK
<1>11. Functions' /\ \A w \in Callers : Where(w)'
  <2>1. Functions'
    <3>1. p \in Nat
      BY <1>c
    <3> QED BY <1>2, <1>a, <1>c DEF Functions
  <2>2. Where(r)'
    BY <1>1, <1>c DEF Where
  <2>3. ASSUME NEW w \in Callers \ {r} PROVE Where(w)'
    BY <1>1, <1>a DEF Where
  <2> QED BY <2>1, <2>2, <2>3
<1>12. FillsInOrder'
  <2>1. ASSUME NEW i \in 1..(g + k), NEW j \in 1..(g + k), i < j
        PROVE  dest'[r][i] < dest'[r][j]
    <3>0. i \in 1..T /\ j \in 1..T
      BY <1>b
    <3>1. CASE j <= g
      <4>1. i \in Filled(r) /\ j \in Filled(r)
        BY <2>1, <3>1, <1>a, <1>b DEF FillsInOrder, g
      <4>2. dest[r][i] < dest[r][j]
        BY <2>1, <4>1, <1>a DEF FillsInOrder
      <4> QED BY <4>2, <2>1, <3>1, <1>6, <1>b
    <3>2. CASE i <= g /\ j > g
      <4>1. dest'[r][i] \in 1..pl /\ dest'[r][j] = pl + (j - g)
        BY <3>0, <3>2, <1>5, <1>6
      <4>2. \A x \in 1..pl : x < pl + (j - g)
        BY <3>2, <1>b
      <4> QED BY <4>1, <4>2
    <3>3. CASE i > g
      BY <2>1, <3>3, <1>6, <1>b
    <3> QED BY <3>1, <3>2, <3>3, <1>b
  <2>2. ASSUME NEW w \in Callers
        PROVE  /\ Filled(w)' = 1..(Got(w)')
               /\ \A i, j \in Filled(w)' : i < j => dest'[w][i] < dest'[w][j]
    <3>1. CASE w = r
      BY <3>1, <2>1, <1>1, <1>8
    <3>2. CASE w # r
      BY <3>2, <1>1, <1>9, <1>a DEF FillsInOrder
    <3> QED BY <3>1, <3>2
  <2> QED BY <2>2 DEF FillsInOrder
<1>13. BehindPlace'
  <2>1. ASSUME NEW w \in Callers, NEW j \in DOMAIN dest'[w] PROVE dest'[w][j] <= ReadPlace(w)'
    <3>1. CASE w = r
      BY <3>1, <1>2, <1>4, <1>6, <1>7, <1>b
    <3>2. CASE w # r
      <4>1. dest[w][j] \in Nat
        BY <3>2, <1>1, Basics
      <4>2. dest[w][j] <= ReadPlace(w)
        BY <3>2, <1>1, <1>a DEF BehindPlace
      <4> QED BY <4>1, <4>2, <3>2, <1>1, <1>4
    <3> QED BY <3>1, <3>2
  <2> QED BY <2>1 DEF BehindPlace
<1>14. OffIsTrue'
  <2> SUFFICES ASSUME byOffset, NEW w \in Callers PROVE reach'[w] = Origin[w] + Got(w)'
    BY <1>d DEF OffIsTrue
  <2>1. reach[w] = Origin[w] + Got(w) /\ Origin[w] \in Nat
    BY <1>a DEF OffIsTrue, ScatterReadAssumption, CallsAssumption
  <2>2. CASE w = r
    BY <2>1, <2>2, <1>1, <1>b, <1>d DEF g
  <2>3. CASE w # r
    BY <2>1, <2>3, <1>1, <1>b, <1>d
  <2> QED BY <2>2, <2>3
<1>15. EndIsTrue'
  <2>1. ASSUME NEW w \in Callers
        PROVE  /\ outcome'[w] = "ok" => Got(w)' = Total(want[w])
               /\ outcome'[w] = "end" => Got(w)' < Total(want[w]) /\ ReadPlace(w)' >= size
    <3>1. CASE w = r
      BY <3>1, <1>1, <1>4, <1>b, <1>c DEF T
    <3>2. CASE w # r
      <4>1. outcome[w] = "end" => Got(w) < Total(want[w]) /\ ReadPlace(w) >= size
        BY <1>a DEF EndIsTrue
      <4>2. outcome[w] = "end" => ReadPlace(w)' >= size
        BY <4>1, <1>4, <1>b
      <4> QED BY <4>2, <3>2, <1>1, <1>a DEF EndIsTrue
    <3> QED BY <3>1, <3>2
  <2> QED BY <2>1, <1>c DEF EndIsTrue
<1>16. MutexHeld'
  <2>1. mutexed => keeper = r /\ s \in {"gather", "tail", "unlock"}
    BY <1>a, <1>c DEF MutexHeld
  <2> QED BY <1>a, <1>c DEF MutexHeld
<1>17. ~byOffset => GivenOnce'
  <2> SUFFICES ASSUME ~byOffset PROVE GivenOnce'
    OBVIOUS
  <2>1. GivenOnce /\ pl = front /\ front' = front + k
    BY <1>d DEF Inv, ReadPlace, pl
  <2>2. Taken(r)' = Taken(r) \cup (front + 1)..(front + k)
    <3>1. ASSUME NEW j \in 1..(g + k)
          PROVE  dest'[r][j] \in Taken(r) \cup (front + 1)..(front + k)
      <4>0. j \in 1..T
        BY <1>b
      <4>1. CASE j <= g
        <5>1. j \in Filled(r)
          BY <4>1, <1>a, <1>b DEF FillsInOrder, g
        <5> QED BY <4>0, <4>1, <5>1, <1>6 DEF Taken
      <4>2. CASE j > g
        BY <4>0, <4>2, <2>1, <1>6, <1>b
      <4> QED BY <4>1, <4>2, <1>b
    <3>2. ASSUME NEW v \in Taken(r) PROVE v \in Taken(r)'
      <4>1. PICK j \in Filled(r) : v = dest[r][j]
        BY DEF Taken
      <4>2. j \in 1..T /\ j <= g
        BY <4>1, <1>a, <1>b DEF FillsInOrder, g
      <4>3. dest'[r][j] = v /\ j \in Filled(r)'
        BY <4>1, <4>2, <1>6, <1>8, <1>b
      <4> QED BY <4>3 DEF Taken
    <3>3. ASSUME NEW v \in (front + 1)..(front + k) PROVE v \in Taken(r)'
      <4> DEFINE j == g + (v - front)
      <4>1. j \in 1..T /\ j > g /\ j <= g + k /\ pl + (j - g) = v
        <5>1. g \in Nat /\ pl \in Nat /\ T \in Nat /\ front \in Nat /\ g + k <= T /\ pl = front
          BY <1>b, <2>1
        <5>2. v \in Int /\ v > front /\ v <= front + k
          BY <5>1
        <5> QED BY <5>1
      <4>2. dest'[r][j] = v /\ j \in Filled(r)'
        BY <4>1, <1>6, <1>8
      <4> QED BY <4>2 DEF Taken
    <3> QED BY <3>1, <3>2, <3>3, <1>8 DEF Taken
  <2>3. 1..(front + k) = 1..front \cup (front + 1)..(front + k)
    BY <1>b
  <2>4. UNION {Taken(w)' : w \in Callers} = 1..(front + k)
    BY <2>1, <2>2, <2>3, <1>9 DEF GivenOnce
  <2>5. ASSUME NEW w \in Callers \ {r} PROVE Taken(w)' \cap Taken(r)' = {}
    <3>1. Taken(w) \subseteq 1..front
      BY <2>1 DEF GivenOnce
    <3>2. 1..front \cap (front + 1)..(front + k) = {}
      BY <1>b
    <3>3. Taken(w) \cap Taken(r) = {}
      BY <2>1 DEF GivenOnce
    <3> QED BY <3>1, <3>2, <3>3, <2>2, <1>9
  <2>6. \A v, w \in Callers : v # w => Taken(v)' \cap Taken(w)' = {}
    BY <2>5, <2>1, <1>9 DEF GivenOnce
  <2> QED BY <2>1, <2>4, <2>6 DEF GivenOnce
<1>18. mutexed /\ ~byOffset => OnePiece' /\ EndsAtCursor'
  <2> SUFFICES ASSUME mutexed, ~byOffset PROVE OnePiece' /\ EndsAtCursor'
    OBVIOUS
  <2>1. OnePiece /\ EndsAtCursor /\ pl = front /\ front' = front + k
    BY <1>d DEF Inv, ReadPlace, pl
  <2>2. g > 0 => dest[r][g] = front
    BY <2>1 DEF EndsAtCursor, g
  <2>3. ASSUME NEW j \in 1..(g + k), j > 1 PROVE dest'[r][j] = dest'[r][j - 1] + 1
    <3>0. j \in 1..T /\ j - 1 \in 1..T
      BY <2>3, <1>b
    <3>1. CASE j <= g
      <4>1. j \in Filled(r)
        BY <3>1, <1>a, <1>b DEF FillsInOrder, g
      <4>2. dest[r][j] = dest[r][j - 1] + 1
        BY <4>1, <2>1, <2>3 DEF OnePiece
      <4>3. j - 1 <= g
        BY <3>1, <1>b
      <4> QED BY <3>0, <3>1, <4>2, <4>3, <1>6
    <3>2. CASE j = g + 1
      <4>1. j - 1 = g /\ g > 0 /\ j > g
        BY <2>3, <3>2, <1>b
      <4>2. dest'[r][j - 1] = front
        BY <4>1, <2>2, <3>0, <1>6
      <4>3. dest'[r][j] = front + (j - g)
        BY <4>1, <3>0, <1>6, <2>1
      <4> QED BY <4>2, <4>3, <3>2, <1>b
    <3>3. CASE j > g + 1
      <4>1. j - 1 > g /\ j - 1 <= g + k /\ j > g /\ j <= g + k
        BY <3>3, <1>b
      <4>2. dest'[r][j] = pl + (j - g) /\ dest'[r][j - 1] = pl + ((j - 1) - g)
        BY <4>1, <3>0, <1>6
      <4> QED BY <4>2, <1>b
    <3> QED BY <3>1, <3>2, <3>3, <1>b
  <2>4. OnePiece'
    <3>1. ASSUME NEW w \in Callers, NEW j \in Filled(w)', j > 1 PROVE dest'[w][j] = dest'[w][j - 1] + 1
      <4>1. CASE w = r
        BY <3>1, <4>1, <2>3, <1>8
      <4>2. CASE w # r
        BY <3>1, <4>2, <2>1, <1>1, <1>9 DEF OnePiece
      <4> QED BY <4>1, <4>2
    <3> QED BY <3>1 DEF OnePiece
  <2>5. g + k > 0 => dest'[r][g + k] = front'
    <3>1. CASE k > 0
      <4>1. g + k \in 1..T /\ g + k > g
        BY <3>1, <1>b
      <4> QED BY <4>1, <1>6, <2>1, <1>b
    <3>2. CASE k = 0 /\ g > 0
      <4>1. g \in 1..T /\ g + k = g /\ g <= g
        BY <3>2, <1>b
      <4>2. dest'[r][g] = dest[r][g]
        BY <4>1, <1>6
      <4>3. dest[r][g] = front
        BY <2>2, <3>2
      <4>4. front' = front
        <5>1. \A x \in Nat : x + 0 = x
          OBVIOUS
        <5> QED BY <2>1, <3>2, <5>1, <1>b
      <4> QED BY <4>1, <4>2, <4>3, <4>4
    <3> QED BY <3>1, <3>2, <1>b
  <2>6. \A w \in Callers \ {r} : phase[w] \notin {"gather", "tail"}
    BY <1>a DEF MutexHeld
  <2> QED BY <2>4, <2>5, <2>6, <1>1 DEF EndsAtCursor
<1>19. byOffset => FromItsOffset'
  <2> SUFFICES ASSUME byOffset PROVE FromItsOffset'
    OBVIOUS
  <2>1. FromItsOffset /\ pl = Origin[r] + g /\ front' = front /\ Origin[r] \in Nat
    BY <1>d DEF Inv, ReadPlace, OffIsTrue, pl, g, ScatterReadAssumption, CallsAssumption
  <2>2. ASSUME NEW j \in 1..(g + k) PROVE dest'[r][j] = Origin[r] + j
    <3>0. j \in 1..T
      BY <1>b
    <3>1. CASE j <= g
      <4>1. j \in Filled(r)
        BY <3>1, <1>a, <1>b DEF FillsInOrder, g
      <4> QED BY <3>0, <3>1, <4>1, <1>6, <2>1 DEF FromItsOffset
    <3>2. CASE j > g
      BY <3>0, <3>2, <1>6, <2>1, <1>b
    <3> QED BY <3>1, <3>2, <1>b
  <2>3. ASSUME NEW w \in Callers, NEW j \in Filled(w)' PROVE dest'[w][j] = Origin[w] + j
    <3>1. CASE w = r
      BY <3>1, <2>2, <1>8
    <3>2. CASE w # r
      BY <3>2, <2>1, <1>1, <1>9 DEF FromItsOffset
    <3> QED BY <3>1, <3>2
  <2> QED BY <2>1, <2>3 DEF FromItsOffset
<1>20. byOffset' = byOffset /\ mutexed' = mutexed
  BY <1>c
<1> QED BY <1>10, <1>11, <1>12, <1>13, <1>14, <1>15, <1>16, <1>17, <1>18, <1>19, <1>20 DEF Inv

\* Steps that read nothing.
LEMMA OthersKeep ==
  ASSUME ScatterReadAssumption, Inv, NEW r \in Callers, BeginRead(r) \/ ThrowRead(r) \/ UnlockRead(r)
  PROVE  Inv'
<1>a. /\ ReadTypeOK /\ Functions /\ FillsInOrder /\ BehindPlace /\ OffIsTrue /\ EndIsTrue /\ MutexHeld
      /\ \A w \in Callers : Where(w)
  BY DEF Inv
<1>1. /\ UNCHANGED <<size, byOffset, mutexed, want, nth, partly, reach, dest, front>>
      /\ \E s \in {"gather", "unlock", "out"} : phase' = [phase EXCEPT ![r] = s]
      /\ outcome' = outcome \/ outcome' = [outcome EXCEPT ![r] = "error"]
      /\ keeper' \in {keeper, r, NoCaller} /\ failures' \in {failures, failures + 1}
  BY DEF BeginRead, ThrowRead, UnlockRead, LeaveRead
<1>2. /\ UNCHANGED <<FillsInOrder, BehindPlace, OffIsTrue, GivenOnce, OnePiece, FromItsOffset, Functions>>
      /\ \A w \in Callers : Got(w)' = Got(w) /\ ReadPlace(w)' = ReadPlace(w)
  BY <1>1 DEF FillsInOrder, BehindPlace, OffIsTrue, GivenOnce, OnePiece, FromItsOffset, Functions,
     Filled, Taken, Got, ReadPlace
<1>3. ReadTypeOK'
  <2>1. failures' \in Nat
    BY <1>1, <1>a DEF ReadTypeOK
  <2>2. /\ phase' \in [Callers -> {"ready", "gather", "tail", "unlock", "out"}]
        /\ \A w \in Callers : phase'[w] = "tail" => phase[w] = "tail"
    BY <1>1, <1>a DEF ReadTypeOK
  <2>3. outcome' \in [Callers -> {"none", "ok", "end", "error"}]
    BY <1>1, <1>a DEF ReadTypeOK
  <2>4. keeper' \in Callers \cup {NoCaller}
    BY <1>1, <1>a DEF ReadTypeOK
  <2>5. \A w \in Callers :
          /\ nth'[w] \in 1..Len(want'[w]) /\ partly'[w] \in Nat
          /\ phase'[w] = "tail" => nth'[w] <= Count(want'[w]) /\ partly'[w] > 0
          /\ dest'[w] \in [1..Total(want'[w]) -> 0..size']
    BY <1>1, <1>a, <2>2 DEF ReadTypeOK
  <2>6. /\ size' \in Sizes /\ byOffset' \in BOOLEAN /\ mutexed' \in BOOLEAN
        /\ want' \in [Callers -> Lists] /\ reach' \in [Callers -> Nat] /\ front' \in 0..size'
    BY <1>1, <1>a DEF ReadTypeOK
  <2> QED BY <2>1, <2>2, <2>3, <2>4, <2>5, <2>6 DEF ReadTypeOK
<1>4. \A w \in Callers : Where(w)'
  <2>1. ASSUME NEW w \in Callers \ {r} PROVE Where(w)'
    <3>1. phase'[w] = phase[w] /\ outcome'[w] = outcome[w]
      BY <1>1, <1>a DEF ReadTypeOK
    <3> QED BY <3>1, <1>1, <1>2, <1>a DEF Where
  <2>2. Where(r)'
    <3>1. /\ BeginRead(r) => phase[r] = "ready" /\ phase'[r] = "gather" /\ outcome'[r] = outcome[r]
          /\ ThrowRead(r) => phase[r] \in {"gather", "tail"} /\ phase'[r] = "unlock" /\ outcome'[r] = "error"
          /\ UnlockRead(r) => phase[r] = "unlock" /\ phase'[r] = "out" /\ outcome'[r] = outcome[r]
      BY <1>a DEF BeginRead, ThrowRead, UnlockRead, LeaveRead, ReadTypeOK
    <3>2. Where(r)
      BY <1>a
    <3> QED BY <3>1, <3>2, <1>1, <1>2 DEF Where
  <2> QED BY <2>1, <2>2
<1>5. EndIsTrue'
  BY <1>1, <1>2, <1>a DEF EndIsTrue, ReadTypeOK
<1>6. MutexHeld'
  <2> SUFFICES ASSUME mutexed, NEW w \in Callers
               PROVE  keeper' = w <=> phase'[w] \in {"gather", "tail", "unlock"}
    BY <1>1 DEF MutexHeld
  <2>0. /\ keeper = w <=> phase[w] \in {"gather", "tail", "unlock"}
        /\ keeper = r <=> phase[r] \in {"gather", "tail", "unlock"}
        /\ NoCaller \notin Callers
    BY <1>a DEF MutexHeld, ScatterReadAssumption, CallsAssumption
  <2>1. CASE BeginRead(r)
    BY <2>0, <2>1, <1>a DEF ReadTypeOK, BeginRead
  <2>2. CASE ThrowRead(r)
    BY <2>0, <2>2, <1>a DEF ReadTypeOK, ThrowRead, LeaveRead
  <2>3. CASE UnlockRead(r)
    BY <2>0, <2>3, <1>a DEF ReadTypeOK, UnlockRead
  <2> QED BY <2>1, <2>2, <2>3
<1>7. mutexed /\ ~byOffset => EndsAtCursor'
  <2> SUFFICES ASSUME mutexed, ~byOffset, NEW w \in Callers,
                      phase'[w] \in {"gather", "tail"}, Got(w)' > 0
               PROVE  dest'[w][Got(w)'] = front'
    BY DEF EndsAtCursor
  <2>1. phase[w] \in {"gather", "tail"} => dest[w][Got(w)] = front
    BY <1>2 DEF Inv, EndsAtCursor
  <2>2. CASE phase[w] \in {"gather", "tail"}
    BY <2>1, <2>2, <1>1, <1>2
  <2>3. CASE phase[w] \notin {"gather", "tail"}
    <3>1. w = r /\ phase[r] = "ready"
      BY <2>3, <1>a DEF ReadTypeOK, BeginRead, ThrowRead, UnlockRead, LeaveRead
    <3>2. Got(w) = 0
      <4>1. IsList(want[r])
        BY Basics
      <4> QED BY <3>1, <4>1, <1>a DEF Where, Got, IsList
    <3> QED BY <3>2, <1>2
  <2> QED BY <2>2, <2>3
<1>8. /\ ~byOffset => GivenOnce'
      /\ mutexed /\ ~byOffset => OnePiece'
      /\ byOffset => FromItsOffset'
  BY <1>2 DEF Inv
<1>9. byOffset' = byOffset /\ mutexed' = mutexed
  BY <1>1
<1> QED BY <1>2, <1>3, <1>4, <1>5, <1>6, <1>7, <1>8, <1>9, <1>a DEF Inv

LEMMA InitInv == ASSUME ScatterReadAssumption, ReadInit PROVE Inv
<1>1. \A r \in Callers :
        /\ IsList(want[r]) /\ Len(want[r]) \in Nat /\ Len(want[r]) >= 2 /\ want[r][1] = 0
        /\ Total(want[r]) \in Nat
        /\ nth[r] = 1 /\ partly[r] = 0 /\ phase[r] = "ready" /\ outcome[r] = "none" /\ Got(r) = 0
        /\ DOMAIN dest[r] = 1..Total(want[r]) /\ \A j \in 1..Total(want[r]) : dest[r][j] = 0
        /\ dest[r] \in [1..Total(want[r]) -> {0}]
        /\ reach[r] \in Nat /\ ReadPlace(r) \in Nat
  <2> SUFFICES ASSUME NEW r \in Callers
               PROVE  /\ IsList(want[r]) /\ Len(want[r]) \in Nat /\ Len(want[r]) >= 2 /\ want[r][1] = 0
                      /\ Total(want[r]) \in Nat
                      /\ nth[r] = 1 /\ partly[r] = 0 /\ phase[r] = "ready" /\ outcome[r] = "none" /\ Got(r) = 0
                      /\ DOMAIN dest[r] = 1..Total(want[r]) /\ \A j \in 1..Total(want[r]) : dest[r][j] = 0
                      /\ dest[r] \in [1..Total(want[r]) -> {0}]
                      /\ reach[r] \in Nat /\ ReadPlace(r) \in Nat
    OBVIOUS
  <2>1. IsList(want[r])
    BY DEF ScatterReadAssumption, CallsAssumption, ReadInit
  <2>2. Len(want[r]) \in Nat /\ Len(want[r]) >= 2 /\ want[r][1] = 0 /\ want[r][Len(want[r])] \in Nat
    BY <2>1 DEF IsList
  <2>3. /\ nth[r] = 1 /\ partly[r] = 0 /\ phase[r] = "ready" /\ outcome[r] = "none"
        /\ dest[r] = [j \in 1..Total(want[r]) |-> 0] /\ reach[r] \in Nat /\ front = 0
    BY DEF ReadInit, ScatterReadAssumption, CallsAssumption
  <2> QED BY <2>1, <2>2, <2>3 DEF Total, Got, ReadPlace
<1>2. size \in Nat /\ 0 \in 0..size
  BY DEF ScatterReadAssumption, CallsAssumption, ReadInit
<1>3. ReadTypeOK
  <2>1. \A r \in Callers : dest[r] \in [1..Total(want[r]) -> 0..size]
    BY <1>1, <1>2
  <2> QED BY <1>1 DEF ReadInit, ReadTypeOK, ScatterReadAssumption, CallsAssumption
<1>4. Functions /\ \A r \in Callers : Where(r)
  BY <1>1 DEF ReadInit, Functions, Where
<1>5. \A r \in Callers : Filled(r) = {} /\ Taken(r) = {}
  <2> SUFFICES ASSUME NEW r \in Callers PROVE Filled(r) = {} /\ Taken(r) = {}
    OBVIOUS
  <2>1. Filled(r) = {}
    BY <1>1 DEF Filled
  <2> QED BY <2>1 DEF Taken
<1>6. FillsInOrder /\ OnePiece
  <2>1. 1..0 = {}
    OBVIOUS
  <2> QED BY <2>1, <1>1, <1>5 DEF FillsInOrder, OnePiece
<1>7. BehindPlace
  BY <1>1 DEF BehindPlace
<1>8. OffIsTrue
  <2> SUFFICES ASSUME NEW r \in Callers PROVE reach[r] = Origin[r] + Got(r)
    BY DEF OffIsTrue
  <2>1. reach[r] = Origin[r]
    BY DEF ReadInit
  <2>2. Origin[r] \in Nat
    BY DEF ScatterReadAssumption, CallsAssumption
  <2>3. Got(r) = 0
    BY <1>1
  <2>4. Origin[r] + 0 = Origin[r]
    BY <2>2
  <2> QED BY <2>1, <2>3, <2>4
<1>9. EndIsTrue /\ EndsAtCursor
  BY <1>1 DEF EndIsTrue, EndsAtCursor
<1>10. MutexHeld
  BY DEF MutexHeld, ReadInit, ScatterReadAssumption, CallsAssumption
<1>11. GivenOnce /\ FromItsOffset
  <2>1. front = 0 /\ 1..0 = {}
    BY DEF ReadInit
  <2> QED BY <2>1, <1>5 DEF GivenOnce, FromItsOffset
<1> QED BY <1>3, <1>4, <1>6, <1>7, <1>8, <1>9, <1>10, <1>11 DEF Inv

LEMMA InvNext == ASSUME ScatterReadAssumption, Inv, [ReadNext]_readVars PROVE Inv'
<1>1. ASSUME NEW r \in Callers, GatherRead(r) PROVE Inv'
  <2>1. phase[r] = "gather"
    BY <1>1 DEF GatherRead
  <2> QED BY <1>1, <2>1, GatherGoes, GoesKeeps
<1>2. ASSUME NEW r \in Callers, FinishRead(r) PROVE Inv'
  <2>1. phase[r] = "tail"
    BY <1>2 DEF FinishRead
  <2> QED BY <1>2, <2>1, FinishGoes, GoesKeeps
<1>3. ASSUME UNCHANGED readVars PROVE Inv'
  <2>1. UNCHANGED <<size, byOffset, mutexed, want, nth, partly, reach, phase, outcome, dest, front, keeper, failures>>
    BY <1>3 DEF readVars
  <2>2. /\ ReadTypeOK => ReadTypeOK'
        /\ Functions => Functions'
        /\ (\A r \in Callers : Where(r)) => \A r \in Callers : Where(r)'
        /\ MutexHeld => MutexHeld'
    BY <2>1 DEF ReadTypeOK, Functions, Where, Got, MutexHeld
  <2>3. UNCHANGED <<FillsInOrder, BehindPlace, OffIsTrue, EndIsTrue>>
    BY <2>1 DEF FillsInOrder, BehindPlace, OffIsTrue, EndIsTrue, Filled, Got, ReadPlace
  <2>4. UNCHANGED <<GivenOnce, OnePiece, EndsAtCursor, FromItsOffset>>
    BY <2>1 DEF GivenOnce, OnePiece, EndsAtCursor, FromItsOffset, Filled, Taken, Got
  <2>5. byOffset' = byOffset /\ mutexed' = mutexed
    BY <2>1
  <2> QED BY <2>2, <2>3, <2>4, <2>5 DEF Inv
<1> QED BY <1>1, <1>2, <1>3, OthersKeep DEF ReadNext, CallRead

(***************************************************************************)
(* However the kernel cuts the reads, a call with several descriptors      *)
(* fills them in order with bytes no other call gets; under the mutex with *)
(* one piece of the file, with an offset with what is there; and what it   *)
(* returns is true.                                                        *)
(***************************************************************************)
THEOREM ReadsAreInOrder == ASSUME ScatterReadAssumption PROVE ReadSpec => []ReadsInOrder
<1>1. ReadInit => Inv
  BY InitInv
<1>2. Inv /\ [ReadNext]_readVars => Inv'
  BY InvNext
<1>3. Inv => ReadsInOrder
  BY DEF Inv, ReadsInOrder
<1> QED BY <1>1, <1>2, <1>3, PTL DEF ReadSpec

-----------------------------------------------------------------------------
(***************************************************************************)
(* scatter_write_all and scatter_pwrite_all: the same for ScatterWrite.    *)
(***************************************************************************)
WFunctions == at \in [Callers -> Nat] /\ tail \in [Callers -> Nat]

WWhere(w) ==
  /\ tail[w] > 0 => at[w] < Len(edge[w]) /\ Sent(w) < edge[w][at[w] + 1]
  /\ st[w] = "tail" => tail[w] > 0
  /\ st[w] \in {"ready", "gather"} => tail[w] = 0 /\ at[w] < Len(edge[w])
  /\ st[w] = "ready" => at[w] = 1
  /\ res[w] = "none" <=> st[w] \in {"ready", "gather", "tail"}

WMutexHeld ==
  locked => \A w \in Callers : holder = w <=> st[w] \in {"gather", "tail", "unlock"}

\* The file is written up to the position and not beyond it.
UpToCursor ==
  \A x \in DOMAIN file : IF x < cursor THEN file[x][1] \in Callers ELSE file[x] = Hole

\* What a call under the mutex has written goes on up to the position.
GoesOn ==
  \A w \in Callers : st[w] \in {"gather", "tail"} =>
    \A x \in Places(w) : \A y \in x..(cursor - 1) : y \in Places(w)

OffFollows ==
  \A w \in Callers :
    /\ offset[w] = Origin[w] + Sent(w)
    /\ Sent(w) > 0 => Origin[w] + Sent(w) <= FileSize

WInv ==
  /\ WriteTypeOK /\ WFunctions /\ \A w \in Callers : WWhere(w)
  /\ OkIsComplete /\ WMutexHeld
  /\ ~positional => OnceInOrder /\ UpToCursor
  /\ locked /\ ~positional => Contiguous /\ GoesOn
  /\ positional => OffFollows
  /\ positional /\ Apart => AtItsOffset

LEMMA WBasics ==
  ASSUME ScatterAssumption, WInv, NEW w \in Callers
  PROVE  /\ IsList(edge[w]) /\ Len(edge[w]) \in Nat /\ Len(edge[w]) >= 2
         /\ at[w] \in 1..Len(edge[w]) /\ tail[w] \in Nat
         /\ \A n \in 1..Len(edge[w]) : edge[w][n] \in Nat /\ edge[w][n] <= Total(edge[w])
         /\ Total(edge[w]) \in Nat /\ Sent(w) \in Nat /\ WritePlace(w) \in Nat
         /\ Sent(w) <= Total(edge[w]) /\ Total(edge[w]) = Total(edge[w])
<1>1. WriteTypeOK /\ WFunctions /\ WWhere(w)
  BY DEF WInv
<1>2. IsList(edge[w])
  BY <1>1 DEF ScatterAssumption, CallsAssumption, WriteTypeOK
<1>3. /\ Len(edge[w]) \in Nat /\ Len(edge[w]) >= 2
      /\ at[w] \in 1..Len(edge[w]) /\ tail[w] \in Nat
  BY <1>1, <1>2 DEF WriteTypeOK, IsList
<1>4. Len(edge[w]) \in 1..Len(edge[w])
  BY <1>3
<1>5. \A n \in 1..Len(edge[w]) : edge[w][n] \in Nat /\ edge[w][n] <= Total(edge[w])
  BY <1>2, EdgesGrow DEF Total
<1>6. Total(edge[w]) \in Nat
  BY <1>4, <1>5 DEF Total
<1>7. Sent(w) \in Nat
  BY <1>3, <1>5 DEF Sent
<1>8. Sent(w) <= Total(edge[w])
  <2>1. CASE tail[w] = 0
    BY <2>1, <1>3, <1>5 DEF Sent
  <2>2. CASE tail[w] > 0
    <3>1. at[w] + 1 \in 1..Len(edge[w]) /\ Sent(w) < edge[w][at[w] + 1]
      BY <2>2, <1>1, <1>3 DEF WWhere
    <3> QED BY <3>1, <1>5, <1>6, <1>7
  <2> QED BY <2>1, <2>2, <1>3
<1>9. WritePlace(w) \in Nat
  BY <1>1 DEF WritePlace, WriteTypeOK
<1> QED BY <1>2, <1>3, <1>5, <1>6, <1>7, <1>8, <1>9

WGoes(w, k, p, q, s, how) ==
  /\ Takes(w, k) /\ UNCHANGED <<positional, locked, edge, holder, errs>>
  /\ at' = [at EXCEPT ![w] = p] /\ tail' = [tail EXCEPT ![w] = q]
  /\ st' = [st EXCEPT ![w] = s] /\ res' = [res EXCEPT ![w] = how]
  /\ p \in 1..Len(edge[w]) /\ q \in Nat
  /\ edge[w][p] + q = Sent(w) + k /\ Sent(w) + k <= Total(edge[w])
  /\ q > 0 => p < Len(edge[w]) /\ edge[w][p] + q < edge[w][p + 1]
  /\ \/ s = "unlock" /\ how = "ok" /\ Sent(w) + k = Total(edge[w])
     \/ s = "tail" /\ how = "none" /\ q > 0
     \/ s = "gather" /\ how = "none" /\ q = 0 /\ p < Len(edge[w])

LEMMA WGatherGoes ==
  ASSUME ScatterAssumption, WInv, NEW w \in Callers, GatherWrite(w)
  PROVE  \E k, q \in Nat : \E p, s, how : WGoes(w, k, p, q, s, how)
<1> DEFINE e == edge[w]
           i == at[w]
           last == Offered(e, i, MaxCount)
<1>1. /\ IsList(e) /\ Len(e) \in Nat /\ i \in 1..Len(e) /\ tail[w] = 0 /\ i < Len(e)
      /\ \A n \in 1..Len(e) : e[n] \in Nat /\ e[n] <= Total(e)
      /\ Total(e) \in Nat /\ Sent(w) = e[i]
      /\ res[w] = "none"
  <2>1. st[w] = "gather" /\ WWhere(w)
    BY DEF GatherWrite, WInv
  <2>2. tail[w] = 0 /\ i < Len(e) /\ res[w] = "none"
    BY <2>1 DEF WWhere
  <2>3. /\ IsList(e) /\ Len(e) \in Nat /\ i \in 1..Len(e) /\ Total(e) \in Nat
        /\ \A n \in 1..Len(e) : e[n] \in Nat /\ e[n] <= Total(e)
    BY WBasics
  <2>4. Sent(w) = e[i]
    <3>1. Sent(w) = e[i] + 0
      BY <2>2 DEF Sent
    <3>2. e[i] \in Nat
      BY <2>3
    <3> QED BY <3>1, <3>2
  <2> QED BY <2>2, <2>3, <2>4
<1>2. last \in (i + 1)..Len(e) /\ last \in 1..Len(e)
  <2>1. MaxCount \in Nat \ {0}
    BY DEF ScatterAssumption, CallsAssumption
  <2>2. last \in (i + 1)..Len(e)
    BY <1>1, <2>1, OfferedIs
  <2> QED BY <1>1, <2>2
<1>3. PICK k \in Accepts(e[last] - e[i]) :
        LET stop == Position(e, i, last, k)
        IN  Takes(w, k) /\ AdvanceWrite(w, stop, k - (e[stop] - e[i]))
  BY DEF GatherWrite
<1> HIDE DEF last
<1>4. k \in 0..(e[last] - e[i]) /\ k \in Nat
  <2>1. e[last] \in Nat /\ e[i] \in Nat /\ e[i] <= e[last]
    BY <1>1, <1>2, EdgesGrow
  <2>2. e[last] - e[i] \in Nat
    BY <2>1
  <2> QED BY DEF Accepts
<1> DEFINE p == Position(e, i, last, k)
           q == k - (e[p] - e[i])
<1>5. /\ p \in i..last /\ p \in 1..Len(e)
      /\ e[p] - e[i] <= k
      /\ p < last => k < e[p + 1] - e[i]
      /\ p = last => k = e[last] - e[i]
  BY <1>1, <1>2, <1>4, PositionIs
<1>6. Takes(w, k) /\ AdvanceWrite(w, p, q) /\ UNCHANGED <<positional, locked, edge, holder, errs>>
  BY <1>3 DEF GatherWrite
<1> HIDE DEF p
<1>7. /\ e[p] \in Nat /\ e[i] \in Nat /\ e[last] \in Nat /\ p \in Nat /\ last \in Nat
      /\ e[last] <= Total(e) /\ Total(e) \in Nat /\ Len(e) \in Nat
      /\ Sent(w) = e[i] /\ k \in Nat /\ e[p] - e[i] <= k /\ k <= e[last] - e[i]
      /\ p <= last /\ last <= Len(e)
  BY <1>1, <1>2, <1>4, <1>5
<1>8. q \in Nat /\ e[p] + q = Sent(w) + k
  <2>1. \A x, y, z \in Nat : y - x <= z => z - (y - x) \in Nat /\ y + (z - (y - x)) = x + z
    OBVIOUS
  <2>2. /\ e[p] \in Nat /\ e[i] \in Nat /\ k \in Nat /\ e[p] - e[i] <= k
        /\ Sent(w) = e[i]
    BY <1>7
  <2>3. k - (e[p] - e[i]) \in Nat /\ e[p] + (k - (e[p] - e[i])) = e[i] + k
    BY <2>2
  <2> QED BY <2>2
<1>9. q > 0 => p < Len(e) /\ e[p] + q < e[p + 1]
  <2> SUFFICES ASSUME q > 0 PROVE p < Len(e) /\ e[p] + q < e[p + 1]
    OBVIOUS
  <2>1. p < last
    BY <1>7
  <2>2. p + 1 \in 1..Len(e)
    BY <1>7
  <2>3. e[p + 1] \in Nat
    BY <2>2, <1>1
  <2>4. k < e[p + 1] - e[i]
    BY <2>1, <1>5
  <2>5. \A x, y, z, v \in Nat : z < v - x => y + (z - (y - x)) < v
    OBVIOUS
  <2>6. p < Len(e)
    BY <2>1, <1>7
  <2>7. e[p] \in Nat /\ e[i] \in Nat /\ k \in Nat
    BY <1>7
  <2>8. e[p] + (k - (e[p] - e[i])) < e[p + 1]
    BY <2>3, <2>4, <2>5, <2>7
  <2> QED BY <2>6, <2>8
<1>10. Sent(w) + k <= Total(e)
  <2>1. \A x, y, z, t \in Nat : z <= y - x /\ y <= t => x + z <= t
    OBVIOUS
  <2>2. e[i] + k <= Total(e)
    BY <2>1, <1>7
  <2> QED BY <2>2, <1>7
<1>11. p = Len(e) => q = 0 /\ Sent(w) + k = Total(e)
  BY <1>1, <1>8, <1>9 DEF Total
<1> HIDE DEF q
<1>12. CASE p = Len(e)
  <2>1. WGoes(w, k, p, q, "unlock", "ok")
    BY <1>12, <1>5, <1>6, <1>8, <1>10, <1>11 DEF WGoes, AdvanceWrite, LeaveWrite
  <2> QED BY <1>4, <1>8, <2>1
<1>13. CASE p # Len(e)
  <2>1. /\ st' = [st EXCEPT ![w] = IF q > 0 THEN "tail" ELSE "gather"] /\ res' = res
        /\ at' = [at EXCEPT ![w] = p] /\ tail' = [tail EXCEPT ![w] = q]
    BY <1>6, <1>13 DEF AdvanceWrite
  <2>2. res = [res EXCEPT ![w] = "none"]
    BY <1>1 DEF WInv, WriteTypeOK
  <2>3. p < Len(e)
    BY <1>13, <1>7
  <2>4. CASE q > 0
    <3>1. WGoes(w, k, p, q, "tail", "none")
      BY <2>1, <2>2, <2>4, <1>5, <1>6, <1>8, <1>9, <1>10 DEF WGoes
    <3> QED BY <1>4, <1>8, <3>1
  <2>5. CASE ~(q > 0)
    <3>1. q = 0
      BY <2>5, <1>8
    <3>2. WGoes(w, k, p, q, "gather", "none")
      BY <2>1, <2>2, <2>3, <2>5, <1>5, <1>6, <1>8, <1>10 DEF WGoes
    <3> QED BY <1>4, <1>8, <3>2
  <2> QED BY <2>4, <2>5
<1> QED BY <1>12, <1>13

LEMMA WFinishGoes ==
  ASSUME ScatterAssumption, WInv, NEW w \in Callers, FinishWrite(w)
  PROVE  \E k, q \in Nat : \E p, s, how : WGoes(w, k, p, q, s, how)
<1> DEFINE e == edge[w]
           i == at[w]
           rest == e[i + 1] - e[i] - tail[w]
<1>1. /\ IsList(e) /\ Len(e) \in Nat /\ i \in 1..Len(e) /\ tail[w] \in Nat /\ tail[w] > 0
      /\ i < Len(e) /\ Sent(w) < e[i + 1] /\ Sent(w) = e[i] + tail[w]
      /\ \A n \in 1..Len(e) : e[n] \in Nat /\ e[n] <= Total(e)
      /\ Total(e) \in Nat /\ Sent(w) \in Nat
      /\ res[w] = "none" /\ st[w] = "tail"
  BY WBasics DEF FinishWrite, WInv, WWhere, Sent
<1>2. i + 1 \in 1..Len(e) /\ e[i + 1] \in Nat /\ e[i + 1] <= Total(e) /\ e[i] \in Nat /\ i + 1 # i
  <2>1. \A n \in Nat : \A x \in 1..n : x < n => x + 1 \in 1..n /\ x + 1 # x
    OBVIOUS
  <2>2. i + 1 \in 1..Len(e) /\ i + 1 # i
    BY <2>1, <1>1
  <2>3. \A n \in 1..Len(e) : e[n] \in Nat /\ e[n] <= Total(e)
    BY <1>1
  <2> QED BY <2>2, <2>3, <1>1
<1>3. rest \in Nat /\ rest > 0 /\ Sent(w) + rest = e[i + 1]
  <2>1. /\ e[i + 1] \in Nat /\ e[i] \in Nat /\ tail[w] \in Nat
        /\ Sent(w) = e[i] + tail[w] /\ Sent(w) < e[i + 1]
    BY <1>1
  <2> QED BY <2>1
<1>4. PICK k \in Accepts(rest) :
        /\ Takes(w, k)
        /\ IF k < rest
           THEN tail' = [tail EXCEPT ![w] = @ + k] /\ UNCHANGED <<at, st, res>>
           ELSE AdvanceWrite(w, i + 1, 0)
  BY DEF FinishWrite
<1> HIDE DEF rest
<1>5. k \in 1..rest /\ k \in Nat
  BY <1>3 DEF Accepts
<1>6. UNCHANGED <<positional, locked, edge, holder, errs>>
  BY DEF FinishWrite
<1>7. /\ at = [at EXCEPT ![w] = i]
      /\ st = [st EXCEPT ![w] = "tail"] /\ res = [res EXCEPT ![w] = "none"]
  BY <1>1 DEF WInv, WriteTypeOK, WFunctions
<1>8. CASE k < rest
  <2>1. tail' = [tail EXCEPT ![w] = tail[w] + k] /\ UNCHANGED <<at, st, res>> /\ Takes(w, k)
    BY <1>4, <1>8
  <2>2. /\ tail[w] + k \in Nat /\ tail[w] + k > 0 /\ e[i] + (tail[w] + k) = Sent(w) + k
        /\ Sent(w) + k < e[i + 1] /\ Sent(w) + k <= Total(e)
    <3>1. /\ e[i + 1] \in Nat /\ e[i] \in Nat /\ tail[w] \in Nat /\ tail[w] > 0 /\ Sent(w) \in Nat
          /\ Sent(w) = e[i] + tail[w] /\ e[i + 1] <= Total(e) /\ Total(e) \in Nat
      BY <1>1, <1>2
    <3> QED BY <3>1, <1>3, <1>5, <1>8
  <2>3. WGoes(w, k, i, tail[w] + k, "tail", "none")
    BY <1>1, <1>6, <1>7, <2>1, <2>2 DEF WGoes
  <2> QED BY <1>5, <2>2, <2>3
<1>9. CASE ~(k < rest)
  <2>1. Takes(w, k) /\ AdvanceWrite(w, i + 1, 0)
    BY <1>4, <1>9
  <2>2. Sent(w) + k = e[i + 1] /\ e[i + 1] + 0 = e[i + 1] /\ ~(0 > 0)
    BY <1>2, <1>3, <1>5, <1>9
  <2>3. at' = [at EXCEPT ![w] = i + 1] /\ tail' = [tail EXCEPT ![w] = 0]
    BY <2>1 DEF AdvanceWrite
  <2>4. CASE i + 1 = Len(e)
    <3>1. st' = [st EXCEPT ![w] = "unlock"] /\ res' = [res EXCEPT ![w] = "ok"]
      BY <2>1, <2>4 DEF AdvanceWrite, LeaveWrite
    <3>2. Sent(w) + k = Total(e)
      BY <2>2, <2>4 DEF Total
    <3>3. WGoes(w, k, i + 1, 0, "unlock", "ok")
      BY <1>2, <1>6, <2>1, <2>2, <2>3, <3>1, <3>2 DEF WGoes
    <3> QED BY <1>5, <3>3
  <2>5. CASE i + 1 # Len(e)
    <3>1. i + 1 < Len(e)
      BY <2>5, <1>1
    <3>2. st' = [st EXCEPT ![w] = "gather"] /\ res' = [res EXCEPT ![w] = "none"]
      BY <2>1, <2>5, <1>7 DEF AdvanceWrite
    <3>3. WGoes(w, k, i + 1, 0, "gather", "none")
      BY <1>2, <1>6, <2>1, <2>2, <2>3, <3>1, <3>2 DEF WGoes
    <3> QED BY <1>5, <3>3
  <2> QED BY <2>4, <2>5
<1> QED BY <1>8, <1>9

-----------------------------------------------------------------------------
\* A write of k bytes keeps the invariant.
LEMMA WGoesKeeps ==
  ASSUME ScatterAssumption, WInv, NEW w \in Callers, st[w] \in {"gather", "tail"},
         NEW k \in Nat, NEW q \in Nat, NEW p, NEW s, NEW how, WGoes(w, k, p, q, s, how)
  PROVE  WInv'
<1> DEFINE g == Sent(w)
           pl == WritePlace(w)
           T == Total(edge[w])
<1>a. /\ WriteTypeOK /\ WFunctions /\ \A v \in Callers : WWhere(v)
      /\ OkIsComplete /\ WMutexHeld /\ NoCaller \notin Callers
  BY DEF WInv, ScatterAssumption, CallsAssumption
<1>b. /\ g \in Nat /\ pl \in Nat /\ T \in Nat /\ g + k <= T
      /\ pl + k <= FileSize /\ FileSize \in Nat
      /\ cursor \in Nat /\ DOMAIN file = 0..(FileSize - 1)
  <2>1. g \in Nat /\ pl \in Nat /\ T \in Nat
    BY WBasics
  <2>2. g + k <= T /\ pl + k <= FileSize
    BY DEF WGoes, Takes
  <2>3. cursor \in Nat /\ DOMAIN file = 0..(FileSize - 1) /\ FileSize \in Nat
    BY <1>a DEF WriteTypeOK, ScatterAssumption, CallsAssumption
  <2> QED BY <2>1, <2>2, <2>3
<1>c. /\ at' = [at EXCEPT ![w] = p] /\ tail' = [tail EXCEPT ![w] = q]
      /\ st' = [st EXCEPT ![w] = s] /\ res' = [res EXCEPT ![w] = how]
      /\ UNCHANGED <<positional, locked, edge, holder, errs>>
      /\ p \in 1..Len(edge[w]) /\ edge[w][p] + q = g + k
      /\ q > 0 => p < Len(edge[w]) /\ edge[w][p] + q < edge[w][p + 1]
      /\ \/ s = "unlock" /\ how = "ok" /\ g + k = T
         \/ s = "tail" /\ how = "none" /\ q > 0
         \/ s = "gather" /\ how = "none" /\ q = 0 /\ p < Len(edge[w])
  BY DEF WGoes
<1>d. /\ file' = [x \in DOMAIN file |->
                    IF x \in pl..(pl + k - 1) THEN <<w, g + x - pl + 1>> ELSE file[x]]
      /\ cursor' = IF positional THEN cursor ELSE cursor + k
      /\ offset' = IF positional THEN [offset EXCEPT ![w] = @ + k] ELSE offset
  BY DEF WGoes, Takes
<1> HIDE DEF g, pl, T
<1>1. /\ at'[w] = p /\ tail'[w] = q /\ st'[w] = s /\ res'[w] = how /\ edge' = edge
      /\ Sent(w)' = g + k
      /\ \A v \in Callers \ {w} :
           /\ at'[v] = at[v] /\ tail'[v] = tail[v] /\ st'[v] = st[v] /\ res'[v] = res[v]
           /\ Sent(v)' = Sent(v)
  BY <1>a, <1>c DEF WriteTypeOK, WFunctions, Sent
\* The next k places hold the next k bytes; the rest of the file is as it was.
<1>2. /\ DOMAIN file' = DOMAIN file
      /\ \A x \in DOMAIN file :
           /\ pl <= x /\ x < pl + k => file'[x] = <<w, g + (x - pl) + 1>>
           /\ x < pl \/ pl + k <= x => file'[x] = file[x]
  <2>1. ASSUME NEW x \in DOMAIN file
        PROVE  /\ pl <= x /\ x < pl + k => file'[x] = <<w, g + (x - pl) + 1>>
               /\ x < pl \/ pl + k <= x => file'[x] = file[x]
    <3>1. x \in Nat
      BY <1>b
    <3>2. x \in pl..(pl + k - 1) <=> pl <= x /\ x < pl + k
      BY <1>b
    <3>3. g + x - pl + 1 = g + (x - pl) + 1
      OBVIOUS
    <3>4. (x < pl \/ pl + k <= x) => ~(pl <= x /\ x < pl + k)
      BY <1>b
    <3> QED BY <3>2, <3>4, <1>d
  <2> QED BY <2>1, <1>d
<1>3. WriteTypeOK'
  <2>1. file' \in [0..(FileSize - 1) -> {Hole} \cup (Callers \X Nat)]
    <3>1. ASSUME NEW x \in DOMAIN file PROVE file'[x] \in {Hole} \cup (Callers \X Nat)
      <4>1. CASE pl <= x /\ x < pl + k
        <5>1. g + (x - pl) + 1 \in Nat
          BY <4>1, <1>b
        <5> QED BY <4>1, <5>1, <1>2
      <4>2. CASE x < pl \/ pl + k <= x
        BY <4>2, <1>2, <1>a DEF WriteTypeOK
      <4> QED BY <4>1, <4>2, <1>b
    <3>2. file' = [x \in 0..(FileSize - 1) |-> file'[x]]
      BY <1>d, <1>b
    <3> QED BY <3>1, <3>2, <1>b
  <2>2. offset' \in [Callers -> Nat]
    BY <1>a, <1>d DEF WriteTypeOK
  <2>3. cursor' \in Nat
    BY <1>b, <1>d
  <2>4. /\ st' \in [Callers -> {"ready", "gather", "tail", "unlock", "out"}]
        /\ res' \in [Callers -> {"none", "ok", "error"}]
    BY <1>a, <1>c DEF WriteTypeOK
  <2>5. \A v \in Callers :
          /\ at'[v] \in 1..Len(edge[v]) /\ tail'[v] \in Nat
          /\ st'[v] = "tail" => /\ at'[v] <= Count(edge[v])
                                /\ edge[v][at'[v]] + tail'[v] < edge[v][at'[v] + 1]
    <3>1. s = "tail" => p <= Count(edge[w])
      <4>1. Len(edge[w]) \in Nat
        OBVIOUS
      <4> QED BY <1>c DEF Count
    <3>2. ASSUME NEW v \in Callers \ {w}
          PROVE  /\ at'[v] \in 1..Len(edge[v]) /\ tail'[v] \in Nat
                 /\ st'[v] = "tail" => /\ at'[v] <= Count(edge[v])
                                       /\ edge[v][at'[v]] + tail'[v] < edge[v][at'[v] + 1]
      BY <1>1, <1>a DEF WriteTypeOK
    <3> QED BY <3>1, <3>2, <1>1, <1>c
  <2> QED BY <1>a, <1>c, <2>1, <2>2, <2>3, <2>5 DEF WriteTypeOK
<1>4. WFunctions' /\ \A v \in Callers : WWhere(v)'
  <2>1. WFunctions'
    <3>1. p \in Nat
      BY <1>c
    <3> QED BY <1>a, <1>c DEF WFunctions
  <2>2. WWhere(w)'
    BY <1>1, <1>c DEF WWhere
  <2>3. ASSUME NEW v \in Callers \ {w} PROVE WWhere(v)'
    BY <1>1, <1>a DEF WWhere
  <2> QED BY <2>1, <2>2, <2>3
<1>5. OkIsComplete'
  <2>1. ASSUME NEW v \in Callers, res'[v] = "ok" PROVE Sent(v)' = Total(edge[v])
    <3>1. CASE v = w
      BY <2>1, <3>1, <1>1, <1>c DEF T
    <3>2. CASE v # w
      BY <2>1, <3>2, <1>1, <1>a DEF OkIsComplete
    <3> QED BY <3>1, <3>2
  <2> QED BY <2>1, <1>c DEF OkIsComplete
<1>6. WMutexHeld'
  <2>1. locked => holder = w /\ s \in {"gather", "tail", "unlock"}
    BY <1>a, <1>c DEF WMutexHeld
  <2> QED BY <1>a, <1>c DEF WMutexHeld
<1>7. ASSUME ~positional
      PROVE  /\ OnceInOrder' /\ UpToCursor'
             /\ locked => Contiguous' /\ GoesOn'
  <2>1. OnceInOrder /\ UpToCursor /\ pl = cursor /\ cursor' = cursor + k
    BY <1>7, <1>d DEF WInv, WritePlace, pl
  <2>2. \A x \in DOMAIN file :
          /\ x \in Nat
          /\ x < cursor => file'[x] = file[x] /\ file[x][1] \in Callers
          /\ cursor <= x /\ x < cursor + k => file'[x] = <<w, g + (x - cursor) + 1>> /\ file[x] = Hole
          /\ cursor + k <= x => file'[x] = Hole /\ file[x] = Hole
    <3> SUFFICES ASSUME NEW x \in DOMAIN file
                 PROVE  /\ x \in Nat
                        /\ x < cursor => file'[x] = file[x] /\ file[x][1] \in Callers
                        /\ cursor <= x /\ x < cursor + k =>
                             file'[x] = <<w, g + (x - cursor) + 1>> /\ file[x] = Hole
                        /\ cursor + k <= x => file'[x] = Hole /\ file[x] = Hole
      OBVIOUS
    <3>1. x \in Nat
      BY <1>b
    <3>2. IF x < cursor THEN file[x][1] \in Callers ELSE file[x] = Hole
      BY <2>1 DEF UpToCursor
    <3>3. cursor + k <= x => ~(x < cursor)
      BY <1>b
    <3>4. cursor <= x => ~(x < cursor)
      BY <1>b
    <3> QED BY <3>1, <3>2, <3>3, <3>4, <2>1, <1>2
  <2>3. Places(w)' = Places(w) \cup cursor..(cursor + k - 1)
    <3>1. ASSUME NEW x \in DOMAIN file
          PROVE  file'[x][1] = w <=> file[x][1] = w \/ (cursor <= x /\ x < cursor + k)
      <4>1. CASE x < cursor
        BY <4>1, <2>2
      <4>2. CASE cursor <= x /\ x < cursor + k
        BY <4>2, <2>2
      <4>3. CASE cursor + k <= x
        <5>1. ~(x < cursor + k)
          BY <4>3, <1>b
        <5> QED BY <4>3, <2>2
      <4> QED BY <4>1, <4>2, <4>3, <1>b
    <3>2. \A x \in Int : x \in cursor..(cursor + k - 1) <=> cursor <= x /\ x < cursor + k
      BY <1>b
    <3>3. cursor..(cursor + k - 1) \subseteq DOMAIN file
      BY <2>1, <1>b
    <3>4. \A x \in DOMAIN file :
            x \in Places(w)' <=> x \in Places(w) \/ x \in cursor..(cursor + k - 1)
      BY <3>1, <1>2, <1>b DEF Places
    <3>5. Places(w) \subseteq DOMAIN file /\ Places(w)' \subseteq DOMAIN file
      BY <1>2 DEF Places
    <3> QED BY <3>3, <3>4, <3>5
  <2>4. ASSUME NEW v \in Callers \ {w}
        PROVE  Places(v)' = Places(v) /\ \A x \in Places(v) : file'[x] = file[x]
    <3>1. ASSUME NEW x \in DOMAIN file
          PROVE  /\ file'[x][1] = v <=> file[x][1] = v
                 /\ file[x][1] = v => file'[x] = file[x]
      <4>1. CASE x < cursor
        BY <4>1, <2>2
      <4>2. CASE cursor <= x /\ x < cursor + k
        BY <4>2, <2>2, <1>a DEF Hole
      <4>3. CASE cursor + k <= x
        BY <4>3, <2>2
      <4> QED BY <4>1, <4>2, <4>3, <1>b
    <3> QED BY <3>1, <1>2 DEF Places
  <2>5. \A x \in Places(w) :
          /\ x \in DOMAIN file /\ x \in Nat /\ x < cursor /\ file'[x] = file[x]
          /\ file[x] \in {w} \X (1..g)
    <3> SUFFICES ASSUME NEW x \in Places(w)
                 PROVE  /\ x \in DOMAIN file /\ x \in Nat /\ x < cursor /\ file'[x] = file[x]
                        /\ file[x] \in {w} \X (1..g)
      OBVIOUS
    <3>1. x \in DOMAIN file /\ file[x][1] = w
      BY DEF Places
    <3>2. x < cursor
      <4>1. file[x] # Hole
        BY <3>1, <1>a DEF Hole
      <4> QED BY <3>1, <4>1, <2>1 DEF UpToCursor
    <3>3. file[x] \in {w} \X (1..g)
      BY <2>1 DEF OnceInOrder, g
    <3> QED BY <3>1, <3>2, <3>3, <2>2
  <2>6. \A x \in cursor..(cursor + k - 1) :
          /\ x \in DOMAIN file /\ x \in Nat /\ cursor <= x /\ x < cursor + k
          /\ file'[x] = <<w, g + (x - cursor) + 1>> /\ x - cursor \in 0..(k - 1)
    <3> SUFFICES ASSUME NEW x \in cursor..(cursor + k - 1)
                 PROVE  /\ x \in DOMAIN file /\ x \in Nat /\ cursor <= x /\ x < cursor + k
                        /\ file'[x] = <<w, g + (x - cursor) + 1>> /\ x - cursor \in 0..(k - 1)
      OBVIOUS
    <3>1. x \in Nat /\ cursor <= x /\ x < cursor + k /\ x - cursor \in 0..(k - 1)
      BY <1>b
    <3>2. x \in DOMAIN file
      BY <2>1, <1>b
    <3> QED BY <3>1, <3>2, <2>2
  <2>7. {file'[x] : x \in Places(w)'} = {w} \X (1..(g + k))
    <3>1. ASSUME NEW x \in Places(w)' PROVE file'[x] \in {w} \X (1..(g + k))
      <4>1. CASE x \in Places(w)
        <5>1. file'[x] \in {w} \X (1..g) /\ 1..g \subseteq 1..(g + k)
          BY <4>1, <2>5, <1>b
        <5> QED BY <5>1
      <4>2. CASE x \in cursor..(cursor + k - 1)
        <5>1. file'[x] = <<w, g + (x - cursor) + 1>> /\ x - cursor \in 0..(k - 1)
          BY <4>2, <2>6
        <5>2. g + (x - cursor) + 1 \in 1..(g + k)
          BY <5>1, <1>b
        <5> QED BY <5>1, <5>2
      <4> QED BY <4>1, <4>2, <2>3
    <3>2. ASSUME NEW n \in 1..(g + k) PROVE \E x \in Places(w)' : file'[x] = <<w, n>>
      <4>1. CASE n <= g
        <5>1. <<w, n>> \in {file[x] : x \in Places(w)}
          <6>1. n \in 1..g
            BY <4>1
          <6> QED BY <6>1, <2>1 DEF OnceInOrder, g
        <5> QED BY <5>1, <2>3, <2>5
      <4>2. CASE n > g
        <5> DEFINE x == cursor + (n - g - 1)
        <5>1. x \in cursor..(cursor + k - 1) /\ g + (x - cursor) + 1 = n
          BY <4>2, <1>b
        <5> HIDE DEF x
        <5>2. file'[x] = <<w, n>>
          BY <5>1, <2>6
        <5> QED BY <5>1, <5>2, <2>3
      <4> QED BY <4>1, <4>2, <1>b
    <3> QED BY <3>1, <3>2
  <2>8. ASSUME NEW x \in Places(w)', NEW y \in Places(w)', x < y
        PROVE  file'[x][2] < file'[y][2]
    <3>1. CASE x \in Places(w) /\ y \in Places(w)
      BY <2>8, <3>1, <2>1, <2>5 DEF OnceInOrder
    <3>2. CASE x \in Places(w) /\ y \in cursor..(cursor + k - 1)
      <4>1. file'[x][2] \in 1..g
        BY <3>2, <2>5
      <4>2. file'[y][2] = g + (y - cursor) + 1 /\ y - cursor \in Nat
        BY <3>2, <2>6
      <4> QED BY <4>1, <4>2, <1>b
    <3>3. CASE x \in cursor..(cursor + k - 1) /\ y \in Places(w)
      <4>1. cursor <= x /\ y < cursor /\ x \in Nat /\ y \in Nat
        BY <3>3, <2>5, <2>6
      <4> QED BY <4>1, <2>8, <1>b
    <3>4. CASE x \in cursor..(cursor + k - 1) /\ y \in cursor..(cursor + k - 1)
      <4>1. file'[x][2] = g + (x - cursor) + 1 /\ file'[y][2] = g + (y - cursor) + 1 /\ x \in Nat /\ y \in Nat
        BY <3>4, <2>6
      <4> QED BY <4>1, <2>8, <1>b
    <3> QED BY <2>3, <3>1, <3>2, <3>3, <3>4
  <2>9. OnceInOrder'
    <3>1. ASSUME NEW v \in Callers
          PROVE  /\ {file'[x] : x \in Places(v)'} = {v} \X (1..Sent(v)')
                 /\ \A x, y \in Places(v)' : x < y => file'[x][2] < file'[y][2]
      <4>1. CASE v = w
        BY <4>1, <2>7, <2>8, <1>1
      <4>2. CASE v # w
        <5>1. {file'[x] : x \in Places(v)'} = {file[x] : x \in Places(v)}
          BY <4>2, <2>4
        <5> QED BY <4>2, <2>1, <2>4, <1>1 DEF OnceInOrder
      <4> QED BY <4>1, <4>2
    <3> QED BY <3>1 DEF OnceInOrder
  <2>10. UpToCursor'
    <3>1. ASSUME NEW x \in DOMAIN file
          PROVE  IF x < cursor + k THEN file'[x][1] \in Callers ELSE file'[x] = Hole
      <4>1. CASE x < cursor
        <5>1. x < cursor + k
          BY <4>1, <1>b
        <5> QED BY <4>1, <5>1, <2>2
      <4>2. CASE cursor <= x /\ x < cursor + k
        BY <4>2, <2>2
      <4>3. CASE cursor + k <= x
        <5>1. ~(x < cursor + k)
          BY <4>3, <1>b
        <5> QED BY <4>3, <5>1, <2>2
      <4> QED BY <4>1, <4>2, <4>3, <1>b
    <3> QED BY <3>1, <2>1, <1>2 DEF UpToCursor
  <2>11. ASSUME locked PROVE Contiguous' /\ GoesOn'
    <3>1. Contiguous /\ GoesOn
      BY <1>7, <2>11 DEF WInv
    <3>2. \A x \in Places(w) : \A z \in x..(cursor - 1) : z \in Places(w)
      BY <3>1 DEF GoesOn
    <3>3. \A x \in Places(w)' : \A z \in x..(cursor + k - 1) : z \in Places(w)'
      <4> SUFFICES ASSUME NEW x \in Places(w)', NEW z \in x..(cursor + k - 1)
                   PROVE  z \in Places(w)'
        OBVIOUS
      <4>1. x \in Nat
        BY <2>3, <2>5, <2>6
      <4>2. CASE z < cursor
        <5>1. x < cursor /\ z \in x..(cursor - 1)
          BY <4>1, <4>2, <1>b
        <5>2. x \in Places(w)
          <6>1. ~(cursor <= x)
            BY <5>1, <4>1, <1>b
          <6> QED BY <6>1, <2>3
        <5> QED BY <5>1, <5>2, <3>2, <2>3
      <4>3. CASE ~(z < cursor)
        <5>1. z \in cursor..(cursor + k - 1)
          BY <4>3, <1>b
        <5> QED BY <5>1, <2>3
      <4> QED BY <4>2, <4>3
    <3>4. Contiguous'
      <4>1. ASSUME NEW v \in Callers, NEW x \in Places(v)', NEW y \in Places(v)'
            PROVE  x..y \subseteq Places(v)'
        <5>1. CASE v = w
          <6>1. y \in Nat /\ x \in Nat /\ y < cursor + k
            BY <4>1, <5>1, <2>3, <2>5, <1>b
          <6>2. x..y \subseteq x..(cursor + k - 1)
            BY <6>1, <1>b
          <6> QED BY <5>1, <6>2, <3>3
        <5>2. CASE v # w
          BY <5>2, <3>1, <2>4 DEF Contiguous
        <5> QED BY <5>1, <5>2
      <4> QED BY <4>1 DEF Contiguous
    <3>5. GoesOn'
      <4>1. \A v \in Callers \ {w} : st'[v] \notin {"gather", "tail"}
        BY <2>11, <1>1, <1>a DEF WMutexHeld
      <4>2. cursor' = cursor + k
        BY <2>1
      <4>3. cursor' - 1 = cursor + k - 1
        BY <4>2, <1>b
      <4>4. \A x \in Places(w)' : \A y \in x..(cursor' - 1) : y \in Places(w)'
        BY <4>3, <3>3
      <4> QED BY <4>1, <4>4 DEF GoesOn
    <3> QED BY <3>4, <3>5
  <2> QED BY <2>9, <2>10, <2>11
<1>8. ASSUME positional PROVE OffFollows' /\ (Apart => AtItsOffset')
  <2>1. OffFollows /\ pl = offset[w] /\ pl = Origin[w] + g /\ cursor' = cursor
        /\ offset' = [offset EXCEPT ![w] = @ + k] /\ offset \in [Callers -> Nat]
    BY <1>8, <1>d DEF WInv, WritePlace, OffFollows, pl, g, WriteTypeOK
  <2>2. \A v \in Callers : Origin[v] \in Nat /\ Sent(v) \in Nat
    BY WBasics DEF ScatterAssumption, CallsAssumption
  <2>3. OffFollows'
    <3>1. ASSUME NEW v \in Callers
          PROVE  /\ offset'[v] = Origin[v] + Sent(v)'
                 /\ Sent(v)' > 0 => Origin[v] + Sent(v)' <= FileSize
      <4>1. CASE v = w
        <5>1. offset'[w] = offset[w] + k
          BY <2>1
        <5>2. /\ offset[w] = Origin[w] + g /\ Origin[w] \in Nat /\ g \in Nat /\ k \in Nat
              /\ pl = Origin[w] + g /\ pl + k <= FileSize
          BY <2>1, <2>2, <1>b
        <5>3. offset'[w] = Origin[w] + (g + k) /\ Origin[w] + (g + k) <= FileSize
          BY <5>1, <5>2
        <5> QED BY <4>1, <5>3, <1>1
      <4>2. CASE v # w
        <5>1. offset'[v] = offset[v]
          BY <4>2, <2>1
        <5> QED BY <4>2, <2>1, <1>1 DEF OffFollows
      <4> QED BY <4>1, <4>2
    <3> QED BY <3>1 DEF OffFollows
  <2>4. ASSUME Apart PROVE AtItsOffset'
    <3>1. AtItsOffset
      BY <1>8, <2>4 DEF WInv
    <3>2. ASSUME NEW i \in 1..(g + k) PROVE file'[Origin[w] + i - 1] = <<w, i>>
      <4> DEFINE x == Origin[w] + i - 1
      <4>1. pl = Origin[w] + g /\ Origin[w] \in Nat
        BY <2>1, <2>2
      <4>2. i \in Nat /\ i <= g + k /\ 1 <= i
        OBVIOUS
      <4>3. x \in Nat /\ x < pl + k /\ (i <= g => x < pl)
        <5>1. \A a, o, n, d \in Nat :
                1 <= n => /\ o + n - 1 \in Nat
                          /\ n <= a + d => o + n - 1 < (o + a) + d
                          /\ n <= a => o + n - 1 < o + a
          OBVIOUS
        <5>2. g \in Nat /\ k \in Nat
          BY <1>b
        <5>3. x \in Nat /\ x < (Origin[w] + g) + k /\ (i <= g => x < Origin[w] + g)
          BY <4>1, <4>2, <5>1, <5>2
        <5> QED BY <5>3, <4>1
      <4>4. /\ x \in 0..(FileSize - 1)
            /\ i > g => pl <= x /\ g + (x - pl) + 1 = i
        <5>1. x \in 0..(FileSize - 1)
          BY <4>3, <1>b
        <5>2. i > g => pl <= x
          BY <4>1, <1>b
        <5>3. g + (x - pl) + 1 = i
          <6>1. \A a, o, n \in Nat : (a + ((o + n - 1) - (o + a))) + 1 = n
            OBVIOUS
          <6>2. g \in Nat
            BY <1>b
          <6>3. (g + ((Origin[w] + i - 1) - (Origin[w] + g))) + 1 = i
            BY <6>1, <6>2, <4>1, <4>2
          <6> QED BY <6>3, <4>1
        <5> QED BY <5>1, <5>2, <5>3
      <4>5. x \in DOMAIN file
        BY <4>4, <1>b
      <4>6. CASE i <= g
        <5>1. i \in 1..Sent(w)
          BY <4>6 DEF g
        <5>2. file[x] = <<w, i>>
          BY <5>1, <3>1 DEF AtItsOffset
        <5> HIDE DEF x
        <5>3. file'[x] = <<w, i>>
          BY <4>3, <4>5, <4>6, <5>2, <1>2
        <5> QED BY <5>3 DEF x
      <4>7. CASE i > g
        <5> HIDE DEF x
        <5>1. file'[x] = <<w, i>>
          BY <4>3, <4>4, <4>5, <4>7, <1>2
        <5> QED BY <5>1 DEF x
      <4> QED BY <4>6, <4>7, <1>b
    <3>3. ASSUME NEW v \in Callers \ {w}, NEW i \in 1..Sent(v)
          PROVE  file'[Origin[v] + i - 1] = <<v, i>>
      <4> DEFINE x == Origin[v] + i - 1
      <4>1. file[x] = <<v, i>>
        BY <3>1 DEF AtItsOffset
      <4>2. /\ Origin[v] \in Nat /\ Origin[w] \in Nat /\ Sent(v) \in Nat
            /\ Sent(v) <= Total(edge[v]) /\ Total(edge[v]) \in Nat
        BY <2>2, WBasics
      <4>3. Origin[v] + Total(edge[v]) <= Origin[w] \/ Origin[w] + T <= Origin[v]
        BY <2>4, <1>a DEF Apart, WriteTypeOK, T
      <4>4. Origin[v] + Sent(v) <= FileSize
        BY <2>1, <4>2 DEF OffFollows
      <4>5. pl = Origin[w] + g /\ i \in Nat /\ i >= 1 /\ i <= Sent(v)
        BY <2>1
      <4>6. x \in Nat /\ x < Origin[v] + Sent(v) /\ Origin[v] <= x
        BY <4>2
      <4> HIDE DEF x
      <4>7. x \in 0..(FileSize - 1) /\ (x < pl \/ pl + k <= x)
        <5>1. x \in 0..(FileSize - 1)
          <6>1. x < FileSize /\ FileSize \in Nat
            BY <4>2, <4>4, <4>6, <1>b
          <6> QED BY <6>1, <4>6
        <5>2. CASE Origin[v] + Total(edge[v]) <= Origin[w]
          <6>1. Origin[v] + Sent(v) <= Origin[w]
            BY <5>2, <4>2
          <6>2. x < Origin[w]
            BY <6>1, <4>2, <4>6
          <6>3. x < pl
            <7>1. \A a, y, z \in Nat : y < a => y < a + z
              OBVIOUS
            <7>2. x < Origin[w] + g
              <8>1. x \in Nat /\ Origin[w] \in Nat /\ g \in Nat
                BY <4>2, <4>6, <1>b
              <8> HIDE DEF g
              <8> QED BY <7>1, <8>1, <6>2
            <7> QED BY <7>2, <4>5
          <6> QED BY <5>1, <6>3
        <5>3. CASE Origin[w] + T <= Origin[v]
          <6>1. pl + k <= Origin[w] + T
            <7>1. \A a, y, z, t \in Nat : y + z <= t => (a + y) + z <= a + t
              OBVIOUS
            <7>2. Origin[w] \in Nat /\ g \in Nat /\ k \in Nat /\ T \in Nat /\ g + k <= T
              BY <4>2, <1>b
            <7>3. (Origin[w] + g) + k <= Origin[w] + T
              BY <7>1, <7>2
            <7> QED BY <7>3, <4>5
          <6>2. Origin[w] + T <= x /\ Origin[w] + T \in Nat
            BY <5>3, <4>2, <4>6, <1>b
          <6>3. pl + k <= x
            BY <6>1, <6>2, <4>6, <1>b
          <6> QED BY <5>1, <6>3
        <5> QED BY <5>2, <5>3, <4>3
      <4>8. x \in DOMAIN file
        BY <4>7, <1>b
      <4>9. file'[x] = <<v, i>>
        BY <4>1, <4>7, <4>8, <1>2
      <4> QED BY <4>9 DEF x
    <3>4. ASSUME NEW v \in Callers, NEW i \in 1..(Sent(v)')
          PROVE  file'[Origin[v] + i - 1] = <<v, i>>
      <4>1. CASE v = w
        BY <3>2, <4>1, <1>1
      <4>2. CASE v # w
        BY <3>3, <4>2, <1>1
      <4> QED BY <4>1, <4>2
    <3>5. cursor' = 0
      BY <3>1, <2>1 DEF AtItsOffset
    <3> QED BY <3>4, <3>5 DEF AtItsOffset
  <2> QED BY <2>3, <2>4
<1>9. positional' = positional /\ locked' = locked
  BY <1>c
<1>10. Apart' <=> Apart
  OBVIOUS
<1> QED BY <1>3, <1>4, <1>5, <1>6, <1>7, <1>8, <1>9, <1>10 DEF WInv

LEMMA WOthersKeep ==
  ASSUME ScatterAssumption, WInv, NEW w \in Callers, BeginWrite(w) \/ ThrowWrite(w) \/ UnlockWrite(w)
  PROVE  WInv'
<1>a. /\ WriteTypeOK /\ WFunctions /\ \A v \in Callers : WWhere(v)
      /\ OkIsComplete /\ WMutexHeld /\ NoCaller \notin Callers
  BY DEF WInv, ScatterAssumption, CallsAssumption
<1>1. /\ UNCHANGED <<positional, locked, edge, at, tail, offset, file, cursor>>
      /\ \E s \in {"gather", "unlock", "out"} : st' = [st EXCEPT ![w] = s]
      /\ res' = res \/ res' = [res EXCEPT ![w] = "error"]
      /\ holder' \in {holder, w, NoCaller} /\ errs' \in {errs, errs + 1}
  BY DEF BeginWrite, ThrowWrite, UnlockWrite, LeaveWrite
<1>2. /\ UNCHANGED <<OnceInOrder, UpToCursor, Contiguous, OffFollows, AtItsOffset, WFunctions>>
      /\ \A v \in Callers : Sent(v)' = Sent(v) /\ Places(v)' = Places(v)
  BY <1>1 DEF OnceInOrder, UpToCursor, Contiguous, OffFollows, AtItsOffset, WFunctions,
     Sent, Places
<1>3. WriteTypeOK'
  <2>1. errs' \in Nat
    BY <1>1, <1>a DEF WriteTypeOK
  <2>2. /\ st' \in [Callers -> {"ready", "gather", "tail", "unlock", "out"}]
        /\ \A v \in Callers : st'[v] = "tail" => st[v] = "tail"
    BY <1>1, <1>a DEF WriteTypeOK
  <2>3. res' \in [Callers -> {"none", "ok", "error"}] /\ holder' \in Callers \cup {NoCaller}
    <3>1. holder' \in Callers \cup {NoCaller}
      BY <1>1, <1>a DEF WriteTypeOK
    <3>2. res' \in [Callers -> {"none", "ok", "error"}]
      BY <1>1, <1>a DEF WriteTypeOK
    <3> QED BY <3>1, <3>2
  <2> QED BY <1>1, <1>a, <2>1, <2>2, <2>3 DEF WriteTypeOK, Hole
<1>4. \A v \in Callers : WWhere(v)'
  <2>1. ASSUME NEW v \in Callers \ {w} PROVE WWhere(v)'
    <3>1. st'[v] = st[v] /\ res'[v] = res[v]
      BY <1>1, <1>a DEF WriteTypeOK
    <3> QED BY <3>1, <1>1, <1>2, <1>a DEF WWhere
  <2>2. WWhere(w)'
    <3>1. /\ BeginWrite(w) => st[w] = "ready" /\ st'[w] = "gather" /\ res'[w] = res[w]
          /\ ThrowWrite(w) => st[w] \in {"gather", "tail"} /\ st'[w] = "unlock" /\ res'[w] = "error"
          /\ UnlockWrite(w) => st[w] = "unlock" /\ st'[w] = "out" /\ res'[w] = res[w]
      BY <1>a DEF BeginWrite, ThrowWrite, UnlockWrite, LeaveWrite, WriteTypeOK
    <3>2. WWhere(w)
      BY <1>a
    <3> QED BY <3>1, <3>2, <1>1, <1>2 DEF WWhere
  <2> QED BY <2>1, <2>2
<1>5. OkIsComplete'
  BY <1>1, <1>2, <1>a DEF OkIsComplete, WriteTypeOK
<1>6. WMutexHeld'
  <2> SUFFICES ASSUME locked, NEW v \in Callers
               PROVE  holder' = v <=> st'[v] \in {"gather", "tail", "unlock"}
    BY <1>1 DEF WMutexHeld
  <2>0. /\ holder = v <=> st[v] \in {"gather", "tail", "unlock"}
        /\ holder = w <=> st[w] \in {"gather", "tail", "unlock"}
    BY <1>a DEF WMutexHeld
  <2>1. CASE BeginWrite(w)
    BY <2>0, <2>1, <1>a DEF WriteTypeOK, BeginWrite
  <2>2. CASE ThrowWrite(w)
    BY <2>0, <2>2, <1>a DEF WriteTypeOK, ThrowWrite, LeaveWrite
  <2>3. CASE UnlockWrite(w)
    BY <2>0, <2>3, <1>a DEF WriteTypeOK, UnlockWrite
  <2> QED BY <2>1, <2>2, <2>3
<1>7. locked /\ ~positional => GoesOn'
  <2> SUFFICES ASSUME locked, ~positional, NEW v \in Callers, st'[v] \in {"gather", "tail"}
               PROVE  \A x \in Places(v) : \A y \in x..(cursor - 1) : y \in Places(v)
    BY <1>1, <1>2 DEF GoesOn
  <2>1. CASE st[v] \in {"gather", "tail"}
    BY <2>1 DEF WInv, GoesOn
  <2>2. CASE st[v] \notin {"gather", "tail"}
    <3>1. st[v] = "ready"
      BY <2>2, <1>a DEF WriteTypeOK, BeginWrite, ThrowWrite, UnlockWrite, LeaveWrite
    <3>2. Sent(v) = 0
      <4>1. IsList(edge[v])
        BY WBasics
      <4> QED BY <3>1, <4>1, <1>a DEF WWhere, Sent, IsList
    <3>3. {file[x] : x \in Places(v)} = {v} \X (1..0) /\ 1..0 = {}
      BY <3>2 DEF WInv, OnceInOrder
    <3>4. Places(v) = {}
      BY <3>3
    <3> QED BY <3>4
  <2> QED BY <2>1, <2>2
<1>8. Apart' <=> Apart
  OBVIOUS
<1>9. positional' = positional /\ locked' = locked
  BY <1>1
<1> QED BY <1>2, <1>3, <1>4, <1>5, <1>6, <1>7, <1>8, <1>9 DEF WInv

LEMMA WInitInv == ASSUME ScatterAssumption, WriteInit PROVE WInv
<1>0. NoCaller \notin Callers
  BY DEF ScatterAssumption, CallsAssumption
<1>1. \A w \in Callers :
        /\ IsList(edge[w]) /\ Len(edge[w]) \in Nat /\ Len(edge[w]) >= 2 /\ edge[w][1] = 0
        /\ at[w] = 1 /\ tail[w] = 0 /\ st[w] = "ready" /\ res[w] = "none" /\ Sent(w) = 0
        /\ offset[w] = Origin[w] /\ Origin[w] \in Nat
  <2> SUFFICES ASSUME NEW w \in Callers
               PROVE  /\ IsList(edge[w]) /\ Len(edge[w]) \in Nat /\ Len(edge[w]) >= 2 /\ edge[w][1] = 0
                      /\ at[w] = 1 /\ tail[w] = 0 /\ st[w] = "ready" /\ res[w] = "none" /\ Sent(w) = 0
                      /\ offset[w] = Origin[w] /\ Origin[w] \in Nat
    OBVIOUS
  <2>1. IsList(edge[w])
    BY DEF ScatterAssumption, CallsAssumption, WriteInit
  <2>2. Len(edge[w]) \in Nat /\ Len(edge[w]) >= 2 /\ edge[w][1] = 0
    BY <2>1 DEF IsList
  <2>3. /\ at[w] = 1 /\ tail[w] = 0 /\ st[w] = "ready" /\ res[w] = "none"
        /\ offset[w] = Origin[w] /\ Origin[w] \in Nat
    BY DEF WriteInit, ScatterAssumption, CallsAssumption
  <2> QED BY <2>1, <2>2, <2>3 DEF Sent
<1>2. \A x \in DOMAIN file : x \in Nat /\ file[x] = Hole
  BY DEF WriteInit
<1>3. \A w \in Callers : Places(w) = {}
  BY <1>0, <1>2 DEF Places, Hole
<1>4. WriteTypeOK
  BY <1>1 DEF WriteInit, WriteTypeOK, ScatterAssumption, CallsAssumption
<1>5. WFunctions /\ \A w \in Callers : WWhere(w)
  BY <1>1 DEF WriteInit, WFunctions, WWhere
<1>6. 1..0 = {}
  OBVIOUS
<1>7. OnceInOrder /\ Contiguous /\ GoesOn
  BY <1>1, <1>3 DEF OnceInOrder, Contiguous, GoesOn
<1>8. UpToCursor
  <2>1. cursor = 0
    BY DEF WriteInit
  <2>2. \A x \in DOMAIN file : ~(x < 0)
    BY <1>2
  <2> QED BY <2>1, <1>2 DEF UpToCursor
<1>9. OffFollows
  BY <1>1 DEF OffFollows
<1>10. AtItsOffset
  BY <1>1 DEF AtItsOffset, WriteInit
<1>11. OkIsComplete /\ WMutexHeld
  BY <1>0 DEF OkIsComplete, WMutexHeld, WriteInit
<1> QED BY <1>4, <1>5, <1>7, <1>8, <1>9, <1>10, <1>11 DEF WInv

LEMMA WInvNext == ASSUME ScatterAssumption, WInv, [WriteNext]_writeVars PROVE WInv'
<1>1. ASSUME NEW w \in Callers, GatherWrite(w) PROVE WInv'
  <2>1. st[w] = "gather"
    BY <1>1 DEF GatherWrite
  <2> QED BY <1>1, <2>1, WGatherGoes, WGoesKeeps
<1>2. ASSUME NEW w \in Callers, FinishWrite(w) PROVE WInv'
  <2>1. st[w] = "tail"
    BY <1>2 DEF FinishWrite
  <2> QED BY <1>2, <2>1, WFinishGoes, WGoesKeeps
<1>3. ASSUME UNCHANGED writeVars PROVE WInv'
  <2>1. UNCHANGED <<positional, locked, edge, at, tail, offset, st, res, file, cursor, holder, errs>>
    BY <1>3 DEF writeVars
  <2>2. /\ WriteTypeOK => WriteTypeOK'
        /\ WFunctions => WFunctions'
        /\ (\A w \in Callers : WWhere(w)) => \A w \in Callers : WWhere(w)'
        /\ WMutexHeld => WMutexHeld'
        /\ OkIsComplete => OkIsComplete'
    BY <2>1 DEF WriteTypeOK, WFunctions, WWhere, Sent, WMutexHeld, OkIsComplete
  <2>3. UNCHANGED <<OnceInOrder, UpToCursor, Contiguous, GoesOn, OffFollows, AtItsOffset>>
    BY <2>1 DEF OnceInOrder, UpToCursor, Contiguous, GoesOn, OffFollows, AtItsOffset, Sent,
       Places
  <2>4. Apart' <=> Apart
    OBVIOUS
  <2>5. positional' = positional /\ locked' = locked
    BY <2>1
  <2> QED BY <2>2, <2>3, <2>4, <2>5 DEF WInv
<1> QED BY <1>1, <1>2, <1>3, WOthersKeep DEF WriteNext, StepWrite, CallWrite

(***************************************************************************)
(* However the kernel cuts the writes, the bytes of a call with several    *)
(* descriptors reach the file once each and in order; under the mutex as   *)
(* one piece, with offsets far enough apart there; and a call that returns *)
(* has written them all.                                                   *)
(***************************************************************************)
THEOREM WritesAreInOrder == ASSUME ScatterAssumption PROVE WriteSpec => []ScattersInOrder
<1>1. WriteInit => WInv
  BY WInitInv
<1>2. WInv /\ [WriteNext]_writeVars => WInv'
  BY WInvNext
<1>3. WInv => ScattersInOrder
  BY DEF WInv, ScattersInOrder
<1> QED BY <1>1, <1>2, <1>3, PTL DEF WriteSpec

-----------------------------------------------------------------------------
(***************************************************************************)
(* print and println.  The characters from one number to another join, and *)
(* what has been printed is always those from the first on: however a step *)
(* cuts the text, it takes them on from where they ended.                  *)
(***************************************************************************)

LEMMA CharactersAre ==
  ASSUME NEW m \in Nat, NEW n \in Nat, m <= n
  PROVE  /\ Characters(m, n) \in Seq(Nat) /\ Len(Characters(m, n)) = n - m
         /\ \A x \in 1..(n - m) : Characters(m, n)[x] = m + x
         /\ m = n => Characters(m, n) = <<>>
<1> DEFINE c == [x \in 1..(n - m) |-> m + x]
<1>1. n - m \in Nat /\ \A x \in 1..(n - m) : m + x \in Nat
  OBVIOUS
<1>2. c \in Seq(Nat) /\ Len(c) = n - m /\ \A x \in 1..(n - m) : c[x] = m + x
  <2>1. c \in [1..(n - m) -> Nat]
    BY <1>1
  <2> QED BY <1>1, <2>1
<1>3. m = n => c = <<>>
  BY <1>2
<1> QED BY <1>2, <1>3 DEF Characters

LEMMA CharactersJoin ==
  ASSUME NEW m \in Nat, NEW n \in Nat, NEW p \in Nat, m <= n, n <= p
  PROVE  Characters(m, n) \o Characters(n, p) = Characters(m, p)
<1> DEFINE a == Characters(m, n)
           b == Characters(n, p)
           c == Characters(m, p)
<1>1. /\ a \in Seq(Nat) /\ Len(a) = n - m /\ \A x \in 1..(n - m) : a[x] = m + x
      /\ b \in Seq(Nat) /\ Len(b) = p - n /\ \A x \in 1..(p - n) : b[x] = n + x
      /\ c \in Seq(Nat) /\ Len(c) = p - m /\ \A x \in 1..(p - m) : c[x] = m + x
  <2>1. a \in Seq(Nat) /\ Len(a) = n - m /\ \A x \in 1..(n - m) : a[x] = m + x
    BY CharactersAre
  <2>2. b \in Seq(Nat) /\ Len(b) = p - n /\ \A x \in 1..(p - n) : b[x] = n + x
    BY CharactersAre
  <2>3. c \in Seq(Nat) /\ Len(c) = p - m /\ \A x \in 1..(p - m) : c[x] = m + x
    <3>1. m <= p
      OBVIOUS
    <3> QED BY <3>1, CharactersAre
  <2> QED BY <2>1, <2>2, <2>3
<1> HIDE DEF a, b, c
<1>2. /\ a \o b \in Seq(Nat) /\ Len(a \o b) = Len(a) + Len(b)
      /\ \A x \in 1..(Len(a) + Len(b)) : (a \o b)[x] = IF x <= Len(a) THEN a[x] ELSE b[x - Len(a)]
  BY <1>1, JoinIs
<1>3. Len(a \o b) = p - m /\ Len(a) + Len(b) = p - m /\ Len(a) = n - m
  BY <1>1, <1>2
<1>4. ASSUME NEW x \in 1..(p - m) PROVE (a \o b)[x] = c[x]
  <2>1. (a \o b)[x] = IF x <= n - m THEN a[x] ELSE b[x - (n - m)]
    BY <1>2, <1>3
  <2>2. CASE x <= n - m
    <3>1. x \in 1..(n - m)
      BY <2>2
    <3> QED BY <1>1, <2>1, <2>2, <3>1
  <2>3. CASE ~(x <= n - m)
    <3>1. x - (n - m) \in 1..(p - n) /\ n + (x - (n - m)) = m + x
      BY <2>3
    <3>2. b[x - (n - m)] = n + (x - (n - m))
      BY <1>1, <3>1
    <3> QED BY <1>1, <2>1, <2>3, <3>1, <3>2
  <2> QED BY <2>2, <2>3
<1>5. a \o b = c
  BY <1>1, <1>2, <1>3, <1>4, SeqEqual
<1> QED BY <1>5 DEF a, b, c

\* If the storage has been enough so far and is for the next, it stays so.
LEMMA SlackGrows ==
  \A a, b, c, d, e, f \in Nat :
    ~((e - c) - (b - a) < 0) /\ d - b <= f - e => ~((f - c) - (d - a) < 0)
OBVIOUS

-----------------------------------------------------------------------------
\* What an argument list says: no text is longer than its storage.
LEMMA TextFits ==
  ASSUME NEW l, IsArguments(l), NEW i \in 1..Len(l.text), NEW j \in 1..Len(l.text), i <= j
  PROVE  /\ l.text[i] \in Nat /\ l.text[j] \in Nat /\ l.text[i] <= l.text[j]
         /\ l.room[i] \in Nat /\ l.room[j] \in Nat /\ l.room[i] <= l.room[j]
         /\ l.text[j] - l.text[i] <= l.room[j] - l.room[i]
<1>1. /\ IsList(l.text) /\ IsList(l.room) /\ Len(l.text) = Len(l.room) /\ Len(l.text) \in Nat
      /\ Len(l.kind) = Len(l.text) - 1
      /\ \A n \in 1..(Len(l.text) - 1) : l.text[n + 1] - l.text[n] <= l.room[n + 1] - l.room[n]
  <2>1. /\ IsList(l.text) /\ IsList(l.room) /\ Len(l.text) - 1 = Len(l.kind)
        /\ Len(l.room) - 1 = Len(l.kind) /\ l.kind \in Seq(Kinds)
        /\ \A n \in DOMAIN l.kind : l.text[n + 1] - l.text[n] <= l.room[n + 1] - l.room[n]
    BY DEF IsArguments, Count
  <2>2. DOMAIN l.kind = 1..Len(l.kind) /\ Len(l.kind) \in Nat
    BY <2>1, LenProperties
  <2>3. Len(l.text) \in Nat /\ Len(l.room) \in Nat
    BY <2>1, LenProperties DEF IsList
  <2>4. Len(l.text) = Len(l.room) /\ Len(l.kind) = Len(l.text) - 1
    BY <2>1, <2>2, <2>3
  <2> QED BY <2>1, <2>2, <2>3, <2>4
<1>2. /\ \A n \in 1..Len(l.text) : l.text[n] \in Nat /\ l.room[n] \in Nat
  <2>1. l.text \in Seq(Nat) /\ l.room \in Seq(Nat)
    BY <1>1 DEF IsList
  <2> QED BY <1>1, <2>1, ElementOfSeq
<1>3. l.text[i] <= l.text[j] /\ l.room[i] <= l.room[j]
  BY <1>1, EdgesGrow
<1> DEFINE Slack(n) == (l.room[n] - l.room[i]) - (l.text[n] - l.text[i])
           Short(n) == Slack(n) < 0
           T == {n \in i..Len(l.text) : Short(n)}
<1>4. ASSUME T # {} PROVE FALSE
  <2>1. T \in SUBSET Nat
    OBVIOUS
  <2>2. PICK n \in T : \A m \in T : n <= m
    BY <1>4, <2>1, LeastElement
  <2>3. n \in 1..Len(l.text) /\ n # i /\ n >= i
    BY <1>1, <1>2
  <2>4. n - 1 \in i..Len(l.text) /\ n - 1 \in 1..(Len(l.text) - 1) /\ (n - 1) + 1 = n
    BY <1>1, <2>3
  <2>5. ~(Slack(n - 1) < 0)
    BY <2>2, <2>4
  <2>6. l.text[n] - l.text[n - 1] <= l.room[n] - l.room[n - 1]
    BY <1>1, <2>4
  <2>7. /\ l.text[n] \in Nat /\ l.text[n - 1] \in Nat /\ l.text[i] \in Nat
        /\ l.room[n] \in Nat /\ l.room[n - 1] \in Nat /\ l.room[i] \in Nat
    BY <1>1, <1>2, <2>3, <2>4
  <2>8. ~(Slack(n) < 0)
    <3>2. ~((l.room[n - 1] - l.room[i]) - (l.text[n - 1] - l.text[i]) < 0)
      BY <2>5
    <3>3. ~((l.room[n] - l.room[i]) - (l.text[n] - l.text[i]) < 0)
      BY <2>6, <2>7, <3>2, SlackGrows
    <3> QED BY <3>3
  <2> QED BY <2>2, <2>8
<1>5. ~Short(j)
  <2>1. j \in i..Len(l.text)
    BY <1>1
  <2>2. j \notin T
    BY Zenon, <1>4
  <2>3. j \in i..Len(l.text) /\ Short(j) => j \in T
    OBVIOUS
  <2> HIDE DEF T, Short
  <2> QED BY <2>1, <2>2, <2>3
<1>6. /\ l.text[i] \in Nat /\ l.text[j] \in Nat
      /\ l.room[i] \in Nat /\ l.room[j] \in Nat
  BY <1>2
<1>7. l.text[j] - l.text[i] <= l.room[j] - l.room[i]
  <2>1. ~((l.room[j] - l.room[i]) - (l.text[j] - l.text[i]) < 0)
    BY <1>5
  <2> QED BY <1>6, <2>1
<1> QED BY <1>3, <1>6, <1>7

\* A run ends with an argument of its kinds, or before its first.
LEMMA RunEndIs ==
  ASSUME N \in Nat, NEW i \in 1..N, NEW kinds
  PROVE  /\ RunEnd(i, kinds) \in (i - 1)..N
         /\ \A k \in i..RunEnd(i, kinds) : args.kind[k] \in kinds
         /\ (\A k \in i..N : args.kind[k] \in kinds) => RunEnd(i, kinds) = N
         /\ args.kind[i] \in kinds => RunEnd(i, kinds) \in i..N
<1> DEFINE T == {i - 1} \cup {j \in i..N : \A k \in i..j : args.kind[k] \in kinds}
<1>1. T \in SUBSET (0..N) /\ i - 1 \in T
  OBVIOUS
<1>2. PICK p \in T : \A n \in T : n <= p
  BY <1>1, GreatestElement
<1>3. Max(T) \in T /\ \A n \in T : Max(T) >= n
  BY <1>1, <1>2 DEF Max
<1>4. (\A k \in i..N : args.kind[k] \in kinds) => N \in T
  OBVIOUS
<1>9. args.kind[i] \in kinds => i \in T
  OBVIOUS
<1> HIDE DEF T
<1>5. RunEnd(i, kinds) = Max(T)
  BY DEF RunEnd, T
<1>6. Max(T) \in (i - 1)..N
  BY <1>3 DEF T
<1>7. \A k \in i..Max(T) : args.kind[k] \in kinds
  BY <1>3 DEF T
<1>8. (\A k \in i..N : args.kind[k] \in kinds) => Max(T) = N
  BY <1>3, <1>4, <1>6
<1>10. args.kind[i] \in kinds => Max(T) \in i..N
  BY <1>3, <1>6, <1>9
<1> QED BY <1>5, <1>6, <1>7, <1>8, <1>10

LEMMA GreatestIs ==
  ASSUME NEW b \in Nat, NEW T \in SUBSET (0..b), T # {}
  PROVE  Max(T) \in T /\ Max(T) \in Nat /\ \A n \in T : n <= Max(T)
<1>1. PICK p \in T : \A n \in T : n <= p
  BY GreatestElement
<1>2. p \in T /\ \A n \in T : p >= n
  BY <1>1
<1>3. Max(T) \in T /\ \A n \in T : Max(T) >= n
  BY <1>2 DEF Max
<1>4. \A n \in T : n \in Nat /\ (Max(T) >= n => n <= Max(T))
  <2>1. \A n \in T : n \in Nat
    OBVIOUS
  <2>2. Max(T) \in Nat
    BY Zenon, <1>3, <2>1
  <2> QED BY <2>1, <2>2
<1> QED BY Zenon, <1>3, <1>4

\* The capture buffer has a size.
LEMMA CaptureSizeIs ==
  ASSUME PrintAssumption, IsArguments(args), NEW i \in 1..N, NEW j \in 1..N
  PROVE  CaptureSize(i, j) \in Nat
<1>1. N \in Nat /\ Len(args.text) = N + 1
  BY DEF IsArguments, IsList, Count, N
<1>2. \A a, b \in 1..N : a <= b => Bounds(a, b) \in 0..args.room[N + 1]
  <2> SUFFICES ASSUME NEW a \in 1..N, NEW b \in 1..N, a <= b PROVE Bounds(a, b) \in 0..args.room[N + 1]
    OBVIOUS
  <2>1. a \in 1..(N + 1) /\ b + 1 \in 1..(N + 1) /\ N + 1 \in 1..(N + 1) /\ a <= b + 1 /\ b + 1 <= N + 1
    BY <1>1
  <2>2. /\ args.room[a] \in Nat /\ args.room[b + 1] \in Nat /\ args.room[a] <= args.room[b + 1]
        /\ args.room[N + 1] \in Nat /\ args.room[b + 1] <= args.room[N + 1]
    BY <1>1, <2>1, TextFits
  <2> QED BY <2>2 DEF Bounds
<1>3. args.room[N + 1] \in Nat
  <2>1. N + 1 \in 1..Len(args.text)
    BY <1>1
  <2> QED BY <2>1, TextFits
<1> DEFINE P == {r \in (i..j) \X (i..j) : r[1] <= r[2] /\ \A k \in r[1]..r[2] : args.kind[k] = "reserve"}
           B == {0} \cup {Bounds(p[1], p[2]) : p \in P}
<1>4. B \in SUBSET (0..args.room[N + 1]) /\ 0 \in B
  <2>1. \A p \in P : p[1] \in 1..N /\ p[2] \in 1..N /\ p[1] <= p[2]
    BY <1>1
  <2>2. \A p \in P : Bounds(p[1], p[2]) \in 0..args.room[N + 1]
    BY <1>2, <2>1
  <2>3. \A x \in B : x = 0 \/ \E p \in P : x = Bounds(p[1], p[2])
    OBVIOUS
  <2> HIDE DEF P
  <2>4. \A x \in B : x \in 0..args.room[N + 1]
    BY <1>3, <2>2, <2>3
  <2> QED BY <2>4
<1>5. Max(B) \in Nat
  BY <1>3, <1>4, GreatestIs
<1>6. Burst(i, j) \in Nat
  BY <1>5 DEF Burst
<1> DEFINE b == Burst(i, j)
           w == IF HasKind(i, j, "context") THEN Window ELSE 0
           h == IF HasKind(i, j, "dynamic") THEN Hint ELSE 0
<1>7. Least \in Nat /\ b \in Nat /\ w \in Nat /\ h \in Nat
  BY <1>6 DEF PrintAssumption
<1> HIDE DEF b, w, h
<1>8. {Least, b, w, h} \in SUBSET (0..(Least + b + w + h)) /\ Least + b + w + h \in Nat
  BY <1>7
<1>9. Max({Least, b, w, h}) \in Nat
  BY <1>8, GreatestIs
<1> QED BY <1>9 DEF CaptureSize, b, w, h

-----------------------------------------------------------------------------
(***************************************************************************)
(* The invariant.                                                          *)
(***************************************************************************)

Lasting == medium \in Media /\ args \in Arguments /\ line \in BOOLEAN

\* Where text can lie, and that it is in its storage.
Stored ==
  /\ out \in Seq(Nat) /\ put \in Seq(Nat) /\ buf \in Seq(Nat)
  /\ area \in BOOLEAN /\ calls \in 0..2 /\ over = FALSE
  /\ Len(put) <= Cap /\ (put # <<>> => area) /\ (~Buffered => put = <<>>)

\* Which argument is printed at which stage; only while a run is captured the
\* capture buffer holds text, and what is captured has made nothing before its
\* turn.
Course ==
  /\ stage \in {"dispatch", "capture", "finish", "context", "window", "plain", "done"}
  /\ turn \in 1..(N + 1) /\ head \in 0..N /\ end \in 0..N /\ made \in Nat
  /\ stage # "done" => turn \in 1..N
  /\ stage \in {"capture", "context", "window", "plain"} => made <= Length(turn)
  /\ stage \in {"capture", "finish"} =>
       head \in 1..N /\ end \in 1..N /\ turn <= end /\ Len(buf) <= Size /\ ~Buffered
  /\ stage = "capture" /\ args.kind[turn] # "context" => made = 0
  /\ stage \notin {"capture", "finish"} => buf = <<>>

\* How far the text has come.
Reached ==
  CASE stage = "done" -> Total(args.text) + (IF line THEN 1 ELSE 0)
    [] stage = "dispatch" -> args.text[turn]
    [] stage = "finish" -> args.text[end + 1]
    [] OTHER -> args.text[turn] + made

UpToThere == Printed = Characters(0, Reached)

Simple == \A i \in 1..N : args.kind[i] \in {"scatter", "reserve", "dynamic"}

\* A line of simple arguments to a stream without a put area: not begun, or
\* done with one write.
OneGo ==
  ~Buffered /\ Simple =>
    \/ stage = "dispatch" /\ turn = 1 /\ calls = 0
    \/ stage = "done" /\ calls <= 1

PrintInv == Lasting /\ Stored /\ Course /\ UpToThere /\ OneGo

-----------------------------------------------------------------------------
LEMMA Ground ==
  ASSUME PrintAssumption, Lasting
  PROVE  /\ IsArguments(args) /\ N \in Nat \ {0} /\ Len(args.text) = N + 1
         /\ Total(args.text) = args.text[N + 1]
         /\ Buffered \in BOOLEAN /\ Cap \in Nat /\ MinSize \in 0..Cap
         /\ Window \in Nat \ {0}
<1>1. IsArguments(args) /\ Window \in Nat \ {0} /\ Lines \subseteq BOOLEAN
  BY DEF PrintAssumption, Lasting
<1>2. medium.buffered \in BOOLEAN /\ medium.cap \in Nat /\ medium.minimum \in 0..medium.cap
  BY DEF PrintAssumption, Lasting
<1>3. N \in Nat \ {0} /\ Len(args.text) = N + 1
  <2>1. /\ args.kind \in Seq(Kinds) /\ args.text \in Seq(Nat) /\ Len(args.text) >= 2
        /\ Len(args.text) - 1 = Len(args.kind)
    BY <1>1 DEF IsArguments, IsList, Count
  <2>2. Len(args.kind) \in Nat /\ Len(args.text) \in Nat
    BY <2>1, LenProperties
  <2> QED BY <2>1, <2>2 DEF N
<1>4. Total(args.text) = args.text[N + 1]
  BY <1>3 DEF Total
<1> QED BY <1>1, <1>2, <1>3, <1>4 DEF Buffered, Cap, MinSize

LEMMA ArgumentsAre ==
  ASSUME PrintAssumption, Lasting, NEW i \in 1..N, NEW j \in 1..N, i <= j
  PROVE  /\ args.text[i] \in Nat /\ args.text[j + 1] \in Nat /\ args.text[i] <= args.text[j + 1]
         /\ Bounds(i, j) \in Nat /\ args.text[j + 1] - args.text[i] <= Bounds(i, j)
         /\ Length(j) \in Nat /\ args.text[j + 1] = args.text[j] + Length(j)
         /\ args.text[j] \in Nat /\ Total(args.text) \in Nat
<1>1. IsArguments(args) /\ N \in Nat \ {0} /\ Len(args.text) = N + 1 /\ Total(args.text) = args.text[N + 1]
  BY Ground
<1>2. i \in 1..Len(args.text) /\ j \in 1..Len(args.text) /\ j + 1 \in 1..Len(args.text) /\ i <= j + 1 /\ j <= j + 1
  BY <1>1
<1>3. /\ args.text[i] \in Nat /\ args.text[j + 1] \in Nat /\ args.text[i] <= args.text[j + 1]
      /\ args.room[i] \in Nat /\ args.room[j + 1] \in Nat /\ args.room[i] <= args.room[j + 1]
      /\ args.text[j + 1] - args.text[i] <= args.room[j + 1] - args.room[i]
  BY <1>1, <1>2, TextFits
<1>4. args.text[j] \in Nat /\ args.text[j] <= args.text[j + 1]
  BY <1>1, <1>2, TextFits
<1>5. Total(args.text) \in Nat
  <2>1. N + 1 \in 1..Len(args.text)
    BY <1>1
  <2> QED BY <1>1, <2>1, TextFits
<1> QED BY <1>3, <1>4, <1>5 DEF Bounds, Length

\* The newline is the character behind the text.
LEMMA EndingIs ==
  ASSUME NEW l \in BOOLEAN, NEW a \in Nat, NEW b \in Nat, a <= b, l => b = Total(args.text)
  PROVE  /\ Ending(l) \in Seq(Nat) /\ Len(Ending(l)) = (IF l THEN 1 ELSE 0)
         /\ Characters(a, b) \o Ending(l) = Characters(a, b + (IF l THEN 1 ELSE 0))
<1>1. CASE l
  <2>1. Ending(l) = <<b + 1>>
    BY <1>1 DEF Ending, Newline
  <2>2. Characters(b, b + 1) = <<b + 1>>
    <3>1. /\ Characters(b, b + 1) \in Seq(Nat) /\ Len(Characters(b, b + 1)) = 1
          /\ \A x \in 1..1 : Characters(b, b + 1)[x] = b + x
      <4>1. b + 1 \in Nat /\ b <= b + 1 /\ (b + 1) - b = 1
        OBVIOUS
      <4>2. /\ Characters(b, b + 1) \in Seq(Nat) /\ Len(Characters(b, b + 1)) = (b + 1) - b
            /\ \A x \in 1..((b + 1) - b) : Characters(b, b + 1)[x] = b + x
        BY <4>1, CharactersAre
      <4> QED BY <4>1, <4>2
    <3> QED BY <3>1
  <2>3. Characters(a, b) \o Characters(b, b + 1) = Characters(a, b + 1)
    <3>1. b + 1 \in Nat /\ b <= b + 1
      OBVIOUS
    <3> QED BY <3>1, CharactersJoin
  <2>4. <<b + 1>> \in Seq(Nat) /\ Len(<<b + 1>>) = 1
    OBVIOUS
  <2> QED BY <1>1, <2>1, <2>2, <2>3, <2>4
<1>2. CASE ~l
  <2>1. Ending(l) = <<>>
    BY <1>2 DEF Ending
  <2>2. Characters(a, b) \in Seq(Nat)
    BY CharactersAre
  <2> QED BY <1>2, <2>1, <2>2, JoinEmpty
<1> QED BY <1>1, <1>2

LEMMA WholePiece == ASSUME NEW s \in Seq(Nat) PROVE SubSeq(s, 1, Len(s)) = s
<1>1. Len(s) \in Nat /\ Len(s) \in 0..Len(s) /\ 1 \in Nat \ {0} /\ 1 <= Len(s) + 1
  BY LenProperties
<1> DEFINE t == SubSeq(s, 1, Len(s))
<1>2. t \in Seq(Nat) /\ Len(t) = Len(s) + 1 - 1 /\ \A i \in 1..(Len(s) + 1 - 1) : t[i] = s[1 + i - 1]
  BY <1>1, PieceIs
<1> HIDE DEF t
<1>3. Len(t) = Len(s) /\ \A i \in 1..Len(s) : t[i] = s[i]
  BY <1>1, <1>2
<1>4. t = s
  BY <1>2, <1>3, SeqEqual
<1> QED BY <1>4 DEF t

\* Whatever part of it moves on, a written text is behind what was there.
LEMMA WriteAllIs ==
  ASSUME PrintAssumption, Lasting, Stored, NEW t \in Seq(Nat), WriteAll(t), UNCHANGED given
  PROVE  /\ out' \in Seq(Nat) /\ put' \in Seq(Nat)
         /\ area' \in BOOLEAN /\ calls' \in 0..2 /\ calls' <= calls + 1
         /\ Len(put') <= Cap' /\ (put' # <<>> => area') /\ (~Buffered' => put' = <<>>)
         /\ out' \o put' = (out \o put) \o t
<1>1. Cap' = Cap /\ Buffered' = Buffered /\ Cap \in Nat /\ Buffered \in BOOLEAN
  <2>1. medium' = medium
    BY DEF given
  <2> QED BY <2>1, Ground DEF Cap, Buffered
<1>2. calls' \in 0..2 /\ calls' <= calls + 1
  BY DEF WriteAll, Counted, Stored
<1>3. out \in Seq(Nat) /\ put \in Seq(Nat) /\ area \in BOOLEAN /\ Len(put) <= Cap
  BY DEF Stored
<1>4. CASE Buffered
  <2> DEFINE s == put \o t
  <2>1. PICK k \in 0..Len(s) :
          /\ Len(s) - k <= Cap
          /\ out' = out \o SubSeq(s, 1, k)
          /\ put' = SubSeq(s, k + 1, Len(s))
          /\ area' = (area \/ k < Len(s))
    BY <1>4 DEF WriteAll
  <2>2. s \in Seq(Nat) /\ Len(s) \in Nat
    BY <1>3, JoinIs, LenProperties
  <2> HIDE DEF s
  <2>3. /\ SubSeq(s, 1, k) \in Seq(Nat) /\ SubSeq(s, k + 1, Len(s)) \in Seq(Nat)
        /\ Len(SubSeq(s, k + 1, Len(s))) = Len(s) - k
    <3>1. k \in 0..Len(s) /\ k + 1 \in Nat \ {0} /\ 1 \in Nat \ {0} /\ 1 <= k + 1 /\ k + 1 <= Len(s) + 1
          /\ Len(s) \in 0..Len(s)
      BY <2>2
    <3>2. SubSeq(s, 1, k) \in Seq(Nat)
      BY <2>2, <3>1, PieceIs
    <3>3. SubSeq(s, k + 1, Len(s)) \in Seq(Nat) /\ Len(SubSeq(s, k + 1, Len(s))) = Len(s) + 1 - (k + 1)
      BY <2>2, <3>1, PieceIs
    <3>4. Len(s) + 1 - (k + 1) = Len(s) - k
      BY <2>2
    <3> QED BY <3>2, <3>3, <3>4
  <2>4. SubSeq(s, 1, k) \o SubSeq(s, k + 1, Len(s)) = s
    <3>1. k \in Nat /\ Len(s) \in Nat /\ k <= Len(s) /\ Len(s) <= Len(s)
      BY <2>2
    <3>2. SubSeq(s, 1, k) \o SubSeq(s, k + 1, Len(s)) = SubSeq(s, 1, Len(s))
      BY <2>2, <3>1, PiecesJoin
    <3> QED BY <2>2, <3>2, WholePiece
  <2>5. out' \o put' = out \o s
    <3> DEFINE p == SubSeq(s, 1, k)
               q == SubSeq(s, k + 1, Len(s))
    <3>1. out' = out \o p /\ put' = q /\ p \in Seq(Nat) /\ q \in Seq(Nat) /\ p \o q = s
      BY <2>1, <2>3, <2>4
    <3> HIDE DEF p, q
    <3>2. (out \o p) \o q = out \o (p \o q)
      <4>1. out \in Seq(Nat) /\ p \in Seq(Nat) /\ q \in Seq(Nat)
        BY Zenon, <1>3, <3>1
      <4> QED BY SMTT(30), <4>1, JoinAssociative
    <3>3. out' \o put' = (out \o p) \o q
      BY Zenon, <3>1
    <3> QED BY Zenon, <3>1, <3>2, <3>3
  <2>6. out \o s = (out \o put) \o t
    BY <1>3, JoinAssociative DEF s
  <2>7. out' \in Seq(Nat) /\ put' \in Seq(Nat)
    BY <1>3, <2>1, <2>3, JoinIs
  <2>8. Len(put') <= Cap /\ area' \in BOOLEAN
    BY <1>3, <2>1, <2>3
  <2>9. put' # <<>> => area'
    <3>1. Len(put') = Len(s) - k
      BY <2>1, <2>3
    <3>2. ~(k < Len(s)) => Len(put') = 0
      BY <2>2, <3>1
    <3>3. Len(put') = 0 => put' = <<>>
      BY <2>7, EmptySeq
    <3> QED BY <2>1, <3>2, <3>3
  <2> QED BY <1>1, <1>2, <1>4, <2>5, <2>6, <2>7, <2>8, <2>9
<1>5. CASE ~Buffered
  <2>1. out' = out \o t /\ put' = put /\ area' = area
    BY <1>5 DEF WriteAll
  <2>2. put = <<>>
    BY <1>5 DEF Stored
  <2>3. out' \in Seq(Nat)
    BY <1>3, <2>1, JoinIs
  <2>4. out' \o put' = (out \o put) \o t
    BY <1>3, <2>1, <2>2, <2>3, JoinEmpty
  <2> QED BY <1>1, <1>2, <1>3, <2>1, <2>2, <2>3, <2>4
<1> QED BY <1>1, <1>4, <1>5

-----------------------------------------------------------------------------
(***************************************************************************)
(* The four ways of the text: to the stream, into the capture buffer, to   *)
(* the stream behind the capture buffer's, and into the emptied buffer.    *)
(***************************************************************************)

LEMMA Onward ==
  ASSUME Stored, UpToThere, Reached \in Nat, NEW r \in Nat, Reached <= r,
         Printed' = Printed \o Characters(Reached, r)
  PROVE  Printed' = Characters(0, r)
<1>1. Characters(0, Reached) \o Characters(Reached, r) = Characters(0, r)
  <2>1. 0 \in Nat /\ 0 <= Reached
    OBVIOUS
  <2> QED BY <2>1, CharactersJoin
<1> QED BY <1>1 DEF UpToThere

LEMMA ToStream ==
  ASSUME Stored, UpToThere, Reached \in Nat, NEW r \in Nat, Reached <= r,
         out' \o put' = (out \o put) \o Characters(Reached, r),
         out' \in Seq(Nat), put' \in Seq(Nat), buf = <<>>, buf' = <<>>
  PROVE  Printed' = Characters(0, r)
<1>1. Characters(Reached, r) \in Seq(Nat)
  BY CharactersAre
<1>2. out \o put \in Seq(Nat) /\ out' \o put' \in Seq(Nat)
  BY JoinIs DEF Stored
<1>3. Printed = out \o put /\ Printed' = out' \o put'
  BY <1>2, JoinEmpty DEF Printed
<1>4. Printed' = Printed \o Characters(Reached, r)
  BY <1>3
<1> QED BY <1>4, Onward

LEMMA ToBuffer ==
  ASSUME Stored, UpToThere, Reached \in Nat, NEW r \in Nat, Reached <= r,
         out' = out, put' = put, buf' = buf \o Characters(Reached, r)
  PROVE  Printed' = Characters(0, r) /\ buf' \in Seq(Nat) /\ Len(buf') = Len(buf) + (r - Reached)
<1>1. Characters(Reached, r) \in Seq(Nat) /\ Len(Characters(Reached, r)) = r - Reached
  BY CharactersAre
<1>2. out \o put \in Seq(Nat) /\ buf \in Seq(Nat)
  BY JoinIs DEF Stored
<1>3. Printed' = Printed \o Characters(Reached, r)
  BY <1>1, <1>2, JoinAssociative DEF Printed
<1>4. Printed' = Characters(0, r)
  BY <1>3, Onward
<1> QED BY <1>1, <1>2, <1>4, JoinIs

LEMMA BehindBuffer ==
  ASSUME Stored, UpToThere, Reached \in Nat, NEW r \in Nat, Reached <= r,
         out' \o put' = (out \o put) \o (buf \o Characters(Reached, r)),
         out' \in Seq(Nat), put' \in Seq(Nat), buf' = <<>>
  PROVE  Printed' = Characters(0, r)
<1>1. Characters(Reached, r) \in Seq(Nat)
  BY CharactersAre
<1>2. out \o put \in Seq(Nat) /\ buf \in Seq(Nat) /\ out' \o put' \in Seq(Nat)
  BY JoinIs DEF Stored
<1>3. Printed' = out' \o put'
  BY <1>2, JoinEmpty DEF Printed
<1>4. Printed' = Printed \o Characters(Reached, r)
  BY ZenonT(60), <1>1, <1>2, <1>3, JoinAssociative DEF Printed
<1> QED BY <1>4, Onward

LEMMA IntoEmptied ==
  ASSUME Stored, UpToThere, Reached \in Nat, NEW r \in Nat, Reached <= r,
         out' \o put' = (out \o put) \o buf, buf' = Characters(Reached, r)
  PROVE  Printed' = Characters(0, r) /\ buf' \in Seq(Nat) /\ Len(buf') = r - Reached
<1>1. Printed' = Printed \o Characters(Reached, r)
  BY DEF Printed
<1>2. Printed' = Characters(0, r)
  BY <1>1, Onward
<1> QED BY <1>2, CharactersAre

-----------------------------------------------------------------------------
(***************************************************************************)
(* The steps.                                                              *)
(***************************************************************************)

\* What is fixed, as the steps below use it.
LEMMA Fixed ==
  ASSUME PrintAssumption, Lasting, UNCHANGED given
  PROVE  /\ medium' = medium /\ args' = args /\ line' = line /\ Lasting'
         /\ N' = N /\ Cap' = Cap /\ Buffered' = Buffered /\ Simple' = Simple
         /\ N \in Nat \ {0}
<1>1. medium' = medium /\ args' = args /\ line' = line
  BY DEF given
<1> QED BY <1>1, Ground DEF Lasting, N, Cap, Buffered, Simple

LEMMA ReachedIs == ASSUME PrintAssumption, Lasting, Course PROVE Reached \in Nat
<1>1. N \in Nat \ {0} /\ line \in BOOLEAN
  BY Ground DEF Lasting
<1>2. \A i \in 1..N : args.text[i] \in Nat /\ args.text[i + 1] \in Nat /\ Total(args.text) \in Nat
  BY <1>1, ArgumentsAre
<1>3. Total(args.text) \in Nat
  BY <1>1, <1>2
<1>4. CASE stage = "done"
  BY <1>1, <1>3, <1>4 DEF Reached
<1>5. CASE stage = "dispatch"
  <2>1. turn \in 1..N /\ Reached = args.text[turn]
    BY <1>5 DEF Reached, Course
  <2> QED BY <1>2, <2>1
<1>6. CASE stage = "finish"
  <2>1. end \in 1..N /\ Reached = args.text[end + 1]
    BY <1>6 DEF Reached, Course
  <2> QED BY <1>2, <2>1
<1>7. CASE stage \notin {"done", "dispatch", "finish"}
  <2>1. turn \in 1..N /\ made \in Nat /\ Reached = args.text[turn] + made
    BY <1>7 DEF Reached, Course
  <2> QED BY <1>2, <2>1
<1> QED BY <1>4, <1>5, <1>6, <1>7

\* A line of simple arguments to a stream without a put area meets only the
\* first step of a print.
LEMMA NotSimple ==
  ASSUME PrintAssumption, PrintInv, UNCHANGED given, stage \notin {"dispatch", "done"}
  PROVE  OneGo'
<1>1. ~(~Buffered /\ Simple)
  BY DEF PrintInv, OneGo
<1>2. Buffered' = Buffered /\ Simple' = Simple
  BY Fixed DEF PrintInv
<1> QED BY <1>1, <1>2 DEF OneGo

\* The argument after a printed one, or the end.
LEMMA ThenIs ==
  ASSUME PrintAssumption, PrintInv, UNCHANGED given, UNCHANGED run, NEW j \in 1..N, Then(j),
         buf' = <<>>, made' \in Nat
  PROVE  /\ Course'
         /\ Reached' = args.text[j + 1] + (IF LineAt(j) THEN 1 ELSE 0)
<1>1. /\ args' = args /\ line' = line /\ N' = N /\ N \in Nat \ {0}
  BY Fixed DEF PrintInv
<1>2. head' = head /\ end' = end
  BY DEF run
<1>3. turn' = j + 1 /\ stage' = IF j = N THEN "done" ELSE "dispatch"
  BY DEF Then
<1>4. head \in 0..N /\ end \in 0..N
  BY DEF PrintInv, Course
<1>5. Course'
  BY <1>1, <1>2, <1>3, <1>4 DEF Course
<1>6. Total(args.text) = args.text[N + 1]
  BY Ground DEF PrintInv
<1>7. args.text[j + 1] \in Nat
  BY ArgumentsAre DEF PrintInv
<1>8. CASE j = N
  <2>1. stage' = "done" /\ (LineAt(j) <=> line)
    BY <1>3, <1>8 DEF LineAt
  <2>2. Reached' = Total(args'.text) + (IF line' THEN 1 ELSE 0)
    BY <2>1 DEF Reached
  <2>3. (IF line THEN 1 ELSE 0) = (IF LineAt(j) THEN 1 ELSE 0)
    BY <2>1
  <2>4. Reached' = args.text[j + 1] + (IF line THEN 1 ELSE 0)
    BY <1>1, <1>6, <1>8, <2>2
  <2> QED BY Zenon, <1>5, <2>3, <2>4
<1>9. CASE j # N
  <2>1. stage' = "dispatch" /\ ~LineAt(j) /\ turn' = j + 1
    BY <1>3, <1>9 DEF LineAt
  <2>2. Reached' = args'.text[turn']
    BY <2>1 DEF Reached
  <2>3. (IF LineAt(j) THEN 1 ELSE 0) = 0 /\ args.text[j + 1] + 0 = args.text[j + 1]
    BY <1>7, <2>1
  <2>4. Reached' = args.text[j + 1]
    BY <1>1, <2>1, <2>2
  <2> QED BY Zenon, <1>5, <2>3, <2>4
<1> QED BY <1>5, <1>8, <1>9

\* A text with its newline.
LEMMA TextAndEnding ==
  ASSUME PrintAssumption, Lasting, NEW j \in 1..N, NEW a \in Nat, a <= args.text[j + 1]
  PROVE  /\ LineAt(j) \in BOOLEAN /\ Ending(LineAt(j)) \in Seq(Nat)
         /\ Len(Ending(LineAt(j))) = (IF LineAt(j) THEN 1 ELSE 0)
         /\ Characters(a, args.text[j + 1]) \o Ending(LineAt(j))
              = Characters(a, args.text[j + 1] + (IF LineAt(j) THEN 1 ELSE 0))
         /\ args.text[j + 1] + (IF LineAt(j) THEN 1 ELSE 0) \in Nat
         /\ a <= args.text[j + 1] + (IF LineAt(j) THEN 1 ELSE 0)
<1>1. LineAt(j) \in BOOLEAN
  BY DEF LineAt, Lasting
<1>2. LineAt(j) => args.text[j + 1] = Total(args.text)
  BY Ground DEF LineAt
<1>3. args.text[j + 1] \in Nat
  BY ArgumentsAre
<1> DEFINE l == LineAt(j)
           b == args.text[j + 1]
<1>4. l \in BOOLEAN /\ b \in Nat /\ a <= b /\ (l => b = Total(args.text))
  BY <1>1, <1>2, <1>3
<1> HIDE DEF l, b
<1>5. /\ Ending(l) \in Seq(Nat) /\ Len(Ending(l)) = (IF l THEN 1 ELSE 0)
      /\ Characters(a, b) \o Ending(l) = Characters(a, b + (IF l THEN 1 ELSE 0))
  BY <1>4, EndingIs
<1>6. b + (IF l THEN 1 ELSE 0) \in Nat /\ a <= b + (IF l THEN 1 ELSE 0)
  BY <1>4
<1> QED BY <1>4, <1>5, <1>6 DEF l, b

\* Arguments that reach the stream with one write, from the first not printed
\* to j.
LEMMA WritesRun ==
  ASSUME PrintAssumption, PrintInv, UNCHANGED given, UNCHANGED run, UNCHANGED <<made, buf, over>>,
         stage = "dispatch", NEW j \in turn..N, Then(j),
         WriteAll(Text(turn, j) \o Ending(LineAt(j)))
  PROVE  Stored' /\ Course' /\ UpToThere' /\ calls' <= calls + 1
<1>0. Lasting /\ Stored /\ Course /\ UpToThere /\ buf = <<>> /\ made \in Nat
  BY DEF PrintInv, Course
<1>1. turn \in 1..N /\ j \in 1..N /\ turn <= j
  BY DEF PrintInv, Course
<1>2. args.text[turn] \in Nat /\ args.text[j + 1] \in Nat /\ args.text[turn] <= args.text[j + 1]
  BY <1>0, <1>1, ArgumentsAre
<1> DEFINE r == args.text[j + 1] + (IF LineAt(j) THEN 1 ELSE 0)
<1>3. Reached = args.text[turn]
  BY DEF Reached
<1>4. /\ Text(turn, j) \o Ending(LineAt(j)) = Characters(Reached, r)
      /\ r \in Nat /\ Reached <= r /\ Reached \in Nat
  BY <1>0, <1>1, <1>2, <1>3, TextAndEnding DEF Text
<1> HIDE DEF r
<1>5. WriteAll(Characters(Reached, r)) /\ Characters(Reached, r) \in Seq(Nat)
  BY <1>4, CharactersAre
<1>6. /\ out' \in Seq(Nat) /\ put' \in Seq(Nat) /\ area' \in BOOLEAN /\ calls' \in 0..2 /\ calls' <= calls + 1
      /\ Len(put') <= Cap' /\ (put' # <<>> => area') /\ (~Buffered' => put' = <<>>)
      /\ out' \o put' = (out \o put) \o Characters(Reached, r)
  BY <1>0, <1>5, WriteAllIs
<1>7. Stored'
  BY <1>0, <1>6 DEF Stored
<1>8. Printed' = Characters(0, r)
  BY <1>0, <1>4, <1>6, ToStream
<1>9. Course' /\ Reached' = r
  BY <1>0, <1>1, ThenIs DEF r
<1>10. UpToThere'
  BY <1>8, <1>9 DEF UpToThere
<1> QED BY <1>6, <1>7, <1>9, <1>10

\* A simple line goes in one such write.
LEMMA OneGoThen ==
  ASSUME PrintAssumption, PrintInv, UNCHANGED given, stage = "dispatch", NEW j \in turn..N, Then(j),
         calls' \in 0..2, calls' <= calls + 1, ~Buffered /\ Simple => j = N
  PROVE  OneGo'
<1>1. Buffered' = Buffered /\ Simple' = Simple
  BY Fixed DEF PrintInv
<1>2. ~Buffered /\ Simple => calls = 0
  BY DEF PrintInv, OneGo
<1>3. ~Buffered /\ Simple => stage' = "done"
  BY DEF Then
<1> QED BY <1>1, <1>2, <1>3 DEF OneGo

LEMMA GatherKeeps == ASSUME PrintAssumption, PrintInv, Gather PROVE PrintInv'
<1>0. /\ Lasting /\ stage = "dispatch" /\ GatherEnd >= turn /\ Then(GatherEnd) /\ UNCHANGED given
      /\ UNCHANGED run /\ UNCHANGED <<made, buf, over>>
      /\ WriteAll(Text(turn, GatherEnd) \o Ending(LineAt(GatherEnd)))
  BY DEF Gather, PrintInv
<1>1. turn \in 1..N /\ N \in Nat \ {0}
  BY <1>0, Ground DEF PrintInv, Course
<1>2. GatherEnd \in (turn - 1)..N
  <2>1. N \in Nat
    BY <1>1
  <2> QED BY <1>1, <2>1, RunEndIs DEF GatherEnd
<1>3. GatherEnd \in turn..N
  BY <1>0, <1>1, <1>2
<1>4. Stored' /\ Course' /\ UpToThere' /\ calls' <= calls + 1
  BY <1>0, <1>3, WritesRun
<1>5. ~Buffered /\ Simple => GatherEnd = N
  <2> SUFFICES ASSUME ~Buffered, Simple PROVE GatherEnd = N
    OBVIOUS
  <2>1. \A k \in turn..N : args.kind[k] \in {"scatter", "reserve", "dynamic"}
    BY <1>1 DEF Simple
  <2>2. N \in Nat
    BY <1>1
  <2>3. RunEnd(turn, {"scatter", "reserve", "dynamic"}) = N
    BY <1>1, <2>1, <2>2, RunEndIs
  <2> QED BY <2>3 DEF GatherEnd
<1>6. calls' \in 0..2
  BY <1>4 DEF Stored
<1>7. OneGo'
  BY <1>0, <1>3, <1>4, <1>5, <1>6, OneGoThen
<1>8. Lasting'
  BY <1>0, Fixed
<1> QED BY <1>4, <1>7, <1>8 DEF PrintInv

\* A text in storage of its own size.
LEMMA PutIs ==
  ASSUME PrintAssumption, Lasting, Stored, UNCHANGED given, NEW t \in Seq(Nat), put' = put \o t,
         area' = area, Len(t) <= Remaining
  PROVE  /\ put' \in Seq(Nat) /\ Len(put') <= Cap' /\ (put' # <<>> => area')
         /\ (~Buffered' => put' = <<>>)
<1>1. Cap' = Cap /\ Buffered' = Buffered /\ Cap \in Nat /\ Buffered \in BOOLEAN
  BY Fixed, Ground
<1>2. put \in Seq(Nat) /\ area \in BOOLEAN /\ Len(put) <= Cap /\ (put # <<>> => area)
  BY DEF Stored
<1>3. put' \in Seq(Nat) /\ Len(put') = Len(put) + Len(t) /\ Len(put) \in Nat /\ Len(t) \in Nat
  BY <1>2, JoinIs
<1>4. CASE Buffered /\ area
  <2>1. Len(t) <= Cap - Len(put)
    BY <1>4 DEF Remaining
  <2> QED BY <1>1, <1>2, <1>3, <1>4, <2>1
<1>5. CASE ~(Buffered /\ area)
  <2>1. Len(t) <= 0
    BY <1>5 DEF Remaining
  <2>2. t = <<>>
    BY <1>3, <2>1, EmptySeq
  <2>3. put' = put
    BY <1>2, <2>2, JoinEmpty
  <2>4. ~Buffered => put = <<>>
    BY DEF Stored
  <2> QED BY <1>1, <1>2, <1>3, <2>3, <2>4
<1> QED BY <1>4, <1>5

\* The three ways of a run of reserves.
LEMMA ReserveIs ==
  ASSUME NEW i, NEW j, Reserve(i, j)
  PROVE  LET t == Text(i, j) \o Ending(LineAt(j))
         IN  \/ /\ Buffered /\ Needs(i, j) <= Remaining
                /\ PutDirect(t, Bounds(i, j) + Len(Ending(LineAt(j))))
             \/ /\ Buffered /\ Needs(i, j) < MinSize
                /\ FlushAndPut(t, Needs(i, j))
             \/ WriteAll(t) /\ UNCHANGED over
BY Zenon DEF Reserve

LEMMA ReserveRunKeeps == ASSUME PrintAssumption, PrintInv, ReserveRun PROVE PrintInv'
<1> DEFINE j == IF Buffered /\ args.kind[turn] = "reserve" THEN RunEnd(turn, {"reserve"}) ELSE turn
<1>0. /\ Lasting /\ Stored /\ Course /\ UpToThere /\ stage = "dispatch" /\ Reserve(turn, j) /\ Then(j)
      /\ UNCHANGED given /\ UNCHANGED run /\ UNCHANGED <<made, buf>>
      /\ args.kind[turn] \in {"reserve", "dynamic"} /\ (Buffered \/ turn = N)
  BY DEF ReserveRun, PrintInv
<1>1. turn \in 1..N /\ N \in Nat \ {0} /\ buf = <<>> /\ made \in Nat
  BY <1>0, Ground DEF Course
<1>2. j \in turn..N
  <2>1. CASE Buffered /\ args.kind[turn] = "reserve"
    <3>1. N \in Nat
      BY <1>1
    <3>2. RunEnd(turn, {"reserve"}) \in turn..N
      BY <1>1, <2>1, <3>1, RunEndIs
    <3> QED BY <2>1, <3>2
  <2>2. CASE ~(Buffered /\ args.kind[turn] = "reserve")
    BY <1>1, <2>2
  <2> QED BY <2>1, <2>2
<1>3. ~Buffered => j = N
  BY <1>0
<1> HIDE DEF j
<1>4. j \in 1..N /\ turn <= j
  BY <1>1, <1>2
<1>5. /\ args.text[turn] \in Nat /\ args.text[j + 1] \in Nat /\ args.text[turn] <= args.text[j + 1]
      /\ Bounds(turn, j) \in Nat /\ args.text[j + 1] - args.text[turn] <= Bounds(turn, j)
  BY <1>0, <1>1, <1>4, ArgumentsAre
<1> DEFINE r == args.text[j + 1] + (IF LineAt(j) THEN 1 ELSE 0)
           t == Text(turn, j) \o Ending(LineAt(j))
           n == IF LineAt(j) THEN 1 ELSE 0
<1>6. Reached = args.text[turn]
  BY <1>0 DEF Reached
<1>7. /\ t = Characters(Reached, r) /\ r \in Nat /\ Reached <= r /\ Reached \in Nat
      /\ Len(Ending(LineAt(j))) = n /\ LineAt(j) \in BOOLEAN
  BY <1>0, <1>4, <1>5, <1>6, TextAndEnding DEF Text
<1>8. t \in Seq(Nat) /\ Len(t) <= Bounds(turn, j) + n /\ n \in Nat
  <2>1. t \in Seq(Nat) /\ Len(t) = r - Reached
    BY <1>7, CharactersAre
  <2>2. r = args.text[j + 1] + n /\ n \in Nat
    OBVIOUS
  <2> QED BY <1>5, <1>6, <2>1, <2>2
<1>9. Needs(turn, j) = Bounds(turn, j) + n
  BY DEF Needs
<1> DEFINE F == /\ out' \in Seq(Nat) /\ put' \in Seq(Nat) /\ area' \in BOOLEAN /\ calls' \in 0..2
                /\ calls' <= calls + 1 /\ over' = FALSE
                /\ Len(put') <= Cap' /\ (put' # <<>> => area') /\ (~Buffered' => put' = <<>>)
                /\ out' \o put' = (out \o put) \o t
<1>10. /\ Cap' = Cap /\ Buffered' = Buffered /\ Cap \in Nat /\ MinSize \in 0..Cap
       /\ out \in Seq(Nat) /\ put \in Seq(Nat) /\ area \in BOOLEAN /\ calls \in 0..2 /\ over = FALSE
  BY <1>0, Fixed, Ground DEF Stored
<1> HIDE DEF t, n, r
<1>11. ASSUME Buffered /\ Needs(turn, j) <= Remaining,
              PutDirect(t, Bounds(turn, j) + Len(Ending(LineAt(j))))
       PROVE  F
  <2>2. /\ put' = put \o t /\ area' = area /\ out' = out /\ calls' = calls
        /\ over' = (over \/ Bounds(turn, j) + n > Remaining)
    BY <1>7, <1>11 DEF PutDirect
  <2>3. Remaining \in Int
    BY <1>10, LenProperties DEF Remaining
  <2>4. Bounds(turn, j) + n <= Remaining
    BY <1>9, <1>11
  <2>5. Len(t) \in Nat /\ Len(t) <= Remaining
    BY <1>5, <1>8, <2>3, <2>4, LenProperties
  <2>6. ~(Bounds(turn, j) + n > Remaining)
    BY <1>5, <1>8, <2>3, <2>4
  <2>7. over' = FALSE
    BY Zenon, <1>10, <2>2, <2>6
  <2>8. put' \in Seq(Nat) /\ Len(put') <= Cap' /\ (put' # <<>> => area') /\ (~Buffered' => put' = <<>>)
    BY <1>0, <1>8, <2>2, <2>5, PutIs
  <2>9. out' \o put' = (out \o put) \o t
    BY <1>8, <1>10, <2>2, JoinAssociative
  <2>10. out' \in Seq(Nat) /\ area' \in BOOLEAN /\ calls' \in 0..2 /\ calls' <= calls + 1
    BY <1>10, <2>2
  <2> QED BY Zenon, <2>7, <2>8, <2>9, <2>10
<1>12. ASSUME Buffered /\ Needs(turn, j) < MinSize, FlushAndPut(t, Needs(turn, j))
       PROVE  F
  <2>1. Needs(turn, j) \in Nat
    BY <1>5, <1>8, <1>9
  <2>2. /\ put' = t /\ area' = TRUE /\ out' = out \o put /\ Counted
        /\ over' = (over \/ Needs(turn, j) > Cap)
    BY <1>12 DEF FlushAndPut
  <2>3. calls' \in 0..2 /\ calls' <= calls + 1
    BY <1>10, <2>2 DEF Counted
  <2>4. Needs(turn, j) <= Cap /\ ~(Needs(turn, j) > Cap)
    BY <1>10, <1>12, <2>1
  <2>5. over' = FALSE
    BY Zenon, <1>10, <2>2, <2>4
  <2>6. Len(put') <= Cap'
    <3>1. Len(t) \in Nat
      BY <1>8, LenProperties
    <3>2. Len(t) <= Cap
      BY <1>5, <1>8, <1>9, <1>10, <2>1, <2>4, <3>1
    <3> QED BY <1>10, <2>2, <3>2
  <2>7. out' \in Seq(Nat) /\ put' \in Seq(Nat) /\ area' \in BOOLEAN
    BY <1>8, <1>10, <2>2, JoinIs
  <2>8. out' \o put' = (out \o put) \o t /\ (put' # <<>> => area') /\ (~Buffered' => put' = <<>>)
    BY <1>10, <1>12, <2>2
  <2> QED BY Zenon, <2>3, <2>5, <2>6, <2>7, <2>8
<1>13. ASSUME WriteAll(t) /\ over' = over PROVE F
  <2>1. /\ out' \in Seq(Nat) /\ put' \in Seq(Nat) /\ area' \in BOOLEAN /\ calls' \in 0..2
        /\ calls' <= calls + 1
        /\ Len(put') <= Cap' /\ (put' # <<>> => area') /\ (~Buffered' => put' = <<>>)
        /\ out' \o put' = (out \o put) \o t
    BY <1>0, <1>8, <1>13, WriteAllIs
  <2> QED BY Zenon, <1>10, <1>13, <2>1
<1> HIDE DEF F
<1>14. F
  BY <1>0, <1>11, <1>12, <1>13, ReserveIs DEF t
<1> USE DEF F
<1>15. Stored'
  BY <1>1, <1>0, <1>14 DEF Stored
<1>16. buf' = <<>>
  BY <1>0, <1>1
<1>17. Printed' = Characters(0, r)
  BY <1>0, <1>1, <1>7, <1>14, <1>16, ToStream
<1>18. Course' /\ Reached' = r
  <2>1. made' \in Nat
    BY <1>0, <1>1
  <2> QED BY <1>0, <1>4, <1>16, <2>1, ThenIs DEF r
<1>19. OneGo'
  BY <1>0, <1>2, <1>3, <1>14, OneGoThen
<1>20. Lasting'
  BY <1>0, Fixed
<1> QED BY <1>15, <1>17, <1>18, <1>19, <1>20 DEF PrintInv, UpToThere

\* The capture buffer is as large as its run asks for, as long as it lasts.
LEMMA SizeKept == ASSUME UNCHANGED <<args, head, end>> PROVE Size' = Size
BY DEF Size, CaptureSize, HasKind, Burst, Bounds

LEMMA StartCaptureKeeps == ASSUME PrintAssumption, PrintInv, StartCapture PROVE PrintInv'
<1>0. /\ Lasting /\ Stored /\ Course /\ UpToThere /\ stage = "dispatch" /\ Captures
      /\ stage' = "capture" /\ head' = turn /\ end' = CaptureEnd /\ made' = 0
      /\ UNCHANGED <<given, turn, buf, outlet, over>>
  BY DEF StartCapture, PrintInv
<1>1. turn \in 1..N /\ N \in Nat \ {0} /\ buf = <<>> /\ ~Buffered /\ turn \in 1..(N + 1)
  BY <1>0, Ground DEF Course, Captures
<1>2. /\ args' = args /\ N' = N /\ Cap' = Cap /\ Buffered' = Buffered /\ Lasting' /\ Simple' = Simple
  BY <1>0, Fixed
<1>3. CaptureEnd \in turn..N
  <2>1. PICK k \in turn..CaptureEnd : args.kind[k] = "context"
    BY <1>0 DEF Captures, HasKind
  <2>2. N \in Nat
    BY <1>1
  <2>3. CaptureEnd \in (turn - 1)..N
    BY <1>1, <2>2, RunEndIs DEF CaptureEnd
  <2> QED BY <1>1, <2>1, <2>3
<1>4. out' = out /\ put' = put /\ area' = area /\ calls' = calls /\ over' = over /\ buf' = buf /\ turn' = turn
  BY <1>0 DEF outlet
<1>5. Stored'
  BY <1>0, <1>2, <1>4 DEF Stored
<1>6. Size' \in Nat
  <2>1. IsArguments(args) /\ CaptureEnd \in 1..N
    BY <1>0, <1>1, <1>3, Ground
  <2>2. CaptureSize(turn, CaptureEnd) \in Nat
    BY <1>1, <2>1, CaptureSizeIs
  <2>3. PICK e : e = CaptureEnd
    OBVIOUS
  <2>4. PICK t : t = turn
    OBVIOUS
  <2>5. Size' = CaptureSize(t, e)
    BY <1>0, <1>2, <2>3, <2>4 DEF Size, CaptureSize, HasKind, Burst, Bounds
  <2> QED BY <2>2, <2>3, <2>4, <2>5
<1>7. Course'
  <2>1. Len(buf') = 0
    BY <1>1, <1>4
  <2>2. Len(buf') <= Size'
    BY <1>6, <2>1
  <2>3. Length(turn) \in Nat /\ (Length(turn))' = Length(turn)
    BY <1>0, <1>1, <1>2, <1>4, ArgumentsAre DEF Length
  <2>4. made' <= (Length(turn))' /\ made' \in Nat
    BY <1>0, <2>3
  <2>5. head' \in 1..N' /\ end' \in 1..N' /\ turn' <= end' /\ ~Buffered' /\ turn' \in 1..N' /\ turn' \in 1..(N' + 1)
    BY <1>0, <1>1, <1>2, <1>3, <1>4
  <2>6. head' \in 0..N' /\ end' \in 0..N'
    BY <1>1, <1>2, <2>5
  <2> QED BY <1>0, <2>2, <2>4, <2>5, <2>6 DEF Course
<1>8. UpToThere'
  <2>1. Printed' = Printed
    BY <1>4 DEF Printed
  <2>2. Reached = args.text[turn]
    BY <1>0 DEF Reached
  <2>3. Reached' = args'.text[turn'] + made'
    BY <1>0 DEF Reached
  <2>4. args.text[turn] \in Nat
    BY <1>0, <1>1, ArgumentsAre
  <2>5. Reached' = Reached
    BY <1>0, <1>2, <1>4, <2>2, <2>3, <2>4
  <2> QED BY <1>0, <2>1, <2>5 DEF UpToThere, Characters
<1>9. ~(~Buffered /\ Simple)
  <2>1. \E k \in 1..N : args.kind[k] = "context"
    BY <1>0, <1>1, <1>3 DEF Captures, HasKind
  <2> QED BY <2>1 DEF Simple
<1>10. OneGo'
  BY <1>2, <1>9 DEF OneGo
<1> QED BY <1>2, <1>5, <1>7, <1>8, <1>10 DEF PrintInv

\* One argument alone: it begins with nothing made.
LEMMA SingleKeeps == ASSUME PrintAssumption, PrintInv, Single PROVE PrintInv'
<1>0. /\ Lasting /\ Stored /\ Course /\ UpToThere /\ stage = "dispatch"
      /\ stage' \in {"plain", "context", "window"} /\ made' = 0 /\ args.kind[turn] \in {"context", "plain"}
      /\ UNCHANGED <<given, turn, run, buf, outlet, over>>
  BY DEF Single, PrintInv
<1>1. turn \in 1..N /\ N \in Nat \ {0} /\ buf = <<>> /\ turn \in 1..(N + 1)
  BY <1>0, Ground DEF Course
<1>2. /\ args' = args /\ N' = N /\ Cap' = Cap /\ Buffered' = Buffered /\ Lasting' /\ Simple' = Simple
  BY <1>0, Fixed
<1>3. /\ out' = out /\ put' = put /\ area' = area /\ calls' = calls /\ over' = over /\ buf' = buf
      /\ turn' = turn /\ head' = head /\ end' = end
  BY <1>0 DEF outlet, run
<1>4. Stored'
  BY <1>0, <1>2, <1>3 DEF Stored
<1>5. Course'
  <2>0. Length(turn) \in Nat /\ (Length(turn))' = Length(turn)
    BY <1>0, <1>1, <1>2, <1>3, ArgumentsAre DEF Length
  <2>1. made' <= (Length(turn))' /\ made' \in Nat
    BY <1>0, <2>0
  <2>2. head' \in 0..N' /\ end' \in 0..N'
    BY <1>0, <1>2, <1>3 DEF Course
  <2> QED BY <1>0, <1>1, <1>2, <1>3, <2>1, <2>2 DEF Course
<1>6. UpToThere'
  <2>1. Printed' = Printed
    BY <1>3 DEF Printed
  <2>2. Reached = args.text[turn]
    BY <1>0 DEF Reached
  <2>3. Reached' = args'.text[turn'] + made'
    BY <1>0 DEF Reached
  <2>4. args.text[turn] \in Nat
    BY <1>0, <1>1, ArgumentsAre
  <2>5. Reached' = Reached
    BY <1>0, <1>2, <1>3, <2>2, <2>3, <2>4
  <2> QED BY <1>0, <2>1, <2>5 DEF UpToThere, Characters
<1>7. OneGo'
  <2>1. ~Simple
    BY <1>0, <1>1 DEF Simple
  <2> QED BY <1>2, <2>1 DEF OneGo
<1> QED BY <1>2, <1>4, <1>5, <1>6, <1>7 DEF PrintInv

-----------------------------------------------------------------------------
\* A piece of what a context or a plain argument still has to produce.
LEMMA PieceOf ==
  ASSUME PrintAssumption, Lasting, Course, stage \in {"capture", "context", "window", "plain"},
         NEW k \in Nat, made + k <= Length(turn)
  PROVE  /\ Reached = args.text[turn] + made /\ Reached \in Nat /\ Reached + k \in Nat
         /\ Reached <= Reached + k /\ Piece(k) = Characters(Reached, Reached + k)
         /\ Piece(k) \in Seq(Nat) /\ Len(Piece(k)) = k
         /\ Reached + k <= args.text[turn + 1]
         /\ IsDone(k) => Reached + k = args.text[turn + 1]
         /\ turn \in 1..N /\ N \in Nat \ {0} /\ made \in Nat /\ Length(turn) \in Nat
<1>1. turn \in 1..N /\ N \in Nat \ {0} /\ made \in Nat
  BY Ground DEF Course
<1>2. /\ args.text[turn] \in Nat /\ args.text[turn + 1] = args.text[turn] + Length(turn)
      /\ Length(turn) \in Nat
  BY <1>1, ArgumentsAre
<1>3. Reached = args.text[turn] + made
  BY DEF Reached
<1>4. Reached \in Nat /\ Reached + k \in Nat /\ Reached <= Reached + k
  BY <1>1, <1>2, <1>3
<1>5. Piece(k) = Characters(Reached, Reached + k)
  BY <1>3 DEF Piece
<1>6. Piece(k) \in Seq(Nat) /\ Len(Piece(k)) = k
  BY <1>4, <1>5, CharactersAre
<1>7. Reached + k <= args.text[turn + 1] /\ (IsDone(k) => Reached + k = args.text[turn + 1])
  BY <1>1, <1>2, <1>3 DEF IsDone
<1> QED BY <1>1, <1>2, <1>3, <1>4, <1>5, <1>6, <1>7

\* The argument goes on.
LEMMA GoesOnWith ==
  ASSUME PrintAssumption, PrintInv, UNCHANGED <<given, run, turn>>,
         stage \in {"context", "window", "plain"}, stage' \in {"context", "window", "plain"},
         NEW k \in Nat, made + k <= Length(turn), made' = made + k, buf' = buf, Stored',
         out' \o put' = (out \o put) \o Piece(k)
  PROVE  PrintInv'
<1>1. Lasting /\ Stored /\ Course /\ UpToThere
  BY DEF PrintInv
<1>2. /\ args' = args /\ N' = N /\ Lasting' /\ turn' = turn /\ head' = head /\ end' = end
  BY <1>1, Fixed DEF run
<1>3. /\ Reached \in Nat /\ Reached + k \in Nat /\ Reached <= Reached + k
      /\ Reached = args.text[turn] + made
      /\ Piece(k) = Characters(Reached, Reached + k) /\ turn \in 1..N /\ made \in Nat
  BY <1>1, PieceOf
<1>4. buf = <<>> /\ buf' = <<>> /\ turn \in 1..(N + 1) /\ head \in 0..N /\ end \in 0..N
  BY <1>1 DEF Course
<1>5. Course'
  BY <1>2, <1>3, <1>4 DEF Course, Length
<1>6. out' \in Seq(Nat) /\ put' \in Seq(Nat)
  BY DEF Stored
<1> DEFINE r == Reached + k
<1>7. Reached' = r
  <2>1. Reached' = args'.text[turn'] + made'
    BY DEF Reached
  <2>2. args.text[turn] \in Nat
    <3>1. Lasting /\ turn \in 1..N
      BY <1>1, <1>3
    <3> QED BY <3>1, ArgumentsAre
  <2> QED BY <1>2, <1>3, <2>1, <2>2
<1>8. r \in Nat /\ Reached <= r /\ out' \o put' = (out \o put) \o Characters(Reached, r)
  BY <1>3
<1> HIDE DEF r
<1>9. Printed' = Characters(0, r)
  BY <1>1, <1>3, <1>4, <1>6, <1>8, ToStream
<1>10. UpToThere'
  BY <1>7, <1>9 DEF UpToThere, Characters
<1>11. OneGo'
  BY NotSimple
<1> QED BY <1>2, <1>5, <1>10, <1>11 DEF PrintInv

\* The argument is done, and the newline with it if it is the last.
LEMMA EndsWith ==
  ASSUME PrintAssumption, PrintInv, UNCHANGED <<given, run>>, Then(turn),
         stage \in {"context", "window", "plain"},
         NEW k \in Nat, made + k = Length(turn), made' = made + k, buf' = buf, Stored',
         out' \o put' = (out \o put) \o (Piece(k) \o Ending(LineAt(turn)))
  PROVE  PrintInv'
<1>1. Lasting /\ Stored /\ Course /\ UpToThere
  BY DEF PrintInv
<1>2. Lasting'
  BY <1>1, Fixed
<1>3. made + k <= Length(turn) /\ IsDone(k)
  <2>1. turn \in 1..N
    BY <1>1 DEF Course
  <2>2. Length(turn) \in Nat
    BY <1>1, <2>1, ArgumentsAre
  <2> QED BY <2>2 DEF IsDone
<1>4. /\ Reached \in Nat /\ Reached + k = args.text[turn + 1] /\ Reached <= args.text[turn + 1]
      /\ Piece(k) = Characters(Reached, args.text[turn + 1]) /\ turn \in 1..N /\ made \in Nat
  BY <1>1, <1>3, PieceOf
<1>5. buf = <<>> /\ buf' = <<>> /\ made' \in Nat
  BY <1>1, <1>4 DEF Course
<1> DEFINE r == args.text[turn + 1] + (IF LineAt(turn) THEN 1 ELSE 0)
<1>6. /\ Piece(k) \o Ending(LineAt(turn)) = Characters(Reached, r) /\ r \in Nat /\ Reached <= r
  BY <1>1, <1>4, TextAndEnding
<1>7. Course' /\ Reached' = r
  BY <1>4, <1>5, ThenIs
<1> HIDE DEF r
<1>8. out' \in Seq(Nat) /\ put' \in Seq(Nat)
  BY DEF Stored
<1>9. out' \o put' = (out \o put) \o Characters(Reached, r)
  BY <1>6
<1>10. Printed' = Characters(0, r)
  BY <1>1, <1>4, <1>5, <1>6, <1>8, <1>9, ToStream
<1>11. UpToThere'
  BY <1>7, <1>10 DEF UpToThere, Characters
<1>12. OneGo'
  BY NotSimple
<1> QED BY <1>2, <1>7, <1>11, <1>12 DEF PrintInv

\* What write_all leaves is stored.
LEMMA WriteAllStores ==
  ASSUME PrintAssumption, Lasting, Stored, NEW t \in Seq(Nat), WriteAll(t), UNCHANGED given,
         buf' \in Seq(Nat), over' = over
  PROVE  Stored' /\ out' \o put' = (out \o put) \o t
<1>1. over = FALSE
  BY DEF Stored
<1> QED BY <1>1, WriteAllIs DEF Stored

LEMMA PlainPartKeeps == ASSUME PrintAssumption, PrintInv, PlainPart PROVE PrintInv'
<1>0. /\ Lasting /\ Stored /\ Course /\ stage = "plain" /\ stage' = "plain"
      /\ UNCHANGED given /\ UNCHANGED run /\ turn' = turn /\ buf' = buf /\ over' = over
  BY DEF PlainPart, PrintInv
<1>1. PICK k \in 1..(Length(turn) - made) : WriteAll(Piece(k)) /\ made' = made + k
  BY DEF PlainPart
<1>2. Length(turn) \in Nat /\ made \in Nat
  <2>1. turn \in 1..N
    BY <1>0 DEF Course
  <2> QED BY <1>0, <2>1, ArgumentsAre DEF Course
<1>3. k \in Nat /\ made + k <= Length(turn)
  BY <1>1, <1>2
<1>4. Piece(k) \in Seq(Nat)
  BY <1>0, <1>3, PieceOf
<1>5. Stored' /\ out' \o put' = (out \o put) \o Piece(k)
  <2>1. buf' \in Seq(Nat)
    BY <1>0 DEF Stored
  <2> QED BY <1>0, <1>1, <1>4, <2>1, WriteAllStores
<1> QED BY <1>0, <1>1, <1>3, <1>5, GoesOnWith

LEMMA PlainEndKeeps == ASSUME PrintAssumption, PrintInv, PlainEnd PROVE PrintInv'
<1>0. /\ Lasting /\ Stored /\ Course /\ stage = "plain" /\ made = Length(turn) /\ Then(turn)
      /\ UNCHANGED given /\ UNCHANGED run /\ made' = made /\ buf' = buf /\ over' = over
  BY DEF PlainEnd, PrintInv
<1>1. Length(turn) \in Nat /\ made \in Nat /\ turn \in 1..N
  <2>1. turn \in 1..N
    BY <1>0 DEF Course
  <2> QED BY <1>0, <2>1, ArgumentsAre DEF Course
<1>2. 0 \in Nat /\ made + 0 = Length(turn) /\ made' = made + 0 /\ made + 0 <= Length(turn)
  BY <1>0, <1>1
<1>3. Piece(0) = <<>>
  <2>1. Piece(0) \in Seq(Nat) /\ Len(Piece(0)) = 0
    BY <1>0, <1>2, PieceOf
  <2> QED BY <2>1, EmptySeq
<1>4. Ending(LineAt(turn)) \in Seq(Nat) /\ Piece(0) \o Ending(LineAt(turn)) = Ending(LineAt(turn))
  <2>1. 0 \in Nat /\ args.text[turn + 1] \in Nat /\ 0 <= args.text[turn + 1]
    BY <1>0, <1>1, ArgumentsAre
  <2>2. Ending(LineAt(turn)) \in Seq(Nat)
    BY <1>0, <1>1, <2>1, TextAndEnding
  <2> QED BY <1>3, <2>2, JoinEmpty
<1>5. buf' \in Seq(Nat)
  BY <1>0 DEF Stored
<1>6. Stored' /\ out' \o put' = (out \o put) \o Ending(LineAt(turn))
  <2>1. CASE LineAt(turn)
    <3>1. WriteAll(Ending(LineAt(turn)))
      BY <2>1 DEF PlainEnd, Ending
    <3> QED BY <1>0, <1>4, <1>5, <3>1, WriteAllStores
  <2>2. CASE ~LineAt(turn)
    <3>1. UNCHANGED <<out, put, area, calls>>
      BY <2>2 DEF PlainEnd, outlet
    <3>2. Stored'
      <4>1. Cap' = Cap /\ Buffered' = Buffered
        BY <1>0, Fixed
      <4> QED BY <1>0, <3>1, <4>1 DEF Stored
    <3>3. Ending(LineAt(turn)) = <<>>
      BY <2>2 DEF Ending
    <3>4. out \o put \in Seq(Nat)
      BY <1>0, JoinIs DEF Stored
    <3> QED BY <3>1, <3>2, <3>3, <3>4, JoinEmpty
  <2> QED BY <2>1, <2>2
<1>7. out' \o put' = (out \o put) \o (Piece(0) \o Ending(LineAt(turn)))
  BY Zenon, <1>4, <1>6
<1> QED BY <1>0, <1>2, <1>6, <1>7, EndsWith

LEMMA ContextInPlaceKeeps == ASSUME PrintAssumption, PrintInv, ContextInPlace PROVE PrintInv'
<1>0. /\ Lasting /\ Stored /\ Course /\ stage = "context" /\ stage' \in {"plain", "context"}
      /\ UNCHANGED given /\ UNCHANGED run /\ turn' = turn /\ buf' = buf /\ over' = over
      /\ out' = out /\ area' = area /\ calls' = calls
  BY DEF ContextInPlace, PrintInv
<1>1. PICK k \in Produced(Remaining) : put' = put \o Piece(k) /\ made' = made + k
  BY DEF ContextInPlace
<1>2. Remaining \in Int
  <2>1. Cap \in Nat /\ Len(put) \in Nat
    BY <1>0, Ground, LenProperties DEF Stored
  <2> QED BY <2>1 DEF Remaining
<1>3. k \in Nat /\ k <= Remaining /\ made + k <= Length(turn)
  BY <1>1, <1>2 DEF Produced
<1>4. Piece(k) \in Seq(Nat) /\ Len(Piece(k)) <= Remaining
  BY <1>0, <1>3, PieceOf
<1>5. /\ put' \in Seq(Nat) /\ Len(put') <= Cap' /\ (put' # <<>> => area')
      /\ (~Buffered' => put' = <<>>)
  BY <1>0, <1>1, <1>4, PutIs
<1>6. Stored'
  BY <1>0, <1>5 DEF Stored
<1>7. out' \o put' = (out \o put) \o Piece(k)
  <2>1. out \in Seq(Nat) /\ put \in Seq(Nat)
    BY <1>0 DEF Stored
  <2>2. out \o (put \o Piece(k)) = (out \o put) \o Piece(k)
    BY Zenon, <1>4, <2>1, JoinAssociative
  <2> QED BY Zenon, <1>0, <1>1, <2>2
<1> QED BY <1>0, <1>1, <1>3, <1>6, <1>7, GoesOnWith

LEMMA ContextFlushKeeps == ASSUME PrintAssumption, PrintInv, ContextFlush PROVE PrintInv'
<1>0. /\ Lasting /\ Stored /\ Course /\ stage = "context" /\ stage' \in {"window", "context"}
      /\ UNCHANGED given /\ UNCHANGED run /\ turn' = turn /\ buf' = buf /\ over' = over /\ made' = made
      /\ out' = out \o put /\ put' = <<>> /\ Counted /\ area' = (area \/ Window < MinSize)
  BY DEF ContextFlush, Emptied, PrintInv
<1>1. Length(turn) \in Nat /\ made \in Nat /\ made <= Length(turn)
  <2>1. turn \in 1..N
    BY <1>0 DEF Course
  <2> QED BY <1>0, <2>1, ArgumentsAre DEF Course
<1>2. 0 \in Nat /\ made + 0 <= Length(turn) /\ made' = made + 0
  BY <1>0, <1>1
<1>3. Piece(0) = <<>>
  <2>1. Piece(0) \in Seq(Nat) /\ Len(Piece(0)) = 0
    BY <1>0, <1>2, PieceOf
  <2> QED BY <2>1, EmptySeq
<1>4. out \o put \in Seq(Nat) /\ buf' \in Seq(Nat) /\ over = FALSE /\ area \in BOOLEAN /\ calls \in 0..2
  BY <1>0, JoinIs DEF Stored
<1>5. Cap' = Cap /\ Buffered' = Buffered /\ Cap \in Nat
  BY <1>0, Fixed, Ground
<1>6. Stored'
  <2>1. calls' \in 0..2
    BY <1>0, <1>4 DEF Counted
  <2>2. area' \in BOOLEAN
    BY <1>0
  <2>3. put' \in Seq(Nat) /\ Len(put') <= Cap'
    BY <1>0, <1>5, JoinEmpty
  <2> QED BY <1>0, <1>4, <2>1, <2>2, <2>3 DEF Stored
<1>7. out' \o put' = (out \o put) \o Piece(0)
  BY <1>0, <1>3
<1> QED BY <1>0, <1>2, <1>6, <1>7, GoesOnWith

LEMMA ContextWindowKeeps == ASSUME PrintAssumption, PrintInv, ContextWindow PROVE PrintInv'
<1>0. /\ Lasting /\ Stored /\ Course /\ stage = "window"
      /\ UNCHANGED given /\ UNCHANGED run /\ buf' = buf /\ over' = over
  BY DEF ContextWindow, PrintInv
<1>1. PICK k \in Produced(Window) :
        /\ WriteAll(Piece(k) \o Ending(LineAt(turn) /\ IsDone(k)))
        /\ made' = made + k
        /\ IF IsDone(k) THEN Then(turn) ELSE UNCHANGED <<turn, stage>>
  BY DEF ContextWindow
<1>2. k \in Nat /\ made + k <= Length(turn)
  BY <1>1, Ground, <1>0 DEF Produced
<1>3. /\ Piece(k) \in Seq(Nat) /\ turn \in 1..N
  BY <1>0, <1>2, PieceOf
<1>4. buf' \in Seq(Nat)
  BY <1>0 DEF Stored
<1>5. CASE IsDone(k)
  <2>1. (LineAt(turn) /\ IsDone(k)) = LineAt(turn)
    BY <1>5 DEF LineAt
  <2>2. WriteAll(Piece(k) \o Ending(LineAt(turn)))
    BY Zenon, <1>1, <2>1
  <2>3. Ending(LineAt(turn)) \in Seq(Nat)
    <3>1. 0 \in Nat /\ args.text[turn + 1] \in Nat /\ 0 <= args.text[turn + 1]
      BY <1>0, <1>3, ArgumentsAre
    <3> QED BY <1>0, <1>3, <3>1, TextAndEnding
  <2>4. Piece(k) \o Ending(LineAt(turn)) \in Seq(Nat)
    BY <1>3, <2>3, JoinIs
  <2>5. Stored' /\ out' \o put' = (out \o put) \o (Piece(k) \o Ending(LineAt(turn)))
    BY <1>0, <1>4, <2>2, <2>4, WriteAllStores
  <2>6. made + k = Length(turn) /\ Then(turn)
    BY <1>1, <1>5 DEF IsDone
  <2> QED BY <1>0, <1>1, <1>2, <2>5, <2>6, EndsWith
<1>6. CASE ~IsDone(k)
  <2>1. Ending(LineAt(turn) /\ IsDone(k)) = <<>>
    BY <1>6 DEF Ending
  <2>2. WriteAll(Piece(k))
    BY <1>1, <1>3, <2>1, JoinEmpty
  <2>3. Stored' /\ out' \o put' = (out \o put) \o Piece(k)
    BY <1>0, <1>3, <1>4, <2>2, WriteAllStores
  <2>4. turn' = turn /\ stage' = "window"
    BY <1>0, <1>1, <1>6
  <2> QED BY <1>0, <1>1, <1>2, <2>3, <2>4, GoesOnWith
<1> QED BY <1>5, <1>6

-----------------------------------------------------------------------------
\* While a run is captured, an argument is done and the next one begins.
LEMMA CapturedIs ==
  ASSUME PrintAssumption, PrintInv, UNCHANGED <<given, run>>, stage = "capture",
         NextCaptured, made' \in Nat, turn < end => made' = 0, Len(buf') <= Size
  PROVE  Course' /\ Reached' = args.text[turn + 1] /\ Lasting' /\ OneGo'
<1>0. Lasting /\ Course /\ stage \notin {"dispatch", "done"}
  BY DEF PrintInv
<1>1. /\ args' = args /\ N' = N /\ Lasting' /\ Buffered' = Buffered /\ N \in Nat \ {0}
  BY <1>0, Fixed
<1>2. head' = head /\ end' = end /\ Size' = Size
  BY <1>1, SizeKept DEF run
<1>3. /\ turn \in 1..N /\ head \in 1..N /\ end \in 1..N /\ turn <= end /\ ~Buffered
      /\ head \in 0..N /\ end \in 0..N /\ turn \in 1..(N + 1)
  BY <1>0 DEF Course
<1>4. OneGo'
  BY <1>0, NotSimple
<1>5. CASE turn < end
  <2>1. turn' = turn + 1 /\ stage' = "capture" /\ made' = 0
    BY <1>5 DEF NextCaptured
  <2>2. turn' \in 1..N /\ turn' <= end /\ turn' \in 1..(N + 1)
    BY <1>1, <1>3, <1>5, <2>1
  <2>3. args.text[turn + 1] \in Nat
    BY <1>0, <1>3, ArgumentsAre
  <2>4. Length(turn + 1) \in Nat
    <3>1. turn + 1 \in 1..N
      BY <2>1, <2>2
    <3> QED BY <1>0, <3>1, ArgumentsAre
  <2>5. (Length(turn))' = Length(turn + 1)
    BY <1>1, <2>1 DEF Length
  <2>6. made' <= (Length(turn))'
    BY <2>1, <2>4, <2>5
  <2>7. Course'
    BY <1>1, <1>2, <1>3, <2>1, <2>2, <2>6 DEF Course
  <2>8. Reached' = args'.text[turn'] + made'
    BY <2>1 DEF Reached
  <2>9. Reached' = args.text[turn + 1]
    BY <1>1, <2>1, <2>3, <2>8
  <2> QED BY <1>1, <1>4, <2>7, <2>9
<1>6. CASE ~(turn < end)
  <2>1. turn' = turn /\ stage' = "finish" /\ turn = end
    BY <1>3, <1>6 DEF NextCaptured
  <2>2. Course'
    BY <1>1, <1>2, <1>3, <2>1 DEF Course
  <2>3. Reached' = args'.text[end' + 1]
    BY <2>1 DEF Reached
  <2> QED BY <1>1, <1>2, <1>4, <2>1, <2>2, <2>3
<1> QED BY <1>5, <1>6

\* What holds while a run is captured.
LEMMA CapturingIs ==
  ASSUME PrintAssumption, PrintInv, stage = "capture"
  PROVE  /\ turn \in 1..N /\ Size \in Nat /\ Len(buf) \in Nat /\ Len(buf) <= Size
         /\ made \in Nat /\ made <= Length(turn)
         /\ Bounds(turn, turn) \in Nat /\ Length(turn) <= Bounds(turn, turn)
         /\ args.text[turn + 1] \in Nat
         /\ args.kind[turn] # "context" =>
              /\ Reached = args.text[turn] /\ Reached \in Nat /\ Reached <= args.text[turn + 1]
              /\ Text(turn, turn) = Characters(Reached, args.text[turn + 1])
              /\ args.text[turn + 1] - Reached = Length(turn) /\ made = 0
<1>0. Lasting /\ Stored /\ Course
  BY DEF PrintInv
<1>1. turn \in 1..N /\ head \in 1..N /\ end \in 1..N /\ Len(buf) <= Size /\ made \in Nat /\ made <= Length(turn)
  BY <1>0 DEF Course
<1>2. Size \in Nat
  <2>1. IsArguments(args)
    BY <1>0, Ground
  <2> QED BY <1>1, <2>1, CaptureSizeIs DEF Size
<1>3. /\ args.text[turn] \in Nat /\ args.text[turn + 1] \in Nat /\ args.text[turn] <= args.text[turn + 1]
      /\ Bounds(turn, turn) \in Nat /\ args.text[turn + 1] - args.text[turn] <= Bounds(turn, turn)
      /\ Length(turn) = args.text[turn + 1] - args.text[turn]
  BY <1>0, <1>1, ArgumentsAre DEF Length
<1>4. Len(buf) \in Nat
  BY <1>0, LenProperties DEF Stored
<1>5. ASSUME args.kind[turn] # "context" PROVE Reached = args.text[turn] /\ made = 0
  <2>1. made = 0
    BY <1>0, <1>5 DEF Course
  <2>2. Reached = args.text[turn] + made
    BY DEF Reached
  <2> QED BY <1>3, <2>1, <2>2
<1> QED BY <1>1, <1>2, <1>3, <1>4, <1>5 DEF Text

LEMMA CaptureFitsKeeps == ASSUME PrintAssumption, PrintInv, CaptureFits PROVE PrintInv'
<1>0. /\ Lasting /\ Stored /\ Course /\ UpToThere /\ stage = "capture" /\ NextCaptured
      /\ UNCHANGED given /\ UNCHANGED run /\ made' = made /\ UNCHANGED outlet
      /\ buf' = buf \o Text(turn, turn) /\ over' = (over \/ Bounds(turn, turn) > Room)
      /\ args.kind[turn] # "context" /\ Bounds(turn, turn) <= Room
  BY DEF CaptureFits, PrintInv, FitsBehind
<1> DEFINE r == args.text[turn + 1]
<1>1. /\ turn \in 1..N /\ Size \in Nat /\ Len(buf) \in Nat /\ made = 0
      /\ Bounds(turn, turn) \in Nat /\ Length(turn) <= Bounds(turn, turn)
      /\ r \in Nat /\ Reached \in Nat /\ Reached <= r /\ r - Reached = Length(turn)
      /\ Text(turn, turn) = Characters(Reached, r)
  BY <1>0, CapturingIs
<1> HIDE DEF r
<1>2. out' = out /\ put' = put /\ area' = area /\ calls' = calls
  BY <1>0 DEF outlet
<1>3. Printed' = Characters(0, r) /\ buf' \in Seq(Nat) /\ Len(buf') = Len(buf) + (r - Reached)
  BY <1>0, <1>1, <1>2, ToBuffer
<1>4. Len(buf') <= Size /\ ~(Bounds(turn, turn) > Room)
  BY <1>0, <1>1, <1>3 DEF Room
<1>5. over' = FALSE
  BY Zenon, <1>0, <1>4 DEF Stored
<1>6. Stored'
  <2>1. Cap' = Cap /\ Buffered' = Buffered
    BY <1>0, Fixed
  <2> QED BY <1>0, <1>2, <1>3, <1>5, <2>1 DEF Stored
<1>7. Course' /\ Reached' = r /\ Lasting' /\ OneGo'
  <2>1. made' \in Nat /\ made' = 0
    BY <1>0, <1>1
  <2> QED BY <1>0, <1>4, <2>1, CapturedIs DEF r
<1> QED BY <1>3, <1>6, <1>7 DEF PrintInv, UpToThere, Characters

LEMMA CaptureFlushesKeeps == ASSUME PrintAssumption, PrintInv, CaptureFlushes PROVE PrintInv'
<1>0. /\ Lasting /\ Stored /\ Course /\ UpToThere /\ stage = "capture" /\ NextCaptured
      /\ UNCHANGED given /\ UNCHANGED run /\ made' = made /\ over' = over
      /\ args.kind[turn] # "context"
  BY DEF CaptureFlushes, PrintInv
<1> DEFINE r == args.text[turn + 1]
           t == Text(turn, turn)
<1>1. /\ turn \in 1..N /\ Size \in Nat /\ Len(buf) \in Nat /\ made = 0
      /\ Bounds(turn, turn) \in Nat /\ Length(turn) <= Bounds(turn, turn)
      /\ r \in Nat /\ Reached \in Nat /\ Reached <= r /\ r - Reached = Length(turn)
      /\ t = Characters(Reached, r)
  BY <1>0, CapturingIs
<1>2. \/ Bounds(turn, turn) <= Size /\ ((buf = <<>> /\ UNCHANGED outlet) \/ WriteAll(buf)) /\ buf' = t
      \/ buf' = <<>> /\ WriteAll(buf \o t)
  BY DEF CaptureFlushes, FlushFirst
<1> HIDE DEF r, t
<1>3. buf \in Seq(Nat) /\ t \in Seq(Nat) /\ out \o put \in Seq(Nat)
  BY <1>0, <1>1, CharactersAre, JoinIs DEF Stored
<1>4. ASSUME Bounds(turn, turn) <= Size, (buf = <<>> /\ UNCHANGED outlet) \/ WriteAll(buf), buf' = t
      PROVE  Stored' /\ Printed' = Characters(0, r) /\ Len(buf') <= Size
  <2>1. Stored' /\ out' \o put' = (out \o put) \o buf
    <3>1. CASE WriteAll(buf)
      BY <1>0, <1>3, <1>4, <3>1, WriteAllStores
    <3>2. CASE buf = <<>> /\ UNCHANGED outlet
      <4>1. Cap' = Cap /\ Buffered' = Buffered
        BY <1>0, Fixed
      <4>2. UNCHANGED <<out, put, area, calls>>
        BY <3>2 DEF outlet
      <4>3. out' \o put' = (out \o put) \o buf
        BY <1>3, <3>2, <4>2, JoinEmpty
      <4> QED BY <1>0, <1>3, <1>4, <4>1, <4>2, <4>3 DEF Stored
    <3> QED BY <1>4, <3>1, <3>2
  <2>2. Printed' = Characters(0, r) /\ Len(buf') = r - Reached
    BY <1>0, <1>1, <1>4, <2>1, IntoEmptied
  <2>3. Len(buf') <= Size
    BY <1>1, <1>4, <2>2
  <2> QED BY <2>1, <2>2, <2>3
<1>5. ASSUME buf' = <<>>, WriteAll(buf \o t)
      PROVE  Stored' /\ Printed' = Characters(0, r) /\ Len(buf') <= Size
  <2>1. buf \o t \in Seq(Nat) /\ buf' \in Seq(Nat)
    BY <1>3, <1>5, JoinIs, JoinEmpty
  <2>2. Stored' /\ out' \o put' = (out \o put) \o (buf \o t)
    BY <1>0, <1>5, <2>1, WriteAllStores
  <2>3. out' \in Seq(Nat) /\ put' \in Seq(Nat)
    BY <2>2 DEF Stored
  <2>4. out' \o put' = (out \o put) \o (buf \o Characters(Reached, r))
    BY Zenon, <1>1, <2>2
  <2>5. Printed' = Characters(0, r)
    BY <1>0, <1>1, <1>5, <2>3, <2>4, BehindBuffer
  <2> QED BY <1>1, <1>5, <2>2, <2>5, JoinEmpty
<1>6. Stored' /\ Printed' = Characters(0, r) /\ Len(buf') <= Size
  BY Zenon, <1>2, <1>4, <1>5
<1>7. Course' /\ Reached' = r /\ Lasting' /\ OneGo'
  <2>1. made' \in Nat /\ made' = 0
    BY <1>0, <1>1
  <2> QED BY <1>0, <1>6, <2>1, CapturedIs DEF r
<1> QED BY <1>6, <1>7 DEF PrintInv, UpToThere, Characters

LEMMA CaptureContextKeeps == ASSUME PrintAssumption, PrintInv, CaptureContext PROVE PrintInv'
<1>0. /\ Lasting /\ Stored /\ Course /\ UpToThere /\ stage = "capture" /\ args.kind[turn] = "context"
      /\ UNCHANGED given /\ UNCHANGED run /\ over' = over
  BY DEF CaptureContext, PrintInv
<1>1. /\ args' = args /\ N' = N /\ Lasting' /\ Cap' = Cap /\ Buffered' = Buffered /\ N \in Nat \ {0}
  BY <1>0, Fixed
<1>2. head' = head /\ end' = end /\ Size' = Size
  BY <1>0, <1>1, SizeKept DEF run
<1>3. /\ turn \in 1..N /\ Size \in Nat /\ Len(buf) \in Nat /\ Len(buf) <= Size
      /\ made \in Nat /\ made <= Length(turn) /\ Room = Size - Len(buf) /\ buf \in Seq(Nat)
  BY <1>0, CapturingIs DEF Room, Stored
<1>4. OneGo'
  BY <1>0, NotSimple
<1>5. ASSUME WriteAll(buf), buf' = <<>>, UNCHANGED <<made, turn, stage>> PROVE PrintInv'
  <2>1. buf' \in Seq(Nat) /\ Len(buf') = 0
    BY <1>5, JoinEmpty
  <2>2. Stored' /\ out' \o put' = (out \o put) \o buf
    BY <1>0, <1>3, <1>5, <2>1, WriteAllStores
  <2>3. Course'
    <3>1. Len(buf') <= Size'
      BY <1>2, <1>3, <2>1
    <3>2. made' <= (Length(turn))'
      BY <1>1, <1>3, <1>5 DEF Length
    <3> QED BY <1>0, <1>1, <1>2, <1>5, <3>1, <3>2 DEF Course
  <2>4. Printed' = Printed /\ Reached' = Reached
    <3>1. out' \o put' \in Seq(Nat)
      BY <2>2, JoinIs DEF Stored
    <3>2. Printed' = out' \o put'
      BY <1>5, <3>1, JoinEmpty DEF Printed
    <3>3. Reached' = args'.text[turn'] + made' /\ Reached = args.text[turn] + made
      BY <1>0, <1>5 DEF Reached
    <3> QED BY <1>1, <1>5, <2>2, <3>2, <3>3 DEF Printed
  <2>5. UpToThere'
    BY <1>0, <2>4 DEF UpToThere, Characters
  <2> QED BY <1>1, <1>4, <2>2, <2>3, <2>5 DEF PrintInv
<1>6. ASSUME Room # 0, NEW k \in Produced(Room), buf' = buf \o Piece(k), UNCHANGED outlet,
             \/ IsDone(k) /\ made' = 0 /\ NextCaptured
             \/ ~IsDone(k) /\ made' = made + k /\ UNCHANGED <<turn, stage>>
      PROVE  PrintInv'
  <2>1. k \in Nat /\ k <= Room /\ made + k <= Length(turn)
    BY <1>3 DEF Produced
  <2> DEFINE r == Reached + k
  <2>2. /\ Reached \in Nat /\ r \in Nat /\ Reached <= r /\ Piece(k) = Characters(Reached, r)
        /\ Reached = args.text[turn] + made /\ r - Reached = k
        /\ (IsDone(k) => r = args.text[turn + 1])
    BY <1>0, <2>1, PieceOf
  <2> HIDE DEF r
  <2>3. out' = out /\ put' = put /\ area' = area /\ calls' = calls
    BY <1>6 DEF outlet
  <2>4. buf' = buf \o Characters(Reached, r)
    BY <1>6, <2>2
  <2>5. Printed' = Characters(0, r) /\ buf' \in Seq(Nat) /\ Len(buf') = Len(buf) + (r - Reached)
    BY <1>0, <2>2, <2>3, <2>4, ToBuffer
  <2>6. Len(buf') <= Size
    BY <1>3, <2>1, <2>2, <2>5
  <2>7. Stored'
    BY <1>0, <1>1, <2>3, <2>5 DEF Stored
  <2>8. CASE IsDone(k) /\ made' = 0 /\ NextCaptured
    <3>1. made' \in Nat
      BY <2>8
    <3>2. Course' /\ Reached' = args.text[turn + 1]
      BY <1>0, <2>6, <2>8, <3>1, CapturedIs
    <3> QED BY <1>1, <1>4, <2>2, <2>5, <2>7, <2>8, <3>2 DEF PrintInv, UpToThere, Characters
  <2>9. CASE ~IsDone(k) /\ made' = made + k /\ UNCHANGED <<turn, stage>>
    <3>1. Course'
      <4>1. Len(buf') <= Size'
        BY <1>2, <2>6
      <4>2. made' <= (Length(turn))' /\ made' \in Nat
        BY <1>1, <1>3, <2>1, <2>9 DEF Length
      <4> QED BY <1>0, <1>1, <1>2, <2>9, <4>1, <4>2 DEF Course
    <3>2. Reached' = args'.text[turn'] + made'
      BY <1>0, <2>9 DEF Reached
    <3>3. args.text[turn] \in Nat
      BY <1>0, <1>3, ArgumentsAre
    <3>5. /\ args'.text[turn'] = args.text[turn] /\ made' = made + k
          /\ Reached = args.text[turn] + made /\ r = Reached + k
      <4>1. args' = args /\ turn' = turn /\ made' = made + k
        BY <1>1, <2>9
      <4>2. r = Reached + k
        BY DEF r
      <4> QED BY <2>2, <4>1, <4>2
    <3>6. k \in Nat /\ made \in Nat
      BY <1>3, <2>1
    <3>4. Reached' = r
      BY <3>2, <3>3, <3>5, <3>6
    <3> QED BY <1>1, <1>4, <2>5, <2>7, <3>1, <3>4 DEF PrintInv, UpToThere, Characters
  <2> QED BY <1>6, <2>8, <2>9
<1>7. CASE Room = 0
  BY <1>5, <1>7 DEF CaptureContext
<1>8. CASE Room # 0
  <2>1. /\ UNCHANGED outlet
        /\ \E k \in Produced(Room) :
             /\ buf' = buf \o Piece(k)
             /\ \/ IsDone(k) /\ made' = 0 /\ NextCaptured
                \/ ~IsDone(k) /\ made' = made + k /\ UNCHANGED <<turn, stage>>
    BY <1>8 DEF CaptureContext
  <2> QED BY <1>6, <1>8, <2>1
<1> QED BY <1>7, <1>8

LEMMA CaptureEndsKeeps == ASSUME PrintAssumption, PrintInv, CaptureEnds PROVE PrintInv'
<1>0. /\ Lasting /\ Stored /\ Course /\ UpToThere /\ stage = "finish" /\ Then(end) /\ buf' = <<>>
      /\ UNCHANGED given /\ UNCHANGED run /\ over' = over /\ made' = made
  BY DEF CaptureEnds, PrintInv
<1> DEFINE r == args.text[end + 1] + (IF LineAt(end) THEN 1 ELSE 0)
           n == Ending(LineAt(end))
<1>1. end \in 1..N /\ made' \in Nat /\ Reached = args.text[end + 1] /\ buf \in Seq(Nat)
  BY <1>0 DEF Course, Reached, Stored
<1>2. Reached \in Nat /\ Reached <= args.text[end + 1]
  BY <1>0, <1>1, ArgumentsAre
<1>3. n \in Seq(Nat) /\ r \in Nat /\ Reached <= r /\ n = Characters(Reached, r)
  <2>1. /\ n \in Seq(Nat) /\ r \in Nat /\ Reached <= r
        /\ Characters(Reached, args.text[end + 1]) \o n = Characters(Reached, r)
    BY <1>0, <1>1, <1>2, TextAndEnding
  <2>2. Characters(Reached, args.text[end + 1]) = <<>>
    BY <1>1, <1>2, CharactersAre
  <2> QED BY <2>1, <2>2, JoinEmpty
<1>4. Course' /\ Reached' = r
  BY <1>0, <1>1, ThenIs
<1>5. Lasting'
  BY <1>0, Fixed
<1>6. OneGo'
  BY <1>0, NotSimple
<1>7. (buf = <<>> /\ ~LineAt(end) /\ UNCHANGED outlet) \/ WriteAll(buf \o n)
  BY DEF CaptureEnds
<1>8. buf = <<>> /\ ~LineAt(end) => n = <<>>
  BY DEF Ending
<1> HIDE DEF r, n
<1>9. buf' \in Seq(Nat) /\ buf \o n \in Seq(Nat) /\ out \o put \in Seq(Nat)
  BY <1>0, <1>1, <1>3, JoinEmpty, JoinIs DEF Stored
<1>10. Stored' /\ out' \o put' = (out \o put) \o (buf \o n)
  <2>1. CASE WriteAll(buf \o n)
    BY <1>0, <1>9, <2>1, WriteAllStores
  <2>2. CASE buf = <<>> /\ ~LineAt(end) /\ UNCHANGED outlet
    <3>1. Cap' = Cap /\ Buffered' = Buffered
      BY <1>0, Fixed
    <3>2. UNCHANGED <<out, put, area, calls>>
      BY <2>2 DEF outlet
    <3>3. buf \o n = <<>>
      BY <1>3, <1>8, <2>2, JoinEmpty
    <3>4. out' \o put' = (out \o put) \o (buf \o n)
      BY <1>9, <3>2, <3>3, JoinEmpty
    <3> QED BY <1>0, <1>9, <3>1, <3>2, <3>4 DEF Stored
  <2> QED BY <1>7, <2>1, <2>2
<1>11. out' \in Seq(Nat) /\ put' \in Seq(Nat)
  BY <1>10 DEF Stored
<1>12. out' \o put' = (out \o put) \o (buf \o Characters(Reached, r))
  BY Zenon, <1>3, <1>10
<1>13. Printed' = Characters(0, r)
  BY <1>0, <1>2, <1>3, <1>11, <1>12, BehindBuffer
<1> QED BY <1>4, <1>5, <1>6, <1>10, <1>13 DEF PrintInv, UpToThere, Characters

-----------------------------------------------------------------------------
LEMMA PrintInvInit == ASSUME PrintAssumption, PrintInit PROVE PrintInv
<1>1. Lasting
  BY DEF PrintInit, PrintAssumption, Lasting
<1>2. N \in Nat \ {0} /\ Cap \in Nat
  BY <1>1, Ground
<1>3. Stored
  <2>1. /\ out = <<>> /\ put = <<>> /\ buf = <<>> /\ area = FALSE /\ calls = 0 /\ over = FALSE
    BY DEF PrintInit
  <2>2. Len(put) = 0 /\ 0 <= Cap /\ area \in BOOLEAN /\ calls \in 0..2
    <3>1. Len(put) = 0 /\ 0 <= Cap /\ calls \in 0..2
      BY <1>2, <2>1
    <3>2. area \in BOOLEAN
      BY Zenon, <2>1
    <3> QED BY <3>1, <3>2
  <2>3. Len(put) <= Cap
    BY <2>2
  <2> QED BY <2>1, <2>2, <2>3, JoinEmpty DEF Stored
<1>4. Course
  BY <1>2 DEF PrintInit, Course
<1>5. UpToThere
  <2>1. Reached = args.text[1]
    BY DEF PrintInit, Reached
  <2>2. args.text[1] = 0
    BY <1>1, Ground DEF IsArguments, IsList
  <2>3. Characters(0, 0) = <<>>
    BY CharactersAre
  <2>4. Printed = <<>>
    BY JoinEmpty DEF PrintInit, Printed
  <2> QED BY <2>1, <2>2, <2>3, <2>4 DEF UpToThere
<1>6. OneGo
  BY DEF PrintInit, OneGo
<1> QED BY <1>1, <1>3, <1>4, <1>5, <1>6 DEF PrintInv

LEMMA PrintInvNext == ASSUME PrintAssumption, PrintInv, [PrintNext]_printVars PROVE PrintInv'
<1>1. ASSUME UNCHANGED printVars PROVE PrintInv'
  <2>1. UNCHANGED <<medium, args, line, turn, stage, head, end, made, buf, put, area, out, calls, over>>
    BY <1>1 DEF printVars, given, run, outlet
  <2>2. Size' = Size
    BY <2>1, SizeKept
  <2>3. UNCHANGED <<Lasting, Stored, OneGo>>
    BY <2>1 DEF Lasting, Stored, OneGo, Cap, Buffered, Simple, N
  <2>4. UNCHANGED Course
    BY <2>1, <2>2 DEF Course, N, Length, Buffered
  <2>5. UNCHANGED UpToThere
    BY <2>1 DEF UpToThere, Printed, Characters, Reached, Total
  <2> QED BY <2>3, <2>4, <2>5 DEF PrintInv
<1> QED BY <1>1, StartCaptureKeeps, GatherKeeps, ReserveRunKeeps, SingleKeeps, PlainPartKeeps,
          PlainEndKeeps, ContextInPlaceKeeps, ContextFlushKeeps, ContextWindowKeeps,
          CaptureFitsKeeps, CaptureFlushesKeeps, CaptureContextKeeps, CaptureEndsKeeps DEF PrintNext

\* The invariant says what was wanted.
LEMMA PrintInvSays == ASSUME PrintAssumption, PrintInv PROVE PrintsInOrder
<1>0. Lasting /\ Stored /\ Course /\ UpToThere /\ OneGo
  BY DEF PrintInv
<1>1. PrintTypeOK
  <2>1. calls \in Nat /\ area \in BOOLEAN /\ over \in BOOLEAN /\ Len(put) <= Cap /\ (put # <<>> => area)
    <3>1. /\ calls \in 0..2 /\ area \in BOOLEAN /\ over = FALSE
          /\ Len(put) <= Cap /\ (put # <<>> => area)
      BY <1>0 DEF Stored
    <3>2. over \in BOOLEAN
      BY Zenon, <3>1
    <3>3. calls \in Nat
      BY <3>1
    <3> QED BY <3>1, <3>2, <3>3
  <2>2. /\ turn \in 1..(N + 1) /\ head \in 0..N /\ end \in 0..N /\ made \in Nat
        /\ stage \in {"dispatch", "capture", "finish", "context", "window", "plain", "done"}
        /\ stage \in {"capture", "finish"} => Len(buf) <= Size
    BY <1>0 DEF Course
  <2> QED BY <2>1, <2>2 DEF PrintTypeOK
<1>2. EnoughRoom
  BY <1>0 DEF Stored, EnoughRoom
<1>3. OneWrite
  BY <1>0 DEF OneGo, OneWrite, Simple
<1> DEFINE l == IF line THEN 1 ELSE 0
           whole == args.text[N + 1] + l
<1>4. /\ N \in Nat \ {0} /\ Total(args.text) = args.text[N + 1] /\ args.text[1] = 0 /\ line \in BOOLEAN
      /\ N \in 1..N /\ 1 \in 1..N
  BY <1>0, Ground DEF IsArguments, IsList, Lasting
<1>5. args.text[N + 1] \in Nat /\ l \in Nat /\ whole \in Nat
  BY <1>0, <1>4, ArgumentsAre
<1>6. Whole = Characters(0, whole)
  <2>1. 0 \in Nat /\ 0 <= args.text[N + 1] /\ (line => args.text[N + 1] = Total(args.text))
    BY <1>4, <1>5
  <2>2. Characters(0, args.text[N + 1]) \o Ending(line) = Characters(0, whole)
    <3> DEFINE b == args.text[N + 1]
    <3>1. line \in BOOLEAN /\ 0 \in Nat /\ b \in Nat /\ 0 <= b /\ (line => b = Total(args.text))
      BY <1>4, <1>5, <2>1
    <3> HIDE DEF b
    <3>2. Characters(0, b) \o Ending(line) = Characters(0, b + (IF line THEN 1 ELSE 0))
      BY <3>1, EndingIs
    <3> QED BY <3>2 DEF b
  <2> QED BY <1>4, <2>2 DEF Whole, Text
<1>7. Reached \in Nat /\ Reached <= whole
  <2>1. Reached \in Nat
    BY <1>0, ReachedIs
  <2>2. \A i \in 1..N : args.text[i + 1] \in Nat /\ args.text[i + 1] <= args.text[N + 1]
    <3> SUFFICES ASSUME NEW i \in 1..N PROVE args.text[i + 1] \in Nat /\ args.text[i + 1] <= args.text[N + 1]
      OBVIOUS
    <3>1. IsArguments(args) /\ i + 1 \in 1..Len(args.text) /\ N + 1 \in 1..Len(args.text) /\ i + 1 <= N + 1
      BY <1>0, <1>4, Ground
    <3> QED BY <3>1, TextFits
  <2>3. CASE stage = "done"
    BY <1>4, <1>5, <2>3 DEF Reached
  <2>4. CASE stage = "finish"
    <3>1. end \in 1..N /\ Reached = args.text[end + 1]
      BY <1>0, <2>4 DEF Course, Reached
    <3> QED BY <1>5, <2>2, <3>1
  <2>5. CASE stage = "dispatch"
    <3>1. turn \in 1..N /\ Reached = args.text[turn]
      BY <1>0, <2>5 DEF Course, Reached
    <3>2. args.text[turn] \in Nat /\ args.text[turn] <= args.text[N + 1]
      <4>1. turn <= N /\ Lasting
        BY <1>0, <1>4, <3>1
      <4> QED BY <1>4, <3>1, <4>1, ArgumentsAre
    <3> QED BY <1>5, <3>1, <3>2
  <2>6. CASE stage \notin {"done", "finish", "dispatch"}
    <3>1. turn \in 1..N /\ Reached = args.text[turn] + made /\ made \in Nat /\ made <= Length(turn)
      BY <1>0, <2>6 DEF Course, Reached
    <3>2. args.text[turn] \in Nat /\ args.text[turn + 1] = args.text[turn] + Length(turn) /\ Length(turn) \in Nat
      BY <1>0, <3>1, ArgumentsAre
    <3>3. args.text[turn + 1] <= args.text[N + 1]
      BY <2>2, <3>1
    <3> QED BY <1>5, <3>1, <3>2, <3>3
  <2> QED BY <2>3, <2>4, <2>5, <2>6
<1> HIDE DEF whole, l
<1> DEFINE p == Characters(0, Reached)
           w == Characters(0, whole)
<1>8. /\ p \in Seq(Nat) /\ Len(p) = Reached /\ \A x \in 1..Reached : p[x] = x
      /\ w \in Seq(Nat) /\ Len(w) = whole /\ \A x \in 1..whole : w[x] = x
  <2>1. /\ 0 <= Reached /\ 0 <= whole /\ 0 \in Nat /\ Reached - 0 = Reached /\ whole - 0 = whole
        /\ \A x \in 1..Reached : 0 + x = x
        /\ \A x \in 1..whole : 0 + x = x
    BY <1>5, <1>7
  <2>2. p \in Seq(Nat) /\ Len(p) = Reached - 0 /\ \A x \in 1..(Reached - 0) : p[x] = 0 + x
    BY <1>7, <2>1, CharactersAre
  <2>3. w \in Seq(Nat) /\ Len(w) = whole - 0 /\ \A x \in 1..(whole - 0) : w[x] = 0 + x
    BY <1>5, <2>1, CharactersAre
  <2> QED BY <2>1, <2>2, <2>3
<1> HIDE DEF p, w
<1>9. SubSeq(w, 1, Len(p)) = p
  <2>1. Reached \in 0..Len(w) /\ 1 <= Reached + 1 /\ 1 \in Nat \ {0}
    BY <1>5, <1>7, <1>8
  <2>2. /\ SubSeq(w, 1, Reached) \in Seq(Nat) /\ Len(SubSeq(w, 1, Reached)) = Reached + 1 - 1
        /\ \A i \in 1..(Reached + 1 - 1) : SubSeq(w, 1, Reached)[i] = w[1 + i - 1]
    BY <1>8, <2>1, PieceIs
  <2>3. Len(SubSeq(w, 1, Reached)) = Len(p) /\ \A i \in 1..Len(p) : SubSeq(w, 1, Reached)[i] = p[i]
    <3>1. Reached + 1 - 1 = Reached /\ \A i \in 1..Reached : 1 + i - 1 = i /\ i \in 1..whole
      BY <1>5, <1>7
    <3> QED BY <1>8, <2>2, <3>1
  <2>4. SubSeq(w, 1, Reached) = p
    BY <1>8, <2>2, <2>3, SeqEqual
  <2> QED BY <1>8, <2>4
<1>10. IsPrefix(p, w)
  <2>1. SubSeq(p, 1, Len(p)) = p
    BY <1>8, WholePiece
  <2> QED BY <1>7, <1>8, <1>9, <2>1 DEF IsPrefix
<1>11. Printed = p /\ Whole = w
  BY <1>0, <1>6 DEF UpToThere, p, w
<1>12. stage = "done" => Printed = Whole /\ buf = <<>>
  <2> SUFFICES ASSUME stage = "done" PROVE Printed = Whole /\ buf = <<>>
    OBVIOUS
  <2>1. Reached = whole
    BY <1>4 DEF Reached, whole, l
  <2>2. buf = <<>>
    BY <1>0 DEF Course
  <2> QED BY <1>11, <2>1, <2>2 DEF p, w
<1>13. TextInOrder
  BY <1>10, <1>11, <1>12 DEF TextInOrder
<1> QED BY <1>1, <1>2, <1>3, <1>13 DEF PrintsInOrder

(***************************************************************************)
(* print and println: the text of any list of arguments comes out in       *)
(* order, complete at the end, with one newline behind it; no argument is  *)
(* given less storage than it may use; and a line of ranges and reserves   *)
(* is one write where there is no put area.                                *)
(***************************************************************************)
THEOREM PrintedInOrder == PrintSpec => []PrintsInOrder
<1>1. PrintInit => PrintInv
  BY PrintAssumption, PrintInvInit
<1>2. PrintInv /\ [PrintNext]_printVars => PrintInv'
  BY PrintAssumption, PrintInvNext
<1>3. PrintInv => PrintsInOrder
  BY PrintAssumption, PrintInvSays
<1> QED BY <1>1, <1>2, <1>3, PTL DEF PrintSpec

=============================================================================
