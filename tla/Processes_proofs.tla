---------------------------- MODULE Processes_proofs ----------------------------
(***************************************************************************)
(* Proofs about NamedPipe, for any number of processes and threads, and,   *)
(* below, about Spawn, for any number of threads and process numbers, and  *)
(* about VforkSpawn, for any number of threads and any descriptor table.   *)
(***************************************************************************)
EXTENDS NamedPipe, Spawn, VforkSpawn, Basics_proofs, Integers, FiniteSetTheorems, TLAPS

\* A call that has the lock to itself: it builds a server or takes one down.
Alone == {"stale", "bind", "listen", "own", "undopath", "undobind", "shut", "remove", "unlock"}

Users == {h \in Handles : life[h] # 0}
Leavers == {h \in Handles : st[h] \in {"closefd", "count"}}
Listeners == {h \in Handles : fd[h] = "listener"}
Closing == {h \in Handles : oldfd[h] = "listener"}

Claimed(h) == life[h] # 0 \/ old[h] # 0

(***************************************************************************)
(* What makes the invariants inductive: whatever a handle belongs to, or a *)
(* call has at hand, is what the lock is taken for, by one process.        *)
(***************************************************************************)
OneServer ==
  /\ \A h \in Handles : life[h] \in {0, lock} /\ old[h] \in {0, lock}
  /\ \A h \in Handles : st[h] = "rest" <=> old[h] = 0
  /\ \A h \in Handles : fd[h] = "none" <=> life[h] = 0
  /\ \A h \in Handles : oldfd[h] # "none" => st[h] = "closefd"
  /\ \A h \in Handles : st[h] = "listen" => old[h] \in bound
  /\ lock # 0 => \E h \in Handles : Claimed(h)

OneProcess == \A g, h \in Handles : Claimed(g) /\ Claimed(h) => Home(g) = Home(h)

AloneIsAlone ==
  \A h \in Handles : st[h] \in Alone =>
    /\ Users = {} /\ Leavers = {}
    /\ \A g \in Handles : g # h => old[g] = 0

Shared == lock # 0 /\ \A h \in Handles : st[h] \notin Alone

\* A server's counter counts its handles, also those that let go of it, and
\* its socket has a descriptor for each that listens and one of the lifetime.
IdleIsZero == \A n \in Calls : n # lock => refs[n] = 0 /\ desc[n] = 0
RefsCount == lock # 0 => refs[lock] = Cardinality(Users) + Cardinality(Leavers)
DescCount == Shared => desc[lock] = 1 + Cardinality(Listeners) + Cardinality(Closing)
DescAlone ==
  \A h \in Handles :
    /\ st[h] \in {"stale", "bind", "remove", "unlock"} => desc[lock] = 0
    /\ st[h] \in {"listen", "own", "undopath", "undobind", "shut"} => desc[lock] = 1

\* The path leads to the server that has the lock, or to one that has died.
Paths ==
  /\ path \in {0, lock} \cup dead
  /\ lock \notin dead /\ 0 \notin dead /\ \A n \in dead : n <= last
  /\ lock <= last
  /\ Shared => path = lock
  /\ \A h \in Handles :
       /\ st[h] \in {"listen", "own", "undopath", "shut"} => path = lock
       /\ st[h] \in {"bind", "undobind"} => path = 0
       /\ st[h] \in {"stale", "unlock"} => path # lock

Inv ==
  /\ TypeOK /\ OneServer /\ OneProcess /\ AloneIsAlone
  /\ IdleIsZero /\ RefsCount /\ DescCount /\ DescAlone /\ Paths

-----------------------------------------------------------------------------
LEMMA HandlesFinite == IsFiniteSet(Handles)
<1>1. PerProc \in Int
  BY BoundsAssumption
<1>2. IsFiniteSet(1..PerProc)
  BY <1>1, FS_Interval
<1> QED BY <1>2, BoundsAssumption, FS_Product DEF Handles

\* How many handles a set of them has, before and after one is added or taken.
LEMMA Sizes ==
  ASSUME NEW S \in SUBSET Handles, NEW h \in Handles
  PROVE  /\ Cardinality(S) \in Nat
         /\ Cardinality(S) = 0 <=> S = {}
         /\ Cardinality(S \cup {h}) = IF h \in S THEN Cardinality(S) ELSE Cardinality(S) + 1
         /\ Cardinality(S \ {h}) = IF h \in S THEN Cardinality(S) - 1 ELSE Cardinality(S)
<1>1. IsFiniteSet(S)
  BY HandlesFinite, FS_Subset
<1> QED BY <1>1, FS_CardinalityType, FS_EmptySet, FS_AddElement, FS_RemoveElement

\* What a handle belongs to, or a call has at hand, is the one server.
LEMMA Basics ==
  ASSUME Inv, NEW h \in Handles
  PROVE  /\ lock # 0 => lock \in Calls
         /\ old[h] # 0 => old[h] = lock /\ old[h] \in Calls
         /\ life[h] # 0 => life[h] = lock /\ life[h] \in Calls
         /\ st[h] # "rest" <=> old[h] # 0
BY DEF Inv, TypeOK, OneServer, Calls

\* While handles share a server, or let go of it, nobody has its lock alone.
LEMMA InUse ==
  ASSUME Inv, NEW h \in Handles, h \in Users \/ h \in Leavers
  PROVE  Shared
<1>1. lock # 0
  BY Basics DEF Users, Leavers
<1>2. \A g \in Handles : st[g] \notin Alone
  BY DEF Inv, AloneIsAlone
<1> QED BY <1>1, <1>2 DEF Shared

LEMMA SetsOfHandles ==
  /\ Users \in SUBSET Handles /\ Leavers \in SUBSET Handles
  /\ Listeners \in SUBSET Handles /\ Closing \in SUBSET Handles
BY DEF Users, Leavers, Listeners, Closing

\* A call that finds the lock free is the only one there is.
LEMMA TakeLockKeeps ==
  ASSUME Inv, NEW h \in Handles, NEW next \in {"stale", "remove"}, TakeLock(h, next),
         UNCHANGED <<life, fd, oldfd, server, path, dead>>, errs' \in Nat, crashes' \in Nat
  PROVE  Inv'
<1>a. /\ TypeOK /\ OneServer /\ OneProcess /\ AloneIsAlone
      /\ IdleIsZero /\ RefsCount /\ DescCount /\ DescAlone /\ Paths
  BY DEF Inv
<1>b. /\ lock # 0 => lock \in Calls
      /\ old[h] # 0 => old[h] = lock /\ old[h] \in Calls
      /\ life[h] # 0 => life[h] = lock /\ life[h] \in Calls
      /\ st[h] # "rest" <=> old[h] # 0
  BY Basics
<1>c. /\ last + 1 \in Calls /\ last + 1 \in 0..MaxCalls /\ last + 1 # 0
      /\ last' = last + 1 /\ lock' = last + 1 /\ lock = 0
      /\ \A n \in dead : n <= last + 1 /\ n # last + 1
      /\ 0 \notin Calls
  BY <1>a, BoundsAssumption DEF TypeOK, Paths, Calls, TakeLock
<1>d. \A g \in Handles : life[g] = 0 /\ old[g] = 0 /\ st[g] = "rest" /\ fd[g] = "none" /\ oldfd[g] = "none"
  BY <1>a, <1>c DEF OneServer
<1>e. Users = {} /\ Leavers = {}
  BY <1>d DEF Users, Leavers
<1>1. UNCHANGED <<Users, Leavers, Listeners, Closing>>
  BY DEF Goto, TakeLock, Users, Leavers, Listeners, Closing
<1>2. TypeOK'
  BY <1>a, <1>c DEF TypeOK, Goto, handle, server, TakeLock
<1>3. OneServer'
  BY <1>a DEF TypeOK, OneServer, Claimed, Goto, TakeLock
<1>4. OneProcess'
  BY <1>d DEF OneProcess, Claimed, TakeLock
<1>5. AloneIsAlone'
  BY <1>d DEF AloneIsAlone, Alone, Users, Leavers, Goto, TakeLock
<1>6. IdleIsZero'
  BY <1>a, <1>c DEF IdleIsZero, server
<1>7. RefsCount'
  <2>1. Cardinality(Users') = 0 /\ Cardinality(Leavers') = 0
    BY <1>1, <1>e, FS_EmptySet
  <2>2. refs'[lock'] = 0
    BY <1>a, <1>c DEF IdleIsZero, server
  <2> QED BY <2>1, <2>2 DEF RefsCount
<1>8. DescCount'
  BY <1>a DEF TypeOK, DescCount, Shared, Alone, Goto, TakeLock
<1>9. DescAlone'
  <2>1. desc'[lock'] = 0
    BY <1>a, <1>c DEF IdleIsZero, server
  <2>2. \A g \in Handles : st'[g] \in {"rest", next}
    BY <1>d DEF Goto, TakeLock
  <2> QED BY <2>1, <2>2 DEF DescAlone
<1>10. Paths'
  <2>1. \A g \in Handles : st'[g] \in {"rest", next}
    BY <1>d DEF Goto, TakeLock
  <2>2. path' \in {0} \cup dead /\ path' # lock' /\ st'[h] = next /\ dead' = dead
    BY <1>a DEF TypeOK, Paths, Goto, TakeLock
  <2>3. ~Shared'
    BY <2>2 DEF Shared, Alone
  <2> QED BY <1>a, <1>c, <2>1, <2>3 DEF Paths
<1> QED BY <1>2, <1>3, <1>4, <1>5, <1>6, <1>7, <1>8, <1>9, <1>10 DEF Inv

\* A step of a call that has the lock alone, on to another that has: what its
\* listening socket and the path are tells which.
LEMMA AloneKeeps ==
  ASSUME Inv, NEW h \in Handles, st[h] \in Alone,
         NEW where \in Alone, st' = [st EXCEPT ![h] = where],
         UNCHANGED <<life, fd, old, oldfd, refs, lock, last, dead>>,
         desc' = [desc EXCEPT ![lock] =
                    IF where \in {"stale", "bind", "remove", "unlock"} THEN 0 ELSE 1],
         bound' \subseteq Calls, heard' \subseteq bound', where = "listen" => lock \in bound',
         path' \in {path, 0, lock},
         where \in {"listen", "own", "undopath", "shut"} => path' = lock,
         where \in {"bind", "undobind"} => path' = 0,
         where \in {"stale", "unlock"} => path' # lock,
         errs' \in Nat, crashes' \in Nat
  PROVE  Inv'
<1>a. /\ TypeOK /\ OneServer /\ OneProcess /\ AloneIsAlone
      /\ IdleIsZero /\ RefsCount /\ DescCount /\ DescAlone /\ Paths
  BY DEF Inv
<1>b. /\ old[h] = lock /\ lock \in Calls /\ lock # 0
      /\ \A g \in Handles : g # h => st[g] = "rest" /\ old[g] = 0
      /\ \A g \in Handles : life[g] = 0
  BY <1>a, Basics DEF Alone, AloneIsAlone, Users
<1>c. ~Shared' /\ st'[h] = where /\ \A g \in Handles : g # h => st'[g] = "rest"
  BY <1>a, <1>b DEF TypeOK, Shared
<1>1. TypeOK'
  <2>1. 0 \in Nat /\ 1 \in Nat /\ 0 \in 0..MaxCalls
    BY BoundsAssumption
  <2>2. desc' \in [Calls -> Nat]
    BY <1>a DEF TypeOK
  <2> QED BY <1>a, <2>1 DEF TypeOK, Alone
<1>2. OneServer' /\ OneProcess'
  BY <1>a, <1>c DEF OneServer, OneProcess, Claimed, Alone
<1>3. UNCHANGED <<Users, Leavers>> /\ AloneIsAlone'
  BY <1>a DEF AloneIsAlone, Users, Leavers, Alone
<1>4. IdleIsZero' /\ RefsCount' /\ DescCount'
  BY <1>a, <1>c, <1>3 DEF IdleIsZero, RefsCount, DescCount
<1>5. DescAlone'
  BY <1>a, <1>b DEF TypeOK, DescAlone
<1>6. Paths'
  BY <1>a, <1>c DEF Paths
<1> QED BY <1>1, <1>2, <1>3, <1>4, <1>5, <1>6 DEF Inv

\* The steps of creating a server, of unlinking, and of taking one down.
LEMMA BuildsKeeps ==
  ASSUME Inv, NEW h \in Handles,
         \/ RemoveStale(h) \/ Bind(h) \/ Listen(h) \/ CreateThrows(h)
         \/ UndoPath(h) \/ UndoBind(h) \/ Shut(h) \/ Remove(h)
  PROVE  Inv'
<1>a. TypeOK /\ OneServer /\ DescAlone /\ Paths
  BY DEF Inv
<1>b. st[h] \in Alone => old[h] = lock /\ lock \in Calls /\ lock # 0 /\ desc[lock] \in Nat
  BY <1>a, Basics DEF TypeOK, Alone
<1>c. /\ bound \subseteq Calls /\ heard \subseteq bound /\ errs \in Nat /\ crashes \in Nat
      /\ desc \in [Calls -> Nat] /\ (bound \cup {lock} \subseteq Calls \/ lock \notin Calls)
      /\ desc = [desc EXCEPT ![lock] = desc[lock]]
  BY <1>a DEF TypeOK
<1>1. CASE RemoveStale(h)
  <2>1. st[h] \in Alone
    BY <1>1 DEF RemoveStale, Alone
  <2> QED BY <1>1, <1>a, <1>c, AloneKeeps DEF RemoveStale, Goto, server, Alone, DescAlone, Stale
<1>2. CASE Bind(h)
  <2>1. st[h] \in Alone
    BY <1>2 DEF Bind, Alone
  <2> QED BY <1>2, <1>a, <1>b, <1>c, AloneKeeps DEF Bind, Goto, Alone, Paths
<1>3. CASE Listen(h)
  <2>1. st[h] \in Alone
    BY <1>3 DEF Listen, Alone
  <2>2. heard \cup {old[h]} \subseteq bound
    BY <1>3, <1>a, <1>c DEF Listen, OneServer
  <2> QED BY <1>3, <1>a, <1>c, <2>2, AloneKeeps DEF Listen, Goto, handle, server, Alone, DescAlone,
             Paths
<1>4. CASE CreateThrows(h)
  <2>1. st[h] \in Alone
    BY <1>4 DEF CreateThrows, Alone, Fails
  <2>2. PICK where \in {"unlock", "undopath"} :
           /\ st' = [st EXCEPT ![h] = where]
           /\ where = "unlock" <=> st[h] \in {"stale", "bind"}
           /\ where = "undopath" <=> st[h] \in {"listen", "own"}
    BY <1>4 DEF CreateThrows, Fails, Goto
  <2>3. /\ UNCHANGED <<life, fd, old, oldfd, refs, desc, bound, heard, path, lock, last, dead, crashes>>
        /\ errs' \in Nat
    BY <1>4, <1>c DEF CreateThrows, server
  <2>4. where = "unlock" => path # lock /\ desc[lock] = 0
    BY <1>a, <1>b, <2>1, <2>2 DEF DescAlone, Paths
  <2>5. where = "undopath" => path = lock /\ desc[lock] = 1
    BY <1>a, <2>2 DEF DescAlone, Paths
  <2> QED BY <1>c, <2>2, <2>3, <2>4, <2>5, AloneKeeps DEF Alone
<1>5. CASE UndoPath(h)
  <2>1. st[h] \in Alone
    BY <1>5 DEF UndoPath, Alone
  <2> QED BY <1>5, <1>a, <1>c, AloneKeeps DEF UndoPath, Goto, server, Alone, DescAlone
<1>6. CASE UndoBind(h)
  <2>1. st[h] \in Alone
    BY <1>6 DEF UndoBind, Alone
  <2>2. desc[lock] = 1 /\ desc[lock] - 1 = 0
    BY <1>6, <1>a DEF UndoBind, DescAlone
  <2>3. desc' = [desc EXCEPT ![lock] = 0]
    BY <1>6, <1>b, <2>1, <2>2 DEF UndoBind, Closes
  <2> QED BY <1>6, <1>a, <1>b, <1>c, <2>3, AloneKeeps DEF UndoBind, Goto, Alone, Paths
<1>7. CASE Shut(h)
  <2>1. st[h] \in Alone
    BY <1>7 DEF Shut, Alone
  <2>2. desc[lock] = 1 /\ desc[lock] - 1 = 0
    BY <1>7, <1>a DEF Shut, DescAlone
  <2>3. desc' = [desc EXCEPT ![lock] = 0]
    BY <1>7, <1>b, <2>1, <2>2 DEF Shut, Closes
  <2> QED BY <1>7, <1>c, <2>3, AloneKeeps DEF Shut, Goto, Alone, AfterShut
<1>8. CASE Remove(h)
  <2>1. st[h] \in Alone
    BY <1>8 DEF Remove, Alone
  <2> QED BY <1>8, <1>a, <1>b, <1>c, AloneKeeps DEF Remove, Goto, server, Alone, DescAlone
<1> QED BY <1>1, <1>2, <1>3, <1>4, <1>5, <1>6, <1>7, <1>8

LEMMA OwnKeeps ==
  ASSUME Inv, NEW h \in Handles, Own(h)
  PROVE  Inv'
<1>a. /\ TypeOK /\ OneServer /\ OneProcess /\ AloneIsAlone
      /\ IdleIsZero /\ RefsCount /\ DescCount /\ DescAlone /\ Paths
  BY DEF Inv
<1>b. /\ lock # 0 => lock \in Calls
      /\ old[h] # 0 => old[h] = lock /\ old[h] \in Calls
      /\ life[h] # 0 => life[h] = lock /\ life[h] \in Calls
      /\ st[h] # "rest" <=> old[h] # 0
  BY Basics
<1>c. desc[lock] = 1 /\ desc[lock] + 1 = 2 /\ old[h] = lock /\ lock \in Calls
  BY <1>a, <1>b DEF DescAlone, Own
<1>1. /\ Users = {} /\ Users' = {h} /\ Leavers = {} /\ Leavers' = {}
      /\ Listeners' = {h} /\ Closing' = {}
  BY <1>a DEF TypeOK, OneServer, AloneIsAlone, Alone, Own, Goto, handle, server, Users, Leavers,
     Listeners, Closing
<1>2. TypeOK'
  <2>1. /\ refs' \in [Calls -> Nat] /\ desc' \in [Calls -> Nat]
        /\ lock \in 0..MaxCalls
    BY <1>a, <1>c DEF TypeOK, Own
  <2>2. /\ life' \in [Handles -> 0..MaxCalls] /\ old' \in [Handles -> 0..MaxCalls]
        /\ fd' \in [Handles -> {"none", "listener", "connection"}]
    BY <1>a, BoundsAssumption DEF TypeOK, Own
  <2>3. st' = [st EXCEPT ![h] = "rest"]
    BY DEF Own, Goto
  <2>4. UNCHANGED <<oldfd, bound, heard, path, lock, last, dead, errs, crashes>>
    BY DEF Own
  <2> QED BY <1>a, <2>1, <2>2, <2>3, <2>4 DEF TypeOK
<1>3. OneServer'
  BY <1>a DEF TypeOK, OneServer, Claimed, Listeners, Closing, Own, Goto, handle, server
<1>4. OneProcess'
  BY <1>a DEF OneProcess, Claimed, Own, handle, server
<1>5. AloneIsAlone'
  BY <1>a, <1>b DEF TypeOK, AloneIsAlone, Alone, Listeners, Closing, Own, Goto, handle, server
<1>6. IdleIsZero'
  BY <1>a, <1>b DEF IdleIsZero, Own, handle, server
<1>7. RefsCount'
  <2>1. Cardinality(Users') = 1 /\ Cardinality(Leavers') = 0
    BY <1>1, FS_Singleton, FS_EmptySet
  <2>2. refs'[lock'] = 1
    BY <1>a, <1>c DEF TypeOK, Own
  <2> QED BY <2>1, <2>2 DEF RefsCount
<1>8. DescCount'
  <2>1. Cardinality(Listeners') = 1 /\ Cardinality(Closing') = 0
    BY <1>1, FS_Singleton, FS_EmptySet
  <2>2. desc'[lock'] = 2
    BY <1>a, <1>c DEF TypeOK, Own
  <2> QED BY <2>1, <2>2 DEF DescCount
<1>9. DescAlone'
  BY <1>a, <1>b DEF TypeOK, AloneIsAlone, Alone, DescAlone, Own, Goto, handle, server
<1>10. Paths'
  BY <1>a DEF Paths, Listeners, Closing, Own, Goto, handle, server
<1> QED BY <1>2, <1>3, <1>4, <1>5, <1>6, <1>7, <1>8, <1>9, <1>10 DEF Inv

LEMMA CloseFdKeeps ==
  ASSUME Inv, NEW h \in Handles, CloseFd(h)
  PROVE  Inv'
<1>a. /\ TypeOK /\ OneServer /\ OneProcess /\ AloneIsAlone
      /\ IdleIsZero /\ RefsCount /\ DescCount /\ DescAlone /\ Paths
  BY DEF Inv
<1>b. /\ lock # 0 => lock \in Calls
      /\ old[h] # 0 => old[h] = lock /\ old[h] \in Calls
      /\ life[h] # 0 => life[h] = lock /\ life[h] \in Calls
      /\ st[h] # "rest" <=> old[h] # 0
  BY Basics
<1>c. old[h] = lock /\ lock \in Calls /\ Shared
  BY <1>b, InUse DEF CloseFd, Leavers
<1>d. /\ desc[lock] = 1 + Cardinality(Listeners) + Cardinality(Closing)
      /\ Cardinality(Listeners) \in Nat /\ Cardinality(Closing) \in Nat
      /\ Cardinality(Closing \ {h}) = IF h \in Closing THEN Cardinality(Closing) - 1 ELSE Cardinality(Closing)
  BY <1>a, <1>c, Sizes, SetsOfHandles DEF DescCount
<1>1. /\ Users' = Users /\ Leavers' = Leavers /\ Listeners' = Listeners
      /\ Closing' = Closing \ {h} /\ (h \in Closing <=> oldfd[h] = "listener")
  BY <1>a DEF TypeOK, CloseFd, Goto, Users, Leavers, Listeners, Closing
<1>2. TypeOK'
  <2>1. desc[lock] - 1 \in Nat
    BY <1>d
  <2> QED BY <1>a, <1>c, <2>1 DEF TypeOK, CloseFd, Goto, handle, server, Closes
<1>3. OneServer'
  BY <1>a DEF TypeOK, OneServer, Claimed, CloseFd, Goto
<1>4. OneProcess'
  BY <1>a DEF OneProcess, Claimed, CloseFd
<1>5. AloneIsAlone'
  BY <1>a, <1>b DEF AloneIsAlone, Alone, CloseFd, Goto
<1>6. IdleIsZero'
  BY <1>a, <1>b DEF IdleIsZero, CloseFd, handle, server, Closes
<1>7. RefsCount'
  BY <1>a, <1>1 DEF RefsCount, CloseFd
<1>8. DescCount'
  <2>1. desc'[lock'] = IF h \in Closing THEN desc[lock] - 1 ELSE desc[lock]
    BY <1>a, <1>c, <1>1 DEF TypeOK, CloseFd, handle, server, Closes
  <2> QED BY <2>1, <1>1, <1>d DEF DescCount
<1>9. DescAlone'
  BY <1>a, <1>b DEF AloneIsAlone, Alone, DescAlone, CloseFd, Goto
<1>10. Paths'
  BY <1>a DEF Alone, Paths, Shared, CloseFd, Goto
<1> QED BY <1>2, <1>3, <1>4, <1>5, <1>6, <1>7, <1>8, <1>9, <1>10 DEF Inv

LEMMA CountDownKeeps ==
  ASSUME Inv, NEW h \in Handles, CountDown(h)
  PROVE  Inv'
<1>a. /\ TypeOK /\ OneServer /\ OneProcess /\ AloneIsAlone
      /\ IdleIsZero /\ RefsCount /\ DescCount /\ DescAlone /\ Paths
  BY DEF Inv
<1>b. /\ lock # 0 => lock \in Calls
      /\ old[h] # 0 => old[h] = lock /\ old[h] \in Calls
      /\ life[h] # 0 => life[h] = lock /\ life[h] \in Calls
      /\ st[h] # "rest" <=> old[h] # 0
  BY Basics
<1>c. old[h] = lock /\ lock \in Calls /\ Shared
  BY <1>b, InUse DEF CountDown, Leavers
<1>d. /\ refs[lock] = Cardinality(Users) + Cardinality(Leavers)
      /\ Cardinality(Users) \in Nat /\ Cardinality(Leavers) \in Nat
      /\ Cardinality(Users) = 0 <=> Users = {}
      /\ Cardinality(Leavers \ {h}) \in Nat /\ Cardinality(Leavers \ {h}) = Cardinality(Leavers) - 1
      /\ Cardinality(Leavers \ {h}) = 0 <=> Leavers \ {h} = {}
  <2>1. h \in Leavers
    BY DEF CountDown, Leavers
  <2>2. Leavers \ {h} \in SUBSET Handles
    BY SetsOfHandles
  <2> QED BY <1>a, <1>c, <2>1, Sizes, SetsOfHandles DEF RefsCount, Shared
\* The counter tells the call that comes last.
<1>e. refs[lock] = 1 <=> Users = {} /\ Leavers \ {h} = {}
  BY <1>d
<1>f. refs[lock] - 1 \in Nat
  BY <1>d
<1>1. /\ Users' = Users /\ Leavers' = Leavers \ {h} /\ Listeners' = Listeners
      /\ Closing' = Closing /\ h \in Leavers
  BY <1>a DEF TypeOK, CountDown, Goto, Users, Leavers, Listeners, Closing
<1>2. TypeOK'
  <2>1. refs' \in [Calls -> Nat]
    BY <1>a, <1>c, <1>f DEF TypeOK, CountDown
  <2>2. \E where \in {"shut", "rest"} : st' = [st EXCEPT ![h] = where]
    BY DEF CountDown, Goto
  <2>3. old' = old \/ old' = [old EXCEPT ![h] = 0]
    BY DEF CountDown
  <2>4. old' \in [Handles -> 0..MaxCalls]
    BY <1>a, <2>3, BoundsAssumption DEF TypeOK
  <2>5. UNCHANGED <<life, fd, oldfd, desc, bound, heard, path, lock, last, dead, errs, crashes>>
    BY DEF CountDown
  <2> QED BY <1>a, <2>1, <2>2, <2>4, <2>5 DEF TypeOK
<1>3. OneServer'
  <2>1. CASE refs[lock] = 1
    BY <1>a, <2>1 DEF TypeOK, OneServer, Claimed, CountDown, Goto, handle, server, LastRef
  <2>2. CASE refs[lock] # 1
    <3>1. \E g \in Handles : g \in Users \/ g \in Leavers \ {h}
      BY <1>e, <2>2, SetsOfHandles
    <3>2. \E g \in Handles : life[g] # 0 \/ (g # h /\ old[g] # 0)
      BY <1>a, <3>1 DEF Users, Leavers, OneServer
    <3> QED BY <1>a, <3>2 DEF TypeOK, OneServer, Claimed, CountDown, Goto
  <2> QED BY <2>1, <2>2
<1>4. OneProcess'
  BY <1>a DEF TypeOK, OneProcess, Claimed, CountDown
<1>5. AloneIsAlone'
  <2>1. CASE refs[lock] = 1
    <3>1. Users' = {} /\ Leavers' = {}
      BY <1>1, <1>e, <2>1
    <3>2. \A g \in Handles : g # h => old[g] = 0
      <4>1. \A g \in Handles : g # h => st[g] \notin {"closefd", "count"}
        BY <1>e, <2>1 DEF Leavers
      <4> QED BY <1>a, <1>c, <4>1 DEF TypeOK, OneServer, Shared, Alone
    <3>3. \A g \in Handles : g # h => st'[g] \notin Alone /\ old'[g] = 0
      BY <1>a, <1>c, <3>2 DEF TypeOK, Shared, CountDown, Goto
    <3> QED BY <3>1, <3>3 DEF AloneIsAlone
  <2>2. CASE refs[lock] # 1
    BY <1>a, <1>c, <2>2 DEF TypeOK, AloneIsAlone, Shared, Alone, CountDown, Goto, handle, server,
       LastRef
  <2> QED BY <2>1, <2>2
<1>6. IdleIsZero'
  BY <1>a, <1>b DEF IdleIsZero, CountDown
<1>7. RefsCount'
  <2>1. refs'[lock'] = refs[lock] - 1
    BY <1>a, <1>c DEF TypeOK, CountDown
  <2> QED BY <2>1, <1>1, <1>d DEF RefsCount
<1>8. DescCount'
  BY <1>a, <1>1 DEF TypeOK, DescCount, Shared, Alone, CountDown, Goto
<1>9. DescAlone'
  <2>1. CASE refs[lock] = 1
    <3>1. Listeners = {} /\ Closing = {}
      BY <1>a, <1>e, <2>1 DEF OneServer, CountDown, Listeners, Closing, Users, Leavers
    <3>2. desc[lock] = 1
      BY <1>a, <1>c, <3>1, FS_EmptySet DEF DescCount
    <3> QED BY <1>a, <3>2 DEF TypeOK, DescAlone, CountDown, Goto
  <2>2. CASE refs[lock] # 1
    BY <1>a, <1>c, <2>2 DEF TypeOK, DescAlone, CountDown, Goto, handle, server, LastRef
  <2> QED BY <2>1, <2>2
<1>10. Paths'
  BY <1>a, <1>c DEF TypeOK, Paths, CountDown, Goto
<1> QED BY <1>2, <1>3, <1>4, <1>5, <1>6, <1>7, <1>8, <1>9, <1>10 DEF Inv

LEMMA UnlockKeeps ==
  ASSUME Inv, NEW h \in Handles, Unlock(h)
  PROVE  Inv'
<1>a. /\ TypeOK /\ OneServer /\ OneProcess /\ AloneIsAlone
      /\ IdleIsZero /\ RefsCount /\ DescCount /\ DescAlone /\ Paths
  BY DEF Inv
<1>b. /\ lock # 0 => lock \in Calls
      /\ old[h] # 0 => old[h] = lock /\ old[h] \in Calls
      /\ life[h] # 0 => life[h] = lock /\ life[h] \in Calls
      /\ st[h] # "rest" <=> old[h] # 0
  BY Basics
<1>c. old[h] = lock /\ refs[lock] = 0 /\ desc[lock] = 0 /\ lock \in Calls
  <2>1. Cardinality(Users) = 0 /\ Cardinality(Leavers) = 0
    BY <1>a, FS_EmptySet DEF Unlock, AloneIsAlone, Alone
  <2> QED BY <1>a, <1>b, <2>1 DEF Unlock, RefsCount, DescAlone
<1>1. UNCHANGED <<Users, Leavers, Listeners, Closing>>
  BY DEF Unlock, Goto, Users, Leavers, Listeners, Closing
<1>2. TypeOK'
  BY <1>a, BoundsAssumption DEF TypeOK, Unlock, Goto, handle, server
<1>3. OneServer'
  BY <1>a DEF TypeOK, OneServer, AloneIsAlone, Alone, Users, Unlock, Goto
<1>4. OneProcess'
  BY <1>a DEF OneProcess, Claimed, Unlock
<1>5. AloneIsAlone'
  BY <1>a, <1>b DEF TypeOK, AloneIsAlone, Alone, Unlock, Goto
<1>6. IdleIsZero'
  BY <1>a, <1>c DEF IdleIsZero, Unlock, handle, server
<1>7. RefsCount'
  BY <1>b DEF RefsCount, Unlock
<1>8. DescCount'
  BY <1>b DEF DescCount, Shared, Unlock
<1>9. DescAlone'
  BY <1>a, <1>b DEF TypeOK, AloneIsAlone, Alone, DescAlone, Unlock, Goto
<1>10. Paths'
  BY <1>a DEF TypeOK, OneServer, AloneIsAlone, Paths, Shared, Unlock, Goto
<1> QED BY <1>2, <1>3, <1>4, <1>5, <1>6, <1>7, <1>8, <1>9, <1>10 DEF Inv

LEMMA WaitForConnectKeeps ==
  ASSUME Inv, NEW h \in Handles, WaitForConnect(h)
  PROVE  Inv'
<1>a. /\ TypeOK /\ OneServer /\ OneProcess /\ AloneIsAlone
      /\ IdleIsZero /\ RefsCount /\ DescCount /\ DescAlone /\ Paths
  BY DEF Inv
<1>b. /\ lock # 0 => lock \in Calls
      /\ old[h] # 0 => old[h] = lock /\ old[h] \in Calls
      /\ life[h] # 0 => life[h] = lock /\ life[h] \in Calls
      /\ st[h] # "rest" <=> old[h] # 0
  BY Basics
<1>c. life[h] = lock /\ lock \in Calls /\ Shared
  BY <1>b, InUse DEF WaitForConnect, Users
<1>d. /\ desc[lock] = 1 + Cardinality(Listeners) + Cardinality(Closing)
      /\ Cardinality(Listeners) \in Nat /\ Cardinality(Closing) \in Nat
      /\ Cardinality(Listeners \ {h}) = IF h \in Listeners THEN Cardinality(Listeners) - 1 ELSE Cardinality(Listeners)
      /\ Cardinality(Listeners \cup {h}) = IF h \in Listeners THEN Cardinality(Listeners) ELSE Cardinality(Listeners) + 1
  BY <1>a, <1>c, Sizes, SetsOfHandles DEF DescCount
<1>1. /\ Users' = Users /\ Leavers' = Leavers /\ Closing' = Closing
      /\ Listeners' = Listeners \ {h} /\ (h \in Listeners <=> fd[h] = "listener")
  BY <1>a DEF TypeOK, WaitForConnect, Users, Leavers, Listeners, Closing
<1>2. TypeOK'
  <2>1. desc[lock] - 1 \in Nat \/ fd[h] # "listener"
    BY <1>d
  <2> QED BY <1>a, <1>c, <2>1 DEF TypeOK, WaitForConnect, Goto, handle, server, Closes
<1>3. OneServer'
  BY <1>a DEF OneServer, Claimed, WaitForConnect
<1>4. OneProcess'
  BY <1>a DEF OneProcess, Claimed, WaitForConnect
<1>5. AloneIsAlone'
  BY <1>a DEF AloneIsAlone, Users, WaitForConnect
<1>6. IdleIsZero'
  BY <1>a, <1>b DEF IdleIsZero, WaitForConnect, Goto, handle, server, Closes
<1>7. RefsCount'
  BY <1>a, <1>1 DEF RefsCount, WaitForConnect
<1>8. DescCount'
  <2>1. desc'[lock'] = IF h \in Listeners THEN desc[lock] - 1 ELSE desc[lock]
    BY <1>a, <1>c, <1>1 DEF TypeOK, WaitForConnect, Goto, handle, server, Closes
  <2> QED BY <2>1, <1>1, <1>d DEF DescCount
<1>9. DescAlone'
  BY <1>a DEF AloneIsAlone, Alone, DescAlone, Users, WaitForConnect
<1>10. Paths'
  BY <1>a DEF Paths, Shared, WaitForConnect
<1> QED BY <1>2, <1>3, <1>4, <1>5, <1>6, <1>7, <1>8, <1>9, <1>10 DEF Inv

LEMMA DisconnectKeeps ==
  ASSUME Inv, NEW h \in Handles, Disconnect(h)
  PROVE  Inv'
<1>a. /\ TypeOK /\ OneServer /\ OneProcess /\ AloneIsAlone
      /\ IdleIsZero /\ RefsCount /\ DescCount /\ DescAlone /\ Paths
  BY DEF Inv
<1>b. /\ lock # 0 => lock \in Calls
      /\ old[h] # 0 => old[h] = lock /\ old[h] \in Calls
      /\ life[h] # 0 => life[h] = lock /\ life[h] \in Calls
      /\ st[h] # "rest" <=> old[h] # 0
  BY Basics
<1>c. life[h] = lock /\ lock \in Calls /\ Shared
  BY <1>b, InUse DEF Disconnect, Users
<1>d. /\ desc[lock] = 1 + Cardinality(Listeners) + Cardinality(Closing)
      /\ Cardinality(Listeners) \in Nat /\ Cardinality(Closing) \in Nat
      /\ Cardinality(Listeners \ {h}) = IF h \in Listeners THEN Cardinality(Listeners) - 1 ELSE Cardinality(Listeners)
      /\ Cardinality(Listeners \cup {h}) = IF h \in Listeners THEN Cardinality(Listeners) ELSE Cardinality(Listeners) + 1
  BY <1>a, <1>c, Sizes, SetsOfHandles DEF DescCount
<1>1. /\ Users' = Users /\ Leavers' = Leavers /\ Closing' = Closing
      /\ Listeners' = Listeners \cup {h} /\ (h \in Listeners <=> fd[h] = "listener")
  BY <1>a DEF TypeOK, Disconnect, Users, Leavers, Listeners, Closing
<1>2. TypeOK'
  BY <1>a, <1>c DEF TypeOK, Disconnect
<1>3. OneServer'
  BY <1>a DEF OneServer, Claimed, Disconnect
<1>4. OneProcess'
  BY <1>a DEF OneProcess, Claimed, Disconnect
<1>5. AloneIsAlone'
  BY <1>a DEF AloneIsAlone, Users, Disconnect
<1>6. IdleIsZero'
  BY <1>a, <1>b DEF IdleIsZero, Disconnect
<1>7. RefsCount'
  BY <1>a, <1>1 DEF RefsCount, Disconnect
<1>8. DescCount'
  <2>1. desc'[lock'] = desc[lock] + 1 /\ h \notin Listeners
    BY <1>a, <1>c, <1>1 DEF TypeOK, Disconnect, Goto, handle, server, IsConnected
  <2> QED BY <2>1, <1>1, <1>d DEF DescCount
<1>9. DescAlone'
  BY <1>a DEF AloneIsAlone, Alone, DescAlone, Users, Disconnect
<1>10. Paths'
  BY <1>a DEF Paths, Shared, Disconnect
<1> QED BY <1>2, <1>3, <1>4, <1>5, <1>6, <1>7, <1>8, <1>9, <1>10 DEF Inv

LEMMA CloseKeeps ==
  ASSUME Inv, NEW h \in Handles, Close(h)
  PROVE  Inv'
<1>a. /\ TypeOK /\ OneServer /\ OneProcess /\ AloneIsAlone
      /\ IdleIsZero /\ RefsCount /\ DescCount /\ DescAlone /\ Paths
  BY DEF Inv
<1>b. /\ lock # 0 => lock \in Calls
      /\ old[h] # 0 => old[h] = lock /\ old[h] \in Calls
      /\ life[h] # 0 => life[h] = lock /\ life[h] \in Calls
      /\ st[h] # "rest" <=> old[h] # 0
  BY Basics
<1>c. life[h] = lock /\ lock \in Calls /\ Shared
  BY <1>b, InUse DEF Close, Users
<1>1. /\ Users' = Users \ {h} /\ h \in Users
      /\ Leavers' = Leavers \cup {h} /\ h \notin Leavers
      /\ Listeners' = Listeners \ {h} /\ h \notin Closing
      /\ Closing' = IF h \in Listeners THEN Closing \cup {h} ELSE Closing
  BY <1>a DEF TypeOK, OneServer, Close, Goto, Users, Leavers, Listeners, Closing
<1>2. TypeOK'
  BY <1>a, <1>b DEF TypeOK, Close, Goto, handle, server
<1>3. OneServer'
  BY <1>a DEF TypeOK, OneServer, AloneIsAlone, Alone, Claimed, Users, Close, Goto
<1>4. OneProcess'
  BY <1>a DEF OneProcess, Claimed, Close
<1>5. AloneIsAlone'
  BY <1>a DEF AloneIsAlone, Alone, Users, Close, Goto
<1>6. IdleIsZero'
  BY <1>a DEF IdleIsZero, Close, handle, server
<1>7. RefsCount'
  <2>1. /\ Cardinality(Users) \in Nat /\ Cardinality(Users') = Cardinality(Users) - 1
        /\ Cardinality(Leavers) \in Nat /\ Cardinality(Leavers') = Cardinality(Leavers) + 1
    BY <1>1, Sizes, SetsOfHandles
  <2>2. refs'[lock'] = Cardinality(Users) + Cardinality(Leavers)
    BY <1>a, <1>c DEF RefsCount, Close, handle, server
  <2> QED BY <2>1, <2>2 DEF RefsCount
<1>8. DescCount'
  <2>1. /\ Cardinality(Listeners) \in Nat /\ Cardinality(Closing) \in Nat
        /\ Cardinality(Listeners') = IF h \in Listeners THEN Cardinality(Listeners) - 1 ELSE Cardinality(Listeners)
        /\ Cardinality(Closing') = IF h \in Listeners THEN Cardinality(Closing) + 1 ELSE Cardinality(Closing)
    BY <1>1, Sizes, SetsOfHandles
  <2>2. desc'[lock'] = 1 + Cardinality(Listeners) + Cardinality(Closing)
    BY <1>a, <1>c DEF DescCount, Close, handle, server
  <2> QED BY <2>1, <2>2 DEF DescCount
<1>9. DescAlone'
  BY <1>a DEF AloneIsAlone, Alone, DescAlone, Users, Close, Goto
<1>10. Paths'
  BY <1>a DEF Alone, Paths, Shared, Close, Goto
<1> QED BY <1>2, <1>3, <1>4, <1>5, <1>6, <1>7, <1>8, <1>9, <1>10 DEF Inv

\* A copy takes the place of what the handle had, which is then let go of.
LEMMA CopyKeeps ==
  ASSUME Inv, NEW h \in Handles, NEW g \in Handles, Copy(h, g)
  PROVE  Inv'
<1>a. /\ TypeOK /\ OneServer /\ OneProcess /\ AloneIsAlone
      /\ IdleIsZero /\ RefsCount /\ DescCount /\ DescAlone /\ Paths
  BY DEF Inv
<1>b. /\ life[h] = lock /\ lock \in Calls /\ lock # 0 /\ Shared
      /\ life[g] \in {0, lock} /\ h # g /\ st[g] = "rest" /\ st[h] = "rest"
      /\ fd[h] # "none" /\ oldfd[g] = "none"
  BY <1>a, Basics, InUse DEF Copy, Users, OneServer
<1>1. /\ Users' = Users \cup {g}
      /\ Leavers' = IF g \in Users THEN Leavers \cup {g} ELSE Leavers
      /\ g \notin Leavers /\ g \notin Closing
  BY <1>a, <1>b DEF TypeOK, Copy, Goto, Users, Leavers, Closing
<1>2. /\ Listeners' = IF h \in Listeners THEN Listeners \cup {g} ELSE Listeners \ {g}
      /\ Closing' = IF g \in Listeners THEN Closing \cup {g} ELSE Closing
      /\ h \in Listeners <=> fd[h] = "listener"
      /\ h # g
  BY <1>a, <1>b DEF TypeOK, Copy, Listeners, Closing
<1>3. /\ refs[lock] = Cardinality(Users) + Cardinality(Leavers)
      /\ Cardinality(Users) \in Nat /\ Cardinality(Leavers) \in Nat
      /\ Cardinality(Users \cup {g}) = IF g \in Users THEN Cardinality(Users) ELSE Cardinality(Users) + 1
      /\ Cardinality(Leavers \cup {g}) = Cardinality(Leavers) + 1
  BY <1>a, <1>b, <1>1, Sizes, SetsOfHandles DEF RefsCount
<1>4. /\ desc[lock] = 1 + Cardinality(Listeners) + Cardinality(Closing)
      /\ Cardinality(Listeners) \in Nat /\ Cardinality(Closing) \in Nat
      /\ Cardinality(Listeners \cup {g}) = IF g \in Listeners THEN Cardinality(Listeners) ELSE Cardinality(Listeners) + 1
      /\ Cardinality(Listeners \ {g}) = IF g \in Listeners THEN Cardinality(Listeners) - 1 ELSE Cardinality(Listeners)
      /\ Cardinality(Closing \cup {g}) = Cardinality(Closing) + 1
  BY <1>a, <1>b, <1>1, Sizes, SetsOfHandles DEF DescCount
<1>5. /\ refs' = [refs EXCEPT ![lock] = refs[lock] + 1]
      /\ desc' = IF h \in Listeners THEN [desc EXCEPT ![lock] = desc[lock] + 1] ELSE desc
      /\ UNCHANGED <<bound, heard, path, lock, last, dead, errs, crashes>>
  BY <1>b, <1>2 DEF Copy, CountCopy
<1>6. /\ life' = [life EXCEPT ![g] = lock] /\ fd' = [fd EXCEPT ![g] = fd[h]]
      /\ old' = [old EXCEPT ![g] = life[g]] /\ oldfd' = [oldfd EXCEPT ![g] = fd[g]]
      /\ st' = [st EXCEPT ![g] = IF life[g] = 0 THEN "rest" ELSE "closefd"]
  BY <1>b DEF Copy, Goto
<1>7. TypeOK'
  <2>1. refs' \in [Calls -> Nat] /\ desc' \in [Calls -> Nat]
    BY <1>a, <1>b, <1>5 DEF TypeOK
  <2>2. /\ life' \in [Handles -> 0..MaxCalls] /\ old' \in [Handles -> 0..MaxCalls]
        /\ fd' \in [Handles -> {"none", "listener", "connection"}]
        /\ oldfd' \in [Handles -> {"none", "listener", "connection"}]
    BY <1>a, <1>6 DEF TypeOK
  <2> QED BY <1>a, <1>5, <1>6, <2>1 DEF TypeOK
<1>8. OneServer'
  BY <1>a, <1>b, <1>5, <1>6 DEF TypeOK, OneServer, Claimed
<1>9. OneProcess'
  <2>1. Home(h) = Home(g)
    BY DEF Copy
  <2> QED BY <1>a, <1>b, <1>6, <2>1 DEF OneProcess, Claimed
<1>10. AloneIsAlone'
  BY <1>b, <1>6 DEF AloneIsAlone, Shared, Alone
<1>11. IdleIsZero'
  BY <1>a, <1>5 DEF IdleIsZero
<1>12. RefsCount'
  <2>1. refs'[lock'] = refs[lock] + 1
    BY <1>a, <1>b, <1>5 DEF TypeOK
  <2> QED BY <2>1, <1>1, <1>3 DEF RefsCount
<1>13. DescCount'
  <2>1. desc'[lock'] = IF h \in Listeners THEN desc[lock] + 1 ELSE desc[lock]
    BY <1>a, <1>b, <1>5 DEF TypeOK
  <2> QED BY <2>1, <1>2, <1>4 DEF DescCount
<1>14. DescAlone'
  BY <1>b, <1>6 DEF DescAlone, Shared, Alone
<1>15. Paths'
  BY <1>a, <1>b, <1>5, <1>6 DEF Paths
<1> QED BY <1>7, <1>8, <1>9, <1>10, <1>11, <1>12, <1>13, <1>14, <1>15 DEF Inv

\* A process that dies takes everything with it but the path.
LEMMA CrashKeeps ==
  ASSUME Inv, NEW p \in Procs, Crash(p)
  PROVE  Inv'
<1>a. /\ TypeOK /\ OneServer /\ OneProcess /\ AloneIsAlone
      /\ IdleIsZero /\ RefsCount /\ DescCount /\ DescAlone /\ Paths
  BY DEF Inv
<1>1. Of(p) \subseteq {lock} /\ 0 \notin Of(p) /\ Of(p) \subseteq Calls
  BY Basics DEF Of, Calls
<1>2. Of(p) = {lock} /\ lock # 0 /\ lock \in Calls
  BY <1>1 DEF Crash
<1>3. \A h \in Handles : Claimed(h) => Home(h) = p
  <2>1. PICK g \in Handles : Home(g) = p /\ lock \in {old[g], life[g]}
    BY <1>2 DEF Of
  <2> QED BY <1>a, <1>2, <2>1 DEF OneProcess, Claimed
<1>4. \A h \in Handles :
        /\ st'[h] = "rest" /\ life'[h] = 0 /\ old'[h] = 0
        /\ fd'[h] = "none" /\ oldfd'[h] = "none"
  BY <1>a, <1>3 DEF Crash, OneServer, Claimed
<1>5. /\ lock' = 0 /\ dead' = dead \cup {lock}
      /\ UNCHANGED <<bound, heard, path, last>>
      /\ refs' = [n \in Calls |-> IF n = lock THEN 0 ELSE refs[n]]
      /\ desc' = [n \in Calls |-> IF n = lock THEN 0 ELSE desc[n]]
  BY <1>2 DEF Crash
<1>6. TypeOK'
  <2>1. /\ st' \in [Handles -> {"rest"}] /\ life' \in [Handles -> {0}] /\ old' \in [Handles -> {0}]
        /\ fd' \in [Handles -> {"none"}] /\ oldfd' \in [Handles -> {"none"}]
    BY <1>4 DEF Crash
  <2>2. /\ refs' \in [Calls -> Nat] /\ desc' \in [Calls -> Nat]
    BY <1>a, <1>5 DEF TypeOK
  <2>3. errs' = errs /\ crashes' = crashes + 1
    BY DEF Crash
  <2>4. crashes' \in Nat /\ 0 \in 0..MaxCalls
    BY <1>a, <2>3, BoundsAssumption DEF TypeOK
  <2>5. dead' \subseteq Calls
    BY <1>a, <1>2, <1>5 DEF TypeOK
  <2> QED BY <1>a, <1>5, <2>1, <2>3, <2>4, <2>5 DEF TypeOK
<1>7. OneServer' /\ OneProcess' /\ AloneIsAlone' /\ DescAlone'
  BY <1>4, <1>5 DEF OneServer, OneProcess, Claimed, AloneIsAlone, DescAlone, Alone
<1>8. IdleIsZero' /\ RefsCount' /\ DescCount'
  BY <1>a, <1>5 DEF IdleIsZero, RefsCount, DescCount, Shared
<1>9. Paths'
  <2>1. lock <= last /\ 0 <= last
    BY <1>a DEF Paths, TypeOK
  <2> QED BY <1>a, <1>2, <1>4, <1>5, <2>1 DEF Paths, Shared
<1> QED BY <1>6, <1>7, <1>8, <1>9 DEF Inv

LEMMA InitInv == Init => Inv
<1> SUFFICES ASSUME Init PROVE Inv
  OBVIOUS
<1>1. TypeOK
  BY BoundsAssumption DEF Init, TypeOK
<1>2. OneServer /\ OneProcess /\ AloneIsAlone /\ DescAlone
  BY DEF Init, OneServer, OneProcess, Claimed, AloneIsAlone, DescAlone, Alone
<1>3. IdleIsZero /\ RefsCount /\ DescCount
  BY DEF Init, IdleIsZero, RefsCount, DescCount, Shared
<1>4. Paths
  BY DEF Init, Paths
<1> QED BY <1>1, <1>2, <1>3, <1>4 DEF Inv

LEMMA InvNext == Inv /\ [Next]_vars => Inv'
<1> SUFFICES ASSUME Inv, [Next]_vars PROVE Inv'
  OBVIOUS
<1>1. ASSUME NEW h \in Handles, Create(h) \/ Unlink(h) PROVE Inv'
  <2>1. TypeOK
    BY DEF Inv
  <2>2. \E next \in {"stale", "remove"} : TakeLock(h, next)
    BY <1>1 DEF Create, Unlink
  <2>3. UNCHANGED <<life, fd, oldfd, server, path, dead>>
    BY <1>1 DEF Create, Unlink
  <2>4. errs' \in Nat /\ crashes' \in Nat
    BY <1>1, <2>1 DEF Create, Unlink, TypeOK
  <2> QED BY <2>2, <2>3, <2>4, TakeLockKeeps
<1>2. ASSUME NEW h \in Handles, Go(h) PROVE Inv'
  BY <1>2, BuildsKeeps, OwnKeeps, CloseFdKeeps, CountDownKeeps, UnlockKeeps DEF Go
<1>3. ASSUME NEW h \in Handles, CreateThrows(h) \/ WaitForConnect(h) \/ Disconnect(h) \/ Close(h)
      PROVE  Inv'
  BY <1>3, BuildsKeeps, WaitForConnectKeeps, DisconnectKeeps, CloseKeeps
<1>4. ASSUME NEW h \in Handles, NEW g \in Handles, Copy(h, g) PROVE Inv'
  BY <1>4, CopyKeeps
<1>5. ASSUME NEW p \in Procs, Crash(p) PROVE Inv'
  BY <1>5, CrashKeeps
<1>6. ASSUME UNCHANGED vars PROVE Inv'
  BY <1>6 DEF vars, handle, server, Inv, TypeOK, OneServer, OneProcess, Claimed, AloneIsAlone,
     IdleIsZero, RefsCount, DescCount, DescAlone, Paths, Shared, Users, Leavers, Listeners, Closing
<1> QED BY <1>1, <1>2, <1>3, <1>4, <1>5, <1>6 DEF Next

LEMMA InvHolds == Spec => []Inv
<1> QED BY InitInv, InvNext, PTL DEF Spec

-----------------------------------------------------------------------------
\* What the invariant says of counters, for one server at a time.
LEMMA InvCounted == Inv => Counted
<1> SUFFICES ASSUME Inv, NEW n \in Calls
             PROVE  /\ refs[n] = Cardinality({h \in Handles : life[h] = n}) +
                           Cardinality({h \in Handles : old[h] = n /\ st[h] \in {"closefd", "count"}})
                    /\ refs[n] > 0 => desc[n] > 0
                    /\ Claims(n) = {} => desc[n] = 0 /\ lock # n
  BY DEF Counted
<1>a. /\ TypeOK /\ OneServer /\ AloneIsAlone
      /\ IdleIsZero /\ RefsCount /\ DescCount /\ DescAlone
  BY DEF Inv
<1>b. n # 0
  BY DEF Calls
<1>1. CASE n # lock
  <2>1. {h \in Handles : life[h] = n} = {} /\ {h \in Handles : old[h] = n /\ st[h] \in {"closefd", "count"}} = {}
    BY <1>1, <1>a, <1>b DEF OneServer
  <2> QED BY <2>1, <1>1, <1>a, FS_EmptySet DEF IdleIsZero
<1>2. CASE n = lock
  <2>1. {h \in Handles : life[h] = n} = Users /\ {h \in Handles : old[h] = n /\ st[h] \in {"closefd", "count"}} = Leavers
    BY <1>2, <1>a, <1>b DEF OneServer, Users, Leavers
  <2>2. refs[n] = Cardinality(Users) + Cardinality(Leavers)
    BY <1>2, <1>a, <1>b DEF RefsCount
  <2>3. Claims(n) # {}
    BY <1>2, <1>a, <1>b DEF OneServer, Claimed, Claims
  <2>4. ASSUME refs[n] > 0 PROVE desc[n] > 0
    <3>1. Users # {} \/ Leavers # {}
      <4>1. CASE Users = {} /\ Leavers = {}
        BY <2>2, <2>4, FS_EmptySet
      <4> QED BY <4>1
    <3>2. Shared
      BY <3>1, InUse, SetsOfHandles
    <3>3. desc[n] = 1 + Cardinality(Listeners) + Cardinality(Closing)
      BY <3>2, <1>2, <1>a DEF DescCount
    <3>4. PICK h \in Handles : TRUE
      BY <3>1, SetsOfHandles
    <3>5. Cardinality(Listeners) \in Nat /\ Cardinality(Closing) \in Nat
      BY Sizes, SetsOfHandles
    <3> QED BY <3>3, <3>5
  <2> QED BY <2>1, <2>2, <2>3, <2>4
<1> QED BY <1>1, <1>2

(***************************************************************************)
(* However many processes create, copy, connect, close and unlink at one   *)
(* name, and wherever system calls fail and processes die, the name leads  *)
(* to the one living server that has the lock; every handle is counted;    *)
(* only a dead process leaves a path behind, and that keeps nobody out.    *)
(***************************************************************************)
THEOREM NameIsKept == Spec => []NamesAreKept
<1>1. Inv => NamesAreKept
  <2> SUFFICES ASSUME Inv PROVE NamesAreKept
    OBVIOUS
  <2>a. TypeOK /\ OneServer /\ AloneIsAlone /\ IdleIsZero /\ Paths
    BY DEF Inv
  <2>1. LiveKeepsName
    <3> SUFFICES ASSUME NEW h \in Handles, life[h] # 0 PROVE path = life[h] /\ lock = life[h]
      BY DEF LiveKeepsName
    <3> QED BY <2>a, InUse, Basics DEF Users, Paths
  <2>2. BindMeetsNoPath /\ StaleOnlyByCrash
    BY <2>a DEF BindMeetsNoPath, StaleOnlyByCrash, Paths
  <2>3. ReachesTheHolder
    BY <2>a DEF ReachesTheHolder, IdleIsZero, TypeOK
  <2> QED BY <2>a, <2>1, <2>2, <2>3, InvCounted DEF NamesAreKept
<1> QED BY <1>1, InvHolds, PTL

-----------------------------------------------------------------------------
(***************************************************************************)
(* Processes started by fork.  The two properties of the constructor rest  *)
(* on who has the writing end of an error pipe: while a thread reads its   *)
(* own, a child of its that is not its program yet has told its failure or *)
(* still has the writing end, and no earlier child of the thread has it.   *)
(* That no handle has a stranger's number rests on the children that are   *)
(* being built being live too.                                             *)
(***************************************************************************)

Owned ==
  \A t \in Threads : kid[t] # NoPid =>
    /\ state[kid[t]] # "free" /\ by[kid[t]] = t /\ kid[t] \notin left
    /\ \A u \in Threads : u # t => kid[u] # kid[t]

Young == \A c \in Pids : state[c] \in {"setup", "failing"} => fate[c] = "no"

Piped ==
  \A t \in Threads :
    /\ pc[t] \in {"fork", "close", "read"} =>
         \A c \in Pids : by[c] = t /\ t \in hold[c] => c = kid[t]
    /\ pc[t] = "fork" => ~sent[t]
    /\ pc[t] \in {"close", "read"} =>
         /\ sent[t] => state[kid[t]] = "zombie" /\ fate[kid[t]] = "no"
         /\ ~sent[t] /\ fate[kid[t]] = "no" =>
              state[kid[t]] \in {"setup", "failing"} /\ t \in hold[kid[t]]
    /\ pc[t] = "reap" => state[kid[t]] = "zombie" /\ fate[kid[t]] = "no"
    /\ pc[t] = "built" => fate[kid[t]] # "no"

Known ==
  /\ SpawnTypeOK /\ NoStray /\ Young
  /\ ~took => Owned /\ HandleOwnsChild /\ Piped

\* Every step keeps the types, waits on empty handles or not.
LEMMA TypesKept ==
  ASSUME SpawnAssumption, SpawnTypeOK, [SpawnNext]_spawnVars
  PROVE  SpawnTypeOK'
<1>1. ASSUME NEW t \in Threads, OpenPipe(t) PROVE SpawnTypeOK'
  BY <1>1 DEF OpenPipe, SentNothing, GoesTo, SpawnTypeOK
<1>2. ASSUME NEW t \in Threads, Fork(t) PROVE SpawnTypeOK'
  BY <1>2 DEF Fork, GoesTo, SpawnAssumption, SpawnTypeOK
<1>3. ASSUME NEW t \in Threads, ForkThrows(t) PROVE SpawnTypeOK'
  BY <1>3 DEF ForkThrows, Interrupt, GoesTo, children, SpawnAssumption,
     SpawnTypeOK
<1>4. ASSUME NEW t \in Threads, CloseOut(t) PROVE SpawnTypeOK'
  BY <1>4 DEF CloseOut, OutClosed, GoesTo, children, SpawnTypeOK
<1>5. ASSUME NEW t \in Threads, ReadError(t) PROVE SpawnTypeOK'
  BY <1>5 DEF ReadError, Thrown, children, SpawnTypeOK
<1>6. ASSUME NEW t \in Threads, ReadEnd(t) PROVE SpawnTypeOK'
  BY <1>6 DEF ReadEnd, GoesTo, children, SpawnTypeOK
<1>7. ASSUME NEW t \in Threads, ReadThrows(t) PROVE SpawnTypeOK'
  BY <1>7 DEF ReadThrows, Interrupt, GoesTo, children, SpawnAssumption,
     SpawnTypeOK
<1>8. ASSUME NEW t \in Threads, ReapFailed(t) PROVE SpawnTypeOK'
  BY <1>8 DEF ReapFailed, Ended, Reap, Interrupt, GoesTo,
     SpawnAssumption, SpawnTypeOK
<1>9. ASSUME NEW t \in Threads, MoveAssign(t) PROVE SpawnTypeOK'
  BY <1>9 DEF MoveAssign, AssignWaits, Ended, Reap, Interrupt,
     GoesTo, SpawnAssumption, SpawnTypeOK
<1>10. ASSUME NEW t \in Threads, Destroy(t) PROVE SpawnTypeOK'
  BY <1>10 DEF Destroy, AssignWaits, Ended, Reap, Interrupt,
     GoesTo, SpawnAssumption, SpawnTypeOK
<1>11. ASSUME NEW t \in Threads, Wait(t) PROVE SpawnTypeOK'
  BY <1>11 DEF Wait, Reap, ClearPid, SpawnTypeOK
<1>12. ASSUME NEW t \in Threads, WaitEmpty(t) PROVE SpawnTypeOK'
  BY <1>12 DEF WaitEmpty, Reap, SpawnTypeOK
<1>13. ASSUME NEW t \in Threads, Detach(t) PROVE SpawnTypeOK'
  BY <1>13 DEF Detach, children, SpawnTypeOK
<1>14. ASSUME NEW c \in Pids, Exec(c) PROVE SpawnTypeOK'
  BY <1>14 DEF Exec, ClosePipes, SpawnTypeOK
<1>15. ASSUME NEW c \in Pids, ExecFails(c) PROVE SpawnTypeOK'
  BY <1>15 DEF ExecFails, NextOfFailed, SpawnTypeOK
<1>16. ASSUME NEW c \in Pids, Report(c) PROVE SpawnTypeOK'
  BY <1>16 DEF Report, SpawnTypeOK
<1>17. ASSUME NEW c \in Pids, Dies(c) PROVE SpawnTypeOK'
  BY <1>17 DEF Dies, SpawnAssumption, SpawnTypeOK
<1>18. ASSUME NEW c \in Pids, ProgramEnds(c) PROVE SpawnTypeOK'
  BY <1>18 DEF ProgramEnds, SpawnTypeOK
<1>19. CASE UNCHANGED spawnVars
  BY <1>19 DEF spawnVars, children, SpawnTypeOK
<1> QED BY <1>1, <1>2, <1>3, <1>4, <1>5, <1>6, <1>7, <1>8, <1>9, <1>10, <1>11, <1>12, <1>13, <1>14,
           <1>15, <1>16, <1>17, <1>18, <1>19 DEF SpawnNext, Builds, Uses, StartsUp

\* A child goes out of a variable only reaped, or let go of.
LEMMA StraysKept ==
  ASSUME SpawnAssumption, SpawnTypeOK, NoStray, [SpawnNext]_spawnVars
  PROVE  NoStray'
<1>1. ASSUME NEW t \in Threads, OpenPipe(t) PROVE NoStray'
  BY <1>1 DEF OpenPipe, NoStray
<1>2. ASSUME NEW t \in Threads, Fork(t) PROVE NoStray'
  BY <1>2 DEF Fork, SpawnAssumption, SpawnTypeOK, NoStray
<1>3. ASSUME NEW t \in Threads, ForkThrows(t) PROVE NoStray'
  BY <1>3 DEF ForkThrows, children, NoStray
<1>4. ASSUME NEW t \in Threads, CloseOut(t) PROVE NoStray'
  BY <1>4 DEF CloseOut, children, NoStray
<1>5. ASSUME NEW t \in Threads, ReadError(t) PROVE NoStray'
  BY <1>5 DEF ReadError, children, NoStray
<1>6. ASSUME NEW t \in Threads, ReadEnd(t) PROVE NoStray'
  BY <1>6 DEF ReadEnd, children, NoStray
<1>7. ASSUME NEW t \in Threads, ReadThrows(t) PROVE NoStray'
  BY <1>7 DEF ReadThrows, children, NoStray
<1>8. ASSUME NEW t \in Threads, ReapFailed(t) PROVE NoStray'
  BY <1>8 DEF ReapFailed, Reap, SpawnTypeOK, NoStray
<1>9. ASSUME NEW t \in Threads, MoveAssign(t) PROVE NoStray'
  BY <1>9 DEF MoveAssign, AssignWaits, Reap, SpawnTypeOK, NoStray
<1>10. ASSUME NEW t \in Threads, Destroy(t) PROVE NoStray'
  BY <1>10 DEF Destroy, AssignWaits, Reap, SpawnTypeOK, NoStray
<1>11. ASSUME NEW t \in Threads, Wait(t) PROVE NoStray'
  BY <1>11 DEF Wait, Reap, ClearPid, SpawnTypeOK, NoStray
<1>12. ASSUME NEW t \in Threads, WaitEmpty(t) PROVE NoStray'
  BY <1>12 DEF WaitEmpty, Reap, NoStray
<1>13. ASSUME NEW t \in Threads, Detach(t) PROVE NoStray'
  BY <1>13 DEF Detach, children, NoStray
<1>14. ASSUME NEW c \in Pids, Exec(c) PROVE NoStray'
  BY <1>14 DEF Exec, NoStray
<1>15. ASSUME NEW c \in Pids, ExecFails(c) PROVE NoStray'
  BY <1>15 DEF ExecFails, NoStray
<1>16. ASSUME NEW c \in Pids, Report(c) PROVE NoStray'
  BY <1>16 DEF Report, NoStray
<1>17. ASSUME NEW c \in Pids, Dies(c) PROVE NoStray'
  BY <1>17 DEF Dies, NoStray
<1>18. ASSUME NEW c \in Pids, ProgramEnds(c) PROVE NoStray'
  BY <1>18 DEF ProgramEnds, NoStray
<1>19. CASE UNCHANGED spawnVars
  BY <1>19 DEF spawnVars, children, NoStray
<1> QED BY <1>1, <1>2, <1>3, <1>4, <1>5, <1>6, <1>7, <1>8, <1>9, <1>10, <1>11, <1>12, <1>13, <1>14,
           <1>15, <1>16, <1>17, <1>18, <1>19 DEF SpawnNext, Builds, Uses, StartsUp

\* A child that has neither run nor died has no fate yet.
LEMMA YoungKept ==
  ASSUME SpawnAssumption, SpawnTypeOK, Young, [SpawnNext]_spawnVars
  PROVE  Young'
<1>1. ASSUME NEW t \in Threads, OpenPipe(t) PROVE Young'
  BY <1>1 DEF OpenPipe, Young
<1>2. ASSUME NEW t \in Threads, Fork(t) PROVE Young'
  BY <1>2 DEF Fork, SpawnTypeOK, Young
<1>3. ASSUME NEW t \in Threads, ForkThrows(t) PROVE Young'
  BY <1>3 DEF ForkThrows, children, Young
<1>4. ASSUME NEW t \in Threads, CloseOut(t) PROVE Young'
  BY <1>4 DEF CloseOut, children, Young
<1>5. ASSUME NEW t \in Threads, ReadError(t) PROVE Young'
  BY <1>5 DEF ReadError, children, Young
<1>6. ASSUME NEW t \in Threads, ReadEnd(t) PROVE Young'
  BY <1>6 DEF ReadEnd, children, Young
<1>7. ASSUME NEW t \in Threads, ReadThrows(t) PROVE Young'
  BY <1>7 DEF ReadThrows, children, Young
<1>8. ASSUME NEW t \in Threads, ReapFailed(t) PROVE Young'
  BY <1>8 DEF ReapFailed, Reap, SpawnTypeOK, Young
<1>9. ASSUME NEW t \in Threads, MoveAssign(t) PROVE Young'
  BY <1>9 DEF MoveAssign, AssignWaits, Reap, SpawnTypeOK, Young
<1>10. ASSUME NEW t \in Threads, Destroy(t) PROVE Young'
  BY <1>10 DEF Destroy, AssignWaits, Reap, SpawnTypeOK, Young
<1>11. ASSUME NEW t \in Threads, Wait(t) PROVE Young'
  BY <1>11 DEF Wait, Reap, Young
<1>12. ASSUME NEW t \in Threads, WaitEmpty(t) PROVE Young'
  BY <1>12 DEF WaitEmpty, Reap, Young
<1>13. ASSUME NEW t \in Threads, Detach(t) PROVE Young'
  BY <1>13 DEF Detach, children, Young
<1>14. ASSUME NEW c \in Pids, Exec(c) PROVE Young'
  BY <1>14 DEF Exec, SpawnTypeOK, Young
<1>15. ASSUME NEW c \in Pids, ExecFails(c) PROVE Young'
  BY <1>15 DEF ExecFails, Young
<1>16. ASSUME NEW c \in Pids, Report(c) PROVE Young'
  BY <1>16 DEF Report, Young
<1>17. ASSUME NEW c \in Pids, Dies(c) PROVE Young'
  BY <1>17 DEF Dies, SpawnTypeOK, Young
<1>18. ASSUME NEW c \in Pids, ProgramEnds(c) PROVE Young'
  BY <1>18 DEF ProgramEnds, Young
<1>19. CASE UNCHANGED spawnVars
  BY <1>19 DEF spawnVars, children, Young
<1> QED BY <1>1, <1>2, <1>3, <1>4, <1>5, <1>6, <1>7, <1>8, <1>9, <1>10, <1>11, <1>12, <1>13, <1>14,
           <1>15, <1>16, <1>17, <1>18, <1>19 DEF SpawnNext, Builds, Uses, StartsUp

\* Without waits on empty handles nobody reaps the child a thread is building.
LEMMA OwnedKept ==
  ASSUME SpawnAssumption, ~took', SpawnTypeOK, Owned, HandleOwnsChild, [SpawnNext]_spawnVars
  PROVE  Owned'
<1>1. ASSUME NEW t \in Threads, OpenPipe(t) PROVE Owned'
  BY <1>1 DEF OpenPipe, Owned
<1>2. ASSUME NEW t \in Threads, Fork(t) PROVE Owned'
  BY <1>2 DEF Fork, SpawnTypeOK, Owned
<1>3. ASSUME NEW t \in Threads, ForkThrows(t) PROVE Owned'
  BY <1>3 DEF ForkThrows, children, Owned
<1>4. ASSUME NEW t \in Threads, CloseOut(t) PROVE Owned'
  BY <1>4 DEF CloseOut, children, Owned
<1>5. ASSUME NEW t \in Threads, ReadError(t) PROVE Owned'
  BY <1>5 DEF ReadError, children, Owned
<1>6. ASSUME NEW t \in Threads, ReadEnd(t) PROVE Owned'
  BY <1>6 DEF ReadEnd, children, Owned
<1>7. ASSUME NEW t \in Threads, ReadThrows(t) PROVE Owned'
  BY <1>7 DEF ReadThrows, children, SpawnTypeOK, Owned
<1>8. ASSUME NEW t \in Threads, ReapFailed(t) PROVE Owned'
  BY <1>8 DEF ReapFailed, Reap, SpawnTypeOK, Owned
<1>9. ASSUME NEW t \in Threads, MoveAssign(t) PROVE Owned'
  BY <1>9 DEF MoveAssign, AssignWaits, Reap, SpawnTypeOK, Owned,
     HandleOwnsChild
<1>10. ASSUME NEW t \in Threads, Destroy(t) PROVE Owned'
  BY <1>10 DEF Destroy, AssignWaits, Reap, SpawnTypeOK, Owned,
     HandleOwnsChild
<1>11. ASSUME NEW t \in Threads, Wait(t) PROVE Owned'
  BY <1>11 DEF Wait, Reap, Owned, HandleOwnsChild
<1>12. ASSUME NEW t \in Threads, WaitEmpty(t) PROVE Owned'
  BY <1>12 DEF WaitEmpty
<1>13. ASSUME NEW t \in Threads, Detach(t) PROVE Owned'
  BY <1>13 DEF Detach, children, Owned, HandleOwnsChild
<1>14. ASSUME NEW c \in Pids, Exec(c) PROVE Owned'
  BY <1>14 DEF Exec, Owned
<1>15. ASSUME NEW c \in Pids, ExecFails(c) PROVE Owned'
  BY <1>15 DEF ExecFails, NextOfFailed, Owned
<1>16. ASSUME NEW c \in Pids, Report(c) PROVE Owned'
  BY <1>16 DEF Report, Owned
<1>17. ASSUME NEW c \in Pids, Dies(c) PROVE Owned'
  BY <1>17 DEF Dies, Owned
<1>18. ASSUME NEW c \in Pids, ProgramEnds(c) PROVE Owned'
  BY <1>18 DEF ProgramEnds, Owned
<1>19. CASE UNCHANGED spawnVars
  BY <1>19 DEF spawnVars, children, Owned
<1> QED BY <1>1, <1>2, <1>3, <1>4, <1>5, <1>6, <1>7, <1>8, <1>9, <1>10, <1>11, <1>12, <1>13, <1>14,
           <1>15, <1>16, <1>17, <1>18, <1>19 DEF SpawnNext, Builds, Uses, StartsUp

\* Nor the one in a handle, so that its number is not given to another.
LEMMA HandlesKept ==
  ASSUME SpawnAssumption, ~took', SpawnTypeOK, Owned, HandleOwnsChild, [SpawnNext]_spawnVars
  PROVE  HandleOwnsChild'
<1>1. ASSUME NEW t \in Threads, OpenPipe(t) PROVE HandleOwnsChild'
  BY <1>1 DEF OpenPipe, HandleOwnsChild
<1>2. ASSUME NEW t \in Threads, Fork(t) PROVE HandleOwnsChild'
  BY <1>2 DEF Fork, HandleOwnsChild
<1>3. ASSUME NEW t \in Threads, ForkThrows(t) PROVE HandleOwnsChild'
  BY <1>3 DEF ForkThrows, children, HandleOwnsChild
<1>4. ASSUME NEW t \in Threads, CloseOut(t) PROVE HandleOwnsChild'
  BY <1>4 DEF CloseOut, children, HandleOwnsChild
<1>5. ASSUME NEW t \in Threads, ReadError(t) PROVE HandleOwnsChild'
  BY <1>5 DEF ReadError, children, HandleOwnsChild
<1>6. ASSUME NEW t \in Threads, ReadEnd(t) PROVE HandleOwnsChild'
  BY <1>6 DEF ReadEnd, children, HandleOwnsChild
<1>7. ASSUME NEW t \in Threads, ReadThrows(t) PROVE HandleOwnsChild'
  BY <1>7 DEF ReadThrows, children, HandleOwnsChild
<1>8. ASSUME NEW t \in Threads, ReapFailed(t) PROVE HandleOwnsChild'
  BY <1>8 DEF ReapFailed, Reap, SpawnTypeOK, HandleOwnsChild
<1>9. ASSUME NEW t \in Threads, MoveAssign(t) PROVE HandleOwnsChild'
  BY <1>9 DEF MoveAssign, AssignWaits, Reap, SpawnTypeOK, Owned,
     HandleOwnsChild
<1>10. ASSUME NEW t \in Threads, Destroy(t) PROVE HandleOwnsChild'
  BY <1>10 DEF Destroy, AssignWaits, Reap, SpawnTypeOK, HandleOwnsChild
<1>11. ASSUME NEW t \in Threads, Wait(t) PROVE HandleOwnsChild'
  BY <1>11 DEF Wait, Reap, ClearPid, SpawnTypeOK, HandleOwnsChild
<1>12. ASSUME NEW t \in Threads, WaitEmpty(t) PROVE HandleOwnsChild'
  BY <1>12 DEF WaitEmpty
<1>13. ASSUME NEW t \in Threads, Detach(t) PROVE HandleOwnsChild'
  BY <1>13 DEF Detach, children, SpawnTypeOK, HandleOwnsChild
<1>14. ASSUME NEW c \in Pids, Exec(c) PROVE HandleOwnsChild'
  BY <1>14 DEF Exec, HandleOwnsChild
<1>15. ASSUME NEW c \in Pids, ExecFails(c) PROVE HandleOwnsChild'
  BY <1>15 DEF ExecFails, NextOfFailed, HandleOwnsChild
<1>16. ASSUME NEW c \in Pids, Report(c) PROVE HandleOwnsChild'
  BY <1>16 DEF Report, HandleOwnsChild
<1>17. ASSUME NEW c \in Pids, Dies(c) PROVE HandleOwnsChild'
  BY <1>17 DEF Dies, HandleOwnsChild
<1>18. ASSUME NEW c \in Pids, ProgramEnds(c) PROVE HandleOwnsChild'
  BY <1>18 DEF ProgramEnds, HandleOwnsChild
<1>19. CASE UNCHANGED spawnVars
  BY <1>19 DEF spawnVars, children, HandleOwnsChild
<1> QED BY <1>1, <1>2, <1>3, <1>4, <1>5, <1>6, <1>7, <1>8, <1>9, <1>10, <1>11, <1>12, <1>13, <1>14,
           <1>15, <1>16, <1>17, <1>18, <1>19 DEF SpawnNext, Builds, Uses, StartsUp

\* A failure is told, or the writing end still open, until the thread knows.
LEMMA PipedKept ==
  ASSUME SpawnAssumption, ~took', SpawnTypeOK, Owned, HandleOwnsChild, Young, Piped, [SpawnNext]_spawnVars
  PROVE  Piped'
<1>1. ASSUME NEW t \in Threads, OpenPipe(t) PROVE Piped'
  BY <1>1 DEF OpenPipe, SentNothing, GoesTo, SpawnTypeOK, Piped
<1>2. ASSUME NEW t \in Threads, Fork(t) PROVE Piped'
  BY <1>2 DEF Fork, GoesTo, SpawnAssumption, SpawnTypeOK, Owned, Piped
<1>3. ASSUME NEW t \in Threads, ForkThrows(t) PROVE Piped'
  BY <1>3 DEF ForkThrows, GoesTo, children, Piped
<1>4. ASSUME NEW t \in Threads, CloseOut(t) PROVE Piped'
  BY <1>4 DEF CloseOut, GoesTo, children, Piped
<1>5. ASSUME NEW t \in Threads, ReadError(t) PROVE Piped'
  BY <1>5 DEF ReadError, Thrown, children, Piped
<1>6. ASSUME NEW t \in Threads, ReadEnd(t) PROVE Piped'
  BY <1>6 DEF ReadEnd, GoesTo, children, SpawnTypeOK, Piped
<1>7. ASSUME NEW t \in Threads, ReadThrows(t) PROVE Piped'
  BY <1>7 DEF ReadThrows, GoesTo, children, SpawnTypeOK, Piped
<1>8. ASSUME NEW t \in Threads, ReapFailed(t) PROVE Piped'
  BY <1>8 DEF ReapFailed, Reap, GoesTo, SpawnTypeOK, Owned, Piped
<1>9. ASSUME NEW t \in Threads, MoveAssign(t) PROVE Piped'
  BY <1>9 DEF MoveAssign, AssignWaits, Reap, GoesTo, SpawnTypeOK,
     HandleOwnsChild, Piped
<1>10. ASSUME NEW t \in Threads, Destroy(t) PROVE Piped'
  BY <1>10 DEF Destroy, AssignWaits, Reap, GoesTo, SpawnTypeOK,
     HandleOwnsChild, Piped
<1>11. ASSUME NEW t \in Threads, Wait(t) PROVE Piped'
  BY <1>11 DEF Wait, Reap, HandleOwnsChild, Piped
<1>12. ASSUME NEW t \in Threads, WaitEmpty(t) PROVE Piped'
  BY <1>12 DEF WaitEmpty
<1>13. ASSUME NEW t \in Threads, Detach(t) PROVE Piped'
  BY <1>13 DEF Detach, children, Piped
<1>14. ASSUME NEW c \in Pids, Exec(c) PROVE Piped'
  BY <1>14 DEF Exec, ClosePipes, SpawnTypeOK, Piped
<1>15. ASSUME NEW c \in Pids, ExecFails(c) PROVE Piped'
  BY <1>15 DEF ExecFails, NextOfFailed, Piped
<1>16. ASSUME NEW c \in Pids, Report(c) PROVE Piped'
  BY <1>16 DEF Report, SpawnAssumption, SpawnTypeOK, Owned, Young, Piped
<1>17. ASSUME NEW c \in Pids, Dies(c) PROVE Piped'
  BY <1>17 DEF Dies, SpawnTypeOK, Piped
<1>18. ASSUME NEW c \in Pids, ProgramEnds(c) PROVE Piped'
  BY <1>18 DEF ProgramEnds, Piped
<1>19. CASE UNCHANGED spawnVars
  BY <1>19 DEF spawnVars, children, Piped
<1> QED BY <1>1, <1>2, <1>3, <1>4, <1>5, <1>6, <1>7, <1>8, <1>9, <1>10, <1>11, <1>12, <1>13, <1>14,
           <1>15, <1>16, <1>17, <1>18, <1>19 DEF SpawnNext, Builds, Uses, StartsUp

LEMMA TookStays == [SpawnNext]_spawnVars /\ ~took' => ~took
<1>1. ASSUME NEW t \in Threads, Builds(t) PROVE UNCHANGED took
  BY <1>1 DEF Builds, OpenPipe, Fork, ForkThrows, CloseOut, ReadError, ReadEnd, ReadThrows, ReapFailed
<1>2. ASSUME NEW t \in Threads, Uses(t) PROVE took' = TRUE \/ UNCHANGED took
  BY <1>2 DEF Uses, MoveAssign, Destroy, Wait, WaitEmpty, Detach
<1>3. ASSUME NEW c \in Pids, StartsUp(c) \/ Dies(c) \/ ProgramEnds(c) PROVE UNCHANGED took
  BY <1>3 DEF StartsUp, Exec, ExecFails, Report, Dies, ProgramEnds
<1> QED BY <1>1, <1>2, <1>3 DEF SpawnNext, spawnVars

\* With any number of threads that start processes at once, and numbers that
\* are used again: no child stays a zombie unknown to all; and until a wait on
\* an empty handle takes somebody's child, a process at hand has reached its
\* program or was killed on the way, an error is thrown only for one that has
\* not, and no handle has a stranger's number.
THEOREM ChildrenStayKnown ==
  ASSUME SpawnAssumption PROVE SpawnSpec => []ChildrenAreKnown
<1>1. SpawnInit => Known
  <2> SUFFICES ASSUME SpawnInit PROVE Known
    OBVIOUS
  <2>a. (CHOOSE t \in Threads : TRUE) \in Threads /\ took \in BOOLEAN
    BY DEF SpawnAssumption, SpawnInit
  <2>b. SpawnInit /\ MaxFails \in Nat /\ MaxDeaths \in Nat /\ NoPid \notin Pids
    BY DEF SpawnAssumption
  <2>1. SpawnTypeOK
    BY <2>a, <2>b DEF SpawnInit, SpawnTypeOK
  <2>2. NoStray /\ Young
    BY DEF SpawnInit, NoStray, Young
  <2>3. Owned /\ HandleOwnsChild /\ Piped
    BY DEF SpawnInit, Owned, HandleOwnsChild, Piped
  <2> QED BY <2>1, <2>2, <2>3 DEF Known
<1>2. Known /\ [SpawnNext]_spawnVars => Known'
  BY TookStays, TypesKept, StraysKept, YoungKept, OwnedKept, HandlesKept, PipedKept DEF Known
<1>3. Known => ChildrenAreKnown
  BY DEF Known, ChildrenAreKnown, Piped, BuiltHasRun, ThrownHasNotRun
<1> QED BY <1>1, <1>2, <1>3, PTL DEF SpawnSpec


-----------------------------------------------------------------------------
(***************************************************************************)
(* Processes started by vfork.  The numbers that the threads have opened   *)
(* for themselves are all different and were free in the program's table,  *)
(* so whoever is at rest has left none open, also when threads start       *)
(* processes at once.  While one thread works alone, a standard descriptor *)
(* it has exchanged is in its duplicate, and of the targets that share a   *)
(* source the first one has the flag the source had: since they are put    *)
(* back from the last one, its flag is the one that stays.                 *)
(***************************************************************************)
Going == {"dup", "protect", "map", "dup2"}

\* Target k has been put aside.
Backed(t, k) == backup[t][k] # NoFd

\* How far a thread has got: it has duplicates of the targets up to its own.
Placed(t) ==
  /\ step[t] = "rest" => backup[t] = NoBackup
  /\ step[t] \in Going => io[t][at[t]].kind # "none"
  /\ step[t] = "dup2" => io[t][at[t]].kind = "fd"
  /\ step[t] = "dup" => \A k \in Std : Backed(t, k) <=> k < at[t] /\ io[t][k].kind # "none"
  /\ step[t] \in {"protect", "map", "dup2", "restore", "setfd"} =>
       \A k \in Std : Backed(t, k) <=> k <= at[t] /\ io[t][k].kind # "none"
  /\ step[t] \in {"vfork", "unmap"} => \A k \in Std : Backed(t, k) <=> io[t][k].kind # "none"
  /\ step[t] \in {"restore", "setfd"} => Backed(t, at[t])

Places == \A t \in Starters : Placed(t)

\* What is asked for can be had.
Usable ==
  \A t \in Starters : \A k \in Std : \A n \in Names(io[t][k]) :
    n \in Fds /\ Table[n] # Closed /\ (io[t][k].kind = "pipe" => n \notin Std)

\* The descriptors a thread has opened for itself and not closed yet: up to
\* three duplicates and /dev/null.
Slots == 0..3
Held(t, s) ==
  IF s = 3 THEN IF step[t] \in {"rest", "restore", "setfd"} THEN NoFd ELSE null[t]
  ELSE IF step[t] = "setfd" /\ at[t] = s THEN NoFd ELSE backup[t][s]

Opened ==
  /\ \A t \in Starters : \A s \in Slots :
       Held(t, s) # NoFd => Held(t, s) \in Fds /\ Table[Held(t, s)] = Closed
  /\ \A t, u \in Starters : \A s, r \in Slots :
       Held(t, s) = Held(u, r) /\ Held(t, s) # NoFd => t = u /\ s = r
  /\ \A n \in Fds :
       tab[n].file # "closed" <=> Table[n] # Closed \/ \E t \in Starters : \E s \in Slots : Held(t, s) = n
  /\ \A n \in Fds : tab[n].file = "closed" => ~tab[n].cloexec
  /\ \A t \in Starters : Held(t, 3) # NoFd => tab[Held(t, 3)].file = "null"

\* The targets whose source has the flag, and those that have been exchanged.
Flagged(t, k) ==
  io[t][k].kind = "fd" /\ Backed(t, k) /\ ~(step[t] \in {"protect", "map"} /\ k = at[t])
Moved(t, k) ==
  k \in Std /\ Backed(t, k) /\ ~(step[t] \in {"protect", "map", "dup2", "setfd"} /\ k = at[t])

\* Target j was the first to change the flag of its source.
FirstOf(t, j) ==
  /\ \A i \in Std : Flagged(t, i) /\ io[t][i].fd = io[t][j].fd => j <= i
  /\ Moved(t, io[t][j].fd) => j <= io[t][j].fd

\* The table while one thread alone is at work: what it will put back.
Kept(t) ==
  /\ \A n \in Fds : Table[n] # Closed /\ ~Moved(t, n) => tab[n].file = Table[n].file
  /\ \A k \in Std : Held(t, k) # NoFd => tab[Held(t, k)].file = Table[k].file
  /\ \A n \in Fds :
       Table[n] # Closed /\ ~Moved(t, n) /\ (\A j \in Std : Flagged(t, j) => io[t][j].fd # n) =>
         tab[n].cloexec = Table[n].cloexec
  /\ \A j \in Std : Flagged(t, j) /\ FirstOf(t, j) => flag[t][j] = Table[io[t][j].fd].cloexec

\* And what its child will have.
Given(t) ==
  /\ \A j \in Std : Flagged(t, j) /\ io[t][j].fd \notin Std => tab[io[t][j].fd].cloexec
  /\ \A s \in Slots :
       Held(t, s) # NoFd /\ ~(step[t] = "protect" /\ s = at[t]) => tab[Held(t, s)].cloexec
  /\ ~FromStd(t) => \A k \in Std : Moved(t, k) => tab[k].file = Asked(t, k) /\ ~tab[k].cloexec

Works(t) ==
  /\ before[t] = Table
  /\ Kept(t)
  /\ step[t] \in Going \cup {"vfork"} => Given(t)

\* While no two start processes at once.
OneStarts ==
  ~mixed =>
    /\ \A t, u \in Starters : step[t] # "rest" /\ step[u] # "rest" => t = u
    /\ AllRest => tab = Table
    /\ \A t \in Starters : step[t] # "rest" => Works(t)

\* The types.
Layout ==
  /\ tab \in Tables /\ child \in [Starters -> Tables] /\ before \in [Starters -> Tables]
  /\ step \in [Starters -> {"rest", "dup", "protect", "map", "dup2", "vfork", "unmap", "restore", "setfd"}]
  /\ at \in [Starters -> Std] /\ io \in [Starters -> [Std -> Sources]]
  /\ backup \in [Starters -> [Std -> {NoFd} \cup Fds]]
  /\ flag \in [Starters -> [Std -> BOOLEAN]]
  /\ null \in [Starters -> {NoFd} \cup Fds]
  /\ mixed \in BOOLEAN /\ terminated \in BOOLEAN /\ spawns \in 0..MaxSpawns

\* What holds also when threads start processes at once.
Sound == Layout /\ Places /\ Usable /\ Opened

VforkInv == Sound /\ OneStarts /\ ChildHasAsked /\ ChildHasNoMore

-----------------------------------------------------------------------------
LEMMA Standard == Std = {0, 1, 2} /\ NoFd \notin Fds /\ (VforkAssumption => Std \subseteq Fds)
  BY DEF Std, Fds, NoFd, VforkAssumption

LEMMA FirstTarget ==
  ASSUME NEW T \in SUBSET Std, T # {}
  PROVE  Min(T) \in T /\ \A k \in T : Min(T) <= k
<1>1. T \in SUBSET Nat
  BY DEF Std
<1>2. \E x \in T : \A y \in T : x <= y
  BY <1>1, LeastElement
<1> QED BY <1>2 DEF Min

LEMMA LastTarget ==
  ASSUME NEW T \in SUBSET Std, T # {}
  PROVE  Max(T) \in T /\ \A k \in T : k <= Max(T)
<1>1. \E x \in T : \A y \in T : y <= x
  BY GreatestElement, 2 \in Nat DEF Std
<1> QED BY <1>1 DEF Max

LEMMA FreeNumber ==
  ASSUME VforkAssumption, Free # {}
  PROVE  Min(Free) \in Fds /\ tab[Min(Free)] = Closed
<1>1. Free \in SUBSET Nat
  BY DEF Free, Fds
<1>2. \E x \in Free : \A y \in Free : x <= y
  BY <1>1, LeastElement
<1>3. Min(Free) \in Free
  BY <1>2 DEF Min
<1> QED BY <1>3 DEF Free

LEMMA NowhereIsTable == Closed \in [file : Files, cloexec : BOOLEAN] /\ Nowhere \in Tables
<1>1. "closed" \in Files /\ FALSE \in BOOLEAN
  BY DEF Files
<1>2. Closed \in [file : Files, cloexec : BOOLEAN]
  BY <1>1 DEF Closed
<1> QED BY <1>2 DEF Nowhere, Tables

\* An entry is a closed one or has a file.
LEMMA Entries ==
  ASSUME NEW e \in [file : Files, cloexec : BOOLEAN]
  PROVE  e = Closed <=> e.file = "closed" /\ ~e.cloexec
  BY DEF Closed

LEMMA SourceKinds ==
  ASSUME NEW source \in Sources
  PROVE  /\ source.kind \in {"none", "null", "fd", "pipe"}
         /\ source.kind = "fd" => source.fd \in Fds
         /\ source.kind = "pipe" => source.in \in Fds /\ source.out \in Fds
  BY DEF Sources

LEMMA TypesFollow ==
  ASSUME VforkAssumption, Sound
  PROVE  VforkTypeOK
<1> SUFFICES ASSUME NEW t \in Starters
             PROVE  /\ step[t] \in {"protect", "map", "dup2", "restore"} => backup[t][at[t]] \in Fds \ Std
                    /\ step[t] \notin {"rest", "restore", "setfd"} /\ null[t] # NoFd => tab[null[t]].file = "null"
  BY DEF Sound, Layout, VforkTypeOK
<1>1. ASSUME step[t] \in {"protect", "map", "dup2", "restore"} PROVE backup[t][at[t]] \in Fds \ Std
  <2>1. at[t] \in Std /\ at[t] \in Slots /\ at[t] # 3
    BY DEF Sound, Layout, Std, Slots
  <2>2. Backed(t, at[t])
    BY <1>1, <2>1 DEF Sound, Places, Placed, Going, Std
  <2>3. Held(t, at[t]) = backup[t][at[t]]
    BY <1>1, <2>1 DEF Held
  <2>4. backup[t][at[t]] \in Fds /\ Table[backup[t][at[t]]] = Closed
    BY <2>1, <2>2, <2>3 DEF Sound, Opened, Backed
  <2> QED BY <2>4 DEF VforkAssumption
<1>2. ASSUME step[t] \notin {"rest", "restore", "setfd"}, null[t] # NoFd PROVE tab[null[t]].file = "null"
  <2>1. Held(t, 3) = null[t]
    BY <1>2 DEF Held
  <2> QED BY <1>2, <2>1 DEF Sound, Opened
<1> QED BY <1>1, <1>2

-----------------------------------------------------------------------------
(***************************************************************************)
(* What happens to the descriptors that threads have opened for themselves.*)
(***************************************************************************)

\* None is opened or closed.
LEMMA HeldSame ==
  ASSUME Opened,
         \A u \in Starters : \A s \in Slots : Held(u, s)' = Held(u, s),
         \A n \in Fds : tab'[n].file = "closed" <=> tab[n].file = "closed",
         \A n \in Fds : tab'[n].file = "closed" => ~tab'[n].cloexec,
         \A u \in Starters : Held(u, 3) # NoFd => tab'[Held(u, 3)].file = tab[Held(u, 3)].file
  PROVE  Opened'
  BY DEF Opened, Slots

\* One thread opens one at a free number.
LEMMA HeldTakes ==
  ASSUME Opened, NEW t \in Starters, NEW s \in Slots, NEW m \in Fds,
         tab[m].file = "closed", Held(t, s) = NoFd, NoFd \notin Fds,
         \A n \in Fds : Table[n].file = "closed" => Table[n] = Closed,
         Held(t, s)' = m,
         \A u \in Starters : \A r \in Slots : u # t \/ r # s => Held(u, r)' = Held(u, r),
         \A n \in Fds \ {m} : tab'[n] = tab[n],
         tab'[m].file # "closed", s = 3 => tab'[m].file = "null"
  PROVE  Opened'
<1>1. 3 \in Slots
  BY DEF Slots
<1>2. Table[m] = Closed /\ \A u \in Starters : \A r \in Slots : Held(u, r) # m
  BY DEF Opened
<1>3. \A u \in Starters : \A r \in Slots :
       (Held(u, r))' # NoFd => (Held(u, r))' \in Fds /\ Table[(Held(u, r))'] = Closed
  BY <1>2 DEF Opened
<1>4. \A u, v \in Starters : \A r, q \in Slots :
       (Held(u, r))' = (Held(v, q))' /\ (Held(u, r))' # NoFd => u = v /\ r = q
  BY <1>2 DEF Opened
<1>5. \A n \in Fds :
       tab'[n].file # "closed" <=> Table[n] # Closed \/ \E u \in Starters : \E r \in Slots : (Held(u, r))' = n
  BY <1>2 DEF Opened
<1>6. \A n \in Fds : tab'[n].file = "closed" => ~tab'[n].cloexec
  BY DEF Opened
<1>7. \A u \in Starters : (Held(u, 3))' # NoFd => tab'[(Held(u, 3))'].file = "null"
  BY <1>1, <1>2 DEF Opened
<1> QED BY <1>3, <1>4, <1>5, <1>6, <1>7 DEF Opened

\* One thread closes one of its own.
LEMMA HeldDrops ==
  ASSUME Opened, NEW t \in Starters, NEW s \in Slots, NEW m \in Fds,
         Held(t, s) = m, NoFd \notin Fds,
         (Held(t, s))' = NoFd,
         \A u \in Starters : \A r \in Slots : u # t \/ r # s => (Held(u, r))' = Held(u, r),
         tab'[m] = Closed,
         \A n \in Fds \ {m} : tab'[n].file = "closed" <=> tab[n].file = "closed",
         \A n \in Fds \ {m} : tab'[n].file = "closed" => ~tab'[n].cloexec,
         \A u \in Starters : Held(u, 3) # NoFd /\ Held(u, 3) # m =>
           tab'[Held(u, 3)].file = tab[Held(u, 3)].file
  PROVE  Opened'
<1>1. 3 \in Slots
  BY DEF Slots
<1>2. tab'[m].file = "closed" /\ ~tab'[m].cloexec
  BY DEF Closed
<1>3. \A u \in Starters : \A r \in Slots : (Held(u, r))' # m
  BY DEF Opened
<1>4. \A u \in Starters : \A r \in Slots :
       (Held(u, r))' # NoFd => (Held(u, r))' \in Fds /\ Table[(Held(u, r))'] = Closed
  BY DEF Opened
<1>5. \A u, v \in Starters : \A r, q \in Slots :
       (Held(u, r))' = (Held(v, q))' /\ (Held(u, r))' # NoFd => u = v /\ r = q
  BY DEF Opened
<1>6. \A n \in Fds :
       tab'[n].file # "closed" <=> Table[n] # Closed \/ \E u \in Starters : \E r \in Slots : (Held(u, r))' = n
  <2>1. Table[m] = Closed
    BY DEF Opened
  <2> QED BY <1>2, <1>3, <2>1 DEF Opened
<1>7. \A n \in Fds : tab'[n].file = "closed" => ~tab'[n].cloexec
  BY <1>2
<1>8. \A u \in Starters : (Held(u, 3))' # NoFd => tab'[(Held(u, 3))'].file = "null"
  BY <1>1, <1>3 DEF Opened
<1> QED BY <1>4, <1>5, <1>6, <1>7, <1>8 DEF Opened

-----------------------------------------------------------------------------
\* What a step leaves alone of the other threads.
Apart(t) ==
  \A u \in Starters : u # t =>
    /\ step'[u] = step[u] /\ at'[u] = at[u] /\ io'[u] = io[u] /\ backup'[u] = backup[u]
    /\ flag'[u] = flag[u] /\ null'[u] = null[u] /\ child'[u] = child[u] /\ before'[u] = before[u]

LEMMA StepsApart ==
  ASSUME Layout, NEW t \in Starters, Spawns(t)
  PROVE  Apart(t)
<1> USE DEF Apart, Layout
<1>1. ASSUME Begin(t) PROVE Apart(t)
  BY <1>1 DEF Begin, StepsTo
<1>2. ASSUME Dup(t) PROVE Apart(t)
  BY <1>2 DEF Dup, StepsTo, same
<1>3. ASSUME AtLimit(t) PROVE Apart(t)
  BY <1>3 DEF AtLimit
<1>4. ASSUME Protect(t) PROVE Apart(t)
  BY <1>4 DEF Protect, StepsTo, same
<1>5. ASSUME OpenNull(t) PROVE Apart(t)
  BY <1>5 DEF OpenNull, same
<1>6. ASSUME SetFlag(t) PROVE Apart(t)
  BY <1>6 DEF SetFlag, StepsTo, same
<1>7. ASSUME Map(t) PROVE Apart(t)
  BY <1>7 DEF Map, StepsTo, same
<1>8. ASSUME VforkExec(t) PROVE Apart(t)
  BY <1>8 DEF VforkExec, StepsTo
<1>9. ASSUME VforkFails(t) PROVE Apart(t)
  BY <1>9 DEF VforkFails, StepsTo, same
<1>10. ASSUME Unmap(t) PROVE Apart(t)
  BY <1>10 DEF Unmap, StepsTo, same
<1>11. ASSUME Restore(t) PROVE Apart(t)
  BY <1>11 DEF Restore, StepsTo, same
<1>12. ASSUME SetFlagBack(t) PROVE Apart(t)
  BY <1>12 DEF SetFlagBack, StepsTo, same
<1> QED BY <1>1, <1>2, <1>3, <1>4, <1>5, <1>6, <1>7, <1>8, <1>9, <1>10, <1>11, <1>12 DEF Spawns

LEMMA OthersPlaced ==
  ASSUME NEW t \in Starters, Apart(t), Places, Placed(t)'
  PROVE  Places'
<1> SUFFICES ASSUME NEW u \in Starters, u # t PROVE Placed(u)'
  BY DEF Places
<1>1. Placed(u)
  BY DEF Places
<1> QED BY <1>1 DEF Apart, Placed, Backed, Going

LEMMA OthersHold ==
  ASSUME NEW t \in Starters, Apart(t)
  PROVE  \A u \in Starters : u # t => \A s \in Slots : Held(u, s)' = Held(u, s)
  BY DEF Apart, Held

LEMMA OthersAsk ==
  ASSUME NEW t \in Starters, Apart(t), Usable, io'[t] = io[t]
  PROVE  Usable'
  BY DEF Apart, Usable

\* A source can be read from.
LEMMA SourceOpen ==
  ASSUME VforkAssumption, Sound, NEW t \in Starters, NEW k \in Std, io[t][k].kind # "none",
         io[t][k].kind = "null" => Held(t, 3) # NoFd
  PROVE  /\ From(t, k) \in Fds /\ tab[From(t, k)].file # "closed"
         /\ io[t][k].kind = "null" => From(t, k) = Held(t, 3) /\ From(t, k) \notin Std
         /\ io[t][k].kind # "null" => Table[From(t, k)] # Closed
         /\ io[t][k].kind = "pipe" => From(t, k) \notin Std
         /\ io[t][k].kind = "fd" => From(t, k) = io[t][k].fd
<1>1. io[t][k] \in Sources
  BY DEF Sound, Layout
<1>2. io[t][k].kind \in {"null", "fd", "pipe"}
  BY <1>1, SourceKinds
<1>3. \A n \in Names(io[t][k]) : n \in Fds /\ Table[n] # Closed /\ (io[t][k].kind = "pipe" => n \notin Std)
  BY DEF Sound, Usable
<1>4. \A n \in Fds : Table[n] # Closed => tab[n].file # "closed"
  BY DEF Sound, Opened
<1>5. CASE io[t][k].kind = "fd"
  <2>1. From(t, k) = io[t][k].fd /\ From(t, k) \in Names(io[t][k])
    BY <1>5 DEF From, Names
  <2> QED BY <1>3, <1>4, <1>5, <2>1
<1>6. CASE io[t][k].kind = "pipe"
  <2>1. From(t, k) \in Names(io[t][k])
    BY <1>6 DEF From, Names
  <2> QED BY <1>3, <1>4, <1>6, <2>1
<1>7. CASE io[t][k].kind = "null"
  <2>1. From(t, k) = Held(t, 3)
    BY <1>7 DEF From, Held
  <2>2. 3 \in Slots
    BY DEF Slots
  <2>3. Held(t, 3) \in Fds /\ Table[Held(t, 3)] = Closed /\ tab[Held(t, 3)].file = "null"
    BY <1>7, <2>2 DEF Sound, Opened
  <2> QED BY <1>7, <2>1, <2>3 DEF VforkAssumption
<1> QED BY <1>2, <1>5, <1>6, <1>7

-----------------------------------------------------------------------------
(***************************************************************************)
(* The steps, one by one: types, places, and who holds what.               *)
(***************************************************************************)
LEMMA BeginSound ==
  ASSUME VforkAssumption, Sound, NEW t \in Starters, Begin(t)
  PROVE  Sound'
<1> PICK job \in Jobs :
      /\ io' = [io EXCEPT ![t] = job]
      /\ StepsTo(t, IF job = NoJob THEN "vfork" ELSE "dup")
      /\ at' = [at EXCEPT ![t] = IF job = NoJob THEN 0 ELSE Min({k \in Std : job[k].kind # "none"})]
  BY DEF Begin
<1> DEFINE targets == {k \in Std : job[k].kind # "none"}
<1>1. Apart(t)
  BY StepsApart DEF Sound, Spawns
<1>2. job \in [Std -> Sources]
  BY DEF VforkAssumption
<1>3. job # NoJob => Min(targets) \in targets /\ \A k \in targets : Min(targets) <= k
  <2>1. ASSUME job # NoJob PROVE targets # {}
    <3>1. PICK k \in Std : job[k] # NoJob[k]
      BY <1>2, <2>1 DEF NoJob
    <3>2. job[k] \in Sources /\ job[k] # [kind |-> "none"]
      BY <1>2, <3>1 DEF NoJob
    <3>3. job[k].kind # "none"
      BY <3>2 DEF Sources
    <3> QED BY <3>3
  <2> HIDE DEF targets
  <2>2. targets \in SUBSET Std
    BY DEF targets
  <2> QED BY <2>1, <2>2, FirstTarget
<1>4. at'[t] \in Std /\ (job # NoJob => at'[t] = Min(targets))
  <2>1. 0 \in Std
    BY DEF Std
  <2> QED BY <1>3, <2>1 DEF Sound, Layout
<1>5. Layout'
  <2>1. at' \in [Starters -> Std] /\ io' \in [Starters -> [Std -> Sources]]
    BY <1>2, <1>4 DEF Sound, Layout
  <2>2. step' \in [Starters -> {"rest", "dup", "protect", "map", "dup2", "vfork", "unmap", "restore", "setfd"}]
    BY DEF Sound, Layout, StepsTo
  <2>3. /\ backup' \in [Starters -> [Std -> {NoFd} \cup Fds]]
        /\ null' \in [Starters -> {NoFd} \cup Fds]
    BY DEF Begin, Sound, Layout, NoBackup
  <2>4. child' \in [Starters -> Tables] /\ before' \in [Starters -> Tables] /\ tab' \in Tables
    BY NowhereIsTable DEF Begin, Sound, Layout
  <2>5. spawns' \in 0..MaxSpawns
    BY DEF Begin, Sound, Layout, VforkAssumption
  <2> QED BY <2>1, <2>2, <2>3, <2>4, <2>5 DEF Begin, Sound, Layout
<1>6. /\ step'[t] = IF job = NoJob THEN "vfork" ELSE "dup"
      /\ io'[t] = job /\ backup'[t] = NoBackup /\ null'[t] = NoFd
  BY DEF Begin, Sound, Layout, StepsTo
<1>7. \A k \in Std : ~Backed(t, k)'
  BY <1>6 DEF Backed, NoBackup
<1>8. Placed(t)'
  <2>1. CASE job = NoJob
    <3>1. step'[t] = "vfork" /\ \A k \in Std : io'[t][k].kind = "none"
      BY <1>6, <2>1 DEF NoJob
    <3> QED BY <1>7, <3>1 DEF Placed, Going
  <2>2. CASE job # NoJob
    <3>1. step'[t] = "dup" /\ io'[t][at'[t]].kind # "none"
      BY <1>3, <1>4, <1>6, <2>2
    <3>2. ASSUME NEW k \in Std, k < at'[t], io'[t][k].kind # "none" PROVE FALSE
      <4>1. k \in targets
        BY <1>6, <3>2
      <4> HIDE DEF targets
      <4>2. at'[t] <= k
        BY <1>3, <1>4, <2>2, <4>1
      <4> QED BY <3>2, <4>2, <1>4 DEF Std
    <3> QED BY <1>7, <3>1, <3>2 DEF Placed, Going
  <2> QED BY <2>1, <2>2
<1>9. Usable'
  <2>1. \A k \in Std : \A n \in Names(job[k]) :
         n \in Fds /\ Table[n] # Closed /\ (job[k].kind = "pipe" => n \notin Std)
    <3> SUFFICES ASSUME NEW k \in Std, NEW n \in Names(job[k]) PROVE n \in Fds
      BY DEF VforkAssumption
    <3>1. job[k] \in Sources
      BY <1>2
    <3> QED BY <3>1, SourceKinds DEF Names
  <2> QED BY <1>1, <1>6, <2>1 DEF Sound, Usable, Apart
<1>10. \A u \in Starters : \A s \in Slots : Held(u, s)' = Held(u, s)
  <2>1. \A s \in Slots : Held(t, s) = NoFd
    BY DEF Begin, Sound, Places, Placed, Held, NoBackup, Slots, Std
  <2>2. \A s \in Slots : (Held(t, s))' = NoFd
    BY <1>6 DEF Held, NoBackup, Slots, Std
  <2> QED BY <1>1, <2>1, <2>2, OthersHold
<1>11. Opened'
  <2>1. tab' = tab
    BY DEF Begin
  <2> HIDE DEF targets
  <2> QED BY <1>10, <2>1, HeldSame DEF Opened, Sound
<1> QED BY <1>1, <1>5, <1>8, <1>9, <1>11, OthersPlaced DEF Sound

LEMMA DupSound ==
  ASSUME VforkAssumption, Sound, NEW t \in Starters, Dup(t)
  PROVE  Sound'
<1> PICK k \in Std : k = at[t]
  BY DEF Sound, Layout
<1> PICK m \in Fds : m = Min(Free) /\ tab[m] = Closed
  BY FreeNumber DEF Dup
<1>1. Apart(t)
  BY StepsApart DEF Sound, Spawns
<1>2. m \in Fds /\ tab[m] = Closed
  OBVIOUS
<1>3. k \in Std /\ k \in Slots /\ k # 3
  BY DEF Std, Slots
<1>4. /\ step[t] = "dup" /\ step'[t] = "protect" /\ at'[t] = k /\ io'[t] = io[t] /\ null'[t] = null[t]
      /\ backup'[t] = [backup[t] EXCEPT ![k] = m]
      /\ tab' = [tab EXCEPT ![m] = [file |-> tab[k].file, cloexec |-> FALSE]]
  BY DEF Dup, Sound, Layout, StepsTo
<1>5. tab[k].file # "closed" /\ tab[k].file \in Files
  <2>1. k \in Fds /\ Table[k] # Closed
    BY <1>3 DEF VforkAssumption
  <2> QED BY <2>1 DEF Sound, Opened, Layout, Tables
<1>6. Layout'
  <2>1. tab' \in Tables
    BY <1>2, <1>4, <1>5 DEF Sound, Layout, Tables
  <2>2. backup' \in [Starters -> [Std -> {NoFd} \cup Fds]]
    BY <1>2, <1>3 DEF Dup, Sound, Layout
  <2>3. step' \in [Starters -> {"rest", "dup", "protect", "map", "dup2", "vfork", "unmap", "restore", "setfd"}]
    BY DEF Dup, Sound, Layout, StepsTo
  <2> QED BY <2>1, <2>2, <2>3 DEF Dup, Sound, Layout, same
<1>7. backup[t] \in [Std -> {NoFd} \cup Fds]
  BY DEF Sound, Layout
<1>8. backup'[t][k] = m /\ \A j \in Std \ {k} : backup'[t][j] = backup[t][j]
  BY <1>3, <1>4, <1>7
<1>9. m # NoFd /\ NoFd \notin Fds
  BY <1>2, Standard
<1>10. Placed(t)'
  <2>1. io[t][k].kind # "none" /\ \A j \in Std : Backed(t, j) <=> j < k /\ io[t][j].kind # "none"
    BY <1>4 DEF Sound, Places, Placed, Going
  <2>2. \A j \in Std : Backed(t, j)' <=> Backed(t, j) \/ j = k
    BY <1>8, <1>9 DEF Backed
  <2>3. \A j \in Std : Backed(t, j)' <=> j <= k /\ io[t][j].kind # "none"
    BY <1>3, <2>1, <2>2 DEF Std
  <2> QED BY <1>4, <2>1, <2>3 DEF Placed, Going
<1>11. Opened'
  <2>1. Held(t, k) = NoFd
    BY <1>3, <1>4 DEF Sound, Places, Placed, Backed, Held, Std
  <2>2. (Held(t, k))' = m
    BY <1>3, <1>4, <1>8 DEF Held
  <2>3. \A u \in Starters : \A r \in Slots : u # t \/ r # k => (Held(u, r))' = Held(u, r)
    <3>1. \A r \in Slots : r # k => (Held(t, r))' = Held(t, r)
      BY <1>4, <1>8 DEF Held, Slots, Std
    <3> QED BY <3>1, <1>1, OthersHold
  <2>4. \A n \in Fds \ {m} : tab'[n] = tab[n]
    BY <1>4 DEF Sound, Layout, Tables
  <2>5. tab'[m].file # "closed"
    BY <1>2, <1>4, <1>5 DEF Sound, Layout, Tables
  <2>6. tab[m].file = "closed"
    BY <1>2 DEF Closed
  <2>7. Opened /\ \A n \in Fds : Table[n].file = "closed" => Table[n] = Closed
    BY DEF VforkAssumption, Sound
  <2>8. k = 3 => tab'[m].file = "null"
    BY <1>3
  <2> QED BY <1>2, <1>3, <1>9, <2>1, <2>2, <2>3, <2>4, <2>5, <2>6, <2>7, <2>8, HeldTakes
<1> QED BY <1>1, <1>4, <1>6, <1>10, <1>11, OthersPlaced, OthersAsk DEF Sound

LEMMA FlagSet ==
  ASSUME tab \in Tables, NEW b \in Fds, NEW c \in BOOLEAN, tab' = [tab EXCEPT ![b].cloexec = c]
  PROVE  /\ tab' \in Tables
         /\ \A n \in Fds \ {b} : tab'[n] = tab[n]
         /\ tab'[b].file = tab[b].file /\ tab'[b].cloexec = c
<1>1. tab[b] \in [file : Files, cloexec : BOOLEAN]
  BY DEF Tables
<1>2. tab'[b] = [tab[b] EXCEPT !.cloexec = c] /\ \A n \in Fds \ {b} : tab'[n] = tab[n]
  BY DEF Tables
<1>3. [tab[b] EXCEPT !.cloexec = c] \in [file : Files, cloexec : BOOLEAN]
  BY <1>1
<1> QED BY <1>1, <1>2, <1>3 DEF Tables

LEMMA FlagHolds ==
  ASSUME Opened, tab \in Tables, NEW b \in Fds, NEW c \in BOOLEAN, tab' = [tab EXCEPT ![b].cloexec = c],
         tab[b].file # "closed",
         \A u \in Starters : \A s \in Slots : (Held(u, s))' = Held(u, s)
  PROVE  Opened'
<1>1. /\ \A n \in Fds \ {b} : tab'[n] = tab[n]
      /\ tab'[b].file = tab[b].file /\ tab'[b].cloexec = c
  BY FlagSet
<1>2. \A n \in Fds : tab'[n].file = tab[n].file
  BY <1>1
<1>3. \A n \in Fds : tab'[n].file = "closed" => ~tab'[n].cloexec
  BY <1>1 DEF Opened
<1>4. \A u \in Starters : Held(u, 3) # NoFd => tab'[Held(u, 3)].file = tab[Held(u, 3)].file
  <2>1. 3 \in Slots
    BY DEF Slots
  <2> QED BY <1>2, <2>1 DEF Opened
<1> QED BY <1>2, <1>3, <1>4, HeldSame

LEMMA Dup2Is ==
  ASSUME tab \in Tables, NEW a \in Fds, NEW b \in Fds
  PROVE  /\ Dup2(tab, a, b) \in Tables
         /\ \A n \in Fds \ {b} : Dup2(tab, a, b)[n] = tab[n]
         /\ Dup2(tab, a, b)[b].file = tab[a].file
         /\ a # b => ~Dup2(tab, a, b)[b].cloexec
<1>1. tab[a].file \in Files
  BY DEF Tables
<1>2. a # b => [file |-> tab[a].file, cloexec |-> FALSE] \in [file : Files, cloexec : BOOLEAN]
  BY <1>1
<1> QED BY <1>2 DEF Dup2, Tables

LEMMA ProtectSound ==
  ASSUME VforkAssumption, Sound, NEW t \in Starters, Protect(t)
  PROVE  Sound'
<1> PICK k \in Std : k = at[t]
  BY DEF Sound, Layout
<1>1. Apart(t)
  BY StepsApart DEF Sound, Spawns
<1>2. /\ step[t] = "protect" /\ step'[t] = "map" /\ at'[t] = k /\ io'[t] = io[t] /\ null'[t] = null[t]
      /\ backup'[t] = backup[t]
  BY DEF Protect, Sound, Layout, StepsTo
<1>3. k \in Slots /\ k # 3 /\ Held(t, k) = backup[t][k] /\ Backed(t, k)
  BY <1>2 DEF Std, Slots, Held, Sound, Places, Placed, Going
<1> PICK b \in Fds : b = backup[t][k] /\ tab[b].file # "closed"
  BY <1>3 DEF Sound, Opened, Backed
<1>4. tab' = [tab EXCEPT ![b].cloexec = TRUE]
  BY DEF Protect, Protected
<1>5. \A u \in Starters : \A s \in Slots : (Held(u, s))' = Held(u, s)
  <2>1. \A s \in Slots : (Held(t, s))' = Held(t, s)
    BY <1>2 DEF Held
  <2> QED BY <1>1, <2>1, OthersHold
<1>6. Opened'
  BY <1>4, <1>5, FlagHolds DEF Sound, Layout
<1>7. Layout'
  <2>1. tab' \in Tables
    BY <1>4, FlagSet DEF Sound, Layout
  <2> QED BY <2>1 DEF Protect, StepsTo, same, Sound, Layout
<1>8. Placed(t)'
  BY <1>2 DEF Sound, Places, Placed, Backed, Going
<1> QED BY <1>1, <1>2, <1>6, <1>7, <1>8, OthersPlaced, OthersAsk DEF Sound

LEMMA OpenNullSound ==
  ASSUME VforkAssumption, Sound, NEW t \in Starters, OpenNull(t)
  PROVE  Sound'
<1> PICK m \in Fds : m = Min(Free) /\ tab[m] = Closed
  BY FreeNumber DEF OpenNull
<1>1. Apart(t)
  BY StepsApart DEF Sound, Spawns
<1>2. /\ step[t] = "map" /\ step'[t] = "map" /\ at'[t] = at[t] /\ io'[t] = io[t] /\ null'[t] = m
      /\ backup'[t] = backup[t] /\ null[t] = NoFd
      /\ tab' = [tab EXCEPT ![m] = [file |-> "null", cloexec |-> TRUE]]
  BY DEF OpenNull, Sound, Layout
<1>3. m # NoFd /\ NoFd \notin Fds /\ 3 \in Slots
  BY Standard DEF Slots
<1>4. Layout'
  <2>1. [file |-> "null", cloexec |-> TRUE] \in [file : Files, cloexec : BOOLEAN]
    <3>1. "null" \in Files /\ TRUE \in BOOLEAN
      BY DEF Files
    <3> QED BY <3>1
  <2>2. tab' \in Tables
    BY <1>2, <2>1 DEF Sound, Layout, Tables
  <2> QED BY <2>2 DEF OpenNull, same, Sound, Layout
<1>5. Placed(t)'
  BY <1>2 DEF Sound, Places, Placed, Backed, Going
<1>6. Opened'
  <2>1. Held(t, 3) = NoFd /\ (Held(t, 3))' = m
    BY <1>2 DEF Held
  <2>2. \A u \in Starters : \A r \in Slots : u # t \/ r # 3 => (Held(u, r))' = Held(u, r)
    <3>1. \A r \in Slots : r # 3 => (Held(t, r))' = Held(t, r)
      BY <1>2 DEF Held
    <3> QED BY <3>1, <1>1, OthersHold
  <2>3. \A n \in Fds \ {m} : tab'[n] = tab[n]
    BY <1>2 DEF Sound, Layout, Tables
  <2>4. tab'[m].file # "closed" /\ tab'[m].file = "null"
    BY <1>2 DEF Sound, Layout, Tables
  <2>5. tab[m].file = "closed"
    BY DEF Closed
  <2>6. Opened /\ \A n \in Fds : Table[n].file = "closed" => Table[n] = Closed
    BY DEF VforkAssumption, Sound
  <2> QED BY <1>3, <2>1, <2>2, <2>3, <2>4, <2>5, <2>6, HeldTakes
<1> QED BY <1>1, <1>2, <1>4, <1>5, <1>6, OthersPlaced, OthersAsk DEF Sound

LEMMA SetFlagSound ==
  ASSUME VforkAssumption, Sound, NEW t \in Starters, SetFlag(t)
  PROVE  Sound'
<1> PICK k \in Std : k = at[t]
  BY DEF Sound, Layout
<1>1. Apart(t)
  BY StepsApart DEF Sound, Spawns
<1>2. /\ step[t] = "map" /\ step'[t] = "dup2" /\ at'[t] = k /\ io'[t] = io[t] /\ null'[t] = null[t]
      /\ backup'[t] = backup[t] /\ io[t][k].kind = "fd"
  BY DEF SetFlag, Sound, Layout, StepsTo
<1> PICK f \in Fds : f = From(t, k) /\ tab[f].file # "closed"
  BY <1>2, SourceOpen
<1>4. tab' = [tab EXCEPT ![f].cloexec = TRUE] /\ flag' = [flag EXCEPT ![t][k] = tab[f].cloexec]
  BY DEF SetFlag
<1>5. \A u \in Starters : \A s \in Slots : (Held(u, s))' = Held(u, s)
  <2>1. \A s \in Slots : (Held(t, s))' = Held(t, s)
    BY <1>2 DEF Held
  <2> QED BY <1>1, <2>1, OthersHold
<1>6. Opened'
  BY <1>4, <1>5, FlagHolds DEF Sound, Layout
<1>7. Layout'
  <2>1. tab' \in Tables
    BY <1>4, FlagSet DEF Sound, Layout
  <2>2. tab[f].cloexec \in BOOLEAN
    BY DEF Sound, Layout, Tables
  <2>3. flag' \in [Starters -> [Std -> BOOLEAN]]
    BY <1>4, <2>2 DEF Sound, Layout
  <2> QED BY <2>1, <2>3 DEF SetFlag, StepsTo, same, Sound, Layout
<1>8. Placed(t)'
  BY <1>2 DEF Sound, Places, Placed, Backed, Going
<1> QED BY <1>1, <1>2, <1>6, <1>7, <1>8, OthersPlaced, OthersAsk DEF Sound

\* The descriptor that Map copies from.
LEMMA MapSource ==
  ASSUME VforkAssumption, Sound, NEW t \in Starters, Map(t)
  PROVE  /\ step[t] \in {"dup2", "map"} /\ io[t][at[t]].kind # "none"
         /\ io[t][at[t]].kind = "null" => Held(t, 3) # NoFd
         /\ io[t][at[t]].kind = "fd" => step[t] = "dup2"
         /\ step[t] = "dup2" => io[t][at[t]].kind = "fd"
<1>1. step[t] \in {"dup2", "map"} /\ io[t][at[t]].kind # "none" /\ (step[t] = "dup2" => io[t][at[t]].kind = "fd")
  BY DEF Map, Sound, Places, Placed, Going
<1>2. io[t][at[t]].kind = "fd" => step[t] = "dup2"
  BY DEF Map
<1>3. io[t][at[t]].kind = "null" => From(t, at[t]) # NoFd
  BY <1>1 DEF Map
<1>4. io[t][at[t]].kind = "null" => Held(t, 3) # NoFd
  BY <1>1, <1>3 DEF From, Held
<1> QED BY <1>1, <1>2, <1>4

LEMMA MapSound ==
  ASSUME VforkAssumption, Sound, NEW t \in Starters, Map(t)
  PROVE  Sound'
<1> PICK k \in Std : k = at[t]
  BY DEF Sound, Layout
<1>1. Apart(t)
  BY StepsApart DEF Sound, Spawns
<1>2. /\ step[t] \in {"dup2", "map"} /\ io[t][k].kind # "none"
      /\ io'[t] = io[t] /\ null'[t] = null[t] /\ backup'[t] = backup[t]
  BY MapSource DEF Map, Sound, Layout, same
<1>3. /\ From(t, k) \in Fds /\ tab[From(t, k)].file # "closed"
  BY <1>2, MapSource, SourceOpen
<1> PICK f \in Fds : f = From(t, k) /\ tab[f].file # "closed"
  BY <1>3
<1>4. tab' = Dup2(tab, f, k)
  BY DEF Map, MapFrom
<1>5. k \in Fds /\ Table[k] # Closed /\ tab[k].file # "closed"
  BY DEF VforkAssumption, Sound, Opened
<1>6. /\ tab' \in Tables
      /\ \A n \in Fds \ {k} : tab'[n] = tab[n]
      /\ tab'[k].file = tab[f].file
  <2>1. tab \in Tables
    BY DEF Sound, Layout
  <2> QED BY <1>4, <1>5, <2>1, Dup2Is
<1>7. \/ Targets(t, k + 1) = {} /\ step'[t] = "vfork" /\ at'[t] = k
      \/ Targets(t, k + 1) # {} /\ step'[t] = "dup" /\ at'[t] = Min(Targets(t, k + 1))
  BY DEF Map, StepsTo, Sound, Layout
<1>8. Targets(t, k + 1) # {} => /\ Min(Targets(t, k + 1)) \in Targets(t, k + 1)
                                /\ \A j \in Targets(t, k + 1) : Min(Targets(t, k + 1)) <= j
  <2>1. Targets(t, k + 1) \in SUBSET Std
    BY DEF Targets
  <2> QED BY <2>1, FirstTarget
<1>9. \A j \in Std : Backed(t, j) <=> j <= k /\ io[t][j].kind # "none"
  BY <1>2 DEF Sound, Places, Placed
<1>10. \A j \in Std : j \in Targets(t, k + 1) <=> j > k /\ io[t][j].kind # "none"
  BY DEF Targets, Std
<1>11. \A j \in Std : (Backed(t, j))' = Backed(t, j)
  BY <1>2 DEF Backed
<1>12. Placed(t)'
  <2>1. CASE Targets(t, k + 1) = {}
    <3>1. \A j \in Std : (Backed(t, j))' <=> io[t][j].kind # "none"
      BY <1>9, <1>10, <1>11, <2>1 DEF Std
    <3> QED BY <1>2, <1>7, <2>1, <3>1 DEF Placed, Going
  <2>2. CASE Targets(t, k + 1) # {}
    <3> PICK i \in Std : i = at'[t] /\ i > k /\ io[t][i].kind # "none"
      BY <1>7, <1>8, <1>10, <2>2 DEF Targets
    <3>1. \A j \in Std : j > k /\ io[t][j].kind # "none" => i <= j
      BY <1>7, <1>8, <1>10, <2>2
    <3>2. \A j \in Std : (Backed(t, j))' <=> j < i /\ io[t][j].kind # "none"
      BY <1>9, <1>11, <3>1 DEF Std
    <3> QED BY <1>2, <1>7, <2>2, <3>2 DEF Placed, Going
  <2> QED BY <2>1, <2>2
<1>13. Layout'
  <2>1. at' \in [Starters -> Std]
    <3>1. Targets(t, k + 1) # {} => Min(Targets(t, k + 1)) \in Std
      BY <1>8 DEF Targets
    <3>2. \/ at' = at
          \/ Targets(t, k + 1) # {} /\ at' = [at EXCEPT ![t] = Min(Targets(t, k + 1))]
      BY DEF Map
    <3>3. at \in [Starters -> Std]
      BY DEF Sound, Layout
    <3> QED BY <3>1, <3>2, <3>3
  <2>2. step' \in [Starters -> {"rest", "dup", "protect", "map", "dup2", "vfork", "unmap", "restore", "setfd"}]
    BY DEF Map, Sound, Layout, StepsTo
  <2> QED BY <1>6, <2>1, <2>2 DEF Map, same, Sound, Layout
<1>14. Opened'
  <2>1. \A u \in Starters : \A s \in Slots : (Held(u, s))' = Held(u, s)
    <3>1. \A s \in Slots : (Held(t, s))' = Held(t, s)
      BY <1>2, <1>7 DEF Held
    <3> QED BY <1>1, <3>1, OthersHold
  <2>2. \A n \in Fds : tab'[n].file = "closed" <=> tab[n].file = "closed"
    BY <1>5, <1>6
  <2>3. \A n \in Fds : tab'[n].file = "closed" => ~tab'[n].cloexec
    <3>1. \A n \in Fds : tab[n].file = "closed" => ~tab[n].cloexec
      BY DEF Sound, Opened
    <3> QED BY <1>5, <1>6, <2>2, <3>1
  <2>4. \A u \in Starters : Held(u, 3) # NoFd => tab'[Held(u, 3)].file = tab[Held(u, 3)].file
    <3>1. 3 \in Slots
      BY DEF Slots
    <3>2. \A u \in Starters : Held(u, 3) # NoFd => Held(u, 3) \in Fds /\ Held(u, 3) # k
      BY <1>5, <3>1 DEF Sound, Opened
    <3> QED BY <1>6, <3>2
  <2> QED BY <2>1, <2>2, <2>3, <2>4, HeldSame DEF Sound
<1> QED BY <1>1, <1>2, <1>12, <1>13, <1>14, OthersPlaced, OthersAsk DEF Sound

\* The table is left alone by the start itself, and by a failure of it.
LEMMA StartsSound ==
  ASSUME VforkAssumption, Sound, NEW t \in Starters, VforkExec(t) \/ VforkFails(t)
  PROVE  Sound'
<1>1. Apart(t)
  BY StepsApart DEF Sound, Spawns
<1>2. /\ step[t] = "vfork" /\ step'[t] = "unmap" /\ at'[t] = at[t] /\ io'[t] = io[t] /\ null'[t] = null[t]
      /\ backup'[t] = backup[t] /\ tab' = tab
  BY DEF VforkExec, VforkFails, Sound, Layout, StepsTo, same
<1>3. Layout'
  <2>1. step' \in [Starters -> {"rest", "dup", "protect", "map", "dup2", "vfork", "unmap", "restore", "setfd"}]
    BY DEF VforkExec, VforkFails, Sound, Layout, StepsTo
  <2>2. child' \in [Starters -> Tables]
    <3>1. ASSUME NEW n \in Fds
          PROVE  (IF tab[n].cloexec THEN Closed ELSE tab[n]) \in [file : Files, cloexec : BOOLEAN]
      BY NowhereIsTable DEF Sound, Layout, Tables
    <3>2. [n \in Fds |-> IF tab[n].cloexec THEN Closed ELSE tab[n]] \in Tables
      BY <3>1 DEF Tables
    <3>3. child' = child \/ child' = [child EXCEPT ![t] = [n \in Fds |-> IF tab[n].cloexec THEN Closed ELSE tab[n]]]
      BY DEF VforkExec, VforkFails, same
    <3>4. child \in [Starters -> Tables]
      BY DEF Sound, Layout
    <3> QED BY <3>2, <3>3, <3>4
  <2> QED BY <2>1, <2>2 DEF VforkExec, VforkFails, same, Sound, Layout
<1>4. Placed(t)'
  BY <1>2 DEF Sound, Places, Placed, Backed, Going
<1>5. Opened'
  <2>1. \A u \in Starters : \A s \in Slots : (Held(u, s))' = Held(u, s)
    <3>1. \A s \in Slots : (Held(t, s))' = Held(t, s)
      BY <1>2 DEF Held
    <3> QED BY <1>1, <3>1, OthersHold
  <2> QED BY <1>2, <2>1, HeldSame DEF Opened, Sound
<1> QED BY <1>1, <1>2, <1>3, <1>4, <1>5, OthersPlaced, OthersAsk DEF Sound

LEMMA UnmapSound ==
  ASSUME VforkAssumption, Sound, NEW t \in Starters, Unmap(t)
  PROVE  Sound'
<1>1. Apart(t)
  BY StepsApart DEF Sound, Spawns
<1>2. /\ step[t] = "unmap" /\ io'[t] = io[t] /\ null'[t] = null[t] /\ backup'[t] = backup[t]
      /\ \/ Mapped(t) = {} /\ step'[t] = "rest" /\ at'[t] = at[t]
         \/ Mapped(t) # {} /\ step'[t] = "restore" /\ at'[t] = Max(Mapped(t))
  BY DEF Unmap, LastFirst, StepsTo, same, Sound, Layout
<1>3. Mapped(t) # {} => Max(Mapped(t)) \in Mapped(t) /\ \A k \in Mapped(t) : k <= Max(Mapped(t))
  <2>1. Mapped(t) \in SUBSET Std
    BY DEF Mapped
  <2> QED BY <2>1, LastTarget
<1>4. \A k \in Std : k \in Mapped(t) <=> io[t][k].kind # "none"
  BY <1>2 DEF Sound, Places, Placed, Mapped, Backed
<1>5. \A k \in Std : (Backed(t, k))' <=> k \in Mapped(t)
  BY <1>2 DEF Backed, Mapped
<1>6. Placed(t)'
  <2>1. CASE Mapped(t) = {}
    <3>1. backup[t] \in [Std -> {NoFd} \cup Fds] /\ \A k \in Std : backup[t][k] = NoFd
      BY <2>1 DEF Mapped, Sound, Layout
    <3>2. backup[t] = NoBackup
      BY <3>1 DEF NoBackup
    <3> QED BY <1>2, <2>1, <3>2 DEF Placed, Going
  <2>2. CASE Mapped(t) # {}
    <3> PICK i \in Std : i = at'[t] /\ i \in Mapped(t) /\ \A k \in Mapped(t) : k <= i
      BY <1>2, <1>3, <2>2 DEF Mapped
    <3>1. \A k \in Std : (Backed(t, k))' <=> k <= i /\ io[t][k].kind # "none"
      BY <1>4, <1>5
    <3>2. (Backed(t, i))'
      BY <1>5
    <3>3. (Backed(t, at[t]))'
      BY <3>2
    <3> QED BY <1>2, <2>2, <3>1, <3>3 DEF Placed, Going
  <2> QED BY <2>1, <2>2
<1>7. Held(t, 3) = null[t] /\ (Held(t, 3))' = NoFd
  BY <1>2 DEF Held
<1>8. \A u \in Starters : \A r \in Slots : u # t \/ r # 3 => (Held(u, r))' = Held(u, r)
  <2>1. \A r \in Slots : r # 3 => (Held(t, r))' = Held(t, r)
    BY <1>2 DEF Held
  <2> QED BY <2>1, <1>1, OthersHold
<1>9. 3 \in Slots /\ NoFd \notin Fds
  BY Standard DEF Slots
<1>10. tab' \in Tables
  <2>1. null[t] \in {NoFd} \cup Fds
    BY DEF Sound, Layout
  <2> QED BY <2>1, NowhereIsTable DEF Unmap, CloseNull, Sound, Layout, Tables
<1>11. Opened'
  <2>1. CASE null[t] = NoFd
    <3>1. tab' = tab
      BY <2>1 DEF Unmap, CloseNull
    <3>2. \A u \in Starters : \A r \in Slots : (Held(u, r))' = Held(u, r)
      BY <1>7, <1>8, <2>1
    <3> QED BY <3>1, <3>2, HeldSame DEF Opened, Sound
  <2>2. CASE null[t] # NoFd
    <3> PICK m \in Fds : m = null[t]
      BY <2>2 DEF Sound, Layout
    <3>1. tab' = [tab EXCEPT ![m] = Closed]
      BY <2>2 DEF Unmap, CloseNull
    <3>2. tab'[m] = Closed /\ \A n \in Fds \ {m} : tab'[n] = tab[n]
      BY <3>1 DEF Sound, Layout, Tables
    <3>3. \A n \in Fds : tab[n].file = "closed" => ~tab[n].cloexec
      BY DEF Sound, Opened
    <3>4. \A u \in Starters : Held(u, 3) # NoFd /\ Held(u, 3) # m => tab'[Held(u, 3)].file = tab[Held(u, 3)].file
      BY <1>9, <3>2 DEF Sound, Opened
    <3>5. Opened
      BY DEF Sound
    <3> QED BY <1>7, <1>8, <1>9, <3>2, <3>3, <3>4, <3>5, HeldDrops
  <2> QED BY <2>1, <2>2
<1>12. Layout'
  <2>1. at' \in [Starters -> Std]
    BY <1>2, <1>3 DEF Unmap, Mapped, LastFirst, Sound, Layout
  <2>2. step' \in [Starters -> {"rest", "dup", "protect", "map", "dup2", "vfork", "unmap", "restore", "setfd"}]
    BY DEF Unmap, Sound, Layout, StepsTo
  <2> QED BY <1>10, <2>1, <2>2 DEF Unmap, same, Sound, Layout
<1> QED BY <1>1, <1>2, <1>6, <1>11, <1>12, OthersPlaced, OthersAsk DEF Sound

\* What Restore does to the table.
LEMMA RestoreTable ==
  ASSUME VforkAssumption, Sound, NEW t \in Starters, Restore(t), NEW k \in Std, k = at[t],
         NEW m \in Fds, m = backup[t][k]
  PROVE  /\ tab' \in Tables /\ m \notin Std /\ Held(t, k) = m
         /\ tab'[m] = Closed /\ tab'[k].file = tab[m].file /\ ~tab'[k].cloexec /\ tab[m].file # "closed"
         /\ \A n \in Fds \ {k, m} : tab'[n] = tab[n]
<1>1. k \in Slots /\ k # 3 /\ NoFd \notin Fds
  BY Standard DEF Std, Slots
<1>2. Held(t, k) = m
  BY <1>1 DEF Restore, Held
<1>3. Table[m] = Closed /\ tab[m].file # "closed"
  BY <1>1, <1>2 DEF Sound, Opened
<1>4. m \notin Std /\ k \in Fds
  BY <1>3 DEF VforkAssumption
<1>5. tab' = [Dup2(tab, m, k) EXCEPT ![m] = Closed]
  BY DEF Restore
<1>6. /\ Dup2(tab, m, k) \in Tables
      /\ \A n \in Fds \ {k} : Dup2(tab, m, k)[n] = tab[n]
      /\ Dup2(tab, m, k)[k].file = tab[m].file /\ ~Dup2(tab, m, k)[k].cloexec
  <2>1. tab \in Tables /\ m # k
    BY <1>4 DEF Sound, Layout
  <2> QED BY <1>4, <2>1, Dup2Is
<1>7. tab' \in Tables /\ tab'[m] = Closed /\ \A n \in Fds \ {m} : tab'[n] = Dup2(tab, m, k)[n]
  BY <1>5, <1>6, NowhereIsTable DEF Tables
<1> QED BY <1>2, <1>3, <1>4, <1>6, <1>7

LEMMA RestoreSound ==
  ASSUME VforkAssumption, Sound, NEW t \in Starters, Restore(t)
  PROVE  Sound'
<1> PICK k \in Std : k = at[t]
  BY DEF Sound, Layout
<1>1. Apart(t)
  BY StepsApart DEF Sound, Spawns
<1>2. /\ step[t] = "restore" /\ step'[t] = "setfd" /\ at'[t] = k /\ io'[t] = io[t] /\ null'[t] = null[t]
      /\ backup'[t] = backup[t]
  BY DEF Restore, Sound, Layout, StepsTo, same
<1>3. Backed(t, k)
  BY <1>2 DEF Sound, Places, Placed
<1> PICK m \in Fds : m = backup[t][k]
  BY <1>3 DEF Backed, Sound, Layout
<1>4. /\ tab' \in Tables /\ m \notin Std /\ Held(t, k) = m
      /\ tab'[m] = Closed /\ tab'[k].file = tab[m].file /\ ~tab'[k].cloexec /\ tab[m].file # "closed"
      /\ \A n \in Fds \ {k, m} : tab'[n] = tab[n]
  BY RestoreTable
<1>5. k \in Fds /\ Table[k] # Closed /\ tab[k].file # "closed"
  BY DEF VforkAssumption, Sound, Opened
<1>6. k \in Slots /\ k # 3 /\ NoFd \notin Fds /\ 3 \in Slots
  BY Standard DEF Std, Slots
<1>7. Opened'
  <2>1. (Held(t, k))' = NoFd
    BY <1>2, <1>6 DEF Held
  <2>2. \A u \in Starters : \A r \in Slots : u # t \/ r # k => (Held(u, r))' = Held(u, r)
    <3>1. \A r \in Slots : r # k => (Held(t, r))' = Held(t, r)
      BY <1>2 DEF Held
    <3> QED BY <3>1, <1>1, OthersHold
  <2>3. \A n \in Fds \ {m} : tab'[n].file = "closed" <=> tab[n].file = "closed"
    BY <1>4, <1>5
  <2>4. \A n \in Fds \ {m} : tab'[n].file = "closed" => ~tab'[n].cloexec
    <3>1. \A n \in Fds : tab[n].file = "closed" => ~tab[n].cloexec
      BY DEF Sound, Opened
    <3> QED BY <3>1, <1>4, <1>5
  <2>5. \A u \in Starters : Held(u, 3) # NoFd /\ Held(u, 3) # m => tab'[Held(u, 3)].file = tab[Held(u, 3)].file
    <3>1. \A u \in Starters : Held(u, 3) # NoFd => Held(u, 3) \in Fds /\ Held(u, 3) # k
      BY <1>5, <1>6 DEF Sound, Opened
    <3> QED BY <1>4, <3>1
  <2>6. Opened /\ tab'[m] = Closed /\ Held(t, k) = m
    BY <1>4 DEF Sound
  <2> QED BY <1>6, <2>1, <2>2, <2>3, <2>4, <2>5, <2>6, HeldDrops
<1>8. Layout'
  BY <1>4 DEF Restore, StepsTo, same, Sound, Layout
<1>9. Placed(t)'
  BY <1>2 DEF Sound, Places, Placed, Backed, Going
<1> QED BY <1>1, <1>2, <1>7, <1>8, <1>9, OthersPlaced, OthersAsk DEF Sound

LEMMA SetFlagBackSound ==
  ASSUME VforkAssumption, Sound, NEW t \in Starters, SetFlagBack(t)
  PROVE  Sound'
<1> PICK k \in Std : k = at[t]
  BY DEF Sound, Layout
<1> DEFINE rest == Mapped(t) \ {k}
<1>1. Apart(t)
  BY StepsApart DEF Sound, Spawns
<1>2. /\ step[t] = "setfd" /\ io'[t] = io[t] /\ null'[t] = null[t]
      /\ backup'[t] = [backup[t] EXCEPT ![k] = NoFd]
      /\ \/ Mapped(t) = {k} /\ step'[t] = "rest" /\ at'[t] = at[t]
         \/ Mapped(t) # {k} /\ step'[t] = "restore" /\ at'[t] = Max(rest)
  BY DEF SetFlagBack, LastFirst, StepsTo, same, Sound, Layout
<1>3. backup'[t][k] = NoFd /\ \A j \in Std \ {k} : backup'[t][j] = backup[t][j]
  BY <1>2 DEF Sound, Layout
<1>4. k \in Mapped(t) /\ \A j \in Std : j \in Mapped(t) <=> j <= k /\ io[t][j].kind # "none"
  BY <1>2 DEF Sound, Places, Placed, Mapped, Backed
<1>5. \A j \in Std : (Backed(t, j))' <=> j \in rest
  BY <1>3 DEF Backed, Mapped
<1>6. Mapped(t) # {k} => Max(rest) \in rest /\ \A j \in rest : j <= Max(rest)
  <2>1. rest \in SUBSET Std /\ (Mapped(t) # {k} => rest # {})
    BY <1>4 DEF Mapped
  <2> HIDE DEF rest
  <2> QED BY <2>1, LastTarget
<1>7. Placed(t)'
  <2>1. CASE Mapped(t) = {k}
    <3>1. backup'[t] \in [Std -> {NoFd} \cup Fds] /\ \A j \in Std : backup'[t][j] = NoFd
      BY <1>2, <1>3, <2>1 DEF Mapped, Sound, Layout
    <3>2. backup'[t] = NoBackup
      BY <3>1 DEF NoBackup
    <3> QED BY <1>2, <2>1, <3>2 DEF Placed, Going
  <2>2. CASE Mapped(t) # {k}
    <3> PICK i \in Std : i = at'[t] /\ i \in rest /\ \A j \in rest : j <= i
      BY <1>2, <1>6, <2>2 DEF Mapped
    <3>1. i < k
      BY <1>4 DEF Std
    <3>2. \A j \in Std : (Backed(t, j))' <=> j <= i /\ io[t][j].kind # "none"
      BY <1>4, <1>5, <3>1 DEF Std
    <3>3. (Backed(t, i))'
      BY <1>5
    <3>4. (Backed(t, at[t]))'
      BY <3>3
    <3> QED BY <1>2, <2>2, <3>2, <3>4 DEF Placed, Going
  <2> QED BY <2>1, <2>2
<1>8. \A u \in Starters : \A r \in Slots : (Held(u, r))' = Held(u, r)
  <2>1. \A r \in Slots : (Held(t, r))' = Held(t, r)
    BY <1>2, <1>3 DEF Held, Slots, Std
  <2> QED BY <2>1, <1>1, OthersHold
<1>9. tab' \in Tables /\ Opened'
  <2>1. CASE io[t][k].kind = "fd"
    <3> PICK f \in Fds : f = From(t, k) /\ tab[f].file # "closed"
      BY <2>1, SourceOpen
    <3> PICK c \in BOOLEAN : c = flag[t][k]
      BY DEF Sound, Layout
    <3>1. tab' = [tab EXCEPT ![f].cloexec = c]
      BY <2>1 DEF SetFlagBack
    <3> QED BY <1>8, <3>1, FlagSet, FlagHolds DEF Sound, Layout
  <2>2. CASE io[t][k].kind # "fd"
    <3>1. tab' = tab
      BY <2>2 DEF SetFlagBack
    <3> QED BY <3>1, <1>8, HeldSame DEF Opened, Sound, Layout
  <2> QED BY <2>1, <2>2
<1>10. Layout'
  <2>1. at' \in [Starters -> Std]
    <3>1. Mapped(t) # {k} => Max(rest) \in Std
      BY <1>6 DEF Mapped
    <3>2. at' = at \/ (Mapped(t) # {k} /\ at' = [at EXCEPT ![t] = Max(rest)])
      BY DEF SetFlagBack, LastFirst
    <3>3. at \in [Starters -> Std]
      BY DEF Sound, Layout
    <3> HIDE DEF rest
    <3> QED BY <3>1, <3>2, <3>3
  <2>2. step' \in [Starters -> {"rest", "dup", "protect", "map", "dup2", "vfork", "unmap", "restore", "setfd"}]
    BY DEF SetFlagBack, Sound, Layout, StepsTo
  <2>3. backup' \in [Starters -> [Std -> {NoFd} \cup Fds]]
    BY DEF SetFlagBack, Sound, Layout
  <2> QED BY <1>9, <2>1, <2>2, <2>3 DEF SetFlagBack, same, Sound, Layout
<1> QED BY <1>1, <1>2, <1>7, <1>9, <1>10, OthersPlaced, OthersAsk DEF Sound

LEMMA StepSound ==
  ASSUME VforkAssumption, Sound, NEW t \in Starters, Spawns(t)
  PROVE  Sound'
<1>1. ASSUME AtLimit(t) PROVE Sound'
  BY <1>1 DEF AtLimit, Sound, Layout, Places, Placed, Backed, Going, Usable, Opened, Held
<1> QED BY <1>1, BeginSound, DupSound, ProtectSound, OpenNullSound, SetFlagSound, MapSound, StartsSound,
           UnmapSound, RestoreSound, SetFlagBackSound DEF Spawns

-----------------------------------------------------------------------------
(***************************************************************************)
(* The table while one thread alone is at work.                            *)
(***************************************************************************)

\* A child that has been started stays as it is.
LEMMA StartedKept ==
  ASSUME NEW t \in Starters, Apart(t), mixed => mixed', ChildHasAsked, ChildHasNoMore,
         \/ child'[t] = Nowhere
         \/ child'[t] = child[t] /\ io'[t] = io[t] /\ before'[t] = before[t]
  PROVE  ChildHasAsked' /\ ChildHasNoMore'
<1>1. ASSUME NEW u \in Starters, Started(u)'
      PROVE  Started(u) /\ child'[u] = child[u] /\ io'[u] = io[u] /\ before'[u] = before[u]
  BY <1>1 DEF Apart, Started
<1>2. ChildHasAsked'
  <2> SUFFICES ASSUME NEW u \in Starters, Started(u)', ~FromStd(u)', NEW k \in Std
               PROVE  child'[u][k].file = (Asked(u, k))'
    BY DEF ChildHasAsked
  <2>1. Started(u) /\ child'[u] = child[u] /\ io'[u] = io[u] /\ before'[u] = before[u]
    BY <1>1
  <2>2. ~FromStd(u) /\ (Asked(u, k))' = Asked(u, k)
    BY <2>1 DEF FromStd, Asked
  <2> QED BY <2>1, <2>2 DEF ChildHasAsked
<1>3. ChildHasNoMore'
  <2> SUFFICES ASSUME NEW u \in Starters, Started(u)', NEW n \in Fds \ Std, child'[u][n] # Closed
               PROVE  /\ before'[u][n] = child'[u][n]
                      /\ \A k \in Std : io'[u][k].kind = "fd" => io'[u][k].fd # n
    BY DEF ChildHasNoMore
  <2>1. Started(u) /\ child'[u] = child[u] /\ io'[u] = io[u] /\ before'[u] = before[u]
    BY <1>1
  <2> QED BY <2>1 DEF ChildHasNoMore
<1> QED BY <1>2, <1>3

\* A thread that goes on alone still works, or has put everything back.
LEMMA OneKept ==
  ASSUME OneStarts, NEW t \in Starters, Apart(t), step[t] # "rest", mixed' = mixed,
         ~mixed => \/ step'[t] # "rest" /\ Works(t)'
                   \/ step'[t] = "rest" /\ tab' = Table
  PROVE  OneStarts'
<1> SUFFICES ASSUME ~mixed'
             PROVE  /\ \A u, v \in Starters : step'[u] # "rest" /\ step'[v] # "rest" => u = v
                    /\ AllRest' => tab' = Table
                    /\ \A u \in Starters : step'[u] # "rest" => Works(u)'
  BY DEF OneStarts
<1>1. \A u \in Starters : u # t => step[u] = "rest" /\ step'[u] = "rest"
  BY DEF OneStarts, Apart
<1>2. AllRest' => step'[t] = "rest"
  BY DEF AllRest
<1> QED BY <1>1, <1>2

\* Then the numbers in use are the program's and its own.
LEMMA NumbersInUse ==
  ASSUME Sound, NEW t \in Starters, \A u \in Starters : u # t => step[u] = "rest"
  PROVE  \A n \in Fds : tab[n].file # "closed" <=> Table[n] # Closed \/ \E s \in Slots : Held(t, s) = n
<1>1. \A u \in Starters : u # t => \A s \in Slots : Held(u, s) = NoFd
  BY DEF Sound, Places, Placed, Held, NoBackup, Slots, Std
<1>2. NoFd \notin Fds
  BY Standard
<1> QED BY <1>1, <1>2 DEF Sound, Opened

\* What a thread holds is not the program's.
LEMMA HeldApart ==
  ASSUME VforkAssumption, Sound, NEW t \in Starters, NEW s \in Slots, Held(t, s) # NoFd
  PROVE  /\ Held(t, s) \in Fds \ Std /\ Table[Held(t, s)] = Closed /\ tab[Held(t, s)].file # "closed"
         /\ \A r \in Slots : Held(t, r) = Held(t, s) => r = s
<1>1. Held(t, s) \in Fds /\ Table[Held(t, s)] = Closed /\ tab[Held(t, s)].file # "closed"
  BY DEF Sound, Opened
<1>2. \A r \in Slots : Held(t, r) = Held(t, s) => r = s
  BY DEF Sound, Opened
<1> QED BY <1>1, <1>2 DEF VforkAssumption

\* Nothing of the program's changes.
LEMMA KeptSame ==
  ASSUME NEW t \in Starters, Kept(t), Usable,
         \A n : (Moved(t, n))' <=> Moved(t, n),
         \A j \in Std : (Flagged(t, j))' <=> Flagged(t, j),
         io'[t] = io[t], flag'[t] = flag[t],
         \A n \in Fds : Table[n] # Closed => tab'[n] = tab[n],
         \A k \in Std : (Held(t, k))' # NoFd => tab'[(Held(t, k))'].file = Table[k].file
  PROVE  Kept(t)'
<1>1. \A n \in Fds : Table[n] # Closed /\ ~(Moved(t, n))' => tab'[n].file = Table[n].file
  BY DEF Kept
<1>2. \A n \in Fds :
       Table[n] # Closed /\ ~(Moved(t, n))' /\ (\A j \in Std : (Flagged(t, j))' => io'[t][j].fd # n) =>
         tab'[n].cloexec = Table[n].cloexec
  BY DEF Kept
<1>3. \A j \in Std : (FirstOf(t, j))' => FirstOf(t, j)
  BY DEF FirstOf
<1>4. \A j \in Std : (Flagged(t, j))' /\ (FirstOf(t, j))' => flag'[t][j] = Table[io'[t][j].fd].cloexec
  BY <1>3 DEF Kept
<1> QED BY <1>1, <1>2, <1>4 DEF Kept

LEMMA GivenSame ==
  ASSUME VforkAssumption, Sound, NEW t \in Starters, Given(t),
         \A n : (Moved(t, n))' <=> Moved(t, n),
         \A j \in Std : (Flagged(t, j))' <=> Flagged(t, j),
         io'[t] = io[t], before'[t] = before[t],
         \A n \in Fds : Table[n] # Closed => tab'[n] = tab[n],
         \A s \in Slots : (Held(t, s))' # NoFd /\ ~(step'[t] = "protect" /\ s = at'[t]) =>
           tab'[(Held(t, s))'].cloexec
  PROVE  Given(t)'
<1>1. ASSUME NEW j \in Std, (Flagged(t, j))', io'[t][j].fd \notin Std PROVE tab'[io'[t][j].fd].cloexec
  <2>1. Flagged(t, j) /\ tab[io[t][j].fd].cloexec
    BY <1>1 DEF Given
  <2>2. io[t][j].fd \in Fds /\ Table[io[t][j].fd] # Closed
    BY <2>1 DEF Flagged, Sound, Usable, Names
  <2> QED BY <2>1, <2>2
<1>2. ASSUME ~(FromStd(t))', NEW k \in Std, (Moved(t, k))'
      PROVE  tab'[k].file = (Asked(t, k))' /\ ~tab'[k].cloexec
  <2>1. ~FromStd(t) /\ (Asked(t, k))' = Asked(t, k)
    BY <1>2 DEF FromStd, Asked
  <2>2. tab'[k] = tab[k]
    BY DEF VforkAssumption
  <2> QED BY <1>2, <2>1, <2>2 DEF Given
<1> QED BY <1>1, <1>2 DEF Given

LEMMA DupWorks ==
  ASSUME VforkAssumption, Sound, NEW t \in Starters, Dup(t), Works(t)
  PROVE  Works(t)' /\ step'[t] # "rest"
<1> PICK k \in Std : k = at[t]
  BY DEF Sound, Layout
<1> PICK m \in Fds : m = Min(Free) /\ tab[m] = Closed
  BY FreeNumber DEF Dup
<1>1. k \in Slots /\ k # 3 /\ k \in Fds /\ Table[k] # Closed
  BY DEF Std, Slots, VforkAssumption
<1>2. /\ step[t] = "dup" /\ step'[t] = "protect" /\ at'[t] = k /\ io'[t] = io[t] /\ null'[t] = null[t]
      /\ flag'[t] = flag[t] /\ before'[t] = before[t]
      /\ backup'[t] = [backup[t] EXCEPT ![k] = m]
      /\ tab' = [tab EXCEPT ![m] = [file |-> tab[k].file, cloexec |-> FALSE]]
  BY DEF Dup, Sound, Layout, StepsTo, same
<1>3. backup'[t][k] = m /\ \A j \in Std \ {k} : backup'[t][j] = backup[t][j]
  BY <1>2 DEF Sound, Layout
<1>4. ~Backed(t, k) /\ \A j \in Std : j # k => ((Backed(t, j))' <=> Backed(t, j))
  BY <1>2, <1>3 DEF Sound, Places, Placed, Backed, Std
<1>5. \A n : (Moved(t, n))' <=> Moved(t, n)
  BY <1>2, <1>4 DEF Moved
<1>6. \A j \in Std : (Flagged(t, j))' <=> Flagged(t, j)
  BY <1>2, <1>4 DEF Flagged
<1>7. Table[m] = Closed /\ tab[m].file = "closed"
  BY DEF Closed, Sound, Opened
<1>8. \A n \in Fds \ {m} : tab'[n] = tab[n]
  BY <1>2 DEF Sound, Layout, Tables
<1>9. tab'[m].file = tab[k].file /\ (Held(t, k))' = m
  BY <1>1, <1>2, <1>3 DEF Sound, Layout, Tables, Held
<1>10. \A s \in Slots : s # k => (Held(t, s))' = Held(t, s)
  BY <1>2, <1>3 DEF Held, Slots, Std
<1>11. \A s \in Slots : Held(t, s) # NoFd => Held(t, s) \in Fds \ {m}
  BY <1>7, HeldApart
<1>12. tab[k].file = Table[k].file
  <2>1. ~Moved(t, k)
    BY <1>4 DEF Moved
  <2> QED BY <1>1, <2>1 DEF Works, Kept
<1>13. \A j \in Std : (Held(t, j))' # NoFd => tab'[(Held(t, j))'].file = Table[j].file
  <2> SUFFICES ASSUME NEW j \in Std, j # k, Held(t, j) # NoFd PROVE tab'[Held(t, j)].file = Table[j].file
    BY <1>9, <1>10, <1>12 DEF Std, Slots
  <2>1. Held(t, j) \in Fds \ {m}
    BY <1>11 DEF Std, Slots
  <2> QED BY <1>8, <2>1 DEF Works, Kept
<1>14. Kept(t)'
  BY <1>2, <1>5, <1>6, <1>7, <1>8, <1>13, KeptSame DEF Sound, Works
<1>15. \A s \in Slots : (Held(t, s))' # NoFd /\ ~(step'[t] = "protect" /\ s = at'[t]) => tab'[(Held(t, s))'].cloexec
  <2> SUFFICES ASSUME NEW s \in Slots, s # k, Held(t, s) # NoFd PROVE tab'[Held(t, s)].cloexec
    BY <1>2, <1>10
  <2>1. tab[Held(t, s)].cloexec
    BY <1>2 DEF Works, Given, Going
  <2> QED BY <1>8, <1>11, <2>1
<1>16. Given(t)'
  <2>1. Given(t)
    BY <1>2 DEF Works, Going
  <2> QED BY <1>2, <1>5, <1>6, <1>7, <1>8, <1>15, <2>1, GivenSame
<1> QED BY <1>2, <1>14, <1>16 DEF Works

LEMMA ProtectWorks ==
  ASSUME VforkAssumption, Sound, NEW t \in Starters, Protect(t), Works(t)
  PROVE  Works(t)' /\ step'[t] # "rest"
<1> PICK k \in Std : k = at[t]
  BY DEF Sound, Layout
<1>1. k \in Slots /\ k # 3
  BY DEF Std, Slots
<1>2. /\ step[t] = "protect" /\ step'[t] = "map" /\ at'[t] = k /\ io'[t] = io[t] /\ null'[t] = null[t]
      /\ flag'[t] = flag[t] /\ before'[t] = before[t] /\ backup'[t] = backup[t]
  BY DEF Protect, Sound, Layout, StepsTo, same
<1>3. Held(t, k) = backup[t][k] /\ Held(t, k) # NoFd
  BY <1>1, <1>2 DEF Held, Sound, Places, Placed, Going, Backed, Std
<1> PICK m \in Fds : m = Held(t, k) /\ Table[m] = Closed
  BY <1>1, <1>3, HeldApart
<1>4. tab' = [tab EXCEPT ![m].cloexec = TRUE]
  BY <1>3 DEF Protect, Protected
<1>5. /\ \A n \in Fds \ {m} : tab'[n] = tab[n]
      /\ tab'[m].file = tab[m].file /\ tab'[m].cloexec
  BY <1>4, FlagSet DEF Sound, Layout
<1>6. \A n : (Moved(t, n))' <=> Moved(t, n)
  BY <1>2 DEF Moved, Backed
<1>7. \A j \in Std : (Flagged(t, j))' <=> Flagged(t, j)
  BY <1>2 DEF Flagged, Backed
<1>8. \A s \in Slots : (Held(t, s))' = Held(t, s) /\ (Held(t, s) # NoFd => Held(t, s) \in Fds)
  <2>1. \A s \in Slots : (Held(t, s))' = Held(t, s)
    BY <1>2 DEF Held
  <2> QED BY <2>1, HeldApart
<1>9. \A j \in Std : (Held(t, j))' # NoFd => tab'[(Held(t, j))'].file = Table[j].file
  <2> SUFFICES ASSUME NEW j \in Std, Held(t, j) # NoFd PROVE tab'[Held(t, j)].file = Table[j].file
    BY <1>8 DEF Std, Slots
  <2>1. Held(t, j) \in Fds
    BY <1>8 DEF Std, Slots
  <2> QED BY <1>5, <2>1 DEF Works, Kept
<1>10. Kept(t)'
  BY <1>2, <1>5, <1>6, <1>7, <1>9, KeptSame DEF Sound, Works
<1>11. \A s \in Slots : (Held(t, s))' # NoFd /\ ~(step'[t] = "protect" /\ s = at'[t]) => tab'[(Held(t, s))'].cloexec
  <2> SUFFICES ASSUME NEW s \in Slots, Held(t, s) # NoFd PROVE tab'[Held(t, s)].cloexec
    BY <1>8
  <2>1. s # k => tab[Held(t, s)].cloexec
    BY <1>2 DEF Works, Given, Going
  <2> QED BY <1>5, <1>8, <2>1
<1>12. Given(t)'
  <2>1. Given(t)
    BY <1>2 DEF Works, Going
  <2> QED BY <1>2, <1>5, <1>6, <1>7, <1>11, <2>1, GivenSame
<1> QED BY <1>2, <1>10, <1>12 DEF Works

LEMMA OpenNullWorks ==
  ASSUME VforkAssumption, Sound, NEW t \in Starters, OpenNull(t), Works(t)
  PROVE  Works(t)' /\ step'[t] # "rest"
<1> PICK m \in Fds : m = Min(Free) /\ tab[m] = Closed
  BY FreeNumber DEF OpenNull
<1>2. /\ step[t] = "map" /\ step'[t] = "map" /\ at'[t] = at[t] /\ io'[t] = io[t] /\ null'[t] = m
      /\ flag'[t] = flag[t] /\ before'[t] = before[t] /\ backup'[t] = backup[t]
      /\ tab' = [tab EXCEPT ![m] = [file |-> "null", cloexec |-> TRUE]]
  BY DEF OpenNull, Sound, Layout, same
<1>3. \A n : (Moved(t, n))' <=> Moved(t, n)
  BY <1>2 DEF Moved, Backed
<1>4. \A j \in Std : (Flagged(t, j))' <=> Flagged(t, j)
  BY <1>2 DEF Flagged, Backed
<1>5. Table[m] = Closed /\ tab[m].file = "closed"
  BY DEF Closed, Sound, Opened
<1>6. tab'[m].cloexec /\ \A n \in Fds \ {m} : tab'[n] = tab[n]
  BY <1>2 DEF Sound, Layout, Tables
<1>7. (Held(t, 3))' = m /\ \A s \in Slots : s # 3 => (Held(t, s))' = Held(t, s)
  BY <1>2 DEF Held
<1>8. \A s \in Slots : Held(t, s) # NoFd => Held(t, s) \in Fds \ {m}
  BY <1>5, HeldApart
<1>9. \A j \in Std : (Held(t, j))' # NoFd => tab'[(Held(t, j))'].file = Table[j].file
  <2> SUFFICES ASSUME NEW j \in Std, Held(t, j) # NoFd PROVE tab'[Held(t, j)].file = Table[j].file
    BY <1>7 DEF Std, Slots
  <2>1. Held(t, j) \in Fds \ {m}
    BY <1>8 DEF Std, Slots
  <2> QED BY <1>6, <2>1 DEF Works, Kept
<1>10. Kept(t)'
  BY <1>2, <1>3, <1>4, <1>5, <1>6, <1>9, KeptSame DEF Sound, Works
<1>11. \A s \in Slots : (Held(t, s))' # NoFd /\ ~(step'[t] = "protect" /\ s = at'[t]) => tab'[(Held(t, s))'].cloexec
  <2> SUFFICES ASSUME NEW s \in Slots, s # 3, Held(t, s) # NoFd PROVE tab'[Held(t, s)].cloexec
    BY <1>6, <1>7
  <2>1. tab[Held(t, s)].cloexec
    BY <1>2 DEF Works, Given, Going
  <2> QED BY <1>6, <1>8, <2>1
<1>12. Given(t)'
  <2>1. Given(t)
    BY <1>2 DEF Works, Going
  <2> QED BY <1>2, <1>3, <1>4, <1>5, <1>6, <1>11, <2>1, GivenSame
<1> QED BY <1>2, <1>10, <1>12 DEF Works

LEMMA SetFlagWorks ==
  ASSUME VforkAssumption, Sound, NEW t \in Starters, SetFlag(t), Works(t)
  PROVE  Works(t)' /\ step'[t] # "rest"
<1> PICK k \in Std : k = at[t]
  BY DEF Sound, Layout
<1>2. /\ step[t] = "map" /\ step'[t] = "dup2" /\ at'[t] = k /\ io'[t] = io[t] /\ null'[t] = null[t]
      /\ before'[t] = before[t] /\ backup'[t] = backup[t] /\ io[t][k].kind = "fd"
  BY DEF SetFlag, Sound, Layout, StepsTo, same
<1> PICK f \in Fds : f = From(t, k) /\ f = io[t][k].fd /\ Table[f] # Closed
  BY <1>2, SourceOpen
<1>3. tab' = [tab EXCEPT ![f].cloexec = TRUE] /\ flag' = [flag EXCEPT ![t][k] = tab[f].cloexec]
  BY DEF SetFlag
<1>4. /\ \A n \in Fds \ {f} : tab'[n] = tab[n]
      /\ tab'[f].file = tab[f].file /\ tab'[f].cloexec
  BY <1>3, FlagSet DEF Sound, Layout
<1>5. flag'[t][k] = tab[f].cloexec /\ \A j \in Std \ {k} : flag'[t][j] = flag[t][j]
  BY <1>3 DEF Sound, Layout
<1>6. \A n : (Moved(t, n))' <=> Moved(t, n)
  BY <1>2 DEF Moved, Backed
<1>7. \A j \in Std : Backed(t, j) <=> j <= k /\ io[t][j].kind # "none"
  BY <1>2 DEF Sound, Places, Placed
<1>8. ~Flagged(t, k) /\ (Flagged(t, k))' /\ \A j \in Std : j # k => ((Flagged(t, j))' <=> Flagged(t, j))
  BY <1>2, <1>7 DEF Flagged, Backed, Std
<1>9. \A s \in Slots : (Held(t, s))' = Held(t, s) /\ (Held(t, s) # NoFd => Held(t, s) \in Fds \ {f})
  <2>1. \A s \in Slots : (Held(t, s))' = Held(t, s)
    BY <1>2 DEF Held
  <2> QED BY <2>1, HeldApart
<1>10. Kept(t)
  BY DEF Works
<1>11. Kept(t)'
  <2>1. \A n \in Fds : Table[n] # Closed /\ ~(Moved(t, n))' => tab'[n].file = Table[n].file
    BY <1>4, <1>6, <1>10 DEF Kept
  <2>2. \A j \in Std : (Held(t, j))' # NoFd => tab'[(Held(t, j))'].file = Table[j].file
    <3> SUFFICES ASSUME NEW j \in Std, Held(t, j) # NoFd PROVE tab'[Held(t, j)].file = Table[j].file
      BY <1>9 DEF Std, Slots
    <3>1. Held(t, j) \in Fds
      BY <1>9 DEF Std, Slots
    <3> QED BY <1>4, <1>10, <3>1 DEF Kept
  <2>3. \A n \in Fds :
         Table[n] # Closed /\ ~(Moved(t, n))' /\ (\A j \in Std : (Flagged(t, j))' => io'[t][j].fd # n) =>
           tab'[n].cloexec = Table[n].cloexec
    <3> SUFFICES ASSUME NEW n \in Fds, Table[n] # Closed, ~Moved(t, n),
                        \A j \in Std : (Flagged(t, j))' => io[t][j].fd # n
                 PROVE  tab'[n].cloexec = Table[n].cloexec
      BY <1>2, <1>6
    <3>1. n # f /\ \A j \in Std : Flagged(t, j) => io[t][j].fd # n
      BY <1>8
    <3> QED BY <1>4, <1>10, <3>1 DEF Kept
  <2>4. ASSUME NEW j \in Std, (Flagged(t, j))', (FirstOf(t, j))' PROVE flag'[t][j] = Table[io'[t][j].fd].cloexec
    <3>1. CASE j = k
      <4>1. \A i \in Std : Flagged(t, i) => io[t][i].fd # f
        <5> SUFFICES ASSUME NEW i \in Std, Flagged(t, i), io[t][i].fd = f PROVE FALSE
          OBVIOUS
        <5>1. i # k /\ k <= i
          BY <1>2, <1>8, <2>4, <3>1 DEF FirstOf
        <5>2. i <= k
          BY <1>7 DEF Flagged
        <5> QED BY <5>1, <5>2 DEF Std
      <4>2. ~Moved(t, f)
        <5> SUFFICES ASSUME Moved(t, f) PROVE FALSE
          OBVIOUS
        <5>1. k <= f /\ f \in Std
          BY <1>2, <1>6, <2>4, <3>1 DEF FirstOf, Moved
        <5>2. f <= k /\ f # k
          BY <1>2, <1>7 DEF Moved
        <5> QED BY <5>1, <5>2 DEF Std
      <4>3. tab[f].cloexec = Table[f].cloexec
        BY <1>10, <4>1, <4>2 DEF Kept
      <4> QED BY <1>2, <1>5, <3>1, <4>3
    <3>2. CASE j # k
      <4>1. Flagged(t, j) /\ \A i \in Std : Flagged(t, i) => (Flagged(t, i))'
        BY <1>8, <2>4, <3>2
      <4>2. FirstOf(t, j)
        BY <1>2, <1>6, <2>4, <4>1 DEF FirstOf
      <4> QED BY <1>2, <1>5, <1>10, <3>2, <4>1, <4>2 DEF Kept
    <3> QED BY <3>1, <3>2
  <2> QED BY <2>1, <2>2, <2>3, <2>4 DEF Kept
<1>12. Given(t)
  BY <1>2 DEF Works, Going
<1>13. Given(t)'
  <2>1. ASSUME NEW j \in Std, (Flagged(t, j))', io'[t][j].fd \notin Std PROVE tab'[io'[t][j].fd].cloexec
    <3>1. j # k => Flagged(t, j) /\ tab[io[t][j].fd].cloexec
      BY <1>2, <1>8, <1>12, <2>1 DEF Given
    <3>2. j # k => io[t][j].fd \in Fds
      BY <3>1 DEF Flagged, Sound, Usable, Names
    <3> QED BY <1>2, <1>4, <3>1, <3>2
  <2>2. \A s \in Slots : (Held(t, s))' # NoFd /\ ~(step'[t] = "protect" /\ s = at'[t]) => tab'[(Held(t, s))'].cloexec
    BY <1>2, <1>4, <1>9, <1>12 DEF Given
  <2>3. ASSUME ~(FromStd(t))', NEW j \in Std, (Moved(t, j))'
        PROVE  tab'[j].file = (Asked(t, j))' /\ ~tab'[j].cloexec
    <3>1. ~FromStd(t) /\ (Asked(t, j))' = Asked(t, j)
      BY <1>2, <2>3 DEF FromStd, Asked
    <3>2. j \in Fds /\ j # f
      BY <1>2, <3>1 DEF FromStd, VforkAssumption
    <3> QED BY <1>4, <1>6, <1>12, <2>3, <3>1, <3>2 DEF Given
  <2> QED BY <2>1, <2>2, <2>3 DEF Given
<1> QED BY <1>2, <1>11, <1>13 DEF Works

LEMMA MapWorks ==
  ASSUME VforkAssumption, Sound, NEW t \in Starters, Map(t), Works(t)
  PROVE  Works(t)' /\ step'[t] # "rest"
<1> PICK k \in Std : k = at[t]
  BY DEF Sound, Layout
<1>1. /\ step[t] \in {"dup2", "map"} /\ io[t][k].kind # "none" /\ step'[t] \in {"vfork", "dup"}
      /\ io'[t] = io[t] /\ null'[t] = null[t] /\ backup'[t] = backup[t]
      /\ flag'[t] = flag[t] /\ before'[t] = before[t]
      /\ io[t][k].kind = "fd" => step[t] = "dup2"
  BY MapSource DEF Map, Sound, Layout, StepsTo, same
<1>2. /\ From(t, k) \in Fds
      /\ io[t][k].kind = "null" => From(t, k) = Held(t, 3) /\ From(t, k) \notin Std
      /\ io[t][k].kind # "null" => Table[From(t, k)] # Closed
      /\ io[t][k].kind = "pipe" => From(t, k) \notin Std
      /\ io[t][k].kind = "fd" => From(t, k) = io[t][k].fd
  BY <1>1, MapSource, SourceOpen
<1> PICK f \in Fds : f = From(t, k)
  BY <1>2
<1>3. tab' = Dup2(tab, f, k)
  BY DEF Map, MapFrom
<1>4. k \in Fds /\ Table[k] # Closed
  BY DEF VforkAssumption
<1>5. /\ \A n \in Fds \ {k} : tab'[n] = tab[n]
      /\ tab'[k].file = tab[f].file /\ (f # k => ~tab'[k].cloexec)
  BY <1>3, <1>4, Dup2Is DEF Sound, Layout
<1>6. \A j \in Std : (Backed(t, j))' = Backed(t, j)
  BY <1>1 DEF Backed
<1>7. Backed(t, k)
  BY <1>1 DEF Sound, Places, Placed, Std
<1>8. \A n : (Moved(t, n))' <=> Moved(t, n) \/ n = k
  BY <1>1, <1>6, <1>7 DEF Moved
<1>9. \A j \in Std : (Flagged(t, j))' <=> Flagged(t, j)
  BY <1>1, <1>6 DEF Flagged
<1>10. \A s \in Slots : (Held(t, s))' = Held(t, s) /\ (Held(t, s) # NoFd => Held(t, s) \in Fds \ {k})
  <2>1. \A s \in Slots : (Held(t, s))' = Held(t, s)
    BY <1>1 DEF Held
  <2> QED BY <2>1, HeldApart
<1>11. Kept(t) /\ Given(t)
  BY <1>1 DEF Works, Going
<1>12. Kept(t)'
  <2>1. \A n \in Fds : Table[n] # Closed /\ ~(Moved(t, n))' => tab'[n].file = Table[n].file
    BY <1>5, <1>8, <1>11 DEF Kept
  <2>2. \A j \in Std : (Held(t, j))' # NoFd => tab'[(Held(t, j))'].file = Table[j].file
    <3> SUFFICES ASSUME NEW j \in Std, Held(t, j) # NoFd PROVE tab'[Held(t, j)].file = Table[j].file
      BY <1>10 DEF Std, Slots
    <3>1. Held(t, j) \in Fds \ {k}
      BY <1>10 DEF Std, Slots
    <3> QED BY <1>5, <1>11, <3>1 DEF Kept
  <2>3. \A n \in Fds :
         Table[n] # Closed /\ ~(Moved(t, n))' /\ (\A j \in Std : (Flagged(t, j))' => io'[t][j].fd # n) =>
           tab'[n].cloexec = Table[n].cloexec
    BY <1>1, <1>5, <1>8, <1>9, <1>11 DEF Kept
  <2>4. \A j \in Std : (FirstOf(t, j))' => FirstOf(t, j)
    BY <1>1, <1>8, <1>9 DEF FirstOf
  <2>5. \A j \in Std : (Flagged(t, j))' /\ (FirstOf(t, j))' => flag'[t][j] = Table[io'[t][j].fd].cloexec
    BY <1>1, <1>9, <1>11, <2>4 DEF Kept
  <2> QED BY <2>1, <2>2, <2>3, <2>5 DEF Kept
<1>13. Given(t)'
  <2>1. ASSUME NEW j \in Std, (Flagged(t, j))', io'[t][j].fd \notin Std PROVE tab'[io'[t][j].fd].cloexec
    <3>1. Flagged(t, j) /\ tab[io[t][j].fd].cloexec
      BY <1>1, <1>9, <1>11, <2>1 DEF Given
    <3>2. io[t][j].fd \in Fds /\ io[t][j].fd # k
      BY <1>1, <2>1, <3>1 DEF Flagged, Sound, Usable, Names
    <3> QED BY <1>1, <1>5, <3>1, <3>2
  <2>2. \A s \in Slots : (Held(t, s))' # NoFd /\ ~(step'[t] = "protect" /\ s = at'[t]) => tab'[(Held(t, s))'].cloexec
    BY <1>1, <1>5, <1>10, <1>11 DEF Given
  <2>3. ASSUME ~(FromStd(t))', NEW j \in Std, (Moved(t, j))'
        PROVE  tab'[j].file = (Asked(t, j))' /\ ~tab'[j].cloexec
    <3>1. ~FromStd(t) /\ (Asked(t, j))' = Asked(t, j)
      BY <1>1, <2>3 DEF FromStd, Asked
    <3>2. CASE j # k
      <4>1. j \in Fds /\ Moved(t, j)
        BY <1>8, <2>3, <3>2 DEF VforkAssumption
      <4> QED BY <1>5, <1>11, <3>1, <3>2, <4>1 DEF Given
    <3>3. CASE j = k
      <4>1. f \notin Std
        <5>1. io[t][k].kind \in {"none", "null", "fd", "pipe"}
          BY SourceKinds DEF Sound, Layout
        <5> QED BY <1>1, <1>2, <3>1, <5>1 DEF FromStd
      <4>2. tab[f].file = Asked(t, k)
        <5>1. CASE io[t][k].kind = "null"
          <6>1. tab[f].file = "null"
            BY <1>2, <4>1, <5>1, Standard DEF Sound, Opened
          <6> QED BY <5>1, <6>1 DEF Asked
        <5>2. CASE io[t][k].kind # "null"
          <6>1. io[t][k].kind \in {"fd", "pipe"}
            BY <1>1, <5>2, SourceKinds DEF Sound, Layout
          <6>2. Asked(t, k) = Table[f].file
            BY <6>1 DEF Asked, From, Works
          <6>3. ~Moved(t, f) /\ Table[f] # Closed
            BY <1>2, <4>1, <5>2 DEF Moved
          <6> QED BY <1>11, <6>2, <6>3 DEF Kept
        <5> QED BY <5>1, <5>2
      <4> QED BY <1>5, <3>1, <3>3, <4>1, <4>2
    <3> QED BY <3>2, <3>3
  <2> QED BY <2>1, <2>2, <2>3 DEF Given
<1> QED BY <1>1, <1>12, <1>13 DEF Works

LEMMA StartsWorks ==
  ASSUME VforkAssumption, Sound, NEW t \in Starters, VforkExec(t) \/ VforkFails(t), Works(t)
  PROVE  Works(t)' /\ step'[t] # "rest"
<1>1. /\ step[t] = "vfork" /\ step'[t] = "unmap" /\ at'[t] = at[t] /\ io'[t] = io[t] /\ null'[t] = null[t]
      /\ flag'[t] = flag[t] /\ before'[t] = before[t] /\ backup'[t] = backup[t] /\ tab' = tab
  BY DEF VforkExec, VforkFails, Sound, Layout, StepsTo, same
<1>2. \A n : (Moved(t, n))' <=> Moved(t, n)
  BY <1>1 DEF Moved, Backed
<1>3. \A j \in Std : (Flagged(t, j))' <=> Flagged(t, j)
  BY <1>1 DEF Flagged, Backed
<1>4. \A s \in Slots : (Held(t, s))' = Held(t, s)
  BY <1>1 DEF Held
<1>5. Kept(t)'
  <2>1. \A j \in Std : (Held(t, j))' # NoFd => tab'[(Held(t, j))'].file = Table[j].file
    BY <1>1, <1>4 DEF Works, Kept, Std, Slots
  <2> QED BY <1>1, <1>2, <1>3, <2>1, KeptSame DEF Sound, Works
<1> QED BY <1>1, <1>5 DEF Works, Going

\* The child has what it was to have.
LEMMA ChildIsGiven ==
  ASSUME VforkAssumption, Sound, OneStarts, ChildHasAsked, ChildHasNoMore, NEW t \in Starters, VforkExec(t)
  PROVE  ChildHasAsked' /\ ChildHasNoMore'
<1>1. Apart(t)
  BY StepsApart DEF Sound, Spawns
<1>2. /\ step[t] = "vfork" /\ io'[t] = io[t] /\ before'[t] = before[t] /\ mixed' = mixed
      /\ child'[t] = [n \in Fds |-> IF tab[n].cloexec THEN Closed ELSE tab[n]]
  BY DEF VforkExec, Sound, Layout
<1>3. ASSUME ~mixed PROVE /\ Works(t) /\ Kept(t) /\ Given(t) /\ before[t] = Table
                          /\ \A u \in Starters : u # t => step[u] = "rest"
  BY <1>2, <1>3 DEF OneStarts, Works
<1>4. \A k \in Std : Backed(t, k) <=> io[t][k].kind # "none"
  BY <1>2 DEF Sound, Places, Placed
<1>5. \A k \in Std : Moved(t, k) <=> io[t][k].kind # "none"
  BY <1>2, <1>4 DEF Moved
<1>6. \A k \in Std : Flagged(t, k) <=> io[t][k].kind = "fd"
  BY <1>2, <1>4 DEF Flagged
<1>7. ASSUME ~mixed, ~FromStd(t), NEW k \in Std PROVE child'[t][k].file = Asked(t, k)
  <2>1. k \in Fds /\ Table[k] # Closed /\ ~Table[k].cloexec
    BY DEF VforkAssumption
  <2>2. tab[k].file = Asked(t, k) /\ ~tab[k].cloexec
    <3>1. CASE io[t][k].kind # "none"
      BY <1>3, <1>5, <1>7, <3>1 DEF Given
    <3>2. CASE io[t][k].kind = "none"
      <4>1. Asked(t, k) = Table[k].file
        BY <1>3, <1>7, <3>2 DEF Asked
      <4>2. ~Moved(t, k) /\ \A j \in Std : Flagged(t, j) => io[t][j].fd # k
        BY <1>5, <1>6, <1>7, <3>2 DEF FromStd
      <4> QED BY <1>3, <1>7, <2>1, <4>1, <4>2 DEF Kept
    <3> QED BY <3>1, <3>2
  <2> QED BY <1>2, <2>1, <2>2
<1>8. ASSUME ~mixed, NEW n \in Fds \ Std, child'[t][n] # Closed
      PROVE  /\ before[t][n] = child'[t][n]
             /\ \A k \in Std : io[t][k].kind = "fd" => io[t][k].fd # n
  <2>1. ~tab[n].cloexec /\ tab[n] # Closed /\ child'[t][n] = tab[n]
    BY <1>2, <1>8
  <2>2. tab[n] \in [file : Files, cloexec : BOOLEAN]
    BY DEF Sound, Layout, Tables
  <2>3. tab[n].file # "closed"
    BY <2>1, <2>2, Entries
  <2>4. \A s \in Slots : Held(t, s) # n
    BY <1>2, <1>3, <1>8, <2>1, Standard DEF Given
  <2>5. Table[n] # Closed
    BY <1>3, <1>8, <2>3, <2>4, NumbersInUse
  <2>6. \A k \in Std : Flagged(t, k) => io[t][k].fd # n
    BY <1>3, <1>8, <2>1 DEF Given
  <2>7. tab[n].file = Table[n].file /\ tab[n].cloexec = Table[n].cloexec
    BY <1>3, <1>8, <2>5, <2>6 DEF Kept, Moved
  <2>8. Table[n] \in [file : Files, cloexec : BOOLEAN]
    BY DEF VforkAssumption, Tables
  <2>9. tab[n] = Table[n]
    BY <2>2, <2>7, <2>8
  <2> QED BY <1>3, <1>6, <1>8, <2>1, <2>6, <2>9
<1>9. \A u \in Starters : u # t /\ (Started(u))' =>
        Started(u) /\ child'[u] = child[u] /\ io'[u] = io[u] /\ before'[u] = before[u]
  BY <1>1, <1>2 DEF Apart, Started
<1>10. ChildHasAsked'
  <2> SUFFICES ASSUME NEW u \in Starters, (Started(u))', ~(FromStd(u))', NEW k \in Std
               PROVE  child'[u][k].file = (Asked(u, k))'
    BY DEF ChildHasAsked
  <2>1. io'[u] = io[u] /\ before'[u] = before[u]
    BY <1>2, <1>9
  <2>2. ~FromStd(u) /\ (Asked(u, k))' = Asked(u, k)
    BY <2>1 DEF FromStd, Asked
  <2>3. CASE u = t
    BY <1>2, <1>7, <2>2, <2>3 DEF Started
  <2>4. CASE u # t
    BY <1>9, <2>2, <2>4 DEF ChildHasAsked
  <2> QED BY <2>3, <2>4
<1>11. ChildHasNoMore'
  <2> SUFFICES ASSUME NEW u \in Starters, (Started(u))', NEW n \in Fds \ Std, child'[u][n] # Closed
               PROVE  /\ before'[u][n] = child'[u][n]
                      /\ \A k \in Std : io'[u][k].kind = "fd" => io'[u][k].fd # n
    BY DEF ChildHasNoMore
  <2>1. CASE u = t
    BY <1>2, <1>8, <2>1 DEF Started
  <2>2. CASE u # t
    <3>1. Started(u) /\ child'[u] = child[u] /\ io'[u] = io[u] /\ before'[u] = before[u]
      BY <1>9, <2>2
    <3> QED BY <3>1 DEF ChildHasNoMore
  <2> QED BY <2>1, <2>2
<1> QED BY <1>10, <1>11

\* With nothing exchanged and nothing held the table is the program's.
LEMMA PutBack ==
  ASSUME VforkAssumption, Sound, NEW t \in Starters, Kept(t), \A u \in Starters : step[u] = "rest"
  PROVE  tab = Table
<1>1. \A k \in Std : ~Backed(t, k)
  BY DEF Sound, Places, Placed, Backed, NoBackup
<1>2. \A n : ~Moved(t, n)
  BY <1>1 DEF Moved
<1>3. \A j \in Std : ~Flagged(t, j)
  BY <1>1 DEF Flagged
<1>4. \A s \in Slots : Held(t, s) = NoFd
  BY DEF Sound, Places, Placed, Held, NoBackup, Slots, Std
<1>5. ASSUME NEW n \in Fds PROVE tab[n] = Table[n]
  <2>1. tab[n] \in [file : Files, cloexec : BOOLEAN] /\ Table[n] \in [file : Files, cloexec : BOOLEAN]
    BY DEF Sound, Layout, Tables, VforkAssumption
  <2>2. CASE Table[n] # Closed
    BY <1>2, <1>3, <2>1, <2>2 DEF Kept
  <2>3. CASE Table[n] = Closed
    <3>1. tab[n].file = "closed"
      BY <1>4, <2>3, NumbersInUse, Standard
    <3>2. ~tab[n].cloexec
      BY <3>1 DEF Sound, Opened
    <3>3. tab[n] = Closed
      BY <2>1, <3>1, <3>2, Entries
    <3> QED BY <2>3, <3>3
  <2> QED BY <2>2, <2>3
<1> QED BY <1>5 DEF Sound, Layout, Tables, VforkAssumption

LEMMA UnmapWorks ==
  ASSUME VforkAssumption, Sound, NEW t \in Starters, Unmap(t), Works(t)
  PROVE  Kept(t)' /\ before'[t] = Table /\ step'[t] \in {"rest", "restore"}
<1>1. /\ step[t] = "unmap" /\ step'[t] \in {"rest", "restore"} /\ io'[t] = io[t] /\ null'[t] = null[t]
      /\ flag'[t] = flag[t] /\ before'[t] = before[t] /\ backup'[t] = backup[t]
  BY DEF Unmap, StepsTo, same, Sound, Layout
<1>2. \A n : (Moved(t, n))' <=> Moved(t, n)
  BY <1>1 DEF Moved, Backed
<1>3. \A j \in Std : (Flagged(t, j))' <=> Flagged(t, j)
  BY <1>1 DEF Flagged, Backed
<1>4. \A s \in Slots : s # 3 => (Held(t, s))' = Held(t, s)
  BY <1>1 DEF Held
<1>5. Held(t, 3) = null[t] /\ 3 \in Slots
  BY <1>1 DEF Held, Slots
<1>6. null[t] # NoFd => null[t] \in Fds /\ Table[null[t]] = Closed
  BY <1>5, HeldApart
<1>7. \A n \in Fds : n # null[t] => tab'[n] = tab[n]
  BY DEF Unmap, CloseNull, Sound, Layout, Tables
<1>8. Kept(t)'
  <2>1. \A n \in Fds : Table[n] # Closed => tab'[n] = tab[n]
    BY <1>6, <1>7, Standard
  <2>2. \A j \in Std : (Held(t, j))' # NoFd => tab'[(Held(t, j))'].file = Table[j].file
    <3> SUFFICES ASSUME NEW j \in Std, Held(t, j) # NoFd PROVE tab'[Held(t, j)].file = Table[j].file
      BY <1>4 DEF Std, Slots
    <3>1. j \in Slots /\ j # 3
      BY DEF Std, Slots
    <3>2. Held(t, j) \in Fds /\ Held(t, j) # null[t]
      BY <1>5, <3>1, HeldApart
    <3> QED BY <1>7, <3>2 DEF Works, Kept
  <2> QED BY <1>1, <1>2, <1>3, <2>1, <2>2, KeptSame DEF Sound, Works
<1> QED BY <1>1, <1>8 DEF Works

LEMMA RestoreWorks ==
  ASSUME VforkAssumption, Sound, NEW t \in Starters, Restore(t), Works(t)
  PROVE  Works(t)' /\ step'[t] # "rest"
<1> PICK k \in Std : k = at[t]
  BY DEF Sound, Layout
<1>1. /\ step[t] = "restore" /\ step'[t] = "setfd" /\ at'[t] = k /\ io'[t] = io[t] /\ null'[t] = null[t]
      /\ flag'[t] = flag[t] /\ before'[t] = before[t] /\ backup'[t] = backup[t]
  BY DEF Restore, StepsTo, same, Sound, Layout
<1>2. Backed(t, k) /\ \A j \in Std : Backed(t, j) => j <= k
  BY <1>1 DEF Sound, Places, Placed
<1> PICK m \in Fds : m = backup[t][k]
  BY <1>2 DEF Backed, Sound, Layout
<1>3. /\ m \notin Std /\ Held(t, k) = m /\ tab'[k].file = tab[m].file /\ ~tab'[k].cloexec
      /\ \A n \in Fds \ {k, m} : tab'[n] = tab[n]
  BY RestoreTable
<1>4. k \in Fds /\ Table[k] # Closed /\ ~Table[k].cloexec /\ k \in Slots /\ k # 3 /\ m # NoFd
  BY Standard DEF VforkAssumption, Std, Slots
<1>5. Table[m] = Closed
  BY <1>3, <1>4, HeldApart
<1>6. \A n : (Moved(t, n))' <=> Moved(t, n) /\ n # k
  BY <1>1 DEF Moved, Backed
<1>7. \A j \in Std : (Flagged(t, j))' <=> Flagged(t, j)
  BY <1>1 DEF Flagged, Backed
<1>8. (Held(t, k))' = NoFd /\ \A s \in Slots : s # k => (Held(t, s))' = Held(t, s)
  BY <1>1, <1>4 DEF Held
<1>9. Kept(t)
  BY DEF Works
<1>10. tab'[k].file = Table[k].file
  BY <1>3, <1>4, <1>9 DEF Kept
<1>11. Kept(t)'
  <2>1. \A n \in Fds : Table[n] # Closed /\ ~(Moved(t, n))' => tab'[n].file = Table[n].file
    BY <1>3, <1>5, <1>6, <1>9, <1>10 DEF Kept
  <2>2. \A j \in Std : (Held(t, j))' # NoFd => tab'[(Held(t, j))'].file = Table[j].file
    <3> SUFFICES ASSUME NEW j \in Std, j # k, Held(t, j) # NoFd PROVE tab'[Held(t, j)].file = Table[j].file
      BY <1>8 DEF Std, Slots
    <3>1. j \in Slots /\ j # 3
      BY DEF Std, Slots
    <3>2. Held(t, j) \in Fds /\ Held(t, j) # m /\ Held(t, j) # k
      BY <1>3, <1>4, <3>1, HeldApart
    <3> QED BY <1>3, <1>9, <3>2 DEF Kept
  <2>3. \A n \in Fds :
         Table[n] # Closed /\ ~(Moved(t, n))' /\ (\A j \in Std : (Flagged(t, j))' => io'[t][j].fd # n) =>
           tab'[n].cloexec = Table[n].cloexec
    <3> SUFFICES ASSUME NEW n \in Fds, Table[n] # Closed, ~(Moved(t, n))',
                        \A j \in Std : Flagged(t, j) => io[t][j].fd # n
                 PROVE  tab'[n].cloexec = Table[n].cloexec
      BY <1>1, <1>7
    <3>1. CASE n = k
      <4>1. tab'[k].cloexec \in BOOLEAN /\ Table[k].cloexec \in BOOLEAN
        BY <1>4, RestoreTable DEF VforkAssumption, Tables
      <4> QED BY <1>3, <1>4, <3>1, <4>1
    <3>2. CASE n # k
      BY <1>3, <1>5, <1>6, <1>9, <3>2 DEF Kept
    <3> QED BY <3>1, <3>2
  <2>4. ASSUME NEW j \in Std, (Flagged(t, j))', (FirstOf(t, j))' PROVE FirstOf(t, j)
    <3>1. j <= k
      BY <1>2, <1>7, <2>4 DEF Flagged
    <3> QED BY <1>1, <1>6, <1>7, <2>4, <3>1 DEF FirstOf
  <2>5. \A j \in Std : (Flagged(t, j))' /\ (FirstOf(t, j))' => flag'[t][j] = Table[io'[t][j].fd].cloexec
    BY <1>1, <1>7, <1>9, <2>4 DEF Kept
  <2> QED BY <2>1, <2>2, <2>3, <2>5 DEF Kept
<1> QED BY <1>1, <1>11 DEF Works, Going

LEMMA SetFlagBackWorks ==
  ASSUME VforkAssumption, Sound, NEW t \in Starters, SetFlagBack(t), Works(t)
  PROVE  Kept(t)' /\ before'[t] = Table /\ step'[t] \in {"rest", "restore"}
<1> PICK k \in Std : k = at[t]
  BY DEF Sound, Layout
<1>1. /\ step[t] = "setfd" /\ io'[t] = io[t] /\ null'[t] = null[t] /\ step'[t] \in {"rest", "restore"}
      /\ flag'[t] = flag[t] /\ before'[t] = before[t] /\ backup'[t] = [backup[t] EXCEPT ![k] = NoFd]
  BY DEF SetFlagBack, StepsTo, same, Sound, Layout
<1>2. backup'[t][k] = NoFd /\ \A j \in Std \ {k} : backup'[t][j] = backup[t][j]
  BY <1>1 DEF Sound, Layout
<1>3. Backed(t, k) /\ \A j \in Std : Backed(t, j) => j <= k
  BY <1>1 DEF Sound, Places, Placed
<1>4. \A n : (Moved(t, n))' <=> Moved(t, n)
  BY <1>1, <1>2 DEF Moved, Backed
<1>5. \A j \in Std : (Flagged(t, j))' <=> Flagged(t, j) /\ j # k
  BY <1>1, <1>2 DEF Flagged, Backed
<1>6. \A s \in Slots : (Held(t, s))' = Held(t, s)
  BY <1>1, <1>2 DEF Held, Slots, Std
<1>7. Kept(t)
  BY DEF Works
<1>8. /\ io[t][k].kind # "fd" => tab' = tab
      /\ io[t][k].kind = "fd" =>
           /\ io[t][k].fd \in Fds /\ tab'[io[t][k].fd].cloexec = flag[t][k]
           /\ tab'[io[t][k].fd].file = tab[io[t][k].fd].file
           /\ \A n \in Fds : n # io[t][k].fd => tab'[n] = tab[n]
  <2>1. CASE io[t][k].kind # "fd"
    BY <2>1 DEF SetFlagBack
  <2>2. CASE io[t][k].kind = "fd"
    <3> PICK f \in Fds : f = From(t, k) /\ f = io[t][k].fd
      BY <2>2, SourceOpen
    <3> PICK c \in BOOLEAN : c = flag[t][k]
      BY DEF Sound, Layout
    <3>1. tab' = [tab EXCEPT ![f].cloexec = c]
      BY <2>2 DEF SetFlagBack
    <3>2. tab'[f].file = tab[f].file /\ tab'[f].cloexec = c /\ \A n \in Fds \ {f} : tab'[n] = tab[n]
      BY <3>1, FlagSet DEF Sound, Layout
    <3> QED BY <2>2, <3>2
  <2> QED BY <2>1, <2>2
<1>9. \A n \in Fds : tab'[n].file = tab[n].file
  BY <1>8
<1>10. Kept(t)'
  <2>1. \A n \in Fds : Table[n] # Closed /\ ~(Moved(t, n))' => tab'[n].file = Table[n].file
    BY <1>4, <1>7, <1>9 DEF Kept
  <2>2. \A j \in Std : (Held(t, j))' # NoFd => tab'[(Held(t, j))'].file = Table[j].file
    <3> SUFFICES ASSUME NEW j \in Std, Held(t, j) # NoFd PROVE tab'[Held(t, j)].file = Table[j].file
      BY <1>6 DEF Std, Slots
    <3>1. j \in Slots
      BY DEF Std, Slots
    <3>2. Held(t, j) \in Fds
      BY <3>1, HeldApart
    <3> QED BY <1>7, <1>9, <3>2 DEF Kept
  <2>3. \A n \in Fds :
         Table[n] # Closed /\ ~(Moved(t, n))' /\ (\A j \in Std : (Flagged(t, j))' => io'[t][j].fd # n) =>
           tab'[n].cloexec = Table[n].cloexec
    <3> SUFFICES ASSUME NEW n \in Fds, Table[n] # Closed, ~Moved(t, n),
                        \A j \in Std : Flagged(t, j) /\ j # k => io[t][j].fd # n
                 PROVE  tab'[n].cloexec = Table[n].cloexec
      BY <1>1, <1>4, <1>5
    <3>1. CASE io[t][k].kind = "fd" /\ io[t][k].fd = n
      <4>1. Flagged(t, k)
        BY <1>1, <1>3, <3>1 DEF Flagged
      <4>2. FirstOf(t, k)
        BY <3>1 DEF FirstOf, Std
      <4> QED BY <1>7, <1>8, <3>1, <4>1, <4>2 DEF Kept
    <3>2. CASE ~(io[t][k].kind = "fd" /\ io[t][k].fd = n)
      <4>1. \A j \in Std : Flagged(t, j) => io[t][j].fd # n
        BY <3>2 DEF Flagged
      <4> QED BY <1>7, <1>8, <3>2, <4>1 DEF Kept
    <3> QED BY <3>1, <3>2
  <2>4. ASSUME NEW j \in Std, (Flagged(t, j))', (FirstOf(t, j))' PROVE FirstOf(t, j)
    <3>1. j <= k
      BY <1>3, <1>5, <2>4 DEF Flagged
    <3> QED BY <1>1, <1>4, <1>5, <2>4, <3>1 DEF FirstOf
  <2>5. \A j \in Std : (Flagged(t, j))' /\ (FirstOf(t, j))' => flag'[t][j] = Table[io'[t][j].fd].cloexec
    BY <1>1, <1>5, <1>7, <2>4 DEF Kept
  <2> QED BY <2>1, <2>2, <2>3, <2>5 DEF Kept
<1> QED BY <1>1, <1>10 DEF Works

LEMMA BeginOne ==
  ASSUME VforkAssumption, Sound, OneStarts, NEW t \in Starters, Begin(t)
  PROVE  OneStarts'
<1>1. Apart(t)
  BY StepsApart DEF Sound, Spawns
<1>2. /\ step[t] = "rest" /\ step'[t] \in {"vfork", "dup"} /\ before'[t] = tab /\ tab' = tab
      /\ null'[t] = NoFd /\ backup'[t] = NoBackup
  BY DEF Begin, StepsTo, Sound, Layout
<1>3. mixed' = (mixed \/ \E u \in Starters : step[u] # "rest")
  BY DEF Begin
<1> SUFFICES ASSUME ~mixed'
             PROVE  /\ \A u, v \in Starters : step'[u] # "rest" /\ step'[v] # "rest" => u = v
                    /\ AllRest' => tab' = Table
                    /\ \A u \in Starters : step'[u] # "rest" => Works(u)'
  BY DEF OneStarts
<1>4. ~mixed /\ \A u \in Starters : step[u] = "rest"
  BY <1>3
<1>5. tab = Table
  BY <1>4 DEF OneStarts, AllRest
<1>6. \A u \in Starters : u # t => step'[u] = "rest"
  BY <1>1, <1>4 DEF Apart
<1>7. \A n : ~(Moved(t, n))'
  BY <1>2 DEF Moved, Backed, NoBackup
<1>8. \A j \in Std : ~(Flagged(t, j))'
  BY <1>2 DEF Flagged, Backed, NoBackup
<1>9. \A s \in Slots : (Held(t, s))' = NoFd
  BY <1>2 DEF Held, NoBackup, Std, Slots
<1>10. Kept(t)'
  <2>1. \A j \in Std : (Held(t, j))' = NoFd
    BY <1>9 DEF Std, Slots
  <2> QED BY <1>2, <1>5, <1>7, <1>8, <2>1 DEF Kept
<1>11. Given(t)'
  BY <1>7, <1>8, <1>9 DEF Given
<1>12. Works(t)'
  BY <1>2, <1>5, <1>10, <1>11 DEF Works
<1> QED BY <1>2, <1>5, <1>6, <1>12

\* Nothing else matters to them.
LEMMA Quiet ==
  ASSUME UNCHANGED <<tab, step, at, io, backup, flag, null, child, before, mixed>>,
         OneStarts, ChildHasAsked, ChildHasNoMore
  PROVE  OneStarts' /\ ChildHasAsked' /\ ChildHasNoMore'
<1>1. ASSUME NEW t \in Starters
      PROVE  /\ (FromStd(t))' = FromStd(t) /\ \A k \in Std : (Asked(t, k))' = Asked(t, k)
             /\ \A n : (Moved(t, n))' <=> Moved(t, n)
             /\ \A j \in Std : (Flagged(t, j))' <=> Flagged(t, j)
             /\ \A s \in Slots : (Held(t, s))' = Held(t, s)
  BY DEF FromStd, Asked, Moved, Flagged, Backed, Held
<1>2. ASSUME NEW t \in Starters, Kept(t) PROVE Kept(t)'
  <2>1. \A j \in Std : (FirstOf(t, j))' => FirstOf(t, j)
    BY <1>1 DEF FirstOf
  <2>2. \A k \in Std : (Held(t, k))' = Held(t, k)
    BY <1>1 DEF Std, Slots
  <2> QED BY <1>1, <1>2, <2>1, <2>2 DEF Kept
<1>3. ASSUME NEW t \in Starters, Given(t) PROVE Given(t)'
  BY <1>1, <1>3 DEF Given
<1>4. OneStarts'
  BY <1>2, <1>3 DEF OneStarts, AllRest, Works
<1>5. ChildHasAsked'
  BY <1>1 DEF ChildHasAsked, Started
<1>6. ChildHasNoMore'
  BY DEF ChildHasNoMore, Started
<1> QED BY <1>4, <1>5, <1>6

LEMMA PutBackAll ==
  VforkAssumption =>
    \A u \in Starters : Sound /\ Kept(u) /\ (\A v \in Starters : step[v] = "rest") => tab = Table
  BY PutBack

LEMMA OneNext ==
  ASSUME VforkAssumption, VforkInv, NEW t \in Starters, Spawns(t)
  PROVE  OneStarts' /\ ChildHasAsked' /\ ChildHasNoMore'
<1>1. Apart(t) /\ Sound /\ OneStarts /\ ChildHasAsked /\ ChildHasNoMore
  BY StepsApart DEF VforkInv, Sound
<1>2. Sound'
  BY <1>1, StepSound
<1>3. ASSUME Begin(t) PROVE OneStarts' /\ ChildHasAsked' /\ ChildHasNoMore'
  <2>1. child'[t] = Nowhere /\ (mixed => mixed')
    BY <1>3 DEF Begin, Sound, Layout, VforkInv
  <2> QED BY <1>1, <1>3, <2>1, BeginOne, StartedKept
<1>4. ASSUME AtLimit(t) PROVE OneStarts' /\ ChildHasAsked' /\ ChildHasNoMore'
  BY <1>1, <1>4, Quiet DEF AtLimit
<1>5. ASSUME ~mixed, step[t] # "rest" PROVE Works(t)
  BY <1>1, <1>5 DEF OneStarts
<1>6. ASSUME \/ Dup(t) \/ Protect(t) \/ OpenNull(t) \/ SetFlag(t) \/ Map(t) \/ VforkExec(t) \/ VforkFails(t)
             \/ Restore(t)
      PROVE  OneStarts'
  <2>1. step[t] # "rest" /\ mixed' = mixed
    BY <1>6 DEF Dup, Protect, OpenNull, SetFlag, Map, VforkExec, VforkFails, Restore, same
  <2>2. ~mixed => Works(t)' /\ step'[t] # "rest"
    BY <1>1, <1>5, <1>6, <2>1, DupWorks, ProtectWorks, OpenNullWorks, SetFlagWorks, MapWorks, StartsWorks,
       RestoreWorks
  <2> QED BY <1>1, <2>1, <2>2, OneKept
<1>7. ASSUME Unmap(t) \/ SetFlagBack(t) PROVE OneStarts'
  <2>1. step[t] # "rest" /\ mixed' = mixed
    BY <1>7 DEF Unmap, SetFlagBack, same
  <2>2. ~mixed => Kept(t)' /\ before'[t] = Table /\ step'[t] \in {"rest", "restore"}
    BY <1>1, <1>5, <1>7, <2>1, UnmapWorks, SetFlagBackWorks
  <2>3. ~mixed /\ step'[t] = "restore" => Works(t)' /\ step'[t] # "rest"
    BY <2>2 DEF Works, Going
  <2>4. ASSUME ~mixed, step'[t] = "rest" PROVE tab' = Table
    <3>1. \A u \in Starters : step'[u] = "rest"
      BY <1>1, <2>1, <2>4 DEF OneStarts, Apart
    <3>2. Kept(t)'
      BY <2>2, <2>4
    <3>3. (\A u \in Starters : Sound /\ Kept(u) /\ (\A v \in Starters : step[v] = "rest") => tab = Table)'
      BY VforkAssumption, PutBackAll, PTL
    <3> QED BY <1>2, <3>1, <3>2, <3>3
  <2> QED BY <1>1, <2>1, <2>2, <2>3, <2>4, OneKept
<1>8. ASSUME \/ Dup(t) \/ Protect(t) \/ OpenNull(t) \/ SetFlag(t) \/ Map(t) \/ VforkFails(t)
             \/ Restore(t) \/ Unmap(t) \/ SetFlagBack(t)
      PROVE  ChildHasAsked' /\ ChildHasNoMore'
  <2>1. child' = child /\ before' = before /\ mixed' = mixed /\ io' = io
    BY <1>8 DEF Dup, Protect, OpenNull, SetFlag, Map, VforkFails, Restore, Unmap, SetFlagBack, same
  <2> QED BY <1>1, <2>1, StartedKept
<1> QED BY <1>1, <1>3, <1>4, <1>6, <1>7, <1>8, ChildIsGiven DEF Spawns

LEMMA VforkInvNext ==
  ASSUME VforkAssumption, VforkInv, [VforkNext]_vforkVars
  PROVE  VforkInv'
<1>1. ASSUME NEW t \in Starters, Spawns(t) PROVE VforkInv'
  BY <1>1, StepSound, OneNext DEF VforkInv
<1>2. CASE UNCHANGED vforkVars
  <2>1. Sound'
    BY <1>2 DEF vforkVars, VforkInv, Sound, Layout, Places, Placed, Backed, Going, Usable, Opened, Held
  <2> QED BY <1>2, <2>1, Quiet DEF VforkInv, vforkVars
<1> QED BY <1>1, <1>2 DEF VforkNext

LEMMA VforkStarts ==
  ASSUME VforkAssumption, VforkInit
  PROVE  VforkInv
<1>1. Layout
  <2>1. 0 \in Std /\ [kind |-> "none"] \in Sources /\ 0 \in 0..MaxSpawns
    BY DEF Std, Sources, VforkAssumption
  <2>2. NoJob \in [Std -> Sources]
    BY <2>1 DEF NoJob
  <2>3. NoBackup \in [Std -> {NoFd} \cup Fds]
    BY DEF NoBackup
  <2> QED BY <2>1, <2>2, <2>3, NowhereIsTable DEF VforkInit, VforkAssumption, Layout
<1>2. Places
  BY DEF VforkInit, Places, Placed, Going
<1>3. Usable
  BY DEF VforkInit, Usable, NoJob, Names
<1>4. \A t \in Starters : \A s \in Slots : Held(t, s) = NoFd
  BY DEF VforkInit, Held, NoBackup, Std, Slots
<1>5. Opened
  <2>1. \A n \in Fds : tab[n].file # "closed" <=> Table[n] # Closed
    BY DEF VforkInit, VforkAssumption, Closed
  <2>2. \A n \in Fds : tab[n].file = "closed" => ~tab[n].cloexec
    BY DEF VforkInit, VforkAssumption, Closed
  <2>3. 3 \in Slots
    BY DEF Slots
  <2> QED BY <1>4, <2>1, <2>2, <2>3, Standard DEF Opened
<1>6. OneStarts
  BY DEF VforkInit, OneStarts
<1>7. ChildHasAsked /\ ChildHasNoMore
  BY DEF VforkInit, ChildHasAsked, ChildHasNoMore, Started
<1> QED BY <1>1, <1>2, <1>3, <1>5, <1>6, <1>7 DEF VforkInv, Sound

LEMMA VforkInvMeans ==
  ASSUME VforkAssumption, VforkInv
  PROVE  DescriptorsAreKept
<1>1. VforkTypeOK
  BY TypesFollow DEF VforkInv
<1>2. Restored
  BY DEF VforkInv, OneStarts, Restored
<1>3. NothingLeft
  <2> SUFFICES ASSUME AllRest, NEW n \in Fds PROVE tab[n] = Closed <=> Table[n] = Closed
    BY DEF NothingLeft
  <2>1. \A t \in Starters : \A s \in Slots : Held(t, s) = NoFd
    BY DEF AllRest, VforkInv, Sound, Places, Placed, Held, NoBackup, Std, Slots
  <2>2. tab[n].file # "closed" <=> Table[n] # Closed
    BY <2>1, Standard DEF VforkInv, Sound, Opened
  <2>3. tab[n].file = "closed" => ~tab[n].cloexec
    BY DEF VforkInv, Sound, Opened
  <2>4. tab[n] \in [file : Files, cloexec : BOOLEAN]
    BY DEF VforkInv, Sound, Layout, Tables
  <2> QED BY <2>2, <2>3, <2>4, Entries
<1> QED BY <1>1, <1>2, <1>3 DEF VforkInv, DescriptorsAreKept

\* A child started by vfork has at 0, 1 and 2 what was asked for and nothing
\* it would not have had anyway, afterwards the program has its descriptors
\* again, and none is lost when threads start processes at once: for any
\* number of threads, any descriptor table and any redirections.
THEOREM DescriptorsStay == VforkSpec => []DescriptorsAreKept
<1>1. VforkInit => VforkInv
  BY VforkAssumption, VforkStarts
<1>2. VforkInv /\ [VforkNext]_vforkVars => VforkInv'
  BY VforkAssumption, VforkInvNext
<1>3. VforkInv => DescriptorsAreKept
  BY VforkAssumption, VforkInvMeans
<1> QED BY <1>1, <1>2, <1>3, PTL DEF VforkSpec

=============================================================================
