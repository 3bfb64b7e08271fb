------------------------------- MODULE VforkSpawn -------------------------------
(***************************************************************************)
(* Starting a POSIX process by vfork.  The child must not change memory,   *)
(* so the parent itself puts the descriptors asked for at 0, 1 and 2,      *)
(* starts the child, and puts its own ones back, while its other threads   *)
(* run on with the same descriptor table.                                  *)
(***************************************************************************)
EXTENDS Integers, FiniteSets, FiniteSetsExt

CONSTANTS
  Starters,  \* threads
  Jobs,      \* the posix_process_io a thread may ask for
  Table,     \* descriptors of the program at first: number -> [file, cloexec]
  Top,       \* bound: the last descriptor number, its limit
  MaxSpawns  \* bound: processes started

Std == 0..2
Fds == 0..Top
NoFd == -1
Closed == [file |-> "closed", cloexec |-> FALSE]
Nowhere == [k \in Fds |-> Closed]
\* What a descriptor can lead to.
Files == {"closed", "null"} \cup {Table[n].file : n \in Fds}
Tables == [Fds -> [file : Files, cloexec : BOOLEAN]]
\* A redirection: nothing, a descriptor, both ends of a pipe, or /dev/null.
Sources ==
  [kind : {"none", "null"}] \cup [kind : {"fd"}, fd : Fds] \cup [kind : {"pipe"}, in : Fds, out : Fds]

\* The descriptors a redirection names.
Names(source) ==
  CASE source.kind = "fd" -> {source.fd}
    [] source.kind = "pipe" -> {source.in, source.out}
    [] source.kind \in {"none", "null"} -> {}

\* The program has 0, 1 and 2 for its children too, and what a job names is
\* open; a pipe was made beside 0, 1 and 2.
ASSUME VforkAssumption ==
  /\ Top \in Nat /\ MaxSpawns \in Nat /\ Std \subseteq Fds
  /\ Table \in Tables
  /\ \A n \in Fds : Table[n].file = "closed" => Table[n] = Closed
  /\ \A k \in Std : Table[k] # Closed /\ ~Table[k].cloexec
  /\ Jobs \subseteq [Std -> Sources]
  /\ \A job \in Jobs : \A k \in Std : \A n \in Names(job[k]) :
       Table[n] # Closed /\ (job[k].kind = "pipe" => n \notin Std)

VARIABLES
  tab,     \* the descriptor table of the program
  step,    \* where a thread is
  at,      \* and at which of 0, 1, 2
  io,      \* what it asks for
  backup,  \* fd_remapper: the duplicate of 0, 1 and 2
  flag,    \* the flag of a redirected descriptor, before
  null,    \* its /dev/null
  child,   \* history: the table of the child it started, after the exec
  before,  \* history: the table when it began
  mixed,   \* history: two threads have been starting processes at once
  terminated,  \* by an exception in a destructor
  spawns

vforkVars == <<tab, step, at, io, backup, flag, null, child, before, mixed, terminated, spawns>>
same == <<child, before, mixed, terminated, spawns>>

NoJob == [k \in Std |-> [kind |-> "none"]]
NoBackup == [k \in Std |-> NoFd]

VforkInit ==
  /\ tab = Table
  /\ step = [t \in Starters |-> "rest"] /\ at = [t \in Starters |-> 0]
  /\ io = [t \in Starters |-> NoJob]
  /\ backup = [t \in Starters |-> NoBackup]
  /\ flag = [t \in Starters |-> [k \in Std |-> FALSE]]
  /\ null = [t \in Starters |-> NoFd]
  /\ child = [t \in Starters |-> Nowhere] /\ before = [t \in Starters |-> Table]
  /\ mixed = FALSE /\ terminated = FALSE /\ spawns = 0

StepsTo(t, where) == step' = [step EXCEPT ![t] = where]

\* The targets from k on that are redirected.
Targets(t, k) == {j \in Std : j >= k /\ io[t][j].kind # "none"}

Free == {n \in Fds : tab[n] = Closed}

\* dup2 clears the close-on-exec flag, except from a descriptor to itself.
Dup2(table, from, to) ==
  IF from = to THEN table ELSE [table EXCEPT ![to] = [file |-> table[from].file, cloexec |-> FALSE]]

\* The descriptor a redirection leads from.
From(t, k) ==
  CASE io[t][k].kind = "fd" -> io[t][k].fd
    [] io[t][k].kind = "pipe" -> IF k = 0 THEN io[t][k].in ELSE io[t][k].out
    [] io[t][k].kind = "null" -> null[t]

-----------------------------------------------------------------------------
Begin(t) ==
  /\ step[t] = "rest" /\ spawns < MaxSpawns
  /\ \E job \in Jobs :
       /\ io' = [io EXCEPT ![t] = job]
       /\ StepsTo(t, IF job = NoJob THEN "vfork" ELSE "dup")
       /\ at' = [at EXCEPT ![t] = IF job = NoJob THEN 0 ELSE Min({k \in Std : job[k].kind # "none"})]
  /\ backup' = [backup EXCEPT ![t] = NoBackup]
  /\ null' = [null EXCEPT ![t] = NoFd]
  /\ before' = [before EXCEPT ![t] = tab]
  /\ child' = [child EXCEPT ![t] = Nowhere]
  /\ mixed' = (mixed \/ \E u \in Starters : step[u] # "rest")
  /\ spawns' = spawns + 1
  /\ UNCHANGED <<tab, flag, terminated>>

\* map: the duplicate takes the lowest free number.
Dup(t) ==
  /\ step[t] = "dup" /\ Free # {}
  /\ tab' = [tab EXCEPT ![Min(Free)] = [file |-> tab[at[t]].file, cloexec |-> FALSE]]
  /\ backup' = [backup EXCEPT ![t][at[t]] = Min(Free)]
  /\ StepsTo(t, "protect")
  /\ UNCHANGED <<at, io, flag, null, same>>

\* At the limit dup throws, and the entry, which has its original but no
\* backup, calls a throwing dup2 in its destructor; a failing open of
\* /dev/null terminates by itself.
AtLimit(t) ==
  /\ \/ step[t] = "dup"
     \/ step[t] = "map" /\ io[t][at[t]].kind = "null" /\ null[t] = NoFd
  /\ Free = {}
  /\ terminated' = TRUE
  /\ UNCHANGED <<tab, step, at, io, backup, flag, null, child, before, mixed, spawns>>

\* fcntl(backup, F_SETFD, FD_CLOEXEC), a system call of its own.
Protected(t) == tab' = [tab EXCEPT ![backup[t][at[t]]].cloexec = TRUE]

Protect(t) ==
  /\ step[t] = "protect"
  /\ Protected(t)
  /\ StepsTo(t, "map")
  /\ UNCHANGED <<at, io, backup, flag, null, same>>

\* devnull: opened once for all the targets.
OpenNull(t) ==
  /\ step[t] = "map" /\ io[t][at[t]].kind = "null" /\ null[t] = NoFd /\ Free # {}
  /\ null' = [null EXCEPT ![t] = Min(Free)]
  /\ tab' = [tab EXCEPT ![Min(Free)] = [file |-> "null", cloexec |-> TRUE]]
  /\ UNCHANGED <<step, at, io, backup, flag, same>>

\* A redirected descriptor is closed in the child but for its new place.
SetFlag(t) ==
  /\ step[t] = "map" /\ io[t][at[t]].kind = "fd"
  /\ flag' = [flag EXCEPT ![t][at[t]] = tab[From(t, at[t])].cloexec]
  /\ tab' = [tab EXCEPT ![From(t, at[t])].cloexec = TRUE]
  /\ StepsTo(t, "dup2")
  /\ UNCHANGED <<at, io, backup, null, same>>

MapFrom(t, k) == From(t, k)

Map(t) ==
  /\ \/ step[t] = "dup2"
     \/ step[t] = "map" /\ io[t][at[t]].kind # "fd" /\ From(t, at[t]) # NoFd
  /\ tab' = Dup2(tab, MapFrom(t, at[t]), at[t])
  /\ IF Targets(t, at[t] + 1) = {}
     THEN StepsTo(t, "vfork") /\ UNCHANGED at
     ELSE StepsTo(t, "dup") /\ at' = [at EXCEPT ![t] = Min(Targets(t, at[t] + 1))]
  /\ UNCHANGED <<io, backup, flag, null, same>>

\* vfork and execveat: the child has what is open and not close-on-exec.
VforkExec(t) ==
  /\ step[t] = "vfork"
  /\ child' = [child EXCEPT ![t] = [n \in Fds |-> IF tab[n].cloexec THEN Closed ELSE tab[n]]]
  /\ StepsTo(t, "unmap")
  /\ UNCHANGED <<tab, at, io, backup, flag, null, before, mixed, terminated, spawns>>

\* vfork throws, or the child ends with an error number in t_errno.
VforkFails(t) ==
  /\ step[t] = "vfork"
  /\ StepsTo(t, "unmap")
  /\ UNCHANGED <<tab, at, io, backup, flag, null, same>>

CloseNull(t) == tab' = IF null[t] = NoFd THEN tab ELSE [tab EXCEPT ![null[t]] = Closed]

\* The targets that are not put back yet.
Mapped(t) == {k \in Std : backup[t][k] # NoFd}

\* Mutant: the entries are destroyed in the order they were made.
FirstFirst(targets) == Min(targets)

LastFirst(targets) == Max(targets)

\* ~fd_remapper, then its entries from the last one.
Unmap(t) ==
  /\ step[t] = "unmap"
  /\ CloseNull(t)
  /\ IF Mapped(t) = {}
     THEN StepsTo(t, "rest") /\ UNCHANGED at
     ELSE StepsTo(t, "restore") /\ at' = [at EXCEPT ![t] = LastFirst(Mapped(t))]
  /\ UNCHANGED <<io, backup, flag, null, same>>

Restore(t) ==
  /\ step[t] = "restore"
  /\ tab' = [Dup2(tab, backup[t][at[t]], at[t]) EXCEPT ![backup[t][at[t]]] = Closed]
  /\ StepsTo(t, "setfd")
  /\ UNCHANGED <<at, io, backup, flag, null, same>>

SetFlagBack(t) ==
  /\ step[t] = "setfd"
  /\ tab' = IF io[t][at[t]].kind = "fd"
            THEN [tab EXCEPT ![From(t, at[t])].cloexec = flag[t][at[t]]]
            ELSE tab
  /\ backup' = [backup EXCEPT ![t][at[t]] = NoFd]
  /\ IF Mapped(t) = {at[t]}
     THEN StepsTo(t, "rest") /\ UNCHANGED at
     ELSE StepsTo(t, "restore") /\ at' = [at EXCEPT ![t] = LastFirst(Mapped(t) \ {at[t]})]
  /\ UNCHANGED <<io, flag, null, same>>

Spawns(t) ==
  \/ Begin(t) \/ Dup(t) \/ AtLimit(t) \/ Protect(t) \/ OpenNull(t) \/ SetFlag(t) \/ Map(t)
  \/ VforkExec(t) \/ VforkFails(t) \/ Unmap(t) \/ Restore(t) \/ SetFlagBack(t)

VforkNext == ~terminated /\ \E t \in Starters : Spawns(t)

VforkSpec == VforkInit /\ [][VforkNext]_vforkVars

-----------------------------------------------------------------------------
(***************************************************************************)
(* Properties.                                                             *)
(***************************************************************************)

\* The parts have their types, and a duplicate or a /dev/null that a thread
\* still needs is open.
VforkTypeOK ==
  /\ tab \in Tables /\ child \in [Starters -> Tables] /\ before \in [Starters -> Tables]
  /\ step \in [Starters -> {"rest", "dup", "protect", "map", "dup2", "vfork", "unmap", "restore", "setfd"}]
  /\ at \in [Starters -> Std] /\ io \in [Starters -> [Std -> Sources]]
  /\ backup \in [Starters -> [Std -> {NoFd} \cup Fds]]
  /\ flag \in [Starters -> [Std -> BOOLEAN]]
  /\ null \in [Starters -> {NoFd} \cup Fds]
  /\ mixed \in BOOLEAN /\ terminated \in BOOLEAN /\ spawns \in 0..MaxSpawns
  /\ \A t \in Starters :
       /\ step[t] \in {"protect", "map", "dup2", "restore"} => backup[t][at[t]] \in Fds \ Std
       /\ step[t] \notin {"rest", "restore", "setfd"} /\ null[t] # NoFd => tab[null[t]].file = "null"

\* What a redirection asks for.
Asked(t, k) ==
  CASE io[t][k].kind = "none" -> before[t][k].file
    [] io[t][k].kind = "null" -> "null"
    [] io[t][k].kind = "fd"   -> before[t][io[t][k].fd].file
    [] io[t][k].kind = "pipe" -> before[t][IF k = 0 THEN io[t][k].in ELSE io[t][k].out].file

\* A source that is 0, 1 or 2 itself gets the flag, and may have been
\* exchanged by then: the child can lose it.
FromStd(t) == \E k \in Std : io[t][k].kind = "fd" /\ io[t][k].fd \in Std

Started(t) == child[t] # Nowhere /\ ~mixed

\* Unless a source is a standard descriptor itself, the child has at 0, 1
\* and 2 what was asked for, whichever of them are redirected and wherever
\* they share a source.
ChildHasAsked ==
  \A t \in Starters : Started(t) /\ ~FromStd(t) =>
    \A k \in Std : child[t][k].file = Asked(t, k)

\* Of the rest the child has only what it would have had anyway: no
\* duplicate, no /dev/null, no second copy of what it was given.
ChildHasNoMore ==
  \A t \in Starters : Started(t) =>
    \A n \in Fds \ Std : child[t][n] # Closed =>
      /\ before[t][n] = child[t][n]
      /\ \A k \in Std : io[t][k].kind = "fd" => io[t][k].fd # n

AllRest == \A t \in Starters : step[t] = "rest"

\* Afterwards the program has all its descriptors again, flags included,
\* also when the start failed.
Restored == AllRest /\ ~mixed => tab = Table

\* And even when threads start processes at once no descriptor is left open
\* or lost.
NothingLeft == AllRest => {n \in Fds : tab[n] = Closed} = {n \in Fds : Table[n] = Closed}

\* A child started by vfork has at 0, 1 and 2 what was asked for and nothing
\* it would not have had anyway; afterwards the program has its descriptors
\* again, and none is lost when threads start processes at once.
DescriptorsAreKept == VforkTypeOK /\ ChildHasAsked /\ ChildHasNoMore /\ Restored /\ NothingLeft

=============================================================================
