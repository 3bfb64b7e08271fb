------------------------------ MODULE MCProcesses ------------------------------
(***************************************************************************)
(* Processes and the pipes between them, for TLC: servers at one named     *)
(* pipe, or threads that start processes by fork, or by vfork.  Which of   *)
(* these a behaviour is about never changes.                               *)
(***************************************************************************)
EXTENDS NamedPipe, Spawn, VforkSpawn

CONSTANTS t1, t2

VARIABLE about

allVars == <<about, vars, spawnVars, vforkVars>>

\* Two threads; one can be starting a second child while it has a first.  A
\* wait on an empty handle takes any child.
Taking == INSTANCE Spawn WITH MaxDeaths <- 0, WaitsOnEmpty <- TRUE

\* A program with a file at 3 and a pipe at 4 and 5.
FirstFiles == <<"in", "out", "err", "user", "reads", "writes">>
Descriptors == [n \in 0..Top |->
  IF n > 5 THEN [file |-> "closed", cloexec |-> FALSE]
           ELSE [file |-> FirstFiles[n + 1], cloexec |-> n \in {4, 5}]]

Redirections ==
  {[kind |-> "none"], [kind |-> "null"], [kind |-> "pipe", in |-> 4, out |-> 5]}
    \cup {[kind |-> "fd", fd |-> n] : n \in 0..3}

Everything == [0..2 -> Redirections]

\* Output to a pipe; or to nowhere, with errors to a file.
Two ==
  LET only(out, err) == [k \in 0..2 |-> CASE k = 0 -> [kind |-> "none"] [] k = 1 -> out [] k = 2 -> err]
      pipe == [kind |-> "pipe", in |-> 4, out |-> 5]
  IN {only(pipe, [kind |-> "none"]), only([kind |-> "null"], [kind |-> "fd", fd |-> 3])}

\* One thread, and every redirection.
Alone == VforkNext /\ spawns' <= 1 /\ step'[t2] = "rest"

\* Two threads at once.
Overlap == VforkNext /\ {io'[t] : t \in {u \in Starters : step'[u] # "rest"}} \subseteq Two

ASSUME SpawnAssumption /\ Taking!SpawnAssumption

AllInit ==
  /\ Init /\ VforkInit
  /\ \/ about \in {"pipe", "spawn", "vfork", "overlap"} /\ SpawnInit
     \/ about = "taking" /\ Taking!SpawnInit

AllNext ==
  /\ UNCHANGED about
  /\ \/ about = "pipe" /\ Next /\ UNCHANGED <<spawnVars, vforkVars>>
     \/ /\ \/ about = "spawn" /\ SpawnNext
           \/ about = "taking" /\ Taking!SpawnNext
        /\ UNCHANGED <<vars, vforkVars>>
     \/ /\ \/ about = "vfork" /\ Alone
           \/ about = "overlap" /\ Overlap
        /\ UNCHANGED <<vars, spawnVars>>

\* The fairness of Spawn, for the behaviours that are about it.
AllSpec ==
  /\ AllInit /\ [][AllNext]_allVars
  /\ \A t \in Threads :
       /\ WF_allVars(about = "spawn" /\ CloseOut(t) /\ AllNext)
       /\ WF_allVars(about = "spawn" /\ ReadError(t) /\ AllNext)
       /\ WF_allVars(about = "spawn" /\ ReadEnd(t) /\ AllNext)
       /\ WF_allVars(about = "spawn" /\ ReapFailed(t) /\ AllNext)
  /\ \A c \in Pids : WF_allVars(about = "spawn" /\ StartsUp(c) /\ AllNext)

-----------------------------------------------------------------------------
\* Every constructor ends, though the programs started meanwhile never do.
ConstructorEnds == about = "spawn" => EveryStartEnds

=============================================================================
