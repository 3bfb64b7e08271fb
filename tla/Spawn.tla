--------------------------------- MODULE Spawn ---------------------------------
(***************************************************************************)
(* Starting a POSIX process by fork, and the life of its handle.  The      *)
(* threads of one program start children at the same time.  A child tells  *)
(* a failure before its exec through an error pipe, whose ends are closed  *)
(* by the exec; but a child forked meanwhile by another thread has a copy  *)
(* of the writing end too, until its own exec.  Children die before their  *)
(* exec, waits are interrupted, and process numbers are used again.        *)
(***************************************************************************)
EXTENDS Naturals, FiniteSets

CONSTANTS
  Threads,      \* each has one posix_process variable
  Pids,         \* process numbers
  NoPid,        \* the -1 of an empty posix_process
  MaxFails,      \* bound: interrupted calls and failed forks
  MaxDeaths,    \* bound: children killed before their exec
  WaitsOnEmpty  \* whether wait may be called on an empty handle

SpawnAssumption ==
  /\ Threads # {} /\ NoPid \notin Pids
  /\ MaxFails \in Nat /\ MaxDeaths \in Nat /\ WaitsOnEmpty \in BOOLEAN

VARIABLES
  pc,     \* where a thread is; "rest" between calls
  pid,    \* posix_process_observer::pid of its variable
  kid,    \* the child its constructor is starting
  open,   \* it has the writing end of its error pipe open
  sent,   \* its error pipe holds an error number
  state,  \* a child: "free", "setup", "failing", "program", "zombie"
  by,     \* the thread that forked it
  hold,   \* the threads of whose error pipes it has the writing end
  fate,   \* history: whether it reached its program: "no", "ran", "killed"
  left,   \* history: children let go of by detach or by an exception
  took,   \* history: a wait on an empty handle has reaped a child
  fails, deaths \* history

children == <<state, by, hold, fate>>
spawnVars == <<pc, pid, kid, open, sent, children, left, took, fails, deaths>>

SpawnInit ==
  /\ pc = [t \in Threads |-> "rest"]
  /\ pid = [t \in Threads |-> NoPid] /\ kid = [t \in Threads |-> NoPid]
  /\ open = [t \in Threads |-> FALSE] /\ sent = [t \in Threads |-> FALSE]
  /\ state = [c \in Pids |-> "free"] /\ by = [c \in Pids |-> CHOOSE t \in Threads : TRUE]
  /\ hold = [c \in Pids |-> {}] /\ fate = [c \in Pids |-> "no"]
  /\ left = {} /\ took = FALSE /\ fails = 0 /\ deaths = 0

GoesTo(t, where) == pc' = [pc EXCEPT ![t] = where]

\* A wait for child c has an answer.
Ended(c) == state[c] \in {"zombie", "free"}

\* wait4: the number of the child may be used again.
Reap(c) == state' = [state EXCEPT ![c] = "free"]

\* A system call that blocks is interrupted by a signal.
Interrupt == fails < MaxFails /\ fails' = fails + 1

-----------------------------------------------------------------------------
(***************************************************************************)
(* The constructor.                                                        *)
(***************************************************************************)

SentNothing(t) == sent' = [sent EXCEPT ![t] = FALSE]

OpenPipe(t) ==
  /\ pc[t] = "rest"
  /\ open' = [open EXCEPT ![t] = TRUE]
  /\ SentNothing(t)
  /\ hold' = [c \in Pids |-> hold[c] \ {t}]  \* copies left of an earlier pipe
  /\ GoesTo(t, "fork")
  /\ UNCHANGED <<pid, kid, state, by, fate, left, fails, deaths, took>>

\* The child has every descriptor that is open in the program.
Fork(t) ==
  /\ pc[t] = "fork"
  /\ \E c \in Pids :
       /\ state[c] = "free"
       /\ state' = [state EXCEPT ![c] = "setup"]
       /\ by' = [by EXCEPT ![c] = t]
       /\ hold' = [hold EXCEPT ![c] = {u \in Threads : open[u]}]
       /\ fate' = [fate EXCEPT ![c] = "no"]
       /\ left' = left \ {c}
       /\ kid' = [kid EXCEPT ![t] = c]
  /\ GoesTo(t, "close")
  /\ UNCHANGED <<pid, open, sent, fails, deaths, took>>

ForkThrows(t) ==
  /\ pc[t] = "fork"
  /\ Interrupt
  /\ open' = [open EXCEPT ![t] = FALSE]
  /\ GoesTo(t, "rest")
  /\ UNCHANGED <<pid, kid, sent, children, left, deaths, took>>

OutClosed(t) == open' = [open EXCEPT ![t] = FALSE]

CloseOut(t) ==
  /\ pc[t] = "close"
  /\ OutClosed(t)
  /\ GoesTo(t, "read")
  /\ UNCHANGED <<pid, kid, sent, children, left, fails, deaths, took>>

Thrown(t) == pc' = [pc EXCEPT ![t] = "reap"]

\* read_some on the error pipe: the error number, or the end of the data
\* once nobody has the writing end open.
ReadError(t) ==
  /\ pc[t] = "read" /\ sent[t]
  /\ Thrown(t)
  /\ UNCHANGED <<pid, kid, open, sent, children, left, fails, deaths, took>>

ReadEnd(t) ==
  /\ pc[t] = "read" /\ ~sent[t]
  /\ ~open[t] /\ \A c \in Pids : t \notin hold[c]
  /\ GoesTo(t, "built")
  /\ UNCHANGED <<pid, kid, open, sent, children, left, fails, deaths, took>>

\* The exception leaves the child to itself.
ReadThrows(t) ==
  /\ pc[t] = "read"
  /\ Interrupt
  /\ left' = left \cup {kid[t]}
  /\ kid' = [kid EXCEPT ![t] = NoPid]
  /\ GoesTo(t, "rest")
  /\ UNCHANGED <<pid, open, sent, children, deaths, took>>

\* posix_waitpid_noexcept, then the child's error is thrown.
ReapFailed(t) ==
  /\ pc[t] = "reap"
  /\ \/ Ended(kid[t]) /\ Reap(kid[t]) /\ UNCHANGED <<left, fails>>
     \/ Interrupt /\ left' = left \cup {kid[t]} /\ UNCHANGED state
  /\ kid' = [kid EXCEPT ![t] = NoPid]
  /\ GoesTo(t, "rest")
  /\ UNCHANGED <<pid, open, sent, by, hold, fate, deaths, took>>

-----------------------------------------------------------------------------
(***************************************************************************)
(* The child until it becomes the program, and after.                      *)
(***************************************************************************)

\* Mutant: the error pipe is inherited by the program.
KeepPipes(c) == hold' = hold

ClosePipes(c) == hold' = [hold EXCEPT ![c] = {}]

Exec(c) ==
  /\ state[c] = "setup"
  /\ state' = [state EXCEPT ![c] = "program"]
  /\ fate' = [fate EXCEPT ![c] = "ran"]
  /\ ClosePipes(c)
  /\ UNCHANGED <<pc, pid, kid, open, sent, by, left, fails, deaths, took>>

\* What follows a failed redirection or exec.
NextOfFailed == "failing"

\* A redirection or the exec itself returns an error.
ExecFails(c) ==
  /\ state[c] = "setup"
  /\ state' = [state EXCEPT ![c] = NextOfFailed]
  /\ hold' = IF NextOfFailed = "zombie" THEN [hold EXCEPT ![c] = {}] ELSE hold
  /\ UNCHANGED <<pc, pid, kid, open, sent, by, fate, left, fails, deaths, took>>

\* write_all and close of the error pipe, and exit with 127.  Without a
\* reader the write kills the child.
Report(c) ==
  /\ state[c] = "failing"
  /\ sent' = IF by[c] \in hold[c] THEN [sent EXCEPT ![by[c]] = TRUE] ELSE sent
  /\ state' = [state EXCEPT ![c] = "zombie"]
  /\ hold' = [hold EXCEPT ![c] = {}]
  /\ UNCHANGED <<pc, pid, kid, open, by, fate, left, fails, deaths, took>>

\* A signal, or the terminate of a throwing devnull() in a noexcept function.
Dies(c) ==
  /\ state[c] \in {"setup", "failing"} /\ deaths < MaxDeaths
  /\ deaths' = deaths + 1
  /\ state' = [state EXCEPT ![c] = "zombie"]
  /\ fate' = [fate EXCEPT ![c] = "killed"]
  /\ hold' = [hold EXCEPT ![c] = {}]
  /\ UNCHANGED <<pc, pid, kid, open, sent, by, left, fails, took>>

ProgramEnds(c) ==
  /\ state[c] = "program"
  /\ state' = [state EXCEPT ![c] = "zombie"]
  /\ UNCHANGED <<pc, pid, kid, open, sent, by, hold, fate, left, fails, deaths, took>>

-----------------------------------------------------------------------------
(***************************************************************************)
(* The handle.                                                             *)
(***************************************************************************)

\* posix_waitpid_noexcept, in the move assignment and in the destructor.
AssignWaits(t) ==
  \/ pid[t] = NoPid /\ UNCHANGED <<state, left, fails>>
  \/ pid[t] # NoPid /\ Ended(pid[t]) /\ Reap(pid[t]) /\ UNCHANGED <<left, fails>>
  \/ pid[t] # NoPid /\ Interrupt /\ left' = left \cup {pid[t]} /\ UNCHANGED state

\* The new process is moved into the variable.
MoveAssign(t) ==
  /\ pc[t] = "built"
  /\ AssignWaits(t)
  /\ pid' = [pid EXCEPT ![t] = kid[t]]
  /\ kid' = [kid EXCEPT ![t] = NoPid]
  /\ GoesTo(t, "rest")
  /\ UNCHANGED <<open, sent, by, hold, fate, deaths, took>>

Destroy(t) ==
  /\ pc[t] = "rest"
  /\ AssignWaits(t)
  /\ pid' = [pid EXCEPT ![t] = NoPid]
  /\ GoesTo(t, "gone")
  /\ UNCHANGED <<kid, open, sent, by, hold, fate, deaths, took>>

\* Mutant: the handle keeps its number.
KeepPid(t) == pid' = pid

ClearPid(t) == pid' = [pid EXCEPT ![t] = NoPid]

\* wait; an interrupted one throws and changes nothing.
Wait(t) ==
  /\ pc[t] = "rest" /\ pid[t] # NoPid
  /\ state[pid[t]] = "zombie"
  /\ Reap(pid[t])
  /\ ClearPid(t)
  /\ UNCHANGED <<pc, kid, open, sent, by, hold, fate, left, fails, deaths, took>>

\* wait on an empty handle is wait4(-1): it takes any child.
WaitEmpty(t) ==
  /\ WaitsOnEmpty
  /\ pc[t] = "rest" /\ pid[t] = NoPid
  /\ \E c \in Pids : state[c] = "zombie" /\ Reap(c)
  /\ took' = TRUE
  /\ UNCHANGED <<pc, pid, kid, open, sent, by, hold, fate, left, fails, deaths>>

Detach(t) ==
  /\ pc[t] = "rest" /\ pid[t] # NoPid
  /\ left' = left \cup {pid[t]}
  /\ pid' = [pid EXCEPT ![t] = NoPid]
  /\ UNCHANGED <<pc, kid, open, sent, children, fails, deaths, took>>

Builds(t) ==
  OpenPipe(t) \/ Fork(t) \/ ForkThrows(t) \/ CloseOut(t)
    \/ ReadError(t) \/ ReadEnd(t) \/ ReadThrows(t) \/ ReapFailed(t)

Uses(t) == MoveAssign(t) \/ Destroy(t) \/ Wait(t) \/ WaitEmpty(t) \/ Detach(t)

StartsUp(c) == Exec(c) \/ ExecFails(c) \/ Report(c)

SpawnNext ==
  \/ \E t \in Threads : Builds(t) \/ Uses(t)
  \/ \E c \in Pids : StartsUp(c) \/ Dies(c) \/ ProgramEnds(c)

\* Threads run on, and a child gets to its exec or its exit; a program need
\* never end.
Fairness ==
  /\ \A t \in Threads : WF_spawnVars(CloseOut(t)) /\ WF_spawnVars(ReadError(t))
                          /\ WF_spawnVars(ReadEnd(t)) /\ WF_spawnVars(ReapFailed(t))
  /\ \A c \in Pids : WF_spawnVars(StartsUp(c))

SpawnSpec == SpawnInit /\ [][SpawnNext]_spawnVars /\ Fairness

-----------------------------------------------------------------------------
(***************************************************************************)
(* Properties.                                                             *)
(***************************************************************************)

\* The parts have their types; a number that is free has nothing open; and a
\* thread that reads its error pipe has a child and no writing end.
SpawnTypeOK ==
  /\ pc \in [Threads -> {"rest", "fork", "close", "read", "reap", "built", "gone"}]
  /\ pid \in [Threads -> Pids \cup {NoPid}] /\ kid \in [Threads -> Pids \cup {NoPid}]
  /\ open \in [Threads -> BOOLEAN] /\ sent \in [Threads -> BOOLEAN]
  /\ state \in [Pids -> {"free", "setup", "failing", "program", "zombie"}]
  /\ by \in [Pids -> Threads] /\ hold \in [Pids -> SUBSET Threads]
  /\ fate \in [Pids -> {"no", "ran", "killed"}]
  /\ left \subseteq Pids /\ took \in BOOLEAN /\ fails \in 0..MaxFails /\ deaths \in 0..MaxDeaths
  /\ \A c \in Pids : state[c] \in {"free", "program", "zombie"} => hold[c] = {}
  /\ \A t \in Threads : open[t] <=> pc[t] \in {"fork", "close"}
  /\ \A t \in Threads : kid[t] # NoPid <=> pc[t] \in {"close", "read", "reap", "built"}

\* A process that is at hand after construction has reached its program, or
\* was killed on the way: no failure of a redirection or of the exec is
\* taken for a success, whoever else has copies of the pipe.
BuiltHasRun == \A t \in Threads : pc[t] = "built" => fate[kid[t]] # "no"

\* An error is thrown only for a child that has not become its program: no
\* message of an earlier child is taken for this one's.
ThrownHasNotRun == \A t \in Threads : pc[t] = "reap" => fate[kid[t]] # "ran"

\* The number in a handle is that of a child nobody has waited for, and no
\* other handle has it: a wait or a destructor never takes a stranger that
\* was given the same number.
HandleOwnsChild ==
  \A t \in Threads : pid[t] # NoPid =>
    /\ state[pid[t]] # "free"
    /\ pid[t] \notin left
    /\ \A u \in Threads : kid[u] # pid[t] /\ (u # t => pid[u] # pid[t])

\* Every child that is not reaped is somebody's, except after a detach or an
\* interrupted call: none stays a zombie.
NoStray ==
  \A c \in Pids : state[c] # "free" =>
    c \in left \/ \E t \in Threads : c \in {pid[t], kid[t]}

\* A process at hand after construction has reached its program, or was
\* killed on the way; an error is thrown only for one that has not; the
\* number in a handle is that of a child nobody has waited for, until an
\* empty handle is waited on; and no child stays a zombie unknown to all.
ChildrenAreKnown ==
  /\ SpawnTypeOK /\ NoStray
  /\ ~took => BuiltHasRun /\ ThrownHasNotRun /\ HandleOwnsChild

\* Every constructor ends, though the programs started meanwhile never do.
EveryStartEnds ==
  \A t \in Threads : pc[t] = "close" ~> pc[t] \in {"built", "rest"}

=============================================================================
