------------------------------- MODULE NamedPipe -------------------------------
(***************************************************************************)
(* The server side of a named pipe on POSIX: a socket bound to a path in   *)
(* the user's directory, a lock file next to it that tells a living server *)
(* from a path a dead one has left, and handles that share one server      *)
(* through a count of references.  Several processes create, copy, accept, *)
(* disconnect, close and unlink at one name, system calls fail, and        *)
(* processes die between any two system calls.                             *)
(*                                                                         *)
(* Every call that opens the lock file gets a serial number, which stands  *)
(* for its lock, its listening socket and its posix_named_pipe_server_-    *)
(* lifetime.                                                               *)
(***************************************************************************)
EXTENDS Naturals, FiniteSets

CONSTANTS
  Procs,
  PerProc,   \* handle variables in each process, used by a thread each
  MaxCalls,  \* bound: serial numbers
  MaxErrs,   \* bound: failing system calls
  MaxCrashes \* bound

ASSUME BoundsAssumption ==
  IsFiniteSet(Procs) /\ PerProc \in Nat /\ MaxCalls \in Nat /\ MaxErrs \in Nat /\ MaxCrashes \in Nat

Handles == Procs \X (1..PerProc)
Home(h) == h[1]
Calls == 1..MaxCalls

VARIABLES
  st,      \* where a handle's call is: "rest" between calls
  life,    \* server_lifetime: the server a handle belongs to, or 0
  fd,      \* a handle's own descriptor: "none", "listener" or "connection"
  old,     \* a call's locals: the server it creates, or lets go of
  oldfd,   \* and the descriptor it has still to close
  refs,    \* refs[n]: the counter in the lifetime of server n
  desc,    \* desc[n]: descriptors of its listening socket, of all owners
  bound,   \* servers that have bound their socket to the path
  heard,   \* servers that have called listen
  path,    \* the server whose socket the path leads to, or 0
  lock,    \* the call that has locked the lock file, or 0
  last,    \* history: serial numbers used
  dead,    \* history: calls of processes that died
  errs, crashes \* history: failures so far

handle == <<st, life, fd, old, oldfd>>
server == <<refs, desc, bound, heard>>
vars == <<handle, server, path, lock, last, dead, errs, crashes>>

Init ==
  /\ st = [h \in Handles |-> "rest"]
  /\ life = [h \in Handles |-> 0] /\ fd = [h \in Handles |-> "none"]
  /\ old = [h \in Handles |-> 0] /\ oldfd = [h \in Handles |-> "none"]
  /\ refs = [n \in Calls |-> 0] /\ desc = [n \in Calls |-> 0]
  /\ bound = {} /\ heard = {}
  /\ path = 0 /\ lock = 0
  /\ last = 0 /\ dead = {} /\ errs = 0 /\ crashes = 0

Goto(h, where) == st' = [st EXCEPT ![h] = where]

\* The descriptor a call has at hand is closed.
Closes(n, which) == desc' = IF which = "listener" THEN [desc EXCEPT ![n] = @ - 1] ELSE desc

-----------------------------------------------------------------------------
(***************************************************************************)
(* Creating a server.                                                      *)
(***************************************************************************)

\* posix_ipc_file_lock, nonblocking: while another call or a server has the
\* lock this one throws EADDRINUSE and has changed nothing.
TakeLock(h, next) ==
  /\ st[h] = "rest" /\ lock = 0 /\ last < MaxCalls
  /\ lock' = last + 1 /\ last' = last + 1
  /\ old' = [old EXCEPT ![h] = last + 1]
  /\ Goto(h, next)

Create(h) ==
  /\ life[h] = 0
  /\ TakeLock(h, "stale")
  /\ UNCHANGED <<life, fd, oldfd, server, path, dead, errs, crashes>>

\* posix_named_pipe_remove_stale_path
Stale(h) == path' = 0

RemoveStale(h) ==
  /\ st[h] = "stale"
  /\ Stale(h)
  /\ Goto(h, "bind")
  /\ UNCHANGED <<life, fd, old, oldfd, server, lock, last, dead, errs, crashes>>

\* socket and bind; a path that exists makes bind fail.
Bind(h) ==
  /\ st[h] = "bind"
  /\ desc' = [desc EXCEPT ![old[h]] = 1]
  /\ IF path = 0
     THEN /\ path' = old[h] /\ bound' = bound \cup {old[h]}
          /\ Goto(h, "listen")
     ELSE Goto(h, "undobind") /\ UNCHANGED <<path, bound>>
  /\ UNCHANGED <<life, fd, old, oldfd, refs, heard, lock, last, dead, errs, crashes>>

\* chmod and listen.
Listen(h) ==
  /\ st[h] = "listen"
  /\ heard' = heard \cup {old[h]}
  /\ Goto(h, "own")
  /\ UNCHANGED <<life, fd, old, oldfd, refs, desc, bound, path, lock, last, dead, errs, crashes>>

\* The duplicate for the handle, and the lifetime that takes over the rest.
Own(h) ==
  /\ st[h] = "own"
  /\ desc' = [desc EXCEPT ![old[h]] = @ + 1]
  /\ refs' = [refs EXCEPT ![old[h]] = 1]
  /\ life' = [life EXCEPT ![h] = old[h]]
  /\ fd' = [fd EXCEPT ![h] = "listener"]
  /\ old' = [old EXCEPT ![h] = 0]
  /\ Goto(h, "rest")
  /\ UNCHANGED <<oldfd, bound, heard, path, lock, last, dead, errs, crashes>>

\* A system call of the above throws: the guards' destructors run.
Fails(h) ==
  /\ st[h] \in {"stale", "bind", "listen", "own"}
  /\ Goto(h, IF st[h] \in {"stale", "bind"} THEN "unlock" ELSE "undopath")

CreateThrows(h) ==
  /\ Fails(h)
  /\ errs < MaxErrs /\ errs' = errs + 1
  /\ UNCHANGED <<life, fd, old, oldfd, server, path, lock, last, dead, crashes>>

\* ~posix_named_pipe_path_guard, then ~posix_file of the listener.
UndoPath(h) ==
  /\ st[h] = "undopath"
  /\ path' = 0
  /\ Goto(h, "undobind")
  /\ UNCHANGED <<life, fd, old, oldfd, server, lock, last, dead, errs, crashes>>

UndoBind(h) ==
  /\ st[h] = "undobind"
  /\ Closes(old[h], "listener")
  /\ Goto(h, "unlock")
  /\ UNCHANGED <<life, fd, old, oldfd, refs, bound, heard, path, lock, last, dead, errs, crashes>>

-----------------------------------------------------------------------------
(***************************************************************************)
(* Handles: copies, connections, and letting go.                           *)
(***************************************************************************)

\* posix_named_pipe_add_lifetime_reference
CountCopy(n) == refs' = [refs EXCEPT ![n] = @ + 1]

\* Copy construction of g from h, and copy assignment over a handle that
\* has a server, which is let go of once the new one is in place.  Both
\* throw before they change anything when dup fails.
Copy(h, g) ==
  /\ h # g /\ Home(h) = Home(g)
  /\ st[h] = "rest" /\ st[g] = "rest" /\ life[h] # 0
  /\ desc' = IF fd[h] = "listener" THEN [desc EXCEPT ![life[h]] = @ + 1] ELSE desc
  /\ CountCopy(life[h])
  /\ life' = [life EXCEPT ![g] = life[h]] /\ fd' = [fd EXCEPT ![g] = fd[h]]
  /\ old' = [old EXCEPT ![g] = life[g]] /\ oldfd' = [oldfd EXCEPT ![g] = fd[g]]
  /\ Goto(g, IF life[g] = 0 THEN "rest" ELSE "closefd")
  /\ UNCHANGED <<bound, heard, path, lock, last, dead, errs, crashes>>

\* wait_for_connect: the connection takes the place of the handle's
\* duplicate of the listener, or of an earlier connection.
WaitForConnect(h) ==
  /\ st[h] = "rest" /\ life[h] # 0
  /\ Closes(life[h], fd[h])
  /\ fd' = [fd EXCEPT ![h] = "connection"]
  /\ UNCHANGED <<st, life, old, oldfd, refs, bound, heard, path, lock, last, dead, errs, crashes>>

IsConnected(h) == fd[h] = "connection"

\* disconnect_server: back to a duplicate of the lifetime's listener.
Disconnect(h) ==
  /\ st[h] = "rest" /\ life[h] # 0 /\ IsConnected(h)
  /\ desc' = [desc EXCEPT ![life[h]] = @ + 1]
  /\ fd' = [fd EXCEPT ![h] = "listener"]
  /\ UNCHANGED <<st, life, old, oldfd, refs, bound, heard, path, lock, last, dead, errs, crashes>>

\* reset, close and the destructor: the handle is empty at once, what it had
\* is released step by step.
Close(h) ==
  /\ st[h] = "rest" /\ life[h] # 0
  /\ old' = [old EXCEPT ![h] = life[h]] /\ oldfd' = [oldfd EXCEPT ![h] = fd[h]]
  /\ life' = [life EXCEPT ![h] = 0] /\ fd' = [fd EXCEPT ![h] = "none"]
  /\ Goto(h, "closefd")
  /\ UNCHANGED <<server, path, lock, last, dead, errs, crashes>>

CloseFd(h) ==
  /\ st[h] = "closefd"
  /\ Closes(old[h], oldfd[h])
  /\ oldfd' = [oldfd EXCEPT ![h] = "none"]
  /\ Goto(h, "count")
  /\ UNCHANGED <<life, fd, old, refs, bound, heard, path, lock, last, dead, errs, crashes>>

LastRef(n) == refs[n] = 1

\* references.fetch_sub: the last one takes the server down.
CountDown(h) ==
  /\ st[h] = "count"
  /\ refs' = [refs EXCEPT ![old[h]] = @ - 1]
  /\ IF LastRef(old[h])
     THEN Goto(h, "shut") /\ UNCHANGED old
     ELSE Goto(h, "rest") /\ old' = [old EXCEPT ![h] = 0]
  /\ UNCHANGED <<life, fd, oldfd, desc, bound, heard, path, lock, last, dead, errs, crashes>>

\* Mutant: the lock file is let go of before the path is gone.
AfterShutLockFirst(h) == Goto(h, "remove") /\ lock' = 0

AfterShut(h) == Goto(h, "remove") /\ UNCHANGED lock

\* posix_named_pipe_release_lifetime: listener, path, lock, in this order.
Shut(h) ==
  /\ st[h] = "shut"
  /\ Closes(old[h], "listener")
  /\ AfterShut(h)
  /\ UNCHANGED <<life, fd, old, oldfd, refs, bound, heard, path, last, dead, errs, crashes>>

\* posix_unlink_named_pipe_ipc takes the lock like a server.
Unlink(h) ==
  /\ TakeLock(h, "remove")
  /\ UNCHANGED <<life, fd, oldfd, server, path, dead, errs, crashes>>

\* unlink takes away what is at the path, whoever has put it there.
Remove(h) ==
  /\ st[h] = "remove"
  /\ path' = 0
  /\ Goto(h, "unlock")
  /\ UNCHANGED <<life, fd, old, oldfd, server, lock, last, dead, errs, crashes>>

\* The descriptor of the lock file is closed.
Unlock(h) ==
  /\ st[h] = "unlock"
  /\ lock' = IF lock = old[h] THEN 0 ELSE lock
  /\ old' = [old EXCEPT ![h] = 0]
  /\ Goto(h, "rest")
  /\ UNCHANGED <<life, fd, oldfd, server, path, last, dead, errs, crashes>>

-----------------------------------------------------------------------------
\* The calls and servers of process p.
Of(p) == {n \in Calls : \E h \in Handles : Home(h) = p /\ n \in {old[h], life[h]}}

\* A process dies: the kernel closes its descriptors, and with them goes the
\* lock; the path stays.
Crash(p) ==
  /\ crashes < MaxCrashes /\ crashes' = crashes + 1
  /\ Of(p) # {}
  /\ st' = [h \in Handles |-> IF Home(h) = p THEN "rest" ELSE st[h]]
  /\ life' = [h \in Handles |-> IF Home(h) = p THEN 0 ELSE life[h]]
  /\ old' = [h \in Handles |-> IF Home(h) = p THEN 0 ELSE old[h]]
  /\ fd' = [h \in Handles |-> IF Home(h) = p THEN "none" ELSE fd[h]]
  /\ oldfd' = [h \in Handles |-> IF Home(h) = p THEN "none" ELSE oldfd[h]]
  /\ refs' = [n \in Calls |-> IF n \in Of(p) THEN 0 ELSE refs[n]]
  /\ desc' = [n \in Calls |-> IF n \in Of(p) THEN 0 ELSE desc[n]]
  /\ lock' = IF lock \in Of(p) THEN 0 ELSE lock
  /\ dead' = dead \cup Of(p)
  /\ UNCHANGED <<bound, heard, path, last, errs>>

Go(h) ==
  \/ RemoveStale(h) \/ Bind(h) \/ Listen(h) \/ Own(h) \/ UndoPath(h) \/ UndoBind(h)
  \/ CloseFd(h) \/ CountDown(h) \/ Shut(h) \/ Remove(h) \/ Unlock(h)

Next ==
  \/ \E h \in Handles :
       \/ Create(h) \/ CreateThrows(h) \/ WaitForConnect(h) \/ Disconnect(h)
       \/ Close(h) \/ Unlink(h) \/ Go(h)
       \/ \E g \in Handles : Copy(h, g)
  \/ \E p \in Procs : Crash(p)

Spec == Init /\ [][Next]_vars

-----------------------------------------------------------------------------
(***************************************************************************)
(* Correctness.                                                            *)
(***************************************************************************)

TypeOK ==
  /\ st \in [Handles -> {"rest", "stale", "bind", "listen", "own", "undopath",
                         "undobind", "closefd", "count", "shut", "remove", "unlock"}]
  /\ life \in [Handles -> 0..MaxCalls] /\ old \in [Handles -> 0..MaxCalls]
  /\ fd \in [Handles -> {"none", "listener", "connection"}]
  /\ oldfd \in [Handles -> {"none", "listener", "connection"}]
  /\ refs \in [Calls -> Nat] /\ desc \in [Calls -> Nat]
  /\ bound \subseteq Calls /\ heard \subseteq bound
  /\ path \in 0..MaxCalls /\ lock \in 0..MaxCalls /\ last \in 0..MaxCalls
  /\ dead \subseteq Calls /\ errs \in Nat /\ crashes \in Nat

\* A server that some handle belongs to keeps its name: whatever others
\* create, close, unlink or leave behind, the path leads to its socket and
\* the lock is its own.
LiveKeepsName ==
  \A h \in Handles : life[h] # 0 => path = life[h] /\ lock = life[h]

\* The handles of a server are its references, and its listening socket is
\* open as long as there are any; once they are gone nothing of it is left
\* open, and the lock is free for the next server.
Claims(n) == {h \in Handles : life[h] = n} \cup
             {h \in Handles : old[h] = n}
Counted ==
  \A n \in Calls :
    /\ refs[n] = Cardinality({h \in Handles : life[h] = n}) +
                 Cardinality({h \in Handles : old[h] = n /\ st[h] \in {"closefd", "count"}})
    /\ refs[n] > 0 => desc[n] > 0
    /\ Claims(n) = {} => desc[n] = 0 /\ lock # n

\* bind never meets a path: what a dead process has left is out of the way,
\* and nobody else can have put one there.
BindMeetsNoPath == \A h \in Handles : st[h] = "bind" => path = 0

\* A path that leads to no server is the work of a process that died; every
\* other way out of a server, exceptions included, takes its path along.
StaleOnlyByCrash == path # 0 /\ lock = 0 => path \in dead

\* A client can only get through to the server that has the lock.
ReachesTheHolder == path \in heard /\ path # 0 /\ desc[path] > 0 => lock = path

\* The name of a pipe leads to the one living server that holds it; no
\* handle is counted wrong, and what a crash leaves keeps nobody out.
NamesAreKept ==
  /\ TypeOK /\ LiveKeepsName /\ Counted
  /\ BindMeetsNoPath /\ StaleOnlyByCrash /\ ReachesTheHolder

=============================================================================
