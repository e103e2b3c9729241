----------------------------- MODULE WorkerPool -----------------------------
(***************************************************************************)
(* The start-up of tiny_proxy and the dispatch of its connections.         *)
(*                                                                         *)
(* main() creates CONNFD_POOL_SIZE worker threads, hands each one its      *)
(* index through one stack variable, then accepts connections for ever and *)
(* adds each of them to the epoll instance of the next worker, round       *)
(* robin.  connfd_handler() copies its index, releases connfd_mutex,       *)
(* creates its epoll instance, publishes it in epoll_list and serves it.   *)
(*                                                                         *)
(* Main takes connfd_mutex before it creates a thread and that THREAD      *)
(* releases it: the mutex is a baton, not a critical section.  It protects *)
(* the stack slot of j, which the build gives to clientlen once the loop   *)
(* is over: accept() then overwrites it with the length of a peer address. *)
(***************************************************************************)
EXTENDS Integers, FiniteSets

CONSTANTS
  CONNFD_POOL_SIZE,   \* number of worker threads
  Conns,              \* the client connections that will arrive
  AddrLens,           \* the values accept() leaves in clientlen
  Failures            \* may pthread_create, epoll_create, ... fail?

ASSUME PoolSizeAssumption == CONNFD_POOL_SIZE \in Nat \ {0}
ASSUME AddrLensAssumption == AddrLens \subseteq Int /\ AddrLens # {}
ASSUME ConnsAssumption == IsFiniteSet(Conns)
ASSUME FailuresAssumption == Failures \in BOOLEAN

Threads == 0 .. CONNFD_POOL_SIZE - 1

\* Descriptors of the workers' epoll instances: 0 is the initial value of
\* the global array, -1 the result of a failed epoll_create().
EpollFd(t) == t + 1
EpollFds   == {EpollFd(t) : t \in Threads}

VARIABLES
  main,           \* where main() is
  i,              \* main's loop counter
  j,              \* the stack slot main hands to the threads (later clientlen)
  connfd_mutex,   \* 1 while locked
  thread,         \* where each worker is
  index,          \* each worker's own copy of its index ("int i")
  epoll_list,     \* the instances the workers have published
  round_robin,    \* the worker that gets the next connection
  conn,           \* each connection: new, backlog, accepted or added
  home,           \* the epoll instance a connection was added to (0: none)
  proc            \* running, or how the process has ended

poolVars == <<main, i, j, connfd_mutex, thread, index, epoll_list,
              round_robin, conn, home, proc>>

MainStates   == {"lock", "create", "wait", "enter", "accept", "assert", "add"}
ThreadStates == {"none", "failed", "start", "unlock", "epoll_create",
                 "exit", "serve"}
ConnStates   == {"new", "backlog", "accepted", "added"}

PoolInit ==
  /\ main = "lock"
  /\ i = 0
  /\ j = 0
  /\ connfd_mutex = 0
  /\ thread = [t \in Threads |-> "none"]
  /\ index = [t \in Threads |-> -1]
  /\ epoll_list = [t \in Threads |-> 0]
  /\ round_robin = 0
  /\ conn = [c \in Conns |-> "new"]
  /\ home = [c \in Conns |-> 0]
  /\ proc = "running"

-----------------------------------------------------------------------------
(* main(): the loop that creates the workers.                              *)

\* Mutation: main() creates the next thread without waiting for the baton.
MainLockAtOnce ==
  /\ main = "lock"
  /\ connfd_mutex' = 1
  /\ main' = "create"
  /\ UNCHANGED <<i, j, thread, index, epoll_list, round_robin, conn, home, proc>>

MainLock ==
  /\ main = "lock" /\ connfd_mutex = 0
  /\ connfd_mutex' = 1
  /\ main' = "create"
  /\ UNCHANGED <<i, j, thread, index, epoll_list, round_robin, conn, home, proc>>

\* The result of pthread_create() is not looked at: when it fails nobody is
\* left to release the mutex.
MainCreate ==
  /\ main = "create"
  /\ j' = i
  /\ \E started \in IF Failures THEN {"start", "failed"} ELSE {"start"} :
        thread' = [thread EXCEPT ![i] = started]
  /\ i' = i + 1
  /\ main' = IF i + 1 < CONNFD_POOL_SIZE THEN "lock" ELSE "wait"
  /\ UNCHANGED <<connfd_mutex, index, epoll_list, round_robin, conn, home, proc>>

-----------------------------------------------------------------------------
(* connfd_handler(): what a worker does before its event loop.             *)

ReadIndex(t) ==
  /\ thread[t] = "start"
  /\ index' = [index EXCEPT ![t] = j]
  /\ thread' = [thread EXCEPT ![t] = "unlock"]
  /\ UNCHANGED <<main, i, j, connfd_mutex, epoll_list, round_robin, conn, home, proc>>

\* Mutation: the worker forgets to release the mutex main() has locked.
KeepBaton(t) ==
  /\ thread[t] = "unlock"
  /\ thread' = [thread EXCEPT ![t] = "epoll_create"]
  /\ UNCHANGED <<main, i, j, connfd_mutex, index, epoll_list, round_robin,
                 conn, home, proc>>

PassBaton(t) ==
  /\ thread[t] = "unlock"
  /\ connfd_mutex' = 0
  /\ thread' = [thread EXCEPT ![t] = "epoll_create"]
  /\ UNCHANGED <<main, i, j, index, epoll_list, round_robin, conn, home, proc>>

\* Mutation: the worker keeps the pointer and reads its index a second time.
PublishThroughPointer(t) ==
  /\ thread[t] = "epoll_create"
  /\ epoll_list' = [epoll_list EXCEPT ![j] = EpollFd(t)]
  /\ thread' = [thread EXCEPT ![t] = "serve"]
  /\ UNCHANGED <<main, i, j, connfd_mutex, index, round_robin, conn, home, proc>>

PublishEpoll(t) ==
  /\ thread[t] = "epoll_create"
  /\ \/ /\ epoll_list' = [epoll_list EXCEPT ![index[t]] = EpollFd(t)]
        /\ thread' = [thread EXCEPT ![t] = "serve"]
     \/ /\ Failures
        /\ epoll_list' = [epoll_list EXCEPT ![index[t]] = -1]
        /\ thread' = [thread EXCEPT ![t] = "exit"]
  /\ UNCHANGED <<main, i, j, connfd_mutex, index, round_robin, conn, home, proc>>

\* epoll_create() failed: exit(-1), after the -1 was stored.
WorkerExit(t) ==
  /\ thread[t] = "exit"
  /\ proc' = "exited"
  /\ UNCHANGED <<main, i, j, connfd_mutex, thread, index, epoll_list,
                 round_robin, conn, home>>

-----------------------------------------------------------------------------
(* The kernel completes a client's handshake.                              *)

ClientConnect(c) ==
  /\ conn[c] = "new"
  /\ conn' = [conn EXCEPT ![c] = "backlog"]
  /\ UNCHANGED <<main, i, j, connfd_mutex, thread, index, epoll_list,
                 round_robin, home, proc>>

(* main(): the accept loop.                                                *)

\* The listening descriptor is level triggered: epoll_wait() returns as long
\* as the backlog is not empty.
MainWake ==
  /\ main = "wait"
  /\ \E c \in Conns : conn[c] = "backlog"
  /\ main' = "enter"
  /\ UNCHANGED <<i, j, connfd_mutex, thread, index, epoll_list,
                 round_robin, conn, home, proc>>

\* Mutation: the lock and unlock around an unused copy are cleaned away.
MainPassUnlocked ==
  /\ main = "enter"
  /\ main' = "accept"
  /\ UNCHANGED <<i, j, connfd_mutex, thread, index, epoll_list,
                 round_robin, conn, home, proc>>

\* Mutation: the unlock is lost.
MainPassKeepsLock ==
  /\ main = "enter" /\ connfd_mutex = 0
  /\ connfd_mutex' = 1
  /\ main' = "accept"
  /\ UNCHANGED <<i, j, thread, index, epoll_list,
                 round_robin, conn, home, proc>>

\* Lock, copy the event's descriptor, unlock.  Nothing shared is read, but
\* main cannot pass before the last worker has released the mutex.
MainPass ==
  /\ main = "enter" /\ connfd_mutex = 0
  /\ main' = "accept"
  /\ UNCHANGED <<i, j, connfd_mutex, thread, index, epoll_list,
                 round_robin, conn, home, proc>>

MainAccept(c) ==
  /\ main = "accept" /\ conn[c] = "backlog"
  /\ j' \in AddrLens
  /\ conn' = [conn EXCEPT ![c] = "accepted"]
  /\ main' = "assert"
  /\ UNCHANGED <<i, connfd_mutex, thread, index, epoll_list,
                 round_robin, home, proc>>

\* The Accept() wrapper calls exit(0) when accept() fails.
MainAcceptFails ==
  /\ main = "accept" /\ Failures
  /\ proc' = "exited"
  /\ UNCHANGED <<main, i, j, connfd_mutex, thread, index, epoll_list,
                 round_robin, conn, home>>

\* Mutation: built with NDEBUG.
MainAssertCompiledOut ==
  /\ main = "assert"
  /\ main' = "add"
  /\ UNCHANGED <<i, j, connfd_mutex, thread, index, epoll_list,
                 round_robin, conn, home, proc>>

\* assert(epoll_list[round_robin]>0)
MainAssert ==
  /\ main = "assert"
  /\ \/ /\ epoll_list[round_robin] > 0
        /\ main' = "add" /\ UNCHANGED proc
     \/ /\ epoll_list[round_robin] <= 0
        /\ proc' = "aborted" /\ UNCHANGED main
  /\ UNCHANGED <<i, j, connfd_mutex, thread, index, epoll_list,
                 round_robin, conn, home>>

\* Mutation: round_robin is never wrapped.
MainAddNoWrap(c) ==
  /\ main = "add" /\ conn[c] = "accepted"
  /\ home' = [home EXCEPT ![c] = epoll_list[round_robin]]
  /\ conn' = [conn EXCEPT ![c] = "added"]
  /\ round_robin' = round_robin + 1
  /\ main' = "wait"
  /\ UNCHANGED <<i, j, connfd_mutex, thread, index, epoll_list, proc>>

\* Mutation: round_robin wraps one worker too early.
MainAddWrapsEarly(c) ==
  /\ main = "add" /\ conn[c] = "accepted"
  /\ home' = [home EXCEPT ![c] = epoll_list[round_robin]]
  /\ conn' = [conn EXCEPT ![c] = "added"]
  /\ round_robin' = (round_robin + 1) % (CONNFD_POOL_SIZE - 1)
  /\ main' = "wait"
  /\ UNCHANGED <<i, j, connfd_mutex, thread, index, epoll_list, proc>>

MainAdd(c) ==
  /\ main = "add" /\ conn[c] = "accepted"
  /\ home' = [home EXCEPT ![c] = epoll_list[round_robin]]
  /\ conn' = [conn EXCEPT ![c] = "added"]
  /\ round_robin' = (round_robin + 1) % CONNFD_POOL_SIZE
  /\ main' = "wait"
  /\ UNCHANGED <<i, j, connfd_mutex, thread, index, epoll_list, proc>>

\* epoll_ctl(ADD) fails: exit(-1).
MainAddFails ==
  /\ main = "add" /\ Failures
  /\ proc' = "exited"
  /\ UNCHANGED <<main, i, j, connfd_mutex, thread, index, epoll_list,
                 round_robin, conn, home>>

-----------------------------------------------------------------------------
MainStep ==
  \/ MainLock \/ MainCreate
  \/ MainWake \/ MainPass
  \/ \E c \in Conns : MainAccept(c)
  \/ MainAcceptFails
  \/ MainAssert
  \/ \E c \in Conns : MainAdd(c)
  \/ MainAddFails

WorkerStart(t) == ReadIndex(t) \/ PassBaton(t) \/ PublishEpoll(t) \/ WorkerExit(t)

PoolNext ==
  /\ proc = "running"
  /\ \/ MainStep
     \/ \E t \in Threads : WorkerStart(t)
     \/ \E c \in Conns : ClientConnect(c)

PoolSpec == PoolInit /\ [][PoolNext]_poolVars

\* Threads are scheduled fairly; clients may or may not connect.
PoolFairness ==
  /\ WF_poolVars(proc = "running" /\ MainStep)
  /\ \A t \in Threads : WF_poolVars(proc = "running" /\ WorkerStart(t))

FairPoolSpec == PoolSpec /\ PoolFairness

-----------------------------------------------------------------------------
(* Properties.                                                             *)

\* Every variable stays in its range.
PoolTypeOK ==
  /\ main \in MainStates
  /\ i \in 0 .. CONNFD_POOL_SIZE
  /\ j \in Int
  /\ connfd_mutex \in {0, 1}
  /\ thread \in [Threads -> ThreadStates]
  /\ index \in [Threads -> Int]
  /\ epoll_list \in [Threads -> EpollFds \cup {-1, 0}]
  /\ round_robin \in Threads
  /\ conn \in [Conns -> ConnStates]
  /\ home \in [Conns -> EpollFds \cup {0}]
  /\ proc \in {"running", "aborted", "exited"}

HasIndex(t) == thread[t] \in {"unlock", "epoll_create", "exit", "serve"}

\* Although main() reuses one variable for all threads and the build reuses
\* its slot for clientlen, each worker copies the index it was created with
\* (connfd_handler's "int i = *((int *)args)").
OwnIndex == \A t \in Threads : HasIndex(t) => index[t] = t

\* No worker's epoll_list entry is overwritten or left to another worker: the
\* instance a serving worker waits on is the one main() finds at its index.
PublishedSlots ==
  /\ \A t \in Threads : thread[t] = "serve" => epoll_list[t] = EpollFd(t)
  /\ \A t \in Threads : epoll_list[t] > 0 => epoll_list[t] = EpollFd(t)

\* main() accepts a connection only when all threads exist and have copied
\* their index: the lock and unlock that seem to guard nothing in the accept
\* loop are what makes it safe to write clientlen.
PoolCompleteBeforeAccept ==
  (main \in {"accept", "assert", "add"} \/ \E c \in Conns : conn[c] = "added")
     => \A t \in Threads : HasIndex(t)

\* A connection is only ever added to an epoll instance whose worker has
\* entered its event loop, so somebody will wait for it.
AddedIsServed ==
  \A c \in Conns : conn[c] = "added" =>
     \E t \in Threads : home[c] = EpollFd(t) /\ thread[t] = "serve"

Load(t) == Cardinality({c \in Conns : home[c] = EpollFd(t)})

\* Round robin: the numbers of connections given to two workers never differ
\* by more than one, and the workers before round_robin are the ones ahead.
DispatchBalanced ==
  \A s, t \in Threads : s < t =>
     Load(s) - Load(t) = IF s < round_robin /\ round_robin <= t THEN 1 ELSE 0

\* The program's own assertion: by the time main() gives a worker a
\* connection, that worker has published its epoll instance.
AssertHolds == main = "assert" => epoll_list[round_robin] > 0

\* The process has ended, or pthread_create() has failed without its result
\* being looked at.
Broken == proc # "running" \/ \E t \in Threads : thread[t] = "failed"

\* Every worker reaches its event loop, unless the assertion in main() or a
\* failing system call comes first.
PoolComesUp == <>(Broken \/ \A t \in Threads : thread[t] = "serve")

\* Every connection the kernel completes is given to a worker, unless the
\* assertion or a failing system call comes first.
ConnectionsDispatched ==
  \A c \in Conns : conn[c] = "backlog" ~> (conn[c] = "added" \/ Broken)

=============================================================================
