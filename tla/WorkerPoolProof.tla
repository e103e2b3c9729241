--------------------------- MODULE WorkerPoolProof ---------------------------
(***************************************************************************)
(* Proofs about WorkerPool, for every number of workers, every set of      *)
(* connections, every value accept() may leave in clientlen, and with or   *)
(* without failing system calls.                                           *)
(*                                                                         *)
(* The argument: connfd_mutex is a baton.  It is held either by main()     *)
(* between lock and pthread_create(), or by the one worker created last    *)
(* that has not released it yet; all the others have their index.  Main    *)
(* writes j only while it holds the baton, or after having seen the mutex  *)
(* free with all the workers created.                                      *)
(***************************************************************************)
EXTENDS WorkerPool, FiniteSetTheorems, TLAPS

\* The worker that has been created and has not released connfd_mutex; one
\* whose creation failed holds it for ever.
HoldsBaton(t) == thread[t] \in {"start", "unlock", "failed"}

\* The instance a worker has published, from its position alone.
Published(t) == IF thread[t] = "serve" THEN EpollFd(t)
                ELSE IF thread[t] = "exit" THEN -1 ELSE 0

Creation ==
  /\ \A t \in Threads : t < i <=> thread[t] # "none"
  /\ main \in {"lock", "create"} => i < CONNFD_POOL_SIZE
  /\ main \notin {"lock", "create"} => i = CONNFD_POOL_SIZE

Baton ==
  /\ main = "create" => connfd_mutex = 1
  /\ \A t \in Threads : HoldsBaton(t) =>
       /\ t = i - 1
       /\ connfd_mutex = 1
       /\ main \in {"lock", "wait", "enter"}
  /\ \A t \in Threads : thread[t] = "start" => j = t

Slots == \A t \in Threads : epoll_list[t] = Published(t)

Dispatch ==
  /\ main = "add" => epoll_list[round_robin] > 0
  /\ AddedIsServed

\* The inductive invariant.
PoolInv ==
  /\ PoolTypeOK
  /\ Creation
  /\ Baton
  /\ OwnIndex
  /\ Slots
  /\ PoolCompleteBeforeAccept
  /\ Dispatch

-----------------------------------------------------------------------------
\* The descriptors of the workers' epoll instances are positive.
LEMMA EpollFdPositive ==
  \A t \in Threads : EpollFd(t) \in EpollFds /\ EpollFd(t) > 0 /\ EpollFd(t) \in Int
BY PoolSizeAssumption DEF Threads, EpollFd, EpollFds

\* The invariant holds when main() starts.
LEMMA PoolInvInit == PoolInit => PoolInv
<1> SUFFICES ASSUME PoolInit PROVE PoolInv
  OBVIOUS
<1> USE PoolSizeAssumption DEF PoolInit, Threads
<1>1. PoolTypeOK
  BY DEF PoolTypeOK, MainStates, ThreadStates, ConnStates, EpollFds
<1>2. Creation
  BY DEF Creation
<1>3. Baton
  BY DEF Baton, HoldsBaton
<1>4. OwnIndex /\ PoolCompleteBeforeAccept
  BY DEF OwnIndex, HasIndex, PoolCompleteBeforeAccept
<1>5. Slots
  BY DEF Slots, Published
<1>6. Dispatch
  BY DEF Dispatch, AddedIsServed
<1> QED
  BY <1>1, <1>2, <1>3, <1>4, <1>5, <1>6 DEF PoolInv

-----------------------------------------------------------------------------
(* main() creates the workers.                                             *)

\* main() takes the baton only when no worker has it.
LEMMA MainLockInv == PoolInv /\ MainLock => PoolInv'
<1> SUFFICES ASSUME PoolInv, MainLock PROVE PoolInv'
  OBVIOUS
<1> USE PoolSizeAssumption DEF PoolInv, MainLock, Threads
<1>1. PoolTypeOK'
  BY DEF PoolTypeOK, MainStates, ThreadStates, ConnStates, EpollFds
<1>2. Creation'
  BY DEF Creation
<1>3. Baton'
  BY DEF Baton, HoldsBaton
<1>4. OwnIndex' /\ PoolCompleteBeforeAccept'
  BY DEF OwnIndex, HasIndex, PoolCompleteBeforeAccept
<1>5. Slots'
  BY DEF Slots, Published, EpollFd
<1>6. Dispatch'
  BY DEF Dispatch, AddedIsServed, EpollFd
<1> QED
  BY <1>1, <1>2, <1>3, <1>4, <1>5, <1>6

\* While main() holds the baton, nobody else can still need j.
LEMMA MainCreateInv == PoolInv /\ MainCreate => PoolInv'
<1> SUFFICES ASSUME PoolInv, MainCreate PROVE PoolInv'
  OBVIOUS
<1> USE PoolSizeAssumption DEF Threads
<1>0. PICK started \in {"start", "failed"} : thread' = [thread EXCEPT ![i] = started]
  BY DEF MainCreate
<1>a. i \in Threads /\ thread[i] = "none"
  BY DEF PoolInv, PoolTypeOK, Creation, MainCreate
<1>b. /\ thread'[i] = started
      /\ \A t \in Threads : t # i => thread'[t] = thread[t]
  BY <1>0, <1>a DEF PoolInv, PoolTypeOK
<1>1. PoolTypeOK'
  BY <1>0, <1>a DEF PoolInv, PoolTypeOK, MainCreate, MainStates, ThreadStates,
                    ConnStates, EpollFds
<1>2. Creation'
  <2>1. \A t \in Threads : (t < i <=> thread[t] # "none") /\ (t < i' <=> t <= i)
    BY <1>a DEF PoolInv, PoolTypeOK, Creation, MainCreate
  <2>2. \A t \in Threads : t < i' <=> thread'[t] # "none"
    BY <2>1, <1>a, <1>b
  <2>3. /\ main' \in {"lock", "create"} => i' < CONNFD_POOL_SIZE
        /\ main' \notin {"lock", "create"} => i' = CONNFD_POOL_SIZE
    BY <1>a DEF PoolInv, PoolTypeOK, Creation, MainCreate
  <2> QED
    BY <2>2, <2>3 DEF Creation
<1>3. Baton'
  <2>1. \A t \in Threads : ~ HoldsBaton(t)
    BY DEF PoolInv, Baton, MainCreate
  <2>2. \A t \in Threads : HoldsBaton(t)' => t = i
    BY <2>1, <1>b DEF HoldsBaton
  <2>3. /\ i' - 1 = i /\ j' = i
        /\ connfd_mutex' = 1
        /\ main' \in {"lock", "wait", "enter"}
    BY <1>a DEF PoolInv, PoolTypeOK, Baton, MainCreate
  <2> QED
    BY <2>2, <2>3 DEF Baton, HoldsBaton
<1>4. OwnIndex'
  BY <1>a, <1>b DEF PoolInv, OwnIndex, HasIndex, MainCreate
<1>5. Slots'
  BY <1>a, <1>b DEF PoolInv, Slots, Published, EpollFd, MainCreate
<1>6. PoolCompleteBeforeAccept'
  <2>1. \A c \in Conns : conn[c] # "added"
    BY <1>a DEF PoolInv, PoolCompleteBeforeAccept, HasIndex
  <2> QED
    BY <2>1 DEF PoolCompleteBeforeAccept, MainCreate
<1>7. Dispatch'
  BY <1>a, <1>b DEF PoolInv, Dispatch, AddedIsServed, MainCreate, EpollFd
<1> QED
  BY <1>1, <1>2, <1>3, <1>4, <1>5, <1>6, <1>7 DEF PoolInv

-----------------------------------------------------------------------------
(* A worker starts.                                                        *)

\* The worker with the baton copies j while j still is its own index.
LEMMA ReadIndexInv ==
  ASSUME NEW t \in Threads, PoolInv, ReadIndex(t)
  PROVE  PoolInv'
<1> USE DEF ReadIndex
<1>1. /\ thread'[t] = "unlock" /\ index'[t] = t
      /\ \A s \in Threads : s # t => thread'[s] = thread[s] /\ index'[s] = index[s]
  BY DEF PoolInv, PoolTypeOK, Baton
<1>2. PoolTypeOK'
  BY DEF PoolInv, PoolTypeOK, ThreadStates
<1>3. Creation'
  BY <1>1 DEF PoolInv, Creation
<1>4. Baton'
  BY <1>1 DEF PoolInv, Baton, HoldsBaton
<1>5. OwnIndex'
  BY <1>1 DEF PoolInv, OwnIndex, HasIndex
<1>6. Slots'
  BY <1>1 DEF PoolInv, Slots, Published, EpollFd
<1>7. PoolCompleteBeforeAccept'
  BY <1>1 DEF PoolInv, PoolCompleteBeforeAccept, HasIndex
<1>8. Dispatch'
  BY <1>1 DEF PoolInv, Dispatch, AddedIsServed, EpollFd
<1> QED
  BY <1>2, <1>3, <1>4, <1>5, <1>6, <1>7, <1>8 DEF PoolInv

\* It is the only one that can release the mutex.
LEMMA PassBatonInv ==
  ASSUME NEW t \in Threads, PoolInv, PassBaton(t)
  PROVE  PoolInv'
<1> USE DEF PassBaton
<1>1. /\ thread'[t] = "epoll_create"
      /\ \A s \in Threads : s # t => thread'[s] = thread[s]
  BY DEF PoolInv, PoolTypeOK
<1>2. PoolTypeOK'
  BY DEF PoolInv, PoolTypeOK, ThreadStates
<1>3. Creation'
  BY <1>1 DEF PoolInv, Creation
<1>4. Baton'
  <2>1. t = i - 1 /\ \A s \in Threads : HoldsBaton(s) => s = t
    BY DEF PoolInv, Baton, HoldsBaton
  <2>2. main # "create"
    BY DEF PoolInv, Baton, HoldsBaton
  <2>3. \A s \in Threads : ~ HoldsBaton(s)'
    BY <1>1, <2>1 DEF HoldsBaton
  <2> QED
    BY <2>2, <2>3 DEF Baton, HoldsBaton
<1>5. OwnIndex'
  BY <1>1 DEF PoolInv, OwnIndex, HasIndex
<1>6. Slots'
  BY <1>1 DEF PoolInv, Slots, Published, EpollFd
<1>7. PoolCompleteBeforeAccept'
  BY <1>1 DEF PoolInv, PoolCompleteBeforeAccept, HasIndex
<1>8. Dispatch'
  BY <1>1 DEF PoolInv, Dispatch, AddedIsServed, EpollFd
<1> QED
  BY <1>2, <1>3, <1>4, <1>5, <1>6, <1>7, <1>8 DEF PoolInv

\* It writes its own slot of epoll_list, since its copy of the index is its own.
LEMMA PublishEpollInv ==
  ASSUME NEW t \in Threads, PoolInv, PublishEpoll(t)
  PROVE  PoolInv'
<1> USE DEF PublishEpoll
<1>0. index[t] = t
  BY DEF PoolInv, OwnIndex, HasIndex
<1>1. /\ \/ epoll_list'[t] = EpollFd(t) /\ thread'[t] = "serve"
         \/ epoll_list'[t] = -1 /\ thread'[t] = "exit"
      /\ \A s \in Threads : s # t => /\ thread'[s] = thread[s]
                                     /\ epoll_list'[s] = epoll_list[s]
  BY <1>0 DEF PoolInv, PoolTypeOK
<1>2. PoolTypeOK'
  BY <1>0, EpollFdPositive DEF PoolInv, PoolTypeOK, ThreadStates
<1>3. Creation'
  BY <1>1 DEF PoolInv, Creation
<1>4. Baton'
  BY <1>1 DEF PoolInv, Baton, HoldsBaton
<1>5. OwnIndex'
  BY <1>0, <1>1 DEF PoolInv, OwnIndex, HasIndex
<1>6. Slots'
  BY <1>1 DEF PoolInv, Slots, Published, EpollFd
<1>7. PoolCompleteBeforeAccept'
  BY <1>1 DEF PoolInv, PoolCompleteBeforeAccept, HasIndex
<1>8. Dispatch'
  <2>1. epoll_list[t] = 0
    BY DEF PoolInv, Slots, Published
  <2>2. main' = "add" => epoll_list'[round_robin'] > 0
    BY <1>1, <2>1 DEF PoolInv, Dispatch, PoolTypeOK
  <2>3. AddedIsServed'
    BY <1>1 DEF PoolInv, Dispatch, AddedIsServed, EpollFd
  <2> QED
    BY <2>2, <2>3 DEF Dispatch
<1> QED
  BY <1>2, <1>3, <1>4, <1>5, <1>6, <1>7, <1>8 DEF PoolInv

\* The process may also end; nothing else changes then.
LEMMA ProcessEndsInv ==
  ASSUME PoolInv, proc' \in {"running", "aborted", "exited"},
         UNCHANGED <<main, i, j, connfd_mutex, thread, index, epoll_list,
                     round_robin, conn, home>>
  PROVE  PoolInv'
<1>1. PoolTypeOK'
  BY DEF PoolInv, PoolTypeOK
<1>2. Creation' /\ Baton' /\ OwnIndex' /\ Slots'
  BY DEF PoolInv, Creation, Baton, HoldsBaton, OwnIndex, HasIndex, Slots, Published, EpollFd
<1>3. PoolCompleteBeforeAccept' /\ Dispatch'
  BY DEF PoolInv, PoolCompleteBeforeAccept, HasIndex, Dispatch, AddedIsServed, EpollFd
<1> QED
  BY <1>1, <1>2, <1>3 DEF PoolInv

-----------------------------------------------------------------------------
(* The accept loop.                                                        *)

\* A client's handshake changes nothing main() or the workers look at.
LEMMA ClientConnectInv ==
  ASSUME NEW c \in Conns, PoolInv, ClientConnect(c)
  PROVE  PoolInv'
<1> USE DEF ClientConnect
<1>1. PoolTypeOK'
  BY DEF PoolInv, PoolTypeOK, ConnStates
<1>2. \A d \in Conns : conn'[d] = "added" => conn[d] = "added"
  BY DEF PoolInv, PoolTypeOK
<1>3. Creation' /\ Baton' /\ OwnIndex' /\ Slots'
  BY DEF PoolInv, Creation, Baton, HoldsBaton, OwnIndex, HasIndex, Slots, Published, EpollFd
<1>4. PoolCompleteBeforeAccept' /\ Dispatch'
  BY <1>2 DEF PoolInv, PoolCompleteBeforeAccept, HasIndex, Dispatch, AddedIsServed, EpollFd
<1> QED
  BY <1>1, <1>3, <1>4 DEF PoolInv

\* main() wakes up.
LEMMA MainWakeInv == PoolInv /\ MainWake => PoolInv'
<1> SUFFICES ASSUME PoolInv, MainWake PROVE PoolInv'
  OBVIOUS
<1> USE DEF MainWake
<1>1. PoolTypeOK'
  BY DEF PoolInv, PoolTypeOK, MainStates
<1>2. Creation' /\ Baton' /\ OwnIndex' /\ Slots'
  BY DEF PoolInv, Creation, Baton, HoldsBaton, OwnIndex, HasIndex, Slots, Published, EpollFd
<1>3. PoolCompleteBeforeAccept' /\ Dispatch'
  BY DEF PoolInv, PoolCompleteBeforeAccept, HasIndex, Dispatch, AddedIsServed, EpollFd
<1> QED
  BY <1>1, <1>2, <1>3 DEF PoolInv

\* With the mutex free and all threads created, every worker has its index.
LEMMA MainPassInv == PoolInv /\ MainPass => PoolInv'
<1> SUFFICES ASSUME PoolInv, MainPass PROVE PoolInv'
  OBVIOUS
<1> USE DEF MainPass
<1>1. PoolTypeOK'
  BY DEF PoolInv, PoolTypeOK, MainStates
<1>2. \A t \in Threads : HasIndex(t)
  <2> SUFFICES ASSUME NEW t \in Threads PROVE HasIndex(t)
    OBVIOUS
  <2>1. ~ HoldsBaton(t)
    BY DEF PoolInv, Baton
  <2>2. thread[t] # "none"
    BY PoolSizeAssumption DEF PoolInv, Creation, Threads
  <2> QED
    BY <2>1, <2>2 DEF PoolInv, PoolTypeOK, ThreadStates, HoldsBaton, HasIndex
<1>3. Creation' /\ OwnIndex' /\ Slots'
  BY DEF PoolInv, Creation, OwnIndex, HasIndex, Slots, Published, EpollFd
<1>4. Baton'
  BY <1>2 DEF PoolInv, Baton, HoldsBaton, HasIndex
<1>5. PoolCompleteBeforeAccept' /\ Dispatch'
  BY <1>2 DEF PoolInv, PoolCompleteBeforeAccept, HasIndex, Dispatch, AddedIsServed, EpollFd
<1> QED
  BY <1>1, <1>3, <1>4, <1>5 DEF PoolInv

\* accept() overwrites j, which no worker needs any more.
LEMMA MainAcceptInv ==
  ASSUME NEW c \in Conns, PoolInv, MainAccept(c)
  PROVE  PoolInv'
<1> USE DEF MainAccept
<1>1. PoolTypeOK'
  BY AddrLensAssumption DEF PoolInv, PoolTypeOK, MainStates, ConnStates
<1>2. \A t \in Threads : HasIndex(t)
  BY DEF PoolInv, PoolCompleteBeforeAccept
<1>3. \A d \in Conns : conn'[d] = "added" => conn[d] = "added"
  BY DEF PoolInv, PoolTypeOK
<1>4. Creation' /\ OwnIndex' /\ Slots'
  BY DEF PoolInv, Creation, OwnIndex, HasIndex, Slots, Published, EpollFd
<1>5. Baton'
  BY <1>2 DEF PoolInv, Baton, HoldsBaton, HasIndex
<1>6. PoolCompleteBeforeAccept' /\ Dispatch'
  BY <1>2, <1>3 DEF PoolInv, PoolCompleteBeforeAccept, HasIndex, Dispatch,
                    AddedIsServed, EpollFd
<1> QED
  BY <1>1, <1>4, <1>5, <1>6 DEF PoolInv

\* The assertion lets main() pass only with a published instance.
LEMMA MainAssertInv == PoolInv /\ MainAssert => PoolInv'
<1> SUFFICES ASSUME PoolInv, MainAssert PROVE PoolInv'
  OBVIOUS
<1> USE DEF MainAssert
<1>1. PoolTypeOK'
  BY DEF PoolInv, PoolTypeOK, MainStates
<1>2. Creation' /\ Baton' /\ OwnIndex' /\ Slots'
  BY DEF PoolInv, Creation, Baton, HoldsBaton, OwnIndex, HasIndex, Slots, Published, EpollFd
<1>3. PoolCompleteBeforeAccept' /\ Dispatch'
  BY DEF PoolInv, PoolCompleteBeforeAccept, HasIndex, Dispatch, AddedIsServed, EpollFd
<1> QED
  BY <1>1, <1>2, <1>3 DEF PoolInv

\* A published instance belongs to a worker that serves it.
LEMMA MainAddInv ==
  ASSUME NEW c \in Conns, PoolInv, MainAdd(c)
  PROVE  PoolInv'
<1> USE DEF MainAdd
<1>1. /\ thread[round_robin] = "serve"
      /\ epoll_list[round_robin] = EpollFd(round_robin)
      /\ round_robin \in Threads
  BY DEF PoolInv, PoolTypeOK, Slots, Published, Dispatch
<1>2. (round_robin + 1) % CONNFD_POOL_SIZE \in Threads
  BY <1>1, PoolSizeAssumption DEF Threads
<1>3. PoolTypeOK'
  BY <1>1, <1>2, EpollFdPositive DEF PoolInv, PoolTypeOK, MainStates, ConnStates
<1>4. Creation' /\ OwnIndex' /\ Slots' /\ Baton'
  BY DEF PoolInv, Creation, Baton, HoldsBaton, OwnIndex, HasIndex, Slots, Published, EpollFd
<1>5. PoolCompleteBeforeAccept'
  BY DEF PoolInv, PoolCompleteBeforeAccept, HasIndex
<1>6. Dispatch'
  <2>1. \A d \in Conns : d # c => home'[d] = home[d] /\ conn'[d] = conn[d]
    BY DEF PoolInv, PoolTypeOK
  <2>2. home'[c] = EpollFd(round_robin)
    BY <1>1 DEF PoolInv, PoolTypeOK
  <2> QED
    BY <1>1, <2>1, <2>2 DEF PoolInv, Dispatch, AddedIsServed, EpollFd
<1> QED
  BY <1>3, <1>4, <1>5, <1>6 DEF PoolInv

-----------------------------------------------------------------------------
\* Every step preserves the invariant.
LEMMA PoolInvNext == PoolInv /\ [PoolNext]_poolVars => PoolInv'
<1> SUFFICES ASSUME PoolInv, [PoolNext]_poolVars PROVE PoolInv'
  OBVIOUS
<1>1. CASE MainStep
  <2>1. CASE MainAcceptFails
    BY <2>1, ProcessEndsInv DEF MainAcceptFails
  <2>2. CASE MainAddFails
    BY <2>2, ProcessEndsInv DEF MainAddFails
  <2> QED
    BY <1>1, <2>1, <2>2, MainLockInv, MainCreateInv, MainWakeInv, MainPassInv,
       MainAcceptInv, MainAssertInv, MainAddInv DEF MainStep
<1>2. ASSUME NEW t \in Threads, WorkerStart(t) PROVE PoolInv'
  <2>1. CASE WorkerExit(t)
    BY <2>1, ProcessEndsInv DEF WorkerExit
  <2> QED
    BY <1>2, <2>1, ReadIndexInv, PassBatonInv, PublishEpollInv DEF WorkerStart
<1>3. CASE UNCHANGED poolVars
  <2>1. proc' \in {"running", "aborted", "exited"}
    BY <1>3 DEF PoolInv, PoolTypeOK, poolVars
  <2> QED
    BY <1>3, <2>1, ProcessEndsInv DEF poolVars
<1> QED
  BY <1>1, <1>2, <1>3, ClientConnectInv DEF PoolNext

\* The invariant holds in every reachable state.
THEOREM PoolInvariant == PoolSpec => []PoolInv
BY PoolInvInit, PoolInvNext, PTL DEF PoolSpec

\* The variables of main(), of the workers and of the dispatch stay in range.
THEOREM PoolTypeCorrect == PoolSpec => []PoolTypeOK
<1>1. PoolInv => PoolTypeOK
  BY DEF PoolInv
<1> QED
  BY <1>1, PoolInvariant, PTL

\* Every worker copies the index it was created with, although all of them
\* read it from one stack slot of main().
THEOREM PoolOwnIndex == PoolSpec => []OwnIndex
<1>1. PoolInv => OwnIndex
  BY DEF PoolInv
<1> QED
  BY <1>1, PoolInvariant, PTL

\* epoll_list holds at a worker's index that worker's instance, or none.
THEOREM PoolPublishedSlots == PoolSpec => []PublishedSlots
<1>1. PoolInv => PublishedSlots
  BY DEF PoolInv, Slots, Published, PublishedSlots
<1> QED
  BY <1>1, PoolInvariant, PTL

\* accept() is never called while a worker has still to copy its index.
THEOREM PoolAcceptsLate == PoolSpec => []PoolCompleteBeforeAccept
<1>1. PoolInv => PoolCompleteBeforeAccept
  BY DEF PoolInv
<1> QED
  BY <1>1, PoolInvariant, PTL

\* A dispatched connection is in the epoll instance of a serving worker.
THEOREM PoolAddedIsServed == PoolSpec => []AddedIsServed
<1>1. PoolInv => AddedIsServed
  BY DEF PoolInv, Dispatch
<1> QED
  BY <1>1, PoolInvariant, PTL

-----------------------------------------------------------------------------
(* Round robin is fair.  Only MainAdd changes the loads; what has to be     *)
(* known is that the connection it adds was in no instance before.          *)

LoadsOf(t) == {c \in Conns : home[c] = EpollFd(t)}

BalanceInv ==
  /\ \A c \in Conns : conn[c] # "added" => home[c] = 0
  /\ DispatchBalanced

\* The load of a worker is a natural number.
LEMMA LoadNat == \A t \in Threads : IsFiniteSet(LoadsOf(t)) /\ Load(t) \in Nat
<1> SUFFICES ASSUME NEW t \in Threads PROVE IsFiniteSet(LoadsOf(t)) /\ Load(t) \in Nat
  OBVIOUS
<1>1. IsFiniteSet(LoadsOf(t))
  <2>1. LoadsOf(t) \subseteq Conns
    BY DEF LoadsOf
  <2> QED
    BY <2>1, ConnsAssumption, FS_Subset
<1>2. Load(t) = Cardinality(LoadsOf(t))
  BY DEF Load, LoadsOf
<1> QED
  BY <1>1, <1>2, FS_CardinalityType

\* A step that adds no connection leaves the balance alone.
LEMMA BalanceStutter ==
  ASSUME BalanceInv, UNCHANGED <<home, round_robin>>,
         \A c \in Conns : conn'[c] # "added" => conn[c] # "added"
  PROVE  BalanceInv'
<1>1. DispatchBalanced'
  BY DEF BalanceInv, DispatchBalanced, Load, EpollFd
<1> QED
  BY <1>1 DEF BalanceInv

\* Adding a connection raises the load of worker round_robin by one, no other.
LEMMA MainAddLoads ==
  ASSUME NEW c \in Conns, PoolInv, BalanceInv, MainAdd(c)
  PROVE  \A t \in Threads : Load(t)' = IF t = round_robin THEN Load(t) + 1 ELSE Load(t)
<1> USE DEF MainAdd
<1>1. /\ round_robin \in Threads
      /\ epoll_list[round_robin] = EpollFd(round_robin)
  BY DEF PoolInv, PoolTypeOK, Slots, Published, Dispatch
<1>2. home[c] = 0
  BY DEF BalanceInv
<1>3. /\ home'[c] = EpollFd(round_robin)
      /\ \A d \in Conns : d # c => home'[d] = home[d]
  BY <1>1 DEF PoolInv, PoolTypeOK
<1> SUFFICES ASSUME NEW t \in Threads
             PROVE  Load(t)' = IF t = round_robin THEN Load(t) + 1 ELSE Load(t)
  OBVIOUS
<1>4. Load(t) = Cardinality(LoadsOf(t)) /\ Load(t)' = Cardinality(LoadsOf(t)')
  BY DEF Load, LoadsOf, EpollFd
<1>5. CASE t = round_robin
  <2>1. LoadsOf(t)' = LoadsOf(t) \cup {c} /\ c \notin LoadsOf(t)
    BY <1>2, <1>3, <1>5, EpollFdPositive DEF LoadsOf, EpollFd
  <2>2. Cardinality(LoadsOf(t) \cup {c}) = Cardinality(LoadsOf(t)) + 1
    BY <2>1, LoadNat, FS_AddElement
  <2> QED
    BY <1>4, <1>5, <2>1, <2>2
<1>6. CASE t # round_robin
  <2>1. EpollFd(t) # EpollFd(round_robin) /\ EpollFd(t) # 0
    BY <1>1, <1>6, EpollFdPositive DEF EpollFd, Threads
  <2>2. LoadsOf(t)' = LoadsOf(t)
    BY <1>2, <1>3, <2>1 DEF LoadsOf, EpollFd
  <2> QED
    BY <1>4, <1>6, <2>2
<1> QED
  BY <1>5, <1>6

\* Adding a connection keeps the balance, also when round_robin wraps.
LEMMA MainAddBalance ==
  ASSUME NEW c \in Conns, PoolInv, BalanceInv, MainAdd(c)
  PROVE  BalanceInv'
<1>1. round_robin \in Threads
  BY DEF PoolInv, PoolTypeOK
<1>2. \A d \in Conns : conn'[d] # "added" => home'[d] = 0
  BY DEF PoolInv, PoolTypeOK, BalanceInv, MainAdd
<1>3. \/ round_robin < CONNFD_POOL_SIZE - 1 /\ round_robin' = round_robin + 1
      \/ round_robin = CONNFD_POOL_SIZE - 1 /\ round_robin' = 0
  <2>1. round_robin' = (round_robin + 1) % CONNFD_POOL_SIZE
    BY DEF MainAdd
  <2>2. CASE round_robin = CONNFD_POOL_SIZE - 1
    BY <2>1, <2>2, PoolSizeAssumption
  <2>3. CASE round_robin < CONNFD_POOL_SIZE - 1
    <3>1. round_robin + 1 \in 0 .. CONNFD_POOL_SIZE - 1
      BY <1>1, <2>3, PoolSizeAssumption DEF Threads
    <3> QED
      BY <2>1, <2>3, <3>1, PoolSizeAssumption
  <2> QED
    BY <1>1, <2>2, <2>3, PoolSizeAssumption DEF Threads
<1>4. DispatchBalanced'
  <2> SUFFICES ASSUME NEW s \in Threads, NEW t \in Threads, s < t
               PROVE  Load(s)' - Load(t)' =
                        IF s < round_robin' /\ round_robin' <= t THEN 1 ELSE 0
    BY DEF DispatchBalanced
  <2>1. Load(s) \in Nat /\ Load(t) \in Nat
    BY LoadNat
  <2>2. Load(s) - Load(t) = IF s < round_robin /\ round_robin <= t THEN 1 ELSE 0
    BY DEF BalanceInv, DispatchBalanced
  <2>3. /\ Load(s)' = IF s = round_robin THEN Load(s) + 1 ELSE Load(s)
        /\ Load(t)' = IF t = round_robin THEN Load(t) + 1 ELSE Load(t)
    BY MainAddLoads
  <2> HIDE DEF Load
  <2> QED
    BY <1>1, <1>3, <2>1, <2>2, <2>3, PoolSizeAssumption DEF Threads
<1> QED
  BY <1>2, <1>4 DEF BalanceInv

\* The numbers of connections two workers were given differ by at most one.
THEOREM PoolDispatchBalanced == PoolSpec => []DispatchBalanced
<1>1. PoolInit => BalanceInv
  <2> SUFFICES ASSUME PoolInit PROVE DispatchBalanced
    BY DEF PoolInit, BalanceInv
  <2>1. \A t \in Threads : LoadsOf(t) = {}
    BY EpollFdPositive DEF PoolInit, LoadsOf
  <2>2. \A t \in Threads : Load(t) = 0
    BY <2>1, FS_EmptySet DEF Load, LoadsOf
  <2> QED
    BY <2>2, PoolSizeAssumption DEF DispatchBalanced, PoolInit, Threads
<1>2. PoolInv /\ BalanceInv /\ [PoolNext]_poolVars => BalanceInv'
  <2> SUFFICES ASSUME PoolInv, BalanceInv, [PoolNext]_poolVars PROVE BalanceInv'
    OBVIOUS
  <2>1. CASE \E c \in Conns : MainAdd(c)
    BY <2>1, MainAddBalance
  <2>2. CASE MainStep /\ ~ \E c \in Conns : MainAdd(c)
    <3>1. /\ UNCHANGED <<home, round_robin>>
          /\ \A c \in Conns : conn'[c] # "added" => conn[c] # "added"
      BY <2>2 DEF MainStep, MainLock, MainCreate, MainWake, MainPass, MainAccept,
                  MainAcceptFails, MainAssert, MainAddFails, PoolInv, PoolTypeOK
    <3> QED
      BY <3>1, BalanceStutter
  <2>3. CASE \E t \in Threads : WorkerStart(t)
    <3>1. UNCHANGED <<home, round_robin, conn>>
      BY <2>3 DEF WorkerStart, ReadIndex, PassBaton, PublishEpoll, WorkerExit
    <3> QED
      BY <3>1, BalanceStutter
  <2>4. CASE \E c \in Conns : ClientConnect(c)
    <3>1. /\ UNCHANGED <<home, round_robin>>
          /\ \A c \in Conns : conn'[c] # "added" => conn[c] # "added"
      BY <2>4 DEF ClientConnect, PoolInv, PoolTypeOK
    <3> QED
      BY <3>1, BalanceStutter
  <2>5. CASE UNCHANGED poolVars
    BY <2>5, BalanceStutter DEF poolVars
  <2> QED
    BY <2>1, <2>2, <2>3, <2>4, <2>5 DEF PoolNext
<1>3. BalanceInv => DispatchBalanced
  BY DEF BalanceInv
<1> QED
  BY <1>1, <1>2, <1>3, PoolInvariant, PTL DEF PoolSpec
=============================================================================
