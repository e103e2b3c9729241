----------------------------- MODULE ProxyProof -----------------------------
(***************************************************************************)
(* Proofs about Proxy, for every number of workers, clients, descriptors   *)
(* and events.                                                             *)
(*                                                                         *)
(* A step of Proxy is a step of WorkerPool or leaves its variables alone,  *)
(* so the invariant of WorkerPool holds here too.  On top of it, what a    *)
(* descriptor refers to tells which thread may use it: main() the one it   *)
(* has just accepted, a worker the sockets of its own clients and those it *)
(* has opened.  A number is given out only when nobody refers to it, and   *)
(* closed only by the one thread that does.                                *)
(***************************************************************************)
EXTENDS Proxy, WorkerPoolProof, SequenceTheorems

Operations == [op : {"del", "close", "rearm"}, on : Fds \cup {-1}]

\* doit() has been called and has not begun to let go of its descriptors.
Serving == Stages \ {"poll", "batch", "close"}

\* doit() has a connected socket, or one it is connecting.
WithServer == {"connect", "exchange", "epoll_create1", "tunnel"}

\* What the worker has in its epoll instance and in its batch.
EventsInv(t) ==
  /\ armed[t] \subseteq interest[t]
  /\ \A f \in interest[t] : ClientOf(t, f)
  /\ \A f \in batch[t] : ClientOf(t, f)
  /\ armed[t] \cap batch[t] = {}

\* The locals of doit() and connect_handler().
LocalsInv(t) ==
  /\ stage[t] \in {"poll", "batch"} => fd[t] = 0
  /\ stage[t] \in Serving =>
       fd[t] \in Fds /\ ClientOf(t, fd[t]) /\ fd[t] \notin batch[t] /\ fd[t] \notin armed[t]
  /\ stage[t] \in WithServer => serverfd[t] \in Fds /\ file[serverfd[t]] = Server(t)
  /\ stage[t] = "tunnel" => tunnelfd[t] \in Fds /\ file[tunnelfd[t]] = Tunnel(t)

\* Operations on files of the worker, none of them in its batch, where nothing
\* is done with a descriptor after it was closed.
OpsInv(t, ops) ==
  \A k \in DOMAIN ops : ops[k].on # -1 =>
    /\ OwnFile(t, ops[k].on)
    /\ ops[k].on \notin batch[t]
    /\ \A l \in DOMAIN ops : l < k /\ ops[l].op = "close" => ops[l].on # ops[k].on

TodoInv(t) ==
  /\ todo[t] = <<>> <=> stage[t] # "close"
  /\ OpsInv(t, todo[t])

WorkerInv(t) == EventsInv(t) /\ LocalsInv(t) /\ TodoInv(t)

\* main(): only the connection being dispatched is accepted and in no instance.
AcceptInv ==
  \A c \in Conns :
     /\ conn[c] # "added" => home[c] = 0
     /\ conn[c] = "accepted" => /\ main \in {"assert", "add"}
                                /\ connfd \in Fds /\ file[connfd] = Client(c)

ProxyInv ==
  /\ ProxyTypeOK
  /\ AcceptInv
  /\ \A t \in Threads : WorkerInv(t)

-----------------------------------------------------------------------------
(* Proxy implements WorkerPool.                                            *)

\* Return, with which several steps end, is no step of main() or of a start-up.
LEMMA WorkerKeepsPool ==
  ASSUME NEW t \in Threads, WorkerStep(t) \/ PeerStep(t)
  PROVE  UNCHANGED poolVars /\ UNCHANGED connfd
BY DEF WorkerStep, PeerStep, EpollWait, CallDoit, ReadRequest, OpenSocketFails,
       OpenSocket, Refuse, StartTunnel, CreateTunnel, CreateTunnelFails, DoDel,
       DoRearm, DoClose, DoCloseFails, Return, ConnectServer, Exchange,
       TunnelEnds, BrokenPipe

LEMMA StepIsPoolStep == [ProxyNext]_allVars => [PoolNext]_poolVars
<1> SUFFICES ASSUME ProxyNext PROVE PoolNext \/ UNCHANGED poolVars
  BY DEF allVars
<1>1. proc = "running"
  BY DEF ProxyNext, Alive
<1>2. CASE Main
  BY <1>1, <1>2 DEF Main, MainElse, Accept, Add, PoolNext, MainStep
<1>3. CASE \E t \in Threads : StartWorker(t)
  BY <1>1, <1>3 DEF StartWorker, PoolNext
<1>4. CASE \E t \in Threads : WorkerStep(t) \/ PeerStep(t)
  BY <1>4, WorkerKeepsPool
<1>5. CASE \E c \in Conns : Connect(c)
  BY <1>1, <1>5 DEF Connect, PoolNext
<1>6. CASE \E c \in Conns : ClientSend(c) \/ ClientClose(c)
  BY <1>6 DEF ClientSend, ClientClose
<1> QED
  BY <1>2, <1>3, <1>4, <1>5, <1>6 DEF ProxyNext

\* The start-up and the dispatch are not disturbed by what the workers do
\* between and after them: every behaviour of the proxy is one of the pool.
THEOREM ProxyImplementsPool == ProxySpec => PoolSpec
<1>1. ProxyInit => PoolInit
  BY DEF ProxyInit
<1> QED
  BY <1>1, StepIsPoolStep, PTL DEF ProxySpec, PoolSpec

-----------------------------------------------------------------------------
(* What a descriptor refers to.                                            *)

LEMMA FilesDiffer ==
  /\ \A c \in Conns, t \in Threads :
        Client(c) # Free /\ Client(c) # Server(t) /\ Client(c) # Tunnel(t)
  /\ \A s, t \in Threads :
        /\ Server(t) # Free /\ Tunnel(t) # Free /\ Server(s) # Tunnel(t)
        /\ Server(s) = Server(t) => s = t
        /\ Tunnel(s) = Tunnel(t) => s = t
  /\ \A c, d \in Conns : Client(c) = Client(d) => c = d
BY DEF Client, Server, Tunnel, Free

\* A descriptor belongs to one worker at most.
LEMMA OneOwner ==
  ASSUME NEW s \in Threads, NEW t \in Threads, NEW f, OwnFile(s, f), OwnFile(t, f)
  PROVE  s = t
<1>1. CASE ClientOf(s, f) /\ ClientOf(t, f)
  <2>1. EpollFd(s) = EpollFd(t)
    BY <1>1, FilesDiffer DEF ClientOf
  <2> QED
    BY <2>1, PoolSizeAssumption DEF EpollFd, Threads
<1> QED
  BY <1>1, FilesDiffer DEF OwnFile, ClientOf

LEMMA FreeIsNobodys ==
  ASSUME NEW t \in Threads, NEW f, file[f] = Free
  PROVE  ~ OwnFile(t, f) /\ ~ ClientOf(t, f)
BY FilesDiffer DEF OwnFile, ClientOf

LEMMA TodoTyped ==
  ASSUME NEW t \in Threads, ProxyTypeOK
  PROVE  /\ todo[t] \in Seq(Operations)
         /\ \A k \in DOMAIN todo[t] : todo[t][k] \in Operations
                                      /\ todo[t][k].on \in Fds \cup {-1}
<1>1. todo[t] \in Seq(Operations)
  BY DEF ProxyTypeOK, Operations
<1>2. \A k \in DOMAIN todo[t] : todo[t][k] \in Operations
  BY <1>1, ElementOfSeq
<1> QED
  BY <1>1, <1>2 DEF Operations

\* A step of somebody else that leaves a worker's files alone leaves it alone.
LEMMA OthersStep ==
  ASSUME NEW t \in Threads, ProxyTypeOK, WorkerInv(t),
         \A f \in Fds : OwnFile(t, f) => file'[f] = file[f],
         \A c \in Conns : home[c] = EpollFd(t) => home'[c] = home[c],
         interest'[t] \subseteq interest[t], armed'[t] \subseteq armed[t],
         armed'[t] \subseteq interest'[t],
         batch'[t] = batch[t], stage'[t] = stage[t], fd'[t] = fd[t],
         serverfd'[t] = serverfd[t], tunnelfd'[t] = tunnelfd[t], todo'[t] = todo[t]
  PROVE  WorkerInv(t)'
<1>1. \A f \in Fds : /\ ClientOf(t, f) => ClientOf(t, f)'
                     /\ OwnFile(t, f) => OwnFile(t, f)'
  BY DEF OwnFile, ClientOf, Server, Tunnel, Client, EpollFd
<1>2. EventsInv(t)'
  BY <1>1 DEF WorkerInv, EventsInv, ProxyTypeOK
<1>3. LocalsInv(t)'
  <2>1. stage[t] \in WithServer => file'[serverfd[t]] = Server(t)
    BY DEF WorkerInv, LocalsInv, OwnFile
  <2>2. stage[t] = "tunnel" => file'[tunnelfd[t]] = Tunnel(t)
    BY DEF WorkerInv, LocalsInv, OwnFile
  <2> QED
    BY <1>1, <2>1, <2>2 DEF WorkerInv, LocalsInv, Server, Tunnel
<1>4. TodoInv(t)'
  BY <1>1, TodoTyped DEF WorkerInv, TodoInv, OpsInv
<1> QED
  BY <1>2, <1>3, <1>4 DEF WorkerInv

\* What is left to show of a worker's step: it changes only files that are
\* free or its own, and keeps its own part of the invariant.
LEMMA WorkerFrame ==
  ASSUME NEW t \in Threads, ProxyInv, UNCHANGED poolVars, UNCHANGED connfd,
         \A f \in Fds : file'[f] # file[f] => file[f] = Free \/ OwnFile(t, f),
         \A s \in Threads : s # t =>
            /\ interest'[s] \subseteq interest[s] /\ armed'[s] \subseteq armed[s]
            /\ armed'[s] \subseteq interest'[s]
            /\ batch'[s] = batch[s] /\ stage'[s] = stage[s] /\ fd'[s] = fd[s]
            /\ serverfd'[s] = serverfd[s] /\ tunnelfd'[s] = tunnelfd[s]
            /\ todo'[s] = todo[s],
         ProxyTypeOK', WorkerInv(t)'
  PROVE  ProxyInv'
<1>1. AcceptInv'
  <2> SUFFICES ASSUME NEW c \in Conns, conn[c] = "accepted"
               PROVE  file'[connfd] = Client(c)
    BY DEF AcceptInv, poolVars, ProxyInv, Client
  <2>1. connfd \in Fds /\ file[connfd] = Client(c) /\ home[c] = 0
    BY DEF ProxyInv, AcceptInv
  <2>2. ~ OwnFile(t, connfd) /\ file[connfd] # Free
    BY <2>1, FilesDiffer, EpollFdPositive DEF OwnFile, ClientOf
  <2> QED
    BY <2>1, <2>2
<1>2. ASSUME NEW s \in Threads, s # t PROVE WorkerInv(s)'
  <2>1. \A f \in Fds : OwnFile(s, f) => file'[f] = file[f]
    BY <1>2, OneOwner, FreeIsNobodys
  <2> QED
    BY <1>2, <2>1, OthersStep DEF ProxyInv, poolVars
<1> QED
  BY <1>1, <1>2 DEF ProxyInv

-----------------------------------------------------------------------------
(* The initial state, main() and the clients.                              *)

LEMMA ProxyInvInit == ProxyInit => ProxyInv
<1> SUFFICES ASSUME ProxyInit PROVE ProxyInv
  OBVIOUS
<1> USE DEF ProxyInit
<1>1. ProxyTypeOK
  BY PoolInvInit, MaxRequestsAssumption DEF PoolInv, ProxyTypeOK, Stages, Files
<1>2. AcceptInv
  BY DEF PoolInit, AcceptInv
<1>3. ASSUME NEW t \in Threads PROVE WorkerInv(t)
  BY DEF WorkerInv, EventsInv, LocalsInv, TodoInv, OpsInv, Serving, WithServer
<1> QED
  BY <1>1, <1>2, <1>3 DEF ProxyInv

\* A step that changes nothing of main() that AcceptInv is about, no home and
\* no descriptor.
LEMMA NoDescriptorStep ==
  ASSUME ProxyInv, UNCHANGED <<kernelVars, connfd, doitVars, home>>, ProxyTypeOK',
         \A c \in Conns : conn'[c] # "added" => conn[c] # "added",
         \A c \in Conns : conn'[c] = "accepted" =>
            conn[c] = "accepted" /\ main' \in {"assert", "add"}
  PROVE  ProxyInv'
<1>1. AcceptInv'
  BY DEF ProxyInv, AcceptInv, kernelVars, Client
<1>2. ASSUME NEW t \in Threads PROVE WorkerInv(t)'
  <2>1. armed[t] \subseteq interest[t]
    BY DEF ProxyInv, WorkerInv, EventsInv
  <2> QED
    BY <2>1, OthersStep DEF ProxyInv, kernelVars, doitVars
<1> QED
  BY <1>1, <1>2 DEF ProxyInv

LEMMA MainElseInv == ProxyInv /\ PoolTypeOK' /\ MainElse => ProxyInv'
<1> SUFFICES ASSUME ProxyInv, PoolTypeOK', MainElse PROVE ProxyInv'
  OBVIOUS
<1>1. ProxyTypeOK'
  BY DEF MainElse, proxyVars, kernelVars, doitVars, clientVars, ProxyInv, ProxyTypeOK
<1>2. UNCHANGED home /\ UNCHANGED conn
  BY DEF MainElse, MainLock, MainCreate, MainWake, MainPass, MainAcceptFails,
         MainAssert, MainAddFails
<1>3. main \in {"assert", "add"} => main' \in {"assert", "add"}
  BY DEF MainElse, MainLock, MainCreate, MainWake, MainPass, MainAcceptFails,
         MainAssert, MainAddFails
<1>4. UNCHANGED <<kernelVars, connfd, doitVars>>
  BY DEF MainElse, proxyVars
<1> QED
  BY <1>1, <1>2, <1>3, <1>4, NoDescriptorStep DEF ProxyInv, AcceptInv

LEMMA StartWorkerInv ==
  ASSUME NEW t \in Threads, ProxyInv, PoolTypeOK', StartWorker(t) PROVE ProxyInv'
<1>1. ProxyTypeOK'
  BY DEF StartWorker, proxyVars, kernelVars, doitVars, clientVars, ProxyInv, ProxyTypeOK
<1>2. UNCHANGED <<home, conn, main>>
  BY DEF StartWorker, WorkerStart, ReadIndex, PassBaton, PublishEpoll, WorkerExit
<1> QED
  BY <1>1, <1>2, NoDescriptorStep DEF StartWorker, proxyVars, ProxyInv, AcceptInv

LEMMA ClientInv ==
  ASSUME NEW c \in Conns, ProxyInv, PoolTypeOK',
         Connect(c) \/ ClientSend(c) \/ ClientClose(c)
  PROVE  ProxyInv'
<1>1. ProxyTypeOK'
  <2>1. CASE Connect(c)
    BY <2>1 DEF Connect, proxyVars, kernelVars, doitVars, clientVars, ProxyInv, ProxyTypeOK
  <2>2. CASE ClientSend(c)
    <3>1. sent' \in [Conns -> 0 .. MaxRequests]
      <4>1. sent \in [Conns -> 0 .. MaxRequests] /\ sent[c] < MaxRequests
        BY <2>2 DEF ClientSend, ProxyInv, ProxyTypeOK
      <4>2. sent' = [sent EXCEPT ![c] = @ + 1]
        BY <2>2 DEF ClientSend
      <4>3. sent[c] + 1 \in 0 .. MaxRequests
        BY <4>1, MaxRequestsAssumption
      <4> QED
        BY <4>1, <4>2, <4>3
    <3>2. unread' \in [Conns -> BOOLEAN]
      BY <2>2 DEF ClientSend, ProxyInv, ProxyTypeOK
    <3> QED
      BY <2>2, <3>1, <3>2 DEF ClientSend, kernelVars, doitVars, ProxyInv, ProxyTypeOK
  <2>3. CASE ClientClose(c)
    BY <2>3 DEF ClientClose, kernelVars, doitVars, ProxyInv, ProxyTypeOK
  <2> QED
    BY <2>1, <2>2, <2>3
<1>2. UNCHANGED <<kernelVars, connfd, doitVars, home, main>>
  BY DEF Connect, ClientConnect, proxyVars, ClientSend, ClientClose, poolVars
<1>3. \A d \in Conns : /\ conn'[d] # "added" => conn[d] # "added"
                       /\ conn'[d] = "accepted" => conn[d] = "accepted"
  BY DEF Connect, ClientConnect, ClientSend, ClientClose, poolVars, ProxyInv,
         ProxyTypeOK, PoolTypeOK
<1> QED
  BY <1>1, <1>2, <1>3, NoDescriptorStep DEF ProxyInv, AcceptInv

LEMMA AcceptStepInv ==
  ASSUME NEW c \in Conns, ProxyInv, PoolTypeOK', Accept(c) PROVE ProxyInv'
<1> USE DEF Accept
<1>1. PICK f \in Fds : IsLowestFree(f) /\ file' = [file EXCEPT ![f] = Client(c)] /\ connfd' = f
  OBVIOUS
<1>2. file[f] = Free /\ file'[f] = Client(c) /\ \A g \in Fds : g # f => file'[g] = file[g]
  BY <1>1 DEF IsLowestFree, ProxyInv, ProxyTypeOK
<1>3. ProxyTypeOK'
  BY <1>1 DEF doitVars, clientVars, ProxyInv, ProxyTypeOK, Files
<1>4. AcceptInv'
  <2>1. \A d \in Conns : conn'[d] = "accepted" => d = c
    BY DEF MainAccept, ProxyInv, AcceptInv, ProxyTypeOK, PoolTypeOK
  <2>2. \A d \in Conns : conn'[d] # "added" => home'[d] = 0
    BY DEF MainAccept, ProxyInv, AcceptInv, ProxyTypeOK, PoolTypeOK
  <2>3. main' = "assert"
    BY DEF MainAccept
  <2> QED
    BY <1>1, <1>2, <2>1, <2>2, <2>3 DEF AcceptInv, Client
<1>5. ASSUME NEW t \in Threads PROVE WorkerInv(t)'
  <2>1. \A g \in Fds : OwnFile(t, g) => file'[g] = file[g]
    BY <1>2, FreeIsNobodys
  <2>2. home' = home /\ armed[t] \subseteq interest[t]
    BY DEF MainAccept, ProxyInv, WorkerInv, EventsInv
  <2> QED
    BY <2>1, <2>2, OthersStep DEF ProxyInv, doitVars
<1> QED
  BY <1>3, <1>4, <1>5 DEF ProxyInv

LEMMA AddStepInv ==
  ASSUME NEW c \in Conns, ProxyInv, PoolTypeOK', Add(c) PROVE ProxyInv'
<1> USE DEF Add
<1>1. PICK t \in Threads : /\ epoll_list[round_robin] = EpollFd(t)
                           /\ interest' = [interest EXCEPT ![t] = @ \cup {connfd}]
                           /\ armed' = [armed EXCEPT ![t] = @ \cup {connfd}]
  OBVIOUS
<1>2. PICK f \in Fds : f = connfd /\ file[f] = Client(c) /\ home[c] = 0
  BY DEF MainAdd, ProxyInv, AcceptInv
<1>3. /\ home'[c] = EpollFd(t) /\ conn'[c] = "added"
      /\ \A d \in Conns : d # c => home'[d] = home[d] /\ conn'[d] = conn[d]
  BY <1>1 DEF MainAdd, ProxyInv, ProxyTypeOK, PoolTypeOK
<1>4. ProxyTypeOK'
  <2>1. /\ interest' \in [Threads -> SUBSET Fds]
        /\ armed' \in [Threads -> SUBSET Fds]
    <3>1. /\ interest \in [Threads -> SUBSET Fds] /\ armed \in [Threads -> SUBSET Fds]
          /\ interest[t] \cup {f} \in SUBSET Fds /\ armed[t] \cup {f} \in SUBSET Fds
      BY DEF ProxyInv, ProxyTypeOK
    <3> QED
      BY <1>1, <1>2, <3>1
  <2> QED
    BY <2>1 DEF doitVars, clientVars, ProxyInv, ProxyTypeOK
<1>5. AcceptInv'
  <2>1. \A d \in Conns : conn'[d] # "accepted"
    BY <1>2, <1>3, FilesDiffer DEF ProxyInv, AcceptInv
  <2> QED
    BY <1>3, <2>1 DEF ProxyInv, AcceptInv
<1>6. \A s \in Threads : ~ ClientOf(s, f) /\ ~ OwnFile(s, f)
  BY <1>2, FilesDiffer, EpollFdPositive DEF ClientOf, OwnFile
<1>7. ASSUME NEW s \in Threads, s # t PROVE WorkerInv(s)'
  <2>1. \A d \in Conns : home[d] = EpollFd(s) => home'[d] = home[d]
    BY <1>2, <1>3, EpollFdPositive
  <2>2. armed[s] \subseteq interest[s]
    BY DEF ProxyInv, WorkerInv, EventsInv
  <2> QED
    BY <1>1, <1>7, <2>1, <2>2, OthersStep DEF ProxyInv, ProxyTypeOK, doitVars
<1>8. WorkerInv(t)'
  <2>1. UNCHANGED doitVars /\ UNCHANGED file
    OBVIOUS
  <2>2. \A g \in Fds : /\ ClientOf(t, g) => ClientOf(t, g)'
                       /\ OwnFile(t, g) => OwnFile(t, g)'
    BY <1>2, <1>3, EpollFdPositive DEF ClientOf, OwnFile, Client, Server, Tunnel, EpollFd
  <2>3. ClientOf(t, f)'
    BY <1>2, <1>3 DEF ClientOf, Client, EpollFd
  <2>4. /\ interest'[t] = interest[t] \cup {f}
        /\ armed'[t] = armed[t] \cup {f}
    BY <1>1, <1>2 DEF ProxyInv, ProxyTypeOK
  <2>5. EventsInv(t)'
    <3>1. EventsInv(t) /\ interest[t] \subseteq Fds /\ batch[t] \subseteq Fds /\ batch' = batch
      BY <2>1 DEF doitVars, ProxyInv, WorkerInv, ProxyTypeOK
    <3>2. f \notin batch[t]
      BY <1>6, <3>1 DEF EventsInv
    <3> QED
      BY <2>2, <2>3, <2>4, <3>1, <3>2 DEF EventsInv
  <2>6. LocalsInv(t)'
    BY <1>6, <2>1, <2>2, <2>4 DEF doitVars, ProxyInv, WorkerInv, LocalsInv, Server, Tunnel
  <2>7. TodoInv(t)'
    BY <2>1, <2>2, TodoTyped DEF doitVars, ProxyInv, WorkerInv, TodoInv, OpsInv
  <2> QED
    BY <2>5, <2>6, <2>7 DEF WorkerInv
<1> QED
  BY <1>4, <1>5, <1>7, <1>8 DEF ProxyInv

-----------------------------------------------------------------------------
(* A worker's event loop, and what doit() does before it lets go of its     *)
(* descriptors.                                                             *)

LEMMA NotClosing ==
  ASSUME NEW t, TodoInv(t), stage[t] # "close", stage'[t] # "close", todo'[t] = todo[t]
  PROVE  TodoInv(t)'
BY DEF TodoInv, OpsInv

\* A step in which only files that are nobody's client change, and no event.
LEMMA EventsKept ==
  ASSUME NEW t \in Threads, ProxyTypeOK, EventsInv(t), UNCHANGED <<home, batch>>,
         interest'[t] \subseteq interest[t], armed'[t] \subseteq armed[t],
         armed'[t] \subseteq interest'[t],
         \A f \in Fds : f \in interest'[t] \cup batch[t] => file'[f] = file[f]
  PROVE  EventsInv(t)'
<1>1. interest[t] \subseteq Fds /\ batch[t] \subseteq Fds /\ batch' = batch
  BY DEF ProxyTypeOK
<1>2. ASSUME NEW f \in interest'[t] \cup batch[t] PROVE ClientOf(t, f)'
  <2>1. ClientOf(t, f) /\ file'[f] = file[f]
    BY <1>1 DEF EventsInv
  <2> QED
    BY <2>1 DEF ClientOf, Client, EpollFd
<1> QED
  BY <1>1, <1>2 DEF EventsInv


LEMMA EpollWaitInv ==
  ASSUME NEW t \in Threads, ProxyInv, EpollWait(t) PROVE ProxyInv'
<1> USE DEF EpollWait
<1>1. PICK events \in SUBSET Ready(t) :
         /\ batch' = [batch EXCEPT ![t] = events]
         /\ armed' = [armed EXCEPT ![t] = @ \ events]
  OBVIOUS
<1>2. events \subseteq armed[t] /\ events \subseteq Fds
  BY DEF Ready, ProxyInv, ProxyTypeOK
<1>3. ProxyTypeOK'
  BY <1>1, <1>2 DEF poolVars, clientVars, Stages, ProxyInv, ProxyTypeOK, PoolTypeOK
<1>4. /\ batch'[t] = events /\ armed'[t] = armed[t] \ events /\ stage'[t] = "batch"
      /\ UNCHANGED <<file, home, interest, fd, todo>>
  BY <1>1 DEF poolVars, ProxyInv, ProxyTypeOK
<1>5. WorkerInv(t)'
  <2>1. EventsInv(t)'
    BY <1>2, <1>4 DEF ProxyInv, WorkerInv, EventsInv, ClientOf, Client, EpollFd
  <2>2. LocalsInv(t)'
    BY <1>4 DEF ProxyInv, WorkerInv, LocalsInv, Serving, WithServer
  <2>3. TodoInv(t)'
    BY <1>4, NotClosing DEF ProxyInv, WorkerInv
  <2> QED
    BY <2>1, <2>2, <2>3 DEF WorkerInv
<1> QED
  BY <1>1, <1>3, <1>5, WorkerFrame DEF ProxyInv, WorkerInv, EventsInv, ProxyTypeOK

LEMMA CallDoitInv ==
  ASSUME NEW t \in Threads, ProxyInv, CallDoit(t) PROVE ProxyInv'
<1> USE DEF CallDoit
<1>1. PICK f \in batch[t] : /\ fd' = [fd EXCEPT ![t] = f]
                            /\ batch' = [batch EXCEPT ![t] = @ \ {f}]
  OBVIOUS
<1>2. f \in Fds
  BY DEF ProxyInv, ProxyTypeOK
<1>3. ProxyTypeOK'
  BY <1>1, <1>2 DEF poolVars, kernelVars, clientVars, Stages, ProxyInv, ProxyTypeOK, PoolTypeOK
<1>4. /\ batch'[t] = batch[t] \ {f} /\ fd'[t] = f /\ stage'[t] = "request"
      /\ UNCHANGED <<file, home, interest, armed, todo>>
  BY <1>1 DEF poolVars, kernelVars, ProxyInv, ProxyTypeOK
<1>5. WorkerInv(t)'
  <2>1. EventsInv(t)'
    BY <1>4 DEF ProxyInv, WorkerInv, EventsInv, ClientOf, Client, EpollFd
  <2>2. ClientOf(t, f)' /\ f \notin armed[t]
    BY <1>4 DEF ProxyInv, WorkerInv, EventsInv, ClientOf, Client, EpollFd
  <2>3. LocalsInv(t)'
    BY <1>2, <1>4, <2>2 DEF LocalsInv, Serving, WithServer
  <2>4. TodoInv(t)'
    BY <1>4, NotClosing DEF ProxyInv, WorkerInv
  <2> QED
    BY <2>1, <2>3, <2>4 DEF WorkerInv
<1> QED
  BY <1>1, <1>3, <1>5, WorkerFrame DEF kernelVars, ProxyInv, WorkerInv, EventsInv, ProxyTypeOK

\* A step that changes the stage, not to or from "close", and no descriptor.
LEMMA StageStepInv ==
  ASSUME NEW t \in Threads, ProxyInv,
         UNCHANGED <<poolVars, kernelVars, connfd, batch, fd, serverfd, tunnelfd, todo>>,
         NEW x \in Serving, stage[t] \in Serving, stage' = [stage EXCEPT ![t] = x],
         x = stage[t] \/ x \in {"socket", "refuse"} \/ (x = "exchange" /\ stage[t] = "connect"),
         ProxyTypeOK'
  PROVE  ProxyInv'
<1>1. stage'[t] = x /\ UNCHANGED <<file, home, interest, armed, batch, fd>>
  BY DEF ProxyInv, ProxyTypeOK, poolVars, kernelVars
<1>2. ProxyTypeOK /\ EventsInv(t) /\ LocalsInv(t) /\ TodoInv(t) /\ armed[t] \subseteq interest[t]
  BY DEF ProxyInv, WorkerInv, EventsInv
<1>3. EventsInv(t)'
  BY <1>1, <1>2, EventsKept
<1>4. LocalsInv(t)'
  BY <1>1, <1>2 DEF LocalsInv, ClientOf, Client, EpollFd, Server, Tunnel, Serving, WithServer
<1>5. TodoInv(t)'
  BY <1>1, <1>2, NotClosing DEF Serving
<1>6. WorkerInv(t)'
  BY <1>3, <1>4, <1>5 DEF WorkerInv
<1> QED
  BY <1>6, WorkerFrame DEF kernelVars, ProxyInv, WorkerInv, EventsInv, ProxyTypeOK

LEMMA ReadRequestInv ==
  ASSUME NEW t \in Threads, ProxyInv, ReadRequest(t) PROVE ProxyInv'
<1> USE DEF ReadRequest
<1>1. PICK c \in Conns : unread' = [unread EXCEPT ![c] = FALSE]
  OBVIOUS
<1>2. kind' \in [Threads -> Kinds \cup {"none"}]
  <2>1. kind \in [Threads -> Kinds \cup {"none"}]
    BY DEF ProxyInv, ProxyTypeOK
  <2>2. kind' = kind \/ \E x \in Kinds : kind' = [kind EXCEPT ![t] = x]
    BY DEF Kinds
  <2> HIDE DEF ReadRequest
  <2> QED
    BY <2>1, <2>2, Zenon
<1>3. PICK x \in {"refuse", "socket"} : stage' = [stage EXCEPT ![t] = x]
  OBVIOUS
<1>4. ProxyTypeOK'
  BY <1>1, <1>2, <1>3 DEF poolVars, kernelVars, Stages, ProxyInv, ProxyTypeOK, PoolTypeOK
<1> QED
  BY <1>3, <1>4, StageStepInv DEF Serving, Stages

LEMMA OpenSocketFailsInv ==
  ASSUME NEW t \in Threads, ProxyInv, OpenSocketFails(t) PROVE ProxyInv'
<1> USE DEF OpenSocketFails
<1>1. ProxyTypeOK'
  BY DEF poolVars, kernelVars, clientVars, Stages, ProxyInv, ProxyTypeOK, PoolTypeOK
<1> QED
  BY <1>1, StageStepInv DEF Serving, Stages

LEMMA OpenSocketInv ==
  ASSUME NEW t \in Threads, ProxyInv, OpenSocket(t) PROVE ProxyInv'
<1> USE DEF OpenSocket
<1>1. PICK f \in Fds : /\ IsLowestFree(f) /\ file' = [file EXCEPT ![f] = Server(t)]
                       /\ serverfd' = [serverfd EXCEPT ![t] = f]
  OBVIOUS
<1>2. ProxyTypeOK'
  <2>1. file' \in [Fds -> Files]
    BY <1>1 DEF Files, ProxyInv, ProxyTypeOK
  <2>2. serverfd' \in [Threads -> Fds \cup {0}] /\ stage' \in [Threads -> Stages]
    BY <1>1 DEF Stages, ProxyInv, ProxyTypeOK
  <2> QED
    BY <2>1, <2>2 DEF poolVars, clientVars, ProxyInv, ProxyTypeOK, PoolTypeOK
<1>3. /\ file[f] = Free /\ file'[f] = Server(t) /\ serverfd'[t] = f /\ stage'[t] = "connect"
      /\ \A g \in Fds : g # f => file'[g] = file[g]
      /\ UNCHANGED <<home, interest, armed, batch, fd, todo>>
  BY <1>1 DEF IsLowestFree, poolVars, ProxyInv, ProxyTypeOK
<1>4. ProxyTypeOK /\ EventsInv(t) /\ LocalsInv(t) /\ TodoInv(t) /\ armed[t] \subseteq interest[t]
  BY DEF ProxyInv, WorkerInv, EventsInv
<1>5. EventsInv(t)'
  <2>1. f \notin interest[t] \cup batch[t]
    BY <1>3, <1>4, FreeIsNobodys DEF EventsInv
  <2> QED
    BY <1>3, <1>4, <2>1, EventsKept
<1>6. LocalsInv(t)'
  <2>1. fd[t] # f
    BY <1>3, <1>4, FreeIsNobodys DEF LocalsInv, Serving, Stages
  <2>2. ClientOf(t, fd[t])'
    BY <1>3, <1>4, <2>1 DEF LocalsInv, Serving, Stages, ClientOf, Client, EpollFd
  <2> QED
    BY <1>3, <1>4, <2>2 DEF LocalsInv, Serving, Stages, WithServer, Server
<1>7. TodoInv(t)'
  BY <1>3, <1>4, NotClosing
<1>8. WorkerInv(t)'
  BY <1>5, <1>6, <1>7 DEF WorkerInv
<1> QED
  BY <1>1, <1>2, <1>3, <1>8, WorkerFrame DEF ProxyInv, WorkerInv, EventsInv, ProxyTypeOK

LEMMA ConnectServerInv ==
  ASSUME NEW t \in Threads, ProxyInv, ConnectServer(t) PROVE ProxyInv'
<1> USE DEF ConnectServer
<1>1. CASE stage' = [stage EXCEPT ![t] = "exchange"] /\ UNCHANGED <<file, serverfd>>
  <2>1. ProxyTypeOK'
    BY <1>1 DEF poolVars, clientVars, Stages, ProxyInv, ProxyTypeOK, PoolTypeOK
  <2> QED
    BY <1>1, <2>1, StageStepInv DEF kernelVars, Serving, Stages
<1>2. CASE /\ stage' = [stage EXCEPT ![t] = "refuse"]
           /\ file' = [file EXCEPT ![serverfd[t]] = Free]
           /\ serverfd' = [serverfd EXCEPT ![t] = 0]
  <2>1. ProxyTypeOK'
    BY <1>2 DEF poolVars, clientVars, Stages, Files, ProxyInv, ProxyTypeOK, PoolTypeOK
  <2>2. ProxyTypeOK /\ EventsInv(t) /\ LocalsInv(t) /\ TodoInv(t) /\ armed[t] \subseteq interest[t]
    BY DEF ProxyInv, WorkerInv, EventsInv
  <2>3. PICK f \in Fds : f = serverfd[t] /\ file[f] = Server(t)
    BY <2>2 DEF LocalsInv, WithServer
  <2>4. /\ file'[f] = Free /\ stage'[t] = "refuse"
        /\ \A g \in Fds : g # f => file'[g] = file[g]
        /\ UNCHANGED <<home, interest, armed, batch, fd, todo>>
    BY <1>2, <2>3 DEF poolVars, ProxyInv, ProxyTypeOK
  <2>5. ~ ClientOf(t, f) /\ OwnFile(t, f)
    BY <2>3, FilesDiffer DEF ClientOf, OwnFile
  <2>6. EventsInv(t)'
    <3>1. f \notin interest[t] \cup batch[t]
      BY <2>2, <2>5 DEF EventsInv
    <3> QED
      BY <2>2, <2>4, <3>1, EventsKept
  <2>7. LocalsInv(t)'
    <3>1. fd[t] # f /\ fd[t] \in Fds
      BY <2>2, <2>5 DEF LocalsInv, Serving, Stages
    <3>2. ClientOf(t, fd[t])'
      BY <2>2, <2>4, <3>1 DEF LocalsInv, Serving, Stages, ClientOf, Client, EpollFd
    <3> QED
      BY <2>2, <2>4, <3>2 DEF LocalsInv, Serving, Stages, WithServer
  <2>8. TodoInv(t)'
    BY <2>2, <2>4, NotClosing
  <2>9. WorkerInv(t)'
    BY <2>6, <2>7, <2>8 DEF WorkerInv
  <2>10. \A g \in Fds : file'[g] # file[g] => file[g] = Free \/ OwnFile(t, g)
    BY <2>4, <2>5
  <2> QED
    BY <1>2, <2>1, <2>9, <2>10, WorkerFrame DEF ProxyInv, WorkerInv, EventsInv, ProxyTypeOK
<1> QED
  BY <1>1, <1>2

LEMMA StartTunnelInv ==
  ASSUME NEW t \in Threads, ProxyInv, StartTunnel(t) PROVE ProxyInv'
<1> USE DEF StartTunnel
<1>1. ProxyTypeOK'
  <2>1. unread' \in [Conns -> BOOLEAN]
    BY DEF ProxyInv, ProxyTypeOK
  <2>2. /\ interest' \in [Threads -> SUBSET Fds] /\ armed' \in [Threads -> SUBSET Fds]
        /\ stage' \in [Threads -> Stages] /\ kind' \in [Threads -> Kinds \cup {"none"}]
    BY DEF Stages, ProxyInv, ProxyTypeOK
  <2> QED
    BY <2>1, <2>2 DEF poolVars, ProxyInv, ProxyTypeOK, PoolTypeOK
<1>2. /\ interest'[t] = interest[t] \ {fd[t]} /\ armed'[t] = armed[t] \ {fd[t]}
      /\ stage'[t] = "epoll_create1"
      /\ UNCHANGED <<file, home, batch, fd, serverfd, todo>>
  BY DEF poolVars, ProxyInv, ProxyTypeOK
<1>3. ProxyTypeOK /\ EventsInv(t) /\ LocalsInv(t) /\ TodoInv(t) /\ armed[t] \subseteq interest[t]
  BY DEF ProxyInv, WorkerInv, EventsInv
<1>4. EventsInv(t)'
  BY <1>2, <1>3, EventsKept
<1>5. LocalsInv(t)'
  BY <1>2, <1>3 DEF LocalsInv, ClientOf, Client, EpollFd, Server, Serving, Stages, WithServer
<1>6. TodoInv(t)'
  BY <1>2, <1>3, NotClosing
<1>7. WorkerInv(t)'
  BY <1>4, <1>5, <1>6 DEF WorkerInv
<1> QED
  BY <1>1, <1>7, WorkerFrame DEF ProxyInv, WorkerInv, EventsInv, ProxyTypeOK

LEMMA CreateTunnelInv ==
  ASSUME NEW t \in Threads, ProxyInv, CreateTunnel(t) PROVE ProxyInv'
<1> USE DEF CreateTunnel
<1>1. PICK f \in Fds : /\ IsLowestFree(f) /\ file' = [file EXCEPT ![f] = Tunnel(t)]
                       /\ tunnelfd' = [tunnelfd EXCEPT ![t] = f]
  OBVIOUS
<1>2. ProxyTypeOK'
  <2>1. file' \in [Fds -> Files]
    BY <1>1 DEF Files, ProxyInv, ProxyTypeOK
  <2>2. tunnelfd' \in [Threads -> Fds \cup {0, -1}] /\ stage' \in [Threads -> Stages]
    BY <1>1 DEF Stages, ProxyInv, ProxyTypeOK
  <2> QED
    BY <2>1, <2>2 DEF poolVars, clientVars, ProxyInv, ProxyTypeOK, PoolTypeOK
<1>3. /\ file[f] = Free /\ file'[f] = Tunnel(t) /\ tunnelfd'[t] = f /\ stage'[t] = "tunnel"
      /\ \A g \in Fds : g # f => file'[g] = file[g]
      /\ UNCHANGED <<home, interest, armed, batch, fd, serverfd, todo>>
  BY <1>1 DEF IsLowestFree, poolVars, ProxyInv, ProxyTypeOK
<1>4. ProxyTypeOK /\ EventsInv(t) /\ LocalsInv(t) /\ TodoInv(t) /\ armed[t] \subseteq interest[t]
  BY DEF ProxyInv, WorkerInv, EventsInv
<1>5. EventsInv(t)'
  <2>1. f \notin interest[t] \cup batch[t]
    BY <1>3, <1>4, FreeIsNobodys DEF EventsInv
  <2> QED
    BY <1>3, <1>4, <2>1, EventsKept
<1>6. LocalsInv(t)'
  <2>1. fd[t] # f /\ serverfd[t] # f
    BY <1>3, <1>4, FreeIsNobodys DEF LocalsInv, Serving, WithServer, Stages, OwnFile
  <2>2. ClientOf(t, fd[t])'
    BY <1>3, <1>4, <2>1 DEF LocalsInv, Serving, Stages, ClientOf, Client, EpollFd
  <2> QED
    BY <1>3, <1>4, <2>1, <2>2 DEF LocalsInv, Serving, Stages, WithServer, Server, Tunnel
<1>7. TodoInv(t)'
  BY <1>3, <1>4, NotClosing
<1>8. WorkerInv(t)'
  BY <1>5, <1>6, <1>7 DEF WorkerInv
<1> QED
  BY <1>1, <1>2, <1>3, <1>8, WorkerFrame DEF ProxyInv, WorkerInv, EventsInv, ProxyTypeOK

-----------------------------------------------------------------------------
(* Letting go of the descriptors.                                          *)

\* While doit() runs, its locals are different files of the worker, and none
\* of them waits in the batch.
LEMMA LocalsAreOwn ==
  ASSUME NEW t \in Threads, ProxyInv, stage[t] \in Serving
  PROVE  /\ fd[t] \in Fds /\ OwnFile(t, fd[t]) /\ fd[t] \notin batch[t]
         /\ stage[t] \in WithServer =>
              /\ serverfd[t] \in Fds /\ OwnFile(t, serverfd[t]) /\ serverfd[t] \notin batch[t]
              /\ serverfd[t] # fd[t]
         /\ stage[t] = "tunnel" =>
              /\ tunnelfd[t] \in Fds /\ OwnFile(t, tunnelfd[t]) /\ tunnelfd[t] \notin batch[t]
              /\ tunnelfd[t] # fd[t] /\ tunnelfd[t] # serverfd[t]
<1>1. EventsInv(t) /\ LocalsInv(t)
  BY DEF ProxyInv, WorkerInv
<1>2. \A f \in Fds : file[f] \in {Server(t), Tunnel(t)} => ~ ClientOf(t, f)
  BY FilesDiffer DEF ClientOf
<1> QED
  BY <1>1, <1>2, FilesDiffer DEF EventsInv, LocalsInv, OwnFile, WithServer

\* The step with which doit() begins to let go.
LEMMA ClosingInv ==
  ASSUME NEW t \in Threads, ProxyInv, stage[t] \in Serving,
         NEW ops \in Seq(Operations), ops # <<>>, OpsInv(t, ops),
         todo' = [todo EXCEPT ![t] = ops], stage' = [stage EXCEPT ![t] = "close"],
         UNCHANGED <<poolVars, kernelVars, connfd, batch, fd, serverfd, gone, sent, fate>>,
         unread' \in [Conns -> BOOLEAN], kind' \in [Threads -> Kinds \cup {"none"}],
         tunnelfd' \in [Threads -> Fds \cup {0, -1}],
         \A s \in Threads : s # t => tunnelfd'[s] = tunnelfd[s]
  PROVE  ProxyInv'
<1>1. ProxyTypeOK'
  <2>1. todo' \in [Threads -> Seq([op : {"del", "close", "rearm"}, on : Fds \cup {-1}])]
    BY DEF Operations, ProxyInv, ProxyTypeOK
  <2>2. stage' \in [Threads -> Stages]
    BY DEF Stages, ProxyInv, ProxyTypeOK
  <2> QED
    BY <2>1, <2>2 DEF poolVars, kernelVars, ProxyInv, ProxyTypeOK, PoolTypeOK
<1>2. /\ stage'[t] = "close" /\ todo'[t] = ops
      /\ UNCHANGED <<file, home, interest, armed, batch>>
  BY DEF poolVars, kernelVars, ProxyInv, ProxyTypeOK
<1>3. ProxyTypeOK /\ EventsInv(t) /\ armed[t] \subseteq interest[t]
  BY DEF ProxyInv, WorkerInv, EventsInv
<1>4. EventsInv(t)'
  BY <1>2, <1>3, EventsKept
<1>5. LocalsInv(t)'
  BY <1>2 DEF LocalsInv, Serving, WithServer
<1>6. TodoInv(t)'
  <2>1. \A f : OwnFile(t, f)' <=> OwnFile(t, f)
    BY <1>2 DEF OwnFile, ClientOf, Client, Server, Tunnel, EpollFd
  <2>2. OpsInv(t, ops)'
    BY <1>2, <2>1 DEF OpsInv
  <2> QED
    BY <1>2, <2>2 DEF TodoInv
<1>7. WorkerInv(t)'
  BY <1>4, <1>5, <1>6 DEF WorkerInv
<1> QED
  BY <1>1, <1>7, WorkerFrame DEF kernelVars, ProxyInv, WorkerInv, EventsInv, ProxyTypeOK

LEMMA RefuseInv ==
  ASSUME NEW t \in Threads, ProxyInv, Refuse(t) PROVE ProxyInv'
<1> USE DEF Refuse
<1> DEFINE ops == <<Close(fd[t])>>
<1>1. stage[t] \in Serving
  BY DEF Serving, Stages
<1>2. ops \in Seq(Operations) /\ ops # <<>> /\ OpsInv(t, ops)
  BY <1>1, LocalsAreOwn DEF OpsInv, Operations, Close
<1>3. unread' \in [Conns -> BOOLEAN] /\ kind' \in [Threads -> Kinds \cup {"none"}]
  BY DEF clientVars, ProxyInv, ProxyTypeOK
<1> QED
  BY <1>1, <1>2, <1>3, ClosingInv DEF clientVars, ProxyInv, ProxyTypeOK

\* Every ending lets go of the client and the server, in an order that uses
\* neither number after its close.
LEMMA EndingsOps ==
  ASSUME NEW t \in Threads, NEW k, NEW f \in Fds, NEW s \in Fds, f # s,
         OwnFile(t, f), OwnFile(t, s), f \notin batch[t], s \notin batch[t],
         NEW ending \in Endings(k, f, s)
  PROVE  ending \in Seq(Operations) /\ ending # <<>> /\ OpsInv(t, ending)
<1>1. ending \in {<<Del(f), Close(s), Close(f)>>, <<Close(s), Del(f), Close(f)>>,
                  <<Close(s), Rearm(f)>>, <<Del(f), Close(f), Close(s)>>}
  BY DEF Endings
<1>2. Del(f) \in Operations /\ Close(f) \in Operations /\ Close(s) \in Operations /\ Rearm(f) \in Operations
  BY DEF Operations, Del, Close, Rearm
<1>3. ending \in Seq(Operations) /\ ending # <<>>
  <2>1. \A a, b, c \in Operations : /\ <<a, b, c>> \in Seq(Operations) /\ <<a, b, c>> # <<>>
                                    /\ <<a, b>> \in Seq(Operations) /\ <<a, b>> # <<>>
    OBVIOUS
  <2> QED
    BY <1>1, <1>2, <2>1
<1>4. OpsInv(t, ending)
  <2>1. CASE ending = <<Del(f), Close(s), Close(f)>>
    BY <2>1 DEF OpsInv, Del, Close
  <2>2. CASE ending = <<Close(s), Del(f), Close(f)>>
    BY <2>2 DEF OpsInv, Del, Close
  <2>3. CASE ending = <<Close(s), Rearm(f)>>
    BY <2>3 DEF OpsInv, Close, Rearm
  <2>4. CASE ending = <<Del(f), Close(f), Close(s)>>
    BY <2>4 DEF OpsInv, Del, Close
  <2> QED
    BY <1>1, <2>1, <2>2, <2>3, <2>4
<1> QED
  BY <1>3, <1>4

LEMMA ExchangeInv ==
  ASSUME NEW t \in Threads, ProxyInv, Exchange(t) PROVE ProxyInv'
<1> USE DEF Exchange
<1>1. PICK ops \in Endings(kind[t], fd[t], serverfd[t]) : todo' = [todo EXCEPT ![t] = ops]
  OBVIOUS
<1>2. stage[t] \in Serving /\ stage[t] \in WithServer
  BY DEF Serving, Stages, WithServer
<1>3. ops \in Seq(Operations) /\ ops # <<>> /\ OpsInv(t, ops)
  BY <1>2, LocalsAreOwn, EndingsOps
<1>4. unread' \in [Conns -> BOOLEAN] /\ kind' \in [Threads -> Kinds \cup {"none"}]
  BY DEF ProxyInv, ProxyTypeOK
<1> QED
  BY <1>1, <1>2, <1>3, <1>4, ClosingInv DEF ProxyInv, ProxyTypeOK

LEMMA CreateTunnelFailsInv ==
  ASSUME NEW t \in Threads, ProxyInv, CreateTunnelFails(t) PROVE ProxyInv'
<1> USE DEF CreateTunnelFails
<1> DEFINE ops == <<Close(fd[t]), Close(serverfd[t]), Close(-1)>>
<1>1. stage[t] \in Serving /\ stage[t] \in WithServer
  BY DEF Serving, Stages, WithServer
<1>2. ops \in Seq(Operations) /\ ops # <<>> /\ OpsInv(t, ops)
  BY <1>1, LocalsAreOwn DEF OpsInv, Operations, Close
<1>3. unread' \in [Conns -> BOOLEAN] /\ kind' \in [Threads -> Kinds \cup {"none"}]
  BY DEF clientVars, ProxyInv, ProxyTypeOK
<1> QED
  BY <1>1, <1>2, <1>3, ClosingInv DEF clientVars, ProxyInv, ProxyTypeOK

LEMMA TunnelEndsInv ==
  ASSUME NEW t \in Threads, ProxyInv, TunnelEnds(t) PROVE ProxyInv'
<1> USE DEF TunnelEnds
<1> DEFINE ops == <<Close(fd[t]), Close(serverfd[t]), Close(tunnelfd[t])>>
<1>1. stage[t] \in Serving /\ stage[t] \in WithServer
  BY DEF Serving, Stages, WithServer
<1>2. ops \in Seq(Operations) /\ ops # <<>> /\ OpsInv(t, ops)
  BY <1>1, LocalsAreOwn DEF OpsInv, Operations, Close
<1>3. unread' \in [Conns -> BOOLEAN] /\ kind' \in [Threads -> Kinds \cup {"none"}]
  BY DEF clientVars, ProxyInv, ProxyTypeOK
<1> QED
  BY <1>1, <1>2, <1>3, ClosingInv DEF clientVars, ProxyInv, ProxyTypeOK

\* The first operation is on a file of the worker; the others are too, and on
\* another one if the first is a close.
LEMMA FirstAndRest ==
  ASSUME NEW t \in Threads, ProxyInv, stage[t] = "close"
  PROVE  /\ Head(todo[t]) \in Operations /\ Tail(todo[t]) \in Seq(Operations)
         /\ Tail(todo[t]) = <<>> <=> ~ (Len(todo[t]) > 1)
         /\ Head(todo[t]).on # -1 => /\ Head(todo[t]).on \in Fds
                                     /\ OwnFile(t, Head(todo[t]).on)
                                     /\ Head(todo[t]).on \notin batch[t]
         /\ OpsInv(t, Tail(todo[t]))
         /\ Head(todo[t]).op = "close" =>
              \A k \in DOMAIN Tail(todo[t]) : Tail(todo[t])[k].on # -1 =>
                 Tail(todo[t])[k].on # Head(todo[t]).on
<1> DEFINE ops == todo[t]
<1>1. ops \in Seq(Operations) /\ ops # <<>> /\ OpsInv(t, ops)
  BY TodoTyped DEF ProxyInv, WorkerInv, TodoInv
<1> HIDE DEF ops
<1>2. /\ Head(ops) \in Operations /\ Tail(ops) \in Seq(Operations)
      /\ Len(Tail(ops)) = Len(ops) - 1
      /\ \A k \in 1 .. Len(Tail(ops)) : Tail(ops)[k] = ops[k + 1]
  BY <1>1, HeadTailProperties
<1>3. /\ Len(ops) \in Nat /\ Len(ops) > 0 /\ DOMAIN ops = 1 .. Len(ops)
      /\ Len(Tail(ops)) \in Nat /\ DOMAIN Tail(ops) = 1 .. Len(Tail(ops))
      /\ Head(ops) = ops[1]
      /\ Tail(ops) = <<>> <=> Len(Tail(ops)) = 0
  <2>1. /\ Len(ops) \in Nat /\ DOMAIN ops = 1 .. Len(ops) /\ Len(ops) # 0
    BY <1>1, LenProperties, EmptySeq
  <2>2. /\ Len(Tail(ops)) \in Nat /\ DOMAIN Tail(ops) = 1 .. Len(Tail(ops))
        /\ Tail(ops) = <<>> <=> Len(Tail(ops)) = 0
    BY <1>2, LenProperties, EmptySeq
  <2>3. Head(ops) = ops[1]
    BY <1>1
  <2> QED
    BY <2>1, <2>2, <2>3
<1>4. Head(ops).on \in Fds \cup {-1}
  BY <1>2 DEF Operations
<1>5. ASSUME NEW k \in DOMAIN Tail(ops)
      PROVE  k + 1 \in DOMAIN ops /\ Tail(ops)[k] = ops[k + 1] /\ k \in Nat /\ 1 < k + 1
  BY <1>2, <1>3
<1>6. OpsInv(t, Tail(ops))
  <2> SUFFICES ASSUME NEW k \in DOMAIN Tail(ops), Tail(ops)[k].on # -1
               PROVE  /\ OwnFile(t, Tail(ops)[k].on)
                      /\ Tail(ops)[k].on \notin batch[t]
                      /\ \A l \in DOMAIN Tail(ops) :
                            l < k /\ Tail(ops)[l].op = "close" => Tail(ops)[l].on # Tail(ops)[k].on
    BY DEF OpsInv
  <2>1. OwnFile(t, ops[k + 1].on) /\ ops[k + 1].on \notin batch[t]
    BY <1>1, <1>5 DEF OpsInv
  <2>2. ASSUME NEW l \in DOMAIN Tail(ops), l < k, Tail(ops)[l].op = "close"
        PROVE  Tail(ops)[l].on # Tail(ops)[k].on
    <3>1. l + 1 < k + 1
      BY <1>5, <2>2
    <3> QED
      BY <1>1, <1>5, <2>2, <3>1 DEF OpsInv
  <2> QED
    BY <1>5, <2>1, <2>2
<1>7. 1 \in DOMAIN ops
  BY <1>3
<1>8. Head(ops).on # -1 => OwnFile(t, Head(ops).on) /\ Head(ops).on \notin batch[t]
  BY <1>1, <1>3, <1>7 DEF OpsInv
<1>9. Head(ops).op = "close" =>
        \A k \in DOMAIN Tail(ops) : Tail(ops)[k].on # -1 => Tail(ops)[k].on # Head(ops).on
  BY <1>1, <1>3, <1>5, <1>7 DEF OpsInv
<1>10. Tail(ops) = <<>> <=> ~ (Len(ops) > 1)
  BY <1>2, <1>3
<1> QED
  BY <1>2, <1>4, <1>6, <1>8, <1>9, <1>10 DEF ops

\* What is left to show of an operation on a descriptor.
LEMMA ReturnInv ==
  ASSUME NEW t \in Threads, ProxyInv, stage[t] = "close", Return(t), UNCHANGED fate,
         file' \in [Fds -> Files],
         interest' \in [Threads -> SUBSET Fds], armed' \in [Threads -> SUBSET Fds],
         \A s \in Threads : /\ interest'[s] \subseteq interest[s]
                            /\ armed'[s] \subseteq interest'[s]
                            /\ s # t => armed'[s] \subseteq armed[s],
         armed'[t] \cap batch[t] = {},
         \A f \in Fds : file'[f] # file[f] =>
            OwnFile(t, f) /\ Head(todo[t]).op = "close" /\ f = Head(todo[t]).on
                          /\ f \notin interest'[t]
  PROVE  ProxyInv'
<1>1. PICK rest \in Seq(Operations) :
        rest = Tail(todo[t]) /\ OpsInv(t, rest) /\ (rest = <<>> <=> ~ (Len(todo[t]) > 1))
  BY FirstAndRest
<1>2. ProxyTypeOK
  BY DEF ProxyInv
<1>3. todo' = [todo EXCEPT ![t] = rest] /\ UNCHANGED <<poolVars, connfd, batch, kind, clientVars>>
  BY <1>1 DEF Return
<1>4. /\ stage' \in [Threads -> Stages] /\ fd' \in [Threads -> Fds \cup {0}]
      /\ serverfd' \in [Threads -> Fds \cup {0}] /\ tunnelfd' \in [Threads -> Fds \cup {0, -1}]
      /\ \A s \in Threads : s # t => /\ stage'[s] = stage[s] /\ fd'[s] = fd[s]
                                     /\ serverfd'[s] = serverfd[s] /\ tunnelfd'[s] = tunnelfd[s]
      /\ \/ stage'[t] = "close" /\ Len(todo[t]) > 1
         \/ stage'[t] \in {"poll", "batch"} /\ fd'[t] = 0 /\ ~ (Len(todo[t]) > 1)
  <2>1. CASE Len(todo[t]) > 1
    BY <1>2, <2>1 DEF Return, ProxyTypeOK
  <2>2. CASE ~ (Len(todo[t]) > 1)
    <3>1. PICK x \in {"poll", "batch"} : stage' = [stage EXCEPT ![t] = x]
      BY <2>2 DEF Return
    <3>2. /\ fd' = [fd EXCEPT ![t] = 0] /\ serverfd' = [serverfd EXCEPT ![t] = 0]
          /\ tunnelfd' = [tunnelfd EXCEPT ![t] = 0]
      BY <2>2 DEF Return
    <3>3. x \in Stages
      BY Zenon DEF Stages
    <3>4. /\ stage \in [Threads -> Stages] /\ fd \in [Threads -> Fds \cup {0}]
          /\ serverfd \in [Threads -> Fds \cup {0}] /\ tunnelfd \in [Threads -> Fds \cup {0, -1}]
      BY <1>2, Zenon DEF ProxyTypeOK
    <3>5. stage'[t] = x /\ fd'[t] = 0
      BY <3>1, <3>2, <3>4, Zenon
    <3>6. \A s \in Threads : s # t => /\ stage'[s] = stage[s] /\ fd'[s] = fd[s]
                                     /\ serverfd'[s] = serverfd[s] /\ tunnelfd'[s] = tunnelfd[s]
      BY <3>1, <3>2, <3>4, Zenon
    <3>7. stage' \in [Threads -> Stages]
      BY <3>1, <3>3, <3>4, Zenon
    <3>8. /\ fd' \in [Threads -> Fds \cup {0}] /\ serverfd' \in [Threads -> Fds \cup {0}]
          /\ tunnelfd' \in [Threads -> Fds \cup {0, -1}]
      BY <3>2, <3>4, Zenon
    <3> QED
      BY <2>2, <3>5, <3>6, <3>7, <3>8
  <2> QED
    BY <2>1, <2>2
<1>5. ProxyTypeOK'
  <2>1. todo' \in [Threads -> Seq([op : {"del", "close", "rearm"}, on : Fds \cup {-1}])]
    BY <1>1, <1>2, <1>3 DEF Operations, ProxyTypeOK
  <2> QED
    BY <1>2, <1>3, <1>4, <2>1 DEF poolVars, clientVars, ProxyTypeOK, PoolTypeOK
<1>6. todo'[t] = rest /\ batch' = batch /\ home' = home
  BY <1>2, <1>3 DEF ProxyTypeOK, poolVars
<1>7. EventsInv(t)'
  <2>1. EventsInv(t) /\ interest[t] \subseteq Fds /\ batch[t] \subseteq Fds
    BY DEF ProxyInv, WorkerInv, ProxyTypeOK
  <2>2. ASSUME NEW f \in Fds, f \in interest'[t] \cup batch[t] PROVE ClientOf(t, f)'
    <3>1. ClientOf(t, f)
      BY <2>1, <2>2 DEF EventsInv
    <3>2. file'[f] = file[f]
      BY <2>2, FirstAndRest, FdsAssumption
    <3> QED
      BY <1>6, <3>1, <3>2 DEF ClientOf, Client, EpollFd
  <2> QED
    BY <1>6, <2>1, <2>2 DEF EventsInv
<1>8. LocalsInv(t)'
  BY <1>4 DEF LocalsInv, Serving, WithServer
<1>9. TodoInv(t)'
  <2>1. ASSUME NEW k \in DOMAIN rest, rest[k].on # -1 PROVE OwnFile(t, rest[k].on)'
    <3>1. PICK f \in Fds : f = rest[k].on
      <4>1. rest[k] \in Operations
        BY <1>1, <2>1, ElementOfSeq
      <4> QED
        BY <2>1, <4>1 DEF Operations
    <3>2. OwnFile(t, f) /\ (Head(todo[t]).op = "close" => f # Head(todo[t]).on)
      BY <1>1, <2>1, <3>1, FirstAndRest DEF OpsInv
    <3>3. file'[f] = file[f]
      BY <3>2
    <3>4. OwnFile(t, f)'
      BY <1>6, <3>2, <3>3 DEF OwnFile, ClientOf, Client, Server, Tunnel, EpollFd
    <3> QED
      BY <3>1, <3>4 DEF OwnFile, ClientOf, Client, Server, Tunnel, EpollFd
  <2> QED
    BY <1>1, <1>4, <1>6, <2>1 DEF TodoInv, OpsInv
<1>10. WorkerInv(t)'
  BY <1>7, <1>8, <1>9 DEF WorkerInv
<1>11. \A s \in Threads : s # t => todo'[s] = todo[s]
  BY <1>2, <1>3 DEF ProxyTypeOK
<1> QED
  BY <1>3, <1>4, <1>5, <1>6, <1>10, <1>11, WorkerFrame

LEMMA DoDelInv ==
  ASSUME NEW t \in Threads, ProxyInv, DoDel(t) PROVE ProxyInv'
<1> DEFINE f == Head(todo[t]).on
<1>1. ProxyTypeOK /\ \A s \in Threads : EventsInv(s)
  BY DEF ProxyInv, WorkerInv
<1>2. /\ interest' = [interest EXCEPT ![t] = @ \ {f}]
      /\ armed' = [armed EXCEPT ![t] = @ \ {f}]
      /\ file' = file /\ fate' = fate /\ stage[t] = "close" /\ Return(t)
  BY DEF DoDel
<1> HIDE DEF f
<1>3. interest' \in [Threads -> SUBSET Fds] /\ armed' \in [Threads -> SUBSET Fds]
  BY <1>1, <1>2 DEF ProxyTypeOK
<1>4. \A s \in Threads : /\ interest'[s] \subseteq interest[s]
                         /\ armed'[s] \subseteq interest'[s]
                         /\ armed'[s] \subseteq armed[s]
  BY <1>1, <1>2 DEF ProxyTypeOK, EventsInv
<1>5. armed'[t] \cap batch[t] = {}
  BY <1>1, <1>4 DEF EventsInv
<1> QED
  BY <1>1, <1>2, <1>3, <1>4, <1>5, ReturnInv DEF ProxyTypeOK

LEMMA DoRearmInv ==
  ASSUME NEW t \in Threads, ProxyInv, DoRearm(t) PROVE ProxyInv'
<1> DEFINE f == Head(todo[t]).on
<1>1. ProxyTypeOK /\ \A s \in Threads : EventsInv(s)
  BY DEF ProxyInv, WorkerInv
<1>2. /\ armed' = [armed EXCEPT ![t] = @ \cup ({f} \cap interest[t])]
      /\ file' = file /\ interest' = interest /\ fate' = fate
      /\ stage[t] = "close" /\ Return(t)
  BY DEF DoRearm
<1>3. f # -1 => f \notin batch[t]
  BY <1>2, FirstAndRest
<1> HIDE DEF f
<1>4. armed' \in [Threads -> SUBSET Fds]
  BY <1>1, <1>2 DEF ProxyTypeOK
<1>5. \A s \in Threads : /\ armed'[s] \subseteq interest'[s]
                         /\ s # t => armed'[s] \subseteq armed[s]
  BY <1>1, <1>2 DEF ProxyTypeOK, EventsInv
<1>6. armed'[t] \cap batch[t] = {}
  <2>1. armed'[t] \subseteq armed[t] \cup {f}
    BY <1>1, <1>2 DEF ProxyTypeOK
  <2>2. f \notin batch[t]
    <3>1. batch[t] \subseteq Fds
      BY <1>1 DEF ProxyTypeOK
    <3>2. -1 \notin Fds
      BY FdsAssumption
    <3> QED
      BY <1>3, <3>1, <3>2
  <2> QED
    BY <1>1, <2>1, <2>2 DEF EventsInv
<1> QED
  BY <1>1, <1>2, <1>4, <1>5, <1>6, ReturnInv DEF ProxyTypeOK

LEMMA DoCloseInv ==
  ASSUME NEW t \in Threads, ProxyInv, DoClose(t) PROVE ProxyInv'
<1>1. ProxyTypeOK /\ \A s \in Threads : EventsInv(s)
  BY DEF ProxyInv, WorkerInv
<1>2. PICK f \in Fds : f = Head(todo[t]).on
  BY DEF DoClose
<1>3. /\ file' = [file EXCEPT ![f] = Free]
      /\ interest' = [s \in Threads |-> interest[s] \ {f}]
      /\ armed' = [s \in Threads |-> armed[s] \ {f}]
      /\ fate' = fate /\ stage[t] = "close" /\ Head(todo[t]).op = "close" /\ Return(t)
  BY <1>2 DEF DoClose
<1>4. file' \in [Fds -> Files]
  BY <1>1, <1>3 DEF ProxyTypeOK, Files
<1>5. interest' \in [Threads -> SUBSET Fds] /\ armed' \in [Threads -> SUBSET Fds]
  BY <1>1, <1>3 DEF ProxyTypeOK
<1>6. \A s \in Threads : /\ interest'[s] \subseteq interest[s]
                         /\ armed'[s] \subseteq interest'[s]
                         /\ armed'[s] \subseteq armed[s]
  BY <1>1, <1>3 DEF EventsInv
<1>7. armed'[t] \cap batch[t] = {} /\ f \notin interest'[t]
  BY <1>1, <1>3, <1>6 DEF EventsInv
<1>8. OwnFile(t, f)
  BY <1>2, <1>3, FirstAndRest, FdsAssumption
<1>9. \A g \in Fds : file'[g] # file[g] => g = f
  BY <1>1, <1>3 DEF ProxyTypeOK
<1> QED
  BY <1>2, <1>3, <1>4, <1>5, <1>6, <1>7, <1>8, <1>9, ReturnInv

\* The process ends: no descriptor has changed.
LEMMA ProxyEndsInv ==
  ASSUME ProxyInv, fate' \in {"close error", "broken pipe"},
         UNCHANGED <<poolVars, kernelVars, connfd, doitVars, clientVars>>
  PROVE  ProxyInv'
<1>1. ProxyTypeOK'
  BY DEF poolVars, kernelVars, doitVars, clientVars, ProxyInv, ProxyTypeOK, PoolTypeOK
<1> QED
  BY <1>1, NoDescriptorStep DEF poolVars, ProxyInv, AcceptInv

-----------------------------------------------------------------------------
(* The invariant, and what it says.                                        *)

LEMMA ProxyInvNext == ProxyInv /\ PoolTypeOK' /\ [ProxyNext]_allVars => ProxyInv'
<1> SUFFICES ASSUME ProxyInv, PoolTypeOK', [ProxyNext]_allVars PROVE ProxyInv'
  OBVIOUS
<1>1. CASE UNCHANGED allVars
  <2>1. ProxyTypeOK'
    BY <1>1 DEF allVars, proxyVars, kernelVars, doitVars, clientVars, ProxyInv, ProxyTypeOK
  <2> QED
    BY <1>1, <2>1, NoDescriptorStep DEF allVars, proxyVars, poolVars, ProxyInv, AcceptInv
<1>2. CASE Main
  <2>1. CASE MainElse
    BY <2>1, MainElseInv
  <2>2. ASSUME NEW c \in Conns, Accept(c) PROVE ProxyInv'
    BY <2>2, AcceptStepInv
  <2>3. ASSUME NEW c \in Conns, Add(c) PROVE ProxyInv'
    BY <2>3, AddStepInv
  <2> QED
    BY <1>2, <2>1, <2>2, <2>3 DEF Main
<1>3. ASSUME NEW t \in Threads, StartWorker(t) PROVE ProxyInv'
  BY <1>3, StartWorkerInv
<1>4. ASSUME NEW t \in Threads, WorkerStep(t) PROVE ProxyInv'
  <2>1. CASE EpollWait(t) \/ CallDoit(t) \/ ReadRequest(t) \/ OpenSocketFails(t)
    BY <2>1, EpollWaitInv, CallDoitInv, ReadRequestInv, OpenSocketFailsInv
  <2>2. CASE OpenSocket(t) \/ Refuse(t) \/ StartTunnel(t) \/ CreateTunnel(t)
    BY <2>2, OpenSocketInv, RefuseInv, StartTunnelInv, CreateTunnelInv
  <2>3. CASE CreateTunnelFails(t) \/ DoDel(t) \/ DoRearm(t) \/ DoClose(t)
    BY <2>3, CreateTunnelFailsInv, DoDelInv, DoRearmInv, DoCloseInv
  <2>4. CASE DoCloseFails(t)
    BY <2>4, ProxyEndsInv DEF DoCloseFails
  <2> QED
    BY <1>4, <2>1, <2>2, <2>3, <2>4 DEF WorkerStep
<1>5. ASSUME NEW t \in Threads, PeerStep(t) PROVE ProxyInv'
  <2>1. CASE ConnectServer(t) \/ Exchange(t) \/ TunnelEnds(t)
    BY <2>1, ConnectServerInv, ExchangeInv, TunnelEndsInv
  <2>2. CASE BrokenPipe(t)
    BY <2>2, ProxyEndsInv DEF BrokenPipe
  <2> QED
    BY <1>5, <2>1, <2>2 DEF PeerStep
<1>6. ASSUME NEW c \in Conns, Connect(c) \/ ClientSend(c) \/ ClientClose(c) PROVE ProxyInv'
  BY <1>6, ClientInv
<1> QED
  BY <1>1, <1>2, <1>3, <1>4, <1>5, <1>6 DEF ProxyNext

\* Descriptors have one owner, who forgets a number before it closes it: the
\* inductive invariant holds of main() and all the workers together.
THEOREM ProxyInvariant == ProxySpec => []ProxyInv
<1>1. ProxySpec => []PoolTypeOK
  BY ProxyImplementsPool, PoolTypeCorrect, PTL
<1> QED
  BY <1>1, ProxyInvInit, ProxyInvNext, PTL DEF ProxySpec

\* Every variable of the proxy stays in its range: doit() closes no number that
\* is not one of the table, but for the -1 of a failed epoll_create1().
THEOREM ProxyTypeCorrect == ProxySpec => []ProxyTypeOK
<1>1. ProxyInv => ProxyTypeOK
  BY DEF ProxyInv
<1> QED
  BY <1>1, ProxyInvariant, PTL

\* Whatever descriptor numbers the threads free and reuse in between, a worker
\* reads, removes, rearms and closes only the sockets of its own clients and
\* the descriptors it has opened.
THEOREM ProxyOperatesOnOwn == ProxySpec => []OperatesOnOwn
<1>1. ProxyInv => OperatesOnOwn
  BY DEF ProxyInv, WorkerInv, EventsInv, LocalsInv, TodoInv, OpsInv, ProxyTypeOK,
         Serving, OperatesOnOwn
<1> QED
  BY <1>1, ProxyInvariant, PTL

\* A connection that is served, or waits in a batch, is not reported a second
\* time, and nothing but open sockets of a worker's clients is registered.
THEOREM ProxyServedIsDisarmed == ProxySpec => []ServedIsDisarmed
<1>1. ProxyInv => ServedIsDisarmed
  <2> SUFFICES ASSUME ProxyInv, NEW t \in Threads
               PROVE  EventsInv(t) /\ (stage[t] # "close" => fd[t] \notin armed[t])
    BY DEF EventsInv, ServedIsDisarmed
  <2>1. EventsInv(t) /\ LocalsInv(t) /\ armed[t] \subseteq Fds /\ stage[t] \in Stages
    BY DEF ProxyInv, WorkerInv, ProxyTypeOK
  <2>2. 0 \notin Fds
    BY FdsAssumption
  <2> QED
    BY <2>1, <2>2 DEF LocalsInv, Serving
<1> QED
  BY <1>1, ProxyInvariant, PTL

\* The dispatch of the running proxy: every connection it added is in the
\* instance of a serving worker, and the loads differ by at most one.
THEOREM ProxyDispatch == ProxySpec => [](AddedIsServed /\ DispatchBalanced)
BY ProxyImplementsPool, PoolAddedIsServed, PoolDispatchBalanced, PTL

=============================================================================
