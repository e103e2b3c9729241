--------------------------- MODULE ProxyHoldProof ---------------------------
(***************************************************************************)
(* Proofs about what the workers of Proxy hold: no connection is lost, no  *)
(* descriptor is leaked, and Close() fails for one reason only.            *)
(*                                                                         *)
(* ProxyInv says that a worker touches nothing that is not its own; here   *)
(* is the converse, that nothing of its own is forgotten.  A client is     *)
(* armed, in the batch, served, or has an operation to come that closes or *)
(* rearms it; what doit() has opened it still has a local for and, once it *)
(* lets go, a close to come.                                               *)
(***************************************************************************)
EXTENDS ProxyProof

\* Operations that leave nothing undone: what is taken out of the epoll
\* instance is closed later, what is rearmed is not touched before, and an
\* invalid descriptor is closed last.
CompleteOps(ops) ==
  \A k \in DOMAIN ops :
    /\ ops[k].op = "del" => \E l \in DOMAIN ops : k < l /\ ops[l] = Close(ops[k].on)
    /\ ops[k].op = "rearm" => \A l \in DOMAIN ops : l < k => ops[l].on # ops[k].on
    /\ ops[k].on = -1 => ops[k].op = "close" /\ k = Len(ops)

\* f is closed, or closed or rearmed, by one of ops.
Closes(ops, f)   == \E k \in DOMAIN ops : ops[k] = Close(f)
Releases(ops, f) == \E k \in DOMAIN ops : ops[k] \in {Close(f), Rearm(f)}

OperationsInv(t) ==
  /\ CompleteOps(todo[t])
  /\ \A k \in DOMAIN todo[t] : todo[t][k].on = -1 => tunnelfd[t] = -1

\* The descriptors doit() and connect_handler() have opened.
OpenedInv(t) ==
  \A f \in Fds :
    /\ file[f] = Server(t) => f = serverfd[t] /\ (stage[t] \in WithServer \/ Closes(todo[t], f))
    /\ file[f] = Tunnel(t) => f = tunnelfd[t] /\ (stage[t] = "tunnel" \/ Closes(todo[t], f))

\* Until connect_handler(), doit() has its client registered.
Registered == {"request", "refuse", "socket", "connect", "exchange"}

\* What is to be rearmed is registered: EPOLL_CTL_MOD will find it.
RegisteredInv(t) ==
  /\ batch[t] \subseteq interest[t]
  /\ stage[t] = "poll" => batch[t] = {}
  /\ stage[t] \in Registered => fd[t] \in interest[t]
  /\ \A k \in DOMAIN todo[t] : todo[t][k].op = "rearm" => todo[t][k].on \in interest[t]

\* A client of the worker will be reported, is about to be served, is served,
\* or is let go in an orderly way.
Kept(t, f) ==
  \/ f \in armed[t] \/ f \in batch[t]
  \/ fd[t] = f /\ stage[t] # "close"
  \/ Releases(todo[t], f)

KeptInv(t) == \A f \in Fds : ClientOf(t, f) => Kept(t, f)

HolderInv(t) == OperationsInv(t) /\ OpenedInv(t) /\ RegisteredInv(t) /\ KeptInv(t)

\* main(): a client's socket is open only from accept() on.
SocketsInv ==
  \A c \in Conns : \A f \in Fds : file[f] = Client(c) =>
    \/ conn[c] = "accepted" /\ connfd = f
    \/ conn[c] = "added"

HoldInv == SocketsInv /\ \A t \in Threads : HolderInv(t)

-----------------------------------------------------------------------------
\* Descriptors and -1.
LEMMA NoFd == 0 \notin Fds /\ -1 \notin Fds
BY FdsAssumption

\* What ProxyInv says of the worker t.
LEMMA Holder ==
  ASSUME NEW t \in Threads, ProxyInv
  PROVE  /\ ProxyTypeOK /\ EventsInv(t) /\ LocalsInv(t) /\ TodoInv(t)
         /\ interest[t] \subseteq Fds /\ armed[t] \subseteq Fds /\ batch[t] \subseteq Fds
         /\ armed[t] \subseteq interest[t]
         /\ stage[t] \in Stages
BY DEF ProxyInv, WorkerInv, EventsInv, ProxyTypeOK

\* A step that takes nothing from t, and gives it no file but an armed client.
LEMMA OthersHold ==
  ASSUME NEW t \in Threads, HolderInv(t),
         \A f \in Fds : ClientOf(t, f)' => ClientOf(t, f) \/ f \in armed'[t],
         \A f \in Fds : file'[f] \in {Server(t), Tunnel(t)} => file'[f] = file[f],
         interest[t] \subseteq interest'[t], armed[t] \subseteq armed'[t],
         batch'[t] = batch[t], stage'[t] = stage[t], fd'[t] = fd[t],
         serverfd'[t] = serverfd[t], tunnelfd'[t] = tunnelfd[t], todo'[t] = todo[t]
  PROVE  HolderInv(t)'
<1>1. OperationsInv(t)'
  BY DEF HolderInv, OperationsInv, CompleteOps, Close
<1>2. OpenedInv(t)'
  <2>1. OpenedInv(t) /\ \A f : Closes(todo[t], f)' <=> Closes(todo[t], f)
    BY DEF HolderInv, Closes, Close
  <2> QED
    BY <2>1 DEF OpenedInv, Server, Tunnel
<1>3. RegisteredInv(t)'
  BY DEF HolderInv, RegisteredInv
<1>4. KeptInv(t)'
  BY DEF HolderInv, KeptInv, Kept, Releases, Close, Rearm
<1> QED
  BY <1>1, <1>2, <1>3, <1>4 DEF HolderInv

\* What is left to show of a worker's step.
LEMMA HoldFrame ==
  ASSUME NEW t \in Threads, ProxyInv, HoldInv, UNCHANGED <<conn, home, connfd>>,
         \A f \in Fds : file'[f] \in {file[f], Free, Server(t), Tunnel(t)},
         \A s \in Threads : s # t =>
            /\ interest[s] \subseteq interest'[s] /\ armed[s] \subseteq armed'[s]
            /\ batch'[s] = batch[s] /\ stage'[s] = stage[s] /\ fd'[s] = fd[s]
            /\ serverfd'[s] = serverfd[s] /\ tunnelfd'[s] = tunnelfd[s]
            /\ todo'[s] = todo[s],
         HolderInv(t)'
  PROVE  HoldInv'
<1>1. \A c \in Conns : \A f \in Fds : file'[f] = Client(c) => file[f] = Client(c)
  BY FilesDiffer
<1>2. SocketsInv'
  BY <1>1 DEF HoldInv, SocketsInv, Client
<1>3. ASSUME NEW s \in Threads, s # t PROVE HolderInv(s)'
  <2>1. \A f \in Fds : ClientOf(s, f)' => ClientOf(s, f)
    BY <1>1 DEF ClientOf, Client, EpollFd
  <2>2. \A f \in Fds : file'[f] \in {Server(s), Tunnel(s)} => file'[f] = file[f]
    BY <1>3, FilesDiffer
  <2> QED
    BY <1>3, <2>1, <2>2, OthersHold DEF HoldInv
<1> QED
  BY <1>2, <1>3 DEF HoldInv

-----------------------------------------------------------------------------
(* The initial state, main() and the clients.                              *)

LEMMA HoldInvInit == ProxyInit => HoldInv
<1> SUFFICES ASSUME ProxyInit PROVE HoldInv
  OBVIOUS
<1>1. \A f \in Fds : file[f] = Free
  BY DEF ProxyInit
<1>2. SocketsInv
  BY <1>1, FilesDiffer DEF SocketsInv, Client, Free
<1>3. ASSUME NEW t \in Threads PROVE HolderInv(t)
  <2>1. todo[t] = <<>> /\ batch[t] = {} /\ stage[t] = "poll"
    BY DEF ProxyInit
  <2>2. OperationsInv(t) /\ RegisteredInv(t)
    BY <2>1 DEF OperationsInv, CompleteOps, RegisteredInv, Registered
  <2>3. OpenedInv(t)
    BY <1>1, FilesDiffer DEF OpenedInv
  <2>4. KeptInv(t)
    BY <1>1, FreeIsNobodys DEF KeptInv
  <2> QED
    BY <2>2, <2>3, <2>4 DEF HolderInv
<1> QED
  BY <1>2, <1>3 DEF HoldInv

\* A step that changes nothing of a descriptor and accepts or adds nothing.
LEMMA NothingHeldStep ==
  ASSUME HoldInv, UNCHANGED <<kernelVars, connfd, doitVars, home>>,
         \A c \in Conns : conn[c] \in {"accepted", "added"} => conn'[c] = conn[c]
  PROVE  HoldInv'
<1>1. SocketsInv'
  BY DEF HoldInv, SocketsInv, Client, kernelVars
<1>2. ASSUME NEW t \in Threads PROVE HolderInv(t)'
  <2>1. \A f : ClientOf(t, f)' <=> ClientOf(t, f)
    BY DEF ClientOf, Client, EpollFd, kernelVars
  <2> QED
    BY <2>1, OthersHold DEF HoldInv, kernelVars, doitVars
<1> QED
  BY <1>1, <1>2 DEF HoldInv

LEMMA QuietHold ==
  ASSUME ProxyInv, HoldInv,
         \/ MainElse
         \/ \E t \in Threads : StartWorker(t) \/ DoCloseFails(t) \/ BrokenPipe(t)
         \/ \E c \in Conns : Connect(c) \/ ClientSend(c) \/ ClientClose(c)
  PROVE  HoldInv'
<1>1. UNCHANGED <<kernelVars, connfd, doitVars, home>>
  <2>1. CASE MainElse
    BY <2>1 DEF MainElse, proxyVars, MainLock, MainCreate, MainWake, MainPass, MainAcceptFails,
            MainAssert, MainAddFails
  <2>2. CASE \E t \in Threads : StartWorker(t)
    BY <2>2 DEF StartWorker, proxyVars, WorkerStart, ReadIndex, PassBaton, PublishEpoll, WorkerExit
  <2>3. CASE \E t \in Threads : DoCloseFails(t) \/ BrokenPipe(t)
    BY <2>3 DEF DoCloseFails, BrokenPipe, poolVars
  <2>4. CASE \E c \in Conns : Connect(c) \/ ClientSend(c) \/ ClientClose(c)
    BY <2>4 DEF Connect, ClientConnect, proxyVars, ClientSend, ClientClose, poolVars
  <2> QED
    BY <2>1, <2>2, <2>3, <2>4
<1>2. \A c \in Conns : conn[c] \in {"accepted", "added"} => conn'[c] = conn[c]
  <2>1. CASE MainElse
    BY <2>1 DEF MainElse, MainLock, MainCreate, MainWake, MainPass, MainAcceptFails,
            MainAssert, MainAddFails
  <2>2. CASE \E t \in Threads : StartWorker(t)
    BY <2>2 DEF StartWorker, WorkerStart, ReadIndex, PassBaton, PublishEpoll, WorkerExit
  <2>3. CASE \E t \in Threads : DoCloseFails(t) \/ BrokenPipe(t)
    BY <2>3 DEF DoCloseFails, BrokenPipe, poolVars
  <2>4. CASE \E c \in Conns : Connect(c) \/ ClientSend(c) \/ ClientClose(c)
    BY <2>4 DEF Connect, ClientConnect, ClientSend, ClientClose, poolVars, ProxyInv, ProxyTypeOK, PoolTypeOK
  <2> QED
    BY <2>1, <2>2, <2>3, <2>4
<1> QED
  BY <1>1, <1>2, NothingHeldStep

LEMMA AcceptHold ==
  ASSUME NEW c \in Conns, ProxyInv, HoldInv, Accept(c) PROVE HoldInv'
<1> USE DEF Accept
<1>1. PICK f \in Fds : IsLowestFree(f) /\ file' = [file EXCEPT ![f] = Client(c)] /\ connfd' = f
  OBVIOUS
<1>2. file[f] = Free /\ file'[f] = Client(c) /\ \A g \in Fds : g # f => file'[g] = file[g]
  BY <1>1 DEF IsLowestFree, ProxyInv, ProxyTypeOK
<1>3. /\ main = "accept" /\ conn[c] = "backlog" /\ conn'[c] = "accepted"
      /\ \A d \in Conns : d # c => conn'[d] = conn[d]
      /\ home' = home
  BY DEF MainAccept, ProxyInv, ProxyTypeOK, PoolTypeOK
<1>4. SocketsInv'
  <2> SUFFICES ASSUME NEW d \in Conns, NEW g \in Fds, file'[g] = Client(d)
               PROVE  (conn'[d] = "accepted" /\ connfd' = g) \/ conn'[d] = "added"
    BY DEF SocketsInv, Client
  <2>1. CASE g = f
    BY <1>1, <1>2, <1>3, <2>1, FilesDiffer
  <2>2. CASE g # f
    <3>1. file[g] = Client(d)
      BY <1>2, <2>2
    <3>2. conn[d] \in {"accepted", "added"}
      BY <3>1 DEF HoldInv, SocketsInv
    <3>3. conn[d] # "accepted"
      BY <1>3 DEF ProxyInv, AcceptInv
    <3> QED
      BY <1>3, <3>2, <3>3
  <2> QED
    BY <2>1, <2>2
<1>5. ASSUME NEW t \in Threads PROVE HolderInv(t)'
  <2>1. home[c] = 0 /\ EpollFd(t) # 0
    BY <1>3, EpollFdPositive DEF ProxyInv, AcceptInv
  <2>2. \A g \in Fds : ClientOf(t, g)' => ClientOf(t, g)
    BY <1>2, <1>3, <2>1, FilesDiffer DEF ClientOf, Client, EpollFd
  <2>3. \A g \in Fds : file'[g] \in {Server(t), Tunnel(t)} => file'[g] = file[g]
    BY <1>2, FilesDiffer
  <2> QED
    BY <2>2, <2>3, OthersHold DEF HoldInv, doitVars
<1> QED
  BY <1>4, <1>5 DEF HoldInv

LEMMA AddHold ==
  ASSUME NEW c \in Conns, ProxyInv, HoldInv, Add(c) PROVE HoldInv'
<1> USE DEF Add
<1>1. PICK t \in Threads : /\ epoll_list[round_robin] = EpollFd(t)
                           /\ interest' = [interest EXCEPT ![t] = @ \cup {connfd}]
                           /\ armed' = [armed EXCEPT ![t] = @ \cup {connfd}]
  OBVIOUS
<1>2. /\ conn[c] = "accepted" /\ conn'[c] = "added" /\ home'[c] = EpollFd(t)
      /\ \A d \in Conns : d # c => conn'[d] = conn[d] /\ home'[d] = home[d]
      /\ UNCHANGED <<file, doitVars>>
  BY <1>1 DEF MainAdd, ProxyInv, ProxyTypeOK, PoolTypeOK
<1>3. /\ armed'[t] = armed[t] \cup {connfd} /\ interest'[t] = interest[t] \cup {connfd}
      /\ \A s \in Threads : s # t => armed'[s] = armed[s] /\ interest'[s] = interest[s]
  BY <1>1 DEF ProxyInv, ProxyTypeOK
<1>4. \A f \in Fds : file[f] = Client(c) => f = connfd
  BY <1>2 DEF HoldInv, SocketsInv
<1>5. SocketsInv'
  <2> SUFFICES ASSUME NEW d \in Conns, NEW g \in Fds, file[g] = Client(d)
               PROVE  conn'[d] = "added"
    BY <1>2 DEF SocketsInv, Client
  <2>1. CASE d = c
    BY <1>2, <2>1
  <2>2. CASE d # c
    <3>1. conn[d] # "accepted"
      BY <1>2, <2>2, FilesDiffer DEF ProxyInv, AcceptInv
    <3> QED
      BY <1>2, <2>2, <3>1 DEF HoldInv, SocketsInv
  <2> QED
    BY <2>1, <2>2
<1>6. ASSUME NEW s \in Threads PROVE HolderInv(s)'
  <2>1. ASSUME NEW f \in Fds, ClientOf(s, f)' PROVE ClientOf(s, f) \/ f \in armed'[s]
    <3>1. PICK d \in Conns : file[f] = Client(d) /\ home'[d] = EpollFd(s)
      BY <1>2, <2>1 DEF ClientOf, Client, EpollFd
    <3>2. CASE d = c
      <4>1. f = connfd /\ EpollFd(s) = EpollFd(t)
        BY <1>2, <1>4, <3>1, <3>2
      <4>2. s = t
        BY <4>1, PoolSizeAssumption DEF EpollFd, Threads
      <4> QED
        BY <1>3, <4>1, <4>2
    <3>3. CASE d # c
      BY <1>2, <3>1, <3>3 DEF ClientOf
    <3> QED
      BY <3>2, <3>3
  <2>2. interest[s] \subseteq interest'[s] /\ armed[s] \subseteq armed'[s]
    BY <1>3
  <2> QED
    BY <1>2, <2>1, <2>2, OthersHold DEF HoldInv, doitVars
<1> QED
  BY <1>5, <1>6 DEF HoldInv

-----------------------------------------------------------------------------
(* A worker's event loop, and doit() before it lets go.                    *)

\* A step of t that changes no file, does not begin or go on to let go, and
\* leaves a client that was armed, in the batch or served as one of these.
LEMMA FilesKeptHold ==
  ASSUME NEW t \in Threads, ProxyInv, HoldInv, UNCHANGED poolVars,
         UNCHANGED <<file, connfd, serverfd, tunnelfd, todo>>,
         \A s \in Threads : s # t =>
            /\ interest'[s] = interest[s] /\ armed'[s] = armed[s]
            /\ batch'[s] = batch[s] /\ stage'[s] = stage[s] /\ fd'[s] = fd[s],
         stage[t] # "close", stage'[t] \notin {"poll", "close"},
         stage[t] \in WithServer => stage'[t] \in WithServer,
         stage[t] = "tunnel" => stage'[t] = "tunnel",
         batch'[t] \subseteq interest'[t],
         stage'[t] \in Registered => fd'[t] \in interest'[t],
         \A f \in Fds : f \in armed[t] \cup batch[t] \/ fd[t] = f
                        => f \in armed'[t] \cup batch'[t] \/ fd'[t] = f
  PROVE  HoldInv'
<1>1. todo[t] = <<>> /\ todo'[t] = <<>> /\ UNCHANGED <<conn, home>>
  BY DEF ProxyInv, WorkerInv, TodoInv, poolVars
<1>2. OperationsInv(t)'
  BY <1>1 DEF OperationsInv, CompleteOps
<1>3. OpenedInv(t)'
  BY <1>1 DEF HoldInv, HolderInv, OpenedInv, Closes, Server, Tunnel
<1>4. RegisteredInv(t)'
  BY <1>1 DEF RegisteredInv, Registered
<1>5. KeptInv(t)'
  <2> SUFFICES ASSUME NEW f \in Fds, ClientOf(t, f)' PROVE Kept(t, f)'
    BY DEF KeptInv
  <2>1. Kept(t, f)
    BY <1>1 DEF HoldInv, HolderInv, KeptInv, ClientOf, Client, EpollFd
  <2>2. f \in armed[t] \cup batch[t] \/ fd[t] = f
    BY <1>1, <2>1 DEF Kept, Releases
  <2> QED
    BY <2>2 DEF Kept
<1>6. HolderInv(t)'
  BY <1>2, <1>3, <1>4, <1>5 DEF HolderInv
<1> QED
  BY <1>1, <1>6, HoldFrame

LEMMA EpollWaitHold ==
  ASSUME NEW t \in Threads, ProxyInv, HoldInv, EpollWait(t) PROVE HoldInv'
<1> USE DEF EpollWait
<1>1. PICK events \in SUBSET Ready(t) : /\ batch' = [batch EXCEPT ![t] = events]
                                        /\ armed' = [armed EXCEPT ![t] = @ \ events]
  OBVIOUS
<1>2. ProxyTypeOK /\ LocalsInv(t) /\ armed[t] \subseteq interest[t] /\ RegisteredInv(t)
  BY Holder DEF HoldInv, HolderInv
<1>3. events \subseteq armed[t] /\ events \subseteq interest[t]
  BY <1>2 DEF Ready
<1>4. /\ batch'[t] = events /\ armed'[t] = armed[t] \ events
      /\ stage[t] = "poll" /\ stage'[t] = "batch"
      /\ batch[t] = {} /\ fd[t] = 0 /\ UNCHANGED <<interest, fd>>
  BY <1>1, <1>2 DEF ProxyTypeOK, LocalsInv, RegisteredInv
<1>5. ProxyTypeOK /\ stage[t] \notin WithServer /\ stage'[t] \notin Registered /\ stage[t] # "tunnel"
  BY <1>2, <1>4 DEF Registered, WithServer
<1>6. /\ \A f \in Fds : f \in armed[t] \cup batch[t] \/ fd[t] = f
                        => f \in armed'[t] \cup batch'[t] \/ fd'[t] = f
      /\ batch'[t] \subseteq interest'[t]
  BY <1>3, <1>4
<1>7. /\ UNCHANGED poolVars /\ UNCHANGED <<file, connfd, serverfd, tunnelfd, todo>>
      /\ \A s \in Threads : s # t =>
            /\ interest'[s] = interest[s] /\ armed'[s] = armed[s]
            /\ batch'[s] = batch[s] /\ stage'[s] = stage[s] /\ fd'[s] = fd[s]
  BY <1>1, <1>2 DEF ProxyTypeOK
<1> HIDE DEF EpollWait
<1>8. stage[t] # "close" /\ stage'[t] \notin {"poll", "close"}
  BY <1>4
<1> QED
  BY <1>5, <1>6, <1>7, <1>8, FilesKeptHold, Zenon

LEMMA CallDoitHold ==
  ASSUME NEW t \in Threads, ProxyInv, HoldInv, CallDoit(t) PROVE HoldInv'
<1> USE DEF CallDoit
<1>1. PICK f \in batch[t] : /\ fd' = [fd EXCEPT ![t] = f]
                            /\ batch' = [batch EXCEPT ![t] = @ \ {f}]
  OBVIOUS
<1>2. ProxyTypeOK /\ LocalsInv(t) /\ RegisteredInv(t)
  BY Holder DEF HoldInv, HolderInv
<1>3. /\ batch'[t] = batch[t] \ {f} /\ fd'[t] = f /\ fd[t] = 0
      /\ stage[t] = "batch" /\ stage'[t] = "request" /\ UNCHANGED <<interest, armed>>
  BY <1>1, <1>2 DEF ProxyTypeOK, LocalsInv, kernelVars
<1>4. batch[t] \subseteq interest[t] /\ f \in interest[t]
  BY <1>2 DEF RegisteredInv
<1>5. ProxyTypeOK /\ stage[t] \notin WithServer /\ stage[t] \notin {"close", "tunnel"}
      /\ stage'[t] \notin {"poll", "close"}
  BY <1>2, <1>3 DEF WithServer
<1>6. /\ \A g \in Fds : g \in armed[t] \cup batch[t] \/ fd[t] = g
                        => g \in armed'[t] \cup batch'[t] \/ fd'[t] = g
      /\ batch'[t] \subseteq interest'[t] /\ fd'[t] \in interest'[t]
  BY <1>3, <1>4, NoFd
<1>7. /\ UNCHANGED poolVars /\ UNCHANGED <<file, connfd, serverfd, tunnelfd, todo>>
      /\ \A s \in Threads : s # t =>
            /\ interest'[s] = interest[s] /\ armed'[s] = armed[s]
            /\ batch'[s] = batch[s] /\ stage'[s] = stage[s] /\ fd'[s] = fd[s]
  BY <1>1, <1>2 DEF ProxyTypeOK, kernelVars
<1> HIDE DEF CallDoit
<1> QED
  BY <1>5, <1>6, <1>7, FilesKeptHold, Zenon

\* The steps of doit() that only change the stage.
LEMMA StageHold ==
  ASSUME NEW t \in Threads, ProxyInv, HoldInv,
         UNCHANGED <<poolVars, kernelVars, connfd, batch, fd, serverfd, tunnelfd, todo>>,
         NEW x \in {"refuse", "socket", "exchange"}, stage' = [stage EXCEPT ![t] = x],
         stage[t] \in {"request", "socket"} \/ (stage[t] = "connect" /\ x = "exchange")
  PROVE  HoldInv'
<1>1. ProxyTypeOK /\ RegisteredInv(t)
  BY Holder DEF HoldInv, HolderInv
<1>2. /\ stage'[t] = x /\ \A s \in Threads : s # t => stage'[s] = stage[s]
      /\ UNCHANGED <<interest, armed, file>>
  BY <1>1 DEF ProxyTypeOK, kernelVars
<1>3. batch[t] \subseteq interest[t] /\ fd[t] \in interest[t]
  BY <1>1 DEF RegisteredInv, Registered
<1> QED
  BY <1>2, <1>3, FilesKeptHold DEF Registered, WithServer

LEMMA StartTunnelHold ==
  ASSUME NEW t \in Threads, ProxyInv, HoldInv, StartTunnel(t) PROVE HoldInv'
<1> USE DEF StartTunnel
<1>1. ProxyTypeOK /\ RegisteredInv(t) /\ LocalsInv(t)
  BY Holder DEF HoldInv, HolderInv
<1>2. /\ interest'[t] = interest[t] \ {fd[t]} /\ armed'[t] = armed[t] \ {fd[t]}
      /\ \A s \in Threads : s # t => interest'[s] = interest[s] /\ armed'[s] = armed[s]
                                     /\ stage'[s] = stage[s]
      /\ stage[t] = "exchange" /\ stage'[t] = "epoll_create1"
  BY <1>1 DEF ProxyTypeOK
<1>3. batch[t] \subseteq interest[t] /\ fd[t] \notin batch[t]
  BY <1>1, <1>2 DEF RegisteredInv, LocalsInv, Serving, Stages
<1> QED
  BY <1>2, <1>3, FilesKeptHold DEF Registered, WithServer

\* A step of doit() that opens or closes one of its own descriptors.
LEMMA OpenedHold ==
  ASSUME NEW t \in Threads, ProxyInv, HoldInv, UNCHANGED poolVars,
         UNCHANGED <<interest, armed, connfd, batch, fd, todo>>,
         \A s \in Threads : s # t => /\ stage'[s] = stage[s]
                                     /\ serverfd'[s] = serverfd[s] /\ tunnelfd'[s] = tunnelfd[s],
         stage[t] \in Serving, stage'[t] \in Serving,
         stage'[t] \in Registered => stage[t] \in Registered,
         \A f \in Fds : file'[f] \in {file[f], Free, Server(t), Tunnel(t)},
         OpenedInv(t)'
  PROVE  HoldInv'
<1>1. todo[t] = <<>> /\ todo'[t] = <<>> /\ UNCHANGED <<conn, home>>
  BY DEF ProxyInv, WorkerInv, TodoInv, poolVars, Serving
<1>2. OperationsInv(t)'
  BY <1>1 DEF OperationsInv, CompleteOps
<1>3. RegisteredInv(t)'
  BY <1>1 DEF HoldInv, HolderInv, RegisteredInv, Serving
<1>4. KeptInv(t)'
  <2> SUFFICES ASSUME NEW f \in Fds, ClientOf(t, f)' PROVE Kept(t, f)'
    BY DEF KeptInv
  <2>1. ClientOf(t, f)
    BY <1>1, FilesDiffer DEF ClientOf, Client, EpollFd
  <2>2. Kept(t, f)
    BY <2>1 DEF HoldInv, HolderInv, KeptInv
  <2> QED
    BY <1>1, <2>2 DEF Kept, Releases, Serving
<1>5. HolderInv(t)'
  BY <1>2, <1>3, <1>4 DEF HolderInv
<1> QED
  BY <1>1, <1>5, HoldFrame

\* doit() forgets no descriptor: there is none of a kind it has no local for.
LEMMA Unopened ==
  ASSUME NEW t \in Threads, ProxyInv, HoldInv, stage[t] # "close", NEW f \in Fds
  PROVE  /\ file[f] = Server(t) => f = serverfd[t] /\ stage[t] \in WithServer
         /\ file[f] = Tunnel(t) => f = tunnelfd[t] /\ stage[t] = "tunnel"
<1>1. todo[t] = <<>>
  BY DEF ProxyInv, WorkerInv, TodoInv
<1> QED
  BY <1>1 DEF HoldInv, HolderInv, OpenedInv, Closes

LEMMA OpenSocketHold ==
  ASSUME NEW t \in Threads, ProxyInv, HoldInv, OpenSocket(t) PROVE HoldInv'
<1> USE DEF OpenSocket
<1>1. PICK f \in Fds : file' = [file EXCEPT ![f] = Server(t)] /\ serverfd' = [serverfd EXCEPT ![t] = f]
  OBVIOUS
<1>2. ProxyTypeOK
  BY DEF ProxyInv
<1>3. /\ file'[f] = Server(t) /\ serverfd'[t] = f /\ \A g \in Fds : g # f => file'[g] = file[g]
      /\ \A s \in Threads : s # t => serverfd'[s] = serverfd[s] /\ stage'[s] = stage[s]
      /\ stage[t] = "socket" /\ stage'[t] = "connect"
  BY <1>1, <1>2 DEF ProxyTypeOK
<1>4. OpenedInv(t)'
  BY <1>3, Unopened, FilesDiffer DEF OpenedInv, WithServer, Server, Tunnel
<1> QED
  BY <1>3, <1>4, OpenedHold DEF Serving, Stages, Registered

LEMMA ConnectServerHold ==
  ASSUME NEW t \in Threads, ProxyInv, HoldInv, ConnectServer(t) PROVE HoldInv'
<1> USE DEF ConnectServer
<1>1. ProxyTypeOK /\ LocalsInv(t)
  BY Holder
<1>2. CASE stage' = [stage EXCEPT ![t] = "exchange"] /\ UNCHANGED <<file, serverfd>>
  BY <1>2, StageHold DEF kernelVars
<1>3. CASE /\ stage' = [stage EXCEPT ![t] = "refuse"]
           /\ file' = [file EXCEPT ![serverfd[t]] = Free]
           /\ serverfd' = [serverfd EXCEPT ![t] = 0]
  <2>1. PICK f \in Fds : f = serverfd[t]
    BY <1>1 DEF LocalsInv, WithServer
  <2>2. /\ file'[f] = Free /\ \A g \in Fds : g # f => file'[g] = file[g]
        /\ \A s \in Threads : s # t => serverfd'[s] = serverfd[s] /\ stage'[s] = stage[s]
        /\ stage[t] = "connect" /\ stage'[t] = "refuse"
    BY <1>1, <1>3, <2>1 DEF ProxyTypeOK
  <2>3. OpenedInv(t)'
    <3>1. ASSUME NEW g \in Fds PROVE file'[g] # Server(t) /\ file'[g] # Tunnel(t)
      <4>1. CASE g = f
        BY <2>2, <4>1, FilesDiffer
      <4>2. CASE g # f
        BY <2>1, <2>2, <4>2, Unopened
      <4> QED
        BY <4>1, <4>2
    <3> QED
      BY <3>1 DEF OpenedInv, Server, Tunnel
  <2> QED
    BY <2>2, <2>3, OpenedHold DEF Serving, Stages, Registered
<1> QED
  BY <1>2, <1>3

LEMMA CreateTunnelHold ==
  ASSUME NEW t \in Threads, ProxyInv, HoldInv, CreateTunnel(t) PROVE HoldInv'
<1> USE DEF CreateTunnel
<1>1. PICK f \in Fds : file' = [file EXCEPT ![f] = Tunnel(t)] /\ tunnelfd' = [tunnelfd EXCEPT ![t] = f]
  OBVIOUS
<1>2. ProxyTypeOK
  BY DEF ProxyInv
<1>3. /\ file'[f] = Tunnel(t) /\ tunnelfd'[t] = f /\ \A g \in Fds : g # f => file'[g] = file[g]
      /\ \A s \in Threads : s # t => tunnelfd'[s] = tunnelfd[s] /\ stage'[s] = stage[s]
      /\ stage[t] = "epoll_create1" /\ stage'[t] = "tunnel"
  BY <1>1, <1>2 DEF ProxyTypeOK
<1>4. OpenedInv(t)'
  BY <1>3, Unopened, FilesDiffer DEF OpenedInv, WithServer, Server, Tunnel
<1> QED
  BY <1>3, <1>4, OpenedHold DEF Serving, Stages, Registered

-----------------------------------------------------------------------------
(* Letting go.                                                             *)

\* The step with which doit() begins to let go, with ops to do.
LEMMA ClosingHold ==
  ASSUME NEW t \in Threads, ProxyInv, HoldInv, stage[t] \in Serving,
         NEW ops, CompleteOps(ops), Releases(ops, fd[t]),
         stage[t] \in WithServer => Closes(ops, serverfd[t]),
         stage[t] = "tunnel" => Closes(ops, tunnelfd[t]) /\ tunnelfd'[t] = tunnelfd[t],
         \A k \in DOMAIN ops : ops[k].op = "rearm" => ops[k].on = fd[t] /\ stage[t] \in Registered,
         \A k \in DOMAIN ops : ops[k].on = -1 => tunnelfd'[t] = -1,
         todo' = [todo EXCEPT ![t] = ops], stage' = [stage EXCEPT ![t] = "close"],
         UNCHANGED <<poolVars, kernelVars, connfd, batch, fd, serverfd>>,
         \A s \in Threads : s # t => tunnelfd'[s] = tunnelfd[s]
  PROVE  HoldInv'
<1>1. /\ stage'[t] = "close" /\ todo'[t] = ops
      /\ \A s \in Threads : s # t => stage'[s] = stage[s] /\ todo'[s] = todo[s]
      /\ UNCHANGED <<file, interest, armed, conn, home>>
  BY DEF ProxyInv, ProxyTypeOK, kernelVars, poolVars
<1>2. stage[t] # "close" /\ todo[t] = <<>>
  BY DEF ProxyInv, WorkerInv, TodoInv, Serving
<1>3. OperationsInv(t)'
  BY <1>1 DEF OperationsInv, CompleteOps, Close
<1>4. OpenedInv(t)'
  BY <1>1, <1>2, Unopened DEF OpenedInv, Closes, Close, Server, Tunnel
<1>5. RegisteredInv(t)'
  BY <1>1 DEF HoldInv, HolderInv, RegisteredInv, Registered
<1>6. KeptInv(t)'
  <2> SUFFICES ASSUME NEW f \in Fds, ClientOf(t, f)' PROVE Kept(t, f)'
    BY DEF KeptInv
  <2>1. Kept(t, f)
    BY <1>1 DEF HoldInv, HolderInv, KeptInv, ClientOf, Client, EpollFd
  <2>2. f \in armed[t] \/ f \in batch[t] \/ fd[t] = f
    BY <1>2, <2>1 DEF Kept, Releases
  <2> QED
    BY <1>1, <2>2 DEF Kept, Releases, Close, Rearm
<1>7. HolderInv(t)'
  BY <1>3, <1>4, <1>5, <1>6 DEF HolderInv
<1> QED
  BY <1>1, <1>7, HoldFrame

LEMMA RefuseHold ==
  ASSUME NEW t \in Threads, ProxyInv, HoldInv, Refuse(t) PROVE HoldInv'
<1> USE DEF Refuse
<1> DEFINE ops == <<Close(fd[t])>>
<1>1. stage[t] = "refuse" /\ fd[t] \in Fds
  BY Holder DEF LocalsInv, Serving, Stages
<1>2. CompleteOps(ops) /\ Releases(ops, fd[t])
  BY <1>1, NoFd DEF CompleteOps, Releases, Close
<1>3. \A k \in DOMAIN ops : ops[k].op # "rearm" /\ ops[k].on # -1
  BY <1>1, NoFd DEF Close
<1>4. todo' = [todo EXCEPT ![t] = ops]
  OBVIOUS
<1> HIDE DEF ops
<1> QED
  BY <1>1, <1>2, <1>3, <1>4, ClosingHold DEF Serving, Stages, WithServer

\* Every ending closes the server, and closes or rearms the client.
LEMMA EndingsComplete ==
  ASSUME NEW k, NEW f \in Fds, NEW s \in Fds, f # s, NEW ending \in Endings(k, f, s)
  PROVE  /\ CompleteOps(ending) /\ Releases(ending, f) /\ Closes(ending, s)
         /\ \A n \in DOMAIN ending : /\ ending[n].op = "rearm" => ending[n].on = f
                                     /\ ending[n].on # -1
<1>1. ending \in {<<Del(f), Close(s), Close(f)>>, <<Close(s), Del(f), Close(f)>>,
                  <<Close(s), Rearm(f)>>, <<Del(f), Close(f), Close(s)>>}
  BY DEF Endings
<1>2. CASE ending = <<Del(f), Close(s), Close(f)>>
  BY <1>2, NoFd DEF CompleteOps, Releases, Closes, Del, Close, Rearm
<1>3. CASE ending = <<Close(s), Del(f), Close(f)>>
  BY <1>3, NoFd DEF CompleteOps, Releases, Closes, Del, Close, Rearm
<1>4. CASE ending = <<Close(s), Rearm(f)>>
  BY <1>4, NoFd DEF CompleteOps, Releases, Closes, Del, Close, Rearm
<1>5. CASE ending = <<Del(f), Close(f), Close(s)>>
  BY <1>5, NoFd DEF CompleteOps, Releases, Closes, Del, Close, Rearm
<1> QED
  BY <1>1, <1>2, <1>3, <1>4, <1>5

LEMMA ExchangeHold ==
  ASSUME NEW t \in Threads, ProxyInv, HoldInv, Exchange(t) PROVE HoldInv'
<1> USE DEF Exchange
<1>1. PICK ops \in Endings(kind[t], fd[t], serverfd[t]) : todo' = [todo EXCEPT ![t] = ops]
  OBVIOUS
<1>2. stage[t] = "exchange" /\ stage[t] \in Serving /\ stage[t] \in WithServer /\ stage[t] \in Registered
  BY DEF Serving, Stages, WithServer, Registered
<1>3. fd[t] \in Fds /\ serverfd[t] \in Fds /\ fd[t] # serverfd[t]
  BY <1>2, LocalsAreOwn
<1>4. /\ CompleteOps(ops) /\ Releases(ops, fd[t]) /\ Closes(ops, serverfd[t])
      /\ \A n \in DOMAIN ops : /\ ops[n].op = "rearm" => ops[n].on = fd[t]
                               /\ ops[n].on # -1
  <2>1. ops \in Endings(kind[t], fd[t], serverfd[t])
    OBVIOUS
  <2> HIDE DEF Exchange
  <2> QED
    BY ONLY <1>3, <2>1, EndingsComplete
<1> QED
  BY <1>1, <1>2, <1>4, ClosingHold

LEMMA CreateTunnelFailsHold ==
  ASSUME NEW t \in Threads, ProxyInv, HoldInv, CreateTunnelFails(t) PROVE HoldInv'
<1> USE DEF CreateTunnelFails
<1> DEFINE ops == <<Close(fd[t]), Close(serverfd[t]), Close(-1)>>
<1>1. stage[t] = "epoll_create1" /\ stage[t] \in Serving /\ stage[t] \in WithServer
  BY DEF Serving, Stages, WithServer
<1>2. fd[t] \in Fds /\ serverfd[t] \in Fds
  BY <1>1, LocalsAreOwn
<1>3. CompleteOps(ops) /\ Releases(ops, fd[t]) /\ Closes(ops, serverfd[t])
  BY <1>2, NoFd DEF CompleteOps, Releases, Closes, Close
<1>4. \A k \in DOMAIN ops : ops[k].op # "rearm"
  BY DEF Close
<1>5. todo' = [todo EXCEPT ![t] = ops] /\ tunnelfd'[t] = -1
      /\ \A s \in Threads : s # t => tunnelfd'[s] = tunnelfd[s]
  BY DEF ProxyInv, ProxyTypeOK
<1> HIDE DEF ops
<1> QED
  BY <1>1, <1>3, <1>4, <1>5, ClosingHold

LEMMA TunnelEndsHold ==
  ASSUME NEW t \in Threads, ProxyInv, HoldInv, TunnelEnds(t) PROVE HoldInv'
<1> USE DEF TunnelEnds
<1> DEFINE ops == <<Close(fd[t]), Close(serverfd[t]), Close(tunnelfd[t])>>
<1>1. stage[t] = "tunnel" /\ stage[t] \in Serving /\ stage[t] \in WithServer
  BY DEF Serving, Stages, WithServer
<1>2. fd[t] \in Fds /\ serverfd[t] \in Fds /\ tunnelfd[t] \in Fds
  BY <1>1, LocalsAreOwn
<1>3. CompleteOps(ops) /\ Releases(ops, fd[t]) /\ Closes(ops, serverfd[t]) /\ Closes(ops, tunnelfd[t])
  BY <1>2, NoFd DEF CompleteOps, Releases, Closes, Close
<1>4. \A k \in DOMAIN ops : ops[k].op # "rearm" /\ ops[k].on # -1
  BY <1>2, NoFd DEF Close
<1>5. todo' = [todo EXCEPT ![t] = ops]
  OBVIOUS
<1> HIDE DEF ops
<1> QED
  BY <1>1, <1>3, <1>4, <1>5, ClosingHold

\* What is left to do after the first operation.
LEMMA RestOps ==
  ASSUME NEW t \in Threads, ProxyInv, HoldInv, stage[t] = "close"
  PROVE  LET ops   == todo[t]
             first == Head(ops)
             rest  == Tail(ops)
         IN  /\ CompleteOps(rest)
             /\ \A f : Closes(ops, f) => first = Close(f) \/ Closes(rest, f)
             /\ \A f : Releases(ops, f) => first \in {Close(f), Rearm(f)} \/ Releases(rest, f)
             /\ first.op = "del" => Closes(rest, first.on)
             /\ first.op = "rearm" => first.on \in interest[t]
             /\ \A k \in DOMAIN rest : rest[k].op = "rearm" =>
                   rest[k].on \in interest[t] /\ rest[k].on # first.on
             /\ \A k \in DOMAIN rest : rest[k].on = -1 => tunnelfd[t] = -1
             /\ first.on = -1 => ops = <<Close(-1)>> /\ tunnelfd[t] = -1
<1> SUFFICES ASSUME NEW ops, ops = todo[t], NEW first, first = Head(ops),
                    NEW rest, rest = Tail(ops)
             PROVE  /\ CompleteOps(rest)
                    /\ \A f : Closes(ops, f) => first = Close(f) \/ Closes(rest, f)
                    /\ \A f : Releases(ops, f) => first \in {Close(f), Rearm(f)} \/ Releases(rest, f)
                    /\ first.op = "del" => Closes(rest, first.on)
                    /\ first.op = "rearm" => first.on \in interest[t]
                    /\ \A k \in DOMAIN rest : rest[k].op = "rearm" =>
                          rest[k].on \in interest[t] /\ rest[k].on # first.on
                    /\ \A k \in DOMAIN rest : rest[k].on = -1 => tunnelfd[t] = -1
                    /\ first.on = -1 => ops = <<Close(-1)>> /\ tunnelfd[t] = -1
  OBVIOUS
<1>1. ops \in Seq(Operations) /\ ops # <<>> /\ CompleteOps(ops)
      /\ \A k \in DOMAIN ops : ops[k].on = -1 => tunnelfd[t] = -1
  BY TodoTyped DEF ProxyInv, WorkerInv, TodoInv, HoldInv, HolderInv, OperationsInv
<1>2. /\ Len(ops) \in Nat \ {0} /\ DOMAIN ops = 1 .. Len(ops) /\ first = ops[1]
      /\ Len(rest) = Len(ops) - 1 /\ DOMAIN rest = 1 .. Len(rest)
      /\ \A k \in 1 .. Len(rest) : rest[k] = ops[k + 1]
  BY <1>1, HeadTailProperties, LenProperties, EmptySeq
<1>3. ASSUME NEW k \in DOMAIN ops, k # 1
      PROVE  k - 1 \in DOMAIN rest /\ rest[k - 1] = ops[k]
  BY <1>2, <1>3
<1>4. ASSUME NEW k \in DOMAIN rest
      PROVE  k + 1 \in DOMAIN ops /\ rest[k] = ops[k + 1] /\ k \in Nat /\ 1 < k + 1
  BY <1>2
<1>5. CompleteOps(rest)
  <2> SUFFICES ASSUME NEW k \in DOMAIN rest
               PROVE  /\ rest[k].op = "del" => \E l \in DOMAIN rest : k < l /\ rest[l] = Close(rest[k].on)
                      /\ rest[k].op = "rearm" => \A l \in DOMAIN rest : l < k => rest[l].on # rest[k].on
                      /\ rest[k].on = -1 => rest[k].op = "close" /\ k = Len(rest)
    BY DEF CompleteOps
  <2>1. ASSUME rest[k].op = "del" PROVE \E l \in DOMAIN rest : k < l /\ rest[l] = Close(rest[k].on)
    <3>1. PICK l \in DOMAIN ops : k + 1 < l /\ ops[l] = Close(ops[k + 1].on)
      BY <1>1, <1>4, <2>1 DEF CompleteOps
    <3>2. l # 1 /\ k < l - 1
      BY <1>2, <1>4, <3>1
    <3>3. l - 1 \in DOMAIN rest /\ rest[l - 1] = ops[l] /\ rest[k] = ops[k + 1]
      BY <1>3, <1>4, <3>2
    <3>4. rest[l - 1] = Close(rest[k].on)
      BY <3>1, <3>3
    <3> QED
      BY <3>2, <3>3, <3>4
  <2>2. ASSUME rest[k].op = "rearm", NEW l \in DOMAIN rest, l < k PROVE rest[l].on # rest[k].on
    <3>1. l + 1 < k + 1
      BY <1>4, <2>2
    <3> QED
      BY <1>1, <1>4, <2>2, <3>1 DEF CompleteOps
  <2>3. ASSUME rest[k].on = -1 PROVE rest[k].op = "close" /\ k = Len(rest)
    <3>1. ops[k + 1].op = "close" /\ k + 1 = Len(ops)
      BY <1>1, <1>4, <2>3 DEF CompleteOps
    <3> QED
      BY <1>2, <1>4, <3>1
  <2> QED
    BY <2>1, <2>2, <2>3
<1>6. \A f : Closes(ops, f) => first = Close(f) \/ Closes(rest, f)
  <2> SUFFICES ASSUME NEW f, Closes(ops, f), first # Close(f) PROVE Closes(rest, f)
    OBVIOUS
  <2>1. PICK k \in DOMAIN ops : ops[k] = Close(f)
    BY DEF Closes
  <2>2. k # 1
    BY <1>2, <2>1
  <2> QED
    BY <1>3, <2>1, <2>2 DEF Closes
<1>7. \A f : Releases(ops, f) => first \in {Close(f), Rearm(f)} \/ Releases(rest, f)
  <2> SUFFICES ASSUME NEW f, Releases(ops, f), first \notin {Close(f), Rearm(f)} PROVE Releases(rest, f)
    OBVIOUS
  <2>1. PICK k \in DOMAIN ops : ops[k] \in {Close(f), Rearm(f)}
    BY DEF Releases
  <2>2. k # 1
    BY <1>2, <2>1
  <2> QED
    BY <1>3, <2>1, <2>2 DEF Releases
<1>8. 1 \in DOMAIN ops
  BY <1>2
<1>9. first.op = "del" => Closes(rest, first.on)
  <2> SUFFICES ASSUME first.op = "del" PROVE Closes(rest, first.on)
    OBVIOUS
  <2>1. PICK l \in DOMAIN ops : 1 < l /\ ops[l] = Close(first.on)
    BY <1>1, <1>2, <1>8 DEF CompleteOps
  <2>2. l # 1
    BY <2>1
  <2> QED
    BY <1>3, <2>1, <2>2 DEF Closes
<1>10. \A k \in DOMAIN ops : ops[k].op = "rearm" => ops[k].on \in interest[t]
  BY DEF HoldInv, HolderInv, RegisteredInv
<1>11. \A k \in DOMAIN rest : rest[k].op = "rearm" => rest[k].on # first.on
  BY <1>1, <1>2, <1>4, <1>8 DEF CompleteOps
<1>12. first.on = -1 => ops = <<Close(-1)>> /\ tunnelfd[t] = -1
  <2> SUFFICES ASSUME first.on = -1 PROVE ops = <<Close(-1)>> /\ tunnelfd[t] = -1
    OBVIOUS
  <2>1. ops[1].on = -1
    BY <1>2
  <2>2. ops[1].op = "close" /\ 1 = Len(ops) /\ tunnelfd[t] = -1
    BY <1>1, <1>8, <2>1 DEF CompleteOps
  <2>3. ops[1] \in Operations
    BY <1>1, <1>8, ElementOfSeq
  <2>4. ops[1] = Close(-1)
    BY <2>1, <2>2, <2>3 DEF Operations, Close
  <2> QED
    BY <1>1, <1>2, <2>2, <2>4
<1> QED
  BY <1>1, <1>2, <1>4, <1>5, <1>6, <1>7, <1>8, <1>9, <1>10, <1>11, <1>12

\* What is left to show of an operation on a descriptor.
LEMMA ReturnHold ==
  ASSUME NEW t \in Threads, ProxyInv, HoldInv, stage[t] = "close", Return(t),
         \A f \in Fds : file'[f] \in {file[f], Free},
         \A s \in Threads : s # t => interest[s] \subseteq interest'[s] /\ armed[s] \subseteq armed'[s],
         batch[t] \subseteq interest'[t],
         NEW rest, rest = Tail(todo[t]),
         \A k \in DOMAIN rest : rest[k].op = "rearm" => rest[k].on \in interest'[t],
         \A f \in Fds : file'[f] \in {Server(t), Tunnel(t)} => Closes(rest, f),
         \A f \in Fds : ClientOf(t, f) /\ file'[f] = file[f] => f \in armed'[t] \cup batch[t] \/ Releases(rest, f)
  PROVE  HoldInv'
<1>1. ProxyTypeOK
  BY DEF ProxyInv
<1>2. /\ todo'[t] = rest /\ UNCHANGED <<conn, home, connfd, batch>>
      /\ \A s \in Threads : s # t => /\ todo'[s] = todo[s] /\ stage'[s] = stage[s] /\ fd'[s] = fd[s]
                                     /\ serverfd'[s] = serverfd[s] /\ tunnelfd'[s] = tunnelfd[s]
  BY <1>1 DEF Return, poolVars, ProxyTypeOK
<1>3. \/ /\ rest # <<>> /\ stage'[t] = "close"
         /\ serverfd'[t] = serverfd[t] /\ tunnelfd'[t] = tunnelfd[t]
      \/ /\ rest = <<>> /\ stage'[t] = (IF batch[t] = {} THEN "poll" ELSE "batch")
  BY <1>1, FirstAndRest DEF Return, ProxyTypeOK
<1>4. OperationsInv(t)'
  <2>1. CompleteOps(rest) /\ \A k \in DOMAIN rest : rest[k].on = -1 => tunnelfd[t] = -1
    BY RestOps
  <2>2. \A k \in DOMAIN rest : rest[k].on = -1 => tunnelfd'[t] = -1
    BY <1>3, <2>1
  <2> QED
    BY <1>2, <2>1, <2>2 DEF OperationsInv, CompleteOps, Close
<1>5. OpenedInv(t)'
  <2> SUFFICES ASSUME NEW f \in Fds
               PROVE  /\ file'[f] = Server(t) => f = serverfd'[t] /\ Closes(rest, f)
                      /\ file'[f] = Tunnel(t) => f = tunnelfd'[t] /\ Closes(rest, f)
    BY <1>2 DEF OpenedInv, Closes, Close, Server, Tunnel
  <2>1. /\ file[f] = Server(t) => f = serverfd[t]
        /\ file[f] = Tunnel(t) => f = tunnelfd[t]
    BY DEF HoldInv, HolderInv, OpenedInv
  <2>2. Closes(rest, f) => serverfd'[t] = serverfd[t] /\ tunnelfd'[t] = tunnelfd[t]
    BY <1>3 DEF Closes
  <2>3. file'[f] \in {Server(t), Tunnel(t)} => file[f] = file'[f] /\ Closes(rest, f)
    BY FilesDiffer
  <2> QED
    BY <2>1, <2>2, <2>3
<1>6. RegisteredInv(t)'
  BY <1>2, <1>3 DEF RegisteredInv, Registered
<1>7. KeptInv(t)'
  <2> SUFFICES ASSUME NEW f \in Fds, ClientOf(t, f)' PROVE Kept(t, f)'
    BY DEF KeptInv
  <2>1. ClientOf(t, f) /\ file'[f] = file[f]
    BY <1>2, FilesDiffer DEF ClientOf, Client, EpollFd
  <2> QED
    BY <1>2, <2>1 DEF Kept, Releases, Close, Rearm
<1>8. HolderInv(t)'
  BY <1>4, <1>5, <1>6, <1>7 DEF HolderInv
<1> QED
  BY <1>2, <1>8, HoldFrame

LEMMA DoDelHold ==
  ASSUME NEW t \in Threads, ProxyInv, HoldInv, DoDel(t) PROVE HoldInv'
<1> USE DEF DoDel
<1>1. PICK first, rest : first = Head(todo[t]) /\ rest = Tail(todo[t])
  OBVIOUS
<1>2. ProxyTypeOK /\ HolderInv(t) /\ batch[t] \subseteq Fds
  BY Holder DEF HoldInv
<1>3. /\ interest'[t] = interest[t] \ {first.on} /\ armed'[t] = armed[t] \ {first.on}
      /\ \A s \in Threads : s # t => interest'[s] = interest[s] /\ armed'[s] = armed[s]
      /\ stage[t] = "close" /\ first.op = "del" /\ file' = file
  BY <1>1, <1>2 DEF ProxyTypeOK
<1>4. /\ \A f : Closes(todo[t], f) => first = Close(f) \/ Closes(rest, f)
      /\ \A f : Releases(todo[t], f) => first \in {Close(f), Rearm(f)} \/ Releases(rest, f)
      /\ Closes(rest, first.on)
      /\ \A k \in DOMAIN rest : rest[k].op = "rearm" =>
            rest[k].on \in interest[t] /\ rest[k].on # first.on
  BY <1>1, <1>3, RestOps
<1>5. batch[t] \subseteq interest'[t]
  <2>1. first.on \notin batch[t]
    BY <1>1, <1>2, <1>3, FirstAndRest, NoFd
  <2> QED
    BY <1>2, <1>3, <2>1 DEF HolderInv, RegisteredInv
<1>6. \A f : first # Close(f) /\ first # Rearm(f)
  BY <1>3 DEF Close, Rearm
<1>7. ASSUME NEW f \in Fds, file[f] \in {Server(t), Tunnel(t)} PROVE Closes(rest, f)
  BY <1>2, <1>3, <1>4, <1>6, <1>7 DEF HolderInv, OpenedInv, WithServer
<1>8. ASSUME NEW f \in Fds, ClientOf(t, f) PROVE f \in armed'[t] \cup batch[t] \/ Releases(rest, f)
  <2>1. CASE f = first.on
    BY <1>4, <2>1 DEF Closes, Releases
  <2>2. CASE f # first.on
    BY <1>2, <1>3, <1>4, <1>6, <1>8, <2>2 DEF HolderInv, KeptInv, Kept
  <2> QED
    BY <2>1, <2>2
<1> QED
  BY <1>1, <1>3, <1>4, <1>5, <1>7, <1>8, ReturnHold

LEMMA DoRearmHold ==
  ASSUME NEW t \in Threads, ProxyInv, HoldInv, DoRearm(t) PROVE HoldInv'
<1> USE DEF DoRearm
<1>1. PICK first, rest : first = Head(todo[t]) /\ rest = Tail(todo[t])
  OBVIOUS
<1>2. ProxyTypeOK /\ HolderInv(t)
  BY Holder DEF HoldInv
<1>3. /\ armed'[t] = armed[t] \cup ({first.on} \cap interest[t])
      /\ \A s \in Threads : s # t => armed'[s] = armed[s]
      /\ stage[t] = "close" /\ first.op = "rearm" /\ file' = file /\ interest' = interest
  BY <1>1, <1>2 DEF ProxyTypeOK
<1>4. /\ \A f : Closes(todo[t], f) => first = Close(f) \/ Closes(rest, f)
      /\ \A f : Releases(todo[t], f) => first \in {Close(f), Rearm(f)} \/ Releases(rest, f)
      /\ first.on \in interest[t]
      /\ \A k \in DOMAIN rest : rest[k].op = "rearm" => rest[k].on \in interest[t]
  BY <1>1, <1>3, RestOps
<1>5. \A f : first # Close(f) /\ (first = Rearm(f) => f = first.on)
  BY <1>3 DEF Close, Rearm
<1>6. ASSUME NEW f \in Fds, file[f] \in {Server(t), Tunnel(t)} PROVE Closes(rest, f)
  BY <1>2, <1>3, <1>4, <1>5, <1>6 DEF HolderInv, OpenedInv, WithServer
<1>7. ASSUME NEW f \in Fds, ClientOf(t, f) PROVE f \in armed'[t] \cup batch[t] \/ Releases(rest, f)
  BY <1>2, <1>3, <1>4, <1>5, <1>7 DEF HolderInv, KeptInv, Kept
<1>8. batch[t] \subseteq interest'[t]
  BY <1>2, <1>3 DEF HolderInv, RegisteredInv
<1> QED
  BY <1>1, <1>3, <1>4, <1>6, <1>7, <1>8, ReturnHold

LEMMA DoCloseHold ==
  ASSUME NEW t \in Threads, ProxyInv, HoldInv, DoClose(t) PROVE HoldInv'
<1>1. PICK first, rest : first = Head(todo[t]) /\ rest = Tail(todo[t])
  OBVIOUS
<1>2. ProxyTypeOK /\ HolderInv(t) /\ \A s \in Threads : EventsInv(s)
  BY Holder DEF HoldInv
<1>3. PICK f \in Fds : f = first.on
  BY <1>1 DEF DoClose
<1>4. /\ file'[f] = Free /\ \A g \in Fds : g # f => file'[g] = file[g]
      /\ \A s \in Threads : interest'[s] = interest[s] \ {f} /\ armed'[s] = armed[s] \ {f}
      /\ stage[t] = "close" /\ first.op = "close" /\ Return(t)
  BY <1>1, <1>2, <1>3 DEF DoClose, ProxyTypeOK
<1>5. /\ \A g : Closes(todo[t], g) => first = Close(g) \/ Closes(rest, g)
      /\ \A g : Releases(todo[t], g) => first \in {Close(g), Rearm(g)} \/ Releases(rest, g)
      /\ \A k \in DOMAIN rest : rest[k].op = "rearm" =>
            rest[k].on \in interest[t] /\ rest[k].on # first.on
  BY <1>1, <1>4, RestOps
<1>6. OwnFile(t, f) /\ f \notin batch[t]
  BY <1>1, <1>3, <1>4, FirstAndRest, NoFd
<1>7. ASSUME NEW s \in Threads, s # t PROVE f \notin interest[s] /\ f \notin armed[s]
  <2>1. ~ ClientOf(s, f)
    BY <1>6, <1>7, OneOwner DEF OwnFile
  <2> QED
    BY <1>2, <2>1 DEF EventsInv
<1>8. \A g : g # f => first # Close(g) /\ first # Rearm(g)
  BY <1>3, <1>4 DEF Close, Rearm
<1>9. ASSUME NEW g \in Fds, file'[g] \in {Server(t), Tunnel(t)} PROVE Closes(rest, g)
  <2>1. g # f /\ file[g] \in {Server(t), Tunnel(t)}
    BY <1>4, <1>9, FilesDiffer
  <2> QED
    BY <1>2, <1>4, <1>5, <1>8, <2>1 DEF HolderInv, OpenedInv, WithServer
<1>10. ASSUME NEW g \in Fds, ClientOf(t, g), file'[g] = file[g]
       PROVE  g \in armed'[t] \cup batch[t] \/ Releases(rest, g)
  <2>1. g # f
    BY <1>4, <1>10, FreeIsNobodys
  <2> QED
    BY <1>2, <1>4, <1>5, <1>8, <1>10, <2>1 DEF HolderInv, KeptInv, Kept
<1>11. batch[t] \subseteq interest'[t]
  BY <1>2, <1>4, <1>6 DEF HolderInv, RegisteredInv
<1> QED
  <2>1. \A g \in Fds : file'[g] \in {file[g], Free}
    BY <1>4
  <2>2. \A s \in Threads : s # t => interest[s] \subseteq interest'[s] /\ armed[s] \subseteq armed'[s]
    BY <1>4, <1>7
  <2>3. \A k \in DOMAIN rest : rest[k].op = "rearm" => rest[k].on \in interest'[t]
    BY <1>3, <1>4, <1>5
  <2> QED
    BY <1>1, <1>4, <1>9, <1>10, <1>11, <2>1, <2>2, <2>3, ReturnHold

LEMMA HoldInvNext ==
  ASSUME ProxyInv, HoldInv, [ProxyNext]_allVars PROVE HoldInv'
<1>1. CASE UNCHANGED allVars
  BY <1>1, NothingHeldStep DEF allVars, proxyVars, poolVars
<1>2. CASE Main
  BY <1>2, QuietHold, AcceptHold, AddHold DEF Main
<1>3. ASSUME NEW t \in Threads, StartWorker(t) PROVE HoldInv'
  BY <1>3, QuietHold
<1>4. ASSUME NEW t \in Threads, WorkerStep(t) PROVE HoldInv'
  <2>1. CASE EpollWait(t) \/ CallDoit(t)
    BY <2>1, EpollWaitHold, CallDoitHold
  <2>2. CASE ReadRequest(t)
    <3>1. PICK x \in {"refuse", "socket"} : stage' = [stage EXCEPT ![t] = x]
      BY <2>2 DEF ReadRequest
    <3>2. /\ stage[t] = "request"
          /\ UNCHANGED <<poolVars, kernelVars, connfd, batch, fd, serverfd, tunnelfd, todo>>
      BY <2>2 DEF ReadRequest
    <3> QED
      BY <3>1, <3>2, StageHold
  <2>3. CASE OpenSocketFails(t)
    BY <2>3, StageHold DEF OpenSocketFails
  <2>4. CASE OpenSocket(t) \/ Refuse(t) \/ StartTunnel(t) \/ CreateTunnel(t) \/ CreateTunnelFails(t)
    BY <2>4, OpenSocketHold, RefuseHold, StartTunnelHold, CreateTunnelHold, CreateTunnelFailsHold
  <2>5. CASE DoDel(t) \/ DoRearm(t) \/ DoClose(t) \/ DoCloseFails(t)
    BY <2>5, DoDelHold, DoRearmHold, DoCloseHold, QuietHold
  <2> QED
    BY <1>4, <2>1, <2>2, <2>3, <2>4, <2>5 DEF WorkerStep
<1>5. ASSUME NEW t \in Threads, PeerStep(t) PROVE HoldInv'
  BY <1>5, ConnectServerHold, ExchangeHold, TunnelEndsHold, QuietHold DEF PeerStep
<1>6. ASSUME NEW c \in Conns, Connect(c) \/ ClientSend(c) \/ ClientClose(c) PROVE HoldInv'
  BY <1>6, QuietHold
<1> QED
  BY <1>1, <1>2, <1>3, <1>4, <1>5, <1>6 DEF ProxyNext

-----------------------------------------------------------------------------
(* The invariant, and what it says.                                        *)

\* No descriptor is forgotten by the thread that has to let it go.
THEOREM ProxyHoldInvariant == ProxySpec => []HoldInv
BY ProxyInvariant, HoldInvInit, HoldInvNext, PTL DEF ProxySpec

\* As long as the socket of a connection is open, main() has it in connfd, or
\* it is armed in the instance of the worker it was added to, or that worker is
\* about to serve it, serves it, or has still to close or rearm it: no request
\* is left unread for ever because its connection was forgotten.
THEOREM ProxyNoLostConnection == ProxySpec => []NoLostConnection
<1>1. ProxyInv /\ HoldInv /\ AddedIsServed => NoLostConnection
  <2> SUFFICES ASSUME ProxyInv, HoldInv, AddedIsServed,
                      NEW c \in Conns, NEW f \in Fds, file[f] = Client(c)
               PROVE  IF conn[c] = "accepted" THEN connfd = f
                      ELSE \E t \in Threads :
                             /\ home[c] = EpollFd(t)
                             /\ \/ f \in armed[t] \/ f \in batch[t]
                                \/ fd[t] = f /\ stage[t] # "close"
                                \/ \E k \in DOMAIN todo[t] :
                                      todo[t][k].on = f /\ todo[t][k].op \in {"close", "rearm"}
    BY DEF NoLostConnection
  <2>1. CASE conn[c] = "accepted"
    BY <2>1 DEF HoldInv, SocketsInv
  <2>2. CASE conn[c] # "accepted"
    <3>1. conn[c] = "added"
      BY <2>2 DEF HoldInv, SocketsInv
    <3>2. PICK t \in Threads : home[c] = EpollFd(t)
      BY <3>1 DEF AddedIsServed
    <3>3. Kept(t, f)
      BY <3>2 DEF ClientOf, HoldInv, HolderInv, KeptInv
    <3>4. Releases(todo[t], f) => \E k \in DOMAIN todo[t] :
            todo[t][k].on = f /\ todo[t][k].op \in {"close", "rearm"}
      BY DEF Releases, Close, Rearm
    <3> QED
      BY <2>2, <3>2, <3>3, <3>4 DEF Kept
  <2> QED
    BY <2>1, <2>2
<1> QED
  BY <1>1, ProxyInvariant, ProxyHoldInvariant, ProxyDispatch, PTL

\* On whichever path doit() returns, it has closed what it opened: between two
\* requests a worker has no socket to a server and no epoll instance of a
\* tunnel, and it never has more than one of each.
THEOREM ProxyNoDescriptorLeak == ProxySpec => []NoDescriptorLeak
<1>1. ProxyInv /\ HoldInv => NoDescriptorLeak
  <2> SUFFICES ASSUME ProxyInv, HoldInv, NEW t \in Threads
               PROVE  /\ stage[t] \in {"poll", "batch"} =>
                            \A f \in Fds : file[f] \notin {Server(t), Tunnel(t)}
                      /\ Cardinality({f \in Fds : file[f] \in {Server(t), Tunnel(t)}}) <= 2
    BY DEF NoDescriptorLeak
  <2>1. stage[t] \in {"poll", "batch"} => \A f \in Fds : file[f] \notin {Server(t), Tunnel(t)}
    BY Unopened DEF WithServer
  <2>2. {f \in Fds : file[f] \in {Server(t), Tunnel(t)}} \subseteq {serverfd[t], tunnelfd[t]}
    BY DEF HoldInv, HolderInv, OpenedInv
  <2>3. ASSUME NEW a, NEW b PROVE IsFiniteSet({a, b}) /\ Cardinality({a, b}) \in {1, 2}
    <3>1. PICK one : one = {a} /\ IsFiniteSet(one) /\ Cardinality(one) = 1
      BY FS_Singleton, Zenon
    <3>2. {a, b} = one \cup {b}
      BY <3>1
    <3>3. /\ IsFiniteSet(one \cup {b})
          /\ Cardinality(one \cup {b}) = IF b \in one THEN Cardinality(one) ELSE Cardinality(one) + 1
      BY <3>1, FS_AddElement, Zenon
    <3> QED
      BY <3>1, <3>2, <3>3
  <2>4. /\ IsFiniteSet({serverfd[t], tunnelfd[t]})
        /\ Cardinality({serverfd[t], tunnelfd[t]}) \in {1, 2}
    BY <2>3
  <2>5. ASSUME NEW S, S \subseteq {serverfd[t], tunnelfd[t]} PROVE Cardinality(S) <= 2
    <3>1. IsFiniteSet(S) /\ Cardinality(S) <= Cardinality({serverfd[t], tunnelfd[t]})
      BY <2>4, <2>5, FS_Subset
    <3>2. Cardinality(S) \in Nat
      BY <3>1, FS_CardinalityType
    <3> QED
      BY <2>4, <3>1, <3>2
  <2> QED
    BY <2>1, <2>2, <2>5
<1> QED
  BY <1>1, ProxyInvariant, ProxyHoldInvariant, PTL

\* Close() ends the process only when a worker closes the descriptor of an
\* epoll instance it could not create: every other close is of an open one.
THEOREM ProxyCloseErrorOnlyByTunnel == ProxySpec => []CloseErrorOnlyByTunnel
<1>1. ProxyInit => CloseErrorOnlyByTunnel
  BY DEF ProxyInit, CloseErrorOnlyByTunnel
<1>2. ProxyInv /\ HoldInv /\ CloseErrorOnlyByTunnel /\ [ProxyNext]_allVars => CloseErrorOnlyByTunnel'
  <2> SUFFICES ASSUME ProxyInv, HoldInv, CloseErrorOnlyByTunnel, [ProxyNext]_allVars,
                      fate' = "close error"
               PROVE  \E t \in Threads : tunnelfd'[t] = -1 /\ todo'[t] = <<Close(-1)>>
    BY DEF CloseErrorOnlyByTunnel, Close
  <2>1. CASE UNCHANGED allVars
    BY <2>1 DEF CloseErrorOnlyByTunnel, allVars, proxyVars, doitVars
  <2>2. CASE ProxyNext
    <3>1. fate = "running"
      BY <2>2 DEF ProxyNext, Alive
    <3>2. PICK t \in Threads : DoCloseFails(t)
      <4>1. ~ Main /\ \A t \in Threads : ~ StartWorker(t)
        BY <3>1 DEF Main, MainElse, Accept, Add, StartWorker, proxyVars
      <4>2. \A c \in Conns : ~ (Connect(c) \/ ClientSend(c) \/ ClientClose(c))
        BY <3>1 DEF Connect, ClientSend, ClientClose, proxyVars
      <4>3. \A t \in Threads : ~ PeerStep(t)
        BY <3>1 DEF PeerStep, ConnectServer, Exchange, TunnelEnds, BrokenPipe
      <4>4. \A t \in Threads : WorkerStep(t) => DoCloseFails(t)
        BY <3>1 DEF WorkerStep, EpollWait, CallDoit, ReadRequest, OpenSocketFails, OpenSocket,
              Refuse, StartTunnel, CreateTunnel, CreateTunnelFails, DoDel, DoRearm, DoClose, clientVars
      <4> QED
        BY <2>2, <4>1, <4>2, <4>3, <4>4 DEF ProxyNext
    <3>3. /\ stage[t] = "close" /\ UNCHANGED <<tunnelfd, todo>>
          /\ Head(todo[t]).on \in Fds => file[Head(todo[t]).on] = Free
      BY <3>2 DEF DoCloseFails, doitVars
    <3>4. Head(todo[t]).on = -1
      BY <3>3, FirstAndRest, FreeIsNobodys
    <3>5. todo[t] = <<Close(-1)>> /\ tunnelfd[t] = -1
      BY <3>3, <3>4, RestOps
    <3> QED
      BY <3>3, <3>5
  <2> QED
    BY <2>1, <2>2
<1> QED
  BY <1>1, <1>2, ProxyInvariant, ProxyHoldInvariant, PTL DEF ProxySpec
=============================================================================
