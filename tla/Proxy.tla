-------------------------------- MODULE Proxy --------------------------------
(***************************************************************************)
(* The running proxy: main() and its workers (WorkerPool), the descriptor  *)
(* table and the epoll instances of the kernel, and what doit(),           *)
(* connect_handler(), open_clientfd() and Close() do with descriptors.     *)
(*                                                                         *)
(* All threads share one descriptor table: a number that one worker closes *)
(* may be given at once to a connection main() accepts or to a socket      *)
(* another worker opens.  What a request or a reply says is left out here: *)
(* a request is one of the Kinds that doit() tells apart.                  *)
(***************************************************************************)
EXTENDS WorkerPool, Sequences

CONSTANTS
  Fds,            \* the descriptors left after start-up
  EPOLL_EVENTS,   \* the most events epoll_wait() returns
  MaxRequests     \* bound: how often a client sends

ASSUME FdsAssumption == Fds \subseteq Nat \ {0} /\ IsFiniteSet(Fds)
ASSUME EventsAssumption == EPOLL_EVENTS \in Nat \ {0}
ASSUME MaxRequestsAssumption == MaxRequests \in Nat

VARIABLES
  file,      \* the descriptor table
  interest,  \* the descriptors registered in each worker's epoll instance
  armed,     \* those whose EPOLLONESHOT has not fired since the last (re)arm
  connfd,    \* the connection main() has accepted and not yet added
  stage,     \* where each worker is in its event loop
  batch,     \* events epoll_wait() returned and the worker has not served
  fd,        \* doit()'s fd, 0 between two calls
  serverfd,  \* doit()'s serverfd
  tunnelfd,  \* connect_handler()'s connect_epollfd, -1 if it was not created
  kind,      \* the kind of request, as long as doit() needs it
  todo,      \* the descriptor operations left before doit() returns
  unread,    \* has the socket of a client bytes the proxy has not read?
  gone,      \* has the client closed its end?
  sent,      \* how often a client has sent (to bound the model)
  fate       \* running, or what killed the process

kernelVars == <<file, interest, armed>>
doitVars   == <<stage, batch, fd, serverfd, tunnelfd, kind, todo>>
clientVars == <<unread, gone, sent>>
proxyVars  == <<kernelVars, connfd, doitVars, clientVars, fate>>
allVars    == <<poolVars, proxyVars>>

RequestKinds == {"HTTP/1.0", "CONNECT", "GET/POST", "other method", "other version"}
ReplayKinds  == {"HTTP/1.0", "CONNECT", "GET/POST at EOF", "other method", "other version"}
Kinds  == RequestKinds \cup ReplayKinds
Stages == {"poll", "batch", "request", "refuse", "socket", "connect",
           "exchange", "epoll_create1", "tunnel", "close"}

\* What a descriptor refers to.
Free      == <<"free">>
Client(c) == <<"client", c>>
Server(t) == <<"server", t>>
Tunnel(t) == <<"tunnel", t>>
Files == {Free} \cup {Client(c) : c \in Conns}
          \cup {Server(t) : t \in Threads} \cup {Tunnel(t) : t \in Threads}

\* One operation on a descriptor: EPOLL_CTL_DEL, Close() or reset_oneshot().
Del(f)   == [op |-> "del",   on |-> f]
Close(f) == [op |-> "close", on |-> f]
Rearm(f) == [op |-> "rearm", on |-> f]

ProxyInit ==
  /\ PoolInit
  /\ file = [f \in Fds |-> Free]
  /\ interest = [t \in Threads |-> {}]
  /\ armed = [t \in Threads |-> {}]
  /\ connfd = 0
  /\ stage = [t \in Threads |-> "poll"]
  /\ batch = [t \in Threads |-> {}]
  /\ fd = [t \in Threads |-> 0]
  /\ serverfd = [t \in Threads |-> 0]
  /\ tunnelfd = [t \in Threads |-> 0]
  /\ kind = [t \in Threads |-> "none"]
  /\ todo = [t \in Threads |-> <<>>]
  /\ unread = [c \in Conns |-> FALSE]
  /\ gone = [c \in Conns |-> FALSE]
  /\ sent = [c \in Conns |-> 0]
  /\ fate = "running"

\* The kernel gives out the lowest free descriptor.
IsLowestFree(f) == file[f] = Free /\ \A g \in Fds : file[g] = Free => f <= g
TableFull == \A f \in Fds : file[f] # Free

OpenConn(c) == \E f \in Fds : file[f] = Client(c)

\* A descriptor is ready when its socket has bytes or an EOF to read.
Readable(f) == \E c \in Conns : file[f] = Client(c) /\ (unread[c] \/ gone[c])
Ready(t) == {f \in armed[t] : Readable(f)}

-----------------------------------------------------------------------------
(* Clients.  What one sends before its connection is accepted is no         *)
(* different for the proxy from what it sends right after.                  *)

ClientSend(c) ==
  /\ OpenConn(c) /\ ~ gone[c] /\ sent[c] < MaxRequests
  /\ unread' = [unread EXCEPT ![c] = TRUE]
  /\ sent' = [sent EXCEPT ![c] = @ + 1]
  /\ UNCHANGED <<poolVars, kernelVars, connfd, doitVars, gone, fate>>

ClientClose(c) ==
  /\ OpenConn(c) /\ ~ gone[c]
  /\ gone' = [gone EXCEPT ![c] = TRUE]
  /\ UNCHANGED <<poolVars, kernelVars, connfd, doitVars, unread, sent, fate>>

-----------------------------------------------------------------------------
(* main(): the steps of WorkerPool, and what they do with descriptors.     *)

Accept(c) ==
  /\ MainAccept(c)
  /\ \E f \in Fds : /\ IsLowestFree(f)
                    /\ file' = [file EXCEPT ![f] = Client(c)]
                    /\ connfd' = f
  /\ UNCHANGED <<interest, armed, doitVars, clientVars, fate>>

Add(c) ==
  /\ MainAdd(c)
  /\ \E t \in Threads :
        /\ epoll_list[round_robin] = EpollFd(t)
        /\ interest' = [interest EXCEPT ![t] = @ \cup {connfd}]
        /\ armed' = [armed EXCEPT ![t] = @ \cup {connfd}]
  /\ connfd' = 0
  /\ UNCHANGED <<file, doitVars, clientVars, fate>>

\* The steps that touch no descriptor of a connection.
MainElse ==
  /\ \/ MainLock \/ MainCreate \/ MainWake \/ MainPass
     \/ MainAcceptFails \/ MainAssert \/ MainAddFails
  /\ UNCHANGED proxyVars

StartWorker(t) == WorkerStart(t) /\ UNCHANGED proxyVars

Connect(c) == ClientConnect(c) /\ UNCHANGED proxyVars

-----------------------------------------------------------------------------
(* A worker's event loop.                                                  *)

\* Mutation: connections are added without EPOLLONESHOT.
EpollWaitNotOneshot(t) ==
  /\ thread[t] = "serve" /\ stage[t] = "poll"
  /\ Ready(t) # {}
  /\ batch' = [batch EXCEPT ![t] = Ready(t)]
  /\ stage' = [stage EXCEPT ![t] = "batch"]
  /\ UNCHANGED <<poolVars, kernelVars, connfd, fd, serverfd, tunnelfd, kind,
                 todo, clientVars, fate>>

\* epoll_wait() returns ready descriptors, all of them unless there are more
\* than EPOLL_EVENTS; EPOLLONESHOT disarms them.
EpollWait(t) ==
  /\ thread[t] = "serve" /\ stage[t] = "poll"
  /\ \E events \in SUBSET Ready(t) :
        /\ events # {}
        /\ \/ events = Ready(t) /\ Cardinality(events) <= EPOLL_EVENTS
           \/ Cardinality(Ready(t)) > EPOLL_EVENTS /\ Cardinality(events) = EPOLL_EVENTS
        /\ batch' = [batch EXCEPT ![t] = events]
        /\ armed' = [armed EXCEPT ![t] = @ \ events]
  /\ stage' = [stage EXCEPT ![t] = "batch"]
  /\ UNCHANGED <<poolVars, file, interest, connfd, fd, serverfd, tunnelfd, kind,
                 todo, clientVars, fate>>

\* doit(events[n].data.fd, conn_epollfd)
CallDoit(t) ==
  /\ stage[t] = "batch"
  /\ \E f \in batch[t] : /\ fd' = [fd EXCEPT ![t] = f]
                         /\ batch' = [batch EXCEPT ![t] = @ \ {f}]
  /\ stage' = [stage EXCEPT ![t] = "request"]
  /\ UNCHANGED <<poolVars, kernelVars, connfd, serverfd, tunnelfd, kind, todo,
                 clientVars, fate>>

-----------------------------------------------------------------------------
(* doit().                                                                 *)

\* Read and parse the request line.  At end of file rio_readlineb() leaves in
\* buf what this worker read for its previous request: that request is taken
\* for the client's, of any kind; reading its header meets the end of file
\* again, which sets client_shuttingdown.
ReadRequest(t) ==
  /\ stage[t] = "request"
  /\ \E c \in Conns :
        /\ file[fd[t]] = Client(c)
        /\ unread' = [unread EXCEPT ![c] = FALSE]
        /\ \/ stage' = [stage EXCEPT ![t] = "refuse"] /\ UNCHANGED kind
           \/ /\ stage' = [stage EXCEPT ![t] = "socket"]
              /\ \E k \in IF unread[c] THEN RequestKinds ELSE ReplayKinds :
                    kind' = [kind EXCEPT ![t] = k]
  /\ UNCHANGED <<poolVars, kernelVars, connfd, batch, fd, serverfd, tunnelfd,
                 todo, gone, sent, fate>>

\* open_clientfd(): no address, or no descriptor left.
OpenSocketFails(t) ==
  /\ stage[t] = "socket"
  /\ stage' = [stage EXCEPT ![t] = "refuse"]
  /\ UNCHANGED <<poolVars, kernelVars, connfd, batch, fd, serverfd, tunnelfd,
                 kind, todo, clientVars, fate>>

\* open_clientfd(): socket().
OpenSocket(t) ==
  /\ stage[t] = "socket"
  /\ \E f \in Fds : /\ IsLowestFree(f)
                    /\ file' = [file EXCEPT ![f] = Server(t)]
                    /\ serverfd' = [serverfd EXCEPT ![t] = f]
  /\ stage' = [stage EXCEPT ![t] = "connect"]
  /\ UNCHANGED <<poolVars, interest, armed, connfd, batch, fd, tunnelfd, kind,
                 todo, clientVars, fate>>

\* Mutation: the socket of a failed connect() is not closed.
ConnectServerLeaks(t) ==
  /\ stage[t] = "connect"
  /\ \/ stage' = [stage EXCEPT ![t] = "exchange"] /\ UNCHANGED serverfd
     \/ /\ stage' = [stage EXCEPT ![t] = "refuse"]
        /\ serverfd' = [serverfd EXCEPT ![t] = 0]
  /\ UNCHANGED <<poolVars, kernelVars, connfd, batch, fd, tunnelfd, kind,
                 todo, clientVars, fate>>

\* Mutation: the error code of open_clientfd() is kept as a descriptor.
ConnectServerError(t) ==
  /\ stage[t] = "connect"
  /\ stage' = [stage EXCEPT ![t] = "exchange"]
  /\ serverfd' = [serverfd EXCEPT ![t] = -1]
  /\ UNCHANGED <<poolVars, kernelVars, connfd, batch, fd, tunnelfd, kind,
                 todo, clientVars, fate>>

\* open_clientfd(): connect(); when it fails the socket is closed.
ConnectServer(t) ==
  /\ stage[t] = "connect"
  /\ \/ stage' = [stage EXCEPT ![t] = "exchange"] /\ UNCHANGED <<file, serverfd>>
     \/ /\ stage' = [stage EXCEPT ![t] = "refuse"]
        /\ file' = [file EXCEPT ![serverfd[t]] = Free]
        /\ serverfd' = [serverfd EXCEPT ![t] = 0]
  /\ UNCHANGED <<poolVars, interest, armed, connfd, batch, fd, tunnelfd, kind,
                 todo, clientVars, fate>>

\* clienterror() and Close(fd): the request line could not be parsed or the
\* server not be reached.  Nothing is removed from the epoll instance.
Refuse(t) ==
  /\ stage[t] = "refuse"
  /\ todo' = [todo EXCEPT ![t] = <<Close(fd[t])>>]
  /\ stage' = [stage EXCEPT ![t] = "close"]
  /\ kind' = [kind EXCEPT ![t] = "none"]
  /\ UNCHANGED <<poolVars, kernelVars, connfd, batch, fd, serverfd, tunnelfd,
                 clientVars, fate>>

\* Mutation: the client is removed from the epoll instance after its
\* descriptor was closed.
EndingsDelLate(k, f, s) ==
  CASE k = "GET/POST" -> {<<Close(s), Close(f), Del(f)>>, <<Close(s), Rearm(f)>>}
    [] k = "CONNECT"  -> {}
    [] OTHER          -> {<<Close(s), Close(f), Del(f)>>}

\* How doit() lets go of a client f and a server s, by the kind of request.
\* After a GET or a POST the flags client_setclose and client_shuttingdown
\* decide.
Endings(k, f, s) ==
  CASE k = "HTTP/1.0"      -> {<<Del(f), Close(s), Close(f)>>}
    [] k = "GET/POST"      -> {<<Close(s), Del(f), Close(f)>>, <<Close(s), Rearm(f)>>}
    [] k = "GET/POST at EOF" -> {<<Close(s), Del(f), Close(f)>>}
    [] k = "other method"  -> {<<Del(f), Close(s), Close(f)>>}
    [] k = "other version" -> {<<Del(f), Close(f), Close(s)>>}
    [] OTHER               -> {}

\* The request and the reply are forwarded, or an error is sent.  What the
\* client sends meanwhile may be read too; it is then lost with rio_client.
Exchange(t) ==
  /\ stage[t] = "exchange" /\ kind[t] # "CONNECT"
  /\ \E ending \in Endings(kind[t], fd[t], serverfd[t]) :
        todo' = [todo EXCEPT ![t] = ending]
  /\ \/ UNCHANGED unread
     \/ \E c \in Conns : file[fd[t]] = Client(c) /\ unread' = [unread EXCEPT ![c] = FALSE]
  /\ stage' = [stage EXCEPT ![t] = "close"]
  /\ kind' = [kind EXCEPT ![t] = "none"]
  /\ UNCHANGED <<poolVars, kernelVars, connfd, batch, fd, serverfd, tunnelfd,
                 gone, sent, fate>>

\* CONNECT: reply, then take the client out of the worker's epoll instance.
StartTunnel(t) ==
  /\ stage[t] = "exchange" /\ kind[t] = "CONNECT"
  /\ interest' = [interest EXCEPT ![t] = @ \ {fd[t]}]
  /\ armed' = [armed EXCEPT ![t] = @ \ {fd[t]}]
  /\ \/ UNCHANGED unread
     \/ \E c \in Conns : file[fd[t]] = Client(c) /\ unread' = [unread EXCEPT ![c] = FALSE]
  /\ stage' = [stage EXCEPT ![t] = "epoll_create1"]
  /\ kind' = [kind EXCEPT ![t] = "none"]
  /\ UNCHANGED <<poolVars, file, connfd, batch, fd, serverfd, tunnelfd, todo,
                 gone, sent, fate>>

-----------------------------------------------------------------------------
(* connect_handler().                                                      *)

CreateTunnel(t) ==
  /\ stage[t] = "epoll_create1"
  /\ \E f \in Fds : /\ IsLowestFree(f)
                    /\ file' = [file EXCEPT ![f] = Tunnel(t)]
                    /\ tunnelfd' = [tunnelfd EXCEPT ![t] = f]
  /\ stage' = [stage EXCEPT ![t] = "tunnel"]
  /\ UNCHANGED <<poolVars, interest, armed, connfd, batch, fd, serverfd, kind,
                 todo, clientVars, fate>>

\* The result is not what the next line tests (it tests main's epollfd): the
\* first epoll_ctl() fails instead, and all three descriptors are closed.
CreateTunnelFails(t) ==
  /\ stage[t] = "epoll_create1" /\ TableFull
  /\ tunnelfd' = [tunnelfd EXCEPT ![t] = -1]
  /\ todo' = [todo EXCEPT ![t] = <<Close(fd[t]), Close(serverfd[t]), Close(-1)>>]
  /\ stage' = [stage EXCEPT ![t] = "close"]
  /\ UNCHANGED <<poolVars, kernelVars, connfd, batch, fd, serverfd, kind,
                 clientVars, fate>>

\* Mutation: doit() closes the client once more after connect_handler().
TunnelEndsTwice(t) ==
  /\ stage[t] = "tunnel"
  /\ todo' = [todo EXCEPT ![t] = <<Close(fd[t]), Close(serverfd[t]),
                                   Close(tunnelfd[t]), Close(fd[t])>>]
  /\ stage' = [stage EXCEPT ![t] = "close"]
  /\ UNCHANGED <<poolVars, kernelVars, connfd, batch, fd, serverfd, tunnelfd,
                 kind, clientVars, fate>>

\* One of the peers has closed, or a registration has failed.
TunnelEnds(t) ==
  /\ stage[t] = "tunnel"
  /\ todo' = [todo EXCEPT ![t] = <<Close(fd[t]), Close(serverfd[t]), Close(tunnelfd[t])>>]
  /\ stage' = [stage EXCEPT ![t] = "close"]
  /\ UNCHANGED <<poolVars, kernelVars, connfd, batch, fd, serverfd, tunnelfd,
                 kind, clientVars, fate>>

-----------------------------------------------------------------------------
(* The descriptor operations at the end of doit() and connect_handler().   *)

\* The last of them ends doit(): back to the batch, or to epoll_wait().
Return(t) ==
  /\ todo' = [todo EXCEPT ![t] = Tail(@)]
  /\ IF Len(todo[t]) > 1
     THEN UNCHANGED <<stage, fd, serverfd, tunnelfd>>
     ELSE /\ stage' = [stage EXCEPT ![t] = IF batch[t] = {} THEN "poll" ELSE "batch"]
          /\ fd' = [fd EXCEPT ![t] = 0]
          /\ serverfd' = [serverfd EXCEPT ![t] = 0]
          /\ tunnelfd' = [tunnelfd EXCEPT ![t] = 0]
  /\ UNCHANGED <<poolVars, connfd, batch, kind, clientVars>>

\* Deleting what is not registered only prints an error.
DoDel(t) ==
  /\ stage[t] = "close" /\ Head(todo[t]).op = "del"
  /\ interest' = [interest EXCEPT ![t] = @ \ {Head(todo[t]).on}]
  /\ armed' = [armed EXCEPT ![t] = @ \ {Head(todo[t]).on}]
  /\ Return(t)
  /\ UNCHANGED <<file, fate>>

\* Mutation: reset_oneshot() forgets to ask for events again.
DoRearmNothing(t) ==
  /\ stage[t] = "close" /\ Head(todo[t]).op = "rearm"
  /\ Return(t)
  /\ UNCHANGED <<kernelVars, fate>>

\* reset_oneshot(); its result is not looked at.
DoRearm(t) ==
  /\ stage[t] = "close" /\ Head(todo[t]).op = "rearm"
  /\ armed' = [armed EXCEPT ![t] = @ \cup ({Head(todo[t]).on} \cap interest[t])]
  /\ Return(t)
  /\ UNCHANGED <<file, interest, fate>>

\* close() also takes the descriptor out of every epoll instance.
DoClose(t) ==
  /\ stage[t] = "close" /\ Head(todo[t]).op = "close"
  /\ LET f == Head(todo[t]).on
     IN /\ f \in Fds /\ file[f] # Free
        /\ file' = [file EXCEPT ![f] = Free]
        /\ interest' = [s \in Threads |-> interest[s] \ {f}]
        /\ armed' = [s \in Threads |-> armed[s] \ {f}]
  /\ Return(t)
  /\ UNCHANGED fate

\* The Close() wrapper ends the process when close() fails.
DoCloseFails(t) ==
  /\ stage[t] = "close" /\ Head(todo[t]).op = "close"
  /\ LET f == Head(todo[t]).on IN f \in Fds => file[f] = Free
  /\ fate' = "close error"
  /\ UNCHANGED <<poolVars, kernelVars, connfd, doitVars, clientVars>>

\* Nothing ignores SIGPIPE: writing to a peer that has closed ends the process.
BrokenPipe(t) ==
  /\ \/ stage[t] \in {"exchange", "tunnel"}
     \/ stage[t] = "refuse" /\ \E c \in Conns : file[fd[t]] = Client(c) /\ gone[c]
  /\ fate' = "broken pipe"
  /\ UNCHANGED <<poolVars, kernelVars, connfd, doitVars, clientVars>>

-----------------------------------------------------------------------------
\* The steps a worker takes by itself.
WorkerStep(t) ==
  \/ EpollWait(t) \/ CallDoit(t)
  \/ ReadRequest(t) \/ OpenSocketFails(t) \/ OpenSocket(t) \/ Refuse(t)
  \/ StartTunnel(t) \/ CreateTunnel(t) \/ CreateTunnelFails(t)
  \/ DoDel(t) \/ DoRearm(t) \/ DoClose(t) \/ DoCloseFails(t)

\* The steps that wait for a peer.
PeerStep(t) == ConnectServer(t) \/ Exchange(t) \/ TunnelEnds(t) \/ BrokenPipe(t)

Main == MainElse \/ \E c \in Conns : Accept(c) \/ Add(c)

Alive == proc = "running" /\ fate = "running"

ProxyNext ==
  /\ Alive
  /\ \/ Main
     \/ \E t \in Threads : StartWorker(t) \/ WorkerStep(t) \/ PeerStep(t)
     \/ \E c \in Conns : Connect(c) \/ ClientSend(c) \/ ClientClose(c)

ProxySpec == ProxyInit /\ [][ProxyNext]_allVars

\* Threads are scheduled fairly.  Nothing is assumed of clients and servers:
\* an exchange or a tunnel may last for ever.
ProxyFairness ==
  /\ WF_allVars(Alive /\ Main)
  /\ \A t \in Threads : WF_allVars(Alive /\ (StartWorker(t) \/ WorkerStep(t)))

FairProxySpec == ProxySpec /\ ProxyFairness

-----------------------------------------------------------------------------
(* Properties.                                                             *)

\* Every variable stays in its range.
ProxyTypeOK ==
  /\ PoolTypeOK
  /\ file \in [Fds -> Files]
  /\ interest \in [Threads -> SUBSET Fds]
  /\ armed \in [Threads -> SUBSET Fds]
  /\ connfd \in Fds \cup {0}
  /\ stage \in [Threads -> Stages]
  /\ batch \in [Threads -> SUBSET Fds]
  /\ fd \in [Threads -> Fds \cup {0}]
  /\ serverfd \in [Threads -> Fds \cup {0}]
  /\ tunnelfd \in [Threads -> Fds \cup {0, -1}]
  /\ kind \in [Threads -> Kinds \cup {"none"}]
  /\ todo \in [Threads -> Seq([op : {"del", "close", "rearm"}, on : Fds \cup {-1}])]
  /\ unread \in [Conns -> BOOLEAN]
  /\ gone \in [Conns -> BOOLEAN]
  /\ sent \in [Conns -> 0 .. MaxRequests]
  /\ fate \in {"running", "close error", "broken pipe"}

\* f is the socket of a connection that was given to worker t.
ClientOf(t, f) == \E c \in Conns : file[f] = Client(c) /\ home[c] = EpollFd(t)

OwnFile(t, f) == ClientOf(t, f) \/ file[f] \in {Server(t), Tunnel(t)}

\* A worker never operates on a descriptor that is not its own: what it reads,
\* removes, rearms or closes is the socket of a client given to it or one it
\* has opened itself, whatever numbers other threads free and reuse meanwhile.
OperatesOnOwn ==
  \A t \in Threads :
     /\ \A f \in batch[t] : ClientOf(t, f)
     /\ stage[t] \notin {"poll", "batch", "close"} => ClientOf(t, fd[t])
     /\ \A k \in DOMAIN todo[t] : todo[t][k].on # -1 => OwnFile(t, todo[t][k].on)

\* EPOLLONESHOT keeps a connection that is being served, or waits in the batch,
\* from being reported again, and no closed socket stays registered.
ServedIsDisarmed ==
  \A t \in Threads :
     /\ armed[t] \subseteq interest[t]
     /\ \A f \in interest[t] : ClientOf(t, f)
     /\ armed[t] \cap batch[t] = {}
     /\ stage[t] # "close" => fd[t] \notin armed[t]

\* No connection gets lost: as long as its socket is open, it is armed in the
\* epoll instance of its worker, or that worker is about to serve it, serves
\* it, or has still to close or rearm it.
NoLostConnection ==
  \A c \in Conns : \A f \in Fds : file[f] = Client(c) =>
     IF conn[c] = "accepted" THEN connfd = f
     ELSE \E t \in Threads :
            /\ home[c] = EpollFd(t)
            /\ \/ f \in armed[t] \/ f \in batch[t]
               \/ fd[t] = f /\ stage[t] # "close"
               \/ \E k \in DOMAIN todo[t] :
                     todo[t][k].on = f /\ todo[t][k].op \in {"close", "rearm"}

\* A worker that is between two requests has no socket to a server and no
\* tunnel open, on whichever path doit() returned; so the proxy never holds
\* more than two descriptors per worker besides its clients' sockets.
NoDescriptorLeak ==
  \A t \in Threads :
     /\ stage[t] \in {"poll", "batch"} => \A f \in Fds : file[f] \notin {Server(t), Tunnel(t)}
     /\ Cardinality({f \in Fds : file[f] \in {Server(t), Tunnel(t)}}) <= 2

\* The Close() wrapper ends the process only for the epoll descriptor that
\* connect_handler() did not get and did not notice.
CloseErrorOnlyByTunnel ==
  fate = "close error" => \E t \in Threads : tunnelfd[t] = -1 /\ todo[t] = <<Close(-1)>>

\* Unless a peer holds its worker for ever, a connection with something to
\* read is served or closed: no other connection, on this worker or another,
\* keeps it waiting.
ReadableServed ==
  \A t \in Threads : \A c \in Conns :
     []<>(stage[t] = "poll" \/ ~ Alive) =>
       ((home[c] = EpollFd(t) /\ OpenConn(c) /\ (unread[c] \/ gone[c]))
          ~> (~ OpenConn(c) \/ ~ Alive \/ \E f \in Fds : file[f] = Client(c) /\ fd[t] = f))
=============================================================================
