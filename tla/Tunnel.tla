------------------------------- MODULE Tunnel --------------------------------
(***************************************************************************)
(* connect_handler(): the tunnel of a CONNECT request.                     *)
(*                                                                         *)
(* Both sockets are non-blocking and registered edge triggered (EPOLLET):  *)
(* epoll_wait() reports a socket once after something has arrived on it,   *)
(* however much that was.  The handler reads MAXLINE bytes at a time until *)
(* a read comes back short, and writes what it read to the other socket    *)
(* with rio_writen(), which gives up when the send buffer is full.         *)
(*                                                                         *)
(* Bytes are counted, not named: byte number n of a peer is its n-th.      *)
(***************************************************************************)
EXTENDS Integers, Sequences, FiniteSets

CONSTANTS
  MAXLINE,     \* the most bytes of one read()
  SendBuffer,  \* the bytes a socket takes before write() says EAGAIN
  MaxBytes,    \* bound: the most bytes a peer sends
  Resets       \* may a peer reset its connection?

ASSUME MaxlineAssumption == MAXLINE \in Nat \ {0}
ASSUME SendBufferAssumption == SendBuffer \in Nat \ {0}
ASSUME MaxBytesAssumption == MaxBytes \in Nat
ASSUME ResetsAssumption == Resets \in BOOLEAN

Peers    == {"client", "server"}
Other(p) == IF p = "client" THEN "server" ELSE "client"

VARIABLES
  arrived,     \* how many bytes of each peer have reached its socket
  taken,       \* how many of them the handler has read
  end,         \* open, fin (end of file), rst, reported (a call has returned the
               \* reset as its error; the next read gives 0, the next write
               \* SIGPIPE) or broken (reset after fin)
  edge,        \* the sockets epoll_wait() has still to report
  out,         \* the bytes that were accepted by write() to each peer
  unsent,      \* how many of them are still in the send buffer
  dropped,     \* has a write to this peer been given up?
  stage,       \* wait, read, write, next, closed, or killed by SIGPIPE
  events,      \* what epoll_wait() returned and was not handled
  peer,        \* the peer of the event that is handled
  chunk,       \* the first and last byte in buf
  disconnect

peerVars == <<arrived, end>>
tunnelVars == <<arrived, taken, end, edge, out, unsent, dropped, stage,
                events, peer, chunk, disconnect>>

TunnelInit ==
  /\ arrived = [p \in Peers |-> 0]
  /\ taken = [p \in Peers |-> 0]
  /\ end = [p \in Peers |-> "open"]
  /\ edge = {}
  /\ out = [p \in Peers |-> <<>>]
  /\ unsent = [p \in Peers |-> 0]
  /\ dropped = [p \in Peers |-> FALSE]
  /\ stage = "wait"
  /\ events = {}
  /\ peer = "client"
  /\ chunk = <<1, 0>>
  /\ disconnect = FALSE

Running == stage \notin {"closed", "killed"}
Unread(p) == arrived[p] - taken[p]

-----------------------------------------------------------------------------
(* The peers and the network.                                              *)

Arrive(p) ==
  /\ Running /\ end[p] = "open" /\ arrived[p] < MaxBytes
  /\ \E n \in arrived[p] + 1 .. MaxBytes : arrived' = [arrived EXCEPT ![p] = n]
  /\ edge' = edge \cup {p}
  /\ UNCHANGED <<taken, end, out, unsent, dropped, stage, events, peer, chunk, disconnect>>

EndOfFile(p) ==
  /\ Running /\ end[p] = "open"
  /\ end' = [end EXCEPT ![p] = "fin"]
  /\ edge' = edge \cup {p}
  /\ UNCHANGED <<arrived, taken, out, unsent, dropped, stage, events, peer, chunk, disconnect>>

Reset(p) ==
  /\ Running /\ Resets /\ end[p] \in {"open", "fin"}
  /\ end' = [end EXCEPT ![p] = IF @ = "open" THEN "rst" ELSE "broken"]
  /\ edge' = edge \cup {p}
  /\ UNCHANGED <<arrived, taken, out, unsent, dropped, stage, events, peer, chunk, disconnect>>

\* The peer takes what waits in the send buffer.
Drain(p) ==
  /\ Running /\ unsent[p] > 0
  /\ unsent' = [unsent EXCEPT ![p] = 0]
  /\ UNCHANGED <<arrived, taken, end, edge, out, dropped, stage, events, peer, chunk, disconnect>>

-----------------------------------------------------------------------------
(* connect_handler().                                                      *)

\* Mutation: the pending events are cleared when the batch is done, so that
\* what arrives meanwhile is not reported.
LastEventClears ==
  /\ stage = "next" /\ events = {}
  /\ stage' = IF disconnect THEN "closed" ELSE "wait"
  /\ edge' = {}
  /\ UNCHANGED <<arrived, taken, end, out, unsent, dropped, events, peer,
                 chunk, disconnect>>

EpollWait ==
  /\ stage = "wait" /\ edge # {}
  /\ events' = edge
  /\ edge' = {}
  /\ stage' = "next"
  /\ UNCHANGED <<arrived, taken, end, out, unsent, dropped, peer, chunk, disconnect>>

\* The for loop over the events, in any order; after the last one the
\* tunnel is closed or waited for again.
NextEvent ==
  /\ stage = "next" /\ events # {}
  /\ \E p \in events : peer' = p /\ events' = events \ {p}
  /\ stage' = "read"
  /\ UNCHANGED <<arrived, taken, end, edge, out, unsent, dropped, chunk, disconnect>>

LastEvent ==
  /\ stage = "next" /\ events = {}
  /\ stage' = IF disconnect THEN "closed" ELSE "wait"
  /\ UNCHANGED <<arrived, taken, end, edge, out, unsent, dropped, events, peer,
                 chunk, disconnect>>

ReadData ==
  /\ stage = "read" /\ Unread(peer) > 0
  /\ LET n == IF Unread(peer) < MAXLINE THEN Unread(peer) ELSE MAXLINE
     IN /\ chunk' = <<taken[peer] + 1, taken[peer] + n>>
        /\ taken' = [taken EXCEPT ![peer] = @ + n]
  /\ stage' = "write"
  /\ UNCHANGED <<arrived, end, edge, out, unsent, dropped, events, peer, disconnect>>

\* Mutation: an end of file is not looked at while bytes are unread.
ReadEofEarly ==
  /\ stage = "read" /\ end[peer] \in {"fin", "reported", "broken"}
  /\ disconnect' = TRUE
  /\ stage' = "next"
  /\ UNCHANGED <<arrived, taken, end, edge, out, unsent, dropped, events, peer, chunk>>

\* Mutation: the disconnect flag is not set at end of file either.
ReadEofForgotten ==
  /\ stage = "read" /\ Unread(peer) = 0 /\ end[peer] \in {"fin", "reported", "broken"}
  /\ stage' = "next"
  /\ UNCHANGED <<arrived, taken, end, edge, out, unsent, dropped, events, peer,
                 chunk, disconnect>>

\* read() returns 0.
ReadEof ==
  /\ stage = "read" /\ Unread(peer) = 0 /\ end[peer] \in {"fin", "reported", "broken"}
  /\ disconnect' = TRUE
  /\ stage' = "next"
  /\ UNCHANGED <<arrived, taken, end, edge, out, unsent, dropped, events, peer, chunk>>

\* read() returns -1 with EAGAIN.
ReadNothing ==
  /\ stage = "read" /\ Unread(peer) = 0 /\ end[peer] = "open"
  /\ stage' = "next"
  /\ UNCHANGED <<arrived, taken, end, edge, out, unsent, dropped, events, peer,
                 chunk, disconnect>>

\* read() returns -1 with ECONNRESET.  The line that would set disconnect is
\* commented out.
ReadError ==
  /\ stage = "read" /\ Unread(peer) = 0 /\ end[peer] = "rst"
  /\ end' = [end EXCEPT ![peer] = "reported"]
  /\ stage' = "next"
  /\ UNCHANGED <<arrived, taken, edge, out, unsent, dropped, events, peer,
                 chunk, disconnect>>

ChunkLength == chunk[2] - chunk[1] + 1

\* Mutation: every read ends the loop, also a full one.
WriteOnce ==
  /\ stage = "write" /\ end[Other(peer)] \in {"open", "fin"}
  /\ LET q    == Other(peer)
         room == SendBuffer - unsent[q]
         n    == IF ChunkLength < room THEN ChunkLength ELSE room
     IN /\ out' = [out EXCEPT ![q] = @ \o [k \in 1 .. n |-> chunk[1] + k - 1]]
        /\ unsent' = [unsent EXCEPT ![q] = @ + n]
        /\ dropped' = [dropped EXCEPT ![q] = @ \/ n < ChunkLength]
  /\ stage' = "next"
  /\ chunk' = <<1, 0>>
  /\ UNCHANGED <<arrived, taken, end, edge, events, peer, disconnect>>

\* Mutation: a write that was given up is started again from the first byte.
WriteAgain ==
  /\ stage = "write" /\ end[Other(peer)] \in {"open", "fin"}
  /\ LET q    == Other(peer)
         room == SendBuffer - unsent[q]
         n    == IF ChunkLength < room THEN ChunkLength ELSE room
     IN /\ out' = [out EXCEPT ![q] = @ \o [k \in 1 .. n |-> chunk[1] + k - 1]]
        /\ unsent' = [unsent EXCEPT ![q] = @ + n]
        /\ IF n < ChunkLength
           THEN UNCHANGED <<stage, chunk>>
           ELSE /\ stage' = IF ChunkLength < MAXLINE THEN "next" ELSE "read"
                /\ chunk' = <<1, 0>>
  /\ UNCHANGED <<arrived, taken, end, edge, dropped, events, peer, disconnect>>

\* Mutation: MAXLINE bytes of buf are written, not the bytes read.
WriteWholeBuffer ==
  /\ stage = "write" /\ end[Other(peer)] \in {"open", "fin"}
  /\ LET q == Other(peer)
     IN /\ out' = [out EXCEPT ![q] = @ \o [k \in 1 .. MAXLINE |-> chunk[1] + k - 1]]
        /\ unsent' = [unsent EXCEPT ![q] = SendBuffer]
  /\ stage' = IF ChunkLength < MAXLINE THEN "next" ELSE "read"
  /\ chunk' = <<1, 0>>
  /\ UNCHANGED <<arrived, taken, end, edge, dropped, events, peer, disconnect>>

\* rio_writen() to the other socket: what does not fit in the send buffer is
\* lost, since its result is not looked at.  Only a full read is followed by
\* another one.
Write ==
  /\ stage = "write" /\ end[Other(peer)] \in {"open", "fin"}
  /\ LET q    == Other(peer)
         room == SendBuffer - unsent[q]
         n    == IF ChunkLength < room THEN ChunkLength ELSE room
     IN /\ out' = [out EXCEPT ![q] = @ \o [k \in 1 .. n |-> chunk[1] + k - 1]]
        /\ unsent' = [unsent EXCEPT ![q] = @ + n]
        /\ dropped' = [dropped EXCEPT ![q] = @ \/ n < ChunkLength]
  /\ stage' = IF ChunkLength < MAXLINE THEN "next" ELSE "read"
  /\ chunk' = <<1, 0>>
  /\ UNCHANGED <<arrived, taken, end, edge, events, peer, disconnect>>

\* The first write to a peer that has reset the connection returns the reset
\* as its error; when it was reported before, SIGPIPE ends the process.
WriteError ==
  /\ stage = "write" /\ end[Other(peer)] \in {"rst", "reported", "broken"}
  /\ IF end[Other(peer)] = "rst"
     THEN /\ end' = [end EXCEPT ![Other(peer)] = "reported"]
          /\ stage' = IF ChunkLength < MAXLINE THEN "next" ELSE "read"
     ELSE /\ stage' = "killed"
          /\ UNCHANGED end
  /\ dropped' = [dropped EXCEPT ![Other(peer)] = TRUE]
  /\ chunk' = <<1, 0>>
  /\ UNCHANGED <<arrived, taken, edge, out, unsent, events, peer, disconnect>>

-----------------------------------------------------------------------------
Handler ==
  \/ EpollWait \/ NextEvent \/ LastEvent
  \/ ReadData \/ ReadEof \/ ReadNothing \/ ReadError
  \/ Write \/ WriteError

TunnelNext ==
  \/ Handler
  \/ \E p \in Peers : Arrive(p) \/ EndOfFile(p) \/ Reset(p) \/ Drain(p)

TunnelSpec == TunnelInit /\ [][TunnelNext]_tunnelVars

\* The worker's thread is scheduled; nothing is assumed of the peers.
FairTunnelSpec == TunnelSpec /\ WF_tunnelVars(Handler)

-----------------------------------------------------------------------------
(* Properties.                                                             *)

\* Every variable stays in its range.
TunnelTypeOK ==
  /\ arrived \in [Peers -> 0 .. MaxBytes]
  /\ taken \in [Peers -> 0 .. MaxBytes]
  /\ end \in [Peers -> {"open", "fin", "rst", "reported", "broken"}]
  /\ edge \in SUBSET Peers
  /\ out \in [Peers -> Seq(1 .. MaxBytes)]
  /\ unsent \in [Peers -> 0 .. SendBuffer]
  /\ dropped \in [Peers -> BOOLEAN]
  /\ stage \in {"wait", "next", "read", "write", "closed", "killed"}
  /\ events \in SUBSET Peers
  /\ peer \in Peers
  /\ chunk \in Nat \X Nat
  /\ disconnect \in BOOLEAN

\* Edge triggering loses no data: when the handler waits, every byte that has
\* reached a socket was read, or the socket will still be reported, although
\* the read loop stops after a short read and never sees EAGAIN.
NoStrandedData ==
  stage = "wait" => \A p \in Peers : p \notin edge => Unread(p) = 0

\* The bytes of p the handler is done with: read and not still in buf.
Handled(p) == IF stage = "write" /\ peer = p THEN chunk[1] - 1 ELSE taken[p]

\* Until a write is given up, a peer gets the other one's bytes in order and
\* without a gap.
PassedInOrder ==
  \A p \in Peers : ~ dropped[Other(p)] => out[Other(p)] = [k \in 1 .. Handled(p) |-> k]

\* Even after that, and whatever the peers do, no byte is passed on twice or
\* before an earlier one.
NeverRepeats ==
  \A p \in Peers : \A k \in 1 .. Len(out[p]) - 1 : out[p][k] < out[p][k + 1]

\* The tunnel is closed only when one of the peers has ended and all that it
\* had sent was read.
ClosedWhenDrained ==
  stage = "closed" => \E p \in Peers : end[p] # "open" /\ Unread(p) = 0

\* The tunnel implements a pair of pipes, as long as the send buffers take
\* everything and nobody resets a connection.
PipeView == INSTANCE Pipe WITH
  sent   <- arrived,
  passed <- [p \in Peers |-> Len(out[Other(p)])],
  ended  <- {p \in Peers : end[p] # "open"},
  open   <- stage # "closed"
ImplementsPipe == PipeView!PipeSpec

\* Every byte that reaches the proxy is read, unless the tunnel is closed.
DataIsRead ==
  \A p \in Peers : Unread(p) > 0 ~> (Unread(p) = 0 \/ stage = "closed")

\* An end of file that finds its socket read empty and reported closes the
\* tunnel.
LoneEofCloses ==
  \A p \in Peers :
     (p \in edge /\ end[p] = "fin" /\ Unread(p) = 0 /\ stage = "wait") ~> stage = "closed"

\* Comment of connect_handler(): the loop breaks when read returns 0 or -1
\* with an unexpected errno; so a peer that ends or resets ends the tunnel.
EndClosesTunnel ==
  \A p \in Peers : end[p] # "open" ~> ~ Running
=============================================================================
