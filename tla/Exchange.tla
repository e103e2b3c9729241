------------------------------ MODULE Exchange ------------------------------
(***************************************************************************)
(* What doit() reads and writes: one worker serves one request after the   *)
(* other, its clients' requests go to their servers and the replies back.  *)
(*                                                                         *)
(* Client sockets are non-blocking: a line that is not there yet is EAGAIN,*)
(* and what does not fit in the send buffer is lost.  Server sockets block,*)
(* so that a reply is simply what the server will have said before it      *)
(* closes or resets the connection.  buf, rqdata and cstatus are not       *)
(* cleared between requests.                                               *)
(***************************************************************************)
EXTENDS Rio

CONSTANTS
  Clients,      \* the connections the worker serves
  Requests,     \* what each client may send: sets of sequences of item kinds
  Replies,      \* what each client's server may answer before it closes
  Prompt,       \* the clients that send all they have to say at once, and stay
  Slow,         \* the clients whose send buffers may be full
  MaxSpins      \* bound: how often one doit() runs into EAGAIN in its loops

\* Request lines by method, version and form: http://host:port/path but for
\* "path" (/path), "portless" (http://host/path), "pathless" (host:port) and
\* "connect" (host:port).
Methods  == {"get", "get0", "path", "portless", "pathless", "post", "post0", "connect", "head", "newer"}
WithHost == Methods \ {"path"}
WithPort == Methods \ {"path", "portless"}
WithPath == Methods \ {"pathless", "connect"}
Version0 == {"get0", "post0"}        \* HTTP/1.0; "post0" is POST, "get0" every other method
Forwards == {"get", "path", "portless", "pathless", "post"} \cup Version0
Posts    == {"post", "post0"}

\* Header lines: "close" and "keep" are Connection: close and any other,
\* "chunked" and "coding" Transfer-Encoding: chunked and any other, "length" and
\* "empty" a Content-length in just this spelling (in another it is an "other").
Headers == {"host", "close", "keep", "length", "empty", "chunked", "coding", "trailer", "other"}

\* What the items of a stream may be that clients and servers send; "line",
\* "garbage", "200" and the errors are the proxy's own.
ItemKinds ==
  Methods \cup Headers \cup Unterminated
    \cup {"tail", "blank", "status", "size", "data", "last", "junk"}

ASSUME ExchangeAssumption ==
  /\ Clients # {} /\ Clients \cap {"proxy", "server", "nobody"} = {} /\ MaxSpins \in Nat \ {0}
  /\ \A c \in Clients : Requests[c] \subseteq Seq(ItemKinds) /\ Replies[c] \subseteq Seq(ItemKinds)

BodyLen(kind) == IF kind = "length" THEN 2 ELSE 0  \* the Content-length a header declares

NoLine == <<"junk", "nobody">>
Gap    == <<"gap", "nobody">>        \* something that was written and did not arrive
By(who, kinds) == [i \in DOMAIN kinds |-> <<kinds[i], who>>]
Proxy(kinds) == By("proxy", kinds)
Directions == {"up", "down"}  \* from the client, from the server
Unset == [d \in Directions |-> FALSE]

VARIABLES
  asked,       \* everything a client will send
  sent,        \* how many items of that it has sent
  inbox,       \* what its socket holds
  ended,       \* has it ended its stream?
  conn,        \* its connection: armed, served, tunnel or closed
  pc,          \* where the worker is; "aborted" and "spin" are for ever
  fd,          \* the client that is served
  rio,         \* rio_client
  buf,         \* doit()'s buf
  rq,          \* rqdata: kind of request, and the lines that host, port and loc were
               \* copied from (NoLine: the string is empty, the port "80")
  cstatus,     \* client_setclose and client_shuttingdown
  enc,         \* cstatus' transfer encodings: is it "chunked"?
  trailer,     \* cstatus' trailers: is it set?
  line,        \* buf of the forwarding functions
  isHostSet, length,  \* their locals; length is -1 when none is declared
  dir,         \* the direction forward_chunked() works in
  toServer,    \* what this request's server got
  toClient,    \* what the client got for it
  answer,      \* what its server says
  reply,       \* what of that has not been read yet
  broken,      \* does that end with a reset, which read() has not reported yet?
  spins        \* how often this doit() met EAGAIN

clientVars  == <<asked, sent, ended>>
residueVars == <<buf, rq, cstatus, enc, trailer>>
serverVars  == <<answer, reply, broken, toServer>>
localVars   == <<line, isHostSet, length, dir, spins>>
vars == <<clientVars, inbox, conn, pc, fd, rio, residueVars, localVars, serverVars, toClient>>

Init ==
  /\ asked \in {f \in [Clients -> UNION {Requests[c] : c \in Clients}] :
                  \A c \in Clients : f[c] \in Requests[c]}
  /\ sent = [c \in Clients |-> 0]
  /\ inbox = [c \in Clients |-> <<>>]
  /\ ended = [c \in Clients |-> FALSE]
  /\ conn = [c \in Clients |-> "armed"]
  /\ pc = "wait" /\ fd = (CHOOSE c \in Clients : TRUE) /\ rio = <<>>
  /\ buf = NoLine /\ rq = [kind |-> "junk", host |-> NoLine, port |-> NoLine, loc |-> NoLine]
  /\ cstatus = [close |-> FALSE, shut |-> FALSE] /\ enc = Unset /\ trailer = Unset
  /\ line = NoLine /\ isHostSet = FALSE /\ length = -1 /\ dir = "up" /\ spins = 0
  /\ answer = <<>> /\ reply = <<>> /\ broken = FALSE /\ toServer = <<>> /\ toClient = <<>>

-----------------------------------------------------------------------------
(* The clients.                                                            *)

Items(c) == By(c, asked[c])

Send(c) ==
  /\ ~ended[c] /\ conn[c] # "closed"
  /\ \E n \in sent[c] + 1 .. Len(asked[c]) :
       /\ c \in Prompt => n = Len(asked[c])
       /\ sent' = [sent EXCEPT ![c] = n]
       /\ inbox' = [inbox EXCEPT ![c] = @ \o SubSeq(Items(c), sent[c] + 1, n)]
  /\ UNCHANGED <<asked, ended, conn, pc, fd, rio, residueVars, localVars, serverVars, toClient>>

End(c) ==
  /\ ~ended[c] /\ c \notin Prompt /\ conn[c] # "closed"
  /\ ended' = [ended EXCEPT ![c] = TRUE]
  /\ UNCHANGED <<asked, sent, inbox, conn, pc, fd, rio, residueVars, localVars, serverVars, toClient>>

-----------------------------------------------------------------------------
(* Steps of the worker.                                                    *)

\* rio_writen() to the client gives up when the send buffer is full, which
\* nobody looks at: only the first n items arrive.
Cut(items, n) == [i \in DOMAIN items |-> IF i <= n THEN items[i] ELSE Gap]
WriteClient(items) ==
  \E n \in IF fd \in Slow THEN 0 .. Len(items) ELSE {Len(items)} : toClient' = toClient \o Cut(items, n)

\* The same for items that are written one by one: any of them may be lost.
WriteEach(items) ==
  \E lost \in IF fd \in Slow THEN SUBSET (DOMAIN items) ELSE {{}} :
    toClient' = toClient \o [i \in DOMAIN items |-> IF i \in lost THEN Gap ELSE items[i]]

\* What a read r leaves of the client's stream, and of the server's: there
\* read() fails once, with the reset, and then reports the end of file.
Left(r) == rio' = r.left.rio /\ inbox' = [inbox EXCEPT ![fd] = r.left.inbox]
Took(r) == reply' = r.left.rio /\ broken' = (broken /\ r.ret >= 0)
FromClient(old) == ReadLine(rio, inbox[fd], ended[fd], old)
FromServer(old) == ReadLine(reply, <<>>, ~broken, old)

\* epoll_wait() reports a client that has sent or ended; doit() starts.
\* malloc() returns memory with whatever was in it: anything in client_setclose,
\* in the strings of rqdata and of cstatus what the last request left or nothing.
Wake ==
  /\ pc = "wait"
  /\ \E c \in Clients :
       /\ conn[c] = "armed" /\ (inbox[c] # <<>> \/ ended[c])
       /\ fd' = c /\ conn' = [conn EXCEPT ![c] = "served"]
  /\ \E x \in BOOLEAN : cstatus' = [close |-> x, shut |-> FALSE]
  /\ \/ UNCHANGED <<enc, trailer>>
     \/ enc' = Unset /\ trailer' = Unset
  /\ rq' \in {rq, [rq EXCEPT !.host = NoLine, !.port = NoLine, !.loc = NoLine]}
  /\ pc' = "request"
  /\ UNCHANGED <<clientVars, inbox, rio, buf, localVars, serverVars, toClient>>

\* Mutation: the buffer is not reset.
ReadinitForgotten == UNCHANGED rio

\* rio_readinitb(): what rio_client held is thrown away (when the next
\* doit() starts).
Readinit == rio' = <<>>

\* doit() returns, and what it had of its own is gone.
Return ==
  /\ pc = "return"
  /\ pc' = "wait" /\ Readinit
  /\ inbox' = IF conn[fd] = "closed" THEN [inbox EXCEPT ![fd] = <<>>] ELSE inbox
  /\ line' = NoLine /\ isHostSet' = FALSE /\ length' = -1 /\ dir' = "up" /\ spins' = 0
  /\ toServer' = <<>> /\ toClient' = <<>> /\ answer' = <<>> /\ reply' = <<>> /\ broken' = FALSE
  /\ UNCHANGED <<clientVars, conn, fd, residueVars>>

Closed(c) == conn' = [conn EXCEPT ![c] = "closed"]

\* parse_requestline() copies the parts that the line has; the others stay.
Copied(l, parts) ==
  [rq EXCEPT !.host = IF "host" \in parts THEN l ELSE @,
             !.port = IF "port" \in parts THEN l ELSE @,
             !.loc  = IF "loc" \in parts THEN l ELSE @]
PartsOf(kind) ==
  {p \in {"host", "port", "loc"} :
     kind \in (CASE p = "host" -> WithHost [] p = "port" -> WithPort [] p = "loc" -> WithPath)}

\* What it may have copied before it refuses a line.
RefusedParts == {{}, {"host"}, {"host", "port"}, {"host", "loc"}, {"host", "port", "loc"}, {"loc"}}

\* The result of rio_readlineb() is not looked at: if there is no line, it is
\* the one before, another client's perhaps.
ReadRequest ==
  LET r == FromClient(buf) IN
  /\ pc = "request"
  /\ Left(r)
  /\ spins' = IF r.ret <= 0 THEN spins + 1 ELSE spins
  /\ \E l \in r.lines :
       /\ buf' = l
       /\ \/ /\ l[1] \in Methods
             /\ rq' = [Copied(l, PartsOf(l[1])) EXCEPT !.kind = l[1]]
             /\ pc' = "open"
             /\ UNCHANGED <<conn, toClient>>
          \/ /\ l[1] \notin Methods
             /\ \E parts \in RefusedParts : rq' = Copied(l, IF l[1] = "junk" THEN parts ELSE {})
             /\ WriteClient(Proxy(<<"400">>)) /\ Closed(fd)
             /\ pc' = "return"
  /\ UNCHANGED <<clientVars, fd, cstatus, enc, trailer, line, isHostSet, length, dir, serverVars>>

OpenFails ==
  /\ pc = "open"
  /\ WriteClient(Proxy(<<"404">>)) /\ Closed(fd)
  /\ pc' = "return"
  /\ UNCHANGED <<clientVars, inbox, fd, rio, residueVars, localVars, serverVars>>

\* The server is there; what the rest of doit() does depends on method and
\* version.  The request line is put together from rq: method, loc and version.
OpenServer ==
  /\ pc = "open" /\ rq.kind \in Forwards /\ rq.host[2] \in Clients
  /\ \E a \in Replies[rq.host[2]] : answer' = By("server", a) /\ reply' = By("server", a)
  /\ broken' \in BOOLEAN
  /\ toServer' = Proxy(<<"line", "close", "close">>)
  /\ line' = <<"close", "proxy">> /\ isHostSet' = FALSE /\ length' = -1
  /\ pc' = "header"
  /\ UNCHANGED <<clientVars, inbox, conn, fd, rio, residueVars, dir, spins, toClient>>

\* Another method of HTTP/1.1 ("head"), or another version ("newer").
NotImplemented ==
  /\ pc = "open" /\ rq.kind \in {"head", "newer"} /\ rq.host[2] \in Clients
  /\ WriteClient(Proxy(<<"501">>)) /\ Closed(fd)
  /\ pc' = "return"
  /\ UNCHANGED <<clientVars, inbox, fd, rio, residueVars, localVars, serverVars>>

\* CONNECT: the headers are skipped, unless read_bytes, which has no initial
\* value, says otherwise; then what rio has read is lost.
StartConnect ==
  /\ pc = "open" /\ rq.kind = "connect" /\ rq.host[2] \in Clients
  /\ pc' \in {"connect", "tunnel"}
  /\ UNCHANGED <<clientVars, inbox, conn, fd, rio, residueVars, localVars, serverVars, toClient>>

SkipHeader ==
  LET r == FromClient(buf) IN
  /\ pc = "connect"
  /\ Left(r) /\ buf' \in r.lines
  /\ pc' = IF buf'[1] = "blank" \/ r.ret <= 0 THEN "tunnel" ELSE "connect"
  /\ UNCHANGED <<clientVars, conn, fd, rq, cstatus, enc, trailer, localVars, serverVars, toClient>>

StartTunnel ==
  /\ pc = "tunnel"
  /\ buf' = <<"200", "proxy">> /\ WriteClient(<<buf'>>)
  /\ conn' = [conn EXCEPT ![fd] = "tunnel"] /\ rio' = <<>>
  /\ pc' = "return"
  /\ UNCHANGED <<clientVars, inbox, fd, rq, cstatus, enc, trailer, localVars, serverVars>>

-----------------------------------------------------------------------------
(* forward_requestheader().                                                *)

\* Mutation: Connection lines are passed on.
PassesEvery(l) == l[1] # "blank"

\* The lines that are sent on; Connection and Proxy-Connection are not.
Passes(l) == l[1] \notin {"blank", "close", "keep"}

\* What a header line sets, in direction d.
Note(l, d) ==
  /\ enc' = [enc EXCEPT ![d] = l[1] = "chunked" \/ (@ /\ l[1] # "coding")]
  /\ trailer' = [trailer EXCEPT ![d] = @ \/ l[1] = "trailer"]
  /\ length' = IF l[1] \in {"length", "empty"} THEN BodyLen(l[1]) ELSE length

\* Mutation: the Host line is kept for the end.
ForwardedHostLast(l) ==
  IF l[1] = "host" THEN <<>>
  ELSE IF Passes(l) THEN <<l>>
  ELSE IF l[1] # "blank" THEN <<>>
  ELSE IF isHostSet THEN <<<<"host", fd>>, l>> ELSE Proxy(<<"host", "host">>)

\* What is sent on for a line.  At the end of the header a missing Host is
\* written twice (from buf, without an end of line), and the empty line not at all.
Forwarded(l) ==
  IF Passes(l) THEN <<l>>
  ELSE IF l[1] # "blank" THEN <<>>
  ELSE IF isHostSet THEN <<l>> ELSE Proxy(<<"host", "host">>)

AfterRequest == IF rq.kind \in Version0 THEN "raw" ELSE "status"

\* EAGAIN, from the client, is met at most MaxSpins times.
Counted(r) ==
  /\ r.ret < 0 /\ dir = "up" => spins < MaxSpins
  /\ spins' = IF r.ret < 0 /\ dir = "up" THEN spins + 1 ELSE spins

\* One line of the loop.  EAGAIN falls through: the line before, at first the
\* "Proxy-Connection: close" just sent, is processed again.
RequestHeader ==
  LET r == FromClient(line) IN
  /\ pc = "header" /\ r.ret # 0 /\ Counted(r)
  /\ Left(r)
  /\ \E l \in r.lines :
       /\ line' = l
       /\ Note(l, "up")
       /\ isHostSet' = (isHostSet \/ l[1] = "host")
       /\ cstatus' = [cstatus EXCEPT !.close = @ \/ l[1] = "close"]
       /\ toServer' = toServer \o Forwarded(l)
       /\ pc' = IF l[1] # "blank" THEN "header"
                ELSE IF rq.kind \in Posts THEN "body" ELSE AfterRequest
  /\ UNCHANGED <<clientVars, conn, fd, buf, rq, dir, answer, reply, broken, toClient>>

\* Mutation: end of file is treated like EAGAIN.
RequestCutSpins ==
  /\ pc = "header" /\ FromClient(line).ret = 0
  /\ UNCHANGED vars

\* The client has ended: forward_requestheader() returns -1, which doit()
\* does not look at.
RequestCut ==
  /\ pc = "header" /\ FromClient(line).ret = 0
  /\ cstatus' = [cstatus EXCEPT !.shut = TRUE]
  /\ pc' = AfterRequest
  /\ UNCHANGED <<clientVars, inbox, conn, fd, rio, buf, rq, enc, trailer, localVars,
                 serverVars, toClient>>

\* Mutation: the last byte is forgotten.
PaddedShort(data, n) == SubSeq(data, 1, IF Len(data) < n THEN Len(data) ELSE n - 1)

\* As many items as declared are sent, those that were not read from an
\* uninitialized array.
Padded(data, n) == data \o Proxy([i \in 1 .. n - Len(data) |-> "garbage"])

RequestBody ==
  LET r == ReadBytes(rio, inbox[fd], ended[fd], length) IN
  /\ pc = "body" /\ ~enc["up"] /\ length >= 0
  /\ Left(r)
  /\ toServer' = toServer \o Padded(r.data, length)
  /\ cstatus' = [cstatus EXCEPT !.shut = @ \/ r.ret = 0]
  /\ spins' = IF r.ret < 0 THEN spins + 1 ELSE spins
  /\ pc' = AfterRequest
  /\ UNCHANGED <<clientVars, conn, fd, buf, rq, enc, trailer, line, isHostSet, length, dir,
                 answer, reply, broken, toClient>>

\* clienterror() is sent to the server.
NoRequestBody ==
  /\ pc = "body" /\ ~enc["up"] /\ length < 0
  /\ toServer' = Append(toServer, <<"400", "proxy">>)
  /\ cstatus' = [cstatus EXCEPT !.close = TRUE]
  /\ pc' = AfterRequest
  /\ UNCHANGED <<clientVars, inbox, conn, fd, rio, buf, rq, enc, trailer, localVars,
                 answer, reply, broken, toClient>>

StartChunked(d) ==
  /\ pc = (IF d = "up" THEN "body" ELSE "replybody") /\ enc[d]
  /\ dir' = d /\ line' = NoLine
  /\ pc' = "chunk"
  /\ UNCHANGED <<clientVars, inbox, conn, fd, rio, residueVars, isHostSet, length, spins,
                 serverVars, toClient>>

-----------------------------------------------------------------------------
(* forward_chunked(), from the client or from the server.                  *)

ChunkRead == IF dir = "up" THEN FromClient(line) ELSE FromServer(line)

\* Take what r has read and write items to the other side.
Pass(r, items) ==
  IF dir = "up"
  THEN Left(r) /\ toServer' = toServer \o items /\ UNCHANGED <<reply, broken, toClient>>
  ELSE Took(r) /\ WriteClient(items) /\ UNCHANGED <<rio, inbox, toServer>>

ChunkVars == <<clientVars, conn, fd, residueVars, isHostSet, length, dir, answer>>

\* What rio_writen() may send for read_bytes if r has read items.  At EAGAIN or
\* a reset that is -1, a size beyond SSIZE_MAX, of which write() makes what
\* it likes: an error, or as much as there is in the process behind buf.
Written(r, items) ==
  IF r.ret < 0 THEN {<<>>, Proxy(<<"garbage">>)} ELSE IF r.ret = 0 THEN {<<>>} ELSE {items}

\* Where doit() goes on when forward_chunked() has returned.
AfterChunks == IF dir = "up" THEN AfterRequest ELSE "finish"

\* A size line is read and not written; "0" is.  What the text of anything
\* that is no line says as a size may also be -1, which ends the loop.
ChunkSize ==
  LET r == ChunkRead IN
  /\ pc = "chunk" /\ r.ret # 0 /\ Counted(r)
  /\ line' \in r.lines
  /\ \E items \in IF line'[1] = "last" THEN Written(r, <<line'>>) ELSE {<<>>} : Pass(r, items)
  /\ \/ line'[1] = "last" /\ pc' = IF trailer[dir] THEN "trailer" ELSE "chunkend"
     \/ line'[1] # "last" /\ pc' = "chunkdata"
     \/ line'[1] = "junk" /\ pc' = AfterChunks
  /\ UNCHANGED ChunkVars

\* The reads that follow a size line: of one chunk, if that is what comes
\* next, but of any length if it is not or if the line was not a size.
ChunkReads(buffer, socket, isEnded) ==
  LET all == buffer \o socket IN
  IF line[1] = "size" /\ (all = <<>> \/ Head(all)[1] = "data")
  THEN {ReadBytes(buffer, socket, isEnded, 1)}
  ELSE {ReadBytes(buffer, socket, isEnded, n) : n \in 1 .. Len(all) + 1}
         \cup {ReadPart(buffer, socket, n) : n \in 0 .. Len(all) - 1}

\* The chunk is read over the size line and sent.  (No chunk is the text "0".)
ChunkData ==
  /\ pc = "chunkdata"
  /\ \E r \in IF dir = "up" THEN ChunkReads(rio, inbox[fd], ended[fd]) ELSE ChunkReads(reply, <<>>, ~broken) :
       /\ Counted(r)
       /\ \E items \in Written(r, r.data) : Pass(r, items)
       /\ line' = IF r.data = <<>> THEN line ELSE <<"junk", r.data[1][2]>>
  /\ pc' = "chunk"
  /\ UNCHANGED ChunkVars

\* At the end of file nothing changes any more, and the loop goes on.
ChunkSpins ==
  /\ pc = "chunk" /\ ChunkRead.ret = 0
  /\ pc' = "spin"
  /\ UNCHANGED <<ChunkVars, inbox, rio, line, spins, reply, broken, toServer, toClient>>

Trailer ==
  LET r == ChunkRead IN
  /\ pc = "trailer" /\ Counted(r)
  /\ line' \in r.lines
  /\ \E items \in Written(r, <<line'>>) : Pass(r, items)
  /\ pc' = "chunkend"
  /\ UNCHANGED ChunkVars

\* assert(!strcmp(buf, "\r\n")).
ChunkEnd ==
  LET r == ChunkRead IN
  /\ pc = "chunkend" /\ Counted(r)
  /\ line' \in r.lines
  /\ \E items \in IF line'[1] = "blank" THEN Written(r, <<line'>>) ELSE {<<>>} : Pass(r, items)
  /\ pc' = IF line'[1] # "blank" THEN "aborted" ELSE AfterChunks
  /\ UNCHANGED ChunkVars

-----------------------------------------------------------------------------
(* reply_nonconnection(), forward_reply() and the end of doit().           *)

\* Until the server closes; then both descriptors are closed.  At a reset the
\* result is -1 again, and buf holds what was read before it.
Raw ==
  /\ pc = "raw"
  /\ \/ /\ reply # <<>>
        /\ WriteClient(<<Head(reply)>>) /\ reply' = Tail(reply)
        /\ UNCHANGED <<pc, conn, broken>>
     \/ /\ broken
        /\ \E items \in {<<>>, reply \o Proxy(<<"garbage">>)} : WriteClient(items)
        /\ reply' = <<>> /\ broken' = FALSE
        /\ UNCHANGED <<pc, conn>>
     \/ /\ reply = <<>> /\ ~broken
        /\ pc' = "return" /\ Closed(fd)
        /\ UNCHANGED <<reply, broken, toClient>>
  /\ UNCHANGED <<clientVars, inbox, fd, rio, residueVars, localVars, answer, toServer>>

CloseLines == IF cstatus.close THEN Proxy(<<"close", "close">>) ELSE <<>>

\* A server that closes without a word: the client is told nothing.  One that
\* resets the connection: what the new buf holds is passed on.
ReplyStatus ==
  LET r == FromServer(NoLine) IN
  /\ pc = "status"
  /\ Took(r)
  /\ \/ r.ret = 0 /\ pc' = "finish" /\ UNCHANGED <<line, toClient>>
     \/ /\ r.ret # 0 /\ pc' = "replyheader"
        /\ line' \in r.lines
        /\ WriteEach(<<line'>> \o CloseLines)
  /\ length' = -1
  /\ UNCHANGED <<clientVars, inbox, conn, fd, rio, residueVars, isHostSet, dir, spins, answer, toServer>>

ReplyHeader ==
  LET r == FromServer(line) IN
  /\ pc = "replyheader" /\ r.ret > 0
  /\ Took(r)
  /\ line' \in r.lines
  /\ Note(line', "down")
  /\ WriteClient(IF Passes(line') \/ line'[1] = "blank" THEN <<line'>> ELSE <<>>)
  /\ pc' = IF line'[1] = "blank" THEN "replybody" ELSE "replyheader"
  /\ UNCHANGED <<clientVars, inbox, conn, fd, rio, buf, rq, cstatus, isHostSet, dir, spins, answer, toServer>>

\* A reset, unlike EAGAIN, does not fall through.
ReplyReset ==
  LET r == FromServer(line) IN
  /\ pc = "replyheader" /\ r.ret < 0
  /\ Took(r)
  /\ line' \in r.lines
  /\ UNCHANGED <<clientVars, inbox, conn, pc, fd, rio, residueVars, isHostSet, length, dir, spins,
                 answer, toServer, toClient>>

ReplyCut ==
  /\ pc = "replyheader" /\ FromServer(line).ret = 0
  /\ cstatus' = [cstatus EXCEPT !.shut = TRUE]
  /\ pc' = "finish"
  /\ UNCHANGED <<clientVars, inbox, conn, fd, rio, buf, rq, enc, trailer, localVars, serverVars, toClient>>

ReplyBody ==
  LET r == ReadBytes(reply, <<>>, ~broken, length) IN
  /\ pc = "replybody" /\ ~enc["down"] /\ length >= 0
  /\ Took(r)
  /\ WriteClient(Padded(r.data, length))
  /\ pc' = "finish"
  /\ UNCHANGED <<clientVars, inbox, conn, fd, rio, residueVars, localVars, answer, toServer>>

NoReplyBody ==
  /\ pc = "replybody" /\ ~enc["down"] /\ length < 0
  /\ WriteClient(Proxy(<<"400">>))
  /\ cstatus' = [cstatus EXCEPT !.close = TRUE]
  /\ pc' = "finish"
  /\ UNCHANGED <<clientVars, inbox, conn, fd, rio, buf, rq, enc, trailer, localVars, serverVars>>

\* Mutation: an end of file does not count.
FinishAsksOnly ==
  /\ pc = "finish"
  /\ \/ cstatus.close /\ Closed(fd)
     \/ ~cstatus.close /\ conn' = [conn EXCEPT ![fd] = "armed"]
  /\ pc' = "return"
  /\ UNCHANGED <<clientVars, inbox, fd, rio, residueVars, localVars, serverVars, toClient>>

\* The client is closed if it has asked for it or has ended, else rearmed.
\* client_shuttingdown, too, starts with anything: it may always be set.
Finish ==
  /\ pc = "finish"
  /\ \/ Closed(fd)
     \/ ~cstatus.close /\ ~cstatus.shut /\ conn' = [conn EXCEPT ![fd] = "armed"]
  /\ pc' = "return"
  /\ UNCHANGED <<clientVars, inbox, fd, rio, residueVars, localVars, serverVars, toClient>>

DoitStep ==
  \/ Return \/ ReadRequest \/ OpenFails \/ OpenServer \/ NotImplemented
  \/ StartConnect \/ SkipHeader \/ StartTunnel
  \/ RequestHeader \/ RequestCut \/ RequestBody \/ NoRequestBody
  \/ \E d \in Directions : StartChunked(d)
  \/ ChunkSize \/ ChunkData \/ ChunkSpins \/ Trailer \/ ChunkEnd
  \/ Raw \/ ReplyStatus \/ ReplyHeader \/ ReplyReset \/ ReplyCut \/ ReplyBody \/ NoReplyBody \/ Finish

Next == Wake \/ DoitStep \/ \E c \in Clients : Send(c) \/ End(c)

\* The worker runs; a client eventually sends what it has to say, or ends.
Spec ==
  /\ Init /\ [][Next]_vars
  /\ WF_vars(DoitStep) /\ WF_vars(Wake)
  /\ \A c \in Clients : WF_vars(Send(c) \/ End(c))

-----------------------------------------------------------------------------
(* Properties.                                                             *)

Kinds(items) == {items[i][1] : i \in DOMAIN items}
Has(c, kind) == kind \in ToSet(asked[c])
IsTorn(items) == Kinds(items) \cap DOMAIN HeadOf # {}

\* items are a message whose empty line is the n-th: a first line, headers, the
\* empty line, and as much of a body as every header that declares its length says.
IsWhole(items, n) ==
  /\ items[1][1] \in Methods \cup {"status"} /\ items[n][1] = "blank"
  /\ \A i \in 2 .. n - 1 : items[i][1] \in Headers \ {"chunked"}
  /\ \A i \in n + 1 .. Len(items) : items[i][1] = "body"
  /\ \A i \in 2 .. n - 1 :
       items[i][1] \in {"length", "empty"} => BodyLen(items[i][1]) = Len(items) - n

\* One request in whole lines; a POST says how long its body is, no other has one.
IsPlain(c) ==
  /\ Has(c, "host") /\ asked[c][1] \in Methods
  /\ \E n \in 2 .. Len(asked[c]) :
       /\ IsWhole(Items(c), n)
       /\ IF asked[c][1] \in Posts THEN Has(c, "length") \/ Has(c, "empty") ELSE n = Len(asked[c])

\* One answer in whole lines, which says how long its body is.
IsPlainAnswer ==
  /\ answer # <<>> /\ answer[1][1] = "status"
  /\ "length" \in Kinds(answer) \/ "empty" \in Kinds(answer)
  /\ \E n \in 2 .. Len(answer) : IsWhole(answer, n)

\* The parts that the request line has are its own, and of its writer.
OwnLine(l) ==
  /\ rq.kind = l[1] /\ l[2] = fd
  /\ l[1] \in WithHost => rq.host = l
  /\ l[1] \in WithPort => rq.port = l
  /\ l[1] \in WithPath => rq.loc = l

\* The answer's header has come whole: there is an empty line after a line.
HeaderWhole == \E n \in 2 .. Len(answer) : answer[n][1] = "blank" /\ IsTerminated(answer[n - 1])

\* What is passed on of the items 2 to n: all but the Connection lines.
PassedOn(items) ==
  LET passed[n \in 1 .. Len(items)] ==
        IF n = 1 THEN <<>>
        ELSE passed[n - 1] \o IF items[n][1] \in {"close", "keep"} THEN <<>> ELSE <<items[n]>>
  IN passed

\* What the server of a plain request should get.
Upstream(c) == Proxy(<<"line", "close", "close">>) \o PassedOn(Items(c))[Len(Items(c))]

\* What the client should get of an answer.
Downstream == <<Head(answer)>> \o CloseLines \o PassedOn(answer)[Len(answer)]

\* Where in t the item is, from the n-th on; behind the end if it is not there.
FoundIn(t, n, item) ==
  LET at == {k \in DOMAIN t : k >= n /\ t[k] = item} IN IF at = {} THEN Len(t) + 1 ELSE Min(at)

\* An item of who's, and not garbled.
IsOf(item, who) == item[2] = who /\ item[1] # "junk"

\* Such items of s come in t in this order; one may be repeated at once.
InOrderOf(s, who, t) ==
  LET place[n \in 0 .. Len(s)] ==
        IF n = 0 THEN 0
        ELSE IF IsOf(s[n], who) THEN FoundIn(t, place[n - 1], s[n]) ELSE place[n - 1]
  IN place[Len(s)] <= Len(t)

\* Type invariant: every stream holds items of one client or of a server, and
\* no flag or position leaves its range.
ExchangeTypeOK ==
  /\ conn \in [Clients -> {"armed", "served", "tunnel", "closed"}] /\ broken \in BOOLEAN
  /\ pc \in {"wait", "request", "open", "connect", "tunnel", "header", "body", "status",
             "replyheader", "replybody", "chunk", "chunkdata", "trailer", "chunkend",
             "raw", "finish", "return", "spin", "aborted"}
  /\ fd \in Clients /\ (pc \notin {"wait", "return"} => conn[fd] = "served")
  /\ cstatus \in [close : BOOLEAN, shut : BOOLEAN]
  /\ enc \in [Directions -> BOOLEAN] /\ trailer \in [Directions -> BOOLEAN]
  /\ isHostSet \in BOOLEAN /\ length \in {-1, 0, 2} /\ dir \in Directions
  /\ spins \in 0 .. MaxSpins + 1
  /\ \A c \in Clients : \A i \in DOMAIN inbox[c] : inbox[c][i][2] = c
  /\ \A i \in DOMAIN rio : pc # "wait" => rio[i][2] = fd
  /\ reply # <<>> => IsSuffix(Tail(reply), answer)

\* A plain request that has been there in time reaches its server whole and
\* once: the request line with the parts it has (those it leaves out are what
\* an earlier line has left), the proxy's two lines, the other headers, the
\* empty line and the body; unless it is a POST that finds a "chunked" left in
\* cstatus (doit() and forward_requestheader()).
RequestForwarded ==
  /\ pc \in {"status", "raw"} /\ spins = 0
  /\ IsPlain(fd) /\ sent[fd] = Len(asked[fd])
  /\ rq.kind \in Posts => ~enc["up"]
  => toServer = Upstream(fd) /\ OwnLine(Head(Items(fd)))

\* Late lines are repeated at most, and what is lost leaves no disorder: what
\* client and server have said is passed on in the order in which it was said,
\* through all of EAGAIN, ends of file and misread bodies.  (A line that comes
\* in pieces is passed on as one that is not among them.)
PassedOnInOrder ==
  /\ IsTorn(Items(fd)) \/ InOrderOf(toServer, fd, Items(fd))
  /\ IsTorn(answer) \/ InOrderOf(toClient, "server", answer)

\* An answer that declares its length reaches the client whole, unless a write
\* found the send buffer full, or a "chunked" left from the worker's previous
\* request is in the way (forward_reply()).
ReplyForwarded ==
  pc = "finish" /\ Gap \notin ToSet(toClient) /\ ~enc["down"] /\ IsPlainAnswer => toClient = Downstream

\* Whatever earlier requests have left in rio_client, buf and rqdata: if the
\* client's line was there when it was asked for, the server is opened and
\* asked for the host, the port and the path which this line names.
OwnRequest == toServer # <<>> /\ spins = 0 => OwnLine(buf)

\* A client is rearmed only after a whole exchange: it has not asked for the
\* end, the answer's header was read to its end and told how long the body is
\* (or there was no answer at all, which the proxy takes for one), and the
\* proxy has not refused the request's body (doit(), 529-537).
KeptAfterWhole ==
  [][pc = "finish" /\ conn'[fd] = "armed" /\ IsPlain(fd)
     => /\ ~Has(fd, "close")
        /\ answer = <<>> \/ (HeaderWhole /\ (length >= 0 \/ enc["down"]))
        /\ "400" \notin Kinds(toServer)]_vars

\* doit() returns, when clients do not wait for ever and servers close, or it
\* is in forward_chunked() for ever, or the assertion there has stopped the
\* proxy.
DoitReturns == (pc = "request") ~> (pc \in {"wait", "spin", "aborted"})
=============================================================================
