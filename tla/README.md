# Tiny_proxy: a verification project

TLA+ models of [tiny_proxy](../src), the TLC configurations that check them on
small instances, and TLAPS proofs of what holds for every instance.  The
reference is the code in `src/`; line numbers are those of `src/proxy.c` unless
another file is named.  `PROJECT.json` maps every definition to its lines and
lists runs, mutants, findings, hazards and theorems.

## 1. The system

`main()` (81-178) creates `CONNFD_POOL_SIZE` worker threads, then accepts
connections for ever and hands each one to a worker by adding it to that
worker's epoll instance, round robin.  A worker (`connfd_handler`, 193-230)
waits on its instance and calls `doit()` for each event; `doit()` (438-568)
serves one request from beginning to end, blocking, and either closes the
client or rearms it.  A CONNECT request turns `doit()` into a tunnel
(`connect_handler`, 244-337) that lasts until one peer ends.

| component | state | operations | interacts through | what makes it correct |
|---|---|---|---|---|
| `main` | `i`, `j`, `round_robin`, `connfd_mutex`, listening socket | create workers, accept, dispatch | `&j`, `epoll_list[]`, the mutex, epoll | own index for each worker, dispatch only to serving workers, balance |
| `connfd_handler` | its index, its epoll instance, the batch of events | start, wait, serve | the same, from the other side | served descriptors are its own, nobody is forgotten |
| `doit` | `fd`, `serverfd`, `rqdata`, `cstatus`, two rio buffers | parse, connect, forward, reply, close or rearm | the descriptor table, epoll, sockets | every path closes what it opened, in an order that no reuse of a number can break |
| `connect_handler` | `connect_epollfd`, `buf`, `disconnect` | wait, read, write, close | edge-triggered sockets | a byte pipe each way; the end of a peer ends the tunnel |
| `forward_requestheader`, `forward_reply`, `reply_nonconnection` | `cstatus`, line buffers | header loop, body | rio, sockets | exactly the request and the reply pass, the flags say whether the client stays |
| `forward_chunked`, `getchunksize`, `hex2num` | `chunksize`, `content_length` | decode and forward chunks | rio, sockets | ends at the last chunk, forwards what it read |
| rio (`csapp.c` 769-894) | `rio_buf`, `rio_cnt`, `rio_bufptr` | readlineb, readnb, writen | sockets | no byte lost or repeated while the buffer lives |
| `parse_requestline` (`tools/`) | state, output fields | one pass over a line | - | accepts the grammar of its comment, sets every field |
| `bqueue` (`tools/`) | list, size, `shuttingdown`, mutex, condition | insert, remove, destroy | mutex and condition | a FIFO; every remover is woken |
| `threadpool` (`tools/`) | task list, flag, mutex, condition | add, handle, adjust, destroy | mutex and condition | tasks run once, in order; destroy ends all threads |
| `concurrent_hashmap` (`tools/`) | segments of lists, `size`, rwlocks | put, putIfAbsent, get, containsKey, remove | rwlocks | a map, also under concurrent calls |

`bqueue`, `threadpool` and `concurrent_hashmap` are linked, and a queue and a
map are created, but the present `main()` uses none of their operations;
`do_connect`, `doit_proxy`, `build_reply`, `set_defaultrequesthdrs`,
`build_requesthdrs`, `forward_requesthdrs` and `parse_hostname` are not called.

What is hard here: threads that share one descriptor table and reuse its
numbers; a mutex locked by one thread and unlocked by another; edge-triggered
and one-shot events; peers that end, reset or stop reading at any moment; and
state left over from the previous request of the same worker.  The hazards in
`PROJECT.json` name each one at its line.

## 2. What is modelled

### WorkerPool: start-up and dispatch

`main()`'s loop hands every thread `&j`, the address of one local variable.
It takes `connfd_mutex` before it creates a thread, and *that thread* releases
it after having copied `*args`: the mutex is a baton.  The variable `j` of the
model is the stack slot.  `j` lives in the loop (114), `clientlen` in all of
`main()` (85), but is not used before the loop is over; nothing forbids the
compiler to give both one slot, and nothing asks it to.  In the build that is in
the repository it has done so: the debug information of `src/proxy` (`-O0`,
Makefile) puts both at the same place of `main()`'s frame.  The model is of that
build, where `accept()` writes to `j`, and the lock and unlock at 128-130, which
protect nothing that can be seen in the source, are what keeps the last worker's
index intact; with separate slots there are fewer behaviours.  `AddrLens` are
the values `accept()` may leave there.

| definition | code |
|---|---|
| `MainLock`, `MainCreate` | 112-116; with `Failures`, `pthread_create()` fails and its result is ignored |
| `ReadIndex`, `PassBaton`, `PublishEpoll`, `WorkerExit` | 193-204 |
| `MainWake`, `MainPass`, `MainAccept`, `MainAssert`, `MainAdd` | 118-153, one action per step another thread can get in between |
| `MainAcceptFails`, `MainAddFails`, `WorkerExit` | the `exit()` paths |
| `ClientConnect` | the kernel completes a handshake |

### Proxy: descriptors, events and the paths through doit()

`Proxy` extends `WorkerPool`: its steps of `main()` are those of `WorkerPool`
conjoined with what they do to descriptors.  `file` is the process's
descriptor table (the lowest free number is given out), `interest` and `armed`
are the workers' epoll instances with `EPOLLONESHOT`.  Each path through
`doit()` is reduced to the descriptor operations it ends with, in the order of
the code (`Endings`, `Refuse`, `TunnelEnds`), and each of them is a step of its
own, so that `main()` and the other workers may reuse a number in between.
What a request says is one of five kinds; at end of file `rio_readlineb()`
leaves the worker's previous request line in `buf`, so that a closed client is
taken for a request of any kind (`ReplayKinds`).

### Rio and Exchange: what is forwarded

`Rio` has the buffered reads of `csapp.c` as operators on streams.  An item of a
stream is a line, a piece of a body, or a part of a line that arrives on its
own, together with who wrote it; so a property can tell a client's line from one
another client has left in a buffer.  `ReadLine` gives the outcomes that
matter: a line; an end of file that leaves the caller's buffer as it was; an end
of file behind a line without its end, which may be a whole request line; and
EAGAIN, or a reset, at which the bytes read so far are gone and lie unterminated
over the old line (its content is then `junk` or still the old line).

`Exchange` is one worker that serves one request after the other: `doit()`,
`forward_requestheader`, `forward_reply`, `reply_nonconnection` and
`forward_chunked` as the lines they read and write.  Between two requests the
worker keeps what the code does not clear: `buf` is the same stack memory, and
`rqdata` and `cstatus` come back from `malloc()` with their old content or with
any other.  `Wake` lets `client_setclose` be anything, and the strings (of
`rqdata` host, port and loc, of `cstatus` transfer encoding and trailer) be old
or empty; `Finish` lets `client_shuttingdown` be set at any time.

`rq` keeps of each string the line it was copied from.  A request line may leave
out its host, its port or its path (`WithHost`, `WithPort`, `WithPath`);
`Copied` changes the parts the line has and no others, so that `OpenServer`
opens the host and the port, and asks for the path, of possibly three
different lines, of different clients: the line `doit()` sends is made of
`rqdata` (478, 518), not of what it has read.  A line that is refused may have
changed some of them as well (`RefusedParts`).

Client sockets are non-blocking.  Their data arrives in pieces, and a read of
what is not there yet is EAGAIN, which one `doit()` meets at most `MaxSpins`
times.  The send buffer of a client in `Slow` may be full at any write:
`rio_writen()` gives up, nobody looks at its result, and what it did not send is
lost (`WriteClient`, `WriteEach`; a `gap` in `toClient`).  Server sockets block,
and their answer is what the server says before it closes or resets the
connection (`broken`).  A reset is reported once, as -1, wherever `doit()` then
reads: `ReplyStatus` passes on what the uninitialised `buf` holds, `ReplyReset`
goes on reading, `ReplyBody` fills up from an uninitialised array, and `Raw` and
`Written` ask `rio_writen()` for 2^64-1 bytes.  Such a size is beyond `SSIZE_MAX`
and what `write()` does with it is implementation-defined; the model has both an
error, and so nothing, and the memory behind `buf` (`garbage`).

| definition | code |
|---|---|
| `Wake`, `Readinit`, `ReadRequest`, `OpenServer`, `OpenFails`, `NotImplemented` | 446-472, 514-523, 539-560 |
| `Copied`, `PartsOf`, `RefusedParts` | `tools/parse_requestline.c` 92-290 |
| `StartConnect`, `SkipHeader`, `StartTunnel` | 494-512 (`read_bytes` has no initial value) |
| `RequestHeader`, `RequestCut`, `RequestBody`, `NoRequestBody` | 712-784 |
| `ReplyStatus`, `ReplyHeader`, `ReplyReset`, `ReplyCut`, `ReplyBody`, `NoReplyBody`, `Raw` | 577-685 |
| `StartChunked`, `ChunkSize`, `ChunkData`, `ChunkSpins`, `Trailer`, `ChunkEnd` | 797-828 |
| `WriteClient`, `WriteEach`, `Cut` | `csapp.c` 775-792 |
| `Finish`, `Return` | 526-538, 561-568 |

Things the model makes visible and the properties work around: while a header is
late, "Proxy-Connection: close", the proxy's own last line, is processed as if
the client had said it, so that the client is closed; a missing Host is written
twice and the empty line not at all (727-731); a server that closes without a
word counts as an answer.

### ParseRequestLine

The state machine of `tools/parse_requestline.c` as a table of transitions
(`Rows`), each naming the next state, whether `rc_start` and `rc_end` are set and
which field is copied.  Characters the machine treats alike are one token.  The
line is not fixed in advance: TLC goes through every line in which no loop of the
machine turns more than `MaxRun` times (`Bound`); what no transition takes is
refused in every state, however long the field before it is.  `Grammar` is the grammar of the
comment above the function, written down independently.

### ConcurrentHashmap

The map of `tools/concurrent_hashmap.c`: every call is its critical sections,
with what it carries from one to the next (`call`), and the write to `size`,
which the segment's lock does not protect, is a step of its own.  `malloc()`
returns any address that is not in a list, also one just freed; an access to
freed memory sets `wild`, after which nothing is claimed.  `spec` is the abstract
map, kept as long as calls do not overlap.

### ThreadPool

The pool of `tools/threadpool.c`: the list with its uninitialised fields, the
waiting and its signals, the thread of `threadpool_adjust()`, which reads the
flag without the lock, and `threadpool_destroy()` with its broadcast and joins.

### Tunnel and Pipe: a CONNECT tunnel

`Tunnel` is the loop of `connect_handler()`: the epoll instance reports a
socket once after something arrived (`edge`), the inner loop reads `MAXLINE`
bytes until a short read, and `rio_writen()` gives up when the send buffer is
full.  A reset is returned once as an error; then a read gives 0 and a write
SIGPIPE.  `Pipe` is what a tunnel promises: two byte streams, and shut only
when an ended peer's stream was passed on completely; `ImplementsPipe` is the
refinement, with `passed[p]` the number of bytes written to the other peer.

## 3. What the runs check

| run | instance | properties |
|---|---|---|
| `pool` | 3 workers, 4 connections, all failures, fair threads | `PoolTypeOK`, `OwnIndex`, `PublishedSlots`, `PoolCompleteBeforeAccept`, `AddedIsServed`, `DispatchBalanced`, `PoolComesUp`, `ConnectionsDispatched` |
| `pool_assert` | 2 workers | `AssertHolds` is **violated** |
| `proxy_safety` | 2 workers, 3 clients, 4 descriptors, all failures | `ProxyTypeOK`, `OperatesOnOwn`, `ServedIsDisarmed`, `NoLostConnection`, `NoDescriptorLeak`, `CloseErrorOnlyByTunnel` |
| `proxy_live` | 1 worker, 2 clients, one event per wait, fair threads | `ReadableServed` |
| `exchange` | 2 clients, one of which sends any of 16 requests in pieces, the other's send buffer may be full; 10 answers, each with or without a reset; two EAGAIN | `ExchangeTypeOK`, `RequestForwarded`, `PassedOnInOrder`, `ReplyForwarded`, `OwnRequest`, `KeptAfterWhole` |
| `exchange_live` | 1 client, 5 requests in pieces, 3 answers, resets, one EAGAIN, fairness | `DoitReturns` |
| `parse` | every line of short fields | `ParseTypeOK`, `FieldsCoverLine`, `GrammarAccepted`, `StaleWhereLeftOut` |
| `hashmap` | 2 threads, 4 calls, 3 keys, 2 segments of 2 buckets | `ListsSound`, `PutIsFound`, `SequentialMap` |
| `threadpool` | 2 threads, 3 tasks, shutdown at any moment | `TasksInOrder`, `TasksRun`, `DestroyReturns` |
| `tunnel_safety` | 4 bytes each way, reads of 2, send buffer of 2, resets | `TunnelTypeOK`, `NoStrandedData`, `PassedInOrder`, `NeverRepeats`, `ClosedWhenDrained` |
| `tunnel_pipe` | ample send buffers, no resets, fair handler | `ImplementsPipe`, `DataIsRead`, `LoneEofCloses` |
| `tunnel_eof` | the same | `EndClosesTunnel` is **violated** |

`RequestForwarded` and `ReplyForwarded` are about plain requests and answers: one
message in whole lines, with as much of a body behind the empty line as its
headers declare (`IsWhole`), and for a request, that all of it has arrived in
time (`IsPlain`, `IsPlainAnswer`).  Of those the other side must get every item
but the `Connection` lines, which the proxy replaces (`PassedOn`).  Each has an
exception the code needs: a POST that finds a "chunked" of an earlier request in
`cstatus` is not passed on as it should be, nor is an answer that finds one of an
earlier answer, and of an answer what a full send buffer did not take is missing.
The request line is the proxy's own; `OwnLine` says that the parts the client's
line has are the ones it is made of, and nothing about the parts it has not.

What happens to other messages is bounded by `PassedOnInOrder`, which holds of
all of them, cut off, pipelined, late or misread (but for those whose lines come
in pieces, `IsTorn`, since two pieces are passed on as another line): late lines
are repeated, missing bodies made up, writes lost, but nothing the peers have
said is reordered.

`OwnRequest` is about what one client leaves behind for another: a client whose
line is there when it is asked for (`spins = 0`) gets the server, and what it
asks of it, from its own line, so far as the line says it.  The others get what
is in `buf`.  What a line leaves out, `StaleWhereLeftOut` says exactly, comes from
an earlier one: a target may be a path alone (host, port and schema are stale), a
host alone (port, path, schema), or one of six other forms, and always has a host
or a path.

`KeptAfterWhole` says when a client may be rearmed after a plain request: only if
the header of the answer has come to its empty line, wherever else it may have
been cut off.  `DoitReturns` lists the two ways in which `doit()` does not return,
the endless loop and the assertion of `forward_chunked()`.

`ListsSound` holds under every overlap of calls: lists do not get entangled, and
the size is right when all keys are of one segment.  What concurrent calls do
break is left out of the properties on purpose: two `hashmap_putIfAbsent()` of
one key may both insert it, `hashmap_remove()` takes out whatever follows the
entry it has found before, possibly another key's, `size` loses updates of
different segments, and `hashmap_get()` may read a freed entry.  `PutIsFound`
says what remains when nothing is removed, `SequentialMap` what one caller at a
time gets.  `TasksRun` shows that the worry of the comment at
`tools/threadpool.c:169-173`, a task nobody is told of, is unfounded: it holds
without the adjusting thread.

Bounds.  Three workers make the newest, an older and a not yet created one
exist together; four connections make the round robin wrap.  With two workers
and three clients, two clients share a worker while the other competes for
descriptor numbers; four descriptors are enough for two clients, a server and a
tunnel, and few enough that every allocation also fails.  A client sends once
in `proxy_safety` and may close at any moment, so that each connection is
served twice; three times in `proxy_live`.  In the tunnel, four bytes in reads
of two give short, full, and full-then-empty reads.  In `exchange`, client `a`
sends a good request at once and stays, so that there is always something to be
left behind; its send buffer may be full at each write.  Client `b` sends, in any
pieces, one request of every kind that the code tells apart: in time, with
Connection (close or another), pipelined, torn in the request line or a header,
without its end of line, without host, without port, without path, HTTP/1.0 GET
and POST, POST with a length and another coding, without a length, and chunked,
CONNECT, another method or version, no request at all.  The answers have a body
that is whole, short, empty, undeclared or cut off in the header, with a
Connection line and another coding, chunks that are whole, cut off, with and
without a declared trailer, or nothing; each may end with a reset.  Two clients
are enough, since what the worker remembers is one string of each kind, from
whoever set it last.  Two EAGAIN are one in each of two places, or the same
repetition twice.  `exchange_live` holds just what may keep `doit()` from
returning.  Three entries
of memory in `hashmap` are one per bucket in use and one to be reused while a
call still has it; four calls are two that overlap with two before or after
them, and keys 0 and 4 share a bucket, 2 is in the other segment.  Two threads
and three tasks in `threadpool` leave a task in the list while both run.  Clients are symmetric in
`proxy_safety`, which has no liveness property.  `CHECK_DEADLOCK` is off
everywhere because the systems do stop: the process exits, or clients and bytes
run out under the bounds.

Fairness.  Weak fairness of each thread: the kernel schedules runnable threads.
`ConnectServer`, `Exchange` and `TunnelEnds` wait for a peer and get none, so
that `ReadableServed` is conditional on the worker coming back to its loop.
Clients are never required to act in `Proxy`.  In `Exchange` a client that is
served eventually sends more or ends, and servers close or reset: `DoitReturns`
would fail of a peer that keeps a header back for ever, which `MaxSpins` also
rules out.
In `ThreadPool` threads run and tasks return; the adjusting thread has to finish
its sleep only once the pool shuts down, nobody has to add, and no thread wakes
by itself.  `epoll_wait()` returns any subset of the
ready descriptors when there are more than `EPOLL_EVENTS`, a coarser view than
the kernel's queue; under the bound on requests `ReadableServed` holds even so.

### Findings

* `pool_assert`: a client that connects while the proxy starts makes `main()`
  reach `assert(epoll_list[round_robin]>0)` (146) before the worker, which has
  released the mutex (195), has stored its instance (200): the proxy aborts.
* `tunnel_eof`: data and FIN that arrive in one event, the data ending in a
  short read: the loop breaks (303, 325) without the read that would return 0,
  and the edge-triggered socket is not reported again; the tunnel and its worker
  stay.  The comment at 239-240 says otherwise.

Not runs of their own, but behaviours the models have:

* After ECONNRESET a tunnel goes on (297 and 319 are commented out), which the
  same comment at 239-240 excludes (`tunnel_safety`).
* `forward_chunked()` reads each chunk over its size line (815) and writes only
  the chunk; the client gets "Transfer-Encoding: chunked" and chunks without
  sizes, against the README's "chunked transfer encoding/decoding" (`ChunkSize`,
  `ChunkData`).
* `rqdata` is not cleared (446), and only an empty port is replaced by "80" (463):
  a line such as `http://host/path` opens the port that an earlier request of any
  client has left, against the comment at 466, "Open the serverfd which the
  requestline requested" (`Copied`, `OpenServer`).
* `cstatus` is not cleared either (447): after a chunked answer, one with a
  Content-length is read as chunked (672-674), against "behave according to the
  header data" (588-589) (`Wake`, `StartChunked`).
* A trailer line that no Trailer header has announced makes
  `assert(!strcmp(buf, "\r\n"))` (825) fail, and the proxy aborts (`ChunkEnd`).
* `client_setclose` and `client_shuttingdown` have no initial value, so that a
  connection may be closed (529-534) although its request did not ask for that,
  against the comment at 492 (`Wake`, `Finish`).

## 4. What is proved

`WorkerPoolProof` proves, for every number of workers, every finite set of
connections, any values in `AddrLens` and with or without failures:
`PoolTypeOK`, `OwnIndex`, `PublishedSlots`, `PoolCompleteBeforeAccept`,
`AddedIsServed` and `DispatchBalanced`.  Assumptions: `CONNFD_POOL_SIZE` is
positive, `Conns` is finite, `AddrLens` is a non-empty set of integers.

None of these is inductive.  `PoolInv` adds: threads exist exactly below `i`
(`Creation`); whoever is between creation and unlock is the newest thread, has
the mutex, and `main()` has not passed 128, and while its index is unread `j`
still is its own (`Baton`); `epoll_list` is a function of the workers' positions
(`Slots`); at the `epoll_ctl()` the slot is published (`Dispatch`).  The proof
has one lemma per action.  `DispatchBalanced` needs in addition that a
connection is in no instance before it is added; then `MainAdd` raises one load
by one, and the case where `round_robin` wraps is arithmetic.

`ProxyProof` proves, for every number of workers, clients, descriptors and
events per wait, that every behaviour of `Proxy` is one of `WorkerPool`
(`ProxyImplementsPool`), so that the theorems above hold of the running proxy
(`ProxyDispatch` restates two of them), and `ProxyTypeOK`, `OperatesOnOwn` and
`ServedIsDisarmed`.  Assumptions: `Fds` is a finite set of positive numbers,
`EPOLL_EVENTS` is positive, `MaxRequests` a natural number.

`ProxyTypeOK` is not inductive: that `doit()` closes a number of the table
depends on where it is.  `ProxyInv` says what each number in the hands of a
thread refers to: `connfd` to the connection main() has accepted, which is in
no instance (`AcceptInv`); the events of a worker to sockets of its clients
(`EventsInv`); the locals of `doit()` to a client not in the batch, a server and
a tunnel (`LocalsInv`); the operations left to do to files of the worker, none
in its batch and none after its close (`TodoInv`).  Two facts carry the proof
over all interleavings: a file has one owner (`OneOwner`), and a free number
none (`FreeIsNobodys`).  So a step of one worker disturbs no other
(`OthersStep`, `WorkerFrame`), and each action needs only a lemma about the
worker that takes it.  `EndingsOps` is where the order of the closes on the
paths through `doit()` matters.

`ThreadPoolProof` proves `TasksInOrder` for every number of threads and every
set of tasks, from the assumption that `NULL` is no task.  The list's next
fields are uninitialised, so the invariant must know where each next is
meaningful: from `header_next` to before `tail` only (in `TasksInOrder` itself).
It is inductive together with the types of the list's fields and the fact that
no task is added twice (`AddedOnce`): otherwise the next of the tail that
`Add` sets might be that of another task in the list.  Only `Take` and `Add`
touch the list; the lemma `ListUnchanged` covers all other steps.

`TunnelProof` proves `TunnelTypeOK`, `NoStrandedData`, `PassedInOrder`,
`NeverRepeats` and `ClosedWhenDrained` for every size of a read and of the send
buffer, every number of bytes, with or without resets.  Assumptions: `MAXLINE`
and `SendBuffer` are positive, `MaxBytes` is a natural number.  `NoStrandedData`
speaks of a handler that waits; to be inductive it must say what keeps a byte
from being forgotten before that: an unread byte is announced by an edge, by an
event not yet handled, or by the read loop, which is on its socket with another
read to come (`Announced`).  Around it, `TunnelInv` says what `buf` holds
(`Buffer`), that no event is left over when the handler waits (`Waiting`), that
`disconnect` stands for a peer that has ended and is read empty
(`Disconnected`), and that what was passed on comes before what is in `buf`
(`Rising`).

It also proves `ImplementsPipe` from `TunnelInv`, under the assumption `Ample`
that the run `tunnel_pipe` makes of its constants: the send buffer takes all that
is sent, and nobody resets.  Then nothing is given up, since what waits in a send
buffer is part of what was passed on (`AmpleInv`), and each write passes the
whole of `buf`.

`ProxyHoldProof` proves `NoLostConnection`, `NoDescriptorLeak` and
`CloseErrorOnlyByTunnel` from the assumptions of `ProxyProof`.  `ProxyInv` says
that a worker touches only what is its own; `HoldInv` is the converse, that
nothing of its own is forgotten.  Each client of a worker is armed, in its batch,
served, or closed or rearmed by an operation left to do (`KeptInv`); what
`doit()` has opened it has a local for and, once it lets go, a close left to do
(`OpenedInv`); the operations left to do finish what they begin: what is taken
out of the epoll instance is closed later, what is rearmed is untouched before,
and an invalid number is closed last (`CompleteOps`); what is rearmed is
registered (`RegisteredInv`).  As in `ProxyProof`, a step of one worker takes
nothing from another (`OthersHold`, `HoldFrame`), and only `EndingsOps` has to
look at the order of the closes on each path.

`ConcurrentHashmapProof` proves `ListsSound`, `PutIsFound` and `SequentialMap`
for every number of threads, keys, segments, buckets and calls.  Assumptions:
keys are natural numbers, `Memory` is finite, and a `size_t` can count its
entries (`SIZE_MAX`), which are objects in the process's memory.  Each property
has an invariant of its own.  `MapInv`: a list has each entry once and only
entries of its bucket, and while a thread has changed a list and not yet written
`size`, the segment's lock is held by it alone; so with one segment the size
that is about to be written is right.  `PutInv`: without removes, an entry a
call has found stays linked with its key, so that what `hashmap_get()` reads and
`hashmap_put()` writes after the unlock of `hashmap_getentry()` is still the
entry of the key.  `LoneInv`: of a
call that is alone, what it will return and what it has still to do make up the
abstract map at once, in all its steps; that no key has two entries is part of
it, and so is that no freed memory is used.

`ParseRequestLineProof` proves `ParseTypeOK`, `FieldsCoverLine` and
`StaleWhereLeftOut` for fields of every length (`MaxRun` is any natural
number).  The machine copies pieces of the line and forgets the line;
`LineInv` puts it together again: in every state the line is a head (spaces,
method, spaces), then what the copied fields say, then the characters since
`rc_start`.  `KnownInv` says which fields have been copied when a state is
reached, and thereby which are stale and in which form the target is.  A step then either makes the run one
character longer or moves it into a field.

`ExchangeProof` proves `ExchangeTypeOK`, `OwnRequest`, `RequestForwarded`,
`ReplyForwarded`, `PassedOnInOrder` and `KeptAfterWhole` for any clients, requests
and answers, of any length, whichever send buffers may be full.  Assumptions: there is a client, no client is called
`"proxy"`, `"server"` or `"nobody"` (the names of the other writers of items),
`MaxSpins` is positive, and what is sent consists of the items clients and
servers can send (`ItemKinds`; the proxy's own error replies are not among them).
The argument has layers, each relative to ones before it.

* `ExchangeInv` says whose items are in which stream: in a client's socket what
  it sends itself (`Sendable`), in `rio_client` only items of the client that is
  served, in `reply` the end of an answer, whose first item may have been cut
  (`Trails`).  `rio_client` is empty whenever a request line is about to be read
  (`OpeningInv`).
* `OwnInv`: the line read is therefore the served client's if it was there at
  once, and `rqdata` holds the parts it has (`PartsInv` gives the types of the
  rest); neither changes until the server is asked.  That is `OwnRequest`.
* `ReplyInv` follows a plain answer through `forward_reply()`: in each phase the
  answer is what has been read and what is left (`AnswerAt`), and `toClient` is
  what `PassedOn` makes of the part that has been read (`Passed`), unless a gap
  shows that a write was given up (`Whole`).  It holds at the end of the body
  because `length` is then what the headers that were read have declared.
* `PlainInv` does the same for a plain request, which arrives while it is read.
  `ServedInv`, of the client that is served: either the first `p` items of its
  header have been read, the rest is in `rio_client` and the socket (`Unread`),
  and what the first `p` have said is known and passed on, exactly if no read met
  EAGAIN (`Heard`); or the header is gone and what is left is at most body
  (`Drained`), so that nothing of it is taken for a line.  `WaitingInv`: of an
  armed client nothing has been read, or its header is gone.  Without that the
  first would not be inductive, since an armed client's next request line could be
  a line from the middle of its request.  `DirInv`, that `dir` is still that of the
  client when its header is read, goes with it.
* `HeaderInv` is about any answer, also a cut or a broken one: in the header each
  item that was read has ended a line (`LinesRead`), so that the empty line which
  ends it is one of the answer and not what a cut has left (`HeaderWhole`), and
  `finish` is reached without it only with a flag set or without an answer.
  `RefusedInv`: a "400" has been written to the server only if `client_setclose`
  is set.  With `PlainInv` they give `KeptAfterWhole`.
* `OrderInv` is about all messages and needs of these only `ExchangeInv` and that
  `toClient` is empty before the reply (`ReplyInv`). `StreamInv`:
  what is unread of a client is a `Leftover` of what it has sent, its end, the
  first item of which may have been cut; so the number of items taken (`Taken`)
  only grows. `UpInv`: `toServer` carries the client's items in order, from no
  later than those that have been taken, and `line`, which the code may send
  once more, is the last of them or not the client's (`UpAt`). `DownInv` is the
  other direction, where no line is repeated. `Carries` says it with any
  increasing choice of places; it is closed under appending what has just been
  read, or as much of it as arrives (`Goes`, `CarriesJoin`, `CarriesPiece`,
  `CarriesArrives`), and it implies the property, since the
  places that `InOrderOf` finds are the first possible ones (`CarriesOrder`).

What `rio_readlineb()` and `rio_readnb()` consume and leave, also in the middle
of an item, are lemmas about the operators of `Rio` (`ConsumeIs`, `ReadLineIs`,
`ReadBytesIs`, `ReadPartIs`, `ConsumeTrails`, `LineFrom`, `BytesFrom`,
`PartFrom`, `ChunkFrom`). `PassedOn` and the places of `InOrderOf` are recursive
functions over the positions of a message; that they exist and what they are at
each position (`PassedOnIs`, `PlacesAre`) is shown by a least position at which
two candidates would differ (`LeastOf`, from the well-foundedness of the natural
numbers), since the induction theorems of the library cannot be used.

Only model-checked are:

* all liveness (`PoolComesUp`, `ConnectionsDispatched`, `ReadableServed`,
  `DoitReturns`, `TasksRun`, `DestroyReturns`, `DataIsRead`, `LoneEofCloses`) and
  what the two violated properties say: beyond the proof system, or false;
* `GrammarAccepted`: its grammar is a fixed, finite set of lines, and the run
  `parse` goes through all of them; a larger `MaxRun` adds no line to it.

## 5. Not modelled, and the plan

Left out, and why:

* `bqueue`: `main()` creates a queue and no thread uses it any more (153 and 206
  are commented out); `bqueue_init()` leaves `tail`, `size` and `shuttingdown`
  uninitialised, so nothing holds of it from its first operation on.
* `getchunksize()` and `hex2num()`: a chunk is one item, read after its size line
  as a whole; after anything else any number of items is read, the last one
  perhaps in part (`ChunkReads`).  What a size beyond `MAXLINE` does to
  the stack is undefined and left out.
* Lengths of lines and fields (`MAXLINE`, `RQ_DATALEN`), EINTR, and reads from
  `rio_buf` that are smaller than a refill.
* In `Exchange`: a client that resets its connection, writes to a server that has
  reset or does not read (a write to a reset peer ends the proxy, `BrokenPipe` in
  `Proxy`), and a full send buffer of a client that is not in `Slow`.  Part of an
  item that was written counts as a gap.  A line over a longer old line is `junk`
  or the old line, never a mixture.  Header names in another case than the code
  compares with are headers of no meaning (`other`).
* `hashmap_destroy()`, which nothing may overlap, and negative keys;
  `threadpool_create()` that fails.
* The uncalled earlier versions of the handlers, the text of error replies, the
  csapp wrappers for processes, signals and files.
* `epoll_wait()` does not fail in the models (no signal handler is installed), and
  `getaddrinfo()` returns one address.

The plan is carried out.  What stays with TLC is liveness and
`GrammarAccepted` (section 4).
