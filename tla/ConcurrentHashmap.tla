------------------------- MODULE ConcurrentHashmap --------------------------
(***************************************************************************)
(* The hash map of tools/concurrent_hashmap.c under concurrent calls.      *)
(*                                                                         *)
(* Buckets are lists, SEG_SIZE of them share a read-write lock.  Every     *)
(* call looks its key up under the lock, releases it, and comes back for   *)
(* what it has found: between the two the list may change, and the entry   *)
(* may be freed and its memory be given to another entry.                  *)
(***************************************************************************)
EXTENDS Integers, FiniteSets, Sequences, SequencesExt

CONSTANTS
  Threads, Keys, SEG_SIZE, capacity,
  SIZE_MAX,   \* the largest size_t
  Memory,     \* bound: the addresses malloc() gives out
  NULL,
  MaxCalls    \* bound: the calls of one behaviour

ASSUME HashmapAssumption ==
  /\ Keys \subseteq Nat /\ SEG_SIZE \in Nat \ {0} /\ capacity \in Nat
  /\ NULL \notin Memory
  /\ IsFiniteSet(Memory) /\ SIZE_MAX \in Nat /\ Cardinality(Memory) <= SIZE_MAX

hash_capacity == (capacity \div SEG_SIZE + 1) * SEG_SIZE
Buckets  == 0 .. hash_capacity - 1
hash(k)  == k % hash_capacity
Seg(b)   == b \div SEG_SIZE
Segments == {Seg(b) : b \in Buckets}

Missing == -1
Ops     == {"put", "putIfAbsent", "get", "containsKey", "remove"}

VARIABLES
  chain,      \* the entries of each bucket, as their addresses
  entry,      \* what is in the memory of an entry: its key and value
  size,
  writer,     \* who has the write lock of a segment
  pc, call,   \* of each thread: where it is, and the locals of its call
  wild,       \* has freed memory been used?  Nothing is known from then on.
  \* history
  calls,      \* how many calls were made; also the value of the next put
  asked,      \* the keys of the calls
  overlap,    \* was there ever a call while another one was under way?
  removed,    \* was there ever a remove?
  stored,     \* the keys that a put has returned for
  given,      \* the values that calls had for each key
  spec        \* the map as it should be, as long as calls do not overlap

vars == <<chain, entry, size, writer, pc, call, wild,
          calls, asked, overlap, removed, stored, given, spec>>
history == <<calls, asked, overlap, removed, stored, given, spec>>

Linked == UNION {ToSet(chain[b]) : b \in Buckets}
NoCall == [op |-> "get", key |-> 0, value |-> 0, at |-> NULL, tmp |-> 0,
           sure |-> FALSE, want |-> Missing, result |-> Missing]

Init ==
  /\ chain = [b \in Buckets |-> <<>>]
  /\ entry = [e \in Memory |-> [key |-> 0, value |-> 0]]
  /\ size = 0 /\ writer = [s \in Segments |-> {}]
  /\ pc = [t \in Threads |-> "idle"] /\ call = [t \in Threads |-> NoCall]
  /\ wild = FALSE
  /\ calls = 0 /\ asked = {} /\ overlap = FALSE /\ removed = FALSE
  /\ stored = {} /\ given = [k \in Keys |-> {}]
  /\ spec = [k \in Keys |-> Missing]

-----------------------------------------------------------------------------
\* What a call returns, and how it changes the map, if it is alone.
Wanted(op, k) ==
  CASE op = "get"         -> spec[k]
    [] op = "containsKey" -> IF spec[k] = Missing THEN 0 ELSE 1
    [] op = "remove"      -> IF spec[k] = Missing THEN 0 ELSE 1
    [] OTHER              -> IF spec[k] = Missing THEN 1 ELSE 0

Alone(op, k, v) ==
  CASE op = "remove" -> [spec EXCEPT ![k] = Missing]
    [] op = "put" \/ (op = "putIfAbsent" /\ spec[k] = Missing) -> [spec EXCEPT ![k] = v]
    [] OTHER -> spec

Call(t, op, k) ==
  /\ pc[t] = "idle" /\ calls < MaxCalls
  /\ call' = [call EXCEPT ![t] = [NoCall EXCEPT !.op = op, !.key = k, !.value = calls + 1,
                                                !.sure = k \in stored, !.want = Wanted(op, k)]]
  /\ pc' = [pc EXCEPT ![t] = IF op = "remove" THEN "find" ELSE "look"]
  /\ calls' = calls + 1 /\ asked' = asked \cup {k}
  /\ overlap' = (overlap \/ \E u \in Threads : pc[u] # "idle")
  /\ removed' = (removed \/ op = "remove")
  /\ given' = [given EXCEPT ![k] = @ \cup {calls + 1}]
  /\ spec' = Alone(op, k, calls + 1)
  /\ UNCHANGED <<chain, entry, size, writer, wild, stored>>

Bucket(t)  == hash(call[t].key)
Segment(t) == Seg(Bucket(t))
\* pthread_rwlock_rdlock() succeeds, and so does pthread_rwlock_wrlock(): a
\* section that reads is one step, and never seen by another thread.
Unlocked(t) == writer[Segment(t)] = {}

\* The call returns r.
Result(t, r) ==
  /\ pc' = [pc EXCEPT ![t] = "idle"]
  /\ call' = [call EXCEPT ![t].result = r, ![t].at = NULL, ![t].tmp = 0]
  /\ stored' = IF call[t].op \in {"put", "putIfAbsent"} THEN stored \cup {call[t].key}
               ELSE stored
  /\ UNCHANGED <<calls, asked, overlap, removed, given, spec>>

\* Memory that is not in use: it was never given out, or it was freed.
Free(e) == e \notin Linked
\* Using it: the outcome is undefined.
UseAfterFree ==
  /\ wild' = TRUE
  /\ UNCHANGED <<chain, entry, size, writer, pc, call>> /\ UNCHANGED history

\* Mutation: the last entry of a list is not looked at.
HitsNotLast(t) ==
  {n \in 1 .. Len(chain[Bucket(t)]) - 1 : entry[chain[Bucket(t)][n]].key = call[t].key}

\* hashmap_getentry(): the first entry with the key.
Hits(t) == {n \in DOMAIN chain[Bucket(t)] : entry[chain[Bucket(t)][n]].key = call[t].key}
First(ns) == CHOOSE n \in ns : \A m \in ns : n <= m

getentry(t) ==
  /\ pc[t] = "look" /\ Unlocked(t)
  /\ LET op == call[t].op
         hits == Hits(t)
         e  == IF hits = {} THEN NULL ELSE chain[Bucket(t)][First(hits)]
     IN CASE op = "containsKey"                -> Result(t, IF e = NULL THEN 0 ELSE 1)
          [] op = "get" /\ e = NULL            -> Result(t, Missing)
          [] op = "putIfAbsent" /\ e # NULL    -> Result(t, 0)
          [] OTHER ->
               /\ call' = [call EXCEPT ![t].at = e]
               /\ pc' = [pc EXCEPT ![t] = IF op = "get" THEN "read"
                                          ELSE IF e = NULL THEN "link" ELSE "set"]
               /\ UNCHANGED history
  /\ UNCHANGED <<chain, entry, size, writer, wild>>

\* hashmap_get() reads the value without the lock.
get(t) ==
  /\ pc[t] = "read"
  /\ \/ Free(call[t].at) /\ UseAfterFree
     \/ /\ ~Free(call[t].at) /\ Result(t, entry[call[t].at].value)
        /\ UNCHANGED <<chain, entry, size, writer, wild>>

\* hashmap_put() of a key it has found.
put(t) ==
  /\ pc[t] = "set" /\ Unlocked(t)
  /\ \/ Free(call[t].at) /\ UseAfterFree
     \/ /\ ~Free(call[t].at)
        /\ entry' = [entry EXCEPT ![call[t].at].value = call[t].value]
        /\ Result(t, 0)
        /\ UNCHANGED <<chain, size, writer, wild>>

\* Mutation: the new entry takes the place of the first one.
LinkAtHead(t) ==
  /\ pc[t] = "link" /\ Unlocked(t)
  /\ \E e \in Memory :
       /\ Free(e)
       /\ entry' = [entry EXCEPT ![e] = [key |-> call[t].key, value |-> call[t].value]]
       /\ chain' = [chain EXCEPT ![Bucket(t)] = <<e>>]
  /\ call' = [call EXCEPT ![t].tmp = size]
  /\ writer' = [writer EXCEPT ![Segment(t)] = {t}]
  /\ pc' = [pc EXCEPT ![t] = "size++"]
  /\ UNCHANGED <<size, wild>> /\ UNCHANGED history

\* hashmap_put() and hashmap_putIfAbsent() of a key they have not found: the
\* new entry goes to the end of the list, whatever is in it by now.
Link(t) ==
  /\ pc[t] = "link" /\ Unlocked(t)
  /\ \E e \in Memory :
       /\ Free(e)
       /\ entry' = [entry EXCEPT ![e] = [key |-> call[t].key, value |-> call[t].value]]
       /\ chain' = [chain EXCEPT ![Bucket(t)] = Append(@, e)]
  /\ call' = [call EXCEPT ![t].tmp = size]
  /\ writer' = [writer EXCEPT ![Segment(t)] = {t}]
  /\ pc' = [pc EXCEPT ![t] = "size++"]
  /\ UNCHANGED <<size, wild>> /\ UNCHANGED history

\* The lock is a segment's, the size the whole map's: between the read of
\* size and the write another segment's thread may write it.
Resized(t) == IF pc[t] = "size++" THEN call[t].tmp + 1 ELSE call[t].tmp - 1

WriteSize(t) ==
  /\ pc[t] \in {"size++", "size--"}
  /\ size' = Resized(t) % (SIZE_MAX + 1)
  /\ writer' = [writer EXCEPT ![Segment(t)] = {}]
  /\ Result(t, 1)
  /\ UNCHANGED <<chain, entry, wild>>

\* Mutation: the list is not searched.
FindFirst(t) ==
  /\ pc[t] = "find" /\ Unlocked(t)
  /\ call' = [call EXCEPT ![t].at = NULL]
  /\ pc' = [pc EXCEPT ![t] = "unlink"]
  /\ UNCHANGED <<chain, entry, size, writer, wild>> /\ UNCHANGED history

\* hashmap_remove(), first part: the entry before the one with the key, or
\* the last one; NULL is the head of the bucket.
FindPrevious(t) ==
  /\ pc[t] = "find" /\ Unlocked(t)
  /\ LET list == chain[Bucket(t)]
         n    == IF Hits(t) = {} THEN Len(list) ELSE First(Hits(t)) - 1
     IN call' = [call EXCEPT ![t].at = IF n = 0 THEN NULL ELSE list[n]]
  /\ pc' = [pc EXCEPT ![t] = "unlink"]
  /\ UNCHANGED <<chain, entry, size, writer, wild>> /\ UNCHANGED history

\* Where "entryhead" is now: a bucket and a place in its list.
Place(t) ==
  IF call[t].at = NULL THEN <<Bucket(t), 0>>
  ELSE CHOOSE p \in UNION {{b} \X DOMAIN chain[b] : b \in Buckets} : chain[p[1]][p[2]] = call[t].at

\* hashmap_remove(), second part: whatever follows that entry by now is taken
\* out and freed; its key is not looked at again.
Unlink(t) ==
  /\ pc[t] = "unlink" /\ Unlocked(t)
  /\ \/ call[t].at # NULL /\ Free(call[t].at) /\ UseAfterFree
     \/ /\ call[t].at = NULL \/ ~Free(call[t].at)
        /\ LET b == Place(t)[1]
               n == Place(t)[2] + 1
           IN IF n <= Len(chain[b])
              THEN /\ chain' = [chain EXCEPT ![b] = RemoveAt(@, n)]
                   /\ call' = [call EXCEPT ![t].tmp = size]
                   /\ writer' = [writer EXCEPT ![Segment(t)] = {t}]
                   /\ pc' = [pc EXCEPT ![t] = "size--"]
                   /\ UNCHANGED history
              ELSE Result(t, 0) /\ UNCHANGED <<chain, writer>>
        /\ UNCHANGED <<entry, size, wild>>

Next ==
  /\ ~wild
  /\ \E t \in Threads :
       \/ \E op \in Ops, k \in Keys : Call(t, op, k)
       \/ getentry(t) \/ get(t) \/ put(t) \/ Link(t) \/ WriteSize(t)
       \/ FindPrevious(t) \/ Unlink(t)

Spec == Init /\ [][Next]_vars

-----------------------------------------------------------------------------
NoWriter == \A s \in Segments : writer[s] = {}

\* Whatever calls overlap, as long as no freed memory was used: the lists
\* have no entry twice, each entry is in the bucket of its key, and with keys
\* of one segment the size is that of the lists.
ListsSound ==
  ~wild =>
    /\ \A b \in Buckets : IsInjective(chain[b]) /\ \A e \in ToSet(chain[b]) : hash(entry[e].key) = b
    /\ \A b, c \in Buckets : b # c => ToSet(chain[b]) \cap ToSet(chain[c]) = {}
    /\ Cardinality({Seg(hash(k)) : k \in asked}) <= 1 /\ NoWriter
         => size = Cardinality(Linked)

\* Puts and gets may overlap as they like: a key whose put has returned is
\* found by every later call, with a value some call has given it.
PutIsFound ==
  ~removed =>
    \A t \in Threads : pc[t] = "idle" /\ call[t].sure =>
      CASE call[t].op = "get"         -> call[t].result \in given[call[t].key]
        [] call[t].op = "containsKey" -> call[t].result = 1
        [] OTHER                      -> call[t].result = 0

\* Calls that do not overlap return what those of a map return, and use no
\* freed memory.
SequentialMap ==
  ~overlap =>
    /\ ~wild
    /\ \A t \in Threads : pc[t] = "idle" /\ asked # {} => call[t].result = call[t].want
=============================================================================
