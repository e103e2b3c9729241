----------------------- MODULE ConcurrentHashmapProof -----------------------
(***************************************************************************)
(* Proofs about ConcurrentHashmap, for every number of threads, keys,      *)
(* buckets and calls.                                                      *)
(*                                                                         *)
(* Three invariants, each on top of the types.  MapInv: whatever calls     *)
(* overlap, the lists stay lists of their buckets, and as long as one lock *)
(* serves all keys the size is right.  PutInv: without removes, what a     *)
(* call has found stays where it is.  LoneInv: of a call that is alone,    *)
(* what it will return and what it has still to do make up the map.        *)
(***************************************************************************)
EXTENDS ConcurrentHashmap, SequenceTheorems, FunctionTheorems, FiniteSetTheorems,
        WellFoundedInduction, TLAPS

Steps == {"idle", "look", "read", "set", "link", "size++", "find", "unlink", "size--"}

\* The thread has changed a list and has the lock until it has written size.
Resizing == {"size++", "size--"}

Locals == [op : Ops, key : Keys \cup {0}, value : Nat, at : Memory \cup {NULL}, tmp : Int,
           sure : BOOLEAN, want : Int, result : Int]

\* Which steps are which operation's.
OpOf(step, op) ==
  /\ step = "look" => op # "remove"
  /\ step = "read" => op = "get"
  /\ step = "set"  => op = "put"
  /\ step \in {"link", "size++"} => op \in {"put", "putIfAbsent"}
  /\ step \in {"find", "unlink", "size--"} => op = "remove"

MapTypeOK ==
  /\ chain \in [Buckets -> Seq(Memory)]
  /\ entry \in [Memory -> [key : Nat, value : Nat]]
  /\ size \in Int
  /\ writer \in [Segments -> SUBSET Threads]
  /\ pc \in [Threads -> Steps]
  /\ call \in [Threads -> Locals]
  /\ wild \in BOOLEAN
  /\ calls \in Nat /\ asked \in SUBSET Keys /\ IsFiniteSet(asked)
  /\ overlap \in BOOLEAN /\ removed \in BOOLEAN
  /\ stored \in SUBSET Keys /\ given \in [Keys -> SUBSET Nat] /\ spec \in [Keys -> Int]
  /\ \A t \in Threads : OpOf(pc[t], call[t].op)
  /\ \A t \in Threads : pc[t] # "idle" => call[t].key \in asked

\* e is in the list of b.
In(e, b) == \E n \in DOMAIN chain[b] : chain[b][n] = e

ListsInv ==
  \A b \in Buckets : \A n \in DOMAIN chain[b] :
    /\ hash(entry[chain[b][n]].key) = b
    /\ \A m \in DOMAIN chain[b] : chain[b][m] = chain[b][n] => m = n

LockInv ==
  /\ \A t \in Threads : pc[t] \in Resizing => writer[Segment(t)] = {t}
  /\ \A s \in Segments : \A t \in writer[s] : pc[t] \in Resizing /\ Segment(t) = s

OneSegment == \A k, l \in asked : Seg(hash(k)) = Seg(hash(l))

\* With one lock for all keys nobody writes size between the read and the
\* write of another.
SizeInv ==
  OneSegment =>
    /\ (\A t \in Threads : pc[t] \notin Resizing) => size = Cardinality(Linked)
    /\ \A t \in Threads : pc[t] \in Resizing => Resized(t) = Cardinality(Linked)

MapInv == MapTypeOK /\ ListsInv /\ LockInv /\ SizeInv

\* An entry has the key k.
Present(k) == \E e \in Linked : entry[e].key = k

PutLists ==
  /\ \A e \in Linked : entry[e].key \in Keys /\ entry[e].value \in given[entry[e].key]
  /\ \A k \in stored : Present(k)

PutCall(t) ==
  /\ call[t].op # "remove"
  /\ pc[t] # "idle" => call[t].value \in given[call[t].key]
  /\ call[t].sure => call[t].key \in stored /\ pc[t] \in {"idle", "look", "read", "set"}
  /\ pc[t] \in {"read", "set"} => call[t].at \in Linked /\ entry[call[t].at].key = call[t].key
  /\ pc[t] = "size++" => Present(call[t].key)
  /\ pc[t] = "idle" /\ call[t].sure =>
       CASE call[t].op = "get"         -> call[t].result \in given[call[t].key]
         [] call[t].op = "containsKey" -> call[t].result = 1
         [] OTHER                      -> call[t].result = 0

PutInv == ~removed => PutLists /\ \A t \in Threads : PutCall(t)

\* The lists map k to v, which is Missing if they do not have k.
MapsTo(k, v) ==
  \/ v = Missing /\ ~Present(k)
  \/ \E e \in Linked : entry[e].key = k /\ entry[e].value = v

\* What op returns, and what it stores, when its key was mapped to old.
Returns(op, old) ==
  CASE op = "get" -> old
    [] op \in {"containsKey", "remove"} -> IF old = Missing THEN 0 ELSE 1
    [] OTHER -> IF old = Missing THEN 1 ELSE 0

Stores(op, old, v) ==
  CASE op = "remove" -> Missing
    [] op = "put" \/ (op = "putIfAbsent" /\ old = Missing) -> v
    [] OTHER -> old

\* The locals of the only call agree with the map as it should be.
LoneLocals(t) ==
  LET k == call[t].key
      at == call[t].at
      list == chain[hash(k)]
  IN  /\ pc[t] \in {"look", "find"} =>
           \E old \in {Missing} \cup {entry[e].value : e \in Linked} :
             /\ MapsTo(k, old)
             /\ call[t].want = Returns(call[t].op, old)
             /\ spec[k] = Stores(call[t].op, old, call[t].value)
      /\ pc[t] = "read" => at \in Linked /\ entry[at].value = call[t].want /\ MapsTo(k, spec[k])
      /\ pc[t] = "set"  => at \in Linked /\ entry[at].key = k /\ call[t].want = 0 /\ spec[k] = call[t].value
      /\ pc[t] = "link" => ~Present(k) /\ call[t].want = 1 /\ spec[k] = call[t].value
      /\ pc[t] \in Resizing => call[t].want = 1 /\ MapsTo(k, spec[k])
      /\ pc[t] = "unlink" =>
           /\ spec[k] = Missing
           /\ \E n \in 0 .. Len(list) :
                /\ at = IF n = 0 THEN NULL ELSE list[n]
                /\ IF Present(k) THEN n < Len(list) /\ entry[list[n + 1]].key = k /\ call[t].want = 1
                   ELSE n = Len(list) /\ call[t].want = 0

\* Only its key may be mapped otherwise.
LoneCall(t) ==
  LoneLocals(t) /\ \A l \in Keys \ {call[t].key} : MapsTo(l, spec[l])

OneEntry == \A e, f \in Linked : entry[e].key = entry[f].key => e = f

Lone ==
  /\ ~wild /\ OneEntry
  /\ \A t, u \in Threads : pc[t] # "idle" /\ pc[u] # "idle" => t = u
  /\ (\A t \in Threads : pc[t] = "idle") => \A k \in Keys : MapsTo(k, spec[k])
  /\ \A t \in Threads : IF pc[t] = "idle" THEN call[t].result = call[t].want ELSE LoneCall(t)

LoneInv == ~overlap => Lone

-----------------------------------------------------------------------------
(* The operators of the model.                                             *)

\* First() finds the least of a set of positions.
LEMMA FirstIsLeast ==
  ASSUME NEW S, S \subseteq Nat, S # {}
  PROVE  First(S) \in S /\ \A m \in S : First(S) <= m
<1> DEFINE less == {p \in Nat \X Nat : p[1] < p[2]}
<1>1. IsWellFoundedOn(less, Nat)
  BY NatLessThanWellFounded DEF OpToRel
<1>2. PICK n \in S : \A m \in S : <<m, n>> \notin less
  BY <1>1, WFMin
<1>3. ASSUME NEW m \in S PROVE n <= m
  <2>1. m \in Nat /\ n \in Nat
    OBVIOUS
  <2>2. <<m, n>> \in less <=> m < n
    BY <2>1
  <2> QED
    BY <1>2, <2>1, <2>2
<1>4. First(S) \in S /\ \A m \in S : First(S) <= m
  BY <1>2, <1>3 DEF First
<1> QED
  BY <1>4

\* hash() gives a bucket, of a segment that has a lock.
LEMMA HashIsBucket ==
  /\ hash_capacity \in Nat /\ hash_capacity > 0
  /\ \A k \in Nat : hash(k) \in Buckets /\ Seg(hash(k)) \in Segments
  /\ Keys \cup {0} \subseteq Nat
<1>1. capacity \in Nat /\ SEG_SIZE \in Nat /\ SEG_SIZE > 0 /\ Keys \subseteq Nat
  BY HashmapAssumption
<1>2. capacity \div SEG_SIZE \in Nat
  BY <1>1
<1>3. \A m, n \in Nat : n > 0 => (m + 1) * n \in Nat /\ (m + 1) * n > 0
  OBVIOUS
<1>4. hash_capacity \in Nat /\ hash_capacity > 0
  BY <1>1, <1>2, <1>3 DEF hash_capacity
<1>5. \A k \in Nat : hash(k) \in Buckets
  BY <1>4 DEF hash, Buckets
<1> QED
  BY <1>1, <1>4, <1>5 DEF Segments

LEMMA RemoveAtProperties ==
  ASSUME NEW S, NEW s \in Seq(S), NEW n \in 1 .. Len(s)
  PROVE  /\ RemoveAt(s, n) \in Seq(S) /\ Len(RemoveAt(s, n)) = Len(s) - 1
         /\ \A i \in 1 .. Len(s) - 1 : RemoveAt(s, n)[i] = IF i < n THEN s[i] ELSE s[i + 1]
<1> DEFINE before == SubSeq(s, 1, n - 1)
           after  == SubSeq(s, n + 1, Len(s))
<1>1. Len(s) \in Nat /\ n \in Nat /\ 1 <= n /\ n <= Len(s) /\ \A i \in 1 .. Len(s) : s[i] \in S
  BY LenProperties, ElementOfSeq
<1>2. before \in Seq(S) /\ Len(before) = n - 1 /\ \A i \in 1 .. n - 1 : before[i] = s[i]
  <2>1. \A i \in 1 .. n - 1 : s[i] \in S
    BY <1>1
  <2>2. n - 1 \in Int
    BY <1>1
  <2> QED
    BY <1>1, <2>1, <2>2, SubSeqProperties
<1>3. after \in Seq(S) /\ Len(after) = Len(s) - n /\ \A i \in 1 .. Len(s) - n : after[i] = s[n + i]
  <2>1. \A i \in n + 1 .. Len(s) : s[i] \in S
    BY <1>1
  <2>2. n + 1 \in Int /\ Len(s) \in Int
    BY <1>1
  <2>3. /\ after \in Seq(S)
        /\ Len(after) = IF n + 1 <= Len(s) THEN Len(s) - (n + 1) + 1 ELSE 0
        /\ \A i \in 1 .. Len(s) - (n + 1) + 1 : after[i] = s[n + 1 + i - 1]
    BY <2>1, <2>2, SubSeqProperties
  <2>4. \A i \in 1 .. Len(s) - n : i \in 1 .. Len(s) - (n + 1) + 1 /\ n + 1 + i - 1 = n + i
    BY <1>1
  <2> QED
    BY <1>1, <2>3, <2>4
<1> HIDE DEF before, after
<1>4. /\ before \o after \in Seq(S) /\ Len(before \o after) = Len(before) + Len(after)
      /\ \A i \in 1 .. Len(before) + Len(after) :
            (before \o after)[i] = IF i <= Len(before) THEN before[i] ELSE after[i - Len(before)]
  BY <1>2, <1>3, ConcatProperties
<1>5. RemoveAt(s, n) = before \o after
  BY DEF RemoveAt, before, after
<1>6. ASSUME NEW i \in 1 .. Len(s) - 1
      PROVE  (before \o after)[i] = IF i < n THEN s[i] ELSE s[i + 1]
  <2>1. CASE i < n
    BY <1>1, <1>2, <1>3, <1>4, <2>1
  <2>2. CASE ~ (i < n)
    <3>1. (before \o after)[i] = after[i - (n - 1)] /\ i - (n - 1) \in 1 .. Len(s) - n
      BY <1>1, <1>2, <1>3, <1>4, <2>2
    <3>2. n + (i - (n - 1)) = i + 1
      BY <1>1
    <3> QED
      BY <1>3, <2>2, <3>1, <3>2
  <2> QED
    BY <2>1, <2>2
<1>7. Len(before) + Len(after) = Len(s) - 1
  BY <1>1, <1>2, <1>3
<1> QED
  BY <1>4, <1>5, <1>6, <1>7

\* The entries of the lists are in memory, and each is in one list at most.
LEMMA Lists ==
  ASSUME MapTypeOK
  PROVE  /\ \A b \in Buckets : /\ chain[b] \in Seq(Memory) /\ Len(chain[b]) \in Nat
                               /\ DOMAIN chain[b] = 1 .. Len(chain[b])
                               /\ \A n \in DOMAIN chain[b] : chain[b][n] \in Memory
         /\ \A e : e \in Linked <=> \E b \in Buckets : In(e, b)
         /\ Linked \subseteq Memory
         /\ ListsInv => \A b \in Buckets : \A e : In(e, b) => hash(entry[e].key) = b
<1>1. \A b \in Buckets : /\ chain[b] \in Seq(Memory) /\ Len(chain[b]) \in Nat
                         /\ DOMAIN chain[b] = 1 .. Len(chain[b])
                         /\ \A n \in DOMAIN chain[b] : chain[b][n] \in Memory
  BY LenProperties, ElementOfSeq DEF MapTypeOK
<1>2. \A e : e \in Linked <=> \E b \in Buckets : In(e, b)
  BY DEF Linked, ToSet, In
<1>3. Linked \subseteq Memory
  BY <1>1, <1>2 DEF In
<1>4. ListsInv => \A b \in Buckets : \A e : In(e, b) => hash(entry[e].key) = b
  BY DEF ListsInv, In
<1> QED
  BY <1>1, <1>2, <1>3, <1>4

\* The bucket and the segment of a call exist.
LEMMA CallTyped ==
  ASSUME MapTypeOK, NEW t \in Threads
  PROVE  /\ call[t] \in Locals /\ call[t].key \in Nat
         /\ Bucket(t) \in Buckets /\ Segment(t) \in Segments
         /\ pc[t] # "idle" => call[t].key \in Keys /\ call[t].key \in asked
         /\ call[t].at \in Memory \cup {NULL} /\ NULL \notin Memory
<1>1. call[t] \in Locals
  BY DEF MapTypeOK
<1>2. call[t].key \in Nat
  BY <1>1, HashIsBucket DEF Locals
<1>3. pc[t] # "idle" => call[t].key \in Keys /\ call[t].key \in asked
  BY DEF MapTypeOK
<1> QED
  BY <1>1, <1>2, <1>3, HashIsBucket, HashmapAssumption DEF Locals, Bucket, Segment

\* hashmap_getentry() finds an entry of the list with the key, if there is one.
LEMMA HitFound ==
  ASSUME MapTypeOK, ListsInv, NEW t \in Threads
  PROVE  /\ Hits(t) = {} <=> ~ Present(call[t].key)
         /\ Hits(t) # {} =>
              LET n == First(Hits(t)) IN
              /\ n \in 1 .. Len(chain[Bucket(t)])
              /\ chain[Bucket(t)][n] \in Linked
              /\ entry[chain[Bucket(t)][n]].key = call[t].key
<1>1. /\ DOMAIN chain[Bucket(t)] = 1 .. Len(chain[Bucket(t)]) /\ Len(chain[Bucket(t)]) \in Nat
      /\ \A n \in DOMAIN chain[Bucket(t)] : chain[Bucket(t)][n] \in Linked
  BY Lists, CallTyped DEF In
<1>2. Hits(t) = {} <=> ~ Present(call[t].key)
  <2>1. ASSUME NEW e \in Linked, entry[e].key = call[t].key PROVE In(e, Bucket(t))
    BY <2>1, Lists DEF Bucket
  <2> QED
    BY <1>1, <2>1 DEF Hits, Present, In
<1>3. ASSUME Hits(t) # {} PROVE First(Hits(t)) \in Hits(t)
  <2>1. Hits(t) \subseteq Nat
    BY <1>1 DEF Hits
  <2> QED
    BY <1>3, <2>1, FirstIsLeast
<1>4. First(Hits(t)) \in Hits(t) =>
        /\ First(Hits(t)) \in DOMAIN chain[Bucket(t)]
        /\ entry[chain[Bucket(t)][First(Hits(t))]].key = call[t].key
  BY Zenon DEF Hits
<1> QED
  BY <1>1, <1>2, <1>3, <1>4

-----------------------------------------------------------------------------
(* Types.                                                                  *)

\* The step is one of t's call, which remains the same call.
SameCall(t) ==
  /\ \A u \in Threads : u # t => pc'[u] = pc[u] /\ call'[u] = call[u]
  /\ call'[t].op = call[t].op /\ call'[t].key = call[t].key /\ call'[t].value = call[t].value
  /\ call'[t].sure = call[t].sure /\ call'[t].want = call[t].want
  /\ UNCHANGED <<calls, asked, overlap, removed, given, spec>>

\* What a step of a call under way leaves to show.
LEMMA StepTyped ==
  ASSUME MapTypeOK, NEW t \in Threads, pc[t] # "idle", SameCall(t),
         pc' \in [Threads -> Steps], call' \in [Threads -> Locals],
         OpOf(pc'[t], call'[t].op), stored' \in SUBSET Keys,
         chain' \in [Buckets -> Seq(Memory)], entry' \in [Memory -> [key : Nat, value : Nat]],
         size' \in Int, writer' \in [Segments -> SUBSET Threads], wild' \in BOOLEAN
  PROVE  MapTypeOK'
<1>1. \A u \in Threads : OpOf(pc'[u], call'[u].op) /\ (pc'[u] # "idle" => call'[u].key \in asked)
  BY DEF MapTypeOK, SameCall
<1> QED
  BY <1>1 DEF MapTypeOK, SameCall

\* The locals of a call as a step changes them.
LEMMA GoesOn ==
  ASSUME NEW c \in Locals, NEW e \in Memory \cup {NULL}, NEW n \in Int, NEW r \in Int
  PROVE  /\ [c EXCEPT !.at = e] \in Locals /\ [c EXCEPT !.tmp = n] \in Locals
         /\ [c EXCEPT !.result = r, !.at = e, !.tmp = n] \in Locals
BY DEF Locals

LEMMA Begins ==
  ASSUME NEW c \in Locals, NEW op \in Ops, NEW k \in Keys, NEW v \in Nat, NEW s \in BOOLEAN,
         NEW w \in Int
  PROVE  [c EXCEPT !.op = op, !.key = k, !.value = v, !.sure = s, !.want = w] \in Locals
BY DEF Locals

LEMMA NoCallTyped == NoCall \in Locals
BY DEF NoCall, Locals, Missing, Ops

\* What Result() leaves to show.
LEMMA ResultTyped ==
  ASSUME MapTypeOK, NEW t \in Threads, pc[t] # "idle", NEW r \in Int, Result(t, r),
         chain' \in [Buckets -> Seq(Memory)], entry' \in [Memory -> [key : Nat, value : Nat]],
         size' \in Int, writer' \in [Segments -> SUBSET Threads], wild' \in BOOLEAN
  PROVE  /\ MapTypeOK' /\ SameCall(t)
         /\ pc'[t] = "idle" /\ call'[t].result = r
         /\ stored' = IF call[t].op \in {"put", "putIfAbsent"} THEN stored \cup {call[t].key}
                      ELSE stored
<1> DEFINE l == [call[t] EXCEPT !.result = r, !.at = NULL, !.tmp = 0]
<1>1. call[t] \in Locals /\ call[t].key \in Keys
  BY CallTyped
<1>2. l \in Locals
  <2>1. NULL \in Memory \cup {NULL} /\ 0 \in Int
    OBVIOUS
  <2> QED
    BY <1>1, <2>1, GoesOn, Zenon
<1>3. call' = [call EXCEPT ![t] = l] /\ pc' = [pc EXCEPT ![t] = "idle"]
  BY <1>1 DEF Result, MapTypeOK
<1>4. /\ l \in Locals /\ l.result = r /\ l.op = call[t].op /\ l.key = call[t].key
      /\ l.value = call[t].value /\ l.sure = call[t].sure /\ l.want = call[t].want
  BY <1>1, <1>2 DEF Locals
<1> HIDE DEF l
<1>5. pc'[t] = "idle" /\ pc' \in [Threads -> Steps] /\ call'[t] = l /\ call' \in [Threads -> Locals]
  BY <1>3, <1>4 DEF MapTypeOK, Steps
<1>6. SameCall(t)
  BY <1>3, <1>4, <1>5 DEF Result, MapTypeOK, SameCall
<1>7. OpOf(pc'[t], call'[t].op)
  BY <1>5 DEF OpOf
<1>8. stored' \in SUBSET Keys
  BY <1>1 DEF Result, MapTypeOK
<1>9. MapTypeOK'
  BY <1>5, <1>6, <1>7, <1>8, StepTyped
<1> QED
  BY <1>4, <1>5, <1>6, <1>9 DEF Result

\* A call begins.
LEMMA CallBegins ==
  ASSUME MapTypeOK, NEW t \in Threads, NEW op \in Ops, NEW k \in Keys, Call(t, op, k)
  PROVE  /\ MapTypeOK'
         /\ pc[t] = "idle" /\ pc'[t] = IF op = "remove" THEN "find" ELSE "look"
         /\ call'[t].op = op /\ call'[t].key = k /\ call'[t].value = calls + 1
         /\ call'[t].sure = (k \in stored) /\ call'[t].want = Wanted(op, k)
         /\ \A u \in Threads : u # t => pc'[u] = pc[u] /\ call'[u] = call[u]
         /\ UNCHANGED <<chain, entry, size, writer, wild, stored>>
<1> USE DEF Call
<1> DEFINE l == [NoCall EXCEPT !.op = op, !.key = k, !.value = calls + 1,
                               !.sure = k \in stored, !.want = Wanted(op, k)]
           x == IF op = "remove" THEN "find" ELSE "look"
<1>1. call' = [call EXCEPT ![t] = l] /\ pc' = [pc EXCEPT ![t] = x]
  OBVIOUS
<1>2. spec[k] \in Int /\ calls \in Nat
  BY DEF MapTypeOK
<1>3. Wanted(op, k) \in Int
  BY <1>2 DEF Wanted, Missing
<1>4. /\ l \in Locals /\ l.op = op /\ l.key = k /\ l.value = calls + 1
      /\ l.sure = (k \in stored) /\ l.want = Wanted(op, k)
  <2>1. l \in Locals
    <3>1. calls + 1 \in Nat /\ (k \in stored) \in BOOLEAN
      BY <1>2
    <3> QED
      BY <1>3, <3>1, NoCallTyped, Begins, Zenon
  <2> QED
    BY <2>1 DEF NoCall
<1>5. x \in Steps /\ OpOf(x, op)
  BY DEF Steps, OpOf
<1> HIDE DEF l, x
<1>6. /\ pc'[t] = x /\ call'[t] = l
      /\ \A u \in Threads : u # t => pc'[u] = pc[u] /\ call'[u] = call[u]
  BY <1>1 DEF MapTypeOK
<1>7. pc' \in [Threads -> Steps] /\ call' \in [Threads -> Locals]
  BY <1>1, <1>4, <1>5 DEF MapTypeOK
<1>8. \A u \in Threads : OpOf(pc'[u], call'[u].op) /\ (pc'[u] # "idle" => call'[u].key \in asked')
  BY <1>4, <1>5, <1>6 DEF MapTypeOK
<1>9. IsFiniteSet(asked') /\ asked' \in SUBSET Keys
  BY FS_AddElement DEF MapTypeOK
<1>10. spec' \in [Keys -> Int] /\ given' \in [Keys -> SUBSET Nat]
  BY <1>2 DEF Alone, Missing, MapTypeOK
<1>11. calls' \in Nat /\ overlap' \in BOOLEAN /\ removed' \in BOOLEAN
  BY <1>2 DEF MapTypeOK
<1>12. MapTypeOK'
  BY <1>7, <1>8, <1>9, <1>10, <1>11 DEF MapTypeOK
<1> QED
  BY <1>4, <1>6, <1>12 DEF x

-----------------------------------------------------------------------------
(* What the steps do.                                                      *)

\* Going on to step x with the entry e and the value n of size.
LEMMA MovesOn ==
  ASSUME MapTypeOK, NEW t \in Threads, pc[t] # "idle",
         NEW x \in Steps, pc' = [pc EXCEPT ![t] = x], OpOf(x, call[t].op),
         \/ \E e \in Memory \cup {NULL} : call' = [call EXCEPT ![t].at = e]
         \/ \E n \in Int : call' = [call EXCEPT ![t].tmp = n],
         UNCHANGED history, UNCHANGED wild,
         chain' \in [Buckets -> Seq(Memory)], entry' \in [Memory -> [key : Nat, value : Nat]],
         size' \in Int, writer' \in [Segments -> SUBSET Threads]
  PROVE  MapTypeOK' /\ SameCall(t) /\ pc'[t] = x /\ stored' = stored
<1>1. call[t] \in Locals
  BY CallTyped
<1>2. PICK l \in Locals : /\ call' = [call EXCEPT ![t] = l]
                          /\ l.op = call[t].op /\ l.key = call[t].key /\ l.value = call[t].value
                          /\ l.sure = call[t].sure /\ l.want = call[t].want
  <2>1. CASE \E e \in Memory \cup {NULL} : call' = [call EXCEPT ![t].at = e]
    <3>1. PICK e \in Memory \cup {NULL} : call' = [call EXCEPT ![t].at = e]
      BY <2>1
    <3>2. call' = [call EXCEPT ![t] = [call[t] EXCEPT !.at = e]]
      BY <3>1 DEF MapTypeOK
    <3>3. [call[t] EXCEPT !.at = e] \in Locals
      BY <1>1 DEF Locals
    <3> QED
      BY <1>1, <3>2, <3>3 DEF Locals
  <2>2. CASE \E n \in Int : call' = [call EXCEPT ![t].tmp = n]
    <3>1. PICK n \in Int : call' = [call EXCEPT ![t].tmp = n]
      BY <2>2
    <3>2. call' = [call EXCEPT ![t] = [call[t] EXCEPT !.tmp = n]]
      BY <3>1 DEF MapTypeOK
    <3>3. [call[t] EXCEPT !.tmp = n] \in Locals
      BY <1>1 DEF Locals
    <3> QED
      BY <1>1, <3>2, <3>3 DEF Locals
  <2> QED
    BY <2>1, <2>2
<1>3. /\ pc'[t] = x /\ pc' \in [Threads -> Steps] /\ call'[t] = l /\ call' \in [Threads -> Locals]
      /\ \A u \in Threads : u # t => pc'[u] = pc[u] /\ call'[u] = call[u]
  BY <1>2 DEF MapTypeOK
<1>4. SameCall(t) /\ stored' = stored
  BY <1>2, <1>3 DEF SameCall, history
<1>5. OpOf(pc'[t], call'[t].op) /\ stored' \in SUBSET Keys /\ wild' \in BOOLEAN
  BY <1>2, <1>3, <1>4 DEF MapTypeOK
<1> QED
  BY <1>3, <1>4, <1>5, StepTyped

\* Freed memory was used.
LEMMA UseAfterFreeTyped ==
  ASSUME MapTypeOK, UseAfterFree
  PROVE  MapTypeOK' /\ UNCHANGED <<chain, entry, size, writer, pc, call, calls, asked, overlap,
                                   removed, stored, given, spec>>
BY DEF UseAfterFree, history, MapTypeOK

\* What hashmap_getentry() has found.
Looked(t) ==
  LET op == call[t].op
      k  == call[t].key
      at == call'[t].at
  IN  \/ /\ pc'[t] = "idle"
         /\ \/ op = "containsKey" /\ call'[t].result = (IF Present(k) THEN 1 ELSE 0)
            \/ op = "get" /\ ~Present(k) /\ call'[t].result = Missing
            \/ op = "putIfAbsent" /\ Present(k) /\ call'[t].result = 0
         /\ stored' = IF op = "putIfAbsent" THEN stored \cup {k} ELSE stored
      \/ pc'[t] = "link" /\ ~Present(k) /\ stored' = stored
      \/ /\ pc'[t] \in {"read", "set"} /\ stored' = stored
         /\ at \in Linked /\ entry[at].key = k

LEMMA GetEntryStep ==
  ASSUME MapTypeOK, ListsInv, NEW t \in Threads, getentry(t)
  PROVE  /\ MapTypeOK' /\ SameCall(t) /\ pc[t] = "look"
         /\ UNCHANGED <<chain, entry, size, writer, wild>>
         /\ Looked(t)
<1> USE DEF getentry
<1>1. /\ pc[t] = "look" /\ UNCHANGED <<chain, entry, size, writer, wild>>
      /\ call[t].op \in Ops \ {"remove"}
  BY CallTyped DEF MapTypeOK, OpOf, Locals
<1>2. /\ chain' \in [Buckets -> Seq(Memory)] /\ entry' \in [Memory -> [key : Nat, value : Nat]]
      /\ size' \in Int /\ writer' \in [Segments -> SUBSET Threads] /\ wild' \in BOOLEAN
  BY <1>1 DEF MapTypeOK
<1>3. PICK e : e = IF Hits(t) = {} THEN NULL ELSE chain[Bucket(t)][First(Hits(t))]
  OBVIOUS
<1>4. /\ e = NULL <=> ~ Present(call[t].key)
      /\ e # NULL => e \in Linked /\ entry[e].key = call[t].key
      /\ e \in Memory \cup {NULL}
  BY <1>3, HitFound, Lists, HashmapAssumption
<1>5. CASE call[t].op = "containsKey"
  <2>1. PICK r \in Int : r = (IF Present(call[t].key) THEN 1 ELSE 0)
    OBVIOUS
  <2>2. Result(t, r)
    BY <1>1, <1>3, <1>4, <1>5, <2>1
  <2> QED
    BY <1>1, <1>2, <1>5, <2>1, <2>2, ResultTyped DEF Looked
<1>6. CASE call[t].op = "get" /\ e = NULL
  <2>1. Result(t, Missing) /\ Missing \in Int
    BY <1>1, <1>3, <1>6 DEF Missing
  <2> QED
    BY <1>1, <1>2, <1>4, <1>6, <2>1, ResultTyped DEF Looked
<1>7. CASE call[t].op = "putIfAbsent" /\ e # NULL
  <2>1. Result(t, 0) /\ 0 \in Int
    BY <1>1, <1>3, <1>7
  <2> QED
    BY <1>1, <1>2, <1>4, <1>7, <2>1, ResultTyped DEF Looked
<1>8. CASE \/ call[t].op = "get" /\ e # NULL
           \/ call[t].op = "putIfAbsent" /\ e = NULL
           \/ call[t].op = "put"
  <2>1. PICK x \in {"read", "link", "set"} :
          x = IF call[t].op = "get" THEN "read" ELSE IF e = NULL THEN "link" ELSE "set"
    OBVIOUS
  <2>2. call' = [call EXCEPT ![t].at = e] /\ pc' = [pc EXCEPT ![t] = x] /\ UNCHANGED history
    BY <1>1, <1>3, <1>8, <2>1
  <2>3. x \in Steps /\ OpOf(x, call[t].op)
    BY <1>8, <2>1 DEF Steps, OpOf
  <2>4. MapTypeOK' /\ SameCall(t) /\ pc'[t] = x /\ stored' = stored
    BY <1>1, <1>2, <1>4, <2>2, <2>3, MovesOn
  <2>5. call'[t].at = e
    BY <2>2 DEF MapTypeOK, Locals
  <2> QED
    BY <1>1, <1>4, <1>8, <2>1, <2>4, <2>5 DEF Looked
<1> HIDE DEF getentry
<1>9. call[t].op \in {"containsKey", "get", "putIfAbsent", "put"}
  BY <1>1 DEF Ops
<1> QED
  BY <1>5, <1>6, <1>7, <1>8, <1>9, Zenon

\* A get whose entry is still in a list returns its value.
LEMMA GetStep ==
  ASSUME MapTypeOK, NEW t \in Threads, get(t)
  PROVE  /\ MapTypeOK' /\ pc[t] = "read" /\ call[t].op = "get"
         /\ UNCHANGED <<chain, entry, size, writer>>
         /\ \/ call[t].at \notin Linked /\ UseAfterFree
            \/ /\ call[t].at \in Linked /\ SameCall(t) /\ pc'[t] = "idle"
               /\ call'[t].result = entry[call[t].at].value
               /\ UNCHANGED <<wild, stored>>
<1>1. pc[t] = "read" /\ call[t].op = "get"
  BY DEF get, MapTypeOK, OpOf
<1>2. CASE Free(call[t].at) /\ UseAfterFree
  BY <1>1, <1>2, UseAfterFreeTyped DEF Free
<1>3. CASE /\ ~Free(call[t].at) /\ Result(t, entry[call[t].at].value)
           /\ UNCHANGED <<chain, entry, size, writer, wild>>
  <2>1. call[t].at \in Linked /\ call[t].at \in Memory
    BY <1>3, Lists DEF Free
  <2>2. entry[call[t].at].value \in Int
    BY <2>1 DEF MapTypeOK
  <2>3. /\ chain' \in [Buckets -> Seq(Memory)] /\ entry' \in [Memory -> [key : Nat, value : Nat]]
        /\ size' \in Int /\ writer' \in [Segments -> SUBSET Threads] /\ wild' \in BOOLEAN
    BY <1>3 DEF MapTypeOK
  <2>4. /\ MapTypeOK' /\ SameCall(t) /\ pc'[t] = "idle"
        /\ call'[t].result = entry[call[t].at].value
        /\ stored' = IF call[t].op \in {"put", "putIfAbsent"} THEN stored \cup {call[t].key}
                     ELSE stored
    BY <1>1, <1>3, <2>2, <2>3, ResultTyped
  <2> QED
    BY <1>1, <1>3, <2>1, <2>4
<1> QED
  BY <1>2, <1>3 DEF get

\* A put writes the value of the entry it has found.
LEMMA PutStep ==
  ASSUME MapTypeOK, NEW t \in Threads, put(t)
  PROVE  /\ MapTypeOK' /\ pc[t] = "set" /\ call[t].op = "put"
         /\ UNCHANGED <<chain, size, writer>>
         /\ \/ call[t].at \notin Linked /\ UseAfterFree
            \/ /\ call[t].at \in Linked /\ SameCall(t) /\ pc'[t] = "idle"
               /\ call'[t].result = 0 /\ stored' = stored \cup {call[t].key}
               /\ UNCHANGED wild
               /\ entry'[call[t].at].value = call[t].value
               /\ \A e \in Memory : /\ entry'[e].key = entry[e].key
                                    /\ e # call[t].at => entry'[e] = entry[e]
<1>1. pc[t] = "set" /\ call[t].op = "put"
  BY DEF put, MapTypeOK, OpOf
<1>2. CASE Free(call[t].at) /\ UseAfterFree
  BY <1>1, <1>2, UseAfterFreeTyped DEF Free
<1>3. CASE /\ ~Free(call[t].at)
           /\ entry' = [entry EXCEPT ![call[t].at].value = call[t].value]
           /\ Result(t, 0)
           /\ UNCHANGED <<chain, size, writer, wild>>
  <2>1. call[t].at \in Linked /\ call[t].at \in Memory
    BY <1>3, Lists DEF Free
  <2>2. call[t].value \in Nat
    BY CallTyped DEF Locals
  <2>3. PICK e \in Memory, v \in Nat : e = call[t].at /\ v = call[t].value
    BY <2>1, <2>2
  <2>4. entry' = [entry EXCEPT ![e] = [entry[e] EXCEPT !.value = v]]
    BY <1>3, <2>3 DEF MapTypeOK
  <2>5. entry[e] \in [key : Nat, value : Nat]
    BY DEF MapTypeOK
  <2>6. /\ [entry[e] EXCEPT !.value = v] \in [key : Nat, value : Nat]
        /\ [entry[e] EXCEPT !.value = v].value = v
        /\ [entry[e] EXCEPT !.value = v].key = entry[e].key
    BY <2>5
  <2>7. /\ entry' \in [Memory -> [key : Nat, value : Nat]]
        /\ entry'[e].value = v
        /\ \A f \in Memory : entry'[f].key = entry[f].key /\ (f # e => entry'[f] = entry[f])
    BY <2>4, <2>6 DEF MapTypeOK
  <2>8. /\ chain' \in [Buckets -> Seq(Memory)]
        /\ size' \in Int /\ writer' \in [Segments -> SUBSET Threads] /\ wild' \in BOOLEAN
    BY <1>3 DEF MapTypeOK
  <2>9. /\ MapTypeOK' /\ SameCall(t) /\ pc'[t] = "idle" /\ call'[t].result = 0
        /\ stored' = IF call[t].op \in {"put", "putIfAbsent"} THEN stored \cup {call[t].key}
                     ELSE stored
    <3>1. 0 \in Int /\ pc[t] # "idle"
      BY <1>1
    <3> QED
      BY <1>3, <2>7, <2>8, <3>1, ResultTyped, Zenon
  <2> QED
    BY <1>1, <1>3, <2>1, <2>3, <2>7, <2>9
<1> QED
  BY <1>2, <1>3 DEF put

\* A list gets an entry that was in none.
LEMMA LinkStep ==
  ASSUME MapTypeOK, NEW t \in Threads, Link(t)
  PROVE  /\ MapTypeOK' /\ SameCall(t) /\ pc[t] = "link" /\ pc'[t] = "size++"
         /\ call[t].op \in {"put", "putIfAbsent"}
         /\ Unlocked(t) /\ writer' = [writer EXCEPT ![Segment(t)] = {t}]
         /\ call'[t].tmp = size /\ UNCHANGED <<size, wild, stored>>
         /\ \E e \in Memory \ Linked :
              /\ entry'[e].key = call[t].key /\ entry'[e].value = call[t].value
              /\ \A f \in Memory : f # e => entry'[f] = entry[f]
              /\ chain' = [chain EXCEPT ![Bucket(t)] = Append(@, e)]
<1> USE DEF Link
<1>1. pc[t] = "link" /\ call[t].op \in {"put", "putIfAbsent"}
  BY DEF MapTypeOK, OpOf
<1>2. PICK e \in Memory : /\ Free(e)
                          /\ entry' = [entry EXCEPT ![e] = [key |-> call[t].key, value |-> call[t].value]]
                          /\ chain' = [chain EXCEPT ![Bucket(t)] = Append(@, e)]
  OBVIOUS
<1>3. call[t].key \in Nat /\ call[t].value \in Nat
  BY CallTyped DEF Locals
<1>4. /\ entry' \in [Memory -> [key : Nat, value : Nat]]
      /\ entry'[e].key = call[t].key /\ entry'[e].value = call[t].value
      /\ \A f \in Memory : f # e => entry'[f] = entry[f]
  BY <1>2, <1>3 DEF MapTypeOK
<1>5. chain' \in [Buckets -> Seq(Memory)]
  <2>1. Bucket(t) \in Buckets /\ chain[Bucket(t)] \in Seq(Memory)
    BY CallTyped DEF MapTypeOK
  <2>2. Append(chain[Bucket(t)], e) \in Seq(Memory)
    BY <2>1, AppendProperties
  <2> QED
    BY <1>2, <2>1, <2>2 DEF MapTypeOK
<1>6. size' \in Int /\ size \in Int /\ UNCHANGED wild /\ UNCHANGED size
  BY DEF MapTypeOK
<1>7. writer' \in [Segments -> SUBSET Threads]
  BY DEF MapTypeOK
<1>8. /\ call' = [call EXCEPT ![t].tmp = size] /\ pc' = [pc EXCEPT ![t] = "size++"]
      /\ UNCHANGED history
  OBVIOUS
<1>9. MapTypeOK' /\ SameCall(t) /\ pc'[t] = "size++" /\ stored' = stored
  <2>1. "size++" \in Steps /\ OpOf("size++", call[t].op) /\ pc[t] # "idle"
    BY <1>1 DEF Steps, OpOf
  <2>2. \E n \in Int : call' = [call EXCEPT ![t].tmp = n]
    BY <1>6, <1>8
  <2> QED
    BY <1>4, <1>5, <1>6, <1>7, <1>8, <2>1, <2>2, MovesOn, Zenon
<1>10. call'[t].tmp = size
  BY <1>8, CallTyped DEF MapTypeOK, Locals
<1> QED
  BY <1>1, <1>2, <1>4, <1>6, <1>9, <1>10 DEF Free

\* What a step that takes an entry in does to the lists.
LEMMA Linking ==
  ASSUME MapTypeOK, NEW b \in Buckets, NEW e \in Memory \ Linked,
         chain' = [chain EXCEPT ![b] = Append(@, e)]
  PROVE  /\ Linked' = Linked \cup {e}
         /\ \A f : \A c \in Buckets : In(f, c)' <=> (In(f, c) \/ (c = b /\ f = e))
         /\ \A c \in Buckets : c # b => chain'[c] = chain[c]
         /\ DOMAIN chain'[b] = 1 .. Len(chain[b]) + 1
         /\ chain'[b][Len(chain[b]) + 1] = e
         /\ \A n \in 1 .. Len(chain[b]) : chain'[b][n] = chain[b][n]
<1>1. /\ chain[b] \in Seq(Memory) /\ Len(chain[b]) \in Nat
      /\ \A c \in Buckets : DOMAIN chain[c] = 1 .. Len(chain[c])
  BY Lists
<1>2. chain'[b] = Append(chain[b], e) /\ \A c \in Buckets : c # b => chain'[c] = chain[c]
  BY DEF MapTypeOK
<1>3. /\ DOMAIN chain'[b] = 1 .. Len(chain[b]) + 1
      /\ chain'[b][Len(chain[b]) + 1] = e
      /\ \A n \in 1 .. Len(chain[b]) : chain'[b][n] = chain[b][n]
  <2>1. /\ Append(chain[b], e) \in Seq(Memory) /\ Len(Append(chain[b], e)) = Len(chain[b]) + 1
        /\ Append(chain[b], e)[Len(chain[b]) + 1] = e
        /\ \A n \in 1 .. Len(chain[b]) : Append(chain[b], e)[n] = chain[b][n]
    BY <1>1, AppendProperties
  <2> QED
    BY <1>2, <2>1, LenProperties
<1>4. \A f : \A c \in Buckets : In(f, c)' <=> (In(f, c) \/ (c = b /\ f = e))
  <2>1. ASSUME NEW f PROVE In(f, b)' <=> In(f, b) \/ f = e
    <3>1. 1 .. Len(chain[b]) + 1 = (1 .. Len(chain[b])) \cup {Len(chain[b]) + 1}
      BY <1>1
    <3> QED
      BY <1>1, <1>3, <3>1 DEF In
  <2>2. ASSUME NEW f, NEW c \in Buckets, c # b PROVE In(f, c)' <=> In(f, c)
    BY <1>2, <2>2 DEF In
  <2> QED
    BY <2>1, <2>2
<1>5. Linked' = Linked \cup {e}
  <2>1. \A f : f \in Linked' <=> \E c \in Buckets : In(f, c)'
    BY DEF Linked, ToSet, In
  <2>2. \A f : f \in Linked <=> \E c \in Buckets : In(f, c)
    BY Lists
  <2> QED
    BY <1>4, <2>1, <2>2
<1> QED
  BY <1>2, <1>3, <1>4, <1>5

\* What a step that takes an entry out does to the lists.
LEMMA Unlinking ==
  ASSUME MapTypeOK, ListsInv, NEW b \in Buckets, NEW n \in 1 .. Len(chain[b]),
         chain' = [chain EXCEPT ![b] = RemoveAt(@, n)]
  PROVE  /\ chain' \in [Buckets -> Seq(Memory)]
         /\ chain[b][n] \in Linked /\ Linked' = Linked \ {chain[b][n]}
         /\ \A f : \A c \in Buckets : In(f, c)' <=> (In(f, c) /\ f # chain[b][n])
         /\ \A c \in Buckets : c # b => chain'[c] = chain[c]
         /\ DOMAIN chain'[b] = 1 .. Len(chain[b]) - 1
         /\ \A i \in 1 .. Len(chain[b]) - 1 :
              chain'[b][i] = IF i < n THEN chain[b][i] ELSE chain[b][i + 1]
<1>1. /\ chain[b] \in Seq(Memory) /\ Len(chain[b]) \in Nat
      /\ \A c \in Buckets : DOMAIN chain[c] = 1 .. Len(chain[c])
  BY Lists
<1>2. chain'[b] = RemoveAt(chain[b], n) /\ \A c \in Buckets : c # b => chain'[c] = chain[c]
  BY DEF MapTypeOK
<1>3. /\ chain'[b] \in Seq(Memory) /\ DOMAIN chain'[b] = 1 .. Len(chain[b]) - 1
      /\ \A i \in 1 .. Len(chain[b]) - 1 :
           chain'[b][i] = IF i < n THEN chain[b][i] ELSE chain[b][i + 1]
  <2>1. /\ RemoveAt(chain[b], n) \in Seq(Memory) /\ Len(RemoveAt(chain[b], n)) = Len(chain[b]) - 1
        /\ \A i \in 1 .. Len(chain[b]) - 1 :
             RemoveAt(chain[b], n)[i] = IF i < n THEN chain[b][i] ELSE chain[b][i + 1]
    BY <1>1, RemoveAtProperties
  <2> QED
    BY <1>2, <2>1, LenProperties
<1>4. chain' \in [Buckets -> Seq(Memory)]
  BY <1>2, <1>3 DEF MapTypeOK
<1>5. /\ \A m \in 1 .. Len(chain[b]) : chain[b][m] = chain[b][n] => m = n
      /\ hash(entry[chain[b][n]].key) = b
  BY <1>1 DEF ListsInv
<1>6. ASSUME NEW f PROVE In(f, b)' <=> In(f, b) /\ f # chain[b][n]
  <2>1. ASSUME In(f, b)' PROVE In(f, b) /\ f # chain[b][n]
    <3>1. PICK i \in 1 .. Len(chain[b]) - 1 : f = chain'[b][i]
      BY <1>3, <2>1 DEF In
    <3>2. PICK j \in 1 .. Len(chain[b]) : j # n /\ f = chain[b][j]
      <4>1. CASE i < n
        BY <1>1, <1>3, <3>1, <4>1
      <4>2. CASE ~ (i < n)
        <5>1. i + 1 \in 1 .. Len(chain[b]) /\ i + 1 # n
          BY <1>1, <4>2
        <5> QED
          BY <1>3, <3>1, <4>2, <5>1
      <4> QED
        BY <4>1, <4>2
    <3> QED
      BY <1>1, <1>5, <3>2 DEF In
  <2>2. ASSUME In(f, b), f # chain[b][n] PROVE In(f, b)'
    <3>1. PICK j \in 1 .. Len(chain[b]) : f = chain[b][j] /\ j # n
      BY <1>1, <2>2 DEF In
    <3>2. CASE j < n
      <4>1. j \in 1 .. Len(chain[b]) - 1
        BY <1>1, <3>2
      <4> QED
        BY <1>3, <3>1, <3>2, <4>1 DEF In
    <3>3. CASE ~ (j < n)
      <4>1. j - 1 \in 1 .. Len(chain[b]) - 1 /\ ~ (j - 1 < n) /\ (j - 1) + 1 = j
        BY <1>1, <3>1, <3>3
      <4> QED
        BY <1>3, <3>1, <4>1 DEF In
    <3> QED
      BY <3>2, <3>3
  <2> QED
    BY <2>1, <2>2
<1>7. ASSUME NEW f, NEW c \in Buckets, c # b PROVE In(f, c)' <=> In(f, c) /\ f # chain[b][n]
  <2>1. In(f, c)' <=> In(f, c)
    BY <1>2, <1>7 DEF In
  <2>2. In(f, c) => hash(entry[f].key) = c
    BY Lists
  <2> QED
    BY <1>5, <1>7, <2>1, <2>2
<1>8. chain[b][n] \in Linked /\ Linked' = Linked \ {chain[b][n]}
  <2>1. \A f : f \in Linked' <=> \E c \in Buckets : In(f, c)'
    BY DEF Linked, ToSet, In
  <2>2. \A f : f \in Linked <=> \E c \in Buckets : In(f, c)
    BY Lists
  <2>3. In(chain[b][n], b)
    BY <1>1 DEF In
  <2>4. \A f : \A c \in Buckets : In(f, c)' <=> (In(f, c) /\ f # chain[b][n])
    BY <1>6, <1>7
  <2> QED
    BY <2>1, <2>2, <2>3, <2>4
<1> QED
  BY <1>2, <1>3, <1>4, <1>6, <1>7, <1>8

\* size is written, and the call is over.
LEMMA WriteSizeStep ==
  ASSUME MapTypeOK, NEW t \in Threads, WriteSize(t)
  PROVE  /\ MapTypeOK' /\ SameCall(t) /\ pc[t] \in Resizing /\ pc'[t] = "idle"
         /\ size' = Resized(t) % (SIZE_MAX + 1) /\ Resized(t) \in Int
         /\ writer' = [writer EXCEPT ![Segment(t)] = {}] /\ call'[t].result = 1
         /\ UNCHANGED <<chain, entry, wild>>
         /\ stored' = IF pc[t] = "size++" THEN stored \cup {call[t].key} ELSE stored
<1> USE DEF WriteSize
<1>1. /\ pc[t] \in Resizing
      /\ pc[t] = "size++" <=> call[t].op \in {"put", "putIfAbsent"}
  BY DEF MapTypeOK, OpOf, Resizing
<1>2. call[t].tmp \in Int
  BY CallTyped DEF Locals
<1>3. Resized(t) \in Int
  BY <1>2 DEF Resized
<1>4. size' \in Int /\ size' = Resized(t) % (SIZE_MAX + 1)
  <2>1. SIZE_MAX \in Nat
    BY HashmapAssumption
  <2>2. \A i \in Int, m \in Nat : i % (m + 1) \in Int
    OBVIOUS
  <2> QED
    BY <1>3, <2>1, <2>2
<1>5. /\ chain' \in [Buckets -> Seq(Memory)] /\ entry' \in [Memory -> [key : Nat, value : Nat]]
      /\ writer' \in [Segments -> SUBSET Threads] /\ wild' \in BOOLEAN
  BY DEF MapTypeOK
<1>6. /\ Result(t, 1) /\ UNCHANGED <<chain, entry, wild>>
      /\ writer' = [writer EXCEPT ![Segment(t)] = {}]
  OBVIOUS
<1>7. /\ MapTypeOK' /\ SameCall(t) /\ pc'[t] = "idle" /\ call'[t].result = 1
      /\ stored' = IF call[t].op \in {"put", "putIfAbsent"} THEN stored \cup {call[t].key}
                   ELSE stored
  <2>1. 1 \in Int /\ pc[t] # "idle"
    BY <1>1 DEF Resizing
  <2> QED
    BY <1>4, <1>5, <1>6, <2>1, ResultTyped, Zenon
<1> QED
  BY <1>1, <1>3, <1>4, <1>6, <1>7

\* A remove has found the entry before the first one with its key, or the
\* last one.
LEMMA FindPreviousStep ==
  ASSUME MapTypeOK, ListsInv, NEW t \in Threads, FindPrevious(t)
  PROVE  /\ MapTypeOK' /\ SameCall(t) /\ pc[t] = "find" /\ pc'[t] = "unlink"
         /\ call[t].op = "remove"
         /\ UNCHANGED <<chain, entry, size, writer, wild, stored>>
         /\ \E n \in 0 .. Len(chain[Bucket(t)]) :
              /\ call'[t].at = IF n = 0 THEN NULL ELSE chain[Bucket(t)][n]
              /\ IF Present(call[t].key)
                 THEN /\ n < Len(chain[Bucket(t)])
                      /\ entry[chain[Bucket(t)][n + 1]].key = call[t].key
                 ELSE n = Len(chain[Bucket(t)])
<1> USE DEF FindPrevious
<1>1. pc[t] = "find" /\ call[t].op = "remove"
  BY DEF MapTypeOK, OpOf
<1>2. PICK n : n = IF Hits(t) = {} THEN Len(chain[Bucket(t)]) ELSE First(Hits(t)) - 1
  OBVIOUS
<1>3. /\ DOMAIN chain[Bucket(t)] = 1 .. Len(chain[Bucket(t)]) /\ Len(chain[Bucket(t)]) \in Nat
      /\ \A m \in DOMAIN chain[Bucket(t)] : chain[Bucket(t)][m] \in Memory
  BY Lists, CallTyped
<1>4. /\ n \in 0 .. Len(chain[Bucket(t)])
      /\ IF Present(call[t].key)
         THEN n < Len(chain[Bucket(t)]) /\ entry[chain[Bucket(t)][n + 1]].key = call[t].key
         ELSE n = Len(chain[Bucket(t)])
  <2>1. CASE Hits(t) = {}
    BY <1>2, <1>3, <2>1, HitFound
  <2>2. CASE Hits(t) # {}
    <3>1. /\ Present(call[t].key) /\ First(Hits(t)) \in 1 .. Len(chain[Bucket(t)])
          /\ entry[chain[Bucket(t)][First(Hits(t))]].key = call[t].key
      BY <2>2, HitFound
    <3>2. n = First(Hits(t)) - 1 /\ n + 1 = First(Hits(t))
      BY <1>2, <2>2, <3>1
    <3> QED
      BY <1>3, <3>1, <3>2
  <2> QED
    BY <2>1, <2>2
<1>5. PICK a \in Memory \cup {NULL} : a = IF n = 0 THEN NULL ELSE chain[Bucket(t)][n]
  BY <1>3, <1>4
<1>6. call' = [call EXCEPT ![t].at = a] /\ pc' = [pc EXCEPT ![t] = "unlink"]
  BY <1>2, <1>5
<1>7. /\ UNCHANGED <<chain, entry, size, writer, wild>> /\ UNCHANGED history
  OBVIOUS
<1>8. MapTypeOK' /\ SameCall(t) /\ pc'[t] = "unlink" /\ stored' = stored
  <2>1. "unlink" \in Steps /\ OpOf("unlink", call[t].op) /\ pc[t] # "idle"
    BY <1>1 DEF Steps, OpOf
  <2>2. /\ chain' \in [Buckets -> Seq(Memory)] /\ entry' \in [Memory -> [key : Nat, value : Nat]]
        /\ size' \in Int /\ writer' \in [Segments -> SUBSET Threads]
    BY <1>7 DEF MapTypeOK
  <2> QED
    BY <1>6, <1>7, <2>1, <2>2, MovesOn, Zenon
<1>9. call'[t].at = a
  <2>1. call \in [Threads -> Locals] /\ call[t] \in Locals
    BY Zenon DEF MapTypeOK
  <2>2. call'[t] = [call[t] EXCEPT !.at = a]
    BY <1>6, <2>1, Zenon
  <2> QED
    BY <2>1, <2>2 DEF Locals
<1> QED
  BY <1>1, <1>4, <1>5, <1>7, <1>8, <1>9

\* The place of an entry that is in a list, or of a head.
LEMMA PlaceIs ==
  ASSUME MapTypeOK, NEW t \in Threads, call[t].at = NULL \/ call[t].at \in Linked
  PROVE  /\ Place(t)[1] \in Buckets /\ Place(t)[2] \in 0 .. Len(chain[Place(t)[1]])
         /\ IF call[t].at = NULL THEN Place(t)[1] = Bucket(t) /\ Place(t)[2] = 0
            ELSE Place(t)[2] # 0 /\ chain[Place(t)[1]][Place(t)[2]] = call[t].at
<1>1. /\ \A b \in Buckets : Len(chain[b]) \in Nat /\ DOMAIN chain[b] = 1 .. Len(chain[b])
      /\ Bucket(t) \in Buckets
  BY Lists, CallTyped
<1>2. CASE call[t].at = NULL
  <2>1. Place(t) = <<Bucket(t), 0>>
    BY <1>2 DEF Place
  <2> QED
    BY <1>1, <1>2, <2>1
<1>3. CASE call[t].at # NULL
  <2> DEFINE ps == UNION {{b} \X DOMAIN chain[b] : b \in Buckets}
  <2>1. PICK b \in Buckets : \E n \in DOMAIN chain[b] : chain[b][n] = call[t].at
    BY <1>3, Lists DEF In
  <2>2. \E p \in ps : chain[p[1]][p[2]] = call[t].at
    <3>1. PICK n \in DOMAIN chain[b] : chain[b][n] = call[t].at
      BY <2>1
    <3>2. <<b, n>> \in ps
      OBVIOUS
    <3> QED
      BY <3>1, <3>2
  <2>3. Place(t) \in ps /\ chain[Place(t)[1]][Place(t)[2]] = call[t].at
    <3>1. Place(t) = CHOOSE p \in ps : chain[p[1]][p[2]] = call[t].at
      BY <1>3, Zenon DEF Place
    <3> QED
      BY <2>2, <3>1, Zenon
  <2>4. PICK c \in Buckets : Place(t) \in {c} \X DOMAIN chain[c]
    BY <2>3
  <2>5. Place(t)[1] = c /\ Place(t)[2] \in DOMAIN chain[c]
    BY <2>4
  <2> QED
    BY <1>1, <1>3, <2>3, <2>5
<1> QED
  BY <1>2, <1>3

\* A remove takes out what follows the entry it has found, wherever that
\* is, unless it is the last one.
LEMMA UnlinkStep ==
  ASSUME MapTypeOK, ListsInv, NEW t \in Threads, Unlink(t)
  PROVE  /\ MapTypeOK' /\ pc[t] = "unlink" /\ call[t].op = "remove" /\ Unlocked(t)
         /\ UNCHANGED <<entry, size, stored>>
         /\ \/ call[t].at \notin Linked /\ call[t].at # NULL
               /\ UseAfterFree
            \/ /\ SameCall(t) /\ UNCHANGED <<chain, writer, wild>> /\ pc'[t] = "idle"
               /\ call'[t].result = 0
               /\ \E b \in Buckets : \E n \in 0 .. Len(chain[b]) :
                    /\ IF call[t].at = NULL THEN b = Bucket(t) /\ n = 0
                       ELSE n # 0 /\ chain[b][n] = call[t].at
                    /\ n = Len(chain[b])
            \/ /\ SameCall(t) /\ UNCHANGED wild /\ pc'[t] = "size--" /\ call'[t].tmp = size
               /\ writer' = [writer EXCEPT ![Segment(t)] = {t}]
               /\ \E b \in Buckets : \E n \in 0 .. Len(chain[b]) :
                    /\ IF call[t].at = NULL THEN b = Bucket(t) /\ n = 0
                       ELSE n # 0 /\ chain[b][n] = call[t].at
                    /\ n < Len(chain[b])
                    /\ chain' = [chain EXCEPT ![b] = RemoveAt(@, n + 1)]
<1> USE DEF Unlink
<1>1. pc[t] = "unlink" /\ call[t].op = "remove" /\ Unlocked(t)
  BY DEF MapTypeOK, OpOf
<1>2. CASE call[t].at # NULL /\ Free(call[t].at) /\ UseAfterFree
  <2>1. MapTypeOK' /\ UNCHANGED <<entry, size, stored>>
    BY <1>2, UseAfterFreeTyped
  <2> QED
    BY <1>1, <1>2, <2>1 DEF Free
<1>3. CASE /\ call[t].at = NULL \/ ~Free(call[t].at)
           /\ UNCHANGED <<entry, size, wild>>
           /\ ~ (call[t].at # NULL /\ Free(call[t].at) /\ UseAfterFree)
  <2>1. PICK b, n : b = Place(t)[1] /\ n = Place(t)[2]
    OBVIOUS
  <2>2. /\ b \in Buckets /\ n \in 0 .. Len(chain[b]) /\ Len(chain[b]) \in Nat
        /\ IF call[t].at = NULL THEN b = Bucket(t) /\ n = 0
           ELSE n # 0 /\ chain[b][n] = call[t].at
    BY <1>3, <2>1, PlaceIs, Lists DEF Free
  <2>3. /\ pc[t] # "idle" /\ 0 \in Int /\ size \in Int
        /\ entry' \in [Memory -> [key : Nat, value : Nat]] /\ size' \in Int /\ wild' \in BOOLEAN
    BY <1>1, <1>3 DEF MapTypeOK
  <2>4. CASE n + 1 <= Len(chain[b])
    <3>1. /\ chain' = [chain EXCEPT ![b] = RemoveAt(@, n + 1)]
          /\ call' = [call EXCEPT ![t].tmp = size] /\ pc' = [pc EXCEPT ![t] = "size--"]
          /\ writer' = [writer EXCEPT ![Segment(t)] = {t}] /\ UNCHANGED history
      BY <1>3, <2>1, <2>4
    <3>2. n + 1 \in 1 .. Len(chain[b]) /\ n < Len(chain[b])
      BY <2>2, <2>4
    <3>3. chain' \in [Buckets -> Seq(Memory)]
      BY <2>2, <3>1, <3>2, Unlinking
    <3>4. writer' \in [Segments -> SUBSET Threads]
      BY <3>1 DEF MapTypeOK
    <3>5. MapTypeOK' /\ SameCall(t) /\ pc'[t] = "size--" /\ stored' = stored
      <4>1. "size--" \in Steps /\ OpOf("size--", call[t].op)
        BY <1>1 DEF Steps, OpOf
      <4>2. (\E m \in Int : call' = [call EXCEPT ![t].tmp = m]) /\ UNCHANGED wild
        BY <1>3, <2>3, <3>1
      <4> QED
        BY <2>3, <3>1, <3>3, <3>4, <4>1, <4>2, MovesOn, Zenon
    <3>6. call'[t].tmp = size
      BY <3>1, CallTyped DEF MapTypeOK, Locals
    <3>7. \E c \in Buckets : \E m \in 0 .. Len(chain[c]) :
            /\ IF call[t].at = NULL THEN c = Bucket(t) /\ m = 0
               ELSE m # 0 /\ chain[c][m] = call[t].at
            /\ m < Len(chain[c])
            /\ chain' = [chain EXCEPT ![c] = RemoveAt(@, m + 1)]
      BY <2>2, <3>1, <3>2, Zenon
    <3> QED
      BY <1>1, <1>3, <3>1, <3>5, <3>6, <3>7
  <2>5. CASE ~ (n + 1 <= Len(chain[b]))
    <3>1. Result(t, 0) /\ UNCHANGED <<chain, writer>>
      BY <1>3, <2>1, <2>5
    <3>2. chain' \in [Buckets -> Seq(Memory)] /\ writer' \in [Segments -> SUBSET Threads]
      BY <3>1 DEF MapTypeOK
    <3>3. MapTypeOK' /\ SameCall(t) /\ pc'[t] = "idle" /\ call'[t].result = 0 /\ stored' = stored
      <4>1. /\ MapTypeOK' /\ SameCall(t) /\ pc'[t] = "idle" /\ call'[t].result = 0
            /\ stored' = IF call[t].op \in {"put", "putIfAbsent"} THEN stored \cup {call[t].key}
                         ELSE stored
        BY <2>3, <3>1, <3>2, ResultTyped, Zenon
      <4> QED
        BY <1>1, <4>1
    <3>4. n = Len(chain[b])
      BY <2>2, <2>5
    <3>5. \E c \in Buckets : \E m \in 0 .. Len(chain[c]) :
            /\ IF call[t].at = NULL THEN c = Bucket(t) /\ m = 0
               ELSE m # 0 /\ chain[c][m] = call[t].at
            /\ m = Len(chain[c])
      BY <2>2, <3>4, Zenon
    <3> QED
      BY <1>1, <1>3, <3>1, <3>3, <3>5
  <2> QED
    BY <2>4, <2>5
<1> QED
  BY <1>2, <1>3

-----------------------------------------------------------------------------
(* The lists, the locks and the size.                                      *)

\* A step of t that takes no lock and releases none.
LEMMA LockKept ==
  ASSUME MapTypeOK, LockInv, NEW t \in Threads, pc[t] \notin Resizing, pc'[t] \notin Resizing,
         \A u \in Threads : u # t => pc'[u] = pc[u] /\ call'[u] = call[u],
         writer' = writer
  PROVE  LockInv'
<1>1. \A u \in Threads : u # t => pc'[u] = pc[u] /\ Segment(u)' = Segment(u)
  BY DEF Segment, Bucket
<1>2. \A u \in Threads : pc'[u] \in Resizing => writer'[Segment(u)'] = {u}
  BY <1>1 DEF LockInv
<1>3. \A s \in Segments : \A u \in writer'[s] : pc'[u] \in Resizing /\ Segment(u)' = s
  <2>1. \A s \in Segments : writer[s] \subseteq Threads
    BY DEF MapTypeOK
  <2> QED
    BY <1>1, <2>1 DEF LockInv
<1> QED
  BY <1>2, <1>3 DEF LockInv

\* A step of t that takes the lock of its segment.
LEMMA LockTaken ==
  ASSUME MapTypeOK, LockInv, NEW t \in Threads, SameCall(t), pc[t] \notin Resizing,
         pc'[t] \in Resizing, Unlocked(t), writer' = [writer EXCEPT ![Segment(t)] = {t}]
  PROVE  LockInv'
<1>1. \A u \in Threads : (u # t => pc'[u] = pc[u]) /\ Segment(u)' = Segment(u)
  BY DEF Segment, Bucket, SameCall
<1>2. /\ writer'[Segment(t)] = {t} /\ writer[Segment(t)] = {}
      /\ \A s \in Segments : s # Segment(t) => writer'[s] = writer[s]
  BY CallTyped DEF MapTypeOK, Unlocked
<1>3. ASSUME NEW u \in Threads, pc'[u] \in Resizing PROVE writer'[Segment(u)] = {u}
  <2>1. CASE u = t
    BY <1>2, <2>1
  <2>2. CASE u # t
    <3>1. writer[Segment(u)] = {u} /\ Segment(u) \in Segments
      BY <1>1, <1>3, <2>2, CallTyped DEF LockInv
    <3> QED
      BY <1>2, <3>1
  <2> QED
    BY <2>1, <2>2
<1>4. ASSUME NEW s \in Segments, NEW u \in writer'[s] PROVE pc'[u] \in Resizing /\ Segment(u) = s
  <2>1. CASE s = Segment(t)
    BY <1>2, <2>1
  <2>2. CASE s # Segment(t)
    <3>1. u \in writer[s] /\ u \in Threads
      BY <1>2, <2>2 DEF MapTypeOK
    <3>2. pc[u] \in Resizing /\ Segment(u) = s
      BY <3>1 DEF LockInv
    <3> QED
      BY <1>1, <3>1, <3>2
  <2> QED
    BY <2>1, <2>2
<1> QED
  BY <1>1, <1>3, <1>4 DEF LockInv, MapTypeOK

\* The step of t that releases it.
LEMMA LockReleased ==
  ASSUME MapTypeOK, LockInv, NEW t \in Threads, SameCall(t), pc[t] \in Resizing,
         pc'[t] \notin Resizing, writer' = [writer EXCEPT ![Segment(t)] = {}]
  PROVE  LockInv'
<1>1. \A u \in Threads : (u # t => pc'[u] = pc[u]) /\ Segment(u)' = Segment(u)
  BY DEF Segment, Bucket, SameCall
<1>2. /\ writer'[Segment(t)] = {} /\ writer[Segment(t)] = {t}
      /\ \A s \in Segments : s # Segment(t) => writer'[s] = writer[s]
  BY CallTyped DEF MapTypeOK, LockInv
<1>3. ASSUME NEW u \in Threads, pc'[u] \in Resizing PROVE writer'[Segment(u)] = {u}
  <2>1. u # t /\ writer[Segment(u)] = {u} /\ Segment(u) \in Segments
    BY <1>1, <1>3, CallTyped DEF LockInv
  <2>2. Segment(u) # Segment(t)
    BY <1>2, <2>1
  <2> QED
    BY <1>2, <2>1, <2>2
<1>4. ASSUME NEW s \in Segments, NEW u \in writer'[s] PROVE pc'[u] \in Resizing /\ Segment(u) = s
  <2>1. s # Segment(t) /\ u \in writer[s] /\ u \in Threads
    BY <1>2 DEF MapTypeOK
  <2>2. pc[u] \in Resizing /\ Segment(u) = s
    BY <2>1 DEF LockInv
  <2>3. u # t
    BY <2>1, <2>2
  <2> QED
    BY <1>1, <2>1, <2>2, <2>3
<1> QED
  BY <1>1, <1>3, <1>4 DEF LockInv, MapTypeOK

\* With one segment, whoever gets the lock is the only one that may write size.
LEMMA OneWriter ==
  ASSUME MapTypeOK, LockInv, OneSegment, NEW t \in Threads, pc[t] # "idle"
  PROVE  /\ Unlocked(t) => \A u \in Threads : pc[u] \notin Resizing
         /\ pc[t] \in Resizing => \A u \in Threads : pc[u] \in Resizing => u = t
<1>1. \A u \in Threads : pc[u] \in Resizing => writer[Segment(u)] = {u} /\ pc[u] # "idle"
  BY DEF LockInv, Resizing
<1>2. \A u \in Threads : pc[u] # "idle" => Segment(u) = Segment(t)
  BY CallTyped DEF OneSegment, Segment, Bucket
<1> QED
  BY <1>1, <1>2 DEF Unlocked

\* A step that changes neither the lists nor size.
LEMMA SizeKept ==
  ASSUME MapTypeOK, SizeInv, NEW t \in Threads, pc[t] \notin Resizing, pc'[t] \notin Resizing,
         \A u \in Threads : u # t => pc'[u] = pc[u] /\ call'[u] = call[u],
         OneSegment' => OneSegment, chain' = chain, size' = size
  PROVE  SizeInv'
<1>1. Linked' = Linked
  BY DEF Linked
<1>2. \A u \in Threads : u # t => Resized(u)' = Resized(u)
  BY DEF Resized
<1> QED
  BY <1>1, <1>2 DEF SizeInv

\* The lists stay as they are, and the keys of their entries.
LEMMA ListsKept ==
  ASSUME MapTypeOK, ListsInv, chain' = chain, \A e \in Memory : entry'[e].key = entry[e].key
  PROVE  ListsInv'
<1>1. \A b \in Buckets : \A n \in DOMAIN chain[b] : chain[b][n] \in Memory
  BY Lists
<1>2. \A b \in Buckets : \A n \in DOMAIN chain[b] : entry'[chain[b][n]].key = entry[chain[b][n]].key
  BY <1>1
<1> QED
  BY <1>2 DEF ListsInv

\* A link: the new entry is in its bucket, and its lock and size are right.
LEMMA LinkKeepsMapInv ==
  ASSUME MapInv, NEW t \in Threads, Link(t)
  PROVE  MapInv'
<1> USE DEF MapInv
<1>1. /\ MapTypeOK' /\ SameCall(t) /\ pc[t] = "link" /\ pc'[t] = "size++"
      /\ Unlocked(t) /\ writer' = [writer EXCEPT ![Segment(t)] = {t}]
      /\ call'[t].tmp = size
  BY LinkStep
<1>2. PICK e \in Memory \ Linked :
              /\ entry'[e].key = call[t].key /\ entry'[e].value = call[t].value
              /\ \A f \in Memory : f # e => entry'[f] = entry[f]
              /\ chain' = [chain EXCEPT ![Bucket(t)] = Append(@, e)]
  BY LinkStep
<1>3. PICK b \in Buckets : b = Bucket(t) /\ b = hash(call[t].key)
  BY CallTyped DEF Bucket
<1>4. /\ Linked' = Linked \cup {e}
      /\ \A c \in Buckets : c # b => chain'[c] = chain[c]
      /\ DOMAIN chain'[b] = 1 .. Len(chain[b]) + 1
      /\ chain'[b][Len(chain[b]) + 1] = e
      /\ \A n \in 1 .. Len(chain[b]) : chain'[b][n] = chain[b][n]
  <2>1. chain' = [chain EXCEPT ![b] = Append(@, e)]
    BY <1>2, <1>3, Zenon
  <2> QED
    BY <2>1, Linking, Zenon
<1>5. \A c \in Buckets : /\ DOMAIN chain[c] = 1 .. Len(chain[c]) /\ Len(chain[c]) \in Nat
                         /\ \A n \in DOMAIN chain[c] :
                              /\ chain[c][n] \in Memory /\ chain[c][n] # e
                              /\ hash(entry[chain[c][n]].key) = c
                              /\ \A m \in DOMAIN chain[c] : chain[c][m] = chain[c][n] => m = n
  <2>1. \A c \in Buckets : \A n \in DOMAIN chain[c] : chain[c][n] \in Linked
    BY Lists DEF In
  <2> QED
    BY <1>2, <2>1, Lists DEF ListsInv
<1>6. ListsInv'
  <2>1. ASSUME NEW c \in Buckets, NEW n \in DOMAIN chain'[c]
        PROVE  /\ hash(entry'[chain'[c][n]].key) = c
               /\ \A m \in DOMAIN chain'[c] : chain'[c][m] = chain'[c][n] => m = n
    <3>1. CASE c # b
      BY <1>2, <1>4, <1>5, <3>1
    <3>2. CASE c = b
      <4>1. \A m \in DOMAIN chain'[b] : m \in DOMAIN chain[b] \/ m = Len(chain[b]) + 1
        BY <1>4, <1>5
      <4>2. \A m \in DOMAIN chain[b] :
              chain'[b][m] = chain[b][m] /\ chain[b][m] # e /\ entry'[chain[b][m]] = entry[chain[b][m]]
        BY <1>2, <1>4, <1>5
      <4> DEFINE last == Len(chain[b]) + 1
      <4>3. chain'[b][last] = e /\ entry'[e].key = call[t].key /\ last \notin DOMAIN chain[b]
        BY <1>2, <1>4, <1>5
      <4> HIDE DEF last
      <4>4. hash(entry'[chain'[b][n]].key) = b
        <5>1. CASE n \in DOMAIN chain[b]
          BY <1>5, <4>2, <5>1
        <5>2. CASE n = last
          BY <1>3, <4>3, <5>2
        <5> QED
          BY <3>2, <4>1, <5>1, <5>2 DEF last
      <4>5. ASSUME NEW m \in DOMAIN chain'[b], chain'[b][m] = chain'[b][n] PROVE m = n
        <5>1. (m = last <=> chain'[b][m] = e) /\ (n = last <=> chain'[b][n] = e)
          BY <3>2, <4>1, <4>2, <4>3 DEF last
        <5>2. CASE m = last
          BY <4>5, <5>1, <5>2
        <5>3. CASE m # last
          <6>1. m \in DOMAIN chain[b] /\ n \in DOMAIN chain[b]
            BY <3>2, <4>1, <4>5, <5>1, <5>3 DEF last
          <6> QED
            BY <1>5, <4>2, <4>5, <6>1
        <5> QED
          BY <5>2, <5>3
      <4> QED
        BY <3>2, <4>4, <4>5
    <3> QED
      BY <3>1, <3>2
  <2> QED
    BY <2>1 DEF ListsInv
<1>7. LockInv'
  BY <1>1, LockTaken DEF Resizing
<1>8. SizeInv'
  <2>1. SUFFICES ASSUME OneSegment
                 PROVE  /\ pc'[t] \in Resizing /\ Resized(t)' = Cardinality(Linked')
                        /\ \A u \in Threads : pc'[u] \in Resizing => u = t
    <3>1. OneSegment' <=> OneSegment
      BY <1>1 DEF OneSegment, SameCall
    <3> QED
      BY <2>1, <3>1 DEF SizeInv
  <2>2. \A u \in Threads : pc[u] \notin Resizing
    BY <1>1, <2>1, OneWriter
  <2>3. size = Cardinality(Linked)
    BY <2>1, <2>2 DEF SizeInv
  <2>4. Cardinality(Linked') = Cardinality(Linked) + 1
    <3>1. IsFiniteSet(Linked)
      BY Lists, FS_Subset, HashmapAssumption
    <3> QED
      BY <1>2, <1>4, <3>1, FS_AddElement
  <2>5. Resized(t)' = call'[t].tmp + 1
    BY <1>1 DEF Resized
  <2> QED
    BY <1>1, <2>2, <2>3, <2>4, <2>5 DEF Resizing, SameCall
<1> QED
  BY <1>1, <1>6, <1>7, <1>8

\* A remove: the same with one entry less.
LEMMA UnlinkKeepsMapInv ==
  ASSUME MapInv, NEW t \in Threads, Unlink(t)
  PROVE  MapInv'
<1> USE DEF MapInv
<1>1. MapTypeOK' /\ pc[t] = "unlink" /\ Unlocked(t) /\ UNCHANGED <<entry, size>>
  BY UnlinkStep
<1>2. CASE UseAfterFree
  <2>1. UNCHANGED <<chain, entry, size, writer, pc, call, asked>>
    BY <1>2, UseAfterFreeTyped
  <2>2. ListsInv'
    BY <2>1, ListsKept
  <2>3. LockInv' /\ SizeInv'
    <3>1. pc[t] \notin Resizing /\ pc'[t] \notin Resizing /\ (OneSegment' => OneSegment)
      BY <1>1, <2>1 DEF Resizing, OneSegment
    <3>2. \A u \in Threads : u # t => pc'[u] = pc[u] /\ call'[u] = call[u]
      BY <2>1
    <3> QED
      BY <2>1, <3>1, <3>2, LockKept, SizeKept
  <2> QED
    BY <1>1, <2>2, <2>3
<1>3. CASE SameCall(t) /\ UNCHANGED <<chain, writer, wild>> /\ pc'[t] = "idle"
  <2>1. ListsInv'
    BY <1>1, <1>3, ListsKept
  <2>2. LockInv' /\ SizeInv'
    <3>1. pc[t] \notin Resizing /\ pc'[t] \notin Resizing /\ (OneSegment' => OneSegment)
      BY <1>1, <1>3 DEF Resizing, OneSegment, SameCall
    <3> QED
      BY <1>1, <1>3, <3>1, LockKept, SizeKept DEF SameCall
  <2> QED
    BY <1>1, <2>1, <2>2
<1>4. CASE /\ SameCall(t) /\ pc'[t] = "size--" /\ call'[t].tmp = size
           /\ writer' = [writer EXCEPT ![Segment(t)] = {t}]
           /\ \E b \in Buckets : \E n \in 0 .. Len(chain[b]) :
                /\ n < Len(chain[b])
                /\ chain' = [chain EXCEPT ![b] = RemoveAt(@, n + 1)]
  <2>1. PICK b \in Buckets, n \in Nat : /\ n \in 1 .. Len(chain[b])
                                        /\ chain' = [chain EXCEPT ![b] = RemoveAt(@, n)]
    <3>1. PICK b \in Buckets : \E n \in 0 .. Len(chain[b]) :
                /\ n < Len(chain[b])
                /\ chain' = [chain EXCEPT ![b] = RemoveAt(@, n + 1)]
      BY <1>4
    <3>2. PICK n \in 0 .. Len(chain[b]) :
                /\ n < Len(chain[b])
                /\ chain' = [chain EXCEPT ![b] = RemoveAt(@, n + 1)]
      BY <3>1
    <3>3. n + 1 \in Nat /\ n + 1 \in 1 .. Len(chain[b])
      BY <3>2, Lists
    <3> QED
      BY <3>2, <3>3
  <2>2. /\ chain[b][n] \in Linked /\ Linked' = Linked \ {chain[b][n]}
        /\ \A c \in Buckets : c # b => chain'[c] = chain[c]
        /\ DOMAIN chain'[b] = 1 .. Len(chain[b]) - 1
        /\ \A i \in 1 .. Len(chain[b]) - 1 :
              chain'[b][i] = IF i < n THEN chain[b][i] ELSE chain[b][i + 1]
    BY <2>1, Unlinking
  <2>3. DOMAIN chain[b] = 1 .. Len(chain[b]) /\ Len(chain[b]) \in Nat
    BY Lists
  <2>4. ListsInv'
    <3>1. ASSUME NEW c \in Buckets, NEW i \in DOMAIN chain'[c]
          PROVE  /\ hash(entry'[chain'[c][i]].key) = c
                 /\ \A m \in DOMAIN chain'[c] : chain'[c][m] = chain'[c][i] => m = i
      <4>1. CASE c # b
        BY <1>1, <2>2, <4>1 DEF ListsInv
      <4>2. CASE c = b
        <5> DEFINE at(j) == IF j < n THEN j ELSE j + 1
        <5>1. \A j \in DOMAIN chain'[b] : at(j) \in DOMAIN chain[b] /\ chain'[b][j] = chain[b][at(j)]
          BY <2>1, <2>2, <2>3
        <5>2. \A j, m \in DOMAIN chain'[b] : at(j) = at(m) => j = m
          BY <2>1, <2>2, <2>3
        <5> HIDE DEF at
        <5> QED
          BY <1>1, <4>2, <5>1, <5>2 DEF ListsInv
      <4> QED
        BY <4>1, <4>2
    <3> QED
      BY <3>1 DEF ListsInv
  <2>5. LockInv'
    BY <1>1, <1>4, LockTaken DEF Resizing
  <2>6. SizeInv'
    <3>1. SUFFICES ASSUME OneSegment
                   PROVE  /\ pc'[t] \in Resizing /\ Resized(t)' = Cardinality(Linked')
                          /\ \A u \in Threads : pc'[u] \in Resizing => u = t
      <4>1. OneSegment' <=> OneSegment
        BY <1>4 DEF OneSegment, SameCall
      <4> QED
        BY <3>1, <4>1 DEF SizeInv
    <3>2. \A u \in Threads : pc[u] \notin Resizing
      BY <1>1, <3>1, OneWriter
    <3>3. size = Cardinality(Linked)
      BY <3>1, <3>2 DEF SizeInv
    <3>4. Cardinality(Linked') = Cardinality(Linked) - 1
      <4>1. IsFiniteSet(Linked)
        BY Lists, FS_Subset, HashmapAssumption
      <4> QED
        BY <2>2, <4>1, FS_RemoveElement
    <3>5. Resized(t)' = call'[t].tmp - 1
      BY <1>4 DEF Resized
    <3> QED
      BY <1>4, <3>2, <3>3, <3>4, <3>5 DEF Resizing, SameCall
  <2> QED
    BY <1>1, <2>4, <2>5, <2>6
<1> QED
  BY <1>2, <1>3, <1>4, UnlinkStep

\* The size that is written is the number of entries, and fits.
LEMMA WriteSizeKeepsMapInv ==
  ASSUME MapInv, NEW t \in Threads, WriteSize(t)
  PROVE  MapInv'
<1> USE DEF MapInv
<1>1. /\ MapTypeOK' /\ SameCall(t) /\ pc[t] \in Resizing /\ pc'[t] = "idle"
      /\ size' = Resized(t) % (SIZE_MAX + 1)
      /\ writer' = [writer EXCEPT ![Segment(t)] = {}]
      /\ UNCHANGED <<chain, entry>>
  BY WriteSizeStep
<1>2. ListsInv'
  BY <1>1, ListsKept
<1>3. LockInv'
  BY <1>1, LockReleased DEF Resizing
<1>4. SizeInv'
  <2>1. SUFFICES ASSUME OneSegment
                 PROVE  /\ size' = Cardinality(Linked')
                        /\ \A u \in Threads : pc'[u] \notin Resizing
    <3>1. OneSegment' <=> OneSegment
      BY <1>1 DEF OneSegment, SameCall
    <3> QED
      BY <2>1, <3>1 DEF SizeInv
  <2>2. \A u \in Threads : pc[u] \in Resizing => u = t
    BY <1>1, <2>1, OneWriter DEF Resizing
  <2>3. Resized(t) = Cardinality(Linked)
    BY <1>1, <2>1 DEF SizeInv
  <2>4. Cardinality(Linked) \in Nat /\ Cardinality(Linked) <= SIZE_MAX
    <3>1. /\ IsFiniteSet(Linked) /\ Cardinality(Linked) <= Cardinality(Memory)
          /\ Cardinality(Memory) \in Nat
      BY Lists, FS_Subset, FS_CardinalityType, HashmapAssumption
    <3> QED
      BY <3>1, FS_CardinalityType, HashmapAssumption
  <2>5. \A n, m \in Nat : n <= m => n % (m + 1) = n
    OBVIOUS
  <2>6. Linked' = Linked
    BY <1>1 DEF Linked
  <2> QED
    BY <1>1, <2>2, <2>3, <2>4, <2>5, <2>6, HashmapAssumption DEF Resizing, SameCall
<1> QED
  BY <1>1, <1>2, <1>3, <1>4

\* The steps that leave the lists and the locks alone.
LEMMA OtherStepsKeepMapInv ==
  ASSUME MapInv, NEW t \in Threads,
         \/ \E op \in Ops, k \in Keys : Call(t, op, k)
         \/ getentry(t) \/ get(t) \/ put(t) \/ FindPrevious(t)
  PROVE  MapInv'
<1> USE DEF MapInv
<1>1. /\ MapTypeOK' /\ UNCHANGED <<chain, size, writer>>
      /\ \A e \in Memory : entry'[e].key = entry[e].key
      /\ \A u \in Threads : u # t => pc'[u] = pc[u] /\ call'[u] = call[u]
      /\ pc[t] \notin Resizing /\ pc'[t] \notin Resizing
      /\ OneSegment' => OneSegment
  <2>1. CASE \E op \in Ops, k \in Keys : Call(t, op, k)
    <3>1. PICK op \in Ops, k \in Keys : Call(t, op, k)
      BY <2>1
    <3>2. asked \subseteq asked'
      BY <3>1 DEF Call
    <3> QED
      BY <3>1, <3>2, CallBegins DEF Resizing, OneSegment
  <2>2. CASE getentry(t)
    <3>1. /\ MapTypeOK' /\ SameCall(t) /\ pc[t] = "look"
          /\ UNCHANGED <<chain, entry, size, writer, wild>>
          /\ pc'[t] \in {"idle", "link", "read", "set"}
      BY <2>2, GetEntryStep DEF Looked
    <3> QED
      BY <3>1 DEF Resizing, OneSegment, SameCall
  <2>3. CASE get(t)
    <3>1. /\ MapTypeOK' /\ pc[t] = "read" /\ UNCHANGED <<chain, entry, size, writer>>
          /\ \/ UNCHANGED <<pc, call, asked>>
             \/ SameCall(t) /\ pc'[t] = "idle"
      BY <2>3, GetStep, UseAfterFreeTyped
    <3> QED
      BY <3>1 DEF Resizing, OneSegment, SameCall
  <2>4. CASE put(t)
    <3>1. /\ MapTypeOK' /\ pc[t] = "set" /\ UNCHANGED <<chain, size, writer>>
          /\ \A e \in Memory : entry'[e].key = entry[e].key
          /\ \/ UNCHANGED <<pc, call, asked>>
             \/ SameCall(t) /\ pc'[t] = "idle"
      BY <2>4, PutStep, UseAfterFreeTyped
    <3> QED
      BY <3>1 DEF Resizing, OneSegment, SameCall
  <2>5. CASE FindPrevious(t)
    <3>1. /\ MapTypeOK' /\ SameCall(t) /\ pc[t] = "find" /\ pc'[t] = "unlink"
          /\ UNCHANGED <<chain, entry, size, writer, wild>>
      BY <2>5, FindPreviousStep
    <3> QED
      BY <3>1 DEF Resizing, OneSegment, SameCall
  <2> QED
    BY <2>1, <2>2, <2>3, <2>4, <2>5
<1>2. ListsInv'
  BY <1>1, ListsKept
<1>3. LockInv' /\ SizeInv'
  BY <1>1, LockKept, SizeKept
<1> QED
  BY <1>1, <1>2, <1>3

\* At the start the lists are empty.
LEMMA MapInvInit == Init => MapInv
<1> SUFFICES ASSUME Init PROVE MapInv
  OBVIOUS
<1> USE DEF Init
<1>1. MapTypeOK
  <2>1. chain \in [Buckets -> Seq(Memory)]
    BY EmptySeq
  <2>2. entry \in [Memory -> [key : Nat, value : Nat]] /\ writer \in [Segments -> SUBSET Threads]
    OBVIOUS
  <2>3. pc \in [Threads -> Steps] /\ call \in [Threads -> Locals]
    BY NoCallTyped DEF Steps
  <2>4. \A t \in Threads : pc[t] = "idle"
    OBVIOUS
  <2>5. spec \in [Keys -> Int] /\ given \in [Keys -> SUBSET Nat]
    BY DEF Missing
  <2>6. size \in Int /\ calls \in Nat /\ stored \in SUBSET Keys /\ asked \in SUBSET Keys
    OBVIOUS
  <2>7. IsFiniteSet(asked)
    BY FS_EmptySet
  <2>8. wild \in BOOLEAN /\ overlap \in BOOLEAN /\ removed \in BOOLEAN
    BY Zenon
  <2>9. \A t \in Threads : OpOf(pc[t], call[t].op)
    BY <2>4 DEF OpOf
  <2> HIDE DEF Init
  <2> QED
    BY <2>1, <2>2, <2>3, <2>4, <2>5, <2>6, <2>7, <2>8, <2>9 DEF MapTypeOK
<1>2. \A b \in Buckets : DOMAIN chain[b] = {}
  OBVIOUS
<1>3. ListsInv
  BY <1>2 DEF ListsInv
<1>4. \A t \in Threads : pc[t] \notin Resizing
  BY DEF Resizing
<1>5. LockInv
  BY <1>4 DEF LockInv
<1>6. Linked = {}
  BY <1>1, <1>2, Lists DEF In
<1>7. SizeInv
  BY <1>4, <1>6, FS_EmptySet DEF SizeInv
<1> QED
  BY <1>1, <1>3, <1>5, <1>7 DEF MapInv

LEMMA MapInvNext == MapInv /\ [Next]_vars => MapInv'
<1> SUFFICES ASSUME MapInv, [Next]_vars PROVE MapInv'
  OBVIOUS
<1>1. CASE Next
  <2>1. PICK t \in Threads :
          \/ \E op \in Ops, k \in Keys : Call(t, op, k)
          \/ getentry(t) \/ get(t) \/ put(t) \/ Link(t) \/ WriteSize(t)
          \/ FindPrevious(t) \/ Unlink(t)
    BY <1>1 DEF Next
  <2> QED
    BY <2>1, LinkKeepsMapInv, UnlinkKeepsMapInv, WriteSizeKeepsMapInv, OtherStepsKeepMapInv
<1>2. CASE UNCHANGED vars
  <2> USE <1>2 DEF vars, MapInv
  <2>1. MapTypeOK'
    BY DEF MapTypeOK
  <2>2. ListsInv'
    BY DEF ListsInv
  <2>3. LockInv'
    <3>1. \A t \in Threads : Segment(t)' = Segment(t)
      BY DEF Segment, Bucket
    <3>2. \A s \in Segments : writer[s] \subseteq Threads
      BY DEF MapTypeOK
    <3>3. \A t \in Threads : pc'[t] \in Resizing => writer'[Segment(t)'] = {t}
      BY <3>1 DEF LockInv
    <3>4. \A s \in Segments : \A t \in writer'[s] : pc'[t] \in Resizing /\ Segment(t)' = s
      BY <3>1, <3>2 DEF LockInv
    <3> QED
      BY <3>3, <3>4 DEF LockInv
  <2>4. SizeInv'
    <3>1. /\ \A t \in Threads : Resized(t)' = Resized(t)
          /\ Linked' = Linked /\ (OneSegment' <=> OneSegment)
      BY DEF Resized, Linked, OneSegment
    <3> QED
      BY <3>1 DEF SizeInv
  <2> QED
    BY <2>1, <2>2, <2>3, <2>4
<1> QED
  BY <1>1, <1>2

\* In every reachable state of the map: the types, lists without an entry
\* twice and in the bucket of the key, locks held by those who resize, and,
\* with one segment, the size.
THEOREM MapInvariant == Spec => []MapInv
<1>1. Init => MapInv
  BY MapInvInit
<1>2. MapInv /\ [Next]_vars => MapInv'
  BY MapInvNext
<1> QED
  BY <1>1, <1>2, PTL DEF Spec

\* Keys that have one segment between them are what OneSegment says.
LEMMA SegmentsCounted ==
  ASSUME MapTypeOK, Cardinality({Seg(hash(k)) : k \in asked}) <= 1
  PROVE  OneSegment
<1> DEFINE segs == {Seg(hash(k)) : k \in asked}
           f == [k \in asked |-> Seg(hash(k))]
<1>1. IsFiniteSet(asked)
  BY DEF MapTypeOK
<1>2. f \in Surjection(asked, segs)
  <2>1. f \in [asked -> segs]
    OBVIOUS
  <2>2. \A s \in segs : \E k \in asked : f[k] = s
    OBVIOUS
  <2> QED
    BY <2>1, <2>2, Fun_IsSurj
<1>3. IsFiniteSet(segs) /\ Cardinality(segs) \in Nat
  BY <1>1, <1>2, FS_Surjection, FS_CardinalityType
<1>4. ASSUME NEW s \in segs, NEW u \in segs PROVE s = u
  <2>1. CASE Cardinality(segs) = 0
    BY <1>3, <2>1, FS_EmptySet
  <2>2. CASE Cardinality(segs) = 1
    BY <1>3, <2>2, FS_Singleton
  <2> QED
    BY <1>3, <2>1, <2>2
<1>5. \A k \in asked : Seg(hash(k)) \in segs
  OBVIOUS
<1> HIDE DEF segs
<1> QED
  BY <1>4, <1>5 DEF OneSegment

\* What the runs check of the lists follows.
LEMMA MapInvSound == MapInv => ListsSound
<1> SUFFICES ASSUME MapInv PROVE ListsSound
  OBVIOUS
<1> USE DEF MapInv
<1>1. ASSUME NEW b \in Buckets
      PROVE  IsInjective(chain[b]) /\ \A e \in ToSet(chain[b]) : hash(entry[e].key) = b
  BY DEF ListsInv, IsInjective, ToSet
<1>2. ASSUME NEW b \in Buckets, NEW c \in Buckets, b # c
      PROVE  ToSet(chain[b]) \cap ToSet(chain[c]) = {}
  BY <1>1, <1>2
<1>3. ASSUME Cardinality({Seg(hash(k)) : k \in asked}) <= 1, NoWriter
      PROVE  size = Cardinality(Linked)
  <2>1. OneSegment
    BY <1>3, SegmentsCounted
  <2>2. \A t \in Threads : pc[t] \notin Resizing
    BY <1>3, CallTyped DEF LockInv, NoWriter
  <2> QED
    BY <2>1, <2>2 DEF SizeInv
<1> QED
  BY <1>1, <1>2, <1>3 DEF ListsSound

\* Whatever calls overlap, the lists have no entry twice and each entry in
\* the bucket of its key, and with keys of one segment the size is that of
\* the lists: hashmap_put(), hashmap_putIfAbsent() and hashmap_remove().
THEOREM MapListsSound == Spec => []ListsSound
  BY MapInvariant, MapInvSound, PTL

-----------------------------------------------------------------------------
(* Calls that put and get.                                                 *)

\* A call that is not of t keeps what it has found.
LEMMA PutOthers ==
  ASSUME MapTypeOK, NEW u \in Threads, PutCall(u), pc'[u] = pc[u], call'[u] = call[u],
         stored \subseteq stored', \A k \in Keys : given[k] \subseteq given'[k],
         \A e \in Linked : e \in Linked' /\ entry'[e].key = entry[e].key
  PROVE  PutCall(u)'
<1>1. call[u].key \in Nat /\ (pc[u] # "idle" \/ call[u].sure => call[u].key \in Keys)
  BY CallTyped DEF PutCall, MapTypeOK
<1>2. Present(call[u].key) => Present(call[u].key)'
  BY DEF Present
<1> QED
  BY <1>1, <1>2 DEF PutCall

\* A step that leaves the lists and their entries alone.
LEMMA PutListsKept ==
  ASSUME MapTypeOK, PutLists, UNCHANGED <<chain, entry>>,
         \A k \in Keys : given[k] \subseteq given'[k],
         \A k \in stored' : Present(k)
  PROVE  PutLists'
<1>1. Linked' = Linked
  BY DEF Linked
<1>2. \A k : Present(k)' <=> Present(k)
  BY <1>1 DEF Present
<1> QED
  BY <1>1, <1>2 DEF PutLists

\* A call begins.
LEMMA CallKeepsPut ==
  ASSUME MapInv, PutLists, \A u \in Threads : PutCall(u),
         NEW t \in Threads, NEW op \in Ops, NEW k \in Keys, Call(t, op, k), ~removed'
  PROVE  PutLists' /\ \A u \in Threads : PutCall(u)'
<1> USE DEF MapInv
<1>1. /\ pc'[t] = IF op = "remove" THEN "find" ELSE "look"
      /\ call'[t].op = op /\ call'[t].key = k /\ call'[t].value = calls + 1
      /\ call'[t].sure = (k \in stored)
      /\ \A u \in Threads : u # t => pc'[u] = pc[u] /\ call'[u] = call[u]
      /\ UNCHANGED <<chain, entry, stored>>
  BY CallBegins
<1>2. given' = [given EXCEPT ![k] = @ \cup {calls + 1}] /\ op # "remove"
  BY DEF Call
<1>3. calls + 1 \in given'[k] /\ \A l \in Keys : given[l] \subseteq given'[l]
  BY <1>2 DEF MapTypeOK
<1>4. Linked' = Linked
  BY <1>1 DEF Linked
<1>5. PutLists'
  BY <1>1, <1>3, PutListsKept DEF PutLists
<1>6. PutCall(t)'
  BY <1>1, <1>2, <1>3 DEF PutCall
<1>7. \A u \in Threads : u # t => PutCall(u)'
  BY <1>1, <1>3, <1>4, PutOthers
<1> QED
  BY <1>5, <1>6, <1>7

\* A lookup: what is stored is found.
LEMMA GetEntryKeepsPut ==
  ASSUME MapInv, PutLists, \A u \in Threads : PutCall(u), NEW t \in Threads, getentry(t)
  PROVE  PutLists' /\ \A u \in Threads : PutCall(u)'
<1> USE DEF MapInv
<1>1. /\ SameCall(t) /\ pc[t] = "look" /\ UNCHANGED <<chain, entry>> /\ Looked(t)
      /\ call[t].key \in Keys /\ call[t].op \in Ops \ {"remove"}
  BY GetEntryStep, CallTyped DEF PutCall, Locals
<1>2. given' = given /\ \A u \in Threads : u # t => pc'[u] = pc[u] /\ call'[u] = call[u]
  BY <1>1 DEF SameCall
<1>3. Linked' = Linked
  BY <1>1 DEF Linked
<1>4. stored \subseteq stored' /\ \A k \in stored' : Present(k)
  BY <1>1 DEF PutLists, Looked
<1>5. PutLists'
  BY <1>1, <1>2, <1>4, PutListsKept
<1>6. PutCall(t)'
  <2>1. call[t].sure => call[t].key \in stored /\ Present(call[t].key)
    BY DEF PutCall, PutLists
  <2>2. call[t].value \in given[call[t].key]
    BY <1>1 DEF PutCall
  <2>3. /\ call'[t].op = call[t].op /\ call'[t].key = call[t].key /\ call'[t].value = call[t].value
        /\ call'[t].sure = call[t].sure
    BY <1>1 DEF SameCall
  <2>4. CASE pc'[t] = "idle"
    <3>1. /\ \/ call[t].op = "containsKey"
                /\ call'[t].result = (IF Present(call[t].key) THEN 1 ELSE 0)
             \/ call[t].op = "get" /\ ~Present(call[t].key)
             \/ call[t].op = "putIfAbsent" /\ call'[t].result = 0
      BY <1>1, <2>4 DEF Looked
    <3>2. call[t].sure => call[t].op # "get" /\
                          call'[t].result = IF call[t].op = "containsKey" THEN 1 ELSE 0
      BY <2>1, <3>1
    <3> QED
      BY <1>1, <1>4, <2>1, <2>3, <2>4, <3>2 DEF PutCall
  <2>5. CASE pc'[t] = "link"
    <3>1. ~call[t].sure
      BY <1>1, <2>1, <2>5 DEF Looked
    <3> QED
      BY <1>1, <1>2, <2>2, <2>3, <2>5, <3>1 DEF PutCall
  <2>6. CASE pc'[t] \in {"read", "set"}
    <3>1. call'[t].at \in Linked /\ entry[call'[t].at].key = call[t].key
      BY <1>1, <2>6 DEF Looked
    <3> QED
      BY <1>1, <1>2, <1>3, <1>4, <2>1, <2>2, <2>3, <2>6, <3>1 DEF PutCall
  <2> QED
    BY <1>1, <2>4, <2>5, <2>6 DEF Looked
<1>7. \A u \in Threads : u # t => PutCall(u)'
  BY <1>1, <1>2, <1>3, <1>4, PutOthers
<1> QED
  BY <1>5, <1>6, <1>7

\* A get returns a value that some call has given its key.
LEMMA GetKeepsPut ==
  ASSUME MapInv, PutLists, \A u \in Threads : PutCall(u), NEW t \in Threads, get(t)
  PROVE  PutLists' /\ \A u \in Threads : PutCall(u)'
<1> USE DEF MapInv
<1>1. pc[t] = "read" /\ call[t].at \in Linked /\ entry[call[t].at].key = call[t].key
  BY GetStep DEF PutCall
<1>2. /\ SameCall(t) /\ UNCHANGED <<chain, entry, stored>> /\ call[t].op = "get"
      /\ pc'[t] = "idle" /\ call'[t].result = entry[call[t].at].value
  BY <1>1, GetStep
<1>3. given' = given /\ \A u \in Threads : u # t => pc'[u] = pc[u] /\ call'[u] = call[u]
  BY <1>2 DEF SameCall
<1>4. Linked' = Linked
  BY <1>2 DEF Linked
<1>5. PutLists'
  BY <1>2, <1>3, PutListsKept DEF PutLists
<1>6. PutCall(t)'
  <2>1. entry[call[t].at].value \in given[call[t].key]
    BY <1>1 DEF PutLists
  <2>2. call'[t].op = "get" /\ call'[t].key = call[t].key /\ call'[t].sure = call[t].sure
    BY <1>2 DEF SameCall
  <2>3. call[t].sure => call[t].key \in stored
    BY DEF PutCall
  <2> QED
    BY <1>2, <1>3, <2>1, <2>2, <2>3 DEF PutCall
<1>7. \A u \in Threads : u # t => PutCall(u)'
  BY <1>2, <1>3, <1>4, PutOthers
<1> QED
  BY <1>5, <1>6, <1>7

\* A put of a key that was there: it still is, with the new value.
LEMMA PutKeepsPut ==
  ASSUME MapInv, PutLists, \A u \in Threads : PutCall(u), NEW t \in Threads, put(t)
  PROVE  PutLists' /\ \A u \in Threads : PutCall(u)'
<1> USE DEF MapInv
<1>1. /\ pc[t] = "set" /\ call[t].at \in Linked /\ entry[call[t].at].key = call[t].key
      /\ call[t].key \in Keys /\ call[t].value \in given[call[t].key]
  BY PutStep, CallTyped DEF PutCall
<1>2. /\ SameCall(t) /\ UNCHANGED chain /\ call[t].op = "put" /\ stored' = stored \cup {call[t].key}
      /\ pc'[t] = "idle" /\ call'[t].result = 0
      /\ entry'[call[t].at].value = call[t].value
      /\ \A e \in Memory : /\ entry'[e].key = entry[e].key
                           /\ e # call[t].at => entry'[e] = entry[e]
  BY <1>1, PutStep
<1>3. given' = given /\ \A u \in Threads : u # t => pc'[u] = pc[u] /\ call'[u] = call[u]
  BY <1>2 DEF SameCall
<1>4. Linked' = Linked /\ \A e \in Linked : entry'[e].key = entry[e].key
  BY <1>2, Lists DEF Linked
<1>5. PutLists'
  <2>1. ASSUME NEW e \in Linked
        PROVE  entry'[e].key \in Keys /\ entry'[e].value \in given'[entry'[e].key]
    <3>1. entry'[e].key = entry[e].key /\ entry[e].key \in Keys
      BY <1>4 DEF PutLists
    <3>2. CASE e = call[t].at
      BY <1>1, <1>2, <1>3, <3>1, <3>2
    <3>3. CASE e # call[t].at
      <4>1. entry'[e] = entry[e]
        BY <1>2, <3>3, Lists
      <4> QED
        BY <1>3, <4>1 DEF PutLists
    <3> QED
      BY <3>2, <3>3
  <2>2. \A k \in stored' : Present(k)
    BY <1>1, <1>2 DEF PutLists, Present
  <2>3. \A k \in stored' : Present(k)'
    BY <1>4, <2>2 DEF Present
  <2> QED
    BY <1>4, <2>1, <2>3 DEF PutLists
<1>6. PutCall(t)'
  <2>1. call'[t].op = "put" /\ call'[t].key = call[t].key
    BY <1>2 DEF SameCall
  <2> QED
    BY <1>2, <2>1 DEF PutCall
<1>7. \A u \in Threads : u # t => PutCall(u)'
  BY <1>2, <1>3, <1>4, PutOthers
<1> QED
  BY <1>5, <1>6, <1>7

\* A put of a key that was not there: now it is.
LEMMA LinkKeepsPut ==
  ASSUME MapInv, PutLists, \A u \in Threads : PutCall(u), NEW t \in Threads, Link(t)
  PROVE  PutLists' /\ \A u \in Threads : PutCall(u)'
<1> USE DEF MapInv
<1>1. /\ SameCall(t) /\ pc[t] = "link" /\ pc'[t] = "size++" /\ stored' = stored
      /\ call[t].op # "remove"
      /\ call[t].key \in Keys /\ call[t].value \in given[call[t].key] /\ ~call[t].sure
  BY LinkStep, CallTyped DEF PutCall
<1>2. PICK e \in Memory \ Linked :
              /\ entry'[e].key = call[t].key /\ entry'[e].value = call[t].value
              /\ \A f \in Memory : f # e => entry'[f] = entry[f]
              /\ chain' = [chain EXCEPT ![Bucket(t)] = Append(@, e)]
  BY LinkStep
<1>3. given' = given /\ \A u \in Threads : u # t => pc'[u] = pc[u] /\ call'[u] = call[u]
  BY <1>1 DEF SameCall
<1>4. Linked' = Linked \cup {e} /\ \A f \in Linked : entry'[f] = entry[f]
  BY <1>2, CallTyped, Lists, Linking
<1>5. PutLists'
  <2>1. \A f \in Linked' : entry'[f].key \in Keys /\ entry'[f].value \in given'[entry'[f].key]
    BY <1>1, <1>2, <1>3, <1>4 DEF PutLists
  <2>2. \A k \in stored' : Present(k)'
    BY <1>1, <1>4 DEF PutLists, Present
  <2> QED
    BY <2>1, <2>2 DEF PutLists
<1>6. PutCall(t)'
  <2>1. Present(call[t].key)'
    BY <1>1, <1>2, <1>4 DEF Present, SameCall
  <2>2. /\ call'[t].op = call[t].op /\ call'[t].key = call[t].key /\ call'[t].value = call[t].value
        /\ call'[t].sure = call[t].sure
    BY <1>1 DEF SameCall
  <2> QED
    BY <1>1, <1>3, <2>1, <2>2 DEF PutCall
<1>7. \A u \in Threads : u # t => PutCall(u)'
  BY <1>1, <1>3, <1>4, PutOthers
<1> QED
  BY <1>5, <1>6, <1>7

\* It returns.
LEMMA WriteSizeKeepsPut ==
  ASSUME MapInv, PutLists, \A u \in Threads : PutCall(u), NEW t \in Threads, WriteSize(t)
  PROVE  PutLists' /\ \A u \in Threads : PutCall(u)'
<1> USE DEF MapInv
<1>1. pc[t] = "size++" /\ Present(call[t].key)
  <2>1. pc[t] \in Resizing /\ call[t].op # "remove"
    BY WriteSizeStep DEF PutCall
  <2>2. pc[t] = "size++"
    BY <2>1 DEF Resizing, MapTypeOK, OpOf
  <2> QED
    BY <2>2 DEF PutCall
<1>2. /\ SameCall(t) /\ UNCHANGED <<chain, entry>> /\ stored' = stored \cup {call[t].key}
      /\ pc'[t] = "idle"
  BY <1>1, WriteSizeStep
<1>3. given' = given /\ \A u \in Threads : u # t => pc'[u] = pc[u] /\ call'[u] = call[u]
  BY <1>2 DEF SameCall
<1>4. Linked' = Linked
  BY <1>2 DEF Linked
<1>5. PutLists'
  <2>1. \A k \in stored' : Present(k)
    BY <1>1, <1>2 DEF PutLists
  <2> QED
    BY <1>2, <1>3, <2>1, PutListsKept
<1>6. PutCall(t)'
  <2>1. call'[t].op = call[t].op /\ call'[t].sure = call[t].sure
    BY <1>2 DEF SameCall
  <2>2. ~call[t].sure /\ call[t].op # "remove"
    BY <1>1 DEF PutCall
  <2> QED
    BY <1>2, <2>1, <2>2 DEF PutCall
<1>7. \A u \in Threads : u # t => PutCall(u)'
  BY <1>2, <1>3, <1>4, PutOthers
<1> QED
  BY <1>5, <1>6, <1>7

LEMMA PutInvNext == MapInv /\ PutInv /\ [Next]_vars => PutInv'
<1> SUFFICES ASSUME MapInv, PutInv, [Next]_vars, ~removed'
             PROVE  PutLists' /\ \A u \in Threads : PutCall(u)'
  BY DEF PutInv
<1>1. CASE Next
  <2>1. PICK t \in Threads :
          \/ \E op \in Ops, k \in Keys : Call(t, op, k)
          \/ getentry(t) \/ get(t) \/ put(t) \/ Link(t) \/ WriteSize(t)
          \/ FindPrevious(t) \/ Unlink(t)
    BY <1>1 DEF Next
  <2>2. ~removed
    <3>1. MapTypeOK /\ ListsInv
      BY DEF MapInv
    <3>2. CASE \E op \in Ops, k \in Keys : Call(t, op, k)
      BY <3>2 DEF Call
    <3>3. CASE getentry(t) \/ Link(t) \/ WriteSize(t) \/ FindPrevious(t)
      BY <3>1, <3>3, GetEntryStep, LinkStep, WriteSizeStep, FindPreviousStep DEF SameCall
    <3>4. CASE get(t) \/ put(t) \/ Unlink(t)
      BY <3>1, <3>4, GetStep, PutStep, UnlinkStep, UseAfterFreeTyped DEF SameCall
    <3> QED
      BY <2>1, <3>2, <3>3, <3>4
  <2>3. PutLists /\ \A u \in Threads : PutCall(u)
    BY <2>2 DEF PutInv
  <2>4. CASE \E op \in Ops, k \in Keys : Call(t, op, k)
    BY <2>3, <2>4, CallKeepsPut
  <2>5. CASE getentry(t) \/ get(t) \/ put(t) \/ Link(t) \/ WriteSize(t)
    BY <2>3, <2>5, GetEntryKeepsPut, GetKeepsPut, PutKeepsPut, LinkKeepsPut, WriteSizeKeepsPut
  <2>6. CASE FindPrevious(t) \/ Unlink(t)
    <3>1. call[t].op = "remove"
      BY <2>6, FindPreviousStep, UnlinkStep DEF MapInv
    <3> QED
      BY <2>3, <3>1 DEF PutCall
  <2> QED
    BY <2>1, <2>4, <2>5, <2>6
<1>2. CASE UNCHANGED vars
  <2>1. PutLists /\ \A u \in Threads : PutCall(u)
    BY <1>2 DEF PutInv, vars
  <2>2. PutLists'
    BY <1>2, <2>1, PutListsKept DEF MapInv, PutLists, vars
  <2>3. \A e \in Linked : e \in Linked' /\ entry'[e].key = entry[e].key
    BY <1>2 DEF Linked, vars
  <2>4. /\ stored \subseteq stored' /\ \A k \in Keys : given[k] \subseteq given'[k]
        /\ \A u \in Threads : pc'[u] = pc[u] /\ call'[u] = call[u]
    BY <1>2 DEF vars
  <2>5. \A u \in Threads : PutCall(u)'
    BY <2>1, <2>3, <2>4, PutOthers DEF MapInv
  <2> QED
    BY <2>2, <2>5
<1> QED
  BY <1>1, <1>2

\* Without a remove, what was put is in the lists with a value it was given,
\* and what a call has found stays where it is.
THEOREM PutInvariant == Spec => []PutInv
<1>1. Init => PutInv
  <2> SUFFICES ASSUME Init PROVE PutLists /\ \A u \in Threads : PutCall(u)
    BY DEF PutInv
  <2>1. Linked = {} /\ stored = {}
    <3>1. MapTypeOK /\ \A b \in Buckets : DOMAIN chain[b] = {}
      BY MapInvInit DEF MapInv, Init
    <3> QED
      BY <3>1, Lists DEF In, Init
  <2>2. \A u \in Threads : pc[u] = "idle" /\ call[u].op = "get" /\ call[u].sure = FALSE
    BY DEF Init, NoCall
  <2> QED
    BY <2>1, <2>2 DEF PutLists, PutCall
<1>2. MapInv /\ PutInv /\ [Next]_vars => PutInv'
  BY PutInvNext
<1> QED
  BY <1>1, <1>2, MapInvariant, PTL DEF Spec

\* A key whose put has returned is found by every later get, containsKey,
\* put and putIfAbsent, however the calls overlap, as long as there is no
\* remove: hashmap_getentry() and what its callers do with the entry.
THEOREM MapPutIsFound == Spec => []PutIsFound
<1>1. PutInv => PutIsFound
  BY DEF PutInv, PutCall, PutIsFound
<1> QED
  BY <1>1, PutInvariant, PTL

-----------------------------------------------------------------------------
(* A call that is alone.                                                   *)

\* What the lists map a key to.
LEMMA MapsToOne ==
  ASSUME MapTypeOK, NEW k, NEW v, MapsTo(k, v)
  PROVE  /\ v = Missing <=> ~Present(k)
         /\ v \in {Missing} \cup {entry[e].value : e \in Linked}
         /\ OneEntry => \A e \in Linked : entry[e].key = k => entry[e].value = v
<1>1. \A e \in Linked : entry[e].value \in Nat
  BY Lists DEF MapTypeOK
<1>2. \A e \in Linked : entry[e].value # Missing
  BY <1>1 DEF Missing
<1> QED
  BY <1>2 DEF MapsTo, Present, OneEntry

\* A step of the only call.
LEMMA LoneStep ==
  ASSUME MapTypeOK, Lone, NEW t \in Threads, pc[t] # "idle", SameCall(t), ~wild', OneEntry',
         IF pc'[t] = "idle" THEN /\ call'[t].result = call[t].want
                                 /\ \A k \in Keys : MapsTo(k, spec[k])'
         ELSE LoneLocals(t)' /\ \A l \in Keys \ {call[t].key} : MapsTo(l, spec[l])'
  PROVE  Lone'
<1>1. \A u \in Threads : u # t => pc[u] = "idle" /\ pc'[u] = "idle" /\ call'[u] = call[u]
  BY DEF Lone, SameCall
<1>2. call'[t].want = call[t].want /\ call'[t].key = call[t].key
  BY DEF SameCall
<1>3. \A u \in Threads : u # t => call'[u].result = call'[u].want
  BY <1>1 DEF Lone
<1>4. CASE pc'[t] = "idle"
  BY <1>1, <1>2, <1>3, <1>4 DEF Lone
<1>5. CASE pc'[t] # "idle"
  <2>1. LoneCall(t)'
    BY <1>2, <1>5 DEF LoneCall
  <2> QED
    BY <1>1, <1>3, <1>5, <2>1 DEF Lone
<1> QED
  BY <1>4, <1>5

\* The lists and the entries stay as they are, and the map as it should be.
LEMMA MapsToKept ==
  ASSUME UNCHANGED <<chain, entry>>
  PROVE  /\ Linked' = Linked /\ (OneEntry => OneEntry')
         /\ \A k : Present(k)' <=> Present(k)
         /\ \A k, v : MapsTo(k, v)' <=> MapsTo(k, v)
<1>1. Linked' = Linked
  BY DEF Linked
<1> QED
  BY <1>1 DEF Present, MapsTo, OneEntry

\* A call begins alone.
LEMMA CallKeepsLone ==
  ASSUME MapInv, Lone, NEW t \in Threads, NEW op \in Ops, NEW k \in Keys, Call(t, op, k), ~overlap'
  PROVE  Lone'
<1> USE DEF MapInv
<1>1. /\ pc'[t] = IF op = "remove" THEN "find" ELSE "look"
      /\ call'[t].op = op /\ call'[t].key = k /\ call'[t].value = calls + 1
      /\ call'[t].want = Wanted(op, k)
      /\ \A u \in Threads : u # t => pc'[u] = pc[u] /\ call'[u] = call[u]
      /\ UNCHANGED <<chain, entry, wild>>
  BY CallBegins
<1>2. \A u \in Threads : pc[u] = "idle"
  BY DEF Call
<1>3. \A l \in Keys : MapsTo(l, spec[l])
  BY <1>2 DEF Lone
<1>4. /\ spec'[k] = Stores(op, spec[k], calls + 1)
      /\ \A l \in Keys \ {k} : spec'[l] = spec[l]
  BY DEF Call, Alone, Stores, MapTypeOK
<1>5. Wanted(op, k) = Returns(op, spec[k])
  BY DEF Wanted, Returns
<1>6. LoneCall(t)'
  <2>1. LoneLocals(t)'
    <3>1. PICK old : old = spec[k]
      OBVIOUS
    <3>2. old \in {Missing} \cup {entry[e].value : e \in Linked} /\ MapsTo(k, old)
      BY <1>3, <3>1, MapsToOne
    <3>3. old \in {Missing} \cup {entry'[e].value : e \in Linked'} /\ MapsTo(k, old)'
      BY <1>1, <3>2, MapsToKept
    <3>4. call'[t].want = Returns(op, old) /\ spec'[k] = Stores(op, old, calls + 1)
      BY <1>1, <1>4, <1>5, <3>1
    <3> QED
      BY <1>1, <3>3, <3>4 DEF LoneLocals, Resizing
  <2>2. \A l \in Keys \ {k} : MapsTo(l, spec[l])'
    BY <1>1, <1>3, <1>4, MapsToKept
  <2> QED
    BY <1>1, <2>1, <2>2 DEF LoneCall
<1>7. OneEntry'
  BY <1>1, MapsToKept DEF Lone
<1> QED
  BY <1>1, <1>2, <1>6, <1>7 DEF Lone

\* The only call looks its key up.
LEMMA GetEntryKeepsLone ==
  ASSUME MapInv, Lone, NEW t \in Threads, getentry(t)
  PROVE  Lone'
<1> USE DEF MapInv
<1>1. /\ SameCall(t) /\ pc[t] = "look" /\ UNCHANGED <<chain, entry, wild>> /\ Looked(t)
      /\ MapTypeOK' /\ call[t].key \in Keys /\ call[t].op \in Ops \ {"remove"}
  BY GetEntryStep, CallTyped DEF MapTypeOK, OpOf, Locals
<1>2. PICK k : k = call[t].key
  OBVIOUS
<1>3. PICK old : /\ MapsTo(k, old) /\ call[t].want = Returns(call[t].op, old)
                 /\ spec[k] = Stores(call[t].op, old, call[t].value)
  BY <1>1, <1>2 DEF Lone, LoneCall, LoneLocals
<1>4. /\ old = Missing <=> ~Present(k)
      /\ \A e \in Linked : entry[e].key = k => entry[e].value = old
  BY <1>3, MapsToOne DEF Lone
<1>5. \A l \in Keys \ {k} : MapsTo(l, spec[l])
  BY <1>1, <1>2 DEF Lone, LoneCall
<1>6. /\ spec' = spec /\ call'[t].op = call[t].op /\ call'[t].key = k
      /\ call'[t].value = call[t].value /\ call'[t].want = call[t].want
  BY <1>1, <1>2 DEF SameCall
<1>7. ~wild' /\ OneEntry'
  BY <1>1, MapsToKept DEF Lone
<1>8. CASE pc'[t] = "idle"
  <2>1. call'[t].result = call[t].want /\ spec[k] = old
    BY <1>1, <1>2, <1>3, <1>4, <1>8 DEF Looked, Returns, Stores
  <2>2. \A l \in Keys : MapsTo(l, spec[l])
    BY <1>3, <1>5, <2>1
  <2>3. \A l \in Keys : MapsTo(l, spec[l])'
    BY <1>1, <1>6, <2>2, MapsToKept
  <2> QED
    BY <1>1, <1>7, <1>8, <2>1, <2>3, LoneStep
<1>9. CASE pc'[t] \in {"link", "read", "set"}
  <2>1. /\ pc'[t] = "link" => call[t].op \in {"put", "putIfAbsent"}
        /\ pc'[t] = "read" => call[t].op = "get"
        /\ pc'[t] = "set" => call[t].op = "put"
    BY <1>1, <1>6 DEF MapTypeOK, OpOf
  <2>2. LoneLocals(t)'
    <3>1. CASE pc'[t] = "link"
      <4>1. ~Present(k) /\ call[t].want = 1 /\ spec[k] = call[t].value
        BY <1>1, <1>2, <1>3, <1>4, <2>1, <3>1 DEF Looked, Returns, Stores
      <4>2. ~Present(k)'
        BY <1>1, <4>1, MapsToKept
      <4> QED
        BY <1>6, <3>1, <4>1, <4>2 DEF LoneLocals, Resizing
    <3>2. CASE pc'[t] \in {"read", "set"}
      <4>1. call'[t].at \in Linked /\ entry[call'[t].at].key = k
        BY <1>1, <1>2, <3>2 DEF Looked
      <4>2. entry[call'[t].at].value = old /\ old # Missing
        BY <1>4, <4>1 DEF Present
      <4>3. call'[t].at \in Linked' /\ entry' = entry
        BY <1>1, <4>1, MapsToKept
      <4>4. CASE pc'[t] = "read"
        <5>1. call[t].want = old /\ spec[k] = old
          BY <1>3, <2>1, <4>4 DEF Returns, Stores
        <5>2. MapsTo(k, spec[k])'
          BY <1>1, <1>3, <1>6, <5>1, MapsToKept
        <5> QED
          BY <1>6, <4>2, <4>3, <4>4, <5>1, <5>2 DEF LoneLocals, Resizing
      <4>5. CASE pc'[t] = "set"
        <5>1. call[t].want = 0 /\ spec[k] = call[t].value
          BY <1>3, <2>1, <4>2, <4>5 DEF Returns, Stores
        <5> QED
          BY <1>6, <4>1, <4>3, <4>5, <5>1 DEF LoneLocals, Resizing
      <4> QED
        BY <3>2, <4>4, <4>5
    <3> QED
      BY <1>9, <3>1, <3>2
  <2>3. \A l \in Keys \ {k} : MapsTo(l, spec[l])'
    BY <1>1, <1>5, <1>6, MapsToKept
  <2> QED
    BY <1>1, <1>2, <1>7, <1>9, <2>2, <2>3, LoneStep
<1> QED
  BY <1>1, <1>8, <1>9 DEF Looked

\* The only call finds its entry where it was.
LEMMA GetKeepsLone ==
  ASSUME MapInv, Lone, NEW t \in Threads, get(t)
  PROVE  Lone'
<1> USE DEF MapInv
<1>1. pc[t] = "read" /\ UNCHANGED <<chain, entry>>
  BY GetStep
<1>2. /\ call[t].at \in Linked /\ entry[call[t].at].value = call[t].want
      /\ \A k \in Keys : MapsTo(k, spec[k])
  BY <1>1 DEF Lone, LoneCall, LoneLocals
<1>3. /\ SameCall(t) /\ UNCHANGED wild
      /\ pc'[t] = "idle" /\ call'[t].result = entry[call[t].at].value
  BY <1>2, GetStep
<1>4. (\A k \in Keys : MapsTo(k, spec[k])') /\ OneEntry'
  BY <1>1, <1>2, <1>3, MapsToKept DEF SameCall, Lone
<1> QED
  BY <1>1, <1>2, <1>3, <1>4, LoneStep DEF Lone

LEMMA PutKeepsLone ==
  ASSUME MapInv, Lone, NEW t \in Threads, put(t)
  PROVE  Lone'
<1> USE DEF MapInv
<1>1. pc[t] = "set" /\ UNCHANGED chain
  BY PutStep
<1>2. PICK k, at : k = call[t].key /\ at = call[t].at
  OBVIOUS
<1>3. /\ at \in Linked /\ entry[at].key = k /\ call[t].want = 0 /\ spec[k] = call[t].value
      /\ \A l \in Keys \ {k} : MapsTo(l, spec[l])
  BY <1>1, <1>2 DEF Lone, LoneCall, LoneLocals
<1>4. /\ SameCall(t) /\ UNCHANGED wild /\ pc'[t] = "idle" /\ call'[t].result = 0
      /\ entry'[at].value = call[t].value
      /\ \A e \in Memory : /\ entry'[e].key = entry[e].key
                           /\ e # at => entry'[e] = entry[e]
  BY <1>2, <1>3, PutStep
<1>5. /\ Linked' = Linked
      /\ \A e \in Linked : entry'[e].key = entry[e].key /\ (e # at => entry'[e] = entry[e])
  BY <1>1, <1>4, Lists DEF Linked
<1>6. OneEntry' /\ spec' = spec
  BY <1>4, <1>5 DEF Lone, OneEntry, SameCall
<1>7. ASSUME NEW l \in Keys PROVE MapsTo(l, spec[l])'
  <2>1. CASE l = k
    BY <1>3, <1>4, <1>5, <1>6, <2>1 DEF MapsTo
  <2>2. CASE l # k
    BY <1>3, <1>5, <1>6, <2>2 DEF MapsTo, Present
  <2> QED
    BY <2>1, <2>2
<1> QED
  BY <1>1, <1>3, <1>4, <1>6, <1>7, LoneStep DEF Lone

LEMMA LinkKeepsLone ==
  ASSUME MapInv, Lone, NEW t \in Threads, Link(t)
  PROVE  Lone'
<1> USE DEF MapInv
<1>1. SameCall(t) /\ pc[t] = "link" /\ pc'[t] = "size++" /\ UNCHANGED wild
  BY LinkStep
<1>2. PICK k : k = call[t].key
  OBVIOUS
<1>3. /\ ~Present(k) /\ call[t].want = 1 /\ spec[k] = call[t].value
      /\ \A l \in Keys \ {k} : MapsTo(l, spec[l])
  BY <1>1, <1>2 DEF Lone, LoneCall, LoneLocals
<1>4. PICK e \in Memory \ Linked :
              /\ entry'[e].key = call[t].key /\ entry'[e].value = call[t].value
              /\ \A f \in Memory : f # e => entry'[f] = entry[f]
              /\ chain' = [chain EXCEPT ![Bucket(t)] = Append(@, e)]
  BY LinkStep
<1>5. Linked' = Linked \cup {e} /\ \A f \in Linked : entry'[f] = entry[f]
  BY <1>4, CallTyped, Lists, Linking
<1>6. OneEntry'
  BY <1>2, <1>3, <1>4, <1>5 DEF Lone, OneEntry, Present
<1>7. spec' = spec /\ call'[t].want = call[t].want /\ call'[t].key = k
  BY <1>1, <1>2 DEF SameCall
<1>8. \A l \in Keys \ {k} : MapsTo(l, spec[l])'
  BY <1>2, <1>3, <1>4, <1>5, <1>7 DEF MapsTo, Present
<1>9. MapsTo(k, spec[k])'
  BY <1>2, <1>3, <1>4, <1>5, <1>7 DEF MapsTo
<1>10. LoneLocals(t)'
  BY <1>1, <1>3, <1>7, <1>9 DEF LoneLocals
<1> QED
  BY <1>1, <1>2, <1>6, <1>8, <1>10, LoneStep DEF Lone

LEMMA WriteSizeKeepsLone ==
  ASSUME MapInv, Lone, NEW t \in Threads, WriteSize(t)
  PROVE  Lone'
<1> USE DEF MapInv
<1>1. /\ SameCall(t) /\ pc[t] \in Resizing /\ pc'[t] = "idle" /\ call'[t].result = 1
      /\ UNCHANGED <<chain, entry, wild>>
  BY WriteSizeStep
<1>2. call[t].want = 1 /\ \A k \in Keys : MapsTo(k, spec[k])
  BY <1>1 DEF Lone, LoneCall, LoneLocals, Resizing
<1>3. (\A k \in Keys : MapsTo(k, spec[k])') /\ OneEntry'
  BY <1>1, <1>2, MapsToKept DEF SameCall, Lone
<1> QED
  BY <1>1, <1>2, <1>3, LoneStep DEF Lone, Resizing

LEMMA FindPreviousKeepsLone ==
  ASSUME MapInv, Lone, NEW t \in Threads, FindPrevious(t)
  PROVE  Lone'
<1> USE DEF MapInv
<1>1. /\ SameCall(t) /\ pc[t] = "find" /\ pc'[t] = "unlink" /\ call[t].op = "remove"
      /\ UNCHANGED <<chain, entry, wild>>
  BY FindPreviousStep
<1>2. PICK k : k = call[t].key
  OBVIOUS
<1>3. PICK n \in 0 .. Len(chain[hash(k)]) :
              /\ call'[t].at = IF n = 0 THEN NULL ELSE chain[hash(k)][n]
              /\ IF Present(k)
                 THEN n < Len(chain[hash(k)]) /\ entry[chain[hash(k)][n + 1]].key = k
                 ELSE n = Len(chain[hash(k)])
  BY <1>2, FindPreviousStep DEF Bucket
<1>4. PICK old : /\ MapsTo(k, old) /\ call[t].want = Returns("remove", old)
                 /\ spec[k] = Stores("remove", old, call[t].value)
  BY <1>1, <1>2 DEF Lone, LoneCall, LoneLocals
<1>5. call[t].want = (IF Present(k) THEN 1 ELSE 0) /\ spec[k] = Missing
  BY <1>4, MapsToOne DEF Returns, Stores
<1>6. /\ spec' = spec /\ call'[t].want = call[t].want /\ call'[t].key = k
      /\ Present(k)' <=> Present(k)
  BY <1>1, <1>2, MapsToKept DEF SameCall
<1>7. LoneLocals(t)'
  <2>1. /\ n < Len(chain'[hash(k)]) <=> n < Len(chain[hash(k)])
        /\ n \in 0 .. Len(chain'[hash(k)]) /\ chain' = chain /\ entry' = entry
    BY <1>1
  <2> QED
    BY <1>1, <1>3, <1>5, <1>6, <2>1 DEF LoneLocals, Resizing
<1>8. \A l \in Keys \ {k} : MapsTo(l, spec[l])'
  BY <1>1, <1>2, <1>6, MapsToKept DEF Lone, LoneCall
<1>9. ~wild' /\ OneEntry'
  BY <1>1, MapsToKept DEF Lone
<1> QED
  BY <1>1, <1>2, <1>7, <1>8, <1>9, LoneStep

\* What follows the entry that the only call has found is still the one with
\* its key.
LEMMA UnlinkKeepsLone ==
  ASSUME MapInv, Lone, NEW t \in Threads, Unlink(t)
  PROVE  Lone'
<1> USE DEF MapInv
<1>1. pc[t] = "unlink" /\ UNCHANGED entry
  BY UnlinkStep
<1>2. PICK k \in Nat, b \in Buckets : k = call[t].key /\ b = hash(k) /\ b = Bucket(t)
  BY CallTyped DEF Bucket
<1>3. /\ spec[k] = Missing
      /\ \A l \in Keys \ {k} : MapsTo(l, spec[l])
  BY <1>1, <1>2 DEF Lone, LoneCall, LoneLocals
<1>4. PICK n \in 0 .. Len(chain[b]) :
                /\ call[t].at = IF n = 0 THEN NULL ELSE chain[b][n]
                /\ IF Present(k) THEN n < Len(chain[b]) /\ entry[chain[b][n + 1]].key = k /\ call[t].want = 1
                   ELSE n = Len(chain[b]) /\ call[t].want = 0
  <2>1. LoneLocals(t)
    BY <1>1 DEF Lone, LoneCall
  <2>2. \E n \in 0 .. Len(chain[hash(call[t].key)]) :
                /\ call[t].at = IF n = 0 THEN NULL ELSE chain[hash(call[t].key)][n]
                /\ IF Present(call[t].key)
                   THEN /\ n < Len(chain[hash(call[t].key)])
                        /\ entry[chain[hash(call[t].key)][n + 1]].key = call[t].key
                        /\ call[t].want = 1
                   ELSE n = Len(chain[hash(call[t].key)]) /\ call[t].want = 0
    BY <1>1, <2>1, Zenon DEF LoneLocals
  <2> QED
    BY <1>2, <2>2
<1>5. /\ \A c \in Buckets : DOMAIN chain[c] = 1 .. Len(chain[c]) /\ Len(chain[c]) \in Nat
      /\ \A c \in Buckets : \A m \in 1 .. Len(chain[c]) : chain[c][m] \in Linked
      /\ NULL \notin Linked
  BY Lists, HashmapAssumption DEF In
<1>6. /\ n # 0 => call[t].at \in Linked
      /\ n = 0 <=> call[t].at = NULL
  BY <1>4, <1>5
\* The entry is in no other place.
<1>7. ASSUME NEW c \in Buckets, NEW m \in 0 .. Len(chain[c]),
             IF call[t].at = NULL THEN c = Bucket(t) /\ m = 0 ELSE m # 0 /\ chain[c][m] = call[t].at
      PROVE  c = b /\ m = n
  <2>1. CASE n = 0
    BY <1>2, <1>6, <1>7, <2>1
  <2>2. CASE n # 0
    <3>1. /\ m # 0 /\ chain[c][m] = chain[b][n]
          /\ n \in DOMAIN chain[b] /\ m \in DOMAIN chain[c]
      BY <1>4, <1>5, <1>6, <1>7, <2>2
    <3>2. c = b
      BY <3>1 DEF ListsInv
    <3> QED
      BY <3>1, <3>2 DEF ListsInv
  <2> QED
    BY <2>1, <2>2
<1>8. CASE call[t].at \notin Linked /\ call[t].at # NULL
  BY <1>6, <1>8
<1>9. CASE /\ SameCall(t) /\ UNCHANGED <<chain, wild>> /\ pc'[t] = "idle"
           /\ call'[t].result = 0
           /\ \E c \in Buckets : \E m \in 0 .. Len(chain[c]) :
                /\ IF call[t].at = NULL THEN c = Bucket(t) /\ m = 0
                   ELSE m # 0 /\ chain[c][m] = call[t].at
                /\ m = Len(chain[c])
  <2>1. n = Len(chain[b])
    BY <1>7, <1>9
  <2>2. ~Present(k) /\ call[t].want = 0
    BY <1>4, <1>5, <2>1
  <2>3. \A l \in Keys : MapsTo(l, spec[l])
    BY <1>3, <2>2 DEF MapsTo
  <2>4. (\A l \in Keys : MapsTo(l, spec[l])') /\ OneEntry' /\ ~wild'
    BY <1>1, <1>9, <2>3, MapsToKept DEF SameCall, Lone
  <2> QED
    BY <1>1, <1>9, <2>2, <2>4, LoneStep
<1>10. CASE /\ SameCall(t) /\ UNCHANGED wild /\ pc'[t] = "size--"
            /\ \E c \in Buckets : \E m \in 0 .. Len(chain[c]) :
                 /\ IF call[t].at = NULL THEN c = Bucket(t) /\ m = 0
                    ELSE m # 0 /\ chain[c][m] = call[t].at
                 /\ m < Len(chain[c])
                 /\ chain' = [chain EXCEPT ![c] = RemoveAt(@, m + 1)]
  <2>1. n < Len(chain[b]) /\ chain' = [chain EXCEPT ![b] = RemoveAt(@, n + 1)]
    BY <1>7, <1>10
  <2>2. /\ Present(k) /\ entry[chain[b][n + 1]].key = k /\ call[t].want = 1
        /\ n + 1 \in 1 .. Len(chain[b])
    BY <1>4, <1>5, <2>1
  <2>3. PICK e \in Linked : e = chain[b][n + 1]
    BY <1>5, <2>2
  <2>4. Linked' = Linked \ {e}
    BY <2>1, <2>2, <2>3, Unlinking
  <2>5. entry[e].key = k /\ \A f \in Linked' : entry[f].key # k
    BY <2>2, <2>3, <2>4 DEF Lone, OneEntry
  <2>6. spec' = spec /\ call'[t].want = call[t].want /\ call'[t].key = k
    BY <1>2, <1>10 DEF SameCall
  <2>7. \A l \in Keys \ {k} : MapsTo(l, spec[l])'
    BY <1>1, <1>3, <2>4, <2>5, <2>6 DEF MapsTo, Present
  <2>8. MapsTo(k, spec[k])'
    BY <1>1, <1>3, <2>5, <2>6 DEF MapsTo, Present
  <2>9. LoneLocals(t)'
    BY <1>10, <2>2, <2>6, <2>8 DEF LoneLocals, Resizing
  <2>10. OneEntry' /\ ~wild'
    BY <1>1, <1>10, <2>4 DEF Lone, OneEntry
  <2> QED
    BY <1>1, <1>2, <1>10, <2>7, <2>9, <2>10, LoneStep
<1> QED
  BY <1>8, <1>9, <1>10, UnlinkStep

LEMMA LoneInvNext == MapInv /\ LoneInv /\ [Next]_vars => LoneInv'
<1> SUFFICES ASSUME MapInv, LoneInv, [Next]_vars, ~overlap' PROVE Lone'
  BY DEF LoneInv
<1>1. CASE Next
  <2>1. PICK t \in Threads :
          \/ \E op \in Ops, k \in Keys : Call(t, op, k)
          \/ getentry(t) \/ get(t) \/ put(t) \/ Link(t) \/ WriteSize(t)
          \/ FindPrevious(t) \/ Unlink(t)
    BY <1>1 DEF Next
  <2>2. ~overlap
    <3>1. MapTypeOK /\ ListsInv
      BY DEF MapInv
    <3>2. CASE \E op \in Ops, k \in Keys : Call(t, op, k)
      BY <3>2 DEF Call
    <3>3. CASE getentry(t) \/ Link(t) \/ WriteSize(t) \/ FindPrevious(t)
      BY <3>1, <3>3, GetEntryStep, LinkStep, WriteSizeStep, FindPreviousStep DEF SameCall
    <3>4. CASE get(t) \/ put(t) \/ Unlink(t)
      BY <3>1, <3>4, GetStep, PutStep, UnlinkStep, UseAfterFreeTyped DEF SameCall
    <3> QED
      BY <2>1, <3>2, <3>3, <3>4
  <2>3. Lone
    BY <2>2 DEF LoneInv
  <2>4. CASE \E op \in Ops, k \in Keys : Call(t, op, k)
    BY <2>3, <2>4, CallKeepsLone
  <2>5. CASE getentry(t) \/ get(t) \/ put(t) \/ Link(t) \/ WriteSize(t)
    BY <2>3, <2>5, GetEntryKeepsLone, GetKeepsLone, PutKeepsLone, LinkKeepsLone, WriteSizeKeepsLone
  <2>6. CASE FindPrevious(t) \/ Unlink(t)
    BY <2>3, <2>6, FindPreviousKeepsLone, UnlinkKeepsLone
  <2> QED
    BY <2>1, <2>4, <2>5, <2>6
<1>2. CASE UNCHANGED vars
  <2>1. Lone /\ UNCHANGED <<chain, entry, spec, pc, call, wild>>
    BY <1>2 DEF LoneInv, vars
  <2>2. OneEntry' /\ \A k \in Keys : MapsTo(k, spec[k]) => MapsTo(k, spec[k])'
    BY <2>1, MapsToKept DEF Lone
  <2>3. ASSUME NEW t \in Threads, LoneCall(t) PROVE LoneCall(t)'
    <3>1. LoneLocals(t)'
      <4>1. Linked' = Linked
        BY <2>1, MapsToKept
      <4>2. LoneLocals(t)
        BY <2>3 DEF LoneCall
      <4> QED
        BY <2>1, <4>1, <4>2 DEF LoneLocals, MapsTo, Present
    <3> QED
      BY <2>1, <2>2, <2>3, <3>1 DEF LoneCall
  <2> QED
    BY <2>1, <2>2, <2>3 DEF Lone
<1> QED
  BY <1>1, <1>2

\* As long as no call begins before the one before it has returned, the lists
\* are the map as it should be, but for what the call under way has yet to
\* do; what that call will return is right.
THEOREM LoneInvariant == Spec => []LoneInv
<1>1. Init => LoneInv
  <2> SUFFICES ASSUME Init PROVE Lone
    BY DEF LoneInv
  <2>1. Linked = {}
    <3>1. MapTypeOK /\ \A b \in Buckets : DOMAIN chain[b] = {}
      BY MapInvInit DEF MapInv, Init
    <3> QED
      BY <3>1, Lists DEF In
  <2>2. \A k \in Keys : MapsTo(k, spec[k])
    BY <2>1 DEF MapsTo, Present, Init
  <2>3. /\ \A t \in Threads : pc[t] = "idle" /\ call[t].result = call[t].want
        /\ ~wild
    BY DEF Init, NoCall
  <2> QED
    BY <2>1, <2>2, <2>3 DEF Lone, OneEntry
<1>2. MapInv /\ LoneInv /\ [Next]_vars => LoneInv'
  BY LoneInvNext
<1> QED
  BY <1>1, <1>2, MapInvariant, PTL DEF Spec

\* Calls that do not overlap return what those of a map return, and use no
\* freed memory: all six operations of the hash map.
THEOREM MapSequential == Spec => []SequentialMap
<1>1. LoneInv => SequentialMap
  BY DEF LoneInv, Lone, SequentialMap
<1> QED
  BY <1>1, LoneInvariant, PTL
=============================================================================
