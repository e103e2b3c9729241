---------------------------- MODULE ExchangeProof ----------------------------
(***************************************************************************)
(* Proofs about Exchange, for any clients, requests and answers: whose     *)
(* items are in which stream, whose request line a server gets, which      *)
(* messages are forwarded whole, and that nothing is passed on out of      *)
(* order.                                                                  *)
(***************************************************************************)
EXTENDS Exchange, SequenceTheorems, WellFoundedInduction, NaturalsInduction, TLAPS

\* The kinds of what is read and passed on.  The proxy's errors are none of
\* these; the only one a server can get is Refusal.
Spoken == ItemKinds \cup {"line", "garbage", "200", "gap"}

\* The items written by one of W.
ItemsBy(W) == Spoken \X W
Texts == ItemsBy(Clients \cup {"proxy", "server", "nobody"})
Refusal == <<"400", "proxy">>
Messages == Texts \cup {Refusal}

\* What waits for the client c in its socket is some of what it sends.
Sendable(c) == ToSet(asked[c]) \X {c}

\* The rest of an answer, the first item of which may have been cut.
Trails(rest, whole) ==
  \E n \in 0 .. Len(whole) :
    /\ Len(rest) = Len(whole) - n
    /\ \A i \in 2 .. Len(rest) : rest[i] = whole[n + i]

ClientStreams ==
  /\ asked \in [Clients -> Seq(Spoken)]
  /\ sent \in [Clients -> Nat]
  /\ DOMAIN inbox = Clients /\ \A c \in Clients : inbox[c] \in Seq(Sendable(c))
  /\ rio \in Seq(ItemsBy({fd}))

ServerStreams ==
  /\ toServer \in Seq(Messages)
  /\ answer \in Seq(Texts) /\ reply \in Seq(Texts) /\ Trails(reply, answer)

Buffers == buf \in Texts /\ line \in Texts

Positions ==
  {"wait", "request", "open", "connect", "tunnel", "header", "body", "status",
   "replyheader", "replybody", "chunk", "chunkdata", "trailer", "chunkend",
   "raw", "finish", "return", "spin", "aborted"}

\* Where EAGAIN may still be met in the body of the request.
Asking == {"wait", "request", "open", "header", "body"}

\* Where the server has got the request line.
Answering == Positions \ {"wait", "request", "open", "connect", "tunnel", "return"}

FlagsInv ==
  /\ conn \in [Clients -> {"armed", "served", "tunnel", "closed"}]
  /\ pc \in Positions
  /\ fd \in Clients /\ (pc \notin {"wait", "return"} => conn[fd] = "served")
  /\ cstatus \in [close : BOOLEAN, shut : BOOLEAN]
  /\ enc \in [Directions -> BOOLEAN] /\ trailer \in [Directions -> BOOLEAN]
  /\ isHostSet \in BOOLEAN /\ length \in {-1, 0, 2} /\ dir \in Directions
  /\ spins \in 0 .. MaxSpins + 1
  /\ pc \in Asking => spins <= MaxSpins

\* Where it has not.
Opening == {"wait", "request", "open", "connect", "tunnel"}

\* Before the request line is read rio_client holds nothing, so that it is
\* read from the client's socket.
OpeningInv ==
  /\ pc \in {"wait", "request"} => rio = <<>> /\ spins = 0
  /\ pc = "request" => inbox[fd] # <<>> \/ ended[fd]
  /\ pc \in Opening => toServer = <<>>
  /\ pc \in Answering => toServer # <<>>

ExchangeInv == FlagsInv /\ ClientStreams /\ ServerStreams /\ Buffers /\ OpeningInv

-----------------------------------------------------------------------------
(* Sequences.                                                              *)

LEMMA Listing ==
  ASSUME NEW S, NEW n \in Nat, NEW s \in [1 .. n -> S]
  PROVE  s \in Seq(S)
BY SeqDef

\* The first n items, and the others.
LEMMA FirstItems ==
  ASSUME NEW S, NEW s \in Seq(S), NEW n \in 0 .. Len(s)
  PROVE  /\ SubSeq(s, 1, n) \in Seq(S) /\ Len(SubSeq(s, 1, n)) = n
         /\ \A i \in 1 .. n : SubSeq(s, 1, n)[i] = s[i]
<1>1. Len(s) \in Nat /\ \A i \in 1 .. Len(s) : s[i] \in S
  BY LenProperties, ElementOfSeq
<1>2. \A i \in 1 .. n : s[i] \in S
  BY <1>1
<1>3. n \in Int
  BY <1>1
<1>4. /\ SubSeq(s, 1, n) \in Seq(S)
      /\ Len(SubSeq(s, 1, n)) = IF 1 <= n THEN n - 1 + 1 ELSE 0
      /\ \A i \in 1 .. n - 1 + 1 : SubSeq(s, 1, n)[i] = s[1 + i - 1]
  BY <1>2, <1>3, SubSeqProperties
<1>5. Len(SubSeq(s, 1, n)) = n
  BY <1>1, <1>4
<1>6. ASSUME NEW i \in 1 .. n PROVE SubSeq(s, 1, n)[i] = s[i]
  <2>1. i \in 1 .. n - 1 + 1 /\ 1 + i - 1 = i
    BY <1>1
  <2> QED
    BY <1>4, <2>1
<1> QED
  BY <1>4, <1>5, <1>6

LEMMA LastItems ==
  ASSUME NEW S, NEW s \in Seq(S), NEW n \in 0 .. Len(s)
  PROVE  /\ SubSeq(s, n + 1, Len(s)) \in Seq(S) /\ Len(SubSeq(s, n + 1, Len(s))) = Len(s) - n
         /\ \A i \in 1 .. Len(s) - n : SubSeq(s, n + 1, Len(s))[i] = s[n + i]
<1> DEFINE u == SubSeq(s, n + 1, Len(s))
<1>1. Len(s) \in Nat /\ \A i \in 1 .. Len(s) : s[i] \in S
  BY LenProperties, ElementOfSeq
<1>2. \A i \in n + 1 .. Len(s) : s[i] \in S
  BY <1>1
<1>3. n + 1 \in Int /\ Len(s) \in Int
  BY <1>1
<1>4. /\ u \in Seq(S)
      /\ Len(u) = IF n + 1 <= Len(s) THEN Len(s) - (n + 1) + 1 ELSE 0
      /\ \A i \in 1 .. Len(s) - (n + 1) + 1 : u[i] = s[n + 1 + i - 1]
  BY <1>2, <1>3, SubSeqProperties
<1> HIDE DEF u
<1>5. Len(u) = Len(s) - n
  BY <1>1, <1>4
<1>6. ASSUME NEW i \in 1 .. Len(s) - n PROVE u[i] = s[n + i]
  <2>1. i \in 1 .. Len(s) - (n + 1) + 1 /\ n + 1 + i - 1 = n + i
    BY <1>1
  <2> QED
    BY <1>4, <2>1
<1> QED
  BY <1>4, <1>5, <1>6 DEF u

LEMMA SingleIn ==
  ASSUME NEW S, NEW x \in S
  PROVE  <<x>> \in Seq(S) /\ Len(<<x>>) = 1 /\ <<x>>[1] = x /\ <<x>> # <<>>
OBVIOUS

\* What is appended does not change the beginning.
LEMMA Beginning ==
  ASSUME NEW S, NEW s \in Seq(S), NEW u \in Seq(S), s # <<>>
  PROVE  s \o u \in Seq(S) /\ s \o u # <<>> /\ (s \o u)[1] = s[1]
<1>1. Len(s) \in Nat \ {0} /\ Len(u) \in Nat
  BY EmptySeq, LenProperties
<1>2. 1 \in 1 .. Len(s) + Len(u) /\ 1 <= Len(s)
  BY <1>1
<1>3. s \o u \in Seq(S) /\ Len(s \o u) = Len(s) + Len(u) /\ (s \o u)[1] = s[1]
  BY <1>2, ConcatProperties
<1>4. s \o u # <<>>
  BY <1>1, <1>3
<1> QED
  BY <1>3, <1>4

\* A set of positions that is not empty has a least one.
LEMMA MinIsLeast ==
  ASSUME NEW S, S \subseteq Nat, S # {}
  PROVE  Min(S) \in S /\ \A m \in S : Min(S) <= m
<1> DEFINE less == {p \in Nat \X Nat : p[1] < p[2]}
<1>1. IsWellFoundedOn(less, Nat)
  BY NatLessThanWellFounded DEF OpToRel
<1>2. PICK n \in S : \A m \in S : <<m, n>> \notin less
  BY <1>1, WFMin
<1>3. ASSUME NEW m \in S PROVE n <= m
  <2>1. m \in Nat /\ n \in Nat
    OBVIOUS
  <2>2. <<m, n>> \in less <=> m < n
    BY <2>1
  <2> QED
    BY <1>2, <2>1, <2>2
<1> QED
  BY <1>2, <1>3 DEF Min

-----------------------------------------------------------------------------
(* The buffered reads.                                                     *)

\* By() says who has written.
LEMMA ByIs ==
  ASSUME NEW who, NEW S, NEW kinds \in Seq(S)
  PROVE  By(who, kinds) \in Seq(S \X {who})
<1>1. Len(kinds) \in Nat /\ DOMAIN kinds = 1 .. Len(kinds) /\ \A i \in 1 .. Len(kinds) : kinds[i] \in S
  BY LenProperties, ElementOfSeq
<1>2. By(who, kinds) \in [1 .. Len(kinds) -> S \X {who}]
  BY <1>1 DEF By
<1> QED
  BY <1>1, <1>2, SeqDef

LEMMA ProxyIs ==
  ASSUME NEW kinds \in Seq(Spoken)
  PROVE  Proxy(kinds) \in Seq(Texts)
<1>1. Proxy(kinds) \in Seq(Spoken \X {"proxy"})
  BY ByIs DEF Proxy
<1>2. Spoken \X {"proxy"} \subseteq Texts
  BY DEF Texts, ItemsBy
<1> QED
  BY <1>1, <1>2, SeqMonotonic

\* A read takes from the buffer, then from the socket.
LEMMA ConsumeIs ==
  ASSUME NEW S, NEW T, T \subseteq S, NEW buffer \in Seq(S), NEW socket \in Seq(T),
         NEW n \in 0 .. Len(buffer \o socket)
  PROVE  Consume(buffer, socket, n).rio \in Seq(S) /\ Consume(buffer, socket, n).inbox \in Seq(T)
<1>1. socket \in Seq(S) /\ Len(buffer) \in Nat /\ Len(socket) \in Nat
  BY SeqMonotonic, LenProperties
<1>2. buffer \o socket \in Seq(S) /\ Len(buffer \o socket) = Len(buffer) + Len(socket)
  BY <1>1, ConcatProperties
<1>3. SubSeq(buffer \o socket, n + 1, Len(buffer \o socket)) \in Seq(S)
  BY <1>1, <1>2, LastItems
<1>4. n <= Len(buffer) => SubSeq(buffer, n + 1, Len(buffer)) \in Seq(S)
  <2> HAVE n <= Len(buffer)
  <2>1. n \in 0 .. Len(buffer)
    BY <1>1, <1>2
  <2> QED
    BY <2>1, LastItems
<1> QED
  BY <1>3, <1>4, EmptySeq DEF Consume

\* Where the first whole line ends.
LEMMA LineEnd ==
  ASSUME NEW S, NEW all \in Seq(S), NEW n, n = SelectInSeq(all, IsTerminated)
  PROVE  /\ n \in 0 .. Len(all)
         /\ n > 0 => IsTerminated(all[n])
         /\ n = 0 => \A i \in 1 .. Len(all) : ~IsTerminated(all[i])
<1> DEFINE ends == {i \in 1 .. Len(all) : IsTerminated(all[i])}
<1>1. n = IF ends # {} THEN Min(ends) ELSE 0
  BY DEF SelectInSeq
<1>2. Len(all) \in Nat
  BY LenProperties
<1>3. ends \subseteq Nat
  OBVIOUS
<1>4. ends # {} => n \in ends
  <2> HIDE DEF ends
  <2> QED
    BY <1>1, <1>3, MinIsLeast
<1> QED
  BY <1>1, <1>2, <1>4

\* What begins with a head.
LEMMA HeadsAre == \A h \in DOMAIN HeadOf : HeadOf[h] \in Spoken
<1>1. DOMAIN HeadOf = {"gethead", "otherhead"} /\ HeadOf.gethead = "get" /\ HeadOf.otherhead = "other"
  BY DEF HeadOf
<1>2. "get" \in Spoken /\ "other" \in Spoken
  BY DEF Spoken, ItemKinds, Methods, Headers
<1> QED
  BY <1>1, <1>2, Zenon

\* A line is its first item's author's.
LEMMA JoinIs ==
  ASSUME NEW W, NEW items \in Seq(ItemsBy(W)), items # <<>>
  PROVE  Join(items) \in ItemsBy(W) /\ Join(items)[2] = items[1][2]
<1>1. Len(items) \in Nat \ {0}
  BY EmptySeq
<1>2. items[1] \in Spoken \X W
  BY <1>1, ElementOfSeq DEF ItemsBy
<1> DEFINE w == items[1][2]
<1>3. w \in W
  BY <1>2
<1>4. \A h \in DOMAIN HeadOf : HeadOf[h] \in Spoken
  BY HeadsAre
<1>5. Join(items) \in {items[1], <<"junk", w>>} \cup {<<HeadOf[h], w>> : h \in DOMAIN HeadOf}
  BY DEF Join
<1> DEFINE junk == "junk"
<1>6. junk \in Spoken
  BY DEF Spoken, ItemKinds
<1>7. Join(items) \in {items[1], <<junk, w>>} \cup {<<HeadOf[h], w>> : h \in DOMAIN HeadOf}
  BY <1>5
<1> HIDE DEF junk
<1>8. \A k \in Spoken : <<k, w>> \in ItemsBy(W) /\ <<k, w>>[2] = w
  BY <1>3 DEF ItemsBy
<1>9. items[1] \in ItemsBy(W)
  BY <1>2 DEF ItemsBy
<1> QED
  BY <1>4, <1>6, <1>7, <1>8, <1>9

\* rio_readlineb(): the line is one of those in the stream, or old.
LEMMA ReadLineIs ==
  ASSUME NEW W, NEW V, W \subseteq V, NEW buffer \in Seq(ItemsBy(W)), NEW socket \in Seq(ItemsBy(W)),
         NEW eof, NEW old \in ItemsBy(V)
  PROVE  LET r == ReadLine(buffer, socket, eof, old) IN
         /\ r.lines \subseteq ItemsBy(V)
         /\ \E n \in 0 .. Len(buffer \o socket) : r.left = Consume(buffer, socket, n)
<1> DEFINE r == ReadLine(buffer, socket, eof, old)
           all == buffer \o socket
           n == SelectInSeq(all, IsTerminated)
<1>1. all \in Seq(ItemsBy(W)) /\ Len(all) \in Nat
  BY ConcatProperties, LenProperties
<1>2. n \in 0 .. Len(all)
  BY <1>1, LineEnd
<1>3. ItemsBy(W) \subseteq ItemsBy(V)
  BY DEF ItemsBy
<1>4. CASE n > 0
  <2>1. r.lines = {Join(SubSeq(all, 1, n))} /\ r.left = Consume(buffer, socket, n)
    BY <1>4 DEF ReadLine
  <2>2. SubSeq(all, 1, n) \in Seq(ItemsBy(W)) /\ SubSeq(all, 1, n) # <<>>
    <3>2. SubSeq(all, 1, n) \in Seq(ItemsBy(W)) /\ Len(SubSeq(all, 1, n)) = n
      BY <1>1, <1>2, FirstItems
    <3>3. n # 0
      BY <1>2, <1>4
    <3>4. \A s : Len(s) # 0 => s # <<>>
      OBVIOUS
    <3> HIDE DEF all, n
    <3> QED
      BY <3>2, <3>3, <3>4
  <2> QED
    BY <1>2, <1>3, <2>1, <2>2, JoinIs
<1>5. CASE ~(n > 0)
  <2> DEFINE junk == <<"junk", all[1][2]>>
             whole == <<HeadOf[all[1][1]], all[1][2]>>
             endless == IF Len(all) = 1 /\ all[1][1] \in DOMAIN HeadOf THEN {whole} ELSE {}
  <2>1. /\ r.lines = IF all = <<>> THEN {old} ELSE {junk} \cup (IF ~eof THEN {old} ELSE endless)
        /\ r.left = Consume(buffer, socket, Len(all))
    BY <1>5 DEF ReadLine
  <2>2. all # <<>> => junk \in ItemsBy(W) /\ endless \subseteq ItemsBy(W)
    <3> HAVE all # <<>>
    <3>1. all[1] \in Spoken \X W
      BY <1>1, EmptySeq, ElementOfSeq DEF ItemsBy
    <3>2. all[1][2] \in W /\ "junk" \in Spoken
      BY <3>1 DEF Spoken, ItemKinds
    <3>3. all[1][1] \in DOMAIN HeadOf => HeadOf[all[1][1]] \in Spoken
      BY HeadsAre
    <3>4. junk \in ItemsBy(W)
      BY <3>2 DEF ItemsBy
    <3>5. all[1][1] \in DOMAIN HeadOf => whole \in ItemsBy(W)
      BY <3>2, <3>3 DEF ItemsBy
    <3> QED
      BY <3>4, <3>5
  <2>3. r.lines \subseteq ItemsBy(V)
    <3> HIDE DEF all, junk, endless
    <3> QED
      BY <1>3, <2>1, <2>2
  <2>4. Len(all) \in 0 .. Len(all)
    BY <1>1
  <2> QED
    BY <2>1, <2>3, <2>4
<1> QED
  BY <1>4, <1>5

LEMMA LineReturns ==
  ASSUME NEW S, NEW buffer \in Seq(S), NEW socket \in Seq(S), NEW eof, NEW old
  PROVE  ReadLine(buffer, socket, eof, old).ret \in Int
<1> DEFINE all == buffer \o socket
           n == SelectInSeq(all, IsTerminated)
<1>1. all \in Seq(S) /\ Len(all) \in Nat
  BY ConcatProperties, LenProperties
<1>2. n \in 0 .. Len(all)
  BY <1>1, LineEnd
<1>3. ReadLine(buffer, socket, eof, old).ret = IF n > 0 THEN n ELSE IF eof THEN Len(all) ELSE -1
  BY DEF ReadLine
<1> QED
  BY <1>1, <1>2, <1>3

\* rio_readnb().
BytesRead(S, buffer, socket, eof, r) ==
  /\ r.data \in Seq(S) /\ (eof => r.ret \in Nat)
  /\ \E m \in 0 .. Len(buffer \o socket) : r.left = Consume(buffer, socket, m)

LEMMA ReadBytesIs ==
  ASSUME NEW S, NEW buffer \in Seq(S), NEW socket \in Seq(S),
         NEW eof, NEW n \in Nat
  PROVE  BytesRead(S, buffer, socket, eof, ReadBytes(buffer, socket, eof, n))
<1> DEFINE r == ReadBytes(buffer, socket, eof, n)
           all == buffer \o socket
           got == IF Len(all) < n THEN Len(all) ELSE n
<1>1. all \in Seq(S) /\ Len(all) \in Nat
  BY ConcatProperties, LenProperties
<1>2. got \in 0 .. Len(all)
  BY <1>1
<1>3. SubSeq(all, 1, got) \in Seq(S)
  <2> HIDE DEF all, got
  <2> QED
    BY <1>1, <1>2, FirstItems
<1>4. /\ r.data = SubSeq(all, 1, got) /\ r.left = Consume(buffer, socket, got)
      /\ r.ret = IF got = n \/ eof THEN got ELSE -1
  BY DEF ReadBytes
<1>5. got \in Nat
  BY <1>1
<1> HIDE DEF r, got
<1>6. r.data \in Seq(S) /\ (eof => r.ret \in Nat)
  BY <1>3, <1>4, <1>5
<1>7. \E m \in 0 .. Len(all) : r.left = Consume(buffer, socket, m)
  BY <1>2, <1>4, Zenon
<1>8. BytesRead(S, buffer, socket, eof, r)
  BY <1>6, <1>7, Zenon DEF BytesRead
<1> QED
  BY <1>8, Zenon DEF r

\* What is left of an item that was read in part.
Torn(item) == IF IsTerminated(item) THEN <<"junk", item[2]>> ELSE item

\* The same, when a part of an item is read.
PartRead(W, buffer, socket, n) ==
  LET r == ReadPart(buffer, socket, n)
      rest == Torn((buffer \o socket)[n + 1])
      more == Consume(buffer, socket, n + 1)
  IN  /\ r.data \in Seq(ItemsBy(W)) /\ r.ret \in Nat
      /\ n + 1 \in 0 .. Len(buffer \o socket)
      /\ r.left.inbox = more.inbox
      /\ rest \in ItemsBy(W)
      /\ r.left.rio = <<rest>> \o more.rio

LEMMA ReadPartIs ==
  ASSUME NEW W, NEW buffer \in Seq(ItemsBy(W)), NEW socket \in Seq(ItemsBy(W)),
         NEW n \in Nat, n < Len(buffer \o socket)
  PROVE  PartRead(W, buffer, socket, n)
<1> DEFINE r == ReadPart(buffer, socket, n)
           all == buffer \o socket
           cut == all[n + 1]
           junk == <<"junk", cut[2]>>
           rest == Torn(cut)
           more == Consume(buffer, socket, n + 1)
<1>1. all \in Seq(ItemsBy(W)) /\ Len(all) \in Nat
  BY ConcatProperties, LenProperties
<1>2. n \in 0 .. Len(all) /\ n + 1 \in 1 .. Len(all)
  BY <1>1
<1>3. cut \in ItemsBy(W) /\ junk \in ItemsBy(W)
  <2>1. cut \in Spoken \X W
    BY <1>1, <1>2, ElementOfSeq DEF ItemsBy
  <2>2. cut[2] \in W /\ "junk" \in Spoken
    BY <2>1 DEF Spoken, ItemKinds
  <2> QED
    BY <2>1, <2>2 DEF ItemsBy
<1>4. rest \in ItemsBy(W)
  BY <1>3 DEF Torn
<1>5. SubSeq(all, 1, n) \in Seq(ItemsBy(W))
  <2> HIDE DEF all
  <2> QED
    BY <1>1, <1>2, FirstItems
<1>6. /\ r.data = Append(SubSeq(all, 1, n), junk) /\ r.ret = n + 1
      /\ r.left = [more EXCEPT !.rio = <<rest>> \o @]
  BY DEF ReadPart, Torn
<1>7. r.left.inbox = more.inbox /\ r.left.rio = <<rest>> \o more.rio
  BY <1>6 DEF Consume
<1>8. r.data \in Seq(ItemsBy(W))
  <2> HIDE DEF all, junk
  <2> QED
    BY <1>3, <1>5, <1>6, AppendProperties
<1>9. r.ret \in Nat /\ n + 1 \in 0 .. Len(all)
  BY <1>1, <1>2, <1>6
<1> QED
  BY <1>4, <1>7, <1>8, <1>9 DEF PartRead

\* What is read of an answer leaves the rest of it.
LEMMA ConsumeTrails ==
  ASSUME NEW S, NEW rest \in Seq(S), NEW whole \in Seq(S), Trails(rest, whole),
         NEW n \in 0 .. Len(rest)
  PROVE  /\ rest \o <<>> = rest
         /\ Consume(rest, <<>>, n).rio \in Seq(S) /\ Trails(Consume(rest, <<>>, n).rio, whole)
         /\ \A x \in S : n > 0 => /\ <<x>> \o Consume(rest, <<>>, n).rio \in Seq(S)
                                  /\ Trails(<<x>> \o Consume(rest, <<>>, n).rio, whole)
<1> DEFINE more == Consume(rest, <<>>, n).rio
<1>1. Len(rest) \in Nat /\ Len(whole) \in Nat /\ rest \o <<>> = rest
  BY LenProperties, ConcatEmptySeq
<1>2. more = SubSeq(rest, n + 1, Len(rest))
  BY <1>1 DEF Consume
<1>4. /\ more \in Seq(S) /\ Len(more) = Len(rest) - n
      /\ \A i \in 1 .. Len(rest) - n : more[i] = rest[n + i]
  BY <1>2, LastItems
<1> HIDE DEF more
<1>5. PICK k \in 0 .. Len(whole) : /\ Len(rest) = Len(whole) - k
                                   /\ \A i \in 2 .. Len(rest) : rest[i] = whole[k + i]
  BY DEF Trails
<1>6. Trails(more, whole)
  <2>1. k + n \in 0 .. Len(whole) /\ Len(more) = Len(whole) - (k + n)
    BY <1>1, <1>4, <1>5
  <2>2. ASSUME NEW i \in 2 .. Len(more) PROVE more[i] = whole[k + n + i]
    <3>1. i \in 1 .. Len(rest) - n /\ n + i \in 2 .. Len(rest) /\ k + (n + i) = k + n + i
      BY <1>1, <1>4
    <3> QED
      BY <1>4, <1>5, <3>1
  <2> QED
    BY <2>1, <2>2 DEF Trails
<1>7. ASSUME NEW x \in S, n > 0
      PROVE  <<x>> \o more \in Seq(S) /\ Trails(<<x>> \o more, whole)
  <2>1. <<x>> \in Seq(S) /\ Len(<<x>>) = 1
    BY SingleIn
  <2>2. PICK one \in Seq(S) : one = <<x>> /\ Len(one) = 1
    BY <2>1
  <2>3. /\ one \o more \in Seq(S) /\ Len(one \o more) = 1 + (Len(rest) - n)
        /\ \A i \in 1 .. 1 + (Len(rest) - n) : (one \o more)[i] = IF i <= 1 THEN one[i] ELSE more[i - 1]
    <3>1. more \in Seq(S) /\ Len(more) = Len(rest) - n
      BY <1>4
    <3>2. /\ one \o more \in Seq(S) /\ Len(one \o more) = Len(one) + Len(more)
          /\ \A i \in 1 .. Len(one) + Len(more) :
                (one \o more)[i] = IF i <= Len(one) THEN one[i] ELSE more[i - Len(one)]
      BY <3>1, ConcatProperties, Zenon
    <3> QED
      BY <2>2, <3>1, <3>2, Zenon
  <2>4. k + n - 1 \in 0 .. Len(whole) /\ Len(one \o more) = Len(whole) - (k + n - 1)
    BY <1>1, <1>5, <1>7, <2>3
  <2>5. ASSUME NEW i \in 2 .. Len(one \o more) PROVE (one \o more)[i] = whole[k + n - 1 + i]
    <3>1. /\ i \in 1 .. 1 + (Len(rest) - n) /\ ~(i <= 1) /\ i - 1 \in 1 .. Len(rest) - n
          /\ n + (i - 1) \in 2 .. Len(rest) /\ k + (n + (i - 1)) = k + n - 1 + i
      BY <1>1, <1>7, <2>3
    <3>2. (one \o more)[i] = more[i - 1]
      BY <2>3, <3>1
    <3>3. more[i - 1] = rest[n + (i - 1)]
      BY <1>4, <3>1
    <3> QED
      BY <1>5, <3>1, <3>2, <3>3
  <2>6. Trails(one \o more, whole)
    BY <2>4, <2>5 DEF Trails
  <2> QED
    BY <2>2, <2>3, <2>6
<1> QED
  BY <1>1, <1>4, <1>6, <1>7 DEF more

\* What trails an answer ends as it does.
LEMMA TrailsEnds ==
  ASSUME NEW S, NEW rest \in Seq(S), NEW whole \in Seq(S), Trails(rest, whole), rest # <<>>
  PROVE  IsSuffix(Tail(rest), whole)
<1>1. PICK n \in 0 .. Len(whole) : /\ Len(rest) = Len(whole) - n
                                   /\ \A i \in 2 .. Len(rest) : rest[i] = whole[n + i]
  BY DEF Trails
<1>2. PICK tail \in Seq(S) : /\ tail = Tail(rest) /\ Len(tail) = Len(rest) - 1
                             /\ \A i \in 1 .. Len(tail) : tail[i] = rest[i + 1]
  BY HeadTailProperties
<1>3. Len(rest) \in Nat \ {0} /\ Len(whole) \in Nat /\ Len(tail) \in Nat
  BY EmptySeq, LenProperties
<1>4. ASSUME NEW s \in Seq(S)
      PROVE  /\ Reverse(s) \in Seq(S) /\ Len(Reverse(s)) = Len(s)
             /\ \A i \in 1 .. Len(s) : Reverse(s)[i] = s[Len(s) - i + 1]
  <2>1. Len(s) \in Nat /\ \A i \in 1 .. Len(s) : s[i] \in S
    BY LenProperties, ElementOfSeq
  <2>2. \A i \in 1 .. Len(s) : Len(s) - i + 1 \in 1 .. Len(s)
    BY <2>1
  <2>3. Reverse(s) \in [1 .. Len(s) -> S]
    BY <2>1, <2>2 DEF Reverse
  <2>4. Reverse(s) \in Seq(S)
    BY <2>1, <2>3, Listing, Zenon
  <2> QED
    BY <2>1, <2>3, <2>4, LenProperties DEF Reverse
<1>5. PICK t \in Seq(S) : t = Reverse(tail) /\ Len(t) = Len(tail)
                          /\ \A i \in 1 .. Len(tail) : t[i] = tail[Len(tail) - i + 1]
  BY <1>4
<1>6. PICK w \in Seq(S) : w = Reverse(whole) /\ Len(w) = Len(whole)
                          /\ \A i \in 1 .. Len(whole) : w[i] = whole[Len(whole) - i + 1]
  BY <1>4
<1>7. Len(t) <= Len(w) /\ Len(t) \in 0 .. Len(w)
  BY <1>1, <1>2, <1>3, <1>5, <1>6
<1>8. ASSUME NEW i \in 1 .. Len(t) PROVE t[i] = w[i]
  <2> DEFINE j == Len(tail) - i + 1
  <2>1. /\ j \in 1 .. Len(tail) /\ j + 1 \in 2 .. Len(rest) /\ i \in 1 .. Len(whole)
        /\ n + (j + 1) = Len(whole) - i + 1
    <3>1. /\ i \in Nat /\ i >= 1 /\ i <= Len(tail) /\ n \in Nat /\ n <= Len(whole)
          /\ Len(rest) = Len(whole) - n /\ Len(tail) = Len(rest) - 1
      BY <1>1, <1>2, <1>3, <1>5
    <3> QED
      BY <1>3, <3>1
  <2>2. t[i] = tail[j] /\ tail[j] = rest[j + 1]
    BY <1>2, <1>5, <2>1
  <2>3. rest[j + 1] = whole[n + (j + 1)]
    BY <1>1, <2>1
  <2> QED
    BY <1>6, <2>1, <2>2, <2>3
<1>9. SubSeq(t, 1, Len(t)) = t
  BY SubSeqFull
<1>10. SubSeq(w, 1, Len(t)) = t
  <2>1. PICK m \in 0 .. Len(w) : m = Len(t)
    BY <1>7
  <2>2. /\ SubSeq(w, 1, m) \in Seq(S) /\ Len(SubSeq(w, 1, m)) = m
        /\ \A i \in 1 .. m : SubSeq(w, 1, m)[i] = w[i]
    BY FirstItems
  <2>3. PICK u \in Seq(S) : u = SubSeq(w, 1, m) /\ Len(u) = m /\ \A i \in 1 .. m : u[i] = w[i]
    BY <2>2
  <2>4. u = t
    BY <1>8, <2>1, <2>3, SeqEqual
  <2> QED
    BY <2>1, <2>3, <2>4
<1>11. IsPrefix(t, w)
  BY <1>7, <1>9, <1>10 DEF IsPrefix
<1> QED
  BY <1>2, <1>5, <1>6, <1>11 DEF IsSuffix

-----------------------------------------------------------------------------
(* What a step reads and writes.                                           *)

LEMMA NoLineIs == NoLine \in Texts /\ <<"close", "proxy">> \in Texts /\ <<"200", "proxy">> \in Texts
<1>1. "junk" \in Spoken /\ "close" \in Spoken /\ "200" \in Spoken
  BY DEF Spoken, ItemKinds, Headers
<1>2. \A k \in Spoken : <<k, "nobody">> \in Texts /\ <<k, "proxy">> \in Texts
  BY DEF Texts, ItemsBy
<1> QED
  BY <1>1, <1>2, Zenon DEF NoLine

LEMMA ClientsTexts ==
  ASSUME NEW c \in Clients, ClientStreams
  PROVE  /\ Sendable(c) \subseteq ItemsBy({c}) /\ ItemsBy({c}) \subseteq Texts
         /\ Seq(Sendable(c)) \subseteq Seq(ItemsBy({c})) /\ Seq(ItemsBy({c})) \subseteq Seq(Texts)
<1>1. asked[c] \in Seq(Spoken)
  BY DEF ClientStreams
<1>2. \A i \in DOMAIN asked[c] : asked[c][i] \in Spoken
  BY <1>1, LenProperties, ElementOfSeq
<1>3. Sendable(c) \subseteq ItemsBy({c})
  BY <1>2 DEF Sendable, ItemsBy, ToSet
<1>4. ItemsBy({c}) \subseteq Texts
  BY DEF ItemsBy, Texts
<1> QED
  BY <1>3, <1>4, SeqMonotonic

\* What is left after a read from the client, and from the server.
LeavesClient(r) == r.left.inbox \in Seq(Sendable(fd)) /\ r.left.rio \in Seq(ItemsBy({fd}))
LeavesServer(r) == r.left.rio \in Seq(Texts) /\ Trails(r.left.rio, answer)

LEMMA LeftIs ==
  ASSUME ClientStreams, fd \in Clients, NEW r, LeavesClient(r), Left(r), UNCHANGED <<asked, sent, fd>>
  PROVE  ClientStreams'
<1>1. rio' = r.left.rio /\ inbox' = [inbox EXCEPT ![fd] = r.left.inbox]
  BY DEF Left
<1>2. DOMAIN inbox' = Clients /\ \A c \in Clients : inbox'[c] \in Seq(Sendable(c))
  BY <1>1 DEF ClientStreams, LeavesClient
<1>3. \A c \in Clients : Sendable(c)' = Sendable(c)
  BY DEF Sendable
<1> QED
  BY <1>1, <1>2, <1>3 DEF ClientStreams, LeavesClient

LEMMA ClientRead ==
  ASSUME ClientStreams, fd \in Clients, NEW n \in 0 .. Len(rio \o inbox[fd]), NEW r,
         r.left = Consume(rio, inbox[fd], n)
  PROVE  LeavesClient(r)
<1>1. Sendable(fd) \subseteq ItemsBy({fd}) /\ rio \in Seq(ItemsBy({fd})) /\ inbox[fd] \in Seq(Sendable(fd))
  BY ClientsTexts DEF ClientStreams
<1> QED
  BY <1>1, ConsumeIs DEF LeavesClient

\* A read from the client that ends within an item.
LEMMA ClientPart ==
  ASSUME ClientStreams, fd \in Clients, NEW n \in Nat, n < Len(rio \o inbox[fd]),
         NEW r, r = ReadPart(rio, inbox[fd], n)
  PROVE  r.data \in Seq(ItemsBy({fd})) /\ LeavesClient(r)
<1> DEFINE W == {fd}
           socket == inbox[fd]
           rest == Torn((rio \o socket)[n + 1])
           more == Consume(rio, socket, n + 1)
<1>1. /\ Sendable(fd) \subseteq ItemsBy(W) /\ rio \in Seq(ItemsBy(W)) /\ socket \in Seq(ItemsBy(W))
      /\ socket \in Seq(Sendable(fd))
  BY ClientsTexts DEF ClientStreams
<1>2. n < Len(rio \o socket) /\ r = ReadPart(rio, socket, n)
  OBVIOUS
<1> HIDE DEF W, socket
<1>3. PartRead(W, rio, socket, n)
  BY <1>1, <1>2, ReadPartIs
<1> HIDE DEF rest, more
<1>4. /\ r.data \in Seq(ItemsBy(W))
      /\ n + 1 \in 0 .. Len(rio \o socket)
      /\ r.left.inbox = more.inbox
      /\ rest \in ItemsBy(W)
      /\ r.left.rio = <<rest>> \o more.rio
  BY <1>2, <1>3 DEF PartRead, rest, more
<1>5. more.rio \in Seq(ItemsBy(W)) /\ more.inbox \in Seq(Sendable(fd))
  BY <1>1, <1>4, ConsumeIs DEF more
<1>6. r.left.rio \in Seq(ItemsBy(W))
  BY <1>4, <1>5, SingleIn, ConcatProperties
<1> QED
  BY <1>4, <1>5, <1>6 DEF LeavesClient, W

LEMMA ClientLine ==
  ASSUME ClientStreams, fd \in Clients, NEW old \in Texts, NEW r, r = FromClient(old)
  PROVE  LeavesClient(r) /\ r.lines \subseteq Texts
<1>1. rio \in Seq(ItemsBy({fd})) /\ inbox[fd] \in Seq(ItemsBy({fd}))
  BY ClientsTexts DEF ClientStreams
<1>2. {fd} \subseteq Clients \cup {"proxy", "server", "nobody"}
  OBVIOUS
<1>3. /\ r.lines \subseteq Texts
      /\ \E n \in 0 .. Len(rio \o inbox[fd]) : r.left = Consume(rio, inbox[fd], n)
  BY <1>1, <1>2, ReadLineIs DEF FromClient, Texts
<1> QED
  BY <1>3, ClientRead

LEMMA ServerRead ==
  ASSUME ServerStreams, NEW n \in 0 .. Len(reply \o <<>>), NEW r, r.left = Consume(reply, <<>>, n)
  PROVE  LeavesServer(r)
<1>1. reply \in Seq(Texts) /\ answer \in Seq(Texts) /\ Trails(reply, answer)
  BY DEF ServerStreams
<1>2. reply \o <<>> = reply
  BY <1>1, ConcatEmptySeq
<1> QED
  BY <1>1, <1>2, ConsumeTrails DEF LeavesServer

LEMMA ServerLine ==
  ASSUME ServerStreams, NEW old \in Texts, NEW r, r = FromServer(old)
  PROVE  LeavesServer(r) /\ r.lines \subseteq Texts
<1> DEFINE W == Clients \cup {"proxy", "server", "nobody"}
           nothing == <<>>
           eof == ~broken
<1>1. reply \in Seq(ItemsBy(W)) /\ nothing \in Seq(ItemsBy(W)) /\ old \in ItemsBy(W)
  BY EmptySeq DEF ServerStreams, Texts
<1>2. r = ReadLine(reply, nothing, eof, old) /\ W \subseteq W
  BY DEF FromServer
<1> HIDE DEF W, nothing, eof
<1>3. /\ r.lines \subseteq ItemsBy(W)
      /\ \E n \in 0 .. Len(reply \o nothing) : r.left = Consume(reply, nothing, n)
  BY <1>1, <1>2, ReadLineIs
<1> QED
  BY <1>3, ServerRead DEF W, Texts, nothing

\* EAGAIN is counted.
LEMMA CountedIs ==
  ASSUME FlagsInv, NEW r, Counted(r)
  PROVE  spins' \in 0 .. MaxSpins + 1 /\ (spins <= MaxSpins => spins' <= MaxSpins)
<1>1. spins \in Nat /\ spins <= MaxSpins + 1 /\ MaxSpins \in Nat
  BY ExchangeAssumption DEF FlagsInv
<1>2. spins' = spins \/ (spins < MaxSpins /\ spins' = spins + 1)
  BY DEF Counted
<1> QED
  BY <1>1, <1>2

LEMMA NoteIs ==
  ASSUME FlagsInv, NEW l, NEW d \in Directions, Note(l, d)
  PROVE  /\ enc' \in [Directions -> BOOLEAN] /\ trailer' \in [Directions -> BOOLEAN]
         /\ length' \in {-1, 0, 2}
<1>1. enc \in [Directions -> BOOLEAN] /\ trailer \in [Directions -> BOOLEAN] /\ length \in {-1, 0, 2}
  BY DEF FlagsInv
<1>2. enc' \in [Directions -> BOOLEAN] /\ trailer' \in [Directions -> BOOLEAN]
  BY <1>1, Zenon DEF Note
<1>3. length' \in {-1, 0, 2}
  BY <1>1 DEF Note, BodyLen
<1> QED
  BY <1>2, <1>3

\* What is written are texts.
LEMMA ForwardedIs ==
  ASSUME NEW l \in Texts
  PROVE  Forwarded(l) \in Seq(Texts)
<1>1. <<"host", "host">> \in Seq(Spoken)
  BY DEF Spoken, ItemKinds, Headers
<1>2. Proxy(<<"host", "host">>) \in Seq(Texts)
  BY <1>1, ProxyIs
<1> QED
  BY <1>2, EmptySeq, SingleIn DEF Forwarded

\* What is sent for bytes that were not read.
LEMMA GarbageIs ==
  ASSUME NEW n \in Nat, NEW m \in Nat
  PROVE  Proxy([i \in 1 .. n - m |-> "garbage"]) \in Seq(Texts)
<1> DEFINE garbage == "garbage"
           k == n - m
           more == [i \in 1 .. k |-> garbage]
<1>1. garbage \in Spoken
  BY DEF Spoken, ItemKinds
<1> HIDE DEF garbage
<1>2. PICK l \in Nat : 1 .. k = 1 .. l
  <2>1. CASE k \in Nat
    BY <2>1
  <2>2. CASE k \notin Nat
    <3>1. 1 .. k = 1 .. 0 /\ 0 \in Nat
      BY <2>2
    <3> QED
      BY <3>1
  <2> QED
    BY <2>1, <2>2
<1> HIDE DEF k
<1>3. more \in [1 .. l -> Spoken]
  BY <1>1, <1>2, Zenon
<1>4. more \in Seq(Spoken)
  BY <1>3, Listing, Zenon
<1> HIDE DEF more
<1>5. Proxy(more) \in Seq(Texts)
  BY <1>4, ProxyIs
<1> QED
  BY <1>5 DEF more, k, garbage

LEMMA PaddedIs ==
  ASSUME NEW data \in Seq(Texts), NEW n \in Nat
  PROVE  Padded(data, n) \in Seq(Texts)
<1> DEFINE garbage == [i \in 1 .. n - Len(data) |-> "garbage"]
<1>1. Proxy(garbage) \in Seq(Texts)
  BY GarbageIs, LenProperties
<1> HIDE DEF garbage
<1>2. data \o Proxy(garbage) \in Seq(Texts)
  BY <1>1, ConcatProperties
<1> QED
  BY <1>2 DEF Padded, garbage

\* forward_chunked(), in whichever direction.
LEMMA ChunkLine ==
  ASSUME ExchangeInv, NEW r, r = ChunkRead
  PROVE  /\ r.lines \subseteq Texts
         /\ IF dir = "up" THEN LeavesClient(r) ELSE LeavesServer(r)
<1>1. line \in Texts /\ fd \in Clients /\ ClientStreams /\ ServerStreams
  BY DEF ExchangeInv, FlagsInv, Buffers
<1>2. CASE dir = "up"
  BY <1>1, <1>2, ClientLine DEF ChunkRead
<1>3. CASE dir # "up"
  BY <1>1, <1>3, ServerLine DEF ChunkRead
<1> QED
  BY <1>2, <1>3

\* The reads of a chunk.
LEMMA ChunkReadsAre ==
  ASSUME ExchangeInv,
         NEW r \in IF dir = "up" THEN ChunkReads(rio, inbox[fd], ended[fd]) ELSE ChunkReads(reply, <<>>, ~broken)
  PROVE  /\ r.data \in Seq(Texts)
         /\ IF dir = "up" THEN LeavesClient(r) ELSE LeavesServer(r)
<1>1. fd \in Clients /\ ClientStreams /\ ServerStreams
  BY DEF ExchangeInv, FlagsInv
<1>2. CASE dir = "up"
  <2> DEFINE all == rio \o inbox[fd]
  <2>1. /\ Sendable(fd) \subseteq ItemsBy({fd}) /\ Seq(ItemsBy({fd})) \subseteq Seq(Texts)
        /\ rio \in Seq(ItemsBy({fd})) /\ inbox[fd] \in Seq(Sendable(fd)) /\ inbox[fd] \in Seq(ItemsBy({fd}))
    BY <1>1, ClientsTexts DEF ClientStreams
  <2>2. Len(all) \in Nat
    BY <2>1, ConcatProperties, LenProperties
  <2>3. \/ \E n \in Nat : r = ReadBytes(rio, inbox[fd], ended[fd], n)
        \/ \E n \in 0 .. Len(all) - 1 : r = ReadPart(rio, inbox[fd], n)
    <3>1. r \in ChunkReads(rio, inbox[fd], ended[fd])
      BY <1>2
    <3>2. 1 \in Nat /\ 1 .. Len(all) + 1 \subseteq Nat
      OBVIOUS
    <3> QED
      BY <3>1, <3>2 DEF ChunkReads
  <2>4. ASSUME NEW n \in Nat, r = ReadBytes(rio, inbox[fd], ended[fd], n)
        PROVE  r.data \in Seq(ItemsBy({fd})) /\ LeavesClient(r)
    <3>1. /\ r.data \in Seq(ItemsBy({fd}))
          /\ \E m \in 0 .. Len(rio \o inbox[fd]) : r.left = Consume(rio, inbox[fd], m)
      <4>1. BytesRead(ItemsBy({fd}), rio, inbox[fd], ended[fd], r)
        BY <2>1, <2>4, ReadBytesIs, Zenon
      <4> QED
        BY <4>1, Zenon DEF BytesRead
    <3> QED
      BY <1>1, <3>1, ClientRead
  <2>5. ASSUME NEW n \in 0 .. Len(all) - 1, r = ReadPart(rio, inbox[fd], n)
        PROVE  r.data \in Seq(ItemsBy({fd})) /\ LeavesClient(r)
    <3>1. n \in Nat /\ n < Len(rio \o inbox[fd])
      BY <2>2
    <3> QED
      BY <1>1, <2>5, <3>1, ClientPart
  <2> QED
    BY <1>2, <2>1, <2>3, <2>4, <2>5
<1>3. CASE dir # "up"
  <2> DEFINE W == Clients \cup {"proxy", "server", "nobody"}
             nothing == <<>>
             eof == ~broken
             all == reply \o nothing
  <2>1. /\ ItemsBy(W) = Texts /\ ItemsBy(W) \subseteq ItemsBy(W)
        /\ reply \in Seq(ItemsBy(W)) /\ nothing \in Seq(ItemsBy(W)) /\ all = reply
    BY <1>1, EmptySeq, ConcatEmptySeq DEF ServerStreams, Texts
  <2>2. r \in ChunkReads(reply, nothing, eof)
    BY <1>3
  <2> HIDE DEF W, nothing, eof
  <2>3. Len(all) \in Nat
    BY <2>1, LenProperties
  <2>4. \/ \E n \in Nat : r = ReadBytes(reply, nothing, eof, n)
        \/ \E n \in 0 .. Len(all) - 1 : r = ReadPart(reply, nothing, n)
    <3>1. 1 \in Nat /\ 1 .. Len(all) + 1 \subseteq Nat
      OBVIOUS
    <3> QED
      BY <2>2, <3>1 DEF ChunkReads
  <2>5. ASSUME NEW n \in Nat, r = ReadBytes(reply, nothing, eof, n)
        PROVE  r.data \in Seq(Texts) /\ LeavesServer(r)
    <3>1. /\ r.data \in Seq(ItemsBy(W))
          /\ \E m \in 0 .. Len(reply \o nothing) : r.left = Consume(reply, nothing, m)
      <4>1. BytesRead(ItemsBy(W), reply, nothing, eof, r)
        BY <2>1, <2>5, ReadBytesIs, Zenon
      <4> QED
        BY <4>1, Zenon DEF BytesRead
    <3> QED
      BY <1>1, <2>1, <3>1, ServerRead DEF nothing
  <2>6. ASSUME NEW n \in 0 .. Len(all) - 1, r = ReadPart(reply, nothing, n)
        PROVE  r.data \in Seq(Texts) /\ LeavesServer(r)
    <3>1. n \in Nat /\ n < Len(all)
      BY <2>3
    <3>2. PartRead(W, reply, nothing, n)
      BY <2>1, <3>1, ReadPartIs
    <3>3. /\ r.data \in Seq(ItemsBy(W))
          /\ n + 1 \in 0 .. Len(reply \o nothing)
          /\ Torn(all[n + 1]) \in ItemsBy(W)
          /\ r.left.rio = <<Torn(all[n + 1])>> \o Consume(reply, nothing, n + 1).rio
      BY <2>6, <3>2 DEF PartRead
    <3>4. answer \in Seq(Texts) /\ Trails(reply, answer) /\ n + 1 > 0 /\ n + 1 \in 0 .. Len(reply)
      BY <1>1, <2>1, <2>3, <3>3 DEF ServerStreams
    <3> QED
      BY <2>1, <3>3, <3>4, ConsumeTrails DEF LeavesServer, nothing
  <2> QED
    BY <1>3, <2>4, <2>5, <2>6
<1> QED
  BY <1>2, <1>3

\* What is appended to what the server has got.
LEMMA AppendedIs ==
  ASSUME NEW s \in Seq(Messages), NEW u \in Seq(Texts)
  PROVE  u \in Seq(Messages) /\ s \o u \in Seq(Messages)
<1>1. Texts \subseteq Messages
  BY DEF Messages
<1>2. u \in Seq(Messages)
  BY <1>1, SeqMonotonic
<1> QED
  BY <1>2, ConcatProperties

\* What Pass() writes is appended.
LEMMA PassIs ==
  ASSUME ExchangeInv, NEW r, NEW items \in Seq(Texts), Pass(r, items),
         IF dir = "up" THEN LeavesClient(r) ELSE LeavesServer(r),
         UNCHANGED <<asked, sent, fd, answer>>
  PROVE  /\ ClientStreams' /\ ServerStreams'
         /\ toServer' \in {toServer, toServer \o items}
<1>1. fd \in Clients /\ ClientStreams /\ ServerStreams /\ toServer \in Seq(Messages)
  BY DEF ExchangeInv, FlagsInv, ServerStreams
<1>2. toServer \o items \in Seq(Messages)
  BY <1>1, AppendedIs
<1>3. CASE dir = "up"
  <2>1. Left(r) /\ toServer' = toServer \o items /\ UNCHANGED reply
    BY <1>3 DEF Pass
  <2>2. ClientStreams'
    BY <1>1, <1>3, <2>1, LeftIs
  <2> QED
    BY <1>1, <1>2, <2>1, <2>2 DEF ServerStreams, Trails
<1>4. CASE dir # "up"
  <2>1. reply' = r.left.rio /\ UNCHANGED <<rio, inbox, toServer>>
    BY <1>4 DEF Pass, Took
  <2> QED
    BY <1>1, <1>4, <2>1 DEF ClientStreams, Sendable, ServerStreams, Trails, LeavesServer
<1> QED
  BY <1>3, <1>4

LEMMA WrittenIs ==
  ASSUME NEW r, NEW items \in Seq(Texts), NEW said \in Written(r, items)
  PROVE  said \in Seq(Texts)
<1>1. <<"garbage">> \in Seq(Spoken)
  BY DEF Spoken, ItemKinds
<1>2. Proxy(<<"garbage">>) \in Seq(Texts) /\ <<>> \in Seq(Texts)
  BY <1>1, ProxyIs, EmptySeq
<1> QED
  BY <1>2 DEF Written

\* What has arrived of the items written.
Arrives(out, items) == Len(out) = Len(items) /\ \A i \in 1 .. Len(items) : out[i] \in {items[i], Gap}

\* Did it all arrive?
Whole(s) == Gap \notin ToSet(s)

LEMMA GapIs == Gap \in Texts
<1>1. "gap" \in Spoken
  BY DEF Spoken
<1> QED
  BY <1>1 DEF Texts, ItemsBy, Gap

LEMMA ArrivesIs ==
  ASSUME NEW S, Gap \in S, NEW items \in Seq(S), NEW out, DOMAIN out = DOMAIN items,
         \A i \in DOMAIN items : out[i] \in {items[i], Gap}, out = [i \in DOMAIN out |-> out[i]]
  PROVE  out \in Seq(S) /\ Arrives(out, items)
<1> DEFINE n == Len(items)
<1>1. n \in Nat /\ DOMAIN items = 1 .. n /\ \A i \in 1 .. n : items[i] \in S
  BY LenProperties, ElementOfSeq
<1>2. \A i \in 1 .. n : out[i] \in S
  BY <1>1
<1> HIDE DEF n
<1>3. out \in [1 .. n -> S]
  BY <1>1, <1>2
<1>4. out \in Seq(S)
  BY <1>1, <1>3, Listing
<1>5. Len(out) = n
  BY <1>1, <1>4, LenProperties
<1> QED
  BY <1>1, <1>4, <1>5 DEF Arrives, n

LEMMA CutIs ==
  ASSUME NEW S, Gap \in S, NEW items \in Seq(S), NEW n
  PROVE  Cut(items, n) \in Seq(S) /\ Arrives(Cut(items, n), items)
<1> DEFINE out == Cut(items, n)
<1>1. DOMAIN out = DOMAIN items /\ \A i \in DOMAIN items : out[i] \in {items[i], Gap}
  BY DEF Cut
<1>2. out = [i \in DOMAIN out |-> out[i]]
  BY DEF Cut
<1> HIDE DEF out
<1>3. out \in Seq(S) /\ Arrives(out, items)
  BY <1>1, <1>2, ArrivesIs
<1> QED
  BY <1>3 DEF out

\* What is written to the client.
LEMMA WriteClientIs ==
  ASSUME NEW S, Gap \in S, NEW items \in Seq(S), WriteClient(items)
  PROVE  \E out \in Seq(S) : toClient' = toClient \o out /\ Arrives(out, items)
<1>1. PICK n : toClient' = toClient \o Cut(items, n)
  BY DEF WriteClient
<1> QED
  BY <1>1, CutIs

LEMMA WriteEachIs ==
  ASSUME NEW S, Gap \in S, NEW items \in Seq(S), WriteEach(items)
  PROVE  \E out \in Seq(S) : toClient' = toClient \o out /\ Arrives(out, items)
<1>1. PICK lost : toClient' = toClient \o [i \in DOMAIN items |-> IF i \in lost THEN Gap ELSE items[i]]
  BY DEF WriteEach
<1> DEFINE out == [i \in DOMAIN items |-> IF i \in lost THEN Gap ELSE items[i]]
<1>2. DOMAIN out = DOMAIN items /\ \A i \in DOMAIN items : out[i] \in {items[i], Gap}
  OBVIOUS
<1>3. out = [i \in DOMAIN out |-> out[i]]
  OBVIOUS
<1> HIDE DEF out
<1>4. out \in Seq(S) /\ Arrives(out, items)
  BY <1>2, <1>3, ArrivesIs
<1> QED
  BY <1>1, <1>4 DEF out

\* A position behind the first p ones.
LEMMA BehindIs ==
  ASSUME NEW p \in Nat, NEW q \in Nat, NEW i \in 1 .. q
  PROVE  p + i \in 1 .. p + q /\ ~(p + i <= p) /\ (p + i) - p = i
OBVIOUS

\* What is whole has arrived as it was written.
LEMMA WholeArrives ==
  ASSUME NEW S, NEW s \in Seq(S), NEW items \in Seq(S), NEW out \in Seq(S), Arrives(out, items),
         Whole(s \o out)
  PROVE  Whole(s) /\ out = items
<1>1. /\ Len(s) \in Nat /\ Len(out) \in Nat /\ Len(items) \in Nat /\ Len(out) = Len(items)
      /\ DOMAIN s = 1 .. Len(s) /\ DOMAIN out = 1 .. Len(out) /\ DOMAIN items = 1 .. Len(items)
  BY LenProperties DEF Arrives
<1>2. /\ s \o out \in Seq(S) /\ Len(s \o out) = Len(s) + Len(out)
      /\ \A i \in 1 .. Len(s) + Len(out) : (s \o out)[i] = IF i <= Len(s) THEN s[i] ELSE out[i - Len(s)]
  BY ConcatProperties
<1>3. PICK all \in Seq(S) : all = s \o out /\ DOMAIN all = 1 .. Len(s) + Len(out)
  <2>1. DOMAIN (s \o out) = 1 .. Len(s \o out)
    BY <1>2, LenProperties
  <2> QED
    BY <1>2, <2>1
<1>4. \A i \in DOMAIN all : all[i] # Gap
  BY <1>3 DEF Whole, ToSet
<1>5. \A i \in DOMAIN s : s[i] # Gap
  <2> TAKE i \in DOMAIN s
  <2>1. i \in 1 .. Len(s) + Len(out) /\ i <= Len(s)
    BY <1>1
  <2> QED
    BY <1>2, <1>3, <1>4, <2>1
<1>6. \A i \in 1 .. Len(out) : out[i] = items[i]
  <2> TAKE i \in 1 .. Len(out)
  <2> DEFINE k == Len(s) + i
  <2>1. k \in 1 .. Len(s) + Len(out) /\ ~(k <= Len(s)) /\ k - Len(s) = i
    BY <1>1, BehindIs, Zenon
  <2> HIDE DEF k
  <2>2. out[i] # Gap
    BY <1>2, <1>3, <1>4, <2>1
  <2> QED
    BY <1>1, <2>2 DEF Arrives
<1>7. out = items
  BY <1>1, <1>6, SeqEqual
<1> QED
  BY <1>5, <1>7 DEF Whole, ToSet

\* The server keeps what it has got.
LEMMA FirstStays ==
  ASSUME ExchangeInv, pc \in Answering, pc' \in Answering \cup {"return"},
         NEW s \in Seq(Messages), toServer' \in {toServer, toServer \o s}
  PROVE  OpeningInv'
<1>1. toServer \in Seq(Messages) /\ toServer # <<>>
  BY DEF ExchangeInv, OpeningInv, ServerStreams
<1>2. toServer' # <<>>
  BY <1>1, Beginning
<1>3. pc' \notin Opening
  BY DEF Answering, Opening
<1> QED
  BY <1>2, <1>3 DEF OpeningInv, Opening

\* Where doit() goes on.
LEMMA AfterIs == AfterRequest \in {"raw", "status"} /\ AfterChunks \in {"raw", "status", "finish"}
BY DEF AfterRequest, AfterChunks

\* A step that leaves the streams alone.
LEMMA StreamsStay ==
  ASSUME ClientStreams, ServerStreams,
         UNCHANGED <<asked, sent, inbox, fd, rio, toServer, answer, reply>>
  PROVE  ClientStreams' /\ ServerStreams'
BY DEF ClientStreams, Sendable, ServerStreams, Trails

-----------------------------------------------------------------------------
(* The steps.                                                              *)

LEMMA SaidIsSpoken == Seq(ItemKinds) \subseteq Seq(Spoken)
BY SeqMonotonic DEF Spoken

LEMMA InitHolds ==
  ASSUME Init
  PROVE  ExchangeInv
<1>1. fd \in Clients
  BY ExchangeAssumption DEF Init
<1>2. asked \in [Clients -> Seq(Spoken)]
  <2>1. asked \in [Clients -> Seq(ItemKinds)]
    BY ExchangeAssumption DEF Init
  <2> QED
    BY <2>1, SaidIsSpoken
<1>3. \A S : <<>> \in Seq(S)
  BY EmptySeq
<1>4. ClientStreams
  BY <1>2, <1>3 DEF Init, ClientStreams
<1>5. ServerStreams
  <2>1. Trails(<<>>, <<>>)
    BY DEF Trails
  <2> QED
    BY <1>3, <2>1 DEF Init, ServerStreams
<1>6. FlagsInv
  <2>1. cstatus \in [close : BOOLEAN, shut : BOOLEAN] /\ dir \in Directions
    BY DEF Init, Directions
  <2>2. enc \in [Directions -> BOOLEAN] /\ trailer \in [Directions -> BOOLEAN]
    BY DEF Init, Unset
  <2>3. conn \in [Clients -> {"armed", "served", "tunnel", "closed"}] /\ pc = "wait" /\ pc \in Positions
    BY DEF Init, Positions
  <2>4. isHostSet \in BOOLEAN /\ length \in {-1, 0, 2} /\ spins = 0
    BY DEF Init
  <2>5. spins \in 0 .. MaxSpins + 1 /\ spins <= MaxSpins
    BY <2>4, ExchangeAssumption
  <2> QED
    BY <1>1, <2>1, <2>2, <2>3, <2>4, <2>5 DEF FlagsInv
<1>7. Buffers /\ OpeningInv
  BY NoLineIs DEF Init, Buffers, OpeningInv, Answering
<1> QED
  BY <1>4, <1>5, <1>6, <1>7 DEF ExchangeInv

LEMMA SendHolds ==
  ASSUME ExchangeInv, NEW c \in Clients, Send(c)
  PROVE  ExchangeInv'
<1>1. PICK n \in sent[c] + 1 .. Len(asked[c]) :
        /\ sent' = [sent EXCEPT ![c] = n]
        /\ inbox' = [inbox EXCEPT ![c] = @ \o SubSeq(Items(c), sent[c] + 1, n)]
  BY DEF Send
<1>2. /\ UNCHANGED <<asked, ended, conn, pc, fd, rio, residueVars, localVars, serverVars, toClient>>
      /\ ClientStreams
  BY DEF Send, ExchangeInv
<1>3. asked[c] \in Seq(Spoken) /\ sent[c] \in Nat /\ Len(asked[c]) \in Nat /\ inbox[c] \in Seq(Sendable(c))
  BY <1>2, LenProperties DEF ClientStreams
<1>4. n \in Nat /\ sent[c] + 1 \in Int
  BY <1>3
<1>5. SubSeq(Items(c), sent[c] + 1, n) \in Seq(Sendable(c))
  <2>1. ASSUME NEW i \in sent[c] + 1 .. n PROVE Items(c)[i] \in Sendable(c)
    <3>1. i \in DOMAIN asked[c]
      BY <1>3, LenProperties
    <3> QED
      BY <3>1 DEF Items, By, Sendable, ToSet
  <2>2. n \in Int
    BY <1>4
  <2> QED
    BY <1>4, <2>1, <2>2, SubSeqProperties
<1>6. inbox[c] \o SubSeq(Items(c), sent[c] + 1, n) \in Seq(Sendable(c))
  BY <1>3, <1>5, ConcatProperties
<1>7. \A x \in Clients : Sendable(x)' = Sendable(x)
  BY <1>2 DEF Sendable
<1>8. ClientStreams'
  BY <1>1, <1>2, <1>4, <1>6, <1>7 DEF ClientStreams
<1>9. ServerStreams' /\ FlagsInv' /\ Buffers'
  BY <1>2 DEF ExchangeInv, ServerStreams, Trails, FlagsInv, Buffers, serverVars, localVars, residueVars
<1>10. \A x \in Clients : inbox[x] # <<>> => inbox'[x] # <<>>
  <2> SUFFICES ASSUME NEW x \in Clients, inbox[x] # <<>> PROVE inbox'[x] # <<>>
    OBVIOUS
  <2>1. CASE x = c
    <3>1. inbox[c] \o SubSeq(Items(c), sent[c] + 1, n) # <<>>
      BY <1>3, <1>5, <2>1, Beginning
    <3> QED
      BY <1>1, <1>2, <2>1, <3>1 DEF ClientStreams
  <2>2. CASE x # c
    BY <1>1, <1>2, <2>2 DEF ClientStreams
  <2> QED
    BY <2>1, <2>2
<1>11. OpeningInv'
  BY <1>2, <1>10 DEF ExchangeInv, FlagsInv, OpeningInv, serverVars, localVars
<1> QED
  BY <1>8, <1>9, <1>11 DEF ExchangeInv

LEMMA EndHolds ==
  ASSUME ExchangeInv, NEW c \in Clients, End(c)
  PROVE  ExchangeInv'
<1>1. /\ ended' = [ended EXCEPT ![c] = TRUE]
      /\ UNCHANGED <<asked, sent, inbox, conn, pc, fd, rio, residueVars, localVars, serverVars, toClient>>
  BY DEF End
<1>2. ClientStreams' /\ ServerStreams' /\ FlagsInv' /\ Buffers'
  BY <1>1, StreamsStay DEF ExchangeInv, FlagsInv, Buffers, serverVars, localVars, residueVars
<1>3. \A x \in Clients : ended[x] => ended'[x]
  BY <1>1
<1>4. OpeningInv'
  BY <1>1, <1>3 DEF ExchangeInv, FlagsInv, OpeningInv, serverVars, localVars
<1> QED
  BY <1>2, <1>4 DEF ExchangeInv

LEMMA WakeHolds ==
  ASSUME ExchangeInv, Wake
  PROVE  ExchangeInv'
<1>1. PICK c \in Clients : /\ conn[c] = "armed" /\ (inbox[c] # <<>> \/ ended[c])
                           /\ fd' = c /\ conn' = [conn EXCEPT ![c] = "served"]
  BY DEF Wake
<1>2. /\ pc = "wait" /\ pc' = "request" /\ rio = <<>> /\ toServer = <<>> /\ spins = 0
      /\ UNCHANGED <<clientVars, inbox, rio, buf, localVars, serverVars, toClient>>
  BY DEF Wake, ExchangeInv, OpeningInv, Opening
<1>3. ClientStreams'
  <2>1. rio' \in Seq(ItemsBy({fd'}))
    BY <1>2, EmptySeq
  <2> QED
    BY <1>2, <2>1 DEF ExchangeInv, ClientStreams, Sendable, clientVars
<1>4. ServerStreams' /\ Buffers'
  BY <1>2 DEF ExchangeInv, ServerStreams, Trails, Buffers, serverVars, localVars
<1>5. FlagsInv'
  <2>1. conn' \in [Clients -> {"armed", "served", "tunnel", "closed"}] /\ fd' \in Clients /\ conn'[fd'] = "served"
    BY <1>1 DEF ExchangeInv, FlagsInv
  <2>2. cstatus' \in [close : BOOLEAN, shut : BOOLEAN]
    BY DEF Wake
  <2>3. enc' \in [Directions -> BOOLEAN] /\ trailer' \in [Directions -> BOOLEAN]
    <3>1. Unset \in [Directions -> BOOLEAN]
      BY DEF Unset
    <3>2. \/ UNCHANGED <<enc, trailer>>
          \/ enc' = Unset /\ trailer' = Unset
      BY DEF Wake
    <3> QED
      BY <3>1, <3>2 DEF ExchangeInv, FlagsInv
  <2>4. pc \in Asking /\ pc' \in Positions
    BY <1>2 DEF Asking, Positions
  <2> QED
    BY <1>2, <2>1, <2>2, <2>3, <2>4 DEF ExchangeInv, FlagsInv, localVars
<1>6. OpeningInv'
  BY <1>1, <1>2 DEF OpeningInv, Answering, clientVars, serverVars, localVars
<1> QED
  BY <1>3, <1>4, <1>5, <1>6 DEF ExchangeInv

LEMMA ReturnHolds ==
  ASSUME ExchangeInv, Return
  PROVE  ExchangeInv'
<1>1. /\ pc' = "wait" /\ rio' = <<>> /\ toServer' = <<>> /\ answer' = <<>> /\ reply' = <<>>
      /\ line' = NoLine /\ isHostSet' = FALSE /\ length' = -1 /\ dir' = "up" /\ spins' = 0
      /\ UNCHANGED <<clientVars, conn, fd, residueVars>>
      /\ inbox' = IF conn[fd] = "closed" THEN [inbox EXCEPT ![fd] = <<>>] ELSE inbox
  BY DEF Return, Readinit
<1>2. \A S : <<>> \in Seq(S)
  BY EmptySeq
<1>3. ClientStreams'
  <2>1. \A c \in Clients : Sendable(c)' = Sendable(c)
    BY <1>1 DEF Sendable, clientVars
  <2>2. DOMAIN inbox' = Clients /\ \A c \in Clients : inbox'[c] \in Seq(Sendable(c))
    BY <1>1, <1>2 DEF ExchangeInv, ClientStreams
  <2> QED
    BY <1>1, <1>2, <2>1, <2>2 DEF ExchangeInv, ClientStreams, clientVars
<1>4. ServerStreams'
  <2>1. Trails(<<>>, <<>>)
    BY DEF Trails
  <2>2. Trails(reply, answer)'
    BY <1>1, <2>1 DEF Trails
  <2> QED
    BY <1>1, <1>2, <2>2 DEF ServerStreams
<1>5. Buffers'
  BY <1>1, NoLineIs DEF ExchangeInv, Buffers, residueVars
<1>6. FlagsInv'
  <2>1. dir' \in Directions /\ isHostSet' \in BOOLEAN /\ length' \in {-1, 0, 2} /\ pc' \in Positions
    BY <1>1 DEF Directions, Positions
  <2>2. spins' \in 0 .. MaxSpins + 1 /\ spins' <= MaxSpins
    BY <1>1, ExchangeAssumption
  <2> QED
    BY <1>1, <2>1, <2>2 DEF ExchangeInv, FlagsInv, residueVars
<1>7. OpeningInv'
  BY <1>1 DEF OpeningInv, Answering
<1> QED
  BY <1>3, <1>4, <1>5, <1>6, <1>7 DEF ExchangeInv

LEMMA ReadRequestHolds ==
  ASSUME ExchangeInv, ReadRequest
  PROVE  ExchangeInv'
<1> DEFINE r == FromClient(buf)
<1>1. PICK l \in r.lines : /\ buf' = l
                           /\ \/ pc' = "open" /\ UNCHANGED conn
                              \/ pc' = "return" /\ Closed(fd)
  BY DEF ReadRequest
<1>2. /\ pc = "request" /\ Left(r) /\ spins = 0 /\ spins' \in {spins, spins + 1}
      /\ UNCHANGED <<clientVars, fd, cstatus, enc, trailer, line, isHostSet, length, dir, serverVars>>
  BY DEF ReadRequest, ExchangeInv, OpeningInv
<1>3. fd \in Clients /\ ClientStreams /\ buf \in Texts
  BY DEF ExchangeInv, FlagsInv, Buffers
<1>4. LeavesClient(r) /\ l \in Texts
  BY <1>3, ClientLine
<1>5. ClientStreams'
  BY <1>2, <1>3, <1>4, LeftIs DEF clientVars
<1>6. ServerStreams' /\ Buffers'
  BY <1>1, <1>2, <1>4 DEF ExchangeInv, ServerStreams, Trails, Buffers, serverVars
<1>7. FlagsInv'
  <2>1. /\ conn' \in [Clients -> {"armed", "served", "tunnel", "closed"}]
        /\ pc' \in Positions /\ (pc' \notin {"wait", "return"} => conn'[fd'] = "served")
    BY <1>1, <1>2 DEF ExchangeInv, FlagsInv, Closed, Positions
  <2>2. spins' \in 0 .. MaxSpins + 1 /\ spins' <= MaxSpins
    BY <1>2, ExchangeAssumption
  <2> QED
    BY <1>2, <2>1, <2>2 DEF ExchangeInv, FlagsInv
<1>8. OpeningInv'
  <2>1. toServer' = <<>>
    BY <1>2 DEF ExchangeInv, OpeningInv, Opening, serverVars
  <2>2. pc' \notin {"wait", "request"} \cup Answering
    BY <1>1 DEF Answering
  <2> QED
    BY <2>1, <2>2 DEF OpeningInv
<1> QED
  BY <1>5, <1>6, <1>7, <1>8 DEF ExchangeInv

LEMMA RefusedHolds ==
  ASSUME ExchangeInv, OpenFails \/ NotImplemented \/ StartConnect
  PROVE  ExchangeInv'
<1>1. /\ pc = "open" /\ UNCHANGED <<clientVars, inbox, fd, rio, residueVars, localVars, serverVars>>
      /\ \/ pc' = "return" /\ Closed(fd)
         \/ pc' \in {"connect", "tunnel"} /\ UNCHANGED conn
  BY DEF OpenFails, NotImplemented, StartConnect
<1>2. ClientStreams' /\ ServerStreams' /\ Buffers'
  BY <1>1, StreamsStay DEF ExchangeInv, Buffers, clientVars, localVars, serverVars, residueVars
<1>3. FlagsInv'
  <2>1. /\ conn' \in [Clients -> {"armed", "served", "tunnel", "closed"}]
        /\ pc' \in Positions /\ (pc' \notin {"wait", "return"} => conn'[fd'] = "served")
    BY <1>1 DEF ExchangeInv, FlagsInv, Closed, Positions
  <2>2. pc' \notin Asking
    BY <1>1 DEF Asking
  <2> QED
    BY <1>1, <2>1, <2>2 DEF ExchangeInv, FlagsInv, localVars, residueVars
<1>4. OpeningInv'
  BY <1>1 DEF ExchangeInv, OpeningInv, Opening, Answering, serverVars
<1> QED
  BY <1>2, <1>3, <1>4 DEF ExchangeInv

LEMMA OpenServerHolds ==
  ASSUME ExchangeInv, OpenServer
  PROVE  ExchangeInv'
<1>1. /\ pc = "open" /\ pc' = "header" /\ rq.host[2] \in Clients
      /\ toServer' = Proxy(<<"line", "close", "close">>)
      /\ line' = <<"close", "proxy">> /\ isHostSet' = FALSE /\ length' = -1
      /\ UNCHANGED <<clientVars, inbox, conn, fd, rio, residueVars, dir, spins, toClient>>
  BY DEF OpenServer
<1>2. PICK a \in Replies[rq.host[2]] : answer' = By("server", a) /\ reply' = By("server", a)
  BY DEF OpenServer
<1>3. By("server", a) \in Seq(Texts)
  <2>1. a \in Seq(Spoken)
    BY <1>1, <1>2, ExchangeAssumption, SaidIsSpoken
  <2>2. By("server", a) \in Seq(Spoken \X {"server"})
    BY <2>1, ByIs
  <2>3. Spoken \X {"server"} \subseteq Texts
    BY DEF Texts, ItemsBy
  <2> QED
    BY <2>2, <2>3, SeqMonotonic
<1>4. Trails(By("server", a), By("server", a))
  BY <1>3, LenProperties DEF Trails
<1>5. toServer' \in Seq(Messages) /\ toServer' # <<>>
  <2> DEFINE said == <<"line", "close", "close">>
  <2>1. said \in Seq(Spoken) /\ Len(said) = 3
    BY DEF Spoken, ItemKinds, Headers
  <2> HIDE DEF said
  <2>2. Proxy(said) \in Seq(Texts) /\ DOMAIN Proxy(said) = 1 .. 3
    BY <2>1, ProxyIs, LenProperties DEF Proxy, By
  <2>3. Proxy(said) \in Seq(Messages) /\ Proxy(said) # <<>>
    <3>1. \A s : s = <<>> => DOMAIN s = {}
      OBVIOUS
    <3>2. <<>> \in Seq(Messages)
      BY EmptySeq
    <3>3. Proxy(said) # <<>>
      BY <2>2, <3>1
    <3> QED
      BY <2>2, <3>2, <3>3, AppendedIs
  <2> QED
    BY <1>1, <2>3 DEF said
<1>6. ClientStreams'
  BY <1>1 DEF ExchangeInv, ClientStreams, Sendable, clientVars
<1>7. ServerStreams'
  BY <1>2, <1>3, <1>4, <1>5 DEF ServerStreams, Trails
<1>8. Buffers'
  BY <1>1, NoLineIs DEF ExchangeInv, Buffers, residueVars
<1>9. FlagsInv'
  <2>1. pc \in Asking /\ pc' \in Positions /\ length' \in {-1, 0, 2} /\ isHostSet' \in BOOLEAN
    BY <1>1 DEF Asking, Positions
  <2> QED
    BY <1>1, <2>1 DEF ExchangeInv, FlagsInv, residueVars
<1>10. OpeningInv'
  BY <1>1, <1>5 DEF OpeningInv, Opening
<1> QED
  BY <1>6, <1>7, <1>8, <1>9, <1>10 DEF ExchangeInv

LEMMA ConnectHolds ==
  ASSUME ExchangeInv, SkipHeader \/ StartTunnel
  PROVE  ExchangeInv'
<1> DEFINE r == FromClient(buf)
<1>1. fd \in Clients /\ ClientStreams /\ buf \in Texts /\ LeavesClient(r) /\ r.lines \subseteq Texts
  BY ClientLine DEF ExchangeInv, FlagsInv, Buffers
<1>2. /\ UNCHANGED <<clientVars, fd, rq, cstatus, enc, trailer, localVars, serverVars>>
      /\ pc' \in {"connect", "tunnel", "return"}
      /\ \/ pc = "connect" /\ pc' # "return" /\ UNCHANGED conn
         \/ pc' = "return" /\ conn' = [conn EXCEPT ![fd] = "tunnel"]
  BY DEF SkipHeader, StartTunnel
<1>3. buf' \in Texts
  BY <1>1, NoLineIs DEF SkipHeader, StartTunnel
<1>4. ClientStreams'
  <2>1. CASE SkipHeader
    BY <1>1, <1>2, <2>1, LeftIs DEF SkipHeader, clientVars
  <2>2. CASE StartTunnel
    <3>1. rio' = <<>> /\ UNCHANGED inbox
      BY <2>2 DEF StartTunnel
    <3>2. rio' \in Seq(ItemsBy({fd'}))
      BY <3>1, EmptySeq
    <3> QED
      BY <1>1, <1>2, <3>1, <3>2 DEF ClientStreams, Sendable, clientVars
  <2> QED
    BY <2>1, <2>2
<1>5. ServerStreams' /\ Buffers'
  BY <1>2, <1>3 DEF ExchangeInv, ServerStreams, Trails, Buffers, serverVars, localVars
<1>6. FlagsInv'
  <2>1. /\ conn' \in [Clients -> {"armed", "served", "tunnel", "closed"}]
        /\ pc' \in Positions /\ (pc' \notin {"wait", "return"} => conn'[fd'] = "served")
    BY <1>2 DEF ExchangeInv, FlagsInv, Positions
  <2>2. pc' \notin Asking
    BY <1>2 DEF Asking
  <2> QED
    BY <1>2, <2>1, <2>2 DEF ExchangeInv, FlagsInv, localVars
<1>7. OpeningInv'
  BY <1>2 DEF ExchangeInv, OpeningInv, Opening, Answering, serverVars
<1> QED
  BY <1>4, <1>5, <1>6, <1>7 DEF ExchangeInv

-----------------------------------------------------------------------------
(* The request.                                                            *)

LEMMA StatusIs ==
  ASSUME FlagsInv, NEW x \in BOOLEAN
  PROVE  /\ [cstatus EXCEPT !.close = @ \/ x] \in [close : BOOLEAN, shut : BOOLEAN]
         /\ [cstatus EXCEPT !.shut = @ \/ x] \in [close : BOOLEAN, shut : BOOLEAN]
         /\ [cstatus EXCEPT !.close = TRUE] \in [close : BOOLEAN, shut : BOOLEAN]
         /\ [cstatus EXCEPT !.shut = TRUE] \in [close : BOOLEAN, shut : BOOLEAN]
BY DEF FlagsInv

LEMMA RequestHeaderHolds ==
  ASSUME ExchangeInv, RequestHeader
  PROVE  ExchangeInv'
<1> DEFINE r == FromClient(line)
<1>1. PICK l \in r.lines :
       /\ line' = l
       /\ Note(l, "up")
       /\ isHostSet' = (isHostSet \/ l[1] = "host")
       /\ cstatus' = [cstatus EXCEPT !.close = @ \/ l[1] = "close"]
       /\ toServer' = toServer \o Forwarded(l)
       /\ pc' = IF l[1] # "blank" THEN "header"
                ELSE IF rq.kind \in Posts THEN "body" ELSE AfterRequest
  BY DEF RequestHeader
<1>2. /\ pc = "header" /\ Counted(r) /\ Left(r)
      /\ UNCHANGED <<clientVars, conn, fd, buf, rq, dir, answer, reply, broken, toClient>>
  BY DEF RequestHeader
<1>3. /\ fd \in Clients /\ FlagsInv /\ ClientStreams /\ line \in Texts /\ LeavesClient(r) /\ l \in Texts
      /\ toServer \in Seq(Messages)
  BY ClientLine DEF ExchangeInv, FlagsInv, Buffers, ServerStreams
<1>4. Forwarded(l) \in Seq(Messages) /\ toServer \o Forwarded(l) \in Seq(Messages)
  BY <1>3, ForwardedIs, AppendedIs
<1>5. pc' \in {"header", "body", "raw", "status"}
  BY <1>1, AfterIs
<1>6. ClientStreams'
  BY <1>2, <1>3, LeftIs DEF clientVars
<1>7. ServerStreams' /\ Buffers'
  BY <1>1, <1>2, <1>3, <1>4 DEF ExchangeInv, ServerStreams, Trails, Buffers
<1>8. FlagsInv'
  <2>1. enc' \in [Directions -> BOOLEAN] /\ trailer' \in [Directions -> BOOLEAN] /\ length' \in {-1, 0, 2}
    <3>1. "up" \in Directions
      BY DEF Directions
    <3> QED
      BY <1>1, <1>3, <3>1, NoteIs
  <2>2. cstatus' \in [close : BOOLEAN, shut : BOOLEAN] /\ isHostSet' \in BOOLEAN
    BY <1>1, <1>3, StatusIs
  <2>3. spins' \in 0 .. MaxSpins + 1 /\ spins' <= MaxSpins
    BY <1>2, <1>3, CountedIs DEF FlagsInv, Asking
  <2>4. pc' \in Positions /\ conn'[fd'] = "served"
    BY <1>2, <1>3, <1>5 DEF FlagsInv, Positions
  <2> QED
    BY <1>2, <1>3, <2>1, <2>2, <2>3, <2>4 DEF FlagsInv
<1>9. OpeningInv'
  <2>1. pc \in Answering /\ pc' \in Answering \cup {"return"}
    BY <1>2, <1>5 DEF Answering, Positions
  <2> QED
    BY <1>1, <1>2, <1>4, <2>1, FirstStays
<1> QED
  BY <1>6, <1>7, <1>8, <1>9 DEF ExchangeInv

LEMMA RequestCutHolds ==
  ASSUME ExchangeInv, RequestCut
  PROVE  ExchangeInv'
<1>1. /\ pc = "header" /\ pc' = AfterRequest
      /\ cstatus' = [cstatus EXCEPT !.shut = TRUE]
      /\ UNCHANGED <<clientVars, inbox, conn, fd, rio, buf, rq, enc, trailer, localVars, serverVars, toClient>>
  BY DEF RequestCut
<1>2. ClientStreams' /\ ServerStreams' /\ Buffers'
  BY <1>1, StreamsStay DEF ExchangeInv, Buffers, clientVars, localVars, serverVars
<1>3. pc' \in Answering /\ pc' \notin Asking /\ pc' \in Positions /\ pc \in Answering /\ pc \notin {"wait", "return"}
  BY <1>1, AfterIs DEF Answering, Asking, Positions
<1>4. FlagsInv'
  BY <1>1, <1>3, StatusIs DEF ExchangeInv, FlagsInv, localVars
<1>5. OpeningInv'
  <2>1. <<>> \in Seq(Messages) /\ toServer' \in {toServer, toServer \o <<>>}
    BY <1>1, EmptySeq DEF serverVars
  <2> QED
    BY <1>1, <1>3, <2>1, FirstStays
<1> QED
  BY <1>2, <1>4, <1>5 DEF ExchangeInv

LEMMA RequestBodyHolds ==
  ASSUME ExchangeInv, RequestBody
  PROVE  ExchangeInv'
<1> DEFINE r == ReadBytes(rio, inbox[fd], ended[fd], length)
<1>1. /\ pc = "body" /\ length >= 0 /\ Left(r)
      /\ toServer' = toServer \o Padded(r.data, length)
      /\ cstatus' = [cstatus EXCEPT !.shut = @ \/ r.ret = 0]
      /\ spins' = IF r.ret < 0 THEN spins + 1 ELSE spins
      /\ pc' = AfterRequest
      /\ UNCHANGED <<clientVars, conn, fd, buf, rq, enc, trailer, line, isHostSet, length, dir,
                     answer, reply, broken, toClient>>
  BY DEF RequestBody
<1>2. FlagsInv /\ fd \in Clients /\ ClientStreams /\ toServer \in Seq(Messages) /\ length \in Nat
  BY <1>1 DEF ExchangeInv, FlagsInv, ServerStreams
<1>3. /\ rio \in Seq(ItemsBy({fd})) /\ inbox[fd] \in Seq(ItemsBy({fd}))
      /\ Seq(ItemsBy({fd})) \subseteq Seq(Texts)
  BY <1>2, ClientsTexts DEF ClientStreams
<1>4. /\ r.data \in Seq(ItemsBy({fd}))
      /\ \E m \in 0 .. Len(rio \o inbox[fd]) : r.left = Consume(rio, inbox[fd], m)
  <2>1. BytesRead(ItemsBy({fd}), rio, inbox[fd], ended[fd], r)
    BY <1>2, <1>3, ReadBytesIs, Zenon
  <2> QED
    BY <2>1, Zenon DEF BytesRead
<1> HIDE DEF r
<1>5. LeavesClient(r) /\ r.data \in Seq(Texts)
  BY <1>2, <1>3, <1>4, ClientRead
<1>6. Padded(r.data, length) \in Seq(Messages) /\ toServer \o Padded(r.data, length) \in Seq(Messages)
  BY <1>2, <1>5, PaddedIs, AppendedIs
<1>7. ClientStreams'
  BY <1>1, <1>2, <1>5, LeftIs DEF clientVars
<1>8. ServerStreams' /\ Buffers'
  BY <1>1, <1>6 DEF ExchangeInv, ServerStreams, Trails, Buffers
<1>9. /\ pc' \in Answering /\ pc' \notin Asking /\ pc' \in Positions
      /\ pc \in Answering /\ pc \in Asking /\ pc \notin {"wait", "return"}
  BY <1>1, AfterIs DEF Answering, Asking, Positions
<1>10. FlagsInv'
  <2>1. cstatus' \in [close : BOOLEAN, shut : BOOLEAN]
    BY <1>1, <1>2, StatusIs
  <2>2. spins' \in 0 .. MaxSpins + 1
    BY <1>1, <1>2, <1>9, ExchangeAssumption DEF FlagsInv
  <2> QED
    BY <1>1, <1>2, <1>9, <2>1, <2>2 DEF FlagsInv
<1>11. OpeningInv'
  BY <1>1, <1>6, <1>9, FirstStays
<1> QED
  BY <1>7, <1>8, <1>10, <1>11 DEF ExchangeInv

LEMMA NoRequestBodyHolds ==
  ASSUME ExchangeInv, NoRequestBody
  PROVE  ExchangeInv'
<1>1. /\ pc = "body" /\ pc' = AfterRequest
      /\ toServer' = Append(toServer, Refusal)
      /\ cstatus' = [cstatus EXCEPT !.close = TRUE]
      /\ UNCHANGED <<clientVars, inbox, conn, fd, rio, buf, rq, enc, trailer, localVars, answer, reply, broken, toClient>>
  BY DEF NoRequestBody, Refusal
<1>2. Refusal \in Messages
  BY DEF Messages
<1>3. toServer \in Seq(Messages) /\ <<Refusal>> \in Seq(Messages)
  BY <1>2, SingleIn DEF ExchangeInv, ServerStreams
<1>4. toServer' = toServer \o <<Refusal>> /\ toServer' \in Seq(Messages)
  BY <1>1, <1>2, <1>3, AppendIsConcat, ConcatProperties
<1>5. ClientStreams' /\ ServerStreams' /\ Buffers'
  BY <1>1, <1>4 DEF ExchangeInv, ClientStreams, Sendable, ServerStreams, Trails, Buffers, clientVars, localVars
<1>6. /\ pc' \in Answering /\ pc' \notin Asking /\ pc' \in Positions
      /\ pc \in Answering /\ pc \notin {"wait", "return"}
  BY <1>1, AfterIs DEF Answering, Asking, Positions
<1>7. FlagsInv'
  BY <1>1, <1>6, StatusIs DEF ExchangeInv, FlagsInv, localVars
<1>8. OpeningInv'
  BY <1>1, <1>3, <1>4, <1>6, FirstStays
<1> QED
  BY <1>5, <1>7, <1>8 DEF ExchangeInv

-----------------------------------------------------------------------------
(* Chunks.                                                                 *)

LEMMA StartChunkedHolds ==
  ASSUME ExchangeInv, NEW d \in Directions, StartChunked(d)
  PROVE  ExchangeInv'
<1>1. /\ pc \in {"body", "replybody"} /\ pc' = "chunk" /\ dir' = d /\ line' = NoLine
      /\ UNCHANGED <<clientVars, inbox, conn, fd, rio, residueVars, isHostSet, length, spins,
                     serverVars, toClient>>
  BY DEF StartChunked
<1>2. ClientStreams' /\ ServerStreams'
  BY <1>1, StreamsStay DEF ExchangeInv, clientVars, serverVars
<1>3. Buffers'
  BY <1>1, NoLineIs DEF ExchangeInv, Buffers, residueVars
<1>4. /\ pc' \in Answering /\ pc' \notin Asking /\ pc' \in Positions
      /\ pc \in Answering /\ pc \notin {"wait", "return"}
  BY <1>1 DEF Answering, Asking, Positions
<1>5. FlagsInv'
  BY <1>1, <1>4 DEF ExchangeInv, FlagsInv, residueVars
<1>6. OpeningInv'
  <2>1. <<>> \in Seq(Messages) /\ toServer' \in {toServer, toServer \o <<>>}
    BY <1>1, EmptySeq DEF serverVars
  <2> QED
    BY <1>1, <1>4, <2>1, FirstStays
<1> QED
  BY <1>2, <1>3, <1>5, <1>6 DEF ExchangeInv

\* A step of forward_chunked() that reads r and writes items.
LEMMA ChunkHolds ==
  ASSUME ExchangeInv, pc \in {"chunk", "chunkdata", "trailer", "chunkend"},
         pc' \in {"chunk", "chunkdata", "trailer", "chunkend", "aborted", "raw", "status", "finish"},
         UNCHANGED ChunkVars,
         NEW r, IF dir = "up" THEN LeavesClient(r) ELSE LeavesServer(r), Counted(r),
         NEW items \in Seq(Texts), Pass(r, items),
         line' \in Texts
  PROVE  ExchangeInv'
<1>1. UNCHANGED <<asked, sent, ended, conn, fd, buf, rq, cstatus, enc, trailer, isHostSet, length, dir, answer>>
  BY DEF ChunkVars, clientVars, residueVars
<1>2. ClientStreams' /\ ServerStreams' /\ toServer' \in {toServer, toServer \o items}
  BY <1>1, PassIs
<1>3. Buffers'
  BY <1>1 DEF ExchangeInv, Buffers
<1>4. /\ pc' \in Answering /\ pc' \notin Asking /\ pc' \in Positions
      /\ pc \in Answering /\ pc \notin {"wait", "return"}
  BY DEF Answering, Asking, Positions
<1>5. FlagsInv'
  <2>1. spins' \in 0 .. MaxSpins + 1
    BY CountedIs DEF ExchangeInv
  <2> QED
    BY <1>1, <1>4, <2>1 DEF ExchangeInv, FlagsInv
<1>6. OpeningInv'
  <2>1. items \in Seq(Messages)
    BY AppendedIs, EmptySeq
  <2> QED
    BY <1>1, <1>2, <1>4, <2>1, FirstStays
<1> QED
  BY <1>2, <1>3, <1>5, <1>6 DEF ExchangeInv

LEMMA ChunkSizeHolds ==
  ASSUME ExchangeInv, ChunkSize
  PROVE  ExchangeInv'
<1> DEFINE r == ChunkRead
           one == <<line'>>
<1>1. /\ pc = "chunk" /\ Counted(r) /\ line' \in r.lines /\ UNCHANGED ChunkVars
      /\ pc' \in {"trailer", "chunkend", "chunkdata", AfterChunks}
      /\ \E items \in Written(r, one) \cup {<<>>} : Pass(r, items)
  BY DEF ChunkSize
<1>2. line' \in Texts /\ IF dir = "up" THEN LeavesClient(r) ELSE LeavesServer(r)
  BY <1>1, ChunkLine
<1>3. one \in Seq(Texts)
  BY <1>2, SingleIn
<1> HIDE DEF r, one
<1>5. PICK items \in Written(r, one) \cup {<<>>} : Pass(r, items)
  BY <1>1
<1>6. items \in Seq(Texts)
  BY <1>3, WrittenIs, EmptySeq
<1>4. pc' \in {"chunk", "chunkdata", "trailer", "chunkend", "aborted", "raw", "status", "finish"}
  BY <1>1, AfterIs
<1> QED
  BY <1>1, <1>2, <1>4, <1>5, <1>6, ChunkHolds

LEMMA ChunkDataHolds ==
  ASSUME ExchangeInv, ChunkData
  PROVE  ExchangeInv'
<1>1. PICK r \in IF dir = "up" THEN ChunkReads(rio, inbox[fd], ended[fd]) ELSE ChunkReads(reply, <<>>, ~broken) :
        /\ Counted(r)
        /\ \E items \in Written(r, r.data) : Pass(r, items)
        /\ line' = IF r.data = <<>> THEN line ELSE <<"junk", r.data[1][2]>>
  BY DEF ChunkData
<1>2. pc = "chunkdata" /\ pc' = "chunk" /\ UNCHANGED ChunkVars
  BY DEF ChunkData
<1>3. /\ r.data \in Seq(Texts)
      /\ IF dir = "up" THEN LeavesClient(r) ELSE LeavesServer(r)
  BY ChunkReadsAre
<1>6. PICK items \in Written(r, r.data) : Pass(r, items)
  BY <1>1
<1>4. items \in Seq(Texts)
  BY <1>3, WrittenIs
<1>5. line' \in Texts
  <2>1. CASE r.data = <<>>
    BY <1>1, <2>1 DEF ExchangeInv, Buffers
  <2>2. CASE r.data # <<>>
    <3>1. r.data[1] \in Texts
      BY <1>3, <2>2, EmptySeq, LenProperties, ElementOfSeq
    <3>2. r.data[1][2] \in Clients \cup {"proxy", "server", "nobody"} /\ "junk" \in Spoken
      BY <3>1 DEF Texts, ItemsBy, Spoken, ItemKinds
    <3> QED
      BY <1>1, <2>2, <3>2 DEF Texts, ItemsBy
  <2> QED
    BY <2>1, <2>2
<1> QED
  BY <1>1, <1>2, <1>3, <1>4, <1>5, <1>6, ChunkHolds

LEMMA ChunkSpinsHolds ==
  ASSUME ExchangeInv, ChunkSpins
  PROVE  ExchangeInv'
<1>1. /\ pc = "chunk" /\ pc' = "spin"
      /\ UNCHANGED <<asked, sent, ended, conn, fd, buf, rq, cstatus, enc, trailer, isHostSet, length, dir, answer>>
      /\ UNCHANGED <<inbox, rio, line, spins, reply, broken, toServer, toClient>>
  BY DEF ChunkSpins, ChunkVars, clientVars, residueVars
<1>2. ClientStreams' /\ ServerStreams' /\ Buffers'
  BY <1>1, StreamsStay DEF ExchangeInv, Buffers
<1>3. /\ pc' \in Answering /\ pc' \notin Asking /\ pc' \in Positions
      /\ pc \in Answering /\ pc \notin {"wait", "return"}
  BY <1>1 DEF Answering, Asking, Positions
<1>4. FlagsInv'
  BY <1>1, <1>3 DEF ExchangeInv, FlagsInv
<1>5. OpeningInv'
  <2>1. <<>> \in Seq(Messages) /\ toServer' \in {toServer, toServer \o <<>>}
    BY <1>1, EmptySeq
  <2> QED
    BY <1>1, <1>3, <2>1, FirstStays
<1> QED
  BY <1>2, <1>4, <1>5 DEF ExchangeInv

LEMMA TrailerHolds ==
  ASSUME ExchangeInv, Trailer \/ ChunkEnd
  PROVE  ExchangeInv'
<1> DEFINE r == ChunkRead
           one == <<line'>>
<1>1. /\ pc \in {"trailer", "chunkend"} /\ Counted(r) /\ line' \in r.lines /\ UNCHANGED ChunkVars
      /\ \E items \in Written(r, one) \cup {<<>>} : Pass(r, items)
      /\ pc' \in {"chunkend", "aborted", AfterChunks}
  BY DEF Trailer, ChunkEnd
<1>2. line' \in Texts /\ IF dir = "up" THEN LeavesClient(r) ELSE LeavesServer(r)
  BY <1>1, ChunkLine
<1>3. one \in Seq(Texts)
  BY <1>2, SingleIn
<1> HIDE DEF r, one
<1>4. PICK items \in Written(r, one) \cup {<<>>} : Pass(r, items)
  BY <1>1
<1>5. items \in Seq(Texts)
  BY <1>3, WrittenIs, EmptySeq
<1>6. pc' \in {"chunk", "chunkdata", "trailer", "chunkend", "aborted", "raw", "status", "finish"}
  BY <1>1, AfterIs
<1> QED
  BY <1>1, <1>2, <1>4, <1>5, <1>6, ChunkHolds

-----------------------------------------------------------------------------
(* The answer.                                                             *)

\* A step that reads the answer at most.
LEMMA ReplyHolds ==
  ASSUME ExchangeInv, pc \in {"raw", "status", "replyheader", "replybody", "finish"},
         UNCHANGED <<asked, sent, ended, inbox, fd, rio, buf, dir, isHostSet, spins, answer, toServer>>,
         reply' = reply \/ LeavesServer([left |-> [rio |-> reply']]),
         line' \in Texts,
         cstatus' \in [close : BOOLEAN, shut : BOOLEAN],
         enc' \in [Directions -> BOOLEAN], trailer' \in [Directions -> BOOLEAN],
         length' \in {-1, 0, 2},
         \/ pc' \in {"raw", "replyheader", "replybody", "finish"} /\ UNCHANGED conn
         \/ /\ pc' = "return"
            /\ conn' = [conn EXCEPT ![fd] = "closed"] \/ conn' = [conn EXCEPT ![fd] = "armed"]
  PROVE  ExchangeInv'
<1>1. ClientStreams'
  BY DEF ExchangeInv, ClientStreams, Sendable
<1>2. ServerStreams'
  <2>1. toServer' \in Seq(Messages) /\ answer' \in Seq(Texts) /\ answer' = answer
    BY DEF ExchangeInv, ServerStreams
  <2>2. reply' \in Seq(Texts) /\ Trails(reply', answer)
    <3>1. CASE reply' = reply
      BY <3>1 DEF ExchangeInv, ServerStreams
    <3>2. CASE LeavesServer([left |-> [rio |-> reply']])
      BY <3>2 DEF LeavesServer
    <3> QED
      BY <3>1, <3>2
  <2>3. Trails(reply', answer')
    BY <2>1, <2>2
  <2>4. Trails(reply, answer)' <=> Trails(reply', answer')
    BY DEF Trails
  <2> QED
    BY <2>1, <2>2, <2>3, <2>4 DEF ServerStreams
<1>3. Buffers'
  BY DEF ExchangeInv, Buffers
<1>4. pc \in Answering /\ pc' \in Answering \cup {"return"} /\ pc' \notin Asking /\ pc' \in Positions
  BY DEF Answering, Asking, Positions
<1>5. FlagsInv'
  <2>1. conn \in [Clients -> {"armed", "served", "tunnel", "closed"}] /\ fd \in Clients /\ conn[fd] = "served"
    BY DEF ExchangeInv, FlagsInv
  <2>2. conn' \in [Clients -> {"armed", "served", "tunnel", "closed"}]
    BY <2>1
  <2>3. pc' \notin {"wait", "return"} => conn'[fd'] = "served"
    BY <2>1
  <2> QED
    BY <1>4, <2>2, <2>3 DEF ExchangeInv, FlagsInv
<1>6. OpeningInv'
  <2>1. <<>> \in Seq(Messages) /\ toServer' \in {toServer, toServer \o <<>>}
    BY EmptySeq
  <2> QED
    BY <1>4, <2>1, FirstStays
<1> QED
  BY <1>1, <1>2, <1>3, <1>5, <1>6 DEF ExchangeInv

LEMMA RawHolds ==
  ASSUME ExchangeInv, Raw
  PROVE  ExchangeInv'
<1>1. /\ pc = "raw"
      /\ UNCHANGED <<asked, sent, ended, inbox, fd, rio, buf, rq, cstatus, enc, trailer, line, isHostSet,
                     length, dir, spins, answer, toServer>>
      /\ \/ reply # <<>> /\ reply' = Tail(reply) /\ UNCHANGED <<pc, conn>>
         \/ reply' = <<>> /\ UNCHANGED <<pc, conn>>
         \/ pc' = "return" /\ conn' = [conn EXCEPT ![fd] = "closed"] /\ UNCHANGED reply
  BY DEF Raw, Closed, clientVars, residueVars, localVars
<1>2. reply' = reply \/ LeavesServer([left |-> [rio |-> reply']])
  <2>1. CASE reply # <<>> /\ reply' = Tail(reply)
    <3>1. reply \in Seq(Texts) /\ answer \in Seq(Texts)
      BY DEF ExchangeInv, ServerStreams
    <3>2. PICK n \in 0 .. Len(answer) :
            /\ Len(reply) = Len(answer) - n
            /\ \A i \in 2 .. Len(reply) : reply[i] = answer[n + i]
      BY DEF ExchangeInv, ServerStreams, Trails
    <3>3. /\ Tail(reply) \in Seq(Texts) /\ Len(Tail(reply)) = Len(reply) - 1
          /\ \A i \in 1 .. Len(reply) - 1 : Tail(reply)[i] = reply[i + 1]
      BY <2>1, <3>1, HeadTailProperties, LenProperties
    <3>4. Len(reply) \in Nat \ {0} /\ Len(answer) \in Nat
      BY <2>1, <3>1, EmptySeq, LenProperties
    <3>5. n + 1 \in 0 .. Len(answer) /\ Len(Tail(reply)) = Len(answer) - (n + 1)
      BY <3>2, <3>3, <3>4
    <3>6. ASSUME NEW i \in 2 .. Len(Tail(reply)) PROVE Tail(reply)[i] = answer[n + 1 + i]
      <4>1. i \in 1 .. Len(reply) - 1 /\ i + 1 \in 2 .. Len(reply) /\ n + (i + 1) = n + 1 + i
        BY <3>2, <3>3, <3>4
      <4> QED
        BY <3>2, <3>3, <4>1
    <3>7. Trails(Tail(reply), answer)
      BY <3>5, <3>6 DEF Trails
    <3> DEFINE r == [left |-> [rio |-> Tail(reply)]]
    <3>8. r.left.rio = Tail(reply)
      OBVIOUS
    <3>9. r = [left |-> [rio |-> reply']]
      BY <2>1
    <3> HIDE DEF r
    <3>10. LeavesServer(r)
      BY <3>3, <3>7, <3>8, Zenon DEF LeavesServer
    <3> QED
      BY <3>9, <3>10, Zenon
  <2>2. CASE reply' = <<>>
    <3>1. answer \in Seq(Texts) /\ Len(answer) \in Nat
      BY LenProperties DEF ExchangeInv, ServerStreams
    <3>2. Trails(<<>>, answer)
      <4>1. /\ Len(answer) \in 0 .. Len(answer) /\ Len(<<>>) = Len(answer) - Len(answer)
            /\ \A i \in 2 .. Len(<<>>) : <<>>[i] = answer[Len(answer) + i]
        BY <3>1
      <4> QED
        BY <4>1 DEF Trails
    <3>3. reply' \in Seq(Texts) /\ Trails(reply', answer)
      BY <2>2, <3>2, EmptySeq
    <3> DEFINE r == [left |-> [rio |-> reply']]
    <3>4. r.left.rio = reply'
      OBVIOUS
    <3> HIDE DEF r
    <3>5. LeavesServer(r)
      BY <3>3, <3>4, Zenon DEF LeavesServer
    <3> QED
      BY <3>5, Zenon DEF r
  <2> QED
    BY <1>1, <2>1, <2>2
<1>3. /\ line' \in Texts /\ cstatus' \in [close : BOOLEAN, shut : BOOLEAN]
      /\ enc' \in [Directions -> BOOLEAN] /\ trailer' \in [Directions -> BOOLEAN] /\ length' \in {-1, 0, 2}
  BY <1>1 DEF ExchangeInv, FlagsInv, Buffers
<1> QED
  BY <1>1, <1>2, <1>3, ReplyHolds

LEMMA ReplyStatusHolds ==
  ASSUME ExchangeInv, ReplyStatus
  PROVE  ExchangeInv'
<1> DEFINE r == FromServer(NoLine)
<1>1. /\ pc = "status" /\ reply' = r.left.rio /\ length' = -1 /\ pc' \in {"finish", "replyheader"}
      /\ line' = line \/ line' \in r.lines
      /\ UNCHANGED <<asked, sent, ended, inbox, conn, fd, rio, buf, rq, cstatus, enc, trailer, isHostSet,
                     dir, spins, answer, toServer>>
  BY DEF ReplyStatus, Took, clientVars, residueVars
<1>2. line \in Texts /\ LeavesServer(r) /\ r.lines \subseteq Texts
  BY NoLineIs, ServerLine DEF ExchangeInv, Buffers
<1> HIDE DEF r
<1>3. /\ line' \in Texts /\ cstatus' \in [close : BOOLEAN, shut : BOOLEAN]
      /\ enc' \in [Directions -> BOOLEAN] /\ trailer' \in [Directions -> BOOLEAN]
  BY <1>1, <1>2 DEF ExchangeInv, FlagsInv
<1>4. LeavesServer([left |-> [rio |-> reply']])
  BY <1>1, <1>2 DEF LeavesServer
<1> QED
  BY <1>1, <1>3, <1>4, ReplyHolds

LEMMA ReplyHeaderHolds ==
  ASSUME ExchangeInv, ReplyHeader \/ ReplyReset
  PROVE  ExchangeInv'
<1> DEFINE r == FromServer(line)
<1>1. /\ pc = "replyheader" /\ reply' = r.left.rio /\ pc' \in {"replybody", "replyheader"}
      /\ line' \in r.lines /\ (Note(line', "down") \/ UNCHANGED <<enc, trailer, length>>)
      /\ UNCHANGED <<asked, sent, ended, inbox, conn, fd, rio, buf, rq, cstatus, isHostSet, dir, spins,
                     answer, toServer>>
  BY DEF ReplyHeader, ReplyReset, Took, clientVars, residueVars
<1>2. line \in Texts /\ LeavesServer(r) /\ r.lines \subseteq Texts
  BY ServerLine DEF ExchangeInv, Buffers
<1> HIDE DEF r
<1>3. /\ enc' \in [Directions -> BOOLEAN] /\ trailer' \in [Directions -> BOOLEAN]
      /\ length' \in {-1, 0, 2}
  <2>1. "down" \in Directions /\ FlagsInv
    BY DEF Directions, ExchangeInv
  <2>2. CASE Note(line', "down")
    BY <2>1, <2>2, NoteIs
  <2>3. CASE UNCHANGED <<enc, trailer, length>>
    BY <2>1, <2>3 DEF FlagsInv
  <2> QED
    BY <1>1, <2>2, <2>3
<1>4. line' \in Texts /\ cstatus' \in [close : BOOLEAN, shut : BOOLEAN]
  BY <1>1, <1>2 DEF ExchangeInv, FlagsInv
<1>5. LeavesServer([left |-> [rio |-> reply']])
  BY <1>1, <1>2 DEF LeavesServer
<1> QED
  BY <1>1, <1>3, <1>4, <1>5, ReplyHolds

LEMMA ReplyBodyHolds ==
  ASSUME ExchangeInv, ReplyBody
  PROVE  ExchangeInv'
<1> DEFINE W == Clients \cup {"proxy", "server", "nobody"}
           nothing == <<>>
           eof == ~broken
           r == ReadBytes(reply, nothing, eof, length)
<1>1. /\ pc = "replybody" /\ length >= 0 /\ reply' = r.left.rio /\ pc' = "finish"
      /\ UNCHANGED <<asked, sent, ended, inbox, conn, fd, rio, buf, rq, cstatus, enc, trailer, line, isHostSet,
                     length, dir, spins, answer, toServer>>
  BY DEF ReplyBody, Took, clientVars, residueVars, localVars
<1>2. /\ reply \in Seq(ItemsBy(W)) /\ nothing \in Seq(ItemsBy(W)) /\ length \in Nat
      /\ ItemsBy(W) = Texts /\ W \subseteq W
  BY <1>1, EmptySeq DEF ExchangeInv, FlagsInv, ServerStreams, Texts
<1> HIDE DEF W, nothing, eof
<1>3. \E m \in 0 .. Len(reply \o nothing) : r.left = Consume(reply, nothing, m)
  <2>1. BytesRead(ItemsBy(W), reply, nothing, eof, r)
    BY <1>2, ReadBytesIs, Zenon
  <2> QED
    BY <2>1, Zenon DEF BytesRead
<1> HIDE DEF r
<1>4. LeavesServer(r)
  BY <1>3, ServerRead DEF nothing, ExchangeInv
<1>5. LeavesServer([left |-> [rio |-> reply']])
  BY <1>1, <1>4 DEF LeavesServer
<1>6. /\ line' \in Texts /\ cstatus' \in [close : BOOLEAN, shut : BOOLEAN]
      /\ enc' \in [Directions -> BOOLEAN] /\ trailer' \in [Directions -> BOOLEAN] /\ length' \in {-1, 0, 2}
  BY <1>1 DEF ExchangeInv, FlagsInv, Buffers
<1> QED
  BY <1>1, <1>5, <1>6, ReplyHolds

\* The ends that read nothing.
LEMMA ReplyEndHolds ==
  ASSUME ExchangeInv, ReplyCut \/ NoReplyBody \/ Finish
  PROVE  ExchangeInv'
<1>1. /\ pc \in {"replyheader", "replybody", "finish"}
      /\ UNCHANGED <<asked, sent, ended, inbox, fd, rio, buf, enc, trailer, line, isHostSet, length, dir, spins,
                     answer, reply, toServer>>
  BY DEF ReplyCut, NoReplyBody, Finish, clientVars, residueVars, localVars, serverVars
<1>2. \/ pc' = "finish" /\ UNCHANGED conn
      \/ /\ pc' = "return"
         /\ conn' = [conn EXCEPT ![fd] = "closed"] \/ conn' = [conn EXCEPT ![fd] = "armed"]
  BY DEF ReplyCut, NoReplyBody, Finish, Closed
<1>3. cstatus' \in [close : BOOLEAN, shut : BOOLEAN]
  <2>1. \/ cstatus' = [cstatus EXCEPT !.shut = TRUE]
        \/ cstatus' = [cstatus EXCEPT !.close = TRUE]
        \/ UNCHANGED cstatus
    BY DEF ReplyCut, NoReplyBody, Finish, residueVars
  <2>2. FlagsInv
    BY DEF ExchangeInv
  <2> QED
    BY <2>1, <2>2, StatusIs DEF FlagsInv
<1>4. /\ line' \in Texts
      /\ enc' \in [Directions -> BOOLEAN] /\ trailer' \in [Directions -> BOOLEAN] /\ length' \in {-1, 0, 2}
  BY <1>1 DEF ExchangeInv, FlagsInv, Buffers
<1> QED
  BY <1>1, <1>2, <1>3, <1>4, ReplyHolds

\* ExchangeInv is inductive.
LEMMA NextHolds ==
  ASSUME ExchangeInv, [Next]_vars
  PROVE  ExchangeInv'
<1>1. CASE Wake
  BY <1>1, WakeHolds
<1>2. ASSUME NEW c \in Clients, Send(c) PROVE ExchangeInv'
  BY <1>2, SendHolds
<1>3. ASSUME NEW c \in Clients, End(c) PROVE ExchangeInv'
  BY <1>3, EndHolds
<1>4. CASE Return \/ ReadRequest
  BY <1>4, ReturnHolds, ReadRequestHolds
<1>5. CASE OpenFails \/ OpenServer \/ NotImplemented \/ StartConnect
  BY <1>5, RefusedHolds, OpenServerHolds
<1>6. CASE SkipHeader \/ StartTunnel
  BY <1>6, ConnectHolds
<1>7. CASE RequestHeader \/ RequestCut \/ RequestBody \/ NoRequestBody
  BY <1>7, RequestHeaderHolds, RequestCutHolds, RequestBodyHolds, NoRequestBodyHolds
<1>8. ASSUME NEW d \in Directions, StartChunked(d) PROVE ExchangeInv'
  BY <1>8, StartChunkedHolds
<1>9. CASE ChunkSize \/ ChunkData \/ ChunkSpins \/ Trailer \/ ChunkEnd
  BY <1>9, ChunkSizeHolds, ChunkDataHolds, ChunkSpinsHolds, TrailerHolds
<1>10. CASE Raw \/ ReplyStatus \/ ReplyHeader \/ ReplyReset \/ ReplyBody
  BY <1>10, RawHolds, ReplyStatusHolds, ReplyHeaderHolds, ReplyBodyHolds
<1>11. CASE ReplyCut \/ NoReplyBody \/ Finish
  BY <1>11, ReplyEndHolds
<1>12. CASE UNCHANGED vars
  <2>1. /\ UNCHANGED <<asked, sent, ended, inbox, conn, pc, fd, rio, buf, rq, cstatus, enc, trailer>>
        /\ UNCHANGED <<line, isHostSet, length, dir, spins, answer, reply, toServer, toClient>>
    BY <1>12 DEF vars, clientVars, residueVars, localVars, serverVars
  <2>2. ClientStreams' /\ ServerStreams'
    BY <2>1, StreamsStay DEF ExchangeInv
  <2> QED
    BY <2>1, <2>2 DEF ExchangeInv, FlagsInv, Buffers, OpeningInv
<1> QED
  BY <1>1, <1>2, <1>3, <1>4, <1>5, <1>6, <1>7, <1>8, <1>9, <1>10, <1>11, <1>12 DEF Next, DoitStep

-----------------------------------------------------------------------------
(* The parts of the request line.                                          *)

\* The strings of rqdata are lines, or empty.
PartsInv ==
  /\ broken \in BOOLEAN
  /\ rq \in [kind : Spoken, host : Texts, port : Texts, loc : Texts]

\* Once the client's line has been read in time, rqdata holds what it says.
OwnInv == (pc = "open" \/ toServer # <<>>) /\ spins = 0 => OwnLine(buf)

\* A line that is there when it is asked for is the client's own.
LEMMA RequestLine ==
  ASSUME ExchangeInv, pc = "request", NEW r, r = FromClient(buf), r.ret > 0, NEW l \in r.lines
  PROVE  l[2] = fd
<1> DEFINE all == rio \o inbox[fd]
           n == SelectInSeq(all, IsTerminated)
           first == all[1]
<1>1. fd \in Clients /\ ClientStreams /\ rio = <<>>
  BY DEF ExchangeInv, FlagsInv, OpeningInv
<1>2. /\ inbox[fd] \in Seq(Sendable(fd)) /\ all = inbox[fd] /\ Len(all) \in Nat
      /\ all \in Seq(Sendable(fd)) /\ all \in Seq(ItemsBy({fd}))
  <2>1. inbox[fd] \in Seq(Sendable(fd))
    BY <1>1 DEF ClientStreams
  <2>2. <<>> \o inbox[fd] = inbox[fd]
    BY <2>1, ConcatEmptySeq
  <2>3. inbox[fd] \in Seq(ItemsBy({fd})) /\ Len(inbox[fd]) \in Nat
    BY <1>1, <2>1, ClientsTexts, LenProperties
  <2> QED
    BY <1>1, <2>1, <2>2, <2>3
<1>3. all # <<>> => first[2] = fd
  <2> HAVE all # <<>>
  <2>1. 1 \in 1 .. Len(all)
    BY <1>2, EmptySeq
  <2>2. first \in ToSet(asked[fd]) \X {fd}
    BY <1>2, <2>1, ElementOfSeq DEF Sendable
  <2> QED
    BY <2>2
<1>4. n \in 0 .. Len(all)
  BY <1>2, LineEnd
<1>5. CASE n > 0
  <2>1. l = Join(SubSeq(all, 1, n))
    BY <1>5 DEF FromClient, ReadLine
  <2> HIDE DEF all, n
  <2>2. PICK items \in Seq(ItemsBy({fd})) : /\ items = SubSeq(all, 1, n) /\ Len(items) = n
                                            /\ \A i \in 1 .. n : items[i] = all[i]
    <3>1. all \in Seq(ItemsBy({fd})) /\ n \in 0 .. Len(all)
      BY <1>2, <1>4
    <3>2. /\ SubSeq(all, 1, n) \in Seq(ItemsBy({fd})) /\ Len(SubSeq(all, 1, n)) = n
          /\ \A i \in 1 .. n : SubSeq(all, 1, n)[i] = all[i]
      BY <3>1, FirstItems
    <3> QED
      BY <3>2
  <2>3. items # <<>> /\ items[1] = all[1] /\ all # <<>>
    BY <1>2, <1>4, <1>5, <2>2, EmptySeq
  <2>4. l[2] = items[1][2]
    BY <2>1, <2>2, <2>3, JoinIs
  <2> QED
    BY <1>3, <2>3, <2>4 DEF first
<1>6. CASE ~(n > 0)
  <2> DEFINE whole == <<HeadOf[first[1]], first[2]>>
             endless == IF Len(all) = 1 /\ first[1] \in DOMAIN HeadOf THEN {whole} ELSE {}
             junk == <<"junk", first[2]>>
  <2>1. /\ r.ret = IF ended[fd] THEN Len(all) ELSE -1
        /\ r.lines = IF all = <<>> THEN {buf} ELSE {junk} \cup (IF ~ended[fd] THEN {buf} ELSE endless)
    BY <1>6 DEF FromClient, ReadLine
  <2>2. ended[fd] /\ Len(all) > 0
    BY <1>2, <2>1
  <2>3. all # <<>>
    BY <2>2
  <2>4. junk[2] = fd /\ whole[2] = fd
    BY <1>3, <2>3
  <2> HIDE DEF all, junk, whole
  <2>5. l = junk \/ l = whole
    BY <2>1, <2>2, <2>3
  <2> QED
    BY <2>4, <2>5
<1> QED
  BY <1>5, <1>6

LEMMA PartsInit ==
  ASSUME Init
  PROVE  PartsInv /\ OwnInv
<1>1. "junk" \in Spoken
  BY DEF Spoken, ItemKinds
<1> QED
  BY <1>1, NoLineIs DEF Init, PartsInv, OwnInv

LEMMA CopiedIs ==
  ASSUME PartsInv, NEW l \in Texts, NEW parts
  PROVE  Copied(l, parts) \in [kind : Spoken, host : Texts, port : Texts, loc : Texts]
BY DEF PartsInv, Copied

LEMMA ReadRequestParts ==
  ASSUME ExchangeInv, PartsInv, ReadRequest
  PROVE  PartsInv' /\ OwnInv'
<1> DEFINE r == FromClient(buf)
<1>1. PICK l \in r.lines :
        /\ buf' = l
        /\ \/ /\ l[1] \in Methods /\ pc' = "open"
              /\ rq' = [Copied(l, PartsOf(l[1])) EXCEPT !.kind = l[1]]
           \/ /\ pc' = "return"
              /\ \E parts : rq' = Copied(l, parts)
  BY DEF ReadRequest
<1>2. /\ pc = "request" /\ fd' = fd /\ broken' = broken /\ toServer' = <<>>
      /\ spins' = IF r.ret <= 0 THEN spins + 1 ELSE spins
      /\ spins = 0
  BY DEF ReadRequest, ExchangeInv, OpeningInv, Opening, serverVars
<1>3. l \in Texts /\ r.ret \in Int
  <2>1. fd \in Clients /\ ClientStreams /\ buf \in Texts
    BY DEF ExchangeInv, FlagsInv, Buffers
  <2>2. r.lines \subseteq Texts
    BY <2>1, ClientLine
  <2>3. rio \in Seq(Texts) /\ inbox[fd] \in Seq(Texts)
    BY <2>1, ClientsTexts DEF ClientStreams
  <2>4. r.ret \in Int
    BY <2>3, LineReturns DEF FromClient
  <2> QED
    BY <2>2, <2>4
<1>4. ASSUME NEW kind \in Spoken
      PROVE  /\ [Copied(l, PartsOf(kind)) EXCEPT !.kind = kind] \in [kind : Spoken, host : Texts, port : Texts, loc : Texts]
             /\ [Copied(l, PartsOf(kind)) EXCEPT !.kind = kind].kind = kind
             /\ kind \in WithHost => [Copied(l, PartsOf(kind)) EXCEPT !.kind = kind].host = l
             /\ kind \in WithPort => [Copied(l, PartsOf(kind)) EXCEPT !.kind = kind].port = l
             /\ kind \in WithPath => [Copied(l, PartsOf(kind)) EXCEPT !.kind = kind].loc = l
  <2>1. /\ kind \in WithHost => "host" \in PartsOf(kind)
        /\ kind \in WithPort => "port" \in PartsOf(kind)
        /\ kind \in WithPath => "loc" \in PartsOf(kind)
    BY DEF PartsOf
  <2> DEFINE parts == PartsOf(kind)
  <2> HIDE DEF parts
  <2>2. /\ [Copied(l, parts) EXCEPT !.kind = kind] \in [kind : Spoken, host : Texts, port : Texts, loc : Texts]
        /\ [Copied(l, parts) EXCEPT !.kind = kind].kind = kind
        /\ "host" \in parts => [Copied(l, parts) EXCEPT !.kind = kind].host = l
        /\ "port" \in parts => [Copied(l, parts) EXCEPT !.kind = kind].port = l
        /\ "loc" \in parts => [Copied(l, parts) EXCEPT !.kind = kind].loc = l
    BY <1>3 DEF Copied, PartsInv
  <2> QED
    BY <2>1, <2>2 DEF parts
<1>5. Methods \subseteq Spoken
  BY DEF Spoken, ItemKinds
<1>6. PartsInv'
  BY <1>1, <1>2, <1>3, <1>4, <1>5, CopiedIs DEF PartsInv
<1>7. OwnInv'
  <2> SUFFICES ASSUME pc' = "open", spins' = 0 PROVE OwnLine(l)'
    BY <1>1, <1>2 DEF OwnInv
  <2>1. r.ret > 0
    BY <1>2, <1>3
  <2>2. l[2] = fd
    BY <1>2, <2>1, RequestLine
  <2>3. rq' = [Copied(l, PartsOf(l[1])) EXCEPT !.kind = l[1]] /\ l[1] \in Spoken
    BY <1>1, <1>5
  <2> QED
    BY <1>2, <1>4, <2>2, <2>3 DEF OwnLine
<1> QED
  BY <1>6, <1>7

\* The steps that leave the request line alone.
LEMMA PartsStay ==
  ASSUME ExchangeInv, PartsInv, OwnInv, UNCHANGED <<fd, buf, rq>>,
         broken' \in BOOLEAN, spins' = 0 => spins = 0,
         pc' = "open" \/ toServer' # <<>> => pc = "open" \/ toServer # <<>>
  PROVE  PartsInv' /\ OwnInv'
BY DEF PartsInv, OwnInv, OwnLine

LEMMA PartsNext ==
  ASSUME ExchangeInv, PartsInv, OwnInv, [Next]_vars
  PROVE  PartsInv' /\ OwnInv'
<1>1. spins \in Nat /\ broken \in BOOLEAN
  BY DEF ExchangeInv, FlagsInv, PartsInv
<1>2. CASE Wake
  <2>1. /\ rq' \in {rq, [rq EXCEPT !.host = NoLine, !.port = NoLine, !.loc = NoLine]}
        /\ pc' = "request" /\ UNCHANGED <<broken, toServer>> /\ toServer = <<>>
    BY <1>2 DEF Wake, serverVars, ExchangeInv, OpeningInv, Opening
  <2>2. [rq EXCEPT !.host = NoLine, !.port = NoLine, !.loc = NoLine]
          \in [kind : Spoken, host : Texts, port : Texts, loc : Texts]
    BY NoLineIs DEF PartsInv
  <2> QED
    BY <2>1, <2>2 DEF PartsInv, OwnInv
<1>3. CASE Return
  BY <1>3 DEF Return, residueVars, PartsInv, OwnInv
<1>4. CASE ReadRequest
  BY <1>4, ReadRequestParts
<1>5. CASE SkipHeader \/ StartTunnel
  <2>1. pc \in Opening /\ UNCHANGED <<rq, broken, toServer>> /\ pc' # "open"
    BY <1>5 DEF SkipHeader, StartTunnel, serverVars, Opening
  <2> QED
    BY <2>1 DEF ExchangeInv, OpeningInv, PartsInv, OwnInv
<1>6. ASSUME NEW c \in Clients, Send(c) \/ End(c) PROVE PartsInv' /\ OwnInv'
  BY <1>1, <1>6, PartsStay DEF Send, End, residueVars, localVars, serverVars
<1>7. CASE OpenFails \/ OpenServer \/ NotImplemented \/ StartConnect
  BY <1>1, <1>7, PartsStay DEF OpenFails, OpenServer, NotImplemented, StartConnect, residueVars, localVars, serverVars
<1>8. CASE RequestHeader \/ RequestCut \/ RequestBody \/ NoRequestBody
  <2>1. spins' = 0 => spins = 0
    BY <1>1, <1>8 DEF RequestHeader, RequestCut, RequestBody, NoRequestBody, Counted, localVars
  <2>2. UNCHANGED <<fd, buf, rq, broken>>
    BY <1>8 DEF RequestHeader, RequestCut, RequestBody, NoRequestBody, residueVars, serverVars
  <2>3. pc \in Answering /\ pc' # "open"
    BY <1>8, AfterIs DEF RequestHeader, RequestCut, RequestBody, NoRequestBody, Answering, Positions
  <2> QED
    BY <1>1, <2>1, <2>2, <2>3, PartsStay DEF ExchangeInv, OpeningInv
<1>9. CASE (\E d \in Directions : StartChunked(d)) \/ ChunkSpins
  <2>1. UNCHANGED <<fd, buf, rq, broken, spins, toServer>> /\ pc' # "open"
    BY <1>9 DEF StartChunked, ChunkSpins, ChunkVars, residueVars, serverVars
  <2> QED
    BY <1>1, <2>1, PartsStay
<1>10. CASE ChunkSize \/ ChunkData \/ Trailer \/ ChunkEnd
  <2>1. UNCHANGED <<fd, buf, rq>> /\ pc \in Answering /\ pc' # "open"
    BY <1>10, AfterIs DEF ChunkSize, ChunkData, Trailer, ChunkEnd, ChunkVars, residueVars, Answering, Positions
  <2>2. \E r : Counted(r) /\ \E items : Pass(r, items)
    BY <1>10 DEF ChunkSize, ChunkData, Trailer, ChunkEnd
  <2>3. spins' = 0 => spins = 0
    BY <1>1, <2>2 DEF Counted
  <2>4. broken' \in BOOLEAN
    BY <1>1, <2>2 DEF Pass, Took
  <2> QED
    BY <2>1, <2>3, <2>4, PartsStay DEF ExchangeInv, OpeningInv
<1>11. CASE Raw \/ ReplyStatus \/ ReplyHeader \/ ReplyReset \/ ReplyCut \/ ReplyBody \/ NoReplyBody \/ Finish
  <2>1. UNCHANGED <<fd, buf, rq, spins, toServer>> /\ pc \in Answering /\ pc' # "open"
    BY <1>11 DEF Raw, ReplyStatus, ReplyHeader, ReplyReset, ReplyCut, ReplyBody, NoReplyBody, Finish,
                 residueVars, localVars, serverVars, Answering, Positions
  <2>2. broken' \in BOOLEAN
    BY <1>1, <1>11 DEF Raw, ReplyStatus, ReplyHeader, ReplyReset, ReplyCut, ReplyBody, NoReplyBody, Finish,
                       Took, serverVars
  <2> QED
    BY <2>1, <2>2, PartsStay DEF ExchangeInv, OpeningInv
<1>12. CASE UNCHANGED vars
  BY <1>1, <1>12, PartsStay DEF vars, residueVars, localVars, serverVars
<1> QED
  BY <1>2, <1>3, <1>4, <1>5, <1>6, <1>7, <1>8, <1>9, <1>10, <1>11, <1>12 DEF Next, DoitStep

-----------------------------------------------------------------------------
(* What is passed on of a message.                                         *)

\* Joining is associative.
Associates(s, t, u) == (s \o t) \o u = s \o (t \o u)

LEMMA ThreeParts ==
  ASSUME NEW S, NEW s \in Seq(S), NEW t \in Seq(S), NEW u \in Seq(S)
  PROVE  Associates(s, t, u)
BY ConcatAssociative DEF Associates

\* Numbers have a least one: how what a recursion says of every number is proved.
Less == OpToRel(<, Nat)

LEMMA LeastOf ==
  ASSUME NEW S \in SUBSET Nat, S # {}
  PROVE  \E m \in S : \A k \in S : ~(k < m)
<1>1. IsWellFoundedOn(Less, Nat)
  BY NatLessThanWellFounded, Zenon DEF Less
<1>2. PICK m \in S : \A k \in S : <<k, m>> \notin Less
  BY <1>1, WFMin
<1>3. \A k \in S : k < m => <<k, m>> \in Less
  BY Zenon DEF Less, OpToRel
<1> QED
  BY <1>2, <1>3

\* A function from 1 to n that PassedOn() could choose.
PassesTo(items, n, f) ==
  f = [k \in 1 .. n |-> IF k = 1 THEN <<>>
                        ELSE f[k - 1] \o IF items[k][1] \in {"close", "keep"} THEN <<>> ELSE <<items[k]>>]

\* PassedOn() is the function that its recursion describes.
LEMMA PassedOnIs ==
  ASSUME NEW S, NEW items \in Seq(S), items # <<>>
  PROVE  /\ PassedOn(items)[1] = <<>>
         /\ \A n \in 2 .. Len(items) :
              PassedOn(items)[n] = PassedOn(items)[n - 1] \o IF items[n][1] \in {"close", "keep"} THEN <<>> ELSE <<items[n]>>
<1> DEFINE missing == {n \in 1 .. Len(items) : ~ \E f : PassesTo(items, n, f)}
<1>1. Len(items) \in Nat \ {0}
  BY EmptySeq
<1>2. missing = {}
  <2> SUFFICES ASSUME missing # {} PROVE FALSE
    OBVIOUS
  <2>1. missing \in SUBSET Nat
    OBVIOUS
  <2>2. PICK n \in missing : \A m \in missing : ~(m < n)
    <3> HIDE DEF missing
    <3> QED
      BY <2>1, LeastOf
  <2>3. n \in 1 .. Len(items) /\ ~ \E f : PassesTo(items, n, f)
    OBVIOUS
  <2>4. CASE n = 1
    <3>1. PassesTo(items, 1, [k \in 1 .. 1 |-> <<>>])
      BY DEF PassesTo
    <3> QED
      BY <2>3, <2>4, <3>1
  <2>5. CASE n # 1
    <3>1. n - 1 \in 1 .. Len(items) /\ n - 1 \in Nat /\ n \in Nat /\ n - 1 < n
      BY <1>1, <2>3, <2>5
    <3>2. n - 1 \notin missing
      BY <2>2, <3>1
    <3>3. PICK f : PassesTo(items, n - 1, f)
      BY <3>1, <3>2
    <3> DEFINE last == f[n - 1] \o IF items[n][1] \in {"close", "keep"} THEN <<>> ELSE <<items[n]>>
               g == [k \in 1 .. n |-> IF k = n THEN last ELSE f[k]]
    <3>4. ASSUME NEW k \in 1 .. n
          PROVE  g[k] = IF k = 1 THEN <<>>
                        ELSE g[k - 1] \o IF items[k][1] \in {"close", "keep"} THEN <<>> ELSE <<items[k]>>
      <4>1. CASE k = n
        <5>1. n - 1 \in 1 .. n /\ n - 1 # n /\ k # 1
          BY <2>5, <3>1, <4>1
        <5>2. g[n - 1] = f[n - 1] /\ g[k] = last
          BY <4>1, <5>1
        <5> QED
          BY <4>1, <5>1, <5>2
      <4>2. CASE k # n
        <5>1. k \in 1 .. n - 1 /\ (k # 1 => k - 1 \in 1 .. n /\ k - 1 # n)
          BY <3>1, <4>2
        <5>2. g[k] = f[k] /\ (k # 1 => g[k - 1] = f[k - 1])
          BY <4>2, <5>1
        <5>3. f[k] = IF k = 1 THEN <<>>
                     ELSE f[k - 1] \o IF items[k][1] \in {"close", "keep"} THEN <<>> ELSE <<items[k]>>
          BY <3>3, <5>1 DEF PassesTo
        <5> QED
          BY <5>2, <5>3
      <4> QED
        BY <4>1, <4>2
    <3>5. g = [k \in 1 .. n |-> g[k]]
      OBVIOUS
    <3> HIDE DEF g
    <3>6. g = [k \in 1 .. n |-> IF k = 1 THEN <<>>
                               ELSE g[k - 1] \o IF items[k][1] \in {"close", "keep"} THEN <<>> ELSE <<items[k]>>]
      BY <3>4, <3>5, Zenon
    <3>7. PassesTo(items, n, g)
      BY <3>6, Zenon DEF PassesTo
    <3> QED
      BY <2>3, <3>7
  <2> QED
    BY <2>4, <2>5
<1>3. Len(items) \in 1 .. Len(items)
  BY <1>1
<1>4. \E f : PassesTo(items, Len(items), f)
  BY <1>2, <1>3
<1>5. PassesTo(items, Len(items), PassedOn(items))
  <2>1. PassedOn(items) = CHOOSE f : PassesTo(items, Len(items), f)
    BY Zenon DEF PassedOn, PassesTo
  <2> QED
    BY <1>4, <2>1
<1>6. ASSUME NEW n \in 1 .. Len(items)
      PROVE  PassedOn(items)[n] = IF n = 1 THEN <<>>
             ELSE PassedOn(items)[n - 1] \o IF items[n][1] \in {"close", "keep"} THEN <<>> ELSE <<items[n]>>
  <2> DEFINE f == PassedOn(items)
  <2>1. PassesTo(items, Len(items), f)
    BY <1>5
  <2> HIDE DEF f
  <2>2. f[n] = IF n = 1 THEN <<>>
               ELSE f[n - 1] \o IF items[n][1] \in {"close", "keep"} THEN <<>> ELSE <<items[n]>>
    BY <2>1 DEF PassesTo
  <2> QED
    BY <2>2 DEF f
<1>7. 1 \in 1 .. Len(items) /\ \A n \in 2 .. Len(items) : n \in 1 .. Len(items) /\ n # 1
  BY <1>1
<1> QED
  BY <1>6, <1>7

\* What is passed on are items of the stream.
LEMMA PassedOnType ==
  ASSUME NEW S, NEW items \in Seq(S), NEW n \in 1 .. Len(items)
  PROVE  PassedOn(items)[n] \in Seq(S)
<1> DEFINE f == PassedOn(items)
           others == {m \in 1 .. Len(items) : f[m] \notin Seq(S)}
<1>1. Len(items) \in Nat \ {0} /\ items # <<>>
  BY EmptySeq, LenProperties
<1>2. f[1] = <<>> /\ \A m \in 2 .. Len(items) :
                       f[m] = f[m - 1] \o IF items[m][1] \in {"close", "keep"} THEN <<>> ELSE <<items[m]>>
  BY <1>1, PassedOnIs
<1> HIDE DEF f
<1>3. others = {}
  <2> SUFFICES ASSUME others # {} PROVE FALSE
    OBVIOUS
  <2>1. others \in SUBSET Nat
    OBVIOUS
  <2>2. PICK m \in others : \A k \in others : ~(k < m)
    <3> HIDE DEF others
    <3> QED
      BY <2>1, LeastOf
  <2>3. m \in 1 .. Len(items) /\ m # 1
    <3>1. m \in 1 .. Len(items) /\ f[m] \notin Seq(S)
      OBVIOUS
    <3>2. <<>> \in Seq(S)
      BY EmptySeq
    <3>3. f[1] \in Seq(S)
      BY <1>2, <3>2
    <3> QED
      BY <3>1, <3>3, Zenon
  <2>4. m - 1 \in 1 .. Len(items) /\ m - 1 \in Nat /\ m \in Nat /\ m - 1 < m /\ m \in 2 .. Len(items)
    BY <1>1, <2>3
  <2>5. f[m - 1] \in Seq(S)
    BY <2>2, <2>4
  <2>6. items[m] \in S
    BY <2>3, ElementOfSeq
  <2> DEFINE more == IF items[m][1] \in {"close", "keep"} THEN <<>> ELSE <<items[m]>>
  <2>7. more \in Seq(S)
    BY <2>6, EmptySeq, SingleIn
  <2>8. f[m] = f[m - 1] \o more
    BY <1>2, <2>4
  <2> HIDE DEF more
  <2>9. f[m] \in Seq(S)
    BY <2>5, <2>7, <2>8, ConcatProperties
  <2> QED
    BY <2>9
<1> QED
  BY <1>3 DEF f

-----------------------------------------------------------------------------
(* What a read takes from a stream.                                        *)

\* s are the items after the p-th, up to the q-th.
Between(s, items, p, q) == Len(s) = q - p /\ \A i \in 1 .. Len(s) : s[i] = items[p + i]

\* What is left to read after a read of n items.
LEMMA ConsumeRest ==
  ASSUME NEW S, NEW buffer \in Seq(S), NEW socket \in Seq(S), NEW n \in 0 .. Len(buffer \o socket)
  PROVE  LET r == Consume(buffer, socket, n) IN
         /\ r.rio \in Seq(S) /\ r.inbox \in Seq(S)
         /\ Between(r.rio \o r.inbox, buffer \o socket, n, Len(buffer \o socket))
<1>a. PICK all : all = buffer \o socket
  OBVIOUS
<1>b. PICK r : r = Consume(buffer, socket, n)
  OBVIOUS
<1>c. PICK rest : rest = r.rio \o r.inbox
  OBVIOUS
<1>1. /\ all \in Seq(S) /\ Len(all) = Len(buffer) + Len(socket)
      /\ \A i \in 1 .. Len(buffer) + Len(socket) :
            all[i] = IF i <= Len(buffer) THEN buffer[i] ELSE socket[i - Len(buffer)]
  BY <1>a, ConcatProperties
<1>2. Len(buffer) \in Nat /\ Len(socket) \in Nat /\ Len(all) \in Nat /\ n \in Nat /\ n <= Len(all)
  BY <1>a, <1>1, LenProperties
<1> DEFINE Goal == /\ r.rio \in Seq(S) /\ r.inbox \in Seq(S)
                   /\ Len(rest) = Len(all) - n /\ \A i \in 1 .. Len(rest) : rest[i] = all[n + i]
<1>3. ASSUME n <= Len(buffer) PROVE Goal
  <2>1. r.rio = SubSeq(buffer, n + 1, Len(buffer)) /\ r.inbox = socket
    BY <1>b, <1>3 DEF Consume
  <2>2. n \in 0 .. Len(buffer)
    BY <1>2, <1>3
  <2>3. PICK b \in Seq(S) : /\ b = r.rio /\ Len(b) = Len(buffer) - n
                            /\ \A i \in 1 .. Len(buffer) - n : b[i] = buffer[n + i]
    <3>1. /\ SubSeq(buffer, n + 1, Len(buffer)) \in Seq(S)
          /\ Len(SubSeq(buffer, n + 1, Len(buffer))) = Len(buffer) - n
          /\ \A i \in 1 .. Len(buffer) - n : SubSeq(buffer, n + 1, Len(buffer))[i] = buffer[n + i]
      BY <2>2, LastItems
    <3> QED
      BY <2>1, <3>1
  <2>4. /\ rest \in Seq(S) /\ Len(rest) = Len(b) + Len(socket)
        /\ \A i \in 1 .. Len(b) + Len(socket) : rest[i] = IF i <= Len(b) THEN b[i] ELSE socket[i - Len(b)]
    BY <1>c, <2>1, <2>3, ConcatProperties
  <2>5. Len(rest) = Len(all) - n
    BY <1>1, <1>2, <2>3, <2>4
  <2>6. ASSUME NEW i \in 1 .. Len(rest) PROVE rest[i] = all[n + i]
    <3>1. i \in 1 .. Len(b) + Len(socket) /\ n + i \in 1 .. Len(buffer) + Len(socket) /\ i \in Nat
      BY <1>2, <2>3, <2>4
    <3>2. CASE i <= Len(b)
      <4>1. i \in 1 .. Len(buffer) - n /\ n + i <= Len(buffer)
        BY <1>2, <2>3, <3>1, <3>2
      <4> QED
        BY <1>1, <2>3, <2>4, <3>1, <3>2, <4>1
    <3>3. CASE ~(i <= Len(b))
      <4>1. ~(n + i <= Len(buffer)) /\ i - Len(b) = n + i - Len(buffer)
        BY <1>2, <2>3, <3>1, <3>3
      <4>2. rest[i] = socket[i - Len(b)]
        BY <2>4, <3>1, <3>3
      <4>3. all[n + i] = socket[n + i - Len(buffer)]
        BY <1>1, <3>1, <4>1
      <4> QED
        BY <4>1, <4>2, <4>3
    <3> QED
      BY <3>2, <3>3
  <2> QED
    BY <2>1, <2>3, <2>4, <2>5, <2>6
<1>4. ASSUME ~(n <= Len(buffer)) PROVE Goal
  <2>1. r.rio = SubSeq(all, n + 1, Len(all)) /\ r.inbox = <<>>
    BY <1>a, <1>b, <1>4 DEF Consume
  <2>2. /\ r.rio \in Seq(S) /\ Len(r.rio) = Len(all) - n
        /\ \A i \in 1 .. Len(all) - n : r.rio[i] = all[n + i]
    <3>1. /\ SubSeq(all, n + 1, Len(all)) \in Seq(S)
          /\ Len(SubSeq(all, n + 1, Len(all))) = Len(all) - n
          /\ \A i \in 1 .. Len(all) - n : SubSeq(all, n + 1, Len(all))[i] = all[n + i]
      BY <1>1, LastItems
    <3> QED
      BY <2>1, <3>1
  <2>3. rest = r.rio
    BY <1>c, <2>1, <2>2, ConcatEmptySeq
  <2>4. r.inbox \in Seq(S)
    BY <2>1, EmptySeq
  <2> QED
    BY <2>2, <2>3, <2>4
<1>5. /\ r.rio \in Seq(S) /\ r.inbox \in Seq(S)
      /\ Len(rest) = Len(all) - n /\ \A i \in 1 .. Len(rest) : rest[i] = all[n + i]
  BY <1>3, <1>4
<1> QED
  BY <1>a, <1>b, <1>c, <1>5 DEF Between

\* A whole line that is next is read as it is.
LEMMA NextLine ==
  ASSUME NEW W, NEW buffer \in Seq(ItemsBy(W)), NEW socket \in Seq(ItemsBy(W)),
         buffer \o socket # <<>>, (buffer \o socket)[1][1] \notin Unterminated \cup {"tail"},
         NEW eof, NEW old
  PROVE  LET r == ReadLine(buffer, socket, eof, old) IN
         r.ret = 1 /\ r.lines = {(buffer \o socket)[1]} /\ r.left = Consume(buffer, socket, 1)
<1>a. PICK all : all = buffer \o socket
  OBVIOUS
<1> DEFINE r == ReadLine(buffer, socket, eof, old)
           ends == {i \in 1 .. Len(all) : IsTerminated(all[i])}
           n == SelectInSeq(all, IsTerminated)
<1>1. all \in Seq(ItemsBy(W)) /\ Len(all) \in Nat \ {0}
  BY <1>a, ConcatProperties, EmptySeq
<1>2. 1 \in ends
  BY <1>a, <1>1 DEF IsTerminated
<1>3. n = IF ends # {} THEN Min(ends) ELSE 0
  BY DEF SelectInSeq
<1>4. ends \subseteq Nat /\ ends # {} /\ \A i \in ends : 1 <= i
  BY <1>2
<1> HIDE DEF ends
<1>5. Min(ends) \in ends /\ \A i \in ends : Min(ends) <= i
  BY <1>4, MinIsLeast
<1>6. n = 1
  <2>1. n \in ends /\ n <= 1
    BY <1>2, <1>3, <1>4, <1>5
  <2>2. n \in Nat /\ 1 <= n
    BY <1>4, <2>1
  <2> QED
    BY <2>1, <2>2
<1>7. r.ret = 1 /\ r.lines = {Join(SubSeq(all, 1, 1))} /\ r.left = Consume(buffer, socket, 1)
  BY <1>a, <1>6 DEF ReadLine
<1>8. PICK one \in Seq(ItemsBy(W)) : one = SubSeq(all, 1, 1) /\ Len(one) = 1 /\ one[1] = all[1]
  <2>1. 1 \in 0 .. Len(all) /\ 1 \in 1 .. 1
    BY <1>1
  <2>2. /\ SubSeq(all, 1, 1) \in Seq(ItemsBy(W)) /\ Len(SubSeq(all, 1, 1)) = 1
        /\ \A i \in 1 .. 1 : SubSeq(all, 1, 1)[i] = all[i]
    BY <1>1, <2>1, FirstItems
  <2> QED
    BY <2>1, <2>2
<1>9. Join(one) = all[1]
  BY <1>a, <1>8 DEF Join
<1> QED
  BY <1>a, <1>7, <1>8, <1>9

\* Nothing is read when nothing is there.
LEMMA NoLineThere ==
  ASSUME NEW buffer, NEW socket, buffer \o socket = <<>>,
         NEW eof, NEW old, NEW r, r = ReadLine(buffer, socket, eof, old)
  PROVE  r.ret = (IF eof THEN 0 ELSE -1) /\ r.lines = {old} /\ r.left = Consume(buffer, socket, 0)
<1> DEFINE all == buffer \o socket
           ends == {i \in 1 .. Len(all) : IsTerminated(all[i])}
<1>1. Len(all) = 0
  BY EmptySeq
<1>2. ends = {}
  BY <1>1
<1>3. SelectInSeq(all, IsTerminated) = 0
  BY <1>2 DEF SelectInSeq
<1> QED
  BY <1>1, <1>3 DEF ReadLine

\* Nothing is read at the end of the stream only.
LEMMA ReadNothing ==
  ASSUME NEW W, NEW buffer \in Seq(ItemsBy(W)), NEW socket \in Seq(ItemsBy(W)), NEW eof, NEW old,
         ReadLine(buffer, socket, eof, old).ret = 0
  PROVE  eof /\ buffer = <<>> /\ socket = <<>>
<1> DEFINE r == ReadLine(buffer, socket, eof, old)
           all == buffer \o socket
           n == SelectInSeq(all, IsTerminated)
<1>1. Len(buffer) \in Nat /\ Len(socket) \in Nat /\ Len(all) = Len(buffer) + Len(socket) /\ all \in Seq(ItemsBy(W))
  BY LenProperties, ConcatProperties
<1>2. r.ret = IF n > 0 THEN n ELSE IF eof THEN Len(all) ELSE -1
  BY DEF ReadLine
<1>3. eof /\ Len(all) = 0
  BY <1>2
<1> QED
  BY <1>1, <1>3, EmptySeq

-----------------------------------------------------------------------------
(* Bodies and junk are no lines.                                           *)

\* What may come after the empty line of a plain request.
Late(c) == {"body", "junk"} \X {c}

\* What is read as it is.
LEMMA WholeLines ==
  \A k \in Methods \cup Headers \cup {"blank", "status"} : k \notin Unterminated \cup {"tail"}
<1>1. DOMAIN HeadOf = {"gethead", "otherhead"}
  BY DEF HeadOf
<1> QED
  BY <1>1 DEF Methods, Headers, Unterminated

\* Late items as one line, after a part of one, after so many bytes and after a
\* chunk: what they make is no line, and what is left of them is late.
LEMMA LateJoin ==
  ASSUME NEW c, NEW items \in Seq(Late(c)), items # <<>>
  PROVE  Join(items)[1] = "junk"
<1>1. items[1] \in Late(c) /\ Len(items) \in Nat
  BY EmptySeq, LenProperties, ElementOfSeq
<1>2. items[1][1] \in {"body", "junk"}
  BY <1>1 DEF Late
<1>3. "body" \in Unterminated /\ items[1][1] \notin DOMAIN HeadOf
  BY <1>2 DEF Unterminated, HeadOf
<1> DEFINE junk == <<"junk", items[1][2]>>
<1>4. Join(items) = junk \/ (Join(items) = items[1] /\ items[1][1] \notin Unterminated)
  BY <1>3 DEF Join
<1>5. junk[1] = "junk"
  OBVIOUS
<1> HIDE DEF junk
<1> QED
  BY <1>2, <1>3, <1>4, <1>5

\* After the empty line no line is read any more.
LEMMA LateLine ==
  ASSUME NEW c, NEW buffer \in Seq(Late(c)), NEW socket \in Seq(Late(c)),
         NEW eof, NEW old, NEW r, r = ReadLine(buffer, socket, eof, old)
  PROVE  /\ \A l \in r.lines : l[1] = "junk" \/ l = old
         /\ r.ret > 0 => \A l \in r.lines : l[1] = "junk"
         /\ r.left.rio \in Seq(Late(c)) /\ r.left.inbox \in Seq(Late(c))
<1> DEFINE all == buffer \o socket
           n == SelectInSeq(all, IsTerminated)
           junk == <<"junk", all[1][2]>>
<1>1. all \in Seq(Late(c)) /\ Len(all) \in Nat
  BY ConcatProperties, LenProperties
<1>2. n \in 0 .. Len(all)
  BY <1>1, LineEnd
<1>3. \E m \in 0 .. Len(all) : r.left = Consume(buffer, socket, m)
  <2>1. Len(all) \in 0 .. Len(all)
    BY <1>1
  <2>2. r.left = Consume(buffer, socket, n) \/ r.left = Consume(buffer, socket, Len(all))
    BY DEF ReadLine
  <2> QED
    BY <1>2, <2>1, <2>2, Zenon
<1>4. ASSUME n > 0 PROVE \A l \in r.lines : l[1] = "junk"
  <2>1. r.lines = {Join(SubSeq(all, 1, n))}
    BY <1>4 DEF ReadLine
  <2>2. SubSeq(all, 1, n) \in Seq(Late(c)) /\ Len(SubSeq(all, 1, n)) = n
    <3> HIDE DEF all, n
    <3> QED
      BY <1>1, <1>2, FirstItems
  <2>3. n # 0
    BY <1>2, <1>4
  <2>4. \A s : Len(s) # 0 => s # <<>>
    OBVIOUS
  <2>5. Join(SubSeq(all, 1, n))[1] = "junk"
    <3> HIDE DEF all, n
    <3> QED
      BY <2>2, <2>3, <2>4, LateJoin
  <2> HIDE DEF all, n
  <2> QED
    BY <2>1, <2>5
<1>5. ASSUME ~(n > 0)
      PROVE  \A l \in r.lines : l[1] = "junk" \/ (l = old /\ ~(r.ret > 0))
  <2>1. all # <<>> => all[1][1] \notin DOMAIN HeadOf
    <3> HAVE all # <<>>
    <3>1. 1 \in 1 .. Len(all)
      BY <1>1, EmptySeq
    <3>2. all[1] \in Late(c)
      BY <1>1, <3>1, ElementOfSeq
    <3> QED
      BY <3>2 DEF Late, HeadOf
  <2>2. junk[1] = "junk"
    OBVIOUS
  <2>3. r.lines \subseteq {junk, old}
    BY <1>5, <2>1 DEF ReadLine
  <2>4. r.ret > 0 => r.lines = {junk}
    <3> HAVE r.ret > 0
    <3>1. r.ret = IF eof THEN Len(all) ELSE -1
      BY <1>5 DEF ReadLine
    <3>2. eof /\ Len(all) > 0
      <4> HIDE DEF all
      <4> QED
        BY <3>1
    <3>3. all # <<>>
      BY <3>2
    <3> QED
      BY <1>5, <2>1, <3>2, <3>3 DEF ReadLine
  <2> HIDE DEF junk
  <2> QED
    BY <2>2, <2>3, <2>4
<1>6. /\ \A l \in r.lines : l[1] = "junk" \/ l = old
      /\ r.ret > 0 => \A l \in r.lines : l[1] = "junk"
  <2> HIDE DEF n
  <2> QED
    BY <1>4, <1>5
<1> HIDE DEF all
<1>7. r.left.rio \in Seq(Late(c)) /\ r.left.inbox \in Seq(Late(c))
  BY <1>3, ConsumeIs DEF all
<1> QED
  BY <1>6, <1>7

LEMMA LatePart ==
  ASSUME NEW c, NEW buffer \in Seq(Late(c)), NEW socket \in Seq(Late(c)),
         NEW n \in Nat, n < Len(buffer \o socket), NEW r, r = ReadPart(buffer, socket, n)
  PROVE  r.left.rio \in Seq(Late(c)) /\ r.left.inbox \in Seq(Late(c))
<1> DEFINE all == buffer \o socket
           more == Consume(buffer, socket, n + 1)
           cut == all[n + 1]
           rest == IF IsTerminated(cut) THEN <<"junk", cut[2]>> ELSE cut
<1>1. all \in Seq(Late(c)) /\ Len(all) \in Nat
  BY ConcatProperties, LenProperties
<1>2. n + 1 \in 1 .. Len(all) /\ n + 1 \in 0 .. Len(all)
  BY <1>1
<1>3. cut \in Late(c)
  BY <1>1, <1>2, ElementOfSeq
<1>4. rest \in Late(c)
  BY <1>3 DEF Late
<1>5. r.left = [more EXCEPT !.rio = <<rest>> \o @]
  BY DEF ReadPart
<1>6. r.left.rio = <<rest>> \o more.rio /\ r.left.inbox = more.inbox
  BY <1>5 DEF Consume
<1>7. more.rio \in Seq(Late(c)) /\ more.inbox \in Seq(Late(c))
  <2> HIDE DEF cut, rest
  <2> QED
    BY <1>2, ConsumeIs
<1>8. <<rest>> \in Seq(Late(c))
  BY <1>4, SingleIn
<1> HIDE DEF rest, more
<1> QED
  BY <1>6, <1>7, <1>8, ConcatProperties

LEMMA LateBytes ==
  ASSUME NEW c, NEW buffer \in Seq(Late(c)), NEW socket \in Seq(Late(c)),
         NEW eof, NEW n \in Nat, NEW r, r = ReadBytes(buffer, socket, eof, n)
  PROVE  r.left.rio \in Seq(Late(c)) /\ r.left.inbox \in Seq(Late(c))
<1>1. BytesRead(Late(c), buffer, socket, eof, r)
  BY ReadBytesIs, Zenon
<1>2. PICK m \in 0 .. Len(buffer \o socket) : r.left = Consume(buffer, socket, m)
  BY <1>1, Zenon DEF BytesRead
<1> QED
  BY <1>2, ConsumeIs

LEMMA LateChunk ==
  ASSUME NEW c, NEW buffer \in Seq(Late(c)), NEW socket \in Seq(Late(c)),
         NEW eof, NEW r \in ChunkReads(buffer, socket, eof)
  PROVE  r.left.rio \in Seq(Late(c)) /\ r.left.inbox \in Seq(Late(c))
<1> DEFINE all == buffer \o socket
<1>1. Len(all) \in Nat
  BY ConcatProperties, LenProperties
<1>2. \/ \E n \in Nat : r = ReadBytes(buffer, socket, eof, n)
      \/ \E n \in 0 .. Len(all) - 1 : r = ReadPart(buffer, socket, n)
  <2>1. 1 \in Nat /\ 1 .. Len(all) + 1 \subseteq Nat
    OBVIOUS
  <2> QED
    BY <2>1 DEF ChunkReads
<1>3. \A n \in 0 .. Len(all) - 1 : n \in Nat /\ n < Len(all)
  BY <1>1
<1> QED
  BY <1>2, <1>3, LateBytes, LatePart

-----------------------------------------------------------------------------
(* Plain answers.                                                          *)

Chunking == {"chunk", "chunkdata", "trailer", "chunkend"}
IsUpload == pc \in Chunking /\ dir = "up"

\* The answer is a plain one, whose empty line is the n-th item.
AnswerIs(n) == IsPlainAnswer /\ n \in 2 .. Len(answer) /\ IsWhole(answer, n)

\* The first p items of the answer have been passed on, unless some did not
\* arrive, and no more been read.
Passed(p) ==
  /\ Between(reply, answer, p, Len(answer))
  /\ Whole(toClient) => toClient = <<Head(answer)>> \o CloseLines \o PassedOn(answer)[p]

\* Where doit() is in a plain answer.
AnswerAt(n) ==
  /\ pc = "replyheader" =>
       \E p \in 1 .. n - 1 :
         /\ Passed(p)
         /\ \A i \in 2 .. p : answer[i][1] \in {"length", "empty"} => length = Len(answer) - n
  /\ pc = "replybody" => Passed(n) /\ length = Len(answer) - n
  /\ pc = "finish" => enc["down"] \/ ~Whole(toClient) \/ toClient = Downstream

\* Before the reply the client is told nothing, and nothing of the answer is
\* read; then its parts go to the client one by one.
ReplyInv ==
  /\ pc \in {"wait", "request", "open", "connect", "tunnel", "header", "body", "status"} \/ IsUpload
       => toClient = <<>>
  /\ pc \in {"header", "body", "status"} \/ IsUpload => reply = answer
  /\ pc \in Chunking /\ dir = "down" => enc["down"]
  /\ pc \in {"replyheader", "replybody"} => toClient \in Seq(Texts)
  /\ \A n \in Nat : AnswerIs(n) => AnswerAt(n)

\* No byte is missing, so none is filled in.
LEMMA ProxyNothing ==
  ASSUME NEW n \in Int, NEW m \in Int, n <= m
  PROVE  Proxy([i \in 1 .. n - m |-> "garbage"]) = <<>>
<1> DEFINE garbage == "garbage"
           none == [i \in 1 .. n - m |-> garbage]
<1>1. 1 .. n - m = 1 .. 0
  OBVIOUS
<1>2. garbage \in Spoken
  BY DEF Spoken, ItemKinds
<1> HIDE DEF garbage
<1>3. none \in [1 .. 0 -> Spoken] /\ 0 \in Nat
  BY <1>1, <1>2
<1>4. DOMAIN none = 1 .. 0
  BY <1>1
<1> HIDE DEF none
<1>5. none \in Seq(Spoken)
  BY <1>3, Listing, Zenon
<1>6. Proxy(none) \in Seq(Texts)
  BY <1>5, ProxyIs
<1>7. DOMAIN Proxy(none) = 1 .. 0
  BY <1>4 DEF Proxy, By
<1>8. Len(Proxy(none)) = 0
  BY <1>6, <1>7, LenProperties
<1> QED
  BY <1>6, <1>8, EmptySeq DEF none, garbage

\* All that is there is read, no less and no more.
LEMMA ReadAll ==
  ASSUME NEW S, NEW buffer \in Seq(S), NEW socket \in Seq(S), NEW eof,
         NEW n \in Nat, n = Len(buffer \o socket)
  PROVE  LET r == ReadBytes(buffer, socket, eof, n) IN
         r.ret = n /\ r.data = buffer \o socket /\ Padded(r.data, n) = buffer \o socket
<1> DEFINE all == buffer \o socket
           r == ReadBytes(buffer, socket, eof, n)
<1>1. all \in Seq(S) /\ n \in Nat /\ n \in Int
  BY ConcatProperties, LenProperties
<1>2. r.ret = n /\ r.data = SubSeq(all, 1, n)
  BY <1>1 DEF ReadBytes
<1>3. SubSeq(all, 1, n) = all
  BY <1>1, SubSeqFull
<1>4. Proxy([i \in 1 .. n - Len(all) |-> "garbage"]) = <<>>
  <2>1. n <= n
    BY <1>1
  <2> QED
    BY <1>1, <2>1, ProxyNothing
<1>5. all \o <<>> = all
  BY <1>1, ConcatEmptySeq
<1>6. Padded(r.data, n) = r.data \o Proxy([i \in 1 .. n - Len(r.data) |-> "garbage"])
  BY DEF Padded
<1> QED
  BY <1>2, <1>3, <1>4, <1>5, <1>6

\* A body is passed on as it is.
LEMMA BodyPassed ==
  ASSUME NEW S, NEW items \in Seq(S), NEW n \in 1 .. Len(items), Len(items) - n \in {0, 2},
         \A i \in n + 1 .. Len(items) : items[i][1] = "body",
         NEW rest \in Seq(S), Between(rest, items, n, Len(items))
  PROVE  PassedOn(items)[Len(items)] = PassedOn(items)[n] \o rest
<1> DEFINE N == Len(items)
           f == PassedOn(items)
<1>1. N \in Nat /\ n \in Nat /\ items # <<>> /\ Len(rest) = N - n /\ \A i \in 1 .. Len(rest) : rest[i] = items[n + i]
  BY LenProperties, EmptySeq DEF Between
<1>2. \A m \in 2 .. N : f[m] = f[m - 1] \o IF items[m][1] \in {"close", "keep"} THEN <<>> ELSE <<items[m]>>
  BY <1>1, PassedOnIs
<1>3. f[n] \in Seq(S)
  BY PassedOnType
<1> HIDE DEF f
<1>4. CASE N - n = 0
  <2>1. N = n /\ Len(rest) = 0
    BY <1>1, <1>4
  <2>2. rest = <<>>
    BY <2>1, EmptySeq
  <2>3. f[n] \o <<>> = f[n]
    BY <1>3, ConcatEmptySeq
  <2>4. f[N] = f[n] \o rest
    BY <2>1, <2>2, <2>3
  <2> QED
    BY <2>4 DEF f
<1>5. CASE N - n = 2
  <2>1. n + 1 \in 2 .. N /\ n + 2 \in 2 .. N /\ N = n + 2 /\ n + 1 - 1 = n /\ n + 2 - 1 = n + 1
        /\ n + 1 \in n + 1 .. N /\ n + 2 \in n + 1 .. N /\ Len(rest) = 2 /\ 1 \in 1 .. Len(rest) /\ 2 \in 1 .. Len(rest)
    BY <1>1, <1>5
  <2>2. items[n + 1][1] \notin {"close", "keep"} /\ items[n + 2][1] \notin {"close", "keep"}
    BY <2>1
  <2>3. f[n + 1] = f[n] \o <<items[n + 1]>>
    <3>1. PICK m \in 2 .. N : m = n + 1 /\ m - 1 = n
      BY <2>1
    <3>2. f[m] = f[m - 1] \o IF items[m][1] \in {"close", "keep"} THEN <<>> ELSE <<items[m]>>
      BY <1>2
    <3> QED
      BY <2>2, <3>1, <3>2
  <2>4. f[n + 2] = f[n + 1] \o <<items[n + 2]>>
    <3>1. PICK m \in 2 .. N : m = n + 2 /\ m - 1 = n + 1
      BY <2>1
    <3>2. f[m] = f[m - 1] \o IF items[m][1] \in {"close", "keep"} THEN <<>> ELSE <<items[m]>>
      BY <1>2
    <3> QED
      BY <2>2, <3>1, <3>2
  <2>5. rest[1] = items[n + 1] /\ rest[2] = items[n + 2]
    BY <1>1, <2>1
  <2>6. rest[1] \in S /\ rest[2] \in S
    BY <2>1, ElementOfSeq
  <2>7. <<rest[1]>> \o <<rest[2]>> = rest
    BY <2>1, <2>6
  <2>8. <<rest[1]>> \in Seq(S) /\ <<rest[2]>> \in Seq(S)
    BY <2>6, SingleIn
  <2>9. (f[n] \o <<rest[1]>>) \o <<rest[2]>> = f[n] \o (<<rest[1]>> \o <<rest[2]>>)
    <3>1. Associates(f[n], <<rest[1]>>, <<rest[2]>>)
      BY <1>3, <2>8, ThreeParts, Zenon
    <3> QED
      BY <3>1 DEF Associates
  <2>10. f[N] = f[n] \o rest
    BY <2>1, <2>3, <2>4, <2>5, <2>7, <2>9
  <2> QED
    BY <2>10 DEF f
<1> QED
  BY <1>4, <1>5

\* r has read the item after the p-th of items as a line.
LineRead(W, buffer, socket, r, items, p, q) ==
  /\ r.ret = 1 /\ r.lines = {items[p + 1]} /\ r.left = Consume(buffer, socket, 1)
  /\ r.left.rio \in Seq(ItemsBy(W)) /\ r.left.inbox \in Seq(ItemsBy(W))
  /\ Between(r.left.rio \o r.left.inbox, items, p + 1, q)

\* The next line is read as it is.
LEMMA LineTaken ==
  ASSUME NEW W, NEW buffer \in Seq(ItemsBy(W)), NEW socket \in Seq(ItemsBy(W)),
         NEW items, NEW p \in Nat, NEW q \in Nat, p < q, Between(buffer \o socket, items, p, q),
         items[p + 1][1] \notin Unterminated \cup {"tail"}, NEW eof, NEW old
  PROVE  LineRead(W, buffer, socket, ReadLine(buffer, socket, eof, old), items, p, q)
<1>0. PICK all : all = buffer \o socket
  OBVIOUS
<1> DEFINE r == ReadLine(buffer, socket, eof, old)
           left == Consume(buffer, socket, 1)
           rest == left.rio \o left.inbox
<1>1. all \in Seq(ItemsBy(W)) /\ Len(all) \in Nat
  BY <1>0, ConcatProperties, LenProperties
<1>2. Len(all) = q - p /\ \A i \in 1 .. Len(all) : all[i] = items[p + i]
  BY <1>0 DEF Between
<1>3. 1 \in 1 .. Len(all) /\ 1 \in 0 .. Len(all) /\ all # <<>>
  BY <1>1, <1>2, EmptySeq
<1>4. all[1] = items[p + 1]
  BY <1>2, <1>3
<1> HIDE DEF left, rest
<1>5. r.ret = 1 /\ r.lines = {all[1]} /\ r.left = left
  <2>1. all[1][1] \notin Unterminated \cup {"tail"}
    BY <1>4
  <2> QED
    BY <1>0, <1>3, <2>1, NextLine DEF left
<1>6. /\ left.rio \in Seq(ItemsBy(W)) /\ left.inbox \in Seq(ItemsBy(W)) /\ rest \in Seq(ItemsBy(W))
      /\ Len(rest) = Len(all) - 1 /\ \A i \in 1 .. Len(rest) : rest[i] = all[1 + i]
  <2>1. PICK m \in 0 .. Len(all) : m = 1
    BY <1>3
  <2>2. m \in 0 .. Len(buffer \o socket) /\ left = Consume(buffer, socket, m)
    BY <1>0, <2>1 DEF left
  <2>3. /\ left.rio \in Seq(ItemsBy(W)) /\ left.inbox \in Seq(ItemsBy(W))
        /\ Between(left.rio \o left.inbox, all, m, Len(all))
    BY <1>0, <2>2, ConsumeRest
  <2>4. rest \in Seq(ItemsBy(W))
    BY <2>3, ConcatProperties DEF rest
  <2> QED
    BY <2>1, <2>3, <2>4 DEF Between, rest
<1>7. Len(rest) = q - (p + 1)
  BY <1>1, <1>2, <1>6
<1>8. ASSUME NEW i \in 1 .. Len(rest) PROVE rest[i] = items[p + 1 + i]
  <2>1. 1 + i \in 1 .. Len(all) /\ p + (1 + i) = p + 1 + i
    BY <1>1, <1>2, <1>6
  <2> QED
    BY <1>2, <1>6, <2>1
<1>9. Between(rest, items, p + 1, q)
  BY <1>7, <1>8 DEF Between
<1> QED
  BY <1>4, <1>5, <1>6, <1>9 DEF LineRead, left, rest

\* The next line of an answer.
LEMMA NextOfAnswer ==
  ASSUME ServerStreams, NEW p \in 0 .. Len(answer) - 1, Between(reply, answer, p, Len(answer)),
         answer[p + 1][1] \notin Unterminated \cup {"tail"}, NEW old, NEW r, r = FromServer(old)
  PROVE  r.ret = 1 /\ r.lines = {answer[p + 1]} /\ Between(r.left.rio, answer, p + 1, Len(answer))
<1> DEFINE W == Clients \cup {"proxy", "server", "nobody"}
           N == Len(answer)
           nothing == <<>>
           eof == ~broken
<1>1. reply \in Seq(ItemsBy(W)) /\ nothing \in Seq(ItemsBy(W)) /\ reply \o nothing = reply
  BY EmptySeq, ConcatEmptySeq DEF ServerStreams, Texts
<1>2. N \in Nat /\ p \in Nat /\ p < N
  BY LenProperties DEF ServerStreams
<1>3. r = ReadLine(reply, nothing, eof, old) /\ Between(reply \o nothing, answer, p, N)
  BY <1>1 DEF FromServer
<1> HIDE DEF W, N, eof, nothing
<1>4. /\ r.ret = 1 /\ r.lines = {answer[p + 1]} /\ r.left = Consume(reply, nothing, 1)
      /\ r.left.rio \in Seq(ItemsBy(W)) /\ r.left.inbox \in Seq(ItemsBy(W))
      /\ Between(r.left.rio \o r.left.inbox, answer, p + 1, N)
  <2>1. LineRead(W, reply, nothing, r, answer, p, N)
    BY <1>1, <1>2, <1>3, LineTaken
  <2> QED
    BY <2>1 DEF LineRead
<1>5. r.left.inbox = <<>>
  BY <1>4 DEF Consume, nothing
<1>6. r.left.rio \o r.left.inbox = r.left.rio
  BY <1>4, <1>5, ConcatEmptySeq
<1> QED
  BY <1>4, <1>6 DEF N


\* Before the request is passed on, and when doit() returns.
LEMMA ReplyOpening ==
  ASSUME ReplyInv, (pc' \in Opening /\ toClient' = <<>>) \/ pc' \in {"return", "raw", "spin", "aborted"}
  PROVE  ReplyInv'
BY DEF ReplyInv, Opening, Chunking, IsUpload, AnswerAt

\* While it is passed on.
LEMMA ReplyWaits ==
  ASSUME ReplyInv, pc \in {"header", "body", "status"} \/ IsUpload, UNCHANGED <<answer, reply, toClient>>,
         pc' \in {"header", "body", "status"} \/ (pc' \in Chunking /\ dir' = "up")
  PROVE  ReplyInv'
<1>1. toClient' = <<>> /\ reply' = answer'
  BY DEF ReplyInv
<1> QED
  BY <1>1 DEF ReplyInv, Chunking, IsUpload, AnswerAt

\* Chunks of the answer.
LEMMA ReplyChunks ==
  ASSUME ReplyInv, enc["down"], UNCHANGED enc,
         pc' \in Chunking \cup {"finish"}, dir' = "down" \/ pc' = "finish"
  PROVE  ReplyInv'
<1>1. \A n \in Nat : AnswerAt(n)'
  BY DEF AnswerAt, Chunking
<1> QED
  BY <1>1 DEF ReplyInv, Chunking, IsUpload

\* A step that leaves the reply alone.
LEMMA ReplyStays ==
  ASSUME ReplyInv, UNCHANGED <<pc, dir, enc, cstatus, length, answer, reply, toClient>>
  PROVE  ReplyInv'
<1>1. UNCHANGED IsPlainAnswer /\ \A n \in Nat : IsWhole(answer, n)' <=> IsWhole(answer, n)
  BY DEF IsPlainAnswer, IsWhole
<1>2. \A n \in Nat : AnswerIs(n)' <=> AnswerIs(n)
  BY <1>1 DEF AnswerIs
<1>3. UNCHANGED <<CloseLines, Downstream>>
  BY DEF CloseLines, Downstream
<1>4. \A p \in Nat : Passed(p)' <=> Passed(p)
  BY <1>3 DEF Passed
<1>5. \A n \in Nat : AnswerAt(n)' <=> AnswerAt(n)
  <2> SUFFICES ASSUME NEW n \in Nat PROVE AnswerAt(n)' <=> AnswerAt(n)
    OBVIOUS
  <2>1. \A p \in 1 .. n - 1 : p \in Nat
    OBVIOUS
  <2>2. (\E p \in 1 .. n - 1 :
           /\ Passed(p)'
           /\ \A i \in 2 .. p : answer'[i][1] \in {"length", "empty"} => length' = Len(answer') - n)
        <=> (\E p \in 1 .. n - 1 :
               /\ Passed(p)
               /\ \A i \in 2 .. p : answer[i][1] \in {"length", "empty"} => length = Len(answer) - n)
    BY <1>4, <2>1
  <2> QED
    BY <1>3, <1>4, <2>2 DEF AnswerAt
<1> QED
  BY <1>2, <1>5 DEF ReplyInv, IsUpload

\* What is known of a plain answer.
AnswerShape(n) ==
  /\ answer \in Seq(Texts) /\ Len(answer) \in Nat /\ n \in 2 .. Len(answer) /\ answer # <<>>
  /\ answer[1] = Head(answer) /\ answer[1][1] = "status" /\ answer[n][1] = "blank"
  /\ \A i \in 2 .. n - 1 : answer[i][1] \in Headers \ {"chunked"}
  /\ \A i \in n + 1 .. Len(answer) : answer[i][1] = "body"
  /\ \A i \in 2 .. n - 1 :
       answer[i][1] \in {"length", "empty"} => BodyLen(answer[i][1]) = Len(answer) - n
  /\ \E i \in 2 .. n - 1 : answer[i][1] \in {"length", "empty"}

LEMMA AnswerShapeIs ==
  ASSUME ServerStreams, NEW n, AnswerIs(n)
  PROVE  AnswerShape(n)
<1>1. answer \in Seq(Texts) /\ Len(answer) \in Nat /\ DOMAIN answer = 1 .. Len(answer)
  BY LenProperties DEF ServerStreams
<1>2. /\ n \in 2 .. Len(answer) /\ answer # <<>> /\ answer[1][1] = "status"
      /\ "length" \in Kinds(answer) \/ "empty" \in Kinds(answer)
      /\ IsWhole(answer, n)
  BY DEF AnswerIs, IsPlainAnswer
<1>3. /\ answer[n][1] = "blank"
      /\ \A i \in 2 .. n - 1 : answer[i][1] \in Headers \ {"chunked"}
      /\ \A i \in n + 1 .. Len(answer) : answer[i][1] = "body"
      /\ \A i \in 2 .. n - 1 :
           answer[i][1] \in {"length", "empty"} => BodyLen(answer[i][1]) = Len(answer) - n
  BY <1>2 DEF IsWhole
<1>4. PICK i \in 1 .. Len(answer) : answer[i][1] \in {"length", "empty"}
  BY <1>1, <1>2 DEF Kinds
<1>5. i # 1 /\ i # n /\ i \notin n + 1 .. Len(answer)
  BY <1>2, <1>3, <1>4
<1>6. i \in 2 .. n - 1
  BY <1>1, <1>2, <1>5
<1>7. answer[1] = Head(answer)
  BY <1>1, <1>2, HeadTailProperties
<1> QED
  BY <1>1, <1>2, <1>3, <1>4, <1>6, <1>7 DEF AnswerShape

LEMMA CloseLinesAre == CloseLines \in Seq(Texts)
<1>1. <<"close", "close">> \in Seq(Spoken)
  BY DEF Spoken, ItemKinds, Headers
<1>2. Proxy(<<"close", "close">>) \in Seq(Texts)
  BY <1>1, ProxyIs
<1> QED
  BY <1>2, EmptySeq DEF CloseLines

\* The server is there, and has said nothing yet.
LEMMA ReplyOpens ==
  ASSUME ReplyInv, OpenServer
  PROVE  ReplyInv'
<1>1. pc' = "header" /\ pc = "open" /\ UNCHANGED toClient /\ reply' = answer'
  BY DEF OpenServer
<1>2. toClient' = <<>> /\ reply' = answer'
  BY <1>1 DEF ReplyInv
<1> QED
  BY <1>1, <1>2 DEF ReplyInv, Chunking, IsUpload, AnswerAt

\* The first line of the answer is passed on.
LEMMA ReplyStatusPlain ==
  ASSUME ExchangeInv, ReplyInv, ReplyStatus
  PROVE  ReplyInv'
<1> DEFINE r == FromServer(NoLine)
<1>1. /\ pc = "status" /\ reply' = r.left.rio /\ pc' \in {"replyheader", "finish"}
      /\ UNCHANGED <<cstatus, enc, answer>> /\ length' = -1
      /\ pc' = "finish" => r.ret = 0 /\ UNCHANGED toClient
      /\ pc' = "replyheader" => line' \in r.lines /\ WriteEach(<<line'>> \o CloseLines)
  BY DEF ReplyStatus, residueVars, Took
<1>2. ServerStreams /\ toClient = <<>> /\ reply = answer /\ answer \in Seq(Texts)
  BY <1>1 DEF ExchangeInv, ReplyInv, ServerStreams
<1> HIDE DEF r
<1>3. r.ret = 0 => answer = <<>>
  <2> HAVE r.ret = 0
  <2> DEFINE W == Clients \cup {"proxy", "server", "nobody"}
             nothing == <<>>
             eof == ~broken
  <2>1. reply \in Seq(ItemsBy(W)) /\ nothing \in Seq(ItemsBy(W)) /\ ReadLine(reply, nothing, eof, NoLine).ret = 0
    BY <1>2, EmptySeq DEF Texts, r, FromServer
  <2> HIDE DEF W, nothing, eof
  <2>2. reply = <<>>
    BY <2>1, ReadNothing
  <2> QED
    BY <1>2, <2>2
<1>4. ASSUME pc' = "replyheader"
      PROVE  \E out \in Seq(Texts) :
               /\ toClient' = out /\ Arrives(out, <<line'>> \o CloseLines) /\ <<line'>> \o CloseLines \in Seq(Texts)
  <2>1. line' \in Texts
    BY <1>1, <1>2, <1>4, NoLineIs, ServerLine DEF r
  <2>2. <<line'>> \o CloseLines \in Seq(Texts)
    BY <2>1, CloseLinesAre, SingleIn, ConcatProperties
  <2>3. PICK out \in Seq(Texts) : toClient' = toClient \o out /\ Arrives(out, <<line'>> \o CloseLines)
    <3>1. PICK items \in Seq(Texts) : items = <<line'>> \o CloseLines
      BY <2>2
    <3>2. WriteEach(items)
      BY <1>1, <1>4, <3>1
    <3> QED
      BY <3>1, <3>2, GapIs, WriteEachIs
  <2>4. toClient \o out = out
    BY <1>2, ConcatEmptySeq
  <2> QED
    BY <2>2, <2>3, <2>4
<1>5. ASSUME NEW n \in Nat, AnswerIs(n)' PROVE AnswerAt(n)'
  <2>1. AnswerIs(n)
    BY <1>1, <1>5 DEF AnswerIs, IsPlainAnswer, IsWhole
  <2>2. AnswerShape(n)
    BY <1>2, <2>1, AnswerShapeIs
  <2>3. pc' = "replyheader"
    BY <1>1, <1>3, <2>2 DEF AnswerShape
  <2>4. /\ Len(answer) \in Nat /\ n \in 2 .. Len(answer) /\ 0 \in 0 .. Len(answer) - 1 /\ 1 \in 1 .. n - 1
        /\ answer # <<>> /\ answer[1] = Head(answer) /\ answer[1][1] = "status"
    BY <2>2 DEF AnswerShape
  <2>5. Between(reply, answer, 0, Len(answer))
    BY <1>2, <2>4 DEF Between
  <2>6. "status" \notin Unterminated \cup {"tail"}
    BY WholeLines
  <2>7. r.lines = {answer[1]} /\ Between(r.left.rio, answer, 1, Len(answer))
    <3>1. answer[0 + 1] = answer[1] /\ 0 + 1 = 1
      OBVIOUS
    <3> QED
      BY <1>2, <2>4, <2>5, <2>6, <3>1, NextOfAnswer DEF r
  <2>8. ASSUME Whole(toClient') PROVE toClient' = <<Head(answer)>> \o CloseLines \o PassedOn(answer)[1]
    <3>1. line' = Head(answer)
      BY <1>1, <2>3, <2>4, <2>7
    <3>2. PICK s \in Seq(Texts) : s = <<line'>> \o CloseLines
      BY <1>4, <2>3
    <3>3. PICK out \in Seq(Texts) : toClient' = out /\ Arrives(out, s)
      BY <1>4, <2>3, <3>2
    <3>4. <<>> \in Seq(Texts) /\ <<>> \o out = out /\ s \o <<>> = s
      BY EmptySeq, ConcatEmptySeq
    <3>5. out = s
      <4>1. Whole(<<>> \o out)
        BY <2>8, <3>3, <3>4, Zenon
      <4>2. PICK nothing \in Seq(Texts) : nothing = <<>>
        BY <3>4
      <4>3. Whole(nothing \o out)
        BY <4>1, <4>2
      <4> QED
        BY <3>3, <4>3, WholeArrives
    <3>6. PassedOn(answer)[1] = <<>>
      BY <1>2, <2>4, PassedOnIs
    <3> QED
      BY <3>1, <3>2, <3>3, <3>4, <3>5, <3>6
  <2>9. Passed(1)'
    BY <1>1, <2>7, <2>8 DEF Passed, CloseLines, Whole
  <2>10. \A i \in 2 .. 1 : FALSE
    OBVIOUS
  <2> QED
    BY <2>3, <2>4, <2>9, <2>10 DEF AnswerAt
<1> QED
  BY <1>1, <1>4, <1>5 DEF ReplyInv, Chunking, IsUpload

\* One item more.
LEMMA PassedFurther ==
  ASSUME NEW n, AnswerShape(n), NEW p \in 1 .. n - 1, Passed(p), Whole(toClient), NEW x,
         x = IF answer[p + 1][1] \in {"close", "keep"} THEN <<>> ELSE <<answer[p + 1]>>
  PROVE  toClient \o x = <<Head(answer)>> \o CloseLines \o PassedOn(answer)[p + 1]
<1> DEFINE f == PassedOn(answer)
           begin == <<Head(answer)>> \o CloseLines
<1>1. /\ answer \in Seq(Texts) /\ answer # <<>> /\ Len(answer) \in Nat /\ n \in 2 .. Len(answer)
  BY DEF AnswerShape
<1>2. PICK m \in 2 .. Len(answer) : m = p + 1 /\ m - 1 = p /\ p \in 1 .. Len(answer) /\ m \in 1 .. Len(answer)
  BY <1>1
<1>3. f[m] = f[m - 1] \o IF answer[m][1] \in {"close", "keep"} THEN <<>> ELSE <<answer[m]>>
  BY <1>1, PassedOnIs
<1>4. f[p] \in Seq(Texts)
  BY <1>1, <1>2, PassedOnType
<1> HIDE DEF f
<1>5. f[p + 1] = f[p] \o x
  BY <1>2, <1>3
<1>6. answer[p + 1] \in Texts
  BY <1>1, <1>2, ElementOfSeq
<1>7. x \in Seq(Texts)
  BY <1>6, EmptySeq, SingleIn
<1>8. begin \in Seq(Texts)
  <2>1. <<Head(answer)>> \in Seq(Texts) /\ CloseLines \in Seq(Texts)
    BY <1>1, CloseLinesAre, HeadTailProperties, SingleIn
  <2> QED
    BY <2>1, ConcatProperties
<1>9. toClient = begin \o f[p]
  BY DEF Passed, f
<1> HIDE DEF begin
<1>10. (begin \o f[p]) \o x = begin \o (f[p] \o x)
  <2>1. PICK a \in Seq(Texts), b \in Seq(Texts), c \in Seq(Texts) : a = begin /\ b = f[p] /\ c = x
    BY <1>4, <1>7, <1>8
  <2>2. Associates(a, b, c)
    BY ThreeParts, Zenon
  <2> QED
    BY <2>1, <2>2 DEF Associates
<1> QED
  BY <1>5, <1>9, <1>10 DEF begin, f

\* One more line of its header, or the empty line.
LEMMA ReplyHeaderPlain ==
  ASSUME ExchangeInv, ReplyInv, ReplyHeader
  PROVE  ReplyInv'
<1> DEFINE r == FromServer(line)
<1>1. /\ pc = "replyheader" /\ reply' = r.left.rio /\ line' \in r.lines
      /\ UNCHANGED <<cstatus, answer>> /\ Note(line', "down")
      /\ WriteClient(IF Passes(line') \/ line'[1] = "blank" THEN <<line'>> ELSE <<>>)
      /\ pc' = IF line'[1] = "blank" THEN "replybody" ELSE "replyheader"
  BY DEF ReplyHeader, Took
<1> HIDE DEF r
<1> DEFINE x == IF line'[1] \in {"close", "keep"} THEN <<>> ELSE <<line'>>
<1>2. ServerStreams /\ line \in Texts /\ toClient \in Seq(Texts)
  BY <1>1 DEF ExchangeInv, Buffers, ReplyInv
<1>5. x \in Seq(Texts)
  <2>1. line' \in Texts
    BY <1>1, <1>2, ServerLine DEF r
  <2> QED
    BY <2>1, EmptySeq, SingleIn
<1>6. WriteClient(x)
  <2>1. Passes(line') \/ line'[1] = "blank" <=> line'[1] \notin {"close", "keep"}
    BY DEF Passes
  <2> QED
    BY <1>1, <2>1
<1> HIDE DEF x
<1>7. PICK out \in Seq(Texts) : toClient' = toClient \o out /\ Arrives(out, x)
  BY <1>5, <1>6, GapIs, WriteClientIs
<1>8. toClient' \in Seq(Texts)
  BY <1>2, <1>7, ConcatProperties
<1>3. ASSUME NEW n \in Nat, AnswerIs(n)' PROVE AnswerAt(n)'
  <2>1. AnswerIs(n)
    BY <1>1, <1>3 DEF AnswerIs, IsPlainAnswer, IsWhole
  <2>2. AnswerShape(n)
    BY <1>2, <2>1, AnswerShapeIs
  <2>3. PICK p \in 1 .. n - 1 :
          /\ Passed(p)
          /\ \A i \in 2 .. p : answer[i][1] \in {"length", "empty"} => length = Len(answer) - n
    BY <1>1, <2>1 DEF ReplyInv, AnswerAt
  <2>4. /\ Len(answer) \in Nat /\ n \in 2 .. Len(answer) /\ p \in 0 .. Len(answer) - 1 /\ p \in Nat
        /\ p + 1 \in 2 .. n
    BY <2>2, <2>3 DEF AnswerShape
  <2>5. /\ answer[n][1] = "blank"
        /\ \A i \in 2 .. n - 1 :
             /\ answer[i][1] \in Headers \ {"chunked"}
             /\ answer[i][1] \in {"length", "empty"} => BodyLen(answer[i][1]) = Len(answer) - n
        /\ \E i \in 2 .. n - 1 : answer[i][1] \in {"length", "empty"}
    BY <2>2 DEF AnswerShape
  <2>6. answer[p + 1][1] \in Headers \cup {"blank"}
    <3>1. p + 1 = n \/ p + 1 \in 2 .. n - 1
      BY <2>4
    <3> QED
      BY <2>5, <3>1
  <2>7. line' = answer[p + 1] /\ Between(reply', answer, p + 1, Len(answer))
    <3>1. answer[p + 1][1] \notin Unterminated \cup {"tail"}
      BY <2>6, WholeLines
    <3>2. r.lines = {answer[p + 1]} /\ Between(r.left.rio, answer, p + 1, Len(answer))
      BY <1>2, <2>3, <2>4, <3>1, NextOfAnswer DEF Passed, r
    <3> QED
      BY <1>1, <3>2
  <2>8. Passed(p + 1)'
    <3>1. ASSUME Whole(toClient')
          PROVE  toClient' = <<Head(answer)>> \o CloseLines \o PassedOn(answer)[p + 1]
      <4>1. Whole(toClient \o out)
        BY <1>7, <3>1
      <4>2. Whole(toClient) /\ out = x
        BY <1>2, <1>5, <1>7, <4>1, WholeArrives
      <4>3. x = IF answer[p + 1][1] \in {"close", "keep"} THEN <<>> ELSE <<answer[p + 1]>>
        BY <2>7 DEF x
      <4> QED
        BY <1>7, <2>2, <2>3, <4>2, <4>3, PassedFurther
    <3>2. CloseLines' = CloseLines
      BY <1>1 DEF CloseLines
    <3> QED
      BY <1>1, <2>7, <3>1, <3>2 DEF Passed, Whole
  <2>9. length' = IF line'[1] \in {"length", "empty"} THEN BodyLen(line'[1]) ELSE length
    BY <1>1 DEF Note
  <2>10. CASE p + 1 = n
    <3>1. line'[1] = "blank" /\ pc' = "replybody"
      BY <1>1, <2>5, <2>7, <2>10
    <3>2. PICK i \in 2 .. n - 1 : answer[i][1] \in {"length", "empty"}
      BY <2>5
    <3>3. i \in 2 .. p
      BY <2>4, <2>10
    <3>4. length' = Len(answer) - n
      BY <2>3, <2>9, <3>1, <3>2, <3>3
    <3> QED
      BY <1>1, <2>8, <2>10, <3>1, <3>4 DEF AnswerAt
  <2>11. CASE p + 1 # n
    <3>1. p + 1 \in 2 .. n - 1 /\ p + 1 \in 1 .. n - 1
      BY <2>4, <2>11
    <3>2. line'[1] \in Headers
      BY <2>5, <2>7, <3>1
    <3>3. pc' = "replyheader"
      BY <1>1, <3>2 DEF Headers
    <3>4. ASSUME NEW i \in 2 .. p + 1, answer[i][1] \in {"length", "empty"}
          PROVE  length' = Len(answer) - n
      <4>1. CASE line'[1] \in {"length", "empty"}
        BY <2>5, <2>7, <2>9, <3>1, <4>1
      <4>2. CASE line'[1] \notin {"length", "empty"}
        <5>1. i # p + 1
          BY <2>7, <3>4, <4>2
        <5>2. i \in 2 .. p
          BY <2>4, <5>1
        <5> QED
          BY <2>3, <2>9, <3>4, <4>2, <5>2
      <4> QED
        BY <4>1, <4>2
    <3>5. \E q \in 1 .. n - 1 :
            /\ Passed(q)'
            /\ \A i \in 2 .. q : answer'[i][1] \in {"length", "empty"} => length' = Len(answer') - n
      BY <1>1, <2>8, <3>1, <3>4
    <3> QED
      BY <3>3, <3>5 DEF AnswerAt
  <2> QED
    BY <2>10, <2>11
<1>4. pc' \in {"replybody", "replyheader"}
  BY <1>1
<1> QED
  BY <1>3, <1>4, <1>8 DEF ReplyInv, Chunking, IsUpload

\* Its body is read whole: it is as long as declared.
LEMMA ReplyBodyPlain ==
  ASSUME ExchangeInv, ReplyInv, ReplyBody
  PROVE  ReplyInv'
<1> DEFINE nothing == <<>>
           eof == ~broken
           r == ReadBytes(reply, nothing, eof, length)
<1>1. /\ pc = "replybody" /\ pc' = "finish" /\ length >= 0
      /\ UNCHANGED <<cstatus, enc, length, answer>>
      /\ WriteClient(Padded(r.data, length)) /\ toClient \in Seq(Texts)
  BY DEF ReplyBody, ReplyInv, residueVars, localVars
<1> HIDE DEF r
<1>2. ServerStreams /\ reply \in Seq(Texts) /\ nothing \in Seq(Texts) /\ reply \o nothing = reply
  BY EmptySeq, ConcatEmptySeq DEF ExchangeInv, ServerStreams
<1>3. ASSUME NEW n \in Nat, AnswerIs(n)' PROVE AnswerAt(n)'
  <2>1. AnswerIs(n)
    BY <1>1, <1>3 DEF AnswerIs, IsPlainAnswer, IsWhole
  <2>2. /\ AnswerShape(n) /\ Passed(n) /\ length = Len(answer) - n
    BY <1>1, <1>2, <2>1, AnswerShapeIs DEF ReplyInv, AnswerAt
  <2>3. /\ answer \in Seq(Texts) /\ n \in 1 .. Len(answer) /\ answer # <<>> /\ length \in Nat
        /\ Len(answer) - n \in {0, 2} /\ \A i \in n + 1 .. Len(answer) : answer[i][1] = "body"
    <3>1. length \in {-1, 0, 2}
      BY DEF ExchangeInv, FlagsInv
    <3> QED
      BY <1>1, <2>2, <3>1 DEF AnswerShape
  <2>4. Between(reply, answer, n, Len(answer)) /\ length = Len(reply \o nothing)
    BY <1>2, <2>2 DEF Passed, Between
  <2>5. Padded(r.data, length) = reply
    <3> HIDE DEF nothing, eof
    <3>1. PICK m \in Nat : m = length
      BY <2>3
    <3>2. PICK s \in Seq(Texts) : s = reply
      BY <1>2
    <3>3. m = Len(s \o nothing)
      BY <2>4, <3>1, <3>2
    <3> DEFINE x == ReadBytes(s, nothing, eof, m)
    <3> HIDE DEF x
    <3>4. Padded(x.data, m) = s \o nothing
      BY <1>2, <3>3, ReadAll DEF x
    <3> QED
      BY <1>2, <3>1, <3>2, <3>4 DEF r, x
  <2>6. PassedOn(answer)[Len(answer)] = PassedOn(answer)[n] \o reply
    BY <1>2, <2>3, <2>4, BodyPassed
  <2> DEFINE begin == <<Head(answer)>> \o CloseLines
             f == PassedOn(answer)
  <2>7. begin \in Seq(Texts) /\ f[n] \in Seq(Texts)
    <3>1. <<Head(answer)>> \in Seq(Texts) /\ CloseLines \in Seq(Texts)
      BY <2>3, CloseLinesAre, HeadTailProperties, SingleIn
    <3> QED
      BY <2>3, <3>1, ConcatProperties, PassedOnType
  <2>8. (Whole(toClient) => toClient = begin \o f[n]) /\ f[Len(answer)] = f[n] \o reply
    BY <2>2, <2>6 DEF Passed
  <2>9. Downstream' = begin \o f[Len(answer)]
    BY <1>1 DEF Downstream, CloseLines
  <2> HIDE DEF begin, f
  <2>10. (begin \o f[n]) \o reply = begin \o (f[n] \o reply)
    <3>1. PICK a \in Seq(Texts), b \in Seq(Texts), c \in Seq(Texts) : a = begin /\ b = f[n] /\ c = reply
      BY <1>2, <2>7
    <3>2. Associates(a, b, c)
      BY ThreeParts, Zenon
    <3> QED
      BY <3>1, <3>2 DEF Associates
  <2>11. PICK out \in Seq(Texts) : toClient' = toClient \o out /\ Arrives(out, reply)
    <3>1. WriteClient(reply)
      BY <1>1, <2>5
    <3> QED
      BY <1>2, <3>1, GapIs, WriteClientIs
  <2>12. ASSUME Whole(toClient') PROVE toClient' = Downstream'
    <3>1. Whole(toClient \o out)
      BY <2>11, <2>12
    <3>2. Whole(toClient) /\ out = reply
      BY <1>1, <1>2, <2>11, <3>1, WholeArrives
    <3> QED
      BY <2>8, <2>9, <2>10, <2>11, <3>2
  <2> QED
    BY <1>1, <2>12 DEF AnswerAt, Whole
<1> QED
  BY <1>1, <1>3 DEF ReplyInv, Chunking, IsUpload

\* A step of forward_chunked() reads and writes.
LEMMA ChunkStepIs ==
  ASSUME ExchangeInv, ChunkSize \/ ChunkData \/ Trailer \/ ChunkEnd
  PROVE  /\ pc \in Chunking /\ pc' \in Chunking \cup {"aborted", AfterChunks} /\ UNCHANGED ChunkVars
         /\ \E r : \E items \in Seq(Texts) : Pass(r, items)
<1> DEFINE r == ChunkRead
           one == <<line'>>
           nothing == <<>>
<1>1. r.lines \subseteq Texts /\ nothing \in Seq(Texts)
  BY ChunkLine, EmptySeq
<1>2. CASE ChunkData
  <2>1. PICK x \in IF dir = "up" THEN ChunkReads(rio, inbox[fd], ended[fd]) ELSE ChunkReads(reply, <<>>, ~broken) :
          \E items \in Written(x, x.data) : Pass(x, items)
    BY <1>2 DEF ChunkData
  <2>2. PICK items \in Written(x, x.data) : Pass(x, items)
    BY <2>1
  <2>3. items \in Seq(Texts)
    BY ChunkReadsAre, WrittenIs
  <2>4. pc = "chunkdata" /\ pc' = "chunk" /\ UNCHANGED ChunkVars
    BY <1>2 DEF ChunkData
  <2> QED
    BY <2>2, <2>3, <2>4 DEF Chunking
<1>3. CASE ChunkSize \/ Trailer \/ ChunkEnd
  <2>1. /\ pc \in Chunking /\ line' \in r.lines /\ UNCHANGED ChunkVars
        /\ \E items \in Written(r, one) \cup {nothing} : Pass(r, items)
        /\ pc' \in {"trailer", "chunkend", "chunkdata", "aborted", AfterChunks}
    BY <1>3 DEF ChunkSize, Trailer, ChunkEnd, Chunking
  <2>2. PICK items \in Written(r, one) \cup {nothing} : Pass(r, items)
    BY <2>1
  <2>3. one \in Seq(Texts)
    BY <1>1, <2>1, SingleIn
  <2> HIDE DEF r, one, nothing
  <2>4. items \in Seq(Texts)
    BY <1>1, <2>3, WrittenIs
  <2> QED
    BY <2>1, <2>2, <2>4 DEF Chunking
<1> QED
  BY <1>2, <1>3

\* While lines of a plain answer are left, one is read.
LEMMA NextThere ==
  ASSUME ExchangeInv, ReplyInv, pc = "replyheader", NEW n \in Nat, AnswerIs(n)
  PROVE  FromServer(line).ret = 1
<1>1. ServerStreams
  BY DEF ExchangeInv
<1>2. PICK p \in 1 .. n - 1 : Passed(p)
  BY DEF ReplyInv, AnswerAt
<1>3. AnswerShape(n)
  BY <1>1, AnswerShapeIs
<1>4. /\ p \in 0 .. Len(answer) - 1 /\ (p + 1 = n \/ p + 1 \in 2 .. n - 1)
      /\ answer[n][1] = "blank" /\ \A i \in 2 .. n - 1 : answer[i][1] \in Headers
  BY <1>3 DEF AnswerShape
<1>5. answer[p + 1][1] \notin Unterminated \cup {"tail"}
  <2>1. answer[p + 1][1] \in Headers \cup {"blank"}
    BY <1>4
  <2> QED
    BY <2>1, WholeLines
<1>6. Between(reply, answer, p, Len(answer))
  BY <1>2 DEF Passed
<1> QED
  BY <1>1, <1>4, <1>5, <1>6, NextOfAnswer

\* ReplyInv is inductive.
LEMMA ReplyNext ==
  ASSUME ExchangeInv, ReplyInv, [Next]_vars
  PROVE  ReplyInv'
<1>1. CASE Wake \/ Return \/ ReadRequest
  <2>1. \/ pc' \in {"wait", "request", "open"} /\ (toClient' = <<>> \/ (UNCHANGED toClient /\ pc \in {"wait", "request"}))
        \/ pc' = "return"
    BY <1>1 DEF Wake, Return, ReadRequest
  <2> QED
    BY <2>1, ReplyOpening DEF ReplyInv, Opening
<1>2. CASE OpenFails \/ NotImplemented \/ StartConnect \/ SkipHeader \/ StartTunnel
  <2>1. \/ pc' \in {"connect", "tunnel"} /\ UNCHANGED toClient /\ pc \in {"open", "connect"}
        \/ pc' = "return"
    BY <1>2 DEF OpenFails, NotImplemented, StartConnect, SkipHeader, StartTunnel
  <2> QED
    BY <2>1, ReplyOpening DEF ReplyInv, Opening
<1>3. CASE OpenServer
  BY <1>3, ReplyOpens
<1>4. CASE RequestHeader \/ RequestCut \/ RequestBody \/ NoRequestBody
  <2>1. pc \in {"header", "body"} /\ UNCHANGED <<answer, reply, toClient>>
    BY <1>4 DEF RequestHeader, RequestCut, RequestBody, NoRequestBody, serverVars
  <2>2. pc' \in {"header", "body", "status", "raw"}
    BY <1>4, AfterIs DEF RequestHeader, RequestCut, RequestBody, NoRequestBody
  <2> QED
    BY <2>1, <2>2, ReplyOpening, ReplyWaits
<1>5. ASSUME NEW d \in Directions, StartChunked(d) PROVE ReplyInv'
  <2>1. /\ pc = (IF d = "up" THEN "body" ELSE "replybody") /\ enc[d] /\ dir' = d /\ pc' = "chunk"
        /\ UNCHANGED <<enc, answer, reply, toClient>>
    BY <1>5 DEF StartChunked, residueVars, serverVars
  <2>2. d = "up" \/ d = "down"
    BY DEF Directions
  <2> QED
    BY <2>1, <2>2, ReplyWaits, ReplyChunks DEF Chunking
<1>6. CASE ChunkSize \/ ChunkData \/ Trailer \/ ChunkEnd
  <2>1. /\ pc \in Chunking /\ pc' \in Chunking \cup {"aborted", AfterChunks} /\ UNCHANGED <<dir, enc, answer>>
        /\ \E r : \E items \in Seq(Texts) : Pass(r, items)
    BY <1>6, ChunkStepIs DEF ChunkVars, residueVars
  <2>2. CASE dir = "up"
    <3>1. UNCHANGED <<reply, toClient>> /\ IsUpload /\ pc' \in Chunking \cup {"aborted", "raw", "status"}
      BY <2>1, <2>2, AfterIs DEF Pass, AfterChunks, IsUpload
    <3> QED
      BY <2>1, <2>2, <3>1, ReplyOpening, ReplyWaits
  <2>3. CASE dir # "up"
    <3>1. dir = "down" /\ enc["down"] /\ pc' \in Chunking \cup {"aborted", "finish"}
      BY <2>1, <2>3 DEF AfterChunks, Directions, ExchangeInv, FlagsInv, ReplyInv
    <3> QED
      BY <2>1, <3>1, ReplyOpening, ReplyChunks
  <2> QED
    BY <2>2, <2>3
<1>7. CASE ChunkSpins \/ Raw \/ Finish
  <2>1. pc' \in {"spin", "raw", "return"}
    BY <1>7 DEF ChunkSpins, Raw, Finish
  <2> QED
    BY <2>1, ReplyOpening
<1>8. CASE ReplyStatus
  BY <1>8, ReplyStatusPlain
<1>9. CASE ReplyHeader
  BY <1>9, ReplyHeaderPlain
<1>10. CASE ReplyBody
  BY <1>10, ReplyBodyPlain
<1>11. CASE ReplyCut \/ ReplyReset
  <2>1. /\ pc = "replyheader" /\ FromServer(line).ret # 1 /\ pc' \in {"replyheader", "finish"}
        /\ UNCHANGED <<answer, toClient>>
    BY <1>11 DEF ReplyCut, ReplyReset, serverVars
  <2>2. ASSUME NEW n \in Nat, AnswerIs(n)' PROVE FALSE
    <3>1. AnswerIs(n)
      BY <2>1, <2>2 DEF AnswerIs, IsPlainAnswer, IsWhole
    <3> QED
      BY <2>1, <3>1, NextThere
  <2>3. toClient' \in Seq(Texts)
    BY <2>1 DEF ReplyInv
  <2> QED
    BY <2>1, <2>2, <2>3 DEF ReplyInv, Chunking, IsUpload
<1>12. CASE NoReplyBody
  <2>1. pc = "replybody" /\ length < 0 /\ pc' = "finish" /\ UNCHANGED answer
    BY <1>12 DEF NoReplyBody, serverVars
  <2>3. ASSUME NEW n \in Nat, AnswerIs(n)' PROVE FALSE
    <3>1. AnswerIs(n)
      BY <2>1, <2>3 DEF AnswerIs, IsPlainAnswer, IsWhole
    <3>2. length = Len(answer) - n /\ n \in 2 .. Len(answer) /\ Len(answer) \in Nat
      BY <2>1, <3>1, LenProperties DEF ReplyInv, AnswerAt, AnswerIs, ExchangeInv, ServerStreams
    <3> QED
      BY <2>1, <3>2
  <2> QED
    BY <2>1, <2>3 DEF ReplyInv, Chunking, IsUpload
<1>13. CASE UNCHANGED vars \/ \E c \in Clients : Send(c) \/ End(c)
  <2>1. UNCHANGED <<pc, dir, enc, cstatus, length, answer, reply, toClient>>
    BY <1>13 DEF vars, Send, End, residueVars, localVars, serverVars
  <2> QED
    BY <2>1, ReplyStays
<1> QED
  BY <1>1, <1>2, <1>3, <1>4, <1>5, <1>6, <1>7, <1>8, <1>9, <1>10, <1>11, <1>12, <1>13 DEF Next, DoitStep

LEMMA ReplyInit ==
  ASSUME Init
  PROVE  ReplyInv
BY DEF Init, ReplyInv, Chunking, IsUpload, AnswerAt

-----------------------------------------------------------------------------
(* The header of any answer.                                               *)

\* The last item read of s, the rest of which is rest, ended a line.
LinesRead(rest, s) ==
  \E p \in 0 .. Len(s) : /\ Between(rest, s, p, Len(s))
                         /\ p < Len(s) => p > 0 /\ IsTerminated(s[p])

\* After the header the body is only taken for one when it has come whole.
HeaderInv ==
  /\ pc = "replyheader" => LinesRead(reply, answer)
  /\ pc = "replybody" \/ (pc \in Chunking /\ dir = "down") => HeaderWhole
  /\ pc = "finish" => \/ cstatus.close \/ cstatus.shut \/ answer = <<>>
                      \/ HeaderWhole /\ (length >= 0 \/ enc["down"])

\* A line is read to its end, or there is no more.
LEMMA LineLeaves ==
  ASSUME ServerStreams, NEW old, NEW r, r = FromServer(old)
  PROVE  LinesRead(r.left.rio, reply)
<1> DEFINE nothing == <<>>
           n == SelectInSeq(reply, IsTerminated)
           N == Len(reply)
           m == IF n > 0 THEN n ELSE N
           left == Consume(reply, nothing, m)
<1>1. reply \in Seq(Texts) /\ nothing \in Seq(Texts) /\ reply \o nothing = reply /\ N \in Nat
  BY EmptySeq, ConcatEmptySeq, LenProperties DEF ServerStreams
<1>2. n \in 0 .. N /\ (n > 0 => IsTerminated(reply[n]))
  BY <1>1, LineEnd
<1>3. r.left = left
  BY <1>1 DEF FromServer, ReadLine
<1>4. m \in 0 .. N /\ (m < N => m > 0 /\ IsTerminated(reply[m]))
  <2>1. CASE n > 0
    <3> DEFINE last == reply[n]
    <3>1. m = n /\ IsTerminated(last)
      BY <1>2, <2>1
    <3> HIDE DEF n
    <3>2. n \in 0 .. N /\ n > 0
      BY <1>2, <2>1
    <3> QED
      BY <3>1, <3>2
  <2>2. CASE ~(n > 0)
    <3>1. m = N
      BY <2>2
    <3> HIDE DEF m
    <3> QED
      BY <1>1, <3>1
  <2> QED
    BY <2>1, <2>2
<1> HIDE DEF n, m
<1>5. left.rio \in Seq(Texts) /\ left.inbox = <<>>
  <2>1. m \in 0 .. Len(reply \o nothing)
    BY <1>1, <1>4
  <2>2. left.rio \in Seq(Texts)
    BY <1>1, <2>1, ConsumeIs
  <2> QED
    BY <2>2 DEF Consume
<1>6. Between(left.rio \o left.inbox, reply, m, N)
  <2>1. m \in 0 .. Len(reply \o nothing)
    BY <1>1, <1>4
  <2> HIDE DEF nothing
  <2>2. Between(left.rio \o left.inbox, reply \o nothing, m, Len(reply \o nothing))
    BY <1>1, <2>1, ConsumeRest
  <2> QED
    BY <1>1, <2>2
<1>7. left.rio \o left.inbox = left.rio
  BY <1>5, ConcatEmptySeq
<1> HIDE DEF left
<1> QED
  BY <1>3, <1>4, <1>6, <1>7 DEF LinesRead

\* One line after the others.
LEMMA LinesFurther ==
  ASSUME NEW S, NEW s \in Seq(S), NEW t \in Seq(S), LinesRead(t, s), NEW rest, LinesRead(rest, t)
  PROVE  LinesRead(rest, s)
<1>1. Len(s) \in Nat /\ Len(t) \in Nat
  BY LenProperties
<1>2. PICK p \in 0 .. Len(s) : /\ Len(t) = Len(s) - p /\ \A i \in 1 .. Len(t) : t[i] = s[p + i]
                               /\ p < Len(s) => p > 0 /\ IsTerminated(s[p])
  BY DEF LinesRead, Between
<1>3. PICK q \in 0 .. Len(t) : /\ Len(rest) = Len(t) - q /\ \A i \in 1 .. Len(rest) : rest[i] = t[q + i]
                               /\ q < Len(t) => q > 0 /\ IsTerminated(t[q])
  BY DEF LinesRead, Between
<1>4. PICK m \in 0 .. Len(s) : m = p + q /\ Len(rest) = Len(s) - m
  BY <1>1, <1>2, <1>3
<1>5. \A i \in 1 .. Len(rest) : rest[i] = s[m + i]
  <2> TAKE i \in 1 .. Len(rest)
  <2>1. q + i \in 1 .. Len(t) /\ p + (q + i) = m + i
    BY <1>1, <1>2, <1>3, <1>4
  <2> QED
    BY <1>2, <1>3, <2>1
<1>6. ASSUME m < Len(s) PROVE m > 0 /\ IsTerminated(s[m])
  <2>1. q < Len(t) /\ p + q = m /\ m > 0
    BY <1>1, <1>2, <1>3, <1>4, <1>6
  <2>2. q \in 1 .. Len(t) /\ IsTerminated(t[q])
    BY <1>1, <1>3, <2>1
  <2> QED
    BY <1>2, <2>1, <2>2
<1> QED
  BY <1>4, <1>5, <1>6 DEF LinesRead, Between

\* The empty line is one that has been said.
LEMMA EmptyLine ==
  ASSUME ServerStreams, NEW old, NEW r, r = FromServer(old), r.ret > 0, NEW l \in r.lines, l[1] = "blank"
  PROVE  reply # <<>> /\ reply[1][1] = "blank"
<1> DEFINE n == SelectInSeq(reply, IsTerminated)
           junk == <<"junk", reply[1][2]>>
           whole == <<HeadOf[reply[1][1]], reply[1][2]>>
           one == SubSeq(reply, 1, n)
<1>1. reply \in Seq(Texts) /\ reply \o <<>> = reply /\ Len(reply) \in Nat
  BY ConcatEmptySeq, LenProperties DEF ServerStreams
<1>2. n \in 0 .. Len(reply)
  BY <1>1, LineEnd
<1>3. junk[1] # "blank"
  OBVIOUS
<1>4. \A h \in DOMAIN HeadOf : HeadOf[h] # "blank"
  BY DEF HeadOf
<1>5. CASE ~(n > 0)
  <2>1. reply # <<>>
    <3>1. r.ret = IF ~broken THEN Len(reply) ELSE -1
      BY <1>1, <1>5 DEF FromServer, ReadLine
    <3> QED
      BY <3>1, EmptySeq
  <2>2. broken => r.ret = -1
    BY <1>1, <1>5 DEF FromServer, ReadLine
  <2>3. r.lines \subseteq {junk} \cup (IF reply[1][1] \in DOMAIN HeadOf THEN {whole} ELSE {})
    BY <1>1, <1>5, <2>1, <2>2 DEF FromServer, ReadLine
  <2>4. reply[1][1] \in DOMAIN HeadOf => whole[1] # "blank"
    BY <1>4
  <2> QED
    BY <1>3, <2>3, <2>4
<1>6. CASE n > 0
  <2>1. l = Join(one)
    BY <1>1, <1>6 DEF FromServer, ReadLine
  <2>2. /\ Len(one) = n /\ one[1] = reply[1] /\ reply # <<>>
    <3>1. n \in Nat /\ n # 0 /\ 1 \in 1 .. n
      BY <1>2, <1>6
    <3>2. Len(one) = n /\ \A i \in 1 .. n : one[i] = reply[i]
      <4> HIDE DEF n
      <4> QED
        BY <1>1, <1>2, FirstItems
    <3>3. Len(reply) # 0
      BY <1>1, <1>2, <3>1
    <3> QED
      BY <3>1, <3>2, <3>3, EmptySeq
  <2> HIDE DEF n, one
  <2>3. \/ l = reply[1] \/ l = junk
        \/ reply[1][1] \in DOMAIN HeadOf /\ l = whole
    BY <2>1, <2>2 DEF Join
  <2>4. reply[1][1] \in DOMAIN HeadOf => whole[1] # "blank"
    BY <1>4
  <2> QED
    BY <1>3, <2>2, <2>3, <2>4
<1> QED
  BY <1>5, <1>6

\* HeaderInv is inductive.
LEMMA HeaderNext ==
  ASSUME ExchangeInv, ReplyInv, HeaderInv, [Next]_vars
  PROVE  HeaderInv'
<1>1. ServerStreams /\ reply \in Seq(Texts) /\ answer \in Seq(Texts)
  BY DEF ExchangeInv, ServerStreams
<1>2. ASSUME UNCHANGED answer PROVE UNCHANGED HeaderWhole
  BY <1>2 DEF HeaderWhole
<1>3. CASE \/ Wake \/ Return \/ ReadRequest \/ OpenFails \/ NotImplemented \/ StartConnect \/ SkipHeader \/ StartTunnel
           \/ OpenServer \/ RequestHeader \/ RequestCut \/ RequestBody \/ NoRequestBody \/ ChunkSpins \/ Raw \/ Finish
  <2>1. pc' \notin {"replyheader", "replybody", "finish"} \cup Chunking
    BY <1>3, AfterIs DEF Wake, Return, ReadRequest, OpenFails, NotImplemented, StartConnect, SkipHeader,
       StartTunnel, OpenServer, RequestHeader, RequestCut, RequestBody, NoRequestBody, ChunkSpins, Raw,
       Finish, Chunking
  <2> QED
    BY <2>1 DEF HeaderInv
<1>4. ASSUME NEW d \in Directions, StartChunked(d) PROVE HeaderInv'
  <2>1. pc = (IF d = "up" THEN "body" ELSE "replybody") /\ dir' = d /\ pc' = "chunk" /\ UNCHANGED answer
    BY <1>4 DEF StartChunked, serverVars
  <2> QED
    BY <1>2, <2>1 DEF HeaderInv
<1>5. CASE ChunkSize \/ ChunkData \/ Trailer \/ ChunkEnd
  <2>1. pc \in Chunking /\ pc' \in Chunking \cup {"aborted", AfterChunks} /\ UNCHANGED <<dir, enc, answer>>
    BY <1>5, ChunkStepIs DEF ChunkVars, residueVars
  <2>2. CASE dir = "up"
    <3>1. pc' \in Chunking \cup {"aborted", "raw", "status"}
      BY <2>1, <2>2, AfterIs DEF AfterChunks
    <3> QED
      BY <2>1, <2>2, <3>1 DEF HeaderInv, Chunking
  <2>3. CASE dir # "up"
    <3>1. dir = "down" /\ enc["down"] /\ HeaderWhole /\ pc' \in Chunking \cup {"aborted", "finish"}
      BY <2>1, <2>3 DEF AfterChunks, Directions, ExchangeInv, FlagsInv, ReplyInv, HeaderInv
    <3> QED
      BY <1>2, <2>1, <3>1 DEF HeaderInv, Chunking
  <2> QED
    BY <2>2, <2>3
<1>6. CASE ReplyStatus
  <2> DEFINE r == FromServer(NoLine)
  <2>1. /\ pc = "status" /\ UNCHANGED answer /\ reply' = r.left.rio
        /\ pc' = "replyheader" \/ (pc' = "finish" /\ r.ret = 0)
    BY <1>6 DEF ReplyStatus, Took
  <2>2. reply = answer
    BY <2>1 DEF ReplyInv
  <2>3. LinesRead(r.left.rio, reply)
    BY <1>1, LineLeaves
  <2>4. r.ret = 0 => answer = <<>>
    <3> HAVE r.ret = 0
    <3> DEFINE W == Clients \cup {"proxy", "server", "nobody"}
               nothing == <<>>
               eof == ~broken
    <3>1. reply \in Seq(ItemsBy(W)) /\ nothing \in Seq(ItemsBy(W)) /\ ReadLine(reply, nothing, eof, NoLine).ret = 0
      BY <1>1, EmptySeq DEF Texts, FromServer
    <3> HIDE DEF W, nothing, eof
    <3>2. reply = <<>>
      BY <3>1, ReadNothing
    <3> QED
      BY <2>2, <3>2
  <2> HIDE DEF r
  <2> QED
    BY <2>1, <2>2, <2>3, <2>4 DEF HeaderInv, Chunking
<1>7. CASE ReplyHeader \/ ReplyReset
  <2> DEFINE r == FromServer(line)
  <2>1. /\ pc = "replyheader" /\ UNCHANGED answer /\ reply' = r.left.rio
        /\ pc' = "replyheader" \/ (pc' = "replybody" /\ r.ret > 0 /\ \E l \in r.lines : l[1] = "blank")
    BY <1>7 DEF ReplyHeader, ReplyReset, Took
  <2>2. LinesRead(reply, answer) /\ LinesRead(r.left.rio, reply)
    BY <1>1, <2>1, LineLeaves DEF HeaderInv
  <2>3. ASSUME r.ret > 0, NEW l \in r.lines, l[1] = "blank" PROVE HeaderWhole
    <3>1. reply # <<>> /\ reply[1][1] = "blank"
      BY <1>1, <2>3, EmptyLine
    <3>2. PICK p \in 0 .. Len(answer) :
            /\ Len(reply) = Len(answer) - p /\ \A i \in 1 .. Len(reply) : reply[i] = answer[p + i]
            /\ p < Len(answer) => p > 0 /\ IsTerminated(answer[p])
      BY <2>2 DEF LinesRead, Between
    <3>3. Len(reply) \in Nat \ {0} /\ Len(answer) \in Nat
      BY <1>1, <3>1, EmptySeq, LenProperties
    <3>4. p + 1 \in 2 .. Len(answer) /\ p + 1 - 1 = p /\ 1 \in 1 .. Len(reply) /\ p < Len(answer)
      BY <3>2, <3>3
    <3>5. answer[p + 1][1] = "blank" /\ IsTerminated(answer[p + 1 - 1])
      BY <3>1, <3>2, <3>4
    <3> QED
      BY <3>4, <3>5 DEF HeaderWhole
  <2> HIDE DEF r
  <2>4. LinesRead(r.left.rio, answer)
    BY <1>1, <2>2, LinesFurther
  <2> QED
    BY <1>2, <2>1, <2>3, <2>4 DEF HeaderInv, Chunking
<1>8. CASE ReplyCut
  <2>1. pc' = "finish" /\ cstatus' = [cstatus EXCEPT !.shut = TRUE]
    BY <1>8 DEF ReplyCut
  <2>2. cstatus'.shut
    BY <2>1 DEF ExchangeInv, FlagsInv
  <2> QED
    BY <2>1, <2>2 DEF HeaderInv, Chunking
<1>9. CASE ReplyBody
  <2>1. pc = "replybody" /\ pc' = "finish" /\ length' >= 0 /\ UNCHANGED answer
    BY <1>9 DEF ReplyBody, localVars
  <2> QED
    BY <1>2, <2>1 DEF HeaderInv, Chunking
<1>10. CASE NoReplyBody
  <2>1. pc' = "finish" /\ cstatus' = [cstatus EXCEPT !.close = TRUE]
    BY <1>10 DEF NoReplyBody
  <2>2. cstatus'.close
    BY <2>1 DEF ExchangeInv, FlagsInv
  <2> QED
    BY <2>1, <2>2 DEF HeaderInv, Chunking
<1>11. CASE UNCHANGED vars \/ \E c \in Clients : Send(c) \/ End(c)
  <2>1. UNCHANGED <<pc, dir, enc, cstatus, length, answer, reply>>
    BY <1>11 DEF vars, Send, End, residueVars, localVars, serverVars
  <2>2. LinesRead(reply, answer)' <=> LinesRead(reply, answer)
    BY <2>1 DEF LinesRead, Between
  <2> QED
    BY <1>2, <2>1, <2>2 DEF HeaderInv
<1> QED
  BY <1>3, <1>4, <1>5, <1>6, <1>7, <1>8, <1>9, <1>10, <1>11 DEF Next, DoitStep

LEMMA HeaderInit ==
  ASSUME Init
  PROVE  HeaderInv
BY DEF Init, HeaderInv, Chunking

-----------------------------------------------------------------------------
(* Refusals.                                                               *)

\* No refusal is sent to the server of a client that is to be kept.
RefusedInv == pc # "return" /\ ~cstatus.close => toServer \in Seq(Texts)

\* More is written, and client_setclose is not reset.
LEMMA RefusedMore ==
  ASSUME RefusedInv, pc # "return", cstatus.close => cstatus'.close,
         \E s \in Seq(Texts) : toServer' \in {toServer, toServer \o s}
  PROVE  RefusedInv'
<1>1. PICK s \in Seq(Texts) : toServer' \in {toServer, toServer \o s}
  OBVIOUS
<1>2. ASSUME ~cstatus'.close PROVE toServer' \in Seq(Texts)
  <2>1. toServer \in Seq(Texts)
    BY <1>2 DEF RefusedInv
  <2>2. toServer \o s \in Seq(Texts)
    BY <2>1, ConcatProperties
  <2> QED
    BY <1>1, <2>1, <2>2
<1> QED
  BY <1>2 DEF RefusedInv

\* RefusedInv is inductive.
LEMMA RefusedNext ==
  ASSUME ExchangeInv, RefusedInv, [Next]_vars
  PROVE  RefusedInv'
<1>1. <<>> \in Seq(Texts)
  BY EmptySeq
<1>2. CASE Wake \/ Return
  <2>1. toServer' = <<>>
    BY <1>2 DEF Wake, Return, serverVars, ExchangeInv, OpeningInv, Opening
  <2> QED
    BY <1>1, <2>1 DEF RefusedInv
<1>3. CASE OpenFails \/ NotImplemented \/ StartTunnel \/ Finish
  BY <1>3 DEF OpenFails, NotImplemented, StartTunnel, Finish, RefusedInv
<1>4. CASE OpenServer
  <2>1. toServer' = Proxy(<<"line", "close", "close">>)
    BY <1>4 DEF OpenServer
  <2>2. <<"line", "close", "close">> \in Seq(Spoken)
    BY DEF Spoken, ItemKinds, Headers
  <2>3. Proxy(<<"line", "close", "close">>) \in Seq(Texts)
    BY <2>2, ProxyIs
  <2> QED
    BY <2>1, <2>3 DEF RefusedInv
<1>5. CASE RequestHeader
  <2>1. PICK l \in FromClient(line).lines :
          /\ cstatus' = [cstatus EXCEPT !.close = @ \/ l[1] = "close"]
          /\ toServer' = toServer \o Forwarded(l)
    BY <1>5 DEF RequestHeader
  <2>2. pc = "header"
    BY <1>5 DEF RequestHeader
  <2>3. l \in Texts
    BY <2>1, ClientLine DEF ExchangeInv, FlagsInv, Buffers
  <2>4. Forwarded(l) \in Seq(Texts)
    BY <2>3, ForwardedIs
  <2>5. cstatus.close => cstatus'.close
    BY <2>1 DEF ExchangeInv, FlagsInv
  <2> QED
    BY <2>1, <2>2, <2>4, <2>5, RefusedMore
<1>6. CASE RequestBody
  <2> DEFINE r == ReadBytes(rio, inbox[fd], ended[fd], length)
  <2>1. /\ pc = "body" /\ length >= 0
        /\ toServer' = toServer \o Padded(r.data, length)
        /\ cstatus' = [cstatus EXCEPT !.shut = @ \/ r.ret = 0]
    BY <1>6 DEF RequestBody
  <2>2. /\ rio \in Seq(ItemsBy({fd})) /\ inbox[fd] \in Seq(ItemsBy({fd}))
        /\ Seq(ItemsBy({fd})) \subseteq Seq(Texts) /\ length \in Nat
    <3>1. ClientStreams /\ fd \in Clients /\ length \in {-1, 0, 2}
      BY DEF ExchangeInv, FlagsInv
    <3>2. length \in Nat
      BY <2>1, <3>1
    <3>3. /\ rio \in Seq(ItemsBy({fd})) /\ inbox[fd] \in Seq(ItemsBy({fd}))
          /\ Seq(ItemsBy({fd})) \subseteq Seq(Texts)
      BY <3>1, ClientsTexts DEF ClientStreams
    <3> QED
      BY <3>2, <3>3
  <2>3. BytesRead(ItemsBy({fd}), rio, inbox[fd], ended[fd], r)
    BY <2>2, ReadBytesIs, Zenon
  <2>4. r.data \in Seq(ItemsBy({fd}))
    BY <2>3, Zenon DEF BytesRead
  <2> HIDE DEF r
  <2>5. Padded(r.data, length) \in Seq(Texts)
    BY <2>2, <2>4, PaddedIs
  <2>6. cstatus.close => cstatus'.close
    BY <2>1 DEF ExchangeInv, FlagsInv
  <2> QED
    BY <2>1, <2>5, <2>6, RefusedMore
<1>7. CASE NoRequestBody \/ NoReplyBody
  <2>1. cstatus' = [cstatus EXCEPT !.close = TRUE]
    BY <1>7 DEF NoRequestBody, NoReplyBody
  <2>2. cstatus'.close
    BY <2>1 DEF ExchangeInv, FlagsInv
  <2> QED
    BY <2>2 DEF RefusedInv
<1>8. CASE RequestCut \/ ReplyCut
  <2>1. pc \in {"header", "replyheader"} /\ cstatus' = [cstatus EXCEPT !.shut = TRUE] /\ UNCHANGED toServer
    BY <1>8 DEF RequestCut, ReplyCut, serverVars
  <2>2. cstatus.close => cstatus'.close
    BY <2>1 DEF ExchangeInv, FlagsInv
  <2> QED
    BY <1>1, <2>1, <2>2, RefusedMore
<1>9. CASE ChunkSize \/ ChunkData \/ Trailer \/ ChunkEnd
  <2>1. PICK r : \E items \in Seq(Texts) : Pass(r, items)
    BY <1>9, ChunkStepIs
  <2>2. PICK items \in Seq(Texts) : Pass(r, items)
    BY <2>1
  <2>3. pc \in Chunking /\ UNCHANGED cstatus
    BY <1>9, ChunkStepIs DEF ChunkVars, residueVars
  <2>4. toServer' \in {toServer, toServer \o items}
    BY <2>2 DEF Pass
  <2> QED
    BY <2>2, <2>3, <2>4, RefusedMore DEF Chunking
<1>10. CASE \/ ReadRequest \/ StartConnect \/ SkipHeader \/ ChunkSpins \/ Raw \/ ReplyStatus \/ ReplyHeader
            \/ ReplyReset \/ ReplyBody \/ \E d \in Directions : StartChunked(d)
            \/ UNCHANGED vars \/ \E c \in Clients : Send(c) \/ End(c)
  <2>1. UNCHANGED <<cstatus, toServer>> /\ (pc = "return" => pc' = "return")
    BY <1>10 DEF ReadRequest, StartConnect, SkipHeader, ChunkSpins, ChunkVars, Raw, ReplyStatus, ReplyHeader,
       ReplyReset, ReplyBody, StartChunked, vars, Send, End, residueVars, localVars, serverVars
  <2> QED
    BY <2>1 DEF RefusedInv
<1> QED
  BY <1>2, <1>3, <1>4, <1>5, <1>6, <1>7, <1>8, <1>9, <1>10 DEF Next, DoitStep

-----------------------------------------------------------------------------
(* Plain requests.                                                         *)

\* c's request is a plain one, whose empty line is the n-th item.
PlainAt(c, n) ==
  /\ Has(c, "host") /\ asked[c][1] \in Methods
  /\ n \in 2 .. Len(asked[c]) /\ IsWhole(Items(c), n)
  /\ IF asked[c][1] \in Posts THEN Has(c, "length") \/ Has(c, "empty") ELSE n = Len(asked[c])

\* c has sent its header, or says no more; s holds nothing of the header.
Spent(c, n, s) == (sent[c] >= n \/ ended[c]) /\ s \in Seq(Late(c))

\* The items of the client that is served that are still there.
Stream == rio \o inbox[fd]
Unread(p) == Between(Stream, Items(fd), p, sent[fd])
Drained(n) == Spent(fd, n, rio) /\ inbox[fd] \in Seq(Late(fd))

\* What the first p items of the header have said.
Heard(n, p) ==
  /\ \A i \in 2 .. p : asked[fd][i] = "close" => cstatus.close
  /\ spins = 0 =>
       /\ \A i \in 2 .. p : /\ asked[fd][i] = "host" => isHostSet
                            /\ asked[fd][i] \in {"length", "empty"} => length = Len(asked[fd]) - n
       /\ toServer = Proxy(<<"line", "close", "close">>) \o PassedOn(Items(fd))[p]

\* If the client wants the end, that is known.
Settled == cstatus.close \/ cstatus.shut \/ ~Has(fd, "close")

Replying == {"status", "raw", "replyheader", "replybody", "finish"}

\* The line in buf is that of the request.
Known == buf = Items(fd)[1] /\ rq.kind = asked[fd][1]

\* The request was not there in time, or not to its end, or is not passed on
\* because of a "chunked" left from an earlier one.
Missed == spins # 0 \/ (ended[fd] /\ sent[fd] < Len(asked[fd])) \/ (rq.kind \in Posts /\ enc["up"])

\* Where doit() is in a plain request.  After its header nothing of it is
\* taken for a line.
ServedAt(n) ==
  /\ pc = "request" => Unread(0) \/ (Drained(n) /\ ~Has(fd, "close"))
  /\ pc = "open" => (Drained(n) /\ spins # 0) \/ (Unread(1) /\ Known)
  /\ pc = "header" =>
       /\ line[1] # "blank"
       /\ \/ Drained(n) /\ spins # 0
          \/ Known /\ \E p \in 1 .. n - 1 : Unread(p) /\ Heard(n, p)
  /\ pc = "body" => asked[fd][1] \in Posts /\ sent[fd] >= n /\ Unread(n) /\ Known /\ Heard(n, n)
  /\ pc \in Chunking \cup Replying => Drained(n) /\ Settled
  /\ pc \in Chunking /\ dir = "up" => Missed
  /\ pc \in {"status", "raw"} => Missed \/ (toServer = Upstream(fd) /\ buf = Items(fd)[1])

\* What an armed client has in its socket.
WaitingAt(c, n) ==
  Between(inbox[c], Items(c), 0, sent[c]) \/ (Spent(c, n, inbox[c]) /\ ~Has(c, "close"))

SentInv == \A c \in Clients : sent[c] <= Len(asked[c])
WaitingInv == \A c \in Clients : conn[c] = "armed" => \A n \in Nat : PlainAt(c, n) => WaitingAt(c, n)
ServedInv == \A n \in Nat : PlainAt(fd, n) => ServedAt(n)
PlainInv == SentInv /\ WaitingInv /\ ServedInv

\* The items of a plain request.
PlainShape(c, n) ==
  /\ n \in 2 .. Len(asked[c]) /\ Len(asked[c]) \in Nat
  /\ Items(c) \in Seq(ItemsBy({c})) /\ Len(Items(c)) = Len(asked[c]) /\ Items(c) # <<>>
  /\ \A i \in 1 .. Len(asked[c]) : Items(c)[i] = <<asked[c][i], c>>
  /\ asked[c][1] \in Methods /\ asked[c][n] = "blank"
  /\ \A i \in 2 .. n - 1 : asked[c][i] \in Headers \ {"chunked"}
  /\ \A i \in n + 1 .. Len(asked[c]) : asked[c][i] = "body"
  /\ \A i \in 2 .. n - 1 : asked[c][i] \in {"length", "empty"} => BodyLen(asked[c][i]) = Len(asked[c]) - n
  /\ \A k \in Headers : Has(c, k) => \E i \in 2 .. n - 1 : asked[c][i] = k

LEMMA ItemsAre ==
  ASSUME ClientStreams, NEW c \in Clients
  PROVE  /\ asked[c] \in Seq(Spoken) /\ Len(asked[c]) \in Nat
         /\ Items(c) \in Seq(ItemsBy({c})) /\ Len(Items(c)) = Len(asked[c])
         /\ \A i \in 1 .. Len(asked[c]) : Items(c)[i] = <<asked[c][i], c>>
<1>1. asked[c] \in Seq(Spoken)
  BY DEF ClientStreams
<1>2. Len(asked[c]) \in Nat /\ DOMAIN asked[c] = 1 .. Len(asked[c])
  BY <1>1, LenProperties
<1>3. Items(c) \in Seq(Spoken \X {c})
  BY <1>1, ByIs DEF Items
<1>4. DOMAIN Items(c) = 1 .. Len(asked[c]) /\ \A i \in 1 .. Len(asked[c]) : Items(c)[i] = <<asked[c][i], c>>
  BY <1>2 DEF Items, By
<1>5. Len(Items(c)) = Len(asked[c])
  BY <1>2, <1>3, <1>4, LenProperties
<1> QED
  BY <1>1, <1>2, <1>3, <1>4, <1>5 DEF ItemsBy

LEMMA PlainIs ==
  ASSUME ClientStreams, NEW c \in Clients, NEW n, PlainAt(c, n)
  PROVE  PlainShape(c, n)
<1> DEFINE N == Len(asked[c])
           items == Items(c)
<1>1. /\ asked[c] \in Seq(Spoken) /\ N \in Nat /\ items \in Seq(ItemsBy({c})) /\ Len(items) = N
      /\ \A i \in 1 .. N : items[i] = <<asked[c][i], c>>
  BY ItemsAre
<1>2. n \in 2 .. N /\ asked[c][1] \in Methods /\ IsWhole(items, n)
  BY DEF PlainAt
<1> HIDE DEF items
<1>3. /\ \A i \in 1 .. N : items[i][1] = asked[c][i]
      /\ n \in 1 .. N /\ 2 .. n - 1 \subseteq 1 .. N /\ n + 1 .. N \subseteq 1 .. N
  BY <1>1, <1>2
<1>4. /\ items[n][1] = "blank"
      /\ \A i \in 2 .. n - 1 : items[i][1] \in Headers \ {"chunked"}
      /\ \A i \in n + 1 .. N : items[i][1] = "body"
      /\ \A i \in 2 .. n - 1 : items[i][1] \in {"length", "empty"} => BodyLen(items[i][1]) = N - n
  BY <1>1, <1>2 DEF IsWhole
<1>5. /\ asked[c][n] = "blank"
      /\ \A i \in 2 .. n - 1 : asked[c][i] \in Headers \ {"chunked"}
      /\ \A i \in n + 1 .. N : asked[c][i] = "body"
      /\ \A i \in 2 .. n - 1 : asked[c][i] \in {"length", "empty"} => BodyLen(asked[c][i]) = N - n
  BY <1>3, <1>4
<1>6. ASSUME NEW k \in Headers, Has(c, k) PROVE \E i \in 2 .. n - 1 : asked[c][i] = k
  <2>1. PICK i \in 1 .. N : asked[c][i] = k
    BY <1>1, <1>6, LenProperties DEF Has, ToSet
  <2>2. k \notin Methods /\ k # "blank" /\ k # "body"
    BY DEF Methods, Headers
  <2>3. i # 1 /\ i # n /\ i \notin n + 1 .. N
    BY <1>2, <1>5, <2>1, <2>2
  <2>4. i \in 2 .. n - 1
    BY <1>1, <1>2, <2>1, <2>3
  <2> QED
    BY <2>1, <2>4
<1>7. items # <<>>
  BY <1>1, <1>2, EmptySeq
<1> QED
  BY <1>1, <1>2, <1>5, <1>6, <1>7 DEF PlainShape, items

\* What a client sends never changes.
LEMMA AskedStays ==
  ASSUME UNCHANGED asked
  PROVE  /\ \A c : Items(c)' = Items(c) /\ \A k : Has(c, k)' = Has(c, k)
         /\ \A c, n : PlainAt(c, n)' <=> PlainAt(c, n)
<1>1. ASSUME NEW c PROVE Items(c)' = Items(c) /\ \A k : Has(c, k)' = Has(c, k)
  BY DEF Items, Has
<1>2. ASSUME NEW c, NEW n PROVE PlainAt(c, n)' <=> PlainAt(c, n)
  <2>1. Has(c, "host")' = Has(c, "host") /\ Has(c, "length")' = Has(c, "length") /\ Has(c, "empty")' = Has(c, "empty")
    BY <1>1
  <2>2. IsWhole(Items(c), n)' <=> IsWhole(Items(c), n)
    BY <1>1 DEF IsWhole
  <2> QED
    BY <2>1, <2>2 DEF PlainAt
<1> QED
  BY <1>1, <1>2

\* A step in which only the stream of the client changes.
LEMMA ServedStays ==
  ASSUME NEW n, ServedAt(n),
         UNCHANGED <<asked, pc, fd, buf, rq, cstatus, enc, line, isHostSet, length, dir, spins, toServer>>,
         \A p \in Nat : Unread(p) => Unread(p)', Drained(n) => Drained(n)', n \in Nat,
         sent[fd] \in Nat, sent'[fd] \in Nat, sent[fd] <= sent'[fd],
         ended[fd] => ended'[fd] /\ sent'[fd] = sent[fd]
  PROVE  ServedAt(n)'
<1>1. /\ Items(fd)' = Items(fd) /\ \A k : Has(fd, k)' = Has(fd, k)
  BY AskedStays
<1>2. (Settled' <=> Settled) /\ (Known' <=> Known)
  BY <1>1 DEF Settled, Known
<1>3. \A p : Heard(n, p)' <=> Heard(n, p)
  BY <1>1, Zenon DEF Heard
<1>4. Upstream(fd)' = Upstream(fd)
  BY <1>1 DEF Upstream
<1>5. 0 \in Nat /\ 1 \in Nat /\ \A p \in 1 .. n - 1 : p \in Nat
  OBVIOUS
<1>6. sent[fd] >= n => sent'[fd] >= n
  OBVIOUS
<1>7. Unread(0) => Unread(0)'
  BY <1>5
<1>8. Unread(1) => Unread(1)'
  BY <1>5
<1>9. Unread(n) => Unread(n)'
  BY <1>5
<1>10. pc' = "header" => /\ line'[1] # "blank"
                         /\ \/ Drained(n)' /\ spins' # 0
                            \/ Known' /\ \E p \in 1 .. n - 1 : Unread(p)' /\ Heard(n, p)'
  <2> HAVE pc' = "header"
  <2>1. /\ line[1] # "blank"
        /\ \/ Drained(n) /\ spins # 0
           \/ Known /\ \E p \in 1 .. n - 1 : Unread(p) /\ Heard(n, p)
    BY DEF ServedAt
  <2>2. CASE Drained(n) /\ spins # 0
    BY <2>1, <2>2
  <2>3. ASSUME Known, NEW p \in 1 .. n - 1, Unread(p), Heard(n, p)
        PROVE  Known' /\ \E m \in 1 .. n - 1 : Unread(m)' /\ Heard(n, m)'
    <3>1. Unread(p)' /\ Heard(n, p)' /\ Known'
      BY <1>2, <1>3, <1>5, <2>3, Zenon
    <3> QED
      BY <3>1, Zenon
  <2> QED
    BY <2>1, <2>2, <2>3
<1>11. pc' = "body" => asked'[fd'][1] \in Posts /\ sent'[fd'] >= n /\ Unread(n)' /\ Known' /\ Heard(n, n)'
  BY <1>2, <1>3, <1>6, <1>9, Zenon DEF ServedAt
<1>12. pc' = "request" => Unread(0)' \/ (Drained(n)' /\ ~Has(fd, "close")')
  BY <1>1, <1>7 DEF ServedAt
<1>13. pc' = "open" => (Drained(n)' /\ spins' # 0) \/ (Unread(1)' /\ Known')
  BY <1>2, <1>8 DEF ServedAt
<1>14. pc' \in Chunking \cup Replying => Drained(n)' /\ Settled'
  BY <1>2 DEF ServedAt
<1>15. Missed => Missed'
  BY DEF Missed
<1>16. pc' \in {"status", "raw"} => Missed' \/ (toServer' = Upstream(fd)' /\ buf' = Items(fd)'[1])
  BY <1>1, <1>4, <1>15 DEF ServedAt
<1>17. pc' \in Chunking /\ dir' = "up" => Missed'
  BY <1>15 DEF ServedAt
<1> QED
  BY <1>10, <1>11, <1>12, <1>13, <1>14, <1>16, <1>17 DEF ServedAt

\* A part of a sequence.
LEMMA Piece ==
  ASSUME NEW S, NEW s \in Seq(S), NEW m \in 0 .. Len(s), NEW n \in 0 .. Len(s), m <= n
  PROVE  SubSeq(s, m + 1, n) \in Seq(S) /\ Between(SubSeq(s, m + 1, n), s, m, n)
<1> DEFINE u == SubSeq(s, m + 1, n)
<1>1. Len(s) \in Nat /\ \A i \in 1 .. Len(s) : s[i] \in S
  BY LenProperties, ElementOfSeq
<1>2. \A i \in m + 1 .. n : s[i] \in S
  BY <1>1
<1>3. m + 1 \in Int /\ n \in Int
  BY <1>1
<1>4. /\ u \in Seq(S)
      /\ Len(u) = IF m + 1 <= n THEN n - (m + 1) + 1 ELSE 0
      /\ \A i \in 1 .. n - (m + 1) + 1 : u[i] = s[m + 1 + i - 1]
  BY <1>2, <1>3, SubSeqProperties
<1> HIDE DEF u
<1>5. Len(u) = n - m
  BY <1>1, <1>4
<1>6. ASSUME NEW i \in 1 .. Len(u) PROVE u[i] = s[m + i]
  <2>1. i \in 1 .. n - (m + 1) + 1 /\ m + 1 + i - 1 = m + i
    BY <1>1, <1>5
  <2> QED
    BY <1>4, <2>1
<1> QED
  BY <1>4, <1>5, <1>6 DEF u, Between

\* What follows is appended.
LEMMA BetweenJoin ==
  ASSUME NEW S, NEW items, NEW s \in Seq(S), NEW u \in Seq(S), NEW p \in Int, NEW q \in Int, NEW m \in Int,
         Between(s, items, p, q), Between(u, items, q, m)
  PROVE  Between(s \o u, items, p, m)
<1>1. Len(s) = q - p /\ \A i \in 1 .. Len(s) : s[i] = items[p + i]
  BY DEF Between
<1>2. Len(u) = m - q /\ \A i \in 1 .. Len(u) : u[i] = items[q + i]
  BY DEF Between
<1>3. PICK v : v = s \o u
  OBVIOUS
<1>4. /\ Len(v) = Len(s) + Len(u) /\ Len(s) \in Nat /\ Len(u) \in Nat
      /\ \A i \in 1 .. Len(s) + Len(u) : v[i] = IF i <= Len(s) THEN s[i] ELSE u[i - Len(s)]
  BY <1>3, ConcatProperties, LenProperties
<1>5. Len(v) = m - p
  BY <1>1, <1>2, <1>4
<1>6. ASSUME NEW i \in 1 .. Len(v) PROVE v[i] = items[p + i]
  <2>1. i \in 1 .. Len(s) + Len(u) /\ i \in Int
    BY <1>4
  <2>2. CASE i <= Len(s)
    <3>1. i \in 1 .. Len(s)
      BY <1>4, <2>1, <2>2
    <3>2. v[i] = s[i]
      BY <1>4, <2>1, <2>2
    <3> QED
      BY <1>1, <3>1, <3>2
  <2>3. CASE ~(i <= Len(s))
    <3>1. i - Len(s) \in 1 .. Len(u)
      BY <1>4, <2>1, <2>3
    <3>2. q + (i - Len(s)) = p + i
      BY <1>1, <1>4, <2>1
    <3>3. v[i] = u[i - Len(s)]
      BY <1>4, <2>1, <2>3
    <3> QED
      BY <1>2, <3>1, <3>2, <3>3
  <2> QED
    BY <2>2, <2>3
<1> QED
  BY <1>3, <1>5, <1>6 DEF Between

\* After the empty line a plain request has nothing but its body.
LEMMA LateAre ==
  ASSUME NEW c, NEW n, PlainShape(c, n), NEW p \in Nat, NEW q \in Nat, n <= p, q <= Len(asked[c]), NEW S,
         NEW s \in Seq(S), Between(s, Items(c), p, q)
  PROVE  s \in Seq(Late(c))
<1>1. Len(s) = q - p /\ Len(s) \in Nat /\ \A i \in 1 .. Len(s) : s[i] = Items(c)[p + i]
  BY LenProperties DEF Between
<1>2. /\ n \in 2 .. Len(asked[c]) /\ Len(asked[c]) \in Nat
      /\ \A i \in 1 .. Len(asked[c]) : Items(c)[i] = <<asked[c][i], c>>
      /\ \A i \in n + 1 .. Len(asked[c]) : asked[c][i] = "body"
  BY DEF PlainShape
<1>3. \A x : <<"body", x>> \in Late(x)
  BY DEF Late
<1>4. ASSUME NEW i \in 1 .. Len(s) PROVE s[i] \in Late(c)
  <2>1. p + i \in n + 1 .. Len(asked[c]) /\ p + i \in 1 .. Len(asked[c])
    BY <1>1, <1>2
  <2> QED
    BY <1>1, <1>2, <1>3, <2>1
<1>5. s \in [1 .. Len(s) -> Late(c)]
  BY <1>1, <1>4, LenProperties
<1> QED
  BY <1>1, <1>5, Listing, Zenon

\* What is sent follows what is there.
LEMMA SentFollows ==
  ASSUME ClientStreams, NEW c \in Clients, NEW m \in sent[c] + 1 .. Len(asked[c])
  PROVE  LET new == SubSeq(Items(c), sent[c] + 1, m) IN
         /\ new \in Seq(ItemsBy({c}))
         /\ \A p \in Nat, s \in Seq(ItemsBy({c})) :
              Between(s, Items(c), p, sent[c]) => Between(s \o new, Items(c), p, m)
         /\ \A n, s : PlainAt(c, n) /\ sent[c] >= n /\ s \in Seq(Late(c)) => s \o new \in Seq(Late(c))
<1> DEFINE new == SubSeq(Items(c), sent[c] + 1, m)
<1>1. /\ Len(asked[c]) \in Nat /\ Items(c) \in Seq(ItemsBy({c})) /\ Len(Items(c)) = Len(asked[c]) /\ sent[c] \in Nat
  BY ItemsAre DEF ClientStreams
<1>2. m \in 0 .. Len(Items(c)) /\ sent[c] \in 0 .. Len(Items(c)) /\ sent[c] <= m
  BY <1>1
<1>3. new \in Seq(ItemsBy({c})) /\ Between(new, Items(c), sent[c], m)
  BY <1>1, <1>2, Piece
<1> HIDE DEF new
<1>4. ASSUME NEW p \in Nat, NEW s \in Seq(ItemsBy({c})), Between(s, Items(c), p, sent[c])
      PROVE  Between(s \o new, Items(c), p, m)
  <2>1. p \in Int /\ sent[c] \in Int /\ m \in Int
    BY <1>1
  <2> QED
    BY <1>3, <1>4, <2>1, BetweenJoin
<1>5. ASSUME NEW n, NEW s, PlainAt(c, n), sent[c] >= n, s \in Seq(Late(c))
      PROVE  s \o new \in Seq(Late(c))
  <2>1. PlainShape(c, n)
    BY <1>5, PlainIs
  <2>2. n <= sent[c] /\ m <= Len(asked[c]) /\ m \in Nat
    <3>1. n \in Nat
      BY <2>1 DEF PlainShape
    <3> QED
      BY <1>1, <1>5, <3>1
  <2>3. new \in Seq(Late(c))
    BY <1>1, <1>3, <2>1, <2>2, LateAre
  <2> QED
    BY <1>5, <2>3, ConcatProperties
<1> QED
  BY <1>3, <1>4, <1>5 DEF new

\* More of a plain request arrives: what was unread is followed by it.
LEMMA SendPlain ==
  ASSUME ExchangeInv, PlainInv, NEW c \in Clients, Send(c)
  PROVE  PlainInv'
<1>1. PICK m \in sent[c] + 1 .. Len(asked[c]) :
        /\ sent' = [sent EXCEPT ![c] = m]
        /\ inbox' = [inbox EXCEPT ![c] = @ \o SubSeq(Items(c), sent[c] + 1, m)]
  BY DEF Send
<1>2. /\ UNCHANGED <<asked, ended, conn, pc, fd, rio, buf, rq, cstatus, enc>>
      /\ UNCHANGED <<line, isHostSet, length, dir, spins, toServer>>
      /\ ClientStreams /\ fd \in Clients /\ ~ended[c]
  BY DEF Send, ExchangeInv, FlagsInv, residueVars, localVars, serverVars
<1> DEFINE new == SubSeq(Items(c), sent[c] + 1, m)
<1>3. /\ new \in Seq(ItemsBy({c}))
      /\ \A p \in Nat, s \in Seq(ItemsBy({c})) : Between(s, Items(c), p, sent[c]) => Between(s \o new, Items(c), p, m)
      /\ \A n, s : PlainAt(c, n) /\ sent[c] >= n /\ s \in Seq(Late(c)) => s \o new \in Seq(Late(c))
  BY <1>2, SentFollows
<1>4. /\ \A x \in Clients : /\ sent[x] \in Nat /\ sent'[x] \in Nat /\ sent[x] <= sent'[x]
                            /\ x # c => sent'[x] = sent[x] /\ inbox'[x] = inbox[x]
      /\ sent'[c] = m /\ m <= Len(asked[c]) /\ inbox'[c] = inbox[c] \o new
  <2>1. sent \in [Clients -> Nat] /\ DOMAIN inbox = Clients /\ Len(asked[c]) \in Nat
    BY <1>2, ItemsAre DEF ClientStreams
  <2>2. m \in Nat /\ sent[c] \in Nat /\ sent[c] <= m /\ m <= Len(asked[c])
    BY <2>1
  <2>3. sent'[c] = m /\ inbox'[c] = inbox[c] \o new
    BY <1>1, <2>1
  <2>4. \A x \in Clients : x # c => sent'[x] = sent[x] /\ inbox'[x] = inbox[x]
    BY <1>1, <2>1
  <2> HIDE DEF new
  <2> QED
    BY <2>1, <2>2, <2>3, <2>4
<1> HIDE DEF new
<1>5. /\ \A x : Items(x)' = Items(x) /\ \A k : Has(x, k)' = Has(x, k)
      /\ \A x, n : PlainAt(x, n)' <=> PlainAt(x, n)
  BY <1>2, AskedStays
<1>6. SentInv'
  BY <1>2, <1>4 DEF PlainInv, SentInv
<1>7. \A x \in Clients : inbox[x] \in Seq(ItemsBy({x}))
  BY <1>2, ClientsTexts DEF ClientStreams
<1>8. WaitingInv'
  <2> SUFFICES ASSUME NEW x \in Clients, conn'[x] = "armed", NEW n \in Nat, PlainAt(x, n)'
               PROVE  WaitingAt(x, n)'
    BY DEF WaitingInv
  <2>1. PlainAt(x, n) /\ WaitingAt(x, n)
    BY <1>2, <1>5 DEF PlainInv, WaitingInv
  <2>2. CASE x = c
    <3>1. CASE Between(inbox[c], Items(c), 0, sent[c])
      <4>1. Between(inbox[c] \o new, Items(c), 0, m)
        BY <1>3, <1>7, <3>1
      <4> QED
        BY <1>4, <1>5, <2>2, <4>1 DEF WaitingAt
    <3>2. CASE Spent(c, n, inbox[c]) /\ ~Has(c, "close")
      <4>1. sent[c] >= n /\ inbox[c] \in Seq(Late(c))
        BY <1>2, <3>2 DEF Spent
      <4>2. inbox[c] \o new \in Seq(Late(c)) /\ m >= n
        BY <1>3, <1>4, <2>1, <2>2, <4>1
      <4> QED
        BY <1>4, <1>5, <2>2, <3>2, <4>2 DEF WaitingAt, Spent
    <3> QED
      BY <2>1, <2>2, <3>1, <3>2 DEF WaitingAt
  <2>3. CASE x # c
    BY <1>2, <1>4, <1>5, <2>1, <2>3 DEF WaitingAt, Spent, Between
  <2> QED
    BY <2>2, <2>3
<1>9. ServedInv'
  <2> SUFFICES ASSUME NEW n \in Nat, PlainAt(fd, n)' PROVE ServedAt(n)'
    BY DEF ServedInv
  <2>1. PlainAt(fd, n) /\ ServedAt(n)
    BY <1>2, <1>5 DEF PlainInv, ServedInv
  <2>2. CASE fd = c
    <3>1. rio \in Seq(ItemsBy({c}))
      BY <1>2, <2>2 DEF ClientStreams
    <3>2. rio' \o inbox'[fd'] = (rio \o inbox[fd]) \o new /\ rio \o inbox[fd] \in Seq(ItemsBy({c}))
      <4>1. PICK s1 \in Seq(ItemsBy({c})), s2 \in Seq(ItemsBy({c})), s3 \in Seq(ItemsBy({c})) :
              s1 = rio /\ s2 = inbox[c] /\ s3 = new
        BY <1>3, <1>7, <3>1
      <4>2. Associates(s1, s2, s3)
        BY ThreeParts, Zenon
      <4>3. s1 \o s2 \in Seq(ItemsBy({c}))
        BY ConcatProperties
      <4> QED
        BY <1>2, <1>4, <2>2, <4>1, <4>2, <4>3 DEF Associates
    <3>3. ASSUME NEW p \in Nat, Unread(p) PROVE Unread(p)'
      <4>1. Between(rio \o inbox[fd], Items(c), p, sent[c])
        BY <2>2, <3>3 DEF Unread, Stream
      <4>2. Between((rio \o inbox[fd]) \o new, Items(c), p, m)
        BY <1>3, <3>2, <4>1
      <4> QED
        BY <1>2, <1>4, <1>5, <2>2, <3>2, <4>2 DEF Unread, Stream
    <3>4. ASSUME Drained(n) PROVE Drained(n)'
      <4>1. sent[c] >= n /\ rio \in Seq(Late(c)) /\ inbox[c] \in Seq(Late(c))
        BY <1>2, <2>2, <3>4 DEF Drained, Spent
      <4>2. inbox[c] \o new \in Seq(Late(c)) /\ m >= n
        BY <1>3, <1>4, <2>1, <2>2, <4>1
      <4> QED
        BY <1>2, <1>4, <2>2, <4>1, <4>2 DEF Drained, Spent, Late
    <3> QED
      BY <1>2, <1>4, <2>1, <2>2, <3>3, <3>4, ServedStays
  <2>3. CASE fd # c
    <3>1. ASSUME NEW p \in Nat, Unread(p) PROVE Unread(p)'
      BY <1>2, <1>4, <1>5, <2>3, <3>1 DEF Unread, Stream, Between
    <3>2. Drained(n) => Drained(n)'
      BY <1>2, <1>4, <2>3 DEF Drained, Spent, Late
    <3> QED
      BY <1>2, <1>4, <2>1, <2>3, <3>1, <3>2, ServedStays
  <2> QED
    BY <2>2, <2>3
<1> QED
  BY <1>6, <1>8, <1>9 DEF PlainInv

\* The end of a stream takes nothing away.
LEMMA EndPlain ==
  ASSUME ExchangeInv, PlainInv, (\E c \in Clients : End(c)) \/ UNCHANGED vars
  PROVE  PlainInv'
<1>1. /\ UNCHANGED <<asked, sent, inbox, conn, pc, fd, rio, buf, rq, cstatus, enc>>
      /\ UNCHANGED <<line, isHostSet, length, dir, spins, toServer>>
      /\ (\E c \in Clients : ended' = [ended EXCEPT ![c] = TRUE]) \/ UNCHANGED ended
  BY DEF End, vars, clientVars, residueVars, localVars, serverVars
<1>2. \A c \in Clients : ended[c] => ended'[c]
  <2>1. CASE UNCHANGED ended
    BY <2>1
  <2>2. ASSUME NEW c \in Clients, ended' = [ended EXCEPT ![c] = TRUE]
        PROVE  \A x \in Clients : ended[x] => ended'[x]
    BY <2>2
  <2> QED
    BY <1>1, <2>1, <2>2
<1>3. fd \in Clients /\ \A c \in Clients : sent[c] \in Nat
  BY DEF ExchangeInv, FlagsInv, ClientStreams
<1>4. /\ \A c : Items(c)' = Items(c) /\ \A k : Has(c, k)' = Has(c, k)
      /\ \A c, n : PlainAt(c, n)' <=> PlainAt(c, n)
  BY <1>1, AskedStays
<1>5. SentInv'
  BY <1>1 DEF PlainInv, SentInv
<1>6. WaitingInv'
  <2> SUFFICES ASSUME NEW c \in Clients, conn'[c] = "armed", NEW n \in Nat, PlainAt(c, n)'
               PROVE  WaitingAt(c, n)'
    BY DEF WaitingInv
  <2>1. WaitingAt(c, n)
    BY <1>1, <1>4 DEF PlainInv, WaitingInv
  <2>2. Between(inbox[c], Items(c), 0, sent[c])' <=> Between(inbox[c], Items(c), 0, sent[c])
    BY <1>1, <1>4 DEF Between
  <2>3. Spent(c, n, inbox[c]) => Spent(c, n, inbox[c])'
    BY <1>1, <1>2 DEF Spent, Late
  <2> QED
    BY <1>4, <2>1, <2>2, <2>3 DEF WaitingAt
<1>7. ServedInv'
  <2> SUFFICES ASSUME NEW n \in Nat, PlainAt(fd, n)' PROVE ServedAt(n)'
    BY DEF ServedInv
  <2>1. ServedAt(n)
    BY <1>1, <1>4 DEF PlainInv, ServedInv
  <2>2. ASSUME NEW p \in Nat, Unread(p) PROVE Unread(p)'
    BY <1>1, <1>4, <2>2 DEF Unread, Stream, Between
  <2>3. Drained(n) => Drained(n)'
    BY <1>1, <1>2, <1>3 DEF Drained, Spent, Late
  <2> QED
    BY <1>1, <1>2, <1>3, <2>1, <2>2, <2>3, ServedStays
<1> QED
  BY <1>5, <1>6, <1>7 DEF PlainInv

\* epoll_wait() reports c: what is in its socket is what doit() will read.
LEMMA WakePlain ==
  ASSUME ExchangeInv, PlainInv, Wake
  PROVE  PlainInv'
<1>1. PICK c \in Clients : conn[c] = "armed" /\ fd' = c /\ conn' = [conn EXCEPT ![c] = "served"]
  BY DEF Wake
<1>2. pc = "wait" /\ pc' = "request" /\ UNCHANGED <<asked, sent, ended, inbox, rio>>
  BY DEF Wake, clientVars
<1>3. ClientStreams /\ rio = <<>> /\ conn \in [Clients -> {"armed", "served", "tunnel", "closed"}]
  BY <1>2 DEF ExchangeInv, OpeningInv, FlagsInv
<1>4. /\ \A x : Items(x)' = Items(x) /\ \A k : Has(x, k)' = Has(x, k)
      /\ \A x, n : PlainAt(x, n)' <=> PlainAt(x, n)
  BY <1>2, AskedStays
<1>5. SentInv'
  BY <1>2 DEF PlainInv, SentInv
<1>6. WaitingInv'
  <2> SUFFICES ASSUME NEW x \in Clients, conn'[x] = "armed", NEW n \in Nat, PlainAt(x, n)'
               PROVE  WaitingAt(x, n)'
    BY DEF WaitingInv
  <2>1. conn[x] = "armed"
    BY <1>1, <1>3
  <2>2. WaitingAt(x, n)
    BY <1>4, <2>1 DEF PlainInv, WaitingInv
  <2> QED
    BY <1>2, <1>4, <2>2 DEF WaitingAt, Between, Spent, Late
<1>7. ServedInv'
  <2> SUFFICES ASSUME NEW n \in Nat, PlainAt(fd, n)' PROVE ServedAt(n)'
    BY DEF ServedInv
  <2>1. WaitingAt(c, n)
    <3>1. PlainAt(fd', n)
      BY <1>2 DEF PlainAt, Has, Items
    <3> QED
      BY <1>1, <3>1 DEF PlainInv, WaitingInv
  <2>2. Stream' = inbox[c] /\ rio' = <<>>
    <3>1. inbox[c] \in Seq(ItemsBy({c}))
      BY <1>3, ClientsTexts DEF ClientStreams
    <3> QED
      BY <1>1, <1>2, <1>3, <3>1, ConcatEmptySeq DEF Stream
  <2>3. CASE Between(inbox[c], Items(c), 0, sent[c])
    <3>1. Unread(0)'
      BY <1>1, <1>2, <1>4, <2>2, <2>3 DEF Unread, Items
    <3> QED
      BY <1>2, <3>1 DEF ServedAt, Chunking, Replying
  <2>4. CASE Spent(c, n, inbox[c]) /\ ~Has(c, "close")
    <3>1. <<>> \in Seq(Late(c))
      BY EmptySeq
    <3>2. Drained(n)'
      BY <1>1, <1>2, <2>2, <2>4, <3>1 DEF Drained, Spent, Late
    <3>3. ~Has(fd, "close")'
      BY <1>1, <1>2, <2>4 DEF Has
    <3> QED
      BY <1>2, <3>2, <3>3 DEF ServedAt, Chunking, Replying
  <2> QED
    BY <2>1, <2>3, <2>4 DEF WaitingAt
<1> QED
  BY <1>5, <1>6, <1>7 DEF PlainInv

\* rio_client is given up: it held nothing of a client that is rearmed.
LEMMA ReturnPlain ==
  ASSUME ExchangeInv, PlainInv, Return
  PROVE  PlainInv'
<1>1. /\ pc' = "wait" /\ UNCHANGED <<asked, sent, ended, conn, fd>>
      /\ inbox' = IF conn[fd] = "closed" THEN [inbox EXCEPT ![fd] = <<>>] ELSE inbox
  BY DEF Return, clientVars
<1>2. /\ \A x : Items(x)' = Items(x) /\ \A k : Has(x, k)' = Has(x, k)
      /\ \A x, n : PlainAt(x, n)' <=> PlainAt(x, n)
  BY <1>1, AskedStays
<1>3. SentInv'
  BY <1>1 DEF PlainInv, SentInv
<1>4. WaitingInv'
  <2> SUFFICES ASSUME NEW x \in Clients, conn'[x] = "armed", NEW n \in Nat, PlainAt(x, n)'
               PROVE  WaitingAt(x, n)'
    BY DEF WaitingInv
  <2>1. WaitingAt(x, n)
    BY <1>1, <1>2 DEF PlainInv, WaitingInv
  <2>2. inbox'[x] = inbox[x]
    BY <1>1 DEF ExchangeInv, ClientStreams
  <2> QED
    BY <1>1, <1>2, <2>1, <2>2 DEF WaitingAt, Between, Spent, Late
<1>5. ServedInv'
  BY <1>1 DEF ServedInv, ServedAt, Chunking, Replying
<1> QED
  BY <1>3, <1>4, <1>5 DEF PlainInv

\* A step of doit(): it concerns the client that is served only.
LEMMA WorkerStep ==
  ASSUME ExchangeInv, PlainInv, UNCHANGED <<asked, sent, ended, fd>>,
         \A c \in Clients : c # fd => inbox'[c] = inbox[c] /\ conn'[c] = conn[c],
         conn'[fd] = "armed" => \A n \in Nat : PlainAt(fd, n) => WaitingAt(fd, n)',
         \A n \in Nat : PlainAt(fd, n) /\ PlainShape(fd, n) /\ ServedAt(n) => ServedAt(n)'
  PROVE  PlainInv'
<1>1. /\ \A x : Items(x)' = Items(x) /\ \A k : Has(x, k)' = Has(x, k)
      /\ \A x, n : PlainAt(x, n)' <=> PlainAt(x, n)
  BY AskedStays
<1>2. SentInv'
  BY DEF PlainInv, SentInv
<1>3. WaitingInv'
  <2> SUFFICES ASSUME NEW x \in Clients, conn'[x] = "armed", NEW n \in Nat, PlainAt(x, n)'
               PROVE  WaitingAt(x, n)'
    BY DEF WaitingInv
  <2>1. CASE x = fd
    BY <1>1, <2>1
  <2>2. CASE x # fd
    <3>1. WaitingAt(x, n) /\ inbox'[x] = inbox[x]
      BY <1>1, <2>2 DEF PlainInv, WaitingInv
    <3> QED
      BY <1>1, <3>1 DEF WaitingAt, Between, Spent, Late
  <2> QED
    BY <2>1, <2>2
<1>4. ServedInv'
  <2> SUFFICES ASSUME NEW n \in Nat, PlainAt(fd, n)' PROVE ServedAt(n)'
    BY DEF ServedInv
  <2>1. PlainAt(fd, n)
    BY AskedStays
  <2>2. ClientStreams /\ fd \in Clients
    BY DEF ExchangeInv, FlagsInv
  <2>3. PlainShape(fd, n)
    BY <2>1, <2>2, PlainIs
  <2> QED
    BY <2>1, <2>3 DEF PlainInv, ServedInv
<1> QED
  BY <1>2, <1>3, <1>4 DEF PlainInv

\* Steps that end where nothing is promised.
LEMMA ElsewherePlain ==
  ASSUME ExchangeInv, PlainInv,
         OpenFails \/ NotImplemented \/ StartConnect \/ SkipHeader \/ StartTunnel \/ ChunkSpins
  PROVE  PlainInv'
<1>1. /\ pc' \in {"connect", "tunnel", "return", "spin"} /\ UNCHANGED <<asked, sent, ended, fd>>
      /\ UNCHANGED inbox \/ \E s : inbox' = [inbox EXCEPT ![fd] = s]
      /\ pc \notin {"wait", "return"}
  BY DEF OpenFails, NotImplemented, StartConnect, SkipHeader, StartTunnel, ChunkSpins, Left, ChunkVars, clientVars
<1>2. UNCHANGED conn \/ conn' = [conn EXCEPT ![fd] = "closed"] \/ conn' = [conn EXCEPT ![fd] = "tunnel"]
  BY DEF OpenFails, NotImplemented, StartConnect, SkipHeader, StartTunnel, ChunkSpins, ChunkVars, Closed
<1>3. fd \in Clients /\ conn \in [Clients -> {"armed", "served", "tunnel", "closed"}] /\ conn[fd] = "served"
  BY <1>1 DEF ExchangeInv, FlagsInv
<1>4. DOMAIN inbox = Clients
  BY DEF ExchangeInv, ClientStreams
<1>5. conn'[fd] # "armed"
  BY <1>2, <1>3
<1>6. \A c \in Clients : c # fd => inbox'[c] = inbox[c] /\ conn'[c] = conn[c]
  BY <1>1, <1>2, <1>3, <1>4
<1>7. \A n \in Nat : ServedAt(n)'
  BY <1>1 DEF ServedAt, Chunking, Replying
<1> QED
  BY <1>1, <1>5, <1>6, <1>7, WorkerStep

\* The end of doit(): a client that is rearmed has sent its request, and does
\* not want the end.
LEMMA FinishPlain ==
  ASSUME ExchangeInv, PlainInv, Finish
  PROVE  PlainInv'
<1>1. /\ pc = "finish" /\ pc' = "return" /\ UNCHANGED <<asked, sent, ended, fd, inbox>>
      /\ \/ conn' = [conn EXCEPT ![fd] = "closed"]
         \/ ~cstatus.close /\ ~cstatus.shut /\ conn' = [conn EXCEPT ![fd] = "armed"]
  BY DEF Finish, Closed, clientVars
<1>2. fd \in Clients /\ conn \in [Clients -> {"armed", "served", "tunnel", "closed"}]
  BY DEF ExchangeInv, FlagsInv
<1>3. \A c \in Clients : c # fd => inbox'[c] = inbox[c] /\ conn'[c] = conn[c]
  BY <1>1, <1>2
<1>4. ASSUME conn'[fd] = "armed", NEW n \in Nat, PlainAt(fd, n) PROVE WaitingAt(fd, n)'
  <2>1. ~cstatus.close /\ ~cstatus.shut
    BY <1>1, <1>2, <1>4
  <2>2. ServedAt(n)
    BY <1>4 DEF PlainInv, ServedInv
  <2>3. Drained(n) /\ Settled
    BY <1>1, <2>2 DEF ServedAt, Replying
  <2>4. Spent(fd, n, inbox[fd]) /\ ~Has(fd, "close")
    BY <2>1, <2>3 DEF Drained, Spent, Settled
  <2> QED
    BY <1>1, <2>4 DEF WaitingAt, Spent, Has, Late
<1>5. \A n \in Nat : ServedAt(n)'
  BY <1>1 DEF ServedAt, Chunking, Replying
<1> QED
  BY <1>1, <1>3, <1>4, <1>5, WorkerStep

\* What is in a join is in its parts.
LEMMA JoinParts ==
  ASSUME NEW S, NEW T, NEW s \in Seq(S), NEW u \in Seq(S), s \o u \in Seq(T)
  PROVE  s \in Seq(T) /\ u \in Seq(T)
<1>1. PICK v : v = s \o u
  OBVIOUS
<1>2. /\ Len(v) = Len(s) + Len(u) /\ Len(s) \in Nat /\ Len(u) \in Nat
      /\ \A i \in 1 .. Len(s) + Len(u) : v[i] = IF i <= Len(s) THEN s[i] ELSE u[i - Len(s)]
      /\ s \in [1 .. Len(s) -> S] /\ u \in [1 .. Len(u) -> S]
  BY <1>1, ConcatProperties, LenProperties
<1>3. \A i \in 1 .. Len(v) : v[i] \in T
  BY <1>1, ElementOfSeq
<1>4. ASSUME NEW i \in 1 .. Len(s) PROVE s[i] \in T
  <2>1. i \in 1 .. Len(s) + Len(u) /\ i <= Len(s)
    BY <1>2
  <2> QED
    BY <1>2, <1>3, <2>1
<1>5. ASSUME NEW i \in 1 .. Len(u) PROVE u[i] \in T
  <2>1. Len(s) + i \in 1 .. Len(s) + Len(u) /\ ~(Len(s) + i <= Len(s)) /\ Len(s) + i - Len(s) = i
    BY <1>2
  <2> QED
    BY <1>2, <1>3, <2>1
<1>6. s \in [1 .. Len(s) -> T] /\ u \in [1 .. Len(u) -> T]
  BY <1>2, <1>4, <1>5
<1> QED
  BY <1>2, <1>6, Listing, Zenon

\* What is left in buffer and socket after the empty line.
LEMMA LateStreams ==
  ASSUME NEW c, NEW n, PlainShape(c, n), NEW S, NEW buffer \in Seq(S), NEW socket \in Seq(S),
         NEW q \in Nat, q <= Len(asked[c]), Between(buffer \o socket, Items(c), n, q)
  PROVE  buffer \in Seq(Late(c)) /\ socket \in Seq(Late(c))
<1>1. n \in Nat /\ n <= n
  BY DEF PlainShape
<1>2. PICK s \in Seq(S) : s = buffer \o socket
  BY ConcatProperties
<1>3. s \in Seq(Late(c))
  BY <1>1, <1>2, LateAre
<1> QED
  BY <1>2, <1>3, JoinParts

\* The served client's streams.
LEMMA ServedStreams ==
  ASSUME ExchangeInv
  PROVE  /\ fd \in Clients /\ ClientStreams /\ sent[fd] \in Nat /\ DOMAIN inbox = Clients
         /\ rio \in Seq(ItemsBy({fd})) /\ inbox[fd] \in Seq(ItemsBy({fd}))
<1>1. fd \in Clients /\ ClientStreams
  BY DEF ExchangeInv, FlagsInv
<1> QED
  BY <1>1, ClientsTexts DEF ClientStreams

\* After a step, too, they are the client's own.
LEMMA ServedStreamsNext ==
  ASSUME ExchangeInv, ExchangeInv', UNCHANGED <<asked, fd>>
  PROVE  rio' \in Seq(ItemsBy({fd})) /\ inbox'[fd] \in Seq(ItemsBy({fd}))
<1>1. fd \in Clients /\ ClientStreams /\ ClientStreams'
  BY DEF ExchangeInv, FlagsInv
<1>2. Sendable(fd)' = Sendable(fd)
  BY DEF Sendable
<1>3. inbox'[fd] \in Seq(Sendable(fd)') /\ rio' \in Seq(ItemsBy({fd}))
  BY <1>1 DEF ClientStreams
<1> QED
  BY <1>1, <1>2, <1>3, ClientsTexts

\* What a read leaves.
LEMMA LeftStream ==
  ASSUME ExchangeInv, NEW r, Left(r), UNCHANGED fd
  PROVE  /\ rio' = r.left.rio /\ inbox'[fd] = r.left.inbox /\ Stream' = r.left.rio \o r.left.inbox
         /\ \A c \in Clients : c # fd => inbox'[c] = inbox[c]
<1>1. fd \in Clients /\ DOMAIN inbox = Clients
  BY ServedStreams
<1>2. rio' = r.left.rio /\ inbox' = [inbox EXCEPT ![fd] = r.left.inbox]
  BY DEF Left
<1> QED
  BY <1>1, <1>2 DEF Stream

\* A read leaves a drained client drained.
LEMMA LeftDrained ==
  ASSUME ExchangeInv, NEW r, Left(r), UNCHANGED <<sent, ended, fd>>, NEW n, Spent(fd, n, rio),
         r.left.rio \in Seq(Late(fd)), r.left.inbox \in Seq(Late(fd))
  PROVE  Drained(n)'
<1>1. rio' = r.left.rio /\ inbox'[fd] = r.left.inbox
  BY LeftStream
<1> QED
  BY <1>1 DEF Drained, Spent, Late

\* The request line is read when it is there; a client that has been drained
\* has no more of one.
LEMMA ReadRequestPlain ==
  ASSUME ExchangeInv, PlainInv, PartsInv, ReadRequest
  PROVE  PlainInv'
<1> DEFINE r == FromClient(buf)
<1>1. PICK l \in r.lines :
        /\ buf' = l
        /\ \/ /\ l[1] \in Methods /\ pc' = "open" /\ UNCHANGED conn
              /\ rq' = [Copied(l, PartsOf(l[1])) EXCEPT !.kind = l[1]]
           \/ l[1] \notin Methods /\ pc' = "return" /\ conn' = [conn EXCEPT ![fd] = "closed"]
  BY DEF ReadRequest, Closed
<1>2. /\ pc = "request" /\ Left(r) /\ UNCHANGED <<asked, sent, ended, fd>>
      /\ spins' = IF r.ret <= 0 THEN spins + 1 ELSE spins
      /\ spins = 0
  BY DEF ReadRequest, clientVars, ExchangeInv, OpeningInv
<1>3. /\ fd \in Clients /\ ClientStreams /\ sent[fd] \in Nat
      /\ rio \in Seq(ItemsBy({fd})) /\ inbox[fd] \in Seq(ItemsBy({fd}))
  BY ServedStreams
<1>4. r = ReadLine(rio, inbox[fd], ended[fd], buf)
  BY DEF FromClient
<1>10. r.ret \in Int
  <2>1. PICK rio1 \in Seq(ItemsBy({fd})), inbox1 \in Seq(ItemsBy({fd})) : rio1 = rio /\ inbox1 = inbox[fd]
    BY <1>3
  <2> QED
    BY <1>3, <1>4, LineReturns
<1> HIDE DEF r
<1>5. /\ rio' = r.left.rio /\ inbox'[fd] = r.left.inbox /\ Stream' = r.left.rio \o r.left.inbox
      /\ \A c \in Clients : c # fd => inbox'[c] = inbox[c]
  BY <1>2, LeftStream
<1>6. conn'[fd] # "armed" /\ \A c \in Clients : c # fd => conn'[c] = conn[c]
  <2>1. conn \in [Clients -> {"armed", "served", "tunnel", "closed"}] /\ conn[fd] = "served"
    BY <1>2 DEF ExchangeInv, FlagsInv
  <2> QED
    BY <1>1, <1>3, <2>1
<1>7. ASSUME NEW n \in Nat, PlainAt(fd, n), PlainShape(fd, n), ServedAt(n), l[1] \in Methods
      PROVE  ServedAt(n)'
  <2>1. Unread(0) \/ Drained(n)
    BY <1>2, <1>7 DEF ServedAt
  <2>2. ASSUME Spent(fd, n, rio), inbox[fd] \in Seq(Late(fd)) PROVE Drained(n)' /\ spins' # 0
    <3>1. rio \in Seq(Late(fd))
      BY <2>2 DEF Spent
    <3>2. /\ r.left.rio \in Seq(Late(fd)) /\ r.left.inbox \in Seq(Late(fd))
          /\ r.ret > 0 => l[1] = "junk"
      BY <1>4, <2>2, <3>1, LateLine
    <3>3. Drained(n)'
      BY <1>2, <2>2, <3>2, LeftDrained
    <3>4. "junk" \notin Methods
      BY DEF Methods
    <3>5. spins' # 0
      BY <1>2, <1>7, <1>10, <3>2, <3>4
    <3> QED
      BY <3>3, <3>5
  <2>3. ASSUME Unread(0), sent[fd] = 0 PROVE Drained(n)' /\ spins' # 0
    <3>1. Len(Stream) = 0
      BY <2>3 DEF Unread, Between
    <3>2. Len(rio) = 0 /\ Len(inbox[fd]) = 0
      <4>1. PICK a \in Nat : a = Len(rio)
        BY <1>3, LenProperties
      <4>2. PICK b \in Nat : b = Len(inbox[fd])
        BY <1>3, LenProperties
      <4>3. Len(Stream) = a + b
        BY <1>3, <4>1, <4>2, ConcatProperties DEF Stream
      <4>4. a = 0 /\ b = 0
        BY <3>1, <4>3
      <4> QED
        BY <4>1, <4>2, <4>4
    <3>3. rio = <<>> /\ inbox[fd] = <<>>
      BY <1>3, <3>2, EmptySeq
    <3>4. ended[fd]
      BY <1>2, <3>3 DEF ExchangeInv, OpeningInv
    <3>5. <<>> \in Seq(Late(fd))
      BY EmptySeq
    <3> QED
      BY <2>2, <3>3, <3>4, <3>5 DEF Spent
  <2>4. ASSUME Unread(0), sent[fd] # 0
        PROVE  Unread(1)' /\ Known'
    <3>1. /\ Len(asked[fd]) \in Nat /\ 1 \in 1 .. Len(asked[fd])
          /\ Items(fd)[1] = <<asked[fd][1], fd>> /\ asked[fd][1] \in Methods
      BY <1>7 DEF PlainShape
    <3>2. 0 \in Nat /\ 0 < sent[fd] /\ Items(fd)[0 + 1] = Items(fd)[1] /\ 0 + 1 = 1
      BY <1>3, <2>4
    <3>3. Items(fd)[0 + 1][1] \notin Unterminated \cup {"tail"}
      BY <3>1, <3>2, WholeLines
    <3>4. Between(rio \o inbox[fd], Items(fd), 0, sent[fd])
      BY <2>4 DEF Unread, Stream
    <3>5. LineRead({fd}, rio, inbox[fd], r, Items(fd), 0, sent[fd])
      BY <1>3, <1>4, <3>2, <3>3, <3>4, LineTaken
    <3>6. r.lines = {Items(fd)[1]} /\ Between(r.left.rio \o r.left.inbox, Items(fd), 1, sent[fd])
      BY <3>2, <3>5 DEF LineRead
    <3>7. Items(fd)' = Items(fd)
      BY <1>2 DEF Items
    <3>8. l = Items(fd)[1]
      BY <3>6
    <3>9. rq'.kind = l[1]
      <4>1. PICK parts : rq' = [Copied(l, parts) EXCEPT !.kind = l[1]]
        BY <1>1, <1>7
      <4> QED
        BY <4>1 DEF Copied, PartsInv
    <3>10. Unread(1)'
      BY <1>2, <1>5, <3>6, <3>7 DEF Unread
    <3>11. Known'
      BY <1>1, <1>2, <3>1, <3>7, <3>8, <3>9 DEF Known
    <3> QED
      BY <3>10, <3>11
  <2>5. (Drained(n)' /\ spins' # 0) \/ (Unread(1)' /\ Known')
    BY <2>1, <2>2, <2>3, <2>4 DEF Drained
  <2>6. pc' = "open"
    BY <1>1, <1>7
  <2> QED
    BY <2>5, <2>6 DEF ServedAt, Chunking, Replying
<1>8. ASSUME NEW n \in Nat, l[1] \notin Methods
      PROVE  ServedAt(n)'
  BY <1>1, <1>8 DEF ServedAt, Chunking, Replying
<1> QED
  BY <1>2, <1>5, <1>6, <1>7, <1>8, WorkerStep

\* Until it works in the other direction dir is that of the request.
DirInv == pc \in {"wait", "request", "open", "header"} => dir = "up"

LEMMA DirNext ==
  ASSUME DirInv, [Next]_vars
  PROVE  DirInv'
<1>1. CASE Wake \/ ReadRequest \/ OpenServer \/ RequestHeader
  BY <1>1 DEF Wake, ReadRequest, OpenServer, RequestHeader, localVars, DirInv
<1>2. CASE Return
  BY <1>2 DEF Return, DirInv
<1>3. ASSUME NEW c \in Clients, Send(c) \/ End(c) PROVE DirInv'
  BY <1>3 DEF Send, End, localVars, DirInv
<1>4. CASE OpenFails \/ NotImplemented \/ StartConnect \/ SkipHeader \/ StartTunnel
  BY <1>4 DEF OpenFails, NotImplemented, StartConnect, SkipHeader, StartTunnel, DirInv
<1>5. CASE RequestCut \/ RequestBody \/ NoRequestBody
  BY <1>5, AfterIs DEF RequestCut, RequestBody, NoRequestBody, DirInv
<1>6. CASE (\E d \in Directions : StartChunked(d)) \/ ChunkSize \/ ChunkData \/ ChunkSpins \/ Trailer \/ ChunkEnd
  BY <1>6, AfterIs DEF StartChunked, ChunkSize, ChunkData, ChunkSpins, Trailer, ChunkEnd, DirInv
<1>7. CASE Raw \/ ReplyStatus \/ ReplyHeader \/ ReplyReset \/ ReplyCut \/ ReplyBody \/ NoReplyBody \/ Finish
  BY <1>7 DEF Raw, ReplyStatus, ReplyHeader, ReplyReset, ReplyCut, ReplyBody, NoReplyBody, Finish, DirInv
<1>8. CASE UNCHANGED vars
  BY <1>8 DEF vars, localVars, DirInv
<1> QED
  BY <1>1, <1>2, <1>3, <1>4, <1>5, <1>6, <1>7, <1>8 DEF Next, DoitStep

LEMMA OpeningLines == Proxy(<<"line", "close", "close">>) \in Seq(Texts)
<1>1. <<"line", "close", "close">> \in Seq(Spoken)
  BY DEF Spoken, ItemKinds, Headers
<1> QED
  BY <1>1, ProxyIs

\* The server gets the proxy's lines first.
LEMMA OpenServerPlain ==
  ASSUME ExchangeInv, PlainInv, OpenServer
  PROVE  PlainInv'
<1>1. /\ pc = "open" /\ pc' = "header" /\ UNCHANGED <<asked, sent, ended, fd, inbox, conn, rio, buf, rq, cstatus, spins>>
      /\ toServer' = Proxy(<<"line", "close", "close">>) /\ line' = <<"close", "proxy">>
  BY DEF OpenServer, clientVars, residueVars, serverVars
<1>2. conn'[fd] # "armed"
  BY <1>1 DEF ExchangeInv, FlagsInv
<1>3. /\ \A x : Items(x)' = Items(x) /\ \A k : Has(x, k)' = Has(x, k)
  BY <1>1, AskedStays
<1>4. ASSUME NEW n \in Nat, PlainAt(fd, n), PlainShape(fd, n), ServedAt(n)
      PROVE  ServedAt(n)'
  <2>1. (Drained(n) /\ spins # 0) \/ (Unread(1) /\ Known)
    BY <1>1, <1>4 DEF ServedAt
  <2>2. line'[1] # "blank"
    BY <1>1
  <2>3. Drained(n) => Drained(n)'
    BY <1>1 DEF Drained, Spent, Late
  <2>4. ASSUME Unread(1), Known
        PROVE  Known' /\ \E p \in 1 .. n - 1 : Unread(p)' /\ Heard(n, p)'
    <3>1. n \in 2 .. Len(asked[fd]) /\ Len(asked[fd]) \in Nat /\ Items(fd) # <<>> /\ Items(fd) \in Seq(ItemsBy({fd}))
      BY <1>4 DEF PlainShape
    <3>2. 1 \in 1 .. n - 1 /\ \A i \in 2 .. 1 : FALSE
      BY <3>1
    <3>3. Unread(1)'
      BY <1>1, <1>3, <2>4 DEF Unread, Stream, Between
    <3>4. toServer' = Proxy(<<"line", "close", "close">>) \o PassedOn(Items(fd))[1]
      <4>1. PICK first \in Seq(Texts) : first = Proxy(<<"line", "close", "close">>)
        BY OpeningLines
      <4>2. PassedOn(Items(fd))[1] = <<>>
        BY <3>1, PassedOnIs
      <4>3. first \o <<>> = first
        BY ConcatEmptySeq
      <4> QED
        BY <1>1, <4>1, <4>2, <4>3
    <3>5. Heard(n, 1)'
      BY <1>1, <1>3, <3>2, <3>4 DEF Heard
    <3>6. Known'
      BY <1>1, <1>3, <2>4 DEF Known
    <3> QED
      BY <3>2, <3>3, <3>5, <3>6
  <2> QED
    BY <1>1, <2>1, <2>2, <2>3, <2>4 DEF ServedAt, Chunking, Replying
<1> QED
  BY <1>1, <1>2, <1>4, WorkerStep

\* What a header line says is noted.
LEMMA HeardFurther ==
  ASSUME ExchangeInv, NEW n \in Nat, PlainShape(fd, n), Has(fd, "host"), NEW p \in 1 .. n - 1, Heard(n, p),
         NEW l, l = Items(fd)[p + 1], UNCHANGED <<asked, fd, spins>>, Note(l, "up"),
         isHostSet' = (isHostSet \/ l[1] = "host"),
         cstatus.close \/ l[1] = "close" => cstatus'.close,
         toServer' = toServer \o Forwarded(l)
  PROVE  Heard(n, p + 1)'
<1> DEFINE items == Items(fd)
           N == Len(asked[fd])
           start == Proxy(<<"line", "close", "close">>)
           new == IF items[p + 1][1] \in {"close", "keep"} THEN <<>> ELSE <<items[p + 1]>>
<1>1. /\ n \in 2 .. N /\ N \in Nat /\ items \in Seq(ItemsBy({fd})) /\ Len(items) = N /\ items # <<>>
      /\ \A i \in 1 .. N : items[i] = <<asked[fd][i], fd>>
      /\ asked[fd][n] = "blank"
      /\ \A i \in 2 .. n - 1 : asked[fd][i] \in Headers \ {"chunked"}
      /\ \A i \in 2 .. n - 1 : asked[fd][i] \in {"length", "empty"} => BodyLen(asked[fd][i]) = N - n
  BY DEF PlainShape
<1>2. p + 1 \in 2 .. N /\ p \in Nat /\ (p + 1 = n \/ p + 1 \in 2 .. n - 1) /\ p + 1 - 1 = p /\ p \in 1 .. N
  BY <1>1
<1>3. l[1] = asked[fd][p + 1] /\ items[p + 1] \in ItemsBy({fd})
  <2>1. PICK m \in 1 .. N : m = p + 1
    BY <1>1, <1>2
  <2>2. items[m] = <<asked[fd][m], fd>> /\ items[m] \in ItemsBy({fd})
    BY <1>1, ElementOfSeq
  <2>3. l = items[m]
    BY <2>1
  <2>4. l[1] = asked[fd][m] /\ l \in ItemsBy({fd})
    BY <2>2, <2>3
  <2> QED
    BY <2>1, <2>4
<1>4. \A i \in 2 .. p + 1 : i \in 2 .. p \/ i = p + 1
  BY <1>2
<1>5. cstatus.close \/ l[1] = "close" => cstatus'.close
  OBVIOUS
<1>6. /\ \A i \in 2 .. p : asked[fd][i] = "close" => cstatus.close
      /\ spins = 0 =>
           /\ \A i \in 2 .. p : /\ asked[fd][i] = "host" => isHostSet
                                /\ asked[fd][i] \in {"length", "empty"} => length = N - n
           /\ toServer = start \o PassedOn(items)[p]
  BY DEF Heard
<1>7. items' = items /\ UNCHANGED N
  BY DEF Items
<1>8. \A i \in 2 .. p + 1 : asked[fd][i] = "close" => cstatus'.close
  BY <1>3, <1>4, <1>5, <1>6
<1>9. ASSUME spins = 0
      PROVE  \A i \in 2 .. p + 1 : /\ asked[fd][i] = "host" => isHostSet'
                                   /\ asked[fd][i] \in {"length", "empty"} => length' = N - n
  <2> SUFFICES ASSUME NEW i \in 2 .. p + 1
               PROVE  /\ asked[fd][i] = "host" => isHostSet'
                      /\ asked[fd][i] \in {"length", "empty"} => length' = N - n
    OBVIOUS
  <2>1. length' = IF l[1] \in {"length", "empty"} THEN BodyLen(l[1]) ELSE length
    BY DEF Note
  <2>2. l[1] \in {"length", "empty"} => length' = N - n
    <3>1. l[1] \in {"length", "empty"} => p + 1 \in 2 .. n - 1
      BY <1>1, <1>2, <1>3
    <3> QED
      BY <1>1, <1>3, <2>1, <3>1
  <2>3. asked[fd][i] \in {"length", "empty"} => length' = N - n
    BY <1>3, <1>4, <1>6, <1>9, <2>1, <2>2
  <2>4. asked[fd][i] = "host" => isHostSet'
    BY <1>3, <1>4, <1>6, <1>9
  <2> QED
    BY <2>3, <2>4
<1>10. ASSUME spins = 0 PROVE Forwarded(l) = new
  <2>1. CASE p + 1 = n
    <3>1. l[1] = "blank"
      BY <1>1, <1>3, <2>1
    <3>2. isHostSet
      <4>1. "host" \in Headers
        BY DEF Headers
      <4>2. PICK i \in 2 .. n - 1 : asked[fd][i] = "host"
        BY <4>1 DEF PlainShape
      <4>3. i \in 2 .. p
        BY <1>2, <2>1
      <4> QED
        BY <1>6, <1>10, <4>2, <4>3
    <3>3. Forwarded(l) = <<l>>
      BY <3>1, <3>2 DEF Forwarded, Passes
    <3> QED
      BY <3>1, <3>3
  <2>2. CASE p + 1 \in 2 .. n - 1
    <3>1. l[1] # "blank"
      BY <1>1, <1>3, <2>2 DEF Headers
    <3>2. Forwarded(l) = IF l[1] \in {"close", "keep"} THEN <<>> ELSE <<l>>
      BY <3>1 DEF Forwarded, Passes
    <3> QED
      BY <3>2
  <2> QED
    BY <1>2, <2>1, <2>2
<1>11. ASSUME spins = 0 PROVE toServer' = start \o PassedOn(items)[p + 1]
  <2>1. PassedOn(items)[p + 1] = PassedOn(items)[p] \o new
    <3>1. PICK m \in 2 .. N : m = p + 1 /\ m - 1 = p
      BY <1>2
    <3>2. PassedOn(items)[m] = PassedOn(items)[m - 1] \o IF items[m][1] \in {"close", "keep"} THEN <<>> ELSE <<items[m]>>
      BY <1>1, PassedOnIs
    <3> QED
      BY <3>1, <3>2
  <2>2. Seq(ItemsBy({fd})) \subseteq Seq(Texts) /\ ItemsBy({fd}) \subseteq Texts
    BY ClientsTexts DEF ExchangeInv, FlagsInv
  <2>3. PICK a \in Seq(Texts) : a = start
    BY OpeningLines
  <2>4. PICK b \in Seq(Texts) : b = PassedOn(items)[p]
    BY <1>1, <1>2, <2>2, PassedOnType
  <2>5. PICK d \in Seq(Texts) : d = new
    <3>1. items[p + 1] \in Texts
      BY <1>3, <2>2
    <3>2. <<>> \in Seq(Texts) /\ <<items[p + 1]>> \in Seq(Texts)
      BY <3>1, EmptySeq, SingleIn
    <3> QED
      BY <3>2
  <2>6. (a \o b) \o d = a \o (b \o d)
    <3>1. Associates(a, b, d)
      BY ThreeParts, Zenon
    <3> QED
      BY <3>1 DEF Associates
  <2>7. toServer' = (a \o b) \o d
    BY <1>6, <1>10, <1>11, <2>3, <2>4, <2>5
  <2> QED
    BY <2>1, <2>3, <2>4, <2>5, <2>6, <2>7
<1> QED
  BY <1>7, <1>8, <1>9, <1>11 DEF Heard

\* What a drained client is read for is no line, and it stays drained.
LEMMA DrainedLine ==
  ASSUME ExchangeInv, UNCHANGED <<sent, ended, fd>>, NEW n, Drained(n), NEW old, Left(FromClient(old))
  PROVE  Drained(n)' /\ \A l \in FromClient(old).lines : l[1] = "junk" \/ l = old
<1> DEFINE r == FromClient(old)
<1>1. r = ReadLine(rio, inbox[fd], ended[fd], old)
  BY DEF FromClient
<1>2. Spent(fd, n, rio) /\ rio \in Seq(Late(fd)) /\ inbox[fd] \in Seq(Late(fd))
  BY DEF Drained, Spent
<1> HIDE DEF r
<1>3. /\ \A l \in r.lines : l[1] = "junk" \/ l = old
      /\ r.left.rio \in Seq(Late(fd)) /\ r.left.inbox \in Seq(Late(fd))
  BY <1>1, <1>2, LateLine
<1>4. Left(r)
  BY DEF r
<1>5. Drained(n)'
  BY <1>2, <1>3, <1>4, LeftDrained
<1> QED
  BY <1>3, <1>5 DEF r

\* Nothing is there: the line before is processed again.
LEMMA HeaderWaits ==
  ASSUME ExchangeInv, dir = "up", UNCHANGED <<asked, sent, ended, fd>>, NEW n \in Nat, PlainShape(fd, n),
         NEW p \in 1 .. n - 1, Unread(p), Heard(n, p), sent[fd] = p,
         FromClient(line).ret # 0, Counted(FromClient(line)), Left(FromClient(line)),
         cstatus.close => cstatus'.close
  PROVE  FromClient(line).lines = {line} /\ Unread(p)' /\ Heard(n, p)'
<1> DEFINE r == FromClient(line)
           all == rio \o inbox[fd]
<1>1. /\ fd \in Clients /\ sent[fd] \in Nat /\ rio \in Seq(ItemsBy({fd})) /\ inbox[fd] \in Seq(ItemsBy({fd}))
      /\ r = ReadLine(rio, inbox[fd], ended[fd], line) /\ p \in Nat
  BY ServedStreams DEF FromClient
<1>2. all \in Seq(ItemsBy({fd})) /\ Between(all, Items(fd), p, sent[fd])
  BY <1>1, ConcatProperties DEF Unread, Stream
<1>3. Len(all) = 0
  BY <1>1, <1>2 DEF Between
<1>4. all = <<>>
  BY <1>2, <1>3, EmptySeq
<1> HIDE DEF r
<1>5. r.ret = (IF ended[fd] THEN 0 ELSE -1) /\ r.lines = {line} /\ r.left = Consume(rio, inbox[fd], 0)
  BY <1>1, <1>4, NoLineThere
<1>6. r.ret < 0 /\ spins' = spins + 1
  <2>1. r.ret = -1
    BY <1>5 DEF r
  <2> QED
    BY <2>1 DEF r, Counted
<1>7. spins' # 0
  BY <1>6 DEF ExchangeInv, FlagsInv
<1>8. Stream' = r.left.rio \o r.left.inbox
  BY LeftStream DEF r
<1>9. Len(Stream') = 0
  <2>1. PICK m \in 0 .. Len(all) : m = 0
    BY <1>3
  <2>2. Between(r.left.rio \o r.left.inbox, all, m, Len(all))
    BY <1>1, <1>5, <2>1, ConsumeRest
  <2> QED
    BY <1>3, <1>8, <2>1, <2>2 DEF Between
<1>10. Unread(p)'
  <2>1. Len(Stream') = sent'[fd'] - p /\ \A i \in 1 .. Len(Stream') : FALSE
    BY <1>1, <1>9
  <2> QED
    BY <2>1 DEF Unread, Between
<1>11. Heard(n, p)'
  BY <1>7 DEF Heard
<1> QED
  BY <1>5, <1>10, <1>11 DEF r

\* The next line is there.
LEMMA HeaderReads ==
  ASSUME ExchangeInv, UNCHANGED <<asked, sent, ended, fd>>, NEW n \in Nat, PlainShape(fd, n),
         NEW p \in 1 .. n - 1, Unread(p), p < sent[fd],
         Left(FromClient(line))
  PROVE  /\ FromClient(line).ret = 1 /\ FromClient(line).lines = {Items(fd)[p + 1]} /\ Unread(p + 1)'
         /\ Items(fd)[p + 1][1] = asked[fd][p + 1]
         /\ asked[fd][p + 1] = "blank" <=> p + 1 = n
<1> DEFINE r == FromClient(line)
<1>1. /\ fd \in Clients /\ sent[fd] \in Nat /\ rio \in Seq(ItemsBy({fd})) /\ inbox[fd] \in Seq(ItemsBy({fd}))
      /\ r = ReadLine(rio, inbox[fd], ended[fd], line) /\ p \in Nat
  BY ServedStreams DEF FromClient
<1>2. Between(rio \o inbox[fd], Items(fd), p, sent[fd])
  BY DEF Unread, Stream
<1>3. PICK m \in 2 .. n : m = p + 1
  BY <1>1
<1>4. /\ m \in 1 .. Len(asked[fd]) /\ (m = n \/ m \in 2 .. n - 1)
  BY <1>3 DEF PlainShape
<1>5. Items(fd)[m] = <<asked[fd][m], fd>>
  BY <1>4 DEF PlainShape
<1>6. IF m = n THEN asked[fd][m] = "blank" ELSE asked[fd][m] \in Headers \ {"chunked"}
  BY <1>4 DEF PlainShape
<1>7. asked[fd][m] \notin Unterminated \cup {"tail"} /\ (asked[fd][m] = "blank" <=> m = n)
  BY <1>6, WholeLines DEF Headers
<1> HIDE DEF r
<1>8. Items(fd)[p + 1][1] \notin Unterminated \cup {"tail"}
  BY <1>3, <1>5, <1>7
<1>9. LineRead({fd}, rio, inbox[fd], r, Items(fd), p, sent[fd])
  BY <1>1, <1>2, <1>8, LineTaken
<1>10. r.ret = 1 /\ r.lines = {Items(fd)[p + 1]} /\ Between(r.left.rio \o r.left.inbox, Items(fd), p + 1, sent[fd])
  BY <1>9 DEF LineRead
<1>11. Stream' = r.left.rio \o r.left.inbox
  BY LeftStream DEF r
<1>12. Unread(p + 1)'
  BY <1>10, <1>11 DEF Unread, Items
<1> QED
  BY <1>3, <1>5, <1>7, <1>10, <1>12 DEF r

\* The end of a plain header: a body follows, or nothing.
LEMMA HeaderEnds ==
  ASSUME ExchangeInv, UNCHANGED <<asked, sent, ended, fd, buf, rq>>, NEW n \in Nat,
         PlainAt(fd, n), PlainShape(fd, n), Unread(n)', Heard(n, n)',
         rio' \in Seq(ItemsBy({fd})), inbox'[fd] \in Seq(ItemsBy({fd})),
         sent[fd] <= Len(asked[fd]), n <= sent[fd], Known,
         pc' = IF rq.kind \in Posts THEN "body" ELSE AfterRequest
  PROVE  ServedAt(n)'
<1>1. /\ sent[fd] \in Nat /\ n \in 2 .. Len(asked[fd]) /\ Len(asked[fd]) \in Nat
  BY ServedStreams DEF PlainShape
<1>5. Known' /\ rq.kind = asked[fd][1]
  BY AskedStays DEF Known
<1>2. \A k : Has(fd, k)' = Has(fd, k) /\ Items(fd)' = Items(fd)
  BY AskedStays
<1>3. CASE rq.kind \in Posts
  <2>1. pc' = "body"
    BY <1>3
  <2>2. asked'[fd'][1] \in Posts /\ sent'[fd'] >= n
    BY <1>1, <1>3, <1>5
  <2> QED
    BY <1>5, <2>1, <2>2 DEF ServedAt, Chunking, Replying
<1>4. CASE rq.kind \notin Posts
  <2>1. pc' \in {"status", "raw"}
    BY <1>4 DEF AfterRequest
  <2>2. n = Len(asked[fd])
    BY <1>4, <1>5 DEF PlainAt
  <2>3. Drained(n)'
    <3>1. Between(rio' \o inbox'[fd], Items(fd), n, sent[fd])
      BY <1>2 DEF Unread, Stream
    <3>2. rio' \in Seq(Late(fd)) /\ inbox'[fd] \in Seq(Late(fd))
      BY <1>1, <3>1, LateStreams
    <3>3. sent'[fd'] >= n /\ fd' = fd
      BY <1>1
    <3> QED
      BY <3>2, <3>3 DEF Drained, Spent, Late
  <2>4. Settled'
    <3>1. ASSUME Has(fd, "close") PROVE cstatus'.close
      <4>1. "close" \in Headers
        BY DEF Headers
      <4>2. PICK i \in 2 .. n - 1 : asked[fd][i] = "close"
        BY <3>1, <4>1 DEF PlainShape
      <4>3. i \in 2 .. n
        BY <1>1
      <4> QED
        BY <4>2, <4>3 DEF Heard
    <3> QED
      BY <1>2, <3>1 DEF Settled
  <2>5. spins' = 0 => toServer' = Upstream(fd)'
    BY <1>2, <2>2, ItemsAre, ServedStreams DEF Heard, Upstream, PlainShape
  <2>6. Missed' \/ (toServer' = Upstream(fd)' /\ buf' = Items(fd)'[1])
    BY <1>5, <2>5 DEF Missed, Known
  <2> QED
    BY <2>1, <2>3, <2>4, <2>6 DEF ServedAt, Chunking, Replying
<1> QED
  BY <1>3, <1>4

\* One turn of the loop in forward_requestheader().
LEMMA RequestHeaderPlain ==
  ASSUME ExchangeInv, ExchangeInv', PlainInv, DirInv, RequestHeader
  PROVE  PlainInv'
<1> DEFINE r == FromClient(line)
<1>1. PICK l \in r.lines :
        /\ line' = l /\ Note(l, "up")
        /\ isHostSet' = (isHostSet \/ l[1] = "host")
        /\ cstatus' = [cstatus EXCEPT !.close = @ \/ l[1] = "close"]
        /\ toServer' = toServer \o Forwarded(l)
        /\ pc' = IF l[1] # "blank" THEN "header"
                 ELSE IF rq.kind \in Posts THEN "body" ELSE AfterRequest
  BY DEF RequestHeader
<1>2. pc = "header" /\ r.ret # 0 /\ Counted(r) /\ Left(r) /\ UNCHANGED <<asked, sent, ended, fd, buf, rq, conn>>
  BY DEF RequestHeader, clientVars
<1>3. cstatus.close \/ l[1] = "close" => cstatus'.close
  BY <1>1 DEF ExchangeInv, FlagsInv
<1>8. spins # 0 => spins' # 0
  BY <1>2 DEF Counted, ExchangeInv, FlagsInv
<1>10. dir = "up"
  BY <1>2 DEF DirInv
<1>9. Known => Known'
  BY <1>2 DEF Known, Items
<1> HIDE DEF r
<1>4. \A c \in Clients : c # fd => inbox'[c] = inbox[c]
  BY <1>2, LeftStream
<1>5. conn'[fd] # "armed"
  BY <1>2 DEF ExchangeInv, FlagsInv
<1>6. /\ fd \in Clients /\ sent[fd] \in Nat /\ sent[fd] <= Len(asked[fd])
      /\ rio' \in Seq(ItemsBy({fd})) /\ inbox'[fd] \in Seq(ItemsBy({fd}))
  <2>1. /\ fd \in Clients /\ sent[fd] \in Nat /\ sent[fd] <= Len(asked[fd])
    BY ServedStreams DEF PlainInv, SentInv
  <2>2. /\ rio' \in Seq(ItemsBy({fd})) /\ inbox'[fd] \in Seq(ItemsBy({fd}))
    BY <1>2, ServedStreamsNext
  <2> QED
    BY <2>1, <2>2
<1>7. ASSUME NEW n \in Nat, PlainAt(fd, n), PlainShape(fd, n), ServedAt(n)
      PROVE  ServedAt(n)'
  <2>1. /\ line[1] # "blank"
        /\ \/ Drained(n) /\ spins # 0
           \/ Known /\ \E p \in 1 .. n - 1 : Unread(p) /\ Heard(n, p)
    BY <1>2, <1>7 DEF ServedAt
  <2>2. CASE Drained(n) /\ spins # 0
    <3>1. Drained(n)' /\ (l[1] = "junk" \/ l = line)
      BY <1>2, <2>2, DrainedLine DEF r
    <3>2. line'[1] # "blank" /\ pc' = "header"
      BY <1>1, <2>1, <3>1
    <3> QED
      BY <1>8, <2>2, <3>1, <3>2 DEF ServedAt, Chunking, Replying
  <2>3. ASSUME Known, NEW p \in 1 .. n - 1, Unread(p), Heard(n, p)
        PROVE  ServedAt(n)'
    <3>1. n \in 2 .. Len(asked[fd]) /\ p \in Nat /\ Len(asked[fd]) \in Nat
      BY <1>7, <2>3 DEF PlainShape
    <3>2. p <= sent[fd]
      <4>1. rio \o inbox[fd] \in Seq(ItemsBy({fd})) /\ Len(rio \o inbox[fd]) = sent[fd] - p
        BY <2>3, ServedStreams, ConcatProperties DEF Unread, Stream, Between
      <4>2. PICK a \in Nat : a = Len(rio \o inbox[fd])
        BY <4>1, LenProperties
      <4>3. a = sent[fd] - p
        BY <4>1, <4>2
      <4> QED
        BY <1>6, <3>1, <4>3
    <3>3. CASE sent[fd] = p
      <4>1. r.lines = {line} /\ Unread(p)' /\ Heard(n, p)'
        BY <1>2, <1>10, <1>3, <1>7, <2>3, <3>3, HeaderWaits DEF r
      <4>2. line'[1] # "blank" /\ pc' = "header"
        BY <1>1, <2>1, <4>1
      <4>3. Known'
        BY <1>9, <2>3
      <4> QED
        BY <4>1, <4>2, <4>3 DEF ServedAt, Chunking, Replying
    <3>4. CASE p < sent[fd]
      <4>1. /\ r.ret = 1 /\ r.lines = {Items(fd)[p + 1]} /\ Unread(p + 1)'
            /\ Items(fd)[p + 1][1] = asked[fd][p + 1]
            /\ asked[fd][p + 1] = "blank" <=> p + 1 = n
        BY <1>2, <1>7, <2>3, <3>4, HeaderReads DEF r
      <4>2. l = Items(fd)[p + 1] /\ UNCHANGED spins
        <5>1. ~(r.ret < 0)
          BY <4>1
        <5> QED
          BY <1>2, <4>1, <5>1 DEF Counted
      <4>3. Has(fd, "host")
        BY <1>7 DEF PlainAt
      <4>4. Heard(n, p + 1)'
        BY <1>1, <1>2, <1>3, <1>7, <2>3, <4>2, <4>3, HeardFurther
      <4>5. PICK m \in 2 .. n : m = p + 1
        BY <3>1
      <4>6. CASE m = n
        <5>1. l[1] = "blank"
          BY <4>1, <4>2, <4>5, <4>6
        <5>2. Unread(n)' /\ Heard(n, n)' /\ n <= sent[fd]
          BY <1>6, <3>1, <3>4, <4>1, <4>4, <4>5, <4>6
        <5>3. pc' = IF rq.kind \in Posts THEN "body" ELSE AfterRequest
          BY <1>1, <5>1
        <5> QED
          BY <1>2, <1>6, <1>7, <2>3, <5>2, <5>3, HeaderEnds
      <4>7. CASE m # n
        <5>1. line'[1] # "blank" /\ pc' = "header"
          BY <1>1, <4>1, <4>2, <4>5, <4>7
        <5>2. m \in 1 .. n - 1 /\ Unread(m)' /\ Heard(n, m)'
          BY <3>1, <4>1, <4>4, <4>5, <4>7
        <5>3. Known'
          BY <1>9, <2>3
        <5> QED
          BY <5>1, <5>2, <5>3 DEF ServedAt, Chunking, Replying
      <4> QED
        BY <4>6, <4>7
    <3> QED
      BY <1>6, <3>1, <3>2, <3>3, <3>4
  <2> QED
    BY <2>1, <2>2, <2>3
<1> QED
  BY <1>2, <1>4, <1>5, <1>7, WorkerStep

\* cstatus is only added to.
Grows == (cstatus.close => cstatus'.close) /\ (cstatus.shut => cstatus'.shut)

\* A known end stays known.
LEMMA StillSettled ==
  ASSUME UNCHANGED <<asked, fd>>, Grows, Settled
  PROVE  Settled'
<1>1. Has(fd, "close")' = Has(fd, "close")
  BY AskedStays
<1> QED
  BY <1>1 DEF Settled, Grows

\* A header that has been read has said whether the client wants the end.
LEMMA HeardSettles ==
  ASSUME NEW n \in Nat, PlainShape(fd, n), Heard(n, n)
  PROVE  Settled
<1>1. "close" \in Headers
  BY DEF Headers
<1> SUFFICES ASSUME Has(fd, "close") PROVE cstatus.close
  BY DEF Settled
<1>2. PICK i \in 2 .. n - 1 : asked[fd][i] = "close"
  BY <1>1 DEF PlainShape
<1>3. i \in 2 .. n
  BY <1>2
<1> QED
  BY <1>2, <1>3 DEF Heard

\* The client has ended in its header, or has sent no line of it since.
LEMMA RequestCutPlain ==
  ASSUME ExchangeInv, PlainInv, RequestCut
  PROVE  PlainInv'
<1>1. /\ pc = "header" /\ FromClient(line).ret = 0 /\ UNCHANGED <<asked, sent, ended, fd, inbox, conn, rio, spins>>
      /\ cstatus' = [cstatus EXCEPT !.shut = TRUE] /\ pc' \in {"status", "raw"}
  BY DEF RequestCut, clientVars, localVars, AfterRequest
<1>2. conn'[fd] # "armed"
  BY <1>1 DEF ExchangeInv, FlagsInv
<1>3. cstatus'.shut
  BY <1>1 DEF ExchangeInv, FlagsInv
<1>4. rio = <<>> /\ inbox[fd] = <<>> /\ ended[fd]
  BY <1>1, ServedStreams, ReadNothing DEF FromClient
<1>5. ASSUME NEW n \in Nat, PlainAt(fd, n), PlainShape(fd, n), ServedAt(n)
      PROVE  ServedAt(n)'
  <2>1. Missed'
    <3>1. CASE spins # 0
      BY <1>1, <3>1 DEF Missed
    <3>2. ASSUME NEW p \in 1 .. n - 1, Unread(p) PROVE sent[fd] < Len(asked[fd])
      <4>1. Len(<<>>) = sent[fd] - p
        BY <1>4, <3>2, ConcatEmptySeq, EmptySeq DEF Unread, Stream, Between
      <4>2. n \in 2 .. Len(asked[fd]) /\ Len(asked[fd]) \in Nat /\ sent[fd] \in Nat
        BY <1>5, ServedStreams DEF PlainShape
      <4>3. 0 = sent[fd] - p /\ p \in 1 .. n - 1
        BY <3>2, <4>1
      <4> QED
        BY <4>2, <4>3
    <3>3. spins # 0 \/ \E p \in 1 .. n - 1 : Unread(p)
      BY <1>1, <1>5 DEF ServedAt
    <3> QED
      BY <1>1, <1>4, <3>1, <3>2, <3>3 DEF Missed
  <2>2. Drained(n)'
    BY <1>1, <1>4, EmptySeq DEF Drained, Spent, Late
  <2>3. Settled'
    BY <1>3 DEF Settled
  <2> QED
    BY <1>1, <2>1, <2>2, <2>3 DEF ServedAt, Chunking, Replying
<1> QED
  BY <1>1, <1>2, <1>5, WorkerStep

\* After its header a plain POST has its body, which is as long as it has said.
LEMMA BodyKnown ==
  ASSUME ExchangeInv, PlainInv, pc = "body", NEW n \in Nat, PlainAt(fd, n), PlainShape(fd, n), ServedAt(n)
  PROVE  /\ rio \in Seq(Late(fd)) /\ inbox[fd] \in Seq(Late(fd)) /\ sent[fd] >= n
         /\ Between(rio \o inbox[fd], Items(fd), n, sent[fd]) /\ Settled /\ Known /\ Heard(n, n)
         /\ asked[fd][1] \in Posts
         /\ spins = 0 => length = Len(asked[fd]) - n /\ Len(asked[fd]) - n \in {0, 2}
<1>1. asked[fd][1] \in Posts /\ sent[fd] >= n /\ Unread(n) /\ Known /\ Heard(n, n)
  BY DEF ServedAt
<1>2. Between(rio \o inbox[fd], Items(fd), n, sent[fd])
  BY <1>1 DEF Unread, Stream
<1>3. rio \in Seq(Late(fd)) /\ inbox[fd] \in Seq(Late(fd))
  <2>1. sent[fd] <= Len(asked[fd])
    BY ServedStreams DEF PlainInv, SentInv
  <2> QED
    BY <1>2, <2>1, ServedStreams, LateStreams
<1>4. ASSUME spins = 0 PROVE length = Len(asked[fd]) - n /\ Len(asked[fd]) - n \in {0, 2}
  <2>1. "length" \in Headers /\ "empty" \in Headers
    BY DEF Headers
  <2>2. PICK k \in {"length", "empty"} : Has(fd, k)
    BY <1>1 DEF PlainAt
  <2>3. PICK i \in 2 .. n - 1 : asked[fd][i] = k
    BY <2>1, <2>2 DEF PlainShape
  <2>4. BodyLen(k) = Len(asked[fd]) - n
    BY <2>3 DEF PlainShape
  <2>5. i \in 2 .. n
    BY <2>3
  <2>6. length = Len(asked[fd]) - n
    BY <1>1, <1>4, <2>2, <2>3, <2>5 DEF Heard
  <2> QED
    BY <2>4, <2>6 DEF BodyLen
<1>5. Settled
  BY <1>1, HeardSettles
<1> QED
  BY <1>1, <1>2, <1>3, <1>4, <1>5

\* The body is read and passed on whole, unless the client has ended before.
LEMMA BodyForwarded ==
  ASSUME ExchangeInv, NEW n \in Nat, PlainShape(fd, n), Heard(n, n), spins = 0,
         Between(rio \o inbox[fd], Items(fd), n, sent[fd]),
         length = Len(asked[fd]) - n, length \in {0, 2}, sent[fd] = Len(asked[fd])
  PROVE  toServer \o Padded(ReadBytes(rio, inbox[fd], ended[fd], length).data, length) = Upstream(fd)
<1> DEFINE items == Items(fd)
           N == Len(asked[fd])
           S == ItemsBy({fd})
<1>1. /\ n \in 1 .. N /\ N \in Nat /\ items \in Seq(S) /\ Len(items) = N /\ items # <<>>
      /\ \A i \in 1 .. N : items[i] = <<asked[fd][i], fd>>
      /\ \A i \in n + 1 .. N : asked[fd][i] = "body"
  BY DEF PlainShape
<1>2. rio \in Seq(S) /\ inbox[fd] \in Seq(S) /\ Seq(S) \subseteq Seq(Texts) /\ S \subseteq Texts
  BY ServedStreams, ClientsTexts
<1> HIDE DEF S
<1>3. PICK rest \in Seq(S) : rest = rio \o inbox[fd]
  BY <1>2, ConcatProperties
<1>4. Between(rest, items, n, N) /\ Len(rest) = length /\ length \in Nat
  <2>1. Between(rest, items, n, N)
    BY <1>3
  <2>2. Len(rest) = N - n
    BY <2>1 DEF Between
  <2> QED
    BY <2>1, <2>2
<1>5. Padded(ReadBytes(rio, inbox[fd], ended[fd], length).data, length) = rest
  <2>1. PICK m \in Nat : m = length
    BY <1>4
  <2>2. m = Len(rio \o inbox[fd])
    BY <1>3, <1>4, <2>1
  <2>3. PICK socket \in Seq(S) : socket = inbox[fd]
    BY <1>2
  <2>4. PICK eof : eof = ended[fd]
    OBVIOUS
  <2> DEFINE r == ReadBytes(rio, socket, eof, m)
  <2> HIDE DEF r
  <2>5. PICK buffer \in Seq(S) : buffer = rio
    BY <1>2
  <2>6. m = Len(buffer \o socket)
    BY <2>2, <2>3, <2>5
  <2>7. Padded(r.data, m) = buffer \o socket
    BY <2>6, <2>5, ReadAll DEF r
  <2> QED
    BY <1>3, <2>1, <2>3, <2>4, <2>5, <2>7 DEF r
<1>6. \A i \in n + 1 .. N : items[i][1] = "body"
  <2> TAKE i \in n + 1 .. N
  <2>1. i \in 1 .. N
    BY <1>1
  <2> QED
    BY <1>1, <2>1
<1>7. PassedOn(items)[N] = PassedOn(items)[n] \o rest
  <2>1. /\ n \in 1 .. Len(items) /\ Len(items) - n \in {0, 2} /\ Between(rest, items, n, Len(items))
        /\ \A i \in n + 1 .. Len(items) : items[i][1] = "body"
    BY <1>1, <1>4, <1>6
  <2>2. PICK s \in Seq(S) : s = items
    BY <1>1
  <2>3. /\ n \in 1 .. Len(s) /\ Len(s) - n \in {0, 2} /\ Between(rest, s, n, Len(s))
        /\ \A i \in n + 1 .. Len(s) : s[i][1] = "body"
    BY <2>1, <2>2
  <2>4. PassedOn(s)[Len(s)] = PassedOn(s)[n] \o rest
    BY <2>3, BodyPassed
  <2> QED
    BY <1>1, <2>2, <2>4
<1>8. PICK a \in Seq(Texts) : a = Proxy(<<"line", "close", "close">>)
  BY OpeningLines
<1>9. PICK b \in Seq(Texts) : b = PassedOn(items)[n]
  BY <1>1, <1>2, PassedOnType
<1>10. PICK d \in Seq(Texts) : d = rest
  BY <1>2
<1>11. (a \o b) \o d = a \o (b \o d)
  <2>1. Associates(a, b, d)
    BY ThreeParts, Zenon
  <2> QED
    BY <2>1 DEF Associates
<1>12. toServer = a \o b
  BY <1>8, <1>9 DEF Heard
<1>13. Upstream(fd) = a \o (b \o d)
  BY <1>1, <1>7, <1>8, <1>9, <1>10 DEF Upstream
<1> QED
  BY <1>5, <1>10, <1>11, <1>12, <1>13

\* forward_requestheader() reads the body.
LEMMA RequestBodyPlain ==
  ASSUME ExchangeInv, PlainInv, RequestBody
  PROVE  PlainInv'
<1> DEFINE r == ReadBytes(rio, inbox[fd], ended[fd], length)
<1>1. /\ pc = "body" /\ length >= 0 /\ Left(r) /\ toServer' = toServer \o Padded(r.data, length)
      /\ cstatus' = [cstatus EXCEPT !.shut = @ \/ r.ret = 0]
      /\ spins' = IF r.ret < 0 THEN spins + 1 ELSE spins
      /\ pc' \in {"status", "raw"} /\ UNCHANGED <<asked, sent, ended, conn, fd, buf, rq>>
  BY DEF RequestBody, clientVars, AfterRequest
<1>2. Grows
  BY <1>1 DEF Grows, ExchangeInv, FlagsInv
<1>3. length \in Nat /\ spins \in Nat /\ conn'[fd] # "armed"
  <2>1. length \in {-1, 0, 2} /\ spins \in 0 .. MaxSpins + 1 /\ conn[fd] # "armed" /\ MaxSpins \in Nat
    BY <1>1, ExchangeAssumption DEF ExchangeInv, FlagsInv
  <2> QED
    BY <1>1, <2>1
<1>4. r.ret < 0 <=> Len(rio \o inbox[fd]) < length /\ ~ended[fd]
  <2>1. PICK m \in Nat : m = Len(rio \o inbox[fd])
    BY ServedStreams, ConcatProperties, LenProperties
  <2>2. r.ret = IF m < length /\ ~ended[fd] THEN -1 ELSE IF m < length THEN m ELSE length
    BY <1>3, <2>1 DEF ReadBytes
  <2> QED
    BY <1>3, <2>1, <2>2
<1>5. \A c \in Clients : c # fd => inbox'[c] = inbox[c]
  BY <1>1, LeftStream
<1>6. ASSUME NEW n \in Nat, PlainAt(fd, n), PlainShape(fd, n), ServedAt(n)
      PROVE  ServedAt(n)'
  <2>1. /\ rio \in Seq(Late(fd)) /\ inbox[fd] \in Seq(Late(fd)) /\ sent[fd] >= n
        /\ Between(rio \o inbox[fd], Items(fd), n, sent[fd]) /\ Settled /\ Known /\ Heard(n, n)
        /\ spins = 0 => length = Len(asked[fd]) - n /\ Len(asked[fd]) - n \in {0, 2}
    BY <1>1, <1>6, BodyKnown
  <2>2. Drained(n)'
    <3>1. r.left.rio \in Seq(Late(fd)) /\ r.left.inbox \in Seq(Late(fd))
      <4>1. PICK m \in Nat : m = length
        BY <1>3
      <4>2. PICK x : x = ReadBytes(rio, inbox[fd], ended[fd], m)
        OBVIOUS
      <4>3. x.left.rio \in Seq(Late(fd)) /\ x.left.inbox \in Seq(Late(fd))
        BY <2>1, <4>2, LateBytes
      <4> QED
        BY <4>1, <4>2, <4>3
    <3>2. Spent(fd, n, rio)
      BY <2>1 DEF Spent
    <3> HIDE DEF r
    <3> QED
      BY <1>1, <3>1, <3>2, LeftDrained
  <2>3. Settled'
    BY <1>1, <1>2, <2>1, StillSettled
  <2>4. ASSUME spins' = 0 PROVE toServer' = Upstream(fd) \/ (ended[fd] /\ sent[fd] < Len(asked[fd]))
    <3>1. spins = 0 /\ ~(r.ret < 0)
      BY <1>1, <1>3, <2>4
    <3>2. sent[fd] <= Len(asked[fd]) /\ sent[fd] \in Nat /\ Len(asked[fd]) \in Nat
      BY <1>6, ServedStreams DEF PlainInv, SentInv, PlainShape
    <3>3. CASE sent[fd] = Len(asked[fd])
      BY <1>1, <1>6, <2>1, <3>1, <3>3, BodyForwarded
    <3>4. CASE sent[fd] < Len(asked[fd])
      <4>1. Len(rio \o inbox[fd]) = sent[fd] - n
        BY <2>1 DEF Between
      <4>2. Len(rio \o inbox[fd]) < length
        BY <2>1, <3>1, <3>2, <3>4, <4>1
      <4>3. ended[fd]
        BY <1>4, <3>1, <4>2
      <4> QED
        BY <3>4, <4>3
    <3> QED
      BY <3>2, <3>3, <3>4
  <2>5. Upstream(fd)' = Upstream(fd)
    BY <1>1 DEF Upstream, Items
  <2>6. Known'
    BY <1>1, <2>1 DEF Known, Items
  <2>7. Missed' \/ (toServer' = Upstream(fd)' /\ buf' = Items(fd)'[1])
    BY <1>1, <2>4, <2>5, <2>6 DEF Missed, Known
  <2> QED
    BY <1>1, <2>2, <2>3, <2>7 DEF ServedAt, Chunking, Replying
<1> QED
  BY <1>1, <1>3, <1>5, <1>6, WorkerStep

\* Where the client's stream and what is sent on are left alone, nothing of
\* a plain request that has been read is lost.
LEMMA StillServed ==
  ASSUME UNCHANGED <<asked, sent, ended, fd, inbox, rio, buf, rq, toServer, spins>>, enc'["up"] = enc["up"], Grows,
         NEW n, Drained(n), Settled, pc' \in Replying \cup {"return"},
         pc' \in {"status", "raw"} => pc \in {"status", "raw"},
         ServedAt(n)
  PROVE  ServedAt(n)'
<1>1. Drained(n)'
  BY DEF Drained, Spent, Late
<1>2. Settled'
  BY StillSettled
<1>3. Upstream(fd)' = Upstream(fd)
  BY DEF Upstream, Items
<1>4. pc' \in {"status", "raw"} => Missed' \/ (toServer' = Upstream(fd)' /\ buf' = Items(fd)'[1])
  BY <1>3 DEF ServedAt, Missed, Items
<1>5. pc' \notin {"request", "open", "header", "body"} \cup Chunking
  BY DEF Replying, Chunking
<1> QED
  BY <1>1, <1>2, <1>4, <1>5 DEF ServedAt

\* The steps of the reply.
LEMMA RepliesPlain ==
  ASSUME ExchangeInv, PlainInv,
         Raw \/ ReplyStatus \/ ReplyHeader \/ ReplyReset \/ ReplyCut \/ ReplyBody \/ NoReplyBody
  PROVE  PlainInv'
<1>1. /\ pc \in Replying /\ pc' \in Replying \cup {"return"}
      /\ UNCHANGED <<asked, sent, ended, fd, inbox, rio, buf, rq, toServer, spins>>
      /\ pc' \in {"status", "raw"} => pc \in {"status", "raw"}
  BY DEF Raw, ReplyStatus, ReplyHeader, ReplyReset, ReplyCut, ReplyBody, NoReplyBody, Replying, clientVars, localVars, serverVars, residueVars
<1>2. UNCHANGED conn \/ conn' = [conn EXCEPT ![fd] = "closed"]
  BY DEF Raw, ReplyStatus, ReplyHeader, ReplyReset, ReplyCut, ReplyBody, NoReplyBody, Closed
<1>3. /\ \A c \in Clients : c # fd => conn'[c] = conn[c]
      /\ conn'[fd] # "armed"
  BY <1>1, <1>2 DEF Replying, ExchangeInv, FlagsInv
<1>4. Grows
  BY DEF Raw, ReplyStatus, ReplyHeader, ReplyReset, ReplyCut, ReplyBody, NoReplyBody, Grows, ExchangeInv, FlagsInv, residueVars
<1>6. enc'["up"] = enc["up"]
  BY DEF Raw, ReplyStatus, ReplyHeader, ReplyReset, ReplyCut, ReplyBody, NoReplyBody, residueVars, Note,
         ExchangeInv, FlagsInv, Directions
<1>5. ASSUME NEW n \in Nat, PlainAt(fd, n), PlainShape(fd, n), ServedAt(n)
      PROVE  ServedAt(n)'
  <2>1. Drained(n) /\ Settled
    BY <1>1, <1>5 DEF ServedAt
  <2> QED
    BY <1>1, <1>4, <1>5, <1>6, <2>1, StillServed
<1> QED
  BY <1>1, <1>3, <1>5, WorkerStep

\* A POST that does not say how long its body is, and chunks that are not there.
LEMMA NoRequestBodyPlain ==
  ASSUME ExchangeInv, PlainInv, NoRequestBody
  PROVE  PlainInv'
<1>1. /\ pc = "body" /\ length < 0 /\ pc' \in {"status", "raw"}
      /\ UNCHANGED <<asked, sent, ended, fd, inbox, rio, conn, spins>>
      /\ cstatus' = [cstatus EXCEPT !.close = TRUE]
  BY DEF NoRequestBody, clientVars, localVars, AfterRequest
<1>2. conn'[fd] # "armed" /\ cstatus'.close
  BY <1>1 DEF ExchangeInv, FlagsInv
<1>3. ASSUME NEW n \in Nat, PlainAt(fd, n), PlainShape(fd, n), ServedAt(n)
      PROVE  ServedAt(n)'
  <2>1. /\ rio \in Seq(Late(fd)) /\ inbox[fd] \in Seq(Late(fd)) /\ sent[fd] >= n
        /\ spins = 0 => length = Len(asked[fd]) - n /\ Len(asked[fd]) - n \in {0, 2}
    BY <1>1, <1>3, BodyKnown
  <2>2. spins # 0
    BY <1>1, <2>1
  <2>3. Drained(n)'
    BY <1>1, <2>1 DEF Drained, Spent, Late
  <2>4. Settled'
    BY <1>2 DEF Settled
  <2> QED
    BY <1>1, <2>2, <2>3, <2>4 DEF ServedAt, Missed, Chunking, Replying
<1> QED
  BY <1>1, <1>2, <1>3, WorkerStep

\* A "chunked" of an earlier request: nothing but the body is left for it.
LEMMA StartChunkedPlain ==
  ASSUME ExchangeInv, PlainInv, NEW d \in Directions, StartChunked(d)
  PROVE  PlainInv'
<1>1. /\ pc = (IF d = "up" THEN "body" ELSE "replybody") /\ pc' = "chunk" /\ dir' = d /\ enc[d]
      /\ UNCHANGED <<asked, sent, ended, fd, inbox, rio, conn, rq, cstatus, enc>>
  BY DEF StartChunked, clientVars, residueVars
<1>2. conn'[fd] # "armed"
  BY <1>1 DEF ExchangeInv, FlagsInv
<1>4. Grows
  BY <1>1 DEF Grows
<1>5. ASSUME NEW n \in Nat, PlainAt(fd, n), PlainShape(fd, n), ServedAt(n)
      PROVE  ServedAt(n)'
  <2>1. Drained(n) /\ Settled
    <3>1. CASE pc = "body"
      BY <1>5, <3>1, BodyKnown DEF Drained, Spent
    <3>2. CASE pc = "replybody"
      BY <1>5, <3>2 DEF ServedAt, Replying
    <3> QED
      BY <1>1, <3>1, <3>2
  <2>2. Settled'
    BY <1>1, <1>4, <2>1, StillSettled
  <2>3. Drained(n)'
    BY <1>1, <2>1 DEF Drained, Spent, Late
  <2>4. d = "up" => Missed'
    <3> HAVE d = "up"
    <3>1. Known /\ asked[fd][1] \in Posts
      BY <1>1, <1>5, BodyKnown
    <3> QED
      BY <1>1, <3>1 DEF Known, Missed
  <2> QED
    BY <1>1, <2>2, <2>3, <2>4 DEF ServedAt, Chunking, Replying
<1> QED
  BY <1>1, <1>2, <1>5, WorkerStep

\* Chunks of the reply leave the request alone.
LEMMA ChunksDown ==
  ASSUME ExchangeInv, PlainInv, dir # "up", pc \in Chunking,
         pc' \in Chunking \cup {"aborted", AfterChunks}, UNCHANGED ChunkVars,
         NEW r, \E items \in Seq(Texts) : Pass(r, items)
  PROVE  PlainInv'
<1>1. UNCHANGED <<asked, sent, ended, fd, conn, inbox, rio, dir, cstatus>>
  BY DEF ChunkVars, clientVars, residueVars, Pass
<1>2. conn'[fd] # "armed" /\ pc' \in Chunking \cup {"aborted", "finish"}
  BY <1>1 DEF Chunking, AfterChunks, ExchangeInv, FlagsInv
<1>3. Grows
  BY <1>1 DEF Grows
<1>4. ASSUME NEW n \in Nat, PlainAt(fd, n), PlainShape(fd, n), ServedAt(n)
      PROVE  ServedAt(n)'
  <2>1. Drained(n) /\ Settled
    BY <1>4 DEF ServedAt
  <2>2. Settled'
    BY <1>1, <1>3, <2>1, StillSettled
  <2>3. Drained(n)'
    BY <1>1, <2>1 DEF Drained, Spent, Late
  <2> QED
    BY <1>1, <1>2, <2>2, <2>3 DEF ServedAt, Chunking, Replying
<1> QED
  BY <1>1, <1>2, <1>4, WorkerStep

\* What a step of forward_chunked() reads of a drained client.
LEMMA ChunksDrain ==
  ASSUME ExchangeInv, NEW n, Drained(n), dir = "up", UNCHANGED <<sent, ended, fd>>,
         ChunkSize \/ ChunkData \/ Trailer \/ ChunkEnd
  PROVE  Drained(n)'
<1>1. CASE ChunkData
  <2>1. PICK r \in ChunkReads(rio, inbox[fd], ended[fd]) :
          Left(r)
    BY <1>1 DEF ChunkData, Pass
  <2>2. r.left.rio \in Seq(Late(fd)) /\ r.left.inbox \in Seq(Late(fd))
    BY LateChunk DEF Drained, Spent
  <2>3. Spent(fd, n, rio)
    BY DEF Drained
  <2>4. Drained(n)'
    BY <2>1, <2>2, <2>3, LeftDrained
  <2> QED
    BY <2>4
<1>2. CASE ChunkSize \/ Trailer \/ ChunkEnd
  <2>1. line' \in FromClient(line).lines /\ Left(FromClient(line))
    BY <1>2 DEF ChunkSize, Trailer, ChunkEnd, ChunkRead, Pass
  <2> QED
    BY <2>1, DrainedLine
<1> QED
  BY <1>1, <1>2

\* Chunks of the request are read from a client that is drained.
LEMMA ChunksUp ==
  ASSUME ExchangeInv, PlainInv, dir = "up", ChunkSize \/ ChunkData \/ Trailer \/ ChunkEnd
  PROVE  PlainInv'
<1>1. /\ pc \in Chunking /\ pc' \in Chunking \cup {"aborted", "status", "raw"}
      /\ UNCHANGED <<asked, sent, ended, fd, conn, dir, rq, cstatus, enc>>
  BY ChunkStepIs DEF ChunkVars, clientVars, residueVars, AfterChunks, AfterRequest
<1>2. \E r : Counted(r) /\ Left(r)
  BY DEF ChunkSize, ChunkData, Trailer, ChunkEnd, Pass
<1>3. conn'[fd] # "armed" /\ \A c \in Clients : c # fd => inbox'[c] = inbox[c]
  BY <1>1, <1>2, LeftStream DEF Chunking, ExchangeInv, FlagsInv
<1>4. spins # 0 => spins' # 0
  BY <1>2 DEF Counted, ExchangeInv, FlagsInv
<1>5. Grows
  BY <1>1 DEF Grows
<1>6. ASSUME NEW n \in Nat, PlainAt(fd, n), PlainShape(fd, n), ServedAt(n)
      PROVE  ServedAt(n)'
  <2>1. Drained(n) /\ Settled /\ Missed
    BY <1>1, <1>6 DEF ServedAt
  <2>2. Drained(n)'
    BY <1>1, <2>1, ChunksDrain
  <2>3. Settled'
    BY <1>1, <1>5, <2>1, StillSettled
  <2>4. Missed'
    BY <1>1, <1>4, <2>1 DEF Missed
  <2> QED
    BY <1>1, <2>2, <2>3, <2>4 DEF ServedAt, Chunking, Replying
<1> QED
  BY <1>1, <1>3, <1>6, WorkerStep

\* PlainInv is inductive.
LEMMA PlainNext ==
  ASSUME ExchangeInv, ExchangeInv', PlainInv, PartsInv, DirInv, [Next]_vars
  PROVE  PlainInv'
<1>1. CASE ChunkSize \/ ChunkData \/ Trailer \/ ChunkEnd
  <2>1. PICK r : /\ pc \in Chunking /\ pc' \in Chunking \cup {"aborted", AfterChunks} /\ UNCHANGED ChunkVars
                 /\ \E items \in Seq(Texts) : Pass(r, items)
    BY <1>1, ChunkStepIs
  <2> QED
    BY <1>1, <2>1, ChunksDown, ChunksUp
<1>2. CASE \/ OpenFails \/ NotImplemented \/ StartConnect \/ SkipHeader \/ StartTunnel \/ ChunkSpins
  BY <1>2, ElsewherePlain
<1>3. CASE Raw \/ ReplyStatus \/ ReplyHeader \/ ReplyReset \/ ReplyCut \/ ReplyBody \/ NoReplyBody
  BY <1>3, RepliesPlain
<1>4. CASE Wake
  BY <1>4, WakePlain
<1>5. CASE Return
  BY <1>5, ReturnPlain
<1>6. CASE ReadRequest
  BY <1>6, ReadRequestPlain
<1>7. CASE OpenServer
  BY <1>7, OpenServerPlain
<1>8. CASE RequestHeader
  BY <1>8, RequestHeaderPlain
<1>9. CASE RequestCut
  BY <1>9, RequestCutPlain
<1>10. CASE RequestBody
  BY <1>10, RequestBodyPlain
<1>11. CASE NoRequestBody
  BY <1>11, NoRequestBodyPlain
<1>12. ASSUME NEW d \in Directions, StartChunked(d) PROVE PlainInv'
  BY <1>12, StartChunkedPlain
<1>13. CASE Finish
  BY <1>13, FinishPlain
<1>14. ASSUME NEW c \in Clients, Send(c) PROVE PlainInv'
  BY <1>14, SendPlain
<1>15. CASE (\E c \in Clients : End(c)) \/ UNCHANGED vars
  BY <1>15, EndPlain
<1> QED
  BY <1>1, <1>2, <1>3, <1>4, <1>5, <1>6, <1>7, <1>8, <1>9, <1>10, <1>11, <1>12, <1>13, <1>14, <1>15
  DEF Next, DoitStep

LEMMA PlainInit ==
  ASSUME Init, ExchangeInv
  PROVE  PlainInv
<1>1. /\ sent = [c \in Clients |-> 0] /\ inbox = [c \in Clients |-> <<>>] /\ pc = "wait" /\ ClientStreams
  BY DEF Init, ExchangeInv
<1>2. \A c \in Clients : Len(asked[c]) \in Nat
  BY <1>1, ItemsAre
<1>3. SentInv
  BY <1>1, <1>2 DEF SentInv
<1>4. WaitingInv
  <2> SUFFICES ASSUME NEW c \in Clients, NEW n \in Nat PROVE WaitingAt(c, n)
    BY DEF WaitingInv
  <2>1. inbox[c] = <<>> /\ sent[c] = 0 /\ Len(<<>>) = 0
    BY <1>1
  <2>2. Len(inbox[c]) = 0 - 0 /\ \A i \in 1 .. Len(inbox[c]) : FALSE
    BY <2>1
  <2> QED
    BY <2>1, <2>2 DEF WaitingAt, Between
<1>5. ServedInv
  BY <1>1 DEF ServedInv, ServedAt, Chunking, Replying
<1> QED
  BY <1>3, <1>4, <1>5 DEF PlainInv

LEMMA RefusedInit == ASSUME Init PROVE RefusedInv /\ DirInv
BY EmptySeq DEF Init, RefusedInv, DirInv

\* The empty line of a plain request is where IsPlain() finds one.
LEMMA PlainSomewhere ==
  ASSUME ExchangeInv, IsPlain(fd)
  PROVE  \E n \in Nat : PlainAt(fd, n)
<1>1. Len(asked[fd]) \in Nat
  BY ItemsAre, ServedStreams
<1>2. PICK n \in 2 .. Len(asked[fd]) :
        /\ IsWhole(Items(fd), n)
        /\ IF asked[fd][1] \in Posts THEN Has(fd, "length") \/ Has(fd, "empty") ELSE n = Len(asked[fd])
  BY DEF IsPlain
<1>3. Has(fd, "host") /\ asked[fd][1] \in Methods
  BY DEF IsPlain
<1>4. PlainAt(fd, n)
  BY <1>2, <1>3 DEF PlainAt
<1> QED
  BY <1>1, <1>2, <1>4

\* The inductive invariant of the three theorems on plain exchanges.
LEMMA PlainInvariant ==
  Spec => [](ExchangeInv /\ PlainInv /\ PartsInv /\ OwnInv /\ DirInv /\ ReplyInv /\ HeaderInv /\ RefusedInv)
<1> DEFINE I == ExchangeInv /\ PlainInv /\ PartsInv /\ OwnInv /\ DirInv /\ ReplyInv /\ HeaderInv /\ RefusedInv
<1>1. Init => I
  BY InitHolds, PlainInit, PartsInit, ReplyInit, HeaderInit, RefusedInit
<1>2. I /\ [Next]_vars => I'
  <2> SUFFICES ASSUME I, [Next]_vars PROVE I'
    OBVIOUS
  <2>1. ExchangeInv'
    BY NextHolds
  <2>2. PlainInv' /\ PartsInv' /\ OwnInv' /\ DirInv'
    BY <2>1, PlainNext, PartsNext, DirNext
  <2>3. ReplyInv' /\ HeaderInv' /\ RefusedInv'
    BY <2>1, <2>2, ReplyNext, HeaderNext, RefusedNext
  <2> QED
    BY <2>1, <2>2, <2>3
<1> QED
  BY <1>1, <1>2, PTL DEF Spec

\* No refusal is among what has been written.
LEMMA NotRefused ==
  ASSUME NEW items \in Seq(Texts)
  PROVE  "400" \notin Kinds(items)
<1>1. \A i \in DOMAIN items : items[i] \in Texts
  BY LenProperties, ElementOfSeq
<1>2. "400" \notin Spoken
  BY DEF Spoken, ItemKinds, Methods, Headers, Unterminated, HeadOf
<1>3. \A t \in Texts : t[1] \in Spoken
  BY DEF Texts, ItemsBy
<1> QED
  BY <1>1, <1>2, <1>3 DEF Kinds

-----------------------------------------------------------------------------
(* The order of what is passed on.                                         *)

\* A function from 0 to n that InOrderOf() could choose.
PlacesTo(s, who, t, n, f) ==
  f = [k \in 0 .. n |-> IF k = 0 THEN 0
                        ELSE IF IsOf(s[k], who) THEN FoundIn(t, f[k - 1], s[k]) ELSE f[k - 1]]

\* InOrderOf() is about the function that its recursion describes.
LEMMA PlacesAre ==
  ASSUME NEW s, NEW who, NEW t, Len(s) \in Nat
  PROVE  \E f : /\ f[0] = 0
                /\ InOrderOf(s, who, t) <=> f[Len(s)] <= Len(t)
                /\ \A k \in 1 .. Len(s) :
                     f[k] = IF IsOf(s[k], who) THEN FoundIn(t, f[k - 1], s[k]) ELSE f[k - 1]
<1> DEFINE missing == {n \in 0 .. Len(s) : ~ \E f : PlacesTo(s, who, t, n, f)}
<1>1. missing = {}
  <2> SUFFICES ASSUME missing # {} PROVE FALSE
    OBVIOUS
  <2>1. missing \in SUBSET Nat
    OBVIOUS
  <2>2. PICK n \in missing : \A m \in missing : ~(m < n)
    <3> HIDE DEF missing
    <3> QED
      BY <2>1, LeastOf
  <2>3. n \in 0 .. Len(s) /\ ~ \E f : PlacesTo(s, who, t, n, f)
    OBVIOUS
  <2>4. CASE n = 0
    <3>1. PlacesTo(s, who, t, 0, [k \in 0 .. 0 |-> 0])
      BY DEF PlacesTo
    <3> QED
      BY <2>3, <2>4, <3>1
  <2>5. CASE n # 0
    <3>1. n - 1 \in 0 .. Len(s) /\ n - 1 \in Nat /\ n \in Nat /\ n - 1 < n
      BY <2>3, <2>5
    <3>2. n - 1 \notin missing
      BY <2>2, <3>1
    <3>3. PICK f : PlacesTo(s, who, t, n - 1, f)
      BY <3>1, <3>2
    <3> DEFINE last == IF IsOf(s[n], who) THEN FoundIn(t, f[n - 1], s[n]) ELSE f[n - 1]
               g == [k \in 0 .. n |-> IF k = n THEN last ELSE f[k]]
    <3>4. ASSUME NEW k \in 0 .. n
          PROVE  g[k] = IF k = 0 THEN 0
                        ELSE IF IsOf(s[k], who) THEN FoundIn(t, g[k - 1], s[k]) ELSE g[k - 1]
      <4>1. CASE k = n
        <5>1. n - 1 \in 0 .. n /\ n - 1 # n /\ k # 0
          BY <2>5, <3>1, <4>1
        <5>2. g[n - 1] = f[n - 1] /\ g[k] = last
          BY <4>1, <5>1
        <5> QED
          BY <4>1, <5>1, <5>2
      <4>2. CASE k # n
        <5>1. k \in 0 .. n - 1 /\ (k # 0 => k - 1 \in 0 .. n /\ k - 1 # n)
          BY <3>1, <4>2
        <5>2. g[k] = f[k] /\ (k # 0 => g[k - 1] = f[k - 1])
          BY <4>2, <5>1
        <5>3. f[k] = IF k = 0 THEN 0
                     ELSE IF IsOf(s[k], who) THEN FoundIn(t, f[k - 1], s[k]) ELSE f[k - 1]
          BY <3>3, <5>1 DEF PlacesTo
        <5> QED
          BY <5>2, <5>3
      <4> QED
        BY <4>1, <4>2
    <3>5. g = [k \in 0 .. n |-> g[k]]
      OBVIOUS
    <3> HIDE DEF g
    <3>6. g = [k \in 0 .. n |-> IF k = 0 THEN 0
                               ELSE IF IsOf(s[k], who) THEN FoundIn(t, g[k - 1], s[k]) ELSE g[k - 1]]
      BY <3>4, <3>5, Zenon
    <3>7. PlacesTo(s, who, t, n, g)
      BY <3>6, Zenon DEF PlacesTo
    <3> QED
      BY <2>3, <3>7
  <2> QED
    BY <2>4, <2>5
<1>2. \E f : PlacesTo(s, who, t, Len(s), f)
  BY <1>1
<1>3. PICK f : f = CHOOSE g : PlacesTo(s, who, t, Len(s), g)
  OBVIOUS
<1>4. PlacesTo(s, who, t, Len(s), f)
  BY <1>2, <1>3
<1>5. InOrderOf(s, who, t) <=> f[Len(s)] <= Len(t)
  BY <1>3, Zenon DEF InOrderOf, PlacesTo
<1>6. ASSUME NEW k \in 0 .. Len(s)
      PROVE  f[k] = IF k = 0 THEN 0
                    ELSE IF IsOf(s[k], who) THEN FoundIn(t, f[k - 1], s[k]) ELSE f[k - 1]
  BY <1>4 DEF PlacesTo
<1>7. f[0] = 0
  BY <1>6
<1>8. \A k \in 1 .. Len(s) : f[k] = IF IsOf(s[k], who) THEN FoundIn(t, f[k - 1], s[k]) ELSE f[k - 1]
  BY <1>6
<1> QED
  BY <1>5, <1>7, <1>8

\* What u has of who is in t, in order, from the m-th to the n-th item.
Carries(u, who, t, m, n) ==
  /\ m <= n
  /\ \E g \in [1 .. Len(u) -> m .. n] :
       /\ \A i \in 1 .. Len(u) : IsOf(u[i], who) => g[i] \in 1 .. Len(t) /\ u[i] = t[g[i]]
       /\ \A i, j \in 1 .. Len(u) : i <= j => g[i] <= g[j]

\* So it is in order as the property says: the places InOrderOf() finds are
\* the first that are possible.
LEMMA CarriesOrder ==
  ASSUME NEW S, NEW s \in Seq(S), NEW T, NEW t \in Seq(T), NEW who, NEW m \in 0 .. Len(t),
         Carries(s, who, t, 0, m)
  PROVE  InOrderOf(s, who, t)
<1>1. Len(s) \in Nat /\ Len(t) \in Nat /\ DOMAIN t = 1 .. Len(t)
  BY LenProperties
<1>2. PICK f : /\ f[0] = 0
               /\ InOrderOf(s, who, t) <=> f[Len(s)] <= Len(t)
               /\ \A k \in 1 .. Len(s) :
                    f[k] = IF IsOf(s[k], who) THEN FoundIn(t, f[k - 1], s[k]) ELSE f[k - 1]
  BY <1>1, PlacesAre
<1>3. PICK g \in [1 .. Len(s) -> 0 .. m] :
        /\ \A i \in 1 .. Len(s) : IsOf(s[i], who) => g[i] \in 1 .. Len(t) /\ s[i] = t[g[i]]
        /\ \A i, j \in 1 .. Len(s) : i <= j => g[i] <= g[j]
  BY DEF Carries
<1> DEFINE h == [k \in 0 .. Len(s) |-> IF k = 0 THEN 0 ELSE g[k]]
           late == {k \in 0 .. Len(s) : ~(f[k] \in Nat /\ f[k] <= h[k])}
<1>4. late = {}
  <2> SUFFICES ASSUME late # {} PROVE FALSE
    OBVIOUS
  <2>1. late \in SUBSET Nat
    OBVIOUS
  <2>2. PICK k \in late : \A i \in late : ~(i < k)
    <3> HIDE DEF late
    <3> QED
      BY <2>1, LeastOf
  <2>3. k \in 0 .. Len(s) /\ ~(f[k] \in Nat /\ f[k] <= h[k])
    OBVIOUS
  <2>4. k # 0
    <3>1. h[0] = 0
      BY <1>1
    <3> HIDE DEF h
    <3> QED
      BY <1>2, <2>3, <3>1
  <2>5. k \in 1 .. Len(s) /\ k - 1 \in 0 .. Len(s) /\ k - 1 < k
    BY <1>1, <2>3, <2>4
  <2>6. f[k - 1] \in Nat /\ f[k - 1] <= h[k - 1]
    BY <2>2, <2>5
  <2>7. h[k] = g[k] /\ g[k] \in Nat /\ h[k - 1] <= g[k] /\ h[k - 1] \in Nat
    <3>1. h[k] = g[k] /\ g[k] \in 0 .. m
      BY <1>3, <2>4, <2>5
    <3>2. CASE k - 1 = 0
      BY <3>1, <3>2, <2>5
    <3>3. CASE k - 1 # 0
      <4>1. k - 1 \in 1 .. Len(s) /\ k - 1 <= k
        BY <2>5, <3>3
      <4>2. g[k - 1] <= g[k] /\ g[k - 1] \in 0 .. m
        BY <1>3, <2>5, <4>1
      <4>3. h[k - 1] = g[k - 1]
        BY <2>5, <3>3
      <4> QED
        BY <3>1, <4>2, <4>3
    <3> QED
      BY <3>2, <3>3
  <2> HIDE DEF h, late
  <2>8. CASE ~IsOf(s[k], who)
    <3>1. f[k] = f[k - 1]
      BY <1>2, <2>5, <2>8
    <3> QED
      BY <2>3, <2>6, <2>7, <3>1
  <2>9. CASE IsOf(s[k], who)
    <3> DEFINE at == {i \in DOMAIN t : i >= f[k - 1] /\ t[i] = s[k]}
    <3>1. f[k] = IF at = {} THEN Len(t) + 1 ELSE Min(at)
      BY <1>2, <2>5, <2>9 DEF FoundIn
    <3>2. g[k] \in 1 .. Len(t) /\ s[k] = t[g[k]]
      BY <1>3, <2>5, <2>9
    <3>3. g[k] \in at
      BY <1>1, <2>6, <2>7, <3>2
    <3>4. at \subseteq Nat
      BY <1>1
    <3> HIDE DEF at
    <3>5. f[k] \in at /\ f[k] <= g[k]
      BY <3>1, <3>3, <3>4, MinIsLeast
    <3> QED
      BY <2>3, <2>7, <3>4, <3>5
  <2> QED
    BY <2>8, <2>9
<1>5. Len(s) \in 0 .. Len(s)
  BY <1>1
<1>6. f[Len(s)] \in Nat /\ f[Len(s)] <= h[Len(s)]
  BY <1>4, <1>5
<1>7. h[Len(s)] \in 0 .. m
  <2>1. CASE Len(s) = 0
    BY <1>5, <2>1
  <2>2. CASE Len(s) # 0
    <3>1. Len(s) \in 1 .. Len(s)
      BY <1>1, <2>2
    <3> QED
      BY <1>3, <1>5, <2>2, <3>1
  <2> QED
    BY <2>1, <2>2
<1> HIDE DEF h
<1>8. f[Len(s)] <= Len(t)
  BY <1>1, <1>6, <1>7
<1> QED
  BY <1>2, <1>8

\* The algebra of Carries().
LEMMA CarriesJoin ==
  ASSUME NEW S, NEW s \in Seq(S), NEW u \in Seq(S), NEW who, NEW t, NEW l \in Nat, NEW m \in Nat, NEW n \in Nat,
         Carries(s, who, t, l, m), Carries(u, who, t, m, n)
  PROVE  Carries(s \o u, who, t, l, n)
<1>1. PICK v : v = s \o u
  OBVIOUS
<1>2. /\ Len(v) = Len(s) + Len(u) /\ Len(s) \in Nat /\ Len(u) \in Nat
      /\ \A i \in 1 .. Len(s) + Len(u) : v[i] = IF i <= Len(s) THEN s[i] ELSE u[i - Len(s)]
  BY <1>1, ConcatProperties, LenProperties
<1>3. PICK g \in [1 .. Len(s) -> l .. m] :
        /\ \A i \in 1 .. Len(s) : IsOf(s[i], who) => g[i] \in 1 .. Len(t) /\ s[i] = t[g[i]]
        /\ \A i, j \in 1 .. Len(s) : i <= j => g[i] <= g[j]
  BY DEF Carries
<1>4. PICK h \in [1 .. Len(u) -> m .. n] :
        /\ \A i \in 1 .. Len(u) : IsOf(u[i], who) => h[i] \in 1 .. Len(t) /\ u[i] = t[h[i]]
        /\ \A i, j \in 1 .. Len(u) : i <= j => h[i] <= h[j]
  BY DEF Carries
<1>5. l <= m /\ m <= n
  BY DEF Carries
<1> DEFINE f == [i \in 1 .. Len(v) |-> IF i <= Len(s) THEN g[i] ELSE h[i - Len(s)]]
<1>6. ASSUME NEW i \in 1 .. Len(v)
      PROVE  \/ i \in 1 .. Len(s) /\ f[i] = g[i] /\ g[i] \in l .. m /\ v[i] = s[i]
             \/ i > Len(s) /\ i - Len(s) \in 1 .. Len(u) /\ f[i] = h[i - Len(s)] /\ h[i - Len(s)] \in m .. n /\ v[i] = u[i - Len(s)]
  <2>1. CASE i <= Len(s)
    <3>1. i \in 1 .. Len(s)
      BY <1>2, <2>1
    <3> QED
      BY <1>2, <1>3, <2>1, <3>1
  <2>2. CASE ~(i <= Len(s))
    <3>1. i - Len(s) \in 1 .. Len(u) /\ i > Len(s)
      BY <1>2, <2>2
    <3> QED
      BY <1>2, <1>4, <2>2, <3>1
  <2> QED
    BY <2>1, <2>2
<1>7. f \in [1 .. Len(v) -> l .. n]
  <2>1. \A i \in 1 .. Len(v) : f[i] \in l .. n
    BY <1>5, <1>6
  <2> QED
    BY <2>1
<1>8. \A i \in 1 .. Len(v) : IsOf(v[i], who) => f[i] \in 1 .. Len(t) /\ v[i] = t[f[i]]
  <2> SUFFICES ASSUME NEW i \in 1 .. Len(v), IsOf(v[i], who) PROVE f[i] \in 1 .. Len(t) /\ v[i] = t[f[i]]
    OBVIOUS
  <2> HIDE DEF f
  <2> QED
    BY <1>3, <1>4, <1>6
<1>9. \A i, j \in 1 .. Len(v) : i <= j => f[i] <= f[j]
  <2> SUFFICES ASSUME NEW i \in 1 .. Len(v), NEW j \in 1 .. Len(v), i <= j PROVE f[i] <= f[j]
    OBVIOUS
  <2> HIDE DEF f
  <2>1. i \in Nat /\ j \in Nat
    BY <1>2
  <2>2. \/ i \in 1 .. Len(s) /\ f[i] = g[i] /\ g[i] \in l .. m
        \/ i > Len(s) /\ i - Len(s) \in 1 .. Len(u) /\ f[i] = h[i - Len(s)] /\ h[i - Len(s)] \in m .. n
    BY <1>6
  <2>3. \/ j \in 1 .. Len(s) /\ f[j] = g[j] /\ g[j] \in l .. m
        \/ j > Len(s) /\ j - Len(s) \in 1 .. Len(u) /\ f[j] = h[j - Len(s)] /\ h[j - Len(s)] \in m .. n
    BY <1>6
  <2>4. CASE i \in 1 .. Len(s) /\ j \in 1 .. Len(s)
    <3>1. g[i] <= g[j]
      BY <1>3, <2>4
    <3>2. f[i] = g[i] /\ f[j] = g[j]
      BY <1>2, <2>1, <2>2, <2>3, <2>4
    <3> QED
      BY <3>1, <3>2
  <2>5. CASE i > Len(s) /\ j > Len(s)
    <3>1. i - Len(s) \in 1 .. Len(u) /\ j - Len(s) \in 1 .. Len(u) /\ i - Len(s) <= j - Len(s)
      BY <1>2, <2>1, <2>2, <2>3, <2>5
    <3>2. h[i - Len(s)] <= h[j - Len(s)]
      BY <1>4, <3>1
    <3>3. f[i] = h[i - Len(s)] /\ f[j] = h[j - Len(s)]
      BY <1>2, <2>1, <2>2, <2>3, <2>5
    <3> QED
      BY <3>2, <3>3
  <2>6. CASE i \in 1 .. Len(s) /\ j > Len(s)
    <3>1. f[i] \in l .. m /\ f[j] \in m .. n
      BY <1>2, <2>1, <2>2, <2>3, <2>6
    <3> QED
      BY <3>1
  <2> QED
    BY <1>2, <2>1, <2>2, <2>3, <2>4, <2>5, <2>6
<1> HIDE DEF f
<1>10. l <= n
  BY <1>5
<1>11. Carries(v, who, t, l, n)
  BY <1>7, <1>8, <1>9, <1>10 DEF Carries
<1> QED
  BY <1>1, <1>11

\* A sequence with nothing of who carries nothing.
LEMMA CarriesNone ==
  ASSUME NEW u, NEW who, NEW t, NEW m \in Nat, \A i \in 1 .. Len(u) : ~IsOf(u[i], who)
  PROVE  Carries(u, who, t, m, m)
<1> DEFINE g == [i \in 1 .. Len(u) |-> m]
<1>1. g \in [1 .. Len(u) -> m .. m] /\ \A i \in 1 .. Len(u) : g[i] = m
  OBVIOUS
<1> HIDE DEF g
<1>2. \A i, j \in 1 .. Len(u) : i <= j => g[i] <= g[j]
  BY <1>1
<1> QED
  BY <1>1, <1>2 DEF Carries

\* What is carried between m and n is carried between wider bounds.
LEMMA CarriesWiden ==
  ASSUME NEW u, NEW who, NEW t, NEW k \in Nat, NEW l \in Nat, NEW m \in Nat, NEW n \in Nat,
         Carries(u, who, t, l, m), k <= l, m <= n
  PROVE  Carries(u, who, t, k, n)
<1>1. l .. m \subseteq k .. n /\ k <= n
  BY DEF Carries
<1>2. [1 .. Len(u) -> l .. m] \subseteq [1 .. Len(u) -> k .. n]
  BY <1>1
<1> QED
  BY <1>1, <1>2 DEF Carries

\* One item.
LEMMA CarriesOne ==
  ASSUME NEW x, NEW who, NEW t, NEW m \in Nat, IsOf(x, who) => m \in 1 .. Len(t) /\ x = t[m]
  PROVE  Carries(<<x>>, who, t, m, m)
<1>1. Len(<<x>>) = 1 /\ <<x>>[1] = x
  OBVIOUS
<1>2. PICK u : u = <<x>>
  OBVIOUS
<1> DEFINE g == [i \in 1 .. 1 |-> m]
<1>3. g \in [1 .. 1 -> m .. m] /\ \A i \in 1 .. 1 : g[i] = m
  OBVIOUS
<1> HIDE DEF g
<1>4. \A i \in 1 .. 1 : IsOf(u[i], who) => g[i] \in 1 .. Len(t) /\ u[i] = t[g[i]]
  BY <1>1, <1>2, <1>3
<1>5. \A i, j \in 1 .. 1 : i <= j => g[i] <= g[j]
  BY <1>3
<1> QED
  BY <1>1, <1>2, <1>3, <1>4, <1>5 DEF Carries

\* Consecutive items.
LEMMA CarriesPiece ==
  ASSUME NEW u, Len(u) \in Nat, NEW who, NEW t, NEW m \in Nat, m + Len(u) <= Len(t), Len(t) \in Nat,
         \A i \in 1 .. Len(u) : u[i][1] = "junk" \/ u[i] = t[m + i]
  PROVE  Carries(u, who, t, m, m + Len(u))
<1> DEFINE g == [i \in 1 .. Len(u) |-> m + i]
<1>1. g \in [1 .. Len(u) -> m .. m + Len(u)] /\ \A i \in 1 .. Len(u) : g[i] = m + i
  OBVIOUS
<1> HIDE DEF g
<1>2. \A i, j \in 1 .. Len(u) : i <= j => g[i] <= g[j]
  BY <1>1
<1>3. \A i \in 1 .. Len(u) : IsOf(u[i], who) => g[i] \in 1 .. Len(t) /\ u[i] = t[g[i]]
  BY <1>1 DEF IsOf
<1> QED
  BY <1>1, <1>2, <1>3 DEF Carries

\* Losses leave no disorder.
LEMMA CarriesArrives ==
  ASSUME NEW items, NEW out, NEW who, who # "nobody", NEW t, NEW m, NEW n, Len(items) \in Nat,
         Arrives(out, items), Carries(items, who, t, m, n)
  PROVE  Carries(out, who, t, m, n)
<1>1. Len(out) = Len(items) /\ \A i \in 1 .. Len(items) : out[i] \in {items[i], Gap}
  BY DEF Arrives
<1>2. ~IsOf(Gap, who)
  BY DEF IsOf, Gap
<1>3. \A i \in 1 .. Len(out) : IsOf(out[i], who) => out[i] = items[i]
  BY <1>1, <1>2
<1> QED
  BY <1>1, <1>3 DEF Carries

-----------------------------------------------------------------------------
(* What is left of a stream.                                               *)

\* s is what is left of the first n items of t, garbled in part.
Leftover(s, t, n) ==
  /\ Len(s) <= n /\ n <= Len(t)
  /\ \A i \in 1 .. Len(s) : s[i][1] = "junk" \/ s[i] = t[n - Len(s) + i]

\* l is W's, and the m-th item of t if it is not garbled.
LineOf(l, W, t, m) ==
  /\ l \in ItemsBy(W)
  /\ IsTorn(t) \/ l[1] = "junk" \/ (m \in 1 .. Len(t) /\ l = t[m])

\* The end of a leftover is one.
LEMMA LeftoverRest ==
  ASSUME NEW S, NEW all \in Seq(S), NEW t, NEW n \in Nat, Len(t) \in Nat, Leftover(all, t, n),
         NEW k \in 0 .. Len(all), NEW rest, Between(rest, all, k, Len(all))
  PROVE  Leftover(rest, t, n) /\ Len(rest) = Len(all) - k
<1>1. Len(all) \in Nat /\ Len(rest) = Len(all) - k /\ \A i \in 1 .. Len(rest) : rest[i] = all[k + i]
  BY LenProperties DEF Between
<1>2. ASSUME NEW i \in 1 .. Len(rest) PROVE rest[i][1] = "junk" \/ rest[i] = t[n - Len(rest) + i]
  <2>1. k + i \in 1 .. Len(all) /\ n - Len(all) + (k + i) = n - Len(rest) + i
    BY <1>1
  <2>2. all[k + i][1] = "junk" \/ all[k + i] = t[n - Len(all) + (k + i)]
    BY <2>1 DEF Leftover
  <2> QED
    BY <1>1, <2>1, <2>2
<1>3. Len(rest) <= n
  <2>1. PICK w \in Nat, v \in Nat : w = Len(all) /\ v = Len(rest) /\ v = w - k /\ w <= n
    <3>1. Len(all) <= n
      BY DEF Leftover
    <3> QED
      BY <1>1, <3>1
  <2> QED
    BY <2>1
<1>4. n <= Len(t)
  BY DEF Leftover
<1> QED
  BY <1>1, <1>2, <1>3, <1>4 DEF Leftover

\* What a read of a line takes from a stream, and what it may give.
LineGot(r, all, old, W, t, n) ==
  LET rest == r.left.rio \o r.left.inbox IN
  /\ Leftover(rest, t, n) /\ Len(rest) <= Len(all)
  /\ \A l \in r.lines : l = old \/ LineOf(l, W, t, n - Len(rest))
  /\ r.ret > 0 => \A l \in r.lines : LineOf(l, W, t, n - Len(rest))

\* rio_readlineb() reads the next item, if that is a line.
LEMMA LineFrom ==
  ASSUME NEW W, NEW buffer \in Seq(ItemsBy(W)), NEW socket \in Seq(ItemsBy(W)), NEW eof, NEW old,
         NEW t, Len(t) \in Nat, DOMAIN t = 1 .. Len(t), NEW n \in Nat, Leftover(buffer \o socket, t, n),
         NEW r, r = ReadLine(buffer, socket, eof, old)
  PROVE  LineGot(r, buffer \o socket, old, W, t, n)
<1>a. PICK all : all = buffer \o socket
  OBVIOUS
<1>b. PICK rest : rest = r.left.rio \o r.left.inbox
  OBVIOUS
<1>c. PICK k : k = SelectInSeq(all, IsTerminated)
  OBVIOUS
<1>1. all \in Seq(ItemsBy(W)) /\ Len(all) \in Nat /\ k \in 0 .. Len(all)
  BY <1>a, <1>c, ConcatProperties, LenProperties, LineEnd
<1>2. \A j \in 0 .. Len(all) : r.left = Consume(buffer, socket, j) => Leftover(rest, t, n) /\ Len(rest) = Len(all) - j
  <2> SUFFICES ASSUME NEW j \in 0 .. Len(all), r.left = Consume(buffer, socket, j)
               PROVE  Leftover(rest, t, n) /\ Len(rest) = Len(all) - j
    OBVIOUS
  <2>1. Between(rest, all, j, Len(all))
    BY <1>a, <1>b, ConsumeRest
  <2> QED
    BY <1>1, <1>a, <2>1, LeftoverRest
<1>3. \A x \in ItemsBy(W) : <<"junk", x[2]>> \in ItemsBy(W) /\ x \in ItemsBy(W)
  BY DEF ItemsBy, Spoken, ItemKinds
<1> DEFINE Line(l) == LineOf(l, W, t, n - Len(rest))
<1>4. CASE k > 0
  <2>1. PICK items : items = SubSeq(all, 1, k)
    OBVIOUS
  <2>2. r.lines = {Join(items)} /\ r.left = Consume(buffer, socket, k)
    BY <1>4, <1>a, <1>c, <2>1 DEF ReadLine
  <2>3. Leftover(rest, t, n) /\ Len(rest) = Len(all) - k
    BY <1>1, <1>2, <2>2
  <2>4. items \in Seq(ItemsBy(W)) /\ Len(items) = k /\ items[1] = all[1] /\ items # <<>>
    <3>1. items \in Seq(ItemsBy(W)) /\ Len(items) = k /\ \A i \in 1 .. k : items[i] = all[i]
      BY <1>1, <2>1, FirstItems
    <3>2. 1 \in 1 .. k /\ Len(<<>>) = 0
      BY <1>1, <1>4
    <3> QED
      BY <1>4, <3>1, <3>2
  <2>5. Join(items) \in ItemsBy(W)
    BY <2>4, JoinIs
  <2>6. all[1][1] = "junk" \/ (n - Len(all) + 1 \in 1 .. Len(t) /\ all[1] = t[n - Len(all) + 1])
    BY <1>1, <1>4, <1>a DEF Leftover
  <2>7. \/ k = 1 /\ Join(items) = all[1]
        \/ all[1][1] \in DOMAIN HeadOf
        \/ Join(items)[1] = "junk"
    BY <2>4 DEF Join
  <2>8. "junk" \notin DOMAIN HeadOf
    BY DEF HeadOf
  <2>9. all[1][1] \in DOMAIN HeadOf => IsTorn(t)
    <3> HAVE all[1][1] \in DOMAIN HeadOf
    <3>1. n - Len(all) + 1 \in DOMAIN t /\ t[n - Len(all) + 1][1] \in DOMAIN HeadOf
      BY <2>6, <2>8
    <3>2. t[n - Len(all) + 1][1] \in Kinds(t)
      BY <3>1 DEF Kinds
    <3> QED
      BY <3>1, <3>2 DEF IsTorn
  <2>10. k = 1 => n - Len(rest) = n - Len(all) + 1
    BY <1>1, <2>3
  <2>11. Line(Join(items))
    BY <2>5, <2>6, <2>7, <2>9, <2>10 DEF LineOf
  <2>12. Len(rest) <= Len(all)
    BY <1>1, <2>3
  <2> HIDE DEF Line
  <2>13. \A l \in r.lines : Line(l)
    BY <2>2, <2>11
  <2> QED
    BY <1>a, <1>b, <2>3, <2>12, <2>13 DEF Line, LineGot
<1>5. CASE ~(k > 0)
  <2> DEFINE junk == <<"junk", all[1][2]>>
             whole == <<HeadOf[all[1][1]], all[1][2]>>
  <2>1. /\ r.lines = IF all = <<>> THEN {old}
                     ELSE {junk} \cup (IF ~eof THEN {old}
                                       ELSE IF Len(all) = 1 /\ all[1][1] \in DOMAIN HeadOf THEN {whole} ELSE {})
        /\ r.left = Consume(buffer, socket, Len(all)) /\ r.ret = IF eof THEN Len(all) ELSE -1
    BY <1>5, <1>a, <1>c DEF ReadLine
  <2>2. Leftover(rest, t, n) /\ Len(rest) = Len(all) - Len(all)
    BY <1>1, <1>2, <2>1
  <2>3. all # <<>> => all[1] \in ItemsBy(W) /\ 1 \in 1 .. Len(all)
    BY <1>1, EmptySeq, ElementOfSeq
  <2>4. all # <<>> => Line(junk)
    BY <1>3, <2>3 DEF LineOf
  <2>5. all # <<>> /\ all[1][1] \in DOMAIN HeadOf => Line(whole)
    <3> HAVE all # <<>> /\ all[1][1] \in DOMAIN HeadOf
    <3>1. whole \in ItemsBy(W)
      BY <2>3, HeadsAre DEF ItemsBy
    <3>2. all[1][1] # "junk"
      BY DEF HeadOf
    <3>3. n - Len(all) + 1 \in 1 .. Len(t) /\ all[1] = t[n - Len(all) + 1]
      BY <1>1, <1>a, <2>3, <3>2 DEF Leftover
    <3>4. t[n - Len(all) + 1][1] \in Kinds(t) /\ t[n - Len(all) + 1][1] \in DOMAIN HeadOf
      BY <3>3 DEF Kinds
    <3>5. IsTorn(t)
      BY <3>4 DEF IsTorn
    <3> QED
      BY <3>1, <3>5 DEF LineOf
  <2>6. Len(rest) <= Len(all)
    BY <1>1, <2>2
  <2> HIDE DEF Line, junk, whole
  <2>7. \A l \in r.lines : l = old \/ Line(l)
    BY <2>1, <2>4, <2>5
  <2>8. r.ret > 0 => \A l \in r.lines : Line(l)
    <3> HAVE r.ret > 0
    <3>1. eof /\ Len(all) > 0
      BY <2>1
    <3>2. all # <<>>
      BY <3>1, EmptySeq
    <3> QED
      BY <2>1, <2>4, <2>5, <3>1, <3>2
  <2> QED
    BY <1>a, <1>b, <2>2, <2>6, <2>7, <2>8 DEF Line, LineGot
<1> QED
  BY <1>4, <1>5

\* What a read of bytes takes from a stream, and what it gives.
DataOf(r, all, t, n) ==
  LET rest == r.left.rio \o r.left.inbox IN
  /\ Leftover(rest, t, n) /\ Len(rest) <= Len(all)
  /\ \A who : Carries(r.data, who, t, n - Len(all), n - Len(rest))

\* Items from the beginning of what is left.
LEMMA FirstCarried ==
  ASSUME NEW S, NEW all \in Seq(S), NEW t, NEW n \in Nat, Len(t) \in Nat, Leftover(all, t, n),
         NEW k \in 0 .. Len(all), NEW who
  PROVE  /\ SubSeq(all, 1, k) \in Seq(S)
         /\ Carries(SubSeq(all, 1, k), who, t, n - Len(all), n - Len(all) + k)
<1>1. PICK u : u = SubSeq(all, 1, k)
  OBVIOUS
<1>2. Len(all) \in Nat /\ u \in Seq(S) /\ Len(u) = k /\ \A i \in 1 .. k : u[i] = all[i]
  BY <1>1, FirstItems, LenProperties
<1>3. PICK m : m = n - Len(all)
  OBVIOUS
<1>4. m \in Nat /\ m + k <= Len(t) /\ k \in Nat
  BY <1>2, <1>3 DEF Leftover
<1>5. \A i \in 1 .. k : u[i][1] = "junk" \/ u[i] = t[m + i]
  BY <1>2, <1>3 DEF Leftover
<1>6. Carries(u, who, t, m, m + k)
  BY <1>2, <1>4, <1>5, CarriesPiece
<1> QED
  BY <1>1, <1>2, <1>3, <1>6

\* rio_readnb() reads items that follow one another.
LEMMA BytesFrom ==
  ASSUME NEW S, NEW buffer \in Seq(S), NEW socket \in Seq(S), NEW eof, NEW k \in Nat,
         NEW t, Len(t) \in Nat, NEW n \in Nat, Leftover(buffer \o socket, t, n),
         NEW r, r = ReadBytes(buffer, socket, eof, k)
  PROVE  DataOf(r, buffer \o socket, t, n)
<1>a. PICK all : all = buffer \o socket
  OBVIOUS
<1>b. PICK rest : rest = r.left.rio \o r.left.inbox
  OBVIOUS
<1>c. PICK got : got = IF Len(all) < k THEN Len(all) ELSE k
  OBVIOUS
<1>1. all \in Seq(S) /\ Len(all) \in Nat /\ got \in 0 .. Len(all)
  BY <1>a, <1>c, ConcatProperties, LenProperties
<1>2. r.data = SubSeq(all, 1, got) /\ r.left = Consume(buffer, socket, got)
  BY <1>a, <1>c DEF ReadBytes
<1>3. Between(rest, all, got, Len(all))
  BY <1>1, <1>2, <1>a, <1>b, ConsumeRest
<1>4. Leftover(rest, t, n) /\ Len(rest) = Len(all) - got
  BY <1>1, <1>3, <1>a, LeftoverRest
<1>5. \A who : Carries(r.data, who, t, n - Len(all), n - Len(all) + got)
  BY <1>1, <1>2, <1>a, FirstCarried
<1>6. n - Len(rest) = n - Len(all) + got /\ Len(rest) <= Len(all)
  BY <1>1, <1>4
<1> QED
  BY <1>a, <1>b, <1>4, <1>5, <1>6 DEF DataOf

\* So does the part of a rio_readnb() that is not the end of a chunk.
LEMMA PartFrom ==
  ASSUME NEW W, NEW buffer \in Seq(ItemsBy(W)), NEW socket \in Seq(ItemsBy(W)),
         NEW k \in Nat, k < Len(buffer \o socket),
         NEW t, Len(t) \in Nat, NEW n \in Nat, Leftover(buffer \o socket, t, n),
         NEW r, r = ReadPart(buffer, socket, k)
  PROVE  DataOf(r, buffer \o socket, t, n)
<1>a. PICK all : all = buffer \o socket
  OBVIOUS
<1>b. PICK rest : rest = r.left.rio \o r.left.inbox
  OBVIOUS
<1>c. PICK x : x = Torn(all[k + 1])
  OBVIOUS
<1>d. PICK more : more = Consume(buffer, socket, k + 1)
  OBVIOUS
<1>e. PICK junk : junk = <<"junk", all[k + 1][2]>>
  OBVIOUS
<1>1. all \in Seq(ItemsBy(W)) /\ Len(all) \in Nat /\ k \in 0 .. Len(all) /\ k + 1 \in 1 .. Len(all)
  BY <1>a, ConcatProperties, LenProperties
<1>2. PartRead(W, buffer, socket, k)
  BY ReadPartIs
<1>3. x \in ItemsBy(W) /\ r.left.inbox = more.inbox /\ r.left.rio = <<x>> \o more.rio
  BY <1>2, <1>a, <1>c, <1>d DEF PartRead
<1>4. r.data = Append(SubSeq(all, 1, k), junk)
  BY <1>a, <1>e DEF ReadPart
<1>5. PICK v : v = more.rio \o more.inbox
  OBVIOUS
<1>6. more.rio \in Seq(ItemsBy(W)) /\ more.inbox \in Seq(ItemsBy(W)) /\ Between(v, all, k + 1, Len(all))
  BY <1>1, <1>5, <1>a, <1>d, ConsumeRest
<1>7. v \in Seq(ItemsBy(W)) /\ rest = <<x>> \o v
  <2>1. <<x>> \in Seq(ItemsBy(W))
    BY <1>3, SingleIn
  <2>2. v \in Seq(ItemsBy(W))
    BY <1>5, <1>6, ConcatProperties
  <2>3. Associates(<<x>>, more.rio, more.inbox)
    BY <1>6, <2>1, ThreeParts
  <2>4. rest = (<<x>> \o more.rio) \o more.inbox
    BY <1>3, <1>b
  <2> QED
    BY <1>5, <2>2, <2>3, <2>4 DEF Associates
<1>8. Leftover(v, t, n) /\ Len(v) = Len(all) - (k + 1)
  <2>1. Leftover(all, t, n) /\ k + 1 \in 0 .. Len(all)
    BY <1>1, <1>a
  <2> QED
    BY <1>1, <1>6, <2>1, LeftoverRest
<1>9. Len(rest) = Len(v) + 1 /\ \A i \in 1 .. Len(rest) : rest[i] = IF i <= 1 THEN x ELSE v[i - 1]
  <2>1. PICK u \in Seq(ItemsBy(W)) : u = <<x>> /\ Len(u) = 1 /\ u[1] = x
    BY <1>3, SingleIn
  <2>2. Len(rest) = 1 + Len(v) /\ \A i \in 1 .. 1 + Len(v) : rest[i] = IF i <= 1 THEN u[i] ELSE v[i - 1]
    BY <1>7, <2>1, ConcatProperties
  <2> QED
    <3>1. 1 + Len(v) = Len(v) + 1 /\ u[1] = x
      BY <1>1, <1>8, <2>1
    <3>2. ASSUME NEW i \in 1 .. Len(rest) PROVE rest[i] = IF i <= 1 THEN x ELSE v[i - 1]
      <4>1. rest[i] = IF i <= 1 THEN u[i] ELSE v[i - 1]
        BY <2>2
      <4>2. i <= 1 => i = 1
        OBVIOUS
      <4> QED
        BY <3>1, <4>1, <4>2
    <3> QED
      BY <2>2, <3>1, <3>2
<1>10. Len(rest) = Len(all) - k /\ Len(rest) \in Nat
  BY <1>1, <1>8, <1>9
<1>11. x[1] = "junk" \/ x = t[n - Len(rest) + 1]
  <2>1. x[1] = "junk" \/ x = all[k + 1]
    BY <1>c DEF Torn
  <2>2. all[k + 1][1] = "junk" \/ all[k + 1] = t[n - Len(all) + (k + 1)]
    BY <1>1, <1>a DEF Leftover
  <2>3. n - Len(all) + (k + 1) = n - Len(rest) + 1
    BY <1>1, <1>10
  <2> QED
    BY <2>1, <2>2, <2>3
<1>12. Leftover(rest, t, n)
  <2>1. Len(rest) <= n /\ n <= Len(t)
    BY <1>1, <1>10, <1>a DEF Leftover
  <2>2. ASSUME NEW i \in 1 .. Len(rest) PROVE rest[i][1] = "junk" \/ rest[i] = t[n - Len(rest) + i]
    <3>1. CASE i = 1
      BY <1>9, <1>11, <3>1
    <3>2. CASE i # 1
      <4>1. i - 1 \in 1 .. Len(v) /\ n - Len(v) + (i - 1) = n - Len(rest) + i /\ rest[i] = v[i - 1]
        <5>1. Len(v) \in Nat /\ i \in Nat /\ i >= 1 /\ i <= Len(v) + 1
          BY <1>1, <1>8, <1>9, <1>10
        <5>2. rest[i] = v[i - 1]
          BY <1>9, <3>2, <5>1
        <5>3. i - 1 \in 1 .. Len(v) /\ n - Len(v) + (i - 1) = n - Len(rest) + i
          BY <1>9, <3>2, <5>1
        <5> QED
          BY <5>2, <5>3
      <4>2. v[i - 1][1] = "junk" \/ v[i - 1] = t[n - Len(v) + (i - 1)]
        BY <1>8, <4>1 DEF Leftover
      <4> QED
        BY <4>1, <4>2
    <3> QED
      BY <3>1, <3>2
  <2> QED
    BY <2>1, <2>2 DEF Leftover
<1>13. ASSUME NEW who PROVE Carries(r.data, who, t, n - Len(all), n - Len(rest))
  <2>1. PICK u : u = SubSeq(all, 1, k)
    OBVIOUS
  <2>2. u \in Seq(ItemsBy(W)) /\ Carries(u, who, t, n - Len(all), n - Len(all) + k)
    BY <1>1, <1>a, <2>1, FirstCarried
  <2>3. junk \in ItemsBy(W)
    <3>1. all[k + 1] \in ItemsBy(W)
      BY <1>1, ElementOfSeq
    <3> QED
      BY <1>e, <3>1 DEF ItemsBy, Spoken, ItemKinds
  <2>4. PICK m : m = n - Len(rest)
    OBVIOUS
  <2>5. m \in Nat /\ m = n - Len(all) + k /\ n - Len(all) \in Nat
    <3>1. Len(rest) <= n
      BY <1>12 DEF Leftover
    <3>2. Len(all) <= n
      BY <1>a DEF Leftover
    <3> QED
      BY <1>1, <1>10, <2>4, <3>1, <3>2
  <2>6. Carries(<<junk>>, who, t, m, m)
    BY <1>e, <2>5, CarriesOne DEF IsOf
  <2>7. <<junk>> \in Seq(ItemsBy(W)) /\ r.data = u \o <<junk>>
    BY <1>4, <2>1, <2>2, <2>3, SingleIn, AppendIsConcat
  <2>8. Carries(u \o <<junk>>, who, t, n - Len(all), m)
    BY <2>2, <2>5, <2>6, <2>7, CarriesJoin
  <2> QED
    BY <2>4, <2>7, <2>8
<1>14. Len(rest) <= Len(all)
  BY <1>1, <1>10
<1> QED
  BY <1>a, <1>b, <1>12, <1>13, <1>14 DEF DataOf

-----------------------------------------------------------------------------
(* The invariant of the order.                                             *)

\* What a client may be told.
Told == Texts \cup ({"400", "404", "501"} \X {"proxy"})

\* What c has sent and the proxy has not read, and how much it has.
Unseen(c) == IF c = fd THEN rio \o inbox[c] ELSE inbox[c]
Taken(c) == sent[c] - Len(Unseen(c))

StreamInv == \A c \in Clients : Leftover(Unseen(c), Items(c), sent[c])

\* The line that is repeated at EAGAIN is the last one read.
UpAt(m) ==
  /\ m <= Taken(fd) /\ Carries(toServer, fd, Items(fd), 0, m)
  /\ pc = "header" \/ IsUpload => (IsOf(line, fd) => m # 0 /\ line = Items(fd)[m])

UpInv == IsTorn(Items(fd)) \/ \E m \in Nat : UpAt(m)

DownInv ==
  /\ toClient \in Seq(Told) /\ Leftover(reply, answer, Len(answer))
  /\ IsTorn(answer) \/ Carries(toClient, "server", answer, 0, Len(answer) - Len(reply))

OrderInv == StreamInv /\ UpInv /\ DownInv

\* What arrives of the items that are written to the client.
Goes(items) == \E out \in Seq(Told) : toClient' = toClient \o out /\ Arrives(out, items)

\* The streams of a client.
LEMMA UnseenIs ==
  ASSUME ExchangeInv, NEW c \in Clients
  PROVE  /\ Unseen(c) \in Seq(ItemsBy({c})) /\ Len(Unseen(c)) \in Nat /\ sent[c] \in Nat
         /\ Items(c) \in Seq(ItemsBy({c})) /\ Len(Items(c)) \in Nat /\ DOMAIN Items(c) = 1 .. Len(Items(c))
<1>1. ClientStreams /\ inbox[c] \in Seq(ItemsBy({c})) /\ sent[c] \in Nat
  BY ClientsTexts DEF ExchangeInv, ClientStreams
<1>2. rio \in Seq(ItemsBy({fd}))
  BY <1>1 DEF ClientStreams
<1>3. c = fd => rio \o inbox[c] \in Seq(ItemsBy({c}))
  BY <1>1, <1>2, ConcatProperties
<1>4. Unseen(c) \in Seq(ItemsBy({c}))
  BY <1>1, <1>3 DEF Unseen
<1> QED
  BY <1>1, <1>4, ItemsAre, LenProperties

\* What a client has sent and is not unread has been taken.
LEMMA TakenIs ==
  ASSUME ExchangeInv, StreamInv, NEW c \in Clients
  PROVE  Taken(c) \in Nat /\ Taken(c) <= Len(Items(c)) /\ Len(Unseen(c)) <= sent[c]
<1>1. Len(Unseen(c)) <= sent[c] /\ sent[c] <= Len(Items(c))
  BY DEF StreamInv, Leftover
<1>2. Len(Unseen(c)) \in Nat /\ sent[c] \in Nat /\ Len(Items(c)) \in Nat
  BY UnseenIs
<1>3. sent[c] - Len(Unseen(c)) \in Nat /\ sent[c] - Len(Unseen(c)) <= Len(Items(c))
  BY <1>1, <1>2
<1> QED
  BY <1>1, <1>3 DEF Taken

\* Only more is read.
Onward == \A c \in Clients : Taken(c) \in Nat /\ Taken(c)' \in Nat /\ Taken(c) <= Taken(c)'

\* A step that leaves the streams of the clients alone.
LEMMA StreamsQuiet ==
  ASSUME ExchangeInv, StreamInv, UNCHANGED <<asked, sent, inbox, rio, fd>>
  PROVE  StreamInv' /\ Onward
<1>1. ASSUME NEW c \in Clients PROVE Items(c)' = Items(c) /\ Unseen(c)' = Unseen(c) /\ Taken(c)' = Taken(c) /\ Taken(c) \in Nat
  BY AskedStays, TakenIs DEF Unseen, Taken
<1>2. StreamInv'
  BY <1>1 DEF StreamInv
<1> QED
  BY <1>1, <1>2 DEF Onward

\* The less is left of a, the more has been taken.
TakesMore(a, b, d) == a - b \in Nat /\ a - d <= a - b

LEMMA TakesMoreIs ==
  ASSUME NEW a \in Nat, NEW b \in Nat, NEW d \in Nat, b <= a, b <= d
  PROVE  TakesMore(a, b, d)
BY DEF TakesMore

\* A step that reads from the client.
LEMMA StreamsRead ==
  ASSUME ExchangeInv, StreamInv, NEW r, Left(r), UNCHANGED <<asked, sent, fd>>,
         NEW rest, rest = r.left.rio \o r.left.inbox,
         Leftover(rest, Items(fd), sent[fd]), Len(rest) <= Len(Stream), Len(rest) \in Nat
  PROVE  StreamInv' /\ Onward /\ Taken(fd)' = sent[fd] - Len(rest)
<1>1. rio' = r.left.rio /\ inbox'[fd] = r.left.inbox /\ \A c \in Clients : c # fd => inbox'[c] = inbox[c]
  BY LeftStream
<1>2. fd \in Clients /\ Unseen(fd) = Stream
  BY ServedStreams DEF Unseen, Stream
<1>3. Unseen(fd)' = rest /\ Taken(fd)' = sent[fd] - Len(rest)
  BY <1>1 DEF Unseen, Taken
<1>4. ASSUME NEW c \in Clients PROVE Items(c)' = Items(c)
  BY AskedStays
<1>5. ASSUME NEW c \in Clients, c # fd PROVE Unseen(c)' = Unseen(c) /\ Taken(c)' = Taken(c)
  BY <1>1, <1>5 DEF Unseen, Taken
<1>6. StreamInv'
  <2> SUFFICES ASSUME NEW c \in Clients PROVE Leftover(Unseen(c)', Items(c)', sent'[c])
    BY DEF StreamInv
  <2>1. CASE c = fd
    BY <1>3, <1>4, <2>1
  <2>2. CASE c # fd
    BY <1>4, <1>5, <2>2 DEF StreamInv
  <2> QED
    BY <2>1, <2>2
<1>7. Taken(fd) \in Nat /\ Taken(fd) <= Taken(fd)' /\ Taken(fd)' \in Nat
  <2>1. /\ Taken(fd) = sent[fd] - Len(Stream) /\ sent[fd] \in Nat /\ Len(Stream) \in Nat
        /\ Len(rest) <= sent[fd] /\ Taken(fd) \in Nat
    BY <1>2, UnseenIs, TakenIs DEF Taken, Leftover
  <2>2. TakesMore(sent[fd], Len(rest), Len(Stream))
    BY <2>1, TakesMoreIs
  <2> QED
    BY <1>3, <2>1, <2>2 DEF TakesMore
<1>8. Onward
  BY <1>5, <1>7, TakenIs DEF Onward
<1> QED
  BY <1>3, <1>6, <1>8

\* Nothing of the client's is added to what the server has got, and the line
\* stays or is of no use any more.
LEMMA UpKept ==
  ASSUME ExchangeInv, UpInv, Onward, UNCHANGED <<asked, fd>>,
         NEW u \in Seq(Messages), \A i \in 1 .. Len(u) : ~IsOf(u[i], fd),
         toServer' \in {toServer, toServer \o u},
         pc' = "header" \/ IsUpload' =>
           ~IsOf(line', fd) \/ (line' = line /\ (pc = "header" \/ IsUpload))
  PROVE  UpInv'
<1>1. fd \in Clients /\ toServer \in Seq(Messages) /\ Items(fd)' = Items(fd)
  BY AskedStays DEF ExchangeInv, FlagsInv, ServerStreams
<1> SUFFICES ASSUME ~IsTorn(Items(fd)) PROVE \E m \in Nat : UpAt(m)'
  BY <1>1 DEF UpInv
<1>2. PICK m \in Nat : UpAt(m)
  BY DEF UpInv
<1>3. Carries(u, fd, Items(fd), m, m) /\ Carries(toServer, fd, Items(fd), 0, m)
  BY <1>2, CarriesNone DEF UpAt
<1>4. Carries(toServer', fd, Items(fd), 0, m)
  BY <1>1, <1>3, CarriesJoin
<1>5. m <= Taken(fd)'
  BY <1>1, <1>2 DEF UpAt, Onward
<1>6. UpAt(m)'
  BY <1>1, <1>2, <1>4, <1>5 DEF UpAt
<1> QED
  BY <1>6

\* What is written to the server is what has just been read.
LEMMA UpFurther ==
  ASSUME ExchangeInv, UpInv, Onward, UNCHANGED <<asked, fd>>,
         NEW u \in Seq(Messages), Carries(u, fd, Items(fd), Taken(fd), Taken(fd)'),
         toServer' = toServer \o u,
         pc' = "header" \/ IsUpload' => (IsOf(line', fd) => Taken(fd)' # 0 /\ line' = Items(fd)[Taken(fd)'])
  PROVE  UpInv'
<1>1. fd \in Clients /\ toServer \in Seq(Messages) /\ Items(fd)' = Items(fd)
  BY AskedStays DEF ExchangeInv, FlagsInv, ServerStreams
<1> SUFFICES ASSUME ~IsTorn(Items(fd)) PROVE \E m \in Nat : UpAt(m)'
  BY <1>1 DEF UpInv
<1>2. PICK m \in Nat : UpAt(m)
  BY DEF UpInv
<1>3. Taken(fd) \in Nat /\ Taken(fd)' \in Nat /\ m <= Taken(fd)
  BY <1>1, <1>2 DEF UpAt, Onward
<1>4. Carries(toServer, fd, Items(fd), 0, Taken(fd))
  BY <1>2, <1>3, CarriesWiden DEF UpAt
<1>5. Carries(toServer', fd, Items(fd), 0, Taken(fd)')
  BY <1>1, <1>3, <1>4, CarriesJoin
<1>6. PICK n \in Nat : n = Taken(fd)'
  BY <1>3
<1>7. UpAt(n)'
  BY <1>1, <1>3, <1>5, <1>6 DEF UpAt
<1> QED
  BY <1>7

\* The other direction.
LEMMA DownKept ==
  ASSUME ExchangeInv, DownInv, UNCHANGED <<answer, reply>>,
         NEW items \in Seq(Told), \A i \in 1 .. Len(items) : ~IsOf(items[i], "server"), Goes(items)
  PROVE  DownInv'
<1>1. Len(answer) \in Nat /\ Len(reply) \in Nat /\ Len(reply) <= Len(answer) /\ toClient \in Seq(Told)
  BY LenProperties DEF ExchangeInv, ServerStreams, DownInv, Leftover
<1>2. PICK m : m = Len(answer) - Len(reply) /\ m \in Nat
  <2>1. Len(answer) - Len(reply) \in Nat
    BY <1>1
  <2> QED
    BY <2>1
<1>3. PICK out \in Seq(Told) : toClient' = toClient \o out /\ Arrives(out, items)
  BY DEF Goes
<1>4. Carries(out, "server", answer, m, m)
  <2>1. Carries(items, "server", answer, m, m) /\ Len(items) \in Nat
    BY <1>2, CarriesNone, LenProperties
  <2> QED
    BY <1>3, <2>1, CarriesArrives
<1>5. IsTorn(answer) \/ Carries(toClient', "server", answer, 0, m)
  BY <1>1, <1>2, <1>3, <1>4, CarriesJoin DEF DownInv
<1>6. toClient' \in Seq(Told)
  BY <1>1, <1>3, ConcatProperties
<1> QED
  BY <1>2, <1>5, <1>6 DEF DownInv

\* What is written to the client is what has just been read.
LEMMA DownFurther ==
  ASSUME ExchangeInv, DownInv, UNCHANGED answer,
         Leftover(reply', answer, Len(answer)), Len(reply') \in Nat, Len(reply') <= Len(reply),
         NEW items \in Seq(Told), Goes(items),
         IsTorn(answer) \/ Carries(items, "server", answer, Len(answer) - Len(reply), Len(answer) - Len(reply'))
  PROVE  DownInv'
<1>1. Len(answer) \in Nat /\ Len(reply) \in Nat /\ Len(reply) <= Len(answer) /\ toClient \in Seq(Told)
  BY LenProperties DEF ExchangeInv, ServerStreams, DownInv, Leftover
<1>2. PICK m : m = Len(answer) - Len(reply) /\ m \in Nat
  <2>1. Len(answer) - Len(reply) \in Nat
    BY <1>1
  <2> QED
    BY <2>1
<1>3. PICK n : n = Len(answer) - Len(reply') /\ n \in Nat
  <2>1. Len(answer) - Len(reply') \in Nat
    BY <1>1
  <2> QED
    BY <2>1
<1>4. PICK out \in Seq(Told) : toClient' = toClient \o out /\ Arrives(out, items)
  BY DEF Goes
<1>5. IsTorn(answer) \/ Carries(out, "server", answer, m, n)
  <2>1. Len(items) \in Nat
    BY LenProperties
  <2> QED
    BY <1>2, <1>3, <1>4, <2>1, CarriesArrives
<1>6. IsTorn(answer) \/ Carries(toClient \o out, "server", answer, 0, n)
  BY <1>1, <1>2, <1>3, <1>5, CarriesJoin DEF DownInv
<1>7. toClient \o out \in Seq(Told)
  BY <1>1, <1>4, ConcatProperties
<1> QED
  BY <1>3, <1>4, <1>6, <1>7 DEF DownInv

\* Writing, or not, to the client.
LEMMA GoesIs ==
  ASSUME ExchangeInv, DownInv, NEW items \in Seq(Told)
  PROVE  /\ WriteClient(items) \/ WriteEach(items) => Goes(items)
         /\ <<>> \in Seq(Told)
         /\ UNCHANGED toClient => Goes(<<>>)
<1>1. Gap \in Told
  BY GapIs DEF Told
<1>2. WriteClient(items) => Goes(items)
  <2> HAVE WriteClient(items)
  <2> QED
    BY <1>1, WriteClientIs DEF Goes
<1>3. WriteEach(items) => Goes(items)
  <2> HAVE WriteEach(items)
  <2> QED
    BY <1>1, WriteEachIs DEF Goes
<1>4. <<>> \in Seq(Told) /\ Arrives(<<>>, <<>>)
  BY EmptySeq DEF Arrives
<1>5. toClient \in Seq(Told)
  BY DEF DownInv
<1>6. toClient \o <<>> = toClient
  BY <1>5, ConcatEmptySeq
<1>7. UNCHANGED toClient => Goes(<<>>)
  BY <1>4, <1>6 DEF Goes
<1> QED
  BY <1>2, <1>3, <1>4, <1>7

\* What the proxy says itself is neither the client's nor the server's.
LEMMA OwnWords ==
  ASSUME ExchangeInv, NEW k
  PROVE  /\ DOMAIN Proxy(k) = 1 .. Len(Proxy(k)) =>
              \A i \in 1 .. Len(Proxy(k)) : ~IsOf(Proxy(k)[i], fd) /\ ~IsOf(Proxy(k)[i], "server")
         /\ \A x : ~IsOf(<<x, "proxy">>, fd) /\ ~IsOf(<<x, "proxy">>, "server")
<1>1. fd # "proxy"
  BY ExchangeAssumption DEF ExchangeInv, FlagsInv
<1>2. \A x : ~IsOf(<<x, "proxy">>, fd) /\ ~IsOf(<<x, "proxy">>, "server")
  BY <1>1 DEF IsOf
<1>3. ASSUME NEW i \in 1 .. Len(Proxy(k)), DOMAIN Proxy(k) = 1 .. Len(Proxy(k))
      PROVE  ~IsOf(Proxy(k)[i], fd) /\ ~IsOf(Proxy(k)[i], "server")
  <2>1. Proxy(k)[i] = <<k[i], "proxy">>
    BY <1>3 DEF Proxy, By
  <2> QED
    BY <1>2, <2>1
<1> QED
  BY <1>2, <1>3

\* A step that reads nothing and writes nothing but words of the proxy.
Quiet == UNCHANGED <<asked, sent, inbox, rio, fd, answer, reply>>

LEMMA OrderQuiet ==
  ASSUME ExchangeInv, OrderInv, Quiet,
         NEW u \in Seq(Messages), \A i \in 1 .. Len(u) : ~IsOf(u[i], fd),
         toServer' \in {toServer, toServer \o u},
         pc' = "header" \/ IsUpload' => ~IsOf(line', fd) \/ (line' = line /\ (pc = "header" \/ IsUpload)),
         NEW v \in Seq(Told), \A i \in 1 .. Len(v) : ~IsOf(v[i], "server"), Goes(v)
  PROVE  OrderInv'
<1>1. UNCHANGED <<asked, fd>> /\ UNCHANGED <<answer, reply>> /\ UNCHANGED asked /\ UNCHANGED <<asked, sent, inbox, rio, fd>>
  BY DEF Quiet
<1>2. StreamInv /\ UpInv /\ DownInv
  BY DEF OrderInv
<1>3. StreamInv' /\ Onward
  BY <1>1, <1>2, StreamsQuiet
<1>4. UpInv'
  BY <1>1, <1>2, <1>3, UpKept
<1>5. DownInv'
  BY <1>1, <1>2, DownKept
<1> QED
  BY <1>3, <1>4, <1>5 DEF OrderInv

-----------------------------------------------------------------------------
(* The steps, and the order.                                               *)

\* At first nothing is read or written.
LEMMA InitOrder ==
  ASSUME Init, ExchangeInv
  PROVE  OrderInv
<1>1. /\ sent = [c \in Clients |-> 0] /\ inbox = [c \in Clients |-> <<>>] /\ pc = "wait" /\ rio = <<>>
      /\ buf = NoLine /\ answer = <<>> /\ reply = <<>> /\ toServer = <<>> /\ toClient = <<>>
  BY DEF Init
<1>2. Len(<<>>) = 0 /\ <<>> \o <<>> = <<>> /\ \A S : <<>> \in Seq(S)
  BY EmptySeq
<1>3. StreamInv
  <2> SUFFICES ASSUME NEW c \in Clients PROVE Leftover(Unseen(c), Items(c), sent[c])
    BY DEF StreamInv
  <2>1. Unseen(c) = <<>> /\ sent[c] = 0
    BY <1>1, <1>2 DEF Unseen
  <2>2. Len(Items(c)) \in Nat
    BY UnseenIs
  <2> QED
    BY <1>2, <2>1, <2>2 DEF Leftover
<1>5. UpInv
  <2>1. fd \in Clients
    BY DEF ExchangeInv, FlagsInv
  <2>2. Taken(fd) \in Nat
    BY <1>3, <2>1, TakenIs
  <2>3. Carries(toServer, fd, Items(fd), 0, 0)
    BY <1>1, <1>2, CarriesNone
  <2>4. UpAt(0)
    BY <1>1, <2>2, <2>3 DEF UpAt, IsUpload, Chunking
  <2> QED
    BY <2>4 DEF UpInv
<1>6. DownInv
  <2>1. Carries(<<>>, "server", answer, 0, 0)
    BY <1>2, CarriesNone
  <2>2. Leftover(<<>>, <<>>, 0)
    BY <1>2 DEF Leftover
  <2> QED
    BY <1>1, <1>2, <2>1, <2>2 DEF DownInv
<1> QED
  BY <1>3, <1>5, <1>6 DEF OrderInv

\* The worker has not sent anything.
LEMMA UpStarts ==
  ASSUME toServer' = <<>>, pc' \notin {"header"} \cup Chunking, NEW d \in Clients, d = fd', Taken(d)' \in Nat
  PROVE  UpInv'
<1>1. Len(<<>>) = 0
  BY EmptySeq
<1>2. Taken(fd)' \in Nat
  BY DEF Taken, Unseen
<1>3. PICK t : t = Items(fd)'
  OBVIOUS
<1>4. Carries(<<>>, d, t, 0, 0)
  BY <1>1, CarriesNone
<1>5. Carries(toServer, fd, Items(fd), 0, 0)'
  BY <1>3, <1>4
<1>6. UpAt(0)'
  BY <1>2, <1>5 DEF UpAt, IsUpload
<1> QED
  BY <1>6 DEF UpInv

\* The worker takes up a client with an empty rio_client.
LEMMA WakeOrder ==
  ASSUME ExchangeInv, OrderInv, Wake
  PROVE  OrderInv'
<1>1. PICK d \in Clients : fd' = d
  BY DEF Wake
<1>2. /\ pc = "wait" /\ pc' = "request" /\ UNCHANGED <<asked, sent, inbox, rio, toServer, answer, reply, toClient>>
  BY DEF Wake, clientVars, serverVars
<1>3. rio = <<>> /\ toServer = <<>>
  BY <1>2 DEF ExchangeInv, OpeningInv, Opening
<1>4. ASSUME NEW c \in Clients
      PROVE  Items(c)' = Items(c) /\ Unseen(c)' = Unseen(c) /\ Taken(c)' = Taken(c) /\ Taken(c) \in Nat
  <2>1. inbox[c] \in Seq(ItemsBy({c}))
    BY ClientsTexts DEF ExchangeInv, ClientStreams
  <2>2. <<>> \o inbox[c] = inbox[c]
    BY <2>1, ConcatEmptySeq
  <2>3. Unseen(c)' = Unseen(c)
    BY <1>2, <1>3, <2>2 DEF Unseen
  <2> QED
    BY <1>2, <2>3, AskedStays, TakenIs DEF Taken, OrderInv
<1>5. StreamInv'
  BY <1>2, <1>4 DEF OrderInv, StreamInv
<1>7. UpInv'
  BY <1>1, <1>2, <1>3, <1>4, UpStarts DEF Chunking
<1>8. DownInv'
  BY <1>2 DEF OrderInv, DownInv
<1> QED
  BY <1>5, <1>7, <1>8 DEF OrderInv

\* What rio_client holds is lost, and perhaps what the socket holds.
LEMMA StreamsLost ==
  ASSUME ExchangeInv, StreamInv, UNCHANGED <<asked, sent, fd>>, rio' = <<>>,
         inbox'[fd] \in {<<>>, inbox[fd]}, \A c \in Clients : c # fd => inbox'[c] = inbox[c]
  PROVE  StreamInv' /\ Onward
<1>1. /\ rio' = <<>> /\ UNCHANGED <<asked, sent, fd>> /\ inbox'[fd] \in {<<>>, inbox[fd]}
      /\ \A c \in Clients : c # fd => inbox'[c] = inbox[c]
  OBVIOUS
<1>2. fd \in Clients /\ DOMAIN inbox = Clients /\ rio \in Seq(ItemsBy({fd})) /\ inbox[fd] \in Seq(ItemsBy({fd}))
  BY ServedStreams
<1>4. PICK k \in 0 .. Len(Stream) : Between(Unseen(fd)', Stream, k, Len(Stream))
  <2>1. /\ Len(Stream) = Len(rio) + Len(inbox[fd]) /\ Len(rio) \in Nat /\ Len(inbox[fd]) \in Nat
        /\ \A i \in 1 .. Len(rio) + Len(inbox[fd]) : Stream[i] = IF i <= Len(rio) THEN rio[i] ELSE inbox[fd][i - Len(rio)]
    BY <1>2, ConcatProperties, LenProperties DEF Stream
  <2>2. Unseen(fd)' = inbox'[fd]
    <3>1. inbox'[fd] \in Seq(ItemsBy({fd}))
      BY <1>2, <1>1, EmptySeq
    <3>2. <<>> \o inbox'[fd] = inbox'[fd]
      BY <3>1, ConcatEmptySeq
    <3> QED
      BY <1>1, <3>2 DEF Unseen
  <2>3. CASE inbox'[fd] = <<>>
    <3>1. Len(Unseen(fd)') = 0
      BY <2>2, <2>3, EmptySeq
    <3>2. Between(Unseen(fd)', Stream, Len(Stream), Len(Stream)) /\ Len(Stream) \in 0 .. Len(Stream)
      BY <2>1, <3>1 DEF Between
    <3> QED
      BY <3>2
  <2>4. CASE inbox'[fd] = inbox[fd]
    <3>1. ASSUME NEW i \in 1 .. Len(inbox[fd]) PROVE inbox[fd][i] = Stream[Len(rio) + i]
      <4>1. Len(rio) + i \in 1 .. Len(rio) + Len(inbox[fd]) /\ ~(Len(rio) + i <= Len(rio)) /\ (Len(rio) + i) - Len(rio) = i
        BY <2>1
      <4> QED
        BY <2>1, <4>1
    <3>2. Len(inbox[fd]) = Len(Stream) - Len(rio) /\ Len(rio) \in 0 .. Len(Stream)
      BY <2>1
    <3>3. Between(inbox[fd], Stream, Len(rio), Len(Stream))
      BY <3>1, <3>2 DEF Between
    <3> QED
      BY <2>2, <2>4, <3>2, <3>3
  <2> QED
    BY <1>1, <2>3, <2>4
<1>5. StreamInv /\ Unseen(fd) = Stream /\ Stream \in Seq(ItemsBy({fd})) /\ Len(Stream) \in Nat /\ sent[fd] \in Nat /\ Len(Items(fd)) \in Nat
  BY <1>2, UnseenIs DEF Unseen, Stream
<1>6. Leftover(Stream, Items(fd), sent[fd])
  BY <1>2, <1>5 DEF StreamInv
<1>7. Leftover(Unseen(fd)', Items(fd), sent[fd]) /\ Len(Unseen(fd)') = Len(Stream) - k
  BY <1>4, <1>5, <1>6, LeftoverRest
<1>8. ASSUME NEW c \in Clients PROVE Items(c)' = Items(c)
  BY <1>1, AskedStays
<1>9. ASSUME NEW c \in Clients, c # fd PROVE Unseen(c)' = Unseen(c) /\ Taken(c)' = Taken(c)
  BY <1>1, <1>9 DEF Unseen, Taken
<1>10. StreamInv'
  <2> SUFFICES ASSUME NEW c \in Clients PROVE Leftover(Unseen(c)', Items(c)', sent'[c])
    BY DEF StreamInv
  <2> QED
    BY <1>1, <1>5, <1>7, <1>8, <1>9 DEF StreamInv
<1>11. Onward
  <2>1. Taken(fd) = sent[fd] - Len(Stream) /\ Taken(fd)' = sent[fd] - Len(Unseen(fd)')
    BY <1>1, <1>5 DEF Taken
  <2>2. Len(Unseen(fd)') \in Nat /\ Len(Unseen(fd)') <= Len(Stream) /\ Len(Unseen(fd)') <= sent[fd]
    BY <1>5, <1>7 DEF Leftover
  <2>3. TakesMore(sent[fd], Len(Unseen(fd)'), Len(Stream))
    BY <1>5, <2>2, TakesMoreIs
  <2>4. Taken(fd) \in Nat
    BY <1>2, <1>5, TakenIs
  <2>5. Taken(fd)' \in Nat /\ Taken(fd) <= Taken(fd)'
    BY <2>1, <2>3 DEF TakesMore
  <2>6. ASSUME NEW c \in Clients PROVE Taken(c) \in Nat /\ Taken(c)' \in Nat /\ Taken(c) <= Taken(c)'
    <3>1. CASE c = fd
      BY <1>1, <2>4, <2>5, <3>1
    <3>2. CASE c # fd
      <4>1. Taken(c) \in Nat /\ Taken(c)' = Taken(c)
        BY <1>5, <1>9, <3>2, TakenIs
      <4> QED
        BY <4>1
    <3> QED
      BY <3>1, <3>2
  <2> QED
    BY <2>6 DEF Onward
<1> QED
  BY <1>10, <1>11

\* Giving up a client loses what rio_client holds, and no more is written.
LEMMA ReturnOrder ==
  ASSUME ExchangeInv, OrderInv, Return
  PROVE  OrderInv'
<1>1. /\ pc' = "wait" /\ rio' = <<>> /\ toServer' = <<>> /\ toClient' = <<>> /\ answer' = <<>> /\ reply' = <<>>
      /\ UNCHANGED <<asked, sent, fd>>
      /\ inbox' = IF conn[fd] = "closed" THEN [inbox EXCEPT ![fd] = <<>>] ELSE inbox
  BY DEF Return, Readinit, clientVars, residueVars
<1>2. fd \in Clients /\ DOMAIN inbox = Clients
  BY ServedStreams
<1>3. inbox'[fd] \in {<<>>, inbox[fd]} /\ \A c \in Clients : c # fd => inbox'[c] = inbox[c]
  BY <1>1, <1>2
<1>4. StreamInv' /\ Onward
  BY <1>1, <1>3, StreamsLost DEF OrderInv
<1>6. UpInv'
  <2>1. fd' = fd /\ Taken(fd)' \in Nat
    BY <1>1, <1>2, <1>4 DEF Onward
  <2>2. PICK d \in Clients : d = fd
    BY <1>2
  <2>3. Taken(d)' \in Nat
    BY <2>2, <1>4 DEF Onward
  <2> QED
    BY <1>1, <2>1, <2>2, <2>3, UpStarts DEF Chunking
<1>7. DownInv'
  <2>1. Len(<<>>) = 0 /\ \A S : <<>> \in Seq(S)
    BY EmptySeq
  <2>2. Carries(<<>>, "server", <<>>, 0, 0)
    BY <2>1, CarriesNone
  <2>3. Leftover(<<>>, <<>>, 0)
    BY <2>1 DEF Leftover
  <2> QED
    BY <1>1, <2>1, <2>2, <2>3 DEF DownInv
<1> QED
  BY <1>4, <1>6, <1>7 DEF OrderInv

\* More of the stream arrives.
LEMMA LeftoverMore ==
  ASSUME NEW S, NEW s \in Seq(S), NEW u \in Seq(S), NEW t, Len(t) \in Nat, NEW n \in Nat, NEW m \in Nat,
         Leftover(s, t, n), Between(u, t, n, m), m <= Len(t)
  PROVE  Leftover(s \o u, t, m) /\ Len(s \o u) = Len(s) + (m - n)
<1>1. PICK v : v = s \o u
  OBVIOUS
<1>2. /\ Len(v) = Len(s) + Len(u) /\ Len(s) \in Nat /\ Len(u) \in Nat
      /\ \A i \in 1 .. Len(s) + Len(u) : v[i] = IF i <= Len(s) THEN s[i] ELSE u[i - Len(s)]
  BY <1>1, ConcatProperties, LenProperties
<1>3. Len(u) = m - n /\ \A i \in 1 .. Len(u) : u[i] = t[n + i]
  BY DEF Between
<1>4. Len(s) <= n /\ \A i \in 1 .. Len(s) : s[i][1] = "junk" \/ s[i] = t[n - Len(s) + i]
  BY DEF Leftover
<1>5. ASSUME NEW i \in 1 .. Len(v) PROVE v[i][1] = "junk" \/ v[i] = t[m - Len(v) + i]
  <2>1. i \in 1 .. Len(s) + Len(u) /\ i \in Int
    BY <1>2
  <2>2. CASE i <= Len(s)
    <3>1. i \in 1 .. Len(s) /\ m - Len(v) + i = n - Len(s) + i
      BY <1>2, <1>3, <2>1, <2>2
    <3>2. v[i] = s[i]
      BY <1>2, <2>1, <2>2
    <3> QED
      BY <1>4, <3>1, <3>2
  <2>3. CASE ~(i <= Len(s))
    <3>1. i - Len(s) \in 1 .. Len(u) /\ m - Len(v) + i = n + (i - Len(s))
      BY <1>2, <1>3, <2>1, <2>3
    <3>2. v[i] = u[i - Len(s)]
      BY <1>2, <2>1, <2>3
    <3> QED
      BY <1>3, <3>1, <3>2
  <2> QED
    BY <2>2, <2>3
<1>6. Len(v) <= m
  BY <1>2, <1>3, <1>4
<1> QED
  BY <1>1, <1>2, <1>3, <1>5, <1>6 DEF Leftover

\* What a client sends follows what it has sent.
LEMMA SendOrder ==
  ASSUME ExchangeInv, OrderInv, NEW c \in Clients, Send(c)
  PROVE  OrderInv'
<1>1. PICK m \in sent[c] + 1 .. Len(asked[c]) :
        /\ sent' = [sent EXCEPT ![c] = m]
        /\ inbox' = [inbox EXCEPT ![c] = @ \o SubSeq(Items(c), sent[c] + 1, m)]
  BY DEF Send
<1>2. UNCHANGED <<asked, pc, fd, rio, line, dir, answer, reply, toServer, toClient>>
  BY DEF Send, residueVars, localVars, serverVars
<1>3. /\ ClientStreams /\ DOMAIN inbox = Clients /\ sent \in [Clients -> Nat] /\ inbox[c] \in Seq(ItemsBy({c}))
      /\ rio \in Seq(ItemsBy({fd})) /\ Len(Items(c)) = Len(asked[c]) /\ Len(asked[c]) \in Nat
      /\ Items(c) \in Seq(ItemsBy({c}))
  BY ClientsTexts, ItemsAre DEF ExchangeInv, ClientStreams
<1>4. m \in Nat /\ sent[c] \in Nat /\ m \in 0 .. Len(Items(c)) /\ sent[c] \in 0 .. Len(Items(c)) /\ sent[c] <= m /\ m <= Len(Items(c))
  BY <1>1, <1>3
<1>5. PICK new \in Seq(ItemsBy({c})) : new = SubSeq(Items(c), sent[c] + 1, m) /\ Between(new, Items(c), sent[c], m)
  BY <1>3, <1>4, Piece
<1>6. inbox'[c] = inbox[c] \o new /\ sent'[c] = m
  BY <1>1, <1>3, <1>5
<1>7. Unseen(c)' = Unseen(c) \o new
  <2>1. CASE c = fd
    <3>1. rio \in Seq(ItemsBy({c}))
      BY <1>3, <2>1
    <3>2. Associates(rio, inbox[c], new)
      BY <1>3, <3>1, ThreeParts
    <3> QED
      BY <1>2, <1>6, <2>1, <3>2 DEF Unseen, Associates
  <2>2. CASE c # fd
    BY <1>2, <1>6, <2>2 DEF Unseen
  <2> QED
    BY <2>1, <2>2
<1>8. ASSUME NEW d \in Clients PROVE Items(d)' = Items(d)
  BY <1>2, AskedStays
<1>9. /\ StreamInv /\ Unseen(c) \in Seq(ItemsBy({c})) /\ Len(Unseen(c)) \in Nat /\ Leftover(Unseen(c), Items(c), sent[c])
      /\ Taken(c) \in Nat
  BY UnseenIs, TakenIs DEF OrderInv, StreamInv
<1>10. Leftover(Unseen(c) \o new, Items(c), m) /\ Len(Unseen(c) \o new) = Len(Unseen(c)) + (m - sent[c])
  <2>1. PICK t : t = Items(c)
    OBVIOUS
  <2>2. PICK n : n = sent[c]
    OBVIOUS
  <2>3. PICK s : s = Unseen(c)
    OBVIOUS
  <2>4. /\ s \in Seq(ItemsBy({c})) /\ Len(t) \in Nat /\ n \in Nat /\ m \in Nat
        /\ Leftover(s, t, n) /\ Between(new, t, n, m) /\ m <= Len(t)
    BY <1>3, <1>4, <1>5, <1>9, <2>1, <2>2, <2>3
  <2>5. Leftover(s \o new, t, m) /\ Len(s \o new) = Len(s) + (m - n)
    BY <2>4, LeftoverMore
  <2> QED
    BY <2>1, <2>2, <2>3, <2>5
<1>11. Taken(c)' = Taken(c)
  <2>1. Taken(c)' = m - (Len(Unseen(c)) + (m - sent[c]))
    BY <1>6, <1>7, <1>10 DEF Taken
  <2>2. m - (Len(Unseen(c)) + (m - sent[c])) = sent[c] - Len(Unseen(c))
    BY <1>4, <1>9
  <2> QED
    BY <2>1, <2>2 DEF Taken
<1>12. ASSUME NEW d \in Clients, d # c PROVE Unseen(d)' = Unseen(d) /\ Taken(d)' = Taken(d) /\ sent'[d] = sent[d]
  <2>1. inbox'[d] = inbox[d] /\ sent'[d] = sent[d]
    BY <1>1, <1>3, <1>12
  <2> QED
    BY <1>2, <2>1 DEF Unseen, Taken
<1>13. StreamInv'
  <2> SUFFICES ASSUME NEW d \in Clients PROVE Leftover(Unseen(d)', Items(d)', sent'[d])
    BY DEF StreamInv
  <2> QED
    BY <1>6, <1>7, <1>8, <1>9, <1>10, <1>12 DEF StreamInv
<1>14. ASSUME NEW d \in Clients PROVE Taken(d)' = Taken(d) /\ Items(d)' = Items(d)
  BY <1>8, <1>11, <1>12
<1>16. fd \in Clients
  BY DEF ExchangeInv, FlagsInv
<1>17. UpInv'
  BY <1>2, <1>14, <1>16 DEF OrderInv, UpInv, UpAt, IsUpload
<1>18. DownInv'
  BY <1>2 DEF OrderInv, DownInv
<1> QED
  BY <1>13, <1>17, <1>18 DEF OrderInv

\* A step that changes nothing the order is about.
LEMMA StillOrder ==
  ASSUME ExchangeInv, OrderInv, UNCHANGED <<asked, sent, inbox, pc, fd, rio, line, dir, answer, reply, toServer, toClient>>
  PROVE  OrderInv'
<1>1. ASSUME NEW c \in Clients PROVE Items(c)' = Items(c) /\ Unseen(c)' = Unseen(c) /\ Taken(c)' = Taken(c)
  BY AskedStays DEF Unseen, Taken
<1>2. fd \in Clients
  BY DEF ExchangeInv, FlagsInv
<1>3. StreamInv'
  BY <1>1 DEF OrderInv, StreamInv
<1>5. UpInv'
  BY <1>1, <1>2 DEF OrderInv, UpInv, UpAt, IsUpload
<1>6. DownInv'
  BY DEF OrderInv, DownInv
<1> QED
  BY <1>3, <1>5, <1>6 DEF OrderInv

\* A line is read from the client.
LEMMA LineReads ==
  ASSUME ExchangeInv, StreamInv, NEW old \in Texts, NEW r, r = FromClient(old), Left(r), UNCHANGED <<asked, sent, fd>>
  PROVE  /\ StreamInv' /\ Onward /\ r.lines \subseteq Texts
         /\ \A l \in r.lines : l = old \/ LineOf(l, {fd}, Items(fd), Taken(fd)')
<1>1. /\ fd \in Clients /\ ClientStreams /\ rio \in Seq(ItemsBy({fd})) /\ inbox[fd] \in Seq(ItemsBy({fd})) /\ sent[fd] \in Nat
      /\ Len(Items(fd)) \in Nat /\ DOMAIN Items(fd) = 1 .. Len(Items(fd))
  BY ServedStreams, UnseenIs
<1>2. Leftover(rio \o inbox[fd], Items(fd), sent[fd])
  BY <1>1 DEF StreamInv, Unseen
<1>3. PICK rest : rest = r.left.rio \o r.left.inbox
  OBVIOUS
<1>4. r = ReadLine(rio, inbox[fd], ended[fd], old)
  BY DEF FromClient
<1>5. /\ Leftover(rest, Items(fd), sent[fd]) /\ Len(rest) <= Len(rio \o inbox[fd])
      /\ \A l \in r.lines : l = old \/ LineOf(l, {fd}, Items(fd), sent[fd] - Len(rest))
  <2>1. PICK eof : eof = ended[fd]
    OBVIOUS
  <2>2. PICK buffer : buffer = rio
    OBVIOUS
  <2>3. PICK socket : socket = inbox[fd]
    OBVIOUS
  <2>4. PICK t : t = Items(fd)
    OBVIOUS
  <2>5. PICK n : n = sent[fd]
    OBVIOUS
  <2>6. /\ buffer \in Seq(ItemsBy({fd})) /\ socket \in Seq(ItemsBy({fd})) /\ Leftover(buffer \o socket, t, n)
        /\ Len(t) \in Nat /\ DOMAIN t = 1 .. Len(t) /\ n \in Nat /\ r = ReadLine(buffer, socket, eof, old)
    BY <1>1, <1>2, <1>4, <2>1, <2>2, <2>3, <2>4, <2>5
  <2>7. LineGot(r, buffer \o socket, old, {fd}, t, n)
    BY <2>6, LineFrom
  <2> QED
    BY <1>3, <2>2, <2>3, <2>4, <2>5, <2>7 DEF LineGot
<1>6. LeavesClient(r) /\ r.lines \subseteq Texts
  BY <1>1, ClientLine
<1>7. Len(rest) \in Nat
  <2>1. r.left.rio \in Seq(ItemsBy({fd})) /\ r.left.inbox \in Seq(ItemsBy({fd}))
    BY <1>1, <1>6, ClientsTexts DEF LeavesClient
  <2> QED
    BY <1>3, <2>1, ConcatProperties, LenProperties
<1>8. StreamInv' /\ Onward /\ Taken(fd)' = sent[fd] - Len(rest)
  BY <1>3, <1>5, <1>7, StreamsRead DEF Stream
<1> QED
  BY <1>5, <1>6, <1>8

\* A line is processed that has just been read, or once more.
LEMMA UpLine ==
  ASSUME ExchangeInv, OrderInv, Onward, UNCHANGED <<asked, fd>>, pc = "header" \/ IsUpload,
         line' = line \/ LineOf(line', {fd}, Items(fd), Taken(fd)'), line' \in Texts,
         NEW u \in Seq(Messages), u = <<line'>> \/ \A i \in 1 .. Len(u) : ~IsOf(u[i], fd),
         toServer' = toServer \o u
  PROVE  UpInv'
<1>1. /\ fd \in Clients /\ toServer \in Seq(Messages) /\ Items(fd)' = Items(fd)
      /\ DOMAIN Items(fd) = 1 .. Len(Items(fd)) /\ Len(Items(fd)) \in Nat
  <2>1. fd \in Clients /\ toServer \in Seq(Messages)
    BY DEF ExchangeInv, FlagsInv, ServerStreams
  <2> QED
    BY <2>1, UnseenIs, AskedStays
<1> SUFFICES ASSUME ~IsTorn(Items(fd)) PROVE \E m \in Nat : UpAt(m)'
  BY <1>1 DEF UpInv
<1>2. PICK m \in Nat : UpAt(m)
  BY DEF OrderInv, UpInv
<1>3. /\ Carries(toServer, fd, Items(fd), 0, m) /\ m <= Taken(fd) /\ Taken(fd) <= Taken(fd)' /\ Taken(fd) \in Nat /\ Taken(fd)' \in Nat
      /\ Taken(fd) <= Len(Items(fd))
      /\ IsOf(line, fd) => m # 0 /\ line = Items(fd)[m]
  BY <1>1, <1>2, TakenIs DEF UpAt, Onward, OrderInv
<1>4. ASSUME NEW n \in Nat, m <= n, IsOf(line', fd) => n \in 1 .. Len(Items(fd)) /\ line' = Items(fd)[n]
      PROVE  Carries(toServer', fd, Items(fd), 0, n)
  <2>1. Carries(u, fd, Items(fd), n, n)
    <3>1. CASE u = <<line'>>
      BY <1>4, <3>1, CarriesOne
    <3>2. CASE \A i \in 1 .. Len(u) : ~IsOf(u[i], fd)
      BY <3>2, CarriesNone
    <3> QED
      BY <3>1, <3>2
  <2>2. Carries(toServer, fd, Items(fd), 0, n)
    BY <1>3, <1>4, CarriesWiden
  <2> QED
    BY <1>1, <2>1, <2>2, CarriesJoin
<1>5. CASE line' = line
  <2>1. IsOf(line', fd) => m \in 1 .. Len(Items(fd)) /\ line' = Items(fd)[m]
    BY <1>1, <1>3, <1>5
  <2>2. Carries(toServer', fd, Items(fd), 0, m)
    BY <1>4, <2>1
  <2>3. UpAt(m)'
    BY <1>1, <1>3, <1>5, <2>2 DEF UpAt
  <2> QED
    BY <2>3
<1>6. CASE LineOf(line', {fd}, Items(fd), Taken(fd)')
  <2>1. PICK n \in Nat : n = Taken(fd)'
    BY <1>3
  <2>2. IsOf(line', fd) => n \in 1 .. Len(Items(fd)) /\ line' = Items(fd)[n]
    BY <1>6, <2>1 DEF LineOf, IsOf
  <2>3. m <= n
    BY <1>1, <1>3, <2>1
  <2>4. Carries(toServer', fd, Items(fd), 0, n)
    BY <1>4, <2>2, <2>3
  <2>5. n # 0 \/ ~IsOf(line', fd)
    BY <2>2
  <2>6. UpAt(n)'
    BY <1>1, <2>1, <2>2, <2>4, <2>5 DEF UpAt
  <2> QED
    BY <2>6
<1> QED
  BY <1>5, <1>6

\* What the proxy tells its client.
LEMMA ToldIs ==
  ASSUME ExchangeInv
  PROVE  /\ \A k \in {"400", "404", "501", "200"} : Proxy(<<k>>) = <<<<k, "proxy">>>> /\ Proxy(<<k>>) \in Seq(Told)
         /\ Seq(Texts) \subseteq Seq(Told)
<1>1. Seq(Texts) \subseteq Seq(Told)
  BY SeqMonotonic DEF Told
<1>2. ASSUME NEW k \in {"400", "404", "501", "200"} PROVE Proxy(<<k>>) = <<<<k, "proxy">>>> /\ Proxy(<<k>>) \in Seq(Told)
  <2>1. <<k, "proxy">> \in Told
    BY NoLineIs DEF Told
  <2>2. DOMAIN <<k>> = 1 .. 1 /\ <<k>>[1] = k
    OBVIOUS
  <2>3. Proxy(<<k>>) = [i \in 1 .. 1 |-> <<<<k>>[i], "proxy">>]
    BY <2>2 DEF Proxy, By
  <2>4. \A i \in 1 .. 1 : <<<<k>>[i], "proxy">> = <<k, "proxy">>
    OBVIOUS
  <2>5. Proxy(<<k>>) = [i \in 1 .. 1 |-> <<k, "proxy">>]
    BY <2>3, <2>4
  <2>6. <<<<k, "proxy">>>> = [i \in 1 .. 1 |-> <<k, "proxy">>]
    OBVIOUS
  <2> QED
    BY <2>1, <2>5, <2>6, SingleIn
<1> QED
  BY <1>1, <1>2

\* The steps that write nothing, or words of the proxy.
LEMMA NothingSaid ==
  ASSUME ExchangeInv
  PROVE  <<>> \in Seq(Messages) /\ <<>> \in Seq(Told) /\ \A i \in 1 .. Len(<<>>) : \A who : ~IsOf(<<>>[i], who)
BY EmptySeq

\* The steps that only move on.
LEMMA QuietOrder ==
  ASSUME ExchangeInv, OrderInv,
         OpenFails \/ NotImplemented \/ StartConnect \/ RequestCut \/ NoRequestBody \/ ChunkSpins
           \/ ReplyCut \/ NoReplyBody \/ Finish \/ \E d \in Directions : StartChunked(d)
  PROVE  OrderInv'
<1>1. Quiet
  BY DEF OpenFails, NotImplemented, StartConnect, RequestCut, NoRequestBody, ChunkSpins, ReplyCut, NoReplyBody,
         Finish, StartChunked, Quiet, clientVars, residueVars, serverVars, ChunkVars
<1>2. pc' # "header" /\ (IsUpload' => line' = NoLine)
  BY AfterIs DEF OpenFails, NotImplemented, StartConnect, RequestCut, NoRequestBody, ChunkSpins, ReplyCut, NoReplyBody,
                 Finish, StartChunked, IsUpload, Chunking
<1>3. pc' = "header" \/ IsUpload' => ~IsOf(line', fd)
  BY <1>2 DEF IsOf, NoLine
<1>4. PICK v \in Seq(Told) : (\A i \in 1 .. Len(v) : ~IsOf(v[i], "server")) /\ Goes(v)
  <2>1. DownInv
    BY DEF OrderInv
  <2>2. CASE OpenFails \/ NotImplemented \/ NoReplyBody
    <3>1. PICK k \in {"400", "404", "501", "200"} : WriteClient(Proxy(<<k>>))
      BY <2>2 DEF OpenFails, NotImplemented, NoReplyBody
    <3>2. PICK v : v = Proxy(<<k>>)
      OBVIOUS
    <3>3. v = <<<<k, "proxy">>>> /\ v \in Seq(Told)
      BY <3>2, ToldIs
    <3>4. \A i \in 1 .. Len(v) : ~IsOf(v[i], "server")
      BY <3>3 DEF IsOf
    <3>5. Goes(v)
      BY <2>1, <3>1, <3>2, <3>3, GoesIs
    <3> QED
      BY <3>3, <3>4, <3>5
  <2>3. CASE toClient' = toClient
    BY <2>1, <2>3, NothingSaid, GoesIs
  <2> QED
    BY <2>2, <2>3 DEF StartConnect, RequestCut, NoRequestBody, ChunkSpins, ReplyCut, Finish, StartChunked
<1>5. PICK u \in Seq(Messages) : /\ \A i \in 1 .. Len(u) : ~IsOf(u[i], fd)
                                /\ toServer' \in {toServer, toServer \o u}
  <2>1. CASE NoRequestBody
    <3>1. toServer' = Append(toServer, Refusal) /\ toServer \in Seq(Messages) /\ Refusal \in Messages
      BY <2>1 DEF NoRequestBody, Refusal, Messages, ExchangeInv, ServerStreams
    <3>2. PICK u \in Seq(Messages) : u = <<Refusal>>
      BY <3>1, SingleIn
    <3>3. toServer' = toServer \o u
      BY <3>1, <3>2, AppendIsConcat
    <3>4. ~IsOf(Refusal, fd)
      BY OwnWords DEF Refusal
    <3>5. \A i \in 1 .. Len(u) : ~IsOf(u[i], fd)
      BY <3>2, <3>4
    <3> QED
      BY <3>3, <3>5
  <2>2. CASE toServer' = toServer
    BY <2>2, NothingSaid
  <2> QED
    BY <2>1, <2>2 DEF OpenFails, NotImplemented, StartConnect, RequestCut, ChunkSpins, ReplyCut, NoReplyBody,
                      Finish, StartChunked, serverVars
<1> QED
  BY <1>1, <1>3, <1>4, <1>5, OrderQuiet

\* A step that writes nothing to the server, after which no line of its
\* request is read any more or yet.
LEMMA UpSilent ==
  ASSUME ExchangeInv, OrderInv, Onward, UNCHANGED <<asked, fd, toServer>>, pc' \notin {"header"} \cup Chunking
  PROVE  UpInv'
<1>1. pc' = "header" \/ IsUpload' => FALSE
  BY DEF IsUpload
<1> QED
  BY <1>1, NothingSaid, UpKept DEF OrderInv

\* The request line.
LEMMA ReadRequestOrder ==
  ASSUME ExchangeInv, OrderInv, ReadRequest \/ SkipHeader
  PROVE  OrderInv'
<1> DEFINE r == FromClient(buf)
<1>1. /\ Left(r) /\ pc' \in {"open", "return", "tunnel", "connect"}
      /\ UNCHANGED <<asked, sent, fd, toServer, answer, reply>>
      /\ UNCHANGED toClient \/ WriteClient(Proxy(<<"400">>))
  BY DEF ReadRequest, SkipHeader, clientVars, serverVars
<1>2. buf \in Texts
  BY DEF ExchangeInv, Buffers
<1>3. StreamInv' /\ Onward
  BY <1>1, <1>2, LineReads DEF OrderInv
<1> HIDE DEF r
<1>4. UpInv'
  BY <1>1, <1>3, UpSilent DEF Chunking
<1>5. DownInv'
  <2>1. PICK v \in Seq(Told) : v = Proxy(<<"400">>) /\ v = <<<<"400", "proxy">>>>
    BY ToldIs
  <2>2. \A i \in 1 .. Len(v) : ~IsOf(v[i], "server")
    BY <2>1 DEF IsOf
  <2>3. DownInv
    BY DEF OrderInv
  <2>4. CASE UNCHANGED toClient
    BY <1>1, <2>3, <2>4, NothingSaid, GoesIs, DownKept
  <2>5. CASE WriteClient(v)
    <3>1. Goes(v)
      BY <2>3, <2>5, GoesIs
    <3> QED
      BY <1>1, <2>2, <2>3, <3>1, DownKept
  <2> QED
    BY <1>1, <2>1, <2>4, <2>5
<1> QED
  BY <1>3, <1>4, <1>5 DEF OrderInv

\* The answer to a CONNECT is the proxy's.
LEMMA StartTunnelOrder ==
  ASSUME ExchangeInv, OrderInv, StartTunnel
  PROVE  OrderInv'
<1>1. /\ buf' = <<"200", "proxy">> /\ WriteClient(<<buf'>>) /\ rio' = <<>> /\ pc' = "return"
      /\ UNCHANGED <<asked, sent, inbox, fd, toServer, answer, reply>>
  BY DEF StartTunnel, clientVars, serverVars
<1>2. StreamInv' /\ Onward
  BY <1>1, StreamsLost DEF OrderInv
<1>3. UpInv'
  BY <1>1, <1>2, UpSilent DEF Chunking
<1>4. DownInv'
  <2>1. PICK v \in Seq(Told) : v = <<buf'>> /\ v = <<<<"200", "proxy">>>>
    BY <1>1, ToldIs
  <2>2. \A i \in 1 .. Len(v) : ~IsOf(v[i], "server")
    BY <2>1 DEF IsOf
  <2>3. DownInv
    BY DEF OrderInv
  <2>4. Goes(v)
    BY <1>1, <2>1, <2>3, GoesIs
  <2> QED
    BY <1>1, <2>2, <2>3, <2>4, DownKept
<1> QED
  BY <1>2, <1>3, <1>4 DEF OrderInv

\* What a server is sent first are lines of the proxy.
LEMMA OpenServerOrder ==
  ASSUME ExchangeInv, ReplyInv, OrderInv, OpenServer
  PROVE  OrderInv'
<1>1. /\ pc = "open" /\ line' = <<"close", "proxy">> /\ toServer' = Proxy(<<"line", "close", "close">>)
      /\ UNCHANGED <<asked, sent, inbox, rio, fd, toClient>>
      /\ answer' = reply' /\ rq.host[2] \in Clients /\ \E a \in Replies[rq.host[2]] : answer' = By("server", a)
  BY DEF OpenServer, clientVars, residueVars
<1>2. StreamInv' /\ Onward
  BY <1>1, StreamsQuiet DEF OrderInv
<1>4. UpInv'
  <2>1. fd \in Clients /\ fd' = fd /\ Items(fd)' = Items(fd)
    BY <1>1, AskedStays DEF ExchangeInv, FlagsInv
  <2>2. PICK u \in Seq(Texts) : u = Proxy(<<"line", "close", "close">>)
    BY OpeningLines
  <2>3. DOMAIN u = 1 .. Len(u)
    BY <2>2, LenProperties
  <2>4. \A i \in 1 .. Len(u) : ~IsOf(u[i], fd)
    BY <2>2, <2>3, OwnWords
  <2>5. Carries(toServer', fd, Items(fd), 0, 0)
    BY <1>1, <2>2, <2>4, CarriesNone
  <2>6. Taken(fd)' \in Nat
    BY <1>2, <2>1 DEF Onward
  <2>7. ~IsOf(line', fd)
    BY <1>1, OwnWords
  <2>8. UpAt(0)'
    BY <2>1, <2>5, <2>6, <2>7 DEF UpAt
  <2> QED
    BY <2>8 DEF UpInv
<1>5. DownInv'
  <2>1. toClient' = <<>>
    BY <1>1 DEF ReplyInv
  <2>2. PICK a \in Seq(Spoken) : answer' = By("server", a)
    BY <1>1, ExchangeAssumption, SaidIsSpoken
  <2>3. answer' \in Seq(Spoken \X {"server"})
    BY <2>2, ByIs
  <2>4. PICK t : t = answer'
    OBVIOUS
  <2>5. Len(t) \in Nat /\ Len(t) - Len(t) = 0 /\ t[1] = t[1]
    BY <2>3, <2>4, LenProperties
  <2>6. Leftover(t, t, Len(t))
    BY <2>5 DEF Leftover
  <2>7. Carries(<<>>, "server", t, 0, 0) /\ <<>> \in Seq(Told)
    BY EmptySeq, CarriesNone
  <2> QED
    BY <1>1, <2>1, <2>4, <2>5, <2>6, <2>7 DEF DownInv
<1> QED
  BY <1>2, <1>4, <1>5 DEF OrderInv

\* A step that reads from the client and writes nothing to it.
LEMMA DownStays ==
  ASSUME DownInv, UNCHANGED <<answer, reply, toClient>>
  PROVE  DownInv'
BY DEF DownInv

\* The request header: a line is read and sent on, and so is the one that is repeated.
LEMMA RequestHeaderOrder ==
  ASSUME ExchangeInv, OrderInv, RequestHeader
  PROVE  OrderInv'
<1> DEFINE r == FromClient(line)
<1>1. PICK l \in r.lines : line' = l /\ toServer' = toServer \o Forwarded(l)
  BY DEF RequestHeader
<1>2. pc = "header" /\ Left(r) /\ UNCHANGED <<asked, sent, fd, answer, reply, toClient>>
  BY DEF RequestHeader, clientVars
<1>3. line \in Texts
  BY DEF ExchangeInv, Buffers
<1>4. StreamInv' /\ Onward /\ l \in Texts /\ (l = line \/ LineOf(l, {fd}, Items(fd), Taken(fd)'))
  BY <1>1, <1>2, <1>3, LineReads DEF OrderInv
<1> HIDE DEF r
<1>6. PICK u \in Seq(Messages) : u = Forwarded(l)
  <2>1. toServer \in Seq(Messages)
    BY DEF ExchangeInv, ServerStreams
  <2> QED
    BY <1>4, <2>1, ForwardedIs, AppendedIs
<1>7. u = <<l>> \/ \A i \in 1 .. Len(u) : ~IsOf(u[i], fd)
  <2>1. u \in {<<>>, <<l>>, Proxy(<<"host", "host">>)}
    BY <1>6 DEF Forwarded
  <2>2. CASE u = Proxy(<<"host", "host">>)
    <3>1. DOMAIN u = 1 .. Len(u)
      BY LenProperties
    <3> QED
      BY <2>2, <3>1, OwnWords
  <2> QED
    BY <2>1, <2>2, NothingSaid
<1>8. UpInv'
  BY <1>1, <1>2, <1>4, <1>6, <1>7, UpLine
<1>9. DownInv'
  BY <1>2, DownStays DEF OrderInv
<1> QED
  BY <1>4, <1>8, <1>9 DEF OrderInv

\* Bytes are read from the client.
LEMMA BytesReads ==
  ASSUME ExchangeInv, StreamInv, NEW r, DataOf(r, Stream, Items(fd), sent[fd]),
         LeavesClient(r), Left(r), UNCHANGED <<asked, sent, fd>>
  PROVE  /\ StreamInv' /\ Onward
         /\ Carries(r.data, fd, Items(fd), Taken(fd), Taken(fd)')
<1>1. fd \in Clients /\ ClientStreams /\ Unseen(fd) = Stream
  BY ServedStreams DEF Unseen, Stream
<1>2. PICK rest : rest = r.left.rio \o r.left.inbox
  OBVIOUS
<1>3. Len(rest) \in Nat
  <2>1. r.left.rio \in Seq(ItemsBy({fd})) /\ r.left.inbox \in Seq(ItemsBy({fd}))
    BY <1>1, ClientsTexts DEF LeavesClient
  <2> QED
    BY <1>2, <2>1, ConcatProperties, LenProperties
<1>4. /\ Leftover(rest, Items(fd), sent[fd]) /\ Len(rest) <= Len(Stream)
      /\ Carries(r.data, fd, Items(fd), sent[fd] - Len(Stream), sent[fd] - Len(rest))
  BY <1>2 DEF DataOf
<1>5. StreamInv' /\ Onward /\ Taken(fd)' = sent[fd] - Len(rest)
  BY <1>2, <1>3, <1>4, StreamsRead
<1>6. Taken(fd) = sent[fd] - Len(Stream)
  BY <1>1 DEF Taken
<1> QED
  BY <1>4, <1>5, <1>6

\* What is filled in is the proxy's own.
LEMMA PaddedOrder ==
  ASSUME ExchangeInv, NEW who \in {fd, "server"}, NEW t, NEW m \in Nat, NEW n \in Nat,
         NEW data \in Seq(Texts), Carries(data, who, t, m, n), NEW k \in Nat
  PROVE  Carries(Padded(data, k), who, t, m, n)
<1> DEFINE garbage == [i \in 1 .. k - Len(data) |-> "garbage"]
<1>1. PICK more : more = Proxy(garbage)
  OBVIOUS
<1>2. more \in Seq(Texts)
  BY <1>1, GarbageIs, LenProperties
<1>3. DOMAIN more = 1 .. Len(more)
  BY <1>2, LenProperties
<1> HIDE DEF garbage
<1>4. \A i \in 1 .. Len(more) : ~IsOf(more[i], who)
  BY <1>1, <1>3, OwnWords
<1>5. Carries(more, who, t, n, n)
  BY <1>4, CarriesNone
<1>6. Carries(data \o more, who, t, m, n)
  BY <1>2, <1>5, CarriesJoin
<1> QED
  BY <1>1, <1>6 DEF Padded, garbage

\* The body of a request.
LEMMA RequestBodyOrder ==
  ASSUME ExchangeInv, OrderInv, RequestBody
  PROVE  OrderInv'
<1> DEFINE r == ReadBytes(rio, inbox[fd], ended[fd], length)
<1>1. /\ length >= 0 /\ Left(r) /\ toServer' = toServer \o Padded(r.data, length) /\ pc' = AfterRequest
      /\ UNCHANGED <<asked, sent, fd, answer, reply, toClient>>
  BY DEF RequestBody, clientVars
<1>2. /\ fd \in Clients /\ ClientStreams /\ rio \in Seq(ItemsBy({fd})) /\ inbox[fd] \in Seq(ItemsBy({fd}))
      /\ sent[fd] \in Nat /\ Len(Items(fd)) \in Nat /\ length \in Nat
      /\ Seq(ItemsBy({fd})) \subseteq Seq(Texts) /\ toServer \in Seq(Messages)
  <2>1. /\ fd \in Clients /\ ClientStreams /\ rio \in Seq(ItemsBy({fd})) /\ inbox[fd] \in Seq(ItemsBy({fd}))
        /\ sent[fd] \in Nat
    BY ServedStreams
  <2>2. Seq(ItemsBy({fd})) \subseteq Seq(Texts) /\ Len(Items(fd)) \in Nat
    BY <2>1, UnseenIs, ClientsTexts
  <2>3. length \in Nat /\ toServer \in Seq(Messages)
    BY <1>1 DEF ExchangeInv, FlagsInv, ServerStreams
  <2> QED
    BY <2>1, <2>2, <2>3
<1>3. Leftover(rio \o inbox[fd], Items(fd), sent[fd])
  BY <1>2 DEF OrderInv, StreamInv, Unseen
<1>4. /\ r.data \in Seq(ItemsBy({fd}))
      /\ \E m \in 0 .. Len(rio \o inbox[fd]) : r.left = Consume(rio, inbox[fd], m)
  <2>1. BytesRead(ItemsBy({fd}), rio, inbox[fd], ended[fd], r)
    BY <1>2, ReadBytesIs, Zenon
  <2> QED
    BY <2>1, Zenon DEF BytesRead
<1>5. DataOf(r, Stream, Items(fd), sent[fd])
  <2>1. PICK eof : eof = ended[fd]
    OBVIOUS
  <2>2. PICK s : s = inbox[fd]
    OBVIOUS
  <2>3. PICK t : t = Items(fd)
    OBVIOUS
  <2>4. PICK n : n = sent[fd]
    OBVIOUS
  <2>5. r = ReadBytes(rio, s, eof, length)
    BY <2>1, <2>2
  <2> HIDE DEF r
  <2>6. DataOf(r, rio \o s, t, n)
    BY <1>2, <1>3, <2>2, <2>3, <2>4, <2>5, BytesFrom
  <2> QED
    BY <2>2, <2>3, <2>4, <2>6 DEF Stream
<1> HIDE DEF r
<1>6. LeavesClient(r)
  BY <1>2, <1>4, ClientRead
<1>7. StreamInv' /\ Onward /\ Carries(r.data, fd, Items(fd), Taken(fd), Taken(fd)')
  BY <1>1, <1>5, <1>6, BytesReads DEF OrderInv
<1>9. UpInv'
  <2>1. PICK u : u = Padded(r.data, length)
    OBVIOUS
  <2>2. r.data \in Seq(Texts)
    BY <1>2, <1>4
  <2>3. u \in Seq(Messages)
    BY <1>2, <2>1, <2>2, PaddedIs, AppendedIs
  <2>4. PICK m \in Nat : m = Taken(fd)
    BY <1>2, TakenIs DEF OrderInv
  <2>5. PICK n \in Nat : n = Taken(fd)'
    BY <1>1, <1>2, <1>7 DEF Onward
  <2>6. Carries(u, fd, Items(fd), m, n)
    BY <1>2, <1>7, <2>1, <2>2, <2>4, <2>5, PaddedOrder
  <2>7. pc' = "header" \/ IsUpload' => FALSE
    BY <1>1, AfterIs DEF IsUpload, Chunking
  <2> QED
    BY <1>1, <1>7, <2>1, <2>3, <2>4, <2>5, <2>6, <2>7, UpFurther DEF OrderInv
<1>10. DownInv'
  BY <1>1, DownStays DEF OrderInv
<1> QED
  BY <1>7, <1>9, <1>10 DEF OrderInv

\* A step that reads from the server.
LEMMA UpStays ==
  ASSUME ExchangeInv, OrderInv, UNCHANGED <<asked, sent, inbox, rio, fd, toServer>>,
         pc' # "header" /\ ~IsUpload'
  PROVE  StreamInv' /\ UpInv'
<1>1. StreamInv' /\ Onward
  BY StreamsQuiet DEF OrderInv
<1>2. UpInv'
  BY <1>1, NothingSaid, UpKept DEF OrderInv
<1> QED
  BY <1>1, <1>2

\* What is left of an answer.
LEMMA ServerStreamIs ==
  ASSUME ExchangeInv, DownInv
  PROVE  /\ reply \in Seq(Texts) /\ reply \o <<>> = reply /\ Len(reply) \in Nat /\ Len(reply) <= Len(answer)
         /\ answer \in Seq(Texts) /\ Len(answer) \in Nat /\ DOMAIN answer = 1 .. Len(answer)
         /\ Len(answer) - Len(reply) \in Nat
<1>1. /\ reply \in Seq(Texts) /\ Len(reply) \in Nat /\ Len(reply) <= Len(answer)
      /\ answer \in Seq(Texts) /\ Len(answer) \in Nat /\ DOMAIN answer = 1 .. Len(answer)
  BY LenProperties DEF ExchangeInv, ServerStreams, DownInv, Leftover
<1>2. reply \o <<>> = reply
  BY <1>1, ConcatEmptySeq
<1>3. Len(answer) - Len(reply) \in Nat
  BY <1>1
<1> QED
  BY <1>1, <1>2, <1>3

\* What a read from the server leaves is in the buffer.
LEMMA ServerLeft ==
  ASSUME ExchangeInv, DownInv, NEW n \in 0 .. Len(reply \o <<>>), NEW r, r.left = Consume(reply, <<>>, n)
  PROVE  r.left.inbox = <<>> /\ r.left.rio \in Seq(Texts) /\ r.left.rio \o r.left.inbox = r.left.rio
<1>1. r.left.inbox = <<>>
  BY DEF Consume
<1>2. LeavesServer(r)
  BY ServerRead DEF ExchangeInv
<1>3. r.left.rio \in Seq(Texts)
  BY <1>2 DEF LeavesServer
<1> QED
  BY <1>1, <1>3, ConcatEmptySeq

\* A line is read from the server, and sent on if there was one.
LEMMA DownLine ==
  ASSUME ExchangeInv, DownInv, NEW old \in Texts, NEW r, r = FromServer(old), reply' = r.left.rio, UNCHANGED answer,
         NEW items \in Seq(Told), Goes(items),
         \/ \A i \in 1 .. Len(items) : ~IsOf(items[i], "server")
         \/ /\ line' \in r.lines /\ line' \in Texts /\ (r.ret > 0 \/ ~IsOf(old, "server"))
            /\ \E v \in Seq(Told) : items = <<line'>> \o v /\ \A i \in 1 .. Len(v) : ~IsOf(v[i], "server")
  PROVE  DownInv'
<1> DEFINE Whose == Clients \cup {"proxy", "server", "nobody"}
           nothing == <<>>
           eof == ~broken
<1>1. PICK rest : rest = reply'
  OBVIOUS
<1>2. PICK t : t = answer
  OBVIOUS
<1>3. PICK n : n = Len(answer)
  OBVIOUS
<1>4. /\ reply \in Seq(ItemsBy(Whose)) /\ nothing \in Seq(ItemsBy(Whose))
      /\ Len(t) \in Nat /\ DOMAIN t = 1 .. Len(t) /\ n \in Nat
  BY <1>2, <1>3, ServerStreamIs, EmptySeq DEF Texts
<1>5. reply \o nothing = reply /\ Leftover(reply, t, n) /\ Len(reply) \in Nat
  BY <1>2, <1>3, ServerStreamIs DEF DownInv
<1>6. r = ReadLine(reply, nothing, eof, old)
  BY DEF FromServer
<1> HIDE DEF Whose, nothing, eof
<1>7. rest = r.left.rio \o r.left.inbox /\ Len(rest) \in Nat
  <2>1. \E k \in 0 .. Len(reply \o nothing) : r.left = Consume(reply, nothing, k)
    <3>1. old \in ItemsBy(Whose) /\ Whose \subseteq Whose
      BY DEF Texts, Whose
    <3> QED
      BY <1>4, <1>6, <3>1, ReadLineIs
  <2>2. r.left.rio \in Seq(Texts) /\ r.left.rio \o r.left.inbox = r.left.rio
    BY <2>1, ServerLeft DEF nothing
  <2> QED
    BY <1>1, <2>2, LenProperties
<1>8. LineGot(r, reply \o nothing, old, Whose, t, n)
  BY <1>4, <1>5, <1>6, LineFrom
<1>9. /\ Leftover(rest, t, n) /\ Len(rest) <= Len(reply)
      /\ \A l \in r.lines : l = old \/ LineOf(l, Whose, t, n - Len(rest))
      /\ r.ret > 0 => \A l \in r.lines : LineOf(l, Whose, t, n - Len(rest))
  BY <1>5, <1>7, <1>8 DEF LineGot
<1>10. PICK m \in Nat : m = n - Len(rest)
  <2>1. Len(rest) <= n
    BY <1>9 DEF Leftover
  <2>a. Len(rest) <= Len(rest)
    BY <1>7
  <2>2. TakesMore(n, Len(rest), Len(rest))
    BY <1>4, <1>7, <2>1, <2>a, TakesMoreIs
  <2> QED
    BY <2>2 DEF TakesMore
<1>11. PICK k \in Nat : k = n - Len(reply) /\ k <= m
  <2>1. Len(reply) <= n /\ Len(rest) <= n /\ Len(reply) <= Len(reply)
    BY <1>5, <1>9 DEF Leftover
  <2>2. TakesMore(n, Len(rest), Len(reply)) /\ TakesMore(n, Len(reply), Len(reply))
    BY <1>4, <1>5, <1>7, <1>9, <2>1, TakesMoreIs
  <2> QED
    BY <1>10, <2>2 DEF TakesMore
<1>12. IsTorn(t) \/ Carries(items, "server", t, m, m)
  <2>1. CASE \A i \in 1 .. Len(items) : ~IsOf(items[i], "server")
    BY <2>1, CarriesNone
  <2>2. ASSUME line' \in r.lines, line' \in Texts, r.ret > 0 \/ ~IsOf(old, "server"),
               NEW v \in Seq(Told), items = <<line'>> \o v,
               \A i \in 1 .. Len(v) : ~IsOf(v[i], "server"), ~IsTorn(t)
        PROVE  Carries(items, "server", t, m, m)
    <3>1. LineOf(line', Whose, t, m) \/ (line' = old /\ ~IsOf(old, "server"))
      BY <1>9, <1>10, <2>2
    <3>2. IsOf(line', "server") => m \in 1 .. Len(t) /\ line' = t[m]
      BY <2>2, <3>1 DEF LineOf, IsOf
    <3>3. Carries(<<line'>>, "server", t, m, m)
      BY <3>2, CarriesOne
    <3>4. Carries(v, "server", t, m, m)
      BY <2>2, CarriesNone
    <3>5. <<line'>> \in Seq(Told)
      BY <2>2, SingleIn DEF Told
    <3> QED
      BY <2>2, <3>3, <3>4, <3>5, CarriesJoin
  <2> QED
    BY <2>1, <2>2
<1>13. IsTorn(t) \/ Carries(items, "server", t, k, m)
  BY <1>10, <1>11, <1>12, CarriesWiden
<1> QED
  BY <1>1, <1>2, <1>3, <1>7, <1>9, <1>10, <1>11, <1>13, DownFurther

\* Bytes are read from the server.
LEMMA DownBytes ==
  ASSUME ExchangeInv, DownInv, NEW r, r.left.rio \o r.left.inbox = r.left.rio, r.left.rio \in Seq(Texts),
         DataOf(r, reply, answer, Len(answer)),
         reply' = r.left.rio, UNCHANGED answer, NEW u \in Seq(Told), Goes(u),
         \A m \in Nat, n \in Nat : Carries(r.data, "server", answer, m, n) => Carries(u, "server", answer, m, n)
  PROVE  DownInv'
<1>1. /\ Leftover(reply', answer, Len(answer)) /\ Len(reply') <= Len(reply) /\ Len(reply') \in Nat
      /\ Carries(r.data, "server", answer, Len(answer) - Len(reply), Len(answer) - Len(reply'))
  BY LenProperties DEF DataOf
<1>2. Len(answer) - Len(reply) \in Nat /\ Len(reply') <= Len(answer) /\ Len(answer) \in Nat /\ Len(reply) \in Nat
  BY <1>1, ServerStreamIs DEF Leftover
<1>3. TakesMore(Len(answer), Len(reply'), Len(reply))
  BY <1>1, <1>2, TakesMoreIs
<1>4. Carries(u, "server", answer, Len(answer) - Len(reply), Len(answer) - Len(reply'))
  BY <1>1, <1>2, <1>3 DEF TakesMore
<1> QED
  BY <1>1, <1>4, DownFurther

\* The body of an answer.
LEMMA ReplyBodyOrder ==
  ASSUME ExchangeInv, OrderInv, ReplyBody
  PROVE  OrderInv'
<1> DEFINE nothing == <<>>
           eof == ~broken
           r == ReadBytes(reply, nothing, eof, length)
<1>1. /\ length >= 0 /\ reply' = r.left.rio /\ WriteClient(Padded(r.data, length)) /\ pc' = "finish"
      /\ UNCHANGED <<asked, sent, inbox, rio, fd, toServer, answer>>
  BY DEF ReplyBody, Took, clientVars, residueVars
<1>2. length \in Nat /\ DownInv
  BY <1>1 DEF ExchangeInv, FlagsInv, OrderInv
<1>3. StreamInv' /\ UpInv'
  BY <1>1, UpStays DEF IsUpload, Chunking
<1>4. /\ reply \in Seq(Texts) /\ reply \o nothing = reply /\ nothing \in Seq(Texts) /\ Len(answer) \in Nat
      /\ Leftover(reply, answer, Len(answer))
  BY <1>2, ServerStreamIs, EmptySeq DEF DownInv
<1> HIDE DEF nothing, eof
<1>5. r.data \in Seq(Texts) /\ \E m \in 0 .. Len(reply \o nothing) : r.left = Consume(reply, nothing, m)
  <2>1. BytesRead(Texts, reply, nothing, eof, r)
    BY <1>2, <1>4, ReadBytesIs, Zenon
  <2> QED
    BY <2>1, Zenon DEF BytesRead
<1>6. DataOf(r, reply, answer, Len(answer))
  <2>1. PICK n : n = Len(answer)
    OBVIOUS
  <2>2. DataOf(r, reply \o nothing, answer, n)
    BY <1>2, <1>4, <2>1, BytesFrom
  <2> QED
    BY <1>4, <2>1, <2>2
<1> HIDE DEF r
<1>7. r.left.rio \in Seq(Texts) /\ r.left.rio \o r.left.inbox = r.left.rio
  BY <1>2, <1>5, ServerLeft DEF nothing
<1>8. PICK u : u = Padded(r.data, length)
  OBVIOUS
<1>9. u \in Seq(Told) /\ Goes(u)
  <2>1. u \in Seq(Told)
    BY <1>2, <1>5, <1>8, PaddedIs, ToldIs
  <2> QED
    BY <1>1, <1>2, <1>8, <2>1, GoesIs
<1>10. \A m \in Nat, n \in Nat : Carries(r.data, "server", answer, m, n) => Carries(u, "server", answer, m, n)
  BY <1>2, <1>5, <1>8, PaddedOrder
<1>11. DownInv'
  BY <1>1, <1>2, <1>6, <1>7, <1>8, <1>9, <1>10, DownBytes
<1> QED
  BY <1>3, <1>11 DEF OrderInv

\* The status line and the headers of an answer.
LEMMA ReplyLineOrder ==
  ASSUME ExchangeInv, OrderInv, ReplyStatus \/ ReplyHeader \/ ReplyReset
  PROVE  OrderInv'
<1> DEFINE nothing == <<>>
<1>1. /\ UNCHANGED <<asked, sent, inbox, rio, fd, toServer, answer>>
      /\ pc' \in {"finish", "replyheader", "replybody"}
  BY DEF ReplyStatus, ReplyHeader, ReplyReset, clientVars, residueVars
<1>2. StreamInv' /\ UpInv' /\ DownInv
  BY <1>1, UpStays DEF IsUpload, Chunking, OrderInv
<1>3. nothing \in Seq(Told) /\ (\A i \in 1 .. Len(nothing) : ~IsOf(nothing[i], "server"))
      /\ (UNCHANGED toClient => Goes(nothing)) /\ (WriteClient(nothing) => Goes(nothing))
  BY <1>2, NothingSaid, GoesIs
<1> HIDE DEF nothing
<1>4. ASSUME NEW l \in Texts
      PROVE  <<l>> = <<l>> \o nothing /\ <<l>> \in Seq(Told)
  <2>1. <<l>> \in Seq(Told)
    BY SingleIn DEF Told
  <2> QED
    BY <2>1, ConcatEmptySeq DEF nothing
<1>5. CASE ReplyStatus
  <2> DEFINE r == FromServer(NoLine)
  <2>1. NoLine \in Texts /\ ~IsOf(NoLine, "server") /\ r.lines \subseteq Texts /\ reply' = r.left.rio
    BY <1>5, NoLineIs, ServerLine DEF ReplyStatus, Took, ExchangeInv, IsOf, NoLine
  <2>2. CASE UNCHANGED toClient
    BY <1>1, <1>2, <1>3, <2>1, <2>2, DownLine DEF OrderInv
  <2>3. CASE line' \in r.lines /\ WriteEach(<<line'>> \o CloseLines)
    <3>1. PICK v : v = CloseLines
      OBVIOUS
    <3>2. v \in Seq(Texts) /\ v \in Seq(Told) /\ DOMAIN v = 1 .. Len(v)
      BY <3>1, CloseLinesAre, ToldIs, LenProperties
    <3>3. \A i \in 1 .. Len(v) : ~IsOf(v[i], "server")
      <4>1. CASE cstatus.close
        <5>1. PICK k : k = <<"close", "close">>
          OBVIOUS
        <5>2. v = Proxy(k)
          BY <3>1, <4>1, <5>1 DEF CloseLines
        <5> QED
          BY <3>2, <5>2, OwnWords
      <4>2. CASE ~cstatus.close
        <5>1. v = nothing
          BY <3>1, <4>2 DEF CloseLines, nothing
        <5> QED
          BY <1>3, <5>1
      <4> QED
        BY <4>1, <4>2
    <3>4. PICK items \in Seq(Told) : items = <<line'>> \o v
      <4>1. line' \in Texts
        BY <2>1, <2>3
      <4> QED
        BY <1>4, <3>2, <4>1, ConcatProperties
    <3>5. Goes(items)
      BY <1>2, <2>3, <3>1, <3>4, GoesIs
    <3>6. line' \in Texts
      BY <2>1, <2>3
    <3> HIDE DEF r
    <3> QED
      BY <1>1, <1>2, <2>1, <2>3, <3>2, <3>3, <3>4, <3>5, <3>6, DownLine DEF r, OrderInv
  <2> QED
    BY <1>5, <2>2, <2>3 DEF ReplyStatus
<1>6. CASE ReplyHeader \/ ReplyReset
  <2> DEFINE r == FromServer(line)
  <2>1. line \in Texts /\ r.lines \subseteq Texts /\ reply' = r.left.rio /\ line' \in r.lines
    BY <1>6, ServerLine DEF ReplyHeader, ReplyReset, Took, ExchangeInv, Buffers
  <2>2. CASE UNCHANGED toClient \/ WriteClient(nothing)
    <3>1. Goes(nothing)
      BY <1>3, <2>2
    <3> QED
      BY <1>1, <1>2, <1>3, <2>1, <3>1, DownLine DEF OrderInv
  <2>3. CASE r.ret > 0 /\ WriteClient(<<line'>>)
    <3>1. PICK items \in Seq(Told) : items = <<line'>> /\ items = <<line'>> \o nothing
      <4>1. line' \in Texts
        BY <2>1
      <4> QED
        BY <1>4, <4>1
    <3>2. Goes(items)
      BY <1>2, <2>3, <3>1, GoesIs
    <3>3. line' \in Texts
      BY <2>1
    <3> HIDE DEF r
    <3> QED
      BY <1>1, <1>2, <1>3, <2>1, <2>3, <3>1, <3>2, <3>3, DownLine DEF r, OrderInv
  <2>4. UNCHANGED toClient \/ WriteClient(nothing) \/ (r.ret > 0 /\ WriteClient(<<line'>>))
    <3>1. CASE ReplyReset
      BY <3>1 DEF ReplyReset
    <3>2. CASE ReplyHeader
      <4>1. PICK items : items = (IF Passes(line') \/ line'[1] = "blank" THEN <<line'>> ELSE <<>>)
        OBVIOUS
      <4>2. r.ret > 0 /\ WriteClient(items)
        BY <3>2, <4>1 DEF ReplyHeader
      <4> QED
        BY <4>1, <4>2 DEF nothing
    <3> QED
      BY <1>6, <3>1, <3>2
  <2> QED
    BY <2>2, <2>3, <2>4
<1> QED
  BY <1>5, <1>6

\* A response that is passed on as bytes.
LEMMA RawOrder ==
  ASSUME ExchangeInv, OrderInv, Raw
  PROVE  OrderInv'
<1> DEFINE more == reply \o Proxy(<<"garbage">>)
<1>1. /\ UNCHANGED <<asked, sent, inbox, rio, fd, toServer, answer>> /\ pc' \in {"raw", "return"}
      /\ \/ reply # <<>> /\ WriteClient(<<Head(reply)>>) /\ reply' = Tail(reply)
         \/ (WriteClient(<<>>) \/ WriteClient(more)) /\ reply' = <<>>
         \/ UNCHANGED <<reply, toClient>>
  <2>1. UNCHANGED <<asked, sent, inbox, rio, fd, toServer, answer>> /\ pc = "raw"
    BY DEF Raw, clientVars, residueVars
  <2>2. \/ reply # <<>> /\ WriteClient(<<Head(reply)>>) /\ reply' = Tail(reply) /\ UNCHANGED pc
        \/ (\E items \in {<<>>, more} : WriteClient(items)) /\ reply' = <<>> /\ UNCHANGED pc
        \/ UNCHANGED <<reply, toClient>> /\ pc' = "return"
    BY DEF Raw
  <2> HIDE DEF more
  <2> QED
    BY <2>1, <2>2
<1>2. StreamInv' /\ UpInv' /\ DownInv
  BY <1>1, UpStays DEF IsUpload, Chunking, OrderInv
<1>3. CASE UNCHANGED <<reply, toClient>>
  BY <1>1, <1>2, <1>3, DownStays DEF OrderInv
<1>4. CASE reply # <<>> /\ WriteClient(<<Head(reply)>>) /\ reply' = Tail(reply)
  <2>1. /\ reply \in Seq(Texts) /\ Len(reply) \in Nat /\ Len(reply) <= Len(answer) /\ Len(answer) \in Nat
        /\ Leftover(reply, answer, Len(answer))
    BY <1>2, ServerStreamIs DEF DownInv
  <2>2. /\ Head(reply) = reply[1] /\ Tail(reply) \in Seq(Texts) /\ Len(Tail(reply)) = Len(reply) - 1
        /\ \A i \in 1 .. Len(reply) - 1 : Tail(reply)[i] = reply[i + 1]
        /\ Len(reply) # 0
    BY <1>4, <2>1, HeadTailProperties, EmptySeq
  <2>3. PICK m \in Nat : m = Len(answer) - (Len(reply) - 1)
    <3>1. Len(answer) - (Len(reply) - 1) \in Nat
      BY <2>1
    <3> QED
      BY <3>1
  <2>4. 1 \in 1 .. Len(reply) /\ Len(answer) - Len(reply) + 1 = m /\ m \in 1 .. Len(answer)
    BY <2>1, <2>2, <2>3
  <2>5. reply[1][1] = "junk" \/ reply[1] = answer[m]
    BY <2>1, <2>4 DEF Leftover
  <2>6. reply[1] \in Texts
    BY <2>1, <2>4, ElementOfSeq
  <2>7. PICK u \in Seq(Told) : u = <<reply[1]>> /\ Goes(u)
    <3>1. PICK u \in Seq(Told) : u = <<reply[1]>>
      BY <2>6, SingleIn DEF Told
    <3>2. WriteClient(u)
      BY <1>4, <2>2, <3>1
    <3> QED
      BY <1>2, <3>1, <3>2, GoesIs
  <2>8. Carries(u, "server", answer, m, m)
    BY <2>4, <2>5, <2>7, CarriesOne DEF IsOf
  <2>9. Between(reply', reply, 1, Len(reply))
    <3>1. Len(reply') = Len(reply) - 1 /\ \A i \in 1 .. Len(reply) - 1 : reply'[i] = reply[1 + i]
      <4>1. \A i \in 1 .. Len(reply) - 1 : 1 + i = i + 1
        BY <2>1
      <4> QED
        BY <1>4, <2>2, <4>1
    <3> QED
      BY <3>1 DEF Between
  <2>10. Leftover(reply', answer, Len(answer)) /\ Len(reply') = Len(reply) - 1
    <3>1. PICK n : n = Len(answer)
      OBVIOUS
    <3>2. 1 \in 0 .. Len(reply)
      BY <2>1, <2>2
    <3>3. Leftover(reply', answer, n)
      BY <2>1, <2>9, <3>1, <3>2, LeftoverRest
    <3> QED
      BY <1>4, <2>2, <3>1, <3>3
  <2>11. PICK k \in Nat : k = Len(answer) - Len(reply) /\ k <= m
    <3>1. Len(answer) - Len(reply) \in Nat /\ Len(answer) - Len(reply) <= m
      BY <2>1, <2>2, <2>3
    <3> QED
      BY <3>1
  <2>12. Carries(u, "server", answer, k, m) /\ m = Len(answer) - Len(reply')
    BY <2>3, <2>8, <2>10, <2>11, CarriesWiden
  <2>13. Len(reply') \in Nat /\ Len(reply') <= Len(reply)
    BY <2>1, <2>2, <2>10
  <2>14. DownInv'
    BY <1>1, <1>2, <1>4, <2>2, <2>7, <2>10, <2>11, <2>12, <2>13, DownFurther
  <2> QED
    BY <1>2, <2>14 DEF OrderInv
<1>5. CASE (WriteClient(<<>>) \/ WriteClient(more)) /\ reply' = <<>>
  <2>1. /\ reply \in Seq(Texts) /\ Len(reply) \in Nat /\ Len(reply) <= Len(answer) /\ Len(answer) \in Nat
        /\ Leftover(reply, answer, Len(answer)) /\ DownInv
    BY <1>2, ServerStreamIs DEF DownInv
  <2>2. PICK n \in Nat : n = Len(answer)
    BY <2>1
  <2>3. PICK k \in Nat : k = n - Len(reply) /\ k + Len(reply) = n
    <3>1. Len(answer) - Len(reply) \in Nat /\ (Len(answer) - Len(reply)) + Len(reply) = Len(answer)
      BY <2>1
    <3> QED
      BY <2>2, <3>1
  <2>4. Carries(reply, "server", answer, k, n)
    <3>1. \A i \in 1 .. Len(reply) : reply[i][1] = "junk" \/ reply[i] = answer[k + i]
      BY <2>1, <2>2, <2>3 DEF Leftover
    <3>a. k + Len(reply) <= Len(answer)
      BY <2>1, <2>2, <2>3
    <3>b. Len(reply) \in Nat /\ Len(answer) \in Nat
      BY <2>1
    <3>2. Carries(reply, "server", answer, k, k + Len(reply))
      BY <3>a, <3>b, <3>1, CarriesPiece
    <3> QED
      BY <2>3, <3>2
  <2>5. PICK nothing \in Seq(Texts) : nothing = <<>> /\ nothing \in Seq(Told) /\ Len(nothing) = 0
    BY EmptySeq
  <2>6. PICK words \in Seq(Texts) : words = Proxy(<<"garbage">>) /\ DOMAIN words = 1 .. Len(words)
    <3>1. <<"garbage">> \in Seq(Spoken)
      BY DEF Spoken
    <3>2. Proxy(<<"garbage">>) \in Seq(Texts)
      BY <3>1, ProxyIs
    <3> QED
      BY <3>2, LenProperties
  <2>7. \A i \in 1 .. Len(words) : ~IsOf(words[i], "server")
    BY <2>6, OwnWords
  <2>8. Carries(words, "server", answer, n, n) /\ Carries(nothing, "server", answer, k, k)
    BY <2>5, <2>7, CarriesNone
  <2>9. Carries(reply \o words, "server", answer, k, n)
    BY <2>1, <2>4, <2>8, CarriesJoin
  <2>10. Carries(nothing, "server", answer, k, n)
    <3>1. k <= n
      BY <2>4 DEF Carries
    <3> QED
      BY <2>8, <3>1, CarriesWiden
  <2>11. PICK u \in Seq(Told) : Carries(u, "server", answer, k, n) /\ Goes(u)
    <3>1. reply \o words \in Seq(Texts) /\ more = reply \o words
      BY <2>1, <2>6, ConcatProperties
    <3>2. PICK u \in Seq(Told) : u = reply \o words
      BY <3>1, ToldIs
    <3>3. CASE WriteClient(<<>>)
      <4>1. WriteClient(nothing)
        BY <2>5, <3>3
      <4>2. Goes(nothing)
        BY <2>1, <2>5, <4>1, GoesIs
      <4> QED
        BY <2>5, <2>10, <4>2
    <3>4. CASE WriteClient(more)
      <4>1. WriteClient(u)
        BY <3>1, <3>2, <3>4
      <4>2. Goes(u)
        BY <2>1, <4>1, GoesIs
      <4> QED
        BY <2>9, <3>2, <4>2
    <3> QED
      BY <1>5, <3>3, <3>4
  <2>12. Leftover(reply', answer, n) /\ Len(reply') = 0
    BY <1>5, <2>2, <2>5 DEF Leftover
  <2>13. n - Len(reply') = n /\ 0 <= Len(reply) /\ Len(reply') \in Nat /\ Len(reply') <= Len(reply)
    BY <2>1, <2>12
  <2>14. DownInv'
    BY <1>1, <2>1, <2>2, <2>3, <2>11, <2>12, <2>13, DownFurther
  <2> QED
    BY <1>2, <2>14 DEF OrderInv
<1> QED
  BY <1>1, <1>3, <1>4, <1>5

\* forward_chunked() and its lines, in both directions.
LEMMA ChunkLineOrder ==
  ASSUME ExchangeInv, OrderInv, pc \in Chunking, pc' \in Chunking \cup {"aborted", AfterChunks}, UNCHANGED ChunkVars,
         NEW r, r = ChunkRead, line' \in r.lines, NEW u, Pass(r, u), u \in Seq(Texts),
         (r.ret > 0 /\ u = <<line'>>) \/ \A i \in 1 .. Len(u) : ~IsOf(u[i], fd) /\ ~IsOf(u[i], "server")
  PROVE  OrderInv'
<1> DEFINE nothing == <<>>
<1>1. UNCHANGED <<asked, sent, fd, dir, answer>>
  BY DEF ChunkVars, clientVars, residueVars
<1>2. line' \in Texts /\ u \in Seq(Told)
  BY ChunkLine, ToldIs
<1>3. u \in Seq(Messages)
  BY SeqMonotonic DEF Messages
<1>4. CASE dir = "up"
  <2>1. r = FromClient(line) /\ Left(r) /\ toServer' = toServer \o u /\ UNCHANGED <<reply, toClient>>
    BY <1>4 DEF ChunkRead, Pass
  <2>2. line \in Texts
    BY DEF ExchangeInv, Buffers
  <2>3. StreamInv' /\ Onward /\ (line' = line \/ LineOf(line', {fd}, Items(fd), Taken(fd)'))
    BY <1>1, <2>1, <2>2, LineReads DEF OrderInv
  <2>5. IsUpload
    BY <1>4 DEF IsUpload
  <2>6. UpInv'
    BY <1>1, <1>2, <1>3, <2>1, <2>3, <2>5, UpLine
  <2>7. DownInv'
    BY <1>1, <2>1, DownStays DEF OrderInv
  <2> QED
    BY <2>3, <2>6, <2>7 DEF OrderInv
<1>5. CASE dir # "up"
  <2>1. r = FromServer(line) /\ reply' = r.left.rio /\ WriteClient(u) /\ UNCHANGED <<rio, inbox, toServer>>
    BY <1>5 DEF ChunkRead, Pass, Took
  <2>2. pc' # "header" /\ ~IsUpload'
    BY <1>1, <1>5, AfterIs DEF IsUpload, Chunking
  <2>3. StreamInv' /\ UpInv' /\ DownInv
    BY <1>1, <2>1, <2>2, UpStays DEF OrderInv
  <2>4. u = <<line'>> => u = <<line'>> \o nothing
    BY <1>2, ConcatEmptySeq
  <2>5. nothing \in Seq(Told) /\ \A i \in 1 .. Len(nothing) : ~IsOf(nothing[i], "server")
    BY EmptySeq
  <2>6. Goes(u) /\ line \in Texts
    BY <1>2, <2>1, <2>3, GoesIs DEF ExchangeInv, Buffers
  <2> HIDE DEF nothing
  <2>7. DownInv'
    BY <1>1, <1>2, <2>1, <2>3, <2>4, <2>5, <2>6, DownLine
  <2> QED
    BY <2>3, <2>7 DEF OrderInv
<1> QED
  BY <1>4, <1>5

\* What is sent is what was read, or nothing of anybody's.
LEMMA WrittenOrder ==
  ASSUME ExchangeInv, NEW r, NEW items, NEW u \in Written(r, items)
  PROVE  \/ u = items /\ ~(r.ret < 0) /\ r.ret # 0
         \/ \A i \in 1 .. Len(u) : ~IsOf(u[i], fd) /\ ~IsOf(u[i], "server")
<1>1. PICK k : k = <<"garbage">>
  OBVIOUS
<1>2. k \in Seq(Spoken)
  BY <1>1 DEF Spoken, ItemKinds
<1>3. DOMAIN Proxy(k) = 1 .. Len(Proxy(k))
  BY <1>2, ProxyIs, LenProperties
<1>4. \A i \in 1 .. Len(Proxy(k)) : ~IsOf(Proxy(k)[i], fd) /\ ~IsOf(Proxy(k)[i], "server")
  BY <1>3, OwnWords
<1>5. Len(<<>>) = 0
  BY EmptySeq
<1>6. u = Proxy(k) \/ u = <<>> \/ (u = items /\ ~(r.ret < 0) /\ r.ret # 0)
  BY <1>1 DEF Written
<1> QED
  BY <1>4, <1>5, <1>6

\* The lines of forward_chunked(), in both directions.
LEMMA ChunkLinesOrder ==
  ASSUME ExchangeInv, OrderInv, ChunkSize \/ Trailer \/ ChunkEnd
  PROVE  OrderInv'
<1> DEFINE r == ChunkRead
           one == <<line'>>
           nothing == <<>>
<1>1. pc \in Chunking /\ pc' \in Chunking \cup {"aborted", AfterChunks} /\ UNCHANGED ChunkVars
  BY ChunkStepIs
<1>2. line' \in r.lines /\ r.lines \subseteq Texts
  BY ChunkLine DEF ChunkSize, Trailer, ChunkEnd
<1>3. one \in Seq(Texts) /\ nothing \in Seq(Texts) /\ \A i \in 1 .. Len(nothing) : ~IsOf(nothing[i], fd) /\ ~IsOf(nothing[i], "server")
  BY <1>2, EmptySeq, SingleIn
<1>4. PICK u \in Written(r, one) \cup {nothing} : Pass(r, u)
  <2>1. \E u \in Written(r, one) \cup {nothing} : Pass(r, u)
    BY DEF ChunkSize, Trailer, ChunkEnd
  <2> QED
    BY <2>1
<1>5. r.ret \in Int
  <2>1. rio \in Seq(ItemsBy({fd})) /\ inbox[fd] \in Seq(ItemsBy({fd})) /\ reply \in Seq(Texts) /\ nothing \in Seq(Texts)
    BY ServedStreams, EmptySeq DEF ExchangeInv, ServerStreams
  <2>2. CASE dir = "up"
    <3>1. PICK eof : eof = ended[fd]
      OBVIOUS
    <3>2. r = ReadLine(rio, inbox[fd], eof, line)
      BY <2>2, <3>1 DEF ChunkRead, FromClient
    <3> QED
      BY <2>1, <3>2, LineReturns
  <2>3. CASE dir # "up"
    <3> DEFINE eof == ~broken
    <3>1. r = ReadLine(reply, nothing, eof, line)
      BY <2>3 DEF ChunkRead, FromServer
    <3> HIDE DEF eof, nothing, r
    <3> QED
      BY <2>1, <3>1, LineReturns
  <2> QED
    BY <2>2, <2>3
<1> HIDE DEF r, one, nothing
<1>6. /\ u \in Seq(Texts)
      /\ (r.ret > 0 /\ u = one) \/ \A i \in 1 .. Len(u) : ~IsOf(u[i], fd) /\ ~IsOf(u[i], "server")
  <2>1. CASE u \in Written(r, one)
    <3>1. u \in Seq(Texts)
      BY <1>3, <2>1, WrittenIs
    <3>2. \/ u = one /\ ~(r.ret < 0) /\ r.ret # 0
          \/ \A i \in 1 .. Len(u) : ~IsOf(u[i], fd) /\ ~IsOf(u[i], "server")
      BY <2>1, WrittenOrder
    <3>3. ~(r.ret < 0) /\ r.ret # 0 => r.ret > 0
      BY <1>5
    <3> QED
      BY <3>1, <3>2, <3>3
  <2>2. CASE u = nothing
    BY <1>3, <2>2
  <2> QED
    BY <2>1, <2>2
<1> QED
  BY <1>1, <1>2, <1>4, <1>6, ChunkLineOrder DEF r, one

\* The reads of a chunk are of bytes that follow one another.
LEMMA ChunkFrom ==
  ASSUME NEW W, NEW buffer \in Seq(ItemsBy(W)), NEW socket \in Seq(ItemsBy(W)), NEW eof,
         NEW r \in ChunkReads(buffer, socket, eof),
         NEW t, Len(t) \in Nat, NEW n \in Nat, Leftover(buffer \o socket, t, n)
  PROVE  DataOf(r, buffer \o socket, t, n) /\ (socket = <<>> => r.left.inbox = <<>>)
<1> DEFINE all == buffer \o socket
<1>1. Len(all) \in Nat
  BY ConcatProperties, LenProperties
<1>2. \/ \E k \in Nat : r = ReadBytes(buffer, socket, eof, k)
      \/ \E k \in 0 .. Len(all) - 1 : r = ReadPart(buffer, socket, k)
  <2>1. 1 \in Nat /\ 1 .. Len(all) + 1 \subseteq Nat
    OBVIOUS
  <2> QED
    BY <2>1 DEF ChunkReads
<1>3. \A k \in 0 .. Len(all) - 1 : k \in Nat /\ k < Len(all)
  BY <1>1
<1>4. ASSUME NEW k \in Nat, r = ReadBytes(buffer, socket, eof, k)
      PROVE  DataOf(r, all, t, n) /\ (socket = <<>> => r.left.inbox = <<>>)
  <2>1. DataOf(r, all, t, n)
    BY <1>4, BytesFrom
  <2>2. \E m : r.left = Consume(buffer, socket, m)
    BY <1>4 DEF ReadBytes
  <2>3. socket = <<>> => r.left.inbox = <<>>
    BY <2>2 DEF Consume
  <2> QED
    BY <2>1, <2>3
<1>5. ASSUME NEW k \in Nat, k < Len(all), r = ReadPart(buffer, socket, k)
      PROVE  DataOf(r, all, t, n) /\ (socket = <<>> => r.left.inbox = <<>>)
  <2>1. DataOf(r, all, t, n)
    BY <1>5, PartFrom
  <2>2. r.left.inbox = Consume(buffer, socket, k + 1).inbox
    BY <1>5, ReadPartIs DEF PartRead
  <2>3. socket = <<>> => r.left.inbox = <<>>
    BY <2>2 DEF Consume
  <2> QED
    BY <2>1, <2>3
<1> QED
  BY <1>2, <1>3, <1>4, <1>5

\* So is what is sent for them.
LEMMA WrittenCarries ==
  ASSUME ExchangeInv, NEW r, NEW u \in Written(r, r.data),
         NEW who \in {fd, "server"}, NEW t, NEW m \in Nat, NEW n \in Nat, Carries(r.data, who, t, m, n)
  PROVE  Carries(u, who, t, m, n)
<1>1. CASE u = r.data
  BY <1>1
<1>2. CASE \A i \in 1 .. Len(u) : ~IsOf(u[i], who)
  <2>1. Carries(u, who, t, m, m)
    BY <1>2, CarriesNone
  <2>2. m <= n
    BY DEF Carries
  <2> QED
    BY <2>1, <2>2, CarriesWiden
<1> QED
  BY <1>1, <1>2, WrittenOrder

\* The data of a chunk, in both directions.
LEMMA ChunkDataOrder ==
  ASSUME ExchangeInv, OrderInv, ChunkData
  PROVE  OrderInv'
<1> DEFINE nothing == <<>>
           eof == ~broken
<1>1. PICK r \in IF dir = "up" THEN ChunkReads(rio, inbox[fd], ended[fd]) ELSE ChunkReads(reply, nothing, eof) :
        /\ \E u \in Written(r, r.data) : Pass(r, u)
        /\ line' = IF r.data = <<>> THEN line ELSE <<"junk", r.data[1][2]>>
  BY DEF ChunkData
<1>2. /\ pc = "chunkdata" /\ pc' = "chunk" /\ UNCHANGED <<asked, sent, fd, dir, answer>>
  BY DEF ChunkData, ChunkVars, clientVars, residueVars
<1>3. r.data \in Seq(Texts) /\ IF dir = "up" THEN LeavesClient(r) ELSE LeavesServer(r)
  BY <1>1, ChunkReadsAre
<1>4. PICK u \in Written(r, r.data) : Pass(r, u)
  BY <1>1
<1>5. u \in Seq(Texts) /\ u \in Seq(Told) /\ u \in Seq(Messages)
  BY <1>3, <1>4, WrittenIs, ToldIs, SeqMonotonic DEF Messages
<1>6. CASE dir = "up"
  <2>1. Left(r) /\ toServer' = toServer \o u /\ UNCHANGED <<reply, toClient>>
    BY <1>4, <1>6 DEF Pass
  <2>2. /\ fd \in Clients /\ rio \in Seq(ItemsBy({fd})) /\ inbox[fd] \in Seq(ItemsBy({fd})) /\ sent[fd] \in Nat
        /\ Len(Items(fd)) \in Nat
    BY ServedStreams, UnseenIs
  <2>3. Leftover(rio \o inbox[fd], Items(fd), sent[fd])
    BY <2>2 DEF OrderInv, StreamInv, Unseen
  <2>4. DataOf(r, Stream, Items(fd), sent[fd])
    <3>1. PICK e : e = ended[fd]
      OBVIOUS
    <3>2. PICK s : s = inbox[fd]
      OBVIOUS
    <3>3. PICK t : t = Items(fd)
      OBVIOUS
    <3>4. PICK n : n = sent[fd]
      OBVIOUS
    <3>5. r \in ChunkReads(rio, s, e)
      BY <1>1, <1>6, <3>1, <3>2
    <3>6. DataOf(r, rio \o s, t, n)
      BY <2>2, <2>3, <3>2, <3>3, <3>4, <3>5, ChunkFrom
    <3> QED
      BY <3>2, <3>3, <3>4, <3>6 DEF Stream
  <2>5. LeavesClient(r)
    BY <1>3, <1>6
  <2>6. StreamInv' /\ Onward /\ Carries(r.data, fd, Items(fd), Taken(fd), Taken(fd)')
    BY <1>2, <2>1, <2>4, <2>5, BytesReads DEF OrderInv
  <2>8. UpInv'
    <3>1. CASE r.data = <<>> /\ \A i \in 1 .. Len(u) : ~IsOf(u[i], fd)
      <4>1. line' = line /\ line' \in Texts /\ IsUpload
        BY <1>1, <1>2, <1>6, <3>1 DEF ExchangeInv, Buffers, IsUpload, Chunking
      <4> QED
        BY <1>2, <1>5, <2>1, <2>6, <3>1, <4>1, UpLine
    <3>2. CASE r.data # <<>>
      <4>1. PICK m \in Nat : m = Taken(fd)
        BY <2>2, TakenIs DEF OrderInv
      <4>2. PICK n \in Nat : n = Taken(fd)'
        BY <1>2, <2>2, <2>6 DEF Onward
      <4>3. Carries(u, fd, Items(fd), m, n)
        BY <1>4, <2>6, <4>1, <4>2, WrittenCarries
      <4>4. ~IsOf(line', fd)
        BY <1>1, <3>2 DEF IsOf
      <4> QED
        BY <1>2, <1>5, <2>1, <2>6, <4>1, <4>2, <4>3, <4>4, UpFurther DEF OrderInv
    <3>3. u = <<>> => \A i \in 1 .. Len(u) : ~IsOf(u[i], fd)
      BY EmptySeq
    <3> QED
      BY <1>4, <3>1, <3>2, <3>3, WrittenOrder
  <2>9. DownInv'
    BY <1>2, <2>1, DownStays DEF OrderInv
  <2> QED
    BY <2>6, <2>8, <2>9 DEF OrderInv
<1>7. CASE dir # "up"
  <2> DEFINE Whose == Clients \cup {"proxy", "server", "nobody"}
  <2>1. reply' = r.left.rio /\ WriteClient(u) /\ UNCHANGED <<rio, inbox, toServer>>
    BY <1>4, <1>7 DEF Pass, Took
  <2>2. pc' # "header" /\ ~IsUpload'
    BY <1>2, <1>7 DEF IsUpload
  <2>3. StreamInv' /\ UpInv' /\ DownInv
    BY <1>2, <2>1, <2>2, UpStays DEF OrderInv
  <2>4. /\ reply \in Seq(ItemsBy(Whose)) /\ nothing \in Seq(ItemsBy(Whose)) /\ reply \o nothing = reply
        /\ Len(answer) \in Nat /\ Leftover(reply, answer, Len(answer))
    BY <2>3, ServerStreamIs, EmptySeq DEF Texts, DownInv
  <2>5. r \in ChunkReads(reply, nothing, eof)
    BY <1>1, <1>7
  <2> HIDE DEF Whose, eof
  <2>6. DataOf(r, reply, answer, Len(answer)) /\ r.left.inbox = <<>>
    <3>1. PICK n : n = Len(answer)
      OBVIOUS
    <3>2. PICK s : s = nothing
      OBVIOUS
    <3>3. DataOf(r, reply \o s, answer, n) /\ (s = <<>> => r.left.inbox = <<>>)
      BY <2>4, <2>5, <3>1, <3>2, ChunkFrom
    <3> QED
      BY <2>4, <3>1, <3>2, <3>3
  <2>7. r.left.rio \in Seq(Texts) /\ r.left.rio \o r.left.inbox = r.left.rio
    BY <1>3, <1>7, <2>6, ConcatEmptySeq DEF LeavesServer
  <2>8. \A m \in Nat, n \in Nat : Carries(r.data, "server", answer, m, n) => Carries(u, "server", answer, m, n)
    BY <1>4, WrittenCarries
  <2>a. Goes(u)
    BY <1>5, <2>1, <2>3, GoesIs
  <2>9. DownInv'
    BY <1>2, <1>5, <2>1, <2>3, <2>6, <2>7, <2>8, <2>a, DownBytes
  <2> QED
    BY <2>3, <2>9 DEF OrderInv
<1> QED
  BY <1>6, <1>7

\* OrderInv is inductive.
LEMMA OrderNext ==
  ASSUME ExchangeInv, ReplyInv, OrderInv, [Next]_vars
  PROVE  OrderInv'
<1>1. CASE Wake \/ Return
  BY <1>1, WakeOrder, ReturnOrder
<1>2. CASE ReadRequest \/ SkipHeader \/ StartTunnel
  BY <1>2, ReadRequestOrder, StartTunnelOrder
<1>3. CASE \/ OpenFails \/ NotImplemented \/ StartConnect \/ RequestCut \/ NoRequestBody \/ ChunkSpins
           \/ ReplyCut \/ NoReplyBody \/ Finish \/ \E d \in Directions : StartChunked(d)
  BY <1>3, QuietOrder
<1>4. CASE OpenServer \/ RequestHeader \/ RequestBody
  BY <1>4, OpenServerOrder, RequestHeaderOrder, RequestBodyOrder
<1>5. CASE ChunkSize \/ ChunkData \/ Trailer \/ ChunkEnd
  BY <1>5, ChunkLinesOrder, ChunkDataOrder
<1>6. CASE Raw \/ ReplyStatus \/ ReplyHeader \/ ReplyReset \/ ReplyBody
  BY <1>6, RawOrder, ReplyLineOrder, ReplyBodyOrder
<1>7. ASSUME NEW c \in Clients, Send(c) PROVE OrderInv'
  BY <1>7, SendOrder
<1>8. CASE UNCHANGED vars \/ \E c \in Clients : End(c)
  <2>1. UNCHANGED <<asked, sent, inbox, pc, fd, rio, line, dir, answer, reply, toServer, toClient>>
    BY <1>8 DEF vars, End, clientVars, residueVars, localVars, serverVars
  <2> QED
    BY <2>1, StillOrder
<1> QED
  BY <1>1, <1>2, <1>3, <1>4, <1>5, <1>6, <1>7, <1>8 DEF Next, DoitStep

-----------------------------------------------------------------------------
(* The theorems.                                                           *)

\* Whose items are in which stream, and where the worker is when it reads
\* from an empty rio_client: the invariant that the theorems below need.
THEOREM ExchangeInvariant == Spec => []ExchangeInv
<1>1. Init => ExchangeInv
  BY InitHolds
<1>2. ExchangeInv /\ [Next]_vars => ExchangeInv'
  BY NextHolds
<1> QED
  BY <1>1, <1>2, PTL DEF Spec

\* Every stream holds items of one client or of a server, rio_client only
\* those of the client that is served, and what has not been read of an
\* answer is its end, but for the item that was cut (rio_readlineb(),
\* rio_readnb() and what the forwarding functions do with them).
THEOREM ExchangeTypeCorrect == Spec => []ExchangeTypeOK
<1>1. ASSUME ExchangeInv, PartsInv PROVE ExchangeTypeOK
  <2>1. ASSUME NEW c \in Clients, NEW i \in DOMAIN inbox[c] PROVE inbox[c][i][2] = c
    <3>1. inbox[c] \in Seq(Sendable(c))
      BY <1>1 DEF ExchangeInv, ClientStreams
    <3>2. inbox[c][i] \in Sendable(c)
      BY <3>1, LenProperties, ElementOfSeq
    <3> QED
      BY <3>2 DEF Sendable
  <2>2. ASSUME NEW i \in DOMAIN rio PROVE rio[i][2] = fd
    <3>1. rio \in Seq(ItemsBy({fd}))
      BY <1>1 DEF ExchangeInv, ClientStreams
    <3>2. rio[i] \in ItemsBy({fd})
      BY <3>1, LenProperties, ElementOfSeq
    <3> QED
      BY <3>2 DEF ItemsBy
  <2>3. reply # <<>> => IsSuffix(Tail(reply), answer)
    BY <1>1, TrailsEnds DEF ExchangeInv, ServerStreams
  <2>4. FlagsInv /\ broken \in BOOLEAN
    BY <1>1 DEF ExchangeInv, PartsInv
  <2> QED
    BY <2>1, <2>2, <2>3, <2>4 DEF ExchangeTypeOK, FlagsInv, Positions
<1> QED
  BY <1>1, PlainInvariant, PTL

\* If the client's line was there when doit() asked for it, the server is
\* opened and asked for the parts which this line has, and they are those of
\* no other client, whatever earlier requests have left in rio_client, in buf
\* and in rqdata (doit(), rio_readinitb(), rio_readlineb() and
\* parse_requestline()).
THEOREM ExchangeOwnRequest == Spec => []OwnRequest
<1>1. ASSUME OwnInv PROVE OwnRequest
  BY <1>1 DEF OwnInv, OwnRequest
<1> QED
  BY <1>1, PlainInvariant, PTL

\* An answer that declares its length reaches the client whole, unless a write
\* found the send buffer full or a "chunked" left from the worker's previous
\* request is in the way: every item is read once, is passed on as it is, and
\* the body as long as declared is there (forward_reply()).
THEOREM ExchangeReplyForwarded == Spec => []ReplyForwarded
<1>1. ASSUME ReplyInv, ExchangeInv PROVE ReplyForwarded
  <2> SUFFICES ASSUME pc = "finish", Gap \notin ToSet(toClient), ~enc["down"], IsPlainAnswer
               PROVE  toClient = Downstream
    BY DEF ReplyForwarded
  <2>1. Len(answer) \in Nat
    BY <1>1, LenProperties DEF ExchangeInv, ServerStreams
  <2>2. PICK n \in 2 .. Len(answer) : IsWhole(answer, n)
    BY DEF IsPlainAnswer
  <2>3. n \in Nat /\ AnswerIs(n)
    BY <2>1, <2>2 DEF AnswerIs
  <2> QED
    BY <1>1, <2>3 DEF ReplyInv, AnswerAt, Whole
<1> QED
  BY <1>1, PlainInvariant, PTL

\* A plain request that has been there in time, unless it is a POST that finds
\* a "chunked" in cstatus, reaches its server whole and once: the proxy's lines
\* with the parts of the client's own request line, its headers and its body
\* (doit() and forward_requestheader()).
THEOREM ExchangeRequestForwarded == Spec => []RequestForwarded
<1>1. ASSUME ExchangeInv, PlainInv, OwnInv PROVE RequestForwarded
  <2> SUFFICES ASSUME pc \in {"status", "raw"}, spins = 0, IsPlain(fd), sent[fd] = Len(asked[fd]),
                      rq.kind \in Posts => ~enc["up"]
               PROVE  toServer = Upstream(fd) /\ OwnLine(Head(Items(fd)))
    BY DEF RequestForwarded
  <2>1. PICK n \in Nat : PlainAt(fd, n)
    BY <1>1, PlainSomewhere
  <2>2. ServedAt(n)
    BY <1>1, <2>1 DEF PlainInv, ServedInv
  <2>3. ~Missed
    <3>1. ~(sent[fd] < Len(asked[fd]))
      BY <1>1, ServedStreams
    <3> QED
      BY <3>1 DEF Missed
  <2>4. toServer = Upstream(fd) /\ buf = Items(fd)[1]
    BY <2>2, <2>3 DEF ServedAt
  <2>5. toServer # <<>>
    BY <1>1 DEF ExchangeInv, OpeningInv, Answering, Positions
  <2>6. OwnLine(buf)
    BY <1>1, <2>5 DEF OwnInv
  <2>7. Head(Items(fd)) = Items(fd)[1]
    <3>1. fd \in Clients
      BY <1>1 DEF ExchangeInv, FlagsInv
    <3>2. Items(fd) \in Seq(ItemsBy({fd})) /\ Items(fd) # <<>>
      BY <1>1, <2>1, <3>1, PlainIs DEF PlainShape, ExchangeInv
    <3> QED
      BY <3>2, HeadTailProperties
  <2> QED
    BY <2>4, <2>6, <2>7
<1> QED
  BY <1>1, PlainInvariant, PTL

\* A client is rearmed only if it has not asked for the end, if the answer's
\* header was read to its end and has told how long the body is, unless there
\* was no answer at all, and if its body has not been refused (doit(), 529-537,
\* and forward_reply()).
THEOREM ExchangeKeptAfterWhole == Spec => KeptAfterWhole
<1> DEFINE Kept ==
             pc = "finish" /\ conn'[fd] = "armed" /\ IsPlain(fd)
             => /\ ~Has(fd, "close")
                /\ answer = <<>> \/ (HeaderWhole /\ (length >= 0 \/ enc["down"]))
                /\ "400" \notin Kinds(toServer)
<1>1. ASSUME ExchangeInv, PlainInv, HeaderInv, RefusedInv, Next PROVE Kept
  <2> SUFFICES ASSUME pc = "finish", conn'[fd] = "armed", IsPlain(fd)
               PROVE  /\ ~Has(fd, "close")
                      /\ answer = <<>> \/ (HeaderWhole /\ (length >= 0 \/ enc["down"]))
                      /\ "400" \notin Kinds(toServer)
    OBVIOUS
  <2>1. /\ fd \in Clients /\ conn \in [Clients -> {"armed", "served", "tunnel", "closed"}] /\ conn[fd] = "served"
    BY <1>1 DEF ExchangeInv, FlagsInv
  <2>2. Finish
    <3>1. ~(\E c \in Clients : Send(c) \/ End(c))
      BY <2>1 DEF Send, End
    <3>2. ~(\E d \in Directions : StartChunked(d))
      BY DEF StartChunked
    <3>3. Next => Finish
      BY <3>1, <3>2 DEF Next, DoitStep, Wake, Return, ReadRequest, OpenFails, OpenServer, NotImplemented,
        StartConnect, SkipHeader, StartTunnel, RequestHeader, RequestCut, RequestBody, NoRequestBody,
        ChunkSize, ChunkData, ChunkSpins, Trailer, ChunkEnd, Raw, ReplyStatus, ReplyHeader, ReplyReset, ReplyCut,
        ReplyBody, NoReplyBody
    <3> QED
      BY <1>1, <3>3
  <2>3. ~cstatus.close /\ ~cstatus.shut
    BY <2>1, <2>2 DEF Finish, Closed
  <2>4. ~Has(fd, "close")
    <3>1. PICK n \in Nat : PlainAt(fd, n)
      BY <1>1, PlainSomewhere
    <3>2. ServedAt(n)
      BY <1>1, <3>1 DEF PlainInv, ServedInv
    <3>3. Settled
      BY <3>2 DEF ServedAt, Replying
    <3> QED
      BY <2>3, <3>3 DEF Settled
  <2>5. answer = <<>> \/ (HeaderWhole /\ (length >= 0 \/ enc["down"]))
    BY <1>1, <2>3 DEF HeaderInv
  <2>6. toServer \in Seq(Texts)
    BY <1>1, <2>3 DEF RefusedInv
  <2>7. "400" \notin Kinds(toServer)
    BY <2>6, NotRefused
  <2> QED
    BY <2>4, <2>5, <2>7
<1>2. ExchangeInv /\ PlainInv /\ HeaderInv /\ RefusedInv /\ [Next]_vars => [Kept]_vars
  BY <1>1
<1>3. Spec => [][Kept]_vars
  BY <1>2, PlainInvariant, PTL DEF Spec
<1> QED
  BY <1>3 DEF KeptAfterWhole

\* What client and server have said is passed on in the order in which it was
\* said, with nothing but repetitions of the line just passed on, whatever
\* EAGAIN, ends of file and misread bodies do to it
\* (forward_requestheader(), forward_chunked(), forward_reply()).
THEOREM ExchangePassedOnInOrder == Spec => []PassedOnInOrder
<1> DEFINE I == ExchangeInv /\ ReplyInv /\ OrderInv
<1>1. Init => I
  BY InitHolds, ReplyInit, InitOrder
<1>2. I /\ [Next]_vars => I'
  BY NextHolds, ReplyNext, OrderNext
<1>3. ASSUME I PROVE PassedOnInOrder
  <2>1. IsTorn(Items(fd)) \/ InOrderOf(toServer, fd, Items(fd))
    <3> SUFFICES ASSUME ~IsTorn(Items(fd)) PROVE InOrderOf(toServer, fd, Items(fd))
      OBVIOUS
    <3>1. PICK m \in Nat : m <= Taken(fd) /\ Carries(toServer, fd, Items(fd), 0, m)
      BY <1>3 DEF OrderInv, UpInv, UpAt
    <3>2. fd \in Clients /\ toServer \in Seq(Messages)
      BY <1>3 DEF ExchangeInv, FlagsInv, ServerStreams
    <3>3. Items(fd) \in Seq(ItemsBy({fd})) /\ m \in 0 .. Len(Items(fd))
      <4>1. Taken(fd) \in Nat /\ Taken(fd) <= Len(Items(fd)) /\ Len(Items(fd)) \in Nat /\ Items(fd) \in Seq(ItemsBy({fd}))
        BY <1>3, <3>2, TakenIs, UnseenIs DEF OrderInv
      <4> QED
        BY <3>1, <4>1
    <3> QED
      BY <3>1, <3>2, <3>3, CarriesOrder
  <2>2. IsTorn(answer) \/ InOrderOf(toClient, "server", answer)
    <3> SUFFICES ASSUME ~IsTorn(answer) PROVE InOrderOf(toClient, "server", answer)
      OBVIOUS
    <3>1. DownInv /\ toClient \in Seq(Told) /\ answer \in Seq(Texts) /\ Len(answer) - Len(reply) \in 0 .. Len(answer)
      <4>1. DownInv /\ toClient \in Seq(Told)
        BY <1>3 DEF OrderInv, DownInv
      <4>2. /\ answer \in Seq(Texts) /\ Len(answer) \in Nat /\ Len(reply) \in Nat /\ Len(reply) <= Len(answer)
            /\ Len(answer) - Len(reply) \in Nat
        BY <1>3, <4>1, ServerStreamIs
      <4>3. Len(answer) - Len(reply) <= Len(answer)
        BY <4>2
      <4> QED
        BY <4>1, <4>2, <4>3
    <3>2. Carries(toClient, "server", answer, 0, Len(answer) - Len(reply))
      BY <3>1 DEF DownInv
    <3> QED
      BY <3>1, <3>2, CarriesOrder
  <2> QED
    BY <2>1, <2>2 DEF PassedOnInOrder
<1> QED
  BY <1>1, <1>2, <1>3, PTL DEF Spec
=============================================================================
