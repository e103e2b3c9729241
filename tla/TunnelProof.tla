----------------------------- MODULE TunnelProof -----------------------------
(***************************************************************************)
(* Proofs about Tunnel, for every size of the read buffer and of the send  *)
(* buffers, every number of bytes, and with or without resets.             *)
(*                                                                         *)
(* The argument: an unread byte is always announced, by an edge, by an     *)
(* event that is still to be handled, or by the read loop being on its     *)
(* socket with another read to come.  With ample buffers, a tunnel is then *)
(* the pair of pipes of Pipe.                                              *)
(***************************************************************************)
EXTENDS Tunnel, SequenceTheorems, TLAPS

\* The handler reads no more than there is.
Counts == \A p \in Peers : taken[p] <= arrived[p]

\* buf holds the bytes read last, at most MAXLINE.
Buffer ==
  stage = "write" =>
    /\ chunk[1] >= 1 /\ chunk[1] <= chunk[2]
    /\ chunk[2] = taken[peer]
    /\ ChunkLength <= MAXLINE

\* What reminds the handler of an unread byte of p.
IsAnnounced(p) ==
  \/ Unread(p) = 0 \/ p \in edge \/ p \in events
  \/ peer = p /\ (stage = "read" \/ (stage = "write" /\ ChunkLength = MAXLINE))

Announced == stage # "killed" => \A p \in Peers : IsAnnounced(p)

Waiting == stage \in {"wait", "closed"} => events = {}

\* disconnect is set for a peer that has ended and was read empty.
Disconnected ==
  /\ disconnect => \E p \in Peers : end[p] # "open" /\ Unread(p) = 0
  /\ stage = "closed" => disconnect

\* The inductive invariant without what was written.
ReadInv == TunnelTypeOK /\ Counts /\ Buffer /\ Announced /\ Waiting /\ Disconnected

\* What was written comes before what is still to be written.
Rising ==
  /\ NeverRepeats
  /\ \A p \in Peers : \A k \in 1 .. Len(out[p]) : out[p][k] <= Handled(Other(p))

\* The inductive invariant.
TunnelInv == ReadInv /\ PassedInOrder /\ Rising

-----------------------------------------------------------------------------
LEMMA OtherPeer ==
  \A p \in Peers : Other(p) \in Peers /\ Other(p) # p /\ Other(Other(p)) = p
BY DEF Peers, Other

-----------------------------------------------------------------------------
LEMMA TunnelInvInit == TunnelInit => TunnelInv
PROOF
  <1> SUFFICES ASSUME TunnelInit PROVE TunnelInv
    OBVIOUS
  <1>1. TunnelTypeOK
    <2>1. "client" \in Peers /\ 0 \in 0 .. MaxBytes /\ 0 \in 0 .. SendBuffer
      BY MaxBytesAssumption, SendBufferAssumption DEF Peers
    <2>2. out \in [Peers -> Seq(1 .. MaxBytes)]
      BY EmptySeq DEF TunnelInit
    <2>3. chunk \in Nat \X Nat
      BY DEF TunnelInit
    <2> QED
      BY <2>1, <2>2, <2>3 DEF TunnelInit, TunnelTypeOK
  <1>2. Counts /\ Buffer /\ Announced /\ Waiting /\ Disconnected
    BY DEF TunnelInit, Counts, Buffer, Announced, IsAnnounced, Unread, Waiting, Disconnected
  <1>3. PassedInOrder
    BY OtherPeer DEF TunnelInit, PassedInOrder, Handled
  <1>4. Rising
    BY OtherPeer DEF TunnelInit, Rising, NeverRepeats
  <1> QED
    BY <1>1, <1>2, <1>3, <1>4 DEF TunnelInv, ReadInv

\* The peers and the network: they leave the handler and out alone.
LEMMA NetworkReads ==
  ASSUME ReadInv, NEW p \in Peers, Arrive(p) \/ EndOfFile(p) \/ Reset(p) \/ Drain(p)
  PROVE  ReadInv'
PROOF
  <1> USE MaxBytesAssumption, SendBufferAssumption DEF ReadInv
  <1>1. CASE Arrive(p)
    <2>1. PICK n \in arrived[p] + 1 .. MaxBytes : arrived' = [arrived EXCEPT ![p] = n]
      BY <1>1 DEF Arrive
    <2>2. arrived[p] \in 0 .. MaxBytes /\ n \in 0 .. MaxBytes
      <3>1. arrived[p] \in 0 .. MaxBytes
        BY Zenon DEF TunnelTypeOK
      <3> QED
        BY <2>1, <3>1
    <2>3. TunnelTypeOK'
      BY <1>1, <2>1, <2>2 DEF Arrive, TunnelTypeOK
    <2>4. Counts'
      BY <1>1, <2>1, <2>2 DEF Arrive, Counts, TunnelTypeOK
    <2>5. Buffer' /\ Waiting'
      BY <1>1 DEF Arrive, Buffer, ChunkLength, Waiting
    <2>6. Announced'
      BY <1>1, <2>1 DEF Arrive, Announced, IsAnnounced, Unread, ChunkLength, TunnelTypeOK
    <2>7. Disconnected'
      BY <1>1, <2>1 DEF Arrive, Running, Disconnected, Unread, TunnelTypeOK
    <2> QED
      BY <2>3, <2>4, <2>5, <2>6, <2>7
  <1>2. CASE EndOfFile(p)
    <2>1. TunnelTypeOK'
      BY <1>2 DEF EndOfFile, TunnelTypeOK
    <2>2. Counts' /\ Buffer' /\ Waiting'
      BY <1>2 DEF EndOfFile, Counts, Buffer, ChunkLength, Waiting
    <2>3. Announced'
      BY <1>2 DEF EndOfFile, Announced, IsAnnounced, Unread, ChunkLength
    <2>4. Disconnected'
      BY <1>2 DEF EndOfFile, Disconnected, Unread, TunnelTypeOK
    <2> QED
      BY <2>1, <2>2, <2>3, <2>4
  <1>3. CASE Reset(p)
    <2>1. TunnelTypeOK'
      BY <1>3 DEF Reset, TunnelTypeOK
    <2>2. Counts' /\ Buffer' /\ Waiting'
      BY <1>3 DEF Reset, Counts, Buffer, ChunkLength, Waiting
    <2>3. Announced'
      BY <1>3 DEF Reset, Announced, IsAnnounced, Unread, ChunkLength
    <2>4. Disconnected'
      BY <1>3 DEF Reset, Disconnected, Unread, TunnelTypeOK
    <2> QED
      BY <2>1, <2>2, <2>3, <2>4
  <1>4. CASE Drain(p)
    <2>1. TunnelTypeOK'
      <3>1. unsent' = [unsent EXCEPT ![p] = 0]
        BY <1>4 DEF Drain
      <3>2. unsent \in [Peers -> 0 .. SendBuffer] /\ 0 \in 0 .. SendBuffer
        BY DEF TunnelTypeOK
      <3>3. unsent' \in [Peers -> 0 .. SendBuffer]
        BY <3>1, <3>2, Zenon
      <3>4. UNCHANGED <<arrived, taken, end, edge, out, dropped, stage, events, peer, chunk, disconnect>>
        BY <1>4 DEF Drain
      <3> QED
        BY <3>3, <3>4 DEF TunnelTypeOK
    <2>2. Counts' /\ Buffer' /\ Waiting'
      BY <1>4 DEF Drain, Counts, Buffer, ChunkLength, Waiting
    <2>3. Announced' /\ Disconnected'
      BY <1>4 DEF Drain, Announced, IsAnnounced, Unread, ChunkLength, Disconnected
    <2> QED
      BY <2>1, <2>2, <2>3
  <1> QED
    BY <1>1, <1>2, <1>3, <1>4

\* The for loop and the reads that change nothing but the stage or a flag.
LEMMA LoopReads ==
  ASSUME ReadInv, EpollWait \/ NextEvent \/ LastEvent \/ ReadEof \/ ReadNothing \/ ReadError
  PROVE  ReadInv'
PROOF
  <1> USE DEF ReadInv
  <1>1. CASE EpollWait
    <2>1. TunnelTypeOK' /\ Counts' /\ Buffer' /\ Waiting' /\ Disconnected'
      BY <1>1 DEF EpollWait, TunnelTypeOK, Counts, Buffer, Waiting, Disconnected, Unread
    <2>2. Announced'
      BY <1>1 DEF EpollWait, Announced, IsAnnounced, Unread, Waiting
    <2> QED
      BY <2>1, <2>2
  <1>2. CASE NextEvent
    <2>1. PICK p \in events : peer' = p /\ events' = events \ {p}
      BY <1>2 DEF NextEvent
    <2>2. TunnelTypeOK' /\ Counts' /\ Buffer' /\ Waiting' /\ Disconnected'
      BY <1>2, <2>1 DEF NextEvent, TunnelTypeOK, Counts, Buffer, Waiting, Disconnected, Unread
    <2>3. Announced'
      BY <1>2, <2>1 DEF NextEvent, Announced, IsAnnounced, Unread
    <2> QED
      BY <2>2, <2>3
  <1>3. CASE LastEvent
    <2>1. TunnelTypeOK' /\ Counts' /\ Buffer' /\ Waiting' /\ Disconnected'
      BY <1>3 DEF LastEvent, TunnelTypeOK, Counts, Buffer, Waiting, Disconnected, Unread
    <2>2. Announced'
      BY <1>3 DEF LastEvent, Announced, IsAnnounced, Unread
    <2> QED
      BY <2>1, <2>2
  <1>4. CASE ReadEof
    <2>1. TunnelTypeOK' /\ Counts' /\ Buffer' /\ Waiting'
      BY <1>4 DEF ReadEof, TunnelTypeOK, Counts, Buffer, Waiting
    <2>2. Announced'
      BY <1>4 DEF ReadEof, Announced, IsAnnounced, Unread
    <2>3. Disconnected'
      BY <1>4 DEF ReadEof, Disconnected, Unread, TunnelTypeOK
    <2> QED
      BY <2>1, <2>2, <2>3
  <1>5. CASE ReadNothing
    <2>1. TunnelTypeOK' /\ Counts' /\ Buffer' /\ Waiting' /\ Disconnected'
      BY <1>5 DEF ReadNothing, TunnelTypeOK, Counts, Buffer, Waiting, Disconnected, Unread
    <2>2. Announced'
      BY <1>5 DEF ReadNothing, Announced, IsAnnounced, Unread
    <2> QED
      BY <2>1, <2>2
  <1>6. CASE ReadError
    <2>1. TunnelTypeOK' /\ Counts' /\ Buffer' /\ Waiting'
      BY <1>6 DEF ReadError, TunnelTypeOK, Counts, Buffer, Waiting
    <2>2. Announced'
      BY <1>6 DEF ReadError, Announced, IsAnnounced, Unread
    <2>3. Disconnected'
      BY <1>6 DEF ReadError, Disconnected, Unread, TunnelTypeOK
    <2> QED
      BY <2>1, <2>2, <2>3
  <1> QED
    BY <1>1, <1>2, <1>3, <1>4, <1>5, <1>6

LEMMA ReadDataReads ==
  ASSUME ReadInv, ReadData
  PROVE  ReadInv'
PROOF
  <1> DEFINE n == IF Unread(peer) < MAXLINE THEN Unread(peer) ELSE MAXLINE
  <1> USE MaxlineAssumption, MaxBytesAssumption DEF ReadInv
  <1>1. /\ peer \in Peers
        /\ \A p \in Peers : arrived[p] \in 0 .. MaxBytes /\ taken[p] \in 0 .. MaxBytes
    BY DEF TunnelTypeOK
  <1>2. n \in 1 .. MAXLINE /\ taken[peer] + n <= arrived[peer]
    BY <1>1 DEF ReadData, Unread
  <1>3. /\ chunk' = <<taken[peer] + 1, taken[peer] + n>>
        /\ taken' = [taken EXCEPT ![peer] = @ + n]
        /\ stage' = "write"
        /\ UNCHANGED <<arrived, end, edge, out, unsent, dropped, events, peer, disconnect>>
    BY DEF ReadData
  <1>4. /\ taken'[peer] = taken[peer] + n
        /\ \A p \in Peers \ {peer} : taken'[p] = taken[p]
    BY <1>3 DEF TunnelTypeOK
  <1>5. n < MAXLINE => taken'[peer] = arrived[peer]
    BY <1>1, <1>4 DEF Unread
  <1> HIDE DEF n
  <1>6. TunnelTypeOK'
    <2>1. taken' \in [Peers -> 0 .. MaxBytes]
      BY <1>1, <1>2, <1>3 DEF TunnelTypeOK
    <2>2. chunk' \in Nat \X Nat
      BY <1>1, <1>2, <1>3
    <2> QED
      BY <2>1, <2>2, <1>3 DEF TunnelTypeOK
  <1>7. Counts'
    BY <1>1, <1>2, <1>3, <1>4 DEF Counts
  <1>8. ChunkLength' = n
    BY <1>1, <1>2, <1>3 DEF ChunkLength
  <1>9. Buffer'
    BY <1>1, <1>2, <1>3, <1>4, <1>8 DEF Buffer
  <1>10. Announced'
    BY <1>1, <1>2, <1>3, <1>4, <1>5, <1>8 DEF Announced, IsAnnounced, Unread, ReadData
  <1>11. Waiting'
    BY <1>3 DEF Waiting
  <1>12. Disconnected'
    <2>1. Unread(peer) # 0
      BY <1>1 DEF ReadData, Unread
    <2> QED
      BY <2>1, <1>3, <1>4 DEF Disconnected, Unread
  <1> QED
    BY <1>6, <1>7, <1>9, <1>10, <1>11, <1>12

\* A write: how much of it is taken.
Accepted == LET room == SendBuffer - unsent[Other(peer)]
            IN IF ChunkLength < room THEN ChunkLength ELSE room

\* The bytes that are taken.
Run == [k \in 1 .. Accepted |-> chunk[1] + k - 1]

LEMMA WriteTakes ==
  ASSUME ReadInv, Write
  PROVE  /\ peer \in Peers /\ Other(peer) \in Peers
         /\ chunk[1] \in Nat /\ chunk[2] \in Nat /\ chunk[1] >= 1
         /\ chunk[2] = taken[peer] /\ chunk[2] <= MaxBytes
         /\ ChunkLength \in 1 .. MAXLINE
         /\ Accepted \in Nat /\ Accepted <= ChunkLength
         /\ unsent[Other(peer)] \in Nat /\ unsent[Other(peer)] + Accepted <= SendBuffer
         /\ out' = [out EXCEPT ![Other(peer)] = @ \o Run]
         /\ unsent' = [unsent EXCEPT ![Other(peer)] = @ + Accepted]
         /\ dropped' = [dropped EXCEPT ![Other(peer)] = @ \/ Accepted < ChunkLength]
         /\ stage' = (IF ChunkLength < MAXLINE THEN "next" ELSE "read")
         /\ chunk' = <<1, 0>>
         /\ UNCHANGED <<arrived, taken, end, edge, events, peer, disconnect>>
PROOF
  <1>1. peer \in Peers /\ Other(peer) \in Peers
    BY OtherPeer DEF ReadInv, TunnelTypeOK
  <1>2. /\ chunk[1] \in Nat /\ chunk[2] \in Nat
        /\ taken[peer] \in 0 .. MaxBytes /\ unsent[Other(peer)] \in 0 .. SendBuffer
    BY <1>1 DEF ReadInv, TunnelTypeOK
  <1>3. /\ chunk[1] >= 1 /\ chunk[1] <= chunk[2] /\ chunk[2] = taken[peer]
        /\ ChunkLength <= MAXLINE
    BY DEF ReadInv, Buffer, Write
  <1>4. ChunkLength \in 1 .. MAXLINE /\ chunk[2] <= MaxBytes
    BY <1>2, <1>3, MaxlineAssumption, MaxBytesAssumption DEF ChunkLength
  <1>5. /\ Accepted \in Nat /\ Accepted <= ChunkLength
        /\ unsent[Other(peer)] \in Nat /\ unsent[Other(peer)] + Accepted <= SendBuffer
    BY <1>2, <1>4, SendBufferAssumption, MaxlineAssumption DEF Accepted
  <1>6. /\ out' = [out EXCEPT ![Other(peer)] = @ \o Run]
        /\ unsent' = [unsent EXCEPT ![Other(peer)] = @ + Accepted]
        /\ dropped' = [dropped EXCEPT ![Other(peer)] = @ \/ Accepted < ChunkLength]
        /\ stage' = (IF ChunkLength < MAXLINE THEN "next" ELSE "read")
        /\ chunk' = <<1, 0>>
        /\ UNCHANGED <<arrived, taken, end, edge, events, peer, disconnect>>
    BY DEF Write, Accepted, Run
  <1> QED
    BY <1>1, <1>2, <1>3, <1>4, <1>5, <1>6

\* The sequence a write leaves.
LEMMA WriteAppends ==
  ASSUME ReadInv, Write
  PROVE  LET q == Other(peer) IN
         /\ out[q] \in Seq(1 .. MaxBytes) /\ Len(out[q]) \in Nat
         /\ out'[q] \in Seq(1 .. MaxBytes)
         /\ Len(out'[q]) = Len(out[q]) + Accepted
         /\ \A k \in 1 .. Len(out[q]) : out'[q][k] = out[q][k]
         /\ \A k \in Len(out[q]) + 1 .. Len(out[q]) + Accepted :
              out'[q][k] = chunk[1] + (k - Len(out[q])) - 1
         /\ \A p \in Peers : p # q => out'[p] = out[p]
PROOF
  <1> DEFINE q == Other(peer)
  <1>1. q \in Peers /\ out \in [Peers -> Seq(1 .. MaxBytes)] /\ out' = [out EXCEPT ![q] = @ \o Run]
    BY WriteTakes DEF ReadInv, TunnelTypeOK
  <1>2. out'[q] = out[q] \o Run /\ \A p \in Peers : p # q => out'[p] = out[p]
    BY <1>1
  <1>3. Run \in Seq(1 .. MaxBytes) /\ Len(Run) = Accepted
    <2>1. \A k \in 1 .. Accepted : chunk[1] + k - 1 \in 1 .. MaxBytes
      <3>1. /\ chunk[1] \in Nat /\ chunk[2] \in Nat /\ chunk[1] >= 1 /\ chunk[2] <= MaxBytes
            /\ Accepted \in Nat /\ Accepted <= ChunkLength
        BY WriteTakes
      <3>2. ChunkLength = chunk[2] - chunk[1] + 1 /\ MaxBytes \in Nat
        BY MaxBytesAssumption DEF ChunkLength
      <3> QED
        BY <3>1, <3>2
    <2>2. Accepted \in Nat
      BY WriteTakes
    <2> QED
      BY <2>1, <2>2 DEF Run
  <1>4. \A k \in 1 .. Accepted : Run[k] = chunk[1] + k - 1
    BY DEF Run
  <1>5. out[q] \in Seq(1 .. MaxBytes) /\ Len(out[q]) \in Nat /\ Accepted \in Nat
    BY <1>1, WriteTakes, LenProperties
  <1> HIDE DEF q
  <1>6. /\ out[q] \o Run \in Seq(1 .. MaxBytes) /\ Len(out[q] \o Run) = Len(out[q]) + Accepted
        /\ \A i \in 1 .. Len(out[q]) + Accepted : (out[q] \o Run)[i] =
              IF i <= Len(out[q]) THEN out[q][i] ELSE Run[i - Len(out[q])]
    BY <1>3, <1>5, ConcatProperties
  <1>7. \A k \in 1 .. Len(out[q]) : (out[q] \o Run)[k] = out[q][k]
    BY <1>5, <1>6
  <1>8. \A k \in Len(out[q]) + 1 .. Len(out[q]) + Accepted :
          (out[q] \o Run)[k] = chunk[1] + (k - Len(out[q])) - 1
    BY <1>4, <1>5, <1>6
  <1> QED
    BY <1>2, <1>5, <1>6, <1>7, <1>8 DEF q

LEMMA WriteReads ==
  ASSUME ReadInv, Write
  PROVE  ReadInv'
PROOF
  <1>1. TunnelTypeOK'
    <2>1. out' \in [Peers -> Seq(1 .. MaxBytes)]
      BY WriteTakes, WriteAppends DEF ReadInv, TunnelTypeOK
    <2>2. unsent' \in [Peers -> 0 .. SendBuffer]
      <3>1. unsent[Other(peer)] + Accepted \in 0 .. SendBuffer
        BY WriteTakes, SendBufferAssumption
      <3>2. unsent \in [Peers -> 0 .. SendBuffer]
        BY DEF ReadInv, TunnelTypeOK
      <3>3. unsent' = [unsent EXCEPT ![Other(peer)] = unsent[Other(peer)] + Accepted]
        BY WriteTakes
      <3> QED
        BY <3>1, <3>2, <3>3
    <2>3. dropped' \in [Peers -> BOOLEAN]
      BY WriteTakes DEF ReadInv, TunnelTypeOK
    <2>4. chunk' \in Nat \X Nat
      BY WriteTakes
    <2> QED
      BY <2>1, <2>2, <2>3, <2>4, WriteTakes DEF ReadInv, TunnelTypeOK
  <1>2. Counts' /\ Buffer' /\ Waiting' /\ Disconnected'
    BY WriteTakes DEF ReadInv, Counts, Buffer, Waiting, Disconnected, Unread, Write
  <1>3. Announced'
    BY WriteTakes, MaxlineAssumption DEF ReadInv, Announced, IsAnnounced, Unread, Write
  <1> QED
    BY <1>1, <1>2, <1>3 DEF ReadInv

LEMMA WriteErrorReads ==
  ASSUME ReadInv, WriteError
  PROVE  ReadInv'
PROOF
  <1>1. /\ peer \in Peers /\ Other(peer) \in Peers
        /\ ChunkLength \in Int /\ ChunkLength <= MAXLINE
    BY OtherPeer DEF ReadInv, TunnelTypeOK, Buffer, WriteError, ChunkLength
  <1>2. TunnelTypeOK'
    <2>1. chunk' \in Nat \X Nat
      BY DEF WriteError
    <2>2. end' \in [Peers -> {"open", "fin", "rst", "reported", "broken"}]
      BY DEF WriteError, ReadInv, TunnelTypeOK
    <2>3. stage' \in {"wait", "next", "read", "write", "closed", "killed"}
      BY DEF WriteError
    <2>4. dropped' \in [Peers -> BOOLEAN]
      BY DEF WriteError, ReadInv, TunnelTypeOK
    <2> QED
      BY <2>1, <2>2, <2>3, <2>4 DEF WriteError, ReadInv, TunnelTypeOK
  <1>3. Counts' /\ Buffer' /\ Waiting'
    BY DEF ReadInv, Counts, Buffer, Waiting, WriteError
  <1>4. Disconnected'
    BY <1>1 DEF ReadInv, Disconnected, Unread, WriteError, TunnelTypeOK
  <1>5. Announced'
    BY <1>1, MaxlineAssumption DEF ReadInv, Announced, IsAnnounced, Unread, WriteError
  <1> QED
    BY <1>2, <1>3, <1>4, <1>5 DEF ReadInv

-----------------------------------------------------------------------------
\* The order of what is written depends on out, dropped and Handled only.
LEMMA OrderKept ==
  ASSUME TunnelInv, UNCHANGED <<out, dropped>>, \A p \in Peers : Handled(p)' = Handled(p)
  PROVE  PassedInOrder' /\ Rising'
PROOF
  <1>1. PassedInOrder'
    BY OtherPeer DEF TunnelInv, PassedInOrder
  <1>2. Rising'
    BY OtherPeer DEF TunnelInv, Rising, NeverRepeats
  <1> QED
    BY <1>1, <1>2

LEMMA ReadDataOrder ==
  ASSUME TunnelInv, ReadData
  PROVE  PassedInOrder' /\ Rising'
PROOF
  <1> DEFINE n == IF Unread(peer) < MAXLINE THEN Unread(peer) ELSE MAXLINE
  <1>1. /\ chunk' = <<taken[peer] + 1, taken[peer] + n>>
        /\ taken' = [taken EXCEPT ![peer] = @ + n]
        /\ stage = "read" /\ stage' = "write"
        /\ UNCHANGED <<out, dropped, peer>>
    BY DEF ReadData
  <1>2. peer \in Peers /\ taken \in [Peers -> 0 .. MaxBytes]
    BY DEF TunnelInv, ReadInv, TunnelTypeOK
  <1> HIDE DEF n
  <1>3. \A p \in Peers \ {peer} : taken'[p] = taken[p]
    BY <1>1, <1>2
  <1>4. chunk'[1] - 1 = taken[peer]
    BY <1>1, <1>2, MaxBytesAssumption
  <1>5. \A p \in Peers : Handled(p)' = Handled(p)
    BY <1>1, <1>3, <1>4 DEF Handled
  <1> QED
    BY <1>1, <1>5, OrderKept

LEMMA WriteOrder ==
  ASSUME TunnelInv, Write
  PROVE  PassedInOrder' /\ Rising'
PROOF
  <1> DEFINE q == Other(peer)
             s == out[q]
             t == out'[q]
  <1>1. ReadInv /\ PassedInOrder /\ Rising /\ stage = "write"
    BY DEF TunnelInv, Write
  <1>2. /\ peer \in Peers /\ q \in Peers /\ q # peer /\ Other(q) = peer
        /\ \A p \in Peers : p # peer => Other(p) # q
    BY <1>1, WriteTakes, OtherPeer DEF Peers, Other
  <1>3. /\ chunk[1] \in Nat /\ chunk[1] >= 1 /\ chunk[2] = taken[peer] /\ chunk[2] \in Nat
        /\ Accepted \in Nat /\ Accepted <= ChunkLength
        /\ ChunkLength = chunk[2] - chunk[1] + 1
    BY <1>1, WriteTakes DEF ChunkLength
  <1>4. /\ Handled(peer) = chunk[1] - 1
        /\ \A p \in Peers : p = peer => Handled(p)' = chunk[2]
        /\ \A p \in Peers : p # peer => Handled(p)' = Handled(p)
    BY <1>1, <1>2, WriteTakes DEF Handled
  <1>5. /\ s \in Seq(1 .. MaxBytes) /\ Len(s) \in Nat /\ t \in Seq(1 .. MaxBytes)
        /\ Len(t) = Len(s) + Accepted
        /\ \A k \in 1 .. Len(s) : t[k] = s[k]
        /\ \A k \in Len(s) + 1 .. Len(s) + Accepted : t[k] = chunk[1] + (k - Len(s)) - 1
        /\ \A p \in Peers : p # q => out'[p] = out[p]
    BY <1>1, WriteAppends
  <1>6. /\ dropped'[q] = (dropped[q] \/ Accepted < ChunkLength)
        /\ \A p \in Peers : p # q => dropped'[p] = dropped[p]
    BY <1>1, <1>2, WriteTakes DEF ReadInv, TunnelTypeOK
  <1>7. \A k \in 1 .. Len(s) : s[k] \in Int /\ s[k] <= chunk[1] - 1
    <2>1. \A k \in 1 .. Len(s) : s[k] <= Handled(Other(q))
      BY <1>1, <1>2 DEF Rising
    <2>2. \A k \in 1 .. Len(s) : s[k] \in 1 .. MaxBytes
      BY <1>5, ElementOfSeq
    <2> QED
      BY <2>1, <2>2, <1>2, <1>4, MaxBytesAssumption
  <1> HIDE DEF q, s, t
  <1>8. PassedInOrder'
    <2> SUFFICES ASSUME NEW p \in Peers, ~ dropped'[Other(p)]
                 PROVE  out'[Other(p)] = [k \in 1 .. Handled(p)' |-> k]
      BY <1>1, WriteTakes DEF PassedInOrder
    <2>1. CASE p # peer
      BY <2>1, <1>1, <1>2, <1>4, <1>5, <1>6, OtherPeer DEF PassedInOrder
    <2>2. CASE p = peer
      <3>1. Other(p) = q
        BY <2>2 DEF q
      <3>2. ~ dropped[q] /\ Accepted = ChunkLength
        <4>1. ~ dropped'[q]
          BY <3>1
        <4>2. ~ dropped[q] /\ ~ (Accepted < ChunkLength)
          BY <4>1, <1>6, Zenon
        <4> QED
          BY <4>2, <1>3
      <3>3. s = [k \in 1 .. chunk[1] - 1 |-> k]
        BY <3>1, <3>2, <2>2, <1>1, <1>4 DEF PassedInOrder, s
      <3>4. Len(s) = chunk[1] - 1
        BY <3>3, <1>3, <1>5
      <3>5. Len(t) = chunk[2]
        BY <3>2, <3>4, <1>3, <1>5
      <3>6. \A k \in 1 .. chunk[2] : t[k] = k
        <4> SUFFICES ASSUME NEW k \in 1 .. chunk[2] PROVE t[k] = k
          OBVIOUS
        <4>1. CASE k <= Len(s)
          <5>1. k \in 1 .. Len(s) /\ k \in 1 .. chunk[1] - 1
            BY <4>1, <3>4, <1>3, <1>5
          <5>2. t[k] = s[k]
            BY <5>1, <1>5
          <5> QED
            BY <5>1, <5>2, <3>3
        <4>2. CASE k > Len(s)
          <5>1. Len(s) \in Nat /\ Len(s) + Accepted = chunk[2]
            BY <3>5, <1>5
          <5>2. k \in Len(s) + 1 .. Len(s) + Accepted
            BY <4>2, <5>1
          <5>3. t[k] = chunk[1] + (k - Len(s)) - 1
            BY <5>2, <1>5
          <5>4. Len(s) = chunk[1] - 1 /\ chunk[1] \in Nat
            BY <3>4, <1>3
          <5> QED
            BY <5>3, <5>4
        <4> QED
          BY <4>1, <4>2, <1>5
      <3>7. t = [k \in 1 .. chunk[2] |-> k]
        <4> DEFINE u == [k \in 1 .. chunk[2] |-> k]
        <4>1. u \in Seq(Int) /\ Len(u) = chunk[2]
          BY <1>3
        <4>2. t \in Seq(Int)
          BY <1>5, SeqMonotonic, MaxBytesAssumption
        <4>3. \A k \in 1 .. Len(t) : t[k] = u[k]
          BY <3>5, <3>6
        <4> HIDE DEF u
        <4>4. t = u
          BY <4>1, <4>2, <4>3, <3>5, SeqEqual
        <4> QED
          BY <4>4 DEF u
      <3> QED
        <4>1. out'[Other(p)] = t
          BY <3>1 DEF t
        <4>2. Handled(p)' = chunk[2]
          BY <2>2, <1>4
        <4> QED
          BY <4>1, <4>2, <3>7
    <2> QED
      BY <2>1, <2>2
  <1>9. NeverRepeats'
    <2> SUFFICES ASSUME NEW p \in Peers, NEW k \in 1 .. Len(out'[p]) - 1
                 PROVE  out'[p][k] < out'[p][k + 1]
      BY DEF NeverRepeats
    <2>1. CASE p # q
      BY <2>1, <1>1, <1>5 DEF Rising, NeverRepeats
    <2>2. CASE p = q
      <3>1. k \in 1 .. Len(t) - 1 /\ out'[p] = t
        BY <2>2 DEF t
      <3>2. CASE k + 1 <= Len(s)
        <4>1. k \in 1 .. Len(s) - 1 /\ k \in 1 .. Len(s) /\ k + 1 \in 1 .. Len(s)
          BY <3>2, <1>5
        <4>2. s[k] < s[k + 1]
          BY <4>1, <1>1, <1>2 DEF Rising, NeverRepeats, s
        <4>3. t[k] = s[k] /\ t[k + 1] = s[k + 1]
          BY <4>1, <1>5
        <4> QED
          BY <3>1, <4>2, <4>3
      <3>3. CASE k = Len(s)
        <4>1. k \in 1 .. Len(s) /\ k + 1 \in Len(s) + 1 .. Len(s) + Accepted
          BY <3>1, <3>3, <1>3, <1>5
        <4>2. t[k] = s[k] /\ t[k + 1] = chunk[1] + (k + 1 - Len(s)) - 1
          BY <4>1, <1>5
        <4>3. t[k + 1] = chunk[1]
          BY <4>2, <3>3, <1>3, <1>5
        <4>4. s[k] \in Int /\ s[k] <= chunk[1] - 1
          BY <4>1, <1>7
        <4>5. t[k] \in Int /\ t[k] <= chunk[1] - 1
          BY <4>2, <4>4
        <4>6. chunk[1] \in Nat
          BY <1>3
        <4>7. t[k] < t[k + 1]
          BY <4>3, <4>5, <4>6
        <4> QED
          BY <3>1, <4>7
      <3>4. CASE k > Len(s)
        <4>1. /\ k \in Len(s) + 1 .. Len(s) + Accepted
              /\ k + 1 \in Len(s) + 1 .. Len(s) + Accepted
          BY <3>1, <3>4, <1>3, <1>5
        <4>2. t[k] = chunk[1] + (k - Len(s)) - 1 /\ t[k + 1] = chunk[1] + (k + 1 - Len(s)) - 1
          BY <4>1, <1>5
        <4>3. chunk[1] \in Nat /\ Len(s) \in Nat /\ k \in Int
          BY <3>1, <1>3, <1>5
        <4>4. t[k] < t[k + 1]
          BY <4>2, <4>3
        <4> QED
          BY <3>1, <4>4
      <3> QED
        BY <3>1, <3>2, <3>3, <3>4, <1>5
    <2> QED
      BY <2>1, <2>2
  <1>10. \A p \in Peers : \A k \in 1 .. Len(out'[p]) : out'[p][k] <= Handled(Other(p))'
    <2> SUFFICES ASSUME NEW p \in Peers, NEW k \in 1 .. Len(out'[p])
                 PROVE  out'[p][k] <= Handled(Other(p))'
      OBVIOUS
    <2>1. CASE p # q
      BY <2>1, <1>1, <1>2, <1>4, <1>5, OtherPeer DEF Rising, q
    <2>2. CASE p = q
      <3>1. k \in 1 .. Len(t) /\ out'[p] = t /\ Handled(Other(p))' = chunk[2]
        <4>1. k \in 1 .. Len(t) /\ out'[p] = t
          BY <2>2 DEF t
        <4>2. Other(p) \in Peers /\ Other(p) = peer
          BY <2>2, <1>2
        <4> QED
          BY <4>1, <4>2, <1>4
      <3>2. CASE k <= Len(s)
        <4>1. k \in 1 .. Len(s)
          BY <3>1, <3>2, <1>5
        <4>2. t[k] = s[k] /\ s[k] \in Int /\ s[k] <= chunk[1] - 1
          BY <4>1, <1>5, <1>7
        <4> QED
          BY <3>1, <4>2, <1>3
      <3>3. CASE k > Len(s)
        <4>1. k \in Len(s) + 1 .. Len(s) + Accepted
          BY <3>1, <3>3, <1>3, <1>5
        <4>2. t[k] = chunk[1] + (k - Len(s)) - 1
          BY <4>1, <1>5
        <4> QED
          BY <3>1, <4>1, <4>2, <1>3, <1>5
      <3> QED
        BY <3>1, <3>2, <3>3, <1>5
    <2> QED
      BY <2>1, <2>2
  <1> QED
    BY <1>8, <1>9, <1>10 DEF Rising

LEMMA WriteErrorOrder ==
  ASSUME TunnelInv, WriteError
  PROVE  PassedInOrder' /\ Rising'
PROOF
  <1>1. ReadInv /\ PassedInOrder /\ Rising /\ stage = "write" /\ stage' # "write"
    BY DEF TunnelInv, WriteError
  <1>2. /\ peer \in Peers /\ Other(peer) \in Peers
        /\ chunk[1] \in Nat /\ chunk[1] <= taken[peer] /\ taken[peer] \in Nat
        /\ out \in [Peers -> Seq(1 .. MaxBytes)]
    BY <1>1, OtherPeer, MaxBytesAssumption DEF ReadInv, TunnelTypeOK, Buffer
  <1>3. /\ Handled(peer) = chunk[1] - 1
        /\ \A p \in Peers : p = peer => Handled(p)' = taken[peer]
        /\ \A p \in Peers : p # peer => Handled(p)' = Handled(p)
        /\ out' = out /\ dropped'[Other(peer)] = TRUE
        /\ \A p \in Peers : p # Other(peer) => dropped'[p] = dropped[p]
    BY <1>1, <1>2 DEF Handled, WriteError, ReadInv, TunnelTypeOK
  <1>4. PassedInOrder'
    BY <1>1, <1>2, <1>3, OtherPeer DEF PassedInOrder
  <1>5. NeverRepeats'
    BY <1>1, <1>3 DEF Rising, NeverRepeats
  <1>6. \A p \in Peers : \A k \in 1 .. Len(out[p]) : out[p][k] <= Handled(Other(p))'
    <2> SUFFICES ASSUME NEW p \in Peers, NEW k \in 1 .. Len(out[p])
                 PROVE  out[p][k] <= Handled(Other(p))'
      OBVIOUS
    <2>1. out[p][k] <= Handled(Other(p)) /\ out[p][k] \in 1 .. MaxBytes
      BY <1>1, <1>2, ElementOfSeq DEF Rising
    <2>2. CASE Other(p) = peer
      <3>1. Handled(Other(p))' = taken[peer] /\ Handled(Other(p)) = chunk[1] - 1
        BY <2>2, <1>2, <1>3
      <3>2. out[p][k] \in Nat /\ out[p][k] <= chunk[1] - 1
        BY <2>1, <3>1, MaxBytesAssumption
      <3> QED
        BY <3>1, <3>2, <1>2
    <2>3. CASE Other(p) # peer
      BY <2>1, <2>3, <1>3, OtherPeer
    <2> QED
      BY <2>2, <2>3
  <1> QED
    BY <1>3, <1>5, <1>4, <1>6 DEF Rising

-----------------------------------------------------------------------------
LEMMA TunnelInvNext == TunnelInv /\ [TunnelNext]_tunnelVars => TunnelInv'
PROOF
  <1> SUFFICES ASSUME TunnelInv, [TunnelNext]_tunnelVars PROVE TunnelInv'
    OBVIOUS
  <1>1. ReadInv
    BY DEF TunnelInv
  <1>2. ASSUME NEW p \in Peers, Arrive(p) \/ EndOfFile(p) \/ Reset(p) \/ Drain(p) PROVE TunnelInv'
    <2>1. ReadInv'
      BY <1>1, <1>2, NetworkReads
    <2>2. UNCHANGED <<out, dropped, taken, stage, peer, chunk>>
      BY <1>2 DEF Arrive, EndOfFile, Reset, Drain
    <2>3. \A r \in Peers : Handled(r)' = Handled(r)
      BY <2>2 DEF Handled
    <2> QED
      BY <2>1, <2>2, <2>3, OrderKept DEF TunnelInv
  <1>3. ASSUME EpollWait \/ NextEvent \/ LastEvent \/ ReadEof \/ ReadNothing \/ ReadError PROVE TunnelInv'
    <2>1. ReadInv'
      BY <1>1, <1>3, LoopReads
    <2>2. UNCHANGED <<out, dropped, taken>> /\ stage # "write" /\ stage' # "write"
      BY <1>3 DEF EpollWait, NextEvent, LastEvent, ReadEof, ReadNothing, ReadError
    <2>3. \A r \in Peers : Handled(r)' = Handled(r)
      BY <2>2 DEF Handled
    <2> QED
      BY <2>1, <2>2, <2>3, OrderKept DEF TunnelInv
  <1>4. CASE ReadData
    BY <1>1, <1>4, ReadDataReads, ReadDataOrder DEF TunnelInv
  <1>5. CASE Write
    BY <1>1, <1>5, WriteReads, WriteOrder DEF TunnelInv
  <1>6. CASE WriteError
    BY <1>1, <1>6, WriteErrorReads, WriteErrorOrder DEF TunnelInv
  <1>7. CASE UNCHANGED tunnelVars
    <2>1. ReadInv'
      BY <1>1, <1>7 DEF tunnelVars, ReadInv, TunnelTypeOK, Counts, Buffer, ChunkLength, Announced,
                        IsAnnounced, Unread, Waiting, Disconnected
    <2>2. \A r \in Peers : Handled(r)' = Handled(r)
      BY <1>7 DEF tunnelVars, Handled
    <2>3. UNCHANGED <<out, dropped>>
      BY <1>7 DEF tunnelVars
    <2> QED
      BY <2>1, <2>2, <2>3, OrderKept DEF TunnelInv
  <1> QED
    BY <1>2, <1>3, <1>4, <1>5, <1>6, <1>7 DEF TunnelNext, Handler

\* The inductive invariant: unread bytes are announced, buf holds the bytes
\* read last, and what was written comes before them.
THEOREM TunnelInvariant == TunnelSpec => []TunnelInv
PROOF
  <1> QED
    BY TunnelInvInit, TunnelInvNext, PTL DEF TunnelSpec

\* Every variable of the tunnel stays in its range; so a write never puts
\* more into a send buffer than fits, nor bytes that no peer has sent.
THEOREM TunnelTypeCorrect == TunnelSpec => []TunnelTypeOK
PROOF
  <1>1. TunnelInv => TunnelTypeOK
    BY DEF TunnelInv, ReadInv
  <1> QED
    BY <1>1, TunnelInvariant, PTL

\* Edge triggering strands no data in connect_handler(), although its loop
\* stops at a short read.
THEOREM TunnelNoStrandedData == TunnelSpec => []NoStrandedData
PROOF
  <1>1. TunnelInv => NoStrandedData
    BY DEF TunnelInv, ReadInv, NoStrandedData, Announced, IsAnnounced, Waiting
  <1> QED
    BY <1>1, TunnelInvariant, PTL

\* Until a write is given up, each peer gets the other's bytes without a gap.
THEOREM TunnelPassedInOrder == TunnelSpec => []PassedInOrder
PROOF
  <1>1. TunnelInv => PassedInOrder
    BY DEF TunnelInv
  <1> QED
    BY <1>1, TunnelInvariant, PTL

\* Also after that, no byte is passed on twice or before an earlier one.
THEOREM TunnelNeverRepeats == TunnelSpec => []NeverRepeats
PROOF
  <1>1. TunnelInv => NeverRepeats
    BY DEF TunnelInv, Rising
  <1> QED
    BY <1>1, TunnelInvariant, PTL

\* connect_handler() returns only for a peer that has ended and whose bytes
\* were all read.
THEOREM TunnelClosedWhenDrained == TunnelSpec => []ClosedWhenDrained
PROOF
  <1>1. TunnelInv => ClosedWhenDrained
    BY DEF TunnelInv, ReadInv, ClosedWhenDrained, Disconnected
  <1> QED
    BY <1>1, TunnelInvariant, PTL

-----------------------------------------------------------------------------
(* A tunnel whose send buffers take all that is sent, and whose peers do   *)
(* not reset their connections, implements a pair of pipes.                *)

\* What the run tunnel_pipe assumes of the sockets.
Ample == SendBuffer >= MaxBytes /\ Resets = FALSE

\* Nothing is ever given up: what waits in the send buffer of p is part of
\* what was passed on to it.
AmpleInv ==
  /\ TunnelInv
  /\ stage # "killed"
  /\ \A p \in Peers :
       /\ dropped[p] = FALSE
       /\ end[p] \in {"open", "fin"}
       /\ unsent[p] <= Handled(Other(p))

LEMMA AmpleInit ==
  ASSUME TunnelInit
  PROVE  AmpleInv
PROOF
  <1>1. TunnelInv
    BY TunnelInvInit
  <1>2. \A p \in Peers : dropped[p] = FALSE /\ end[p] \in {"open", "fin"} /\ unsent[p] = 0
    BY DEF TunnelInit
  <1>3. \A p \in Peers : Handled(Other(p)) = 0
    BY OtherPeer DEF TunnelInit, Handled
  <1>4. stage # "killed"
    BY DEF TunnelInit
  <1> QED
    BY <1>1, <1>2, <1>3, <1>4 DEF AmpleInv

\* The ranges of what is counted.
LEMMA Ranges ==
  ASSUME AmpleInv
  PROVE  /\ peer \in Peers
         /\ \A p \in Peers : /\ arrived[p] \in Nat /\ arrived[p] <= MaxBytes
                             /\ taken[p] \in Nat /\ taken[p] <= arrived[p]
                             /\ unsent[p] \in Nat
                             /\ Handled(p) \in Nat /\ Handled(p) <= taken[p]
PROOF
  <1>1. peer \in Peers
    BY DEF AmpleInv, TunnelInv, ReadInv, TunnelTypeOK
  <1>2. \A p \in Peers : arrived[p] \in 0 .. MaxBytes /\ taken[p] \in 0 .. MaxBytes /\ taken[p] <= arrived[p]
                          /\ unsent[p] \in 0 .. SendBuffer
    BY DEF AmpleInv, TunnelInv, ReadInv, TunnelTypeOK, Counts
  <1>3. \A p \in Peers : Handled(p) \in Nat /\ Handled(p) <= taken[p]
    <2> SUFFICES ASSUME NEW p \in Peers PROVE Handled(p) \in Nat /\ Handled(p) <= taken[p]
      OBVIOUS
    <2>1. CASE stage = "write" /\ peer = p
      <3>1. chunk[1] \in Nat /\ chunk[2] \in Nat
        BY DEF AmpleInv, TunnelInv, ReadInv, TunnelTypeOK
      <3>2. chunk[1] >= 1 /\ chunk[1] <= chunk[2] /\ chunk[2] = taken[p]
        BY <2>1 DEF AmpleInv, TunnelInv, ReadInv, Buffer
      <3> QED
        BY <2>1, <3>1, <3>2 DEF Handled
    <2>2. CASE ~ (stage = "write" /\ peer = p)
      BY <2>2, <1>2, MaxBytesAssumption DEF Handled
    <2> QED
      BY <2>1, <2>2
  <1> QED
    BY <1>1, <1>2, <1>3, MaxBytesAssumption, SendBufferAssumption

\* What was passed on is what the handler is done with.
LEMMA PassedIsHandled ==
  ASSUME AmpleInv
  PROVE  \A p \in Peers : Len(out[Other(p)]) = Handled(p)
PROOF
  <1> SUFFICES ASSUME NEW p \in Peers PROVE Len(out[Other(p)]) = Handled(p)
    OBVIOUS
  <1>1. out[Other(p)] = [k \in 1 .. Handled(p) |-> k]
    BY OtherPeer DEF AmpleInv, TunnelInv, PassedInOrder
  <1>2. Handled(p) \in Nat
    BY Ranges
  <1> QED
    BY <1>1, <1>2

\* There is room for all that was read: a write is never given up.
LEMMA WriteIsWhole ==
  ASSUME AmpleInv, Ample, Write
  PROVE  Accepted = ChunkLength
PROOF
  <1>1. ReadInv /\ stage = "write"
    BY DEF AmpleInv, TunnelInv, Write
  <1>2. peer \in Peers /\ Other(peer) \in Peers /\ Other(Other(peer)) = peer
    BY Ranges, OtherPeer
  <1>3. unsent[Other(peer)] \in Nat /\ unsent[Other(peer)] <= chunk[1] - 1
    BY <1>1, <1>2, Ranges DEF AmpleInv, Handled
  <1>4. /\ chunk[1] \in Nat /\ chunk[2] \in Nat /\ chunk[2] <= MaxBytes
        /\ ChunkLength = chunk[2] - chunk[1] + 1
    BY <1>1, WriteTakes DEF ChunkLength
  <1>5. ChunkLength <= SendBuffer - unsent[Other(peer)]
    BY <1>3, <1>4, MaxBytesAssumption, SendBufferAssumption DEF Ample
  <1>6. SendBuffer - unsent[Other(peer)] \in Int /\ ChunkLength \in Int
    BY <1>3, <1>4, SendBufferAssumption
  <1> QED
    BY <1>5, <1>6 DEF Accepted

\* Every step is a step of the pipes or changes nothing of them.
LEMMA AmpleNext ==
  ASSUME AmpleInv, Ample, [TunnelNext]_tunnelVars
  PROVE  AmpleInv' /\ [PipeView!PipeNext]_(PipeView!pipeVars)
PROOF
  <1>1. TunnelInv'
    BY TunnelInvNext DEF AmpleInv
  <1>2. out \in [Peers -> Seq(1 .. MaxBytes)] /\ end \in [Peers -> {"open", "fin", "rst", "reported", "broken"}]
    BY DEF AmpleInv, TunnelInv, ReadInv, TunnelTypeOK
  <1>3. ASSUME NEW p \in Peers, Arrive(p) PROVE AmpleInv' /\ PipeView!PipeNext
    <2>1. UNCHANGED <<taken, end, out, unsent, dropped, stage, peer, chunk>>
      BY <1>3 DEF Arrive
    <2>2. \A r \in Peers : Handled(Other(r))' = Handled(Other(r))
      BY <2>1 DEF Handled
    <2>3. AmpleInv'
      BY <1>1, <2>1, <2>2 DEF AmpleInv
    <2>4. PipeView!Send(p)
      BY <1>3 DEF Arrive, Running, PipeView!Send
    <2> QED
      BY <2>3, <2>4 DEF PipeView!PipeNext
  <1>4. ASSUME NEW p \in Peers, EndOfFile(p) PROVE AmpleInv' /\ PipeView!PipeNext
    <2>1. UNCHANGED <<arrived, taken, out, unsent, dropped, stage, peer, chunk>>
      BY <1>4 DEF EndOfFile
    <2>2. \A r \in Peers : Handled(Other(r))' = Handled(Other(r))
      BY <2>1 DEF Handled
    <2>3. end' = [end EXCEPT ![p] = "fin"] /\ end[p] = "open"
      BY <1>4 DEF EndOfFile
    <2>4. AmpleInv'
      BY <1>1, <1>2, <2>1, <2>2, <2>3 DEF AmpleInv
    <2>5. {r \in Peers : end'[r] # "open"} = {r \in Peers : end[r] # "open"} \cup {p}
      BY <1>2, <2>3
    <2>6. PipeView!End(p)
      BY <1>4, <2>1, <2>3, <2>5 DEF EndOfFile, Running, PipeView!End
    <2> QED
      BY <2>4, <2>6 DEF PipeView!PipeNext
  <1>5. ASSUME NEW p \in Peers PROVE ~ Reset(p)
    BY DEF Reset, Ample
  <1>6. ASSUME NEW p \in Peers, Drain(p) PROVE AmpleInv' /\ UNCHANGED PipeView!pipeVars
    <2>1. UNCHANGED <<arrived, taken, end, out, dropped, stage, peer, chunk>>
      BY <1>6 DEF Drain
    <2>2. \A r \in Peers : Handled(Other(r))' = Handled(Other(r))
      BY <2>1 DEF Handled
    <2>3. \A r \in Peers : unsent'[r] = unsent[r] \/ unsent'[r] = 0
      BY <1>6 DEF Drain, AmpleInv, TunnelInv, ReadInv, TunnelTypeOK
    <2>4. \A r \in Peers : unsent'[r] <= Handled(Other(r))'
      <3> SUFFICES ASSUME NEW r \in Peers PROVE unsent'[r] <= Handled(Other(r))'
        OBVIOUS
      <3>1. unsent[r] <= Handled(Other(r))
        BY DEF AmpleInv
      <3>2. Other(r) \in Peers
        BY DEF Peers, Other
      <3>3. Handled(Other(r)) \in Nat
        BY <3>2, Ranges
      <3>4. 0 <= Handled(Other(r))
        BY <3>3
      <3>5. Handled(Other(r))' = Handled(Other(r))
        BY <2>2
      <3>6. CASE unsent'[r] = unsent[r]
        BY <3>1, <3>5, <3>6
      <3>7. CASE unsent'[r] = 0
        BY <3>4, <3>5, <3>7
      <3> QED
        BY <2>3, <3>6, <3>7
    <2>5. AmpleInv'
      BY <1>1, <2>1, <2>4 DEF AmpleInv
    <2> QED
      BY <2>1, <2>5 DEF PipeView!pipeVars
  <1>7. ASSUME EpollWait \/ NextEvent \/ ReadEof \/ ReadNothing
        PROVE  AmpleInv' /\ UNCHANGED PipeView!pipeVars
    <2>1. /\ UNCHANGED <<arrived, taken, end, out, unsent, dropped>>
          /\ stage \notin {"write", "closed"} /\ stage' \notin {"write", "closed", "killed"}
      BY <1>7 DEF EpollWait, NextEvent, ReadEof, ReadNothing
    <2>2. \A r \in Peers : Handled(Other(r))' = Handled(Other(r))
      BY <2>1 DEF Handled
    <2>3. AmpleInv'
      BY <1>1, <2>1, <2>2 DEF AmpleInv
    <2> QED
      BY <2>1, <2>3 DEF PipeView!pipeVars
  <1>8. CASE LastEvent
    <2>1. /\ UNCHANGED <<arrived, taken, end, out, unsent, dropped, disconnect>>
          /\ stage = "next" /\ stage' = (IF disconnect THEN "closed" ELSE "wait")
      BY <1>8 DEF LastEvent
    <2>2. \A r \in Peers : Handled(Other(r))' = Handled(Other(r))
      BY <2>1 DEF Handled
    <2>3. AmpleInv'
      BY <1>1, <2>1, <2>2 DEF AmpleInv
    <2>4. CASE disconnect
      <3>1. PICK p \in Peers : end[p] # "open" /\ Unread(p) = 0
        BY <2>4 DEF AmpleInv, TunnelInv, ReadInv, Disconnected
      <3>2. Len(out[Other(p)]) = taken[p]
        BY <2>1, PassedIsHandled DEF Handled
      <3>3. taken[p] = arrived[p]
        BY <3>1, Ranges DEF Unread
      <3>4. PipeView!Shut
        BY <2>1, <2>4, <3>1, <3>2, <3>3 DEF PipeView!Shut
      <3> QED
        BY <2>3, <3>4 DEF PipeView!PipeNext
    <2>5. CASE ~ disconnect
      BY <2>1, <2>3, <2>5 DEF PipeView!pipeVars
    <2> QED
      BY <2>4, <2>5
  <1>9. CASE ReadData
    <2>1. /\ UNCHANGED <<arrived, end, out, unsent, dropped>>
          /\ stage # "closed" /\ stage' = "write"
      BY <1>9 DEF ReadData
    <2>2. \A r \in Peers : Len(out'[Other(r)]) = Handled(r)'
      <3> SUFFICES ASSUME NEW r \in Peers PROVE Len(out'[Other(r)]) = Handled(r)'
        OBVIOUS
      <3>1. Handled(r)' = Handled(r)
        <4>1. /\ chunk'[1] = taken[peer] + 1 /\ stage = "read" /\ peer' = peer
              /\ \A x \in Peers : x # peer => taken'[x] = taken[x]
          BY <1>9 DEF ReadData, AmpleInv, TunnelInv, ReadInv, TunnelTypeOK
        <4>2. taken[peer] \in Nat
          BY Ranges
        <4> QED
          BY <4>1, <4>2, <2>1 DEF Handled
      <3> QED
        BY <3>1, <2>1, PassedIsHandled
    <2>3. \A r \in Peers : unsent'[r] <= Handled(Other(r))'
      BY <2>1, <2>2, PassedIsHandled, OtherPeer DEF AmpleInv
    <2>4. AmpleInv'
      BY <1>1, <2>1, <2>3 DEF AmpleInv
    <2> QED
      BY <2>1, <2>4 DEF PipeView!pipeVars
  <1>10. CASE Write
    <2> DEFINE q == Other(peer)
    <2>1. ReadInv /\ stage = "write"
      BY <1>10 DEF AmpleInv, TunnelInv, Write
    <2>2. /\ peer \in Peers /\ q \in Peers /\ Other(q) = peer
          /\ \A r \in Peers : r # peer => Other(r) # q
          /\ \A r \in Peers : r # q => Other(r) # peer
      BY Ranges, OtherPeer
    <2>3. /\ Accepted = ChunkLength /\ ChunkLength \in Nat /\ ChunkLength >= 1
          /\ ChunkLength = chunk[2] - chunk[1] + 1 /\ chunk[1] \in Nat /\ chunk[2] = taken[peer]
      BY <1>10, <2>1, WriteIsWhole, WriteTakes DEF ChunkLength
    <2>4. /\ Len(out'[q]) = Len(out[q]) + ChunkLength
          /\ \A r \in Peers : r # q => out'[r] = out[r]
      BY <1>10, <2>1, <2>3, WriteAppends
    <2>5. /\ UNCHANGED <<arrived, taken, end, peer>>
          /\ stage' \notin {"write", "closed", "killed"}
      BY <1>10 DEF Write
    <2>6. Len(out[q]) = chunk[1] - 1
      BY <2>1, <2>2, PassedIsHandled DEF Handled
    <2>7. Len(out'[q]) = taken[peer] /\ taken[peer] \in Nat
      BY <2>2, <2>3, <2>4, <2>6, Ranges
    <2>8. AmpleInv'
      <3>1. \A r \in Peers : dropped'[r] = FALSE
        <4>1. dropped' = [dropped EXCEPT ![q] = dropped[q] \/ Accepted < ChunkLength]
          BY <1>10, <2>1, WriteTakes
        <4>2. ~ (Accepted < ChunkLength)
          BY <2>3
        <4>3. dropped \in [Peers -> BOOLEAN] /\ \A r \in Peers : dropped[r] = FALSE
          BY DEF AmpleInv, TunnelInv, ReadInv, TunnelTypeOK
        <4> HIDE DEF q
        <4> QED
          BY <4>1, <4>2, <4>3, Zenon
      <3>2. \A r \in Peers : r = peer => Handled(r)' = taken[peer]
        BY <2>5 DEF Handled
      <3>3. \A r \in Peers : r # peer => Handled(r)' = Handled(r)
        BY <2>5 DEF Handled
      <3>4. unsent'[q] = unsent[q] + ChunkLength /\ \A r \in Peers : r # q => unsent'[r] = unsent[r]
        BY <1>10, <2>1, <2>2, <2>3, WriteTakes DEF ReadInv, TunnelTypeOK
      <3>5. unsent[q] \in Nat /\ unsent[q] <= chunk[1] - 1
        BY <2>1, <2>2, Ranges DEF AmpleInv, Handled
      <3>6. unsent'[q] <= taken[peer]
        BY <2>3, <2>7, <3>4, <3>5
      <3>7. \A r \in Peers : unsent'[r] <= Handled(Other(r))'
        <4> SUFFICES ASSUME NEW r \in Peers PROVE unsent'[r] <= Handled(Other(r))'
          OBVIOUS
        <4>1. CASE r = q
          <5>1. Other(r) \in Peers /\ Other(r) = peer
            BY <4>1, <2>2
          <5> QED
            BY <4>1, <5>1, <3>2, <3>6
        <4>2. CASE r # q
          <5>1. Other(r) \in Peers /\ Other(r) # peer
            BY <4>2, <2>2, OtherPeer
          <5>2. unsent'[r] = unsent[r] /\ Handled(Other(r))' = Handled(Other(r))
            BY <4>2, <5>1, <3>3, <3>4
          <5> QED
            BY <5>2 DEF AmpleInv
        <4> QED
          BY <4>1, <4>2
      <3> QED
        BY <1>1, <2>5, <3>1, <3>7 DEF AmpleInv
    <2>9. PipeView!Pass(peer)
      <3> DEFINE passed == [r \in Peers |-> Len(out[Other(r)])]
      <3>1. [r \in Peers |-> Len(out'[Other(r)])] = [passed EXCEPT ![peer] = taken[peer]]
        <4>1. \A r \in Peers : Len(out'[Other(r)]) = IF r = peer THEN taken[peer] ELSE Len(out[Other(r)])
          BY <2>2, <2>4, <2>7, OtherPeer
        <4>2. \A r \in Peers : Len(out'[Other(r)]) = IF r = peer THEN taken[peer] ELSE passed[r]
          BY <4>1, Zenon
        <4>3. DOMAIN passed = Peers
          BY Zenon
        <4> HIDE DEF passed
        <4>4. [passed EXCEPT ![peer] = taken[peer]] =
                 [r \in Peers |-> IF r = peer THEN taken[peer] ELSE passed[r]]
          BY <4>3, Zenon
        <4> QED
          BY <4>2, <4>4, Zenon
      <3>2. passed[peer] = chunk[1] - 1
        BY <2>2, <2>6
      <3>3. taken[peer] \in passed[peer] + 1 .. arrived[peer]
        BY <2>2, <2>3, <3>2, Ranges
      <3> QED
        BY <2>1, <2>5, <3>1, <3>3 DEF PipeView!Pass
    <2> QED
      BY <2>2, <2>8, <2>9 DEF PipeView!PipeNext
  <1>11. ~ ReadError /\ ~ WriteError
    BY Ranges, OtherPeer DEF AmpleInv, ReadError, WriteError
  <1>12. CASE UNCHANGED tunnelVars
    <2>1. \A r \in Peers : Handled(Other(r))' = Handled(Other(r))
      BY <1>12 DEF tunnelVars, Handled
    <2>2. AmpleInv'
      BY <1>1, <1>12, <2>1 DEF AmpleInv, tunnelVars
    <2> QED
      BY <1>12, <2>2 DEF tunnelVars, PipeView!pipeVars
  <1> QED
    BY <1>3, <1>4, <1>5, <1>6, <1>7, <1>8, <1>9, <1>10, <1>11, <1>12 DEF TunnelNext, Handler

LEMMA PipeStarts ==
  ASSUME TunnelInit
  PROVE  PipeView!PipeInit
BY OtherPeer DEF TunnelInit, PipeView!PipeInit

\* connect_handler() is a pair of pipes: in each direction the bytes come out
\* as they went in, and it returns only when all of an ended peer's bytes were
\* passed on, provided that send buffers do not fill up and no peer resets.
THEOREM TunnelImplementsPipe ==
  ASSUME Ample
  PROVE  TunnelSpec => ImplementsPipe
PROOF
  <1>1. TunnelInit => AmpleInv /\ PipeView!PipeInit
    BY AmpleInit, PipeStarts
  <1>2. AmpleInv /\ [TunnelNext]_tunnelVars => AmpleInv' /\ [PipeView!PipeNext]_(PipeView!pipeVars)
    BY AmpleNext
  <1> QED
    BY <1>1, <1>2, PTL DEF TunnelSpec, ImplementsPipe, PipeView!PipeSpec
=============================================================================
