-------------------------------- MODULE Pipe ---------------------------------
(***************************************************************************)
(* What a CONNECT tunnel promises its two peers: in each direction the     *)
(* bytes come out as they went in, in order and without a gap, and the     *)
(* tunnel is shut only when a peer has ended and all it sent was passed on. *)
(***************************************************************************)
EXTENDS Integers

CONSTANTS Peers, MaxBytes

VARIABLES
  sent,       \* how many bytes each peer has sent
  passed,     \* how many of them the tunnel has written to the other peer
  ended,      \* the peers that have ended their stream
  open        \* is the tunnel open?

pipeVars == <<sent, passed, ended, open>>

PipeInit ==
  /\ sent = [p \in Peers |-> 0]
  /\ passed = [p \in Peers |-> 0]
  /\ ended = {}
  /\ open = TRUE

Send(p) ==
  /\ open /\ p \notin ended /\ sent[p] < MaxBytes
  /\ \E n \in sent[p] + 1 .. MaxBytes : sent' = [sent EXCEPT ![p] = n]
  /\ UNCHANGED <<passed, ended, open>>

End(p) ==
  /\ open /\ p \notin ended
  /\ ended' = ended \cup {p}
  /\ UNCHANGED <<sent, passed, open>>

Pass(p) ==
  /\ open
  /\ \E n \in passed[p] + 1 .. sent[p] : passed' = [passed EXCEPT ![p] = n]
  /\ UNCHANGED <<sent, ended, open>>

Shut ==
  /\ open
  /\ \E p \in ended : passed[p] = sent[p]
  /\ open' = FALSE
  /\ UNCHANGED <<sent, passed, ended>>

PipeNext == Shut \/ \E p \in Peers : Send(p) \/ End(p) \/ Pass(p)

PipeSpec == PipeInit /\ [][PipeNext]_pipeVars
=============================================================================
