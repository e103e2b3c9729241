------------------------------- MODULE MCProxy -------------------------------
(* A small instance of Proxy for TLC.                                       *)
EXTENDS Proxy, TLC

CONSTANTS c1, c2, c3

\* One value of clientlen: what accept() does to j is WorkerPool's business.
MCAddrLens == {128}
TwoConns   == {c1, c2}
ThreeConns == {c1, c2, c3}

\* Too few descriptors for two clients and a tunnel; enough for everything.
FewFds  == 1 .. 4
ManyFds == 1 .. 7

\* Clients are interchangeable.
ClientSymmetry == Permutations(Conns)
=============================================================================
