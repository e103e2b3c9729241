---------------------------- MODULE MCWorkerPool ----------------------------
(* A small instance of WorkerPool for TLC.                                 *)
EXTENDS WorkerPool

CONSTANTS c1, c2, c3, c4

\* One address length that is also a thread's index, one that is not.
MCAddrLens == {0, 128}
ThreeConns == {c1, c2, c3}
FourConns  == {c1, c2, c3, c4}
=============================================================================
