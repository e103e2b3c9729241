------------------------ MODULE MCConcurrentHashmap -------------------------
(* A small instance of ConcurrentHashmap for TLC.                          *)
EXTENDS ConcurrentHashmap

CONSTANTS t1, t2, m1, m2, m3

TwoThreads == {t1, t2}
Entries    == {m1, m2, m3}

\* Neither threads nor addresses are told apart.
MapSymmetry == Permutations(TwoThreads) \cup Permutations(Entries)
=============================================================================
