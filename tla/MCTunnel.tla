------------------------------ MODULE MCTunnel ------------------------------
(* Small instances of Tunnel for TLC.                                      *)
EXTENDS Tunnel

\* A peer never sends more than the send buffer holds.
AmpleBuffer == MaxBytes
=============================================================================
