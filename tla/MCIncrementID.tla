---------------------------- MODULE MCIncrementID ----------------------------
(* Two clients, each calling InitIncrementIDDoc once and IncrementBatchID  *)
(* twice, with a negative, a zero and two positive batch sizes.            *)
EXTENDS IncrementID

CONSTANTS c1, c2

MCClients == {c1, c2}
MCBatches == {-1, 0, 1, 2}
=============================================================================
