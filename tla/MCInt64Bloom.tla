---------------------------- MODULE MCInt64Bloom ----------------------------
(* NewInt64Bloom(3, 0.1): m = 15 bits, k = 4 hash functions.  Three keys:  *)
(* 5, 2^32 + 3 and 70000, whose bit sets overlap (5 and 70000 share bit 0) *)
(* so that a Contains can find some of its bits set by another key's Add. *)
EXTENDS Int64Bloom

CONSTANTS g1, g2

MCThreads == {g1, g2}
MCKeys == {[hi |-> 0, lo |-> 5], [hi |-> 1, lo |-> 3], [hi |-> 0, lo |-> 70000]}
=============================================================================
