------------------------------ MODULE MCHashRing ------------------------------
(* Three nodes with two virtual spots each: every order of the six spots   *)
(* around the ring, targets before, on, between and after the spots.       *)
(* MaxRingLen 6 lets a node be added twice while another is on the ring.   *)
EXTENDS HashRing

CONSTANTS n1, n2, n3

MCNodes == {n1, n2, n3}
=============================================================================
