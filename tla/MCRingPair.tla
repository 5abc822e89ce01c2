------------------------------ MODULE MCRingPair ------------------------------
(* Two nodes with two virtual spots each on four positions, two of which   *)
(* may share one: a single collision of two 32-bit hashes.  Each ring      *)
(* holds up to four spots, so both nodes can be on it.                     *)
EXTENDS RingPair, FiniteSets, Functions

CONSTANTS n1, n2

MCNodes == {n1, n2}

\* Every assignment of positions to the spots with at most one collision.
MCPositionAssignments ==
    {p \in [A!Spots -> A!Positions] : Cardinality(Range(p)) >= Cardinality(A!Spots) - 1}
=============================================================================
