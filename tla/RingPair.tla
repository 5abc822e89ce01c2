------------------------------- MODULE RingPair -------------------------------
(***************************************************************************)
(* Two processes of a cluster, each with its own HashRing built by         *)
(* NewRing with the same virtualSpots.  Each learns of the same nodes and  *)
(* calls AddNode and RemoveNode on its own ring, in its own order.  Both   *)
(* hash "name:i" with murmur3, so the spots have the same positions on     *)
(* both rings.  Sharding works only if both processes send a key to the    *)
(* same node once their rings hold the same nodes.                         *)
(***************************************************************************)
EXTENDS Naturals, Sequences

CONSTANTS Nodes, VirtualSpotsArg, MaxRingLen, None

VARIABLES nodesA,  \* h.nodes of the first process's ring
          nodesB,  \* h.nodes of the second process's ring
          pos      \* the hash of "name:i", the same for both

vars == <<nodesA, nodesB, pos>>

A == INSTANCE HashRing WITH nodes <- nodesA
B == INSTANCE HashRing WITH nodes <- nodesB

TypeOK == A!TypeOK /\ B!TypeOK

Init == A!Init /\ B!Init

\* One process calls a method of its ring; the other ring is untouched.
StepA == \E n \in Nodes : (A!AddNode(n) \/ A!RemoveNode(n)) /\ UNCHANGED nodesB
StepB == \E n \in Nodes : (B!AddNode(n) \/ B!RemoveNode(n)) /\ UNCHANGED nodesA

Next == StepA \/ StepB

Spec == Init /\ [][Next]_vars

-----------------------------------------------------------------------------
(* Properties                                                              *)

\* Spec 4.6, "deterministic" mapping: two rings that hold the same nodes
\* route every key position to the same node, whatever order AddNode and
\* RemoveNode were called in on each.
RingsAgree ==
    A!Members = B!Members => \A t \in A!Targets : A!GetNode(t) = B!GetNode(t)

=============================================================================
