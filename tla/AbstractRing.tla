----------------------------- MODULE AbstractRing -----------------------------
(***************************************************************************)
(* What a consistent-hash ring promises (spec 4.6, 4.7): a set of member   *)
(* nodes, each owning VirtualSpots positions on the ring, and a routing    *)
(* function that sends a target position to the owner of the first spot   *)
(* at or after it, wrapping to the first spot of the ring.  The spots   *)
(* belong to their node: Spots \subseteq Nodes \X Nat.                     *)
(*                                                                         *)
(* The positions of the spots are chosen once (they are hashes of          *)
(* "name:i") and never change.                                             *)
(***************************************************************************)
EXTENDS Naturals, FiniteSets, FiniteSetsExt, Functions

CONSTANTS Nodes,      \* node names
          Spots,      \* the virtual spots <<node, i>>
          Positions,  \* positions spots may have
          Targets,    \* positions GetNode may be asked for
          None        \* GetNode's "", false

VARIABLES members,       \* the nodes on the ring
          owner,         \* the node each target position routes to
          pos            \* the position of spot <<n, i>>

avars == <<members, owner, pos>>

\* The node a target routes to when the ring holds the spots of ms.
Route(ms, p, t) ==
    LET on    == {s \in Spots : s[1] \in ms}
        after == {s \in on : p[s] >= t}
        first(S) == CHOOSE s \in S : \A r \in S : p[s] <= p[r]
    IN  IF on = {} THEN None
        ELSE IF after # {} THEN first(after)[1] ELSE first(on)[1]

RouteAll(ms, p) == [t \in Targets |-> Route(ms, p, t)]

AInit ==
    /\ members = {}
    /\ pos \in Injection(Spots, Positions)
    /\ owner = RouteAll({}, pos)

Join(n) ==
    /\ members' = members \cup {n}
    /\ owner' = RouteAll(members', pos)
    /\ UNCHANGED pos

Leave(n) ==
    /\ members' = members \ {n}
    /\ owner' = RouteAll(members', pos)
    /\ UNCHANGED pos

ANext == \E n \in Nodes : Join(n) \/ Leave(n)

ASpec == AInit /\ [][ANext]_avars

=============================================================================
