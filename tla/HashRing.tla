------------------------------- MODULE HashRing -------------------------------
(***************************************************************************)
(* The consistent-hash rings of package consistenthash: HashRing           *)
(* (src/unnamed/part_008, string keys) and Int64HashRing                   *)
(* (src/consistenthash/int64_ketama.go, int64 keys), which run the same    *)
(* algorithm.  Every method holds the ring's RWMutex for its whole body,   *)
(* so AddNode and RemoveNode are one atomic step each and GetNode is a     *)
(* function of the state.                                                  *)
(*                                                                         *)
(* A spot's hash is the murmur3 hash of "name:i" (its low 32 bits for      *)
(* HashRing, all 64 for Int64HashRing); the model takes every assignment   *)
(* of distinct positions to the spots, so every order of the spots around *)
(* the ring is checked.  A run may override PositionAssignments to let     *)
(* two spots share a position, as two low-32-bit hashes may.  GetNode is   *)
(* given the key's position: the hash of a string key, or uint64(key) for  *)
(* an int64 key.                                                           *)
(***************************************************************************)
EXTENDS Naturals, Sequences, FiniteSets, SequencesExt

CONSTANTS Nodes,            \* node names
          VirtualSpotsArg,  \* the argument of NewRing
          MaxRingLen,       \* bound on len(h.nodes)
          None

VARIABLES nodes,   \* h.nodes: [nodeName, key, hash] records
          pos      \* the hash of the spot "name:i", fixed

vars == <<nodes, pos>>

DefaultVirtualSpots == 160

\* NewRing: virtualSpots <= 0 defaults to DefaultVirtualSpots.
virtualSpots == IF VirtualSpotsArg <= 0 THEN DefaultVirtualSpots
                                        ELSE VirtualSpotsArg

\* The spots "name:i"; their hashes are distinct even positions, so that
\* odd targets fall between two spots.
Spots == Nodes \X (0 .. virtualSpots - 1)
Positions == {2 * i : i \in 1 .. Cardinality(Spots)}
Targets == 0 .. 2 * Cardinality(Spots) + 1

\* The hashes murmur3 may give the spots: distinct, unless a run overrides
\* this with assignments that collide.
PositionAssignments == Injection(Spots, Positions)

\* sort.Sort is pdqsort, which sorts a slice of at most 12 elements by
\* insertion sort: the order of equal hashes is then the order before.
ASSUME MaxRingLen <= 12

-----------------------------------------------------------------------------
(* sort.Search and GetNode                                                 *)

\* sort.Search(n, f): binary search over [i, j) for the first index where
\* f holds, with f(i) = h.nodes[i].hash >= target.
RECURSIVE SearchFrom(_, _, _, _)
SearchFrom(s, t, i, j) ==
    IF i >= j THEN i
    ELSE LET h == (i + j) \div 2 IN
         IF ~(s[h + 1].hash >= t) THEN SearchFrom(s, t, h + 1, j)
                                  ELSE SearchFrom(s, t, i, h)

Search(s, t) == SearchFrom(s, t, 0, Len(s))

\* GetNode: ("", false) on an empty ring; else the owner of the first spot
\* whose hash is >= the target, index len(h.nodes) wrapping to 0.
GetNode(t) ==
    IF nodes = <<>> THEN None
    ELSE LET idx == Search(nodes, t) IN
         nodes[(IF idx = Len(nodes) THEN 0 ELSE idx) + 1].nodeName

Abs == INSTANCE AbstractRing WITH
         members <- {nodes[i].nodeName : i \in DOMAIN nodes},
         owner <- [t \in Targets |-> GetNode(t)]

RingNode == [nodeName : Nodes, key : 0 .. virtualSpots - 1, hash : Positions]

-----------------------------------------------------------------------------

TypeOK ==
    /\ pos \in [Spots -> Positions]
    /\ nodes \in Seq(RingNode)
    \* a ring node carries the hash of its own "name:i"
    /\ \A i \in DOMAIN nodes : nodes[i].hash = pos[<<nodes[i].nodeName, nodes[i].key>>]

Init ==
    /\ nodes = <<>>
    /\ pos \in PositionAssignments

ByHash(a, b) == a.hash < b.hash

\* sort.Sort(h.nodes) on a ring of at most 12 spots: insertion sort by
\* Less, which moves an element only past greater hashes.
SortByHash(s) ==
    LET ix == [i \in DOMAIN s |-> <<s[i], i>>]
        sorted == SortSeq(ix, LAMBDA a, b : ByHash(a[1], b[1])
                                  \/ (a[1].hash = b[1].hash /\ a[2] < b[2]))
    IN  [i \in DOMAIN s |-> sorted[i][1]]

\* The virtual spots AddNode builds for nodeName, i counting from 0.
NewSpots(n) ==
    [i \in 1 .. virtualSpots |->
        [nodeName |-> n, key |-> i - 1, hash |-> pos[<<n, i - 1>>]]]

\* Mutant of AddNode: hasher.Sum64 is taken once, before the loop.
AddNodeOneHash(n) ==
    /\ Len(nodes) + virtualSpots <= MaxRingLen
    /\ nodes' = SortByHash(nodes \o [i \in 1 .. virtualSpots |->
                   [nodeName |-> n, key |-> i - 1, hash |-> pos[<<n, 0>>]]])
    /\ UNCHANGED pos

\* AddNode: append the spots (again, if the node is on the ring already)
\* and sort.Sort by hash.
AddNode(n) ==
    /\ Len(nodes) + virtualSpots <= MaxRingLen
    /\ nodes' = SortByHash(nodes \o NewSpots(n))
    /\ UNCHANGED pos

\* Mutant of RemoveNode: only the first spot of the node is filtered out.
RemoveNodeFirst(n) ==
    /\ nodes' = RemoveFirstMatch(nodes, LAMBDA r : r.nodeName = n)
    /\ UNCHANGED pos

\* RemoveNode: filter, in order, the spots not owned by nodeName.
RemoveNode(n) ==
    /\ nodes' = SelectSeq(nodes, LAMBDA r : r.nodeName # n)
    /\ UNCHANGED pos

Next == \E n \in Nodes : AddNode(n) \/ RemoveNode(n)

\* The ring may stop growing at MaxRingLen, but RemoveNode is always enabled.
Spec == Init /\ [][Next]_vars

-----------------------------------------------------------------------------
(* Properties                                                              *)

Members == {nodes[i].nodeName : i \in DOMAIN nodes}

\* Spec 4.6/4.7 routing invariant: the binary search over the sorted,
\* filtered h.nodes routes every target as the abstract ring does, after
\* any sequence of AddNode (duplicates included) and RemoveNode.
RoutesAsAbstractRing == Abs!ASpec

=============================================================================
