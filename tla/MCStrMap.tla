------------------------------ MODULE MCStrMap ------------------------------
(* Two goroutines on one string-keyed map, with keys "a" (shard 12), "b"   *)
(* (shard 5) and "e" (shard 0), built with a custom shard count: 33 (every *)
(* key routed; snapshot's and Keys' 33rd goroutine left over) or 4.      *)
EXTENDS StrMap

CONSTANTS g1, g2, v1

MCThreads == {g1, g2}
MCKeys == {<<97>>, <<98>>}
MCKeysSmall == {<<97>>, <<101>>}
MCVals == {v1}

\* g1 reads across shards while g2 writes.
OpsSnapshot ==
    (g1 :> {"Items", "Keys", "Count", "MGet"}) @@ (g2 :> {"Set", "Remove", "MSet", "Clear"})

\* g1 calls Keys while g2 writes.
OpsKeys == (g1 :> {"Keys"}) @@ (g2 :> {"Set", "Remove"})

\* Every operation for both goroutines.
OpsAll == [t \in MCThreads |-> KeyOps \cup LoopOps]
=============================================================================
