------------------------------ MODULE MCI64Map ------------------------------
(* I64Map for TLC: keys 0 and 32 share shard 5, key 1 is in shard 18.     *)
EXTENDS I64Map, TLC

CONSTANTS g1, g2, v1

MCThreads == {g1, g2}
MCKeys == {0, 32, 1}
MCVals == {v1}
MCShards == {5, 18}

\* Both goroutines may call every operation of the map.
OpsAll == [t \in MCThreads |-> AllOps]
=============================================================================
