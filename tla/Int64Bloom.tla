------------------------------ MODULE Int64Bloom ------------------------------
(***************************************************************************)
(* The Int64BloomFilter of package bloom (src/unnamed/part_003) over the   *)
(* Bitmap of src/bitmap/bitmap.go, used by concurrent goroutines.          *)
(*                                                                         *)
(* Size and K are the m and k that estimateParameters derives from n and p *)
(* (floating point, outside TLC) and that NewInt64Bloom clamps to k <= 8.  *)
(* An int64 key is given by its high and low 32-bit halves, and the hash   *)
(* functions are computed on them as the code computes them.  Each         *)
(* bf.bitmap.Set / IsSet call of Add and Contains is one step, so Adds and *)
(* Contains of several goroutines interleave hash function by hash         *)
(* function.                                                               *)
(***************************************************************************)
EXTENDS Naturals, Sequences, Bitmap

CONSTANTS K,          \* number of hash functions, after the clamp to 8
          Threads,    \* goroutines calling the filter
          Keys,       \* int64 keys as [hi, lo] halves
          MaxLen,     \* longest data slice passed to AddMany
          MaxCalls    \* bound on the calls of one goroutine

ASSUME /\ K \in 1..8 /\ Size >= 1
       /\ \A d \in Keys : DOMAIN d = {"hi", "lo"} /\ d.hi >= 0 /\ d.lo >= 0
       /\ NoOwner \notin Threads

VARIABLES
    pc,        \* "idle", "add", "contains", "mset", "msetLoop"
    call,      \* the call in progress: [op, d] or [op, data]
    k,         \* the hash function the loop of Add / Contains is at
    idxs,      \* the indexes AddMany computed and passes to MSet
    calls,     \* calls made by each goroutine
    added,     \* keys whose Add has returned
    res        \* the result of the last Contains

vars == <<bits, mutex, crashed, pc, call, k, idxs, calls, added, res>>

-----------------------------------------------------------------------------
(* createInt64HashFunctions                                                *)

\* uint32(uint64(data) >> 32), uint32(data), uint32(uint64(data)>>16) ^ uint32(data)
Base(j, d) ==
    CASE j = 0 -> d.hi
      [] j = 1 -> d.lo
      [] j = 2 -> ((d.hi % 2^16) * 2^16 + d.lo \div 2^16) ^^ d.lo

\* hash function i: base[i % 3](data) * (i/3 + 1).  The uint32 product
\* does not wrap for the keys of a model (see the ASSUME below).
HashFn(i, d) == Base(i % 3, d) * (i \div 3 + 1)

\* h := fn(data) % bf.size
HashIndex(i, d) == HashFn(i, d) % Size

ASSUME \A d \in Keys, i \in 0 .. K - 1 : HashFn(i, d) <= 2147483647

\* The indexes AddMany hands to MSet: indexes[i] is assigned once per hash
\* function inside the inner loop, so the last hash function's index stays.
AddManyIndexes(data) == [i \in 1 .. Len(data) |-> HashIndex(K - 1, data[i])]

-----------------------------------------------------------------------------

TypeOK ==
    /\ BitmapTypeOK
    /\ pc \in [Threads -> {"idle", "add", "contains", "mset", "msetLoop"}]
    /\ k \in [Threads -> 0 .. K]
    /\ calls \in [Threads -> 0 .. MaxCalls]
    /\ added \subseteq Keys
    /\ res \in [Threads -> BOOLEAN]

Init ==
    /\ BitmapInit
    /\ pc = [t \in Threads |-> "idle"]
    /\ call = [t \in Threads |-> [op |-> "none"]]
    /\ k = [t \in Threads |-> 0]
    /\ idxs = [t \in Threads |-> <<>>]
    /\ calls = [t \in Threads |-> 0]
    /\ added = {}
    /\ res = [t \in Threads |-> FALSE]

Alive == ~crashed

\* A goroutine begins a call.
CallAdd(t, d) ==
    /\ Alive /\ pc[t] = "idle" /\ calls[t] < MaxCalls
    /\ pc' = [pc EXCEPT ![t] = "add"]
    /\ call' = [call EXCEPT ![t] = [op |-> "add", d |-> d]]
    /\ k' = [k EXCEPT ![t] = 0]
    /\ calls' = [calls EXCEPT ![t] = @ + 1]
    /\ UNCHANGED <<bits, mutex, crashed, idxs, added, res>>

CallContains(t, d) ==
    /\ Alive /\ pc[t] = "idle" /\ calls[t] < MaxCalls
    /\ pc' = [pc EXCEPT ![t] = "contains"]
    /\ call' = [call EXCEPT ![t] = [op |-> "contains", d |-> d]]
    /\ k' = [k EXCEPT ![t] = 0]
    /\ calls' = [calls EXCEPT ![t] = @ + 1]
    /\ UNCHANGED <<bits, mutex, crashed, idxs, added, res>>

\* Add: one iteration, bf.bitmap.Set(int(h)) for hash function k; after
\* the last one Add returns.
AddStep(t) ==
    /\ Alive /\ pc[t] = "add"
    /\ Set(HashIndex(k[t], call[t].d))
    /\ IF k[t] + 1 = K
         THEN /\ pc' = [pc EXCEPT ![t] = "idle"]
              /\ added' = added \cup {call[t].d}
         ELSE UNCHANGED <<pc, added>>
    /\ k' = [k EXCEPT ![t] = @ + 1]
    /\ UNCHANGED <<call, idxs, calls, res>>

\* Contains: one iteration, bf.bitmap.IsSet(int(h)); return false at the
\* first clear bit, true after the last function.
ContainsStep(t) ==
    /\ Alive /\ pc[t] = "contains"
    /\ IsSet(HashIndex(k[t], call[t].d))
    /\ LET hit == BitIsSet(bits, HashIndex(k[t], call[t].d)) IN
       IF ~hit \/ k[t] + 1 = K
         THEN /\ pc' = [pc EXCEPT ![t] = "idle"]
              /\ res' = [res EXCEPT ![t] = hit]
         ELSE UNCHANGED <<pc, res>>
    /\ k' = [k EXCEPT ![t] = @ + 1]
    /\ UNCHANGED <<call, idxs, calls, added>>

\* AddMany(data): compute the indexes (no shared state), then MSet.
CallAddMany(t, data) ==
    /\ Alive /\ pc[t] = "idle" /\ calls[t] < MaxCalls
    /\ pc' = [pc EXCEPT ![t] = "mset"]
    /\ call' = [call EXCEPT ![t] = [op |-> "addmany", data |-> data]]
    /\ idxs' = [idxs EXCEPT ![t] = AddManyIndexes(data)]
    /\ k' = [k EXCEPT ![t] = 1]
    /\ calls' = [calls EXCEPT ![t] = @ + 1]
    /\ UNCHANGED <<bits, mutex, crashed, added, res>>

\* bf.bitmap.MSet(indexes): Lock ...
AddManyLock(t) ==
    /\ Alive /\ pc[t] = "mset"
    /\ MSetLock(t)
    /\ pc' = [pc EXCEPT ![t] = "msetLoop"]
    /\ UNCHANGED <<call, k, idxs, calls, added, res>>

\* ... b.Set(indexes[k]) for each index, k counting from 1 ...
AddManySet(t) ==
    /\ Alive /\ pc[t] = "msetLoop" /\ k[t] <= Len(idxs[t])
    /\ MSetIndex(t, idxs[t][k[t]])
    /\ k' = [k EXCEPT ![t] = @ + 1]
    /\ UNCHANGED <<pc, call, idxs, calls, added, res>>

\* ... and Unlock; AddMany returns.
AddManyUnlock(t) ==
    /\ Alive /\ pc[t] = "msetLoop" /\ k[t] > Len(idxs[t])
    /\ MSetUnlock(t)
    /\ pc' = [pc EXCEPT ![t] = "idle"]
    /\ added' = added \cup Range(call[t].data)
    /\ UNCHANGED <<call, k, idxs, calls, res>>

-----------------------------------------------------------------------------

Finished == crashed \/ \A t \in Threads : pc[t] = "idle" /\ calls[t] = MaxCalls

\* Data slices AddMany may be given.
Datas == UNION {[1 .. n -> Keys] : n \in 0 .. MaxLen}

Step(t) ==
    \/ AddStep(t) \/ ContainsStep(t)
    \/ AddManyLock(t) \/ AddManySet(t) \/ AddManyUnlock(t)

\* Goroutines that call AddMany as well.
Next ==
    \/ \E t \in Threads, d \in Keys : CallAdd(t, d) \/ CallContains(t, d)
    \/ \E t \in Threads, data \in Datas : CallAddMany(t, data)
    \/ \E t \in Threads : Step(t)
    \/ Finished /\ UNCHANGED vars

\* The scheduler runs every runnable goroutine; calls are the application's.
Spec == Init /\ [][Next]_vars /\ \A t \in Threads : WF_vars(Step(t))

-----------------------------------------------------------------------------
(* Properties                                                              *)

\* Spec 4.1/4.3: a call of AddMany (Bitmap.MSet under it) returns.
AddManyReturns ==
    \A t \in Threads : pc[t] = "mset" ~> pc[t] = "idle"

=============================================================================
