-------------------------------- MODULE StrMap --------------------------------
(***************************************************************************)
(* The string-keyed ConcurrentMap of src/concurrentmap/strmap/map.go.      *)
(*                                                                         *)
(* NewWithOptions builds len(m) = N shards, N = opts.ShardCount when it is *)
(* positive and 32 otherwise; getShard, Count, snapshot and Keys still use *)
(* defaultShardCount = 32.  A key is its byte string, and fnv32 is         *)
(* computed on it.  Each single-key operation holds one shard's lock for   *)
(* its whole body and is one step.  The operations that loop over shards   *)
(* or spawn goroutines are one step per shard or per key, so the writes of *)
(* other goroutines interleave with them; shards no key maps to are left   *)
(* out of the loops except where the index itself matters (m[i] out of     *)
(* range).  A panic on any goroutine ends the process: crashed.            *)
(***************************************************************************)
EXTENDS Naturals, Sequences, FiniteSets, FiniteSetsExt, SequencesExt, Bitwise

CONSTANTS Threads,      \* goroutines calling the map
          Keys,         \* keys, as sequences of byte values
          Vals,         \* values stored
          Absent,       \* no value under a key
          ShardCount,   \* opts.ShardCount passed to NewWithOptions
          Ops,          \* Ops[t]: the operations goroutine t calls
          MaxCalls      \* bound on the calls of one goroutine

ASSUME Absent \notin Vals /\ ShardCount \in Int

VARIABLES
    kv,       \* kv[k]: the value under k in its shard, or Absent
    g,        \* each goroutine's call in progress
    strays,   \* goroutines left over by snapshot/Keys when N > 32
    crashed,  \* a panic ended the process
    ever,     \* ghost: entries present at some moment of t's loop call
    always    \* ghost: entries present throughout t's loop call

vars == <<kv, g, strays, crashed, ever, always>>

defaultShardCount == 32

\* NewWithOptions: shardCount := defaultShardCount; if opts.ShardCount > 0 ...
N == IF ShardCount > 0 THEN ShardCount ELSE defaultShardCount

\* fnv32: hash ^= b; hash *= prime32, mod 2^32.  Its low 16 bits depend only
\* on the low 16 bits of each step: offset32 and prime32 mod 2^16.
Fnv16(s) == FoldLeft(LAMBDA h, b : ((h ^^ b) * 403) % 65536, 40389, s)

\* getShard: the index uint(fnv32(key)) % uint(defaultShardCount).
Idx == [k \in Keys |-> Fnv16(k) % defaultShardCount]

\* m[i] is in range.
InRange(i) == i < N

UsedIdx == {Idx[k] : k \in Keys}
KeysOf(i) == {k \in Keys : Idx[k] = i}

\* The (key, value) pairs of a set of keys.
Pairs(ks) == {<<k, kv[k]>> : k \in {k2 \in ks : kv[k2] # Absent}}

KeyOps == {"Set", "Get", "Has", "Remove", "Pop", "GetOrSet", "SetIfAbsent",
           "Upsert", "RemoveCb"}
LoopOps == {"MSet", "MGet", "Clear", "Count", "Items", "Keys"}

Pair == Keys \X Vals

TypeOK ==
    /\ kv \in [Keys -> Vals \cup {Absent}]
    /\ g \in [Threads -> [pc : {"idle", "count", "keys"} \cup LoopOps,
                          op : {"none"} \cup KeyOps \cup LoopOps,
                          todo : SUBSET (0 .. N), ks : SUBSET Keys,
                          data : [Keys -> Vals \cup {Absent}],
                          got : SUBSET Pair, n : Nat,
                          calls : 0 .. MaxCalls]]
    /\ strays \in Nat /\ crashed \in BOOLEAN

Init ==
    /\ kv = [k \in Keys |-> Absent]
    /\ g = [t \in Threads |->
              [pc |-> "idle", op |-> "none", todo |-> {}, ks |-> {},
               data |-> [k \in Keys |-> Absent], got |-> {}, n |-> 0,
               calls |-> 0]]
    /\ strays = 0
    /\ crashed = FALSE
    /\ ever = [t \in Threads |-> {}]
    /\ always = [t \in Threads |-> {}]

Crash == crashed' = TRUE /\ UNCHANGED <<kv, g, strays>>

-----------------------------------------------------------------------------
(* Single-key operations: getShard, Lock, body, Unlock.                    *)

\* The values the body of op may leave under k: Set stores v; Remove and
\* Pop delete; GetOrSet and SetIfAbsent store v only if k is absent;
\* Upsert stores whatever its callback returns; RemoveCb deletes if its
\* callback says so; Get and Has read.
NewValues(op, k, v) ==
    CASE op = "Set" -> {v}
      [] op \in {"Remove", "Pop"} -> {Absent}
      [] op \in {"GetOrSet", "SetIfAbsent"} ->
            {IF kv[k] = Absent THEN v ELSE kv[k]}
      [] op = "Upsert" -> Vals
      [] op = "RemoveCb" -> {kv[k], Absent}
      [] op \in {"Get", "Has"} -> {kv[k]}

KeyOp(t, op, k, v) ==
    /\ ~crashed /\ g[t].pc = "idle" /\ g[t].calls < MaxCalls /\ op \in Ops[t]
    /\ IF ~InRange(Idx[k])
         THEN Crash
         ELSE /\ \E nv \in NewValues(op, k, v) : kv' = [kv EXCEPT ![k] = nv]
              /\ g' = [g EXCEPT ![t].op = op, ![t].calls = @ + 1]
              /\ UNCHANGED <<strays, crashed>>

-----------------------------------------------------------------------------
(* Operations over several shards or keys.                                 *)

\* Count's loop: i = 0 .. defaultShardCount - 1, reading m[i].
CountIdx == {i \in UsedIdx : InRange(i)} \cup
            (IF N < defaultShardCount THEN {N} ELSE {})

\* What a loop call visits: MSet and MGet one goroutine per key; Clear one
\* goroutine per shard of m; Count and Keys first run Count's loop;
\* snapshot one goroutine per shard of m, of which those at index 32 or
\* more are left over.
Todo(op) ==
    CASE op \in {"MSet", "MGet"} -> {}
      [] op \in {"Count", "Keys"} -> CountIdx
      [] op \in {"Clear", "Items"} -> {i \in UsedIdx : InRange(i)}

StartPc(op) == IF op = "Keys" THEN "count" ELSE op

CallLoop(t, op, data) ==
    /\ ~crashed /\ g[t].pc = "idle" /\ g[t].calls < MaxCalls /\ op \in Ops[t]
    /\ op \notin {"MSet", "MGet"} => data = [k \in Keys |-> Absent]
    /\ LET ks == {k \in Keys : data[k] # Absent} IN
       g' = [g EXCEPT ![t] = [pc |-> StartPc(op), op |-> op,
                              todo |-> Todo(op), ks |-> ks, data |-> data,
                              got |-> {}, n |-> 0, calls |-> @.calls + 1]]
    /\ strays' = strays + (IF op = "Items" /\ N > defaultShardCount THEN 1 ELSE 0)
    /\ UNCHANGED <<kv, crashed>>

\* MSet: the goroutine of key k runs m.Set(k, data[k]), then wg.Done.
MSetStep(t) ==
    /\ ~crashed /\ g[t].pc = "MSet"
    /\ \E k \in g[t].ks :
          IF ~InRange(Idx[k]) THEN Crash
          ELSE /\ kv' = [kv EXCEPT ![k] = g[t].data[k]]
               /\ g' = [g EXCEPT ![t].ks = @ \ {k}]
               /\ UNCHANGED <<strays, crashed>>

\* Mutant of MGetStep: result[key] = val without the ok check.
MGetStepNoOk(t) ==
    /\ ~crashed /\ g[t].pc = "MGet"
    /\ \E k \in g[t].ks :
          IF ~InRange(Idx[k]) THEN Crash
          ELSE /\ g' = [g EXCEPT ![t].ks = @ \ {k},
                                 ![t].got = @ \cup {<<k, kv[k]>>}]
               /\ UNCHANGED <<kv, strays, crashed>>

\* MGet: the goroutine of key k runs m.Get(k) and, if found, stores the
\* value in result under the result mutex.
MGetStep(t) ==
    /\ ~crashed /\ g[t].pc = "MGet"
    /\ \E k \in g[t].ks :
          IF ~InRange(Idx[k]) THEN Crash
          ELSE /\ g' = [g EXCEPT ![t].ks = @ \ {k},
                                 ![t].got = @ \cup Pairs({k})]
               /\ UNCHANGED <<kv, strays, crashed>>

\* Clear: the goroutine of shard i locks it and replaces its items.
ClearStep(t) ==
    /\ ~crashed /\ g[t].pc = "Clear"
    /\ \E i \in g[t].todo :
          /\ kv' = [k \in Keys |-> IF Idx[k] = i THEN Absent ELSE kv[k]]
          /\ g' = [g EXCEPT ![t].todo = @ \ {i}]
    /\ UNCHANGED <<strays, crashed>>

\* Count: the next iteration, count += len(m[i].items) under m[i]'s RLock.
\* Keys calls m.Count() first, then visits the shards.
CountStep(t) ==
    /\ ~crashed /\ g[t].pc \in {"Count", "count"}
    /\ g[t].todo # {}
    /\ LET i == Min(g[t].todo) IN
       IF ~InRange(i) THEN Crash
       ELSE /\ g' = [g EXCEPT ![t].todo = @ \ {i},
                              ![t].n = @ + Cardinality(Pairs(KeysOf(i)))]
            /\ UNCHANGED <<kv, strays, crashed>>

\* Keys, after Count: one goroutine per shard of m sends the shard's keys
\* under its RLock.
KeysStart(t) ==
    /\ ~crashed /\ g[t].pc = "count" /\ g[t].todo = {}
    /\ g' = [g EXCEPT ![t].pc = "keys",
                      ![t].todo = {i \in UsedIdx : InRange(i)}]
    /\ UNCHANGED <<kv, strays, crashed>>

\* snapshot / Keys: the goroutine of shard i copies the shard's entries
\* under its RLock.
VisitStep(t) ==
    /\ ~crashed /\ g[t].pc \in {"Items", "keys"}
    /\ \E i \in g[t].todo :
          g' = [g EXCEPT ![t].todo = @ \ {i}, ![t].got = @ \cup Pairs(KeysOf(i))]
    /\ UNCHANGED <<kv, strays, crashed>>

\* Mutant of LoopReturn: Items reads the channels before snapshot's
\* wg.Wait.
LoopReturnNoWait(t) ==
    /\ ~crashed /\ g[t].pc \in LoopOps \cup {"keys"}
    /\ g' = [g EXCEPT ![t].pc = "idle"]
    /\ UNCHANGED <<kv, strays, crashed>>

\* wg.Wait returns once the counter, set by wg.Add(defaultShardCount), is
\* zero.  snapshot's goroutines of shards 0 .. 31 all call Done, so with
\* N < 32 Items never returns.  Keys starts N goroutines: with N > 32 the
\* wait returns after any 32 Dones, while up to N - 32 of them, shards
\* with keys among them, have not run yet; each left over panics later.
Pending(t) ==
    IF g[t].pc = "keys" /\ N > defaultShardCount
      THEN Cardinality(g[t].todo) <= N - defaultShardCount
      ELSE g[t].todo = {}

LoopReturn(t) ==
    /\ ~crashed /\ g[t].pc \in LoopOps \cup {"keys"} /\ Pending(t) /\ g[t].ks = {}
    /\ g[t].pc = "Items" => N >= defaultShardCount
    /\ g' = [g EXCEPT ![t].pc = "idle", ![t].todo = {}]
    /\ strays' = strays + (IF g[t].pc = "keys" /\ N > defaultShardCount THEN 1 ELSE 0)
    /\ UNCHANGED <<kv, crashed>>

\* A left-over goroutine panics: chans[index] out of range in snapshot
\* (287), or in Keys (325-328) a send on the closed ch or the Done that
\* drives the counter negative.
StrayPanic == ~crashed /\ strays > 0 /\ Crash

-----------------------------------------------------------------------------

\* Ghost: each loop call in progress accumulates the entries present at
\* some moment of it and those present throughout.
History ==
    LET now == Pairs(Keys)
        next == {<<k, kv'[k]>> : k \in {k2 \in Keys : kv'[k2] # Absent}}
        busy(t) == g'[t].pc # "idle"
        was(t) == g[t].pc # "idle" IN
    /\ ever' = [t \in Threads |-> IF ~busy(t) THEN ever[t]
                                  ELSE (IF was(t) THEN ever[t] ELSE now) \cup next]
    /\ always' = [t \in Threads |-> IF ~busy(t) THEN always[t]
                                  ELSE (IF was(t) THEN always[t] ELSE now) \cap next]

\* The goroutines of goroutine t's call in progress.
Step(t) ==
    \/ MSetStep(t) \/ MGetStep(t) \/ ClearStep(t) \/ CountStep(t)
    \/ KeysStart(t) \/ VisitStep(t) \/ LoopReturn(t)

CallStep(t) ==
    \/ \E op \in KeyOps, k \in Keys, v \in Vals : KeyOp(t, op, k, v)
    \/ \E op \in LoopOps, data \in [Keys -> Vals \cup {Absent}] :
          CallLoop(t, op, data)

\* Every goroutine has made its calls and they have returned, or the
\* process is dead.
Finished ==
    \/ crashed
    \/ \A t \in Threads : g[t].pc = "idle" /\ g[t].calls = MaxCalls

Next ==
    \/ /\ \/ \E t \in Threads : CallStep(t) \/ Step(t)
          \/ StrayPanic
       /\ History
    \/ Finished /\ UNCHANGED vars

\* The scheduler runs every runnable goroutine; calls are the application's.
Fairness ==
    /\ \A t \in Threads : WF_vars(Step(t) /\ History)
    /\ WF_vars(StrayPanic /\ History)

Spec == Init /\ [][Next]_vars /\ Fairness

-----------------------------------------------------------------------------
(* Properties                                                              *)

\* Items, MGet and Count are moving snapshots (spec 4.4, 5): when one
\* returns, every entry it reports was in the map at some moment of the
\* call, it reports every entry of the keys it covers that was there
\* throughout, and Count lies between the two, however Sets, Removes,
\* Clears and MSets interleave with its per-shard goroutines or loop.
MovingSnapshot ==
    \A t \in Threads : g[t].pc = "idle" =>
        /\ g[t].op \in {"Items", "MGet"} => g[t].got \subseteq ever[t]
        /\ g[t].op = "Items" => always[t] \subseteq g[t].got
        /\ g[t].op = "MGet" =>
              {p \in always[t] : g[t].data[p[1]] # Absent} \subseteq g[t].got
        /\ g[t].op = "Count" =>
              Cardinality(always[t]) <= g[t].n /\ g[t].n <= Cardinality(ever[t])

\* Keys is a moving snapshot too (spec 4.4, 5): when it returns, it holds
\* every key present throughout the call and only keys present at some
\* moment of it.
KeysSnapshot ==
    \A t \in Threads : (g[t].pc = "idle" /\ g[t].op = "Keys") =>
        {p[1] : p \in always[t]} \subseteq {p[1] : p \in g[t].got}
        /\ g[t].got \subseteq ever[t]

\* No operation panics: spec 4.4 offers the shard count as an option of
\* NewWithOptions, and getShard, Count, snapshot and Keys index m.
NoPanic == ~crashed

=============================================================================
