------------------------------- MODULE I64Map -------------------------------
(***************************************************************************)
(* The sharded ConcurrentMap of src/concurrentmap/i64map/map.go under     *)
(* concurrent goroutines.                                                  *)
(*                                                                         *)
(* 32 shards, each a Go map under its own sync.RWMutex; key k lives in    *)
(* shard fnv32(k) % 32.  Only the shards of the model's keys ever hold an *)
(* item, so the loops over the 32 shards are loops over UsedShards in     *)
(* index order: at any other shard they take and drop a free lock.        *)
(*                                                                         *)
(* RWMutex as Go implements it: Lock takes the writer side (writer[s]),   *)
(* which from then on blocks every new RLock, then waits for the readers  *)
(* already in (readers[s]) to leave.  Work done under a lock that no one  *)
(* else can observe is one step with its Unlock.  The goroutines MSet,    *)
(* Keys and ForEach start, one per shard, are g[t].sub[s].                 *)
(***************************************************************************)
EXTENDS Naturals, Sequences, FiniteSets, SequencesExt, Bitwise

CONSTANTS Threads,     \* goroutines using the map
          Keys,        \* int64 keys (non-negative here)
          Vals,        \* values stored
          Absent,      \* no item under the key
          NoOwner,     \* free writer side of a lock
          Ops,         \* the operations each goroutine calls
          MaxCalls,    \* bound on the calls of one goroutine
          Shards       \* the shards of Keys (checked below)

WriteOps == {"Set", "Upsert", "SetIfAbsent", "Remove", "RemoveCb", "Pop"}
ReadOps == {"Get", "Has"}
LoopOps == {"Count", "IsEmpty", "Clear", "Resize", "Items", "MGet"}
AllOps == WriteOps \cup ReadOps \cup LoopOps \cup {"MSet", "Keys", "ForEach"}

ASSUME /\ Keys \subseteq 0 .. 2147483647 /\ Absent \notin Vals
       /\ NoOwner \notin Threads
       /\ MaxCalls \in Nat /\ Ops \in [Threads -> SUBSET AllOps]

VARIABLES
    items,    \* the items of every shard: key -> value or Absent
    writer,   \* shard -> goroutine holding the writer side, or NoOwner
    readers,  \* shard -> goroutines holding a read lock
    g,        \* each goroutine's locals: see Init
    ever,     \* keys present at some moment of the goroutine's Keys call
    always    \* keys present at every moment of it

vars == <<items, writer, readers, g, ever, always>>

-----------------------------------------------------------------------------
(* fnv32 and getShard                                                      *)

\* Byte i of the big-endian bytes of key (bytes[7-i] = byte(key >> (i*8))).
\* The model's keys are below 2^31, so bytes 0 to 3 are zero.
KeyByte(key, i) == IF i < 4 THEN 0 ELSE (key \div 2 ^ (8 * (7 - i))) % 256

\* FNV-1a is hash ^= b; hash *= prime32 (mod 2^32).  The low 16 bits of
\* the hash depend only on the low 16 bits before each step, so the fold is
\* computed mod 2^16: offset32 mod 2^16 = 40389, prime32 mod 2^16 = 403.
RECURSIVE FnvLow(_, _)
FnvLow(key, i) ==
    IF i = 0 THEN 40389
    ELSE ((FnvLow(key, i - 1) ^^ KeyByte(key, i - 1)) * 403) % 65536

\* getShard: fnv32(key) % shardCount, for each key.
ShardOf == [key \in Keys |-> FnvLow(key, 8) % 32]

UsedShards == {ShardOf[k] : k \in Keys}
ASSUME Shards = UsedShards
ShardSeq == SetToSortSeq(UsedShards, <)

KeysIn(s) == {k \in Keys : ShardOf[k] = s}
PresentOf(f) == {k \in Keys : f[k] # Absent}
PresentIn(s) == KeysIn(s) \cap PresentOf(items)

\* sync.RWMutex of a shard.
CanRLock(s) == writer[s] = NoOwner
TakeWriter(t, s) == writer[s] = NoOwner /\ writer' = [writer EXCEPT ![s] = t]
LockHeld(t, s) == writer[s] = t /\ readers[s] = {}
ReleaseWriter(s) == writer' = [writer EXCEPT ![s] = NoOwner]

-----------------------------------------------------------------------------

KeysPcs == {"keysCount", "keys"}
Datas == UNION {[S -> Vals] : S \in SUBSET Keys \ {{}}}

TypeOK ==
    /\ items \in [Keys -> Vals \cup {Absent}]
    /\ writer \in [UsedShards -> Threads \cup {NoOwner}]
    /\ readers \in [UsedShards -> SUBSET Threads]
    /\ \A t \in Threads :
         /\ g[t].sub \in [UsedShards -> {"none", "todo", "held", "done"}]
         /\ g[t].left \in [UsedShards -> SUBSET Keys]
         /\ g[t].ch \in Seq(Keys) /\ Len(g[t].ch) <= g[t].cnt
         /\ g[t].res \subseteq Keys /\ g[t].calls \in 0 .. MaxCalls

\* New(initCapacity): every shard empty, every lock free.
Init ==
    /\ items = [k \in Keys |-> Absent]
    /\ writer = [s \in UsedShards |-> NoOwner]
    /\ readers = [s \in UsedShards |-> {}]
    /\ g = [t \in Threads |->
              [pc |-> "idle", op |-> [name |-> "none"],
               idx |-> 1,      \* position in a loop over the shards
               cnt |-> 0,      \* Count's total; Keys' channel capacity
               sub |-> [s \in UsedShards |-> "none"],
               left |-> [s \in UsedShards |-> {}],  \* keys still to visit
               ch |-> <<>>,    \* Keys' buffered channel
               res |-> {},     \* keys Keys has received
               calls |-> 0]]
    /\ ever = [t \in Threads |-> {}]
    /\ always = [t \in Threads |-> {}]

\* Goroutine t calls name: op o, control state p, per-shard goroutines sb.
Call(t, name, o, p, sb) ==
    /\ g[t].pc = "idle" /\ g[t].calls < MaxCalls /\ name \in Ops[t]
    /\ g' = [g EXCEPT ![t].pc = p, ![t].op = o, ![t].idx = 1, ![t].cnt = 0,
                      ![t].sub = sb, ![t].calls = @ + 1]

\* The same state for the goroutine of every shard.
AllSubs(st) == [s \in UsedShards |-> st]
SubsDone(t) == \A s \in UsedShards : g[t].sub[s] = "done"

-----------------------------------------------------------------------------
(* Set, Upsert, SetIfAbsent, Remove, RemoveCb, Pop: Lock the key's shard, *)
(* read shard.items[key], store or delete, Unlock.                         *)

\* The values the item may hold after the call.  The Upsert callback may
\* return any value; the RemoveCb callback says remove or keep, and only an
\* existing item is deleted.
NewValues(name, cur, v) ==
    CASE name = "Set"         -> {v}
      [] name = "Upsert"      -> Vals
      [] name = "SetIfAbsent" -> IF cur = Absent THEN {v} ELSE {cur}
      [] name = "RemoveCb"    -> {cur, Absent}
      [] name \in {"Remove", "Pop"} -> {Absent}

\* getShard(key), then shard.Lock().
CallWrite(t, name, k, v) ==
    /\ name \in WriteOps
    /\ Call(t, name, [name |-> name, k |-> k, v |-> v], "wlock", g[t].sub)
    /\ UNCHANGED <<items, writer, readers>>

\* Lock takes the writer side once no other writer holds it.
WriteLock(t) ==
    /\ g[t].pc = "wlock"
    /\ TakeWriter(t, ShardOf[g[t].op.k])
    /\ g' = [g EXCEPT ![t].pc = "wlocked"]
    /\ UNCHANGED <<items, readers>>

\* Lock returns once no reader is left; the body; Unlock.
WriteApply(t) ==
    /\ g[t].pc = "wlocked"
    /\ LET k == g[t].op.k IN
       /\ LockHeld(t, ShardOf[k])
       /\ \E nv \in NewValues(g[t].op.name, items[k], g[t].op.v) :
             items' = [items EXCEPT ![k] = nv]
       /\ ReleaseWriter(ShardOf[k])
    /\ g' = [g EXCEPT ![t].pc = "idle"]
    /\ UNCHANGED readers

\* Get, Has: getShard(key), then shard.RLock().
ReadKey(t, name, k) ==
    /\ name \in ReadOps
    /\ Call(t, name, [name |-> name, k |-> k], "rlock", g[t].sub)
    /\ UNCHANGED <<items, writer, readers>>

\* RLock returns once no writer is pending; the look-up; RUnlock.
ReadKeyRLock(t) ==
    /\ g[t].pc = "rlock"
    /\ CanRLock(ShardOf[g[t].op.k])
    /\ g' = [g EXCEPT ![t].pc = "idle"]
    /\ UNCHANGED <<items, writer, readers>>

-----------------------------------------------------------------------------
(* Loops over the shards, one at a time: Count (and IsEmpty), the         *)
(* snapshot of Iter under Items and MarshalJSON, MGet (the shards of the  *)
(* keys asked for), Keys' initial Count; Clear and Resize under Lock.      *)

LoopShards(name, ks) ==
    IF name = "MGet" THEN SetToSortSeq({ShardOf[k] : k \in ks}, <)
                     ELSE ShardSeq

CallLoop(t, name, ks) ==
    /\ name \in LoopOps
    /\ Call(t, name, [name |-> name, seq |-> LoopShards(name, ks)],
            IF name \in {"Clear", "Resize"} THEN "wloop" ELSE "rloop", g[t].sub)
    /\ UNCHANGED <<items, writer, readers>>

\* Keys() begins with count := m.Count().
CallKeys(t) ==
    /\ Call(t, "Keys", [name |-> "Keys", seq |-> ShardSeq], "keysCount",
            g[t].sub)
    /\ UNCHANGED <<items, writer, readers>>

\* RLock, count += len(shard.items), RUnlock.
ReadLoopStep(t) ==
    /\ g[t].pc \in {"rloop", "keysCount"} /\ g[t].idx <= Len(g[t].op.seq)
    /\ LET s == g[t].op.seq[g[t].idx] IN
       /\ CanRLock(s)
       /\ g' = [g EXCEPT ![t].cnt = @ + Cardinality(PresentIn(s)),
                         ![t].idx = @ + 1]
    /\ UNCHANGED <<items, writer, readers>>

\* The call returns; Keys makes ch with capacity count and a goroutine
\* that starts one goroutine per shard, and receives from ch meanwhile.
ReadLoopEnd(t) ==
    /\ g[t].pc \in {"rloop", "keysCount"} /\ g[t].idx > Len(g[t].op.seq)
    /\ g' = IF g[t].pc = "keysCount"
              THEN [g EXCEPT ![t].pc = "keys", ![t].sub = AllSubs("todo"),
                             ![t].ch = <<>>, ![t].res = {}]
              ELSE [g EXCEPT ![t].pc = "idle"]
    /\ UNCHANGED <<items, writer, readers>>

\* Clear, Resize: shard.Lock() ...
WriteLoopLock(t) ==
    /\ g[t].pc = "wloop" /\ g[t].idx <= Len(g[t].op.seq)
    /\ TakeWriter(t, g[t].op.seq[g[t].idx])
    /\ g' = [g EXCEPT ![t].pc = "wloopHeld"]
    /\ UNCHANGED <<items, readers>>

\* ... a fresh table, empty (Clear) or with the same items (Resize); Unlock.
WriteLoopApply(t) ==
    /\ g[t].pc = "wloopHeld"
    /\ LET s == g[t].op.seq[g[t].idx] IN
       /\ LockHeld(t, s)
       /\ items' = IF g[t].op.name = "Clear"
                     THEN [k \in Keys |-> IF k \in KeysIn(s) THEN Absent
                                                            ELSE items[k]]
                     ELSE items
       /\ ReleaseWriter(s)
    /\ g' = [g EXCEPT ![t].pc = "wloop", ![t].idx = @ + 1]
    /\ UNCHANGED readers

WriteLoopEnd(t) ==
    /\ g[t].pc = "wloop" /\ g[t].idx > Len(g[t].op.seq)
    /\ g' = [g EXCEPT ![t].pc = "idle"]
    /\ UNCHANGED <<items, writer, readers>>

-----------------------------------------------------------------------------
(* MSet: data grouped by shard; one goroutine per shard (those with no    *)
(* items return at once) Locks it, stores its items, Unlocks; wg.Wait().   *)

CallMSet(t, data) ==
    /\ Call(t, "MSet", [name |-> "MSet", data |-> data], "mset",
            [s \in UsedShards |->
               IF KeysIn(s) \cap DOMAIN data # {} THEN "todo" ELSE "done"])
    /\ UNCHANGED <<items, writer, readers>>

MSetLock(t, s) ==
    /\ g[t].pc = "mset" /\ g[t].sub[s] = "todo"
    /\ TakeWriter(t, s)
    /\ g' = [g EXCEPT ![t].sub[s] = "held"]
    /\ UNCHANGED <<items, readers>>

MSetApply(t, s) ==
    /\ g[t].pc = "mset" /\ g[t].sub[s] = "held"
    /\ LockHeld(t, s)
    /\ LET data == g[t].op.data IN
       items' = [k \in Keys |-> IF k \in DOMAIN data \cap KeysIn(s)
                                  THEN data[k] ELSE items[k]]
    /\ ReleaseWriter(s)
    /\ g' = [g EXCEPT ![t].sub[s] = "done"]
    /\ UNCHANGED readers

MSetReturn(t) ==
    /\ g[t].pc = "mset" /\ SubsDone(t)
    /\ g' = [g EXCEPT ![t].pc = "idle", ![t].sub = AllSubs("none")]
    /\ UNCHANGED <<items, writer, readers>>

-----------------------------------------------------------------------------
(* Keys, after the Count: the goroutine of each shard RLocks it, sends     *)
(* every key on ch and RUnlocks; when all are done ch is closed.  The      *)
(* caller receives from ch until it is closed and drained.                 *)

\* Shard goroutine s RLocks and ranges over the shard's items.
VisitShard(t, s) ==
    /\ g[t].sub[s] = "todo"
    /\ CanRLock(s)
    /\ readers' = [readers EXCEPT ![s] = @ \cup {t}]
    /\ g' = [g EXCEPT ![t].sub[s] = "held", ![t].left[s] = PresentIn(s)]
    /\ UNCHANGED <<items, writer>>

\* Shard goroutine s has visited every item: RUnlock.
LeaveShard(t, s) ==
    /\ g[t].sub[s] = "held" /\ g[t].left[s] = {}
    /\ readers' = [readers EXCEPT ![s] = @ \ {t}]
    /\ g' = [g EXCEPT ![t].sub[s] = "done"]
    /\ UNCHANGED <<items, writer>>

KeysRLock(t, s) == g[t].pc = "keys" /\ VisitShard(t, s)

\* Mutant of KeysSend: a non-blocking send (select with default) drops the
\* key when the buffer is full.
KeysSendNonBlocking(t, s) ==
    /\ g[t].pc = "keys" /\ g[t].sub[s] = "held"
    /\ \E k \in g[t].left[s] :
         g' = [g EXCEPT ![t].left[s] = @ \ {k},
                        ![t].ch = IF Len(@) < g[t].cnt THEN Append(@, k) ELSE @]
    /\ UNCHANGED <<items, writer, readers>>

\* ch <- key: into the buffer while it has room; with capacity 0 the
\* caller, blocked in its receive, takes the key at once.
KeysSend(t, s) ==
    /\ g[t].pc = "keys" /\ g[t].sub[s] = "held"
    /\ \E k \in g[t].left[s] :
         \/ /\ Len(g[t].ch) < g[t].cnt
            /\ g' = [g EXCEPT ![t].left[s] = @ \ {k}, ![t].ch = Append(@, k)]
         \/ /\ g[t].cnt = 0
            /\ g' = [g EXCEPT ![t].left[s] = @ \ {k}, ![t].res = @ \cup {k}]
    /\ UNCHANGED <<items, writer, readers>>

KeysRUnlock(t, s) == g[t].pc = "keys" /\ LeaveShard(t, s)

\* Mutant of KeysRecv: the caller receives only after wg.Wait().
KeysRecvAfterWait(t) ==
    /\ g[t].pc = "keys" /\ g[t].ch # <<>> /\ SubsDone(t)
    /\ g' = [g EXCEPT ![t].res = @ \cup {Head(g[t].ch)}, ![t].ch = Tail(@)]
    /\ UNCHANGED <<items, writer, readers>>

\* for k := range ch { keys = append(keys, k) }
KeysRecv(t) ==
    /\ g[t].pc = "keys" /\ g[t].ch # <<>>
    /\ g' = [g EXCEPT ![t].res = @ \cup {Head(g[t].ch)}, ![t].ch = Tail(@)]
    /\ UNCHANGED <<items, writer, readers>>

\* wg.Wait(); close(ch): the range loop ends once ch is drained.
KeysReturn(t) ==
    /\ g[t].pc = "keys" /\ g[t].ch = <<>> /\ SubsDone(t)
    /\ g' = [g EXCEPT ![t].pc = "idle", ![t].sub = AllSubs("none")]
    /\ UNCHANGED <<items, writer, readers>>

-----------------------------------------------------------------------------
(* ForEach(fn): the goroutine of each shard RLocks it, calls fn(k, v) for *)
(* each item under the read lock, RUnlocks; wg.Wait().  fn does not call  *)
(* the map: UpsertCb's comment (116-119) says such a callback deadlocks.   *)

CallForEach(t) ==
    /\ Call(t, "ForEach", [name |-> "ForEach"], "foreach", AllSubs("todo"))
    /\ UNCHANGED <<items, writer, readers>>

ForEachRLock(t, s) == g[t].pc = "foreach" /\ VisitShard(t, s)

\* fn(k, v) for the next item.
ForEachVisit(t, s) ==
    /\ g[t].pc = "foreach" /\ g[t].sub[s] = "held"
    /\ \E k \in g[t].left[s] : g' = [g EXCEPT ![t].left[s] = @ \ {k}]
    /\ UNCHANGED <<items, writer, readers>>

\* Mutant of ForEachRUnlock: the goroutine ends without RUnlock.
ForEachNoRUnlock(t, s) ==
    /\ g[t].pc = "foreach" /\ g[t].sub[s] = "held" /\ g[t].left[s] = {}
    /\ g' = [g EXCEPT ![t].sub[s] = "done"]
    /\ UNCHANGED <<items, writer, readers>>

ForEachRUnlock(t, s) == g[t].pc = "foreach" /\ LeaveShard(t, s)

ForEachReturn(t) ==
    /\ g[t].pc = "foreach" /\ SubsDone(t)
    /\ g' = [g EXCEPT ![t].pc = "idle", ![t].sub = AllSubs("none")]
    /\ UNCHANGED <<items, writer, readers>>

-----------------------------------------------------------------------------

\* The history of each Keys call: the keys present at some moment, and at
\* every moment, from its call on.
KeysHistory ==
    LET now == PresentOf(items) next == PresentOf(items')
        busy(t) == g'[t].pc \in KeysPcs
        was(t) == g[t].pc \in KeysPcs IN
    /\ ever' = [t \in Threads |-> IF ~busy(t) THEN ever[t]
                                  ELSE (IF was(t) THEN ever[t] ELSE now) \cup next]
    /\ always' = [t \in Threads |-> IF ~busy(t) THEN always[t]
                                  ELSE (IF was(t) THEN always[t] ELSE now) \cap next]

\* Steps of the calling goroutine.
ThreadStep(t) ==
    \/ WriteLock(t) \/ WriteApply(t) \/ ReadKeyRLock(t)
    \/ ReadLoopStep(t) \/ ReadLoopEnd(t)
    \/ WriteLoopLock(t) \/ WriteLoopApply(t) \/ WriteLoopEnd(t)
    \/ MSetReturn(t) \/ KeysRecv(t) \/ KeysReturn(t) \/ ForEachReturn(t)

\* Steps of the goroutine it started for shard s.
ShardStep(t, s) ==
    \/ MSetLock(t, s) \/ MSetApply(t, s)
    \/ KeysRLock(t, s) \/ KeysSend(t, s) \/ KeysRUnlock(t, s)
    \/ ForEachRLock(t, s) \/ ForEachVisit(t, s) \/ ForEachRUnlock(t, s)

CallStep(t) ==
    \/ \E name \in WriteOps, k \in Keys, v \in Vals : CallWrite(t, name, k, v)
    \/ \E name \in ReadOps, k \in Keys : ReadKey(t, name, k)
    \/ \E name \in LoopOps, ks \in SUBSET Keys : CallLoop(t, name, ks)
    \/ \E data \in Datas : CallMSet(t, data)
    \/ CallKeys(t) \/ CallForEach(t)

\* Every goroutine is inside a call or has made all its calls; whether the
\* calls in progress return is what EveryCallReturns asks.
AllCalled == \A t \in Threads : g[t].pc # "idle" \/ g[t].calls = MaxCalls

Next ==
    \/ /\ \/ \E t \in Threads : CallStep(t) \/ ThreadStep(t)
          \/ \E t \in Threads, s \in Shards : ShardStep(t, s)
       /\ KeysHistory
    \/ AllCalled /\ UNCHANGED vars

\* Calls are the application's.  The Go scheduler runs every runnable
\* goroutine, and one blocked on a lock that is free again and again gets
\* it (sync.Mutex starvation mode; RWMutex blocks new readers for a writer).
Fairness ==
    /\ \A t \in Threads : SF_vars(ThreadStep(t) /\ KeysHistory)
    /\ \A t \in Threads : \A s \in Shards : SF_vars(ShardStep(t, s) /\ KeysHistory)

Spec == Init /\ [][Next]_vars /\ Fairness

-----------------------------------------------------------------------------
(* Properties                                                              *)

\* Keys is a moving snapshot (spec 4.4, 5): when Keys returns, it holds
\* every key present throughout the call and only keys present at some
\* moment of it, however Sets, Removes and MSets interleave with its Count
\* and its per-shard goroutines, whose channel holds only count keys.
KeysMovingSnapshot ==
    \A t \in Threads :
        /\ g[t].pc = "keys" => g[t].res \subseteq ever[t]
        /\ (g[t].pc = "idle" /\ g[t].op.name = "Keys") =>
              always[t] \subseteq g[t].res /\ g[t].res \subseteq ever[t]

\* Every call on the map returns: no goroutine waits forever on a shard
\* lock, a writer behind readers or a reader behind a pending writer, or
\* on Keys' channel, whose buffer holds only the keys of the earlier Count
\* while its senders keep their shards read-locked.  A call blocked in
\* Lock or RLock is a call in progress.
EveryCallReturns == \A t \in Threads : g[t].pc # "idle" ~> g[t].pc = "idle"

=============================================================================
