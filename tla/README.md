# TLA+ models of vulcan-pkg-tool

This directory holds TLA+ models of the concurrent parts of vulcan-pkg-tool,
and the TLC configurations that check them. `PROJECT.json` lists the
following:

- every component, with what is modelled;
- every run and what it asks;
- the mutants that show each checked property can fail;
- the source lines of every definition;
- the findings;
- the hazards of the code.

## The system and its parts

The repository is a toolkit of independent building blocks. Most of them are
pure functions: crypto, case conversion, time helpers, the ID codec and IP
lookup. These have no state a model checker can say anything about.
Compression looks like one, but it shares pooled buffers across calls.

The parts with concurrent state are these:

| Part | Source | State | Operations |
|---|---|---|---|
| Stopper | `src/sync/stopper.go` 44-138 | two mutexes, two atomic flags, three channels | `DoStop(f)`, `TriggerStop()`, `WaitStopped()` from any goroutines |
| Sharded map, int64 keys | `src/concurrentmap/i64map/map.go` | 32 shards, each an RWMutex over a Go map | single-key ops; MGet, MSet, Count, Clear, Resize, Items/Iter, Keys, ForEach |
| Sharded map, string keys | `src/concurrentmap/strmap/map.go` | `len(m)` shards, count from `NewWithOptions` | the same, with goroutine fan-out in MSet, MGet, Clear, snapshot, Keys |
| Bitmap | `src/bitmap/bitmap.go` | bytes under one `sync.Mutex` | Set, Clear, IsSet, Count, MSet |
| Int64 bloom filter | `src/unnamed/part_003` | a Bitmap; hash functions | Add, AddMany, Contains |
| []byte bloom filter | `src/bloom/bloom.go` | a Bitmap; two fnv hashers shared by all calls | Add, Contains |
| Consistent-hash rings | `src/unnamed/part_008`, `src/consistenthash/int64_ketama.go` | a slice of virtual spots sorted by hash, under one RWMutex | AddNode, RemoveNode, GetNode |
| Compression | `src/compress/compress.go` | two thresholds under an RWMutex; two `sync.Pool`s of `bytes.Buffer` | Init, Compress, Decompress |
| Mongo counters | `src/unnamed/part_000` | counter documents `{name, next_id}` | InitIncrementIDDoc, IncrementBatchID, IncrementID |

These parts interact as follows:

- Both bloom filters are built on the Bitmap.
- The Stopper's three calls interact through its flags and channels.
- Each map interacts with itself through the shard locks.
- Each ring's methods hold its RWMutex for their whole body.
- The counter helpers interact through the database.
- Compress and Decompress calls interact through the thresholds and through the buffers of their pools, whose backing arrays the returned slices share.

## Modules

Each module gives the component's state as VARIABLES and has the following:

- an Init;
- one action per operation, or per observable step of an operation;
- Next;
- a Spec with the fairness the Go scheduler justifies;
- TypeOK and the properties.

An `MC*.tla` module gives the constants model values and small sets for TLC.
Each `.cfg` file is one run.

### Stopper.tla (`Stopper`)

- **State.** `st` holds the struct's fields, and the channels are "closed" flags. `d` holds each DoStop call's program counter and the state of its stop function's goroutine. `tpc` and `wpc` are the program counters of TriggerStop and WaitStopped. `crashed` means an unrecovered panic: a second close of a channel, or a panicking stop function.
- **Actions.** One per statement another goroutine can observe:
  - DoStop: `DoStopCheck` (line 70), `DoStopLock` (75-80, including the early return of the closure), `DoStopClose` (82), `DoStopStore` (83), `DoStopUnlock` (the deferred unlock), `DoStopSpawn` (91-95), `StopFnReturn` and `StopFnPanic`, `DoStopSelectDone` and `DoStopTimeout` (97-101), `DoStopCloseStopped` (86).
  - TriggerStop: the same shape, in 104-118.
  - WaitStopped: `CallWaitStopped` and `WaitStoppedReturn`.
- **Fairness.**
  - Weak fairness on each call's steps.
  - Strong fairness on lock acquisition: sync.Mutex's starvation mode hands the lock to a waiter.
  - Weak fairness on WaitStopped's receive.
  - None on making calls, nor on the stop function returning, which may never happen.

### IncrementID.tla (`InitIncrementIDDoc`, `IncrementBatchID`)

- **State.** `docs` holds the counter documents of one name, in natural order; an unsorted FindOneAndUpdate updates the first. Per client there is a program counter and a call count.
- **Actions.** Each driver call is atomic:
  - `InitFindOne`: the document exists, there is no document, or a network error.
  - `InitInsertOne`: a network error leaves the insert applied or not; retryable writes are off.
  - `IncrementBatchID`: `batch <= 0` is refused. A lost reply leaves the `$inc` applied or not.
- **Returned value.** FindOneAndUpdate uses the driver's default `ReturnDocument: Before`, so the call returns `next_id` from before the `$inc`, and the caller owns `[r, r+b-1]`. Spec 4.16 describes the value after the increment and the range `[r-b+1, r]`. A single call shows this difference, so no run is kept for it.
- **Uniqueness is not a run.** Every `$inc` is atomic on the first document and `batch <= 0` is refused, so the ranges handed out are disjoint by construction, whatever the duplicates or lost replies; a lost reply only leaves a gap. The model's one run is the duplicate-document race.

### Bitmap.tla and Int64Bloom.tla

- **Bitmap.**
  - It has `bits`, the byte slice, and `mutex`.
  - Set, Clear and IsSet validate first, and an index out of range panics. After that they are one critical section.
  - MSet holds the mutex and calls Set, which needs the same mutex. `MSetIndex` is therefore enabled only when the mutex is free, which it never is.
- **Int64Bloom.**
  - The three base hash functions and the `factor` of `createInt64HashFunctions` are computed on the key's 32-bit halves.
  - Add and Contains take one step per hash function, each a Bitmap call.
  - `CallAddMany` computes the `indexes` slice as the code does: one assignment per hash function to the same element.
  - AddMany then runs MSet's lock, set and unlock steps.
  - `Size` and `K` stand for `estimateParameters`, which is floating point, clamped to k ≤ 8.
  - AddMany's overwritten `indexes` (part_003:44) is modelled in `AddManyIndexes`, but no run checks it: every AddMany deadlocks in MSet first.

### ByteBloom.tla ([]byte BloomFilter)

- **State.** `hs` is the state of the two hashers `h1` (fnv32a) and `h2` (fnv32) that `createHashFunctions` creates once and that every hash function closure shares. Per goroutine: `stage` (where in `Reset`, `Write`, `Sum32` or the bitmap call it is), `cur` (Write's local copy of the hash), `h` (Sum32's result), `k` (the loop index).
- **Actions.** `HashReset`, `HashLoad` and `HashStore` (fnv's `Write` reads `*s`, folds the bytes in, and writes `*s`), `HashSum`, then `AddBit` or `ContainsBit`, one Bitmap call. `Call` starts Add or Contains.
- **Arithmetic.** A uint32 is `[hi, lo]`, two 16-bit halves; `MulPrime` multiplies by 16777619 modulo 2^32 exactly. `MCByteBloom` checks with an ASSUME that the indexes of "a" and "b" are the ones Go computes.

### I64Map.tla (int64-keyed ConcurrentMap)

- **State.**
  - `items`: the value under each key; a key's shard is `fnv32` of its big-endian bytes, mod 32.
  - `writer` and `readers`: each shard's RWMutex, which prefers writers. A pending writer blocks new readers.
  - `g[t]`: the call in progress of goroutine `t`: program counter, loop index, Count's total, per-shard goroutine states, Keys' buffered channel and result.
- **Actions.**
  - Single-key writes call Lock (`CallWrite`), take the writer side once no other writer has it (`WriteLock`), then apply when the readers are gone (`WriteApply`).
  - Reads call RLock (`ReadKey`) and look up once no writer is pending (`ReadKeyRLock`).
  - A call blocked in Lock or RLock is thus a call in progress, which `EveryCallReturns` sees.
  - Count, IsEmpty, Items/Iter's sequential snapshot and MGet read the shards one at a time (`ReadLoopStep`).
  - Clear and Resize lock the shards one at a time (`WriteLoop*`).
  - MSet starts one goroutine per shard (`MSetLock`, `MSetApply`).
  - Keys runs Count, then gives each shard a goroutine that sends its keys on a channel with capacity `count` while holding the read lock (`KeysSend`). The caller receives concurrently (`KeysRecv`).
  - ForEach gives each shard a goroutine that calls `fn` under the read lock. `fn` does not call the map: UpsertCb's comment (116-119) says a callback that does deadlocks.
- **Ghost variables.** `ever` and `always` record, for each Keys call, the keys present at some moment of it and at every moment of it.
- **Fairness.** Strong fairness per calling goroutine and per shard goroutine: a goroutine waiting for a lock that is freed again and again gets it.

### HashRing.tla, AbstractRing.tla and RingPair.tla (consistent-hash rings)

- **Abstraction.** Every ring method holds the RWMutex for its whole body, so AddNode and RemoveNode are one step each and GetNode is a function of the state. The murmur3 hash of `"name:i"` becomes `pos`, chosen in Init among all injections of the spots into distinct even positions: every order of the spots around the ring is checked, and odd targets fall between spots. GetNode takes the key's position: the hash of a string key (part_008) or `uint64(key)` (int64_ketama.go), which is the only difference between the two rings.
- **State.** `nodes` is `h.nodes`, records `[nodeName, key, hash]` with `key` the spot's `i`.
- **Actions.** `AddNode` appends `NewSpots(n)` (again for a node already there) and sorts with `SortSeq`; `RemoveNode` is the in-order filter (`SelectSeq`). `GetNode` runs `Search`, a recursive translation of `sort.Search`'s binary search, and wraps index `len(h.nodes)` to 0.
- **Refinement.** `AbstractRing` is what spec 4.6 promises: a set of members and `owner`, the route of every target to the owner of the first spot at or after it, wrapping. `HashRing` maps `members` to the names in `nodes` and `owner` to `GetNode`; `RoutesAsAbstractRing` is the abstract spec checked as a property.
- **Equal hashes.** `SortByHash` is `sort.Sort` on at most 12 spots (an ASSUME). pdqsort sorts such a slice by insertion sort, which keeps equal hashes in the order they had before. `PositionAssignments` are distinct by default. A run may override it with assignments that collide, as two low-32-bit murmur3 hashes may.
- **Two processes.** `RingPair` instantiates `HashRing` twice, `A` and `B`, with the same `pos`: two processes that each build a ring from the same nodes. Each process calls AddNode and RemoveNode on its own ring, in its own order.

### Compress.tla (compression helpers)

- **State.** `weak` and `strong` are the thresholds. `cpool` and `dpool` are the buffers in the two pools, and `used` the buffers New has made. `mem[b]` is what buffer b's backing array holds. Per goroutine, `g` holds its call in progress, and `held` the slices it got back, each with what it should read.
- **Slices.** A result is the caller's own bytes (`Own`) or `buffer.Bytes()` of a pooled buffer (`Alias`). `View` reads it now. `Reset` keeps the backing array, so an `Alias` reads whatever the buffer holds later.
- **Actions.**
  - `InitThresholds` replaces a threshold when its argument is positive.
  - `CallCompress` returns empty or small inputs as they are. Otherwise it picks the level from the thresholds read under one RLock.
  - `CompressGet` and `DecompressGet` are `pool.Get`: a pooled buffer, or a new one.
  - `CompressWrite` is `zlibCompress`: it writes the stream, hands the buffer back, and returns its bytes.
  - `CallDecompress` handles the empty input and zlib's header check.
  - `DecompressRead` inflates what the input slice holds when it is read.
- **Growth.** Buffer capacities are not modelled. `WriteBuffer` either writes in place, or grows the buffer into a new array. When it grows, the slices of the old array keep its contents (`Detach`).
- **zlib.** zlib is a record `Z(d, level)` that Decompress inverts.

### StrMap.tla (string-keyed ConcurrentMap)

- **Shard count.** `N` is the shard count `NewWithOptions` builds. `Idx` is getShard's `fnv32(key) % defaultShardCount`, computed on the key's bytes. `InRange(i)` tells whether `m[i]` exists.
- **Single-key operations.** Each holds one shard's lock for its whole body, so it is one action (`KeyOp`). It panics when the key's index is out of range.
- **Multi-shard operations.** These take one step per key or per shard:
  - MSet and MGet have one goroutine per key.
  - Clear has one goroutine per shard of `m`.
  - Count loops in order up to `defaultShardCount`, and reaching `m[N]` when N < 32 panics.
  - Items has one goroutine per shard (`VisitStep`) and returns when snapshot's `wg.Wait` would, which is never when N < 32.
  - Keys runs Count, then its per-shard goroutines. Its `wg.Add(defaultShardCount)` counts 32, so with N > 32 `wg.Wait` returns after any 32 Dones: `Pending` lets Keys return with up to N - 32 shards unvisited, shards holding keys included.
- **Leftover goroutines.** `strays` counts the goroutines that panic later when N > 32. These are snapshot's goroutine for index 32 (`chans[32]`, line 287), and the goroutine of Keys left over when its `wg.Wait` returned: it sends on the closed channel or drives the counter negative (325-328).
- **Locks.** Shard locks are not explicit. No operation of this map blocks while holding one, except Keys' send, whose consumer always drains the channel. Each shard visit therefore reads a consistent shard.
- **Ghost variables.** `ever` and `always` serve as in I64Map, for every loop call.

## Runs

| Run (cfg) | Expect | What it shows |
|---|---|---|
| `MCStopper.cfg` | pass | **Calls:** 2 DoStop, 2 TriggerStop, 1 WaitStopped.<br>**Checks:** TriggerStop closes `stopTrigger` at most once (`TriggerClosedOnce`).<br>WaitStopped returns once DoStop was called, unless the process died (`WaitStoppedReturns`). |
| `MCStopper_once.cfg` | violation | Two DoStop calls both start their stop function (`StopFnRunsOnce`), then the second close of `stoppedChan` panics. |
| `MCIncrementID_onedoc.cfg` | violation | Two InitIncrementIDDoc calls insert two counter documents. |
| `MCInt64Bloom_returns.cfg` | violation | AddMany never returns: MSet self-deadlocks. |
| `MCByteBloom.cfg` | violation | On the []byte filter, goroutine 2's Add resets the shared fnv32a hasher between goroutine 1's Write and Sum32; goroutine 1's Contains of a key it added tests the offset basis' bit and answers false (`NoFalseNegative`). |
| `MCI64Map_all.cfg` | pass | **Setup:** every operation on both goroutines, keys 0, 32 (shard 5) and 1 (shard 18), one call each.<br>**Checks:** Keys is a moving snapshot although its channel holds only the earlier Count's keys (`KeysMovingSnapshot`); every call returns, calls blocked in Lock or RLock included (`EveryCallReturns`). |
| `MCRingPair.cfg` | violation | **Setup:** two nodes with two spots each, on four positions with at most one collision.<br>**Finding:** a spot of n1 and a spot of n2 share position 2. Ring A adds n1 then n2, and ring B adds n2 then n1. Both rings then hold the same nodes, but A routes the keys at positions 0 to 2 to n1 and B routes them to n2 (`RingsAgree`). |
| `MCStrMap.cfg` | pass | **Setup:** `ShardCount: 33`; Items, Keys, Count and MGet against Set, Remove, MSet and Clear, two calls each.<br>**Checks:** Items, MGet and Count are still moving snapshots with 33 shards, up to the left-over goroutine's panic (`MovingSnapshot`); MGet stores only found keys (`TypeOK`). |
| `MCStrMap_keys.cfg` | violation | **Setup:** `ShardCount: 33`; g1 calls Keys while g2 calls Set and Remove.<br>**Finding:** g2 sets "a" (shard 12); g1's Keys visits shard 5, and its `wg.Wait` returns after 32 Dones with shard 12's goroutine still to run: Keys returns without "a", which was present throughout (`KeysSnapshot`). The left-over goroutine then panics. |
| `MCStrMap_small.cfg` | violation | With `ShardCount: 4`, Set and Count index past `m` and panic (`NoPanic`). |
| `MCCompress.cfg` | violation | **Setup:** 2 goroutines, 2 calls each; inputs of 0, 100, 20000 and 600000 bytes; Init(50, 10000) or Init(0, 0).<br>**Finding:** goroutine 1 compresses a 20000-byte input and keeps the result. Its next Compress gets the same buffer from the pool and writes over that result (`ResultsIntact`). It takes six steps and needs no second goroutine. |
| `MCHashRing.cfg` | pass | **Setup:** three nodes, two spots each, every order of the six spots; AddNode (twice for a node, too) and RemoveNode up to six spots on the ring.<br>**Checks:** h.nodes refines `AbstractRing`: GetNode routes every position to the owner of the first spot at or after it, wrapping (`RoutesAsAbstractRing`); each ring node carries its own spot's hash (`TypeOK`). |

Each property of a passing run has a mutant in `PROJECT.json`. A mutant is a plausible bug in the code, which the run then catches. Examples:

- TriggerStop without the re-check under its lock, or taking DoStop's mutex.
- DoStop's select without the timeout case.
- A non-blocking send in Keys.
- Keys' caller receiving only after `wg.Wait`.
- MGet storing a result without the `ok` check.
- Items returning before snapshot's `wg.Wait`.
- AddNode hashing one spot for all, or RemoveNode filtering only the first spot.

## Bounds and why they suffice

- **Two goroutines per role.** Every race in this code is between two goroutines on the same lock, flag or shard. A third adds no new interleaving of a different kind.
- **Keys and shards.** Map runs use 2 or 3 keys chosen by their real FNV hashes:
  - int64 keys 0 and 32 share shard 5, and key 1 is in shard 18;
  - string keys "a", "b" and "e" are in shards 12, 5 and 0.
  - So both "same shard" and "different shard" interleavings occur.
- **Calls.** MaxCalls is 2 where a second call is needed, as in the string map's snapshot run and the Stopper. It is 1 in the int64 map's all-operations run, because two calls each take TLC past five minutes.
- **Bloom filters.** `Size` and `K` are small: the int64 filter has K = 4, which uses its three base hash functions and factor 2. Int64 keys are small enough that `uint32` products do not wrap. The []byte filter uses New(2, 0.25): m = 6, k = 3, and one-byte keys.
- **Rings.** Three nodes with two spots each interleave the nodes' arcs, so a wrong sort or filter sends some target to a node other than the abstract owner. `MaxRingLen` 6 allows a duplicate AddNode next to another node. The ring pair needs only two nodes: one collision between their spots, and the two orders of adding them.
- **Compression.** There are four buffers, one for each Get that two goroutines with two calls each can make, so a Get never has to wait for a buffer. The inputs cover every branch of Compress at the default thresholds, and Init's arguments cover both branches of Init.
- **Counters.** Two clients, each calling InitIncrementIDDoc once, are enough for the check-then-insert race.

## Fairness

- **Calls are the application's.** They are never forced, and every spec has a stuttering step once every goroutine has made its calls. Without it, finished states would be deadlocks.
- **Steps of a call are weakly fair.** The Go scheduler runs runnable goroutines.
- **Lock acquisition is strongly fair in I64Map and Stopper.** A lock that becomes free again and again is eventually handed to a waiter: starvation mode in sync.Mutex, writer preference in sync.RWMutex.
- **A stop function gets no fairness.** The code bounds it with a timeout precisely because it may never return. The timeout itself gets weak fairness.

## Not modelled

- **Leaf components.**
  - countdownTimer: every method is one critical section over one `time.Time`. No method reads and then writes across two sections, and nothing in the repository calls it. A model would only restate the RWMutex.
  - GoSafe, RunSafe, CatchErr: one goroutine with a deferred recover, and no state shared with anything else.
    - `for i := range h.virtualSpots` (int64_ketama.go:54) needs Go 1.22 or later. On those versions `panic(nil)` reaches `recover` as a `*runtime.PanicNilError`, so no panic escapes RunSafe unrecovered.
  - RoutineId: a decimal parse of the first line of `runtime.Stack`. The 128-byte buffer holds `goroutine <id> [...]` for every 20-digit uint64 id, and a goroutine id cannot overflow uint64 in practice. A unit test over stack prefixes covers it completely.
- **The int64 filter's concurrent Add and Contains.** Bits are never cleared and the hash functions are pure, so a Contains after an Add cannot miss. No run is kept for that; `Int64Bloom` serves the AddMany deadlock run. Its state is only what the code keeps: bits, the mutex, each goroutine's call in progress and its loop counter.
- **Bitmap.** Clear and Count are defined in `Bitmap.tla` but no run drives them.
- **pdqsort above 12 spots.** Rings in the model hold at most 12 spots, where sort.Sort is an insertion sort. Above that, pdqsort orders equal hashes depending on its input. This only adds orders to the ones already shown to disagree.
- **The ring's hash width.** Spec 4.6 says the position is the top 32 bits of the 64-bit hash; the code takes the last 4 bytes of `Sum`, the low 32 bits. Positions are abstract in the model, so this difference is noted, not checked.
- **ForEach callbacks that call the map.** A callback's second RLock of its shard waits behind a pending writer that waits for the first: a deadlock that UpsertCb's comment and the spec's shared-resource policy already document and forbid. `I64Map`'s callbacks do not call the map.
- **Panics of the left-over goroutines above 32 shards.** `StrayPanic` fires in the strmap run, but `NoPanic` is checked only with 4 shards, where getShard panics first.
- **Larger I64Map runs.** Two calls per goroutine, even split into readers and writers, take TLC past five minutes; the run keeps one call each over every operation.
- **Crypto and conversions.**
  - AES, RSA, curve25519, the secure channel, camel case, time, IP, rand and the ID codec.
  - These are byte and string transformations without concurrency, and out of TLC's reach.
- **Connection bootstrap** (`NewMongo`, `NewRedis`). Its one relevant setting, retryable writes off, is modelled in IncrementID as writes that may or may not apply.
