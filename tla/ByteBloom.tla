------------------------------- MODULE ByteBloom -------------------------------
(***************************************************************************)
(* The []byte BloomFilter of src/bloom/bloom.go over the Bitmap of         *)
(* src/bitmap/bitmap.go, used by concurrent goroutines.                    *)
(*                                                                         *)
(* createHashFunctions builds its base functions as closures over ONE      *)
(* fnv.New32a and ONE fnv.New32 hasher, shared by every call of every      *)
(* goroutine.  A base call is Reset, Write, Sum32 on that hasher, and      *)
(* fnv's Write loads the hash state, folds the bytes in, and stores it     *)
(* back.  So each of Reset, the load, the store and Sum32 is a step of its *)
(* own, and the Set / IsSet on the bitmap is another.                      *)
(*                                                                         *)
(* A uint32 is a record [hi, lo] of two 16-bit halves, so that the FNV     *)
(* products wrap modulo 2^32 exactly as in Go.                             *)
(***************************************************************************)
EXTENDS Naturals, Sequences, Bitwise, Bitmap

CONSTANTS K,          \* number of hash functions, after the clamp to 8
          Threads,    \* goroutines calling the filter
          Keys,       \* byte slices, as sequences of bytes
          MaxCalls    \* bound on the calls of one goroutine

ASSUME K \in 1 .. 8 /\ Size >= 1 /\ NoOwner \notin Threads

VARIABLES
    hs,        \* the state of the shared hashers h1 (0) and h2 (1)
    pc,        \* "idle", "add", "contains"
    stage,     \* where the current hash function call is
    call,      \* the call in progress: [op, d]
    k,         \* the hash function the loop of Add / Contains is at
    cur,       \* Write's local copy of the hash state
    h,         \* the value Sum32 returned
    calls,     \* calls made by each goroutine
    added,     \* keys whose Add has returned
    expect,    \* Contains began after Add of its key had returned
    res        \* the result of the last Contains

vars == <<bits, mutex, crashed, hs, pc, stage, call, k, cur, h, calls,
          added, expect, res>>

-----------------------------------------------------------------------------
(* uint32 arithmetic and hash/fnv                                          *)

U32 == [hi : 0 .. 65535, lo : 0 .. 65535]

\* offset32 = 2166136261
offset32 == [hi |-> 33052, lo |-> 40389]

\* x * prime32 (16777619 = 256 * 2^16 + 403), modulo 2^32
MulPrime(x) ==
    LET low == x.lo * 403 IN
    [hi |-> (x.hi * 403 + x.lo * 256 + low \div 65536) % 65536,
     lo |-> low % 65536]

\* x * f modulo 2^32, for a small factor f
MulSmall(x, f) ==
    LET low == x.lo * f IN
    [hi |-> (x.hi * f + low \div 65536) % 65536, lo |-> low % 65536]

\* hash ^= uint32(c) for a byte c
XorByte(x, c) == [x EXCEPT !.lo = @ ^^ c]

\* x % n
ModU32(x, n) == (x.hi * (65536 % n) + x.lo) % n

\* The loop of Write: fnv32a (base 0) xors then multiplies, fnv32 (base 1)
\* multiplies then xors.
RECURSIVE WriteBytes(_, _, _)
WriteBytes(b, x, data) ==
    IF data = <<>> THEN x
    ELSE WriteBytes(b, IF b = 0 THEN MulPrime(XorByte(x, Head(data)))
                                ELSE XorByte(MulPrime(x), Head(data)),
                    Tail(data))

\* createHashFunctions: function i uses base[i % 2] and factor i/2 + 1.
BaseOf(i) == i % 2
Factor(i) == i \div 2 + 1

\* The index a hash function computes when no other call interleaves.
HashIndex(i, d) ==
    ModU32(MulSmall(WriteBytes(BaseOf(i), offset32, d), Factor(i)), Size)

-----------------------------------------------------------------------------

TypeOK ==
    /\ BitmapTypeOK
    /\ hs \in [{0, 1} -> U32]
    /\ pc \in [Threads -> {"idle", "add", "contains"}]
    /\ stage \in [Threads -> {"reset", "load", "store", "sum", "bit"}]
    /\ k \in [Threads -> 0 .. K - 1]
    /\ cur \in [Threads -> U32] /\ h \in [Threads -> U32]
    /\ calls \in [Threads -> 0 .. MaxCalls]
    /\ added \subseteq Keys
    /\ res \in [Threads -> BOOLEAN]

\* fnv.New32a / fnv.New32 start at offset32.
Init ==
    /\ BitmapInit
    /\ hs = [b \in {0, 1} |-> offset32]
    /\ pc = [t \in Threads |-> "idle"]
    /\ stage = [t \in Threads |-> "reset"]
    /\ call = [t \in Threads |-> [op |-> "none", d |-> <<>>]]
    /\ k = [t \in Threads |-> 0]
    /\ cur = [t \in Threads |-> offset32]
    /\ h = [t \in Threads |-> offset32]
    /\ calls = [t \in Threads |-> 0]
    /\ added = {}
    /\ expect = [t \in Threads |-> FALSE]
    /\ res = [t \in Threads |-> FALSE]

Alive == ~crashed

\* Add(data) / Contains(data) begins: the loop starts at bf.hashFunc[0].
Call(t, op, d) ==
    /\ Alive /\ pc[t] = "idle" /\ calls[t] < MaxCalls
    /\ pc' = [pc EXCEPT ![t] = op]
    /\ call' = [call EXCEPT ![t] = [op |-> op, d |-> d]]
    /\ k' = [k EXCEPT ![t] = 0]
    /\ stage' = [stage EXCEPT ![t] = "reset"]
    /\ calls' = [calls EXCEPT ![t] = @ + 1]
    /\ expect' = [expect EXCEPT ![t] = op = "contains" /\ d \in added]
    /\ UNCHANGED <<bits, mutex, crashed, hs, cur, h, added, res>>

\* A step of base[idx](data) on the shared hasher of hash function k.
HashStep(t, from, to) ==
    /\ Alive /\ pc[t] # "idle" /\ stage[t] = from
    /\ stage' = [stage EXCEPT ![t] = to]
    /\ UNCHANGED <<bits, mutex, crashed, pc, call, k, calls, added, expect, res>>

\* h.Reset()
HashReset(t) ==
    /\ HashStep(t, "reset", "load")
    /\ hs' = [hs EXCEPT ![BaseOf(k[t])] = offset32]
    /\ UNCHANGED <<cur, h>>

\* h.Write(data): hash := *s ...
HashLoad(t) ==
    /\ HashStep(t, "load", "store")
    /\ cur' = [cur EXCEPT ![t] = hs[BaseOf(k[t])]]
    /\ UNCHANGED <<hs, h>>

\* ... for each byte: fold it in ...; *s = hash
HashStore(t) ==
    /\ HashStep(t, "store", "sum")
    /\ hs' = [hs EXCEPT ![BaseOf(k[t])] =
                 WriteBytes(BaseOf(k[t]), cur[t], call[t].d)]
    /\ UNCHANGED <<cur, h>>

\* return h.Sum32()
HashSum(t) ==
    /\ HashStep(t, "sum", "bit")
    /\ h' = [h EXCEPT ![t] = hs[BaseOf(k[t])]]
    /\ UNCHANGED <<hs, cur>>

\* h := fn(data) % bf.size, fn multiplying base's result by its factor.
Index(t) == ModU32(MulSmall(h[t], Factor(k[t])), Size)

\* Add: bf.bitmap.Set(int(h)); after the last function Add returns.
AddBit(t) ==
    /\ Alive /\ pc[t] = "add" /\ stage[t] = "bit"
    /\ Set(Index(t))
    /\ IF k[t] + 1 = K
         THEN /\ pc' = [pc EXCEPT ![t] = "idle"]
              /\ added' = added \cup {call[t].d}
              /\ UNCHANGED k
         ELSE /\ k' = [k EXCEPT ![t] = @ + 1]
              /\ UNCHANGED <<pc, added>>
    /\ stage' = [stage EXCEPT ![t] = "reset"]
    /\ UNCHANGED <<hs, call, cur, h, calls, expect, res>>

\* Contains: bf.bitmap.IsSet(int(h)); return false at the first clear bit,
\* true after the last function.
ContainsBit(t) ==
    /\ Alive /\ pc[t] = "contains" /\ stage[t] = "bit"
    /\ IsSet(Index(t))
    /\ LET hit == BitIsSet(bits, Index(t)) IN
       IF ~hit \/ k[t] + 1 = K
         THEN /\ pc' = [pc EXCEPT ![t] = "idle"]
              /\ res' = [res EXCEPT ![t] = hit]
              /\ UNCHANGED k
         ELSE /\ k' = [k EXCEPT ![t] = @ + 1]
              /\ UNCHANGED <<pc, res>>
    /\ stage' = [stage EXCEPT ![t] = "reset"]
    /\ UNCHANGED <<hs, call, cur, h, calls, added, expect>>

-----------------------------------------------------------------------------

Finished == crashed \/ \A t \in Threads : pc[t] = "idle" /\ calls[t] = MaxCalls

Step(t) ==
    \/ HashReset(t) \/ HashLoad(t) \/ HashStore(t) \/ HashSum(t)
    \/ AddBit(t) \/ ContainsBit(t)

Next ==
    \/ \E t \in Threads, d \in Keys :
          Call(t, "add", d) \/ Call(t, "contains", d)
    \/ \E t \in Threads : Step(t)
    \/ Finished /\ UNCHANGED vars

Spec == Init /\ [][Next]_vars /\ \A t \in Threads : WF_vars(Step(t))

-----------------------------------------------------------------------------
(* Properties                                                              *)

\* Spec 4.2 and test property 1, for a filter documented as thread-safe: a
\* Contains(d) that began after an Add(d) had returned answers true, while
\* other goroutines' Adds and Contains run through the shared hashers.
NoFalseNegative ==
    \A t \in Threads :
        (pc[t] = "idle" /\ call[t].op = "contains" /\ expect[t]) => res[t]

=============================================================================
