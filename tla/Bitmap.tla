------------------------------- MODULE Bitmap -------------------------------
(***************************************************************************)
(* The Bitmap of src/bitmap/bitmap.go: Size bits packed into               *)
(* (Size + 7) / 8 bytes, bit i in byte i / 8 under mask 1 << (i % 8),      *)
(* guarded by one sync.Mutex.                                              *)
(*                                                                         *)
(* Every operation but MSet validates its index without the lock (a bad   *)
(* index panics, and nothing recovers: crashed), then takes the mutex, does *)
(* its work and releases it; no other goroutine can tell these steps apart, *)
(* so such a call is one action, enabled while the mutex is free.  MSet    *)
(* takes the mutex and holds it while it calls Set once per index: that is *)
(* a step of its own.  The modules that call the Bitmap own the program    *)
(* counters; this module gives the state and the operations.              *)
(***************************************************************************)
EXTENDS Naturals, FiniteSets, Bitwise, Functions

CONSTANTS Size,     \* the size passed to NewBitmap
          NoOwner   \* holder of a free mutex

ASSUME Size \in Nat

VARIABLES bits,     \* the byte slice b.bits
          mutex,    \* the goroutine holding b.mutex, or NoOwner
          crashed   \* a panic ended the process

bitmapVars == <<bits, mutex, crashed>>

NBytes == (Size + 7) \div 8
Bytes == 0 .. NBytes - 1

\* NewBitmap(size): size >= 0 here; all bytes zero.
BitmapInit ==
    /\ bits = [j \in Bytes |-> 0]
    /\ mutex = NoOwner
    /\ crashed = FALSE

BitmapTypeOK ==
    /\ bits \in [Bytes -> 0..255]
    /\ crashed \in BOOLEAN

\* validateIndex: the index is within [0, size).
ValidIndex(i) == i >= 0 /\ i < Size

Mask(i) == 2 ^ (i % 8)

\* b.bits[index/8] |= 1 << (index%8)
SetBit(bs, i) == [bs EXCEPT ![i \div 8] = @ | Mask(i)]

\* b.bits[index/8] &^= 1 << (index%8)
ClearBit(bs, i) == [bs EXCEPT ![i \div 8] = @ - (@ & Mask(i))]

\* b.bits[index/8]&(1<<(index%8)) != 0
BitIsSet(bs, i) == (bs[i \div 8] & Mask(i)) # 0

\* bits.OnesCount8
OnesCount8(x) == Cardinality({j \in 0..7 : (x \div 2 ^ j) % 2 = 1})

\* the loop of Count over every byte
CountOf(bs) == SumFunction([j \in DOMAIN bs |-> OnesCount8(bs[j])])

\* The bits set, as the set of their indexes.
SetIndexes(bs) == {i \in 0 .. 8 * NBytes - 1 : BitIsSet(bs, i)}

-----------------------------------------------------------------------------
(* Operations.  Each is the part of an action that touches the Bitmap; a  *)
(* caller conjoins its own program counter.  Out of range, each panics    *)
(* before it touches the lock.                                             *)

Panic == crashed' = TRUE /\ UNCHANGED <<bits, mutex>>

\* Set(index)
Set(i) ==
    IF ~ValidIndex(i) THEN Panic
    ELSE /\ mutex = NoOwner
         /\ bits' = SetBit(bits, i)
         /\ UNCHANGED <<mutex, crashed>>

\* Clear(index)
Clear(i) ==
    IF ~ValidIndex(i) THEN Panic
    ELSE /\ mutex = NoOwner
         /\ bits' = ClearBit(bits, i)
         /\ UNCHANGED <<mutex, crashed>>

\* IsSet(index), whose result is BitIsSet(bits, i); the bytes are unchanged.
IsSet(i) ==
    IF ~ValidIndex(i) THEN Panic
    ELSE /\ mutex = NoOwner
         /\ UNCHANGED bitmapVars

\* Count(), whose result is CountOf(bits).
Count == mutex = NoOwner /\ UNCHANGED bitmapVars

\* MSet(indexes), first step: Lock, held by goroutine t through the loop.
MSetLock(t) ==
    /\ mutex = NoOwner
    /\ mutex' = t
    /\ UNCHANGED <<bits, crashed>>

\* MSet, one iteration of the loop: b.Set(index) while t holds the mutex.
\* Set validates, then Locks the mutex t holds; sync.Mutex is not
\* reentrant, so this is enabled only if the mutex is free.
MSetIndex(t, i) == mutex = t /\ Set(i)

\* MSet, after the loop: the deferred Unlock.
MSetUnlock(t) ==
    /\ mutex = t
    /\ mutex' = NoOwner
    /\ UNCHANGED <<bits, crashed>>

=============================================================================
