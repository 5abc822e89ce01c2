------------------------------- MODULE Compress -------------------------------
(***************************************************************************)
(* The compression helper of src/compress/compress.go: Init, Compress and *)
(* Decompress called by concurrent goroutines, with the process-wide       *)
(* thresholds under compressMutex and the two sync.Pools of bytes.Buffer.  *)
(*                                                                         *)
(* A buffer is a model value; mem[b] is what its backing array holds.      *)
(* buffer.Reset() empties the Buffer but keeps the backing array, so a     *)
(* slice buffer.Bytes() returned earlier still reads mem[b].  sync.Pool.Get *)
(* returns a pooled buffer or, at its discretion (after a GC, say), a new  *)
(* one.  zlib is abstracted to Z(d, level), which Decompress inverts.      *)
(***************************************************************************)
EXTENDS Integers, FiniteSets

CONSTANTS Threads,
          Data,      \* input byte slices, as model values
          Length,    \* len(data) of each
          Buffers,   \* bytes.Buffer objects the pools' New may allocate
          InitArgs,  \* (weak, strong) arguments of Init calls
          MaxCalls   \* bound on the calls of one goroutine

BestSpeed == 1
DefaultCompression == -1

\* The compressed stream zlib produces for d at a level.
Z(d, level) == [zlib |-> d, level |-> level]

Empty == [bytes |-> "empty"]

Levels == {BestSpeed, DefaultCompression}

\* What a backing array may hold.
Values == Data \cup {Empty} \cup [zlib : Data, level : Levels]

\* Bytes that are a zlib stream.
IsZlib(v) == v \in [zlib : Data, level : Levels]

VARIABLES weak, strong,   \* defaultWeakCompress, defaultStrongCompress
          cpool, dpool,   \* buffers in compressBufferPool, decompressBufferPool
          used,           \* buffers allocated by a pool's New so far
          mem,            \* the backing array of each buffer
          g,              \* each goroutine's call in progress
          held            \* slices returned to each goroutine, with what they held

vars == <<weak, strong, cpool, dpool, used, mem, g, held>>

\* A returned slice: the caller's own bytes, or a view of a buffer.
Own(v) == [own |-> v]
Alias(b) == [buf |-> b]
View(s) == IF "buf" \in DOMAIN s THEN mem[s.buf] ELSE s.own

TypeOK ==
    /\ weak \in Nat /\ strong \in Nat /\ mem \in [Buffers -> Values]
    /\ cpool \subseteq used /\ dpool \subseteq used /\ used \subseteq Buffers
    /\ g \in [Threads -> [pc : {"idle", "cget", "cwrite", "dget", "dread"},
                          d : Data \cup {Empty}, level : Levels,
                          src : [own : Values] \cup [buf : Buffers] \cup {Empty},
                          buf : Buffers \cup {Empty}, calls : 0 .. MaxCalls]]

Init ==
    /\ weak = 10 * 1024 /\ strong = 512 * 1024
    /\ cpool = {} /\ dpool = {} /\ used = {}
    /\ mem = [b \in Buffers |-> Empty]
    /\ g = [t \in Threads |-> [pc |-> "idle", d |-> Empty, level |-> BestSpeed,
                               src |-> Empty, buf |-> Empty, calls |-> 0]]
    /\ held = [t \in Threads |-> {}]

Begin(t) == g[t].pc = "idle" /\ g[t].calls < MaxCalls

\* Init(weak, strong): under the write lock, a positive argument replaces
\* its threshold.
InitThresholds(t) ==
    /\ Begin(t)
    /\ \E a \in InitArgs :
         /\ weak' = IF a[1] > 0 THEN a[1] ELSE weak
         /\ strong' = IF a[2] > 0 THEN a[2] ELSE strong
    /\ g' = [g EXCEPT ![t].calls = @ + 1]
    /\ UNCHANGED <<cpool, dpool, used, mem, held>>

\* The caller keeps a result: the slice, and what it should read.
Kept(hs, t, slice, want) == [hs EXCEPT ![t] = @ \cup {[slice |-> slice, want |-> want]}]
Keep(t, slice, want) == held' = Kept(held, t, slice, want)

\* A write that does not fit the buffer's capacity makes bytes.Buffer grow
\* into a new backing array: slices of the old one, held or being read,
\* keep its contents and no buffer writes them again.
Detach(s, b) == IF s = Alias(b) THEN Own(mem[b]) ELSE s
DetachHeld(b) == [t \in Threads |-> {[r EXCEPT !.slice = Detach(@, b)] : r \in held[t]}]

\* t's call returns.
Done(gs, t) == [gs EXCEPT ![t].pc = "idle"]

\* Fill buffer b with v and return buffer.Bytes() to t: in place, or into a
\* grown array.
WriteBuffer(t, b, v) ==
    /\ mem' = [mem EXCEPT ![b] = v]
    /\ \/ /\ Keep(t, Alias(b), v)
          /\ g' = Done(g, t)
       \/ /\ held' = Kept(DetachHeld(b), t, Alias(b), v)
          /\ g' = Done([u \in Threads |-> [g[u] EXCEPT !.src = Detach(@, b)]], t)

\* Compress(data): an empty input, or one below the weak threshold read
\* under RLock, is returned as is; otherwise the level is chosen from the
\* strong threshold read under the same RLock.
CallCompress(t, d) ==
    /\ Begin(t)
    /\ IF Length[d] = 0 \/ Length[d] < weak
         THEN LET out == IF Length[d] = 0 THEN Empty ELSE d IN
              /\ Keep(t, Own(out), out)
              /\ g' = [g EXCEPT ![t].calls = @ + 1]
         ELSE /\ g' = [g EXCEPT ![t].calls = @ + 1, ![t].pc = "cget", ![t].d = d,
                           ![t].level = IF Length[d] >= strong THEN DefaultCompression
                                                             ELSE BestSpeed]
              /\ UNCHANGED held
    /\ UNCHANGED <<weak, strong, cpool, dpool, used, mem>>

\* pool.Get(): a pooled buffer, or New's.
GetBuffer(t, pool, from, to) ==
    /\ g[t].pc = from
    /\ \E b \in pool \cup (Buffers \ used) :
         /\ g' = [g EXCEPT ![t].pc = to, ![t].buf = b]
         /\ used' = used \cup {b}
         /\ IF from = "cget" THEN cpool' = cpool \ {b} /\ UNCHANGED dpool
                             ELSE dpool' = dpool \ {b} /\ UNCHANGED cpool
    /\ UNCHANGED <<weak, strong, mem, held>>

CompressGet(t) == GetBuffer(t, cpool, "cget", "cwrite")

\* zlibCompress: NewWriterLevel, Write, Close fill the buffer; the deferred
\* Reset and Put hand it back to the pool; buffer.Bytes() is returned.
CompressWrite(t) ==
    /\ g[t].pc = "cwrite"
    /\ WriteBuffer(t, g[t].buf, Z(g[t].d, g[t].level))
    /\ cpool' = cpool \cup {g[t].buf}
    /\ UNCHANGED <<weak, strong, dpool, used>>

\* Decompress(data) of a slice the goroutine holds: empty in, empty out;
\* zlib.NewReader reads the header first and fails on bytes that are not
\* a zlib stream, before any buffer is taken.
CallDecompress(t) ==
    /\ Begin(t)
    /\ \E r \in held[t] :
         CASE View(r.slice) = Empty ->
                /\ Keep(t, Own(Empty), Empty)
                /\ g' = [g EXCEPT ![t].calls = @ + 1]
           [] IsZlib(View(r.slice)) ->
                /\ g' = [g EXCEPT ![t].calls = @ + 1, ![t].pc = "dget", ![t].src = r.slice]
                /\ UNCHANGED held
           [] OTHER ->
                /\ g' = [g EXCEPT ![t].calls = @ + 1]
                /\ UNCHANGED held
    /\ UNCHANGED <<weak, strong, cpool, dpool, used, mem>>

DecompressGet(t) == GetBuffer(t, dpool, "dget", "dread")

\* zlibDecompress: buffer.ReadFrom(reader) inflates the rest of the slice
\* as it reads now; if it no longer holds a stream, that is an error.  The deferred Reset
\* and Put hand the buffer back; buffer.Bytes() is returned.
DecompressRead(t) ==
    /\ g[t].pc = "dread"
    /\ LET in == View(g[t].src) b == g[t].buf IN
       IF IsZlib(in)
         THEN WriteBuffer(t, b, in.zlib)
         ELSE /\ g' = Done(g, t)
              /\ UNCHANGED <<mem, held>>
    /\ dpool' = dpool \cup {g[t].buf}
    /\ UNCHANGED <<weak, strong, cpool, used>>

\* Every goroutine has made its calls.
Finished == \A t \in Threads : g[t].pc = "idle" /\ g[t].calls = MaxCalls

Next ==
    \/ Finished /\ UNCHANGED vars
    \/ \E t \in Threads :
          \/ InitThresholds(t) \/ CallDecompress(t)
          \/ \E d \in Data : CallCompress(t, d)
          \/ CompressGet(t) \/ CompressWrite(t) \/ DecompressGet(t) \/ DecompressRead(t)

Spec == Init /\ [][Next]_vars

-----------------------------------------------------------------------------
(* Properties                                                              *)

\* Spec 8 (round trip): the bytes Compress or Decompress returned read, for
\* as long as their caller holds them, what the call produced, whatever
\* later calls of this or other goroutines do with the pooled buffers.
ResultsIntact == \A t \in Threads : \A r \in held[t] : View(r.slice) = r.want

=============================================================================
