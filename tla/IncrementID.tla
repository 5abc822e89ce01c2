----------------------------- MODULE IncrementID -----------------------------
(***************************************************************************)
(* The counter helpers of package db (src/unnamed/part_000):               *)
(* InitIncrementIDDoc, IncrementID and IncrementBatchID, called by several *)
(* clients (goroutines or processes) against one collection holding the    *)
(* counter documents {name, next_id} of one counter name.                  *)
(*                                                                         *)
(* The database executes each driver call atomically.  The code creates no *)
(* unique index on name, so the collection may hold several documents of   *)
(* the name: docs is their next_id values in natural order, and an         *)
(* unsorted FindOneAndUpdate updates the first of them.  The driver is    *)
(* used with its default ReturnDocument(Before): the decoded result is the *)
(* document as it was before $inc.  Retryable writes are disabled          *)
(* (NewMongo), so a call that fails on the network is not retried by the   *)
(* driver: it may or may not have been applied, and the caller sees an     *)
(* error either way.                                                       *)
(***************************************************************************)
EXTENDS Integers, Sequences, FiniteSets

CONSTANTS Clients,   \* the callers
          Batches,   \* the batch sizes callers pass, zero and negative included
          MaxCalls   \* bound on the IncrementBatchID calls of one client

ASSUME Batches \subseteq Int /\ MaxCalls \in Nat

VARIABLES
    docs,        \* next_id of every counter document, in natural order
    pc,          \* "ready", or "inserting" between FindOne and InsertOne
    initCalled,  \* the client has called InitIncrementIDDoc
    calls        \* IncrementBatchID calls made by each client

vars == <<docs, pc, initCalled, calls>>

TypeOK ==
    /\ docs \in Seq(Nat \ {0})   \* next_id counts up from 1
    /\ pc \in [Clients -> {"ready", "inserting"}]
    /\ initCalled \in [Clients -> BOOLEAN]
    /\ calls \in [Clients -> 0..MaxCalls]

\* The collection starts without a counter document.
Init ==
    /\ docs = <<>>
    /\ pc = [c \in Clients |-> "ready"]
    /\ initCalled = [c \in Clients |-> FALSE]
    /\ calls = [c \in Clients |-> 0]

-----------------------------------------------------------------------------
(* InitIncrementIDDoc                                                      *)

\* coll.FindOne(ctx, {name}): a document exists and Init returns nil; or
\* ErrNoDocuments and Init goes on to insert; or another error (the
\* network), which Init returns.
InitFindOne(c) ==
    /\ pc[c] = "ready" /\ ~initCalled[c]
    /\ initCalled' = [initCalled EXCEPT ![c] = TRUE]
    /\ \/ /\ docs # <<>>
          /\ UNCHANGED pc
       \/ /\ docs = <<>>
          /\ pc' = [pc EXCEPT ![c] = "inserting"]
       \/ UNCHANGED pc
    /\ UNCHANGED <<docs, calls>>

\* coll.InsertOne(ctx, {name, NextID: 1}), with no second look at the
\* collection.  On a network error the insert may or may not have been
\* applied; Init returns the error either way.
InitInsertOne(c) ==
    /\ pc[c] = "inserting"
    /\ pc' = [pc EXCEPT ![c] = "ready"]
    /\ \/ docs' = Append(docs, 1)
       \/ UNCHANGED docs
    /\ UNCHANGED <<initCalled, calls>>

-----------------------------------------------------------------------------
(* IncrementBatchID (IncrementID is IncrementBatchID with batch 1)         *)

\* batch <= 0 is refused.  Otherwise FindOneAndUpdate({name},
\* {$inc: {next_id: batch}}): with no document the result is
\* ErrNoDocuments; else the first document is incremented and, if the
\* reply arrives, the caller gets its next_id from before the update.  A
\* network error leaves the update applied or not, and returns an error.
IncrementBatchID(c, b) ==
    /\ pc[c] = "ready" /\ calls[c] < MaxCalls
    /\ calls' = [calls EXCEPT ![c] = @ + 1]
    /\ IF b <= 0 \/ docs = <<>>
         THEN UNCHANGED docs
         ELSE \/ docs' = [docs EXCEPT ![1] = @ + b]
              \/ UNCHANGED docs
    /\ UNCHANGED <<pc, initCalled>>

-----------------------------------------------------------------------------

\* Every client has made all its calls.
Done ==
    \A c \in Clients : pc[c] = "ready" /\ initCalled[c] /\ calls[c] = MaxCalls

Next ==
    \/ \E c \in Clients : InitFindOne(c) \/ InitInsertOne(c)
    \/ \E c \in Clients, b \in Batches : IncrementBatchID(c, b)
    \/ Done /\ UNCHANGED vars

\* Calls are made by the application; nothing forces them.
Spec == Init /\ [][Next]_vars

-----------------------------------------------------------------------------
(* Properties                                                              *)

\* Spec 3 and 4.16: there is one counter document per counter name, and
\* InitIncrementIDDoc is idempotent.
OneCounterDoc == Len(docs) <= 1

=============================================================================
