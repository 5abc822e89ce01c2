------------------------------- MODULE Stopper -------------------------------
(***************************************************************************)
(* The lifecycle Stopper of src/sync/stopper.go (type Stopper).            *)
(*                                                                         *)
(* Three kinds of goroutine share one Stopper: Stoppers call DoStop(f),   *)
(* each with its own stop function f, run on a goroutine of its own and   *)
(* bounded by the stop timeout; Triggerers call TriggerStop(); Waiters    *)
(* call WaitStopped().  Each Go statement another goroutine can observe   *)
(* is one step: an atomic Load or Store, a Lock or Unlock, a close.  A    *)
(* close of a closed channel panics and nothing recovers it: crashed.  A  *)
(* stop function may return, panic, or never return.                      *)
(***************************************************************************)
EXTENDS Naturals, FiniteSets

CONSTANTS Stoppers,    \* goroutines that call DoStop
          Triggerers,  \* goroutines that call TriggerStop
          Waiters,     \* goroutines that call WaitStopped
          NoOwner      \* owner of a free sync.Mutex

ASSUME NoOwner \notin Stoppers \cup Triggerers

VARIABLES
    st,       \* the Stopper's fields (channels as "closed" flags)
    d,        \* each DoStop call: pc and its f's goroutine
    tpc,      \* program counter of each TriggerStop call
    wpc,      \* program counter of each WaitStopped call
    crashed   \* an unrecovered panic ended the process

vars == <<st, d, tpc, wpc, crashed>>

TypeOK ==
    /\ st \in [stopTrigger : BOOLEAN, stopTriggered : BOOLEAN,
               triggerLock : Triggerers \cup {NoOwner},
               stoppingChan : BOOLEAN, isStopping : BOOLEAN,
               stoppingLock : Stoppers \cup {NoOwner}, stoppedChan : BOOLEAN]
    /\ d \in [Stoppers -> [pc : {"idle", "check", "lock", "close", "store",
                                 "unlock", "spawn", "select", "closeStopped",
                                 "done"},
                           fn : {"none", "running", "done"}]]
    /\ tpc \in [Triggerers -> {"idle", "check", "lock", "close", "store",
                               "unlock", "done"}]
    /\ wpc \in [Waiters -> {"idle", "waiting", "returned"}]

\* NewStopper: every channel open, both flags false, both locks free.
Init ==
    /\ st = [stopTrigger |-> FALSE, stopTriggered |-> FALSE,
             triggerLock |-> NoOwner, stoppingChan |-> FALSE,
             isStopping |-> FALSE, stoppingLock |-> NoOwner,
             stoppedChan |-> FALSE]
    /\ d = [s \in Stoppers |-> [pc |-> "idle", fn |-> "none"]]
    /\ tpc = [t \in Triggerers |-> "idle"]
    /\ wpc = [w \in Waiters |-> "idle"]
    /\ crashed = FALSE

\* DoStop call s is at pc from and goes on to pc to; the Stopper, the other
\* calls and the process are left alone unless the step says otherwise.
At(s, from) == ~crashed /\ d[s].pc = from /\ UNCHANGED <<tpc, wpc>>
DStep(s, from, to) == At(s, from) /\ d' = [d EXCEPT ![s].pc = to]

-----------------------------------------------------------------------------
(* DoStop(f)                                                               *)

CallDoStop(s) == DStep(s, "idle", "check") /\ UNCHANGED <<st, crashed>>

\* if s.IsStopping() { return }
DoStopCheck(s) ==
    /\ DStep(s, "check", IF st.isStopping THEN "done" ELSE "lock")
    /\ UNCHANGED <<st, crashed>>

\* In the closure: Lock, then if s.IsStopping() { return }.  That return
\* leaves only the closure: its deferred Unlock runs and DoStop goes on to
\* start f and close stoppedChan all the same.
DoStopLock(s) ==
    /\ st.stoppingLock = NoOwner
    /\ IF st.isStopping
         THEN DStep(s, "lock", "spawn") /\ UNCHANGED st
         ELSE DStep(s, "lock", "close") /\ st' = [st EXCEPT !.stoppingLock = s]
    /\ UNCHANGED crashed

\* close(s.stoppingChan): a second close panics.
DoStopClose(s) ==
    /\ ~crashed /\ d[s].pc = "close"
    /\ IF st.stoppingChan
         THEN crashed' = TRUE /\ UNCHANGED <<st, d, tpc, wpc>>
         ELSE /\ DStep(s, "close", "store") /\ UNCHANGED crashed
              /\ st' = [st EXCEPT !.stoppingChan = TRUE]

\* s.isStopping.Store(true)
DoStopStore(s) ==
    /\ DStep(s, "store", "unlock") /\ st' = [st EXCEPT !.isStopping = TRUE]
    /\ UNCHANGED crashed

\* the closure's deferred Unlock
DoStopUnlock(s) ==
    /\ DStep(s, "unlock", "spawn") /\ st' = [st EXCEPT !.stoppingLock = NoOwner]
    /\ UNCHANGED crashed

\* go func() { f(); close(done) }()
DoStopSpawn(s) ==
    /\ At(s, "spawn")
    /\ d' = [d EXCEPT ![s].pc = "select", ![s].fn = "running"]
    /\ UNCHANGED <<st, crashed>>

\* The goroutine of f: f returns and done is closed, or f panics on a
\* goroutine with no recover.
StopFnReturn(s) ==
    /\ ~crashed /\ d[s].fn = "running"
    /\ d' = [d EXCEPT ![s].fn = "done"]
    /\ UNCHANGED <<st, tpc, wpc, crashed>>

StopFnPanic(s) ==
    /\ ~crashed /\ d[s].fn = "running"
    /\ crashed' = TRUE
    /\ UNCHANGED <<st, d, tpc, wpc>>

\* select { case <-done: }
DoStopSelectDone(s) ==
    /\ At(s, "select") /\ d[s].fn = "done"
    /\ d' = [d EXCEPT ![s].pc = "closeStopped"]
    /\ UNCHANGED <<st, crashed>>

\* Mutant of DoStopTimeout: a select with no ctx.Done() case.
DoStopNoTimeout(s) == FALSE /\ DoStopSelectDone(s)

\* select { case <-ctx.Done(): log.Errorf(...) }: the stop timeout elapsed.
DoStopTimeout(s) ==
    /\ At(s, "select")
    /\ d' = [d EXCEPT ![s].pc = "closeStopped"]
    /\ UNCHANGED <<st, crashed>>

\* the deferred close(s.stoppedChan) as DoStop returns: a second panics.
DoStopCloseStopped(s) ==
    /\ ~crashed /\ d[s].pc = "closeStopped"
    /\ IF st.stoppedChan
         THEN crashed' = TRUE /\ UNCHANGED <<st, d, tpc, wpc>>
         ELSE /\ DStep(s, "closeStopped", "done") /\ UNCHANGED crashed
              /\ st' = [st EXCEPT !.stoppedChan = TRUE]

-----------------------------------------------------------------------------
(* TriggerStop()                                                           *)

\* TriggerStop call t is at pc from and goes on to to.
TStep(t, from, to) ==
    /\ ~crashed /\ tpc[t] = from
    /\ tpc' = [tpc EXCEPT ![t] = to]
    /\ UNCHANGED <<d, wpc>>

CallTriggerStop(t) == TStep(t, "idle", "check") /\ UNCHANGED <<st, crashed>>

\* if s.isStopTriggered() { return }
TriggerCheck(t) ==
    /\ TStep(t, "check", IF st.stopTriggered THEN "done" ELSE "lock")
    /\ UNCHANGED <<st, crashed>>

\* Mutant of TriggerLock: the second isStopTriggered check is dropped.
TriggerLockNoRecheck(t) ==
    /\ st.triggerLock = NoOwner
    /\ TStep(t, "lock", "close") /\ st' = [st EXCEPT !.triggerLock = t]
    /\ UNCHANGED crashed

\* Mutant of TriggerLock: the closure copied from DoStop locks stoppingLock.
TriggerLockWrongMutex(t) ==
    /\ st.stoppingLock = NoOwner
    /\ IF st.stopTriggered
         THEN TStep(t, "lock", "done") /\ UNCHANGED st
         ELSE TStep(t, "lock", "close") /\ st' = [st EXCEPT !.stoppingLock = t]
    /\ UNCHANGED crashed

\* Lock, then if s.isStopTriggered() { return }: this return leaves
\* TriggerStop itself, and the deferred Unlock runs.
TriggerLock(t) ==
    /\ st.triggerLock = NoOwner
    /\ IF st.stopTriggered
         THEN TStep(t, "lock", "done") /\ UNCHANGED st
         ELSE TStep(t, "lock", "close") /\ st' = [st EXCEPT !.triggerLock = t]
    /\ UNCHANGED crashed

\* close(s.stopTrigger): a second close panics.
TriggerClose(t) ==
    /\ ~crashed /\ tpc[t] = "close"
    /\ IF st.stopTrigger
         THEN crashed' = TRUE /\ UNCHANGED <<st, d, tpc, wpc>>
         ELSE /\ TStep(t, "close", "store") /\ UNCHANGED crashed
              /\ st' = [st EXCEPT !.stopTrigger = TRUE]

\* s.stopTriggered.Store(true)
TriggerStore(t) ==
    /\ TStep(t, "store", "unlock") /\ st' = [st EXCEPT !.stopTriggered = TRUE]
    /\ UNCHANGED crashed

\* the deferred Unlock
TriggerUnlock(t) ==
    /\ TStep(t, "unlock", "done") /\ st' = [st EXCEPT !.triggerLock = NoOwner]
    /\ UNCHANGED crashed

-----------------------------------------------------------------------------
(* WaitStopped(): <-s.stoppedChan                                          *)

CallWaitStopped(w) ==
    /\ ~crashed /\ wpc[w] = "idle"
    /\ wpc' = [wpc EXCEPT ![w] = "waiting"]
    /\ UNCHANGED <<st, d, tpc, crashed>>

WaitStoppedReturn(w) ==
    /\ ~crashed /\ wpc[w] = "waiting" /\ st.stoppedChan
    /\ wpc' = [wpc EXCEPT ![w] = "returned"]
    /\ UNCHANGED <<st, d, tpc, crashed>>

-----------------------------------------------------------------------------

\* Every goroutine has returned, or the process has died.
Finished ==
    \/ crashed
    \/ /\ \A s \in Stoppers : d[s].pc = "done" /\ d[s].fn # "running"
       /\ \A t \in Triggerers : tpc[t] = "done"
       /\ \A w \in Waiters : wpc[w] = "returned"

\* The steps of the calls in progress.
DoStopStep(s) ==
    \/ DoStopCheck(s) \/ DoStopLock(s) \/ DoStopClose(s) \/ DoStopStore(s)
    \/ DoStopUnlock(s) \/ DoStopSpawn(s) \/ DoStopSelectDone(s)
    \/ DoStopTimeout(s) \/ DoStopCloseStopped(s)
TriggerStep(t) ==
    \/ TriggerCheck(t) \/ TriggerLock(t) \/ TriggerClose(t)
    \/ TriggerStore(t) \/ TriggerUnlock(t)

Next ==
    \/ \E s \in Stoppers :
          CallDoStop(s) \/ DoStopStep(s) \/ StopFnReturn(s) \/ StopFnPanic(s)
    \/ \E t \in Triggerers : CallTriggerStop(t) \/ TriggerStep(t)
    \/ \E w \in Waiters : CallWaitStopped(w) \/ WaitStoppedReturn(w)
    \/ Finished /\ UNCHANGED vars

\* The Go scheduler runs every runnable goroutine, and sync.Mutex hands the
\* lock to a waiter that keeps asking (starvation mode); the context's timer
\* always fires.  Making a call is up to the application, and a stop
\* function may never return: neither gets fairness.
Fairness ==
    /\ \A s \in Stoppers : WF_vars(DoStopStep(s)) /\ SF_vars(DoStopLock(s))
    /\ \A t \in Triggerers : WF_vars(TriggerStep(t)) /\ SF_vars(TriggerLock(t))
    /\ \A w \in Waiters : WF_vars(WaitStoppedReturn(w))

Spec == Init /\ [][Next]_vars /\ Fairness

-----------------------------------------------------------------------------
(* Properties                                                              *)

\* TriggerStop under concurrent callers closes stopTrigger at most once:
\* two callers that both saw stopTriggered false before the lock must not
\* both reach close(s.stopTrigger) (which would panic).
TriggerClosedOnce ==
    \A t \in Triggerers : tpc[t] = "close" => ~st.stopTrigger

\* Spec 4.13 and test property 11: however many goroutines call DoStop
\* concurrently, the stop function is started at most once and
\* stoppedChan is closed at most once (a second close panics).
StopFnRunsOnce == Cardinality({s \in Stoppers : d[s].fn # "none"}) <= 1

\* Once some goroutine has called DoStop, every WaitStopped caller
\* eventually returns, even if a stop function never returns; only the
\* death of the process can keep it blocked.
WaitStoppedReturns ==
    \A w \in Waiters :
        (wpc[w] = "waiting" /\ \E s \in Stoppers : d[s].pc # "idle")
            ~> (wpc[w] = "returned" \/ crashed)

=============================================================================
