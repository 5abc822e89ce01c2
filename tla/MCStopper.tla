------------------------------ MODULE MCStopper ------------------------------
(* Two DoStop callers, two TriggerStop callers and one WaitStopped caller  *)
(* on one Stopper: enough for every pair of calls of one kind to race.     *)
EXTENDS Stopper

CONSTANTS s1, s2, t1, t2, w1

MCStoppers == {s1, s2}
MCTriggerers == {t1, t2}
MCWaiters == {w1}
=============================================================================
