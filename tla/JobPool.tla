------------------------------- MODULE JobPool -------------------------------
(***************************************************************************)
(* What the queue and its pool promise for a job, with no channel, timers, *)
(* records or goroutines in sight: once accepted it is either waiting or   *)
(* being run, by one worker; it is tried again after a failure, MaxRetries *)
(* times at most; it ends once; and it is lost only when the pool is       *)
(* closed, if it waits, or with the whole process.                         *)
(***************************************************************************)
EXTENDS Naturals, FiniteSets

CONSTANTS
    Jobs,
    Size,           \* how many workers the pool has
    MaxRetries

VARIABLES
    state,          \* state[j]: none, waiting, running, or how j ended
    tries,          \* tries[j]: the failed attempts of a job that has not ended
    closed          \* the pool takes no responsibility for what waits

vars == <<state, tries, closed>>

Init ==
    /\ state = [j \in Jobs |-> "none"]
    /\ tries = [j \in Jobs |-> 0]
    /\ closed = FALSE

Accept(j) ==
    /\ state[j] = "none"
    /\ state' = [state EXCEPT ![j] = "waiting"]
    /\ UNCHANGED <<tries, closed>>

Take(j) ==
    /\ state[j] = "waiting"
    /\ Cardinality({k \in Jobs : state[k] = "running"}) < Size
    /\ state' = [state EXCEPT ![j] = "running"]
    /\ UNCHANGED <<tries, closed>>

End(j, s) ==
    /\ state' = [state EXCEPT ![j] = s]
    /\ tries' = [tries EXCEPT ![j] = 0]
    /\ UNCHANGED closed

Succeed(j) == state[j] = "running" /\ End(j, "succeeded")

GiveUp(j) == state[j] = "running" /\ tries[j] = MaxRetries /\ End(j, "failed")

Retry(j) ==
    /\ state[j] = "running" /\ tries[j] < MaxRetries
    /\ state' = [state EXCEPT ![j] = "waiting"]
    /\ tries' = [tries EXCEPT ![j] = @ + 1]
    /\ UNCHANGED closed

Close == closed' = TRUE /\ UNCHANGED <<state, tries>>

Abandon(j) == closed /\ state[j] = "waiting" /\ End(j, "lost")

\* The process ends and another one starts.
Restart ==
    /\ state' = [j \in Jobs |-> IF state[j] \in {"waiting", "running"} THEN "lost" ELSE state[j]]
    /\ tries' = [j \in Jobs |-> 0]
    /\ closed' = FALSE

Next ==
    \/ \E j \in Jobs :
          Accept(j) \/ Take(j) \/ Succeed(j) \/ GiveUp(j) \/ Retry(j) \/ Abandon(j)
    \/ Close
    \/ Restart

Spec == Init /\ [][Next]_vars

(***************************************************************************)
(* The consequence a user relies on: how a job ended is how it ended.      *)
(***************************************************************************)
EndedStays ==
    [][\A j \in Jobs : state[j] \in {"succeeded", "failed", "lost"} => state'[j] = state[j]]_vars
=============================================================================
