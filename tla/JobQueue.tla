------------------------------ MODULE JobQueue ------------------------------
(***************************************************************************)
(* internal/queue: a buffered channel of jobs, the in-memory status        *)
(* records the HTTP status endpoints show, a pool of workers, and one      *)
(* goroutine per pending retry.  The channel operation of Enqueue and its  *)
(* status update are two steps, as are a worker's receive and its first    *)
(* status update: nothing holds the queue's mutex across them.  A handler  *)
(* may hang (no git command has a timeout), and the service shuts down in  *)
(* two steps: the HTTP server drains, then main's deferred Stop runs.      *)
(***************************************************************************)
EXTENDS Naturals, Sequences, FiniteSets

CONSTANTS
    Jobs,           \* the jobs ever enqueued; generateID never repeats an ID
    Workers,
    Buffer,         \* capacity of the channel; the service's is 100
    MaxRetries,     \* NewPool: 3
    NoItem          \* what an idle worker holds

\* A job value as it is passed around: Attempts travels with the copy.
Items == [job : Jobs, attempts : 0 .. MaxRetries]

ASSUME JobQueueAssumption ==
    /\ Buffer \in Nat \ {0}
    /\ MaxRetries \in Nat
    /\ IsFiniteSet(Workers)
    /\ NoItem \notin Items

VARIABLES
    enqueue,        \* how far each call of Enqueue has got
    queue,          \* q.jobs: the channel
    status,         \* q.status: the status of each record, "none" without one
    old,            \* the record was last updated longer than maxAge ago
    worker,         \* how far each worker has got
    held,           \* the job value each worker holds
    waiting,        \* retry goroutines that wait for their timer
    sending,        \* retry goroutines that wait for room in the channel
    phase,          \* of the service: serving; draining, after a signal;
                    \* stopping, once the pool's context is cancelled
    runs,           \* history: how often each job's handler was called
    outcome         \* history: how each job really ended

records == <<status, old>>
vars == <<enqueue, queue, records, worker, held, waiting, sending, phase, runs, outcome>>

Statuses == {"none", "pending", "running", "retrying", "succeeded", "failed"}
Final == {"succeeded", "failed"}

Init ==
    /\ enqueue = [j \in Jobs |-> "new"]
    /\ queue = <<>>
    /\ status = [j \in Jobs |-> "none"] /\ old = [j \in Jobs |-> FALSE]
    /\ worker = [w \in Workers |-> "select"] /\ held = [w \in Workers |-> NoItem]
    /\ waiting = {} /\ sending = {}
    /\ phase = "serving"
    /\ runs = [j \in Jobs |-> 0]
    /\ outcome = [j \in Jobs |-> "none"]

SetStatus(j, s) ==
    /\ status' = [status EXCEPT ![j] = s]
    /\ old' = [old EXCEPT ![j] = FALSE]

(***************************************************************************)
(* Enqueue: a non-blocking send, then the record.  Requests that arrived   *)
(* before the signal are served while the server drains.                   *)
(***************************************************************************)
Called(j) == enqueue[j] = "new" /\ phase # "stopping"

Send(j) ==
    /\ Called(j) /\ Len(queue) < Buffer
    /\ queue' = Append(queue, [job |-> j, attempts |-> 0])
    /\ enqueue' = [enqueue EXCEPT ![j] = "sent"]
    /\ UNCHANGED <<records, worker, held, waiting, sending, phase, runs, outcome>>

SetPending(j) ==
    /\ enqueue[j] = "sent"
    /\ SetStatus(j, "pending")
    /\ enqueue' = [enqueue EXCEPT ![j] = "accepted"]
    /\ UNCHANGED <<queue, worker, held, waiting, sending, phase, runs, outcome>>

Full(j) ==
    /\ Called(j) /\ Len(queue) = Buffer
    /\ enqueue' = [enqueue EXCEPT ![j] = "full"]
    /\ UNCHANGED <<queue, records, worker, held, waiting, sending, phase, runs, outcome>>

SetRefused(j) ==
    /\ enqueue[j] = "full"
    /\ SetStatus(j, "failed")
    /\ enqueue' = [enqueue EXCEPT ![j] = "refused"]
    /\ UNCHANGED <<queue, worker, held, waiting, sending, phase, runs, outcome>>

(***************************************************************************)
(* A worker: select on the channel and the context, then process.          *)
(***************************************************************************)
Receive(w) ==
    /\ worker[w] = "select" /\ queue # <<>>
    /\ held' = [held EXCEPT ![w] = Head(queue)]
    /\ queue' = Tail(queue)
    /\ worker' = [worker EXCEPT ![w] = "received"]
    /\ UNCHANGED <<enqueue, records, waiting, sending, phase, runs, outcome>>

\* Mutant of Exit: a worker leaves only once the channel is drained and it
\* is told so, which nobody does.
ExitNever(w) == worker[w] = "select" /\ phase = "stopping" /\ FALSE /\ UNCHANGED vars

Exit(w) ==
    /\ worker[w] = "select" /\ phase = "stopping"
    /\ worker' = [worker EXCEPT ![w] = "exited"]
    /\ UNCHANGED <<enqueue, queue, records, held, waiting, sending, phase, runs, outcome>>

SetRunning(w) ==
    /\ worker[w] = "received"
    /\ SetStatus(held[w].job, "running")
    /\ runs' = [runs EXCEPT ![held[w].job] = @ + 1]
    /\ worker' = [worker EXCEPT ![w] = "handling"]
    /\ UNCHANGED <<enqueue, queue, held, waiting, sending, phase, outcome>>

Finish(w, s) ==
    /\ SetStatus(held[w].job, s)
    /\ outcome' = [outcome EXCEPT ![held[w].job] = s]
    /\ UNCHANGED <<waiting, queue>>

Release(w) ==
    /\ held' = [held EXCEPT ![w] = NoItem]
    /\ worker' = [worker EXCEPT ![w] = "select"]

HandlerSucceeds(w) ==
    /\ worker[w] = "handling"
    /\ Finish(w, "succeeded")
    /\ Release(w)
    /\ UNCHANGED <<enqueue, sending, phase, runs>>

NextAttempt(item) == [item EXCEPT !.attempts = @ + 1]

\* Mutants of ScheduleRetry: the copy that is retried was taken before the
\* increment; the status is already final; the job is also sent at once.
ScheduleRetryStaleCopy(w) ==
    /\ SetStatus(held[w].job, "retrying")
    /\ waiting' = waiting \cup {held[w]}
    /\ UNCHANGED <<outcome, queue>>
ScheduleRetryAsFailed(w) ==
    /\ SetStatus(held[w].job, "failed")
    /\ waiting' = waiting \cup {NextAttempt(held[w])}
    /\ UNCHANGED <<outcome, queue>>
ScheduleRetryTwice(w) ==
    /\ SetStatus(held[w].job, "retrying")
    /\ waiting' = waiting \cup {NextAttempt(held[w])}
    /\ queue' = IF Len(queue) < Buffer THEN Append(queue, NextAttempt(held[w])) ELSE queue
    /\ UNCHANGED outcome

ScheduleRetry(w) ==
    /\ SetStatus(held[w].job, "retrying")
    /\ waiting' = waiting \cup {NextAttempt(held[w])}
    /\ UNCHANGED <<outcome, queue>>

\* Mutant of HandlerReturnsError: the count is compared before it is
\* incremented.
HandlerReturnsErrorOffByOne(w) ==
    /\ \/ held[w].attempts > MaxRetries /\ Finish(w, "failed")
       \/ held[w].attempts <= MaxRetries /\ ScheduleRetry(w)
    /\ Release(w)
    /\ UNCHANGED <<enqueue, sending, phase, runs>>

HandlerReturnsError(w) ==
    /\ \/ held[w].attempts + 1 > MaxRetries /\ Finish(w, "failed")
       \/ held[w].attempts + 1 <= MaxRetries /\ ScheduleRetry(w)
    /\ Release(w)
    /\ UNCHANGED <<enqueue, sending, phase, runs>>

HandlerFails(w) == worker[w] = "handling" /\ HandlerReturnsError(w)

\* A command of the handler blocks for good: on a network that says nothing.
HandlerHangs(w) ==
    /\ worker[w] = "handling"
    /\ worker' = [worker EXCEPT ![w] = "hung"]
    /\ UNCHANGED <<enqueue, queue, records, held, waiting, sending, phase, runs, outcome>>

\* The cancelled context kills that command, which releases the handler
\* unless a child of it still holds its output open.
HungIsKilled(w) ==
    /\ worker[w] = "hung" /\ phase = "stopping"
    /\ HandlerReturnsError(w)

(***************************************************************************)
(* The goroutine of scheduleRetry: the timer, then a blocking send, each   *)
(* against the context.                                                    *)
(***************************************************************************)
TimerFires(x) ==
    /\ x \in waiting
    /\ waiting' = waiting \ {x}
    /\ sending' = sending \cup {x}
    /\ UNCHANGED <<enqueue, queue, records, worker, held, phase, runs, outcome>>

\* Mutant of Resend: a non-blocking send, as in Enqueue, that gives up.
ResendOrDrop(x) ==
    /\ x \in sending
    /\ sending' = sending \ {x}
    /\ queue' = IF Len(queue) < Buffer THEN Append(queue, x) ELSE queue
    /\ UNCHANGED <<enqueue, records, worker, held, waiting, phase, runs, outcome>>

Resend(x) ==
    /\ x \in sending /\ Len(queue) < Buffer
    /\ sending' = sending \ {x}
    /\ queue' = Append(queue, x)
    /\ UNCHANGED <<enqueue, records, worker, held, waiting, phase, runs, outcome>>

Abandon(x) ==
    /\ phase = "stopping" /\ x \in waiting \cup sending
    /\ waiting' = waiting \ {x} /\ sending' = sending \ {x}
    /\ outcome' = [outcome EXCEPT ![x.job] = "abandoned"]
    /\ UNCHANGED <<enqueue, queue, records, worker, held, phase, runs>>

(***************************************************************************)
(* The end of main: a signal makes the server refuse new requests and wait *)
(* for those it serves; then the deferred Pool.Stop cancels and waits.  A  *)
(* server that fails, or does not drain in time, ends the process without  *)
(* Stop, as a crash does: everything here is gone, and nothing follows.    *)
(***************************************************************************)
Signal ==
    /\ phase = "serving" /\ phase' = "draining"
    /\ UNCHANGED <<enqueue, queue, records, worker, held, waiting, sending, runs, outcome>>

Stop ==
    /\ phase = "draining" /\ phase' = "stopping"
    /\ \A j \in Jobs : enqueue[j] \notin {"sent", "full"}
    /\ UNCHANGED <<enqueue, queue, records, worker, held, waiting, sending, runs, outcome>>

(***************************************************************************)
(* StartCleanup: maxAge passes; ticks prune (one that is due may still win *)
(* against the cancelled context).                                         *)
(***************************************************************************)
Age(j) ==
    /\ status[j] # "none" /\ ~old[j]
    /\ old' = [old EXCEPT ![j] = TRUE]
    /\ UNCHANGED <<enqueue, queue, status, worker, held, waiting, sending, phase, runs, outcome>>

\* Mutant of Prunable: the age alone decides.
PrunableByAge(j) == old[j]

Prunable(j) == status[j] \in Final /\ old[j]

PruneOlderThan ==
    /\ \E j \in Jobs : Prunable(j)
    /\ status' = [j \in Jobs |-> IF Prunable(j) THEN "none" ELSE status[j]]
    /\ UNCHANGED <<enqueue, queue, old, worker, held, waiting, sending, phase, runs, outcome>>

-----------------------------------------------------------------------------

EnqueueStep(j) == Send(j) \/ SetPending(j) \/ Full(j) \/ SetRefused(j)
WorkerStep(w) ==
    \/ Receive(w) \/ Exit(w) \/ SetRunning(w) \/ HandlerSucceeds(w) \/ HandlerFails(w)
RetryStep(x) == TimerFires(x) \/ Resend(x) \/ Abandon(x)

Next ==
    \/ \E j \in Jobs : EnqueueStep(j) \/ Age(j)
    \/ \E w \in Workers : WorkerStep(w) \/ HandlerHangs(w) \/ HungIsKilled(w)
    \/ \E x \in waiting \cup sending : RetryStep(x)
    \/ Signal \/ Stop
    \/ PruneOlderThan

Spec == Init /\ [][Next]_vars

\* Goroutines are scheduled, handlers that do not hang return, and timers
\* fire.  Nobody has to call Enqueue or to signal.
Fairness ==
    /\ \A w \in Workers : WF_vars(WorkerStep(w))
    /\ \A x \in Items : WF_vars(RetryStep(x))
    /\ \A j \in Jobs : WF_vars(SetPending(j) \/ SetRefused(j))

FairSpec == Spec /\ Fairness

-----------------------------------------------------------------------------
\* Type invariant; no attempt beyond MaxRetries is ever queued or scheduled.
TypeOK ==
    /\ enqueue \in [Jobs -> {"new", "sent", "accepted", "full", "refused"}]
    /\ queue \in Seq(Items) /\ Len(queue) <= Buffer
    /\ status \in [Jobs -> Statuses] /\ old \in [Jobs -> BOOLEAN]
    /\ worker \in [Workers -> {"select", "received", "handling", "hung", "exited"}]
    /\ held \in [Workers -> Items \cup {NoItem}]
    /\ waiting \subseteq Items /\ sending \subseteq Items
    /\ phase \in {"serving", "draining", "stopping"}
    /\ runs \in [Jobs -> Nat]
    /\ outcome \in [Jobs -> {"none", "succeeded", "failed", "abandoned"}]
    /\ \A w \in Workers : worker[w] \in {"received", "handling", "hung"} <=> held[w] # NoItem

\* Where the copies of a job are.
Places(j) ==
    {<<"queue", i>> : i \in {i \in 1 .. Len(queue) : queue[i].job = j}}
      \cup {<<"worker", w>> : w \in {w \in Workers : held[w] # NoItem /\ held[w].job = j}}
      \cup {<<"waiting", x>> : x \in {x \in waiting : x.job = j}}
      \cup {<<"sending", x>> : x \in {x \in sending : x.job = j}}

(***************************************************************************)
(* A job is never in two places at once, so no two workers ever run it     *)
(* together, retries and shutdown included (process, scheduleRetry).       *)
(***************************************************************************)
OnePlace == \A j \in Jobs : \A p, q \in Places(j) : p = q

(***************************************************************************)
(* No accepted job is lost silently: until it has succeeded, failed for    *)
(* good or been abandoned by Stop it is somewhere, and after that nowhere. *)
(***************************************************************************)
NotLost ==
    \A j \in Jobs :
        enqueue[j] \in {"sent", "accepted"} => (outcome[j] = "none" <=> Places(j) # {})

(***************************************************************************)
(* WithMaxRetries: a job's handler is called at most MaxRetries + 1 times. *)
(***************************************************************************)
RunsBounded == \A j \in Jobs : runs[j] <= MaxRetries + 1

(***************************************************************************)
(* A record that says succeeded or failed is about a job that nobody will  *)
(* touch again, so that pruning it loses nothing (PruneOlderThan).         *)
(***************************************************************************)
FinalRecordIsFinal == \A j \in Jobs : status[j] \in Final => Places(j) = {}

(***************************************************************************)
(* "Pending, running, and retrying jobs are never pruned": an accepted job *)
(* that has not ended has a record, however long it takes.                 *)
(***************************************************************************)
LiveJobHasRecord ==
    \A j \in Jobs : enqueue[j] = "accepted" /\ outcome[j] = "none" => status[j] # "none"

(***************************************************************************)
(* A job that has ended shows its outcome until its record is pruned, and  *)
(* so can be pruned at all: "the in-memory status map does not grow        *)
(* without bound" (PruneOlderThan).                                        *)
(***************************************************************************)
RecordShowsOutcome ==
    \A j \in Jobs :
        enqueue[j] = "accepted" /\ outcome[j] \in Final => status[j] \in {outcome[j], "none"}

(***************************************************************************)
(* Every job that was sent ends: it succeeds, fails after its retries, or  *)
(* the pool is stopped.  A handler that hangs keeps its own job and its    *)
(* worker only: the others end as long as one worker is left (process,     *)
(* scheduleRetry, the draining of the server).                             *)
(***************************************************************************)
HungWith(j) == \E w \in Workers : worker[w] = "hung" /\ held[w].job = j
AllHung == \A w \in Workers : worker[w] = "hung"
JobsEnd ==
    \A j \in Jobs :
        enqueue[j] = "sent" ~>
            outcome[j] # "none" \/ HungWith(j) \/ AllHung \/ phase = "stopping"

(***************************************************************************)
(* Stop waits for nothing but hung handlers: after the cancellation every  *)
(* other worker exits, and every pending retry is abandoned or queued      *)
(* (Stop's wg.Wait).                                                       *)
(***************************************************************************)
StopReturns ==
    phase = "stopping" ~>
        (waiting \cup sending = {} /\ \A w \in Workers : worker[w] \in {"exited", "hung"})

(***************************************************************************)
(* The queue implements JobPool, whose jobs MirrorPipeline runs: a job is  *)
(* running from its first record of that kind on, and its failed attempts  *)
(* are the calls of its handler that have returned (worker.go).            *)
(***************************************************************************)
Running(j) ==
    \E w \in Workers : worker[w] \in {"handling", "hung"} /\ held[w].job = j

PoolState(j) ==
    CASE outcome[j] \in Final       -> outcome[j]
      [] outcome[j] = "abandoned"   -> "lost"
      [] OTHER                      -> IF Running(j) THEN "running"
                                       ELSE IF Places(j) # {} THEN "waiting" ELSE "none"

PoolTries(j) ==
    IF outcome[j] # "none" THEN 0 ELSE runs[j] - (IF Running(j) THEN 1 ELSE 0)

Pool == INSTANCE JobPool WITH
    Size <- Cardinality(Workers),
    state <- [j \in Jobs |-> PoolState(j)],
    tries <- [j \in Jobs |-> PoolTries(j)],
    closed <- phase = "stopping"

ImplementsJobPool == Pool!Spec

(***************************************************************************)
(* A job ends once: no late answer of a handler, pending retry, blocked    *)
(* send or stop runs it again or changes how it ended (process,            *)
(* scheduleRetry, Stop).                                                   *)
(***************************************************************************)
JobsEndOnce == Pool!EndedStays
=============================================================================
