---------------------------- MODULE WebhookIntake ----------------------------
(***************************************************************************)
(* POST /webhook (internal/webhook): verify the signature, drop duplicate  *)
(* deliveries, turn a branch push into a job.  Every request is served by  *)
(* a goroutine of its own.  A delivery can arrive more than once with the  *)
(* same delivery ID, whether or not an earlier copy was answered.          *)
(*                                                                         *)
(* An operator rotates the webhook secret by editing the configuration,    *)
(* which takes a restart, and Forgejo's webhook settings.  A restart also  *)
(* empties the replay cache and the job queue, which are memory.           *)
(***************************************************************************)
EXTENDS Naturals, FiniteSets

CONSTANTS
    Deliveries,
    Kind,           \* Kind[d]: a branch push, or anything else
    WithId,         \* the deliveries that carry a delivery ID header
    Requests,       \* goroutines that may serve a request at the same time
    Secrets,
    Buffer,         \* capacity of the job queue; the service's is 100
    MaxCopies,      \* bound: how often a delivery is sent
    MaxRestarts,    \* bound: restarts of the service
    Free            \* a goroutine that serves no request

Stages == {"received", "verified", "remembered"}

ASSUME WebhookAssumption ==
    /\ Kind \in [Deliveries -> {"push", "other"}]
    /\ WithId \subseteq Deliveries
    /\ Free \notin [delivery : Deliveries, secret : Secrets, stage : Stages]
    /\ Buffer \in Nat /\ MaxCopies \in Nat /\ MaxRestarts \in Nat

VARIABLES
    hookSecret,     \* Forgejo: what it signs deliveries with
    secrets,        \* Handler.secrets(); none: signatures are not checked
    request,        \* the request each goroutine serves
    seen,           \* ReplayCache.seen, expired entries left out
    depth,          \* how many jobs the queue holds
    copies,         \* history: how often each delivery was sent
    answers,        \* history: how each delivery was answered
    jobs,           \* history: jobs made of a delivery since it was forgotten
    careless,       \* history: the documented order of rotation was broken
    restarts

vars == <<hookSecret, secrets, request, seen, depth, copies, answers, jobs, careless, restarts>>

Answers == {"unauthorized", "duplicate", "declined", "unavailable", "ok"}

Init ==
    /\ hookSecret \in Secrets
    /\ secrets \in {{}, {hookSecret}}
    /\ request = [r \in Requests |-> Free]
    /\ seen = {} /\ depth = 0
    /\ copies = [d \in Deliveries |-> 0]
    /\ answers = [d \in Deliveries |-> {}]
    /\ jobs = [d \in Deliveries |-> 0]
    /\ careless = FALSE /\ restarts = 0

At(r, stage) == request[r] # Free /\ request[r].stage = stage

Proceed(r, stage) ==
    /\ request' = [request EXCEPT ![r].stage = stage]
    /\ UNCHANGED answers

Answer(r, a) ==
    /\ request' = [request EXCEPT ![r] = Free]
    /\ answers' = [answers EXCEPT ![request[r].delivery] = @ \cup {a}]

Deliver(r, d) ==
    /\ request[r] = Free /\ copies[d] < MaxCopies
    /\ request' = [request EXCEPT ![r] =
                     [delivery |-> d, secret |-> hookSecret, stage |-> "received"]]
    /\ copies' = [copies EXCEPT ![d] = @ + 1]
    /\ UNCHANGED <<hookSecret, secrets, seen, depth, answers, jobs, careless, restarts>>

-----------------------------------------------------------------------------
\* Mutant of Verified: the first secret that does not match decides.
VerifiedByAll(r) == \A s \in secrets : request[r].secret = s

Verified(r) == secrets = {} \/ request[r].secret \in secrets

\* Mutant of Verify: the delivery ID is remembered before the check.
VerifyRemembers(r) ==
    /\ At(r, "received")
    /\ \/ Verified(r) /\ Proceed(r, "verified") /\ UNCHANGED seen
       \/ ~Verified(r) /\ Answer(r, "unauthorized")
          /\ seen' = seen \cup ({request[r].delivery} \cap WithId)
    /\ UNCHANGED <<hookSecret, secrets, depth, copies, jobs, careless, restarts>>

Verify(r) ==
    /\ At(r, "received")
    /\ \/ Verified(r) /\ Proceed(r, "verified")
       \/ ~Verified(r) /\ Answer(r, "unauthorized")
    /\ UNCHANGED <<hookSecret, secrets, seen, depth, copies, jobs, careless, restarts>>

\* Mutant of Remember: the cache keeps one ID only.
RememberOnlyLast(d) == seen' = {d} \cap WithId

Remember(d) == seen' = seen \cup ({d} \cap WithId)

\* One critical section of the cache's mutex.
CheckAndRemember(r) ==
    /\ At(r, "verified")
    /\ LET d == request[r].delivery IN
          \/ d \in seen /\ Answer(r, "duplicate") /\ UNCHANGED seen
          \/ d \notin seen /\ Proceed(r, "remembered") /\ Remember(d)
    /\ UNCHANGED <<hookSecret, secrets, depth, copies, jobs, careless, restarts>>

\* Other events, tag pushes and incomplete payloads are acknowledged (200),
\* payloads that are not JSON are not (400).
Decline(r) ==
    /\ At(r, "remembered") /\ Kind[request[r].delivery] = "other"
    /\ Answer(r, "declined")
    /\ UNCHANGED <<hookSecret, secrets, seen, depth, copies, jobs, careless, restarts>>

\* Mutant of Enqueue: the queue takes a job it has no room for.
EnqueueBlindly(r) ==
    /\ At(r, "remembered") /\ Kind[request[r].delivery] = "push"
    /\ Answer(r, "ok")
    /\ depth' = depth + 1
    /\ jobs' = [jobs EXCEPT ![request[r].delivery] = @ + 1]
    /\ UNCHANGED <<hookSecret, secrets, seen, copies, careless, restarts>>

Enqueue(r) ==
    /\ At(r, "remembered") /\ Kind[request[r].delivery] = "push"
    /\ \/ /\ depth < Buffer /\ Answer(r, "ok")
          /\ depth' = depth + 1
          /\ jobs' = [jobs EXCEPT ![request[r].delivery] = @ + 1]
       \/ /\ depth = Buffer /\ Answer(r, "unavailable")
          /\ UNCHANGED <<depth, jobs>>
    /\ UNCHANGED <<hookSecret, secrets, seen, copies, careless, restarts>>

-----------------------------------------------------------------------------
\* A worker takes a job.
Dequeue ==
    /\ depth > 0 /\ depth' = depth - 1
    /\ UNCHANGED <<hookSecret, secrets, request, seen, copies, answers, jobs, careless, restarts>>

\* The TTL (24 hours) is over; no request lasts that long.
Expire(d) ==
    /\ d \in seen
    /\ \A r \in Requests : request[r] # Free => request[r].delivery # d
    /\ seen' = seen \ {d} /\ jobs' = [jobs EXCEPT ![d] = 0]
    /\ UNCHANGED <<hookSecret, secrets, request, depth, copies, answers, careless, restarts>>

\* Requests that Shutdown does not wait for, or a crash cuts off, are not
\* answered.
Restart(configured) ==
    /\ restarts < MaxRestarts
    /\ restarts' = restarts + 1
    /\ secrets' = configured
    /\ request' = [r \in Requests |-> Free]
    /\ seen' = {} /\ depth' = 0
    /\ jobs' = [d \in Deliveries |-> 0]
    /\ UNCHANGED <<hookSecret, copies, answers>>

RestartUnchanged == Restart(secrets) /\ UNCHANGED careless

\* The three steps of a rotation, and the two ways to get them wrong.
AddSecret(s) == secrets # {} /\ Restart(secrets \cup {s}) /\ UNCHANGED careless

SwitchForgejo(s) ==
    /\ hookSecret' = s
    /\ careless' = (careless \/ (secrets # {} /\ s \notin secrets))
    /\ UNCHANGED <<secrets, request, seen, depth, copies, answers, jobs, restarts>>

RemoveSecret(s) ==
    /\ s \in secrets /\ secrets # {s}
    /\ Restart(secrets \ {s})
    /\ careless' = (careless \/ hookSecret = s)

Serve(r) == Verify(r) \/ CheckAndRemember(r) \/ Decline(r) \/ Enqueue(r)

Next ==
    \/ \E r \in Requests : Serve(r) \/ \E d \in Deliveries : Deliver(r, d)
    \/ \E d \in Deliveries : Expire(d)
    \/ Dequeue
    \/ RestartUnchanged
    \/ \E s \in Secrets : AddSecret(s) \/ SwitchForgejo(s) \/ RemoveSecret(s)

Spec == Init /\ [][Next]_vars

-----------------------------------------------------------------------------
\* Type invariant; the queue never holds more than its buffer.
TypeOK ==
    /\ hookSecret \in Secrets /\ secrets \subseteq Secrets
    /\ request \in [Requests -> {Free} \cup
                       [delivery : Deliveries, secret : Secrets, stage : Stages]]
    /\ seen \subseteq WithId /\ depth \in 0 .. Buffer
    /\ copies \in [Deliveries -> 0 .. MaxCopies]
    /\ answers \in [Deliveries -> SUBSET Answers]
    /\ jobs \in [Deliveries -> Nat]
    /\ careless \in BOOLEAN /\ restarts \in 0 .. MaxRestarts

(***************************************************************************)
(* "Delivery IDs are remembered and duplicates rejected": however the      *)
(* goroutines that serve copies of a delivery interleave, one job at most  *)
(* is made of it while it is remembered (CheckAndRemember, ServeHTTP).     *)
(***************************************************************************)
AtMostOneJob == \A d \in WithId : jobs[d] <= 1

(***************************************************************************)
(* "Zero-downtime rotation": an operator who adds the new secret, then     *)
(* updates Forgejo, then removes the old one never has a delivery refused, *)
(* whatever was in flight at each restart (verify, secrets).               *)
(***************************************************************************)
RotationHasNoDowntime ==
    ~careless => \A d \in Deliveries : "unauthorized" \notin answers[d]

(***************************************************************************)
(* A delivery refused for its signature can be sent again once the secrets *)
(* agree: only one that passed the check is taken for a duplicate later    *)
(* (the order of verify and CheckAndRemember in ServeHTTP).                *)
(***************************************************************************)
RefusedCanBeResent ==
    \A d \in seen :
        \/ answers[d] \cap {"declined", "unavailable", "ok"} # {}
        \/ \E r \in Requests : At(r, "remembered") /\ request[r].delivery = d
=============================================================================
