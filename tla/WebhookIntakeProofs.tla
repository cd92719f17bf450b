------------------------- MODULE WebhookIntakeProofs -------------------------
(***************************************************************************)
(* Proofs about WebhookIntake, for any deliveries, secrets and number of   *)
(* goroutines, copies and restarts.                                        *)
(***************************************************************************)
EXTENDS WebhookIntake, TLAPS

Request == [delivery : Deliveries, secret : Secrets, stage : Stages]

(***************************************************************************)
(* One job at most: while a goroutine has remembered a delivery ID and not *)
(* yet made a job of it, no other has, no job has been made, and the ID is *)
(* in the cache.                                                           *)
(***************************************************************************)
Holds(r, d) == At(r, "remembered") /\ request[r].delivery = d

DedupInv ==
    \A d \in WithId :
        /\ jobs[d] <= 1
        /\ jobs[d] = 1 => d \in seen
        /\ \A r \in Requests : Holds(r, d) => jobs[d] = 0 /\ d \in seen
        /\ \A r, q \in Requests : Holds(r, d) /\ Holds(q, d) => r = q

\* No downtime: what Forgejo signs with, and what is in flight, is accepted.
Accepts(s) == secrets = {} \/ s \in secrets

SecretInv ==
    ~careless =>
        /\ Accepts(hookSecret)
        /\ \A r \in Requests : request[r] # Free => Accepts(request[r].secret)
        /\ \A d \in Deliveries : "unauthorized" \notin answers[d]

IInv == TypeOK /\ DedupInv /\ SecretInv /\ RefusedCanBeResent

LEMMA InitInv == Init => IInv
<1> SUFFICES ASSUME Init PROVE IInv
  OBVIOUS
<1>1. 0 \in 0 .. Buffer /\ 0 \in 0 .. MaxCopies /\ 0 \in 0 .. MaxRestarts
  BY WebhookAssumption
<1>2. TypeOK
  BY <1>1 DEF Init, TypeOK
<1>3. DedupInv
  BY WebhookAssumption DEF Init, DedupInv, Holds, At
<1>4. SecretInv
  BY DEF Init, SecretInv, Accepts
<1>5. RefusedCanBeResent
  BY DEF Init, RefusedCanBeResent
<1> QED
  BY <1>2, <1>3, <1>4, <1>5 DEF IInv

(***************************************************************************)
(* What a goroutine serves, and how serving it changes the requests.       *)
(***************************************************************************)
LEMMA RequestType ==
  ASSUME TypeOK, NEW r \in Requests, request[r] # Free
  PROVE  request[r] \in Request
BY DEF TypeOK, Request

LEMMA ProceedRequest ==
  ASSUME TypeOK, NEW r \in Requests, request[r] # Free, NEW s \in Stages, Proceed(r, s)
  PROVE  /\ request' \in [Requests -> {Free} \cup Request]
         /\ request'[r] # Free /\ request'[r].stage = s
         /\ request'[r].delivery = request[r].delivery /\ request'[r].secret = request[r].secret
         /\ \A q \in Requests : q # r => request'[q] = request[q]
<1> DEFINE e == [request[r] EXCEPT !.stage = s]
<1>1. request[r] \in Request
  BY RequestType
<1>2. /\ e \in Request /\ e.stage = s
      /\ e.delivery = request[r].delivery /\ e.secret = request[r].secret
  BY <1>1 DEF Request
<1>3. request' = [request EXCEPT ![r] = e]
  BY DEF Proceed
<1> HIDE DEF e
<1>4. e # Free
  BY <1>2, WebhookAssumption DEF Request
<1>5. request \in [Requests -> {Free} \cup Request]
  BY DEF TypeOK, Request
<1> QED
  BY <1>2, <1>3, <1>4, <1>5

LEMMA AnswerRequest ==
  ASSUME TypeOK, NEW r \in Requests, request[r] # Free, NEW a \in Answers, Answer(r, a)
  PROVE  /\ request' \in [Requests -> {Free} \cup Request] /\ request'[r] = Free
         /\ \A q \in Requests : q # r => request'[q] = request[q]
         /\ answers' \in [Deliveries -> SUBSET Answers]
         /\ answers'[request[r].delivery] = answers[request[r].delivery] \cup {a}
         /\ \A d \in Deliveries : d # request[r].delivery => answers'[d] = answers[d]
<1>1. request[r].delivery \in Deliveries
  BY RequestType DEF Request
<1>2. request \in [Requests -> {Free} \cup Request] /\ answers \in [Deliveries -> SUBSET Answers]
  BY DEF TypeOK, Request
<1> QED
  BY <1>1, <1>2 DEF Answer

(***************************************************************************)
(* Every action keeps the invariant.                                       *)
(***************************************************************************)
LEMMA DeliverKeeps ==
  ASSUME IInv, NEW r \in Requests, NEW d \in Deliveries, Deliver(r, d)
  PROVE  IInv'
<1> DEFINE e == [delivery |-> d, secret |-> hookSecret, stage |-> "received"]
<1>1. /\ request[r] = Free /\ copies[d] < MaxCopies
      /\ request' = [request EXCEPT ![r] = e] /\ copies' = [copies EXCEPT ![d] = @ + 1]
      /\ UNCHANGED <<hookSecret, secrets, seen, depth, answers, jobs, careless, restarts>>
  BY DEF Deliver
<1>2. e \in Request /\ e.stage = "received" /\ e.secret = hookSecret
  BY DEF Request, Stages, IInv, TypeOK
<1> HIDE DEF e
<1>3. request \in [Requests -> {Free} \cup Request]
  BY DEF IInv, TypeOK, Request
<1>4. /\ request' \in [Requests -> {Free} \cup Request] /\ request'[r] = e
      /\ \A q \in Requests : q # r => request'[q] = request[q]
  BY <1>1, <1>2, <1>3
<1>5. copies' \in [Deliveries -> 0 .. MaxCopies]
  BY <1>1, WebhookAssumption DEF IInv, TypeOK
<1>6. TypeOK'
  BY <1>1, <1>4, <1>5 DEF IInv, TypeOK, Request
<1>7. \A q \in Requests : At(q, "remembered")' <=> At(q, "remembered")
  BY <1>1, <1>2, <1>4 DEF At
<1>8. \A q \in Requests : At(q, "remembered") => request'[q] = request[q]
  BY <1>1, <1>4 DEF At
<1>9. DedupInv'
  BY <1>1, <1>7, <1>8 DEF IInv, DedupInv, Holds
<1>10. SecretInv'
  BY <1>1, <1>2, <1>4 DEF IInv, SecretInv, Accepts
<1>11. RefusedCanBeResent'
  BY <1>1, <1>7, <1>8 DEF IInv, RefusedCanBeResent
<1> QED
  BY <1>6, <1>9, <1>10, <1>11 DEF IInv

LEMMA VerifyKeeps ==
  ASSUME IInv, NEW r \in Requests, Verify(r)
  PROVE  IInv'
<1>1. /\ request[r] # Free /\ request[r].stage = "received"
      /\ UNCHANGED <<hookSecret, secrets, seen, depth, copies, jobs, careless, restarts>>
  BY DEF Verify, At
<1>2. CASE Verified(r) /\ Proceed(r, "verified")
  <2>1. /\ request' \in [Requests -> {Free} \cup Request]
        /\ request'[r] # Free /\ request'[r].stage = "verified"
        /\ request'[r].secret = request[r].secret
        /\ \A q \in Requests : q # r => request'[q] = request[q]
    BY <1>1, <1>2, ProceedRequest DEF IInv, Stages
  <2>2. UNCHANGED answers
    BY <1>2 DEF Proceed
  <2>3. TypeOK'
    BY <1>1, <2>1, <2>2 DEF IInv, TypeOK, Request
  <2>4. \A q \in Requests : /\ At(q, "remembered")' <=> At(q, "remembered")
                            /\ At(q, "remembered") => request'[q] = request[q]
    BY <1>1, <2>1 DEF At
  <2>5. DedupInv'
    BY <1>1, <2>4 DEF IInv, DedupInv, Holds
  <2>6. SecretInv'
    BY <1>1, <2>1, <2>2 DEF IInv, SecretInv, Accepts
  <2>7. RefusedCanBeResent'
    BY <1>1, <2>2, <2>4 DEF IInv, RefusedCanBeResent
  <2> QED
    BY <2>3, <2>5, <2>6, <2>7 DEF IInv
<1>3. CASE ~Verified(r) /\ Answer(r, "unauthorized")
  <2> DEFINE d == request[r].delivery
  <2>1. /\ request' \in [Requests -> {Free} \cup Request] /\ request'[r] = Free
        /\ \A q \in Requests : q # r => request'[q] = request[q]
        /\ answers' \in [Deliveries -> SUBSET Answers]
        /\ \A x \in Deliveries : answers[x] \subseteq answers'[x]
    BY <1>1, <1>3, AnswerRequest DEF IInv, Answers
  <2>2. TypeOK'
    BY <1>1, <2>1 DEF IInv, TypeOK, Request
  <2>3. \A q \in Requests : /\ At(q, "remembered")' <=> At(q, "remembered")
                            /\ At(q, "remembered") => request'[q] = request[q]
    BY <1>1, <2>1 DEF At
  <2>4. DedupInv'
    BY <1>1, <2>3 DEF IInv, DedupInv, Holds
  <2>5. SecretInv'
    BY <1>1, <1>3 DEF IInv, SecretInv, Accepts, Verified
  <2>6. RefusedCanBeResent'
    BY <1>1, <2>1, <2>3, WebhookAssumption DEF IInv, RefusedCanBeResent, TypeOK
  <2> QED
    BY <2>2, <2>4, <2>5, <2>6 DEF IInv
<1> QED
  BY <1>2, <1>3 DEF Verify

LEMMA CheckAndRememberKeeps ==
  ASSUME IInv, NEW r \in Requests, CheckAndRemember(r)
  PROVE  IInv'
<1> DEFINE d == request[r].delivery
<1>1. /\ request[r] # Free /\ request[r].stage = "verified"
      /\ UNCHANGED <<hookSecret, secrets, depth, copies, jobs, careless, restarts>>
  BY DEF CheckAndRemember, At
<1>2. d \in Deliveries
  BY <1>1, RequestType DEF IInv, Request
<1>3. CASE d \in seen /\ Answer(r, "duplicate") /\ UNCHANGED seen
  <2>1. /\ request' \in [Requests -> {Free} \cup Request] /\ request'[r] = Free
        /\ \A q \in Requests : q # r => request'[q] = request[q]
        /\ answers' \in [Deliveries -> SUBSET Answers]
        /\ answers'[d] = answers[d] \cup {"duplicate"}
        /\ \A x \in Deliveries : x # d => answers'[x] = answers[x]
    BY <1>1, <1>3, AnswerRequest DEF IInv, Answers
  <2>2. \A x \in Deliveries : answers'[x] = answers[x] \/ answers'[x] = answers[x] \cup {"duplicate"}
    BY <2>1
  <2> HIDE DEF d
  <2>3. TypeOK'
    BY <1>1, <1>3, <2>1 DEF IInv, TypeOK, Request
  <2>4. \A q \in Requests : /\ At(q, "remembered")' <=> At(q, "remembered")
                            /\ At(q, "remembered") => request'[q] = request[q]
    BY <1>1, <2>1 DEF At
  <2>5. DedupInv'
    BY <1>1, <1>3, <2>4 DEF IInv, DedupInv, Holds
  <2>6. SecretInv'
    BY <1>1, <2>1, <2>2 DEF IInv, SecretInv, Accepts
  <2>7. RefusedCanBeResent'
    BY <1>1, <1>3, <2>2, <2>4, WebhookAssumption DEF IInv, RefusedCanBeResent, TypeOK
  <2> QED
    BY <2>3, <2>5, <2>6, <2>7 DEF IInv
<1>4. CASE d \notin seen /\ Proceed(r, "remembered") /\ Remember(d)
  <2>1. /\ request' \in [Requests -> {Free} \cup Request]
        /\ request'[r] # Free /\ request'[r].stage = "remembered"
        /\ request'[r].delivery = d /\ request'[r].secret = request[r].secret
        /\ \A q \in Requests : q # r => request'[q] = request[q]
    BY <1>1, <1>4, ProceedRequest DEF IInv, Stages
  <2>2. seen' = seen \cup ({d} \cap WithId) /\ UNCHANGED answers
    BY <1>4 DEF Remember, Proceed
  <2> HIDE DEF d
  <2>3. TypeOK'
    BY <1>1, <2>1, <2>2 DEF IInv, TypeOK, Request
  <2>4. \A q \in Requests : q # r => /\ At(q, "remembered")' <=> At(q, "remembered")
                                    /\ request'[q] = request[q]
    BY <2>1 DEF At
  <2>5. At(r, "remembered")' /\ request'[r].delivery = d /\ ~At(r, "remembered")
    BY <1>1, <2>1 DEF At
  <2>6. DedupInv'
    <3> SUFFICES ASSUME NEW x \in WithId
                 PROVE  /\ jobs[x] <= 1 /\ (jobs[x] = 1 => x \in seen')
                        /\ \A q \in Requests : Holds(q, x)' => jobs[x] = 0 /\ x \in seen'
                        /\ \A p, q \in Requests : Holds(p, x)' /\ Holds(q, x)' => p = q
      BY <1>1 DEF DedupInv
    <3>1. \A q \in Requests : q # r => (Holds(q, x)' <=> Holds(q, x))
      BY <2>4 DEF Holds
    <3>2. CASE x = d
      <4>1. jobs[x] \in Nat /\ jobs[x] = 0
        BY <1>2, <1>4, <3>2, WebhookAssumption DEF IInv, DedupInv, TypeOK, d
      <4>2. \A q \in Requests : ~Holds(q, x)
        BY <1>4, <3>2 DEF IInv, DedupInv, d
      <4> QED
        BY <2>2, <3>1, <3>2, <4>1, <4>2
    <3>3. CASE x # d
      <4>1. ~Holds(r, x)'
        BY <2>5, <3>3 DEF Holds
      <4> QED
        BY <2>2, <3>1, <4>1 DEF IInv, DedupInv
    <3> QED
      BY <3>2, <3>3
  <2>7. SecretInv'
    BY <1>1, <2>1, <2>2 DEF IInv, SecretInv, Accepts
  <2>8. RefusedCanBeResent'
    BY <2>2, <2>4, <2>5 DEF IInv, RefusedCanBeResent
  <2> QED
    BY <2>3, <2>6, <2>7, <2>8 DEF IInv
<1> QED
  BY <1>3, <1>4 DEF CheckAndRemember

\* The last step of a request, with or without a job.
LEMMA LastStepKeeps ==
  ASSUME IInv, NEW r \in Requests, At(r, "remembered"),
         NEW a \in {"declined", "unavailable", "ok"}, Answer(r, a),
         NEW d, d = request[r].delivery,
         UNCHANGED <<hookSecret, secrets, seen, copies, careless, restarts>>,
         depth' \in 0 .. Buffer,
         UNCHANGED jobs \/ jobs' = [jobs EXCEPT ![d] = @ + 1]
  PROVE  IInv'
<1>1. request[r] # Free /\ d \in Deliveries
  BY RequestType DEF IInv, At, Request
<1>2. /\ request' \in [Requests -> {Free} \cup Request] /\ request'[r] = Free
      /\ \A q \in Requests : q # r => request'[q] = request[q]
      /\ answers' \in [Deliveries -> SUBSET Answers]
      /\ answers'[d] = answers[d] \cup {a}
      /\ \A x \in Deliveries : x # d => answers'[x] = answers[x]
  BY <1>1, AnswerRequest DEF IInv, Answers
<1>3. jobs' \in [Deliveries -> Nat] /\ (jobs'[d] = jobs[d] \/ jobs'[d] = jobs[d] + 1)
      /\ \A x \in Deliveries : x # d => jobs'[x] = jobs[x]
  BY <1>1 DEF IInv, TypeOK
<1>4. TypeOK'
  BY <1>2, <1>3 DEF IInv, TypeOK, Request
<1>5. ~At(r, "remembered")' /\ \A q \in Requests : q # r => /\ At(q, "remembered")' <=> At(q, "remembered")
                                                           /\ request'[q] = request[q]
  BY <1>2 DEF At
<1>6. DedupInv'
  <2> SUFFICES ASSUME NEW x \in WithId
               PROVE  /\ jobs'[x] <= 1 /\ (jobs'[x] = 1 => x \in seen)
                      /\ \A q \in Requests : Holds(q, x)' => jobs'[x] = 0 /\ x \in seen
                      /\ \A p, q \in Requests : Holds(p, x)' /\ Holds(q, x)' => p = q
    BY DEF DedupInv
  <2>1. ~Holds(r, x)' /\ \A q \in Requests : q # r => (Holds(q, x)' <=> Holds(q, x))
    BY <1>5 DEF Holds
  <2>2. CASE x = d
    <3>1. Holds(r, x)
      BY <2>2 DEF Holds
    <3>2. jobs[x] = 0 /\ x \in seen /\ \A q \in Requests : Holds(q, x) => q = r
      BY <3>1 DEF IInv, DedupInv
    <3> QED
      BY <1>3, <2>1, <2>2, <3>2
  <2>3. CASE x # d
    BY <1>3, <2>1, <2>3, WebhookAssumption DEF IInv, DedupInv
  <2> QED
    BY <2>2, <2>3
<1>7. SecretInv'
  <2>1. \A x \in Deliveries : "unauthorized" \notin answers[x] => "unauthorized" \notin answers'[x]
    BY <1>2
  <2> QED
    BY <1>2, <2>1 DEF IInv, SecretInv, Accepts
<1>8. RefusedCanBeResent'
  <2> SUFFICES ASSUME NEW x \in seen
               PROVE  \/ answers'[x] \cap {"declined", "unavailable", "ok"} # {}
                      \/ \E q \in Requests : At(q, "remembered")' /\ request'[q].delivery = x
    BY DEF RefusedCanBeResent
  <2>1. x \in Deliveries
    BY WebhookAssumption DEF IInv, TypeOK
  <2>2. CASE x = d
    BY <1>2, <2>2
  <2>3. CASE x # d
    BY <1>2, <1>5, <2>1, <2>3 DEF IInv, RefusedCanBeResent
  <2> QED
    BY <2>2, <2>3
<1> QED
  BY <1>4, <1>6, <1>7, <1>8 DEF IInv

LEMMA ExpireKeeps ==
  ASSUME IInv, NEW d \in Deliveries, Expire(d)
  PROVE  IInv'
<1>1. /\ \A r \in Requests : request[r] # Free => request[r].delivery # d
      /\ seen' = seen \ {d} /\ jobs' = [jobs EXCEPT ![d] = 0]
      /\ UNCHANGED <<hookSecret, secrets, request, depth, copies, answers, careless, restarts>>
  BY DEF Expire
<1>2. /\ jobs' \in [Deliveries -> Nat] /\ jobs'[d] = 0
      /\ \A x \in Deliveries : x # d => jobs'[x] = jobs[x]
  BY <1>1 DEF IInv, TypeOK
<1>3. TypeOK'
  BY <1>1, <1>2 DEF IInv, TypeOK
<1>4. \A r \in Requests, x \in WithId : (Holds(r, x)' <=> Holds(r, x)) /\ (Holds(r, x) => x # d)
  BY <1>1 DEF Holds, At
<1>5. DedupInv'
  BY <1>1, <1>2, <1>4, WebhookAssumption DEF IInv, DedupInv
<1>6. SecretInv'
  BY <1>1 DEF IInv, SecretInv, Accepts
<1>7. RefusedCanBeResent'
  BY <1>1 DEF IInv, RefusedCanBeResent, At
<1> QED
  BY <1>3, <1>5, <1>6, <1>7 DEF IInv

\* Requests, cache and queue are gone, so only the secrets matter.
LEMMA RestartKeeps ==
  ASSUME IInv, NEW s, s \subseteq Secrets, Restart(s), careless' \in BOOLEAN,
         ~careless' => ~careless /\ (s = {} \/ hookSecret \in s)
  PROVE  IInv'
<1>1. /\ restarts < MaxRestarts /\ restarts' = restarts + 1 /\ secrets' = s
      /\ request' = [r \in Requests |-> Free] /\ seen' = {} /\ depth' = 0
      /\ jobs' = [d \in Deliveries |-> 0]
      /\ UNCHANGED <<hookSecret, copies, answers>>
  BY DEF Restart
<1>2. TypeOK'
  BY <1>1, WebhookAssumption DEF IInv, TypeOK
<1>3. DedupInv'
  BY <1>1, WebhookAssumption DEF DedupInv, Holds, At
<1>4. SecretInv'
  BY <1>1 DEF IInv, SecretInv, Accepts
<1>5. RefusedCanBeResent'
  BY <1>1 DEF RefusedCanBeResent
<1> QED
  BY <1>2, <1>3, <1>4, <1>5 DEF IInv

LEMMA StepInv == IInv /\ [Next]_vars => IInv'
<1> SUFFICES ASSUME IInv, [Next]_vars PROVE IInv'
  OBVIOUS
<1>1. ASSUME NEW r \in Requests, Decline(r) \/ Enqueue(r) PROVE IInv'
  <2>1. CASE Decline(r)
    <3>1. depth' \in 0 .. Buffer
      BY <2>1 DEF Decline, IInv, TypeOK
    <3> QED
      BY <2>1, <3>1, LastStepKeeps DEF Decline
  <2>2. CASE Enqueue(r)
    <3>1. depth' \in 0 .. Buffer
      BY <2>2, WebhookAssumption DEF Enqueue, IInv, TypeOK
    <3> QED
      BY <2>2, <3>1, LastStepKeeps DEF Enqueue
  <2> QED
    BY <1>1, <2>1, <2>2
<1>2. ASSUME NEW r \in Requests, Serve(r) PROVE IInv'
  BY <1>1, <1>2, VerifyKeeps, CheckAndRememberKeeps DEF Serve
<1>3. ASSUME NEW r \in Requests, NEW d \in Deliveries, Deliver(r, d) PROVE IInv'
  BY <1>3, DeliverKeeps
<1>4. ASSUME NEW d \in Deliveries, Expire(d) PROVE IInv'
  BY <1>4, ExpireKeeps
<1>5. ASSUME Dequeue PROVE IInv'
  BY <1>5, WebhookAssumption
  DEF Dequeue, IInv, TypeOK, DedupInv, Holds, At, SecretInv, Accepts, RefusedCanBeResent
<1>6. ASSUME RestartUnchanged PROVE IInv'
  BY <1>6, RestartKeeps DEF RestartUnchanged, IInv, TypeOK, SecretInv, Accepts
<1>7. ASSUME NEW s \in Secrets, AddSecret(s) PROVE IInv'
  <2>1. secrets \cup {s} \subseteq Secrets /\ careless' = careless /\ Restart(secrets \cup {s})
        /\ secrets # {}
    BY <1>7 DEF AddSecret, IInv, TypeOK
  <2> QED
    BY <2>1, RestartKeeps DEF IInv, TypeOK, SecretInv, Accepts
<1>8. ASSUME NEW s \in Secrets, SwitchForgejo(s) PROVE IInv'
  <2>1. /\ hookSecret' = s /\ careless' = (careless \/ (secrets # {} /\ s \notin secrets))
        /\ UNCHANGED <<secrets, request, seen, depth, copies, answers, jobs, restarts>>
    BY <1>8 DEF SwitchForgejo
  <2>2. TypeOK'
    BY <2>1 DEF IInv, TypeOK
  <2>3. DedupInv' /\ RefusedCanBeResent'
    BY <2>1 DEF IInv, DedupInv, Holds, At, RefusedCanBeResent
  <2>4. SecretInv'
    BY <2>1 DEF IInv, SecretInv, Accepts
  <2> QED
    BY <2>2, <2>3, <2>4 DEF IInv
<1>9. ASSUME NEW s \in Secrets, RemoveSecret(s) PROVE IInv'
  <2>1. /\ s \in secrets /\ Restart(secrets \ {s}) /\ careless' = (careless \/ hookSecret = s)
        /\ secrets \ {s} \subseteq Secrets
    BY <1>9 DEF RemoveSecret, IInv, TypeOK
  <2> QED
    BY <2>1, RestartKeeps DEF IInv, TypeOK, SecretInv, Accepts
<1>10. ASSUME UNCHANGED vars PROVE IInv'
  BY <1>10 DEF vars, IInv, TypeOK, DedupInv, Holds, At, SecretInv, Accepts, RefusedCanBeResent
<1> QED
  BY <1>2, <1>3, <1>4, <1>5, <1>6, <1>7, <1>8, <1>9, <1>10 DEF Next

LEMMA Invariance == Spec => []IInv
  BY InitInv, StepInv, PTL DEF Spec

(***************************************************************************)
(* The types, and that the queue is never overfilled (TypeOK).             *)
(***************************************************************************)
THEOREM TypeCorrect == Spec => []TypeOK
  BY Invariance, PTL DEF IInv

(***************************************************************************)
(* However many goroutines serve copies of a delivery, one job at most is  *)
(* made of it while its ID is remembered (CheckAndRemember).               *)
(***************************************************************************)
THEOREM Deduplicates == Spec => []AtMostOneJob
<1>1. IInv => AtMostOneJob
  BY DEF IInv, DedupInv, AtMostOneJob
<1> QED
  BY <1>1, Invariance, PTL

(***************************************************************************)
(* A rotation in the documented order refuses no delivery, with any number *)
(* of secrets and rotations (verify).                                      *)
(***************************************************************************)
THEOREM NoDowntime == Spec => []RotationHasNoDowntime
<1>1. IInv => RotationHasNoDowntime
  BY DEF IInv, SecretInv, RotationHasNoDowntime
<1> QED
  BY <1>1, Invariance, PTL

(***************************************************************************)
(* What is refused for its signature is not remembered (ServeHTTP).        *)
(***************************************************************************)
THEOREM Resendable == Spec => []RefusedCanBeResent
  BY Invariance, PTL DEF IInv
=============================================================================
