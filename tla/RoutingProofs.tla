---------------------------- MODULE RoutingProofs ----------------------------
(***************************************************************************)
(* Proofs about Routing, for any repositories, configurations, accounts,   *)
(* bounds and number of workers.                                           *)
(***************************************************************************)
EXTENDS Routing, SequenceTheorems, TLAPS

(***************************************************************************)
(* Where the names of two repositories can be told apart.                  *)
(***************************************************************************)
Dashless(o) == \A i \in 1 .. Len(o) : o[i] # "-"

LEMMA DashIsFirst ==
    ASSUME NEW A, NEW o1 \in Seq(A), NEW n1 \in Seq(A), NEW o2 \in Seq(A), NEW n2 \in Seq(A),
           "-" \in A, Dashless(o2),
           o1 \o <<"-">> \o n1 = o2 \o <<"-">> \o n2
    PROVE  Len(o2) <= Len(o1)
<1> DEFINE name1 == o1 \o <<"-">> \o n1
           name2 == o2 \o <<"-">> \o n2
<1> SUFFICES ASSUME Len(o1) < Len(o2) PROVE FALSE
  OBVIOUS
<1>1. name1[Len(o1) + 1] = "-"
  OBVIOUS
<1>2. name2[Len(o1) + 1] = o2[Len(o1) + 1]
  OBVIOUS
<1>3. Len(o1) + 1 \in 1 .. Len(o2)
  OBVIOUS
<1> QED
  BY <1>1, <1>2, <1>3 DEF Dashless

LEMMA DashSplits ==
    ASSUME NEW A, NEW o1 \in Seq(A), NEW n1 \in Seq(A), NEW o2 \in Seq(A), NEW n2 \in Seq(A),
           "-" \in A, Dashless(o1), Dashless(o2),
           o1 \o <<"-">> \o n1 = o2 \o <<"-">> \o n2
    PROVE  o1 = o2 /\ n1 = n2
<1>1. Len(o1) = Len(o2)
  <2>1. Len(o2) <= Len(o1)
    BY DashIsFirst
  <2>2. Len(o1) <= Len(o2)
    BY DashIsFirst
  <2> QED
    BY <2>1, <2>2
<1>2. o1 = o2
  <2>1. \A i \in 1 .. Len(o1) :
           /\ (o1 \o <<"-">> \o n1)[i] = o1[i]
           /\ (o2 \o <<"-">> \o n2)[i] = o2[i]
    BY <1>1
  <2>2. \A i \in 1 .. Len(o1) : o1[i] = o2[i]
    BY <2>1
  <2> QED
    BY <1>1, <2>2, SeqEqual
<1>3. (o1 \o <<"-">>) \o n1 = (o1 \o <<"-">>) \o n2 /\ o1 \o <<"-">> \in Seq(A)
  BY <1>2
<1>4. n1 = n2
  BY <1>3, ConcatSimplifications, Zenon
<1> QED
  BY <1>2, <1>4

(***************************************************************************)
(* With the format "{owner}-{repo}", two different repositories get        *)
(* different names on GitHub, wherever ownerMap sends their owners,        *)
(* provided that no source owner has a "-" in its name (GitHubDestination; *)
(* the documentation leaves this condition out).                           *)
(***************************************************************************)
THEOREM PrefixedNamesDiffer ==
    ASSUME NEW A, "-" \in A,
           NEW r \in [owner : Seq(A), name : Seq(A)], Dashless(r.owner),
           NEW q \in [owner : Seq(A), name : Seq(A)], Dashless(q.owner),
           NEW c, NEW d, c.format = "{owner}-{repo}", d.format = "{owner}-{repo}",
           Destination(c, r)[2] = Destination(d, q)[2]
    PROVE  r = q
<1>1. r.owner \o <<"-">> \o r.name = q.owner \o <<"-">> \o q.name
  <2>1. Destination(c, r)[2] = Expand(c.format, r.owner, r.name)
    BY DEF Destination
  <2>2. Destination(d, q)[2] = Expand(d.format, q.owner, q.name)
    BY DEF Destination
  <2>3. Expand(c.format, r.owner, r.name) = r.owner \o <<"-">> \o r.name
    BY DEF Expand
  <2>4. Expand(d.format, q.owner, q.name) = q.owner \o <<"-">> \o q.name
    BY DEF Expand
  <2> QED
    BY <2>1, <2>2, <2>3, <2>4
<1>2. r.owner \in Seq(A) /\ r.name \in Seq(A) /\ q.owner \in Seq(A) /\ q.name \in Seq(A)
  OBVIOUS
<1>3. r.owner = q.owner /\ r.name = q.name
  BY <1>1, <1>2, DashSplits
<1>4. r = [owner |-> r.owner, name |-> r.name] /\ q = [owner |-> q.owner, name |-> q.name]
  OBVIOUS
<1> QED
  BY <1>3, <1>4

(***************************************************************************)
(* The inductive invariant: the queue and its workers (a busy worker holds *)
(* a running job, its own); what is pushed, encrypted and on GitHub; and   *)
(* what a worker that got past a step of the handler may count on.         *)
(***************************************************************************)
HeldJobs ==
    /\ \A j \in 1 .. Len(jobs) :
          jobs[j].state \in {"queued", "running"} => jobs[j].attempts <= MaxRetries
    /\ \A w \in Workers : stage[w] # "idle" => jobs[current[w]].state = "running"
    /\ \A v, w \in Workers :
          stage[v] # "idle" /\ stage[w] # "idle" /\ current[v] = current[w] => v = w

QueueInv ==
    /\ jobs \in Seq(Jobs) /\ Len(jobs) <= MaxPushes
    /\ stage \in [Workers -> Stages] /\ current \in [Workers -> Nat] /\ DOMAIN dest = Workers
    /\ \A w \in Workers : stage[w] # "idle" => current[w] \in 1 .. Len(jobs)
    /\ HeldJobs

SourceInv ==
    /\ config \in Usable
    /\ source \in [Repos -> Nat] /\ \A r \in Repos : source[r] <= Len(jobs)
    /\ enc \in [Repos -> Nat] /\ \A r \in Repos : enc[r] <= source[r]
    /\ \A j \in 1 .. Len(jobs) : jobs[j].commit <= source[jobs[j].repo]
    /\ faults \in 0 .. MaxFaults /\ restarts \in 0 .. MaxRestarts

GitHubInv ==
    \A d \in DOMAIN github :
        /\ github[d] \in [Branches -> [by : Writers, upTo : Nat]]
        /\ \A b \in Branches : github[d][b].by \in Repos => github[d][b].upTo <= enc[github[d][b].by]

HandlerInv ==
    \A w \in Workers :
        /\ stage[w] \in {"route", "check", "create", "push"} => Job(w).commit <= enc[Job(w).repo]
        /\ stage[w] \in {"check", "create", "push"} => dest[w] = Destination(config, Job(w).repo)

IInv == QueueInv /\ SourceInv /\ GitHubInv /\ HandlerInv

StuckInv == stuck \subseteq Repos

LEMMA IInvImpliesTypeOK == IInv /\ StuckInv => TypeOK
<1> SUFFICES ASSUME IInv, StuckInv PROVE TypeOK
  OBVIOUS
<1>1. source \in [Repos -> 0 .. MaxPushes]
  <2>1. Len(jobs) \in Nat /\ MaxPushes \in Nat
    BY LenProperties, RoutingAssumption DEF IInv, QueueInv
  <2> QED
    BY <2>1 DEF IInv, QueueInv, SourceInv
<1>2. \A r \in Repos : enc[r] \in 0 .. source[r]
  <2>1. /\ source \in [Repos -> Nat] /\ enc \in [Repos -> Nat]
        /\ \A r \in Repos : enc[r] <= source[r]
    BY DEF IInv, SourceInv
  <2>2. ASSUME NEW r \in Repos PROVE enc[r] \in 0 .. source[r]
    <3>1. enc[r] \in Nat /\ source[r] \in Nat /\ enc[r] <= source[r]
      BY <2>1
    <3> QED
      BY <3>1
  <2> QED
    BY <2>2
<1> QED
  BY <1>1, <1>2 DEF IInv, StuckInv, QueueInv, SourceInv, GitHubInv, TypeOK

(***************************************************************************)
(* How the queue changes: one job is replaced by one for the same commit,  *)
(* and the worker that holds it moves on or leaves.                        *)
(***************************************************************************)
SameWork == \A i \in 1 .. Len(jobs) : jobs'[i].repo = jobs[i].repo /\ jobs'[i].branch = jobs[i].branch
                                     /\ jobs'[i].commit = jobs[i].commit

LEMMA JobUpdate ==
  ASSUME NEW s \in Seq(Jobs), NEW j \in 1 .. Len(s), NEW e \in Jobs
  PROVE  /\ [s EXCEPT ![j] = e] \in Seq(Jobs)
         /\ Len([s EXCEPT ![j] = e]) = Len(s)
         /\ \A i \in 1 .. Len(s) : [s EXCEPT ![j] = e][i] = IF i = j THEN e ELSE s[i]
  BY ExceptSeq

LEMMA AfterErrorType ==
  ASSUME NEW job \in Jobs, job.attempts <= MaxRetries
  PROVE  /\ AfterError(job) \in Jobs
         /\ AfterError(job).state \in {"queued", "failed"}
         /\ AfterError(job).state = "queued" => AfterError(job).attempts <= MaxRetries
         /\ AfterError(job).repo = job.repo /\ AfterError(job).branch = job.branch
         /\ AfterError(job).commit = job.commit
<1>1. MaxRetries \in Nat /\ job.attempts \in Nat /\ job.attempts + 1 \in 0 .. MaxRetries + 1
  BY RoutingAssumption DEF Jobs
<1>2. CASE job.attempts + 1 > MaxRetries
  <2> DEFINE n == job.attempts + 1
             e == AfterError(job)
  <2>1. e = [job EXCEPT !.attempts = n, !.state = "failed"]
    BY <1>2 DEF AfterError
  <2>2. n \in 0 .. MaxRetries + 1
    BY <1>1
  <2> HIDE DEF n, e
  <2>3. /\ e \in Jobs /\ e.state = "failed" /\ e.attempts = n
        /\ e.repo = job.repo /\ e.branch = job.branch /\ e.commit = job.commit
    BY <2>1, <2>2 DEF Jobs
  <2> QED
    BY <2>3 DEF e
<1>3. CASE ~(job.attempts + 1 > MaxRetries)
  <2> DEFINE n == job.attempts + 1
             e == AfterError(job)
  <2>1. e = [job EXCEPT !.attempts = n, !.state = "queued"]
    BY <1>3 DEF AfterError
  <2>2. n \in 0 .. MaxRetries + 1
    BY <1>1
  <2> HIDE DEF n, e
  <2>3. /\ e \in Jobs /\ e.state = "queued" /\ e.attempts = n
        /\ e.repo = job.repo /\ e.branch = job.branch /\ e.commit = job.commit
    BY <2>1, <2>2 DEF Jobs
  <2> QED
    BY <1>1, <1>3, <2>3 DEF e, n
<1> QED
  BY <1>2, <1>3

LEMMA JobErrorKeeps ==
  ASSUME QueueInv, NEW w \in Workers, stage[w] # "idle", JobError(w)
  PROVE  /\ QueueInv' /\ Len(jobs') = Len(jobs) /\ SameWork
         /\ \A i \in 1 .. Len(jobs) : jobs'[i].state = "succeeded" => jobs[i].state = "succeeded"
<1> DEFINE j == current[w]
           e == AfterError(jobs[j])
<1>1. j \in 1 .. Len(jobs) /\ jobs[j].state = "running" /\ jobs[j].attempts <= MaxRetries
  BY DEF QueueInv, HeldJobs
<1>2. jobs[j] \in Jobs /\ jobs \in Seq(Jobs)
  BY <1>1, ElementOfSeq DEF QueueInv
<1>3. /\ e \in Jobs /\ e.state \in {"queued", "failed"}
      /\ e.state = "queued" => e.attempts <= MaxRetries
      /\ e.repo = jobs[j].repo /\ e.branch = jobs[j].branch /\ e.commit = jobs[j].commit
  BY <1>1, <1>2, AfterErrorType
<1>4. jobs' = [jobs EXCEPT ![j] = e]
  BY DEF JobError, Job
<1> HIDE DEF e
<1>5. /\ jobs' \in Seq(Jobs) /\ Len(jobs') = Len(jobs)
      /\ \A i \in 1 .. Len(jobs) : jobs'[i] = IF i = j THEN e ELSE jobs[i]
  BY <1>1, <1>2, <1>3, <1>4, JobUpdate
<1>6. /\ stage' = [stage EXCEPT ![w] = "idle"] /\ current' = [current EXCEPT ![w] = 0]
      /\ DOMAIN dest' = DOMAIN dest
  BY DEF JobError, Leave
<1>7. HeldJobs'
  BY <1>3, <1>5, <1>6 DEF QueueInv, HeldJobs
<1>8. SameWork
  BY <1>3, <1>5 DEF SameWork
<1>9. \A i \in 1 .. Len(jobs) : jobs'[i].state = "succeeded" => jobs[i].state = "succeeded"
  BY <1>3, <1>5
<1> QED
  BY <1>5, <1>6, <1>7, <1>8, <1>9 DEF QueueInv, Stages

LEMMA SucceedKeeps ==
  ASSUME QueueInv, NEW w \in Workers, stage[w] # "idle", Succeed(w)
  PROVE  /\ QueueInv' /\ Len(jobs') = Len(jobs) /\ SameWork
         /\ \A i \in 1 .. Len(jobs) :
               i # current[w] /\ jobs'[i].state = "succeeded" => jobs[i].state = "succeeded"
<1> DEFINE j == current[w]
           e == [jobs[j] EXCEPT !.state = "succeeded"]
<1>1. j \in 1 .. Len(jobs) /\ jobs \in Seq(Jobs) /\ jobs[j] \in Jobs
  BY ElementOfSeq DEF QueueInv
<1>2. /\ e \in Jobs /\ e.state = "succeeded"
      /\ e.repo = jobs[j].repo /\ e.branch = jobs[j].branch /\ e.commit = jobs[j].commit
  BY <1>1 DEF Jobs
<1>3. jobs' = [jobs EXCEPT ![j] = e]
  BY DEF Succeed
<1> HIDE DEF e
<1>4. /\ jobs' \in Seq(Jobs) /\ Len(jobs') = Len(jobs)
      /\ \A i \in 1 .. Len(jobs) : jobs'[i] = IF i = j THEN e ELSE jobs[i]
  BY <1>1, <1>2, <1>3, JobUpdate
<1>5. /\ stage' = [stage EXCEPT ![w] = "idle"] /\ current' = [current EXCEPT ![w] = 0]
      /\ DOMAIN dest' = DOMAIN dest
  BY DEF Succeed, Leave
<1>6. HeldJobs'
  BY <1>2, <1>4, <1>5 DEF QueueInv, HeldJobs
<1>7. SameWork
  BY <1>2, <1>4 DEF SameWork
<1> QED
  BY <1>4, <1>5, <1>6, <1>7 DEF QueueInv, Stages

LEMMA GotoKeeps ==
  ASSUME QueueInv, NEW w \in Workers, stage[w] # "idle", NEW s \in Stages \ {"idle"},
         stage' = [stage EXCEPT ![w] = s], UNCHANGED <<current, jobs>>, DOMAIN dest' = DOMAIN dest
  PROVE  QueueInv' /\ SameWork
  BY DEF QueueInv, HeldJobs, SameWork

LEMMA TakeJobKeeps ==
  ASSUME QueueInv, NEW w \in Workers, TakeJob(w)
  PROVE  /\ QueueInv' /\ Len(jobs') = Len(jobs) /\ SameWork
         /\ \A i \in 1 .. Len(jobs) : jobs'[i].state = "succeeded" => jobs[i].state = "succeeded"
         /\ stage' = [stage EXCEPT ![w] = "mirror"]
<1>1. PICK j \in 1 .. Len(jobs) :
         /\ jobs[j].state = "queued"
         /\ jobs' = [jobs EXCEPT ![j].state = "running"]
         /\ current' = [current EXCEPT ![w] = j]
  BY DEF TakeJob
<1> DEFINE e == [jobs[j] EXCEPT !.state = "running"]
<1>2. jobs \in Seq(Jobs) /\ jobs[j] \in Jobs /\ jobs[j].attempts <= MaxRetries
  BY ElementOfSeq, <1>1 DEF QueueInv, HeldJobs
<1>3. /\ e \in Jobs /\ e.state = "running" /\ e.attempts = jobs[j].attempts
      /\ e.repo = jobs[j].repo /\ e.branch = jobs[j].branch /\ e.commit = jobs[j].commit
  BY <1>2 DEF Jobs
<1>4. jobs' = [jobs EXCEPT ![j] = e]
  BY <1>1
<1> HIDE DEF e
<1>5. /\ jobs' \in Seq(Jobs) /\ Len(jobs') = Len(jobs)
      /\ \A i \in 1 .. Len(jobs) : jobs'[i] = IF i = j THEN e ELSE jobs[i]
  BY <1>2, <1>3, <1>4, JobUpdate
<1>6. stage[w] = "idle" /\ stage' = [stage EXCEPT ![w] = "mirror"] /\ UNCHANGED dest
  BY DEF TakeJob
<1>7. HeldJobs'
  BY <1>1, <1>2, <1>3, <1>5, <1>6 DEF QueueInv, HeldJobs
<1>8. Len(jobs) \in Nat
  BY <1>2, LenProperties
<1>9. SameWork
  BY <1>3, <1>5 DEF SameWork
<1>10. \A i \in 1 .. Len(jobs) : jobs'[i].state = "succeeded" => jobs[i].state = "succeeded"
  BY <1>3, <1>5
<1> QED
  BY <1>1, <1>5, <1>6, <1>7, <1>8, <1>9, <1>10 DEF QueueInv, Stages

LEMMA RestartKeeps ==
  ASSUME QueueInv, Restart
  PROVE  /\ QueueInv' /\ Len(jobs') = Len(jobs) /\ SameWork
         /\ \A i \in 1 .. Len(jobs) : jobs'[i].state = "succeeded" => jobs[i].state = "succeeded"
<1> DEFINE n == Len(jobs)
<1>1. n \in Nat /\ jobs \in Seq(Jobs) /\ \A i \in 1 .. n : jobs[i] \in Jobs
  BY ElementOfSeq, LenProperties DEF QueueInv
<1>2. jobs' = [i \in 1 .. n |-> IF jobs[i].state \in {"queued", "running"}
                               THEN [jobs[i] EXCEPT !.state = "lost"] ELSE jobs[i]]
  BY DEF Restart
<1>3. \A i \in 1 .. n : /\ jobs'[i] \in Jobs /\ jobs'[i].state \notin {"queued", "running"}
                        /\ jobs'[i].state = "succeeded" => jobs[i].state = "succeeded"
                        /\ jobs'[i].repo = jobs[i].repo /\ jobs'[i].branch = jobs[i].branch
                        /\ jobs'[i].commit = jobs[i].commit
  BY <1>1, <1>2 DEF Jobs
<1>4. jobs' \in [1 .. n -> Jobs]
  BY <1>2, <1>3
<1>5. jobs' \in Seq(Jobs) /\ Len(jobs') = n
  BY <1>1, <1>4
<1>6. /\ stage' = [w \in Workers |-> "idle"] /\ current' = [w \in Workers |-> 0]
      /\ dest' = [w \in Workers |-> <<>>]
  BY DEF Restart
<1> QED
  BY <1>3, <1>5, <1>6 DEF QueueInv, HeldJobs, Stages, SameWork

(***************************************************************************)
(* The invariant is inductive.                                             *)
(***************************************************************************)
LEMMA InitInv == Init => IInv
<1> SUFFICES ASSUME Init PROVE IInv
  OBVIOUS
<1>1. 0 \in 0 .. MaxFaults /\ 0 \in 0 .. MaxRestarts /\ 0 <= MaxPushes
  BY RoutingAssumption
<1>2. jobs \in Seq(Jobs) /\ Len(jobs) = 0
  BY EmptySeq DEF Init
<1>3. QueueInv
  BY <1>1, <1>2 DEF Init, QueueInv, HeldJobs, Stages
<1>4. SourceInv
  BY <1>1, <1>2 DEF Init, SourceInv
<1>5. GitHubInv
  <2> SUFFICES ASSUME NEW d \in DOMAIN github
               PROVE  /\ github[d] \in [Branches -> [by : Writers, upTo : Nat]]
                      /\ \A b \in Branches : github[d][b].by \notin Repos
    BY DEF GitHubInv
  <2>1. github[d] \in [Branches -> [by : {Nobody, Stranger}, upTo : Nat]]
    BY RoutingAssumption DEF Init
  <2>2. \A b \in Branches : github[d][b] \in [by : {Nobody, Stranger}, upTo : Nat]
    BY <2>1
  <2>3. \A b \in Branches : github[d][b].by \notin Repos
    BY <2>2, RoutingAssumption
  <2>4. [by : {Nobody, Stranger}, upTo : Nat] \subseteq [by : Writers, upTo : Nat]
    BY DEF Writers
  <2> QED
    BY <2>1, <2>3, <2>4
<1>6. HandlerInv
  BY DEF Init, HandlerInv
<1> QED
  BY <1>3, <1>4, <1>5, <1>6 DEF IInv

\* A new, empty repository.
LEMMA CreateKeeps ==
  ASSUME GitHubInv, NEW o, CanCreate(o), github' = WithCreated(o), UNCHANGED enc
  PROVE  /\ GitHubInv'
         /\ \A x \in DOMAIN github : x \in DOMAIN github' /\ github'[x] = github[x]
<1> DEFINE d == Created(o)
<1>1. /\ DOMAIN github' = DOMAIN github \cup {d}
      /\ github'[d] = Empty
      /\ \A x \in DOMAIN github : github'[x] = github[x]
  BY DEF WithCreated, CanCreate
<1>2. Empty \in [Branches -> [by : Writers, upTo : Nat]] /\ \A b \in Branches : Empty[b].by \notin Repos
  BY RoutingAssumption DEF Empty, Writers
<1> QED
  BY <1>1, <1>2 DEF GitHubInv

\* A push that GitHub accepts.
LEMMA PushedKeeps ==
  ASSUME QueueInv, SourceInv, GitHubInv, NEW w \in Workers, stage[w] # "idle",
         FastForwards(w), github' = Pushed(w), UNCHANGED enc
  PROVE  /\ GitHubInv' /\ DOMAIN github' = DOMAIN github
         /\ github'[dest[w]][Job(w).branch] = [by |-> Job(w).repo, upTo |-> enc[Job(w).repo]]
         /\ \A d \in DOMAIN github, b \in Branches : github[d][b].by # Nobody =>
               github'[d][b].by = github[d][b].by /\ github'[d][b].upTo >= github[d][b].upTo
<1> DEFINE d == dest[w]
           b == Job(w).branch
           r == Job(w).repo
           new == [by |-> r, upTo |-> enc[r]]
<1>1. r \in Repos /\ b \in Branches /\ d \in DOMAIN github
  <2>1. Job(w) \in Jobs
    BY ElementOfSeq DEF QueueInv, Job
  <2> QED
    BY <2>1 DEF Jobs, FastForwards
<1>2. new \in [by : Writers, upTo : Nat] /\ new.by = r /\ new.upTo = enc[r]
  BY <1>1 DEF Writers, SourceInv
<1>3. github[d] \in [Branches -> [by : Writers, upTo : Nat]]
  BY <1>1 DEF GitHubInv
<1>4. /\ DOMAIN github' = DOMAIN github
      /\ \A x \in DOMAIN github : x # d => github'[x] = github[x]
      /\ github'[d] = [github[d] EXCEPT ![b] = new]
  BY <1>1 DEF Pushed
<1>5. github[d][b].by = Nobody \/ (github[d][b].by = r /\ github[d][b].upTo <= enc[r])
  BY DEF FastForwards
<1> HIDE DEF new, d, b, r
<1>6. /\ github'[d] \in [Branches -> [by : Writers, upTo : Nat]]
      /\ github'[d][b] = new
      /\ \A c \in Branches : c # b => github'[d][c] = github[d][c]
  BY <1>1, <1>2, <1>3, <1>4
<1>7. enc[r] \in Nat
  BY <1>1 DEF SourceInv
<1>8. GitHubInv'
  <2> SUFFICES ASSUME NEW x \in DOMAIN github
               PROVE  /\ github'[x] \in [Branches -> [by : Writers, upTo : Nat]]
                      /\ \A c \in Branches :
                            github'[x][c].by \in Repos => github'[x][c].upTo <= enc[github'[x][c].by]
    BY <1>4 DEF GitHubInv
  <2>1. CASE x # d
    BY <1>4, <2>1 DEF GitHubInv
  <2>2. CASE x = d
    <3>1. \A c \in Branches : c # b =>
             (github'[d][c].by \in Repos => github'[d][c].upTo <= enc[github'[d][c].by])
      BY <1>1, <1>6 DEF GitHubInv
    <3>2. github'[d][b].by \in Repos => github'[d][b].upTo <= enc[github'[d][b].by]
      BY <1>2, <1>6, <1>7
    <3> QED
      BY <1>6, <2>2, <3>1, <3>2
  <2> QED
    BY <2>1, <2>2
<1>9. ASSUME NEW x \in DOMAIN github, NEW c \in Branches, github[x][c].by # Nobody
      PROVE  github'[x][c].by = github[x][c].by /\ github'[x][c].upTo >= github[x][c].upTo
  <2>1. github[x][c].upTo \in Nat
    <3>1. github[x] \in [Branches -> [by : Writers, upTo : Nat]]
      BY DEF GitHubInv
    <3>2. github[x][c] \in [by : Writers, upTo : Nat]
      BY <3>1
    <3> QED
      BY <3>2
  <2>2. CASE x = d /\ c = b
    BY <1>2, <1>5, <1>6, <1>7, <1>9, <2>1, <2>2
  <2>3. CASE ~(x = d /\ c = b)
    <3>1. github'[x][c] = github[x][c]
      BY <1>4, <1>6, <2>3
    <3> QED
      BY <2>1, <3>1
  <2> QED
    BY <2>2, <2>3
<1>10. github'[d][b] = [by |-> r, upTo |-> enc[r]]
  BY <1>6 DEF new
<1> QED
  BY <1>4, <1>8, <1>9, <1>10 DEF d, b, r

\* A worker moves on, or leaves: what it may count on, and the others.
LEMMA HandlerKeeps ==
  ASSUME QueueInv, HandlerInv, NEW w \in Workers, SameWork, QueueInv',
         UNCHANGED config,
         \A r \in Repos : enc'[r] \in Nat /\ enc[r] \in Nat /\ enc'[r] >= enc[r],
         \A v \in Workers \ {w} : stage'[v] = stage[v] /\ current'[v] = current[v]
                                  /\ dest'[v] = dest[v],
         /\ stage'[w] \in {"route", "check", "create", "push"} =>
               Job(w)'.commit <= enc'[Job(w)'.repo]
         /\ stage'[w] \in {"check", "create", "push"} =>
               dest'[w] = Destination(config', Job(w)'.repo)
  PROVE  HandlerInv'
<1> SUFFICES ASSUME NEW v \in Workers
             PROVE  /\ stage'[v] \in {"route", "check", "create", "push"} =>
                          Job(v)'.commit <= enc'[Job(v)'.repo]
                    /\ stage'[v] \in {"check", "create", "push"} =>
                          dest'[v] = Destination(config', Job(v)'.repo)
  BY DEF HandlerInv
<1>1. CASE v = w
  BY <1>1
<1>2. CASE v # w /\ stage[v] \in {"route", "check", "create", "push"}
  <2>1. current[v] \in 1 .. Len(jobs)
    BY <1>2 DEF QueueInv
  <2>2. Job(v) \in Jobs
    BY <2>1, ElementOfSeq DEF QueueInv, Job
  <2>3. Job(v)'.repo = Job(v).repo /\ Job(v)'.commit = Job(v).commit
    BY <1>2, <2>1 DEF SameWork, Job
  <2>4. Job(v).commit <= enc[Job(v).repo]
    BY <1>2 DEF HandlerInv
  <2>5. Job(v).repo \in Repos /\ Job(v).commit \in Nat
    <3>1. MaxPushes \in Nat
      BY RoutingAssumption
    <3> QED
      BY <2>2, <3>1 DEF Jobs
  <2>6. Job(v).commit <= enc'[Job(v).repo]
    BY <2>4, <2>5
  <2> QED
    BY <1>2, <2>3, <2>6 DEF HandlerInv
<1>3. CASE v # w /\ stage[v] \notin {"route", "check", "create", "push"}
  BY <1>3
<1> QED
  BY <1>1, <1>2, <1>3

\* More is pushed or encrypted: what GitHub holds is still encrypted.
LEMMA GitHubKeeps ==
  ASSUME GitHubInv, UNCHANGED github,
         \A r \in Repos : enc'[r] \in Nat /\ enc[r] \in Nat /\ enc'[r] >= enc[r]
  PROVE  GitHubInv'
<1> SUFFICES ASSUME NEW d \in DOMAIN github, NEW b \in Branches, github[d][b].by \in Repos
             PROVE  github[d][b].upTo <= enc'[github[d][b].by]
  BY DEF GitHubInv
<1>1. github[d][b].upTo \in Nat /\ github[d][b].upTo <= enc[github[d][b].by]
  <2>1. github[d][b] \in [by : Writers, upTo : Nat]
    BY DEF GitHubInv
  <2> QED
    BY <2>1 DEF GitHubInv
<1> QED
  BY <1>1

LEMMA SourceKeeps ==
  ASSUME QueueInv, SourceInv, SameWork, Len(jobs') = Len(jobs), UNCHANGED source,
         config' \in Usable, enc' \in [Repos -> Nat], \A r \in Repos : enc'[r] <= source[r],
         faults' \in 0 .. MaxFaults, restarts' \in 0 .. MaxRestarts
  PROVE  SourceInv'
BY DEF SourceInv, SameWork

LEMMA PushKeeps ==
  ASSUME IInv, NEW r \in Repos, NEW b \in Branches, Push(r, b)
  PROVE  IInv' /\ \A i \in 1 .. Len(jobs) : jobs'[i] = jobs[i]
<1> DEFINE e == [repo |-> r, branch |-> b, commit |-> source[r] + 1, attempts |-> 0, state |-> "queued"]
           n == Len(jobs)
<1>1. /\ jobs \in Seq(Jobs) /\ n \in Nat /\ n + 1 <= MaxPushes /\ MaxPushes \in Nat /\ MaxRetries \in Nat
      /\ source \in [Repos -> Nat] /\ source[r] <= n
      /\ jobs' = Append(jobs, e) /\ source' = [source EXCEPT ![r] = source[r] + 1]
      /\ UNCHANGED <<config, enc, github, stage, current, dest, faults, restarts>>
  BY LenProperties, RoutingAssumption DEF Push, IInv, QueueInv, SourceInv, workerVars
<1>2. e \in Jobs /\ e.attempts = 0 /\ e.commit = source[r] + 1 /\ e.repo = r
  BY <1>1 DEF Jobs
<1> HIDE DEF e
<1>3. /\ jobs' \in Seq(Jobs) /\ Len(jobs') = n + 1 /\ jobs'[n + 1] = e
      /\ \A i \in 1 .. n : jobs'[i] = jobs[i]
  BY <1>1, <1>2, AppendProperties
<1>4. QueueInv'
  <2>1. HeldJobs'
    BY <1>1, <1>2, <1>3 DEF IInv, QueueInv, HeldJobs
  <2> QED
    BY <1>1, <1>3, <2>1 DEF IInv, QueueInv
<1>5. SourceInv'
  <2>1. \A q \in Repos : source'[q] \in Nat /\ source[q] <= source'[q] /\ source'[q] <= n + 1
    BY <1>1 DEF IInv, SourceInv
  <2>2. \A j \in 1 .. n : jobs'[j].commit <= source'[jobs'[j].repo]
    <3> SUFFICES ASSUME NEW j \in 1 .. n PROVE jobs[j].commit <= source'[jobs[j].repo]
      BY <1>3
    <3>1. jobs[j] \in Jobs
      BY <1>1, ElementOfSeq
    <3>2. jobs[j].repo \in Repos /\ jobs[j].commit \in Nat
      BY <1>1, <3>1 DEF Jobs
    <3> QED
      BY <1>1, <2>1, <3>2 DEF IInv, SourceInv
  <2>3. jobs'[n + 1].commit <= source'[jobs'[n + 1].repo]
    BY <1>1, <1>2, <1>3
  <2>4. \A j \in 1 .. Len(jobs') : jobs'[j].commit <= source'[jobs'[j].repo]
    BY <1>1, <1>3, <2>2, <2>3
  <2>5. \A q \in Repos : enc'[q] <= source'[q]
    BY <1>1, <2>1 DEF IInv, SourceInv
  <2> QED
    BY <1>1, <1>3, <2>1, <2>4, <2>5 DEF IInv, SourceInv
<1>6. GitHubInv'
  BY <1>1 DEF IInv, GitHubInv
<1>7. HandlerInv'
  BY <1>1, <1>3 DEF IInv, QueueInv, HandlerInv, Job
<1> QED
  BY <1>3, <1>4, <1>5, <1>6, <1>7 DEF IInv

\* Nothing but the queue and this worker changes.
LEMMA QuietKeeps ==
  ASSUME IInv, NEW w \in Workers, SameWork, QueueInv', Len(jobs') = Len(jobs),
         UNCHANGED <<config, source, enc>>,
         faults' \in 0 .. MaxFaults, restarts' \in 0 .. MaxRestarts, GitHubInv',
         \A v \in Workers \ {w} : stage'[v] = stage[v] /\ current'[v] = current[v]
                                  /\ dest'[v] = dest[v],
         /\ stage'[w] \in {"route", "check", "create", "push"} =>
               Job(w)'.commit <= enc'[Job(w)'.repo]
         /\ stage'[w] \in {"check", "create", "push"} =>
               dest'[w] = Destination(config', Job(w)'.repo)
  PROVE  IInv'
<1>1. \A r \in Repos : enc'[r] \in Nat /\ enc[r] \in Nat /\ enc'[r] >= enc[r]
  BY DEF IInv, SourceInv
<1>2. SourceInv'
  BY SourceKeeps DEF IInv, SourceInv
<1>3. HandlerInv'
  BY <1>1, HandlerKeeps DEF IInv
<1> QED
  BY <1>2, <1>3 DEF IInv

LEMMA LeaveKeeps ==
  ASSUME IInv, NEW w \in Workers, stage[w] # "idle", JobError(w) \/ Succeed(w),
         UNCHANGED <<config, source, enc, restarts>>, faults' \in 0 .. MaxFaults, GitHubInv'
  PROVE  IInv'
<1>1. QueueInv' /\ SameWork /\ Len(jobs') = Len(jobs)
  BY JobErrorKeeps, SucceedKeeps DEF IInv
<1>2. /\ stage' = [stage EXCEPT ![w] = "idle"] /\ current' = [current EXCEPT ![w] = 0]
      /\ dest' = [dest EXCEPT ![w] = <<>>]
  BY DEF JobError, Succeed, Leave
<1>3. \A v \in Workers \ {w} : stage'[v] = stage[v] /\ current'[v] = current[v]
                                /\ dest'[v] = dest[v]
  BY <1>2
<1>4. stage'[w] = "idle"
  BY <1>2 DEF IInv, QueueInv
<1>5. restarts' \in 0 .. MaxRestarts
  BY DEF IInv, SourceInv
<1> QED
  BY <1>1, <1>3, <1>4, <1>5, QuietKeeps

LEMMA MoveKeeps ==
  ASSUME IInv, NEW w \in Workers, stage[w] # "idle", NEW s \in Stages \ {"idle"},
         stage' = [stage EXCEPT ![w] = s],
         UNCHANGED <<current, jobs, config, source, enc, faults, restarts>>,
         DOMAIN dest' = DOMAIN dest, \A v \in Workers \ {w} : dest'[v] = dest[v],
         s # "mirror" => Job(w).commit <= enc[Job(w).repo],
         s \in {"check", "create", "push"} => dest'[w] = Destination(config, Job(w).repo),
         GitHubInv'
  PROVE  IInv'
<1>1. QueueInv' /\ SameWork /\ Len(jobs') = Len(jobs)
  BY GotoKeeps DEF IInv
<1>2. \A v \in Workers \ {w} : stage'[v] = stage[v] /\ current'[v] = current[v]
                                /\ dest'[v] = dest[v]
  OBVIOUS
<1>3. stage'[w] = s
  BY DEF IInv, QueueInv
<1>4. Job(w)' = Job(w)
  BY DEF Job
<1>5. faults' \in 0 .. MaxFaults /\ restarts' \in 0 .. MaxRestarts
  BY DEF IInv, SourceInv
<1> QED
  BY <1>1, <1>2, <1>3, <1>4, <1>5, QuietKeeps

\* One commit more is encrypted, or the job's own is and its worker goes on.
LEMMA MirrorKeeps ==
  ASSUME IInv, NEW w \in Workers, Mirror(w)
  PROVE  IInv'
<1> DEFINE r == Job(w).repo
           c == Job(w).commit
<1>1. /\ stage[w] = "mirror"
      /\ UNCHANGED <<config, source, github, jobs, current, dest, faults, restarts>>
  BY DEF Mirror, Goto, workerVars
<1>2. r \in Repos /\ c \in Nat /\ c <= source[r]
  <2>1. current[w] \in 1 .. Len(jobs)
    BY <1>1 DEF IInv, QueueInv
  <2>2. Job(w) \in Jobs
    BY <2>1, ElementOfSeq DEF IInv, QueueInv, Job
  <2>3. MaxPushes \in Nat
    BY RoutingAssumption
  <2> QED
    BY <2>1, <2>2, <2>3 DEF IInv, SourceInv, Job, Jobs
<1>3. CASE enc[r] < c /\ enc' = [enc EXCEPT ![r] = @ + 1] /\ UNCHANGED workerVars
  <2> HIDE DEF r, c
  <2>1. stage' = stage
    BY <1>3 DEF workerVars
  <2>2. enc \in [Repos -> Nat] /\ source \in [Repos -> Nat] /\ \A q \in Repos : enc[q] <= source[q]
    BY DEF IInv, SourceInv
  <2>3. /\ enc' \in [Repos -> Nat]
        /\ \A q \in Repos : enc'[q] \in Nat /\ enc[q] \in Nat /\ enc'[q] >= enc[q] /\ enc'[q] <= source[q]
    BY <1>2, <1>3, <2>2
  <2>4. QueueInv' /\ SameWork
    BY <1>1, <2>1 DEF IInv, QueueInv, HeldJobs, SameWork
  <2>5. SourceInv'
    BY <1>1, <2>3, <2>4, SourceKeeps DEF IInv, SourceInv
  <2>6. GitHubInv'
    BY <1>1, <2>3, GitHubKeeps DEF IInv
  <2>7. stage'[w] = "mirror"
    BY <1>1, <2>1
  <2>8. HandlerInv'
    BY <1>1, <2>1, <2>3, <2>4, <2>7, HandlerKeeps DEF IInv
  <2> QED
    BY <2>4, <2>5, <2>6, <2>8 DEF IInv
<1>4. CASE enc[r] >= c /\ Goto(w, "route") /\ UNCHANGED enc
  <2>1. stage' = [stage EXCEPT ![w] = "route"]
    BY <1>4 DEF Goto
  <2>2. GitHubInv'
    BY <1>1, <1>4 DEF IInv, GitHubInv
  <2>3. c <= enc[r]
    BY <1>2, <1>4 DEF IInv, SourceInv
  <2> QED
    BY <1>1, <1>4, <2>1, <2>2, <2>3, MoveKeeps DEF Stages
<1> QED
  BY <1>3, <1>4 DEF Mirror

LEMMA StepInv == IInv /\ [Next]_vars => IInv'
<1> SUFFICES ASSUME IInv, [Next]_vars PROVE IInv'
  OBVIOUS
<1>1. ASSUME NEW r \in Repos, NEW b \in Branches, Push(r, b) PROVE IInv'
  BY <1>1, PushKeeps
<1>2. ASSUME NEW w \in Workers, TakeJob(w) PROVE IInv'
  <2>1. /\ QueueInv' /\ Len(jobs') = Len(jobs) /\ SameWork
        /\ stage' = [stage EXCEPT ![w] = "mirror"]
    BY <1>2, TakeJobKeeps DEF IInv
  <2>2. UNCHANGED <<config, source, enc, github, dest, faults, restarts>>
    BY <1>2 DEF TakeJob
  <2>3. \A v \in Workers \ {w} : stage'[v] = stage[v] /\ current'[v] = current[v]
    BY <1>2, <2>1 DEF TakeJob
  <2>4. stage'[w] = "mirror"
    BY <2>1 DEF IInv, QueueInv
  <2>5. GitHubInv'
    BY <2>2 DEF IInv, GitHubInv
  <2>6. faults' \in 0 .. MaxFaults /\ restarts' \in 0 .. MaxRestarts
    BY <2>2 DEF IInv, SourceInv
  <2> QED
    BY <2>1, <2>2, <2>3, <2>4, <2>5, <2>6, QuietKeeps
<1>3. ASSUME NEW w \in Workers, Mirror(w) PROVE IInv'
  BY <1>3, MirrorKeeps
<1>4. ASSUME NEW w \in Workers, Route(w) PROVE IInv'
  <2>1. stage[w] = "route" /\ UNCHANGED <<config, source, enc, github, faults, restarts>>
    BY <1>4 DEF Route
  <2>2. GitHubInv' /\ faults' \in 0 .. MaxFaults
    BY <2>1 DEF IInv, GitHubInv, SourceInv
  <2>3. CASE config.token /\ Routable(config, Job(w).repo)
    <3> DEFINE s == IF config.autoCreate THEN "check" ELSE "push"
               d == Destination(config, Job(w).repo)
    <3>1. CASE Succeed(w)
      BY <2>1, <2>2, <3>1, LeaveKeeps
    <3>2. CASE /\ stage' = [stage EXCEPT ![w] = s] /\ dest' = [dest EXCEPT ![w] = d]
               /\ UNCHANGED <<jobs, current>>
      <4>1. s \in Stages \ {"idle"}
        BY DEF Stages
      <4>2. Job(w).commit <= enc[Job(w).repo]
        BY <2>1 DEF IInv, HandlerInv
      <4>3. w \in DOMAIN dest => dest'[w] = d
        BY <3>2
      <4>4. DOMAIN dest = Workers
        BY DEF IInv, QueueInv
      <4> QED
        BY <2>1, <2>2, <3>2, <4>1, <4>2, <4>3, <4>4, MoveKeeps
    <3> QED
      BY <1>4, <2>3, <3>1, <3>2 DEF Route
  <2>4. CASE ~(config.token /\ Routable(config, Job(w).repo))
    <3>1. Succeed(w) \/ JobError(w)
      BY <1>4, <2>4 DEF Route
    <3> QED
      BY <2>1, <2>2, <3>1, LeaveKeeps
  <2> QED
    BY <2>3, <2>4
<1>5. ASSUME NEW w \in Workers, RepositoryExists(w) PROVE IInv'
  <2> DEFINE s == IF dest[w] \in DOMAIN github THEN "push" ELSE "create"
  <2>1. /\ stage[w] = "check" /\ stage' = [stage EXCEPT ![w] = s]
        /\ UNCHANGED <<config, source, enc, github, jobs, current, dest, faults, restarts>>
    BY <1>5 DEF RepositoryExists, Goto
  <2>2. s \in Stages \ {"idle"}
    BY DEF Stages
  <2>3. GitHubInv'
    BY <2>1 DEF IInv, GitHubInv
  <2>4. Job(w).commit <= enc[Job(w).repo] /\ dest[w] = Destination(config, Job(w).repo)
    BY <2>1 DEF IInv, HandlerInv
  <2> HIDE DEF s
  <2> QED
    BY <2>1, <2>2, <2>3, <2>4, MoveKeeps
<1>6. ASSUME NEW w \in Workers, CreateRepository(w) PROVE IInv'
  <2>1. stage[w] = "create" /\ UNCHANGED <<config, source, enc, faults, restarts>>
    BY <1>6 DEF CreateRepository
  <2>2. Job(w).commit <= enc[Job(w).repo] /\ dest[w] = Destination(config, Job(w).repo)
    BY <2>1 DEF IInv, HandlerInv
  <2>3. CASE CanCreate(dest[w]) /\ github' = WithCreated(dest[w]) /\ Goto(w, "push") /\ UNCHANGED jobs
    <3>1. GitHubInv'
      BY <2>1, <2>3, CreateKeeps DEF IInv
    <3>2. stage' = [stage EXCEPT ![w] = "push"] /\ UNCHANGED <<current, dest, jobs>>
      BY <2>3 DEF Goto
    <3> QED
      BY <2>1, <2>2, <3>1, <3>2, MoveKeeps DEF Stages
  <2>4. CASE JobError(w) /\ UNCHANGED github
    <3>1. GitHubInv' /\ faults' \in 0 .. MaxFaults
      BY <2>1, <2>4 DEF IInv, GitHubInv, SourceInv
    <3> QED
      BY <2>1, <2>4, <3>1, LeaveKeeps
  <2> QED
    BY <1>6, <2>3, <2>4 DEF CreateRepository
<1>7. ASSUME NEW w \in Workers, PushWorkingRepo(w) PROVE IInv'
  <2>1. stage[w] = "push" /\ UNCHANGED <<config, source, enc, faults, restarts>>
    BY <1>7 DEF PushWorkingRepo
  <2>2. faults' \in 0 .. MaxFaults
    BY <2>1 DEF IInv, SourceInv
  <2>3. (JobError(w) /\ UNCHANGED github) \/ (FastForwards(w) /\ Succeed(w) /\ github' = Pushed(w))
    BY <1>7 DEF PushWorkingRepo
  <2>4. GitHubInv'
    BY <2>1, <2>3, PushedKeeps DEF IInv, GitHubInv
  <2> QED
    BY <2>1, <2>2, <2>3, <2>4, LeaveKeeps
<1>8. ASSUME NEW w \in Workers, Fault(w) PROVE IInv'
  <2>1. /\ stage[w] # "idle" /\ JobError(w) /\ UNCHANGED <<config, source, enc, restarts>>
        /\ faults < MaxFaults /\ faults' = faults + 1
    BY <1>8 DEF Fault
  <2>2. faults' \in 0 .. MaxFaults
    BY <2>1, RoutingAssumption DEF IInv, SourceInv
  <2>3. GitHubInv'
    BY <1>8, <2>1, CreateKeeps, PushedKeeps DEF Fault, IInv, GitHubInv
  <2> QED
    BY <2>1, <2>2, <2>3, LeaveKeeps
<1>9. ASSUME Restart PROVE IInv'
  <2>1. QueueInv' /\ Len(jobs') = Len(jobs) /\ SameWork
    BY <1>9, RestartKeeps DEF IInv
  <2>2. config' \in Usable /\ UNCHANGED <<source, enc, github, faults>>
        /\ restarts' \in 0 .. MaxRestarts
    BY <1>9, RoutingAssumption DEF Restart, IInv, SourceInv
  <2>3. SourceInv'
    BY <2>1, <2>2, SourceKeeps DEF IInv, SourceInv
  <2>4. GitHubInv'
    BY <2>2 DEF IInv, GitHubInv
  <2>5. HandlerInv'
    BY <1>9 DEF Restart, HandlerInv
  <2> QED
    BY <2>1, <2>3, <2>4, <2>5 DEF IInv
<1>11. ASSUME NEW w \in Workers, GitRefuses(w) PROVE IInv'
  <2>1. /\ stage[w] # "idle" /\ JobError(w)
        /\ UNCHANGED <<config, source, enc, github, faults, restarts>>
    BY <1>11 DEF GitRefuses
  <2>2. GitHubInv' /\ faults' \in 0 .. MaxFaults
    BY <2>1 DEF IInv, GitHubInv, SourceInv
  <2> QED
    BY <2>1, <2>2, LeaveKeeps
<1>10. ASSUME UNCHANGED vars PROVE IInv'

  BY <1>10 DEF vars, workerVars, IInv, QueueInv, HeldJobs, SourceInv, GitHubInv, HandlerInv, Job
<1> QED
  BY <1>1, <1>2, <1>3, <1>4, <1>5, <1>6, <1>7, <1>8, <1>9, <1>10, <1>11 DEF Next

LEMMA Invariance == Spec => []IInv
  BY InitInv, StepInv, PTL DEF Spec

LEMMA BusyJob ==
  ASSUME IInv, NEW w \in Workers, stage[w] # "idle"
  PROVE  /\ current[w] \in 1 .. Len(jobs)
         /\ Job(w) \in Jobs /\ Job(w).repo \in Repos
         /\ Job(w).state = "running" /\ Job(w).attempts \in Nat /\ Job(w).attempts <= MaxRetries
<1>1. current[w] \in 1 .. Len(jobs)
  BY DEF IInv, QueueInv
<1>2. Job(w) \in Jobs
  BY <1>1, ElementOfSeq DEF IInv, QueueInv, Job
<1>3. Job(w).repo \in Repos /\ Job(w).attempts \in Nat
  BY <1>2, RoutingAssumption DEF Jobs
<1> QED
  BY <1>1, <1>2, <1>3 DEF IInv, QueueInv, HeldJobs, Job

LEMMA StuckInvariant == Spec => []StuckInv
<1>1. Init => StuckInv
  BY RoutingAssumption DEF Init, StuckInv
<1>2. IInv /\ StuckInv /\ [Next]_vars => StuckInv'
  <2> SUFFICES ASSUME IInv, StuckInv, [Next]_vars PROVE StuckInv'
    OBVIOUS
  <2>1. CASE UNCHANGED stuck
    BY <2>1 DEF StuckInv
  <2>2. ASSUME NEW w \in Workers, Fault(w) PROVE StuckInv'
    <3>1. stuck' \in {stuck, stuck \cup {Job(w).repo}} /\ Job(w).repo \in Repos
      BY <2>2, BusyJob DEF Fault
    <3> QED
      BY <3>1 DEF StuckInv
  <2>3. ASSUME Restart PROVE StuckInv'
    <3>1. PICK killed \in SUBSET {w \in Workers : stage[w] = "mirror"} :
             stuck' = stuck \cup {Job(w).repo : w \in killed}
      BY <2>3 DEF Restart
    <3>2. \A w \in killed : Job(w).repo \in Repos
      BY BusyJob
    <3> QED
      BY <3>1, <3>2 DEF StuckInv
  <2> QED
    BY <2>1, <2>2, <2>3
    DEF Next, vars, Push, TakeJob, Mirror, GitRefuses, Route, RepositoryExists, CreateRepository,
        PushWorkingRepo
<1> QED
  BY <1>1, <1>2, Invariance, PTL DEF Spec

(***************************************************************************)
(* The typing invariant, in which no branch on GitHub is ahead of the      *)
(* encrypted history, nor that of the pushes (TypeOK).                     *)
(***************************************************************************)
THEOREM TypeCorrect == Spec => []TypeOK
  BY Invariance, StuckInvariant, IInvImpliesTypeOK, PTL

(***************************************************************************)
(* What a step does to GitHub's branches.                                  *)
(***************************************************************************)
Grows ==
    \A d \in DOMAIN github : d \in DOMAIN github' /\ \A b \in Branches :
        github[d][b].by # Nobody =>
            github'[d][b].by = github[d][b].by /\ github'[d][b].upTo >= github[d][b].upTo

LEMMA StepGrows == IInv /\ [Next]_vars => Grows
<1> SUFFICES ASSUME IInv, [Next]_vars PROVE Grows
  OBVIOUS
<1>1. CASE UNCHANGED github
  <2>1. \A d \in DOMAIN github, b \in Branches : github[d][b].upTo \in Nat
    <3>1. \A d \in DOMAIN github, b \in Branches : github[d][b] \in [by : Writers, upTo : Nat]
      BY DEF IInv, GitHubInv
    <3> QED
      BY <3>1
  <2> QED
    BY <1>1, <2>1 DEF Grows
<1>2. ASSUME NEW w \in Workers, CanCreate(dest[w]), github' = WithCreated(dest[w]), UNCHANGED enc
      PROVE  Grows
  <2>1. \A x \in DOMAIN github : x \in DOMAIN github' /\ github'[x] = github[x]
    BY <1>2, CreateKeeps DEF IInv
  <2>2. \A d \in DOMAIN github, b \in Branches : github[d][b].upTo \in Nat
    <3>1. \A d \in DOMAIN github, b \in Branches : github[d][b] \in [by : Writers, upTo : Nat]
      BY DEF IInv, GitHubInv
    <3> QED
      BY <3>1
  <2> QED
    BY <2>1, <2>2 DEF Grows
<1>3. ASSUME NEW w \in Workers, stage[w] # "idle", FastForwards(w), github' = Pushed(w), UNCHANGED enc
      PROVE  Grows
  BY <1>3, PushedKeeps DEF IInv, Grows
<1>4. CASE \E w \in Workers : CreateRepository(w)
  BY <1>1, <1>2, <1>4 DEF CreateRepository
<1>5. CASE \E w \in Workers : PushWorkingRepo(w)
  BY <1>1, <1>3, <1>5 DEF PushWorkingRepo
<1>6. CASE \E w \in Workers : Fault(w)
  BY <1>1, <1>2, <1>3, <1>6 DEF Fault
<1> QED
  BY <1>1, <1>4, <1>5, <1>6
  DEF Next, Push, TakeJob, Mirror, GitRefuses, Route, RepositoryExists, Restart, vars

(***************************************************************************)
(* However many repositories are routed to one place, under whatever       *)
(* sequence of configurations, no backup is overwritten by another's, nor  *)
(* cut back by its own (BackupsOnlyGrow).                                  *)
(***************************************************************************)
THEOREM OnlyGrow == Spec => BackupsOnlyGrow
<1>1. IInv /\ [Next]_vars =>
         [\A d \in DOMAIN github : d \in DOMAIN github' /\ \A b \in Branches :
            LET old == github[d][b]
                new == github'[d][b]
            IN  old.by # Nobody => new.by = old.by /\ new.upTo >= old.upTo]_vars
  BY StepGrows DEF Grows
<1> QED
  BY <1>1, Invariance, PTL DEF Spec, BackupsOnlyGrow

(***************************************************************************)
(* Which step reports a success.                                           *)
(***************************************************************************)
LEMMA StepBacksUp ==
  ASSUME IInv, [Next]_vars, NEW j \in 1 .. Len(jobs),
         config.token, jobs[j].state # "succeeded", jobs'[j].state = "succeeded"
  PROVE  BackedUp(jobs[j])
<1>1. PICK w \in Workers : stage[w] # "idle" /\ Succeed(w) /\ PushWorkingRepo(w)
  <2>1. ASSUME NEW w \in Workers, stage[w] # "idle", JobError(w) PROVE FALSE
    BY <2>1, JobErrorKeeps DEF IInv
  <2>2. ~(UNCHANGED jobs)
    OBVIOUS
  <2>3. ~(\E r \in Repos, b \in Branches : Push(r, b))
    BY PushKeeps
  <2>4. ~(\E w \in Workers : TakeJob(w)) /\ ~Restart
    BY TakeJobKeeps, RestartKeeps DEF IInv
  <2>5. ~(\E w \in Workers : \/ Mirror(w) \/ GitRefuses(w) \/ Route(w)
                               \/ RepositoryExists(w) \/ CreateRepository(w) \/ Fault(w))
    BY <2>1, <2>2 DEF Mirror, GitRefuses, Route, RepositoryExists, CreateRepository, Fault
  <2>6. \E w \in Workers : PushWorkingRepo(w)
    BY <2>2, <2>3, <2>4, <2>5 DEF Next, vars
  <2> QED
    BY <2>1, <2>6 DEF PushWorkingRepo
<1>2. j = current[w]
  BY <1>1, SucceedKeeps DEF IInv
<1>3. ~JobError(w)
  BY <1>1, JobErrorKeeps DEF IInv
<1>4. stage[w] = "push" /\ FastForwards(w) /\ github' = Pushed(w) /\ UNCHANGED enc
  BY <1>1, <1>3 DEF PushWorkingRepo
<1>5. /\ DOMAIN github' = DOMAIN github
      /\ github'[dest[w]][Job(w).branch] = [by |-> Job(w).repo, upTo |-> enc[Job(w).repo]]
  BY <1>4, PushedKeeps DEF IInv
<1>6. dest[w] = Destination(config, Job(w).repo) /\ Job(w).commit <= enc[Job(w).repo]
  BY <1>4 DEF IInv, HandlerInv
<1>7. jobs[j] = Job(w) /\ dest[w] \in DOMAIN github
  BY <1>2, <1>4 DEF Job, FastForwards
<1>8. Job(w).commit \in Nat /\ enc[Job(w).repo] \in Nat
  <2>1. Job(w) \in Jobs /\ MaxPushes \in Nat
    BY <1>7, ElementOfSeq, RoutingAssumption DEF IInv, QueueInv
  <2> QED
    BY <2>1 DEF Jobs, IInv, SourceInv
<1> QED
  BY <1>5, <1>6, <1>7, <1>8 DEF BackedUp

(***************************************************************************)
(* With a token, a job that succeeds is backed up at its own place,        *)
(* whatever shares that place and whatever failed before                   *)
(* (SuccessIsBackedUp).                                                    *)
(***************************************************************************)
THEOREM SuccessBacksUp == Spec => SuccessIsBackedUp
<1>1. IInv /\ [Next]_vars =>
         [config.token => \A j \in 1 .. Len(jobs) :
            jobs[j].state # "succeeded" /\ jobs'[j].state = "succeeded" => BackedUp(jobs[j])]_vars
  BY StepBacksUp
<1> QED
  BY <1>1, Invariance, PTL DEF Spec, SuccessIsBackedUp

(***************************************************************************)
(* How GitHub gets a new repository.                                       *)
(***************************************************************************)
LEMMA StepCreates ==
  ASSUME IInv, [Next]_vars, NEW d \in DOMAIN github' \ DOMAIN github
  PROVE  /\ UNCHANGED config
         /\ \E w \in Workers : stage[w] = "create" /\ CanCreate(dest[w]) /\ d = Created(dest[w])
<1>1. ASSUME NEW w \in Workers, stage[w] # "idle", FastForwards(w), github' = Pushed(w), UNCHANGED enc
      PROVE  FALSE
  BY <1>1, PushedKeeps DEF IInv
<1>2. ASSUME NEW w \in Workers, github' = WithCreated(dest[w])
      PROVE  d = Created(dest[w])
  BY <1>2 DEF WithCreated
<1>3. ~(UNCHANGED github)
  OBVIOUS
<1>4. CASE \E w \in Workers : CreateRepository(w)
  BY <1>2, <1>3, <1>4 DEF CreateRepository
<1>5. CASE \E w \in Workers : PushWorkingRepo(w)
  BY <1>1, <1>3, <1>5 DEF PushWorkingRepo
<1>6. CASE \E w \in Workers : Fault(w)
  BY <1>1, <1>2, <1>3, <1>6 DEF Fault
<1> QED
  BY <1>3, <1>4, <1>5, <1>6
  DEF Next, Push, TakeJob, Mirror, GitRefuses, Route, RepositoryExists, Restart, vars

(***************************************************************************)
(* As long as the owners that are mapped to are organizations or the       *)
(* token's user, every repository the service creates is the destination   *)
(* of one it mirrors (CreatesOnlyDestinations).                            *)
(***************************************************************************)
THEOREM OnlyDestinations == Spec => CreatesOnlyDestinations
<1>1. ASSUME IInv, [Next]_vars, NoOtherUser, NEW d \in DOMAIN github' \ DOMAIN github
      PROVE  \E r \in Repos : d = Destination(config, r)
  <2>1. PICK w \in Workers : stage[w] = "create" /\ CanCreate(dest[w]) /\ d = Created(dest[w])
    BY <1>1, StepCreates
  <2> DEFINE r == Job(w).repo
             o == MappedOwner(config, r.owner)
  <2>2. r \in Repos /\ dest[w] = Destination(config, r)
    BY <1>1, <2>1, BusyJob DEF IInv, HandlerInv
  <2>3. dest[w] = <<o, dest[w][2]>> /\ dest[w][1] = o
    BY <2>2 DEF Destination
  <2>4. o \in DOMAIN Account
    BY <2>1, <2>3 DEF CanCreate
  <2>5. Account[o] = "organization" \/ o = TokenUser
    BY <1>1, <2>2, <2>4 DEF NoOtherUser
  <2>6. Created(dest[w]) = dest[w]
    BY <2>3, <2>5 DEF Created
  <2> QED
    BY <2>1, <2>2, <2>6
<1>2. IInv /\ [Next]_vars =>
         [NoOtherUser => \A d \in DOMAIN github' \ DOMAIN github :
            \E r \in Repos : d = Destination(config, r)]_vars
  BY <1>1
<1> QED
  BY <1>2, Invariance, PTL DEF Spec, CreatesOnlyDestinations

(***************************************************************************)
(* Why an attempt may fail.  The strengthening says what a worker that got *)
(* past a step may count on: whoever pushes has a token, and a destination *)
(* that exists or cannot be made.                                          *)
(***************************************************************************)
CanNever(d) == d[1] \notin DOMAIN Account \/ (Account[d[1]] # "organization" /\ d[1] # TokenUser)

Reached(d) == d \in DOMAIN github \/ OutOfReach(d)

WorkerReason(w) ==
    /\ stage[w] \in {"check", "create", "push"} => config.token
    /\ stage[w] = "push" => Reached(dest[w])

ReasonInv == \A w \in Workers : WorkerReason(w)

LEMMA GitHubKeepsAll == IInv /\ [Next]_vars => \A d \in DOMAIN github : d \in DOMAIN github'
  BY StepGrows DEF Grows

\* What holds of the workers a step leaves alone.
LEMMA ReasonKeeps ==
  ASSUME IInv, ReasonInv, [Next]_vars, UNCHANGED config,
         \A v \in Workers :
            (stage'[v] = stage[v] /\ dest'[v] = dest[v]) \/ WorkerReason(v)'
  PROVE  ReasonInv'
<1>1. ASSUME NEW d, Reached(d) PROVE Reached(d)'
  BY <1>1, GitHubKeepsAll DEF Reached, OutOfReach
<1>2. ASSUME NEW v \in Workers, stage'[v] = stage[v], dest'[v] = dest[v]
      PROVE  WorkerReason(v)'
  <2>1. WorkerReason(v)
    BY DEF ReasonInv
  <2>2. CASE stage[v] = "push"
    <3>1. Reached(dest[v])'
      <4>1. PICK d : d = dest[v]
        OBVIOUS
      <4>2. Reached(d) /\ dest'[v] = d
        BY <1>2, <2>1, <2>2, <4>1 DEF WorkerReason
      <4>3. Reached(d)'
        BY <1>1, <4>2
      <4> QED
        BY <4>2, <4>3 DEF Reached, OutOfReach
    <3> QED
      BY <1>2, <2>1, <2>2, <3>1 DEF WorkerReason
  <2>3. CASE stage[v] # "push"
    BY <1>2, <2>1, <2>3 DEF WorkerReason
  <2> QED
    BY <2>2, <2>3
<1> QED
  BY <1>2 DEF ReasonInv

\* A worker whose job is over, for now or for good.
LEMMA LeaveReason ==
  ASSUME IInv, ReasonInv, [Next]_vars, NEW w \in Workers, UNCHANGED config,
         JobError(w) \/ Succeed(w)
  PROVE  ReasonInv'
<1>1. /\ stage' = [stage EXCEPT ![w] = "idle"] /\ dest' = [dest EXCEPT ![w] = <<>>]
      /\ stage'[w] = "idle"
  BY DEF JobError, Succeed, Leave, IInv, QueueInv
<1>2. WorkerReason(w)'
  BY <1>1 DEF WorkerReason
<1>3. \A v \in Workers \ {w} : stage'[v] = stage[v] /\ dest'[v] = dest[v]
  BY <1>1
<1> QED
  BY <1>2, <1>3, ReasonKeeps

\* Why creating is refused.
LEMMA CreateRefused ==
  ASSUME NEW d, ~CanCreate(d), d = <<d[1], d[2]>>
  PROVE  d \in DOMAIN github \/ (d \notin DOMAIN github /\ CanNever(d))
<1>1. CASE d[1] \notin DOMAIN Account
  BY <1>1 DEF CanNever
<1>2. CASE Account[d[1]] # "organization" /\ d[1] # TokenUser
  BY <1>2 DEF CanNever
<1>3. CASE d[1] \in DOMAIN Account /\ ~(Account[d[1]] # "organization" /\ d[1] # TokenUser)
  <2>1. Created(d) \in DOMAIN github
    BY <1>3 DEF CanCreate
  <2> QED
    BY <1>3, <2>1 DEF Created
<1> QED
  BY <1>1, <1>2, <1>3

LEMMA InitReason == Init => ReasonInv
  BY DEF Init, ReasonInv, WorkerReason

LEMMA StepReason == IInv /\ ReasonInv /\ [Next]_vars => ReasonInv'
<1> SUFFICES ASSUME IInv, ReasonInv, [Next]_vars PROVE ReasonInv'
  OBVIOUS
<1>1. CASE UNCHANGED <<config, stage, dest>>
  BY <1>1, ReasonKeeps
<1>2. ASSUME NEW w \in Workers, TakeJob(w) \/ (Mirror(w) /\ Goto(w, "route")) PROVE ReasonInv'
  <2>1. PICK s \in {"mirror", "route"} :
           stage' = [stage EXCEPT ![w] = s] /\ UNCHANGED <<config, dest>>
    BY <1>2 DEF TakeJob, Mirror, Goto
  <2>2. WorkerReason(w)'
    BY <2>1 DEF WorkerReason, IInv, QueueInv
  <2> QED
    BY <2>1, <2>2, ReasonKeeps
<1>3. ASSUME NEW w \in Workers, JobError(w) \/ Succeed(w), UNCHANGED config PROVE ReasonInv'
  BY <1>3, LeaveReason
<1>4. ASSUME NEW w \in Workers, Route(w) PROVE ReasonInv'
  <2>1. UNCHANGED <<config, github>>
    BY <1>4 DEF Route
  <2>2. CASE JobError(w) \/ Succeed(w)
    BY <1>3, <2>1, <2>2
  <2> DEFINE s == IF config.autoCreate THEN "check" ELSE "push"
             d == Destination(config, Job(w).repo)
  <2>3. CASE /\ config.token
             /\ stage' = [stage EXCEPT ![w] = s] /\ dest' = [dest EXCEPT ![w] = d]
    <3>1. stage'[w] = s /\ dest'[w] = d
      BY <2>3 DEF IInv, QueueInv
    <3>2. ~config.autoCreate => Reached(d)
      BY DEF Reached, OutOfReach
    <3>3. WorkerReason(w)'
      <4>1. PICK x : x = d
        OBVIOUS
      <4>2. dest'[w] = x /\ (~config.autoCreate => Reached(x))
        BY <3>1, <3>2, <4>1
      <4> HIDE DEF d
      <4>3. ~config.autoCreate => Reached(dest[w])'
        BY <2>1, <4>2 DEF Reached, OutOfReach
      <4> QED
        BY <2>1, <2>3, <3>1, <4>3 DEF WorkerReason
    <3>4. \A v \in Workers \ {w} : stage'[v] = stage[v] /\ dest'[v] = dest[v]
      BY <2>3
    <3> QED
      BY <2>1, <3>3, <3>4, ReasonKeeps
  <2> QED
    BY <1>4, <2>2, <2>3 DEF Route
<1>5. ASSUME NEW w \in Workers, RepositoryExists(w) PROVE ReasonInv'
  <2> DEFINE s == IF dest[w] \in DOMAIN github THEN "push" ELSE "create"
  <2>1. /\ stage[w] = "check" /\ stage' = [stage EXCEPT ![w] = s]
        /\ UNCHANGED <<config, github, dest>>
    BY <1>5 DEF RepositoryExists, Goto
  <2>2. stage'[w] = s /\ config.token
    BY <2>1 DEF IInv, QueueInv, ReasonInv, WorkerReason
  <2>3. WorkerReason(w)'
    BY <2>1, <2>2 DEF WorkerReason, Reached
  <2>4. \A v \in Workers \ {w} : stage'[v] = stage[v] /\ dest'[v] = dest[v]
    BY <2>1
  <2> QED
    BY <2>1, <2>3, <2>4, ReasonKeeps
<1>6. ASSUME NEW w \in Workers, CreateRepository(w) PROVE ReasonInv'
  <2>1. stage[w] = "create" /\ UNCHANGED config
    BY <1>6 DEF CreateRepository
  <2>2. dest[w] = <<dest[w][1], dest[w][2]>>
    BY <2>1 DEF IInv, HandlerInv, Destination
  <2>3. CASE github' = WithCreated(dest[w]) /\ Goto(w, "push")
    <3>1. stage' = [stage EXCEPT ![w] = "push"] /\ UNCHANGED dest /\ stage'[w] = "push"
      BY <2>3 DEF Goto, IInv, QueueInv
    <3>2. dest[w] \in DOMAIN github' \/ CanNever(dest[w])
      <4>1. Created(dest[w]) \in DOMAIN github'
        BY <2>3 DEF WithCreated
      <4> QED
        BY <2>2, <4>1 DEF Created, CanNever
    <3>3. config.token
      BY <2>1 DEF ReasonInv, WorkerReason
    <3>4. WorkerReason(w)'
      BY <2>1, <3>1, <3>2, <3>3 DEF WorkerReason, Reached, OutOfReach, CanNever
    <3>5. \A v \in Workers \ {w} : stage'[v] = stage[v] /\ dest'[v] = dest[v]
      BY <3>1
    <3> QED
      BY <2>1, <3>4, <3>5, ReasonKeeps
  <2>4. CASE JobError(w)
    BY <1>3, <2>1, <2>4
  <2> QED
    BY <1>6, <2>3, <2>4 DEF CreateRepository
<1>7. ASSUME Restart PROVE ReasonInv'
  BY <1>7 DEF Restart, ReasonInv, WorkerReason
<1>8. CASE UNCHANGED vars
  BY <1>1, <1>8 DEF vars, workerVars
<1>9. ASSUME NEW r \in Repos, NEW b \in Branches, Push(r, b) PROVE ReasonInv'
  BY <1>1, <1>9 DEF Push, workerVars
<1>10. ASSUME NEW w \in Workers, Mirror(w) PROVE ReasonInv'
  BY <1>1, <1>2, <1>10 DEF Mirror, workerVars
<1>11. ASSUME NEW w \in Workers, GitRefuses(w) \/ PushWorkingRepo(w) \/ Fault(w) PROVE ReasonInv'
  BY <1>3, <1>11 DEF GitRefuses, PushWorkingRepo, Fault
<1> QED
  BY <1>2, <1>4, <1>5, <1>6, <1>7, <1>8, <1>9, <1>10, <1>11 DEF Next

LEMMA BothInvariants == Spec => [](IInv /\ ReasonInv)
  BY InitInv, StepInv, InitReason, StepReason, PTL DEF Spec

\* A failed attempt changes its own job only.
LEMMA ErrorJobs ==
  ASSUME IInv, NEW v \in Workers, stage[v] # "idle", JobError(v),
         NEW i \in 1 .. Len(jobs), i # current[v]
  PROVE  jobs'[i] = jobs[i]
<1>1. /\ current[v] \in 1 .. Len(jobs) /\ Job(v) \in Jobs /\ jobs \in Seq(Jobs)
      /\ Job(v).attempts <= MaxRetries
  BY BusyJob DEF IInv, QueueInv
<1>2. AfterError(Job(v)) \in Jobs
  BY <1>1, AfterErrorType
<1> QED
  BY <1>1, <1>2, JobUpdate DEF JobError

\* Which steps count an attempt of a worker's job as failed.
LEMMA StepFails ==
  ASSUME IInv, [Next]_vars, UNCHANGED faults, NEW w \in Workers, stage[w] # "idle",
         jobs'[current[w]].attempts > Job(w).attempts
  PROVE  \/ GitRefuses(w)
         \/ Route(w) /\ config.token /\ ~Routable(config, Job(w).repo)
         \/ stage[w] = "create" /\ ~CanCreate(dest[w])
         \/ stage[w] = "push" /\ ~FastForwards(w)
<1>1. PICK c \in 1 .. Len(jobs) : c = current[w]
  BY BusyJob
<1>2. /\ jobs[c] = Job(w) /\ jobs[c] \in Jobs /\ jobs[c].attempts \in Nat /\ jobs \in Seq(Jobs)
      /\ ~(jobs'[c].attempts = jobs[c].attempts)
  BY <1>1, BusyJob DEF Job, IInv, QueueInv
<1>3. ASSUME NEW j \in 1 .. Len(jobs), NEW s \in {"running", "succeeded"},
             jobs' = [jobs EXCEPT ![j].state = s]
      PROVE  FALSE
  BY <1>2, <1>3 DEF Jobs
<1>4. ASSUME NEW v \in Workers, stage[v] # "idle", Succeed(v) PROVE FALSE
  BY <1>3, <1>4, BusyJob DEF Succeed
<1>5. ASSUME NEW v \in Workers, stage[v] # "idle", JobError(v) PROVE v = w
  <2>1. c = current[v]
    BY <1>2, <1>5, ErrorJobs
  <2> QED
    BY <1>1, <1>5, <2>1 DEF IInv, QueueInv, HeldJobs
<1>6. ~(UNCHANGED jobs)
  BY <1>2
<1>7. ~(\E r \in Repos, b \in Branches : Push(r, b))
  BY <1>2, PushKeeps
<1>8. ~(\E v \in Workers : TakeJob(v))
  BY <1>3 DEF TakeJob
<1>9. ~Restart
  <2>1. Restart => jobs'[c] \in {jobs[c], [jobs[c] EXCEPT !.state = "lost"]}
    BY DEF Restart
  <2>2. [jobs[c] EXCEPT !.state = "lost"].attempts = jobs[c].attempts
    BY <1>2 DEF Jobs
  <2> QED
    BY <1>2, <2>1, <2>2
<1>10. ~(\E v \in Workers : Fault(v))
  BY RoutingAssumption DEF Fault, IInv, SourceInv
<1>11. PICK v \in Workers : \/ GitRefuses(v) \/ Route(v) \/ CreateRepository(v) \/ PushWorkingRepo(v)
  BY <1>6, <1>7, <1>8, <1>9, <1>10 DEF Next, Mirror, RepositoryExists, vars
<1>12. stage[v] # "idle"
  BY <1>11 DEF GitRefuses, Route, CreateRepository, PushWorkingRepo
<1>13. JobError(v)
  BY <1>4, <1>6, <1>11, <1>12 DEF GitRefuses, Route, CreateRepository, PushWorkingRepo
<1>14. v = w
  BY <1>5, <1>12, <1>13
<1>15. CASE GitRefuses(v)
  BY <1>14, <1>15
<1>16. CASE Route(v)
  BY <1>4, <1>6, <1>14, <1>16 DEF Route
<1>17. CASE CreateRepository(v)
  BY <1>6, <1>14, <1>17 DEF CreateRepository
<1>18. CASE PushWorkingRepo(v)
  BY <1>4, <1>12, <1>14, <1>18 DEF PushWorkingRepo
<1> QED
  BY <1>11, <1>15, <1>16, <1>17, <1>18

LEMMA StepHasAReason ==
  ASSUME IInv, ReasonInv, [Next]_vars, UNCHANGED faults, NEW w \in Workers, stage[w] # "idle",
         jobs'[current[w]].attempts > Job(w).attempts
  PROVE  Reason(w)
<1> DEFINE r == Job(w).repo
           b == Job(w).branch
           d == Destination(config, r)
<1>1. r \in Repos /\ b \in Branches
  BY BusyJob DEF Jobs
<1>2. CASE GitRefuses(w)
  BY <1>2 DEF GitRefuses, Reason
<1>3. CASE Route(w) /\ config.token /\ ~Routable(config, r)
  BY <1>3 DEF Reason, LastingReason
<1>4. CASE stage[w] = "create" /\ ~CanCreate(dest[w])
  <2>1. dest[w] = d /\ d = <<d[1], d[2]>> /\ config.token
    BY <1>4 DEF IInv, HandlerInv, ReasonInv, WorkerReason, Destination
  <2>2. CASE d \in DOMAIN github
    BY <1>4, <2>1, <2>2 DEF Reason, CreatedByAnother
  <2>3. CASE d \notin DOMAIN github /\ CanNever(d)
    BY <2>1, <2>3 DEF Reason, LastingReason, OutOfReach, CanNever
  <2> QED
    BY <1>4, <2>1, <2>2, <2>3, CreateRefused
<1>5. CASE stage[w] = "push" /\ ~FastForwards(w)
  <2>1. dest[w] = d /\ Reached(d) /\ config.token
    BY <1>5 DEF IInv, HandlerInv, ReasonInv, WorkerReason
  <2>2. CASE d \in DOMAIN github
    <3>1. /\ github[d][b].by # Nobody
          /\ ~(github[d][b].by = r /\ github[d][b].upTo <= enc[r])
      BY <1>5, <2>1, <2>2 DEF FastForwards
    <3>2. github[d][b].by = r => github[d][b].upTo <= enc[r]
      BY <1>1, <2>2 DEF IInv, GitHubInv
    <3>3. Taken(d, b, r)
      BY <2>2, <3>1, <3>2 DEF Taken
    <3> QED
      BY <2>1, <3>3 DEF Reason, LastingReason
  <2>3. CASE OutOfReach(d)
    BY <2>1, <2>3 DEF Reason, LastingReason
  <2> QED
    BY <2>1, <2>2, <2>3 DEF Reached
<1> QED
  BY <1>2, <1>3, <1>4, <1>5, StepFails

(***************************************************************************)
(* An attempt fails, without any failure of a command or a request, only   *)
(* for a lasting reason in the configuration or on GitHub, for a           *)
(* repository that is stuck, or because another worker is at work in the   *)
(* same place or was first to create the destination (FailureHasAReason).  *)
(***************************************************************************)
THEOREM FailsForAReason == Spec => FailureHasAReason
<1>1. IInv /\ ReasonInv /\ [Next]_vars =>
         [faults' = faults => \A w \in Workers :
            stage[w] # "idle" /\ jobs'[current[w]].attempts > Job(w).attempts => Reason(w)]_vars
  BY StepHasAReason
<1> QED
  BY <1>1, BothInvariants, PTL DEF Spec, FailureHasAReason
=============================================================================
