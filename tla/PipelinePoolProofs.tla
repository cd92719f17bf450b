------------------------- MODULE PipelinePoolProofs -------------------------
(***************************************************************************)
(* MirrorPipeline implements JobPool: what the handler does with a job is  *)
(* what a pool of that many workers may do with it, for any finite number  *)
(* of workers, any graph, messages, failures, restarts and losses of the   *)
(* cache.                                                                  *)
(***************************************************************************)
EXTENDS MirrorPipelineProofs

(***************************************************************************)
(* What the mapping rests on besides typing: the deliveries are bounded,   *)
(* and a job runs only in the hands of a worker, so that no more jobs run  *)
(* than there are busy workers.                                            *)
(***************************************************************************)
PoolInv ==
    /\ TypeInv
    /\ Len(jobs) <= MaxJobs
    /\ \A j \in 1 .. Len(jobs) : jobs[j].state = "running" =>
          \E w \in Workers : stage[w] # "idle" /\ current[w] = j

LEMMA PoolNumbers ==
  ASSUME PoolInv
  PROVE  /\ jobs \in Seq(Jobs) /\ Len(jobs) \in Nat /\ MaxJobs \in Nat /\ MaxRetries \in Nat
         /\ \A j \in 1 .. Len(jobs) : j \in 1 .. MaxJobs /\ jobs[j] \in Jobs
  <1>1. jobs \in Seq(Jobs) /\ Len(jobs) \in Nat /\ MaxJobs \in Nat /\ MaxRetries \in Nat
    BY LenProperties, PipelineAssumption DEF PoolInv, TypeInv, QueueInv
  <1>2. \A j \in 1 .. Len(jobs) : jobs[j] \in Jobs
    BY <1>1, ElementOfSeq
  <1>3. \A j \in 1 .. Len(jobs) : j \in 1 .. MaxJobs
    BY <1>1 DEF PoolInv
  <1> QED BY <1>1, <1>2, <1>3

\* What a job is to the pool.
Seen(job) == IF job.state = "queued" THEN "waiting" ELSE job.state
Tried(job) == IF job.state \in {"queued", "running"} THEN job.attempts ELSE 0

PoolAgrees ==
    \A j \in 1 .. MaxJobs :
        /\ PoolState[j] = IF j > Len(jobs) THEN "none" ELSE Seen(jobs[j])
        /\ PoolTries[j] = IF j > Len(jobs) THEN 0 ELSE Tried(jobs[j])

LEMMA PoolValues == PoolInv => PoolAgrees
  <1> SUFFICES ASSUME PoolInv, NEW j \in 1 .. MaxJobs
               PROVE  /\ PoolState[j] = IF j > Len(jobs) THEN "none" ELSE Seen(jobs[j])
                      /\ PoolTries[j] = IF j > Len(jobs) THEN 0 ELSE Tried(jobs[j])
    BY DEF PoolAgrees
  <1>1. PoolState[j] = IF j > Len(jobs) THEN "none" ELSE Seen(jobs[j])
    BY DEF PoolState, Seen
  <1>2. PoolTries[j] = IF PoolState[j] \in {"waiting", "running"} THEN jobs[j].attempts ELSE 0
    BY DEF PoolTries
  <1>3. CASE j > Len(jobs)
    BY <1>1, <1>2, <1>3
  <1>4. CASE ~(j > Len(jobs))
    <2>1. jobs[j].state \in JobStates
      BY <1>4, PoolNumbers DEF Jobs
    <2>2. Seen(jobs[j]) \in {"waiting", "running"} <=> jobs[j].state \in {"queued", "running"}
      BY <2>1 DEF Seen, JobStates
    <2> QED BY <1>1, <1>2, <1>4, <2>2 DEF Tried
  <1> QED BY <1>1, <1>3, <1>4

LEMMA PoolValuesThen == PoolInv' => PoolAgrees'
  BY PoolValues, PTL

\* One job moves; the pool sees the others where they were.
LEMMA OneJobMoves ==
  ASSUME PoolInv, PoolInv', NEW i \in 1 .. Len(jobs), NEW e,
         Len(jobs') = Len(jobs),
         \A j \in 1 .. Len(jobs) : jobs'[j] = IF j = i THEN e ELSE jobs[j]
  PROVE  /\ PoolState' = [PoolState EXCEPT ![i] = Seen(e)]
         /\ PoolTries' = [PoolTries EXCEPT ![i] = Tried(e)]
         /\ i \in 1 .. MaxJobs
         /\ PoolState[i] = Seen(jobs[i]) /\ PoolTries[i] = Tried(jobs[i])
  <1>1. i \in 1 .. MaxJobs /\ Len(jobs) \in Nat /\ MaxJobs \in Nat
    BY PoolNumbers
  <1>2. PoolAgrees /\ PoolAgrees'
    BY PoolValues, PoolValuesThen
  <1>3. \A j \in 1 .. MaxJobs : /\ PoolState'[j] = IF j = i THEN Seen(e) ELSE PoolState[j]
                                /\ PoolTries'[j] = IF j = i THEN Tried(e) ELSE PoolTries[j]
    BY <1>1, <1>2 DEF PoolAgrees
  <1>4. PoolState' = [PoolState EXCEPT ![i] = Seen(e)]
    <2>1. PoolState' = [j \in 1 .. MaxJobs |-> PoolState'[j]]
          /\ PoolState = [j \in 1 .. MaxJobs |-> PoolState[j]]
      BY DEF PoolState
    <2> QED BY <1>3, <2>1
  <1>5. PoolTries' = [PoolTries EXCEPT ![i] = Tried(e)]
    <2>1. PoolTries' = [j \in 1 .. MaxJobs |-> PoolTries'[j]]
          /\ PoolTries = [j \in 1 .. MaxJobs |-> PoolTries[j]]
      BY DEF PoolTries
    <2> QED BY <1>3, <2>1
  <1> QED BY <1>1, <1>2, <1>4, <1>5 DEF PoolAgrees

-----------------------------------------------------------------------------
(***************************************************************************)
(* PoolInv is inductive.                                                   *)
(***************************************************************************)

\* A worker lets go of its job, which does not run any more.
LEMMA LetGo ==
  ASSUME PoolInv, NEW w \in Workers, stage[w] # "idle", Leave(w),
         NEW e \in Jobs, e.state # "running", jobs' = [jobs EXCEPT ![current[w]] = e]
  PROVE  /\ current[w] \in 1 .. Len(jobs) /\ Len(jobs') = Len(jobs)
         /\ \A j \in 1 .. Len(jobs) : jobs'[j] = IF j = current[w] THEN e ELSE jobs[j]
         /\ \A j \in 1 .. Len(jobs') : jobs'[j].state = "running" =>
               \E v \in Workers : stage'[v] # "idle" /\ current'[v] = j
  <1>1. current[w] \in 1 .. Len(jobs) /\ jobs \in Seq(Jobs)
    BY DEF PoolInv, TypeInv, QueueInv
  <1>2. /\ Len(jobs') = Len(jobs)
        /\ \A j \in 1 .. Len(jobs) : jobs'[j] = IF j = current[w] THEN e ELSE jobs[j]
    BY <1>1, JobUpdate
  <1>3. ASSUME NEW j \in 1 .. Len(jobs'), jobs'[j].state = "running"
        PROVE  \E v \in Workers : stage'[v] # "idle" /\ current'[v] = j
    <2>1. j \in 1 .. Len(jobs) /\ j # current[w] /\ jobs[j].state = "running"
      BY <1>2, <1>3
    <2>2. PICK v \in Workers : stage[v] # "idle" /\ current[v] = j
      BY <2>1 DEF PoolInv
    <2>3. v # w
      BY <2>1, <2>2
    <2>4. stage'[v] = stage[v] /\ current'[v] = current[v]
      BY <2>3 DEF Leave, PoolInv, TypeInv, QueueInv
    <2> QED BY <2>2, <2>4
  <1> QED BY <1>1, <1>2, <1>3

LEMMA SucceedsAs ==
  ASSUME PoolInv, NEW w \in Workers, stage[w] # "idle", Succeed(w)
  PROVE  \E e \in Jobs : /\ e.state = "succeeded" /\ jobs' = [jobs EXCEPT ![current[w]] = e]
                         /\ Leave(w)
  <1>1. jobs[current[w]] \in Jobs
    BY PoolNumbers DEF PoolInv, TypeInv, QueueInv
  <1>2. [jobs[current[w]] EXCEPT !.state = "succeeded"] \in Jobs
        /\ [jobs[current[w]] EXCEPT !.state = "succeeded"].state = "succeeded"
    BY <1>1 DEF Jobs, JobStates
  <1> QED BY <1>2 DEF Succeed

\* An error is tried again while attempts are left.
LEMMA FailsAs ==
  ASSUME PoolInv, NEW w \in Workers, stage[w] # "idle", JobError(w)
  PROVE  /\ jobs[current[w]].attempts \in 0 .. MaxRetries
         /\ \E e \in Jobs :
               /\ jobs' = [jobs EXCEPT ![current[w]] = e] /\ Leave(w)
               /\ IF jobs[current[w]].attempts = MaxRetries THEN e.state = "failed"
                  ELSE e.state = "queued" /\ e.attempts = jobs[current[w]].attempts + 1
  <1> DEFINE job == jobs[current[w]]
  <1>1. job \in Jobs /\ MaxRetries \in Nat /\ job.attempts <= MaxRetries
    BY PoolNumbers DEF PoolInv, TypeInv, QueueInv, HeldJobs
  <1>2. job.attempts \in 0 .. MaxRetries
    BY <1>1 DEF Jobs
  <1>3. AfterError(job) \in Jobs
    BY <1>1, AfterErrorType
  <1>4. IF job.attempts = MaxRetries THEN AfterError(job).state = "failed"
        ELSE AfterError(job).state = "queued" /\ AfterError(job).attempts = job.attempts + 1
    <2>1. "failed" \in JobStates /\ "queued" \in JobStates
      BY DEF JobStates
    <2>2. CASE job.attempts = MaxRetries
      <3>1. AfterError(job) = Attempted(job, "failed")
        BY <1>1, <2>2 DEF AfterError
      <3> QED BY <1>1, <2>1, <2>2, <3>1, AttemptedType
    <2>3. CASE job.attempts # MaxRetries
      <3>1. AfterError(job) = Attempted(job, "queued")
        BY <1>1, <1>2, <2>3 DEF AfterError
      <3> QED BY <1>1, <2>1, <2>3, <3>1, AttemptedType
    <2> QED BY <2>2, <2>3
  <1>5. jobs' = [jobs EXCEPT ![current[w]] = AfterError(job)] /\ Leave(w)
    BY DEF JobError, Job
  <1> HIDE DEF job
  <1> QED BY <1>2, <1>3, <1>4, <1>5 DEF job

LEMMA TakesAs ==
  ASSUME PoolInv, NEW w \in Workers, TakeJob(w)
  PROVE  \E j \in 1 .. Len(jobs), e \in Jobs :
            /\ jobs[j].state = "queued" /\ jobs[j].attempts = e.attempts
            /\ e.state = "running" /\ jobs' = [jobs EXCEPT ![j] = e]
            /\ current' = [current EXCEPT ![w] = j]
  <1>1. PICK j \in 1 .. Len(jobs) : /\ jobs[j].state = "queued"
                                    /\ jobs' = [jobs EXCEPT ![j].state = "running"]
                                    /\ current' = [current EXCEPT ![w] = j]
    BY DEF TakeJob
  <1>2. jobs[j] \in Jobs
    BY PoolNumbers
  <1> DEFINE e == [jobs[j] EXCEPT !.state = "running"]
  <1>3. e \in Jobs /\ e.state = "running" /\ e.attempts = jobs[j].attempts
    BY <1>2 DEF Jobs, JobStates
  <1>4. jobs' = [jobs EXCEPT ![j] = e]
    BY <1>1
  <1> HIDE DEF e
  <1> QED BY <1>1, <1>3, <1>4

\* The jobs a stop finds queued or running are lost.
LEMMA EndsAs ==
  ASSUME PoolInv, ProcessEnds
  PROVE  /\ Len(jobs') = Len(jobs)
         /\ \A j \in 1 .. Len(jobs) :
               /\ jobs'[j].state = IF jobs[j].state \in {"queued", "running"} THEN "lost"
                                   ELSE jobs[j].state
               /\ jobs'[j].state \notin {"queued", "running"}
  <1>1. Len(jobs) \in Nat /\ \A j \in 1 .. Len(jobs) : jobs[j] \in Jobs
    BY PoolNumbers
  <1>2. jobs' = [j \in 1 .. Len(jobs) |->
                   IF jobs[j].state \in {"queued", "running"}
                   THEN [jobs[j] EXCEPT !.state = "lost"] ELSE jobs[j]]
    BY DEF ProcessEnds
  <1>3. Len(jobs') = Len(jobs)
    BY <1>1, <1>2
  <1> QED BY <1>1, <1>2, <1>3 DEF Jobs

LEMMA NextKeepsPoolInv == PoolInv /\ [Next]_vars => PoolInv'
  <1> SUFFICES ASSUME PoolInv, [Next]_vars PROVE PoolInv'
    OBVIOUS
  <1> DEFINE HeldThen == \A j \in 1 .. Len(jobs') : jobs'[j].state = "running" =>
                           \E w \in Workers : stage'[w] # "idle" /\ current'[w] = j
  <1>1. TypeInv'
    BY NextKeepsTypeInv DEF PoolInv
  <1>2. SUFFICES Len(jobs') <= MaxJobs /\ HeldThen
    BY <1>1 DEF PoolInv
  <1> HIDE DEF HeldThen
  <1>3. Len(jobs) <= MaxJobs
    BY DEF PoolInv
  <1>4. ASSUME NEW w \in Workers, stage[w] # "idle", JobError(w)
        PROVE  Len(jobs') <= MaxJobs /\ HeldThen
    <2>1. PICK e \in Jobs : /\ jobs' = [jobs EXCEPT ![current[w]] = e] /\ Leave(w)
                            /\ e.state \in {"failed", "queued"}
      BY <1>4, FailsAs
    <2>2. e.state # "running"
      BY <2>1
    <2> QED BY <1>3, <1>4, <2>1, <2>2, LetGo DEF HeldThen
  <1>5. ASSUME NEW w \in Workers, Step(w) PROVE Len(jobs') <= MaxJobs /\ HeldThen
    <2>1. CASE TakeJob(w)
      <3>1. PICK j \in 1 .. Len(jobs), e \in Jobs :
               jobs' = [jobs EXCEPT ![j] = e] /\ current' = [current EXCEPT ![w] = j]
        BY <2>1, TakesAs
      <3>2. /\ Len(jobs') = Len(jobs)
            /\ \A i \in 1 .. Len(jobs) : jobs'[i] = IF i = j THEN e ELSE jobs[i]
        BY <3>1, PoolNumbers, JobUpdate
      <3>3. /\ stage[w] = "idle" /\ stage'[w] # "idle" /\ current'[w] = j
            /\ \A v \in Workers \ {w} : stage'[v] = stage[v] /\ current'[v] = current[v]
        BY <2>1, <3>1 DEF TakeJob, PoolInv, TypeInv, QueueInv
      <3>4. ASSUME NEW i \in 1 .. Len(jobs), jobs'[i].state = "running", i # j
            PROVE  \E v \in Workers : stage'[v] # "idle" /\ current'[v] = i
        <4>1. PICK v \in Workers : stage[v] # "idle" /\ current[v] = i
          BY <3>2, <3>4 DEF PoolInv
        <4> QED BY <3>3, <4>1
      <3> QED BY <1>3, <3>2, <3>3, <3>4 DEF HeldThen
    <2>2. CASE stage[w] # "idle" /\ Succeed(w)
      <3>1. PICK e \in Jobs : /\ jobs' = [jobs EXCEPT ![current[w]] = e] /\ Leave(w)
                              /\ e.state # "running"
        BY <2>2, SucceedsAs
      <3> QED BY <1>3, <2>2, <3>1, LetGo DEF HeldThen
    <2>3. CASE GoesOn(w)
      <3>1. /\ UNCHANGED <<jobs, current>>
            /\ \A v \in Workers : stage[v] # "idle" => stage'[v] # "idle"
        BY <2>3 DEF GoesOn
      <3> QED BY <1>3, <3>1 DEF PoolInv, HeldThen
    <2> QED BY <1>4, <1>5, <2>1, <2>2, <2>3, StepKinds DEF PoolInv
  <1>6. ASSUME NEW w \in Workers, PushUnacknowledged(w) \/ Fault(w)
        PROVE  Len(jobs') <= MaxJobs /\ HeldThen
    <2>1. stage[w] # "idle" /\ JobError(w)
      BY <1>6 DEF PushUnacknowledged, Fault
    <2> QED BY <1>4, <2>1
  <1>7. ASSUME NEW b \in Branches, NEW c \in Commits, SourcePush(b, c)
        PROVE  Len(jobs') <= MaxJobs /\ HeldThen
    <2> DEFINE e == [branch |-> b, commit |-> c, attempts |-> 0, state |-> "queued"]
    <2>1. Len(jobs) < MaxJobs /\ jobs' = Append(jobs, e) /\ UNCHANGED <<stage, current>>
      BY <1>7 DEF SourcePush, workerVars
    <2>2. e.state = "queued"
      OBVIOUS
    <2> HIDE DEF e
    <2>3. /\ Len(jobs') = Len(jobs) + 1 /\ jobs'[Len(jobs) + 1] = e
          /\ \A i \in 1 .. Len(jobs) : jobs'[i] = jobs[i]
      BY <2>1, PoolNumbers
    <2>4. ASSUME NEW i \in 1 .. Len(jobs'), jobs'[i].state = "running"
          PROVE  \E v \in Workers : stage'[v] # "idle" /\ current'[v] = i
      <3>1. i \in 1 .. Len(jobs)
        BY <2>2, <2>3, <2>4, PoolNumbers
      <3> QED BY <2>1, <2>3, <2>4, <3>1 DEF PoolInv
    <2> QED BY <2>1, <2>3, <2>4, PoolNumbers DEF HeldThen
  <1>8. CASE Restart \/ LoseCache
    <2>1. ProcessEnds
      BY <1>8 DEF Restart, LoseCache
    <2> QED BY <1>3, <2>1, EndsAs DEF HeldThen
  <1>9. CASE UNCHANGED vars
    BY <1>3, <1>9 DEF vars, workerVars, PoolInv, HeldThen
  <1> QED BY <1>5, <1>6, <1>7, <1>8, <1>9 DEF Next

LEMMA PoolInvInit == Init => PoolInv
  <1> SUFFICES ASSUME Init PROVE PoolInv
    OBVIOUS
  <1>1. jobs = <<>> /\ Len(jobs) = 0 /\ MaxJobs \in Nat
    BY PipelineAssumption, EmptySeq DEF Init
  <1> QED BY <1>1, TypeInvInit DEF PoolInv

LEMMA AlwaysPoolInv == Spec => []PoolInv
  BY PoolInvInit, NextKeepsPoolInv, PTL DEF Spec

-----------------------------------------------------------------------------
(***************************************************************************)
(* Every step of a worker, a user or the process is one of the pool's.     *)
(***************************************************************************)

\* Fewer jobs run than there are workers when one of these is idle.
LEMMA RoomForOne ==
  ASSUME IsFiniteSet(Workers), PoolInv, NEW w \in Workers, stage[w] = "idle"
  PROVE  Cardinality({k \in 1 .. MaxJobs : PoolState[k] = "running"}) < Cardinality(Workers)
  <1> DEFINE R == {k \in 1 .. MaxJobs : PoolState[k] = "running"}
             V == Workers \ {w}
             I == {current[v] : v \in V}
  <1>1. /\ IsFiniteSet(V) /\ Cardinality(V) = Cardinality(Workers) - 1
        /\ Cardinality(Workers) \in Nat
    BY FS_RemoveElement, FS_CardinalityType
  <1>2. IsFiniteSet(I) /\ Cardinality(I) <= Cardinality(V)
    <2>1. [v \in V |-> current[v]] \in Surjection(V, I)
      BY DEF Surjection
    <2> HIDE DEF V, I
    <2> QED BY <1>1, <2>1, FS_Surjection
  <1>3. R \subseteq I
    <2>1. SUFFICES ASSUME NEW k \in R PROVE k \in I
      OBVIOUS
    <2>2. k \in 1 .. MaxJobs /\ PoolState[k] = IF k > Len(jobs) THEN "none" ELSE Seen(jobs[k])
      BY PoolValues DEF PoolAgrees
    <2>3. k \in 1 .. Len(jobs) /\ jobs[k].state = "running"
      BY <2>2, PoolNumbers DEF Seen
    <2> QED BY <2>3 DEF PoolInv
  <1>4. Cardinality(R) <= Cardinality(I)
    BY <1>2, <1>3, FS_Subset
  <1>5. Cardinality(R) \in Nat /\ Cardinality(I) \in Nat /\ Cardinality(V) \in Nat
    BY <1>1, <1>2, <1>3, FS_Subset, FS_CardinalityType
  <1> QED BY <1>1, <1>2, <1>4, <1>5

LEMMA PushImplements ==
  ASSUME PoolInv, PoolInv', NEW b \in Branches, NEW c \in Commits, SourcePush(b, c)
  PROVE  \E j \in 1 .. MaxJobs : Pool!Accept(j)
  <1> DEFINE e == [branch |-> b, commit |-> c, attempts |-> 0, state |-> "queued"]
             n == Len(jobs) + 1
  <1>1. Len(jobs) < MaxJobs /\ jobs' = Append(jobs, e)
    BY DEF SourcePush
  <1>2. Seen(e) = "waiting" /\ Tried(e) = 0
    BY DEF Seen, Tried
  <1> HIDE DEF e
  <1>3. /\ Len(jobs') = n /\ jobs'[n] = e /\ n \in 1 .. MaxJobs
        /\ \A i \in 1 .. Len(jobs) : jobs'[i] = jobs[i]
    BY <1>1, PoolNumbers
  <1>4. PoolAgrees /\ PoolAgrees' /\ Len(jobs) \in Nat /\ MaxJobs \in Nat
    BY PoolValues, PoolValuesThen, PoolNumbers
  <1>5. \A j \in 1 .. MaxJobs : /\ PoolState'[j] = IF j = n THEN "waiting" ELSE PoolState[j]
                                /\ PoolTries'[j] = PoolTries[j]
    BY <1>2, <1>3, <1>4 DEF PoolAgrees
  <1>6. PoolState[n] = "none"
    BY <1>3, <1>4 DEF PoolAgrees
  <1>7. /\ PoolState' = [j \in 1 .. MaxJobs |-> PoolState'[j]]
        /\ PoolState = [j \in 1 .. MaxJobs |-> PoolState[j]]
        /\ PoolTries' = [j \in 1 .. MaxJobs |-> PoolTries'[j]]
        /\ PoolTries = [j \in 1 .. MaxJobs |-> PoolTries[j]]
    BY DEF PoolState, PoolTries
  <1>8. PoolState' = [PoolState EXCEPT ![n] = "waiting"]
    BY <1>3, <1>5, <1>7
  <1>9. PoolTries' = PoolTries
    BY <1>5, <1>7
  <1>10. Pool!Accept(n)
    BY <1>6, <1>8, <1>9 DEF Pool!Accept
  <1> QED BY <1>3, <1>10

LEMMA TakeImplements ==
  ASSUME IsFiniteSet(Workers), PoolInv, PoolInv', NEW w \in Workers, TakeJob(w)
  PROVE  \E j \in 1 .. MaxJobs : Pool!Take(j)
  <1>1. PICK j \in 1 .. Len(jobs), e \in Jobs :
           /\ jobs[j].state = "queued" /\ jobs[j].attempts = e.attempts
           /\ e.state = "running" /\ jobs' = [jobs EXCEPT ![j] = e]
    BY TakesAs
  <1>2. /\ Len(jobs') = Len(jobs)
        /\ \A i \in 1 .. Len(jobs) : jobs'[i] = IF i = j THEN e ELSE jobs[i]
    BY <1>1, PoolNumbers, JobUpdate
  <1>3. /\ PoolState' = [PoolState EXCEPT ![j] = Seen(e)]
        /\ PoolTries' = [PoolTries EXCEPT ![j] = Tried(e)]
        /\ j \in 1 .. MaxJobs
        /\ PoolState[j] = Seen(jobs[j]) /\ PoolTries[j] = Tried(jobs[j])
    BY <1>2, OneJobMoves
  <1>4. Seen(jobs[j]) = "waiting" /\ Seen(e) = "running" /\ Tried(e) = Tried(jobs[j])
    BY <1>1 DEF Seen, Tried
  <1>5. PoolTries' = PoolTries
    <2>1. PoolTries = [k \in 1 .. MaxJobs |-> PoolTries[k]]
      BY DEF PoolTries
    <2> QED BY <1>3, <1>4, <2>1
  <1>6. stage[w] = "idle"
    BY DEF TakeJob
  <1>7. Cardinality({k \in 1 .. MaxJobs : PoolState[k] = "running"}) < Cardinality(Workers)
    BY <1>6, RoomForOne
  <1>8. Pool!Cardinality({k \in 1 .. MaxJobs : PoolState[k] = "running"}) < Cardinality(Workers)
    BY <1>7 DEF Pool!Cardinality, Cardinality
  <1>9. Pool!Take(j)
    BY <1>3, <1>4, <1>5, <1>8 DEF Pool!Take
  <1> QED BY <1>3, <1>9

LEMMA SucceedImplements ==
  ASSUME PoolInv, PoolInv', NEW w \in Workers, stage[w] # "idle", Succeed(w)
  PROVE  \E j \in 1 .. MaxJobs : Pool!Succeed(j)
  <1> DEFINE j == current[w]
  <1>1. PICK e \in Jobs : /\ e.state = "succeeded" /\ jobs' = [jobs EXCEPT ![j] = e] /\ Leave(w)
    BY SucceedsAs
  <1>2. jobs[j].state = "running"
    BY DEF PoolInv, TypeInv, QueueInv, HeldJobs
  <1>3. /\ j \in 1 .. Len(jobs) /\ Len(jobs') = Len(jobs)
        /\ \A i \in 1 .. Len(jobs) : jobs'[i] = IF i = j THEN e ELSE jobs[i]
    BY <1>1, LetGo
  <1> HIDE DEF j
  <1>4. /\ PoolState' = [PoolState EXCEPT ![j] = Seen(e)]
        /\ PoolTries' = [PoolTries EXCEPT ![j] = Tried(e)]
        /\ j \in 1 .. MaxJobs
        /\ PoolState[j] = Seen(jobs[j])
    BY <1>3, OneJobMoves
  <1>5. Seen(jobs[j]) = "running" /\ Seen(e) = "succeeded" /\ Tried(e) = 0
    BY <1>1, <1>2 DEF Seen, Tried
  <1>6. Pool!Succeed(j)
    BY <1>4, <1>5 DEF Pool!Succeed, Pool!End
  <1> QED BY <1>4, <1>6

LEMMA ErrorImplements ==
  ASSUME PoolInv, PoolInv', NEW w \in Workers, stage[w] # "idle", JobError(w)
  PROVE  \E j \in 1 .. MaxJobs : Pool!Retry(j) \/ Pool!GiveUp(j)
  <1> DEFINE j == current[w]
  <1>1. jobs[j].attempts \in 0 .. MaxRetries
    BY FailsAs
  <1>2. PICK e \in Jobs :
           /\ jobs' = [jobs EXCEPT ![j] = e] /\ Leave(w)
           /\ IF jobs[j].attempts = MaxRetries THEN e.state = "failed"
              ELSE e.state = "queued" /\ e.attempts = jobs[j].attempts + 1
    BY FailsAs
  <1>3. jobs[j].state = "running" /\ e.state # "running"
    BY <1>2 DEF PoolInv, TypeInv, QueueInv, HeldJobs
  <1>4. /\ j \in 1 .. Len(jobs) /\ Len(jobs') = Len(jobs)
        /\ \A i \in 1 .. Len(jobs) : jobs'[i] = IF i = j THEN e ELSE jobs[i]
    BY <1>2, <1>3, LetGo
  <1> HIDE DEF j
  <1>5. /\ PoolState' = [PoolState EXCEPT ![j] = Seen(e)]
        /\ PoolTries' = [PoolTries EXCEPT ![j] = Tried(e)]
        /\ j \in 1 .. MaxJobs
        /\ PoolState[j] = Seen(jobs[j]) /\ PoolTries[j] = Tried(jobs[j])
    BY <1>4, OneJobMoves
  <1>6. Seen(jobs[j]) = "running" /\ Tried(jobs[j]) = jobs[j].attempts
    BY <1>3 DEF Seen, Tried
  <1>7. CASE jobs[j].attempts = MaxRetries
    <2>1. Seen(e) = "failed" /\ Tried(e) = 0
      BY <1>2, <1>7 DEF Seen, Tried
    <2>2. Pool!GiveUp(j)
      BY <1>5, <1>6, <1>7, <2>1 DEF Pool!GiveUp, Pool!End
    <2> QED BY <1>5, <2>2
  <1>8. CASE jobs[j].attempts # MaxRetries
    <2>1. Seen(e) = "waiting" /\ Tried(e) = PoolTries[j] + 1
      BY <1>2, <1>5, <1>6, <1>8 DEF Seen, Tried
    <2>2. PoolTries[j] < MaxRetries
      BY <1>1, <1>5, <1>6, <1>8, PoolNumbers
    <2>3. Pool!Retry(j)
      BY <1>5, <1>6, <2>1, <2>2 DEF Pool!Retry
    <2> QED BY <1>5, <2>3
  <1> QED BY <1>7, <1>8

LEMMA EndImplements ==
  ASSUME PoolInv, PoolInv', ProcessEnds
  PROVE  Pool!Restart
  <1>1. /\ Len(jobs') = Len(jobs)
        /\ \A j \in 1 .. Len(jobs) :
              /\ jobs'[j].state = IF jobs[j].state \in {"queued", "running"} THEN "lost"
                                  ELSE jobs[j].state
              /\ jobs'[j].state \notin {"queued", "running"}
    BY EndsAs
  <1>2. PoolAgrees /\ PoolAgrees'
    BY PoolValues, PoolValuesThen
  <1>3. \A j \in 1 .. Len(jobs) : jobs[j].state \in JobStates
    BY PoolNumbers DEF Jobs
  <1>4. ASSUME NEW j \in 1 .. MaxJobs
        PROVE  /\ PoolState'[j] = IF PoolState[j] \in {"waiting", "running"} THEN "lost"
                                  ELSE PoolState[j]
               /\ PoolTries'[j] = 0
    <2>1. CASE j > Len(jobs)
      BY <1>1, <1>2, <2>1 DEF PoolAgrees
    <2>2. CASE ~(j > Len(jobs))
      <3>1. j \in 1 .. Len(jobs)
        BY <2>2, PoolNumbers
      <3>2. /\ PoolState[j] = Seen(jobs[j]) /\ PoolState'[j] = Seen(jobs'[j])
            /\ PoolTries'[j] = Tried(jobs'[j])
        BY <1>1, <1>2, <2>2 DEF PoolAgrees
      <3>3. Seen(jobs'[j]) = IF Seen(jobs[j]) \in {"waiting", "running"} THEN "lost"
                             ELSE Seen(jobs[j])
        BY <1>1, <1>3, <3>1 DEF Seen, JobStates
      <3>4. Tried(jobs'[j]) = 0
        BY <1>1, <3>1 DEF Tried
      <3> QED BY <3>2, <3>3, <3>4
    <2> QED BY <2>1, <2>2
  <1>5. /\ PoolState' = [j \in 1 .. MaxJobs |-> PoolState'[j]]
        /\ PoolTries' = [j \in 1 .. MaxJobs |-> PoolTries'[j]]
    BY DEF PoolState, PoolTries
  <1>6. /\ PoolState' = [j \in 1 .. MaxJobs |->
                           IF PoolState[j] \in {"waiting", "running"} THEN "lost" ELSE PoolState[j]]
        /\ PoolTries' = [j \in 1 .. MaxJobs |-> 0]
    BY <1>4, <1>5
  <1> QED BY <1>6 DEF Pool!Restart

LEMMA UnseenImplements == UNCHANGED jobs => UNCHANGED Pool!vars
  BY DEF PoolState, PoolTries, Pool!vars

LEMMA InitImplements == Init => Pool!Init
  <1> SUFFICES ASSUME Init PROVE Pool!Init
    OBVIOUS
  <1>1. PoolAgrees /\ MaxJobs \in Nat
    BY PoolInvInit, PoolValues, PipelineAssumption
  <1>2. Len(jobs) = 0
    BY EmptySeq DEF Init
  <1>3. \A j \in 1 .. MaxJobs : PoolState[j] = "none" /\ PoolTries[j] = 0
    BY <1>1, <1>2 DEF PoolAgrees
  <1>4. /\ PoolState = [j \in 1 .. MaxJobs |-> PoolState[j]]
        /\ PoolTries = [j \in 1 .. MaxJobs |-> PoolTries[j]]
    BY DEF PoolState, PoolTries
  <1> QED BY <1>3, <1>4 DEF Pool!Init

LEMMA StepImplements ==
  ASSUME IsFiniteSet(Workers)
  PROVE  PoolInv /\ PoolInv' /\ [Next]_vars => [Pool!Next]_(Pool!vars)
  <1> SUFFICES ASSUME PoolInv, PoolInv', [Next]_vars PROVE Pool!Next \/ UNCHANGED Pool!vars
    OBVIOUS
  <1>1. ASSUME NEW b \in Branches, NEW c \in Commits, SourcePush(b, c)
        PROVE  Pool!Next \/ UNCHANGED Pool!vars
    BY <1>1, PushImplements DEF Pool!Next
  <1>2. ASSUME NEW w \in Workers, Step(w) PROVE Pool!Next \/ UNCHANGED Pool!vars
    <2>1. CASE TakeJob(w)
      BY <2>1, TakeImplements DEF Pool!Next
    <2>2. CASE stage[w] # "idle" /\ Succeed(w)
      BY <2>2, SucceedImplements DEF Pool!Next
    <2>3. CASE stage[w] # "idle" /\ JobError(w)
      BY <2>3, ErrorImplements DEF Pool!Next
    <2>4. CASE GoesOn(w)
      BY <2>4, UnseenImplements DEF GoesOn
    <2> QED BY <1>2, <2>1, <2>2, <2>3, <2>4, StepKinds DEF PoolInv
  <1>3. ASSUME NEW w \in Workers, PushUnacknowledged(w) \/ Fault(w)
        PROVE  Pool!Next \/ UNCHANGED Pool!vars
    <2>1. stage[w] # "idle" /\ JobError(w)
      BY <1>3 DEF PushUnacknowledged, Fault
    <2> QED BY <2>1, ErrorImplements DEF Pool!Next
  <1>4. CASE Restart \/ LoseCache
    BY <1>4, EndImplements DEF Restart, LoseCache, Pool!Next
  <1>5. CASE UNCHANGED vars
    BY <1>5, UnseenImplements DEF vars
  <1> QED BY <1>1, <1>2, <1>3, <1>4, <1>5 DEF Next

(***************************************************************************)
(* What the handler does with a job (TakeJob, Succeed, JobError, Restart)  *)
(* is what JobPool allows a pool of that many workers to do: with          *)
(* JobQueueProofs' QueueImplementsPool, the queue and the handler agree on *)
(* one abstraction, for any finite number of workers.                      *)
(***************************************************************************)
THEOREM PipelineImplementsPool ==
  ASSUME IsFiniteSet(Workers)
  PROVE  Spec => ImplementsJobPool
  BY InitImplements, StepImplements, AlwaysPoolInv, PTL DEF Spec, ImplementsJobPool, Pool!Spec
=============================================================================
