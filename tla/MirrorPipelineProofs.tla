------------------------ MODULE MirrorPipelineProofs ------------------------
(***************************************************************************)
(* What holds of MirrorPipeline for every commit graph, every number of    *)
(* workers, branches, jobs, failures and restarts.                         *)
(***************************************************************************)
EXTENDS MirrorPipeline, SequenceTheorems, FiniteSetTheorems, TLAPS

(***************************************************************************)
(* Typing.  TypeOK is not inductive: that attempts stay in range needs     *)
(* that only running jobs are held, each by one worker.                    *)
(***************************************************************************)
HeldJobs ==
    /\ \A j \in 1 .. Len(jobs) :
          jobs[j].state \in {"queued", "running"} => jobs[j].attempts <= MaxRetries
    /\ \A w \in Workers : stage[w] # "idle" => jobs[current[w]].state = "running"
    /\ \A v, w \in Workers :
          stage[v] # "idle" /\ stage[w] # "idle" /\ current[v] = current[w] => v = w

\* The half of the typing invariant about the queue and its workers.
QueueInv ==
    /\ jobs \in Seq(Jobs)
    /\ stage \in [Workers -> Stages]
    /\ current \in [Workers -> Nat]
    /\ commits \in [Workers -> Seq(Commits)]
    /\ next \in [Workers -> Nat \ {0}]
    /\ \A w \in Workers : stage[w] # "idle" => current[w] \in 1 .. Len(jobs)
    /\ \A w \in Workers : stage[w] \in InLoop => next[w] \in 1 .. Len(commits[w])
    /\ HeldJobs

\* The half about repositories, GitHub and the bounds.
StoreInv ==
    /\ srcRef \in [Branches -> Commits \cup {None}]
    /\ bare \in {"absent", "unconfigured", "ready"} /\ objs \in SUBSET Commits
    /\ refLock \in BOOLEAN
    /\ enc \in {"absent", "partial", "ready"} /\ log \in Seq(Entries)
    /\ worktree \in Trees /\ index \in Trees
    /\ indexLock \in BOOLEAN /\ era \in 0 .. MaxEras
    /\ pushEnabled \in BOOLEAN /\ ghExists \in BOOLEAN
    /\ remote \in [Branches -> Seq(Entries)]
    /\ faults \in 0 .. MaxFaults /\ restarts \in 0 .. MaxRestarts

TypeInv == QueueInv /\ StoreInv

LEMMA TypeInvImpliesTypeOK == TypeInv => TypeOK
  BY DEF TypeInv, QueueInv, StoreInv, TypeOK

(***************************************************************************)
(* One element of a sequence is replaced.                                  *)
(***************************************************************************)
LEMMA JobUpdate ==
  ASSUME NEW s \in Seq(Jobs), NEW j \in 1 .. Len(s), NEW e \in Jobs
  PROVE  /\ [s EXCEPT ![j] = e] \in Seq(Jobs)
         /\ Len([s EXCEPT ![j] = e]) = Len(s)
         /\ \A i \in 1 .. Len(s) : [s EXCEPT ![j] = e][i] = IF i = j THEN e ELSE s[i]
  BY ExceptSeq

(***************************************************************************)
(* What RevListOrders lists is a sequence of exactly the range.            *)
(***************************************************************************)
LEMMA RevListOrdersType ==
  ASSUME NEW c \in Commits, NEW range \in SUBSET Ancestors[c],
         NEW s \in RevListOrders(range)
  PROVE  /\ s \in Seq(Commits)
         /\ DOMAIN s = 1 .. Len(s)
         /\ {s[i] : i \in 1 .. Len(s)} = range
  <1>1. IsFiniteSet(Ancestors[c]) /\ Ancestors[c] \subseteq Commits
    BY CommitGraphAssumption
  <1>2. Cardinality(range) \in Nat
    BY <1>1, FS_Subset, FS_CardinalityType
  <1>3. s \in [1 .. Cardinality(range) -> range] /\ {s[i] : i \in DOMAIN s} = range
    BY DEF RevListOrders
  <1>4. s \in [1 .. Cardinality(range) -> Commits]
    BY <1>1, <1>3
  <1>5. s \in Seq(Commits)
    BY <1>2, <1>4, SeqDef
  <1>6. DOMAIN s = 1 .. Len(s)
    BY <1>5, LenProperties
  <1> QED BY <1>3, <1>5, <1>6

(***************************************************************************)
(* The three ways a worker moves, and the end of the process, keep the     *)
(* queue's half of the invariant.                                          *)
(***************************************************************************)
LEMMA GotoKeepsQueueInv ==
  ASSUME QueueInv, NEW w \in Workers, NEW s \in Stages \ {"idle"},
         stage[w] # "idle", Goto(w, s), UNCHANGED jobs,
         s \in InLoop => next[w] \in 1 .. Len(commits[w])
  PROVE  QueueInv'
  BY DEF QueueInv, HeldJobs, Goto

LEMMA AttemptedType ==
  ASSUME NEW job \in Jobs, job.attempts <= MaxRetries, NEW s \in JobStates
  PROVE  /\ Attempted(job, s) \in Jobs
         /\ Attempted(job, s).attempts = job.attempts + 1
         /\ Attempted(job, s).state = s
  <1>1. MaxRetries \in Nat
    BY PipelineAssumption
  <1>2. job.attempts \in Nat /\ job.attempts + 1 \in 0 .. MaxRetries + 1
    BY <1>1 DEF Jobs
  <1> QED BY <1>2 DEF Attempted, Jobs

LEMMA AfterErrorType ==
  ASSUME NEW job \in Jobs, job.attempts <= MaxRetries
  PROVE  /\ AfterError(job) \in Jobs
         /\ AfterError(job).state \in {"queued", "failed"}
         /\ AfterError(job).state = "queued" => AfterError(job).attempts <= MaxRetries
  <1>1. MaxRetries \in Nat /\ job.attempts \in Nat
    BY PipelineAssumption DEF Jobs
  <1>2. {"queued", "failed"} \subseteq JobStates
    BY DEF JobStates
  <1>3. CASE job.attempts + 1 > MaxRetries
    <2>1. AfterError(job) = Attempted(job, "failed")
      BY <1>3 DEF AfterError
    <2> QED BY <1>2, <2>1, AttemptedType
  <1>4. CASE ~(job.attempts + 1 > MaxRetries)
    <2>1. AfterError(job) = Attempted(job, "queued")
      BY <1>4 DEF AfterError
    <2> QED BY <1>1, <1>2, <1>4, <2>1, AttemptedType
  <1> QED BY <1>3, <1>4

LEMMA JobErrorKeepsQueueInv ==
  ASSUME QueueInv, NEW w \in Workers, stage[w] # "idle", JobError(w)
  PROVE  QueueInv'
  <1> DEFINE j == current[w]
             e == AfterError(jobs[j])
  <1>1. j \in 1 .. Len(jobs) /\ jobs[j].state = "running" /\ jobs[j].attempts <= MaxRetries
    BY DEF QueueInv, HeldJobs
  <1>2. jobs[j] \in Jobs /\ jobs \in Seq(Jobs)
    BY <1>1, ElementOfSeq DEF QueueInv
  <1>3. /\ e \in Jobs /\ e.state \in {"queued", "failed"}
        /\ e.state = "queued" => e.attempts <= MaxRetries
    BY <1>1, <1>2, AfterErrorType
  <1>4. jobs' = [jobs EXCEPT ![j] = e]
    BY DEF JobError, Job
  <1> HIDE DEF e
  <1>5. /\ jobs' \in Seq(Jobs) /\ Len(jobs') = Len(jobs)
        /\ \A i \in 1 .. Len(jobs) : jobs'[i] = IF i = j THEN e ELSE jobs[i]
    BY <1>1, <1>2, <1>3, <1>4, JobUpdate
  <1>6. /\ stage' = [stage EXCEPT ![w] = "idle"] /\ current' = [current EXCEPT ![w] = 0]
        /\ commits' = [commits EXCEPT ![w] = <<>>] /\ next' = [next EXCEPT ![w] = 1]
    BY DEF JobError, Leave
  <1>7. HeldJobs'
    BY <1>3, <1>5, <1>6 DEF QueueInv, HeldJobs
  <1> QED BY <1>5, <1>6, <1>7, EmptySeq DEF QueueInv, Stages, InLoop

LEMMA SucceedKeepsQueueInv ==
  ASSUME QueueInv, NEW w \in Workers, stage[w] # "idle", Succeed(w)
  PROVE  QueueInv'
  <1> DEFINE j == current[w]
             e == [jobs[j] EXCEPT !.state = "succeeded"]
  <1>1. j \in 1 .. Len(jobs) /\ jobs \in Seq(Jobs) /\ jobs[j] \in Jobs
    BY ElementOfSeq DEF QueueInv
  <1>2. e \in Jobs /\ e.state = "succeeded"
    BY <1>1 DEF Jobs, JobStates
  <1>3. jobs' = [jobs EXCEPT ![j] = e]
    BY DEF Succeed
  <1> HIDE DEF e
  <1>4. /\ jobs' \in Seq(Jobs) /\ Len(jobs') = Len(jobs)
        /\ \A i \in 1 .. Len(jobs) : jobs'[i] = IF i = j THEN e ELSE jobs[i]
    BY <1>1, <1>2, <1>3, JobUpdate
  <1>5. /\ stage' = [stage EXCEPT ![w] = "idle"] /\ current' = [current EXCEPT ![w] = 0]
        /\ commits' = [commits EXCEPT ![w] = <<>>] /\ next' = [next EXCEPT ![w] = 1]
    BY DEF Succeed, Leave
  <1>6. HeldJobs'
    BY <1>2, <1>4, <1>5 DEF QueueInv, HeldJobs
  <1> QED BY <1>4, <1>5, <1>6, EmptySeq DEF QueueInv, Stages, InLoop

LEMMA TakeJobKeepsQueueInv ==
  ASSUME QueueInv, NEW w \in Workers, TakeJob(w)
  PROVE  QueueInv'
  <1>1. PICK j \in 1 .. Len(jobs) :
           /\ jobs[j].state = "queued"
           /\ jobs' = [jobs EXCEPT ![j].state = "running"]
           /\ current' = [current EXCEPT ![w] = j]
    BY DEF TakeJob
  <1> DEFINE e == [jobs[j] EXCEPT !.state = "running"]
  <1>2. jobs \in Seq(Jobs) /\ jobs[j] \in Jobs /\ jobs[j].attempts <= MaxRetries
    BY ElementOfSeq, <1>1 DEF QueueInv, HeldJobs
  <1>3. e \in Jobs /\ e.state = "running" /\ e.attempts = jobs[j].attempts
    BY <1>2 DEF Jobs, JobStates
  <1>4. jobs' = [jobs EXCEPT ![j] = e]
    BY <1>1
  <1> HIDE DEF e
  <1>5. /\ jobs' \in Seq(Jobs) /\ Len(jobs') = Len(jobs)
        /\ \A i \in 1 .. Len(jobs) : jobs'[i] = IF i = j THEN e ELSE jobs[i]
    BY <1>2, <1>3, <1>4, JobUpdate
  <1>6. stage[w] = "idle" /\ stage' = [stage EXCEPT ![w] = "ensureMirror"]
        /\ UNCHANGED <<commits, next>>
    BY DEF TakeJob
  <1>7. HeldJobs'
    BY <1>1, <1>2, <1>3, <1>5, <1>6 DEF QueueInv, HeldJobs
  <1>8. Len(jobs) \in Nat
    BY <1>2, LenProperties
  <1> QED BY <1>1, <1>5, <1>6, <1>7, <1>8 DEF QueueInv, Stages, InLoop

LEMMA ProcessEndsKeepsQueueInv ==
  ASSUME QueueInv, ProcessEnds
  PROVE  QueueInv'
  <1> DEFINE n == Len(jobs)
  <1>1. n \in Nat /\ jobs \in Seq(Jobs) /\ \A i \in 1 .. n : jobs[i] \in Jobs
    BY ElementOfSeq, LenProperties DEF QueueInv
  <1>2. jobs' = [i \in 1 .. n |-> IF jobs[i].state \in {"queued", "running"}
                                 THEN [jobs[i] EXCEPT !.state = "lost"] ELSE jobs[i]]
    BY DEF ProcessEnds
  <1>3. \A i \in 1 .. n : jobs'[i] \in Jobs /\ jobs'[i].state \notin {"queued", "running"}
    BY <1>1, <1>2 DEF Jobs, JobStates
  <1>4. jobs' \in [1 .. n -> Jobs]
    BY <1>2, <1>3
  <1>5. jobs' \in Seq(Jobs) /\ Len(jobs') = n
    BY <1>1, <1>4
  <1>6. /\ stage' = [w \in Workers |-> "idle"] /\ current' = [w \in Workers |-> 0]
        /\ commits' = [w \in Workers |-> <<>>] /\ next' = [w \in Workers |-> 1]
    BY DEF ProcessEnds
  <1> QED BY <1>3, <1>5, <1>6, EmptySeq DEF QueueInv, HeldJobs, Stages, InLoop

LEMMA ListCommitsKeepsQueueInv ==
  ASSUME QueueInv, NEW w \in Workers, ListCommits(w)
  PROVE  QueueInv'
  <1>1. stage[w] = "list" /\ current[w] \in 1 .. Len(jobs) /\ jobs[current[w]] \in Jobs
    BY ElementOfSeq DEF ListCommits, QueueInv
  <1>2. CASE JobError(w)
    BY <1>1, <1>2, JobErrorKeepsQueueInv
  <1>3. CASE ~JobError(w)
    <2>1. PICK s \in RevListOrders(Ancestors[Job(w).commit] \ Reach({LastSourceCommit})) :
             /\ commits' = [commits EXCEPT ![w] = s]
             /\ stage' = [stage EXCEPT ![w] = IF s = <<>> THEN "destination" ELSE "clear"]
      BY <1>3 DEF ListCommits
    <2>2. next' = [next EXCEPT ![w] = 1] /\ UNCHANGED <<jobs, current>>
      BY <1>3 DEF ListCommits
    <2>3. Job(w).commit \in Commits
      BY <1>1 DEF Job, Jobs
    <2>4. s \in Seq(Commits)
      BY <2>3, RevListOrdersType
    <2>5. s # <<>> => 1 \in 1 .. Len(s)
      BY <2>4, EmptySeq
    <2> QED BY <1>1, <2>1, <2>2, <2>4, <2>5 DEF QueueInv, HeldJobs, Stages, InLoop
  <1> QED BY <1>2, <1>3

LEMMA CommitStagedKeepsQueueInv ==
  ASSUME QueueInv, NEW w \in Workers, CommitStaged(w)
  PROVE  QueueInv'
  <1>1. /\ stage[w] = "commit" /\ next' = [next EXCEPT ![w] = @ + 1]
        /\ stage' = [stage EXCEPT ![w] = IF next[w] < Len(commits[w]) THEN "clear" ELSE "destination"]
        /\ UNCHANGED <<jobs, current, commits>>
    BY DEF CommitStaged
  <1>2. Len(commits[w]) \in Nat /\ next[w] \in Nat \ {0}
    BY LenProperties DEF QueueInv
  <1> QED BY <1>1, <1>2 DEF QueueInv, HeldJobs, Stages, InLoop

(***************************************************************************)
(* The typing invariant is inductive.                                      *)
(***************************************************************************)
LEMMA EntryType ==
  ASSUME StoreInv, NEW c \in Commits
  PROVE  Entry(c) \in Entries
  <1>1. Trailer(c) \in Commits \cup {None, NoObject}
    BY PipelineAssumption DEF Trailer
  <1> QED BY <1>1 DEF Entry, Entries, StoreInv

LEMMA CommitType ==
  ASSUME QueueInv, NEW w \in Workers, stage[w] \in InLoop
  PROVE  Commit(w) \in Commits
  BY ElementOfSeq DEF Commit, QueueInv

LEMMA FromForgejoType ==
  ASSUME StoreInv
  PROVE  FromForgejo \subseteq Commits
  BY CommitGraphAssumption DEF FromForgejo, Reach, StoreInv

LEMMA TypeInvInit == Init => TypeInv
  <1> SUFFICES ASSUME Init PROVE TypeInv
    OBVIOUS
  <1>1. EmptyTree \in Trees
    BY DEF EmptyTree, Trees
  <1>2. 0 \in 0 .. MaxEras /\ 0 \in 0 .. MaxFaults /\ 0 \in 0 .. MaxRestarts
    BY PipelineAssumption
  <1>3. <<>> \in Seq(Entries)
    BY EmptySeq
  <1>4. StoreInv
    BY <1>1, <1>2, <1>3, Zenon DEF Init, StoreInv
  <1>5. jobs \in Seq(Jobs) /\ Len(jobs) = 0
    BY EmptySeq DEF Init
  <1>6. commits \in [Workers -> Seq(Commits)]
    BY EmptySeq DEF Init
  <1>7. QueueInv
    BY <1>5, <1>6 DEF Init, QueueInv, HeldJobs, Stages, InLoop
  <1> QED BY <1>4, <1>7 DEF TypeInv

\* Every action a worker takes by itself.
LEMMA StepKeepsTypeInv ==
  ASSUME TypeInv, NEW w \in Workers, Step(w)
  PROVE  TypeInv'
  <1> USE DEF TypeInv
  <1>1. CASE TakeJob(w)
    BY <1>1, TakeJobKeepsQueueInv
    DEF TakeJob, StoreInv, cacheVars, encVars, githubVars, budgetVars
  <1>2. CASE Fetch(w)
    <2>1. QueueInv'
      BY <1>2, GotoKeepsQueueInv, JobErrorKeepsQueueInv DEF Fetch, Stages, InLoop
    <2> QED BY <1>2, <2>1, FromForgejoType
            DEF Fetch, StoreInv, encVars, githubVars, budgetVars
  <1>3. CASE StartClone(w)
    <2>1. QueueInv'
      BY <1>3, GotoKeepsQueueInv, JobErrorKeepsQueueInv DEF StartClone, Stages, InLoop
    <2> QED BY <1>3, <2>1 DEF StartClone, StoreInv, encVars, githubVars, budgetVars
  <1>4. CASE ConfigureClone(w)
    <2>1. QueueInv'
      BY <1>4, GotoKeepsQueueInv DEF ConfigureClone, Stages, InLoop
    <2> QED BY <1>4, <2>1 DEF ConfigureClone, StoreInv, encVars, githubVars, budgetVars
  <1>5. CASE FinishClone(w)
    <2>1. QueueInv'
      BY <1>5, GotoKeepsQueueInv DEF FinishClone, Stages, InLoop
    <2> QED BY <1>5, <2>1, FromForgejoType
            DEF FinishClone, StoreInv, encVars, githubVars, budgetVars
  <1>6. CASE ResolveCommit(w)
    <2>1. QueueInv'
      BY <1>6, GotoKeepsQueueInv, JobErrorKeepsQueueInv DEF ResolveCommit, Stages, InLoop
    <2> QED BY <1>6, <2>1
            DEF ResolveCommit, StoreInv, cacheVars, encVars, githubVars, budgetVars
  <1>7. CASE ListCommits(w)
    BY <1>7, ListCommitsKeepsQueueInv
    DEF ListCommits, StoreInv, cacheVars, encVars, githubVars, budgetVars
  <1>8. CASE ClearWorkingTree(w)
    <2>1. stage[w] = "clear" /\ Goto(w, "encrypt") /\ UNCHANGED jobs
      BY <1>8 DEF ClearWorkingTree
    <2>2. QueueInv'
      BY <2>1, GotoKeepsQueueInv DEF QueueInv, Stages, InLoop
    <2>3. EmptyTree \in Trees
      BY DEF EmptyTree, Trees
    <2> QED BY <1>8, <2>2, <2>3
            DEF ClearWorkingTree, StoreInv, cacheVars, githubVars, budgetVars
  <1>9. CASE EncryptFiles(w)
    <2>1. stage[w] = "encrypt" /\ Goto(w, "manifest") /\ UNCHANGED jobs
      BY <1>9 DEF EncryptFiles
    <2>2. QueueInv'
      BY <2>1, GotoKeepsQueueInv DEF QueueInv, Stages, InLoop
    <2>3. Commit(w) \in Commits
      BY <2>1, CommitType DEF InLoop
    <2>4. worktree' \in Trees
      BY <1>9, <2>3 DEF EncryptFiles, StoreInv, Trees
    <2> QED BY <1>9, <2>2, <2>4
            DEF EncryptFiles, StoreInv, cacheVars, githubVars, budgetVars
  <1>10. CASE WriteManifest(w)
    <2>1. stage[w] = "manifest" /\ Goto(w, "add") /\ UNCHANGED jobs
      BY <1>10 DEF WriteManifest
    <2>2. QueueInv'
      BY <2>1, GotoKeepsQueueInv DEF QueueInv, Stages, InLoop
    <2>3. Commit(w) \in Commits
      BY <2>1, CommitType DEF InLoop
    <2>4. worktree' \in Trees
      BY <1>10, <2>3 DEF WriteManifest, StoreInv, Trees
    <2> QED BY <1>10, <2>2, <2>4
            DEF WriteManifest, StoreInv, cacheVars, githubVars, budgetVars
  <1>11. CASE StageAll(w)
    <2>1. stage[w] = "add" /\ Goto(w, "commit") /\ UNCHANGED jobs
      BY <1>11 DEF StageAll
    <2>2. QueueInv'
      BY <2>1, GotoKeepsQueueInv DEF QueueInv, Stages, InLoop
    <2> QED BY <1>11, <2>2 DEF StageAll, StoreInv, cacheVars, githubVars, budgetVars
  <1>12. CASE CommitStaged(w)
    <2>1. Commit(w) \in Commits
      BY <1>12, CommitType DEF CommitStaged, InLoop
    <2>2. log' \in Seq(Entries)
      BY <1>12, <2>1, EntryType DEF CommitStaged, AppendToLog, StoreInv
    <2> QED BY <1>12, <2>2, CommitStagedKeepsQueueInv
            DEF CommitStaged, StoreInv, cacheVars, githubVars, budgetVars
  <1>20. CASE RefLocked(w)
    BY <1>20, JobErrorKeepsQueueInv, FromForgejoType
    DEF RefLocked, StoreInv, encVars, githubVars, budgetVars
  <1>13. CASE IndexLocked(w) \/ PushCollides(w)
    BY <1>13, JobErrorKeepsQueueInv
    DEF IndexLocked, PushCollides, StoreInv, cacheVars, encVars, githubVars, budgetVars
  <1>14. CASE SkipPush(w)
    BY <1>14, SucceedKeepsQueueInv
    DEF SkipPush, StoreInv, cacheVars, encVars, githubVars, budgetVars
  <1>15. CASE CheckRepository(w)
    <2>1. QueueInv'
      BY <1>15, GotoKeepsQueueInv DEF CheckRepository, Stages, InLoop
    <2> QED BY <1>15, <2>1
            DEF CheckRepository, StoreInv, cacheVars, encVars, githubVars, budgetVars
  <1>16. CASE CreateRepository(w)
    <2>1. QueueInv'
      BY <1>16, GotoKeepsQueueInv, JobErrorKeepsQueueInv DEF CreateRepository, Stages, InLoop
    <2> QED BY <1>16, <2>1
            DEF CreateRepository, StoreInv, cacheVars, encVars, budgetVars
  <1>17. CASE PushWorkingRepo(w)
    <2>1. QueueInv'
      BY <1>17, SucceedKeepsQueueInv, JobErrorKeepsQueueInv DEF PushWorkingRepo
    <2> QED BY <1>17, <2>1
            DEF PushWorkingRepo, StoreInv, cacheVars, encVars, budgetVars
  <1>18. CASE CheckMirror(w)
    <2>1. QueueInv'
      BY <1>18, GotoKeepsQueueInv DEF CheckMirror, Stages, InLoop
    <2> QED BY <1>18, <2>1
            DEF CheckMirror, StoreInv, cacheVars, encVars, githubVars, budgetVars
  <1>19. CASE InitWorkingRepo(w) \/ StartInit(w) \/ FinishInit(w)
    <2>1. stage[w] # "idle"
          /\ \/ /\ UNCHANGED jobs
                /\ \E s \in {"initialise", "finishInit", "list"} : Goto(w, s)
             \/ JobError(w)
      BY <1>19 DEF InitWorkingRepo, StartInit, FinishInit
    <2>2. QueueInv'
      BY <2>1, GotoKeepsQueueInv, JobErrorKeepsQueueInv DEF Stages, InLoop
    <2> QED BY <1>19, <2>2 DEF InitWorkingRepo, StartInit, FinishInit, StoreInv,
                               cacheVars, encVars, githubVars, budgetVars
  <1> QED BY <1>1, <1>2, <1>3, <1>4, <1>5, <1>6, <1>7, <1>8, <1>9, <1>10, <1>11, <1>12,
             <1>13, <1>14, <1>15, <1>16, <1>17, <1>18, <1>19, <1>20 DEF Step

LEMMA NextKeepsTypeInv ==
  ASSUME TypeInv, [Next]_vars
  PROVE  TypeInv'
  <1> USE DEF TypeInv
  <1>1. ASSUME NEW b \in Branches, NEW c \in Commits, SourcePush(b, c)
        PROVE  TypeInv'
    <2> DEFINE e == [branch |-> b, commit |-> c, attempts |-> 0, state |-> "queued"]
    <2>1. e \in Jobs /\ e.state = "queued" /\ e.attempts <= MaxRetries
      BY PipelineAssumption DEF Jobs, JobStates
    <2>2. jobs' = Append(jobs, e)
      BY <1>1 DEF SourcePush
    <2> HIDE DEF e
    <2>3. /\ jobs' \in Seq(Jobs) /\ Len(jobs') = Len(jobs) + 1 /\ Len(jobs) \in Nat
          /\ \A i \in 1 .. Len(jobs) : jobs'[i] = jobs[i]
          /\ jobs'[Len(jobs) + 1] = e
      BY <2>1, <2>2 DEF QueueInv
    <2>4. UNCHANGED workerVars
      BY <1>1 DEF SourcePush
    <2>5. HeldJobs'
      <3>1. \A i \in 1 .. Len(jobs') :
               jobs'[i].state \in {"queued", "running"} => jobs'[i].attempts <= MaxRetries
        <4> SUFFICES ASSUME NEW i \in 1 .. Len(jobs')
                     PROVE  jobs'[i].state \in {"queued", "running"}
                              => jobs'[i].attempts <= MaxRetries
          OBVIOUS
        <4>1. i \in 1 .. Len(jobs) \/ i = Len(jobs) + 1
          BY <2>3
        <4> QED BY <2>1, <2>3, <4>1 DEF QueueInv, HeldJobs
      <3>2. \A v \in Workers : stage'[v] # "idle" => jobs'[current'[v]].state = "running"
        BY <2>3, <2>4 DEF QueueInv, HeldJobs, workerVars
      <3> QED BY <2>4, <3>1, <3>2 DEF QueueInv, HeldJobs, workerVars
    <2>6. QueueInv'
      BY <2>3, <2>4, <2>5 DEF QueueInv, workerVars
    <2> QED BY <1>1, <2>6 DEF SourcePush, StoreInv, cacheVars, encVars, githubVars, budgetVars
  <1>2. ASSUME NEW w \in Workers, PushUnacknowledged(w)
        PROVE  TypeInv'
    <2>1. QueueInv'
      BY <1>2, JobErrorKeepsQueueInv DEF PushUnacknowledged
    <2>2. faults' \in 0 .. MaxFaults
      BY <1>2, PipelineAssumption DEF PushUnacknowledged, StoreInv
    <2> QED BY <1>2, <2>1, <2>2 DEF PushUnacknowledged, StoreInv, cacheVars, encVars
  <1>3. ASSUME NEW w \in Workers, Fault(w)
        PROVE  TypeInv'
    <2>1. QueueInv'
      BY <1>3, JobErrorKeepsQueueInv DEF Fault
    <2>2. faults' \in 0 .. MaxFaults
      BY <1>3, PipelineAssumption DEF Fault, StoreInv
    <2>3. bare' \in {"absent", "unconfigured", "ready"} /\ objs' \in SUBSET Commits
          /\ refLock' \in BOOLEAN
      BY <1>3 DEF Fault, StoreInv, cacheVars
    <2> QED BY <1>3, <2>1, <2>2, <2>3 DEF Fault, StoreInv, encVars, githubVars
  <1>4. ASSUME Restart PROVE TypeInv'
    <2>1. restarts' \in 0 .. MaxRestarts
      BY <1>4, PipelineAssumption DEF Restart, StoreInv
    <2>2. indexLock' \in BOOLEAN /\ refLock' \in BOOLEAN
      BY <1>4 DEF Restart, StoreInv
    <2> QED BY <1>4, <2>1, <2>2, ProcessEndsKeepsQueueInv
            DEF Restart, StoreInv, cacheVars, githubVars
  <1>5. ASSUME LoseCache PROVE TypeInv'
    <2>1. era' \in 0 .. MaxEras /\ restarts' \in 0 .. MaxRestarts
      BY <1>5, PipelineAssumption DEF LoseCache, StoreInv
    <2>2. EmptyTree \in Trees /\ <<>> \in Seq(Entries)
      BY EmptySeq DEF EmptyTree, Trees
    <2>3. QueueInv'
      BY <1>5, ProcessEndsKeepsQueueInv DEF LoseCache
    <2>4. StoreInv'
      BY <1>5, <2>1, <2>2, Zenon DEF LoseCache, StoreInv, githubVars, budgetVars
    <2> QED BY <2>3, <2>4
  <1>6. CASE UNCHANGED vars
    BY <1>6 DEF vars, QueueInv, StoreInv, HeldJobs, cacheVars, encVars, githubVars,
                workerVars, budgetVars
  <1> QED BY <1>1, <1>2, <1>3, <1>4, <1>5, <1>6, StepKeepsTypeInv DEF Next

(***************************************************************************)
(* Every state of the service is well typed: no job is attempted more than *)
(* MaxRetries + 1 times, no worker holds a job that does not exist or runs *)
(* past its list of commits.                                               *)
(***************************************************************************)
THEOREM TypeCorrect == Spec => []TypeOK
  <1>1. Spec => []TypeInv
    BY TypeInvInit, NextKeepsTypeInv, PTL DEF Spec
  <1> QED BY <1>1, TypeInvImpliesTypeOK, PTL

(***************************************************************************)
(* A worker's step takes a job, ends what it does with one, or goes on.    *)
(***************************************************************************)
GoesOn(w) ==
    /\ stage[w] # "idle" /\ stage'[w] # "idle" /\ UNCHANGED <<jobs, current>>
    /\ \A v \in Workers \ {w} : stage'[v] = stage[v]

LEMMA StepKinds ==
  ASSUME TypeInv, NEW w \in Workers, Step(w)
  PROVE  TakeJob(w) \/ (stage[w] # "idle" /\ (Succeed(w) \/ JobError(w))) \/ GoesOn(w)
  <1> USE DEF TypeInv, QueueInv, GoesOn
  <1>1. CASE \/ CheckMirror(w) \/ Fetch(w) \/ RefLocked(w)
             \/ StartClone(w) \/ ConfigureClone(w) \/ FinishClone(w)
             \/ ResolveCommit(w) \/ InitWorkingRepo(w) \/ StartInit(w) \/ FinishInit(w)
    BY <1>1 DEF CheckMirror, Fetch, RefLocked, StartClone, ConfigureClone, FinishClone, ResolveCommit,
                InitWorkingRepo, StartInit, FinishInit, Goto
  <1>2. CASE ListCommits(w)
    BY <1>2 DEF ListCommits
  <1>3. CASE ClearWorkingTree(w) \/ EncryptFiles(w) \/ WriteManifest(w) \/ StageAll(w)
    BY <1>3 DEF ClearWorkingTree, EncryptFiles, WriteManifest, StageAll, Goto
  <1>4. CASE CommitStaged(w) \/ IndexLocked(w) \/ PushCollides(w)
    BY <1>4 DEF CommitStaged, IndexLocked, PushCollides
  <1>5. CASE SkipPush(w) \/ CheckRepository(w) \/ CreateRepository(w) \/ PushWorkingRepo(w)
    BY <1>5 DEF SkipPush, CheckRepository, CreateRepository, PushWorkingRepo, Goto
  <1> QED BY <1>1, <1>2, <1>3, <1>4, <1>5 DEF Step

(***************************************************************************)
(* The order of the history.                                               *)
(***************************************************************************)
Mirrored == {log[i].src : i \in 1 .. Len(log)}

\* Nothing ahead of a worker needs anything but what is mirrored and what
\* the same worker mirrors first.
ReadyAhead(w) ==
    \A i \in next[w] .. Len(commits[w]) : \A d \in Ancestors[commits[w][i]] :
        d \in Mirrored \/ \E k \in next[w] .. i : commits[w][k] = d

HistoryInv ==
    /\ \A i \in 1 .. Len(log) : \A d \in Ancestors[log[i].src] :
          \E k \in 1 .. i : log[k].src = d
    /\ \A i \in 1 .. Len(log) : log[i].trailer \in {None, NoObject} \cup Ancestors[log[i].src]
    /\ \A w \in Workers : stage[w] \in InLoop => ReadyAhead(w)

LEMMA SourcesOfLog ==
  ASSUME NEW l \in Seq(Entries)
  PROVE  /\ Len(Sources(l)) = Len(l)
         /\ \A i \in 1 .. Len(l) : Sources(l)[i] = l[i].src
         /\ Listed(Sources(l)) = {l[i].src : i \in 1 .. Len(l)}
  <1>1. Len(l) \in Nat
    BY LenProperties
  <1>2. Len(Sources(l)) = Len(l) /\ \A i \in 1 .. Len(l) : Sources(l)[i] = l[i].src
    BY <1>1 DEF Sources
  <1> QED BY <1>2 DEF Listed

LEMMA HistoryInvImpliesAncestorsMirrored ==
  ASSUME TypeInv, HistoryInv
  PROVE  AncestorsMirrored
  <1>1. log \in Seq(Entries) /\ Len(log) \in Nat
    BY LenProperties DEF TypeInv, StoreInv
  <1>2. SUFFICES ASSUME NEW i \in 1 .. Len(log), NEW d \in Ancestors[log[i].src]
                 PROVE  \E k \in 1 .. i : Sources(log)[k] = d
    BY <1>1, SourcesOfLog DEF AncestorsMirrored, AncestorClosed
  <1>3. PICK k \in 1 .. i : log[k].src = d
    BY <1>2 DEF HistoryInv
  <1>4. k \in 1 .. Len(log)
    BY <1>1, <1>3
  <1> QED BY <1>1, <1>3, <1>4, SourcesOfLog

\* A step that leaves the log alone and starts no loop changes nothing.
LEMMA HistoryFrame ==
  ASSUME HistoryInv, log' = log,
         \A w \in Workers : stage'[w] \in InLoop =>
             stage[w] \in InLoop /\ commits'[w] = commits[w] /\ next'[w] = next[w]
  PROVE  HistoryInv'
  <1>1. \A i \in 1 .. Len(log') : \A d \in Ancestors[log'[i].src] :
            \E k \in 1 .. i : log'[k].src = d
    BY DEF HistoryInv
  <1>2. \A i \in 1 .. Len(log') : log'[i].trailer \in {None, NoObject} \cup Ancestors[log'[i].src]
    BY DEF HistoryInv
  <1>3. ASSUME NEW w \in Workers, stage'[w] \in InLoop PROVE ReadyAhead(w)'
    <2>1. ReadyAhead(w) /\ commits'[w] = commits[w] /\ next'[w] = next[w]
      BY <1>3 DEF HistoryInv
    <2>2. Mirrored' = Mirrored
      BY DEF Mirrored
    <2> QED BY <2>1, <2>2 DEF ReadyAhead
  <1> QED BY <1>1, <1>2, <1>3 DEF HistoryInv

(***************************************************************************)
(* With dates that grow along ancestry, rev-list is a topological order.   *)
(***************************************************************************)
LEMMA RevListTopological ==
  ASSUME StrictDates, NEW t \in Commits, NEW range \in SUBSET Ancestors[t],
         NEW s \in RevListOrders(range),
         NEW i \in 1 .. Len(s), NEW d \in Ancestors[s[i]] \cap range
  PROVE  \E k \in 1 .. i : s[k] = d
  <1>1. /\ s \in Seq(Commits) /\ DOMAIN s = 1 .. Len(s) /\ Len(s) \in Nat
        /\ {s[k] : k \in 1 .. Len(s)} = range
    BY RevListOrdersType, LenProperties
  <1>2. PICK j \in 1 .. Len(s) : s[j] = d
    BY <1>1
  <1>3. CASE j <= i
    BY <1>1, <1>2, <1>3
  <1>4. CASE d = s[i]
    BY <1>1, <1>4
  <1>5. CASE i < j /\ d # s[i]
    <2>1. PICK e \in range : s[i] \in Ancestors[e] /\ Date[e] <= Date[d]
      BY <1>1, <1>2, <1>5 DEF RevListOrders
    <2>2. e \in Commits /\ s[i] \in Commits /\ d \in Commits
      BY <1>1, <1>2, ElementOfSeq, CommitGraphAssumption
    <2>3. Date[d] < Date[s[i]]
      BY <1>5, <2>2 DEF StrictDates
    <2>4. Date[s[i]] <= Date[e]
      BY <2>1, <2>2, CommitGraphAssumption DEF StrictDates
    <2>5. Date[d] \in Nat /\ Date[s[i]] \in Nat /\ Date[e] \in Nat
      BY <2>2, CommitGraphAssumption
    <2> QED BY <2>1, <2>3, <2>4, <2>5
  <1> QED BY <1>1, <1>3, <1>4, <1>5

\* Whatever the trailer of an encrypted commit reaches, the commit it is
\* labelled with reaches too.
LEMMA TrailerReaches ==
  ASSUME HistoryInv, log \in Seq(Entries), NEW i \in 1 .. Len(log),
         log[i].trailer \notin {None, NoObject}, NEW d \in Ancestors[log[i].trailer]
  PROVE  d \in Ancestors[log[i].src]
  <1>1. log[i].src \in Commits
    <2>1. log[i] \in Entries
      BY ElementOfSeq
    <2> QED BY <2>1 DEF Entries
  <1>2. log[i].trailer \in Ancestors[log[i].src]
    BY DEF HistoryInv
  <1>3. Ancestors[log[i].trailer] \subseteq Ancestors[log[i].src]
    BY <1>1, <1>2, CommitGraphAssumption
  <1> QED BY <1>3

\* What a worker is about to mirror needs only that and what is mirrored.
LEMMA ResumeIsReady ==
  ASSUME StrictDates, HistoryInv, log \in Seq(Entries), LastSourceCommit # NoObject,
         NEW t \in Commits, NEW s \in RevListOrders(Ancestors[t] \ Reach({LastSourceCommit})),
         NEW i \in 1 .. Len(s), NEW d \in Ancestors[s[i]]
  PROVE  d \in Mirrored \/ \E k \in 1 .. i : s[k] = d
  <1> DEFINE range == Ancestors[t] \ Reach({LastSourceCommit})
  <1>1. range \in SUBSET Ancestors[t] /\ s \in RevListOrders(range)
    OBVIOUS
  <1>2. d \in Ancestors[t] /\ s[i] \in Ancestors[t]
    <2>1. {s[k] : k \in 1 .. Len(s)} = range
      BY <1>1, RevListOrdersType
    <2>2. s[i] \in Ancestors[t]
      BY <2>1
    <2> QED BY <2>2, CommitGraphAssumption
  <1>3. CASE d \in range
    <2> HIDE DEF range
    <2>1. d \in Ancestors[s[i]] \cap range
      BY <1>3
    <2> QED BY <1>1, <2>1, RevListTopological
  <1>4. CASE d \in Reach({LastSourceCommit})
    <2>1. LastSourceCommit # None /\ d \in Ancestors[LastSourceCommit]
      BY <1>4 DEF Reach
    <2>2. log # <<>> /\ LastSourceCommit = log[Len(log)].trailer
      BY <2>1 DEF LastSourceCommit
    <2>3. Len(log) \in 1 .. Len(log)
      BY <2>2, EmptySeq, LenProperties
    <2>4. d \in Ancestors[log[Len(log)].src]
      BY <2>1, <2>2, <2>3, TrailerReaches
    <2> QED BY <2>3, <2>4 DEF HistoryInv, Mirrored
  <1> QED BY <1>2, <1>3, <1>4

\* A worker that lists has read a resume point that <repo>.git knows.
LEMMA LastIsAnObject ==
  ASSUME TypeInv, NEW w \in Workers, ListCommits(w), ~JobError(w)
  PROVE  LastSourceCommit \in Commits \cup {None} /\ LastSourceCommit # NoObject
  BY PipelineAssumption DEF ListCommits, TypeInv, StoreInv

LEMMA ListCommitsKeepsHistory ==
  ASSUME StrictDates, TypeInv, HistoryInv, NEW w \in Workers, ListCommits(w)
  PROVE  HistoryInv'
  <1>1. stage[w] = "list" /\ log' = log /\ log \in Seq(Entries) /\ Len(log) \in Nat
    BY LenProperties DEF ListCommits, encVars, TypeInv, StoreInv
  <1>2. CASE JobError(w)
    <2>1. /\ stage' = [stage EXCEPT ![w] = "idle"]
          /\ commits' = [commits EXCEPT ![w] = <<>>] /\ next' = [next EXCEPT ![w] = 1]
      BY <1>2 DEF JobError, Leave
    <2> QED BY <1>1, <2>1, HistoryFrame DEF InLoop, TypeInv, QueueInv
  <1>3. CASE ~JobError(w)
    <2>1. PICK s \in RevListOrders(Ancestors[Job(w).commit] \ Reach({LastSourceCommit})) :
             /\ commits' = [commits EXCEPT ![w] = s]
             /\ stage' = [stage EXCEPT ![w] = IF s = <<>> THEN "destination" ELSE "clear"]
      BY <1>3 DEF ListCommits
    <2>2. next' = [next EXCEPT ![w] = 1]
      BY <1>3 DEF ListCommits
    <2>3. Job(w).commit \in Commits
      <3>1. current[w] \in 1 .. Len(jobs) /\ jobs \in Seq(Jobs)
        BY <1>1 DEF TypeInv, QueueInv
      <3>2. Job(w) \in Jobs
        BY <3>1, ElementOfSeq DEF Job
      <3> QED BY <3>2 DEF Jobs
    <2>4. s \in Seq(Commits)
      BY <2>3, RevListOrdersType
    <2>5. \A i \in 1 .. Len(s) : \A d \in Ancestors[s[i]] :
             d \in Mirrored \/ \E k \in 1 .. i : s[k] = d
      BY <1>1, <1>3, <2>3, ResumeIsReady, LastIsAnObject
    <2>6. ASSUME NEW v \in Workers, stage'[v] \in InLoop PROVE ReadyAhead(v)'
      <3>1. SUFFICES ASSUME NEW i \in next'[v] .. Len(commits'[v]),
                            NEW d \in Ancestors[commits'[v][i]]
                     PROVE  d \in Mirrored' \/ \E k \in next'[v] .. i : commits'[v][k] = d
        BY DEF ReadyAhead
      <3>2. Mirrored' = Mirrored
        BY <1>1 DEF Mirrored
      <3>3. CASE v = w
        <4>1. commits'[w] = s /\ next'[w] = 1
          BY <2>1, <2>2 DEF TypeInv, QueueInv
        <4> QED BY <2>5, <3>1, <3>2, <3>3, <4>1
      <3>4. CASE v # w
        <4>1. commits'[v] = commits[v] /\ next'[v] = next[v] /\ stage'[v] = stage[v]
          BY <2>1, <2>2, <3>4 DEF TypeInv, QueueInv
        <4>2. ReadyAhead(v)
          BY <2>6, <4>1 DEF HistoryInv
        <4> QED BY <3>1, <3>2, <4>1, <4>2 DEF ReadyAhead
      <3> QED BY <3>3, <3>4
    <2> QED BY <1>1, <2>6 DEF HistoryInv
  <1> QED BY <1>2, <1>3

LEMMA TrailerIsNotForeign ==
  ASSUME NoForeignTrailers, NEW c \in Commits
  PROVE  Trailer(c) \in {None, NoObject} \cup Ancestors[c]
  <1>1. c \in Ancestors[c]
    BY CommitGraphAssumption
  <1> QED BY <1>1 DEF NoForeignTrailers, Trailer

LEMMA CommitStagedKeepsHistory ==
  ASSUME NoForeignTrailers, TypeInv, HistoryInv, NEW w \in Workers, CommitStaged(w)
  PROVE  HistoryInv'
  <1> DEFINE c == Commit(w)
             n == Len(log)
  <1>1. /\ stage[w] = "commit" /\ log' = Append(log, Entry(c))
        /\ next' = [next EXCEPT ![w] = next[w] + 1]
        /\ stage' = [stage EXCEPT ![w] = IF next[w] < Len(commits[w]) THEN "clear" ELSE "destination"]
        /\ commits' = commits
    BY DEF CommitStaged, AppendToLog
  <1>2. c \in Commits /\ c = commits[w][next[w]]
    BY <1>1, CommitType DEF TypeInv, InLoop, Commit
  <1>3. /\ Entry(c) \in Entries /\ Entry(c).src = c
        /\ Entry(c).trailer \in {None, NoObject} \cup Ancestors[c]
    <2>1. Entry(c) \in Entries
      BY <1>2, EntryType DEF TypeInv
    <2>2. Trailer(c) \in {None, NoObject} \cup Ancestors[c]
      BY <1>2, TrailerIsNotForeign
    <2> QED BY <2>1, <2>2 DEF Entry
  <1> HIDE DEF c
  <1>4. /\ log \in Seq(Entries) /\ n \in Nat /\ Len(log') = n + 1
        /\ \A i \in 1 .. n : log'[i] = log[i]
        /\ log'[n + 1] = Entry(c)
    BY <1>1, <1>3 DEF TypeInv, StoreInv
  <1> HIDE DEF n
  <1>5. Mirrored' = Mirrored \cup {c}
    <2>1. Mirrored = {log[i].src : i \in 1 .. n}
      BY DEF Mirrored, n
    <2>2. Mirrored' = {log'[i].src : i \in 1 .. n + 1}
      BY <1>4 DEF Mirrored
    <2>3. Mirrored' = {log'[i].src : i \in 1 .. n} \cup {log'[n + 1].src}
      BY <1>4, <2>2
    <2> QED BY <1>3, <1>4, <2>1, <2>3
  <1>6. next[w] \in 1 .. Len(commits[w]) /\ Len(commits[w]) \in Nat /\ ReadyAhead(w)
    BY <1>1, LenProperties DEF TypeInv, QueueInv, HistoryInv, InLoop
  <1>7. \A d \in Ancestors[c] : d \in Mirrored \/ d = c
    BY <1>2, <1>6 DEF ReadyAhead
  <1>8. ASSUME NEW i \in 1 .. Len(log'), NEW d \in Ancestors[log'[i].src]
        PROVE  \E k \in 1 .. i : log'[k].src = d
    <2>1. CASE i \in 1 .. n
      <3>1. PICK k \in 1 .. i : log[k].src = d
        BY <1>4, <1>8, <2>1 DEF HistoryInv, n
      <3> QED BY <1>4, <2>1, <3>1
    <2>2. CASE i = n + 1
      <3>1. d \in Ancestors[c]
        BY <1>3, <1>4, <1>8, <2>2
      <3>2. CASE d = c
        BY <1>3, <1>4, <2>2, <3>2
      <3>3. CASE d \in Mirrored
        <4>1. PICK k \in 1 .. n : log[k].src = d
          BY <3>3 DEF Mirrored, n
        <4> QED BY <1>4, <2>2, <4>1
      <3> QED BY <1>7, <3>1, <3>2, <3>3
    <2> QED BY <1>4, <2>1, <2>2
  <1>9. ASSUME NEW i \in 1 .. Len(log')
        PROVE  log'[i].trailer \in {None, NoObject} \cup Ancestors[log'[i].src]
    <2>1. CASE i \in 1 .. n
      BY <1>4, <2>1 DEF HistoryInv, n
    <2>2. CASE i = n + 1
      BY <1>3, <1>4, <2>2
    <2> QED BY <1>4, <2>1, <2>2
  <1>10. ASSUME NEW v \in Workers, stage'[v] \in InLoop
         PROVE  ReadyAhead(v)'
    <2>1. SUFFICES ASSUME NEW i \in next'[v] .. Len(commits'[v]),
                          NEW d \in Ancestors[commits'[v][i]]
                   PROVE  d \in Mirrored' \/ \E k \in next'[v] .. i : commits'[v][k] = d
      BY DEF ReadyAhead
    <2>2. CASE v = w
      <3>1. next'[w] = next[w] + 1 /\ i \in next[w] .. Len(commits[w])
        BY <1>1, <1>6, <2>1, <2>2 DEF TypeInv, QueueInv
      <3>2. d \in Mirrored \/ \E k \in next[w] .. i : commits[w][k] = d
        BY <1>1, <1>6, <2>1, <2>2, <3>1 DEF ReadyAhead
      <3>3. ASSUME NEW k \in next[w] .. i, commits[w][k] = d, k # next[w]
            PROVE  k \in next'[w] .. i
        BY <1>6, <3>1, <3>3
      <3> QED BY <1>1, <1>2, <1>5, <2>2, <3>2, <3>3
    <2>3. CASE v # w
      <3>1. stage[v] \in InLoop /\ next'[v] = next[v]
        BY <1>1, <1>10, <2>3 DEF TypeInv, QueueInv
      <3>2. ReadyAhead(v)
        BY <3>1 DEF HistoryInv
      <3> QED BY <1>1, <1>5, <2>1, <3>1, <3>2 DEF ReadyAhead
    <2> QED BY <2>2, <2>3
  <1> QED BY <1>8, <1>9, <1>10 DEF HistoryInv

LEMMA GotoKeepsHistory ==
  ASSUME TypeInv, HistoryInv, log' = log, NEW w \in Workers, NEW s,
         Goto(w, s), s \in InLoop => stage[w] \in InLoop
  PROVE  HistoryInv'
  BY HistoryFrame DEF Goto, TypeInv, QueueInv

LEMMA LeaveKeepsHistory ==
  ASSUME TypeInv, HistoryInv, log' = log, NEW w \in Workers, Leave(w)
  PROVE  HistoryInv'
  BY HistoryFrame DEF Leave, TypeInv, QueueInv, InLoop

LEMMA StepKeepsHistory ==
  ASSUME StrictDates, NoForeignTrailers, TypeInv, HistoryInv, NEW w \in Workers, Step(w)
  PROVE  HistoryInv'
  <1>1. CASE TakeJob(w)
    <2>1. log' = log /\ commits' = commits /\ next' = next
          /\ stage' = [stage EXCEPT ![w] = "ensureMirror"]
      BY <1>1 DEF TakeJob, encVars
    <2> QED BY <2>1, HistoryFrame DEF TypeInv, QueueInv, InLoop
  <1>2. CASE \/ CheckMirror(w) \/ Fetch(w) \/ RefLocked(w)
             \/ StartClone(w) \/ ConfigureClone(w) \/ FinishClone(w)
    <2>1. /\ log' = log
          /\ \/ \E s \in {"fetch", "startClone", "resolve", "clone", "download"} : Goto(w, s)
             \/ Leave(w)
      BY <1>2 DEF CheckMirror, Fetch, RefLocked, StartClone, ConfigureClone, FinishClone, encVars, JobError
    <2> QED BY <2>1, GotoKeepsHistory, LeaveKeepsHistory DEF InLoop
  <1>3. CASE ResolveCommit(w)
    <2>1. log' = log /\ (Goto(w, "init") \/ Leave(w))
      BY <1>3 DEF ResolveCommit, encVars, JobError
    <2> QED BY <2>1, GotoKeepsHistory, LeaveKeepsHistory DEF InLoop
  <1>4. CASE ListCommits(w)
    BY <1>4, ListCommitsKeepsHistory
  <1>5. CASE ClearWorkingTree(w)
    BY <1>5, GotoKeepsHistory DEF ClearWorkingTree, InLoop
  <1>6. CASE EncryptFiles(w)
    BY <1>6, GotoKeepsHistory DEF EncryptFiles, InLoop
  <1>7. CASE WriteManifest(w)
    BY <1>7, GotoKeepsHistory DEF WriteManifest, InLoop
  <1>8. CASE StageAll(w)
    BY <1>8, GotoKeepsHistory DEF StageAll, InLoop
  <1>9. CASE CommitStaged(w)
    BY <1>9, CommitStagedKeepsHistory
  <1>10. CASE IndexLocked(w) \/ PushCollides(w)
    BY <1>10, LeaveKeepsHistory DEF IndexLocked, PushCollides, JobError, encVars
  <1>11. CASE SkipPush(w)
    BY <1>11, LeaveKeepsHistory DEF SkipPush, Succeed, encVars
  <1>12. CASE CheckRepository(w)
    <2>1. log' = log /\ (Goto(w, "create") \/ Goto(w, "push"))
      BY <1>12 DEF CheckRepository, encVars
    <2> QED BY <2>1, GotoKeepsHistory DEF InLoop
  <1>13. CASE CreateRepository(w)
    <2>1. log' = log /\ (Goto(w, "push") \/ Leave(w))
      BY <1>13 DEF CreateRepository, encVars, JobError
    <2> QED BY <2>1, GotoKeepsHistory, LeaveKeepsHistory DEF InLoop
  <1>14. CASE PushWorkingRepo(w)
    <2>1. log' = log /\ Leave(w)
      BY <1>14 DEF PushWorkingRepo, encVars, JobError, Succeed
    <2> QED BY <2>1, LeaveKeepsHistory
  <1>15. CASE InitWorkingRepo(w) \/ StartInit(w) \/ FinishInit(w)
    <2>1. /\ log' = log
          /\ \/ \E s \in {"initialise", "finishInit", "list"} : Goto(w, s)
             \/ Leave(w)
      BY <1>15 DEF InitWorkingRepo, StartInit, FinishInit, JobError, encVars
    <2> QED BY <2>1, GotoKeepsHistory, LeaveKeepsHistory DEF InLoop
  <1> QED BY <1>1, <1>2, <1>3, <1>4, <1>5, <1>6, <1>7, <1>8, <1>9, <1>10, <1>11, <1>12,
             <1>13, <1>14, <1>15 DEF Step

LEMMA NextKeepsHistory ==
  ASSUME StrictDates, NoForeignTrailers, TypeInv, HistoryInv, [Next]_vars
  PROVE  HistoryInv'
  <1>1. ASSUME NEW b \in Branches, NEW c \in Commits, SourcePush(b, c)
        PROVE  HistoryInv'
    BY <1>1, HistoryFrame DEF SourcePush, encVars, workerVars
  <1>2. ASSUME NEW w \in Workers, PushUnacknowledged(w) \/ Fault(w)
        PROVE  HistoryInv'
    BY <1>2, LeaveKeepsHistory DEF PushUnacknowledged, Fault, JobError, encVars
  <1>3. CASE Restart
    BY <1>3, HistoryFrame DEF Restart, ProcessEnds, InLoop
  <1>4. CASE LoseCache
    <2>1. log' = <<>> /\ Len(log') = 0
      BY <1>4, EmptySeq DEF LoseCache
    <2>2. \A w \in Workers : stage'[w] \notin InLoop
      BY <1>4 DEF LoseCache, ProcessEnds, InLoop
    <2> QED BY <2>1, <2>2 DEF HistoryInv
  <1>5. CASE UNCHANGED vars
    BY <1>5, HistoryFrame DEF vars, encVars, workerVars
  <1> QED BY <1>1, <1>2, <1>3, <1>4, <1>5, StepKeepsHistory DEF Next

LEMMA HistoryInvInit == Init => HistoryInv
  <1> SUFFICES ASSUME Init PROVE HistoryInv
    OBVIOUS
  <1>1. log = <<>> /\ Len(log) = 0
    BY EmptySeq DEF Init
  <1>2. \A w \in Workers : stage[w] \notin InLoop
    BY DEF Init, InLoop
  <1> QED BY <1>1, <1>2 DEF HistoryInv

(***************************************************************************)
(* If commits are dated strictly after what they reach and no message      *)
(* names, as its Source-Commit, a commit that its own does not reach, then *)
(* whatever the workers, failures, restarts and losses of the cache, no    *)
(* commit enters the encrypted history before something it reaches:        *)
(* resuming skips nothing.                                                 *)
(***************************************************************************)
THEOREM ResumeSkipsNothing ==
  ASSUME StrictDates, NoForeignTrailers
  PROVE  Spec => []AncestorsMirrored
  <1>1. TypeInv /\ HistoryInv /\ [Next]_vars => (TypeInv /\ HistoryInv)'
    BY NextKeepsTypeInv, NextKeepsHistory
  <1>2. Init => TypeInv /\ HistoryInv
    BY TypeInvInit, HistoryInvInit
  <1>3. TypeInv /\ HistoryInv => AncestorsMirrored
    BY HistoryInvImpliesAncestorsMirrored
  <1> QED BY <1>1, <1>2, <1>3, PTL DEF Spec

=============================================================================
