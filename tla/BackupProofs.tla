---------------------------- MODULE BackupProofs ----------------------------
(***************************************************************************)
(* MirrorPipeline implements BackupHistory, for every commit graph whose   *)
(* dates grow along ancestry, any number of workers, branches, jobs,       *)
(* failures, restarts and losses of the cache.                             *)
(***************************************************************************)
EXTENDS MirrorPipelineProofs

(***************************************************************************)
(* What makes a job's success true: while a worker runs the loop, whatever *)
(* its job's commit reaches is mirrored or ahead of it in its own list;    *)
(* after the loop all of it is mirrored, whatever other workers did.       *)
(***************************************************************************)
AfterLoop == {"destination", "create", "push"}

Ahead(w) == {commits[w][k] : k \in next[w] .. Len(commits[w])}

Covered ==
    \A w \in Workers :
        /\ stage[w] \in InLoop => Ancestors[Job(w).commit] \subseteq Mirrored \cup Ahead(w)
        /\ stage[w] \in AfterLoop => Ancestors[Job(w).commit] \subseteq Mirrored
        /\ stage[w] \in {"create", "push"} => pushEnabled

BInv == TypeInv /\ HistoryInv /\ Covered

(***************************************************************************)
(* What a step does to the jobs.                                           *)
(***************************************************************************)
JobsKept ==
    /\ Len(jobs) \in Nat /\ Len(jobs') \in Nat /\ Len(jobs) <= Len(jobs')
    /\ \A j \in 1 .. Len(jobs) :
          jobs'[j].branch = jobs[j].branch /\ jobs'[j].commit = jobs[j].commit

SameSuccesses ==
    \A j \in 1 .. Len(jobs') :
        jobs'[j].state = "succeeded" <=> j \in 1 .. Len(jobs) /\ jobs[j].state = "succeeded"

LEMMA UnchangedJobs ==
  ASSUME TypeInv, jobs' = jobs
  PROVE  JobsKept /\ SameSuccesses
  BY LenProperties DEF TypeInv, QueueInv, JobsKept, SameSuccesses

LEMMA JobErrorJobs ==
  ASSUME TypeInv, NEW w \in Workers, stage[w] # "idle", JobError(w)
  PROVE  JobsKept /\ SameSuccesses
  <1> DEFINE j == current[w]
             e == AfterError(jobs[j])
  <1>1. j \in 1 .. Len(jobs) /\ jobs[j].state = "running" /\ jobs[j].attempts <= MaxRetries
    BY DEF TypeInv, QueueInv, HeldJobs
  <1>2. jobs[j] \in Jobs /\ jobs \in Seq(Jobs) /\ Len(jobs) \in Nat
    BY <1>1, ElementOfSeq, LenProperties DEF TypeInv, QueueInv
  <1>3. e \in Jobs /\ e.state \in {"queued", "failed"}
    BY <1>1, <1>2, AfterErrorType
  <1>4. e.branch = jobs[j].branch /\ e.commit = jobs[j].commit
    BY <1>2 DEF AfterError, Attempted, Jobs
  <1>5. jobs' = [jobs EXCEPT ![j] = e]
    BY DEF JobError, Job
  <1> HIDE DEF e
  <1>6. /\ Len(jobs') = Len(jobs)
        /\ \A i \in 1 .. Len(jobs) : jobs'[i] = IF i = j THEN e ELSE jobs[i]
    BY <1>1, <1>2, <1>3, <1>5, JobUpdate
  <1> QED BY <1>1, <1>2, <1>3, <1>4, <1>6 DEF JobsKept, SameSuccesses

LEMMA SucceedJobs ==
  ASSUME TypeInv, NEW w \in Workers, stage[w] # "idle", Succeed(w)
  PROVE  /\ JobsKept /\ Len(jobs') = Len(jobs)
         /\ \A j \in 1 .. Len(jobs') :
               jobs'[j].state = "succeeded" <=> jobs[j].state = "succeeded" \/ j = current[w]
  <1> DEFINE j == current[w]
             e == [jobs[j] EXCEPT !.state = "succeeded"]
  <1>1. j \in 1 .. Len(jobs) /\ jobs \in Seq(Jobs) /\ jobs[j] \in Jobs /\ Len(jobs) \in Nat
    BY ElementOfSeq, LenProperties DEF TypeInv, QueueInv
  <1>2. /\ e \in Jobs /\ e.state = "succeeded"
        /\ e.branch = jobs[j].branch /\ e.commit = jobs[j].commit
    BY <1>1 DEF Jobs, JobStates
  <1>3. jobs' = [jobs EXCEPT ![j] = e]
    BY DEF Succeed
  <1> HIDE DEF e
  <1>4. /\ Len(jobs') = Len(jobs)
        /\ \A i \in 1 .. Len(jobs) : jobs'[i] = IF i = j THEN e ELSE jobs[i]
    BY <1>1, <1>2, <1>3, JobUpdate
  <1> QED BY <1>1, <1>2, <1>4 DEF JobsKept

LEMMA TakeJobJobs ==
  ASSUME TypeInv, NEW w \in Workers, TakeJob(w)
  PROVE  JobsKept /\ SameSuccesses
  <1>1. PICK j \in 1 .. Len(jobs) :
           jobs[j].state = "queued" /\ jobs' = [jobs EXCEPT ![j].state = "running"]
    BY DEF TakeJob
  <1> DEFINE e == [jobs[j] EXCEPT !.state = "running"]
  <1>2. jobs \in Seq(Jobs) /\ jobs[j] \in Jobs /\ Len(jobs) \in Nat
    BY ElementOfSeq, LenProperties, <1>1 DEF TypeInv, QueueInv
  <1>3. /\ e \in Jobs /\ e.state = "running"
        /\ e.branch = jobs[j].branch /\ e.commit = jobs[j].commit
    BY <1>2 DEF Jobs, JobStates
  <1>4. jobs' = [jobs EXCEPT ![j] = e]
    BY <1>1
  <1> HIDE DEF e
  <1>5. /\ Len(jobs') = Len(jobs)
        /\ \A i \in 1 .. Len(jobs) : jobs'[i] = IF i = j THEN e ELSE jobs[i]
    BY <1>2, <1>3, <1>4, JobUpdate
  <1> QED BY <1>1, <1>2, <1>3, <1>5 DEF JobsKept, SameSuccesses

LEMMA ProcessEndsJobs ==
  ASSUME TypeInv, ProcessEnds
  PROVE  JobsKept /\ SameSuccesses
  <1> DEFINE n == Len(jobs)
  <1>1. n \in Nat /\ jobs \in Seq(Jobs) /\ \A i \in 1 .. n : jobs[i] \in Jobs
    BY ElementOfSeq, LenProperties DEF TypeInv, QueueInv
  <1>2. jobs' = [i \in 1 .. n |-> IF jobs[i].state \in {"queued", "running"}
                                 THEN [jobs[i] EXCEPT !.state = "lost"] ELSE jobs[i]]
    BY DEF ProcessEnds
  <1>3. \A i \in 1 .. n : jobs'[i].branch = jobs[i].branch /\ jobs'[i].commit = jobs[i].commit
    BY <1>1, <1>2 DEF Jobs
  <1>4. \A i \in 1 .. n : jobs'[i].state = "succeeded" <=> jobs[i].state = "succeeded"
    BY <1>1, <1>2 DEF Jobs
  <1>5. Len(jobs') = n
    <2>1. jobs' \in Seq(Jobs)
      BY ProcessEndsKeepsQueueInv DEF TypeInv, QueueInv
    <2>2. DOMAIN jobs' = 1 .. n
      BY <1>2
    <2> QED BY <1>1, <2>1, <2>2, LenProperties
  <1> HIDE DEF n
  <1> QED BY <1>1, <1>3, <1>4, <1>5 DEF JobsKept, SameSuccesses, n

LEMMA SourcePushJobs ==
  ASSUME TypeInv, NEW b \in Branches, NEW c \in Commits, SourcePush(b, c)
  PROVE  JobsKept /\ SameSuccesses
  <1> DEFINE e == [branch |-> b, commit |-> c, attempts |-> 0, state |-> "queued"]
  <1>1. jobs \in Seq(Jobs) /\ jobs' = Append(jobs, e) /\ Len(jobs) \in Nat
    BY LenProperties DEF SourcePush, TypeInv, QueueInv
  <1>2. e \in Jobs /\ e.state # "succeeded"
    BY PipelineAssumption DEF Jobs, JobStates
  <1> HIDE DEF e
  <1>3. /\ Len(jobs') = Len(jobs) + 1 /\ jobs'[Len(jobs) + 1] = e
        /\ \A i \in 1 .. Len(jobs) : jobs'[i] = jobs[i]
    BY <1>1, <1>2, AppendProperties
  <1> QED BY <1>1, <1>2, <1>3 DEF JobsKept, SameSuccesses

(***************************************************************************)
(* Covered is kept.                                                        *)
(***************************************************************************)
LEMMA HeldJobKept ==
  ASSUME TypeInv, JobsKept, NEW w \in Workers, stage[w] # "idle", current'[w] = current[w]
  PROVE  Job(w)'.commit = Job(w).commit
  BY DEF TypeInv, QueueInv, JobsKept, Job

\* A step that takes no worker forward, into the loop or out of it.
LEMMA CoveredFrame ==
  ASSUME TypeInv, Covered, JobsKept, Mirrored \subseteq Mirrored', pushEnabled' = pushEnabled,
         \A w \in Workers : stage'[w] \in InLoop =>
             /\ stage[w] \in InLoop
             /\ current'[w] = current[w] /\ commits'[w] = commits[w] /\ next'[w] = next[w],
         \A w \in Workers : stage'[w] \in AfterLoop =>
             /\ stage[w] \in AfterLoop /\ current'[w] = current[w]
             /\ stage'[w] \in {"create", "push"} => pushEnabled
  PROVE  Covered'
  <1> SUFFICES ASSUME NEW w \in Workers
               PROVE  /\ stage'[w] \in InLoop => Ancestors[Job(w)'.commit] \subseteq Mirrored' \cup Ahead(w)'
                      /\ stage'[w] \in AfterLoop => Ancestors[Job(w)'.commit] \subseteq Mirrored'
                      /\ stage'[w] \in {"create", "push"} => pushEnabled'
    BY DEF Covered
  <1>1. CASE stage'[w] \in InLoop
    <2>1. Job(w)'.commit = Job(w).commit
      BY <1>1, HeldJobKept DEF InLoop
    <2>2. Ahead(w)' = Ahead(w)
      BY <1>1 DEF Ahead
    <2>3. stage'[w] \notin AfterLoop
      BY <1>1 DEF InLoop, AfterLoop
    <2> QED BY <1>1, <2>1, <2>2, <2>3 DEF Covered, AfterLoop
  <1>2. CASE stage'[w] \in AfterLoop
    <2>1. Job(w)'.commit = Job(w).commit
      BY <1>2, HeldJobKept DEF AfterLoop
    <2>2. stage'[w] \notin InLoop
      BY <1>2 DEF InLoop, AfterLoop
    <2> QED BY <1>2, <2>1, <2>2 DEF Covered, AfterLoop
  <1> QED BY <1>1, <1>2 DEF AfterLoop

LEMMA GotoKeepsCovered ==
  ASSUME TypeInv, Covered, NEW w \in Workers, NEW s, Goto(w, s),
         log' = log, UNCHANGED <<jobs, pushEnabled>>,
         s \in InLoop => stage[w] \in InLoop,
         s \in AfterLoop => stage[w] \in AfterLoop,
         s \in {"create", "push"} => pushEnabled
  PROVE  Covered'
  <1>1. JobsKept
    BY UnchangedJobs
  <1>2. Mirrored' = Mirrored
    BY DEF Mirrored
  <1>3. /\ stage' = [stage EXCEPT ![w] = s] /\ UNCHANGED <<current, commits, next>>
        /\ stage \in [Workers -> Stages]
    BY DEF Goto, TypeInv, QueueInv
  <1> QED BY <1>1, <1>2, <1>3, CoveredFrame DEF Covered, AfterLoop

LEMMA LeaveKeepsCovered ==
  ASSUME TypeInv, Covered, NEW w \in Workers, Leave(w), JobsKept,
         log' = log, pushEnabled' = pushEnabled
  PROVE  Covered'
  <1>1. Mirrored' = Mirrored
    BY DEF Mirrored
  <1>2. \A v \in Workers : /\ stage'[v] = IF v = w THEN "idle" ELSE stage[v]
                           /\ v # w => /\ current'[v] = current[v] /\ commits'[v] = commits[v]
                                       /\ next'[v] = next[v]
    BY DEF Leave, TypeInv, QueueInv
  <1> QED BY <1>1, <1>2, CoveredFrame DEF Covered, AfterLoop, InLoop

LEMMA JobErrorKeepsCovered ==
  ASSUME TypeInv, Covered, NEW w \in Workers, stage[w] # "idle", JobError(w),
         log' = log, pushEnabled' = pushEnabled
  PROVE  Covered'
  BY JobErrorJobs, LeaveKeepsCovered DEF JobError

LEMMA ListCommitsKeepsCovered ==
  ASSUME BInv, NEW w \in Workers, ListCommits(w)
  PROVE  Covered'
  <1>1. stage[w] = "list" /\ log' = log /\ pushEnabled' = pushEnabled /\ log \in Seq(Entries)
    BY DEF ListCommits, encVars, githubVars, BInv, TypeInv, StoreInv
  <1>2. CASE JobError(w)
    BY <1>1, <1>2, JobErrorKeepsCovered DEF BInv
  <1>3. CASE ~JobError(w)
    <2> DEFINE t == Job(w).commit
    <2>1. PICK s \in RevListOrders(Ancestors[t] \ Reach({LastSourceCommit})) :
             /\ commits' = [commits EXCEPT ![w] = s]
             /\ stage' = [stage EXCEPT ![w] = IF s = <<>> THEN "destination" ELSE "clear"]
      BY <1>3 DEF ListCommits
    <2>2. next' = [next EXCEPT ![w] = 1] /\ UNCHANGED <<jobs, current>>
      BY <1>3 DEF ListCommits
    <2>3. t \in Commits
      <3>1. current[w] \in 1 .. Len(jobs) /\ jobs \in Seq(Jobs)
        BY <1>1 DEF BInv, TypeInv, QueueInv
      <3>2. Job(w) \in Jobs
        BY <3>1, ElementOfSeq DEF Job
      <3> QED BY <3>2 DEF Jobs
    <2>4. s \in Seq(Commits) /\ {s[i] : i \in 1 .. Len(s)} = Ancestors[t] \ Reach({LastSourceCommit})
      BY <2>3, RevListOrdersType
    <2>5. Reach({LastSourceCommit}) \subseteq Mirrored
      <3> SUFFICES ASSUME NEW d \in Reach({LastSourceCommit}) PROVE d \in Mirrored
        OBVIOUS
      <3>1. LastSourceCommit \notin {None, NoObject} /\ d \in Ancestors[LastSourceCommit]
        BY <1>3, LastIsAnObject DEF Reach, BInv
      <3>2. log # <<>> /\ LastSourceCommit = log[Len(log)].trailer
        BY <3>1 DEF LastSourceCommit
      <3>3. Len(log) \in 1 .. Len(log)
        BY <1>1, <3>2, EmptySeq, LenProperties
      <3>4. d \in Ancestors[log[Len(log)].src]
        BY <1>1, <3>1, <3>2, <3>3, TrailerReaches DEF BInv
      <3>5. PICK k \in 1 .. Len(log) : log[k].src = d
        BY <3>3, <3>4 DEF BInv, HistoryInv
      <3> QED BY <3>5 DEF Mirrored
    <2>6. Mirrored' = Mirrored
      BY <1>1 DEF Mirrored
    <2>7. JobsKept
      BY <2>2, UnchangedJobs DEF BInv
    <2>8. ASSUME NEW v \in Workers
          PROVE  /\ stage'[v] \in InLoop => Ancestors[Job(v)'.commit] \subseteq Mirrored' \cup Ahead(v)'
                 /\ stage'[v] \in AfterLoop => Ancestors[Job(v)'.commit] \subseteq Mirrored'
                 /\ stage'[v] \in {"create", "push"} => pushEnabled'
      <3>1. CASE v = w
        <4>1. /\ commits'[v] = s /\ next'[v] = 1
              /\ stage'[v] = IF s = <<>> THEN "destination" ELSE "clear"
          BY <2>1, <2>2, <3>1 DEF BInv, TypeInv, QueueInv
        <4>2. Job(v)'.commit = t
          BY <2>2, <3>1 DEF Job
        <4>3. Ahead(v)' = Ancestors[t] \ Reach({LastSourceCommit})
          BY <2>4, <4>1 DEF Ahead
        <4>4. ASSUME s = <<>> PROVE Ancestors[t] \ Reach({LastSourceCommit}) = {}
          <5>1. Len(s) = 0
            BY <4>4, EmptySeq
          <5>2. {s[i] : i \in 1 .. Len(s)} = {}
            BY <5>1
          <5> QED BY <2>4, <5>2
        <4> QED BY <2>5, <2>6, <4>1, <4>2, <4>3, <4>4 DEF InLoop, AfterLoop
      <3>2. CASE v # w
        <4>1. stage'[v] = stage[v] /\ commits'[v] = commits[v] /\ next'[v] = next[v]
          BY <2>1, <2>2, <3>2 DEF BInv, TypeInv, QueueInv
        <4>2. Job(v)' = Job(v)
          BY <2>2 DEF Job
        <4>3. Ahead(v)' = Ahead(v)
          BY <4>1 DEF Ahead
        <4>4. Covered
          BY DEF BInv
        <4> QED BY <1>1, <2>6, <4>1, <4>2, <4>3, <4>4 DEF Covered
      <3> QED BY <3>1, <3>2
    <2> QED BY <2>8 DEF Covered
  <1> QED BY <1>2, <1>3

\* What committing does to the history.
LEMMA CommitGrowsHistory ==
  ASSUME BInv, NEW w \in Workers, CommitStaged(w)
  PROVE  /\ Commit(w) \in Commits /\ Entry(Commit(w)).src = Commit(w)
         /\ log \in Seq(Entries) /\ Len(log) \in Nat /\ Len(log') = Len(log) + 1
         /\ \A i \in 1 .. Len(log) : log'[i] = log[i]
         /\ log'[Len(log) + 1].src = Commit(w)
         /\ Mirrored' = Mirrored \cup {Commit(w)}
  <1> DEFINE e == Entry(Commit(w))
             n == Len(log)
  <1>1. stage[w] = "commit" /\ log' = Append(log, e)
    BY DEF CommitStaged, AppendToLog
  <1>2. Commit(w) \in Commits
    BY <1>1, CommitType DEF BInv, TypeInv, InLoop
  <1>3. e \in Entries /\ e.src = Commit(w)
    BY <1>2, EntryType DEF BInv, TypeInv, Entry
  <1> HIDE DEF e
  <1>4. /\ log \in Seq(Entries) /\ n \in Nat /\ Len(log') = n + 1
        /\ \A i \in 1 .. n : log'[i] = log[i]
        /\ log'[n + 1] = e
    BY <1>1, <1>3 DEF BInv, TypeInv, StoreInv
  <1> HIDE DEF n
  <1>5. Mirrored = {log[i].src : i \in 1 .. n}
    BY DEF Mirrored, n
  <1>6. Mirrored' = {log'[i].src : i \in 1 .. n} \cup {log'[n + 1].src}
    BY <1>4 DEF Mirrored
  <1>7. Mirrored' = Mirrored \cup {Commit(w)}
    BY <1>3, <1>4, <1>5, <1>6
  <1> QED BY <1>2, <1>3, <1>4, <1>7 DEF n, e

LEMMA CommitStagedKeepsCovered ==
  ASSUME BInv, NEW w \in Workers, CommitStaged(w)
  PROVE  Covered'
  <1>1. /\ stage[w] = "commit" /\ next' = [next EXCEPT ![w] = next[w] + 1]
        /\ stage' = [stage EXCEPT ![w] = IF next[w] < Len(commits[w]) THEN "clear" ELSE "destination"]
        /\ UNCHANGED <<jobs, current, commits, pushEnabled>>
    BY DEF CommitStaged, githubVars
  <1>2. Mirrored' = Mirrored \cup {commits[w][next[w]]}
    BY CommitGrowsHistory DEF Commit
  <1>3. next[w] \in 1 .. Len(commits[w]) /\ Len(commits[w]) \in Nat
    BY <1>1, LenProperties DEF BInv, TypeInv, QueueInv, InLoop
  <1>4. Ahead(w) = {commits[w][next[w]]} \cup {commits[w][k] : k \in next[w] + 1 .. Len(commits[w])}
    <2>1. next[w] .. Len(commits[w]) = {next[w]} \cup (next[w] + 1 .. Len(commits[w]))
      BY <1>3
    <2> QED BY <2>1 DEF Ahead
  <1>5. ASSUME NEW v \in Workers
        PROVE  /\ stage'[v] \in InLoop => Ancestors[Job(v)'.commit] \subseteq Mirrored' \cup Ahead(v)'
               /\ stage'[v] \in AfterLoop => Ancestors[Job(v)'.commit] \subseteq Mirrored'
               /\ stage'[v] \in {"create", "push"} => pushEnabled'
    <2>1. Job(v)' = Job(v)
      BY <1>1 DEF Job
    <2>2. CASE v = w
      <3>1. /\ commits'[w] = commits[w] /\ next'[w] = next[w] + 1
            /\ stage'[w] = IF next[w] < Len(commits[w]) THEN "clear" ELSE "destination"
        BY <1>1 DEF BInv, TypeInv, QueueInv
      <3>2. Ancestors[Job(w).commit] \subseteq Mirrored \cup Ahead(w)
        BY <1>1 DEF BInv, Covered, InLoop
      <3>3. Ahead(w)' = {commits[w][k] : k \in next[w] + 1 .. Len(commits[w])}
        BY <3>1 DEF Ahead
      <3>4. Ancestors[Job(w).commit] \subseteq Mirrored' \cup Ahead(w)'
        BY <1>2, <1>4, <3>2, <3>3
      <3>5. ~(next[w] < Len(commits[w])) => Ahead(w)' = {}
        BY <1>3, <3>3
      <3> QED BY <2>1, <2>2, <3>1, <3>4, <3>5 DEF InLoop, AfterLoop
    <2>3. CASE v # w
      <3>1. stage'[v] = stage[v] /\ commits'[v] = commits[v] /\ next'[v] = next[v]
        BY <1>1, <2>3 DEF BInv, TypeInv, QueueInv
      <3>2. Ahead(v)' = Ahead(v)
        BY <3>1 DEF Ahead
      <3> QED BY <1>1, <1>2, <2>1, <3>1, <3>2 DEF BInv, Covered
    <2> QED BY <2>2, <2>3
  <1> QED BY <1>5 DEF Covered

LEMMA StepKeepsCovered ==
  ASSUME BInv, NEW w \in Workers, Step(w)
  PROVE  Covered'
  <1> USE DEF BInv
  <1>1. CASE TakeJob(w)
    <2>1. /\ log' = log /\ pushEnabled' = pushEnabled /\ commits' = commits /\ next' = next
          /\ stage' = [stage EXCEPT ![w] = "ensureMirror"]
      BY <1>1 DEF TakeJob, encVars, githubVars
    <2>2. \A v \in Workers : v # w => current'[v] = current[v]
      BY <1>1 DEF TakeJob, TypeInv, QueueInv
    <2>3. JobsKept
      BY <1>1, TakeJobJobs
    <2>4. Mirrored' = Mirrored
      BY <2>1 DEF Mirrored
    <2>5. \A v \in Workers : stage'[v] \in InLoop \cup AfterLoop => v # w /\ stage'[v] = stage[v]
      BY <2>1 DEF TypeInv, QueueInv, InLoop, AfterLoop
    <2> QED BY <2>1, <2>2, <2>3, <2>4, <2>5, CoveredFrame DEF Covered
  <1>2. CASE \/ CheckMirror(w) \/ Fetch(w) \/ RefLocked(w)
             \/ StartClone(w) \/ ConfigureClone(w) \/ FinishClone(w)
             \/ ResolveCommit(w) \/ InitWorkingRepo(w) \/ StartInit(w) \/ FinishInit(w)
    <2>1. /\ log' = log /\ pushEnabled' = pushEnabled /\ stage[w] # "idle"
          /\ \/ /\ UNCHANGED jobs
                /\ \E s \in {"fetch", "startClone", "resolve", "clone", "download", "init",
                             "initialise", "finishInit", "list"} : Goto(w, s)
             \/ JobError(w)
      BY <1>2 DEF CheckMirror, Fetch, RefLocked, StartClone, ConfigureClone, FinishClone, ResolveCommit,
                  InitWorkingRepo, StartInit, FinishInit, encVars, githubVars
    <2> QED BY <2>1, GotoKeepsCovered, JobErrorKeepsCovered DEF InLoop, AfterLoop
  <1>3. CASE ListCommits(w)
    BY <1>3, ListCommitsKeepsCovered
  <1>4. CASE ClearWorkingTree(w) \/ EncryptFiles(w) \/ WriteManifest(w) \/ StageAll(w)
    <2>1. /\ log' = log /\ UNCHANGED <<jobs, pushEnabled>> /\ stage[w] \in InLoop
          /\ \E s \in InLoop : Goto(w, s)
      BY <1>4 DEF ClearWorkingTree, EncryptFiles, WriteManifest, StageAll, githubVars, InLoop
    <2> QED BY <2>1, GotoKeepsCovered DEF InLoop, AfterLoop
  <1>5. CASE CommitStaged(w)
    BY <1>5, CommitStagedKeepsCovered
  <1>6. CASE IndexLocked(w) \/ PushCollides(w)
    BY <1>6, JobErrorKeepsCovered DEF IndexLocked, PushCollides, encVars, githubVars
  <1>7. CASE SkipPush(w)
    <2>1. stage[w] # "idle" /\ Succeed(w) /\ log' = log /\ pushEnabled' = pushEnabled
      BY <1>7 DEF SkipPush, encVars, githubVars
    <2> QED BY <2>1, SucceedJobs, LeaveKeepsCovered DEF Succeed
  <1>8. CASE CheckRepository(w)
    <2>1. /\ log' = log /\ UNCHANGED <<jobs, pushEnabled>> /\ stage[w] \in AfterLoop /\ pushEnabled
          /\ Goto(w, "create") \/ Goto(w, "push")
      BY <1>8 DEF CheckRepository, encVars, githubVars, AfterLoop
    <2> QED BY <2>1, GotoKeepsCovered DEF InLoop
  <1>9. CASE CreateRepository(w)
    <2>1. /\ log' = log /\ pushEnabled' = pushEnabled /\ stage[w] = "create"
          /\ \/ UNCHANGED jobs /\ Goto(w, "push")
             \/ JobError(w)
      BY <1>9 DEF CreateRepository, encVars
    <2>2. pushEnabled /\ stage[w] \in AfterLoop
      BY <2>1 DEF Covered, AfterLoop
    <2> QED BY <2>1, <2>2, GotoKeepsCovered, JobErrorKeepsCovered DEF InLoop
  <1>10. CASE PushWorkingRepo(w)
    <2>1. /\ log' = log /\ pushEnabled' = pushEnabled /\ stage[w] # "idle"
          /\ Succeed(w) \/ JobError(w)
      BY <1>10 DEF PushWorkingRepo, encVars
    <2> QED BY <2>1, SucceedJobs, LeaveKeepsCovered, JobErrorKeepsCovered DEF Succeed
  <1> QED BY <1>1, <1>2, <1>3, <1>4, <1>5, <1>6, <1>7, <1>8, <1>9, <1>10 DEF Step

LEMMA NextKeepsCovered ==
  ASSUME BInv, [Next]_vars
  PROVE  Covered'
  <1> USE DEF BInv
  <1>1. ASSUME NEW b \in Branches, NEW c \in Commits, SourcePush(b, c)
        PROVE  Covered'
    <2>1. log' = log /\ pushEnabled' = pushEnabled /\ UNCHANGED <<stage, current, commits, next>>
      BY <1>1 DEF SourcePush, encVars, githubVars, workerVars
    <2>2. JobsKept
      BY <1>1, SourcePushJobs
    <2>3. Mirrored' = Mirrored
      BY <2>1 DEF Mirrored
    <2> QED BY <2>1, <2>2, <2>3, CoveredFrame DEF Covered
  <1>2. ASSUME NEW w \in Workers, PushUnacknowledged(w) \/ Fault(w)
        PROVE  Covered'
    <2>1. stage[w] # "idle" /\ JobError(w) /\ log' = log /\ pushEnabled' = pushEnabled
      BY <1>2 DEF PushUnacknowledged, Fault, encVars, githubVars
    <2> QED BY <2>1, JobErrorKeepsCovered
  <1>3. CASE Restart \/ LoseCache
    <2>1. \A w \in Workers : stage'[w] = "idle"
      BY <1>3 DEF Restart, LoseCache, ProcessEnds
    <2> QED BY <2>1 DEF Covered, InLoop, AfterLoop
  <1>4. CASE UNCHANGED vars
    <2>1. UNCHANGED <<log, jobs, pushEnabled, stage, current, commits, next>>
      BY <1>4 DEF vars, encVars, githubVars, workerVars
    <2>2. JobsKept
      BY <2>1, UnchangedJobs
    <2>3. Mirrored' = Mirrored
      BY <2>1 DEF Mirrored
    <2> QED BY <2>1, <2>2, <2>3, CoveredFrame DEF Covered
  <1> QED BY <1>1, <1>2, <1>3, <1>4, StepKeepsCovered DEF Next

LEMMA AlwaysBInv ==
  ASSUME StrictDates, NoForeignTrailers
  PROVE  Spec => []BInv
  <1>1. Init => BInv
    <2> SUFFICES ASSUME Init PROVE BInv
      OBVIOUS
    <2>1. Covered
      BY DEF Init, Covered, InLoop, AfterLoop
    <2> QED BY <2>1, TypeInvInit, HistoryInvInit DEF BInv
  <1>2. BInv /\ [Next]_vars => BInv'
    BY NextKeepsTypeInv, NextKeepsHistory, NextKeepsCovered DEF BInv
  <1> QED BY <1>1, <1>2, PTL DEF Spec

-----------------------------------------------------------------------------
(***************************************************************************)
(* The refinement.                                                         *)
(***************************************************************************)
LEMMA RemoteType ==
  ASSUME TypeInv, NEW b \in Branches
  PROVE  remote[b] \in Seq(Entries) /\ log \in Seq(Entries)
  BY DEF TypeInv, StoreInv

\* Steps that BackupHistory does not see.
LEMMA SameAcknowledged ==
  ASSUME JobsKept, SameSuccesses, pushEnabled' = pushEnabled
  PROVE  Acknowledged' = Acknowledged
  <1> DEFINE S == {k \in 1 .. Len(jobs) : pushEnabled /\ jobs[k].state = "succeeded"}
             P(j) == <<jobs[j].branch, jobs[j].commit>>
  <1>1. S' = S
    BY DEF JobsKept, SameSuccesses
  <1>2. \A j \in S : P(j)' = P(j)
    BY DEF JobsKept
  <1>3. Acknowledged = {P(j) : j \in S}
    BY DEF Acknowledged
  <1>4. Acknowledged' = {P(j)' : j \in S'}
    BY DEF Acknowledged
  <1> HIDE DEF S, P
  <1> QED BY <1>1, <1>2, <1>3, <1>4

LEMMA UnseenStep ==
  ASSUME JobsKept, SameSuccesses, pushEnabled' = pushEnabled, log' = log, remote' = remote
  PROVE  UNCHANGED Backup!vars
  BY SameAcknowledged DEF Backup!vars, Sources

LEMMA CommitImplements ==
  ASSUME BInv, NEW w \in Workers, CommitStaged(w)
  PROVE  Commit(w) \in Commits /\ Backup!MirrorCommit(Commit(w))
  <1> DEFINE c == Commit(w)
  <1>1. /\ stage[w] = "commit" /\ UNCHANGED <<jobs, remote, pushEnabled>>
    BY DEF CommitStaged, githubVars
  <1>2. /\ c \in Commits /\ log \in Seq(Entries) /\ Len(log) \in Nat /\ Len(log') = Len(log) + 1
        /\ \A i \in 1 .. Len(log) : log'[i] = log[i]
        /\ log'[Len(log) + 1].src = c
    BY CommitGrowsHistory
  <1>3. Ancestors[c] \ {c} \subseteq Mirrored
    <2>1. next[w] \in 1 .. Len(commits[w]) /\ Len(commits[w]) \in Nat /\ ReadyAhead(w)
      BY <1>1, LenProperties DEF BInv, TypeInv, QueueInv, HistoryInv, InLoop
    <2> QED BY <2>1 DEF ReadyAhead, Commit
  <1>4. Listed(Sources(log)) = Mirrored
    BY <1>2, SourcesOfLog DEF Mirrored
  <1>5. Sources(log)' = Append(Sources(log), c)
    <2>1. Sources(log)' = [i \in 1 .. Len(log) + 1 |-> log'[i].src]
      BY <1>2 DEF Sources
    <2>2. \A i \in 1 .. Len(log) : log[i].src \in Commits
      <3>1. \A i \in 1 .. Len(log) : log[i] \in Entries
        BY <1>2, ElementOfSeq
      <3> QED BY <3>1 DEF Entries
    <2>3. /\ Sources(log) \in Seq(Commits) /\ Len(Sources(log)) = Len(log)
          /\ \A i \in 1 .. Len(log) : Sources(log)[i] = log[i].src
      BY <1>2, <2>2 DEF Sources
    <2>4. Sources(log)' \in Seq(Commits) /\ Len(Sources(log)') = Len(log) + 1
      <3>1. \A i \in 1 .. Len(log) + 1 : log'[i].src \in Commits
        BY <1>2, <2>2
      <3> QED BY <1>2, <2>1, <3>1
    <2> DEFINE a == Append(Sources(log), c)
    <2>5. /\ a \in Seq(Commits) /\ Len(a) = Len(log) + 1 /\ a[Len(log) + 1] = c
          /\ \A i \in 1 .. Len(log) : a[i] = log[i].src
      BY <1>2, <2>3, AppendProperties
    <2>6. \A i \in 1 .. Len(log) + 1 : Sources(log)'[i] = a[i]
      BY <1>2, <2>1, <2>5
    <2> HIDE DEF a
    <2>7. Sources(log)' = a
      BY <2>4, <2>5, <2>6, SeqEqual
    <2> QED BY <2>7 DEF a
  <1>6. Acknowledged' = Acknowledged
    BY <1>1, UnchangedJobs, SameAcknowledged DEF BInv
  <1>7. [b \in Branches |-> Sources(remote[b])]' = [b \in Branches |-> Sources(remote[b])]
    BY <1>1
  <1> QED BY <1>2, <1>3, <1>4, <1>5, <1>6, <1>7 DEF Backup!MirrorCommit, Listed, Backup!Listed

\* The remote branch of a push that fast-forwards.
LEMMA PushedBranch ==
  ASSUME TypeInv, NEW b \in Branches, FastForwards(b), remote' = [remote EXCEPT ![b] = log],
         log' = log
  PROVE  /\ Backup!IsInitialPart(Sources(remote[b]), Sources(log))
         /\ [a \in Branches |-> Sources(remote[a])]'
               = [[a \in Branches |-> Sources(remote[a])] EXCEPT ![b] = Sources(log)]
  <1>1. /\ Len(Sources(remote[b])) = Len(remote[b]) /\ Len(Sources(log)) = Len(log)
        /\ \A i \in 1 .. Len(remote[b]) : Sources(remote[b])[i] = remote[b][i].src
        /\ \A i \in 1 .. Len(log) : Sources(log)[i] = log[i].src
        /\ Len(remote[b]) \in Nat /\ Len(log) \in Nat
    BY RemoteType, SourcesOfLog, LenProperties
  <1>2. Backup!IsInitialPart(Sources(remote[b]), Sources(log))
    BY <1>1 DEF FastForwards, Backup!IsInitialPart
  <1>3. \A a \in Branches : remote'[a] = IF a = b THEN log ELSE remote[a]
    BY DEF TypeInv, StoreInv
  <1>4. \A a \in Branches : Sources(remote[a])' = IF a = b THEN Sources(log) ELSE Sources(remote[a])
    <2> SUFFICES ASSUME NEW a \in Branches
                 PROVE  Sources(remote[a])' = IF a = b THEN Sources(log) ELSE Sources(remote[a])
      OBVIOUS
    <2>1. Sources(remote[a])' = Sources(remote'[a])
      BY DEF Sources
    <2> QED BY <1>3, <2>1
  <1> QED BY <1>2, <1>4

LEMMA JobOf ==
  ASSUME TypeInv, NEW w \in Workers, stage[w] # "idle"
  PROVE  /\ current[w] \in 1 .. Len(jobs) /\ jobs[current[w]].state = "running"
         /\ Job(w).branch \in Branches /\ Job(w).commit \in Commits
  <1>1. current[w] \in 1 .. Len(jobs) /\ jobs[current[w]].state = "running" /\ jobs \in Seq(Jobs)
    BY DEF TypeInv, QueueInv, HeldJobs
  <1>2. Job(w) \in Jobs
    BY <1>1, ElementOfSeq DEF Job
  <1> QED BY <1>1, <1>2 DEF Jobs

LEMMA PushImplements ==
  ASSUME BInv, NEW w \in Workers, stage[w] = "push",
         NEW b, b = Job(w).branch, NEW c, c = Job(w).commit,
         FastForwards(b), remote' = [remote EXCEPT ![b] = log], Succeed(w),
         log' = log, pushEnabled' = pushEnabled
  PROVE  b \in Branches /\ c \in Commits /\ Backup!Acknowledge(b, c)
  <1> DEFINE j == current[w]
  <1>1. /\ j \in 1 .. Len(jobs) /\ b \in Branches /\ c \in Commits
        /\ b = jobs[j].branch /\ c = jobs[j].commit
    BY JobOf DEF BInv, Job
  <1>2. Ancestors[c] \subseteq Listed(Sources(log))
    <2>1. Ancestors[c] \subseteq Mirrored
      BY DEF BInv, Covered, AfterLoop
    <2>2. Listed(Sources(log)) = Mirrored
      BY <1>1, RemoteType, SourcesOfLog DEF BInv, Mirrored
    <2> QED BY <2>1, <2>2
  <1>3. Acknowledged' = Acknowledged \cup {<<b, c>>}
    <2> DEFINE S == {k \in 1 .. Len(jobs) : pushEnabled /\ jobs[k].state = "succeeded"}
               P(k) == <<jobs[k].branch, jobs[k].commit>>
    <2>1. pushEnabled
      BY DEF BInv, Covered
    <2>2. /\ JobsKept /\ Len(jobs') = Len(jobs)
          /\ \A k \in 1 .. Len(jobs') :
                jobs'[k].state = "succeeded" <=> jobs[k].state = "succeeded" \/ k = current[w]
      BY SucceedJobs DEF BInv
    <2>3. S' = S \cup {current[w]}
      BY <1>1, <2>1, <2>2
    <2>4. \A k \in 1 .. Len(jobs) : P(k)' = P(k)
      BY <2>2 DEF JobsKept
    <2>5. Acknowledged = {P(k) : k \in S} /\ Acknowledged' = {P(k)' : k \in S'}
      BY DEF Acknowledged
    <2>6. S \subseteq 1 .. Len(jobs) /\ P(current[w]) = <<b, c>>
      BY <1>1
    <2> HIDE DEF S, P
    <2> QED BY <1>1, <2>3, <2>4, <2>5, <2>6
  <1>4. /\ Backup!IsInitialPart(Sources(remote[b]), Sources(log))
        /\ [a \in Branches |-> Sources(remote[a])]'
              = [[a \in Branches |-> Sources(remote[a])] EXCEPT ![b] = Sources(log)]
    BY <1>1, PushedBranch DEF BInv
  <1>5. Sources(log)' = Sources(log)
    BY DEF Sources
  <1> QED BY <1>1, <1>2, <1>3, <1>4, <1>5 DEF Backup!Acknowledge, Listed, Backup!Listed

LEMMA LostAckImplements ==
  ASSUME BInv, NEW w \in Workers, PushUnacknowledged(w), NEW b, b = Job(w).branch
  PROVE  b \in Branches /\ Backup!Publish(b)
  <1>1. /\ stage[w] = "push" /\ FastForwards(b) /\ remote' = [remote EXCEPT ![b] = log]
        /\ JobError(w) /\ log' = log /\ pushEnabled' = pushEnabled
    BY DEF PushUnacknowledged, encVars
  <1>2. b \in Branches
    BY <1>1, JobOf DEF BInv
  <1>3. /\ Backup!IsInitialPart(Sources(remote[b]), Sources(log))
        /\ [a \in Branches |-> Sources(remote[a])]'
              = [[a \in Branches |-> Sources(remote[a])] EXCEPT ![b] = Sources(log)]
    BY <1>1, <1>2, PushedBranch DEF BInv
  <1>4. Acknowledged' = Acknowledged
    BY <1>1, JobErrorJobs, SameAcknowledged DEF BInv
  <1>5. Sources(log)' = Sources(log)
    BY <1>1 DEF Sources
  <1> QED BY <1>2, <1>3, <1>4, <1>5 DEF Backup!Publish

LEMMA LossImplements ==
  ASSUME BInv, LoseCache
  PROVE  Backup!LoseHistory
  <1>1. log' = <<>> /\ remote' = remote /\ pushEnabled' = pushEnabled /\ ProcessEnds
    BY DEF LoseCache, githubVars
  <1>2. Sources(log)' = <<>>
    <2>1. Len(log') = 0 /\ log' \in Seq(Entries)
      BY <1>1, EmptySeq
    <2>2. Sources(log') = [i \in 1 .. 0 |-> log'[i].src]
      BY <2>1 DEF Sources
    <2> QED BY <2>2
  <1>3. Acknowledged' = Acknowledged
    BY <1>1, ProcessEndsJobs, SameAcknowledged DEF BInv
  <1>4. [a \in Branches |-> Sources(remote[a])]' = [a \in Branches |-> Sources(remote[a])]
    BY <1>1
  <1> QED BY <1>2, <1>3, <1>4 DEF Backup!LoseHistory

LEMMA StepImplementsBackup ==
  ASSUME BInv, NEW w \in Workers, Step(w)
  PROVE  Backup!Next \/ UNCHANGED Backup!vars
  <1>1. TypeInv
    BY DEF BInv
  <1>2. CASE TakeJob(w)
    <2>1. log' = log /\ pushEnabled' = pushEnabled /\ remote' = remote
      BY <1>2 DEF TakeJob, encVars, githubVars
    <2> QED BY <1>1, <1>2, <2>1, TakeJobJobs, UnseenStep
  <1>3. CASE \/ CheckMirror(w) \/ Fetch(w) \/ RefLocked(w)
             \/ StartClone(w) \/ ConfigureClone(w) \/ FinishClone(w)
             \/ ResolveCommit(w) \/ InitWorkingRepo(w) \/ StartInit(w) \/ FinishInit(w)
             \/ ListCommits(w) \/ IndexLocked(w) \/ PushCollides(w)
    <2>1. /\ log' = log /\ pushEnabled' = pushEnabled /\ remote' = remote
          /\ UNCHANGED jobs \/ JobError(w)
      BY <1>3 DEF CheckMirror, Fetch, RefLocked, StartClone, ConfigureClone, FinishClone, ResolveCommit,
                  InitWorkingRepo, StartInit, FinishInit, ListCommits, IndexLocked,
                  PushCollides, encVars, githubVars
    <2>2. stage[w] # "idle"
      BY <1>3 DEF CheckMirror, Fetch, RefLocked, StartClone, ConfigureClone, FinishClone, ResolveCommit,
                  InitWorkingRepo, StartInit, FinishInit, ListCommits, IndexLocked, PushCollides
    <2>3. JobsKept /\ SameSuccesses
      BY <1>1, <2>1, <2>2, UnchangedJobs, JobErrorJobs
    <2> QED BY <2>1, <2>3, UnseenStep
  <1>4. CASE ClearWorkingTree(w) \/ EncryptFiles(w) \/ WriteManifest(w) \/ StageAll(w)
    <2>1. UNCHANGED <<log, jobs, remote, pushEnabled>>
      BY <1>4 DEF ClearWorkingTree, EncryptFiles, WriteManifest, StageAll, githubVars
    <2> QED BY <1>1, <2>1, UnchangedJobs, UnseenStep
  <1>5. CASE CommitStaged(w)
    BY <1>5, CommitImplements DEF Backup!Next
  <1>6. CASE SkipPush(w)
    <2>1. /\ log' = log /\ remote' = remote /\ ~pushEnabled /\ ~pushEnabled'
      BY <1>6 DEF SkipPush, encVars, githubVars
    <2>2. Acknowledged = {} /\ Acknowledged' = {}
      BY <2>1 DEF Acknowledged
    <2> QED BY <2>1, <2>2 DEF Backup!vars, Sources
  <1>7. CASE CheckRepository(w)
    <2>1. UNCHANGED <<log, jobs, remote, pushEnabled>>
      BY <1>7 DEF CheckRepository, encVars, githubVars
    <2> QED BY <1>1, <2>1, UnchangedJobs, UnseenStep
  <1>8. CASE CreateRepository(w)
    <2>1. /\ UNCHANGED <<log, remote, pushEnabled>> /\ stage[w] # "idle"
          /\ UNCHANGED jobs \/ JobError(w)
      BY <1>8 DEF CreateRepository, encVars
    <2>2. JobsKept /\ SameSuccesses
      BY <1>1, <2>1, UnchangedJobs, JobErrorJobs
    <2> QED BY <2>1, <2>2, UnseenStep
  <1>9. CASE PushWorkingRepo(w)
    <2>1. stage[w] = "push" /\ log' = log /\ pushEnabled' = pushEnabled
      BY <1>9 DEF PushWorkingRepo, encVars
    <2>2. CASE /\ FastForwards(Job(w).branch) /\ remote' = [remote EXCEPT ![Job(w).branch] = log]
               /\ Succeed(w)
      <3>1. PICK b, c : b = Job(w).branch /\ c = Job(w).commit
        OBVIOUS
      <3>2. b \in Branches /\ c \in Commits /\ Backup!Acknowledge(b, c)
        BY <2>1, <2>2, <3>1, PushImplements
      <3> QED BY <3>2 DEF Backup!Next
    <2>3. CASE JobError(w) /\ remote' = remote
      BY <1>1, <2>1, <2>3, JobErrorJobs, UnseenStep
    <2> QED BY <1>9, <2>2, <2>3 DEF PushWorkingRepo
  <1> QED BY <1>2, <1>3, <1>4, <1>5, <1>6, <1>7, <1>8, <1>9 DEF Step

LEMMA NextImplementsBackup == BInv /\ [Next]_vars => [Backup!Next]_(Backup!vars)
  <1> SUFFICES ASSUME BInv, [Next]_vars PROVE Backup!Next \/ UNCHANGED Backup!vars
    OBVIOUS
  <1>1. TypeInv
    BY DEF BInv
  <1>2. ASSUME NEW b \in Branches, NEW c \in Commits, SourcePush(b, c)
        PROVE  UNCHANGED Backup!vars
    <2>1. log' = log /\ pushEnabled' = pushEnabled /\ remote' = remote
      BY <1>2 DEF SourcePush, encVars, githubVars
    <2> QED BY <1>1, <1>2, <2>1, SourcePushJobs, UnseenStep
  <1>3. ASSUME NEW w \in Workers, Fault(w)
        PROVE  UNCHANGED Backup!vars
    <2>1. /\ log' = log /\ pushEnabled' = pushEnabled /\ remote' = remote
          /\ stage[w] # "idle" /\ JobError(w)
      BY <1>3 DEF Fault, encVars, githubVars
    <2> QED BY <1>1, <2>1, JobErrorJobs, UnseenStep
  <1>4. ASSUME NEW w \in Workers, PushUnacknowledged(w)
        PROVE  Backup!Next
    <2>1. PICK b : b = Job(w).branch
      OBVIOUS
    <2> QED BY <1>4, <2>1, LostAckImplements DEF Backup!Next
  <1>5. CASE Restart
    <2>1. /\ log' = log /\ pushEnabled' = pushEnabled /\ remote' = remote /\ ProcessEnds
      BY <1>5 DEF Restart, githubVars
    <2> QED BY <1>1, <2>1, ProcessEndsJobs, UnseenStep
  <1>6. CASE LoseCache
    BY <1>6, LossImplements DEF Backup!Next
  <1>7. CASE UNCHANGED vars
    <2>1. UNCHANGED <<log, jobs, remote, pushEnabled>>
      BY <1>7 DEF vars, encVars, githubVars
    <2> QED BY <1>1, <2>1, UnchangedJobs, UnseenStep
  <1> QED BY <1>2, <1>3, <1>4, <1>5, <1>6, <1>7, StepImplementsBackup DEF Next

LEMMA InitImplementsBackup == Init => Backup!Init
  <1> SUFFICES ASSUME Init PROVE Backup!Init
    OBVIOUS
  <1>1. log = <<>> /\ \A b \in Branches : remote[b] = <<>>
    BY DEF Init
  <1>2. Sources(<<>>) = <<>>
    BY EmptySeq DEF Sources
  <1>3. Acknowledged = {}
    BY EmptySeq DEF Init, Acknowledged
  <1> QED BY <1>1, <1>2, <1>3 DEF Backup!Init

(***************************************************************************)
(* The handler, its workers, queue, cache and GitHub repository implement  *)
(* the history a user is promised, over every interleaving, failure,       *)
(* restart and loss of the cache, if commits are dated strictly after what *)
(* they reach and no message's trailer names another line of work.         *)
(***************************************************************************)
THEOREM PipelineImplementsBackup ==
  ASSUME StrictDates, NoForeignTrailers
  PROVE  Spec => ImplementsBackupHistory
  BY AlwaysBInv, InitImplementsBackup, NextImplementsBackup, PTL
  DEF Spec, ImplementsBackupHistory, Backup!Spec

-----------------------------------------------------------------------------
(***************************************************************************)
(* What is published stays so: a branch is only ever moved to a history    *)
(* that begins with what it showed, so an acknowledged job stays backed up *)
(* even after the local history is lost.                                   *)
(***************************************************************************)
PInv == BInv /\ SucceededIsBackedUp

\* Steps that leave GitHub as it is, or move one branch along the history.
LEMMA BackedUpFrame ==
  ASSUME TypeInv, SucceededIsBackedUp, JobsKept, SameSuccesses, pushEnabled' = pushEnabled,
         \A b \in Branches : Listed(Sources(remote[b])) \subseteq Listed(Sources(remote'[b]))
  PROVE  SucceededIsBackedUp'
  <1> SUFFICES ASSUME NEW j \in 1 .. Len(jobs'), pushEnabled', jobs'[j].state = "succeeded"
               PROVE  Ancestors[jobs'[j].commit] \subseteq Listed(Sources(remote'[jobs'[j].branch]))
    BY DEF SucceededIsBackedUp
  <1>1. j \in 1 .. Len(jobs) /\ jobs[j].state = "succeeded"
    BY DEF SameSuccesses
  <1>2. jobs'[j].branch = jobs[j].branch /\ jobs'[j].commit = jobs[j].commit
    BY <1>1 DEF JobsKept
  <1>3. jobs[j].branch \in Branches
    <2>1. jobs[j] \in Jobs
      BY <1>1, ElementOfSeq DEF TypeInv, QueueInv
    <2> QED BY <2>1 DEF Jobs
  <1> QED BY <1>1, <1>2, <1>3 DEF SucceededIsBackedUp

LEMMA FastForwardGrows ==
  ASSUME TypeInv, NEW b \in Branches, FastForwards(b), remote' = [remote EXCEPT ![b] = log]
  PROVE  /\ remote'[b] = log
         /\ \A a \in Branches : Listed(Sources(remote[a])) \subseteq Listed(Sources(remote'[a]))
  <1>1. \A a \in Branches : remote'[a] = IF a = b THEN log ELSE remote[a]
    BY DEF TypeInv, StoreInv
  <1>2. /\ Listed(Sources(remote[b])) = {remote[b][i].src : i \in 1 .. Len(remote[b])}
        /\ Listed(Sources(log)) = {log[i].src : i \in 1 .. Len(log)}
        /\ Len(remote[b]) \in Nat /\ Len(log) \in Nat
    BY RemoteType, SourcesOfLog, LenProperties
  <1>3. Listed(Sources(remote[b])) \subseteq Listed(Sources(log))
    BY <1>2 DEF FastForwards
  <1> QED BY <1>1, <1>3

LEMMA PushBacksUp ==
  ASSUME PInv, NEW w \in Workers, PushWorkingRepo(w)
  PROVE  SucceededIsBackedUp'
  <1>1. TypeInv /\ SucceededIsBackedUp /\ stage[w] = "push" /\ pushEnabled' = pushEnabled
    BY DEF PInv, BInv, PushWorkingRepo
  <1>2. CASE /\ FastForwards(Job(w).branch) /\ remote' = [remote EXCEPT ![Job(w).branch] = log]
             /\ Succeed(w)
    <2>1. /\ current[w] \in 1 .. Len(jobs) /\ Job(w).branch \in Branches
          /\ jobs[current[w]].state = "running"
      BY <1>1, JobOf
    <2>2. /\ remote'[Job(w).branch] = log
          /\ \A a \in Branches : Listed(Sources(remote[a])) \subseteq Listed(Sources(remote'[a]))
      BY <1>1, <1>2, <2>1, FastForwardGrows
    <2>3. /\ JobsKept /\ Len(jobs') = Len(jobs)
          /\ \A j \in 1 .. Len(jobs') :
                jobs'[j].state = "succeeded" <=> jobs[j].state = "succeeded" \/ j = current[w]
      BY <1>1, <1>2, SucceedJobs
    <2>4. Ancestors[Job(w).commit] \subseteq Listed(Sources(log))
      <3>1. Ancestors[Job(w).commit] \subseteq Mirrored
        BY <1>1 DEF PInv, BInv, Covered, AfterLoop
      <3>2. Listed(Sources(log)) = Mirrored
        BY <1>1, <2>1, RemoteType, SourcesOfLog DEF Mirrored
      <3> QED BY <3>1, <3>2
    <2>5. ASSUME NEW j \in 1 .. Len(jobs'), pushEnabled', jobs'[j].state = "succeeded"
          PROVE  Ancestors[jobs'[j].commit] \subseteq Listed(Sources(remote'[jobs'[j].branch]))
      <3>1. /\ j \in 1 .. Len(jobs)
            /\ jobs'[j].branch = jobs[j].branch /\ jobs'[j].commit = jobs[j].commit
        BY <2>3 DEF JobsKept
      <3>2. CASE j = current[w]
        BY <2>2, <2>4, <3>1, <3>2 DEF Job
      <3>3. CASE j # current[w]
        <4>1. jobs[j].state = "succeeded"
          BY <2>3, <2>5, <3>3
        <4>2. jobs[j].branch \in Branches
          <5>1. jobs[j] \in Jobs
            BY <1>1, <3>1, ElementOfSeq DEF TypeInv, QueueInv
          <5> QED BY <5>1 DEF Jobs
        <4>3. Ancestors[jobs[j].commit] \subseteq Listed(Sources(remote[jobs[j].branch]))
          BY <1>1, <2>5, <3>1, <4>1 DEF SucceededIsBackedUp
        <4> QED BY <2>2, <3>1, <4>2, <4>3
      <3> QED BY <3>2, <3>3
    <2> QED BY <2>5 DEF SucceededIsBackedUp
  <1>3. CASE JobError(w) /\ remote' = remote
    <2>1. JobsKept /\ SameSuccesses
      BY <1>1, <1>3, JobErrorJobs
    <2> QED BY <1>1, <1>3, <2>1, BackedUpFrame
  <1> QED BY <1>2, <1>3 DEF PushWorkingRepo

LEMMA NextBacksUp ==
  ASSUME PInv, [Next]_vars
  PROVE  SucceededIsBackedUp'
  <1>1. TypeInv /\ SucceededIsBackedUp
    BY DEF PInv, BInv
  <1>2. ASSUME remote' = remote, pushEnabled' = pushEnabled, JobsKept, SameSuccesses
        PROVE  SucceededIsBackedUp'
    BY <1>1, <1>2, BackedUpFrame
  <1>3. ASSUME NEW b \in Branches, NEW c \in Commits, SourcePush(b, c)
        PROVE  SucceededIsBackedUp'
    BY <1>1, <1>2, <1>3, SourcePushJobs DEF SourcePush, githubVars
  <1>4. ASSUME NEW w \in Workers, Fault(w)
        PROVE  SucceededIsBackedUp'
    BY <1>1, <1>2, <1>4, JobErrorJobs DEF Fault, githubVars
  <1>5. ASSUME NEW w \in Workers, PushUnacknowledged(w)
        PROVE  SucceededIsBackedUp'
    <2>1. /\ stage[w] # "idle" /\ JobError(w) /\ pushEnabled' = pushEnabled
          /\ FastForwards(Job(w).branch) /\ remote' = [remote EXCEPT ![Job(w).branch] = log]
      BY <1>5 DEF PushUnacknowledged
    <2>2. Job(w).branch \in Branches
      BY <1>1, <2>1, JobOf
    <2> QED BY <1>1, <2>1, <2>2, FastForwardGrows, JobErrorJobs, BackedUpFrame
  <1>6. CASE Restart \/ LoseCache
    BY <1>1, <1>2, <1>6, ProcessEndsJobs DEF Restart, LoseCache, githubVars
  <1>7. CASE UNCHANGED vars
    BY <1>1, <1>2, <1>7, UnchangedJobs DEF vars, githubVars
  <1>8. ASSUME NEW w \in Workers, Step(w)
        PROVE  SucceededIsBackedUp'
    <2>1. CASE TakeJob(w)
      BY <1>1, <1>2, <2>1, TakeJobJobs DEF TakeJob, githubVars
    <2>2. CASE \/ CheckMirror(w) \/ Fetch(w) \/ RefLocked(w)
             \/ StartClone(w) \/ ConfigureClone(w) \/ FinishClone(w)
               \/ ResolveCommit(w) \/ InitWorkingRepo(w) \/ StartInit(w) \/ FinishInit(w)
               \/ ListCommits(w) \/ IndexLocked(w) \/ PushCollides(w) \/ CreateRepository(w)
      <3>1. /\ remote' = remote /\ pushEnabled' = pushEnabled
            /\ UNCHANGED jobs \/ JobError(w)
        BY <2>2 DEF CheckMirror, Fetch, RefLocked, StartClone, ConfigureClone, FinishClone,
                    ResolveCommit,
           InitWorkingRepo, StartInit, FinishInit, ListCommits, IndexLocked, PushCollides,
           CreateRepository, githubVars
      <3>2. stage[w] # "idle"
        BY <2>2 DEF CheckMirror, Fetch, RefLocked, StartClone, ConfigureClone, FinishClone,
                    ResolveCommit,
           InitWorkingRepo, StartInit, FinishInit, ListCommits, IndexLocked, PushCollides,
           CreateRepository
      <3>3. JobsKept /\ SameSuccesses
        BY <1>1, <3>1, <3>2, UnchangedJobs, JobErrorJobs
      <3> QED BY <1>2, <3>1, <3>3
    <2>3. CASE \/ ClearWorkingTree(w) \/ EncryptFiles(w) \/ WriteManifest(w) \/ StageAll(w)
               \/ CommitStaged(w) \/ CheckRepository(w)
      <3>1. UNCHANGED <<jobs, remote, pushEnabled>>
        BY <2>3 DEF ClearWorkingTree, EncryptFiles, WriteManifest, StageAll, CommitStaged,
           CheckRepository, githubVars
      <3> QED BY <1>1, <1>2, <3>1, UnchangedJobs
    <2>4. CASE SkipPush(w)
      <3>1. ~pushEnabled'
        BY <2>4 DEF SkipPush, githubVars
      <3> QED BY <3>1 DEF SucceededIsBackedUp
    <2>5. CASE PushWorkingRepo(w)
      BY <2>5, PushBacksUp
    <2> QED BY <1>8, <2>1, <2>2, <2>3, <2>4, <2>5 DEF Step
  <1> QED BY <1>3, <1>4, <1>5, <1>6, <1>7, <1>8 DEF Next

(***************************************************************************)
(* A job reported as succeeded is backed up, and stays so.                 *)
(***************************************************************************)
THEOREM SuccessStaysBackedUp ==
  ASSUME StrictDates, NoForeignTrailers
  PROVE  Spec => []SucceededIsBackedUp
  <1>1. Init => SucceededIsBackedUp
    BY EmptySeq DEF Init, SucceededIsBackedUp
  <1>2. BInv /\ BInv' /\ SucceededIsBackedUp /\ [Next]_vars => SucceededIsBackedUp'
    BY NextBacksUp DEF PInv
  <1> QED BY <1>1, <1>2, AlwaysBInv, PTL DEF Spec

(***************************************************************************)
(* What the step that reports a success leaves in the local history.       *)
(***************************************************************************)
LEMMA StepMirrors ==
  ASSUME BInv, NEW w \in Workers, stage[w] \in AfterLoop, Succeed(w), log' = log,
         NEW j \in 1 .. Len(jobs), jobs[j].state # "succeeded", jobs'[j].state = "succeeded"
  PROVE  Ancestors[jobs[j].commit] \subseteq Listed(Sources(log'))
  <1>1. j = current[w]
    BY SucceedJobs DEF BInv, AfterLoop
  <1>2. Ancestors[jobs[j].commit] \subseteq Mirrored
    BY <1>1 DEF BInv, Covered, Job
  <1>3. Listed(Sources(log)) = Mirrored
    BY SourcesOfLog DEF Mirrored, BInv, TypeInv, StoreInv
  <1> QED BY <1>2, <1>3

LEMMA NextMirrors ==
  ASSUME BInv, [Next]_vars,
         NEW j \in 1 .. Len(jobs), jobs[j].state # "succeeded", jobs'[j].state = "succeeded"
  PROVE  Ancestors[jobs[j].commit] \subseteq Listed(Sources(log'))
  <1>1. TypeInv /\ (JobsKept => ~SameSuccesses)
    BY DEF BInv, SameSuccesses, JobsKept
  <1>2. ~UNCHANGED jobs
    BY <1>1, UnchangedJobs
  <1>3. \A w \in Workers : ~(stage[w] # "idle" /\ JobError(w))
    BY <1>1, JobErrorJobs
  <1>4. ~ProcessEnds /\ \A b \in Branches, c \in Commits : ~SourcePush(b, c)
    BY <1>1, ProcessEndsJobs, SourcePushJobs
  <1>5. PICK w \in Workers : Step(w) \/ PushUnacknowledged(w) \/ Fault(w)
    BY <1>2, <1>4 DEF Next, Restart, LoseCache, vars
  <1>6. SkipPush(w) \/ PushWorkingRepo(w)
    <2>1. ~TakeJob(w)
      BY <1>1, TakeJobJobs
    <2>2. ~(PushUnacknowledged(w) \/ Fault(w))
      BY <1>3 DEF PushUnacknowledged, Fault
    <2>3. ~(\/ CheckMirror(w) \/ Fetch(w) \/ RefLocked(w) \/ StartClone(w) \/ ConfigureClone(w) \/ FinishClone(w)
            \/ ResolveCommit(w) \/ InitWorkingRepo(w) \/ StartInit(w) \/ FinishInit(w)
            \/ ListCommits(w) \/ IndexLocked(w) \/ PushCollides(w) \/ CreateRepository(w))
      BY <1>2, <1>3 DEF CheckMirror, Fetch, RefLocked, StartClone, ConfigureClone,
                        FinishClone, ResolveCommit,
         InitWorkingRepo, StartInit, FinishInit, ListCommits, IndexLocked, PushCollides,
         CreateRepository
    <2>4. ~(\/ ClearWorkingTree(w) \/ EncryptFiles(w) \/ WriteManifest(w) \/ StageAll(w)
            \/ CommitStaged(w) \/ CheckRepository(w))
      BY <1>2 DEF ClearWorkingTree, EncryptFiles, WriteManifest, StageAll, CommitStaged, CheckRepository
    <2> QED BY <1>5, <2>1, <2>2, <2>3, <2>4 DEF Step
  <1>7. stage[w] \in AfterLoop /\ Succeed(w) /\ log' = log
    BY <1>3, <1>6 DEF SkipPush, PushWorkingRepo, encVars, AfterLoop
  <1> QED BY <1>7, StepMirrors

(***************************************************************************)
(* A job succeeds only when everything its commit reaches is in the local  *)
(* history, pushed or not.                                                 *)
(***************************************************************************)
THEOREM SuccessMirrors ==
  ASSUME StrictDates, NoForeignTrailers
  PROVE  Spec => SuccessIsMirrored
  <1>1. BInv /\ [Next]_vars =>
           [\A j \in 1 .. Len(jobs) :
               jobs[j].state # "succeeded" /\ jobs'[j].state = "succeeded" =>
                   Ancestors[jobs[j].commit] \subseteq Listed(Sources(log'))]_vars
    BY NextMirrors
  <1> QED BY <1>1, AlwaysBInv, PTL DEF Spec, SuccessIsMirrored


-----------------------------------------------------------------------------
(***************************************************************************)
(* What BackupHistory's steps keep, whatever takes them: its consequences  *)
(* are proved of it alone and hold of all that implements it.              *)
(***************************************************************************)
LEMMA SameReading ==
  ASSUME NEW h
  PROVE  (Backup!AncestorClosed(h) <=> AncestorClosed(h)) /\ Backup!Listed(h) = Listed(h)
  BY DEF Backup!AncestorClosed, AncestorClosed, Backup!Listed, Listed

LEMMA ClosedAppend ==
  ASSUME NEW h \in Seq(Commits), AncestorClosed(h), NEW c \in Commits,
         Ancestors[c] \ {c} \subseteq Listed(h)
  PROVE  Append(h, c) \in Seq(Commits) /\ AncestorClosed(Append(h, c))
  <1> DEFINE t == Append(h, c)
  <1>1. Len(h) \in Nat
    BY LenProperties
  <1>2. /\ t \in Seq(Commits) /\ Len(t) = Len(h) + 1 /\ t[Len(h) + 1] = c
        /\ \A i \in 1 .. Len(h) : t[i] = h[i]
    OBVIOUS
  <1> HIDE DEF t
  <1>3. ASSUME NEW i \in 1 .. Len(t), NEW d \in Ancestors[t[i]]
        PROVE  \E k \in 1 .. i : t[k] = d
    <2>1. CASE i \in 1 .. Len(h)
      <3>1. PICK k \in 1 .. i : h[k] = d
        BY <1>2, <1>3, <2>1 DEF AncestorClosed
      <3>2. k \in 1 .. Len(h)
        BY <1>1, <2>1, <3>1
      <3> QED BY <1>2, <3>1, <3>2
    <2>2. CASE i = Len(h) + 1 /\ d = c
      BY <1>1, <1>2, <2>2
    <2>3. CASE i = Len(h) + 1 /\ d # c
      <3>1. PICK k \in 1 .. Len(h) : h[k] = d
        BY <1>2, <1>3, <2>3 DEF Listed
      <3>2. k \in 1 .. i
        BY <1>1, <2>3, <3>1
      <3> QED BY <1>2, <3>1, <3>2
    <2> QED BY <1>1, <1>2, <1>3, <2>1, <2>2, <2>3
  <1> QED BY <1>2, <1>3 DEF AncestorClosed, t

LEMMA ListedGrows ==
  ASSUME NEW s \in Seq(Commits), NEW t \in Seq(Commits), Backup!IsInitialPart(s, t)
  PROVE  Listed(s) \subseteq Listed(t)
  <1>1. Len(s) \in Nat /\ Len(t) \in Nat
    BY LenProperties
  <1> QED BY <1>1 DEF Backup!IsInitialPart, Listed

LEMMA InitialPartOfItself ==
  ASSUME NEW s \in Seq(Commits)
  PROVE  Backup!IsInitialPart(s, s)
  <1>1. Len(s) \in Nat
    BY LenProperties
  <1> QED BY <1>1 DEF Backup!IsInitialPart

Published == [b \in Branches |-> Sources(remote[b])]

\* BackupHistory's consequences of a state, in the terms of this module.
Consequences ==
    /\ AncestorClosed(Sources(log))
    /\ \A b \in Branches : AncestorClosed(Published[b])
    /\ \A a \in Acknowledged : Ancestors[a[2]] \subseteq Listed(Published[a[1]])

LEMMA ConsequencesAre ==
  Consequences <=> /\ Backup!HistoryClosed /\ Backup!PublishedClosed
                   /\ Backup!AcknowledgedIsPublished
  BY SameReading DEF Consequences, Published, Backup!HistoryClosed, Backup!PublishedClosed,
     Backup!AcknowledgedIsPublished

PromiseInv ==
    /\ Sources(log) \in Seq(Commits) /\ Published \in [Branches -> Seq(Commits)]
    /\ Acknowledged \subseteq Branches \X Commits
    /\ Consequences

\* A branch that catches up with the history keeps all it showed.
LEMMA CatchUp ==
  ASSUME PromiseInv, NEW b \in Branches, Backup!IsInitialPart(Published[b], Sources(log)),
         Published' = [Published EXCEPT ![b] = Sources(log)]
  PROVE  /\ Published' \in [Branches -> Seq(Commits)]
         /\ \A a \in Branches : AncestorClosed(Published'[a])
         /\ \A a \in Branches : Backup!IsInitialPart(Published[a], Published'[a])
         /\ \A a \in Branches : Listed(Published[a]) \subseteq Listed(Published'[a])
         /\ Published'[b] = Sources(log)
  <1>1. /\ Published \in [Branches -> Seq(Commits)] /\ Sources(log) \in Seq(Commits)
        /\ AncestorClosed(Sources(log)) /\ \A a \in Branches : AncestorClosed(Published[a])
    BY DEF PromiseInv, Consequences
  <1>2. \A a \in Branches : Published'[a] = IF a = b THEN Sources(log) ELSE Published[a]
    BY <1>1
  <1>3. \A a \in Branches : Backup!IsInitialPart(Published[a], Published'[a])
    BY <1>1, <1>2, InitialPartOfItself
  <1>4. Published' \in [Branches -> Seq(Commits)]
    BY <1>1
  <1>5. \A a \in Branches : Listed(Published[a]) \subseteq Listed(Published'[a])
    BY <1>1, <1>3, <1>4, ListedGrows
  <1> QED BY <1>1, <1>2, <1>3, <1>4, <1>5

LEMMA NextKeepsPromises ==
  ASSUME PromiseInv, [Backup!Next]_(Backup!vars)
  PROVE  /\ PromiseInv'
         /\ \A b \in Branches : Backup!IsInitialPart(Published[b], Published'[b])
  <1>1. /\ Sources(log) \in Seq(Commits) /\ Published \in [Branches -> Seq(Commits)]
        /\ Acknowledged \subseteq Branches \X Commits /\ Consequences
    BY DEF PromiseInv
  <1>2. \A b \in Branches : Backup!IsInitialPart(Published[b], Published[b])
    BY <1>1, InitialPartOfItself
  <1>3. CASE UNCHANGED Backup!vars
    <2>1. Sources(log)' = Sources(log) /\ Published' = Published /\ Acknowledged' = Acknowledged
      BY <1>3 DEF Backup!vars, Published
    <2> QED BY <1>1, <1>2, <2>1 DEF PromiseInv, Consequences
  <1>4. ASSUME NEW c \in Commits, Backup!MirrorCommit(c)
        PROVE  PromiseInv' /\ Published' = Published
    <2>1. /\ Ancestors[c] \ {c} \subseteq Listed(Sources(log))
          /\ Sources(log)' = Append(Sources(log), c)
          /\ Published' = Published /\ Acknowledged' = Acknowledged
      BY <1>4, SameReading DEF Backup!MirrorCommit, Published
    <2>2. Append(Sources(log), c) \in Seq(Commits) /\ AncestorClosed(Append(Sources(log), c))
      BY <1>1, <2>1, ClosedAppend DEF Consequences
    <2> QED BY <1>1, <2>1, <2>2 DEF PromiseInv, Consequences
  <1>5. ASSUME NEW b \in Branches,
               Backup!IsInitialPart(Published[b], Sources(log)), Sources(log)' = Sources(log),
               Published' = [Published EXCEPT ![b] = Sources(log)],
               \A a \in Acknowledged' : \/ a \in Acknowledged
                                        \/ /\ a \in Branches \X Commits /\ a[1] = b
                                           /\ Ancestors[a[2]] \subseteq Listed(Sources(log))
        PROVE  /\ PromiseInv'
               /\ \A a \in Branches : Backup!IsInitialPart(Published[a], Published'[a])
    <2>1. /\ Published' \in [Branches -> Seq(Commits)]
          /\ \A a \in Branches : AncestorClosed(Published'[a])
          /\ \A a \in Branches : Backup!IsInitialPart(Published[a], Published'[a])
          /\ \A a \in Branches : Listed(Published[a]) \subseteq Listed(Published'[a])
          /\ Published'[b] = Sources(log)
      BY <1>5, CatchUp
    <2>2. ASSUME NEW a \in Acknowledged' PROVE Ancestors[a[2]] \subseteq Listed(Published'[a[1]])
      <3>1. CASE a \in Acknowledged
        <4>1. a[1] \in Branches /\ Ancestors[a[2]] \subseteq Listed(Published[a[1]])
          BY <1>1, <3>1 DEF Consequences
        <4> QED BY <2>1, <4>1
      <3>2. CASE a[1] = b /\ Ancestors[a[2]] \subseteq Listed(Sources(log))
        BY <2>1, <3>2
      <3> QED BY <1>5, <2>2, <3>1, <3>2
    <2> QED BY <1>1, <1>5, <2>1, <2>2 DEF PromiseInv, Consequences
  <1>6. ASSUME NEW b \in Branches, Backup!Publish(b)
        PROVE  /\ PromiseInv'
               /\ \A a \in Branches : Backup!IsInitialPart(Published[a], Published'[a])
    <2>1. /\ Backup!IsInitialPart(Published[b], Sources(log)) /\ Sources(log)' = Sources(log)
          /\ Published' = [Published EXCEPT ![b] = Sources(log)]
          /\ Acknowledged' = Acknowledged
      BY <1>6 DEF Backup!Publish, Published
    <2> QED BY <1>5, <2>1
  <1>7. ASSUME NEW b \in Branches, NEW c \in Commits, Backup!Acknowledge(b, c)
        PROVE  /\ PromiseInv'
               /\ \A a \in Branches : Backup!IsInitialPart(Published[a], Published'[a])
    <2>1. /\ Backup!IsInitialPart(Published[b], Sources(log)) /\ Sources(log)' = Sources(log)
          /\ Published' = [Published EXCEPT ![b] = Sources(log)]
          /\ Acknowledged' = Acknowledged \cup {<<b, c>>}
          /\ Ancestors[c] \subseteq Listed(Sources(log))
      BY <1>7, SameReading DEF Backup!Acknowledge, Published
    <2>2. \A a \in Acknowledged' : \/ a \in Acknowledged
                                   \/ /\ a \in Branches \X Commits /\ a[1] = b
                                      /\ Ancestors[a[2]] \subseteq Listed(Sources(log))
      BY <2>1
    <2> QED BY <1>5, <2>1, <2>2
  <1>8. ASSUME Backup!LoseHistory
        PROVE  PromiseInv' /\ Published' = Published
    <2>1. Sources(log)' = <<>> /\ Published' = Published /\ Acknowledged' = Acknowledged
      BY <1>8 DEF Backup!LoseHistory, Published
    <2>2. <<>> \in Seq(Commits) /\ AncestorClosed(<<>>)
      BY EmptySeq DEF AncestorClosed
    <2> QED BY <1>1, <2>1, <2>2 DEF PromiseInv, Consequences
  <1> QED BY <1>1, <1>2, <1>3, <1>4, <1>6, <1>7, <1>8 DEF Backup!Next, Backup!vars, Published

LEMMA InitPromises == Backup!Init => PromiseInv
  <1> SUFFICES ASSUME Backup!Init PROVE PromiseInv
    OBVIOUS
  <1>1. /\ Sources(log) = <<>> /\ Published = [b \in Branches |-> <<>>] /\ Acknowledged = {}
    BY DEF Backup!Init, Published
  <1>2. <<>> \in Seq(Commits) /\ AncestorClosed(<<>>)
    BY EmptySeq DEF AncestorClosed
  <1> QED BY <1>1, <1>2 DEF PromiseInv, Consequences

(***************************************************************************)
(* Whatever implements BackupHistory keeps its promises: the history and   *)
(* every branch are closed, no branch loses what it showed, and what is    *)
(* acknowledged is published.                                              *)
(***************************************************************************)
THEOREM BackupPromises ==
  ImplementsBackupHistory =>
      /\ []AncestorsMirrored /\ []PublishedClosed
      /\ PublishedOnlyGrows /\ []Backup!AcknowledgedIsPublished
  <1>1. PromiseInv /\ [Backup!Next]_(Backup!vars) => PromiseInv'
    BY NextKeepsPromises
  <1>2. PromiseInv /\ [Backup!Next]_(Backup!vars) =>
           [\A b \in Branches : Backup!IsInitialPart(Published[b], Published'[b])]_(Backup!vars)
    BY NextKeepsPromises
  <1>3. PromiseInv => AncestorsMirrored /\ PublishedClosed /\ Backup!AcknowledgedIsPublished
    BY ConsequencesAre DEF PromiseInv, Consequences, AncestorsMirrored, PublishedClosed
  <1> QED BY <1>1, <1>2, <1>3, InitPromises, PTL
          DEF ImplementsBackupHistory, Backup!Spec, PublishedOnlyGrows,
              Backup!PublishedOnlyGrows, Published

(***************************************************************************)
(* On GitHub no commit is ever shown before what it reaches, and no branch *)
(* loses a commit, even when the local copy is lost and rebuilt.           *)
(***************************************************************************)
THEOREM GitHubStaysWhole ==
  ASSUME StrictDates, NoForeignTrailers
  PROVE  Spec => []PublishedClosed /\ PublishedOnlyGrows
  BY PipelineImplementsBackup, BackupPromises, PTL

-----------------------------------------------------------------------------
(***************************************************************************)
(* How the remote branches follow the local history.                       *)
(***************************************************************************)
RInv == TypeInv /\ RemotesArePrefixes

LEMMA PrefixFrame ==
  ASSUME RInv, remote' = remote, log' = log
  PROVE  RemotesArePrefixes'
  BY DEF RInv, RemotesArePrefixes, FastForwards

LEMMA PrefixOfPush ==
  ASSUME RInv, NEW b \in Branches, remote' = [remote EXCEPT ![b] = log], log' = log
  PROVE  RemotesArePrefixes'
  <1>1. \A a \in Branches : remote'[a] = IF a = b THEN log ELSE remote[a]
    BY DEF RInv, TypeInv, StoreInv
  <1>2. Len(log) \in Nat
    BY LenProperties DEF RInv, TypeInv, StoreInv
  <1> QED BY <1>1, <1>2 DEF RInv, RemotesArePrefixes, FastForwards

LEMMA PrefixOfCommit ==
  ASSUME RInv, NEW w \in Workers, CommitStaged(w)
  PROVE  RemotesArePrefixes'
  <1> DEFINE e == Entry(Commit(w))
  <1>1. stage[w] = "commit" /\ log' = Append(log, e) /\ remote' = remote
    BY DEF CommitStaged, AppendToLog, githubVars
  <1>2. e \in Entries
    <2>1. Commit(w) \in Commits
      BY <1>1, CommitType DEF RInv, TypeInv, InLoop
    <2> QED BY <2>1, EntryType DEF RInv, TypeInv
  <1> HIDE DEF e
  <1>3. /\ Len(log) \in Nat /\ Len(log') = Len(log) + 1
        /\ \A i \in 1 .. Len(log) : log'[i] = log[i]
    BY <1>1, <1>2, AppendProperties, LenProperties DEF RInv, TypeInv, StoreInv
  <1>4. \A b \in Branches : Len(remote[b]) \in Nat
    BY RemoteType, LenProperties DEF RInv
  <1> QED BY <1>1, <1>3, <1>4 DEF RInv, RemotesArePrefixes, FastForwards

LEMMA NextKeepsPrefixes ==
  ASSUME MaxEras = 0, RInv, [Next]_vars
  PROVE  RemotesArePrefixes'
  <1>1. TypeInv /\ RemotesArePrefixes
    BY DEF RInv
  <1>2. ASSUME NEW b \in Branches, NEW c \in Commits, SourcePush(b, c)
        PROVE  RemotesArePrefixes'
    BY <1>2, PrefixFrame DEF SourcePush, encVars, githubVars
  <1>3. ASSUME NEW w \in Workers, Fault(w)
        PROVE  RemotesArePrefixes'
    BY <1>3, PrefixFrame DEF Fault, encVars, githubVars
  <1>4. ASSUME NEW w \in Workers, PushUnacknowledged(w)
        PROVE  RemotesArePrefixes'
    <2>1. /\ stage[w] # "idle" /\ remote' = [remote EXCEPT ![Job(w).branch] = log] /\ log' = log
      BY <1>4 DEF PushUnacknowledged, encVars
    <2>2. Job(w).branch \in Branches
      BY <1>1, <2>1, JobOf
    <2> QED BY <2>1, <2>2, PrefixOfPush
  <1>5. CASE Restart
    BY <1>5, PrefixFrame DEF Restart, githubVars
  <1>6. ~LoseCache
    <2>1. era \in 0 .. 0
      BY <1>1 DEF TypeInv, StoreInv
    <2> QED BY <2>1 DEF LoseCache
  <1>7. CASE UNCHANGED vars
    BY <1>7, PrefixFrame DEF vars, encVars, githubVars
  <1>8. ASSUME NEW w \in Workers, Step(w)
        PROVE  RemotesArePrefixes'
    <2>1. CASE \/ TakeJob(w) \/ CheckMirror(w) \/ Fetch(w) \/ RefLocked(w) \/ StartClone(w) \/ ConfigureClone(w)
               \/ FinishClone(w) \/ ResolveCommit(w) \/ InitWorkingRepo(w) \/ StartInit(w)
               \/ FinishInit(w) \/ ListCommits(w) \/ IndexLocked(w) \/ PushCollides(w) \/ SkipPush(w)
               \/ CheckRepository(w) \/ CreateRepository(w)
      <3>1. remote' = remote /\ log' = log
        BY <2>1 DEF TakeJob, CheckMirror, Fetch, RefLocked, StartClone, ConfigureClone,
                    FinishClone, ResolveCommit,
           InitWorkingRepo, StartInit, FinishInit, ListCommits, IndexLocked, PushCollides, SkipPush,
           CheckRepository, CreateRepository, githubVars, encVars
      <3> QED BY <3>1, PrefixFrame
    <2>2. CASE ClearWorkingTree(w) \/ EncryptFiles(w) \/ WriteManifest(w) \/ StageAll(w)
      <3>1. remote' = remote /\ log' = log
        BY <2>2 DEF ClearWorkingTree, EncryptFiles, WriteManifest, StageAll, githubVars
      <3> QED BY <3>1, PrefixFrame
    <2>3. CASE CommitStaged(w)
      BY <2>3, PrefixOfCommit
    <2>4. CASE PushWorkingRepo(w)
      <3>1. stage[w] # "idle" /\ log' = log
        BY <2>4 DEF PushWorkingRepo, encVars
      <3>2. Job(w).branch \in Branches
        BY <1>1, <3>1, JobOf
      <3> QED BY <2>4, <3>1, <3>2, PrefixOfPush, PrefixFrame DEF PushWorkingRepo
    <2> QED BY <1>8, <2>1, <2>2, <2>3, <2>4 DEF Step
  <1> QED BY <1>2, <1>3, <1>4, <1>5, <1>6, <1>7, <1>8 DEF Next

(***************************************************************************)
(* While the cache is not lost, every remote branch is an initial part of  *)
(* the local history, whatever the dates, messages, workers and restarts,  *)
(* so GitHub has no reason to refuse a push.                               *)
(***************************************************************************)
THEOREM NoPushRefused ==
  ASSUME MaxEras = 0
  PROVE  Spec => []RemotesArePrefixes
  <1>1. Init => RInv
    <2> SUFFICES ASSUME Init PROVE RemotesArePrefixes
      BY TypeInvInit DEF RInv
    <2> QED BY EmptySeq DEF Init, RemotesArePrefixes, FastForwards
  <1>2. RInv /\ [Next]_vars => RInv'
    BY NextKeepsTypeInv, NextKeepsPrefixes DEF RInv
  <1>3. RInv => RemotesArePrefixes
    BY DEF RInv
  <1> QED BY <1>1, <1>2, <1>3, PTL DEF Spec
=============================================================================
