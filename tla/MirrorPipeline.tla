--------------------------- MODULE MirrorPipeline ---------------------------
(***************************************************************************)
(* The mirroring of one Forgejo repository to one GitHub repository: the   *)
(* job handler of cmd/mirror/main.go with everything it calls, run by a    *)
(* pool of workers that share the repository's two directories in the      *)
(* cache, the bare mirror (<repo>.git) and the encrypted working           *)
(* repository (<repo>.enc).  The service can be stopped and restarted at   *)
(* any step, any external command can fail, and users may push, and force- *)
(* push, at any time.                                                      *)
(*                                                                         *)
(* Data: every commit's tree holds one file of its own, whose content is   *)
(* the commit's name, and every encrypted tree holds a manifest.           *)
(***************************************************************************)
EXTENDS CommitGraph

CONSTANTS
    Branches,
    Workers,        \* the pool's goroutines; the service starts three
    OwnTrailer,     \* what git parses from a commit's own message, see Trailer
    NoMention,      \* OwnTrailer of a message without "Source-Commit:"
    NoObject,       \* OwnTrailer of a message whose trailer names nothing there
    AutoCreate,     \* github.autoCreate
    ForcePush,      \* users may move a branch to a commit that drops others
    MaxRetries,     \* NewPool: 3
    MaxJobs,        \* bound: webhook deliveries
    MaxFaults,      \* bound: failures of external commands and of the disk
    MaxRestarts,    \* bound: stops and crashes of the service
    MaxEras         \* bound: losses of the cache directory

ASSUME PipelineAssumption ==
    /\ OwnTrailer \in [Commits -> Commits \cup {None, NoMention, NoObject}]
    /\ NoMention \notin Commits \cup {None}
    /\ NoObject \notin Commits \cup {None, NoMention}
    /\ AutoCreate \in BOOLEAN /\ ForcePush \in BOOLEAN
    /\ MaxRetries \in Nat /\ MaxJobs \in Nat /\ MaxFaults \in Nat
    /\ MaxRestarts \in Nat /\ MaxEras \in Nat

VARIABLES
    srcRef,         \* Forgejo: the commit of each branch
    jobs,           \* every job ever enqueued, with its state in the queue
    bare,           \* <repo>.git: absent, unconfigured (a clone began), ready
    objs,           \* the commits <repo>.git holds
    refLock,        \* <repo>.git: a killed git left a ref or packed-refs locked
    enc,            \* <repo>.enc/.git: absent, partial (git init began), ready
    log,            \* <repo>.enc: the commits of HEAD, oldest first
    worktree,       \* <repo>.enc: the encrypted tree in the directory
    index,          \* <repo>.enc: the tree that git add staged
    indexLock,      \* <repo>.enc: a killed git left .git/index.lock behind
    era,            \* how often the cache has been lost
    pushEnabled,    \* github.token is set; fixed when the service is configured
    ghExists,       \* GitHub: the destination repository exists
    remote,         \* GitHub: the commits of each branch, oldest first
    stage,          \* what each worker does next
    current,        \* the job a worker holds, 0 if none
    commits,        \* UpdateEncryptedHistory: the commits to process
    next,           \* UpdateEncryptedHistory: the position in commits
    faults, restarts

cacheVars  == <<bare, objs, refLock>>
encVars    == <<enc, log, worktree, index, indexLock, era>>
githubVars == <<pushEnabled, ghExists, remote>>
workerVars == <<stage, current, commits, next>>
budgetVars == <<faults, restarts>>
vars == <<srcRef, jobs, cacheVars, encVars, githubVars, workerVars, budgetVars>>

Stages == {"idle", "ensureMirror", "fetch", "startClone", "clone", "download",
           "resolve", "init", "initialise", "finishInit", "list",
           "clear", "encrypt", "manifest", "add", "commit",
           "destination", "create", "push"}
InLoop == {"clear", "encrypt", "manifest", "add", "commit"}
JobStates == {"queued", "running", "succeeded", "failed", "lost"}

EmptyTree == [files |-> {}, manifest |-> None]
TreeOf(c) == [files |-> {c}, manifest |-> c]

Init ==
    /\ srcRef = [b \in Branches |-> None]
    /\ jobs = <<>>
    /\ bare = "absent" /\ objs = {} /\ refLock = FALSE
    /\ enc = "absent" /\ log = <<>> /\ worktree = EmptyTree /\ index = EmptyTree
    /\ indexLock = FALSE /\ era = 0
    /\ pushEnabled \in BOOLEAN /\ ghExists \in BOOLEAN
    /\ ghExists \/ (AutoCreate /\ pushEnabled)    \* nobody asks without a token
    /\ remote = [b \in Branches |-> <<>>]
    /\ stage = [w \in Workers |-> "idle"]
    /\ current = [w \in Workers |-> 0]
    /\ commits = [w \in Workers |-> <<>>]
    /\ next = [w \in Workers |-> 1]
    /\ faults = 0 /\ restarts = 0

Job(w) == jobs[current[w]]
Busy(stages) == \E w \in Workers : stage[w] \in stages

(***************************************************************************)
(* A user pushes c to b; the webhook enqueues a job that carries both.     *)
(***************************************************************************)
SourcePush(b, c) ==
    /\ Len(jobs) < MaxJobs
    /\ c # srcRef[b]
    /\ ForcePush \/ srcRef[b] = None \/ srcRef[b] \in Ancestors[c]
    /\ srcRef' = [srcRef EXCEPT ![b] = c]
    /\ jobs' = Append(jobs, [branch |-> b, commit |-> c, attempts |-> 0, state |-> "queued"])
    /\ UNCHANGED <<cacheVars, encVars, githubVars, workerVars, budgetVars>>

(***************************************************************************)
(* How a worker moves through a job (internal/queue/worker.go, process).   *)
(***************************************************************************)
Goto(w, s) ==
    /\ stage' = [stage EXCEPT ![w] = s]
    /\ UNCHANGED <<current, commits, next>>

Leave(w) ==
    /\ stage' = [stage EXCEPT ![w] = "idle"]
    /\ current' = [current EXCEPT ![w] = 0]
    /\ commits' = [commits EXCEPT ![w] = <<>>]
    /\ next' = [next EXCEPT ![w] = 1]

TakeJob(w) ==
    /\ stage[w] = "idle"
    /\ \E j \in 1 .. Len(jobs) :
          /\ jobs[j].state = "queued"
          /\ jobs' = [jobs EXCEPT ![j].state = "running"]
          /\ current' = [current EXCEPT ![w] = j]
    /\ stage' = [stage EXCEPT ![w] = "ensureMirror"]
    /\ UNCHANGED <<srcRef, cacheVars, encVars, githubVars, commits, next, budgetVars>>

Succeed(w) ==
    /\ jobs' = [jobs EXCEPT ![current[w]].state = "succeeded"]
    /\ Leave(w)

Attempted(job, s) == [job EXCEPT !.attempts = job.attempts + 1, !.state = s]

\* Mutant of AfterError: one retry too many.
AfterErrorOffByOne(job) ==
    Attempted(job, IF job.attempts > MaxRetries THEN "failed" ELSE "queued")

\* The handler returned an error: retry after a delay (elided), or give up.
AfterError(job) ==
    Attempted(job, IF job.attempts + 1 > MaxRetries THEN "failed" ELSE "queued")

JobError(w) ==
    /\ jobs' = [jobs EXCEPT ![current[w]] = AfterError(Job(w))]
    /\ Leave(w)

(***************************************************************************)
(* EnsureMirror: fetch if <repo>.git/HEAD exists, else clone.  git clone   *)
(* refuses a directory that another worker's clone has filled meanwhile;   *)
(* it writes HEAD first, the remote's refspec once Forgejo has answered,   *)
(* and the objects last.  A fetch into a repository that has HEAD but no   *)
(* refspec (another worker is cloning, or a clone was killed) succeeds and *)
(* gets at most the default branch.  Objects no branch reaches any more    *)
(* stay.  A fetch that has a ref to move and finds it or packed-refs       *)
(* locked, by another worker's git or a dead one's, fails.                 *)
(***************************************************************************)
FromForgejo == Reach({srcRef[b] : b \in Branches})

CheckMirror(w) ==
    /\ stage[w] = "ensureMirror"
    /\ Goto(w, IF bare = "absent" THEN "startClone" ELSE "fetch")
    /\ UNCHANGED <<srcRef, jobs, cacheVars, encVars, githubVars, budgetVars>>

Fetch(w) ==
    /\ stage[w] = "fetch"
    /\ \/ /\ bare # "absent" /\ Goto(w, "resolve") /\ UNCHANGED jobs
          /\ \/ objs' = objs \cup FromForgejo
             \/ bare = "unconfigured" /\ objs' = objs
       \/ bare = "absent" /\ JobError(w) /\ UNCHANGED objs
    /\ UNCHANGED <<srcRef, bare, refLock, encVars, githubVars, budgetVars>>

RefLocked(w) ==
    /\ stage[w] = "fetch" /\ bare # "absent"
    /\ refLock \/ \E v \in Workers \ {w} : stage[v] \in {"fetch", "download"}
    /\ objs' \in {objs, objs \cup FromForgejo}
    /\ JobError(w)
    /\ UNCHANGED <<srcRef, bare, refLock, encVars, githubVars, budgetVars>>

StartClone(w) ==
    /\ stage[w] = "startClone"
    /\ \/ bare = "absent" /\ bare' = "unconfigured" /\ Goto(w, "clone") /\ UNCHANGED jobs
       \/ bare # "absent" /\ JobError(w) /\ UNCHANGED bare
    /\ UNCHANGED <<srcRef, objs, refLock, encVars, githubVars, budgetVars>>

ConfigureClone(w) ==
    /\ stage[w] = "clone"
    /\ bare' = "ready"
    /\ Goto(w, "download")
    /\ UNCHANGED <<srcRef, jobs, objs, refLock, encVars, githubVars, budgetVars>>

FinishClone(w) ==
    /\ stage[w] = "download"
    /\ objs' = objs \cup FromForgejo
    /\ Goto(w, "resolve")
    /\ UNCHANGED <<srcRef, jobs, bare, refLock, encVars, githubVars, budgetVars>>

\* The job's commit may be gone: force-pushed away before any fetch.
ResolveCommit(w) ==
    /\ stage[w] = "resolve"
    /\ \/ Job(w).commit \in objs /\ Goto(w, "init") /\ UNCHANGED jobs
       \/ Job(w).commit \notin objs /\ JobError(w)
    /\ UNCHANGED <<srcRef, cacheVars, encVars, githubVars, budgetVars>>

(***************************************************************************)
(* InitWorkingRepo: the test for .git, then git init, which creates .git   *)
(* before it is a repository.  Workers that both found none may run it     *)
(* together; the second finds a repository, or a lock of the first's.      *)
(***************************************************************************)
\* Mutant of InitWorkingRepo: git init whenever .git is no repository yet.
InitWorkingRepoRepairs(w) ==
    /\ stage[w] = "init"
    /\ Goto(w, IF enc # "ready" THEN "initialise" ELSE "list")
    /\ UNCHANGED <<srcRef, jobs, cacheVars, encVars, githubVars, budgetVars>>

InitWorkingRepo(w) ==
    /\ stage[w] = "init"
    /\ Goto(w, IF enc = "absent" THEN "initialise" ELSE "list")
    /\ UNCHANGED <<srcRef, jobs, cacheVars, encVars, githubVars, budgetVars>>

StartInit(w) ==
    /\ stage[w] = "initialise"
    /\ enc' = IF enc = "absent" THEN "partial" ELSE enc
    /\ \/ Goto(w, "finishInit") /\ UNCHANGED jobs
       \/ enc = "partial" /\ JobError(w)
    /\ UNCHANGED <<srcRef, cacheVars, log, worktree, index, indexLock, era, githubVars, budgetVars>>

FinishInit(w) ==
    /\ stage[w] = "finishInit"
    /\ enc' = "ready"
    /\ Goto(w, "list")
    /\ UNCHANGED <<srcRef, jobs, cacheVars, log, worktree, index, indexLock, era, githubVars,
                   budgetVars>>

(***************************************************************************)
(* UpdateEncryptedHistory.  The resume point is the Source-Commit trailer  *)
(* of HEAD.  CommitAll appends the trailer only if the message does not    *)
(* contain "Source-Commit:" anywhere; otherwise git reads back what the    *)
(* author wrote: some other commit, a value that names no object of        *)
(* <repo>.git, or nothing (None).  Nothing is also what it reads back of   *)
(* an empty message, whose trailer becomes the title.                      *)
(***************************************************************************)
Trailer(c) == IF OwnTrailer[c] = NoMention THEN c ELSE OwnTrailer[c]

\* Mutant of LastSourceCommit: always a full replay.
LastSourceCommitNone == None

LastSourceCommit == IF log = <<>> THEN None ELSE log[Len(log)].trailer

\* Mutant of ListCommits: "nothing to do" is taken for success.
ListCommitsSkipsPush(w) ==
    /\ stage[w] = "list"
    /\ LastSourceCommit \in objs \cup {None}
    /\ \E s \in RevListOrders(Ancestors[Job(w).commit] \ Reach({LastSourceCommit})) :
          \/ /\ s = <<>> /\ Succeed(w)
          \/ /\ s # <<>> /\ UNCHANGED <<jobs, current>>
             /\ commits' = [commits EXCEPT ![w] = s] /\ next' = [next EXCEPT ![w] = 1]
             /\ stage' = [stage EXCEPT ![w] = "clear"]
    /\ UNCHANGED <<srcRef, cacheVars, encVars, githubVars, budgetVars>>
\* Mutant of ListCommits: an empty range is taken for an error.
ListCommitsNoneIsError(w) ==
    /\ stage[w] = "list"
    /\ \E s \in RevListOrders(Ancestors[Job(w).commit] \ Reach({LastSourceCommit})) :
          \/ /\ s = <<>> /\ JobError(w)
          \/ /\ s # <<>> /\ UNCHANGED <<jobs, current>>
             /\ commits' = [commits EXCEPT ![w] = s] /\ next' = [next EXCEPT ![w] = 1]
             /\ stage' = [stage EXCEPT ![w] = "clear"]
    /\ UNCHANGED <<srcRef, cacheVars, encVars, githubVars, budgetVars>>

\* rev-list last..target, or target's whole ancestry if there is no last; it
\* fails on a last that is no object of <repo>.git.  git log refuses a .git
\* that is no repository yet.
ListCommits(w) ==
    /\ stage[w] = "list"
    /\ \/ /\ enc = "ready" /\ LastSourceCommit \in objs \cup {None}
          /\ \E s \in RevListOrders(Ancestors[Job(w).commit] \ Reach({LastSourceCommit})) :
                /\ commits' = [commits EXCEPT ![w] = s]
                /\ stage' = [stage EXCEPT ![w] = IF s = <<>> THEN "destination" ELSE "clear"]
          /\ next' = [next EXCEPT ![w] = 1]
          /\ UNCHANGED <<jobs, current>>
       \/ /\ enc # "ready" \/ LastSourceCommit \notin objs \cup {None}
          /\ JobError(w)
    /\ UNCHANGED <<srcRef, cacheVars, encVars, githubVars, budgetVars>>

Commit(w) == commits[w][next[w]]

\* Mutant of ClearWorkingTree: the previous commit's files stay.
ClearWorkingTreeKeeps(w) ==
    /\ stage[w] = "clear"
    /\ worktree' = [worktree EXCEPT !.manifest = None]
    /\ Goto(w, "encrypt")
    /\ UNCHANGED <<srcRef, jobs, cacheVars, enc, log, index, indexLock, era, githubVars, budgetVars>>

\* The commit is exported to a private directory, then <repo>.enc is emptied.
ClearWorkingTree(w) ==
    /\ stage[w] = "clear"
    /\ worktree' = EmptyTree
    /\ Goto(w, "encrypt")
    /\ UNCHANGED <<srcRef, jobs, cacheVars, enc, log, index, indexLock, era, githubVars, budgetVars>>

\* Mutant of EncryptFiles: every commit gets the tree of the job's commit.
EncryptFilesOfTip(w) ==
    /\ stage[w] = "encrypt"
    /\ worktree' = [worktree EXCEPT !.files = @ \cup {Job(w).commit}]
    /\ Goto(w, "manifest")
    /\ UNCHANGED <<srcRef, jobs, cacheVars, enc, log, index, indexLock, era, githubVars, budgetVars>>

EncryptFiles(w) ==
    /\ stage[w] = "encrypt"
    /\ worktree' = [worktree EXCEPT !.files = @ \cup {Commit(w)}]
    /\ Goto(w, "manifest")
    /\ UNCHANGED <<srcRef, jobs, cacheVars, enc, log, index, indexLock, era, githubVars, budgetVars>>

WriteManifest(w) ==
    /\ stage[w] = "manifest"
    /\ worktree' = [worktree EXCEPT !.manifest = Commit(w)]
    /\ Goto(w, "add")
    /\ UNCHANGED <<srcRef, jobs, cacheVars, enc, log, index, indexLock, era, githubVars, budgetVars>>

\* CommitAll: git add -A, then git commit of what is staged.
StageAll(w) ==
    /\ stage[w] = "add" /\ ~indexLock
    /\ index' = worktree
    /\ Goto(w, "commit")
    /\ UNCHANGED <<srcRef, jobs, cacheVars, enc, log, worktree, indexLock, era, githubVars, budgetVars>>

Entry(c) == [src |-> c, trailer |-> Trailer(c), tree |-> index, era |-> era]

\* Mutant of AppendToLog: the commit amends HEAD.
AppendToLogAmends(c) == Append(SubSeq(log, 1, Len(log) - 1), Entry(c))

AppendToLog(c) == Append(log, Entry(c))

\* Mutant of CommitStaged: the loop leaves out the last commit.
CommitStagedStopsEarly(w) ==
    /\ stage[w] = "commit" /\ ~indexLock
    /\ log' = AppendToLog(Commit(w))
    /\ next' = [next EXCEPT ![w] = @ + 1]
    /\ stage' = [stage EXCEPT ![w] = IF next[w] + 1 < Len(commits[w]) THEN "clear" ELSE "destination"]
    /\ UNCHANGED <<srcRef, jobs, cacheVars, enc, worktree, index, indexLock, era, githubVars,
                   current, commits, budgetVars>>

CommitStaged(w) ==
    /\ stage[w] = "commit" /\ ~indexLock
    /\ log' = AppendToLog(Commit(w))
    /\ next' = [next EXCEPT ![w] = @ + 1]
    /\ stage' = [stage EXCEPT ![w] = IF next[w] < Len(commits[w]) THEN "clear" ELSE "destination"]
    /\ UNCHANGED <<srcRef, jobs, cacheVars, enc, worktree, index, indexLock, era, githubVars,
                   current, commits, budgetVars>>

\* Either command finds index.lock: a dead git's, or another worker's.
IndexLocked(w) ==
    /\ stage[w] \in {"add", "commit"}
    /\ indexLock \/ \E v \in Workers \ {w} : stage[v] \in {"add", "commit"}
    /\ JobError(w)
    /\ UNCHANGED <<srcRef, cacheVars, encVars, githubVars, budgetVars>>

(***************************************************************************)
(* The GitHub half: skip it without a token; EnsureRepository checks, then *)
(* creates; the push is HEAD of <repo>.enc, whatever that is by now, to    *)
(* the job's branch, and GitHub refuses it unless it fast-forwards.        *)
(***************************************************************************)
SkipPush(w) ==
    /\ stage[w] = "destination" /\ ~pushEnabled
    /\ Succeed(w)
    /\ UNCHANGED <<srcRef, cacheVars, encVars, githubVars, budgetVars>>

CheckRepository(w) ==
    /\ stage[w] = "destination" /\ pushEnabled
    /\ Goto(w, IF AutoCreate /\ ~ghExists THEN "create" ELSE "push")
    /\ UNCHANGED <<srcRef, jobs, cacheVars, encVars, githubVars, budgetVars>>

\* A second creation is refused (422).
CreateRepository(w) ==
    /\ stage[w] = "create"
    /\ ghExists' = TRUE
    /\ \/ ~ghExists /\ Goto(w, "push") /\ UNCHANGED jobs
       \/ ghExists /\ JobError(w)
    /\ UNCHANGED <<srcRef, cacheVars, encVars, pushEnabled, remote, budgetVars>>

FastForwards(b) ==
    /\ Len(remote[b]) <= Len(log)
    /\ \A i \in 1 .. Len(remote[b]) : remote[b][i] = log[i]

\* Mutant of PushWorkingRepo: succeeds without the remote having moved.
PushWorkingRepoUnchecked(w) ==
    /\ stage[w] = "push"
    /\ remote' \in {remote, [remote EXCEPT ![Job(w).branch] = log]}
    /\ Succeed(w)
    /\ UNCHANGED <<srcRef, cacheVars, encVars, pushEnabled, ghExists, budgetVars>>

\* Mutant of PushWorkingRepo: git push --force.
PushWorkingRepoForces(w) ==
    /\ stage[w] = "push"
    /\ remote' = [remote EXCEPT ![Job(w).branch] = log]
    /\ Succeed(w)
    /\ UNCHANGED <<srcRef, cacheVars, encVars, pushEnabled, ghExists, budgetVars>>

PushWorkingRepo(w) ==
    /\ stage[w] = "push"
    /\ \/ /\ FastForwards(Job(w).branch)
          /\ remote' = [remote EXCEPT ![Job(w).branch] = log]
          /\ Succeed(w)
       \/ /\ ~FastForwards(Job(w).branch)
          /\ JobError(w)
          /\ UNCHANGED remote
    /\ UNCHANGED <<srcRef, cacheVars, encVars, pushEnabled, ghExists, budgetVars>>

\* GitHub has the branch locked for another worker's push.
PushCollides(w) ==
    /\ stage[w] = "push"
    /\ \E v \in Workers \ {w} : stage[v] = "push" /\ Job(v).branch = Job(w).branch
    /\ JobError(w)
    /\ UNCHANGED <<srcRef, cacheVars, encVars, githubVars, budgetVars>>

(***************************************************************************)
(* Failures.  Any command, request or system call of the handler may fail. *)
(* A push or a creation may fail after GitHub has accepted it.  A failed   *)
(* clone removes what it had written.                                      *)
(***************************************************************************)
PushUnacknowledged(w) ==
    /\ stage[w] = "push" /\ faults < MaxFaults
    /\ FastForwards(Job(w).branch)
    /\ remote' = [remote EXCEPT ![Job(w).branch] = log]
    /\ faults' = faults + 1
    /\ JobError(w)
    /\ UNCHANGED <<srcRef, cacheVars, encVars, pushEnabled, ghExists, restarts>>

Fault(w) ==
    /\ stage[w] # "idle" /\ faults < MaxFaults
    /\ faults' = faults + 1
    /\ JobError(w)
    /\ \/ stage[w] \in {"clone", "download"} /\ bare' = "absent" /\ objs' = {} /\ refLock' = FALSE
       \/ stage[w] \notin {"clone", "download"} /\ UNCHANGED cacheVars
    /\ \/ UNCHANGED ghExists
       \/ stage[w] = "create" /\ ghExists' = TRUE
    /\ UNCHANGED <<srcRef, encVars, pushEnabled, remote, restarts>>

(***************************************************************************)
(* The process ends: a crash, or pool.Stop, whose cancelled context kills  *)
(* running git commands (SIGKILL) and abandons retries.  Queue and workers *)
(* are memory; the cache directory stays as it is, with the locks of the   *)
(* git that was killed: of the index or the branch of <repo>.enc, or of    *)
(* the refs of <repo>.git.                                                 *)
(***************************************************************************)
ProcessEnds ==
    /\ jobs' = [j \in 1 .. Len(jobs) |->
                  IF jobs[j].state \in {"queued", "running"}
                  THEN [jobs[j] EXCEPT !.state = "lost"] ELSE jobs[j]]
    /\ stage' = [w \in Workers |-> "idle"]
    /\ current' = [w \in Workers |-> 0]
    /\ commits' = [w \in Workers |-> <<>>]
    /\ next' = [w \in Workers |-> 1]

Restart ==
    /\ restarts < MaxRestarts
    /\ restarts' = restarts + 1
    /\ ProcessEnds
    /\ \/ UNCHANGED indexLock
       \/ Busy({"add", "commit"}) /\ indexLock' = TRUE
    /\ \/ UNCHANGED refLock
       \/ Busy({"fetch", "download"}) /\ bare # "absent" /\ refLock' = TRUE
    /\ UNCHANGED <<srcRef, bare, objs, enc, log, worktree, index, era, githubVars, faults>>

\* The service stops and starts again on an empty cache directory.
LoseCache ==
    /\ era < MaxEras /\ restarts < MaxRestarts
    /\ era' = era + 1 /\ restarts' = restarts + 1
    /\ ProcessEnds
    /\ bare' = "absent" /\ objs' = {} /\ refLock' = FALSE /\ enc' = "absent"
    /\ log' = <<>> /\ worktree' = EmptyTree /\ index' = EmptyTree /\ indexLock' = FALSE
    /\ UNCHANGED <<srcRef, githubVars, faults>>

-----------------------------------------------------------------------------

Step(w) ==
    \/ TakeJob(w)
    \/ CheckMirror(w) \/ Fetch(w) \/ RefLocked(w)
    \/ StartClone(w) \/ ConfigureClone(w) \/ FinishClone(w)
    \/ ResolveCommit(w)
    \/ InitWorkingRepo(w) \/ StartInit(w) \/ FinishInit(w)
    \/ ListCommits(w)
    \/ ClearWorkingTree(w) \/ EncryptFiles(w) \/ WriteManifest(w)
    \/ StageAll(w) \/ CommitStaged(w) \/ IndexLocked(w)
    \/ SkipPush(w) \/ CheckRepository(w) \/ CreateRepository(w)
    \/ PushWorkingRepo(w) \/ PushCollides(w)

Next ==
    \/ \E b \in Branches, c \in Commits : SourcePush(b, c)
    \/ \E w \in Workers : Step(w) \/ PushUnacknowledged(w) \/ Fault(w)
    \/ Restart
    \/ LoseCache

Spec == Init /\ [][Next]_vars

-----------------------------------------------------------------------------
Sources(l) == [i \in 1 .. Len(l) |-> l[i].src]

Trees == [files : SUBSET Commits, manifest : Commits \cup {None}]
Entries == [src : Commits, trailer : Commits \cup {None, NoObject}, tree : Trees, era : 0 .. MaxEras]
Jobs == [branch : Branches, commit : Commits, attempts : 0 .. MaxRetries + 1, state : JobStates]

(***************************************************************************)
(* Type invariant.  The part that is not mere typing: a job is attempted   *)
(* at most MaxRetries + 1 times, a busy worker holds an existing job, and  *)
(* one in the loop over commits is at an existing position.                *)
(***************************************************************************)
TypeOK ==
    /\ srcRef \in [Branches -> Commits \cup {None}]
    /\ jobs \in Seq(Jobs)
    /\ bare \in {"absent", "unconfigured", "ready"} /\ objs \in SUBSET Commits
    /\ refLock \in BOOLEAN
    /\ enc \in {"absent", "partial", "ready"} /\ log \in Seq(Entries)
    /\ worktree \in Trees /\ index \in Trees
    /\ indexLock \in BOOLEAN /\ era \in 0 .. MaxEras
    /\ pushEnabled \in BOOLEAN /\ ghExists \in BOOLEAN
    /\ remote \in [Branches -> Seq(Entries)]
    /\ stage \in [Workers -> Stages]
    /\ current \in [Workers -> Nat]
    /\ commits \in [Workers -> Seq(Commits)]
    /\ next \in [Workers -> Nat \ {0}]
    /\ faults \in 0 .. MaxFaults /\ restarts \in 0 .. MaxRestarts
    /\ \A w \in Workers : stage[w] # "idle" => current[w] \in 1 .. Len(jobs)
    /\ \A w \in Workers : stage[w] \in InLoop => next[w] \in 1 .. Len(commits[w])

(***************************************************************************)
(* "Mirroring can resume exactly where it left off": whatever the workers, *)
(* restarts and failures, no commit enters the encrypted history before    *)
(* everything it reaches (UpdateEncryptedHistory, ListCommits).            *)
(***************************************************************************)
AncestorsMirrored == AncestorClosed(Sources(log))

(***************************************************************************)
(* "A backup can be decrypted back into an exact copy of the tree at any   *)
(* commit": every encrypted commit holds the tree of the source commit it  *)
(* is labelled with, all of it and nothing else (ClearWorkingTree,         *)
(* Encrypt, CommitAll, over failures and restarts between them).           *)
(***************************************************************************)
FaithfulTrees == \A i \in 1 .. Len(log) : log[i].tree = TreeOf(log[i].src)

(***************************************************************************)
(* "Every source commit maps to exactly one encrypted commit" (CommitAll). *)
(***************************************************************************)
ExactlyOnce ==
    \A i, k \in 1 .. Len(log) : log[i].src = log[k].src => i = k

(***************************************************************************)
(* Every remote branch is an initial part of the local encrypted history,  *)
(* so GitHub never has a reason to refuse a push (PushWorkingRepo).        *)
(***************************************************************************)
RemotesArePrefixes == \A b \in Branches : FastForwards(b)

(***************************************************************************)
(* A job reported as succeeded is backed up: its commit and everything it  *)
(* reaches is on the job's branch on GitHub (the handler of main.go).      *)
(***************************************************************************)
SucceededIsBackedUp ==
    \A j \in 1 .. Len(jobs) :
        pushEnabled /\ jobs[j].state = "succeeded" =>
            Ancestors[jobs[j].commit] \subseteq Listed(Sources(remote[jobs[j].branch]))

(***************************************************************************)
(* A job that succeeds leaves its commit and everything it reaches in the  *)
(* local encrypted history, even if another worker or the loss of the      *)
(* cache intervened (UpdateEncryptedHistory, run without github.token).    *)
(***************************************************************************)
SuccessIsMirrored ==
    [][\A j \in 1 .. Len(jobs) :
          jobs[j].state # "succeeded" /\ jobs'[j].state = "succeeded" =>
              Ancestors[jobs[j].commit] \subseteq Listed(Sources(log'))]_vars

(***************************************************************************)
(* What can stand in the way of every later job: what a killed process     *)
(* left behind (an index.lock or a lock of a ref, in either repository;    *)
(* the .git of a git init cut short; the mirror of a clone cut short), or  *)
(* a commit at HEAD whose own message has a trailer that names no object.  *)
(***************************************************************************)
HalfInit == enc = "partial" /\ ~Busy({"finishInit"})
HalfClone == bare = "unconfigured" /\ ~Busy({"clone", "download"})
DeadEnd == LastSourceCommit \notin objs \cup {None} /\ ~Busy(InLoop)
Leftover == indexLock \/ refLock \/ HalfInit \/ HalfClone \/ DeadEnd

(***************************************************************************)
(* Unless there is such a leftover, an attempt of a job fails only because *)
(* a command failed: of the attempts a job has used, each is due to a      *)
(* fault.  So a retry after a lost answer, a fetch, a clone or an init cut *)
(* short by an error, and a restart anywhere else, stand in nobody's way   *)
(* (the handler, EnsureMirror, InitWorkingRepo, UpdateEncryptedHistory).   *)
(***************************************************************************)
NoSpuriousFailure ==
    ~Leftover => \A j \in 1 .. Len(jobs) : jobs[j].attempts <= faults

(***************************************************************************)
(* Whatever the service does with the cache it has, each kind of leftover  *)
(* stays, so somebody has to remove it by hand: EnsureMirror asks only     *)
(* whether there is a HEAD and InitWorkingRepo whether there is a .git,    *)
(* nobody looks for a lock, and no resume point but HEAD's is ever tried.  *)
(* Said of jobs that run one at a time: a second worker may complete the   *)
(* init or the clone of one that was killed with it.                       *)
(***************************************************************************)
EachRemains ==
    era' = era =>
        /\ indexLock => indexLock'
        /\ refLock => refLock'
        /\ HalfInit => HalfInit'
        /\ HalfClone => HalfClone'
        /\ DeadEnd => DeadEnd'
LeftoversRemain == [][EachRemains]_vars

(***************************************************************************)
(* "A restart picks up exactly where it left off": once the repository is  *)
(* cloned and <repo>.enc made, a restart alone never makes a later job     *)
(* fail for good.                                                          *)
(***************************************************************************)
RestartIsHarmless ==
    faults = 0 /\ bare = "ready" /\ enc = "ready" =>
        \A j \in 1 .. Len(jobs) : jobs[j].state # "failed"

(***************************************************************************)
(* The pipeline implements BackupHistory: the encrypted commits' labels    *)
(* are the history, the labels on GitHub what is published, the succeeded  *)
(* jobs what is acknowledged.                                              *)
(***************************************************************************)
Acknowledged ==
    {<<jobs[j].branch, jobs[j].commit>> : j \in {k \in 1 .. Len(jobs) :
        pushEnabled /\ jobs[k].state = "succeeded"}}

Backup == INSTANCE BackupHistory WITH
    history <- Sources(log),
    published <- [b \in Branches |-> Sources(remote[b])],
    acknowledged <- Acknowledged

ImplementsBackupHistory == Backup!Spec

(***************************************************************************)
(* What somebody who has only GitHub can rely on, whatever becomes of the  *)
(* cache: no branch shows a commit before everything it reaches, and no    *)
(* branch ever loses a commit it has shown (PushWorkingRepo, which never   *)
(* forces, after UpdateEncryptedHistory on an old or a new <repo>.enc).    *)
(***************************************************************************)
PublishedClosed == Backup!PublishedClosed
PublishedOnlyGrows == Backup!PublishedOnlyGrows

(***************************************************************************)
(* A push reported as mirrored can be restored from GitHub alone, at every *)
(* commit it reaches: each is on the job's branch with its own tree (the   *)
(* handler of main.go; UpdateEncryptedHistory and PushWorkingRepo over     *)
(* failures, retries and restarts).                                        *)
(***************************************************************************)
SucceededIsRestorable ==
    \A j \in 1 .. Len(jobs) :
        pushEnabled /\ jobs[j].state = "succeeded" =>
            \A d \in Ancestors[jobs[j].commit] : \E i \in 1 .. Len(remote[jobs[j].branch]) :
                LET e == remote[jobs[j].branch][i]
                IN  e.src = d /\ e.tree = TreeOf(d)

(***************************************************************************)
(* What the handler needs of the queue, and what JobQueue is shown to      *)
(* provide, is one abstraction: both implement JobPool.  Here the retry is *)
(* immediate and the pool is never closed without the process ending.      *)
(***************************************************************************)
PoolState == [j \in 1 .. MaxJobs |->
    IF j > Len(jobs) THEN "none"
    ELSE IF jobs[j].state = "queued" THEN "waiting" ELSE jobs[j].state]
PoolTries == [j \in 1 .. MaxJobs |->
    IF PoolState[j] \in {"waiting", "running"} THEN jobs[j].attempts ELSE 0]

Pool == INSTANCE JobPool WITH
    Jobs <- 1 .. MaxJobs, Size <- Cardinality(Workers),
    state <- PoolState, tries <- PoolTries, closed <- FALSE

ImplementsJobPool == Pool!Spec

(***************************************************************************)
(* The hypotheses under which the above are claimed.                       *)
(***************************************************************************)
PlainMessages == \A c \in Commits : OwnTrailer[c] = NoMention

\* The weaker one: what git reads as an author's own Source-Commit is nothing,
\* a value that names no object, or a commit that the author's commit reaches (a
\* trailer copied with the message).
NoForeignTrailers ==
    \A c \in Commits : OwnTrailer[c] \in {NoMention, None, NoObject} \cup Ancestors[c]
=============================================================================
