# A verification project for forgejo-encrypt-mirror

The service receives Forgejo push webhooks, keeps a bare mirror of each source
repository, replays its commits into a second repository whose files are
age-encrypted, and pushes that repository to GitHub; the `restore` command
decrypts it. This directory holds TLA+ models of its core, the TLC runs that
check them on small instances, and TLAPS proofs of most of their safety
properties for all instances. Paths below are relative to the repository
(`src/` here).

## 1. Inventory

| Component | State it keeps | Operations | Talks to | What is hard | What makes it correct |
|---|---|---|---|---|---|
| Webhook intake (`internal/webhook`) | secrets, replay cache with a TTL | `ServeHTTP`: verify, remember the delivery ID, parse, enqueue | HTTP server (one goroutine per request), queue | copies of a delivery served at once; rotation of secrets across restarts; a full queue | one job per remembered delivery; no refusal in a correct rotation; a refused signature is not a duplicate later |
| Job queue, pool (`internal/queue`) | channel, status records, worker goroutines, retry goroutines (memory only) | `Enqueue`, `process`, `scheduleRetry`, `PruneOlderThan`, `Stop` | intake, job handler, status endpoints | channel operations and record updates are separate steps; blocking sends; handlers that hang; Stop after the server has drained | a job is in one place, not lost, runs a bounded number of times, ends; records are consistent; Stop returns |
| Job handler (`cmd/mirror/main.go`, `internal/mirror`) | none of its own | EnsureMirror, ResolveCommit, UpdateEncryptedHistory, EnsureRepository, push | everything below | three workers, no lock per repository; any command fails; process dies between any two | order and completeness of the encrypted history; success means backed up |
| Git engine, bare mirror (`internal/git/engine.go`) | `<repo>.git` | `EnsureMirror`, `fetch`, `ResolveCommit`, `PushWorkingRepo` | Forgejo, GitHub | test-then-clone; clones killed half-way; refs locked by a killed or another git; force pushes | later jobs find the commits |
| Git history (`internal/git/history.go`) | `<repo>.enc`: history, index, directory, index.lock | `InitWorkingRepo`, `ListCommits`, `ExportTree`, `ClearWorkingTree`, `CommitAll`, `LastSourceCommit` | git | the resume point is a trailer in a message; rev-list orders by date; a `git init` cut short; what `git archive` makes of a tree and `extractTar` refuses | no commit before its ancestors, each once, each with its tree |
| GitHub client (`internal/github`) | GitHub's repositories | `RepositoryExists`, `CreateRepository`, `EnsureRepository` | GitHub | check-then-create; lost answers; the endpoint depends on the account | creation never fails a push for good, and creates only destinations |
| Encryption (`internal/encrypt`) | files and manifest in `<repo>.enc`; `.encryption-recipients` | `Encrypt`, `Decrypt`, `LoadRecipients`, `DetectRotation` | handler, main, restore | crash in the middle of a tree or of the state file; changed recipients; names that collide, get too long or are not UTF-8; an `.encryptignore` that cannot be read | restores of what was archived, readable by every recipient; refusals only for a commit's own tree; rotations reported |
| Restore (`cmd/restore`) | its output directory | `run` with or without `-commit` | `<repo>.enc`, possibly beside the service | reads a directory that is being rewritten; writes into one that is in use | the output is the tree of a commit, over what was there |
| HTTP server (`internal/server`) | none | wiring, status, health, metrics, shutdown | intake, queue | requests cut off by shutdown | (see intake) |
| Configuration (`internal/config`) | configuration | `WebhookSecrets`, `GitHubDestination`, load, validate | main | two repositories routed to one destination; configurations that change between runs | no backup overwrites another; success is at the destination; a refusal has a reason |
| Audit, metrics, logging | write-only output | | | | |

A push travels: intake (`WebhookIntake`) -> queue and pool (`JobQueue`) ->
handler over the two cache directories and GitHub (`MirrorPipeline`) -> the
place on GitHub among all repositories (`Routing`) -> trees and keys, entry by
entry, and back through restore (`Recovery`). Each model abstracts its
neighbours: `WebhookIntake` sees the queue as a counter, `JobQueue` the handler
as "succeeds, fails or hangs", `MirrorPipeline` a tree as the commit it belongs
to, `Routing` the mirroring as a count of commits of linear histories that gets
stuck or not, `Recovery` the history as linear with one worker.

Two abstract specifications tie them together. `JobPool` is what the handler
needs of the queue: `JobQueue` implements it (proved), and the jobs of
`MirrorPipeline` behave as it says (proved), so the handler is run by nothing
the queue does not provide. `BackupHistory` is what a user is promised of one
repository: `MirrorPipeline` implements it (proved).

## 2. Modules

| Module | What it models |
|---|---|
| `CommitGraph` | commits, what they reach, and `RevListOrders`: the orders `git rev-list --reverse` may produce, ties and skewed dates included |
| `BackupHistory` | abstract: an append-only, ancestor-closed history, remote branches that move forward along it, acknowledgements that are true |
| `JobPool` | abstract: a job waits or is run by one worker, is retried `MaxRetries` times at most, ends once, and is lost only with the pool or the process |
| `MirrorPipeline` | the job handler with all it calls, run by several workers over one repository |
| `JobQueue` | `internal/queue` in full, with the shutdown of `internal/server` and `main` |
| `WebhookIntake` | `internal/webhook` in full, with the wiring in `internal/server` and `Config.WebhookSecrets` |
| `Routing` | `GitHubDestination`, `ValidateName`, `internal/github` and the second half of the handler, for several repositories, accounts and configurations |
| `Recovery` | `internal/encrypt`, `ExportTree`/`extractTar`, `cmd/restore`, the start of `cmd/mirror` |
| `MCMirrorPipeline`, `MCWebhookIntake`, `MCRouting`, `MCRecovery` | commit graphs, configurations, trees, deliveries, views and symmetry for TLC |
| `MirrorPipelineProofs`, `BackupProofs`, `SingleWorkerProofs` | theorems about `MirrorPipeline`: types and order of the history; the refinement of `BackupHistory` and what success means; what holds when jobs of the repository do not run together |
| `PipelinePoolProofs` | `MirrorPipeline` implements `JobPool` |
| `JobQueueProofs`, `WebhookIntakeProofs`, `RoutingProofs`, `RecoveryProofs` | theorems about those modules |

### MirrorPipeline and the code

State: `bare`, `objs`, `refLock` are `<repo>.git`; `enc`, `log`, `worktree`, `index`,
`indexLock`, `era` are `<repo>.enc`; `ghExists`, `remote` are GitHub,
`pushEnabled` says whether a token is configured; `srcRef` is Forgejo; `jobs`,
`stage`, `current` stand for queue and goroutines; `commits`, `next` are the
loop of `UpdateEncryptedHistory`. An encrypted commit is identified by source
commit, trailer, tree and `era`: age encryption is randomised, so a history
rebuilt in another era shares no commit with the old one. Each external
command, or each part of one that another worker or a crash can observe, is an
action: `CheckMirror` (the test for HEAD), `Fetch`,
`StartClone`/`ConfigureClone`/`FinishClone`, `ResolveCommit`,
`InitWorkingRepo` (the test for .git) and `StartInit`/`FinishInit` (`git init`,
which makes `.git` before it is a repository), `ListCommits`,
`ClearWorkingTree`, `EncryptFiles`, `WriteManifest`, `StageAll` (`git add -A`),
`CommitStaged` (`git commit`), `SkipPush`, `CheckRepository`,
`CreateRepository`, `PushWorkingRepo`. Three actions are failures that nobody
but another git causes: `IndexLocked` (add or commit finds a lock that another
git holds or left), `RefLocked` (a fetch finds a ref or packed-refs locked in
the same ways), `PushCollides` (GitHub has the branch locked for another push).
`Fault` fails any command or request, a creation perhaps after GitHub has done
it; `PushUnacknowledged` is a push whose answer is lost; `Restart` is a stop or
crash, which may leave the lock of what it killed (`indexLock`: of the index or
the branch of `<repo>.enc`; `refLock`: of the refs of `<repo>.git`); `LoseCache`
is a restart on an empty cache.

A message that mentions `Source-Commit:` gets no trailer from `CommitAll`;
`OwnTrailer` says what git then reads back: a commit, nothing (`None`), or a
value that names no object of `<repo>.git` (`NoObject`), on which `ListCommits`
fails from then on. An empty message counts as `None`: its trailer becomes the
title, and no trailer is read back.

Left out: `GetCommitMeta`'s data other than what the message does to the
trailer; lengths of delays; what git does in a `.git` cut short when
some directory above the cache is a repository itself (it would use that one).
The branch of `ListCommits` in which the resume point is not in `<repo>.git` is
in the model; it takes a third job after a force push and a failed clone, which
the passing runs' bounds do not reach (the proofs cover it).

### JobQueue and the code

The channel send of `Enqueue` and its record (`Send`, `SetPending`), a worker's
receive and its first record (`Receive`, `SetRunning`), the timer of
`scheduleRetry` and its blocking send (`TimerFires`, `Resend`) are steps of
their own: no mutex joins them. No git command has a timeout, so a handler may
hang (`HandlerHangs`); the cancelled context kills the command
(`HungIsKilled`), which may still not release the handler, if a child of it
holds its output open, so no fairness is claimed of it. `phase` is the end of
`main`: a signal drains the server (`Signal`), and the deferred `Stop` follows
when no request is left in `Enqueue`. `runs` and `outcome` are history
variables.

### WebhookIntake and the code

One step per stage of a request: `Verify`, `CheckAndRemember` (one critical
section), `Decline`, `Enqueue`. Secrets change by `AddSecret`, `SwitchForgejo`,
`RemoveSecret`, each edit with the restart it needs; `careless` records that
the documented order was broken. `Expire` assumes that no request lasts as long
as the TTL of 24 hours.

### Routing and the code

A name is a sequence of characters, so that `Expand` and `ValidateName` are
computed as in the code. `github` maps destinations to branches, each with the
repository that wrote it (or `Nobody`, or a `Stranger`) and how much. `Mirror`
encrypts one commit a step; `Route` (which ends the job without a token),
`RepositoryExists`, `CreateRepository` (by the account's type, as
`client.go:162-171` chooses the endpoint) and `PushWorkingRepo` are steps.
`GitRefuses` is git failing without a fault: because another worker is in the
same directories or pushes to the same branch (`Contended`), or because the
repository is `stuck`, which `MirrorPipeline` and `Recovery` have in detail: a
commit that cannot be mirrored (`Unmirrorable`), or what a killed command left,
by a fault or a restart. `Fault` may lose an answer after GitHub has acted.
`Restart` picks any configuration that `Validate` accepts. The cache is not
lost here.

### Recovery and the code

The service starts in steps (`LoadRecipients`, `DetectRotation`,
`WriteRotationState` in the two steps of `os.WriteFile`, `ReportRotation`),
mirrors the next commit of a linear history entry by entry, and restore runs
entry by entry beside it. `Archive` is what `git archive` makes of an entry:
nothing (`Unexported`: export-ignore, submodules) or contents that
`.gitattributes` converts (`Archived`: eol, ident, export-subst, filters).
`Extractable` is what `extractTar` accepts, in the archive's order
(`ArchiveOrder`; git sorts a directory as if its name ended in a slash);
`LoadIgnoreFile` may fail on what `.encryptignore` is or holds (`BadIgnore`), and
`Mirrored` is what is exported and not ignored, in WalkDir's order (`Walk`). A
path is a sequence of names, a name a sequence of parts, so that `EncPath` (the
suffix `.age`), directories and the manifest can collide: `Writable` is what the
file system allows, `TooLong` the names without room for the suffix. A commit
that is refused, by `extractTar` or by `Encrypt`, ends in stage `refused`, and so
does every retry. The manifest is JSON, which turns a name that is not UTF-8
into another (`Named`).

Recipients are a list (how often each key is on it), because
`equalStrings` compares sorted lists. Restore goes into a new directory or into
one an earlier restore has filled (`before`), follows the links it finds there,
and fails where the file system does. With `-commit` it exports the encrypted
tree through `extractTar` too, which refuses `..` (`Extracts`): the blob of a
file `x.` is `x..age`.

Left out: file modes; partly written blobs and manifests, which make a reader
fail as missing ones do; the file a failed `Decrypt` leaves half-written in the
output directory; links to links and to directories. That in a tree nothing
lies below a file or a link is git's doing, and an assumption on the histories
too.

## 3. Hypotheses

- `StrictDates`: a commit is dated strictly after what it reaches. Git does not
  enforce it; without it rev-list may list a commit before its ancestor, and a
  failure just after leaves the ancestor out for good.
- `NoForeignTrailers`: what git reads as the trailer of a message that mentions
  `Source-Commit:` is nothing, a value that names no object, or a commit that
  the commit itself reaches (a trailer copied with the message). `CommitAll`
  adds no trailer of its own to such a message, and the resume point is what the
  author wrote: nothing or an ancestor costs a replay, no object stops the
  repository (`DeadEnd`, below), a commit of another line leaves commits out,
  which the hypothesis excludes.
- `PlainMessages`, for `ExactlyOnce` only: no message mentions it.
- `OneInLoop`, `OneAtATime`: no two workers are in the loop over commits, or at
  any step of a job, together. They are hypotheses about the behaviour
  (`Spec /\ []OneInLoop => ...`): they hold with one worker, and of any pool (the
  service starts three) while jobs of the repository do not overlap.
  `pool_trees` shows that trees are not faithful otherwise.
- `~ForcePush`, for `NoSpuriousFailure` and `LeftoversRemain`: branches only move forward on Forgejo;
  a commit that is pushed away before it is fetched fails its job.
- `Linear`: of two source commits one reaches the other. `fork_once` shows that
  a commit can be mirrored twice otherwise.
- `MaxEras = 0`: the cache is never lost. `lost_cache` shows that GitHub refuses
  pushes otherwise.

The runs of `MCMirrorPipeline` assert the first two of their instances
(`ASSUME`); each theorem names those it needs. `CommitGraphAssumption`,
`PipelineAssumption`, `JobQueueAssumption`, `WebhookAssumption`,
`RoutingAssumption`, `RecoveryAssumption` say what the parameters are.

## 4. Runs

| Run | Bounds | Properties and what they show |
|---|---|---|
| `pipeline_linear` | 1 worker, chain of 3 commits of which the last has a stray trailer, 1 branch, 3 jobs, 1 retry, 2 faults, 2 restarts, token or not | `TypeOK`; `FaithfulTrees`, `SucceededIsRestorable`, `ExactlyOnce`, `RemotesArePrefixes`: trees (on GitHub too), uniqueness and fast-forward pushes survive faults and restarts at every step; `NoSpuriousFailure`: an attempt fails only for a fault, unless one of five leftovers is in the way; `LeftoversRemain`: each of these stays; `ImplementsJobPool` |
| `pipeline_pool` | 2 workers, fork and merge (4 commits), 2 branches, force pushes, a message with a bare mention and one with a copied trailer, 2 jobs, 1 fault, 1 restart or loss of the cache, token or not | `AncestorsMirrored`, `SucceededIsBackedUp`, `SuccessIsMirrored`, `ImplementsBackupHistory`: what survives the workers' sharing of `.enc`; `PublishedClosed`, `PublishedOnlyGrows`: what GitHub shows meanwhile |
| `job_queue` | 2 jobs, 2 workers, buffer 1, 2 retries | `TypeOK`, `OnePlace`, `NotLost`, `RunsBounded`, `FinalRecordIsFinal`, `LiveJobHasRecord`, `ImplementsJobPool`, `JobsEndOnce`; `JobsEnd`, `StopReturns` (liveness) |
| `webhook_intake` | 3 deliveries (one without ID, one not a push), 2 copies each, 2 requests at a time, 2 secrets, buffer 1, 2 restarts | `TypeOK`, `AtMostOneJob`, `RotationHasNoDowntime`, `RefusedCanBeResent` |
| `routing` | repositories a-b/c, a/b-c, t/c, the last with a commit that cannot be mirrored; 7 configurations, one without a token; 3 organizations, 2 users, unknown accounts; 2 states of GitHub before; 2 workers, 2 branches, 2 pushes, 1 retry, 1 fault, 1 restart with any configuration | `TypeOK`, `BackupsOnlyGrow`, `SuccessIsBackedUp`, `FailureHasAReason`, `CreatesOnlyDestinations` |
| `recovery` | 5 histories of 3 commits over 10 paths, 2 keys, 3 lists of recipients, 2 events (edits, crashes, deletions), 2 restores into a directory | `TypeOK`, `RestoreGivesArchivedTree`, `EveryRecipientCanRestore`, `RefusedForItsTree`, `RotationIsReported` |
| `pool_trees`, `fork_once`, `restart_lock`, `lost_cache`, `queue_records`, `restore_current` | small | each violates one documented claim, see 6 |

Why these bounds are enough: the hazards of `MirrorPipeline` need two workers in
the loop at once, a range with a merge in it, two branches that fork, a retry
after a fault that followed some commits of a range, and a restart between any
two steps; each occurs within the bounds. A chain of three commits is the
shortest in which a resumed range has a predecessor and a successor; that its
last message has a stray trailer adds the dead end to what a third job can meet.
Two restarts make one that leaves something and one that finds it. A channel
of one slot with two jobs fills and drains, and one worker may hang while the
other goes on. `routing` has repositories that collide by name, by merged owner
and not at all, and a restart takes any pair of configurations; two pushes are
two writers of one place, or two first pushes that create it together. In
`recovery` each history comes to one of the refusals (a link that is archived
before its target; a blob; the manifest; a name that is too long; an
`.encryptignore`) and has one of the names or conversions that a restore can
stumble on, and the event budget allows an edit and a crash, or two crashes.
Each exception of the properties of `routing` and `recovery` is needed: without
it TLC finds the property violated within these bounds (but for invalid names,
whose destinations are out of reach here as well). `TreelessView` leaves trees out of the state's identity (no guard reads
them), `IndexlessView` the staged tree until it is committed; workers,
requests and, in `pipeline_pool`, branches are symmetric. Deadlock is not checked: once the bounded environment is
done the system rests.

## 5. Fairness

`MirrorPipeline`, `Routing`, `Recovery` and `WebhookIntake` assume none and state
no liveness: no git command has a timeout (`history.go:351`,
`engine.go:160,184`), so nothing says that a step of the handler ends.

`JobQueue`: weak fairness of each worker's step, of each retry goroutine
(timers fire, blocked sends proceed) and of the second half of a call of
`Enqueue`; none on signals, `Stop`, pruning, new jobs, hanging or the killing of
what hangs. Since a handler may hang, `JobsEnd` and `StopReturns` except the
jobs and workers that hung handlers hold; they still say that one hung handler
takes neither another job nor `Stop`'s other waiting with it.

## 6. Where the code and its documents part

Each of the first six is a run that TLC finds violated.

1. `pool_trees`: two jobs of one repository share `.enc` unlocked; a commit can
   hold another commit's files (against "an exact copy of the tree at any
   commit").
2. `fork_once`: pushes that alternate between forked branches mirror commits
   twice (against "every source commit maps to exactly one encrypted commit").
3. `restart_lock`: a git killed in `.enc` leaves `index.lock`; every later job
   fails (against "a restart picks up exactly where it left off").
4. `lost_cache`: after a loss of the cache GitHub refuses every push (against
   "safe to lose").
5. `queue_records`: `Enqueue`'s record arrives after the job has ended; it
   reads pending for ever and is never pruned.
6. `restore_current`: restore without `-commit` reads the directory, not HEAD,
   and beside the service can hand out a mixture of two commits.

Seen while modelling, without a run:

- `internal/config/config.go:57-60` gives `{owner}-{repo}` as the default of
  `repoNameFormat`; the code, and its own comment at 153, use `{repo}`.
- `config.go:153-156`, `docs/configuration.md:123` and
  `examples/config.github-multi-owner.yaml:29` say `{owner}-{repo}` avoids
  collisions in a shared organization. `a-b/c` and `a/b-c` both become
  `a-b-c`. `PrefixedNamesDiffer` proves that it is enough that no owner has a
  dash. A collision loses nothing (`OnlyGrow`), but the second repository is
  never backed up.
- An `ownerMap` entry or `owner` that names another user's account makes
  `CreateRepository` create the repository in the token user's account, where
  no push goes (`CreatesOnlyDestinations` excludes it).
- `docs/getting-started.md:296-332` restores into `./restored` twice. `Decrypt`
  does not empty the directory: deleted files stay, any symbolic link in the
  tree makes the second restore fail (`os.Symlink`), and a file is written
  through a link of the same name (`Overlaid`, `InTheWay`, `Opened`).
- "An exact copy of the tree at any commit" (README.md:73-75) is a copy of what
  `git archive` makes of it: `.gitattributes` can leave entries out and convert
  contents (`Archive`). `RestoreGivesArchivedTree` is what the code keeps of
  that claim.
- A commit in which a file `x` is beside a directory `x.age`, or which has a
  directory `manifest.json`, a name with `..` in it, a name that is too long for
  the suffix `.age`, a link to what is archived after it, a directory
  `.encryptignore` or one with a line of more than 64 KiB in it, can never be
  mirrored, and stops the mirroring of its repository (`RefusedForItsTree`).
- A commit with a file `x.` is mirrored, but `restore -commit` refuses it for
  every key, since `x..age` contains `..` (`Extracts`). One with a name that is
  not UTF-8 is mirrored, but its manifest names something else: restore fails
  on a file and gives another name to a link (`Named`). Both are exceptions in
  `EveryRecipientCanRestore`, against "can be decrypted back".
- Five things that nothing in the service removes stand in the way of
  later jobs of a repository: a lock in `<repo>.enc`, a lock of a ref in
  `<repo>.git`, a `.git` or a mirror cut short, and an encrypted HEAD whose
  trailer names no object (`Leftover`, `LeftoversRemain`).
- `rotation.go:30-32`, "reporting whether the recipient set has changed": a key
  put on the list twice changes the list and is reported (`RotationIsReported`).
- `rotation.go:21`: "A missing or empty state file is not treated as a
  rotation"; an empty one is. A crash between truncating and writing the file
  leaves one. `RotationIsReported` therefore excludes the start that follows
  such a crash (`interrupted`), and is true of every other.

## 7. Proofs

All theorems hold for every value of the constants that satisfies the named
assumptions: any finite set of workers, any commit graph, any bounds.

`MirrorPipelineProofs`:

- `TypeCorrect`: `Spec => []TypeOK`. `TypeOK` is not inductive: that a job is
  tried at most `MaxRetries + 1` times needs that a job being tried has been
  tried at most `MaxRetries` times, and that no two workers hold one job. The
  invariant is `TypeInv == QueueInv /\ StoreInv`, in which `HeldJobs` says so;
  each action's effect on either half is a lemma.
- `ResumeSkipsNothing`: under `StrictDates` and `NoForeignTrailers`,
  `Spec => []AncestorsMirrored`, with any number of workers. The invariant
  `HistoryInv` adds, for each worker in the loop, that whatever its next commits
  reach is in the history or earlier in its list (`ReadyAhead`), which stays
  true however much other workers append. Its base is the lemma
  `RevListTopological`: with strict dates, rev-list lists a range after what it
  reaches within the range. A trailer that names an ancestor is a resume point
  whose whole ancestry is mirrored too (`TrailerReaches`, `ResumeIsReady`), and one
  that names no object lists nothing.

`BackupProofs`, under the same two hypotheses. The invariant `BInv` adds
`Covered`: while a worker is in the loop, whatever its job's commit reaches is
mirrored or ahead in its list; after the loop all of it is mirrored.

- `PipelineImplementsBackup`: `Spec => ImplementsBackupHistory`. Appends map to
  `MirrorCommit`, pushes to `Publish` or `Acknowledge`, the loss of the cache to
  `LoseHistory`, everything else to a stutter.
- `BackupPromises`: what `BackupHistory` promises follows from its steps alone,
  whoever takes them: `ImplementsBackupHistory` implies a closed history, closed
  branches that only grow, true acknowledgements. `GitHubStaysWhole` is its
  instance for the pipeline: `[]PublishedClosed` and `PublishedOnlyGrows`, over
  losses of the cache.
- `SuccessStaysBackedUp`, `SuccessMirrors`: what a job reported as succeeded
  means, now and for ever.
- `NoPushRefused` needs neither hypothesis but `MaxEras = 0`: every remote
  branch is an initial part of the local history.

`SingleWorkerProofs`, for behaviours in which jobs do not run together:

- `TreesAreFaithful` (`OneInLoop`): between the steps of a commit nobody else
  touches `.enc`, so each step finds what the one before it left (`TreeInv`), and
  a lock or a fault ends the job before anything is committed.
- `SuccessIsRestorable` (`OneInLoop`, `StrictDates`, `NoForeignTrailers`): what
  GitHub shows was once the local history, so it is as faithful (`RemoteTrees`);
  with `SuccessStaysBackedUp`, a push reported as mirrored can be restored from
  GitHub alone.
- `EachCommitOnce` (`OneInLoop`, `Linear`, `StrictDates`, `PlainMessages`): what
  is mirrored is exactly what the last mirrored commit reaches, so a resumed
  range lists nothing that is mirrored; and rev-list lists nothing twice
  (`OnceInv`).
- `OnlyFailuresFail` (`OneAtATime`, `NoForeignTrailers`, `~ForcePush`,
  `MaxEras = 0`): `[]NoSpuriousFailure`, that no job has used more attempts than
  there were faults while nothing is left over. `Unharmed` adds to it, for every
  step a worker can be at, that what it will ask for is there. It rests on
  `SourceInv` (a job's commit is on its branch, the mirror holds whole
  ancestries), `HeldInv` (what is mirrored is in the mirror, so a resume point
  that names an object names one that is there), `CheckedInv` (what a worker has
  looked at is still so) and `RemotesArePrefixes`.
- `LeftoversStay` (same hypotheses): `LeftoversRemain`, each of the five leftovers
  is removed by no later step, one action at a time (`FaultFrame`, `StepFrame`
  say what an action can change): the exception in `NoSpuriousFailure` is
  permanent.

`PipelinePoolProofs`: `PipelineImplementsPool`, for any finite set of workers:
`Spec => ImplementsJobPool`, so that the queue (`QueueImplementsPool`) and the
handler meet in one abstraction. The invariant `PoolInv` adds to the types that
a running job is in the hands of a busy worker: no more run than there are
workers, and an idle one leaves room.

`JobQueueProofs`: the invariant says that the four kinds of places a job can be
in exclude each other (`Exclusive`), that a job is in one of them exactly from
its send to its end (`Location`), that each copy counts the failed calls of its
handler (`Counting`), and what the records say meanwhile (`Records`). From it
`TypeCorrect`, `JobInOnePlace`, `NoJobLost`, `RetriesBounded`, `FinalIsFinal`,
`LiveJobKeepsRecord`, and `QueueImplementsPool`: `Spec => ImplementsJobPool`,
for any finite set of workers; that no more jobs run than there are workers is
an injection of the running jobs into the workers. `EndsOnce` (`JobsEndOnce`)
follows from `JobPool`'s steps.

`WebhookIntakeProofs`: `Deduplicates` (a delivery that is not remembered has no
job and no request past the check; one that is has at most one of either),
`NoDowntime` (the documented order keeps what Forgejo signs with among the
accepted secrets, for what is in flight too), `Resendable`, `TypeCorrect`.

`RoutingProofs`: `OnlyGrow` and `SuccessBacksUp` (the invariant bounds each
branch by the encrypted history and says what a worker past a step may count
on), `TypeCorrect`, `OnlyDestinations`, `FailsForAReason`, and
`PrefixedNamesDiffer` about `Destination` alone (the first dash splits the name).
`FailsForAReason` is about steps: `ReasonInv` says that whoever is past `Route`
has a token and that whoever is about to push has a destination that exists, or
that nobody can make (`Reached`). As no branch is ahead of what its writer has
encrypted, a refused push then means that the branch is another's.

`RecoveryProofs`, for any trees, keys, edits, crashes and deletions. The
invariant has five parts. `ServiceInv` and `RotationInv` say that a run which
has not been cut off finds in the state file what the last run served with:
`ReportsRotations`. `WorkerInv` follows the encrypted tree entry by entry
(`HasBlobs`): the directory was empty when the walk began, so whatever is in the
way of an entry is another entry of that commit (`RefusesForItsTreeOnly`), and
what is staged and committed is the whole commit for the recipients of the run
(`Holds`, `LogInv`). It needs that no two paths share a blob
(`EncPathInjective`). `RestoreInv` follows restore: after n entries the output
is the first n laid over what was there (`Laid`), and an entry that does not fit
is for other keys, has something in its way or is named otherwise in the
manifest (`EntryDoesNotFit`). From these `RestoresTheArchivedTree` and `RecipientsCanRestore`, for restores beside the running
service too, and `TypeCorrect`.

Only model-checked: liveness under fairness (`JobsEnd`, `StopReturns`), which is
beyond TLAPS. Every other property of a passing run is a theorem. Not proved
either, because it needs induction over a list of commits: that a linear history
needs no `StrictDates`.

## 8. Not modelled

- Audit, metrics and logging: written, never read by the program.
- HMAC, JSON and YAML parsing, age, git's wire protocol, HTTP plumbing, the glob
  syntax of `.encryptignore`, attributes of git: libraries or I/O; the models
  have their outcomes.
- File modes: `Encrypt` records them and `Decrypt` opens files with them.
- `Engine.Push` is called by nothing; `CheckAvailable` and `HeadCommit` only
  read.
- `main`'s `os.Exit` after a server error (`cmd/mirror/main.go:179`) skips
  `Stop`: git commands of that process may outlive it beside the next run's.
  The models' crash ends them.
- The status, health, readiness and metrics endpoints: they change no state.

## 9. Plan

Done: the core (`CommitGraph`, `BackupHistory`, `MirrorPipeline`), `JobQueue`
and `WebhookIntake` with `JobPool` between queue and handler, `Recovery` with
directories and collisions, `Routing`, and the proofs of section 7.

Left: a `git` that outlives its process.
