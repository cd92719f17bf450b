------------------------- MODULE SingleWorkerProofs -------------------------
(***************************************************************************)
(* What MirrorPipeline promises of the encrypted commits themselves when   *)
(* no two jobs of one repository run together (pool_trees shows that they  *)
(* must not).                                                              *)
(***************************************************************************)
EXTENDS BackupProofs

\* No two workers are in the loop over commits together.
OneInLoop ==
    \A v, w \in Workers : stage[v] \in InLoop /\ stage[w] \in InLoop => v = w

(***************************************************************************)
(* Between the steps of a commit nobody else touches <repo>.enc, so what a *)
(* step left there is what the next one finds.                             *)
(***************************************************************************)
TreeInv ==
    /\ FaithfulTrees
    /\ \A w \in Workers :
          /\ stage[w] = "encrypt" => worktree = EmptyTree
          /\ stage[w] = "manifest" => worktree = [files |-> {Commit(w)}, manifest |-> None]
          /\ stage[w] = "add" => worktree = TreeOf(Commit(w))
          /\ stage[w] = "commit" => index = TreeOf(Commit(w))

InTree == {"encrypt", "manifest", "add", "commit"}

LEMMA TreeFrame ==
  ASSUME TreeInv, UNCHANGED <<log, worktree, index>>,
         \A w \in Workers : stage'[w] \in InTree =>
             stage'[w] = stage[w] /\ commits'[w] = commits[w] /\ next'[w] = next[w]
  PROVE  TreeInv'
  <1>1. FaithfulTrees'
    BY DEF TreeInv, FaithfulTrees
  <1>2. \A w \in Workers : stage'[w] \in InTree => stage'[w] = stage[w] /\ Commit(w)' = Commit(w)
    BY DEF Commit
  <1> QED BY <1>1, <1>2 DEF TreeInv, InTree

LEMMA TreeGoto ==
  ASSUME TypeInv, TreeInv, UNCHANGED <<log, worktree, index>>, NEW w \in Workers, NEW s,
         Goto(w, s), s \notin InTree
  PROVE  TreeInv'
  BY TreeFrame DEF Goto, TypeInv, QueueInv

LEMMA TreeLeave ==
  ASSUME TypeInv, TreeInv, UNCHANGED <<log, worktree, index>>, NEW w \in Workers, Leave(w)
  PROVE  TreeInv'
  BY TreeFrame DEF Leave, TypeInv, QueueInv, InTree

\* The four steps of one commit, each of the only worker in the loop.
LEMMA TreeCommit ==
  ASSUME OneInLoop, TypeInv, TreeInv, NEW w \in Workers,
         EncryptFiles(w) \/ WriteManifest(w) \/ StageAll(w) \/ ClearWorkingTree(w)
  PROVE  TreeInv'
  <1>1. log' = log /\ FaithfulTrees'
    BY DEF EncryptFiles, WriteManifest, StageAll, ClearWorkingTree, TreeInv, FaithfulTrees
  <1>2. \A v \in Workers : stage'[v] \in InTree => v = w
    <2>1. /\ stage[w] \in InLoop
          /\ \E t \in Stages : stage' = [stage EXCEPT ![w] = t]
      BY DEF EncryptFiles, WriteManifest, StageAll, ClearWorkingTree, Goto, InLoop, Stages
    <2> QED BY <2>1 DEF OneInLoop, InTree, InLoop, TypeInv, QueueInv
  <1>3. Commit(w)' = Commit(w)
    BY DEF EncryptFiles, WriteManifest, StageAll, ClearWorkingTree, Goto, Commit
  <1>4. CASE ClearWorkingTree(w)
    <2>1. stage'[w] = "encrypt" /\ worktree' = EmptyTree
      BY <1>4 DEF ClearWorkingTree, Goto, TypeInv, QueueInv
    <2> QED BY <1>1, <1>2, <2>1 DEF TreeInv, InTree
  <1>5. CASE EncryptFiles(w)
    <2>1. stage[w] = "encrypt" /\ stage'[w] = "manifest"
          /\ worktree' = [worktree EXCEPT !.files = @ \cup {Commit(w)}]
      BY <1>5 DEF EncryptFiles, Goto, TypeInv, QueueInv
    <2>2. worktree' = [files |-> {Commit(w)}, manifest |-> None]
      BY <2>1 DEF TreeInv, EmptyTree
    <2> QED BY <1>1, <1>2, <1>3, <2>1, <2>2 DEF TreeInv, InTree
  <1>6. CASE WriteManifest(w)
    <2>1. stage[w] = "manifest" /\ stage'[w] = "add"
          /\ worktree' = [worktree EXCEPT !.manifest = Commit(w)]
      BY <1>6 DEF WriteManifest, Goto, TypeInv, QueueInv
    <2>2. worktree' = TreeOf(Commit(w))
      BY <2>1 DEF TreeInv, TreeOf
    <2>3. worktree' = TreeOf(Commit(w))'
      BY <1>3, <2>2 DEF TreeOf
    <2> QED BY <1>1, <1>2, <2>1, <2>3 DEF TreeInv, InTree
  <1>7. CASE StageAll(w)
    <2>1. stage[w] = "add" /\ stage'[w] = "commit" /\ index' = worktree
      BY <1>7 DEF StageAll, Goto, TypeInv, QueueInv
    <2>2. index' = TreeOf(Commit(w))'
      BY <1>3, <2>1 DEF TreeInv, TreeOf
    <2> QED BY <1>1, <1>2, <2>1, <2>2 DEF TreeInv, InTree
  <1> QED BY <1>4, <1>5, <1>6, <1>7

\* The log after a commit.
LEMMA Committed ==
  ASSUME TypeInv, NEW w \in Workers, CommitStaged(w)
  PROVE  /\ Commit(w) \in Commits /\ Len(log) \in Nat /\ Len(log') = Len(log) + 1
         /\ \A i \in 1 .. Len(log) : log'[i] = log[i]
         /\ log'[Len(log) + 1].src = Commit(w) /\ log'[Len(log) + 1].tree = index
         /\ log'[Len(log) + 1].trailer = Trailer(Commit(w))
  <1> DEFINE e == Entry(Commit(w))
  <1>1. stage[w] = "commit" /\ log' = Append(log, e)
    BY DEF CommitStaged, AppendToLog
  <1>2. Commit(w) \in Commits
    BY <1>1, CommitType DEF TypeInv, InLoop
  <1>3. /\ e \in Entries /\ e.src = Commit(w) /\ e.tree = index
        /\ e.trailer = Trailer(Commit(w))
    BY <1>2, EntryType DEF TypeInv, Entry
  <1> HIDE DEF e
  <1> QED BY <1>1, <1>2, <1>3, AppendProperties, LenProperties DEF TypeInv, StoreInv

LEMMA TreeCommitStaged ==
  ASSUME OneInLoop, TypeInv, TreeInv, NEW w \in Workers, CommitStaged(w)
  PROVE  TreeInv'
  <1>1. stage[w] = "commit" /\ stage'[w] \in {"clear", "destination"}
    BY DEF CommitStaged, TypeInv, QueueInv
  <1>2. FaithfulTrees'
    <2>1. log'[Len(log) + 1].tree = TreeOf(log'[Len(log) + 1].src)
      BY <1>1, Committed DEF TreeInv
    <2>2. \A i \in 1 .. Len(log) : log'[i].tree = TreeOf(log'[i].src)
      BY Committed DEF TreeInv, FaithfulTrees
    <2> QED BY <2>1, <2>2, Committed DEF FaithfulTrees
  <1>3. \A v \in Workers : stage'[v] \notin InTree
    <2>1. stage[w] \in InLoop /\ stage' = [stage EXCEPT ![w] = stage'[w]]
      BY <1>1 DEF CommitStaged, InLoop, TypeInv, QueueInv
    <2> QED BY <1>1, <2>1 DEF OneInLoop, InTree, InLoop, TypeInv, QueueInv
  <1> QED BY <1>2, <1>3 DEF TreeInv, InTree

LEMMA StepKeepsTrees ==
  ASSUME OneInLoop, TypeInv, TreeInv, NEW w \in Workers, Step(w)
  PROVE  TreeInv'
  <1>1. CASE TakeJob(w)
    <2>1. /\ UNCHANGED <<log, worktree, index, commits, next>>
          /\ stage' = [stage EXCEPT ![w] = "ensureMirror"]
      BY <1>1 DEF TakeJob, encVars
    <2> QED BY <2>1, TreeFrame DEF TypeInv, QueueInv, InTree
  <1>2. CASE \/ CheckMirror(w) \/ Fetch(w) \/ RefLocked(w)
             \/ StartClone(w) \/ ConfigureClone(w) \/ FinishClone(w)
             \/ ResolveCommit(w) \/ InitWorkingRepo(w) \/ StartInit(w) \/ FinishInit(w)
    <2>1. /\ UNCHANGED <<log, worktree, index>>
          /\ \/ \E s \in {"fetch", "startClone", "resolve", "clone", "download", "init",
                          "initialise", "finishInit", "list"} : Goto(w, s)
             \/ Leave(w)
      BY <1>2 DEF CheckMirror, Fetch, RefLocked, StartClone, ConfigureClone, FinishClone, ResolveCommit,
                  InitWorkingRepo, StartInit, FinishInit, encVars, JobError
    <2> QED BY <2>1, TreeGoto, TreeLeave DEF InTree
  <1>3. CASE ListCommits(w)
    <2>1. UNCHANGED <<log, worktree, index>>
      BY <1>3 DEF ListCommits, encVars
    <2>2. CASE JobError(w)
      BY <2>1, <2>2, TreeLeave DEF JobError
    <2>3. CASE ~JobError(w)
      <3>1. /\ stage'[w] \in {"clear", "destination"}
            /\ \A v \in Workers \ {w} : /\ stage'[v] = stage[v] /\ commits'[v] = commits[v]
                                       /\ next'[v] = next[v]
        BY <1>3, <2>3 DEF ListCommits, TypeInv, QueueInv
      <3> QED BY <2>1, <3>1, TreeFrame DEF InTree
    <2> QED BY <2>2, <2>3
  <1>4. CASE ClearWorkingTree(w) \/ EncryptFiles(w) \/ WriteManifest(w) \/ StageAll(w)
    BY <1>4, TreeCommit
  <1>5. CASE CommitStaged(w)
    BY <1>5, TreeCommitStaged
  <1>6. CASE \/ IndexLocked(w) \/ SkipPush(w) \/ CheckRepository(w) \/ CreateRepository(w)
             \/ PushWorkingRepo(w) \/ PushCollides(w)
    <2>1. /\ UNCHANGED <<log, worktree, index>>
          /\ Goto(w, "create") \/ Goto(w, "push") \/ Leave(w)
      BY <1>6 DEF IndexLocked, SkipPush, CheckRepository, CreateRepository, PushWorkingRepo, PushCollides,
                  encVars, JobError, Succeed
    <2> QED BY <2>1, TreeGoto, TreeLeave DEF InTree
  <1> QED BY <1>1, <1>2, <1>3, <1>4, <1>5, <1>6 DEF Step

LEMMA NextKeepsTrees ==
  ASSUME OneInLoop, TypeInv, TreeInv, [Next]_vars
  PROVE  TreeInv'
  <1>1. ASSUME NEW b \in Branches, NEW c \in Commits, SourcePush(b, c)
        PROVE  TreeInv'
    BY <1>1, TreeFrame DEF SourcePush, encVars, workerVars
  <1>2. ASSUME NEW w \in Workers, PushUnacknowledged(w) \/ Fault(w)
        PROVE  TreeInv'
    BY <1>2, TreeLeave DEF PushUnacknowledged, Fault, JobError, encVars
  <1>3. CASE Restart
    BY <1>3, TreeFrame DEF Restart, ProcessEnds, InTree
  <1>4. CASE LoseCache
    <2>1. Len(log') = 0 /\ \A w \in Workers : stage'[w] = "idle"
      BY <1>4, EmptySeq DEF LoseCache, ProcessEnds
    <2> QED BY <2>1 DEF TreeInv, FaithfulTrees
  <1>5. CASE UNCHANGED vars
    BY <1>5, TreeFrame DEF vars, encVars, workerVars
  <1> QED BY <1>1, <1>2, <1>3, <1>4, <1>5, StepKeepsTrees DEF Next

(***************************************************************************)
(* While no two jobs of the repository are in the loop over commits        *)
(* together, every encrypted commit holds the tree of the source commit it *)
(* is labelled with, whatever the graph, the messages and the number of    *)
(* workers, and whatever fails or restarts in between.                     *)
(***************************************************************************)
THEOREM TreesAreFaithful ==
  Spec /\ []OneInLoop => []FaithfulTrees
  <1>1. Init => TypeInv /\ TreeInv
    <2> SUFFICES ASSUME Init PROVE TreeInv
      BY TypeInvInit
    <2> QED BY EmptySeq DEF Init, TreeInv, FaithfulTrees
  <1>2. OneInLoop /\ TypeInv /\ TreeInv /\ [Next]_vars => (TypeInv /\ TreeInv)'
    BY NextKeepsTypeInv, NextKeepsTrees
  <1>3. TreeInv => FaithfulTrees
    BY DEF TreeInv
  <1> QED BY <1>1, <1>2, <1>3, PTL DEF Spec

(***************************************************************************)
(* What GitHub holds was once the local history, so it is faithful too,    *)
(* after a loss of the cache as well.                                      *)
(***************************************************************************)
RemoteTrees ==
    \A b \in Branches : \A i \in 1 .. Len(remote[b]) :
        remote[b][i].tree = TreeOf(remote[b][i].src)

LEMMA RemoteMoves ==
  ASSUME TypeInv, [Next]_vars
  PROVE  \/ remote' = remote
         \/ \E b \in Branches : remote' = [remote EXCEPT ![b] = log]
  <1>1. ASSUME NEW w \in Workers, stage[w] = "push"
        PROVE  Job(w).branch \in Branches
    BY <1>1, JobOf
  <1>2. ASSUME NEW w \in Workers, Step(w), remote' # remote
        PROVE  stage[w] = "push" /\ remote' = [remote EXCEPT ![Job(w).branch] = log]
    BY <1>2 DEF Step, TakeJob, CheckMirror, Fetch, RefLocked, StartClone, ConfigureClone, FinishClone,
       ResolveCommit, InitWorkingRepo, StartInit, FinishInit, ListCommits, ClearWorkingTree,
       EncryptFiles, WriteManifest, StageAll, CommitStaged, IndexLocked, PushCollides, SkipPush,
       CheckRepository, CreateRepository, PushWorkingRepo, githubVars
  <1> QED BY <1>1, <1>2 DEF Next, SourcePush, PushUnacknowledged, Fault, Restart, LoseCache, vars,
          githubVars

LEMMA NextKeepsRemoteTrees ==
  ASSUME TypeInv, FaithfulTrees, RemoteTrees, [Next]_vars
  PROVE  RemoteTrees'
  <1>1. CASE remote' = remote
    BY <1>1 DEF RemoteTrees
  <1>2. ASSUME NEW b \in Branches, remote' = [remote EXCEPT ![b] = log]
        PROVE  RemoteTrees'
    <2>1. \A a \in Branches : remote'[a] = IF a = b THEN log ELSE remote[a]
      BY <1>2 DEF TypeInv, StoreInv
    <2> QED BY <2>1 DEF RemoteTrees, FaithfulTrees
  <1> QED BY <1>1, <1>2, RemoteMoves

(***************************************************************************)
(* As long as no two workers are in the loop over commits together, what   *)
(* is reported as mirrored can be restored from GitHub alone, at every     *)
(* commit that was pushed, whatever fails, restarts or is lost.            *)
(***************************************************************************)
THEOREM SuccessIsRestorable ==
  ASSUME StrictDates, NoForeignTrailers
  PROVE  Spec /\ []OneInLoop => []SucceededIsRestorable
  <1>1. Init => RemoteTrees
    <2> SUFFICES ASSUME Init PROVE RemoteTrees
      OBVIOUS
    <2>1. \A b \in Branches : remote[b] = <<>> /\ Len(remote[b]) = 0
      BY EmptySeq DEF Init
    <2> QED BY <2>1 DEF RemoteTrees
  <1>2. TypeInv /\ FaithfulTrees /\ RemoteTrees /\ [Next]_vars => RemoteTrees'
    BY NextKeepsRemoteTrees
  <1>3. TypeInv /\ RemoteTrees /\ SucceededIsBackedUp => SucceededIsRestorable
    <2> SUFFICES ASSUME TypeInv, RemoteTrees, SucceededIsBackedUp, pushEnabled,
                        NEW j \in 1 .. Len(jobs), jobs[j].state = "succeeded",
                        NEW d \in Ancestors[jobs[j].commit]
                 PROVE  \E i \in 1 .. Len(remote[jobs[j].branch]) :
                           LET e == remote[jobs[j].branch][i]
                           IN  e.src = d /\ e.tree = TreeOf(d)
      BY DEF SucceededIsRestorable
    <2> DEFINE r == remote[jobs[j].branch]
    <2>1. jobs[j].branch \in Branches
      <3>1. jobs[j] \in Jobs
        BY ElementOfSeq DEF TypeInv, QueueInv
      <3> QED BY <3>1 DEF Jobs
    <2>2. r \in Seq(Entries) /\ d \in Listed(Sources(r))
      BY <2>1 DEF TypeInv, StoreInv, SucceededIsBackedUp
    <2>3. \A i \in 1 .. Len(r) : r[i].tree = TreeOf(r[i].src)
      BY <2>1 DEF RemoteTrees
    <2> HIDE DEF r
    <2>4. PICK i \in 1 .. Len(r) : r[i].src = d
      BY <2>2, SourcesOfLog
    <2> QED BY <2>3, <2>4 DEF r
  <1>4. Spec => []TypeInv
    BY TypeInvInit, NextKeepsTypeInv, PTL DEF Spec
  <1>5. Spec /\ []OneInLoop => []RemoteTrees
    BY <1>1, <1>2, <1>4, TreesAreFaithful, PTL DEF Spec
  <1> QED BY <1>3, <1>4, <1>5, SuccessStaysBackedUp, PTL

(***************************************************************************)
(* Each commit once.  While history does not fork, all that is mirrored is *)
(* reached by what was mirrored last, so nothing mirrored is listed again. *)
(***************************************************************************)
Linear == \A c, d \in Commits : c \in Ancestors[d] \/ d \in Ancestors[c]

\* What a worker has yet to mirror is new and listed once.
NewAhead(w) ==
    \A i \in next[w] .. Len(commits[w]) :
        /\ commits[w][i] \notin Mirrored
        /\ \A k \in next[w] .. Len(commits[w]) : commits[w][i] = commits[w][k] => i = k

\* Every encrypted commit's trailer is its label.
OwnLabels == \A i \in 1 .. Len(log) : log[i].trailer = log[i].src

OnceInv ==
    /\ ExactlyOnce /\ OwnLabels
    /\ \A w \in Workers : stage[w] \in InLoop => NewAhead(w)

LEMMA PlainIsNotForeign == PlainMessages => NoForeignTrailers
  BY DEF PlainMessages, NoForeignTrailers

LEMMA RevListDistinct ==
  ASSUME NEW c \in Commits, NEW range \in SUBSET Ancestors[c], NEW s \in RevListOrders(range)
  PROVE  \A i, k \in 1 .. Len(s) : s[i] = s[k] => i = k
  <1> DEFINE n == Cardinality(range)
  <1>1. IsFiniteSet(range) /\ n \in Nat
    BY CommitGraphAssumption, FS_Subset, FS_CardinalityType
  <1>2. s \in [1 .. n -> range] /\ {s[i] : i \in DOMAIN s} = range /\ DOMAIN s = 1 .. Len(s)
    BY RevListOrdersType DEF RevListOrders
  <1> HIDE DEF n
  <1>3. IsFiniteSet(1 .. n) /\ Cardinality(1 .. n) = n
    BY <1>1, FS_Interval
  <1>4. s \in Surjection(1 .. n, range)
    BY <1>2 DEF Surjection
  <1>5. s \in Injection(1 .. n, range)
    BY <1>3, <1>4, FS_Surjection DEF n
  <1>6. DOMAIN s = 1 .. n
    BY <1>2
  <1> QED BY <1>2, <1>5, <1>6 DEF Injection, IsInjective

LEMMA LastReachesAll ==
  ASSUME Linear, HistoryInv, ExactlyOnce, OwnLabels, log \in Seq(Entries)
  PROVE  Mirrored \subseteq Reach({LastSourceCommit})
  <1> SUFFICES ASSUME NEW i \in 1 .. Len(log)
               PROVE  log[i].src \in Reach({LastSourceCommit})
    BY DEF Mirrored
  <1> DEFINE n == Len(log)
             last == log[n].src
  <1>1. n \in 1 .. n /\ n \in Nat /\ log # <<>>
    BY EmptySeq, LenProperties
  <1>2. log[i] \in Entries /\ log[n] \in Entries
    BY <1>1, ElementOfSeq
  <1>3. log[i].src \in Commits /\ last \in Commits
    BY <1>2 DEF Entries
  <1>4. LastSourceCommit = last
    BY <1>1 DEF LastSourceCommit, OwnLabels
  <1>5. log[i].src \in Ancestors[last]
    <2>1. CASE last \in Ancestors[log[i].src]
      <3>1. PICK k \in 1 .. i : log[k].src = last
        BY <2>1 DEF HistoryInv
      <3>2. k \in 1 .. n
        BY <1>1, <3>1
      <3>3. k = n
        BY <1>1, <3>1, <3>2 DEF ExactlyOnce
      <3>4. i = n
        BY <1>1, <3>1, <3>3
      <3> QED BY <1>3, <2>1, <3>4
    <2> QED BY <1>3, <2>1 DEF Linear
  <1>6. last # None
    BY <1>3, CommitGraphAssumption
  <1> QED BY <1>4, <1>5, <1>6 DEF Reach

LEMMA OnceFrame ==
  ASSUME OnceInv, log' = log,
         \A w \in Workers : stage'[w] \in InLoop =>
             stage[w] \in InLoop /\ commits'[w] = commits[w] /\ next'[w] = next[w]
  PROVE  OnceInv'
  <1>1. ExactlyOnce' /\ OwnLabels' /\ Mirrored' = Mirrored
    BY DEF OnceInv, ExactlyOnce, OwnLabels, Mirrored
  <1>2. ASSUME NEW w \in Workers, stage'[w] \in InLoop PROVE NewAhead(w)'
    <2>1. NewAhead(w) /\ commits'[w] = commits[w] /\ next'[w] = next[w]
      BY <1>2 DEF OnceInv
    <2> QED BY <1>1, <2>1 DEF NewAhead
  <1> QED BY <1>1, <1>2 DEF OnceInv

LEMMA OnceGoto ==
  ASSUME TypeInv, OnceInv, log' = log, NEW w \in Workers, NEW s,
         Goto(w, s), s \in InLoop => stage[w] \in InLoop
  PROVE  OnceInv'
  BY OnceFrame DEF Goto, TypeInv, QueueInv

LEMMA OnceLeave ==
  ASSUME TypeInv, OnceInv, log' = log, NEW w \in Workers, Leave(w)
  PROVE  OnceInv'
  BY OnceFrame DEF Leave, TypeInv, QueueInv, InLoop

LEMMA OnceList ==
  ASSUME Linear, TypeInv, HistoryInv, OnceInv, NEW w \in Workers, ListCommits(w)
  PROVE  OnceInv'
  <1>1. stage[w] = "list" /\ log' = log /\ log \in Seq(Entries)
    BY DEF ListCommits, encVars, TypeInv, StoreInv
  <1>2. CASE JobError(w)
    BY <1>1, <1>2, OnceLeave DEF JobError
  <1>3. CASE ~JobError(w)
    <2> DEFINE t == Job(w).commit
               range == Ancestors[t] \ Reach({LastSourceCommit})
    <2>1. PICK s \in RevListOrders(range) : commits' = [commits EXCEPT ![w] = s]
      BY <1>3 DEF ListCommits
    <2>2. next' = [next EXCEPT ![w] = 1]
      BY <1>3 DEF ListCommits
    <2>3. t \in Commits
      <3>1. Job(w) \in Jobs
        BY <1>1, ElementOfSeq DEF TypeInv, QueueInv, Job
      <3> QED BY <3>1 DEF Jobs
    <2>4. range \in SUBSET Ancestors[t]
      OBVIOUS
    <2>5. Mirrored \cap range = {}
      BY <1>1, LastReachesAll DEF OnceInv
    <2> HIDE DEF range, t
    <2>6. {s[i] : i \in 1 .. Len(s)} = range /\ \A i, k \in 1 .. Len(s) : s[i] = s[k] => i = k
      BY <2>3, <2>4, RevListOrdersType, RevListDistinct
    <2>7. commits'[w] = s /\ next'[w] = 1
      BY <2>1, <2>2 DEF TypeInv, QueueInv
    <2>8. ExactlyOnce' /\ OwnLabels' /\ Mirrored' = Mirrored
      BY <1>1 DEF OnceInv, ExactlyOnce, OwnLabels, Mirrored
    <2>9. NewAhead(w)'
      BY <2>5, <2>6, <2>7, <2>8 DEF NewAhead
    <2>10. ASSUME NEW v \in Workers \ {w}, stage'[v] \in InLoop PROVE NewAhead(v)'
      <3>1. stage'[v] = stage[v] /\ commits'[v] = commits[v] /\ next'[v] = next[v]
        BY <1>3 DEF ListCommits, TypeInv, QueueInv
      <3>2. NewAhead(v)
        BY <2>10, <3>1 DEF OnceInv
      <3> QED BY <2>8, <3>1, <3>2 DEF NewAhead
    <2> QED BY <2>8, <2>9, <2>10 DEF OnceInv
  <1> QED BY <1>2, <1>3

LEMMA OnceCommit ==
  ASSUME OneInLoop, PlainMessages, TypeInv, OnceInv, NEW w \in Workers, CommitStaged(w)
  PROVE  OnceInv'
  <1> DEFINE c == Commit(w)
             n == Len(log)
  <1>1. /\ c \in Commits /\ n \in Nat /\ Len(log') = n + 1
        /\ \A i \in 1 .. n : log'[i] = log[i]
        /\ log'[n + 1].src = c /\ log'[n + 1].trailer = c
    BY Committed DEF PlainMessages, Trailer
  <1>2. /\ stage[w] = "commit" /\ next'[w] = next[w] + 1 /\ commits' = commits
        /\ next[w] \in 1 .. Len(commits[w]) /\ Len(commits[w]) \in Nat
        /\ c = commits[w][next[w]] /\ NewAhead(w)
    BY LenProperties DEF CommitStaged, TypeInv, QueueInv, InLoop, Commit, OnceInv
  <1>3. c \notin {log[i].src : i \in 1 .. n}
    BY <1>2 DEF NewAhead, Mirrored
  <1> HIDE DEF c, n
  <1>4. ExactlyOnce'
    <2>1. \A i, k \in 1 .. n : log'[i].src = log'[k].src => i = k
      BY <1>1 DEF OnceInv, ExactlyOnce, n
    <2>2. \A i \in 1 .. n : log'[i].src # log'[n + 1].src
      BY <1>1, <1>3
    <2>3. \A i \in 1 .. n + 1 : i \in 1 .. n \/ i = n + 1
      BY <1>1
    <2> QED BY <1>1, <2>1, <2>2, <2>3 DEF ExactlyOnce
  <1>5. Mirrored' = Mirrored \cup {c}
    <2>1. Mirrored' = {log'[i].src : i \in 1 .. n} \cup {log'[n + 1].src}
      BY <1>1 DEF Mirrored
    <2> QED BY <1>1, <2>1 DEF Mirrored, n
  <1>6. NewAhead(w)'
    <2>1. SUFFICES ASSUME NEW i \in next'[w] .. Len(commits'[w])
                   PROVE  /\ commits[w][i] \notin Mirrored /\ commits[w][i] # c
                          /\ \A k \in next'[w] .. Len(commits'[w]) :
                                commits[w][i] = commits[w][k] => i = k
      BY <1>2, <1>5 DEF NewAhead
    <2>2. i \in next[w] .. Len(commits[w]) /\ i # next[w] /\ next[w] \in next[w] .. Len(commits[w])
      BY <1>2, <2>1
    <2>3. \A k \in next'[w] .. Len(commits'[w]) : k \in next[w] .. Len(commits[w])
      BY <1>2
    <2> QED BY <1>2, <2>2, <2>3 DEF NewAhead
  <1>7. OwnLabels'
    <2>1. \A i \in 1 .. n : log'[i].trailer = log'[i].src
      BY <1>1 DEF OnceInv, OwnLabels, n
    <2>2. \A i \in 1 .. n + 1 : i \in 1 .. n \/ i = n + 1
      BY <1>1
    <2> QED BY <1>1, <2>1, <2>2 DEF OwnLabels
  <1>8. \A v \in Workers : stage'[v] \in InLoop => v = w
    <2>1. stage[w] \in InLoop /\ stage' = [stage EXCEPT ![w] = stage'[w]]
      BY DEF CommitStaged, InLoop, TypeInv, QueueInv
    <2> QED BY <2>1 DEF OneInLoop, TypeInv, QueueInv
  <1> QED BY <1>4, <1>6, <1>7, <1>8 DEF OnceInv

LEMMA StepKeepsOnce ==
  ASSUME OneInLoop, Linear, PlainMessages, TypeInv, HistoryInv, OnceInv, NEW w \in Workers, Step(w)
  PROVE  OnceInv'
  <1>1. CASE TakeJob(w)
    <2>1. UNCHANGED <<log, commits, next>> /\ stage' = [stage EXCEPT ![w] = "ensureMirror"]
      BY <1>1 DEF TakeJob, encVars
    <2> QED BY <2>1, OnceFrame DEF TypeInv, QueueInv, InLoop
  <1>2. CASE \/ CheckMirror(w) \/ Fetch(w) \/ RefLocked(w)
             \/ StartClone(w) \/ ConfigureClone(w) \/ FinishClone(w)
             \/ ResolveCommit(w) \/ InitWorkingRepo(w) \/ StartInit(w) \/ FinishInit(w)
    <2>1. /\ log' = log
          /\ \/ \E s \in {"fetch", "startClone", "resolve", "clone", "download", "init",
                          "initialise", "finishInit", "list"} : Goto(w, s)
             \/ Leave(w)
      BY <1>2 DEF CheckMirror, Fetch, RefLocked, StartClone, ConfigureClone, FinishClone, ResolveCommit,
                  InitWorkingRepo, StartInit, FinishInit, encVars, JobError
    <2> QED BY <2>1, OnceGoto, OnceLeave DEF InLoop
  <1>3. CASE ListCommits(w)
    BY <1>3, OnceList
  <1>4. CASE ClearWorkingTree(w) \/ EncryptFiles(w) \/ WriteManifest(w) \/ StageAll(w)
    <2>1. /\ log' = log /\ stage[w] \in InLoop
          /\ \E s \in InLoop : Goto(w, s)
      BY <1>4 DEF ClearWorkingTree, EncryptFiles, WriteManifest, StageAll, InLoop
    <2> QED BY <2>1, OnceGoto
  <1>5. CASE CommitStaged(w)
    BY <1>5, OnceCommit
  <1>6. CASE \/ IndexLocked(w) \/ SkipPush(w) \/ CheckRepository(w) \/ CreateRepository(w)
             \/ PushWorkingRepo(w) \/ PushCollides(w)
    <2>1. /\ log' = log
          /\ Goto(w, "create") \/ Goto(w, "push") \/ Leave(w)
      BY <1>6 DEF IndexLocked, SkipPush, CheckRepository, CreateRepository, PushWorkingRepo, PushCollides,
                  encVars, JobError, Succeed
    <2> QED BY <2>1, OnceGoto, OnceLeave DEF InLoop
  <1> QED BY <1>1, <1>2, <1>3, <1>4, <1>5, <1>6 DEF Step

LEMMA NextKeepsOnce ==
  ASSUME OneInLoop, Linear, PlainMessages, TypeInv, HistoryInv, OnceInv, [Next]_vars
  PROVE  OnceInv'
  <1>1. ASSUME NEW b \in Branches, NEW c \in Commits, SourcePush(b, c)
        PROVE  OnceInv'
    BY <1>1, OnceFrame DEF SourcePush, encVars, workerVars
  <1>2. ASSUME NEW w \in Workers, PushUnacknowledged(w) \/ Fault(w)
        PROVE  OnceInv'
    BY <1>2, OnceLeave DEF PushUnacknowledged, Fault, JobError, encVars
  <1>3. CASE Restart
    BY <1>3, OnceFrame DEF Restart, ProcessEnds, InLoop
  <1>4. CASE LoseCache
    <2>1. Len(log') = 0 /\ \A w \in Workers : stage'[w] = "idle"
      BY <1>4, EmptySeq DEF LoseCache, ProcessEnds
    <2> QED BY <2>1 DEF OnceInv, ExactlyOnce, OwnLabels, InLoop
  <1>5. CASE UNCHANGED vars
    BY <1>5, OnceFrame DEF vars, encVars, workerVars
  <1> QED BY <1>1, <1>2, <1>3, <1>4, <1>5, StepKeepsOnce DEF Next

(***************************************************************************)
(* While no two jobs are in the loop together and the history does not     *)
(* fork, every source commit is mirrored once, whatever fails, restarts or *)
(* is replayed from the start after the cache is lost (fork_once shows     *)
(* that the history must not fork).                                        *)
(***************************************************************************)
THEOREM EachCommitOnce ==
  ASSUME Linear, StrictDates, PlainMessages
  PROVE  Spec /\ []OneInLoop => []ExactlyOnce
  <1> DEFINE I == TypeInv /\ HistoryInv /\ OnceInv
  <1>1. Init => I
    <2> SUFFICES ASSUME Init PROVE OnceInv
      BY TypeInvInit, HistoryInvInit
    <2> QED BY EmptySeq DEF Init, OnceInv, ExactlyOnce, OwnLabels, InLoop
  <1>2. OneInLoop /\ I /\ [Next]_vars => I'
    BY NextKeepsTypeInv, NextKeepsHistory, NextKeepsOnce, PlainIsNotForeign
  <1>3. I => ExactlyOnce
    BY DEF OnceInv
  <1> QED BY <1>1, <1>2, <1>3, PTL DEF Spec

-----------------------------------------------------------------------------
(***************************************************************************)
(* No spurious failure.  While the service handles one job at a time, what *)
(* a job finds when it looks is still so when it acts, everything the      *)
(* handler will ask the bare mirror for is there, and so each command that *)
(* works lets it go on; except behind what a killed process left.          *)
(***************************************************************************)
OneAtATime ==
    \A v, w \in Workers : stage[v] # "idle" /\ stage[w] # "idle" => v = w

\* Each job's commit is still on its branch, and the mirror holds whole
\* histories.
SourceInv ==
    /\ \A j \in 1 .. Len(jobs) :
          /\ srcRef[jobs[j].branch] # None
          /\ jobs[j].commit \in Ancestors[srcRef[jobs[j].branch]]
    /\ \A c \in objs : Ancestors[c] \subseteq objs

\* What a worker has looked at is still as it was.
CheckedInv ==
    \A w \in Workers :
        /\ stage[w] = "startClone" => bare = "absent"
        /\ stage[w] = "fetch" => bare # "absent"
        /\ stage[w] = "initialise" => enc = "absent"
        /\ stage[w] = "create" => ~ghExists

AfterResolve == {"init", "initialise", "finishInit", "list"} \cup InLoop \cup AfterLoop
AfterFetch == {"resolve"} \cup AfterResolve

\* What will be asked of the mirror is there: the resume points and, past
\* ResolveCommit, the job's commit and what is listed of it.  Until there is a
\* mirror there is nothing to resume from and no lock in it.
HeldInv ==
    /\ \A i \in 1 .. Len(log) : log[i].trailer \in objs \cup {None, NoObject}
    /\ bare = "absent" \/ Busy({"clone", "download"}) => log = <<>> /\ ~refLock
    /\ \A w \in Workers :
          /\ stage[w] \in AfterFetch \cup {"clone", "download"} => bare # "absent"
          /\ stage[w] \in AfterResolve => Job(w).commit \in objs
          /\ stage[w] \in InLoop => \A k \in 1 .. Len(commits[w]) : commits[w][k] \in objs

\* No attempt has failed but for a fault, and none is about to.
Unharmed ==
    /\ \A j \in 1 .. Len(jobs) : jobs[j].attempts <= faults
    /\ \A w \in Workers :
          /\ stage[w] = "resolve" => Job(w).commit \in objs
          /\ stage[w] = "list" => enc = "ready"

SmoothInv == ~Leftover => Unharmed

SInv == RInv /\ SourceInv /\ CheckedInv /\ HeldInv /\ SmoothInv

(***************************************************************************)
(* What a worker's step leaves alone, and which action moves it where.     *)
(***************************************************************************)
LEMMA StepFrame ==
  ASSUME TypeInv, NEW w \in Workers, Step(w)
  PROVE  /\ srcRef' = srcRef /\ indexLock' = indexLock /\ refLock' = refLock
         /\ faults' = faults
         /\ \A v \in Workers \ {w} : /\ stage'[v] = stage[v] /\ current'[v] = current[v]
                                     /\ commits'[v] = commits[v]
         /\ TakeJob(w) \/ stage[w] # "idle"
         /\ enc' = enc \/ StartInit(w) \/ FinishInit(w)
         /\ bare' = bare \/ StartClone(w) \/ ConfigureClone(w)
         /\ objs' = objs \/ Fetch(w) \/ RefLocked(w) \/ FinishClone(w)
         /\ log' = log \/ CommitStaged(w)
         /\ ghExists' = ghExists \/ CreateRepository(w)
  <1> USE DEF TypeInv, QueueInv, cacheVars, encVars, githubVars, workerVars, budgetVars
  <1>1. CASE TakeJob(w)
    BY <1>1 DEF TakeJob
  <1>2. CASE \/ CheckMirror(w) \/ Fetch(w) \/ RefLocked(w)
             \/ StartClone(w) \/ ConfigureClone(w) \/ FinishClone(w)
    BY <1>2 DEF CheckMirror, Fetch, RefLocked, StartClone, ConfigureClone, FinishClone, Goto,
                JobError, Leave
  <1>3. CASE ResolveCommit(w) \/ InitWorkingRepo(w) \/ StartInit(w) \/ FinishInit(w)
    BY <1>3 DEF ResolveCommit, InitWorkingRepo, StartInit, FinishInit, Goto, JobError, Leave
  <1>4. CASE ListCommits(w)
    BY <1>4 DEF ListCommits, JobError, Leave
  <1>5. CASE ClearWorkingTree(w) \/ EncryptFiles(w) \/ WriteManifest(w) \/ StageAll(w)
    BY <1>5 DEF ClearWorkingTree, EncryptFiles, WriteManifest, StageAll, Goto
  <1>6. CASE CommitStaged(w) \/ IndexLocked(w) \/ PushCollides(w)
    BY <1>6 DEF CommitStaged, IndexLocked, PushCollides, JobError, Leave
  <1>7. CASE SkipPush(w) \/ CheckRepository(w) \/ CreateRepository(w) \/ PushWorkingRepo(w)
    BY <1>7 DEF SkipPush, CheckRepository, CreateRepository, PushWorkingRepo, Goto, JobError,
                Succeed, Leave
  <1> QED BY <1>1, <1>2, <1>3, <1>4, <1>5, <1>6, <1>7 DEF Step

\* Where a step can take its worker.
LEMMA StepTarget ==
  ASSUME TypeInv, NEW w \in Workers, Step(w)
  PROVE  /\ stage'[w] \in {"startClone", "fetch"} => CheckMirror(w)
         /\ stage'[w] = "clone" => StartClone(w)
         /\ stage'[w] = "download" => ConfigureClone(w)
         /\ stage'[w] = "resolve" => Fetch(w) \/ FinishClone(w)
         /\ stage'[w] = "initialise" => InitWorkingRepo(w)
         /\ stage'[w] = "finishInit" => StartInit(w)
         /\ stage'[w] = "list" => InitWorkingRepo(w) \/ FinishInit(w)
         /\ stage'[w] = "create" => CheckRepository(w)
         /\ stage'[w] \in AfterFetch =>
               \/ stage[w] \in AfterFetch /\ current'[w] = current[w]
               \/ Fetch(w) \/ FinishClone(w)
         /\ stage'[w] \in AfterResolve =>
               \/ stage[w] \in AfterResolve /\ current'[w] = current[w]
               \/ ResolveCommit(w) /\ Goto(w, "init")
         /\ stage'[w] \in InLoop =>
               \/ stage[w] \in InLoop /\ commits'[w] = commits[w]
               \/ ListCommits(w)
  <1> USE DEF TypeInv, QueueInv, AfterFetch, AfterResolve, InLoop, AfterLoop
  <1>1. CASE TakeJob(w)
    BY <1>1 DEF TakeJob
  <1>2. CASE \/ CheckMirror(w) \/ Fetch(w) \/ RefLocked(w)
             \/ StartClone(w) \/ ConfigureClone(w) \/ FinishClone(w)
    BY <1>2 DEF CheckMirror, Fetch, RefLocked, StartClone, ConfigureClone, FinishClone, Goto,
                JobError, Leave
  <1>3. CASE ResolveCommit(w) \/ InitWorkingRepo(w) \/ StartInit(w) \/ FinishInit(w)
    BY <1>3 DEF ResolveCommit, InitWorkingRepo, StartInit, FinishInit, Goto, JobError, Leave
  <1>4. CASE ListCommits(w)
    BY <1>4 DEF ListCommits, JobError, Leave
  <1>5. CASE ClearWorkingTree(w) \/ EncryptFiles(w) \/ WriteManifest(w) \/ StageAll(w)
    BY <1>5 DEF ClearWorkingTree, EncryptFiles, WriteManifest, StageAll, Goto
  <1>6. CASE CommitStaged(w) \/ IndexLocked(w) \/ PushCollides(w)
    BY <1>6 DEF CommitStaged, IndexLocked, PushCollides, JobError, Leave
  <1>7. CASE SkipPush(w) \/ CheckRepository(w) \/ CreateRepository(w) \/ PushWorkingRepo(w)
    BY <1>7 DEF SkipPush, CheckRepository, CreateRepository, PushWorkingRepo, Goto, JobError,
                Succeed, Leave
  <1> QED BY <1>1, <1>2, <1>3, <1>4, <1>5, <1>6, <1>7 DEF Step

(***************************************************************************)
(* What a killed process leaves behind stays.                              *)
(***************************************************************************)
LEMMA FaultFrame ==
  ASSUME TypeInv, NEW w \in Workers, PushUnacknowledged(w) \/ Fault(w)
  PROVE  /\ stage[w] # "idle" /\ JobError(w) /\ faults' = faults + 1 /\ faults \in Nat
         /\ srcRef' = srcRef /\ indexLock' = indexLock /\ enc' = enc /\ log' = log
         /\ stage' = [stage EXCEPT ![w] = "idle"]
         /\ \/ /\ stage[w] \in {"clone", "download"}
               /\ bare' = "absent" /\ objs' = {} /\ refLock' = FALSE
            \/ bare' = bare /\ objs' = objs /\ refLock' = refLock
  <1>1. faults \in Nat
    BY PipelineAssumption DEF TypeInv, StoreInv
  <1> QED BY <1>1 DEF PushUnacknowledged, Fault, JobError, Leave, cacheVars, encVars, githubVars

\* The resume point of a dead end names nothing, now and later.
LEMMA DeadEndNamesNothing ==
  ASSUME TypeInv, HeldInv, DeadEnd
  PROVE  LastSourceCommit = NoObject
  <1>1. log # <<>> /\ LastSourceCommit = log[Len(log)].trailer
    BY DEF DeadEnd, LastSourceCommit
  <1>2. Len(log) \in 1 .. Len(log)
    BY <1>1, EmptySeq, LenProperties DEF TypeInv, StoreInv
  <1> QED BY <1>1, <1>2 DEF HeldInv, DeadEnd

LEMMA DeadEndFrame ==
  ASSUME TypeInv, TypeInv', HeldInv, DeadEnd, log' = log,
         \A v \in Workers : stage'[v] \in InLoop => stage[v] \in InLoop
  PROVE  DeadEnd'
  <1>1. LastSourceCommit = NoObject /\ LastSourceCommit' = LastSourceCommit
    BY DeadEndNamesNothing DEF LastSourceCommit
  <1>2. NoObject \notin objs' \cup {None}
    BY PipelineAssumption DEF TypeInv, StoreInv
  <1> QED BY <1>1, <1>2 DEF DeadEnd, Busy

LEMMA StepKeepsLeftovers ==
  ASSUME TypeInv, TypeInv', CheckedInv, HeldInv, NEW w \in Workers, Step(w)
  PROVE  EachRemains
  <1>1. /\ indexLock => indexLock'
        /\ refLock => refLock'
    BY StepFrame
  <1>2. ASSUME HalfInit PROVE HalfInit'
    <2>1. ~FinishInit(w) /\ ~StartInit(w)
      BY <1>2 DEF FinishInit, StartInit, CheckedInv, Busy, HalfInit
    <2>2. enc' = "partial"
      BY <1>2, <2>1, StepFrame DEF HalfInit
    <2>3. \A v \in Workers : stage'[v] # "finishInit"
      BY <1>2, <2>1, StepFrame, StepTarget DEF Busy, HalfInit
    <2> QED BY <2>2, <2>3 DEF HalfInit, Busy
  <1>3. ASSUME HalfClone PROVE HalfClone'
    <2>1. ~ConfigureClone(w) /\ ~(stage'[w] = "clone")
      <3>1. ~ConfigureClone(w)
        BY <1>3 DEF ConfigureClone, Busy, HalfClone
      <3>2. ASSUME stage'[w] = "clone" PROVE FALSE
        <4>1. StartClone(w)
          BY <3>2, StepTarget
        <4>2. stage[w] = "startClone"
          BY <4>1 DEF StartClone
        <4> QED BY <1>3, <4>2 DEF CheckedInv, HalfClone
      <3> QED BY <3>1, <3>2
    <2>2. bare' = "unconfigured"
      BY <1>3, <2>1, StepFrame DEF StartClone, HalfClone
    <2>3. \A v \in Workers : stage'[v] \notin {"clone", "download"}
      BY <1>3, <2>1, StepFrame, StepTarget DEF Busy, HalfClone
    <2> QED BY <2>2, <2>3 DEF HalfClone, Busy
  <1>4. ASSUME DeadEnd PROVE DeadEnd'
    <2>1. ~CommitStaged(w) /\ stage[w] \notin InLoop
      BY <1>4 DEF DeadEnd, Busy, CommitStaged, InLoop
    <2>2. LastSourceCommit \notin Commits \cup {None}
      BY <1>4, DeadEndNamesNothing, PipelineAssumption
    <2>3. stage'[w] \notin InLoop
      <3> SUFFICES ASSUME stage'[w] \in InLoop PROVE FALSE
        OBVIOUS
      <3>1. ListCommits(w)
        BY <2>1, StepTarget
      <3>2. ~JobError(w)
        BY DEF JobError, Leave, InLoop, TypeInv, QueueInv
      <3> QED BY <2>2, <3>1, <3>2, LastIsAnObject
    <2> QED BY <1>4, <2>1, <2>3, StepFrame, DeadEndFrame
  <1> QED BY <1>1, <1>2, <1>3, <1>4 DEF EachRemains

LEMMA NextKeepsLeftovers ==
  ASSUME MaxEras = 0, TypeInv, TypeInv', CheckedInv, HeldInv, [Next]_vars
  PROVE  EachRemains
  <1>1. ASSUME NEW b \in Branches, NEW c \in Commits, SourcePush(b, c)
        PROVE  EachRemains
    <2>1. UNCHANGED <<bare, enc, log, indexLock, refLock, stage>>
      BY <1>1 DEF SourcePush, cacheVars, encVars, workerVars
    <2> QED BY <2>1, DeadEndFrame DEF EachRemains, HalfInit, HalfClone, Busy
  <1>2. ASSUME NEW w \in Workers, PushUnacknowledged(w) \/ Fault(w)
        PROVE  EachRemains
    <2>1. \A v \in Workers : stage'[v] \in {stage[v], "idle"}
      BY <1>2, FaultFrame DEF TypeInv, QueueInv
    <2>2. DeadEnd => DeadEnd'
      BY <1>2, <2>1, FaultFrame, DeadEndFrame DEF InLoop
    <2>3. refLock => refLock'
      BY <1>2, FaultFrame DEF HeldInv, Busy
    <2> QED BY <1>2, <2>1, <2>2, <2>3, FaultFrame DEF EachRemains, HalfInit, HalfClone, Busy
  <1>3. CASE Restart
    <2>1. /\ UNCHANGED <<bare, enc, log>> /\ \A v \in Workers : stage'[v] = "idle"
          /\ indexLock => indexLock'
          /\ refLock => refLock'
      BY <1>3 DEF Restart, ProcessEnds
    <2>2. DeadEnd => DeadEnd'
      BY <2>1, DeadEndFrame DEF InLoop
    <2> QED BY <2>1, <2>2 DEF EachRemains, HalfInit, HalfClone, Busy
  <1>4. ~LoseCache
    BY DEF LoseCache, TypeInv, StoreInv
  <1>5. CASE UNCHANGED vars
    <2>1. UNCHANGED <<bare, enc, log, indexLock, refLock, stage>>
      BY <1>5 DEF vars, cacheVars, encVars, workerVars
    <2> QED BY <2>1, DeadEndFrame DEF EachRemains, HalfInit, HalfClone, Busy
  <1> QED BY <1>1, <1>2, <1>3, <1>4, <1>5, StepKeepsLeftovers DEF Next

LEMMA NextKeepsLeftover ==
  ASSUME MaxEras = 0, TypeInv, TypeInv', CheckedInv, HeldInv, Leftover, [Next]_vars
  PROVE  Leftover'
  <1>1. era' = era
    BY DEF TypeInv, StoreInv
  <1> QED BY <1>1, NextKeepsLeftovers DEF EachRemains, Leftover

(***************************************************************************)
(* Nobody undoes what a worker has looked at, and no push is taken back.   *)
(***************************************************************************)
LEMMA NextKeepsChecked ==
  ASSUME MaxEras = 0, OneAtATime, TypeInv, CheckedInv, [Next]_vars
  PROVE  CheckedInv'
  <1>1. ASSUME NEW b \in Branches, NEW c \in Commits, SourcePush(b, c)
        PROVE  CheckedInv'
    BY <1>1 DEF SourcePush, CheckedInv, cacheVars, encVars, githubVars, workerVars
  <1>2. ASSUME NEW w \in Workers, PushUnacknowledged(w) \/ Fault(w)
        PROVE  CheckedInv'
    <2>1. \A v \in Workers : stage'[v] = "idle"
      BY <1>2, FaultFrame DEF TypeInv, QueueInv, OneAtATime
    <2> QED BY <2>1 DEF CheckedInv
  <1>3. CASE Restart
    BY <1>3 DEF Restart, ProcessEnds, CheckedInv
  <1>4. ~LoseCache
    BY DEF LoseCache, TypeInv, StoreInv
  <1>5. CASE UNCHANGED vars
    BY <1>5 DEF vars, CheckedInv, cacheVars, encVars, githubVars, workerVars
  <1>6. ASSUME NEW w \in Workers, Step(w)
        PROVE  CheckedInv'
    <2>1. ASSUME NEW v \in Workers \ {w}
          PROVE  /\ stage'[v] = "startClone" => bare' = "absent"
                 /\ stage'[v] = "fetch" => bare' # "absent"
                 /\ stage'[v] = "initialise" => enc' = "absent"
                 /\ stage'[v] = "create" => ~ghExists'
      <3>1. stage'[v] = stage[v]
        BY <1>6, StepFrame
      <3>2. CASE TakeJob(w)
        BY <3>1, <3>2 DEF TakeJob, CheckedInv, cacheVars, encVars, githubVars
      <3>3. CASE stage[w] # "idle"
        BY <3>1, <3>3 DEF OneAtATime
      <3> QED BY <1>6, <3>2, <3>3, StepFrame
    <2>2. stage'[w] = "startClone" => bare' = "absent"
      BY <1>6, StepTarget DEF CheckMirror, Goto, cacheVars, TypeInv, QueueInv
    <2>3. stage'[w] = "fetch" => bare' # "absent"
      BY <1>6, StepTarget DEF CheckMirror, Goto, cacheVars, TypeInv, QueueInv
    <2>4. stage'[w] = "initialise" => enc' = "absent"
      BY <1>6, StepTarget DEF InitWorkingRepo, Goto, encVars, TypeInv, QueueInv
    <2>5. stage'[w] = "create" => ~ghExists'
      BY <1>6, StepTarget DEF CheckRepository, Goto, githubVars, TypeInv, QueueInv
    <2> QED BY <2>1, <2>2, <2>3, <2>4, <2>5 DEF CheckedInv
  <1> QED BY <1>1, <1>2, <1>3, <1>4, <1>5, <1>6 DEF Next

\* Only a push enqueues a job.
LEMMA SameLength ==
  ASSUME TypeInv, TypeInv', \/ jobs' = jobs
                            \/ \E w \in Workers : TakeJob(w) \/ Succeed(w) \/ JobError(w)
                            \/ ProcessEnds
  PROVE  Len(jobs') = Len(jobs)
  <1>1. jobs \in Seq(Jobs) /\ jobs' \in Seq(Jobs)
    BY DEF TypeInv, QueueInv
  <1>2. DOMAIN jobs' = DOMAIN jobs
    <2>1. CASE jobs' = jobs
      BY <2>1
    <2>2. CASE \E w \in Workers : TakeJob(w) \/ Succeed(w) \/ JobError(w)
      BY <2>2 DEF TakeJob, Succeed, JobError
    <2>3. CASE ProcessEnds
      <3>1. DOMAIN jobs' = 1 .. Len(jobs)
        BY <2>3 DEF ProcessEnds
      <3> QED BY <1>1, <3>1, LenProperties
    <2> QED BY <2>1, <2>2, <2>3
  <1> QED BY <1>1, <1>2, LenProperties

LEMMA StepJobs ==
  ASSUME TypeInv, NEW w \in Workers, Step(w)
  PROVE  /\ \/ jobs' = jobs
            \/ TakeJob(w)
            \/ stage[w] # "idle" /\ (Succeed(w) \/ JobError(w))
         /\ JobsKept
  <1>1. jobs' = jobs \/ TakeJob(w) \/ (stage[w] # "idle" /\ (Succeed(w) \/ JobError(w)))
    BY StepKinds DEF GoesOn
  <1> QED BY <1>1, UnchangedJobs, TakeJobJobs, SucceedJobs, JobErrorJobs

\* Where Forgejo's branches point, their whole histories are.
LEMMA FromForgejoClosed ==
  ASSUME TypeInv
  PROVE  \A c \in FromForgejo : Ancestors[c] \subseteq FromForgejo
  <1> SUFFICES ASSUME NEW c \in FromForgejo PROVE Ancestors[c] \subseteq FromForgejo
    OBVIOUS
  <1>1. PICK b \in Branches : srcRef[b] # None /\ c \in Ancestors[srcRef[b]]
    BY DEF FromForgejo, Reach
  <1>2. srcRef[b] \in Commits
    BY <1>1 DEF TypeInv, StoreInv
  <1>3. Ancestors[c] \subseteq Ancestors[srcRef[b]]
    BY <1>1, <1>2, CommitGraphAssumption
  <1> QED BY <1>1, <1>3 DEF FromForgejo, Reach

LEMMA SourceFrame ==
  ASSUME SourceInv, JobsKept, Len(jobs') = Len(jobs), srcRef' = srcRef,
         \A c \in objs' : Ancestors[c] \subseteq objs'
  PROVE  SourceInv'
  BY DEF SourceInv, JobsKept

LEMMA PushKeepsSource ==
  ASSUME ~ForcePush, TypeInv, SourceInv, NEW b \in Branches, NEW c \in Commits, SourcePush(b, c)
  PROVE  SourceInv'
  <1> DEFINE e == [branch |-> b, commit |-> c, attempts |-> 0, state |-> "queued"]
  <1>1. /\ srcRef[b] = None \/ srcRef[b] \in Ancestors[c]
        /\ jobs' = Append(jobs, e) /\ objs' = objs
        /\ \A a \in Branches : srcRef'[a] = IF a = b THEN c ELSE srcRef[a]
        /\ jobs \in Seq(Jobs) /\ Len(jobs) \in Nat
    BY LenProperties DEF SourcePush, cacheVars, TypeInv, QueueInv, StoreInv
  <1>2. e \in Jobs /\ e.branch = b /\ e.commit = c
    BY PipelineAssumption DEF Jobs, JobStates
  <1> HIDE DEF e
  <1>3. /\ Len(jobs') = Len(jobs) + 1 /\ jobs'[Len(jobs) + 1] = e
        /\ \A i \in 1 .. Len(jobs) : jobs'[i] = jobs[i]
    BY <1>1, <1>2, AppendProperties
  <1>4. c # None /\ c \in Ancestors[c]
    BY CommitGraphAssumption
  <1>5. ASSUME NEW j \in 1 .. Len(jobs')
        PROVE  /\ srcRef'[jobs'[j].branch] # None
               /\ jobs'[j].commit \in Ancestors[srcRef'[jobs'[j].branch]]
    <2>1. CASE j = Len(jobs) + 1
      BY <1>1, <1>2, <1>3, <1>4, <2>1
    <2>2. CASE j \in 1 .. Len(jobs)
      <3>1. jobs[j].branch \in Branches
        <4>1. jobs[j] \in Jobs
          BY <1>1, <2>2, ElementOfSeq
        <4> QED BY <4>1 DEF Jobs
      <3>2. /\ srcRef[jobs[j].branch] # None
            /\ jobs[j].commit \in Ancestors[srcRef[jobs[j].branch]]
        BY <2>2 DEF SourceInv
      <3>3. CASE jobs[j].branch = b
        <4>1. Ancestors[srcRef[b]] \subseteq Ancestors[c]
          BY <1>1, <3>2, <3>3, CommitGraphAssumption
        <4> QED BY <1>1, <1>3, <1>4, <2>2, <3>1, <3>2, <3>3, <4>1
      <3>4. CASE jobs[j].branch # b
        BY <1>1, <1>3, <2>2, <3>1, <3>2, <3>4
      <3> QED BY <3>3, <3>4
    <2> QED BY <1>1, <1>3, <2>1, <2>2
  <1> QED BY <1>1, <1>5 DEF SourceInv

\* What a fetch or a clone adds to the mirror.
LEMMA ObjectsGrow ==
  ASSUME TypeInv, SourceInv, NEW w \in Workers, Step(w)
  PROVE  objs \subseteq objs' /\ \A c \in objs' : Ancestors[c] \subseteq objs'
  <1>1. objs' = objs \/ objs' = objs \cup FromForgejo
    BY StepFrame DEF Fetch, RefLocked, FinishClone, JobError
  <1> QED BY <1>1, FromForgejoClosed DEF SourceInv

LEMMA NextKeepsSource ==
  ASSUME ~ForcePush, TypeInv, TypeInv', SourceInv, [Next]_vars
  PROVE  SourceInv'
  <1>1. ASSUME NEW w \in Workers, PushUnacknowledged(w) \/ Fault(w)
        PROVE  SourceInv'
    <2>1. /\ stage[w] # "idle" /\ JobError(w) /\ srcRef' = srcRef
          /\ objs' = objs \/ objs' = {}
      BY <1>1, FaultFrame
    <2>2. \A c \in objs' : Ancestors[c] \subseteq objs'
      BY <2>1 DEF SourceInv
    <2> QED BY <2>1, <2>2, SameLength, JobErrorJobs, SourceFrame
  <1>2. CASE Restart \/ LoseCache
    <2>1. ProcessEnds /\ srcRef' = srcRef /\ (objs' = objs \/ objs' = {})
      BY <1>2 DEF Restart, LoseCache, cacheVars
    <2>2. \A c \in objs' : Ancestors[c] \subseteq objs'
      BY <2>1 DEF SourceInv
    <2> QED BY <2>1, <2>2, SameLength, ProcessEndsJobs, SourceFrame
  <1>3. CASE UNCHANGED vars
    BY <1>3 DEF vars, SourceInv, cacheVars
  <1>4. ASSUME NEW w \in Workers, Step(w)
        PROVE  SourceInv'
    <2>1. srcRef' = srcRef /\ JobsKept
      BY <1>4, StepFrame, StepJobs
    <2>2. Len(jobs') = Len(jobs)
      BY <1>4, StepJobs, SameLength
    <2> QED BY <1>4, <2>1, <2>2, ObjectsGrow, SourceFrame
  <1> QED BY <1>1, <1>2, <1>3, <1>4, PushKeepsSource DEF Next

(***************************************************************************)
(* A worker's step, when nothing is left over.                             *)
(***************************************************************************)
LEMMA NoErrorStep ==
  ASSUME OneAtATime, RInv, CheckedInv, ~Leftover, Unharmed, NEW w \in Workers, Step(w)
  PROVE  jobs' = jobs \/ TakeJob(w) \/ (stage[w] # "idle" /\ Succeed(w))
  <1> USE DEF RInv
  <1>1. CASE Fetch(w) \/ StartClone(w) \/ StartInit(w) \/ CreateRepository(w)
    BY <1>1 DEF Fetch, StartClone, StartInit, CreateRepository, CheckedInv
  <1>2. CASE ResolveCommit(w)
    <2>1. Job(w).commit \in objs
      BY <1>2 DEF ResolveCommit, Unharmed
    <2> QED BY <1>2, <2>1 DEF ResolveCommit
  <1>3. CASE ListCommits(w)
    <2>1. stage[w] = "list" /\ enc = "ready"
      BY <1>3 DEF ListCommits, Unharmed
    <2>2. ~Busy(InLoop)
      BY <2>1 DEF OneAtATime, Busy, InLoop
    <2>3. LastSourceCommit \in objs \cup {None}
      BY <2>2 DEF Leftover, DeadEnd
    <2> QED BY <1>3, <2>1, <2>3 DEF ListCommits
  <1>4. ~IndexLocked(w) /\ ~RefLocked(w) /\ ~PushCollides(w)
    <2>1. \A v \in Workers \ {w} : stage[w] # "idle" => stage[v] = "idle"
      BY DEF OneAtATime
    <2> QED BY <2>1 DEF IndexLocked, RefLocked, PushCollides, Leftover
  <1>5. CASE PushWorkingRepo(w)
    <2>1. stage[w] # "idle"
      BY <1>5 DEF PushWorkingRepo
    <2>2. FastForwards(Job(w).branch)
      BY <2>1, JobOf DEF RemotesArePrefixes
    <2> QED BY <1>5, <2>1, <2>2 DEF PushWorkingRepo
  <1>6. CASE \/ CheckMirror(w) \/ ConfigureClone(w) \/ FinishClone(w) \/ InitWorkingRepo(w)
             \/ FinishInit(w) \/ ClearWorkingTree(w) \/ EncryptFiles(w) \/ WriteManifest(w)
             \/ StageAll(w) \/ CommitStaged(w) \/ SkipPush(w) \/ CheckRepository(w)
    BY <1>6 DEF CheckMirror, ConfigureClone, FinishClone, InitWorkingRepo, FinishInit,
       ClearWorkingTree, EncryptFiles, WriteManifest, StageAll, CommitStaged, SkipPush, CheckRepository
  <1> QED BY <1>1, <1>2, <1>3, <1>4, <1>5, <1>6 DEF Step

LEMMA AttemptsAreNumbers ==
  TypeInv => \A j \in 1 .. Len(jobs) : jobs[j].attempts \in Nat
  <1> SUFFICES ASSUME TypeInv, NEW j \in 1 .. Len(jobs) PROVE jobs[j].attempts \in Nat
    OBVIOUS
  <1>1. jobs[j] \in Jobs
    BY ElementOfSeq DEF TypeInv, QueueInv
  <1> QED BY <1>1, PipelineAssumption DEF Jobs

\* Taking a job, finishing one and the end of the process count no attempt; an
\* error counts one.
LEMMA EndKeepsAttempts ==
  ASSUME TypeInv, ProcessEnds
  PROVE  \A j \in 1 .. Len(jobs) : jobs'[j].attempts = jobs[j].attempts
  <1>1. \A j \in 1 .. Len(jobs) : jobs[j] \in Jobs
    BY ElementOfSeq DEF TypeInv, QueueInv
  <1>2. \A j \in 1 .. Len(jobs) : jobs'[j] = jobs[j] \/ jobs'[j] = [jobs[j] EXCEPT !.state = "lost"]
    BY DEF ProcessEnds
  <1> QED BY <1>1, <1>2 DEF Jobs

LEMMA AttemptsKept ==
  ASSUME TypeInv, TypeInv', NEW w \in Workers,
         jobs' = jobs \/ TakeJob(w) \/ (stage[w] # "idle" /\ Succeed(w))
  PROVE  \A j \in 1 .. Len(jobs') :
            j \in 1 .. Len(jobs) /\ jobs'[j].attempts = jobs[j].attempts
  <1>1. Len(jobs') = Len(jobs) /\ jobs \in Seq(Jobs)
    BY SameLength DEF TypeInv, QueueInv
  <1>2. CASE jobs' = jobs
    BY <1>1, <1>2
  <1>3. ASSUME NEW i \in 1 .. Len(jobs), NEW t \in {"running", "succeeded"},
               jobs' = [jobs EXCEPT ![i].state = t]
        PROVE  \A j \in 1 .. Len(jobs) : jobs'[j].attempts = jobs[j].attempts
    <2> DEFINE e == [jobs[i] EXCEPT !.state = t]
    <2>1. jobs[i] \in Jobs
      BY <1>1, ElementOfSeq
    <2>2. e \in Jobs /\ e.attempts = jobs[i].attempts
      BY <2>1 DEF Jobs, JobStates
    <2>3. jobs' = [jobs EXCEPT ![i] = e]
      BY <1>3
    <2> HIDE DEF e
    <2>4. \A j \in 1 .. Len(jobs) : jobs'[j] = IF j = i THEN e ELSE jobs[j]
      BY <1>1, <2>2, <2>3, JobUpdate
    <2> QED BY <2>2, <2>4
  <1>4. CASE TakeJob(w)
    <2>1. PICK i \in 1 .. Len(jobs) : jobs' = [jobs EXCEPT ![i].state = "running"]
      BY <1>4 DEF TakeJob
    <2> QED BY <1>1, <1>3, <2>1
  <1>5. CASE stage[w] # "idle" /\ Succeed(w)
    <2>1. current[w] \in 1 .. Len(jobs) /\ jobs' = [jobs EXCEPT ![current[w]].state = "succeeded"]
      BY <1>5 DEF Succeed, TypeInv, QueueInv
    <2> QED BY <1>1, <1>3, <2>1
  <1> QED BY <1>2, <1>4, <1>5

LEMMA AttemptCounted ==
  ASSUME TypeInv, TypeInv', NEW w \in Workers, stage[w] # "idle", JobError(w)
  PROVE  \A j \in 1 .. Len(jobs') :
            j \in 1 .. Len(jobs) /\ jobs'[j].attempts <= jobs[j].attempts + 1
  <1> DEFINE i == current[w]
             e == AfterError(Job(w))
  <1>1. /\ Len(jobs') = Len(jobs) /\ jobs \in Seq(Jobs) /\ i \in 1 .. Len(jobs)
        /\ jobs' = [jobs EXCEPT ![i] = e] /\ jobs' \in Seq(Jobs)
    BY SameLength DEF TypeInv, QueueInv, JobError
  <1>2. jobs[i] \in Jobs /\ \A j \in 1 .. Len(jobs) : jobs[j].attempts \in Nat
    <2>1. \A j \in 1 .. Len(jobs) : jobs[j] \in Jobs
      BY <1>1, ElementOfSeq
    <2> QED BY <1>1, <2>1, PipelineAssumption DEF Jobs
  <1>3. e.attempts = jobs[i].attempts + 1
    BY <1>2 DEF AfterError, Attempted, Job, Jobs
  <1> HIDE DEF e
  <1>4. \A j \in 1 .. Len(jobs) : jobs'[j] = IF j = i THEN e ELSE jobs[j]
    BY <1>1, LenProperties
  <1> QED BY <1>1, <1>2, <1>3, <1>4

\* A worker that has just fetched finds its job's commit.
LEMMA FetchFinds ==
  ASSUME OneAtATime, TypeInv, SourceInv, CheckedInv, ~Leftover,
         NEW w \in Workers, Fetch(w) \/ FinishClone(w), jobs' = jobs
  PROVE  Job(w).commit \in objs'
  <1>1. /\ current[w] \in 1 .. Len(jobs) /\ stage[w] \in {"fetch", "download"}
        /\ Job(w).branch \in Branches
    BY JobOf DEF Fetch, FinishClone, TypeInv, QueueInv
  <1>2. Job(w).commit \in FromForgejo
    BY <1>1 DEF SourceInv, Job, FromForgejo, Reach
  <1>3. ~(bare = "unconfigured" /\ stage[w] = "fetch")
    <2> SUFFICES ASSUME bare = "unconfigured", stage[w] = "fetch" PROVE FALSE
      OBVIOUS
    <2>1. ~Busy({"clone", "download"})
      BY DEF OneAtATime, Busy
    <2> QED BY <2>1 DEF Leftover, HalfClone
  <1>4. objs' = objs \cup FromForgejo
    BY <1>1, <1>3 DEF Fetch, FinishClone, CheckedInv
  <1> QED BY <1>2, <1>4

\* A worker that finds <repo>.enc finds a repository.
LEMMA InitFinds ==
  ASSUME OneAtATime, TypeInv, ~Leftover, NEW w \in Workers,
         InitWorkingRepo(w) \/ FinishInit(w), stage'[w] = "list"
  PROVE  enc' = "ready"
  <1>1. CASE InitWorkingRepo(w)
    <2>1. stage[w] = "init" /\ enc # "absent" /\ enc' = enc
      BY <1>1 DEF InitWorkingRepo, Goto, encVars, TypeInv, QueueInv
    <2>2. ~Busy({"finishInit"})
      BY <2>1 DEF OneAtATime, Busy
    <2> QED BY <2>1, <2>2 DEF Leftover, HalfInit, TypeInv, StoreInv
  <1>2. CASE FinishInit(w)
    BY <1>2 DEF FinishInit
  <1> QED BY <1>1, <1>2

(***************************************************************************)
(* A step, and the end of the process, keep in the mirror what will be     *)
(* asked of it.                                                            *)
(***************************************************************************)
LEMMA StepKeepsTrailers ==
  ASSUME NoForeignTrailers, TypeInv, SourceInv, HeldInv, NEW w \in Workers, Step(w)
  PROVE  \A i \in 1 .. Len(log') : log'[i].trailer \in objs' \cup {None, NoObject}
  <1>1. objs \subseteq objs'
    BY ObjectsGrow
  <1>2. CASE log' = log
    BY <1>1, <1>2 DEF HeldInv
  <1>3. CASE CommitStaged(w)
    <2>1. /\ stage[w] \in InLoop /\ Commit(w) = commits[w][next[w]]
          /\ next[w] \in 1 .. Len(commits[w])
      BY <1>3 DEF CommitStaged, Commit, InLoop, TypeInv, QueueInv
    <2>2. Commit(w) \in objs /\ Commit(w) \in Commits
      BY <2>1, CommitType DEF HeldInv, TypeInv
    <2>3. Trailer(Commit(w)) \in objs \cup {None, NoObject}
      BY <2>2, TrailerIsNotForeign DEF SourceInv
    <2>4. /\ Len(log') = Len(log) + 1 /\ Len(log) \in Nat
          /\ \A i \in 1 .. Len(log) : log'[i] = log[i]
          /\ log'[Len(log) + 1].trailer = Trailer(Commit(w))
      BY <1>3, Committed
    <2>5. \A i \in 1 .. Len(log') : i \in 1 .. Len(log) \/ i = Len(log) + 1
      BY <2>4
    <2> QED BY <1>1, <2>3, <2>4, <2>5 DEF HeldInv
  <1> QED BY <1>2, <1>3, StepFrame

\* Until the mirror is there nothing is mirrored.
LEMMA StepKeepsEmpty ==
  ASSUME OneAtATime, TypeInv, CheckedInv, HeldInv, NEW w \in Workers, Step(w)
  PROVE  /\ bare' = "absent" \/ Busy({"clone", "download"})' => log' = <<>> /\ ~refLock'
         /\ \A v \in Workers : stage'[v] \in AfterFetch \cup {"clone", "download"} => bare' # "absent"
  <1>1. bare' = "absent" => bare = "absent"
    BY StepFrame DEF StartClone, ConfigureClone
  <1>2. bare = "absent" \/ Busy({"clone", "download"}) => log' = <<>> /\ ~refLock'
    <2>1. stage[w] \in InLoop => bare # "absent" /\ ~Busy({"clone", "download"})
      BY DEF HeldInv, OneAtATime, Busy, AfterFetch, AfterResolve, InLoop
    <2>2. CommitStaged(w) => stage[w] \in InLoop
      BY DEF CommitStaged, InLoop
    <2> QED BY <2>1, <2>2, StepFrame DEF HeldInv
  <1>3. Busy({"clone", "download"})' => bare = "absent" \/ Busy({"clone", "download"})
    <2> SUFFICES ASSUME NEW v \in Workers, stage'[v] \in {"clone", "download"}
                 PROVE  bare = "absent" \/ Busy({"clone", "download"})
      BY DEF Busy
    <2>1. CASE v # w
      BY <2>1, StepFrame DEF Busy
    <2>2. CASE v = w
      <3>1. StartClone(w) \/ ConfigureClone(w)
        BY <2>2, StepTarget
      <3> QED BY <3>1 DEF StartClone, ConfigureClone, CheckedInv, Busy
    <2> QED BY <2>1, <2>2
  <1>4. ASSUME NEW v \in Workers, stage'[v] \in AfterFetch \cup {"clone", "download"}
        PROVE  bare' # "absent"
    <2>1. CASE v # w
      <3>1. bare # "absent"
        BY <1>4, <2>1, StepFrame DEF HeldInv
      <3> QED BY <1>1, <3>1
    <2>2. CASE v = w
      <3>1. CASE stage'[w] = "clone"
        <4>1. StartClone(w) /\ stage'[w] # "idle"
          BY <3>1, StepTarget
        <4> QED BY <4>1 DEF StartClone, JobError, Leave, TypeInv, QueueInv
      <3>2. CASE stage'[w] = "download"
        BY <3>2, StepTarget DEF ConfigureClone
      <3>3. CASE stage'[w] \in AfterFetch
        <4>1. bare # "absent"
          <5>1. stage[w] \in AfterFetch \/ ((Fetch(w) \/ FinishClone(w)) /\ stage'[w] # "idle")
            BY <3>3, StepTarget DEF AfterFetch, AfterResolve, InLoop, AfterLoop
          <5> QED BY <5>1 DEF Fetch, FinishClone, HeldInv, CheckedInv
        <4> QED BY <1>1, <4>1
      <3> QED BY <1>4, <2>2, <3>1, <3>2, <3>3
    <2> QED BY <2>1, <2>2
  <1> QED BY <1>1, <1>2, <1>3, <1>4

\* What a worker has resolved, and what it lists and commits, is in the mirror.
LEMMA StepKeepsResolved ==
  ASSUME TypeInv, SourceInv, HeldInv, NEW w \in Workers, Step(w), NEW v \in Workers
  PROVE  /\ stage'[v] \in AfterResolve => Job(v)'.commit \in objs'
         /\ stage'[v] \in InLoop => \A k \in 1 .. Len(commits'[v]) : commits'[v][k] \in objs'
  <1>1. objs \subseteq objs' /\ JobsKept
    BY ObjectsGrow, StepJobs
  <1>2. ASSUME stage[v] \in AfterResolve, current'[v] = current[v]
        PROVE  Job(v)'.commit \in objs'
    <2>1. stage[v] # "idle"
      BY <1>2 DEF AfterResolve, InLoop, AfterLoop
    <2>2. Job(v)'.commit = Job(v).commit
      BY <1>1, <1>2, <2>1, HeldJobKept
    <2> QED BY <1>1, <1>2, <2>2 DEF HeldInv
  <1>3. ASSUME stage[v] \in InLoop, commits'[v] = commits[v]
        PROVE  \A k \in 1 .. Len(commits'[v]) : commits'[v][k] \in objs'
    BY <1>1, <1>3 DEF HeldInv
  <1>4. CASE v # w
    BY <1>2, <1>3, <1>4, StepFrame
  <1>5. CASE v = w
    <2>1. ASSUME stage'[w] \in AfterResolve PROVE Job(w)'.commit \in objs'
      <3>1. CASE stage[w] \in AfterResolve /\ current'[w] = current[w]
        BY <1>2, <1>5, <3>1
      <3>2. CASE ResolveCommit(w) /\ Goto(w, "init")
        <4>1. stage'[w] = "init"
          BY <3>2 DEF Goto, TypeInv, QueueInv
        <4>2. jobs' = jobs /\ current' = current /\ Job(w).commit \in objs
          BY <3>2, <4>1 DEF ResolveCommit, Goto, JobError, Leave, TypeInv, QueueInv
        <4>3. Job(w)' = Job(w)
          BY <4>2 DEF Job
        <4> QED BY <1>1, <4>2, <4>3
      <3> QED BY <2>1, <3>1, <3>2, StepTarget
    <2>2. ASSUME stage'[w] \in InLoop
          PROVE  \A k \in 1 .. Len(commits'[w]) : commits'[w][k] \in objs'
      <3>1. CASE stage[w] \in InLoop /\ commits'[w] = commits[w]
        BY <1>3, <1>5, <3>1
      <3>2. CASE ListCommits(w)
        <4> DEFINE range == Ancestors[Job(w).commit] \ Reach({LastSourceCommit})
        <4>1. PICK s \in RevListOrders(range) : commits' = [commits EXCEPT ![w] = s]
          BY <2>2, <3>2 DEF ListCommits, JobError, Leave, InLoop, TypeInv, QueueInv
        <4>2. commits'[w] = s /\ stage[w] = "list" /\ Job(w).commit \in Commits
          BY <3>2, <4>1, JobOf DEF ListCommits, TypeInv, QueueInv
        <4>3. Job(w).commit \in objs
          BY <4>2 DEF HeldInv, AfterResolve
        <4>4. range \subseteq objs /\ range \in SUBSET Ancestors[Job(w).commit]
          BY <4>3 DEF SourceInv
        <4> HIDE DEF range
        <4>5. {s[i] : i \in 1 .. Len(s)} = range
          BY <4>2, <4>4, RevListOrdersType
        <4> QED BY <1>1, <4>2, <4>4, <4>5
      <3> QED BY <2>2, <3>1, <3>2, StepTarget
    <2> QED BY <1>5, <2>1, <2>2
  <1> QED BY <1>4, <1>5

\* What has to be the same, but for jobs that are added, for HeldInv to stay.
LEMMA HeldFrame ==
  ASSUME TypeInv, HeldInv, UNCHANGED <<log, bare, objs, refLock, stage, current, commits>>,
         \A v \in Workers : stage[v] # "idle" => Job(v)' = Job(v)
  PROVE  HeldInv'
  BY DEF HeldInv, Busy, AfterFetch, AfterResolve, InLoop, AfterLoop

LEMMA NextKeepsHeld ==
  ASSUME NoForeignTrailers, MaxEras = 0, OneAtATime, TypeInv, SourceInv, CheckedInv, HeldInv,
         [Next]_vars
  PROVE  HeldInv'
  <1>1. ASSUME NEW b \in Branches, NEW c \in Commits, SourcePush(b, c)
        PROVE  HeldInv'
    <2> DEFINE e == [branch |-> b, commit |-> c, attempts |-> 0, state |-> "queued"]
    <2>1. /\ jobs' = Append(jobs, e) /\ jobs \in Seq(Jobs)
          /\ UNCHANGED <<log, bare, objs, refLock, stage, current, commits>>
      BY <1>1 DEF SourcePush, cacheVars, encVars, workerVars, TypeInv, QueueInv
    <2>2. e \in Jobs
      BY PipelineAssumption DEF Jobs, JobStates
    <2> HIDE DEF e
    <2>3. \A i \in 1 .. Len(jobs) : jobs'[i] = jobs[i]
      BY <2>1, <2>2, AppendProperties
    <2>4. \A v \in Workers : stage[v] # "idle" => Job(v)' = Job(v)
      BY <2>1, <2>3 DEF Job, TypeInv, QueueInv
    <2> QED BY <2>1, <2>4, HeldFrame
  <1>2. ASSUME NEW w \in Workers, PushUnacknowledged(w) \/ Fault(w)
        PROVE  HeldInv'
    <2>1. \A v \in Workers : stage'[v] = "idle"
      BY <1>2, FaultFrame DEF TypeInv, QueueInv, OneAtATime
    <2>2. CASE bare' = bare /\ objs' = objs /\ refLock' = refLock
      BY <1>2, <2>1, <2>2, FaultFrame
      DEF HeldInv, Busy, AfterFetch, AfterResolve, InLoop, AfterLoop
    <2>3. CASE /\ stage[w] \in {"clone", "download"}
               /\ bare' = "absent" /\ objs' = {} /\ refLock' = FALSE
      <3>1. log' = <<>> /\ Len(log') = 0
        BY <1>2, <2>3, FaultFrame, EmptySeq DEF HeldInv, Busy
      <3> QED BY <2>1, <2>3, <3>1
          DEF HeldInv, Busy, AfterFetch, AfterResolve, InLoop, AfterLoop
    <2> QED BY <1>2, <2>2, <2>3, FaultFrame
  <1>3. CASE Restart
    <2>1. /\ UNCHANGED <<log, bare, objs>> /\ \A v \in Workers : stage'[v] = "idle"
          /\ bare = "absent" => refLock' = refLock
      BY <1>3 DEF Restart, ProcessEnds
    <2> QED BY <2>1 DEF HeldInv, Busy, AfterFetch, AfterResolve, InLoop, AfterLoop
  <1>4. ~LoseCache
    BY DEF LoseCache, TypeInv, StoreInv
  <1>5. CASE UNCHANGED vars
    BY <1>5, HeldFrame DEF vars, Job, cacheVars, encVars, workerVars
  <1>6. ASSUME NEW w \in Workers, Step(w)
        PROVE  HeldInv'
    BY <1>6, StepKeepsTrailers, StepKeepsEmpty, StepKeepsResolved DEF HeldInv
  <1> QED BY <1>1, <1>2, <1>3, <1>4, <1>5, <1>6 DEF Next

(***************************************************************************)
(* Where nothing is left over, only a fault makes an attempt fail.         *)
(***************************************************************************)
LEMMA StepKeepsUnharmed ==
  ASSUME OneAtATime, RInv, TypeInv', SourceInv, CheckedInv, HeldInv, ~Leftover, Unharmed,
         NEW w \in Workers, Step(w)
  PROVE  Unharmed'
  <1> USE DEF RInv
  <1>1. \A j \in 1 .. Len(jobs') : jobs'[j].attempts <= faults'
    BY NoErrorStep, AttemptsKept, StepFrame DEF Unharmed
  <1>2. ASSUME NEW v \in Workers \ {w}
        PROVE  /\ stage'[v] = "resolve" => Job(v)'.commit \in objs'
               /\ stage'[v] = "list" => enc' = "ready"
    <2>1. stage'[v] = stage[v] /\ current'[v] = current[v]
      BY StepFrame
    <2>2. CASE TakeJob(w)
      <3>1. objs' = objs /\ enc' = enc
        BY <2>2 DEF TakeJob, cacheVars, encVars
      <3>2. stage[v] = "resolve" => Job(v)'.commit = Job(v).commit
        BY <2>1, StepJobs, HeldJobKept
      <3> QED BY <2>1, <3>1, <3>2 DEF Unharmed
    <2>3. CASE stage[w] # "idle"
      BY <2>1, <2>3 DEF OneAtATime
    <2> QED BY <2>2, <2>3, StepFrame
  <1>3. ASSUME stage'[w] = "resolve" PROVE Job(w)'.commit \in objs'
    <2>1. Fetch(w) \/ FinishClone(w)
      BY <1>3, StepTarget
    <2>2. jobs' = jobs /\ current' = current
      BY <1>3, <2>1 DEF Fetch, FinishClone, Goto, JobError, Leave, TypeInv, QueueInv
    <2>3. Job(w)' = Job(w)
      BY <2>2 DEF Job
    <2> QED BY <2>1, <2>2, <2>3, FetchFinds
  <1>4. stage'[w] = "list" => enc' = "ready"
    BY StepTarget, InitFinds
  <1> QED BY <1>1, <1>2, <1>3, <1>4 DEF Unharmed

LEMMA NextKeepsSmooth ==
  ASSUME MaxEras = 0, OneAtATime, SInv, TypeInv', [Next]_vars
  PROVE  SmoothInv'
  <1> USE DEF SInv, RInv
  <1> SUFFICES ASSUME ~Leftover' PROVE Unharmed'
    BY DEF SmoothInv
  <1>1. ~Leftover
    BY NextKeepsLeftover
  <1>2. Unharmed
    BY <1>1 DEF SmoothInv
  <1>3. ~LoseCache
    BY DEF LoseCache, TypeInv, StoreInv
  <1>4. ASSUME NEW b \in Branches, NEW c \in Commits, SourcePush(b, c)
        PROVE  Unharmed'
    <2> DEFINE e == [branch |-> b, commit |-> c, attempts |-> 0, state |-> "queued"]
    <2>1. /\ jobs' = Append(jobs, e) /\ jobs \in Seq(Jobs) /\ Len(jobs) \in Nat
          /\ UNCHANGED <<objs, enc, stage, current, faults>> /\ faults \in Nat
      BY <1>4, LenProperties, PipelineAssumption
      DEF SourcePush, cacheVars, encVars, workerVars, budgetVars, TypeInv, QueueInv, StoreInv
    <2>2. e \in Jobs /\ e.attempts = 0
      BY PipelineAssumption DEF Jobs, JobStates
    <2> HIDE DEF e
    <2>3. /\ Len(jobs') = Len(jobs) + 1 /\ jobs'[Len(jobs) + 1] = e
          /\ \A i \in 1 .. Len(jobs) : jobs'[i] = jobs[i]
      BY <2>1, <2>2, AppendProperties
    <2>4. \A j \in 1 .. Len(jobs') : j \in 1 .. Len(jobs) \/ j = Len(jobs) + 1
      BY <2>1, <2>3
    <2>5. \A j \in 1 .. Len(jobs') : jobs'[j].attempts <= faults'
      BY <1>2, <2>1, <2>2, <2>3, <2>4 DEF Unharmed
    <2>6. \A v \in Workers : stage[v] = "resolve" => Job(v)' = Job(v)
      BY <2>1, <2>3 DEF Job, TypeInv, QueueInv
    <2> QED BY <1>2, <2>1, <2>5, <2>6 DEF Unharmed
  <1>5. ASSUME NEW w \in Workers, PushUnacknowledged(w) \/ Fault(w)
        PROVE  Unharmed'
    <2>1. \A v \in Workers : stage'[v] = "idle"
      <3>1. stage[w] # "idle" /\ stage' = [stage EXCEPT ![w] = "idle"]
        BY <1>5, FaultFrame
      <3> QED BY <3>1 DEF TypeInv, QueueInv, OneAtATime
    <2>2. stage[w] # "idle" /\ JobError(w) /\ faults' = faults + 1 /\ faults \in Nat
      BY <1>5, FaultFrame
    <2>3. \A j \in 1 .. Len(jobs') : jobs'[j].attempts <= faults'
      <3>1. \A j \in 1 .. Len(jobs) : jobs[j].attempts \in Nat
        BY AttemptsAreNumbers
      <3>2. \A j \in 1 .. Len(jobs') : jobs'[j].attempts \in Nat
        <4>1. \A j \in 1 .. Len(jobs') : jobs'[j] \in Jobs
          BY ElementOfSeq DEF TypeInv, QueueInv
        <4> QED BY <4>1, PipelineAssumption DEF Jobs
      <3> SUFFICES ASSUME NEW j \in 1 .. Len(jobs') PROVE jobs'[j].attempts <= faults'
        OBVIOUS
      <3>3. j \in 1 .. Len(jobs) /\ jobs'[j].attempts <= jobs[j].attempts + 1
        BY <2>2, AttemptCounted
      <3>4. jobs[j].attempts <= faults
        BY <1>2, <3>3 DEF Unharmed
      <3> QED BY <2>2, <3>1, <3>2, <3>3, <3>4
    <2> QED BY <2>1, <2>3 DEF Unharmed
  <1>6. CASE Restart
    <2>1. ProcessEnds /\ faults' = faults /\ \A v \in Workers : stage'[v] = "idle"
      BY <1>6 DEF Restart, ProcessEnds
    <2>2. Len(jobs') = Len(jobs) /\ \A j \in 1 .. Len(jobs) : jobs'[j].attempts = jobs[j].attempts
      BY <2>1, SameLength, EndKeepsAttempts
    <2> QED BY <1>2, <2>1, <2>2 DEF Unharmed
  <1>7. CASE UNCHANGED vars
    BY <1>2, <1>7 DEF vars, Unharmed, Job, cacheVars, encVars, workerVars, budgetVars
  <1>8. ASSUME NEW w \in Workers, Step(w)
        PROVE  Unharmed'
    BY <1>1, <1>2, <1>8, StepKeepsUnharmed
  <1> QED BY <1>3, <1>4, <1>5, <1>6, <1>7, <1>8 DEF Next

LEMMA AlwaysSInv ==
  ASSUME NoForeignTrailers, ~ForcePush, MaxEras = 0
  PROVE  Spec /\ []OneAtATime => []SInv
  <1>1. Init => SInv
    <2> SUFFICES ASSUME Init PROVE SInv
      OBVIOUS
    <2>1. /\ jobs = <<>> /\ Len(jobs) = 0 /\ log = <<>> /\ Len(log) = 0 /\ objs = {}
          /\ ~refLock /\ \A w \in Workers : stage[w] = "idle"
      BY EmptySeq DEF Init
    <2>2. RemotesArePrefixes
      BY EmptySeq DEF Init, RemotesArePrefixes, FastForwards
    <2>3. HeldInv
      BY <2>1 DEF HeldInv, AfterFetch, AfterResolve, InLoop, AfterLoop, Busy
    <2> QED BY <2>1, <2>2, <2>3, TypeInvInit
            DEF SInv, RInv, SourceInv, CheckedInv, SmoothInv, Unharmed
  <1>2. OneAtATime /\ SInv /\ [Next]_vars => SInv'
    BY NextKeepsTypeInv, NextKeepsPrefixes, NextKeepsSource, NextKeepsChecked, NextKeepsHeld,
       NextKeepsSmooth
    DEF SInv, RInv
  <1> QED BY <1>1, <1>2, PTL DEF Spec

(***************************************************************************)
(* While jobs are handled one at a time, branches only move forward, the   *)
(* cache is not lost and no message names a commit of another history as   *)
(* its Source-Commit, an attempt fails only because a command failed, or   *)
(* behind a leftover: a lock, a clone or an init that a killed process     *)
(* left, or a resume point that is no object.  Nothing is assumed of the   *)
(* dates, the shape of the history, the number of branches, jobs, failures *)
(* and restarts, or of the users' timing.                                  *)
(***************************************************************************)
THEOREM OnlyFailuresFail ==
  ASSUME NoForeignTrailers, ~ForcePush, MaxEras = 0
  PROVE  Spec /\ []OneAtATime => []NoSpuriousFailure
  <1>1. SInv => NoSpuriousFailure
    BY DEF SInv, SmoothInv, Unharmed, NoSpuriousFailure
  <1> QED BY <1>1, AlwaysSInv, PTL

(***************************************************************************)
(* Under the same hypotheses nothing the service does removes a leftover:  *)
(* it is there over retries, later jobs and restarts, until somebody       *)
(* removes it (the handler, InitWorkingRepo, EnsureMirror).                *)
(***************************************************************************)
THEOREM LeftoversStay ==
  ASSUME NoForeignTrailers, ~ForcePush, MaxEras = 0
  PROVE  Spec /\ []OneAtATime => LeftoversRemain
  <1>1. SInv /\ SInv' /\ [Next]_vars => [EachRemains]_vars
    BY NextKeepsLeftovers DEF SInv, RInv
  <1> QED BY <1>1, AlwaysSInv, PTL DEF Spec, LeftoversRemain
=============================================================================
