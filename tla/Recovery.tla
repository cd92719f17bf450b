------------------------------ MODULE Recovery ------------------------------
(***************************************************************************)
(* What of a source tree reaches the encrypted repository, entry by entry, *)
(* and what the restore command gets back from it: internal/encrypt (the   *)
(* walk, the manifest, decryption, detection of a change of recipients),   *)
(* the export of a tree (internal/git/history.go) and cmd/restore.  One    *)
(* worker mirrors a linear history; MirrorPipeline has what several        *)
(* workers and retries add.  The service may die at any step, an operator  *)
(* edits the recipients and deletes caches, and restore runs beside it,    *)
(* into a new directory or into one that an earlier restore has filled.    *)
(*                                                                         *)
(* Data: a path is a sequence of names, a name a sequence of parts, of     *)
(* which only the suffix ".age" matters.  No link points to a link or to a *)
(* directory, so that one step resolves a path.  File modes are left out:  *)
(* git has two, with both of which a file can be overwritten.              *)
(***************************************************************************)
EXTENDS Naturals, Sequences

CONSTANTS
    Walk,           \* the paths, in the order of filepath.WalkDir
    ArchiveOrder,   \* the paths, in the order of git's trees
    Contents,       \* contents of regular files
    Links,          \* symbolic links
    Target,         \* Target[l]: the path link l points to, None if elsewhere
    Histories,      \* the source: path -> content, link or None, per commit
    Commits,        \* 1 .. n: the commits of every history
    Unexported,     \* Unexported[i]: what git archive leaves out (export-ignore)
    Archived,       \* what archiving makes of a content: Archived[i][p][c]
    Ignored,        \* Ignored[i]: what commit i's .encryptignore matches
    BadIgnore,      \* <<p, c>>: p is .encryptignore and c has a line that is
                    \* too long, or p is in a directory of that name
    Unextractable,  \* the paths that contain "..", or that cannot be made
    DotEnding,      \* the paths that end in ".": ".." is in their blob's name
    TooLong,        \* the paths whose name has no room for ".age"
    Named,          \* what JSON makes of paths and links: names that are not
                    \* UTF-8 get replacement characters
    Keys,           \* age key pairs
    Lists,          \* lists of recipients, up to their order: how often each
                    \* key is on it
    MaxEvents,      \* bound: edits of the configuration, stops, deletions
    None, Directory

Paths == {Walk[k] : k \in 1 .. Len(Walk)}

\* The directories a path lies in.
Dirs(p) == {SubSeq(p, 1, k) : k \in 1 .. Len(p) - 1}

\* What the output directory can hold something at.
Places == Paths \cup UNION {Dirs(p) : p \in Paths}

\* The recipients on a list; that of an empty file.
KeysOf(list) == {k \in Keys : list[k] > 0}
NoKeys == [k \in Keys |-> 0]

KeySets == (SUBSET Keys) \ {{}}
Blobs == [content : Contents, keys : KeySets]

\* Mutant of EncPath: no second suffix.
EncPathOnce(p) ==
    [p EXCEPT ![Len(p)] = IF @[Len(@)] = ".age" THEN @ ELSE Append(@, ".age")]

\* Where the blob of a regular file goes in the encrypted tree.
EncPath(p) == [p EXCEPT ![Len(p)] = Append(@, ".age")]

Locations == {EncPath(p) : p \in Paths}
ManifestPath == << <<"manifest.json">> >>
Manifests == [Paths -> Links \cup Locations \cup {None}]

\* In a tree of git's nothing is below a file or a link.
ASSUME RecoveryAssumption ==
    /\ Walk \in Seq(Seq(Seq(STRING)))
    /\ \A i, j \in 1 .. Len(Walk) : Walk[i] = Walk[j] => i = j
    /\ \A p \in Paths : Len(p) > 0
    /\ ArchiveOrder \in Seq(Paths)
    /\ \A p \in Paths : \E k \in 1 .. Len(ArchiveOrder) : ArchiveOrder[k] = p
    /\ Links \cap (Contents \cup Locations) = {}
    /\ {None, Directory} \cap (Links \cup Contents \cup Paths \cup Locations) = {}
    /\ None # Directory /\ None \notin Blobs \cup Manifests
    /\ Target \in [Links -> Paths \cup {None}]
    /\ Histories \subseteq [Commits -> [Paths -> Contents \cup Links \cup {None}]]
    /\ \A h \in Histories, i \in Commits : \A p, q \in Paths :
          h[i][p] # None /\ h[i][q] # None => p \notin Dirs(q)
    /\ \A h \in Histories, i \in Commits, l \in Links :
          Target[l] # None =>
             /\ Target[l] \in Paths \ UNION {Dirs(p) : p \in Paths}
             /\ \A p \in Paths : Target[l] \in {p, Named[p]} => h[i][p] \notin Links
    /\ Unexported \in [Commits -> SUBSET Paths] /\ Ignored \in [Commits -> SUBSET Paths]
    /\ Archived \in [Commits -> [Paths -> [Contents -> Contents]]]
    /\ BadIgnore \subseteq Paths \X (Contents \cup Links)
    /\ UNION {Unextractable, DotEnding, TooLong} \subseteq Paths
    /\ Named \in [Paths \cup Links -> Paths \cup Links]
    /\ \A p \in Paths : Named[p] \in Paths
    /\ \A l \in Links : Named[l] \in Links
    /\ Lists \subseteq [Keys -> Nat] \ {NoKeys}
    /\ MaxEvents \in Nat

VARIABLES
    source,         \* Forgejo: the history that is mirrored
    configured,     \* encryption.recipient in the configuration file
    recipients,     \* the recipients the running service has loaded
    recorded,       \* .encryption-recipients: None if it is missing, or its list
    phase,          \* how far the service has got in starting
    rotated,        \* DetectRotation's result
    lastRun,        \* history: the recipients of the last run that served
    interrupted,    \* history: the service died while it recorded or reported
    stage, at,      \* the worker: where it is, and at which path
    worktree,       \* <repo>.enc: the encrypted tree in the directory
    index,          \* <repo>.enc: the tree that git add staged
    log,            \* <repo>.enc: the encrypted trees of HEAD's history
    usedKeys,       \* history: the recipients when each of them was committed
    restore,        \* the restore command; before, commit, keys are history:
                    \* what its directory held, the commit it was asked for,
                    \* and that commit's recipients
    disturbed,      \* history: the directory it reads was not HEAD's throughout
    events

serviceVars == <<configured, recipients, recorded, phase, rotated, lastRun, interrupted>>
workerVars  == <<stage, at>>
repoVars    == <<worktree, index, log, usedKeys>>
restoreVars == <<restore, disturbed>>
vars == <<source, serviceVars, workerVars, repoVars, restoreVars, events>>

NoEntries == [p \in Paths |-> None]
EmptyTree == [blobs |-> [l \in Locations |-> None], manifest |-> None]
EmptyOut == [x \in Places |-> None]

Idle == [stage |-> "off", live |-> FALSE, tree |-> EmptyTree, key |-> None,
         manifest |-> NoEntries, at |-> 1, out |-> EmptyOut, before |-> EmptyOut,
         commit |-> 0, keys |-> {}]

Init ==
    /\ source \in Histories
    /\ configured \in Lists /\ recipients = NoKeys /\ recorded = None
    /\ phase = "down" /\ rotated = FALSE /\ lastRun = None /\ interrupted = FALSE
    /\ stage = "idle" /\ at = 1
    /\ worktree = EmptyTree /\ index = EmptyTree
    /\ log = <<>> /\ usedKeys = <<>>
    /\ restore = Idle /\ disturbed = FALSE /\ events = 0

Event == events < MaxEvents /\ events' = events + 1

\* An operator edits encryption.recipient.
EditConfiguration ==
    /\ Event
    /\ configured' \in Lists \ {configured}
    /\ UNCHANGED <<source, recipients, recorded, phase, rotated, lastRun, interrupted,
                   workerVars, repoVars, restoreVars>>

(***************************************************************************)
(* Starting: LoadRecipients, DetectRotation (read the state file, compare, *)
(* truncate it, write it), then the warning and the audit event.           *)
(***************************************************************************)
LoadRecipients ==
    /\ phase = "down" /\ phase' = "detect"
    /\ recipients' = configured
    /\ UNCHANGED <<source, configured, recorded, rotated, lastRun, interrupted,
                   workerVars, repoVars, restoreVars, events>>

\* Mutant of Rotated: only a key that is new counts.
RotatedByNewKey == recorded # None /\ ~(KeysOf(recipients) \subseteq KeysOf(recorded))

Rotated == recorded # None /\ recorded # recipients

DetectRotation ==
    /\ phase = "detect" /\ phase' = "truncate"
    /\ rotated' = Rotated
    /\ UNCHANGED <<source, configured, recipients, recorded, lastRun, interrupted,
                   workerVars, repoVars, restoreVars, events>>

\* Mutant of WriteRotationState: the file is written once and for all.
WriteRotationStateOnce ==
    /\ phase = "truncate" /\ phase' = "report"
    /\ recorded' = IF recorded = None THEN recipients ELSE recorded
    /\ UNCHANGED <<source, configured, recipients, rotated, lastRun, interrupted,
                   workerVars, repoVars, restoreVars, events>>

\* os.WriteFile truncates the file before it writes it.
WriteRotationState ==
    /\ \/ phase = "truncate" /\ phase' = "write" /\ recorded' = NoKeys
       \/ phase = "write" /\ phase' = "report" /\ recorded' = recipients
    /\ UNCHANGED <<source, configured, recipients, rotated, lastRun, interrupted,
                   workerVars, repoVars, restoreVars, events>>

\* The rotation, if any, is logged and audited; the workers start.
ReportRotation ==
    /\ phase = "report" /\ phase' = "serving"
    /\ UNCHANGED <<source, configured, recipients, recorded, rotated, lastRun, interrupted,
                   workerVars, repoVars, restoreVars, events>>

(***************************************************************************)
(* The service stops or dies, wherever it and its worker are.              *)
(***************************************************************************)
Crash ==
    /\ Event
    /\ phase # "down" /\ phase' = "down"
    /\ lastRun' = IF phase = "serving" THEN recipients ELSE lastRun
    /\ interrupted' = (phase \in {"write", "report"} \/ (phase # "serving" /\ interrupted))
    /\ recipients' = NoKeys /\ rotated' = FALSE
    /\ stage' = "idle" /\ at' = 1
    /\ UNCHANGED <<source, configured, recorded, repoVars, restoreVars>>

Reading == restore.live /\ restore.stage \in {"manifest", "decrypt"}

\* While the service is down an operator deletes .enc, or the whole cache.
DeleteCache ==
    /\ Event
    /\ phase = "down"
    /\ worktree' = EmptyTree /\ index' = EmptyTree /\ log' = <<>> /\ usedKeys' = <<>>
    /\ \/ UNCHANGED <<recorded, lastRun, interrupted>>
       \/ recorded' = None /\ lastRun' = None /\ interrupted' = FALSE
    /\ disturbed' = (disturbed \/ Reading)
    /\ UNCHANGED <<source, configured, recipients, phase, rotated, workerVars, restore>>

(***************************************************************************)
(* The body of UpdateEncryptedHistory's loop for the next commit.          *)
(***************************************************************************)
Commit == Len(log) + 1

\* What git archive makes of path p of commit i, as .gitattributes tells it
\* to: it leaves entries out (export-ignore) and converts contents (eol,
\* ident, export-subst, filters).
Archive(i, p) ==
    IF p \in Unexported[i] THEN None
    ELSE IF source[i][p] \in Contents THEN Archived[i][p][source[i][p]]
    ELSE source[i][p]

Exported(i) == {p \in Paths : Archive(i, p) # None}

Mirrored(i) == Exported(i) \ Ignored[i]

RegularFiles(i) == {p \in Mirrored(i) : Archive(i, p) \in Contents}

\* extractTar refuses a name with "..", and a link to what it has not yet
\* extracted or to what is not below the link's own directory.
Extractable(i) ==
    \A k \in {j \in 1 .. Len(ArchiveOrder) : ArchiveOrder[j] \in Exported(i)} :
        LET p == ArchiveOrder[k]
            before == {ArchiveOrder[j] : j \in 1 .. k - 1} \cap Exported(i)
        IN  /\ p \notin Unextractable
            /\ Archive(i, p) \in Links =>
                  \E q \in before : q = Target[Archive(i, p)] /\ Dirs(p) \subseteq Dirs(q)

Continue(s) == stage' = s /\ at' = 1

\* An error that the commit's tree causes ends the job, and its retries meet
\* the same.
Refuse == Continue("refused") /\ UNCHANGED <<repoVars, restoreVars>>

\* The export goes to a private directory.
ExportTree ==
    /\ phase = "serving" /\ stage = "idle" /\ Commit \in Commits
    /\ \/ Extractable(Commit) /\ Continue("clear") /\ UNCHANGED <<repoVars, restoreVars>>
       \/ ~Extractable(Commit) /\ Refuse
    /\ UNCHANGED <<source, serviceVars, events>>

\* Whatever changes the directory of <repo>.enc goes through here.
WriteTree(tree) ==
    /\ worktree' = tree /\ disturbed' = (disturbed \/ Reading)
    /\ UNCHANGED <<index, log, usedKeys, restore>>

\* Mutant of ClearWorkingTree: what is in subdirectories stays.
ClearWorkingTreeFlat ==
    /\ stage = "clear"
    /\ \/ /\ worktree.manifest # None
          /\ WriteTree([worktree EXCEPT !.manifest = None]) /\ UNCHANGED workerVars
       \/ \E l \in Locations :
             /\ worktree.blobs[l] # None /\ Len(l) = 1
             /\ WriteTree([worktree EXCEPT !.blobs[l] = None]) /\ UNCHANGED workerVars
       \/ /\ worktree.manifest = None
          /\ \A l \in Locations : Len(l) = 1 => worktree.blobs[l] = None
          /\ Continue("ignore") /\ UNCHANGED <<repoVars, restoreVars>>
    /\ UNCHANGED <<source, serviceVars, events>>

\* One entry at a time (in ReadDir's order; any order is allowed here).
ClearWorkingTree ==
    /\ stage = "clear"
    /\ \/ /\ worktree.manifest # None
          /\ WriteTree([worktree EXCEPT !.manifest = None]) /\ UNCHANGED workerVars
       \/ \E l \in Locations :
             /\ worktree.blobs[l] # None
             /\ WriteTree([worktree EXCEPT !.blobs[l] = None]) /\ UNCHANGED workerVars
       \/ worktree = EmptyTree /\ Continue("ignore") /\ UNCHANGED <<repoVars, restoreVars>>
    /\ UNCHANGED <<source, serviceVars, events>>

\* Neither a file in the way of a directory nor a directory in that of a file.
Writable(l) ==
    \A f \in {f \in Locations : worktree.blobs[f] # None} : f \notin Dirs(l) /\ l \notin Dirs(f)

\* After the k-th path of the walk, the next one in S, or the end.
Onward(k, S) ==
    {j \in k + 1 .. Len(Walk) + 1 :
        /\ \A m \in k + 1 .. j - 1 : Walk[m] \notin S
        /\ j <= Len(Walk) => Walk[j] \in S}

IgnoreIsBad(i) == \E p \in Exported(i) : <<p, Archive(i, p)>> \in BadIgnore

\* Encrypt begins with .encryptignore, before it writes anything.
LoadIgnoreFile ==
    /\ stage = "ignore"
    /\ \/ IgnoreIsBad(Commit) /\ Refuse
       \/ /\ ~IgnoreIsBad(Commit)
          /\ stage' = "encrypt" /\ at' \in Onward(0, RegularFiles(Commit))
          /\ UNCHANGED <<repoVars, restoreVars>>
    /\ UNCHANGED <<source, serviceVars, events>>

\* Mutant of EncryptFile: only one of the recipients is used.
EncryptFileToOne(content) ==
    [content |-> content, keys |-> {CHOOSE k \in KeysOf(recipients) : TRUE}]

EncryptFile(content) == [content |-> content, keys |-> KeysOf(recipients)]

\* Encrypt's walk: regular files become blobs; links only become entries of
\* the manifest, directories nothing.  An unfinished blob reads like a missing
\* one: age detects truncation.
EncryptEntry ==
    /\ stage = "encrypt" /\ at <= Len(Walk)
    /\ LET p == Walk[at]
           fits == p \notin TooLong /\ Writable(EncPath(p))
       IN  \/ /\ fits
              /\ at' \in Onward(at, RegularFiles(Commit)) /\ UNCHANGED stage
              /\ WriteTree([worktree EXCEPT !.blobs[EncPath(p)] = EncryptFile(Archive(Commit, p))])
           \/ ~fits /\ Refuse
    /\ UNCHANGED <<source, serviceVars, events>>

\* The manifest as it is read back: an entry's blob, or its link.
Manifest(i) ==
    [p \in Paths |->
        IF p \notin Mirrored(i) THEN None
        ELSE IF Archive(i, p) \in Links THEN Named[Archive(i, p)] ELSE EncPath(Named[p])]

WriteManifest ==
    /\ stage = "encrypt" /\ at > Len(Walk)
    /\ \/ /\ Writable(ManifestPath) /\ Continue("add")
          /\ WriteTree([worktree EXCEPT !.manifest = Manifest(Commit)])
       \/ ~Writable(ManifestPath) /\ Refuse
    /\ UNCHANGED <<source, serviceVars, events>>

StageAll ==
    /\ stage = "add" /\ Continue("commit")
    /\ index' = worktree
    /\ UNCHANGED <<source, serviceVars, worktree, log, usedKeys, restoreVars, events>>

CommitStaged ==
    /\ stage = "commit" /\ Continue("idle")
    /\ log' = Append(log, index) /\ usedKeys' = Append(usedKeys, KeysOf(recipients))
    /\ UNCHANGED <<source, serviceVars, worktree, index, restoreVars, events>>

\* A command or a system call fails, or Encrypt has: the job ends, and is
\* tried again.
JobFails ==
    /\ stage # "idle" /\ Continue("idle")
    /\ UNCHANGED <<source, serviceVars, repoVars, restoreVars, events>>

(***************************************************************************)
(* cmd/restore: from a commit, whose tree is exported first, or without    *)
(* -commit from the directory as it is then; into a new directory, or into *)
(* that of an earlier restore (bound: two restores into a directory, both  *)
(* of commits).                                                            *)
(***************************************************************************)
Reused(live) ==
    IF restore.before = EmptyOut /\ ~restore.live /\ ~live THEN {restore.out} ELSE {}

\* extractTar refuses an encrypted tree too for a name with "..".
Extracts(tree) == \A p \in DotEnding : tree.blobs[EncPath(p)] = None

StartRestore(i, live) ==
    /\ restore.stage \in {"off", "done", "failed"}
    /\ \E k \in Keys,
          before \in {EmptyOut} \cup Reused(live) :
          restore' = [Idle EXCEPT !.stage = IF live \/ Extracts(log[i]) THEN "manifest" ELSE "failed",
                        !.live = live, !.key = k,
                        !.tree = IF live THEN EmptyTree ELSE log[i],
                        !.out = before, !.before = before,
                        !.commit = i, !.keys = IF i = 0 THEN {} ELSE usedKeys[i]]
    /\ disturbed' = (live /\ (i = 0 \/ worktree # log[i]))
    /\ UNCHANGED <<source, serviceVars, workerVars, repoVars, events>>

RestoreCommit == \E i \in 1 .. Len(log) : StartRestore(i, FALSE)
RestoreCurrent == StartRestore(Len(log), TRUE)

Listed(manifest) == {p \in Paths : manifest[p] # None}

\* What restore reads from.
Source == IF restore.live THEN worktree ELSE restore.tree

ReadManifest ==
    /\ restore.stage = "manifest"
    /\ \/ /\ Source.manifest = None
          /\ restore' = [restore EXCEPT !.stage = "failed"]
       \/ /\ Source.manifest # None
          /\ \E n \in Onward(0, Listed(Source.manifest)) :
                restore' = [restore EXCEPT !.stage = "decrypt", !.at = n,
                                           !.manifest = Source.manifest]
    /\ UNCHANGED <<source, serviceVars, workerVars, repoVars, disturbed, events>>

\* MkdirAll of the directories of p, which a file or a link stops.
CanMakeDirs(p) == \A d \in Dirs(p) : restore.out[d] \in {None, Directory}
WithDirs(p) == [x \in Places |-> IF x \in Dirs(p) THEN Directory ELSE restore.out[x]]

\* The path that opening p for writing opens: a link is followed.
Opened(p) == IF restore.out[p] \in Links THEN Target[restore.out[p]] ELSE p

CanOpen(p) ==
    /\ Opened(p) # None
    /\ WithDirs(p)[Opened(p)] # Directory
    /\ \A d \in Dirs(Opened(p)) : WithDirs(p)[d] = Directory

\* Whether the blob is there, and the key opens it.
Readable(l) == Source.blobs[l] # None /\ restore.key \in Source.blobs[l].keys

\* v goes to x, on the way to p; the next entry is the n-th.
Put(p, x, v, n) == [restore EXCEPT !.at = n, !.out = [WithDirs(p) EXCEPT ![x] = v]]

\* Decrypt: one entry of the manifest after the other.
DecryptEntry ==
    /\ restore.stage = "decrypt" /\ restore.at <= Len(Walk)
    /\ LET p == Named[Walk[restore.at]]
           e == restore.manifest[Walk[restore.at]]
           fits == CanMakeDirs(p) /\ IF e \in Links THEN restore.out[p] = None
                                     ELSE Readable(e) /\ CanOpen(p)
       IN  \/ /\ fits
              /\ \E n \in Onward(restore.at, Listed(restore.manifest)) :
                    restore' = IF e \in Links THEN Put(p, p, e, n)
                               ELSE Put(p, Opened(p), Source.blobs[e].content, n)
           \/ /\ ~fits
              /\ restore' = [restore EXCEPT !.stage = "failed",
                                !.out = IF CanMakeDirs(p) THEN WithDirs(p) ELSE @]
    /\ UNCHANGED <<source, serviceVars, workerVars, repoVars, disturbed, events>>

FinishRestore ==
    /\ restore.stage = "decrypt" /\ restore.at > Len(Walk)
    /\ restore' = [restore EXCEPT !.stage = "done"]
    /\ UNCHANGED <<source, serviceVars, workerVars, repoVars, disturbed, events>>

-----------------------------------------------------------------------------
Start == LoadRecipients \/ DetectRotation \/ WriteRotationState \/ ReportRotation

Mirror ==
    \/ ExportTree \/ ClearWorkingTree \/ LoadIgnoreFile \/ EncryptEntry \/ WriteManifest
    \/ StageAll \/ CommitStaged \/ JobFails

Restore ==
    \/ RestoreCommit \/ RestoreCurrent
    \/ ReadManifest \/ DecryptEntry \/ FinishRestore

Next ==
    \/ Start \/ Mirror \/ Restore
    \/ EditConfiguration \/ Crash \/ DeleteCache

Spec == Init /\ [][Next]_vars

-----------------------------------------------------------------------------
EncryptedTrees == [blobs : [Locations -> Blobs \cup {None}], manifest : Manifests \cup {None}]
Outputs == [Places -> Contents \cup Links \cup {Directory, None}]

TypeOK ==
    /\ source \in Histories
    /\ configured \in Lists /\ recipients \in {NoKeys} \cup Lists
    /\ recorded \in {None, NoKeys} \cup Lists /\ lastRun \in {None} \cup Lists
    /\ phase \in {"down", "detect", "truncate", "write", "report", "serving"}
    /\ phase = "serving" => recorded = recipients
    /\ stage \in {"idle", "clear", "ignore", "encrypt", "refused", "add", "commit"}
    /\ stage # "idle" => phase = "serving" /\ Commit \in Commits
    /\ at \in 1 .. Len(Walk) + 1
    /\ worktree \in EncryptedTrees /\ index \in EncryptedTrees
    /\ Len(usedKeys) = Len(log)
    /\ \A i \in 1 .. Len(log) : log[i] \in EncryptedTrees /\ usedKeys[i] \in KeySets
    /\ restore.stage \in {"off", "manifest", "decrypt", "done", "failed"}
    /\ restore.at \in 1 .. Len(Walk) + 1
    /\ restore.out \in Outputs /\ restore.before \in Outputs

\* What a backup of commit i preserves.
Visible(i) == [p \in Paths |-> IF p \in Mirrored(i) THEN Archive(i, p) ELSE None]

\* That tree, laid over what a directory held before.
Overlaid(i, before) ==
    [x \in Places |->
        IF x \in Paths /\ Visible(i)[x] # None THEN Visible(i)[x]
        ELSE IF \E p \in Mirrored(i) : x \in Dirs(p) THEN Directory ELSE before[x]]

\* What was in a directory that commit i has no room beside.
InTheWay(i, before) ==
    \E p \in Mirrored(i) :
        \/ before[p] \in Links \cup {Directory}
        \/ before[p] # None /\ Visible(i)[p] \in Links
        \/ \E d \in Dirs(p) : before[d] \notin {None, Directory}

\* The restores whose result the service's writes cannot have touched.
Undisturbed == restore.commit # 0 /\ ~disturbed

\* Commits that JSON can name all of.
WellNamed(i) ==
    \A p \in Exported(i) :
        Named[p] = p /\ (Archive(i, p) \in Links => Named[Archive(i, p)] = Archive(i, p))

(***************************************************************************)
(* "A backup can be decrypted back into an exact copy of the tree at any   *)
(* commit", as far as the code keeps it: restore from a commit, or from a  *)
(* directory that is HEAD's the whole time, gives all that git archive     *)
(* made of that commit and that was not ignored, links included, and       *)
(* nothing else; over what an earlier restore left, if that has no link    *)
(* through which to write.  Names that are not UTF-8 are excepted.         *)
(* (Encrypt, WriteManifest, Decrypt, cmd/restore.)                         *)
(***************************************************************************)
RestoreGivesArchivedTree ==
    /\ restore.stage = "done" /\ Undisturbed /\ WellNamed(restore.commit)
    /\ \A x \in Places : restore.before[x] \notin Links
    => restore.out = Overlaid(restore.commit, restore.before)

(***************************************************************************)
(* "Existing history remains encrypted to whatever recipients produced     *)
(* it": across rotations, crashes and rebuilds such a restore fails, if no *)
(* system call does, only for a key that was not a recipient when the      *)
(* commit was made, or for what an earlier restore left in the way, or for *)
(* names: some that JSON cannot express, or, with -commit, a file's that   *)
(* ends in ".".  (Encrypt, Decrypt, extractTar.)                           *)
(***************************************************************************)
EveryRecipientCanRestore ==
    restore.stage = "failed" /\ Undisturbed =>
        \/ restore.key \notin restore.keys
        \/ InTheWay(restore.commit, restore.before)
        \/ ~WellNamed(restore.commit)
        \/ ~restore.live /\ DotEnding \cap RegularFiles(restore.commit) # {}

(***************************************************************************)
(* A commit is refused only for its own tree: extractTar does not take it, *)
(* or Encrypt not its .encryptignore, or there is no room for a blob: its  *)
(* name gets too long, or is a directory's, as may be the manifest's.      *)
(* What other commits had, or a run that died left in <repo>.enc, is never *)
(* in the way (ExportTree, ClearWorkingTree, Encrypt).                     *)
(***************************************************************************)
Collides(i) == \E p, q \in RegularFiles(i) : Dirs(q) \cap {EncPath(p), ManifestPath} # {}

RefusedForItsTree ==
    stage = "refused" =>
        \/ ~Extractable(Commit) \/ IgnoreIsBad(Commit)
        \/ TooLong \cap RegularFiles(Commit) # {} \/ Collides(Commit)

(***************************************************************************)
(* "Recipient set changed since last run": a run that serves has reported  *)
(* a rotation exactly if the one that served before it had another list    *)
(* (a key put on it twice is reported, too), unless a start was cut off    *)
(* while it recorded or reported it (DetectRotation, its caller in main).  *)
(***************************************************************************)
RotationIsReported ==
    phase = "serving" /\ ~interrupted => (rotated <=> lastRun \notin {None, recipients})

(***************************************************************************)
(* Without -commit too, what restore hands out is the tree of some commit  *)
(* (cmd/restore: "instead of its current HEAD").                           *)
(***************************************************************************)
CurrentStateIsATree ==
    restore.stage = "done" /\ restore.before = EmptyOut =>
        \E i \in Commits : restore.out = Overlaid(i, EmptyOut)
=============================================================================
