--------------------------- MODULE RecoveryProofs ---------------------------
(***************************************************************************)
(* Proofs about Recovery, for any trees, keys and number of events: the    *)
(* service reports a change of recipients, refuses a commit for its own    *)
(* tree only, and what it has committed is restored as it was archived, by *)
(* every recipient of the time, however restore and service interleave, as *)
(* far as names and the output directory allow it.                         *)
(***************************************************************************)
EXTENDS Recovery, SequenceTheorems, TLAPS

(***************************************************************************)
(* RegularFiles files become blobs.  HasBlobs: a tree's blobs are those of the  *)
(* first n - 1 paths.  Holds: the whole of commit i, for the keys K.       *)
(***************************************************************************)
BlobOf(i, K, p) ==
    IF p \in RegularFiles(i) THEN [content |-> Archive(i, p), keys |-> K] ELSE None

HasBlobs(tree, i, K, n) ==
    \A k \in 1 .. Len(Walk) :
        tree.blobs[EncPath(Walk[k])] = IF k < n THEN BlobOf(i, K, Walk[k]) ELSE None

Holds(tree, i, K) ==
    /\ tree.manifest = Manifest(i)
    /\ \A p \in Paths : tree.blobs[EncPath(p)] = BlobOf(i, K, p)

-----------------------------------------------------------------------------
(***************************************************************************)
(* Paths and where their blobs go.                                         *)
(***************************************************************************)
Names == Seq(STRING \cup {".age"})

LEMMA PathType ==
    ASSUME NEW p \in Paths
    PROVE  /\ p \in Seq(Names) /\ Len(p) \in Nat \ {0}
           /\ \A k \in 1 .. Len(p) : p[k] \in Names
<1>1. PICK k \in 1 .. Len(Walk) : p = Walk[k]
  BY DEF Paths
<1>2. p \in Seq(Names)
  <2>1. p \in Seq(Seq(STRING))
    BY <1>1, ElementOfSeq, RecoveryAssumption
  <2>2. Seq(STRING) \subseteq Names
    BY SeqMonotonic DEF Names
  <2> QED BY <2>1, <2>2, SeqMonotonic
<1>3. Len(p) \in Nat \ {0}
  BY <1>2, RecoveryAssumption, LenProperties
<1>4. \A j \in 1 .. Len(p) : p[j] \in Names
  BY <1>2, ElementOfSeq
<1> QED BY <1>2, <1>3, <1>4

LEMMA EncPathType ==
    ASSUME NEW p \in Paths
    PROVE  /\ EncPath(p) \in Seq(Names) /\ Len(EncPath(p)) = Len(p)
           /\ \A k \in 1 .. Len(p) - 1 : EncPath(p)[k] = p[k]
           /\ EncPath(p)[Len(p)] = Append(p[Len(p)], ".age")
<1>1. p \in [1 .. Len(p) -> Names] /\ Len(p) \in 1 .. Len(p) /\ Len(p) \in Nat \ {0}
  BY PathType, LenProperties
<1>2. Append(p[Len(p)], ".age") \in Names
  BY <1>1, AppendProperties DEF Names
<1>3. EncPath(p) \in [1 .. Len(p) -> Names]
  BY <1>1, <1>2 DEF EncPath
<1>4. EncPath(p) \in Seq(Names) /\ Len(EncPath(p)) = Len(p)
  <2>1. \A n \in Nat : \A f : f \in [1 .. n -> Names] => f \in Seq(Names)
    BY SeqDef
  <2>2. EncPath(p) \in Seq(Names)
    BY <1>1, <1>3, <2>1
  <2>3. 1 .. Len(EncPath(p)) = 1 .. Len(p) /\ Len(EncPath(p)) \in Nat
    BY <1>3, <2>2, LenProperties
  <2>4. \A m, n \in Nat : (\A k \in Nat : k \in 1 .. m <=> k \in 1 .. n) => m = n
    <3> SUFFICES ASSUME NEW m \in Nat, NEW n \in Nat,
                        \A k \in Nat : k \in 1 .. m <=> k \in 1 .. n
                 PROVE  m = n
      OBVIOUS
    <3>1. m \in 1 .. m <=> m \in 1 .. n
      OBVIOUS
    <3>2. n \in 1 .. m <=> n \in 1 .. n
      OBVIOUS
    <3> QED BY <3>1, <3>2
  <2>5. Len(EncPath(p)) = Len(p)
    BY <1>1, <2>3, <2>4
  <2> QED BY <2>2, <2>5
<1>5. \A k \in 1 .. Len(p) : EncPath(p)[k] = IF k = Len(p) THEN Append(p[Len(p)], ".age") ELSE p[k]
  BY <1>1 DEF EncPath
<1>6. \A k \in 1 .. Len(p) - 1 : k \in 1 .. Len(p) /\ k # Len(p)
  <2>1. \A n \in Nat : \A k \in 1 .. n - 1 : k \in 1 .. n /\ k # n
    OBVIOUS
  <2> QED BY <1>1, <2>1
<1>7. \A k \in 1 .. Len(p) - 1 : EncPath(p)[k] = p[k]
  BY <1>5, <1>6
<1>8. EncPath(p)[Len(p)] = Append(p[Len(p)], ".age")
  BY <1>1, <1>5
<1> QED BY <1>4, <1>7, <1>8

\* No two files share a blob.
LEMMA EncPathInjective ==
    ASSUME NEW p \in Paths, NEW q \in Paths, EncPath(p) = EncPath(q)
    PROVE  p = q
<1> DEFINE n == Len(p)
<1>1. Len(q) = n /\ n \in Nat \ {0} /\ p \in Seq(Names) /\ q \in Seq(Names)
  BY PathType, EncPathType
<1>2. \A k \in 1 .. n - 1 : p[k] = q[k]
  BY <1>1, EncPathType
<1>3. p[n] \in Names /\ q[n] \in Names
  BY <1>1, PathType
<1>4. Append(p[n], ".age") = Append(q[n], ".age")
  BY <1>1, EncPathType
<1>5. p[n] = q[n]
  <2> DEFINE a == p[n]
             b == q[n]
             T == STRING \cup {".age"}
  <2>1. a \in Seq(T) /\ b \in Seq(T) /\ ".age" \in T
    BY <1>3 DEF Names
  <2>2. /\ Len(Append(a, ".age")) = Len(a) + 1
        /\ \A k \in 1 .. Len(a) : Append(a, ".age")[k] = a[k]
    BY <2>1, AppendProperties
  <2>3. /\ Len(Append(b, ".age")) = Len(b) + 1
        /\ \A k \in 1 .. Len(b) : Append(b, ".age")[k] = b[k]
    BY <2>1, AppendProperties
  <2>4. Len(a) \in Nat /\ Len(b) \in Nat
    BY <2>1, LenProperties
  <2>5. Append(a, ".age") = Append(b, ".age")
    BY <1>4
  <2> HIDE DEF a, b, T
  <2>6. Len(a) = Len(b)
    BY <2>2, <2>3, <2>4, <2>5
  <2>7. \A k \in 1 .. Len(a) : a[k] = b[k]
    BY <2>2, <2>3, <2>5, <2>6
  <2>8. a = b
    BY <2>1, <2>6, <2>7, SeqEqual
  <2> QED BY <2>8 DEF a, b
<1>6. \A k \in 1 .. n : p[k] = q[k]
  BY <1>1, <1>2, <1>5
<1> QED BY <1>1, <1>6, SeqEqual

\* A blob lies in the directories of its file, and nothing lies in itself.
LEMMA DirsOfPath ==
    ASSUME NEW p \in Paths
    PROVE  Dirs(EncPath(p)) = Dirs(p) /\ p \notin Dirs(p) /\ EncPath(p) \notin Dirs(EncPath(p))
<1>1. p \in Seq(Names) /\ Len(p) \in Nat \ {0} /\ EncPath(p) \in Seq(Names)
      /\ Len(EncPath(p)) = Len(p)
  BY PathType, EncPathType
<1>2. ASSUME NEW k \in 1 .. Len(p) - 1
      PROVE  /\ SubSeq(EncPath(p), 1, k) = SubSeq(p, 1, k)
             /\ Len(SubSeq(p, 1, k)) = k
  <2>1. /\ \A j \in 1 .. k : p[j] \in Names
        /\ \A j \in 1 .. k : EncPath(p)[j] \in Names
        /\ \A j \in 1 .. k : EncPath(p)[j] = p[j]
    BY <1>1, PathType, EncPathType
  <2>2. /\ SubSeq(p, 1, k) \in Seq(Names) /\ Len(SubSeq(p, 1, k)) = k
        /\ \A j \in 1 .. k : SubSeq(p, 1, k)[j] = p[j]
    BY <1>1, <2>1, SubSeqProperties
  <2>3. /\ SubSeq(EncPath(p), 1, k) \in Seq(Names) /\ Len(SubSeq(EncPath(p), 1, k)) = k
        /\ \A j \in 1 .. k : SubSeq(EncPath(p), 1, k)[j] = EncPath(p)[j]
    BY <1>1, <2>1, SubSeqProperties
  <2> QED BY <2>1, <2>2, <2>3, SeqEqual
<1> QED BY <1>1, <1>2 DEF Dirs

LEMMA ManifestIsTopLevel == Dirs(ManifestPath) = {}
  BY DEF Dirs, ManifestPath

(***************************************************************************)
(* The trees of the source.                                                *)
(***************************************************************************)
LEMMA Entries ==
    ASSUME source \in Histories, NEW i \in Commits
    PROVE  /\ Mirrored(i) \subseteq Paths
           /\ \A p \in Mirrored(i) :
                 Archive(i, p) \in Contents \cup Links /\ Archive(i, p) # None
           /\ \A p, q \in Mirrored(i) : p \notin Dirs(q)
<1>1. source[i] \in [Paths -> Contents \cup Links \cup {None}]
  BY RecoveryAssumption
<1>2. \A p, q \in Paths : source[i][p] # None /\ source[i][q] # None => p \notin Dirs(q)
  BY RecoveryAssumption
<1>3. Archived[i] \in [Paths -> [Contents -> Contents]]
  BY RecoveryAssumption
<1>4. ASSUME NEW p \in Mirrored(i)
      PROVE  /\ p \in Paths /\ Archive(i, p) \in Contents \cup Links /\ Archive(i, p) # None
             /\ source[i][p] # None
  <2>1. p \in Paths /\ Archive(i, p) # None
    BY DEF Mirrored, Exported
  <2>2. CASE source[i][p] \in Contents
    <3>1. Archived[i][p][source[i][p]] \in Contents
      BY <1>3, <2>1, <2>2
    <3>2. None \notin Contents
      BY RecoveryAssumption
    <3> QED BY <2>1, <2>2, <3>1, <3>2 DEF Archive
  <2>3. CASE source[i][p] \notin Contents
    BY <1>1, <2>1, <2>3 DEF Archive
  <2> QED BY <2>1, <2>2, <2>3
<1> QED BY <1>2, <1>4

LEMMA Distinct ==
    /\ Links \cap Contents = {} /\ Links \cap Locations = {}
    /\ None \notin Links \cup Contents \cup Paths \cup Locations \cup Blobs \cup Manifests
    /\ Directory \notin Links \cup Contents \cup Paths \cup Locations
    /\ None # Directory
  BY RecoveryAssumption

LEMMA ManifestEntries ==
    ASSUME source \in Histories, NEW i \in Commits
    PROVE  Manifest(i) \in Manifests /\ Listed(Manifest(i)) = Mirrored(i)
<1>1. \A p \in Paths : EncPath(Named[p]) \in Locations
  BY RecoveryAssumption DEF Locations
<1>2. \A l \in Links : Named[l] \in Links
  BY RecoveryAssumption
<1>3. ASSUME NEW p \in Paths
      PROVE  /\ Manifest(i)[p] \in Links \cup Locations \cup {None}
             /\ Manifest(i)[p] # None <=> p \in Mirrored(i)
  BY <1>1, <1>2, Entries, Distinct DEF Manifest
<1> QED BY <1>3, Entries DEF Manifest, Manifests, Listed

\* A manifest that JSON can express names what was archived.
LEMMA NamedEntries ==
    ASSUME source \in Histories, NEW i \in Commits, WellNamed(i), NEW p \in Mirrored(i)
    PROVE  /\ Named[p] = p
           /\ Manifest(i)[p] \in Links => Archive(i, p) = Manifest(i)[p]
           /\ Manifest(i)[p] \notin Links => p \in RegularFiles(i) /\ Manifest(i)[p] = EncPath(p)
<1>1. p \in Exported(i) /\ p \in Paths /\ Archive(i, p) \in Contents \cup Links
  BY Entries DEF Mirrored
<1>2. Named[p] = p /\ (Archive(i, p) \in Links => Named[Archive(i, p)] = Archive(i, p))
  BY <1>1 DEF WellNamed
<1>3. Manifest(i)[p] = IF Archive(i, p) \in Links THEN Archive(i, p) ELSE EncPath(p)
  BY <1>1, <1>2 DEF Manifest
<1>4. EncPath(p) \in Locations
  BY <1>1 DEF Locations
<1> QED BY <1>1, <1>2, <1>3, <1>4, Distinct DEF RegularFiles

LEMMA BlobType ==
    ASSUME source \in Histories, NEW i \in Commits, NEW K \in KeySets, NEW p \in Paths
    PROVE  /\ BlobOf(i, K, p) \in Blobs \cup {None}
           /\ BlobOf(i, K, p) # None <=> p \in RegularFiles(i)
<1>1. p \in RegularFiles(i) => [content |-> Archive(i, p), keys |-> K] \in Blobs
  BY DEF RegularFiles, Blobs
<1> QED BY <1>1, Distinct DEF BlobOf

(***************************************************************************)
(* The inductive invariant: the service and its keys; what a run that has  *)
(* not been cut off knows of the one before it; the worker and the history *)
(* it writes; and what restore has made of it so far.                      *)
(***************************************************************************)
ServiceInv ==
    /\ source \in Histories
    /\ configured \in Lists /\ recipients \in {NoKeys} \cup Lists
    /\ recorded \in {None, NoKeys} \cup Lists /\ lastRun \in {None} \cup Lists
    /\ rotated \in BOOLEAN /\ interrupted \in BOOLEAN
    /\ phase \in {"down", "detect", "truncate", "write", "report", "serving"}
    /\ phase # "down" => recipients \in Lists
    /\ phase \in {"report", "serving"} => recorded = recipients

RotationInv ==
    ~interrupted =>
        /\ phase \in {"down", "detect", "truncate"} => recorded = lastRun
        /\ phase \in {"truncate", "write", "report", "serving"} =>
              (rotated <=> lastRun \notin {None, recipients})

WorkerInv ==
    /\ stage \in {"idle", "clear", "ignore", "encrypt", "refused", "add", "commit"}
    /\ stage # "idle" => phase = "serving" /\ Commit \in Commits
    /\ at \in 1 .. Len(Walk) + 1
    /\ worktree \in EncryptedTrees /\ index \in EncryptedTrees
    /\ stage = "ignore" => worktree = EmptyTree
    /\ stage = "encrypt" =>
          /\ worktree.manifest = None /\ HasBlobs(worktree, Commit, KeysOf(recipients), at)
          /\ at <= Len(Walk) => Walk[at] \in RegularFiles(Commit)
    /\ RefusedForItsTree
    /\ stage = "add" => Holds(worktree, Commit, KeysOf(recipients))
    /\ stage = "commit" => Holds(index, Commit, KeysOf(recipients))

LogInv ==
    /\ log \in Seq(EncryptedTrees) /\ usedKeys \in Seq(KeySets) /\ Len(usedKeys) = Len(log)
    /\ \A i \in 1 .. Len(log) : i \in Commits /\ Holds(log[i], i, usedKeys[i])

Restores ==
    [stage : {"off", "manifest", "decrypt", "done", "failed"}, live : BOOLEAN,
     tree : EncryptedTrees, key : Keys \cup {None}, manifest : Manifests,
     at : 1 .. Len(Walk) + 1, out : Outputs, before : Outputs,
     commit : Commits \cup {0}, keys : SUBSET Keys]

\* The entries before the n-th, laid over what the directory held.
Laid(i, before, n) ==
    [x \in Places |->
        IF \E k \in 1 .. n - 1 : Walk[k] = x /\ x \in Mirrored(i) THEN Archive(i, x)
        ELSE IF \E k \in 1 .. n - 1 : Walk[k] \in Mirrored(i) /\ x \in Dirs(Walk[k]) THEN Directory
        ELSE before[x]]

\* No link on which a file is to go.
NoLinkOpened == \A p \in Mirrored(restore.commit) : restore.before[p] \notin Links

Faithful ==
    /\ restore.commit \in Commits /\ restore.keys \in KeySets
    /\ restore.stage \in {"manifest", "decrypt"} =>
          Holds(Source, restore.commit, restore.keys)
    /\ restore.stage = "decrypt" => restore.manifest = Manifest(restore.commit)
    /\ restore.stage \in {"manifest", "decrypt", "done"} /\ NoLinkOpened =>
          restore.out = Laid(restore.commit, restore.before, restore.at)
    /\ restore.stage = "failed" =>
          \/ restore.key \notin restore.keys
          \/ InTheWay(restore.commit, restore.before)
          \/ ~restore.live /\ DotEnding \cap RegularFiles(restore.commit) # {}

\* Only of these restores is it promised what they give.
Promised == Undisturbed /\ WellNamed(restore.commit)

RestoreInv ==
    /\ restore \in Restores /\ disturbed \in BOOLEAN
    /\ restore.stage = "manifest" => restore.at = 1
    /\ restore.stage = "decrypt" /\ restore.at <= Len(Walk) =>
          Walk[restore.at] \in Listed(restore.manifest)
    /\ restore.stage = "done" => restore.at = Len(Walk) + 1
    /\ Promised => Faithful

IInv == ServiceInv /\ RotationInv /\ WorkerInv /\ LogInv /\ RestoreInv

-----------------------------------------------------------------------------
(***************************************************************************)
(* The history that is mirrored stays the same, and so does what follows   *)
(* from it.                                                                *)
(***************************************************************************)
LEMMA SameCommits ==
    ASSUME UNCHANGED source
    PROVE  /\ \A i, p : Archive(i, p)' = Archive(i, p)
           /\ \A i : Mirrored(i)' = Mirrored(i) /\ RegularFiles(i)' = RegularFiles(i)
           /\ \A i : Manifest(i)' = Manifest(i)
           /\ \A i : WellNamed(i)' <=> WellNamed(i)
           /\ \A i : Extractable(i)' <=> Extractable(i)
           /\ \A i : IgnoreIsBad(i)' <=> IgnoreIsBad(i)
           /\ \A i : Collides(i)' <=> Collides(i)
<1>1. \A i, p : Archive(i, p)' = Archive(i, p)
  BY DEF Archive
<1>2. \A i : Exported(i)' = Exported(i)
  BY <1>1 DEF Exported
<1>3. \A i : Mirrored(i)' = Mirrored(i)
  BY <1>2 DEF Mirrored
<1>4. \A i : RegularFiles(i)' = RegularFiles(i)
  BY <1>1, <1>3 DEF RegularFiles
<1>5. \A i : Manifest(i)' = Manifest(i)
  BY <1>1, <1>3 DEF Manifest
<1>6. \A i : WellNamed(i)' <=> WellNamed(i)
  BY <1>1, <1>2 DEF WellNamed
<1>7. \A i : Extractable(i)' <=> Extractable(i)
  BY <1>1, <1>2 DEF Extractable
<1>8. \A i : IgnoreIsBad(i)' <=> IgnoreIsBad(i)
  BY <1>1, <1>2 DEF IgnoreIsBad
<1>9. \A i : Collides(i)' <=> Collides(i)
  BY <1>4 DEF Collides
<1> QED BY <1>1, <1>3, <1>4, <1>5, <1>6, <1>7, <1>8, <1>9

LEMMA SameTrees ==
    ASSUME UNCHANGED source
    PROVE  /\ \A tree, i, K, n : HasBlobs(tree, i, K, n)' <=> HasBlobs(tree, i, K, n)
           /\ \A tree, i, K : Holds(tree, i, K)' <=> Holds(tree, i, K)
           /\ \A i, before, n : Laid(i, before, n)' = Laid(i, before, n)
           /\ \A i, before : InTheWay(i, before)' <=> InTheWay(i, before)
<1>1. \A i, K, p : BlobOf(i, K, p)' = BlobOf(i, K, p)
  BY SameCommits DEF BlobOf
<1>2. \A tree, i, K, n : HasBlobs(tree, i, K, n)' <=> HasBlobs(tree, i, K, n)
  BY <1>1 DEF HasBlobs
<1>3. \A tree, i, K : Holds(tree, i, K)' <=> Holds(tree, i, K)
  BY <1>1, SameCommits DEF Holds
<1>4. \A i, before, n : Laid(i, before, n)' = Laid(i, before, n)
  BY SameCommits DEF Laid
<1>5. \A i : Visible(i)' = Visible(i)
  BY SameCommits DEF Visible
<1>6. \A i, before : InTheWay(i, before)' <=> InTheWay(i, before)
  BY <1>5, SameCommits DEF InTheWay
<1> QED BY <1>2, <1>3, <1>4, <1>6

LEMMA TreeTypes ==
    /\ EmptyTree \in EncryptedTrees /\ EmptyOut \in Outputs /\ NoEntries \in Manifests
    /\ Idle \in Restores
<1>1. EmptyTree \in EncryptedTrees
  BY DEF EmptyTree, EncryptedTrees
<1>2. EmptyOut \in Outputs
  BY DEF EmptyOut, Outputs
<1>3. NoEntries \in Manifests
  BY DEF NoEntries, Manifests
<1>4. 1 \in 1 .. Len(Walk) + 1
  <2>1. Len(Walk) \in Nat
    BY RecoveryAssumption, LenProperties
  <2> QED BY <2>1
<1> QED BY <1>1, <1>2, <1>3, <1>4 DEF Idle, Restores

LEMMA ListKeys == \A list \in Lists : KeysOf(list) \in KeySets
<1> SUFFICES ASSUME NEW list \in Lists PROVE KeysOf(list) \in KeySets
  OBVIOUS
<1>1. list \in [Keys -> Nat] /\ list # NoKeys
  BY RecoveryAssumption
<1>2. PICK k \in Keys : list[k] # 0
  <2>1. NoKeys \in [Keys -> Nat] /\ \A k \in Keys : NoKeys[k] = 0
    BY DEF NoKeys
  <2> QED BY <1>1, <2>1
<1>3. list[k] > 0
  BY <1>1, <1>2
<1>4. KeysOf(list) # {} /\ KeysOf(list) \in SUBSET Keys
  BY <1>3 DEF KeysOf
<1> QED BY <1>4 DEF KeySets

LEMMA InitInv == Init => IInv
<1> SUFFICES ASSUME Init PROVE IInv
  OBVIOUS
<1> USE DEF Init
<1>1. ServiceInv /\ RotationInv
  BY DEF ServiceInv, RotationInv
<1>2. Len(Walk) \in Nat
  BY RecoveryAssumption, LenProperties
<1>3. WorkerInv
  BY <1>2, TreeTypes DEF WorkerInv, RefusedForItsTree
<1>4. LogInv
  <2>1. Len(log) = 0 /\ Len(usedKeys) = 0 /\ log \in Seq(EncryptedTrees) /\ usedKeys \in Seq(KeySets)
    BY EmptySeq
  <2> QED BY <2>1 DEF LogInv
<1>5. RestoreInv
  BY TreeTypes DEF RestoreInv, Promised, Undisturbed, Idle
<1> QED BY <1>1, <1>3, <1>4, <1>5 DEF IInv

(***************************************************************************)
(* The service.                                                            *)
(***************************************************************************)
LEMMA ServiceStep ==
    ASSUME ServiceInv, RotationInv, [Next]_vars
    PROVE  ServiceInv' /\ RotationInv'
<1> USE DEF ServiceInv, RotationInv
<1>1. CASE LoadRecipients
  BY <1>1 DEF LoadRecipients
<1>2. CASE DetectRotation
  BY <1>2 DEF DetectRotation, Rotated
<1>3. CASE WriteRotationState
  BY <1>3 DEF WriteRotationState
<1>4. CASE ReportRotation
  BY <1>4 DEF ReportRotation
<1>5. CASE Crash
  <2>1. /\ lastRun' = IF phase = "serving" THEN recipients ELSE lastRun
        /\ phase' = "down" /\ recipients' = NoKeys /\ ~rotated'
        /\ UNCHANGED <<source, configured, recorded>>
    BY <1>5 DEF Crash
  <2>2. interrupted' = (phase \in {"write", "report"} \/ (phase # "serving" /\ interrupted))
    BY <1>5 DEF Crash
  <2>3. phase # "down"
    BY <1>5 DEF Crash
  <2>4. rotated' \in BOOLEAN /\ interrupted' \in BOOLEAN
    BY <1>5 DEF Crash
  <2>5. ServiceInv'
    BY <2>1, <2>3, <2>4
  <2>6. ~interrupted' => phase \notin {"write", "report"} /\ (phase = "serving" \/ ~interrupted)
    BY <2>2
  <2>7. ~interrupted' => recorded' = lastRun'
    BY <2>1, <2>3, <2>6
  <2> QED BY <2>1, <2>5, <2>7
<1>6. CASE DeleteCache
  <2>1. phase' = "down" /\ UNCHANGED <<source, configured, recipients, rotated>>
    BY <1>6 DEF DeleteCache
  <2>2. \/ UNCHANGED <<recorded, lastRun, interrupted>>
        \/ recorded' = None /\ lastRun' = None /\ interrupted' = FALSE
    BY <1>6 DEF DeleteCache
  <2>3. CASE UNCHANGED <<recorded, lastRun, interrupted>>
    BY <1>6, <2>1, <2>3 DEF DeleteCache
  <2>4. CASE recorded' = None /\ lastRun' = None /\ interrupted' = FALSE
    BY <2>1, <2>4
  <2> QED BY <2>2, <2>3, <2>4
<1>7. CASE EditConfiguration
  BY <1>7 DEF EditConfiguration, Event
<1>8. CASE Mirror
  <2>1. UNCHANGED <<source, serviceVars>>
    BY <1>8 DEF Mirror, ExportTree, ClearWorkingTree, LoadIgnoreFile, EncryptEntry,
                WriteManifest, StageAll, CommitStaged, JobFails
  <2> QED BY <2>1 DEF serviceVars
<1>9. CASE Restore
  <2>1. UNCHANGED <<source, serviceVars>>
    BY <1>9 DEF Restore, RestoreCommit, RestoreCurrent, StartRestore, ReadManifest,
                DecryptEntry, FinishRestore
  <2> QED BY <2>1 DEF serviceVars
<1>10. CASE UNCHANGED vars
  BY <1>10 DEF vars, serviceVars
<1> QED BY <1>1, <1>2, <1>3, <1>4, <1>5, <1>6, <1>7, <1>8, <1>9, <1>10 DEF Next, Start

(***************************************************************************)
(* The worker: what it writes, and what is in its way.                     *)
(***************************************************************************)
LEMMA WalkLength == Len(Walk) \in Nat /\ \A k \in 1 .. Len(Walk) : Walk[k] \in Paths
<1>1. Len(Walk) \in Nat
  BY RecoveryAssumption, LenProperties
<1> QED BY <1>1 DEF Paths

LEMMA OnwardType ==
    ASSUME NEW k \in 0 .. Len(Walk), NEW S, NEW j \in Onward(k, S)
    PROVE  /\ j \in k + 1 .. Len(Walk) + 1 /\ j \in 1 .. Len(Walk) + 1
           /\ \A m \in k + 1 .. j - 1 : m \in 1 .. Len(Walk) /\ Walk[m] \notin S
           /\ j <= Len(Walk) => Walk[j] \in S
<1>1. /\ j \in k + 1 .. Len(Walk) + 1 /\ \A m \in k + 1 .. j - 1 : Walk[m] \notin S
      /\ j <= Len(Walk) => Walk[j] \in S
  BY DEF Onward
<1>2. j \in 1 .. Len(Walk) + 1 /\ \A m \in k + 1 .. j - 1 : m \in 1 .. Len(Walk)
  BY <1>1, WalkLength
<1> QED BY <1>1, <1>2

LEMMA SetBlob ==
    ASSUME NEW tree \in EncryptedTrees, NEW l \in Locations, NEW v \in Blobs \cup {None}
    PROVE  /\ [tree EXCEPT !.blobs[l] = v] \in EncryptedTrees
           /\ [tree EXCEPT !.blobs[l] = v].manifest = tree.manifest
           /\ \A m \in Locations :
                 [tree EXCEPT !.blobs[l] = v].blobs[m] = IF m = l THEN v ELSE tree.blobs[m]
  BY DEF EncryptedTrees

LEMMA SetManifest ==
    ASSUME NEW tree \in EncryptedTrees, NEW m \in Manifests \cup {None}
    PROVE  /\ [tree EXCEPT !.manifest = m] \in EncryptedTrees
           /\ [tree EXCEPT !.manifest = m].manifest = m
           /\ [tree EXCEPT !.manifest = m].blobs = tree.blobs
  BY DEF EncryptedTrees

LEMMA NextEntry ==
    ASSUME source \in Histories, NEW i \in Commits, NEW K \in KeySets,
           NEW n \in 1 .. Len(Walk), NEW tree \in EncryptedTrees, HasBlobs(tree, i, K, n)
    PROVE  /\ Walk[n] \notin RegularFiles(i) => HasBlobs(tree, i, K, n + 1)
           /\ Walk[n] \in RegularFiles(i) =>
                 HasBlobs([tree EXCEPT !.blobs[EncPath(Walk[n])] =
                             [content |-> Archive(i, Walk[n]), keys |-> K]], i, K, n + 1)
<1>1. ASSUME NEW k \in 1 .. Len(Walk)
      PROVE  /\ k < n + 1 <=> k < n \/ k = n
             /\ EncPath(Walk[k]) \in Locations
             /\ EncPath(Walk[k]) = EncPath(Walk[n]) => k = n
  <2>1. Walk[k] \in Paths /\ Walk[n] \in Paths
    BY WalkLength
  <2>2. EncPath(Walk[k]) \in Locations
    BY <2>1 DEF Locations
  <2>3. EncPath(Walk[k]) = EncPath(Walk[n]) => k = n
    BY <2>1, EncPathInjective, RecoveryAssumption
  <2>4. k < n + 1 <=> k < n \/ k = n
    BY WalkLength
  <2> QED BY <2>2, <2>3, <2>4
<1>2. n \in Nat /\ \A k \in 1 .. Len(Walk) : k \in Nat /\ (k < n => k # n)
  BY WalkLength
<1>3. \A k \in 1 .. Len(Walk) :
         tree.blobs[EncPath(Walk[k])] = IF k < n THEN BlobOf(i, K, Walk[k]) ELSE None
  BY DEF HasBlobs
<1>4. ASSUME Walk[n] \notin RegularFiles(i) PROVE HasBlobs(tree, i, K, n + 1)
  <2>1. BlobOf(i, K, Walk[n]) = None
    BY <1>4 DEF BlobOf
  <2> QED BY <1>1, <1>2, <1>3, <2>1 DEF HasBlobs
<1>5. ASSUME Walk[n] \in RegularFiles(i),
             NEW v, v = [content |-> Archive(i, Walk[n]), keys |-> K],
             NEW t, t = [tree EXCEPT !.blobs[EncPath(Walk[n])] = v]
      PROVE  HasBlobs(t, i, K, n + 1)
  <2>1. v = BlobOf(i, K, Walk[n])
    BY <1>5 DEF BlobOf
  <2>2. v \in Blobs \cup {None}
    BY <2>1, WalkLength, BlobType
  <2>3. EncPath(Walk[n]) \in Locations
    BY WalkLength DEF Locations
  <2>4. \A m \in Locations : t.blobs[m] = IF m = EncPath(Walk[n]) THEN v ELSE tree.blobs[m]
    <3> DEFINE l == EncPath(Walk[n])
    <3>1. l \in Locations
      BY <2>3
    <3> HIDE DEF l
    <3>2. \A m \in Locations :
             [tree EXCEPT !.blobs[l] = v].blobs[m] = IF m = l THEN v ELSE tree.blobs[m]
      BY <2>2, <3>1, SetBlob
    <3>3. t = [tree EXCEPT !.blobs[l] = v]
      BY <1>5 DEF l
    <3> QED BY <3>2, <3>3 DEF l
  <2>5. ASSUME NEW k \in 1 .. Len(Walk)
        PROVE  t.blobs[EncPath(Walk[k])] = IF k < n + 1 THEN BlobOf(i, K, Walk[k]) ELSE None
    <3> DEFINE l == EncPath(Walk[k])
    <3>1. /\ t.blobs[l] = IF l = EncPath(Walk[n]) THEN v ELSE tree.blobs[l]
          /\ k < n + 1 <=> k < n \/ k = n
          /\ l = EncPath(Walk[n]) <=> k = n
      <4>1. l \in Locations
        BY <1>1
      <4> QED BY <1>1, <2>4, <4>1
    <3>2. tree.blobs[l] = IF k < n THEN BlobOf(i, K, Walk[k]) ELSE None
      BY <1>3
    <3> HIDE DEF l
    <3>3. t.blobs[l] = IF k < n + 1 THEN BlobOf(i, K, Walk[k]) ELSE None
      BY <2>1, <3>1, <3>2
    <3> QED BY <3>3 DEF l
  <2> QED BY <2>5 DEF HasBlobs
<1> QED BY <1>4, <1>5

\* The entries that the walk does not stop at have no blobs.
LEMMA SkipEntries ==
    ASSUME NEW i, NEW K, NEW tree, NEW n \in 0 .. Len(Walk), HasBlobs(tree, i, K, n + 1),
           NEW j \in Onward(n, RegularFiles(i))
    PROVE  HasBlobs(tree, i, K, j)
<1>1. /\ j \in n + 1 .. Len(Walk) + 1
      /\ \A m \in n + 1 .. j - 1 : Walk[m] \notin RegularFiles(i)
  BY OnwardType
<1>2. ASSUME NEW k \in 1 .. Len(Walk)
      PROVE  tree.blobs[EncPath(Walk[k])] = IF k < j THEN BlobOf(i, K, Walk[k]) ELSE None
  <2>1. tree.blobs[EncPath(Walk[k])] = IF k < n + 1 THEN BlobOf(i, K, Walk[k]) ELSE None
    BY DEF HasBlobs
  <2>2. CASE k \in n + 1 .. j - 1
    <3>1. BlobOf(i, K, Walk[k]) = None
      BY <1>1, <2>2 DEF BlobOf
    <3>2. ~(k < n + 1)
      BY <2>2, WalkLength
    <3> QED BY <2>1, <3>1, <3>2
  <2>3. CASE k \notin n + 1 .. j - 1
    <3>1. k < n + 1 <=> k < j
      BY <1>1, <2>3, WalkLength
    <3> QED BY <2>1, <3>1
  <2> QED BY <2>2, <2>3
<1> QED BY <1>2 DEF HasBlobs

LEMMA AllEntries ==
    ASSUME NEW i, NEW K, NEW tree, HasBlobs(tree, i, K, Len(Walk) + 1),
           tree.manifest = Manifest(i)
    PROVE  Holds(tree, i, K)
<1>1. \A k \in 1 .. Len(Walk) : k < Len(Walk) + 1
  BY WalkLength
<1> QED BY <1>1 DEF HasBlobs, Holds, Paths

\* What is in the way of a blob or of the manifest is a file of the commit.
LEMMA InItsOwnWay ==
    ASSUME source \in Histories, NEW i \in Commits, NEW n \in 1 .. Len(Walk) + 1,
           NEW K \in KeySets, HasBlobs(worktree, i, K, n)
    PROVE  /\ \A p \in RegularFiles(i) : ~Writable(EncPath(p)) => Collides(i)
           /\ ~Writable(ManifestPath) => Collides(i)
<1>1. ASSUME NEW f \in Locations, worktree.blobs[f] # None
      PROVE  \E q \in RegularFiles(i) : f = EncPath(q) /\ Dirs(f) = Dirs(q)
  <2>1. PICK q \in Paths : f = EncPath(q)
    BY DEF Locations
  <2>2. PICK k \in 1 .. Len(Walk) : q = Walk[k]
    BY DEF Paths
  <2>3. BlobOf(i, K, q) # None
    BY <1>1, <2>1, <2>2 DEF HasBlobs
  <2>4. q \in RegularFiles(i)
    BY <2>3 DEF BlobOf
  <2> QED BY <2>1, <2>4, DirsOfPath
<1>2. RegularFiles(i) \subseteq Paths
  BY Entries DEF RegularFiles
<1>3. ASSUME NEW p \in RegularFiles(i), ~Writable(EncPath(p)) PROVE Collides(i)
  <2>1. PICK f \in Locations :
            worktree.blobs[f] # None /\ (f \in Dirs(EncPath(p)) \/ EncPath(p) \in Dirs(f))
    BY <1>3 DEF Writable
  <2>2. PICK q \in RegularFiles(i) : f = EncPath(q) /\ Dirs(f) = Dirs(q)
    BY <1>1, <2>1
  <2>3. EncPath(q) \in Dirs(p) \/ EncPath(p) \in Dirs(q)
    BY <1>2, <2>1, <2>2, DirsOfPath
  <2> QED BY <2>3 DEF Collides, RegularFiles
<1>4. ASSUME ~Writable(ManifestPath) PROVE Collides(i)
  <2>1. PICK f \in Locations :
            worktree.blobs[f] # None /\ (f \in Dirs(ManifestPath) \/ ManifestPath \in Dirs(f))
    BY <1>4 DEF Writable
  <2>2. PICK q \in RegularFiles(i) : Dirs(f) = Dirs(q)
    BY <1>1, <2>1
  <2>3. ManifestPath \in Dirs(q)
    BY <2>1, <2>2, ManifestIsTopLevel
  <2> QED BY <2>3 DEF Collides, RegularFiles
<1> QED BY <1>3, <1>4

(***************************************************************************)
(* The steps of the worker.                                                *)
(***************************************************************************)
LEMMA AtRest ==
    ASSUME WorkerInv, stage' = "idle", at' = 1,
           worktree' \in EncryptedTrees, index' \in EncryptedTrees
    PROVE  WorkerInv'
<1>1. 1 \in 1 .. Len(Walk) + 1
  BY WalkLength
<1> QED BY <1>1 DEF WorkerInv, RefusedForItsTree

LEMMA WorkerFrame ==
    ASSUME WorkerInv, UNCHANGED <<source, phase, recipients, stage, at, worktree, index, log>>
    PROVE  WorkerInv'
BY SameTrees, SameCommits DEF WorkerInv, Commit, RefusedForItsTree

LEMMA LogFrame ==
    ASSUME LogInv, UNCHANGED <<source, log, usedKeys>>
    PROVE  LogInv'
BY SameTrees, SameCommits DEF LogInv

\* A worker at work has a commit to mirror and recipients to mirror it for.
LEMMA AtWork ==
    ASSUME ServiceInv, WorkerInv, stage # "idle"
    PROVE  Commit \in Commits /\ KeysOf(recipients) \in KeySets /\ source \in Histories
BY ListKeys DEF ServiceInv, WorkerInv

\* A refusal has its reason in the commit.
LEMMA RefuseStep ==
    ASSUME WorkerInv, Refuse, stage # "idle" \/ (phase = "serving" /\ Commit \in Commits),
           UNCHANGED <<source, phase, recipients>>,
           \/ ~Extractable(Commit) \/ IgnoreIsBad(Commit)
           \/ TooLong \cap RegularFiles(Commit) # {} \/ Collides(Commit)
    PROVE  WorkerInv'
<1>1. UNCHANGED <<worktree, index, log>> /\ stage' = "refused" /\ at' = 1
  BY DEF Refuse, Continue, repoVars
<1>2. 1 \in 1 .. Len(Walk) + 1
  BY WalkLength
<1>3. RefusedForItsTree'
  BY <1>1, SameCommits DEF RefusedForItsTree, Commit
<1> QED BY <1>1, <1>2, <1>3 DEF WorkerInv, Commit

LEMMA ExportStep ==
    ASSUME ServiceInv, WorkerInv, ExportTree
    PROVE  WorkerInv'
<1>1. UNCHANGED <<source, phase, recipients>> /\ phase = "serving" /\ Commit \in Commits
  BY DEF ExportTree, serviceVars
<1>2. CASE Extractable(Commit) /\ Continue("clear") /\ UNCHANGED <<repoVars, restoreVars>>
  <2>1. 1 \in 1 .. Len(Walk) + 1
    BY WalkLength
  <2> QED BY <1>1, <1>2, <2>1 DEF WorkerInv, Continue, Commit, repoVars, RefusedForItsTree
<1>3. CASE ~Extractable(Commit) /\ Refuse
  BY <1>1, <1>3, RefuseStep
<1> QED BY <1>2, <1>3 DEF ExportTree

LEMMA ClearStep ==
    ASSUME ServiceInv, WorkerInv, ClearWorkingTree
    PROVE  WorkerInv'
<1> USE DEF ClearWorkingTree
<1>1. UNCHANGED <<source, phase, recipients, index, log>> /\ stage = "clear"
  BY DEF WriteTree, repoVars, serviceVars
<1>2. worktree \in EncryptedTrees /\ worktree' \in EncryptedTrees
  <2>1. worktree \in EncryptedTrees
    BY DEF WorkerInv
  <2>2. [worktree EXCEPT !.manifest = None] \in EncryptedTrees
    BY <2>1, SetManifest
  <2>3. \A l \in Locations : [worktree EXCEPT !.blobs[l] = None] \in EncryptedTrees
    BY <2>1, SetBlob
  <2> QED BY <2>1, <2>2, <2>3 DEF WriteTree, repoVars
<1>3. CASE stage' = "clear"
  <2>1. UNCHANGED at
    BY <1>3 DEF Continue, workerVars
  <2> QED BY <1>1, <1>2, <1>3, <2>1 DEF WorkerInv, Commit, RefusedForItsTree
<1>4. CASE stage' # "clear"
  <2>1. worktree = EmptyTree /\ Continue("ignore") /\ UNCHANGED worktree
    BY <1>1, <1>4 DEF workerVars, repoVars
  <2>2. stage' = "ignore" /\ at' = 1 /\ 1 \in 1 .. Len(Walk) + 1
    BY <2>1, WalkLength DEF Continue
  <2> QED BY <1>1, <1>2, <2>1, <2>2 DEF WorkerInv, Commit, RefusedForItsTree
<1> QED BY <1>3, <1>4

LEMMA IgnoreStep ==
    ASSUME ServiceInv, WorkerInv, LoadIgnoreFile
    PROVE  WorkerInv'
<1>1. UNCHANGED <<source, phase, recipients>> /\ stage = "ignore"
  BY DEF LoadIgnoreFile, serviceVars
<1>2. CASE IgnoreIsBad(Commit) /\ Refuse
  BY <1>1, <1>2, RefuseStep
<1>3. CASE /\ stage' = "encrypt" /\ at' \in Onward(0, RegularFiles(Commit))
           /\ UNCHANGED <<repoVars, restoreVars>>
  <2>1. /\ 0 \in 0 .. Len(Walk)
        /\ \A k \in 1 .. Len(Walk) : ~(k < 0 + 1) /\ EncPath(Walk[k]) \in Locations
    BY WalkLength DEF Locations
  <2>2. worktree = EmptyTree /\ UNCHANGED <<worktree, index, log>>
    BY <1>1, <1>3 DEF WorkerInv, repoVars
  <2>3. worktree.manifest = None /\ HasBlobs(worktree, Commit, KeysOf(recipients), 0 + 1)
    BY <2>1, <2>2 DEF EmptyTree, HasBlobs
  <2>4. HasBlobs(worktree, Commit, KeysOf(recipients), at')
    BY <1>3, <2>1, <2>3, SkipEntries
  <2>5. at' \in 1 .. Len(Walk) + 1 /\ (at' <= Len(Walk) => Walk[at'] \in RegularFiles(Commit))
    BY <1>3, <2>1, OnwardType
  <2>6. HasBlobs(worktree, Commit, KeysOf(recipients), at)'
    BY <1>1, <2>2, <2>4, SameTrees, SameCommits DEF Commit
  <2>7. (at <= Len(Walk) => Walk[at] \in RegularFiles(Commit))'
    BY <1>1, <2>2, <2>5, SameCommits DEF Commit
  <2> QED BY <1>1, <1>3, <2>2, <2>3, <2>5, <2>6, <2>7 DEF WorkerInv, Commit, RefusedForItsTree
<1> QED BY <1>2, <1>3 DEF LoadIgnoreFile

LEMMA EncryptStep ==
    ASSUME ServiceInv, WorkerInv, EncryptEntry
    PROVE  WorkerInv'
<1> DEFINE p == Walk[at]
           K == KeysOf(recipients)
           v == [content |-> Archive(Commit, p), keys |-> K]
<1>1. UNCHANGED <<source, phase, recipients>> /\ stage = "encrypt" /\ at \in 1 .. Len(Walk)
  BY WalkLength DEF EncryptEntry, serviceVars, WorkerInv
<1>2. /\ Commit \in Commits /\ K \in KeySets /\ source \in Histories
      /\ worktree \in EncryptedTrees /\ worktree.manifest = None
      /\ HasBlobs(worktree, Commit, K, at) /\ p \in RegularFiles(Commit)
  BY <1>1, AtWork, WalkLength DEF WorkerInv
<1>3. CASE ~(p \notin TooLong /\ Writable(EncPath(p))) /\ Refuse
  <2>1. at \in 1 .. Len(Walk) + 1
    BY <1>1, WalkLength
  <2>2. TooLong \cap RegularFiles(Commit) # {} \/ Collides(Commit)
    BY <1>2, <1>3, <2>1, InItsOwnWay
  <2> QED BY <1>1, <1>3, <2>2, RefuseStep
<1>4. CASE /\ at' \in Onward(at, RegularFiles(Commit)) /\ UNCHANGED stage
           /\ WriteTree([worktree EXCEPT !.blobs[EncPath(p)] = EncryptFile(Archive(Commit, p))])
  <2>1. worktree' = [worktree EXCEPT !.blobs[EncPath(p)] = v] /\ UNCHANGED <<index, log>>
    BY <1>4 DEF WriteTree, EncryptFile
  <2>2. v \in Blobs \cup {None} /\ EncPath(p) \in Locations
    BY <1>1, <1>2, WalkLength DEF Blobs, Locations, RegularFiles
  <2>3. HasBlobs([worktree EXCEPT !.blobs[EncPath(p)] = v], Commit, K, at + 1)
    BY <1>1, <1>2, NextEntry
  <2> HIDE DEF v
  <2>4. worktree' \in EncryptedTrees /\ worktree'.manifest = None
    BY <1>2, <2>1, <2>2, SetBlob
  <2>5. at \in 0 .. Len(Walk)
    BY <1>1, WalkLength
  <2>6. HasBlobs(worktree', Commit, K, at')
    BY <1>4, <2>1, <2>3, <2>5, SkipEntries
  <2>7. at' \in 1 .. Len(Walk) + 1 /\ (at' <= Len(Walk) => Walk[at'] \in RegularFiles(Commit))
    BY <1>4, <2>5, OnwardType
  <2>8. HasBlobs(worktree, Commit, KeysOf(recipients), at)'
    BY <1>1, <2>1, <2>6, SameTrees, SameCommits DEF Commit
  <2>9. (at <= Len(Walk) => Walk[at] \in RegularFiles(Commit))'
    BY <1>1, <2>1, <2>7, SameCommits DEF Commit
  <2> QED BY <1>1, <1>4, <2>1, <2>4, <2>7, <2>8, <2>9 DEF WorkerInv, Commit, RefusedForItsTree
<1> QED BY <1>3, <1>4 DEF EncryptEntry

LEMMA ManifestStep ==
    ASSUME ServiceInv, WorkerInv, WriteManifest
    PROVE  WorkerInv'
<1>1. UNCHANGED <<source, phase, recipients>> /\ stage = "encrypt" /\ at = Len(Walk) + 1
  BY WalkLength DEF WriteManifest, serviceVars, WorkerInv
<1>2. /\ Commit \in Commits /\ KeysOf(recipients) \in KeySets /\ source \in Histories
      /\ worktree \in EncryptedTrees
      /\ HasBlobs(worktree, Commit, KeysOf(recipients), Len(Walk) + 1)
  BY <1>1, AtWork DEF WorkerInv
<1>3. 1 \in 1 .. Len(Walk) + 1 /\ Len(Walk) + 1 \in 1 .. Len(Walk) + 1
  BY WalkLength
<1>4. CASE ~Writable(ManifestPath) /\ Refuse
  <2>1. Collides(Commit)
    BY <1>2, <1>3, <1>4, InItsOwnWay
  <2> QED BY <1>1, <1>4, <2>1, RefuseStep
<1>5. CASE Continue("add") /\ WriteTree([worktree EXCEPT !.manifest = Manifest(Commit)])
  <2> DEFINE t == [worktree EXCEPT !.manifest = Manifest(Commit)]
  <2>1. t \in EncryptedTrees /\ t.manifest = Manifest(Commit) /\ t.blobs = worktree.blobs
    BY <1>2, ManifestEntries, SetManifest
  <2>2. worktree' = t /\ UNCHANGED <<index, log>>
    BY <1>5 DEF WriteTree
  <2> HIDE DEF t
  <2>3. HasBlobs(t, Commit, KeysOf(recipients), Len(Walk) + 1)
    BY <1>2, <2>1 DEF HasBlobs
  <2>4. Holds(t, Commit, KeysOf(recipients))
    BY <2>1, <2>3, AllEntries
  <2>5. Holds(worktree, Commit, KeysOf(recipients))'
    BY <1>1, <2>2, <2>4, SameTrees, SameCommits DEF Commit
  <2> QED BY <1>1, <1>2, <1>3, <1>5, <2>1, <2>2, <2>5
         DEF WorkerInv, Commit, Continue, RefusedForItsTree
<1> QED BY <1>4, <1>5 DEF WriteManifest

LEMMA StageStep ==
    ASSUME ServiceInv, WorkerInv, StageAll
    PROVE  WorkerInv'
<1>1. /\ UNCHANGED <<source, phase, recipients, worktree, log>> /\ index' = worktree
      /\ stage = "add" /\ stage' = "commit" /\ at' = 1
  BY DEF StageAll, Continue, serviceVars
<1>2. Holds(worktree, Commit, KeysOf(recipients))
  BY <1>1 DEF WorkerInv
<1>3. Holds(index, Commit, KeysOf(recipients))'
  BY <1>1, <1>2, SameTrees, SameCommits DEF Commit
<1>4. 1 \in 1 .. Len(Walk) + 1
  BY WalkLength
<1> QED BY <1>1, <1>3, <1>4 DEF WorkerInv, Commit, RefusedForItsTree

LEMMA CommitStep ==
    ASSUME ServiceInv, WorkerInv, LogInv, CommitStaged
    PROVE  WorkerInv' /\ LogInv'
<1>1. /\ UNCHANGED <<source, worktree, index>> /\ stage = "commit" /\ stage' = "idle" /\ at' = 1
      /\ log' = Append(log, index) /\ usedKeys' = Append(usedKeys, KeysOf(recipients))
  BY DEF CommitStaged, Continue
<1>2. /\ Holds(index, Commit, KeysOf(recipients))
      /\ Commit \in Commits /\ KeysOf(recipients) \in KeySets
      /\ worktree \in EncryptedTrees /\ index \in EncryptedTrees
  BY <1>1, AtWork DEF WorkerInv
<1>3. WorkerInv'
  BY <1>1, <1>2, AtRest
<1>4. /\ log \in Seq(EncryptedTrees) /\ usedKeys \in Seq(KeySets) /\ Len(usedKeys) = Len(log)
      /\ Len(log) \in Nat
  BY LenProperties DEF LogInv
<1>5. /\ log' \in Seq(EncryptedTrees) /\ Len(log') = Len(log) + 1
      /\ \A i \in 1 .. Len(log) : log'[i] = log[i]
      /\ log'[Len(log) + 1] = index
  BY <1>1, <1>2, <1>4, AppendProperties
<1>6. /\ usedKeys' \in Seq(KeySets) /\ Len(usedKeys') = Len(log) + 1
      /\ \A i \in 1 .. Len(log) : usedKeys'[i] = usedKeys[i]
      /\ usedKeys'[Len(log) + 1] = KeysOf(recipients)
  BY <1>1, <1>2, <1>4, AppendProperties
<1>7. ASSUME NEW i \in 1 .. Len(log) + 1
      PROVE  i \in Commits /\ Holds(log'[i], i, usedKeys'[i])
  <2>1. CASE i \in 1 .. Len(log)
    BY <1>5, <1>6, <2>1 DEF LogInv
  <2>2. CASE i = Len(log) + 1
    BY <1>2, <1>5, <1>6, <2>2 DEF Commit
  <2> QED BY <1>4, <2>1, <2>2
<1>8. ASSUME NEW i \in 1 .. Len(log')
      PROVE  i \in Commits /\ Holds(log[i], i, usedKeys[i])'
  <2>1. i \in 1 .. Len(log) + 1
    BY <1>5
  <2>2. i \in Commits /\ Holds(log'[i], i, usedKeys'[i])
    BY <1>7, <2>1
  <2> QED BY <1>1, <2>2, SameTrees
<1>9. LogInv'
  BY <1>5, <1>6, <1>8 DEF LogInv
<1> QED BY <1>3, <1>9

LEMMA WorkerStep ==
    ASSUME ServiceInv, WorkerInv, LogInv, [Next]_vars
    PROVE  WorkerInv' /\ LogInv'
<1>1. CASE \/ ExportTree \/ ClearWorkingTree \/ LoadIgnoreFile
           \/ EncryptEntry \/ WriteManifest \/ StageAll
  <2>1. UNCHANGED <<source, log, usedKeys>>
    BY <1>1 DEF ExportTree, ClearWorkingTree, LoadIgnoreFile, EncryptEntry, WriteManifest, StageAll,
                WriteTree, Refuse, repoVars
  <2> QED BY <1>1, <2>1, LogFrame, ExportStep, ClearStep, IgnoreStep, EncryptStep, ManifestStep,
            StageStep
<1>2. CASE CommitStaged
  BY <1>2, CommitStep
<1>3. CASE JobFails \/ Crash
  <2>1. UNCHANGED <<source, log, usedKeys, worktree, index>> /\ stage' = "idle" /\ at' = 1
    BY <1>3 DEF JobFails, Crash, Continue, repoVars
  <2> QED BY <2>1, LogFrame, AtRest DEF WorkerInv
<1>4. CASE Start
  <2>1. UNCHANGED <<source, worktree, index, log, usedKeys, stage, at>> /\ stage = "idle"
    BY <1>4 DEF Start, LoadRecipients, DetectRotation, WriteRotationState, ReportRotation,
                repoVars, workerVars, WorkerInv
  <2> QED BY <2>1, LogFrame DEF WorkerInv, RefusedForItsTree
<1>5. CASE DeleteCache
  <2>1. /\ UNCHANGED <<source, stage, at>> /\ stage = "idle"
        /\ log' = <<>> /\ usedKeys' = <<>> /\ worktree' = EmptyTree /\ index' = EmptyTree
    BY <1>5 DEF DeleteCache, workerVars, WorkerInv
  <2>2. /\ log' \in Seq(EncryptedTrees) /\ usedKeys' \in Seq(KeySets)
        /\ Len(log') = 0 /\ Len(usedKeys') = 0
    BY <2>1, EmptySeq
  <2> QED BY <2>1, <2>2, TreeTypes DEF WorkerInv, LogInv, RefusedForItsTree
<1>6. CASE EditConfiguration \/ Restore \/ UNCHANGED vars
  <2>1. UNCHANGED <<source, phase, recipients, stage, at, worktree, index, log, usedKeys>>
    BY <1>6 DEF EditConfiguration, Restore, RestoreCommit, RestoreCurrent, StartRestore,
                ReadManifest, DecryptEntry, FinishRestore, vars, serviceVars, workerVars, repoVars
  <2> QED BY <2>1, WorkerFrame, LogFrame
<1> QED BY <1>1, <1>2, <1>3, <1>4, <1>5, <1>6 DEF Next, Mirror

(***************************************************************************)
(* What restore has laid down.                                             *)
(***************************************************************************)
LEMMA PlacesOf ==
    /\ Paths \subseteq Places
    /\ \A p \in Paths : Dirs(p) \subseteq Places
BY DEF Places

\* Where the next entry goes is what the directory held before, but for the
\* directories made on the way.
LEMMA LaidAt ==
    ASSUME source \in Histories, NEW i \in Commits, NEW before,
           NEW n \in 1 .. Len(Walk), Walk[n] \in Mirrored(i)
    PROVE  /\ Laid(i, before, n)[Walk[n]] = before[Walk[n]]
           /\ \A d \in Dirs(Walk[n]) : Laid(i, before, n)[d] \in {Directory, before[d]}
<1>1. Walk[n] \in Paths /\ Walk[n] \in Places /\ Dirs(Walk[n]) \subseteq Places
  BY WalkLength, PlacesOf
<1>2. \A k \in 1 .. n - 1 : k \in 1 .. Len(Walk) /\ k # n
  BY WalkLength
<1>3. \A k \in 1 .. n - 1 : Walk[k] # Walk[n]
  BY <1>2, RecoveryAssumption
<1>4. \A k \in 1 .. n - 1 : Walk[k] \in Mirrored(i) => Walk[n] \notin Dirs(Walk[k])
  BY Entries
<1>5. Laid(i, before, n)[Walk[n]] = before[Walk[n]]
  BY <1>1, <1>3, <1>4 DEF Laid
<1>6. ASSUME NEW d \in Dirs(Walk[n])
      PROVE  Laid(i, before, n)[d] \in {Directory, before[d]}
  <2>1. d \notin Mirrored(i) /\ d \in Places
    BY <1>1, Entries
  <2> QED BY <2>1 DEF Laid
<1> QED BY <1>5, <1>6

LEMMA LaidNext ==
    ASSUME source \in Histories, NEW i \in Commits, NEW before, NEW n \in 1 .. Len(Walk)
    PROVE  /\ Walk[n] \notin Mirrored(i) => Laid(i, before, n + 1) = Laid(i, before, n)
           /\ Walk[n] \in Mirrored(i) =>
                 \A x \in Places : Laid(i, before, n + 1)[x] =
                    IF x = Walk[n] THEN Archive(i, x)
                    ELSE IF x \in Dirs(Walk[n]) THEN Directory
                    ELSE Laid(i, before, n)[x]
<1>1. \A k : k \in 1 .. (n + 1) - 1 <=> k \in 1 .. n - 1 \/ k = n
  BY WalkLength
<1>2. CASE Walk[n] \notin Mirrored(i)
  <2>1. ASSUME NEW x
        PROVE  /\ (\E k \in 1 .. (n + 1) - 1 : Walk[k] = x /\ x \in Mirrored(i))
                     <=> (\E k \in 1 .. n - 1 : Walk[k] = x /\ x \in Mirrored(i))
               /\ (\E k \in 1 .. (n + 1) - 1 : Walk[k] \in Mirrored(i) /\ x \in Dirs(Walk[k]))
                     <=> (\E k \in 1 .. n - 1 : Walk[k] \in Mirrored(i) /\ x \in Dirs(Walk[k]))
    BY <1>1, <1>2
  <2> QED BY <1>2, <2>1 DEF Laid
<1>3. CASE Walk[n] \in Mirrored(i)
  <2>1. ASSUME NEW x \in Places
        PROVE  Laid(i, before, n + 1)[x] = IF x = Walk[n] THEN Archive(i, x)
                                           ELSE IF x \in Dirs(Walk[n]) THEN Directory
                                           ELSE Laid(i, before, n)[x]
    <3>1. (\E k \in 1 .. (n + 1) - 1 : Walk[k] = x /\ x \in Mirrored(i))
             <=> x = Walk[n] \/ (\E k \in 1 .. n - 1 : Walk[k] = x /\ x \in Mirrored(i))
      BY <1>1, <1>3
    <3>2. (\E k \in 1 .. (n + 1) - 1 : Walk[k] \in Mirrored(i) /\ x \in Dirs(Walk[k]))
             <=> \/ x \in Dirs(Walk[n])
                 \/ \E k \in 1 .. n - 1 : Walk[k] \in Mirrored(i) /\ x \in Dirs(Walk[k])
      BY <1>1, <1>3
    <3>3. x \in Dirs(Walk[n]) => x \notin Mirrored(i)
      BY <1>3, Entries
    <3> QED BY <3>1, <3>2, <3>3 DEF Laid
  <2> QED BY <1>3, <2>1
<1> QED BY <1>2, <1>3

\* Nothing is laid down for the paths between two entries.
LEMMA LaidSkip ==
    ASSUME NEW i, NEW before, NEW k \in 0 .. Len(Walk), NEW n \in Onward(k, Mirrored(i))
    PROVE  Laid(i, before, n) = Laid(i, before, k + 1)
<1>1. n \in k + 1 .. Len(Walk) + 1 /\ \A m \in k + 1 .. n - 1 : Walk[m] \notin Mirrored(i)
  BY OnwardType
<1>2. \A m : m \in 1 .. n - 1 <=> m \in 1 .. (k + 1) - 1 \/ m \in k + 1 .. n - 1
  BY <1>1, WalkLength
<1>3. ASSUME NEW x
      PROVE  /\ (\E m \in 1 .. n - 1 : Walk[m] = x /\ x \in Mirrored(i))
                   <=> (\E m \in 1 .. (k + 1) - 1 : Walk[m] = x /\ x \in Mirrored(i))
             /\ (\E m \in 1 .. n - 1 : Walk[m] \in Mirrored(i) /\ x \in Dirs(Walk[m]))
                   <=> (\E m \in 1 .. (k + 1) - 1 : Walk[m] \in Mirrored(i) /\ x \in Dirs(Walk[m]))
  BY <1>1, <1>2
<1> QED BY <1>3 DEF Laid

LEMMA LaidFirst ==
    ASSUME NEW i, NEW before \in Outputs
    PROVE  Laid(i, before, 1) = before
<1>1. \A k : k \notin 1 .. 1 - 1
  OBVIOUS
<1>2. \A x \in Places : Laid(i, before, 1)[x] = before[x]
  BY <1>1 DEF Laid
<1> QED BY <1>2 DEF Laid, Outputs

\* In the end it is the tree, over what the directory held.
LEMMA LaidAll ==
    ASSUME source \in Histories, NEW i \in Commits, NEW before
    PROVE  Laid(i, before, Len(Walk) + 1) = Overlaid(i, before)
<1>1. (Len(Walk) + 1) - 1 = Len(Walk)
  BY WalkLength
<1>2. \A p : p \in Mirrored(i) <=> p \in Paths /\ Visible(i)[p] # None
  BY Entries DEF Visible
<1>3. \A p \in Mirrored(i) : Visible(i)[p] = Archive(i, p)
  BY Entries DEF Visible
<1>4. ASSUME NEW x \in Places
      PROVE  Laid(i, before, Len(Walk) + 1)[x] = Overlaid(i, before)[x]
  <2>1. (\E k \in 1 .. Len(Walk) : Walk[k] = x /\ x \in Mirrored(i)) <=> x \in Mirrored(i)
    BY Entries DEF Paths
  <2>2. (\E k \in 1 .. Len(Walk) : Walk[k] \in Mirrored(i) /\ x \in Dirs(Walk[k]))
           <=> (\E p \in Mirrored(i) : x \in Dirs(p))
    BY Entries DEF Paths
  <2> QED BY <1>1, <1>2, <1>3, <2>1, <2>2 DEF Laid, Overlaid
<1> QED BY <1>4 DEF Laid, Overlaid

(***************************************************************************)
(* The steps of restore, and those of the service beside it.               *)
(***************************************************************************)
\* What restore reads is HEAD's as long as nothing has disturbed it.
LEMMA BesideRestore ==
    ASSUME RestoreInv, UNCHANGED <<source, restore>>, disturbed' \in BOOLEAN,
           disturbed \/ (Reading /\ worktree' # worktree) => disturbed'
    PROVE  RestoreInv'
<1>1. ASSUME Promised' PROVE Faithful'
  <2>1. Promised /\ (Reading => UNCHANGED worktree)
    BY <1>1, SameCommits DEF Promised, Undisturbed
  <2>2. Faithful
    BY <2>1 DEF RestoreInv
  <2>3. restore.stage \in {"manifest", "decrypt"} => Source' = Source
    BY <2>1 DEF Reading, Source
  <2>4. restore.stage \in {"manifest", "decrypt"} => Holds(Source, restore.commit, restore.keys)'
    BY <2>2, <2>3, SameTrees, SameCommits DEF Faithful
  <2> QED BY <2>2, <2>4, SameTrees, SameCommits DEF Faithful, NoLinkOpened
<1> QED BY <1>1 DEF RestoreInv

LEMMA StartStep ==
    ASSUME ServiceInv, WorkerInv, LogInv, RestoreInv, RestoreCommit \/ RestoreCurrent
    PROVE  RestoreInv'
<1>1. PICK i \in 0 .. Len(log), live \in BOOLEAN : StartRestore(i, live) /\ (~live => i # 0)
  <2>1. Len(log) \in Nat
    BY LenProperties DEF LogInv
  <2>2. CASE RestoreCommit
    <3>1. PICK i \in 1 .. Len(log) : StartRestore(i, FALSE)
      BY <2>2 DEF RestoreCommit
    <3>2. i \in 0 .. Len(log) /\ i # 0
      BY <2>1
    <3> QED BY <3>1, <3>2
  <2>3. CASE RestoreCurrent
    <3>1. StartRestore(Len(log), TRUE)
      BY <2>3 DEF RestoreCurrent
    <3>2. Len(log) \in 0 .. Len(log)
      BY <2>1
    <3> QED BY <3>1, <3>2, Zenon
  <2> QED BY <2>2, <2>3
<1>2. PICK k \in Keys, before \in {EmptyOut} \cup Reused(live) :
          restore' = [Idle EXCEPT !.stage = IF live \/ Extracts(log[i]) THEN "manifest" ELSE "failed",
                        !.live = live, !.key = k,
                        !.tree = IF live THEN EmptyTree ELSE log[i],
                        !.out = before, !.before = before,
                        !.commit = i, !.keys = IF i = 0 THEN {} ELSE usedKeys[i]]
  BY <1>1 DEF StartRestore
<1>3. /\ disturbed' = (live /\ (i = 0 \/ worktree # log[i]))
      /\ UNCHANGED <<source, worktree, log, usedKeys>>
  BY <1>1 DEF StartRestore, repoVars
<1>4. before \in Outputs
  BY TreeTypes DEF Reused, RestoreInv, Restores
<1>5. Len(log) \in Nat /\ log \in Seq(EncryptedTrees) /\ usedKeys \in Seq(KeySets)
      /\ Len(usedKeys) = Len(log)
  BY LenProperties DEF LogInv
<1>6. i # 0 => /\ i \in 1 .. Len(log) /\ i \in Commits /\ Holds(log[i], i, usedKeys[i])
               /\ log[i] \in EncryptedTrees /\ usedKeys[i] \in KeySets
  BY <1>5, ElementOfSeq DEF LogInv
<1>7. restore' \in Restores
  <2>1. (IF live THEN EmptyTree ELSE log[i]) \in EncryptedTrees
    BY <1>1, <1>6, TreeTypes
  <2>2. (IF i = 0 THEN {} ELSE usedKeys[i]) \in SUBSET Keys
    BY <1>6 DEF KeySets
  <2>3. i \in Commits \cup {0}
    BY <1>6
  <2> QED BY <1>2, <1>4, <2>1, <2>2, <2>3, TreeTypes DEF Restores
<1>8. /\ restore'.live = live /\ restore'.commit = i
      /\ restore'.out = before /\ restore'.before = before /\ restore'.at = 1
      /\ ~live => restore'.tree = log[i]
      /\ i # 0 => restore'.keys = usedKeys[i]
      /\ restore'.stage = IF live \/ Extracts(log[i]) THEN "manifest" ELSE "failed"
  BY <1>2 DEF Idle
<1>9. ASSUME Promised' PROVE Faithful'
  <2>1. i # 0 /\ (live => worktree = log[i])
    BY <1>3, <1>8, <1>9 DEF Promised, Undisturbed
  <2>2. Source' = log[i]
    BY <1>3, <1>8, <2>1 DEF Source
  <2>3. Holds(Source', i, usedKeys[i])
    BY <1>6, <2>1, <2>2
  <2>4. Holds(Source, restore.commit, restore.keys)'
    BY <1>3, <1>8, <2>1, <2>3, SameTrees, SameCommits
  <2>5. Laid(i, before, 1) = before
    BY <1>4, LaidFirst
  <2>6. restore'.out = Laid(restore.commit, restore.before, restore.at)'
    BY <1>3, <1>8, <2>5, SameTrees, SameCommits
  <2>7. restore'.stage = "failed" => ~live /\ DotEnding \cap RegularFiles(i) # {}
    <3> SUFFICES ASSUME ~live, ~Extracts(log[i]) PROVE DotEnding \cap RegularFiles(i) # {}
      BY <1>8
    <3>1. PICK p \in DotEnding : log[i].blobs[EncPath(p)] # None
      BY DEF Extracts
    <3>2. p \in Paths
      BY RecoveryAssumption
    <3>3. BlobOf(i, usedKeys[i], p) # None
      BY <1>6, <2>1, <3>1, <3>2 DEF Holds
    <3> QED BY <3>1, <3>3 DEF BlobOf
  <2>8. restore'.stage = "failed" =>
           (~restore.live /\ DotEnding \cap RegularFiles(restore.commit) # {})'
    BY <1>3, <1>8, <2>7, SameCommits
  <2>9. restore'.stage # "decrypt" /\ restore'.commit \in Commits /\ restore'.keys \in KeySets
    BY <1>6, <1>8, <2>1
  <2> QED BY <2>4, <2>6, <2>8, <2>9 DEF Faithful
<1>10. disturbed' \in BOOLEAN /\ restore'.stage \in {"manifest", "failed"}
  BY <1>3, <1>8
<1> QED BY <1>7, <1>8, <1>9, <1>10 DEF RestoreInv

\* What of restore's state no step of it changes.
SameTask ==
    /\ restore'.live = restore.live /\ restore'.tree = restore.tree /\ restore'.key = restore.key
    /\ restore'.manifest = restore.manifest /\ restore'.before = restore.before
    /\ restore'.commit = restore.commit /\ restore'.keys = restore.keys

LEMMA FurtherStep ==
    ASSUME UNCHANGED <<source, worktree>>, SameTask, Faithful,
           restore.stage = "decrypt", restore'.stage = "decrypt",
           NoLinkOpened => restore'.out = Laid(restore.commit, restore.before, restore'.at)
    PROVE  Faithful'
<1>1. Source' = Source
  BY DEF Source, SameTask
<1>2. Holds(Source, restore.commit, restore.keys)'
  BY <1>1, SameTrees, SameCommits DEF SameTask, Faithful
<1>3. restore'.manifest = Manifest(restore.commit)'
  BY SameCommits DEF SameTask, Faithful
<1>4. NoLinkOpened' => NoLinkOpened
  BY SameCommits DEF SameTask, NoLinkOpened
<1>5. NoLinkOpened' => restore'.out = Laid(restore.commit, restore.before, restore.at)'
  BY <1>4, SameTrees, SameCommits DEF SameTask
<1> QED BY <1>2, <1>3, <1>5 DEF Faithful, SameTask

\* An entry that fits is laid down where it belongs, unless through a link.
LEMMA EntryFits ==
    ASSUME source \in Histories, restore \in Restores, Faithful,
           restore.stage = "decrypt", restore.at \in 1 .. Len(Walk), NoLinkOpened,
           NEW p, p = Walk[restore.at], p \in Mirrored(restore.commit)
    PROVE  /\ Opened(p) = p
           /\ [WithDirs(p) EXCEPT ![p] = Archive(restore.commit, p)] =
                 Laid(restore.commit, restore.before, restore.at + 1)
<1>1. /\ restore.commit \in Commits /\ p \in Paths /\ p \in Places
      /\ restore.out = Laid(restore.commit, restore.before, restore.at)
  BY WalkLength, PlacesOf DEF Faithful
<1>2. restore.out[p] = restore.before[p]
  BY <1>1, LaidAt
<1>3. Opened(p) = p
  BY <1>2 DEF Opened, NoLinkOpened
<1>4. ASSUME NEW x \in Places
      PROVE  Laid(restore.commit, restore.before, restore.at + 1)[x] =
             [WithDirs(p) EXCEPT ![p] = Archive(restore.commit, p)][x]
  <2>1. Laid(restore.commit, restore.before, restore.at + 1)[x] =
           IF x = p THEN Archive(restore.commit, x)
           ELSE IF x \in Dirs(p) THEN Directory
           ELSE restore.out[x]
    BY <1>1, LaidNext
  <2>2. WithDirs(p)[x] = IF x \in Dirs(p) THEN Directory ELSE restore.out[x]
    BY DEF WithDirs
  <2>3. [WithDirs(p) EXCEPT ![p] = Archive(restore.commit, p)][x] =
           IF x = p THEN Archive(restore.commit, p) ELSE WithDirs(p)[x]
    BY DEF WithDirs
  <2> QED BY <2>1, <2>2, <2>3
<1>5. [WithDirs(p) EXCEPT ![p] = Archive(restore.commit, p)] =
         Laid(restore.commit, restore.before, restore.at + 1)
  BY <1>4 DEF WithDirs, Laid
<1> QED BY <1>3, <1>5

\* One that does not fit is not for this key, or something is in its way.
LEMMA EntryDoesNotFit ==
    ASSUME source \in Histories, restore \in Restores, Faithful,
           restore.stage = "decrypt", restore.at \in 1 .. Len(Walk), WellNamed(restore.commit),
           NEW p, p = Walk[restore.at], p \in Mirrored(restore.commit),
           ~(CanMakeDirs(p) /\ IF restore.manifest[p] \in Links THEN restore.out[p] = None
                               ELSE Readable(restore.manifest[p]) /\ CanOpen(p))
    PROVE  restore.key \notin restore.keys \/ InTheWay(restore.commit, restore.before)
<1> DEFINE i == restore.commit
           before == restore.before
           e == restore.manifest[p]
<1>1. i \in Commits /\ p \in Paths /\ p \in Places /\ Dirs(p) \subseteq Places
  BY WalkLength, PlacesOf DEF Faithful
<1>2. /\ p \in Mirrored(i) /\ (e \in Links => Archive(i, p) = e)
      /\ e \notin Links => p \in RegularFiles(i) /\ e = EncPath(p)
  BY <1>1, NamedEntries DEF Faithful
<1>3. before[p] \in Links => InTheWay(i, before)
  BY <1>2 DEF InTheWay
<1>4. CASE NoLinkOpened
  <2>1. /\ restore.out[p] = before[p]
        /\ \A d \in Dirs(p) : restore.out[d] \in {Directory, before[d]}
    BY <1>1, <1>2, <1>4, LaidAt DEF Faithful
  <2>2. CASE ~CanMakeDirs(p)
    <3>1. PICK d \in Dirs(p) : restore.out[d] \notin {None, Directory}
      BY <2>2 DEF CanMakeDirs
    <3>2. before[d] \notin {None, Directory}
      BY <2>1, <3>1
    <3> QED BY <1>2, <3>1, <3>2 DEF InTheWay
  <2>3. CASE e \in Links /\ restore.out[p] # None
    <3>1. Visible(i)[p] \in Links /\ before[p] # None
      BY <1>1, <1>2, <2>1, <2>3 DEF Visible
    <3> QED BY <1>2, <3>1 DEF InTheWay
  <2>4. CASE e \notin Links /\ ~Readable(e)
    <3>1. Source.blobs[e] = BlobOf(i, restore.keys, p)
      BY <1>1, <1>2, <2>4 DEF Faithful, Holds
    <3>2. Source.blobs[e] # None
      BY <1>1, <1>2, <2>4, <3>1, BlobType DEF Faithful
    <3>3. Source.blobs[e].keys = restore.keys
      BY <1>2, <2>4, <3>1 DEF BlobOf
    <3> QED BY <2>4, <3>2, <3>3 DEF Readable
  <2>5. CASE CanMakeDirs(p) /\ e \notin Links /\ ~CanOpen(p)
    <3>1. Opened(p) = p /\ p # None
      BY <1>1, <1>2, <1>4, <2>1, Distinct DEF Opened, NoLinkOpened
    <3>2. \A d \in Dirs(p) : WithDirs(p)[d] = Directory
      BY <1>1 DEF WithDirs
    <3>3. WithDirs(p)[p] = Directory
      BY <2>5, <3>1, <3>2 DEF CanOpen
    <3>4. before[p] = Directory
      BY <1>1, <2>1, <3>3, DirsOfPath DEF WithDirs
    <3> QED BY <1>2, <3>4 DEF InTheWay
  <2> QED BY <2>2, <2>3, <2>4, <2>5
<1>5. CASE ~NoLinkOpened
  BY <1>5 DEF NoLinkOpened, InTheWay
<1> QED BY <1>4, <1>5

LEMMA DecryptStep ==
    ASSUME ServiceInv, WorkerInv, RestoreInv, DecryptEntry
    PROVE  RestoreInv'
<1> DEFINE q == Walk[restore.at]
           p == Named[q]
           e == restore.manifest[q]
           fits == CanMakeDirs(p) /\ IF e \in Links THEN restore.out[p] = None
                                     ELSE Readable(e) /\ CanOpen(p)
<1>1. /\ source \in Histories /\ restore \in Restores /\ restore.at \in 1 .. Len(Walk)
      /\ restore.stage = "decrypt" /\ UNCHANGED <<source, worktree, disturbed>>
      /\ disturbed \in BOOLEAN /\ Source \in EncryptedTrees /\ q \in Listed(restore.manifest)
  <2>1. /\ restore \in Restores /\ restore.stage = "decrypt" /\ restore.at <= Len(Walk)
        /\ UNCHANGED <<source, worktree, disturbed>>
    BY DEF DecryptEntry, RestoreInv, repoVars
  <2>2. restore.at \in 1 .. Len(Walk) + 1 /\ restore.tree \in EncryptedTrees
    BY <2>1 DEF Restores
  <2>3. restore.at \in 1 .. Len(Walk)
    BY <2>1, <2>2, WalkLength
  <2> QED BY <2>1, <2>2, <2>3 DEF ServiceInv, WorkerInv, RestoreInv, Source
<1>2. q \in Paths /\ p \in Paths /\ restore.at \in 0 .. Len(Walk)
  <2>1. q \in Paths /\ restore.at \in 0 .. Len(Walk)
    BY <1>1, WalkLength
  <2>2. \A x \in Paths : Named[x] \in Paths
    BY RecoveryAssumption
  <2> QED BY <2>1, <2>2
<1>3. restore.manifest \in Manifests /\ restore.out \in Outputs
  BY <1>1 DEF Restores
<1>4. /\ WithDirs(p) \in Outputs
      /\ \A x, v : v \in Contents \cup Links => [WithDirs(p) EXCEPT ![x] = v] \in Outputs
  BY <1>3 DEF WithDirs, Outputs
<1>5. e \in Links \cup Locations
  BY <1>1, <1>2, <1>3 DEF Manifests, Listed
<1>6. ASSUME Promised
      PROVE  /\ Faithful /\ WellNamed(restore.commit) /\ restore.commit \in Commits
             /\ Listed(restore.manifest) = Mirrored(restore.commit)
             /\ q \in Mirrored(restore.commit) /\ p = q
             /\ e \in Links => Archive(restore.commit, p) = e
             /\ e \notin Links => p \in RegularFiles(restore.commit) /\ e = EncPath(p)
  <2>1. Faithful /\ WellNamed(restore.commit) /\ restore.commit \in Commits
    BY <1>6 DEF RestoreInv, Faithful, Promised
  <2>2. restore.manifest = Manifest(restore.commit)
    BY <1>1, <2>1 DEF Faithful
  <2>3. Listed(restore.manifest) = Mirrored(restore.commit)
    BY <1>1, <2>1, <2>2, ManifestEntries
  <2>4. q \in Mirrored(restore.commit)
    BY <1>1, <2>3
  <2> QED BY <1>1, <2>1, <2>2, <2>3, <2>4, NamedEntries
<1>7. ASSUME NEW n \in Onward(restore.at, Listed(restore.manifest)),
             NEW x, NEW v \in Contents \cup Links, restore' = Put(p, x, v, n),
             Promised /\ NoLinkOpened => x = p /\ v = Archive(restore.commit, p)
      PROVE  RestoreInv'
  <2>1. n \in 1 .. Len(Walk) + 1 /\ (n <= Len(Walk) => Walk[n] \in Listed(restore.manifest))
    BY <1>2, OnwardType
  <2> HIDE DEF p
  <2>2. /\ restore' \in Restores /\ restore'.stage = "decrypt" /\ restore'.at = n
        /\ restore'.out = [WithDirs(p) EXCEPT ![x] = v] /\ SameTask
    BY <1>1, <1>4, <1>7, <2>1 DEF Put, Restores, SameTask
  <2>3. Promised' <=> Promised
    BY <1>1, <2>2, SameCommits DEF Promised, Undisturbed, SameTask
  <2>4. ASSUME Promised PROVE Faithful'
    <3>1. /\ Faithful /\ restore.commit \in Commits /\ p = q
          /\ p \in Mirrored(restore.commit)
          /\ n \in Onward(restore.at, Mirrored(restore.commit))
      BY <1>6, <2>4
    <3>2. ASSUME NoLinkOpened
          PROVE  restore'.out = Laid(restore.commit, restore.before, restore'.at)
      <4>1. [WithDirs(p) EXCEPT ![p] = Archive(restore.commit, p)] =
               Laid(restore.commit, restore.before, restore.at + 1)
        BY <1>1, <3>1, <3>2, EntryFits
      <4>2. Laid(restore.commit, restore.before, n) =
               Laid(restore.commit, restore.before, restore.at + 1)
        BY <1>2, <3>1, LaidSkip
      <4> QED BY <1>7, <2>2, <2>4, <3>2, <4>1, <4>2
    <3> QED BY <1>1, <2>2, <3>1, <3>2, FurtherStep
  <2>5. restore'.at <= Len(Walk) => Walk[restore'.at] \in Listed(restore'.manifest)
    BY <2>1, <2>2 DEF SameTask
  <2> QED BY <1>1, <2>2, <2>3, <2>4, <2>5 DEF RestoreInv
<1>8. ASSUME NEW n \in Onward(restore.at, Listed(restore.manifest)), e \in Links,
             restore' = Put(p, p, e, n)
      PROVE  RestoreInv'
  <2>1. Promised => e = Archive(restore.commit, p)
    BY <1>6, <1>8
  <2> HIDE DEF p, e
  <2> QED BY <1>7, <1>8, <2>1
<1>9. ASSUME NEW n \in Onward(restore.at, Listed(restore.manifest)), e \notin Links, fits,
             restore' = Put(p, Opened(p), Source.blobs[e].content, n)
      PROVE  RestoreInv'
  <2> DEFINE content == Source.blobs[e].content
  <2>1. e \in Locations /\ Source.blobs[e] # None
    BY <1>5, <1>9 DEF Readable
  <2>2. content \in Contents
    BY <1>1, <2>1 DEF EncryptedTrees, Blobs
  <2>3. ASSUME Promised
        PROVE  content = Archive(restore.commit, p)
    <3>1. p \in RegularFiles(restore.commit) /\ e = EncPath(p)
      BY <1>6, <1>9, <2>3
    <3>2. Source.blobs[EncPath(p)] = BlobOf(restore.commit, restore.keys, p)
      BY <1>1, <1>2, <1>6, <2>3 DEF Faithful, Holds
    <3> QED BY <3>1, <3>2 DEF BlobOf
  <2>4. ASSUME Promised, NoLinkOpened PROVE Opened(p) = p
    <3>1. /\ Faithful /\ p = Walk[restore.at] /\ p \in Mirrored(restore.commit)
      BY <1>6, <2>4
    <3> QED BY <1>1, <2>4, <3>1, EntryFits
  <2> HIDE DEF p, e, content
  <2>5. restore' = Put(p, Opened(p), content, n)
    BY <1>9 DEF content
  <2> QED BY <1>7, <2>2, <2>3, <2>4, <2>5
<1>10. ASSUME ~fits,
              restore' = [restore EXCEPT !.stage = "failed",
                             !.out = IF CanMakeDirs(p) THEN WithDirs(p) ELSE @]
       PROVE  RestoreInv'
  <2>1. restore'.stage = "failed" /\ restore' \in Restores /\ SameTask
    <3> HIDE DEF p, fits
    <3> QED BY <1>1, <1>3, <1>4, <1>10 DEF Restores, SameTask
  <2>2. Promised' <=> Promised
    BY <1>1, <2>1, SameCommits DEF Promised, Undisturbed, SameTask
  <2>3. ASSUME Promised PROVE Faithful'
    <3>1. /\ Faithful /\ WellNamed(restore.commit) /\ p = Walk[restore.at]
          /\ p \in Mirrored(restore.commit) /\ e = restore.manifest[p]
      BY <1>6, <2>3
    <3>2. ~(CanMakeDirs(p) /\ IF restore.manifest[p] \in Links THEN restore.out[p] = None
                               ELSE Readable(restore.manifest[p]) /\ CanOpen(p))
      BY <1>10, <3>1
    <3>3. restore.key \notin restore.keys \/ InTheWay(restore.commit, restore.before)
      <4> HIDE DEF p, e, fits
      <4> QED BY <1>1, <3>1, <3>2, EntryDoesNotFit
    <3>4. (restore.key \notin restore.keys \/ InTheWay(restore.commit, restore.before))'
      BY <1>1, <2>1, <3>3, SameTrees, SameCommits DEF SameTask
    <3> QED BY <2>1, <3>1, <3>4 DEF Faithful, SameTask
  <2> QED BY <1>1, <2>1, <2>2, <2>3 DEF RestoreInv
<1> QED BY <1>8, <1>9, <1>10 DEF DecryptEntry

LEMMA ReadStep ==
    ASSUME ServiceInv, WorkerInv, RestoreInv, ReadManifest
    PROVE  RestoreInv'
<1>1. /\ source \in Histories /\ restore \in Restores /\ restore.stage = "manifest"
      /\ restore.at = 1 /\ UNCHANGED <<source, worktree, disturbed>> /\ disturbed \in BOOLEAN
  BY DEF ReadManifest, RestoreInv, ServiceInv, repoVars
<1>2. Source \in EncryptedTrees
  BY <1>1 DEF Source, Restores, WorkerInv
<1>3. ASSUME Promised
      PROVE  /\ Faithful /\ restore.commit \in Commits
             /\ Holds(Source, restore.commit, restore.keys)
             /\ Source.manifest = Manifest(restore.commit) /\ Source.manifest # None
             /\ Listed(Source.manifest) = Mirrored(restore.commit)
  <2>1. Faithful /\ restore.commit \in Commits
    BY <1>3 DEF RestoreInv, Faithful
  <2>2. Holds(Source, restore.commit, restore.keys)
    BY <1>1, <2>1 DEF Faithful
  <2>3. Source.manifest = Manifest(restore.commit)
    BY <2>2 DEF Holds
  <2> QED BY <1>1, <2>1, <2>2, <2>3, ManifestEntries, Distinct
<1>4. CASE Source.manifest = None /\ restore' = [restore EXCEPT !.stage = "failed"]
  <2>1. ~Promised
    BY <1>3, <1>4
  <2>2. restore' \in Restores /\ restore'.stage = "failed" /\ restore'.commit = restore.commit
    BY <1>1, <1>4 DEF Restores
  <2>3. ~Promised'
    BY <1>1, <2>1, <2>2, SameCommits DEF Promised, Undisturbed
  <2> QED BY <1>1, <2>2, <2>3 DEF RestoreInv
<1>5. ASSUME NEW n \in Onward(0, Listed(Source.manifest)), Source.manifest # None,
             restore' = [restore EXCEPT !.stage = "decrypt", !.at = n, !.manifest = Source.manifest]
      PROVE  RestoreInv'
  <2>1. 0 \in 0 .. Len(Walk)
    BY WalkLength
  <2>2. n \in 1 .. Len(Walk) + 1 /\ (n <= Len(Walk) => Walk[n] \in Listed(Source.manifest))
    BY <2>1, OnwardType
  <2>3. Source.manifest \in Manifests
    BY <1>2, <1>5 DEF EncryptedTrees
  <2>4. /\ restore' \in Restores /\ restore'.stage = "decrypt"
        /\ restore'.manifest = Source.manifest /\ restore'.at = n
        /\ restore'.live = restore.live /\ restore'.tree = restore.tree
        /\ restore'.commit = restore.commit /\ restore'.keys = restore.keys
        /\ restore'.out = restore.out /\ restore'.before = restore.before
    BY <1>1, <1>5, <2>2, <2>3 DEF Restores
  <2>5. ASSUME Promised PROVE Faithful'
    <3>1. Source' = Source
      BY <1>1, <2>4 DEF Source
    <3>2. Holds(Source, restore.commit, restore.keys)'
      BY <1>1, <1>3, <2>4, <2>5, <3>1, SameTrees, SameCommits
    <3>3. restore'.manifest = Manifest(restore.commit)'
      BY <1>1, <1>3, <2>4, <2>5, SameCommits
    <3>4. Laid(restore.commit, restore.before, n) = Laid(restore.commit, restore.before, 0 + 1)
      BY <1>3, <2>1, <2>5, LaidSkip
    <3>5. NoLinkOpened' => restore'.out = Laid(restore.commit, restore.before, n)
      BY <1>1, <1>3, <2>4, <2>5, <3>4, SameCommits DEF Faithful, NoLinkOpened
    <3>6. NoLinkOpened' => restore'.out = Laid(restore.commit, restore.before, restore.at)'
      BY <1>1, <2>4, <3>5, SameTrees, SameCommits
    <3>7. restore'.commit \in Commits /\ restore'.keys \in KeySets
      BY <1>3, <2>4, <2>5 DEF Faithful
    <3> QED BY <2>4, <3>2, <3>3, <3>6, <3>7 DEF Faithful
  <2>6. Promised' <=> Promised
    BY <1>1, <2>4, SameCommits DEF Promised, Undisturbed
  <2> QED BY <1>1, <2>2, <2>4, <2>5, <2>6 DEF RestoreInv
<1> QED BY <1>4, <1>5 DEF ReadManifest

LEMMA FinishStep ==
    ASSUME RestoreInv, FinishRestore
    PROVE  RestoreInv'
<1>1. /\ restore \in Restores /\ restore.stage = "decrypt" /\ restore.at > Len(Walk)
      /\ UNCHANGED <<source, worktree, disturbed>>
      /\ restore' = [restore EXCEPT !.stage = "done"]
  BY DEF FinishRestore, RestoreInv, repoVars
<1>2. restore.at = Len(Walk) + 1
  BY <1>1, WalkLength DEF Restores
<1>3. /\ restore' \in Restores /\ restore'.stage = "done" /\ restore'.at = restore.at
      /\ restore'.commit = restore.commit /\ restore'.keys = restore.keys
      /\ restore'.out = restore.out /\ restore'.before = restore.before
  BY <1>1 DEF Restores
<1>4. Promised' <=> Promised
  BY <1>1, <1>3, SameCommits DEF Promised, Undisturbed
<1>5. ASSUME Promised PROVE Faithful'
  <2>1. Faithful
    BY <1>5 DEF RestoreInv
  <2> QED BY <1>1, <1>3, <2>1, SameTrees, SameCommits DEF Faithful, NoLinkOpened
<1> QED BY <1>1, <1>2, <1>3, <1>4, <1>5 DEF RestoreInv

LEMMA RestoreStep ==
    ASSUME ServiceInv, WorkerInv, LogInv, RestoreInv, [Next]_vars
    PROVE  RestoreInv'
<1>1. CASE Restore
  BY <1>1, StartStep, ReadStep, DecryptStep, FinishStep DEF Restore
<1>2. CASE ExportTree \/ ClearWorkingTree \/ LoadIgnoreFile \/ EncryptEntry \/ WriteManifest
  <2>1. UNCHANGED <<source, restore>>
    BY <1>2 DEF ExportTree, ClearWorkingTree, LoadIgnoreFile, EncryptEntry, WriteManifest,
                WriteTree, Refuse, restoreVars
  <2>2. (disturbed' = (disturbed \/ Reading)) \/ UNCHANGED <<disturbed, worktree>>
    BY <1>2 DEF ExportTree, ClearWorkingTree, LoadIgnoreFile, EncryptEntry, WriteManifest,
                WriteTree, Refuse, repoVars, restoreVars
  <2>3. disturbed \in BOOLEAN
    BY DEF RestoreInv
  <2>4. /\ disturbed' \in BOOLEAN
        /\ disturbed \/ (Reading /\ worktree' # worktree) => disturbed'
    <3>1. CASE disturbed' = (disturbed \/ Reading)
      BY <3>1
    <3>2. CASE UNCHANGED <<disturbed, worktree>>
      BY <2>3, <3>2
    <3> QED BY <2>2, <3>1, <3>2
  <2> QED BY <2>1, <2>4, BesideRestore
<1>3. CASE DeleteCache
  <2>1. UNCHANGED <<source, restore>> /\ disturbed' = (disturbed \/ Reading)
    BY <1>3 DEF DeleteCache
  <2> QED BY <2>1, BesideRestore
<1>4. CASE StageAll \/ CommitStaged \/ JobFails \/ Start \/ EditConfiguration \/ Crash
           \/ UNCHANGED vars
  <2>1. UNCHANGED <<source, restore, disturbed, worktree>>
    BY <1>4 DEF StageAll, CommitStaged, JobFails, Start, LoadRecipients, DetectRotation,
                WriteRotationState, ReportRotation, EditConfiguration, Crash, vars, repoVars,
                restoreVars
  <2>2. disturbed \in BOOLEAN
    BY DEF RestoreInv
  <2> QED BY <2>1, <2>2, BesideRestore
<1> QED BY <1>1, <1>2, <1>3, <1>4 DEF Next, Mirror

LEMMA StepInv == IInv /\ [Next]_vars => IInv'
<1> SUFFICES ASSUME IInv, [Next]_vars PROVE IInv'
  OBVIOUS
<1> QED BY ServiceStep, WorkerStep, RestoreStep DEF IInv

LEMMA Invariance == Spec => []IInv
<1> QED BY InitInv, StepInv, PTL DEF Spec

-----------------------------------------------------------------------------
(***************************************************************************)
(* Type correctness; in particular a run that serves has recorded the      *)
(* recipients it encrypts for (DetectRotation).                            *)
(***************************************************************************)
THEOREM TypeCorrect == Spec => []TypeOK
<1>1. IInv => TypeOK
  <2> SUFFICES ASSUME IInv PROVE TypeOK
    OBVIOUS
  <2>1. ServiceInv /\ WorkerInv /\ LogInv /\ RestoreInv
    BY DEF IInv
  <2>2. \A i \in 1 .. Len(log) : log[i] \in EncryptedTrees /\ usedKeys[i] \in KeySets
    BY <2>1, ElementOfSeq DEF LogInv
  <2>3. /\ restore.stage \in {"off", "manifest", "decrypt", "done", "failed"}
        /\ restore.at \in 1 .. Len(Walk) + 1
        /\ restore.out \in Outputs /\ restore.before \in Outputs
    BY <2>1 DEF RestoreInv, Restores
  <2> QED BY <2>1, <2>2, <2>3 DEF TypeOK, ServiceInv, WorkerInv, LogInv
<1> QED BY <1>1, Invariance, PTL

(***************************************************************************)
(* A run that serves has reported a rotation exactly if the one before it  *)
(* served with another list of keys, whatever was edited, deleted or cut   *)
(* off in between, except for a start right after one that was cut off     *)
(* while it recorded or reported (DetectRotation).                         *)
(***************************************************************************)
THEOREM ReportsRotations == Spec => []RotationIsReported
<1>1. IInv => RotationIsReported
  BY DEF IInv, RotationInv, RotationIsReported
<1> QED BY <1>1, Invariance, PTL

(***************************************************************************)
(* A commit is refused only for what is in its own tree (an entry that     *)
(* cannot be extracted, its .encryptignore, a name that gets too long, a   *)
(* collision), whatever the runs and jobs before have left in <repo>.enc.  *)
(***************************************************************************)
THEOREM RefusesForItsTreeOnly == Spec => []RefusedForItsTree
<1>1. IInv => RefusedForItsTree
  BY DEF IInv, WorkerInv
<1> QED BY <1>1, Invariance, PTL

(***************************************************************************)
(* A restore that the service's writes cannot have touched fails only for  *)
(* a key that was no recipient of that commit, for what was in the output  *)
(* directory, or for the names that JSON or extractTar does not take.      *)
(***************************************************************************)
THEOREM RecipientsCanRestore == Spec => []EveryRecipientCanRestore
<1>1. IInv => EveryRecipientCanRestore
  BY DEF IInv, RestoreInv, Promised, Faithful, EveryRecipientCanRestore
<1> QED BY <1>1, Invariance, PTL

(***************************************************************************)
(* When it ends it has laid down what git archive made of the commit, less *)
(* what was ignored, files and links, over what the directory held, and    *)
(* nothing else, if JSON can express the commit's names.                   *)
(***************************************************************************)
THEOREM RestoresTheArchivedTree == Spec => []RestoreGivesArchivedTree
<1>1. IInv => RestoreGivesArchivedTree
  <2> SUFFICES ASSUME IInv, restore.stage = "done", Undisturbed, WellNamed(restore.commit),
                      \A x \in Places : restore.before[x] \notin Links
               PROVE  restore.out = Overlaid(restore.commit, restore.before)
    BY DEF RestoreGivesArchivedTree
  <2>1. Faithful /\ restore.at = Len(Walk) + 1 /\ source \in Histories
    BY DEF IInv, RestoreInv, ServiceInv, Promised
  <2>2. restore.commit \in Commits
    BY <2>1 DEF Faithful
  <2>3. NoLinkOpened
    BY <2>1, <2>2, Entries, PlacesOf DEF NoLinkOpened
  <2>4. restore.out = Laid(restore.commit, restore.before, restore.at)
    BY <2>1, <2>3 DEF Faithful
  <2>5. Laid(restore.commit, restore.before, Len(Walk) + 1) =
           Overlaid(restore.commit, restore.before)
    BY <2>1, <2>2, LaidAll
  <2> QED BY <2>1, <2>4, <2>5
<1> QED BY <1>1, Invariance, PTL
=============================================================================
