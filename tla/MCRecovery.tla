----------------------------- MODULE MCRecovery -----------------------------
(***************************************************************************)
(* Histories for the runs of Recovery.  Each comes to a commit that cannot *)
(* be mirrored.  In the first, the first commit ignores a file whose name  *)
(* is too long and has a directory c.age, the second has a file c,         *)
(* converts a and leaves the link b out of archives, and the third a link  *)
(* to a path that is archived after it.  In the others files c and c.age   *)
(* precede a directory that is named as the manifest; a name is not UTF-8, *)
(* and then c and the directory c.age collide; a name ends in "." and the  *)
(* next one is too long; a name is not UTF-8 and becomes that of another,  *)
(* and then .encryptignore cannot be read.                                 *)
(***************************************************************************)
EXTENDS Recovery, TLC

CONSTANTS x1, x2, y1, y2, link, early, k1, k2

\* JSON makes E's name that of A.  git puts D, "manifest.json.", before the
\* directory "manifest.json", WalkDir after it.
I    == << <<".encryptignore">> >>
A    == << <<"a?">> >>
E    == << <<"a!">> >>
B    == << <<"b">> >>
C    == << <<"c">> >>
CAge == << <<"c", ".age">> >>
CDir == << <<"c", ".age">>, <<"d">> >>
L    == << <<"long">> >>
MDir == << <<"manifest.json">>, <<"d">> >>
D    == << <<"manifest.json.">> >>

PathOrder == <<I, A, E, B, C, CAge, CDir, L, MDir, D>>
GitOrder  == <<I, A, E, B, C, CAge, CDir, L, D, MDir>>
PathSet   == {PathOrder[k] : k \in 1 .. 10}

Targets == (link :> A) @@ (early :> MDir)

Tree(files) == files @@ [p \in PathSet |-> None]

First  == Tree((A :> x1) @@ (B :> link) @@ (CDir :> y2) @@ (L :> y1))
Second == Tree((A :> x2) @@ (B :> link) @@ (C :> y2))
FiveHistories ==
    {<<First, Second, Tree((MDir :> y1) @@ (D :> early))>>,
     <<Tree((C :> y2) @@ (CAge :> y1)), Tree(MDir :> y1), Tree(A :> x1)>>,
     <<Tree(E :> x2), Tree((C :> y2) @@ (CDir :> y1)), Tree(A :> x1)>>,
     <<Tree(D :> y1), Tree(L :> y1), Tree(A :> x1)>>,
     <<Tree((A :> x1) @@ (E :> x2)), Tree(I :> y1), Tree(A :> x1)>>}

ThreeCommits == 1 .. 3

\* Two commits that change two files, for the run that needs no more.
TwoCommits == 1 .. 2
PlainHistory == {<<Tree((A :> x1) @@ (C :> y1)), Tree((A :> x2) @@ (C :> y2))>>}
Nothing == << {}, {} >>

LinkUnexported == << {}, {B}, {} >>
SomeIgnored == << {L}, {}, {MDir} >>
LongLine == {<<I, y1>>}
SecondConvertsA ==
    [i \in Commits |-> [p \in PathSet |-> [c \in Contents |-> IF i = 2 /\ p = A THEN y2 ELSE c]]]
Unconverted == [i \in Commits |-> [p \in PathSet |-> [c \in Contents |-> c]]]
DNames == {D}
LNames == {L}
Replaced == [x \in PathSet \cup Links |-> IF x = E THEN A ELSE x]

\* One key, the other twice, and both.
ThreeLists == {(k1 :> 1) @@ (k2 :> 0), (k1 :> 0) @@ (k2 :> 2), (k1 :> 1) @@ (k2 :> 1)}
OneKeyLists == {l \in [Keys -> 0 .. 1] : l # NoKeys}

\* What git add staged matters to the commit only.
IndexlessView ==
    <<source, serviceVars, workerVars, worktree, IF stage = "commit" THEN index ELSE None,
      log, usedKeys, restoreVars, events>>
=============================================================================
