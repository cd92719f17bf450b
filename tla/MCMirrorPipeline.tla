-------------------------- MODULE MCMirrorPipeline --------------------------
(***************************************************************************)
(* Small commit graphs and message choices for the runs of MirrorPipeline. *)
(***************************************************************************)
EXTENDS MirrorPipeline, TLC

CONSTANTS c1, c2, c3, c4, w1, w2

\* A branch with no merges: c1 <- c2 <- c3.
ChainCommits == {c1, c2, c3}
ChainParents == (c1 :> {}) @@ (c2 :> {c1}) @@ (c3 :> {c2})
ChainAncestors == (c1 :> {c1}) @@ (c2 :> {c1, c2}) @@ (c3 :> {c1, c2, c3})
ChainDate == (c1 :> 1) @@ (c2 :> 2) @@ (c3 :> 3)

\* Two branches that part at c1: c2 and c3 are both children of c1.
ForkParents == (c1 :> {}) @@ (c2 :> {c1}) @@ (c3 :> {c1})
ForkAncestors == (c1 :> {c1}) @@ (c2 :> {c1, c2}) @@ (c3 :> {c1, c3})

\* The fork and its merge: c4 merges c2 and c3.
MergeCommits == {c1, c2, c3, c4}
MergeParents == ForkParents @@ (c4 :> {c2, c3})
MergeAncestors == ForkAncestors @@ (c4 :> {c1, c2, c3, c4})
MergeDate == ChainDate @@ (c4 :> 4)

\* No message mentions Source-Commit.
PlainChain == [c \in ChainCommits |-> NoMention]
PlainMerge == [c \in MergeCommits |-> NoMention]

\* The last commit's message has a trailer that names no object.
StrayChain == [PlainChain EXCEPT ![c3] = NoObject]

\* Messages that do no harm: c2's holds "Source-Commit:" where git reads
\* no trailer, c3's was copied together with the trailer of its parent.
QuotingMerge == [PlainMerge EXCEPT ![c2] = None, ![c3] = c1]

WorkerSymmetry == Permutations(Workers)
PoolSymmetry == Permutations(Workers) \cup Permutations(Branches)

\* Trees steer nothing: the runs that check no property of trees leave them
\* out of the states they tell apart.
TreelessView ==
    <<srcRef, jobs, bare, objs, refLock, enc, Sources(log), indexLock, era,
      pushEnabled, ghExists,
      [b \in Branches |-> Sources(remote[b])],
      stage, current, commits, next, faults, restarts>>

\* The environment of the run satisfies the hypotheses the README names.
ASSUME StrictDates /\ NoForeignTrailers
=============================================================================
