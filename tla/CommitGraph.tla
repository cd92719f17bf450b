---------------------------- MODULE CommitGraph ----------------------------
(***************************************************************************)
(* The commits of one source repository, and the only two things the       *)
(* service asks git about them: which commits a commit reaches, and in     *)
(* which order `git rev-list --reverse` lists a range                      *)
(* (internal/git/history.go, ListCommits).                                 *)
(***************************************************************************)
EXTENDS Naturals, Sequences, FiniteSets

CONSTANTS
    Commits,        \* the commits that are ever pushed to the source
    Parents,        \* Parents[c]: the parents of c
    Ancestors,      \* Ancestors[c]: what c reaches, c included
    Date,           \* Date[c]: the committer date, which git orders by
    None            \* no commit: an absent branch, an absent trailer

ASSUME CommitGraphAssumption ==
    /\ None \notin Commits
    /\ Parents \in [Commits -> SUBSET Commits]
    /\ Ancestors \in [Commits -> SUBSET Commits]
    /\ Date \in [Commits -> Nat]
    /\ \A c \in Commits :
          /\ IsFiniteSet(Ancestors[c])
          /\ Ancestors[c] = {c} \cup UNION {Ancestors[p] : p \in Parents[c]}
          /\ \A d \in Ancestors[c] : Ancestors[d] \subseteq Ancestors[c]
          /\ \A p \in Parents[c] : c \notin Ancestors[p]

(***************************************************************************)
(* The hypothesis under which rev-list is a topological order: a commit is *)
(* dated strictly after everything it reaches.  Git does not enforce it    *)
(* (a rebase or a script stamps many commits with one second).             *)
(***************************************************************************)
StrictDates ==
    \A c \in Commits : \A d \in Ancestors[c] \ {c} : Date[d] < Date[c]

Reach(heads) == UNION {Ancestors[c] : c \in heads \ {None}}

\* Listed newest first whatever the dates: the mutant of RevListOrders that
\* drops --reverse.
NewestFirstOrders(range) ==
    {s \in [1 .. Cardinality(range) -> range] :
        /\ {s[i] : i \in DOMAIN s} = range
        /\ \A i, j \in DOMAIN s : i < j => s[i] \notin Ancestors[s[j]]}

(***************************************************************************)
(* The orders in which `rev-list --reverse` may list a range.  rev-list    *)
(* always takes the newest commit of a queue that a commit enters when its *)
(* first child is taken.  Reversed: a commit is listed before something it *)
(* reaches only if, from the tip down to it, some commit is dated no later *)
(* than what was taken first; and every commit but the tip is listed       *)
(* before one of its children.  What ties and dates that run backwards     *)
(* leave open is git's choice.                                             *)
(***************************************************************************)
RevListOrders(range) ==
    {s \in [1 .. Cardinality(range) -> range] :
        /\ {s[i] : i \in DOMAIN s} = range
        /\ \A i, j \in DOMAIN s :
              i < j /\ s[j] \in Ancestors[s[i]] =>
                 \E e \in range : s[i] \in Ancestors[e] /\ Date[e] <= Date[s[j]]
        /\ \A i \in DOMAIN s \ {Cardinality(range)} :
              \E j \in DOMAIN s : i < j /\ s[i] \in Parents[s[j]]}

(***************************************************************************)
(* A list of commits is ancestor-closed if whatever a commit reaches is    *)
(* listed no later than the commit itself.                                 *)
(***************************************************************************)
AncestorClosed(h) ==
    \A i \in 1 .. Len(h) : \A d \in Ancestors[h[i]] : \E k \in 1 .. i : h[k] = d

Listed(h) == {h[i] : i \in 1 .. Len(h)}
=============================================================================
