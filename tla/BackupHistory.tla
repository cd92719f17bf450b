--------------------------- MODULE BackupHistory ---------------------------
(***************************************************************************)
(* What the mirror promises for one repository, with no workers, caches,   *)
(* retries or restarts in sight: an append-only history of mirrored        *)
(* commits in which nothing precedes its ancestors, which can be lost only *)
(* as a whole, remote branches that only ever move forward along it, and a *)
(* push that is reported as mirrored only when everything it reaches is on *)
(* its remote branch.                                                      *)
(***************************************************************************)
EXTENDS CommitGraph

CONSTANT Branches

VARIABLES
    history,        \* the source commits mirrored so far, oldest first
    published,      \* published[b]: the part of it that branch b shows remotely
    acknowledged    \* <<branch, commit>> of the pushes reported as mirrored

vars == <<history, published, acknowledged>>

Init ==
    /\ history = <<>>
    /\ published = [b \in Branches |-> <<>>]
    /\ acknowledged = {}

IsInitialPart(s, t) ==
    /\ Len(s) <= Len(t)
    /\ \A i \in 1 .. Len(s) : s[i] = t[i]

\* One more commit is mirrored; everything it reaches already is.
MirrorCommit(c) ==
    /\ Ancestors[c] \ {c} \subseteq Listed(history)
    /\ history' = Append(history, c)
    /\ UNCHANGED <<published, acknowledged>>

\* The remote branch catches up with the history, and so only moves forward.
Publish(b) ==
    /\ IsInitialPart(published[b], history)
    /\ published' = [published EXCEPT ![b] = history]
    /\ UNCHANGED <<history, acknowledged>>

\* The push of c to b is reported as mirrored, and is.
Acknowledge(b, c) ==
    /\ Ancestors[c] \subseteq Listed(history)
    /\ IsInitialPart(published[b], history)
    /\ published' = [published EXCEPT ![b] = history]
    /\ acknowledged' = acknowledged \cup {<<b, c>>}
    /\ UNCHANGED history

\* The local copy is lost; what is published stays.
LoseHistory ==
    /\ history' = <<>>
    /\ UNCHANGED <<published, acknowledged>>

Next ==
    \/ \E c \in Commits : MirrorCommit(c)
    \/ \E b \in Branches : Publish(b)
    \/ \E b \in Branches, c \in Commits : Acknowledge(b, c)
    \/ LoseHistory

Spec == Init /\ [][Next]_vars

(***************************************************************************)
(* The consequences a user relies on.                                      *)
(***************************************************************************)

\* No commit is mirrored before something it reaches.
HistoryClosed == AncestorClosed(history)

\* No branch shows a commit without something it reaches.
PublishedClosed == \A b \in Branches : AncestorClosed(published[b])

\* No branch ever loses a commit it has shown.
PublishedOnlyGrows ==
    [][\A b \in Branches : IsInitialPart(published[b], published'[b])]_vars

\* A push reported as mirrored is wholly on its remote branch.
AcknowledgedIsPublished ==
    \A a \in acknowledged : Ancestors[a[2]] \subseteq Listed(published[a[1]])
=============================================================================
