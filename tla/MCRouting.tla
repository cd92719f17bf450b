------------------------------ MODULE MCRouting ------------------------------
(***************************************************************************)
(* Three repositories, a-b/c, a/b-c and t/c, that collide in different     *)
(* ways under different configurations.                                    *)
(***************************************************************************)
EXTENDS Routing, TLC

CONSTANTS w1, w2

A  == <<"a">>
AB == <<"a", "-", "b">>
T  == <<"t">>
C  == <<"c">>
BC == <<"b", "-", "c">>
Org   == <<"o">>
User  == <<"u">>
Other == <<"v">>

ThreeRepos == {[owner |-> AB, name |-> C], [owner |-> A, name |-> BC], [owner |-> T, name |-> C]}
RefusedRepos == {[owner |-> T, name |-> C]}
Characters == {"a", "b", "c", "o", "p", "q", "t", "u", "v", "-"}
Accounts == (A :> "organization") @@ (T :> "organization") @@ (Org :> "organization")
            @@ (User :> "user") @@ (Other :> "user")

NoMap == [o \in {} |-> <<>>]
Conf(m, o, f, create) ==
    [ownerMap |-> m, owner |-> o, format |-> f, autoCreate |-> create, token |-> TRUE]

\* By source owner; merged with and without prefix; routed with an invalid
\* and a foreign entry; a format that Validate refuses; no autoCreate;
\* no token.
SevenConfigs == {
    Conf(NoMap, <<>>, "", TRUE),
    Conf(T :> User, Org, "{owner}-{repo}", TRUE),
    Conf(NoMap, Org, "{repo}", TRUE),
    Conf((T :> <<"t", "/">>) @@ (A :> Other), Org, "{repo}", TRUE),
    Conf(NoMap, Org, "{owner}/{repo}", TRUE),
    Conf(NoMap, Org, "{repo}", FALSE),
    [Conf(NoMap, <<>>, "", TRUE) EXCEPT !.token = FALSE]}

NoRepository == [d \in {} |-> Empty]
WithReadme == <<Org, C>> :> [b \in Branches |->
    IF b = "main" THEN [by |-> Stranger, upTo |-> 1] ELSE [by |-> Nobody, upTo |-> 0]]
GitHubBefore == {NoRepository, (<<Other, BC>> :> Empty) @@ WithReadme}

WorkerSymmetry == Permutations({w1, w2})
=============================================================================
