------------------------------- MODULE Routing -------------------------------
(***************************************************************************)
(* Where the backups of many Forgejo repositories go on GitHub: the        *)
(* routing of internal/config/config.go, the GitHub client that creates    *)
(* what is missing (internal/github/client.go), and the half of the job    *)
(* handler that uses both (cmd/mirror/main.go).  The operator may change   *)
(* the configuration whenever the service restarts.                        *)
(*                                                                         *)
(* Data: a name is a sequence of characters.  Every repository has linear  *)
(* history, commit n being its n-th; how it becomes encrypted history is   *)
(* MirrorPipeline's subject, and one step per commit here.  So is what     *)
(* stops that for good, a commit that cannot be mirrored or what a killed  *)
(* command leaves in the cache: here a repository just gets stuck.  The    *)
(* cache itself is not lost.                                               *)
(***************************************************************************)
EXTENDS Naturals, Sequences

CONSTANTS
    Repos,          \* the Forgejo repositories, [owner, name]
    Branches,
    Unmirrorable,   \* the repositories with a commit that mirroring refuses
    Configs,        \* what the operator may write into config.yaml
    Account,        \* GitHub: Account[o] is "organization" or "user"
    TokenUser,      \* GitHub: the account github.token belongs to
    Existing,       \* GitHub: what may exist before the service runs
    Nobody,         \* the owner of an empty branch
    Stranger,       \* the owner of a branch the service did not write
    NameCharacters, \* nameRE: what a name may consist of
    Workers,
    MaxRetries,     \* NewPool: 3
    MaxPushes,      \* bound: pushes by users
    MaxFaults,      \* bound: failures of requests and commands
    MaxRestarts     \* bound: restarts of the service

ASSUME RoutingAssumption ==
    /\ Unmirrorable \subseteq Repos
    /\ Nobody \notin Repos /\ Stranger \notin Repos /\ Nobody # Stranger
    /\ \A g \in Existing : \A d \in DOMAIN g :
          g[d] \in [Branches -> [by : {Nobody, Stranger}, upTo : Nat]]
    /\ TokenUser \in DOMAIN Account /\ Account[TokenUser] = "user"
    /\ MaxRetries \in Nat /\ MaxPushes \in Nat /\ MaxFaults \in Nat /\ MaxRestarts \in Nat

VARIABLES
    config,
    source,         \* Forgejo: how many commits each repository has
    enc,            \* <repo>.enc: how many of them are encrypted
    stuck,          \* the repositories whose mirroring may fail every time
    github,         \* GitHub: its repositories, and who wrote how much of each branch
    jobs,
    stage, current, \* each worker
    dest,           \* each worker: ghOwner and ghRepo
    faults, restarts

workerVars == <<stage, current, dest>>
vars == <<config, source, enc, stuck, github, jobs, workerVars, faults, restarts>>

-----------------------------------------------------------------------------
(***************************************************************************)
(* GitHubDestination.                                                      *)
(***************************************************************************)
ValidateName(n) ==
    /\ n \notin {<<>>, <<".">>, <<".", ".">>}
    /\ \A i \in 1 .. Len(n) : n[i] \in NameCharacters

MappedOwner(c, o) ==
    IF o \in DOMAIN c.ownerMap /\ c.ownerMap[o] # <<>> THEN c.ownerMap[o]
    ELSE IF c.owner # <<>> THEN c.owner ELSE o

\* NewReplacer(...).Replace(format), for the formats configured here.
Expand(format, o, r) ==
    CASE format \in {"", "{repo}"} -> r
      [] format = "{owner}-{repo}" -> o \o <<"-">> \o r
      [] format = "{owner}/{repo}" -> o \o <<"/">> \o r

Destination(c, r) == <<MappedOwner(c, r.owner), Expand(c.format, r.owner, r.name)>>

Routable(c, r) ==
    /\ ValidateName(r.owner) /\ ValidateName(r.name)
    /\ \A i \in {1, 2} : ValidateName(Destination(c, r)[i])

\* Validate looks at one made-up repository, and not at ownerMap's values.
Placeholder == [owner |-> <<"p">>, name |-> <<"q">>]
Validate(c) == Routable(c, Placeholder)

Usable == {c \in Configs : Validate(c)}

-----------------------------------------------------------------------------
Empty == [b \in Branches |-> [by |-> Nobody, upTo |-> 0]]

Init ==
    /\ config \in Usable
    /\ source = [r \in Repos |-> 0] /\ enc = [r \in Repos |-> 0] /\ stuck = Unmirrorable
    /\ github \in Existing
    /\ jobs = <<>>
    /\ stage = [w \in Workers |-> "idle"]
    /\ current = [w \in Workers |-> 0]
    /\ dest = [w \in Workers |-> <<>>]
    /\ faults = 0 /\ restarts = 0

Job(w) == jobs[current[w]]

Push(r, b) ==
    /\ Len(jobs) < MaxPushes
    /\ source' = [source EXCEPT ![r] = @ + 1]
    /\ jobs' = Append(jobs, [repo |-> r, branch |-> b, commit |-> source[r] + 1,
                             attempts |-> 0, state |-> "queued"])
    /\ UNCHANGED <<config, enc, stuck, github, workerVars, faults, restarts>>

Goto(w, s) == stage' = [stage EXCEPT ![w] = s] /\ UNCHANGED <<current, dest>>

Leave(w) ==
    /\ stage' = [stage EXCEPT ![w] = "idle"]
    /\ current' = [current EXCEPT ![w] = 0]
    /\ dest' = [dest EXCEPT ![w] = <<>>]

AfterError(job) ==
    [job EXCEPT !.attempts = job.attempts + 1,
                !.state = IF job.attempts + 1 > MaxRetries THEN "failed" ELSE "queued"]

JobError(w) ==
    /\ jobs' = [jobs EXCEPT ![current[w]] = AfterError(Job(w))]
    /\ Leave(w)

Succeed(w) ==
    /\ jobs' = [jobs EXCEPT ![current[w]].state = "succeeded"]
    /\ Leave(w)

TakeJob(w) ==
    /\ stage[w] = "idle"
    /\ \E j \in 1 .. Len(jobs) :
          /\ jobs[j].state = "queued"
          /\ jobs' = [jobs EXCEPT ![j].state = "running"]
          /\ current' = [current EXCEPT ![w] = j]
    /\ stage' = [stage EXCEPT ![w] = "mirror"]
    /\ UNCHANGED <<config, source, enc, stuck, github, dest, faults, restarts>>

\* Mutant of Mirror: a job for an older commit cuts the history back.
MirrorCutsBack(w) ==
    /\ stage[w] = "mirror"
    /\ enc' = [enc EXCEPT ![Job(w).repo] = Job(w).commit]
    /\ Goto(w, "route")
    /\ UNCHANGED <<config, source, stuck, github, jobs, faults, restarts>>

\* One commit more, until this job's commit is encrypted.
Mirror(w) ==
    /\ stage[w] = "mirror"
    /\ \/ /\ enc[Job(w).repo] < Job(w).commit
          /\ enc' = [enc EXCEPT ![Job(w).repo] = @ + 1]
          /\ UNCHANGED workerVars
       \/ /\ enc[Job(w).repo] >= Job(w).commit
          /\ Goto(w, "route") /\ UNCHANGED enc
    /\ UNCHANGED <<config, source, stuck, github, jobs, faults, restarts>>

(***************************************************************************)
(* Another worker is in the same git directories (index.lock, the locks of *)
(* the mirror's refs, a clone into one directory), or pushes to the same   *)
(* branch (GitHub's lock of that ref).                                     *)
(***************************************************************************)
Contended(w) ==
    \E v \in Workers \ {w} :
        /\ stage[v] = stage[w]
        /\ \/ stage[w] = "mirror" /\ Job(v).repo = Job(w).repo
           \/ stage[w] = "push" /\ dest[v] = dest[w] /\ Job(v).branch = Job(w).branch

\* git fails, though no command or request fails by itself.
GitRefuses(w) ==
    /\ \/ stage[w] \in {"mirror", "push"} /\ Contended(w)
       \/ stage[w] = "mirror" /\ Job(w).repo \in stuck
    /\ JobError(w)
    /\ UNCHANGED <<config, source, enc, stuck, github, faults, restarts>>

\* Without github.token the handler ends here, and nothing is pushed.
Route(w) ==
    /\ stage[w] = "route"
    /\ \/ ~config.token /\ Succeed(w)
       \/ /\ config.token /\ Routable(config, Job(w).repo)
          /\ dest' = [dest EXCEPT ![w] = Destination(config, Job(w).repo)]
          /\ stage' = [stage EXCEPT ![w] = IF config.autoCreate THEN "check" ELSE "push"]
          /\ UNCHANGED <<jobs, current>>
       \/ config.token /\ ~Routable(config, Job(w).repo) /\ JobError(w)
    /\ UNCHANGED <<config, source, enc, stuck, github, faults, restarts>>

\* Mutant of RepositoryExists: a 404 is an error like any other.
RepositoryExistsOrFails(w) ==
    /\ stage[w] = "check"
    /\ \/ dest[w] \in DOMAIN github /\ Goto(w, "push") /\ UNCHANGED jobs
       \/ dest[w] \notin DOMAIN github /\ JobError(w)
    /\ UNCHANGED <<config, source, enc, stuck, github, faults, restarts>>

RepositoryExists(w) ==
    /\ stage[w] = "check"
    /\ Goto(w, IF dest[w] \in DOMAIN github THEN "push" ELSE "create")
    /\ UNCHANGED <<config, source, enc, stuck, github, jobs, faults, restarts>>

(***************************************************************************)
(* CreateRepository: the type of the owner's account decides the endpoint; *)
(* the one for users creates under the token's user, whoever was named.    *)
(***************************************************************************)
\* Mutant of Created: one endpoint for every account.
CreatedForTokenUser(d) == <<TokenUser, d[2]>>

Created(d) == IF Account[d[1]] = "organization" THEN d ELSE <<TokenUser, d[2]>>

\* 404 for an unknown owner, 422 for a name that is taken.
CanCreate(d) == d[1] \in DOMAIN Account /\ Created(d) \notin DOMAIN github

WithCreated(d) ==
    [x \in DOMAIN github \cup {Created(d)} |-> IF x \in DOMAIN github THEN github[x] ELSE Empty]

CreateRepository(w) ==
    /\ stage[w] = "create"
    /\ \/ CanCreate(dest[w]) /\ github' = WithCreated(dest[w]) /\ Goto(w, "push") /\ UNCHANGED jobs
       \/ ~CanCreate(dest[w]) /\ JobError(w) /\ UNCHANGED github
    /\ UNCHANGED <<config, source, enc, stuck, faults, restarts>>

\* The remote branch fast-forwards to this repository's encrypted HEAD.
FastForwards(w) ==
    /\ dest[w] \in DOMAIN github
    /\ LET head == github[dest[w]][Job(w).branch] IN
          head.by = Nobody \/ (head.by = Job(w).repo /\ head.upTo <= enc[Job(w).repo])

Pushed(w) ==
    [github EXCEPT ![dest[w]][Job(w).branch] =
        [by |-> Job(w).repo, upTo |-> enc[Job(w).repo]]]

\* Mutant of PushWorkingRepo: a refused push counts as done.
PushWorkingRepoIgnoresRefusal(w) ==
    /\ stage[w] = "push"
    /\ Succeed(w)
    /\ github' = IF FastForwards(w) THEN Pushed(w) ELSE github
    /\ UNCHANGED <<config, source, enc, stuck, faults, restarts>>

\* Mutant of PushWorkingRepo: the push is forced.
PushWorkingRepoForced(w) ==
    /\ stage[w] = "push"
    /\ \/ dest[w] \in DOMAIN github /\ Succeed(w) /\ github' = Pushed(w)
       \/ dest[w] \notin DOMAIN github /\ JobError(w) /\ UNCHANGED github
    /\ UNCHANGED <<config, source, enc, stuck, faults, restarts>>

PushWorkingRepo(w) ==
    /\ stage[w] = "push"
    /\ \/ FastForwards(w) /\ Succeed(w) /\ github' = Pushed(w)
       \/ ~FastForwards(w) /\ JobError(w) /\ UNCHANGED github
    /\ UNCHANGED <<config, source, enc, stuck, faults, restarts>>

(***************************************************************************)
(* Any command or request may fail, also after GitHub has done it; one     *)
(* that is killed may leave the repository stuck.                          *)
(***************************************************************************)
Fault(w) ==
    /\ stage[w] \notin {"idle", "route"} /\ faults < MaxFaults
    /\ faults' = faults + 1
    /\ JobError(w)
    /\ \/ UNCHANGED github
       \/ stage[w] = "create" /\ CanCreate(dest[w]) /\ github' = WithCreated(dest[w])
       \/ stage[w] = "push" /\ FastForwards(w) /\ github' = Pushed(w)
    /\ \/ UNCHANGED stuck
       \/ stage[w] = "mirror" /\ stuck' = stuck \cup {Job(w).repo}
    /\ UNCHANGED <<config, source, enc, restarts>>

\* The queue and the workers are lost; the operator may have edited the file.
Restart ==
    /\ restarts < MaxRestarts
    /\ restarts' = restarts + 1
    /\ config' \in Usable
    /\ jobs' = [j \in 1 .. Len(jobs) |->
                  IF jobs[j].state \in {"queued", "running"}
                  THEN [jobs[j] EXCEPT !.state = "lost"] ELSE jobs[j]]
    /\ stage' = [w \in Workers |-> "idle"]
    /\ current' = [w \in Workers |-> 0]
    /\ dest' = [w \in Workers |-> <<>>]
    /\ \E killed \in SUBSET {w \in Workers : stage[w] = "mirror"} :
          stuck' = stuck \cup {Job(w).repo : w \in killed}
    /\ UNCHANGED <<source, enc, github, faults>>

Next ==
    \/ \E r \in Repos, b \in Branches : Push(r, b)
    \/ \E w \in Workers :
          \/ TakeJob(w) \/ Mirror(w) \/ GitRefuses(w) \/ Route(w)
          \/ RepositoryExists(w) \/ CreateRepository(w) \/ PushWorkingRepo(w)
          \/ Fault(w)
    \/ Restart

Spec == Init /\ [][Next]_vars

-----------------------------------------------------------------------------
Jobs == [repo : Repos, branch : Branches, commit : 1 .. MaxPushes,
         attempts : 0 .. MaxRetries + 1,
         state : {"queued", "running", "succeeded", "failed", "lost"}]
Stages == {"idle", "mirror", "route", "check", "create", "push"}
Writers == Repos \cup {Nobody, Stranger}

(***************************************************************************)
(* Type invariant.  Not mere typing: no branch on GitHub is ahead of what  *)
(* is encrypted, and nothing is encrypted that was not pushed.             *)
(***************************************************************************)
TypeOK ==
    /\ config \in Usable
    /\ source \in [Repos -> 0 .. MaxPushes]
    /\ \A r \in Repos : enc[r] \in 0 .. source[r]
    /\ stuck \subseteq Repos
    /\ \A d \in DOMAIN github :
          /\ github[d] \in [Branches -> [by : Writers, upTo : Nat]]
          /\ \A b \in Branches :
                github[d][b].by \in Repos => github[d][b].upTo <= enc[github[d][b].by]
    /\ jobs \in Seq(Jobs)
    /\ stage \in [Workers -> Stages]
    /\ current \in [Workers -> Nat]
    /\ \A w \in Workers : stage[w] # "idle" => current[w] \in 1 .. Len(jobs)
    /\ faults \in 0 .. MaxFaults /\ restarts \in 0 .. MaxRestarts

(***************************************************************************)
(* Whatever the configuration, and however it changes, no repository's     *)
(* backup (and nothing a stranger keeps on GitHub) is overwritten by that  *)
(* of another one that is routed to the same place, nor cut back by its    *)
(* own (PushWorkingRepo, which never forces).                              *)
(***************************************************************************)
BackupsOnlyGrow ==
    [][\A d \in DOMAIN github : d \in DOMAIN github' /\ \A b \in Branches :
          LET old == github[d][b]
              new == github'[d][b]
          IN  old.by # Nobody => new.by = old.by /\ new.upTo >= old.upTo]_vars

(***************************************************************************)
(* With a token, a job succeeds only if its commit is now on its branch,   *)
(* written by its own repository, at the place where its configuration     *)
(* sends it, however many repositories share that place, and whether or    *)
(* not a creation or an earlier push was half done (handler,               *)
(* GitHubDestination, Push).                                               *)
(***************************************************************************)
BackedUp(job) ==
    LET d == Destination(config, job.repo) IN
        /\ d \in DOMAIN github'
        /\ github'[d][job.branch].by = job.repo
        /\ github'[d][job.branch].upTo >= job.commit

SuccessIsBackedUp ==
    [][config.token => \A j \in 1 .. Len(jobs) :
          jobs[j].state # "succeeded" /\ jobs'[j].state = "succeeded" => BackedUp(jobs[j])]_vars

(***************************************************************************)
(* An attempt fails, if no command or request failed by itself, only for   *)
(* one of three kinds of reasons: a lasting one in the configuration or on *)
(* GitHub (no valid name; no repository can be made there, for autoCreate  *)
(* is off, or the account is unknown or another user's; another backup or  *)
(* a stranger's commit has the branch); a repository that is stuck; or     *)
(* another worker, in the same place at this moment or the first to create *)
(* the destination.  In particular a lost answer, a repository that does   *)
(* not exist yet, what an earlier attempt left, or a change of the         *)
(* configuration are no reasons (handler, EnsureRepository, Push).         *)
(***************************************************************************)
OutOfReach(d) ==
    /\ d \notin DOMAIN github
    /\ \/ ~config.autoCreate
       \/ d[1] \notin DOMAIN Account
       \/ Account[d[1]] # "organization" /\ d[1] # TokenUser

Taken(d, b, r) == d \in DOMAIN github /\ github[d][b].by \notin {r, Nobody}

LastingReason(job) ==
    /\ config.token
    /\ LET d == Destination(config, job.repo) IN
          ~Routable(config, job.repo) \/ OutOfReach(d) \/ Taken(d, job.branch, job.repo)

CreatedByAnother(w) == stage[w] = "create" /\ dest[w] \in DOMAIN github

Reason(w) ==
    \/ LastingReason(Job(w)) \/ Job(w).repo \in stuck
    \/ Contended(w) \/ CreatedByAnother(w)

FailureHasAReason ==
    [][faults' = faults => \A w \in Workers :
          stage[w] # "idle" /\ jobs'[current[w]].attempts > Job(w).attempts => Reason(w)]_vars

(***************************************************************************)
(* The service creates repositories only where some repository is sent, as *)
(* long as ownerMap and github.owner name the token's user or              *)
(* organizations (CreateRepository's comment, client.go:151-153).          *)
(***************************************************************************)
NoOtherUser ==
    \A r \in Repos : LET o == MappedOwner(config, r.owner) IN
        o \in DOMAIN Account => Account[o] = "organization" \/ o = TokenUser

CreatesOnlyDestinations ==
    [][NoOtherUser => \A d \in DOMAIN github' \ DOMAIN github :
          \E r \in Repos : d = Destination(config, r)]_vars
=============================================================================
