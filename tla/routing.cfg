SPECIFICATION Spec
CONSTANTS
    w1 = w1
    w2 = w2
    Nobody = Nobody
    Stranger = Stranger
    Repos <- ThreeRepos
    Unmirrorable <- RefusedRepos
    Branches = {"main", "dev"}
    Configs <- SevenConfigs
    Account <- Accounts
    TokenUser <- User
    Existing <- GitHubBefore
    NameCharacters <- Characters
    Workers = {w1, w2}
    MaxRetries = 1
    MaxPushes = 2
    MaxFaults = 1
    MaxRestarts = 1
SYMMETRY WorkerSymmetry
INVARIANTS
    TypeOK
PROPERTIES
    BackupsOnlyGrow
    SuccessIsBackedUp
    FailureHasAReason
    CreatesOnlyDestinations
CHECK_DEADLOCK FALSE
