SPECIFICATION MCSpec
CONSTANTS
    Calls = {c1, c2, c3}
    Names = {n1, n2}
    User = User
    Nil = Nil
    MaxEdits = 1
    MaxReloads = 1
    Text <- MCText
    NewTexts <- MCNewTexts
    MaxListed = 3
    MaxMessageBytes = 2
    MaxRaw = 5
    MaxChunkBytes = 2
    MaxChunks = 3
    MaxPaths = 2
    Undos = {d1}
    Windows = {w1}
    v0 = v0
    Limit = 2
    MaxCrashes = 1
    MaxFailures = 2
    Extensions = {e1, e2, e3}
    Needs <- MCNeeds
    e1 = e1
    e2 = e2
    e3 = e3
    Prepares = {p1}
    MaxGraph = 2
    MaxVersion = 2
    MaxReleases = 1
    MaxChanges = 1
    Handles = {h1}
    Runs = {n1, n2}
    MaxPrepared = 1
    MaxExecutions = 1
    ActivityLimit = 2
    Processes = {n1, n2}
    Sizes = {1, 2}
    MaxTotal = 4
    MaxActive = 3
    PruneInterval = 3
    MaxTracked = 2
    MaxFaults = 1
    MaxHeader = 2
    MaxResponse = 2
SYMMETRY Symmetric
CHECK_DEADLOCK FALSE
INVARIANTS
    ProvenanceTrue
    ReplacesOwnOnly
    ActivityTruthful
    ChangeIsKept
    InstallsAsPlanned
    SocketsReleased
    InsightsFit
    ChangesAreGuarded
    PreviewsAreApplied
    CutsDoNotMatter
    ValidationGrows
