SPECIFICATION MCSpec
CONSTANTS
    Calls = {c1, c2}
    Ids = {i1}
    None = None
    MaxEvents = 3
    MaxControls = 1
    MaxSessions = 2
    MaxCaptures = 3
    Names = {n1, n2}
    Nil = Nil
    User = User
    MaxEdits = 1
    SessionBytes = 3
    WindowBytes = 4
    ReadChars = 1
    MaxChunk = 2
    MaxOutputs = 2
    MaxPrepared = 2
    MaxVersions = 3
    MaxKept = 2
    MaxReads = 3
    MaxHours = 2
    Documents = {n1, n2}
    Inside = {}
    MaxGrants = 2
    TTL = 1
    Visible = 1
    MaxLocations = 2
    MaxTime = 1
SYMMETRY Symmetric
CHECK_DEADLOCK FALSE
INVARIANTS
    
    StartsArePaired
    ApprovedRuns
    FollowedInFull
    OutputAccounted
    GrantsHold
