CONSTANTS
    Nil = Nil
    MaxPolicyChanges = 3
    MaxFolders = 2
    MaxProbes = 1
    MaxFailures = 2
    c1 = c1  c2 = c2
    Calls = {c1, c2}
    Offered <- MCOffered
    MaxStops = 1
    MaxErrors = 1
SPECIFICATION MCSpec
CHECK_DEADLOCK FALSE
INVARIANTS
    FollowsPolicy
    OnlyOverlapped
    EntryTruthful
PROPERTIES
    EveryRunEnds
    ImplementsRemoteCall
    EveryCallEnds
