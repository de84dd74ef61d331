CONSTANTS
    Calls = {c1}
    Names = {n1}
    MaxPrepared = 2
    TTL = 1
    MaxVersions = 3
    MaxTime = 1
SPECIFICATION Spec
CHECK_DEADLOCK FALSE
INVARIANT RefusedIsChanged
