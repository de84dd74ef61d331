CONSTANTS
    c1 = c1  c2 = c2  c3 = c3
    s1 = s1  s2 = s2
    i1 = i1  i2 = i2
    None = None
    ErrorReply = ErrorReply
    Calls = {c1, c2, c3}
    Sessions = {s1}
    Ids = {i1, i2}
    MaxSessions = 1
    MaxPerSession = 2
    MaxGlobal = 2
    ReuseIds = FALSE
SPECIFICATION Spec
CHECK_DEADLOCK FALSE
SYMMETRY MCSymmetry
INVARIANTS
    Accounting
    CloseReachesOperations
PROPERTIES
    AnsweredOnce
    
