CONSTANTS
    t1 = t1
    e1 = e1  e2 = e2  e3 = e3
    Nil = Nil
    Terminals = {t1}
    Executions = {e1, e2, e3}
    Width <- MCWidth
    ExecutionBytes = 3
    WindowBytes = 4
    PageChars = 1
    MaxTotal = 3
    MaxPolicies = 1
SPECIFICATION Spec
CHECK_DEADLOCK FALSE
SYMMETRY MCSymmetry
INVARIANTS
    MemoryBounded
    OutputIsWhole
    Private
