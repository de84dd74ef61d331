SPECIFICATION Spec
CONSTANTS
    Updates = {u1, u2}
    Undos = {d1}
    Windows = {w1}
    Values = {v0, v1, v2}
    Nil = Nil
    Limit = 2
    MaxEdits = 0
    MaxCrashes = 0
    MaxFailures = 0
CHECK_DEADLOCK FALSE
PROPERTIES UndoRestoresUnchanged
