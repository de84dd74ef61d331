CONSTANTS
    d1 = d1  d2 = d2
    p1 = p1  p2 = p2  p3 = p3
    s1 = s1  s2 = s2
    r1 = r1  r2 = r2
    Original = Original  Foreign = Foreign  Created = Created  Torn = Torn
    Absent = Absent  Nil = Nil
    Targets <- MCTargets
    Docs = {d1, d2}
    Paths = {p1, p2, p3}
    Sets = {s1, s2}
    Requests = {r1, r2}
    Plans <- MCPlans
    MaxEdits = 1
    MaxFaults = 1
    ActionDocs = {Opened1, Opened2}
    Opened1 = Opened1
    Opened2 = Opened2
    Offers <- MCOffers
    Lists = {l1}
    Formats = {f1}
    MaxChanges = 1
SPECIFICATION MCSpec
CHECK_DEADLOCK FALSE
SYMMETRY MCSymmetry
INVARIANTS
    AllOrNothing
PROPERTIES
    ChangesAreFresh
    ProviderSawIt
