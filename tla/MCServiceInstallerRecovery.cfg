SPECIFICATION FairSpec
CONSTANTS
    e1 = e1
    e2 = e2
    e3 = e3
    Exes = {e1, e2}
    Version <- MCVersion
    Ops = {"install"}
    Nil = Nil
    MaxBoots = 3
    MaxEdits = 0
    MaxIds = 1
    MaxFaults = 1
PROPERTIES Recovers
