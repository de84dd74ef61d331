SPECIFICATION FairSpec
CONSTANTS
    e1 = e1
    e2 = e2
    e3 = e3
    Exes = {e1}
    Version <- MCVersion
    Ops = {"install", "uninstall", "start", "stop", "restart"}
    Nil = Nil
    MaxBoots = 1
    MaxEdits = 1
    MaxIds = 1
    MaxFaults = 1
PROPERTIES LockReleased
