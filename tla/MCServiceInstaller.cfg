SPECIFICATION Spec
CONSTANTS
    e1 = e1
    e2 = e2
    e3 = e3
    Exes = {e1, e2}
    Version <- MCVersion
    Ops = {"install", "uninstall", "start", "stop", "restart"}
    Nil = Nil
    MaxBoots = 2
    MaxEdits = 1
    MaxIds = 1
    MaxFaults = 1
INVARIANTS Settled NoDangling
PROPERTIES AtomicCommit EditsSurvive
