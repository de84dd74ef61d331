------------------------- MODULE MCServiceInstaller -------------------------
EXTENDS ServiceInstaller

CONSTANTS e1, e2, e3

\* Two releases, the second in two builds.
MCVersion == [e \in Exes |-> IF e = e1 THEN 1 ELSE 2]
=============================================================================
