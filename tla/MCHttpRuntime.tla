--------------------------- MODULE MCHttpRuntime ---------------------------
(* HttpRuntime on small instances. *)
EXTENDS HttpRuntime, TLC

CONSTANTS c1, c2, c3, s1, s2, i1, i2

\* Not for the liveness run, where symmetry is unsound.
MCSymmetry == Permutations(Calls) \cup Permutations(Sessions) \cup Permutations(Ids)
=============================================================================
