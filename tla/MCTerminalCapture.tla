------------------------- MODULE MCTerminalCapture -------------------------
(* TerminalCapture on a small instance: every third character is two bytes wide. *)
EXTENDS TerminalCapture, TLC

CONSTANTS t1, e1, e2, e3

MCWidth == [n \in 0..MaxTotal |-> IF n % 3 = 1 THEN 2 ELSE 1]

MCSymmetry == Permutations(Terminals) \cup Permutations(Executions)
=============================================================================
