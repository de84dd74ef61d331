------------------------------- MODULE Filters -------------------------------
(***************************************************************************)
(* Array.prototype.filter, with the set of the elements that stay in place *)
(* of a predicate.  SelectSeq of the standard module says the same; this   *)
(* is a recursive function, of which proofs can say what it computes.      *)
(***************************************************************************)
EXTENDS Naturals, Sequences

Where(s, stay) ==
    LET kept[n \in 0..Len(s)] ==
            IF n = 0 THEN <<>>
            ELSE IF s[n] \in stay THEN Append(kept[n - 1], s[n]) ELSE kept[n - 1]
    IN kept[Len(s)]
=============================================================================
