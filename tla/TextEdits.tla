----------------------------- MODULE TextEdits -----------------------------
(***************************************************************************)
(* The text of a prepared change set: which lists of edits                 *)
(* change-set-manager.ts accepts for one document, and the text whose hash *)
(* the caller approves, against what VS Code makes of the same edits.      *)
(* A position is an offset, a text is a sequence.                          *)
(***************************************************************************)
EXTENDS Naturals, Sequences, SequencesExt

CONSTANTS Text, NewTexts, MaxListed

Edits == {e \in [start : 0..Len(Text), end : 0..Len(Text), newText : NewTexts] : e.start <= e.end}

\* Array.prototype.sort, which is stable, by where the edits start
Sorted(edits, fromTheFront) ==
    LET Earlier(e, f) == IF fromTheFront THEN e.start < f.start ELSE e.start > f.start
        order == SetToSortSeq(DOMAIN edits,
                    LAMBDA m, n : \/ Earlier(edits[m], edits[n])
                                  \/ ~ Earlier(edits[n], edits[m]) /\ m < n)
    IN [n \in DOMAIN edits |-> edits[order[n]]]

\* assertNonOverlapping
NonOverlappingEdits(edits) ==
    LET sorted == Sorted(edits, TRUE)
    IN \A n \in 2..Len(edits) : sorted[n - 1].end <= sorted[n].start

Replaced(text, e) == SubSeq(text, 1, e.start) \o e.newText \o SubSeq(text, e.end + 1, Len(text))

\* Mutant: the edits are carried out from the front.
AppliedForwards(edits) == FoldLeft(Replaced, Text, Sorted(edits, TRUE))
\* applyTextEdits: from the back, with the offsets of the unedited text.
ApplyTextEdits(edits) == FoldLeft(Replaced, Text, Sorted(edits, FALSE))

\* VS Code: at each position the insertions, in their order, then the replacement that
\* starts there; then the character, unless a replacement covers it.
Written(edits, p) ==
    LET at(Choice(_)) == SelectSeq(edits, LAMBDA e : e.start = p /\ Choice(e))
        texts(es) == FlattenSeq([n \in DOMAIN es |-> es[n].newText])
        covered == \E n \in DOMAIN edits : edits[n].start <= p /\ p < edits[n].end
    IN texts(at(LAMBDA e : e.end = p)) \o texts(at(LAMBDA e : e.end > p))
         \o IF covered \/ p = Len(Text) THEN <<>> ELSE <<Text[p + 1]>>

WorkspaceEdit(edits) == FlattenSeq([n \in 1..Len(Text) + 1 |-> Written(edits, n - 1)])

Lists == UNION {[1..n -> Edits] : n \in 1..MaxListed}

DistinctStarts(edits) == \A m, n \in DOMAIN edits : m # n => edits[m].start # edits[n].start

\* The text whose hash the caller is shown (afterSha256 of the prepared change set) is the
\* text that an accepted list of edits makes, in whatever order it lists them.  Left out
\* are lists with two edits that start at one position: there the two may differ.
PreviewIsApplied(edits) ==
    NonOverlappingEdits(edits) /\ DistinctStarts(edits) => ApplyTextEdits(edits) = WorkspaceEdit(edits)
=============================================================================
