------------------------------ MODULE RpcFrames ------------------------------
(***************************************************************************)
(* The frames of a connection (protocol/src/rpc.ts): lines of JSON out of  *)
(* chunks of bytes.  A byte is LF, CR, a byte of JSON ("x"), or one        *)
(* that spoils its line ("bad").                                           *)
(***************************************************************************)
EXTENDS Naturals, Sequences, SequencesExt, Filters

CONSTANT MaxMessageBytes
ASSUME MaxMessageAssumption == MaxMessageBytes \in Nat

FrameBytes == {"lf", "cr", "x", "bad"}

\* One more byte
Longer(lines, b) ==
    IF b = "lf" THEN Append(lines, <<>>) ELSE [lines EXCEPT ![Len(lines)] = Append(@, b)]

\* The lines of a text, the last of which has no line feed
LinesOf(text) ==
    LET lines[n \in 0..Len(text)] == IF n = 0 THEN <<<<>>>> ELSE Longer(lines[n - 1], text[n])
    IN lines[Len(text)]

WithoutReturn(line) == IF line # <<>> /\ Last(line) = "cr" THEN Front(line) ELSE line
\* CR is white space of JSON.
Parses(line) == line = <<>> \/ ("x" \in Range(line) /\ "bad" \notin Range(line))

Refused(lines, rest) ==
    \/ \E n \in DOMAIN lines : Len(lines[n]) > MaxMessageBytes \/ ~ Parses(WithoutReturn(lines[n]))
    \/ Len(rest) > MaxMessageBytes

Messages(lines) == Where([n \in DOMAIN lines |-> WithoutReturn(lines[n])], Seq(FrameBytes) \ {<<>>})

NewDecoder == [buffer |-> <<>>, messages |-> <<>>, failed |-> FALSE]

\* Mutant: the rest of a chunk is dropped with its last line.
PushWithoutRest(decoder, chunk) ==
    LET lines == LinesOf(decoder.buffer \o chunk)
    IN IF decoder.failed THEN decoder
       ELSE IF Refused(Front(lines), Last(lines)) THEN [decoder EXCEPT !.failed = TRUE]
       ELSE [decoder EXCEPT !.messages = @ \o Messages(Front(lines)),
                            !.buffer = IF Len(lines) > 1 THEN <<>> ELSE Last(lines)]
\* push: the messages of a chunk are handed over together, or none of them when one is refused;
\* the connection ends then.
Push(decoder, chunk) ==
    LET lines == LinesOf(decoder.buffer \o chunk)
    IN IF decoder.failed THEN decoder
       ELSE IF Refused(Front(lines), Last(lines)) THEN [decoder EXCEPT !.failed = TRUE]
       ELSE [decoder EXCEPT !.messages = @ \o Messages(Front(lines)), !.buffer = Last(lines)]

\* The decoder after all chunks
Decoded(chunks) ==
    LET after[n \in 0..Len(chunks)] == IF n = 0 THEN NewDecoder ELSE Push(after[n - 1], chunks[n])
    IN after[Len(chunks)]

\* However a text is cut into chunks, in the middle of a line or of CR LF: it is refused or not
\* whatever the cuts, its messages are the same when it is not, and what is
\* handed over before it is refused is a beginning of them.
ChunksDoNotMatter(chunks) ==
    LET all == Decoded(chunks)
        text == FlattenSeq(chunks)
        once == Push(NewDecoder, text)
    IN /\ all.failed = once.failed
       /\ ~ once.failed => all = once
       /\ IsPrefix(all.messages, Messages(Front(LinesOf(text))))
=============================================================================
