--------------------------- MODULE OutputSanitizer ---------------------------
(***************************************************************************)
(* The sanitizer of terminal output (terminal-capture.ts): a machine over  *)
(* the characters of a stream, and what it is to keep, read off the        *)
(* grammar of the sequences.  The characters are one of each kind that the *)
(* machine tells apart; "0" cannot end a control sequence, "m" can, and    *)
(* ctl is any other control character.                                     *)
(***************************************************************************)
EXTENDS Naturals, Sequences

Characters == {"m", "0", "[", "]", "\\", "esc", "bel", "cr", "lf", "ctl"}
\* 0x40 to 0x7e
Finals == {"m", "[", "]", "\\"}
Kept(c) == c \notin {"esc", "bel", "cr", "ctl"}

Start == [at |-> "normal", held |-> FALSE, out |-> <<>>]

\* What follows ESC, or a character of a sequence that it began
AfterEscape(c) == CASE c = "[" -> "csi" [] c = "]" -> "osc" [] OTHER -> "normal"
AfterControl(c) == IF c \in Finals THEN "normal" ELSE "csi"
AfterCommand(c) == CASE c = "bel" -> "normal" [] c = "esc" -> "osc-escape" [] OTHER -> "osc"
AfterCommandEscape(c) == CASE c = "\\" -> "normal" [] c = "esc" -> "osc-escape" [] OTHER -> "osc"

Given(m) == IF m.held THEN [m EXCEPT !.out = Append(@, "lf"), !.held = FALSE] ELSE m

\* Mutant: a carriage return that is held is given up before a line feed, as before any character.
NormalTwice(m, c) ==
    CASE c = "esc" -> [Given(m) EXCEPT !.at = "escape"]
      [] c = "cr" -> [Given(m) EXCEPT !.held = TRUE]
      [] OTHER -> IF Kept(c) THEN [Given(m) EXCEPT !.out = Append(@, c)] ELSE Given(m)
\* Outside of a sequence; CR is held until it is known whether LF follows.
Normal(m, c) ==
    CASE c = "lf" /\ m.held -> Given(m)
      [] c = "esc" -> [Given(m) EXCEPT !.at = "escape"]
      [] c = "cr" -> [Given(m) EXCEPT !.held = TRUE]
      [] OTHER -> IF Kept(c) THEN [Given(m) EXCEPT !.out = Append(@, c)] ELSE Given(m)

\* push, one character
Pushed(m, c) ==
    CASE m.at = "normal" -> Normal(m, c)
      [] m.at = "escape" -> [m EXCEPT !.at = AfterEscape(c)]
      [] m.at = "csi" -> [m EXCEPT !.at = AfterControl(c)]
      [] m.at = "osc" -> [m EXCEPT !.at = AfterCommand(c)]
      [] m.at = "osc-escape" -> [m EXCEPT !.at = AfterCommandEscape(c)]

\* The machine after each character of a stream
Machine(raw) ==
    LET after[n \in 0..Len(raw)] == IF n = 0 THEN Start ELSE Pushed(after[n - 1], raw[n])
    IN after

\* finish gives up a line end that is held.
Sanitized(raw) == Given(Machine(raw)[Len(raw)]).out

\* The grammar: where the token that begins at n ends, or Len(raw) when it is cut off.
FirstOf(ends, raw) == IF ends = {} THEN Len(raw) ELSE CHOOSE k \in ends : \A j \in ends : k <= j

ControlEnds(raw, n) == {k \in (n + 2)..Len(raw) : raw[k] \in Finals}
CommandEnds(raw, n) ==
    {k \in (n + 2)..Len(raw) : IF k > n + 2 /\ raw[k - 1] = "esc" THEN raw[k] = "\\" ELSE raw[k] = "bel"}

TokenEnd(raw, n) ==
    LET next == IF n < Len(raw) THEN raw[n + 1] ELSE "none"
    IN CASE raw[n] = "cr" /\ next = "lf" -> n + 1
         [] raw[n] = "esc" /\ next = "[" -> FirstOf(ControlEnds(raw, n), raw)
         [] raw[n] = "esc" /\ next = "]" -> FirstOf(CommandEnds(raw, n), raw)
         [] raw[n] = "esc" /\ next \notin {"none", "[", "]"} -> n + 1
         [] OTHER -> n

Shown(c) == IF c = "cr" THEN <<"lf">> ELSE IF Kept(c) THEN <<c>> ELSE <<>>

\* The text of a stream: sequences are left out and each of CR LF, CR and LF is one line end.
TextOf(raw) ==
    LET rest[n \in 1..(Len(raw) + 1)] ==
            IF n > Len(raw) THEN <<>> ELSE Shown(raw[n]) \o rest[TokenEnd(raw, n) + 1]
    IN rest[1]

\* What is captured of a stream is its text, wherever sequences, control characters and line
\* ends meet, and whatever is cut off at its end.
SanitizedIsText(raw) == Sanitized(raw) = TextOf(raw)
=============================================================================
