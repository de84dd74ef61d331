----------------------------- MODULE DebugOutput -----------------------------
(***************************************************************************)
(* What is kept of the output of debug sessions (debug-output-capture.ts), *)
(* and a client that reads it.  The events of a session are a function     *)
(* from their numbers, the cursors, to how many of their characters are    *)
(* left; a character is one byte.  The number of a session is its place in *)
(* the order of startedAt.                                                 *)
(***************************************************************************)
EXTENDS Naturals, FiniteSets, FiniteSetsExt, Functions

CONSTANTS Nil, SessionBytes, WindowBytes,
          ReadChars,    \* maxChars of a read
          MaxSessions,  \* bound: sessions VS Code starts
          MaxChunk,     \* bound: characters of an event
          MaxEvents     \* bound: events of a session

OutputAssumption ==
    /\ {SessionBytes, WindowBytes, ReadChars, MaxSessions, MaxChunk, MaxEvents} \subseteq Nat
    /\ Nil \notin Nat

Sessions == 1..MaxSessions

VARIABLES
    capture,   \* #sessions
    written,   \* history: characters appended to each session
    reader     \* a client that reads one session; got is history

vars == <<capture, written, reader>>

NoCapture == [at |-> "none", events |-> <<>>, next |-> 1, dropped |-> 0]
NoReader == [of |-> Nil, cursor |-> 0, got |-> 0]

Init ==
    /\ capture = [s \in Sessions |-> NoCapture]
    /\ written = [s \in Sessions |-> 0] /\ reader = NoReader

Sum(texts) == SumFunctionOnSet(texts, DOMAIN texts)
Bytes(s) == Sum(capture[s].events)

\* How much is left of each text when the first ones make room until the limit is kept.
Kept(texts, place, limit) ==
    [t \in DOMAIN texts |->
        LET after == SumFunctionOnSet(texts, {u \in DOMAIN texts : place[u] > place[t]})
            room == IF limit > after THEN limit - after ELSE 0
        IN IF texts[t] < room THEN texts[t] ELSE room]

\* Mutant: the characters of the event that is cut are not counted.
TrimmedWhole(x, limit) ==
    LET left == Kept(x.events, [c \in DOMAIN x.events |-> c], limit)
        gone == {c \in DOMAIN left : left[c] = 0}
    IN [x EXCEPT !.events = [c \in DOMAIN left \ gone |-> left[c]],
                 !.dropped = @ + SumFunctionOnSet(x.events, gone)]

\* #trimSession: whole events from the front, then the beginning of one
Trimmed(x, limit) ==
    LET left == Kept(x.events, [c \in DOMAIN x.events |-> c], limit)
        events == [c \in {d \in DOMAIN left : left[d] > 0} |-> left[c]]
    IN [x EXCEPT !.events = events, !.dropped = @ + Sum(x.events) - Sum(events)]

\* The order of #enforceWindowLimit: sessions that have ended, then the others, by startedAt
EndedFirst(xs) == [s \in Sessions |-> IF xs[s].at = "ended" THEN s ELSE MaxSessions + s]

\* #enforceWindowLimit: each session in that order is cut to what the limit leaves it.
WithinWindow(xs) ==
    LET share == Kept([s \in Sessions |-> Sum(xs[s].events)], EndedFirst(xs), WindowBytes)
    IN [s \in Sessions |-> Trimmed(xs[s], share[s])]

\* start: a session that VS Code restarts is live again.
Start(s) ==
    /\ \/ capture[s].at = "none" /\ \A earlier \in 1..(s - 1) : capture[earlier].at # "none"
       \/ capture[s].at = "ended"
    /\ capture' = [capture EXCEPT ![s].at = "live"]
    /\ UNCHANGED <<written, reader>>

Finish(s) ==
    /\ capture[s].at = "live"
    /\ capture' = [capture EXCEPT ![s].at = "ended"]
    /\ UNCHANGED <<written, reader>>

\* append, of an event whose text the sanitizer leaves; output may follow the end.
AppendEvent(s, n) ==
    /\ capture[s].at \in {"live", "ended"} /\ capture[s].next <= MaxEvents
    /\ LET next == capture[s].next
           old == capture[s].events
           x == [capture[s] EXCEPT !.next = next + 1,
                    !.events = [c \in DOMAIN old \cup {next} |-> IF c = next THEN n ELSE old[c]]]
       IN capture' = WithinWindow([capture EXCEPT ![s] = Trimmed(x, SessionBytes)])
    /\ written' = [written EXCEPT ![s] = @ + n]
    /\ UNCHANGED reader

\* cleanupExpired
Expire(s) ==
    /\ capture[s].at = "ended"
    /\ capture' = [capture EXCEPT ![s] = [NoCapture EXCEPT !.at = "expired"]]
    /\ written' = [written EXCEPT ![s] = 0]
    /\ reader' = IF reader.of = s THEN NoReader ELSE reader

\* The events of a page: as many after the cursor as fit, and one at least
Page(events, cursor) ==
    LET rest == {c \in DOMAIN events : c > cursor}
    IN {c \in rest : \/ \A d \in rest : c <= d
                     \/ SumFunctionOnSet(events, {d \in rest : d <= c}) <= ReadChars}

\* read, from the cursor of the page before
Read(s) ==
    LET events == capture[s].events
        page == Page(events, reader.cursor)
    IN /\ capture[s].at \in {"live", "ended"} /\ reader.of \in {Nil, s} /\ page # {}
       /\ reader' = [of |-> s, cursor |-> Max(page), got |-> reader.got + SumFunctionOnSet(events, page)]
       /\ UNCHANGED <<capture, written>>

Next ==
    \E s \in Sessions :
        \/ Start(s) \/ Finish(s) \/ Expire(s) \/ Read(s)
        \/ \E n \in 1..MaxChunk : AppendEvent(s, n)

Spec == Init /\ [][Next]_vars

(***************************************************************************)
(* Properties                                                              *)
(***************************************************************************)

TypeOK ==
    /\ \A s \in Sessions :
          /\ capture[s].at \in {"none", "live", "ended", "expired"} /\ capture[s].next \in 1..(MaxEvents + 1)
          /\ capture[s].dropped \in 0..(MaxEvents * MaxChunk)
          /\ DOMAIN capture[s].events \subseteq 1..(capture[s].next - 1)
          /\ \A c \in DOMAIN capture[s].events : capture[s].events[c] \in 1..MaxChunk
    /\ written \in [Sessions -> 0..(MaxEvents * MaxChunk)]
    /\ reader \in [of : Sessions \cup {Nil}, cursor : 0..MaxEvents, got : 0..(MaxEvents * MaxChunk)]

\* #trimSession, #enforceWindowLimit: no session and not all of them together keep more than their
\* limits, and what is not kept is counted: droppedCharacters is exact, so
\* a client that has read to the end has all that it does not count.
OutputAccounted ==
    /\ \A s \in Sessions : Bytes(s) <= SessionBytes /\ Bytes(s) + capture[s].dropped = written[s]
    /\ SumFunctionOnSet([s \in Sessions |-> Bytes(s)], Sessions) <= WindowBytes
    /\ reader.of # Nil /\ reader.cursor = capture[reader.of].next - 1 =>
          reader.got + capture[reader.of].dropped >= written[reader.of]

=============================================================================
