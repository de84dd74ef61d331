--------------------------- MODULE DiagnosticEvents ---------------------------
(***************************************************************************)
(* The log of diagnostic changes (extension-awareness-manager.ts): one     *)
(* entry for a change of what VS Code reports of a document, numbered by a *)
(* cursor, dropped after a while or when there are too many, and read page *)
(* by page by a client that goes on from the last cursor it was given.     *)
(*                                                                         *)
(* Language extensions are external: they change the diagnostics of a      *)
(* document, and VS Code reports it later, once for several changes.  The  *)
(* diagnostics of a document are a number, 0 for none.                     *)
(***************************************************************************)
EXTENDS Integers, Filters, FiniteSets, FiniteSetsExt, SequencesExt

CONSTANTS Documents,
          MaxKept,     \* MAX_DIAGNOSTIC_EVENTS
          TTL,         \* DIAGNOSTIC_RETENTION_MS
          MaxChanges,  \* bound: changes of diagnostics
          MaxTime,     \* bound: the clock
          MaxReads     \* bound: pages read

VARIABLES
    diagnostics,  \* what VS Code has for each document
    due,          \* documents whose change VS Code has still to report
    summaries,    \* #diagnosticSummaries
    events,       \* #diagnosticEvents
    cursor,       \* #diagnosticCursor
    reader,       \* a client that follows the log: of one document, or of all
    log,          \* history: every event there was
    changes,
    now

vars == <<diagnostics, due, summaries, events, cursor, reader, log, changes, now>>

\* emptyDiagnostics, the signature of which is that of no list
Unknown == -1

Init ==
    /\ diagnostics \in [Documents -> {0, 1}]
    /\ due = {}
    /\ summaries = [d \in Documents |-> IF diagnostics[d] = 0 THEN Unknown ELSE diagnostics[d]]
    /\ events = <<>> /\ cursor = 1 /\ log = <<>>
    /\ reader \in [follows : {Documents} \cup {{d} : d \in Documents}, after : {0}, got : {<<>>},
                   told : {FALSE}, reads : {0}]
    /\ changes = 0 /\ now = 0

Tick ==
    /\ now < MaxTime
    /\ now' = now + 1
    /\ UNCHANGED <<diagnostics, due, summaries, events, cursor, reader, log, changes>>

Diagnose(d) ==
    /\ changes < MaxChanges
    /\ changes' = changes + 1
    /\ \E value \in 0..2 : diagnostics' = [diagnostics EXCEPT ![d] = value]
    /\ due' = due \cup {d}
    /\ UNCHANGED <<summaries, events, cursor, reader, log, now>>

\* #cleanupDiagnosticEvents, which stops at the first event that is kept
Kept(list) ==
    LET stays(i) == Len(list) - i < MaxKept /\ list[i].at + TTL >= now
        first == Min({i \in 1..Len(list) : stays(i)} \cup {Len(list) + 1})
    IN SubSeq(list, first, Len(list))

Total(summary) == IF summary = Unknown THEN 0 ELSE summary
Kind(previous, current) ==
    IF Total(previous) = 0 THEN "added" ELSE IF current = 0 THEN "removed" ELSE "changed"

\* #captureDiagnosticChange
Capture(d) ==
    /\ d \in due
    /\ due' = due \ {d}
    /\ summaries' = [summaries EXCEPT ![d] = diagnostics[d]]
    /\ IF summaries[d] = diagnostics[d]
       THEN UNCHANGED <<events, cursor, log>>
       ELSE LET event == [cursor |-> cursor, document |-> d, at |-> now,
                          kind |-> Kind(summaries[d], diagnostics[d])]
            IN /\ events' = Kept(Append(events, event))
               /\ log' = Append(log, event)
               /\ cursor' = cursor + 1
    /\ UNCHANGED <<diagnostics, reader, changes, now>>

Oldest(list) == IF list = <<>> THEN cursor ELSE Head(list).cursor

\* Mutant: the event that follows the cursor may be gone.
ExpiredLate(list, after) == after > 0 /\ after < Oldest(list) - 2
\* cursorExpired
Expired(list, after) == after > 0 /\ after < Oldest(list) - 1

\* listDiagnosticEvents, and a client that goes on from nextCursor with the same filter
Read(limit) ==
    /\ reader.reads < MaxReads
    /\ events' = Kept(events)
    /\ LET selected == Where(events', {e \in ToSet(events') : e.cursor > reader.after /\ e.document \in reader.follows})
           page == SubSeq(selected, 1, Min({limit, Len(selected)}))
       IN reader' = [reader EXCEPT
              !.reads = @ + 1,
              !.after = IF page = <<>> THEN @ ELSE Last(page).cursor,
              !.got = @ \o [i \in 1..Len(page) |-> page[i].cursor],
              !.told = @ \/ Expired(events', reader.after)]
    /\ UNCHANGED <<diagnostics, due, summaries, cursor, log, changes, now>>

Next ==
    \/ Tick
    \/ \E d \in Documents : Diagnose(d) \/ Capture(d)
    \/ \E limit \in 1..2 : Read(limit)

Spec == Init /\ [][Next]_vars

(***************************************************************************)
(* Properties                                                              *)
(***************************************************************************)

TypeOK ==
    /\ diagnostics \in [Documents -> 0..2] /\ due \subseteq Documents
    /\ summaries \in [Documents -> Unknown..2]
    /\ Len(events) <= MaxKept /\ IsSuffix(events, log)
    /\ cursor = Len(log) + 1
    /\ reader.after \in 0..Len(log)

\* listDiagnosticEvents: a client that follows the log gets every event it asks for once and in
\* order, from the first that it gets on, unless it was told that its cursor had expired; and it
\* is told so only when an event that it did not get is gone.
FollowedInFull ==
    /\ \A i, j \in DOMAIN reader.got : i < j => reader.got[i] < reader.got[j]
    /\ reader.got # <<>> /\ ~reader.told =>
          ToSet(reader.got) = {e.cursor : e \in {f \in ToSet(log) :
              f.document \in reader.follows /\ f.cursor \in Head(reader.got)..reader.after}}
    /\ reader.told => \E e \in ToSet(log) : e \notin ToSet(events) /\ e.cursor \notin ToSet(reader.got)

=============================================================================
