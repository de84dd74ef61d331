-------------------------- MODULE TerminalCapture --------------------------
(***************************************************************************)
(* Terminals of one window and what is kept of their output:               *)
(* terminal-observer.ts, whose steps are the events of VS Code and the     *)
(* chunks of the streams it reads, over terminal-capture.ts, and a client  *)
(* that reads an output page by page.                                      *)
(*                                                                         *)
(* A character is its position in the output of its execution, so what is  *)
(* kept of an output is the interval from dropped to total.                *)
(***************************************************************************)
EXTENDS Integers, Sequences, FiniteSets, FiniteSetsExt, SequencesExt

CONSTANTS Terminals, Executions, Nil,
          Width,           \* bytes of the character at a position
          ExecutionBytes, WindowBytes,
          PageChars,       \* characters a read asks for
          MaxTotal,        \* bound: characters of an output
          MaxPolicies      \* bound: changes of the policy

ASSUME CaptureAssumption ==
    /\ Width \in [0..MaxTotal -> Nat \ {0}]
    /\ ExecutionBytes \in Nat /\ WindowBytes \in Nat /\ PageChars \in Nat \ {0}
    /\ MaxTotal \in Nat /\ MaxPolicies \in Nat

VARIABLES
    allowed,    \* canCaptureTerminalSensitiveData()
    terminal,   \* #terminals
    execution,  \* #executions
    ended,      \* the executions that have ended, in that order
    stream,     \* the loops of #consumeOutput
    reader,
    policies

vars == <<allowed, terminal, execution, ended, stream, reader, policies>>

NoTerminal == [at |-> "none", status |-> Nil, shell |-> FALSE, cwd |-> FALSE]
NoExecution == [terminal |-> Nil, recorded |-> FALSE, running |-> FALSE, total |-> 0, dropped |-> 0,
                streamEnded |-> FALSE, failed |-> FALSE]
NoReader == [of |-> Nil, cursor |-> 0, told |-> FALSE]

Init ==
    /\ allowed \in BOOLEAN
    /\ terminal = [t \in Terminals |-> NoTerminal]
    /\ execution = [e \in Executions |-> NoExecution]
    /\ ended = <<>>
    /\ stream = [e \in Executions |-> "none"]
    /\ reader = NoReader /\ policies = 0

Recorded == {e \in Executions : execution[e].recorded}

(***************************************************************************)
(* The limits                                                              *)
(***************************************************************************)

Bytes(x) == SumFunctionOnSet(Width, x.dropped..(x.total - 1))

\* What the executions of a set hold together
Held(xs, set) == SumFunctionOnSet([f \in Executions |-> Bytes(xs[f])], set)

\* #trimExecution
Trimmed(x, max) ==
    [x EXCEPT !.dropped = CHOOSE d \in x.dropped..x.total :
        /\ Bytes([x EXCEPT !.dropped = d]) <= max
        /\ \A c \in x.dropped..(d - 1) : Bytes([x EXCEPT !.dropped = c]) > max]

Evicted(x) == [x EXCEPT !.dropped = x.total, !.failed = TRUE]

\* Mutant: the writer is not trimmed when no ended execution is left to evict.
EvictedOnly(xs, e) ==
    LET total(k, victims) == Held(xs, Recorded \ {victims[n] : n \in 1..k})
        victims == SelectSeq(ended, LAMBDA f : xs[f].dropped < xs[f].total)
        fits == {k \in 0..Len(victims) : total(k, victims) <= WindowBytes}
        out == IF fits = {} THEN ToSet(victims) ELSE {victims[n] : n \in 1..Min(fits)}
    IN [f \in Executions |-> IF f \in out THEN Evicted(xs[f]) ELSE xs[f]]
\* #enforceWindowLimit: executions that have ended lose all they hold, the one that ended first
\* before the others, and if that is not enough the writer is trimmed.
WithinWindow(xs, e) ==
    LET total(k, victims) == Held(xs, Recorded \ {victims[n] : n \in 1..k})
        victims == SelectSeq(ended, LAMBDA f : xs[f].dropped < xs[f].total)
        fits == {k \in 0..Len(victims) : total(k, victims) <= WindowBytes}
        out == IF fits = {} THEN ToSet(victims) ELSE {victims[n] : n \in 1..Min(fits)}
        kept == [f \in Executions |-> IF f \in out THEN Evicted(xs[f]) ELSE xs[f]]
        over == Held(kept, Recorded) - WindowBytes
    IN IF over <= 0 THEN kept
       ELSE [kept EXCEPT ![e] = Trimmed(@, IF Bytes(@) > over THEN Bytes(@) - over ELSE 0)]

\* appendOutput
Appended(e, n) ==
    LET x == [execution[e] EXCEPT !.total = @ + n]
    IN WithinWindow([execution EXCEPT ![e] = Trimmed(x, ExecutionBytes)], e)

(***************************************************************************)
(* Terminals                                                               *)
(***************************************************************************)

\* #registerTerminal of one that is not known yet.  Shell integration knows the directory.
Registered(shell, existed) ==
    [at |-> "open", shell |-> shell, cwd |-> allowed /\ shell,
     status |-> IF existed /\ ~ shell THEN "unknown" ELSE "idle"]

OpenTerminal(t) ==
    /\ terminal[t].at = "none"
    /\ \E shell, existed \in BOOLEAN :
          terminal' = [terminal EXCEPT ![t] = Registered(shell, existed)]
    /\ UNCHANGED <<allowed, execution, ended, stream, reader, policies>>

\* updateTerminal
Refreshed(x, permitted, shell) ==
    [x EXCEPT !.shell = shell, !.cwd = permitted /\ shell,
              !.status = IF @ = "unknown" /\ shell THEN "idle" ELSE @]

\* #refreshTerminal: shell integration may appear late.
Refresh(t) ==
    /\ terminal[t].at = "open"
    /\ terminal' = [terminal EXCEPT ![t] = Refreshed(@, allowed, TRUE)]
    /\ UNCHANGED <<allowed, execution, ended, stream, reader, policies>>

CloseTerminal(t) ==
    /\ terminal[t].at = "open"
    /\ terminal' = [terminal EXCEPT ![t].at = "closed", ![t].status = "exited"]
    /\ UNCHANGED <<allowed, execution, ended, stream, reader, policies>>

\* The next page of a reader is refused.
Forgotten(gone) ==
    /\ execution' = [e \in Executions |-> IF e \in gone THEN NoExecution ELSE execution[e]]
    /\ ended' = SelectSeq(ended, LAMBDA e : e \notin gone)
    /\ reader' = IF reader.of \in gone THEN NoReader ELSE reader

\* cleanupExpired: the retention of a closed terminal is over.
Expire(t) ==
    /\ terminal[t].at = "closed"
    /\ terminal' = [terminal EXCEPT ![t] = [NoTerminal EXCEPT !.at = "expired"]]
    /\ Forgotten({e \in Recorded : execution[e].terminal = t})
    /\ UNCHANGED <<allowed, stream, policies>>

\* Mutant: only open terminals are cleared.
ClearedOpen(x) ==
    IF x.at # "open" THEN x
    ELSE [x EXCEPT !.cwd = FALSE, !.status = IF x.shell THEN "idle" ELSE "unknown"]
\* clearSensitiveData
Cleared(x) ==
    [x EXCEPT !.cwd = FALSE,
              !.status = IF x.at # "open" THEN @ ELSE IF x.shell THEN "idle" ELSE "unknown"]

\* #handlePolicyChange, which refreshes every open terminal.
PolicyChanges ==
    /\ policies < MaxPolicies /\ policies' = policies + 1
    /\ allowed' = ~ allowed
    /\ terminal' = [t \in Terminals |->
          LET x == IF allowed' THEN terminal[t] ELSE Cleared(terminal[t])
          IN IF x.at = "open" THEN Refreshed(x, allowed', x.shell) ELSE x]
    /\ IF allowed' THEN UNCHANGED <<execution, ended, reader>> ELSE Forgotten(Recorded)
    /\ UNCHANGED stream

(***************************************************************************)
(* Executions and their streams                                            *)
(***************************************************************************)

\* #startExecution; reading the stream may fail at once.
StartExecution(t, e) ==
    /\ allowed /\ stream[e] = "none" /\ terminal[t].at \in {"none", "open"}
    /\ terminal' = [terminal EXCEPT ![t] =
          [(IF @.at = "none" THEN Registered(TRUE, FALSE) ELSE @) EXCEPT !.status = "running"]]
    /\ \E readable \in BOOLEAN :
          /\ execution' = [execution EXCEPT ![e] =
                [NoExecution EXCEPT !.terminal = t, !.recorded = TRUE, !.running = TRUE,
                                    !.failed = ~ readable, !.streamEnded = ~ readable]]
          /\ stream' = [stream EXCEPT ![e] = IF readable THEN "open" ELSE "ended"]
    /\ UNCHANGED <<allowed, ended, reader, policies>>

\* #consumeOutput: a chunk, of which the sanitizer leaves n characters; the loop ends
\* when the execution has been removed.
Chunk(e, n) ==
    /\ stream[e] = "open"
    /\ IF execution[e].recorded
       THEN /\ execution[e].total + n <= MaxTotal
            /\ execution' = Appended(e, n)
            /\ UNCHANGED stream
       ELSE /\ stream' = [stream EXCEPT ![e] = "ended"]
            /\ UNCHANGED execution
    /\ UNCHANGED <<allowed, terminal, ended, reader, policies>>

\* finishOutput: the sanitizer may still hold a line end.
Finished(e, n) == [(IF n = 0 THEN execution ELSE Appended(e, n)) EXCEPT ![e].streamEnded = TRUE]

StreamEnds(e, n) ==
    /\ stream[e] = "open" /\ execution[e].recorded
    /\ execution[e].total + n <= MaxTotal
    /\ stream' = [stream EXCEPT ![e] = "ended"]
    /\ execution' = Finished(e, n)
    /\ UNCHANGED <<allowed, terminal, ended, reader, policies>>

\* failOutput
StreamFails(e) ==
    /\ stream[e] = "open" /\ execution[e].recorded
    /\ stream' = [stream EXCEPT ![e] = "ended"]
    /\ execution' = [execution EXCEPT ![e].failed = TRUE, ![e].streamEnded = TRUE]
    /\ UNCHANGED <<allowed, terminal, ended, reader, policies>>

\* finishExecution: the terminal is idle when nothing else runs in it.
Idle(e) ==
    /\ terminal[execution[e].terminal].at = "open"
    /\ \A f \in Recorded \ {e} : execution[f].terminal = execution[e].terminal => ~ execution[f].running

\* #endExecution, before the stream has ended or after; one of an execution that has been
\* removed changes nothing.
EndExecution(e) ==
    /\ execution[e].recorded /\ execution[e].running
    /\ execution' = [execution EXCEPT ![e].running = FALSE]
    /\ ended' = Append(ended, e)
    /\ terminal' = IF Idle(e) THEN [terminal EXCEPT ![execution[e].terminal].status = "idle"] ELSE terminal
    /\ UNCHANGED <<allowed, stream, reader, policies>>

\* Mutant: the output ends with the command, not with its stream.
NoPageAfterEnd(x, next) == next = x.total /\ ~ x.running
\* readOutput gives no next cursor.
NoNextPage(x, next) == next = x.total /\ x.streamEnded

\* readOutput with the cursor of the page before, or from the start
Read(e) ==
    LET x == execution[e]
        actual == Max({reader.cursor, x.dropped})
        next == Min({actual + PageChars, x.total})
    IN /\ x.recorded /\ ~ x.failed /\ x.total > 0
       /\ reader.of \in {Nil, e} /\ ~ reader.told
       /\ reader' = [of |-> e, cursor |-> next, told |-> NoNextPage(x, next)]
       /\ UNCHANGED <<allowed, terminal, execution, ended, stream, policies>>

Next ==
    \/ PolicyChanges
    \/ \E t \in Terminals :
          \/ OpenTerminal(t) \/ Refresh(t) \/ CloseTerminal(t) \/ Expire(t)
          \/ \E e \in Executions : StartExecution(t, e)
    \/ \E e \in Executions :
          \/ StreamFails(e) \/ EndExecution(e) \/ Read(e)
          \/ \E n \in 1..2 : Chunk(e, n)
          \/ \E n \in 0..1 : StreamEnds(e, n)

Spec == Init /\ [][Next]_vars

(***************************************************************************)
(* Properties                                                              *)
(***************************************************************************)

Window == [at : {"none", "open", "closed", "expired"}, shell : BOOLEAN, cwd : BOOLEAN,
           status : {Nil, "idle", "running", "exited", "unknown"}]

Kept == [terminal : Terminals \cup {Nil}, recorded : BOOLEAN, running : BOOLEAN,
         total : 0..MaxTotal, dropped : 0..MaxTotal, streamEnded : BOOLEAN, failed : BOOLEAN]

TypeOK ==
    /\ allowed \in BOOLEAN /\ policies \in 0..MaxPolicies
    /\ terminal \in [Terminals -> Window]
    /\ execution \in [Executions -> Kept]
    /\ stream \in [Executions -> {"none", "open", "ended"}]
    /\ reader \in [of : Executions \cup {Nil}, cursor : 0..MaxTotal, told : BOOLEAN]

\* #trimExecution, #enforceWindowLimit: neither one output nor all of them together grow
\* beyond their limits, whichever executions end, go on streaming after their end, or are
\* emptied for others.
MemoryBounded ==
    /\ \A e \in Recorded : Bytes(execution[e]) <= ExecutionBytes
    /\ Held(execution, Recorded) <= WindowBytes

\* readOutput: a reader that is told there is no next page stands at the end of the output, and
\* nothing is added to that afterwards.
OutputIsWhole == reader.told => reader.cursor = execution[reader.of].total

\* #handlePolicyChange: once the policy forbids it nothing captured is left, and
\* streams that go on do not bring it back.
Private == ~ allowed => Recorded = {} /\ \A t \in Terminals : ~ terminal[t].cwd
=============================================================================
