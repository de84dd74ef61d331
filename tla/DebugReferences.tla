--------------------------- MODULE DebugReferences ---------------------------
(***************************************************************************)
(* The references of one debug session that an agent may use               *)
(* (packages/vscode-extension/src/debug-manager.ts).                       *)
(*                                                                         *)
(* A reply of the debug adapter names threads, frames and variables by     *)
(* ids that mean something until the program goes on.  The manager stamps  *)
(* every id it hands out with a generation, raises the generation at each  *)
(* "stopped" and "continued" event and refuses an id of another one.       *)
(*                                                                         *)
(* The tracker sees an event of the adapter as it is sent.  The reply to a *)
(* request takes a longer way, through VS Code, to the call that waits for *)
(* it: events the adapter sent after the reply may be seen before it.      *)
(*                                                                         *)
(* Data abstractions: names, values and pages of a reply are left out; a   *)
(* reply is the set of ids it hands out.  An adapter uses its ids again    *)
(* after it went on.                                                       *)
(***************************************************************************)
EXTENDS Integers

CONSTANTS Calls,      \* requests an agent can have under way
          Ids,        \* numbers the adapter uses for threads, frames and variables
          None,
          MaxEvents,  \* bound: stops and continues the adapter reports
          MaxControls \* bound: accepted control requests that resume the program

ASSUME ReferencesAssumption ==
    /\ None \notin Ids /\ None \notin Int
    /\ MaxEvents \in Nat /\ MaxControls \in Nat

Kinds == {"thread", "frame", "variable"}
Queries == {"threads", "stackTrace", "scopes", "variables", "setVariable", "evaluate"}
Resuming == {"continue", "next", "restart"}     \* next stands for the three step actions
Requests == Queries \cup Resuming \cup {"pause", "terminate"}

\* The kind of reference a request is made with, and the kind its reply hands out.
Needs(q) == CASE q \in {"stackTrace", "continue", "next", "pause"} -> "thread"
              [] q \in {"scopes", "evaluate"} -> "frame"
              [] q \in {"variables", "setVariable"} -> "variable"
              [] OTHER -> None
Gives(q) == CASE q = "threads" -> "thread"
              [] q = "stackTrace" -> "frame"
              [] q \in {"scopes", "variables", "setVariable", "evaluate"} -> "variable"
              [] OTHER -> None

VARIABLES
    adapter,     \* what the program under the adapter does
    events,      \* stops and continues reported so far
    controls,    \* resuming requests accepted so far
    ended,       \* summary.endedAt is set
    generation,  \* tracked.generation
    issued,      \* the three generation maps: None for an id that is not there
    call,        \* where each request is, and what it waits for
    born,        \* history: events when the adapter gave the id that is in the map
    late         \* history: ids that entered a map after events sent since their reply

vars == <<adapter, events, controls, ended, generation, issued, call, born, late>>

Idle == [at |-> "idle", request |-> None, ids |-> {}, sent |-> 0]

TypeOK ==
    /\ adapter \in {"running", "stopped", "gone"}
    /\ events \in 0..MaxEvents /\ controls \in 0..MaxControls /\ ended \in BOOLEAN
    /\ generation \in Nat
    /\ issued \in [Kinds -> [Ids -> Nat \cup {None}]]
    /\ call \in [Calls -> [at : {"idle", "sent", "answered"}, request : Requests \cup {None},
                           ids : SUBSET Ids, sent : 0..MaxEvents]]
    /\ born \in [Kinds -> [Ids -> 0..MaxEvents]]
    /\ late \subseteq Kinds \X Ids

\* #startSession
Init ==
    /\ adapter = "running" /\ events = 0 /\ controls = 0 /\ ended = FALSE
    /\ generation = 0
    /\ issued = [k \in Kinds |-> [i \in Ids |-> None]]
    /\ call = [c \in Calls |-> Idle]
    /\ born = [k \in Kinds |-> [i \in Ids |-> 0]]
    /\ late = {}

-----------------------------------------------------------------------------
(* The manager.                                                            *)

\* assertIssued
Issued(k, i) == issued[k][i] = generation

\* Nothing is in the maps, and nothing is remembered of it.
Emptied ==
    /\ issued' = [k \in Kinds |-> [i \in Ids |-> None]]
    /\ born' = [k \in Kinds |-> [i \in Ids |-> 0]]
    /\ late' = {}

\* Mutant: the variables are forgotten and the generation stays.
InvalidateVariables ==
    /\ generation' = generation
    /\ issued' = [issued EXCEPT !["variable"] = [i \in Ids |-> None]]
    /\ UNCHANGED <<born, late>>

\* invalidateDebugState
Invalidate == generation' = generation + 1 /\ Emptied

\* A request with reference i: it is checked and sent with no await between.  evaluate
\* may come without a frame (i = None).
Request(c, q, i) ==
    /\ call[c].at = "idle" /\ ~ended
    /\ i = None => Needs(q) = None \/ q = "evaluate"
    /\ i # None => Needs(q) # None /\ Issued(Needs(q), i)
    /\ call' = [call EXCEPT ![c] = [at |-> "sent", request |-> q, ids |-> {}, sent |-> 0]]
    /\ UNCHANGED <<adapter, events, controls, ended, generation, issued, born, late>>

\* The reply reaches the waiting call: its ids are stamped with the generation of now.
ReceiveQuery(c) ==
    /\ call[c].at = "answered" /\ call[c].request \in Queries
    /\ LET k == Gives(call[c].request)
           new == call[c].ids
       IN  /\ issued' = [issued EXCEPT ![k] = [i \in Ids |-> IF i \in new THEN generation ELSE @[i]]]
           /\ born' = [born EXCEPT ![k] = [i \in Ids |-> IF i \in new THEN call[c].sent ELSE @[i]]]
           /\ late' = {p \in late : ~(p[1] = k /\ p[2] \in new)}
                        \cup IF call[c].sent = events THEN {} ELSE {k} \X new
    /\ call' = [call EXCEPT ![c] = Idle]
    /\ UNCHANGED <<adapter, events, controls, ended, generation>>

\* control: the references are invalidated when the adapter has accepted, not before.
ReceiveControl(c) ==
    /\ call[c].at = "answered" /\ call[c].request \notin Queries
    /\ IF call[c].request \in Resuming
         THEN Invalidate ELSE UNCHANGED <<generation, issued, born, late>>
    /\ call' = [call EXCEPT ![c] = Idle]
    /\ UNCHANGED <<adapter, events, controls, ended>>

-----------------------------------------------------------------------------
(* The debug adapter.                                                      *)

\* It refuses a request, always one about a stop when the program runs.
Refuse(c) ==
    /\ call[c].at = "sent"
    /\ call' = [call EXCEPT ![c] = Idle]
    /\ UNCHANGED <<adapter, events, controls, ended, generation, issued, born, late>>

Answer(c, ids) ==
    /\ call[c].at = "sent" /\ call[c].request \in Queries
    /\ adapter = "stopped" \/ (adapter = "running" /\ call[c].request \in {"threads", "evaluate"})
    /\ call' = [call EXCEPT ![c] = [at |-> "answered", request |-> @.request,
                                    ids |-> ids, sent |-> events]]
    /\ UNCHANGED <<adapter, events, controls, ended, generation, issued, born, late>>

\* continue, a step or restart: the program goes on and no event says so.
Accept(c) ==
    /\ call[c].at = "sent" /\ call[c].request \notin Queries
    /\ call[c].request \in Resuming => adapter # "gone" /\ controls < MaxControls
    /\ call' = [call EXCEPT ![c].at = "answered", ![c].sent = events]
    /\ IF call[c].request \in Resuming
         THEN adapter' = "running" /\ controls' = controls + 1
         ELSE UNCHANGED <<adapter, controls>>
    /\ UNCHANGED <<events, ended, generation, issued, born, late>>

\* A "stopped" event.
Stop ==
    /\ adapter = "running" /\ events < MaxEvents
    /\ adapter' = "stopped" /\ events' = events + 1
    /\ Invalidate
    /\ UNCHANGED <<controls, ended, call>>

\* A "continued" event, after a command of the user or of another thread.
Continue ==
    /\ adapter = "stopped" /\ events < MaxEvents
    /\ adapter' = "running" /\ events' = events + 1
    /\ Invalidate
    /\ UNCHANGED <<controls, ended, call>>

\* onDidTerminateDebugSession, #terminateSession
Terminate ==
    /\ ~ended
    /\ adapter' = "gone" /\ ended' = TRUE
    /\ Invalidate
    /\ UNCHANGED <<events, controls, call>>

Next ==
    \/ \E c \in Calls :
          \/ \E q \in Requests, i \in Ids \cup {None} : Request(c, q, i)
          \/ \E ids \in SUBSET Ids : Answer(c, ids)
          \/ ReceiveQuery(c) \/ ReceiveControl(c) \/ Refuse(c) \/ Accept(c)
    \/ Stop \/ Continue \/ Terminate

Spec == Init /\ [][Next]_vars

-----------------------------------------------------------------------------
(* Properties.                                                             *)

\* "Confirm a stale frame or variables reference is rejected after resume."
\* (docs/acceptance/v0.7.0-windows-x64.md:33).  An id that a request would be accepted with
\* was given by the adapter since its last event, unless its reply was overtaken by that
\* event on the way: the reply is then stamped with the generation of after the event
\* (debug-manager.ts:359, 736-745).  No other order of replies, events, control requests
\* and the end keeps an id of before.
OnlyOvertaken ==
    \A k \in Kinds, i \in Ids :
        Issued(k, i) => born[k][i] = events \/ <<k, i>> \in late
=============================================================================
