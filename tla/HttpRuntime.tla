---------------------------- MODULE HttpRuntime ----------------------------
(***************************************************************************)
(* The admission and cancellation core of the MCP daemon:                  *)
(* packages/mcp-server/src/http-runtime.ts, class HttpMcpRuntime.          *)
(*                                                                         *)
(* One call is one HTTP POST that carries a JSON-RPC request.  An action   *)
(* is the code between two await points: nothing else runs in between on   *)
(* the JavaScript event loop, and anything may run at an await.  The MCP   *)
(* SDK (request dispatch, tool handlers, sending of results) is external   *)
(* and modelled from how the runtime calls it and is called back.          *)
(*                                                                         *)
(* Wall-clock time is abstracted: a timer that is armed may fire at any    *)
(* moment, lastActivity is either recent or older than the idle cutoff.    *)
(***************************************************************************)
EXTENDS Integers, FiniteSets

CONSTANTS
    Calls,          \* HTTP POSTs the clients send in one life of the process
    Sessions,       \* session ids randomUUID() yields, each used at most once
    Ids,            \* JSON-RPC request ids
    MaxSessions,    \* SERVICE_LIMITS.sessions
    MaxPerSession,  \* SERVICE_LIMITS.requestsPerSession
    MaxGlobal,      \* SERVICE_LIMITS.requestsGlobal
    ReuseIds,       \* may a client use one request id twice in a session?
    None,           \* undefined
    ErrorReply      \* the JSON-RPC error -32800 that #cancel sends

ASSUME FiniteAssumption == IsFiniteSet(Calls) /\ IsFiniteSet(Sessions)
ASSUME LimitsAssumption ==
    MaxSessions \in Nat /\ MaxPerSession \in Nat /\ MaxGlobal \in Nat
ASSUME ConstantsAssumption ==
    /\ ReuseIds \in BOOLEAN
    /\ None \notin Calls \cup Sessions
    /\ ErrorReply \notin Calls \cup {None}

VARIABLES
    state,          \* #state
    shutdown,       \* how far #stop has come
    awaited,        \* the cancellations #stop waits for
    sessions,       \* per id: unused, connecting, in #sessions, or closed
    stale,          \* sessions whose lastActivity is at or before the cutoff
    requests,       \* Session.requests: id to RequestWork
    sessionActive,  \* Session.active
    active,         \* #active
    pc,             \* where handle() is for a call
    kind,           \* what the call asks for
    sid,            \* its session, None while initialize has none
    rid,            \* its JSON-RPC id
    timers,         \* armed RequestWork.timer
    aborted,        \* RequestWork.controller.abort() was called
    entered,        \* RequestWork.entered
    opDone,         \* RequestWork.operationFinished
    respDone,       \* RequestWork.responseFinished
    counted,        \* RequestWork.counted
    sending,        \* works whose one `await send` is in flight
    sdk,            \* the SDK's progress with the request of a call
    workOf,         \* the RequestWork that runTool of a call has found
    sdkAborted,     \* extra.signal of the SDK was aborted
    notices,        \* notifications/cancelled not yet given to the SDK
    answer          \* what was sent on the response stream of a call

serviceVars == <<state, shutdown, awaited>>
callVars    == <<kind, rid>>
flagVars    == <<aborted, entered, opDone, respDone, sending, answer>>
countVars   == <<sessionActive, active, counted>>
sdkVars     == <<sdk, workOf, sdkAborted, notices>>
vars == <<serviceVars, sessions, stale, requests, countVars, pc, sid, callVars,
          timers, flagVars, sdkVars>>

(***************************************************************************)
(* Types and helpers.                                                      *)
(***************************************************************************)
Kinds == {"init", "tool", "query"}
PcValues == {"new", "parsing", "connecting", "rejecting", "faulted",
             "accepted", "refused", "capacity"}
Notices == [sid : Sessions, id : Ids, wait : Calls \cup {None}]

TypeOK ==
    /\ state \in {"starting", "ready", "stopping"}
    /\ shutdown \in {"none", "draining", "closing", "unbound", "flushed"}
    /\ sessions \in [Sessions -> {"free", "connecting", "open", "closed"}]
    /\ requests \in [Sessions -> [Ids -> Calls \cup {None}]]
    /\ sessionActive \in [Sessions -> Int]
    /\ active \in Int
    /\ pc \in [Calls -> PcValues]
    /\ kind \in [Calls -> Kinds]
    /\ sid \in [Calls -> Sessions \cup {None}]
    /\ rid \in [Calls -> Ids]
    /\ stale \subseteq Sessions
    /\ awaited \cup timers \cup aborted \cup entered \cup opDone \cup respDone
         \cup counted \cup sending \cup sdkAborted \subseteq Calls
    /\ sdk \in [Calls -> {"none", "queued", "running", "returned", "quiet"}]
    /\ workOf \in [Calls -> Calls \cup {None}]
    /\ notices \subseteq Notices
    /\ answer \in [Calls -> Calls \cup {None, ErrorReply}]

\* The entries of the #sessions map.
Live == {s \in Sessions : sessions[s] \in {"connecting", "open"}}

\* session.requests.get(id) for the session and the id of a call.
Registered(c) == requests[sid[c]][rid[c]]

\* The works that the sessions of S have registered.
RegisteredIn(S) == {c \in Calls : \E s \in S, i \in Ids : requests[s][i] = c}

\* The works that hold a slot of session s.
CountedIn(s) == {c \in counted : sid[c] = s}

\* AbortSignal.any([signal, work.controller.signal, session.controller.signal])
Signalled(c) ==
    \/ c \in sdkAborted
    \/ workOf[c] \in aborted
    \/ sessions[sid[c]] = "closed"

\* A client has been told of the session by the response to its initialize.
Announced(s) ==
    \E d \in Calls : kind[d] = "init" /\ sid[d] = s /\ pc[d] = "accepted"

\* A client that keeps to MCP never uses a request id of a session again.
FreshId(s, i) ==
    ReuseIds \/ \A d \in Calls : pc[d] # "new" /\ sid[d] = s => rid[d] # i

Init ==
    /\ state = "starting" /\ shutdown = "none" /\ awaited = {}
    /\ sessions = [s \in Sessions |-> "free"]
    /\ stale = {}
    /\ requests = [s \in Sessions |-> [i \in Ids |-> None]]
    /\ sessionActive = [s \in Sessions |-> 0]
    /\ active = 0
    /\ pc = [c \in Calls |-> "new"]
    /\ kind = [c \in Calls |-> "query"]
    /\ sid = [c \in Calls |-> None]
    /\ rid \in {[c \in Calls |-> i] : i \in Ids}
    /\ timers = {} /\ aborted = {} /\ entered = {} /\ opDone = {}
    /\ respDone = {} /\ counted = {} /\ sending = {}
    /\ sdk = [c \in Calls |-> "none"]
    /\ workOf = [c \in Calls |-> None]
    /\ sdkAborted = {} /\ notices = {}
    /\ answer = [c \in Calls |-> None]

(***************************************************************************)
(* Steps several handlers share.  Each names the variables it sets.        *)
(***************************************************************************)

\* #settle(session, work) with the flags as they stand after the caller set
\* them: sets the counters, stale, timers and requests.  The entry is deleted
\* by id, whichever work is registered under it.  Operators named SettleTwice
\* and the like, here and below, are plausible bugs of the definition that
\* follows them; no action uses them.
SettleAs(w, release, done) ==
    LET s == sid[w]
    IN  /\ counted' = IF release THEN counted \ {w} ELSE counted
        /\ active' = IF release THEN active - 1 ELSE active
        /\ sessionActive' = IF release
                            THEN [sessionActive EXCEPT ![s] = @ - 1]
                            ELSE sessionActive
        /\ stale' = IF release THEN stale \ {s} ELSE stale
        /\ timers' = IF done THEN timers \ {w} ELSE timers
        /\ requests' = IF done
                       THEN [requests EXCEPT ![s][rid[w]] = None]
                       ELSE requests

SettleTwice(w, op, resp) == SettleAs(w, w \in op, w \in op \cap resp)
SettleOnResponse(w, op, resp) ==
    SettleAs(w, w \in (op \cup resp) \cap counted, w \in op \cap resp)
Settle(w, op, resp) == SettleAs(w, w \in op \cap counted, w \in op \cap resp)

\* transport.send of `reply` up to its await, for each work of a set: a work
\* whose response is finished is skipped.  Sets respDone, sending and answer.
SendNow(fresh, reply) ==
    /\ respDone' = respDone \cup fresh
    /\ sending' = sending \cup fresh
    /\ answer' = [c \in Calls |-> IF c \in fresh THEN reply ELSE answer[c]]

StartSendAgain(works, reply) == SendNow(works, reply)
StartSend(works, reply) == SendNow(works \ respDone, reply)

\* #cancel up to its await, for each work of a set; None is an unknown id.
\* Mutant: the client is not told.
CancelSilently(works) ==
    aborted' = aborted \cup (works \ {None}) /\ StartSend({}, ErrorReply)
Cancel(works) ==
    /\ aborted' = aborted \cup (works \ {None})
    /\ StartSend(works \ {None}, ErrorReply)

\* #closeSession up to its await, for the live sessions of a set.
CloseWithoutCancel(S) ==
    /\ sessions' = [s \in Sessions |->
                      IF s \in S \cap Live THEN "closed" ELSE sessions[s]]
    /\ Cancel({})
CloseSessions(S) ==
    /\ sessions' = [s \in Sessions |->
                      IF s \in S \cap Live THEN "closed" ELSE sessions[s]]
    /\ Cancel(RegisteredIn(S \cap Live))

(***************************************************************************)
(* handle(): arrival, body, session lookup, initialize, admission.         *)
(***************************************************************************)

Start ==
    /\ state = "starting"
    /\ state' = "ready"
    /\ UNCHANGED <<shutdown, awaited, sessions, stale, requests, countVars, pc,
                   sid, callVars, timers, flagVars, sdkVars>>

\* A POST arrives: handle() up to `await request.text()`.  A client names a
\* session it was told of; initialize carries no session id.
Arrive(c, k, s, i) ==
    /\ pc[c] = "new"
    /\ IF k = "init" THEN s = None
                     ELSE s \in Sessions /\ Announced(s)
    /\ FreshId(s, i)
    /\ pc' = [pc EXCEPT ![c] = IF state = "ready" THEN "parsing" ELSE "refused"]
    /\ kind' = [kind EXCEPT ![c] = k]
    /\ sid' = [sid EXCEPT ![c] = s]
    /\ rid' = [rid EXCEPT ![c] = i]
    /\ UNCHANGED <<serviceVars, sessions, stale, requests, countVars, timers,
                   flagVars, sdkVars>>

\* An early return of handle() that changes nothing else.
Reply(c, how) ==
    /\ pc' = [pc EXCEPT ![c] = how]
    /\ UNCHANGED <<serviceVars, sessions, stale, requests, countVars, sid,
                   callVars, timers, flagVars, sdkVars>>

\* The limits of a session and of the service (lines 141 to 146).
AtCapacity(s) == sessionActive[s] >= MaxPerSession \/ active >= MaxGlobal

\* Lines 134 to 158: the checks after the session is known, registration, and
\* the synchronous part of transport.handleRequest, which either dispatches
\* the request to the SDK or will answer with a status of 400 or more.
Admit(c, s, dispatched) ==
    /\ stale' = stale \ {s}
    /\ IF requests[s][rid[c]] # None
       THEN /\ pc' = [pc EXCEPT ![c] = "refused"]
            /\ UNCHANGED <<requests, countVars, timers, sdk>>
       ELSE IF AtCapacity(s)
       THEN /\ pc' = [pc EXCEPT ![c] = "capacity"]
            /\ UNCHANGED <<requests, countVars, timers, sdk>>
       ELSE /\ requests' = [requests EXCEPT ![s][rid[c]] = c]
            /\ sessionActive' = [sessionActive EXCEPT ![s] = @ + 1]
            /\ active' = active + 1
            /\ counted' = counted \cup {c}
            /\ timers' = timers \cup {c}
            /\ pc' = [pc EXCEPT ![c] =
                        IF dispatched THEN "accepted" ELSE "rejecting"]
            /\ sdk' = [sdk EXCEPT ![c] = IF dispatched THEN "queued" ELSE @]
    /\ UNCHANGED <<serviceVars, sid, callVars, flagVars, workOf, sdkAborted,
                   notices>>

\* The body of a request that names a session has been read.
BodyRead(c) ==
    /\ pc[c] = "parsing" /\ kind[c] # "init"
    /\ IF state # "ready" \/ sid[c] \notin Live
       THEN Reply(c, "refused")
       ELSE \E dispatched \in BOOLEAN :
              Admit(c, sid[c], dispatched) /\ UNCHANGED sessions

\* The body of an initialize request has been read: #createSession reserves
\* the session before it awaits server.connect.
ReserveSession(c) ==
    /\ pc[c] = "parsing" /\ kind[c] = "init"
    /\ IF Cardinality(Live) >= MaxSessions \/ active >= MaxGlobal
       THEN Reply(c, "capacity")
       ELSE \E s \in Sessions :
              /\ sessions[s] = "free"
              /\ sessions' = [sessions EXCEPT ![s] = "connecting"]
              /\ sid' = [sid EXCEPT ![c] = s]
              /\ pc' = [pc EXCEPT ![c] = "connecting"]
              /\ UNCHANGED <<serviceVars, stale, requests, countVars, callVars,
                             timers, flagVars, sdkVars>>

\* The check of the state that follows the body (line 124).
InitializeRead(c) ==
    IF state # "ready"
    THEN pc[c] = "parsing" /\ kind[c] = "init" /\ Reply(c, "refused")
    ELSE ReserveSession(c)

\* server.connect has resolved; handle() goes on after `await #createSession()`.
Connected(c) ==
    /\ pc[c] = "connecting"
    /\ IF state # "ready"
       THEN /\ CloseSessions({sid[c]})
            /\ pc' = [pc EXCEPT ![c] = "refused"]
            /\ UNCHANGED <<serviceVars, stale, requests, countVars, sid,
                           callVars, timers, entered, opDone, sdkVars>>
       ELSE IF sessions[sid[c]] = "closed"
       THEN Reply(c, "refused")
       ELSE /\ sessions' = [sessions EXCEPT ![sid[c]] = "open"]
            /\ \E dispatched \in BOOLEAN : Admit(c, sid[c], dispatched)

\* server.connect has failed: the session is closed, handle() rejects.
ConnectFails(c) ==
    /\ pc[c] = "connecting"
    /\ CloseSessions({sid[c]})
    /\ pc' = [pc EXCEPT ![c] = "refused"]
    /\ UNCHANGED <<serviceVars, stale, requests, countVars, sid, callVars,
                   timers, entered, opDone, sdkVars>>

\* handleRequest resolved with a status of 400 or more (lines 165 to 170).  A
\* session that initialize has created is closed: its id was never announced,
\* so no other request is registered in it.
RejectedCloses(c) ==
    sessions' = IF kind[c] = "init"
                THEN [sessions EXCEPT ![sid[c]] = "closed"]
                ELSE sessions

Rejected(c) ==
    /\ pc[c] = "rejecting"
    /\ opDone' = opDone \cup {c}
    /\ respDone' = respDone \cup {c}
    /\ Settle(c, opDone', respDone')
    /\ RejectedCloses(c)
    /\ pc' = [pc EXCEPT ![c] = "refused"]
    /\ UNCHANGED <<serviceVars, sid, callVars, aborted, entered, sending,
                   answer, sdkVars>>

\* handleRequest threw: the catch block cancels the work ...
Faulted(c) ==
    /\ pc[c] = "rejecting"
    /\ Cancel({Registered(c)})
    /\ pc' = [pc EXCEPT ![c] = IF kind[c] = "init" THEN "faulted" ELSE "refused"]
    /\ UNCHANGED <<serviceVars, sessions, stale, requests, countVars, sid,
                   callVars, timers, entered, opDone, sdkVars>>

\* ... and, the cancellation awaited, closes a session it has just created.
FaultedClose(c) ==
    /\ pc[c] = "faulted" /\ c \notin sending
    /\ CloseSessions({sid[c]})
    /\ pc' = [pc EXCEPT ![c] = "refused"]
    /\ UNCHANGED <<serviceVars, stale, requests, countVars, sid, callVars,
                   timers, entered, opDone, sdkVars>>

(***************************************************************************)
(* What the SDK and the tools do with a dispatched request.                *)
(***************************************************************************)

\* The handler of a tool calls runTool: the work is looked up by request id.
RunTool(c) ==
    /\ sdk[c] = "queued" /\ kind[c] = "tool"
    /\ LET w == Registered(c)
       IN  IF w = None \/ sessions[sid[c]] = "closed" \/ w \in aborted
           THEN /\ sdk' = [sdk EXCEPT ![c] = "returned"]  \* REQUEST_CANCELLED
                /\ UNCHANGED <<entered, workOf>>
           ELSE /\ entered' = entered \cup {w}
                /\ workOf' = [workOf EXCEPT ![c] = w]
                /\ sdk' = [sdk EXCEPT ![c] = "running"]
    /\ UNCHANGED <<serviceVars, sessions, stale, requests, countVars, pc, sid,
                   callVars, timers, aborted, opDone, respDone, sending, answer,
                   sdkAborted, notices>>

\* A request that never reaches runTool has been handled: initialize, a query
\* such as tools/list, or a tool call whose input the SDK refuses.
HandledBySdk(c) ==
    /\ sdk[c] = "queued"
    /\ sdk' = [sdk EXCEPT ![c] = "returned"]
    /\ UNCHANGED <<serviceVars, sessions, stale, requests, countVars, pc, sid,
                   callVars, timers, flagVars, workOf, sdkAborted, notices>>

\* The operation of runTool settles: its finally block.
OperationFinished(c) ==
    /\ sdk[c] = "running"
    /\ opDone' = opDone \cup {workOf[c]}
    /\ Settle(workOf[c], opDone', respDone)
    /\ sdk' = [sdk EXCEPT ![c] = "returned"]
    /\ UNCHANGED <<serviceVars, sessions, pc, sid, callVars, aborted, entered,
                   respDone, sending, answer, workOf, sdkAborted, notices>>

\* The SDK sends what the handler returned, unless it was told to cancel; the
\* overridden transport.send finds the work by request id.
SendResult(c) ==
    /\ sdk[c] = "returned"
    /\ sdk' = [sdk EXCEPT ![c] = "quiet"]
    /\ IF c \in sdkAborted
       THEN UNCHANGED <<respDone, sending, answer>>
       ELSE StartSend({Registered(c)} \ {None}, c)
    /\ UNCHANGED <<serviceVars, sessions, stale, requests, countVars, pc, sid,
                   callVars, timers, aborted, entered, opDone, workOf,
                   sdkAborted, notices>>

\* The finally block of transport.send: a request that never entered runTool
\* ends with its response.
EndsNever(w) == opDone
EndsWithResponse(w) == IF w \in entered THEN opDone ELSE opDone \cup {w}

SendFinished(w) ==
    /\ w \in sending
    /\ sending' = sending \ {w}
    /\ opDone' = EndsWithResponse(w)
    /\ Settle(w, opDone', respDone)
    /\ UNCHANGED <<serviceVars, sessions, pc, sid, callVars, aborted, entered,
                   respDone, answer, sdkVars>>

(***************************************************************************)
(* Cancellation: deadline, notifications/cancelled, DELETE, idle sweep.    *)
(***************************************************************************)

\* The timer of a work fires.
RequestTimedOut(w) ==
    /\ w \in timers
    /\ timers' = timers \ {w}
    /\ Cancel({Registered(w)})
    /\ UNCHANGED <<serviceVars, sessions, stale, requests, countVars, pc, sid,
                   callVars, entered, opDone, sdkVars>>

\* The body of a notifications/cancelled POST has been read.
CancelNotification(s, i) ==
    /\ state = "ready" /\ sessions[s] = "open" /\ Announced(s)
    /\ \A n \in notices : n.sid # s \/ n.id # i     \* bound: one at a time
    /\ stale' = stale \ {s}
    /\ Cancel({requests[s][i]})
    /\ notices' = notices \cup {[sid |-> s, id |-> i, wait |-> requests[s][i]]}
    /\ UNCHANGED <<serviceVars, sessions, requests, countVars, pc, sid, callVars,
                   timers, entered, opDone, sdk, workOf, sdkAborted>>

\* Its #cancel awaited, the notification reaches the SDK, which aborts the
\* signal of the request it still handles under that id.
NotifySdk(n) ==
    /\ n \in notices /\ n.wait \notin sending
    /\ notices' = notices \ {n}
    /\ LET handled == {c \in Calls : /\ sid[c] = n.sid /\ rid[c] = n.id
                                     /\ sdk[c] \in {"queued", "running", "returned"}}
       IN  IF handled = {}
           THEN UNCHANGED sdkAborted
           ELSE \E c \in handled : sdkAborted' = sdkAborted \cup {c}
    /\ UNCHANGED <<serviceVars, sessions, stale, requests, countVars, pc, sid,
                   callVars, timers, flagVars, sdk, workOf>>

\* DELETE /mcp: the transport calls onsessionclosed.
DeleteSession(s) ==
    /\ state = "ready" /\ sessions[s] = "open" /\ Announced(s)
    /\ CloseSessions({s})
    /\ stale' = stale \ {s}
    /\ UNCHANGED <<serviceVars, requests, countVars, pc, sid, callVars, timers,
                   entered, opDone, sdkVars>>

\* sessionIdleMs pass without a lastActivity.
GrowsStale(s) ==
    /\ s \in Live \ stale
    /\ stale' = stale \cup {s}
    /\ UNCHANGED <<serviceVars, sessions, requests, countVars, pc, sid, callVars,
                   timers, flagVars, sdkVars>>

Idle == {s \in Live : sessionActive[s] = 0 /\ s \in stale}

SweepIdleSessions ==
    /\ state = "ready" /\ Idle # {}
    /\ CloseSessions(Idle)
    /\ UNCHANGED <<serviceVars, stale, requests, countVars, pc, sid, callVars,
                   timers, entered, opDone, sdkVars>>

(***************************************************************************)
(* #stop.                                                                  *)
(***************************************************************************)

Stop ==
    /\ shutdown = "none"
    /\ state' = "stopping" /\ shutdown' = "draining"
    /\ UNCHANGED <<awaited, sessions, stale, requests, countVars, pc, sid,
                   callVars, timers, flagVars, sdkVars>>

\* No request is active, or the grace period is over.
CloseAllSessions ==
    /\ shutdown = "draining"
    /\ shutdown' = "closing"
    /\ awaited' = RegisteredIn(Live) \ respDone
    /\ CloseSessions(Live)
    /\ UNCHANGED <<state, stale, requests, countVars, pc, sid, callVars, timers,
                   entered, opDone, sdkVars>>

\* listener.stop(true), once every cancellation is sent.
StopListening ==
    /\ shutdown = "closing" /\ awaited \cap sending = {}
    /\ shutdown' = "unbound"
    /\ UNCHANGED <<state, awaited, sessions, stale, requests, countVars, pc, sid,
                   callVars, timers, flagVars, sdkVars>>

\* No request is active, or another second is over: usage.flush().
Flush ==
    /\ shutdown = "unbound"
    /\ shutdown' = "flushed"
    /\ UNCHANGED <<state, awaited, sessions, stale, requests, countVars, pc, sid,
                   callVars, timers, flagVars, sdkVars>>

(***************************************************************************)
(* Specification.                                                          *)
(***************************************************************************)
Handle(c) ==
    \/ \E k \in Kinds, s \in Sessions \cup {None}, i \in Ids : Arrive(c, k, s, i)
    \/ BodyRead(c) \/ InitializeRead(c) \/ Connected(c) \/ ConnectFails(c)
    \/ Rejected(c) \/ Faulted(c) \/ FaultedClose(c)

Sdk(c) ==
    \/ RunTool(c) \/ HandledBySdk(c) \/ OperationFinished(c) \/ SendResult(c)
    \/ SendFinished(c)

Cancellation ==
    \/ \E c \in Calls : RequestTimedOut(c)
    \/ \E s \in Sessions, i \in Ids : CancelNotification(s, i)
    \/ \E n \in notices : NotifySdk(n)
    \/ \E s \in Sessions : DeleteSession(s) \/ GrowsStale(s)
    \/ SweepIdleSessions

Shutdown == Stop \/ CloseAllSessions \/ StopListening \/ Flush

Next ==
    \/ Start
    \/ \E c \in Calls : Handle(c) \/ Sdk(c)
    \/ Cancellation
    \/ Shutdown

Spec == Init /\ [][Next]_vars

\* The event loop runs every continuation and every armed timer.  The steps of
\* Continue and of SdkStep exclude each other for one call, so one fairness
\* condition serves each group.  A tool's operation is only sure to end once
\* its signal is aborted: its RPC to the extension host then rejects.  Clients
\* owe nothing.
Continue(c) ==
    \/ BodyRead(c) \/ InitializeRead(c) \/ Connected(c) \/ ConnectFails(c)
    \/ Rejected(c) \/ Faulted(c) \/ FaultedClose(c)

SdkStep(c) ==
    \/ RunTool(c) \/ HandledBySdk(c) \/ SendResult(c)
    \/ OperationFinished(c) /\ Signalled(c)

Fairness ==
    /\ \A c \in Calls : /\ WF_vars(Continue(c))
                        /\ WF_vars(SdkStep(c))
                        /\ WF_vars(SendFinished(c))
                        /\ WF_vars(RequestTimedOut(c))
    /\ WF_vars(CloseAllSessions \/ StopListening \/ Flush)

FairSpec == Spec /\ Fairness

(***************************************************************************)
(* Safety.                                                                 *)
(***************************************************************************)

\* The counters that admission reads equal the works that hold a slot, in the
\* process and in each session, whatever the order in which answers, timeouts,
\* cancellations and operations settle (#settle, lines 224 to 235).
Accounting ==
    /\ active = Cardinality(counted)
    /\ \A s \in Sessions : sessionActive[s] = Cardinality(CountedIn(s))

\* "Limits are 128 sessions, eight concurrent requests per session and 64
\* globally" (docs/adr/0022): although the checks are separated from the
\* registration by awaits, no limit is ever exceeded.
WithinLimits ==
    /\ Cardinality(Live) <= MaxSessions
    /\ Cardinality(counted) <= MaxGlobal
    /\ \A s \in Sessions : Cardinality(CountedIn(s)) <= MaxPerSession

\* Closing a session, for whichever reason, aborts every operation that still
\* runs in it (#closeSession, lines 246 to 253).
CloseReachesOperations ==
    \A c \in Calls : sdk[c] = "running" /\ sessions[sid[c]] = "closed"
                       => workOf[c] \in aborted

\* A request is answered at most once, and the answer is never replaced
\* (transport.send, lines 206 to 217).
AnsweredOnce == [][\A c \in Calls : answer[c] # None => answer'[c] = answer[c]]_vars

(***************************************************************************)
(* Liveness.                                                               *)
(***************************************************************************)

\* Every slot is given back: a timeout, a cancellation and a completion that
\* race release it exactly when the operation has ended.
SlotsReleased == \A c \in Calls : c \in counted ~> c \notin counted

\* Every dispatched request is answered or its client is told it is cancelled.
EveryRequestAnswered == \A c \in Calls : pc[c] = "accepted" ~> answer[c] # None

(***************************************************************************)
(* The runtime implements Admission.                                       *)
(***************************************************************************)
Promise == INSTANCE Admission WITH
    held     <- [s \in Sessions |-> CountedIn(s)],
    busy     <- {workOf[c] : c \in {d \in Calls : sdk[d] = "running"}},
    decided  <- {c \in Calls : pc[c] \notin {"new", "parsing", "connecting"}},
    answered <- {c \in Calls : answer[c] # None}

\* Every step of the runtime is a step of Admission or leaves its state alone.
ImplementsAdmission == Promise!Spec
=============================================================================
