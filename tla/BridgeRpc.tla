----------------------------- MODULE BridgeRpc -----------------------------
(***************************************************************************)
(* Tool calls between the daemon (packages/mcp-server/src/rpc-client.ts,   *)
(* mcp-session.ts) and one window (packages/vscode-extension/src/          *)
(* bridge-host.ts, the request handlers and agent-activity.ts).            *)
(*                                                                         *)
(* Every call opens a connection of its own, initializes it, sends one     *)
(* request and closes it.  A connection is two queues; destroying a socket *)
(* keeps any prefix of what was written before it, then the other end sees *)
(* the close.  Every timer may fire at any time while it is set.           *)
(***************************************************************************)
EXTENDS Naturals, Sequences, ToolTable

CONSTANTS Calls, Nil,
          Offered,    \* the tools that are called
          MaxStops,   \* bound: times the window stops publishing
          MaxErrors   \* bound: operations of a manager that throw

RpcAssumption ==
    /\ Offered \subseteq Routed /\ MaxStops \in Nat /\ MaxErrors \in Nat
    /\ Nil \notin {"ok", "error", "refused", "cancelled", "timeout", "unavailable"}

VARIABLES
    listening,  \* does the server of the window accept connections?
    lifecycle,  \* of the window
    call,       \* the daemon's side of each call
    up, down,   \* what is on its way to the window, and to the daemon
    peer,       \* the window's side: ConnectionState and the handler of the request
    entry,      \* the activity entry of the call
    begun, completed,   \* work of a handler that has begun, that is done
    stops, errors

work == <<entry, begun, completed>>
window == <<listening, lifecycle, stops>>
vars == <<window, call, up, down, peer, work, errors>>

\* Is the daemon's socket still there?
Attached(c) == call[c].at \in {"connecting", "abandoned", "initializing", "requested"}
Serving(c) == peer[c].at = "open"

NoPeer == [at |-> "none", authenticated |-> FALSE, handler |-> "none", aborted |-> FALSE]

Init ==
    /\ listening = TRUE /\ lifecycle \in {"initializing", "ready"}
    /\ call \in [Calls -> [at : {"idle"}, tool : Offered, token : BOOLEAN,
                           cancelled : {FALSE}, sent : {FALSE}, result : {Nil}]]
    /\ up = [c \in Calls |-> <<>>] /\ down = [c \in Calls |-> <<>>]
    /\ peer = [c \in Calls |-> NoPeer]
    /\ entry = [c \in Calls |-> "none"] /\ begun = {} /\ completed = {}
    /\ stops = 0 /\ errors = 0

(***************************************************************************)
(* The daemon                                                              *)
(***************************************************************************)

\* The caller learns of a result once.
Told(c, result) == IF call[c].result = Nil THEN result ELSE call[c].result

\* socket.destroy()
Detach(c) ==
    /\ \E n \in 0..Len(up[c]) :
          up' = [up EXCEPT ![c] = IF Serving(c) THEN Append(SubSeq(@, 1, n), "close") ELSE <<>>]
    /\ down' = [down EXCEPT ![c] = <<>>]

\* The promise is settled, and the finally of requestBridgeResult closes the socket.
Close(c, result) ==
    /\ call' = [call EXCEPT ![c].at = "closed", ![c].result = Told(c, result)]
    /\ Detach(c)

\* requestBridgeResult
Start(c) ==
    /\ call[c].at = "idle"
    /\ call' = [call EXCEPT ![c] =
          IF @.cancelled THEN [@ EXCEPT !.at = "closed", !.result = "cancelled"]
          ELSE [@ EXCEPT !.at = "connecting"]]
    /\ UNCHANGED <<window, up, down, peer, work, errors>>

\* request: the message and its timer
Send(c, message) == up' = [up EXCEPT ![c] = Append(@, message)]

\* Mutant: the connect handlers are left as they are.
ConnectedAnyway(c) ==
    /\ call[c].at \in {"connecting", "abandoned"} /\ listening
    /\ peer' = [peer EXCEPT ![c].at = "open"]
    /\ call' = [call EXCEPT ![c].at = "initializing"]
    /\ Send(c, "initialize")
    /\ UNCHANGED <<window, down, work, errors>>

\* The connect event.  One whose call was cancelled meanwhile is closed.
Connected(c) ==
    /\ listening
    /\ peer' = [peer EXCEPT ![c].at = "open"]
    /\ \/ /\ call[c].at = "connecting"
          /\ call' = [call EXCEPT ![c].at = "initializing"]
          /\ Send(c, "initialize")
       \/ /\ call[c].at = "abandoned"
          /\ call' = [call EXCEPT ![c].at = "closed"]
          /\ up' = [up EXCEPT ![c] = <<"close">>]
    /\ UNCHANGED <<window, down, work, errors>>

ConnectFails(c) ==
    /\ call[c].at \in {"connecting", "abandoned"}
    /\ \E result \in {"timeout"} \cup IF listening THEN {} ELSE {"unavailable"} : Close(c, result)
    /\ UNCHANGED <<window, peer, work, errors>>

\* Mutant: the handlers are removed with the listener of the signal.
AbandonedAtOnce(c) ==
    /\ ~ call[c].cancelled /\ call[c].at # "closed"
    /\ \/ /\ call[c].at = "idle"
          /\ call' = [call EXCEPT ![c].cancelled = TRUE]
          /\ UNCHANGED <<up, down>>
       \/ /\ call[c].at = "connecting"
          /\ call' = [call EXCEPT ![c] = [@ EXCEPT !.cancelled = TRUE, !.at = "forgotten",
                                                   !.result = "cancelled"]]
          /\ UNCHANGED <<up, down>>
       \/ /\ call[c].at \in {"initializing", "requested"}
          /\ call' = [call EXCEPT ![c] = [@ EXCEPT !.cancelled = TRUE, !.at = "closed",
                                                   !.result = "cancelled"]]
          /\ Detach(c)
    /\ UNCHANGED <<window, peer, work, errors>>

\* The signal of the call is aborted: a connect under way cannot be stopped.
Cancel(c) ==
    /\ ~ call[c].cancelled /\ call[c].at # "closed"
    /\ \/ /\ call[c].at = "idle"
          /\ call' = [call EXCEPT ![c].cancelled = TRUE]
          /\ UNCHANGED <<up, down>>
       \/ /\ call[c].at = "connecting"
          /\ call' = [call EXCEPT ![c] = [@ EXCEPT !.cancelled = TRUE, !.at = "abandoned",
                                                   !.result = "cancelled"]]
          /\ UNCHANGED <<up, down>>
       \/ /\ call[c].at \in {"initializing", "requested"}
          /\ call' = [call EXCEPT ![c] = [@ EXCEPT !.cancelled = TRUE, !.at = "closed",
                                                   !.result = "cancelled"]]
          /\ Detach(c)
    /\ UNCHANGED <<window, peer, work, errors>>

\* The timer of the request under way.
TimesOut(c) ==
    /\ call[c].at \in {"initializing", "requested"}
    /\ Close(c, "timeout")
    /\ UNCHANGED <<window, peer, work, errors>>

\* #handleData and the close of the socket
DaemonReceives(c) ==
    /\ Attached(c) /\ down[c] # <<>>
    /\ LET message == Head(down[c])
       IN IF message = "initialized"
          THEN /\ call' = [call EXCEPT ![c].at = "requested", ![c].sent = TRUE]
               /\ Send(c, "request")
               /\ down' = [down EXCEPT ![c] = Tail(@)]
          ELSE Close(c, IF message = "close" THEN "unavailable" ELSE message)
    /\ UNCHANGED <<window, peer, work, errors>>

(***************************************************************************)
(* The window                                                              *)
(***************************************************************************)

Reply(c, message) ==
    down' = IF Attached(c) THEN [down EXCEPT ![c] = Append(@, message)] ELSE down

\* The close event aborts the handler.
Gone(p) == [p EXCEPT !.at = "closed", !.aborted = p.handler = "running"]

\* initialize
Initialize(c) ==
    /\ Serving(c) /\ up[c] # <<>> /\ Head(up[c]) = "initialize"
    /\ up' = [up EXCEPT ![c] = Tail(@)]
    /\ IF call[c].token
       THEN /\ peer' = [peer EXCEPT ![c].authenticated = TRUE]
            /\ Reply(c, "initialized")
       ELSE Reply(c, "refused") /\ UNCHANGED peer    \* the daemon closes, as the window does
    /\ UNCHANGED <<window, call, work, errors>>

Admits(c) == peer[c].authenticated /\ lifecycle = "ready"

\* Mutant: a request that is not admitted is refused, and goes on.
HandleOnwards(c) ==
    /\ Serving(c) /\ up[c] # <<>> /\ Head(up[c]) = "request"
    /\ up' = [up EXCEPT ![c] = Tail(@)]
    /\ peer' = [peer EXCEPT ![c].handler = "running"]
    /\ begun' = begun \cup {c}
    /\ entry' = IF call[c].tool \in Tracked THEN [entry EXCEPT ![c] = "running"] ELSE entry
    /\ IF Admits(c) THEN UNCHANGED down ELSE Reply(c, "refused")
    /\ UNCHANGED <<window, call, completed, errors>>

\* #handleMessage: the handler runs up to its first await, past the only check
\* of the signal.
Handle(c) ==
    /\ Serving(c) /\ up[c] # <<>> /\ Head(up[c]) = "request"
    /\ up' = [up EXCEPT ![c] = Tail(@)]
    /\ IF Admits(c)
       THEN /\ peer' = [peer EXCEPT ![c].handler = "running"]
            /\ begun' = begun \cup {c}
            /\ entry' = IF call[c].tool \in Tracked THEN [entry EXCEPT ![c] = "running"] ELSE entry
            /\ UNCHANGED down
       ELSE /\ Reply(c, "refused")
            /\ UNCHANGED <<peer, begun, entry>>
    /\ UNCHANGED <<window, call, completed, errors>>

\* The manager does its work; nothing looks at the signal any more.
Work(c) ==
    /\ peer[c].handler = "running" /\ c \notin completed
    /\ completed' = completed \cup {c}
    /\ UNCHANGED <<window, call, up, down, peer, entry, begun, errors>>

\* Mutant: what the operation returns is not waited for.
ReturnsEarly(c) == peer[c].handler = "running"
Returns(c) == peer[c].handler = "running" /\ c \in completed

\* The operation of the manager returns, or throws, before its work or after.
HandlerEnds(c) ==
    /\ \E ok \in BOOLEAN :
          /\ IF ok THEN Returns(c) /\ UNCHANGED errors
             ELSE /\ peer[c].handler = "running" /\ errors < MaxErrors
                  /\ errors' = errors + 1
          /\ \E status \in IF ok THEN {"succeeded", "no-op"} ELSE {"rejected", "failed"} :
                entry' = IF entry[c] = "running" THEN [entry EXCEPT ![c] = status] ELSE entry
          /\ IF peer[c].aborted \/ ~ Serving(c) THEN UNCHANGED down
             ELSE Reply(c, IF ok THEN "ok" ELSE "error")
    /\ peer' = [peer EXCEPT ![c].handler = "ended"]
    /\ UNCHANGED <<window, call, up, begun, completed>>

\* The daemon has closed the connection.
WindowSeesClose(c) ==
    /\ Serving(c) /\ up[c] # <<>> /\ Head(up[c]) = "close"
    /\ up' = [up EXCEPT ![c] = <<>>]
    /\ peer' = [peer EXCEPT ![c] = Gone(@)]
    /\ UNCHANGED <<window, call, down, work, errors>>

\* What the daemon still sees of connections that the window destroys.
Destroyed(cs) ==
    /\ peer' = [c \in Calls |-> IF c \in cs THEN Gone(peer[c]) ELSE peer[c]]
    /\ up' = [c \in Calls |-> IF c \in cs THEN <<>> ELSE up[c]]
    /\ \E kept \in [cs -> 0..1] :
          down' = [c \in Calls |->
              IF c \in cs /\ Attached(c)
              THEN Append(SubSeq(down[c], 1, IF kept[c] = 0 THEN 0 ELSE Len(down[c])), "close")
              ELSE down[c]]

\* The idle timer is off while a handler runs.
IdleTimesOut(c) ==
    /\ Serving(c) /\ peer[c].handler # "running"
    /\ Destroyed({c})
    /\ UNCHANGED <<window, call, work, errors>>

\* stop: every socket is destroyed, handlers that run are told.
Stop ==
    /\ listening /\ stops < MaxStops
    /\ listening' = FALSE /\ stops' = stops + 1
    /\ Destroyed({c \in Calls : Serving(c)})
    /\ UNCHANGED <<lifecycle, call, work, errors>>

Listen ==
    /\ ~ listening
    /\ listening' = TRUE
    /\ UNCHANGED <<lifecycle, stops, call, up, down, peer, work, errors>>

\* markReady, markDegraded
Initialized ==
    /\ lifecycle = "initializing"
    /\ lifecycle' \in {"ready", "degraded"}
    /\ UNCHANGED <<listening, stops, call, up, down, peer, work, errors>>

Daemon(c) == Start(c) \/ Connected(c) \/ ConnectFails(c) \/ TimesOut(c) \/ DaemonReceives(c)
Window(c) == Initialize(c) \/ Handle(c) \/ Work(c) \/ HandlerEnds(c) \/ WindowSeesClose(c)
                \/ IdleTimesOut(c)

Next == Stop \/ Listen \/ Initialized \/ \E c \in Calls : Cancel(c) \/ Daemon(c) \/ Window(c)

Spec == Init /\ [][Next]_vars

\* Timers fire and queues are read; a manager, or VS Code, may never answer.
Fairness ==
    \A c \in Calls :
        /\ WF_vars(Start(c)) /\ WF_vars(ConnectFails(c)) /\ WF_vars(TimesOut(c))
        /\ WF_vars(WindowSeesClose(c)) /\ WF_vars(Initialize(c) \/ Handle(c))

FairSpec == Spec /\ Fairness

(***************************************************************************)
(* Properties                                                              *)
(***************************************************************************)

TypeOK ==
    /\ listening \in BOOLEAN /\ lifecycle \in {"initializing", "ready", "degraded"}
    /\ call \in [Calls -> [at : {"idle", "connecting", "abandoned", "initializing", "requested", "closed"},
                           tool : Offered, token : BOOLEAN, cancelled : BOOLEAN, sent : BOOLEAN,
                           result : {Nil, "ok", "error", "refused", "cancelled", "timeout", "unavailable"}]]
    /\ up \in [Calls -> Seq({"initialize", "request", "close"})]
    /\ down \in [Calls -> Seq({"initialized", "ok", "error", "refused", "close"})]
    /\ peer \in [Calls -> [at : {"none", "open", "closed"}, authenticated : BOOLEAN,
                           handler : {"none", "running", "ended"}, aborted : BOOLEAN]]
    /\ entry \in [Calls -> {"none", "running", "succeeded", "no-op", "rejected", "failed"}]
    /\ begun \subseteq Calls /\ completed \subseteq Calls
    /\ stops \in 0..MaxStops /\ errors \in 0..MaxErrors

Answer(c) ==
    CASE call[c].result = Nil -> "none"
      [] call[c].result \in {"ok", "refused"} -> call[c].result
      [] call[c].result = "cancelled" /\ ~ call[c].sent -> "unsent"
      [] OTHER -> "unknown"

\* What the caller is told is true: the work is begun at most once, "ok" means it is
\* done, and refused or cancelled before the request was sent means it never is.
Promise == INSTANCE RemoteCall WITH answer <- [c \in Calls |-> Answer(c)]
ImplementsRemoteCall == Promise!Spec

\* The activity list tells of work under way as long as it runs, and says it succeeded
\* only of work that is done, whatever became of the connection.
EntryTruthful ==
    \A c \in Calls :
        /\ entry[c] = "running" <=> peer[c].handler = "running" /\ call[c].tool \in Tracked
        /\ entry[c] = "succeeded" => c \in completed

\* Every call ends, and the connection it opened is closed at both ends, whether the
\* manager answers or not.
EveryCallCloses ==
    \A c \in Calls : call[c].at # "idle" ~> call[c].at = "closed" /\ ~ Serving(c)
=============================================================================
