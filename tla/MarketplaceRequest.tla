-------------------------- MODULE MarketplaceRequest --------------------------
(***************************************************************************)
(* The query of the Marketplace (marketplace-client.ts), over a tunnel of  *)
(* the configured proxy or directly: the connection, the answer of the     *)
(* proxy to CONNECT, the TLS handshake, and the request with its limits.   *)
(* Each step waits for a socket with a timer and listeners of its own.     *)
(*                                                                         *)
(* The network is external.  A socket destroys itself when it has an error *)
(* and when its peer has ended; an error of one to which nobody listens is *)
(* uncaught.  The TLS socket and the one under it are one socket here.     *)
(***************************************************************************)
EXTENDS Naturals

CONSTANTS MaxHeader,    \* readProxyResponseHeader: 16_384 bytes
          MaxResponse   \* MAX_RESPONSE_BYTES

VARIABLES
    at,         \* the step the query is at, or how it ended
    socket,
    listening,  \* somebody listens to the errors of the socket
    timer,      \* "step": of waitForSocket and readProxyResponseHeader; "idle": of the request
    bytes,      \* received in this step
    status,     \* of a response that is under way
    gaveUp,     \* history: the wait for the header of the proxy was given up
    uncaught    \* history: an error that nobody listened to

vars == <<at, socket, listening, timer, bytes, status, gaveUp, uncaught>>

Init ==
    /\ at = "idle" /\ socket = "none" /\ listening = FALSE /\ timer = "off" /\ bytes = 0
    /\ status = "none" /\ gaveUp = FALSE /\ uncaught = FALSE

Handshakes == {"connect", "secureConnect"}
Waits == Handshakes \cup {"header"}
Settled == {"failed", "answered"}

\* waitForSocket, readProxyResponseHeader and https.request: a step begins.
Wait(step, which) ==
    /\ at' = step /\ socket' = "open" /\ listening' = TRUE /\ timer' = which /\ bytes' = 0

\* search
Search ==
    /\ at = "idle"
    /\ \/ Wait("connect", "step")
       \/ Wait("request", "idle")
    /\ UNCHANGED <<status, gaveUp, uncaught>>

\* cleanup of waitForSocket, and what createProxyTunnel goes on with
Ready ==
    /\ at \in Handshakes /\ socket = "open"
    /\ IF at = "connect" THEN Wait("header", "step") ELSE Wait("request", "idle")
    /\ UNCHANGED <<status, gaveUp, uncaught>>

\* A step ends with an error: its timer and listeners go.
Fails(left, givenUp) ==
    /\ at' = "failed" /\ socket' = left /\ listening' = FALSE /\ timer' = "off" /\ gaveUp' = givenUp
    /\ UNCHANGED <<bytes, status, uncaught>>

\* Mutant: the timer of waitForSocket leaves the socket as it is.
LeftOpen(step) == "open"
\* What a timer leaves of the socket: the one of readProxyResponseHeader leaves it open.
AfterTimeout(step) == IF step = "header" THEN "open" ELSE "closed"

TimesOut == at \in Waits /\ timer = "step" /\ Fails(AfterTimeout(at), at = "header")

\* onData of readProxyResponseHeader, of a part of the header that is not its end
HeaderPart ==
    /\ at = "header" /\ socket = "open"
    /\ IF bytes = MaxHeader THEN Fails("open", TRUE)
       ELSE bytes' = bytes + 1 /\ UNCHANGED <<at, socket, listening, timer, status, gaveUp, uncaught>>

\* createProxyTunnel: the proxy has answered.
Tunnelled ==
    /\ at = "header" /\ socket = "open" /\ bytes < MaxHeader
    /\ \/ Wait("secureConnect", "step") /\ UNCHANGED <<status, gaveUp, uncaught>>
       \/ Fails("closed", FALSE)

\* onEnd of readProxyResponseHeader
HeaderEnds == at = "header" /\ socket = "open" /\ Fails("closed", FALSE)

\* An error of the socket or of the request
Breaks ==
    /\ socket = "open"
    /\ socket' = "closed" /\ timer' = "off" /\ listening' = FALSE
    /\ at' = IF at \in Settled THEN at ELSE "failed"
    /\ uncaught' = (uncaught \/ ~listening)
    /\ UNCHANGED <<bytes, status, gaveUp>>

\* The response callback: one that is refused is resumed, and its socket stays until it ends.
Responds ==
    /\ at = "request" /\ socket = "open" /\ status = "none"
    /\ \/ status' = "accepted" /\ at' = at
       \/ status' = "refused" /\ at' = "failed"
    /\ UNCHANGED <<socket, listening, timer, bytes, gaveUp, uncaught>>

ResponseData ==
    /\ status = "accepted" /\ at = "request" /\ socket = "open"
    /\ IF bytes = MaxResponse THEN Fails("closed", FALSE)
       ELSE bytes' = bytes + 1 /\ UNCHANGED <<at, socket, listening, timer, status, gaveUp, uncaught>>

ResponseEnds ==
    /\ status # "none" /\ socket = "open"
    /\ at' = IF status = "accepted" THEN "answered" ELSE at
    /\ socket' = "closed" /\ listening' = FALSE /\ timer' = "off"
    /\ UNCHANGED <<bytes, status, gaveUp, uncaught>>

\* The timeout of the request, which is one of a socket on which nothing is received
IdleTooLong ==
    /\ timer = "idle" /\ socket = "open"
    /\ at' = IF at \in Settled THEN at ELSE "failed"
    /\ socket' = "closed" /\ listening' = FALSE /\ timer' = "off"
    /\ UNCHANGED <<bytes, status, gaveUp, uncaught>>

\* The peer ends a socket that nobody waits for any more.
PeerEnds ==
    /\ at \in Settled /\ socket = "open" /\ status = "none"
    /\ socket' = "closed" /\ UNCHANGED <<at, listening, timer, bytes, status, gaveUp, uncaught>>

Next ==
    \/ Search \/ Ready \/ TimesOut \/ HeaderPart \/ Tunnelled \/ HeaderEnds \/ Breaks
    \/ Responds \/ ResponseData \/ ResponseEnds \/ IdleTooLong \/ PeerEnds

Spec == Init /\ [][Next]_vars

(***************************************************************************)
(* Properties                                                              *)
(***************************************************************************)

TypeOK ==
    /\ at \in {"idle", "request"} \cup Waits \cup Settled
    /\ socket \in {"none", "open", "closed"} /\ timer \in {"off", "step", "idle"}
    /\ bytes \in 0..MaxResponse \cup 0..MaxHeader

\* search: when a query has ended, its socket is closed, or is read to the end of a refused response
\* with a timer that goes on; and no error is uncaught. Excepted is a query that gave up while it
\* waited for the header of the proxy: its socket stays open without a timer or a listener.
SocketsReleased ==
    ~gaveUp =>
        /\ at \in Settled /\ socket = "open" => status = "refused" /\ timer = "idle" /\ listening
        /\ ~uncaught
=============================================================================
