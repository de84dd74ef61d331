------------------------- MODULE HttpRuntimeProofs -------------------------
(***************************************************************************)
(* Theorems about HttpRuntime, for every number of calls, sessions and ids *)
(* and every limit.  The counters, the limits and the single answer hold   *)
(* whether or not clients reuse request ids; what closing a session        *)
(* reaches, and the promise of Admission, need clients that do not.        *)
(***************************************************************************)
EXTENDS HttpRuntime, FiniteSetTheorems, TLAPS

(***************************************************************************)
(* The inductive invariant.  A counter can only be trusted if every work   *)
(* that settles has a session whose counter it was added to; Placed says   *)
(* where the works, entries and handlers of admitted calls can be.         *)
(***************************************************************************)
Admitted == {c \in Calls : /\ pc[c] \in {"rejecting", "faulted", "accepted", "refused"}
                           /\ sid[c] \in Sessions}

Placed ==
    /\ \A c \in Calls :
         \/ pc[c] \in {"connecting", "rejecting", "faulted", "accepted"}
         \/ pc[c] = "parsing" /\ kind[c] # "init"
         => sid[c] \in Sessions
    /\ \A c \in Calls : pc[c] = "connecting" => sessions[sid[c]] # "free"
    /\ counted \subseteq Admitted
    /\ timers \subseteq Admitted
    /\ sending \subseteq Admitted
    /\ \A c \in Calls : sdk[c] # "none" => c \in Admitted
    /\ \A s \in Sessions, i \in Ids : requests[s][i] \in Admitted \cup {None}
    /\ \A c \in Calls : sdk[c] = "running" => workOf[c] \in Admitted

TypedAndPlaced == TypeOK /\ Placed

LEMMA InitTyped == Init => TypedAndPlaced
<1> SUFFICES ASSUME Init PROVE TypedAndPlaced
  OBVIOUS
<1>1. TypeOK
  BY DEF Init, TypeOK, PcValues, Kinds, Notices
<1>2. Placed
  BY DEF Init, Placed, Admitted
<1> QED
  BY <1>1, <1>2 DEF TypedAndPlaced

\* A registered entry is a work of an admitted call, or nothing.
LEMMA RegisteredIsAdmitted ==
    ASSUME TypedAndPlaced, NEW c \in Admitted
    PROVE  Registered(c) \in Admitted \cup {None}
  BY DEF TypedAndPlaced, TypeOK, Placed, Admitted, Registered

LEMMA RegisteredInAdmitted ==
    ASSUME TypedAndPlaced, NEW S \in SUBSET Sessions
    PROVE  RegisteredIn(S) \subseteq Admitted
  BY ConstantsAssumption DEF TypedAndPlaced, Placed, RegisteredIn, Admitted

\* Cancelling admitted works keeps the flags typed and sends only for them.
LEMMA CancelTyped ==
    ASSUME TypedAndPlaced, NEW works \in SUBSET (Admitted \cup {None}), Cancel(works)
    PROVE  /\ aborted' \subseteq Calls /\ respDone' \subseteq Calls
           /\ sending' \subseteq Admitted
           /\ answer' \in [Calls -> Calls \cup {None, ErrorReply}]
  BY DEF TypedAndPlaced, TypeOK, Placed, Admitted, Cancel, StartSend, SendNow

\* Closing sessions never frees one, and cancels only admitted works.
LEMMA CloseTyped ==
    ASSUME TypedAndPlaced, NEW S \in SUBSET Sessions, CloseSessions(S)
    PROVE  /\ sessions' \in [Sessions -> {"free", "connecting", "open", "closed"}]
           /\ \A s \in Sessions : sessions'[s] \in {sessions[s], "closed"}
           /\ aborted' \subseteq Calls /\ respDone' \subseteq Calls
           /\ sending' \subseteq Admitted
           /\ answer' \in [Calls -> Calls \cup {None, ErrorReply}]
<1>1. /\ RegisteredIn(S \cap Live) \subseteq Admitted
      /\ Cancel(RegisteredIn(S \cap Live))
  BY RegisteredInAdmitted DEF CloseSessions
<1>2. /\ sessions' \in [Sessions -> {"free", "connecting", "open", "closed"}]
      /\ \A s \in Sessions : sessions'[s] \in {sessions[s], "closed"}
  BY DEF CloseSessions, TypedAndPlaced, TypeOK
<1>3. RegisteredIn(S \cap Live) \in SUBSET (Admitted \cup {None})
  BY <1>1
<1> QED
  BY <1>1, <1>2, <1>3, CancelTyped

\* Settling an admitted work keeps the counters, entries and timers typed.
LEMMA SettleTyped ==
    ASSUME TypedAndPlaced, NEW w \in Admitted, NEW op, NEW resp, Settle(w, op, resp)
    PROVE  /\ counted' \subseteq counted /\ timers' \subseteq timers
           /\ active' \in Int
           /\ sessionActive' \in [Sessions -> Int]
           /\ stale' \subseteq Sessions
           /\ requests' \in [Sessions -> [Ids -> Calls \cup {None}]]
           /\ \A s \in Sessions, i \in Ids :
                requests'[s][i] \in {requests[s][i], None}
  BY DEF TypedAndPlaced, TypeOK, Placed, Admitted, Settle, SettleAs

LEMMA NextTyped == TypedAndPlaced /\ [Next]_vars => TypedAndPlaced'
<1> SUFFICES ASSUME TypedAndPlaced, [Next]_vars PROVE TypedAndPlaced'
  OBVIOUS
<1> USE ConstantsAssumption
<1>1. ASSUME Start \/ (Shutdown /\ ~CloseAllSessions) PROVE TypedAndPlaced'
  BY <1>1 DEF TypedAndPlaced, TypeOK, Placed, Admitted, Start, Shutdown, Stop,
     StopListening, Flush, callVars, countVars, flagVars, sdkVars
<1>2. CASE CloseAllSessions
  <2>1. CloseSessions(Live) /\ Live \in SUBSET Sessions
    BY <1>2 DEF CloseAllSessions, Live
  <2>2. awaited' \subseteq Calls
    BY <1>2 DEF CloseAllSessions, RegisteredIn
  <2>3. UNCHANGED <<state, stale, requests, countVars, pc, sid, callVars, timers,
                    entered, opDone, sdkVars>> /\ shutdown' = "closing"
    BY <1>2 DEF CloseAllSessions
  <2> QED
    BY <2>1, <2>2, <2>3, CloseTyped DEF TypedAndPlaced, TypeOK, Placed, Admitted,
       callVars, countVars, sdkVars
<1>3. ASSUME NEW c \in Calls, Handle(c) PROVE TypedAndPlaced'
  <2>1. ASSUME NEW k \in Kinds, NEW s \in Sessions \cup {None}, NEW i \in Ids,
               Arrive(c, k, s, i)
        PROVE  TypedAndPlaced'
    BY <2>1 DEF TypedAndPlaced, TypeOK, Placed, Admitted, Arrive, Kinds, PcValues,
       serviceVars, countVars, flagVars, sdkVars
  <2>2. ASSUME NEW how \in {"refused", "capacity"}, Reply(c, how),
               pc[c] \in {"parsing", "connecting"}
        PROVE  TypedAndPlaced'
    BY <2>2 DEF TypedAndPlaced, TypeOK, Placed, Admitted, Reply, PcValues,
       serviceVars, callVars, countVars, flagVars, sdkVars
  <2>3. ASSUME NEW dispatched \in BOOLEAN, Admit(c, sid[c], dispatched),
               pc[c] \in {"parsing", "connecting"}, sid[c] \in Sessions,
               sessions' = sessions \/ sessions' = [sessions EXCEPT ![sid[c]] = "open"]
        PROVE  TypedAndPlaced'
    <3>1. /\ stale' = stale \ {sid[c]}
          /\ UNCHANGED <<serviceVars, sid, callVars, flagVars, workOf, sdkAborted,
                         notices>>
      BY <2>3 DEF Admit
    <3>2. sessions' \in [Sessions -> {"free", "connecting", "open", "closed"}]
          /\ \A s \in Sessions : sessions[s] # "free" => sessions'[s] # "free"
      BY <2>3 DEF TypedAndPlaced, TypeOK
    <3>3. ASSUME NEW how \in {"refused", "capacity"}, pc' = [pc EXCEPT ![c] = how],
                 UNCHANGED <<requests, countVars, timers, sdk>>
          PROVE  TypedAndPlaced'
      BY <2>3, <3>1, <3>2, <3>3 DEF TypedAndPlaced, TypeOK, Placed, Admitted, PcValues,
         serviceVars, callVars, countVars, flagVars
    <3>4. ASSUME NEW next \in {"accepted", "rejecting"}, pc' = [pc EXCEPT ![c] = next],
                 NEW step \in {"queued", sdk[c]}, sdk' = [sdk EXCEPT ![c] = step],
                 requests' = [requests EXCEPT ![sid[c]][rid[c]] = c],
                 sessionActive' = [sessionActive EXCEPT ![sid[c]] = @ + 1],
                 active' = active + 1,
                 counted' = counted \cup {c}, timers' = timers \cup {c}
          PROVE  TypedAndPlaced'
      <4>1. Admitted' = Admitted \cup {c}
        BY <2>3, <3>1, <3>4 DEF TypedAndPlaced, TypeOK, Admitted
      <4>2. /\ pc' \in [Calls -> PcValues]
            /\ sdk' \in [Calls -> {"none", "queued", "running", "returned", "quiet"}]
            /\ sessionActive' \in [Sessions -> Int] /\ active' \in Int
        BY SMTT(30), <2>3, <3>4 DEF TypedAndPlaced, TypeOK, PcValues
      <4>3. /\ requests' \in [Sessions -> [Ids -> Calls \cup {None}]]
            /\ \A s \in Sessions, i \in Ids : requests'[s][i] \in {requests[s][i], c}
        BY <2>3, <3>4 DEF TypedAndPlaced, TypeOK
      <4>4. TypeOK'
        BY <3>1, <3>2, <3>4, <4>2, <4>3 DEF TypedAndPlaced, TypeOK,
           serviceVars, callVars, flagVars
      <4>5. Placed'
        BY <2>3, <3>1, <3>2, <3>4, <4>1, <4>3 DEF TypedAndPlaced, TypeOK, Placed,
           callVars, flagVars
      <4> QED
        BY <4>4, <4>5 DEF TypedAndPlaced
    <3> QED
      <4>1. CASE requests[sid[c]][rid[c]] # None \/ AtCapacity(sid[c])
        BY <2>3, <3>3, <4>1 DEF Admit
      <4>2. CASE ~(requests[sid[c]][rid[c]] # None \/ AtCapacity(sid[c]))
        BY <2>3, <3>4, <4>2 DEF Admit
      <4> QED
        BY <4>1, <4>2
  <2>4. CASE BodyRead(c)
    BY <2>2, <2>3, <2>4 DEF BodyRead, TypedAndPlaced, Placed
  <2>5. CASE InitializeRead(c)
    <3>1. ASSUME NEW s \in Sessions, sessions[s] = "free", pc[c] = "parsing",
                 kind[c] = "init",
                 sessions' = [sessions EXCEPT ![s] = "connecting"],
                 sid' = [sid EXCEPT ![c] = s],
                 pc' = [pc EXCEPT ![c] = "connecting"],
                 UNCHANGED <<serviceVars, stale, requests, countVars, callVars,
                             timers, flagVars, sdkVars>>
          PROVE  TypedAndPlaced'
      <4>1. Admitted' = Admitted
        BY <3>1 DEF TypedAndPlaced, TypeOK, Admitted
      <4>2. TypeOK'
        BY <3>1 DEF TypedAndPlaced, TypeOK, PcValues,
           serviceVars, callVars, countVars, flagVars, sdkVars
      <4>3. Placed'
        BY <3>1, <4>1 DEF TypedAndPlaced, TypeOK, Placed,
           callVars, countVars, flagVars, sdkVars
      <4> QED
        BY <4>2, <4>3 DEF TypedAndPlaced
    <3>2. CASE pc[c] = "parsing" /\ kind[c] = "init" /\ Reply(c, "refused")
      BY <3>2, <2>2
    <3>3. CASE ReserveSession(c)
      BY <3>3, <2>2, <3>1 DEF ReserveSession
    <3> QED
      BY <2>5, <3>2, <3>3 DEF InitializeRead
  <2>6. ASSUME CloseSessions({sid[c]}), pc' = [pc EXCEPT ![c] = "refused"],
               pc[c] \in {"connecting", "faulted"},
               UNCHANGED <<serviceVars, stale, requests, countVars, sid, callVars,
                           timers, entered, opDone, sdkVars>>
        PROVE  TypedAndPlaced'
    <3>1. {sid[c]} \in SUBSET Sessions
      BY <2>6 DEF TypedAndPlaced, Placed
    <3>2. Admitted \subseteq Admitted'
      BY <2>6, <3>1 DEF TypedAndPlaced, TypeOK, Admitted
    <3>3. TypeOK'
      <4>1. pc' \in [Calls -> PcValues]
        BY <2>6 DEF TypedAndPlaced, TypeOK, PcValues
      <4>2. sending' \subseteq Calls
        BY <2>6, <3>1, CloseTyped DEF Admitted
      <4> QED
        BY <2>6, <3>1, <4>1, <4>2, CloseTyped DEF TypedAndPlaced, TypeOK,
           serviceVars, callVars, countVars, sdkVars
    <3>4. Placed'
      BY <2>6, <3>1, <3>2, CloseTyped DEF TypedAndPlaced, TypeOK, Placed,
         callVars, countVars, sdkVars
    <3> QED
      BY <3>3, <3>4 DEF TypedAndPlaced
  <2>7. CASE Connected(c)
    BY <2>2, <2>3, <2>6, <2>7 DEF Connected, TypedAndPlaced, Placed
  <2>8. CASE ConnectFails(c)
    BY <2>6, <2>8 DEF ConnectFails
  <2>9. CASE Rejected(c)
    <3>1. c \in Admitted
      BY <2>9 DEF Rejected, TypedAndPlaced, Placed, Admitted
    <3>2. PICK op, resp : Settle(c, op, resp)
      BY <2>9 DEF Rejected
    <3> QED
      BY <2>9, <3>1, <3>2, SettleTyped DEF TypedAndPlaced, TypeOK, Placed, Admitted,
         Rejected, RejectedCloses, PcValues, serviceVars, callVars, sdkVars
  <2>10. CASE Faulted(c)
    <3>1. c \in Admitted /\ Registered(c) \in Admitted \cup {None}
      BY <2>10, RegisteredIsAdmitted DEF Faulted, TypedAndPlaced, Placed, Admitted
    <3>2. Cancel({Registered(c)})
      BY <2>10 DEF Faulted
    <3> QED
      BY <2>10, <3>1, <3>2, CancelTyped DEF TypedAndPlaced, TypeOK, Placed, Admitted,
         Faulted, PcValues, serviceVars, callVars, countVars, sdkVars
  <2>11. CASE FaultedClose(c)
    BY <2>6, <2>11 DEF FaultedClose
  <2> QED
    BY <1>3, <2>1, <2>4, <2>5, <2>7, <2>8, <2>9, <2>10, <2>11 DEF Handle
<1>4. ASSUME NEW c \in Calls, Sdk(c) PROVE TypedAndPlaced'
  <2>1. CASE RunTool(c)
    <3>1. c \in Admitted /\ Registered(c) \in Admitted \cup {None}
      BY <2>1, RegisteredIsAdmitted DEF RunTool, TypedAndPlaced, Placed
    <3>2. UNCHANGED <<serviceVars, sessions, stale, requests, countVars, pc, sid,
                      callVars, timers, aborted, opDone, respDone, sending, answer,
                      sdkAborted, notices>>
      BY <2>1 DEF RunTool
    <3>3. CASE sdk' = [sdk EXCEPT ![c] = "returned"] /\ UNCHANGED <<entered, workOf>>
      BY <3>1, <3>2, <3>3 DEF TypedAndPlaced, TypeOK, Placed, Admitted,
         serviceVars, callVars, countVars
    <3>4. ASSUME NEW w \in Admitted, entered' = entered \cup {w},
                 workOf' = [workOf EXCEPT ![c] = w],
                 sdk' = [sdk EXCEPT ![c] = "running"]
          PROVE  TypedAndPlaced'
      BY <3>1, <3>2, <3>4 DEF TypedAndPlaced, TypeOK, Placed, Admitted,
         serviceVars, callVars, countVars
    <3> QED
      BY <2>1, <3>1, <3>3, <3>4 DEF RunTool
  <2>2. CASE HandledBySdk(c)
    BY <2>2 DEF TypedAndPlaced, TypeOK, Placed, Admitted, HandledBySdk,
       serviceVars, callVars, countVars, flagVars
  <2>3. CASE OperationFinished(c)
    <3>1. workOf[c] \in Admitted
      BY <2>3 DEF OperationFinished, TypedAndPlaced, Placed
    <3>2. PICK op, resp : Settle(workOf[c], op, resp)
      BY <2>3 DEF OperationFinished
    <3> QED
      BY <2>3, <3>1, <3>2, SettleTyped DEF TypedAndPlaced, TypeOK, Placed, Admitted,
         OperationFinished, serviceVars, callVars
  <2>4. CASE SendResult(c)
    <3>1. c \in Admitted /\ Registered(c) \in Admitted \cup {None}
      BY <2>4, RegisteredIsAdmitted DEF SendResult, TypedAndPlaced, Placed
    <3>2. /\ respDone' \subseteq Calls /\ sending' \subseteq Admitted
          /\ answer' \in [Calls -> Calls \cup {None, ErrorReply}]
      BY SMTT(30), <2>4, <3>1 DEF SendResult, StartSend, SendNow, TypedAndPlaced, TypeOK,
         Placed, Admitted
    <3>3. /\ sdk' = [sdk EXCEPT ![c] = "quiet"]
          /\ UNCHANGED <<serviceVars, sessions, stale, requests, countVars, pc, sid,
                         callVars, timers, aborted, entered, opDone, workOf,
                         sdkAborted, notices>>
      BY <2>4 DEF SendResult
    <3> QED
      BY <3>1, <3>2, <3>3 DEF TypedAndPlaced, TypeOK, Placed, Admitted,
         serviceVars, callVars, countVars
  <2>5. CASE SendFinished(c)
    <3>1. c \in Admitted
      BY <2>5 DEF SendFinished, TypedAndPlaced, Placed
    <3>2. PICK op, resp : Settle(c, op, resp)
      BY <2>5 DEF SendFinished
    <3> QED
      BY <2>5, <3>1, <3>2, SettleTyped DEF TypedAndPlaced, TypeOK, Placed, Admitted,
         SendFinished, EndsWithResponse, serviceVars, callVars, sdkVars
  <2> QED
    BY <1>4, <2>1, <2>2, <2>3, <2>4, <2>5 DEF Sdk
<1>5. CASE Cancellation
  <2>1. ASSUME NEW w \in Calls, RequestTimedOut(w) PROVE TypedAndPlaced'
    <3>1. w \in Admitted /\ Registered(w) \in Admitted \cup {None}
      BY <2>1, RegisteredIsAdmitted DEF RequestTimedOut, TypedAndPlaced, Placed
    <3>2. Cancel({Registered(w)})
      BY <2>1 DEF RequestTimedOut
    <3> QED
      BY <2>1, <3>1, <3>2, CancelTyped DEF TypedAndPlaced, TypeOK, Placed, Admitted,
         RequestTimedOut, serviceVars, callVars, countVars, sdkVars
  <2>2. ASSUME NEW s \in Sessions, NEW i \in Ids, CancelNotification(s, i)
        PROVE  TypedAndPlaced'
    <3>1. requests[s][i] \in Admitted \cup {None}
      BY DEF TypedAndPlaced, Placed
    <3>2. Cancel({requests[s][i]})
      BY <2>2 DEF CancelNotification
    <3> QED
      BY <2>2, <3>1, <3>2, CancelTyped DEF TypedAndPlaced, TypeOK, Placed, Admitted,
         CancelNotification, Notices, serviceVars, callVars, countVars
  <2>3. ASSUME NEW n \in notices, NotifySdk(n) PROVE TypedAndPlaced'
    BY <2>3 DEF TypedAndPlaced, TypeOK, Placed, Admitted, NotifySdk,
       serviceVars, callVars, countVars, flagVars
  <2>4. ASSUME NEW S \in SUBSET Sessions, CloseSessions(S),
               stale' \in SUBSET Sessions,
               UNCHANGED <<serviceVars, requests, countVars, pc, sid, callVars,
                           timers, entered, opDone, sdkVars>>
        PROVE  TypedAndPlaced'
    BY <2>4, CloseTyped DEF TypedAndPlaced, TypeOK, Placed, Admitted,
       serviceVars, callVars, countVars, sdkVars
  <2>5. ASSUME NEW s \in Sessions, DeleteSession(s) PROVE TypedAndPlaced'
    BY <2>4, <2>5 DEF DeleteSession, TypedAndPlaced, TypeOK
  <2>6. ASSUME NEW s \in Sessions, GrowsStale(s) PROVE TypedAndPlaced'
    BY <2>6 DEF TypedAndPlaced, TypeOK, Placed, Admitted, GrowsStale,
       serviceVars, callVars, countVars, flagVars, sdkVars
  <2>7. CASE SweepIdleSessions
    <3>1. Idle \in SUBSET Sessions
      BY DEF Idle, Live
    <3> QED
      BY <2>4, <2>7, <3>1 DEF SweepIdleSessions, TypedAndPlaced, TypeOK
  <2> QED
    BY <1>5, <2>1, <2>2, <2>3, <2>5, <2>6, <2>7 DEF Cancellation
<1>6. CASE UNCHANGED vars
  BY <1>6 DEF TypedAndPlaced, TypeOK, Placed, Admitted, vars,
     serviceVars, callVars, countVars, flagVars, sdkVars
<1> QED
  BY <1>1, <1>2, <1>3, <1>4, <1>5, <1>6 DEF Next, Shutdown

\* Every variable keeps its type, for every instance: the handlers, the SDK and
\* the timers never look up a work or a session that does not exist.
THEOREM TypeCorrect == Spec => []TypeOK
<1>1. Init => TypedAndPlaced
  BY InitTyped
<1>2. TypedAndPlaced /\ [Next]_vars => TypedAndPlaced'
  BY NextTyped
<1>3. TypedAndPlaced => TypeOK
  BY DEF TypedAndPlaced
<1> QED
  BY <1>1, <1>2, <1>3, PTL DEF Spec

(***************************************************************************)
(* The counters.  Only three kinds of steps matter to them: a work is      *)
(* registered, a work settles, or neither.                                 *)
(***************************************************************************)
CountsKept == UNCHANGED countVars /\ \A c \in counted : sid'[c] = sid[c]

CountsSettle == \E w \in Admitted : sid' = sid /\ \E op, resp : Settle(w, op, resp)

CountsGrow == \E c \in Calls \ counted :
    /\ sid' = sid /\ sid[c] \in Sessions
    /\ counted' = counted \cup {c} /\ active' = active + 1
    /\ sessionActive' = [sessionActive EXCEPT ![sid[c]] = @ + 1]
    /\ ~AtCapacity(sid[c])

LEMMA AdmitCounts ==
    ASSUME TypedAndPlaced, NEW c \in Calls, pc[c] \in {"parsing", "connecting"},
           sid[c] \in Sessions, NEW dispatched, Admit(c, sid[c], dispatched)
    PROVE  CountsKept \/ CountsGrow
<1>1. c \notin counted /\ sid' = sid
  BY DEF TypedAndPlaced, Placed, Admitted, Admit
<1> QED
  BY <1>1 DEF Admit, CountsKept, CountsGrow, countVars

LEMMA CountingSteps ==
    ASSUME TypedAndPlaced, [Next]_vars PROVE CountsKept \/ CountsSettle \/ CountsGrow
<1>1. CASE UNCHANGED vars \/ Start \/ Shutdown
  BY <1>1 DEF vars, Start, Shutdown, Stop, CloseAllSessions, StopListening, Flush,
     CountsKept
<1>2. CASE Cancellation
  BY <1>2 DEF Cancellation, RequestTimedOut, CancelNotification, NotifySdk,
     DeleteSession, GrowsStale, SweepIdleSessions, CountsKept
<1>3. ASSUME NEW c \in Calls, Handle(c)
      PROVE  CountsKept \/ CountsSettle \/ CountsGrow
  <2>1. ASSUME NEW k, NEW s, NEW i, Arrive(c, k, s, i) PROVE CountsKept
    BY <2>1 DEF Arrive, CountsKept, TypedAndPlaced, TypeOK, Placed, Admitted
  <2>2. CASE BodyRead(c)
    BY <2>2, AdmitCounts DEF BodyRead, Reply, CountsKept, TypedAndPlaced, Placed
  <2>3. CASE InitializeRead(c)
    BY <2>3 DEF InitializeRead, ReserveSession, Reply, CountsKept, TypedAndPlaced,
       TypeOK, Placed, Admitted
  <2>4. CASE Connected(c)
    BY <2>4, AdmitCounts DEF Connected, Reply, CountsKept, TypedAndPlaced, Placed
  <2>5. CASE ConnectFails(c) \/ Faulted(c) \/ FaultedClose(c)
    BY <2>5 DEF ConnectFails, Faulted, FaultedClose, CountsKept
  <2>6. CASE Rejected(c)
    <3>1. c \in Admitted /\ sid' = sid
      BY <2>6 DEF Rejected, TypedAndPlaced, Placed, Admitted
    <3>2. PICK op, resp : Settle(c, op, resp)
      BY <2>6 DEF Rejected
    <3> QED
      BY <3>1, <3>2 DEF CountsSettle
  <2> QED
    BY <1>3, <2>1, <2>2, <2>3, <2>4, <2>5, <2>6 DEF Handle
<1>4. ASSUME NEW c \in Calls, Sdk(c)
      PROVE  CountsKept \/ CountsSettle \/ CountsGrow
  <2>1. CASE RunTool(c) \/ HandledBySdk(c) \/ SendResult(c)
    BY <2>1 DEF RunTool, HandledBySdk, SendResult, CountsKept
  <2>2. CASE OperationFinished(c)
    <3>1. workOf[c] \in Admitted /\ sid' = sid
      BY <2>2 DEF OperationFinished, TypedAndPlaced, Placed
    <3>2. PICK op, resp : Settle(workOf[c], op, resp)
      BY <2>2 DEF OperationFinished
    <3> QED
      BY <3>1, <3>2 DEF CountsSettle
  <2>3. CASE SendFinished(c)
    <3>1. c \in Admitted /\ sid' = sid
      BY <2>3 DEF SendFinished, TypedAndPlaced, Placed
    <3>2. PICK op, resp : Settle(c, op, resp)
      BY <2>3 DEF SendFinished
    <3> QED
      BY <3>1, <3>2 DEF CountsSettle
  <2> QED
    BY <1>4, <2>1, <2>2, <2>3 DEF Sdk
<1> QED
  BY <1>1, <1>2, <1>3, <1>4 DEF Next

LEMMA CountedFinite ==
    ASSUME TypedAndPlaced
    PROVE  IsFiniteSet(counted) /\ \A s \in Sessions : IsFiniteSet(CountedIn(s))
<1>1. counted \in SUBSET Calls /\ \A s \in Sessions : CountedIn(s) \in SUBSET Calls
  BY DEF TypedAndPlaced, TypeOK, CountedIn
<1> QED
  BY <1>1, FiniteAssumption, FS_Subset

LEMMA AccountingStep ==
    ASSUME TypedAndPlaced, Accounting, CountsKept \/ CountsSettle \/ CountsGrow
    PROVE  Accounting'
<1>1. CASE CountsKept
  <2>1. \A s \in Sessions : CountedIn(s)' = CountedIn(s)
    BY <1>1 DEF CountsKept, countVars, CountedIn
  <2> QED
    BY <1>1, <2>1 DEF CountsKept, countVars, Accounting
<1>2. CASE CountsSettle
  <2>0. PICK w \in Admitted : sid' = sid /\ \E op, resp : Settle(w, op, resp)
    BY <1>2 DEF CountsSettle
  <2>1. PICK op, resp : sid' = sid /\ Settle(w, op, resp)
    BY <2>0
  <2>2. CASE w \in op \cap counted
    <3>1. /\ counted' = counted \ {w} /\ active' = active - 1
          /\ sessionActive' = [sessionActive EXCEPT ![sid[w]] = @ - 1]
      BY <2>1, <2>2 DEF Settle, SettleAs
    <3>2. active' = Cardinality(counted')
      BY <2>2, <3>1, CountedFinite, FS_RemoveElement DEF Accounting
    <3>3. ASSUME NEW s \in Sessions
          PROVE  sessionActive'[s] = Cardinality(CountedIn(s)')
      <4>1. CASE s = sid[w]
        <5>1. CountedIn(s)' = CountedIn(s) \ {w} /\ w \in CountedIn(s)
          BY <2>1, <2>2, <3>1, <4>1 DEF CountedIn
        <5>2. Cardinality(CountedIn(s) \ {w}) = Cardinality(CountedIn(s)) - 1
          BY <5>1, CountedFinite, FS_RemoveElement
        <5> QED
          BY <3>1, <4>1, <5>1, <5>2 DEF Accounting, TypedAndPlaced, TypeOK
      <4>2. CASE s # sid[w]
        <5>1. CountedIn(s)' = CountedIn(s)
          BY <2>1, <3>1, <4>2 DEF CountedIn
        <5> QED
          BY <3>1, <4>2, <5>1 DEF Accounting, TypedAndPlaced, TypeOK
      <4> QED
        BY <4>1, <4>2
    <3> QED
      BY <3>2, <3>3 DEF Accounting
  <2>3. CASE w \notin op \cap counted
    <3>1. CountsKept
      BY <2>1, <2>3 DEF Settle, SettleAs, CountsKept, countVars
    <3> QED
      BY <1>1, <3>1
  <2> QED
    BY <2>2, <2>3
<1>3. CASE CountsGrow
  <2>1. PICK c \in Calls \ counted :
          /\ sid' = sid /\ sid[c] \in Sessions
          /\ counted' = counted \cup {c} /\ active' = active + 1
          /\ sessionActive' = [sessionActive EXCEPT ![sid[c]] = @ + 1]
    BY <1>3 DEF CountsGrow
  <2>2. active' = Cardinality(counted')
    BY <2>1, CountedFinite, FS_AddElement DEF Accounting
  <2>3. ASSUME NEW s \in Sessions
        PROVE  sessionActive'[s] = Cardinality(CountedIn(s)')
    <3>1. CASE s = sid[c]
      <4>1. CountedIn(s)' = CountedIn(s) \cup {c} /\ c \notin CountedIn(s)
        BY <2>1, <3>1 DEF CountedIn
      <4>2. Cardinality(CountedIn(s) \cup {c}) = Cardinality(CountedIn(s)) + 1
        BY <4>1, CountedFinite, FS_AddElement
      <4> QED
        BY <2>1, <3>1, <4>1, <4>2 DEF Accounting, TypedAndPlaced, TypeOK
    <3>2. CASE s # sid[c]
      <4>1. CountedIn(s)' = CountedIn(s)
        BY <2>1, <3>2 DEF CountedIn
      <4> QED
        BY <2>1, <3>2, <4>1 DEF Accounting, TypedAndPlaced, TypeOK
    <3> QED
      BY <3>1, <3>2
  <2> QED
    BY <2>2, <2>3 DEF Accounting
<1> QED
  BY <1>1, <1>2, <1>3

LEMMA InitAccounting == Init => Accounting
<1> SUFFICES ASSUME Init PROVE Accounting
  OBVIOUS
<1>1. counted = {} /\ \A s \in Sessions : CountedIn(s) = {}
  BY DEF Init, CountedIn
<1> QED
  BY <1>1, FS_EmptySet DEF Init, Accounting

\* The admission counters are exact in every reachable state, for any number of
\* racing answers, timeouts, cancellations and closes, even when a client
\* reuses request ids: no slot is released twice.
THEOREM CountersExact == Spec => []Accounting
<1>1. Init => TypedAndPlaced /\ Accounting
  BY InitTyped, InitAccounting
<1>2. TypedAndPlaced /\ Accounting /\ [Next]_vars => (TypedAndPlaced /\ Accounting)'
  BY NextTyped, CountingSteps, AccountingStep
<1> QED
  BY <1>1, <1>2, PTL DEF Spec

(***************************************************************************)
(* The limits.                                                             *)
(***************************************************************************)

\* A step leaves the set of live sessions as it is, shrinks it, or reserves one
\* more while there is room.
LEMMA LiveSteps ==
    ASSUME TypedAndPlaced, [Next]_vars
    PROVE  \/ Live' \subseteq Live
           \/ Cardinality(Live) < MaxSessions /\ \E s \in Sessions : Live' = Live \cup {s}
<1>1. ASSUME NEW S, CloseSessions(S) PROVE Live' \subseteq Live
  BY <1>1 DEF CloseSessions, Live
<1>2. ASSUME UNCHANGED sessions PROVE Live' \subseteq Live
  BY <1>2 DEF Live
<1>3. CASE UNCHANGED vars \/ Start \/ Shutdown
  BY <1>1, <1>2, <1>3 DEF vars, Start, Shutdown, Stop, CloseAllSessions,
     StopListening, Flush
<1>4. CASE Cancellation
  BY <1>1, <1>2, <1>4 DEF Cancellation, RequestTimedOut, CancelNotification,
     NotifySdk, DeleteSession, GrowsStale, SweepIdleSessions
<1>5. ASSUME NEW c \in Calls, Sdk(c) PROVE Live' \subseteq Live
  BY <1>2, <1>5 DEF Sdk, RunTool, HandledBySdk, OperationFinished, SendResult,
     SendFinished
<1>6. ASSUME NEW c \in Calls, Handle(c), ~InitializeRead(c) PROVE Live' \subseteq Live
  <2>1. CASE Connected(c)
    <3>1. CASE sessions' = [sessions EXCEPT ![sid[c]] = "open"] /\ sessions[sid[c]] # "closed"
      BY <2>1, <3>1 DEF Connected, TypedAndPlaced, TypeOK, Placed, Live
    <3> QED
      BY <2>1, <3>1, <1>1, <1>2 DEF Connected, Reply
  <2>2. CASE Rejected(c)
    BY <2>2 DEF Rejected, RejectedCloses, Live, TypedAndPlaced, TypeOK
  <2>3. ASSUME NEW how, Reply(c, how) PROVE Live' \subseteq Live
    BY <2>3, <1>2 DEF Reply
  <2> QED
    BY <1>6, <1>1, <1>2, <2>1, <2>2, <2>3 DEF Handle, Arrive, BodyRead, ConnectFails, Faulted,
       FaultedClose
<1>7. ASSUME NEW c \in Calls, InitializeRead(c)
      PROVE  \/ Live' \subseteq Live
             \/ /\ Cardinality(Live) < MaxSessions
                /\ \E s \in Sessions : Live' = Live \cup {s}
  <2>1. ASSUME NEW how, Reply(c, how) PROVE Live' \subseteq Live
    BY <2>1, <1>2 DEF Reply
  <2>2. ASSUME NEW s \in Sessions, sessions' = [sessions EXCEPT ![s] = "connecting"]
        PROVE  Live' = Live \cup {s}
    BY <2>2 DEF Live, TypedAndPlaced, TypeOK
  <2>3. Cardinality(Live) \in Nat
    <3>1. Live \in SUBSET Sessions
      BY DEF Live
    <3> QED
      BY <3>1, FiniteAssumption, FS_Subset, FS_CardinalityType
  <2> QED
    BY <1>7, <2>1, <2>2, <2>3, LimitsAssumption DEF InitializeRead, ReserveSession
<1> QED
  BY <1>3, <1>4, <1>5, <1>6, <1>7 DEF Next

LEMMA LimitsStep ==
    ASSUME TypedAndPlaced, Accounting, Accounting', WithinLimits, [Next]_vars
    PROVE  WithinLimits'
<1>1. Cardinality(Live') <= MaxSessions
  <2>1. Live \in SUBSET Sessions /\ IsFiniteSet(Live) /\ Cardinality(Live) \in Nat
    <3>1. Live \in SUBSET Sessions
      BY DEF Live
    <3> QED
      BY <3>1, FiniteAssumption, FS_Subset, FS_CardinalityType
  <2>2. CASE Live' \subseteq Live
    <3>1. IsFiniteSet(Live') /\ Cardinality(Live') <= Cardinality(Live)
      BY <2>1, <2>2, FS_Subset
    <3>2. Cardinality(Live') \in Nat
      BY <3>1, FS_CardinalityType
    <3> QED
      BY <2>1, <3>1, <3>2, LimitsAssumption DEF WithinLimits
  <2>3. ASSUME NEW s \in Sessions, Live' = Live \cup {s}, Cardinality(Live) < MaxSessions
        PROVE  Cardinality(Live') <= MaxSessions
    BY <2>1, <2>3, FS_AddElement, LimitsAssumption
  <2> QED
    BY <2>2, <2>3, LiveSteps
<1>2. /\ active' <= MaxGlobal
      /\ \A s \in Sessions : sessionActive'[s] <= MaxPerSession
  <2>1. CASE CountsKept
    BY <2>1 DEF CountsKept, countVars, WithinLimits, Accounting
  <2>2. CASE CountsSettle
    BY <2>2, LimitsAssumption DEF CountsSettle, Settle, SettleAs, WithinLimits, Accounting, TypedAndPlaced,
       TypeOK, Admitted
  <2>3. CASE CountsGrow
    BY <2>3, LimitsAssumption DEF CountsGrow, AtCapacity, WithinLimits, Accounting, TypedAndPlaced,
       TypeOK
  <2> QED
    BY <2>1, <2>2, <2>3, CountingSteps
<1> QED
  BY <1>1, <1>2 DEF WithinLimits, Accounting

LEMMA InitLimits == Init => WithinLimits
<1> SUFFICES ASSUME Init PROVE WithinLimits
  OBVIOUS
<1>1. /\ counted = {} /\ Live = {}
      /\ \A s \in Sessions : CountedIn(s) = {}
  BY DEF Init, CountedIn, Live
<1> QED
  BY <1>1, FS_EmptySet, LimitsAssumption DEF WithinLimits

\* No interleaving of requests exceeds the limit of sessions, of requests in a
\* session or of requests in the process, whatever the limits are.
THEOREM LimitsHold == Spec => []WithinLimits
<1>1. Init => TypedAndPlaced /\ Accounting /\ WithinLimits
  BY InitTyped, InitAccounting, InitLimits
<1>2. /\ TypedAndPlaced /\ Accounting /\ WithinLimits
      /\ [Next]_vars
      => (TypedAndPlaced /\ Accounting /\ WithinLimits)'
  BY NextTyped, CountingSteps, AccountingStep, LimitsStep
<1> QED
  BY <1>1, <1>2, PTL DEF Spec

(***************************************************************************)
(* Answers.                                                                *)
(***************************************************************************)

\* What has been answered is marked so.
AnsweredIsMarked == \A c \in Calls : answer[c] # None => c \in respDone

\* A step answers only works whose response is not finished, and marks them.
LEMMA AnswerSteps ==
    ASSUME TypedAndPlaced, [Next]_vars
    PROVE  /\ respDone \subseteq respDone'
           /\ \A c \in Calls : \/ answer'[c] = answer[c]
                               \/ c \in respDone' \ respDone
<1>1. ASSUME NEW works, NEW reply, StartSend(works, reply)
      PROVE  /\ respDone \subseteq respDone'
             /\ \A c \in Calls : answer'[c] = answer[c] \/ c \in respDone' \ respDone
  BY <1>1 DEF StartSend, SendNow
<1>2. ASSUME NEW S, CloseSessions(S) PROVE \E works, reply : StartSend(works, reply)
  BY <1>2 DEF CloseSessions, Cancel
<1>3. ASSUME answer' = answer, respDone \subseteq respDone'
      PROVE  /\ respDone \subseteq respDone'
             /\ \A c \in Calls : answer'[c] = answer[c] \/ c \in respDone' \ respDone
  BY <1>3
<1>4. CASE UNCHANGED vars \/ Start \/ Shutdown
  BY <1>1, <1>2, <1>4 DEF vars, flagVars, Start, Shutdown, Stop, CloseAllSessions,
     StopListening, Flush
<1>5. CASE Cancellation
  BY <1>1, <1>2, <1>5 DEF Cancellation, RequestTimedOut, CancelNotification, Cancel,
     NotifySdk, DeleteSession, GrowsStale, SweepIdleSessions, flagVars
<1>6. ASSUME NEW c \in Calls, Sdk(c)
      PROVE  /\ respDone \subseteq respDone'
             /\ \A d \in Calls : answer'[d] = answer[d] \/ d \in respDone' \ respDone
  BY <1>1, <1>6 DEF Sdk, RunTool, HandledBySdk, OperationFinished, SendResult,
     SendFinished, flagVars
<1>7. ASSUME NEW c \in Calls, Handle(c)
      PROVE  /\ respDone \subseteq respDone'
             /\ \A d \in Calls : answer'[d] = answer[d] \/ d \in respDone' \ respDone
  <2>1. ASSUME NEW s, NEW dispatched, Admit(c, s, dispatched)
        PROVE  answer' = answer /\ respDone' = respDone
    BY <2>1 DEF Admit, flagVars
  <2>2. ASSUME NEW how, Reply(c, how) PROVE answer' = answer /\ respDone' = respDone
    BY <2>2 DEF Reply, flagVars
  <2>3. CASE Connected(c) \/ ConnectFails(c) \/ FaultedClose(c) \/ Faulted(c)
    BY <1>1, <1>2, <2>1, <2>2, <2>3 DEF Connected, ConnectFails, FaultedClose, Faulted, Cancel
  <2> QED
    BY <1>7, <2>1, <2>2, <2>3 DEF Handle, Arrive, BodyRead, InitializeRead,
       ReserveSession, Rejected, flagVars
<1> QED
  BY <1>4, <1>5, <1>6, <1>7 DEF Next

\* A response stream gets at most one answer and it is never replaced, even
\* when the deadline, a cancellation and the result race, or ids are reused.
THEOREM AnswersFinal == Spec => AnsweredOnce
<1>1. Init => TypedAndPlaced /\ AnsweredIsMarked
  <2>1. Init => AnsweredIsMarked
    BY DEF Init, AnsweredIsMarked
  <2> QED
    BY <2>1, InitTyped
<1>2. TypedAndPlaced /\ AnsweredIsMarked /\ [Next]_vars
      => (TypedAndPlaced /\ AnsweredIsMarked)'
  <2>1. TypedAndPlaced /\ AnsweredIsMarked /\ [Next]_vars => AnsweredIsMarked'
    BY AnswerSteps DEF AnsweredIsMarked
  <2> QED
    BY <2>1, NextTyped
<1>3. TypedAndPlaced /\ AnsweredIsMarked /\ [Next]_vars
      => [\A c \in Calls : answer[c] # None => answer'[c] = answer[c]]_vars
  BY AnswerSteps DEF AnsweredIsMarked
<1> QED
  BY <1>1, <1>2, <1>3, PTL DEF Spec, AnsweredOnce

(***************************************************************************)
(* Sessions and the operations that run in them.  From here on clients     *)
(* keep to MCP and use a request id of a session once: with a reused id    *)
(* runTool can find the work of another call, and the slot it gives back,  *)
(* and the controller it obeys, are then those of that call.               *)
(***************************************************************************)

\* A session belongs to the one initialize call that reserved it; until the
\* response to that call announces the session, no other call names it, and no
\* two calls in it share a request id.
Owned ==
    /\ \A c \in Calls : sid[c] \in Sessions =>
         pc[c] # "new" /\ sessions[sid[c]] # "free"
    /\ \A c, d \in Calls :
         sid[c] \in Sessions /\ sid[d] = sid[c] /\ c # d => rid[d] # rid[c]
    /\ \A c, d \in Calls :
         /\ kind[c] = "init" /\ kind[d] = "init"
         /\ sid[c] \in Sessions /\ sid[d] = sid[c]
         => c = d
    /\ \A c \in Calls : sid[c] \in Sessions /\ kind[c] # "init" => Announced(sid[c])
    /\ \A c \in Calls : pc[c] = "connecting" => kind[c] = "init"

\* What the flags, the entries and the SDK can say of a call.
Marked ==
    /\ opDone \cup respDone \cup entered \subseteq Admitted
    /\ sending \subseteq respDone
    /\ \A c \in Calls : sdk[c] # "none" => pc[c] = "accepted"
    /\ \A s \in Sessions, i \in Ids : \A c \in Calls :
         requests[s][i] = c => sid[c] = s /\ rid[c] = i

\* An operation runs on the work of its own call, which is registered, holds its
\* slot and is aborted once the session is closed; a call that may still start
\* one holds its slot too.
Running ==
    /\ \A c \in Calls : sdk[c] = "queued" /\ Registered(c) = c =>
         c \in counted /\ c \notin opDone
    /\ \A c \in Calls : sdk[c] = "running" =>
         /\ workOf[c] = c /\ Registered(c) = c
         /\ c \in entered /\ c \in counted /\ c \notin opDone
    /\ \A c \in Calls : sdk[c] = "queued" => c \notin entered
    /\ CloseReachesOperations

RuntimeInv == TypedAndPlaced /\ Owned /\ Marked /\ Running


\* Every step but the arrival of a call and the reservation of a session leaves
\* calls, their ids and sessions in place.
Moves ==
    /\ UNCHANGED <<kind, sid, rid>>
    /\ \A c \in Calls : /\ pc[c] # "new" => pc'[c] # "new"
                        /\ pc[c] = "accepted" => pc'[c] = "accepted"
                        /\ c \in Admitted => c \in Admitted'
                        /\ pc'[c] = "connecting" => pc[c] = "connecting"
    /\ \A s \in Sessions : sessions[s] # "free" => sessions'[s] # "free"

\* A call that is not admitted or refused yet moves on.
LEMMA MovesOn ==
    ASSUME TypedAndPlaced, NEW c \in Calls, NEW how, UNCHANGED <<kind, sid, rid>>,
           pc[c] \in {"parsing", "connecting", "rejecting", "faulted"},
           pc' = [pc EXCEPT ![c] = how], how \notin {"new", "connecting"},
           c \in Admitted => how \in {"faulted", "refused"},
           \A s \in Sessions : sessions[s] # "free" => sessions'[s] # "free"
    PROVE  Moves
  BY DEF Moves, TypedAndPlaced, TypeOK, Admitted

LEMMA CloseKeepsReserved ==
    ASSUME TypedAndPlaced, NEW S, CloseSessions(S)
    PROVE  \A s \in Sessions : sessions[s] # "free" => sessions'[s] # "free"
  BY DEF CloseSessions, TypedAndPlaced, TypeOK

LEMMA StaysPut ==
    ASSUME UNCHANGED <<kind, sid, rid, pc>>,
           \A s \in Sessions : sessions[s] # "free" => sessions'[s] # "free"
    PROVE  Moves
  BY DEF Moves, Admitted

LEMMA HandleMoves ==
    ASSUME TypedAndPlaced, NEW c \in Calls, Handle(c)
    PROVE  \/ Moves
           \/ \E k \in Kinds, s \in Sessions \cup {None}, i \in Ids : Arrive(c, k, s, i)
           \/ ReserveSession(c)
<1>1. ASSUME NEW how \in {"refused", "capacity"}, Reply(c, how),
             pc[c] \in {"parsing", "connecting"}
      PROVE  Moves
  BY <1>1, MovesOn DEF Reply, callVars, Admitted
<1>2. ASSUME NEW s, NEW dispatched \in BOOLEAN, Admit(c, s, dispatched),
             pc[c] \in {"parsing", "connecting"},
             \A z \in Sessions : sessions[z] # "free" => sessions'[z] # "free"
      PROVE  Moves
  <2>1. /\ UNCHANGED <<kind, sid, rid>> /\ c \notin Admitted
        /\ \E how \in {"refused", "capacity", "accepted", "rejecting"} :
             pc' = [pc EXCEPT ![c] = how]
    BY <1>2 DEF Admit, callVars, Admitted
  <2> QED BY <1>2, <2>1, MovesOn
<1>3. ASSUME CloseSessions({sid[c]}), pc' = [pc EXCEPT ![c] = "refused"],
             pc[c] \in {"connecting", "faulted"}, UNCHANGED <<kind, sid, rid>>
      PROVE  Moves
  BY <1>3, MovesOn, CloseKeepsReserved
<1>4. CASE BodyRead(c)
  BY <1>4, <1>1, <1>2 DEF BodyRead
<1>5. CASE InitializeRead(c) /\ ~ReserveSession(c)
  BY <1>5, <1>1 DEF InitializeRead
<1>6. CASE Connected(c)
  <2>1. CASE state # "ready"
    BY <1>6, <2>1, <1>3 DEF Connected, callVars
  <2>2. CASE state = "ready" /\ sessions[sid[c]] = "closed"
    BY <1>6, <2>2, <1>1 DEF Connected
  <2>3. CASE state = "ready" /\ sessions[sid[c]] # "closed"
    <3>1. sessions' = [sessions EXCEPT ![sid[c]] = "open"]
      BY <1>6, <2>3 DEF Connected
    <3>2. \A z \in Sessions : sessions[z] # "free" => sessions'[z] # "free"
      BY <3>1 DEF TypedAndPlaced, TypeOK
    <3> QED BY <1>6, <2>3, <3>2, <1>2 DEF Connected
  <2> QED BY <2>1, <2>2, <2>3
<1>7. CASE ConnectFails(c) \/ FaultedClose(c)
  BY <1>7, <1>3 DEF ConnectFails, FaultedClose, callVars
<1>8. CASE Rejected(c)
  <2>1. \A s \in Sessions : sessions[s] # "free" => sessions'[s] # "free"
    BY <1>8 DEF Rejected, RejectedCloses, TypedAndPlaced, TypeOK
  <2> QED BY <1>8, <2>1, MovesOn DEF Rejected, callVars
<1>9. CASE Faulted(c)
  <2>1. \E how \in {"faulted", "refused"} : pc' = [pc EXCEPT ![c] = how]
    BY <1>9 DEF Faulted
  <2> QED BY <1>9, <2>1, MovesOn DEF Faulted, callVars
<1> QED
  BY <1>4, <1>5, <1>6, <1>7, <1>8, <1>9 DEF Handle

LEMMA MoveSteps ==
    ASSUME TypedAndPlaced, [Next]_vars
    PROVE  \/ Moves
           \/ \E c \in Calls :
                \/ \E k \in Kinds, s \in Sessions \cup {None}, i \in Ids : Arrive(c, k, s, i)
                \/ ReserveSession(c)
<1>1. CASE UNCHANGED vars \/ Start \/ Shutdown
  BY <1>1, StaysPut, CloseKeepsReserved DEF vars, callVars, Start, Shutdown, Stop,
     CloseAllSessions, StopListening, Flush
<1>2. CASE Cancellation
  BY <1>2, StaysPut, CloseKeepsReserved DEF callVars, Cancellation, RequestTimedOut,
     CancelNotification, NotifySdk, DeleteSession, GrowsStale, SweepIdleSessions
<1>3. ASSUME NEW c \in Calls, Sdk(c) PROVE Moves
  BY <1>3, StaysPut DEF callVars, Sdk, RunTool, HandledBySdk, OperationFinished,
     SendResult, SendFinished
<1> QED
  BY <1>1, <1>2, <1>3, HandleMoves DEF Next

LEMMA OwnedStep ==
    ASSUME ~ReuseIds, TypedAndPlaced, Owned, [Next]_vars PROVE Owned'
<1>1. CASE Moves
  <2>1. \A s \in Sessions : Announced(s) => Announced(s)'
    BY <1>1 DEF Moves, Announced
  <2> QED BY <1>1, <2>1 DEF Moves, Owned
<1>2. ASSUME NEW c \in Calls, NEW k \in Kinds, NEW s \in Sessions \cup {None}, NEW i \in Ids,
             Arrive(c, k, s, i)
      PROVE  Owned'
  <2>1. /\ pc[c] = "new" /\ sid[c] \notin Sessions
        /\ k = "init" => s = None
        /\ s \in Sessions => Announced(s)
        /\ \A d \in Calls : pc[d] # "new" /\ sid[d] = s => rid[d] # i
        /\ pc' \in [Calls -> PcValues] /\ pc'[c] \notin {"new", "connecting"}
        /\ \A d \in Calls \ {c} : pc'[d] = pc[d]
        /\ sessions' = sessions
        /\ kind' = [kind EXCEPT ![c] = k]
        /\ sid' = [sid EXCEPT ![c] = s] /\ rid' = [rid EXCEPT ![c] = i]
    BY <1>2 DEF Arrive, FreshId, Owned, TypedAndPlaced, TypeOK, PcValues
  <2>2. \A z \in Sessions : Announced(z) => Announced(z)'
    BY <2>1 DEF Announced, TypedAndPlaced, TypeOK
  <2>3. \A z \in Sessions : Announced(z) => sessions[z] # "free"
    BY DEF Announced, Owned
  <2> QED
    <3>1. \A d \in Calls : sid'[d] \in Sessions =>
            pc'[d] # "new" /\ sessions'[sid'[d]] # "free"
      BY <2>1, <2>3 DEF Owned, TypedAndPlaced, TypeOK
    <3>2. \A d, e \in Calls :
            sid'[d] \in Sessions /\ sid'[e] = sid'[d] /\ d # e => rid'[e] # rid'[d]
      BY <2>1 DEF Owned, TypedAndPlaced, TypeOK
    <3>3. \A d, e \in Calls :
            /\ kind'[d] = "init" /\ kind'[e] = "init"
            /\ sid'[d] \in Sessions /\ sid'[e] = sid'[d]
            => d = e
      BY <2>1, ConstantsAssumption DEF Owned, TypedAndPlaced, TypeOK
    <3>4. \A d \in Calls, z \in Sessions :
            sid'[d] = z /\ kind'[d] # "init" => Announced(z)'
      <4> SUFFICES ASSUME NEW d \in Calls, NEW z \in Sessions,
                          sid'[d] = z, kind'[d] # "init"
                   PROVE  Announced(z)'
        OBVIOUS
      <4>1. Announced(z)
        BY <2>1 DEF Owned, TypedAndPlaced, TypeOK
      <4> QED BY <4>1, <2>2
    <3>5. \A d \in Calls : pc'[d] = "connecting" => kind'[d] = "init"
      BY <2>1 DEF Owned, TypedAndPlaced, TypeOK
    <3> QED BY <3>1, <3>2, <3>3, <3>4, <3>5 DEF Owned, Announced
<1>3. ASSUME NEW c \in Calls, ReserveSession(c) PROVE Owned'
  <2>1. CASE \E how : Reply(c, how) /\ how = "capacity"
    <3>1. Moves
      BY <1>3, <2>1, MovesOn DEF ReserveSession, Reply, callVars, Admitted
    <3> QED BY <3>1, <1>1
  <2>2. ASSUME NEW s \in Sessions, sessions[s] = "free",
               sessions' = [sessions EXCEPT ![s] = "connecting"],
               sid' = [sid EXCEPT ![c] = s],
               pc' = [pc EXCEPT ![c] = "connecting"], UNCHANGED <<kind, rid>>,
               pc[c] = "parsing", kind[c] = "init"
        PROVE  Owned'
    <3>1. \A d \in Calls : sid[d] # s
      BY <2>2 DEF Owned
    <3>2. \A z \in Sessions : Announced(z) => Announced(z)'
      BY <2>2, <3>1 DEF Announced, TypedAndPlaced, TypeOK
    <3>3. \A d \in Calls : sid'[d] \in Sessions =>
            pc'[d] # "new" /\ sessions'[sid'[d]] # "free"
      BY <2>2 DEF Owned, TypedAndPlaced, TypeOK
    <3>4. \A d, e \in Calls :
            sid'[d] \in Sessions /\ sid'[e] = sid'[d] /\ d # e => rid'[e] # rid'[d]
      BY <2>2, <3>1 DEF Owned, TypedAndPlaced, TypeOK
    <3>5. \A d, e \in Calls :
            /\ kind'[d] = "init" /\ kind'[e] = "init"
            /\ sid'[d] \in Sessions /\ sid'[e] = sid'[d]
            => d = e
      BY <2>2, <3>1 DEF Owned, TypedAndPlaced, TypeOK
    <3>6. \A d \in Calls, z \in Sessions :
            sid'[d] = z /\ kind'[d] # "init" => Announced(z)'
      <4> SUFFICES ASSUME NEW d \in Calls, NEW z \in Sessions,
                          sid'[d] = z, kind'[d] # "init"
                   PROVE  Announced(z)'
        OBVIOUS
      <4>1. Announced(z)
        BY <2>2 DEF Owned, TypedAndPlaced, TypeOK
      <4> QED BY <4>1, <3>2
    <3>7. \A d \in Calls : pc'[d] = "connecting" => kind'[d] = "init"
      BY <2>2 DEF Owned, TypedAndPlaced, TypeOK
    <3> QED BY <3>3, <3>4, <3>5, <3>6, <3>7 DEF Owned, Announced
  <2> QED BY <1>3, <2>1, <2>2 DEF ReserveSession, callVars
<1> QED
  BY <1>1, <1>2, <1>3, MoveSteps

\* What every step keeps: calls that are admitted stay so, where they are.
Follows ==
    /\ \A c \in Calls : pc[c] = "accepted" => pc'[c] = "accepted"
    /\ \A c \in Admitted : c \in Admitted' /\ sid'[c] = sid[c] /\ rid'[c] = rid[c]

LEMMA FollowSteps == ASSUME TypedAndPlaced, Owned, [Next]_vars PROVE Follows
<1>1. ASSUME NEW c \in Calls, NEW k \in Kinds, NEW s \in Sessions \cup {None}, NEW i \in Ids,
             Arrive(c, k, s, i)
      PROVE  Follows
  BY <1>1 DEF Arrive, Follows, Admitted, TypedAndPlaced, TypeOK
<1>2. ASSUME NEW c \in Calls, ReserveSession(c) PROVE Follows
  <2>1. /\ pc[c] = "parsing" /\ rid' = rid /\ kind[c] = "init"
        /\ \A d \in Calls \ {c} : pc'[d] = pc[d] /\ sid'[d] = sid[d]
    BY <1>2 DEF ReserveSession, Reply, callVars, TypedAndPlaced, TypeOK
  <2> QED BY <2>1 DEF Follows, Admitted
<1> QED
  BY <1>1, <1>2, MoveSteps DEF Moves, Follows, Admitted

\* An entry names a work of its session and id; so a call finds its own work or
\* nothing.
LEMMA FindsOwn ==
    ASSUME TypedAndPlaced, Owned, Marked, NEW c \in Admitted
    PROVE  Registered(c) \in {c, None}
<1>1. c \in Calls /\ sid[c] \in Sessions /\ rid[c] \in Ids
  BY DEF Admitted, TypedAndPlaced, TypeOK
<1>2. Registered(c) \in Calls \cup {None}
  BY <1>1 DEF Registered, TypedAndPlaced, TypeOK
<1>3. ASSUME NEW d \in Calls, Registered(c) = d PROVE d = c
  <2>1. sid[d] = sid[c] /\ rid[d] = rid[c]
    BY <1>1, <1>3 DEF Registered, Marked
  <2> QED BY <1>1, <2>1 DEF Owned
<1> QED BY <1>2, <1>3

LEMMA MarkedKept ==
    ASSUME TypedAndPlaced, Marked, Follows,
           opDone' \cup respDone' \cup entered'
             \subseteq opDone \cup respDone \cup entered \cup Admitted,
           sending' \subseteq respDone',
           \A c \in Calls : sdk'[c] # "none" => sdk[c] # "none",
           \A s \in Sessions, i \in Ids : requests'[s][i] \in {requests[s][i], None}
    PROVE  Marked'
<1>1. (opDone \cup respDone \cup entered \subseteq Admitted)'
  BY DEF Marked, Follows
<1>2. \A c \in Calls : sdk'[c] # "none" => pc'[c] = "accepted"
  BY DEF Marked, Follows
<1>3. \A s \in Sessions, i \in Ids : \A c \in Calls :
         requests'[s][i] = c => sid'[c] = s /\ rid'[c] = i
  BY ConstantsAssumption DEF Marked, Follows, TypedAndPlaced, Placed
<1> QED BY <1>1, <1>2, <1>3 DEF Marked

\* A call whose operation runs, or may still start, is left alone by a step, or
\* the step ends it.
Untouched(c) ==
    /\ requests'[sid[c]][rid[c]] = Registered(c)
    /\ c \in counted => c \in counted'
    /\ c \in opDone' => c \in opDone

LEMMA RunningKept ==
    ASSUME TypedAndPlaced, Owned, Marked, Running, Follows, Marked',
           UNCHANGED <<entered, workOf>>, aborted \subseteq aborted',
           \A c \in Calls : sdk'[c] \in {"queued", "running"} => sdk'[c] = sdk[c],
           \A c \in Calls : sdk'[c] \in {"queued", "running"} =>
             \/ Untouched(c)
             \/ sdk'[c] = "queued" /\ requests'[sid[c]][rid[c]] = None,
           \A c \in Calls : sdk[c] = "running" /\ sessions'[sid[c]] = "closed" =>
             sessions[sid[c]] = "closed" \/ c \in aborted'
    PROVE  Running'
<1>1. \A c \in Calls : sdk[c] # "none" =>
         /\ c \in Admitted
         /\ sid'[c] = sid[c] /\ rid'[c] = rid[c] /\ workOf'[c] = workOf[c]
  BY DEF TypedAndPlaced, Placed, Follows
<1>2. \A c \in Calls : sdk'[c] = "queued" /\ requests'[sid'[c]][rid'[c]] = c =>
         c \in counted' /\ c \notin opDone'
  BY <1>1, ConstantsAssumption DEF Running, Untouched, Registered
<1>3. \A c \in Calls : sdk'[c] = "running" =>
         /\ workOf'[c] = c /\ requests'[sid'[c]][rid'[c]] = c
         /\ c \in entered' /\ c \in counted' /\ c \notin opDone'
  BY <1>1 DEF Running, Untouched, Registered
<1>4. \A c \in Calls : sdk'[c] = "queued" => c \notin entered'
  BY DEF Running
<1>5. CloseReachesOperations'
  BY <1>1 DEF Running, CloseReachesOperations
<1> QED BY <1>2, <1>3, <1>4, <1>5 DEF Running, Registered

\* A step that only sends, times out or closes sessions.
SendsOnly ==
    /\ UNCHANGED <<requests, counted, opDone, entered, workOf>>
    /\ aborted \subseteq aborted'
    /\ respDone' \subseteq respDone \cup Admitted
    /\ respDone \subseteq respDone'
    /\ sending' \subseteq sending \cup respDone'
    /\ \A c \in Calls : sdk'[c] # "none" => sdk[c] # "none"
    /\ \A c \in Calls : sdk'[c] \in {"queued", "running"} => sdk'[c] = sdk[c]
    /\ \A c \in Calls : sdk[c] = "running" /\ sessions'[sid[c]] = "closed" =>
         sessions[sid[c]] = "closed" \/ c \in aborted'

LEMMA SendsKeep ==
    ASSUME TypedAndPlaced, Owned, Marked, Running, Follows, SendsOnly
    PROVE  Marked' /\ Running'
<1>1. Marked'
  BY MarkedKept DEF SendsOnly, Marked
<1>2. \A c \in Calls : sdk'[c] \in {"queued", "running"} => Untouched(c)
  BY DEF SendsOnly, Untouched, Registered
<1> QED BY <1>1, <1>2, RunningKept DEF SendsOnly

\* Cancelling registered works, and closing sessions, is such a step: closing
\* aborts the works registered in the session, which are those that run there.
LEMMA CancelSends ==
    ASSUME TypedAndPlaced, NEW works \in SUBSET (Admitted \cup {None}), Cancel(works),
           UNCHANGED <<requests, counted, opDone, entered, workOf, sdk, sessions>>
    PROVE  SendsOnly
  BY ConstantsAssumption DEF Cancel, StartSend, SendNow, SendsOnly, TypedAndPlaced, Placed,
     Admitted

LEMMA CloseSends ==
    ASSUME TypedAndPlaced, Owned, Marked, Running, NEW S \in SUBSET Sessions, CloseSessions(S),
           UNCHANGED <<requests, counted, opDone, entered, workOf, sdk>>
    PROVE  SendsOnly
<1>1. RegisteredIn(S \cap Live) \subseteq Admitted
  BY RegisteredInAdmitted
<1>2. /\ aborted' = aborted \cup RegisteredIn(S \cap Live)
      /\ respDone' = respDone \cup (RegisteredIn(S \cap Live) \ respDone)
      /\ sending' = sending \cup (RegisteredIn(S \cap Live) \ respDone)
  BY <1>1, ConstantsAssumption DEF CloseSessions, Cancel, StartSend, SendNow, Admitted
<1>3. ASSUME NEW c \in Calls, sdk[c] = "running", sessions'[sid[c]] = "closed",
             sessions[sid[c]] # "closed"
      PROVE  c \in RegisteredIn(S \cap Live)
  <2>1. sid[c] \in Sessions /\ rid[c] \in Ids /\ requests[sid[c]][rid[c]] = c
    BY <1>3 DEF TypedAndPlaced, TypeOK, Placed, Admitted, Running, Registered
  <2>2. sid[c] \in S \cap Live
    BY <1>3, <2>1 DEF CloseSessions
  <2> QED BY <2>1, <2>2 DEF RegisteredIn
<1> QED BY <1>1, <1>2, <1>3 DEF SendsOnly

LEMMA QuietSends ==
    ASSUME UNCHANGED <<requests, counted, opDone, entered, workOf, aborted, respDone, sending>>,
           \A c \in Calls : sdk'[c] # "none" => sdk[c] # "none",
           \A c \in Calls : sdk'[c] \in {"queued", "running"} => sdk'[c] = sdk[c],
           \A c \in Calls : sdk[c] = "running" /\ sessions'[sid[c]] = "closed" =>
             sessions[sid[c]] = "closed"
    PROVE  SendsOnly
  BY DEF SendsOnly

\* A work settles.
LEMMA SettleElsewhere ==
    ASSUME TypedAndPlaced, Owned, NEW w \in Admitted, NEW op, NEW resp, Settle(w, op, resp),
           NEW c \in Admitted, c # w
    PROVE  /\ requests'[sid[c]][rid[c]] = Registered(c)
           /\ c \in counted => c \in counted'
  BY DEF TypedAndPlaced, TypeOK, Owned, Settle, SettleAs, Registered, Admitted

LEMMA SettlesKeep ==
    ASSUME TypedAndPlaced, Owned, Marked, Running, Follows,
           NEW w \in Admitted, Settle(w, opDone', respDone'),
           opDone' \subseteq opDone \cup {w}, respDone' \subseteq respDone \cup {w},
           respDone \subseteq respDone', sending' \subseteq sending,
           UNCHANGED <<entered, workOf, aborted>>,
           \A c \in Calls : sdk'[c] # "none" => sdk[c] # "none",
           \A c \in Calls : sdk'[c] \in {"queued", "running"} => sdk'[c] = sdk[c],
           \A c \in Calls : sdk[c] = "running" /\ sessions'[sid[c]] = "closed" =>
             sessions[sid[c]] = "closed",
           sdk'[w] \in {"queued", "running"} =>
             \/ Untouched(w)
             \/ sdk'[w] = "queued" /\ requests'[sid[w]][rid[w]] = None
    PROVE  Marked' /\ Running'
<1>1. \A s \in Sessions, i \in Ids : requests'[s][i] \in {requests[s][i], None}
  BY SettleTyped
<1>2. Marked'
  BY <1>1, MarkedKept DEF Marked
<1>3. ASSUME NEW c \in Calls, sdk'[c] \in {"queued", "running"}, c # w
      PROVE  Untouched(c)
  <2>1. c \in Admitted
    BY <1>3 DEF TypedAndPlaced, Placed
  <2> QED BY <1>3, <2>1, SettleElsewhere DEF Untouched
<1> QED BY <1>2, <1>3, RunningKept

\* Registration: a call that was nothing but read so far gets an entry and a slot.
LEMMA AdmitKeeps ==
    ASSUME TypedAndPlaced, Owned, Marked, Running, Follows,
           NEW c \in Calls, pc[c] \in {"parsing", "connecting"}, sid[c] \in Sessions,
           NEW dispatched \in BOOLEAN, Admit(c, sid[c], dispatched),
           \A s \in Sessions : sessions'[s] = "closed" => sessions[s] = "closed"
    PROVE  Marked' /\ Running'
<1>1. /\ c \notin Admitted /\ c \notin opDone /\ c \notin entered /\ sdk[c] = "none"
      /\ \A d \in Calls : sdk[d] # "none" =>
           /\ d \in Admitted /\ d # c
           /\ sid[d] \in Sessions /\ rid[d] \in Ids
  BY DEF Admitted, Marked, TypedAndPlaced, TypeOK, Placed
<1>2. UNCHANGED <<sid, rid, aborted, entered, opDone, respDone, sending, workOf>>
  BY DEF Admit, callVars, flagVars
<1>3. CASE UNCHANGED <<requests, countVars, sdk>>
  <2>1. SendsOnly
    BY <1>1, <1>2, <1>3, QuietSends DEF countVars
  <2> QED BY <2>1, SendsKeep
<1>4. CASE /\ requests[sid[c]][rid[c]] = None
           /\ requests' = [requests EXCEPT ![sid[c]][rid[c]] = c]
           /\ counted' = counted \cup {c}
           /\ \E step \in {"queued", "none"} :
                /\ sdk' = [sdk EXCEPT ![c] = step]
                /\ step = "queued" => pc' = [pc EXCEPT ![c] = "accepted"]
  <2>1. PICK step \in {"queued", "none"} :
          /\ sdk' = [sdk EXCEPT ![c] = step]
          /\ step = "queued" => pc' = [pc EXCEPT ![c] = "accepted"]
    BY <1>4
  <2>2. \A d \in Calls : sdk'[d] = IF d = c THEN step ELSE sdk[d]
    BY <2>1 DEF TypedAndPlaced, TypeOK
  <2>3. \A s \in Sessions, i \in Ids :
          requests'[s][i] = IF s = sid[c] /\ i = rid[c] THEN c ELSE requests[s][i]
    BY <1>4 DEF TypedAndPlaced, TypeOK
  <2>4. Marked'
    <3>1. (opDone \cup respDone \cup entered \subseteq Admitted)'
      BY <1>2 DEF Marked, Follows
    <3>2. sending' \subseteq respDone'
      BY <1>2 DEF Marked
    <3>3. step = "queued" => pc'[c] = "accepted"
      BY <2>1 DEF TypedAndPlaced, TypeOK
    <3>4. \A d \in Calls : sdk'[d] # "none" => pc'[d] = "accepted"
      BY <2>2, <3>3 DEF Marked, Follows
    <3>5. \A s \in Sessions, i \in Ids : \A d \in Calls :
            requests'[s][i] = d => sid'[d] = s /\ rid'[d] = i
      BY <1>2, <2>3 DEF Marked
    <3> QED BY <3>1, <3>2, <3>4, <3>5 DEF Marked
  <2>5. ASSUME NEW d \in Calls, sdk[d] # "none"
        PROVE  /\ sdk'[d] = sdk[d]
               /\ requests'[sid[d]][rid[d]] = Registered(d)
               /\ d \in counted' <=> d \in counted
    <3>1. sid[d] # sid[c] \/ rid[d] # rid[c]
      BY <1>1, <2>5 DEF Owned
    <3> QED BY <1>1, <1>4, <2>2, <2>3, <2>5, <3>1 DEF Registered
  <2>6. \A d \in Calls : sdk'[d] = "queued" /\ requests'[sid'[d]][rid'[d]] = d =>
          d \in counted' /\ d \notin opDone'
    BY <1>1, <1>2, <1>4, <2>5 DEF Running
  <2>7. \A d \in Calls : sdk'[d] = "running" => d # c /\ sdk[d] = "running"
    BY <2>2
  <2>8. \A d \in Calls : sdk'[d] = "running" =>
          /\ workOf'[d] = d /\ requests'[sid'[d]][rid'[d]] = d
          /\ d \in entered' /\ d \in counted' /\ d \notin opDone'
    BY <1>2, <2>5, <2>7 DEF Running
  <2>9. \A d \in Calls : sdk'[d] = "queued" => d \notin entered'
    BY <1>1, <1>2, <2>2 DEF Running
  <2>10. CloseReachesOperations'
    BY <1>1, <1>2, <2>7 DEF Running, CloseReachesOperations
  <2> QED BY <2>4, <2>6, <2>8, <2>9, <2>10 DEF Running, Registered
<1> QED
  <2>1. CASE requests[sid[c]][rid[c]] # None \/ AtCapacity(sid[c])
    BY <1>3, <2>1 DEF Admit
  <2>2. CASE ~(requests[sid[c]][rid[c]] # None \/ AtCapacity(sid[c])) /\ dispatched
    BY <1>4, <2>2 DEF Admit
  <2>3. CASE ~(requests[sid[c]][rid[c]] # None \/ AtCapacity(sid[c])) /\ ~dispatched
    <3>1. sdk' = [sdk EXCEPT ![c] = "none"]
      BY <1>1, <2>3 DEF Admit
    <3> QED BY <1>4, <2>3, <3>1 DEF Admit
  <2> QED BY <2>1, <2>2, <2>3

\* The session of an initialize call that has not been accepted is its own.
LEMMA Unannounced ==
    ASSUME TypedAndPlaced, Owned, NEW c \in Calls, kind[c] = "init", sid[c] \in Sessions,
           pc[c] # "accepted", NEW d \in Calls, sid[d] = sid[c]
    PROVE  d = c
<1>1. kind[d] = "init"
  BY DEF Owned, Announced
<1> QED BY <1>1 DEF Owned

LEMMA HandleKeeps ==
    ASSUME TypedAndPlaced, Owned, Marked, Running, Follows, NEW c \in Calls, Handle(c)
    PROVE  Marked' /\ Running'
<1>1. ASSUME NEW k \in Kinds, NEW s \in Sessions \cup {None}, NEW i \in Ids, Arrive(c, k, s, i)
      PROVE  SendsOnly
  BY <1>1, QuietSends DEF Arrive, countVars, flagVars, sdkVars
<1>2. ASSUME NEW how, Reply(c, how) PROVE SendsOnly
  BY <1>2, QuietSends DEF Reply, countVars, flagVars, sdkVars
<1>3. CASE BodyRead(c)
  <2>1. CASE \E dispatched \in BOOLEAN :
               Admit(c, sid[c], dispatched) /\ UNCHANGED sessions
    BY <1>3, <2>1, AdmitKeeps DEF BodyRead, TypedAndPlaced, Placed
  <2> QED BY <1>2, <1>3, <2>1, SendsKeep DEF BodyRead
<1>4. CASE InitializeRead(c)
  <2>1. CASE \E how : Reply(c, how)
    BY <1>2, <2>1, SendsKeep
  <2>2. CASE \E s \in Sessions :
               /\ sessions[s] = "free"
               /\ sessions' = [sessions EXCEPT ![s] = "connecting"]
               /\ UNCHANGED <<requests, countVars, flagVars, sdkVars>>
    <3>1. \A s \in Sessions : sessions'[s] = "closed" => sessions[s] = "closed"
      BY <2>2 DEF TypedAndPlaced, TypeOK
    <3>2. \A d \in Calls : sdk[d] = "running" => sid[d] \in Sessions
      BY DEF TypedAndPlaced, Placed, Admitted
    <3>3. SendsOnly
      BY <2>2, <3>1, <3>2, QuietSends DEF countVars, flagVars, sdkVars
    <3> QED BY <3>3, SendsKeep
  <2> QED BY <1>4, <2>1, <2>2 DEF InitializeRead, ReserveSession
<1>5. ASSUME CloseSessions({sid[c]}), pc[c] \in {"connecting", "faulted"},
             UNCHANGED <<requests, countVars, entered, opDone, sdkVars>>
      PROVE  Marked' /\ Running'
  <2>1. {sid[c]} \in SUBSET Sessions
    BY <1>5 DEF TypedAndPlaced, Placed
  <2> QED BY <1>5, <2>1, CloseSends, SendsKeep DEF countVars, sdkVars
<1>6. CASE Connected(c)
  <2>1. CASE state # "ready"
    BY <1>5, <1>6, <2>1 DEF Connected
  <2>2. CASE state = "ready" /\ sessions[sid[c]] = "closed"
    BY <1>2, <1>6, <2>2, SendsKeep DEF Connected
  <2>3. CASE state = "ready" /\ sessions[sid[c]] # "closed"
    <3>1. /\ pc[c] = "connecting" /\ sid[c] \in Sessions
          /\ sessions' = [sessions EXCEPT ![sid[c]] = "open"]
      BY <1>6, <2>3 DEF Connected, TypedAndPlaced, Placed
    <3>2. \A s \in Sessions : sessions'[s] = "closed" => sessions[s] = "closed"
      BY <3>1 DEF TypedAndPlaced, TypeOK
    <3> QED BY <1>6, <2>3, <3>1, <3>2, AdmitKeeps DEF Connected
  <2> QED BY <2>1, <2>2, <2>3
<1>7. CASE ConnectFails(c) \/ FaultedClose(c)
  BY <1>5, <1>7 DEF ConnectFails, FaultedClose
<1>8. CASE Rejected(c)
  <2>1. c \in Admitted /\ sdk[c] = "none"
    BY <1>8 DEF Rejected, TypedAndPlaced, Placed, Admitted, Marked
  <2>2. \A d \in Calls : sdk[d] = "running" /\ sessions'[sid[d]] = "closed" =>
          sessions[sid[d]] = "closed"
    <3> SUFFICES ASSUME NEW d \in Calls, sdk[d] = "running", sessions'[sid[d]] = "closed",
                        sessions[sid[d]] # "closed"
                 PROVE  FALSE
      OBVIOUS
    <3>1. /\ kind[c] = "init" /\ sid[c] \in Sessions /\ sid[d] = sid[c]
          /\ pc[c] = "rejecting"
      BY <1>8, <2>1 DEF Rejected, RejectedCloses, TypedAndPlaced, TypeOK, Admitted
    <3>2. d = c
      BY <3>1, Unannounced
    <3> QED BY <2>1, <3>2
  <2>3. UNCHANGED <<entered, workOf, aborted, sdk, sending>>
    BY <1>8 DEF Rejected, sdkVars
  <2> QED BY <1>8, <2>1, <2>2, <2>3, SettlesKeep DEF Rejected
<1>9. CASE Faulted(c)
  <2>1. {Registered(c)} \in SUBSET (Admitted \cup {None})
    BY <1>9, RegisteredIsAdmitted DEF Faulted, TypedAndPlaced, Placed, Admitted
  <2>2. SendsOnly
    BY <1>9, <2>1, CancelSends DEF Faulted, countVars, sdkVars
  <2> QED BY <2>2, SendsKeep
<1> QED
  BY <1>1, <1>3, <1>4, <1>6, <1>7, <1>8, <1>9, SendsKeep DEF Handle

LEMMA SdkKeeps ==
    ASSUME TypedAndPlaced, Owned, Marked, Running, Follows, NEW c \in Calls, Sdk(c)
    PROVE  Marked' /\ Running'
<1>1. CASE RunTool(c)
  <2>1. c \in Admitted /\ Registered(c) \in {c, None} /\ sdk[c] = "queued"
    BY <1>1, FindsOwn DEF RunTool, TypedAndPlaced, Placed
  <2>2. UNCHANGED <<sessions, requests, countVars, sid, callVars, aborted, opDone,
                    respDone, sending>>
    BY <1>1 DEF RunTool
  <2>3. CASE sdk' = [sdk EXCEPT ![c] = "returned"] /\ UNCHANGED <<entered, workOf>>
    <3>1. SendsOnly
      BY <2>1, <2>2, <2>3, QuietSends DEF countVars, TypedAndPlaced, TypeOK
    <3> QED BY <3>1, SendsKeep
  <2>4. CASE /\ Registered(c) = c /\ sessions[sid[c]] # "closed"
             /\ entered' = entered \cup {c} /\ workOf' = [workOf EXCEPT ![c] = c]
             /\ sdk' = [sdk EXCEPT ![c] = "running"]
    <3>1. \A d \in Calls : /\ sdk'[d] = IF d = c THEN "running" ELSE sdk[d]
                           /\ workOf'[d] = IF d = c THEN c ELSE workOf[d]
      BY <2>4 DEF TypedAndPlaced, TypeOK
    <3>2. Marked'
      BY <2>1, <2>2, <2>4, <3>1, MarkedKept DEF Marked
    <3>3. c \in counted /\ c \notin opDone
      BY <2>1, <2>4 DEF Running
    <3>4. \A d \in Calls : Registered(d)' = Registered(d)
      BY <2>2 DEF Registered, callVars
    <3>5. \A d \in Calls : sdk'[d] = "queued" /\ Registered(d)' = d =>
            d \in counted' /\ d \notin opDone'
      BY <2>2, <3>1, <3>4 DEF Running, countVars
    <3>6. \A d \in Calls : sdk'[d] = "running" =>
            /\ workOf'[d] = d /\ Registered(d)' = d
            /\ d \in entered' /\ d \in counted' /\ d \notin opDone'
      BY <2>2, <2>4, <3>1, <3>3, <3>4 DEF Running, countVars
    <3>7. \A d \in Calls : sdk'[d] = "queued" => d \notin entered'
      BY <2>4, <3>1 DEF Running
    <3>8. CloseReachesOperations'
      BY <2>2, <2>4, <3>1 DEF Running, CloseReachesOperations
    <3> QED BY <3>2, <3>5, <3>6, <3>7, <3>8 DEF Running
  <2> QED
    BY <1>1, <2>1, <2>3, <2>4 DEF RunTool
<1>2. CASE HandledBySdk(c)
  <2>1. SendsOnly
    BY <1>2, QuietSends DEF HandledBySdk, countVars, flagVars, TypedAndPlaced, TypeOK
  <2> QED BY <2>1, SendsKeep
<1>3. CASE OperationFinished(c)
  <2>1. c \in Admitted /\ workOf[c] = c
    BY <1>3 DEF OperationFinished, TypedAndPlaced, Placed, Running
  <2>2. /\ sdk' = [sdk EXCEPT ![c] = "returned"] /\ sdk[c] = "running"
        /\ opDone' = opDone \cup {c} /\ Settle(c, opDone', respDone')
        /\ UNCHANGED <<sessions, entered, workOf, aborted, respDone, sending>>
    BY <1>3, <2>1 DEF OperationFinished
  <2>3. \A d \in Calls : sdk'[d] = IF d = c THEN "returned" ELSE sdk[d]
    BY <2>2 DEF TypedAndPlaced, TypeOK
  <2>4. sdk'[c] = "returned"
    BY <2>1, <2>3 DEF Admitted
  <2> QED BY <2>1, <2>2, <2>3, <2>4, SettlesKeep
<1>4. CASE SendResult(c)
  <2>1. c \in Admitted /\ {Registered(c)} \ {None} \subseteq Admitted
    BY <1>4, FindsOwn DEF SendResult, TypedAndPlaced, Placed
  <2>2. /\ sdk' = [sdk EXCEPT ![c] = "quiet"] /\ sdk[c] = "returned"
        /\ UNCHANGED <<sessions, requests, counted, aborted, opDone, entered, workOf>>
    BY <1>4 DEF SendResult, countVars
  <2>3. /\ respDone' \subseteq respDone \cup Admitted /\ respDone \subseteq respDone'
        /\ sending' \subseteq sending \cup respDone'
    BY <1>4, <2>1 DEF SendResult, StartSend, SendNow
  <2>4. \A d \in Calls : sdk'[d] = IF d = c THEN "quiet" ELSE sdk[d]
    BY <2>2 DEF TypedAndPlaced, TypeOK
  <2>5. SendsOnly
    BY <2>2, <2>3, <2>4 DEF SendsOnly
  <2> QED BY <2>5, SendsKeep
<1>5. CASE SendFinished(c)
  <2>1. c \in Admitted /\ c \in respDone
    BY <1>5 DEF SendFinished, TypedAndPlaced, Placed, Marked
  <2>2. /\ opDone' = EndsWithResponse(c) /\ Settle(c, opDone', respDone')
        /\ sending' \subseteq sending
        /\ UNCHANGED <<sessions, entered, workOf, aborted, respDone, sdk>>
    BY <1>5 DEF SendFinished, sdkVars
  <2>3. CASE c \in entered
    <3>1. opDone' = opDone
      BY <2>2, <2>3 DEF EndsWithResponse
    <3>2. sdk'[c] \in {"queued", "running"} => c \notin opDone
      BY <2>1, <2>2, <2>3 DEF Running, Admitted
    <3>3. c \notin opDone => Untouched(c)
      BY <2>2, <3>1 DEF Settle, SettleAs, Untouched, Registered
    <3> QED BY <2>1, <2>2, <3>1, <3>2, <3>3, SettlesKeep
  <2>4. CASE c \notin entered
    <3>1. opDone' = opDone \cup {c}
      BY <2>2, <2>4 DEF EndsWithResponse
    <3>2. requests'[sid[c]][rid[c]] = None
      BY <2>1, <2>2, <3>1 DEF Settle, SettleAs, TypedAndPlaced, TypeOK, Admitted
    <3>3. sdk'[c] # "running"
      BY <2>1, <2>2, <2>4 DEF Running, Admitted
    <3> QED BY <2>1, <2>2, <3>1, <3>2, <3>3, SettlesKeep
  <2> QED BY <2>3, <2>4
<1> QED
  BY <1>1, <1>2, <1>3, <1>4, <1>5 DEF Sdk

LEMMA CancellationKeeps ==
    ASSUME TypedAndPlaced, Owned, Marked, Running, Follows, Cancellation
    PROVE  Marked' /\ Running'
<1>1. ASSUME NEW w \in Calls, RequestTimedOut(w) PROVE SendsOnly
  <2>1. {Registered(w)} \in SUBSET (Admitted \cup {None})
    BY <1>1, RegisteredIsAdmitted DEF RequestTimedOut, TypedAndPlaced, Placed
  <2> QED BY <1>1, <2>1, CancelSends DEF RequestTimedOut, countVars, sdkVars
<1>2. ASSUME NEW s \in Sessions, NEW i \in Ids, CancelNotification(s, i) PROVE SendsOnly
  <2>1. {requests[s][i]} \in SUBSET (Admitted \cup {None})
    BY DEF TypedAndPlaced, Placed
  <2> QED BY <1>2, <2>1, CancelSends DEF CancelNotification, countVars
<1>3. ASSUME NEW n \in notices, NotifySdk(n) PROVE SendsOnly
  BY <1>3, QuietSends DEF NotifySdk, countVars, flagVars
<1>4. ASSUME NEW s \in Sessions, DeleteSession(s) PROVE SendsOnly
  BY <1>4, CloseSends DEF DeleteSession, countVars, sdkVars
<1>5. ASSUME NEW s \in Sessions, GrowsStale(s) PROVE SendsOnly
  BY <1>5, QuietSends DEF GrowsStale, countVars, flagVars, sdkVars
<1>6. CASE SweepIdleSessions
  <2>1. Idle \in SUBSET Sessions
    BY DEF Idle, Live
  <2> QED BY <1>6, <2>1, CloseSends, SendsKeep DEF SweepIdleSessions, countVars, sdkVars
<1> QED
  BY <1>1, <1>2, <1>3, <1>4, <1>5, <1>6, SendsKeep DEF Cancellation

LEMMA RuntimeStep ==
    ASSUME ~ReuseIds, RuntimeInv, [Next]_vars PROVE RuntimeInv'
<1> USE DEF RuntimeInv
<1>1. TypedAndPlaced' /\ Owned' /\ Follows
  BY NextTyped, OwnedStep, FollowSteps
<1>2. CASE UNCHANGED vars \/ Start \/ (Shutdown /\ ~CloseAllSessions)
  <2>1. SendsOnly
    BY <1>2, QuietSends DEF vars, countVars, flagVars, sdkVars, Start, Shutdown, Stop,
       StopListening, Flush
  <2> QED BY <1>1, <2>1, SendsKeep
<1>3. CASE CloseAllSessions
  <2>1. Live \in SUBSET Sessions
    BY DEF Live
  <2> QED
    BY <1>1, <1>3, <2>1, CloseSends, SendsKeep DEF CloseAllSessions, countVars, sdkVars
<1> QED
  BY <1>1, <1>2, <1>3, HandleKeeps, SdkKeeps, CancellationKeeps DEF Next, Shutdown

LEMMA RuntimeInit == Init => RuntimeInv
<1> SUFFICES ASSUME Init PROVE RuntimeInv
  OBVIOUS
<1>1. Owned
  BY ConstantsAssumption DEF Init, Owned
<1>2. Marked
  BY ConstantsAssumption DEF Init, Marked
<1>3. Running
  BY DEF Init, Running, CloseReachesOperations
<1> QED BY <1>1, <1>2, <1>3, InitTyped DEF RuntimeInv

\* Whatever closes a session (DELETE, the idle sweep, a failed initialize, the
\* shutdown) and however it interleaves with requests, the closing step aborts
\* every operation that runs in the session.
THEOREM ClosingReaches == ~ReuseIds => (Spec => []CloseReachesOperations)
<1> SUFFICES ASSUME ~ReuseIds PROVE Spec => []CloseReachesOperations
  OBVIOUS
<1>1. RuntimeInv /\ [Next]_vars => RuntimeInv'
  BY RuntimeStep
<1>2. RuntimeInv => CloseReachesOperations
  BY DEF RuntimeInv, Running
<1> QED
  BY <1>1, <1>2, RuntimeInit, PTL DEF Spec

(***************************************************************************)
(* The runtime implements Admission.                                       *)
(***************************************************************************)
Held     == [s \in Sessions |-> CountedIn(s)]
Busy     == {workOf[c] : c \in {d \in Calls : sdk[d] = "running"}}
Decided  == {c \in Calls : pc[c] \notin {"new", "parsing", "connecting"}}
Answered == {c \in Calls : answer[c] # None}
Runs     == {c \in Calls : sdk[c] = "running"}

PromiseInv == RuntimeInv /\ Accounting /\ AnsweredIsMarked

\* The steps of Admission, by what they do to these four.
Refuses(c) ==
    /\ c \notin Decided /\ Decided' = Decided \cup {c}
    /\ Held' = Held /\ Busy' = Busy /\ Answered' = Answered

Answers ==
    /\ \E calls \in SUBSET (Decided \ Answered) : Answered' = Answered \cup calls
    /\ Held' = Held /\ Busy' = Busy /\ Decided' = Decided

Admits(c, s) ==
    /\ c \notin Decided /\ Decided' = Decided \cup {c}
    /\ Cardinality(Held[s]) < MaxPerSession /\ Cardinality(counted) < MaxGlobal
    /\ Held' = [Held EXCEPT ![s] = @ \cup {c}]
    /\ Busy' = Busy /\ Answered' = Answered

Begins(c) ==
    /\ c \in counted \ Busy /\ Busy' = Busy \cup {c}
    /\ Held' = Held /\ Decided' = Decided /\ Answered' = Answered

Releases(c) ==
    /\ c \in counted /\ Held' = [s \in Sessions |-> Held[s] \ {c}]
    /\ Busy' = Busy \ {c} /\ Decided' = Decided /\ Answered' = Answered

PromiseStep ==
    \/ Answers
    \/ \E c \in Calls :
         \/ \E s \in Sessions : Admits(c, s)
         \/ Refuses(c) \/ Begins(c) \/ Releases(c)

LEMMA HoldersAreCounted ==
    ASSUME TypedAndPlaced PROVE UNION {Held[s] : s \in Sessions} = counted
  BY DEF TypedAndPlaced, TypeOK, Placed, Admitted, Held, CountedIn

\* The module's own instance of Cardinality is the one of FiniteSets.
LEMMA SameCardinality == \A S : Promise!Cardinality(S) = Cardinality(S)
  BY DEF Cardinality, Promise!Cardinality

LEMMA PromiseSteps == ASSUME TypedAndPlaced, PromiseStep PROVE Promise!Next
<1>1. UNION {Held[s] : s \in Sessions} = counted
  BY HoldersAreCounted
<1>2. ASSUME NEW c \in Calls, Refuses(c) PROVE Promise!Refuse(c)
  BY <1>2 DEF Refuses, Promise!Refuse, Held, Busy, Decided, Answered
<1>3. ASSUME NEW c \in Calls, NEW s \in Sessions, Admits(c, s) PROVE Promise!Admit(c, s)
  <2>1. c \notin {d \in Calls : pc[d] \notin {"new", "parsing", "connecting"}}
    BY <1>3 DEF Admits, Decided
  <2>2. Promise!Cardinality(Held[s]) < MaxPerSession
    BY <1>3, SameCardinality DEF Admits
  <2>3. Promise!Cardinality(Promise!Holders) < MaxGlobal
    BY <1>1, <1>3, SameCardinality DEF Admits, Promise!Holders, Held
  <2>4. Held' = [Held EXCEPT ![s] = Held[s] \cup {c}]
    BY <1>3 DEF Admits
  <2> QED
    BY <1>3, <2>1, <2>2, <2>3, <2>4 DEF Admits, Promise!Admit, Held, Busy, Decided, Answered
<1>4. ASSUME NEW c \in Calls, Begins(c) PROVE Promise!Begin(c)
  BY <1>1, <1>4 DEF Begins, Promise!Begin, Promise!Holders, Held, Busy, Decided, Answered
<1>5. ASSUME NEW c \in Calls, Releases(c) PROVE Promise!Release(c)
  BY <1>1, <1>5 DEF Releases, Promise!Release, Promise!Holders, Held, Busy, Decided, Answered
<1>6. ASSUME Answers PROVE \E calls \in SUBSET Calls : Promise!Answer(calls)
  <2>1. PICK calls \in SUBSET (Decided \ Answered) : Answered' = Answered \cup calls
    BY <1>6 DEF Answers
  <2>2. Promise!Answer(calls)
    BY <1>6, <2>1 DEF Answers, Promise!Answer, Held, Busy, Decided, Answered
  <2> QED BY <2>1, <2>2 DEF Decided
<1> QED BY <1>2, <1>3, <1>4, <1>5, <1>6 DEF PromiseStep, Promise!Next

LEMMA PromiseInit == ASSUME Init PROVE Promise!Init
<1>1. /\ \A s \in Sessions : CountedIn(s) = {}
      /\ {d \in Calls : sdk[d] = "running"} = {}
      /\ {c \in Calls : pc[c] \notin {"new", "parsing", "connecting"}} = {}
      /\ {c \in Calls : answer[c] # None} = {}
  BY DEF Init, CountedIn
<1> QED BY <1>1 DEF Promise!Init

\* The running calls are the busy ones, since each runs on its own work.
LEMMA BusyRuns ==
    ASSUME Running, Running' PROVE Busy = Runs /\ Busy' = Runs'
  BY DEF Running, Busy, Runs

LEMMA HeldKept ==
    ASSUME TypedAndPlaced, Follows, counted' = counted PROVE Held' = Held
<1>1. \A s \in Sessions : CountedIn(s)' = CountedIn(s)
  BY DEF TypedAndPlaced, Placed, Follows, CountedIn
<1> QED BY <1>1 DEF Held

LEMMA HeldAdded ==
    ASSUME TypedAndPlaced, Follows, NEW c \in Calls, sid'[c] = sid[c], counted' = counted \cup {c},
           sid[c] \in Sessions
    PROVE  Held' = [Held EXCEPT ![sid[c]] = @ \cup {c}]
<1>1. \A s \in Sessions :
        CountedIn(s)' = IF s = sid[c] THEN CountedIn(s) \cup {c} ELSE CountedIn(s)
  BY DEF TypedAndPlaced, Placed, Follows, CountedIn
<1> QED BY <1>1 DEF Held

LEMMA HeldRemoved ==
    ASSUME TypedAndPlaced, Follows, NEW c \in Calls, counted' = counted \ {c}
    PROVE  Held' = [s \in Sessions |-> Held[s] \ {c}]
<1>1. \A s \in Sessions : CountedIn(s)' = CountedIn(s) \ {c}
  BY DEF TypedAndPlaced, Placed, Follows, CountedIn
<1> QED BY <1>1 DEF Held

\* A call that moves on to `how` is then decided or not.
LEMMA DecidedNext ==
    ASSUME TypedAndPlaced, NEW c \in Calls, NEW how, pc' = [pc EXCEPT ![c] = how],
           c \in Decided => how \notin {"new", "parsing", "connecting"}
    PROVE  Decided' = IF how \in {"new", "parsing", "connecting"}
                      THEN Decided ELSE Decided \cup {c}
  BY DEF TypedAndPlaced, TypeOK, Decided

\* Works that are sent an answer had none, and have one then.
LEMMA SendAnswers ==
    ASSUME TypedAndPlaced, AnsweredIsMarked, NEW works \in SUBSET Admitted,
           NEW reply \in Calls \cup {ErrorReply}, StartSend(works, reply)
    PROVE  /\ works \ respDone \in SUBSET (Decided \ Answered)
           /\ Answered' = Answered \cup (works \ respDone)
  BY ConstantsAssumption DEF TypedAndPlaced, TypeOK, AnsweredIsMarked, StartSend, SendNow,
     Answered, Decided, Admitted

\* A step that neither decides nor runs nor slots, and may answer works.
LEMMA AnswersOnly ==
    ASSUME PromiseInv, Follows, Running', counted' = counted, Runs' = Runs,
           Decided' = Decided,
           NEW works \in SUBSET Admitted, NEW reply \in Calls \cup {ErrorReply},
           StartSend(works, reply)
    PROVE  Answers
<1>1. Held' = Held /\ Busy' = Busy
  BY HeldKept, BusyRuns DEF PromiseInv, RuntimeInv
<1> QED BY <1>1, SendAnswers DEF Answers, PromiseInv, RuntimeInv

LEMMA CancelAnswers ==
    ASSUME PromiseInv, Follows, Running', counted' = counted, sdk' = sdk, Decided' = Decided,
           NEW works \in SUBSET (Admitted \cup {None}), Cancel(works)
    PROVE  Answers
<1>1. StartSend(works \ {None}, ErrorReply)
  BY DEF Cancel
<1> QED BY <1>1, AnswersOnly DEF Runs

LEMMA CloseAnswers ==
    ASSUME PromiseInv, Follows, Running', counted' = counted, sdk' = sdk, Decided' = Decided,
           NEW S \in SUBSET Sessions, CloseSessions(S)
    PROVE  Answers
<1>1. RegisteredIn(S \cap Live) \in SUBSET (Admitted \cup {None})
  BY RegisteredInAdmitted DEF PromiseInv, RuntimeInv
<1> QED BY <1>1, CancelAnswers DEF CloseSessions

\* A step that answers nothing: it leaves the slots alone, and decides one call
\* or none.
LEMMA QuietStep ==
    ASSUME PromiseInv, Follows, Running', counted' = counted, Runs' = Runs, answer' = answer
    PROVE  /\ Held' = Held /\ Busy' = Busy /\ Answered' = Answered
           /\ \A c \in Calls : c \notin Decided /\ Decided' = Decided \cup {c} => Refuses(c)
           /\ Decided' = Decided => Answers
<1>1. Held' = Held /\ Busy' = Busy /\ Answered' = Answered
  BY HeldKept, BusyRuns DEF PromiseInv, RuntimeInv, Answered
<1>2. Answered' = Answered \cup {}
  BY <1>1
<1> QED BY <1>1, <1>2 DEF Refuses, Answers

\* Registration takes a free slot.
LEMMA AdmitRefines ==
    ASSUME PromiseInv, Follows, Running', NEW c \in Calls, pc[c] \in {"parsing", "connecting"},
           sid[c] \in Sessions, NEW dispatched \in BOOLEAN, Admit(c, sid[c], dispatched)
    PROVE  PromiseStep
<1> USE DEF PromiseInv, RuntimeInv
<1>1. c \notin Decided /\ sdk[c] = "none"
  BY DEF Decided, Marked, TypedAndPlaced, TypeOK
<1>2. sid' = sid /\ answer' = answer
  BY DEF Admit, flagVars
<1>3. ASSUME NEW how \in {"refused", "capacity"}, pc' = [pc EXCEPT ![c] = how],
             UNCHANGED <<requests, countVars, timers, sdk>>
      PROVE  Refuses(c)
  <2>1. counted' = counted /\ Runs' = Runs
    BY <1>3 DEF countVars, Runs
  <2>2. Decided' = Decided \cup {c}
    BY <1>1, <1>3, DecidedNext
  <2> QED BY <1>1, <1>2, <2>1, <2>2, QuietStep
<1>4. ASSUME NEW how \in {"accepted", "rejecting"}, pc' = [pc EXCEPT ![c] = how],
             NEW step \in {"queued", "none"}, sdk' = [sdk EXCEPT ![c] = step],
             counted' = counted \cup {c}, ~AtCapacity(sid[c])
      PROVE  Admits(c, sid[c])
  <2>1. Decided' = Decided \cup {c}
    BY <1>1, <1>4, DecidedNext
  <2>2. Runs' = Runs
    BY <1>1, <1>4 DEF Runs, TypedAndPlaced, TypeOK
  <2>3. Busy' = Busy
    BY <2>2, BusyRuns
  <2>4. Held' = [Held EXCEPT ![sid[c]] = @ \cup {c}]
    BY <1>2, <1>4, HeldAdded
  <2>5. Cardinality(Held[sid[c]]) < MaxPerSession /\ Cardinality(counted) < MaxGlobal
    BY <1>4, LimitsAssumption DEF AtCapacity, Accounting, Held, TypedAndPlaced, TypeOK
  <2>6. Answered' = Answered
    BY <1>2 DEF Answered
  <2> QED BY <1>1, <2>1, <2>3, <2>4, <2>5, <2>6 DEF Admits
<1> QED
  <2>1. CASE requests[sid[c]][rid[c]] # None \/ AtCapacity(sid[c])
    BY <1>3, <2>1 DEF Admit, PromiseStep
  <2>2. CASE ~(requests[sid[c]][rid[c]] # None \/ AtCapacity(sid[c]))
    <3>1. \E step \in {"queued", "none"} : sdk' = [sdk EXCEPT ![c] = step]
      BY <1>1, <2>2 DEF Admit
    <3>2. \E how \in {"accepted", "rejecting"} : pc' = [pc EXCEPT ![c] = how]
      BY <2>2 DEF Admit
    <3> QED BY <1>4, <2>2, <3>1, <3>2 DEF Admit, PromiseStep
  <2> QED BY <2>1, <2>2

\* A work that settles without running gives back its slot, or none.
LEMMA SettleRefines ==
    ASSUME PromiseInv, Follows, Running', NEW w \in Admitted, NEW op, NEW resp,
           Settle(w, op, resp), answer' = answer, Decided' = Decided,
           Runs' = Runs \/ (Runs' = Runs \ {w} /\ w \in op \cap counted),
           w \in op \cap counted => w \notin Runs'
    PROVE  PromiseStep
<1> USE DEF PromiseInv, RuntimeInv
<1>1. CASE w \in op \cap counted
  <2>1. counted' = counted \ {w}
    BY <1>1 DEF Settle, SettleAs
  <2>2. Held' = [s \in Sessions |-> Held[s] \ {w}]
    BY <2>1, HeldRemoved DEF Admitted
  <2>3. Busy' = Busy \ {w}
    BY <1>1, BusyRuns
  <2>4. Answered' = Answered
    BY DEF Answered
  <2> QED BY <1>1, <2>2, <2>3, <2>4 DEF Releases, PromiseStep, Admitted
<1>2. CASE w \notin op \cap counted
  <2>1. counted' = counted /\ Runs' = Runs
    BY <1>2 DEF Settle, SettleAs
  <2> QED BY <2>1, QuietStep DEF PromiseStep
<1> QED BY <1>1, <1>2

\* Closing the session of an initialize call that has nothing registered in it
\* answers nothing.
LEMMA NothingToCancel ==
    ASSUME PromiseInv, NEW c \in Calls, pc[c] = "connecting", CloseSessions({sid[c]})
    PROVE  answer' = answer
<1> USE DEF PromiseInv, RuntimeInv
<1>1. sid[c] \in Sessions /\ kind[c] = "init" /\ c \notin Admitted
  BY DEF TypedAndPlaced, Placed, Owned, Admitted
<1>2. ASSUME NEW d \in RegisteredIn({sid[c]} \cap Live) PROVE FALSE
  <2>1. d \in Calls /\ sid[d] = sid[c] /\ d \in Admitted
    BY <1>2, RegisteredInAdmitted, ConstantsAssumption
       DEF RegisteredIn, Marked, TypedAndPlaced, Placed
  <2>2. d = c
    BY <1>1, <2>1, Unannounced
  <2> QED BY <1>1, <2>1, <2>2
<1>3. \A d \in Calls : answer'[d] = answer[d]
  BY <1>2 DEF CloseSessions, Cancel, StartSend, SendNow
<1>4. answer' \in [Calls -> Calls \cup {None, ErrorReply}]
  BY <1>1, CloseTyped
<1> QED BY <1>3, <1>4 DEF TypedAndPlaced, TypeOK

LEMMA HandleRefines ==
    ASSUME PromiseInv, Follows, Marked', Running', NEW c \in Calls, Handle(c)
    PROVE  PromiseStep
<1> USE DEF PromiseInv, RuntimeInv
<1>1. ASSUME NEW how, pc' = [pc EXCEPT ![c] = how], UNCHANGED <<countVars, sdk, answer>>,
             pc[c] \in {"new", "parsing", "connecting"}, how # "new"
      PROVE  PromiseStep
  <2>1. counted' = counted /\ Runs' = Runs /\ answer' = answer
    BY <1>1 DEF countVars, Runs
  <2>2. c \notin Decided /\ (Decided' = Decided \/ Decided' = Decided \cup {c})
    BY <1>1, DecidedNext DEF Decided
  <2> QED BY <2>1, <2>2, QuietStep DEF PromiseStep
<1>2. ASSUME NEW how \in {"refused", "capacity"}, Reply(c, how),
             pc[c] \in {"parsing", "connecting"}
      PROVE  PromiseStep
  BY <1>1, <1>2 DEF Reply, flagVars, sdkVars
<1>3. ASSUME NEW k \in Kinds, NEW s \in Sessions \cup {None}, NEW i \in Ids, Arrive(c, k, s, i)
      PROVE  PromiseStep
  BY <1>1, <1>3 DEF Arrive, flagVars, sdkVars
<1>4. CASE BodyRead(c)
  BY <1>2, <1>4, AdmitRefines DEF BodyRead, TypedAndPlaced, Placed
<1>5. CASE InitializeRead(c)
  BY <1>1, <1>2, <1>5 DEF InitializeRead, ReserveSession, flagVars, sdkVars
<1>6. ASSUME pc[c] = "connecting", CloseSessions({sid[c]}), pc' = [pc EXCEPT ![c] = "refused"],
             UNCHANGED <<countVars, sdkVars>>
      PROVE  PromiseStep
  BY <1>1, <1>6, NothingToCancel DEF sdkVars
<1>7. CASE Connected(c)
  <2>1. CASE state # "ready"
    BY <1>6, <1>7, <2>1 DEF Connected
  <2>2. CASE state = "ready"
    BY <1>2, <1>7, <2>2, AdmitRefines DEF Connected, TypedAndPlaced, Placed
  <2> QED BY <2>1, <2>2
<1>8. CASE ConnectFails(c)
  BY <1>6, <1>8 DEF ConnectFails
<1>9. CASE Rejected(c)
  <2>1. c \in Admitted /\ sdk[c] = "none" /\ Settle(c, opDone', respDone')
    BY <1>9 DEF Rejected, TypedAndPlaced, Placed, Admitted, Marked
  <2>2. c \in Decided /\ Decided' = Decided \cup {c} /\ answer' = answer /\ sdk' = sdk
    BY <1>9, DecidedNext DEF Rejected, Decided, sdkVars
  <2>3. Runs' = Runs /\ c \notin Runs'
    BY <2>1, <2>2 DEF Runs
  <2>4. Decided' = Decided
    BY <2>2
  <2> QED BY <2>1, <2>2, <2>3, <2>4, SettleRefines
<1>10. CASE Faulted(c)
  <2>1. {Registered(c)} \in SUBSET (Admitted \cup {None}) /\ Cancel({Registered(c)})
    BY <1>10, RegisteredIsAdmitted DEF Faulted, TypedAndPlaced, Placed, Admitted
  <2>2. /\ counted' = counted /\ sdk' = sdk
        /\ \E how \in {"faulted", "refused"} : pc' = [pc EXCEPT ![c] = how]
    BY <1>10 DEF Faulted, countVars, sdkVars
  <2>3. c \in Decided /\ Decided' = Decided \cup {c}
    BY <1>10, <2>2, DecidedNext DEF Faulted, Decided
  <2>4. Decided' = Decided
    BY <2>3
  <2> QED BY <2>1, <2>2, <2>4, CancelAnswers DEF PromiseStep
<1>11. CASE FaultedClose(c)
  <2>1. {sid[c]} \in SUBSET Sessions /\ CloseSessions({sid[c]})
    BY <1>11 DEF FaultedClose, TypedAndPlaced, Placed
  <2>2. counted' = counted /\ sdk' = sdk /\ pc' = [pc EXCEPT ![c] = "refused"]
    BY <1>11 DEF FaultedClose, countVars, sdkVars
  <2>3. c \in Decided /\ Decided' = Decided \cup {c}
    BY <1>11, <2>2, DecidedNext DEF FaultedClose, Decided
  <2>4. Decided' = Decided
    BY <2>3
  <2> QED BY <2>1, <2>2, <2>4, CloseAnswers DEF PromiseStep
<1> QED
  BY <1>3, <1>4, <1>5, <1>7, <1>8, <1>9, <1>10, <1>11 DEF Handle

LEMMA SdkRefines ==
    ASSUME PromiseInv, Follows, Marked', Running', NEW c \in Calls, Sdk(c)
    PROVE  PromiseStep
<1> USE DEF PromiseInv, RuntimeInv
<1>0. pc' = pc /\ Decided' = Decided
  BY DEF Sdk, RunTool, HandledBySdk, OperationFinished, SendResult, SendFinished, Decided
<1>1. CASE RunTool(c)
  <2>1. c \in Admitted /\ Registered(c) \in {c, None} /\ sdk[c] = "queued"
    BY <1>1, FindsOwn DEF RunTool, TypedAndPlaced, Placed
  <2>2. counted' = counted /\ answer' = answer
    BY <1>1 DEF RunTool, countVars
  <2>3. CASE sdk' = [sdk EXCEPT ![c] = "returned"]
    <3>1. Runs' = Runs
      BY <2>1, <2>3 DEF Runs, TypedAndPlaced, TypeOK
    <3> QED BY <1>0, <2>2, <3>1, QuietStep DEF PromiseStep
  <2>4. CASE Registered(c) = c /\ sdk' = [sdk EXCEPT ![c] = "running"]
    <3>1. c \in counted
      BY <2>1, <2>4 DEF Running
    <3>2. Runs' = Runs \cup {c} /\ c \notin Runs
      BY <2>1, <2>4 DEF Runs, TypedAndPlaced, TypeOK
    <3>3. Held' = Held /\ Answered' = Answered
      BY <2>2, HeldKept DEF Answered
    <3> QED BY <1>0, <3>1, <3>2, <3>3, BusyRuns DEF Begins, PromiseStep
  <2> QED BY <1>1, <2>1, <2>3, <2>4 DEF RunTool
<1>2. CASE HandledBySdk(c)
  <2>1. Runs' = Runs
    BY <1>2 DEF HandledBySdk, Runs, TypedAndPlaced, TypeOK
  <2>2. counted' = counted /\ answer' = answer
    BY <1>2 DEF HandledBySdk, countVars, flagVars
  <2> QED BY <1>0, <2>1, <2>2, QuietStep DEF PromiseStep
<1>3. CASE OperationFinished(c)
  <2>1. c \in Admitted /\ workOf[c] = c /\ c \in counted
    BY <1>3 DEF OperationFinished, TypedAndPlaced, Placed, Running
  <2>2. /\ Settle(c, opDone', respDone) /\ c \in opDone' /\ answer' = answer
        /\ sdk' = [sdk EXCEPT ![c] = "returned"]
    BY <1>3, <2>1 DEF OperationFinished
  <2>3. Runs' = Runs \ {c}
    BY <2>2 DEF Runs, TypedAndPlaced, TypeOK
  <2> QED BY <1>0, <2>1, <2>2, <2>3, SettleRefines
<1>4. CASE SendResult(c)
  <2>1. /\ c \in Admitted /\ {Registered(c)} \ {None} \in SUBSET Admitted
        /\ sdk[c] = "returned" /\ sdk' = [sdk EXCEPT ![c] = "quiet"] /\ counted' = counted
    BY <1>4, FindsOwn DEF SendResult, TypedAndPlaced, Placed, countVars
  <2>2. Runs' = Runs
    BY <2>1 DEF Runs, TypedAndPlaced, TypeOK
  <2>3. CASE c \in sdkAborted
    BY <1>0, <1>4, <2>1, <2>2, <2>3, QuietStep DEF SendResult, PromiseStep
  <2>4. CASE c \notin sdkAborted
    <3>1. StartSend({Registered(c)} \ {None}, c)
      BY <1>4, <2>4 DEF SendResult
    <3> QED BY <1>0, <2>1, <2>2, <3>1, AnswersOnly DEF PromiseStep
  <2> QED BY <2>3, <2>4
<1>5. CASE SendFinished(c)
  <2>1. /\ c \in Admitted /\ Settle(c, opDone', respDone) /\ answer' = answer
        /\ sdk' = sdk /\ opDone' = EndsWithResponse(c)
    BY <1>5 DEF SendFinished, TypedAndPlaced, Placed, sdkVars
  <2>2. Runs' = Runs
    BY <2>1 DEF Runs
  <2>3. c \in opDone' => c \notin Runs'
    BY DEF Running, Runs
  <2> QED BY <1>0, <2>1, <2>2, <2>3, SettleRefines
<1> QED
  BY <1>1, <1>2, <1>3, <1>4, <1>5 DEF Sdk

LEMMA CancellationRefines ==
    ASSUME PromiseInv, Follows, Marked', Running', Cancellation PROVE PromiseStep
<1> USE DEF PromiseInv, RuntimeInv
<1>0. UNCHANGED <<pc, counted, sdk>> /\ Decided' = Decided
  BY DEF Cancellation, RequestTimedOut, CancelNotification, NotifySdk, DeleteSession,
     GrowsStale, SweepIdleSessions, countVars, sdkVars, Decided
<1>1. ASSUME NEW w \in Calls, RequestTimedOut(w) PROVE PromiseStep
  <2>1. {Registered(w)} \in SUBSET (Admitted \cup {None}) /\ Cancel({Registered(w)})
    BY <1>1, RegisteredIsAdmitted DEF RequestTimedOut, TypedAndPlaced, Placed
  <2> QED BY <1>0, <2>1, CancelAnswers DEF PromiseStep
<1>2. ASSUME NEW s \in Sessions, NEW i \in Ids, CancelNotification(s, i) PROVE PromiseStep
  <2>1. {requests[s][i]} \in SUBSET (Admitted \cup {None}) /\ Cancel({requests[s][i]})
    BY <1>2 DEF CancelNotification, TypedAndPlaced, Placed
  <2> QED BY <1>0, <2>1, CancelAnswers DEF PromiseStep
<1>3. ASSUME answer' = answer PROVE PromiseStep
  BY <1>0, <1>3, QuietStep DEF Runs, PromiseStep
<1>4. ASSUME NEW S \in SUBSET Sessions, CloseSessions(S) PROVE PromiseStep
  BY <1>0, <1>4, CloseAnswers DEF PromiseStep
<1>5. Idle \in SUBSET Sessions
  BY DEF Idle, Live
<1> QED
  BY <1>1, <1>2, <1>3, <1>4, <1>5 DEF Cancellation, NotifySdk, DeleteSession, GrowsStale,
     SweepIdleSessions, flagVars

LEMMA RuntimeRefines ==
    ASSUME ~ReuseIds, PromiseInv, [Next]_vars PROVE PromiseStep \/ UNCHANGED Promise!vars
<1>1. RuntimeInv' /\ Follows
  BY RuntimeStep, FollowSteps DEF PromiseInv, RuntimeInv
<1>2. Marked' /\ Running'
  BY <1>1 DEF RuntimeInv
<1>3. CASE UNCHANGED vars
  <2>1. UNCHANGED <<counted, sid, sdk, workOf, pc, answer>>
    BY <1>3 DEF vars, countVars, sdkVars, flagVars
  <2> QED BY <2>1 DEF Promise!vars, CountedIn
<1>4. CASE Start \/ (Shutdown /\ ~CloseAllSessions)
  <2>1. /\ counted' = counted /\ answer' = answer /\ Runs' = Runs /\ Decided' = Decided
    BY <1>4 DEF Start, Shutdown, Stop, StopListening, Flush, countVars, flagVars, sdkVars,
       Runs, Decided
  <2> QED BY <1>1, <1>2, <2>1, QuietStep DEF PromiseStep
<1>5. CASE CloseAllSessions
  <2>1. /\ CloseSessions(Live) /\ Live \in SUBSET Sessions
        /\ counted' = counted /\ sdk' = sdk /\ Decided' = Decided
    BY <1>5 DEF CloseAllSessions, countVars, sdkVars, Live, Decided
  <2> QED BY <1>1, <1>2, <2>1, CloseAnswers DEF PromiseStep
<1> QED
  BY <1>1, <1>2, <1>3, <1>4, <1>5, HandleRefines, SdkRefines, CancellationRefines
     DEF Next, Shutdown

\* The runtime keeps the promise of docs/adr/0022: slots are bounded and kept for
\* as long as the operation runs, each call is decided once and answered at most
\* once; every step of the code is one of these or changes none of it.
THEOREM PromiseKept == ~ReuseIds => (Spec => ImplementsAdmission)
<1> SUFFICES ASSUME ~ReuseIds PROVE Spec => ImplementsAdmission
  OBVIOUS
<1>1. Init => PromiseInv /\ Promise!Init
  <2>1. Init => AnsweredIsMarked
    BY DEF Init, AnsweredIsMarked
  <2> QED BY <2>1, RuntimeInit, InitAccounting, PromiseInit DEF PromiseInv
<1>2. PromiseInv /\ [Next]_vars => PromiseInv' /\ [Promise!Next]_(Promise!vars)
  <2> SUFFICES ASSUME PromiseInv, [Next]_vars
               PROVE  PromiseInv' /\ [Promise!Next]_(Promise!vars)
    OBVIOUS
  <2>1. TypedAndPlaced
    BY DEF PromiseInv, RuntimeInv
  <2>2. RuntimeInv' /\ Accounting'
    BY <2>1, RuntimeStep, CountingSteps, AccountingStep DEF PromiseInv
  <2>3. AnsweredIsMarked'
    BY <2>1, AnswerSteps DEF PromiseInv, AnsweredIsMarked
  <2> QED BY <2>1, <2>2, <2>3, RuntimeRefines, PromiseSteps DEF PromiseInv
<1> QED
  BY <1>1, <1>2, PTL DEF Spec, ImplementsAdmission, Promise!Spec

=============================================================================
