--------------------------- MODULE InspectionProofs ---------------------------
(***************************************************************************)
(* Proofs about the parts that MCInspection has instances of, for all      *)
(* values of its constants: the references of a debug session, the         *)
(* prepared configurations, the sessions that calls start, the grants for  *)
(* documents, the log of diagnostics, and the output that is kept.  Each   *)
(* part has an inductive invariant of its own.                             *)
(***************************************************************************)
EXTENDS MCInspection, DataTheorems, SequenceTheorems, TLAPS

-----------------------------------------------------------------------------
(* DebugReferences.  The invariant is OnlyOvertaken with the types: an     *)
(* event empties the maps and raises the generation past every value in    *)
(* them, and None is no generation.                                        *)

\* invalidateDebugState keeps the types and leaves no id that would be accepted.
LEMMA InvalidateEmpties ==
    ASSUME TypeOK, Invalidate
    PROVE  /\ generation' \in Nat
           /\ issued' \in [Kinds -> [Ids -> Nat \cup {None}]]
           /\ born' \in [Kinds -> [Ids -> 0..MaxEvents]]
           /\ late' \subseteq Kinds \X Ids
           /\ \A k \in Kinds, i \in Ids : issued'[k][i] # generation'
  BY ReferencesAssumption, SMT DEF TypeOK, Invalidate, Emptied

\* What a reply hands out, if it hands out anything, is a thread, a frame or a variable.
LEMMA QueriesGive == \A q \in Queries : Gives(q) \in Kinds
  BY DEF Queries, Gives, Kinds

LEMMA IdleCall ==
    Idle \in [at : {"idle", "sent", "answered"}, request : Requests \cup {None},
              ids : SUBSET Ids, sent : 0..MaxEvents]
  BY ReferencesAssumption DEF Idle

\* The types hold in every state, whatever the adapter answers and reports.
THEOREM TypeCorrect == Spec => []TypeOK
<1>1. Init => TypeOK
  <2> SUFFICES ASSUME Init PROVE TypeOK
    OBVIOUS
  <2>1. 0 \in 0..MaxEvents /\ 0 \in 0..MaxControls
    BY ReferencesAssumption
  <2>2. call \in [Calls -> [at : {"idle", "sent", "answered"}, request : Requests \cup {None},
                           ids : SUBSET Ids, sent : 0..MaxEvents]]
    BY IdleCall DEF Init
  <2>3. /\ issued \in [Kinds -> [Ids -> Nat \cup {None}]]
        /\ born \in [Kinds -> [Ids -> 0..MaxEvents]]
    BY <2>1 DEF Init
  <2> QED BY <2>1, <2>2, <2>3 DEF Init, TypeOK
<1>2. TypeOK /\ [Next]_vars => TypeOK'
  <2> SUFFICES ASSUME TypeOK, [Next]_vars PROVE TypeOK'
    OBVIOUS
  <2>1. ASSUME NEW c \in Calls, NEW q \in Requests, NEW i \in Ids \cup {None}, Request(c, q, i)
        PROVE TypeOK'
    <3>1. [at |-> "sent", request |-> q, ids |-> {}, sent |-> 0]
            \in [at : {"idle", "sent", "answered"}, request : Requests \cup {None},
                 ids : SUBSET Ids, sent : 0..MaxEvents]
      BY ReferencesAssumption
    <3> QED BY <2>1, <3>1 DEF TypeOK, Request
  <2>2. ASSUME NEW c \in Calls, NEW ids \in SUBSET Ids, Answer(c, ids) PROVE TypeOK'
    BY <2>2 DEF TypeOK, Answer
  <2>3. ASSUME NEW c \in Calls, ReceiveQuery(c) PROVE TypeOK'
    <3> DEFINE k == Gives(call[c].request)
               new == call[c].ids
    <3>1. k \in Kinds /\ new \subseteq Ids /\ call[c].sent \in 0..MaxEvents
      BY <2>3, QueriesGive DEF TypeOK, ReceiveQuery
    <3>2. issued' \in [Kinds -> [Ids -> Nat \cup {None}]]
      BY <2>3, <3>1 DEF TypeOK, ReceiveQuery
    <3>3. born' \in [Kinds -> [Ids -> 0..MaxEvents]]
      BY <2>3, <3>1 DEF TypeOK, ReceiveQuery
    <3>4. late' \subseteq Kinds \X Ids
      BY <2>3, <3>1 DEF TypeOK, ReceiveQuery
    <3>5. UNCHANGED <<adapter, events, controls, ended, generation>>
             /\ call' = [call EXCEPT ![c] = Idle]
      BY <2>3 DEF ReceiveQuery
    <3> QED BY <3>2, <3>3, <3>4, <3>5, IdleCall DEF TypeOK
  <2>4. ASSUME NEW c \in Calls, ReceiveControl(c) PROVE TypeOK'
    <3>1. CASE Invalidate
      BY <2>4, <3>1, IdleCall, InvalidateEmpties DEF TypeOK, ReceiveControl
    <3>2. CASE UNCHANGED <<generation, issued, born, late>>
      BY <2>4, <3>2, IdleCall DEF TypeOK, ReceiveControl
    <3> QED BY <2>4, <3>1, <3>2 DEF ReceiveControl
  <2>5. ASSUME NEW c \in Calls, Refuse(c) PROVE TypeOK'
    BY <2>5, IdleCall DEF TypeOK, Refuse
  <2>6. ASSUME NEW c \in Calls, Accept(c) PROVE TypeOK'
    <3>1. call' \in [Calls -> [at : {"idle", "sent", "answered"}, request : Requests \cup {None},
                              ids : SUBSET Ids, sent : 0..MaxEvents]]
      <4> DEFINE r == [call[c] EXCEPT !.at = "answered", !.sent = events]
      <4>1. call \in [Calls -> [at : {"idle", "sent", "answered"}, request : Requests \cup {None},
                               ids : SUBSET Ids, sent : 0..MaxEvents]] /\ events \in 0..MaxEvents
        BY DEF TypeOK
      <4>2. r \in [at : {"idle", "sent", "answered"}, request : Requests \cup {None},
                   ids : SUBSET Ids, sent : 0..MaxEvents]
        BY <4>1
      <4>3. call' = [call EXCEPT ![c] = r]
        BY <2>6, <4>1 DEF Accept
      <4> HIDE DEF r
      <4> QED BY <4>1, <4>2, <4>3
    <3>2. adapter' \in {"running", "stopped", "gone"} /\ controls' \in 0..MaxControls
      BY <2>6, ReferencesAssumption DEF TypeOK, Accept
    <3> QED BY <2>6, <3>1, <3>2 DEF TypeOK, Accept
  <2>7. CASE Stop
    BY <2>7, ReferencesAssumption, InvalidateEmpties DEF TypeOK, Stop
  <2>8. CASE Continue
    BY <2>8, ReferencesAssumption, InvalidateEmpties DEF TypeOK, Continue
  <2>9. CASE Terminate
    BY <2>9, InvalidateEmpties DEF TypeOK, Terminate
  <2>10. CASE UNCHANGED vars
    BY <2>10 DEF TypeOK, vars
  <2> QED BY <2>1, <2>2, <2>3, <2>4, <2>5, <2>6, <2>7, <2>8, <2>9, <2>10 DEF Next
<1> QED BY <1>1, <1>2, PTL DEF Spec

\* An id is accepted after an event only if its reply was overtaken by that event: for any
\* number of calls, ids and events.
THEOREM OnlyOvertakenHolds == Spec => []OnlyOvertaken
<1>1. Init => OnlyOvertaken
  BY ReferencesAssumption DEF Init, OnlyOvertaken, Issued
<1>2. TypeOK /\ OnlyOvertaken /\ [Next]_vars => OnlyOvertaken'
  <2> SUFFICES ASSUME TypeOK, OnlyOvertaken, [Next]_vars PROVE OnlyOvertaken'
    OBVIOUS
  <2>1. CASE UNCHANGED <<generation, issued, born, late, events>>
    BY <2>1 DEF OnlyOvertaken, Issued
  <2>2. CASE Invalidate
    BY <2>2, InvalidateEmpties DEF OnlyOvertaken, Issued
  <2>3. ASSUME NEW c \in Calls, ReceiveQuery(c) PROVE OnlyOvertaken'
    <3> DEFINE k == Gives(call[c].request)
               new == call[c].ids
    <3>1. k \in Kinds /\ new \subseteq Ids
      BY <2>3, QueriesGive DEF TypeOK, ReceiveQuery
    <3> SUFFICES ASSUME NEW l \in Kinds, NEW i \in Ids, issued'[l][i] = generation'
                 PROVE  born'[l][i] = events' \/ <<l, i>> \in late'
      BY DEF OnlyOvertaken, Issued
    <3>2. CASE l = k /\ i \in new
      BY <2>3, <3>1, <3>2 DEF TypeOK, ReceiveQuery
    <3>3. CASE ~(l = k /\ i \in new)
      <4>1. issued'[l][i] = issued[l][i] /\ born'[l][i] = born[l][i]
              /\ generation' = generation /\ events' = events
        BY <2>3, <3>1, <3>3 DEF TypeOK, ReceiveQuery
      <4>2. <<l, i>> \in late => <<l, i>> \in late'
        BY <2>3, <3>3 DEF ReceiveQuery
      <4> QED BY <4>1, <4>2 DEF OnlyOvertaken, Issued
    <3> QED BY <3>2, <3>3
  <2> QED BY <2>1, <2>2, <2>3 DEF Next, Request, Answer, ReceiveControl, Refuse, Accept,
                                  Stop, Continue, Terminate, vars
<1> QED BY <1>1, <1>2, TypeCorrect, PTL DEF Spec

-----------------------------------------------------------------------------
(* PreparedDebug.  What a start found is either prepared and on offer, or  *)
(* all that is on offer: that of launch.json, which stays what it was      *)
(* unless the start is marked as overtaken.                                *)

Prepareds == [name : Names, version : Nat, expires : Nat]
Definitions == {"none", "prepared", "launch"} \X Nat
Starts == [at : {"idle", "listed", "checking", "started", "refused", "notFound"},
           name : Names \cup {""}, approved : Definitions, found : Definitions,
           offers : SUBSET Definitions, ran : Definitions, overtaken : BOOLEAN]
Listed == [version : Nat, origin : {"none", "workspace", "agentPersisted"}]

\* What a start found is on offer, and what it found in launch.json is all there is.
Offered(s) ==
    \/ s.found[1] = "prepared" /\ s.found \in s.offers
    \/ s.found[1] = "launch" /\ s.offers = {s.found}

PreparedInv ==
    /\ launch \in [Names -> Listed]
    /\ prepared \in Seq(Prepareds) /\ Len(prepared) <= MaxPrepared
    /\ approval \in [{User} -> Starts]
    /\ versions \in Nat /\ hour \in Nat
    /\ approval[User].at # "idle" => approval[User].name \in Names
    /\ approval[User].at = "checking" =>
          /\ Offered(approval[User])
          /\ approval[User].found[1] = "launch" /\ ~ approval[User].overtaken =>
                approval[User].found = <<"launch", launch[approval[User].name].version>>
    /\ approval[User].at = "started" =>
          approval[User].ran = approval[User].approved \/ approval[User].overtaken
    /\ approval[User].at = "refused" /\ approval[User].approved \in approval[User].offers =>
          approval[User].found[1] = "prepared" /\ approval[User].found \in approval[User].offers

LEMMA SamePreparedWhere == \A s, stay : Prepared!Where(s, stay) = Where(s, stay)
  BY DEF Where, Prepared!Where

LEMMA SamePreparedSet == \A s : Prepared!Range(s) = ToSet(s)
  BY DEF ToSet, Prepared!Range

LEMMA UnexpiredIs ==
    ASSUME NEW s \in Seq(Prepareds)
    PROVE  /\ Prepared!Unexpired(s) \in Seq(Prepareds) /\ Len(Prepared!Unexpired(s)) <= Len(s)
           /\ ToSet(Prepared!Unexpired(s)) = {r \in ToSet(s) : r.expires > hour}
<1> DEFINE stay == {r \in ToSet(s) : r.expires > hour}
<1>1. Prepared!Unexpired(s) = Where(s, stay)
  BY SamePreparedWhere, SamePreparedSet DEF Prepared!Unexpired
<1>2. ToSet(s) \cap stay = stay
  OBVIOUS
<1> HIDE DEF stay
<1>3. /\ Where(s, stay) \in Seq(Prepareds) /\ Len(Where(s, stay)) <= Len(s)
      /\ ToSet(Where(s, stay)) = ToSet(s) \cap stay
  BY WhereKeeps
<1> QED BY <1>1, <1>2, <1>3 DEF stay

LEMMA PrunedIs ==
    ASSUME InspectionAssumption, NEW s \in Seq(Prepareds)
    PROVE  /\ Prepared!Pruned(s) \in Seq(Prepareds) /\ Len(Prepared!Pruned(s)) <= MaxPrepared
           /\ ToSet(Prepared!Pruned(s)) \subseteq ToSet(Prepared!Unexpired(s))
           /\ Len(s) <= MaxPrepared => Prepared!Pruned(s) = Prepared!Unexpired(s)
<1> DEFINE live == Prepared!Unexpired(s)
           k == Len(live) - MaxPrepared
<1>1. live \in Seq(Prepareds) /\ Len(live) <= Len(s) /\ Len(s) \in Nat /\ Len(live) \in Nat
  BY UnexpiredIs
<1>2. MaxPrepared \in Nat
  BY DEF InspectionAssumption, Prepared!PreparedAssumption
<1>3. Prepared!Pruned(s) = IF Len(live) <= MaxPrepared THEN live ELSE SubSeq(live, k + 1, Len(live))
  BY DEF Prepared!Pruned
<1> HIDE DEF live
<1>4. CASE Len(live) <= MaxPrepared
  BY <1>1, <1>2, <1>3, <1>4 DEF live
<1>5. CASE ~ (Len(live) <= MaxPrepared)
  <2>1. k \in 0..Len(live) /\ ~ (Len(s) <= MaxPrepared) /\ Len(live) - k = MaxPrepared
    BY <1>1, <1>2, <1>5
  <2>2. /\ SubSeq(live, k + 1, Len(live)) \in Seq(Prepareds)
        /\ Len(SubSeq(live, k + 1, Len(live))) = Len(live) - k
        /\ ToSet(SubSeq(live, k + 1, Len(live))) \subseteq ToSet(live)
    BY <1>1, <2>1, ToSetOfNewest
  <2> QED BY <1>2, <1>3, <1>5, <2>1, <2>2 DEF live
<1> QED BY <1>4, <1>5

\* What a start finds under a name, and what is on offer then.
LEMMA FoundIs ==
    ASSUME InspectionAssumption, PreparedInv, NEW n \in Names
    PROVE  /\ Prepared!Found(n) \in Definitions /\ Prepared!Approvals(n) \in SUBSET Definitions
           /\ \/ Prepared!Found(n)[1] = "prepared" /\ Prepared!Found(n) \in Prepared!Approvals(n)
              \/ /\ Prepared!Found(n) = <<"launch", launch[n].version>>
                 /\ Prepared!Approvals(n) = {<<"launch", launch[n].version>>}
              \/ Prepared!Found(n) = Prepared!Nothing
<1> DEFINE live == Prepared!Unexpired(prepared)
           same == {r \in ToSet(prepared) : r.name = n}
           first == Where(live, same)
           ours == {<<"prepared", r.version>> : r \in {p \in ToSet(live) : p.name = n}}
           listed == IF launch[n] = Prepared!Absent THEN {} ELSE {<<"launch", launch[n].version>>}
<1>1. Prepared!Pruned(prepared) = live /\ live \in Seq(Prepareds) /\ ToSet(live) \subseteq ToSet(prepared)
  BY PrunedIs, UnexpiredIs DEF PreparedInv
<1>2. Prepared!Approvals(n) = ours \cup listed
  BY SamePreparedSet DEF Prepared!Approvals
<1>3. Prepared!Found(n) = IF first # <<>> THEN <<"prepared", Head(first).version>>
                          ELSE IF launch[n] # Prepared!Absent THEN <<"launch", launch[n].version>>
                          ELSE Prepared!Nothing
  BY <1>1, SamePreparedWhere, SamePreparedSet DEF Prepared!Found, Prepared!LookedThrough
<1>4. first \in Seq(Prepareds) /\ ToSet(first) = ToSet(live) \cap same
  BY <1>1, WhereKeeps
<1>5. ToSet(live) \cap same = {p \in ToSet(live) : p.name = n} /\ ToSet(live) \subseteq Prepareds
  BY <1>1, ToSetType
<1>6. launch[n].version \in Nat /\ Prepared!Nothing \in Definitions
  BY DEF PreparedInv, Listed, Prepared!Nothing, Definitions
<1>7. ours \subseteq Definitions /\ listed \subseteq Definitions
  BY <1>5, <1>6 DEF Definitions, Prepareds
<1>8. CASE first # <<>>
  <2>1. Head(first) \in ToSet(first)
    BY <1>4, <1>8, ToSetType
  <2>2. Head(first) \in {p \in ToSet(live) : p.name = n}
    BY <1>4, <1>5, <2>1
  <2>3. <<"prepared", Head(first).version>> \in ours
    BY <2>2
  <2> QED BY <1>2, <1>3, <1>7, <1>8, <2>3
<1>9. CASE first = <<>>
  <2>1. {p \in ToSet(live) : p.name = n} = {}
    BY <1>4, <1>5, <1>9, ToSetType
  <2>2. ours = {}
    BY <2>1
  <2> HIDE DEF ours, first, live
  <2> QED BY <1>2, <1>3, <1>6, <1>7, <1>9, <2>2 DEF Definitions
<1> QED BY <1>8, <1>9

LEMMA PreparedInit == InspectionAssumption /\ Prepared!Init => PreparedInv
<1> SUFFICES ASSUME InspectionAssumption, Prepared!Init PROVE PreparedInv
  OBVIOUS
<1>0. launch \in [Names -> Listed]
  BY DEF Prepared!Init, Prepared!Absent, Listed
<1>1. prepared \in Seq(Prepareds) /\ Len(prepared) <= MaxPrepared
  <2>1. prepared = <<>> /\ MaxPrepared \in Nat
    BY DEF Prepared!Init, InspectionAssumption, Prepared!PreparedAssumption
  <2> QED BY <2>1
<1>2. Prepared!NoStart \in Starts
  BY DEF Prepared!NoStart, Prepared!Nothing, Starts, Definitions
<1>3. approval \in [{User} -> Starts] /\ approval[User].at = "idle"
  BY <1>2 DEF Prepared!Init, Prepared!NoStart
<1> QED BY <1>0, <1>1, <1>3 DEF Prepared!Init, PreparedInv

\* A start that the user's edit overtakes is the same, but for the mark.
LEMMA OvertakenIs ==
    ASSUME NEW n \in Names, approval \in [{User} -> Starts], approval' = Prepared!Overtaken(n)
    PROVE  /\ approval' \in [{User} -> Starts]
           /\ approval'[User].at = approval[User].at /\ approval'[User].name = approval[User].name
           /\ approval'[User].found = approval[User].found /\ approval'[User].offers = approval[User].offers
           /\ approval'[User].approved = approval[User].approved /\ approval'[User].ran = approval[User].ran
           /\ \/ approval[User].at = "checking" /\ approval[User].name = n /\ approval'[User].overtaken
              \/ /\ ~ (approval[User].at = "checking" /\ approval[User].name = n)
                 /\ approval'[User] = approval[User]
<1> DEFINE s == approval[User]
<1>1. s \in Starts /\ [s EXCEPT !.overtaken = TRUE] \in Starts
  BY DEF Starts
<1>2. approval' = [c \in {User} |-> IF approval[c].at = "checking" /\ approval[c].name = n
                                    THEN [approval[c] EXCEPT !.overtaken = TRUE] ELSE approval[c]]
  BY DEF Prepared!Overtaken
<1>3. CASE s.at = "checking" /\ s.name = n
  <2>1. approval'[User] = [s EXCEPT !.overtaken = TRUE]
    BY <1>2, <1>3
  <2> DEFINE t == [s EXCEPT !.overtaken = TRUE]
  <2>2. /\ t.at = s.at /\ t.name = s.name /\ t.found = s.found /\ t.offers = s.offers
        /\ t.approved = s.approved /\ t.ran = s.ran /\ t.overtaken
    BY <1>1 DEF Starts
  <2> HIDE DEF t
  <2>3. approval' \in [{User} -> Starts]
    BY <1>1, <1>2, <1>3
  <2> QED BY <1>3, <2>1, <2>2, <2>3 DEF t
<1>4. CASE ~ (s.at = "checking" /\ s.name = n)
  <2>1. approval'[User] = s
    BY <1>2, <1>4
  <2> QED BY <1>1, <1>2, <1>4, <2>1
<1> QED BY <1>3, <1>4

\* The end of a start keeps what is said of starts, when what it found is what is there.
LEMMA AnsweredIs ==
    ASSUME NEW s \in Starts, s.name \in Names, Offered(s), launch \in [Names -> Listed],
           s.found[1] = "launch" /\ ~ s.overtaken => s.found = <<"launch", launch[s.name].version>>
    PROVE  /\ Prepared!Answered(s) \in Starts /\ Prepared!Answered(s).name = s.name
           /\ Prepared!Answered(s).at \in {"started", "refused"}
           /\ Prepared!Answered(s).at = "started" =>
                 \/ Prepared!Answered(s).ran = Prepared!Answered(s).approved
                 \/ Prepared!Answered(s).overtaken
           /\ Prepared!Answered(s).at = "refused"
                 /\ Prepared!Answered(s).approved \in Prepared!Answered(s).offers =>
              Prepared!Answered(s).found[1] = "prepared" /\ Prepared!Answered(s).found \in Prepared!Answered(s).offers
<1> DEFINE ran == IF s.found[1] = "prepared" THEN s.found ELSE <<"launch", launch[s.name].version>>
<1>1. ran \in Definitions
  BY DEF Starts, Definitions, Listed
<1>2. CASE s.found = s.approved
  <2>1. Prepared!Answered(s) = [s EXCEPT !.at = "started", !.ran = ran]
    BY <1>2 DEF Prepared!Answered, Prepared!Approved
  <2>2. ran = s.approved \/ s.overtaken
    BY <1>2 DEF Offered
  <2> HIDE DEF ran
  <2>3. [s EXCEPT !.at = "started", !.ran = ran] \in Starts
    BY <1>1 DEF Starts
  <2> QED BY <2>1, <2>2, <2>3 DEF Starts
<1>3. CASE s.found # s.approved
  <2>1. Prepared!Answered(s) = [s EXCEPT !.at = "refused"]
    BY <1>3 DEF Prepared!Answered, Prepared!Approved
  <2>2. s.approved \in s.offers => s.found[1] = "prepared" /\ s.found \in s.offers
    BY <1>3 DEF Offered
  <2>3. [s EXCEPT !.at = "refused"] \in Starts
    BY DEF Starts
  <2> QED BY <2>1, <2>2, <2>3 DEF Starts
<1> QED BY <1>2, <1>3

LEMMA PreparedStep ==
    ASSUME InspectionAssumption, PreparedInv, [Prepared!Next]_(Prepared!vars)
    PROVE  PreparedInv'
<1>0. TTL \in Nat /\ MaxPrepared \in Nat
  BY DEF InspectionAssumption, Prepared!PreparedAssumption
<1>1. CASE UNCHANGED Prepared!vars
  BY <1>1 DEF PreparedInv, Prepared!vars, Offered
<1>2. CASE Prepared!Tick
  BY <1>2 DEF PreparedInv, Prepared!Tick, Offered
<1>3. ASSUME NEW n \in Names, Prepared!Prepare(n) PROVE PreparedInv'
  <2> DEFINE r == [name |-> n, version |-> versions + 1, expires |-> hour + TTL]
  <2>1. r \in Prepareds
    BY <1>0 DEF PreparedInv, Prepareds
  <2>2. prepared' = Prepared!Pruned(Append(prepared, r)) /\ versions' = versions + 1
        /\ UNCHANGED <<launch, approval, hour>>
    BY <1>3 DEF Prepared!Prepare
  <2> HIDE DEF r
  <2>3. Append(prepared, r) \in Seq(Prepareds)
    BY <2>1 DEF PreparedInv
  <2>4. prepared' \in Seq(Prepareds) /\ Len(prepared') <= MaxPrepared
    BY <2>2, <2>3, PrunedIs
  <2> QED BY <2>2, <2>4 DEF PreparedInv, Offered
<1>4. ASSUME NEW n \in Names, Prepared!Edit(n) PROVE PreparedInv'
  <2>1. launch' \in [Names -> Listed] /\ versions' \in Nat
        /\ \A m \in Names \ {n} : launch'[m] = launch[m]
    BY <1>4 DEF PreparedInv, Listed, Prepared!Edit, Prepared!Absent
  <2>2. approval' = Prepared!Overtaken(n) /\ UNCHANGED <<prepared, hour>>
    BY <1>4 DEF Prepared!Edit
  <2> QED BY <2>1, <2>2, OvertakenIs DEF PreparedInv, Offered
<1>5. ASSUME NEW r \in Prepared!Range(prepared), Prepared!Persist(r) PROVE PreparedInv'
  <2>1. r \in Prepareds
    BY <1>5, SamePreparedSet, ToSetType DEF PreparedInv
  <2>2. r.name \in Names /\ r.version \in Nat
    BY <2>1 DEF Prepareds
  <2>3. launch' \in [Names -> Listed] /\ \A m \in Names \ {r.name} : launch'[m] = launch[m]
    BY <1>5, <2>2 DEF PreparedInv, Listed, Prepared!Persist
  <2>4. approval' = Prepared!Overtaken(r.name) /\ UNCHANGED <<prepared, versions, hour>>
    BY <1>5 DEF Prepared!Persist
  <2> QED BY <2>2, <2>3, <2>4, OvertakenIs DEF PreparedInv, Offered
<1>6. ASSUME NEW n \in Names, NEW approved \in Prepared!Approvals(n), Prepared!List(User, n, approved)
      PROVE PreparedInv'
  <2> DEFINE s == [Prepared!NoStart EXCEPT !.at = "listed", !.name = n, !.approved = approved]
  <2>1. approved \in Definitions
    BY FoundIs
  <2>2. s \in Starts /\ s.at = "listed" /\ s.name = n
    BY <2>1 DEF Prepared!NoStart, Prepared!Nothing, Starts, Definitions
  <2>3. approval' = [approval EXCEPT ![User] = s] /\ prepared' = Prepared!Pruned(prepared)
        /\ UNCHANGED <<launch, versions, hour>>
    BY <1>6 DEF Prepared!List
  <2>4. prepared' \in Seq(Prepareds) /\ Len(prepared') <= MaxPrepared
    BY <2>3, PrunedIs DEF PreparedInv
  <2> HIDE DEF s
  <2> QED BY <2>2, <2>3, <2>4 DEF PreparedInv, Offered
<1>7. ASSUME Prepared!LookUp(User) PROVE PreparedInv'
  <2> DEFINE n == approval[User].name
             f == Prepared!Found(n)
             o == Prepared!Approvals(n)
             s == [approval[User] EXCEPT !.at = "checking", !.found = f, !.offers = o]
  <2>1. approval[User] \in Starts /\ n \in Names
    BY <1>7 DEF PreparedInv, Prepared!LookUp
  <2>2. /\ f \in Definitions /\ o \in SUBSET Definitions
        /\ \/ f[1] = "prepared" /\ f \in o
           \/ f = <<"launch", launch[n].version>> /\ o = {<<"launch", launch[n].version>>}
           \/ f = Prepared!Nothing
    BY <2>1, FoundIs
  <2>3. /\ approval' = [approval EXCEPT ![User] =
               IF f = Prepared!Nothing THEN [s EXCEPT !.at = "notFound"]
               ELSE IF f[1] = "launch" /\ launch[n].origin = "workspace" THEN Prepared!Answered(s)
               ELSE s]
        /\ prepared' = Prepared!Pruned(prepared) /\ UNCHANGED <<launch, versions, hour>>
    <3> HIDE DEF f, o
    <3>1. s.found = f
      BY <2>1 DEF Starts
    <3> HIDE DEF s
    <3> QED BY <1>7, <3>1 DEF Prepared!LookUp, Prepared!LookedThrough, s, n, f, o
  <2> HIDE DEF f, o
  <2>4. /\ s \in Starts /\ s.name = n /\ s.found = f /\ s.offers = o /\ s.at = "checking"
        /\ [s EXCEPT !.at = "notFound"] \in Starts /\ [s EXCEPT !.at = "notFound"].at = "notFound"
        /\ [s EXCEPT !.at = "notFound"].name = n
    BY <2>1, <2>2 DEF Starts
  <2>5. prepared' \in Seq(Prepareds) /\ Len(prepared') <= MaxPrepared
    BY <2>3, PrunedIs DEF PreparedInv
  <2>6. launch \in [Names -> Listed] /\ launch[n].version \in Nat
    BY <2>1 DEF PreparedInv, Listed
  <2>7. f # Prepared!Nothing => Offered(s) /\ (f[1] = "launch" => f = <<"launch", launch[n].version>>)
    BY SMTT(30), <2>2, <2>4 DEF Offered
  <2> HIDE DEF s
  <2>8. CASE f = Prepared!Nothing
    <3>1. approval' = [approval EXCEPT ![User] = [s EXCEPT !.at = "notFound"]]
      BY <2>3, <2>8
    <3> QED BY ZenonT(40), <2>1, <2>3, <2>4, <2>5, <3>1 DEF PreparedInv, Offered
  <2>9. CASE f # Prepared!Nothing /\ f[1] = "launch" /\ launch[n].origin = "workspace"
    <3> DEFINE t == Prepared!Answered(s)
    <3>1. approval' = [approval EXCEPT ![User] = t]
      BY <2>3, <2>9
    <3>2. /\ t \in Starts /\ t.name = n /\ t.at \in {"started", "refused"}
          /\ t.at = "started" => t.ran = t.approved \/ t.overtaken
          /\ t.at = "refused" /\ t.approved \in t.offers => t.found[1] = "prepared" /\ t.found \in t.offers
      BY <2>1, <2>4, <2>6, <2>7, <2>9, AnsweredIs
    <3> HIDE DEF t
    <3>3. approval'[User] = t /\ approval' \in [{User} -> Starts]
      BY <3>1, <3>2 DEF PreparedInv
    <3> QED BY <2>1, <2>3, <2>5, <3>2, <3>3 DEF PreparedInv
  <2>10. CASE f # Prepared!Nothing /\ ~ (f[1] = "launch" /\ launch[n].origin = "workspace")
    <3>1. approval' = [approval EXCEPT ![User] = s]
      BY <2>3, <2>10
    <3>2. approval'[User] = s /\ approval' \in [{User} -> Starts]
      BY <2>4, <3>1 DEF PreparedInv
    <3> QED BY <2>1, <2>3, <2>4, <2>5, <2>7, <2>10, <3>2 DEF PreparedInv, Offered
  <2> QED BY <2>8, <2>9, <2>10
<1>8. ASSUME Prepared!Checked(User) PROVE PreparedInv'
  <2> DEFINE s == approval[User]
             t == Prepared!Answered(s)
  <2>1. /\ s \in Starts /\ s.name \in Names /\ Offered(s) /\ launch \in [Names -> Listed]
        /\ s.found[1] = "launch" /\ ~ s.overtaken => s.found = <<"launch", launch[s.name].version>>
    BY <1>8 DEF PreparedInv, Prepared!Checked
  <2>2. approval' = [approval EXCEPT ![User] = t] /\ UNCHANGED <<launch, prepared, versions, hour>>
    BY <1>8 DEF Prepared!Checked
  <2>3. /\ t \in Starts /\ t.name \in Names /\ t.at \in {"started", "refused"}
        /\ t.at = "started" => t.ran = t.approved \/ t.overtaken
        /\ t.at = "refused" /\ t.approved \in t.offers => t.found[1] = "prepared" /\ t.found \in t.offers
    BY <2>1, AnsweredIs
  <2> HIDE DEF t
  <2>4. approval'[User] = t /\ approval' \in [{User} -> Starts]
    BY <2>2, <2>3 DEF PreparedInv
  <2> QED BY <2>2, <2>3, <2>4 DEF PreparedInv
<1> QED BY <1>1, <1>2, <1>3, <1>4, <1>5, <1>6, <1>7, <1>8 DEF Prepared!Next

\* What VS Code runs is what the caller approved, for any number of names, preparations and
\* edits of launch.json, however long the checks before the start take.
THEOREM RunsAreApproved == Prepared!Spec => []ApprovedRuns
<1>1. PreparedInv => ApprovedRuns
  BY DEF PreparedInv, ApprovedRuns, Prepared!ApprovedRuns
<1>2. Prepared!Spec => []PreparedInv
  BY InspectionAssumption, PreparedInit, PreparedStep, PTL DEF Prepared!Spec
<1> QED BY <1>1, <1>2, PTL

-----------------------------------------------------------------------------
(* DebugSessions.  Sessions are numbered in the order in which they start, *)
(* so that the one a call caused is the newest of its name until another   *)
(* starts; and a call that is the entry of a session is pending no more.   *)

Started == [at : {"idle", "checking", "refused", "starting", "started", "failed"},
            name : Names \cup {Nil}, approved : Nat, version : Nat,
            own : Manager!Sessions \cup {Nil}, told : Manager!Sessions \cup {Nil}]
Session == [at : {"none", "live", "ended"}, name : Names \cup {Nil},
            by : Calls \cup {User, Nil}, entry : Calls \cup {Nil}, version : Nat]

\* The session of a call is the newest of its name, unless others started that name.
Newest(c) ==
    start[c].at = "starting" /\ start[c].own # Nil /\ c \notin crowded =>
        /\ start[c].own \in Manager!Namesakes(start[c].name)
        /\ \A s \in Manager!Namesakes(start[c].name) : s <= start[c].own

\* The entry of a session was pending, and is pending no more.
PairedOnce ==
    /\ \A s \in Manager!Sessions : \A c \in Calls :
          session[s].entry = c => /\ c \notin ToSet(pendingStarts)
                                  /\ start[c].at \in {"starting", "started", "failed"}
    /\ \A c \in ToSet(pendingStarts) : start[c].at \in {"starting", "started"}

SessionInv ==
    /\ definition \in [Names -> Nat] /\ start \in [Calls -> Started]
    /\ pendingStarts \in Seq(Calls)
    /\ session \in [Manager!Sessions -> Session]
    /\ entry \in [Calls -> {"none", "running", "failed", "succeeded"}]
    /\ crowded \subseteq Calls
    /\ \A c \in Calls : /\ start[c].at # "idle" => start[c].name \in Names
                        /\ start[c].at \in {"idle", "checking"} => start[c].own = Nil
    /\ \A s \in Manager!Sessions :
          /\ session[s].at = "none" => session[s].name = Nil /\ session[s].entry = Nil
          /\ session[s].at # "none" => \A earlier \in 1..(s - 1) : session[earlier].at # "none"
    /\ \A c \in Calls : Newest(c)
    /\ PairedOnce
    /\ Manager!ToldOfOwn /\ Manager!EntryFollowsSession

LEMMA SessionConstants ==
    ASSUME InspectionAssumption
    PROVE  /\ MaxSessions \in Nat /\ MaxEdits \in Nat /\ User \notin Calls
           /\ Nil \notin Calls /\ Nil \notin Names /\ Nil \notin Manager!Sessions
           /\ Manager!Sessions = 1..MaxSessions
  BY DEF InspectionAssumption, Manager!ManagerAssumption, Manager!Sessions

LEMMA SameManagerWhere == \A s, stay : Manager!Where(s, stay) = Where(s, stay)
  BY DEF Where, Manager!Where

LEMMA WithoutIs ==
    ASSUME pendingStarts \in Seq(Calls), NEW c
    PROVE  /\ Manager!Where(pendingStarts, Calls \ {c}) \in Seq(Calls)
           /\ ToSet(Manager!Where(pendingStarts, Calls \ {c})) = ToSet(pendingStarts) \ {c}
<1>1. ToSet(pendingStarts) \subseteq Calls
  BY ToSetType
<1> QED BY <1>1, SameManagerWhere, WhereKeeps

LEMMA PendingIs ==
    ASSUME pendingStarts \in Seq(Calls), NEW name
    PROVE  \/ Manager!PendingFor(name) = Nil
           \/ /\ Manager!PendingFor(name) \in ToSet(pendingStarts)
              /\ Manager!PendingFor(name) \in Calls
              /\ start[Manager!PendingFor(name)].name = name
<1> DEFINE same == {c \in Calls : start[c].name = name}
           t == Where(pendingStarts, same)
<1>1. Manager!PendingFor(name) = IF t = <<>> THEN Nil ELSE Head(t)
  BY SameManagerWhere DEF Manager!PendingFor
<1>2. t \in Seq(Calls) /\ ToSet(t) = ToSet(pendingStarts) \cap same
  BY WhereKeeps
<1> HIDE DEF t
<1>3. t # <<>> => Head(t) \in ToSet(t)
  BY <1>2, ToSetType
<1> QED BY <1>1, <1>2, <1>3

LEMMA SessionsInit == InspectionAssumption /\ Manager!Init => SessionInv
<1> SUFFICES ASSUME InspectionAssumption, Manager!Init PROVE SessionInv
  OBVIOUS
<1>1. Manager!NoCall \in Started /\ Manager!NoCall.at = "idle" /\ Manager!NoCall.own = Nil
  BY DEF Manager!NoCall, Started
<1>2. Manager!NoSession \in Session /\ Manager!NoSession.at = "none" /\ Manager!NoSession.name = Nil
        /\ Manager!NoSession.entry = Nil
  BY DEF Manager!NoSession, Session
<1>3. /\ start \in [Calls -> Started] /\ session \in [Manager!Sessions -> Session]
      /\ \A c \in Calls : start[c].at = "idle" /\ start[c].own = Nil /\ entry[c] = "none"
      /\ \A s \in Manager!Sessions : session[s].at = "none" /\ session[s].name = Nil /\ session[s].entry = Nil
  BY <1>1, <1>2 DEF Manager!Init
<1>4. pendingStarts \in Seq(Calls) /\ ToSet(pendingStarts) = {} /\ crowded = {}
      /\ definition \in [Names -> Nat]
      /\ entry \in [Calls -> {"none", "running", "failed", "succeeded"}]
  BY DEF Manager!Init, ToSet
<1>5. Manager!ToldOfOwn /\ Manager!EntryFollowsSession
  BY <1>3, SessionConstants DEF Manager!ToldOfOwn, Manager!EntryFollowsSession
<1> QED BY <1>3, <1>4, <1>5, SessionConstants DEF SessionInv, Newest, PairedOnce

\* A call that goes on, where neither the sessions nor what is said of them changes.
LEMMA StartsKeep ==
    ASSUME InspectionAssumption, SessionInv, NEW c \in Calls,
           Manager!Checked(c) \/ (\E n \in Names, listed \in 0..MaxEdits : Manager!Begin(c, n, listed))
    PROVE  SessionInv'
<1>0. Nil \notin Calls /\ MaxEdits \in Nat
  BY SessionConstants
<1>1. ASSUME NEW n \in Names, NEW listed \in 0..MaxEdits, Manager!Begin(c, n, listed) PROVE SessionInv'
  <2> DEFINE r == [Manager!NoCall EXCEPT !.at = "checking", !.name = n, !.approved = listed,
                                         !.version = definition[n]]
  <2>1. start' = [start EXCEPT ![c] = r] /\ UNCHANGED <<definition, pendingStarts, session, entry, crowded>>
        /\ start[c].at = "idle"
    BY <1>1 DEF Manager!Begin
  <2>0. definition[n] \in Nat /\ listed \in Nat
    BY <1>0 DEF SessionInv
  <2>2. r \in Started /\ r.at = "checking" /\ r.name = n /\ r.own = Nil
    BY <2>0 DEF Manager!NoCall, Started
  <2> HIDE DEF r
  <2>3. start' \in [Calls -> Started] /\ start'[c] = r /\ \A d \in Calls \ {c} : start'[d] = start[d]
    BY <2>1, <2>2 DEF SessionInv
  <2>4. \A d \in Calls : Newest(d)'
    BY <2>1, <2>2, <2>3 DEF SessionInv, Newest, Manager!Namesakes
  <2>5. PairedOnce'
    BY <1>0, <2>1, <2>2, <2>3 DEF SessionInv, PairedOnce
  <2>6. Manager!ToldOfOwn'
    BY <2>1, <2>2, <2>3 DEF SessionInv, Manager!ToldOfOwn
  <2>7. Manager!EntryFollowsSession'
    BY <2>1, <2>2, <2>3 DEF SessionInv, Manager!EntryFollowsSession
  <2> QED BY <2>1, <2>2, <2>3, <2>4, <2>5, <2>6, <2>7 DEF SessionInv
<1>2. ASSUME Manager!Checked(c), ~ Manager!Unchanged(c) PROVE SessionInv'
  <2> DEFINE r == [start[c] EXCEPT !.at = "refused"]
  <2>1. start' = [start EXCEPT ![c] = r] /\ UNCHANGED <<definition, pendingStarts, session, entry, crowded>>
        /\ start[c].at = "checking"
    BY <1>2 DEF Manager!Checked
  <2>2. r \in Started /\ r.at = "refused" /\ r.name \in Names
    BY <2>1 DEF Started, SessionInv
  <2> HIDE DEF r
  <2>3. start' \in [Calls -> Started] /\ start'[c] = r /\ \A d \in Calls \ {c} : start'[d] = start[d]
    BY <2>1, <2>2 DEF SessionInv
  <2>4. \A d \in Calls : Newest(d)'
    BY <2>1, <2>2, <2>3 DEF SessionInv, Newest, Manager!Namesakes
  <2>5. PairedOnce'
    BY <1>0, <2>1, <2>2, <2>3 DEF SessionInv, PairedOnce
  <2>6. Manager!ToldOfOwn'
    BY <2>1, <2>2, <2>3 DEF SessionInv, Manager!ToldOfOwn
  <2>7. Manager!EntryFollowsSession'
    BY <2>1, <2>2, <2>3 DEF SessionInv, Manager!EntryFollowsSession
  <2> QED BY <2>1, <2>2, <2>3, <2>4, <2>5, <2>6, <2>7 DEF SessionInv
<1>3. ASSUME Manager!Checked(c), Manager!Unchanged(c) PROVE SessionInv'
  <2> DEFINE r == [start[c] EXCEPT !.at = "starting"]
  <2>1. /\ start' = [start EXCEPT ![c] = r] /\ UNCHANGED <<definition, session, crowded>>
        /\ pendingStarts' = Append(pendingStarts, c) /\ entry' = [entry EXCEPT ![c] = "running"]
        /\ start[c].at = "checking"
    BY <1>3 DEF Manager!Checked
  <2>2. r \in Started /\ r.at = "starting" /\ r.name \in Names /\ r.own = start[c].own
    BY <2>1 DEF Started, SessionInv
  <2> HIDE DEF r
  <2>3. start' \in [Calls -> Started] /\ start'[c] = r /\ \A d \in Calls \ {c} : start'[d] = start[d]
    BY <2>1, <2>2 DEF SessionInv
  <2>4. pendingStarts' \in Seq(Calls) /\ ToSet(pendingStarts') = ToSet(pendingStarts) \cup {c}
    BY <2>1, ToSetOfAppend DEF SessionInv
  <2>5. \A s \in Manager!Sessions : session[s].entry # c
    BY <2>1 DEF SessionInv, PairedOnce
  <2>6. start[c].own = Nil
    BY <2>1 DEF SessionInv
  <2>7. \A d \in Calls : Newest(d)'
    BY <2>1, <2>2, <2>3, <2>6 DEF SessionInv, Newest, Manager!Namesakes
  <2>8. PairedOnce'
    BY <1>0, <2>1, <2>2, <2>3, <2>4, <2>5 DEF SessionInv, PairedOnce
  <2>9. Manager!ToldOfOwn'
    BY <2>1, <2>2, <2>3 DEF SessionInv, Manager!ToldOfOwn
  <2>10. entry' \in [Calls -> {"none", "running", "failed", "succeeded"}] /\ entry'[c] = "running"
         /\ \A d \in Calls \ {c} : entry'[d] = entry[d]
    BY <2>1 DEF SessionInv
  <2>11. Manager!EntryFollowsSession'
    <3>1. ASSUME NEW s \in Manager!Sessions, session'[s].entry # Nil, session'[s].at = "ended"
          PROVE  entry'[session'[s].entry] # "running"
      <4>1. session[s].entry \in Calls \ {c}
        BY <2>1, <2>5, <3>1 DEF SessionInv, Session
      <4> QED BY <2>1, <2>10, <3>1, <4>1 DEF SessionInv, Manager!EntryFollowsSession
    <3>2. ASSUME NEW d \in Calls \ crowded', start'[d].at \in {"starting", "failed"}
          PROVE  /\ \A s \in Manager!Sessions : session'[s].entry = d => s = start'[d].own
                 /\ entry'[d] = "succeeded" => start'[d].own # Nil
      <4>1. CASE d = c
        BY <2>1, <2>5, <2>10, <4>1
      <4>2. CASE d # c
        BY <2>1, <2>3, <2>10, <3>2, <4>2 DEF SessionInv, Manager!EntryFollowsSession
      <4> QED BY <4>1, <4>2
    <3> QED BY <3>1, <3>2 DEF Manager!EntryFollowsSession
  <2> QED BY <2>1, <2>2, <2>3, <2>4, <2>7, <2>8, <2>9, <2>10, <2>11 DEF SessionInv
<1> QED BY <1>1, <1>2, <1>3

\* VS Code answers a start: the newest of its name is its own, or somebody else started it.
LEMMA AnswersKeep ==
    ASSUME InspectionAssumption, SessionInv, NEW c \in Calls, Manager!Started(c) \/ Manager!NotStarted(c)
    PROVE  SessionInv'
<1>0. Nil \notin Calls /\ Nil \notin Manager!Sessions /\ Manager!Sessions = 1..MaxSessions /\ MaxSessions \in Nat
      /\ Nil \notin Names
  BY SessionConstants
<1>1. ASSUME Manager!Started(c) PROVE SessionInv'
  <2> DEFINE told == Manager!NewestOf(start[c].name)
             r == [start[c] EXCEPT !.at = "started", !.told = told]
             same == Manager!Namesakes(start[c].name)
  <2>1. start' = [start EXCEPT ![c] = r] /\ UNCHANGED <<definition, pendingStarts, session, entry, crowded>>
        /\ start[c].at = "starting"
    BY <1>1 DEF Manager!Started
  <2>2. same \subseteq Manager!Sessions
    BY DEF Manager!Namesakes
  <2>3. start[c].own # Nil /\ c \notin crowded => told = start[c].own
    <3> SUFFICES ASSUME start[c].own # Nil, c \notin crowded PROVE told = start[c].own
      OBVIOUS
    <3>1. start[c].own \in same /\ \A s \in same : s <= start[c].own
      BY <2>1 DEF SessionInv, Newest
    <3>2. told = CHOOSE x \in same : \A y \in same : x >= y
      BY <3>1 DEF Manager!NewestOf, Manager!Max
    <3>3. same \subseteq Nat
      BY <1>0, <2>2
    <3> HIDE DEF same, told
    <3>4. told \in same /\ \A y \in same : told >= y
      BY <3>1, <3>2, <3>3
    <3>5. told >= start[c].own /\ told <= start[c].own /\ told \in Nat /\ start[c].own \in Nat
      BY <3>1, <3>3, <3>4
    <3> QED BY <3>5
  <2>4. told \in Manager!Sessions \cup {Nil}
    <3>1. CASE same = {}
      BY <3>1 DEF Manager!NewestOf
    <3>2. CASE same # {}
      <4>1. told = CHOOSE x \in same : \A y \in same : x >= y
        BY <3>2 DEF Manager!NewestOf, Manager!Max
      <4>2. \E x \in same : \A y \in same : x >= y
        <5> DEFINE above == {MaxSessions - x : x \in same}
        <5>1. above \in SUBSET Nat /\ above # {} /\ \A x \in same : x \in 1..MaxSessions /\ MaxSessions - x \in above
          BY <1>0, <2>2, <3>2
        <5>2. PICK n \in above : \A m \in above : n <= m
          <6> HIDE DEF above
          <6> QED BY <5>1, LeastElement
        <5>3. PICK x \in same : n = MaxSessions - x
          BY <5>2
        <5>4. ASSUME NEW y \in same PROVE x >= y
          <6>1. MaxSessions - x <= MaxSessions - y /\ x \in 1..MaxSessions /\ y \in 1..MaxSessions
            <7> HIDE DEF above, same
            <7> QED BY <5>1, <5>2, <5>3
          <6> QED BY <1>0, <6>1
        <5> QED BY <5>4
      <4> HIDE DEF same, told
      <4> QED BY <2>2, <4>1, <4>2
    <3> QED BY <3>1, <3>2
  <2> HIDE DEF told, same
  <2>5. r \in Started /\ r.at = "started" /\ r.name \in Names /\ r.own = start[c].own /\ r.told = told
    BY <2>1, <2>4 DEF Started, SessionInv
  <2> HIDE DEF r
  <2>6. start' \in [Calls -> Started] /\ start'[c] = r /\ \A d \in Calls \ {c} : start'[d] = start[d]
    BY <2>1, <2>5 DEF SessionInv
  <2>7. \A d \in Calls : Newest(d)'
    BY <2>1, <2>5, <2>6 DEF SessionInv, Newest, Manager!Namesakes
  <2>8. PairedOnce'
    BY <1>0, <2>1, <2>5, <2>6 DEF SessionInv, PairedOnce
  <2>9. Manager!ToldOfOwn'
    BY <2>1, <2>3, <2>5, <2>6 DEF SessionInv, Manager!ToldOfOwn
  <2>10. Manager!EntryFollowsSession'
    BY <2>1, <2>5, <2>6 DEF SessionInv, Manager!EntryFollowsSession
  <2> QED BY <2>1, <2>5, <2>6, <2>7, <2>8, <2>9, <2>10 DEF SessionInv
<1>2. ASSUME Manager!NotStarted(c) PROVE SessionInv'
  <2> DEFINE r == [start[c] EXCEPT !.at = "failed"]
  <2>1. /\ start' = [start EXCEPT ![c] = r] /\ UNCHANGED <<definition, session, crowded>>
        /\ pendingStarts' = Manager!Where(pendingStarts, Calls \ {c}) /\ entry' = [entry EXCEPT ![c] = "failed"]
        /\ start[c].at = "starting" /\ start[c].own = Nil
    BY <1>2 DEF Manager!NotStarted
  <2>2. r \in Started /\ r.at = "failed" /\ r.name \in Names /\ r.own = start[c].own
    BY ZenonT(40), <2>1 DEF Started, SessionInv
  <2> HIDE DEF r
  <2>3. start' \in [Calls -> Started] /\ start'[c] = r /\ \A d \in Calls \ {c} : start'[d] = start[d]
    BY <2>1, <2>2 DEF SessionInv
  <2>4. pendingStarts' \in Seq(Calls) /\ ToSet(pendingStarts') = ToSet(pendingStarts) \ {c}
        /\ ToSet(pendingStarts) \subseteq Calls
    BY <2>1, WithoutIs, ToSetType DEF SessionInv
  <2>5. \A d \in Calls : Newest(d)'
    BY <2>1, <2>2, <2>3 DEF SessionInv, Newest, Manager!Namesakes
  <2>6. PairedOnce'
    <3>1. ASSUME NEW s \in Manager!Sessions, NEW d \in Calls, session'[s].entry = d
          PROVE  d \notin ToSet(pendingStarts') /\ start'[d].at \in {"starting", "started", "failed"}
      <4>1. session[s].entry = d
        BY <2>1, <3>1
      <4>2. d \notin ToSet(pendingStarts) /\ start[d].at \in {"starting", "started", "failed"}
        BY <4>1 DEF SessionInv, PairedOnce
      <4> QED BY <2>2, <2>3, <2>4, <4>2
    <3>2. ASSUME NEW d \in ToSet(pendingStarts') PROVE start'[d].at \in {"starting", "started"}
      <4>1. d \in ToSet(pendingStarts) /\ d \in Calls \ {c}
        BY <2>4
      <4>2. start[d].at \in {"starting", "started"}
        BY <4>1 DEF SessionInv, PairedOnce
      <4> QED BY <2>3, <4>1, <4>2
    <3> QED BY <3>1, <3>2 DEF PairedOnce
  <2>7. Manager!ToldOfOwn'
    BY <2>1, <2>2, <2>3 DEF SessionInv, Manager!ToldOfOwn
  <2>8. entry' \in [Calls -> {"none", "running", "failed", "succeeded"}] /\ entry'[c] = "failed"
         /\ \A d \in Calls \ {c} : entry'[d] = entry[d]
    BY <2>1 DEF SessionInv
  <2>9. Manager!EntryFollowsSession'
    <3>1. ASSUME NEW s \in Manager!Sessions, session'[s].entry # Nil, session'[s].at = "ended"
          PROVE  entry'[session'[s].entry] # "running"
      <4>1. session[s].entry \in Calls
        BY <2>1, <3>1 DEF SessionInv, Session
      <4> QED BY <2>1, <2>8, <3>1, <4>1 DEF SessionInv, Manager!EntryFollowsSession
    <3>2. ASSUME NEW d \in Calls \ crowded', start'[d].at \in {"starting", "failed"}
          PROVE  /\ \A s \in Manager!Sessions : session'[s].entry = d => s = start'[d].own
                 /\ entry'[d] = "succeeded" => start'[d].own # Nil
      BY <2>1, <2>2, <2>3, <2>8, <3>2 DEF SessionInv, Manager!EntryFollowsSession
    <3> QED BY <3>1, <3>2 DEF Manager!EntryFollowsSession
  <2> QED BY <2>1, <2>2, <2>3, <2>4, <2>5, <2>6, <2>7, <2>8, <2>9 DEF SessionInv
<1> QED BY <1>1, <1>2

\* A session ends, or is restarted under its id.
LEMMA EndsKeep ==
    ASSUME InspectionAssumption, SessionInv, NEW s \in Manager!Sessions,
           Manager!SessionEnds(s) \/ Manager!SessionRestarts(s)
    PROVE  SessionInv'
<1>0. Nil \notin Calls /\ Nil \notin Manager!Sessions /\ Nil \notin Names
  BY SessionConstants
<1> DEFINE to == session'[s].at
           r == [session[s] EXCEPT !.at = to]
           known == session[s].entry
<1>1. PICK at_ \in {"live", "ended"} : session' = [session EXCEPT ![s].at = at_]
  BY DEF Manager!SessionEnds, Manager!SessionRestarts
<1>2. /\ session[s].at \in {"live", "ended"} /\ UNCHANGED <<definition, start, pendingStarts, crowded>>
      /\ session[s] \in Session
  BY DEF Manager!SessionEnds, Manager!SessionRestarts, SessionInv
<1>3. /\ session' \in [Manager!Sessions -> Session] /\ session'[s].at = at_
      /\ session'[s].name = session[s].name /\ session'[s].entry = session[s].entry
      /\ \A t \in Manager!Sessions \ {s} : session'[t] = session[t]
  BY <1>1, <1>2 DEF SessionInv, Session
<1>4. /\ entry' \in [Calls -> {"none", "running", "failed", "succeeded"}]
      /\ \A d \in Calls : entry'[d] = entry[d] \/ (d = known /\ entry'[d] = "succeeded")
      /\ at_ = "ended" /\ known # Nil => entry'[known] = "succeeded"
  <2>1. known \in Calls \cup {Nil} /\ entry \in [Calls -> {"none", "running", "failed", "succeeded"}]
    BY <1>2 DEF Session, SessionInv
  <2>2. CASE Manager!SessionEnds(s)
    <3>1. entry' = IF known = Nil THEN entry ELSE [entry EXCEPT ![known] = "succeeded"]
      BY <2>2 DEF Manager!SessionEnds, Manager!EntryClosed
    <3> QED BY <1>0, <2>1, <3>1
  <2>3. CASE Manager!SessionRestarts(s)
    <3>1. entry' = entry /\ session'[s].at = "live"
      BY <2>3, <1>2 DEF Manager!SessionRestarts, SessionInv, Session
    <3> QED BY <1>3, <2>1, <3>1
  <2> QED BY <2>2, <2>3
<1>5. \A n : Manager!Namesakes(n)' = Manager!Namesakes(n)
  BY <1>3 DEF Manager!Namesakes
<1>6. \A d \in Calls : Newest(d)'
  BY <1>2, <1>5 DEF SessionInv, Newest
<1>7. \A t \in Manager!Sessions : /\ session'[t].entry = session[t].entry /\ session'[t].name = session[t].name
                                  /\ session'[t].at = "none" <=> session[t].at = "none"
  BY <1>2, <1>3
<1>8. PairedOnce' /\ Manager!ToldOfOwn'
  BY <1>2, <1>7 DEF SessionInv, PairedOnce, Manager!ToldOfOwn
<1>9. Manager!EntryFollowsSession'
  <2>1. ASSUME NEW t \in Manager!Sessions, session'[t].entry # Nil, session'[t].at = "ended"
        PROVE  entry'[session'[t].entry] # "running"
    <3>1. session'[t].entry = session[t].entry /\ session[t].entry \in Calls
      BY <1>7, <2>1 DEF SessionInv, Session
    <3>2. CASE t = s
      BY <1>3, <1>4, <2>1, <3>1, <3>2
    <3>3. CASE t # s
      BY <1>3, <1>4, <2>1, <3>1, <3>3 DEF SessionInv, Manager!EntryFollowsSession
    <3> QED BY <3>2, <3>3
  <2>2. ASSUME NEW d \in Calls \ crowded', start'[d].at \in {"starting", "failed"}
        PROVE  /\ \A t \in Manager!Sessions : session'[t].entry = d => t = start'[d].own
               /\ entry'[d] = "succeeded" => start'[d].own # Nil
    <3>1. \A t \in Manager!Sessions : session[t].entry = d => t = start[d].own
      BY <1>2, <2>2 DEF SessionInv, Manager!EntryFollowsSession
    <3>2. entry[d] = "succeeded" => start[d].own # Nil
      BY <1>2, <2>2 DEF SessionInv, Manager!EntryFollowsSession
    <3>3. d = known => start[d].own # Nil
      BY <1>0, <3>1
    <3> QED BY <1>2, <1>4, <1>7, <3>1, <3>2, <3>3
  <2> QED BY <2>1, <2>2 DEF Manager!EntryFollowsSession
<1>10. \A t \in Manager!Sessions : \A earlier \in 1..(t - 1) : earlier \in Manager!Sessions
  BY SessionConstants
<1> QED BY SMTT(30), <1>2, <1>3, <1>4, <1>6, <1>7, <1>8, <1>9, <1>10 DEF SessionInv

\* VS Code starts a session: it takes the first pending start of its name, whoever caused it.
LEMMA SessionStartsKeep ==
    ASSUME InspectionAssumption, SessionInv, NEW s \in Manager!Sessions, NEW by \in Calls \cup {User},
           NEW name \in Names, Manager!SessionStarts(s, by, name)
    PROVE  SessionInv'
<1>0. Nil \notin Calls /\ Nil \notin Manager!Sessions /\ Nil \notin Names /\ User \notin Calls
      /\ Manager!Sessions = 1..MaxSessions /\ MaxSessions \in Nat
  BY SessionConstants
<1> DEFINE pending == Manager!PendingFor(name)
           r == [at |-> "live", name |-> name, by |-> by, entry |-> pending, version |-> definition[name]]
<1>1. /\ session[s].at = "none" /\ \A earlier \in 1..(s - 1) : session[earlier].at # "none"
      /\ by # User => start[by].at = "starting" /\ start[by].name = name /\ start[by].own = Nil
      /\ pendingStarts' = Manager!Where(pendingStarts, Calls \ {pending})
      /\ session' = [session EXCEPT ![s] = r]
      /\ entry' = IF pending = Nil THEN entry ELSE [entry EXCEPT ![pending] = "running"]
      /\ start' = IF by = User THEN start ELSE [start EXCEPT ![by].own = s]
      /\ crowded' = crowded \cup {c \in Calls \ {by} : start[c].name = name /\ start[c].at = "starting"}
      /\ UNCHANGED definition
  BY DEF Manager!SessionStarts
<1>2. /\ pending \in Calls \cup {Nil}
      /\ pending # Nil => pending \in ToSet(pendingStarts) /\ start[pending].name = name
                          /\ start[pending].at \in {"starting", "started"}
  BY PendingIs DEF SessionInv, PairedOnce
<1>3. definition[name] \in Nat
  BY DEF SessionInv
<1>4. r \in Session /\ r.at = "live" /\ r.name = name /\ r.entry = pending
  BY <1>2, <1>3 DEF Session
<1> HIDE DEF r, pending
<1>5. /\ session' \in [Manager!Sessions -> Session] /\ session'[s] = r
      /\ \A t \in Manager!Sessions \ {s} : session'[t] = session[t]
  BY <1>1, <1>4 DEF SessionInv
<1>6. pendingStarts' \in Seq(Calls) /\ ToSet(pendingStarts') = ToSet(pendingStarts) \ {pending}
      /\ ToSet(pendingStarts) \subseteq Calls
  BY <1>1, WithoutIs, ToSetType DEF SessionInv
<1>7. /\ entry' \in [Calls -> {"none", "running", "failed", "succeeded"}]
      /\ \A d \in Calls : entry'[d] = IF d = pending THEN "running" ELSE entry[d]
  BY <1>0, <1>1, <1>2 DEF SessionInv
<1>8. /\ start' \in [Calls -> Started]
      /\ \A d \in Calls \ {by} : start'[d] = start[d]
      /\ by # User => start'[by].own = s /\ start[by] \in Started
      /\ \A d \in Calls : start'[d].at = start[d].at /\ start'[d].name = start[d].name /\ start'[d].told = start[d].told
  <2>1. CASE by = User
    BY <1>0, <1>1, <2>1 DEF SessionInv
  <2>2. CASE by # User
    <3>1. by \in Calls /\ start[by] \in Started
      BY <2>2 DEF SessionInv
    <3>2. [start[by] EXCEPT !.own = s] \in Started
      BY <3>1 DEF Started
    <3>3. start' = [start EXCEPT ![by] = [start[by] EXCEPT !.own = s]]
      BY <1>1, <2>2
    <3>4. /\ [start[by] EXCEPT !.own = s].own = s /\ [start[by] EXCEPT !.own = s].at = start[by].at
          /\ [start[by] EXCEPT !.own = s].name = start[by].name
          /\ [start[by] EXCEPT !.own = s].told = start[by].told
      BY <3>1 DEF Started
    <3>5. start'[by] = [start[by] EXCEPT !.own = s] /\ \A d \in Calls \ {by} : start'[d] = start[d]
      BY <3>1, <3>3 DEF SessionInv
    <3> QED BY <2>2, <3>1, <3>2, <3>3, <3>4, <3>5 DEF SessionInv
  <2> QED BY <2>1, <2>2
\* Those that started are a beginning of the numbers.
<1>9. \A t \in Manager!Sessions : /\ t > s => session[t].at = "none"
                                  /\ \A earlier \in 1..(t - 1) : earlier \in Manager!Sessions
  <2> SUFFICES ASSUME NEW t \in Manager!Sessions, t > s, session[t].at # "none" PROVE FALSE
    BY <1>0
  <2>1. s \in 1..(t - 1)
    BY <1>0
  <2> QED BY <1>1, <2>1 DEF SessionInv
<1>10. \A t \in Manager!Sessions :
          /\ session'[t].at = "none" => session'[t].name = Nil /\ session'[t].entry = Nil
          /\ session'[t].at # "none" => \A earlier \in 1..(t - 1) : session'[earlier].at # "none"
  <2>1. ASSUME NEW t \in Manager!Sessions, NEW earlier \in 1..(t - 1), session'[t].at # "none"
        PROVE  session'[earlier].at # "none"
    <3>1. session[earlier].at # "none" \/ earlier = s
      BY <1>1, <1>5, <2>1 DEF SessionInv
    <3> QED BY <1>4, <1>5, <1>9, <3>1
  <2> QED BY <1>4, <1>5, <2>1 DEF SessionInv
<1>11. \A n \in Names : {t \in Manager!Sessions : session'[t].name = n}
                          = IF n = name THEN Manager!Namesakes(n) \cup {s} ELSE Manager!Namesakes(n)
  <2>1. session[s].name = Nil
    BY <1>1 DEF SessionInv
  <2> QED BY <1>0, <1>4, <1>5, <2>1 DEF Manager!Namesakes
<1>12. \A t \in Manager!Namesakes(name) : t <= s
  <2>1. \A t \in Manager!Namesakes(name) : t \in Manager!Sessions /\ session[t].at # "none"
    BY <1>0 DEF Manager!Namesakes, SessionInv
  <2> QED BY <1>0, <1>9, <2>1
<1>13. \A d \in Calls : Newest(d)'
  <2> SUFFICES ASSUME NEW d \in Calls, start'[d].at = "starting", start'[d].own # Nil, d \notin crowded'
               PROVE  /\ start'[d].own \in {t \in Manager!Sessions : session'[t].name = start'[d].name}
                      /\ \A t \in {u \in Manager!Sessions : session'[u].name = start'[d].name} :
                            t <= start'[d].own
    BY DEF Newest, Manager!Namesakes
  <2>1. start[d].at = "starting" /\ start'[d].name = start[d].name /\ start[d].name \in Names /\ d \notin crowded
    BY <1>1, <1>8 DEF SessionInv
  <2> DEFINE same == {t \in Manager!Sessions : session'[t].name = start'[d].name}
  <2>2. CASE d = by
    <3>1. start'[d].own = s /\ start'[d].name = name
      BY <1>0, <1>1, <1>8, <2>2
    <3>2. same = Manager!Namesakes(name) \cup {s}
      BY <1>11, <3>1
    <3> HIDE DEF same
    <3>3. start'[d].own \in same /\ \A t \in same : t <= start'[d].own
      BY <1>0, <1>12, <3>1, <3>2
    <3> QED BY <3>3 DEF same
  <2>3. CASE d # by
    <3>1. start[d].name # name
      BY <1>1, <2>1, <2>3
    <3>2. same = Manager!Namesakes(start[d].name) /\ start'[d] = start[d]
      BY <1>8, <1>11, <2>1, <2>3, <3>1
    <3> HIDE DEF same
    <3>3. start'[d].own \in same /\ \A t \in same : t <= start'[d].own
      BY <2>1, <3>2 DEF SessionInv, Newest
    <3> QED BY <3>3 DEF same
  <2> QED BY <2>2, <2>3
<1>14. PairedOnce'
  <2>1. ASSUME NEW t \in Manager!Sessions, NEW c \in Calls, session'[t].entry = c
        PROVE  c \notin ToSet(pendingStarts') /\ start'[c].at \in {"starting", "started", "failed"}
    <3>1. CASE t = s
      BY <1>0, <1>2, <1>4, <1>5, <1>6, <1>8, <2>1, <3>1
    <3>2. CASE t # s
      BY SMTT(30), <1>5, <1>6, <1>8, <2>1, <3>2 DEF SessionInv, PairedOnce
    <3> QED BY <3>1, <3>2
  <2>2. \A c \in ToSet(pendingStarts') : start'[c].at \in {"starting", "started"}
    BY <1>6, <1>8 DEF SessionInv, PairedOnce
  <2> QED BY <2>1, <2>2 DEF PairedOnce
<1>15. Manager!ToldOfOwn'
  <2> SUFFICES ASSUME NEW d \in Calls, start'[d].at = "started", start'[d].own # Nil, d \notin crowded'
               PROVE  start'[d].told = start'[d].own
    BY DEF Manager!ToldOfOwn
  <2>1. d # by
    BY <1>0, <1>1, <1>8
  <2> QED BY <1>1, <1>8, <2>1 DEF SessionInv, Manager!ToldOfOwn
<1>16. Manager!EntryFollowsSession'
  <2>1. ASSUME NEW t \in Manager!Sessions, session'[t].entry # Nil, session'[t].at = "ended"
        PROVE  entry'[session'[t].entry] # "running"
    <3>1. t # s
      BY <1>4, <1>5, <2>1
    <3>2. session'[t] = session[t] /\ session[t].entry \in Calls
      BY <1>5, <2>1, <3>1 DEF SessionInv, Session
    <3>3. session[t].entry # pending
      BY <1>0, <1>2, <3>2 DEF SessionInv, PairedOnce
    <3> QED BY <1>7, <2>1, <3>2, <3>3 DEF SessionInv, Manager!EntryFollowsSession
  <2>2. ASSUME NEW d \in Calls \ crowded', start'[d].at \in {"starting", "failed"}
        PROVE  /\ \A t \in Manager!Sessions : session'[t].entry = d => t = start'[d].own
               /\ entry'[d] = "succeeded" => start'[d].own # Nil
    <3>1. start[d].at = start'[d].at /\ d \notin crowded
      BY <1>1, <1>8, <2>2
    <3>2. /\ \A t \in Manager!Sessions : session[t].entry = d => t = start[d].own
          /\ entry[d] = "succeeded" => start[d].own # Nil
      BY <2>2, <3>1 DEF SessionInv, Manager!EntryFollowsSession
    <3>3. CASE d = by
      BY <1>0, <1>1, <1>5, <1>7, <1>8, <3>2, <3>3
    <3>4. CASE d # by
      <4>1. d # pending
        BY <1>0, <1>1, <1>2, <2>2, <3>1, <3>4
      <4> QED BY <1>4, <1>5, <1>7, <1>8, <3>2, <3>4, <4>1
    <3> QED BY <3>3, <3>4
  <2> QED BY <2>1, <2>2 DEF Manager!EntryFollowsSession
<1>17. \A d \in Calls : /\ start'[d].at # "idle" => start'[d].name \in Names
                        /\ start'[d].at \in {"idle", "checking"} => start'[d].own = Nil
  BY <1>0, <1>1, <1>8 DEF SessionInv
<1>18. definition' \in [Names -> Nat] /\ crowded' \subseteq Calls
  BY <1>1 DEF SessionInv
<1> QED BY <1>5, <1>6, <1>7, <1>8, <1>10, <1>13, <1>14, <1>15, <1>16, <1>17, <1>18 DEF SessionInv

LEMMA SessionsStep ==
    ASSUME InspectionAssumption, SessionInv, [Manager!Next]_(Manager!vars)
    PROVE  SessionInv'
<1>1. CASE UNCHANGED Manager!vars
  BY <1>1 DEF SessionInv, Manager!vars, Newest, PairedOnce, Manager!ToldOfOwn, Manager!EntryFollowsSession,
              Manager!Namesakes
<1>2. ASSUME NEW n \in Names, Manager!Edit(n) PROVE SessionInv'
  <2>1. definition' \in [Names -> Nat] /\ UNCHANGED <<start, pendingStarts, session, entry, crowded>>
    BY <1>2 DEF Manager!Edit, SessionInv
  <2> QED BY <2>1 DEF SessionInv, Newest, PairedOnce, Manager!ToldOfOwn, Manager!EntryFollowsSession,
                      Manager!Namesakes
<1>3. ASSUME NEW c \in Calls,
             Manager!Checked(c) \/ \E n \in Names, listed \in 0..MaxEdits : Manager!Begin(c, n, listed)
      PROVE  SessionInv'
  BY <1>3, StartsKeep
<1>4. ASSUME NEW c \in Calls, Manager!Started(c) \/ Manager!NotStarted(c) PROVE SessionInv'
  BY <1>4, AnswersKeep
<1>5. ASSUME NEW s \in Manager!Sessions, Manager!SessionEnds(s) \/ Manager!SessionRestarts(s)
      PROVE  SessionInv'
  BY <1>5, EndsKeep
<1>6. ASSUME NEW s \in Manager!Sessions, NEW by \in Calls \cup {User}, NEW name \in Names,
             Manager!SessionStarts(s, by, name)
      PROVE  SessionInv'
  BY <1>6, SessionStartsKeep
<1> QED BY <1>1, <1>2, <1>3, <1>4, <1>5, <1>6 DEF Manager!Next

\* A call is told of the session it caused and its activity entry follows it, unless somebody else
\* starts its name meanwhile: for any number of calls, sessions and names.
THEOREM StartsPaired == Manager!Spec => []StartsArePaired
<1>1. SessionInv => StartsArePaired
  BY DEF SessionInv, StartsArePaired
<1>2. Manager!Spec => []SessionInv
  BY InspectionAssumption, SessionsInit, SessionsStep, PTL DEF Manager!Spec
<1> QED BY <1>1, <1>2, PTL

-----------------------------------------------------------------------------
(* DocumentAccess.  The grants that are kept are those that were created,  *)
(* in that order and without gaps but for what expired, so that one which  *)
(* is cut off has MaxGrants newer ones.                                    *)

Grants == Access!Grant
Slots == Grants \cup {Nil} \cup {Access!Waiting(u) : u \in Documents}
Locations == UNION {[1..n -> Slots] : n \in 0..MaxLocations}
Lookups == [at : {"idle", "checking", "opening", "opened", "granting",
                    "answered", "refused", "failed"},
              uri : Documents \cup {Nil}, shown : Grants \cup {Nil}, locations : Locations]

\* As many as are kept have been created since.
Displaced(g, all) == \E k \in 1..Len(all) : all[k] = g /\ Len(all) - k >= MaxGrants

\* From a grant on, no more are kept than were created.
Orderly(s, all) ==
    \A i \in 1..Len(s) : \E k \in 1..Len(all) : all[k] = s[i] /\ Len(all) - k >= Len(s) - i

Complete(s, all) == \A g \in ToSet(all) : g \in ToSet(s) \/ Access!Expired(g) \/ Displaced(g, all)

\* Each grant is the only one that is made for its location.
Placed ==
    /\ \A k \in 1..Len(created) : \A c \in Calls, i \in 1..MaxLocations :
          created[k].id = <<c, i>> => /\ request[c].at \in {"granting", "answered"}
                                      /\ i \in DOMAIN request[c].locations
                                      /\ request[c].locations[i] = created[k]
    /\ \A k, l \in 1..Len(created) : created[k] = created[l] => k = l
    /\ \A c \in Calls : \A i \in DOMAIN request[c].locations :
          \/ request[c].locations[i] \in ToSet(created) \cup {Nil}
          \/ i \in Access!Unresolved(c)
    /\ \A c \in Calls : request[c].at = "answered" => Access!Unresolved(c) = {}

AccessInv ==
    /\ open \subseteq Documents /\ now \in 0..MaxTime
    /\ grants \in Seq(Grants) /\ created \in Seq(Grants)
    /\ request \in [Calls -> Lookups]
    /\ \A c \in Calls : request[c].at # "idle" => request[c].uri \in Documents
    /\ Orderly(grants, created) /\ Complete(grants, created) /\ Placed

LEMMA AccessConstants ==
    ASSUME InspectionAssumption
    PROVE  /\ Inside \subseteq Documents /\ Nil \notin Documents
           /\ MaxGrants \in Nat \ {0} /\ TTL \in Nat /\ MaxLocations \in Nat /\ MaxTime \in Nat /\ Visible \in Nat
  BY DEF InspectionAssumption, Access!AccessAssumption

LEMMA SameAccessWhere == \A s, stay : Access!Where(s, stay) = Where(s, stay)
  BY DEF Where, Access!Where

\* What is filtered keeps the order.
LEMMA WhereOrderly ==
    ASSUME NEW s \in Seq(Grants), NEW all \in Seq(Grants), NEW stay, Orderly(s, all)
    PROVE  Orderly(Where(s, stay), all)
<1> SUFFICES ASSUME NEW j \in 1..Len(Where(s, stay))
             PROVE  \E k \in 1..Len(all) : all[k] = Where(s, stay)[j] /\ Len(all) - k >= Len(Where(s, stay)) - j
  BY DEF Orderly
<1>1. PICK i \in 1..Len(s) : s[i] = Where(s, stay)[j] /\ Len(Where(s, stay)) - j <= Len(s) - i
  BY WhereKeepsOrder
<1>2. PICK k \in 1..Len(all) : all[k] = s[i] /\ Len(all) - k >= Len(s) - i
  BY DEF Orderly
<1>3. Len(s) \in Nat /\ Len(all) \in Nat /\ Len(Where(s, stay)) \in Nat
  BY WhereKeeps
<1> HIDE DEF Orderly
<1> QED BY <1>1, <1>2, <1>3

\* #prune
LEMMA PrunedKeeps ==
    ASSUME InspectionAssumption, NEW s \in Seq(Grants), NEW all \in Seq(Grants),
           Orderly(s, all), Complete(s, all)
    PROVE  /\ Access!Pruned(s) \in Seq(Grants)
           /\ Orderly(Access!Pruned(s), all) /\ Complete(Access!Pruned(s), all)
<1> DEFINE live == Where(s, Access!Live)
           x == Len(live) - MaxGrants
           cut == SubSeq(live, x + 1, Len(live))
<1>1. Access!Pruned(s) = IF x <= 0 THEN live ELSE cut
  BY SameAccessWhere DEF Access!Pruned
<1>2. /\ live \in Seq(Grants) /\ ToSet(live) = ToSet(s) \cap Access!Live /\ Len(live) \in Nat /\ Len(s) \in Nat
      /\ Orderly(live, all)
  BY WhereKeeps, WhereOrderly
<1>3. ToSet(s) \subseteq Grants /\ ToSet(all) \subseteq Grants
  BY ToSetType
<1>4. Complete(live, all)
  BY <1>2, <1>3 DEF Complete, Access!Live, Grants
<1>5. MaxGrants \in Nat
  BY AccessConstants
<1> HIDE DEF live
<1>6. CASE x <= 0
  BY <1>1, <1>2, <1>4, <1>6
<1>7. CASE ~ (x <= 0)
  <2>1. x \in 0..Len(live) /\ Len(all) \in Nat
    BY <1>2, <1>5, <1>7
  <2>2. /\ cut \in Seq(Grants) /\ Len(cut) = Len(live) - x
        /\ \A j \in 1..(Len(live) - x) : cut[j] = live[j + x]
    BY <1>2, <2>1, ToSetOfNewest
  <2> HIDE DEF cut
  <2>3. Orderly(cut, all)
    <3> SUFFICES ASSUME NEW j \in 1..Len(cut)
                 PROVE  \E k \in 1..Len(all) : all[k] = cut[j] /\ Len(all) - k >= Len(cut) - j
      BY DEF Orderly
    <3>1. j + x \in 1..Len(live) /\ cut[j] = live[j + x]
      BY SMTT(30), <1>2, <1>5, <2>1, <2>2
    <3>2. PICK k \in 1..Len(all) : all[k] = live[j + x] /\ Len(all) - k >= Len(live) - (j + x)
      BY <1>2, <3>1 DEF Orderly
    <3> QED BY <1>2, <1>5, <2>1, <2>2, <3>1, <3>2
  <2>4. ASSUME NEW g \in ToSet(live), g \notin ToSet(cut) PROVE Displaced(g, all)
    <3>1. PICK i \in 1..Len(live) : live[i] = g
      BY <1>2, <2>4 DEF ToSet
    <3>2. i <= x
      <4> SUFFICES ASSUME ~ (i <= x) PROVE FALSE
        OBVIOUS
      <4>0. i - x \in 1..(Len(live) - x) /\ (i - x) + x = i
        BY <1>2, <1>5, <2>1
      <4>1. i - x \in 1..Len(cut) /\ cut[i - x] = live[i]
        BY <2>2, <4>0
      <4> QED BY <2>2, <2>4, <3>1, <4>1 DEF ToSet
    <3>3. PICK k \in 1..Len(all) : all[k] = live[i] /\ Len(all) - k >= Len(live) - i
      BY <1>2 DEF Orderly
    <3>4. Len(all) - k >= MaxGrants
      BY <1>2, <1>5, <2>1, <3>2, <3>3
    <3> QED BY <3>1, <3>3, <3>4 DEF Displaced
  <2>5. Complete(cut, all)
    BY <1>4, <2>4 DEF Complete
  <2> QED BY <1>1, <1>7, <2>2, <2>3, <2>5
<1> QED BY <1>6, <1>7

\* A grant is put at the end of what is kept, and of what was created.
LEMMA AppendKeeps ==
    ASSUME NEW s \in Seq(Grants), NEW all \in Seq(Grants), NEW g \in Grants,
           Orderly(s, all), Complete(s, all), MaxGrants \in Nat
    PROVE  /\ Append(s, g) \in Seq(Grants) /\ Append(all, g) \in Seq(Grants)
           /\ Orderly(Append(s, g), Append(all, g)) /\ Complete(Append(s, g), Append(all, g))
<1> DEFINE t == Append(s, g)
           more == Append(all, g)
<1>1. /\ t \in Seq(Grants) /\ more \in Seq(Grants) /\ Len(s) \in Nat /\ Len(all) \in Nat
      /\ Len(t) = Len(s) + 1 /\ Len(more) = Len(all) + 1 /\ t[Len(s) + 1] = g /\ more[Len(all) + 1] = g
      /\ \A i \in 1..Len(s) : t[i] = s[i]
      /\ \A i \in 1..Len(all) : more[i] = all[i]
  OBVIOUS
<1>2. ToSet(t) = ToSet(s) \cup {g} /\ ToSet(more) = ToSet(all) \cup {g}
  BY ToSetOfAppend
<1> HIDE DEF t, more
<1>3. Orderly(t, more)
  <2> SUFFICES ASSUME NEW i \in 1..Len(t)
               PROVE  \E k \in 1..Len(more) : more[k] = t[i] /\ Len(more) - k >= Len(t) - i
    BY DEF Orderly
  <2>1. CASE i = Len(s) + 1
    BY <1>1, <2>1
  <2>2. CASE i # Len(s) + 1
    <3>1. i \in 1..Len(s)
      BY <1>1, <2>2
    <3>2. PICK k \in 1..Len(all) : all[k] = s[i] /\ Len(all) - k >= Len(s) - i
      BY <3>1 DEF Orderly
    <3>3. k \in 1..Len(more) /\ more[k] = t[i] /\ Len(more) - k >= Len(t) - i
      BY <1>1, <3>1, <3>2
    <3> QED BY <3>3
  <2> QED BY <2>1, <2>2
<1>4. ASSUME NEW h, Displaced(h, all) PROVE Displaced(h, more)
  <2>1. PICK k \in 1..Len(all) : all[k] = h /\ Len(all) - k >= MaxGrants
    BY <1>4 DEF Displaced
  <2>2. k \in 1..Len(more) /\ more[k] = h /\ Len(more) - k >= MaxGrants
    BY <1>1, <2>1
  <2> QED BY <2>2 DEF Displaced
<1>5. Complete(t, more)
  BY <1>2, <1>4 DEF Complete
<1> QED BY <1>1, <1>3, <1>5 DEF t, more

\* Issue, of a grant that was not there before.
LEMMA IssueKeeps ==
    ASSUME InspectionAssumption, AccessInv, NEW g \in Grants, Access!Issue(g)
    PROVE  /\ grants' \in Seq(Grants) /\ created' \in Seq(Grants) /\ created' = Append(created, g)
           /\ Orderly(grants', created') /\ Complete(grants', created')
<1> DEFINE s == Access!Pruned(grants)
           t == Append(s, g)
           more == Append(created, g)
<1>1. grants' = Access!Pruned(t) /\ created' = more
  BY DEF Access!Issue
<1>2. grants \in Seq(Grants) /\ created \in Seq(Grants) /\ Orderly(grants, created) /\ Complete(grants, created)
  BY DEF AccessInv
<1>3. s \in Seq(Grants) /\ Orderly(s, created) /\ Complete(s, created)
  BY <1>2, PrunedKeeps
<1>4. MaxGrants \in Nat
  BY AccessConstants
<1> HIDE DEF s
<1>5. t \in Seq(Grants) /\ more \in Seq(Grants) /\ Orderly(t, more) /\ Complete(t, more)
  BY <1>2, <1>3, <1>4, AppendKeeps
<1> HIDE DEF t, more
<1>6. /\ Access!Pruned(t) \in Seq(Grants)
      /\ Orderly(Access!Pruned(t), more) /\ Complete(Access!Pruned(t), more)
  BY <1>5, PrunedKeeps
<1> QED BY <1>1, <1>5, <1>6 DEF more

LEMMA AccessInit == InspectionAssumption /\ Access!Init => AccessInv
<1> SUFFICES ASSUME InspectionAssumption, Access!Init PROVE AccessInv
  OBVIOUS
<1> DEFINE none == [at |-> "idle", uri |-> Nil, shown |-> Nil, locations |-> <<>>]
<1>1. open \subseteq Documents /\ now \in 0..MaxTime /\ grants = <<>> /\ created = <<>>
      /\ request = [c \in Calls |-> none]
  BY AccessConstants DEF Access!Init
<1>2. none \in Lookups
  <2>1. <<>> \in [1..0 -> Slots] /\ 0 \in 0..MaxLocations
    BY AccessConstants
  <2>2. <<>> \in Locations
    BY <2>1 DEF Locations
  <2> QED BY <2>2 DEF Lookups
<1>3. request \in [Calls -> Lookups] /\ \A c \in Calls : request[c].at = "idle" /\ request[c].locations = <<>>
  BY <1>1, <1>2
<1>4. ToSet(created) = {} /\ Len(created) = 0 /\ Len(grants) = 0
  BY <1>1 DEF ToSet
<1>5. Orderly(grants, created) /\ Complete(grants, created)
  BY <1>4 DEF Orderly, Complete
<1>6. \A c \in Calls : DOMAIN request[c].locations = {}
  <2>1. DOMAIN <<>> = {}
    OBVIOUS
  <2> HIDE DEF none
  <2> QED BY <1>3, <2>1
<1>7. Placed
  BY <1>3, <1>4, <1>6 DEF Placed
<1> QED BY <1>1, <1>3, <1>5, <1>7 DEF AccessInv

\* The clock and the order of the grants aside, a call that goes on keeps its locations.
LEMMA GoesOn ==
    ASSUME InspectionAssumption, AccessInv, NEW c \in Calls, NEW r \in Lookups,
           request' = [request EXCEPT ![c] = r], r.locations = request[c].locations,
           request[c].at \in {"granting", "answered"} => r.at \in {"granting", "answered"},
           r.at = "answered" => Access!Unresolved(c) = {},
           r.at # "idle" => r.uri \in Documents,
           open' \subseteq Documents, UNCHANGED <<created, now>>,
           grants' \in Seq(Grants), Orderly(grants', created), Complete(grants', created)
    PROVE  AccessInv'
<1>1. request' \in [Calls -> Lookups]
  BY DEF AccessInv
<1>2. \A d \in Calls : /\ request'[d].locations = request[d].locations
                       /\ request[d].at \in {"granting", "answered"} => request'[d].at \in {"granting", "answered"}
                       /\ d # c => request'[d] = request[d]
  BY DEF AccessInv
<1>3. request'[c] = r
  BY DEF AccessInv
<1>4. \A d \in Calls : Access!Unresolved(d)' = Access!Unresolved(d)
  BY <1>2 DEF Access!Unresolved
<1>5. Complete(grants, created)' /\ Orderly(grants, created)'
  BY DEF Complete, Orderly, Access!Expired
<1>6. Placed'
  <2>1. \A k \in 1..Len(created) : \A d \in Calls, i \in 1..MaxLocations :
          created[k].id = <<d, i>> => /\ request'[d].at \in {"granting", "answered"}
                                      /\ i \in DOMAIN request'[d].locations
                                      /\ request'[d].locations[i] = created[k]
    BY SMTT(30), <1>2 DEF AccessInv, Placed
  <2>2. \A d \in Calls : request'[d].at = "answered" => Access!Unresolved(d)' = {}
    BY <1>2, <1>3, <1>4 DEF AccessInv, Placed
  <2>3. \A d \in Calls : \A i \in DOMAIN request'[d].locations :
          \/ request'[d].locations[i] \in ToSet(created) \cup {Nil}
          \/ i \in Access!Unresolved(d)'
    BY <1>2, <1>4 DEF AccessInv, Placed
  <2> QED BY <2>1, <2>2, <2>3 DEF AccessInv, Placed
<1> QED BY <1>1, <1>2, <1>3, <1>5, <1>6 DEF AccessInv

\* What is returned, and so what is known, was created.
LEMMA KnownIsCreated ==
    ASSUME AccessInv
    PROVE  /\ Access!Known \subseteq Grants
           /\ \A c \in Calls : request[c].at = "answered" => Access!Returned(c) \subseteq ToSet(created)
<1>1. ASSUME NEW c \in Calls, request[c].at = "answered" PROVE Access!Returned(c) \subseteq ToSet(created)
  BY <1>1 DEF AccessInv, Placed, Access!Returned
<1>2. ToSet(created) \subseteq Grants
  BY ToSetType DEF AccessInv
<1> QED BY <1>1, <1>2 DEF Access!Known

\* authorize: only what has expired is removed.
LEMMA LookupKeeps ==
    ASSUME AccessInv, NEW g \in Grants, NEW uri, grants' = Access!AfterLookup(g, uri)
    PROVE  grants' \in Seq(Grants) /\ Orderly(grants', created) /\ Complete(grants', created)
<1>0. grants \in Seq(Grants) /\ created \in Seq(Grants) /\ Orderly(grants, created) /\ Complete(grants, created)
  BY DEF AccessInv
<1>1. CASE ~ (g.uri = uri /\ Access!Expired(g))
  <2>1. grants' = grants
    BY <1>1 DEF Access!AfterLookup
  <2> QED BY <1>0, <2>1
<1>2. CASE g.uri = uri /\ Access!Expired(g)
  <2> DEFINE t == Where(grants, Grants \ {g})
  <2>1. grants' = t
    BY <1>2, SameAccessWhere DEF Access!AfterLookup, Grants
  <2>2. t \in Seq(Grants) /\ ToSet(t) = ToSet(grants) \cap (Grants \ {g}) /\ Orderly(t, created)
    BY <1>0, WhereKeeps, WhereOrderly
  <2>3. ToSet(grants) \subseteq Grants
    BY <1>0, ToSetType
  <2> HIDE DEF t
  <2>4. Complete(t, created)
    BY <1>0, <1>2, <2>2, <2>3 DEF Complete
  <2> QED BY <2>1, <2>2, <2>4
<1> QED BY <1>1, <1>2

LEMMA WaitingIsNoGrant ==
    /\ \A u \in Documents : Access!Waiting(u) \notin Grants /\ Access!Waiting(u).uri = u
    /\ \A g \in Grants : g.id \in Calls \X (1..MaxLocations)
<1>1. ASSUME NEW u \in Documents PROVE Access!Waiting(u) \notin Grants
  <2> SUFFICES ASSUME Access!Waiting(u) \in Grants PROVE FALSE
    OBVIOUS
  <2>1. DOMAIN Access!Waiting(u) = {"uri"}
    BY DEF Access!Waiting
  <2>2. "id" \in DOMAIN Access!Waiting(u)
    BY DEF Grants, Access!Grant
  <2> QED BY <2>1, <2>2
<1> QED BY <1>1 DEF Access!Waiting, Grants, Access!Grant

LEMMA ProvideKeeps ==
    ASSUME InspectionAssumption, AccessInv, NEW c \in Calls, NEW n \in 0..MaxLocations,
           NEW result \in [1..n -> Documents], Access!Provide(c, result)
    PROVE  AccessInv'
<1> DEFINE places == [i \in DOMAIN result |-> IF result[i] \in open THEN Nil ELSE Access!Waiting(result[i])]
           r == [request[c] EXCEPT !.at = "granting", !.locations = places]
<1>1. /\ request' = [request EXCEPT ![c] = r] /\ request[c].at = "opened"
      /\ UNCHANGED <<open, grants, created, now>>
  BY DEF Access!Provide
<1>2. places \in [1..n -> Slots] /\ DOMAIN places = 1..n
  BY DEF Slots
<1>3. \A i \in 1..n : places[i] = Nil \/ places[i] \in {Access!Waiting(u) : u \in Documents}
  OBVIOUS
<1> HIDE DEF places
<1>4. places \in Locations
  BY <1>2 DEF Locations
<1>5. r \in Lookups /\ r.at = "granting" /\ r.locations = places /\ r.uri = request[c].uri
  BY <1>4 DEF AccessInv, Lookups
<1> HIDE DEF r
<1>6. /\ request' \in [Calls -> Lookups] /\ request'[c] = r
      /\ \A d \in Calls \ {c} : request'[d] = request[d]
  BY <1>1, <1>5 DEF AccessInv
<1>7. /\ \A i \in 1..n : places[i] = Nil \/ i \in Access!Unresolved(c)'
      /\ \A d \in Calls \ {c} : Access!Unresolved(d)' = Access!Unresolved(d)
  BY <1>2, <1>3, <1>5, <1>6 DEF Access!Unresolved
<1>8. \A k \in 1..Len(created) : \A i \in 1..MaxLocations : created[k].id # <<c, i>>
  BY <1>1 DEF AccessInv, Placed
<1>9. Placed'
  <2>1. \A k \in 1..Len(created) : \A d \in Calls, i \in 1..MaxLocations :
          created[k].id = <<d, i>> => /\ request'[d].at \in {"granting", "answered"}
                                      /\ i \in DOMAIN request'[d].locations
                                      /\ request'[d].locations[i] = created[k]
    BY SMTT(30), <1>6, <1>8 DEF AccessInv, Placed
  <2>2. \A d \in Calls : request'[d].at = "answered" => Access!Unresolved(d)' = {}
    BY <1>5, <1>6, <1>7 DEF AccessInv, Placed
  <2>3. \A d \in Calls : \A i \in DOMAIN request'[d].locations :
          \/ request'[d].locations[i] \in ToSet(created) \cup {Nil}
          \/ i \in Access!Unresolved(d)'
    BY <1>2, <1>5, <1>6, <1>7 DEF AccessInv, Placed
  <2> QED BY <1>1, <2>1, <2>2, <2>3 DEF AccessInv, Placed
<1>10. Complete(grants, created)' /\ Orderly(grants, created)'
  BY <1>1 DEF AccessInv, Complete, Orderly, Access!Expired
<1> QED BY <1>1, <1>5, <1>6, <1>9, <1>10 DEF AccessInv

LEMMA GrantLocationKeeps ==
    ASSUME InspectionAssumption, AccessInv, NEW c \in Calls, NEW i \in 1..MaxLocations,
           Access!GrantLocation(c, i)
    PROVE  AccessInv'
<1> DEFINE places == request[c].locations
           uri == places[i].uri
           g == [id |-> <<c, i>>, uri |-> uri, at |-> now]
           w == IF uri \in Inside THEN Nil ELSE g
           r == [request[c] EXCEPT !.locations[i] = w]
<1>1. /\ request' = [request EXCEPT ![c] = r] /\ request[c].at = "granting"
      /\ i \in DOMAIN places /\ places[i] \in {Access!Waiting(u) : u \in Documents}
      /\ IF uri \in Inside THEN UNCHANGED <<grants, created>> ELSE Access!Issue(g)
      /\ UNCHANGED <<open, now>>
  BY DEF Access!GrantLocation, Access!Unresolved
<1>2. uri \in Documents /\ places[i] \notin Grants
  BY <1>1, WaitingIsNoGrant
<1>3. now \in 0..MaxTime /\ request[c] \in Lookups /\ request[c].uri \in Documents
  BY <1>1 DEF AccessInv
<1>4. g \in Grants
  BY <1>2, <1>3 DEF Grants, Access!Grant
<1>5. g.id = <<c, i>>
  OBVIOUS
<1> HIDE DEF g
<1>6. w \in Slots /\ w \in Grants \cup {Nil}
  BY <1>4 DEF Slots
<1>7. \A k \in 1..Len(created) : created[k].id # <<c, i>>
  <2>1. \A k \in 1..Len(created) : created[k] \in Grants
    BY DEF AccessInv
  <2> QED BY <1>2, <2>1 DEF AccessInv, Placed
<1> DEFINE placed == [places EXCEPT ![i] = w]
<1>8. PICK n \in 0..MaxLocations : places \in [1..n -> Slots]
  BY <1>3 DEF Lookups, Locations
<1>9. placed \in [1..n -> Slots] /\ DOMAIN placed = DOMAIN places /\ placed[i] = w
      /\ \A j \in DOMAIN places \ {i} : placed[j] = places[j]
  BY <1>1, <1>6, <1>8
<1>10. r = [request[c] EXCEPT !.locations = placed]
  OBVIOUS
<1> HIDE DEF w, placed, r
<1>11. placed \in Locations
  BY <1>9 DEF Locations
<1>12. r \in Lookups /\ r.at = "granting" /\ r.locations = placed /\ r.uri = request[c].uri
  BY <1>1, <1>3, <1>10, <1>11 DEF Lookups
<1>13. /\ request' \in [Calls -> Lookups] /\ request'[c] = r
       /\ \A d \in Calls \ {c} : request'[d] = request[d]
  BY <1>1, <1>12 DEF AccessInv
<1>14. /\ \A d \in Calls \ {c} : Access!Unresolved(d)' = Access!Unresolved(d)
       /\ \A j \in DOMAIN places \ {i} : j \in Access!Unresolved(c) => j \in Access!Unresolved(c)'
  BY <1>9, <1>12, <1>13 DEF Access!Unresolved
<1>15. /\ grants' \in Seq(Grants) /\ created' \in Seq(Grants)
       /\ Orderly(grants', created') /\ Complete(grants', created')
       /\ \/ w = Nil /\ created' = created
          \/ w = g /\ created' = Append(created, g)
  <2>1. CASE uri \in Inside
    BY <1>1, <2>1 DEF AccessInv, w
  <2>2. CASE uri \notin Inside
    BY <1>1, <1>4, <2>2, IssueKeeps DEF w
  <2> QED BY <2>1, <2>2
<1>16. /\ ToSet(created) \subseteq ToSet(created') /\ w \in ToSet(created') \cup {Nil}
       /\ created \in Seq(Grants) /\ Len(created) \in Nat
       /\ \A k \in 1..Len(created) : created'[k] = created[k]
       /\ \/ Len(created') = Len(created) /\ w = Nil
          \/ Len(created') = Len(created) + 1 /\ created'[Len(created) + 1] = g /\ w = g
  <2>1. created \in Seq(Grants)
    BY DEF AccessInv
  <2>2. /\ ToSet(Append(created, g)) = ToSet(created) \cup {g}
        /\ Len(Append(created, g)) = Len(created) + 1 /\ Append(created, g)[Len(created) + 1] = g
        /\ \A k \in 1..Len(created) : Append(created, g)[k] = created[k]
    BY <1>4, <2>1, ToSetOfAppend
  <2>3. CASE w = Nil /\ created' = created
    BY <2>1, <2>3
  <2>4. CASE w = g /\ created' = Append(created, g)
    <3>1. ToSet(created) \subseteq ToSet(created') /\ w \in ToSet(created')
      BY <2>2, <2>4
    <3> QED BY <2>1, <2>2, <2>4, <3>1
  <2> QED BY <1>15, <2>3, <2>4
<1>17. Complete(grants, created)' /\ Orderly(grants, created)'
  BY <1>1, <1>15 DEF Complete, Orderly, Access!Expired
<1>18. \A k \in 1..Len(created') :
          \/ k \in 1..Len(created)
          \/ k = Len(created) + 1 /\ created'[k] = g /\ w = g
  BY <1>16
<1>19. Placed'
  <2>1. ASSUME NEW k \in 1..Len(created'), NEW d \in Calls, NEW j \in 1..MaxLocations,
               created'[k].id = <<d, j>>
        PROVE  /\ request'[d].at \in {"granting", "answered"}
               /\ j \in DOMAIN request'[d].locations /\ request'[d].locations[j] = created'[k]
    <3>1. CASE k \in 1..Len(created)
      <4>1. created'[k] = created[k] /\ <<d, j>> # <<c, i>>
        BY <1>7, <1>16, <2>1, <3>1
      <4>2. /\ request[d].at \in {"granting", "answered"}
            /\ j \in DOMAIN request[d].locations /\ request[d].locations[j] = created[k]
        BY <2>1, <3>1, <4>1 DEF AccessInv, Placed
      <4>3. CASE d = c
        BY <1>9, <1>12, <1>13, <4>1, <4>2, <4>3
      <4>4. CASE d # c
        BY <1>13, <4>1, <4>2, <4>4
      <4> QED BY <4>3, <4>4
    <3>2. CASE k \notin 1..Len(created)
      <4>1. created'[k] = g /\ w = g /\ d = c /\ j = i
        BY <1>5, <1>18, <2>1, <3>2
      <4> QED BY <1>1, <1>9, <1>12, <1>13, <4>1
    <3> QED BY <3>1, <3>2
  <2>2. ASSUME NEW k \in 1..Len(created'), NEW l \in 1..Len(created'), created'[k] = created'[l]
        PROVE  k = l
    <3>1. CASE k \in 1..Len(created) /\ l \in 1..Len(created)
      BY <1>16, <2>2, <3>1 DEF AccessInv, Placed
    <3>2. CASE ~ (k \in 1..Len(created) /\ l \in 1..Len(created))
      BY <1>5, <1>7, <1>16, <1>18, <2>2, <3>2
    <3> QED BY <3>1, <3>2
  <2>3. ASSUME NEW d \in Calls, NEW j \in DOMAIN request'[d].locations
        PROVE  \/ request'[d].locations[j] \in ToSet(created') \cup {Nil}
               \/ j \in Access!Unresolved(d)'
    <3>1. CASE d # c
      BY <1>13, <1>14, <1>16, <3>1 DEF AccessInv, Placed
    <3>2. CASE d = c /\ j = i
      BY <1>9, <1>12, <1>13, <1>16, <3>2
    <3>3. CASE d = c /\ j # i
      BY <1>9, <1>12, <1>13, <1>14, <1>16, <3>3 DEF AccessInv, Placed
    <3> QED BY <3>1, <3>2, <3>3
  <2>4. ASSUME NEW d \in Calls, request'[d].at = "answered" PROVE Access!Unresolved(d)' = {}
    BY <1>12, <1>13, <1>14, <2>4 DEF AccessInv, Placed
  <2> QED BY <2>1, <2>2, <2>3, <2>4 DEF Placed
<1>20. \A d \in Calls : request'[d].at # "idle" => request'[d].uri \in Documents
  BY <1>3, <1>12, <1>13 DEF AccessInv
<1> QED BY <1>1, <1>13, <1>15, <1>17, <1>19, <1>20 DEF AccessInv

LEMMA AccessStep ==
    ASSUME InspectionAssumption, AccessInv, [Access!Next]_(Access!vars)
    PROVE  AccessInv'
<1>0. grants \in Seq(Grants) /\ Orderly(grants, created) /\ Complete(grants, created)
      /\ open \subseteq Documents /\ request \in [Calls -> Lookups]
  BY DEF AccessInv
<1>1. CASE UNCHANGED Access!vars
  BY <1>1 DEF AccessInv, Access!vars, Orderly, Complete, Placed, Access!Expired, Access!Unresolved
<1>2. ASSUME NEW c \in Calls, NEW uri \in Documents, NEW g \in Access!Known \cup {Nil}, Access!Ask(c, uri, g)
      PROVE  AccessInv'
  <2> DEFINE r == [request[c] EXCEPT !.at = IF uri \in open THEN "opened" ELSE "checking",
                                     !.uri = uri, !.shown = g]
  <2>1. g \in Grants \cup {Nil}
    BY KnownIsCreated
  <2>2. /\ r \in Lookups /\ r.locations = request[c].locations /\ r.uri = uri
        /\ r.at \in {"opened", "checking"}
    BY <1>0, <2>1 DEF Lookups
  <2>3. request' = [request EXCEPT ![c] = r] /\ UNCHANGED <<open, grants, created, now>>
        /\ request[c].at = "idle"
    BY <1>2 DEF Access!Ask
  <2> HIDE DEF r
  <2> QED BY <1>0, <2>2, <2>3, GoesOn
<1>3. ASSUME NEW c \in Calls, Access!Authorize(c) PROVE AccessInv'
  <2> DEFINE uri == request[c].uri
             g == request[c].shown
             to == IF uri \notin Inside /\ ~Access!Authorizes(g, uri) THEN "refused"
                   ELSE IF uri \in open THEN "opened" ELSE "opening"
             r == [request[c] EXCEPT !.at = to]
  <2>1. /\ request' = [request EXCEPT ![c] = r] /\ UNCHANGED <<open, created, now>>
        /\ request[c].at = "checking"
        /\ grants' = IF uri \in Inside \/ g = Nil THEN grants ELSE Access!AfterLookup(g, uri)
    BY <1>3 DEF Access!Authorize
  <2>2. g \in Grants \cup {Nil} /\ to \in {"refused", "opened", "opening"} /\ uri \in Documents
    BY <1>0, <2>1 DEF Lookups, AccessInv
  <2> HIDE DEF to
  <2>3. /\ r \in Lookups /\ r.locations = request[c].locations /\ r.uri = uri
        /\ r.at \in {"refused", "opened", "opening"}
    BY <1>0, <2>2 DEF Lookups
  <2>4. grants' \in Seq(Grants) /\ Orderly(grants', created) /\ Complete(grants', created)
    BY <1>0, <2>1, <2>2, LookupKeeps
  <2> HIDE DEF r
  <2> QED BY <1>0, <2>1, <2>2, <2>3, <2>4, GoesOn
<1>4. ASSUME NEW c \in Calls, Access!Opened(c) \/ Access!OpenFails(c) PROVE AccessInv'
  <2> PICK to \in {"opened", "failed"} :
        /\ request' = [request EXCEPT ![c].at = to] /\ UNCHANGED <<grants, created, now>>
        /\ request[c].at = "opening" /\ open' \in {open, open \cup {request[c].uri}}
    BY <1>4 DEF Access!Opened, Access!OpenFails
  <2> DEFINE r == [request[c] EXCEPT !.at = to]
  <2>1. r \in Lookups /\ r.locations = request[c].locations /\ r.uri = request[c].uri /\ r.at = to
        /\ r.uri \in Documents
    BY <1>0 DEF Lookups, AccessInv
  <2>2. request' = [request EXCEPT ![c] = r] /\ open' \subseteq Documents
    BY <1>0, <2>1
  <2> HIDE DEF r
  <2> QED BY <1>0, <2>1, <2>2, GoesOn
<1>5. ASSUME NEW c \in Calls, Access!Answer(c) PROVE AccessInv'
  <2> DEFINE r == [request[c] EXCEPT !.at = "answered"]
  <2>1. r \in Lookups /\ r.locations = request[c].locations /\ r.uri = request[c].uri /\ r.at = "answered"
        /\ r.uri \in Documents
    BY <1>0, <1>5 DEF Lookups, AccessInv, Access!Answer
  <2>2. request' = [request EXCEPT ![c] = r] /\ UNCHANGED <<open, grants, created, now>>
        /\ Access!Unresolved(c) = {}
    BY <1>5 DEF Access!Answer
  <2> HIDE DEF r
  <2> QED BY <1>0, <2>1, <2>2, GoesOn
<1>6. ASSUME NEW c \in Calls, NEW n \in 0..MaxLocations, NEW result \in [1..n -> Documents],
             Access!Provide(c, result)
      PROVE  AccessInv'
  BY <1>6, ProvideKeeps
<1>7. ASSUME NEW c \in Calls, NEW i \in 1..MaxLocations, Access!GrantLocation(c, i) PROVE AccessInv'
  BY <1>7, GrantLocationKeeps
<1>8. ASSUME NEW uri \in Documents, Access!DocumentsChange(uri) PROVE AccessInv'
  <2>1. open' \subseteq Documents /\ UNCHANGED <<grants, request, created, now>>
    BY <1>0, <1>8 DEF Access!DocumentsChange
  <2> QED BY <2>1 DEF AccessInv, Orderly, Complete, Placed, Access!Expired, Access!Unresolved
<1>9. CASE Access!Tick
  <2>1. now' \in 0..MaxTime /\ now <= now' /\ UNCHANGED <<open, grants, request, created>>
    BY <1>9, AccessConstants DEF AccessInv, Access!Tick
  <2>2. \A g \in Grants : Access!Expired(g) => Access!Expired(g)'
    BY <2>1, AccessConstants DEF Access!Expired, Grants, Access!Grant, AccessInv
  <2>3. ToSet(created) \subseteq Grants
    BY ToSetType DEF AccessInv
  <2>4. Complete(grants, created)'
    BY <1>0, <2>1, <2>2, <2>3 DEF Complete
  <2>5. Orderly(grants, created)'
    BY <1>0, <2>1 DEF Orderly
  <2>6. Placed'
    <3>1. UNCHANGED <<request, created>>
      BY <2>1
    <3>2. \A c \in Calls : Access!Unresolved(c)' = Access!Unresolved(c)
      BY <3>1 DEF Access!Unresolved
    <3>3. Placed
      BY DEF AccessInv
    <3> QED BY <3>1, <3>2, <3>3 DEF Placed
  <2> QED BY <1>0, <2>1, <2>4, <2>5, <2>6 DEF AccessInv
<1> QED BY <1>1, <1>2, <1>3, <1>4, <1>5, <1>6, <1>7, <1>8, <1>9 DEF Access!Next

\* A grant that a client was given opens its document until it expires or MaxGrants newer ones
\* displace it, for any number of calls, documents and grants.
THEOREM GrantsAreKept == Access!Spec => []GrantsHold
<1>1. InspectionAssumption /\ AccessInv => GrantsHold
  <2> SUFFICES ASSUME InspectionAssumption, AccessInv, NEW c \in Calls, request[c].at = "answered",
                      NEW g \in Access!Returned(c)
               PROVE  \/ Access!Authorizes(g, g.uri) \/ Access!Expired(g)
                      \/ Len(created) - Access!Place(g) >= MaxGrants
    BY DEF GrantsHold, Access!GrantsHold
  <2>1. g \in ToSet(created) /\ g # Nil
    BY KnownIsCreated DEF Access!Returned
  <2>2. g \in ToSet(grants) \/ Access!Expired(g) \/ Displaced(g, created)
    BY <2>1 DEF AccessInv, Complete
  <2>3. CASE g \in ToSet(grants)
    BY <2>1, <2>3 DEF Access!Authorizes, Access!Held, ToSet
  <2>4. CASE Displaced(g, created)
    <3>1. PICK k \in 1..Len(created) : created[k] = g /\ Len(created) - k >= MaxGrants
      BY <2>4 DEF Displaced
    <3>2. DOMAIN created = 1..Len(created)
      BY DEF AccessInv
    <3>3. Access!Place(g) = k
      BY <3>1, <3>2 DEF Access!Place, AccessInv, Placed
    <3> QED BY <3>1, <3>3
  <2> QED BY <2>2, <2>3, <2>4
<1>2. Access!Spec => []AccessInv
  BY InspectionAssumption, AccessInit, AccessStep, PTL DEF Access!Spec
<1> QED BY <1>1, <1>2, InspectionAssumption, PTL

-----------------------------------------------------------------------------
(* DiagnosticEvents.  What is kept of the log is its end, so that whatever *)
(* comes after a cursor that has not expired is there.                     *)

Logged == [cursor : Nat, document : Names, at : Nat, kind : {"added", "removed", "changed"}]
Followers == [follows : SUBSET Names, after : Nat, got : Seq(Nat), told : BOOLEAN, reads : Nat]

\* The events that are kept are the last of the log.
EndOf(list, all) ==
    /\ list \in Seq(Logged) /\ Len(list) <= Len(all)
    /\ \A j \in 1..Len(list) : list[j] = all[Len(all) - Len(list) + j]

\* The numbers of the events up to a cursor that a client asked for
Asked(all, follows, first, last) == {k \in 1..Len(all) : all[k].document \in follows /\ first <= k /\ k <= last}

Gone == Len(log) - Len(diagnosed)

EventInv ==
    /\ log \in Seq(Logged) /\ cursor = Len(log) + 1 /\ hour \in Nat
    /\ \A k \in 1..Len(log) : log[k].cursor = k
    /\ EndOf(diagnosed, log)
    /\ diagnostics \in [Names -> Int] /\ summaries \in [Names -> Int] /\ due \subseteq Names
    /\ follower \in Followers /\ follower.after <= Len(log)
    /\ follower.got = <<>> <=> follower.after = 0
    /\ follower.got # <<>> => follower.got[Len(follower.got)] = follower.after
    /\ \A i, j \in 1..Len(follower.got) : i < j => follower.got[i] < follower.got[j]
    /\ follower.got # <<>> /\ ~follower.told =>
          ToSet(follower.got) = Asked(log, follower.follows, follower.got[1], follower.after)
    /\ follower.told => \E k \in 1..Gone : k \notin ToSet(follower.got)

LEMMA SameEventsWhere == \A s, stay : Events!Where(s, stay) = Where(s, stay)
  BY DEF Where, Events!Where

LEMMA SameEventsSet == \A s : Events!ToSet(s) = ToSet(s)
  BY DEF ToSet, Events!ToSet

\* #cleanupDiagnosticEvents drops from the front.
LEMMA KeptIsEnd ==
    ASSUME NEW all \in Seq(Logged), NEW list, EndOf(list, all)
    PROVE  EndOf(Events!Kept(list), all) /\ Len(Events!Kept(list)) <= Len(list)
<1> DEFINE stays(i) == Len(list) - i < MaxKept /\ list[i].at + TTL >= hour
           candidates == {i \in 1..Len(list) : stays(i)} \cup {Len(list) + 1}
           first == Events!Min(candidates)
<1>1. list \in Seq(Logged) /\ Len(list) \in Nat /\ Len(all) \in Nat
  BY DEF EndOf
<1>2. candidates \in SUBSET Nat /\ candidates # {} /\ candidates \subseteq 1..(Len(list) + 1)
  BY <1>1
<1>3. Events!Kept(list) = SubSeq(list, first, Len(list))
  BY DEF Events!Kept
<1>4. first = CHOOSE x \in candidates : \A y \in candidates : x <= y
  BY DEF Events!Min
<1> HIDE DEF candidates, first
<1>5. first \in candidates
  BY <1>2, <1>4, LeastElement
<1>6. first - 1 \in 0..Len(list) /\ (first - 1) + 1 = first
  BY <1>1, <1>2, <1>5
<1> DEFINE k == first - 1
           kept == SubSeq(list, k + 1, Len(list))
<1>7. Events!Kept(list) = kept
  BY <1>3, <1>6
<1>8. /\ kept \in Seq(Logged) /\ Len(kept) = Len(list) - k
      /\ \A j \in 1..(Len(list) - k) : kept[j] = list[j + k]
  BY <1>1, <1>6, ToSetOfNewest
<1>9. k \in 0..Len(list)
  BY <1>6
<1> HIDE DEF kept, k
<1>10. ASSUME NEW j \in 1..Len(kept) PROVE kept[j] = all[Len(all) - Len(kept) + j]
  <2>1. j + k \in 1..Len(list) /\ Len(all) - Len(list) + (j + k) = Len(all) - Len(kept) + j
    BY <1>1, <1>8, <1>9
  <2>2. kept[j] = list[j + k]
    BY <1>8
  <2>3. list[j + k] = all[Len(all) - Len(list) + (j + k)]
    BY <2>1 DEF EndOf
  <2> QED BY <2>1, <2>2, <2>3
<1>11. Len(kept) <= Len(list) /\ Len(kept) <= Len(all)
  BY <1>1, <1>8, <1>9 DEF EndOf
<1> QED BY <1>7, <1>8, <1>10, <1>11 DEF EndOf

\* Where the kept events are in the log
LEMMA EndIs ==
    ASSUME EventInv, NEW list, EndOf(list, log)
    PROVE  /\ Len(list) \in Nat /\ Len(log) \in Nat
           /\ \A j \in 1..Len(list) : /\ list[j] = log[Len(log) - Len(list) + j]
                                      /\ Len(log) - Len(list) + j \in 1..Len(log)
                                      /\ list[j].cursor = Len(log) - Len(list) + j
           /\ ToSet(list) = {log[k] : k \in (Len(log) - Len(list) + 1)..Len(log)}
           /\ Events!Oldest(list) = Len(log) - Len(list) + 1
<1> DEFINE gone == Len(log) - Len(list)
<1>1. list \in Seq(Logged) /\ Len(list) \in Nat /\ Len(log) \in Nat /\ Len(list) <= Len(log)
  BY DEF EventInv, EndOf
<1>2. \A j \in 1..Len(list) : list[j] = log[gone + j] /\ gone + j \in 1..Len(log) /\ list[j].cursor = gone + j
  BY <1>1 DEF EventInv, EndOf
<1>3. ToSet(list) \subseteq {log[k] : k \in (gone + 1)..Len(log)}
  <2> SUFFICES ASSUME NEW j \in 1..Len(list) PROVE list[j] \in {log[k] : k \in (gone + 1)..Len(log)}
    <3>1. DOMAIN list = 1..Len(list)
      BY <1>1
    <3> QED BY <3>1 DEF ToSet
  <2>1. gone + j \in (gone + 1)..Len(log)
    BY <1>1
  <2> QED BY <1>2, <2>1
<1>4. {log[k] : k \in (gone + 1)..Len(log)} \subseteq ToSet(list)
  <2> SUFFICES ASSUME NEW k \in (gone + 1)..Len(log) PROVE log[k] \in ToSet(list)
    OBVIOUS
  <2>1. k - gone \in 1..Len(list) /\ gone + (k - gone) = k
    BY <1>1
  <2>2. log[k] = list[k - gone]
    BY <1>2, <2>1
  <2> QED BY <1>1, <2>1, <2>2 DEF ToSet
<1>5. Events!Oldest(list) = gone + 1
  <2>1. CASE list = <<>>
    BY <1>1, <2>1 DEF Events!Oldest, EventInv
  <2>2. CASE list # <<>>
    <3>1. 1 \in 1..Len(list) /\ Head(list) = list[1]
      BY <1>1, <2>2
    <3> QED BY <1>2, <2>2, <3>1 DEF Events!Oldest
  <2> QED BY <2>1, <2>2
<1> QED BY <1>1, <1>2, <1>3, <1>4, <1>5

LEMMA EventsInit == Events!Init => EventInv
<1> SUFFICES ASSUME Events!Init PROVE EventInv
  OBVIOUS
<1>1. /\ log = <<>> /\ cursor = 1 /\ diagnosed = <<>> /\ hour = 0 /\ due = {}
      /\ follower \in [follows : {Names} \cup {{d} : d \in Names}, after : {0}, got : {<<>>}, told : {FALSE},
                       reads : {0}]
      /\ diagnostics \in [Names -> {0, 1}]
      /\ summaries = [d \in Names |-> IF diagnostics[d] = 0 THEN Events!Unknown ELSE diagnostics[d]]
  BY DEF Events!Init
<1>2. follower \in Followers /\ follower.after = 0 /\ follower.got = <<>> /\ ~follower.told
  <2>1. PICK f \in {Names} \cup {{d} : d \in Names} :
          follower = [follows |-> f, after |-> 0, got |-> <<>>, told |-> FALSE, reads |-> 0]
    BY <1>1
  <2>2. f \in SUBSET Names /\ <<>> \in Seq(Nat) /\ FALSE \in BOOLEAN
    OBVIOUS
  <2> QED BY <2>1, <2>2 DEF Followers
<1>3. log \in Seq(Logged) /\ Len(log) = 0 /\ EndOf(diagnosed, log)
  BY <1>1 DEF EndOf
<1>4. diagnostics \in [Names -> Int] /\ summaries \in [Names -> Int]
  BY <1>1 DEF Events!Unknown
<1>5. Len(follower.got) = 0
  BY <1>2
<1> QED BY <1>1, <1>2, <1>3, <1>4, <1>5 DEF EventInv

\* #captureDiagnosticChange
LEMMA CaptureKeeps ==
    ASSUME EventInv, NEW d \in Names, Events!Capture(d) PROVE EventInv'
<1>1. /\ d \in due /\ due' = due \ {d} /\ summaries' = [summaries EXCEPT ![d] = diagnostics[d]]
      /\ UNCHANGED <<diagnostics, follower, changes, hour>>
  BY DEF Events!Capture
<1>2. /\ due' \subseteq Names /\ summaries' \in [Names -> Int]
  BY <1>1 DEF EventInv
<1>3. CASE UNCHANGED <<diagnosed, cursor, log>>
  BY <1>1, <1>2, <1>3 DEF EventInv, EndOf, Gone, Asked
<1>4. CASE summaries[d] # diagnostics[d]
  <2> DEFINE e == [cursor |-> cursor, document |-> d, at |-> hour,
                   kind |-> Events!Kind(summaries[d], diagnostics[d])]
             list == Append(diagnosed, e)
             more == Append(log, e)
  <2>1. diagnosed' = Events!Kept(list) /\ log' = more /\ cursor' = cursor + 1
    BY <1>4 DEF Events!Capture
  <2>2. log \in Seq(Logged) /\ Len(log) \in Nat /\ cursor = Len(log) + 1
        /\ diagnosed \in Seq(Logged) /\ Len(diagnosed) \in Nat /\ Len(diagnosed) <= Len(log)
    BY DEF EventInv, EndOf
  <2>3. e \in Logged /\ e.cursor = cursor
    BY <2>2 DEF EventInv, Logged, Events!Kind
  <2> HIDE DEF e
  <2>4. /\ list \in Seq(Logged) /\ more \in Seq(Logged)
        /\ Len(list) = Len(diagnosed) + 1 /\ Len(more) = Len(log) + 1
        /\ list[Len(diagnosed) + 1] = e /\ more[Len(log) + 1] = e
        /\ \A j \in 1..Len(diagnosed) : list[j] = diagnosed[j]
        /\ \A k \in 1..Len(log) : more[k] = log[k]
    BY <2>2, <2>3
  <2> HIDE DEF list, more
  <2>5. EndOf(list, more)
    <3>1. ASSUME NEW j \in 1..Len(list) PROVE list[j] = more[Len(more) - Len(list) + j]
      <4>1. CASE j = Len(diagnosed) + 1
        <5>1. Len(more) - Len(list) + j = Len(log) + 1
          BY <2>2, <2>4, <4>1
        <5> QED BY <2>4, <4>1, <5>1
      <4>2. CASE j # Len(diagnosed) + 1
        <5>1. j \in 1..Len(diagnosed) /\ Len(more) - Len(list) + j = Len(log) - Len(diagnosed) + j
              /\ Len(log) - Len(diagnosed) + j \in 1..Len(log)
          BY <2>2, <2>4, <4>2
        <5>2. diagnosed[j] = log[Len(log) - Len(diagnosed) + j]
          BY <5>1 DEF EventInv, EndOf
        <5> QED BY <2>4, <5>1, <5>2
      <4> QED BY <4>1, <4>2
    <3>2. Len(list) <= Len(more)
      BY <2>2, <2>4
    <3> QED BY <2>4, <3>1, <3>2 DEF EndOf
  <2>6. EndOf(diagnosed', log') /\ Len(diagnosed') <= Len(list)
    BY <2>1, <2>4, <2>5, KeptIsEnd
  <2>7. Len(diagnosed') \in Nat
    BY <2>6 DEF EndOf
  <2>8. Gone' \in Nat /\ Gone \in Nat /\ Gone <= Gone'
    BY <2>1, <2>2, <2>4, <2>6, <2>7 DEF Gone, EndOf
  <2>9. \A k \in 1..Len(log') : log'[k].cursor = k
    <3> SUFFICES ASSUME NEW k \in 1..Len(log') PROVE log'[k].cursor = k
      OBVIOUS
    <3>1. CASE k = Len(log) + 1
      BY <2>1, <2>2, <2>3, <2>4, <3>1
    <3>2. CASE k # Len(log) + 1
      <4>1. k \in 1..Len(log)
        BY <2>1, <2>2, <2>4, <3>2
      <4> QED BY <2>1, <2>4, <4>1 DEF EventInv
    <3> QED BY <3>1, <3>2
  <2>10. follower \in Followers /\ follower.after <= Len(log)
    BY DEF EventInv
  <2>11. Asked(log', follower.follows, follower.got[1], follower.after)
           = Asked(log, follower.follows, follower.got[1], follower.after)
    <3>1. follower.after \in Nat /\ Len(log') = Len(log) + 1 /\ \A k \in 1..Len(log) : log'[k] = log[k]
      BY <2>1, <2>4, <2>10 DEF Followers
    <3>2. \A k \in 1..Len(log') : k <= follower.after => k \in 1..Len(log)
      BY <2>2, <2>10, <3>1
    <3>3. \A k \in 1..Len(log) : k \in 1..Len(log')
      BY <2>2, <3>1
    <3> QED BY <3>1, <3>2, <3>3 DEF Asked
  <2>12. follower.told => \E k \in 1..Gone' : k \notin ToSet(follower.got)
    <3> SUFFICES ASSUME follower.told PROVE \E k \in 1..Gone' : k \notin ToSet(follower.got)
      OBVIOUS
    <3>1. PICK k \in 1..Gone : k \notin ToSet(follower.got)
      BY DEF EventInv
    <3>2. k \in 1..Gone'
      BY <2>8
    <3> QED BY <3>1, <3>2
  <2>13. log' \in Seq(Logged) /\ cursor' = Len(log') + 1 /\ follower.after <= Len(log')
    <3>1. follower.after \in Nat
      BY <2>10 DEF Followers
    <3> QED BY <2>1, <2>2, <2>4, <2>10, <3>1
  <2> QED BY <1>1, <1>2, <2>6, <2>9, <2>11, <2>12, <2>13 DEF EventInv
<1> QED BY <1>3, <1>4 DEF Events!Capture

\* What a page is taken from: the events after a cursor that are kept and asked for, in order
PageFrom(selected, gone, after, follows) ==
    /\ selected \in Seq(Logged)
    /\ \A j \in 1..Len(selected) :
          /\ selected[j].cursor \in (gone + 1)..Len(log) /\ selected[j].cursor > after
          /\ log[selected[j].cursor].document \in follows
    /\ \A k \in 1..Len(selected) : \A j \in 1..(k - 1) : selected[j].cursor < selected[k].cursor
    /\ \A k \in (gone + 1)..Len(log) : k > after /\ log[k].document \in follows =>
          \E j \in 1..Len(selected) : selected[j].cursor = k

LEMMA SelectedIs ==
    ASSUME EventInv, NEW list, EndOf(list, log), NEW after \in Nat, NEW follows
    PROVE  \A stay : stay = {e \in ToSet(list) : e.cursor > after /\ e.document \in follows} =>
              PageFrom(Where(list, stay), Len(log) - Len(list), after, follows)
<1>0. list \in Seq(Logged)
  BY DEF EndOf
<1>00. \A stay : InOrder(Where(list, stay), list)
  BY <1>0, WhereInOrder
<1> SUFFICES ASSUME NEW stay, stay = {e \in ToSet(list) : e.cursor > after /\ e.document \in follows}
             PROVE  PageFrom(Where(list, stay), Len(log) - Len(list), after, follows)
  OBVIOUS
<1> DEFINE selected == Where(list, stay)
           gone == Len(log) - Len(list)
<1>1. /\ Len(list) \in Nat /\ Len(log) \in Nat /\ list \in Seq(Logged) /\ Len(list) <= Len(log)
      /\ \A j \in 1..Len(list) : list[j] = log[gone + j] /\ gone + j \in 1..Len(log) /\ list[j].cursor = gone + j
  BY EndIs DEF EndOf
<1>2. ToSet(list) = {log[k] : k \in (gone + 1)..Len(log)}
  BY EndIs
<1>3. \A k \in (gone + 1)..Len(log) : log[k].cursor = k
  BY SMTT(30), <1>1 DEF EventInv
<1>4. ToSet(list) \cap stay = stay
  OBVIOUS
<1>5. \A e \in stay : e.cursor \in (gone + 1)..Len(log) /\ e.cursor > after /\ log[e.cursor].document \in follows
  <2> SUFFICES ASSUME NEW e \in stay
               PROVE  e.cursor \in (gone + 1)..Len(log) /\ e.cursor > after /\ log[e.cursor].document \in follows
    OBVIOUS
  <2>1. PICK k \in (gone + 1)..Len(log) : e = log[k]
    BY <1>2
  <2> QED BY <1>3, <2>1
<1>6. \A k \in (gone + 1)..Len(log) : k > after /\ log[k].document \in follows => log[k] \in stay
  BY <1>2, <1>3
<1>7. selected \in Seq(Logged) /\ ToSet(selected) = stay
  BY <1>1, <1>4, WhereKeeps
<1>70. InOrder(selected, list)
  BY <1>00
<1> HIDE DEF selected
<1>8. ASSUME NEW k \in 1..Len(selected), NEW j \in 1..(k - 1) PROVE selected[j].cursor < selected[k].cursor
  <2>1. PICK l \in 1..Len(list) : \E i \in 1..(l - 1) : list[i] = selected[j] /\ list[l] = selected[k]
    BY <1>70 DEF InOrder
  <2>2. PICK i \in 1..(l - 1) : list[i] = selected[j] /\ list[l] = selected[k]
    BY <2>1
  <2>3. i \in 1..Len(list) /\ i < l /\ gone \in Int
    BY <1>1
  <2>4. selected[j].cursor = gone + i /\ selected[k].cursor = gone + l
    BY <1>1, <2>2, <2>3
  <2> HIDE DEF selected, gone
  <2> QED BY <2>3, <2>4
<1> HIDE DEF selected
<1>9. DOMAIN selected = 1..Len(selected)
  BY <1>7
<1>10. \A j \in 1..Len(selected) : selected[j] \in stay
  BY <1>7, <1>9 DEF ToSet
<1>11. ASSUME NEW k \in (gone + 1)..Len(log), k > after, log[k].document \in follows
       PROVE  \E j \in 1..Len(selected) : selected[j].cursor = k
  <2>1. log[k] \in ToSet(selected)
    BY <1>6, <1>7, <1>11
  <2>2. PICK j \in 1..Len(selected) : selected[j] = log[k]
    BY <1>9, <2>1 DEF ToSet
  <2> QED BY <1>3, <2>2
<1>12. \A j \in 1..Len(selected) :
          /\ selected[j].cursor \in (gone + 1)..Len(log) /\ selected[j].cursor > after
          /\ log[selected[j].cursor].document \in follows
  BY <1>5, <1>10
<1> QED BY <1>7, <1>8, <1>11, <1>12 DEF selected, PageFrom

\* The cursors of a page, behind what the client had
LEMMA GotMore ==
    ASSUME NEW got \in Seq(Nat), NEW page \in Seq(Logged), page # <<>>
    PROVE  LET more == got \o [i \in 1..Len(page) |-> page[i].cursor]
           IN  /\ more \in Seq(Nat) /\ Len(more) = Len(got) + Len(page) /\ more # <<>>
               /\ \A i \in 1..Len(got) : more[i] = got[i]
               /\ \A j \in 1..Len(page) : more[Len(got) + j] = page[j].cursor
               /\ ToSet(more) = ToSet(got) \cup {page[j].cursor : j \in 1..Len(page)}
<1> DEFINE cursors == [i \in 1..Len(page) |-> page[i].cursor]
           more == got \o cursors
<1>1. Len(page) \in Nat /\ Len(page) > 0 /\ Len(got) \in Nat
  OBVIOUS
<1>2. \A i \in 1..Len(page) : page[i].cursor \in Nat
  <2> SUFFICES ASSUME NEW i \in 1..Len(page) PROVE page[i].cursor \in Nat
    OBVIOUS
  <2>1. page[i] \in Logged
    OBVIOUS
  <2> QED BY <2>1 DEF Logged
<1>3. /\ cursors \in Seq(Nat) /\ Len(cursors) = Len(page) /\ DOMAIN cursors = 1..Len(page)
      /\ \A j \in 1..Len(page) : cursors[j] = page[j].cursor
  BY <1>1, <1>2
<1> HIDE DEF cursors
<1>4. /\ more \in Seq(Nat) /\ Len(more) = Len(got) + Len(page)
      /\ \A i \in 1..Len(got) : more[i] = got[i]
      /\ \A j \in 1..Len(page) : more[Len(got) + j] = cursors[j]
  <2>1. /\ more \in Seq(Nat) /\ Len(more) = Len(got) + Len(cursors)
        /\ \A i \in 1..(Len(got) + Len(cursors)) :
              more[i] = IF i <= Len(got) THEN got[i] ELSE cursors[i - Len(got)]
    BY <1>3, ConcatProperties
  <2> HIDE DEF more
  <2>2. ASSUME NEW i \in 1..Len(got) PROVE more[i] = got[i]
    BY SMTT(30), <1>1, <1>3, <2>1
  <2>3. ASSUME NEW j \in 1..Len(page) PROVE more[Len(got) + j] = cursors[j]
    <3>1. Len(got) + j \in 1..(Len(got) + Len(cursors)) /\ ~(Len(got) + j <= Len(got)) /\ (Len(got) + j) - Len(got) = j
      BY <1>1, <1>3
    <3> QED BY <2>1, <3>1
  <2> QED BY <1>3, <2>1, <2>2, <2>3
<1> HIDE DEF more
<1>5. DOMAIN more = 1..Len(more) /\ DOMAIN got = 1..Len(got) /\ more # <<>>
  BY <1>1, <1>4
<1>6. ToSet(more) = ToSet(got) \cup {page[j].cursor : j \in 1..Len(page)}
  <2>1. ASSUME NEW i \in 1..Len(more) PROVE more[i] \in ToSet(got) \cup {page[j].cursor : j \in 1..Len(page)}
    <3>1. CASE i <= Len(got)
      <4>1. i \in 1..Len(got)
        BY <1>1, <1>4, <3>1
      <4> QED BY <1>4, <1>5, <4>1 DEF ToSet
    <3>2. CASE i > Len(got)
      <4>1. i - Len(got) \in 1..Len(page) /\ Len(got) + (i - Len(got)) = i
        BY <1>1, <1>4, <3>2
      <4> QED BY <1>3, <1>4, <4>1
    <3> QED BY <1>1, <3>1, <3>2
  <2>2. ASSUME NEW i \in 1..Len(got) PROVE got[i] \in ToSet(more)
    <3>1. i \in 1..Len(more)
      BY <1>1, <1>4
    <3> QED BY <1>4, <1>5, <3>1 DEF ToSet
  <2>3. ASSUME NEW j \in 1..Len(page) PROVE page[j].cursor \in ToSet(more)
    <3>1. Len(got) + j \in 1..Len(more)
      BY <1>1, <1>4
    <3> QED BY <1>3, <1>4, <1>5, <3>1 DEF ToSet
  <2> QED BY <1>5, <2>1, <2>2, <2>3 DEF ToSet
<1> QED BY <1>3, <1>4, <1>5, <1>6 DEF more, cursors

Moved(f, n, a, g, t) == [f EXCEPT !.reads = n, !.after = a, !.got = g, !.told = t]

LEMMA FollowerMoves ==
    ASSUME NEW f \in Followers, NEW n \in Nat, NEW a \in Nat, NEW g \in Seq(Nat), NEW t \in BOOLEAN
    PROVE  /\ Moved(f, n, a, g, t) \in Followers /\ Moved(f, n, a, g, t).follows = f.follows
           /\ Moved(f, n, a, g, t).after = a /\ Moved(f, n, a, g, t).got = g /\ Moved(f, n, a, g, t).told = t
  BY DEF Followers, Moved

\* What is added behind increasing numbers, itself increasing and above them all, leaves
\* them increasing.
LEMMA JoinedIncreases ==
    ASSUME NEW g \in Nat, NEW n \in Nat, NEW a \in Nat, NEW s, NEW t,
           \A i \in 1..g : s[i] \in Nat /\ s[i] <= a,
           \A i, j \in 1..g : i < j => s[i] < s[j],
           \A k \in 1..n : s[g + k] = t[k] /\ t[k] > a /\ t[k] \in Nat,
           \A k \in 1..n : \A j \in 1..(k - 1) : t[j] < t[k]
    PROVE  \A i, j \in 1..(g + n) : i < j => s[i] < s[j]
<1> SUFFICES ASSUME NEW i \in 1..(g + n), NEW j \in 1..(g + n), i < j PROVE s[i] < s[j]
  OBVIOUS
<1>1. CASE j <= g
  <2>1. i \in 1..g /\ j \in 1..g
    BY <1>1
  <2> QED BY <2>1
<1>2. CASE j > g
  <2>1. PICK m \in 1..n : j = g + m
    <3>1. j - g \in 1..n /\ j = g + (j - g)
      BY <1>2
    <3> QED BY <3>1
  <2>2. s[j] = t[m] /\ t[m] > a /\ t[m] \in Nat
    BY <2>1
  <2>3. CASE i <= g
    <3>1. s[i] \in Nat /\ s[i] <= a
      BY <2>3
    <3> QED BY <2>2, <3>1
  <2>4. CASE i > g
    <3>1. PICK l \in 1..(m - 1) : i = g + l
      <4>1. i - g \in 1..(m - 1) /\ i = g + (i - g)
        BY <2>1, <2>4
      <4> QED BY <4>1
    <3>2. l \in 1..n
      OBVIOUS
    <3> QED BY <2>1, <2>2, <3>1, <3>2
  <2> QED BY <2>3, <2>4
<1> QED BY <1>1, <1>2

\* listDiagnosticEvents
LEMMA ReadKeeps ==
    ASSUME EventInv, NEW limit \in 1..2, Events!Read(limit) PROVE EventInv'
<1> DEFINE after == follower.after
           follows == follower.follows
           got == follower.got
           stay == {e \in ToSet(diagnosed') : e.cursor > after /\ e.document \in follows}
           selected == Where(diagnosed', stay)
           n == Events!Min({limit, Len(selected)})
           page == SubSeq(selected, 1, n)
           more == got \o [i \in 1..Len(page) |-> page[i].cursor]
           expired == Events!Expired(diagnosed', after)
<1>1. /\ diagnosed' = Events!Kept(diagnosed)
      /\ UNCHANGED <<diagnostics, due, summaries, cursor, log, changes, hour>>
  BY DEF Events!Read
<1>2. Events!Where(diagnosed', {e \in Events!ToSet(diagnosed') : e.cursor > after /\ e.document \in follows}) = selected
  BY SMTT(30), SameEventsWhere, SameEventsSet
<1>3. follower' = [follower EXCEPT
                      !.reads = @ + 1,
                      !.after = IF page = <<>> THEN @ ELSE Events!Last(page).cursor,
                      !.got = @ \o [i \in 1..Len(page) |-> page[i].cursor],
                      !.told = @ \/ expired]
  BY ZenonT(40), <1>2 DEF Events!Read
<1>4. follower \in Followers /\ after \in Nat /\ follows \in SUBSET Names /\ got \in Seq(Nat)
      /\ follower.told \in BOOLEAN /\ follower.reads \in Nat
  BY DEF EventInv, Followers
<1>5. log \in Seq(Logged) /\ Len(log) \in Nat /\ EndOf(diagnosed, log)
  BY DEF EventInv
<1>6. EndOf(diagnosed', log) /\ Len(diagnosed') <= Len(diagnosed)
  BY <1>1, <1>5, KeptIsEnd
<1>7. Len(diagnosed') \in Nat /\ Len(diagnosed) \in Nat /\ Len(diagnosed') <= Len(log) /\ Len(diagnosed) <= Len(log)
  BY <1>5, <1>6 DEF EndOf
<1> DEFINE gone == Len(log) - Len(diagnosed')
<1>8. gone \in Nat /\ Gone' = gone /\ Gone \in Nat /\ Gone <= gone
  BY <1>1, <1>6, <1>7 DEF Gone
<1>0. stay = {e \in ToSet(diagnosed') : e.cursor > after /\ e.document \in follows}
  OBVIOUS
<1> HIDE DEF stay
<1>90. PageFrom(selected, gone, after, follows)
  BY <1>0, <1>4, <1>6, SelectedIs
<1> HIDE DEF selected, gone
<1>9. /\ selected \in Seq(Logged)
      /\ \A j \in 1..Len(selected) :
            /\ selected[j].cursor \in (gone + 1)..Len(log) /\ selected[j].cursor > after
            /\ log[selected[j].cursor].document \in follows
      /\ \A k \in 1..Len(selected) : \A j \in 1..(k - 1) : selected[j].cursor < selected[k].cursor
      /\ \A k \in (gone + 1)..Len(log) : k > after /\ log[k].document \in follows =>
            \E j \in 1..Len(selected) : selected[j].cursor = k
  BY <1>90 DEF PageFrom
<1>10. expired \in BOOLEAN /\ (expired <=> after > 0 /\ after < gone)
  <2>1. Events!Oldest(diagnosed')  = gone + 1
    BY <1>6, EndIs DEF gone
  <2> QED BY <1>4, <1>7, <1>8, <2>1 DEF Events!Expired
<1> HIDE DEF expired
<1>11. Len(selected) \in Nat /\ n \in 0..Len(selected)
  <2>1. Len(selected) \in Nat
    BY <1>9
  <2>2. {limit, Len(selected)} \in SUBSET Nat /\ {limit, Len(selected)} # {}
    BY <2>1
  <2>3. n = CHOOSE x \in {limit, Len(selected)} : \A y \in {limit, Len(selected)} : x <= y
    BY DEF Events!Min
  <2>4. n \in {limit, Len(selected)} /\ \A y \in {limit, Len(selected)} : n <= y
    BY <2>2, <2>3, LeastElement
  <2> HIDE DEF n
  <2> QED BY <2>1, <2>4
<1> HIDE DEF n
<1>12. page \in Seq(Logged) /\ Len(page) = n /\ \A j \in 1..n : page[j] = selected[j]
  BY <1>9, <1>11
<1> HIDE DEF page
<1>13. \A i \in 1..Len(got) : got[i] <= after
  <2> SUFFICES ASSUME NEW i \in 1..Len(got) PROVE got[i] <= after
    OBVIOUS
  <2>1. got # <<>> /\ got[Len(got)] = after
    BY <1>4 DEF EventInv
  <2>2. i # Len(got) => got[i] < got[Len(got)]
    <3>1. Len(got) \in 1..Len(got) /\ (i # Len(got) => i < Len(got))
      BY <1>4
    <3> QED BY <3>1 DEF EventInv
  <2> QED BY <1>4, <2>1, <2>2
<1>14. follower.told \/ expired => \E k \in 1..gone : k \notin ToSet(got)
  <2>1. CASE follower.told
    <3>1. PICK k \in 1..Gone : k \notin ToSet(got)
      BY <2>1 DEF EventInv
    <3>2. k \in 1..gone
      BY <1>8
    <3> QED BY <3>1, <3>2
  <2>2. CASE expired
    <3>1. after + 1 \in 1..gone
      BY <1>4, <1>8, <1>10, <2>2
    <3>2. \A i \in 1..Len(got) : got[i] # after + 1
      BY <1>4, <1>13
    <3>3. DOMAIN got = 1..Len(got)
      BY <1>4
    <3> QED BY <3>1, <3>2, <3>3 DEF ToSet
  <2> QED BY <2>1, <2>2
<1>15. CASE page = <<>>
  <2>1. /\ follower' = [follower EXCEPT !.reads = @ + 1, !.after = @, !.got = @ \o <<>>, !.told = @ \/ expired]
    <3>1. [i \in 1..Len(page) |-> page[i].cursor] = <<>>
      BY <1>15
    <3> QED BY <1>3, <1>15, <3>1
  <2>2. got \o <<>> = got
    BY <1>4
  <2>3. /\ follower' \in Followers /\ follower'.after = after /\ follower'.got = got
        /\ follower'.follows = follows /\ follower'.told = (follower.told \/ expired)
    <3> DEFINE told == follower.told \/ expired
    <3>1. told \in BOOLEAN
      BY <1>4, <1>10, Zenon
    <3>2. follower' = Moved(follower, follower.reads + 1, after, got, told)
      BY <2>1, <2>2 DEF Moved
    <3> HIDE DEF told
    <3>3. follower.reads + 1 \in Nat
      BY <1>4
    <3>5. \A t \in BOOLEAN : Moved(follower, follower.reads + 1, after, got, t) \in Followers
      BY <1>4, <3>3, FollowerMoves
    <3>6. \A t \in BOOLEAN : /\ Moved(follower, follower.reads + 1, after, got, t).after = after
                            /\ Moved(follower, follower.reads + 1, after, got, t).got = got
                            /\ Moved(follower, follower.reads + 1, after, got, t).follows = follows
                            /\ Moved(follower, follower.reads + 1, after, got, t).told = t
      <4>1. follower \in Followers
        BY <1>4
      <4> QED BY <4>1 DEF Moved, Followers
    <3>4. /\ follower' \in Followers /\ follower'.after = after /\ follower'.got = got
          /\ follower'.follows = follows /\ follower'.told = told
      BY <3>1, <3>2, <3>5, <3>6, Zenon
    <3> QED BY <3>4 DEF told
  <2>4. follower'.told => \E k \in 1..Gone' : k \notin ToSet(follower'.got)
    BY <1>8, <1>14, <2>3
  <2>5. ~follower'.told => ~follower.told
    BY <2>3
  <2> QED BY <1>1, <1>6, <2>3, <2>4, <2>5 DEF EventInv, Asked
<1>16. CASE page # <<>>
  <2> DEFINE last == selected[n].cursor
  <2>1. n \in 1..Len(selected) /\ Events!Last(page) = selected[n]
    <3>1. n # 0 /\ Len(page) = n
      BY <1>11, <1>12, <1>16
    <3>2. n \in 1..Len(selected) /\ n \in 1..n
      BY <1>11, <3>1
    <3> QED BY <1>12, <3>1, <3>2 DEF Events!Last
  <2>2. last \in (gone + 1)..Len(log) /\ last > after /\ last \in Nat /\ last > gone
    BY <1>5, <1>8, <1>9, <2>1
  <2>3. /\ more \in Seq(Nat) /\ Len(more) = Len(got) + n /\ more # <<>>
        /\ \A i \in 1..Len(got) : more[i] = got[i]
        /\ \A j \in 1..n : more[Len(got) + j] = page[j].cursor
        /\ ToSet(more) = ToSet(got) \cup {page[j].cursor : j \in 1..n}
    BY <1>4, <1>12, <1>16, GotMore
  <2>4. /\ follower' \in Followers /\ follower'.after = last /\ follower'.got = more
        /\ follower'.follows = follows /\ follower'.told = (follower.told \/ expired)
    <3>10. follower' = [follower EXCEPT !.reads = @ + 1, !.after = last, !.got = more, !.told = @ \/ expired]
      BY <1>3, <1>16, <2>1
    <3> DEFINE told == follower.told \/ expired
    <3>1. told \in BOOLEAN
      BY <1>4, <1>10, Zenon
    <3>2. follower' = Moved(follower, follower.reads + 1, last, more, told)
      BY <3>10 DEF Moved
    <3> HIDE DEF told
    <3>3. follower.reads + 1 \in Nat
      BY <1>4
    <3> HIDE DEF more, last
    <3>5. \A t \in BOOLEAN : Moved(follower, follower.reads + 1, last, more, t) \in Followers
      BY <1>4, <2>2, <2>3, <3>3, FollowerMoves
    <3>6. \A t \in BOOLEAN : /\ Moved(follower, follower.reads + 1, last, more, t).after = last
                            /\ Moved(follower, follower.reads + 1, last, more, t).got = more
                            /\ Moved(follower, follower.reads + 1, last, more, t).follows = follows
                            /\ Moved(follower, follower.reads + 1, last, more, t).told = t
      <4>1. follower \in Followers
        BY <1>4
      <4> QED BY <4>1 DEF Moved, Followers
    <3>4. /\ follower' \in Followers /\ follower'.after = last /\ follower'.got = more
          /\ follower'.follows = follows /\ follower'.told = told
      BY <3>1, <3>2, <3>5, <3>6, Zenon
    <3> QED BY <3>4 DEF told
  <2> HIDE DEF more
  <2>5. \A j \in 1..n : more[Len(got) + j] = selected[j].cursor
    BY <1>12, <2>3
  <2>6. {page[j].cursor : j \in 1..n} = {selected[j].cursor : j \in 1..n}
    BY <1>12
  <2>7. \A i, j \in 1..Len(more) : i < j => more[i] < more[j]
    <3> DEFINE cursors == [k \in 1..n |-> selected[k].cursor]
    <3>1. /\ \A i \in 1..Len(got) : more[i] \in Nat /\ more[i] <= after
          /\ \A i, j \in 1..Len(got) : i < j => more[i] < more[j]
      <4>1. \A i, j \in 1..Len(got) : i < j => got[i] < got[j]
        BY DEF EventInv
      <4>2. \A i \in 1..Len(got) : got[i] \in Nat
        BY <1>4
      <4> HIDE DEF last, selected, page, got, after
      <4> QED BY <1>13, <2>3, <4>1, <4>2
    <3>2. /\ \A k \in 1..n : more[Len(got) + k] = cursors[k] /\ cursors[k] > after /\ cursors[k] \in Nat
          /\ \A k \in 1..n : \A j \in 1..(k - 1) : cursors[j] < cursors[k]
      <4>1. \A k \in 1..n : k \in 1..Len(selected)
        BY <1>11
      <4>2. \A k \in 1..Len(selected) : selected[k].cursor \in Nat
        BY <1>5, <1>8, <1>9
      <4>3. \A k \in 1..n : \A j \in 1..(k - 1) : j \in 1..n
        BY <1>11
      <4> QED BY <1>9, <2>5, <4>1, <4>2, <4>3
    <3> HIDE DEF cursors
    <3>3. Len(got) \in Nat /\ n \in Nat
      BY <1>4, <1>11
    <3>4. \A i, j \in 1..(Len(got) + n) : i < j => more[i] < more[j]
      BY <1>4, <3>1, <3>2, <3>3, JoinedIncreases
    <3> QED BY <2>3, <3>4
  <2>8. more[Len(more)] = last
    BY <1>4, <2>1, <2>3, <2>5
  <2>9. (follower.told \/ expired) => \E k \in 1..gone : k \notin ToSet(more)
    <3> SUFFICES ASSUME follower.told \/ expired PROVE \E k \in 1..gone : k \notin ToSet(more)
      OBVIOUS
    <3>1. PICK k \in 1..gone : k \notin ToSet(got)
      BY <1>14
    <3>2. \A j \in 1..n : selected[j].cursor # k
      <4> SUFFICES ASSUME NEW j \in 1..n PROVE selected[j].cursor # k
        OBVIOUS
      <4>1. selected[j].cursor \in (gone + 1)..Len(log)
        BY <1>9, <1>11
      <4> QED BY <1>5, <1>8, <4>1
    <3> QED BY <2>3, <2>6, <3>1, <3>2
  <2>10. ASSUME ~follower.told, ~expired
         PROVE  ToSet(more) = Asked(log, follows, more[1], last)
    <3>1. after = 0 \/ after >= gone
      BY <1>4, <1>8, <1>10, <2>10
    <3>2. got = <<>> <=> after = 0
      BY DEF EventInv
    <3>3. /\ got # <<>> => more[1] = got[1] /\ got[1] \in Nat /\ got[1] <= after
          /\ got = <<>> => more[1] = selected[1].cursor
      <4>1. got # <<>> => 1 \in 1..Len(got)
        BY <1>4
      <4>2. got = <<>> => Len(got) = 0 /\ 1 \in 1..n
        BY <2>1
      <4> QED BY SMTT(30), <1>4, <1>13, <2>3, <2>5, <4>1, <4>2
    <3>4. \A j \in 1..n : /\ selected[j].cursor \in 1..Len(log) /\ selected[j].cursor > after
                          /\ selected[1].cursor <= selected[j].cursor /\ selected[j].cursor <= last
                          /\ selected[j].cursor > gone
                          /\ log[selected[j].cursor].document \in follows
      <4> SUFFICES ASSUME NEW j \in 1..n
                   PROVE  /\ selected[j].cursor \in 1..Len(log) /\ selected[j].cursor > after
                          /\ selected[1].cursor <= selected[j].cursor /\ selected[j].cursor <= last
                          /\ selected[j].cursor > gone
                          /\ log[selected[j].cursor].document \in follows
        OBVIOUS
      <4>1. j \in 1..Len(selected) /\ 1 \in 1..Len(selected)
        BY <1>11, <2>1
      <4>2. j # 1 => 1 \in 1..(j - 1)
        OBVIOUS
      <4>3. j # n => j \in 1..(n - 1)
        BY <1>11
      <4>4. selected[j].cursor \in Nat
        BY <1>5, <1>8, <1>9, <4>1
      <4>5. j # 1 => selected[1].cursor < selected[j].cursor
        BY <1>9, <4>1, <4>2
      <4>6. j # n => selected[j].cursor < last
        BY <1>9, <2>1, <4>3
      <4>7. selected[1].cursor \in Nat
        BY <1>5, <1>8, <1>9, <4>1
      <4> QED BY SMTT(30), <1>5, <1>8, <1>9, <2>2, <4>1, <4>4, <4>5, <4>6, <4>7
    <3>5. ASSUME NEW k \in 1..Len(log), log[k].document \in follows, more[1] <= k, k <= last, k > after
          PROVE  \E j \in 1..n : selected[j].cursor = k
      <4>1. k \in (gone + 1)..Len(log)
        <5>1. CASE got = <<>>
          <6>1. 1 \in 1..n
            BY <2>1
          <6>2. selected[1].cursor > gone /\ selected[1].cursor \in Nat
            BY <3>4, <6>1
          <6> QED BY <1>5, <1>8, <3>3, <3>5, <5>1, <6>2
        <5>2. CASE got # <<>>
          BY <1>4, <1>5, <1>8, <3>1, <3>2, <3>5, <5>2
        <5> QED BY <5>1, <5>2
      <4>2. PICK j \in 1..Len(selected) : selected[j].cursor = k
        BY <1>9, <3>5, <4>1
      <4>3. ~(n \in 1..(j - 1))
        <5> SUFFICES ASSUME n \in 1..(j - 1) PROVE FALSE
          OBVIOUS
        <5>1. last < selected[j].cursor
          BY <1>9
        <5> QED BY <2>2, <3>5, <4>2, <5>1
      <4>4. j \in 1..n
        BY <1>11, <2>1, <4>3
      <4> QED BY <4>2, <4>4
    <3>6. ASSUME NEW k \in ToSet(got) PROVE k \in Asked(log, follows, more[1], last)
      <4>1. got # <<>>
        BY DEF ToSet
      <4>2. ToSet(got) = Asked(log, follows, got[1], after)
        BY <2>10, <4>1 DEF EventInv
      <4> QED BY <1>4, <2>2, <3>3, <4>1, <4>2 DEF Asked
    <3>7. ASSUME NEW j \in 1..n PROVE selected[j].cursor \in Asked(log, follows, more[1], last)
      <4>1. more[1] <= selected[j].cursor
        <5>1. CASE got = <<>>
          BY <3>3, <3>4, <5>1
        <5>2. CASE got # <<>>
          <6>1. selected[j].cursor \in Nat /\ selected[j].cursor > after
            BY <3>4
          <6> QED BY <1>4, <3>3, <5>2, <6>1
        <5> QED BY <5>1, <5>2
      <4> QED BY <3>4, <4>1 DEF Asked
    <3>8. ASSUME NEW k \in Asked(log, follows, more[1], last)
          PROVE  k \in ToSet(got) \cup {selected[j].cursor : j \in 1..n}
      <4>1. k \in 1..Len(log) /\ log[k].document \in follows /\ more[1] <= k /\ k <= last
        BY DEF Asked
      <4>2. CASE k > after
        BY <3>5, <4>1, <4>2
      <4>3. CASE ~(k > after)
        <5>1. k <= after /\ after # 0 /\ got # <<>>
          BY <1>4, <3>2, <4>1, <4>3
        <5>2. ToSet(got) = Asked(log, follows, got[1], after)
          BY <2>10, <5>1 DEF EventInv
        <5> QED BY <3>3, <4>1, <5>1, <5>2 DEF Asked
      <4> QED BY <4>2, <4>3
    <3>9. ToSet(more) = ToSet(got) \cup {selected[j].cursor : j \in 1..n}
      BY <2>3, <2>6
    <3> QED BY <3>6, <3>7, <3>8, <3>9
  <2>11. last # 0 /\ last <= Len(log)
    BY <1>5, <1>8, <2>2
  <2> HIDE DEF last
  <2>12. follower'.told => \E k \in 1..Gone' : k \notin ToSet(follower'.got)
    BY <1>8, <2>4, <2>9
  <2>13. ~follower'.told => ToSet(follower'.got) = Asked(log, follower'.follows, follower'.got[1], follower'.after)
    BY <2>4, <2>10
  <2>14. /\ follower'.got # <<>> /\ follower'.after # 0 /\ follower'.after <= Len(log)
         /\ follower'.got[Len(follower'.got)] = follower'.after
         /\ \A i, j \in 1..Len(follower'.got) : i < j => follower'.got[i] < follower'.got[j]
    BY <2>3, <2>4, <2>7, <2>8, <2>11
  <2> QED BY <1>1, <1>6, <2>4, <2>12, <2>13, <2>14 DEF EventInv
<1> QED BY <1>15, <1>16

LEMMA EventsStep == EventInv /\ [Events!Next]_(Events!vars) => EventInv'
<1> SUFFICES ASSUME EventInv, [Events!Next]_(Events!vars) PROVE EventInv'
  OBVIOUS
<1>1. ASSUME Events!Tick PROVE EventInv'
  <2>1. hour' = hour + 1 /\ UNCHANGED <<diagnostics, due, summaries, diagnosed, cursor, follower, log, changes>>
    BY <1>1 DEF Events!Tick
  <2> QED BY <2>1 DEF EventInv, EndOf, Gone, Asked
<1>2. ASSUME NEW d \in Names, Events!Diagnose(d) PROVE EventInv'
  <2>1. PICK value \in 0..2 : diagnostics' = [diagnostics EXCEPT ![d] = value]
    BY <1>2 DEF Events!Diagnose
  <2>2. due' = due \cup {d} /\ UNCHANGED <<summaries, diagnosed, cursor, follower, log, hour>>
    BY <1>2 DEF Events!Diagnose
  <2>3. diagnostics' \in [Names -> Int] /\ due' \subseteq Names
    BY <2>1, <2>2 DEF EventInv
  <2> QED BY <2>2, <2>3 DEF EventInv, EndOf, Gone, Asked
<1>3. CASE UNCHANGED Events!vars
  BY <1>3 DEF Events!vars, EventInv, EndOf, Gone, Asked
<1> QED BY <1>1, <1>2, <1>3, CaptureKeeps, ReadKeeps DEF Events!Next

\* listDiagnosticEvents: see FollowedInFull
THEOREM FollowersMissNothing == Events!Spec => []FollowedInFull
<1>1. EventInv => FollowedInFull
  <2> SUFFICES ASSUME EventInv PROVE FollowedInFull
    OBVIOUS
  <2>1. /\ log \in Seq(Logged) /\ Len(log) \in Nat /\ DOMAIN log = 1..Len(log)
        /\ follower.got \in Seq(Nat) /\ follower.after \in Nat /\ follower.after <= Len(log)
        /\ DOMAIN follower.got = 1..Len(follower.got)
    BY DEF EventInv, Followers
  <2>2. \A k \in 1..Len(log) : log[k].cursor = k
    BY DEF EventInv
  <2>3. \A i, j \in DOMAIN follower.got : i < j => follower.got[i] < follower.got[j]
    BY <2>1 DEF EventInv
  <2>4. ASSUME follower.got # <<>>, ~follower.told
        PROVE  ToSet(follower.got) = {e.cursor : e \in {f \in ToSet(log) :
                   f.document \in follower.follows /\ f.cursor \in Head(follower.got)..follower.after}}
    <3>1. Head(follower.got) = follower.got[1] /\ follower.got[1] \in Nat
      BY <2>1, <2>4
    <3>2. ToSet(follower.got) = Asked(log, follower.follows, follower.got[1], follower.after)
      BY <2>4 DEF EventInv
    <3> DEFINE first == follower.got[1]
               asked == {f \in ToSet(log) : f.document \in follower.follows /\ f.cursor \in first..follower.after}
    <3>3. \A f \in asked : f.cursor \in Asked(log, follower.follows, first, follower.after)
      BY <2>1, <2>2, <3>1 DEF ToSet, Asked
    <3>4. \A k \in Asked(log, follower.follows, first, follower.after) : log[k] \in asked /\ log[k].cursor = k
      BY <2>1, <2>2, <3>1 DEF ToSet, Asked
    <3> HIDE DEF asked
    <3>5. ToSet(follower.got) = {e.cursor : e \in asked}
      BY <3>2, <3>3, <3>4
    <3> QED BY <3>1, <3>5 DEF asked
  <2>5. ASSUME follower.told
        PROVE  \E e \in ToSet(log) : e \notin ToSet(diagnosed) /\ e.cursor \notin ToSet(follower.got)
    <3>1. PICK k \in 1..Gone : k \notin ToSet(follower.got)
      BY <2>5 DEF EventInv
    <3>2. EndOf(diagnosed, log)
      BY DEF EventInv
    <3>3. /\ Len(diagnosed) \in Nat /\ diagnosed \in Seq(Logged) /\ DOMAIN diagnosed = 1..Len(diagnosed)
          /\ \A j \in 1..Len(diagnosed) : diagnosed[j].cursor = Gone + j
      BY <3>2, EndIs DEF Gone, EndOf
    <3>4. Gone \in Nat /\ Gone <= Len(log)
      BY <2>1, <3>2, <3>3 DEF Gone, EndOf
    <3>5. k \in 1..Len(log) /\ log[k].cursor = k
      BY <2>1, <2>2, <3>4
    <3>6. \A j \in 1..Len(diagnosed) : diagnosed[j].cursor # k
      BY <3>3, <3>4
    <3>7. log[k] \notin ToSet(diagnosed) /\ log[k] \in ToSet(log)
      BY <2>1, <3>3, <3>5, <3>6 DEF ToSet
    <3> QED BY <3>1, <3>5, <3>7
  <2> QED BY <2>3, <2>4, <2>5, SameEventsSet DEF FollowedInFull, Events!FollowedInFull
<1> QED BY <1>1, EventsInit, EventsStep, PTL DEF Events!Spec

-----------------------------------------------------------------------------
(* DebugOutput.  What #trimSession and #enforceWindowLimit leave is the    *)
(* end of a text that fits in a limit: KeptFits says it once for the       *)
(* events of a session and for the sessions of the window.  A client that  *)
(* reads on has got, or is told of as dropped, all that is not kept after  *)
(* its cursor (Followed): a cut takes from the front only what it counts.  *)

Bytes(texts) == SumFunctionOnSet(texts, DOMAIN texts)
After(texts, c) == SumFunctionOnSet(texts, {d \in DOMAIN texts : d > c})

LEMMA OutputSum == \A g, S : Output!SumFunctionOnSet(g, S) = SumFunctionOnSet(g, S)
  BY SumIsIter DEF Output!SumFunctionOnSet, Output!FoldFunctionOnSet, Output!MapThenFoldSet, SumIter, SumBody

LEMMA OutputBytes == \A texts : Output!Sum(texts) = Bytes(texts)
  BY OutputSum DEF Output!Sum, Bytes

\* The last of the texts go on to fill the limit, and no further.
LEMMA KeptFits ==
    ASSUME NEW K, IsFiniteSet(K), NEW texts \in [K -> Nat], NEW place \in [K -> Nat],
           \A t, u \in K : place[t] = place[u] => t = u, NEW limit \in Nat
    PROVE  LET left == Output!Kept(texts, place, limit)
           IN /\ left \in [K -> Nat] /\ \A t \in K : left[t] <= texts[t]
              /\ Bytes(left) <= limit /\ Bytes(left) <= Bytes(texts) /\ Bytes(left) \in Nat /\ Bytes(texts) \in Nat
<1> DEFINE left == Output!Kept(texts, place, limit)
           Later(t) == {u \in K : place[u] > place[t]}
           Had(s) == SumFunctionOnSet(texts, s)
           Has(s) == SumFunctionOnSet(left, s)
           Room(n) == IF limit > n THEN limit - n ELSE 0
           Low(x, y) == IF x < y THEN x ELSE y
           Bad == {s \in SUBSET K : /\ \A t \in s : Later(t) \subseteq s
                                    /\ Has(s) # Low(Had(s), limit)}
<1>1. left = [t \in K |-> Low(texts[t], Room(Had(Later(t))))]
  BY OutputSum DEF Output!Kept
<1>2. \A s \in SUBSET K : IsFiniteSet(s) /\ Had(s) \in Nat
  BY FS_Subset, SumType
<1>3. \A t \in K : left[t] \in Nat /\ left[t] <= texts[t] /\ left[t] = Low(texts[t], Room(Had(Later(t))))
  <2> TAKE t \in K
  <2>1. Had(Later(t)) \in Nat /\ texts[t] \in Nat
    BY <1>2
  <2> HIDE DEF Had, Later, left
  <2> QED BY <1>1, <2>1
<1>4. left \in [K -> Nat]
  <2> HIDE DEF left
  <2>1. DOMAIN left = K /\ left = [t \in K |-> left[t]]
    BY <1>1
  <2> QED BY <1>3, <2>1
<1> HIDE DEF left
<1>5. \A s \in SUBSET K : Has(s) \in Nat
  BY <1>2, <1>3, SumType
<1>6. Had({}) = 0 /\ Has({}) = 0
  BY SumOfNone
<1>7. ASSUME NEW s \in SUBSET K, NEW t \in s
      PROVE  Had(s) = texts[t] + Had(s \ {t}) /\ Has(s) = left[t] + Has(s \ {t})
  <2>1. IsFiniteSet(s) /\ \A u \in s : texts[u] \in Nat /\ left[u] \in Nat
    BY <1>2, <1>3
  <2>2. Had(s) = texts[t] + Had(s \ {t})
    BY <2>1, SumRemove
  <2>3. Has(s) = left[t] + Has(s \ {t})
    BY <2>1, SumRemove
  <2> QED BY <2>2, <2>3
<1> HIDE DEF Had, Has
<1>8. ASSUME NEW s \in Bad, \A t \in s : s \ {t} \notin Bad PROVE FALSE
  <2>1. CASE s = {}
    BY <1>6, <2>1
  <2>2. CASE s # {}
    <3>1. PICK n \in {place[t] : t \in s} : \A m \in {place[t] : t \in s} : n <= m
      <4>1. {place[t] : t \in s} \in SUBSET Nat /\ {place[t] : t \in s} # {}
        BY <2>2
      <4> QED BY <4>1, LeastElement
    <3>2. PICK t \in s : n = place[t]
      BY <3>1
    <3>3. Later(t) = s \ {t}
      <4>1. ASSUME NEW u \in s, u # t PROVE place[u] > place[t]
        <5>1. place[t] <= place[u] /\ place[t] # place[u] /\ place[t] \in Nat /\ place[u] \in Nat
          BY <3>1, <3>2, <4>1
        <5> QED BY <5>1
      <4>2. Later(t) \subseteq s /\ t \notin Later(t)
        <5>1. place[t] \in Nat
          BY <3>2
        <5> QED BY <3>2, <5>1
      <4> QED BY <4>1, <4>2
    <3>4. Has(s \ {t}) = Low(Had(s \ {t}), limit)
      <4>1. \A u \in s \ {t} : Later(u) \subseteq s \ {t}
        <5> TAKE u \in s \ {t}
        <5>1. place[u] > place[t]
          BY <3>3
        <5>2. t \notin Later(u)
          <6>1. place[u] \in Nat /\ place[t] \in Nat
            BY <3>2
          <6> QED BY <5>1, <6>1
        <5> QED BY <5>2
      <4> QED BY <1>8, <3>2, <4>1
    <3>5. left[t] = Low(texts[t], Room(Had(s \ {t})))
      BY <1>3, <3>2, <3>3
    <3>6. Had(s) = texts[t] + Had(s \ {t}) /\ Has(s) = left[t] + Has(s \ {t})
      BY <1>7, <3>2
    <3>7. texts[t] \in Nat /\ Had(s \ {t}) \in Nat
      BY <1>2, <3>2
    <3> HIDE DEF Bad
    <3>8. Has(s) = Low(Had(s), limit)
      BY <3>4, <3>5, <3>6, <3>7
    <3> QED BY <3>8 DEF Bad
  <2> QED BY <2>1, <2>2
<1>9. Bad = {}
  <2>1. Bad \in SUBSET (SUBSET K)
    OBVIOUS
  <2> HIDE DEF Bad
  <2> QED BY <2>1, <1>8, LeastSubset
<1>10. Has(K) = Low(Had(K), limit) /\ Had(K) \in Nat
  BY <1>2, <1>9
<1>11. Bytes(left) = Has(K) /\ Bytes(texts) = Had(K)
  BY <1>4 DEF Bytes, Has, Had
<1>12. Bytes(left) <= limit /\ Bytes(left) <= Bytes(texts) /\ Bytes(left) \in Nat /\ Bytes(texts) \in Nat
  BY <1>10, <1>11
<1>13. \A t \in K : left[t] <= texts[t]
  BY <1>3
<1> HIDE DEF Low, Room, Later, Bad
<1> QED BY <1>4, <1>12, <1>13 DEF left

(***************************************************************************)
(* One session                                                             *)
(***************************************************************************)

\* What a session keeps, and of what
Captured(x) ==
    /\ x = [at |-> x.at, events |-> x.events, next |-> x.next, dropped |-> x.dropped]
    /\ x.next \in Nat \ {0} /\ x.dropped \in Nat
    /\ x.events \in [DOMAIN x.events -> Nat] /\ DOMAIN x.events \subseteq 1..(x.next - 1)

LEMMA EventsFinite ==
    ASSUME NEW x, Captured(x)
    PROVE  IsFiniteSet(DOMAIN x.events) /\ Bytes(x.events) \in Nat /\ \A c : After(x.events, c) \in Nat
<1>1. 1 \in Int /\ x.next - 1 \in Int
  BY DEF Captured
<1>2. IsFiniteSet(DOMAIN x.events)
  BY <1>1, FS_Interval, FS_Subset DEF Captured
<1>3. \A s \in SUBSET DOMAIN x.events : SumFunctionOnSet(x.events, s) \in Nat
  BY <1>2, FS_Subset, SumType DEF Captured
<1>4. \A c : {d \in DOMAIN x.events : d > c} \in SUBSET DOMAIN x.events
  OBVIOUS
<1> QED BY <1>2, <1>3, <1>4 DEF Bytes, After

\* #trimSession
LEMMA TrimmedFits ==
    ASSUME NEW x, Captured(x), NEW limit \in Nat
    PROVE  LET y == Output!Trimmed(x, limit)
           IN /\ Captured(y) /\ y.at = x.at /\ y.next = x.next
              /\ Bytes(y.events) <= limit /\ Bytes(y.events) <= Bytes(x.events)
              /\ Bytes(y.events) + y.dropped = Bytes(x.events) + x.dropped
              /\ \A c \in Nat : After(y.events, c) + y.dropped >= After(x.events, c) + x.dropped
<1> DEFINE y == Output!Trimmed(x, limit)
           K == DOMAIN x.events
           here == [c \in K |-> c]
           left == Output!Kept(x.events, here, limit)
           some == {c \in K : left[c] > 0}
           cut == [c \in some |-> left[c]]
<1>1. IsFiniteSet(K) /\ Bytes(x.events) \in Nat /\ x.events \in [K -> Nat] /\ K \subseteq 1..(x.next - 1)
      /\ \A c : After(x.events, c) \in Nat
  BY EventsFinite DEF Captured
<1>2. here \in [K -> Nat] /\ \A t, u \in K : here[t] = here[u] => t = u
  <2>1. \A c \in K : c \in Nat
    BY <1>1
  <2> QED BY <2>1
<1>3. /\ left \in [K -> Nat] /\ \A t \in K : left[t] <= x.events[t]
      /\ Bytes(left) <= limit /\ Bytes(left) <= Bytes(x.events) /\ Bytes(left) \in Nat
  <2> HIDE DEF here
  <2> QED BY <1>1, <1>2, KeptFits
<1>4. y = [x EXCEPT !.events = cut, !.dropped = @ + Bytes(x.events) - Bytes(cut)]
  <2>1. DOMAIN left = K
    BY <1>3
  <2> QED BY <2>1, OutputBytes DEF Output!Trimmed
<1> HIDE DEF left, here, y
<1>5. cut \in [some -> Nat] /\ some \in SUBSET K /\ \A c \in some : cut[c] = left[c]
  BY <1>3
<1>6. IsFiniteSet(some) /\ DOMAIN cut = some
  BY <1>1, <1>5, FS_Subset
<1>7. ASSUME NEW T \in SUBSET K
      PROVE  /\ SumFunctionOnSet(cut, T \cap some) = SumFunctionOnSet(left, T)
             /\ SumFunctionOnSet(left, T) \in Nat /\ SumFunctionOnSet(x.events, T) \in Nat
             /\ SumFunctionOnSet(left, T) <= SumFunctionOnSet(x.events, T)
  <2>1. IsFiniteSet(T) /\ IsFiniteSet(T \cap some) /\ IsFiniteSet(T \ some) /\ T \cap some \in SUBSET T
    BY <1>1, FS_Subset
  <2>2. \A c \in T : left[c] \in Nat /\ x.events[c] \in Nat /\ left[c] <= x.events[c]
    BY <1>1, <1>3
  <2>3. SumFunctionOnSet(left, T) = SumFunctionOnSet(left, T \cap some) + SumFunctionOnSet(left, T \ (T \cap some))
    BY <2>1, <2>2, SumSplit
  <2>4. SumFunctionOnSet(left, T \ (T \cap some)) = 0
    <3>1. \A c \in T \ (T \cap some) : left[c] = 0
      BY <2>2
    <3>2. T \ (T \cap some) = T \ some
      OBVIOUS
    <3> QED BY <2>1, <3>1, <3>2, SumOfZeros
  <2>5. SumFunctionOnSet(cut, T \cap some) = SumFunctionOnSet(left, T \cap some)
    <3>1. \A c \in T \cap some : cut[c] = left[c]
      BY <1>5
    <3> HIDE DEF cut, some
    <3> QED BY <2>1, <3>1, SumCongruence
  <2>6. SumFunctionOnSet(left, T) \in Nat /\ SumFunctionOnSet(x.events, T) \in Nat
        /\ SumFunctionOnSet(left, T \cap some) \in Nat
    BY <2>1, <2>2, SumType
  <2>7. SumFunctionOnSet(left, T) <= SumFunctionOnSet(x.events, T)
    BY <2>1, <2>2, SumMonotone
  <2> QED BY <2>3, <2>4, <2>5, <2>6, <2>7
<1>8. Bytes(cut) = Bytes(left)
  <2>1. K \cap some = some /\ DOMAIN left = K
    BY <1>3, <1>5
  <2> QED BY <1>6, <1>7, <2>1 DEF Bytes
<1>9. ASSUME NEW c \in Nat
      PROVE  /\ After(cut, c) \in Nat /\ After(x.events, c) \in Nat
             /\ After(x.events, c) - After(cut, c) <= Bytes(x.events) - Bytes(cut)
  <2> DEFINE T == {d \in K : d > c}
  <2>1. T \in SUBSET K /\ K \ T \in SUBSET K /\ {d \in some : d > c} = T \cap some
    BY <1>5
  <2>2. After(cut, c) = SumFunctionOnSet(left, T) /\ After(x.events, c) = SumFunctionOnSet(x.events, T)
    BY <1>6, <1>7, <2>1 DEF After
  <2>3. Bytes(left) = SumFunctionOnSet(left, T) + SumFunctionOnSet(left, K \ T)
    <3>1. DOMAIN left = K /\ \A d \in K : left[d] \in Nat
      BY <1>3
    <3> QED BY <1>1, <2>1, <3>1, SumSplit DEF Bytes
  <2>4. Bytes(x.events) = SumFunctionOnSet(x.events, T) + SumFunctionOnSet(x.events, K \ T)
    <3>1. \A d \in K : x.events[d] \in Nat
      BY <1>1
    <3> QED BY <1>1, <2>1, <3>1, SumSplit DEF Bytes
  <2>5. /\ SumFunctionOnSet(left, T) \in Nat /\ SumFunctionOnSet(x.events, T) \in Nat
        /\ SumFunctionOnSet(left, K \ T) \in Nat /\ SumFunctionOnSet(x.events, K \ T) \in Nat
        /\ SumFunctionOnSet(left, K \ T) <= SumFunctionOnSet(x.events, K \ T)
    BY <1>7, <2>1
  <2> HIDE DEF T, cut
  <2> QED BY <1>8, <2>2, <2>3, <2>4, <2>5
<1> HIDE DEF cut
<1>10. /\ y = [at |-> x.at, events |-> cut, next |-> x.next, dropped |-> x.dropped + Bytes(x.events) - Bytes(cut)]
       /\ x.dropped \in Nat /\ x.next \in Nat \ {0}
  BY <1>4 DEF Captured
<1>11. y.at = x.at /\ y.events = cut /\ y.next = x.next /\ y.dropped = x.dropped + Bytes(x.events) - Bytes(cut)
  BY <1>10
<1>12. y.dropped \in Nat /\ Bytes(cut) \in Nat
  BY <1>1, <1>3, <1>8, <1>10, <1>11
<1>13. Captured(y)
  BY <1>1, <1>5, <1>6, <1>10, <1>11, <1>12 DEF Captured
<1>14. ASSUME NEW c \in Nat PROVE After(y.events, c) + y.dropped >= After(x.events, c) + x.dropped
  BY <1>1, <1>9, <1>10, <1>11, <1>12
<1> QED BY <1>1, <1>3, <1>8, <1>10, <1>11, <1>12, <1>13, <1>14 DEF y

\* append: one more event, after the others
LEMMA ExtendedBy ==
    ASSUME NEW x, Captured(x), NEW n \in Nat
    PROVE  LET y == [x EXCEPT !.next = x.next + 1,
                        !.events = [c \in DOMAIN x.events \cup {x.next} |-> IF c = x.next THEN n ELSE x.events[c]]]
           IN /\ Captured(y) /\ y.at = x.at /\ y.next = x.next + 1 /\ y.dropped = x.dropped
              /\ Bytes(y.events) = Bytes(x.events) + n
              /\ \A c \in Nat : c < x.next => After(y.events, c) = After(x.events, c) + n
<1> DEFINE K == DOMAIN x.events
           k == x.next
           more == [c \in K \cup {k} |-> IF c = k THEN n ELSE x.events[c]]
           y == [x EXCEPT !.next = x.next + 1, !.events = more]
<1>1. /\ IsFiniteSet(K) /\ x.events \in [K -> Nat] /\ K \subseteq 1..(k - 1) /\ k \in Nat \ {0}
      /\ x.dropped \in Nat /\ Bytes(x.events) \in Nat
      /\ x = [at |-> x.at, events |-> x.events, next |-> x.next, dropped |-> x.dropped]
  BY EventsFinite DEF Captured
<1>2. k \notin K /\ IsFiniteSet(K \cup {k})
  <2>1. k \notin 1..(k - 1)
    BY <1>1
  <2> QED BY <1>1, <2>1, FS_AddElement
<1>3. DOMAIN more = K \cup {k} /\ more[k] = n /\ (\A c \in K : more[c] = x.events[c]) /\ more \in [K \cup {k} -> Nat]
  BY <1>1, <1>2
<1> HIDE DEF more
<1>0. y = [x EXCEPT !.next = x.next + 1, !.events = more]
  OBVIOUS
<1> HIDE DEF y
<1>4. y = [at |-> x.at, events |-> more, next |-> x.next + 1, dropped |-> x.dropped]
  BY <1>0 DEF Captured
<1>5. y.at = x.at /\ y.events = more /\ y.next = x.next + 1 /\ y.dropped = x.dropped
  BY <1>4
<1>6. Captured(y)
  <2>1. K \cup {k} \subseteq 1..((k + 1) - 1) /\ k + 1 \in Nat \ {0}
    BY <1>1
  <2> HIDE DEF K, k
  <2>2. y.next = k + 1 /\ x.dropped \in Nat
    BY <1>1, <1>5 DEF k
  <2> QED BY <1>3, <1>4, <1>5, <2>1, <2>2 DEF Captured
<1>7. ASSUME NEW T \in SUBSET K
      PROVE  SumFunctionOnSet(more, T \cup {k}) = SumFunctionOnSet(x.events, T) + n
  <2>1. IsFiniteSet(T) /\ IsFiniteSet(T \cup {k}) /\ (T \cup {k}) \ {k} = T
    BY <1>1, <1>2, FS_Subset, FS_AddElement
  <2>2. \A c \in T \cup {k} : more[c] \in Nat
    BY <1>3
  <2>3. SumFunctionOnSet(more, T \cup {k}) = more[k] + SumFunctionOnSet(more, T)
    BY <2>1, <2>2, SumRemove
  <2>4. SumFunctionOnSet(more, T) = SumFunctionOnSet(x.events, T)
    <3>1. \A c \in T : more[c] = x.events[c]
      BY <1>3
    <3> QED BY <2>1, <3>1, SumCongruence
  <2>5. SumFunctionOnSet(x.events, T) \in Nat
    <3>1. \A c \in T : x.events[c] \in Nat
      BY <1>1
    <3> QED BY <2>1, <3>1, SumType
  <2> QED BY <1>3, <2>3, <2>4, <2>5
<1>8. Bytes(more) = Bytes(x.events) + n
  BY <1>3, <1>7 DEF Bytes
<1>9. ASSUME NEW c \in Nat, c < x.next
      PROVE  After(more, c) = After(x.events, c) + n
  <2> DEFINE T == {d \in K : d > c}
  <2>1. T \in SUBSET K
    OBVIOUS
  <2>2. {d \in K \cup {k} : d > c} = T \cup {k}
    BY <1>1, <1>9
  <2>3. SumFunctionOnSet(more, T \cup {k}) = SumFunctionOnSet(x.events, T) + n
    BY <1>7, <2>1
  <2> QED BY <1>3, <2>2, <2>3 DEF After
<1>10. \A c \in Nat : c < x.next => After(y.events, c) = After(x.events, c) + n
  BY <1>5, <1>9
<1> QED BY <1>5, <1>6, <1>8, <1>10 DEF y, more

\* read: a page is what is kept between two cursors.
LEMMA PageIsNext ==
    ASSUME NEW x, Captured(x), NEW c \in Nat, Output!Page(x.events, c) # {}
    PROVE  LET page == Output!Page(x.events, c)
               m == Output!Max(page)
           IN /\ m \in Nat /\ m < x.next
              /\ After(x.events, c) = SumFunctionOnSet(x.events, page) + After(x.events, m)
              /\ SumFunctionOnSet(x.events, page) \in Nat /\ After(x.events, m) \in Nat
<1> DEFINE K == DOMAIN x.events
           rest == {d \in K : d > c}
           page == Output!Page(x.events, c)
           m == Output!Max(page)
           UpTo(d) == {e \in rest : e <= d}
           Had(s) == SumFunctionOnSet(x.events, s)
<1>1. /\ IsFiniteSet(K) /\ x.events \in [K -> Nat] /\ K \subseteq 1..(x.next - 1) /\ x.next \in Nat \ {0}
      /\ \A d : After(x.events, d) \in Nat
  BY EventsFinite DEF Captured
<1>2. \A d \in K : d \in Nat /\ d < x.next
  BY <1>1
<1>3. page = {d \in rest : (\A e \in rest : d <= e) \/ Had(UpTo(d)) <= ReadChars}
  BY OutputSum DEF Output!Page
<1> HIDE DEF page
<1>4. m \in page /\ \A d \in page : d <= m
  <2>1. page \in SUBSET Nat /\ page # {}
    BY <1>2, <1>3 DEF page
  <2>2. \A d \in page : d <= x.next
    BY <1>1, <1>2, <1>3
  <2>3. \E d \in page : \A e \in page : e <= d
    BY <1>1, <2>1, <2>2, GreatestElement
  <2>4. \E d \in page : \A e \in page : d >= e
    BY <2>1, <2>3
  <2>5. m \in page /\ \A d \in page : m >= d
    BY <2>4 DEF Output!Max
  <2> HIDE DEF m
  <2> QED BY <2>1, <2>5
<1> HIDE DEF m
<1>5. m \in rest /\ m \in K /\ m \in Nat /\ m < x.next /\ m > c
  BY <1>2, <1>3, <1>4
<1>6. ASSUME NEW s \in SUBSET K
      PROVE  IsFiniteSet(s) /\ Had(s) \in Nat /\ \A t \in SUBSET s : Had(t) <= Had(s) /\ Had(s) = Had(t) + Had(s \ t)
  <2>1. IsFiniteSet(s) /\ \A d \in s : x.events[d] \in Nat
    BY <1>1, FS_Subset
  <2>2. ASSUME NEW t \in SUBSET s PROVE Had(t) <= Had(s) /\ Had(s) = Had(t) + Had(s \ t)
    BY <2>1, SumOfPart, SumSplit
  <2> QED BY <2>1, <2>2, SumType
<1> HIDE DEF Had
<1>7. page = UpTo(m)
  <2>1. page \subseteq UpTo(m)
    BY <1>3, <1>4
  <2>2. ASSUME NEW d \in rest, d <= m PROVE d \in page
    <3>1. CASE \A e \in rest : m <= e
      <4>1. d = m
        BY <1>2, <1>5, <2>2, <3>1
      <4> QED BY <1>4, <4>1
    <3>2. CASE Had(UpTo(m)) <= ReadChars
      <4>1. UpTo(m) \in SUBSET K /\ UpTo(d) \in SUBSET K /\ UpTo(d) \in SUBSET UpTo(m)
        BY <1>2, <1>5, <2>2
      <4>2. Had(UpTo(d)) <= Had(UpTo(m)) /\ Had(UpTo(d)) \in Nat /\ Had(UpTo(m)) \in Nat
        BY <1>6, <4>1
      <4>3. Had(UpTo(d)) <= ReadChars
        <5> HIDE DEF UpTo
        <5> QED BY <3>2, <4>2, InspectionAssumption DEF InspectionAssumption, Output!OutputAssumption
      <4> QED BY <1>3, <2>2, <4>3
    <3> QED BY <1>3, <1>4, <3>1, <3>2
  <2> QED BY <2>1, <2>2
<1>8. rest \ page = {d \in K : d > m}
  BY <1>2, <1>5, <1>7
<1>9. Had(rest) = Had(page) + Had(rest \ page) /\ Had(page) \in Nat
  <2>1. rest \in SUBSET K /\ page \in SUBSET rest /\ page \in SUBSET K
    BY <1>3
  <2> QED BY <1>6, <2>1
<1> QED BY <1>1, <1>5, <1>8, <1>9 DEF After, Had, m, page

(***************************************************************************)
(* All sessions, and the client                                            *)
(***************************************************************************)

\* All that was appended to a session is kept or counted, and the limits hold.
CapturesInv ==
    /\ capture = [s \in Output!Sessions |-> capture[s]]
    /\ written \in [Output!Sessions -> Nat]
    /\ \A s \in Output!Sessions :
          /\ Captured(capture[s])
          /\ Bytes(capture[s].events) <= SessionBytes
          /\ Bytes(capture[s].events) + capture[s].dropped = written[s]
    /\ SumFunctionOnSet([s \in Output!Sessions |-> Bytes(capture[s].events)], Output!Sessions) <= WindowBytes

\* What the client has not got is counted, or kept after its cursor.
FollowedIn(cs, ws, r) ==
    /\ r.of \in Output!Sessions \cup {Nil} /\ r.cursor \in Nat /\ r.got \in Nat
    /\ r.of = Nil => r.cursor = 0 /\ r.got = 0
    /\ r.of # Nil => /\ r.cursor < cs[r.of].next
                     /\ r.got + cs[r.of].dropped + After(cs[r.of].events, r.cursor) >= ws[r.of]

OutputInv == CapturesInv /\ FollowedIn(capture, written, reader)

LEMMA OutputParts ==
    /\ {SessionBytes, WindowBytes, ReadChars, MaxCaptures, MaxChunk, MaxOutputs} \subseteq Nat
    /\ Output!Sessions = 1..MaxCaptures /\ IsFiniteSet(Output!Sessions) /\ Nil \notin Output!Sessions
<1>1. /\ {SessionBytes, WindowBytes, ReadChars, MaxCaptures, MaxChunk, MaxOutputs} \subseteq Nat
      /\ Nil \notin Nat /\ Output!Sessions = 1..MaxCaptures
  BY InspectionAssumption DEF InspectionAssumption, Output!OutputAssumption, Output!Sessions
<1>2. 1 \in Int /\ MaxCaptures \in Int
  BY <1>1
<1> QED BY SMTT(30), <1>1, <1>2, FS_Interval

LEMMA NothingCaptured ==
    ASSUME NEW a, NEW x, x = [at |-> a, events |-> <<>>, next |-> 1, dropped |-> 0]
    PROVE  Captured(x) /\ x.events = <<>> /\ x.next = 1 /\ x.dropped = 0 /\ Bytes(<<>>) = 0
<1>1. x.events = <<>> /\ x.next = 1 /\ x.dropped = 0
  OBVIOUS
<1>2. DOMAIN <<>> = {} /\ <<>> \in [{} -> Nat]
  OBVIOUS
<1>3. Bytes(<<>>) = 0
  BY <1>2, SumOfNone DEF Bytes
<1>4. Captured(x)
  BY <1>1, <1>2 DEF Captured
<1> QED BY <1>1, <1>3, <1>4

\* Everything about all sessions, when the captures of none of them grow.
LEMMA NoneGrows ==
    ASSUME CapturesInv, NEW cs, cs = [s \in Output!Sessions |-> cs[s]],
           \A s \in Output!Sessions : Captured(cs[s]) /\ Bytes(cs[s].events) <= Bytes(capture[s].events)
    PROVE  SumFunctionOnSet([s \in Output!Sessions |-> Bytes(cs[s].events)], Output!Sessions) <= WindowBytes
<1> DEFINE g == [s \in Output!Sessions |-> Bytes(cs[s].events)]
           h == [s \in Output!Sessions |-> Bytes(capture[s].events)]
<1>1. \A s \in Output!Sessions : g[s] \in Nat /\ h[s] \in Nat /\ g[s] <= h[s]
  BY EventsFinite DEF CapturesInv
<1> HIDE DEF g, h
<1>2. SumFunctionOnSet(g, Output!Sessions) <= SumFunctionOnSet(h, Output!Sessions)
  BY <1>1, OutputParts, SumMonotone
<1>3. SumFunctionOnSet(g, Output!Sessions) \in Nat /\ SumFunctionOnSet(h, Output!Sessions) \in Nat
  BY <1>1, OutputParts, SumType
<1>4. SumFunctionOnSet(h, Output!Sessions) <= WindowBytes
  BY DEF CapturesInv, h
<1>5. WindowBytes \in Nat
  BY OutputParts
<1> QED BY <1>2, <1>3, <1>4, <1>5 DEF g

LEMMA OutputInit == Output!Init => OutputInv
<1> SUFFICES ASSUME Output!Init PROVE OutputInv
  OBVIOUS
<1> DEFINE none == Output!NoCapture
<1>1. none = [at |-> "none", events |-> <<>>, next |-> 1, dropped |-> 0] /\ none.at = "none"
  BY DEF Output!NoCapture
<1> HIDE DEF none
<1>2. Captured(none) /\ none.events = <<>> /\ none.next = 1 /\ none.dropped = 0 /\ Bytes(<<>>) = 0
  BY <1>1, NothingCaptured
<1>3. /\ capture = [s \in Output!Sessions |-> none] /\ written = [s \in Output!Sessions |-> 0]
      /\ reader = [of |-> Nil, cursor |-> 0, got |-> 0]
  BY DEF Output!Init, none, Output!NoReader
<1>4. \A s \in Output!Sessions : capture[s] = none
  BY <1>3
<1>5. capture = [s \in Output!Sessions |-> capture[s]]
  BY <1>3
<1>6. SumFunctionOnSet([s \in Output!Sessions |-> Bytes(capture[s].events)], Output!Sessions) = 0
  <2> DEFINE g == [s \in Output!Sessions |-> Bytes(capture[s].events)]
  <2>1. \A s \in Output!Sessions : g[s] = 0
    BY <1>2, <1>4
  <2> HIDE DEF g
  <2>2. SumFunctionOnSet(g, Output!Sessions) = 0
    BY <2>1, OutputParts, SumOfZeros
  <2> QED BY <2>2 DEF g
<1>7. \A s \in Output!Sessions : /\ Captured(capture[s]) /\ Bytes(capture[s].events) <= SessionBytes
                                 /\ Bytes(capture[s].events) + capture[s].dropped = written[s]
  BY <1>2, <1>3, <1>4, OutputParts
<1>8. CapturesInv
  BY <1>3, <1>5, <1>6, <1>7, OutputParts DEF CapturesInv
<1>9. FollowedIn(capture, written, reader)
  BY <1>3 DEF FollowedIn
<1> QED BY <1>8, <1>9 DEF OutputInv

\* start, the end of a session, cleanupExpired: one session is what it was, or empty.
LEMMA OnlyCleared ==
    ASSUME OutputInv, NEW s \in Output!Sessions, NEW y,
           capture' = [capture EXCEPT ![s] = y],
           Captured(y),
           \/ y.events = capture[s].events /\ y.next = capture[s].next /\ y.dropped = capture[s].dropped
              /\ written' = written /\ reader' = reader
           \/ Bytes(y.events) = 0 /\ y.dropped = 0 /\ written' = [written EXCEPT ![s] = 0]
              /\ reader' = IF reader.of = s THEN Output!NoReader ELSE reader
    PROVE  OutputInv'
<1>1. /\ capture' = [t \in Output!Sessions |-> capture'[t]] /\ capture'[s] = y
      /\ \A t \in Output!Sessions \ {s} : capture'[t] = capture[t]
  BY DEF OutputInv, CapturesInv
<1>2. /\ written' \in [Output!Sessions -> Nat]
      /\ \A t \in Output!Sessions \ {s} : written'[t] = written[t]
      /\ \/ written'[s] = written[s] /\ y.events = capture[s].events /\ y.dropped = capture[s].dropped
         \/ written'[s] = 0 /\ Bytes(y.events) = 0 /\ y.dropped = 0
  BY DEF OutputInv, CapturesInv
<1>3. \A t \in Output!Sessions : /\ Captured(capture[t]) /\ Bytes(capture[t].events) \in Nat
                                 /\ Bytes(capture[t].events) <= SessionBytes
                                 /\ Bytes(capture[t].events) + capture[t].dropped = written[t]
  BY EventsFinite DEF OutputInv, CapturesInv
<1>4. ASSUME NEW t \in Output!Sessions
      PROVE  /\ Captured(capture'[t]) /\ Bytes(capture'[t].events) <= Bytes(capture[t].events)
             /\ Bytes(capture'[t].events) <= SessionBytes
             /\ Bytes(capture'[t].events) + capture'[t].dropped = written'[t]
  <2>1. CASE t = s
    BY <1>1, <1>2, <1>3, <2>1, OutputParts
  <2>2. CASE t # s
    BY <1>1, <1>2, <1>3, <2>2
  <2> QED BY <2>1, <2>2
<1>5. CapturesInv'
  <2>1. CapturesInv
    BY DEF OutputInv
  <2>2. SumFunctionOnSet([t \in Output!Sessions |-> Bytes(capture'[t].events)], Output!Sessions) <= WindowBytes
    BY <1>1, <1>4, <2>1, NoneGrows
  <2> QED BY <1>1, <1>2, <1>4, <2>2 DEF CapturesInv
<1>6. FollowedIn(capture', written', reader')
  <2>1. CASE reader' = Output!NoReader
    BY <2>1 DEF FollowedIn, Output!NoReader
  <2>2. CASE reader' = reader /\ (reader.of = s => y.events = capture[s].events /\ y.next = capture[s].next
                                                   /\ y.dropped = capture[s].dropped /\ written'[s] = written[s])
    <3>1. FollowedIn(capture, written, reader)
      BY DEF OutputInv
    <3>2. CASE reader.of = s
      BY <1>1, <2>2, <3>1, <3>2 DEF FollowedIn
    <3>3. CASE reader.of # s
      BY <1>1, <1>2, <2>2, <3>1, <3>3 DEF FollowedIn
    <3> QED BY <3>2, <3>3
  <2>3. \/ reader' = Output!NoReader
        \/ reader' = reader /\ (reader.of = s => y.events = capture[s].events /\ y.next = capture[s].next
                                                 /\ y.dropped = capture[s].dropped /\ written'[s] = written[s])
    OBVIOUS
  <2> QED BY <2>1, <2>2, <2>3
<1> QED BY <1>5, <1>6 DEF OutputInv

\* append, with both limits
LEMMA AppendAccounts ==
    ASSUME OutputInv, NEW s \in Output!Sessions, NEW n \in 1..MaxChunk, Output!AppendEvent(s, n)
    PROVE  OutputInv'
<1> DEFINE x == [capture[s] EXCEPT !.next = capture[s].next + 1,
                    !.events = [c \in DOMAIN capture[s].events \cup {capture[s].next} |->
                                   IF c = capture[s].next THEN n ELSE capture[s].events[c]]]
           y == Output!Trimmed(x, SessionBytes)
           cs == [capture EXCEPT ![s] = y]
           whole == [t \in Output!Sessions |-> Output!Sum(cs[t].events)]
           place == Output!EndedFirst(cs)
           share == Output!Kept(whole, place, WindowBytes)
<1>1. capture' = [t \in Output!Sessions |-> Output!Trimmed(cs[t], share[t])]
      /\ written' = [written EXCEPT ![s] = @ + n] /\ reader' = reader
  BY DEF Output!AppendEvent, Output!WithinWindow
<1>2. n \in Nat /\ n \in Nat \ {0} /\ SessionBytes \in Nat /\ WindowBytes \in Nat /\ MaxCaptures \in Nat
  BY OutputParts
<1>3. /\ capture = [t \in Output!Sessions |-> capture[t]] /\ written \in [Output!Sessions -> Nat]
      /\ \A t \in Output!Sessions :
            /\ Captured(capture[t]) /\ Bytes(capture[t].events) \in Nat /\ Bytes(capture[t].events) <= SessionBytes
            /\ Bytes(capture[t].events) + capture[t].dropped = written[t]
      /\ FollowedIn(capture, written, reader)
  BY SMTT(30), EventsFinite DEF OutputInv, CapturesInv
<1>4. /\ Captured(x) /\ x.next = capture[s].next + 1 /\ x.dropped = capture[s].dropped
      /\ Bytes(x.events) = Bytes(capture[s].events) + n
      /\ \A c \in Nat : c < capture[s].next => After(x.events, c) = After(capture[s].events, c) + n
  <2>1. Captured(capture[s])
    BY <1>3
  <2> QED BY ZenonT(40), <1>2, <2>1, ExtendedBy
<1> HIDE DEF x
<1>5. /\ Captured(y) /\ y.next = x.next /\ Bytes(y.events) <= SessionBytes
      /\ Bytes(y.events) + y.dropped = Bytes(x.events) + x.dropped
      /\ \A c \in Nat : After(y.events, c) + y.dropped >= After(x.events, c) + x.dropped
  BY <1>2, <1>4, TrimmedFits
<1> HIDE DEF y
<1>6. cs[s] = y /\ \A t \in Output!Sessions \ {s} : cs[t] = capture[t]
  BY <1>3
<1>7. \A t \in Output!Sessions : Captured(cs[t]) /\ Bytes(cs[t].events) \in Nat /\ Bytes(cs[t].events) <= SessionBytes
  <2>1. Bytes(y.events) \in Nat
    BY <1>5, EventsFinite
  <2> QED BY <1>3, <1>5, <1>6, <2>1
<1> HIDE DEF cs
<1>8. whole = [t \in Output!Sessions |-> Bytes(cs[t].events)] /\ whole \in [Output!Sessions -> Nat]
  <2>1. \A t \in Output!Sessions : Output!Sum(cs[t].events) = Bytes(cs[t].events)
    BY OutputBytes
  <2>2. whole = [t \in Output!Sessions |-> Bytes(cs[t].events)]
    BY <2>1
  <2> QED BY <1>7, <2>2
<1>9. place \in [Output!Sessions -> Nat] /\ \A t, u \in Output!Sessions : place[t] = place[u] => t = u
  <2>1. Output!Sessions = 1..MaxCaptures
    BY OutputParts
  <2>2. place = [t \in Output!Sessions |-> IF cs[t].at = "ended" THEN t ELSE MaxCaptures + t]
    BY DEF Output!EndedFirst
  <2> HIDE DEF place
  <2>3. place \in [Output!Sessions -> Nat]
    BY <1>2, <2>1, <2>2
  <2> QED BY <1>2, <2>1, <2>2, <2>3
<1> HIDE DEF whole, place
<1>10. /\ share \in [Output!Sessions -> Nat] /\ (\A t \in Output!Sessions : share[t] <= whole[t])
       /\ Bytes(share) <= WindowBytes /\ Bytes(share) \in Nat
  <2> DEFINE K == Output!Sessions
  <2>1. IsFiniteSet(K) /\ whole \in [K -> Nat] /\ place \in [K -> Nat] /\ WindowBytes \in Nat
        /\ \A t, u \in K : place[t] = place[u] => t = u
    BY <1>2, <1>8, <1>9, OutputParts
  <2> HIDE DEF K
  <2>2. /\ share \in [K -> Nat] /\ (\A t \in K : share[t] <= whole[t])
        /\ Bytes(share) <= WindowBytes /\ Bytes(share) \in Nat
    BY <2>1, KeptFits
  <2> QED BY <2>2 DEF K
<1> HIDE DEF share
<1>11. ASSUME NEW t \in Output!Sessions
       PROVE  /\ Captured(capture'[t]) /\ capture'[t].next = cs[t].next
              /\ Bytes(capture'[t].events) <= share[t] /\ Bytes(capture'[t].events) <= SessionBytes
              /\ Bytes(capture'[t].events) \in Nat
              /\ Bytes(capture'[t].events) + capture'[t].dropped = Bytes(cs[t].events) + cs[t].dropped
              /\ \A c \in Nat : After(capture'[t].events, c) + capture'[t].dropped
                                   >= After(cs[t].events, c) + cs[t].dropped
  <2> DEFINE z == Output!Trimmed(cs[t], share[t])
  <2>1. capture'[t] = z
    BY <1>1
  <2>2. share[t] \in Nat
    BY <1>10
  <2>3. /\ Captured(z) /\ z.next = cs[t].next
        /\ Bytes(z.events) <= share[t] /\ Bytes(z.events) <= Bytes(cs[t].events)
        /\ Bytes(z.events) + z.dropped = Bytes(cs[t].events) + cs[t].dropped
        /\ \A c \in Nat : After(z.events, c) + z.dropped >= After(cs[t].events, c) + cs[t].dropped
    BY <1>7, <2>2, TrimmedFits
  <2> HIDE DEF z
  <2>4. Bytes(z.events) \in Nat
    BY <2>3, EventsFinite
  <2>5. Bytes(z.events) <= SessionBytes
    BY <1>2, <1>7, <2>3, <2>4
  <2> QED BY <2>1, <2>3, <2>4, <2>5
<1>12. SumFunctionOnSet([t \in Output!Sessions |-> Bytes(capture'[t].events)], Output!Sessions) <= WindowBytes
  <2> DEFINE g == [t \in Output!Sessions |-> Bytes(capture'[t].events)]
  <2>1. \A t \in Output!Sessions : g[t] \in Nat /\ share[t] \in Nat /\ g[t] <= share[t]
    BY <1>10, <1>11
  <2> HIDE DEF g
  <2>2. SumFunctionOnSet(g, Output!Sessions) <= SumFunctionOnSet(share, Output!Sessions)
    BY <2>1, OutputParts, SumMonotone
  <2>3. SumFunctionOnSet(g, Output!Sessions) \in Nat
    BY <2>1, OutputParts, SumType
  <2>4. SumFunctionOnSet(share, Output!Sessions) = Bytes(share)
    <3>1. DOMAIN share = Output!Sessions
      BY <1>10
    <3> QED BY <3>1 DEF Bytes
  <2>5. SumFunctionOnSet(g, Output!Sessions) <= WindowBytes
    BY <1>2, <1>10, <2>2, <2>3, <2>4
  <2> QED BY <2>5 DEF g
<1>13. capture' = [t \in Output!Sessions |-> capture'[t]]
  BY <1>1
<1>14. written' \in [Output!Sessions -> Nat] /\ written'[s] = written[s] + n
       /\ \A t \in Output!Sessions \ {s} : written'[t] = written[t]
  BY <1>1, <1>2, <1>3
<1>15. ASSUME NEW t \in Output!Sessions
       PROVE  Bytes(capture'[t].events) + capture'[t].dropped = written'[t]
  <2>1. CASE t = s
    <3>1. Bytes(cs[s].events) + cs[s].dropped = Bytes(x.events) + x.dropped
      BY <1>5, <1>6
    <3>2. capture[s].dropped \in Nat
      BY <1>3 DEF Captured
    <3> QED BY <1>2, <1>3, <1>4, <1>11, <1>14, <2>1, <3>1, <3>2
  <2>2. CASE t # s
    BY <1>3, <1>6, <1>11, <1>14, <2>2
  <2> QED BY <2>1, <2>2
<1>16. CapturesInv'
  BY <1>11, <1>12, <1>13, <1>14, <1>15 DEF CapturesInv
<1>17. FollowedIn(capture', written', reader')
  <2>1. CASE reader.of = Nil
    BY <1>1, <1>3, <2>1 DEF FollowedIn
  <2>2. ASSUME reader.of = s, reader.of # Nil PROVE FollowedIn(capture', written', reader')
    <3> DEFINE c == reader.cursor
    <3>1. c \in Nat /\ c < capture[s].next /\ reader.got \in Nat
          /\ reader.got + capture[s].dropped + After(capture[s].events, c) >= written[s]
      BY <1>3, <2>2 DEF FollowedIn
    <3>2. capture[s].next \in Nat /\ capture[s].dropped \in Nat /\ After(capture[s].events, c) \in Nat
          /\ x.dropped \in Nat /\ y.dropped \in Nat /\ capture'[s].dropped \in Nat /\ written[s] \in Nat
      BY <1>3, <1>4, <1>5, <1>11, EventsFinite DEF Captured
    <3>3. After(x.events, c) \in Nat /\ After(y.events, c) \in Nat /\ After(capture'[s].events, c) \in Nat
      <4>1. Captured(x) /\ Captured(y) /\ Captured(capture'[s])
        BY <1>4, <1>5, <1>11
      <4> QED BY <4>1, EventsFinite
    <3>4. After(x.events, c) = After(capture[s].events, c) + n /\ x.dropped = capture[s].dropped
      BY <1>4, <3>1
    <3>5. After(y.events, c) + y.dropped >= After(x.events, c) + x.dropped
      BY <1>5, <3>1
    <3>6. After(capture'[s].events, c) + capture'[s].dropped >= After(y.events, c) + y.dropped
      BY <1>6, <1>11, <3>1
    <3>7. reader.got + capture'[s].dropped + After(capture'[s].events, c) >= written'[s]
      BY <1>2, <1>14, <3>1, <3>2, <3>3, <3>4, <3>5, <3>6
    <3>8. c < capture'[s].next
      <4>1. capture'[s].next = capture[s].next + 1
        BY <1>4, <1>5, <1>6, <1>11
      <4> QED BY <3>1, <3>2, <4>1
    <3> QED BY <1>1, <1>3, <2>2, <3>1, <3>7, <3>8 DEF FollowedIn
  <2>3. ASSUME reader.of # s, reader.of # Nil PROVE FollowedIn(capture', written', reader')
    <3> DEFINE c == reader.cursor
               t == reader.of
    <3>1. /\ t \in Output!Sessions \ {s} /\ c \in Nat /\ c < capture[t].next /\ reader.got \in Nat
          /\ reader.got + capture[t].dropped + After(capture[t].events, c) >= written[t]
      BY <1>3, <2>3 DEF FollowedIn
    <3>2. /\ After(capture'[t].events, c) + capture'[t].dropped >= After(capture[t].events, c) + capture[t].dropped
          /\ capture'[t].next = capture[t].next /\ written'[t] = written[t]
      BY <1>6, <1>11, <1>14, <3>1
    <3>3. capture[t].dropped \in Nat /\ capture'[t].dropped \in Nat /\ written[t] \in Nat
      BY <1>3, <1>11, <3>1 DEF Captured
    <3>4. After(capture[t].events, c) \in Nat /\ After(capture'[t].events, c) \in Nat
      <4>1. Captured(capture[t]) /\ Captured(capture'[t])
        BY <1>3, <1>11, <3>1
      <4> QED BY <4>1, EventsFinite
    <3>5. reader.got + capture'[t].dropped + After(capture'[t].events, c) >= written'[t]
      BY <3>1, <3>2, <3>3, <3>4
    <3> QED BY ZenonT(40), <1>1, <1>3, <2>3, <3>1, <3>2, <3>5 DEF FollowedIn
  <2> QED BY <2>1, <2>2, <2>3
<1> QED BY ZenonT(40), <1>16, <1>17 DEF OutputInv

LEMMA ReadFollows ==
    ASSUME OutputInv, NEW s \in Output!Sessions, Output!Read(s)
    PROVE  OutputInv'
<1> DEFINE c == reader.cursor
           page == Output!Page(capture[s].events, c)
           m == Output!Max(page)
           got == SumFunctionOnSet(capture[s].events, page)
<1>1. /\ reader.of \in {Nil, s} /\ page # {} /\ capture' = capture /\ written' = written
      /\ reader' = [of |-> s, cursor |-> m, got |-> reader.got + got]
  BY OutputSum DEF Output!Read
<1>2. /\ CapturesInv /\ Captured(capture[s]) /\ Bytes(capture[s].events) \in Nat
      /\ Bytes(capture[s].events) + capture[s].dropped = written[s]
      /\ c \in Nat /\ reader.got \in Nat /\ FollowedIn(capture, written, reader)
  BY EventsFinite DEF OutputInv, CapturesInv, FollowedIn
<1>3. /\ m \in Nat /\ m < capture[s].next /\ got \in Nat /\ After(capture[s].events, m) \in Nat
      /\ After(capture[s].events, c) = got + After(capture[s].events, m)
  BY <1>1, <1>2, PageIsNext
<1> HIDE DEF m, got, page
<1>4. reader.got + capture[s].dropped + After(capture[s].events, c) >= written[s]
  <2>1. CASE reader.of = s
    BY <1>2, <2>1, OutputParts DEF FollowedIn
  <2>2. CASE reader.of = Nil
    <3>1. c = 0 /\ reader.got = 0
      BY <1>2, <2>2 DEF FollowedIn
    <3>2. After(capture[s].events, 0) = Bytes(capture[s].events)
      <4>1. \A d \in DOMAIN capture[s].events : d \in Nat /\ d > 0
        BY <1>2 DEF Captured
      <4>2. {d \in DOMAIN capture[s].events : d > 0} = DOMAIN capture[s].events
        BY <4>1
      <4> QED BY <4>2 DEF After, Bytes
    <3>3. capture[s].dropped \in Nat
      BY <1>2 DEF Captured
    <3> QED BY <1>2, <3>1, <3>2, <3>3
  <2> QED BY <1>1, <2>1, <2>2
<1> HIDE DEF c
<1>5. reader.got + got + capture[s].dropped + After(capture[s].events, m) >= written[s]
  <2>1. capture[s].dropped \in Nat /\ written[s] \in Nat
    BY <1>2 DEF Captured, CapturesInv
  <2> QED BY <1>2, <1>3, <1>4, <2>1
<1>6. CapturesInv'
  BY <1>1, <1>2 DEF CapturesInv
<1>7. FollowedIn(capture, written, reader')
  <2>1. reader'.of = s /\ reader'.cursor = m /\ reader'.got = reader.got + got /\ s # Nil
    BY <1>1, OutputParts
  <2>2. reader.got + got \in Nat
    BY <1>2, <1>3
  <2> QED BY <1>3, <1>5, <2>1, <2>2 DEF FollowedIn
<1> QED BY <1>1, <1>6, <1>7 DEF OutputInv

LEMMA OutputStep == OutputInv /\ [Output!Next]_outputVars => OutputInv'
<1> SUFFICES ASSUME OutputInv, [Output!Next]_outputVars PROVE OutputInv'
  OBVIOUS
<1>1. CASE UNCHANGED outputVars
  BY <1>1 DEF outputVars, OutputInv, CapturesInv
<1>2. ASSUME NEW s \in Output!Sessions, Output!Start(s) PROVE OutputInv'
  <2> DEFINE y == [capture[s] EXCEPT !.at = "live"]
  <2>1. Captured(capture[s])
    BY DEF OutputInv, CapturesInv
  <2>2. y = [at |-> "live", events |-> capture[s].events, next |-> capture[s].next, dropped |-> capture[s].dropped]
    BY <2>1 DEF Captured
  <2>3. capture' = [capture EXCEPT ![s] = y] /\ written' = written /\ reader' = reader
    BY <1>2 DEF Output!Start
  <2> HIDE DEF y
  <2>4. Captured(y) /\ y.events = capture[s].events /\ y.next = capture[s].next /\ y.dropped = capture[s].dropped
    BY <2>1, <2>2 DEF Captured
  <2> QED BY <2>3, <2>4, OnlyCleared
<1>3. ASSUME NEW s \in Output!Sessions, Output!Finish(s) PROVE OutputInv'
  <2> DEFINE y == [capture[s] EXCEPT !.at = "ended"]
  <2>1. Captured(capture[s])
    BY DEF OutputInv, CapturesInv
  <2>2. y = [at |-> "ended", events |-> capture[s].events, next |-> capture[s].next, dropped |-> capture[s].dropped]
    BY <2>1 DEF Captured
  <2>3. capture' = [capture EXCEPT ![s] = y] /\ written' = written /\ reader' = reader
    BY <1>3 DEF Output!Finish
  <2> HIDE DEF y
  <2>4. Captured(y) /\ y.events = capture[s].events /\ y.next = capture[s].next /\ y.dropped = capture[s].dropped
    BY <2>1, <2>2 DEF Captured
  <2> QED BY <2>3, <2>4, OnlyCleared
<1>4. ASSUME NEW s \in Output!Sessions, Output!Expire(s) PROVE OutputInv'
  <2> DEFINE y == [Output!NoCapture EXCEPT !.at = "expired"]
  <2>1. y = [at |-> "expired", events |-> <<>>, next |-> 1, dropped |-> 0]
    BY DEF Output!NoCapture
  <2>2. /\ capture' = [capture EXCEPT ![s] = y] /\ written' = [written EXCEPT ![s] = 0]
        /\ reader' = IF reader.of = s THEN Output!NoReader ELSE reader
    BY <1>4 DEF Output!Expire
  <2> HIDE DEF y
  <2>3. Captured(y) /\ y.events = <<>> /\ y.dropped = 0 /\ Bytes(<<>>) = 0
    BY <2>1, NothingCaptured
  <2> QED BY <2>2, <2>3, OnlyCleared
<1>5. ASSUME NEW s \in Output!Sessions, NEW n \in 1..MaxChunk, Output!AppendEvent(s, n) PROVE OutputInv'
  BY <1>5, AppendAccounts
<1>6. ASSUME NEW s \in Output!Sessions, Output!Read(s) PROVE OutputInv'
  BY <1>6, ReadFollows
<1> QED BY <1>1, <1>2, <1>3, <1>4, <1>5, <1>6 DEF Output!Next

\* #trimSession, #enforceWindowLimit, read: whatever is appended to the sessions, however they
\* end and expire, and wherever the client reads, the limits hold, droppedCharacters is
\* exact, and who has read to the end has all that is not counted there.
THEOREM OutputIsAccounted == Output!Spec => []OutputAccounted
<1>1. OutputInv => OutputAccounted
  <2> SUFFICES ASSUME OutputInv PROVE OutputAccounted
    OBVIOUS
  <2>1. \A s \in Output!Sessions : Output!Bytes(s) = Bytes(capture[s].events)
    BY OutputBytes DEF Output!Bytes
  <2>2. [s \in Output!Sessions |-> Output!Bytes(s)] = [s \in Output!Sessions |-> Bytes(capture[s].events)]
    BY <2>1
  <2>3. Output!SumFunctionOnSet([s \in Output!Sessions |-> Output!Bytes(s)], Output!Sessions) <= WindowBytes
    BY <2>2, OutputSum DEF OutputInv, CapturesInv
  <2>4. ASSUME reader.of # Nil, reader.cursor = capture[reader.of].next - 1
        PROVE  reader.got + capture[reader.of].dropped >= written[reader.of]
    <3> DEFINE s == reader.of
    <3>1. /\ s \in Output!Sessions /\ Captured(capture[s]) /\ reader.got \in Nat
          /\ reader.got + capture[s].dropped + After(capture[s].events, reader.cursor) >= written[s]
      BY <2>4 DEF OutputInv, CapturesInv, FollowedIn
    <3>2. {d \in DOMAIN capture[s].events : d > reader.cursor} = {}
      <4>1. capture[s].next \in Nat /\ DOMAIN capture[s].events \subseteq 1..(capture[s].next - 1)
        BY <3>1 DEF Captured
      <4> QED BY <2>4, <4>1
    <3>3. After(capture[s].events, reader.cursor) = 0 /\ capture[s].dropped \in Nat
      BY <3>1, <3>2, SumOfNone DEF After, Captured
    <3> QED BY <3>1, <3>3
  <2>5. \A s \in Output!Sessions : Output!Bytes(s) <= SessionBytes /\ Output!Bytes(s) + capture[s].dropped = written[s]
    BY <2>1 DEF OutputInv, CapturesInv
  <2> QED BY <2>3, <2>4, <2>5 DEF OutputAccounted, Output!OutputAccounted
<1>2. Output!Spec => Output!Init /\ [][Output!Next]_outputVars
  BY DEF Output!Spec, Output!vars, outputVars
<1> QED BY <1>1, <1>2, OutputInit, OutputStep, PTL

=============================================================================
