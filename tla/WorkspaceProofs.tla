---------------------------- MODULE WorkspaceProofs ----------------------------
(***************************************************************************)
(* Proofs about the parts that MCWorkspace has instances of, for all       *)
(* values of its constants: the configuration of a workspace, a query of   *)
(* the Marketplace, the runs of tasks, the installation of extensions,     *)
(* the changes of the global profile and the files of usage events, each   *)
(* with an inductive invariant of its own; and the algorithms, each for    *)
(* inputs of any size.                                                     *)
(***************************************************************************)
EXTENDS MCWorkspace, DataTheorems, TLAPS

-----------------------------------------------------------------------------
(* WorkflowConfiguration.  What is remembered of a definition is true      *)
(* because a call remembers the content it wrote, and that differs from    *)
(* the one it was made for in one entry; Prepared says both of every call  *)
(* under way, and Permitted that the entry it replaces is not the user's.  *)

CallType == [at : {"idle", "asked", "looked", "loaded", "written", "over"},
             file : Files, name : Names \cup {Nil}, expected : Hashes,
             replace : BOOLEAN, next : Hashes]

\* A call that is under way has a name, and what it holds is one entry away from the
\* content it was made for.
Prepared(c) ==
    /\ call[c].at \in {"asked", "looked", "loaded", "written"} => call[c].name \in Names
    /\ call[c].at \in {"loaded", "written"}
         => call[c].next = With(call[c].expected, call[c].name, c)

\* A definition that a call may replace, or has decided to, is not the user's.
Permitted(c) ==
    call[c].file = "definitions" =>
      /\ call[c].at = "looked" /\ call[c].replace => call[c].expected.entry[call[c].name] # User
      /\ call[c].at \in {"loaded", "written"} => call[c].expected.entry[call[c].name] # User

IInv ==
    /\ TypeOK
    /\ \A c \in Calls : Prepared(c) /\ Permitted(c)
    /\ ProvenanceTrue

LEMMA TypeOKIs ==
    TypeOK <=> /\ file \in [Files -> Hashes]
               /\ provenance \in [Names -> [hash : Hashes, by : Calls \cup {Nil}]]
               /\ call \in [Calls -> CallType]
               /\ \A c \in Calls : call[c].at \notin {"idle", "over"} => call[c].name \in Names
               /\ edits \in 0..MaxEdits /\ reloads \in 0..MaxReloads
  BY DEF TypeOK, CallType

LEMMA WithType ==
    ASSUME NEW content \in Hashes, NEW n \in Names, NEW author \in Authors \cup {Nil}
    PROVE  /\ With(content, n, author) \in Hashes
           /\ With(content, n, author).entry[n] = author
           /\ \A m \in Names \ {n} : With(content, n, author).entry[m] = content.entry[m]
  BY DEF With, Hashes, Entries

LEMMA NewCallType == NewCall \in CallType /\ Absent \in Hashes
  BY DEF NewCall, CallType, Absent, Hashes, Entries, Files

\* The initial state, and the steps of the calls.
LEMMA InitIInv == Init => IInv
<1> SUFFICES ASSUME Init PROVE IInv
  OBVIOUS
<1>1. TypeOK
  <2>1. 0 \in 0..MaxEdits /\ 0 \in 0..MaxReloads
    BY ConfigurationAssumption
  <2>2. call \in [Calls -> CallType]
    BY NewCallType DEF Init
  <2>3. \A c \in Calls : call[c].at = "idle"
    BY DEF Init, NewCall
  <2>4. NoEntry \in [hash : Hashes, by : Calls \cup {Nil}]
    BY NewCallType DEF NoEntry
  <2>5. provenance \in [Names -> [hash : Hashes, by : Calls \cup {Nil}]]
    BY <2>4 DEF Init
  <2>6. file \in [Files -> Hashes]
    BY NewCallType DEF Init
  <2>7. \A c \in Calls : call[c].at \notin {"idle", "over"} => call[c].name \in Names
    BY <2>3
  <2> QED BY <2>1, <2>2, <2>5, <2>6, <2>7, TypeOKIs DEF Init
<1>2. \A c \in Calls : Prepared(c) /\ Permitted(c)
  BY DEF Init, NewCall, Prepared, Permitted
<1>3. ProvenanceTrue
  BY DEF Init, NoEntry, ProvenanceTrue
<1> QED BY <1>1, <1>2, <1>3 DEF IInv

\* A step of one call leaves the others as they are.
LEMMA OthersKeep ==
    ASSUME IInv, NEW c \in Calls, NEW r \in CallType, call' = [call EXCEPT ![c] = r]
    PROVE  /\ call' \in [Calls -> CallType]
           /\ \A d \in Calls \ {c} : call'[d] = call[d] /\ Prepared(d)' /\ Permitted(d)'
           /\ call'[c] = r
  BY TypeOKIs DEF IInv, Prepared, Permitted

LEMMA NextIInv == IInv /\ [Next]_vars => IInv'
<1> SUFFICES ASSUME IInv, [Next]_vars PROVE IInv'
  OBVIOUS
<1> USE DEF IInv
<1>a. \A c \in Calls : call[c] \in CallType
  BY TypeOKIs
<1>1. ASSUME NEW c \in Calls, NEW f \in Files, NEW n \in Names, Ask(c, f, n) PROVE IInv'
  <2> DEFINE r == [NewCall EXCEPT !.at = "asked", !.file = f, !.name = n, !.expected = file[f]]
  <2>1. r \in CallType /\ r.at = "asked" /\ r.name = n
    BY NewCallType, TypeOKIs DEF NewCall, CallType
  <2>2. call' = [call EXCEPT ![c] = r] /\ UNCHANGED <<file, provenance, edits, reloads>>
    BY <1>1 DEF Ask
  <2> HIDE DEF r
  <2>3. Prepared(c)' /\ Permitted(c)'
    BY <2>1, <2>2, OthersKeep DEF Prepared, Permitted
  <2>4. TypeOK'
    BY <2>1, <2>2, OthersKeep, TypeOKIs DEF TypeOK, CallType
  <2>5. ProvenanceTrue'
    BY <2>2 DEF ProvenanceTrue
  <2> QED BY <2>1, <2>2, <2>3, <2>4, <2>5, OthersKeep
<1>2. ASSUME NEW c \in Calls, LookUp(c) PROVE IInv'
  <2> DEFINE ok == call[c].file = "settings" \/ Replaceable(call[c].name, call[c].expected)
             r == [call[c] EXCEPT !.at = "looked", !.replace = ok]
  <2>0. call[c].at = "asked" /\ call[c].name \in Names
    BY <1>2 DEF LookUp, Prepared
  <2>1. /\ r \in CallType /\ r.at = "looked" /\ r.replace = ok
        /\ r.name = call[c].name /\ r.expected = call[c].expected /\ r.file = call[c].file
    BY <1>a DEF CallType
  <2>2. call' = [call EXCEPT ![c] = r] /\ UNCHANGED <<file, provenance, edits, reloads>>
    BY <1>2, <1>a DEF LookUp, CallType
  <2>6. call[c].file = "definitions" /\ ok => call[c].expected.entry[call[c].name] # User
    BY SMTT(30), <2>0, ConfigurationAssumption, TypeOKIs DEF Replaceable, ProvenanceTrue
  <2> HIDE DEF r, ok
  <2>3. Prepared(c)' /\ Permitted(c)'
    BY <2>0, <2>1, <2>2, <2>6, OthersKeep DEF Prepared, Permitted
  <2>4. TypeOK'
    BY <2>0, <2>1, <2>2, OthersKeep, TypeOKIs DEF TypeOK, CallType
  <2>5. ProvenanceTrue'
    BY <2>2 DEF ProvenanceTrue
  <2> QED BY <2>1, <2>2, <2>3, <2>4, <2>5, OthersKeep
<1>3. ASSUME NEW c \in Calls, Load(c) PROVE IInv'
  <2> DEFINE new == With(file[call[c].file], call[c].name, c)
             r == [call[c] EXCEPT !.at = "loaded", !.next = new]
  <2>0. /\ call[c].at = "looked" /\ call[c].name \in Names
        /\ file[call[c].file] = call[c].expected
    BY <1>3 DEF Load, Prepared
  <2>7. new \in Hashes
    BY <2>0, <1>a, WithType DEF CallType, Authors
  <2> HIDE DEF new
  <2>1. /\ r \in CallType /\ r.at = "loaded" /\ r.next = new
        /\ r.name = call[c].name /\ r.expected = call[c].expected /\ r.file = call[c].file
    BY <1>a, <2>7 DEF CallType
  <2>2. call' = [call EXCEPT ![c] = r] /\ UNCHANGED <<file, provenance, edits, reloads>>
    BY <1>3, <1>a DEF Load, CallType, new
  <2>6. call[c].file = "definitions" => call[c].expected.entry[call[c].name] # User
    BY SMTT(30), <1>3, <2>0, ConfigurationAssumption DEF Load, Conflict, Permitted
  <2> HIDE DEF r
  <2>3. Prepared(c)' /\ Permitted(c)'
    BY <2>0, <2>1, <2>2, <2>6, OthersKeep DEF Prepared, Permitted, new
  <2>4. TypeOK'
    BY <2>0, <2>1, <2>2, OthersKeep, TypeOKIs DEF TypeOK, CallType
  <2>5. ProvenanceTrue'
    BY <2>2 DEF ProvenanceTrue
  <2> QED BY <2>1, <2>2, <2>3, <2>4, <2>5, OthersKeep
<1>4. ASSUME NEW c \in Calls, Over(c), UNCHANGED <<file, edits, reloads>>,
             ProvenanceTrue', provenance' \in [Names -> [hash : Hashes, by : Calls \cup {Nil}]]
      PROVE  IInv'
  <2> DEFINE r == [call[c] EXCEPT !.at = "over"]
  <2>1. r \in CallType /\ r.at = "over"
    BY <1>a DEF CallType
  <2>2. call' = [call EXCEPT ![c] = r]
    BY SMTT(30), <1>4, <1>a DEF Over, CallType
  <2> HIDE DEF r
  <2>3. Prepared(c)' /\ Permitted(c)'
    BY <2>1, <2>2, OthersKeep DEF Prepared, Permitted
  <2>4. TypeOK'
    BY <1>4, <2>1, <2>2, OthersKeep, TypeOKIs DEF TypeOK, CallType
  <2> QED BY <1>4, <2>1, <2>2, <2>3, <2>4, OthersKeep
<1>5. ASSUME NEW c \in Calls, Refuse(c) \/ WriteFails(c) PROVE IInv'
  BY <1>4, <1>5, TypeOKIs DEF Refuse, WriteFails, ProvenanceTrue
<1>6. ASSUME NEW c \in Calls, Record(c) PROVE IInv'
  <2>1. /\ call[c].name \in Names
        /\ call[c].next = With(call[c].expected, call[c].name, c)
        /\ call[c].next \in Hashes /\ call[c].expected \in Hashes
    BY <1>6, <1>a DEF Record, Prepared, CallType
  <2>2. call[c].next.entry[call[c].name] = c
          /\ \A m \in Names \ {call[c].name} : call[c].next.entry[m] = call[c].expected.entry[m]
    BY <2>1, WithType DEF Authors
  <2>3. ProvenanceTrue'
    <3> SUFFICES ASSUME NEW n \in Names, provenance'[n].by # Nil
                 PROVE  provenance'[n].hash.entry[n] = provenance'[n].by
      BY DEF ProvenanceTrue
    <3>1. CASE n = call[c].name
      BY <1>6, <2>2, <3>1 DEF Record
    <3>2. CASE n # call[c].name /\ provenance[n].by # Nil /\ provenance[n].hash = call[c].expected
      <4>1. provenance'[n] = [provenance[n] EXCEPT !.hash = call[c].next]
        BY <1>6, <3>2 DEF Record, Rebased
      <4>2. provenance'[n].hash = call[c].next /\ provenance'[n].by = provenance[n].by
        BY <4>1, TypeOKIs
      <4> QED BY <2>2, <3>2, <4>2 DEF ProvenanceTrue
    <3>3. CASE n # call[c].name /\ ~(provenance[n].by # Nil /\ provenance[n].hash = call[c].expected)
      BY <1>6, <3>3 DEF Record, Rebased, ProvenanceTrue
    <3> QED BY <3>1, <3>2, <3>3
  <2>4. provenance' \in [Names -> [hash : Hashes, by : Calls \cup {Nil}]]
    <3>1. \A n \in Names : Rebased(c, n) \in [hash : Hashes, by : Calls \cup {Nil}]
      BY <2>1, TypeOKIs DEF Rebased
    <3> QED BY <1>6, <2>1, <3>1 DEF Record
  <2> QED BY <1>4, <1>6, <2>3, <2>4 DEF Record
<1>7. ASSUME NEW c \in Calls, Write(c) PROVE IInv'
  <2> DEFINE then == IF call[c].file = "settings" THEN "over" ELSE "written"
             r == [call[c] EXCEPT !.at = then]
  <2>0. call[c].at = "loaded" /\ call[c].name \in Names /\ call[c].next \in Hashes
    BY <1>7, <1>a DEF Write, Prepared, CallType
  <2>1. /\ r \in CallType /\ r.at = then /\ r.next = call[c].next
        /\ r.name = call[c].name /\ r.expected = call[c].expected /\ r.file = call[c].file
    BY <1>a DEF CallType
  <2>2. call' = [call EXCEPT ![c] = r] /\ UNCHANGED <<provenance, edits, reloads>>
    BY <1>7, <1>a DEF Write, CallType
  <2>6. then \in {"over", "written"}
    BY SMTT(30)
  <2> HIDE DEF r, then
  <2>3. Prepared(c)' /\ Permitted(c)'
    BY <2>0, <2>1, <2>2, <2>6, OthersKeep DEF Prepared, Permitted
  <2>4. file' \in [Files -> Hashes]
    BY <1>7, <2>0, TypeOKIs DEF Write
  <2>5. TypeOK'
    BY <2>0, <2>1, <2>2, <2>4, <2>6, OthersKeep, TypeOKIs DEF TypeOK, CallType
  <2>7. ProvenanceTrue'
    BY <2>2 DEF ProvenanceTrue
  <2> QED BY <2>1, <2>2, <2>3, <2>5, <2>7, OthersKeep
<1>8. ASSUME NEW f \in Files, NEW n \in Names, NEW a \in {User, Nil}, UserEdits(f, n, a)
      PROVE  IInv'
  <2>1. With(file[f], n, a) \in Hashes
    BY WithType, TypeOKIs DEF Authors
  <2>2. file' \in [Files -> Hashes] /\ edits' \in 0..MaxEdits
    BY <1>8, <2>1, ConfigurationAssumption, TypeOKIs DEF UserEdits
  <2> QED BY <1>8, <2>2 DEF UserEdits, TypeOK, Prepared, Permitted, ProvenanceTrue
<1>9. CASE Reload
  <2>1. \A c \in Calls : /\ call'[c] \in CallType
                         /\ call'[c] = call[c] \/ call'[c].at = "over"
    BY <1>9, <1>a DEF Reload, CallType
  <2>2. call' \in [Calls -> CallType]
    BY <1>9, <2>1 DEF Reload
  <2>3. \A c \in Calls : Prepared(c)' /\ Permitted(c)'
    BY <2>1 DEF Prepared, Permitted
  <2>4. reloads' \in 0..MaxReloads /\ UNCHANGED <<file, provenance, edits>>
    BY <1>9, ConfigurationAssumption, TypeOKIs DEF Reload
  <2>5. TypeOK'
    BY <2>1, <2>2, <2>4, TypeOKIs DEF TypeOK, CallType
  <2>6. ProvenanceTrue'
    BY <2>4 DEF ProvenanceTrue
  <2> QED BY <2>3, <2>5, <2>6
<1>10. CASE UNCHANGED vars
  BY <1>10 DEF vars, TypeOK, Prepared, Permitted, ProvenanceTrue
<1> QED BY <1>1, <1>2, <1>3, <1>5, <1>6, <1>7, <1>8, <1>9, <1>10 DEF Next

LEMMA Invariant == Spec => []IInv
<1> QED BY InitIInv, NextIInv, PTL DEF Spec

\* The types hold in every state.
THEOREM TypeCorrect == Spec => []TypeOK
<1>1. IInv => TypeOK
  BY DEF IInv
<1> QED BY <1>1, Invariant, PTL

\* What the window remembers of a definition is true of the content it names, for any
\* number of calls that write and record in any order.
THEOREM ProvenanceIsTrue == Spec => []ProvenanceTrue
<1>1. IInv => ProvenanceTrue
  BY DEF IInv
<1> QED BY <1>1, Invariant, PTL

\* No call computes a content that replaces a definition of the user.
THEOREM OwnOnly == Spec => []ReplacesOwnOnly
<1>1. IInv => ReplacesOwnOnly
  BY DEF IInv, Permitted, ReplacesOwnOnly
<1> QED BY <1>1, Invariant, PTL

-----------------------------------------------------------------------------
(* MarketplaceRequest: a step that waits has the socket, its timer and its *)
(* listener; a query that has ended left them only to a refused response.  *)

QueryInv ==
    /\ at \in {"idle", "request"} \cup Query!Waits \cup Query!Settled
    /\ listening \in BOOLEAN /\ gaveUp \in BOOLEAN /\ uncaught \in BOOLEAN
    /\ at \notin Query!Settled => ~gaveUp
    /\ at = "idle" => socket = "none" /\ timer = "off" /\ status = "none"
    /\ at \in Query!Waits => socket = "open" /\ listening /\ timer = "step" /\ status = "none"
    /\ at = "request" => /\ socket = "open" /\ listening /\ timer = "idle"
                         /\ status \in {"none", "accepted"}
    /\ at \in Query!Settled /\ socket = "open" /\ ~gaveUp
         => status = "refused" /\ timer = "idle" /\ listening
    /\ ~gaveUp => ~uncaught

LEMMA QueryInit == Query!Init => QueryInv
  BY DEF Query!Init, QueryInv, Query!Waits, Query!Handshakes, Query!Settled

LEMMA QueryStep == QueryInv /\ [Query!Next]_queryVars => QueryInv'
<1> SUFFICES ASSUME QueryInv, [Query!Next]_queryVars PROVE QueryInv'
  OBVIOUS
<1> USE DEF QueryInv, Query!Waits, Query!Handshakes, Query!Settled
<1>1. CASE Query!Search
  BY <1>1 DEF Query!Search, Query!Wait
<1>2. CASE Query!Ready
  BY <1>2 DEF Query!Ready, Query!Wait
<1>3. CASE Query!TimesOut
  BY <1>3 DEF Query!TimesOut, Query!Fails, Query!AfterTimeout
<1>4. CASE Query!HeaderPart
  BY <1>4 DEF Query!HeaderPart, Query!Fails
<1>5. CASE Query!Tunnelled
  <2>1. CASE Query!Wait("secureConnect", "step") /\ UNCHANGED <<status, gaveUp, uncaught>>
    BY <1>5, <2>1 DEF Query!Tunnelled, Query!Wait
  <2>2. CASE Query!Fails("closed", FALSE)
    BY <1>5, <2>2 DEF Query!Tunnelled, Query!Fails
  <2> QED BY <1>5, <2>1, <2>2 DEF Query!Tunnelled
<1>6. CASE Query!HeaderEnds
  BY <1>6 DEF Query!HeaderEnds, Query!Fails
<1>7. CASE Query!Breaks
  BY <1>7 DEF Query!Breaks
<1>8. CASE Query!Responds
  BY <1>8 DEF Query!Responds
<1>9. CASE Query!ResponseData
  BY <1>9 DEF Query!ResponseData, Query!Fails
<1>10. CASE Query!ResponseEnds
  BY <1>10 DEF Query!ResponseEnds
<1>11. CASE Query!IdleTooLong
  BY <1>11 DEF Query!IdleTooLong
<1>12. CASE Query!PeerEnds
  BY <1>12 DEF Query!PeerEnds
<1>13. CASE UNCHANGED queryVars
  BY <1>13 DEF queryVars
<1> QED
  BY <1>1, <1>2, <1>3, <1>4, <1>5, <1>6, <1>7, <1>8, <1>9, <1>10, <1>11, <1>12,
     <1>13 DEF Query!Next

\* A query that has ended, however the network behaved, holds no socket without a timer and a
\* listener, and no error of a socket was uncaught, unless it gave up the header of the proxy.
THEOREM QueriesLetGo == Query!Spec => []SocketsReleased
<1>1. QueryInv => SocketsReleased
  BY DEF QueryInv, SocketsReleased, Query!SocketsReleased
<1>2. Query!Spec => []QueryInv
  <2> USE DEF queryVars, Query!vars
  <2> QED BY QueryInit, QueryStep, PTL DEF Query!Spec
<1> QED BY <1>1, <1>2, PTL

-----------------------------------------------------------------------------
(* TaskManager: what the manager knows of a run follows what VS Code does. *)

Known == [run : Runs \cup {Nil}, status : {"running", "succeeded"}]

TaskInv ==
    /\ executions \in Seq(Runs) /\ entries \in Seq(Known)
    /\ record \in [Runs -> [status : Tasks!Statuses, ended : BOOLEAN]]
    /\ taskCall \in [Runs -> [at : {"none", "starting", "failed", "returned"},
                              handle : Handles \cup {Nil}]]
    /\ vscode \in [Runs -> {"none", "launched", "process", "processEnded", "ended"}]
    /\ \A r \in Runs : /\ taskCall[r].at = "starting" => vscode[r] = "launched"
                       /\ r \in ToSet(executions) => taskCall[r].at = "returned"
                       /\ record[r].ended => vscode[r] = "ended" /\ taskCall[r].at = "returned"
    /\ \A e \in ToSet(entries) : /\ e.run # Nil => taskCall[e.run].at = "returned"
                                 /\ e.run # Nil /\ e.status = "running" /\ vscode[e.run] = "ended"
                                       => e.run \notin ToSet(executions)

LEMMA SameWhere == \A s, stay : Tasks!Where(s, stay) = Where(s, stay)
  BY DEF Where, Tasks!Where

LEMMA RegisteredIs ==
    ASSUME NEW r, executions \in Seq(Runs)
    PROVE  Tasks!Registered(r) <=> r \in ToSet(executions)
<1>1. DOMAIN executions = 1..Len(executions)
  OBVIOUS
<1> QED BY <1>1 DEF Tasks!Registered, Tasks!Range, ToSet

LEMMA PrunedKeeps ==
    ASSUME NEW s \in Seq(Runs)
    PROVE  /\ Tasks!PrunedExecutions(s) \in Seq(Runs)
           /\ ToSet(Tasks!PrunedExecutions(s)) \subseteq ToSet(s)
<1> DEFINE t == Tasks!Newest(s, MaxExecutions)
<1>1. t \in Seq(Runs) /\ ToSet(t) \subseteq ToSet(s)
  <2>1. CASE Len(s) <= MaxExecutions
    BY <2>1 DEF Tasks!Newest
  <2>2. CASE ~ (Len(s) <= MaxExecutions)
    <3>1. MaxExecutions \in Nat /\ Len(s) \in Nat
      BY WorkspaceAssumption DEF Tasks!TaskAssumption
    <3>2. Len(s) - MaxExecutions \in 0..Len(s) /\ t = SubSeq(s, (Len(s) - MaxExecutions) + 1, Len(s))
      BY <2>2, <3>1 DEF Tasks!Newest
    <3> QED BY <3>2, ToSetOfNewest
  <2> QED BY <2>1, <2>2
<1> HIDE DEF t
<1>2. Tasks!PrunedExecutions(s) = Where(t, Runs \ outdated)
  BY SameWhere DEF Tasks!PrunedExecutions, t
<1> QED BY <1>1, <1>2, WhereKeeps

LEMMA RecordedIs ==
    ASSUME NEW r \in Runs \cup {Nil}, NEW s \in {"running", "succeeded"}, entries \in Seq(Known)
    PROVE  /\ Tasks!Recorded(r, s) \in Seq(Known)
           /\ ToSet(Tasks!Recorded(r, s)) \subseteq ToSet(entries) \cup {[run |-> r, status |-> s]}
<1> DEFINE x == [run |-> r, status |-> s]
           all == <<x>> \o entries
           k == IF Len(all) < ActivityLimit THEN Len(all) ELSE ActivityLimit
<1>1. x \in Known /\ <<x>> \in Seq(Known)
  BY DEF Known
<1> HIDE DEF x
<1>2. /\ all \in Seq(Known) /\ Len(all) = Len(entries) + 1 /\ Len(entries) \in Nat /\ all[1] = x
      /\ \A i \in 2..Len(all) : all[i] = entries[i - 1]
  BY <1>1
<1>3. k \in 0..Len(all)
  BY <1>2, WorkspaceAssumption DEF Tasks!TaskAssumption
<1> HIDE DEF k
<1>4. Tasks!Recorded(r, s) = SubSeq(all, 1, k)
  BY DEF Tasks!Recorded, k, x
<1> HIDE DEF all
<1>5. SubSeq(all, 1, k) \in Seq(Known) /\ DOMAIN SubSeq(all, 1, k) = 1..k
        /\ \A i \in 1..k : SubSeq(all, 1, k)[i] = all[i]
  BY <1>2, <1>3
<1>6. ASSUME NEW i \in 1..k PROVE all[i] \in ToSet(entries) \cup {x}
  <2>1. CASE i = 1
    BY <1>2, <2>1
  <2>2. CASE i # 1
    <3>1. i \in 2..Len(all) /\ i - 1 \in 1..Len(entries) /\ DOMAIN entries = 1..Len(entries)
      BY <1>2, <1>3, <2>2
    <3> QED BY <1>2, <3>1 DEF ToSet
  <2> QED BY <2>1, <2>2
<1> QED BY <1>4, <1>5, <1>6 DEF ToSet, x

LEMMA UpdatedIs ==
    ASSUME NEW r \in Runs, entries \in Seq(Known)
    PROVE  /\ Tasks!Updated(r, "succeeded") \in Seq(Known)
           /\ \A e \in ToSet(Tasks!Updated(r, "succeeded")) :
                 IF e.run = r THEN e.status = "succeeded" /\ \E f \in ToSet(entries) : f.run = r
                              ELSE e \in ToSet(entries)
<1> DEFINE new == [i \in DOMAIN entries |->
                      IF entries[i].run = r THEN [entries[i] EXCEPT !.status = "succeeded"] ELSE entries[i]]
<1>1. Tasks!Updated(r, "succeeded") = new
  BY DEF Tasks!Updated
<1>2. DOMAIN entries = 1..Len(entries) /\ Len(entries) \in Nat /\ \A i \in DOMAIN entries : entries[i] \in Known
  OBVIOUS
<1>3. \A i \in DOMAIN entries : new[i] \in Known
  BY <1>2 DEF Known
<1>4. new \in Seq(Known)
  BY <1>2, <1>3
<1>5. ASSUME NEW i \in DOMAIN entries
      PROVE  IF new[i].run = r THEN new[i].status = "succeeded" /\ \E f \in ToSet(entries) : f.run = r
                               ELSE new[i] \in ToSet(entries)
  <2>1. CASE entries[i].run = r
    <3>1. new[i].run = r /\ new[i].status = "succeeded"
      BY <1>2, <2>1 DEF Known
    <3>2. entries[i] \in ToSet(entries)
      BY DEF ToSet
    <3> QED BY <2>1, <3>1, <3>2
  <2>2. CASE entries[i].run # r
    BY <2>2 DEF ToSet
  <2> QED BY <2>1, <2>2
<1>6. DOMAIN new = DOMAIN entries
  OBVIOUS
<1> HIDE DEF new
<1> QED BY <1>1, <1>4, <1>5, <1>6 DEF ToSet

LEMMA TaskInit == Tasks!Init => TaskInv
<1> SUFFICES ASSUME Tasks!Init PROVE TaskInv
  OBVIOUS
<1> USE DEF Tasks!Init, Tasks!NoRecord, Tasks!Statuses
<1>1. <<>> \in Seq(Runs) /\ <<>> \in Seq(Known) /\ ToSet(<<>>) = {}
  BY DEF ToSet
<1> QED BY <1>1 DEF TaskInv

\* A step that does not touch the runs, and loses executions at most.
LEMMA RunsRest ==
    ASSUME TaskInv, UNCHANGED <<record, taskCall, vscode, entries>>,
           executions' \in Seq(Runs), ToSet(executions') \subseteq ToSet(executions)
    PROVE  TaskInv'
  BY DEF TaskInv

LEMMA TaskStep == TaskInv /\ [Tasks!Next]_taskVars => TaskInv'
<1> SUFFICES ASSUME TaskInv, [Tasks!Next]_taskVars PROVE TaskInv'
  OBVIOUS
<1> USE WorkspaceAssumption DEF Tasks!TaskAssumption
<1>0. /\ executions \in Seq(Runs) /\ entries \in Seq(Known)
      /\ ToSet(Tasks!PrunedExecutions(executions)) \subseteq ToSet(executions)
      /\ Tasks!PrunedExecutions(executions) \in Seq(Runs)
      /\ \A r \in Runs : taskCall[r] \in [at : {"none", "starting", "failed", "returned"},
                                          handle : Handles \cup {Nil}]
      /\ \A r \in Runs : record[r] \in [status : Tasks!Statuses, ended : BOOLEAN]
  BY PrunedKeeps DEF TaskInv
<1>a. \A e \in ToSet(entries) : e \in Known /\ (e.run # Nil => e.run \in Runs)
  <2>1. ToSet(entries) \subseteq Known
    BY <1>0, ToSetType
  <2>2. \A e \in Known : e.run # Nil => e.run \in Runs
    BY DEF Known
  <2> QED BY <2>1, <2>2
<1>1. ASSUME NEW h \in Handles, Tasks!PrepareTask(h) \/ Tasks!HandleExpires(h) PROVE TaskInv'
  BY <1>0, <1>1, RunsRest DEF Tasks!PrepareTask, Tasks!HandleExpires
<1>2. CASE Tasks!ListTaskExecutions
  BY <1>0, <1>2, RunsRest DEF Tasks!ListTaskExecutions
\* A run starts or fails, before the manager knows of it.
<1>3. ASSUME NEW r \in Runs, taskCall[r].at # "returned", UNCHANGED <<record, entries>>,
             executions' \in Seq(Runs), ToSet(executions') \subseteq ToSet(executions),
             NEW k \in [at : {"starting", "failed"}, handle : Handles \cup {Nil}],
             taskCall' = [taskCall EXCEPT ![r] = k],
             NEW v \in {"launched", "ended"}, vscode' = [vscode EXCEPT ![r] = v],
             k.at = "starting" => v = "launched"
      PROVE  TaskInv'
  <2>1. /\ taskCall' \in [Runs -> [at : {"none", "starting", "failed", "returned"}, handle : Handles \cup {Nil}]]
        /\ vscode' \in [Runs -> {"none", "launched", "process", "processEnded", "ended"}]
    BY <1>3 DEF TaskInv
  <2>2. /\ taskCall'[r] = k /\ vscode'[r] = v
        /\ \A q \in Runs \ {r} : taskCall'[q] = taskCall[q] /\ vscode'[q] = vscode[q]
    BY <1>3 DEF TaskInv
  <2>3. r \notin ToSet(executions) /\ ~record[r].ended /\ \A e \in ToSet(entries) : e.run # r
    BY <1>3 DEF TaskInv
  <2>4. \A q \in Runs : /\ taskCall'[q].at = "starting" => vscode'[q] = "launched"
                        /\ q \in ToSet(executions') => taskCall'[q].at = "returned"
                        /\ record[q].ended => vscode'[q] = "ended" /\ taskCall'[q].at = "returned"
    BY <1>3, <2>2, <2>3 DEF TaskInv
  <2>5. ToSet(entries) \subseteq Known
    BY <1>0, ToSetType
  <2>6. \A e \in ToSet(entries) : e.run # Nil => e.run \in Runs \ {r}
    BY <2>3, <2>5 DEF Known
  <2>7. \A e \in ToSet(entries) :
           /\ e.run # Nil => taskCall'[e.run].at = "returned"
           /\ e.run # Nil /\ e.status = "running" /\ vscode'[e.run] = "ended" => e.run \notin ToSet(executions')
    BY <1>3, <2>2, <2>6 DEF TaskInv
  <2> QED BY <1>3, <2>1, <2>4, <2>7 DEF TaskInv
<1>4. ASSUME NEW r \in Runs, NEW h \in Handles, Tasks!RunPrepared(r, h) PROVE TaskInv'
  <2> DEFINE k == [at |-> "starting", handle |-> h]
  <2>1. k \in [at : {"starting", "failed"}, handle : Handles \cup {Nil}] /\ k.at = "starting"
    OBVIOUS
  <2> HIDE DEF k
  <2> QED BY <1>0, <1>3, <1>4, <2>1 DEF Tasks!RunPrepared, k
<1>5. ASSUME NEW r \in Runs, Tasks!RunListed(r) PROVE TaskInv'
  <2> DEFINE k == [taskCall[r] EXCEPT !.at = "starting"]
  <2>1. k \in [at : {"starting", "failed"}, handle : Handles \cup {Nil}] /\ k.at = "starting"
    BY <1>0
  <2>2. taskCall' = [taskCall EXCEPT ![r] = k]
    BY <1>5, <1>0 DEF Tasks!RunListed
  <2> HIDE DEF k
  <2> QED BY <1>0, <1>3, <1>5, <2>1, <2>2 DEF Tasks!RunListed
<1>6. ASSUME NEW r \in Runs, Tasks!StartFails(r) PROVE TaskInv'
  <2> DEFINE k == [taskCall[r] EXCEPT !.at = "failed"]
  <2>1. k \in [at : {"starting", "failed"}, handle : Handles \cup {Nil}] /\ k.at = "failed"
    BY <1>0
  <2>2. taskCall' = [taskCall EXCEPT ![r] = k]
    BY <1>6, <1>0 DEF Tasks!StartFails
  <2> HIDE DEF k
  <2> QED BY <1>0, <1>3, <1>6, <2>1, <2>2 DEF Tasks!StartFails
<1>7. ASSUME NEW r \in Runs, Tasks!Register(r) PROVE TaskInv'
  <2> DEFINE x == [run |-> r, status |-> "running"]
  <2>1. /\ taskCall[r].at = "starting" /\ vscode[r] = "launched" /\ vscode' = vscode
        /\ taskCall' = [taskCall EXCEPT ![r].at = "returned"]
        /\ record' = [record EXCEPT ![r] = [status |-> "queued", ended |-> FALSE]]
    BY <1>7 DEF Tasks!Register, TaskInv
  <2>2. /\ executions' \in Seq(Runs) /\ ToSet(executions') \subseteq ToSet(executions) \cup {r}
    <3>1. /\ Append(executions, r) \in Seq(Runs)
          /\ ToSet(Append(executions, r)) = ToSet(executions) \cup {r}
      BY <1>0, ToSetOfAppend
    <3>2. executions' = Tasks!PrunedExecutions(Append(executions, r))
      BY <1>7 DEF Tasks!Register
    <3> QED BY <3>1, <3>2, PrunedKeeps
  <2>3. entries' \in Seq(Known) /\ ToSet(entries') \subseteq ToSet(entries) \cup {x}
    <3>1. entries' = Tasks!Recorded(r, "running")
      BY <1>7 DEF Tasks!Register
    <3> QED BY <1>0, <3>1, RecordedIs
  <2>4. /\ taskCall' \in [Runs -> [at : {"none", "starting", "failed", "returned"}, handle : Handles \cup {Nil}]]
        /\ taskCall'[r].at = "returned" /\ \A q \in Runs \ {r} : taskCall'[q] = taskCall[q]
    BY SMTT(30), <2>1, <1>0 DEF TaskInv
  <2>5. /\ record' \in [Runs -> [status : Tasks!Statuses, ended : BOOLEAN]]
        /\ ~record'[r].ended /\ \A q \in Runs \ {r} : record'[q] = record[q]
    BY <2>1 DEF TaskInv, Tasks!Statuses
  <2>6. \A q \in Runs : /\ taskCall'[q].at = "starting" => vscode'[q] = "launched"
                        /\ q \in ToSet(executions') => taskCall'[q].at = "returned"
                        /\ record'[q].ended => vscode'[q] = "ended" /\ taskCall'[q].at = "returned"
    BY <2>1, <2>2, <2>4, <2>5 DEF TaskInv
  <2>7. ASSUME NEW e \in ToSet(entries')
        PROVE  /\ e.run # Nil => taskCall'[e.run].at = "returned"
               /\ e.run # Nil /\ e.status = "running" /\ vscode'[e.run] = "ended" => e.run \notin ToSet(executions')
    <3>1. CASE e.run = r
      BY <2>1, <2>4, <3>1
    <3>2. CASE e.run # r
      <4>1. e \in ToSet(entries) /\ e \in Known
        BY <1>0, <2>3, <3>2, ToSetType
      <4>2. e.run # Nil => e.run \in Runs \ {r}
        BY <3>2, <4>1 DEF Known
      <4> QED BY <2>1, <2>2, <2>4, <4>1, <4>2 DEF TaskInv
    <3> QED BY <3>1, <3>2
  <2> QED BY <2>1, <2>2, <2>3, <2>4, <2>5, <2>6, <2>7 DEF TaskInv
<1>8. CASE Tasks!OtherActivity
  <2>1. /\ entries' \in Seq(Known) /\ UNCHANGED <<executions, record, taskCall, vscode>>
        /\ ToSet(entries') \subseteq ToSet(entries) \cup {[run |-> Nil, status |-> "succeeded"]}
    BY <1>0, <1>8, RecordedIs DEF Tasks!OtherActivity
  <2>2. \A e \in ToSet(entries') : e \in ToSet(entries) \/ e.run = Nil
    BY <2>1
  <2> QED BY <2>1, <2>2 DEF TaskInv
\* What VS Code reports of a task that is not over, and what the manager makes of it.
<1>9. ASSUME NEW r \in Runs, NEW v \in {"process", "processEnded", vscode[r]},
             vscode' = [vscode EXCEPT ![r] = v], v # vscode[r] => taskCall[r].at # "starting" /\ vscode[r] # "ended",
             NEW s \in Tasks!Statuses, record' = record \/ record' = [record EXCEPT ![r].status = s],
             UNCHANGED <<executions, taskCall, entries>>
      PROVE  TaskInv'
  <2>1. /\ vscode' \in [Runs -> {"none", "launched", "process", "processEnded", "ended"}]
        /\ vscode'[r] = v /\ \A q \in Runs \ {r} : vscode'[q] = vscode[q]
    BY <1>9 DEF TaskInv
  <2>2. /\ record' \in [Runs -> [status : Tasks!Statuses, ended : BOOLEAN]]
        /\ \A q \in Runs : record'[q].ended = record[q].ended
    <3>1. CASE record' = record
      BY <1>0, <3>1 DEF TaskInv
    <3>2. CASE record' = [record EXCEPT ![r].status = s]
      <4>1. [record[r] EXCEPT !.status = s] \in [status : Tasks!Statuses, ended : BOOLEAN]
              /\ [record[r] EXCEPT !.status = s].ended = record[r].ended
        BY <1>0, <1>9
      <4>2. record' = [record EXCEPT ![r] = [record[r] EXCEPT !.status = s]]
        BY <1>0, <3>2
      <4> QED BY <4>1, <4>2 DEF TaskInv
    <3> QED BY <1>9, <3>1, <3>2
  <2>3. \A q \in Runs : /\ taskCall[q].at = "starting" => vscode'[q] = "launched"
                        /\ q \in ToSet(executions) => taskCall[q].at = "returned"
                        /\ record'[q].ended => vscode'[q] = "ended" /\ taskCall[q].at = "returned"
    BY <1>9, <2>1, <2>2 DEF TaskInv
  <2>4. \A q \in Runs : vscode'[q] = "ended" => vscode[q] = "ended"
    BY <1>9, <2>1
  <2>5. \A e \in ToSet(entries) : e.run # Nil => e.run \in Runs
    BY <1>a
  <2> QED BY <1>9, <2>1, <2>2, <2>3, <2>4, <2>5 DEF TaskInv
<1>10. ASSUME NEW r \in Runs, Tasks!TerminateTask(r) \/ Tasks!StartProcess(r) \/ Tasks!EndProcess(r)
       PROVE  TaskInv'
  <2>1. vscode' = [vscode EXCEPT ![r] = vscode'[r]] /\ UNCHANGED <<executions, taskCall, entries>>
    BY <1>10 DEF Tasks!TerminateTask, Tasks!StartProcess, Tasks!EndProcess, TaskInv
  <2>2. /\ vscode'[r] \in {"process", "processEnded", vscode[r]}
        /\ vscode'[r] # vscode[r] => taskCall[r].at # "starting" /\ vscode[r] # "ended"
        /\ \E s \in {"terminated", "running"} : record' = record \/ record' = [record EXCEPT ![r].status = s]
    BY <1>10 DEF Tasks!TerminateTask, Tasks!StartProcess, Tasks!EndProcess, Tasks!MayReport,
       TaskInv
  <2> QED BY <1>9, <2>1, <2>2 DEF Tasks!Statuses
<1>11. ASSUME NEW r \in Runs, Tasks!EndTask(r) PROVE TaskInv'
  <2>1. /\ vscode[r] # "ended" /\ taskCall[r].at = "returned" /\ vscode' = [vscode EXCEPT ![r] = "ended"]
        /\ UNCHANGED <<executions, taskCall>>
    BY <1>11 DEF Tasks!EndTask, Tasks!MayReport
  <2>2. /\ vscode' \in [Runs -> {"none", "launched", "process", "processEnded", "ended"}]
        /\ vscode'[r] = "ended" /\ \A q \in Runs \ {r} : vscode'[q] = vscode[q]
    BY <2>1 DEF TaskInv
  <2>3. ~record[r].ended
    BY <2>1 DEF TaskInv
  <2>4. /\ record' \in [Runs -> [status : Tasks!Statuses, ended : BOOLEAN]]
        /\ \A q \in Runs \ {r} : record'[q] = record[q]
    <3>1. CASE Tasks!Registered(r)
      <4>1. record' = [record EXCEPT ![r] = [status |-> Tasks!EndedStatus(r), ended |-> TRUE]]
        BY <1>11, <2>3, <3>1 DEF Tasks!EndTask
      <4>2. Tasks!EndedStatus(r) \in Tasks!Statuses
        BY DEF Tasks!EndedStatus, Tasks!Statuses
      <4> QED BY <4>1, <4>2 DEF TaskInv
    <3>2. CASE ~Tasks!Registered(r)
      BY <1>11, <3>2 DEF Tasks!EndTask, TaskInv
    <3> QED BY <3>1, <3>2
  <2>5. \A q \in Runs : /\ taskCall[q].at = "starting" => vscode'[q] = "launched"
                        /\ q \in ToSet(executions) => taskCall[q].at = "returned"
                        /\ record'[q].ended => vscode'[q] = "ended" /\ taskCall[q].at = "returned"
    BY <2>1, <2>2, <2>4 DEF TaskInv
  <2>6. /\ entries' \in Seq(Known)
        /\ \A e \in ToSet(entries') :
             /\ e.run # Nil => taskCall[e.run].at = "returned"
             /\ e.run # Nil /\ e.status = "running" /\ vscode'[e.run] = "ended" => e.run \notin ToSet(executions)
    <3>1. CASE Tasks!Registered(r)
      <4>1. entries' = Tasks!Updated(r, "succeeded")
        BY <1>11, <2>3, <3>1 DEF Tasks!EndTask
      <4>2. /\ entries' \in Seq(Known)
            /\ \A e \in ToSet(entries') : IF e.run = r THEN e.status = "succeeded" ELSE e \in ToSet(entries)
        BY <1>0, <4>1, UpdatedIs
      <4>3. ASSUME NEW e \in ToSet(entries')
            PROVE  /\ e.run # Nil => taskCall[e.run].at = "returned"
                   /\ e.run # Nil /\ e.status = "running" /\ vscode'[e.run] = "ended" => e.run \notin ToSet(executions)
        <5>1. CASE e.run = r
          BY <2>1, <4>2, <5>1
        <5>2. CASE e.run # r
          <6>1. e \in ToSet(entries) /\ (e.run # Nil => e.run \in Runs \ {r})
            BY <1>a, <4>2, <5>2
          <6> QED BY <2>2, <6>1 DEF TaskInv
        <5> QED BY <5>1, <5>2
      <4> QED BY <4>2, <4>3
    <3>2. CASE ~Tasks!Registered(r)
      <4>1. entries' = entries /\ r \notin ToSet(executions)
        BY <1>0, <1>11, <3>2, RegisteredIs DEF Tasks!EndTask
      <4> QED BY <1>a, <2>2, <4>1 DEF TaskInv
    <3> QED BY <3>1, <3>2
  <2> QED BY <2>1, <2>2, <2>4, <2>5, <2>6 DEF TaskInv
<1>12. ASSUME NEW r \in Runs, Tasks!ExecutionAges(r) PROVE TaskInv'
  BY <1>0, <1>12, RunsRest DEF Tasks!ExecutionAges
<1>13. CASE UNCHANGED taskVars
  BY <1>0, <1>13, RunsRest DEF taskVars
<1> QED
  BY <1>1, <1>2, <1>4, <1>5, <1>6, <1>7, <1>8, <1>10, <1>11, <1>12, <1>13 DEF Tasks!Next

\* An activity entry says "running" of a task that is over only when the manager had dropped its
\* record, whatever VS Code reports and in whatever order, for any limits.
THEOREM ActivityIsTrue == Tasks!Spec => []ActivityTruthful
<1>1. TaskInv => ActivityTruthful
  <2> SUFFICES ASSUME TaskInv, NEW i \in DOMAIN entries, entries[i].run # Nil,
                      entries[i].status = "running", vscode[entries[i].run] = "ended"
               PROVE  ~Tasks!Registered(entries[i].run)
    BY DEF ActivityTruthful, Tasks!ActivityTruthful
  <2>1. entries[i] \in ToSet(entries) /\ executions \in Seq(Runs)
    BY DEF ToSet, TaskInv
  <2>2. entries[i].run \notin ToSet(executions)
    BY <2>1 DEF TaskInv
  <2> QED BY <2>1, <2>2, RegisteredIs
<1>2. Tasks!Spec => []TaskInv
  <2> USE DEF taskVars, Tasks!vars
  <2> QED BY TaskInit, TaskStep, PTL DEF Tasks!Spec
<1> QED BY <1>1, <1>2, PTL

-----------------------------------------------------------------------------
(* ExtensionInstall: what a plan needs is in it, and from there on.        *)

Versions == 0..MaxVersion
Members == [extension : Extensions, version : Versions]
Made == {"ready", "used", "expired"}

PlanType == [at : {"idle", "primary", "resolving", "refused"} \cup Made,
             candidate : Members \cup {Nil}, result : Seq(Members), queue : Seq(Members),
             wanted : Seq(Extensions), changed : SUBSET Extensions]
ApplyType == [at : {"idle", "refused", "checking", "asking", "waiting", "alreadyInstalled",
                    "installed", "pendingReload", "userActionRequired", "pendingUserTrust"},
              plan : Prepares \cup {Nil}, unchecked : Seq(Members), asked : BOOLEAN,
              gave : SUBSET Members, replaced : SUBSET Extensions, quiet : BOOLEAN]

MarketType ==
    /\ market \in [Extensions -> Versions] /\ installed \in [Extensions -> Versions]
    /\ candidates \subseteq Members
    /\ plan \in [Prepares -> PlanType] /\ apply \in [Names -> ApplyType]

Extended(members) == {m.extension : m \in ToSet(members)}
Wanted(members) == UNION {ToSet(Needs(m.extension, m.version)) : m \in ToSet(members)}

\* What a member needs is in the plan, or is still to be looked at.
Complete(r) ==
    /\ r.at = "primary" => r.candidate \in Members /\ r.result = <<>>
    /\ r.at = "resolving" => /\ r.result # <<>> \/ r.queue # <<>>
                             /\ Wanted(r.result) \subseteq
                                    Extended(r.result) \cup Extended(r.queue) \cup ToSet(r.wanted)
    /\ r.at \in Made => r.result # <<>> /\ Wanted(r.result) \subseteq Extended(r.result)

Asked(p) == \E x \in Names : apply[x].plan = p /\ apply[x].asked

\* What is installed does not contradict the plan, but for what was changed since it was made.
Agrees(r) ==
    \A m \in ToSet(r.result) : installed[m.extension] \in {0, m.version} \/ m.extension \in r.changed

Offered(members) == \A m \in ToSet(members) : market[m.extension] = m.version

\* How far an application is, and what it has found out.
Applied(r) ==
    /\ r.plan = Nil => r.at \in {"idle", "refused"} /\ ~r.asked
    /\ r.at = "idle" => r.plan = Nil
    /\ r.plan # Nil => plan[r.plan].at = "used"
    /\ r.asked => r.at \in {"waiting", "installed", "pendingReload"}
    /\ ~r.asked => r.gave = {} /\ r.replaced = {}
    /\ r.at = "checking" => r.unchecked # <<>>
    /\ r.at = "checking" /\ r.quiet =>
          \A m \in ToSet(plan[r.plan].result) :
              market[m.extension] = m.version \/ m \in ToSet(r.unchecked)
    /\ r.at = "asking" /\ r.quiet => Offered(plan[r.plan].result)
    /\ r.asked /\ r.quiet => /\ r.gave \subseteq ToSet(plan[r.plan].result)
                             /\ r.replaced \subseteq plan[r.plan].changed

MarketInv ==
    /\ MarketType
    /\ \A p \in Prepares : /\ Complete(plan[p])
                           /\ plan[p].at \in Made => Agrees(plan[p]) \/ Asked(p)
    /\ \A x \in Names : Applied(apply[x])
    /\ \A x, y \in Names : apply[x].plan = apply[y].plan /\ apply[x].plan # Nil => x = y

LEMMA SameToSet == \A s : Market!Range(s) = ToSet(s)
  BY DEF ToSet, Market!Range

LEMMA MarketInit == Market!Init => MarketInv
<1> SUFFICES ASSUME Market!Init PROVE MarketInv
  OBVIOUS
<1> USE WorkspaceAssumption DEF Market!InstallAssumption, Market!Init, Market!NoPlan, Market!NoApply
<1>1. <<>> \in Seq(Members) /\ <<>> \in Seq(Extensions)
  OBVIOUS
<1>2. MarketType
  BY <1>1 DEF MarketType, PlanType, ApplyType, Versions
<1>3. \A p \in Prepares : Complete(plan[p]) /\ plan[p].at \notin Made
  BY DEF Complete, Made
<1>4. \A x \in Names : Applied(apply[x]) /\ apply[x].plan = Nil
  BY DEF Applied
<1> QED BY <1>2, <1>3, <1>4 DEF MarketInv

LEMMA MarketRests ==
    ASSUME MarketInv, candidates' \subseteq Members, UNCHANGED <<market, installed, plan, apply>>
    PROVE  MarketInv'
<1>1. MarketType'
  BY DEF MarketInv, MarketType
<1>2. \A p \in Prepares : /\ Complete(plan[p])'
                          /\ plan'[p].at \in Made => Agrees(plan[p])' \/ Asked(p)'
  BY DEF MarketInv, Complete, Agrees, Asked
<1>3. \A x \in Names : Applied(apply[x])'
  BY DEF MarketInv, Applied, Offered
<1> QED BY <1>1, <1>2, <1>3 DEF MarketInv

\* A step that makes something of one plan which no application has taken.
LEMMA PlanStep ==
    ASSUME MarketInv, NEW p \in Prepares, plan[p].at # "used",
           NEW r \in PlanType, r.at # "used", Complete(r), r.at \in Made => Agrees(r),
           plan' = [plan EXCEPT ![p] = r],
           UNCHANGED <<market, installed, candidates, apply>>
    PROVE  MarketInv'
<1> USE WorkspaceAssumption DEF Market!InstallAssumption
<1>1. plan' \in [Prepares -> PlanType] /\ plan'[p] = r /\ \A q \in Prepares \ {p} : plan'[q] = plan[q]
  BY DEF MarketInv, MarketType
<1>2. MarketType'
  BY <1>1 DEF MarketInv, MarketType
<1>3. ASSUME NEW q \in Prepares
      PROVE  Complete(plan[q])' /\ (plan'[q].at \in Made => Agrees(plan[q])' \/ Asked(q)')
  <2>1. CASE q = p
    BY <1>1, <2>1 DEF Complete, Agrees
  <2>2. CASE q # p
    BY <1>1, <2>2 DEF MarketInv, Complete, Agrees, Asked
  <2> QED BY <2>1, <2>2
<1>4. ASSUME NEW x \in Names PROVE Applied(apply[x])'
  <2>1. apply[x].plan \in (Prepares \ {p}) \cup {Nil} /\ Applied(apply[x])
    BY DEF MarketInv, MarketType, ApplyType, Applied
  <2>2. apply[x].plan # Nil => plan'[apply[x].plan] = plan[apply[x].plan]
    BY <1>1, <2>1
  <2>3. apply[x].plan = Nil => apply[x].at \in {"idle", "refused"} /\ ~apply[x].asked
    BY <2>1 DEF Applied
  <2> QED BY <2>1, <2>2, <2>3 DEF Applied, Offered
<1> QED BY <1>2, <1>3, <1>4 DEF MarketInv

\* A step of one application, on the same plan.
LEMMA ApplyStep ==
    ASSUME MarketInv, NEW x \in Names, NEW r \in ApplyType, Applied(r),
           r.plan = apply[x].plan, apply[x].asked => r.asked,
           apply' = [apply EXCEPT ![x] = r],
           UNCHANGED <<market, installed, candidates, plan>>
    PROVE  MarketInv'
<1>1. apply' \in [Names -> ApplyType] /\ apply'[x] = r /\ \A y \in Names \ {x} : apply'[y] = apply[y]
  BY DEF MarketInv, MarketType
<1>2. MarketType'
  BY <1>1 DEF MarketInv, MarketType
<1>3. \A y \in Names : /\ apply'[y].plan = apply[y].plan
                       /\ apply[y].asked => apply'[y].asked
                       /\ Applied(apply'[y])
  BY <1>1 DEF MarketInv
<1>4. \A y \in Names : Applied(apply[y])'
  BY <1>3 DEF Applied, Offered
<1>5. \A q \in Prepares : /\ Complete(plan[q])'
                          /\ plan'[q].at \in Made => Agrees(plan[q])' \/ Asked(q)'
  BY <1>3 DEF MarketInv, Complete, Agrees, Asked
<1> QED BY <1>2, <1>3, <1>4, <1>5 DEF MarketInv

LEMMA MembersOfAppend ==
    ASSUME NEW s \in Seq(Members), NEW m \in Members
    PROVE  /\ Extended(Append(s, m)) = Extended(s) \cup {m.extension}
           /\ Wanted(Append(s, m)) = Wanted(s) \cup ToSet(Needs(m.extension, m.version))
<1>1. ToSet(Append(s, m)) = ToSet(s) \cup {m}
  BY ToSetOfAppend
<1> QED BY <1>1 DEF Extended, Wanted

LEMMA MembersOfTail ==
    ASSUME NEW s \in Seq(Members), s # <<>>
    PROVE  Extended(s) = {Head(s).extension} \cup Extended(Tail(s))
<1>1. ToSet(s) = {Head(s)} \cup ToSet(Tail(s))
  BY ToSetOfTail
<1> QED BY <1>1 DEF Extended

LEMMA VisitedIs ==
    ASSUME NEW p \in Prepares, NEW e
    PROVE  /\ Market!Visited(p, e) <=> e \in Extended(plan[p].result)
           /\ Market!Visited(p, e) => plan[p].result # <<>>
  BY DEF Market!Visited, Extended, ToSet

LEMMA PlanSteps ==
    ASSUME MarketInv, NEW p \in Prepares,
           \/ Market!PlanExpires(p) \/ \E k \in candidates : Market!Prepare(p, k)
           \/ Market!Primary(p) \/ Market!Expand(p) \/ Market!Resolve(p) \/ Market!Ready(p)
    PROVE  MarketInv'
<1> DEFINE mine == plan[p]
<1>0. /\ mine \in PlanType /\ Complete(mine) /\ plan \in [Prepares -> PlanType]
      /\ mine.at = "ready" => Agrees(mine)
  <2>1. mine.at = "ready" => \A x \in Names : apply[x].plan # p
    BY WorkspaceAssumption DEF MarketInv, Market!InstallAssumption, Applied
  <2> QED BY <2>1 DEF MarketInv, MarketType, Asked, Made
<1>1. ASSUME Market!PlanExpires(p) PROVE MarketInv'
  <2> DEFINE r == [mine EXCEPT !.at = "expired"]
  <2>1. /\ mine.at = "ready" /\ plan' = [plan EXCEPT ![p] = r]
        /\ UNCHANGED <<market, installed, candidates, apply>>
    BY <1>1, <1>0 DEF Market!PlanExpires, PlanType
  <2>2. r \in PlanType /\ r.at = "expired" /\ r.result = mine.result /\ r.changed = mine.changed
    BY <1>0 DEF PlanType, Made
  <2>3. Complete(r) /\ Agrees(r)
    BY <2>1, <2>2, <1>0 DEF Complete, Agrees, Made
  <2> HIDE DEF r
  <2> QED BY <2>1, <2>2, <2>3, PlanStep
<1>2. ASSUME NEW k \in candidates, Market!Prepare(p, k) PROVE MarketInv'
  <2> DEFINE r == [Market!NoPlan EXCEPT !.at = "primary", !.candidate = k]
  <2>1. /\ mine.at = "idle" /\ plan' = [plan EXCEPT ![p] = r]
        /\ UNCHANGED <<market, installed, candidates, apply>>
    BY <1>2 DEF Market!Prepare
  <2>2. /\ r \in PlanType /\ r.at = "primary" /\ r.candidate \in Members /\ r.result = <<>>
    <3>1. k \in Members /\ <<>> \in Seq(Members) /\ <<>> \in Seq(Extensions)
      BY DEF MarketInv, MarketType
    <3> QED BY <3>1 DEF PlanType, Market!NoPlan
  <2>3. Complete(r)
    BY <2>2 DEF Complete, Made
  <2> HIDE DEF r
  <2> QED BY <2>1, <2>2, <2>3, PlanStep DEF Made
\* A plan that is refused
<1>3. ASSUME NEW r \in PlanType, r.at = "refused", mine.at # "used", plan' = [plan EXCEPT ![p] = r],
             UNCHANGED <<market, installed, candidates, apply>>
      PROVE  MarketInv'
  <2>1. Complete(r)
    BY <1>3 DEF Complete, Made
  <2> QED BY <1>3, <2>1, PlanStep DEF Made
<1>4. ASSUME Market!Primary(p) PROVE MarketInv'
  <2> DEFINE found == /\ market[mine.candidate.extension] = mine.candidate.version
                      /\ mine.candidate.version > 0
  <2>1. /\ mine.at = "primary" /\ UNCHANGED <<market, installed, candidates, apply>>
        /\ mine.candidate \in Members
    BY <1>4, <1>0 DEF Market!Primary, Complete
  <2>2. CASE found
    <3> DEFINE r == [mine EXCEPT !.at = "resolving", !.queue = <<mine.candidate>>]
    <3>1. plan' = [plan EXCEPT ![p] = r]
      BY <1>4, <2>2, <1>0 DEF Market!Primary, PlanType
    <3>2. /\ r \in PlanType /\ r.at = "resolving" /\ r.queue # <<>> /\ r.result = <<>>
      <4>1. <<mine.candidate>> \in Seq(Members) /\ <<mine.candidate>> # <<>>
        BY <2>1
      <4>2. mine.result = <<>>
        BY <1>0, <2>1 DEF Complete
      <4> QED BY <1>0, <4>1, <4>2 DEF PlanType
    <3>3. Complete(r)
      BY <3>2 DEF Complete, Made, Wanted, ToSet
    <3> HIDE DEF r
    <3> QED BY <2>1, <3>1, <3>2, <3>3, PlanStep DEF Made
  <2>3. CASE ~found
    <3> DEFINE r == [mine EXCEPT !.at = "refused"]
    <3>1. plan' = [plan EXCEPT ![p] = r]
      BY <1>4, <2>3, <1>0 DEF Market!Primary, PlanType
    <3>2. r \in PlanType /\ r.at = "refused"
      BY <1>0 DEF PlanType, Made
    <3> HIDE DEF r
    <3> QED BY <2>1, <3>1, <3>2, <1>3
  <2> QED BY <2>2, <2>3
<1>5. ASSUME Market!Expand(p) PROVE MarketInv'
  <2> DEFINE next == Head(mine.queue)
             rest == [mine EXCEPT !.queue = Tail(@)]
  <2>1. /\ mine.at = "resolving" /\ mine.wanted = <<>> /\ mine.queue # <<>>
        /\ UNCHANGED <<market, installed, candidates, apply>>
        /\ plan' = [plan EXCEPT ![p] =
              IF Market!Visited(p, next.extension) THEN rest
              ELSE IF Len(mine.result) = MaxGraph THEN [rest EXCEPT !.at = "refused"]
              ELSE [rest EXCEPT !.result = Append(@, next), !.wanted = Needs(next.extension, next.version)]]
    BY <1>5 DEF Market!Expand
  <2>2. /\ next \in Members /\ Tail(mine.queue) \in Seq(Members)
        /\ Extended(mine.queue) = {next.extension} \cup Extended(Tail(mine.queue))
    BY <1>0, <2>1, ToSetOfTail, MembersOfTail DEF PlanType
  <2>3. /\ rest \in PlanType /\ rest.at = "resolving" /\ rest.result = mine.result
        /\ rest.queue = Tail(mine.queue) /\ rest.wanted = <<>>
    BY <1>0, <2>1, <2>2 DEF PlanType
  <2>4. ToSet(mine.wanted) = {}
    BY <2>1 DEF ToSet
  <2> HIDE DEF next, rest
  <2>5. CASE Market!Visited(p, next.extension)
    <3>1. Complete(rest)
      BY <1>0, <2>1, <2>2, <2>3, <2>4, <2>5, VisitedIs DEF Complete, Made
    <3> QED BY <2>1, <2>3, <2>5, <3>1, PlanStep DEF Made
  <2>6. CASE ~Market!Visited(p, next.extension) /\ Len(mine.result) = MaxGraph
    <3>1. [rest EXCEPT !.at = "refused"] \in PlanType /\ [rest EXCEPT !.at = "refused"].at = "refused"
      BY <2>3 DEF PlanType
    <3> QED BY <2>1, <2>6, <3>1, <1>3
  <2>7. CASE ~Market!Visited(p, next.extension) /\ Len(mine.result) # MaxGraph
    <3> DEFINE r == [rest EXCEPT !.result = Append(@, next), !.wanted = Needs(next.extension, next.version)]
    <3>1. plan' = [plan EXCEPT ![p] = r]
      BY <2>1, <2>7
    <3>2. /\ mine.result \in Seq(Members) /\ Append(mine.result, next) \in Seq(Members)
          /\ Append(mine.result, next) # <<>>
          /\ Needs(next.extension, next.version) \in Seq(Extensions)
      <4>1. mine.result \in Seq(Members)
        BY <1>0 DEF PlanType
      <4>2. Needs(next.extension, next.version) \in Seq(Extensions)
        BY <2>2, WorkspaceAssumption DEF Market!InstallAssumption, Members, Versions
      <4> QED BY <2>2, <4>1, <4>2, ToSetOfAppend
    <3>3. /\ r \in PlanType /\ r.at = "resolving" /\ r.result = Append(mine.result, next)
          /\ r.queue = Tail(mine.queue) /\ r.wanted = Needs(next.extension, next.version)
      BY <2>3, <3>2 DEF PlanType
    <3> HIDE DEF r
    <3>4. Complete(r)
      BY <1>0, <2>1, <2>2, <2>4, <3>2, <3>3, MembersOfAppend DEF Complete, Made
    <3> QED BY <2>1, <3>1, <3>3, <3>4, PlanStep DEF Made
  <2> QED BY <2>5, <2>6, <2>7
<1>6. ASSUME Market!Resolve(p) PROVE MarketInv'
  <2> DEFINE e == Head(mine.wanted)
             rest == [mine EXCEPT !.wanted = Tail(@)]
  <2>1. /\ mine.at = "resolving" /\ mine.wanted # <<>>
        /\ UNCHANGED <<market, installed, candidates, apply>>
        /\ plan' = [plan EXCEPT ![p] =
              IF Market!Visited(p, e) THEN rest
              ELSE IF market[e] = 0 THEN [rest EXCEPT !.at = "refused"]
              ELSE [rest EXCEPT !.queue = Append(@, Market!Member(e, market[e]))]]
    BY <1>6 DEF Market!Resolve
  <2>2. /\ e \in Extensions /\ Tail(mine.wanted) \in Seq(Extensions)
        /\ ToSet(mine.wanted) = {e} \cup ToSet(Tail(mine.wanted))
    BY <1>0, <2>1, ToSetOfTail DEF PlanType
  <2>3. /\ rest \in PlanType /\ rest.at = "resolving" /\ rest.result = mine.result
        /\ rest.queue = mine.queue /\ rest.wanted = Tail(mine.wanted)
    BY <1>0, <2>1, <2>2 DEF PlanType
  <2> HIDE DEF e, rest
  <2>5. CASE Market!Visited(p, e)
    <3>1. Complete(rest)
      BY <1>0, <2>1, <2>2, <2>3, <2>5, VisitedIs DEF Complete, Made
    <3> QED BY <2>1, <2>3, <2>5, <3>1, PlanStep DEF Made
  <2>6. CASE ~Market!Visited(p, e) /\ market[e] = 0
    <3>1. [rest EXCEPT !.at = "refused"] \in PlanType /\ [rest EXCEPT !.at = "refused"].at = "refused"
      BY <2>3 DEF PlanType
    <3> QED BY <2>1, <2>6, <3>1, <1>3
  <2>7. CASE ~Market!Visited(p, e) /\ market[e] # 0
    <3> DEFINE m == Market!Member(e, market[e])
               r == [rest EXCEPT !.queue = Append(@, m)]
    <3>1. plan' = [plan EXCEPT ![p] = r]
      BY <2>1, <2>7
    <3>2. m \in Members /\ m.extension = e /\ mine.queue \in Seq(Members)
      BY <1>0, <2>2 DEF MarketInv, MarketType, Members, Market!Member, PlanType
    <3> HIDE DEF m
    <3>3. /\ Append(mine.queue, m) \in Seq(Members) /\ Append(mine.queue, m) # <<>>
          /\ Extended(Append(mine.queue, m)) = Extended(mine.queue) \cup {e}
      <4>1. Append(mine.queue, m) \in Seq(Members) /\ Append(mine.queue, m) # <<>>
        BY <3>2, ToSetOfAppend
      <4>2. Extended(Append(mine.queue, m)) = Extended(mine.queue) \cup {m.extension}
        BY <3>2, MembersOfAppend
      <4> QED BY <3>2, <4>1, <4>2
    <3>4. /\ r \in PlanType /\ r.at = "resolving" /\ r.result = mine.result
          /\ r.queue = Append(mine.queue, m) /\ r.wanted = Tail(mine.wanted)
      BY <2>3, <3>3 DEF PlanType
    <3> HIDE DEF r
    <3>5. Complete(r)
      BY <1>0, <2>1, <2>2, <3>3, <3>4 DEF Complete, Made
    <3> QED BY <2>1, <3>1, <3>4, <3>5, PlanStep DEF Made
  <2> QED BY <2>5, <2>6, <2>7
<1>7. ASSUME Market!Ready(p) PROVE MarketInv'
  <2> DEFINE ok == Market!Unchanging(mine.result)
             r == [mine EXCEPT !.at = IF ok THEN "ready" ELSE "refused", !.changed = {}]
  <2>1. /\ mine.at = "resolving" /\ mine.wanted = <<>> /\ mine.queue = <<>>
        /\ UNCHANGED <<market, installed, candidates, apply>>
        /\ plan' = [plan EXCEPT ![p] = r]
    BY <1>7, <1>0 DEF Market!Ready, PlanType
  <2>2. /\ r \in PlanType /\ r.at = (IF ok THEN "ready" ELSE "refused")
        /\ r.result = mine.result /\ r.changed = {}
    BY <1>0 DEF PlanType, Made
  <2>3. ok => Agrees(r)
    <3> HIDE DEF r, mine
    <3> QED BY <2>2 DEF Agrees, Market!Unchanging, ToSet
  <2>4. ToSet(mine.wanted) = {} /\ Extended(mine.queue) = {}
    BY <2>1 DEF ToSet, Extended
  <2> HIDE DEF r, ok
  <2>5. Complete(r)
    BY <1>0, <2>1, <2>2, <2>4 DEF Complete, Made
  <2> QED BY <2>1, <2>2, <2>3, <2>5, PlanStep DEF Made
<1> QED BY <1>1, <1>2, <1>4, <1>5, <1>6, <1>7

LEMMA ApplySteps ==
    ASSUME MarketInv, NEW x \in Names,
           \/ Market!Check(x) \/ Market!InstallsLater(x) \/ Market!Waited(x)
           \/ \E s \in {"userActionRequired", "pendingUserTrust"} : Market!Declined(x, s)
           \/ \E p \in Prepares : plan[p].at # "ready" /\ Market!Apply(x, p)
    PROVE  MarketInv'
<1> DEFINE mine == apply[x]
           members == plan[mine.plan].result
<1>0. /\ mine \in ApplyType /\ Applied(mine) /\ apply \in [Names -> ApplyType]
      /\ mine.plan # Nil => members \in Seq(Members)
  BY WorkspaceAssumption DEF MarketInv, MarketType, ApplyType, PlanType
\* An application that is over, or waits.
<1>1. ASSUME NEW then \in {"refused", "waiting", "alreadyInstalled", "installed", "pendingReload",
                           "userActionRequired", "pendingUserTrust"},
             NEW r \in ApplyType, r.at = then, r.plan = mine.plan, r.quiet = mine.quiet,
             r.gave = mine.gave, r.replaced = mine.replaced,
             mine.plan = Nil => then = "refused",
             mine.asked => then \in {"waiting", "installed", "pendingReload"},
             r.asked = mine.asked \/ (r.asked /\ then = "waiting" /\ mine.plan # Nil),
             apply' = [apply EXCEPT ![x] = r],
             UNCHANGED <<market, installed, candidates, plan>>
      PROVE  MarketInv'
  <2>1. mine.asked => r.asked
    BY <1>1
  <2>2. ~mine.asked => r.gave = {} /\ r.replaced = {}
    BY <1>0, <1>1 DEF Applied
  <2>3. Applied(r)
    BY <1>0, <1>1, <2>2 DEF Applied
  <2> QED BY <1>1, <2>1, <2>3, ApplyStep
<1>2. ASSUME Market!Check(x) PROVE MarketInv'
  <2> DEFINE member == Head(mine.unchecked)
             rest == Tail(mine.unchecked)
             then == IF market[member.extension] # member.version THEN "refused"
                     ELSE IF rest # <<>> THEN "checking"
                     ELSE IF installed[Market!Target(x).extension] = Market!Target(x).version
                          THEN "alreadyInstalled" ELSE "asking"
             r == [mine EXCEPT !.at = then, !.unchecked = rest]
  <2>1. /\ mine.at = "checking" /\ apply' = [apply EXCEPT ![x] = r]
        /\ UNCHANGED <<market, installed, candidates, plan>>
    BY <1>2, <1>0 DEF Market!Check, ApplyType
  <2>2. /\ mine.plan # Nil /\ ~mine.asked /\ mine.unchecked # <<>> /\ mine.gave = {} /\ mine.replaced = {}
        /\ plan[mine.plan].at = "used"
    BY <1>0, <2>1 DEF Applied
  <2>3. /\ then \in {"refused", "checking", "alreadyInstalled", "asking"}
        /\ then = "checking" => rest # <<>>
        /\ then \in {"checking", "asking"} => market[member.extension] = member.version
        /\ then = "asking" => rest = <<>>
    OBVIOUS
  <2>4. rest \in Seq(Members) /\ ToSet(mine.unchecked) = {member} \cup ToSet(rest)
    BY <1>0, <2>2, ToSetOfTail DEF ApplyType
  <2> HIDE DEF then, rest, member
  <2>5. /\ r \in ApplyType /\ r.at = then /\ r.unchecked = rest
        /\ r.plan = mine.plan /\ r.quiet = mine.quiet /\ r.asked = mine.asked
        /\ r.gave = mine.gave /\ r.replaced = mine.replaced
    BY <1>0, <2>3, <2>4 DEF ApplyType
  <2> HIDE DEF r
  <2>6. mine.quiet => \A m \in ToSet(members) : market[m.extension] = m.version \/ m \in ToSet(mine.unchecked)
    BY <1>0, <2>1 DEF Applied
  <2>7. then \in {"checking", "asking"} /\ mine.quiet
          => \A m \in ToSet(members) : market[m.extension] = m.version \/ m \in ToSet(rest)
    BY <2>3, <2>4, <2>6
  <2>8. rest = <<>> => ToSet(rest) = {}
    BY DEF ToSet
  <2>9. Applied(r)
    BY <2>2, <2>3, <2>5, <2>7, <2>8 DEF Applied, Offered
  <2> QED BY <2>1, <2>2, <2>5, <2>9, ApplyStep
<1>3. ASSUME Market!InstallsLater(x) PROVE MarketInv'
  <2> DEFINE r == [mine EXCEPT !.at = "waiting", !.asked = TRUE]
  <2>1. /\ mine.at = "asking" /\ apply' = [apply EXCEPT ![x] = r]
        /\ UNCHANGED <<market, installed, candidates, plan>>
    BY <1>3, <1>0 DEF Market!InstallsLater, ApplyType
  <2>2. /\ r \in ApplyType /\ r.at = "waiting" /\ r.plan = mine.plan /\ r.quiet = mine.quiet
        /\ r.gave = mine.gave /\ r.replaced = mine.replaced /\ r.asked
    BY <1>0 DEF ApplyType
  <2>3. mine.plan # Nil /\ ~mine.asked
    BY <1>0, <2>1 DEF Applied
  <2> HIDE DEF r
  <2> QED BY <1>1, <2>1, <2>2, <2>3
<1>4. ASSUME Market!Waited(x) PROVE MarketInv'
  <2> DEFINE then == IF installed[Market!Target(x).extension] = Market!Target(x).version
                     THEN "installed" ELSE "pendingReload"
             r == [mine EXCEPT !.at = then]
  <2>1. /\ mine.at = "waiting" /\ apply' = [apply EXCEPT ![x] = r]
        /\ UNCHANGED <<market, installed, candidates, plan>>
    BY <1>4, <1>0 DEF Market!Waited, ApplyType
  <2>2. then \in {"installed", "pendingReload"}
    OBVIOUS
  <2> HIDE DEF then
  <2>3. /\ r \in ApplyType /\ r.at = then /\ r.plan = mine.plan /\ r.quiet = mine.quiet
        /\ r.gave = mine.gave /\ r.replaced = mine.replaced /\ r.asked = mine.asked
    BY <1>0, <2>2 DEF ApplyType
  <2>4. mine.plan # Nil
    BY <1>0, <2>1 DEF Applied
  <2> HIDE DEF r
  <2> QED BY <1>1, <2>1, <2>2, <2>3, <2>4
<1>5. ASSUME NEW s \in {"userActionRequired", "pendingUserTrust"}, Market!Declined(x, s)
      PROVE  MarketInv'
  <2> DEFINE r == [mine EXCEPT !.at = s]
  <2>1. /\ mine.at = "asking" /\ apply' = [apply EXCEPT ![x] = r]
        /\ UNCHANGED <<market, installed, candidates, plan>>
    BY <1>5, <1>0 DEF Market!Declined, ApplyType
  <2>2. /\ r \in ApplyType /\ r.at = s /\ r.plan = mine.plan /\ r.quiet = mine.quiet
        /\ r.gave = mine.gave /\ r.replaced = mine.replaced /\ r.asked = mine.asked
    BY <1>0 DEF ApplyType
  <2>3. mine.plan # Nil /\ ~mine.asked
    BY <1>0, <2>1 DEF Applied
  <2> HIDE DEF r
  <2> QED BY <1>1, <2>1, <2>2, <2>3
<1>6. ASSUME NEW p \in Prepares, plan[p].at # "ready", Market!Apply(x, p) PROVE MarketInv'
  <2> DEFINE r == [mine EXCEPT !.at = "refused"]
  <2>1. /\ mine.at = "idle" /\ apply' = [apply EXCEPT ![x] = r]
        /\ UNCHANGED <<market, installed, candidates, plan>>
    BY <1>6, <1>0 DEF Market!Apply, ApplyType
  <2>2. /\ r \in ApplyType /\ r.at = "refused" /\ r.plan = mine.plan /\ r.quiet = mine.quiet
        /\ r.gave = mine.gave /\ r.replaced = mine.replaced /\ r.asked = mine.asked
    BY <1>0 DEF ApplyType
  <2>3. ~mine.asked
    BY <1>0, <2>1 DEF Applied
  <2> HIDE DEF r
  <2> QED BY <1>1, <2>1, <2>2, <2>3
<1> QED BY <1>2, <1>3, <1>4, <1>5, <1>6

LEMMA TakesPlan ==
    ASSUME MarketInv, NEW x \in Names, NEW p \in Prepares, plan[p].at = "ready", Market!Apply(x, p)
    PROVE  MarketInv'
<1> USE WorkspaceAssumption DEF Market!InstallAssumption
<1> DEFINE r == [apply[x] EXCEPT !.at = "checking", !.plan = p, !.unchecked = plan[p].result]
           taken == [plan[p] EXCEPT !.at = "used"]
<1>1. /\ apply[x] \in ApplyType /\ plan[p] \in PlanType /\ Applied(apply[x])
      /\ apply \in [Names -> ApplyType] /\ plan \in [Prepares -> PlanType]
      /\ Complete(plan[p]) /\ \A y \in Names : Applied(apply[y])
  BY DEF MarketInv, MarketType
<1>2. /\ apply[x].at = "idle" /\ apply' = [apply EXCEPT ![x] = r] /\ plan' = [plan EXCEPT ![p] = taken]
      /\ UNCHANGED <<market, installed, candidates>>
  BY <1>1 DEF Market!Apply, Market!ToCheck, ApplyType, PlanType
<1>3. \A y \in Names : apply[y].plan # p
  BY <1>1 DEF Applied
<1>4. /\ r \in ApplyType /\ r.at = "checking" /\ r.plan = p /\ r.unchecked = plan[p].result
      /\ r.asked = apply[x].asked /\ r.gave = apply[x].gave /\ r.replaced = apply[x].replaced
  BY <1>1 DEF ApplyType, PlanType
<1>5. /\ taken \in PlanType /\ taken.at = "used" /\ taken.result = plan[p].result
      /\ taken.changed = plan[p].changed
  BY <1>1 DEF PlanType, Made
<1> HIDE DEF r, taken
<1>6. /\ apply' \in [Names -> ApplyType] /\ apply'[x] = r /\ \A y \in Names \ {x} : apply'[y] = apply[y]
      /\ plan' \in [Prepares -> PlanType] /\ plan'[p] = taken /\ \A q \in Prepares \ {p} : plan'[q] = plan[q]
  BY <1>1, <1>2, <1>4, <1>5
<1>7. MarketType'
  BY <1>2, <1>6 DEF MarketInv, MarketType
<1>8. Complete(taken)
  BY <1>1, <1>2, <1>5 DEF Complete, Made
<1>9. ~apply[x].asked /\ apply[x].gave = {} /\ apply[x].replaced = {}
  BY <1>1, <1>2 DEF Applied
<1>10. ASSUME NEW q \in Prepares
       PROVE  Complete(plan[q])' /\ (plan'[q].at \in Made => Agrees(plan[q])' \/ Asked(q)')
  <2>1. CASE q = p
    <3>1. Agrees(plan[p])
      BY <1>3 DEF MarketInv, Asked, Made
    <3> QED BY <1>2, <1>5, <1>6, <1>8, <2>1, <3>1 DEF Complete, Agrees
  <2>2. CASE q # p
    <3>1. Asked(q) => Asked(q)'
      BY <1>6, <1>9 DEF Asked
    <3> QED BY <1>2, <1>6, <2>2, <3>1 DEF MarketInv, Complete, Agrees
  <2> QED BY <2>1, <2>2
<1>11. ASSUME NEW y \in Names PROVE Applied(apply[y])'
  <2>1. CASE y = x
    <3>1. /\ apply'[x].plan = p /\ apply'[x].at = "checking" /\ ~apply'[x].asked
          /\ apply'[x].gave = {} /\ apply'[x].replaced = {}
          /\ apply'[x].unchecked = plan[p].result
          /\ plan'[p].at = "used" /\ plan'[p].result = plan[p].result
      BY <1>4, <1>5, <1>6, <1>9
    <3>2. plan[p].result # <<>> /\ p # Nil
      BY <1>1 DEF Complete, Made
    <3> QED BY <2>1, <3>1, <3>2 DEF Applied
  <2>2. CASE y # x
    <3>1. apply'[y] = apply[y] /\ (apply[y].plan # Nil => plan'[apply[y].plan] = plan[apply[y].plan])
      BY <1>1, <1>3, <1>6, <2>2 DEF ApplyType
    <3> QED BY <1>1, <1>2, <3>1 DEF Applied, Offered
  <2> QED BY <2>1, <2>2
<1>12. \A y, z \in Names : apply'[y].plan = apply'[z].plan /\ apply'[y].plan # Nil => y = z
  BY <1>3, <1>4, <1>6 DEF MarketInv
<1> QED BY <1>7, <1>10, <1>11, <1>12 DEF MarketInv

\* What VS Code installs of a plan that has all it needs is in the plan.
LEMMA BundleWithin ==
    ASSUME NEW S \in SUBSET Extensions, NEW e \in S,
           \A d \in S : market[d] > 0 => ToSet(Needs(d, market[d])) \subseteq S
    PROVE  Market!Bundle(e) \subseteq S
<1>1. \A d \in S : market[d] > 0 =>
          \A need \in ToSet(Needs(d, market[d])) : installed[need] > 0 \/ need \in S
  OBVIOUS
<1>2. Market!Closed(S)
  BY <1>1, SameToSet DEF Market!Closed
<1> QED BY <1>2 DEF Market!Bundle

LEMMA InstallStep ==
    ASSUME MarketInv, NEW x \in Names, Market!Installs(x)
    PROVE  MarketInv'
<1> USE WorkspaceAssumption DEF Market!InstallAssumption
<1> DEFINE p == apply[x].plan
           members == plan[p].result
           all == Market!Bundle(Market!Target(x).extension)
           gave == {Market!Member(d, market[d]) : d \in all}
           replaced == {d \in all : installed[d] \notin {0, market[d]}}
           r == [apply[x] EXCEPT !.at = "waiting", !.asked = TRUE, !.gave = gave, !.replaced = replaced]
<1>1. /\ apply[x] \in ApplyType /\ \A y \in Names : Applied(apply[y])
      /\ apply \in [Names -> ApplyType] /\ plan \in [Prepares -> PlanType]
      /\ market \in [Extensions -> Versions] /\ installed \in [Extensions -> Versions]
  BY DEF MarketInv, MarketType
<1>2. /\ apply[x].at = "asking" /\ \A d \in all : market[d] > 0
      /\ installed' = [d \in Extensions |-> IF d \in all THEN market[d] ELSE installed[d]]
      /\ apply' = [apply EXCEPT ![x] = r]
      /\ plan' = [q \in Prepares |-> IF q = p THEN plan[q] ELSE [plan[q] EXCEPT !.changed = @ \cup all]]
      /\ UNCHANGED <<market, candidates>>
  BY <1>1 DEF Market!Installs, ApplyType
<1>3. /\ p \in Prepares /\ plan[p].at = "used" /\ ~apply[x].asked
      /\ members \in Seq(Members) /\ Complete(plan[p])
      /\ apply[x].quiet => Offered(members)
      /\ apply[x].quiet \in BOOLEAN
  BY <1>1, <1>2 DEF MarketInv, ApplyType, Applied, PlanType
<1>4. members # <<>> /\ Wanted(members) \subseteq Extended(members)
  BY <1>3 DEF Complete, Made
<1>5. all \subseteq Extensions
  BY DEF Market!Bundle
<1>6. apply[x].quiet => all \subseteq Extended(members)
  <2> SUFFICES ASSUME apply[x].quiet PROVE all \subseteq Extended(members)
    OBVIOUS
  <2>1. Extended(members) \subseteq Extensions /\ Market!Target(x).extension \in Extended(members)
    <3>1. ToSet(members) \subseteq Members /\ Head(members) \in ToSet(members)
      BY <1>3, <1>4, ToSetType
    <3>2. \A m \in Members : m.extension \in Extensions
      BY DEF Members
    <3> QED BY <3>1, <3>2 DEF Extended, Market!Target
  <2>2. ASSUME NEW d \in Extended(members)
        PROVE  ToSet(Needs(d, market[d])) \subseteq Extended(members)
    <3>1. PICK m \in ToSet(members) : m.extension = d
      BY DEF Extended
    <3>2. market[d] = m.version
      BY <1>3, <3>1 DEF Offered
    <3> QED BY <1>4, <3>1, <3>2 DEF Wanted
  <2> HIDE DEF members
  <2> QED BY <2>1, <2>2, BundleWithin
<1>7. apply[x].quiet => gave \subseteq ToSet(members)
  <2> SUFFICES ASSUME apply[x].quiet, NEW d \in all PROVE Market!Member(d, market[d]) \in ToSet(members)
    OBVIOUS
  <2>1. PICK m \in ToSet(members) : m.extension = d
    BY <1>6 DEF Extended
  <2>2. market[d] = m.version /\ m \in Members
    BY <1>3, <2>1, ToSetType DEF Offered
  <2>3. m = [extension |-> d, version |-> market[d]]
    BY <2>1, <2>2 DEF Members
  <2> QED BY <2>1, <2>3 DEF Market!Member
<1>8. apply[x].quiet => replaced \subseteq plan[p].changed
  <2> SUFFICES ASSUME apply[x].quiet, NEW d \in all, installed[d] \notin {0, market[d]}
               PROVE  d \in plan[p].changed
    OBVIOUS
  <2>1. PICK m \in ToSet(members) : m.extension = d
    BY <1>6 DEF Extended
  <2>2. market[d] = m.version
    BY <1>3, <2>1 DEF Offered
  <2>3. ~Asked(p)
    BY <1>3 DEF MarketInv, Asked
  <2>4. Agrees(plan[p])
    BY <1>3, <2>3 DEF MarketInv, Made
  <2> QED BY <2>1, <2>2, <2>4 DEF Agrees
<1>9. gave \subseteq Members /\ replaced \subseteq Extensions
  <2>1. \A d \in all : Market!Member(d, market[d]) \in Members
    BY <1>1, <1>5 DEF Members, Market!Member
  <2> QED BY <1>5, <2>1
<1> HIDE DEF all, gave, replaced
<1>10. /\ r \in ApplyType /\ r.at = "waiting" /\ r.asked /\ r.gave = gave /\ r.replaced = replaced
       /\ r.plan = p /\ r.quiet = apply[x].quiet
  BY <1>1, <1>9 DEF ApplyType
<1> HIDE DEF r, p
<1>11. /\ apply' \in [Names -> ApplyType] /\ apply'[x] = r
       /\ \A y \in Names \ {x} : apply'[y] = apply[y]
  BY <1>1, <1>2, <1>10
<1>12. ASSUME NEW q \in Prepares
       PROVE  /\ plan'[q] \in PlanType /\ plan'[q].at = plan[q].at /\ plan'[q].result = plan[q].result
              /\ plan'[q].queue = plan[q].queue /\ plan'[q].wanted = plan[q].wanted
              /\ plan'[q].candidate = plan[q].candidate
              /\ plan'[q].changed = IF q = p THEN plan[q].changed ELSE plan[q].changed \cup all
  BY <1>1, <1>2, <1>5 DEF PlanType
<1>13. MarketType'
  <2>1. installed' \in [Extensions -> Versions]
    BY <1>1, <1>2
  <2>2. plan' \in [Prepares -> PlanType]
    BY <1>2, <1>12
  <2> QED BY <1>2, <1>11, <2>1, <2>2 DEF MarketInv, MarketType
<1>14. ASSUME NEW q \in Prepares
       PROVE  Complete(plan[q])' /\ (plan'[q].at \in Made => Agrees(plan[q])' \/ Asked(q)')
  <2>1. Complete(plan[q])'
    BY <1>12 DEF MarketInv, Complete
  <2>2. q = p => Asked(q)'
    BY <1>10, <1>11 DEF Asked
  <2>3. Asked(q) => Asked(q)'
    <3>1. \A y \in Names : apply[y].plan = q /\ apply[y].asked
                            => apply'[y].plan = q /\ apply'[y].asked
      BY <1>3, <1>11
    <3> QED BY <3>1 DEF Asked
  <2>4. ASSUME q # p, plan[q].at \in Made, Agrees(plan[q]) PROVE Agrees(plan[q])'
    <3> SUFFICES ASSUME NEW m \in ToSet(plan[q].result)
                 PROVE  installed'[m.extension] \in {0, m.version} \/ m.extension \in plan'[q].changed
      BY <1>12 DEF Agrees
    <3>1. plan[q].result \in Seq(Members) /\ \A k \in Members : k.extension \in Extensions
      BY <1>1 DEF PlanType, Members
    <3>2. m.extension \in Extensions
      BY <3>1, ToSetType
    <3>3. installed[m.extension] \in {0, m.version} \/ m.extension \in plan[q].changed
      BY <2>4 DEF Agrees
    <3>4. plan'[q].changed = plan[q].changed \cup all
      BY <1>12, <2>4
    <3>5. m.extension \notin all => installed'[m.extension] = installed[m.extension]
      BY <1>2, <3>2
    <3> QED BY <3>3, <3>4, <3>5
  <2> QED BY <1>12, <2>1, <2>2, <2>3, <2>4 DEF MarketInv
<1>15. ASSUME NEW y \in Names PROVE Applied(apply[y])'
  <2>1. CASE y = x
    <3>1. /\ apply'[x].plan = p /\ apply'[x].at = "waiting" /\ apply'[x].asked
          /\ apply'[x].gave = gave /\ apply'[x].replaced = replaced
          /\ apply'[x].quiet = apply[x].quiet
      BY <1>10, <1>11
    <3>2. p \in Prepares /\ plan[p].at = "used"
      BY <1>3 DEF p
    <3>3. /\ apply[x].quiet => gave \subseteq ToSet(plan[p].result)
          /\ apply[x].quiet => replaced \subseteq plan[p].changed
      BY SMTT(30), <1>7, <1>8 DEF p
    <3> QED BY <1>12, <2>1, <3>1, <3>2, <3>3 DEF Applied
  <2>2. CASE y # x
    <3>1. apply'[y] = apply[y] /\ apply[y].plan \in Prepares \cup {Nil} /\ Applied(apply[y])
      BY <1>1, <1>11, <2>2 DEF ApplyType
    <3>2. apply[y].plan # Nil => /\ plan'[apply[y].plan].at = plan[apply[y].plan].at
                                 /\ plan'[apply[y].plan].result = plan[apply[y].plan].result
                                 /\ plan[apply[y].plan].changed \subseteq plan'[apply[y].plan].changed
      BY <1>12, <3>1
    <3> QED BY <1>2, <3>1, <3>2 DEF Applied, Offered
  <2> QED BY <2>1, <2>2
<1>16. \A y, z \in Names : apply'[y].plan = apply'[z].plan /\ apply'[y].plan # Nil => y = z
  <2>1. \A y \in Names : apply'[y].plan = apply[y].plan
    BY <1>10, <1>11 DEF p
  <2> QED BY <2>1 DEF MarketInv
<1> QED BY <1>13, <1>14, <1>15, <1>16 DEF MarketInv

\* The Marketplace, the user, and a search.
LEMMA Surroundings ==
    ASSUME MarketInv,
           \/ Market!Search \/ \E k \in candidates : Market!CandidateExpires(k)
           \/ \E e \in Extensions, v \in Versions : Market!Release(e, v) \/ Market!UserChanges(e, v)
    PROVE  MarketInv'
<1> USE WorkspaceAssumption DEF Market!InstallAssumption
<1>0. /\ apply \in [Names -> ApplyType] /\ plan \in [Prepares -> PlanType]
      /\ market \in [Extensions -> Versions] /\ installed \in [Extensions -> Versions]
      /\ \A y \in Names : Applied(apply[y])
  BY DEF MarketInv, MarketType
<1>1. ASSUME candidates' \subseteq Members, UNCHANGED <<market, installed, plan, apply>>
      PROVE  MarketInv'
  BY <1>1, MarketRests
<1>2. CASE Market!Search
  <2>1. \A e \in Extensions : Market!Member(e, market[e]) \in Members /\ Market!Member(e, installed[e]) \in Members
    BY <1>0 DEF Members, Market!Member
  <2>2. candidates' \subseteq Members
    BY <1>2, <2>1 DEF Market!Search, MarketInv, MarketType
  <2> QED BY <1>1, <1>2, <2>2 DEF Market!Search
<1>3. CASE \E k \in candidates : Market!CandidateExpires(k)
  BY <1>1, <1>3 DEF Market!CandidateExpires, MarketInv, MarketType
<1>4. ASSUME NEW e \in Extensions, NEW v \in Versions, Market!Release(e, v) PROVE MarketInv'
  <2>1. market' \in [Extensions -> Versions] /\ UNCHANGED <<installed, candidates, plan>>
    BY <1>0, <1>4 DEF Market!Release
  <2>2. ASSUME NEW y \in Names
        PROVE  /\ apply'[y] \in ApplyType /\ apply'[y].at = apply[y].at /\ apply'[y].plan = apply[y].plan
               /\ apply'[y].unchecked = apply[y].unchecked /\ apply'[y].asked = apply[y].asked
               /\ apply'[y].gave = apply[y].gave /\ apply'[y].replaced = apply[y].replaced
               /\ apply'[y].quiet => (apply[y].quiet /\ apply[y].at \notin {"checking", "asking"})
    <3> DEFINE quiet == apply[y].quiet /\ apply[y].at \notin {"checking", "asking"}
    <3>1. quiet \in BOOLEAN /\ (quiet => apply[y].quiet /\ apply[y].at \notin {"checking", "asking"})
      BY <1>0 DEF ApplyType
    <3>2. apply'[y] = [apply[y] EXCEPT !.quiet = quiet]
      BY <1>0, <1>4 DEF Market!Release, ApplyType
    <3>3. ASSUME NEW k \in BOOLEAN, NEW r, r = [apply[y] EXCEPT !.quiet = k]
          PROVE  /\ r \in ApplyType /\ r.quiet = k /\ r.at = apply[y].at /\ r.plan = apply[y].plan
                 /\ r.unchecked = apply[y].unchecked /\ r.asked = apply[y].asked
                 /\ r.gave = apply[y].gave /\ r.replaced = apply[y].replaced
      <4> DEFINE z == apply[y]
      <4>1. z \in ApplyType
        BY <1>0
      <4>2. r = [z EXCEPT !.quiet = k]
        BY <3>3
      <4> HIDE DEF z
      <4>3. r \in ApplyType
        BY <4>1, <4>2 DEF ApplyType
      <4>4. /\ r.quiet = k /\ r.at = z.at /\ r.plan = z.plan /\ r.unchecked = z.unchecked /\ r.asked = z.asked
            /\ r.gave = z.gave /\ r.replaced = z.replaced
        BY <4>1, <4>2 DEF ApplyType
      <4> QED BY <4>3, <4>4 DEF z
    <3> HIDE DEF quiet
    <3> QED BY <3>1, <3>2, <3>3
  <2>3. apply' \in [Names -> ApplyType]
    <3>1. apply' = [y \in Names |-> apply'[y]]
      BY <1>4 DEF Market!Release
    <3> QED BY <2>2, <3>1
  <2>4. \A y \in Names : Applied(apply[y])'
    BY <1>0, <2>1, <2>2 DEF Applied
  <2>5. ASSUME NEW p \in Prepares
        PROVE  Complete(plan[p])' /\ (plan'[p].at \in Made => Agrees(plan[p])' \/ Asked(p)')
    <3>1. Complete(plan[p]) /\ (plan[p].at \in Made => Agrees(plan[p]) \/ Asked(p))
      BY DEF MarketInv
    <3>2. Complete(plan[p])' /\ plan'[p] = plan[p]
      BY <2>1, <3>1 DEF Complete
    <3>3. Agrees(plan[p]) => Agrees(plan[p])'
      BY <2>1 DEF Agrees
    <3>4. Asked(p) => Asked(p)'
      BY <2>2 DEF Asked
    <3> QED BY <3>1, <3>2, <3>3, <3>4
  <2>6. MarketType'
    BY <2>1, <2>3 DEF MarketInv, MarketType
  <2> QED BY <2>2, <2>4, <2>5, <2>6 DEF MarketInv
<1>5. ASSUME NEW e \in Extensions, NEW v \in Versions, Market!UserChanges(e, v) PROVE MarketInv'
  <2>1. /\ installed' \in [Extensions -> Versions] /\ UNCHANGED <<market, candidates, apply>>
        /\ \A d \in Extensions \ {e} : installed'[d] = installed[d]
    BY <1>0, <1>5 DEF Market!UserChanges
  <2>2. ASSUME NEW q \in Prepares
        PROVE  /\ plan'[q] \in PlanType /\ plan'[q].at = plan[q].at /\ plan'[q].result = plan[q].result
               /\ plan'[q].queue = plan[q].queue /\ plan'[q].wanted = plan[q].wanted
               /\ plan'[q].candidate = plan[q].candidate
               /\ plan'[q].changed = IF plan[q].at = "idle" THEN plan[q].changed
                                                            ELSE plan[q].changed \cup {e}
    <3> DEFINE now == IF plan[q].at = "idle" THEN plan[q].changed ELSE plan[q].changed \cup {e}
    <3>1. plan'[q] = [plan[q] EXCEPT !.changed = now] /\ plan[q] \in PlanType
      BY <1>0, <1>5 DEF Market!UserChanges, PlanType
    <3>2. now \in SUBSET Extensions
      BY <3>1 DEF PlanType
    <3> HIDE DEF now
    <3>3. /\ plan'[q] \in PlanType /\ plan'[q].at = plan[q].at /\ plan'[q].result = plan[q].result
          /\ plan'[q].queue = plan[q].queue /\ plan'[q].wanted = plan[q].wanted
          /\ plan'[q].candidate = plan[q].candidate /\ plan'[q].changed = now
      BY <3>1, <3>2 DEF PlanType
    <3> QED BY <3>3 DEF now
  <2>3. plan' \in [Prepares -> PlanType]
    BY <1>5, <2>2 DEF Market!UserChanges
  <2>4. ASSUME NEW q \in Prepares, plan[q].at \in Made, Agrees(plan[q]) PROVE Agrees(plan[q])'
    <3> SUFFICES ASSUME NEW m \in ToSet(plan[q].result)
                 PROVE  installed'[m.extension] \in {0, m.version} \/ m.extension \in plan'[q].changed
      BY <2>2 DEF Agrees
    <3>1. plan[q].result \in Seq(Members) /\ \A k \in Members : k.extension \in Extensions
      BY <1>0 DEF PlanType, Members
    <3>2. m.extension \in Extensions
      BY <3>1, ToSetType
    <3>3. installed[m.extension] \in {0, m.version} \/ m.extension \in plan[q].changed
      BY <2>4 DEF Agrees
    <3>4. plan'[q].changed = plan[q].changed \cup {e}
      BY <2>2, <2>4 DEF Made
    <3> QED BY <2>1, <3>2, <3>3, <3>4
  <2>5. ASSUME NEW q \in Prepares
        PROVE  Complete(plan[q])' /\ (plan'[q].at \in Made => Agrees(plan[q])' \/ Asked(q)')
    <3>1. Complete(plan[q]) /\ (plan[q].at \in Made => Agrees(plan[q]) \/ Asked(q))
      BY DEF MarketInv
    <3>2. Complete(plan[q])' /\ plan'[q].at = plan[q].at
      BY <2>2, <3>1 DEF Complete
    <3>3. Asked(q) => Asked(q)'
      BY <2>1 DEF Asked
    <3> QED BY <2>4, <3>1, <3>2, <3>3
  <2>6. ASSUME NEW y \in Names PROVE Applied(apply[y])'
    <3>1. apply[y].plan \in Prepares \cup {Nil}
      BY <1>0 DEF ApplyType
    <3>2. apply[y].plan # Nil => /\ plan'[apply[y].plan].at = plan[apply[y].plan].at
                                 /\ plan'[apply[y].plan].result = plan[apply[y].plan].result
                                 /\ plan[apply[y].plan].changed \subseteq plan'[apply[y].plan].changed
      BY <2>2, <3>1
    <3> QED BY <1>0, <2>1, <3>1, <3>2 DEF Applied, Offered
  <2>7. MarketType'
    BY <2>1, <2>3 DEF MarketInv, MarketType
  <2> QED BY <2>1, <2>5, <2>6, <2>7 DEF MarketInv
<1> QED BY <1>2, <1>3, <1>4, <1>5

LEMMA MarketStep == MarketInv /\ [Market!Next]_marketVars => MarketInv'
<1> SUFFICES ASSUME MarketInv, [Market!Next]_marketVars PROVE MarketInv'
  OBVIOUS
<1>1. CASE UNCHANGED marketVars
  BY <1>1, MarketRests DEF marketVars, MarketInv, MarketType
<1>2. CASE \/ Market!Search \/ \E k \in candidates : Market!CandidateExpires(k)
           \/ \E e \in Extensions, v \in 0..MaxVersion : Market!Release(e, v) \/ Market!UserChanges(e, v)
  BY <1>2, Surroundings DEF Versions
<1>3. ASSUME NEW p \in Prepares,
             \/ Market!PlanExpires(p) \/ Market!Primary(p) \/ Market!Expand(p) \/ Market!Resolve(p)
             \/ Market!Ready(p) \/ \E k \in candidates : Market!Prepare(p, k)
      PROVE  MarketInv'
  BY <1>3, PlanSteps
<1>4. ASSUME NEW x \in Names,
             \/ Market!Check(x) \/ Market!Installs(x) \/ Market!InstallsLater(x) \/ Market!Waited(x)
             \/ \E p \in Prepares : Market!Apply(x, p)
             \/ \E s \in {"userActionRequired", "pendingUserTrust"} : Market!Declined(x, s)
      PROVE  MarketInv'
  BY <1>4, ApplySteps, TakesPlan, InstallStep
<1> QED BY <1>1, <1>2, <1>3, <1>4 DEF Market!Next

\* A plan is carried out once; while the Marketplace stays as it was checked, VS Code installs for it
\* only what the plan says, and replaces only what was changed since the plan was made.  The needs of
\* extensions are any sequences.
THEOREM PlansAreKept == Market!Spec => []InstallsAsPlanned
<1>1. MarketInv => InstallsAsPlanned
  <2> SUFFICES ASSUME MarketInv PROVE Market!InstallsAsPlanned
    BY DEF InstallsAsPlanned
  <2>1. \A x \in Names : Applied(apply[x]) /\ (apply[x].asked => apply[x].plan # Nil)
    BY DEF MarketInv, Applied
  <2>2. \A x, y \in Names : apply[x].plan = apply[y].plan /\ apply[x].plan # Nil => x = y
    BY DEF MarketInv
  <2>3. \A x \in Names : apply[x].asked /\ apply[x].quiet =>
           /\ apply[x].gave \subseteq ToSet(plan[apply[x].plan].result)
           /\ apply[x].replaced \subseteq plan[apply[x].plan].changed
    BY <2>1 DEF Applied
  <2> QED BY <2>1, <2>2, <2>3, SameToSet DEF Market!InstallsAsPlanned
<1>2. Market!Spec => []MarketInv
  <2> USE DEF marketVars, Market!vars
  <2> QED BY MarketInit, MarketStep, PTL DEF Market!Spec
<1> QED BY <1>1, <1>2, PTL

-----------------------------------------------------------------------------
(* ProfileJournal, for one window.  The queue of the window makes every    *)
(* operation on the journal whole: Queued says that what it will write is  *)
(* computed from the journal as it still is.  A change can then only be    *)
(* lost to a removal or to the limit: a removal is of a change that was    *)
(* not applied or is undone (Undoer, LastSet), and by the time an entry    *)
(* has become the oldest of a full journal, as many others were made after *)
(* it (Sound: each update has one entry, and only once it is under way).   *)

OneWindow == \E w : Windows = {w}
TheWindow == CHOOSE w : Windows = {w}
Values == Names \cup {v0}
Change == Profile!Change
Actors == Profile!Actors

Began(act, u) == act[u].at \notin {"idle", "begin"}
Others(act, u) == {v \in Calls \ {u} : act[v].at # "idle"}

\* A journal speaks of an update once, of what it asked for, and as pending until it is over.
Entry(act, e) ==
    /\ Began(act, e.id) /\ e.after = act[e.id].change.after
    /\ e.state # "pending" => act[e.id].at = "over"
Sound(act, s) ==
    /\ s \in Seq(Change) /\ Len(s) <= Limit
    /\ \A i, j \in 1..Len(s) : s[i].id = s[j].id => i = j
    /\ \A i \in 1..Len(s) : Entry(act, s[i])

Has(s, u) == \E i \in 1..Len(s) : s[i].id = u

Busy(act, a) == act[a].at \notin {"idle", "over"}

Acting(act, win, a) ==
    LET x == act[a]
    IN /\ x = [at |-> x.at, window |-> x.window, change |-> x.change]
       /\ x.at \in Profile!Writes \cup {"idle", "apply", "rollback", "check", "set", "over"}
       /\ x.at = "idle" => x.window = Nil
       /\ x.at # "idle" => x.change \in Change
       /\ Busy(act, a) => x.window = TheWindow /\ win[TheWindow] = "ready"

Updater(act, s, u) ==
    LET x == act[u]
    IN /\ x.at \notin {"check", "set"}
       /\ x.at # "idle" => x.change.id = u
       /\ x.at = "begin" => x.change.state = "pending"
       /\ x.at \in {"apply", "commit"} => Has(s, u)
       /\ \A v \in Calls : Busy(act, u) /\ Busy(act, v) => u = v

Undoer(act, latest, d) ==
    LET x == act[d]
    IN /\ x.at \in {"idle", "check", "set", "remove", "over"}
       /\ Busy(act, d) => act[x.change.id].at = "over"
       /\ x.at = "remove" => x.change.id # latest

LastSet(act, value, s, u) ==
    u # Nil => /\ value = act[u].change.after /\ act[u].at \in {"commit", "over"}
               /\ Has(s, u) \/ Cardinality(Others(act, u)) >= Limit

Queued(act, win, s, u, j) ==
    /\ win[TheWindow] = "ready" /\ j.by \in Actors =>
          /\ act[j.by].at \in Profile!Writes
          /\ \/ act[j.by].at = "begin" /\ j.changes = Profile!Newest(Append(s, act[j.by].change)) /\ j.changed
             \/ act[j.by].at = "commit" /\ j.changes = Profile!InState(s, act[j.by].change.id, "committed")
             \/ act[j.by].at = "mark" /\ j.changes = Profile!InState(s, act[j.by].change.id, "attentionRequired")
             \/ act[j.by].at = "remove" /\ j.changes = Profile!Without(s, act[j.by].change.id) /\ j.changed
    /\ win[TheWindow] = "starting" =>
          /\ Sound(act, j.changes)
          /\ u # Nil /\ Has(s, u) => Has(j.changes, u)

ProfileInv ==
    /\ setting \in Values /\ lastSetBy \in Calls \cup {Nil}
    /\ DOMAIN window = Windows /\ DOMAIN job = Windows /\ DOMAIN actor = Actors
    /\ window[TheWindow] \in {"down", "starting", "ready"}
    /\ Sound(actor, journal)
    /\ \A a \in Actors : Acting(actor, window, a)
    /\ \A u \in Calls : Updater(actor, journal, u)
    /\ \A d \in Undos : Undoer(actor, lastSetBy, d)
    /\ LastSet(actor, setting, journal, lastSetBy)
    /\ Queued(actor, window, journal, lastSetBy, job[TheWindow])

LEMMA SameFinite == \A S : Profile!IsFiniteSet(S) = IsFiniteSet(S)
  BY DEF IsFiniteSet, Profile!IsFiniteSet

LEMMA SameCardinality == \A S : Profile!Cardinality(S) = Cardinality(S)
  BY DEF Cardinality, Profile!Cardinality

LEMMA ProfileConstants ==
    ASSUME OneWindow
    PROVE  /\ Windows = {TheWindow} /\ IsFiniteSet(Calls) /\ Limit \in Nat \ {0}
           /\ Nil \notin Calls \cup Undos \cup Windows /\ Calls \cap Undos = {}
           /\ Calls \subseteq Actors /\ Undos \subseteq Actors /\ Actors = Calls \cup Undos
<1>1. Profile!JournalAssumption
  BY WorkspaceAssumption
<1>2. Windows = {TheWindow}
  BY DEF OneWindow, TheWindow
<1> QED BY <1>1, <1>2, SameFinite DEF Profile!JournalAssumption, Profile!Actors, Actors

LEMMA ChangeIs ==
    \A x \in Change : /\ x = [id |-> x.id, before |-> x.before, after |-> x.after, state |-> x.state]
                      /\ x.id \in Calls /\ x.before \in Values /\ x.after \in Values
                      /\ x.state \in {"pending", "committed", "attentionRequired"}
BY DEF Change, Profile!Change, Values

LEMMA SameProfileWhere == \A s, stay : Profile!Where(s, stay) = Where(s, stay)
  BY DEF Where, Profile!Where

LEMMA SameProfileSet == \A s : Profile!Range(s) = ToSet(s)
  BY DEF ToSet, Profile!Range

(***************************************************************************)
(* Journals                                                                *)
(***************************************************************************)

\* Updates that began have begun, ask for what they asked for, and remain over.
Moved(act, bct) ==
    \A u \in Calls : /\ Began(act, u) => Began(bct, u) /\ bct[u].change.after = act[u].change.after
                     /\ act[u].at = "over" => bct[u].at = "over"
                     /\ act[u].at # "idle" => bct[u].at # "idle"

LEMMA SoundMoves ==
    ASSUME NEW act, NEW bct, NEW s, Sound(act, s), Moved(act, bct)
    PROVE  Sound(bct, s)
<1>1. \A i \in 1..Len(s) : s[i] \in Change /\ s[i].id \in Calls
  BY ChangeIs DEF Sound
<1> QED BY <1>1 DEF Sound, Entry, Moved

LEMMA OthersMove ==
    ASSUME OneWindow, NEW act, NEW bct, NEW u, Moved(act, bct), Cardinality(Others(act, u)) >= Limit
    PROVE  Cardinality(Others(bct, u)) >= Limit
<1>1. Others(bct, u) \in SUBSET Calls /\ Others(act, u) \in SUBSET Others(bct, u)
  BY DEF Others, Moved
<1>2. IsFiniteSet(Others(bct, u)) /\ IsFiniteSet(Calls)
  BY <1>1, ProfileConstants, FS_Subset
<1>3. Cardinality(Others(act, u)) <= Cardinality(Others(bct, u)) /\ IsFiniteSet(Others(act, u))
  BY <1>1, <1>2, FS_Subset
<1>4. Cardinality(Others(act, u)) \in Nat /\ Cardinality(Others(bct, u)) \in Nat
  BY <1>2, <1>3, FS_CardinalityType
<1> QED BY <1>3, <1>4, ProfileConstants

\* #transition of what is over, or of what ends
LEMMA InStateKeeps ==
    ASSUME OneWindow, NEW act, NEW s, Sound(act, s), NEW u \in Calls, act[u].at = "over",
           NEW state \in {"committed", "attentionRequired"}
    PROVE  /\ Sound(act, Profile!InState(s, u, state))
           /\ \A v : Has(Profile!InState(s, u, state), v) <=> Has(s, v)
<1> DEFINE t == Profile!InState(s, u, state)
<1>1. s \in Seq(Change) /\ Len(s) \in Nat /\ DOMAIN s = 1..Len(s) /\ \A i \in 1..Len(s) : s[i] \in Change
  BY DEF Sound
<1>2. t = [i \in 1..Len(s) |-> IF s[i].id = u THEN [s[i] EXCEPT !.state = state] ELSE s[i]]
  BY <1>1 DEF Profile!InState
<1> HIDE DEF t
<1>3. \A x \in Change : /\ [x EXCEPT !.state = state] \in Change /\ [x EXCEPT !.state = state].id = x.id
                        /\ [x EXCEPT !.state = state].after = x.after
  BY DEF Change, Profile!Change
<1>4. t \in Seq(Change) /\ Len(t) = Len(s)
  BY <1>1, <1>2, <1>3
<1>5. \A i \in 1..Len(s) : t[i].id = s[i].id /\ t[i].after = s[i].after /\ (s[i].id # u => t[i] = s[i])
  BY <1>1, <1>2, <1>3
<1>6. Sound(act, t)
  BY SMTT(30), <1>1, <1>4, <1>5 DEF Sound, Entry
<1>7. \A v : Has(t, v) <=> Has(s, v)
  BY <1>4, <1>5 DEF Has
<1> QED BY <1>6, <1>7 DEF t

LEMMA PartIsSound ==
    ASSUME NEW act, NEW s, Sound(act, s), NEW stay
    PROVE  /\ Sound(act, Where(s, stay))
           /\ \A i \in 1..Len(s) : s[i] \in stay => Has(Where(s, stay), s[i].id)
           /\ \A j \in 1..Len(Where(s, stay)) : \E i \in 1..Len(s) : Where(s, stay)[j] = s[i] /\ s[i] \in stay
<1> DEFINE t == Where(s, stay)
<1>1. s \in Seq(Change) /\ Len(s) \in Nat /\ DOMAIN s = 1..Len(s)
  BY DEF Sound
<1>2. t \in Seq(Change) /\ Len(t) <= Len(s) /\ ToSet(t) = ToSet(s) \cap stay /\ InOrder(t, s)
  BY <1>1, WhereKeeps, WhereInOrder
<1> HIDE DEF t
<1>3. Len(t) \in Nat /\ DOMAIN t = 1..Len(t)
  BY <1>2
<1>4. \A j \in 1..Len(t) : \E i \in 1..Len(s) : t[j] = s[i] /\ s[i] \in stay
  BY <1>1, <1>2, <1>3 DEF ToSet
<1>5. \A i \in 1..Len(s) : s[i] \in stay => \E j \in 1..Len(t) : t[j] = s[i]
  BY <1>1, <1>2, <1>3 DEF ToSet
<1>6. ASSUME NEW j \in 1..Len(t), NEW k \in 1..Len(t), j < k PROVE t[j].id # t[k].id
  <2>1. j \in 1..(k - 1)
    BY <1>3, <1>6
  <2>2. PICK l \in 1..Len(s) : \E i \in 1..(l - 1) : s[i] = t[j] /\ s[l] = t[k]
    BY <1>2, <2>1 DEF InOrder
  <2>3. PICK i \in 1..(l - 1) : s[i] = t[j] /\ s[l] = t[k]
    BY <2>2
  <2>4. i \in 1..Len(s) /\ i # l
    BY <1>1, <2>2, <2>3
  <2> QED BY <2>2, <2>3, <2>4 DEF Sound
<1>7. \A j, k \in 1..Len(t) : t[j].id = t[k].id => j = k
  <2> TAKE j, k \in 1..Len(t)
  <2>1. j = k \/ j < k \/ k < j
    BY <1>3
  <2> QED BY <1>6, <2>1
<1>8. \A j \in 1..Len(t) : Entry(act, t[j])
  BY <1>4 DEF Sound
<1>9. Len(t) <= Limit
  BY <1>1, <1>2, <1>3, WorkspaceAssumption DEF Sound, Profile!JournalAssumption
<1>10. Sound(act, t)
  BY <1>2, <1>7, <1>8, <1>9 DEF Sound
<1>11. \A i \in 1..Len(s) : s[i] \in stay => Has(t, s[i].id)
  <2> TAKE i \in 1..Len(s)
  <2> HAVE s[i] \in stay
  <2>1. PICK j \in 1..Len(t) : t[j] = s[i]
    BY <1>5
  <2> QED BY <2>1 DEF Has
<1> QED BY <1>4, <1>10, <1>11 DEF t

LEMMA WithoutKeeps ==
    ASSUME NEW act, NEW s, Sound(act, s), NEW u
    PROVE  /\ Sound(act, Profile!Without(s, u))
           /\ \A v : v # u /\ Has(s, v) => Has(Profile!Without(s, u), v)
<1> DEFINE stay == {x \in ToSet(s) : x.id # u}
<1>1. Profile!Without(s, u) = Where(s, stay)
  BY SameProfileWhere, SameProfileSet DEF Profile!Without
<1>2. s \in Seq(Change) /\ DOMAIN s = 1..Len(s)
  BY DEF Sound
<1>3. \A i \in 1..Len(s) : s[i].id # u => s[i] \in stay
  BY <1>2 DEF ToSet
<1> HIDE DEF stay
<1>4. Sound(act, Where(s, stay)) /\ \A i \in 1..Len(s) : s[i] \in stay => Has(Where(s, stay), s[i].id)
  BY PartIsSound
<1>5. ASSUME NEW v, v # u, Has(s, v) PROVE Has(Where(s, stay), v)
  BY <1>3, <1>4, <1>5 DEF Has
<1> QED BY <1>1, <1>4, <1>5

\* When no update is under way, a recovery keeps what it reads, but for changes that were not applied.
LEMMA RecoveredKeeps ==
    ASSUME OneWindow, NEW act, Sound(act, journal), \A u \in Calls : act[u].at \in {"idle", "over"}
    PROVE  /\ Sound(act, Profile!Recovered(journal))
           /\ \A i \in 1..Len(journal) : setting = journal[i].after => Has(Profile!Recovered(journal), journal[i].id)
<1> DEFINE stay == {x \in ToSet(journal) : x.state = "pending" /\ setting = x.before => setting = x.after}
           kept == Where(journal, stay)
           Judged(x) == IF x.state # "pending" THEN x
                        ELSE [x EXCEPT !.state = IF setting = x.after THEN "committed" ELSE "attentionRequired"]
           t == Profile!Recovered(journal)
<1>1. t = [i \in DOMAIN kept |-> Judged(kept[i])]
  BY SameProfileWhere, SameProfileSet DEF Profile!Recovered
<1>2. journal \in Seq(Change) /\ DOMAIN journal = 1..Len(journal)
  BY DEF Sound
<1>3. \A i \in 1..Len(journal) : setting = journal[i].after => journal[i] \in stay
  BY <1>2 DEF ToSet
<1>4. /\ Sound(act, kept)
      /\ \A i \in 1..Len(journal) : journal[i] \in stay => Has(kept, journal[i].id)
  <2> HIDE DEF stay
  <2> QED BY PartIsSound
<1> HIDE DEF stay, kept, t
<1>5. kept \in Seq(Change) /\ DOMAIN kept = 1..Len(kept) /\ Len(kept) \in Nat /\ \A i \in 1..Len(kept) : kept[i] \in Change
  BY <1>4 DEF Sound
<1>6. \A x \in Change : /\ Judged(x) \in Change /\ Judged(x).id = x.id /\ Judged(x).after = x.after
  BY DEF Change, Profile!Change
<1> HIDE DEF Judged
<1>7. t \in Seq(Change) /\ Len(t) = Len(kept) /\ \A i \in 1..Len(kept) : t[i] = Judged(kept[i])
  BY <1>1, <1>5, <1>6
<1>8. \A i \in 1..Len(kept) : t[i].id = kept[i].id /\ t[i].after = kept[i].after
  BY <1>5, <1>6, <1>7
<1>9. \A i \in 1..Len(kept) : Entry(act, t[i])
  <2> TAKE i \in 1..Len(kept)
  <2>1. Entry(act, kept[i]) /\ kept[i].id \in Calls
    BY <1>4, <1>5, ChangeIs DEF Sound
  <2>2. act[kept[i].id].at = "over"
    BY <2>1 DEF Entry, Began
  <2> QED BY <1>8, <2>1, <2>2 DEF Entry
<1>10. Sound(act, t)
  BY <1>4, <1>7, <1>8, <1>9 DEF Sound
<1>11. \A v : Has(kept, v) => Has(t, v)
  BY <1>7, <1>8 DEF Has
<1> QED BY <1>3, <1>4, <1>10, <1>11 DEF t

\* begin: the new entry is there; one that is not any more has made room for Limit others.
LEMMA NewestKeeps ==
    ASSUME OneWindow, NEW act, NEW bct, NEW s, Sound(act, s), Moved(act, bct), NEW e \in Change,
           act[e.id].at = "begin", Entry(bct, e)
    PROVE  LET t == Profile!Newest(Append(s, e))
           IN /\ Sound(bct, t) /\ Has(t, e.id)
              /\ \A u : Has(s, u) => Has(t, u) \/ Cardinality(Others(bct, u)) >= Limit
<1> DEFINE a == Append(s, e)
           t == Profile!Newest(a)
           n == Len(s)
<1>1. s \in Seq(Change) /\ n \in Nat /\ n <= Limit /\ Limit \in Nat /\ Limit > 0 /\ e.id \in Calls
  BY ChangeIs, ProfileConstants DEF Sound
<1>2. a \in Seq(Change) /\ Len(a) = n + 1 /\ a[n + 1] = e /\ \A i \in 1..n : a[i] = s[i]
  BY <1>1
<1>3. Sound(bct, s)
  BY SoundMoves
<1>4. \A i \in 1..n : s[i].id # e.id
  BY DEF Sound, Entry, Began
<1>5. \A i, j \in 1..(n + 1) : a[i].id = a[j].id => i = j
  <2> TAKE i, j \in 1..(n + 1)
  <2>1. (i \in 1..n \/ i = n + 1) /\ (j \in 1..n \/ j = n + 1)
    BY <1>1
  <2> QED BY <1>2, <1>4, <2>1 DEF Sound
<1>6. \A i \in 1..(n + 1) : Entry(bct, a[i])
  <2> TAKE i \in 1..(n + 1)
  <2>1. i \in 1..n \/ i = n + 1
    BY <1>1
  <2> QED BY <1>2, <1>3, <2>1 DEF Sound
<1> HIDE DEF a, n, t
<1>7. CASE n < Limit
  <2>1. t = a
    BY <1>1, <1>2, <1>7 DEF Profile!Newest, t
  <2>2. Sound(bct, t)
    BY <1>1, <1>2, <1>5, <1>6, <1>7, <2>1 DEF Sound
  <2>3. n + 1 \in 1..Len(t) /\ t[n + 1] = e
    BY <1>1, <1>2, <2>1
  <2>4. \A u : Has(s, u) => Has(t, u)
    <3> TAKE u
    <3> HAVE Has(s, u)
    <3>1. PICK i \in 1..n : s[i].id = u
      BY DEF Has, n
    <3>2. i \in 1..Len(t) /\ t[i] = s[i]
      BY <1>1, <1>2, <2>1, <3>1
    <3> QED BY <3>1, <3>2 DEF Has
  <2> QED BY <2>2, <2>3, <2>4 DEF Has, t, a
<1>8. CASE n = Limit
  <2>1. t = SubSeq(a, 2, Len(a))
    <3>1. ~(Len(a) <= Limit) /\ Len(a) - Limit + 1 = 2
      BY <1>1, <1>2, <1>8
    <3> QED BY <3>1 DEF Profile!Newest, t
  <2>2. 1 \in 0..Len(a)
    BY <1>1, <1>2
  <2>3. t \in Seq(Change) /\ Len(t) = Len(a) - 1 /\ \A j \in 1..(Len(a) - 1) : t[j] = a[j + 1]
    BY <1>2, <2>1, <2>2, ToSetOfNewest
  <2>4. Len(t) = n /\ \A j \in 1..n : t[j] = a[j + 1] /\ j + 1 \in 1..(n + 1)
    BY <1>1, <1>2, <2>3
  <2>5. \A i, j \in 1..n : t[i].id = t[j].id => i = j
    <3> TAKE i, j \in 1..n
    <3>1. t[i].id = t[j].id => i + 1 = j + 1
      BY <1>5, <2>4
    <3> QED BY <1>1, <3>1
  <2>6. Sound(bct, t)
    BY <1>1, <1>6, <1>8, <2>3, <2>4, <2>5 DEF Sound
  <2>7. n \in 1..Len(t) /\ t[n] = e
    BY <1>1, <1>2, <1>8, <2>4
  <2>8. ASSUME NEW u, Has(s, u), ~Has(t, u) PROVE Cardinality(Others(bct, u)) >= Limit
    <3>1. PICK i \in 1..n : s[i].id = u
      BY <2>8 DEF Has, n
    <3>2. i = 1
      <4>1. i # 1 => i - 1 \in 1..n /\ (i - 1) + 1 = i
        BY <1>1, <3>1
      <4>2. i # 1 => t[i - 1].id = u
        BY <1>2, <2>4, <3>1, <4>1
      <4> QED BY <2>4, <2>8, <4>1, <4>2 DEF Has
    <3> DEFINE f == [j \in 1..n |-> t[j].id]
    <3>3. f \in Injection(1..n, Others(bct, u))
      <4>1. \A j \in 1..n : t[j].id \in Others(bct, u)
        <5> TAKE j \in 1..n
        <5>1. t[j].id # u
          BY <2>4, <2>8 DEF Has
        <5>2. t[j].id \in Calls
          BY <2>3, <2>4, ChangeIs
        <5>3. Entry(bct, t[j])
          BY <2>4, <2>6 DEF Sound
        <5> QED BY <5>1, <5>2, <5>3 DEF Others, Entry, Began
      <4>2. f \in [1..n -> Others(bct, u)]
        BY <4>1
      <4>3. \A j, k \in 1..n : f[j] = f[k] => j = k
        BY <2>5
      <4> HIDE DEF f
      <4> QED BY <4>2, <4>3 DEF Injection, IsInjective
    <3> HIDE DEF f
    <3>4. IsFiniteSet(Others(bct, u))
      <4>1. Others(bct, u) \in SUBSET Calls
        BY DEF Others
      <4> QED BY <4>1, ProfileConstants, FS_Subset
    <3>5. Cardinality(1..n) <= Cardinality(Others(bct, u))
      BY <3>3, <3>4, FS_Injection
    <3>6. Cardinality(1..n) = n
      BY <1>1, <1>8, FS_Interval
    <3> QED BY <1>8, <3>5, <3>6, <3>4, FS_CardinalityType, <1>1
  <2> QED BY <2>6, <2>7, <2>8 DEF Has, t, a
<1> QED BY <1>1, <1>7, <1>8

(***************************************************************************)
(* Steps of an actor                                                       *)
(***************************************************************************)

LEMMA BusyActor ==
    ASSUME OneWindow, ProfileInv, NEW a \in Actors, Busy(actor, a)
    PROVE  /\ actor[a].window = TheWindow /\ window[TheWindow] = "ready" /\ actor[a].change \in Change
           /\ actor[a] = [at |-> actor[a].at, window |-> actor[a].window, change |-> actor[a].change]
BY DEF ProfileInv, Acting, Busy

\* An actor under way goes on.
LEMMA Goes ==
    ASSUME OneWindow, ProfileInv, NEW a \in Actors, Busy(actor, a),
           NEW e \in {"commit", "remove", "mark", "apply", "rollback", "check", "set", "over"},
           actor' = [actor EXCEPT ![a].at = e], window' = window
    PROVE  /\ DOMAIN actor' = Actors /\ \A b \in Actors : Acting(actor', window', b)
           /\ Moved(actor, actor') /\ actor'[a].at = e
           /\ \A b \in Actors : actor'[b].change = actor[b].change /\ (b # a => actor'[b] = actor[b])
           /\ \A u, v \in Calls : Busy(actor', u) /\ Busy(actor', v) => u = v
<1>1. /\ actor[a].window = TheWindow /\ window[TheWindow] = "ready" /\ actor[a].change \in Change
      /\ actor[a] = [at |-> actor[a].at, window |-> actor[a].window, change |-> actor[a].change]
  BY BusyActor
<1>2. DOMAIN actor = Actors
  BY DEF ProfileInv
<1>3. /\ actor'[a] = [at |-> e, window |-> TheWindow, change |-> actor[a].change]
      /\ DOMAIN actor' = Actors /\ \A b \in Actors : b # a => actor'[b] = actor[b]
  BY <1>1, <1>2
<1>4. actor'[a].at = e /\ actor'[a].window = TheWindow /\ actor'[a].change = actor[a].change
  BY <1>3
<1>5. ASSUME NEW b \in Actors PROVE Acting(actor', window', b)
  <2>1. CASE b = a
    BY <1>1, <1>3, <1>4, <2>1 DEF Acting, Profile!Writes
  <2>2. CASE b # a
    BY <1>3, <2>2 DEF Acting, Busy, ProfileInv
  <2> QED BY <2>1, <2>2
<1>6. Moved(actor, actor')
  BY <1>3, <1>4, ProfileConstants DEF Moved, Began, Busy
<1>7. ASSUME NEW u \in Calls, NEW v \in Calls, Busy(actor', u), Busy(actor', v) PROVE u = v
  <2>1. Busy(actor, u) /\ Busy(actor, v)
    BY <1>3, <1>7, ProfileConstants DEF Busy
  <2> QED BY <2>1 DEF ProfileInv, Updater
<1> QED BY <1>3, <1>4, <1>5, <1>6, <1>7

\* An update that nothing happens to
LEMMA UpdaterKept ==
    ASSUME NEW before, NEW after, NEW s, NEW u, after[u] = before[u], Updater(before, s, u),
           \A v \in Calls : Busy(after, u) /\ Busy(after, v) => u = v
    PROVE  Updater(after, s, u)
  BY DEF Updater

\* ... while the journal is not its concern.
LEMMA GoesBesides ==
    ASSUME OneWindow, ProfileInv, NEW a \in Actors, Busy(actor, a), actor[a].at \notin Profile!Writes,
           NEW e \in {"commit", "remove", "mark", "rollback", "set", "over"},
           a \in Calls => e # "set", a \in Undos => e \in {"set", "remove", "over"},
           actor' = [actor EXCEPT ![a].at = e], window' = window, journal' = journal, job' = job,
           a \in Calls /\ e = "commit" => Has(journal, a),
           setting' \in Values, lastSetBy' \in Calls \cup {Nil}, LastSet(actor', setting', journal', lastSetBy'),
           \A d \in Undos : actor'[d].at = "remove" => actor'[d].change.id # lastSetBy'
    PROVE  ProfileInv'
<1>1. /\ DOMAIN actor' = Actors /\ \A b \in Actors : Acting(actor', window', b)
      /\ Moved(actor, actor') /\ actor'[a].at = e
      /\ \A b \in Actors : actor'[b].change = actor[b].change /\ (b # a => actor'[b] = actor[b])
      /\ \A u, v \in Calls : Busy(actor', u) /\ Busy(actor', v) => u = v
  BY Goes
<1>2. Sound(actor', journal')
  BY <1>1, SoundMoves DEF ProfileInv
<1>3. ASSUME NEW u \in Calls PROVE Updater(actor', journal', u)
  <2>1. CASE u = a
    <3>1. actor[u].at # "idle" /\ actor[u].change.id = u
      BY <2>1 DEF ProfileInv, Updater, Busy
    <3> QED BY <1>1, <2>1, <3>1 DEF Updater
  <2>2. CASE u # a
    <3>0. u \in Actors
      BY ProfileConstants
    <3>1. actor'[u] = actor[u] /\ journal' = journal
      BY Zenon, <1>1, <2>2, <3>0
    <3>2. Updater(actor, journal, u)
      BY DEF ProfileInv
    <3> DEFINE after == actor'
    <3>3. after[u] = actor[u] /\ \A v \in Calls : Busy(after, u) /\ Busy(after, v) => u = v
      BY <1>1, <3>1
    <3> HIDE DEF after
    <3>4. Updater(after, journal, u)
      BY <3>2, <3>3, UpdaterKept
    <3> QED BY <3>1, <3>4 DEF after
  <2> QED BY <2>1, <2>2
<1>4. ASSUME NEW d \in Undos PROVE Undoer(actor', lastSetBy', d)
  <2>1. d \in Actors /\ Undoer(actor, lastSetBy, d) /\ actor'[d].change = actor[d].change
    BY <1>1, ProfileConstants DEF ProfileInv
  <2>2. Busy(actor', d) => Busy(actor, d)
    BY <1>1, <2>1 DEF Busy
  <2>3. Busy(actor, d) => actor'[actor[d].change.id].at = "over"
    <3> SUFFICES ASSUME Busy(actor, d) PROVE actor'[actor[d].change.id].at = "over"
      OBVIOUS
    <3>1. actor[d].change.id \in Calls /\ actor[actor[d].change.id].at = "over"
      BY <2>1, BusyActor, ChangeIs DEF Undoer
    <3> QED BY <1>1, <3>1 DEF Moved
  <2>4. actor'[d].at \in {"idle", "check", "set", "remove", "over"}
    BY <1>1, <2>1 DEF Undoer
  <2> QED BY <2>1, <2>2, <2>3, <2>4 DEF Undoer
<1>5. Queued(actor', window', journal', lastSetBy', job'[TheWindow])
  <2>1. window'[TheWindow] = "ready"
    BY BusyActor
  <2>2. job[TheWindow].by \in Actors => actor'[job[TheWindow].by] = actor[job[TheWindow].by]
    BY <1>1, <2>1 DEF ProfileInv, Queued
  <2> QED BY <2>1, <2>2 DEF ProfileInv, Queued
<1> QED BY <1>1, <1>2, <1>3, <1>4, <1>5 DEF ProfileInv

LEMMA ApplyKeeps ==
    ASSUME OneWindow, ProfileInv, NEW u \in Calls,
           Profile!Apply(u) \/ Profile!ApplyFails(u) \/ Profile!Rollback(u) \/ Profile!RollbackFails(u)
    PROVE  ProfileInv'
<1>1. /\ u \in Actors /\ u \notin Undos /\ Updater(actor, journal, u) /\ Nil \notin Calls
      /\ LastSet(actor, setting, journal, lastSetBy) /\ \A d \in Undos : Undoer(actor, lastSetBy, d)
      /\ setting \in Values /\ lastSetBy \in Calls \cup {Nil}
  BY ProfileConstants DEF ProfileInv
<1>2. actor[u].at \in {"apply", "rollback"} /\ window' = window /\ journal' = journal /\ job' = job
  BY DEF Profile!Apply, Profile!ApplyFails, Profile!Rollback, Profile!RollbackFails
<1>3. Busy(actor, u) /\ actor[u].at \notin Profile!Writes
  BY <1>2 DEF Busy, Profile!Writes
<1>4. actor[u].change \in Change /\ actor[u].change.before \in Values /\ actor[u].change.after \in Values
  BY <1>1, <1>3, BusyActor, ChangeIs
<1>5. u # lastSetBy
  BY <1>1, <1>2 DEF LastSet
<1>6. \A d \in Undos : actor[d].at = "remove" => actor[d].change.id # u
  BY <1>1, <1>2 DEF Undoer, Busy
<1>7. CASE Profile!Apply(u)
  <2>1. actor' = [actor EXCEPT ![u].at = "commit"] /\ setting' = actor[u].change.after /\ lastSetBy' = u
    BY <1>7 DEF Profile!Apply
  <2>2. Has(journal, u)
    BY <1>1, <1>7 DEF Updater, Profile!Apply
  <2>3. actor'[u].at = "commit" /\ \A b \in Actors : actor'[b].change = actor[b].change /\ (b # u => actor'[b] = actor[b])
    BY <1>1, <1>2, <1>3, <2>1, Goes
  <2>4. LastSet(actor', setting', journal', lastSetBy')
    BY <1>1, <1>2, <2>1, <2>2, <2>3 DEF LastSet
  <2>5. \A d \in Undos : actor'[d].at = "remove" => actor'[d].change.id # lastSetBy'
    BY <1>1, <1>6, <2>1, <2>3, ProfileConstants
  <2> QED BY <1>1, <1>2, <1>3, <1>4, <2>1, <2>2, <2>4, <2>5, GoesBesides
<1>8. CASE ~Profile!Apply(u)
  <2>1. /\ \E e \in {"rollback", "remove", "mark"} : actor' = [actor EXCEPT ![u].at = e]
        /\ setting' \in Values /\ lastSetBy' \in {lastSetBy, Nil} /\ (setting' # setting => lastSetBy' = Nil)
    BY <1>1, <1>4, <1>8 DEF Profile!ApplyFails, Profile!Rollback, Profile!RollbackFails
  <2>2. PICK e \in {"rollback", "remove", "mark"} : actor' = [actor EXCEPT ![u].at = e]
    BY <2>1
  <2>3. Moved(actor, actor') /\ \A b \in Actors : actor'[b].change = actor[b].change /\ (b # u => actor'[b] = actor[b])
    BY <1>1, <1>2, <1>3, <2>2, Goes
  <2>4. LastSet(actor', setting', journal', lastSetBy')
    <3> SUFFICES ASSUME lastSetBy' # Nil PROVE LastSet(actor', setting', journal', lastSetBy')
      BY DEF LastSet
    <3>1. lastSetBy' = lastSetBy /\ setting' = setting /\ lastSetBy \in Calls /\ lastSetBy # u
      BY <1>1, <1>5, <2>1
    <3>2. actor'[lastSetBy] = actor[lastSetBy]
      BY <2>3, <3>1, ProfileConstants
    <3>3. Cardinality(Others(actor, lastSetBy)) >= Limit => Cardinality(Others(actor', lastSetBy)) >= Limit
      BY <2>3, OthersMove
    <3> QED BY <1>1, <1>2, <3>1, <3>2, <3>3 DEF LastSet
  <2>5. \A d \in Undos : actor'[d].at = "remove" => actor'[d].change.id # lastSetBy'
    <3> TAKE d \in Undos
    <3> HAVE actor'[d].at = "remove"
    <3>1. actor'[d] = actor[d] /\ d \in Actors
      BY <1>1, <2>3, ProfileConstants
    <3>2. actor[d].change.id # lastSetBy /\ actor[d].change.id \in Calls
      BY <1>1, <3>1, BusyActor, ChangeIs DEF Undoer, Busy
    <3> QED BY <1>1, <2>1, <3>1, <3>2
  <2> QED BY <1>1, <1>2, <1>3, <2>1, <2>2, <2>4, <2>5, GoesBesides
<1> QED BY <1>7, <1>8

LEMMA UndoGoesOn ==
    ASSUME OneWindow, ProfileInv, NEW d \in Undos, Profile!CheckUndo(d) \/ Profile!SetUndo(d)
    PROVE  ProfileInv'
<1>1. /\ d \in Actors /\ d \notin Calls /\ Nil \notin Calls
      /\ LastSet(actor, setting, journal, lastSetBy) /\ \A x \in Undos : Undoer(actor, lastSetBy, x)
      /\ setting \in Values /\ lastSetBy \in Calls \cup {Nil}
  BY ProfileConstants DEF ProfileInv
<1>2. actor[d].at \in {"check", "set"} /\ window' = window /\ journal' = journal /\ job' = job
  BY DEF Profile!CheckUndo, Profile!SetUndo
<1>3. Busy(actor, d) /\ actor[d].at \notin Profile!Writes
  BY <1>2 DEF Busy, Profile!Writes
<1>4. actor[d].change \in Change /\ actor[d].change.before \in Values /\ actor[d].change.id \in Calls
  BY <1>1, <1>3, BusyActor, ChangeIs
<1>5. CASE Profile!CheckUndo(d)
  <2>1. setting' = setting /\ lastSetBy' = lastSetBy /\ \E e \in {"set", "over"} : actor' = [actor EXCEPT ![d].at = e]
    BY <1>5 DEF Profile!CheckUndo
  <2>2. PICK e \in {"set", "over"} : actor' = [actor EXCEPT ![d].at = e]
    BY <2>1
  <2>3. /\ Moved(actor, actor') /\ actor'[d].at = e
        /\ \A b \in Actors : actor'[b].change = actor[b].change /\ (b # d => actor'[b] = actor[b])
    BY <1>1, <1>2, <1>3, <2>2, Goes
  <2>4. LastSet(actor', setting', journal', lastSetBy')
    <3> SUFFICES ASSUME lastSetBy # Nil PROVE LastSet(actor', setting', journal', lastSetBy')
      BY <2>1 DEF LastSet
    <3>1. actor'[lastSetBy] = actor[lastSetBy]
      BY <1>1, <2>3, ProfileConstants
    <3>2. Cardinality(Others(actor, lastSetBy)) >= Limit => Cardinality(Others(actor', lastSetBy)) >= Limit
      BY <2>3, OthersMove
    <3> QED BY <1>1, <1>2, <2>1, <3>1, <3>2 DEF LastSet
  <2>5. \A x \in Undos : actor'[x].at = "remove" => actor'[x].change.id # lastSetBy'
    <3> TAKE x \in Undos
    <3>1. x # d => actor'[x] = actor[x]
      BY <2>3, ProfileConstants
    <3> QED BY <1>1, <2>1, <2>3, <3>1 DEF Undoer
  <2> QED BY <1>1, <1>2, <1>3, <2>1, <2>2, <2>4, <2>5, GoesBesides
<1>6. CASE Profile!SetUndo(d)
  <2>1. setting' \in Values /\ lastSetBy' = Nil /\ actor' = [actor EXCEPT ![d].at = "remove"]
    BY <1>4, <1>6 DEF Profile!SetUndo
  <2>2. \A b \in Actors : actor'[b].change = actor[b].change /\ (b # d => actor'[b] = actor[b])
    BY <1>1, <1>2, <1>3, <2>1, Goes
  <2>3. LastSet(actor', setting', journal', lastSetBy')
    BY <2>1 DEF LastSet
  <2>4. \A x \in Undos : actor'[x].at = "remove" => actor'[x].change.id # lastSetBy'
    <3> TAKE x \in Undos
    <3> HAVE actor'[x].at = "remove"
    <3>1. x \in Actors /\ (x # d => actor'[x] = actor[x]) /\ actor'[x].change = actor[x].change
      BY <2>2, ProfileConstants
    <3>2. Busy(actor, x)
      BY <1>3, <3>1 DEF Busy
    <3>3. actor[x].change.id \in Calls
      BY <3>1, <3>2, BusyActor, ChangeIs
    <3> QED BY <1>1, <2>1, <3>1, <3>3
  <2> QED BY <1>1, <1>2, <1>3, <2>1, <2>3, <2>4, GoesBesides
<1> QED BY <1>5, <1>6

(***************************************************************************)
(* The queue of the window                                                 *)
(***************************************************************************)

LEMMA ProfileReads ==
    ASSUME OneWindow, ProfileInv, NEW a \in Actors, Profile!ReadJournal(a)
    PROVE  ProfileInv'
<1>1. actor[a].at \in Profile!Writes /\ Busy(actor, a) /\ actor[a].window = TheWindow /\ window[TheWindow] = "ready"
  <2>1. actor[a].at \in Profile!Writes
    BY DEF Profile!ReadJournal
  <2>2. Busy(actor, a)
    BY <2>1 DEF Busy, Profile!Writes
  <2> QED BY <2>1, <2>2, BusyActor
<1>2. UNCHANGED <<setting, journal, window, actor, lastSetBy>>
  BY DEF Profile!ReadJournal
<1>3. PICK b : job' = [job EXCEPT ![TheWindow] =
                          [by |-> a, changes |-> Profile!Result(actor[a].at, actor[a].change), changed |-> b]]
               /\ (actor[a].at \notin {"commit", "mark"} => b)
  BY <1>1 DEF Profile!ReadJournal
<1>4. TheWindow \in Windows /\ DOMAIN job = Windows
  BY ProfileConstants DEF ProfileInv
<1> DEFINE j == job'[TheWindow]
<1>5. j.by = a /\ j.changes = Profile!Result(actor[a].at, actor[a].change) /\ j.changed = b /\ DOMAIN job' = Windows
  BY <1>3, <1>4
<1> HIDE DEF j
<1>6. \/ actor[a].at = "begin" /\ j.changes = Profile!Newest(Append(journal, actor[a].change)) /\ j.changed
      \/ actor[a].at = "commit" /\ j.changes = Profile!InState(journal, actor[a].change.id, "committed")
      \/ actor[a].at = "mark" /\ j.changes = Profile!InState(journal, actor[a].change.id, "attentionRequired")
      \/ actor[a].at = "remove" /\ j.changes = Profile!Without(journal, actor[a].change.id) /\ j.changed
  BY <1>1, <1>3, <1>5 DEF Profile!Writes, Profile!Result
<1>7. Queued(actor, window, journal, lastSetBy, j)
  BY <1>1, <1>5, <1>6 DEF Queued
<1> QED BY <1>2, <1>5, <1>7 DEF ProfileInv, j

\* What a write must leave.
LEMMA JournalWritten ==
    ASSUME OneWindow, ProfileInv, NEW a \in Actors, Busy(actor, a),
           NEW e \in {"apply", "mark", "over"}, a \in Undos => e = "over", actor[a].at = "commit" => e = "over",
           actor' = [actor EXCEPT ![a].at = e], job' = [job EXCEPT ![TheWindow] = Profile!NoJob],
           UNCHANGED <<setting, window, lastSetBy>>, Sound(actor', journal'),
           \A u \in Calls : actor'[u].at \in {"apply", "commit"} => Has(journal', u),
           lastSetBy # Nil => Has(journal', lastSetBy) \/ Cardinality(Others(actor', lastSetBy)) >= Limit
    PROVE  ProfileInv'
<1>1. /\ DOMAIN actor' = Actors /\ \A b \in Actors : Acting(actor', window', b)
      /\ Moved(actor, actor') /\ actor'[a].at = e
      /\ \A b \in Actors : actor'[b].change = actor[b].change /\ (b # a => actor'[b] = actor[b])
      /\ \A u, v \in Calls : Busy(actor', u) /\ Busy(actor', v) => u = v
  BY Goes
<1>2. ASSUME NEW u \in Calls PROVE Updater(actor', journal', u)
  <2>1. u \in Actors /\ Updater(actor, journal, u)
    BY ProfileConstants DEF ProfileInv
  <2>2. CASE u = a
    <3>1. actor[u].at # "idle" /\ actor[u].change.id = u
      BY <2>1, <2>2 DEF Updater, Busy
    <3> QED BY <1>1, <2>2, <3>1 DEF Updater
  <2>3. CASE u # a
    BY <1>1, <2>1, <2>3 DEF Updater
  <2> QED BY <2>2, <2>3
<1>3. ASSUME NEW d \in Undos PROVE Undoer(actor', lastSetBy', d)
  <2>1. d \in Actors /\ Undoer(actor, lastSetBy, d) /\ actor'[d].change = actor[d].change
    BY <1>1, ProfileConstants DEF ProfileInv
  <2>2. Busy(actor', d) => Busy(actor, d)
    BY <1>1, <2>1 DEF Busy
  <2>3. Busy(actor, d) => actor'[actor[d].change.id].at = "over"
    <3> SUFFICES ASSUME Busy(actor, d) PROVE actor'[actor[d].change.id].at = "over"
      OBVIOUS
    <3>1. actor[d].change.id \in Calls /\ actor[actor[d].change.id].at = "over"
      BY <2>1, BusyActor, ChangeIs DEF Undoer
    <3> QED BY <1>1, <3>1 DEF Moved
  <2>4. d # a => actor'[d] = actor[d]
    BY <1>1, <2>1
  <2> QED BY <1>1, <2>1, <2>2, <2>3, <2>4 DEF Undoer
<1>4. LastSet(actor', setting', journal', lastSetBy')
  <2> SUFFICES ASSUME lastSetBy # Nil PROVE LastSet(actor', setting', journal', lastSetBy')
    BY DEF LastSet
  <2>1. lastSetBy \in Actors /\ setting = actor[lastSetBy].change.after /\ actor[lastSetBy].at \in {"commit", "over"}
    BY ProfileConstants DEF ProfileInv, LastSet
  <2>2. actor'[lastSetBy].at \in {"commit", "over"}
    BY <1>1, <2>1 DEF Busy
  <2> QED BY <1>1, <2>1, <2>2 DEF LastSet
<1>5. DOMAIN job' = Windows /\ job'[TheWindow] = Profile!NoJob
  BY ProfileConstants DEF ProfileInv
<1>6. window'[TheWindow] = "ready" /\ Profile!NoJob.by \notin Actors
  BY BusyActor, ProfileConstants DEF Profile!NoJob
<1>7. Queued(actor', window', journal', lastSetBy', job'[TheWindow])
  BY <1>5, <1>6 DEF Queued
<1> QED BY <1>1, <1>2, <1>3, <1>4, <1>5, <1>7 DEF ProfileInv

LEMMA ProfileWriteFails ==
    ASSUME OneWindow, ProfileInv, NEW a \in Actors, Profile!WriteFails(a)
    PROVE  ProfileInv'
<1>1. actor[a].at \in Profile!Writes
  BY DEF Profile!WriteFails
<1>2. Busy(actor, a)
  BY <1>1 DEF Busy, Profile!Writes
<1>3. actor[a].window = TheWindow
  BY <1>2, BusyActor
<1>4. /\ UNCHANGED <<setting, journal, window, lastSetBy>> /\ job' = [job EXCEPT ![TheWindow] = Profile!NoJob]
      /\ actor' = [actor EXCEPT ![a].at = Profile!OrElse(a)]
  BY <1>3 DEF Profile!WriteFails
<1> DEFINE e == Profile!OrElse(a)
<1>5. e \in {"mark", "over"} /\ (a \in Undos => e = "over") /\ (actor[a].at = "commit" => e = "over")
  BY ProfileConstants DEF Profile!OrElse
<1>6. actor' = [actor EXCEPT ![a].at = e]
  BY <1>4
<1> HIDE DEF e
<1>7. /\ Moved(actor, actor') /\ actor'[a].at = e
      /\ \A b \in Actors : b # a => actor'[b] = actor[b]
  BY <1>2, <1>4, <1>5, <1>6, Goes
<1>8. Sound(actor', journal')
  BY <1>4, <1>7, SoundMoves DEF ProfileInv
<1>9. \A u \in Calls : actor'[u].at \in {"apply", "commit"} => Has(journal', u)
  BY <1>4, <1>5, <1>7, ProfileConstants DEF ProfileInv, Updater
<1>10. lastSetBy # Nil => Has(journal', lastSetBy) \/ Cardinality(Others(actor', lastSetBy)) >= Limit
  BY <1>4, <1>7, OthersMove DEF ProfileInv, LastSet
<1> QED BY <1>2, <1>4, <1>5, <1>6, <1>8, <1>9, <1>10, JournalWritten

LEMMA ProfileWrites ==
    ASSUME OneWindow, ProfileInv, NEW a \in Actors, Profile!WriteJournal(a)
    PROVE  ProfileInv'
<1>1. actor[a].at \in Profile!Writes
  BY DEF Profile!WriteJournal
<1>2. Busy(actor, a)
  BY <1>1 DEF Busy, Profile!Writes
<1>3. actor[a].window = TheWindow /\ window[TheWindow] = "ready" /\ actor[a].change \in Change
  BY <1>2, BusyActor
<1> DEFINE e == Profile!Then(actor[a].at)
           j == job[TheWindow]
           id == actor[a].change.id
<1>4. /\ UNCHANGED <<setting, window, lastSetBy>> /\ job' = [job EXCEPT ![TheWindow] = Profile!NoJob]
      /\ journal' = (IF j.changed THEN j.changes ELSE journal) /\ j.by = a
  BY <1>3 DEF Profile!WriteJournal, Profile!Replaced
<1>5. actor' = [actor EXCEPT ![a].at = e]
  <2>1. DOMAIN actor = Actors
    BY DEF ProfileInv
  <2> QED BY <2>1 DEF Profile!WriteJournal
<1>6. e \in {"apply", "over"} /\ (actor[a].at = "begin" <=> e = "apply")
  BY DEF Profile!Then
<1>7. /\ Sound(actor, journal) /\ Queued(actor, window, journal, lastSetBy, j)
      /\ LastSet(actor, setting, journal, lastSetBy) /\ lastSetBy \in Calls \cup {Nil}
      /\ \A u \in Calls : Updater(actor, journal, u)
      /\ a \in Undos => Undoer(actor, lastSetBy, a)
  BY DEF ProfileInv
<1>8. a \in Calls \/ a \in Undos
  BY ProfileConstants
<1>9. a \in Undos => actor[a].at = "remove" /\ id # lastSetBy /\ actor[id].at = "over"
  BY <1>1, <1>2, <1>7 DEF Undoer, Profile!Writes
<1>10. a \in Calls => id = a
  BY <1>2, <1>7 DEF Updater, Busy
<1> HIDE DEF e, j, id
<1>11. /\ Moved(actor, actor') /\ actor'[a].at = e
       /\ \A b \in Actors : actor'[b].change = actor[b].change /\ (b # a => actor'[b] = actor[b])
       /\ \A u, v \in Calls : Busy(actor', u) /\ Busy(actor', v) => u = v
  BY <1>2, <1>4, <1>5, <1>6, Goes
<1>12. Sound(actor', journal)
  BY <1>7, <1>11, SoundMoves
<1>13. lastSetBy # Nil => Has(journal, lastSetBy) \/ Cardinality(Others(actor', lastSetBy)) >= Limit
  BY <1>7, <1>11, OthersMove DEF LastSet
<1>14. \A u \in Calls : a \in Calls /\ u # a => ~Busy(actor, u)
  BY <1>2, <1>7 DEF Updater
<1>15. SUFFICES /\ Sound(actor', journal')
                /\ \A u \in Calls : actor'[u].at \in {"apply", "commit"} => Has(journal', u)
                /\ lastSetBy # Nil => Has(journal', lastSetBy) \/ Cardinality(Others(actor', lastSetBy)) >= Limit
  BY <1>2, <1>4, <1>5, <1>6, <1>9, JournalWritten
<1>16. CASE actor[a].at = "begin"
  <2>1. a \in Calls /\ journal' = Profile!Newest(Append(journal, actor[a].change))
    BY <1>4, <1>7, <1>8, <1>9, <1>3, <1>16 DEF Queued
  <2>2. Entry(actor', actor[a].change)
    <3>1. actor[a].change.state = "pending" /\ actor[a].change.id = a
      BY <1>7, <1>10, <1>16, <2>1 DEF Updater, id
    <3>2. Began(actor', a)
      BY <1>6, <1>11, <1>16 DEF Began
    <3> QED BY <1>11, <3>1, <3>2 DEF Entry
  <2>3. actor[actor[a].change.id].at = "begin"
    BY <1>10, <1>16, <2>1 DEF id
  <2>4. /\ Sound(actor', journal') /\ Has(journal', actor[a].change.id)
        /\ \A u : Has(journal, u) => Has(journal', u) \/ Cardinality(Others(actor', u)) >= Limit
    BY <1>3, <1>7, <1>11, <2>1, <2>2, <2>3, NewestKeeps
  <2>5. \A u \in Calls : actor'[u].at \in {"apply", "commit"} => u = a
    BY <1>11, <1>14, <2>1, ProfileConstants DEF Busy
  <2> QED BY <1>10, <1>13, <2>1, <2>4, <2>5 DEF id
<1>17. CASE actor[a].at \in {"commit", "mark"}
  <2>1. PICK state \in {"committed", "attentionRequired"} :
            a \in Calls /\ journal' \in {journal, Profile!InState(journal, a, state)}
    BY <1>3, <1>4, <1>7, <1>8, <1>9, <1>10, <1>17 DEF Queued, id
  <2>2. actor'[a].at = "over"
    BY <1>6, <1>11, <1>17
  <2>3. /\ Sound(actor', Profile!InState(journal, a, state))
        /\ \A v : Has(Profile!InState(journal, a, state), v) <=> Has(journal, v)
    BY <1>12, <2>1, <2>2, InStateKeeps
  <2>4. Sound(actor', journal') /\ \A v : Has(journal', v) <=> Has(journal, v)
    BY <1>12, <2>1, <2>3
  <2>5. \A u \in Calls : actor'[u].at \notin {"apply", "commit"}
    BY <1>11, <1>14, <2>1, <2>2, ProfileConstants DEF Busy
  <2> QED BY <1>13, <2>4, <2>5
<1>18. CASE actor[a].at = "remove"
  <2>1. journal' = Profile!Without(journal, id)
    BY <1>3, <1>4, <1>7, <1>18 DEF Queued, id
  <2>2. Sound(actor', journal') /\ \A v : v # id /\ Has(journal, v) => Has(journal', v)
    BY <1>12, <2>1, WithoutKeeps
  <2>3. id # lastSetBy \/ lastSetBy = Nil
    BY <1>7, <1>8, <1>9, <1>10, <1>18 DEF LastSet
  <2>4. actor'[a].at = "over"
    BY <1>6, <1>11, <1>18
  <2>5. \A u \in Calls : actor'[u].at \in {"apply", "commit"} => u # a /\ a \notin Calls /\ actor'[u] = actor[u]
    BY <1>11, <1>14, <2>4, ProfileConstants DEF Busy
  <2>6. \A u \in Calls : actor'[u].at \in {"apply", "commit"} => Has(journal, u) /\ u # id
    BY <1>7, <1>8, <1>9, <2>5 DEF Updater
  <2> QED BY <1>13, <2>2, <2>3, <2>6
<1> QED BY <1>1, <1>16, <1>17, <1>18 DEF Profile!Writes

(***************************************************************************)
(* Updates and undos begin; the window and the user                        *)
(***************************************************************************)

LEMMA UpdateKeeps ==
    ASSUME OneWindow, ProfileInv, NEW u \in Calls, NEW w \in Windows, NEW value \in Values, Profile!Update(u, w, value)
    PROVE  ProfileInv'
<1>1. w = TheWindow /\ u \in Actors /\ u \notin Undos
  BY ProfileConstants
<1> DEFINE change == Profile!ChangeOf(u, value)
<1>2. /\ window[TheWindow] = "ready" /\ actor[u].at = "idle" /\ UNCHANGED <<setting, journal, window, job, lastSetBy>>
      /\ \A v \in Calls : ~(Profile!UnderWay(v) /\ actor[v].window = TheWindow)
      /\ actor' = [actor EXCEPT ![u] = [at |-> "begin", window |-> TheWindow, change |-> change]]
  BY <1>1 DEF Profile!Update
<1>3. change \in Change /\ change.id = u /\ change.state = "pending"
  BY DEF Profile!ChangeOf, Change, Profile!Change, Values, ProfileInv
<1> HIDE DEF change
<1>4. /\ DOMAIN actor' = Actors /\ \A b \in Actors : b # u => actor'[b] = actor[b]
      /\ actor'[u] = [at |-> "begin", window |-> TheWindow, change |-> change]
  BY <1>1, <1>2 DEF ProfileInv
<1>5. \A v \in Calls : ~Busy(actor, v)
  <2> TAKE v \in Calls
  <2>1. Busy(actor, v) => Profile!UnderWay(v) /\ actor[v].window = TheWindow
    BY BusyActor, ProfileConstants DEF Busy, Profile!UnderWay
  <2> QED BY <1>2, <2>1
<1>6. Moved(actor, actor')
  BY <1>1, <1>2, <1>4, ProfileConstants DEF Moved, Began
<1>7. Sound(actor', journal')
  BY <1>2, <1>6, SoundMoves DEF ProfileInv
<1>8. ASSUME NEW b \in Actors PROVE Acting(actor', window', b)
  <2>1. CASE b = u
    BY <1>2, <1>3, <1>4, <2>1 DEF Acting, Profile!Writes
  <2>2. CASE b # u
    BY <1>2, <1>4, <2>2 DEF Acting, Busy, ProfileInv
  <2> QED BY <2>1, <2>2
<1>9. ASSUME NEW v \in Calls PROVE Updater(actor', journal', v)
  <2>1. v \in Actors /\ Updater(actor, journal, v)
    BY ProfileConstants DEF ProfileInv
  <2>2. \A x \in Calls : Busy(actor', x) => x = u
    BY <1>4, <1>5, ProfileConstants DEF Busy
  <2> QED BY <1>2, <1>3, <1>4, <2>1, <2>2 DEF Updater
<1>10. ASSUME NEW d \in Undos PROVE Undoer(actor', lastSetBy', d)
  <2>1. d \in Actors /\ d # u /\ Undoer(actor, lastSetBy, d) /\ actor'[d] = actor[d]
    BY <1>1, <1>4, ProfileConstants DEF ProfileInv
  <2>2. Busy(actor, d) => actor'[actor[d].change.id].at = "over"
    <3> HAVE Busy(actor, d)
    <3>1. actor[d].change.id \in Calls /\ actor[actor[d].change.id].at = "over"
      BY <2>1, BusyActor, ChangeIs DEF Undoer
    <3> QED BY <1>6, <3>1 DEF Moved
  <2> QED BY <1>2, <2>1, <2>2 DEF Undoer, Busy
<1>11. LastSet(actor', setting', journal', lastSetBy')
  <2> SUFFICES ASSUME lastSetBy # Nil PROVE LastSet(actor', setting', journal', lastSetBy')
    BY <1>2 DEF LastSet
  <2>1. lastSetBy # u /\ lastSetBy \in Actors
    BY <1>2, ProfileConstants DEF ProfileInv, LastSet
  <2>2. Cardinality(Others(actor, lastSetBy)) >= Limit => Cardinality(Others(actor', lastSetBy)) >= Limit
    BY SMTT(30), <1>6, OthersMove
  <2> QED BY <1>2, <1>4, <2>1, <2>2 DEF ProfileInv, LastSet
<1>12. Queued(actor', window', journal', lastSetBy', job'[TheWindow])
  <2>1. job[TheWindow].by \in Actors => actor'[job[TheWindow].by] = actor[job[TheWindow].by]
    BY <1>2, <1>4 DEF ProfileInv, Queued, Profile!Writes
  <2> QED BY <1>2, <2>1 DEF ProfileInv, Queued
<1> QED BY <1>2, <1>4, <1>7, <1>8, <1>9, <1>10, <1>11, <1>12 DEF ProfileInv

LEMMA UndoKeeps ==
    ASSUME OneWindow, ProfileInv, NEW d \in Undos, NEW w \in Windows, Profile!Undo(d, w)
    PROVE  ProfileInv'
<1>1. w = TheWindow /\ d \in Actors /\ d \notin Calls
  BY ProfileConstants
<1> DEFINE latest == CHOOSE i \in Profile!Committed : \A j \in Profile!Committed : j <= i
           change == journal[latest]
<1>2. /\ window[TheWindow] = "ready" /\ actor[d].at = "idle" /\ UNCHANGED <<setting, journal, window, job, lastSetBy>>
      /\ job[TheWindow] = Profile!NoJob /\ Profile!Committed # {}
      /\ actor' = [actor EXCEPT ![d] = [at |-> "check", window |-> TheWindow, change |-> change]]
  BY <1>1 DEF Profile!Undo
<1>3. journal \in Seq(Change) /\ Len(journal) \in Nat /\ DOMAIN journal = 1..Len(journal) /\ Sound(actor, journal)
  BY DEF ProfileInv, Sound
<1>4. latest \in Profile!Committed
  <2> DEFINE Back == {Len(journal) - i : i \in Profile!Committed}
  <2>1. Profile!Committed \in SUBSET (1..Len(journal))
    BY <1>3 DEF Profile!Committed
  <2>2. Back \in SUBSET Nat /\ Back # {}
    BY <1>2, <1>3, <2>1
  <2>3. PICK n \in Back : \A m \in Back : n <= m
    <3> HIDE DEF Back
    <3> QED BY <2>2, LeastElement
  <2>4. PICK i \in Profile!Committed : n = Len(journal) - i
    BY <2>3
  <2>5. \A k \in Profile!Committed : k <= i
    <3> TAKE k \in Profile!Committed
    <3>1. Len(journal) - k \in Back
      OBVIOUS
    <3>2. Len(journal) - i <= Len(journal) - k
      BY <2>3, <2>4, <3>1
    <3>3. k \in Nat /\ i \in Nat
      BY <1>3, <2>1
    <3> QED BY <1>3, <3>2, <3>3
  <2> QED BY <2>5
<1>5. change \in Change /\ change.id \in Calls /\ actor[change.id].at = "over"
  <2>1. latest \in 1..Len(journal) /\ journal[latest].state = "committed"
    BY <1>3, <1>4 DEF Profile!Committed
  <2> HIDE DEF latest
  <2> QED BY <1>3, <2>1, ChangeIs DEF Sound, Entry
<1> HIDE DEF latest, change
<1>6. /\ DOMAIN actor' = Actors /\ \A b \in Actors : b # d => actor'[b] = actor[b]
      /\ actor'[d] = [at |-> "check", window |-> TheWindow, change |-> change]
  BY <1>1, <1>2 DEF ProfileInv
<1>7. \A u \in Calls : actor'[u] = actor[u]
  BY <1>1, <1>6, ProfileConstants
<1>8. Sound(actor', journal')
  <2>1. Moved(actor, actor')
    BY <1>7 DEF Moved, Began
  <2> QED BY <1>2, <1>3, <2>1, SoundMoves
<1>9. ASSUME NEW b \in Actors PROVE Acting(actor', window', b)
  <2>1. CASE b = d
    BY <1>2, <1>5, <1>6, <2>1 DEF Acting, Profile!Writes
  <2>2. CASE b # d
    BY <1>2, <1>6, <2>2 DEF Acting, Busy, ProfileInv
  <2> QED BY <2>1, <2>2
<1>10. \A u \in Calls : Updater(actor', journal', u)
  BY <1>2, <1>7 DEF ProfileInv, Updater, Busy
<1>11. ASSUME NEW x \in Undos PROVE Undoer(actor', lastSetBy', x)
  <2>1. CASE x = d
    BY <1>5, <1>6, <1>7, <2>1 DEF Undoer
  <2>2. CASE x # d
    <3>1. x \in Actors /\ Undoer(actor, lastSetBy, x) /\ actor'[x] = actor[x]
      BY <1>6, <2>2, ProfileConstants DEF ProfileInv
    <3>2. Busy(actor, x) => actor'[actor[x].change.id].at = "over"
      BY <1>7, <3>1, BusyActor, ChangeIs DEF Undoer
    <3> QED BY <1>2, <3>1, <3>2 DEF Undoer, Busy
  <2> QED BY <2>1, <2>2
<1>12. LastSet(actor', setting', journal', lastSetBy')
  <2>1. \A u : Others(actor', u) = Others(actor, u)
    BY <1>7 DEF Others
  <2> QED BY <1>2, <1>7, <2>1 DEF ProfileInv, LastSet
<1>13. Queued(actor', window', journal', lastSetBy', job'[TheWindow])
  BY <1>2, ProfileConstants DEF Queued, Profile!NoJob
<1> QED BY <1>2, <1>6, <1>8, <1>9, <1>10, <1>11, <1>12, <1>13 DEF ProfileInv

LEMMA NobodyActs ==
    ASSUME OneWindow, ProfileInv, window[TheWindow] # "ready"
    PROVE  \A a \in Actors : ~Busy(actor, a) /\ actor[a].at \in {"idle", "over"}
BY BusyActor DEF Busy

LEMMA StartKeeps ==
    ASSUME OneWindow, ProfileInv, NEW w \in Windows, Profile!Start(w)
    PROVE  ProfileInv'
<1>1. w = TheWindow
  BY ProfileConstants
<1>2. /\ window[TheWindow] = "down" /\ window' = [window EXCEPT ![TheWindow] = "starting"]
      /\ UNCHANGED <<setting, journal, actor, lastSetBy>>
      /\ job' = [job EXCEPT ![TheWindow] = [by |-> TheWindow, changes |-> Profile!Recovered(journal),
                                            changed |-> Profile!Recovered(journal) # journal]]
  BY <1>1 DEF Profile!Start
<1>3. /\ DOMAIN window' = Windows /\ window'[TheWindow] = "starting"
      /\ DOMAIN job' = Windows /\ job'[TheWindow].changes = Profile!Recovered(journal)
  BY <1>1, <1>2 DEF ProfileInv
<1>4. \A a \in Actors : ~Busy(actor, a) /\ actor[a].at \in {"idle", "over"}
  BY <1>2, NobodyActs
<1>5. /\ Sound(actor, Profile!Recovered(journal))
      /\ \A i \in 1..Len(journal) : setting = journal[i].after => Has(Profile!Recovered(journal), journal[i].id)
  BY <1>4, RecoveredKeeps, ProfileConstants DEF ProfileInv
<1>6. lastSetBy # Nil /\ Has(journal, lastSetBy) => Has(Profile!Recovered(journal), lastSetBy)
  <2> SUFFICES ASSUME lastSetBy # Nil, Has(journal, lastSetBy) PROVE Has(Profile!Recovered(journal), lastSetBy)
    OBVIOUS
  <2>1. PICK i \in 1..Len(journal) : journal[i].id = lastSetBy
    BY DEF Has
  <2>2. journal[i].after = setting
    BY <2>1 DEF ProfileInv, Sound, Entry, LastSet
  <2> QED BY <1>5, <2>1, <2>2
<1>7. Queued(actor', window', journal', lastSetBy', job'[TheWindow])
  BY <1>2, <1>3, <1>5, <1>6 DEF Queued
<1>8. \A a \in Actors : Acting(actor', window', a)
  BY <1>2, <1>4 DEF ProfileInv, Acting
<1> QED BY <1>2, <1>3, <1>7, <1>8 DEF ProfileInv

LEMMA StartedKeeps ==
    ASSUME OneWindow, ProfileInv, NEW w \in Windows, Profile!Started(w)
    PROVE  ProfileInv'
<1>1. w = TheWindow
  BY ProfileConstants
<1>2. /\ window[TheWindow] = "starting" /\ window' = [window EXCEPT ![TheWindow] = "ready"]
      /\ UNCHANGED <<setting, actor, lastSetBy>> /\ job' = [job EXCEPT ![TheWindow] = Profile!NoJob]
      /\ journal' \in {journal, job[TheWindow].changes}
  BY <1>1 DEF Profile!Started, Profile!Replaced
<1>3. /\ DOMAIN window' = Windows /\ window'[TheWindow] = "ready"
      /\ DOMAIN job' = Windows /\ job'[TheWindow] = Profile!NoJob
  BY <1>1, <1>2 DEF ProfileInv
<1>4. \A a \in Actors : ~Busy(actor, a) /\ actor[a].at \in {"idle", "over"}
  BY <1>2, NobodyActs
<1>5. Sound(actor', journal') /\ (lastSetBy # Nil /\ Has(journal, lastSetBy) => Has(journal', lastSetBy))
  BY <1>2 DEF ProfileInv, Queued
<1>6. Queued(actor', window', journal', lastSetBy', job'[TheWindow])
  BY <1>3, ProfileConstants DEF Queued, Profile!NoJob
<1>7. \A a \in Actors : Acting(actor', window', a)
  BY <1>2, <1>4 DEF ProfileInv, Acting
<1>8. \A u \in Calls : Updater(actor', journal', u)
  BY <1>2, <1>4, ProfileConstants DEF ProfileInv, Updater
<1>9. LastSet(actor', setting', journal', lastSetBy')
  BY <1>2, <1>5 DEF ProfileInv, LastSet
<1> QED BY <1>2, <1>3, <1>5, <1>6, <1>7, <1>8, <1>9 DEF ProfileInv

LEMMA CrashKeeps ==
    ASSUME OneWindow, ProfileInv, NEW w \in Windows, Profile!Crash(w)
    PROVE  ProfileInv'
<1>1. w = TheWindow /\ TheWindow # Nil
  BY ProfileConstants
<1>2. /\ window' = [window EXCEPT ![TheWindow] = "down"] /\ UNCHANGED <<setting, journal, lastSetBy>>
      /\ job' = [job EXCEPT ![TheWindow] = Profile!NoJob]
      /\ actor' = [a \in Actors |-> IF actor[a].window = TheWindow THEN [actor[a] EXCEPT !.at = "over"] ELSE actor[a]]
  BY <1>1 DEF Profile!Crash, Actors
<1>3. DOMAIN window' = Windows /\ window'[TheWindow] = "down" /\ DOMAIN job' = Windows /\ DOMAIN actor' = Actors
  BY <1>1, <1>2 DEF ProfileInv
<1>4. ASSUME NEW a \in Actors
      PROVE  /\ actor'[a].at \in {"idle", "over"} /\ (actor[a].at = "idle" <=> actor'[a].at = "idle")
             /\ actor'[a].change = actor[a].change /\ Acting(actor', window', a)
  <2>1. Acting(actor, window, a)
    BY DEF ProfileInv
  <2>2. actor[a] = [at |-> actor[a].at, window |-> actor[a].window, change |-> actor[a].change]
    BY <2>1 DEF Acting
  <2>3. CASE actor[a].window = TheWindow
    <3>1. actor'[a] = [at |-> "over", window |-> TheWindow, change |-> actor[a].change] /\ actor[a].at # "idle"
      BY <1>1, <1>2, <2>1, <2>2, <2>3 DEF Acting
    <3> QED BY <2>1, <3>1 DEF Acting, Busy
  <2>4. CASE actor[a].window # TheWindow
    <3>1. actor'[a] = actor[a] /\ ~Busy(actor, a)
      BY <1>2, <2>1, <2>4 DEF Acting
    <3> QED BY <2>1, <3>1 DEF Acting, Busy
  <2> QED BY <2>3, <2>4
<1>5. Moved(actor, actor')
  BY <1>4, ProfileConstants DEF Moved, Began
<1>6. Sound(actor', journal')
  BY <1>2, <1>5, SoundMoves DEF ProfileInv
<1>7. ASSUME NEW u \in Calls PROVE Updater(actor', journal', u)
  <2>1. u \in Actors /\ Updater(actor, journal, u)
    BY ProfileConstants DEF ProfileInv
  <2>2. ~Busy(actor', u) /\ actor'[u].at \in {"idle", "over"}
    BY <1>4, <2>1 DEF Busy
  <2>3. actor'[u].at # "idle" => actor'[u].change.id = u
    BY <1>4, <2>1 DEF Updater
  <2> QED BY <2>2, <2>3 DEF Updater
<1>8. \A d \in Undos : Undoer(actor', lastSetBy', d)
  BY <1>4, ProfileConstants DEF Undoer, Busy
<1>9. LastSet(actor', setting', journal', lastSetBy')
  <2> SUFFICES ASSUME lastSetBy # Nil PROVE LastSet(actor', setting', journal', lastSetBy')
    BY <1>2 DEF LastSet
  <2>1. lastSetBy \in Actors
    BY ProfileConstants DEF ProfileInv
  <2>2. actor'[lastSetBy].at = "over" /\ actor'[lastSetBy].change = actor[lastSetBy].change
    BY <1>4, <2>1 DEF ProfileInv, LastSet
  <2>3. Cardinality(Others(actor, lastSetBy)) >= Limit => Cardinality(Others(actor', lastSetBy)) >= Limit
    BY <1>5, OthersMove
  <2> QED BY <1>2, <2>2, <2>3 DEF ProfileInv, LastSet
<1>10. Queued(actor', window', journal', lastSetBy', job'[TheWindow])
  BY <1>3 DEF Queued
<1> QED BY <1>2, <1>3, <1>4, <1>6, <1>7, <1>8, <1>9, <1>10 DEF ProfileInv

LEMMA UserEditsKeep ==
    ASSUME OneWindow, ProfileInv, NEW value \in Values, Profile!UserEdits(value)
    PROVE  ProfileInv'
<1>1. setting' = value /\ lastSetBy' = Nil /\ UNCHANGED <<journal, window, job, actor>>
  BY DEF Profile!UserEdits
<1>2. ASSUME NEW d \in Undos PROVE Undoer(actor', lastSetBy', d)
  <2>1. d \in Actors /\ Undoer(actor, lastSetBy, d)
    BY ProfileConstants DEF ProfileInv
  <2>2. Busy(actor, d) => actor[d].change.id # Nil
    BY <2>1, BusyActor, ChangeIs, ProfileConstants
  <2> QED BY <1>1, <2>1, <2>2 DEF Undoer, Busy
<1>3. LastSet(actor', setting', journal', lastSetBy') /\ Queued(actor', window', journal', lastSetBy', job'[TheWindow])
  BY <1>1 DEF ProfileInv, LastSet, Queued
<1> QED BY <1>1, <1>2, <1>3 DEF ProfileInv

LEMMA ProfileInit == OneWindow /\ Profile!Init => ProfileInv
<1> SUFFICES ASSUME OneWindow, Profile!Init PROVE ProfileInv
  OBVIOUS
<1>1. TheWindow \in Windows
  BY ProfileConstants
<1>2. \A a \in Actors : actor[a] = Profile!NoActor
  BY DEF Profile!Init, Actors
<1>3. \A a \in Actors : actor[a].at = "idle" /\ actor[a].window = Nil /\ ~Busy(actor, a)
  BY <1>2 DEF Profile!NoActor, Busy
<1>4. \A a \in Actors : Acting(actor, window, a)
  BY <1>2, <1>3 DEF Acting, Profile!NoActor
<1>5. \A u \in Calls : Updater(actor, journal, u)
  BY <1>3, ProfileConstants DEF Updater
<1>6. \A d \in Undos : Undoer(actor, lastSetBy, d)
  BY <1>3, ProfileConstants DEF Undoer
<1>7. Sound(actor, journal)
  BY ProfileConstants DEF Sound, Profile!Init
<1>8. lastSetBy = Nil /\ window[TheWindow] = "down" /\ setting \in Values
  BY <1>1 DEF Profile!Init, Values
<1>9. DOMAIN window = Windows /\ DOMAIN job = Windows /\ DOMAIN actor = Actors
  BY DEF Profile!Init, Actors
<1> QED BY <1>4, <1>5, <1>6, <1>7, <1>8, <1>9 DEF ProfileInv, LastSet, Queued

LEMMA ProfileSteps == OneWindow /\ ProfileInv /\ [Profile!Next]_(Profile!vars) => ProfileInv'
<1> SUFFICES ASSUME OneWindow, ProfileInv, [Profile!Next]_(Profile!vars) PROVE ProfileInv'
  OBVIOUS
<1>1. CASE UNCHANGED Profile!vars
  <2>1. UNCHANGED <<setting, journal, window, job, actor, lastSetBy>>
    BY <1>1 DEF Profile!vars
  <2> QED BY <2>1 DEF ProfileInv
<1>2. ASSUME NEW a \in Actors, Profile!ReadJournal(a) \/ Profile!WriteJournal(a) \/ Profile!WriteFails(a)
      PROVE  ProfileInv'
  BY <1>2, ProfileReads, ProfileWrites, ProfileWriteFails
<1>3. ASSUME NEW u \in Calls, NEW w \in Windows, NEW value \in Values, Profile!Update(u, w, value)
      PROVE  ProfileInv'
  BY <1>3, UpdateKeeps
<1>4. ASSUME NEW u \in Calls,
             Profile!Apply(u) \/ Profile!ApplyFails(u) \/ Profile!Rollback(u) \/ Profile!RollbackFails(u)
      PROVE  ProfileInv'
  BY <1>4, ApplyKeeps
<1>5. ASSUME NEW d \in Undos, NEW w \in Windows, Profile!Undo(d, w) PROVE ProfileInv'
  BY <1>5, UndoKeeps
<1>6. ASSUME NEW d \in Undos, Profile!CheckUndo(d) \/ Profile!SetUndo(d) PROVE ProfileInv'
  BY <1>6, UndoGoesOn
<1>7. ASSUME NEW w \in Windows, Profile!Start(w) \/ Profile!Started(w) \/ Profile!Crash(w) PROVE ProfileInv'
  BY <1>7, StartKeeps, StartedKeeps, CrashKeeps
<1>8. ASSUME NEW value \in Values, Profile!UserEdits(value) PROVE ProfileInv'
  BY <1>8, UserEditsKeep
<1> QED BY <1>1, <1>2, <1>3, <1>4, <1>5, <1>6, <1>7, <1>8 DEF Profile!Next, Values, Actors

\* In one window, whatever crashes, failures, undos and edits of the user came before: the value an
\* update has set last can be undone, or Doctor is told of it, unless as many updates as the journal
\* keeps were made besides (extension-profile-core.ts, extension-profile-manager.ts).
THEOREM ChangesAreKept == OneWindow => (Profile!Spec => []ChangeIsKept)
<1> SUFFICES ASSUME OneWindow PROVE Profile!Spec => []ChangeIsKept
  OBVIOUS
<1>1. Profile!Init => ProfileInv
  BY ProfileInit
<1>2. ProfileInv /\ [Profile!Next]_(Profile!vars) => ProfileInv'
  BY ProfileSteps
<1>3. ProfileInv => ChangeIsKept
  <2> SUFFICES ASSUME ProfileInv, lastSetBy # Nil
               PROVE  \/ \E i \in DOMAIN journal : journal[i].id = lastSetBy /\ journal[i].after = setting
                      \/ Cardinality({u \in Calls \ {lastSetBy} : actor[u].at # "idle"}) >= Limit
    BY SameCardinality DEF ChangeIsKept, Profile!ChangeIsKept
  <2>1. CASE Has(journal, lastSetBy)
    <3>1. PICK i \in 1..Len(journal) : journal[i].id = lastSetBy
      BY <2>1 DEF Has
    <3>2. i \in DOMAIN journal /\ journal[i].after = setting
      BY <3>1 DEF ProfileInv, Sound, Entry, LastSet
    <3> QED BY <3>1, <3>2
  <2>2. CASE ~Has(journal, lastSetBy)
    BY <2>2 DEF ProfileInv, LastSet, Others
  <2> QED BY <2>1, <2>2
<1> QED BY <1>1, <1>2, <1>3, PTL DEF Profile!Spec

-----------------------------------------------------------------------------
(* UsageInsights.  What a process holds in hand while it makes room says   *)
(* less than the directory has: each file of others that is still there is *)
(* still in its list, and total is no less than the file it writes to and  *)
(* what is left of the list (Rooms).  That holds while others remove       *)
(* files, and until one of them appends, which pressed remembers.  The     *)
(* limit of all processes holds with the lines that are about to be        *)
(* appended (InsightsInv).                                                 *)

InsightFile == [owner : Processes \cup {Nil}, sequence : Nat, size : Nat, expired : BOOLEAN]

StoreType == [at : {"idle", "expire", "removeExpired", "list", "evict", "check", "append"},
              size : Nat, sequence : Nat, active : Nat, since : Nat, pruned : BOOLEAN, periodic : BOOLEAN,
              listed : Seq(InsightFile), total : Int, pressed : BOOLEAN, lost : {FALSE}]

SameFile(f, g) == f.owner = g.owner /\ f.sequence = g.sequence
Mine(s, p, f) == f.owner = p /\ f.sequence = s.sequence

\* The files of a listing, and of a directory, are different.
Distinct(list) == \A k \in 1..Len(list) : \A j \in 1..(k - 1) : ~ SameFile(list[j], list[k])

Weight(fs) == SumFunctionOnSet([f \in fs |-> f.size], fs)

LEMMA UsageNames ==
    /\ \A s, stay : Usage!Where(s, stay) = Where(s, stay)
    /\ \A s : Usage!Range(s) = ToSet(s)
    /\ \A f, g : Usage!Same(f, g) <=> SameFile(f, g)
    /\ \A p, f : Usage!Own(p, f) <=> Mine(store[p], p, f)
<1>1. \A s, stay : Usage!Where(s, stay) = Where(s, stay)
  BY DEF Where, Usage!Where
<1>2. \A s : Usage!Range(s) = ToSet(s)
  BY DEF ToSet, Usage!Range
<1>3. /\ \A f, g : Usage!Same(f, g) <=> SameFile(f, g)
      /\ \A p, f : Usage!Own(p, f) <=> Mine(store[p], p, f)
  BY DEF Usage!Same, SameFile, Usage!Own, Mine
<1> QED BY <1>1, <1>2, <1>3

LEMMA UsageSum == \A g, S : Usage!SumFunctionOnSet(g, S) = SumFunctionOnSet(g, S)
  BY SumIsIter DEF Usage!SumFunctionOnSet, Usage!FoldFunctionOnSet, Usage!MapThenFoldSet, SumIter, SumBody

LEMMA TotalIsWeight == \A list : Usage!TotalOf(list) = Weight(ToSet(list))
  BY UsageSum, UsageNames DEF Usage!TotalOf, Weight

(***************************************************************************)
(* Sets of files                                                           *)
(***************************************************************************)

\* A set of files of a directory
Listing(fs) == fs \subseteq InsightFile /\ IsFiniteSet(fs)

Keyed(fs) == \A f, g \in fs : SameFile(f, g) => f = g

\* Listing that were there before, and are as they were
Remains(fs, before) == \A f \in fs : \E g \in before : SameFile(f, g) /\ f.size = g.size

LEMMA WeightParts ==
    ASSUME NEW fs, Listing(fs), NEW part1 \in SUBSET fs
    PROVE  /\ Listing(part1) /\ Listing(fs \ part1) /\ Weight(fs) \in Nat /\ Weight(part1) \in Nat /\ Weight(fs \ part1) \in Nat
           /\ Weight(fs) = Weight(part1) + Weight(fs \ part1)
<1> DEFINE g == [f \in fs |-> f.size]
<1>1. ASSUME NEW T \in SUBSET fs PROVE Listing(T) /\ Weight(T) = SumFunctionOnSet(g, T) /\ Weight(T) \in Nat
  <2> DEFINE h == [f \in T |-> f.size]
  <2>1. Listing(T)
    BY FS_Subset DEF Listing
  <2>2. \A f \in T : h[f] = g[f] /\ h[f] \in Nat
    BY DEF Listing, InsightFile
  <2>3. IsFiniteSet(T)
    BY <2>1 DEF Listing
  <2> HIDE DEF g, h
  <2>4. SumFunctionOnSet(h, T) = SumFunctionOnSet(g, T) /\ SumFunctionOnSet(h, T) \in Nat
    BY <2>2, <2>3, SumCongruence, SumType
  <2> QED BY <2>1, <2>4 DEF Weight, h
<1>2. IsFiniteSet(fs) /\ \A f \in fs : g[f] \in Nat
  BY DEF Listing, InsightFile
<1> HIDE DEF g
<1>3. SumFunctionOnSet(g, fs) = SumFunctionOnSet(g, part1) + SumFunctionOnSet(g, fs \ part1)
  BY <1>2, SumSplit
<1>4. fs \in SUBSET fs /\ fs \ part1 \in SUBSET fs
  OBVIOUS
<1> QED BY <1>1, <1>3, <1>4

LEMMA WeightOfOne == ASSUME NEW f \in InsightFile PROVE Weight({f}) = f.size /\ Weight({}) = 0 /\ Listing({f})
<1> DEFINE g == [h \in {f} |-> h.size]
<1>1. IsFiniteSet({f}) /\ g[f] = f.size /\ f.size \in Nat
  BY FS_Singleton DEF InsightFile
<1>2. \A x \in {f} : g[x] \in Nat
  BY <1>1
<1> HIDE DEF g
<1>3. SumFunctionOnSet(g, {f}) = g[f] + SumFunctionOnSet(g, {f} \ {f})
  BY <1>1, <1>2, SumRemove
<1>4. SumFunctionOnSet(g, {f} \ {f}) = 0
  <2>1. {f} \ {f} = {}
    OBVIOUS
  <2> QED BY <2>1, SumOfNone
<1>5. Weight({}) = 0
  BY SumOfNone DEF Weight
<1> QED BY <1>1, <1>3, <1>4, <1>5 DEF Weight, Listing, g

\* Fewer files have no more bytes.
LEMMA WeightRemains ==
    ASSUME NEW fs, NEW before, Listing(fs), Listing(before), Keyed(fs), Remains(fs, before)
    PROVE  Weight(fs) <= Weight(before)
<1> DEFINE g == [f \in fs |-> f.size]
           h == [f \in before |-> f.size]
           m == [f \in fs |-> CHOOSE b \in before : SameFile(f, b) /\ f.size = b.size]
<1>1. \A f \in fs : m[f] \in before /\ SameFile(f, m[f]) /\ f.size = m[f].size
  BY DEF Remains
<1>2. m \in [fs -> before]
  BY <1>1
<1> HIDE DEF m
<1>3. \A f, e \in fs : m[f] = m[e] => f = e
  BY <1>1 DEF Keyed, SameFile
<1>4. \A f \in fs : g[f] \in Nat /\ g[f] = f.size
  BY DEF Listing, InsightFile
<1>5. \A f \in before : h[f] \in Nat /\ h[f] = f.size
  BY DEF Listing, InsightFile
<1>6. \A f \in fs : g[f] <= h[m[f]]
  BY <1>1, <1>4, <1>5
<1> HIDE DEF g, h
<1>7. IsFiniteSet(fs) /\ IsFiniteSet(before)
  BY DEF Listing
<1>8. SumFunctionOnSet(g, fs) <= SumFunctionOnSet(h, before)
  BY <1>2, <1>3, <1>4, <1>5, <1>6, <1>7, SumMapped
<1> QED BY <1>8 DEF Weight, g, h

(***************************************************************************)
(* Directories                                                             *)
(***************************************************************************)

LEMMA DistinctKeyed ==
    ASSUME NEW list \in Seq(InsightFile), Distinct(list)
    PROVE  Keyed(ToSet(list)) /\ Listing(ToSet(list))
<1>1. DOMAIN list = 1..Len(list) /\ Len(list) \in Nat
  OBVIOUS
<1>2. ASSUME NEW j \in 1..Len(list), NEW k \in 1..Len(list), SameFile(list[j], list[k]) PROVE j = k
  <2>1. j < k \/ k < j \/ j = k
    BY <1>1
  <2>2. j < k => j \in 1..(k - 1)
    BY <1>1
  <2>3. k < j => k \in 1..(j - 1)
    BY <1>1
  <2>4. SameFile(list[k], list[j])
    BY <1>2 DEF SameFile
  <2> QED BY <1>2, <2>1, <2>2, <2>3, <2>4 DEF Distinct
<1>3. Keyed(ToSet(list))
  <2>1. \A f \in ToSet(list) : \E j \in 1..Len(list) : f = list[j]
    BY <1>1 DEF ToSet
  <2> QED BY <1>2, <2>1 DEF Keyed
<1> QED BY <1>3, ToSetFinite, ToSetType DEF Listing

LEMMA DistinctWhere ==
    ASSUME NEW list \in Seq(InsightFile), Distinct(list), NEW stay
    PROVE  /\ Where(list, stay) \in Seq(InsightFile) /\ Distinct(Where(list, stay))
           /\ ToSet(Where(list, stay)) = ToSet(list) \cap stay
<1>1. Where(list, stay) \in Seq(InsightFile) /\ ToSet(Where(list, stay)) = ToSet(list) \cap stay
  BY WhereKeeps
<1>2. InOrder(Where(list, stay), list)
  BY WhereInOrder
<1> QED BY <1>1, <1>2 DEF Distinct, InOrder

LEMMA DistinctTail ==
    ASSUME NEW list \in Seq(InsightFile), Distinct(list), list # <<>>
    PROVE  /\ Tail(list) \in Seq(InsightFile) /\ Distinct(Tail(list)) /\ Head(list) \in ToSet(list)
           /\ ToSet(Tail(list)) = ToSet(list) \ {Head(list)} /\ Head(list) \in InsightFile
<1>1. Head(list) \in InsightFile /\ Tail(list) \in Seq(InsightFile) /\ ToSet(list) = {Head(list)} \cup ToSet(Tail(list))
  BY ToSetOfTail
<1>2. /\ Len(list) \in Nat \ {0} /\ Len(Tail(list)) = Len(list) - 1 /\ Head(list) = list[1]
      /\ \A j \in 1..(Len(list) - 1) : Tail(list)[j] = list[j + 1]
  OBVIOUS
<1>3. Distinct(Tail(list))
  <2> SUFFICES ASSUME NEW k \in 1..Len(Tail(list)), NEW j \in 1..(k - 1)
               PROVE  ~ SameFile(Tail(list)[j], Tail(list)[k])
    BY DEF Distinct
  <2>1. /\ k \in 1..(Len(list) - 1) /\ j \in 1..(Len(list) - 1)
        /\ k + 1 \in 1..Len(list) /\ j + 1 \in 1..((k + 1) - 1)
    BY <1>2
  <2>2. Tail(list)[j] = list[j + 1] /\ Tail(list)[k] = list[k + 1]
    BY <1>2, <2>1
  <2> QED BY <2>1, <2>2 DEF Distinct
<1>4. Head(list) \notin ToSet(Tail(list))
  <2>1. ASSUME NEW k \in 1..(Len(list) - 1) PROVE list[k + 1] # list[1]
    <3>1. k + 1 \in 1..Len(list) /\ 1 \in 1..((k + 1) - 1)
      BY <1>2
    <3>2. ~ SameFile(list[1], list[k + 1])
      BY <3>1 DEF Distinct
    <3> QED BY <3>2 DEF SameFile
  <2>2. \A f \in ToSet(Tail(list)) : \E k \in 1..(Len(list) - 1) : f = Tail(list)[k]
    BY <1>1, <1>2 DEF ToSet
  <2> QED BY <1>2, <2>1, <2>2
<1> QED BY <1>1, <1>3, <1>4

LEMMA DistinctAppend ==
    ASSUME NEW list \in Seq(InsightFile), Distinct(list), NEW f \in InsightFile,
           \A g \in ToSet(list) : ~ SameFile(g, f)
    PROVE  /\ Append(list, f) \in Seq(InsightFile) /\ Distinct(Append(list, f))
           /\ ToSet(Append(list, f)) = ToSet(list) \cup {f}
<1>1. Append(list, f) \in Seq(InsightFile) /\ ToSet(Append(list, f)) = ToSet(list) \cup {f}
  BY ToSetOfAppend
<1>2. /\ Len(list) \in Nat /\ Len(Append(list, f)) = Len(list) + 1 /\ Append(list, f)[Len(list) + 1] = f
      /\ \A j \in 1..Len(list) : Append(list, f)[j] = list[j] /\ list[j] \in ToSet(list)
  BY DEF ToSet
<1>3. ASSUME NEW k \in 1..Len(Append(list, f)), NEW j \in 1..(k - 1)
      PROVE  ~ SameFile(Append(list, f)[j], Append(list, f)[k])
  <2>1. j \in 1..Len(list) /\ (k = Len(list) + 1 \/ k \in 1..Len(list))
    BY <1>2
  <2> QED BY <1>2, <2>1 DEF Distinct
<1> QED BY <1>1, <1>3 DEF Distinct

\* A process that goes on to another file
LEMMA StoreRotated ==
    ASSUME NEW s \in StoreType
    PROVE  LET r == [s EXCEPT !.sequence = s.sequence + 1, !.active = 0]
           IN r \in StoreType /\ r.sequence = s.sequence + 1 /\ r.active = 0 /\ s.sequence \in Nat
<1>1. s.sequence \in Nat /\ s.sequence + 1 \in Nat
  BY DEF StoreType
<1> DEFINE n == s.sequence + 1
<1> HIDE DEF n
<1>2. n \in Nat
  BY <1>1 DEF n
<1>3. [s EXCEPT !.sequence = n, !.active = 0] \in StoreType
  BY <1>2 DEF StoreType
<1>4. LET r == [s EXCEPT !.sequence = n, !.active = 0] IN r.sequence = n /\ r.active = 0
  BY DEF StoreType
<1> QED BY <1>1, <1>3, <1>4 DEF n

(***************************************************************************)
(* A process and the directory                                             *)
(***************************************************************************)

\* What is in the directory is in hand or counted.
Rooms(fs, s, p) ==
    /\ \A f \in fs : ~ Mine(s, p, f) => \E g \in ToSet(s.listed) : SameFile(f, g) /\ f.size = g.size
    /\ Weight({f \in fs : Mine(s, p, f)}) + Weight({g \in ToSet(s.listed) : ~ Mine(s, p, g)}) <= s.total

\* Its files are its own, with no more in the one it writes to than it counts, and fit.
InHand(fs, s, p) ==
    /\ \A f \in fs : f.owner = p => /\ f.sequence <= s.sequence
                                    /\ f.sequence = s.sequence => f.size <= s.active
    /\ s.at # "idle" => s.size \in Sizes /\ s.size + s.active <= MaxTotal
    /\ s.at = "evict" => Distinct(s.listed) /\ (~ s.pressed => Rooms(fs, s, p))
    /\ s.at = "check" /\ ~ s.pressed => Weight(fs) + s.size <= MaxTotal

LEMMA UsageParts ==
    /\ IsFiniteSet(Processes) /\ Processes # {} /\ Nil \notin Processes
    /\ Sizes \subseteq Nat \ {0} /\ Usage!Largest \in Nat /\ \A size \in Sizes : size <= Usage!Largest
    /\ MaxTotal \in Nat /\ MaxActive \in Nat /\ MaxActive <= MaxTotal
<1>1. Usage!UsageAssumption
  BY WorkspaceAssumption
<1>2. Usage!Largest \in Sizes /\ \A size \in Sizes : size <= Usage!Largest
  BY <1>1 DEF Usage!UsageAssumption, Usage!Largest
<1>3. /\ IsFiniteSet(Processes) /\ Processes # {} /\ Nil \notin Processes /\ Sizes \subseteq Nat \ {0}
      /\ MaxTotal \in Nat /\ MaxActive \in Nat /\ MaxActive <= MaxTotal
  <2>1. IsFiniteSet(Processes) /\ Processes # {} /\ Nil \notin Processes
    BY <1>1 DEF Usage!UsageAssumption, Usage!IsFiniteSet, IsFiniteSet
  <2>2. Sizes \subseteq Nat \ {0}
    BY <1>1 DEF Usage!UsageAssumption
  <2>3. MaxTotal \in Nat /\ MaxActive \in Nat /\ MaxActive <= MaxTotal
    BY <1>1 DEF Usage!UsageAssumption
  <2> QED BY <2>1, <2>2, <2>3
<1>4. Usage!Largest \in Nat
  BY <1>2, <1>3
<1> QED BY <1>2, <1>3, <1>4

\* Others that remove files take nothing from what a process knows.
LEMMA InHandRemains ==
    ASSUME NEW fs, NEW before, Listing(fs), Listing(before), Keyed(fs), Remains(fs, before),
           NEW s \in StoreType, NEW p \in Processes, InHand(before, s, p)
    PROVE  InHand(fs, s, p)
<1>1. ASSUME NEW f \in fs, f.owner = p
      PROVE  f.sequence <= s.sequence /\ (f.sequence = s.sequence => f.size <= s.active)
  <2>1. PICK g \in before : SameFile(f, g) /\ f.size = g.size
    BY DEF Remains
  <2> QED BY <1>1, <2>1 DEF InHand, SameFile
<1>2. ASSUME ~ s.pressed, s.at = "evict" PROVE Rooms(fs, s, p)
  <2> DEFINE own == {f \in fs : Mine(s, p, f)}
             had == {f \in before : Mine(s, p, f)}
             left == {g \in ToSet(s.listed) : ~ Mine(s, p, g)}
  <2>1. Rooms(before, s, p) /\ Distinct(s.listed) /\ s.listed \in Seq(InsightFile) /\ s.total \in Int
    BY <1>2 DEF InHand, StoreType
  <2>2. ASSUME NEW f \in fs, ~ Mine(s, p, f)
        PROVE  \E g \in ToSet(s.listed) : SameFile(f, g) /\ f.size = g.size
    <3>1. PICK b \in before : SameFile(f, b) /\ f.size = b.size
      BY DEF Remains
    <3>2. ~ Mine(s, p, b)
      BY <2>2, <3>1 DEF Mine, SameFile
    <3>3. PICK g \in ToSet(s.listed) : SameFile(b, g) /\ b.size = g.size
      BY <2>1, <3>2 DEF Rooms
    <3> QED BY <3>1, <3>3 DEF SameFile
  <2>3. Remains(own, had) /\ Keyed(own)
    BY DEF Remains, Keyed, Mine, SameFile
  <2>4. /\ Listing(own) /\ Listing(had) /\ Listing(left)
        /\ Weight(own) \in Nat /\ Weight(had) \in Nat /\ Weight(left) \in Nat
    <3>1. Listing(ToSet(s.listed))
      BY <2>1, DistinctKeyed
    <3>2. own \in SUBSET fs /\ had \in SUBSET before /\ left \in SUBSET ToSet(s.listed)
      OBVIOUS
    <3> QED BY <3>1, <3>2, WeightParts
  <2> HIDE DEF own, had, left
  <2>5. Weight(own) <= Weight(had)
    BY <2>3, <2>4, WeightRemains
  <2>6. Weight(had) + Weight(left) <= s.total
    BY <2>1 DEF Rooms, had, left
  <2>7. Weight(own) + Weight(left) <= s.total
    BY <2>1, <2>4, <2>5, <2>6
  <2> QED BY <2>2, <2>7 DEF Rooms, own, left
<1>3. ASSUME s.at = "check", ~ s.pressed PROVE Weight(fs) + s.size <= MaxTotal
  <2>1. Weight(fs) <= Weight(before)
    BY WeightRemains
  <2>2. Weight(fs) \in Nat /\ Weight(before) \in Nat
    BY WeightParts
  <2>3. s.size \in Nat
    BY DEF StoreType
  <2> QED BY <1>3, <2>1, <2>2, <2>3, UsageParts DEF InHand
<1> QED BY <1>1, <1>2, <1>3 DEF InHand

\* The file that a process writes to is one file.
LEMMA OwnWeight ==
    ASSUME NEW fs, Listing(fs), Keyed(fs), NEW s \in StoreType, NEW p \in Processes, InHand(fs, s, p)
    PROVE  Weight({f \in fs : Mine(s, p, f)}) <= s.active
<1> DEFINE own == {f \in fs : Mine(s, p, f)}
<1>0. s.active \in Nat
  BY DEF StoreType
<1>1. CASE own = {}
  <2>1. Weight({}) = 0
    BY SumOfNone DEF Weight
  <2> QED BY <1>0, <1>1, <2>1
<1>2. CASE own # {}
  <2>1. PICK f \in own : TRUE
    BY <1>2
  <2>2. own = {f}
    BY <2>1 DEF Keyed, Mine, SameFile
  <2>3. f.size <= s.active /\ f \in InsightFile
    BY <2>1 DEF InHand, Mine, Listing
  <2> HIDE DEF own
  <2>4. Weight({f}) = f.size
    BY <2>3, WeightOfOne
  <2>5. Weight(own) <= s.active
    BY <2>2, <2>3, <2>4
  <2> QED BY <2>5 DEF own
<1> QED BY <1>1, <1>2

\* pruneInsightFiles: when the loop ends there is room, whatever ended it.
LEMMA RoomIsMade ==
    ASSUME NEW fs, Listing(fs), Keyed(fs), NEW s \in StoreType, NEW p \in Processes, InHand(fs, s, p),
           s.at = "evict", ~ s.pressed, s.listed = <<>> \/ s.total + s.size <= MaxTotal
    PROVE  Weight(fs) + s.size <= MaxTotal
<1> DEFINE own == {f \in fs : Mine(s, p, f)}
           left == {g \in ToSet(s.listed) : ~ Mine(s, p, g)}
<1>1. /\ Rooms(fs, s, p) /\ s.listed \in Seq(InsightFile) /\ Distinct(s.listed)
      /\ s.total \in Int /\ s.size \in Nat /\ s.active \in Nat /\ s.size + s.active <= MaxTotal
  BY DEF InHand, StoreType
<1>2. /\ own \in SUBSET fs /\ Listing(fs \ own) /\ Weight(own) \in Nat /\ Weight(fs \ own) \in Nat /\ Weight(fs) \in Nat
      /\ Weight(fs) = Weight(own) + Weight(fs \ own)
  <2>1. own \in SUBSET fs
    OBVIOUS
  <2> HIDE DEF own
  <2> QED BY <2>1, WeightParts
<1>3. Listing(left) /\ Weight(left) \in Nat
  <2>1. Listing(ToSet(s.listed))
    BY <1>1, DistinctKeyed
  <2>2. left \in SUBSET ToSet(s.listed)
    OBVIOUS
  <2> HIDE DEF left
  <2> QED BY <2>1, <2>2, WeightParts
<1>4. Remains(fs \ own, left)
  <2>1. ASSUME NEW f \in fs \ own PROVE \E g \in left : SameFile(f, g) /\ f.size = g.size
    <3>1. PICK g \in ToSet(s.listed) : SameFile(f, g) /\ f.size = g.size
      BY <1>1 DEF Rooms
    <3>2. ~ Mine(s, p, g)
      BY <3>1 DEF Mine, SameFile
    <3> QED BY <3>1, <3>2
  <2> HIDE DEF own, left
  <2> QED BY <2>1 DEF Remains
<1>5. Keyed(fs \ own)
  BY DEF Keyed
<1>6. Weight(own) + Weight(left) <= s.total
  BY <1>1 DEF Rooms
<1>7. Weight(own) <= s.active
  BY OwnWeight
<1> HIDE DEF own
<1>8. CASE s.listed = <<>>
  <2>1. left = {}
    BY <1>1, <1>8, ToSetType
  <2>2. fs \ own = {}
    BY <1>4, <2>1 DEF Remains
  <2>3. Weight({}) = 0
    BY SumOfNone DEF Weight
  <2>4. Weight(fs \ own) = 0
    BY <2>2, <2>3
  <2>5. Weight(fs) <= s.active /\ Weight(fs) \in Nat
    BY <1>1, <1>2, <1>7, <2>4
  <2> QED BY <1>1, <2>5, UsageParts
<1> HIDE DEF left
<1>9. CASE s.total + s.size <= MaxTotal
  <2>1. Weight(fs \ own) <= Weight(left)
    BY <1>2, <1>3, <1>4, <1>5, WeightRemains
  <2> QED BY SMTT(30), <1>1, <1>2, <1>3, <1>6, <1>9, <2>1, UsageParts
<1> QED BY <1>8, <1>9

\* A file of others is taken out of the list and the directory, and out of the total.
LEMMA RoomsEvict ==
    ASSUME NEW fs, Listing(fs), NEW s \in StoreType, NEW p \in Processes, Rooms(fs, s, p), Distinct(s.listed),
           s.listed # <<>>, ~ Mine(s, p, Head(s.listed)), NEW t \in StoreType,
           t.sequence = s.sequence, t.listed = Tail(s.listed), t.total = s.total - Head(s.listed).size
    PROVE  Rooms({g \in fs : ~ SameFile(Head(s.listed), g)}, t, p)
<1> DEFINE head == Head(s.listed)
           now1 == {g \in fs : ~ SameFile(head, g)}
           own == {f \in fs : Mine(s, p, f)}
           owns == {f \in now1 : Mine(t, p, f)}
           left == {g \in ToSet(s.listed) : ~ Mine(s, p, g)}
           rest == {g \in ToSet(t.listed) : ~ Mine(t, p, g)}
<1>1. s.listed \in Seq(InsightFile) /\ s.total \in Int /\ t.total \in Int
  BY DEF StoreType
<1>2. head \in ToSet(s.listed) /\ head \in InsightFile /\ ToSet(t.listed) = ToSet(s.listed) \ {head} /\ head.size \in Nat
  BY <1>1, DistinctTail DEF InsightFile
<1>3. \A f : Mine(t, p, f) <=> Mine(s, p, f)
  BY DEF Mine
<1>4. ASSUME NEW f \in now1, ~ Mine(t, p, f) PROVE \E g \in ToSet(t.listed) : SameFile(f, g) /\ f.size = g.size
  <2>1. PICK g \in ToSet(s.listed) : SameFile(f, g) /\ f.size = g.size
    BY <1>3, <1>4 DEF Rooms
  <2>2. g # head
    BY <1>4, <2>1 DEF SameFile
  <2> QED BY <1>2, <2>1, <2>2
<1>5. Listing(ToSet(s.listed))
  BY <1>1, DistinctKeyed
<1>6. owns \in SUBSET own /\ own \in SUBSET fs /\ left \in SUBSET ToSet(s.listed) /\ {head} \in SUBSET left /\ rest = left \ {head}
  BY <1>2, <1>3
<1>7. Weight(own) + Weight(left) <= s.total
  BY DEF Rooms
<1> HIDE DEF own, owns, left, rest, now1, head
<1>8. Listing(own) /\ Listing(left)
  BY <1>5, <1>6, WeightParts
<1>9. Weight(owns) <= Weight(own) /\ Weight(owns) \in Nat /\ Weight(own) \in Nat
  <2>1. Weight(own) = Weight(owns) + Weight(own \ owns) /\ Weight(owns) \in Nat /\ Weight(own \ owns) \in Nat
    BY <1>6, <1>8, WeightParts
  <2> QED BY <2>1
<1>10. Weight(left) = head.size + Weight(rest) /\ Weight(rest) \in Nat
  <2>1. Weight(left) = Weight({head}) + Weight(left \ {head}) /\ Weight(left \ {head}) \in Nat
    BY <1>6, <1>8, WeightParts
  <2>2. Weight({head}) = head.size
    BY <1>2, WeightOfOne
  <2> QED BY <1>6, <2>1, <2>2
<1>11. t.total = s.total - head.size
  BY DEF head
<1>12. Weight(owns) + Weight(rest) <= t.total
  BY <1>1, <1>2, <1>7, <1>9, <1>10, <1>11
<1> QED BY <1>4, <1>12 DEF Rooms, now1, owns, rest, head

\* The file that a process writes to is passed over.
LEMMA RoomsPass ==
    ASSUME NEW fs, NEW s \in StoreType, NEW p \in Processes, Rooms(fs, s, p), Distinct(s.listed),
           s.listed # <<>>, Mine(s, p, Head(s.listed)), NEW t \in StoreType,
           t.sequence = s.sequence, t.listed = Tail(s.listed), t.total = s.total
    PROVE  Rooms(fs, t, p)
<1>1. ToSet(t.listed) = ToSet(s.listed) \ {Head(s.listed)}
  <2>1. s.listed \in Seq(InsightFile)
    BY DEF StoreType
  <2> QED BY <2>1, DistinctTail
<1>2. \A f : Mine(t, p, f) <=> Mine(s, p, f)
  BY DEF Mine
<1>3. {g \in ToSet(t.listed) : ~ Mine(t, p, g)} = {g \in ToSet(s.listed) : ~ Mine(s, p, g)}
      /\ {f \in fs : Mine(t, p, f)} = {f \in fs : Mine(s, p, f)}
  BY <1>1, <1>2
<1>4. ASSUME NEW f \in fs, ~ Mine(t, p, f) PROVE \E g \in ToSet(t.listed) : SameFile(f, g) /\ f.size = g.size
  <2>1. PICK g \in ToSet(s.listed) : SameFile(f, g) /\ f.size = g.size
    BY <1>2, <1>4 DEF Rooms
  <2>2. ~ Mine(s, p, g)
    BY <1>2, <1>4, <2>1 DEF Mine, SameFile
  <2> QED BY <1>1, <2>1, <2>2
<1> QED BY <1>3, <1>4 DEF Rooms

\* A listing is all there is.
LEMMA RoomsListed ==
    ASSUME NEW list \in Seq(InsightFile), Distinct(list), NEW p \in Processes, NEW t \in StoreType,
           t.listed = list, t.total = Weight(ToSet(list))
    PROVE  Rooms(ToSet(list), t, p)
<1> DEFINE fs == ToSet(list)
           own == {f \in fs : Mine(t, p, f)}
<1>1. Listing(fs) /\ own \in SUBSET fs /\ {g \in fs : ~ Mine(t, p, g)} = fs \ own
  BY DistinctKeyed
<1>2. \A f \in fs : SameFile(f, f)
  BY DEF SameFile
<1> HIDE DEF fs
<1>3. Weight(fs) = Weight(own) + Weight(fs \ own) /\ Weight(fs) \in Nat
  <2> HIDE DEF own
  <2> QED BY <1>1, WeightParts
<1>4. Weight(own) + Weight(fs \ own) <= t.total
  BY <1>3 DEF fs
<1> QED BY <1>1, <1>2, <1>4 DEF Rooms, fs

(***************************************************************************)
(* All processes                                                           *)
(***************************************************************************)

\* The line that a process is about to append
Due(s) == IF s.at = "append" THEN s.size ELSE 0

\* ... all processes but p
DueBeside(st, p) == SumFunctionOnSet([q \in Processes |-> Due(st[q])], Processes \ {p})

DueOf(st) == SumFunctionOnSet([q \in Processes |-> Due(st[q])], Processes)

InsightsInv ==
    /\ files \in Seq(InsightFile) /\ Distinct(files)
    /\ store \in [Processes -> StoreType]
    /\ \A p \in Processes : InHand(ToSet(files), store[p], p)
    /\ Weight(ToSet(files)) + DueOf(store) <= MaxTotal + (Cardinality(Processes) - 1) * Usage!Largest

LEMMA DueParts ==
    ASSUME NEW st \in [Processes -> StoreType], \A q \in Processes : st[q].at = "append" => st[q].size \in Sizes,
           NEW p \in Processes
    PROVE  /\ DueOf(st) = Due(st[p]) + DueBeside(st, p) /\ Due(st[p]) \in Nat
           /\ DueBeside(st, p) \in Nat /\ DueBeside(st, p) <= (Cardinality(Processes) - 1) * Usage!Largest
           /\ Cardinality(Processes) \in Nat
<1> DEFINE g == [q \in Processes |-> Due(st[q])]
           n == Cardinality(Processes) - 1
<1>1. \A q \in Processes : g[q] = Due(st[q]) /\ g[q] \in 0..Usage!Largest /\ g[q] \in Nat
  <2> TAKE q \in Processes
  <2>1. st[q].at = "append" => st[q].size \in Nat /\ st[q].size <= Usage!Largest
    BY UsageParts
  <2> QED BY <2>1, UsageParts DEF Due
<1>2. IsFiniteSet(Processes) /\ IsFiniteSet(Processes \ {p}) /\ Cardinality(Processes \ {p}) = n
      /\ Cardinality(Processes) \in Nat
  BY UsageParts, FS_RemoveElement, FS_CardinalityType
<1> HIDE DEF g, n
<1>3. SumFunctionOnSet(g, Processes) = g[p] + SumFunctionOnSet(g, Processes \ {p})
  BY <1>1, <1>2, SumRemove
<1>4. SumFunctionOnSet(g, Processes \ {p}) \in Nat
  BY <1>1, <1>2, SumType
<1>5. SumFunctionOnSet(g, Processes \ {p}) <= Cardinality(Processes \ {p}) * Usage!Largest
  <2>1. Usage!Largest \in Nat /\ \A q \in Processes \ {p} : g[q] \in 0..Usage!Largest
    BY <1>1, UsageParts
  <2> QED BY <1>2, <2>1, SumBounded
<1>6. DueOf(st) = SumFunctionOnSet(g, Processes) /\ DueBeside(st, p) = SumFunctionOnSet(g, Processes \ {p})
  BY DEF DueOf, DueBeside, g
<1> QED BY <1>1, <1>2, <1>3, <1>4, <1>5, <1>6 DEF n

LEMMA DueSame ==
    ASSUME NEW st \in [Processes -> StoreType], NEW su \in [Processes -> StoreType], NEW p \in Processes,
           \A q \in Processes \ {p} : Due(st[q]) = Due(su[q])
    PROVE  DueBeside(st, p) = DueBeside(su, p)
<1> DEFINE g == [q \in Processes |-> Due(st[q])]
           h == [q \in Processes |-> Due(su[q])]
<1>1. \A q \in Processes \ {p} : g[q] = h[q]
  OBVIOUS
<1>2. IsFiniteSet(Processes \ {p})
  BY UsageParts, FS_RemoveElement
<1> HIDE DEF g, h
<1>3. SumFunctionOnSet(g, Processes \ {p}) = SumFunctionOnSet(h, Processes \ {p})
  BY <1>1, <1>2, SumCongruence
<1> QED BY <1>3 DEF DueBeside, g, h

\* A step of a process that adds no file and no byte to one
LEMMA NothingAdded ==
    ASSUME InsightsInv, NEW p \in Processes, NEW t \in StoreType, store' = [store EXCEPT ![p] = t],
           files' \in Seq(InsightFile), Distinct(files'), Remains(ToSet(files'), ToSet(files)),
           InHand(ToSet(files'), t, p), t.at = "append" => Weight(ToSet(files)) + t.size <= MaxTotal
    PROVE  InsightsInv'
<1>1. /\ files \in Seq(InsightFile) /\ Distinct(files) /\ store \in [Processes -> StoreType]
      /\ \A q \in Processes : InHand(ToSet(files), store[q], q)
      /\ Weight(ToSet(files)) + DueOf(store) <= MaxTotal + (Cardinality(Processes) - 1) * Usage!Largest
  BY DEF InsightsInv
<1>2. Listing(ToSet(files)) /\ Listing(ToSet(files')) /\ Keyed(ToSet(files'))
  BY <1>1, DistinctKeyed
<1>3. store' \in [Processes -> StoreType] /\ store'[p] = t /\ \A q \in Processes \ {p} : store'[q] = store[q]
  BY <1>1
<1>4. \A q \in Processes : InHand(ToSet(files'), store'[q], q)
  <2> TAKE q \in Processes
  <2>1. CASE q = p
    BY <1>3, <2>1
  <2>2. CASE q # p
    <3>1. store'[q] = store[q] /\ store[q] \in StoreType /\ InHand(ToSet(files), store[q], q)
      BY <1>1, <1>3, <2>2
    <3> QED BY <1>2, <3>1, InHandRemains
  <2> QED BY <2>1, <2>2
<1>5. Weight(ToSet(files')) <= Weight(ToSet(files)) /\ Weight(ToSet(files')) \in Nat /\ Weight(ToSet(files)) \in Nat
  BY <1>2, WeightRemains, WeightParts
<1> DEFINE B == (Cardinality(Processes) - 1) * Usage!Largest
<1>6. /\ DueOf(store) = Due(store[p]) + DueBeside(store, p) /\ Due(store[p]) \in Nat
      /\ DueBeside(store, p) \in Nat /\ DueBeside(store, p) <= B /\ B \in Int
  <2>1. \A q \in Processes : store[q].at = "append" => store[q].size \in Sizes
    BY <1>1 DEF InHand
  <2>2. /\ DueOf(store) = Due(store[p]) + DueBeside(store, p) /\ Due(store[p]) \in Nat
        /\ DueBeside(store, p) \in Nat /\ DueBeside(store, p) <= B /\ Cardinality(Processes) \in Nat
    BY <1>1, <2>1, DueParts
  <2> QED BY <2>2, UsageParts
<1> HIDE DEF B
<1>7. DueOf(store') = Due(t) + DueBeside(store, p) /\ Due(t) \in Nat
  <2>1. \A q \in Processes : store'[q].at = "append" => store'[q].size \in Sizes
    BY <1>4 DEF InHand
  <2>2. DueOf(store') = Due(store'[p]) + DueBeside(store', p) /\ Due(store'[p]) \in Nat
    BY <1>3, <2>1, DueParts
  <2>3. \A q \in Processes \ {p} : Due(store'[q]) = Due(store[q])
    BY <1>3
  <2>4. DueBeside(store', p) = DueBeside(store, p)
    BY ZenonT(40), <1>1, <1>3, <2>3, DueSame
  <2> QED BY <1>3, <2>2, <2>4
<1>8. Weight(ToSet(files')) + DueOf(store') <= MaxTotal + B
  <2>1. CASE t.at = "append"
    <3>1. Due(t) = t.size /\ t.size \in Nat
      BY <2>1 DEF Due, StoreType
    <3> QED BY SMTT(30), <1>5, <1>6, <1>7, <2>1, <3>1, UsageParts
  <2>2. CASE t.at # "append"
    <3>1. Due(t) = 0
      BY <2>2 DEF Due
    <3>2. Weight(ToSet(files)) + DueOf(store) <= MaxTotal + B
      BY <1>1 DEF B
    <3> QED BY <1>5, <1>6, <1>7, <3>1, <3>2, UsageParts
  <2> QED BY <2>1, <2>2
<1> QED BY <1>3, <1>4, <1>8 DEF InsightsInv, B

LEMMA RemainsAll == \A fs : \A before : fs \subseteq before => Remains(fs, before)
  BY DEF Remains, SameFile

\* ... and that leaves the directory alone
LEMMA FilesKept ==
    ASSUME InsightsInv, NEW p \in Processes, NEW t \in StoreType, store' = [store EXCEPT ![p] = t],
           UNCHANGED files, InHand(ToSet(files), t, p),
           t.at = "append" => Weight(ToSet(files)) + t.size <= MaxTotal
    PROVE  InsightsInv'
<1>1. files' \in Seq(InsightFile) /\ Distinct(files') /\ Remains(ToSet(files'), ToSet(files))
  BY RemainsAll DEF InsightsInv
<1> QED BY <1>1, NothingAdded

\* rm: one file less
LEMMA WithoutOne ==
    ASSUME InsightsInv, NEW f
    PROVE  /\ Usage!Without(f) \in Seq(InsightFile) /\ Distinct(Usage!Without(f))
           /\ ToSet(Usage!Without(f)) = {g \in ToSet(files) : ~ SameFile(f, g)}
           /\ Remains(ToSet(Usage!Without(f)), ToSet(files))
<1> DEFINE stay == {g \in ToSet(files) : ~ SameFile(f, g)}
<1>1. Usage!Without(f) = Where(files, stay)
  <2>1. {g \in Usage!Range(files) : ~ Usage!Same(f, g)} = stay
    BY UsageNames
  <2> QED BY <2>1, UsageNames DEF Usage!Without
<1> HIDE DEF stay
<1>2. /\ Where(files, stay) \in Seq(InsightFile) /\ Distinct(Where(files, stay))
      /\ ToSet(Where(files, stay)) = ToSet(files) \cap stay
  BY DistinctWhere DEF InsightsInv
<1>3. ToSet(files) \cap stay = {g \in ToSet(files) : ~ SameFile(f, g)}
  BY DEF stay
<1> QED BY <1>1, <1>2, <1>3, RemainsAll

LEMMA InsightsInit == Usage!Init => InsightsInv
<1> SUFFICES ASSUME Usage!Init PROVE InsightsInv
  OBVIOUS
<1>1. store = [p \in Processes |-> Usage!NewStore] /\ Usage!NewStore \in StoreType /\ Usage!NewStore.at = "idle"
  BY DEF Usage!Init, Usage!NewStore, StoreType
<1>2. store \in [Processes -> StoreType] /\ \A p \in Processes : store[p].at = "idle"
  BY <1>1
<1>3. PICK n \in 0..MaxTotal : files = IF n = 0 THEN <<>> ELSE <<Usage!File(Nil, 0, n)>>
  BY DEF Usage!Init
<1>4. /\ files \in Seq(InsightFile) /\ Distinct(files) /\ (\A f \in ToSet(files) : f.owner = Nil)
      /\ Weight(ToSet(files)) <= MaxTotal /\ Weight(ToSet(files)) \in Nat
  <2>1. CASE n = 0
    <3>1. files = <<>> /\ ToSet(files) = {} /\ Len(files) = 0
      BY <1>3, <2>1 DEF ToSet
    <3>2. Weight({}) = 0
      BY SumOfNone DEF Weight
    <3>3. files \in Seq(InsightFile)
      BY <3>1
    <3>4. Distinct(files)
      BY <3>1 DEF Distinct
    <3>5. Weight(ToSet(files)) = 0
      BY <3>1, <3>2
    <3> QED BY <3>1, <3>3, <3>4, <3>5, UsageParts
  <2>2. CASE n # 0
    <3> DEFINE f == Usage!File(Nil, 0, n)
    <3>1. f \in InsightFile /\ f.owner = Nil /\ f.size = n
      BY UsageParts DEF Usage!File, InsightFile
    <3> HIDE DEF f
    <3>2. files = <<f>> /\ ToSet(files) = {f} /\ Len(files) = 1
      BY <1>3, <2>2 DEF ToSet, f
    <3>3. Weight({f}) = f.size
      BY <3>1, WeightOfOne
    <3>4. files \in Seq(InsightFile)
      BY <3>1, <3>2
    <3>5. Distinct(files)
      BY <3>2 DEF Distinct
    <3> QED BY <3>1, <3>2, <3>3, <3>4, <3>5, UsageParts
  <2> QED BY <2>1, <2>2
<1>5. \A p \in Processes : InHand(ToSet(files), store[p], p)
  BY <1>2, <1>4, UsageParts DEF InHand
<1>6. Weight(ToSet(files)) + DueOf(store) <= MaxTotal + (Cardinality(Processes) - 1) * Usage!Largest
  <2>1. PICK p \in Processes : TRUE
    BY UsageParts
  <2> DEFINE B == (Cardinality(Processes) - 1) * Usage!Largest
  <2>2. /\ DueOf(store) = Due(store[p]) + DueBeside(store, p)
        /\ DueBeside(store, p) \in Nat /\ DueBeside(store, p) <= B /\ Cardinality(Processes) \in Nat
    BY <1>2, DueParts
  <2>3. Due(store[p]) = 0 /\ B \in Int
    BY <1>2, <2>2, UsageParts DEF Due
  <2> HIDE DEF B
  <2>4. Weight(ToSet(files)) + DueOf(store) <= MaxTotal + B
    BY <1>4, <2>2, <2>3, UsageParts
  <2> QED BY <2>4 DEF B
<1> QED BY <1>2, <1>4, <1>5, <1>6 DEF InsightsInv

(***************************************************************************)
(* The steps of a process                                                  *)
(***************************************************************************)

LEMMA StoreIs ==
    ASSUME InsightsInv, NEW p \in Processes
    PROVE  /\ store \in [Processes -> StoreType] /\ store[p] \in StoreType
           /\ InHand(ToSet(files), store[p], p) /\ files \in Seq(InsightFile)
           /\ \A t \in StoreType : (/\ InHand(ToSet(files), t, p) /\ t.at # "append"
                                    /\ UNCHANGED files /\ store' = [store EXCEPT ![p] = t]) => InsightsInv'
<1>1. store \in [Processes -> StoreType] /\ store[p] \in StoreType /\ InHand(ToSet(files), store[p], p)
      /\ files \in Seq(InsightFile)
  BY DEF InsightsInv
<1>2. ASSUME NEW t \in StoreType, InHand(ToSet(files), t, p), t.at # "append", UNCHANGED files,
             store' = [store EXCEPT ![p] = t]
      PROVE  InsightsInv'
  BY <1>2, FilesKept
<1> QED BY <1>1, <1>2

\* What is in hand at rest and between the listings
LEMMA InHandEasy ==
    ASSUME NEW fs, NEW s, NEW p, InHand(fs, s, p), NEW t, t.at \notin {"evict", "check"},
           t.sequence = s.sequence, t.active = s.active,
           t.at # "idle" => s.at # "idle" /\ t.size = s.size
    PROVE  InHand(fs, t, p)
  BY DEF InHand

LEMMA BeginKeeps ==
    ASSUME InsightsInv, NEW p \in Processes, NEW size \in Sizes, NEW overdue \in BOOLEAN,
           Usage!Begin(p, size, overdue)
    PROVE  InsightsInv'
<1> DEFINE s == store[p]
           rotates == s.active > 0 /\ s.active + size > MaxActive
           periodic == ~ s.pruned \/ s.since + size >= PruneInterval \/ overdue
           r == IF rotates THEN [s EXCEPT !.sequence = s.sequence + 1, !.active = 0] ELSE s
           at1 == IF periodic THEN "expire" ELSE "list"
           t == IF size > MaxTotal THEN s
                ELSE [r EXCEPT !.at = at1, !.size = size, !.periodic = periodic]
<1>1. store' = [store EXCEPT ![p] = t] /\ UNCHANGED files /\ s.at = "idle"
  BY DEF Usage!Begin
<1>2. s \in StoreType /\ InHand(ToSet(files), s, p) /\ files \in Seq(InsightFile)
  BY StoreIs
<1>3. periodic \in BOOLEAN /\ at1 \in {"expire", "list"} /\ size \in Nat
  BY UsageParts
<1> HIDE DEF periodic, at1
<1>4. CASE size > MaxTotal
  <2>1. t = s
    BY <1>4
  <2> QED BY <1>1, <1>2, <2>1, StoreIs
<1>5. CASE ~ (size > MaxTotal) /\ ~ rotates
  <2>1. t = [s EXCEPT !.at = at1, !.size = size, !.periodic = periodic]
    BY <1>5
  <2> HIDE DEF t, r
  <2>2. /\ t \in StoreType /\ t.at = at1 /\ t.size = size /\ t.sequence = s.sequence /\ t.active = s.active
    BY <1>2, <1>3, <2>1 DEF StoreType
  <2>3. size + s.active <= MaxTotal
    <3>1. s.active \in Nat
      BY <1>2 DEF StoreType
    <3> QED BY <1>3, <1>5, <3>1, UsageParts
  <2>4. InHand(ToSet(files), t, p)
    BY <1>2, <1>3, <2>2, <2>3 DEF InHand
  <2> QED BY <1>1, <1>3, <2>2, <2>4, StoreIs
<1>6. CASE ~ (size > MaxTotal) /\ rotates
  <2>0. /\ r \in StoreType /\ r.sequence = s.sequence + 1 /\ r.active = 0 /\ s.sequence \in Nat
    <3>1. r = [s EXCEPT !.sequence = s.sequence + 1, !.active = 0]
      BY <1>6
    <3> HIDE DEF r, s
    <3> QED BY <1>2, <3>1, StoreRotated
  <2>1. t = [r EXCEPT !.at = at1, !.size = size, !.periodic = periodic]
    BY <1>6
  <2> HIDE DEF t, r
  <2>2. /\ t \in StoreType /\ t.at = at1 /\ t.size = size /\ t.sequence = s.sequence + 1 /\ t.active = 0
        /\ s.sequence \in Nat
    BY <1>3, <2>0, <2>1 DEF StoreType
  <2>3. size + 0 <= MaxTotal
    BY <1>3, <1>6, UsageParts
  <2>4. \A f \in ToSet(files) : f.owner = p => f.sequence <= t.sequence /\ f.sequence # t.sequence
    <3> TAKE f \in ToSet(files)
    <3>0. f \in InsightFile
      BY <1>2, ToSetType
    <3>1. f.sequence \in Nat
      BY <3>0 DEF InsightFile
    <3>2. f.owner = p => f.sequence <= s.sequence
      BY <1>2 DEF InHand
    <3> QED BY <2>2, <3>1, <3>2
  <2>5. InHand(ToSet(files), t, p)
    BY <1>3, <2>2, <2>3, <2>4 DEF InHand
  <2> QED BY <1>1, <1>3, <2>2, <2>5, StoreIs
<1> QED BY <1>4, <1>5, <1>6

LEMMA ListExpiredKeeps ==
    ASSUME InsightsInv, NEW p \in Processes, Usage!ListExpired(p)
    PROVE  InsightsInv'
<1> DEFINE s == store[p]
           stay == {f \in Usage!Range(files) : f.expired /\ ~ Usage!Own(p, f)}
           old == Usage!Where(files, stay)
           t == [s EXCEPT !.at = "removeExpired", !.listed = old]
<1>1. s \in StoreType /\ InHand(ToSet(files), s, p) /\ files \in Seq(InsightFile) /\ store \in [Processes -> StoreType]
  BY StoreIs
<1>2. store' = [store EXCEPT ![p] = t] /\ UNCHANGED files /\ s.at = "expire"
  BY <1>1 DEF Usage!ListExpired
<1>3. old \in Seq(InsightFile)
  <2>1. old = Where(files, stay)
    BY UsageNames
  <2> HIDE DEF stay, old
  <2> QED BY <1>1, <2>1, WhereKeeps
<1> HIDE DEF old, stay
<1>4. /\ t \in StoreType /\ t.at = "removeExpired" /\ t.size = s.size /\ t.sequence = s.sequence /\ t.active = s.active
  BY <1>1, <1>3 DEF StoreType
<1> HIDE DEF t
<1>5. InHand(ToSet(files), t, p)
  BY <1>1, <1>2, <1>4, InHandEasy
<1> QED BY <1>2, <1>4, <1>5, StoreIs

LEMMA RemoveExpiredKeeps ==
    ASSUME InsightsInv, NEW p \in Processes, Usage!RemoveExpired(p)
    PROVE  InsightsInv'
<1> DEFINE s == store[p]
<1>1. /\ s \in StoreType /\ InHand(ToSet(files), s, p) /\ files \in Seq(InsightFile)
      /\ store \in [Processes -> StoreType] /\ s.at = "removeExpired" /\ s.listed \in Seq(InsightFile)
  <2>1. store[p] \in StoreType /\ InHand(ToSet(files), s, p) /\ files \in Seq(InsightFile) /\ store \in [Processes -> StoreType]
    BY StoreIs
  <2> QED BY <2>1 DEF Usage!RemoveExpired, StoreType
<1>2. CASE s.listed = <<>>
  <2> DEFINE t == [s EXCEPT !.at = "list"]
  <2>1. store' = [store EXCEPT ![p] = t] /\ UNCHANGED files
    BY <1>1, <1>2 DEF Usage!RemoveExpired
  <2>2. /\ t \in StoreType /\ t.at = "list" /\ t.size = s.size /\ t.sequence = s.sequence /\ t.active = s.active
    BY <1>1 DEF StoreType
  <2> HIDE DEF t
  <2>3. InHand(ToSet(files), t, p)
    BY <1>1, <2>2, InHandEasy
  <2> QED BY <2>1, <2>2, <2>3, StoreIs
<1>3. CASE s.listed # <<>>
  <2> DEFINE t == [s EXCEPT !.listed = Tail(s.listed)]
  <2>1. store' = [store EXCEPT ![p] = t] /\ (files' = Usage!Without(Head(s.listed)) \/ UNCHANGED files)
    BY <1>1, <1>3 DEF Usage!RemoveExpired
  <2>2. Tail(s.listed) \in Seq(InsightFile)
    BY <1>1, <1>3
  <2>3. /\ t \in StoreType /\ t.at = "removeExpired" /\ t.size = s.size /\ t.sequence = s.sequence /\ t.active = s.active
    BY <1>1, <2>2 DEF StoreType
  <2> HIDE DEF t
  <2>4. InHand(ToSet(files), t, p)
    BY <1>1, <2>3, InHandEasy
  <2>5. CASE UNCHANGED files
    BY <2>1, <2>3, <2>4, <2>5, StoreIs
  <2>6. CASE files' = Usage!Without(Head(s.listed))
    <3>1. files' \in Seq(InsightFile) /\ Distinct(files') /\ Remains(ToSet(files'), ToSet(files))
      BY <2>6, WithoutOne
    <3>2. Listing(ToSet(files)) /\ Listing(ToSet(files')) /\ Keyed(ToSet(files'))
      BY <3>1, DistinctKeyed DEF InsightsInv
    <3>3. InHand(ToSet(files'), t, p)
      BY <2>3, <2>4, <3>1, <3>2, InHandRemains
    <3> QED BY <2>1, <2>3, <3>1, <3>3, NothingAdded
  <2> QED BY <2>1, <2>5, <2>6
<1> QED BY <1>2, <1>3

LEMMA ListKeeps ==
    ASSUME InsightsInv, NEW p \in Processes, Usage!List(p)
    PROVE  InsightsInv'
<1> DEFINE s == store[p]
           total == Usage!TotalOf(files)
           t == [s EXCEPT !.at = "evict", !.listed = files, !.total = total, !.pressed = FALSE]
<1>1. s \in StoreType /\ InHand(ToSet(files), s, p) /\ files \in Seq(InsightFile) /\ store \in [Processes -> StoreType]
      /\ Distinct(files)
  BY StoreIs DEF InsightsInv
<1>2. store' = [store EXCEPT ![p] = t] /\ UNCHANGED files /\ s.at = "list"
  BY <1>1 DEF Usage!List
<1>3. total = Weight(ToSet(files)) /\ total \in Nat
  <2>1. Listing(ToSet(files))
    BY <1>1, DistinctKeyed
  <2> QED BY <2>1, TotalIsWeight, WeightParts
<1> HIDE DEF total
<1>4. /\ t \in StoreType /\ t.at = "evict" /\ t.size = s.size /\ t.sequence = s.sequence /\ t.active = s.active
      /\ t.listed = files /\ t.total = total
  <2>1. s \in StoreType /\ files \in Seq(InsightFile) /\ total \in Int
    BY <1>1, <1>3
  <2>2. t = [s EXCEPT !.at = "evict", !.listed = files, !.total = total, !.pressed = FALSE]
    OBVIOUS
  <2> HIDE DEF s, t
  <2>3. t \in StoreType
    BY <2>1, <2>2 DEF StoreType
  <2>4. /\ t.at = "evict" /\ t.size = s.size /\ t.sequence = s.sequence
        /\ t.active = s.active /\ t.listed = files /\ t.total = total
    BY <2>1, <2>2 DEF StoreType
  <2> QED BY <2>3, <2>4
<1> HIDE DEF t
<1>5. Rooms(ToSet(files), t, p)
  BY <1>1, <1>3, <1>4, RoomsListed
<1>6. InHand(ToSet(files), t, p)
  BY <1>1, <1>2, <1>4, <1>5 DEF InHand
<1> QED BY <1>2, <1>4, <1>6, StoreIs

\* One turn of the loop: a file of others goes, or is passed over, or cannot be removed.
LEMMA EvictKeeps ==
    ASSUME InsightsInv, NEW p \in Processes, Usage!Evict(p)
    PROVE  InsightsInv'
<1> DEFINE s == store[p]
           fs == ToSet(files)
           head == Head(s.listed)
<1>1. /\ s \in StoreType /\ InHand(fs, s, p) /\ files \in Seq(InsightFile) /\ Distinct(files)
      /\ store \in [Processes -> StoreType] /\ s.at = "evict"
  <2>1. store[p] \in StoreType /\ InHand(fs, s, p) /\ files \in Seq(InsightFile) /\ store \in [Processes -> StoreType]
    BY StoreIs
  <2> QED BY <2>1 DEF Usage!Evict, InsightsInv
<1>2. Listing(fs) /\ Keyed(fs)
  BY <1>1, DistinctKeyed
<1>3. /\ s.listed \in Seq(InsightFile) /\ Distinct(s.listed) /\ (~ s.pressed => Rooms(fs, s, p))
      /\ s.size \in Sizes /\ s.size \in Nat /\ s.total \in Int /\ s.size + s.active <= MaxTotal
      /\ \A f \in fs : f.owner = p => /\ f.sequence <= s.sequence
                                      /\ f.sequence = s.sequence => f.size <= s.active
  BY <1>1 DEF InHand, StoreType
<1>4. CASE s.listed = <<>> \/ s.total + s.size <= MaxTotal
  <2> DEFINE t == [s EXCEPT !.at = "check", !.listed = <<>>]
  <2>1. store' = [store EXCEPT ![p] = t] /\ UNCHANGED files
    BY <1>1, <1>4 DEF Usage!Evict
  <2>2. <<>> \in Seq(InsightFile)
    OBVIOUS
  <2>3. /\ t \in StoreType /\ t.at = "check" /\ t.size = s.size /\ t.sequence = s.sequence /\ t.active = s.active
        /\ t.pressed = s.pressed
    BY <1>1, <2>2 DEF StoreType
  <2>4. ~ s.pressed => Weight(fs) + s.size <= MaxTotal
    <3> HIDE DEF s, fs
    <3> QED BY <1>1, <1>2, <1>4, RoomIsMade
  <2> HIDE DEF t
  <2>5. InHand(fs, t, p)
    BY <1>3, <2>3, <2>4 DEF InHand
  <2> QED BY <2>1, <2>3, <2>5, StoreIs
<1>5. ASSUME s.listed # <<>>, ~ (s.total + s.size <= MaxTotal) PROVE InsightsInv'
  <2>1. /\ head \in InsightFile /\ Tail(s.listed) \in Seq(InsightFile) /\ Distinct(Tail(s.listed))
        /\ head.size \in Nat
    BY <1>3, <1>5, DistinctTail DEF InsightFile
  <2>2. CASE Mine(s, p, head)
    <3> DEFINE t == [s EXCEPT !.listed = Tail(s.listed)]
    <3>1. store' = [store EXCEPT ![p] = t] /\ UNCHANGED files
      BY <1>1, <1>5, <2>2, UsageNames DEF Usage!Evict, Usage!PassedOver
    <3>2. /\ t \in StoreType /\ t.at = "evict" /\ t.size = s.size /\ t.sequence = s.sequence /\ t.active = s.active
          /\ t.pressed = s.pressed /\ t.listed = Tail(s.listed) /\ t.total = s.total
      BY <1>1, <2>1 DEF StoreType
    <3> HIDE DEF t
    <3>3. ~ s.pressed => Rooms(fs, t, p)
      BY <1>1, <1>3, <1>5, <2>2, <3>2, RoomsPass
    <3>4. InHand(fs, t, p)
      BY <1>3, <2>1, <3>2, <3>3 DEF InHand
    <3> QED BY <3>1, <3>2, <3>4, StoreIs
  <2>3. ASSUME ~ Mine(s, p, head), UNCHANGED files,
               store' = [store EXCEPT ![p] = [s EXCEPT !.listed = Tail(s.listed), !.pressed = TRUE]]
        PROVE  InsightsInv'
    <3> DEFINE t == [s EXCEPT !.listed = Tail(s.listed), !.pressed = TRUE]
    <3>1. /\ t \in StoreType /\ t.at = "evict" /\ t.size = s.size /\ t.sequence = s.sequence /\ t.active = s.active
          /\ t.listed = Tail(s.listed)
      BY <1>1, <2>1 DEF StoreType
    <3>2. t.pressed
      BY <1>1 DEF StoreType
    <3> HIDE DEF t
    <3>3. InHand(fs, t, p)
      BY <1>3, <2>1, <3>1, <3>2 DEF InHand
    <3> QED BY <2>3, <3>1, <3>3, StoreIs DEF t
  <2>4. ASSUME ~ Mine(s, p, head), files' = Usage!Without(head),
               store' = [store EXCEPT ![p] = [s EXCEPT !.listed = Tail(s.listed), !.total = s.total - head.size]]
        PROVE  InsightsInv'
    <3> DEFINE total == s.total - head.size
               t == [s EXCEPT !.listed = Tail(s.listed), !.total = total]
               gs == ToSet(files')
    <3>1. files' \in Seq(InsightFile) /\ Distinct(files') /\ gs = {g \in fs : ~ SameFile(head, g)} /\ Remains(gs, fs)
      BY <2>4, WithoutOne
    <3>2. total \in Int
      BY <1>3, <2>1
    <3> HIDE DEF total
    <3>3. /\ t \in StoreType /\ t.at = "evict" /\ t.size = s.size /\ t.sequence = s.sequence /\ t.active = s.active
          /\ t.pressed = s.pressed /\ t.listed = Tail(s.listed) /\ t.total = total
      BY <1>1, <2>1, <3>2 DEF StoreType
    <3>4. store' = [store EXCEPT ![p] = t]
      BY <2>4 DEF total
    <3> HIDE DEF t
    <3>5. ~ s.pressed => Rooms(gs, t, p)
      <4> SUFFICES ASSUME ~ s.pressed PROVE Rooms(gs, t, p)
        OBVIOUS
      <4>1. Rooms(fs, s, p) /\ t.total = s.total - Head(s.listed).size /\ ~ Mine(s, p, Head(s.listed))
        BY <1>3, <2>4, <3>3 DEF total
      <4> HIDE DEF gs, fs, s
      <4>2. Rooms({g \in fs : ~ SameFile(Head(s.listed), g)}, t, p)
        BY <1>1, <1>2, <1>3, <1>5, <3>3, <4>1, RoomsEvict
      <4> QED BY <3>1, <4>2
    <3>6. \A f \in gs : f.owner = p => /\ f.sequence <= t.sequence
                                       /\ f.sequence = t.sequence => f.size <= t.active
      BY <1>3, <3>1, <3>3
    <3>7. InHand(gs, t, p)
      BY <1>3, <2>1, <3>3, <3>5, <3>6 DEF InHand
    <3>8. t.at # "append"
      BY <3>3
    <3> QED BY <3>1, <3>3, <3>4, <3>7, <3>8, NothingAdded
  <2>5. \/ Mine(s, p, head)
        \/ /\ ~ Mine(s, p, head) /\ UNCHANGED files
           /\ store' = [store EXCEPT ![p] = [s EXCEPT !.listed = Tail(s.listed), !.pressed = TRUE]]
        \/ /\ ~ Mine(s, p, head) /\ files' = Usage!Without(head)
           /\ store' = [store EXCEPT ![p] = [s EXCEPT !.listed = Tail(s.listed), !.total = s.total - head.size]]
    <3> DEFINE rest == [s EXCEPT !.listed = Tail(s.listed)]
    <3>1. \/ Mine(s, p, head)
          \/ /\ ~ Mine(s, p, head) /\ UNCHANGED files
             /\ store' = [store EXCEPT ![p] = [rest EXCEPT !.pressed = TRUE]]
          \/ /\ ~ Mine(s, p, head) /\ files' = Usage!Without(head)
             /\ store' = [store EXCEPT ![p] = [rest EXCEPT !.total = rest.total - head.size]]
      BY <1>1, <1>5, UsageNames DEF Usage!Evict
    <3>2. rest.total = s.total
      BY <1>1 DEF StoreType
    <3>3. [rest EXCEPT !.pressed = TRUE] = [s EXCEPT !.listed = Tail(s.listed), !.pressed = TRUE]
          /\ [rest EXCEPT !.total = rest.total - head.size]
                 = [s EXCEPT !.listed = Tail(s.listed), !.total = s.total - head.size]
      BY <1>1, <3>2 DEF StoreType
    <3> HIDE DEF rest
    <3> QED BY <3>1, <3>3
  <2> QED BY <2>2, <2>3, <2>4, <2>5
<1> QED BY <1>4, <1>5

\* An append is over, whatever came of it.
LEMMA OverIs ==
    ASSUME NEW s \in StoreType
    PROVE  /\ Usage!Over(s) \in StoreType /\ Usage!Over(s).at = "idle"
           /\ Usage!Over(s).sequence = s.sequence /\ Usage!Over(s).active = s.active
<1>1. [s EXCEPT !.at = "idle", !.size = 0, !.total = 0, !.periodic = FALSE, !.pressed = FALSE] \in StoreType
  <2> DEFINE none == 0
             no == FALSE
  <2>1. none \in Nat /\ none \in Int /\ no \in BOOLEAN
    OBVIOUS
  <2> HIDE DEF none, no
  <2>2. [s EXCEPT !.at = "idle", !.size = none, !.total = none, !.periodic = no, !.pressed = no] \in StoreType
    BY <2>1 DEF StoreType
  <2> QED BY <2>2 DEF none, no
<1>2. LET t == [s EXCEPT !.at = "idle", !.size = 0, !.total = 0, !.periodic = FALSE, !.pressed = FALSE]
      IN t.at = "idle" /\ t.sequence = s.sequence /\ t.active = s.active
  BY DEF StoreType
<1> QED BY <1>1, <1>2 DEF Usage!Over

\* There is room.
LEMMA FitsIs ==
    ASSUME NEW s \in StoreType, NEW t,
           \/ t = [s EXCEPT !.at = "append", !.since = 0, !.pruned = TRUE]
           \/ t = [s EXCEPT !.at = "append"]
    PROVE  t \in StoreType /\ t.at = "append" /\ t.size = s.size /\ t.sequence = s.sequence /\ t.active = s.active
<1>1. [s EXCEPT !.at = "append", !.since = 0, !.pruned = TRUE] \in StoreType
  BY DEF StoreType
<1>2. [s EXCEPT !.at = "append"] \in StoreType
  BY DEF StoreType
<1>3. t \in StoreType
  BY <1>1, <1>2
<1>4. t.at = "append" /\ t.size = s.size /\ t.sequence = s.sequence /\ t.active = s.active
  BY DEF StoreType
<1> QED BY <1>3, <1>4

LEMMA CheckKeeps ==
    ASSUME InsightsInv, NEW p \in Processes, Usage!Check(p)
    PROVE  InsightsInv'
<1> DEFINE s == store[p]
           fs == ToSet(files)
<1>1. /\ s \in StoreType /\ InHand(fs, s, p) /\ store \in [Processes -> StoreType] /\ s.at = "check"
      /\ files \in Seq(InsightFile)
  <2>1. store[p] \in StoreType /\ InHand(fs, s, p) /\ files \in Seq(InsightFile) /\ store \in [Processes -> StoreType]
    BY StoreIs
  <2> QED BY <2>1 DEF Usage!Check
<1>2. /\ UNCHANGED files
      /\ LET fits == Weight(fs) + s.size <= MaxTotal
         IN \/ ~ fits /\ store' = [store EXCEPT ![p] = Usage!Over([s EXCEPT !.lost = ~ s.pressed])]
            \/ fits /\ store' = [store EXCEPT ![p] = [s EXCEPT !.at = "append", !.since = 0, !.pruned = TRUE]]
            \/ fits /\ store' = [store EXCEPT ![p] = [s EXCEPT !.at = "append"]]
  BY <1>1, TotalIsWeight DEF Usage!Check
<1>3. CASE ~ (Weight(fs) + s.size <= MaxTotal)
  <2>1. s.pressed = TRUE
    BY <1>1, <1>3 DEF InHand, StoreType
  <2> DEFINE r == [s EXCEPT !.lost = ~ s.pressed]
             t == Usage!Over(r)
  <2>2. r = s
    BY <1>1, <2>1 DEF StoreType
  <2>3. t = Usage!Over(s)
    BY <2>2
  <2>4. store' = [store EXCEPT ![p] = t]
    BY <1>2, <1>3
  <2> HIDE DEF t, r, s
  <2>5. t \in StoreType /\ t.at = "idle" /\ t.sequence = s.sequence /\ t.active = s.active
    BY <1>1, <2>3, OverIs
  <2>6. InHand(fs, t, p)
    BY <1>1, <2>5, InHandEasy
  <2>7. t.at # "append"
    BY <2>5
  <2> QED BY <1>2, <2>4, <2>5, <2>6, <2>7, StoreIs
<1>4. ASSUME Weight(fs) + s.size <= MaxTotal, NEW t,
             \/ t = [s EXCEPT !.at = "append", !.since = 0, !.pruned = TRUE]
             \/ t = [s EXCEPT !.at = "append"],
             store' = [store EXCEPT ![p] = t]
      PROVE  InsightsInv'
  <2>1. t \in StoreType /\ t.at = "append" /\ t.size = s.size /\ t.sequence = s.sequence /\ t.active = s.active
    <3> HIDE DEF s
    <3> QED BY <1>1, <1>4, FitsIs
  <2>2. InHand(fs, t, p)
    BY <1>1, <2>1, InHandEasy
  <2> QED BY <1>2, <1>4, <2>1, <2>2, FilesKept
<1> QED BY <1>2, <1>3, <1>4

LEMMA AppendFailsKeeps ==
    ASSUME InsightsInv, NEW p \in Processes, Usage!AppendFails(p)
    PROVE  InsightsInv'
<1> DEFINE s == store[p]
           t == Usage!Over(s)
<1>1. s \in StoreType /\ InHand(ToSet(files), s, p) /\ store \in [Processes -> StoreType]
  BY StoreIs
<1>2. store' = [store EXCEPT ![p] = t] /\ UNCHANGED files
  BY DEF Usage!AppendFails
<1>3. t \in StoreType /\ t.at = "idle" /\ t.sequence = s.sequence /\ t.active = s.active
  <2> HIDE DEF s
  <2> QED BY <1>1, OverIs
<1> HIDE DEF t
<1>4. t.at # "append"
  BY <1>3
<1>5. InHand(ToSet(files), t, p)
  BY <1>1, <1>3, InHandEasy
<1> QED BY <1>2, <1>3, <1>4, <1>5, StoreIs

\* The line goes to the file that the process writes to, which then was modified last.
LEMMA AppendFiles ==
    ASSUME InsightsInv, NEW p \in Processes, Usage!AppendLine(p)
    PROVE  LET s == store[p]
               fs == ToSet(files)
               rest == {f \in fs : ~ Mine(s, p, f)}
           IN /\ s.at = "append" /\ s.size \in Nat
              /\ \E size \in Nat :
                    /\ size <= s.active + s.size
                    /\ files' \in Seq(InsightFile) /\ Distinct(files')
                    /\ ToSet(files') = rest \cup {Usage!File(p, s.sequence, size)}
                    /\ Usage!File(p, s.sequence, size) \in InsightFile
                    /\ Weight(ToSet(files')) <= Weight(fs) + s.size
<1> DEFINE s == store[p]
           fs == ToSet(files)
           rest == {f \in fs : ~ Mine(s, p, f)}
           own == {f \in fs : Mine(s, p, f)}
           there == Usage!Where(files, {f \in Usage!Range(files) : Usage!Own(p, f)})
           before == IF there = <<>> THEN 0 ELSE Head(there).size
           size == before + s.size
           line == Usage!File(p, s.sequence, size)
<1>1. /\ s \in StoreType /\ InHand(fs, s, p) /\ files \in Seq(InsightFile) /\ Distinct(files)
  BY StoreIs DEF InsightsInv
<1>2. s.at = "append" /\ files' = Append(Usage!OthersOf(p), line)
  BY DEF Usage!AppendLine
<1>3. s.size \in Nat /\ s.sequence \in Nat /\ s.active \in Nat
  BY <1>1 DEF StoreType
<1>4. Listing(fs) /\ Keyed(fs)
  BY <1>1, DistinctKeyed
<1>5. there \in Seq(InsightFile) /\ ToSet(there) = own
  <2>1. there = Where(files, own)
    <3>1. {f \in Usage!Range(files) : Usage!Own(p, f)} = own
      BY UsageNames
    <3> QED BY <3>1, UsageNames
  <2> HIDE DEF there
  <2>2. own \subseteq fs
    OBVIOUS
  <2> HIDE DEF own
  <2>3. Where(files, own) \in Seq(InsightFile) /\ ToSet(Where(files, own)) = fs \cap own
    BY <1>1, DistinctWhere
  <2> QED BY <2>1, <2>2, <2>3
<1>6. Usage!OthersOf(p) \in Seq(InsightFile) /\ Distinct(Usage!OthersOf(p)) /\ ToSet(Usage!OthersOf(p)) = rest
  <2>1. Usage!OthersOf(p) = Where(files, rest)
    <3>1. {f \in Usage!Range(files) : ~ Usage!Own(p, f)} = rest
      BY UsageNames
    <3> QED BY <3>1, UsageNames DEF Usage!OthersOf
  <2>2. rest \subseteq fs
    OBVIOUS
  <2> HIDE DEF rest
  <2>3. Where(files, rest) \in Seq(InsightFile) /\ Distinct(Where(files, rest)) /\ ToSet(Where(files, rest)) = fs \cap rest
    BY <1>1, DistinctWhere
  <2> QED BY <2>1, <2>2, <2>3
<1> HIDE DEF there
<1>7. /\ before \in Nat /\ before <= s.active /\ Weight(own) = before
  <2>1. CASE own = {}
    <3>1. there = <<>>
      <4>1. there # <<>> => Head(there) \in ToSet(there)
        BY <1>5, ToSetOfTail
      <4> QED BY <1>5, <2>1, <4>1
    <3>2. Weight({}) = 0
      BY SumOfNone DEF Weight
    <3> HIDE DEF own, s
    <3> QED BY <1>3, <2>1, <3>1, <3>2
  <2>2. CASE own # {}
    <3>1. there # <<>>
      BY <1>5, <2>2, ToSetType
    <3>2. Head(there) \in own
      BY <1>5, <3>1, ToSetOfTail
    <3>3. own = {Head(there)}
      BY <1>4, <3>2 DEF Keyed, Mine, SameFile
    <3>4. Head(there) \in InsightFile /\ Head(there).size \in Nat
      BY <1>4, <3>2 DEF Listing, InsightFile
    <3>5. Head(there).size <= s.active
      BY <1>1, <3>2 DEF InHand, Mine
    <3>6. Weight({Head(there)}) = Head(there).size
      BY <3>4, WeightOfOne
    <3> HIDE DEF own
    <3> QED BY <3>1, <3>3, <3>4, <3>5, <3>6
  <2> QED BY <2>1, <2>2
<1> HIDE DEF before
<1>8. size \in Nat /\ size <= s.active + s.size
  BY <1>3, <1>7
<1>9. line \in InsightFile /\ line.owner = p /\ line.sequence = s.sequence /\ line.size = size
  BY <1>3, <1>8 DEF Usage!File, InsightFile
<1>10. \A f \in rest : ~ SameFile(f, line)
  BY <1>9 DEF SameFile, Mine
<1>11. own \in SUBSET fs /\ rest = fs \ own
  OBVIOUS
<1> HIDE DEF size, line, own, rest, fs
<1>12. files' \in Seq(InsightFile) /\ Distinct(files') /\ ToSet(files') = rest \cup {line}
  BY <1>2, <1>6, <1>9, <1>10, DistinctAppend
<1>13. Weight(ToSet(files')) = Weight(rest) + size
  <2>1. Listing(ToSet(files'))
    BY <1>12, DistinctKeyed
  <2>2. line \notin rest
    BY <1>10 DEF SameFile
  <2>3. {line} \in SUBSET ToSet(files') /\ ToSet(files') \ {line} = rest
    BY <1>12, <2>2
  <2>4. Weight(ToSet(files')) = Weight({line}) + Weight(rest) /\ Weight(rest) \in Nat
    BY <2>1, <2>3, WeightParts
  <2>5. Weight({line}) = size
    BY <1>9, WeightOfOne
  <2> QED BY <1>8, <2>4, <2>5
<1>14. Weight(fs) = Weight(own) + Weight(rest) /\ Weight(rest) \in Nat
  BY <1>4, <1>11, WeightParts
<1>15. Weight(ToSet(files')) <= Weight(fs) + s.size
  BY <1>3, <1>7, <1>13, <1>14 DEF size
<1> QED BY <1>2, <1>3, <1>8, <1>9, <1>12, <1>15 DEF line, rest, fs

\* What another process has in hand says that others have appended.
LEMMA OthersPressed ==
    ASSUME NEW s \in StoreType, NEW r, NEW fs, NEW before, NEW p \in Processes,
           InHand(before, s, p), r = [s EXCEPT !.pressed = s.pressed \/ s.at \in {"evict", "check"}],
           \A f \in fs : f.owner = p => f \in before
    PROVE  r \in StoreType /\ InHand(fs, r, p) /\ Due(r) = Due(s)
<1> DEFINE yes == s.pressed \/ s.at \in {"evict", "check"}
<1>1. yes \in BOOLEAN
  OBVIOUS
<1>2. s.at \in {"evict", "check"} => yes
  OBVIOUS
<1>3. r = [s EXCEPT !.pressed = yes]
  OBVIOUS
<1> HIDE DEF yes
<1>4. [s EXCEPT !.pressed = yes] \in StoreType
  BY <1>1 DEF StoreType
<1>5. /\ r.at = s.at /\ r.size = s.size /\ r.sequence = s.sequence /\ r.active = s.active /\ r.listed = s.listed
      /\ r.pressed = yes
  BY <1>3 DEF StoreType
<1>6. InHand(fs, r, p)
  BY <1>2, <1>5 DEF InHand
<1> QED BY <1>3, <1>4, <1>5, <1>6 DEF Due

LEMMA AppendLineKeeps ==
    ASSUME InsightsInv, NEW p \in Processes, Usage!AppendLine(p)
    PROVE  InsightsInv'
<1> DEFINE s == store[p]
           fs == ToSet(files)
           gs == ToSet(files')
           r == [s EXCEPT !.active = s.active + s.size, !.since = s.since + s.size]
           t == Usage!Over(r)
           B == (Cardinality(Processes) - 1) * Usage!Largest
<1>1. /\ store \in [Processes -> StoreType] /\ s \in StoreType /\ files \in Seq(InsightFile)
      /\ \A q \in Processes : InHand(fs, store[q], q)
      /\ Weight(fs) + DueOf(store) <= MaxTotal + B
  BY DEF InsightsInv
<1>2. PICK size \in Nat :
         /\ size <= s.active + s.size
         /\ files' \in Seq(InsightFile) /\ Distinct(files')
         /\ gs = {f \in fs : ~ Mine(s, p, f)} \cup {Usage!File(p, s.sequence, size)}
         /\ Usage!File(p, s.sequence, size) \in InsightFile
         /\ Weight(gs) <= Weight(fs) + s.size
  BY AppendFiles
<1>3. s.at = "append" /\ s.size \in Nat
  BY AppendFiles
<1> DEFINE line == Usage!File(p, s.sequence, size)
<1>4. line.owner = p /\ line.sequence = s.sequence /\ line.size = size
  BY DEF Usage!File
<1>5. store' = [q \in Processes |->
                   IF q = p THEN t
                   ELSE [store[q] EXCEPT !.pressed = store[q].pressed \/ store[q].at \in {"evict", "check"}]]
  BY DEF Usage!AppendLine
<1>6. /\ t \in StoreType /\ t.at = "idle" /\ t.sequence = s.sequence /\ t.active = s.active + s.size
      /\ s.active \in Nat
  <2>1. s.active + s.size \in Nat /\ s.since + s.size \in Nat /\ s.active \in Nat
    BY <1>1, <1>3 DEF StoreType
  <2> DEFINE active == s.active + s.size
             since == s.since + s.size
  <2>2. active \in Nat /\ since \in Nat
    BY <2>1
  <2> HIDE DEF active, since
  <2>3. [s EXCEPT !.active = active, !.since = since] \in StoreType
    BY <1>1, <2>2 DEF StoreType
  <2>4. LET u == [s EXCEPT !.active = active, !.since = since] IN u.sequence = s.sequence /\ u.active = active
    BY <1>1 DEF StoreType
  <2>5. r \in StoreType /\ r.sequence = s.sequence /\ r.active = active
    BY <2>3, <2>4 DEF active, since
  <2> HIDE DEF r
  <2>6. t \in StoreType /\ t.at = "idle" /\ t.sequence = s.sequence /\ t.active = active
    BY <2>5, OverIs
  <2> QED BY <2>1, <2>6 DEF active
<1> HIDE DEF t, line
<1>7. InHand(gs, t, p)
  <2>1. ASSUME NEW f \in gs, f.owner = p
        PROVE  f.sequence <= t.sequence /\ (f.sequence = t.sequence => f.size <= t.active)
    <3>1. CASE f = line
      <4> HIDE DEF line, s, fs, gs, B
      <4> QED BY <1>2, <1>4, <1>6, <3>1, <1>1 DEF StoreType
    <3>2. CASE f \in fs /\ ~ Mine(s, p, f)
      <4>1. f.sequence <= s.sequence
        BY <1>1, <2>1, <3>2 DEF InHand
      <4>2. f.sequence # s.sequence
        BY <2>1, <3>2 DEF Mine
      <4> QED BY <1>6, <4>1, <4>2
    <3> QED BY <1>2, <3>1, <3>2 DEF line
  <2> QED BY <1>6, <2>1 DEF InHand
<1>8. ASSUME NEW q \in Processes \ {p}
      PROVE  store'[q] \in StoreType /\ InHand(gs, store'[q], q) /\ Due(store'[q]) = Due(store[q])
  <2>1. store'[q] = [store[q] EXCEPT !.pressed = store[q].pressed \/ store[q].at \in {"evict", "check"}]
    BY <1>5
  <2>2. \A f \in gs : f.owner = q => f \in fs
    BY <1>2, <1>4 DEF line
  <2>3. store[q] \in StoreType /\ InHand(fs, store[q], q)
    BY <1>1
  <2> HIDE DEF gs, fs
  <2> QED BY <2>1, <2>2, <2>3, OthersPressed
<1>9. store' \in [Processes -> StoreType] /\ store'[p] = t
  <2>1. \A q \in Processes : store'[q] \in StoreType
    BY <1>5, <1>6, <1>8
  <2>2. store' = [q \in Processes |-> store'[q]]
    BY <1>5
  <2> QED BY <1>5, <2>1, <2>2
<1>10. \A q \in Processes : InHand(gs, store'[q], q)
  BY <1>7, <1>8, <1>9
<1>11. DueOf(store) = s.size + DueBeside(store, p) /\ DueBeside(store, p) \in Nat
  <2>1. \A q \in Processes : store[q].at = "append" => store[q].size \in Sizes
    BY <1>1 DEF InHand
  <2>2. DueOf(store) = Due(store[p]) + DueBeside(store, p) /\ DueBeside(store, p) \in Nat
    BY <1>1, <2>1, DueParts
  <2> QED BY <1>3, <2>2 DEF Due
<1>12. DueOf(store') = DueBeside(store, p)
  <2>1. \A q \in Processes : store'[q].at = "append" => store'[q].size \in Sizes
    BY <1>10 DEF InHand
  <2>2. DueOf(store') = Due(store'[p]) + DueBeside(store', p) /\ DueBeside(store', p) \in Nat
    BY <1>9, <2>1, DueParts
  <2>3. Due(store'[p]) = 0
    BY <1>6, <1>9 DEF Due
  <2>4. DueBeside(store', p) = DueBeside(store, p)
    BY <1>1, <1>8, <1>9, DueSame
  <2> QED BY <1>11, <2>2, <2>3, <2>4
<1>13. Weight(fs) \in Nat /\ Weight(gs) \in Nat
  <2>1. Listing(fs) /\ Listing(gs)
    BY <1>1, <1>2, DistinctKeyed DEF InsightsInv
  <2> QED BY <2>1, WeightParts
<1>14. B \in Int /\ MaxTotal \in Nat
  BY UsageParts, FS_CardinalityType
<1> HIDE DEF B
<1>15. Weight(gs) + DueOf(store') <= MaxTotal + B
  BY <1>1, <1>2, <1>3, <1>11, <1>12, <1>13, <1>14
<1> QED BY <1>2, <1>9, <1>10, <1>15 DEF InsightsInv, B

\* Files that get old are the files they were.
LEMMA AgesKeeps ==
    ASSUME InsightsInv, NEW n \in DOMAIN files, Usage!Ages(n)
    PROVE  InsightsInv'
<1> DEFINE old(f) == [f EXCEPT !.expired = TRUE]
<1>1. /\ files \in Seq(InsightFile) /\ Distinct(files) /\ store \in [Processes -> StoreType]
      /\ \A p \in Processes : InHand(ToSet(files), store[p], p)
      /\ Weight(ToSet(files)) + DueOf(store) <= MaxTotal + (Cardinality(Processes) - 1) * Usage!Largest
  BY DEF InsightsInv
<1>2. Len(files) \in Nat /\ DOMAIN files = 1..Len(files) /\ n \in 1..Len(files)
      /\ \A m \in 1..Len(files) : files[m] \in InsightFile
  BY <1>1
<1>3. \A f \in InsightFile : old(f) \in InsightFile /\ SameFile(old(f), f) /\ old(f).size = f.size
  BY DEF InsightFile, SameFile
<1>4. \A f \in InsightFile : SameFile(f, f) /\ f.size = f.size
  BY DEF SameFile
<1>5. files' = [m \in 1..Len(files) |-> IF m <= n THEN old(files[m]) ELSE files[m]] /\ UNCHANGED store
  BY <1>2 DEF Usage!Ages
<1> HIDE DEF old
<1>6. \A m \in 1..Len(files) : files'[m] \in InsightFile /\ SameFile(files'[m], files[m]) /\ files'[m].size = files[m].size
  BY <1>2, <1>3, <1>4, <1>5
<1>7. files' \in Seq(InsightFile) /\ Len(files') = Len(files) /\ DOMAIN files' = 1..Len(files)
  <2>1. files' = [m \in 1..Len(files) |-> files'[m]]
    BY <1>5
  <2> QED BY <1>2, <1>6, <2>1
<1>8. Distinct(files')
  <2> SUFFICES ASSUME NEW k \in 1..Len(files), NEW j \in 1..(k - 1)
               PROVE  ~ SameFile(files'[j], files'[k])
    BY <1>7 DEF Distinct
  <2>1. j \in 1..Len(files)
    BY <1>2
  <2>2. ~ SameFile(files[j], files[k])
    BY <1>1 DEF Distinct
  <2>3. SameFile(files'[j], files[j]) /\ SameFile(files'[k], files[k])
    BY <1>6, <2>1
  <2> QED BY <2>2, <2>3 DEF SameFile
<1>9. Remains(ToSet(files'), ToSet(files))
  <2> SUFFICES ASSUME NEW f \in ToSet(files')
               PROVE  \E g \in ToSet(files) : SameFile(f, g) /\ f.size = g.size
    BY DEF Remains
  <2>1. PICK m \in 1..Len(files) : f = files'[m]
    BY <1>7 DEF ToSet
  <2>2. files[m] \in ToSet(files)
    BY <1>2 DEF ToSet
  <2> QED BY <1>6, <2>1, <2>2
<1>10. Listing(ToSet(files)) /\ Listing(ToSet(files')) /\ Keyed(ToSet(files'))
  BY <1>1, <1>7, <1>8, DistinctKeyed
<1>11. \A p \in Processes : InHand(ToSet(files'), store[p], p)
  <2> TAKE p \in Processes
  <2>1. store[p] \in StoreType /\ InHand(ToSet(files), store[p], p)
    BY <1>1
  <2> QED BY <1>9, <1>10, <2>1, InHandRemains
<1>12. Weight(ToSet(files')) <= Weight(ToSet(files)) /\ Weight(ToSet(files')) \in Nat /\ Weight(ToSet(files)) \in Nat
  BY <1>9, <1>10, WeightRemains, WeightParts
<1> DEFINE due == DueOf(store)
           limit == MaxTotal + (Cardinality(Processes) - 1) * Usage!Largest
<1>13. due \in Nat /\ limit \in Int
  <2>1. PICK p \in Processes : TRUE
    BY UsageParts
  <2>2. \A q \in Processes : store[q].at = "append" => store[q].size \in Sizes
    BY <1>1 DEF InHand
  <2>3. /\ DueOf(store) = Due(store[p]) + DueBeside(store, p) /\ Due(store[p]) \in Nat
        /\ DueBeside(store, p) \in Nat /\ Cardinality(Processes) \in Nat
    BY <1>1, <2>2, DueParts
  <2> QED BY <2>3, UsageParts
<1>14. Weight(ToSet(files)) + due <= limit
  BY <1>1
<1>15. DueOf(store') = due
  BY <1>5
<1> HIDE DEF due, limit
<1>16. Weight(ToSet(files')) + DueOf(store') <= limit
  BY <1>12, <1>13, <1>14, <1>15
<1> QED BY <1>1, <1>5, <1>7, <1>8, <1>11, <1>16 DEF InsightsInv, limit

LEMMA InsightsStep ==
    ASSUME InsightsInv, [Usage!Next]_(Usage!vars)
    PROVE  InsightsInv'
<1>1. CASE Usage!Next
  <2>1. ASSUME NEW p \in Processes, NEW size \in Sizes, NEW overdue \in BOOLEAN, Usage!Begin(p, size, overdue)
        PROVE  InsightsInv'
    BY <2>1, BeginKeeps
  <2>2. ASSUME NEW p \in Processes,
               \/ Usage!ListExpired(p) \/ Usage!RemoveExpired(p) \/ Usage!List(p) \/ Usage!Evict(p)
               \/ Usage!Check(p) \/ Usage!AppendLine(p) \/ Usage!AppendFails(p)
        PROVE  InsightsInv'
    BY <2>2, ListExpiredKeeps, RemoveExpiredKeeps, ListKeeps, EvictKeeps, CheckKeeps, AppendLineKeeps, AppendFailsKeeps
  <2>3. ASSUME NEW n \in DOMAIN files, Usage!Ages(n) PROVE InsightsInv'
    BY <2>3, AgesKeeps
  <2> QED BY <1>1, <2>1, <2>2, <2>3 DEF Usage!Next
<1>2. CASE UNCHANGED Usage!vars
  BY <1>2 DEF Usage!vars, InsightsInv, InHand, Rooms, DueOf
<1> QED BY <1>1, <1>2

\* UsageInsightStore, pruneInsightFiles: whatever the processes, the lines and the limits,
\* the files exceed the limit by no more than one line of every other process, and a process
\* that no append of another came between, and no removal failed, drops no event for want of
\* room: the files it may remove are always enough.
THEOREM InsightsAreBounded == Usage!Spec => []InsightsFit
<1>1. InsightsInv => InsightsFit
  <2> SUFFICES ASSUME InsightsInv PROVE InsightsFit
    OBVIOUS
  <2>1. /\ files \in Seq(InsightFile) /\ Distinct(files) /\ store \in [Processes -> StoreType]
        /\ \A p \in Processes : InHand(ToSet(files), store[p], p)
        /\ Weight(ToSet(files)) + DueOf(store) <= MaxTotal + (Cardinality(Processes) - 1) * Usage!Largest
    BY DEF InsightsInv
  <2>2. \A p \in Processes : ~ store[p].lost
    BY <2>1 DEF StoreType
  <2> DEFINE limit == MaxTotal + (Cardinality(Processes) - 1) * Usage!Largest
  <2>3. DueOf(store) \in Nat /\ limit \in Int
    <3>1. PICK p \in Processes : TRUE
      BY UsageParts
    <3>2. \A q \in Processes : store[q].at = "append" => store[q].size \in Sizes
      BY <2>1 DEF InHand
    <3>3. /\ DueOf(store) = Due(store[p]) + DueBeside(store, p) /\ Due(store[p]) \in Nat
          /\ DueBeside(store, p) \in Nat /\ Cardinality(Processes) \in Nat
      BY <2>1, <3>2, DueParts
    <3> QED BY <3>3, UsageParts
  <2>4. Weight(ToSet(files)) \in Nat
    BY <2>1, DistinctKeyed, WeightParts
  <2>5. Weight(ToSet(files)) + DueOf(store) <= limit
    BY <2>1
  <2> HIDE DEF limit
  <2>6. Weight(ToSet(files)) <= limit
    BY <2>3, <2>4, <2>5
  <2>7. Usage!TotalOf(files) <= MaxTotal + (Usage!Cardinality(Processes) - 1) * Usage!Largest
    BY <2>6, TotalIsWeight DEF limit, Usage!Cardinality, Cardinality
  <2> QED BY <2>2, <2>7 DEF InsightsFit, Usage!InsightsFit
<1> QED BY <1>1, InsightsInit, InsightsStep, PTL DEF Usage!Spec

(*****************************************************************************)
(* The pure algorithms: the selection of tests, and the tables of tools      *)
(*****************************************************************************)

Domains == {"protocol", "mcp-runtime", "lifecycle", "direct-ide", "task-terminal", "debug",
            "extension-ecosystem", "ui-insights", "release-tooling"}

\* What the loop of classifyTestImpact may add for a path
Impacts == [domains : SUBSET Domains, workspaces : SUBSET Workspaces, scenarios : SUBSET Scenarios,
            layers : SUBSET Workspaces, risk : {RiskDocs, RiskAffected, RiskFull},
            fullE2E : BOOLEAN, repeatE2E : BOOLEAN, artifact : BOOLEAN]

\* DOMAIN_WORKSPACES, DOMAIN_E2E_SCENARIOS: what a domain stands for exists.
LEMMA DomainTables ==
    ASSUME NEW d \in Domains
    PROVE  WorkspacesOf(d) \subseteq Workspaces /\ ScenariosOf(d) \subseteq Scenarios
<1>1. WorkspacesOf(d) \subseteq Workspaces
  BY DEF WorkspacesOf, Domains, Workspaces
<1>2. ScenariosOf(d) \subseteq Scenarios
  BY SMTT(30) DEF ScenariosOf, Domains, Scenarios
<1> QED BY <1>1, <1>2

\* markAffected, addDomain
LEMMA AffectedType ==
    \A domains \in SUBSET Domains, scenarios \in SUBSET Scenarios :
        Affected(domains, scenarios) \in Impacts
<1> SUFFICES ASSUME NEW domains \in SUBSET Domains, NEW scenarios \in SUBSET Scenarios
             PROVE  Affected(domains, scenarios) \in Impacts
  OBVIOUS
<1>1. UNION {WorkspacesOf(d) : d \in domains} \subseteq Workspaces
  BY DomainTables
<1> QED BY <1>1 DEF Affected, Nothing, Impacts

\* markFull
LEMMA FullType == \A impact \in Impacts, e2e \in BOOLEAN : Full(impact, e2e) \in Impacts
  BY DEF Full, Impacts

\* classifyExtensionSource
LEMMA ExtensionSourceType == ASSUME NEW f PROVE ExtensionSource(f) \in Impacts
<1>1. {{}, {"core-language"}, {"direct-ide"}, {"task-terminal"}, {"debug"}, {"extension-ecosystem"},
       {"lifecycle", "master-switch"}, {"direct-ide", "task-terminal", "debug"},
       {"core-language", "direct-ide", "task-terminal", "debug"}} \subseteq SUBSET Scenarios
  BY DEF Scenarios
<1>2. {{}, {"lifecycle"}, {"direct-ide"}, {"task-terminal"}, {"debug"}, {"extension-ecosystem"},
       {"ui-insights"}, {"direct-ide", "task-terminal", "debug"}} \subseteq SUBSET Domains
  BY DEF Domains
<1>3. /\ Affected({"lifecycle"}, {}) \in Impacts
      /\ Affected({"lifecycle"}, {"lifecycle", "master-switch"}) \in Impacts
      /\ Affected({"direct-ide"}, {"direct-ide"}) \in Impacts
      /\ Affected({"direct-ide", "task-terminal", "debug"}, {"direct-ide", "task-terminal", "debug"})
            \in Impacts
      /\ Affected({"direct-ide", "task-terminal", "debug"},
                  {"core-language", "direct-ide", "task-terminal", "debug"}) \in Impacts
      /\ Affected({"lifecycle"}, {"core-language"}) \in Impacts
      /\ Affected({"task-terminal"}, {"task-terminal"}) \in Impacts
      /\ Affected({"debug"}, {"debug"}) \in Impacts
      /\ Affected({"extension-ecosystem"}, {"extension-ecosystem"}) \in Impacts
      /\ Affected({"ui-insights"}, {"core-language"}) \in Impacts
      /\ Affected({"ui-insights"}, {}) \in Impacts
      /\ Affected({}, {}) \in Impacts
  BY <1>1, <1>2, AffectedType
<1>4. [Affected({"extension-ecosystem"}, {"extension-ecosystem"}) EXCEPT !.artifact = TRUE] \in Impacts
  BY <1>3 DEF Impacts
<1> HIDE DEF Impacts
<1>5. /\ Full(Affected({"lifecycle"}, {}), TRUE) \in Impacts
      /\ Full(Affected({"lifecycle"}, {"lifecycle", "master-switch"}), FALSE) \in Impacts
      /\ Full(Affected({"direct-ide"}, {"direct-ide"}), FALSE) \in Impacts
      /\ Full(Affected({"direct-ide", "task-terminal", "debug"},
                       {"core-language", "direct-ide", "task-terminal", "debug"}), TRUE) \in Impacts
      /\ Full(Affected({"lifecycle"}, {"core-language"}), TRUE) \in Impacts
      /\ Full(Affected({"task-terminal"}, {"task-terminal"}), FALSE) \in Impacts
      /\ Full(Affected({"debug"}, {"debug"}), FALSE) \in Impacts
      /\ Full(Affected({}, {}), TRUE) \in Impacts
  BY <1>3, FullType
<1> QED BY <1>3, <1>4, <1>5 DEF ExtensionSource

\* classifyTestImpact, of a source of the server
LEMMA McpServerSourceType == ASSUME NEW f PROVE McpServerSource(f) \in Impacts
<1> DEFINE insights == f = "usage-insights.ts"
           base == Affected({IF insights THEN "ui-insights" ELSE "mcp-runtime"},
                            IF insights THEN {} ELSE {"core-language"})
           boundary == f \in ServiceBoundary
           all == IF boundary THEN [base EXCEPT !.domains = @ \cup {"lifecycle"}, !.artifact = TRUE,
                                                !.workspaces = @ \cup WorkspacesOf("lifecycle")]
                  ELSE base
<1>1. base \in Impacts
  <2>1. {IF insights THEN "ui-insights" ELSE "mcp-runtime"} \in SUBSET Domains
    BY DEF Domains
  <2>2. (IF insights THEN {} ELSE {"core-language"}) \in SUBSET Scenarios
    BY DEF Scenarios
  <2> QED BY <2>1, <2>2, AffectedType
<1>2. "lifecycle" \in Domains /\ WorkspacesOf("lifecycle") \subseteq Workspaces
  BY DomainTables DEF Domains
<1>3. all \in Impacts
  BY ZenonT(40), <1>1, <1>2 DEF Impacts
<1>4. McpServerSource(f) = IF boundary \/ f = "index.ts" THEN Full(all, TRUE) ELSE all
  BY DEF McpServerSource
<1> QED BY <1>3, <1>4, FullType

\* inferTestDomain
LEMMA TestDomainsType == ASSUME NEW path PROVE TestDomains(path) \in SUBSET Domains
  BY DEF TestDomains, Domains

\* What a path adds is of the tables, and belongs to one layer at most.
LEMMA ImpactType == ASSUME NEW path PROVE Impact(path) \in Impacts
<1> DEFINE f == File(path)
           inLayer(impact, w) == [impact EXCEPT !.layers = {w}, !.workspaces = @ \cup {w}]
           tooling == Affected({"release-tooling"}, {})
<1>1. \A impact \in Impacts, w \in Workspaces : inLayer(impact, w) \in Impacts
  BY DEF Impacts
<1>2. /\ tooling \in Impacts /\ Affected({}, {}) \in Impacts /\ Affected({"lifecycle"}, {}) \in Impacts
      /\ Affected({"protocol"}, {}) \in Impacts /\ Affected(TestDomains(path), {}) \in Impacts
  <2>1. {{}, {"release-tooling"}, {"lifecycle"}, {"protocol"}} \subseteq SUBSET Domains
    BY DEF Domains
  <2> QED BY <2>1, TestDomainsType, AffectedType
<1>3. \A artifact \in BOOLEAN : /\ [tooling EXCEPT !.artifact = artifact] \in Impacts
                                /\ [Full(tooling, FALSE) EXCEPT !.artifact = artifact] \in Impacts
  <2>1. Full(tooling, FALSE) \in Impacts
    BY <1>2, FullType
  <2> QED BY <1>2, <2>1 DEF Impacts
<1>4. Nothing \in Impacts
  BY DEF Nothing, Impacts
<1>5. E2EInfrastructure(path) \in Impacts
  <2>1. [Affected({"lifecycle"}, {}) EXCEPT !.repeatE2E = TRUE] \in Impacts
    BY <1>2 DEF Impacts
  <2>2. Full([Affected({"lifecycle"}, {}) EXCEPT !.repeatE2E = TRUE], TRUE) \in Impacts
    BY <2>1, FullType
  <2>3. \A artifact \in BOOLEAN :
          [Full([Affected({"lifecycle"}, {}) EXCEPT !.repeatE2E = TRUE], TRUE)
               EXCEPT !.artifact = artifact] \in Impacts
    BY <2>2 DEF Impacts
  <2> QED BY <2>3 DEF E2EInfrastructure
<1>6. Test(path) \in Impacts
  BY ZenonT(40), <1>2 DEF Test, Impacts
<1>7. /\ inLayer(Full(Affected({"protocol"}, {}), TRUE), "protocol") \in Impacts
      /\ inLayer(McpServerSource(f), "mcp-server") \in Impacts
      /\ inLayer(ExtensionSource(f), "vscode-extension") \in Impacts
  <2>1. {"protocol", "mcp-server", "vscode-extension"} \subseteq Workspaces
    BY DEF Workspaces
  <2> HIDE DEF inLayer
  <2> QED BY <1>1, <1>2, <2>1, FullType, McpServerSourceType, ExtensionSourceType
<1>8. Full(Affected({}, {}), TRUE) \in Impacts /\ Full(tooling, FALSE) \in Impacts
  BY <1>2, FullType
<1>9. IsPackagingManifestPath(path) \in BOOLEAN /\ IsArtifactScript(path) \in BOOLEAN
  BY DEF IsPackagingManifestPath, IsArtifactScript
<1> QED
  BY <1>2, <1>3, <1>4, <1>5, <1>6, <1>7, <1>8, <1>9 DEF Impact

Changes == [paths : SUBSET Paths, additional : SUBSET Domains, force : BOOLEAN]

\* The plan of a change has what the plan of a part of it has, and runs all that there is
\* when it is a full one.
LEMMA PlanGrows ==
    ASSUME NEW change, NEW less, IsFiniteSet(change.paths), less.paths \subseteq change.paths,
           less.additional = change.additional, less.force = change.force,
           change.additional \in SUBSET Domains, change.force \in BOOLEAN
    PROVE  /\ Plan(change).risk \in {0, RiskDocs, RiskAffected, RiskFull}
           /\ Plan(less).risk \in {0, RiskDocs, RiskAffected, RiskFull}
           /\ Plan(change).risk >= Plan(less).risk
           /\ Plan(less).workspaces \subseteq Plan(change).workspaces
           /\ Plan(less).testFiles \subseteq Plan(change).testFiles
           /\ Plan(less).scenarios \subseteq Plan(change).scenarios
           /\ Plan(less).fullE2E => Plan(change).fullE2E
           /\ Plan(less).repeatE2E => Plan(change).repeatE2E
           /\ Plan(less).artifact => Plan(change).artifact
           /\ Plan(less).workspaces \subseteq Workspaces /\ Plan(less).scenarios \subseteq Scenarios
<1> DEFINE Of(x) == {Impact(q) : q \in x.paths}
           Layers(x) == UNION {i.layers : i \in Of(x)}
           Spans(x) == Cardinality(Layers(x)) > 1
           IsFull(x) == Spans(x) \/ x.force \/ \E i \in Of(x) : i.risk = RiskFull
           IsAffected(x) == x.additional # {} \/ \E i \in Of(x) : i.risk = RiskAffected
<1>1. Of(less) \subseteq Of(change) /\ Of(change) \subseteq Impacts
  BY ImpactType
<1>2. Spans(less) => Spans(change)
  <2>1. Layers(less) \subseteq Layers(change) /\ Layers(change) \subseteq Workspaces
    BY <1>1 DEF Impacts
  <2>2. IsFiniteSet(Workspaces)
    <3>1. Workspaces = (({} \cup {"protocol"}) \cup {"mcp-server"}) \cup {"vscode-extension"}
      BY DEF Workspaces
    <3> QED BY <3>1, FS_EmptySet, FS_AddElement
  <2>3. IsFiniteSet(Layers(change))
    BY <2>1, <2>2, FS_Subset
  <2>4. /\ IsFiniteSet(Layers(less)) /\ Cardinality(Layers(less)) <= Cardinality(Layers(change))
        /\ Cardinality(Layers(less)) \in Nat /\ Cardinality(Layers(change)) \in Nat
    BY <2>1, <2>3, FS_Subset, FS_CardinalityType
  <2> HIDE DEF Layers
  <2> QED BY <2>4
<1>3. (IsFull(less) => IsFull(change)) /\ (IsAffected(less) => IsAffected(change))
  BY <1>1, <1>2
<1>4. \A x \in {change, less} :
        Plan(x).risk = IF IsFull(x) THEN RiskFull ELSE IF IsAffected(x) THEN RiskAffected
                       ELSE IF x.paths = {} THEN 0 ELSE RiskDocs
  BY DEF Plan
<1>5. /\ Plan(change).risk \in {0, RiskDocs, RiskAffected, RiskFull}
      /\ Plan(less).risk \in {0, RiskDocs, RiskAffected, RiskFull}
      /\ Plan(change).risk >= Plan(less).risk
  <2>1. less.paths # {} => change.paths # {}
    OBVIOUS
  <2> HIDE DEF IsFull, IsAffected
  <2> QED BY <1>3, <1>4, <2>1 DEF RiskDocs, RiskAffected, RiskFull
<1>6. /\ Plan(less).workspaces \subseteq Plan(change).workspaces
      /\ Plan(less).scenarios \subseteq Plan(change).scenarios
      /\ Plan(less).workspaces \subseteq Workspaces /\ Plan(less).scenarios \subseteq Scenarios
  <2>1. \A x \in {change, less} :
          /\ Plan(x).workspaces = (UNION {i.workspaces : i \in Of(x)})
                                    \cup UNION {WorkspacesOf(d) : d \in x.additional}
          /\ Plan(x).scenarios = (UNION {i.scenarios : i \in Of(x)})
                                    \cup UNION {ScenariosOf(d) : d \in x.additional}
    BY DEF Plan
  <2>2. \A d \in less.additional : WorkspacesOf(d) \subseteq Workspaces /\ ScenariosOf(d) \subseteq Scenarios
    BY DomainTables
  <2>3. \A i \in Of(less) : i.workspaces \subseteq Workspaces /\ i.scenarios \subseteq Scenarios
    BY <1>1 DEF Impacts
  <2> HIDE DEF Of
  <2> QED BY <1>1, <2>1, <2>2, <2>3
<1>7. Plan(less).testFiles \subseteq Plan(change).testFiles
  <2>1. \A x \in {change, less} :
          Plan(x).testFiles = UNION {TestFilesOf(d) : d \in (UNION {i.domains : i \in Of(x)}) \cup x.additional}
    BY DEF Plan
  <2> HIDE DEF Of
  <2> QED BY <1>1, <2>1
<1>8. /\ Plan(less).fullE2E => Plan(change).fullE2E
      /\ Plan(less).repeatE2E => Plan(change).repeatE2E
      /\ Plan(less).artifact => Plan(change).artifact
  <2>1. \A x \in {change, less} :
          /\ Plan(x).fullE2E <=> \/ Spans(x) \/ x.force \/ "protocol" \in x.additional
                                 \/ \E i \in Of(x) : i.fullE2E
          /\ Plan(x).repeatE2E <=> \E i \in Of(x) : i.repeatE2E
          /\ Plan(x).artifact <=> \E i \in Of(x) : i.artifact
    BY DEF Plan
  <2> HIDE DEF Of, Spans
  <2> QED BY <1>1, <1>2, <2>1
<1> HIDE DEF Of, Layers, Spans, IsFull, IsAffected
<1> QED BY <1>5, <1>6, <1>7, <1>8

LEMMA Growing ==
    ASSUME NEW change \in Changes, IsFiniteSet(change.paths)
    PROVE  MoreIsNotLess(change)
<1> SUFFICES ASSUME NEW p \in change.paths
             PROVE  LET all == Plan(change)
                        less == Plan([change EXCEPT !.paths = @ \ {p}])
                    IN /\ all.risk >= less.risk
                       /\ BuiltWorkspaces(less) \subseteq BuiltWorkspaces(all)
                       /\ \A t \in TestFiles : RunsTest(less, t) => RunsTest(all, t)
                       /\ RunScenarios(less) \subseteq RunScenarios(all)
                       /\ (less.repeatE2E => all.repeatE2E) /\ (less.artifact => all.artifact)
  BY DEF MoreIsNotLess
<1> DEFINE part_ == [change EXCEPT !.paths = @ \ {p}]
           all == Plan(change)
           less == Plan(part_)
<1>1. /\ part_.paths \subseteq change.paths /\ part_.additional = change.additional
      /\ part_.force = change.force /\ change.additional \in SUBSET Domains /\ change.force \in BOOLEAN
  BY DEF Changes
<1> HIDE DEF part_
<1>2. /\ all.risk \in {0, RiskDocs, RiskAffected, RiskFull} /\ less.risk \in {0, RiskDocs, RiskAffected, RiskFull}
      /\ all.risk >= less.risk
      /\ less.workspaces \subseteq all.workspaces /\ less.testFiles \subseteq all.testFiles
      /\ less.scenarios \subseteq all.scenarios
      /\ less.fullE2E => all.fullE2E
      /\ less.repeatE2E => all.repeatE2E
      /\ less.artifact => all.artifact
      /\ less.workspaces \subseteq Workspaces /\ less.scenarios \subseteq Scenarios
  BY <1>1, PlanGrows
<1> HIDE DEF all, less
<1>3. BuiltWorkspaces(less) \subseteq BuiltWorkspaces(all)
  BY <1>2 DEF BuiltWorkspaces, RiskDocs, RiskAffected, RiskFull
<1>4. \A t \in TestFiles : RunsTest(less, t) => RunsTest(all, t)
  BY <1>2 DEF RunsTest, RiskDocs, RiskAffected, RiskFull
<1>5. RunScenarios(less) \subseteq RunScenarios(all)
  BY <1>2 DEF RunScenarios
<1> QED BY <1>2, <1>3, <1>4, <1>5 DEF all, less, part_

\* Every registered tool: a matter of the tables.
LEMMA Guarded == ASSUME NEW t \in Registered PROVE ChangeIsGuarded(t)
<1>1. t \notin LocalTools \cup ReadTools \cup PreparingTools \cup TerminalTools => t \in Interactive
  BY DEF Registered, Interactive
<1> DEFINE Effects == UNION {Changing[scope] : scope \in DOMAIN Changing}
<1>2. Effects = Changing.workspace \cup Changing.process \cup Changing.debuggee
  BY DEF Changing
<1>3. \A u \in Effects : u # "get_extension_integration_state" => u \in Tracked \cup RecordedByManager
  BY <1>2 DEF Changing, Tracked, RecordedByManager
<1>4. \A u \in Effects : u \in Interactive
  BY <1>2 DEF Changing, Interactive, EditingTools, ConfigurationTools, TaskTools, DebugTools, ExtensionTools
<1> QED BY <1>3, <1>4 DEF ChangeIsGuarded, Checked

(*****************************************************************************)
(* The frames of a connection.  A text is joined of chunks: by induction over *)
(* the chunks, the decoder holds what it would hold had they come at once.   *)
(*****************************************************************************)

Lines == Seq(FrameBytes)
\* The texts that LinesOf makes of a text: one at least
Splits == Seq(Lines) \ {<<>>}

LineSteps(text) ==
    CHOOSE f : f = [n \in 0..Len(text) |-> IF n = 0 THEN <<<<>>>> ELSE Longer(f[n - 1], text[n])]

LEMMA LongerType ==
    ASSUME NEW lines \in Splits, NEW b \in FrameBytes
    PROVE  Longer(lines, b) \in Splits
<1>1. lines \in Seq(Lines) /\ Len(lines) \in Nat \ {0} /\ lines[Len(lines)] \in Lines
  BY DEF Splits
<1>2. CASE b = "lf"
  <2>1. <<>> \in Lines
    BY DEF Lines
  <2> QED BY <1>1, <1>2, <2>1, AppendProperties DEF Longer, Splits
<1>3. CASE b # "lf"
  <2>1. Append(lines[Len(lines)], b) \in Lines
    BY <1>1 DEF Lines
  <2>2. Longer(lines, b) = [lines EXCEPT ![Len(lines)] = Append(lines[Len(lines)], b)]
    BY <1>3 DEF Longer
  <2>3. Len(lines) \in 1..Len(lines)
    BY <1>1
  <2>4. Longer(lines, b) \in Seq(Lines) /\ Len(Longer(lines, b)) = Len(lines)
    BY <1>1, <2>1, <2>2, <2>3, ExceptSeq
  <2> QED BY <1>1, <2>4, EmptySeq DEF Splits
<1> QED BY <1>2, <1>3

\* LinesOf takes the text byte by byte.
LEMMA LinesStep ==
    ASSUME NEW text \in Lines
    PROVE  \E f \in [0..Len(text) -> Splits] :
              /\ f[0] = <<<<>>>> /\ \A n \in 1..Len(text) : f[n] = Longer(f[n - 1], text[n])
              /\ LinesOf(text) = f[Len(text)]
<1> DEFINE N == Len(text)
           step == [x \in Splits \X (1..N) |-> Longer(x[1], text[x[2]])]
           g == LineSteps(text)
<1>1. N \in Nat /\ \A n \in 1..N : text[n] \in FrameBytes
  BY DEF Lines
<1>2. <<<<>>>> \in Splits
  <2>1. <<>> \in Lines
    BY DEF Lines
  <2>2. Append(<<>>, <<>>) \in Seq(Lines) /\ <<<<>>>> = Append(<<>>, <<>>) /\ <<<<>>>> # <<>>
    BY <2>1
  <2> QED BY <2>2 DEF Splits
<1>3. step \in [Splits \X (1..N) -> Splits]
  BY <1>1, LongerType
<1>4. \A s \in Splits, n \in 1..N : step[s, n] = Longer(s, text[n])
  OBVIOUS
<1> DEFINE base == <<<<>>>>
<1>b. base \in Splits
  BY <1>2
<1> HIDE DEF N, step, base
<1>5a. PICK f : Iterates(f, N, base, step, Splits)
  BY <1>1, <1>b, <1>3, IterationExists
<1>5. f \in [0..N -> Splits] /\ f[0] = <<<<>>>> /\ \A n \in 1..N : f[n] = step[f[n - 1], n]
  BY <1>5a DEF base, Iterates
<1>6. \A n \in 1..N : n \in 0..N /\ n - 1 \in 0..N /\ n # 0 /\ 0 \in 0..N
  BY <1>1
<1>7. \A n \in 1..N : f[n] = Longer(f[n - 1], text[n])
  BY <1>4, <1>5, <1>6
<1>8. f = [n \in 0..N |-> IF n = 0 THEN <<<<>>>> ELSE Longer(f[n - 1], text[n])]
  <2>1. \A n \in 0..N : n # 0 => n \in 1..N
    BY <1>1
  <2>2. \A n \in 0..N : f[n] = IF n = 0 THEN <<<<>>>> ELSE Longer(f[n - 1], text[n])
    BY <1>5, <1>7, <2>1
  <2>3. f \in [0..N -> Splits]
    BY <1>5
  <2> QED BY <2>2, <2>3
<1>9. g = [n \in 0..N |-> IF n = 0 THEN <<<<>>>> ELSE Longer(g[n - 1], text[n])]
  BY <1>8 DEF LineSteps, N
<1> HIDE DEF g
<1>10. g[0] = <<<<>>>> /\ \A n \in 1..N : g[n] = Longer(g[n - 1], text[n])
  BY <1>1, <1>6, <1>9
<1>11. \A n \in 0..N : f[n] = g[n]
  <2>1. GoAlike(f, g, N)
    BY <1>5, <1>7, <1>10 DEF GoAlike, Alike
  <2> QED BY <1>1, <2>1, IterationsAgree
<1>12. LinesOf(text) = f[N]
  BY <1>1, <1>11 DEF LinesOf, LineSteps, N, g
<1> QED BY <1>5, <1>7, <1>12 DEF N

LEMMA LinesOfNone == LinesOf(<<>>) = <<<<>>>>
<1>1. <<>> \in Lines /\ Len(<<>>) = 0
  BY DEF Lines
<1> QED BY <1>1, LinesStep

LEMMA LinesOfMore ==
    ASSUME NEW text \in Lines, NEW b \in FrameBytes
    PROVE  LinesOf(text) \in Splits /\ LinesOf(Append(text, b)) = Longer(LinesOf(text), b)
<1> DEFINE N == Len(text)
           more == Append(text, b)
<1>1. /\ N \in Nat /\ more \in Lines /\ Len(more) = N + 1 /\ more[N + 1] = b
      /\ \A n \in 1..N : more[n] = text[n]
  BY AppendProperties DEF Lines
<1> HIDE DEF more
<1>2. PICK f \in [0..N -> Splits] :
              /\ f[0] = <<<<>>>> /\ \A n \in 1..N : f[n] = Longer(f[n - 1], text[n])
              /\ LinesOf(text) = f[N]
  BY LinesStep
<1>3. PICK g \in [0..(N + 1) -> Splits] :
              /\ g[0] = <<<<>>>> /\ \A n \in 1..(N + 1) : g[n] = Longer(g[n - 1], more[n])
              /\ LinesOf(more) = g[N + 1]
  BY <1>1, LinesStep
<1> HIDE DEF N
<1>4. \A n \in 1..N : f[n - 1] = g[n - 1] => f[n] = g[n]
  <2>1. \A n \in 1..N : n \in 1..(N + 1)
    BY <1>1
  <2> QED BY <1>1, <1>2, <1>3, <2>1
<1>5. \A n \in 0..N : f[n] = g[n]
  <2>1. GoAlike(f, g, N)
    BY <1>2, <1>3, <1>4 DEF GoAlike, Alike
  <2> QED BY <1>1, <2>1, IterationsAgree
<1>6. N \in 0..N /\ N + 1 \in 1..(N + 1) /\ (N + 1) - 1 = N
  BY <1>1
<1>7. g[N + 1] = Longer(g[N], b)
  BY <1>1, <1>3, <1>6
<1> QED BY <1>2, <1>3, <1>5, <1>6, <1>7 DEF more

\* Lines that are before the others stay as they are.
LEMMA LinesBeside ==
    ASSUME NEW F \in Seq(Lines), NEW M \in Splits
    PROVE  /\ F \o M \in Splits /\ Front(F \o M) = F \o Front(M) /\ Last(F \o M) = Last(M)
           /\ \A b \in FrameBytes : Longer(F \o M, b) = F \o Longer(M, b)
<1>1. /\ M \in Seq(Lines) /\ M # <<>> /\ Len(M) \in Nat \ {0} /\ Len(F) \in Nat
  BY DEF Splits
<1>2. /\ F \o M \in Seq(Lines) /\ Len(F \o M) = Len(F) + Len(M)
      /\ \A i \in 1..(Len(F) + Len(M)) : (F \o M)[i] = IF i <= Len(F) THEN F[i] ELSE M[i - Len(F)]
  BY <1>1, ConcatProperties
<1> DEFINE A == F \o M
<1> HIDE DEF A
<1>3. A \in Splits /\ A # <<>>
  BY <1>1, <1>2, EmptySeq DEF A, Splits
<1>4. Last(A) = Last(M)
  BY <1>1, <1>2 DEF A, Last
<1>5. Front(A) = F \o Front(M)
  <2>1. /\ Front(M) \in Seq(Lines) /\ Len(Front(M)) = Len(M) - 1
        /\ \A i \in 1..(Len(M) - 1) : Front(M)[i] = M[i]
    BY <1>1, FrontAndLast
  <2>2. /\ Front(A) \in Seq(Lines) /\ Len(Front(A)) = Len(A) - 1
        /\ \A i \in 1..(Len(A) - 1) : Front(A)[i] = A[i]
    BY <1>2, <1>3, FrontAndLast DEF A
  <2>3. /\ F \o Front(M) \in Seq(Lines) /\ Len(F \o Front(M)) = Len(F) + (Len(M) - 1)
        /\ \A i \in 1..(Len(F) + (Len(M) - 1)) :
              (F \o Front(M))[i] = IF i <= Len(F) THEN F[i] ELSE Front(M)[i - Len(F)]
    <3> DEFINE m == Front(M)
    <3>1. m \in Seq(Lines) /\ Len(m) = Len(M) - 1
      BY <2>1
    <3> HIDE DEF m
    <3>2. /\ F \o m \in Seq(Lines) /\ Len(F \o m) = Len(F) + Len(m)
          /\ \A i \in 1..(Len(F) + Len(m)) : (F \o m)[i] = IF i <= Len(F) THEN F[i] ELSE m[i - Len(F)]
      BY <3>1, ConcatProperties
    <3> QED BY <3>1, <3>2 DEF m
  <2> DEFINE B == F \o Front(M)
  <2> HIDE DEF B
  <2>4. \A i \in 1..Len(B) : Front(A)[i] = B[i]
    <3> SUFFICES ASSUME NEW i \in 1..Len(B) PROVE Front(A)[i] = B[i]
      OBVIOUS
    <3>1. Len(B) = Len(F) + Len(M) - 1 /\ Len(A) = Len(F) + Len(M) /\ i \in 1..(Len(A) - 1) /\ i \in Nat
      BY <1>1, <1>2, <2>3 DEF A, B
    <3>2. Front(A)[i] = A[i]
      BY <2>2, <3>1
    <3>3. A[i] = IF i <= Len(F) THEN F[i] ELSE M[i - Len(F)]
      BY <1>1, <1>2, <3>1 DEF A
    <3>4. B[i] = IF i <= Len(F) THEN F[i] ELSE Front(M)[i - Len(F)]
      BY <1>1, <2>3, <3>1 DEF B
    <3>5. ~ (i <= Len(F)) => i - Len(F) \in 1..(Len(M) - 1)
      BY <1>1, <3>1
    <3>6. ~ (i <= Len(F)) => Front(M)[i - Len(F)] = M[i - Len(F)]
      BY <2>1, <3>5
    <3> QED BY <3>2, <3>3, <3>4, <3>6
  <2>5. Len(Front(A)) = Len(B) /\ B \in Seq(Lines)
    BY <1>1, <1>2, <2>2, <2>3 DEF A, B
  <2>6. Front(A) = B
    BY <2>2, <2>4, <2>5, SeqEqual
  <2> QED BY <2>6 DEF B
<1>6. ASSUME NEW b \in FrameBytes PROVE Longer(A, b) = F \o Longer(M, b)
  <2>1. CASE b = "lf"
    <3>1. <<>> \in Lines
      BY DEF Lines
    <3>2. Longer(A, b) = Append(A, <<>>) /\ Longer(M, b) = Append(M, <<>>)
      BY <2>1 DEF Longer
    <3>3. F \o Append(M, <<>>) = Append(F \o M, <<>>)
      BY <1>1, <3>1, AppendToJoined
    <3> QED BY <3>2, <3>3 DEF A
  <2>2. CASE b # "lf"
    <3> DEFINE e == Append(Last(M), b)
    <3>1. e \in Lines
      BY <1>1, FrontAndLast, AppendProperties DEF Lines
    <3>2. Longer(A, b) = [A EXCEPT ![Len(A)] = e] /\ Longer(M, b) = [M EXCEPT ![Len(M)] = e]
      BY <2>2, <1>4 DEF Longer, Last
    <3> HIDE DEF e
    <3>3. Len(A) \in 1..Len(A) /\ Len(M) \in 1..Len(M) /\ Len(A) = Len(F) + Len(M) /\ A \in Seq(Lines)
      BY <1>1, <1>2 DEF A
    <3>4. /\ Longer(A, b) \in Seq(Lines) /\ Len(Longer(A, b)) = Len(A)
          /\ \A i \in 1..Len(A) : Longer(A, b)[i] = IF i = Len(A) THEN e ELSE A[i]
      BY <3>1, <3>2, <3>3, ExceptSeq
    <3>5. /\ Longer(M, b) \in Seq(Lines) /\ Len(Longer(M, b)) = Len(M)
          /\ \A i \in 1..Len(M) : Longer(M, b)[i] = IF i = Len(M) THEN e ELSE M[i]
      BY <1>1, <3>1, <3>2, <3>3, ExceptSeq
    <3> DEFINE C == F \o Longer(M, b)
    <3>6. /\ C \in Seq(Lines) /\ Len(C) = Len(A)
          /\ \A i \in 1..Len(A) : C[i] = IF i <= Len(F) THEN F[i] ELSE Longer(M, b)[i - Len(F)]
      <4> DEFINE m == Longer(M, b)
      <4>1. m \in Seq(Lines) /\ Len(m) = Len(M)
        BY <3>5
      <4> HIDE DEF m
      <4>2. /\ F \o m \in Seq(Lines) /\ Len(F \o m) = Len(F) + Len(m)
            /\ \A i \in 1..(Len(F) + Len(m)) : (F \o m)[i] = IF i <= Len(F) THEN F[i] ELSE m[i - Len(F)]
        BY <4>1, ConcatProperties
      <4> QED BY <3>3, <4>1, <4>2 DEF m
    <3> HIDE DEF C
    <3>7. ASSUME NEW i \in 1..Len(A) PROVE Longer(A, b)[i] = C[i]
      <4>1. /\ A[i] = IF i <= Len(F) THEN F[i] ELSE M[i - Len(F)]
            /\ i \in Nat
        BY <1>2, <3>3 DEF A
      <4>2. ~ (i <= Len(F)) => i - Len(F) \in 1..Len(M) /\ (i - Len(F) = Len(M) <=> i = Len(A))
        BY <1>1, <3>3, <4>1
      <4>3. i <= Len(F) => i # Len(A)
        BY <1>1, <3>3
      <4>4. ~ (i <= Len(F)) => Longer(M, b)[i - Len(F)] = IF i = Len(A) THEN e ELSE M[i - Len(F)]
        BY <3>5, <4>2
      <4> QED BY <3>4, <3>6, <4>1, <4>3, <4>4
    <3>8. Longer(A, b) = C
      BY <3>4, <3>6, <3>7, SeqEqual
    <3> QED BY <3>8 DEF C
  <2> QED BY <2>1, <2>2
<1> QED BY <1>3, <1>4, <1>5, <1>6 DEF A

\* What is left of a text after its last line feed is one line.
LEMMA RestIsOneLine ==
    ASSUME NEW text \in Lines
    PROVE  /\ LinesOf(text) \in Splits /\ Last(LinesOf(text)) \in Lines
           /\ Front(LinesOf(text)) \in Seq(Lines)
           /\ LinesOf(Last(LinesOf(text))) = <<Last(LinesOf(text))>>
<1> DEFINE Good == {t \in Lines : LinesOf(t) \in Splits /\ LinesOf(Last(LinesOf(t))) = <<Last(LinesOf(t))>>}
<1>1. <<>> \in Good
  <2>1. <<>> \in Lines /\ Last(<<<<>>>>) = <<>>
    BY DEF Lines, Last
  <2>2. LinesOf(<<>>) \in Splits
    <3>1. <<>> \in Seq(Lines) /\ <<<<>>>> = Append(<<>>, <<>>)
      BY <2>1
    <3>2. <<<<>>>> \in Seq(Lines) /\ <<<<>>>> # <<>>
      BY <2>1, <3>1, AppendProperties
    <3> QED BY <3>2, LinesOfNone DEF Splits
  <2> QED BY <2>1, <2>2, LinesOfNone
<1>2. ASSUME NEW t \in Good, NEW b \in FrameBytes PROVE Append(t, b) \in Good
  <2> DEFINE L == LinesOf(t)
             r == Last(L)
             M == LinesOf(Append(t, b))
  <2>1. t \in Lines /\ L \in Splits /\ LinesOf(r) = <<r>> /\ Append(t, b) \in Lines
    BY AppendProperties DEF Lines
  <2>2. M = Longer(L, b) /\ M \in Splits
    BY <2>1, LinesOfMore, LongerType
  <2>3. L \in Seq(Lines) /\ Len(L) \in Nat \ {0} /\ r = L[Len(L)] /\ r \in Lines
    BY <2>1, FrontAndLast DEF Splits
  <2> HIDE DEF L, r, M
  <2>4. CASE b = "lf"
    <3>1. <<>> \in Lines
      BY DEF Lines
    <3>2. M = Append(L, <<>>)
      BY <2>2, <2>4 DEF Longer
    <3>3. Len(M) = Len(L) + 1 /\ M[Len(L) + 1] = <<>>
      BY <2>3, <3>1, <3>2, AppendProperties
    <3>4. Last(M) = <<>>
      BY <3>3 DEF Last
    <3> QED BY <2>1, <2>2, <3>4, LinesOfNone DEF M
  <2>5. CASE b # "lf"
    <3> DEFINE e == Append(r, b)
    <3>1. e \in Lines
      BY <2>3, AppendProperties DEF Lines
    <3>2. M = [L EXCEPT ![Len(L)] = e]
      BY <2>2, <2>3, <2>5 DEF Longer
    <3>3. Longer(<<r>>, b) = <<e>>
      <4>1. Longer(<<r>>, b) = [<<r>> EXCEPT ![1] = e]
        BY <2>5 DEF Longer
      <4> QED BY <4>1
    <3>4. LinesOf(e) = <<e>>
      BY <2>1, <2>3, <3>3, LinesOfMore
    <3> HIDE DEF e
    <3>5. Last(M) = e
      <4>1. Len(L) \in 1..Len(L)
        BY <2>3
      <4>2. Len(M) = Len(L) /\ M[Len(L)] = e
        BY <2>3, <3>1, <3>2, <4>1, ExceptSeq
      <4> QED BY <4>2 DEF Last
    <3> QED BY <2>1, <2>2, <3>4, <3>5 DEF M
  <2> QED BY <2>4, <2>5
<1>3. text \in Good
  <2> HIDE DEF Good
  <2> QED BY <1>1, <1>2, SequenceInduction DEF Lines
<1>4. LinesOf(text) \in Seq(Lines) /\ LinesOf(text) # <<>>
  BY <1>3 DEF Splits
<1> QED BY <1>3, <1>4, FrontAndLast

\* The lines of a text in two parts: the ones the first part ends, then those of what is left
\* of it and the second.
LEMMA LinesOfJoined ==
    ASSUME NEW s \in Lines, NEW t \in Lines
    PROVE  /\ LinesOf(s \o t) = Front(LinesOf(s)) \o LinesOf(Last(LinesOf(s)) \o t)
           /\ LinesOf(Last(LinesOf(s)) \o t) \in Splits
<1> DEFINE F == Front(LinesOf(s))
           r == Last(LinesOf(s))
           Good == {u \in Lines : LinesOf(s \o u) = F \o LinesOf(r \o u) /\ LinesOf(r \o u) \in Splits}
<1>0. /\ LinesOf(s) \in Splits /\ F \in Seq(Lines) /\ r \in Lines /\ LinesOf(r) = <<r>>
      /\ LinesOf(s) = F \o <<r>>
  <2>1. LinesOf(s) \in Splits /\ F \in Seq(Lines) /\ r \in Lines /\ LinesOf(r) = <<r>>
    BY RestIsOneLine
  <2>2. LinesOf(s) \in Seq(Lines) /\ LinesOf(s) # <<>>
    BY <2>1 DEF Splits
  <2> QED BY <2>1, <2>2, FrontAndLast
<1> HIDE DEF F, r
<1>1. <<>> \in Good
  <2>1. <<>> \in Lines /\ s \o <<>> = s /\ r \o <<>> = r
    BY <1>0, ConcatEmptySeq DEF Lines
  <2>2. LinesOf(r) \in Splits
    BY <1>0, RestIsOneLine
  <2> QED BY <1>0, <2>1, <2>2
<1>2. ASSUME NEW u \in Good, NEW b \in FrameBytes PROVE Append(u, b) \in Good
  <2>1. /\ u \in Lines /\ LinesOf(s \o u) = F \o LinesOf(r \o u) /\ LinesOf(r \o u) \in Splits
        /\ Append(u, b) \in Lines
    BY AppendProperties DEF Lines
  <2>2. ASSUME NEW x \in Lines PROVE x \o u \in Lines /\ x \o Append(u, b) = Append(x \o u, b)
    BY <2>1, AppendToJoined DEF Lines
  <2>3. LinesOf(s \o Append(u, b)) = Longer(LinesOf(s \o u), b)
    BY <2>2, LinesOfMore
  <2>4. LinesOf(r \o Append(u, b)) = Longer(LinesOf(r \o u), b)
    BY <1>0, <2>2, LinesOfMore
  <2>5. Longer(F \o LinesOf(r \o u), b) = F \o Longer(LinesOf(r \o u), b)
    BY <1>0, <2>1, LinesBeside
  <2>6. Longer(LinesOf(r \o u), b) \in Splits
    BY <2>1, LongerType
  <2> QED BY <2>1, <2>3, <2>4, <2>5, <2>6
<1>3. t \in Good
  <2> HIDE DEF Good
  <2> QED BY <1>1, <1>2, SequenceInduction DEF Lines
<1> QED BY <1>3 DEF F, r

\* A line that has not ended is not shorter with what follows.
LEMMA LineGrows ==
    ASSUME NEW s \in Lines, LinesOf(s) = <<s>>, NEW t \in Lines
    PROVE  LinesOf(s \o t) \in Splits /\ Len(s) <= Len(LinesOf(s \o t)[1])
<1> DEFINE Good == {u \in Lines : LinesOf(s \o u) \in Splits /\ Len(s) <= Len(LinesOf(s \o u)[1])}
<1>0. Len(s) \in Nat
  BY DEF Lines
<1>1. <<>> \in Good
  <2>1. <<>> \in Lines /\ s \o <<>> = s
    BY ConcatEmptySeq DEF Lines
  <2>2. <<s>>[1] = s /\ LinesOf(s) \in Splits
    BY RestIsOneLine
  <2> QED BY <1>0, <2>1, <2>2
<1>2. ASSUME NEW u \in Good, NEW b \in FrameBytes PROVE Append(u, b) \in Good
  <2> DEFINE L == LinesOf(s \o u)
             M == LinesOf(s \o Append(u, b))
  <2>1. u \in Lines /\ L \in Splits /\ Len(s) <= Len(L[1]) /\ Append(u, b) \in Lines
    BY AppendProperties DEF Lines
  <2>2. s \o u \in Lines /\ s \o Append(u, b) = Append(s \o u, b)
    <3>1. s \o u \in Lines /\ <<b>> \in Lines
      BY <2>1, ConcatProperties DEF Lines
    <3>2. Append(u, b) = u \o <<b>> /\ Append(s \o u, b) = (s \o u) \o <<b>>
      BY <2>1, <3>1, AppendIsConcat DEF Lines
    <3> QED BY <2>1, <3>1, <3>2, ConcatAssociative DEF Lines
  <2>3. M = Longer(L, b) /\ M \in Splits
    BY <2>1, <2>2, LinesOfMore, LongerType
  <2>4. L \in Seq(Lines) /\ Len(L) \in Nat \ {0} /\ \A i \in 1..Len(L) : L[i] \in Lines /\ Len(L[i]) \in Nat
    BY <2>1 DEF Splits, Lines
  <2> HIDE DEF L, M
  <2>5. CASE b = "lf"
    <3>1. <<>> \in Lines
      BY DEF Lines
    <3>2. M = Append(L, <<>>)
      BY <2>3, <2>5 DEF Longer
    <3>3. M[1] = L[1]
      BY <2>4, <3>1, <3>2, AppendProperties
    <3> QED BY <2>1, <2>3, <3>3 DEF M
  <2>6. CASE b # "lf"
    <3> DEFINE e == Append(L[Len(L)], b)
    <3>1. e \in Lines /\ Len(e) = Len(L[Len(L)]) + 1
      BY <2>4, AppendProperties DEF Lines
    <3>2. M = [L EXCEPT ![Len(L)] = e]
      BY <2>3, <2>6 DEF Longer
    <3> HIDE DEF e
    <3>3. Len(L) \in 1..Len(L) /\ 1 \in 1..Len(L)
      BY <2>4
    <3>4. M[1] = IF 1 = Len(L) THEN e ELSE L[1]
      BY <2>4, <3>1, <3>2, <3>3, ExceptSeq
    <3>5. Len(s) <= Len(M[1])
      BY <1>0, <2>1, <2>4, <3>1, <3>3, <3>4
    <3> QED BY <2>1, <2>3, <3>5 DEF M
  <2> QED BY <2>5, <2>6
<1>3. t \in Good
  <2> HIDE DEF Good
  <2> QED BY <1>1, <1>2, SequenceInduction DEF Lines
<1> QED BY <1>3

Decoders == [buffer : Lines, messages : Seq(Lines), failed : BOOLEAN]

\* A line that is refused
Unfit(line) == Len(line) > MaxMessageBytes \/ ~ Parses(WithoutReturn(line))

LEMMA MessagesOfJoined ==
    ASSUME NEW F \in Seq(Lines), NEW M \in Seq(Lines)
    PROVE  /\ Messages(F) \in Seq(Lines) /\ Messages(M) \in Seq(Lines)
           /\ Messages(F \o M) = Messages(F) \o Messages(M)
<1> DEFINE W(lines) == [n \in DOMAIN lines |-> WithoutReturn(lines[n])]
           stay == Seq(FrameBytes) \ {<<>>}
<1>1. \A l \in Lines : WithoutReturn(l) \in Lines
  BY FrontAndLast DEF WithoutReturn, Lines
<1>2. ASSUME NEW x \in Seq(Lines)
      PROVE  W(x) \in Seq(Lines) /\ Len(W(x)) = Len(x) /\ \A n \in 1..Len(x) : W(x)[n] = WithoutReturn(x[n])
  <2>1. DOMAIN x = 1..Len(x) /\ Len(x) \in Nat /\ \A n \in 1..Len(x) : x[n] \in Lines
    OBVIOUS
  <2>2. W(x) \in [1..Len(x) -> Lines]
    BY <1>1, <2>1
  <2> HIDE DEF W
  <2>3. W(x) \in Seq(Lines) /\ Len(W(x)) = Len(x)
    BY <2>1, <2>2
  <2> QED BY <2>1, <2>3 DEF W
<1>3. /\ F \o M \in Seq(Lines) /\ Len(F \o M) = Len(F) + Len(M)
      /\ \A i \in 1..(Len(F) + Len(M)) : (F \o M)[i] = IF i <= Len(F) THEN F[i] ELSE M[i - Len(F)]
  BY ConcatProperties
<1>4. Messages(F) = Where(W(F), stay) /\ Messages(M) = Where(W(M), stay) /\ Messages(F \o M) = Where(W(F \o M), stay)
  BY DEF Messages
<1> HIDE DEF W, stay
<1>5. W(F \o M) = W(F) \o W(M)
  <2> DEFINE A == F \o M
             w == W(A)
             v == W(F) \o W(M)
  <2>1. /\ W(F) \in Seq(Lines) /\ W(M) \in Seq(Lines) /\ Len(W(F)) = Len(F) /\ Len(W(M)) = Len(M)
        /\ \A n \in 1..Len(F) : W(F)[n] = WithoutReturn(F[n])
        /\ \A n \in 1..Len(M) : W(M)[n] = WithoutReturn(M[n])
    BY <1>2
  <2>2. /\ v \in Seq(Lines) /\ Len(v) = Len(F) + Len(M)
        /\ \A i \in 1..(Len(F) + Len(M)) : v[i] = IF i <= Len(F) THEN W(F)[i] ELSE W(M)[i - Len(F)]
    <3> DEFINE wf == W(F)
               wm == W(M)
    <3> HIDE DEF wf, wm
    <3>1. wf \in Seq(Lines) /\ wm \in Seq(Lines) /\ Len(wf) = Len(F) /\ Len(wm) = Len(M)
      BY <2>1 DEF wf, wm
    <3>2. /\ wf \o wm \in Seq(Lines) /\ Len(wf \o wm) = Len(wf) + Len(wm)
          /\ \A i \in 1..(Len(wf) + Len(wm)) : (wf \o wm)[i] = IF i <= Len(wf) THEN wf[i] ELSE wm[i - Len(wf)]
      BY <3>1, ConcatProperties
    <3> QED BY <3>1, <3>2 DEF wf, wm
  <2>3. w \in Seq(Lines) /\ Len(w) = Len(F) + Len(M) /\ \A n \in 1..Len(A) : w[n] = WithoutReturn(A[n])
    BY <1>2, <1>3
  <2>4. ASSUME NEW i \in 1..(Len(F) + Len(M)) PROVE w[i] = v[i]
    <3>1. w[i] = WithoutReturn(A[i]) /\ A[i] = IF i <= Len(F) THEN F[i] ELSE M[i - Len(F)]
      BY <1>3, <2>3
    <3>2. /\ i <= Len(F) => i \in 1..Len(F)
          /\ ~ (i <= Len(F)) => i - Len(F) \in 1..Len(M)
      OBVIOUS
    <3>3. v[i] = IF i <= Len(F) THEN W(F)[i] ELSE W(M)[i - Len(F)]
      BY <2>2
    <3> HIDE DEF v, w, A
    <3> QED BY <2>1, <3>1, <3>2, <3>3
  <2> HIDE DEF v, w
  <2>5. w = v
    BY <2>2, <2>3, <2>4, SeqEqual
  <2> QED BY <2>5 DEF v, w
<1>6. W(F) \in Seq(Lines) /\ W(M) \in Seq(Lines)
  BY <1>2
<1> DEFINE wf == W(F)
           wm == W(M)
<1> HIDE DEF wf, wm
<1>7. wf \in Seq(Lines) /\ wm \in Seq(Lines)
  BY <1>6 DEF wf, wm
<1>8. Where(wf, stay) \in Seq(Lines)
  BY <1>7, WhereKeeps
<1>9. Where(wm, stay) \in Seq(Lines)
  BY <1>7, WhereKeeps
<1>10. Where(wf \o wm, stay) = Where(wf, stay) \o Where(wm, stay)
  <2>1. \A x, y \in Seq(Lines) : Where(x \o y, stay) = Where(x, stay) \o Where(y, stay)
    <3> HIDE DEF wf, wm, stay
    <3> QED BY WhereJoined
  <2> QED BY ZenonT(40), <1>7, <2>1
<1>11. Messages(F) = Where(wf, stay) /\ Messages(M) = Where(wm, stay) /\ Messages(F \o M) = Where(wf \o wm, stay)
  BY <1>4, <1>5 DEF wf, wm
<1> QED BY <1>8, <1>9, <1>10, <1>11

\* A text is refused for a line that has ended, or for what is left of it.
LEMMA RefusedJoined ==
    ASSUME NEW F \in Seq(Lines), NEW M \in Splits
    PROVE  Refused(Front(F \o M), Last(F \o M))
              <=> (\E n \in 1..Len(F) : Unfit(F[n])) \/ Refused(Front(M), Last(M))
<1>1. /\ Front(F \o M) = F \o Front(M) /\ Last(F \o M) = Last(M)
  BY LinesBeside
<1>2. Front(M) \in Seq(Lines)
  BY FrontAndLast DEF Splits
<1> DEFINE m == Front(M)
           A == F \o m
<1> HIDE DEF m
<1>3. /\ A \in Seq(Lines) /\ Len(A) = Len(F) + Len(m) /\ m \in Seq(Lines) /\ Len(F) \in Nat /\ Len(m) \in Nat
      /\ \A i \in 1..(Len(F) + Len(m)) : A[i] = IF i <= Len(F) THEN F[i] ELSE m[i - Len(F)]
  BY <1>2, ConcatProperties DEF m
<1> HIDE DEF A
<1>4. (\E n \in 1..Len(A) : Unfit(A[n])) <=> (\E n \in 1..Len(F) : Unfit(F[n])) \/ (\E n \in 1..Len(m) : Unfit(m[n]))
  <2>1. ASSUME NEW n \in 1..Len(A), Unfit(A[n])
        PROVE  (\E k \in 1..Len(F) : Unfit(F[k])) \/ (\E k \in 1..Len(m) : Unfit(m[k]))
    <3>1. CASE n <= Len(F)
      <4>1. n \in 1..Len(F) /\ A[n] = F[n]
        BY <1>3, <3>1
      <4> QED BY <2>1, <4>1
    <3>2. CASE ~ (n <= Len(F))
      <4>1. n - Len(F) \in 1..Len(m) /\ A[n] = m[n - Len(F)]
        BY <1>3, <3>2
      <4> QED BY <2>1, <4>1
    <3> QED BY <3>1, <3>2
  <2>2. ASSUME NEW n \in 1..Len(F), Unfit(F[n]) PROVE \E k \in 1..Len(A) : Unfit(A[k])
    <3>1. n \in 1..Len(A) /\ A[n] = F[n]
      BY <1>3
    <3> QED BY <2>2, <3>1
  <2>3. ASSUME NEW n \in 1..Len(m), Unfit(m[n]) PROVE \E k \in 1..Len(A) : Unfit(A[k])
    <3>1. n + Len(F) \in 1..Len(A) /\ ~ (n + Len(F) <= Len(F)) /\ (n + Len(F)) - Len(F) = n
      BY <1>3
    <3>2. A[n + Len(F)] = m[n]
      BY <1>3, <3>1
    <3> QED BY <2>3, <3>1, <3>2
  <2> QED BY Zenon, <2>1, <2>2, <2>3
<1>5. /\ Refused(A, Last(M)) <=> (\E n \in 1..Len(A) : Unfit(A[n])) \/ Len(Last(M)) > MaxMessageBytes
      /\ Refused(m, Last(M)) <=> (\E n \in 1..Len(m) : Unfit(m[n])) \/ Len(Last(M)) > MaxMessageBytes
  <2>1. DOMAIN A = 1..Len(A) /\ DOMAIN m = 1..Len(m)
    BY <1>3
  <2> QED BY <2>1 DEF Refused, Unfit
<1> QED BY <1>1, <1>4, <1>5 DEF A, m

\* What is refused stays refused, whatever follows.
LEMMA RefusedStays ==
    ASSUME NEW s \in Lines, NEW t \in Lines, Refused(Front(LinesOf(s)), Last(LinesOf(s)))
    PROVE  Refused(Front(LinesOf(s \o t)), Last(LinesOf(s \o t)))
<1> DEFINE F == Front(LinesOf(s))
           r == Last(LinesOf(s))
           M == LinesOf(r \o t)
<1>1. /\ F \in Seq(Lines) /\ r \in Lines /\ LinesOf(r) = <<r>> /\ M \in Splits /\ LinesOf(s \o t) = F \o M
  BY RestIsOneLine, LinesOfJoined
<1>2. Len(r) <= Len(M[1]) /\ Len(r) \in Nat
  BY <1>1, LineGrows DEF Lines
<1>3. /\ Front(M) \in Seq(Lines) /\ Len(Front(M)) = Len(M) - 1 /\ Len(M) \in Nat \ {0} /\ M[Len(M)] = Last(M)
      /\ \A i \in 1..(Len(M) - 1) : Front(M)[i] = M[i]
      /\ \A i \in 1..Len(M) : M[i] \in Lines /\ Len(M[i]) \in Nat
  <2>1. M \in Seq(Lines) /\ M # <<>>
    BY <1>1 DEF Splits
  <2> HIDE DEF M
  <2>2. /\ Front(M) \in Seq(Lines) /\ Len(Front(M)) = Len(M) - 1 /\ Len(M) \in Nat \ {0} /\ M[Len(M)] = Last(M)
        /\ \A i \in 1..(Len(M) - 1) : Front(M)[i] = M[i]
    BY <2>1, FrontAndLast
  <2>3. \A i \in 1..Len(M) : M[i] \in Lines
    BY <2>1
  <2>4. \A l \in Lines : Len(l) \in Nat
    BY DEF Lines
  <2> QED BY <2>2, <2>3, <2>4
<1>4. Refused(F, r)
  OBVIOUS
<1> HIDE DEF F, r, M
<1>5. (\E n \in 1..Len(F) : Unfit(F[n])) \/ Refused(Front(M), Last(M))
  <2>1. CASE \E n \in DOMAIN F : Unfit(F[n])
    BY <1>1, <2>1
  <2>2. CASE Len(r) > MaxMessageBytes
    <3>1. Len(M[1]) > MaxMessageBytes
      BY <1>2, <1>3, <2>2, MaxMessageAssumption
    <3>2. CASE Len(M) = 1
      BY <1>3, <3>1, <3>2 DEF Refused
    <3>3. CASE Len(M) # 1
      <4>1. 1 \in 1..(Len(M) - 1) /\ 1 \in DOMAIN Front(M)
        BY <1>3, <3>3
      <4>2. Len(Front(M)[1]) > MaxMessageBytes
        BY <1>3, <3>1, <4>1
      <4> QED BY <4>1, <4>2 DEF Refused
    <3> QED BY <3>2, <3>3
  <2> QED BY <1>4, <2>1, <2>2 DEF Refused, Unfit
<1>6. Refused(Front(F \o M), Last(F \o M))
  BY <1>1, <1>5, RefusedJoined
<1> QED BY <1>1, <1>6

\* push of a decoder that has not failed, with what is left of the text before
LEMMA PushIs ==
    ASSUME NEW d \in Decoders, NEW chunk \in Lines
    PROVE  /\ Push(d, chunk) \in Decoders
           /\ d.failed => Push(d, chunk) = d
           /\ ~ d.failed =>
                LET M == LinesOf(d.buffer \o chunk)
                IN /\ Refused(Front(M), Last(M)) => Push(d, chunk) = [d EXCEPT !.failed = TRUE]
                   /\ ~ Refused(Front(M), Last(M)) =>
                        Push(d, chunk) = [buffer |-> Last(M), messages |-> d.messages \o Messages(Front(M)),
                                          failed |-> FALSE]
<1> DEFINE M == LinesOf(d.buffer \o chunk)
<1>1. d.buffer \in Lines /\ d.messages \in Seq(Lines) /\ d.failed \in BOOLEAN
  BY DEF Decoders
<1>2. d.buffer \o chunk \in Lines
  BY <1>1, ConcatProperties DEF Lines
<1>3. Last(M) \in Lines /\ Front(M) \in Seq(Lines)
  BY <1>2, RestIsOneLine
<1>4. Messages(Front(M)) \in Seq(Lines)
  BY <1>3, MessagesOfJoined
<1>5. d.messages \o Messages(Front(M)) \in Seq(Lines)
  BY <1>1, <1>4, ConcatProperties
<1>6. Push(d, chunk) =
         IF d.failed THEN d
         ELSE IF Refused(Front(M), Last(M)) THEN [d EXCEPT !.failed = TRUE]
         ELSE [d EXCEPT !.messages = @ \o Messages(Front(M)), !.buffer = Last(M)]
  BY DEF Push
<1> HIDE DEF M
<1>7. ~ d.failed =>
        [d EXCEPT !.messages = @ \o Messages(Front(M)), !.buffer = Last(M)] =
           [buffer |-> Last(M), messages |-> d.messages \o Messages(Front(M)), failed |-> FALSE]
  <2> DEFINE rest == Last(M)
             all == d.messages \o Messages(Front(M))
             e == [d EXCEPT !.messages = all]
  <2>1. rest \in Lines /\ all \in Seq(Lines)
    BY <1>3, <1>5
  <2>2. [d EXCEPT !.messages = @ \o Messages(Front(M)), !.buffer = Last(M)] = [e EXCEPT !.buffer = rest]
    BY Zenon
  <2> HIDE DEF rest, all
  <2>3. e = [buffer |-> d.buffer, messages |-> all, failed |-> d.failed] /\ e \in Decoders
    BY <2>1 DEF Decoders
  <2> HIDE DEF e
  <2>4. [e EXCEPT !.buffer = rest] = [buffer |-> rest, messages |-> e.messages, failed |-> e.failed]
    BY <2>1, <2>3 DEF Decoders
  <2>5. e.messages = all /\ e.failed = d.failed
    BY <2>3
  <2>6. ~ d.failed => d.failed = FALSE
    BY <1>1
  <2> QED BY <2>2, <2>4, <2>5, <2>6 DEF rest, all
<1>8. [buffer |-> Last(M), messages |-> d.messages \o Messages(Front(M)), failed |-> FALSE] \in Decoders
  BY <1>3, <1>5 DEF Decoders
<1>9. [d EXCEPT !.failed = TRUE] \in Decoders
  BY DEF Decoders
<1>10. Push(d, chunk) \in Decoders
  BY <1>6, <1>7, <1>8, <1>9
<1> QED BY <1>6, <1>7, <1>10 DEF M

\* f is the decoder after each of the chunks.
Decodes(f, chunks) ==
    /\ f \in [0..Len(chunks) -> Decoders]
    /\ f[0] = NewDecoder /\ \A n \in 1..Len(chunks) : f[n] = Push(f[n - 1], chunks[n])
    /\ Decoded(chunks) = f[Len(chunks)]

DecodedSteps(chunks) ==
    CHOOSE f : f = [n \in 0..Len(chunks) |-> IF n = 0 THEN NewDecoder ELSE Push(f[n - 1], chunks[n])]

LEMMA NewDecoderType == NewDecoder \in Decoders
  BY DEF NewDecoder, Decoders, Lines

LEMMA DecodedStep == ASSUME NEW chunks \in Seq(Lines) PROVE \E f : Decodes(f, chunks)
<1> DEFINE N == Len(chunks)
           step == [x \in Decoders \X (1..N) |-> Push(x[1], chunks[x[2]])]
           g == DecodedSteps(chunks)
<1>1. N \in Nat /\ \A n \in 1..N : chunks[n] \in Lines
  OBVIOUS
<1>2. step \in [Decoders \X (1..N) -> Decoders]
  <2>1. ASSUME NEW x \in Decoders \X (1..N) PROVE Push(x[1], chunks[x[2]]) \in Decoders
    BY <1>1, PushIs
  <2> QED BY <2>1
<1>3. \A d \in Decoders, n \in 1..N : step[d, n] = Push(d, chunks[n])
  OBVIOUS
<1> HIDE DEF N, step
<1>4. PICK f : Iterates(f, N, NewDecoder, step, Decoders)
  BY <1>1, <1>2, NewDecoderType, IterationExists
<1>5. \A n \in 1..N : n \in 0..N /\ n - 1 \in 0..N /\ n # 0 /\ 0 \in 0..N
  BY <1>1
<1>6. f \in [0..N -> Decoders] /\ f[0] = NewDecoder /\ \A n \in 1..N : f[n] = Push(f[n - 1], chunks[n])
  BY <1>3, <1>4, <1>5 DEF Iterates
<1>7. f = [n \in 0..N |-> IF n = 0 THEN NewDecoder ELSE Push(f[n - 1], chunks[n])]
  <2>1. \A n \in 0..N : n # 0 => n \in 1..N
    BY <1>1
  <2> QED BY <1>6, <2>1
<1>8. g = [n \in 0..N |-> IF n = 0 THEN NewDecoder ELSE Push(g[n - 1], chunks[n])]
  BY <1>7 DEF DecodedSteps, N
<1> HIDE DEF g
<1>9. g[0] = NewDecoder /\ \A n \in 1..N : g[n] = Push(g[n - 1], chunks[n])
  BY <1>1, <1>5, <1>8
<1>10. GoAlike(f, g, N)
  BY <1>6, <1>9 DEF GoAlike, Alike
<1>11. N \in 0..N
  BY <1>1
<1>12. f[N] = g[N]
  BY <1>1, <1>10, <1>11, IterationsAgree
<1>13. Decoded(chunks) = f[N]
  BY <1>12 DEF Decoded, DecodedSteps, N, g
<1> QED BY <1>6, <1>13 DEF Decodes, N

LEMMA DecodedOfNone == Decoded(<<>>) = NewDecoder
<1>1. <<>> \in Seq(Lines) /\ Len(<<>>) = 0
  OBVIOUS
<1>2. PICK f : Decodes(f, <<>>)
  BY <1>1, DecodedStep
<1> QED BY <1>1, <1>2 DEF Decodes

LEMMA DecodedOfMore ==
    ASSUME NEW chunks \in Seq(Lines), NEW chunk \in Lines
    PROVE  Decoded(chunks) \in Decoders /\ Decoded(Append(chunks, chunk)) = Push(Decoded(chunks), chunk)
<1> DEFINE N == Len(chunks)
           more == Append(chunks, chunk)
<1>1. /\ N \in Nat /\ more \in Seq(Lines) /\ Len(more) = N + 1 /\ more[N + 1] = chunk
      /\ \A n \in 1..N : more[n] = chunks[n]
  BY AppendProperties
<1> HIDE DEF more
<1>a. PICK f : Decodes(f, chunks)
  BY DecodedStep
<1>b. PICK g : Decodes(g, more)
  BY <1>1, DecodedStep
<1>2. /\ f \in [0..N -> Decoders] /\ f[0] = NewDecoder /\ \A n \in 1..N : f[n] = Push(f[n - 1], chunks[n])
      /\ Decoded(chunks) = f[N]
  BY <1>a DEF Decodes
<1>3. /\ g[0] = NewDecoder /\ \A n \in 1..(N + 1) : g[n] = Push(g[n - 1], more[n])
      /\ Decoded(more) = g[N + 1]
  BY <1>1, <1>b DEF Decodes
<1> HIDE DEF N
<1>4. GoAlike(f, g, N)
  <2>1. \A n \in 1..N : n \in 1..(N + 1)
    BY <1>1
  <2> QED BY <1>1, <1>2, <1>3, <2>1 DEF GoAlike, Alike
<1>5. N \in 0..N /\ N + 1 \in 1..(N + 1) /\ (N + 1) - 1 = N
  BY <1>1
<1>6. f[N] = g[N]
  BY <1>1, <1>4, <1>5, IterationsAgree
<1>7. g[N + 1] = Push(g[N], chunk)
  BY <1>1, <1>3, <1>5
<1> QED BY <1>2, <1>3, <1>5, <1>6, <1>7 DEF more

\* However a text is cut into chunks, it is decoded as if it came at once.
LEMMA ChunksDecoded == ASSUME NEW chunks \in Seq(Lines) PROVE ChunksDoNotMatter(chunks)
<1> DEFINE Good == {cs \in Seq(Lines) : ChunksDoNotMatter(cs)}
<1>1. <<>> \in Good
  <2>1. FlattenSeq(<<>>) = <<>> /\ <<>> \in Lines /\ <<>> \in Seq(Lines)
    BY FlattenOfNone DEF Lines
  <2>2. LinesOf(<<>>) = <<<<>>>> /\ Last(<<<<>>>>) = <<>> /\ Front(<<<<>>>>) = <<>>
    BY LinesOfNone DEF Last, Front
  <2>3. ~ Refused(<<>>, <<>>)
    BY MaxMessageAssumption DEF Refused
  <2>4. NewDecoder \in Decoders /\ NewDecoder.buffer = <<>> /\ NewDecoder.messages = <<>> /\ ~ NewDecoder.failed
    BY NewDecoderType DEF NewDecoder
  <2>5. <<>> \o <<>> = <<>>
    BY <2>1, ConcatEmptySeq
  <2>6. Messages(<<>>) = <<>>
    <3>1. Messages(<<>>) = Messages(<<>>) \o Messages(<<>>) /\ Messages(<<>>) \in Seq(Lines)
      BY <2>1, <2>5, MessagesOfJoined
    <3> QED BY <3>1, ConcatEqualIffEmpty
  <2>7. Push(NewDecoder, <<>>) = NewDecoder
    <3> DEFINE d == NewDecoder
               M == LinesOf(d.buffer \o <<>>)
    <3>a. /\ ~ d.failed => (~ Refused(Front(M), Last(M)) =>
               Push(d, <<>>) = [buffer |-> Last(M), messages |-> d.messages \o Messages(Front(M)), failed |-> FALSE])
      BY <2>1, <2>4, PushIs
    <3>b. M = <<<<>>>>
      BY <2>2, <2>4, <2>5
    <3> HIDE DEF M
    <3>c. Front(M) = <<>> /\ Last(M) = <<>>
      BY <2>2, <3>b
    <3>1. Push(NewDecoder, <<>>) = [buffer |-> <<>>, messages |-> <<>> \o Messages(<<>>), failed |-> FALSE]
      BY <2>3, <2>4, <3>a, <3>c
    <3> QED BY <2>5, <2>6, <3>1 DEF NewDecoder
  <2>8. IsPrefix(<<>>, <<>>)
    BY <2>1, PrefixOfItself
  <2> QED BY <2>1, <2>2, <2>4, <2>6, <2>7, <2>8, DecodedOfNone DEF ChunksDoNotMatter
<1>2. ASSUME NEW cs \in Good, NEW c \in Lines PROVE Append(cs, c) \in Good
  <2> DEFINE T == FlattenSeq(cs)
             D == Decoded(cs)
             O == Push(NewDecoder, T)
             L == LinesOf(T)
             F == Front(L)
             r == Last(L)
             M == LinesOf(r \o c)
             G == Front(M)
             T2 == FlattenSeq(Append(cs, c))
             D2 == Decoded(Append(cs, c))
             O2 == Push(NewDecoder, T2)
             L2 == LinesOf(T2)
  <2>1. cs \in Seq(Lines) /\ Append(cs, c) \in Seq(Lines)
    BY AppendProperties
  <2>2. T \in Lines /\ T2 = T \o c /\ T2 \in Lines
    BY <2>1, FlattenOfMore, ConcatProperties DEF Lines
  <2>3. D \in Decoders /\ D2 = Push(D, c)
    BY <2>1, DecodedOfMore
  <2>4. (D.failed = O.failed) /\ (~ O.failed => D = O) /\ IsPrefix(D.messages, Messages(F))
    BY DEF ChunksDoNotMatter
  <2>5. L \in Splits /\ F \in Seq(Lines) /\ r \in Lines /\ L = F \o <<r>>
    <3>1. L \in Splits /\ F \in Seq(Lines) /\ r \in Lines
      BY <2>2, RestIsOneLine
    <3> QED BY <3>1, FrontAndLast DEF Splits
  <2>6. M \in Splits /\ L2 = F \o M
    BY <2>2, LinesOfJoined
  <2>7. G \in Seq(Lines) /\ Front(L2) = F \o G /\ Last(L2) = Last(M) /\ Last(M) \in Lines
    <3> HIDE DEF F, r, M, L2
    <3>1. M \in Seq(Lines) /\ M # <<>>
      BY <2>6 DEF Splits
    <3>2. Front(M) \in Seq(Lines) /\ Last(M) \in Lines
      BY <3>1, FrontAndLast
    <3>3. Front(F \o M) = F \o Front(M) /\ Last(F \o M) = Last(M)
      BY <2>5, <2>6, LinesBeside
    <3> QED BY <2>6, <3>2, <3>3
  <2>8. /\ Messages(F) \in Seq(Lines) /\ Messages(G) \in Seq(Lines)
        /\ Messages(Front(L2)) = Messages(F) \o Messages(G)
    <3>1. F \in Seq(Lines) /\ G \in Seq(Lines)
      BY <2>5, <2>7
    <3> HIDE DEF F, G
    <3>2. /\ Messages(F) \in Seq(Lines) /\ Messages(G) \in Seq(Lines)
          /\ Messages(F \o G) = Messages(F) \o Messages(G)
      BY ZenonT(40), <3>1, MessagesOfJoined
    <3> QED BY ZenonT(40), <2>7, <3>2
  \* What the decoder makes of the whole text at once
  <2>9. ASSUME NEW x \in Lines
        PROVE  /\ Refused(Front(LinesOf(x)), Last(LinesOf(x))) => Push(NewDecoder, x).failed
               /\ ~ Refused(Front(LinesOf(x)), Last(LinesOf(x))) =>
                     Push(NewDecoder, x) = [buffer |-> Last(LinesOf(x)), messages |-> Messages(Front(LinesOf(x))),
                                            failed |-> FALSE]
    <3>1. /\ NewDecoder \in Decoders /\ NewDecoder.buffer = <<>> /\ NewDecoder.messages = <<>>
          /\ ~ NewDecoder.failed /\ <<>> \o x = x
      BY NewDecoderType, ConcatEmptySeq DEF NewDecoder, Lines
    <3>2. Front(LinesOf(x)) \in Seq(Lines)
      BY RestIsOneLine
    <3>3. Messages(Front(LinesOf(x))) \in Seq(Lines)
      BY <3>2, MessagesOfJoined
    <3>4. <<>> \o Messages(Front(LinesOf(x))) = Messages(Front(LinesOf(x)))
      BY <3>3, ConcatEmptySeq
    <3>5. [NewDecoder EXCEPT !.failed = TRUE].failed
      BY DEF NewDecoder
    <3> DEFINE d == NewDecoder
               K == LinesOf(d.buffer \o x)
    <3>6. /\ Refused(Front(K), Last(K)) => Push(d, x) = [d EXCEPT !.failed = TRUE]
          /\ ~ Refused(Front(K), Last(K)) =>
               Push(d, x) = [buffer |-> Last(K), messages |-> d.messages \o Messages(Front(K)), failed |-> FALSE]
      BY <3>1, PushIs
    <3>7. K = LinesOf(x)
      BY <3>1
    <3> HIDE DEF K
    <3>8. d.messages \o Messages(Front(K)) = Messages(Front(K))
      BY <3>1, <3>4, <3>7
    <3> QED BY <3>5, <3>6, <3>7, <3>8
  <2> HIDE DEF T, D, O, L, F, r, M, G, T2, D2, O2, L2
  <2>10. /\ Refused(F, r) => O.failed
         /\ ~ Refused(F, r) => O = [buffer |-> r, messages |-> Messages(F), failed |-> FALSE]
    BY <2>2, <2>9 DEF O, F, r, L
  <2>11. /\ Refused(Front(L2), Last(M)) => O2.failed
         /\ ~ Refused(Front(L2), Last(M)) =>
               O2 = [buffer |-> Last(M), messages |-> Messages(Front(L2)), failed |-> FALSE]
    BY <2>2, <2>7, <2>9 DEF O2, L2
  <2>12. (D2.failed = O2.failed) /\ (~ O2.failed => D2 = O2) /\ IsPrefix(D2.messages, Messages(Front(L2)))
    <3>1. CASE Refused(F, r)
      <4>1. Refused(Front(L2), Last(M))
        <5>1. Refused(Front(LinesOf(T \o c)), Last(LinesOf(T \o c)))
          BY <2>2, <3>1, RefusedStays DEF F, r, L
        <5> QED BY <2>2, <2>7, <5>1 DEF L2
      <4>2. D.failed
        BY <2>4, <2>10, <3>1
      <4>3. D2 = D
        BY <2>3, <4>2, PushIs
      <4>4. D.failed \in BOOLEAN /\ D.messages \in Seq(Lines) /\ O2.failed \in BOOLEAN
        BY <2>2, <2>3, NewDecoderType, PushIs DEF Decoders, O2
      <4>5. IsPrefix(D.messages, Messages(Front(L2)))
        BY <2>4, <2>8, <4>4, PrefixOfJoined
      <4> QED BY <2>11, <4>1, <4>2, <4>3, <4>4, <4>5
    <3>2. CASE ~ Refused(F, r)
      <4>1. D = [buffer |-> r, messages |-> Messages(F), failed |-> FALSE]
        BY <2>4, <2>10, <3>2
      <4>2. D.buffer = r /\ D.messages = Messages(F) /\ ~ D.failed
        BY <4>1
      <4>3. Refused(Front(L2), Last(M)) <=> Refused(G, Last(M))
        <5>1. ~ \E n \in 1..Len(F) : Unfit(F[n])
          <6>1. DOMAIN F = 1..Len(F)
            BY <2>5
          <6> QED BY <3>2, <6>1 DEF Refused, Unfit
        <5>2. Refused(Front(F \o M), Last(F \o M))
                <=> (\E n \in 1..Len(F) : Unfit(F[n])) \/ Refused(Front(M), Last(M))
          BY <2>5, <2>6, RefusedJoined
        <5> QED BY <2>6, <2>7, <5>1, <5>2 DEF G
      <4>4. /\ Refused(G, Last(M)) => D2 = [D EXCEPT !.failed = TRUE]
            /\ ~ Refused(G, Last(M)) =>
                  D2 = [buffer |-> Last(M), messages |-> Messages(F) \o Messages(G), failed |-> FALSE]
        BY <2>3, <4>2, PushIs DEF M, G
      <4>5. CASE Refused(G, Last(M))
        <5>1. D2.messages = Messages(F) /\ D2.failed = TRUE
          BY <4>1, <4>4, <4>5
        <5>2. IsPrefix(Messages(F), Messages(F) \o Messages(G))
          BY <2>8, PrefixOfItself, PrefixOfJoined
        <5>3. O2.failed = TRUE
          <6>1. O2.failed \in BOOLEAN
            BY <2>2, NewDecoderType, PushIs DEF Decoders, O2
          <6> QED BY <2>11, <4>3, <4>5, <6>1
        <5> QED BY <2>8, <5>1, <5>2, <5>3
      <4>6. CASE ~ Refused(G, Last(M))
        <5>1. D2 = O2
          BY <2>8, <2>11, <4>3, <4>4, <4>6
        <5>2. D2.messages = Messages(Front(L2))
          BY <2>8, <4>4, <4>6
        <5>3. Messages(Front(L2)) \in Seq(Lines)
          BY <2>8, ConcatProperties
        <5>4. IsPrefix(D2.messages, Messages(Front(L2)))
          BY <5>2, <5>3, PrefixOfItself
        <5> QED BY <5>1, <5>4
      <4> QED BY <4>5, <4>6
    <3> QED BY <3>1, <3>2
  <2>13. ChunksDoNotMatter(Append(cs, c))
    BY <2>12 DEF ChunksDoNotMatter, D2, O2, L2, T2
  <2> QED BY <2>1, <2>13
<1>3. chunks \in Good
  <2> HIDE DEF Good
  <2> QED BY <1>1, <1>2, SequenceInduction
<1> QED BY <1>3

(*****************************************************************************)
(* The sanitizer of terminal output.  The machine is at rest where a token of *)
(* the grammar begins, by induction from the end of the stream to its        *)
(* beginning it gives up what the grammar shows.                             *)
(*****************************************************************************)

Streams == Seq(Characters)
Machines == [at : {"normal", "escape", "csi", "osc", "osc-escape"}, held : BOOLEAN, out : Streams]

LEMMA GivenIs ==
    ASSUME NEW m \in Machines
    PROVE  /\ Given(m) \in Machines /\ Given(m).at = m.at /\ Given(m).held = FALSE
           /\ Given(m).out = IF m.held THEN Append(m.out, "lf") ELSE m.out
<1>1. m.held \in BOOLEAN /\ m.out \in Streams /\ m.at \in {"normal", "escape", "csi", "osc", "osc-escape"}
  BY DEF Machines
<1>2. CASE ~ m.held
  <2>1. Given(m) = m
    BY <1>2 DEF Given
  <2>2. m.held = FALSE
    BY <1>1, <1>2
  <2> QED BY <1>2, <2>1, <2>2
<1>3. CASE m.held
  <2> DEFINE o == Append(m.out, "lf")
             x == [m EXCEPT !.out = o]
  <2>1. o \in Streams
    BY <1>1 DEF Streams, Characters
  <2>2. Given(m) = [x EXCEPT !.held = FALSE]
    BY <1>3 DEF Given
  <2> HIDE DEF o
  <2>3. x \in Machines /\ x.at = m.at /\ x.out = o
    BY <2>1 DEF Machines
  <2> HIDE DEF x
  <2>4. [x EXCEPT !.held = FALSE] \in Machines /\ [x EXCEPT !.held = FALSE].at = x.at
        /\ [x EXCEPT !.held = FALSE].out = x.out /\ [x EXCEPT !.held = FALSE].held = FALSE
    BY <2>3 DEF Machines
  <2> QED BY <1>3, <2>2, <2>3, <2>4 DEF o
<1> QED BY <1>2, <1>3

\* Outside of a sequence
LEMMA NormalIs ==
    ASSUME NEW m \in Machines, m.at = "normal", NEW c \in Characters
    PROVE  /\ Pushed(m, c) \in Machines /\ Given(m).out \in Streams
           /\ c = "lf" /\ m.held =>
                 Pushed(m, c).at = "normal" /\ ~ Pushed(m, c).held /\ Pushed(m, c).out = Append(m.out, "lf")
           /\ c = "esc" => Pushed(m, c).at = "escape" /\ ~ Pushed(m, c).held /\ Pushed(m, c).out = Given(m).out
           /\ c = "cr" => Pushed(m, c).at = "normal" /\ Pushed(m, c).held /\ Pushed(m, c).out = Given(m).out
           /\ c \notin {"esc", "cr"} /\ ~ (c = "lf" /\ m.held) =>
                 /\ Pushed(m, c).at = "normal" /\ ~ Pushed(m, c).held
                 /\ Pushed(m, c).out = IF Kept(c) THEN Append(Given(m).out, c) ELSE Given(m).out
<1> DEFINE g == Given(m)
           y == Pushed(m, c)
<1>1. /\ g \in Machines /\ g.at = "normal" /\ g.held = FALSE
      /\ g.out = IF m.held THEN Append(m.out, "lf") ELSE m.out
  BY GivenIs
<1>2. g.out \in Streams
  BY <1>1 DEF Machines
<1>3. y = Normal(m, c)
  BY DEF Pushed
<1>4. c = "lf" /\ m.held => y = g
  BY <1>3 DEF Normal
<1>5. c = "esc" => y = [g EXCEPT !.at = "escape"]
  BY <1>3 DEF Normal
<1>6. c = "cr" => y = [g EXCEPT !.held = TRUE]
  BY <1>3 DEF Normal
<1>7. c \notin {"esc", "cr"} /\ ~ (c = "lf" /\ m.held) => y = IF Kept(c) THEN [g EXCEPT !.out = Append(@, c)] ELSE g
  BY <1>3 DEF Normal
<1> HIDE DEF g, y
<1>8. c = "esc" => y \in Machines /\ y.at = "escape" /\ ~ y.held /\ y.out = g.out
  BY <1>1, <1>5 DEF Machines
<1>9. c = "cr" => y \in Machines /\ y.at = "normal" /\ y.held /\ y.out = g.out
  BY <1>1, <1>6 DEF Machines
<1>10. c \notin {"esc", "cr"} /\ ~ (c = "lf" /\ m.held) =>
         /\ y \in Machines /\ y.at = "normal" /\ ~ y.held
         /\ y.out = IF Kept(c) THEN Append(g.out, c) ELSE g.out
  <2>1. Append(g.out, c) \in Streams
    BY <1>2 DEF Streams
  <2> DEFINE o == Append(g.out, c)
  <2> HIDE DEF o
  <2>2. [g EXCEPT !.out = o] \in Machines /\ [g EXCEPT !.out = o].at = g.at /\ [g EXCEPT !.out = o].held = g.held
        /\ [g EXCEPT !.out = o].out = o
    BY <1>1, <2>1 DEF Machines, o
  <2>3. CASE Kept(c)
    BY <1>1, <1>7, <2>2, <2>3 DEF o
  <2>4. CASE ~ Kept(c)
    BY <1>1, <1>7, <2>4
  <2> QED BY <2>3, <2>4
<1>11. c = "lf" /\ m.held => y \in Machines /\ y.at = "normal" /\ ~ y.held /\ y.out = Append(m.out, "lf")
  BY <1>1, <1>4
<1>12. y \in Machines
  BY <1>8, <1>9, <1>10, <1>11
<1> QED BY <1>2, <1>8, <1>9, <1>10, <1>11, <1>12 DEF g, y

\* Within a sequence
LEMMA WithinIs ==
    ASSUME NEW m \in Machines, m.at # "normal", NEW c \in Characters
    PROVE  /\ Pushed(m, c) \in Machines /\ Pushed(m, c).held = m.held /\ Pushed(m, c).out = m.out
           /\ m.at = "escape" => Pushed(m, c).at = AfterEscape(c)
           /\ m.at = "csi" => Pushed(m, c).at = AfterControl(c)
           /\ m.at = "osc" => Pushed(m, c).at = AfterCommand(c)
           /\ m.at = "osc-escape" => Pushed(m, c).at = AfterCommandEscape(c)
<1> DEFINE At == {"normal", "escape", "csi", "osc", "osc-escape"}
<1>1. m.at \in {"escape", "csi", "osc", "osc-escape"}
  BY DEF Machines
<1>2. ASSUME NEW a \in At
      PROVE  [m EXCEPT !.at = a] \in Machines /\ [m EXCEPT !.at = a].held = m.held
             /\ [m EXCEPT !.at = a].out = m.out /\ [m EXCEPT !.at = a].at = a
  BY DEF Machines
<1>3. AfterEscape(c) \in At /\ AfterControl(c) \in At
  BY DEF AfterEscape, AfterControl, Characters
<1>4. AfterCommand(c) \in At /\ AfterCommandEscape(c) \in At
  BY DEF AfterCommand, AfterCommandEscape, Characters
<1>5. /\ m.at = "escape" => Pushed(m, c) = [m EXCEPT !.at = AfterEscape(c)]
      /\ m.at = "csi" => Pushed(m, c) = [m EXCEPT !.at = AfterControl(c)]
      /\ m.at = "osc" => Pushed(m, c) = [m EXCEPT !.at = AfterCommand(c)]
      /\ m.at = "osc-escape" => Pushed(m, c) = [m EXCEPT !.at = AfterCommandEscape(c)]
  BY DEF Pushed
<1> DEFINE y == Pushed(m, c)
<1>6. \A a \in At : y = [m EXCEPT !.at = a] => y \in Machines /\ y.held = m.held /\ y.out = m.out /\ y.at = a
  BY <1>2
<1>7. /\ m.at = "escape" => y = [m EXCEPT !.at = AfterEscape(c)]
      /\ m.at = "csi" => y = [m EXCEPT !.at = AfterControl(c)]
      /\ m.at = "osc" => y = [m EXCEPT !.at = AfterCommand(c)]
      /\ m.at = "osc-escape" => y = [m EXCEPT !.at = AfterCommandEscape(c)]
  BY <1>5
<1> HIDE DEF y, At
<1>8. CASE m.at = "escape"
  BY <1>3, <1>6, <1>7, <1>8 DEF y
<1>9. CASE m.at = "csi"
  BY <1>3, <1>6, <1>7, <1>9 DEF y
<1>10. CASE m.at = "osc"
  BY <1>4, <1>6, <1>7, <1>10 DEF y
<1>11. CASE m.at = "osc-escape"
  BY <1>4, <1>6, <1>7, <1>11 DEF y
<1> QED BY <1>1, <1>8, <1>9, <1>10, <1>11

-----------------------------------------------------------------------------
\* m is the machine after each character of raw.
RunOf(m, raw) ==
    /\ m \in [0..Len(raw) -> Machines] /\ m[0] = Start
    /\ \A n \in 1..Len(raw) : m[n] = Pushed(m[n - 1], raw[n])

LEMMA StartType == Start \in Machines
  BY DEF Start, Machines, Streams

LEMMA PushedType == ASSUME NEW m \in Machines, NEW c \in Characters PROVE Pushed(m, c) \in Machines
  BY NormalIs, WithinIs

LEMMA MachineRuns == ASSUME NEW raw \in Streams PROVE RunOf(Machine(raw), raw)
<1> DEFINE N == Len(raw)
           step == [x \in Machines \X (1..N) |-> Pushed(x[1], raw[x[2]])]
           g == Machine(raw)
<1>1. N \in Nat /\ \A n \in 1..N : raw[n] \in Characters
  BY DEF Streams
<1>2. step \in [Machines \X (1..N) -> Machines]
  <2>1. ASSUME NEW x \in Machines \X (1..N) PROVE Pushed(x[1], raw[x[2]]) \in Machines
    BY <1>1, PushedType
  <2> QED BY <2>1
<1>3. \A d \in Machines, n \in 1..N : step[d, n] = Pushed(d, raw[n])
  OBVIOUS
<1> HIDE DEF N, step
<1>4. PICK f : Iterates(f, N, Start, step, Machines)
  BY <1>1, <1>2, StartType, IterationExists
<1>5. \A n \in 1..N : n \in 0..N /\ n - 1 \in 0..N /\ n # 0 /\ 0 \in 0..N
  BY <1>1
<1>6. f \in [0..N -> Machines] /\ f[0] = Start /\ \A n \in 1..N : f[n] = Pushed(f[n - 1], raw[n])
  BY <1>3, <1>4, <1>5 DEF Iterates
<1>7. f = [n \in 0..N |-> IF n = 0 THEN Start ELSE Pushed(f[n - 1], raw[n])]
  <2>1. \A n \in 0..N : n # 0 => n \in 1..N
    BY <1>1
  <2> QED BY <1>6, <2>1
<1>8. g = [n \in 0..N |-> IF n = 0 THEN Start ELSE Pushed(g[n - 1], raw[n])]
  BY <1>7 DEF Machine, N
<1> HIDE DEF g
<1>9. 0 \in 0..N
  BY <1>1
<1>10. g[0] = Start /\ \A n \in 1..N : g[n] = Pushed(g[n - 1], raw[n])
  BY <1>5, <1>8, <1>9
<1>11. GoAlike(f, g, N)
  BY <1>6, <1>10 DEF GoAlike, Alike
<1>12. \A n \in 0..N : f[n] = g[n]
  BY <1>1, <1>11, IterationsAgree
<1>13. g \in [0..N -> Machines]
  BY <1>6, <1>8, <1>12
<1> QED BY <1>10, <1>13 DEF RunOf, N, g

LEMMA FirstOfIs ==
    ASSUME NEW raw \in Streams, NEW ends \in SUBSET (1..Len(raw))
    PROVE  /\ ends = {} => FirstOf(ends, raw) = Len(raw)
           /\ ends # {} => FirstOf(ends, raw) \in ends /\ \A j \in ends : FirstOf(ends, raw) <= j
<1>1. ASSUME ends # {} PROVE \E k \in ends : \A j \in ends : k <= j
  <2>1. ends \in SUBSET Nat
    OBVIOUS
  <2> QED BY <1>1, <2>1, LeastElement
<1> QED BY <1>1 DEF FirstOf

\* What has not changed from n to k
Still(m, n, k) == m[k].held = m[n].held /\ m[k].out = m[n].out

LEMMA StepWithin ==
    ASSUME NEW raw \in Streams, NEW m, RunOf(m, raw), NEW k \in 1..Len(raw), m[k - 1].at # "normal"
    PROVE  /\ Still(m, k - 1, k) /\ raw[k] \in Characters /\ k - 1 \in 0..Len(raw)
           /\ m[k - 1].at = "escape" => m[k].at = AfterEscape(raw[k])
           /\ m[k - 1].at = "csi" => m[k].at = AfterControl(raw[k])
           /\ m[k - 1].at = "osc" => m[k].at = AfterCommand(raw[k])
           /\ m[k - 1].at = "osc-escape" => m[k].at = AfterCommandEscape(raw[k])
<1>1. Len(raw) \in Nat /\ raw[k] \in Characters /\ k - 1 \in 0..Len(raw)
  BY DEF Streams
<1>2. m[k - 1] \in Machines /\ m[k] = Pushed(m[k - 1], raw[k])
  BY <1>1 DEF RunOf
<1> DEFINE x == m[k - 1]
           c == raw[k]
<1>3. x \in Machines /\ x.at # "normal" /\ c \in Characters /\ m[k] = Pushed(x, c)
  BY <1>1, <1>2
<1> HIDE DEF x, c
<1>4. /\ Pushed(x, c).held = x.held /\ Pushed(x, c).out = x.out
      /\ x.at = "escape" => Pushed(x, c).at = AfterEscape(c)
      /\ x.at = "csi" => Pushed(x, c).at = AfterControl(c)
      /\ x.at = "osc" => Pushed(x, c).at = AfterCommand(c)
      /\ x.at = "osc-escape" => Pushed(x, c).at = AfterCommandEscape(c)
  BY <1>3, WithinIs
<1> QED BY <1>1, <1>3, <1>4 DEF x, c, Still

\* A control sequence goes on until its final character.
LEMMA ControlPasses ==
    ASSUME NEW raw \in Streams, NEW m, RunOf(m, raw), NEW n \in 1..Len(raw), n < Len(raw),
           m[n].at = "escape", raw[n + 1] = "["
    PROVE  LET e == FirstOf(ControlEnds(raw, n), raw)
           IN e \in n..Len(raw) /\ Still(m, n, e) /\ (m[e].at = "normal" \/ e = Len(raw))
<1> DEFINE N == Len(raw)
           ends == ControlEnds(raw, n)
           e == FirstOf(ends, raw)
           Open(k) == \A j \in ends : ~ (j <= k)
           T == {k \in (n + 1)..N : Open(k) => m[k].at = "csi" /\ Still(m, n, k)}
<1>0. N \in Nat /\ n \in Nat /\ n + 1 \in 1..N /\ n + 1 \in Nat /\ ends \subseteq (n + 2)..N
  BY DEF Streams, ControlEnds
<1>1. n + 1 \in T
  <2>1. m[(n + 1) - 1].at = "escape" /\ (n + 1) - 1 = n
    BY <1>0
  <2>2. Still(m, n, n + 1) /\ m[n + 1].at = AfterEscape("[")
    BY <1>0, <2>1, StepWithin
  <2> QED BY <1>0, <2>2 DEF AfterEscape
<1>2. ASSUME NEW k \in ((n + 1) + 1)..N, k - 1 \in T PROVE k \in T
  <2>1. k \in 1..N /\ k - 1 \in (n + 1)..N /\ k \in (n + 2)..N /\ k \in (n + 1)..N
    BY <1>0
  <2>2. ASSUME Open(k) PROVE m[k].at = "csi" /\ Still(m, n, k)
    <3>1. Open(k - 1) /\ k \notin ends
      BY <1>0, <2>1, <2>2
    <3>2. m[k - 1].at = "csi" /\ Still(m, n, k - 1)
      BY <1>2, <3>1
    <3>3. Still(m, k - 1, k) /\ m[k].at = AfterControl(raw[k])
      BY <2>1, <3>2, StepWithin
    <3>4. raw[k] \notin Finals
      BY <2>1, <3>1 DEF ControlEnds
    <3> QED BY <3>2, <3>3, <3>4 DEF AfterControl, Still
  <2> QED BY <2>1, <2>2
<1>3. (n + 1)..N \subseteq T
  <2> HIDE DEF T, N
  <2> QED BY <1>0, <1>1, <1>2, Climb
<1>4. ends \in SUBSET (1..N)
  BY <1>0
<1>5. /\ ends = {} => e = N
      /\ ends # {} => e \in ends /\ \A j \in ends : e <= j
  BY <1>4, FirstOfIs
<1> HIDE DEF e, ends
<1>6. CASE ends = {}
  <2>1. N \in (n + 1)..N /\ Open(N)
    BY <1>0, <1>6
  <2>2. Still(m, n, N)
    BY <1>3, <2>1
  <2> QED BY <1>0, <1>5, <1>6, <2>2 DEF e, ends
<1>7. CASE ends # {}
  <2>1. e \in (n + 2)..N /\ e - 1 \in (n + 1)..N /\ e \in 1..N /\ raw[e] \in Finals
    BY <1>0, <1>5, <1>7 DEF ends, ControlEnds
  <2>2. Open(e - 1)
    BY <1>0, <1>5, <1>7, <2>1
  <2>3. m[e - 1].at = "csi" /\ Still(m, n, e - 1)
    BY <1>3, <2>1, <2>2
  <2>4. Still(m, e - 1, e) /\ m[e].at = AfterControl(raw[e])
    BY <2>1, <2>3, StepWithin
  <2>5. m[e].at = "normal" /\ Still(m, n, e)
    BY <2>1, <2>3, <2>4 DEF AfterControl, Still
  <2> QED BY <1>0, <2>1, <2>5 DEF e, ends
<1> QED BY <1>6, <1>7

\* A command goes on until BEL, or ESC with a backslash after it.
LEMMA CommandPasses ==
    ASSUME NEW raw \in Streams, NEW m, RunOf(m, raw), NEW n \in 1..Len(raw), n < Len(raw),
           m[n].at = "escape", raw[n + 1] = "]"
    PROVE  LET e == FirstOf(CommandEnds(raw, n), raw)
           IN e \in n..Len(raw) /\ Still(m, n, e) /\ (m[e].at = "normal" \/ e = Len(raw))
<1> DEFINE N == Len(raw)
           ends == CommandEnds(raw, n)
           e == FirstOf(ends, raw)
           Open(k) == \A j \in ends : ~ (j <= k)
           Escaped(k) == k > n + 1 /\ raw[k] = "esc"
           T == {k \in (n + 1)..N :
                   Open(k) => m[k].at = (IF Escaped(k) THEN "osc-escape" ELSE "osc") /\ Still(m, n, k)}
<1>0. N \in Nat /\ n \in Nat /\ n + 1 \in 1..N /\ n + 1 \in Nat /\ ends \subseteq (n + 2)..N
  BY DEF Streams, CommandEnds
<1>1. n + 1 \in T
  <2>1. m[(n + 1) - 1].at = "escape" /\ (n + 1) - 1 = n
    BY <1>0
  <2>2. Still(m, n, n + 1) /\ m[n + 1].at = AfterEscape("]")
    BY <1>0, <2>1, StepWithin
  <2>3. ~ Escaped(n + 1)
    BY <1>0
  <2> QED BY <1>0, <2>2, <2>3 DEF AfterEscape
\* One more character
<1>2. ASSUME NEW k \in (n + 2)..N,
             m[k - 1].at = (IF Escaped(k - 1) THEN "osc-escape" ELSE "osc")
      PROVE  /\ Still(m, k - 1, k)
             /\ k \in ends => m[k].at = "normal"
             /\ k \notin ends => m[k].at = (IF Escaped(k) THEN "osc-escape" ELSE "osc")
  <2>1. k \in 1..N /\ (k - 1 > n + 1 <=> k > n + 2) /\ k > n + 1
    BY <1>0
  <2>2. k \in ends <=> IF Escaped(k - 1) THEN raw[k] = "\\" ELSE raw[k] = "bel"
    BY <2>1 DEF CommandEnds
  <2>3. Still(m, k - 1, k)
    BY <1>2, <2>1, StepWithin
  <2>4. CASE Escaped(k - 1)
    <3>1. m[k].at = AfterCommandEscape(raw[k])
      BY <1>2, <2>1, <2>4, StepWithin
    <3> QED BY <2>1, <2>2, <2>3, <2>4, <3>1 DEF AfterCommandEscape
  <2>5. CASE ~ Escaped(k - 1)
    <3>1. m[k].at = AfterCommand(raw[k])
      BY <1>2, <2>1, <2>5, StepWithin
    <3> QED BY <2>1, <2>2, <2>3, <2>5, <3>1 DEF AfterCommand
  <2> QED BY <2>4, <2>5
<1>3. ASSUME NEW k \in ((n + 1) + 1)..N, k - 1 \in T PROVE k \in T
  <2>1. k \in (n + 2)..N /\ k - 1 \in (n + 1)..N /\ k \in (n + 1)..N
    BY <1>0
  <2>2. ASSUME Open(k) PROVE m[k].at = (IF Escaped(k) THEN "osc-escape" ELSE "osc") /\ Still(m, n, k)
    <3>1. Open(k - 1) /\ k \notin ends
      BY <1>0, <2>1, <2>2
    <3>2. m[k - 1].at = (IF Escaped(k - 1) THEN "osc-escape" ELSE "osc") /\ Still(m, n, k - 1)
      BY <1>3, <3>1
    <3> QED BY <1>2, <2>1, <3>1, <3>2 DEF Still
  <2> QED BY <2>1, <2>2
<1>4. (n + 1)..N \subseteq T
  <2> HIDE DEF T, N
  <2> QED BY <1>0, <1>1, <1>3, Climb
<1>5. ends \in SUBSET (1..N)
  BY <1>0
<1>6. /\ ends = {} => e = N
      /\ ends # {} => e \in ends /\ \A j \in ends : e <= j
  BY <1>5, FirstOfIs
<1> HIDE DEF e, ends
<1>7. CASE ends = {}
  <2>1. N \in (n + 1)..N /\ Open(N)
    BY <1>0, <1>7
  <2>2. Still(m, n, N)
    BY <1>4, <2>1
  <2> QED BY <1>0, <1>6, <1>7, <2>2 DEF e, ends
<1>8. CASE ends # {}
  <2>1. e \in ends /\ e \in (n + 2)..N /\ e - 1 \in (n + 1)..N
    <3>1. e \in ends
      BY <1>6, <1>8
    <3>2. e \in (n + 2)..N
      BY <3>1 DEF ends, CommandEnds
    <3> QED BY <1>0, <3>1, <3>2
  <2>2. Open(e - 1)
    BY <1>0, <1>6, <1>8, <2>1
  <2>3. m[e - 1].at = (IF Escaped(e - 1) THEN "osc-escape" ELSE "osc") /\ Still(m, n, e - 1)
    BY <1>4, <2>1, <2>2
  <2>4. Still(m, e - 1, e) /\ m[e].at = "normal"
    BY <1>2, <2>1, <2>3
  <2>5. Still(m, n, e)
    BY <2>3, <2>4 DEF Still
  <2> QED BY <1>0, <2>1, <2>4, <2>5 DEF e, ends
<1> QED BY <1>7, <1>8

LEMMA TokenEndIs ==
    ASSUME NEW raw \in Streams, NEW n \in 1..Len(raw)
    PROVE  /\ TokenEnd(raw, n) \in n..Len(raw)
           /\ raw[n] \notin {"cr", "esc"} => TokenEnd(raw, n) = n
           /\ n = Len(raw) => TokenEnd(raw, n) = n
           /\ raw[n] = "cr" /\ n < Len(raw) => TokenEnd(raw, n) = IF raw[n + 1] = "lf" THEN n + 1 ELSE n
           /\ raw[n] = "esc" /\ n < Len(raw) =>
                /\ raw[n + 1] = "[" => TokenEnd(raw, n) = FirstOf(ControlEnds(raw, n), raw)
                /\ raw[n + 1] = "]" => TokenEnd(raw, n) = FirstOf(CommandEnds(raw, n), raw)
                /\ raw[n + 1] \notin {"[", "]"} => TokenEnd(raw, n) = n + 1
<1>1. Len(raw) \in Nat /\ n \in Nat /\ raw[n] \in Characters /\ (n < Len(raw) => raw[n + 1] \in Characters)
  BY DEF Streams
<1>2. raw[n] \notin {"cr", "esc"} => TokenEnd(raw, n) = n
  BY DEF TokenEnd
<1>3. n = Len(raw) => TokenEnd(raw, n) = n
  BY <1>1 DEF TokenEnd
<1>4. raw[n] = "cr" /\ n < Len(raw) => TokenEnd(raw, n) = IF raw[n + 1] = "lf" THEN n + 1 ELSE n
  BY DEF TokenEnd
<1>5. ASSUME raw[n] = "esc", n < Len(raw)
      PROVE  /\ raw[n + 1] = "[" => TokenEnd(raw, n) = FirstOf(ControlEnds(raw, n), raw)
             /\ raw[n + 1] = "]" => TokenEnd(raw, n) = FirstOf(CommandEnds(raw, n), raw)
             /\ raw[n + 1] \notin {"[", "]"} => TokenEnd(raw, n) = n + 1
  <2>1. raw[n + 1] = "[" => TokenEnd(raw, n) = FirstOf(ControlEnds(raw, n), raw)
    BY <1>5 DEF TokenEnd
  <2>2. raw[n + 1] = "]" => TokenEnd(raw, n) = FirstOf(CommandEnds(raw, n), raw)
    BY <1>5 DEF TokenEnd
  <2>3. raw[n + 1] \notin {"[", "]"} => TokenEnd(raw, n) = n + 1
    <3>1. raw[n + 1] # "none"
      BY <1>1, <1>5 DEF Characters
    <3> QED BY <1>5, <3>1 DEF TokenEnd
  <2> QED BY <2>1, <2>2, <2>3
<1>6. ASSUME NEW ends \in SUBSET ((n + 2)..Len(raw)) PROVE FirstOf(ends, raw) \in n..Len(raw)
  <2>1. ends \in SUBSET (1..Len(raw))
    BY <1>1
  <2>2. CASE ends = {}
    BY <1>1, <2>1, <2>2, FirstOfIs
  <2>3. CASE ends # {}
    <3>1. FirstOf(ends, raw) \in ends
      BY <2>1, <2>3, FirstOfIs
    <3>2. FirstOf(ends, raw) \in (n + 2)..Len(raw)
      BY <3>1
    <3> QED BY <1>1, <3>2
  <2> QED BY <2>2, <2>3
<1>7. FirstOf(ControlEnds(raw, n), raw) \in n..Len(raw)
  BY <1>6 DEF ControlEnds
<1>8. FirstOf(CommandEnds(raw, n), raw) \in n..Len(raw)
  BY <1>6 DEF CommandEnds
<1>9. TokenEnd(raw, n) \in n..Len(raw)
  <2>1. n \in n..Len(raw) /\ (n < Len(raw) => n + 1 \in n..Len(raw)) /\ (n < Len(raw) \/ n = Len(raw))
    BY <1>1
  <2>2. CASE raw[n] \notin {"cr", "esc"} \/ n = Len(raw)
    BY <1>2, <1>3, <2>1, <2>2
  <2>3. CASE raw[n] = "cr" /\ n < Len(raw)
    BY <1>4, <2>1, <2>3
  <2>4. CASE raw[n] = "esc" /\ n < Len(raw)
    BY <1>5, <1>7, <1>8, <2>1, <2>4
  <2> QED BY <2>1, <2>2, <2>3, <2>4
<1> QED BY <1>2, <1>3, <1>4, <1>5, <1>9

LEMMA ShownIs ==
    ASSUME NEW c \in Characters
    PROVE  /\ Shown(c) \in Streams /\ Shown("cr") = <<"lf">> /\ Shown("esc") = <<>>
           /\ c \notin {"cr", "esc"} => Shown(c) = IF Kept(c) THEN <<c>> ELSE <<>>
<1>1. <<"lf">> \in Streams /\ <<>> \in Streams /\ <<c>> \in Streams
  BY DEF Streams, Characters
<1> QED BY <1>1 DEF Shown, Kept

LEMMA JoinOne ==
    ASSUME NEW s \in Streams, NEW c \in Characters
    PROVE  s \o <<c>> = Append(s, c) /\ s \o <<>> = s /\ Append(s, c) \in Streams
<1>1. s \in Seq(Characters) /\ s \o <<>> = s
  BY ConcatEmptySeq DEF Streams
<1>2. s \o <<c>> = Append(s, c)
  BY <1>1, AppendIsConcat
<1> QED BY <1>1, <1>2, AppendProperties DEF Streams

\* A token may begin at n.
Begins(m, raw, n) ==
    m[n - 1].at = "normal" /\ ~ (m[n - 1].held /\ n <= Len(raw) /\ raw[n] = "lf")

\* What is given up for a token is what the grammar shows of it.
LEMMA TokenIs ==
    ASSUME NEW raw \in Streams, NEW m, RunOf(m, raw), NEW n \in 1..Len(raw), Begins(m, raw, n)
    PROVE  LET e == TokenEnd(raw, n)
           IN /\ Given(m[e]).out = Given(m[n - 1]).out \o Shown(raw[n])
              /\ e = Len(raw) \/ Begins(m, raw, e + 1)
<1> DEFINE N == Len(raw)
           x == m[n - 1]
           c == raw[n]
           G == Given(x).out
           e == TokenEnd(raw, n)
           Goal(k) == Given(m[k]).out = G \o Shown(c) /\ (k = N \/ Begins(m, raw, k + 1))
<1>1. N \in Nat /\ n \in Nat /\ n - 1 \in 0..N /\ n \in 0..N /\ c \in Characters
  BY DEF Streams
<1>2. /\ x \in Machines /\ x.at = "normal" /\ ~ (x.held /\ c = "lf") /\ m[n] = Pushed(x, c)
      /\ \A k \in 0..N : m[k] \in Machines
  BY <1>1 DEF RunOf, Begins
<1>3. G \in Streams /\ m[n] \in Machines
  BY <1>1, <1>2, NormalIs
<1>4. G \o <<>> = G /\ G \o <<c>> = Append(G, c) /\ G \o <<"lf">> = Append(G, "lf")
  <2>1. "lf" \in Characters
    BY DEF Characters
  <2> QED BY <1>1, <1>3, <2>1, JoinOne
<1>5. ASSUME NEW k \in 0..N, ~ m[k].held PROVE Given(m[k]).out = m[k].out
  BY <1>2, <1>5, GivenIs
<1>6. ASSUME NEW k \in 1..N, ~ m[k].held, m[k].out = G \o Shown(c), k = N \/ m[k].at = "normal" PROVE Goal(k)
  <2>1. k \in 0..N /\ (k + 1) - 1 = k
    BY <1>1
  <2> QED BY <1>5, <1>6, <2>1 DEF Begins
<1>7. CASE c = "cr"
  <2>1. m[n].at = "normal" /\ m[n].held /\ m[n].out = G
    BY <1>1, <1>2, <1>7, NormalIs
  <2>2. G \o Shown(c) = Append(G, "lf")
    BY <1>1, <1>4, <1>7, ShownIs
  <2>3. CASE n < N /\ raw[n + 1] = "lf"
    <3>1. e = n + 1 /\ n + 1 \in 1..N /\ (n + 1) - 1 = n
      BY <1>1, <1>7, <2>3, TokenEndIs
    <3>2. m[n + 1] = Pushed(m[n], "lf") /\ "lf" \in Characters
      BY <2>3, <3>1 DEF RunOf, Characters
    <3>3. m[n + 1].at = "normal" /\ ~ m[n + 1].held /\ m[n + 1].out = Append(m[n].out, "lf")
      <4> DEFINE y == m[n]
                 z == m[n + 1]
      <4>1. y \in Machines /\ y.at = "normal" /\ y.held /\ z = Pushed(y, "lf") /\ "lf" \in Characters
        BY <1>3, <2>1, <3>2
      <4> HIDE DEF y, z
      <4>2. z.at = "normal" /\ ~ z.held /\ z.out = Append(y.out, "lf")
        BY <4>1, NormalIs
      <4> QED BY <4>2 DEF y, z
    <3>4. Goal(n + 1)
      BY <1>6, <2>1, <2>2, <3>1, <3>3
    <3> QED BY <3>1, <3>4
  <2>4. CASE ~ (n < N /\ raw[n + 1] = "lf")
    <3>1. e = n
      <4>1. n < N \/ n = N
        BY <1>1
      <4> QED BY <1>7, <2>4, <4>1, TokenEndIs
    <3>2. Given(m[n]).out = Append(G, "lf")
      BY <1>3, <2>1, GivenIs
    <3>3. n = N \/ Begins(m, raw, n + 1)
      <4>1. (n + 1) - 1 = n /\ (n + 1 <= N => n < N)
        BY <1>1
      <4> QED BY <2>1, <2>4, <4>1 DEF Begins
    <3> QED BY <2>2, <3>1, <3>2, <3>3
  <2> QED BY <2>3, <2>4
<1>8. CASE c = "esc"
  <2>1. m[n].at = "escape" /\ ~ m[n].held /\ m[n].out = G
    BY <1>1, <1>2, <1>8, NormalIs
  <2>2. G \o Shown(c) = G
    BY <1>1, <1>4, <1>8, ShownIs
  <2>3. CASE n = N
    <3>1. e = n
      BY <2>3, TokenEndIs
    <3>2. Goal(n)
      BY <1>6, <2>1, <2>2, <2>3
    <3> QED BY <3>1, <3>2
  <2>4. CASE n < N /\ raw[n + 1] \in {"[", "]"}
    <3>1. e \in 1..N /\ Still(m, n, e) /\ (m[e].at = "normal" \/ e = N)
      <4>1. CASE raw[n + 1] = "["
        <5>1. e = FirstOf(ControlEnds(raw, n), raw)
          BY <1>8, <2>4, <4>1, TokenEndIs
        <5>2. e \in n..N /\ Still(m, n, e) /\ (m[e].at = "normal" \/ e = N)
          BY <2>1, <2>4, <4>1, <5>1, ControlPasses
        <5> QED BY <1>1, <5>2
      <4>2. CASE raw[n + 1] = "]"
        <5>1. e = FirstOf(CommandEnds(raw, n), raw)
          BY <1>8, <2>4, <4>2, TokenEndIs
        <5>2. e \in n..N /\ Still(m, n, e) /\ (m[e].at = "normal" \/ e = N)
          BY <2>1, <2>4, <4>2, <5>1, CommandPasses
        <5> QED BY <1>1, <5>2
      <4> QED BY <2>4, <4>1, <4>2
    <3> HIDE DEF e
    <3>2. Goal(e)
      BY <1>6, <2>1, <2>2, <3>1 DEF Still
    <3> QED BY <3>2 DEF e
  <2>5. CASE n < N /\ raw[n + 1] \notin {"[", "]"}
    <3>1. e = n + 1 /\ n + 1 \in 1..N /\ (n + 1) - 1 = n
      BY <1>1, <1>8, <2>5, TokenEndIs
    <3>2. Still(m, n, n + 1) /\ m[n + 1].at = AfterEscape(raw[n + 1])
      BY <2>1, <3>1, StepWithin
    <3>3. m[n + 1].at = "normal"
      BY <2>5, <3>2 DEF AfterEscape
    <3>4. Goal(n + 1)
      BY <1>6, <2>1, <2>2, <3>1, <3>2, <3>3 DEF Still
    <3> QED BY <3>1, <3>4
  <2>6. n < N \/ n = N
    BY <1>1
  <2> QED BY <2>3, <2>4, <2>5, <2>6
<1>9. CASE c \notin {"cr", "esc"}
  <2>1. m[n].at = "normal" /\ ~ m[n].held /\ m[n].out = IF Kept(c) THEN Append(G, c) ELSE G
    BY SMTT(30), <1>1, <1>2, <1>9, NormalIs
  <2>2. G \o Shown(c) = IF Kept(c) THEN Append(G, c) ELSE G
    <3> HIDE DEF N, x, c, G, e
    <3> QED BY <1>1, <1>4, <1>9, ShownIs
  <2>3. e = n
    BY <1>9, TokenEndIs
  <2>4. Goal(n)
    BY <1>6, <2>1, <2>2
  <2> QED BY <2>3, <2>4
<1> QED
  <2> HIDE DEF N, x, c, e, Goal
  <2> QED BY <1>7, <1>8, <1>9

\* r is the text from each position, of the last k and beyond.
Tells(r, raw, k) ==
    /\ r \in [(Len(raw) + 1 - k)..(Len(raw) + 1) -> Streams] /\ r[Len(raw) + 1] = <<>>
    /\ \A n \in (Len(raw) + 1 - k)..Len(raw) : r[n] = Shown(raw[n]) \o r[TokenEnd(raw, n) + 1]

LEMMA TellsExists == ASSUME NEW raw \in Streams PROVE \E r : Tells(r, raw, Len(raw))
<1> DEFINE N == Len(raw)
           T == {k \in 0..N : \E r : Tells(r, raw, k)}
<1>0. N \in Nat /\ 0 \in Nat
  BY DEF Streams
<1>1. 0 \in T
  <2> DEFINE r == [n \in {N + 1} |-> <<>>]
  <2>1. N + 1 - 0 = N + 1 /\ (N + 1)..(N + 1) = {N + 1} /\ (N + 1)..N = {} /\ 0 \in 0..N
    BY <1>0
  <2>2. r \in [{N + 1} -> Streams] /\ r[N + 1] = <<>>
    BY DEF Streams
  <2> HIDE DEF r
  <2>3. Tells(r, raw, 0)
    BY <2>1, <2>2 DEF Tells
  <2> QED BY <2>1, <2>3
<1>2. ASSUME NEW k \in (0 + 1)..N, k - 1 \in T PROVE k \in T
  <2>1. PICK r : Tells(r, raw, k - 1)
    BY <1>2
  <2> DEFINE p == N + 1 - k
             end == TokenEnd(raw, p) + 1
             next == Shown(raw[p]) \o r[end]
             q == [n \in p..(N + 1) |-> IF n = p THEN next ELSE r[n]]
  <2>2. /\ p \in 1..N /\ N + 1 - (k - 1) = p + 1 /\ k \in 0..N /\ N + 1 # p /\ N + 1 \in p..(N + 1)
    BY <1>0
  <2>3. /\ r \in [(p + 1)..(N + 1) -> Streams] /\ r[N + 1] = <<>>
        /\ \A n \in (p + 1)..N : r[n] = Shown(raw[n]) \o r[TokenEnd(raw, n) + 1]
    BY <2>1, <2>2 DEF Tells
  <2>4. \A n \in p..N : n \in 1..N /\ TokenEnd(raw, n) \in n..N /\ n \in p..(N + 1)
    <3>1. \A n \in p..N : n \in 1..N /\ n \in p..(N + 1)
      BY <1>0, <2>2
    <3> QED BY <3>1, TokenEndIs
  <2>5. \A n \in p..N : TokenEnd(raw, n) + 1 \in (p + 1)..(N + 1)
    BY <1>0, <2>2, <2>4
  <2>6. next \in Streams
    <3>1. p \in p..N /\ raw[p] \in Characters
      BY <2>2 DEF Streams
    <3>2. r[end] \in Streams /\ Shown(raw[p]) \in Streams
      BY <2>3, <2>5, <3>1, ShownIs
    <3> HIDE DEF end
    <3> QED BY <3>2, ConcatProperties DEF Streams
  <2>7. \A n \in (p + 1)..(N + 1) : n \in p..(N + 1) /\ n # p
    BY <1>0, <2>2
  <2>8. \A n \in p..(N + 1) : n # p => n \in (p + 1)..(N + 1)
    BY <1>0, <2>2
  <2> HIDE DEF next
  <2>9. q \in [p..(N + 1) -> Streams]
    BY <2>3, <2>6, <2>8
  <2>10. q[N + 1] = <<>> /\ \A n \in (p + 1)..(N + 1) : q[n] = r[n]
    BY <2>2, <2>3, <2>7
  <2>11. q[p] = next
    BY <2>2
  <2> HIDE DEF q
  <2>12. ASSUME NEW n \in p..N PROVE q[n] = Shown(raw[n]) \o q[TokenEnd(raw, n) + 1]
    <3>1. q[TokenEnd(raw, n) + 1] = r[TokenEnd(raw, n) + 1]
      BY <2>5, <2>10
    <3>2. CASE n = p
      BY <2>11, <3>1, <3>2 DEF next
    <3>3. CASE n # p
      <4>1. n \in (p + 1)..N /\ n \in (p + 1)..(N + 1)
        BY <1>0, <2>2, <3>3
      <4> QED BY <2>3, <2>10, <3>1, <4>1
    <3> QED BY <3>2, <3>3
  <2>13. Tells(q, raw, k)
    BY <2>9, <2>10, <2>12 DEF Tells
  <2> QED BY <2>2, <2>13
<1>3. 0..N \subseteq T
  <2> HIDE DEF T, N
  <2> QED BY <1>0, <1>1, <1>2, Climb
<1>4. N \in 0..N
  BY <1>0
<1> QED BY <1>3, <1>4

TextSteps(raw) ==
    CHOOSE r : r = [n \in 1..(Len(raw) + 1) |->
                      IF n > Len(raw) THEN <<>> ELSE Shown(raw[n]) \o r[TokenEnd(raw, n) + 1]]

LEMMA TextIs ==
    ASSUME NEW raw \in Streams
    PROVE  /\ TextSteps(raw)[Len(raw) + 1] = <<>> /\ TextOf(raw) = TextSteps(raw)[1]
           /\ \A n \in 1..Len(raw) :
                TextSteps(raw)[n] = Shown(raw[n]) \o TextSteps(raw)[TokenEnd(raw, n) + 1]
<1> DEFINE N == Len(raw)
           g == TextSteps(raw)
<1>1. N \in Nat
  BY DEF Streams
<1>2. PICK r : Tells(r, raw, N)
  BY TellsExists
<1>3. /\ r \in [1..(N + 1) -> Streams] /\ r[N + 1] = <<>>
      /\ \A n \in 1..N : r[n] = Shown(raw[n]) \o r[TokenEnd(raw, n) + 1]
  <2>1. N + 1 - N = 1
    BY <1>1
  <2> QED BY <1>2, <2>1 DEF Tells
<1>4. r = [n \in 1..(N + 1) |-> IF n > N THEN <<>> ELSE Shown(raw[n]) \o r[TokenEnd(raw, n) + 1]]
  <2>1. \A n \in 1..(N + 1) : (n > N => n = N + 1) /\ (~ (n > N) => n \in 1..N)
    BY <1>1
  <2> HIDE DEF N
  <2> QED BY <1>3, <2>1
<1>5. g = [n \in 1..(N + 1) |-> IF n > N THEN <<>> ELSE Shown(raw[n]) \o g[TokenEnd(raw, n) + 1]]
  BY ZenonT(40), <1>4 DEF TextSteps
<1>6. TextOf(raw) = g[1]
  BY DEF TextOf, TextSteps
<1> HIDE DEF g
<1>7. N + 1 \in 1..(N + 1) /\ N + 1 > N /\ \A n \in 1..N : n \in 1..(N + 1) /\ ~ (n > N)
  BY <1>1
<1>8. g[N + 1] = <<>> /\ \A n \in 1..N : g[n] = Shown(raw[n]) \o g[TokenEnd(raw, n) + 1]
  <2> HIDE DEF N
  <2> QED BY <1>5, <1>7
<1> QED BY <1>6, <1>8 DEF g

\* What is captured of a stream of any length is its text.
LEMMA StreamSanitized == ASSUME NEW raw \in Streams PROVE SanitizedIsText(raw)
<1> DEFINE N == Len(raw)
           m == Machine(raw)
           g == TextSteps(raw)
           Says(n) == g[n] \in Streams
                      /\ (Begins(m, raw, n) => Given(m[N]).out = Given(m[n - 1]).out \o g[n])
           T == {k \in 0..N : Says(N + 1 - k)}
<1>1. N \in Nat
  BY DEF Streams
<1>2. RunOf(m, raw)
  BY MachineRuns
<1>3. /\ g[N + 1] = <<>> /\ TextOf(raw) = g[1]
      /\ \A n \in 1..N : g[n] = Shown(raw[n]) \o g[TokenEnd(raw, n) + 1]
  BY TextIs
<1> HIDE DEF m, g
<1>4. \A k \in 0..N : m[k] \in Machines /\ Given(m[k]).out \in Streams
  <2>1. \A k \in 0..N : m[k] \in Machines
    BY <1>2 DEF RunOf
  <2>2. \A x \in Machines : Given(x).out \in Streams
    BY GivenIs DEF Machines
  <2> QED BY <2>1, <2>2
<1>5. Says(N + 1)
  <2>1. (N + 1) - 1 = N /\ <<>> \in Streams /\ N \in 0..N
    BY <1>1 DEF Streams
  <2>2. Given(m[N]).out \o <<>> = Given(m[N]).out
    BY <1>4, <2>1, ConcatEmptySeq DEF Streams
  <2> QED BY <1>3, <2>1, <2>2
<1>6. ASSUME NEW n \in 1..N, Says(TokenEnd(raw, n) + 1) PROVE Says(n)
  <2> DEFINE e == TokenEnd(raw, n)
             a == Given(m[n - 1]).out
             b == Shown(raw[n])
             h == g[e + 1]
  <2>1. e \in n..N /\ e \in 0..N /\ n - 1 \in 0..N /\ (e + 1) - 1 = e /\ raw[n] \in Characters
    <3>1. e \in n..N
      BY TokenEndIs
    <3> QED BY <1>1, <3>1 DEF Streams
  <2>2. a \in Streams /\ b \in Streams /\ h \in Streams /\ g[n] = b \o h
    BY <1>3, <1>4, <1>6, <2>1, ShownIs
  <2>3. g[n] \in Streams
    <3> HIDE DEF b, h
    <3> QED BY <2>2, ConcatProperties DEF Streams
  <2>4. ASSUME Begins(m, raw, n) PROVE Given(m[N]).out = a \o g[n]
    <3>1. Given(m[e]).out = a \o b /\ (e = N \/ Begins(m, raw, e + 1))
      BY <1>2, <2>4, TokenIs
    <3>2. Given(m[N]).out = (a \o b) \o h
      <4>1. CASE e = N
        <5>1. h = <<>> /\ Given(m[N]).out = a \o b
          BY <1>3, <3>1, <4>1
        <5>2. a \o b \in Seq(Characters)
          BY <1>4, <2>1, <3>1 DEF Streams
        <5> HIDE DEF a, b, h
        <5> QED BY <5>1, <5>2, ConcatEmptySeq
      <4>2. CASE e # N
        <5>1. Begins(m, raw, e + 1)
          BY <3>1, <4>2
        <5> QED BY <1>6, <2>1, <3>1, <5>1
      <4> QED BY <4>1, <4>2
    <3>3. (a \o b) \o h = a \o (b \o h)
      <4> HIDE DEF a, b, h
      <4>1. a \in Seq(Characters) /\ b \in Seq(Characters) /\ h \in Seq(Characters)
        BY <2>2 DEF Streams
      <4>2. \A s, t, u \in Seq(Characters) : (s \o t) \o u = s \o (t \o u)
        BY SMTT(30), ConcatAssociative
      <4> QED BY <4>1, <4>2, Zenon
    <3> QED
      <4> HIDE DEF e, a, b, h, N, m, g, Says, T
      <4> QED BY <2>2, <3>2, <3>3
  <2> QED BY <2>3, <2>4
<1>7. ASSUME NEW k \in 0..N, \A j \in 0..N : j < k => j \in T PROVE k \in T
  <2>1. CASE k = 0
    <3>1. N + 1 - 0 = N + 1
      BY <1>1
    <3> QED BY <1>5, <2>1, <3>1
  <2>2. CASE k # 0
    <3> DEFINE n == N + 1 - k
               e == TokenEnd(raw, n)
               j == N - e
    <3>1. n \in 1..N
      BY <1>1, <2>2
    <3>2. e \in n..N
      BY <3>1, TokenEndIs
    <3>3. j \in 0..N /\ j < k /\ N + 1 - j = e + 1
      BY <1>1, <3>1, <3>2
    <3> HIDE DEF e, j
    <3>4. Says(e + 1)
      BY <1>7, <3>3
    <3> QED BY <1>6, <3>1, <3>4 DEF e
  <2> QED
    <3> HIDE DEF N, m, g, Says, T
    <3> QED BY <2>1, <2>2
<1>8. 0..N \subseteq T
  <2> HIDE DEF T, N
  <2> QED BY <1>1, <1>7, Strongly
<1>9. Says(1)
  <2>1. N \in 0..N /\ N + 1 - N = 1
    BY <1>1
  <2> QED BY <1>8, <2>1
<1>10. Begins(m, raw, 1) /\ Given(m[1 - 1]).out = <<>>
  <2>1. m[1 - 1] = Start
    BY <1>2 DEF RunOf
  <2> QED BY <2>1 DEF Begins, Start, Given
<1>11. <<>> \o g[1] = g[1]
  BY <1>9, ConcatEmptySeq DEF Streams
<1> QED BY <1>3, <1>9, <1>10, <1>11 DEF SanitizedIsText, Sanitized, m

-----------------------------------------------------------------------------
\* What a state of the algorithms is about.
CaseInv ==
    /\ case.of = "tool" => case.input \in Registered
    /\ case.of = "change" => case.input \in Changes /\ IsFiniteSet(case.input.paths)
    /\ case.of = "change" => case = [of |-> "change", input |-> case.input]
    /\ case.of = "raw" => case.input \in Streams
    /\ case.of = "chunks" => case.input \in Seq(Lines)

LEMMA BoundedIsSeq == ASSUME NEW S, NEW n \in Nat PROVE BoundedSeq(S, n) \subseteq Seq(S)
<1>1. ASSUME NEW s \in BoundedSeq(S, n) PROVE s \in Seq(S)
  <2>1. PICK m \in 0..n : s \in [1..m -> S]
    BY DEF BoundedSeq, SeqOf
  <2> QED BY <2>1
<1> QED BY <1>1

LEMMA CaseStays == AlgorithmsSpec => []CaseInv
<1>1. AlgorithmsInit => CaseInv
  BY DEF AlgorithmsInit, Nowhere, CaseInv
<1>2. CaseInv /\ [AlgorithmsNext]_case => CaseInv'
  <2> SUFFICES ASSUME CaseInv, [AlgorithmsNext]_case PROVE CaseInv'
    OBVIOUS
  <2>1. CASE case = Nowhere /\ ChooseTool
    BY <2>1 DEF ChooseTool, CaseInv
  <2>2. CASE case = Nowhere /\ ChooseEdits
    BY <2>2 DEF ChooseEdits, CaseInv
  <2>6. CASE case = Nowhere /\ ChooseRaw
    <3>1. PICK raw \in BoundedSeq(Characters, MaxRaw) : case' = [of |-> "raw", input |-> raw]
      BY <2>6 DEF ChooseRaw
    <3>2. raw \in Streams
      BY <3>1, AlgorithmsAssumption, BoundedIsSeq DEF Streams
    <3> QED BY <3>1, <3>2 DEF CaseInv
  <2>7. CASE case = Nowhere /\ ChooseChunks
    <3>1. PICK chunks \in BoundedSeq(BoundedSeq(FrameBytes, MaxChunkBytes), MaxChunks) :
            case' = [of |-> "chunks", input |-> chunks]
      BY <2>7 DEF ChooseChunks
    <3>2. BoundedSeq(FrameBytes, MaxChunkBytes) \subseteq Lines
      BY AlgorithmsAssumption, BoundedIsSeq DEF Lines
    <3>3. chunks \in Seq(BoundedSeq(FrameBytes, MaxChunkBytes))
      BY <3>1, AlgorithmsAssumption, BoundedIsSeq
    <3> DEFINE S == BoundedSeq(FrameBytes, MaxChunkBytes)
    <3> HIDE DEF S
    <3>4. \A s \in Seq(S) : S \subseteq Lines => s \in Seq(Lines)
      OBVIOUS
    <3>5. chunks \in Seq(Lines)
      BY <3>2, <3>3, <3>4 DEF S
    <3> QED BY <3>1, <3>5 DEF CaseInv
  <2>3. CASE case = Nowhere /\ ChooseChange
    <3>1. PICK force \in BOOLEAN, additional \in {{}, {"ui-insights"}} :
            case' = [of |-> "change", input |-> [paths |-> {}, additional |-> additional, force |-> force]]
      BY <2>3 DEF ChooseChange
    <3>2. IsFiniteSet({}) /\ {"ui-insights"} \subseteq Domains
      BY FS_EmptySet DEF Domains
    <3> QED BY <3>1, <3>2 DEF CaseInv, Changes
  <2>4. CASE ChangePath
    <3>1. PICK p \in Paths : case' = [case EXCEPT !.input.paths = @ \cup {p}]
      BY <2>4 DEF ChangePath
    <3>2. case = [of |-> "change", input |-> case.input] /\ case.input \in Changes
          /\ IsFiniteSet(case.input.paths)
      BY <2>4 DEF ChangePath, CaseInv
    <3>3. case' = [of |-> "change", input |-> [case.input EXCEPT !.paths = @ \cup {p}]]
      BY <3>1, <3>2
    <3>4. IsFiniteSet(case.input.paths \cup {p}) /\ case.input.paths \cup {p} \subseteq Paths
      BY <3>2, FS_AddElement DEF Changes
    <3>5. [case.input EXCEPT !.paths = @ \cup {p}] \in Changes
          /\ [case.input EXCEPT !.paths = @ \cup {p}].paths = case.input.paths \cup {p}
      BY <3>2, <3>4 DEF Changes
    <3> QED BY <3>3, <3>4, <3>5 DEF CaseInv
  <2>5. CASE UNCHANGED case
    BY <2>5 DEF CaseInv
  <2> QED BY <2>1, <2>2, <2>3, <2>4, <2>5, <2>6, <2>7 DEF AlgorithmsNext
<1> QED BY <1>1, <1>2, PTL DEF AlgorithmsSpec

\* Whatever a registered tool changes, it waits as an interactive call, it is not begun for
\* a caller that has gone and it shows in the activity list (mcp-session.ts, the handlers).
THEOREM ToolsAreGuarded == AlgorithmsSpec => []ChangesAreGuarded
<1>1. CaseInv => ChangesAreGuarded
  BY Guarded DEF CaseInv, ChangesAreGuarded
<1> QED BY <1>1, CaseStays, PTL

\* test-impact.ts: what is run for a part of the changed files is run for all of them, for any
\* number of changed files.
THEOREM ValidationOnlyGrows == AlgorithmsSpec => []ValidationGrows
<1>1. CaseInv => ValidationGrows
  BY Growing DEF CaseInv, ValidationGrows
<1> QED BY <1>1, CaseStays, PTL

\* terminal-capture.ts and rpc.ts: what is captured of a stream is its text, wherever it is cut
\* off, and a text is decoded in the same way whatever its chunks, for streams, chunks and
\* numbers of chunks of any size.
THEOREM CutsAreDecoded == AlgorithmsSpec => []CutsDoNotMatter
<1>1. CaseInv => CutsDoNotMatter
  BY StreamSanitized, ChunksDecoded DEF CaseInv, CutsDoNotMatter
<1> QED BY <1>1, CaseStays, PTL
=============================================================================
