---------------------------- MODULE PreparedDebug ----------------------------
(***************************************************************************)
(* Debug configurations that agents prepare (debug-manager.ts): they are   *)
(* kept for a while, listed beside those of launch.json, written to        *)
(* launch.json, and started by an id that is made of their name alone.     *)
(*                                                                         *)
(* What a call approves is a fingerprint, made of all of a definition: a   *)
(* prepared one and what is written of it have different ones.  The user   *)
(* edits launch.json.  There is one root, whose names are not those of     *)
(* compounds; WorkflowConfiguration has the steps of a write.              *)
(***************************************************************************)
EXTENDS Naturals, Filters, FiniteSets, Functions

CONSTANTS Calls, Names,
          MaxPrepared,   \* MAX_PREPARED_WORKFLOWS
          TTL,           \* PREPARED_WORKFLOW_TTL_MS
          MaxVersions,   \* bound: definitions that are prepared or typed in
          MaxTime        \* bound: the clock

PreparedAssumption ==
    {MaxPrepared, TTL, MaxVersions, MaxTime} \subseteq Nat /\ MaxPrepared > 0 /\ "" \notin Names

VARIABLES
    launch,    \* what launch.json has under each name, and who wrote it
    prepared,  \* #prepared, in the order of insertion
    start,     \* startSession calls
    versions,  \* definitions so far
    now

vars == <<launch, prepared, start, versions, now>>

Nothing == <<"none", 0>>
NoStart == [at |-> "idle", name |-> "", approved |-> Nothing, found |-> Nothing, offers |-> {},
            ran |-> Nothing, overtaken |-> FALSE]

Absent == [version |-> 0, origin |-> "none"]

Init ==
    /\ launch = [n \in Names |-> Absent] /\ prepared = <<>>
    /\ start = [c \in Calls |-> NoStart]
    /\ versions = 0 /\ now = 0

Tick ==
    /\ now < MaxTime
    /\ now' = now + 1
    /\ UNCHANGED <<launch, prepared, start, versions>>

Unexpired(records) == Where(records, {r \in Range(records) : r.expires > now})

\* #prunePrepared: of the unexpired, the newest.
Pruned(records) == LET live == Unexpired(records)
                   IN IF Len(live) <= MaxPrepared THEN live ELSE SubSeq(live, Len(live) - MaxPrepared + 1, Len(live))

\* summarizeDebugConfiguration: fingerprints of what is prepared and of what is in launch.json
Approvals(n) ==
    {<<"prepared", r.version>> : r \in {p \in Range(Unexpired(prepared)) : p.name = n}}
        \cup (IF launch[n] = Absent THEN {} ELSE {<<"launch", launch[n].version>>})

\* prepareConfiguration, once the tasks that it names are checked
Prepare(n) ==
    /\ versions < MaxVersions
    /\ versions' = versions + 1
    /\ prepared' = Pruned(Append(prepared, [name |-> n, version |-> versions + 1, expires |-> now + TTL]))
    /\ UNCHANGED <<launch, start, now>>

\* The starts that wait while the definition of a name changes in launch.json
Overtaken(n) == [c \in Calls |-> IF start[c].at = "checking" /\ start[c].name = n
                                 THEN [start[c] EXCEPT !.overtaken = TRUE] ELSE start[c]]

\* persistConfiguration of what #requirePrepared finds
Persist(r) ==
    /\ r \in Range(Unexpired(prepared))
    /\ launch' = [launch EXCEPT ![r.name] = [version |-> r.version, origin |-> "agentPersisted"]]
    /\ start' = Overtaken(r.name)
    /\ UNCHANGED <<prepared, versions, now>>

Edit(n) ==
    /\ versions < MaxVersions
    /\ versions' = versions + 1
    /\ \E v \in {Absent, [version |-> versions + 1, origin |-> "workspace"]} : launch' = [launch EXCEPT ![n] = v]
    /\ start' = Overtaken(n)
    /\ UNCHANGED <<prepared, now>>

\* listConfigurations, the answer of which a caller chooses from
List(c, n, approved) ==
    /\ start[c].at = "idle" /\ approved \in Approvals(n)
    /\ prepared' = Pruned(prepared)
    /\ start' = [start EXCEPT ![c] = [NoStart EXCEPT !.at = "listed", !.name = n, !.approved = approved]]
    /\ UNCHANGED <<launch, versions, now>>

\* Mutant: the fingerprint is not compared.
AlwaysApproved(s) == TRUE
\* expectedFingerprint
Approved(s) == s.found = s.approved

\* The end of startSession: a prepared configuration is handed to VS Code, one of launch.json is
\* named to it.
Answered(s) ==
    IF Approved(s)
    THEN [s EXCEPT !.at = "started",
                   !.ran = IF s.found[1] = "prepared" THEN s.found ELSE <<"launch", launch[s.name].version>>]
    ELSE [s EXCEPT !.at = "refused"]

\* Mutant: what has expired is looked through as well.
AllPrepared == prepared
\* The records that startSession looks through
LookedThrough == Pruned(prepared)

\* The first prepared record of the name, then launch.json
Found(n) ==
    LET namesakes == Where(LookedThrough, {r \in Range(prepared) : r.name = n})
    IN IF namesakes # <<>> THEN <<"prepared", Head(namesakes).version>>
       ELSE IF launch[n] # Absent THEN <<"launch", launch[n].version>> ELSE Nothing

\* startSession, which has tasks to wait for only when an agent wrote the definition
LookUp(c) ==
    /\ start[c].at = "listed"
    /\ prepared' = LookedThrough
    /\ LET n == start[c].name
           s == [start[c] EXCEPT !.at = "checking", !.found = Found(n), !.offers = Approvals(n)]
       IN start' = [start EXCEPT ![c] =
              IF s.found = Nothing THEN [s EXCEPT !.at = "notFound"]
              ELSE IF s.found[1] = "launch" /\ launch[n].origin = "workspace" THEN Answered(s)
              ELSE s]
    /\ UNCHANGED <<launch, versions, now>>

Checked(c) ==
    /\ start[c].at = "checking"
    /\ start' = [start EXCEPT ![c] = Answered(start[c])]
    /\ UNCHANGED <<launch, prepared, versions, now>>

Next ==
    \/ Tick
    \/ \E n \in Names : Prepare(n) \/ Edit(n)
    \/ \E r \in Range(prepared) : Persist(r)
    \/ \E c \in Calls :
          \/ LookUp(c) \/ Checked(c)
          \/ \E n \in Names : \E approved \in Approvals(n) : List(c, n, approved)

Spec == Init /\ [][Next]_vars

(***************************************************************************)
(* Properties                                                              *)
(***************************************************************************)

\* startSession: what VS Code runs is what the caller approved, unless launch.json changed during
\* the last checks; and who is refused, although what he approved was still on offer, is refused
\* for an unexpired preparation of the same name.
ApprovedRuns ==
    \A c \in Calls : LET s == start[c] IN
        /\ s.at = "started" => s.ran = s.approved \/ s.overtaken
        /\ s.at = "refused" /\ s.approved \in s.offers => s.found[1] = "prepared" /\ s.found \in s.offers

\* debug-manager.ts:273, "The Debug configuration changed after it was listed": what is refused
\* with these words is no longer on offer.
RefusedIsChanged == \A c \in Calls : start[c].at = "refused" => start[c].approved \notin start[c].offers

=============================================================================
