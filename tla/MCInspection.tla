---------------------------- MODULE MCInspection ----------------------------
(***************************************************************************)
(* What calls inspect, and what of it they may still refer to, on small    *)
(* instances: the references of a debug session (DebugReferences), the     *)
(* sessions that calls start (DebugSessions) and the configurations they   *)
(* are started from (PreparedDebug), what is kept of their output          *)
(* (DebugOutput) and of diagnostics (DiagnosticEvents), and documents      *)
(* outside the workspace (DocumentAccess).  They share no state that a     *)
(* property looks at, so a behaviour of this module is a behaviour of one  *)
(* part while the others stay as they began.                               *)
(***************************************************************************)
EXTENDS DebugReferences, TLC

CONSTANTS MaxSessions, MaxCaptures, Names, Nil, User, MaxEdits,
          SessionBytes, WindowBytes, ReadChars, MaxChunk, MaxOutputs,
          MaxPrepared, MaxVersions, MaxKept, MaxReads, MaxHours,
          Documents, Inside, MaxGrants, TTL, Visible, MaxLocations, MaxTime

VARIABLES part,
          definition, start, pendingStarts, session, entry, crowded,
          launch, prepared, approval, versions,
          capture, written, reader,
          diagnostics, due, summaries, diagnosed, cursor, follower, log, changes,
          open, grants, request, created, now, hour

Manager == INSTANCE DebugSessions WITH call <- start
Prepared == INSTANCE PreparedDebug
               WITH Calls <- {User}, start <- approval, now <- hour, MaxTime <- MaxHours
Events == INSTANCE DiagnosticEvents
             WITH Documents <- Names, reader <- follower, events <- diagnosed, now <- hour,
                  MaxChanges <- MaxVersions, MaxTime <- MaxHours
Output == INSTANCE DebugOutput WITH MaxSessions <- MaxCaptures, MaxEvents <- MaxOutputs
Access == INSTANCE DocumentAccess

ASSUME InspectionAssumption ==
    /\ Access!AccessAssumption /\ Prepared!PreparedAssumption /\ Manager!ManagerAssumption
    /\ Output!OutputAssumption

sessionVars == <<definition, start, pendingStarts, session, entry, crowded>>
preparedVars == <<launch, prepared, approval, versions>>
eventVars == <<diagnostics, due, summaries, diagnosed, cursor, follower, log, changes>>
outputVars == <<capture, written, reader>>
accessVars == <<open, grants, request, created, now>>

\* Those at rest have a single initial state.
MCInit ==
    /\ part \in {"references", "sessions", "prepared", "output", "events", "documents"}
    /\ Init /\ Manager!Init /\ Prepared!Init /\ Output!Init /\ Events!Init /\ Access!Init
    /\ part # "events" => follower.follows = Names /\ \A n \in Names : diagnostics[n] = 0

MCNext ==
    /\ part' = part
    /\ \/ part = "references" /\ Next
          /\ UNCHANGED <<sessionVars, preparedVars, outputVars, eventVars, accessVars, hour>>
       \/ part = "sessions" /\ Manager!Next
          /\ UNCHANGED <<vars, preparedVars, outputVars, eventVars, accessVars, hour>>
       \/ part = "prepared" /\ Prepared!Next
          /\ UNCHANGED <<vars, sessionVars, outputVars, eventVars, accessVars>>
       \/ part = "output" /\ Output!Next
          /\ UNCHANGED <<vars, sessionVars, preparedVars, eventVars, accessVars, hour>>
       \/ part = "events" /\ Events!Next
          /\ UNCHANGED <<vars, sessionVars, preparedVars, outputVars, accessVars>>
       \/ part = "documents" /\ Access!Next
          /\ UNCHANGED <<vars, sessionVars, preparedVars, outputVars, eventVars, hour>>

MCSpec == MCInit /\ [][MCNext]_<<part, vars, sessionVars, preparedVars, outputVars,
                           eventVars, accessVars, hour>>

\* Calls are interchangeable; so are names, and the documents that bear the same names.
Symmetric == Permutations(Calls) \cup Permutations(Names)

\* startSession, #terminateSession: a start is paired with its session (DebugSessions).
StartsArePaired == Manager!ToldOfOwn /\ Manager!EntryFollowsSession

\* startSession: what runs is what was approved, and who is refused for what (PreparedDebug).
ApprovedRuns == Prepared!ApprovedRuns

\* listDiagnosticEvents: who follows the log misses nothing unawares (DiagnosticEvents).
FollowedInFull == Events!FollowedInFull

\* #trimSession, #enforceWindowLimit: limits hold and what is lost is counted (DebugOutput).
OutputAccounted == Output!OutputAccounted

\* issue, authorize, #prune: a grant that was returned opens its document (DocumentAccess).
GrantsHold == Access!GrantsHold

=============================================================================
