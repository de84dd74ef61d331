------------------------------ MODULE MCWorkspace ------------------------------
(***************************************************************************)
(* The smaller parts on small instances: the configuration of a workspace  *)
(* and who wrote its entries (WorkflowConfiguration), changes of the       *)
(* global profile (ProfileJournal), installations from the Marketplace     *)
(* (ExtensionInstall) and a query of it (MarketplaceRequest), the runs of  *)
(* tasks (TaskManager), the usage events of server processes               *)
(* (UsageInsights), and each pure algorithm on each of its inputs          *)
(* (MCAlgorithms).  They share no state, so a behaviour of this module is  *)
(* a behaviour of one of them while the others stay as they began.         *)
(***************************************************************************)
EXTENDS WorkflowConfiguration, MCAlgorithms

CONSTANTS Handles, Runs, MaxPrepared, MaxExecutions, ActivityLimit,
          Undos, Windows, v0, Limit, MaxCrashes, MaxFailures,
          Extensions, Needs(_, _), e1, e2, e3, Prepares, MaxGraph, MaxVersion, MaxReleases, MaxChanges,
          Processes, Sizes, MaxTotal, MaxActive, PruneInterval, MaxTracked, MaxFaults,
          MaxHeader, MaxResponse

VARIABLES part,
          prepared, expired, executions, outdated, record, taskCall, vscode, entries,
          setting, journal, window, job, actor, lastSetBy, settingEdits, crashes, failures,
          market, installed, candidates, plan, apply, releases, changes,
          files, store, tracked, faults,
          at, socket, listening, timer, bytes, status, gaveUp, uncaught

Tasks == INSTANCE TaskManager WITH call <- taskCall
Usage == INSTANCE UsageInsights
Profile == INSTANCE ProfileJournal
              WITH Updates <- Calls, Values <- Names \cup {v0}, edits <- settingEdits

\* The second version of an extension needs other extensions than the first.
MCNeeds(e, v) ==
    CASE e = e1 /\ v = 1 -> <<e2>>
      [] e = e1 /\ v = 2 -> <<e2, e3>>
      [] e = e2 /\ v = 1 -> <<e1>>
      [] e = e2 /\ v = 2 -> <<e3>>
      [] OTHER -> <<>>

Market == INSTANCE ExtensionInstall WITH Applies <- Names

Query == INSTANCE MarketplaceRequest

ASSUME WorkspaceAssumption ==
    /\ Tasks!TaskAssumption /\ Profile!JournalAssumption /\ Market!InstallAssumption
    /\ Usage!UsageAssumption

taskVars == <<prepared, expired, executions, outdated, record, taskCall, vscode, entries>>
usageVars == <<files, store, tracked, faults>>
profileVars == <<setting, journal, window, job, actor, lastSetBy, settingEdits, crashes, failures>>
marketVars == <<market, installed, candidates, plan, apply, releases, changes>>
queryVars == <<at, socket, listening, timer, bytes, status, gaveUp, uncaught>>

\* The ones at rest have a single initial state.
MCInit ==
    /\ part \in {"configuration", "profile", "extensions", "query", "tasks", "usage", "algorithms"}
    /\ Init /\ Profile!Init /\ Market!Init /\ Query!Init /\ Tasks!Init /\ Usage!Init /\ AlgorithmsInit
    /\ part # "usage" => files = <<>>
    /\ part # "profile" => setting = v0

MCNext ==
    /\ part' = part
    /\ \/ part = "configuration" /\ Next
          /\ UNCHANGED <<profileVars, marketVars, queryVars, taskVars, usageVars, case>>
       \/ part = "profile" /\ Profile!Next
          /\ UNCHANGED <<vars, marketVars, queryVars, taskVars, usageVars, case>>
       \/ part = "extensions" /\ Market!Next
          /\ UNCHANGED <<vars, profileVars, queryVars, taskVars, usageVars, case>>
       \/ part = "query" /\ Query!Next
          /\ UNCHANGED <<vars, profileVars, marketVars, taskVars, usageVars, case>>
       \/ part = "tasks" /\ Tasks!Next
          /\ UNCHANGED <<vars, profileVars, marketVars, queryVars, usageVars, case>>
       \/ part = "usage" /\ Usage!Next
          /\ UNCHANGED <<vars, profileVars, marketVars, queryVars, taskVars, case>>
       \/ part = "algorithms" /\ AlgorithmsNext
          /\ UNCHANGED <<vars, profileVars, marketVars, queryVars, taskVars, usageVars>>

MCSpec == MCInit /\ [][MCNext]_<<part, vars, profileVars, marketVars, queryVars, taskVars, usageVars, case>>

\* Calls and names are interchangeable; so are the other things that bear the same names.
Symmetric == Permutations(Calls) \cup Permutations(Names)

\* #replace, #endTask: the activity list says "running" of tasks that run (TaskManager).
ActivityTruthful == Tasks!ActivityTruthful

\* begin, commit, recover: a change of the profile stays in the journal (ProfileJournal).
ChangeIsKept == Profile!ChangeIsKept

\* prepare, apply: what VS Code installs for a plan is what the plan says (ExtensionInstall).
InstallsAsPlanned == Market!InstallsAsPlanned

\* search: a query that has ended leaves no socket behind (MarketplaceRequest).
SocketsReleased == Query!SocketsReleased

\* #append, pruneInsightFiles: the limit of all processes, and the room for an event (UsageInsights).
InsightsFit == Usage!InsightsFit
=============================================================================
