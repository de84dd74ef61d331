----------------------------- MODULE TaskManager -----------------------------
(***************************************************************************)
(* Tasks run for an agent in one VS Code window                            *)
(* (packages/vscode-extension/src/task-manager.ts) and the activity list   *)
(* that shows them (agent-activity.ts).                                    *)
(*                                                                         *)
(* A call prepares a task or runs one; VS Code starts it and reports its   *)
(* process and its end by events, once it has answered the call but maybe  *)
(* before the call has gone on; the manager keeps bounded records of both. *)
(* Persisting a prepared task is the subject of WorkflowConfiguration.     *)
(*                                                                         *)
(* Data abstractions: a handle stands for a prepared task and its          *)
(* fingerprint, a run for one call of runTask and the execution it starts; *)
(* time is the order of creation and the moment a record expires.          *)
(***************************************************************************)
EXTENDS Integers, Filters, FiniteSets, Functions

CONSTANTS Handles,        \* ids that prepareTask can return
          Runs,           \* calls of runTask
          Nil,
          MaxPrepared,    \* MAX_PREPARED_WORKFLOWS
          MaxExecutions,  \* MAX_TASK_EXECUTIONS
          ActivityLimit   \* entries the activity list keeps

\* What the constants satisfy, for a theorem to assume.
TaskAssumption ==
    /\ Nil \notin Handles \cup Runs
    /\ {MaxPrepared, MaxExecutions, ActivityLimit} \subseteq Nat \ {0}

VARIABLES
    prepared,     \* #prepared, oldest first
    expired,      \* handles whose time to live is over
    executions,   \* #executions, oldest first
    outdated,     \* executions that ended longer ago than TASK_RETENTION_MS
    record,       \* the record of each run: status, has it ended
    call,         \* where each call of runTask is, and the handle it runs
    vscode,       \* what VS Code does with the task of each run
    entries       \* the activity list, newest first: run (Nil: another tool) and status

vars == <<prepared, expired, executions, outdated, record, call, vscode, entries>>

Statuses == {"none", "queued", "running", "exited", "terminated"}
NoRecord == [status |-> "none", ended |-> FALSE]

TypeOK ==
    /\ prepared \in Seq(Handles) /\ expired \subseteq Handles
    /\ executions \in Seq(Runs) /\ outdated \subseteq Runs
    /\ record \in [Runs -> [status : Statuses, ended : BOOLEAN]]
    /\ call \in [Runs -> [at : {"none", "starting", "failed", "returned"}, handle : Handles \cup {Nil}]]
    /\ vscode \in [Runs -> {"none", "launched", "process", "processEnded", "ended"}]
    /\ entries \in Seq([run : Runs \cup {Nil}, status : {"running", "succeeded"}])
    /\ Len(prepared) <= MaxPrepared /\ Len(executions) <= MaxExecutions
    /\ Len(entries) <= ActivityLimit

Init ==
    /\ prepared = <<>> /\ expired = {} /\ executions = <<>> /\ outdated = {}
    /\ record = [r \in Runs |-> NoRecord]
    /\ call = [r \in Runs |-> [at |-> "none", handle |-> Nil]]
    /\ vscode = [r \in Runs |-> "none"]
    /\ entries = <<>>

-----------------------------------------------------------------------------
(* Shared helpers of the handlers.                                         *)

Newest(s, n) == IF Len(s) <= n THEN s ELSE SubSeq(s, Len(s) - n + 1, Len(s))

\* #prune, both halves: expired and surplus handles, outdated and surplus executions.
PrunedHandles(s) == Newest(Where(s, Handles \ expired), MaxPrepared)

\* The surplus is counted before the outdated ones are removed.
PrunedExecutions(s) == Where(Newest(s, MaxExecutions), Runs \ outdated)

\* AgentActivityTracker.record and update: newest first, bounded; a lost entry stays lost.
Recorded(r, status) ==
    LET all == <<[run |-> r, status |-> status]>> \o entries
    IN  SubSeq(all, 1, IF Len(all) < ActivityLimit THEN Len(all) ELSE ActivityLimit)

\* Mutant: only the newest entry is looked at.
UpdatedNewest(r, status) ==
    [i \in DOMAIN entries |->
        IF i = 1 /\ entries[i].run = r THEN [entries[i] EXCEPT !.status = status] ELSE entries[i]]

Updated(r, status) ==
    [i \in DOMAIN entries |->
        IF entries[i].run = r THEN [entries[i] EXCEPT !.status = status] ELSE entries[i]]

Registered(r) == r \in Range(executions)

-----------------------------------------------------------------------------
(* Requests.                                                               *)

PrepareTask(h) ==
    /\ h \notin Range(prepared) /\ h \notin expired
    /\ \A r \in Runs : call[r].handle # h          \* a new id
    /\ prepared' = PrunedHandles(Append(prepared, h))
    /\ executions' = PrunedExecutions(executions)
    /\ UNCHANGED <<expired, outdated, record, call, vscode, entries>>

\* runTask up to executeTask: prune, then take the prepared task, with no await between.
RunPrepared(r, h) ==
    /\ call[r].at = "none"
    /\ h \in Range(PrunedHandles(prepared))
    /\ prepared' = PrunedHandles(prepared)
    /\ executions' = PrunedExecutions(executions)
    /\ call' = [call EXCEPT ![r] = [at |-> "starting", handle |-> h]]
    /\ vscode' = [vscode EXCEPT ![r] = "launched"]
    /\ UNCHANGED <<expired, outdated, record, entries>>

\* A listed task of the workspace, found again by its fingerprint.
RunListed(r) ==
    /\ call[r].at = "none"
    /\ prepared' = PrunedHandles(prepared)
    /\ executions' = PrunedExecutions(executions)
    /\ call' = [call EXCEPT ![r].at = "starting"]
    /\ vscode' = [vscode EXCEPT ![r] = "launched"]
    /\ UNCHANGED <<expired, outdated, record, entries>>

\* executeTask rejects.
StartFails(r) ==
    /\ call[r].at = "starting" /\ vscode[r] = "launched"
    /\ call' = [call EXCEPT ![r].at = "failed"]
    /\ vscode' = [vscode EXCEPT ![r] = "ended"]
    /\ UNCHANGED <<prepared, expired, executions, outdated, record, entries>>

\* executeTask has returned: the activity, the execution and its id are recorded.
Register(r) ==
    /\ call[r].at = "starting" /\ vscode[r] # "none"
    /\ call' = [call EXCEPT ![r].at = "returned"]
    /\ entries' = Recorded(r, "running")
    /\ record' = [record EXCEPT ![r] = [status |-> "queued", ended |-> FALSE]]
    /\ executions' = PrunedExecutions(Append(executions, r))
    /\ prepared' = PrunedHandles(prepared)
    /\ UNCHANGED <<expired, outdated, vscode>>

\* VS Code is told to stop the task; its end arrives as an event.
TerminateTask(r) ==
    /\ Registered(r) /\ ~record[r].ended
    /\ record' = [record EXCEPT ![r].status = "terminated"]
    /\ UNCHANGED <<prepared, expired, executions, outdated, call, vscode, entries>>

ListTaskExecutions ==
    /\ prepared' = PrunedHandles(prepared)
    /\ executions' = PrunedExecutions(executions)
    /\ UNCHANGED <<expired, outdated, record, call, vscode, entries>>

\* Another mutating tool records its activity.
OtherActivity ==
    /\ entries' = Recorded(Nil, "succeeded")
    /\ UNCHANGED <<prepared, expired, executions, outdated, record, call, vscode>>

-----------------------------------------------------------------------------
(* Events of VS Code.                                                      *)

\* executeTask resolves when VS Code accepts the task; it reports on it afterwards.
MayReport(r) == call[r].at = "returned"

\* onDidStartTaskProcess, #startProcess
StartProcess(r) ==
    /\ vscode[r] = "launched" /\ MayReport(r)
    /\ vscode' = [vscode EXCEPT ![r] = "process"]
    /\ record' = IF Registered(r) THEN [record EXCEPT ![r].status = "running"] ELSE record
    /\ UNCHANGED <<prepared, expired, executions, outdated, call, entries>>

\* onDidEndTaskProcess, #endProcess: the exit code only.
EndProcess(r) ==
    /\ vscode[r] = "process"
    /\ vscode' = [vscode EXCEPT ![r] = "processEnded"]
    /\ UNCHANGED <<prepared, expired, executions, outdated, record, call, entries>>

EndedStatus(r) == IF record[r].status = "terminated" THEN "terminated" ELSE "exited"

\* onDidEndTask, #endTask: a task whose record was dropped is not found.
EndTask(r) ==
    /\ vscode[r] \in {"launched", "processEnded"} /\ MayReport(r)
    /\ vscode' = [vscode EXCEPT ![r] = "ended"]
    /\ IF Registered(r) /\ ~record[r].ended
         THEN /\ record' = [record EXCEPT ![r] = [status |-> EndedStatus(r), ended |-> TRUE]]
              /\ entries' = Updated(r, "succeeded")
         ELSE UNCHANGED <<record, entries>>
    /\ UNCHANGED <<prepared, expired, executions, outdated, call>>

-----------------------------------------------------------------------------
(* Time.                                                                   *)

HandleExpires(h) ==
    /\ h \in Range(prepared) /\ h \notin expired
    /\ expired' = expired \cup {h}
    /\ UNCHANGED <<prepared, executions, outdated, record, call, vscode, entries>>

ExecutionAges(r) ==
    /\ record[r].ended /\ r \notin outdated
    /\ outdated' = outdated \cup {r}
    /\ UNCHANGED <<prepared, expired, executions, record, call, vscode, entries>>

Next ==
    \/ \E h \in Handles : PrepareTask(h) \/ HandleExpires(h)
    \/ \E r \in Runs, h \in Handles : RunPrepared(r, h)
    \/ \E r \in Runs :
          \/ RunListed(r) \/ StartFails(r) \/ Register(r) \/ TerminateTask(r)
          \/ StartProcess(r) \/ EndProcess(r) \/ EndTask(r) \/ ExecutionAges(r)
    \/ ListTaskExecutions \/ OtherActivity

Spec == Init /\ [][Next]_vars

-----------------------------------------------------------------------------
(* Properties.                                                             *)

\* An activity entry says "running" for a task that is over only if the manager
\* had dropped the record of that task while it was running (agent-activity.ts:191,
\* task-manager.ts:371-373).
ActivityTruthful ==
    \A i \in DOMAIN entries :
        LET r == entries[i].run
        IN  r # Nil /\ entries[i].status = "running" /\ vscode[r] = "ended" => ~Registered(r)

=============================================================================
