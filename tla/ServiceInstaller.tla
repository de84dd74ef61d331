-------------------------- MODULE ServiceInstaller --------------------------
(***************************************************************************)
(* The per-user service installation                                       *)
(* (packages/mcp-server/src/service-installer.ts with service-config.ts,   *)
(* service-version-pruner.ts and the commands of service-control.ts).      *)
(*                                                                         *)
(* A management command runs under an OS lock, step by step, each step one *)
(* durable effect: the files of the service directory, the login task, the *)
(* client's configuration file, the daemon.  It may fail or die between    *)
(* any two steps; meanwhile the user edits the configuration, the login    *)
(* task starts the daemon and the daemon dies.  Install and uninstall keep *)
(* a transaction journal, from which the next command rolls back.          *)
(*                                                                         *)
(* Data abstractions: an executable stands for its version/hash directory; *)
(* the login task is the executable it runs; a configuration file is the   *)
(* number of the user's last edit and the identity its managed block names *)
(* (an absent and an empty file are one value); an identity is its number. *)
(***************************************************************************)
EXTENDS Integers, FiniteSets

CONSTANTS Exes,       \* staged executables, one per version and hash
          Version,    \* the release version of each
          Ops,        \* the management commands that are run
          Nil,        \* "null": no file, no task, no daemon
          MaxBoots,   \* bound: daemons that ever start
          MaxEdits,   \* bound: edits of the configuration by the user
          MaxIds,     \* bound: identities ever created
          MaxFaults   \* bound: crashes, failing calls and daemon deaths

ASSUME InstallerAssumption ==
    /\ Nil \notin Exes /\ Version \in [Exes -> Nat]
    /\ Ops \subseteq {"install", "uninstall", "start", "stop", "restart"}
    /\ {MaxBoots, MaxEdits, MaxIds, MaxFaults} \subseteq Nat

VARIABLES
    identity,      \* service identity file, 0 when absent
    installation,  \* installation record: executable, rollback executable, managed config?
    task,          \* executable of the registered login task
    journal,       \* transaction journal file
    config,        \* client configuration file
    exes,          \* executables present under versions/
    svc,           \* the daemon that owns the control pipe
    launched,      \* executables started that do not own the pipe yet
    boots, edits, ids, faults,
    pc, call,      \* the command that holds the lock, and where it is
    txn,           \* its transaction, in memory
    source,        \* the configuration it expects to replace
    conflict,      \* configurationConflict
    after          \* where a rollback continues: "idle" when it rethrows

disk == <<identity, installation, task, journal, config, exes>>
procs == <<svc, launched, boots>>
counters == <<edits, ids, faults>>
local == <<call, txn, source, conflict, after>>
vars == <<disk, procs, counters, pc, local>>

Configs == [user : 0..MaxEdits, block : 0..MaxIds]
Installations == [exe : Exes, rollback : Exes \cup {Nil}, managed : BOOLEAN]
Daemons == [boot : 1..MaxBoots, exe : Exes, id : 1..MaxIds]
Calls == [op : Ops, exe : Exes, managed : BOOLEAN]
Transactions ==
    [op : {"install", "uninstall"}, identity : 0..MaxIds, installation : Installations \cup {Nil},
     task : Exes \cup {Nil}, status : Daemons \cup {Nil}, managed : BOOLEAN,
     previous : Configs, published : Configs, version : Nat, boot : 0..MaxBoots]

ASSUME NilAssumption ==
    Nil \notin Calls /\ Nil \notin Daemons /\ Nil \notin Installations /\ Nil \notin Transactions

\* Steps inside the try of install and uninstall: an error there rolls back.
Guarded == {"identity", "stop", "task", "run", "ready", "bootId",
            "read", "compare", "publish", "record", "commit"}
Rollback == {"rbStop", "rbTask", "rbCompare", "rbConfig", "rbIdentity", "rbInstallation",
             "rbRun", "rbReady", "rbCommit"}
Unguarded == {"prepare", "plan", "journal", "current", "prune", "stopNow", "start", "started"}

TypeOK ==
    /\ identity \in 0..MaxIds /\ installation \in Installations \cup {Nil}
    /\ task \in Exes \cup {Nil} /\ journal \in Transactions \cup {Nil}
    /\ config \in Configs /\ exes \subseteq Exes
    /\ svc \in Daemons \cup {Nil} /\ launched \subseteq Exes /\ boots \in 0..MaxBoots
    /\ edits \in 0..MaxEdits /\ ids \in 0..MaxIds /\ faults \in 0..MaxFaults
    /\ pc \in Guarded \cup Rollback \cup Unguarded \cup {"idle"}
    /\ call \in Calls \cup {Nil} /\ txn \in Transactions \cup {Nil}
    /\ source \in Configs /\ conflict \in BOOLEAN
    /\ after \in {"idle", "prepare", "plan", "stopNow", "start"}

Init ==
    /\ identity = 0 /\ installation = Nil /\ task = Nil /\ journal = Nil /\ exes = {}
    /\ config = [user |-> 0, block |-> 0]
    /\ svc = Nil /\ launched = {} /\ boots = 0
    /\ edits = 0 /\ ids = 0 /\ faults = 0
    /\ pc = "idle" /\ call = Nil /\ txn = Nil
    /\ source = [user |-> 0, block |-> 0] /\ conflict = FALSE /\ after = "idle"

-----------------------------------------------------------------------------
(* Control: where a command goes next, and how it ends.                    *)

Goto(p) == pc' = p /\ UNCHANGED local

\* The command ends, well or with an error, and the lock is released.
Ends ==
    /\ pc' = "idle" /\ call' = Nil /\ txn' = Nil /\ conflict' = FALSE /\ after' = "idle"
    /\ source' = [user |-> 0, block |-> 0]

\* An error: inside the transaction it rolls back, elsewhere (the fast path of a
\* current installation included, which has no journal) the command ends.
Raise ==
    IF pc \in Guarded /\ journal # Nil
      THEN /\ pc' = "rbStop" /\ after' = "idle" /\ UNCHANGED <<call, txn, source, conflict>>
      ELSE Ends

Entry(op) ==
    CASE op = "install" -> "prepare"
      [] op = "uninstall" -> "plan"
      [] op = "start" -> "start"
      [] OTHER -> "stopNow"

\* What #tryCurrent authenticates; an occupied pipe it cannot authenticate is an error.
Unverified == identity # 0 /\ svc # Nil /\ svc.id # identity
Status == IF identity = 0 THEN Nil ELSE svc
Verified == identity # 0 /\ svc # Nil /\ svc.id = identity

\* A command takes the lock; an interrupted transaction is rolled back first.
Begin(c) ==
    /\ pc = "idle"
    /\ call' = c
    /\ IF journal = Nil
         THEN pc' = Entry(c.op) /\ UNCHANGED <<txn, after>>
         ELSE pc' = "rbStop" /\ txn' = journal /\ after' = Entry(c.op)
    /\ UNCHANGED <<disk, procs, counters, source, conflict>>

-----------------------------------------------------------------------------
(* Install and uninstall.                                                  *)

Target == IF txn.op = "install" THEN call.exe ELSE Nil

\* Only a missing or a different executable is written; then it is tested.
Prepare ==
    /\ pc = "prepare"
    /\ exes' = exes \cup {call.exe}
    /\ Goto("plan")
    /\ UNCHANGED <<identity, installation, task, journal, config, procs, counters>>

\* Everything is read before the first change.
Planned(id) ==
    [op |-> call.op, identity |-> identity, installation |-> installation, task |-> task,
     status |-> Status, previous |-> config, version |-> Version[call.exe], boot |-> 0,
     managed |-> IF call.op = "install" THEN call.managed ELSE installation.managed,
     published |-> IF call.op = "install"
                     THEN IF call.managed THEN [config EXCEPT !.block = id] ELSE config
                     ELSE IF installation.managed THEN [config EXCEPT !.block = 0] ELSE config]

\* The same executable is installed, registered and running.
AlreadyCurrent ==
    /\ call.op = "install" /\ installation # Nil /\ Status # Nil
    /\ installation.exe = call.exe /\ installation.managed = call.managed
    /\ Version[Status.exe] = Version[call.exe] /\ task = call.exe

Unowned == call.op = "install" /\ task # Nil /\ installation = Nil

NewIdentity == IF identity = 0 THEN ids + 1 ELSE identity

Plan ==
    /\ pc = "plan"
    /\ ~Unverified /\ ~Unowned /\ NewIdentity <= MaxIds
    /\ call.op = "uninstall" => installation # Nil
    /\ txn' = Planned(NewIdentity)
    /\ source' = config
    /\ pc' = IF AlreadyCurrent THEN "current" ELSE "journal"
    /\ UNCHANGED <<disk, procs, counters, call, conflict, after>>

PlanFails ==
    /\ pc = "plan"
    /\ \/ Unverified \/ Unowned \/ NewIdentity > MaxIds
       \/ call.op = "uninstall" /\ installation = Nil
    /\ Ends
    /\ UNCHANGED <<disk, procs, counters>>

\* The fast path keeps the daemon and repairs the configuration only.
Current ==
    /\ pc = "current"
    /\ IF Verified THEN Goto("compare") ELSE Ends
    /\ UNCHANGED <<disk, procs, counters>>

WriteJournal ==
    /\ pc = "journal"
    /\ journal' = txn
    /\ Goto(IF txn.op = "install" THEN "identity" ELSE "stop")
    /\ UNCHANGED <<identity, installation, task, config, exes, procs, counters>>

WriteIdentity ==
    /\ pc = "identity"
    /\ identity' = NewIdentity
    /\ ids' = IF identity = 0 THEN ids + 1 ELSE ids
    /\ Goto("stop")
    /\ UNCHANGED <<installation, task, journal, config, exes, procs, edits, faults>>

\* "stop" names the boot it means; the daemon refuses any other.
StopPrevious ==
    /\ pc = "stop"
    /\ IF txn.status = Nil THEN Goto("task") /\ UNCHANGED svc
       ELSE IF svc # Nil /\ svc.boot = txn.status.boot THEN svc' = Nil /\ Goto("task")
       ELSE Raise /\ UNCHANGED svc
    /\ UNCHANGED <<disk, launched, boots, counters>>

ChangeTask ==
    /\ pc = "task"
    /\ task' = Target
    /\ Goto(IF txn.op = "install" THEN "run" ELSE "read")
    /\ UNCHANGED <<identity, installation, journal, config, exes, procs, counters>>

RunTask ==
    /\ pc = "run"
    /\ launched' = launched \cup {task}
    /\ Goto("ready")
    /\ UNCHANGED <<disk, svc, boots, counters>>

\* #ready, then the version check.  Without an answer in time it raises.
Ready ==
    /\ pc = "ready"
    /\ IF Verified /\ Version[svc.exe] = txn.version
         THEN pc' = "bootId" /\ txn' = [txn EXCEPT !.boot = svc.boot]
              /\ UNCHANGED <<call, source, conflict, after>>
         ELSE Raise
    /\ UNCHANGED <<disk, procs, counters>>

JournalBootId ==
    /\ pc = "bootId"
    /\ journal' = txn
    /\ Goto("compare")
    /\ UNCHANGED <<identity, installation, task, config, exes, procs, counters>>

\* removeCodexConfigBlock starts from the file as it is now.
ReadConfig ==
    /\ pc = "read"
    /\ source' = config
    /\ pc' = "compare"
    /\ UNCHANGED <<disk, procs, counters, call, txn, conflict, after>>

Result ==
    IF txn.op = "install" THEN txn.published ELSE [source EXCEPT !.block = 0]

\* A journalled operation records its outcome; the fast path is done.
AfterConfig == IF journal = Nil THEN "prune" ELSE "record"

\* writeConfigChange compares, backs up, compares, and then replaces the file.
CompareConfig ==
    /\ pc = "compare"
    /\ IF ~txn.managed THEN Goto(AfterConfig)
       ELSE IF config # source
         THEN Raise
       ELSE Goto(IF source = Result THEN AfterConfig ELSE "publish")
    /\ UNCHANGED <<disk, procs, counters>>

Publish ==
    /\ pc = "publish"
    /\ config' = Result
    /\ Goto(AfterConfig)
    /\ UNCHANGED <<identity, installation, task, journal, exes, procs, counters>>

\* The executable to go back to: another one, and still on disk.
RollbackExe(previous, exe) ==
    IF previous = Nil THEN Nil
    ELSE IF previous.exe # exe /\ previous.exe \in exes THEN previous.exe
    ELSE IF previous.rollback \in exes \ {exe} THEN previous.rollback
    ELSE Nil

Record ==
    /\ pc = "record"
    /\ installation' =
         IF txn.op = "uninstall" THEN Nil
         ELSE [exe |-> call.exe, managed |-> call.managed,
               rollback |-> RollbackExe(txn.installation, call.exe)]
    /\ Goto("commit")
    /\ UNCHANGED <<identity, task, journal, config, exes, procs, counters>>

Commit ==
    /\ pc = "commit"
    /\ journal' = Nil
    /\ IF txn.op = "install" THEN Goto("prune") ELSE Ends
    /\ UNCHANGED <<identity, installation, task, config, exes, procs, counters>>

\* A mutant: only the current executable is protected.
ProtectedCurrent == {installation.exe, task}

\* pruneServiceVersions: everything but the live references, one by one.
Protected ==
    {installation.exe, installation.rollback, task}
      \cup IF journal = Nil THEN {} ELSE
             {journal.task} \cup IF journal.installation = Nil THEN {} ELSE
                {journal.installation.exe, journal.installation.rollback}

Prune(e) ==
    /\ pc = "prune"
    /\ e \in exes \ Protected
    /\ exes' = exes \ {e}
    /\ Goto("prune")
    /\ UNCHANGED <<identity, installation, task, journal, config, procs, counters>>

\* Nothing is left to remove, or the cleanup failed: either way the command succeeds.
Pruned ==
    /\ pc = "prune"
    /\ Ends
    /\ UNCHANGED <<disk, procs, counters>>

-----------------------------------------------------------------------------
(* Rollback, by the failing command or by the next one.                    *)

Foreign == Status # Nil /\ (txn.status = Nil \/ Status.boot # txn.status.boot)

Candidate == Version[svc.exe] = txn.version /\ txn.boot \in {0, svc.boot}

\* Only the candidate is stopped; any other daemon ends the rollback.
StopCandidate ==
    /\ pc = "rbStop"
    /\ IF Unverified \/ (Foreign /\ ~Candidate) THEN Raise /\ UNCHANGED svc
       ELSE Goto("rbTask") /\ svc' = IF Foreign THEN Nil ELSE svc
    /\ UNCHANGED <<disk, launched, boots, counters>>

\* A mutant: a task that did not exist before is left registered.
RestoreTaskIfAny ==
    /\ pc = "rbTask"
    /\ task' = IF txn.task = Nil THEN task ELSE txn.task
    /\ Goto("rbCompare")
    /\ UNCHANGED <<identity, installation, journal, config, exes, procs, counters>>

RestoreTask ==
    /\ pc = "rbTask"
    /\ task' = txn.task
    /\ Goto("rbCompare")
    /\ UNCHANGED <<identity, installation, journal, config, exes, procs, counters>>

\* A mutant: the configuration is restored whatever it holds.
KnownAlways(c) == TRUE

\* The configuration is restored only from what the transaction knows.
Known(c) == c = txn.previous \/ c = txn.published

CompareForRestore ==
    /\ pc = "rbCompare"
    /\ conflict' = (txn.managed /\ ~Known(config))
    /\ source' = config
    /\ pc' = IF txn.managed /\ Known(config) THEN "rbConfig" ELSE "rbIdentity"
    /\ UNCHANGED <<disk, procs, counters, call, txn, after>>

RestoreConfig ==
    /\ pc = "rbConfig"
    /\ config' = txn.previous
    /\ Goto("rbIdentity")
    /\ UNCHANGED <<identity, installation, task, journal, exes, procs, counters>>

RestoreIdentity ==
    /\ pc = "rbIdentity"
    /\ identity' = txn.identity
    /\ Goto("rbInstallation")
    /\ UNCHANGED <<installation, task, journal, config, exes, procs, counters>>

\* A mutant: the candidate's record survives a failed first installation.
RestoreInstallationIfAny ==
    /\ pc = "rbInstallation"
    /\ installation' = IF txn.installation = Nil THEN installation ELSE txn.installation
    /\ Goto(IF txn.status # Nil /\ txn.task # Nil /\ txn.identity # 0 THEN "rbRun" ELSE "rbCommit")
    /\ UNCHANGED <<identity, task, journal, config, exes, procs, counters>>

RestoreInstallation ==
    /\ pc = "rbInstallation"
    /\ installation' = txn.installation
    /\ Goto(IF txn.status # Nil /\ txn.task # Nil /\ txn.identity # 0 THEN "rbRun" ELSE "rbCommit")
    /\ UNCHANGED <<identity, task, journal, config, exes, procs, counters>>

RunPrevious ==
    /\ pc = "rbRun"
    /\ launched' = launched \cup {task}
    /\ Goto("rbReady")
    /\ UNCHANGED <<disk, svc, boots, counters>>

\* A mutant: the previous daemon is awaited without a deadline.
PreviousReadyAtLast ==
    /\ pc = "rbReady"
    /\ Verified
    /\ Goto("rbCommit")
    /\ UNCHANGED <<disk, procs, counters>>

PreviousReady ==
    /\ pc = "rbReady"
    /\ IF Verified THEN Goto("rbCommit") ELSE Raise
    /\ UNCHANGED <<disk, procs, counters>>

\* A conflict keeps the journal; otherwise the transaction is over.
RolledBack ==
    /\ pc = "rbCommit"
    /\ IF conflict
         THEN Ends /\ UNCHANGED journal
         ELSE /\ journal' = Nil
              /\ IF after = "idle" THEN Ends
                 ELSE /\ pc' = after /\ after' = "idle" /\ txn' = Nil
                      /\ UNCHANGED <<call, source, conflict>>
    /\ UNCHANGED <<identity, installation, task, config, exes, procs, counters>>

-----------------------------------------------------------------------------
(* start, stop and restart.                                                *)

StopNow ==
    /\ pc = "stopNow"
    /\ IF Unverified \/ identity = 0 THEN Ends /\ UNCHANGED svc
       ELSE svc' = Nil /\ IF call.op = "restart" THEN Goto("start") ELSE Ends
    /\ UNCHANGED <<disk, launched, boots, counters>>

Startable ==
    /\ identity # 0 /\ ~Unverified /\ installation # Nil
    /\ installation.exe \in exes
    /\ svc = Nil => task = installation.exe

Start ==
    /\ pc = "start"
    /\ IF ~Startable THEN Ends /\ UNCHANGED launched
       ELSE /\ Goto("started")
            /\ launched' = IF svc = Nil THEN launched \cup {task} ELSE launched
    /\ UNCHANGED <<disk, svc, boots, counters>>

Started ==
    /\ pc = "started"
    /\ Ends
    /\ UNCHANGED <<disk, procs, counters>>

-----------------------------------------------------------------------------
(* The command's environment.                                              *)

\* A call of the running step fails.
Fails ==
    /\ faults < MaxFaults /\ pc # "idle"
    /\ faults' = faults + 1
    /\ Raise
    /\ UNCHANGED <<disk, procs, edits, ids>>

\* The command's process is killed, or the machine restarts.
Crash ==
    /\ faults < MaxFaults /\ pc # "idle"
    /\ faults' = faults + 1
    /\ Ends
    /\ UNCHANGED <<disk, procs, edits, ids>>

DaemonDies ==
    /\ faults < MaxFaults /\ svc # Nil
    /\ faults' = faults + 1
    /\ svc' = Nil
    /\ UNCHANGED <<disk, launched, boots, edits, ids, pc, local>>

\* The user logs on, or the scheduler restarts a daemon that failed.
Logon ==
    /\ task # Nil /\ svc = Nil /\ boots < MaxBoots
    /\ launched' = launched \cup {task}
    /\ UNCHANGED <<disk, svc, boots, counters, pc, local>>

\* serve: the first to own the pipe serves; it needs its file and the identity.
Boots(e) ==
    /\ e \in launched \cap exes /\ svc = Nil /\ identity # 0 /\ boots < MaxBoots
    /\ boots' = boots + 1
    /\ svc' = [boot |-> boots + 1, exe |-> e, id |-> identity]
    /\ launched' = launched \ {e}
    /\ UNCHANGED <<disk, counters, pc, local>>

\* It finds the pipe owned and leaves, or cannot start.
LaunchEnds(e) ==
    /\ e \in launched
    /\ svc # Nil \/ identity = 0 \/ e \notin exes \/ boots = MaxBoots
    /\ launched' = launched \ {e}
    /\ UNCHANGED <<disk, svc, boots, counters, pc, local>>

UserEdits ==
    /\ edits < MaxEdits
    /\ edits' = edits + 1
    /\ config' = [config EXCEPT !.user = edits + 1]
    /\ UNCHANGED <<identity, installation, task, journal, exes, procs, ids, faults, pc, local>>

\* The review a conflict asks for: the user puts the previous content back.
UserReverts ==
    /\ pc = "idle" /\ journal # Nil /\ journal.managed
    /\ config # journal.previous
    /\ config' = journal.previous
    /\ UNCHANGED <<identity, installation, task, journal, exes, procs, counters, pc, local>>

Step ==
    \/ Prepare \/ Plan \/ PlanFails \/ Current \/ WriteJournal \/ WriteIdentity
    \/ StopPrevious \/ ChangeTask \/ RunTask \/ Ready \/ JournalBootId
    \/ ReadConfig \/ CompareConfig \/ Publish \/ Record \/ Commit
    \/ (\E e \in Exes : Prune(e)) \/ Pruned
    \/ StopCandidate \/ RestoreTask \/ CompareForRestore \/ RestoreConfig
    \/ RestoreIdentity \/ RestoreInstallation \/ RunPrevious \/ PreviousReady \/ RolledBack
    \/ StopNow \/ Start \/ Started

Environment ==
    \/ Fails \/ Crash \/ DaemonDies \/ Logon \/ UserEdits \/ UserReverts
    \/ \E e \in Exes : Boots(e) \/ LaunchEnds(e)

Next == (\E c \in Calls : Begin(c)) \/ Step \/ Environment

Spec == Init /\ [][Next]_vars

\* A command keeps running and, while an interrupted transaction waits, is retried;
\* a launched daemon gets to run.
FairSpec ==
    /\ Spec
    /\ WF_vars(Step)
    /\ WF_vars(\E c \in Calls : Begin(c))
    /\ WF_vars(\E e \in Exes : Boots(e))
-----------------------------------------------------------------------------
(* Properties.                                                             *)

Files(i) == IF i = Nil THEN {} ELSE {i.exe, i.rollback} \ {Nil}

\* Whatever is pruned, and wherever a command dies: the executables that the
\* installation, its rollback reference, the login task and the interrupted
\* transaction name are on disk (service-version-pruner.ts:9-13).
NoDangling ==
    /\ Files(installation) \cup ({task} \ {Nil}) \subseteq exes
    /\ journal # Nil =>
         Files(journal.installation) \cup ({journal.task} \ {Nil}) \subseteq exes

\* Once no transaction is open, all parts agree again: the task runs the
\* recorded executable, the identity exists, and a managed configuration points
\* to it - after every mixture of failures, crashes and recoveries.
Settled ==
    pc = "idle" /\ journal = Nil =>
        IF installation = Nil THEN task = Nil
        ELSE /\ task = installation.exe
             /\ identity # 0
             /\ installation.managed => config.block = identity

\* What the next command would recover to.
Effective == IF journal # Nil THEN journal.installation ELSE installation

\* An operation takes effect in one step, the removal of its journal: before it
\* a crash leaves the old installation, after it the new one.
AtomicCommit == [][Effective' # Effective => pc = "commit" /\ journal' = Nil]_vars

\* An edit of the user is overwritten only if it was made after the last
\* comparison with the file (service-config.ts:15-17, service-installer.ts:233-237).
EditsSurvive ==
    [][Step /\ config'.user < config.user => config.user > source.user]_vars

\* A command always comes to an end and releases the lock, whatever fails.
LockReleased == pc # "idle" ~> pc = "idle"

\* "Installation interrupted: rerun service install; state-changing management
\* commands first recover the protected transaction journal"
\* (docs/installation.md:48).  A model at its bound of daemons is excused.
Recovers == journal # Nil ~> (journal = Nil \/ boots = MaxBoots)
=============================================================================
