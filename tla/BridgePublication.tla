--------------------------- MODULE BridgePublication ---------------------------
(***************************************************************************)
(* The publication of one VS Code window: its listener and the descriptor  *)
(* file by which the daemon finds it (packages/vscode-extension/src/       *)
(* bridge-host.ts, private-registry-file.ts, bridge-lifecycle.ts and       *)
(* extension.ts; the daemon's side is packages/mcp-server/src/instances.ts)*)
(*                                                                         *)
(* Changes of the policy (the enabled switch, workspace trust) are served  *)
(* one after the other; each run starts, refreshes or stops the host.      *)
(* Refreshes of the descriptor have a queue of their own, which changes of *)
(* the workspace folders use directly.  The first descriptor of a start is *)
(* written outside that queue.                                             *)
(*                                                                         *)
(* Abstractions: a descriptor is the folders and the lifecycle it names.   *)
(* Temporary files are private to a write.  Removing a file succeeds.      *)
(* What happens on the connections and the end of the window, which is     *)
(* that of its memory, are left out.                                       *)
(***************************************************************************)
EXTENDS Integers, Sequences

CONSTANTS Nil,
          MaxPolicyChanges, \* bound
          MaxFolders,       \* bound: changes of the workspace folders
          MaxProbes,        \* bound: discoveries of the daemon that find the descriptor
          MaxFailures       \* bound: writes, hardenings and listens that fail

ASSUME PublicationAssumption ==
    {MaxPolicyChanges, MaxFolders, MaxProbes, MaxFailures} \subseteq Nat

Lifecycles == {"initializing", "ready", "degraded"}
Descriptor == [folders : 0..MaxFolders, lifecycle : Lifecycles]
Writers == {"start", "refresh"}     \* at most one write of each is under way

ASSUME NilIsNoDescriptor == Nil \notin Descriptor

VARIABLES
    allowed,     \* getBridgePolicyState().publishAllowed
    folders,     \* which workspace folders are open, by the number of changes
    phase,       \* of activate()
    lifecycle,   \* #lifecycle
    started,     \* #started
    healthy,     \* #descriptorHealthy
    serving,     \* does the server accept connections?
    due,         \* runs of reconcileBridgePublication in the queue, with the current one
    run,         \* where the current run is
    refreshes,   \* #refreshQueue: who waits for each refresh
    write,       \* publishPrivateJson: where each write is, and what it writes
    file,        \* the descriptor in the registry, or Nil
    probe,       \* discoverLiveInstances: what it does with the descriptor it read
    missed,      \* history: was the last change of the policy made before changes are watched?
    overlapped,  \* history: has something happened that the queues do not order?
    policyChanges, probes, failures

host == <<phase, lifecycle, started, healthy, serving, due, run, refreshes, write>>
history == <<missed, overlapped>>
bounds == <<policyChanges, probes, failures>>
vars == <<allowed, folders, host, file, probe, history, bounds>>

NoWrite == [at |-> "none", descriptor |-> Nil]

TypeOK ==
    /\ allowed \in BOOLEAN /\ folders \in 0..MaxFolders
    /\ phase \in {"publishing", "storage", "marking", "watching", "failed"}
    /\ lifecycle \in Lifecycles
    /\ started \in BOOLEAN /\ healthy \in BOOLEAN /\ serving \in BOOLEAN
    /\ due \in Nat
    /\ run \in {"none", "listen", "write", "undo", "refresh", "close", "remove"}
    /\ refreshes \in Seq({"run", "activate", "folders"})
    /\ write \in [Writers -> [at : {"none", "temporary", "published", "rejected"},
                              descriptor : Descriptor \cup {Nil}]]
    /\ file \in Descriptor \cup {Nil}
    /\ probe \in {"none", "read", "remove"}
    /\ missed \in BOOLEAN /\ overlapped \in BOOLEAN
    /\ policyChanges \in 0..MaxPolicyChanges /\ probes \in 0..MaxProbes
    /\ failures \in 0..MaxFailures

Init ==
    /\ allowed \in BOOLEAN /\ folders = 0
    /\ phase = "publishing" /\ lifecycle = "initializing"
    /\ started = FALSE /\ healthy = FALSE /\ serving = FALSE
    /\ due = 1 /\ run = "none"
    /\ refreshes = <<>>
    /\ write = [w \in Writers |-> NoWrite]
    /\ file = Nil
    /\ probe = "none"
    /\ missed = FALSE /\ overlapped = FALSE
    /\ policyChanges = 0 /\ probes = 0 /\ failures = 0

\* what #writeDescriptor would write now
Current == [folders |-> folders, lifecycle |-> lifecycle]

Captured == [at |-> "temporary", descriptor |-> Current]

MayFail == failures < MaxFailures /\ failures' = failures + 1

-----------------------------------------------------------------------------
(* Runs of the reconcile queue.                                            *)

\* The current run is over.  The first one is part of activate().
RunEnds(succeeded) ==
    /\ run' = "none" /\ due' = due - 1
    /\ phase' = IF phase # "publishing" THEN phase
                ELSE IF succeeded THEN "storage" ELSE "failed"

\* reconcileBridgePublication, with the synchronous beginnings of start and stop
Reconcile ==
    /\ run = "none" /\ due > 0
    /\ \/ /\ allowed /\ ~started
          /\ run' = "listen"
          /\ UNCHANGED <<phase, due, refreshes, serving>>
       \/ /\ allowed /\ started
          /\ run' = "refresh" /\ refreshes' = Append(refreshes, "run")
          /\ UNCHANGED <<phase, due, serving>>
       \/ /\ ~allowed /\ started
          /\ run' = "close" /\ serving' = FALSE
          /\ UNCHANGED <<phase, due, refreshes>>
       \/ /\ ~allowed /\ ~started
          /\ RunEnds(TRUE)
          /\ UNCHANGED <<refreshes, serving>>
    /\ UNCHANGED <<allowed, folders, lifecycle, started, healthy, write, file, probe,
                   history, bounds>>

\* start: the server listens, and the first descriptor is on its way
Listen ==
    /\ run = "listen"
    /\ started' = TRUE /\ serving' = TRUE
    /\ write' = [write EXCEPT !["start"] = Captured]
    /\ run' = "write"
    /\ UNCHANGED <<allowed, folders, phase, lifecycle, healthy, due, refreshes, file, probe,
                   history, bounds>>

\* start rejects before the server listens
ListenFails ==
    /\ run = "listen" /\ MayFail
    /\ RunEnds(FALSE)
    /\ UNCHANGED <<allowed, folders, lifecycle, started, healthy, serving, refreshes, write,
                   file, probe, history, policyChanges, probes>>

\* start could not publish: the server is closed, the descriptor is removed
Undo ==
    /\ run = "undo"
    /\ file' = Nil
    /\ RunEnds(FALSE)
    /\ UNCHANGED <<allowed, folders, lifecycle, started, healthy, serving, refreshes, write,
                   probe, history, bounds>>

\* stop: the server is closed
Closed ==
    /\ run = "close"
    /\ started' = FALSE /\ healthy' = FALSE
    /\ run' = "remove"
    /\ UNCHANGED <<allowed, folders, phase, lifecycle, serving, due, refreshes, write, file,
                   probe, history, bounds>>

\* Mutant: stop leaves the descriptor.
RemoveNothing ==
    /\ run = "remove"
    /\ RunEnds(TRUE)
    /\ UNCHANGED <<allowed, folders, lifecycle, started, healthy, serving, refreshes, write,
                   file, probe, history, bounds>>

Remove ==
    /\ run = "remove"
    /\ file' = Nil
    /\ RunEnds(TRUE)
    /\ UNCHANGED <<allowed, folders, lifecycle, started, healthy, serving, refreshes, write,
                   probe, history, bounds>>

-----------------------------------------------------------------------------
(* Refreshes, and the writes of descriptors.                               *)

\* Mutant: every refresh ends a run of the reconcile queue.
RefreshEndsRun ==
    /\ refreshes' = Tail(refreshes)
    /\ RunEnds(TRUE)

\* The refresh at the head of the queue is over, and whoever waits for it goes on.
RefreshEnds ==
    /\ refreshes' = Tail(refreshes)
    /\ CASE Head(refreshes) = "run" -> RunEnds(TRUE)
         [] Head(refreshes) = "activate" -> phase' = "watching" /\ UNCHANGED <<run, due>>
         [] OTHER -> UNCHANGED <<phase, run, due>>

\* The turn of a refresh: #writeDescriptor does nothing when the host is not started.
Refresh ==
    /\ refreshes # <<>> /\ write["refresh"] = NoWrite
    /\ IF started
       THEN /\ write' = [write EXCEPT !["refresh"] = Captured]
            /\ UNCHANGED <<refreshes, phase, run, due>>
       ELSE RefreshEnds /\ UNCHANGED write
    /\ UNCHANGED <<allowed, folders, lifecycle, started, healthy, serving, file, probe,
                   history, bounds>>

\* publishPrivateJson: the temporary file is written, hardened and renamed
Rename(w) ==
    /\ write[w].at = "temporary"
    /\ file' = write[w].descriptor
    /\ write' = [write EXCEPT ![w].at = "published"]
    /\ UNCHANGED <<allowed, folders, phase, lifecycle, started, healthy, serving, due, run,
                   refreshes, probe, history, bounds>>

\* The descriptor is hardened in its place.
Harden(w) ==
    /\ write[w].at = "published"
    /\ write' = [write EXCEPT ![w] = NoWrite]
    /\ healthy' = TRUE
    /\ IF w = "start" THEN RunEnds(TRUE) /\ UNCHANGED refreshes ELSE RefreshEnds
    /\ UNCHANGED <<allowed, folders, lifecycle, started, serving, file, probe, history, bounds>>

\* Mutant: a refresh that fails never answers whoever waits for it.
NotWrittenUnanswered(w) ==
    /\ write' = [write EXCEPT ![w] = NoWrite]
    /\ IF w = "start"
       THEN /\ started' = FALSE /\ serving' = FALSE /\ run' = "undo"
            /\ UNCHANGED <<healthy, phase, due, refreshes>>
       ELSE /\ healthy' = FALSE
            /\ refreshes' = Tail(refreshes)
            /\ UNCHANGED <<started, serving, phase, run, due>>

\* The write rejects: start is undone, a refresh only says so.
NotWritten(w) ==
    /\ write' = [write EXCEPT ![w] = NoWrite]
    /\ IF w = "start"
       THEN /\ started' = FALSE /\ serving' = FALSE /\ run' = "undo"
            /\ UNCHANGED <<healthy, phase, due, refreshes>>
       ELSE /\ healthy' = FALSE
            /\ RefreshEnds
            /\ UNCHANGED <<started, serving>>

TemporaryFails(w) ==
    /\ write[w].at = "temporary" /\ MayFail
    /\ NotWritten(w)
    /\ UNCHANGED <<allowed, folders, lifecycle, file, probe, history, policyChanges, probes>>

HardenFails(w) ==
    /\ write[w].at = "published" /\ MayFail
    /\ write' = [write EXCEPT ![w].at = "rejected"]
    /\ UNCHANGED <<allowed, folders, phase, lifecycle, started, healthy, serving, due, run,
                   refreshes, file, probe, history, policyChanges, probes>>

\* A descriptor that could not be hardened is removed.
Withdraw(w) ==
    /\ write[w].at = "rejected"
    /\ file' = Nil
    /\ NotWritten(w)
    /\ UNCHANGED <<allowed, folders, lifecycle, probe, history, bounds>>

-----------------------------------------------------------------------------
(* The window.                                                             *)

\* Storage is recovered, or is not: markReady, markDegraded.
Recovered ==
    /\ phase = "storage"
    /\ lifecycle' \in {"ready", "degraded"}
    /\ phase' = "marking" /\ refreshes' = Append(refreshes, "activate")
    /\ UNCHANGED <<allowed, folders, started, healthy, serving, due, run, write, file, probe,
                   history, bounds>>

\* Events are watched once activate() has come to its end.
Watched == phase = "watching"

\* Mutant: a change is not queued while another one is served.
PolicyChangesOnce ==
    /\ policyChanges < MaxPolicyChanges
    /\ allowed' = ~allowed
    /\ due' = IF Watched THEN 1 ELSE due
    /\ missed' = ~Watched
    /\ overlapped' = (overlapped \/ \E i \in DOMAIN refreshes : refreshes[i] = "folders")
    /\ policyChanges' = policyChanges + 1
    /\ UNCHANGED <<folders, phase, lifecycle, started, healthy, serving, run, refreshes, write,
                   file, probe, probes, failures>>

PolicyChanges ==
    /\ policyChanges < MaxPolicyChanges
    /\ allowed' = ~allowed
    /\ due' = IF Watched THEN due + 1 ELSE due
    /\ missed' = ~Watched
    /\ overlapped' = (overlapped \/ \E i \in DOMAIN refreshes : refreshes[i] = "folders")
    /\ policyChanges' = policyChanges + 1
    /\ UNCHANGED <<folders, phase, lifecycle, started, healthy, serving, run, refreshes, write,
                   file, probe, probes, failures>>

FoldersChange ==
    /\ folders < MaxFolders
    /\ folders' = folders + 1
    /\ refreshes' = IF Watched /\ started THEN Append(refreshes, "folders") ELSE refreshes
    /\ overlapped' = (overlapped \/ ~Watched \/ due > 0)
    /\ UNCHANGED <<allowed, phase, lifecycle, started, healthy, serving, due, run, write, file,
                   probe, missed, bounds>>

-----------------------------------------------------------------------------
(* Discovery, in the daemon.                                               *)

Discover ==
    /\ probe = "none" /\ file # Nil
    /\ probes < MaxProbes /\ probes' = probes + 1
    /\ probe' = "read"
    /\ UNCHANGED <<allowed, folders, host, file, history, policyChanges, failures>>

\* The probe connects and initializes, or the descriptor counts as dead.
Probe ==
    /\ probe = "read"
    /\ probe' = IF serving THEN "none" ELSE "remove"
    /\ overlapped' = (overlapped \/ ~serving)
    /\ UNCHANGED <<allowed, folders, host, file, missed, bounds>>

Forget ==
    /\ probe = "remove"
    /\ file' = Nil
    /\ probe' = "none"
    /\ UNCHANGED <<allowed, folders, host, history, bounds>>

Next ==
    \/ Reconcile \/ Listen \/ ListenFails \/ Undo \/ Closed \/ Remove
    \/ Refresh
    \/ \E w \in Writers : \/ Rename(w) \/ Harden(w) \/ TemporaryFails(w)
                          \/ HardenFails(w) \/ Withdraw(w)
    \/ Recovered \/ PolicyChanges \/ FoldersChange
    \/ Discover \/ Probe \/ Forget

Spec == Init /\ [][Next]_vars

\* Every promise of the window is settled, one way or the other; files, the
\* server and the storage answer.
Fairness ==
    /\ WF_vars(Reconcile) /\ WF_vars(Listen \/ ListenFails)
    /\ WF_vars(Undo) /\ WF_vars(Closed) /\ WF_vars(Remove)
    /\ WF_vars(Refresh) /\ WF_vars(Recovered)
    /\ \A w \in Writers : WF_vars(Rename(w) \/ Harden(w) \/ Withdraw(w))

FairSpec == Spec /\ Fairness

-----------------------------------------------------------------------------
(* Properties.                                                             *)

\* Nothing is under way in the window or in a discovery.
AtRest ==
    /\ Watched /\ due = 0 /\ refreshes = <<>> /\ probe = "none"
    /\ \A w \in Writers : write[w] = NoWrite

\* When nothing is under way, the reconcile queue of extension.ts has served the
\* last change of the policy: the window listens if and only if it may publish,
\* unless the change was missed, which is possible while activate() runs
\* (extension.ts:85-157), or a start has failed, which nothing repeats.
FollowsPolicy ==
    AtRest /\ ~missed => /\ ~allowed => ~started /\ ~serving
                         /\ allowed /\ failures = 0 => started /\ serving

\* The registry tells the truth about the window: no descriptor if it does not
\* listen; if it does, one with its folders and lifecycle, or Doctor reports it.
Accurate ==
    IF started THEN /\ healthy => file = Current
                    /\ failures = 0 => healthy
    ELSE file = Nil

\* When nothing is under way the registry is accurate, whatever failed, unless
\* two things crossed that no queue orders: a change of the folders and a run of
\* the reconcile queue (extension.ts:82, 152), or a discovery that found the
\* listener closed and its removal of the descriptor (instances.ts:71-84).
OnlyOverlapped == AtRest /\ ~overlapped => Accurate

\* A change of the policy is served in the end: no run of the queue waits for
\* ever, whatever fails.
Settles == due > 0 ~> due = 0
================================================================================
