----------------------------- MODULE ChangeSet -----------------------------
(***************************************************************************)
(* Change sets of one window: ChangeSetManager prepares an edit of several *)
(* documents, or a plan of resource operations, and applies it later, once, *)
(* against documents and files that the user and other calls change in the *)
(* meantime.  A call that is refused at once (policy, unknown or consumed  *)
(* change set) changes nothing and is no step.                             *)
(*                                                                         *)
(* The text of a document and the content of a file, or of a directory     *)
(* with all that is below it, is one value; equal values have equal hashes. *)
(***************************************************************************)
EXTENDS Naturals, Sequences, FiniteSets

CONSTANTS Docs,       \* documents of the window
          Targets,    \* the sets of documents that text change sets are asked for
          Paths,      \* resources a plan may touch, none below another
          Sets,       \* identifiers of change sets
          Requests,   \* calls of apply
          Plans,      \* the plans that are asked for: sequences of operations
          Original, Foreign,   \* content at the start, content others write
          Created,    \* content of a create operation
          Torn,       \* what an operation that fails half-way leaves
          Absent,     \* no such resource
          Nil,
          MaxEdits,   \* bound: changes by others
          MaxFaults   \* bound: calls of VS Code that fail

Contents == {Original, Foreign, Created, Torn, Absent}
Texts == {Original, Foreign} \cup Sets

\* The paths of an operation, in the order the code looks at them.
Parts(op) == IF op.op = "rename" THEN <<op.path, op.target>> ELSE <<op.path>>

Touched(op) == {Parts(op)[k] : k \in DOMAIN Parts(op)}

Operations ==
    [op : {"create", "delete"}, path : Paths]
    \cup {o \in [op : {"rename"}, path : Paths, target : Paths] : o.path # o.target}

\* assertNonOverlappingResourcePaths
NonOverlapping(plan) ==
    \A m, n \in DOMAIN plan : m # n => Touched(plan[m]) \cap Touched(plan[n]) = {}

ASSUME PlansAssumption ==
    \A plan \in Plans : plan \in Seq(Operations) /\ plan # <<>> /\ NonOverlapping(plan)
ASSUME TargetsAssumption == Targets \subseteq SUBSET Docs \ {{}}
ASSUME BoundsAssumption == MaxEdits \in Nat /\ MaxFaults \in Nat
ASSUME NilAssumption == Nil \notin Requests \cup {"text", "resource"}

VARIABLES
    docs,    \* document -> its text, its version and whether VS Code holds it
    fs,      \* resource -> content
    sets,    \* #changeSets, and the change sets that are being prepared
    job,     \* request -> the apply it carries out
    edits, faults

vars == <<docs, fs, sets, job, edits, faults>>

NoSet == [state |-> "none", kind |-> Nil, items |-> <<>>, before |-> <<>>,
          versions |-> FALSE, expired |-> FALSE, at |-> 1, part |-> 1]
NoJob == [phase |-> "idle", set |-> Nil, at |-> 1, part |-> 1, pending |-> {}, late |-> {},
          waited |-> FALSE, sent |-> <<>>, half |-> {}, bad |-> FALSE, cleared |-> FALSE,
          result |-> Nil]

Init ==
    /\ docs \in [Docs -> [text : {Original}, version : {1}, open : BOOLEAN]]
    /\ fs \in [Paths -> {Original, Absent}]
    /\ sets = [i \in Sets |-> NoSet]
    /\ job = [r \in Requests |-> NoJob]
    /\ edits = 0 /\ faults = 0

With(f, x, v) == [y \in DOMAIN f \cup {x} |-> IF y = x THEN v ELSE f[y]]

\* Another actor than r changed these documents or resources; once the edit of a
\* text change set is sent, VS Code watches over it.
Disturbed(r, changed) ==
    [q \in Requests |->
        IF q = r \/ job[q].phase \in {"idle", "sent"} THEN job[q] ELSE [job[q] EXCEPT !.late = @ \cup changed]]

\* snapshotResource, as far as its digest tells contents apart.
Snapshot(p) == fs[p]

(***************************************************************************)
(* Preparation                                                             *)
(***************************************************************************)

\* #purgeExpired
Purged ==
    [i \in Sets |->
        IF \/ sets[i].state = "consumed"
           \/ sets[i].state = "prepared" /\ sets[i].expired
        THEN [sets[i] EXCEPT !.state = "purged"] ELSE sets[i]]

Prepare(i) ==
    /\ sets[i].state = "none"
    /\ \/ \E ds \in Targets, v \in BOOLEAN :
              sets' = [Purged EXCEPT ![i] =
                          [NoSet EXCEPT !.state = "preparing", !.kind = "text",
                                        !.items = ds, !.versions = v]]
       \/ \E plan \in Plans :
              sets' = [Purged EXCEPT ![i] =
                          [NoSet EXCEPT !.state = "preparing", !.kind = "resource",
                                        !.items = plan]]
    /\ UNCHANGED <<docs, fs, job, edits, faults>>

\* resolveExistingDocument: a document that is opened starts at version 1.
Opened(d) == IF docs[d].open THEN docs[d] ELSE [docs[d] EXCEPT !.version = 1, !.open = TRUE]

\* #prepare and prepareRename, one document: the caller read this text before.
PrepareDocument(i, d) ==
    /\ sets[i].state = "preparing" /\ sets[i].kind = "text"
    /\ d \in sets[i].items \ DOMAIN sets[i].before
    /\ docs' = [docs EXCEPT ![d] = Opened(d)]
    /\ sets' = [sets EXCEPT ![i].before = With(@, d, Opened(d))]
    /\ UNCHANGED <<fs, job, edits, faults>>

\* validateRequestedPreconditions; the snapshots are those of the operation.
Admissible(op, before) ==
    CASE op.op = "create" -> before[op.path] = Absent
      [] op.op = "delete" -> before[op.path] # Absent
      [] op.op = "rename" -> before[op.path] # Absent /\ before[op.target] = Absent

\* snapshotResource of the next path of the plan.
PrepareResource(i) ==
    LET s == sets[i]  op == s.items[s.at]  p == Parts(op)[s.part]
        before == With(s.before, p, Snapshot(p))
    IN /\ s.state = "preparing" /\ s.kind = "resource" /\ s.at <= Len(s.items)
       /\ sets' = [sets EXCEPT ![i] =
             IF s.part < Len(Parts(op))
             THEN [s EXCEPT !.before = before, !.part = @ + 1]
             ELSE IF Admissible(op, before)
             THEN [s EXCEPT !.before = before, !.at = @ + 1, !.part = 1]
             ELSE [NoSet EXCEPT !.state = "purged"]]
       /\ UNCHANGED <<docs, fs, job, edits, faults>>

Prepared(i) ==
    /\ sets[i].state = "preparing"
    /\ IF sets[i].kind = "text" THEN DOMAIN sets[i].before = sets[i].items
                                ELSE sets[i].at > Len(sets[i].items)
    /\ sets' = [sets EXCEPT ![i].state = "prepared", ![i].at = 1]
    /\ UNCHANGED <<docs, fs, job, edits, faults>>

\* The time to live of a prepared change set passes.
Expires(i) ==
    /\ sets[i].state = "prepared" /\ ~ sets[i].expired
    /\ sets' = [sets EXCEPT ![i].expired = TRUE]
    /\ UNCHANGED <<docs, fs, job, edits, faults>>

(***************************************************************************)
(* applyPrepared of a text change set                                      *)
(***************************************************************************)

Ended(j, result) == [j EXCEPT !.phase = "done", !.result = result]

\* Mutant: the version stands for the text.
ExpectedVersion(i, d, doc) == sets[i].versions => doc.version = sets[i].before[d].version

\* assertExpectedDocument
Expected(i, d, doc) ==
    /\ doc.text = sets[i].before[d].text
    /\ sets[i].versions => doc.version = sets[i].before[d].version

\* The edit leaves for the main thread with the versions the extension host has.
Sent(j, ds, now) ==
    [j EXCEPT !.phase = "sent", !.pending = {}, !.sent = [d \in ds |-> now[d].version]]

\* The state is consumed before anything is looked at.
Consume(r, i) ==
    /\ job[r].phase = "idle" /\ sets[i].state = "prepared"
    /\ sets' = [sets EXCEPT ![i].state = "consumed"]

ApplyExpired(r, i) ==
    /\ Consume(r, i) /\ sets[i].expired
    /\ job' = [job EXCEPT ![r] = Ended([NoJob EXCEPT !.set = i], "expired")]
    /\ UNCHANGED <<docs, fs, edits, faults>>

\* Documents VS Code holds are checked before anything else can run.
ApplyText(r, i) ==
    LET held == {d \in sets[i].items : docs[d].open}
        j == [NoJob EXCEPT !.set = i, !.phase = "resolve", !.pending = sets[i].items \ held,
                           !.waited = held # sets[i].items]
    IN /\ Consume(r, i) /\ ~ sets[i].expired /\ sets[i].kind = "text"
       /\ job' = [job EXCEPT ![r] =
             IF \E d \in held : ~ Expected(i, d, docs[d]) THEN Ended(j, "stale")
             ELSE IF j.waited THEN j ELSE Sent(j, held, docs)]
       /\ UNCHANGED <<docs, fs, edits, faults>>

\* A document that had to be opened arrives, or cannot be opened.
Resolve(r, d) ==
    LET j == job[r]  ds == sets[j.set].items  now == [docs EXCEPT ![d] = Opened(d)]
    IN /\ j.phase = "resolve" /\ d \in j.pending
       /\ docs' = now
       /\ job' = [job EXCEPT ![r] =
             IF ~ Expected(j.set, d, now[d]) THEN Ended(j, "stale")
             ELSE LET checked == [j EXCEPT !.pending = @ \ {d}, !.late = @ \ {d}]
                  IN IF checked.pending = {} THEN Sent(checked, ds, now) ELSE checked]
       /\ UNCHANGED <<fs, sets, edits, faults>>

OpenFails(r) ==
    /\ job[r].phase = "resolve" /\ faults < MaxFaults
    /\ job' = [job EXCEPT ![r] = Ended(@, "failed")]
    /\ faults' = faults + 1
    /\ UNCHANGED <<docs, fs, sets, edits>>

\* VS Code applies all or nothing: it refuses when a version has moved on.
Accepts(sent) == \A d \in DOMAIN sent : docs[d].version = sent[d]

EditLands(r) ==
    LET j == job[r]
    IN /\ j.phase = "sent"
       /\ IF Accepts(j.sent)
          THEN /\ docs' = [d \in Docs |->
                     IF d \in DOMAIN j.sent
                     THEN [text |-> j.set, version |-> docs[d].version + 1, open |-> TRUE]
                     ELSE docs[d]]
               /\ job' = [Disturbed(r, DOMAIN j.sent) EXCEPT ![r] = Ended(j, "applied")]
          ELSE /\ job' = [job EXCEPT ![r] = Ended(j, "refused")]
               /\ UNCHANGED docs
       /\ UNCHANGED <<fs, sets, edits, faults>>

(***************************************************************************)
(* applyPrepared of a resource plan                                        *)
(***************************************************************************)

ApplyResources(r, i) ==
    /\ Consume(r, i) /\ ~ sets[i].expired /\ sets[i].kind = "resource"
    /\ job' = [job EXCEPT ![r] = [NoJob EXCEPT !.set = i, !.phase = "fresh"]]
    /\ UNCHANGED <<docs, fs, edits, faults>>

Plan(r) == sets[job[r].set].items
Before(r) == sets[job[r].set].before

\* Mutant: only the existence is compared.
SameExistence(r, p) == (Snapshot(p) = Absent) = (Before(r)[p] = Absent)
\* sameSnapshot
SameSnapshot(r, p) == Snapshot(p) = Before(r)[p]

\* assertResourcePlanFresh, one snapshot.
CheckFresh(r) ==
    LET j == job[r]  op == Plan(r)[j.at]  p == Parts(op)[j.part]
        next == IF j.part < Len(Parts(op)) THEN [j EXCEPT !.part = @ + 1]
                ELSE IF j.at < Len(Plan(r)) THEN [j EXCEPT !.at = @ + 1, !.part = 1]
                ELSE [j EXCEPT !.phase = "apply", !.at = 1, !.part = 1]
    IN /\ j.phase = "fresh"
       /\ job' = [job EXCEPT ![r] =
             IF SameSnapshot(r, p) THEN [next EXCEPT !.late = j.late \ {p}] ELSE Ended(j, "stale")]
       /\ UNCHANGED <<docs, fs, sets, edits, faults>>

\* applyOperation as the file system carries it out, and when it can.
Result(op, f) ==
    CASE op.op = "create" -> [f EXCEPT ![op.path] = Created]
      [] op.op = "delete" -> [f EXCEPT ![op.path] = Absent]
      [] op.op = "rename" -> [f EXCEPT ![op.path] = Absent, ![op.target] = f[op.path]]

Possible(op, f) ==
    CASE op.op = "create" -> TRUE
      [] op.op = "delete" -> f[op.path] # Absent
      [] op.op = "rename" -> f[op.path] # Absent /\ f[op.target] = Absent

ApplyOperation(r) ==
    LET j == job[r]  op == Plan(r)[j.at]
    IN /\ j.phase = "apply" /\ Possible(op, fs)
       /\ fs' = Result(op, fs)
       /\ job' = [Disturbed(r, Touched(op)) EXCEPT ![r] =
             IF j.at < Len(Plan(r)) THEN [j EXCEPT !.at = @ + 1] ELSE Ended(j, "applied")]
       /\ UNCHANGED <<docs, sets, edits, faults>>

\* The catch of applyResourcePlan: the operations before this one are restored.
Failing(j, half) ==
    IF j.at = 1 THEN Ended([j EXCEPT !.half = half], "failed")
    ELSE [j EXCEPT !.phase = "restore", !.half = half, !.at = @ - 1, !.part = 0]

OperationFails(r) ==
    LET j == job[r]  op == Plan(r)[j.at]
    IN /\ j.phase = "apply"
       /\ \/ /\ ~ Possible(op, fs)
             /\ job' = [job EXCEPT ![r] = Failing(j, {})]
             /\ UNCHANGED <<fs, faults>>
          \/ /\ faults < MaxFaults /\ faults' = faults + 1
             /\ \/ /\ job' = [job EXCEPT ![r] = Failing(j, {})]
                   /\ UNCHANGED fs
                \/ /\ op.op # "rename"
                   /\ fs' = [fs EXCEPT ![op.path] = Torn]
                   /\ job' = [Disturbed(r, {op.path}) EXCEPT ![r] = Failing(j, {op.path})]
       /\ UNCHANGED <<docs, sets, edits>>

\* Mutant: the target of a rename stays.
RestoredSource(j, op) == op.path
\* Restoring begins with the last path of the operation; part 0 means not begun.
Restored(j, op) == Parts(op)[IF j.part = 0 THEN Len(Parts(op)) ELSE j.part]

AfterOperation(j) ==
    IF j.at > 1 THEN [j EXCEPT !.at = @ - 1, !.part = 0, !.cleared = FALSE]
    ELSE Ended([j EXCEPT !.cleared = FALSE], IF j.bad THEN "recovery" ELSE "failed")

AfterPath(j, op) ==
    IF Restored(j, op) = op.path THEN AfterOperation(j)
    ELSE [j EXCEPT !.part = 1, !.cleared = FALSE]

\* restoreSnapshot: what is there is deleted, whoever wrote it ...
RestoreClear(r) ==
    LET j == job[r]  op == Plan(r)[j.at]  p == Restored(j, op)
    IN /\ j.phase = "restore" /\ ~ j.cleared
       /\ fs' = [fs EXCEPT ![p] = Absent]
       /\ job' = [Disturbed(r, IF Snapshot(p) = Absent THEN {} ELSE {p}) EXCEPT ![r] =
             IF Before(r)[p] = Absent THEN AfterPath(j, op) ELSE [j EXCEPT !.cleared = TRUE]]
       /\ UNCHANGED <<docs, sets, edits, faults>>

\* ... and the content of the snapshot is written.
RestoreWrite(r) ==
    LET j == job[r]  op == Plan(r)[j.at]  p == Restored(j, op)
    IN /\ j.phase = "restore" /\ j.cleared
       /\ fs' = [fs EXCEPT ![p] = Before(r)[p]]
       /\ job' = [Disturbed(r, {p}) EXCEPT ![r] = AfterPath(j, op)]
       /\ UNCHANGED <<docs, sets, edits, faults>>

RestoreFails(r) ==
    LET j == job[r]  half == j.half \cup Touched(Plan(r)[j.at])
    IN /\ j.phase = "restore" /\ faults < MaxFaults
       /\ faults' = faults + 1
       /\ job' = [job EXCEPT ![r] = AfterOperation([j EXCEPT !.bad = TRUE, !.half = half])]
       /\ UNCHANGED <<docs, fs, sets, edits>>

(***************************************************************************)
(* Everyone else                                                           *)
(***************************************************************************)

\* The user, or a program, changes a text; VS Code holds the document then.
EditDocument(d, t) ==
    /\ edits < MaxEdits /\ t # docs[d].text
    /\ docs' = [docs EXCEPT ![d] = [text |-> t, version |-> Opened(d).version + 1, open |-> TRUE]]
    /\ edits' = edits + 1
    /\ job' = Disturbed(Nil, {d})
    /\ UNCHANGED <<fs, sets, faults>>

\* VS Code lets go of a document that no editor shows; one that an apply in
\* progress has opened stays for minutes.
CloseDocument(d) ==
    /\ docs[d].open
    /\ \A r \in Requests : job[r].phase \in {"resolve", "sent"} => d \notin sets[job[r].set].items
    /\ docs' = [docs EXCEPT ![d].open = FALSE]
    /\ UNCHANGED <<fs, sets, job, edits, faults>>

ChangeResource(p, v) ==
    /\ edits < MaxEdits /\ v # fs[p]
    /\ fs' = [fs EXCEPT ![p] = v]
    /\ edits' = edits + 1
    /\ job' = Disturbed(Nil, {p})
    /\ UNCHANGED <<docs, sets, faults>>

Next ==
    \/ \E i \in Sets :
          \/ Prepare(i) \/ PrepareResource(i) \/ Prepared(i) \/ Expires(i)
          \/ \E d \in Docs : PrepareDocument(i, d)
          \/ \E r \in Requests : ApplyExpired(r, i) \/ ApplyText(r, i) \/ ApplyResources(r, i)
    \/ \E r \in Requests :
          \/ OpenFails(r) \/ EditLands(r) \/ CheckFresh(r) \/ ApplyOperation(r)
          \/ OperationFails(r) \/ RestoreClear(r) \/ RestoreWrite(r) \/ RestoreFails(r)
          \/ \E d \in Docs : Resolve(r, d)
    \/ \E d \in Docs : CloseDocument(d) \/ \E t \in {Original, Foreign} : EditDocument(d, t)
    \/ \E p \in Paths, v \in {Foreign, Absent} : ChangeResource(p, v)

Spec == Init /\ [][Next]_vars

(***************************************************************************)
(* Properties                                                              *)
(***************************************************************************)

DocumentState == [text : Texts, version : 1..(1 + MaxEdits + Cardinality(Requests)), open : BOOLEAN]

TypeOK ==
    /\ docs \in [Docs -> DocumentState]
    /\ fs \in [Paths -> Contents]
    /\ \A i \in Sets :
          /\ sets[i].state \in {"none", "preparing", "prepared", "consumed", "purged"}
          /\ sets[i].kind \in {Nil, "text", "resource"}
          /\ sets[i].kind = "text" =>
                /\ sets[i].items \subseteq Docs
                /\ \A d \in DOMAIN sets[i].before : sets[i].before[d] \in DocumentState
          /\ sets[i].kind = "resource" =>
                /\ sets[i].items \in Plans
                /\ \A p \in DOMAIN sets[i].before : sets[i].before[p] \in Contents
    /\ \A r \in Requests :
          /\ job[r].phase \in {"idle", "resolve", "sent", "fresh", "apply", "restore", "done"}
          /\ job[r].set \in Sets \cup {Nil}
          /\ job[r].late \subseteq Docs \cup Paths
    /\ edits \in 0..MaxEdits /\ faults \in 0..MaxFaults

OperationOn(plan, p) == CHOOSE o \in {plan[n] : n \in DOMAIN plan} : p \in Touched(o)

\* What the operations of a plan leave at a path they touch.
Planned(plan, before, p) ==
    LET op == OperationOn(plan, p)
    IN CASE op.op = "create" -> Created
         [] op.op = "delete" -> Absent
         [] op.op = "rename" -> IF p = op.path THEN Absent ELSE before[op.path]

\* applyResourcePlan: an apply that says it succeeded has carried out the whole
\* plan, one that failed has put everything back.  Excepted are operations
\* on resources that others changed after the check, and the operation that failed,
\* or failed to be restored, half-way.
AllOrNothing ==
    \A r \in Requests :
        LET before == Before(r)
            kept == {p \in DOMAIN before :
                        Touched(OperationOn(Plan(r), p)) \cap (job[r].late \cup job[r].half) = {}}
        IN job[r].phase = "done" /\ sets[job[r].set].kind = "resource" =>
            /\ job[r].result = "applied" =>
                  \A p \in kept : fs[p] = Planned(Plan(r), before, p)
            /\ job[r].result \in {"failed", "recovery"} =>
                  \A p \in kept : fs[p] = before[p]

\* The content an apply or its restore overwrites or deletes is content that was
\* checked, that it wrote itself, or that came to a path of the same operation
\* after the check of that path.
NothingLost ==
    [][\A r \in Requests :
          (ApplyOperation(r) \/ OperationFails(r) \/ RestoreClear(r) \/ RestoreWrite(r)) =>
              \A p \in Paths : fs'[p] # fs[p] =>
                  \/ Touched(OperationOn(Plan(r), p)) \cap job[r].late # {}
                  \/ fs[p] \in {Before(r)[p], Planned(Plan(r), Before(r), p), Absent, Torn}]_vars

\* applyPrepared: a text edit lands on exactly the texts it was prepared for,
\* except on one that changed after its check while another was being opened.
EditIsFresh ==
    [][\A r \in Requests : EditLands(r) /\ job'[r].result = "applied" =>
          \A d \in DOMAIN job[r].sent :
              \/ docs[d].text = sets[job[r].set].before[d].text
              \/ job[r].waited /\ d \in job[r].late]_vars

\* applyResourcePlan, applyPrepared: what a change overwrites has been checked.
ChangesAreFresh == NothingLost /\ EditIsFresh

=============================================================================
