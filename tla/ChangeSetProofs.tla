--------------------------- MODULE ChangeSetProofs ---------------------------
(***************************************************************************)
(* Proofs about ChangeSet, for all documents, resources, plans, change     *)
(* sets and applies: a resource plan is carried out whole or put back, and *)
(* nothing is overwritten that was not checked.                            *)
(*                                                                         *)
(* The invariant follows an apply through its phases.  What others change  *)
(* meanwhile is in "late", which is what makes every part of it stable:    *)
(* each speaks of a resource only as long as no one else came to it.       *)
(*                                                                         *)
(* Last, the edits that a provider computes (CodeActions): they land on    *)
(* the texts the provider has read.                                        *)
(***************************************************************************)
EXTENDS MCChangeSet, SequenceTheorems, TLAPS

(***************************************************************************)
(* Types                                                                   *)
(***************************************************************************)

Document == [text : Texts, version : Nat, open : BOOLEAN]
Items == Plans \cup (SUBSET Docs) \cup {<<>>}
Snapshots == UNION {[S -> Contents \cup Document] : S \in SUBSET (Docs \cup Paths)}
ChangeSets ==
    [state : {"none", "preparing", "prepared", "consumed", "purged"}, kind : {Nil, "text", "resource"},
     items : Items, before : Snapshots, versions : BOOLEAN, expired : BOOLEAN, at : Nat, part : Nat]
Versions == UNION {[S -> Nat] : S \in SUBSET Docs}
Jobs ==
    [phase : {"idle", "resolve", "sent", "fresh", "apply", "restore", "done"}, set : Sets \cup {Nil},
     at : Nat, part : Nat, pending : SUBSET Docs, late : SUBSET (Docs \cup Paths), waited : BOOLEAN,
     sent : Versions, half : SUBSET Paths, bad : BOOLEAN, cleared : BOOLEAN,
     result : {Nil, "expired", "stale", "failed", "refused", "applied", "recovery"}]

TypeInv ==
    /\ docs \in [Docs -> Document] /\ fs \in [Paths -> Contents]
    /\ sets \in [Sets -> ChangeSets] /\ job \in [Requests -> Jobs]

(***************************************************************************)
(* Change sets                                                             *)
(***************************************************************************)

\* The paths of a plan
Extent(plan) == UNION {Touched(plan[n]) : n \in DOMAIN plan}

\* The paths of the operations before this one have been looked at, and some of its own.
Covered(s) ==
    /\ s.at \in 1..(Len(s.items) + 1)
    /\ \A n \in 1..(s.at - 1) : Touched(s.items[n]) \subseteq DOMAIN s.before
    /\ s.at <= Len(s.items) =>
          /\ s.part \in 1..Len(Parts(s.items[s.at]))
          /\ \A m \in 1..(s.part - 1) : Parts(s.items[s.at])[m] \in DOMAIN s.before

SetOK(s) ==
    /\ s.kind = "text" => s.items \in SUBSET Docs
    /\ s.kind = "resource" =>
          /\ s.items \in Plans /\ DOMAIN s.before \subseteq Extent(s.items)
          /\ \A p \in DOMAIN s.before : s.before[p] \in Contents
          /\ s.state = "preparing" => Covered(s)
          /\ s.state # "preparing" => Extent(s.items) \subseteq DOMAIN s.before

(***************************************************************************)
(* The apply of a text change set                                          *)
(***************************************************************************)

\* What was checked is still there, or the change since is known.
ResolveOK(j, s, ds) ==
    j.phase = "resolve" =>
        /\ s.kind = "text" /\ j.waited
        /\ \A d \in s.items \ j.pending :
              ds[d].open /\ (ds[d].text = s.before[d].text \/ d \in j.late)

\* So it is while the versions are those that were sent.
SentOK(j, s, ds) ==
    j.phase = "sent" =>
        /\ s.kind = "text" /\ DOMAIN j.sent = s.items
        /\ \A d \in s.items :
              /\ ds[d].open /\ ds[d].version >= j.sent[d]
              /\ ds[d].version = j.sent[d] =>
                    ds[d].text = s.before[d].text \/ (j.waited /\ d \in j.late)

(***************************************************************************)
(* The apply of a resource plan: of each operation                         *)
(***************************************************************************)

\* nothing is done yet, and what was checked is still there or the change since is known;
AsBefore(f, j, s, p) == f[p] = s.before[p] \/ p \in j.late

\* it is carried out, unless others came to its paths;
Done(f, j, s, op) ==
    Touched(op) \cap j.late = {} => \A p \in Touched(op) : f[p] = Planned(s.items, s.before, p)

\* it is being restored, its last path first;
Restoring(f, j, s, op) ==
    Touched(op) \cap j.late = {} =>
        \A p \in Touched(op) :
            f[p] = IF p = Restored(j, op)
                    THEN IF j.cleared THEN Absent ELSE Planned(s.items, s.before, p)
                    ELSE IF Restored(j, op) = op.path THEN s.before[p] ELSE Planned(s.items, s.before, p)

\* it is as it was, unless others came or it failed half-way.
PutBack(f, j, s, op) ==
    Touched(op) \cap (j.late \cup j.half) = {} => \A p \in Touched(op) : f[p] = s.before[p]

FreshOK(f, j, s) ==
    j.phase = "fresh" =>
        /\ s.kind = "resource" /\ j.at \in 1..Len(s.items) /\ j.part \in 1..Len(Parts(s.items[j.at]))
        /\ j.cleared = FALSE
        /\ \A n \in 1..(j.at - 1) : \A p \in Touched(s.items[n]) : AsBefore(f, j, s, p)
        /\ \A k \in 1..(j.part - 1) : AsBefore(f, j, s, Parts(s.items[j.at])[k])

ApplyOK(f, j, s) ==
    j.phase = "apply" =>
        /\ s.kind = "resource" /\ j.at \in 1..Len(s.items) /\ j.cleared = FALSE
        /\ \A n \in 1..(j.at - 1) : Done(f, j, s, s.items[n])
        /\ \A n \in j.at..Len(s.items) : \A p \in Touched(s.items[n]) : AsBefore(f, j, s, p)

RestoreOK(f, j, s) ==
    j.phase = "restore" =>
        /\ s.kind = "resource" /\ j.at \in 1..Len(s.items) /\ j.part \in {0, 1}
        /\ \A n \in 1..(j.at - 1) : Done(f, j, s, s.items[n])
        /\ Restoring(f, j, s, s.items[j.at])
        /\ \A n \in (j.at + 1)..Len(s.items) : PutBack(f, j, s, s.items[n])

DoneOK(f, j, s) ==
    j.phase = "done" /\ s.kind = "resource" =>
        \A n \in 1..Len(s.items) :
            /\ j.result = "applied" => Done(f, j, s, s.items[n])
            /\ j.result \in {"failed", "recovery"} => PutBack(f, j, s, s.items[n])

Taken(s) == s.state \in {"consumed", "purged"}

JobOK(f, ds, ss, j) ==
    j.phase # "idle" =>
        /\ j.set \in Sets /\ Taken(ss[j.set])
        /\ ResolveOK(j, ss[j.set], ds) /\ SentOK(j, ss[j.set], ds)
        /\ FreshOK(f, j, ss[j.set]) /\ ApplyOK(f, j, ss[j.set])
        /\ RestoreOK(f, j, ss[j.set]) /\ DoneOK(f, j, ss[j.set])

Inv ==
    /\ TypeInv
    /\ \A i \in Sets : SetOK(sets[i])
    /\ \A r \in Requests : JobOK(fs, docs, sets, job[r])

-----------------------------------------------------------------------------
(* Plans.                                                                  *)

LEMMA PartsOf ==
    ASSUME NEW op \in Operations
    PROVE  \/ /\ op.op = "rename" /\ op.path \in Paths /\ op.target \in Paths /\ op.path # op.target
              /\ Parts(op) = <<op.path, op.target>> /\ Len(Parts(op)) = 2 /\ Touched(op) = {op.path, op.target}
           \/ /\ op.op \in {"create", "delete"} /\ op.path \in Paths
              /\ Parts(op) = <<op.path>> /\ Len(Parts(op)) = 1 /\ Touched(op) = {op.path}
<1>1. CASE op \in [op : {"create", "delete"}, path : Paths]
  <2>1. op.op \in {"create", "delete"} /\ op.path \in Paths
    BY <1>1
  <2>2. Parts(op) = <<op.path>>
    BY <2>1 DEF Parts
  <2> QED BY <2>1, <2>2 DEF Touched
<1>2. CASE op \in {o \in [op : {"rename"}, path : Paths, target : Paths] : o.path # o.target}
  <2>1. op.op = "rename" /\ op.path \in Paths /\ op.target \in Paths /\ op.path # op.target
    BY <1>2
  <2>2. Parts(op) = <<op.path, op.target>>
    BY <2>1 DEF Parts
  <2>3. DOMAIN Parts(op) = {1, 2} /\ Parts(op)[1] = op.path /\ Parts(op)[2] = op.target
    BY <2>2
  <2> QED BY <2>1, <2>2, <2>3 DEF Touched
<1> QED BY <1>1, <1>2 DEF Operations

LEMMA PartsLen == ASSUME NEW op \in Operations PROVE Len(Parts(op)) \in {1, 2} /\ 1 \in 1..Len(Parts(op))
  BY PartsOf

LEMMA TouchedInPaths == ASSUME NEW op \in Operations PROVE Touched(op) \in SUBSET Paths
  BY PartsOf

\* assertNonOverlappingResourcePaths: every path belongs to one operation.
LEMMA OfPlan ==
    ASSUME NEW plan \in Plans
    PROVE  /\ plan \in Seq(Operations) /\ Len(plan) \in Nat /\ Len(plan) > 0 /\ DOMAIN plan = 1..Len(plan)
           /\ \A n \in 1..Len(plan) : plan[n] \in Operations /\ Touched(plan[n]) \in SUBSET Paths
           /\ \A m, n \in 1..Len(plan) : m # n => Touched(plan[m]) \cap Touched(plan[n]) = {}
           /\ \A n \in 1..Len(plan) : \A p \in Touched(plan[n]) : OperationOn(plan, p) = plan[n]
<1>1. plan \in Seq(Operations) /\ plan # <<>> /\ NonOverlapping(plan)
  BY PlansAssumption
<1>2. Len(plan) \in Nat /\ Len(plan) > 0 /\ DOMAIN plan = 1..Len(plan)
  BY <1>1
<1>3. \A n \in 1..Len(plan) : plan[n] \in Operations
  BY <1>1, <1>2
<1>4. \A m, n \in 1..Len(plan) : m # n => Touched(plan[m]) \cap Touched(plan[n]) = {}
  BY <1>1, <1>2 DEF NonOverlapping
<1>5. ASSUME NEW n \in 1..Len(plan), NEW p \in Touched(plan[n]) PROVE OperationOn(plan, p) = plan[n]
  <2>1. plan[n] \in {plan[m] : m \in DOMAIN plan}
    BY <1>2
  <2>2. \A o \in {plan[m] : m \in DOMAIN plan} : p \in Touched(o) => o = plan[n]
    BY <1>2, <1>4
  <2> QED BY <2>1, <2>2 DEF OperationOn
<1> QED BY <1>1, <1>2, <1>3, <1>4, <1>5, TouchedInPaths

-----------------------------------------------------------------------------
(* What others do to an apply.                                             *)

\* The same apply, of which more is known to have changed
Later(j, k, changed) ==
    /\ k \in Jobs /\ k.phase = j.phase /\ k.set = j.set /\ k.at = j.at /\ k.part = j.part
    /\ k.pending = j.pending /\ k.waited = j.waited /\ k.sent = j.sent /\ k.half = j.half
    /\ k.cleared = j.cleared /\ k.result = j.result
    /\ j.late \subseteq k.late /\ (j.phase \notin {"idle", "sent"} => changed \subseteq k.late)

LEMMA DisturbedIs ==
    ASSUME job \in [Requests -> Jobs], NEW r, NEW changed \in SUBSET (Docs \cup Paths), NEW q \in Requests, q # r
    PROVE  Later(job[q], Disturbed(r, changed)[q], changed)
<1>1. job[q] \in Jobs
  OBVIOUS
<1>2. CASE job[q].phase \in {"idle", "sent"}
  BY <1>1, <1>2 DEF Disturbed, Later
<1>3. CASE job[q].phase \notin {"idle", "sent"}
  <2> DEFINE k == [job[q] EXCEPT !.late = job[q].late \cup changed]
  <2>1. Disturbed(r, changed)[q] = k
    BY <1>3 DEF Disturbed
  <2>2. job[q].late \cup changed \in SUBSET (Docs \cup Paths)
    BY <1>1 DEF Jobs
  <2>3. k \in Jobs /\ k.late = job[q].late \cup changed
    BY <1>1, <2>2 DEF Jobs
  <2>4. /\ k.phase = job[q].phase /\ k.set = job[q].set /\ k.at = job[q].at /\ k.part = job[q].part
        /\ k.pending = job[q].pending /\ k.waited = job[q].waited /\ k.sent = job[q].sent
        /\ k.half = job[q].half /\ k.cleared = job[q].cleared /\ k.result = job[q].result
    BY <1>1 DEF Jobs
  <2> HIDE DEF k
  <2> QED BY <2>1, <2>3, <2>4 DEF Later
<1> QED BY <1>2, <1>3

LEMMA Undisturbed == ASSUME NEW j \in Jobs PROVE Later(j, j, {})
  BY DEF Later

\* What a taken change set was prepared for stays.
KeepsSets(ss, st) ==
    \A i \in Sets : Taken(ss[i]) =>
        Taken(st[i]) /\ st[i].kind = ss[i].kind /\ st[i].items = ss[i].items /\ st[i].before = ss[i].before

KeepsFiles(f, g, changed) == \A p \in Paths : g[p] = f[p] \/ p \in changed

\* A document that an apply has open stays so, and with a change its version grows.
KeepsDocs(j, ss, ds, es, changed) ==
    j.phase \in {"resolve", "sent"} =>
        \A d \in ss[j.set].items : ds[d].open =>
            \/ es[d] = ds[d]
            \/ d \in changed /\ es[d].open /\ es[d].version > ds[d].version

LEMMA Disturbance ==
    ASSUME NEW f, NEW g, NEW ds \in [Docs -> Document], NEW es \in [Docs -> Document], NEW ss, NEW st,
           NEW j \in Jobs, NEW k, NEW changed,
           \A i \in Sets : SetOK(ss[i]), JobOK(f, ds, ss, j), Later(j, k, changed),
           KeepsSets(ss, st), KeepsFiles(f, g, changed), KeepsDocs(j, ss, ds, es, changed)
    PROVE  JobOK(g, es, st, k)
<1> SUFFICES ASSUME k.phase # "idle" PROVE JobOK(g, es, st, k)
  BY DEF JobOK
<1> DEFINE s == ss[j.set]
           t == st[j.set]
<1>1. /\ j.phase # "idle" /\ k.phase = j.phase /\ k.set = j.set /\ k.at = j.at /\ k.part = j.part
      /\ k.pending = j.pending /\ k.waited = j.waited /\ k.sent = j.sent /\ k.half = j.half
      /\ k.cleared = j.cleared /\ k.result = j.result
      /\ j.late \subseteq k.late /\ (j.phase \notin {"idle", "sent"} => changed \subseteq k.late)
  BY DEF Later
<1>2. /\ j.set \in Sets /\ Taken(s) /\ ResolveOK(j, s, ds) /\ SentOK(j, s, ds)
      /\ FreshOK(f, j, s) /\ ApplyOK(f, j, s) /\ RestoreOK(f, j, s) /\ DoneOK(f, j, s)
  BY <1>1 DEF JobOK
<1>3. Taken(t) /\ t.kind = s.kind /\ t.items = s.items /\ t.before = s.before /\ SetOK(s)
  BY <1>2 DEF KeepsSets
<1>4. KeepsDocs(j, ss, ds, es, changed)
  OBVIOUS
<1> HIDE DEF s, t
<1>5. j.phase \in {"resolve", "sent"} => \A d \in s.items : ds[d].open =>
            \/ es[d] = ds[d]
            \/ d \in changed /\ es[d].open /\ es[d].version > ds[d].version
  BY <1>4 DEF KeepsDocs, s
<1>6. ResolveOK(k, t, es)
  BY <1>1, <1>2, <1>3, <1>5 DEF ResolveOK
<1>7. SentOK(k, t, es)
  <2> SUFFICES ASSUME j.phase = "sent" PROVE SentOK(k, t, es)
    BY <1>1 DEF SentOK
  <2>1. s.kind = "text" /\ DOMAIN j.sent = s.items /\ s.items \in SUBSET Docs
    BY <1>2, <1>3 DEF SentOK, SetOK
  <2>2. j.sent \in Versions
    BY DEF Jobs
  <2>3. \A d \in s.items : j.sent[d] \in Nat
    BY <2>1, <2>2 DEF Versions
  <2>4. ASSUME NEW d \in s.items
        PROVE  /\ es[d].open /\ es[d].version >= j.sent[d]
               /\ es[d].version = j.sent[d] => es[d].text = s.before[d].text \/ (j.waited /\ d \in k.late)
    <3>1. ds[d].version \in Nat /\ es[d].version \in Nat
      BY <2>1 DEF Document
    <3> QED BY <1>1, <1>2, <1>5, <2>3, <3>1 DEF SentOK
  <2> QED BY <1>1, <1>3, <2>1, <2>4 DEF SentOK
<1>8. ASSUME s.kind = "resource", j.phase \notin {"idle", "sent"}
      PROVE  /\ s.items \in Plans /\ Len(s.items) \in Nat
             /\ \A n \in 1..Len(s.items) : Touched(s.items[n]) \in SUBSET Paths
             /\ \A n \in 1..Len(s.items) : \A p \in Touched(s.items[n]) : AsBefore(f, j, s, p) => AsBefore(g, k, t, p)
             /\ \A n \in 1..Len(s.items) : Done(f, j, s, s.items[n]) => Done(g, k, t, t.items[n])
             /\ \A n \in 1..Len(s.items) : Restoring(f, j, s, s.items[n]) => Restoring(g, k, t, t.items[n])
             /\ \A n \in 1..Len(s.items) : PutBack(f, j, s, s.items[n]) => PutBack(g, k, t, t.items[n])
  <2>1. s.items \in Plans
    BY <1>3, <1>8 DEF SetOK
  <2>2. Len(s.items) \in Nat /\ \A n \in 1..Len(s.items) : Touched(s.items[n]) \in SUBSET Paths
    BY <2>1, OfPlan
  <2>3. \A p \in Paths : p \notin k.late => g[p] = f[p] /\ p \notin j.late
    BY <1>1, <1>8 DEF KeepsFiles
  <2>4. ASSUME NEW n \in 1..Len(s.items)
        PROVE  /\ \A p \in Touched(s.items[n]) : AsBefore(f, j, s, p) => AsBefore(g, k, t, p)
               /\ Done(f, j, s, s.items[n]) => Done(g, k, t, t.items[n])
               /\ Restoring(f, j, s, s.items[n]) => Restoring(g, k, t, t.items[n])
               /\ PutBack(f, j, s, s.items[n]) => PutBack(g, k, t, t.items[n])
    <3> DEFINE op == s.items[n]
    <3>1. Touched(op) \in SUBSET Paths /\ t.items[n] = op
      BY <1>3, <2>2
    <3> HIDE DEF op
    <3>2. \A p \in Touched(op) : p \notin k.late => g[p] = f[p] /\ p \notin j.late
      BY <2>3, <3>1
    <3>3. \A p \in Touched(op) : AsBefore(f, j, s, p) => AsBefore(g, k, t, p)
      BY <1>3, <3>2 DEF AsBefore
    <3>4. Touched(op) \cap k.late = {} => Touched(op) \cap j.late = {} /\ \A p \in Touched(op) : g[p] = f[p]
      BY <3>2
    <3>5. Done(f, j, s, op) => Done(g, k, t, op)
      BY <1>3, <3>4 DEF Done
    <3>6. Restored(k, op) = Restored(j, op)
      BY <1>1 DEF Restored
    <3>7. Restoring(f, j, s, op) => Restoring(g, k, t, op)
      BY <1>1, <1>3, <3>4, <3>6 DEF Restoring
    <3>8. PutBack(f, j, s, op) => PutBack(g, k, t, op)
      BY <1>1, <1>3, <3>2 DEF PutBack
    <3> QED BY <3>1, <3>3, <3>5, <3>7, <3>8 DEF op
  <2> QED BY <2>1, <2>2, <2>4
<1>9. FreshOK(g, k, t)
  <2> SUFFICES ASSUME j.phase = "fresh" PROVE FreshOK(g, k, t)
    BY <1>1 DEF FreshOK
  <2>1. /\ s.kind = "resource" /\ j.at \in 1..Len(s.items) /\ j.part \in 1..Len(Parts(s.items[j.at]))
        /\ j.cleared = FALSE
        /\ \A n \in 1..(j.at - 1) : \A p \in Touched(s.items[n]) : AsBefore(f, j, s, p)
        /\ \A m \in 1..(j.part - 1) : AsBefore(f, j, s, Parts(s.items[j.at])[m])
    BY <1>2 DEF FreshOK
  <2>2. \A n \in 1..(j.at - 1) : n \in 1..Len(s.items)
    BY <1>8, <2>1
  <2>3. \A m \in 1..(j.part - 1) : Parts(s.items[j.at])[m] \in Touched(s.items[j.at])
    <3>1. s.items[j.at] \in Operations
      BY <1>8, <2>1, OfPlan
    <3> DEFINE op == s.items[j.at]
    <3>2. DOMAIN Parts(op) = 1..Len(Parts(op)) /\ Len(Parts(op)) \in Nat
      BY <3>1, PartsOf
    <3>3. j.part \in 1..Len(Parts(op))
      BY <2>1
    <3> HIDE DEF op
    <3>4. \A m \in 1..(j.part - 1) : m \in DOMAIN Parts(op)
      BY <3>2, <3>3
    <3>5. \A m \in 1..(j.part - 1) : Parts(op)[m] \in Touched(op)
      BY <3>4 DEF Touched
    <3> QED BY <3>5 DEF op
  <2> QED BY <1>1, <1>3, <1>8, <2>1, <2>2, <2>3 DEF FreshOK
<1>10. ApplyOK(g, k, t)
  <2> SUFFICES ASSUME j.phase = "apply" PROVE ApplyOK(g, k, t)
    BY <1>1 DEF ApplyOK
  <2>1. /\ s.kind = "resource" /\ j.at \in 1..Len(s.items) /\ j.cleared = FALSE
        /\ \A n \in 1..(j.at - 1) : Done(f, j, s, s.items[n])
        /\ \A n \in j.at..Len(s.items) : \A p \in Touched(s.items[n]) : AsBefore(f, j, s, p)
    BY <1>2 DEF ApplyOK
  <2>2. /\ \A n \in 1..(j.at - 1) : n \in 1..Len(s.items)
        /\ \A n \in j.at..Len(s.items) : n \in 1..Len(s.items)
    BY <1>8, <2>1
  <2> QED BY <1>1, <1>3, <1>8, <2>1, <2>2 DEF ApplyOK
<1>11. RestoreOK(g, k, t)
  <2> SUFFICES ASSUME j.phase = "restore" PROVE RestoreOK(g, k, t)
    BY <1>1 DEF RestoreOK
  <2>1. /\ s.kind = "resource" /\ j.at \in 1..Len(s.items) /\ j.part \in {0, 1}
        /\ \A n \in 1..(j.at - 1) : Done(f, j, s, s.items[n])
        /\ Restoring(f, j, s, s.items[j.at])
        /\ \A n \in (j.at + 1)..Len(s.items) : PutBack(f, j, s, s.items[n])
    BY <1>2 DEF RestoreOK
  <2>2. /\ \A n \in 1..(j.at - 1) : n \in 1..Len(s.items)
        /\ \A n \in (j.at + 1)..Len(s.items) : n \in 1..Len(s.items)
    BY <1>8, <2>1
  <2> QED BY <1>1, <1>3, <1>8, <2>1, <2>2 DEF RestoreOK
<1>12. DoneOK(g, k, t)
  <2> SUFFICES ASSUME j.phase = "done", s.kind = "resource" PROVE DoneOK(g, k, t)
    BY <1>1, <1>3 DEF DoneOK
  <2> QED BY <1>1, <1>2, <1>3, <1>8 DEF DoneOK
<1> QED BY <1>1, <1>2, <1>3, <1>6, <1>7, <1>9, <1>10, <1>11, <1>12 DEF JobOK, t

-----------------------------------------------------------------------------
(* Preparation.                                                            *)

LEMMA OnlySets ==
    ASSUME Inv, docs' \in [Docs -> Document], sets' \in [Sets -> ChangeSets], \A i \in Sets : SetOK(sets'[i]),
           KeepsSets(sets, sets'), fs' = fs, job' = job, \A d \in Docs : docs[d].open => docs'[d] = docs[d]
    PROVE  Inv'
<1>1. TypeInv /\ TypeInv' /\ \A i \in Sets : SetOK(sets[i])
  BY DEF Inv, TypeInv
<1>2. ASSUME NEW r \in Requests PROVE JobOK(fs', docs', sets', job'[r])
  <2>1. job[r] \in Jobs /\ JobOK(fs, docs, sets, job[r])
    BY DEF Inv, TypeInv
  <2>2. Later(job[r], job[r], {})
    BY <2>1, Undisturbed
  <2>3. KeepsFiles(fs, fs, {})
    BY DEF KeepsFiles
  <2>4. KeepsDocs(job[r], sets, docs, docs', {})
    <3> SUFFICES ASSUME job[r].phase \in {"resolve", "sent"}, NEW d \in sets[job[r].set].items, docs[d].open
                 PROVE  docs'[d] = docs[d]
      BY DEF KeepsDocs
    <3>1. job[r].set \in Sets /\ sets[job[r].set].kind = "text"
      BY <2>1 DEF JobOK, ResolveOK, SentOK
    <3>2. d \in Docs
      BY <1>1, <3>1 DEF SetOK
    <3> QED BY <3>2
  <2>5. docs \in [Docs -> Document]
    BY <1>1 DEF TypeInv
  <2> QED BY <1>1, <2>1, <2>2, <2>3, <2>4, <2>5, Disturbance
<1> QED BY <1>1, <1>2 DEF Inv

LEMMA PurgedIs ==
    ASSUME Inv
    PROVE  /\ Purged \in [Sets -> ChangeSets] /\ \A i \in Sets : SetOK(Purged[i])
           /\ KeepsSets(sets, Purged)
<1>1. sets \in [Sets -> ChangeSets] /\ \A i \in Sets : SetOK(sets[i])
  BY DEF Inv, TypeInv
<1>2. ASSUME NEW i \in Sets
      PROVE  /\ Purged[i] \in ChangeSets /\ SetOK(Purged[i])
             /\ Taken(sets[i]) => Taken(Purged[i]) /\ Purged[i].kind = sets[i].kind
                                   /\ Purged[i].items = sets[i].items /\ Purged[i].before = sets[i].before
  <2>1. CASE Purged[i] = sets[i]
    BY <1>1, <2>1
  <2>2. CASE Purged[i] # sets[i]
    <3>1. Purged[i] = [sets[i] EXCEPT !.state = "purged"] /\ sets[i].state \in {"consumed", "prepared"}
      BY <2>2 DEF Purged
    <3>2. sets[i] \in ChangeSets
      BY <1>1
    <3>3. /\ Purged[i] \in ChangeSets /\ Purged[i].state = "purged" /\ Purged[i].kind = sets[i].kind
          /\ Purged[i].items = sets[i].items /\ Purged[i].before = sets[i].before
      BY <3>1, <3>2 DEF ChangeSets
    <3>4. SetOK(sets[i]) /\ sets[i].state # "preparing"
      BY <1>1, <3>1
    <3> QED BY <3>3, <3>4 DEF SetOK, Taken
  <2> QED BY <2>1, <2>2
<1>3. Purged \in [Sets -> ChangeSets]
  <2>1. DOMAIN Purged = Sets /\ Purged = [i \in Sets |-> Purged[i]]
    BY DEF Purged
  <2> QED BY <1>2, <2>1
<1> QED BY <1>2, <1>3 DEF KeepsSets

\* One change set that no apply has taken yet is replaced.
LEMMA OneSet ==
    ASSUME Inv, NEW ss \in [Sets -> ChangeSets], \A m \in Sets : SetOK(ss[m]), KeepsSets(sets, ss),
           NEW i \in Sets, ~Taken(sets[i]), NEW s \in ChangeSets, SetOK(s)
    PROVE  /\ [ss EXCEPT ![i] = s] \in [Sets -> ChangeSets]
           /\ \A m \in Sets : SetOK([ss EXCEPT ![i] = s][m])
           /\ KeepsSets(sets, [ss EXCEPT ![i] = s])
  BY DEF KeepsSets

LEMMA NoSetIs == NoSet \in ChangeSets /\ NoSet.kind = Nil /\ NoSet.at = 1 /\ NoSet.part = 1 /\ NoSet.before = <<>>
<1>1. <<>> \in [{} -> Contents \cup Document]
  OBVIOUS
<1>2. {} \in SUBSET (Docs \cup Paths)
  OBVIOUS
<1>3. <<>> \in Snapshots
  BY <1>1, <1>2 DEF Snapshots
<1>4. <<>> \in Items
  BY DEF Items
<1> QED BY <1>3, <1>4 DEF NoSet, ChangeSets

LEMMA PrepareKeeps == ASSUME Inv, NEW i \in Sets, Prepare(i) PROVE Inv'
<1>1. sets[i].state = "none" /\ UNCHANGED <<docs, fs, job, edits, faults>>
  BY DEF Prepare
<1>2. ~Taken(sets[i]) /\ docs' \in [Docs -> Document]
  BY SMTT(30), <1>1 DEF Taken, Inv, TypeInv
<1>3. PICK s : s \in ChangeSets /\ SetOK(s) /\ sets' = [Purged EXCEPT ![i] = s]
  <2>1. ASSUME NEW ds \in Targets, NEW v \in BOOLEAN,
               sets' = [Purged EXCEPT ![i] =
                          [NoSet EXCEPT !.state = "preparing", !.kind = "text", !.items = ds, !.versions = v]]
        PROVE  \E s : s \in ChangeSets /\ SetOK(s) /\ sets' = [Purged EXCEPT ![i] = s]
    <3> DEFINE s == [NoSet EXCEPT !.state = "preparing", !.kind = "text", !.items = ds, !.versions = v]
    <3>1. ds \in SUBSET Docs /\ ds \in Items
      BY TargetsAssumption DEF Items
    <3>2. s \in ChangeSets /\ s.kind = "text" /\ s.items = ds
      BY <3>1, NoSetIs DEF ChangeSets
    <3>3. SetOK(s)
      <4> HIDE DEF s
      <4> QED BY <3>1, <3>2 DEF SetOK
    <3> QED BY <2>1, <3>2, <3>3
  <2>2. ASSUME NEW plan \in Plans,
               sets' = [Purged EXCEPT ![i] =
                          [NoSet EXCEPT !.state = "preparing", !.kind = "resource", !.items = plan]]
        PROVE  \E s : s \in ChangeSets /\ SetOK(s) /\ sets' = [Purged EXCEPT ![i] = s]
    <3> DEFINE s == [NoSet EXCEPT !.state = "preparing", !.kind = "resource", !.items = plan]
    <3>1. plan \in Items
      BY DEF Items
    <3>2. s \in ChangeSets /\ s.kind = "resource" /\ s.items = plan /\ s.before = <<>> /\ s.at = 1 /\ s.part = 1
          /\ s.state = "preparing"
      BY <3>1, NoSetIs DEF ChangeSets
    <3>3. Len(plan) \in Nat /\ Len(plan) > 0 /\ 1 \in 1..Len(plan) /\ plan[1] \in Operations
      BY OfPlan
    <3>4. 1 \in 1..Len(Parts(plan[1]))
      BY <3>3, PartsOf
    <3>5. SetOK(s)
      <4> HIDE DEF s
      <4>1. DOMAIN s.before = {} /\ s.state = "preparing"
        BY <3>2
      <4>2. Covered(s)
        BY <3>2, <3>3, <3>4 DEF Covered
      <4> QED BY <3>2, <4>1, <4>2 DEF SetOK
    <3> QED BY <2>2, <3>2, <3>5
  <2> QED BY <2>1, <2>2 DEF Prepare
<1>4. /\ sets' \in [Sets -> ChangeSets] /\ \A m \in Sets : SetOK(sets'[m]) /\ KeepsSets(sets, sets')
  BY <1>2, <1>3, PurgedIs, OneSet
<1> QED BY <1>1, <1>2, <1>4, OnlySets

LEMMA WithIs ==
    ASSUME NEW b \in Snapshots, NEW x \in Docs \cup Paths, NEW v \in Contents \cup Document
    PROVE  With(b, x, v) \in Snapshots /\ DOMAIN With(b, x, v) = DOMAIN b \cup {x}
<1>1. PICK S \in SUBSET (Docs \cup Paths) : b \in [S -> Contents \cup Document]
  BY DEF Snapshots
<1>2. With(b, x, v) \in [S \cup {x} -> Contents \cup Document]
  BY <1>1 DEF With
<1>3. S \cup {x} \in SUBSET (Docs \cup Paths)
  BY <1>1
<1> QED BY <1>1, <1>2, <1>3 DEF Snapshots

LEMMA OpenedIs ==
    ASSUME docs \in [Docs -> Document], NEW d \in Docs
    PROVE  /\ Opened(d) \in Document /\ Opened(d).open /\ Opened(d).text = docs[d].text
           /\ docs[d].open => Opened(d) = docs[d]
<1>1. docs[d] \in Document
  OBVIOUS
<1>2. CASE docs[d].open
  BY <1>1, <1>2 DEF Opened
<1>3. CASE ~docs[d].open
  <2> DEFINE o == [docs[d] EXCEPT !.version = 1, !.open = TRUE]
  <2>1. Opened(d) = o
    BY <1>3 DEF Opened
  <2>2. o \in Document /\ o.open = TRUE /\ o.text = docs[d].text
    BY <1>1 DEF Document
  <2> HIDE DEF o
  <2>3. o.open
    BY <2>2, Zenon
  <2> QED BY <1>3, <2>1, <2>2, <2>3
<1> QED BY <1>2, <1>3

LEMMA PrepareDocumentKeeps == ASSUME Inv, NEW i \in Sets, NEW d \in Docs, PrepareDocument(i, d) PROVE Inv'
<1>1. /\ sets[i].state = "preparing" /\ sets[i].kind = "text" /\ docs' = [docs EXCEPT ![d] = Opened(d)]
      /\ sets' = [sets EXCEPT ![i].before = With(@, d, Opened(d))] /\ UNCHANGED <<fs, job, edits, faults>>
  BY DEF PrepareDocument
<1>2. docs \in [Docs -> Document] /\ sets \in [Sets -> ChangeSets] /\ \A m \in Sets : SetOK(sets[m])
  BY DEF Inv, TypeInv
<1>3. docs' \in [Docs -> Document] /\ \A e \in Docs : docs[e].open => docs'[e] = docs[e]
  BY <1>1, <1>2, OpenedIs
<1> DEFINE b == With(sets[i].before, d, Opened(d))
           s == [sets[i] EXCEPT !.before = b]
<1>4. sets[i] \in ChangeSets /\ SetOK(sets[i])
  BY <1>2
<1>5. b \in Snapshots
  <2>1. sets[i].before \in Snapshots
    BY <1>4 DEF ChangeSets
  <2> QED BY <1>2, <2>1, OpenedIs, WithIs
<1>6. sets' = [sets EXCEPT ![i] = s]
  BY <1>1
<1> HIDE DEF b
<1>7. s \in ChangeSets /\ s.kind = sets[i].kind /\ s.items = sets[i].items
  BY <1>4, <1>5 DEF ChangeSets
<1> HIDE DEF s
<1>8. SetOK(s)
  BY <1>1, <1>4, <1>7 DEF SetOK
<1>9. KeepsSets(sets, sets) /\ ~Taken(sets[i])
  BY <1>1 DEF KeepsSets, Taken
<1>10. sets' \in [Sets -> ChangeSets] /\ (\A m \in Sets : SetOK(sets'[m])) /\ KeepsSets(sets, sets')
  BY <1>2, <1>6, <1>7, <1>8, <1>9, OneSet
<1> QED BY <1>1, <1>3, <1>10, OnlySets

LEMMA PrepareResourceKeeps == ASSUME Inv, NEW i \in Sets, PrepareResource(i) PROVE Inv'
<1> DEFINE s == sets[i]
           op == s.items[s.at]
           p == Parts(op)[s.part]
           b == With(s.before, p, Snapshot(p))
<1>1. /\ s.state = "preparing" /\ s.kind = "resource" /\ s.at <= Len(s.items)
      /\ sets' = [sets EXCEPT ![i] =
             IF s.part < Len(Parts(op))
             THEN [s EXCEPT !.before = b, !.part = s.part + 1]
             ELSE IF Admissible(op, b)
             THEN [s EXCEPT !.before = b, !.at = s.at + 1, !.part = 1]
             ELSE [NoSet EXCEPT !.state = "purged"]]
      /\ UNCHANGED <<docs, fs, job, edits, faults>>
  BY DEF PrepareResource
<1>2. docs \in [Docs -> Document] /\ sets \in [Sets -> ChangeSets] /\ (\A m \in Sets : SetOK(sets[m]))
      /\ fs \in [Paths -> Contents]
  BY DEF Inv, TypeInv
<1>3. s \in ChangeSets /\ SetOK(s) /\ s.before \in Snapshots /\ s.at \in Nat /\ s.part \in Nat
  BY <1>2 DEF ChangeSets
<1>4. KeepsSets(sets, sets) /\ ~Taken(sets[i])
  BY <1>1 DEF KeepsSets, Taken
<1> HIDE DEF s
<1>5. /\ s.items \in Plans /\ s.at \in 1..Len(s.items) /\ op \in Operations /\ s.part \in 1..Len(Parts(op))
      /\ DOMAIN s.before \subseteq Extent(s.items) /\ DOMAIN s.items = 1..Len(s.items) /\ Len(s.items) \in Nat
      /\ (\A n \in 1..(s.at - 1) : Touched(s.items[n]) \subseteq DOMAIN s.before)
      /\ (\A m \in 1..(s.part - 1) : Parts(op)[m] \in DOMAIN s.before)
      /\ (\A x \in DOMAIN s.before : s.before[x] \in Contents)
  <2>1. s.items \in Plans /\ DOMAIN s.before \subseteq Extent(s.items) /\ Covered(s)
        /\ \A x \in DOMAIN s.before : s.before[x] \in Contents
    BY <1>1, <1>3 DEF SetOK
  <2>2. Len(s.items) \in Nat /\ DOMAIN s.items = 1..Len(s.items)
    BY <2>1, OfPlan
  <2>3. /\ s.at \in 1..Len(s.items) /\ s.part \in 1..Len(Parts(op))
        /\ (\A n \in 1..(s.at - 1) : Touched(s.items[n]) \subseteq DOMAIN s.before)
        /\ (\A m \in 1..(s.part - 1) : Parts(op)[m] \in DOMAIN s.before)
    BY <1>1, <1>3, <2>1, <2>2 DEF Covered
  <2> QED BY <2>1, <2>2, <2>3, OfPlan
<1>6. p \in Touched(op) /\ p \in Paths
  <2>1. s.part \in DOMAIN Parts(op)
    BY <1>5, PartsOf
  <2> QED BY <1>5, <2>1, TouchedInPaths DEF Touched
<1>7. p \in Extent(s.items)
  BY <1>5, <1>6 DEF Extent
<1> HIDE DEF p, op
<1>8. /\ b \in Snapshots /\ DOMAIN b \subseteq Extent(s.items) /\ DOMAIN b = DOMAIN s.before \cup {p}
      /\ \A x \in DOMAIN b : b[x] \in Contents
  <2>1. Snapshot(p) \in Contents
    BY <1>2, <1>6 DEF Snapshot
  <2>2. b \in Snapshots /\ DOMAIN b = DOMAIN s.before \cup {p}
    BY <1>3, <1>6, <2>1, WithIs
  <2>3. \A x \in DOMAIN b : b[x] \in Contents
    BY <1>5, <2>1 DEF With
  <2> QED BY <1>5, <1>7, <2>2, <2>3
<1> HIDE DEF b
<1>9. ASSUME NEW t \in ChangeSets, SetOK(t), sets' = [sets EXCEPT ![i] = t] PROVE Inv'
  <2>1. sets' \in [Sets -> ChangeSets] /\ (\A m \in Sets : SetOK(sets'[m])) /\ KeepsSets(sets, sets')
    BY <1>2, <1>4, <1>9, OneSet
  <2>2. docs' \in [Docs -> Document] /\ \A e \in Docs : docs[e].open => docs'[e] = docs[e]
    BY <1>1, <1>2
  <2> QED BY <1>1, <2>1, <2>2, OnlySets
<1>10. CASE s.part < Len(Parts(op))
  <2> DEFINE t == [s EXCEPT !.before = b, !.part = s.part + 1]
  <2>1. t \in ChangeSets /\ t.kind = s.kind /\ t.items = s.items /\ t.before = b /\ t.at = s.at /\ t.part = s.part + 1
        /\ t.state = s.state
    <3>1. s \in ChangeSets /\ b \in Snapshots /\ s.at + 1 \in Nat /\ s.part + 1 \in Nat /\ 1 \in Nat
      BY <1>3, <1>8
    <3> QED BY <3>1 DEF ChangeSets
  <2>2. sets' = [sets EXCEPT ![i] = t]
    BY <1>1, <1>10
  <2> HIDE DEF t
  <2>3. SetOK(t)
    <3>1. t.part \in 1..Len(Parts(op)) /\ t.at \in 1..(Len(t.items) + 1)
      BY <1>5, <1>10, <2>1, PartsLen
    <3>2. \A m \in 1..(t.part - 1) : Parts(op)[m] \in DOMAIN t.before
      <4> SUFFICES ASSUME NEW m \in 1..(t.part - 1) PROVE Parts(op)[m] \in DOMAIN t.before
        OBVIOUS
      <4>1. CASE m = s.part
        BY <1>8, <2>1, <4>1 DEF p
      <4>2. CASE m # s.part
        <5>1. m \in Nat /\ m >= 1 /\ m <= s.part
          BY <1>3, <2>1
        <5>2. m \in 1..(s.part - 1)
          BY <1>3, <4>2, <5>1
        <5> QED BY <1>5, <1>8, <2>1, <5>2
      <4> QED BY <4>1, <4>2
    <3>3. \A n \in 1..(t.at - 1) : Touched(t.items[n]) \subseteq DOMAIN t.before
      BY <1>5, <1>8, <2>1
    <3>4. Covered(t)
      BY <2>1, <3>1, <3>2, <3>3 DEF Covered, op
    <3> QED BY <1>1, <1>5, <1>8, <2>1, <3>4 DEF SetOK
  <2> QED BY <1>9, <2>1, <2>2, <2>3
<1>11. CASE ~(s.part < Len(Parts(op))) /\ Admissible(op, b)
  <2> DEFINE t == [s EXCEPT !.before = b, !.at = s.at + 1, !.part = 1]
  <2>1. t \in ChangeSets /\ t.kind = s.kind /\ t.items = s.items /\ t.before = b /\ t.at = s.at + 1 /\ t.part = 1
        /\ t.state = s.state
    <3>1. s \in ChangeSets /\ b \in Snapshots /\ s.at + 1 \in Nat /\ s.part + 1 \in Nat /\ 1 \in Nat
      BY <1>3, <1>8
    <3> QED BY <3>1 DEF ChangeSets
  <2>2. sets' = [sets EXCEPT ![i] = t]
    BY <1>1, <1>11
  <2> HIDE DEF t
  <2>3. SetOK(t)
    <3>1. ASSUME t.at <= Len(t.items) PROVE t.part \in 1..Len(Parts(t.items[t.at]))
      <4>1. t.at \in 1..Len(s.items)
        BY <1>5, <2>1, <3>1
      <4>2. s.items[t.at] \in Operations
        BY <1>5, <4>1, OfPlan
      <4>3. 1 \in 1..Len(Parts(s.items[t.at]))
        BY <4>2, PartsLen
      <4> QED BY <2>1, <4>3
    <3>2. t.at \in 1..(Len(t.items) + 1) /\ \A m \in 1..(t.part - 1) : FALSE
      BY <1>5, <2>1
    <3>3. Touched(op) \subseteq DOMAIN t.before
      <4>1. s.part = Len(Parts(op)) /\ DOMAIN Parts(op) = 1..Len(Parts(op)) /\ Len(Parts(op)) \in Nat
        BY <1>5, <1>11, PartsOf
      <4>2. \A m \in 1..Len(Parts(op)) : Parts(op)[m] \in DOMAIN b
        <5> SUFFICES ASSUME NEW m \in 1..Len(Parts(op)) PROVE Parts(op)[m] \in DOMAIN b
          OBVIOUS
        <5>1. CASE m = s.part
          BY <1>8, <5>1 DEF p
        <5>2. CASE m # s.part
          <6>1. m \in Nat /\ m >= 1 /\ m <= s.part /\ s.part \in Nat
            BY <4>1
          <6>2. m \in 1..(s.part - 1)
            BY <5>2, <6>1
          <6> QED BY <1>5, <1>8, <6>2
        <5> QED BY <5>1, <5>2
      <4> QED BY <2>1, <4>1, <4>2 DEF Touched
    <3>4. \A n \in 1..(t.at - 1) : Touched(t.items[n]) \subseteq DOMAIN t.before
      <4> SUFFICES ASSUME NEW n \in 1..(t.at - 1) PROVE Touched(t.items[n]) \subseteq DOMAIN t.before
        OBVIOUS
      <4>1. CASE n = s.at
        BY <2>1, <3>3, <4>1 DEF op
      <4>2. CASE n # s.at
        <5>1. n \in 1..(s.at - 1)
          BY <1>3, <2>1, <4>2
        <5> QED BY <1>5, <1>8, <2>1, <5>1
      <4> QED BY <4>1, <4>2
    <3>5. Covered(t)
      BY <2>1, <3>1, <3>2, <3>4 DEF Covered
    <3> QED BY <1>1, <1>5, <1>8, <2>1, <3>5 DEF SetOK
  <2> QED BY <1>9, <2>1, <2>2, <2>3
<1>12. CASE ~(s.part < Len(Parts(op))) /\ ~Admissible(op, b)
  <2> DEFINE t == [NoSet EXCEPT !.state = "purged"]
  <2>1. t \in ChangeSets /\ t.kind = Nil /\ t.state = "purged"
    BY NoSetIs DEF ChangeSets
  <2>2. sets' = [sets EXCEPT ![i] = t]
    BY <1>1, <1>12
  <2>3. SetOK(t)
    <3> HIDE DEF t
    <3> QED BY <2>1, NilAssumption DEF SetOK
  <2> QED BY <1>9, <2>1, <2>2, <2>3
<1> QED BY <1>10, <1>11, <1>12

LEMMA PreparedKeeps == ASSUME Inv, NEW i \in Sets, Prepared(i) \/ Expires(i) PROVE Inv'
<1>1. docs \in [Docs -> Document] /\ sets \in [Sets -> ChangeSets] /\ \A m \in Sets : SetOK(sets[m])
  BY DEF Inv, TypeInv
<1>2. UNCHANGED <<docs, fs, job, edits, faults>> /\ sets[i].state \in {"preparing", "prepared"}
  BY DEF Prepared, Expires
<1>3. KeepsSets(sets, sets) /\ ~Taken(sets[i]) /\ sets[i] \in ChangeSets /\ SetOK(sets[i])
  BY <1>1, <1>2 DEF KeepsSets, Taken
<1>4. PICK t : /\ t \in ChangeSets /\ t.state = "prepared" /\ t.kind = sets[i].kind /\ t.items = sets[i].items
               /\ t.before = sets[i].before /\ sets' = [sets EXCEPT ![i] = t]
               /\ (sets[i].state = "preparing" /\ sets[i].kind # "text" => sets[i].at > Len(sets[i].items))
  <2>1. CASE Prepared(i)
    <3>1. /\ sets' = [sets EXCEPT ![i] = [sets[i] EXCEPT !.state = "prepared", !.at = 1]]
          /\ (sets[i].kind # "text" => sets[i].at > Len(sets[i].items))
      BY <1>1, <2>1 DEF Prepared
    <3> QED BY <1>3, <3>1 DEF ChangeSets
  <2>2. CASE Expires(i)
    <3>1. sets' = [sets EXCEPT ![i] = [sets[i] EXCEPT !.expired = TRUE]] /\ sets[i].state = "prepared"
      BY <2>2 DEF Expires
    <3> QED BY <1>3, <3>1 DEF ChangeSets
  <2> QED BY <2>1, <2>2
<1>5. SetOK(t)
  <2>1. ASSUME sets[i].kind = "resource", sets[i].state = "preparing"
        PROVE  Extent(sets[i].items) \subseteq DOMAIN sets[i].before
    <3> DEFINE s == sets[i]
    <3>1. s.items \in Plans /\ Covered(s) /\ s.at > Len(s.items)
      BY <1>3, <1>4, <2>1 DEF SetOK
    <3>2. Len(s.items) \in Nat /\ DOMAIN s.items = 1..Len(s.items)
      BY <3>1, OfPlan
    <3> HIDE DEF s
    <3>3. \A n \in 1..Len(s.items) : n \in 1..(s.at - 1)
      BY <3>1, <3>2 DEF Covered
    <3>4. \A n \in 1..Len(s.items) : Touched(s.items[n]) \subseteq DOMAIN s.before
      BY <3>1, <3>3 DEF Covered
    <3>5. Extent(s.items) \subseteq DOMAIN s.before
      BY <3>2, <3>4 DEF Extent
    <3> QED BY <3>5 DEF s
  <2> QED BY <1>2, <1>3, <1>4, <2>1 DEF SetOK
<1>6. sets' \in [Sets -> ChangeSets] /\ (\A m \in Sets : SetOK(sets'[m])) /\ KeepsSets(sets, sets')
  BY <1>1, <1>3, <1>4, <1>5, OneSet
<1>7. docs' \in [Docs -> Document] /\ \A e \in Docs : docs[e].open => docs'[e] = docs[e]
  BY <1>1, <1>2
<1> QED BY <1>2, <1>6, <1>7, OnlySets

-----------------------------------------------------------------------------
(* Steps of one apply, or of no one's.                                     *)

LEMMA OneStep ==
    ASSUME Inv, NEW r, TypeInv', \A i \in Sets : SetOK(sets'[i]), KeepsSets(sets, sets'),
           NEW changed, KeepsFiles(fs, fs', changed),
           \A q \in Requests \ {r} : /\ Later(job[q], job'[q], changed)
                                    /\ KeepsDocs(job[q], sets, docs, docs', changed),
           r \in Requests => JobOK(fs', docs', sets', job'[r])
    PROVE  Inv'
<1>1. TypeInv /\ (\A i \in Sets : SetOK(sets[i])) /\ docs \in [Docs -> Document] /\ docs' \in [Docs -> Document]
  BY DEF Inv, TypeInv
<1>2. ASSUME NEW q \in Requests \ {r} PROVE JobOK(fs', docs', sets', job'[q])
  <2>1. job[q] \in Jobs /\ JobOK(fs, docs, sets, job[q])
    BY DEF Inv, TypeInv
  <2> QED BY <1>1, <2>1, Disturbance
<1> QED BY <1>2 DEF Inv

\* Documents that are open stay as they are, or are among those that changed.
LEMMA DocsKept ==
    ASSUME Inv, NEW q \in Requests, NEW es, NEW changed,
           \A d \in Docs : docs[d].open =>
               es[d] = docs[d] \/ (d \in changed /\ es[d].open /\ es[d].version > docs[d].version)
    PROVE  KeepsDocs(job[q], sets, docs, es, changed)
<1> SUFFICES ASSUME job[q].phase \in {"resolve", "sent"} PROVE \A d \in sets[job[q].set].items : d \in Docs
  BY DEF KeepsDocs
<1>1. JobOK(fs, docs, sets, job[q])
  BY DEF Inv
<1>2. job[q].set \in Sets /\ sets[job[q].set].kind = "text"
  BY <1>1 DEF JobOK, ResolveOK, SentOK
<1> QED BY <1>2 DEF Inv, SetOK

Outcomes == {Nil, "expired", "stale", "failed", "refused", "applied", "recovery"}

LEMMA EndedIs ==
    ASSUME NEW j \in Jobs, NEW result \in Outcomes
    PROVE  /\ Ended(j, result) \in Jobs /\ Ended(j, result).phase = "done" /\ Ended(j, result).result = result
           /\ Ended(j, result).set = j.set /\ Ended(j, result).late = j.late /\ Ended(j, result).half = j.half
  BY DEF Ended, Jobs, Outcomes

\* An apply that ends has nothing to answer for unless it was one of resources that
\* succeeded or was taken back.
LEMMA EndedOK ==
    ASSUME NEW f, NEW ds, NEW ss, NEW j \in Jobs, NEW result \in Outcomes, j.set \in Sets, Taken(ss[j.set]),
           DoneOK(f, Ended(j, result), ss[j.set])
    PROVE  JobOK(f, ds, ss, Ended(j, result))
  BY EndedIs DEF JobOK, ResolveOK, SentOK, FreshOK, ApplyOK, RestoreOK

LEMMA DoneEasily ==
    ASSUME NEW f, NEW j \in Jobs, NEW result \in Outcomes, NEW s,
           result \notin {"applied", "failed", "recovery"} \/ s.kind # "resource"
    PROVE  DoneOK(f, Ended(j, result), s)
  BY EndedIs DEF DoneOK

LEMMA SentIs ==
    ASSUME NEW j \in Jobs, NEW ds \in SUBSET Docs, NEW now \in [Docs -> Document]
    PROVE  /\ Sent(j, ds, now) \in Jobs /\ Sent(j, ds, now).phase = "sent" /\ Sent(j, ds, now).set = j.set
           /\ Sent(j, ds, now).late = j.late /\ Sent(j, ds, now).waited = j.waited
           /\ Sent(j, ds, now).sent = [d \in ds |-> now[d].version]
<1>1. \A d \in ds : now[d].version \in Nat
  BY DEF Document
<1> DEFINE v == [d \in ds |-> now[d].version]
<1>2. v \in Versions
  <2>1. v \in [ds -> Nat]
    BY <1>1
  <2> QED BY <2>1 DEF Versions
<1>3. {} \in SUBSET Docs
  OBVIOUS
<1>4. Sent(j, ds, now) = [j EXCEPT !.phase = "sent", !.pending = {}, !.sent = v]
  BY DEF Sent
<1> HIDE DEF v
<1>5. /\ Sent(j, ds, now) \in Jobs /\ Sent(j, ds, now).phase = "sent" /\ Sent(j, ds, now).set = j.set
      /\ Sent(j, ds, now).late = j.late /\ Sent(j, ds, now).waited = j.waited
      /\ Sent(j, ds, now).sent = v
  BY <1>2, <1>3, <1>4 DEF Jobs
<1> QED BY <1>5 DEF v

LEMMA NoJobIs == NoJob \in Jobs /\ NoJob.late = {}
<1>1. <<>> \in [{} -> Nat] /\ {} \in SUBSET Docs
  OBVIOUS
<1>2. <<>> \in Versions
  BY <1>1 DEF Versions
<1> QED BY <1>2 DEF NoJob, Jobs

LEMMA ConsumeIs ==
    ASSUME Inv, NEW r \in Requests, NEW i \in Sets, Consume(r, i)
    PROVE  /\ sets' \in [Sets -> ChangeSets] /\ (\A m \in Sets : SetOK(sets'[m])) /\ KeepsSets(sets, sets')
           /\ Taken(sets'[i]) /\ sets'[i].kind = sets[i].kind /\ sets'[i].items = sets[i].items
           /\ sets'[i].before = sets[i].before /\ SetOK(sets[i])
<1>1. sets[i].state = "prepared" /\ sets' = [sets EXCEPT ![i] = [sets[i] EXCEPT !.state = "consumed"]]
  BY DEF Consume
<1>2. sets \in [Sets -> ChangeSets] /\ \A m \in Sets : SetOK(sets[m])
  BY DEF Inv, TypeInv
<1> DEFINE t == [sets[i] EXCEPT !.state = "consumed"]
<1>3. sets[i] \in ChangeSets /\ SetOK(sets[i])
  BY <1>2
<1>4. t \in ChangeSets /\ t.state = "consumed" /\ t.kind = sets[i].kind /\ t.items = sets[i].items /\ t.before = sets[i].before
  BY <1>3 DEF ChangeSets
<1> HIDE DEF t
<1>5. SetOK(t) /\ Taken(t)
  <2>1. sets[i].state # "preparing"
    BY <1>1
  <2> QED BY <1>3, <1>4, <2>1 DEF SetOK, Taken
<1>6. KeepsSets(sets, sets) /\ ~Taken(sets[i])
  BY <1>1 DEF KeepsSets, Taken
<1>7. sets' = [sets EXCEPT ![i] = t]
  BY <1>1 DEF t
<1>8. sets' \in [Sets -> ChangeSets] /\ (\A m \in Sets : SetOK(sets'[m])) /\ KeepsSets(sets, sets')
  BY <1>2, <1>4, <1>5, <1>6, <1>7, OneSet
<1> QED BY <1>2, <1>3, <1>4, <1>5, <1>7, <1>8

\* An apply begins: of documents and files nothing has changed.
LEMMA Begins ==
    ASSUME Inv, NEW r \in Requests, NEW i \in Sets, Consume(r, i), NEW k \in Jobs,
           job' = [job EXCEPT ![r] = k], UNCHANGED <<docs, fs>>, JobOK(fs, docs, sets', k)
    PROVE  Inv'
<1>1. /\ job \in [Requests -> Jobs] /\ docs \in [Docs -> Document] /\ fs \in [Paths -> Contents]
  BY DEF Inv, TypeInv
<1>2. job' \in [Requests -> Jobs] /\ job'[r] = k /\ \A q \in Requests \ {r} : job'[q] = job[q]
  BY <1>1
<1>3. TypeInv'
  BY <1>1, <1>2, ConsumeIs DEF TypeInv
<1>4. \A q \in Requests \ {r} : Later(job[q], job'[q], {})
  BY <1>1, <1>2, Undisturbed
<1>5. \A q \in Requests \ {r} : KeepsDocs(job[q], sets, docs, docs', {})
  BY DocsKept
<1>6. KeepsFiles(fs, fs', {})
  BY DEF KeepsFiles
<1> QED BY <1>2, <1>3, <1>4, <1>5, <1>6, ConsumeIs, OneStep

LEMMA ApplyExpiredKeeps == ASSUME Inv, NEW r \in Requests, NEW i \in Sets, ApplyExpired(r, i) PROVE Inv'
<1> DEFINE j == [NoJob EXCEPT !.set = i]
<1>1. Consume(r, i) /\ job' = [job EXCEPT ![r] = Ended(j, "expired")] /\ UNCHANGED <<docs, fs>>
  BY DEF ApplyExpired
<1>2. j \in Jobs /\ j.set = i
  BY NoJobIs DEF Jobs
<1> HIDE DEF j
<1>3. "expired" \in Outcomes
  BY DEF Outcomes
<1>4. JobOK(fs, docs, sets', Ended(j, "expired"))
  BY <1>1, <1>2, <1>3, ConsumeIs, DoneEasily, EndedOK
<1> QED BY <1>1, <1>2, <1>3, <1>4, EndedIs, Begins

LEMMA ApplyTextKeeps == ASSUME Inv, NEW r \in Requests, NEW i \in Sets, ApplyText(r, i) PROVE Inv'
<1> DEFINE items == sets[i].items
           now == {d \in items : docs[d].open}
           j == [NoJob EXCEPT !.set = i, !.phase = "resolve", !.pending = items \ now, !.waited = (now # items)]
           k == IF \E d \in now : ~Expected(i, d, docs[d]) THEN Ended(j, "stale")
                ELSE IF j.waited THEN j ELSE Sent(j, now, docs)
<1>1. /\ Consume(r, i) /\ sets[i].kind = "text" /\ job' = [job EXCEPT ![r] = k] /\ UNCHANGED <<docs, fs>>
  BY DEF ApplyText
<1>2. docs \in [Docs -> Document] /\ items \in SUBSET Docs /\ now \in SUBSET Docs
  BY <1>1, ConsumeIs DEF Inv, TypeInv, SetOK
<1>3. j \in Jobs /\ j.set = i /\ j.phase = "resolve" /\ j.pending = items \ now /\ j.late = {}
  <2> DEFINE w == now # items
  <2>1. w \in BOOLEAN
    OBVIOUS
  <2>2. j = [NoJob EXCEPT !.set = i, !.phase = "resolve", !.pending = items \ now, !.waited = w]
    OBVIOUS
  <2>3. items \ now \in SUBSET Docs
    BY <1>2
  <2> HIDE DEF w, now, j
  <2> QED BY <2>1, <2>2, <2>3, NoJobIs DEF Jobs
<1>4. j.waited \in BOOLEAN /\ (j.waited <=> now # items)
  <2>1. j.waited = (now # items)
    BY NoJobIs DEF Jobs
  <2> QED BY <2>1
<1> HIDE DEF j
<1>5. \A d \in now : docs[d].open /\ d \in items
  OBVIOUS
<1>6. CASE \E d \in now : ~Expected(i, d, docs[d])
  <2>1. k = Ended(j, "stale") /\ "stale" \in Outcomes
    BY <1>6 DEF Outcomes
  <2>2. JobOK(fs, docs, sets', k)
    BY <1>1, <1>3, <2>1, ConsumeIs, DoneEasily, EndedOK
  <2>3. k \in Jobs
    BY <1>3, <2>1, EndedIs
  <2> HIDE DEF k
  <2> QED BY <1>1, <2>2, <2>3, Begins
<1>7. CASE (\A d \in now : Expected(i, d, docs[d])) /\ j.waited
  <2>1. k = j
    BY <1>7
  <2>2. \A d \in items \ j.pending : docs[d].open /\ docs[d].text = sets[i].before[d].text
    BY <1>3, <1>5, <1>7 DEF Expected
  <2>3. ResolveOK(j, sets'[i], docs)
    BY <1>1, <1>7, <2>2, ConsumeIs DEF ResolveOK
  <2>4. JobOK(fs, docs, sets', j)
    BY <1>1, <1>3, <2>3, ConsumeIs DEF JobOK, SentOK, FreshOK, ApplyOK, RestoreOK, DoneOK
  <2> HIDE DEF k
  <2> QED BY <1>1, <1>3, <2>1, <2>4, Begins
<1>8. CASE (\A d \in now : Expected(i, d, docs[d])) /\ ~j.waited
  <2>1. k = Sent(j, now, docs) /\ now = items
    BY <1>4, <1>8
  <2> HIDE DEF now, k
  <2>2. /\ k \in Jobs /\ k.phase = "sent" /\ k.set = i /\ k.sent = [d \in now |-> docs[d].version]
    BY <1>2, <1>3, <2>1, SentIs
  <2>3. \A d \in items : /\ docs[d].open /\ docs[d].version \in Nat /\ k.sent[d] = docs[d].version
                         /\ docs[d].text = sets[i].before[d].text
    BY <1>2, <1>5, <1>8, <2>1, <2>2 DEF Expected, Document
  <2>4. SentOK(k, sets'[i], docs)
    <3>1. \A d \in items : docs[d].version >= k.sent[d]
      BY <2>3
    <3> QED BY <1>1, <2>1, <2>2, <2>3, <3>1, ConsumeIs DEF SentOK
  <2>5. JobOK(fs, docs, sets', k)
    BY <1>1, <2>2, <2>4, ConsumeIs DEF JobOK, ResolveOK, FreshOK, ApplyOK, RestoreOK, DoneOK
  <2> QED BY <1>1, <2>2, <2>5, Begins
<1> QED BY <1>6, <1>7, <1>8

LEMMA ApplyResourcesKeeps == ASSUME Inv, NEW r \in Requests, NEW i \in Sets, ApplyResources(r, i) PROVE Inv'
<1> DEFINE k == [NoJob EXCEPT !.set = i, !.phase = "fresh"]
           plan == sets[i].items
<1>1. /\ Consume(r, i) /\ sets[i].kind = "resource" /\ job' = [job EXCEPT ![r] = k] /\ UNCHANGED <<docs, fs>>
  BY DEF ApplyResources
<1>2. k \in Jobs /\ k.set = i /\ k.phase = "fresh" /\ k.at = 1 /\ k.part = 1 /\ k.cleared = FALSE
  BY NoJobIs DEF Jobs, NoJob
<1> HIDE DEF k
<1>3. plan \in Plans
  BY <1>1, ConsumeIs DEF SetOK
<1>4. 1 \in 1..Len(plan) /\ plan[1] \in Operations
  BY <1>3, OfPlan
<1>5. 1 \in 1..Len(Parts(plan[1]))
  BY <1>4, PartsLen
<1>6. FreshOK(fs, k, sets'[i])
  <2>1. (\A n \in 1..(k.at - 1) : FALSE) /\ (\A n \in 1..(k.part - 1) : FALSE)
    BY <1>2
  <2>2. sets'[i].kind = "resource" /\ sets'[i].items = plan
    BY <1>1, ConsumeIs
  <2> QED BY <1>2, <1>4, <1>5, <2>1, <2>2 DEF FreshOK
<1>7. JobOK(fs, docs, sets', k)
  BY <1>1, <1>2, <1>6, ConsumeIs DEF JobOK, ResolveOK, SentOK, ApplyOK, RestoreOK, DoneOK
<1> QED BY <1>1, <1>2, <1>7, Begins

-----------------------------------------------------------------------------
(* The steps of a text apply.                                              *)

\* Apply r goes on: the others learn what changed, and the change sets stay.
LEMMA Proceeds ==
    ASSUME Inv, NEW r \in Requests, NEW k \in Jobs, NEW changed \in SUBSET (Docs \cup Paths),
           \/ job' = [Disturbed(r, changed) EXCEPT ![r] = k]
           \/ changed = {} /\ job' = [job EXCEPT ![r] = k],
           docs' \in [Docs -> Document], fs' \in [Paths -> Contents], sets' = sets,
           KeepsFiles(fs, fs', changed),
           \A d \in Docs : docs[d].open =>
               docs'[d] = docs[d] \/ (d \in changed /\ docs'[d].open /\ docs'[d].version > docs[d].version),
           JobOK(fs', docs', sets, k)
    PROVE  Inv'
<1>1. job \in [Requests -> Jobs] /\ sets \in [Sets -> ChangeSets] /\ \A i \in Sets : SetOK(sets[i])
  BY DEF Inv, TypeInv
<1>2. \A q \in Requests \ {r} : KeepsDocs(job[q], sets, docs, docs', changed)
  BY DocsKept
<1>3. DOMAIN job' = Requests /\ job' = [q \in Requests |-> job'[q]] /\ job'[r] = k
  BY <1>1 DEF Disturbed
<1>4. \A q \in Requests \ {r} : Later(job[q], job'[q], changed)
  <2>1. CASE job' = [Disturbed(r, changed) EXCEPT ![r] = k]
    <3>1. \A q \in Requests \ {r} : job'[q] = Disturbed(r, changed)[q]
      BY <2>1 DEF Disturbed
    <3> QED BY <1>1, <3>1, DisturbedIs
  <2>2. CASE changed = {} /\ job' = [job EXCEPT ![r] = k]
    BY <1>1, <2>2, Undisturbed
  <2> QED BY <2>1, <2>2
<1>5. \A q \in Requests : job'[q] \in Jobs
  BY <1>3, <1>4 DEF Later
<1>6. TypeInv'
  BY <1>1, <1>3, <1>5 DEF TypeInv
<1>7. KeepsSets(sets, sets')
  BY DEF KeepsSets
<1> QED BY <1>1, <1>2, <1>3, <1>4, <1>6, <1>7, OneStep

\* What an apply that goes on has to do with its change set
LEMMA TakenIs ==
    ASSUME Inv, NEW r \in Requests, job[r].phase # "idle"
    PROVE  /\ job[r] \in Jobs /\ job[r].set \in Sets /\ Taken(sets[job[r].set])
           /\ JobOK(fs, docs, sets, job[r]) /\ SetOK(sets[job[r].set])
           /\ docs \in [Docs -> Document] /\ fs \in [Paths -> Contents]
  BY DEF Inv, TypeInv, JobOK

LEMMA ResolveKeeps == ASSUME Inv, NEW r \in Requests, NEW d \in Docs, Resolve(r, d) PROVE Inv'
<1> DEFINE j == job[r]
           s == sets[j.set]
           now == [docs EXCEPT ![d] = Opened(d)]
           checked == [j EXCEPT !.pending = j.pending \ {d}, !.late = j.late \ {d}]
           k == IF ~Expected(j.set, d, now[d]) THEN Ended(j, "stale")
                ELSE IF checked.pending = {} THEN Sent(checked, s.items, now) ELSE checked
<1>1. /\ j.phase = "resolve" /\ d \in j.pending /\ docs' = now /\ job' = [job EXCEPT ![r] = k]
      /\ UNCHANGED <<fs, sets>>
  BY DEF Resolve
<1>2. /\ j \in Jobs /\ j.set \in Sets /\ Taken(s) /\ SetOK(s) /\ ResolveOK(j, s, docs)
      /\ docs \in [Docs -> Document] /\ fs \in [Paths -> Contents]
  BY SMTT(30), <1>1, TakenIs DEF JobOK
<1>3. /\ s.kind = "text" /\ s.items \in SUBSET Docs
      /\ \A e \in s.items \ j.pending : docs[e].open /\ (docs[e].text = s.before[e].text \/ e \in j.late)
  <2> HIDE DEF j, s, now, checked, k
  <2> QED BY <1>1, <1>2 DEF ResolveOK, SetOK
<1>4. /\ now \in [Docs -> Document] /\ now[d].open
      /\ \A e \in Docs : docs[e].open => now[e] = docs[e]
      /\ \A e \in Docs : e # d => now[e] = docs[e]
  BY <1>2, OpenedIs
<1>5. ASSUME NEW q \in Jobs, k = q, JobOK(fs, now, sets, q) PROVE Inv'
  <2>1. job' = [job EXCEPT ![r] = q] /\ docs' = now /\ fs' = fs /\ sets' = sets
    BY <1>1, <1>5
  <2>2. KeepsFiles(fs, fs', {}) /\ {} \in SUBSET (Docs \cup Paths)
    BY <2>1 DEF KeepsFiles
  <2> HIDE DEF now, k
  <2> QED BY <1>2, <1>4, <1>5, <2>1, <2>2, Proceeds
<1>6. /\ checked \in Jobs /\ checked.phase = "resolve" /\ checked.set = j.set /\ checked.waited = j.waited
      /\ checked.pending = j.pending \ {d} /\ checked.late = j.late \ {d}
  <2>1. j.pending \ {d} \in SUBSET Docs /\ j.late \ {d} \in SUBSET (Docs \cup Paths)
    BY <1>2 DEF Jobs
  <2> QED BY <1>1, <1>2, <2>1 DEF Jobs
<1> HIDE DEF now, checked
<1>7. CASE ~Expected(j.set, d, now[d])
  <2>1. k = Ended(j, "stale") /\ "stale" \in Outcomes
    BY <1>7 DEF Outcomes
  <2>2. JobOK(fs, now, sets, k)
    BY <1>2, <2>1, DoneEasily, EndedOK
  <2> QED BY <1>2, <1>5, <2>1, <2>2, EndedIs
<1>8. ASSUME Expected(j.set, d, now[d])
      PROVE  \A e \in s.items \ checked.pending : now[e].open /\ (now[e].text = s.before[e].text \/ e \in checked.late)
  BY <1>3, <1>4, <1>6, <1>8 DEF Expected
<1>9. CASE Expected(j.set, d, now[d]) /\ checked.pending # {}
  <2>1. ResolveOK(checked, s, now)
    <3> HIDE DEF j, s, now, checked, k
    <3> QED BY <1>1, <1>2, <1>3, <1>6, <1>8, <1>9 DEF ResolveOK
  <2>2. JobOK(fs, now, sets, checked)
    BY <1>2, <1>3, <1>6, <2>1 DEF JobOK, SentOK, FreshOK, ApplyOK, RestoreOK, DoneOK
  <2> QED BY SMTT(30), <1>5, <1>6, <1>9, <2>2
<1>10. CASE Expected(j.set, d, now[d]) /\ checked.pending = {}
  <2> DEFINE q == Sent(checked, s.items, now)
  <2>1. /\ q \in Jobs /\ q.phase = "sent" /\ q.set = j.set /\ q.late = checked.late /\ q.waited = j.waited
        /\ q.sent = [e \in s.items |-> now[e].version]
    <3> HIDE DEF j, s, now, checked, k
    <3> QED BY <1>3, <1>4, <1>6, SentIs
  <2>2. k = q
    BY <1>10
  <2> HIDE DEF q
  <2>3. j.waited
    BY <1>1, <1>2 DEF ResolveOK
  <2>4. \A e \in s.items : /\ now[e].open /\ now[e].version \in Nat /\ q.sent[e] = now[e].version
                           /\ (now[e].text = s.before[e].text \/ e \in q.late)
    <3> HIDE DEF q, j, s, now, checked, k
    <3> QED BY <1>3, <1>4, <1>8, <1>10, <2>1 DEF Document
  <2>5. \A e \in s.items : now[e].version >= q.sent[e]
    BY SMTT(30), <2>4
  <2>6. SentOK(q, s, now)
    <3> HIDE DEF q, j, s, now, checked, k
    <3> QED BY <1>3, <2>1, <2>3, <2>4, <2>5 DEF SentOK
  <2>7. JobOK(fs, now, sets, q)
    <3> HIDE DEF q, j, now, checked, k
    <3> QED BY <1>2, <2>1, <2>6 DEF JobOK, ResolveOK, FreshOK, ApplyOK, RestoreOK, DoneOK
  <2> QED BY <1>5, <2>1, <2>2, <2>7
<1> QED BY <1>7, <1>9, <1>10

LEMMA OpenFailsKeeps == ASSUME Inv, NEW r \in Requests, OpenFails(r) PROVE Inv'
<1> DEFINE k == Ended(job[r], "failed")
<1>1. job[r].phase = "resolve" /\ job' = [job EXCEPT ![r] = k] /\ UNCHANGED <<docs, fs, sets>>
  BY DEF OpenFails
<1>2. /\ job[r] \in Jobs /\ job[r].set \in Sets /\ Taken(sets[job[r].set])
      /\ ResolveOK(job[r], sets[job[r].set], docs)
      /\ docs \in [Docs -> Document] /\ fs \in [Paths -> Contents]
  BY <1>1, TakenIs DEF JobOK
<1>3. k \in Jobs /\ "failed" \in Outcomes
  BY <1>2, EndedIs DEF Outcomes
<1>4. JobOK(fs, docs, sets, k)
  <2>1. sets[job[r].set].kind # "resource"
    BY <1>1, <1>2 DEF ResolveOK
  <2> QED BY <1>2, <1>3, <2>1, DoneEasily, EndedOK
<1>5. KeepsFiles(fs, fs', {}) /\ {} \in SUBSET (Docs \cup Paths)
  BY <1>1 DEF KeepsFiles
<1> HIDE DEF k
<1> QED BY <1>1, <1>2, <1>3, <1>4, <1>5, Proceeds

LEMMA EditLandsKeeps == ASSUME Inv, NEW r \in Requests, EditLands(r) PROVE Inv'
<1> DEFINE j == job[r]
           s == sets[j.set]
           ds == DOMAIN j.sent
<1>1. /\ j.phase = "sent" /\ UNCHANGED <<fs, sets>>
      /\ \/ /\ docs' = [d \in Docs |->
                          IF d \in ds THEN [text |-> j.set, version |-> docs[d].version + 1, open |-> TRUE]
                          ELSE docs[d]]
            /\ job' = [Disturbed(r, ds) EXCEPT ![r] = Ended(j, "applied")]
         \/ docs' = docs /\ job' = [job EXCEPT ![r] = Ended(j, "refused")]
  BY DEF EditLands
<1>2. /\ j \in Jobs /\ j.set \in Sets /\ Taken(s) /\ SetOK(s) /\ SentOK(j, s, docs)
      /\ docs \in [Docs -> Document] /\ fs \in [Paths -> Contents]
  BY SMTT(30), <1>1, TakenIs DEF JobOK
<1>3. s.kind # "resource" /\ ds \in SUBSET Docs
  <2> HIDE DEF j, s
  <2> QED BY <1>1, <1>2 DEF SentOK, SetOK
<1>4. ASSUME NEW result \in Outcomes
      PROVE  Ended(j, result) \in Jobs /\ JobOK(fs', docs', sets, Ended(j, result))
  BY <1>2, <1>3, EndedIs, DoneEasily, EndedOK
<1>5. KeepsFiles(fs, fs', {}) /\ KeepsFiles(fs, fs', ds) /\ {} \in SUBSET (Docs \cup Paths) /\ ds \in SUBSET (Docs \cup Paths)
  BY <1>1, <1>3 DEF KeepsFiles
<1>6. CASE docs' = docs /\ job' = [job EXCEPT ![r] = Ended(j, "refused")]
  <2> DEFINE k == Ended(j, "refused")
  <2>1. k \in Jobs /\ JobOK(fs', docs', sets, k) /\ job' = [job EXCEPT ![r] = k]
    BY <1>4, <1>6 DEF Outcomes
  <2> HIDE DEF k
  <2> QED BY <1>1, <1>2, <1>5, <1>6, <2>1, Proceeds
<1>7. CASE /\ docs' = [d \in Docs |->
                          IF d \in ds THEN [text |-> j.set, version |-> docs[d].version + 1, open |-> TRUE]
                          ELSE docs[d]]
           /\ job' = [Disturbed(r, ds) EXCEPT ![r] = Ended(j, "applied")]
  <2> DEFINE k == Ended(j, "applied")
  <2>1. k \in Jobs /\ JobOK(fs', docs', sets, k) /\ job' = [Disturbed(r, ds) EXCEPT ![r] = k]
    BY <1>4, <1>7 DEF Outcomes
  <2>2. \A d \in Docs : docs[d].version \in Nat
    BY <1>2 DEF Document
  <2>3. docs' \in [Docs -> Document]
    BY <1>2, <1>7, <2>2 DEF Document, Texts
  <2>4. \A d \in ds : docs'[d].open = TRUE /\ docs'[d].version > docs[d].version
    BY <1>3, <1>7, <2>2
  <2>5. \A d \in Docs : docs'[d] = docs[d] \/ (d \in ds /\ docs'[d].open /\ docs'[d].version > docs[d].version)
    BY <1>7, <2>4, Zenon
  <2> HIDE DEF k, ds
  <2> QED BY <1>1, <1>2, <1>5, <2>1, <2>3, <2>5, Proceeds
<1> QED BY <1>1, <1>6, <1>7

-----------------------------------------------------------------------------
(* The steps of a resource apply.                                          *)

\* The change set of an apply at work on operation at
AtWork(j, s) ==
    /\ j \in Jobs /\ j.set \in Sets /\ s = sets[j.set] /\ Taken(s) /\ s.kind = "resource"
    /\ s.items \in Plans /\ Len(s.items) \in Nat /\ j.at \in 1..Len(s.items)
    /\ s.items[j.at] \in Operations /\ Touched(s.items[j.at]) \in SUBSET Paths
    /\ \A p \in Touched(s.items[j.at]) : s.before[p] \in Contents
    /\ docs \in [Docs -> Document] /\ fs \in [Paths -> Contents]

LEMMA AtWorkIs ==
    ASSUME Inv, NEW r \in Requests, job[r].phase \in {"fresh", "apply", "restore"}
    PROVE  /\ AtWork(job[r], sets[job[r].set]) /\ JobOK(fs, docs, sets, job[r])
           /\ Plan(r) = sets[job[r].set].items /\ Before(r) = sets[job[r].set].before
<1> DEFINE j == job[r]
           s == sets[j.set]
<1>1. /\ j \in Jobs /\ j.set \in Sets /\ Taken(s) /\ JobOK(fs, docs, sets, j) /\ SetOK(s)
      /\ docs \in [Docs -> Document] /\ fs \in [Paths -> Contents]
  BY SMTT(30), TakenIs
<1>2. s.kind = "resource" /\ j.at \in 1..Len(s.items)
  <2>1. j.phase \in {"fresh", "apply", "restore"} /\ s = sets[j.set]
    OBVIOUS
  <2> HIDE DEF j, s
  <2> QED BY <1>1, <2>1 DEF JobOK, FreshOK, ApplyOK, RestoreOK
<1>3. s.items \in Plans /\ Extent(s.items) \subseteq DOMAIN s.before /\ \A p \in DOMAIN s.before : s.before[p] \in Contents
  BY <1>1, <1>2 DEF SetOK, Taken
<1>4. Len(s.items) \in Nat /\ DOMAIN s.items = 1..Len(s.items)
      /\ s.items[j.at] \in Operations /\ Touched(s.items[j.at]) \in SUBSET Paths
  <2> HIDE DEF j, s
  <2> QED BY <1>2, <1>3, OfPlan
<1>5. Touched(s.items[j.at]) \subseteq Extent(s.items)
  <2> HIDE DEF j, s
  <2> QED BY <1>2, <1>4 DEF Extent
<1>6. \A p \in Touched(s.items[j.at]) : s.before[p] \in Contents
  BY SMTT(30), <1>3, <1>5
<1>7. s = sets[j.set]
  OBVIOUS
<1>8. AtWork(j, s)
  <2> HIDE DEF j, s
  <2> QED BY <1>1, <1>2, <1>3, <1>4, <1>6, <1>7 DEF AtWork
<1> QED BY <1>1, <1>8 DEF Plan, Before

\* Nothing but what one operation of the plan touches differs.
Apart(f, g, j, k, s, at) ==
    /\ s.items \in Plans /\ at \in 1..Len(s.items) /\ k.late = j.late
    /\ \A p \in Paths : p \notin Touched(s.items[at]) => g[p] = f[p]

\* The operations of a plan touch paths of their own.
LEMMA OwnStep ==
    ASSUME NEW f, NEW g, NEW j, NEW k, NEW s, NEW at, Apart(f, g, j, k, s, at)
    PROVE  \A n \in 1..Len(s.items) : n # at =>
              /\ \A p \in Touched(s.items[n]) : AsBefore(f, j, s, p) => AsBefore(g, k, s, p)
              /\ Done(f, j, s, s.items[n]) => Done(g, k, s, s.items[n])
              /\ j.half \subseteq k.half /\ PutBack(f, j, s, s.items[n]) => PutBack(g, k, s, s.items[n])
<1> SUFFICES ASSUME NEW n \in 1..Len(s.items), n # at
             PROVE  /\ \A p \in Touched(s.items[n]) : AsBefore(f, j, s, p) => AsBefore(g, k, s, p)
                    /\ Done(f, j, s, s.items[n]) => Done(g, k, s, s.items[n])
                    /\ j.half \subseteq k.half /\ PutBack(f, j, s, s.items[n]) => PutBack(g, k, s, s.items[n])
  OBVIOUS
<1> USE DEF Apart
<1> DEFINE op == s.items[n]
<1>1. Touched(op) \in SUBSET Paths /\ Touched(op) \cap Touched(s.items[at]) = {}
  BY OfPlan
<1> HIDE DEF op
<1>2. \A p \in Touched(op) : g[p] = f[p]
  BY <1>1
<1>3. \A p \in Touched(op) : AsBefore(f, j, s, p) => AsBefore(g, k, s, p)
  BY <1>2 DEF AsBefore
<1>4. Done(f, j, s, op) => Done(g, k, s, op)
  BY <1>2 DEF Done
<1>5. j.half \subseteq k.half /\ PutBack(f, j, s, op) => PutBack(g, k, s, op)
  BY <1>2 DEF PutBack
<1> QED BY <1>3, <1>4, <1>5 DEF op

LEMMA CheckFreshKeeps == ASSUME Inv, NEW r \in Requests, CheckFresh(r) PROVE Inv'
<1> DEFINE j == job[r]
           s == sets[j.set]
           op == s.items[j.at]
           p == Parts(op)[j.part]
           late == j.late \ {p}
<1>1. j.phase = "fresh" /\ UNCHANGED <<docs, fs, sets>> /\ Plan(r) = s.items /\ Before(r) = s.before
  BY AtWorkIs DEF CheckFresh
<1>2. AtWork(j, s) /\ FreshOK(fs, j, s)
  BY SMTT(30), <1>1, AtWorkIs DEF JobOK
<1>3. j.part \in 1..Len(Parts(op)) /\ j.part \in Nat /\ j.at \in Nat /\ j.cleared = FALSE
  <2> HIDE DEF j, p
  <2> QED BY <1>1, <1>2 DEF FreshOK, AtWork, Jobs
<1>4. ASSUME NEW k \in Jobs, job' = [job EXCEPT ![r] = k], JobOK(fs, docs, sets, k) PROVE Inv'
  <2>1. KeepsFiles(fs, fs', {}) /\ {} \in SUBSET (Docs \cup Paths)
    BY <1>1 DEF KeepsFiles
  <2> QED
    <3> HIDE DEF j, s, late
    <3> QED BY <1>1, <1>2, <1>4, <2>1, Proceeds DEF AtWork
<1>5. CASE ~SameSnapshot(r, p)
  <2> DEFINE k == Ended(j, "stale")
  <2>1. job' = [job EXCEPT ![r] = k]
    BY <1>1, <1>5 DEF CheckFresh
  <2>2. k \in Jobs /\ JobOK(fs, docs, sets, k)
    <3> HIDE DEF j, s, op, p, late
    <3> QED BY <1>2, EndedIs, DoneEasily, EndedOK DEF Outcomes, AtWork
  <2> HIDE DEF k
  <2> QED BY <1>4, <2>1, <2>2
<1>6. CASE SameSnapshot(r, p)
  <2>1. late \in SUBSET (Docs \cup Paths)
    <3> HIDE DEF j, s, op, p
    <3> QED BY <1>2 DEF AtWork, Jobs
  <2>2. /\ j \in Jobs /\ late \in SUBSET (Docs \cup Paths) /\ j.phase = "fresh" /\ j.cleared = FALSE
        /\ j.part + 1 \in Nat /\ j.at + 1 \in Nat /\ 1 \in Nat
    <3>1. j \in Jobs
      BY <1>2 DEF AtWork
    <3> HIDE DEF j, late
    <3> QED BY <1>1, <1>3, <2>1, <3>1
  <2>3. Len(Parts(op)) \in Nat /\ DOMAIN Parts(op) = 1..Len(Parts(op)) /\ Len(s.items) \in Nat /\ j.at \in 1..Len(s.items)
    <3> HIDE DEF j, s, op, p, late
    <3> QED BY <1>2, PartsOf DEF AtWork
  <2>4. fs[p] = s.before[p]
    <3> HIDE DEF j, s, op, p, late
    <3> QED BY <1>1, <1>6 DEF SameSnapshot, Snapshot
  \* The operations before this one, and the paths of this one that have been looked at
  <2>5. ASSUME NEW k, k.late = late
        PROVE  /\ \A n \in 1..(j.at - 1) : \A q \in Touched(s.items[n]) : AsBefore(fs, k, s, q)
               /\ \A m \in 1..j.part : AsBefore(fs, k, s, Parts(op)[m])
    <3>1. \A n \in 1..(j.at - 1) : \A q \in Touched(s.items[n]) : AsBefore(fs, j, s, q)
      <4> HIDE DEF j, s, op, p, late
      <4> QED BY <1>1, <1>2 DEF FreshOK
    <3>2. \A m \in 1..(j.part - 1) : AsBefore(fs, j, s, Parts(op)[m])
      <4> HIDE DEF j, s, p, late
      <4> QED BY <1>1, <1>2 DEF FreshOK
    <3> HIDE DEF s, op, p
    <3>3. \A q : AsBefore(fs, j, s, q) => AsBefore(fs, k, s, q)
      BY <2>4, <2>5 DEF AsBefore
    <3>4. AsBefore(fs, k, s, p)
      BY <2>4 DEF AsBefore
    <3>5. ASSUME NEW m \in 1..j.part PROVE AsBefore(fs, k, s, Parts(op)[m])
      <4>1. CASE m = j.part
        BY <3>4, <4>1 DEF p
      <4>2. CASE m # j.part
        <5>1. m \in 1..(j.part - 1)
          BY <1>3, <4>2
        <5> QED BY <3>2, <3>3, <5>1
      <4> QED BY <4>1, <4>2
    <3> QED BY SMTT(30), <3>1, <3>3, <3>5
  <2>6. CASE j.part < Len(Parts(op))
    <3> DEFINE k == [[j EXCEPT !.part = j.part + 1] EXCEPT !.late = late]
    <3>1. job' = [job EXCEPT ![r] = k]
      BY ZenonT(40), <1>1, <1>6, <2>6 DEF CheckFresh
    <3>2. /\ k \in Jobs /\ k.phase = "fresh" /\ k.set = j.set /\ k.at = j.at /\ k.part = j.part + 1
          /\ k.late = late /\ k.cleared = FALSE
      <4> HIDE DEF late, j
      <4> QED BY <2>2 DEF Jobs
    <3> HIDE DEF k
    <3>3. k.part \in 1..Len(Parts(op)) /\ k.part - 1 = j.part
      <4> HIDE DEF op, j
      <4> QED BY <1>3, <2>6, <2>3, <3>2
    <3>4. FreshOK(fs, k, s)
      BY ZenonT(40), <1>2, <2>5, <3>2, <3>3 DEF FreshOK, AtWork
    <3>5. JobOK(fs, docs, sets, k)
      <4> HIDE DEF k, j, s, op, late
      <4> QED BY <1>2, <3>2, <3>4 DEF JobOK, AtWork, ResolveOK, SentOK, ApplyOK, RestoreOK, DoneOK
    <3> QED BY ZenonT(40), <1>4, <3>1, <3>2, <3>5
  \* The last path of the operation
  <2>7. ASSUME ~(j.part < Len(Parts(op))), NEW k, k.late = late
        PROVE  \A n \in 1..j.at : \A q \in Touched(s.items[n]) : AsBefore(fs, k, s, q)
    <3>1. j.part = Len(Parts(op))
      <4> HIDE DEF op, j
      <4> QED BY SMTT(30), <1>3, <2>7, <2>3
    <3>2. \A q \in Touched(op) : AsBefore(fs, k, s, q)
      BY ZenonT(40), <2>5, <2>7, <2>3, <3>1 DEF Touched
    <3>3. ASSUME NEW n \in 1..j.at, n # j.at PROVE n \in 1..(j.at - 1)
      BY <1>3, <3>3
    <3> QED BY ZenonT(40), <2>5, <2>7, <3>2, <3>3
  <2>8. CASE ~(j.part < Len(Parts(op))) /\ j.at < Len(s.items)
    <3> DEFINE k == [[j EXCEPT !.at = j.at + 1, !.part = 1] EXCEPT !.late = late]
    <3>1. job' = [job EXCEPT ![r] = k]
      BY ZenonT(40), <1>1, <1>6, <2>8 DEF CheckFresh
    <3>2. /\ k \in Jobs /\ k.phase = "fresh" /\ k.set = j.set /\ k.at = j.at + 1 /\ k.part = 1
          /\ k.late = late /\ k.cleared = FALSE
      <4> HIDE DEF late, j
      <4> QED BY <2>2 DEF Jobs
    <3> HIDE DEF k
    <3>3. k.at \in 1..Len(s.items) /\ k.at - 1 = j.at
      <4> HIDE DEF s, j
      <4> QED BY <1>3, <2>8, <2>3, <3>2
    <3>4. 1 \in 1..Len(Parts(s.items[k.at])) /\ (\A m \in 1..(k.part - 1) : FALSE)
      <4>1. s.items[k.at] \in Operations
        BY SMTT(30), <1>2, <3>3, OfPlan DEF AtWork
      <4> QED
        <5> HIDE DEF k, j, s, op, p, late
        <5> QED BY <3>2, <4>1, PartsLen
    <3>5. \A n \in 1..(k.at - 1) : \A q \in Touched(s.items[n]) : AsBefore(fs, k, s, q)
      BY ZenonT(40), <2>7, <2>8, <3>2, <3>3
    <3>6. FreshOK(fs, k, s)
      BY ZenonT(40), <1>2, <3>2, <3>3, <3>4, <3>5 DEF FreshOK, AtWork
    <3>7. JobOK(fs, docs, sets, k)
      <4> HIDE DEF k, j, s, op, p
      <4> QED BY <1>2, <3>2, <3>6 DEF JobOK, AtWork, ResolveOK, SentOK, ApplyOK, RestoreOK, DoneOK
    <3> QED BY ZenonT(40), <1>4, <3>1, <3>2, <3>7
  <2>9. CASE ~(j.part < Len(Parts(op))) /\ ~(j.at < Len(s.items))
    <3> DEFINE k == [[j EXCEPT !.phase = "apply", !.at = 1, !.part = 1] EXCEPT !.late = late]
    <3>1. job' = [job EXCEPT ![r] = k]
      BY ZenonT(40), <1>1, <1>6, <2>9 DEF CheckFresh
    <3>2. /\ k \in Jobs /\ k.phase = "apply" /\ k.set = j.set /\ k.at = 1
          /\ k.late = late /\ k.cleared = FALSE
      <4> HIDE DEF late, j
      <4> QED BY <2>2 DEF Jobs
    <3> HIDE DEF k
    <3>3. j.at = Len(s.items) /\ 1 \in 1..Len(s.items)
      <4> HIDE DEF k, j, s, op, p
      <4> QED BY <1>2, <1>3, <2>9 DEF AtWork
    <3>4. \A n \in k.at..Len(s.items) : \A q \in Touched(s.items[n]) : AsBefore(fs, k, s, q)
      <4> HIDE DEF k, j, s, op, p, late
      <4> QED BY <2>7, <2>9, <3>2, <3>3
    <3>5. \A n \in 1..(k.at - 1) : FALSE
      BY SMTT(30), <3>2
    <3>6. ApplyOK(fs, k, s)
      <4> HIDE DEF k, j, s, op, p, late
      <4> QED BY <1>2, <3>2, <3>3, <3>4, <3>5 DEF ApplyOK, AtWork
    <3>7. JobOK(fs, docs, sets, k)
      <4> HIDE DEF k, j, s, op, p, late
      <4> QED BY <1>2, <3>2, <3>6 DEF JobOK, AtWork, ResolveOK, SentOK, FreshOK, RestoreOK, DoneOK
    <3> QED BY ZenonT(40), <1>4, <3>1, <3>2, <3>7
  <2> QED BY SMTT(30), <2>6, <2>8, <2>9
<1> QED BY <1>5, <1>6

\* The work on a resource: an operation is undone or done again only as its own paths stand.
LEMMA Works ==
    ASSUME Inv, NEW r \in Requests, NEW s, AtWork(job[r], s), UNCHANGED <<docs, sets>>,
           NEW changed \in SUBSET Paths, fs' \in [Paths -> Contents],
           \A p \in Paths : p \notin changed => fs'[p] = fs[p],
           NEW k \in Jobs, JobOK(fs', docs, sets, k),
           \/ job' = [Disturbed(r, changed) EXCEPT ![r] = k]
           \/ changed = {} /\ job' = [job EXCEPT ![r] = k]
    PROVE  Inv'
<1>1. docs' \in [Docs -> Document] /\ docs' = docs /\ sets' = sets
  BY DEF AtWork
<1>2. changed \in SUBSET (Docs \cup Paths) /\ KeepsFiles(fs, fs', changed)
  BY DEF KeepsFiles
<1> QED BY <1>1, <1>2, Proceeds

\* What there is after an operation that found what was checked
LEMMA ResultIs ==
    ASSUME NEW plan \in Plans, NEW n \in 1..Len(plan), NEW f \in [Paths -> Contents], NEW before
    PROVE  /\ Result(plan[n], f) \in [Paths -> Contents]
           /\ \A p \in Paths : p \notin Touched(plan[n]) => Result(plan[n], f)[p] = f[p]
           /\ (\A p \in Touched(plan[n]) : f[p] = before[p]) =>
                  \A p \in Touched(plan[n]) : Result(plan[n], f)[p] = Planned(plan, before, p)
<1> DEFINE op == plan[n]
<1>1. op \in Operations /\ Touched(op) \in SUBSET Paths /\ \A p \in Touched(op) : OperationOn(plan, p) = op
  BY OfPlan
<1> HIDE DEF op
<1>2. /\ Absent \in Contents /\ Created \in Contents
  BY DEF Contents
<1>3. CASE op.op = "rename"
  <2>1. op.path \in Paths /\ op.target \in Paths /\ op.path # op.target /\ Touched(op) = {op.path, op.target}
    BY <1>1, <1>3, PartsOf
  <2>2. Result(op, f) = [f EXCEPT ![op.path] = Absent, ![op.target] = f[op.path]]
    BY <1>3 DEF Result
  <2>3. Result(op, f)[op.path] = Absent /\ Result(op, f)[op.target] = f[op.path]
    BY <2>1, <2>2
  <2>4. Planned(plan, before, op.path) = Absent /\ Planned(plan, before, op.target) = before[op.path]
    BY <1>1, <1>3, <2>1 DEF Planned
  <2> QED BY <1>2, <2>1, <2>2, <2>3, <2>4 DEF op
<1>4. CASE op.op = "create"
  <2>1. op.path \in Paths /\ Touched(op) = {op.path}
    BY <1>1, <1>4, PartsOf
  <2>2. Result(op, f) = [f EXCEPT ![op.path] = Created] /\ Planned(plan, before, op.path) = Created
    BY <1>1, <1>4, <2>1 DEF Result, Planned
  <2> QED BY <1>2, <2>1, <2>2 DEF op
<1>5. CASE op.op = "delete"
  <2>1. op.path \in Paths /\ Touched(op) = {op.path}
    BY <1>1, <1>5, PartsOf
  <2>2. Result(op, f) = [f EXCEPT ![op.path] = Absent] /\ Planned(plan, before, op.path) = Absent
    BY <1>1, <1>5, <2>1 DEF Result, Planned
  <2> QED BY <1>2, <2>1, <2>2 DEF op
<1> QED BY <1>1, <1>3, <1>4, <1>5, PartsOf

LEMMA ApplyOperationKeeps == ASSUME Inv, NEW r \in Requests, ApplyOperation(r) PROVE Inv'
<1> DEFINE j == job[r]
           s == sets[j.set]
           op == s.items[j.at]
           k == IF j.at < Len(s.items) THEN [j EXCEPT !.at = j.at + 1] ELSE Ended(j, "applied")
<1>1. j.phase = "apply" /\ Plan(r) = s.items
  BY AtWorkIs DEF ApplyOperation
<1>2. AtWork(j, s) /\ ApplyOK(fs, j, s)
  BY SMTT(30), <1>1, AtWorkIs DEF JobOK
<1>3. fs' = Result(op, fs) /\ job' = [Disturbed(r, Touched(op)) EXCEPT ![r] = k] /\ UNCHANGED <<docs, sets>>
  <2> HIDE DEF s
  <2> QED BY <1>1 DEF ApplyOperation
<1>4. /\ j \in Jobs /\ s.kind = "resource" /\ s.items \in Plans /\ j.at \in 1..Len(s.items) /\ Len(s.items) \in Nat
      /\ j.cleared = FALSE /\ j.set \in Sets /\ Taken(s) /\ Touched(op) \in SUBSET Paths /\ fs \in [Paths -> Contents]
  <2> HIDE DEF j, s
  <2> QED BY <1>1, <1>2 DEF AtWork, ApplyOK
<1>5. /\ fs' \in [Paths -> Contents] /\ \A p \in Paths : p \notin Touched(op) => fs'[p] = fs[p]
      /\ (\A p \in Touched(op) : fs[p] = s.before[p]) => \A p \in Touched(op) : fs'[p] = Planned(s.items, s.before, p)
  <2> DEFINE plan == s.items
             at == j.at
             before == s.before
  <2>1. plan \in Plans /\ at \in 1..Len(plan) /\ fs \in [Paths -> Contents] /\ fs' = Result(plan[at], fs)
    BY ZenonT(40), <1>3, <1>4
  <2> HIDE DEF plan, at, before
  <2>2. /\ fs' \in [Paths -> Contents] /\ \A p \in Paths : p \notin Touched(plan[at]) => fs'[p] = fs[p]
        /\ (\A p \in Touched(plan[at]) : fs[p] = before[p]) =>
               \A p \in Touched(plan[at]) : fs'[p] = Planned(plan, before, p)
    BY <2>1, ResultIs
  <2> QED BY SMTT(30), <2>2 DEF plan, at, before
<1>6. /\ \A n \in 1..(j.at - 1) : Done(fs, j, s, s.items[n])
      /\ \A n \in j.at..Len(s.items) : \A p \in Touched(s.items[n]) : AsBefore(fs, j, s, p)
  <2> HIDE DEF j, s, op, k
  <2> QED BY <1>1, <1>2 DEF ApplyOK
<1>7. ASSUME NEW q, q.late = j.late
      PROVE  /\ \A n \in 1..j.at : Done(fs', q, s, s.items[n])
             /\ \A n \in (j.at + 1)..Len(s.items) : \A p \in Touched(s.items[n]) : AsBefore(fs', q, s, p)
  <2>1. \A n \in 1..Len(s.items) : n # j.at =>
           /\ \A p \in Touched(s.items[n]) : AsBefore(fs, j, s, p) => AsBefore(fs', q, s, p)
           /\ Done(fs, j, s, s.items[n]) => Done(fs', q, s, s.items[n])
    <3>1. Apart(fs, fs', j, q, s, j.at)
      <4> HIDE DEF j, s, k
      <4> QED BY <1>4, <1>5, <1>7 DEF Apart
    <3> QED BY <3>1, OwnStep
  <2>2. Done(fs', q, s, op)
    <3>1. \A p \in Touched(op) : AsBefore(fs, j, s, p)
      <4> HIDE DEF j, s, k
      <4> QED BY <1>4, <1>6
    <3>2. Touched(op) \cap q.late = {} => \A p \in Touched(op) : fs[p] = s.before[p]
      BY <1>7, <3>1 DEF AsBefore
    <3> QED
      <4> HIDE DEF j, s, op, k
      <4> QED BY <1>5, <3>2 DEF Done
  <2>3. \A n \in 1..j.at : n = j.at \/ (n \in 1..(j.at - 1) /\ n \in 1..Len(s.items) /\ n # j.at)
    BY <1>4
  <2>4. \A n \in (j.at + 1)..Len(s.items) : n \in j.at..Len(s.items) /\ n \in 1..Len(s.items) /\ n # j.at
    BY SMTT(30), <1>4
  <2> QED
    <3> HIDE DEF j, s, k
    <3> QED BY <1>6, <2>1, <2>2, <2>3, <2>4
<1>8. ASSUME NEW q \in Jobs, k = q, JobOK(fs', docs, sets, q) PROVE Inv'
  <2>1. job' = [Disturbed(r, Touched(op)) EXCEPT ![r] = q]
    BY ZenonT(40), <1>3, <1>8
  <2> HIDE DEF k
  <2> QED BY ZenonT(40), <1>2, <1>3, <1>4, <1>5, <1>8, <2>1, Works
<1>9. CASE j.at < Len(s.items)
  <2> DEFINE q == [j EXCEPT !.at = j.at + 1]
  <2>1. /\ q \in Jobs /\ q.phase = "apply" /\ q.set = j.set /\ q.at = j.at + 1 /\ q.late = j.late /\ q.cleared = FALSE
    <3>1. j \in Jobs /\ j.at + 1 \in Nat
      BY <1>4
    <3> HIDE DEF j
    <3> QED BY <1>1, <1>4, <3>1 DEF Jobs
  <2>2. k = q
    BY <1>9
  <2> HIDE DEF q
  <2>3. q.at \in 1..Len(s.items) /\ q.at - 1 = j.at
    <3> HIDE DEF q, j, s, op, k
    <3> QED BY <1>4, <1>9, <2>1
  <2>4. ApplyOK(fs', q, s)
    <3> HIDE DEF q, j, s, op, k
    <3> QED BY <1>4, <1>7, <2>1, <2>3 DEF ApplyOK
  <2>5. JobOK(fs', docs, sets, q)
    BY <1>4, <2>1, <2>4 DEF JobOK, ResolveOK, SentOK, FreshOK, RestoreOK, DoneOK
  <2> QED BY <1>8, <2>1, <2>2, <2>5
<1>10. CASE ~(j.at < Len(s.items))
  <2> DEFINE q == Ended(j, "applied")
  <2>1. "applied" \in Outcomes
    BY DEF Outcomes
  <2>2. q \in Jobs /\ q.phase = "done" /\ q.result = "applied" /\ q.late = j.late
    BY <1>4, <2>1, EndedIs
  <2>3. k = q /\ j.at = Len(s.items)
    BY <1>4, <1>10
  <2> HIDE DEF q
  <2>4. DoneOK(fs', q, s)
    BY <1>7, <2>2, <2>3 DEF DoneOK
  <2>5. JobOK(fs', docs, sets, q)
    BY <1>4, <2>1, <2>4, EndedOK DEF q
  <2> QED BY <1>8, <2>2, <2>3, <2>5
<1> QED BY <1>9, <1>10

\* The operations before the one that failed are carried out, the others are as they were.
Returning(f, k, s) ==
    /\ s.kind = "resource" /\ s.items \in Plans /\ Len(s.items) \in Nat /\ k.at \in 1..Len(s.items)
    /\ \A n \in 1..(k.at - 1) : Done(f, k, s, s.items[n])
    /\ \A n \in k.at..Len(s.items) : PutBack(f, k, s, s.items[n])

\* Restoring goes on with the operation before, from its last path, or is through.
LEMMA GoesBack ==
    ASSUME NEW f, NEW k, NEW s, Returning(f, k, s), k.at > 1,
           NEW q \in Jobs, q.phase = "restore", q.at = k.at - 1, q.part = 0, q.cleared = FALSE,
           q.late = k.late, q.half = k.half
    PROVE  RestoreOK(f, q, s)
<1>1. /\ s.kind = "resource" /\ s.items \in Plans /\ Len(s.items) \in Nat /\ k.at \in 1..Len(s.items)
      /\ q.at \in 1..Len(s.items) /\ q.at + 1 = k.at
  BY DEF Returning
<1>2. \A n \in 1..(q.at - 1) : n \in 1..(k.at - 1)
  BY <1>1
<1>3. \A n \in 1..(q.at - 1) : Done(f, q, s, s.items[n])
  BY <1>2 DEF Returning, Done
<1>4. \A n \in (q.at + 1)..Len(s.items) : PutBack(f, q, s, s.items[n])
  BY <1>1 DEF Returning, PutBack
<1>5. Restoring(f, q, s, s.items[q.at])
  <2> DEFINE op == s.items[q.at]
  <2>1. op \in Operations
    BY <1>1, OfPlan
  <2>2. Done(f, k, s, op)
    BY <1>1 DEF Returning
  <2> HIDE DEF op
  <2>3. Restored(q, op) = Parts(op)[Len(Parts(op))]
    BY DEF Restored
  <2>4. \A p \in Touched(op) : Restored(q, op) = op.path => p = Restored(q, op)
    <3>1. CASE op.op = "rename"
      <4>1. Parts(op) = <<op.path, op.target>> /\ op.target # op.path
        BY <2>1, <3>1, PartsOf
      <4>2. Restored(q, op) = op.target
        BY <2>3, <4>1
      <4> QED BY <4>1, <4>2
    <3>2. CASE op.op # "rename"
      BY <2>1, <2>3, <3>2, PartsOf
    <3> QED BY <3>1, <3>2
  <2>5. Restoring(f, q, s, op)
    BY <2>2, <2>4 DEF Restoring, Done
  <2> QED BY <2>5 DEF op
<1> QED BY <1>1, <1>3, <1>4, <1>5 DEF RestoreOK

LEMMA ThroughOK ==
    ASSUME NEW f, NEW k, NEW s, Returning(f, k, s), k.at = 1,
           NEW q \in Jobs, q.phase = "done", q.result \in {"failed", "recovery"},
           q.late = k.late, q.half = k.half
    PROVE  DoneOK(f, q, s)
  BY DEF Returning, DoneOK, PutBack

LEMMA AfterOperationOK ==
    ASSUME NEW f, NEW ds, NEW k \in Jobs, k.set \in Sets, k.phase = "restore", Taken(sets[k.set]),
           Returning(f, k, sets[k.set])
    PROVE  AfterOperation(k) \in Jobs /\ JobOK(f, ds, sets, AfterOperation(k))
<1> DEFINE q == AfterOperation(k)
<1>1. k.at \in Nat /\ k.at >= 1
  BY DEF Returning, Jobs
<1>2. CASE k.at > 1
  <2>1. k.at - 1 \in Nat /\ 0 \in Nat
    BY <1>1, <1>2
  <2>2. q = [k EXCEPT !.at = k.at - 1, !.part = 0, !.cleared = FALSE]
    BY <1>2 DEF AfterOperation
  <2>3. /\ q \in Jobs /\ q.phase = "restore" /\ q.at = k.at - 1 /\ q.part = 0 /\ q.cleared = FALSE
        /\ q.late = k.late /\ q.half = k.half /\ q.set = k.set
    BY <2>1, <2>2 DEF Jobs
  <2> HIDE DEF q
  <2>4. RestoreOK(f, q, sets[k.set])
    BY <1>2, <2>3, GoesBack
  <2>5. JobOK(f, ds, sets, q)
    BY <2>3, <2>4 DEF JobOK, ResolveOK, SentOK, FreshOK, ApplyOK, DoneOK
  <2> QED BY <2>3, <2>5 DEF q
<1>3. CASE ~(k.at > 1)
  <2> DEFINE c == [k EXCEPT !.cleared = FALSE]
             result == IF k.bad THEN "recovery" ELSE "failed"
  <2>1. c \in Jobs /\ c.late = k.late /\ c.half = k.half /\ c.set = k.set /\ c.bad = k.bad
    BY DEF Jobs
  <2>2. q = Ended(c, result)
    BY <1>3, <2>1 DEF AfterOperation
  <2>3. result \in Outcomes /\ result \in {"failed", "recovery"}
    BY DEF Outcomes
  <2> HIDE DEF c, result, q
  <2>4. q \in Jobs /\ q.phase = "done" /\ q.result \in {"failed", "recovery"} /\ q.late = k.late /\ q.half = k.half
    BY <2>1, <2>2, <2>3, EndedIs
  <2>5. DoneOK(f, q, sets[k.set])
    BY <1>1, <1>3, <2>4, ThroughOK
  <2>6. JobOK(f, ds, sets, q)
    BY <2>1, <2>2, <2>3, <2>5, EndedOK
  <2> QED BY <2>4, <2>6 DEF q
<1> QED BY <1>2, <1>3

\* The operation at which an apply fails is as it was, or half done.
LEMMA FailingOK ==
    ASSUME NEW f, NEW ds, NEW j \in Jobs, j.set \in Sets, Taken(sets[j.set]), j.cleared = FALSE,
           NEW half \in SUBSET Paths, NEW k, k.at = j.at, k.late = j.late, k.half = half,
           Returning(f, k, sets[j.set])
    PROVE  Failing(j, half) \in Jobs /\ JobOK(f, ds, sets, Failing(j, half))
<1> DEFINE q == Failing(j, half)
<1>1. k.at \in Nat /\ k.at >= 1
  BY DEF Returning, Jobs
<1>2. CASE k.at > 1
  <2>1. j.at - 1 \in Nat /\ 0 \in Nat
    BY <1>1, <1>2
  <2>2. q = [j EXCEPT !.phase = "restore", !.half = half, !.at = j.at - 1, !.part = 0]
    BY <1>2 DEF Failing
  <2>3. /\ q \in Jobs /\ q.phase = "restore" /\ q.at = j.at - 1 /\ q.part = 0 /\ q.cleared = j.cleared
        /\ q.late = j.late /\ q.half = half /\ q.set = j.set
    <3> HIDE DEF q
    <3> QED BY <2>1, <2>2 DEF Jobs
  <2> HIDE DEF q
  <2>4. RestoreOK(f, q, sets[j.set])
    BY <1>2, <2>3, GoesBack
  <2>5. JobOK(f, ds, sets, q)
    BY <2>3, <2>4 DEF JobOK, ResolveOK, SentOK, FreshOK, ApplyOK, DoneOK
  <2> QED BY <2>3, <2>5 DEF q
<1>3. CASE ~(k.at > 1)
  <2> DEFINE c == [j EXCEPT !.half = half]
  <2>1. c \in Jobs /\ c.late = k.late /\ c.half = k.half /\ c.set = j.set
    BY DEF Jobs
  <2>2. q = Ended(c, "failed") /\ "failed" \in Outcomes
    BY <1>1, <1>3 DEF Failing, Outcomes
  <2> HIDE DEF c, q
  <2>3. q \in Jobs /\ q.phase = "done" /\ q.result = "failed" /\ q.late = k.late /\ q.half = k.half
    BY <2>1, <2>2, EndedIs
  <2>4. DoneOK(f, q, sets[j.set])
    BY <1>1, <1>3, <2>3, ThroughOK
  <2>5. JobOK(f, ds, sets, q)
    BY <2>1, <2>2, <2>4, EndedOK
  <2> QED BY <2>3, <2>5 DEF q
<1> QED BY <1>2, <1>3

LEMMA OperationFailsKeeps == ASSUME Inv, NEW r \in Requests, OperationFails(r) PROVE Inv'
<1> DEFINE j == job[r]
           s == sets[j.set]
           op == s.items[j.at]
<1>1. j.phase = "apply" /\ Plan(r) = s.items /\ UNCHANGED <<docs, sets>>
  BY AtWorkIs DEF OperationFails
<1>2. AtWork(j, s) /\ ApplyOK(fs, j, s)
  BY SMTT(30), <1>1, AtWorkIs DEF JobOK
<1>3. PICK half \in {{}, {op.path}} :
        /\ half = {} => fs' = fs /\ job' = [job EXCEPT ![r] = Failing(j, {})]
        /\ half # {} => fs' = [fs EXCEPT ![op.path] = Torn]
                        /\ job' = [Disturbed(r, half) EXCEPT ![r] = Failing(j, half)]
  BY ZenonT(40), <1>1 DEF OperationFails
<1>4. /\ j \in Jobs /\ s.kind = "resource" /\ s.items \in Plans /\ j.at \in 1..Len(s.items) /\ Len(s.items) \in Nat
      /\ j.cleared = FALSE /\ j.set \in Sets /\ Taken(s) /\ fs \in [Paths -> Contents]
      /\ op.path \in Touched(op) /\ op.path \in Paths
  BY ZenonT(40), <1>1, <1>2, PartsOf DEF AtWork, ApplyOK
<1>5. half \in SUBSET Paths /\ half \subseteq Touched(op)
  <2> HIDE DEF j, s, op
  <2> QED BY <1>4
<1>6. fs' \in [Paths -> Contents] /\ \A p \in Paths : p \notin half => fs'[p] = fs[p]
  BY ZenonT(40), <1>3, <1>4 DEF Contents
<1> DEFINE k == [j EXCEPT !.half = half]
<1>7. k.at = j.at /\ k.late = j.late /\ k.half = half
  BY ZenonT(40), <1>4, <1>5 DEF Jobs
<1> HIDE DEF k
<1>8. Returning(fs', k, s)
  <2>1. Apart(fs, fs', j, k, s, j.at)
    BY ZenonT(40), <1>4, <1>5, <1>6, <1>7 DEF Apart
  <2>2. \A n \in 1..Len(s.items) : n # j.at =>
           /\ \A p \in Touched(s.items[n]) : AsBefore(fs, j, s, p) => AsBefore(fs', k, s, p)
           /\ Done(fs, j, s, s.items[n]) => Done(fs', k, s, s.items[n])
    <3> HIDE DEF k, j, s, op
    <3> QED BY <2>1, OwnStep
  <2>3. \A n \in 1..(j.at - 1) : n \in 1..Len(s.items) /\ n # j.at
    <3> HIDE DEF k, j, s, op
    <3> QED BY <1>4
  <2>4. \A n \in 1..(k.at - 1) : Done(fs', k, s, s.items[n])
    BY ZenonT(40), <1>1, <1>2, <1>7, <2>2, <2>3 DEF ApplyOK
  <2>5. ASSUME NEW n \in j.at..Len(s.items) PROVE PutBack(fs', k, s, s.items[n])
    <3>1. n \in 1..Len(s.items)
      <4> HIDE DEF k, j, s, op
      <4> QED BY <1>4
    <3>2. \A p \in Touched(s.items[n]) : AsBefore(fs, j, s, p)
      <4> HIDE DEF k, j, s, op
      <4> QED BY <1>1, <1>2 DEF ApplyOK
    <3>3. CASE n # j.at
      <4>1. \A p \in Touched(s.items[n]) : AsBefore(fs', k, s, p)
        <5> HIDE DEF k, j, s, op
        <5> QED BY <2>2, <3>2, <3>3, <3>1
      <4> QED
        <5> HIDE DEF k, j, s, op
        <5> QED BY <4>1 DEF AsBefore, PutBack
    <3>4. CASE n = j.at /\ half = {}
      <4>1. \A p \in Touched(s.items[n]) : AsBefore(fs, j, s, p) /\ fs' = fs
        BY SMTT(30), <1>3, <3>2, <3>4
      <4> QED
        <5> HIDE DEF k, j, s, op
        <5> QED BY <1>7, <4>1 DEF AsBefore, PutBack
    <3>5. CASE n = j.at /\ half # {}
      <4>1. op.path \in Touched(op) /\ op.path \in k.half /\ s.items[n] = op
        <5> HIDE DEF k, j, s
        <5> QED BY <1>4, <1>7, <3>5
      <4> QED BY ZenonT(40), <4>1 DEF PutBack
    <3> QED
      <4> HIDE DEF k, j, s, op
      <4> QED BY <3>3, <3>4, <3>5
  <2> QED BY ZenonT(40), <1>4, <1>7, <2>4, <2>5 DEF Returning
<1>9. Failing(j, half) \in Jobs /\ JobOK(fs', docs, sets, Failing(j, half))
  BY ZenonT(40), <1>4, <1>5, <1>7, <1>8, FailingOK
<1>10. \/ job' = [Disturbed(r, half) EXCEPT ![r] = Failing(j, half)]
       \/ half = {} /\ job' = [job EXCEPT ![r] = Failing(j, half)]
  BY ZenonT(40), <1>3
<1> DEFINE q == Failing(j, half)
<1> HIDE DEF q, s
<1>11. /\ q \in Jobs /\ JobOK(fs', docs, sets, q)
       /\ job' = [Disturbed(r, half) EXCEPT ![r] = q] \/ (half = {} /\ job' = [job EXCEPT ![r] = q])
  BY <1>9, <1>10 DEF q
<1> QED BY <1>1, <1>2, <1>5, <1>6, <1>11, Works

\* The path being restored is one of the operation's.
LEMMA RestoredIs ==
    ASSUME NEW op \in Operations, NEW j, j.part \in {0, 1}
    PROVE  Restored(j, op) \in Touched(op) /\ Restored(j, op) \in Paths
<1>1. CASE op.op = "rename"
  <2>1. Parts(op) = <<op.path, op.target>> /\ Touched(op) = {op.path, op.target} /\ op.path \in Paths /\ op.target \in Paths
    BY <1>1, PartsOf
  <2>2. Restored(j, op) \in {op.path, op.target}
    BY <2>1 DEF Restored
  <2> QED BY <2>1, <2>2
<1>2. CASE op.op # "rename"
  <2>1. Parts(op) = <<op.path>> /\ Touched(op) = {op.path} /\ op.path \in Paths
    BY <1>2, PartsOf
  <2>2. Restored(j, op) = op.path
    BY <2>1 DEF Restored
  <2> QED BY <2>1, <2>2
<1> QED BY <1>1, <1>2

\* A path of an operation has been restored.
PathBack(f, j, s, op) ==
    Touched(op) \cap j.late = {} =>
        \A p \in Touched(op) :
            f[p] = IF p = Restored(j, op) \/ Restored(j, op) = op.path
                   THEN s.before[p] ELSE Planned(s.items, s.before, p)

LEMMA OtherPath ==
    ASSUME NEW f, NEW j, NEW k, NEW s, NEW op, PathBack(f, j, s, op),
           k.late = j.late, k.cleared = FALSE, Restored(k, op) = op.path, Restored(j, op) # op.path,
           \A p \in Touched(op) : p = op.path \/ p = Restored(j, op)
    PROVE  Restoring(f, k, s, op)
BY DEF Restoring, PathBack

LEMMA AfterPathOK ==
    ASSUME NEW f, NEW ds, NEW j \in Jobs, j.set \in Sets, j.phase = "restore", j.part \in {0, 1}, Taken(sets[j.set]),
           NEW s, s = sets[j.set], s.kind = "resource", s.items \in Plans, j.at \in 1..Len(s.items),
           \A n \in 1..(j.at - 1) : Done(f, j, s, s.items[n]),
           PathBack(f, j, s, s.items[j.at]),
           \A n \in (j.at + 1)..Len(s.items) : PutBack(f, j, s, s.items[n])
    PROVE  /\ AfterPath(j, s.items[j.at]) \in Jobs
           /\ JobOK(f, ds, sets, AfterPath(j, s.items[j.at]))
<1> DEFINE op == s.items[j.at]
           q == AfterPath(j, op)
<1>1. op \in Operations /\ Len(s.items) \in Nat /\ j.at \in Nat
  BY OfPlan DEF Jobs
<1>2. CASE Restored(j, op) = op.path
  <2>1. q = AfterOperation(j)
    BY <1>2 DEF AfterPath
  <2>2. PutBack(f, j, s, op)
    BY <1>2 DEF PathBack, PutBack
  <2>3. ASSUME NEW n \in j.at..Len(s.items) PROVE PutBack(f, j, s, s.items[n])
    <3>1. n = j.at \/ n \in (j.at + 1)..Len(s.items)
      BY <1>1
    <3> QED BY <2>2, <3>1
  <2>4. Returning(f, j, sets[j.set])
    BY SMTT(30), <1>1, <2>3 DEF Returning
  <2> QED BY <2>1, <2>4, AfterOperationOK
<1>3. CASE Restored(j, op) # op.path
  <2>1. 1 \in Nat /\ q = [j EXCEPT !.part = 1, !.cleared = FALSE]
    BY <1>3 DEF AfterPath
  <2>2. /\ q \in Jobs /\ q.phase = "restore" /\ q.at = j.at /\ q.part = 1 /\ q.cleared = FALSE
        /\ q.late = j.late /\ q.half = j.half /\ q.set = j.set
    BY <2>1 DEF Jobs
  <2>3. Restored(j, op) \in Touched(op)
    BY <1>1, RestoredIs
  <2>0. op = s.items[j.at] /\ PathBack(f, j, s, op)
    OBVIOUS
  <2> HIDE DEF q, op
  <2>4. Restored(q, op) = op.path /\ \A p \in Touched(op) : p = op.path \/ p = Restored(j, op)
    <3>1. op.op = "rename" \/ Touched(op) = {op.path}
      BY <1>1, PartsOf
    <3>2. op.op = "rename"
      BY <1>3, <2>3, <3>1
    <3>3. Parts(op) = <<op.path, op.target>> /\ Touched(op) = {op.path, op.target}
      BY <1>1, <3>2, PartsOf
    <3>4. Restored(q, op) = op.path
      BY SMTT(30), <2>2, <3>3 DEF Restored
    <3> QED BY <1>3, <2>3, <3>3, <3>4
  <2>5. Restoring(f, q, s, op)
    BY ZenonT(40), <1>3, <2>0, <2>2, <2>4, OtherPath
  <2>6. (\A n \in 1..(q.at - 1) : Done(f, q, s, s.items[n])) /\ \A n \in (q.at + 1)..Len(s.items) : PutBack(f, q, s, s.items[n])
    BY <2>2 DEF Done, PutBack
  <2>7. RestoreOK(f, q, s)
    BY <2>0, <2>2, <2>5, <2>6 DEF RestoreOK
  <2>8. JobOK(f, ds, sets, q)
    BY <2>2, <2>7 DEF JobOK, ResolveOK, SentOK, FreshOK, ApplyOK, DoneOK
  <2> QED
    <3>1. q = AfterPath(j, s.items[j.at])
      BY ZenonT(40) DEF q, op
    <3> QED BY ZenonT(40), <2>2, <2>8, <3>1
<1> QED BY <1>2, <1>3

Writes(f, g, p, v) == v \in Contents /\ g = [f EXCEPT ![p] = v]

OnlyAt(g, j, s, p, v) ==
    /\ p \in Touched(s.items[j.at]) /\ p \in Paths
    /\ j.part \in {0, 1} /\ Restoring(fs, j, s, s.items[j.at])
    /\ g \in [Paths -> Contents] /\ g[p] = v /\ \A q \in Paths : q # p => g[q] = fs[q]
    /\ \A n \in 1..(j.at - 1) : Done(g, j, s, s.items[n])
    /\ \A n \in (j.at + 1)..Len(s.items) : PutBack(g, j, s, s.items[n])

\* While an operation is restored, the path at hand changes and nothing else.
LEMMA Restores ==
    ASSUME NEW j, NEW s, AtWork(j, s), j.phase = "restore", RestoreOK(fs, j, s),
           NEW p, p = Restored(j, s.items[j.at]), NEW v, NEW g, Writes(fs, g, p, v)
    PROVE  OnlyAt(g, j, s, p, v)
<1>1. /\ s.items \in Plans /\ Len(s.items) \in Nat /\ j.at \in 1..Len(s.items) /\ s.items[j.at] \in Operations
      /\ fs \in [Paths -> Contents] /\ j.part \in {0, 1} /\ Restoring(fs, j, s, s.items[j.at])
  BY ZenonT(40) DEF AtWork, RestoreOK
<1>2. p \in Touched(s.items[j.at]) /\ p \in Paths
  BY <1>1, RestoredIs
<1>3. g \in [Paths -> Contents] /\ g[p] = v /\ \A q \in Paths : q # p => g[q] = fs[q]
  BY <1>1, <1>2 DEF Writes
<1>4. Apart(fs, g, j, j, s, j.at)
  BY <1>1, <1>2, <1>3 DEF Apart
<1>5. \A n \in 1..Len(s.items) : n # j.at =>
         /\ Done(fs, j, s, s.items[n]) => Done(g, j, s, s.items[n])
         /\ PutBack(fs, j, s, s.items[n]) => PutBack(g, j, s, s.items[n])
  BY <1>4, OwnStep
<1>6. /\ \A n \in 1..(j.at - 1) : n \in 1..Len(s.items) /\ n # j.at
      /\ \A n \in (j.at + 1)..Len(s.items) : n \in 1..Len(s.items) /\ n # j.at
  BY <1>1
<1>7. /\ \A n \in 1..(j.at - 1) : Done(g, j, s, s.items[n])
      /\ \A n \in (j.at + 1)..Len(s.items) : PutBack(g, j, s, s.items[n])
  BY <1>5, <1>6 DEF RestoreOK
<1> QED BY SMTT(30), <1>1, <1>2, <1>3, <1>7 DEF OnlyAt

LEMMA RestoreClearKeeps == ASSUME Inv, NEW r \in Requests, RestoreClear(r) PROVE Inv'
<1> DEFINE j == job[r]
           s == sets[j.set]
           op == s.items[j.at]
           p == Restored(j, op)
           changed == IF fs[p] = Absent THEN {} ELSE {p}
           k == IF s.before[p] = Absent THEN AfterPath(j, op) ELSE [j EXCEPT !.cleared = TRUE]
<1>1. j.phase = "restore" /\ ~j.cleared /\ Plan(r) = s.items /\ Before(r) = s.before /\ UNCHANGED <<docs, sets>>
  BY SMTT(30), AtWorkIs DEF RestoreClear
<1>2. fs' = [fs EXCEPT ![p] = Absent] /\ job' = [Disturbed(r, changed) EXCEPT ![r] = k]
  BY ZenonT(40), <1>1 DEF RestoreClear, Snapshot
<1>3. Absent \in Contents
  BY DEF Contents
<1>4. /\ AtWork(j, s) /\ p \in Touched(op) /\ p \in Paths
      /\ j.part \in {0, 1} /\ Restoring(fs, j, s, op)
      /\ fs' \in [Paths -> Contents] /\ fs'[p] = Absent /\ \A q \in Paths : q # p => fs'[q] = fs[q]
      /\ \A n \in 1..(j.at - 1) : Done(fs', j, s, s.items[n])
      /\ \A n \in (j.at + 1)..Len(s.items) : PutBack(fs', j, s, s.items[n])
  <2>1. AtWork(j, s) /\ RestoreOK(fs, j, s)
    BY SMTT(30), <1>1, AtWorkIs DEF JobOK
  <2>2. Writes(fs, fs', p, Absent)
    BY ZenonT(40), <1>2, <1>3 DEF Writes
  <2>3. OnlyAt(fs', j, s, p, Absent)
    <3>1. p = Restored(j, s.items[j.at]) /\ j.phase = "restore"
      BY SMTT(30), <1>1
    <3> HIDE DEF j, s, p
    <3> QED BY <2>1, <2>2, <3>1, Restores
  <2> QED BY ZenonT(40), <2>1, <2>3 DEF OnlyAt
<1>5. /\ j \in Jobs /\ j.set \in Sets /\ Taken(sets[j.set]) /\ s = sets[j.set] /\ s.kind = "resource" /\ s.items \in Plans
      /\ j.at \in 1..Len(s.items) /\ op \in Operations /\ Touched(op) \in SUBSET Paths
  BY ZenonT(40), <1>4 DEF AtWork
<1> HIDE DEF s, op, p
<1>6. ASSUME NEW q \in Jobs, k = q, JobOK(fs', docs, sets, q) PROVE Inv'
  <2>1. changed \in SUBSET Paths /\ \A x \in Paths : x \notin changed => fs'[x] = fs[x]
    BY <1>4
  <2>2. job' = [Disturbed(r, changed) EXCEPT ![r] = q]
    BY <1>2, <1>6
  <2> HIDE DEF changed, k
  <2> QED BY <1>1, <1>4, <1>6, <2>1, <2>2, Works
<1>7. CASE s.before[p] = Absent
  <2>1. PathBack(fs', j, s, op)
    <3> HIDE DEF j, s, op, changed, k
    <3> QED BY <1>1, <1>4, <1>5, <1>7 DEF PathBack, Restoring, p
  <2>2. AfterPath(j, op) \in Jobs /\ JobOK(fs', docs, sets, AfterPath(j, op))
    BY ZenonT(40), <1>1, <1>4, <1>5, <2>1, AfterPathOK DEF op
  <2> QED BY <1>6, <1>7, <2>2
<1>8. CASE s.before[p] # Absent
  <2> DEFINE q == [j EXCEPT !.cleared = TRUE]
  <2>1. /\ q \in Jobs /\ q.phase = "restore" /\ q.at = j.at /\ q.part = j.part /\ q.cleared = TRUE
        /\ q.late = j.late /\ q.half = j.half /\ q.set = j.set
    BY <1>1, <1>5 DEF Jobs
  <2>2. k = q
    BY <1>8
  <2> HIDE DEF q, k
  <2>3. Restored(q, op) = p
    BY <2>1 DEF Restored, p
  <2>4. q.cleared
    BY <2>1, Zenon
  <2>5. Restoring(fs', q, s, op)
    <3> HIDE DEF q, j, s, op, changed, k
    <3> QED BY <1>1, <1>4, <1>5, <2>1, <2>3, <2>4 DEF Restoring, p
  <2>6. (\A n \in 1..(q.at - 1) : Done(fs', q, s, s.items[n])) /\ \A n \in (q.at + 1)..Len(s.items) : PutBack(fs', q, s, s.items[n])
    BY SMTT(30), <1>4, <2>1 DEF Done, PutBack
  <2>7. RestoreOK(fs', q, s)
    BY ZenonT(40), <1>4, <1>5, <2>1, <2>5, <2>6 DEF RestoreOK, op
  <2>8. JobOK(fs', docs, sets, q)
    BY <1>5, <2>1, <2>7 DEF JobOK, ResolveOK, SentOK, FreshOK, ApplyOK, DoneOK
  <2> QED BY <1>6, <2>1, <2>2, <2>8
<1> QED BY <1>7, <1>8

LEMMA RestoreWriteKeeps == ASSUME Inv, NEW r \in Requests, RestoreWrite(r) PROVE Inv'
<1> DEFINE j == job[r]
           s == sets[j.set]
           op == s.items[j.at]
           p == Restored(j, op)
           k == AfterPath(j, op)
<1>1. j.phase = "restore" /\ j.cleared /\ Plan(r) = s.items /\ Before(r) = s.before /\ UNCHANGED <<docs, sets>>
  BY AtWorkIs DEF RestoreWrite
<1>2. fs' = [fs EXCEPT ![p] = s.before[p]] /\ job' = [Disturbed(r, {p}) EXCEPT ![r] = k]
  BY ZenonT(40), <1>1 DEF RestoreWrite
<1>3. s.before[p] \in Contents
  <2>1. AtWork(j, s) /\ RestoreOK(fs, j, s)
    BY SMTT(30), <1>1, AtWorkIs DEF JobOK
  <2>2. p \in Touched(op)
    <3> HIDE DEF j, k
    <3> QED BY <1>1, <2>1, RestoredIs DEF AtWork, RestoreOK
  <2> QED
    <3> HIDE DEF j, p, k
    <3> QED BY <2>1, <2>2 DEF AtWork
<1>4. /\ AtWork(j, s) /\ p \in Touched(op) /\ p \in Paths
      /\ j.part \in {0, 1} /\ Restoring(fs, j, s, op)
      /\ fs' \in [Paths -> Contents] /\ fs'[p] = s.before[p] /\ \A q \in Paths : q # p => fs'[q] = fs[q]
      /\ \A n \in 1..(j.at - 1) : Done(fs', j, s, s.items[n])
      /\ \A n \in (j.at + 1)..Len(s.items) : PutBack(fs', j, s, s.items[n])
  <2>1. AtWork(j, s) /\ RestoreOK(fs, j, s)
    BY <1>1, AtWorkIs DEF JobOK
  <2>2. Writes(fs, fs', p, s.before[p])
    <3> HIDE DEF j, s, op, p, k
    <3> QED BY <1>2, <1>3 DEF Writes
  <2>3. OnlyAt(fs', j, s, p, s.before[p])
    <3>1. p = Restored(j, s.items[j.at]) /\ j.phase = "restore"
      BY SMTT(30), <1>1
    <3> HIDE DEF j, s, p
    <3> QED BY <2>1, <2>2, <3>1, Restores
  <2> QED BY ZenonT(40), <2>1, <2>3 DEF OnlyAt
<1>5. /\ j \in Jobs /\ j.set \in Sets /\ Taken(sets[j.set]) /\ s = sets[j.set] /\ s.kind = "resource" /\ s.items \in Plans
      /\ j.at \in 1..Len(s.items) /\ op \in Operations /\ Touched(op) \in SUBSET Paths
  BY ZenonT(40), <1>4 DEF AtWork
<1> HIDE DEF s, op, p
<1>6. PathBack(fs', j, s, op)
  <2> HIDE DEF j, s, k
  <2> QED BY <1>4, <1>5 DEF PathBack, Restoring, p
<1>7. k \in Jobs /\ JobOK(fs', docs, sets, k)
  BY ZenonT(40), <1>1, <1>4, <1>5, <1>6, AfterPathOK DEF op
<1>8. {p} \in SUBSET Paths /\ \A x \in Paths : x \notin {p} => fs'[x] = fs[x]
  BY <1>4
<1> DEFINE changed == {p}
<1>9. job' = [Disturbed(r, changed) EXCEPT ![r] = k]
  BY <1>2
<1> HIDE DEF changed, k
<1> QED BY <1>1, <1>4, <1>7, <1>8, <1>9, Works DEF changed

LEMMA RestoreFailsKeeps == ASSUME Inv, NEW r \in Requests, RestoreFails(r) PROVE Inv'
<1> DEFINE j == job[r]
           s == sets[j.set]
           op == s.items[j.at]
           half == j.half \cup Touched(op)
           c == [j EXCEPT !.bad = TRUE, !.half = half]
           k == AfterOperation(c)
<1>1. j.phase = "restore" /\ Plan(r) = s.items /\ UNCHANGED <<docs, sets, fs>>
  BY AtWorkIs DEF RestoreFails
<1>2. job' = [job EXCEPT ![r] = k]
  BY <1>1 DEF RestoreFails
<1>3. AtWork(j, s) /\ RestoreOK(fs, j, s)
  BY <1>1, AtWorkIs DEF JobOK
<1>4. /\ j \in Jobs /\ j.set \in Sets /\ Taken(s) /\ s.kind = "resource" /\ s.items \in Plans /\ Len(s.items) \in Nat
      /\ j.at \in 1..Len(s.items) /\ op \in Operations /\ Touched(op) \in SUBSET Paths
  <2> HIDE DEF j, s, half, c, k
  <2> QED BY <1>3 DEF AtWork
<1>5. half \in SUBSET Paths
  <2> HIDE DEF j, s, op, c, k
  <2> QED BY <1>4 DEF Jobs
<1> HIDE DEF half
<1>6. c \in Jobs /\ c.set = j.set /\ c.at = j.at /\ c.phase = "restore" /\ c.late = j.late /\ c.half = half
  <2> HIDE DEF j, s, op, half, k
  <2> QED BY <1>1, <1>4, <1>5 DEF Jobs
<1> HIDE DEF c
<1>7. Returning(fs, c, s)
  <2>1. \A n \in 1..(c.at - 1) : Done(fs, c, s, s.items[n])
    <3> HIDE DEF j, s, op, half, c, k
    <3> QED BY <1>1, <1>3, <1>6 DEF RestoreOK, Done
  <2>2. ASSUME NEW n \in c.at..Len(s.items) PROVE PutBack(fs, c, s, s.items[n])
    <3>1. CASE n = j.at
      <4>1. op.path \in Touched(op) /\ op.path \in c.half /\ s.items[n] = op
        <5> HIDE DEF j, s, c, k
        <5> QED BY <1>4, <1>6, <3>1, PartsOf DEF half
      <4> QED
        <5> HIDE DEF j, s, op, half, c, k
        <5> QED BY <4>1 DEF PutBack
    <3>2. CASE n # j.at
      <4>1. n \in (j.at + 1)..Len(s.items)
        BY SMTT(30), <1>4, <1>6, <3>2
      <4>2. PutBack(fs, j, s, s.items[n])
        <5> HIDE DEF j, s, op, half, c, k
        <5> QED BY <1>1, <1>3, <4>1 DEF RestoreOK
      <4> QED
        <5> HIDE DEF j, s, op, c, k
        <5> QED BY <1>6, <4>2 DEF PutBack, half
    <3> QED BY <3>1, <3>2
  <2> QED BY <1>4, <1>6, <2>1, <2>2 DEF Returning
<1>8. k \in Jobs /\ JobOK(fs, docs, sets, k)
  BY <1>4, <1>6, <1>7, AfterOperationOK
<1>9. {} \in SUBSET Paths /\ fs' \in [Paths -> Contents] /\ fs' = fs
  <2> HIDE DEF j, s, op, half, c, k
  <2> QED BY <1>1, <1>3 DEF AtWork
<1> HIDE DEF k, s
<1> QED BY <1>1, <1>2, <1>3, <1>8, <1>9, Works

-----------------------------------------------------------------------------
(* Everyone else.                                                          *)

\* Others change a document or a resource and every apply at work hears of it.
LEMMA OthersKeep ==
    ASSUME Inv, NEW changed \in SUBSET (Docs \cup Paths), job' = Disturbed(Nil, changed) \/ (changed = {} /\ job' = job),
           docs' \in [Docs -> Document], fs' \in [Paths -> Contents], sets' = sets,
           KeepsFiles(fs, fs', changed),
           \A q \in Requests : KeepsDocs(job[q], sets, docs, docs', changed)
    PROVE  Inv'
<1>1. job \in [Requests -> Jobs] /\ sets \in [Sets -> ChangeSets] /\ \A i \in Sets : SetOK(sets[i])
  BY DEF Inv, TypeInv
<1>2. Nil \notin Requests
  BY NilAssumption
<1>3. \A q \in Requests : Later(job[q], job'[q], changed)
  <2>1. CASE job' = Disturbed(Nil, changed)
    BY <1>1, <1>2, <2>1, DisturbedIs
  <2>2. CASE changed = {} /\ job' = job
    BY <1>1, <2>2, Undisturbed
  <2> QED BY <2>1, <2>2
<1>4. job' = [q \in Requests |-> job'[q]]
  BY <1>1 DEF Disturbed
<1>5. \A q \in Requests : job'[q] \in Jobs
  BY <1>3 DEF Later
<1>6. TypeInv'
  BY <1>1, <1>4, <1>5 DEF TypeInv
<1>7. KeepsSets(sets, sets')
  BY DEF KeepsSets
<1> QED BY <1>1, <1>2, <1>3, <1>6, <1>7, OneStep

LEMMA EditDocumentKeeps ==
    ASSUME Inv, NEW d \in Docs, NEW t \in {Original, Foreign}, EditDocument(d, t) PROVE Inv'
<1> DEFINE e == [text |-> t, version |-> Opened(d).version + 1, open |-> TRUE]
           changed == {d}
<1>1. docs' = [docs EXCEPT ![d] = e] /\ job' = Disturbed(Nil, changed) /\ UNCHANGED <<fs, sets>>
  BY DEF EditDocument
<1>2. docs \in [Docs -> Document] /\ fs \in [Paths -> Contents]
  BY DEF Inv, TypeInv
<1>3. Opened(d).version \in Nat /\ (docs[d].open => Opened(d) = docs[d])
  BY <1>2, OpenedIs DEF Document
<1>4. e \in Document /\ e.open /\ e.version > Opened(d).version
  BY <1>3 DEF Document, Texts
<1>5. docs' \in [Docs -> Document] /\ docs'[d] = e /\ \A c \in Docs : c # d => docs'[c] = docs[c]
  BY <1>1, <1>2, <1>4
<1>6. \A c \in Docs : docs[c].open =>
         docs'[c] = docs[c] \/ (c \in changed /\ docs'[c].open /\ docs'[c].version > docs[c].version)
  <2> HIDE DEF e
  <2> QED BY <1>3, <1>4, <1>5
<1>7. KeepsFiles(fs, fs', changed) /\ changed \in SUBSET (Docs \cup Paths)
  BY <1>1 DEF KeepsFiles
<1> HIDE DEF changed, e
<1>8. \A q \in Requests : KeepsDocs(job[q], sets, docs, docs', changed)
  BY <1>6, DocsKept
<1> QED BY <1>1, <1>2, <1>5, <1>7, <1>8, OthersKeep

\* The documents of an apply in progress stay open.
LEMMA CloseDocumentKeeps == ASSUME Inv, NEW d \in Docs, CloseDocument(d) PROVE Inv'
<1>1. /\ docs' = [docs EXCEPT ![d].open = FALSE] /\ UNCHANGED <<fs, sets, job>>
      /\ \A r \in Requests : job[r].phase \in {"resolve", "sent"} => d \notin sets[job[r].set].items
  BY DEF CloseDocument
<1>2. docs \in [Docs -> Document] /\ fs \in [Paths -> Contents]
  BY DEF Inv, TypeInv
<1>3. [docs[d] EXCEPT !.open = FALSE] \in Document
  BY <1>2 DEF Document
<1>4. docs' \in [Docs -> Document] /\ \A c \in Docs : c # d => docs'[c] = docs[c]
  BY <1>1, <1>2, <1>3
<1>5. ASSUME NEW q \in Requests PROVE KeepsDocs(job[q], sets, docs, docs', {})
  <2> SUFFICES ASSUME job[q].phase \in {"resolve", "sent"}, NEW c \in sets[job[q].set].items, docs[c].open
               PROVE  docs'[c] = docs[c]
    BY DEF KeepsDocs
  <2>1. JobOK(fs, docs, sets, job[q]) /\ \A i \in Sets : SetOK(sets[i])
    BY DEF Inv
  <2>2. job[q].set \in Sets /\ sets[job[q].set].kind = "text"
    BY <2>1 DEF JobOK, ResolveOK, SentOK
  <2>3. c \in Docs
    BY <2>1, <2>2 DEF SetOK
  <2> QED BY <1>1, <1>4, <2>3
<1>6. KeepsFiles(fs, fs', {}) /\ {} \in SUBSET (Docs \cup Paths)
  BY <1>1 DEF KeepsFiles
<1> QED BY <1>1, <1>2, <1>4, <1>5, <1>6, OthersKeep

LEMMA ChangeResourceKeeps ==
    ASSUME Inv, NEW p \in Paths, NEW v \in {Foreign, Absent}, ChangeResource(p, v) PROVE Inv'
<1> DEFINE changed == {p}
<1>1. fs' = [fs EXCEPT ![p] = v] /\ job' = Disturbed(Nil, changed) /\ UNCHANGED <<docs, sets>>
  BY DEF ChangeResource
<1>2. docs \in [Docs -> Document] /\ fs \in [Paths -> Contents]
  BY DEF Inv, TypeInv
<1>3. fs' \in [Paths -> Contents] /\ KeepsFiles(fs, fs', changed) /\ changed \in SUBSET (Docs \cup Paths)
  BY <1>1, <1>2 DEF Contents, KeepsFiles
<1> HIDE DEF changed
<1>4. \A q \in Requests : KeepsDocs(job[q], sets, docs, docs', changed)
  BY <1>1, DocsKept
<1> QED BY <1>1, <1>2, <1>3, <1>4, OthersKeep

-----------------------------------------------------------------------------
(* The invariant and what follows.                                         *)

LEMMA InitInv == Init => Inv
<1> SUFFICES ASSUME Init PROVE Inv
  OBVIOUS
<1>1. docs \in [Docs -> Document] /\ fs \in [Paths -> Contents]
  BY DEF Init, Document, Texts, Contents
<1>2. sets \in [Sets -> ChangeSets] /\ \A i \in Sets : sets[i].kind = Nil
  BY NoSetIs DEF Init
<1>3. job \in [Requests -> Jobs] /\ \A r \in Requests : job[r].phase = "idle"
  BY NoJobIs DEF Init, NoJob
<1>4. Nil \notin {"text", "resource"}
  BY NilAssumption
<1>5. \A i \in Sets : SetOK(sets[i])
  BY <1>2, <1>4 DEF SetOK
<1>6. \A r \in Requests : JobOK(fs, docs, sets, job[r])
  BY <1>3 DEF JobOK
<1> QED BY <1>1, <1>2, <1>3, <1>5, <1>6 DEF Inv, TypeInv

LEMMA StepInv == Inv /\ [Next]_vars => Inv'
<1> SUFFICES ASSUME Inv, [Next]_vars PROVE Inv'
  OBVIOUS
<1>1. ASSUME NEW i \in Sets, Prepare(i) \/ PrepareResource(i) \/ Prepared(i) \/ Expires(i) PROVE Inv'
  BY <1>1, PrepareKeeps, PrepareResourceKeeps, PreparedKeeps
<1>2. ASSUME NEW i \in Sets, NEW d \in Docs, PrepareDocument(i, d) PROVE Inv'
  BY <1>2, PrepareDocumentKeeps
<1>3. ASSUME NEW r \in Requests, NEW i \in Sets, ApplyExpired(r, i) \/ ApplyText(r, i) \/ ApplyResources(r, i) PROVE Inv'
  BY <1>3, ApplyExpiredKeeps, ApplyTextKeeps, ApplyResourcesKeeps
<1>4. ASSUME NEW r \in Requests, OpenFails(r) \/ EditLands(r) \/ CheckFresh(r) PROVE Inv'
  BY <1>4, OpenFailsKeeps, EditLandsKeeps, CheckFreshKeeps
<1>5. ASSUME NEW r \in Requests, NEW d \in Docs, Resolve(r, d) PROVE Inv'
  BY <1>5, ResolveKeeps
<1>6. ASSUME NEW r \in Requests, ApplyOperation(r) \/ OperationFails(r) PROVE Inv'
  BY <1>6, ApplyOperationKeeps, OperationFailsKeeps
<1>7. ASSUME NEW r \in Requests, RestoreClear(r) \/ RestoreWrite(r) \/ RestoreFails(r) PROVE Inv'
  BY <1>7, RestoreClearKeeps, RestoreWriteKeeps, RestoreFailsKeeps
<1>8. ASSUME NEW d \in Docs, CloseDocument(d) PROVE Inv'
  BY <1>8, CloseDocumentKeeps
<1>9. ASSUME NEW d \in Docs, NEW t \in {Original, Foreign}, EditDocument(d, t) PROVE Inv'
  BY <1>9, EditDocumentKeeps
<1>10. ASSUME NEW p \in Paths, NEW v \in {Foreign, Absent}, ChangeResource(p, v) PROVE Inv'
  BY <1>10, ChangeResourceKeeps
<1>11. CASE UNCHANGED vars
  BY <1>11 DEF vars, Inv, TypeInv
<1> QED BY <1>1, <1>2, <1>3, <1>4, <1>5, <1>6, <1>7, <1>8, <1>9, <1>10, <1>11 DEF Next

\* Change sets, documents, resources and applies stay what their types say, and every
\* apply at work stands by what it has checked and done.
THEOREM InvHolds == Spec => []Inv
  BY InitInv, StepInv, PTL DEF Spec

\* applyResourcePlan: whatever others do meanwhile, an apply that succeeded has carried
\* out the whole plan, and one that failed has put everything back, except where others
\* came after the check and where an operation failed half-way.
THEOREM PlansAreWhole == Spec => []AllOrNothing
<1>1. Inv => AllOrNothing
  <2> SUFFICES ASSUME Inv, NEW r \in Requests, job[r].phase = "done", sets[job[r].set].kind = "resource",
                      NEW p \in DOMAIN Before(r),
                      Touched(OperationOn(Plan(r), p)) \cap (job[r].late \cup job[r].half) = {}
               PROVE  /\ job[r].result = "applied" => fs[p] = Planned(Plan(r), Before(r), p)
                      /\ job[r].result \in {"failed", "recovery"} => fs[p] = Before(r)[p]
    BY DEF AllOrNothing
  <2> DEFINE j == job[r]
             s == sets[j.set]
  <2>1. SetOK(s) /\ DoneOK(fs, j, s)
    BY TakenIs DEF JobOK
  <2>2. Plan(r) = s.items /\ Before(r) = s.before
    BY DEF Plan, Before
  <2> HIDE DEF s
  <2>3. s.items \in Plans /\ DOMAIN s.before \subseteq Extent(s.items) /\ s.kind = "resource"
    BY <2>1 DEF SetOK, s
  <2>4. PICK n \in 1..Len(s.items) : p \in Touched(s.items[n])
    <3>1. p \in Extent(s.items) /\ DOMAIN s.items = 1..Len(s.items)
      BY <2>2, <2>3, OfPlan
    <3> QED BY <3>1 DEF Extent
  <2>5. Touched(s.items[n]) \cap (j.late \cup j.half) = {}
    BY <2>2, <2>3, <2>4, OfPlan
  <2>6. /\ j.result = "applied" => Done(fs, j, s, s.items[n])
        /\ j.result \in {"failed", "recovery"} => PutBack(fs, j, s, s.items[n])
    BY <2>1, <2>3 DEF DoneOK
  <2> QED BY <2>2, <2>4, <2>5, <2>6 DEF Done, PutBack
<1> QED BY <1>1, InvHolds, PTL

\* The phases of the steps that write paths.
LEMMA PhaseOfApply ==
    ASSUME NEW r, ApplyOperation(r) \/ OperationFails(r)
    PROVE  job[r].phase = "apply"
BY ZenonT(40) DEF ApplyOperation, OperationFails

LEMMA PhaseOfRestore ==
    ASSUME NEW r, RestoreClear(r) \/ RestoreWrite(r)
    PROVE  job[r].phase = "restore"
BY ZenonT(40) DEF RestoreClear, RestoreWrite

\* What a step of a resource apply overwrites
LEMMA OverwritesKnown ==
    ASSUME Inv, NEW r \in Requests,
           ApplyOperation(r) \/ OperationFails(r) \/ RestoreClear(r) \/ RestoreWrite(r),
           NEW p \in Paths, fs'[p] # fs[p]
    PROVE  \/ Touched(OperationOn(Plan(r), p)) \cap job[r].late # {}
           \/ fs[p] \in {Before(r)[p], Planned(Plan(r), Before(r), p), Absent, Torn}
<1> DEFINE j == job[r]
           s == sets[j.set]
           op == s.items[j.at]
<1>1. j.phase \in {"apply", "restore"} /\ Plan(r) = s.items /\ Before(r) = s.before
  BY ZenonT(40), PhaseOfApply, PhaseOfRestore DEF Plan, Before
<1>2. AtWork(j, s) /\ ApplyOK(fs, j, s) /\ RestoreOK(fs, j, s)
  BY SMTT(30), <1>1, AtWorkIs DEF JobOK
<1>3. /\ s.items \in Plans /\ j.at \in 1..Len(s.items) /\ op \in Operations /\ Touched(op) \in SUBSET Paths
      /\ fs \in [Paths -> Contents] /\ Len(s.items) \in Nat
  <2> HIDE DEF j, s
  <2> QED BY <1>2 DEF AtWork
<1>4. ASSUME p \in Touched(op) PROVE OperationOn(Plan(r), p) = op
  <2> HIDE DEF j, s
  <2> QED BY <1>1, <1>3, <1>4, OfPlan
<1>5. CASE ApplyOperation(r) \/ OperationFails(r)
  <2>1. j.phase = "apply"
    BY ZenonT(40), <1>5, PhaseOfApply
  <2>2. p \in Touched(op)
    <3>1. CASE ApplyOperation(r)
      <4>1. fs' = Result(op, fs)
        BY ZenonT(40), <1>1, <3>1 DEF ApplyOperation
      <4> QED
        <5> HIDE DEF j, s
        <5> QED BY <1>3, <4>1, ResultIs
    <3>2. CASE OperationFails(r)
      <4>1. fs' = fs \/ fs' = [fs EXCEPT ![op.path] = Torn]
        BY ZenonT(40), <1>1, <3>2 DEF OperationFails
      <4>2. op.path \in Touched(op)
        <5> HIDE DEF j, s, op
        <5> QED BY <1>3, PartsOf
      <4> QED BY ZenonT(40), <1>3, <4>1, <4>2
    <3> QED BY SMTT(30), <1>5, <3>1, <3>2
  <2>3. AsBefore(fs, j, s, p)
    <3> HIDE DEF j, s
    <3> QED BY <1>2, <1>3, <2>1, <2>2 DEF ApplyOK
  <2> QED
    <3> HIDE DEF s, op
    <3> QED BY <1>1, <1>4, <2>2, <2>3 DEF AsBefore
<1>6. CASE RestoreClear(r) \/ RestoreWrite(r)
  <2>1. j.phase = "restore"
    BY ZenonT(40), <1>6, PhaseOfRestore
  <2>2. \E v : fs' = [fs EXCEPT ![Restored(j, op)] = v]
    BY ZenonT(40), <1>1, <1>6 DEF RestoreClear, RestoreWrite
  <2>3. p = Restored(j, op)
    <3> HIDE DEF j, s, op
    <3> QED BY <1>3, <2>2
  <2>4. p \in Touched(op) /\ Restoring(fs, j, s, op)
    <3>1. j.part \in {0, 1} /\ Restoring(fs, j, s, op)
      <4> HIDE DEF j, s
      <4> QED BY <1>2, <2>1 DEF RestoreOK
    <3>2. Restored(j, op) \in Touched(op)
      <4> HIDE DEF j, op
      <4> QED BY <1>3, <3>1, RestoredIs
    <3> QED BY ZenonT(40), <2>3, <3>1, <3>2
  <2> QED BY ZenonT(40), <1>1, <1>4, <2>3, <2>4 DEF Restoring
<1> QED BY SMTT(30), <1>5, <1>6

\* applyPrepared: whatever others do meanwhile, a text edit lands on the texts it was
\* prepared for, and a resource operation or its restore overwrites only what was checked
\* or is its own, except for what came after the check.
THEOREM NothingUncheckedIsLost == Spec => ChangesAreFresh
<1>1. ASSUME Inv
      PROVE  \A r \in Requests :
                (ApplyOperation(r) \/ OperationFails(r) \/ RestoreClear(r) \/ RestoreWrite(r)) =>
                    \A p \in Paths : fs'[p] # fs[p] =>
                        \/ Touched(OperationOn(Plan(r), p)) \cap job[r].late # {}
                        \/ fs[p] \in {Before(r)[p], Planned(Plan(r), Before(r), p), Absent, Torn}
  BY <1>1, OverwritesKnown
<1>2. ASSUME Inv
      PROVE  \A r \in Requests : EditLands(r) /\ job'[r].result = "applied" =>
                \A d \in DOMAIN job[r].sent :
                    \/ docs[d].text = sets[job[r].set].before[d].text
                    \/ job[r].waited /\ d \in job[r].late
  <2> SUFFICES ASSUME NEW r \in Requests, EditLands(r), job'[r].result = "applied", NEW d \in DOMAIN job[r].sent
               PROVE  docs[d].text = sets[job[r].set].before[d].text \/ (job[r].waited /\ d \in job[r].late)
    OBVIOUS
  <2>1. job[r].phase = "sent"
    BY DEF EditLands
  <2>2. job[r] \in Jobs /\ SentOK(job[r], sets[job[r].set], docs)
    BY <1>2, <2>1, TakenIs DEF JobOK
  <2>3. Accepts(job[r].sent)
    <3> SUFFICES ASSUME ~Accepts(job[r].sent) PROVE FALSE
      OBVIOUS
    <3>1. job' = [job EXCEPT ![r] = Ended(job[r], "refused")]
      BY DEF EditLands
    <3>2. job \in [Requests -> Jobs]
      BY <1>2 DEF Inv, TypeInv
    <3>3. job'[r] = Ended(job[r], "refused")
      BY <3>1, <3>2
    <3> QED BY <2>2, <3>3, EndedIs DEF Outcomes
  <2> QED BY <2>1, <2>2, <2>3 DEF Accepts, SentOK
<1> QED BY <1>1, <1>2, InvHolds, PTL DEF ChangesAreFresh, NothingLost, EditIsFresh

(***************************************************************************)
(* Edits that a provider computes (CodeActions).                           *)
(***************************************************************************)

Reads == [ActionDocs -> Nat]
IsList(x) ==
    /\ x = [at |-> x.at, base |-> x.base, expected |-> x.expected, saw |-> x.saw, offers |-> x.offers]
    /\ x.expected \in Nat /\ x.saw \in Reads
    /\ x.at # "idle" => x.base \in ActionDocs
IsHandle(x) == x = [at |-> x.at, captured |-> x.captured, moved |-> x.moved]
IsFormat(x) ==
    /\ x = [at |-> x.at, doc |-> x.doc, expected |-> x.expected, saw |-> x.saw]
    /\ x.expected \in Nat /\ x.saw \in Nat
    /\ x.at # "idle" => x.doc \in ActionDocs

ActionsTyped ==
    /\ text \in Reads
    /\ DOMAIN list = Lists /\ \A l \in Lists : IsList(list[l])
    /\ DOMAIN handle = Actions!Handles /\ \A h \in Actions!Handles : IsHandle(handle[h])
    /\ DOMAIN format = Formats /\ \A f \in Formats : IsFormat(format[f])

\* What the provider of a list has read lies between what the caller knew and the
\* text of now; once the list has been answered it is what the caller knew.
ListRead(l) ==
    LET x == list[l]
    IN /\ x.at # "idle" => x.base \in held
       /\ x.at \in {"asked", "computed"} => x.expected <= text[x.base]
       /\ x.at = "computed" =>
             x.expected <= x.saw[x.base] /\ \A d \in ActionDocs : x.saw[d] <= text[d]
       /\ x.at \in {"preparing", "returned"} => x.saw[x.base] = x.expected

\* Whether the provider has seen text n of document d, or d is excepted.
Seen(h, d, n) ==
    n = list[h[1]].saw[d] \/ (d # list[h[1]].base /\ d \in handle[h].moved)

\* The captured texts are those the provider has seen, and so will be the next one.
HandleRead(h) ==
    LET x == handle[h]
    IN /\ x.at = "none" => DOMAIN x.captured = {}
       /\ list[h[1]].at \in {"idle", "asked", "computed"} => x.at = "none"
       /\ x.at = "resolving" => list[h[1]].at = "preparing" /\ h[2] \in list[h[1]].offers
       /\ x.at \in {"resolving", "available", "sent"} =>
             DOMAIN x.captured \subseteq h[2] /\ \A d \in DOMAIN x.captured : Seen(h, d, x.captured[d])
       /\ x.at \in {"available", "sent"} => DOMAIN x.captured = h[2]
       /\ list[h[1]].at = "computed" \/ x.at = "resolving" =>
             \A d \in ActionDocs \ DOMAIN x.captured : d = list[h[1]].base \/ Seen(h, d, text[d])
       /\ list[h[1]].at = "computed" =>
             \A d \in ActionDocs : text[d] = list[h[1]].saw[d] \/ d \in x.moved

FormatRead(f) ==
    LET x == format[f]
    IN /\ x.at \in {"asked", "computed"} => x.expected <= text[x.doc]
       /\ x.at = "computed" => x.expected <= x.saw /\ x.saw <= text[x.doc]
       /\ x.at = "sent" => x.saw = x.expected

Read ==
    /\ \A l \in Lists : ListRead(l)
    /\ \A h \in Actions!Handles : HandleRead(h)
    /\ \A f \in Formats : FormatRead(f)

\* A change of some documents leaves every text a number, and none is taken back.
LEMMA ChangedIs ==
    ASSUME text \in Reads, NEW ds
    PROVE  /\ Actions!Changed(ds) \in Reads
           /\ \A d \in ActionDocs : Actions!Changed(ds)[d] = IF d \in ds THEN text[d] + 1 ELSE text[d]
BY DEF Reads, Actions!Changed

LEMMA ChangesNote ==
    ASSUME NEW ds, NEW h \in Actions!Handles
    PROVE  Actions!Noted(ds)[h] =
              IF list[h[1]].at \in {"computed", "preparing"}
              THEN [handle[h] EXCEPT !.moved = @ \cup (ds \ DOMAIN handle[h].captured)]
              ELSE handle[h]
BY DEF Actions!Noted

LEMMA HandleParts ==
    ASSUME NEW h \in Actions!Handles
    PROVE  /\ h[1] \in Lists /\ h[2] \in Offers /\ h[2] \subseteq ActionDocs
           /\ Actions!EditedBy(h) = h[2] /\ Actions!Base(h) = list[h[1]].base
BY ActionsAssumption DEF Actions!Handles, Actions!OffersAssumption, Actions!EditedBy, Actions!Base

\* What a handle holds after some of its documents have been looked at.
LEMMA CapturesIs ==
    ASSUME NEW h \in Actions!Handles, NEW ds, IsHandle(handle[h])
    PROVE  LET x == handle[h]
               y == Actions!Captures(h, ds)
           IN /\ IsHandle(y) /\ y.moved = x.moved
              /\ DOMAIN y.captured = DOMAIN x.captured \cup ds
              /\ \A d \in DOMAIN y.captured :
                    y.captured[d] = IF d \in DOMAIN x.captured THEN x.captured[d] ELSE text[d]
              /\ y.at \in {"unsupported", "resolving", "available"}
              /\ y.at = "available" => DOMAIN y.captured = h[2]
<1> DEFINE x == handle[h]
           captured == [d \in DOMAIN x.captured \cup ds |->
                           IF d \in DOMAIN x.captured THEN x.captured[d] ELSE text[d]]
           y == Actions!Captures(h, ds)
<1>1. y = [x EXCEPT !.captured = captured, !.at = Actions!Prepared(h, captured)]
  BY DEF Actions!Captures
<1>2. x = [at |-> x.at, captured |-> x.captured, moved |-> x.moved]
  BY DEF IsHandle
<1>3. y.captured = captured /\ y.at = Actions!Prepared(h, captured) /\ y.moved = x.moved
  <2> HIDE DEF captured, x, y
  <2> QED BY <1>1, <1>2
<1>4. IsHandle(y)
  <2> HIDE DEF captured, x, y
  <2> QED BY <1>1, <1>2 DEF IsHandle
<1>5. /\ Actions!Prepared(h, captured) \in {"unsupported", "resolving", "available"}
      /\ Actions!Prepared(h, captured) = "available" => DOMAIN captured = h[2]
  <2> HIDE DEF captured
  <2> QED BY DEF Actions!Prepared, Actions!EditedBy
<1> QED BY <1>3, <1>4, <1>5

ActionStep ==
    \/ \E d \in ActionDocs : Actions!UserChanges(d) \/ Actions!Opened(d)
    \/ \E l \in Lists, d \in ActionDocs : Actions!List(l, d)
    \/ \E f \in Formats, d \in ActionDocs : Actions!Format(f, d)
    \/ \E l \in Lists : Actions!Answered(l) \/ Actions!Returned(l)
    \/ \E l \in Lists, offers \in SUBSET Offers : Actions!ProviderReads(l, offers)
    \/ \E h \in Actions!Handles :
          Actions!OpenFails(h) \/ Actions!Expires(h) \/ Actions!ApplyCodeAction(h) \/ Actions!ActionLands(h)
    \/ \E f \in Formats : Actions!FormatterReads(f) \/ Actions!FormatLands(f)
    \/ \E f \in Formats, at \in {"sent", "done"} : Actions!FormatterAnswers(f, at)

LEMMA StepSplit == Actions!Next => ActionStep
BY Zenon DEF Actions!Next, ActionStep

\* Documents change only to their next text, and are not given up.
LEMMA TextsGrow ==
    ASSUME ActionsTyped, Actions!Next
    PROVE  /\ text' \in Reads /\ held \subseteq held'
           /\ \A d \in ActionDocs : text[d] <= text'[d]
<1>1. text \in Reads
  BY DEF ActionsTyped
<1>2. text' = text \/ \E ds : text' = Actions!Changed(ds)
  <2>1. ActionStep BY StepSplit
  <2> QED BY ZenonT(40), <2>1 DEF ActionStep, Actions!UserChanges, Actions!Opened, Actions!List, Actions!Format, Actions!Answered,
        Actions!Returned, Actions!ProviderReads, Actions!OpenFails, Actions!Expires, Actions!ApplyCodeAction,
        Actions!ActionLands, Actions!FormatterReads, Actions!FormatLands, Actions!FormatterAnswers
<1>3. held \subseteq held'
  <2>1. ActionStep BY StepSplit
  <2> QED BY ZenonT(40), <2>1 DEF ActionStep, Actions!UserChanges, Actions!Opened, Actions!List, Actions!Format, Actions!Answered,
        Actions!Returned, Actions!ProviderReads, Actions!OpenFails, Actions!Expires, Actions!ApplyCodeAction,
        Actions!ActionLands, Actions!FormatterReads, Actions!FormatLands, Actions!FormatterAnswers
<1>4. text' \in Reads /\ \A d \in ActionDocs : text'[d] = text[d] \/ text'[d] = text[d] + 1
  BY <1>1, <1>2, ChangedIs
<1>5. \A d \in ActionDocs : text[d] \in Nat
  BY <1>1 DEF Reads
<1> QED BY <1>3, <1>4, <1>5

(***************************************************************************)
(* Lists                                                                   *)
(***************************************************************************)

LEMMA ListMoves ==
    ASSUME ActionsTyped, Actions!Next, NEW l \in Lists
    PROVE  \/ list'[l] = list[l]
           \/ \E d \in ActionDocs : Actions!List(l, d)
           \/ \E offers : Actions!ProviderReads(l, offers)
           \/ Actions!Answered(l) \/ Actions!Returned(l)
<1>1. DOMAIN list = Lists
  BY DEF ActionsTyped
<1>2. \/ list' = list
      \/ \E m \in Lists, d \in ActionDocs : Actions!List(m, d)
      \/ \E m \in Lists, offers \in SUBSET Offers : Actions!ProviderReads(m, offers)
      \/ \E m \in Lists : Actions!Answered(m) \/ Actions!Returned(m)
  <2>1. ActionStep BY StepSplit
  <2> QED BY <2>1 DEF ActionStep, Actions!UserChanges, Actions!Opened, Actions!Format, Actions!OpenFails,
        Actions!Expires, Actions!ApplyCodeAction, Actions!ActionLands, Actions!FormatterReads,
        Actions!FormatLands, Actions!FormatterAnswers
<1>3. ASSUME NEW m \in Lists, m # l,
             \/ \E d \in ActionDocs : Actions!List(m, d)
             \/ \E offers \in SUBSET Offers : Actions!ProviderReads(m, offers)
             \/ Actions!Answered(m) \/ Actions!Returned(m)
      PROVE  list'[l] = list[l]
  BY <1>1, <1>3 DEF Actions!List, Actions!ProviderReads, Actions!Answered, Actions!Returned
<1> QED BY <1>2, <1>3

LEMMA ListsRead ==
    ASSUME ActionsTyped, Actions!Next, NEW l \in Lists, ListRead(l)
    PROVE  IsList(list[l])' /\ ListRead(l)'
<1> DEFINE x == list[l]
           y == list'[l]
<1>1. IsList(x) /\ text \in Reads /\ DOMAIN list = Lists
  BY DEF ActionsTyped
<1>2. text' \in Reads /\ held \subseteq held' /\ \A d \in ActionDocs : text[d] <= text'[d]
  BY TextsGrow
<1>3. \A d \in ActionDocs : text[d] \in Nat /\ text'[d] \in Nat
  BY <1>1, <1>2 DEF Reads
<1>4. /\ x = [at |-> x.at, base |-> x.base, expected |-> x.expected, saw |-> x.saw, offers |-> x.offers]
      /\ x.expected \in Nat /\ x.saw \in Reads /\ (x.at # "idle" => x.base \in ActionDocs)
      /\ \A d \in ActionDocs : x.saw[d] \in Nat
  BY <1>1 DEF IsList, Reads
<1>5. CASE list'[l] = list[l]
  BY <1>1, <1>2, <1>3, <1>4, <1>5 DEF IsList, ListRead
<1>6. ASSUME NEW d \in ActionDocs, Actions!List(l, d)
      PROVE  IsList(list[l])' /\ ListRead(l)'
  <2>1. y = [Actions!NoList EXCEPT !.at = "asked", !.base = d, !.expected = text[d]] /\ text' = text /\ held' = held /\ d \in held
    BY <1>1, <1>6 DEF Actions!List
  <2>2. y = [at |-> "asked", base |-> d, expected |-> text[d], saw |-> Actions!Nowhere, offers |-> {}]
    BY <2>1 DEF Actions!NoList
  <2>3. Actions!Nowhere \in Reads
    BY DEF Actions!Nowhere, Reads
  <2>4. y.at = "asked" /\ y.base = d /\ y.expected = text[d] /\ y.saw \in Reads /\ y.offers = {}
    BY <2>2, <2>3
  <2> HIDE DEF y
  <2>5. IsList(y)
    BY <1>3, <2>2, <2>4 DEF IsList
  <2>6. text'[d] = text[d] /\ d \in held'
    BY <2>1
  <2>7. ListRead(l)'
    BY <1>3, <2>4, <2>6 DEF ListRead, y
  <2> QED BY <2>5, <2>7 DEF y, IsList
<1>7. ASSUME NEW offers, Actions!ProviderReads(l, offers)
      PROVE  IsList(list[l])' /\ ListRead(l)'
  <2>1. x.at = "asked" /\ y = [x EXCEPT !.at = "computed", !.saw = text, !.offers = offers] /\ text' = text /\ held' = held
    BY <1>1, <1>7 DEF Actions!ProviderReads
  <2>2. y = [at |-> "computed", base |-> x.base, expected |-> x.expected, saw |-> text, offers |-> offers]
    BY <1>4, <2>1
  <2> QED BY <1>1, <1>3, <1>4, <2>1, <2>2 DEF IsList, ListRead
<1>8. CASE Actions!Answered(l)
  <2>1. /\ x.at = "computed" /\ text' = text /\ held' = held
        /\ \/ text[x.base] = x.expected /\ y = [x EXCEPT !.at = "preparing"]
           \/ y = [x EXCEPT !.at = "refused"]
    BY <1>1, <1>8 DEF Actions!Answered, Actions!Expected
  <2>2. text[x.base] = x.expected => x.saw[x.base] = x.expected
    BY <1>3, <1>4, <2>1 DEF ListRead
  <2> QED BY <1>1, <1>3, <1>4, <2>1, <2>2 DEF IsList, ListRead
<1>9. CASE Actions!Returned(l)
  <2>1. x.at = "preparing" /\ y = [x EXCEPT !.at = "returned"] /\ text' = text /\ held' = held
    BY SMTT(30), <1>1, <1>9 DEF Actions!Returned
  <2> QED BY <1>1, <1>3, <1>4, <2>1 DEF IsList, ListRead
<1> QED BY <1>5, <1>6, <1>7, <1>8, <1>9, ListMoves

(***************************************************************************)
(* Formats                                                                 *)
(***************************************************************************)

LEMMA FormatMoves ==
    ASSUME ActionsTyped, Actions!Next, NEW f \in Formats
    PROVE  \/ format'[f] = format[f]
           \/ \E d \in ActionDocs : Actions!Format(f, d)
           \/ \E at \in {"sent", "done"} : Actions!FormatterAnswers(f, at)
           \/ Actions!FormatterReads(f) \/ Actions!FormatLands(f)
<1>1. DOMAIN format = Formats
  BY DEF ActionsTyped
<1>2. ActionStep BY StepSplit
<1> QED BY ZenonT(40), <1>1, <1>2 DEF ActionStep, Actions!UserChanges, Actions!Opened, Actions!List, Actions!Format, Actions!Answered,
        Actions!Returned, Actions!ProviderReads, Actions!OpenFails, Actions!Expires, Actions!ApplyCodeAction,
        Actions!ActionLands, Actions!FormatterReads, Actions!FormatLands, Actions!FormatterAnswers

LEMMA FormatsRead ==
    ASSUME ActionsTyped, Actions!Next, NEW f \in Formats, FormatRead(f)
    PROVE  IsFormat(format[f])' /\ FormatRead(f)'
<1> DEFINE x == format[f]
           y == format'[f]
<1>1. IsFormat(x) /\ text \in Reads /\ DOMAIN format = Formats
  BY DEF ActionsTyped
<1>2. text' \in Reads /\ \A d \in ActionDocs : text[d] <= text'[d]
  BY TextsGrow
<1>3. \A d \in ActionDocs : text[d] \in Nat /\ text'[d] \in Nat
  BY <1>1, <1>2 DEF Reads
<1>4. /\ x = [at |-> x.at, doc |-> x.doc, expected |-> x.expected, saw |-> x.saw]
      /\ x.expected \in Nat /\ x.saw \in Nat /\ (x.at # "idle" => x.doc \in ActionDocs)
  BY <1>1 DEF IsFormat
<1>5. CASE format'[f] = format[f]
  BY <1>1, <1>2, <1>3, <1>4, <1>5 DEF IsFormat, FormatRead
<1>6. ASSUME NEW d \in ActionDocs, Actions!Format(f, d)
      PROVE  IsFormat(format[f])' /\ FormatRead(f)'
  <2>1. y = [at |-> "asked", doc |-> d, expected |-> text[d], saw |-> text[d]] /\ text' = text
    BY <1>1, <1>6 DEF Actions!Format
  <2> QED BY <1>3, <2>1 DEF IsFormat, FormatRead
<1>7. CASE Actions!FormatterReads(f)
  <2>1. x.at = "asked" /\ y = [x EXCEPT !.at = "computed", !.saw = text[x.doc]] /\ text' = text
    BY <1>1, <1>7 DEF Actions!FormatterReads
  <2>2. text[x.doc] \in Nat /\ x.expected <= text[x.doc]
    BY <1>3, <1>4, <2>1 DEF FormatRead
  <2>3. y = [at |-> "computed", doc |-> x.doc, expected |-> x.expected, saw |-> text[x.doc]]
    BY <1>4, <2>1
  <2>4. y.at = "computed" /\ y.doc = x.doc /\ y.expected = x.expected /\ y.saw = text[x.doc]
    BY <2>3
  <2> HIDE DEF x, y
  <2>5. IsFormat(y)
    BY <1>4, <2>1, <2>2, <2>3, <2>4 DEF IsFormat
  <2>6. FormatRead(f)'
    BY <1>4, <2>1, <2>2, <2>4 DEF FormatRead, y
  <2> QED BY <2>5, <2>6 DEF y, IsFormat
<1>8. ASSUME NEW at \in {"sent", "done"}, Actions!FormatterAnswers(f, at)
      PROVE  IsFormat(format[f])' /\ FormatRead(f)'
  <2>1. /\ x.at = "computed" /\ text' = text
        /\ \/ text[x.doc] = x.expected /\ y = [x EXCEPT !.at = at]
           \/ y = [x EXCEPT !.at = "done"]
    BY <1>1, <1>8 DEF Actions!FormatterAnswers, Actions!Expected
  <2>2. text[x.doc] = x.expected => x.saw = x.expected
    BY <1>3, <1>4, <2>1 DEF FormatRead
  <2>3. y = [at |-> y.at, doc |-> x.doc, expected |-> x.expected, saw |-> x.saw] /\ y.at \in {"sent", "done"}
    BY <1>4, <1>8, <2>1
  <2>4. y.at = "sent" => text[x.doc] = x.expected
    BY <1>4, <2>1
  <2>5. y.doc = x.doc /\ y.expected = x.expected /\ y.saw = x.saw
    BY <2>3
  <2> HIDE DEF x, y
  <2>6. IsFormat(y)
    BY <1>4, <2>1, <2>3, <2>5 DEF IsFormat
  <2>7. FormatRead(f)'
    BY <2>2, <2>3, <2>4, <2>5 DEF FormatRead, y
  <2> QED BY <2>6, <2>7 DEF y, IsFormat
<1>9. CASE Actions!FormatLands(f)
  <2>1. x.at = "sent" /\ y = [x EXCEPT !.at = "done"]
    BY <1>1, <1>9 DEF Actions!FormatLands
  <2> QED BY <1>4, <2>1 DEF IsFormat, FormatRead
<1> QED BY <1>5, <1>6, <1>7, <1>8, <1>9, FormatMoves

(***************************************************************************)
(* Handles                                                                 *)
(***************************************************************************)

LEMMA HandleSame ==
    ASSUME NEW h, HandleRead(h), handle'[h] = handle[h], list'[h[1]] = list[h[1]], text' = text, IsHandle(handle[h])
    PROVE  IsHandle(handle[h])' /\ HandleRead(h)'
BY DEF IsHandle, HandleRead, Seen

\* Documents change, and the handles that are not settled note it.
LEMMA HandleNotes ==
    ASSUME ActionsTyped, NEW h \in Actions!Handles, HandleRead(h), ListRead(h[1]), NEW ds,
           text' = Actions!Changed(ds), list' = list, handle'[h] = Actions!Noted(ds)[h]
    PROVE  IsHandle(handle[h])' /\ HandleRead(h)'
<1> DEFINE x == handle[h]
           y == handle'[h]
           z == list[h[1]]
<1>1. /\ x = [at |-> x.at, captured |-> x.captured, moved |-> x.moved]
      /\ h[1] \in Lists /\ h[2] \subseteq ActionDocs
  BY HandleParts DEF ActionsTyped, IsHandle
<1>2. \/ z.at \in {"computed", "preparing"} /\ y = [x EXCEPT !.moved = x.moved \cup (ds \ DOMAIN x.captured)]
      \/ z.at \notin {"computed", "preparing"} /\ y = x
  BY ChangesNote
<1> HIDE DEF x, y, z
<1>3. /\ y = [at |-> x.at, captured |-> x.captured, moved |-> y.moved]
      /\ y.at = x.at /\ y.captured = x.captured /\ x.moved \subseteq y.moved
      /\ z.at \in {"computed", "preparing"} => y.moved = x.moved \cup (ds \ DOMAIN x.captured)
  BY <1>1, <1>2
<1>4. \A d \in ActionDocs : text'[d] = text[d] \/ d \in ds
  BY ChangedIs DEF ActionsTyped
<1>5. /\ x.at = "none" => DOMAIN x.captured = {}
      /\ z.at \in {"idle", "asked", "computed"} => x.at = "none"
      /\ x.at = "resolving" => z.at = "preparing" /\ h[2] \in z.offers
      /\ x.at \in {"resolving", "available", "sent"} => DOMAIN x.captured \subseteq h[2]
      /\ x.at \in {"available", "sent"} => DOMAIN x.captured = h[2]
      /\ x.at \in {"resolving", "available", "sent"} =>
            \A d \in DOMAIN x.captured : x.captured[d] = z.saw[d] \/ (d # z.base /\ d \in x.moved)
      /\ z.at = "computed" \/ x.at = "resolving" =>
            \A d \in ActionDocs \ DOMAIN x.captured :
                d = z.base \/ text[d] = z.saw[d] \/ (d # z.base /\ d \in x.moved)
      /\ z.at = "computed" => \A d \in ActionDocs : text[d] = z.saw[d] \/ d \in x.moved
  BY DEF HandleRead, Seen, x, z
<1>6. list'[h[1]] = z /\ handle'[h] = y
  BY DEF y, z
<1>7. z.at = "computed" \/ x.at = "resolving" =>
         \A d \in ActionDocs \ DOMAIN x.captured :
             d = z.base \/ text'[d] = z.saw[d] \/ (d # z.base /\ d \in y.moved)
  BY <1>3, <1>4, <1>5
<1>8. z.at = "computed" => \A d \in ActionDocs : text'[d] = z.saw[d] \/ d \in y.moved
  BY <1>3, <1>4, <1>5
<1>9. x.at \in {"resolving", "available", "sent"} =>
         \A d \in DOMAIN x.captured : x.captured[d] = z.saw[d] \/ (d # z.base /\ d \in y.moved)
  BY <1>3, <1>5
<1>10. HandleRead(h)'
  BY <1>3, <1>5, <1>6, <1>7, <1>8, <1>9 DEF HandleRead, Seen
<1> QED BY <1>3, <1>6, <1>10 DEF IsHandle

\* A handle is settled, or taken.
LEMMA HandleEnds ==
    ASSUME NEW h \in Actions!Handles, IsHandle(handle[h]), HandleRead(h),
           handle[h].at # "none", handle[h].at = "resolving" \/ list[h[1]].at # "computed",
           list' = list, IsHandle(handle'[h]),
           \/ handle'[h].at \in {"unsupported", "expired", "applied", "forgotten"}
           \/ handle'[h].at = "sent" /\ handle[h].at = "available" /\ handle'[h].captured = handle[h].captured /\ handle'[h].moved = handle[h].moved
    PROVE  HandleRead(h)'
<1>1. list[h[1]].at \notin {"idle", "asked", "computed"}
  BY DEF HandleRead
<1>2. CASE handle'[h].at \in {"unsupported", "expired", "applied", "forgotten"}
  BY <1>1, <1>2 DEF HandleRead
<1>3. CASE handle'[h].at = "sent" /\ handle[h].at = "available" /\ handle'[h].captured = handle[h].captured /\ handle'[h].moved = handle[h].moved
  BY <1>1, <1>3 DEF HandleRead, Seen
<1> QED BY <1>2, <1>3

\* Documents are looked at, which the provider has seen or which are excepted.
LEMMA HandleCaptures ==
    ASSUME ActionsTyped, NEW h \in Actions!Handles, HandleRead(h), NEW ds, ds \subseteq h[2],
           list'[h[1]].at = "preparing", list'[h[1]].base = list[h[1]].base, list'[h[1]].saw = list[h[1]].saw,
           h[2] \in list'[h[1]].offers,
           text' = text, handle'[h] = Actions!Captures(h, ds),
           handle[h].at = "resolving" \/ handle[h].at = "none",
           \A d \in ActionDocs \ DOMAIN handle[h].captured : d = list[h[1]].base \/ Seen(h, d, text[d]),
           \A d \in ds \ DOMAIN handle[h].captured : d = list[h[1]].base => text[d] = list[h[1]].saw[d]
    PROVE  IsHandle(handle[h])' /\ HandleRead(h)'
<1> DEFINE x == handle[h]
           y == Actions!Captures(h, ds)
           z == list[h[1]]
<1>1. IsHandle(x) /\ h[2] \subseteq ActionDocs /\ handle'[h] = y
  BY HandleParts DEF ActionsTyped
<1>2. /\ IsHandle(y) /\ y.moved = x.moved
      /\ DOMAIN y.captured = DOMAIN x.captured \cup ds
      /\ \A d \in DOMAIN y.captured :
            y.captured[d] = IF d \in DOMAIN x.captured THEN x.captured[d] ELSE text[d]
      /\ y.at \in {"unsupported", "resolving", "available"}
      /\ y.at = "available" => DOMAIN y.captured = h[2]
  BY <1>1, CapturesIs
<1>3. DOMAIN x.captured \subseteq h[2] /\ \A d \in DOMAIN x.captured : Seen(h, d, x.captured[d])
  BY DEF HandleRead
<1>4. \A d : \A n : Seen(h, d, n) => n = z.saw[d] \/ (d # z.base /\ d \in y.moved)
  BY <1>2 DEF Seen
<1> HIDE DEF x, y, z
<1>5. \A d \in DOMAIN y.captured : y.captured[d] = z.saw[d] \/ (d # z.base /\ d \in y.moved)
  <2> TAKE d \in DOMAIN y.captured
  <2>1. CASE d \in DOMAIN x.captured
    <3>1. PICK n : n = x.captured[d]
      OBVIOUS
    <3> QED BY <1>2, <1>3, <1>4, <2>1, <3>1
  <2>2. CASE d \notin DOMAIN x.captured
    <3>1. d \in ds /\ d \in ActionDocs /\ y.captured[d] = text[d]
      BY <1>1, <1>2, <2>2
    <3>2. PICK n : n = text[d]
      OBVIOUS
    <3>3. d = z.base \/ n = z.saw[d] \/ (d # z.base /\ d \in y.moved)
      BY <1>4, <2>2, <3>1, <3>2 DEF x, z
    <3> QED BY <2>2, <3>1, <3>2, <3>3 DEF x, z
  <2> QED BY <2>1, <2>2
<1>6. \A d \in ActionDocs \ DOMAIN y.captured : d = z.base \/ text[d] = z.saw[d] \/ (d # z.base /\ d \in y.moved)
  <2> TAKE d \in ActionDocs \ DOMAIN y.captured
  <2>1. PICK n : n = text[d]
    OBVIOUS
  <2>2. d = z.base \/ Seen(h, d, n)
    BY <1>2, <2>1 DEF x, z
  <2> QED BY <1>4, <2>1, <2>2
<1>7. HandleRead(h)'
  <2>1. list'[h[1]].base = z.base /\ list'[h[1]].saw = z.saw
    BY DEF z
  <2> QED BY <1>1, <1>2, <1>3, <1>5, <1>6, <2>1 DEF HandleRead, Seen
<1> QED BY <1>1, <1>2, <1>7

LEMMA HandlesRead ==
    ASSUME ActionsTyped, Read, Actions!Next, NEW h \in Actions!Handles
    PROVE  IsHandle(handle[h])' /\ HandleRead(h)'
<1>1. IsHandle(handle[h]) /\ HandleRead(h) /\ ListRead(h[1]) /\ h[1] \in Lists /\ h[2] \subseteq ActionDocs
  BY HandleParts DEF ActionsTyped, Read
<1>2. DOMAIN list = Lists /\ DOMAIN handle = Actions!Handles /\ text \in Reads /\ IsList(list[h[1]])
  BY <1>1 DEF ActionsTyped
<1>3. ASSUME NEW d \in ActionDocs, Actions!UserChanges(d)
      PROVE  IsHandle(handle[h])' /\ HandleRead(h)'
  BY <1>1, <1>3, HandleNotes DEF Actions!UserChanges
<1>4. ASSUME NEW d \in ActionDocs, Actions!Opened(d)
      PROVE  IsHandle(handle[h])' /\ HandleRead(h)'
  <2>1. text' = text /\ list' = list /\ d \notin held
    BY <1>4 DEF Actions!Opened
  <2>2. handle'[h] = IF handle[h].at = "resolving" /\ d \in h[2] THEN Actions!Captures(h, {d}) ELSE handle[h]
    BY <1>4, HandleParts DEF Actions!Opened
  <2>3. CASE handle[h].at = "resolving" /\ d \in h[2]
    <3>1. list[h[1]].at = "preparing" /\ h[2] \in list[h[1]].offers /\ list[h[1]].base # d
      BY <1>1, <2>1, <2>3 DEF HandleRead, ListRead
    <3>2. \A c \in ActionDocs \ DOMAIN handle[h].captured : c = list[h[1]].base \/ Seen(h, c, text[c])
      BY <1>1, <2>3 DEF HandleRead
    <3>3. {d} \subseteq h[2]
      BY <2>3
    <3>4. handle'[h] = Actions!Captures(h, {d})
      BY <2>2, <2>3
    <3>5. /\ list'[h[1]].at = "preparing" /\ list'[h[1]].base = list[h[1]].base /\ list'[h[1]].saw = list[h[1]].saw
          /\ h[2] \in list'[h[1]].offers
      BY <2>1, <3>1
    <3> QED BY <1>1, <2>1, <2>3, <3>1, <3>2, <3>3, <3>4, <3>5, HandleCaptures
  <2>4. CASE ~(handle[h].at = "resolving" /\ d \in h[2])
    BY <1>1, <2>1, <2>2, <2>4, HandleSame
  <2> QED BY <2>3, <2>4
<1>5. ASSUME NEW l \in Lists, NEW d \in ActionDocs, Actions!List(l, d)
      PROVE  IsHandle(handle[h])' /\ HandleRead(h)'
  <2>1. /\ text' = text /\ list[l].at = "idle"
        /\ list' = [list EXCEPT ![l] = [Actions!NoList EXCEPT !.at = "asked", !.base = d, !.expected = text[d]]]
        /\ handle'[h] = IF handle[h].at \in {"applied", "expired"} THEN Actions!Forgotten ELSE handle[h]
    BY <1>5 DEF Actions!List, Actions!Purged
  <2>2. IsHandle(Actions!Forgotten) /\ Actions!Forgotten.at = "forgotten"
    <3>1. PICK e : Actions!NoHandle = [at |-> "none", captured |-> e, moved |-> {}]
      BY DEF Actions!NoHandle
    <3>2. Actions!Forgotten = [Actions!NoHandle EXCEPT !.at = "forgotten"]
      BY DEF Actions!Forgotten
    <3> QED BY <3>1, <3>2 DEF IsHandle
  <2>3. CASE h[1] = l
    <3>1. handle[h].at = "none" /\ handle'[h] = handle[h] /\ list'[h[1]].at = "asked"
      BY <1>1, <1>2, <2>1, <2>3 DEF HandleRead, Actions!NoList
    <3> QED BY <1>1, <3>1 DEF HandleRead, IsHandle
  <2>4. CASE h[1] # l
    <3>1. list'[h[1]] = list[h[1]]
      BY <2>1, <2>4
    <3>2. CASE handle'[h] = handle[h]
      BY <1>1, <2>1, <3>1, <3>2, HandleSame
    <3>3. CASE handle[h].at \in {"applied", "expired"} /\ handle'[h] = Actions!Forgotten
      <4>1. list[h[1]].at \notin {"idle", "asked", "computed"} /\ handle'[h].at = "forgotten" /\ IsHandle(handle'[h])
        BY <1>1, <2>2, <3>3 DEF HandleRead, IsHandle
      <4> QED BY <3>1, <4>1 DEF HandleRead, IsHandle
    <3> QED BY <2>1, <3>2, <3>3
  <2> QED BY <2>3, <2>4
<1>6. ASSUME NEW l \in Lists, NEW offers, Actions!ProviderReads(l, offers)
      PROVE  IsHandle(handle[h])' /\ HandleRead(h)'
  <2>1. /\ list[l].at = "asked" /\ text' = text /\ handle' = handle
        /\ list' = [list EXCEPT ![l].at = "computed", ![l].saw = text, ![l].offers = offers]
    BY <1>6 DEF Actions!ProviderReads
  <2>2. CASE h[1] = l
    <3>1. /\ list[h[1]] = [at |-> "asked", base |-> list[h[1]].base, expected |-> list[h[1]].expected,
                           saw |-> list[h[1]].saw, offers |-> list[h[1]].offers]
          /\ list'[h[1]] = [[[list[h[1]] EXCEPT !.at = "computed"] EXCEPT !.saw = text] EXCEPT !.offers = offers]
      BY <1>1, <1>2, <2>1, <2>2 DEF IsList
    <3>2. list'[h[1]].at = "computed" /\ list'[h[1]].saw = text /\ list'[h[1]].base = list[h[1]].base
      BY <3>1
    <3>3. handle[h].at = "none" /\ DOMAIN handle[h].captured = {}
      BY <1>1, <2>1, <2>2 DEF HandleRead
    <3> QED BY <1>1, <2>1, <3>2, <3>3 DEF HandleRead, IsHandle, Seen
  <2>3. CASE h[1] # l
    BY <1>1, <1>2, <2>1, <2>3, HandleSame
  <2> QED BY <2>2, <2>3
<1>7. ASSUME NEW l \in Lists, Actions!Answered(l)
      PROVE  IsHandle(handle[h])' /\ HandleRead(h)'
  <2>1. list[l].at = "computed" /\ text' = text
    BY <1>7 DEF Actions!Answered
  <2>2. CASE h[1] # l
    <3>0. \E e : list' = [list EXCEPT ![l].at = e]
      BY <1>7 DEF Actions!Answered
    <3>1. list'[h[1]] = list[h[1]] /\ handle'[h] = handle[h]
      <4>1. handle'[h] = handle[h]
        BY <1>7, <2>2 DEF Actions!Answered
      <4> QED BY <1>1, <1>2, <2>2, <3>0, <4>1
    <3> QED BY <1>1, <2>1, <3>1, HandleSame
  <2>3. CASE h[1] = l
    <3>1. handle[h].at = "none" /\ DOMAIN handle[h].captured = {}
      BY <1>1, <2>1, <2>3 DEF HandleRead
    <3>2. list[l] = [at |-> "computed", base |-> list[l].base, expected |-> list[l].expected, saw |-> list[l].saw, offers |-> list[l].offers]
      BY <1>2, <2>1, <2>3 DEF IsList
    <3>3. CASE ~Actions!Expected(list[l].base, list[l].expected)
      <4>1. handle' = handle /\ list' = [list EXCEPT ![l].at = "refused"]
        BY <1>7, <3>3 DEF Actions!Answered
      <4>2. list'[l].at = "refused"
        BY <1>2, <2>3, <3>2, <4>1
      <4> QED BY <1>1, <2>3, <3>1, <4>1, <4>2 DEF HandleRead, IsHandle
    <3>4. CASE Actions!Expected(list[l].base, list[l].expected)
      <4>1. /\ list' = [list EXCEPT ![l].at = "preparing"] /\ text[list[l].base] = list[l].expected
            /\ handle'[h] = IF h[2] \in list[l].offers THEN Actions!Captures(h, h[2] \cap held) ELSE handle[h]
        BY <1>7, <2>3, <3>4, HandleParts DEF Actions!Answered, Actions!Expected
      <4>2. list'[l].at = "preparing" /\ list'[l].base = list[l].base /\ list'[l].saw = list[l].saw /\ list'[l].offers = list[l].offers
        BY <1>2, <2>3, <3>2, <4>1
      <4>3. CASE h[2] \notin list[l].offers
        <5>1. handle'[h] = handle[h]
          BY <4>1, <4>3
        <5> QED BY <1>1, <2>3, <3>1, <4>2, <5>1 DEF HandleRead, IsHandle
      <4>4. CASE h[2] \in list[l].offers
        <5>1. text[list[l].base] = list[l].saw[list[l].base]
          <6>1. list[l].saw \in Reads /\ list[l].base \in ActionDocs
            BY <1>2, <2>1, <2>3 DEF IsList
          <6>2. text[list[l].base] \in Nat /\ list[l].saw[list[l].base] \in Nat
            BY <1>2, <6>1 DEF Reads
          <6>3. list[l].expected <= list[l].saw[list[l].base] /\ list[l].saw[list[l].base] <= text[list[l].base]
            BY <1>1, <2>1, <2>3, <6>1 DEF ListRead
          <6> QED BY <4>1, <6>2, <6>3
        <5>2. \A d \in ActionDocs \ DOMAIN handle[h].captured : d = list[h[1]].base \/ Seen(h, d, text[d])
          BY <1>1, <2>1, <2>3 DEF HandleRead
        <5>3. handle'[h] = Actions!Captures(h, h[2] \cap held)
          BY <4>1, <4>4
        <5>4. \A d \in (h[2] \cap held) \ DOMAIN handle[h].captured : d = list[h[1]].base => text[d] = list[h[1]].saw[d]
          BY <2>3, <5>1
        <5>5. h[2] \cap held \subseteq h[2]
          OBVIOUS
        <5>6. /\ list'[h[1]].at = "preparing" /\ list'[h[1]].base = list[h[1]].base /\ list'[h[1]].saw = list[h[1]].saw
              /\ h[2] \in list'[h[1]].offers
          BY <2>3, <4>2, <4>4
        <5> QED BY <1>1, <2>1, <3>1, <5>2, <5>3, <5>4, <5>5, <5>6, HandleCaptures
      <4> QED BY <4>3, <4>4
    <3> QED BY <3>3, <3>4
  <2> QED BY <2>2, <2>3
<1>8. ASSUME NEW l \in Lists, Actions!Returned(l)
      PROVE  IsHandle(handle[h])' /\ HandleRead(h)'
  <2>1. /\ list[l].at = "preparing" /\ text' = text /\ handle' = handle
        /\ list' = [list EXCEPT ![l].at = "returned"]
        /\ \A o \in list[l].offers : handle[<<l, o>>].at # "resolving"
    BY <1>8 DEF Actions!Returned
  <2>2. CASE h[1] # l
    <3>1. list'[h[1]] = list[h[1]]
      BY <2>1, <2>2
    <3> QED BY <1>1, <2>1, <3>1, HandleSame
  <2>3. CASE h[1] = l
    <3>1. list[l] = [at |-> "preparing", base |-> list[l].base, expected |-> list[l].expected, saw |-> list[l].saw, offers |-> list[l].offers]
      BY <1>2, <2>1, <2>3 DEF IsList
    <3>2. list'[l].at = "returned" /\ list'[l].base = list[l].base /\ list'[l].saw = list[l].saw
      BY <1>2, <2>1, <2>3, <3>1
    <3>3. h = <<h[1], h[2]>>
      BY DEF Actions!Handles
    <3>4. handle[h].at # "resolving"
      BY <1>1, <2>1, <2>3, <3>3 DEF HandleRead
    <3> QED BY <1>1, <2>1, <2>3, <3>2, <3>4 DEF HandleRead, IsHandle, Seen
  <2> QED BY <2>2, <2>3
<1>9. ASSUME NEW g \in Actions!Handles, Actions!OpenFails(g) \/ Actions!Expires(g) \/ Actions!ApplyCodeAction(g)
      PROVE  IsHandle(handle[h])' /\ HandleRead(h)'
  <2>1. text' = text /\ list' = list
    BY <1>9 DEF Actions!OpenFails, Actions!Expires, Actions!ApplyCodeAction
  <2>2. CASE g # h
    <3>1. (\E e : handle' = [handle EXCEPT ![g].at = e]) \/ \E e : handle' = [handle EXCEPT ![g] = e]
      BY <1>9 DEF Actions!OpenFails, Actions!Expires, Actions!ApplyCodeAction
    <3>2. handle'[h] = handle[h]
      BY <1>2, <2>2, <3>1
    <3> QED BY <1>1, <2>1, <3>2, HandleSame
  <2>3. CASE g = h
    <3>1. handle[h] = [at |-> handle[h].at, captured |-> handle[h].captured, moved |-> handle[h].moved]
      BY <1>1 DEF IsHandle
    <3>2. /\ handle[h].at \in {"resolving", "available", "unsupported", "expired"}
          /\ \/ handle'[h] = [handle[h] EXCEPT !.at = "unsupported"]
             \/ handle'[h] = [Actions!NoHandle EXCEPT !.at = "expired"]
             \/ handle'[h] = [handle[h] EXCEPT !.at = "applied"]
             \/ handle'[h] = [handle[h] EXCEPT !.at = "sent"] /\ handle[h].at = "available"
      BY <1>2, <1>9, <2>3 DEF Actions!OpenFails, Actions!Expires, Actions!ApplyCodeAction
    <3>3. IsHandle([Actions!NoHandle EXCEPT !.at = "expired"]) /\ [Actions!NoHandle EXCEPT !.at = "expired"].at = "expired"
      <4>1. PICK e : Actions!NoHandle = [at |-> "none", captured |-> e, moved |-> {}]
        BY DEF Actions!NoHandle
      <4> QED BY <4>1 DEF IsHandle
    <3>4. /\ IsHandle(handle'[h])
          /\ \/ handle'[h].at \in {"unsupported", "expired", "applied"}
             \/ /\ handle'[h].at = "sent" /\ handle[h].at = "available"
                /\ handle'[h].captured = handle[h].captured /\ handle'[h].moved = handle[h].moved
      BY <3>1, <3>2, <3>3 DEF IsHandle
    <3>5. list[h[1]].at # "computed" /\ handle[h].at # "none"
      BY <1>1, <3>2 DEF HandleRead
    <3>6. HandleRead(h)'
      BY <1>1, <2>1, <3>4, <3>5, HandleEnds
    <3> QED BY <3>4, <3>6 DEF IsHandle
  <2> QED BY <2>2, <2>3
<1>10. ASSUME NEW g \in Actions!Handles, Actions!ActionLands(g)
       PROVE  IsHandle(handle[h])' /\ HandleRead(h)'
  <2>1. /\ list' = list /\ handle[g].at = "sent"
        /\ \/ /\ text' = Actions!Changed(Actions!EditedBy(g))
              /\ handle' = [Actions!Noted(Actions!EditedBy(g)) EXCEPT ![g].at = "applied"]
           \/ handle' = [handle EXCEPT ![g].at = "applied"] /\ text' = text
    BY <1>10 DEF Actions!ActionLands
  <2>2. CASE g # h
    <3> DEFINE N == Actions!Noted(Actions!EditedBy(g))
    <3>0. DOMAIN N = Actions!Handles
      BY DEF Actions!Noted
    <3> HIDE DEF N
    <3>1. \/ text' = text /\ handle'[h] = handle[h]
          \/ /\ text' = Actions!Changed(Actions!EditedBy(g))
             /\ handle'[h] = N[h]
      <4>1. \/ text' = Actions!Changed(Actions!EditedBy(g)) /\ handle' = [N EXCEPT ![g].at = "applied"]
            \/ handle' = [handle EXCEPT ![g].at = "applied"] /\ text' = text
        BY <2>1 DEF N
      <4> QED BY <1>2, <2>2, <3>0, <4>1
    <3>2. CASE text' = text /\ handle'[h] = handle[h]
      BY <1>1, <2>1, <3>2, HandleSame
    <3>3. CASE text' = Actions!Changed(Actions!EditedBy(g)) /\ handle'[h] = N[h]
      BY <1>1, <2>1, <3>3, HandleNotes DEF N
    <3> QED BY <3>1, <3>2, <3>3
  <2>3. CASE g = h
    <3>1. list[h[1]].at # "computed" /\ handle[h].at # "none"
      BY <1>1, <2>1, <2>3 DEF HandleRead
    <3>2. /\ IsHandle(Actions!Noted(Actions!EditedBy(g))[h])
          /\ h \in DOMAIN Actions!Noted(Actions!EditedBy(g))
      BY <1>1, ChangesNote DEF IsHandle, Actions!Noted
    <3>3. IsHandle(handle'[h]) /\ handle'[h].at = "applied"
      <4>1. \E x : IsHandle(x) /\ handle'[h] = [x EXCEPT !.at = "applied"]
        BY <1>1, <1>2, <2>1, <2>3, <3>2
      <4> QED BY <4>1 DEF IsHandle
    <3>4. HandleRead(h)'
      BY <1>1, <2>1, <3>1, <3>3, HandleEnds
    <3> QED BY <3>3, <3>4 DEF IsHandle
  <2> QED BY <2>2, <2>3
<1>11. ASSUME NEW f \in Formats, Actions!FormatLands(f)
       PROVE  IsHandle(handle[h])' /\ HandleRead(h)'
  <2>1. list' = list
    BY <1>11 DEF Actions!FormatLands
  <2>2. (text' = text /\ handle' = handle) \/ \E ds : text' = Actions!Changed(ds) /\ handle' = Actions!Noted(ds)
    BY <1>11 DEF Actions!FormatLands
  <2>3. CASE text' = text /\ handle' = handle
    BY <1>1, <2>1, <2>3, HandleSame
  <2>4. ASSUME NEW ds, text' = Actions!Changed(ds), handle' = Actions!Noted(ds)
        PROVE  IsHandle(handle[h])' /\ HandleRead(h)'
    BY <1>1, <2>1, <2>4, HandleNotes
  <2> QED BY <2>2, <2>3, <2>4
<1>12. CASE text' = text /\ list' = list /\ handle' = handle
  BY <1>1, <1>12, HandleSame
<1>13. \/ \E d \in ActionDocs : Actions!UserChanges(d) \/ Actions!Opened(d)
       \/ \E l \in Lists, d \in ActionDocs : Actions!List(l, d)
       \/ \E l \in Lists : Actions!Answered(l) \/ Actions!Returned(l)
       \/ \E l \in Lists, offers \in SUBSET Offers : Actions!ProviderReads(l, offers)
       \/ \E g \in Actions!Handles :
             Actions!OpenFails(g) \/ Actions!Expires(g) \/ Actions!ApplyCodeAction(g) \/ Actions!ActionLands(g)
       \/ \E f \in Formats : Actions!FormatLands(f)
       \/ text' = text /\ list' = list /\ handle' = handle
  <2>1. ActionStep BY StepSplit
  <2> QED BY <2>1 DEF ActionStep, Actions!Format, Actions!FormatterReads, Actions!FormatterAnswers
<1> QED BY <1>3, <1>4, <1>5, <1>6, <1>7, <1>8, <1>9, <1>10, <1>11, <1>12, <1>13

(***************************************************************************)
(* An edit lands on what its provider has read                             *)
(***************************************************************************)

ActionsInv == ActionsTyped /\ Read

LEMMA ActionsBegin == Actions!Init => ActionsInv
<1> SUFFICES ASSUME Actions!Init PROVE ActionsInv
  OBVIOUS
<1>1. text = [d \in ActionDocs |-> 0] /\ text \in Reads
  BY DEF Actions!Init, Actions!Nowhere, Reads
<1>2. \A l \in Lists : list[l] = [at |-> "idle", base |-> Nil, expected |-> 0, saw |-> text, offers |-> {}]
  BY <1>1 DEF Actions!Init, Actions!NoList, Actions!Nowhere
<1>3. \A h \in Actions!Handles : handle[h] = [at |-> "none", captured |-> <<>>, moved |-> {}] /\ h[1] \in Lists
  BY DEF Actions!Init, Actions!NoHandle, Actions!Handles
<1>4. \A f \in Formats : format[f] = [at |-> "idle", doc |-> Nil, expected |-> 0, saw |-> 0]
  BY DEF Actions!Init, Actions!NoFormat
<1>5. DOMAIN list = Lists /\ DOMAIN handle = Actions!Handles /\ DOMAIN format = Formats
  BY DEF Actions!Init
<1>6. \A l \in Lists : IsList(list[l]) /\ ListRead(l)
  BY <1>1, <1>2 DEF IsList, ListRead
<1>7. DOMAIN <<>> = {}
  OBVIOUS
<1>8. \A h \in Actions!Handles : IsHandle(handle[h]) /\ HandleRead(h)
  BY <1>2, <1>3, <1>7 DEF IsHandle, HandleRead
<1>9. \A f \in Formats : IsFormat(format[f]) /\ FormatRead(f)
  BY <1>4 DEF IsFormat, FormatRead
<1> QED BY <1>1, <1>5, <1>6, <1>8, <1>9 DEF ActionsInv, ActionsTyped, Read

LEMMA ActionsStep == ActionsInv /\ Actions!Next => ActionsInv'
<1> SUFFICES ASSUME ActionsInv, Actions!Next PROVE ActionsInv'
  OBVIOUS
<1>1. ActionsTyped /\ Read
  BY DEF ActionsInv
<1>2. \A l \in Lists : IsList(list[l])' /\ ListRead(l)'
  BY <1>1, ListsRead DEF Read
<1>3. \A h \in Actions!Handles : IsHandle(handle[h])' /\ HandleRead(h)'
  BY <1>1, HandlesRead
<1>4. \A f \in Formats : IsFormat(format[f])' /\ FormatRead(f)'
  BY <1>1, FormatsRead DEF Read
<1>5. text' \in Reads
  BY SMTT(30), <1>1, TextsGrow
<1>6. DOMAIN list' = Lists /\ DOMAIN format' = Formats
  <2>1. ActionStep BY StepSplit
  <2>2. DOMAIN list = Lists /\ DOMAIN format = Formats
    BY <1>1 DEF ActionsTyped
  <2> QED BY ZenonT(40), <2>1, <2>2 DEF ActionStep, Actions!UserChanges, Actions!Opened, Actions!List, Actions!Format, Actions!Answered,
        Actions!Returned, Actions!ProviderReads, Actions!OpenFails, Actions!Expires, Actions!ApplyCodeAction,
        Actions!ActionLands, Actions!FormatterReads, Actions!FormatLands, Actions!FormatterAnswers
<1>7. DOMAIN handle' = Actions!Handles
  <2>1. ActionStep BY StepSplit
  <2>2. DOMAIN handle = Actions!Handles
    BY <1>1 DEF ActionsTyped
  <2>3. DOMAIN Actions!Purged = Actions!Handles /\ \A ds : DOMAIN Actions!Noted(ds) = Actions!Handles
    BY DEF Actions!Purged, Actions!Noted
  <2> QED BY ZenonT(40), <2>1, <2>2, <2>3 DEF ActionStep, Actions!UserChanges, Actions!Opened, Actions!List, Actions!Format, Actions!Answered,
        Actions!Returned, Actions!ProviderReads, Actions!OpenFails, Actions!Expires, Actions!ApplyCodeAction,
        Actions!ActionLands, Actions!FormatterReads, Actions!FormatLands, Actions!FormatterAnswers
<1> QED BY <1>2, <1>3, <1>4, <1>5, <1>6, <1>7 DEF ActionsInv, ActionsTyped, Read

\* Only applyCodeAction sends the edit of a handle, and then the listed document is as it
\* was when it was listed.
LEMMA SentAsListed ==
    ASSUME ActionsInv, Actions!Next, NEW h \in Actions!Handles, handle[h].at # "sent", handle'[h].at = "sent"
    PROVE  text[Actions!Base(h)] = list[h[1]].saw[Actions!Base(h)]
<1>1. IsHandle(handle[h]) /\ HandleRead(h) /\ ListRead(h[1]) /\ DOMAIN handle = Actions!Handles
  BY HandleParts DEF ActionsInv, ActionsTyped, Read
<1>2. \A ds : Actions!Captures(h, ds).at # "sent"
  BY <1>1, CapturesIs
<1>3. ASSUME NEW ds PROVE Actions!Noted(ds)[h].at = handle[h].at /\ IsHandle(Actions!Noted(ds)[h])
  <2> DEFINE x == handle[h]
             y == Actions!Noted(ds)[h]
  <2>1. \/ y = [x EXCEPT !.moved = x.moved \cup (ds \ DOMAIN x.captured)]
        \/ y = x
    BY ChangesNote
  <2> HIDE DEF y
  <2>2. x = [at |-> x.at, captured |-> x.captured, moved |-> x.moved]
    BY <1>1 DEF IsHandle
  <2> HIDE DEF x
  <2>3. y.at = x.at /\ y = [at |-> y.at, captured |-> y.captured, moved |-> y.moved]
    BY <2>1, <2>2
  <2> QED BY <2>3 DEF x, y, IsHandle
<1>4. ASSUME NEW g \in Actions!Handles, NEW ds
      PROVE  [Actions!Noted(ds) EXCEPT ![g].at = "applied"][h].at \in {"applied", handle[h].at}
  <2>1. h \in DOMAIN Actions!Noted(ds)
    BY DEF Actions!Noted
  <2>2. PICK N : N = Actions!Noted(ds)
    OBVIOUS
  <2>3. IsHandle(N[h]) /\ N[h].at = handle[h].at /\ h \in DOMAIN N
    BY <1>3, <2>1, <2>2
  <2>4. [N EXCEPT ![g].at = "applied"][h].at \in {"applied", handle[h].at}
    BY <2>3 DEF IsHandle
  <2> QED BY <2>2, <2>4
<1>5. Actions!Purged[h].at \in {"forgotten", handle[h].at}
  BY DEF Actions!Purged, Actions!Forgotten, Actions!NoHandle
<1>6. Actions!ApplyCodeAction(h)
  <2>1. ActionStep BY StepSplit
  <2> SUFFICES ASSUME ~Actions!ApplyCodeAction(h) PROVE FALSE
    OBVIOUS
  <2>2. ASSUME NEW g \in Actions!Handles, Actions!OpenFails(g) \/ Actions!Expires(g) PROVE FALSE
    BY <1>1, <2>2 DEF Actions!OpenFails, Actions!Expires, Actions!NoHandle, IsHandle
  <2>3. ASSUME NEW g \in Actions!Handles, Actions!ApplyCodeAction(g) PROVE FALSE
    <3>1. \E e : handle' = [handle EXCEPT ![g].at = e]
      BY <2>3 DEF Actions!ApplyCodeAction
    <3> QED BY <1>1, <2>3, <3>1
  <2>4. ASSUME NEW g \in Actions!Handles, Actions!ActionLands(g) PROVE FALSE
    <3>1. \/ handle' = [Actions!Noted(Actions!EditedBy(g)) EXCEPT ![g].at = "applied"]
          \/ handle' = [handle EXCEPT ![g].at = "applied"]
      BY <2>4 DEF Actions!ActionLands
    <3>2. [handle EXCEPT ![g].at = "applied"][h].at \in {"applied", handle[h].at}
      BY <1>1 DEF IsHandle
    <3> QED BY <1>4, <3>1, <3>2
  <2>5. ASSUME NEW d \in ActionDocs, Actions!Opened(d) PROVE FALSE
    BY <1>2, <2>5 DEF Actions!Opened
  <2>6. ASSUME NEW l \in Lists, Actions!Answered(l) PROVE FALSE
    BY ZenonT(40), <1>2, <2>6 DEF Actions!Answered
  <2>7. \/ handle' = handle \/ handle' = Actions!Purged \/ \E ds : handle' = Actions!Noted(ds)
        \/ \E d \in ActionDocs : Actions!Opened(d)
        \/ \E l \in Lists : Actions!Answered(l)
        \/ \E g \in Actions!Handles :
              Actions!OpenFails(g) \/ Actions!Expires(g) \/ Actions!ApplyCodeAction(g) \/ Actions!ActionLands(g)
    BY ZenonT(40), <2>1 DEF ActionStep, Actions!UserChanges, Actions!List, Actions!Format, Actions!Returned,
       Actions!ProviderReads,
        Actions!FormatterReads, Actions!FormatLands, Actions!FormatterAnswers
  <2> QED BY <1>3, <1>5, <2>2, <2>3, <2>4, <2>5, <2>6, <2>7
<1>7. list[h[1]].at = "returned" /\ Actions!Guard(h)
  BY <1>1, <1>6 DEF Actions!ApplyCodeAction, IsHandle
<1> QED BY <1>1, <1>7, HandleParts DEF Actions!Guard, Actions!Expected, ListRead

\* applyCodeAction, formatDocument: an edit lands on the texts its provider has read, other than
\* of a document that changed before it was first looked at here.
THEOREM EditsAreForWhatWasRead == MCSpec => ProviderSawIt
<1>1. MCInit => ActionsInv
  BY ActionsBegin DEF MCInit
<1>2. ActionsInv /\ [MCNext]_<<part, vars, actionVars>> => ActionsInv'
  <2>1. ActionsInv /\ UNCHANGED actionVars => ActionsInv'
    BY DEF ActionsInv, ActionsTyped, Read, ListRead, HandleRead, FormatRead, Seen, IsList,
       IsHandle, IsFormat, actionVars
  <2> QED BY <2>1, ActionsStep DEF MCNext
<1>3. MCSpec => []ActionsInv
  BY <1>1, <1>2, PTL DEF MCSpec
<1> DEFINE Lands == \A h \in Actions!Handles : Actions!ActionLands(h) /\ text' # text =>
                        \A d \in Actions!EditedBy(h) :
                            \/ text[d] = list[h[1]].saw[d]
                            \/ d # Actions!Base(h) /\ d \in handle[h].moved
           Leaves == \A h \in Actions!Handles : handle[h].at # "sent" /\ handle'[h].at = "sent" =>
                        text[Actions!Base(h)] = list[h[1]].saw[Actions!Base(h)]
           Formatted == \A f \in Formats : Actions!FormatLands(f) /\ text' # text =>
                        text[format[f].doc] = format[f].saw
<1>4. ActionsInv => Lands
  <2> SUFFICES ASSUME ActionsInv, NEW h \in Actions!Handles, Actions!ActionLands(h), text' # text,
                      NEW d \in Actions!EditedBy(h)
               PROVE  text[d] = list[h[1]].saw[d] \/ (d # Actions!Base(h) /\ d \in handle[h].moved)
    OBVIOUS
  <2>1. handle[h].at = "sent" /\ \A c \in h[2] : text[c] = handle[h].captured[c]
    BY HandleParts DEF Actions!ActionLands
  <2>2. HandleRead(h) /\ d \in h[2]
    BY HandleParts DEF ActionsInv, Read
  <2>3. d \in DOMAIN handle[h].captured /\ Seen(h, d, handle[h].captured[d])
    BY <2>1, <2>2 DEF HandleRead
  <2> QED BY <2>1, <2>2, <2>3, HandleParts DEF Seen
<1>5. ActionsInv /\ [MCNext]_<<part, vars, actionVars>> => Leaves
  <2> SUFFICES ASSUME ActionsInv, [MCNext]_<<part, vars, actionVars>>, NEW h \in Actions!Handles,
                      handle[h].at # "sent", handle'[h].at = "sent"
               PROVE  text[Actions!Base(h)] = list[h[1]].saw[Actions!Base(h)]
    OBVIOUS
  <2>1. Actions!Next
    BY DEF MCNext, actionVars
  <2> QED BY <2>1, SentAsListed
<1>6. ActionsInv => Formatted
  <2> SUFFICES ASSUME ActionsInv, NEW f \in Formats, Actions!FormatLands(f), text' # text
               PROVE  text[format[f].doc] = format[f].saw
    OBVIOUS
  <2>1. format[f].at = "sent" /\ text[format[f].doc] = format[f].expected
    BY DEF Actions!FormatLands
  <2> QED BY <2>1 DEF ActionsInv, Read, FormatRead
<1>7. ActionsInv /\ [MCNext]_<<part, vars, actionVars>> => [Lands /\ Leaves /\ Formatted]_(Actions!vars)
  <2>1. (UNCHANGED actionVars) => UNCHANGED Actions!vars
    BY DEF actionVars, Actions!vars
  <2> HIDE DEF Lands, Leaves, Formatted
  <2> QED BY <1>4, <1>5, <1>6, <2>1 DEF MCNext
<1> QED BY <1>3, <1>7, PTL DEF MCSpec, ProviderSawIt, Actions!ProviderSawIt
==============================================================================
