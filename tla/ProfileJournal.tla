---------------------------- MODULE ProfileJournal ----------------------------
(***************************************************************************)
(* Changes of a setting of the user's profile, and the journal that makes  *)
(* them undoable (packages/vscode-extension/src/extension-profile-core.ts  *)
(* and extension-profile-manager.ts).                                      *)
(*                                                                         *)
(* An update writes a pending entry, changes the setting and commits the   *)
(* entry; a window that starts decides what became of entries that stayed  *)
(* pending; the user undoes the latest committed one.  Each window orders  *)
(* its own journal operations.  The journal file is shared by all of them. *)
(*                                                                         *)
(* Data abstractions: one setting with few values; a hash is the value.    *)
(* Validation of names and values, the age limit of entries and malformed  *)
(* files are left out.  Settings of a workspace have no journal and are    *)
(* left out.                                                               *)
(***************************************************************************)
EXTENDS Integers, Sequences, FiniteSets, Functions, Filters

CONSTANTS Updates,    \* calls of updateConfiguration with target global
          Undos,      \* runs of the undo command
          Windows,
          Values,     \* values of the setting
          Nil,
          Limit,      \* JOURNAL_LIMIT
          MaxEdits,   \* bound: edits of the user
          MaxCrashes, \* bound: windows that die or are reloaded
          MaxFailures \* bound: journal writes and settings updates that fail

JournalAssumption ==
    /\ Nil \notin Updates \cup Undos \cup Windows \cup Values
    /\ Updates \cap Undos = {} /\ IsFiniteSet(Updates)
    /\ {Limit, MaxEdits, MaxCrashes, MaxFailures} \subseteq Nat /\ Limit > 0

Actors == Updates \cup Undos
Change == [id : Updates, before : Values, after : Values,
           state : {"pending", "committed", "attentionRequired"}]

VARIABLES
    setting,   \* the global value
    journal,   \* journal.json
    window,    \* where each window is in its life
    job,       \* the journal operation under way in each window, with what it will write
    actor,     \* where each update and undo is, and the change it is about
    lastSetBy, \* history: the update that set the value last, or Nil
    edits, crashes, failures

vars == <<setting, journal, window, job, actor, lastSetBy, edits, crashes, failures>>

NoActor == [at |-> "idle", window |-> Nil, change |-> Nil]
NoJob == [by |-> Nil, changes |-> <<>>, changed |-> FALSE]
Writes == {"begin", "commit", "remove", "mark"}      \* journal operations of an actor

TypeOK ==
    /\ setting \in Values
    /\ journal \in Seq(Change) /\ Len(journal) <= Limit
    /\ window \in [Windows -> {"down", "starting", "ready"}]
    /\ \A w \in Windows : /\ job[w].by \in Actors \cup {Nil, w}
                          /\ job[w].changes \in Seq(Change) /\ job[w].changed \in BOOLEAN
    /\ \A a \in Actors :
          /\ actor[a].at \in Writes \cup {"idle", "apply", "rollback", "check", "set", "over"}
          /\ actor[a].at # "idle" => actor[a].window \in Windows
          /\ actor[a].change \in Change \cup {Nil}
    /\ lastSetBy \in Updates \cup {Nil}
    /\ edits \in 0..MaxEdits /\ crashes \in 0..MaxCrashes /\ failures \in 0..MaxFailures

Init ==
    /\ setting \in Values
    /\ journal = <<>>
    /\ window = [w \in Windows |-> "down"]
    /\ job = [w \in Windows |-> NoJob]
    /\ actor = [a \in Actors |-> NoActor]
    /\ lastSetBy = Nil
    /\ edits = 0 /\ crashes = 0 /\ failures = 0

UnderWay(a) == actor[a].at \notin {"idle", "over"}

-----------------------------------------------------------------------------
(* The journal: an operation reads the file and, later, replaces it.       *)

Newest(s) == IF Len(s) <= Limit THEN s ELSE SubSeq(s, Len(s) - Limit + 1, Len(s))

\* #transition
InState(s, id, state) ==
    [i \in DOMAIN s |-> IF s[i].id = id THEN [s[i] EXCEPT !.state = state] ELSE s[i]]

Without(s, id) == Where(s, {change \in Range(s) : change.id # id})

\* What operation op about a change makes of the journal.
Result(op, change) ==
    CASE op = "begin"  -> Newest(Append(journal, change))
      [] op = "commit" -> InState(journal, change.id, "committed")
      [] op = "mark"   -> InState(journal, change.id, "attentionRequired")
      [] op = "remove" -> Without(journal, change.id)

\* Mutant: a change that was applied is taken for one that was not.
RecoveredByBefore(s) ==
    LET kept == Where(s, {change \in Range(s) : change.state # "pending" \/ setting = change.before})
    IN  [i \in DOMAIN kept |->
            IF kept[i].state = "pending" THEN [kept[i] EXCEPT !.state = "committed"] ELSE kept[i]]

\* recover: applied changes are committed, others removed; the rest needs attention.
Recovered(s) ==
    LET kept == Where(s, {change \in Range(s) :
                    change.state = "pending" /\ setting = change.before => setting = change.after})
    IN  [i \in DOMAIN kept |->
            IF kept[i].state # "pending" THEN kept[i]
            ELSE [kept[i] EXCEPT !.state =
                    IF setting = kept[i].after THEN "committed" ELSE "attentionRequired"]]

\* The queue of a window: one operation at a time.
ReadJournal(a) ==
    LET w == actor[a].window
    IN  /\ actor[a].at \in Writes /\ job[w] = NoJob
        /\ job' = [job EXCEPT ![w] = [by |-> a, changes |-> Result(actor[a].at, actor[a].change),
                                      changed |-> actor[a].at \in {"commit", "mark"} =>
                                          \E i \in DOMAIN journal : journal[i].id = actor[a].change.id]]
        /\ UNCHANGED <<setting, journal, window, actor, lastSetBy, edits, crashes, failures>>

Replaced(w) == IF job[w].changed THEN job[w].changes ELSE journal

\* What an actor does after its operation, or after the operation has failed.
Then(at) == IF at = "begin" THEN "apply" ELSE "over"
OrElse(a) == IF a \in Updates /\ actor[a].at = "remove" THEN "mark" ELSE "over"

WriteJournal(a) ==
    LET w == actor[a].window
    IN  /\ actor[a].at \in Writes /\ job[w].by = a
        /\ journal' = Replaced(w)
        /\ job' = [job EXCEPT ![w] = NoJob]
        /\ actor' = [actor EXCEPT ![a].at = Then(@)]
        /\ UNCHANGED <<setting, window, lastSetBy, edits, crashes, failures>>

WriteFails(a) ==
    LET w == actor[a].window
    IN  /\ actor[a].at \in Writes /\ job[w].by = a /\ failures < MaxFailures
        /\ failures' = failures + 1
        /\ job' = [job EXCEPT ![w] = NoJob]
        /\ actor' = [actor EXCEPT ![a].at = OrElse(a)]
        /\ UNCHANGED <<setting, journal, window, lastSetBy, edits, crashes>>

-----------------------------------------------------------------------------
(* updateConfiguration: one at a time in a window.                         *)

ChangeOf(u, value) == [id |-> u, before |-> setting, after |-> value, state |-> "pending"]

Update(u, w, value) ==
    /\ window[w] = "ready" /\ actor[u].at = "idle" /\ value # setting
    /\ ~ \E v \in Updates : UnderWay(v) /\ actor[v].window = w
    /\ actor' = [actor EXCEPT ![u] = [at |-> "begin", window |-> w, change |-> ChangeOf(u, value)]]
    /\ UNCHANGED <<setting, journal, window, job, lastSetBy, edits, crashes, failures>>

Apply(u) ==
    /\ actor[u].at = "apply"
    /\ setting' = actor[u].change.after /\ lastSetBy' = u
    /\ actor' = [actor EXCEPT ![u].at = "commit"]
    /\ UNCHANGED <<journal, window, job, edits, crashes, failures>>

ApplyFails(u) ==
    /\ actor[u].at = "apply" /\ failures < MaxFailures
    /\ failures' = failures + 1
    /\ actor' = [actor EXCEPT ![u].at = "rollback"]
    /\ UNCHANGED <<setting, journal, window, job, lastSetBy, edits, crashes>>

Rollback(u) ==
    /\ actor[u].at = "rollback"
    /\ setting' = actor[u].change.before
    /\ lastSetBy' = IF setting' = setting THEN lastSetBy ELSE Nil
    /\ actor' = [actor EXCEPT ![u].at = "remove"]
    /\ UNCHANGED <<journal, window, job, edits, crashes, failures>>

RollbackFails(u) ==
    /\ actor[u].at = "rollback" /\ failures < MaxFailures
    /\ failures' = failures + 1
    /\ actor' = [actor EXCEPT ![u].at = "mark"]
    /\ UNCHANGED <<setting, journal, window, job, lastSetBy, edits, crashes>>

-----------------------------------------------------------------------------
(* undoLastGlobalChange: not in the queue of the updates.                  *)

Committed == {i \in DOMAIN journal : journal[i].state = "committed"}

Undo(d, w) ==
    /\ window[w] = "ready" /\ actor[d].at = "idle" /\ job[w] = NoJob
    /\ Committed # {}
    /\ LET latest == CHOOSE i \in Committed : \A j \in Committed : j <= i
       IN  actor' = [actor EXCEPT ![d] = [at |-> "check", window |-> w, change |-> journal[latest]]]
    /\ UNCHANGED <<setting, journal, window, job, lastSetBy, edits, crashes, failures>>

\* The value is compared, and VS Code is asked to change it, with no await between.
CheckUndo(d) ==
    /\ actor[d].at = "check"
    /\ actor' = [actor EXCEPT ![d].at = IF setting = actor[d].change.after THEN "set" ELSE "over"]
    /\ UNCHANGED <<setting, journal, window, job, lastSetBy, edits, crashes, failures>>

SetUndo(d) ==
    /\ actor[d].at = "set"
    /\ setting' = actor[d].change.before /\ lastSetBy' = Nil
    /\ actor' = [actor EXCEPT ![d].at = "remove"]
    /\ UNCHANGED <<journal, window, job, edits, crashes, failures>>

-----------------------------------------------------------------------------
(* Windows and the user.                                                   *)

\* A window starts and reads the journal; it serves requests once it has recovered it.
Start(w) ==
    /\ window[w] = "down"
    /\ window' = [window EXCEPT ![w] = "starting"]
    /\ job' = [job EXCEPT ![w] = [by |-> w, changes |-> Recovered(journal),
                                  changed |-> Recovered(journal) # journal]]
    /\ UNCHANGED <<setting, journal, actor, lastSetBy, edits, crashes, failures>>

Started(w) ==
    /\ window[w] = "starting"
    /\ window' = [window EXCEPT ![w] = "ready"]
    /\ journal' = Replaced(w)
    /\ job' = [job EXCEPT ![w] = NoJob]
    /\ UNCHANGED <<setting, actor, lastSetBy, edits, crashes, failures>>

Crash(w) ==
    /\ window[w] # "down" /\ crashes < MaxCrashes
    /\ crashes' = crashes + 1
    /\ window' = [window EXCEPT ![w] = "down"]
    /\ job' = [job EXCEPT ![w] = NoJob]
    /\ actor' = [a \in Actors |-> IF actor[a].window = w THEN [actor[a] EXCEPT !.at = "over"]
                                  ELSE actor[a]]
    /\ UNCHANGED <<setting, journal, lastSetBy, edits, failures>>

UserEdits(value) ==
    /\ edits < MaxEdits /\ value # setting
    /\ edits' = edits + 1
    /\ setting' = value /\ lastSetBy' = Nil
    /\ UNCHANGED <<journal, window, job, actor, crashes, failures>>

Next ==
    \/ \E a \in Actors : ReadJournal(a) \/ WriteJournal(a) \/ WriteFails(a)
    \/ \E u \in Updates, w \in Windows, value \in Values : Update(u, w, value)
    \/ \E u \in Updates : Apply(u) \/ ApplyFails(u) \/ Rollback(u) \/ RollbackFails(u)
    \/ \E d \in Undos, w \in Windows : Undo(d, w)
    \/ \E d \in Undos : CheckUndo(d) \/ SetUndo(d)
    \/ \E w \in Windows : Start(w) \/ Started(w) \/ Crash(w)
    \/ \E value \in Values : UserEdits(value)

Spec == Init /\ [][Next]_vars

-----------------------------------------------------------------------------
(* Properties.                                                             *)

\* When nothing is under way and the value is one an update has set last, the journal still
\* has that change, with that value: it can be undone, or Doctor is told of it, whatever
\* crashes, failures, undos and edits came before.  Only Limit newer changes displace it,
\* applied or not (extension-profile-core.ts:141, 175-198).
ChangeIsKept ==
    lastSetBy # Nil /\ (\A a \in Actors : ~UnderWay(a)) /\ (\A w \in Windows : window[w] = "ready")
      => \/ \E i \in DOMAIN journal : journal[i].id = lastSetBy /\ journal[i].after = setting
         \/ Cardinality({u \in Updates \ {lastSetBy} : actor[u].at # "idle"}) >= Limit

\* "The value is restored only if it has not changed since." (extension.ts:126)
UndoRestoresUnchanged ==
    [][\A d \in Undos : actor[d].at = "set" /\ actor'[d].at = "remove"
          => setting = actor[d].change.after]_vars
=============================================================================
