------------------------ MODULE WorkflowConfiguration ------------------------
(***************************************************************************)
(* The workspace files an agent may change through one VS Code window      *)
(* (packages/vscode-extension/src/workspace-configuration-manager.ts):     *)
(* task or debug definitions (tasks.json, launch.json), persisted under a  *)
(* name, and settings.  The window remembers which definition it wrote     *)
(* into which content (workflow-provenance.ts) and overwrites a definition *)
(* of the same name only then.                                             *)
(*                                                                         *)
(* Every call checks the hash of the content it was made for, and replaces *)
(* the file some awaits later.  No lock keeps calls, or the user, apart.   *)
(*                                                                         *)
(* Data abstractions: a content says who wrote the entry of each name; its *)
(* hash is the content itself.  Formatting, JSON paths, parse errors and   *)
(* the policy on deferred tasks are left out, and so is the limit of 500   *)
(* provenance entries.                                                     *)
(***************************************************************************)
EXTENDS Integers, FiniteSets

CONSTANTS Calls,     \* persistTask, persistConfiguration and updateConfiguration calls
          Names,     \* labels of definitions, keys of settings
          User,      \* the author of what no call wrote
          Nil,
          MaxEdits,  \* bound: edits of the user
          MaxReloads \* bound: reloads of the window

ASSUME ConfigurationAssumption ==
    /\ User \notin Calls /\ Nil \notin Calls /\ User # Nil
    /\ MaxEdits \in Nat /\ MaxReloads \in Nat

Files == {"definitions", "settings"}
Authors == Calls \cup {User}
Entries == [Names -> Authors \cup {Nil}]

\* A file that does not exist and one with no entries are told apart by the precondition.
Hashes == [exists : BOOLEAN, entry : Entries]
Absent == [exists |-> FALSE, entry |-> [n \in Names |-> Nil]]

VARIABLES
    file,        \* the content of each file, or Absent
    provenance,  \* for each name the content a definition was written in, and its author
    call,        \* where each call is and what it has in its hands
    edits,       \* edits of the user so far
    reloads      \* reloads of the window so far

vars == <<file, provenance, call, edits, reloads>>

NoEntry == [hash |-> Absent, by |-> Nil]
NewCall == [at |-> "idle", file |-> "settings", name |-> Nil, expected |-> Absent,
            replace |-> FALSE, next |-> Absent]

TypeOK ==
    /\ file \in [Files -> Hashes]
    /\ provenance \in [Names -> [hash : Hashes, by : Calls \cup {Nil}]]
    /\ call \in [Calls -> [at : {"idle", "asked", "looked", "loaded", "written", "over"},
                           file : Files, name : Names \cup {Nil}, expected : Hashes,
                           replace : BOOLEAN, next : Hashes]]
    /\ \A c \in Calls : call[c].at \notin {"idle", "over"} => call[c].name \in Names
    /\ edits \in 0..MaxEdits /\ reloads \in 0..MaxReloads

Init ==
    /\ file = [f \in Files |-> Absent]
    /\ provenance = [n \in Names |-> NoEntry]
    /\ call = [c \in Calls |-> NewCall]
    /\ edits = 0 /\ reloads = 0

-----------------------------------------------------------------------------
(* A call: the steps between its awaits.                                   *)

Over(c) == call' = [call EXCEPT ![c].at = "over"]

\* The agent asks with the hash of the content it has read.
Ask(c, f, n) ==
    /\ call[c].at = "idle"
    /\ call' = [call EXCEPT ![c] = [NewCall EXCEPT !.at = "asked", !.file = f, !.name = n,
                                                   !.expected = file[f]]]
    /\ UNCHANGED <<file, provenance, edits, reloads>>

\* Mutant: any definition of that name that was once persisted may be replaced.
ReplaceableByName(n, expected) == provenance[n].by # Nil

\* existingProvenance?.configurationSha256 === params.expectedSha256
Replaceable(n, expected) == provenance[n].by # Nil /\ provenance[n].hash = expected

\* persistTask and persistConfiguration up to the manager; updateConfiguration has no such step.
LookUp(c) ==
    /\ call[c].at = "asked"
    /\ call' = [call EXCEPT
         ![c].at = "looked",
         ![c].replace = call[c].file = "settings" \/ Replaceable(call[c].name, call[c].expected)]
    /\ UNCHANGED <<file, provenance, edits, reloads>>

\* The content with a new entry, or none, for a name.
With(content, n, author) == [exists |-> TRUE, entry |-> [content.entry EXCEPT ![n] = author]]

\* A definition of that name exists and may not be replaced.
Conflict(c) == file[call[c].file].entry[call[c].name] # Nil /\ ~call[c].replace

\* The file is read and the preconditions hold: the new content is in memory.
Load(c) ==
    /\ call[c].at = "looked"
    /\ file[call[c].file] = call[c].expected
    /\ ~Conflict(c)
    /\ call' = [call EXCEPT
         ![c].at = "loaded",
         ![c].next = With(file[call[c].file], call[c].name, c)]
    /\ UNCHANGED <<file, provenance, edits, reloads>>

Refuse(c) ==
    /\ call[c].at = "looked"
    /\ file[call[c].file] # call[c].expected \/ Conflict(c)
    /\ Over(c)
    /\ UNCHANGED <<file, provenance, edits, reloads>>

\* writeConfigurationAtomic: the rename.
Write(c) ==
    /\ call[c].at = "loaded"
    /\ file' = [file EXCEPT ![call[c].file] = call[c].next]
    /\ call' = [call EXCEPT ![c].at = IF call[c].file = "settings" THEN "over" ELSE "written"]
    /\ UNCHANGED <<provenance, edits, reloads>>

\* The temporary file cannot be written or renamed, or the path left the root.
WriteFails(c) ==
    /\ call[c].at = "loaded"
    /\ Over(c)
    /\ UNCHANGED <<file, provenance, edits, reloads>>

\* Mutant: every entry follows the file.
RebasedAlways(c, n) == [provenance[n] EXCEPT !.hash = call[c].next]

\* The entry of another name follows the file when it spoke of the content just replaced.
Rebased(c, n) ==
    IF provenance[n].by # Nil /\ provenance[n].hash = call[c].expected
      THEN [provenance[n] EXCEPT !.hash = call[c].next]
      ELSE provenance[n]

\* recordConfigurationWrite, one at a time in the queue of the store.
Record(c) ==
    /\ call[c].at = "written"
    /\ provenance' = [n \in Names |->
         IF n = call[c].name THEN [hash |-> call[c].next, by |-> c] ELSE Rebased(c, n)]
    /\ Over(c)
    /\ UNCHANGED <<file, edits, reloads>>

-----------------------------------------------------------------------------
(* The user and the window.                                                *)

UserEdits(f, n, author) ==
    /\ edits < MaxEdits
    /\ edits' = edits + 1
    /\ file' = [file EXCEPT ![f] = With(@, n, author)]
    /\ UNCHANGED <<provenance, call, reloads>>

\* The window is reloaded or dies: calls are gone, what is stored stays.
Reload ==
    /\ reloads < MaxReloads
    /\ reloads' = reloads + 1
    /\ call' = [c \in Calls |-> IF call[c].at = "idle" THEN call[c]
                                ELSE [call[c] EXCEPT !.at = "over"]]
    /\ UNCHANGED <<file, provenance, edits>>

Next ==
    \/ \E c \in Calls :
          \/ \E f \in Files, n \in Names : Ask(c, f, n)
          \/ LookUp(c) \/ Load(c) \/ Refuse(c) \/ Write(c) \/ WriteFails(c) \/ Record(c)
    \/ \E f \in Files, n \in Names, a \in {User, Nil} : UserEdits(f, n, a)
    \/ Reload

Spec == Init /\ [][Next]_vars

-----------------------------------------------------------------------------
(* Properties.                                                             *)

\* What is remembered of a definition is true of the content it was remembered for,
\* through every rebase and in whatever order calls write and record: there that name
\* holds what the remembered call wrote (workflow-provenance.ts:67-84).
ProvenanceTrue ==
    \A n \in Names : provenance[n].by # Nil =>
        provenance[n].hash.entry[n] = provenance[n].by

\* "Persistence ... never overwrites an unrelated same-name user definition."
\* (docs/adr/0020-ide-mediated-autonomous-execution.md:39-40): the new content a call holds
\* replaces, in the content it was computed from, no definition of the user
\* (workspace-configuration-manager.ts:171-173).  One that the user saves after the content
\* was read is lost with the rest of that edit: the file is replaced unseen (line 186).
ReplacesOwnOnly ==
    \A c \in Calls :
        call[c].at \in {"loaded", "written"} /\ call[c].file = "definitions"
          => call[c].expected.entry[call[c].name] # User
=============================================================================
