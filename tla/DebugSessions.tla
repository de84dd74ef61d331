---------------------------- MODULE DebugSessions ----------------------------
(***************************************************************************)
(* Debug sessions that agents start (debug-manager.ts): the checks of a    *)
(* start, the list of pending starts by which a new session of VS Code is  *)
(* taken for the one a call asked for, the activity entry of a start and   *)
(* the session a call is told of.                                          *)
(*                                                                         *)
(* VS Code is external: it starts the session of a call, or none of its    *)
(* own (a compound, an attach that is reused), before it answers the call; *)
(* the user starts sessions and edits launch.json.  There is one root, and *)
(* the number of a session is its place in the order of startedAt.         *)
(***************************************************************************)
EXTENDS Naturals, Filters, FiniteSets, FiniteSetsExt, Functions

CONSTANTS Calls, Names, Nil, User,
          MaxSessions,   \* bound: sessions VS Code starts
          MaxEdits       \* bound: edits of launch.json

ManagerAssumption ==
    {MaxSessions, MaxEdits} \subseteq Nat /\ User \notin Calls /\ Nil \notin Calls \cup Names \cup (1..MaxSessions)

Sessions == 1..MaxSessions

VARIABLES
    definition,  \* the version of each configuration in launch.json
    call,        \* startSession calls: where they are, and what they were told
    pendingStarts,
    session,     \* #sessions
    entry,       \* the activity entry of each call
    crowded      \* history: a call during whose start others started its name

vars == <<definition, call, pendingStarts, session, entry, crowded>>

NoCall == [at |-> "idle", name |-> Nil, approved |-> 0, version |-> 0, own |-> Nil, told |-> Nil]
NoSession == [at |-> "none", name |-> Nil, by |-> Nil, entry |-> Nil, version |-> 0]

Init ==
    /\ definition = [n \in Names |-> 0]
    /\ call = [c \in Calls |-> NoCall]
    /\ pendingStarts = <<>>
    /\ session = [s \in Sessions |-> NoSession]
    /\ entry = [c \in Calls |-> "none"]
    /\ crowded = {}

Edits == FoldFunction(LAMBDA v, total : v + total, 0, definition)
Edit(n) ==
    /\ Edits < MaxEdits
    /\ definition' = [definition EXCEPT ![n] = @ + 1]
    /\ UNCHANGED <<call, pendingStarts, session, entry, crowded>>

\* startSession, up to the check of the tasks that a configuration names: it was
\* listed as some version, and is looked up now.
Begin(c, n, listed) ==
    /\ call[c].at = "idle" /\ listed <= definition[n]
    /\ call' = [call EXCEPT ![c] = [NoCall EXCEPT !.at = "checking", !.name = n, !.approved = listed,
                                                  !.version = definition[n]]]
    /\ UNCHANGED <<definition, pendingStarts, session, entry, crowded>>

\* expectedFingerprint, against what was looked up before the wait
Unchanged(c) == call[c].version = call[c].approved

\* The rest of startSession, up to startDebugging.
Checked(c) ==
    /\ call[c].at = "checking"
    /\ IF Unchanged(c)
       THEN /\ call' = [call EXCEPT ![c].at = "starting"]
            /\ pendingStarts' = Append(pendingStarts, c)
            /\ entry' = [entry EXCEPT ![c] = "running"]
       ELSE /\ call' = [call EXCEPT ![c].at = "refused"]
            /\ UNCHANGED <<pendingStarts, entry>>
    /\ UNCHANGED <<definition, session, crowded>>

\* Mutant: the oldest pending start is taken whatever its name.
FirstPending(name) == IF pendingStarts = <<>> THEN Nil ELSE Head(pendingStarts)
\* #pendingStarts.findIndex
PendingFor(name) ==
    LET namesakes == Where(pendingStarts, {c \in Calls : call[c].name = name})
    IN IF namesakes = <<>> THEN Nil ELSE Head(namesakes)

\* #startSession of a session that VS Code starts for a call, or for the user
SessionStarts(s, by, name) ==
    /\ session[s].at = "none" /\ \A earlier \in 1..(s - 1) : session[earlier].at # "none"
    /\ by # User => call[by].at = "starting" /\ call[by].name = name /\ call[by].own = Nil
    /\ LET pending == PendingFor(name)
       IN /\ pendingStarts' = Where(pendingStarts, Calls \ {pending})
          /\ session' = [session EXCEPT ![s] = [at |-> "live", name |-> name, by |-> by, entry |-> pending,
                                                version |-> definition[name]]]
          /\ entry' = IF pending = Nil THEN entry ELSE [entry EXCEPT ![pending] = "running"]
    /\ call' = IF by = User THEN call ELSE [call EXCEPT ![by].own = s]
    /\ crowded' = crowded \cup {c \in Calls \ {by} : call[c].name = name /\ call[c].at = "starting"}
    /\ UNCHANGED definition

\* #startSession of a session that is known: VS Code restarts it under its id.
SessionRestarts(s) ==
    /\ session[s].at = "ended"
    /\ session' = [session EXCEPT ![s].at = "live"]
    /\ UNCHANGED <<definition, call, pendingStarts, entry, crowded>>

\* Mutant: only the entry of a start that is under way is closed.
EntryAfterStart(s) ==
    IF session[s].entry # Nil /\ call[session[s].entry].at = "starting"
    THEN [entry EXCEPT ![session[s].entry] = "succeeded"] ELSE entry
EntryClosed(s) == IF session[s].entry = Nil THEN entry ELSE [entry EXCEPT ![session[s].entry] = "succeeded"]

\* #terminateSession
SessionEnds(s) ==
    /\ session[s].at = "live"
    /\ session' = [session EXCEPT ![s].at = "ended"]
    /\ entry' = EntryClosed(s)
    /\ UNCHANGED <<definition, call, pendingStarts, crowded>>

\* The sessions of a configuration, whose id is made of the root and the name
Namesakes(name) == {s \in Sessions : session[s].name = name}

\* Mutant: the sessions are looked through from the oldest on.
OldestOf(name) == IF Namesakes(name) = {} THEN Nil ELSE Min(Namesakes(name))
NewestOf(name) == IF Namesakes(name) = {} THEN Nil ELSE Max(Namesakes(name))

\* startDebugging answers true: the call is told of the newest session of its configuration.
Started(c) ==
    /\ call[c].at = "starting"
    /\ call' = [call EXCEPT ![c].at = "started", ![c].told = NewestOf(call[c].name)]
    /\ UNCHANGED <<definition, pendingStarts, session, entry, crowded>>

\* startDebugging throws or answers false.
NotStarted(c) ==
    /\ call[c].at = "starting" /\ call[c].own = Nil
    /\ call' = [call EXCEPT ![c].at = "failed"]
    /\ pendingStarts' = Where(pendingStarts, Calls \ {c})
    /\ entry' = [entry EXCEPT ![c] = "failed"]
    /\ UNCHANGED <<definition, session, crowded>>

Next ==
    \/ \E n \in Names : Edit(n)
    \/ \E c \in Calls :
          \/ Checked(c) \/ Started(c) \/ NotStarted(c)
          \/ \E n \in Names, listed \in 0..MaxEdits : Begin(c, n, listed)
    \/ \E s \in Sessions :
          \/ SessionRestarts(s) \/ SessionEnds(s)
          \/ \E by \in Calls \cup {User}, n \in Names : SessionStarts(s, by, n)

Spec == Init /\ [][Next]_vars

(***************************************************************************)
(* Properties                                                              *)
(***************************************************************************)

TypeOK ==
    /\ definition \in [Names -> 0..MaxEdits]
    /\ call \in [Calls -> [at : {"idle", "checking", "refused", "starting", "started", "failed"},
                           name : Names \cup {Nil}, approved : 0..MaxEdits, version : 0..MaxEdits,
                           own : Sessions \cup {Nil}, told : Sessions \cup {Nil}]]
    /\ IsInjective(pendingStarts) /\ Range(pendingStarts) \subseteq Calls
    /\ session \in [Sessions -> [at : {"none", "live", "ended"}, name : Names \cup {Nil},
                                 by : Calls \cup {User, Nil}, entry : Calls \cup {Nil}, version : 0..MaxEdits]]
    /\ entry \in [Calls -> {"none", "running", "failed", "succeeded"}]
    /\ crowded \subseteq Calls

\* startSession, line 309: a call whose session VS Code reported is told of that session, which it
\* will go on to control, unless somebody else started the same name during its start.
ToldOfOwn ==
    \A c \in Calls : call[c].at = "started" /\ call[c].own # Nil /\ c \notin crowded =>
        call[c].told = call[c].own

\* #terminateSession: an entry that says a debug session is running is that of a start that is
\* pending, or of a session that is live; and while nobody else starts the name of a call, its
\* entry is of no other session and says "succeeded" only after that session has ended.
EntryFollowsSession ==
    /\ \A s \in Sessions : session[s].entry # Nil /\ session[s].at = "ended" => entry[session[s].entry] # "running"
    /\ \A c \in Calls \ crowded : call[c].at \in {"starting", "failed"} =>
        /\ \A s \in Sessions : session[s].entry = c => s = call[c].own
        /\ entry[c] = "succeeded" => call[c].own # Nil

=============================================================================
