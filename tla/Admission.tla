----------------------------- MODULE Admission -----------------------------
(***************************************************************************)
(* What the MCP daemon promises about the work it admits, without saying   *)
(* how: bounded slots, a slot kept for as long as the operation behind it  *)
(* runs, one decision and at most one answer per call.  HttpRuntime is     *)
(* shown to implement it.  The promise is that of                          *)
(* docs/agent-handbook/modules/mcp-server.md:32 and docs/adr/0022.         *)
(***************************************************************************)
EXTENDS Integers, FiniteSets

CONSTANTS Calls, Sessions, MaxPerSession, MaxGlobal

VARIABLES
    held,      \* per session, the calls that hold a slot
    busy,      \* calls whose operation runs
    decided,   \* calls that were admitted or refused
    answered   \* calls whose stream got its answer

vars == <<held, busy, decided, answered>>

Holders == UNION {held[s] : s \in Sessions}

Init ==
    /\ held = [s \in Sessions |-> {}]
    /\ busy = {} /\ decided = {} /\ answered = {}

\* A call gets a slot only while its session and the process have one to give.
Admit(c, s) ==
    /\ c \notin decided
    /\ Cardinality(held[s]) < MaxPerSession
    /\ Cardinality(Holders) < MaxGlobal
    /\ held' = [held EXCEPT ![s] = @ \cup {c}]
    /\ decided' = decided \cup {c}
    /\ UNCHANGED <<busy, answered>>

Refuse(c) ==
    /\ c \notin decided
    /\ decided' = decided \cup {c}
    /\ UNCHANGED <<held, busy, answered>>

Begin(c) ==
    /\ c \in Holders \ busy
    /\ busy' = busy \cup {c}
    /\ UNCHANGED <<held, decided, answered>>

\* The slot is given back in the step that ends the operation, or without one.
Release(c) ==
    /\ c \in Holders
    /\ held' = [s \in Sessions |-> held[s] \ {c}]
    /\ busy' = busy \ {c}
    /\ UNCHANGED <<decided, answered>>

\* Answers never release a slot, and are given once.
Answer(calls) ==
    /\ calls \subseteq decided \ answered
    /\ answered' = answered \cup calls
    /\ UNCHANGED <<held, busy, decided>>

Next ==
    \/ \E c \in Calls :
         \/ \E s \in Sessions : Admit(c, s)
         \/ Refuse(c) \/ Begin(c) \/ Release(c)
    \/ \E calls \in SUBSET Calls : Answer(calls)

Spec == Init /\ [][Next]_vars
=============================================================================
