---------------------------- MODULE MCChangeSet ----------------------------
(***************************************************************************)
(* Edits of a window on small instances: change sets (ChangeSet), and the  *)
(* edits of providers that become change sets (CodeActions).  A behaviour  *)
(* of this module is a behaviour of one of them while the other stays as   *)
(* it began.                                                               *)
(***************************************************************************)
EXTENDS ChangeSet, TLC

CONSTANTS d1, d2, p1, p2, p3, s1, s2, r1, r2,
          ActionDocs, Opened1, Opened2, Lists, Formats, Offers, MaxChanges

VARIABLES part, text, held, list, handle, format, changes

\* Plans that meet on all three paths and undo one another's preconditions.
MCPlans == {
    <<[op |-> "rename", path |-> p1, target |-> p2], [op |-> "create", path |-> p3]>>,
    <<[op |-> "create", path |-> p2], [op |-> "delete", path |-> p1]>>,
    <<[op |-> "delete", path |-> p2], [op |-> "rename", path |-> p3, target |-> p1]>> }

MCTargets == {{d1, d2}}

\* A command, an edit of one document and an edit of both.
MCOffers == {{}, {Opened2}, {Opened1, Opened2}}

Actions == INSTANCE CodeActions WITH Docs <- ActionDocs

ASSUME ActionsAssumption == Actions!OffersAssumption

actionVars == <<text, held, list, handle, format, changes>>

\* The one at rest has a single initial state.
MCInit ==
    /\ part \in {"changeSets", "codeActions"} /\ Init /\ Actions!Init
    /\ part = "changeSets" => held = {}
    /\ part = "codeActions" => (\A d \in Docs : docs[d].open) /\ (\A p \in Paths : fs[p] = Absent)

MCNext ==
    /\ part' = part
    /\ \/ part = "changeSets" /\ Next /\ UNCHANGED actionVars
       \/ part = "codeActions" /\ Actions!Next /\ UNCHANGED vars

MCSpec == MCInit /\ [][MCNext]_<<part, vars, actionVars>>

MCSymmetry == Permutations(Docs) \cup Permutations(Sets) \cup Permutations(Requests)

\* applyCodeAction, formatDocument: an edit lands on what its provider has seen (CodeActions).
ProviderSawIt == Actions!ProviderSawIt
=============================================================================
