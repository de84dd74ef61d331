------------------------------ MODULE CodeActions ------------------------------
(***************************************************************************)
(* Edits that a provider computes for an agent (ide-autonomy-manager.ts):  *)
(* listing, keeping and applying code actions, and formatting.  Change     *)
(* sets are those of ChangeSet, reduced to what a code action uses: they   *)
(* remember the documents they were prepared for and are applied once.     *)
(*                                                                         *)
(* The text of a document is the number of its changes, so equal numbers   *)
(* are equal versions and hashes.  A provider is external: it answers with *)
(* any edits, computed for the texts of one moment.  A document that VS    *)
(* Code holds is read at once, another one is awaited.                     *)
(***************************************************************************)
EXTENDS Naturals, FiniteSets, Functions

CONSTANTS Docs, Nil,
          Lists,      \* calls of listCodeActions
          Formats,    \* calls of formatDocument
          Offers,     \* the code actions of a provider: the documents of a text edit,
                      \* or none for a command or a disabled action
          MaxChanges  \* bound: changes of documents by others

OffersAssumption == Offers \subseteq SUBSET Docs /\ MaxChanges \in Nat

Handles == Lists \X Offers

VARIABLES
    text,     \* document -> number of its changes
    held,     \* documents that VS Code holds
    list,     \* listCodeActions calls
    handle,   \* #actions, with the change set of each
    format,   \* formatDocument calls
    changes

vars == <<text, held, list, handle, format, changes>>

Nowhere == [d \in Docs |-> 0]
NoList == [at |-> "idle", base |-> Nil, expected |-> 0, saw |-> Nowhere, offers |-> {}]
NoHandle == [at |-> "none", captured |-> <<>>,
             moved |-> {}]   \* history: documents changed after the provider read them
NoFormat == [at |-> "idle", doc |-> Nil, expected |-> 0, saw |-> 0]

Init ==
    /\ text = Nowhere /\ held \in SUBSET Docs
    /\ list = [l \in Lists |-> NoList]
    /\ handle = [h \in Handles |-> NoHandle]
    /\ format = [f \in Formats |-> NoFormat]
    /\ changes = 0

Base(h) == list[h[1]].base
EditedBy(h) == h[2]

(***************************************************************************)
(* Everyone else                                                           *)
(***************************************************************************)

\* Some documents change, those of one edit at once.
Changed(ds) == [d \in Docs |-> IF d \in ds THEN text[d] + 1 ELSE text[d]]

\* A change between the provider's reading and the reading of the document here
Noted(ds) ==
    [h \in Handles |->
        IF list[h[1]].at \in {"computed", "preparing"}
        THEN [handle[h] EXCEPT !.moved = @ \cup (ds \ DOMAIN handle[h].captured)]
        ELSE handle[h]]

UserChanges(d) ==
    /\ changes < MaxChanges /\ changes' = changes + 1
    /\ text' = Changed({d}) /\ held' = held \cup {d} /\ handle' = Noted({d})
    /\ UNCHANGED <<list, format>>

(***************************************************************************)
(* listCodeActions                                                         *)
(***************************************************************************)

Forgotten == [NoHandle EXCEPT !.at = "forgotten"]

\* #purgeOldActions
Purged ==
    [h \in Handles |-> IF handle[h].at \in {"applied", "expired"} THEN Forgotten ELSE handle[h]]

\* listCodeActions of a document whose text the caller knows, up to the provider
List(l, d) ==
    /\ list[l].at = "idle" /\ d \in held
    /\ list' = [list EXCEPT ![l] = [NoList EXCEPT !.at = "asked", !.base = d, !.expected = text[d]]]
    /\ handle' = Purged
    /\ UNCHANGED <<text, held, format, changes>>

ProviderReads(l, offers) ==
    /\ list[l].at = "asked"
    /\ list' = [list EXCEPT ![l].at = "computed", ![l].saw = text, ![l].offers = offers]
    /\ UNCHANGED <<text, held, handle, format, changes>>

\* assertExpectedDocument
Expected(d, expected) == text[d] = expected

\* #prepareCodeAction of one action, as far as its documents are known; an action without a
\* text edit is kept as unsupported. The change set checks the documents again when
\* the last of them has come.
Prepared(h, captured) ==
    IF EditedBy(h) = {} THEN "unsupported"
    ELSE IF DOMAIN captured # EditedBy(h) THEN "resolving"
    ELSE IF \A d \in EditedBy(h) : Expected(d, captured[d]) THEN "available"
    ELSE "unsupported"

Captures(h, ds) ==
    LET captured == [d \in DOMAIN handle[h].captured \cup ds |->
                        IF d \in DOMAIN handle[h].captured THEN handle[h].captured[d] ELSE text[d]]
    IN [handle[h] EXCEPT !.captured = captured, !.at = Prepared(h, captured)]

Answered(l) ==
    /\ list[l].at = "computed"
    /\ IF Expected(list[l].base, list[l].expected)
       THEN /\ list' = [list EXCEPT ![l].at = "preparing"]
            /\ handle' = [h \in Handles |->
                  IF h[1] = l /\ h[2] \in list[l].offers THEN Captures(h, EditedBy(h) \cap held)
                  ELSE handle[h]]
       ELSE list' = [list EXCEPT ![l].at = "refused"] /\ UNCHANGED handle
    /\ UNCHANGED <<text, held, format, changes>>

\* resolveExistingDocument: a document has been opened, for every action that awaits it.
Opened(d) ==
    /\ d \notin held /\ \E h \in Handles : handle[h].at = "resolving" /\ d \in EditedBy(h)
    /\ held' = held \cup {d}
    /\ handle' = [h \in Handles |-> IF handle[h].at = "resolving" /\ d \in EditedBy(h)
                                    THEN Captures(h, {d}) ELSE handle[h]]
    /\ UNCHANGED <<text, list, format, changes>>

\* ... or cannot be opened.
OpenFails(h) ==
    /\ handle[h].at = "resolving"
    /\ handle' = [handle EXCEPT ![h].at = "unsupported"]
    /\ UNCHANGED <<text, held, list, format, changes>>

\* The summaries leave when every action is settled.
Returned(l) ==
    /\ list[l].at = "preparing" /\ \A o \in list[l].offers : handle[<<l, o>>].at # "resolving"
    /\ list' = [list EXCEPT ![l].at = "returned"]
    /\ UNCHANGED <<text, held, handle, format, changes>>

Expires(h) ==
    /\ handle[h].at \in {"available", "unsupported"}
    /\ handle' = [handle EXCEPT ![h] = [NoHandle EXCEPT !.at = "expired"]]
    /\ UNCHANGED <<text, held, list, format, changes>>

(***************************************************************************)
(* applyCodeAction                                                         *)
(***************************************************************************)

\* Mutant: the document it was listed for is not looked at.
GuardByTargets(h) == TRUE
\* The document it was listed for has not changed.
Guard(h) == Expected(Base(h), list[h[1]].expected)

\* The handle is consumed; all its documents are held and checked before the edit leaves.
ApplyCodeAction(h) ==
    /\ list[h[1]].at = "returned" /\ handle[h].at \in {"available", "unsupported", "expired"}
    /\ handle' = [handle EXCEPT ![h].at =
          IF /\ handle[h].at = "available" /\ Guard(h)
             /\ \A d \in EditedBy(h) : Expected(d, handle[h].captured[d])
          THEN "sent" ELSE "applied"]
    /\ UNCHANGED <<text, held, list, format, changes>>

\* VS Code refuses the edit when a document has moved on.
ActionLands(h) ==
    /\ handle[h].at = "sent"
    /\ IF \A d \in EditedBy(h) : text[d] = handle[h].captured[d]
       THEN /\ text' = Changed(EditedBy(h))
            /\ handle' = [Noted(EditedBy(h)) EXCEPT ![h].at = "applied"]
       ELSE handle' = [handle EXCEPT ![h].at = "applied"] /\ UNCHANGED text
    /\ UNCHANGED <<held, list, format, changes>>

(***************************************************************************)
(* formatDocument                                                          *)
(***************************************************************************)

Format(f, d) ==
    /\ format[f].at = "idle" /\ d \in held
    /\ format' = [format EXCEPT ![f] = [at |-> "asked", doc |-> d, expected |-> text[d], saw |-> text[d]]]
    /\ UNCHANGED <<text, held, list, handle, changes>>

FormatterReads(f) ==
    /\ format[f].at = "asked"
    /\ format' = [format EXCEPT ![f].at = "computed", ![f].saw = text[format[f].doc]]
    /\ UNCHANGED <<text, held, list, handle, changes>>

\* The text is compared again; without edits the call ends, and an edit leaves at once.
FormatterAnswers(f, at) ==
    /\ format[f].at = "computed" /\ at \in {"sent", "done"}
    /\ format' = [format EXCEPT ![f].at = IF Expected(format[f].doc, format[f].expected) THEN at ELSE "done"]
    /\ UNCHANGED <<text, held, list, handle, changes>>

FormatLands(f) ==
    LET d == format[f].doc
    IN /\ format[f].at = "sent"
       /\ format' = [format EXCEPT ![f].at = "done"]
       /\ IF text[d] = format[f].expected
          THEN text' = Changed({d}) /\ handle' = Noted({d})
          ELSE UNCHANGED <<text, handle>>
       /\ UNCHANGED <<held, list, changes>>

Next ==
    \/ \E d \in Docs :
          \/ UserChanges(d) \/ Opened(d)
          \/ \E l \in Lists : List(l, d)
          \/ \E f \in Formats : Format(f, d)
    \/ \E l \in Lists : Answered(l) \/ Returned(l) \/ \E offers \in SUBSET Offers : ProviderReads(l, offers)
    \/ \E h \in Handles : OpenFails(h) \/ Expires(h) \/ ApplyCodeAction(h) \/ ActionLands(h)
    \/ \E f \in Formats :
          \/ FormatterReads(f) \/ FormatLands(f) \/ \E at \in {"sent", "done"} : FormatterAnswers(f, at)

Spec == Init /\ [][Next]_vars

(***************************************************************************)
(* Properties                                                              *)
(***************************************************************************)

TypeOK ==
    LET texts == 0..(MaxChanges + Cardinality(Handles) + Cardinality(Formats))
    IN /\ text \in [Docs -> texts] /\ held \subseteq Docs
       /\ \A l \in Lists :
             /\ list[l].at \in {"idle", "asked", "computed", "preparing", "refused", "returned"}
             /\ list[l].base \in Docs \cup {Nil} /\ list[l].offers \subseteq Offers
       /\ \A h \in Handles :
             /\ handle[h].at \in {"none", "resolving", "unsupported", "available", "sent", "applied",
                               "expired", "forgotten"}
             /\ DOMAIN handle[h].captured \subseteq EditedBy(h) /\ handle[h].moved \subseteq Docs
       /\ \A f \in Formats : format[f].at \in {"idle", "asked", "computed", "sent", "done"}

\* applyCodeAction, formatDocument: an edit lands on the texts its provider has seen. Excepted is a
\* document other than the one listed, when it changed before it was first
\* looked at: its guard is taken from the changed text. The document of the list is the one
\* that was listed when the edit leaves, also when the edit is of another.
ProviderSawIt ==
    [][/\ \A h \in Handles : ActionLands(h) /\ text' # text =>
             \A d \in EditedBy(h) :
                 \/ text[d] = list[h[1]].saw[d]
                 \/ d # Base(h) /\ d \in handle[h].moved
       /\ \A h \in Handles : handle[h].at # "sent" /\ handle'[h].at = "sent" =>
             text[Base(h)] = list[h[1]].saw[Base(h)]
       /\ \A f \in Formats : FormatLands(f) /\ text' # text =>
             text[format[f].doc] = format[f].saw]_vars
=============================================================================
