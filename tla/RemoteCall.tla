----------------------------- MODULE RemoteCall -----------------------------
(***************************************************************************)
(* What a tool call across the bridge promises its caller: the work is     *)
(* begun at most once; a call that says it succeeded has done it; one that *)
(* was refused, or cancelled before it was sent, never does it.  A caller  *)
(* that gives up, or is told of a failure, does not know.                  *)
(***************************************************************************)
CONSTANT Calls

VARIABLES answer,     \* what the caller was told
          begun,      \* calls whose work was begun
          completed   \* calls whose work is done

Final == {"refused", "unsent"}

Init == answer = [c \in Calls |-> "none"] /\ begun = {} /\ completed = {}

Begin(c) ==
    /\ c \notin begun /\ answer[c] \notin Final
    /\ begun' = begun \cup {c}
    /\ UNCHANGED <<answer, completed>>

Complete(c) ==
    /\ c \in begun \ completed
    /\ completed' = completed \cup {c}
    /\ UNCHANGED <<answer, begun>>

Answer(c, a) ==
    /\ answer[c] = "none"
    /\ a = "ok" => c \in completed
    /\ a \in Final => c \notin begun
    /\ answer' = [answer EXCEPT ![c] = a]
    /\ UNCHANGED <<begun, completed>>

Next ==
    \/ \E c \in Calls : Begin(c) \/ Complete(c)
    \/ \E c \in Calls, a \in Final \cup {"ok", "unknown"} : Answer(c, a)

Spec == Init /\ [][Next]_<<answer, begun, completed>>
=============================================================================
