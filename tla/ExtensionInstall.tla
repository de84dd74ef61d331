--------------------------- MODULE ExtensionInstall ---------------------------
(***************************************************************************)
(* Installing extensions from the Marketplace                              *)
(* (extension-marketplace-service.ts, extension-marketplace-manager.ts):   *)
(* candidates of a search, plans made of a candidate and all that it       *)
(* depends on, and the one application of a plan.                          *)
(*                                                                         *)
(* The Marketplace and VS Code are external: publishers release and        *)
(* withdraw versions, VS Code installs the newest version of an extension  *)
(* with what it needs, and the user installs and removes at will.  A       *)
(* version is a number, 0 for none; an extension and its version decide    *)
(* what it needs.  Ranking, pages and built-in extensions are left out.    *)
(***************************************************************************)
EXTENDS Naturals, Sequences, FiniteSets, Functions

CONSTANTS Extensions, Prepares, Applies, Nil,
          Needs(_, _),     \* dependencies and pack of a version of an extension, in their order
          MaxGraph,        \* MAX_INSTALL_GRAPH
          MaxVersion,      \* bound: versions
          MaxReleases,     \* bound: changes of the Marketplace
          MaxChanges       \* bound: changes by the user

\* What the constants satisfy, for a theorem to assume.
InstallAssumption ==
    /\ Nil \notin Prepares /\ MaxVersion \in Nat \ {0}
    /\ \A e \in Extensions, v \in 0..MaxVersion : Needs(e, v) \in Seq(Extensions)

VARIABLES
    market,      \* the version of each extension that findExact returns
    installed,   \* listInstalledExtensions
    candidates,  \* #candidates
    plan,        \* prepare calls and the plans they made
    apply,       \* apply calls
    releases, changes

vars == <<market, installed, candidates, plan, apply, releases, changes>>

NoPlan == [at |-> "idle", candidate |-> Nil, result |-> <<>>, queue |-> <<>>, wanted |-> <<>>,
           changed |-> {}]   \* history: extensions changed since it was ready, but not by this plan
NoApply == [at |-> "idle", plan |-> Nil, unchecked |-> <<>>,
            asked |-> FALSE, gave |-> {}, replaced |-> {}, quiet |-> TRUE]   \* history

Init ==
    /\ market = [e \in Extensions |-> 1] /\ installed = [e \in Extensions |-> 0]
    /\ candidates = {}
    /\ plan = [p \in Prepares |-> NoPlan]
    /\ apply = [x \in Applies |-> NoApply]
    /\ releases = 0 /\ changes = 0

(***************************************************************************)
(* Surroundings                                                            *)
(***************************************************************************)

\* A publisher releases or withdraws a version.
Release(e, v) ==
    /\ releases < MaxReleases /\ market[e] # v
    /\ market' = [market EXCEPT ![e] = v] /\ releases' = releases + 1
    /\ apply' = [x \in Applies |-> [apply[x] EXCEPT !.quiet = @ /\ apply[x].at \notin {"checking", "asking"}]]
    /\ UNCHANGED <<installed, candidates, plan, changes>>

\* The user, or an update, installs a version or removes it.
UserChanges(e, v) ==
    /\ changes < MaxChanges /\ installed[e] # v
    /\ installed' = [installed EXCEPT ![e] = v] /\ changes' = changes + 1
    /\ plan' = [p \in Prepares |-> [plan[p] EXCEPT !.changed = IF plan[p].at = "idle" THEN @ ELSE @ \cup {e}]]
    /\ UNCHANGED <<market, candidates, apply, releases>>

(***************************************************************************)
(* Search and plans                                                        *)
(***************************************************************************)

Member(e, v) == [extension |-> e, version |-> v]

\* search: what the Marketplace has, and what is installed and not there
Search ==
    /\ candidates' = candidates \cup
          {Member(e, IF market[e] > 0 THEN market[e] ELSE installed[e]) :
              e \in {f \in Extensions : market[f] > 0 \/ installed[f] > 0}}
    /\ UNCHANGED <<market, installed, plan, apply, releases, changes>>

CandidateExpires(c) ==
    /\ candidates' = candidates \ {c}
    /\ UNCHANGED <<market, installed, plan, apply, releases, changes>>

PlanExpires(p) ==
    /\ plan[p].at = "ready"
    /\ plan' = [plan EXCEPT ![p].at = "expired"]
    /\ UNCHANGED <<market, installed, candidates, apply, releases, changes>>

Prepare(p, c) ==
    /\ plan[p].at = "idle"
    /\ plan' = [plan EXCEPT ![p] = [NoPlan EXCEPT !.at = "primary", !.candidate = c]]
    /\ UNCHANGED <<market, installed, candidates, apply, releases, changes>>

\* prepare, when the Marketplace answers for the candidate
Primary(p) ==
    /\ plan[p].at = "primary"
    /\ LET chosen == plan[p].candidate
       IN plan' = IF market[chosen.extension] = chosen.version /\ chosen.version > 0
                  THEN [plan EXCEPT ![p].at = "resolving", ![p].queue = <<chosen>>]
                  ELSE [plan EXCEPT ![p].at = "refused"]
    /\ UNCHANGED <<market, installed, candidates, apply, releases, changes>>

Visited(p, e) == \E n \in DOMAIN plan[p].result : plan[p].result[n].extension = e

\* #resolveGraph: the next member leaves the queue
Expand(p) ==
    /\ plan[p].at = "resolving" /\ plan[p].wanted = <<>> /\ plan[p].queue # <<>>
    /\ LET next == Head(plan[p].queue)
           rest == [plan[p] EXCEPT !.queue = Tail(@)]
       IN plan' = [plan EXCEPT ![p] =
             IF Visited(p, next.extension) THEN rest
             ELSE IF Len(plan[p].result) = MaxGraph THEN [rest EXCEPT !.at = "refused"]
             ELSE [rest EXCEPT !.result = Append(@, next), !.wanted = Needs(next.extension, next.version)]]
    /\ UNCHANGED <<market, installed, candidates, apply, releases, changes>>

\* #resolveGraph: the Marketplace answers for a dependency
Resolve(p) ==
    /\ plan[p].at = "resolving" /\ plan[p].wanted # <<>>
    /\ LET e == Head(plan[p].wanted)
           rest == [plan[p] EXCEPT !.wanted = Tail(@)]
       IN plan' = [plan EXCEPT ![p] =
             IF Visited(p, e) THEN rest
             ELSE IF market[e] = 0 THEN [rest EXCEPT !.at = "refused"]
             ELSE [rest EXCEPT !.queue = Append(@, Member(e, market[e]))]]
    /\ UNCHANGED <<market, installed, candidates, apply, releases, changes>>

\* assertNoVersionChanges
Unchanging(graph) == \A n \in DOMAIN graph : installed[graph[n].extension] \in {0, graph[n].version}

Ready(p) ==
    /\ plan[p].at = "resolving" /\ plan[p].wanted = <<>> /\ plan[p].queue = <<>>
    /\ plan' = [plan EXCEPT ![p].at = IF Unchanging(plan[p].result) THEN "ready" ELSE "refused", ![p].changed = {}]
    /\ UNCHANGED <<market, installed, candidates, apply, releases, changes>>

(***************************************************************************)
(* Application                                                             *)
(***************************************************************************)

\* Mutant: only the extension itself is looked up again.
PrimaryOnly(p) == SubSeq(plan[p].result, 1, 1)
ToCheck(p) == plan[p].result

\* apply, up to the first question to the Marketplace
Apply(x, p) ==
    /\ apply[x].at = "idle" /\ plan[p].at \in {"ready", "used", "expired"}
    /\ IF plan[p].at = "ready"
       THEN /\ apply' = [apply EXCEPT ![x].at = "checking", ![x].plan = p, ![x].unchecked = ToCheck(p)]
            /\ plan' = [plan EXCEPT ![p].at = "used"]
       ELSE apply' = [apply EXCEPT ![x].at = "refused"] /\ UNCHANGED plan
    /\ UNCHANGED <<market, installed, candidates, releases, changes>>

Target(x) == Head(plan[apply[x].plan].result)

\* apply: the Marketplace answers for a member; after the last one VS Code is asked.
Check(x) ==
    /\ apply[x].at = "checking"
    /\ LET member == Head(apply[x].unchecked)
           rest == Tail(apply[x].unchecked)
           next == IF market[member.extension] # member.version THEN "refused"
                   ELSE IF rest # <<>> THEN "checking"
                   ELSE IF installed[Target(x).extension] = Target(x).version THEN "alreadyInstalled"
                   ELSE "asking"
       IN apply' = [apply EXCEPT ![x].at = next, ![x].unchecked = rest]
    /\ UNCHANGED <<market, installed, candidates, plan, releases, changes>>

\* VS Code has no such command, or it throws.
Declined(x, status) ==
    /\ apply[x].at = "asking"
    /\ apply' = [apply EXCEPT ![x].at = status]
    /\ UNCHANGED <<market, installed, candidates, plan, releases, changes>>

\* What VS Code installs: the newest version and whatever it needs that is not there
Closed(all) ==
    \A d \in all : market[d] > 0 => \A need \in Range(Needs(d, market[d])) : installed[need] > 0 \/ need \in all
Bundle(e) == {d \in Extensions : \A all \in SUBSET Extensions : e \in all /\ Closed(all) => d \in all}

Installs(x) ==
    /\ apply[x].at = "asking"
    /\ LET all == Bundle(Target(x).extension)
       IN
       /\ \A d \in all : market[d] > 0
       /\ installed' = [d \in Extensions |-> IF d \in all THEN market[d] ELSE installed[d]]
       /\ apply' = [apply EXCEPT ![x].at = "waiting", ![x].asked = TRUE,
                                 ![x].gave = {Member(d, market[d]) : d \in all},
                                 ![x].replaced = {d \in all : installed[d] \notin {0, market[d]}}]
       /\ plan' = [p \in Prepares |-> IF p = apply[x].plan THEN plan[p]
                                      ELSE [plan[p] EXCEPT !.changed = @ \cup all]]
    /\ UNCHANGED <<market, candidates, releases, changes>>

\* The version is not seen before a reload.
InstallsLater(x) ==
    /\ apply[x].at = "asking"
    /\ apply' = [apply EXCEPT ![x].at = "waiting", ![x].asked = TRUE]
    /\ UNCHANGED <<market, installed, candidates, plan, releases, changes>>

\* waitForInstalledVersion, when it has seen the version or has given up
Waited(x) ==
    /\ apply[x].at = "waiting"
    /\ apply' = [apply EXCEPT ![x].at = IF installed[Target(x).extension] = Target(x).version
                                        THEN "installed" ELSE "pendingReload"]
    /\ UNCHANGED <<market, installed, candidates, plan, releases, changes>>

Next ==
    \/ Search \/ \E c \in candidates : CandidateExpires(c)
    \/ \E e \in Extensions, v \in 0..MaxVersion : Release(e, v) \/ UserChanges(e, v)
    \/ \E p \in Prepares :
          \/ PlanExpires(p) \/ Primary(p) \/ Expand(p) \/ Resolve(p) \/ Ready(p)
          \/ \E c \in candidates : Prepare(p, c)
    \/ \E x \in Applies :
          \/ Check(x) \/ Installs(x) \/ InstallsLater(x) \/ Waited(x)
          \/ \E p \in Prepares : Apply(x, p)
          \/ \E status \in {"userActionRequired", "pendingUserTrust"} : Declined(x, status)

Spec == Init /\ [][Next]_vars

(***************************************************************************)
(* Properties                                                              *)
(***************************************************************************)

TypeOK ==
    LET members == [extension : Extensions, version : 0..MaxVersion]
    IN /\ market \in [Extensions -> 0..MaxVersion] /\ installed \in [Extensions -> 0..MaxVersion]
       /\ candidates \subseteq members
       /\ \A p \in Prepares :
             /\ plan[p].at \in {"idle", "primary", "resolving", "refused", "ready", "used", "expired"}
             /\ Range(plan[p].result) \cup Range(plan[p].queue) \subseteq members
             /\ Range(plan[p].wanted) \cup plan[p].changed \subseteq Extensions
       /\ \A x \in Applies :
             /\ apply[x].plan \in Prepares \cup {Nil} /\ apply[x].gave \subseteq members
             /\ Range(apply[x].unchecked) \subseteq members

\* prepare, apply: a plan is carried out once, whoever applies it; while the Marketplace stays
\* as it was checked, all that VS Code installs for it is in the plan, with the version
\* of the plan; and what it replaces is what was changed otherwise since it was prepared
\* (apply does not look at the installed versions again).
InstallsAsPlanned ==
    /\ \A x, y \in Applies : apply[x].asked /\ apply[y].asked /\ apply[x].plan = apply[y].plan => x = y
    /\ \A x \in Applies : apply[x].asked =>
          /\ apply[x].quiet => apply[x].gave \subseteq Range(plan[apply[x].plan].result)
          /\ apply[x].quiet => apply[x].replaced \subseteq plan[apply[x].plan].changed
=============================================================================
