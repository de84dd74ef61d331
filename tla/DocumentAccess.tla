---------------------------- MODULE DocumentAccess ----------------------------
(***************************************************************************)
(* Documents outside the workspace (packages/vscode-extension/src/         *)
(* document-access-controller.ts, document-access-grants.ts and the        *)
(* location requests of language-services.ts).                             *)
(*                                                                         *)
(* A call may read a document that is open in VS Code, one inside the      *)
(* workspace, or one it holds a grant for.  A grant is issued for every    *)
(* location that a provider returns outside of both; it expires, and the   *)
(* oldest go when there are too many.  Whether a path is inside the        *)
(* workspace takes a while to find out, and calls overlap.                 *)
(*                                                                         *)
(* Data abstractions: a document is its URI and, where it has one, its     *)
(* canonical path; the clock never goes back; there is a local workspace   *)
(* folder.  Positions, errors of the file system other than "not there"    *)
(* and what is read of a document are left out.                            *)
(***************************************************************************)
EXTENDS Integers, Filters, FiniteSets

CONSTANTS Calls, Documents, Nil,
          Inside,       \* the documents whose canonical path is in the workspace
          MaxGrants,    \* MAX_DOCUMENT_ACCESS_GRANTS
          TTL,          \* DOCUMENT_ACCESS_GRANT_TTL_MS
          Visible,      \* params.limit
          MaxLocations, \* bound: locations of a provider's result
          MaxTime       \* bound

AccessAssumption ==
    /\ Inside \subseteq Documents /\ Nil \notin Documents
    /\ {MaxGrants, TTL, Visible, MaxLocations, MaxTime} \subseteq Nat /\ MaxGrants > 0

VARIABLES
    open,    \* vscode.workspace.textDocuments
    grants,  \* #entries, in the order of their creation
    request, \* each call: where it is, its document, the grant it shows, what its locations got
    created,  \* history: every grant in the order of its creation
    now

vars == <<open, grants, request, created, now>>

Grant == [id : Calls \X (1..MaxLocations), uri : Documents, at : 0..MaxTime]
Waiting(uri) == [uri |-> uri]

TypeOK ==
    /\ open \subseteq Documents
    /\ grants \in Seq(Grant) /\ Len(grants) <= MaxGrants
    /\ created \in Seq(Grant)
    /\ now \in 0..MaxTime
    /\ \A c \in Calls :
          /\ request[c].at \in {"idle", "checking", "opening", "opened", "granting",
                                "answered", "refused", "failed"}
          /\ request[c].at # "idle" => request[c].uri \in Documents
          /\ request[c].shown \in Grant \cup {Nil}
          /\ \A i \in DOMAIN request[c].locations :
                request[c].locations[i] \in Grant \cup {Nil} \cup {Waiting(u) : u \in Documents}

Init ==
    /\ open = {} /\ grants = <<>> /\ created = <<>> /\ now = 0
    /\ request = [c \in Calls |-> [at |-> "idle", uri |-> Nil, shown |-> Nil, locations |-> <<>>]]

-----------------------------------------------------------------------------
(* The store of the grants.                                                *)

Expired(grant) == grant.at + TTL <= now
Live == {grant \in Grant : ~Expired(grant)}

\* Mutant: the newest goes.
PrunedOfNewest(s) ==
    LET live == Where(s, Live)
    IN  IF Len(live) <= MaxGrants THEN live ELSE SubSeq(live, 1, MaxGrants)

Pruned(s) ==
    LET live == Where(s, Live)
        excess == Len(live) - MaxGrants
    IN  IF excess <= 0 THEN live ELSE SubSeq(live, excess + 1, Len(live))

Issue(grant) ==
    /\ grants' = Pruned(Append(Pruned(grants), grant))
    /\ created' = Append(created, grant)

Held(grant) == \E i \in DOMAIN grants : grants[i] = grant

\* Is the grant that is shown good for this document?  An expired one is removed.
Authorizes(grant, uri) == grant # Nil /\ Held(grant) /\ grant.uri = uri /\ ~Expired(grant)
AfterLookup(grant, uri) ==
    IF grant.uri = uri /\ Expired(grant) THEN Where(grants, Grant \ {grant}) ELSE grants

-----------------------------------------------------------------------------
(* A call asks for a document.                                             *)

\* The grants a client has seen.
Returned(c) == {request[c].locations[i] : i \in 1..Visible \cap DOMAIN request[c].locations} \ {Nil}
Known == UNION {Returned(c) : c \in {d \in Calls : request[d].at = "answered"}}

Ask(c, uri, grant) ==
    /\ request[c].at = "idle"
    /\ request' = [request EXCEPT ![c] =
          [@ EXCEPT !.at = IF uri \in open THEN "opened" ELSE "checking",
                    !.uri = uri, !.shown = grant]]
    /\ UNCHANGED <<open, grants, created, now>>

\* The path has been checked; only then is the grant looked up.
Authorize(c) ==
    LET uri == request[c].uri
        grant == request[c].shown
    IN  /\ request[c].at = "checking"
        /\ request' = [request EXCEPT ![c].at =
              IF uri \notin Inside /\ ~Authorizes(grant, uri) THEN "refused"
              ELSE IF uri \in open THEN "opened" ELSE "opening"]
        /\ grants' = IF uri \in Inside \/ grant = Nil THEN grants ELSE AfterLookup(grant, uri)
        /\ UNCHANGED <<open, created, now>>

Opened(c) ==
    /\ request[c].at = "opening"
    /\ open' = open \cup {request[c].uri}
    /\ request' = [request EXCEPT ![c].at = "opened"]
    /\ UNCHANGED <<grants, created, now>>

OpenFails(c) ==
    /\ request[c].at = "opening"
    /\ request' = [request EXCEPT ![c].at = "failed"]
    /\ UNCHANGED <<open, grants, created, now>>

-----------------------------------------------------------------------------
(* getLocations: a grant for every location, also for those past the limit. *)

Provide(c, result) ==
    /\ request[c].at = "opened"
    /\ request' = [request EXCEPT ![c] =
          [@ EXCEPT !.at = "granting",
                    !.locations = [i \in DOMAIN result |->
                        IF result[i] \in open THEN Nil ELSE Waiting(result[i])]]]
    /\ UNCHANGED <<open, grants, created, now>>

Unresolved(c) == {i \in DOMAIN request[c].locations :
                    request[c].locations[i] \in {Waiting(u) : u \in Documents}}

\* grantProviderResult, in any order of the locations
GrantLocation(c, i) ==
    LET uri == request[c].locations[i].uri
        grant == [id |-> <<c, i>>, uri |-> uri, at |-> now]
    IN  /\ request[c].at = "granting" /\ i \in Unresolved(c)
        /\ request' = [request EXCEPT ![c].locations[i] = IF uri \in Inside THEN Nil ELSE grant]
        /\ IF uri \in Inside THEN UNCHANGED <<grants, created>> ELSE Issue(grant)
        /\ UNCHANGED <<open, now>>

Answer(c) ==
    /\ request[c].at = "granting" /\ Unresolved(c) = {}
    /\ request' = [request EXCEPT ![c].at = "answered"]
    /\ UNCHANGED <<open, grants, created, now>>

-----------------------------------------------------------------------------
(* VS Code and the clock.                                                  *)

\* The user opens and closes documents; VS Code closes one that nobody looks at.
DocumentsChange(uri) ==
    /\ open' = IF uri \in open THEN open \ {uri} ELSE open \cup {uri}
    /\ UNCHANGED <<grants, request, created, now>>

Tick ==
    /\ now < MaxTime /\ now' = now + 1
    /\ UNCHANGED <<open, grants, request, created>>

Next ==
    \/ \E c \in Calls :
          \/ \E uri \in Documents, grant \in Known \cup {Nil} : Ask(c, uri, grant)
          \/ \E n \in 0..MaxLocations : \E result \in [1..n -> Documents] : Provide(c, result)
          \/ Authorize(c) \/ Opened(c) \/ OpenFails(c) \/ Answer(c)
          \/ \E i \in 1..MaxLocations : GrantLocation(c, i)
    \/ \E uri \in Documents : DocumentsChange(uri)
    \/ Tick

Spec == Init /\ [][Next]_vars

-----------------------------------------------------------------------------
(* Properties.                                                             *)

Place(grant) == CHOOSE i \in DOMAIN created : created[i] = grant

\* A grant that a client was given opens its document until it expires, whatever other calls
\* do meanwhile and however long the path check before the lookup takes; only MaxGrants newer
\* ones displace it (document-access-grants.ts:28-70, document-access-controller.ts:27-54).
GrantsHold ==
    \A c \in Calls :
       \A grant \in IF request[c].at = "answered" THEN Returned(c) ELSE {} :
          Authorizes(grant, grant.uri) \/ Expired(grant)
          \/ Len(created) - Place(grant) >= MaxGrants
=============================================================================
