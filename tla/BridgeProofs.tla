----------------------------- MODULE BridgeProofs -----------------------------
(***************************************************************************)
(* Proofs about a window and those who call it.  BridgePublication: its    *)
(* variables keep their types, the window follows the policy, and the      *)
(* registry tells the truth unless two things crossed that no queue        *)
(* orders.  BridgeRpc: activity entries tell the truth, and calls keep     *)
(* what RemoteCall promises.  All of it whatever fails, for any number of  *)
(* changes, discoveries, calls, stops and failures.                        *)
(***************************************************************************)
EXTENDS MCBridge, TLAPS

\* Who waits for what: a run in progress is in the queue, at most one refresh
\* is a run's and it is that of the current run, a write belongs to the start
\* or the refresh that waits for it.
Queues ==
    /\ run # "none" => due > 0
    /\ \A i \in DOMAIN refreshes : refreshes[i] = "run" => run = "refresh"
    /\ \A i, j \in DOMAIN refreshes :
          refreshes[i] = refreshes[j] /\ refreshes[i] # "folders" => i = j
    /\ \A i \in DOMAIN refreshes : refreshes[i] = "activate" => phase = "marking"
    /\ write["start"].at # "none" => run = "write"
    /\ write["refresh"].at # "none" => refreshes # <<>>
    /\ phase = "publishing" => due = 1
    /\ phase \in {"storage", "marking", "failed"} => due = 0

\* What the current run has done so far.
Progress ==
    /\ run = "none" => (serving <=> started)
    /\ run \in {"write", "refresh"} => started /\ serving
    /\ run \in {"listen", "undo", "remove"} => ~started /\ ~serving
    /\ run = "close" => ~serving
    /\ run = "undo" => failures > 0
    /\ write["start"].at = "rejected" => failures > 0

\* The last run of the queue does what the policy says, and so did the one
\* before an empty queue.
Decided ==
    ~missed => /\ due = 1 /\ run # "none" /\ allowed => run \notin {"close", "remove"}
               /\ due = 1 /\ run # "none" /\ ~allowed => run \in {"close", "remove"}
               /\ due = 0 => /\ ~allowed => ~started
                             /\ allowed /\ failures = 0 => started

IInv == TypeOK /\ Queues /\ Progress /\ Decided

Writing == [at : {"none", "temporary", "published", "rejected"},
            descriptor : Descriptor \cup {Nil}]
Waiters == {"run", "activate", "folders"}

LEMMA WritesTyped ==
    ASSUME TypeOK
    PROVE  NoWrite \in Writing /\ Captured \in Writing /\ Current \in Descriptor
  BY DEF TypeOK, NoWrite, Captured, Current, Writing, Descriptor

\* Setting the write of one writer keeps the type of both, and leaves the other.
LEMMA OneWrite ==
    ASSUME TypeOK, NEW w \in Writers, NEW x \in Writing,
           write' = [write EXCEPT ![w] = x]
    PROVE  /\ write' \in [Writers -> Writing]
           /\ write'[w] = x
           /\ \A v \in Writers \ {w} : write'[v] = write[v]
  BY DEF TypeOK, Writing

LEMMA OneWriteAt ==
    ASSUME TypeOK, NEW w \in Writers, NEW at \in {"published", "rejected"},
           write' = [write EXCEPT ![w].at = at]
    PROVE  /\ write' \in [Writers -> Writing]
           /\ write'[w].at = at
           /\ \A v \in Writers \ {w} : write'[v] = write[v]
  BY DEF TypeOK, Writing

\* Only the refresh at the head of the queue leaves it.
LEMMA TailOf ==
    ASSUME refreshes \in Seq(Waiters), refreshes # <<>>
    PROVE  /\ Tail(refreshes) \in Seq(Waiters)
           /\ 1 \in DOMAIN refreshes /\ Head(refreshes) = refreshes[1]
           /\ Head(refreshes) \in Waiters
           /\ \A i \in DOMAIN Tail(refreshes) :
                 /\ i + 1 \in DOMAIN refreshes /\ i + 1 # 1
                 /\ Tail(refreshes)[i] = refreshes[i + 1]
  BY DEF Waiters

LEMMA AppendTo ==
    ASSUME refreshes \in Seq(Waiters), NEW who \in Waiters
    PROVE  /\ Append(refreshes, who) \in Seq(Waiters)
           /\ \A i \in DOMAIN Append(refreshes, who) :
                 \/ i \in DOMAIN refreshes /\ Append(refreshes, who)[i] = refreshes[i]
                 \/ i = Len(refreshes) + 1 /\ Append(refreshes, who)[i] = who
  BY DEF Waiters

\* RunEnds and RefreshEnds are only reached with a run to end.
LEMMA RunEndsKeeps ==
    ASSUME TypeOK, Queues, run # "none", NEW ok \in BOOLEAN, RunEnds(ok)
    PROVE  /\ run' = "none" /\ due' \in Nat /\ due' = due - 1
           /\ phase' \in {"publishing", "storage", "marking", "watching", "failed"}
           /\ phase = "publishing" => due' = 0 /\ phase' \in {"storage", "failed"}
           /\ phase # "publishing" => phase' = phase /\ phase = "watching"
  BY DEF TypeOK, Queues, RunEnds

LEMMA RefreshEndsKeeps ==
    ASSUME TypeOK, Queues, refreshes # <<>>, RefreshEnds
    PROVE  /\ refreshes' \in Seq(Waiters)
           /\ \A i \in DOMAIN refreshes' : /\ i + 1 \in DOMAIN refreshes /\ i + 1 # 1
                                          /\ refreshes'[i] = refreshes[i + 1]
           /\ \/ /\ refreshes[1] = "run" /\ run = "refresh" /\ RunEnds(TRUE)
              \/ /\ refreshes[1] = "activate" /\ phase = "marking" /\ phase' = "watching"
                 /\ UNCHANGED <<run, due>>
              \/ refreshes[1] = "folders" /\ UNCHANGED <<phase, run, due>>
  <1>1. refreshes \in Seq(Waiters) BY DEF TypeOK, Waiters
  <1>2. /\ 1 \in DOMAIN refreshes /\ Head(refreshes) = refreshes[1]
        /\ Head(refreshes) \in Waiters
    BY <1>1, TailOf
  <1>3. /\ refreshes[1] = "run" => run = "refresh"
        /\ refreshes[1] = "activate" => phase = "marking"
    BY <1>2 DEF Queues
  <1>4. refreshes' = Tail(refreshes)
    BY DEF RefreshEnds
  <1>5. CASE refreshes[1] = "run"
    BY <1>1, <1>2, <1>3, <1>4, <1>5, TailOf DEF RefreshEnds
  <1>6. CASE refreshes[1] = "activate"
    BY <1>1, <1>2, <1>3, <1>4, <1>6, TailOf DEF RefreshEnds
  <1>7. CASE refreshes[1] = "folders"
    BY <1>1, <1>2, <1>3, <1>4, <1>7, TailOf DEF RefreshEnds
  <1> QED BY <1>2, <1>5, <1>6, <1>7 DEF Waiters

-----------------------------------------------------------------------------
(* Every step keeps the types.                                             *)

LEMMA TypeStep ==
    ASSUME TypeOK, Queues, Next
    PROVE  TypeOK'
<1> USE DEF history, bounds, host
<1> refreshes \in Seq(Waiters) /\ write \in [Writers -> Writing]
  BY DEF TypeOK, Waiters, Writing
<1> NoWrite \in Writing /\ Captured \in Writing /\ Current \in Descriptor
  BY WritesTyped
<1> {"start", "refresh"} \subseteq Writers
  BY DEF Writers
<1>F. MayFail => failures' \in 0..MaxFailures
  BY PublicationAssumption DEF TypeOK, MayFail
<1>A. ASSUME RunEnds(TRUE) \/ RunEnds(FALSE), run # "none"
      PROVE  /\ run' = "none" /\ due' \in Nat
             /\ phase' \in {"publishing", "storage", "marking", "watching", "failed"}
  BY <1>A, RunEndsKeeps
<1>B. ASSUME RefreshEnds, refreshes # <<>>
      PROVE  /\ refreshes' \in Seq(Waiters)
             /\ run' \in {"none", "listen", "write", "undo", "refresh", "close", "remove"}
             /\ due' \in Nat
             /\ phase' \in {"publishing", "storage", "marking", "watching", "failed"}
  BY <1>B, <1>A, RefreshEndsKeeps DEF TypeOK
<1>1. CASE Reconcile
  <2>1. CASE allowed /\ ~started
    BY <1>1, <2>1 DEF Reconcile, TypeOK
  <2>2. CASE allowed /\ started
    BY <1>1, <2>2, AppendTo DEF Reconcile, TypeOK, Waiters
  <2>3. CASE ~allowed /\ started
    BY <1>1, <2>3 DEF Reconcile, TypeOK
  <2>4. CASE ~allowed /\ ~started
    BY <1>1, <2>4 DEF Reconcile, TypeOK, RunEnds
  <2> QED BY <2>1, <2>2, <2>3, <2>4
<1>2. CASE Listen
  <2>1. write' \in [Writers -> Writing]
    BY <1>2, OneWrite DEF Listen
  <2> QED BY <1>2, <2>1 DEF Listen, TypeOK, Writing
<1>3. CASE ListenFails
  BY <1>3, <1>F, <1>A DEF ListenFails, TypeOK
<1>4. CASE Undo
  BY <1>4, <1>A DEF Undo, TypeOK
<1>5. CASE Closed
  BY <1>5 DEF Closed, TypeOK
<1>6. CASE Remove
  BY <1>6, <1>A DEF Remove, TypeOK
<1>7. CASE Refresh
  <2>1. CASE started
    <3>1. write' \in [Writers -> Writing]
      BY <1>7, <2>1, OneWrite DEF Refresh
    <3> QED BY <1>7, <2>1, <3>1 DEF Refresh, TypeOK, Writing
  <2>2. CASE ~started
    <3> refreshes # <<>> /\ RefreshEnds
      BY <1>7, <2>2 DEF Refresh
    <3> QED BY <1>7, <2>2, <1>B DEF Refresh, TypeOK, Waiters
  <2> QED BY <2>1, <2>2
<1>8. ASSUME NEW w \in Writers, Rename(w) PROVE TypeOK'
  <2>1. write' \in [Writers -> Writing]
    BY <1>8, OneWriteAt DEF Rename
  <2>2. write[w].descriptor \in Descriptor \cup {Nil}
    BY DEF Writing
  <2> QED BY <1>8, <2>1, <2>2 DEF Rename, TypeOK, Writing
<1>9. ASSUME NEW w \in Writers, Harden(w) PROVE TypeOK'
  <2>1. write' \in [Writers -> Writing]
    BY <1>9, OneWrite DEF Harden
  <2>2. CASE w = "start"
    <3>1. run # "none"
      BY <1>9, <2>2 DEF Harden, Queues
    <3> QED BY <1>9, <2>1, <2>2, <3>1, <1>A DEF Harden, TypeOK, Writing
  <2>3. CASE w = "refresh"
    <3> refreshes # <<>> /\ RefreshEnds
      BY <1>9, <2>3 DEF Harden, Queues
    <3> QED BY <1>9, <2>1, <2>3, <1>B DEF Harden, TypeOK, Writing, Waiters
  <2> QED BY <2>2, <2>3 DEF Writers
<1>N. ASSUME NEW w \in Writers, NotWritten(w), write[w].at # "none"
      PROVE  /\ write' \in [Writers -> Writing]
             /\ started' \in BOOLEAN /\ serving' \in BOOLEAN /\ healthy' \in BOOLEAN
             /\ refreshes' \in Seq(Waiters)
             /\ run' \in {"none", "listen", "write", "undo", "refresh", "close", "remove"}
             /\ due' \in Nat
             /\ phase' \in {"publishing", "storage", "marking", "watching", "failed"}
  <2>1. write' \in [Writers -> Writing]
    BY <1>N, OneWrite DEF NotWritten
  <2>2. CASE w = "start"
    BY <1>N, <2>1, <2>2 DEF NotWritten, TypeOK
  <2>3. CASE w = "refresh"
    <3> refreshes # <<>> /\ RefreshEnds
      BY <1>N, <2>3 DEF NotWritten, Queues
    <3> QED BY <1>N, <2>1, <2>3, <1>B DEF NotWritten, TypeOK
  <2> QED BY <2>2, <2>3 DEF Writers
<1>10. ASSUME NEW w \in Writers, TemporaryFails(w) PROVE TypeOK'
  <2>1. NotWritten(w) /\ write[w].at # "none" /\ failures' \in 0..MaxFailures
    BY <1>10, <1>F DEF TemporaryFails
  <2> QED BY <1>10, <2>1, <1>N DEF TemporaryFails, TypeOK, Writing, Waiters
<1>11. ASSUME NEW w \in Writers, HardenFails(w) PROVE TypeOK'
  <2>1. write' \in [Writers -> Writing]
    BY <1>11, OneWriteAt DEF HardenFails
  <2> QED BY <1>11, <1>F, <2>1 DEF HardenFails, TypeOK, Writing
<1>12. ASSUME NEW w \in Writers, Withdraw(w) PROVE TypeOK'
  <2>1. NotWritten(w) /\ write[w].at # "none"
    BY <1>12 DEF Withdraw
  <2> QED BY <1>12, <2>1, <1>N DEF Withdraw, TypeOK, Writing, Waiters
<1>13. CASE Recovered
  BY <1>13, AppendTo DEF Recovered, TypeOK, Lifecycles, Waiters
<1>14. CASE PolicyChanges
  BY <1>14, PublicationAssumption DEF PolicyChanges, TypeOK
<1>15. CASE FoldersChange
  BY <1>15, PublicationAssumption, AppendTo DEF FoldersChange, TypeOK, Waiters
<1>16. CASE Discover
  BY <1>16, PublicationAssumption DEF Discover, TypeOK
<1>17. CASE Probe
  BY <1>17 DEF Probe, TypeOK
<1>18. CASE Forget
  BY <1>18 DEF Forget, TypeOK
<1> QED
  BY <1>1, <1>2, <1>3, <1>4, <1>5, <1>6, <1>7, <1>8, <1>9, <1>10, <1>11, <1>12, <1>13,
     <1>14, <1>15, <1>16, <1>17, <1>18 DEF Next

-----------------------------------------------------------------------------
(* Every step keeps the queues.                                            *)

LEMMA QueuesStep ==
    ASSUME TypeOK, Queues, Next
    PROVE  Queues'
<1> USE DEF history, bounds, host
<1> refreshes \in Seq(Waiters) /\ write \in [Writers -> Writing] /\ due \in Nat
  BY DEF TypeOK, Waiters, Writing
<1> NoWrite \in Writing /\ Captured \in Writing /\ NoWrite.at = "none"
  BY WritesTyped DEF NoWrite
<1> "start" \in Writers /\ "refresh" \in Writers
  BY DEF Writers
<1>A. ASSUME RunEnds(TRUE) \/ RunEnds(FALSE), run # "none", run # "refresh", run # "write",
             UNCHANGED <<refreshes, write>>
      PROVE  Queues'
  <2>1. /\ run' = "none" /\ due' = due - 1
        /\ phase = "publishing" => due' = 0 /\ phase' \in {"storage", "failed"}
        /\ phase # "publishing" => phase' = phase /\ phase = "watching"
    BY <1>A, RunEndsKeeps
  <2> QED BY <1>A, <2>1 DEF Queues
<1>B. ASSUME RefreshEnds, refreshes # <<>>, write'["refresh"] = NoWrite,
             write'["start"] = write["start"]
      PROVE  Queues'
  <2>1. \A i \in DOMAIN refreshes' : /\ i + 1 \in DOMAIN refreshes /\ i + 1 # 1
                                   /\ refreshes'[i] = refreshes[i + 1]
    BY <1>B, RefreshEndsKeeps
  <2>2. 1 \in DOMAIN refreshes
    BY <1>B, TailOf
  <2>3. \A i \in DOMAIN refreshes' : refreshes'[i] # "folders" => refreshes'[i] # refreshes[1]
    BY <2>1, <2>2 DEF Queues
  <2>4. \A i, j \in DOMAIN refreshes' :
          refreshes'[i] = refreshes'[j] /\ refreshes'[i] # "folders" => i = j
    <3> SUFFICES ASSUME NEW i \in DOMAIN refreshes', NEW j \in DOMAIN refreshes',
                        refreshes'[i] = refreshes'[j], refreshes'[i] # "folders"
                 PROVE  i = j
      OBVIOUS
    <3>1. i + 1 = j + 1
      BY <2>1 DEF Queues
    <3>2. refreshes' \in Seq(Waiters)
      BY <1>B, RefreshEndsKeeps
    <3> QED BY <3>1, <3>2
  <2>5. CASE refreshes[1] = "run" /\ run = "refresh" /\ RunEnds(TRUE)
    <3>1. /\ run' = "none" /\ due' = due - 1
          /\ phase = "publishing" => due' = 0 /\ phase' \in {"storage", "failed"}
          /\ phase # "publishing" => phase' = phase /\ phase = "watching"
      BY <2>5, RunEndsKeeps
    <3> QED BY <1>B, <2>1, <2>3, <2>4, <2>5, <3>1 DEF Queues
  <2>6. CASE /\ refreshes[1] = "activate" /\ phase = "marking" /\ phase' = "watching"
             /\ UNCHANGED <<run, due>>
    BY <1>B, <2>1, <2>3, <2>4, <2>6 DEF Queues
  <2>7. CASE refreshes[1] = "folders" /\ UNCHANGED <<phase, run, due>>
    BY <1>B, <2>1, <2>4, <2>7 DEF Queues
  <2> QED BY <1>B, <2>5, <2>6, <2>7, RefreshEndsKeeps
<1>S. ASSUME run = "write", run' # "refresh", UNCHANGED refreshes, write'["start"] = NoWrite,
             write'["refresh"] = write["refresh"],
             \/ run' = "none" /\ (RunEnds(TRUE) \/ RunEnds(FALSE))
             \/ run' = "undo" /\ UNCHANGED <<phase, due>>
      PROVE  Queues'
  <2>1. CASE run' = "undo" /\ UNCHANGED <<phase, due>>
    BY <1>S, <2>1 DEF Queues
  <2>2. CASE RunEnds(TRUE) \/ RunEnds(FALSE)
    <3>1. /\ run' = "none" /\ due' = due - 1
          /\ phase = "publishing" => due' = 0 /\ phase' \in {"storage", "failed"}
          /\ phase # "publishing" => phase' = phase /\ phase = "watching"
      BY <1>S, <2>2, RunEndsKeeps
    <3> QED BY <1>S, <3>1 DEF Queues
  <2> QED BY <1>S, <2>1, <2>2
<1>1. CASE Reconcile
  <2>1. CASE allowed /\ started
    <3> DEFINE longer == Append(refreshes, "run")
    <3>1. /\ run = "none" /\ due > 0 /\ run' = "refresh" /\ refreshes' = longer
          /\ UNCHANGED <<phase, due, write>>
      BY <1>1, <2>1 DEF Reconcile
    <3>2. \A i \in DOMAIN longer :
             \/ i \in DOMAIN refreshes /\ longer[i] = refreshes[i]
             \/ i = Len(refreshes) + 1 /\ longer[i] = "run"
      BY AppendTo DEF Waiters
    <3>3. longer # <<>>
      OBVIOUS
    <3> HIDE DEF longer
    <3> QED BY <3>1, <3>2, <3>3 DEF Queues
  <2>2. CASE ~allowed /\ ~started
    <3> run = "none" /\ due > 0 /\ RunEnds(TRUE) /\ UNCHANGED <<refreshes, write>>
      BY <1>1, <2>2 DEF Reconcile
    <3> QED BY DEF Queues, RunEnds, TypeOK
  <2>3. CASE allowed /\ ~started
    BY <1>1, <2>3 DEF Reconcile, Queues
  <2>4. CASE ~allowed /\ started
    BY <1>1, <2>4 DEF Reconcile, Queues
  <2> QED BY <2>1, <2>2, <2>3, <2>4
<1>2. CASE Listen
  <2>1. write'["refresh"] = write["refresh"]
    BY <1>2, OneWrite DEF Listen, Writers
  <2> QED BY <1>2, <2>1 DEF Listen, Queues
<1>3. CASE ListenFails
  BY <1>3, <1>A DEF ListenFails
<1>4. CASE Undo
  BY <1>4, <1>A DEF Undo
<1>5. CASE Closed
  BY <1>5 DEF Closed, Queues
<1>6. CASE Remove
  BY <1>6, <1>A DEF Remove
<1>7. CASE Refresh
  <2>1. CASE started
    <3>1. write'["start"] = write["start"]
      BY <1>7, <2>1, OneWrite DEF Refresh, Writers
    <3> QED BY <1>7, <2>1, <3>1 DEF Refresh, Queues
  <2>2. CASE ~started
    BY <1>7, <2>2, <1>B DEF Refresh
  <2> QED BY <2>1, <2>2
<1>8. ASSUME NEW w \in Writers, Rename(w) PROVE Queues'
  <2>1. \A v \in Writers : write'[v].at # "none" => write[v].at # "none"
    BY <1>8, OneWriteAt DEF Rename
  <2> QED BY <1>8, <2>1 DEF Rename, Queues
<1>9. ASSUME NEW w \in Writers, Harden(w) PROVE Queues'
  <2>1. write'[w] = NoWrite /\ \A v \in Writers \ {w} : write'[v] = write[v]
    BY <1>9, OneWrite DEF Harden
  <2>2. CASE w = "start"
    <3>1. run = "write"
      BY <1>9, <2>2 DEF Harden, Queues
    <3>2. run' = "none" /\ RunEnds(TRUE) /\ UNCHANGED refreshes
      BY <1>9, <2>2 DEF Harden, RunEnds
    <3> QED BY <1>S, <2>1, <2>2, <3>1, <3>2 DEF Writers
  <2>3. CASE w = "refresh"
    <3> refreshes # <<>> /\ RefreshEnds
      BY <1>9, <2>3 DEF Harden, Queues
    <3> QED BY <2>1, <2>3, <1>B DEF Writers
  <2> QED BY <2>2, <2>3 DEF Writers
<1>N. ASSUME NEW w \in Writers, NotWritten(w), write[w].at # "none"
      PROVE  Queues'
  <2>1. write'[w] = NoWrite /\ \A v \in Writers \ {w} : write'[v] = write[v]
    BY <1>N, OneWrite DEF NotWritten
  <2>2. CASE w = "start"
    <3>1. run = "write" /\ run' = "undo" /\ UNCHANGED <<phase, due, refreshes>>
      BY <1>N, <2>2 DEF NotWritten, Queues
    <3> QED BY <1>S, <2>1, <2>2, <3>1 DEF Writers
  <2>3. CASE w = "refresh"
    <3> refreshes # <<>> /\ RefreshEnds
      BY <1>N, <2>3 DEF NotWritten, Queues
    <3> QED BY <2>1, <2>3, <1>B DEF Writers
  <2> QED BY <2>2, <2>3 DEF Writers
<1>10. ASSUME NEW w \in Writers, TemporaryFails(w) PROVE Queues'
  BY <1>10, <1>N DEF TemporaryFails
<1>11. ASSUME NEW w \in Writers, HardenFails(w) PROVE Queues'
  <2>1. \A v \in Writers : write'[v].at # "none" => write[v].at # "none"
    BY <1>11, OneWriteAt DEF HardenFails
  <2> QED BY <1>11, <2>1 DEF HardenFails, Queues
<1>12. ASSUME NEW w \in Writers, Withdraw(w) PROVE Queues'
  BY <1>12, <1>N DEF Withdraw
<1>13. CASE Recovered
  <2> DEFINE longer == Append(refreshes, "activate")
  <2>1. /\ phase = "storage" /\ phase' = "marking" /\ refreshes' = longer
        /\ UNCHANGED <<run, due, write>>
    BY <1>13 DEF Recovered
  <2>2. \A i \in DOMAIN longer :
           \/ i \in DOMAIN refreshes /\ longer[i] = refreshes[i]
           \/ i = Len(refreshes) + 1 /\ longer[i] = "activate"
    BY AppendTo DEF Waiters
  <2>3. longer # <<>>
    OBVIOUS
  <2> HIDE DEF longer
  <2> QED BY <2>1, <2>2, <2>3 DEF Queues
<1>14. CASE PolicyChanges
  BY <1>14 DEF PolicyChanges, Queues, Watched
<1>15. CASE FoldersChange
  <2> DEFINE longer == Append(refreshes, "folders")
  <2>1. refreshes' \in {refreshes, longer} /\ UNCHANGED <<phase, run, due, write>>
    BY <1>15 DEF FoldersChange
  <2>2. \A i \in DOMAIN longer :
           \/ i \in DOMAIN refreshes /\ longer[i] = refreshes[i]
           \/ i = Len(refreshes) + 1 /\ longer[i] = "folders"
    BY AppendTo DEF Waiters
  <2>3. longer # <<>>
    OBVIOUS
  <2> HIDE DEF longer
  <2> QED BY <2>1, <2>2, <2>3 DEF Queues
<1>16. CASE Discover \/ Probe \/ Forget
  BY <1>16 DEF Discover, Probe, Forget, Queues
<1> QED
  BY <1>1, <1>2, <1>3, <1>4, <1>5, <1>6, <1>7, <1>8, <1>9, <1>10, <1>11, <1>12, <1>13,
     <1>14, <1>15, <1>16 DEF Next

-----------------------------------------------------------------------------
(* Every step keeps what the current run has done, and its agreement with  *)
(* the policy.                                                             *)

LEMMA PolicyStep ==
    ASSUME TypeOK, Queues, Progress, Decided, Next
    PROVE  Progress' /\ Decided'
<1> USE DEF history, bounds, host
<1> due \in Nat /\ failures \in Nat /\ write \in [Writers -> Writing]
  BY PublicationAssumption DEF TypeOK, Writing
<1> NoWrite \in Writing /\ Captured \in Writing /\ NoWrite.at = "none"
    /\ Captured.at = "temporary"
  BY WritesTyped DEF NoWrite, Captured
<1> "start" \in Writers /\ "refresh" \in Writers
  BY DEF Writers
<1>E. ASSUME RunEnds(TRUE) \/ RunEnds(FALSE), run # "none", UNCHANGED <<allowed, missed>>,
             serving' <=> started', failures' \in Nat, failures' >= failures,
             write'["start"].at = "rejected" => failures' > 0,
             run \in {"close", "remove"} => ~started',
             run \notin {"close", "remove"} => started' \/ failures' > 0
      PROVE  Progress' /\ Decided'
  <2>1. run' = "none" /\ due' = due - 1
    BY <1>E DEF RunEnds
  <2>2. Progress'
    BY <1>E, <2>1 DEF Progress
  <2>3. CASE due = 1
    BY <1>E, <2>1, <2>3 DEF Decided, Progress
  <2>4. CASE due > 1
    <3>1. due' # 0 /\ run' = "none"
      BY <2>1, <2>4
    <3> QED BY <2>2, <3>1 DEF Decided
  <2> QED BY <1>E, <2>2, <2>3, <2>4 DEF Queues
<1>A. ASSUME RefreshEnds, refreshes # <<>>, UNCHANGED <<allowed, started, serving, missed>>,
             failures' \in Nat, failures' >= failures, write'["start"] = write["start"]
      PROVE  Progress' /\ Decided'
  <2>1. write'["start"].at = "rejected" => failures' > 0
    BY <1>A DEF Progress
  <2>2. CASE run = "refresh" /\ RunEnds(TRUE)
    <3> started /\ serving
      BY <2>2 DEF Progress
    <3> QED BY <1>A, <2>1, <2>2, <1>E
  <2>3. CASE UNCHANGED <<run, due>>
    BY <1>A, <2>1, <2>3 DEF Progress, Decided
  <2> QED BY <1>A, <2>2, <2>3, RefreshEndsKeeps
<1>1. CASE Reconcile
  <2>1. CASE allowed /\ ~started
    BY <1>1, <2>1 DEF Reconcile, Progress, Decided
  <2>2. CASE allowed /\ started
    BY <1>1, <2>2 DEF Reconcile, Progress, Decided
  <2>3. CASE ~allowed /\ started
    BY <1>1, <2>3 DEF Reconcile, Progress, Decided
  <2>4. CASE ~allowed /\ ~started
    BY <1>1, <2>4 DEF Reconcile, RunEnds, Progress, Decided
  <2> QED BY <2>1, <2>2, <2>3, <2>4
<1>2. CASE Listen
  <2>1. write'["start"].at = "temporary"
    BY <1>2, OneWrite DEF Listen
  <2>2. due > 0
    BY <1>2 DEF Listen, Queues
  <2> QED BY <1>2, <2>1, <2>2 DEF Listen, Progress, Decided
<1>3. CASE ListenFails
  <2>1. run = "listen" /\ RunEnds(FALSE)
        /\ UNCHANGED <<allowed, missed, serving, started, write>>
    BY <1>3 DEF ListenFails
  <2>2. failures' = failures + 1
    BY <1>3 DEF ListenFails, MayFail
  <2>3. failures' \in Nat /\ failures' >= failures /\ failures' > 0
    BY <2>2
  <2>4. ~started /\ ~serving
    BY <2>1 DEF Progress
  <2>5. ~serving' /\ ~started'
    BY <2>1, <2>4
  <2> QED BY <2>1, <2>3, <2>5, <1>E
<1>4. CASE Undo
  <2>1. run = "undo" /\ RunEnds(FALSE)
        /\ UNCHANGED <<allowed, missed, serving, started, write, failures>>
    BY <1>4 DEF Undo
  <2>2. ~started /\ ~serving /\ failures > 0
    BY <2>1 DEF Progress
  <2>3. write'["start"].at = "rejected" => failures' > 0
    BY <2>1, <2>2
  <2> QED BY <2>1, <2>2, <2>3, <1>E
<1>5. CASE Closed
  <2>1. due > 0
    BY <1>5 DEF Closed, Queues
  <2> QED BY <1>5, <2>1 DEF Closed, Progress, Decided
<1>6. CASE Remove
  <2>1. run = "remove" /\ RunEnds(TRUE)
        /\ UNCHANGED <<allowed, missed, serving, started, write, failures>>
    BY <1>6 DEF Remove
  <2>2. ~started /\ ~serving /\ (write["start"].at = "rejected" => failures > 0)
    BY <2>1 DEF Progress
  <2> QED BY <2>1, <2>2, <1>E
<1>7. CASE Refresh
  <2>1. CASE started
    <3>1. write'["start"] = write["start"]
      BY <1>7, <2>1, OneWrite DEF Refresh, Writers
    <3> QED BY <1>7, <2>1, <3>1 DEF Refresh, Progress, Decided
  <2>2. CASE ~started
    BY <1>7, <2>2, <1>A DEF Refresh
  <2> QED BY <2>1, <2>2
<1>8. ASSUME NEW w \in Writers, Rename(w) PROVE Progress' /\ Decided'
  <2>1. write'["start"].at = "rejected" => write["start"].at = "rejected"
    BY <1>8, OneWriteAt DEF Rename
  <2> QED BY <1>8, <2>1 DEF Rename, Progress, Decided
<1>W. ASSUME NEW w \in Writers, write' = [write EXCEPT ![w] = NoWrite]
      PROVE  /\ write'["start"].at = "rejected" => w # "start" /\ write'["start"] = write["start"]
             /\ w = "refresh" => write'["start"] = write["start"]
  BY <1>W, OneWrite DEF Writers
<1>9. ASSUME NEW w \in Writers, Harden(w) PROVE Progress' /\ Decided'
  <2>1. write' = [write EXCEPT ![w] = NoWrite]
        /\ UNCHANGED <<allowed, missed, serving, started, failures>>
    BY <1>9 DEF Harden
  <2>2. CASE w = "start"
    <3>1. run = "write" /\ RunEnds(TRUE)
      BY <1>9, <2>2 DEF Harden, Queues
    <3>2. started /\ serving
      BY <3>1 DEF Progress
    <3>3. ~(write'["start"].at = "rejected")
      BY <2>1, <2>2, <1>W
    <3> QED BY <2>1, <3>1, <3>2, <3>3, <1>E
  <2>3. CASE w = "refresh"
    <3>1. refreshes # <<>> /\ RefreshEnds
      BY <1>9, <2>3 DEF Harden, Queues
    <3> QED BY <2>1, <2>3, <3>1, <1>W, <1>A
  <2> QED BY <2>2, <2>3 DEF Writers
<1>N. ASSUME NEW w \in Writers, NotWritten(w), write[w].at # "none",
             UNCHANGED <<allowed, missed>>, failures' \in Nat, failures' >= failures,
             w = "start" => failures' > 0
      PROVE  Progress' /\ Decided'
  <2>1. write' = [write EXCEPT ![w] = NoWrite]
    BY <1>N DEF NotWritten
  <2>2. CASE w = "start"
    <3>1. run = "write" /\ run' = "undo" /\ UNCHANGED due /\ ~started' /\ ~serving'
      BY <1>N, <2>2 DEF NotWritten, Queues
    <3>2. ~(write'["start"].at = "rejected")
      BY <2>1, <2>2, <1>W
    <3>3. due' > 0
      BY <3>1 DEF Queues
    <3> QED BY <1>N, <2>2, <3>1, <3>2, <3>3 DEF Progress, Decided
  <2>3. CASE w = "refresh"
    <3>1. refreshes # <<>> /\ RefreshEnds /\ UNCHANGED <<started, serving>>
      BY <1>N, <2>3 DEF NotWritten, Queues
    <3> QED BY <1>N, <2>1, <2>3, <3>1, <1>W, <1>A
  <2> QED BY <2>2, <2>3 DEF Writers
<1>10. ASSUME NEW w \in Writers, TemporaryFails(w) PROVE Progress' /\ Decided'
  BY <1>10, <1>N DEF TemporaryFails, MayFail
<1>11. ASSUME NEW w \in Writers, HardenFails(w) PROVE Progress' /\ Decided'
  BY <1>11 DEF HardenFails, MayFail, Progress, Decided
<1>12. ASSUME NEW w \in Writers, Withdraw(w) PROVE Progress' /\ Decided'
  <2>1. NotWritten(w) /\ write[w].at = "rejected"
        /\ UNCHANGED <<allowed, missed, failures>>
    BY <1>12 DEF Withdraw
  <2>2. w = "start" => failures > 0
    BY <2>1 DEF Progress
  <2> QED BY <2>1, <2>2, <1>N
<1>13. CASE Recovered
  BY <1>13 DEF Recovered, Progress, Decided
<1>14. CASE PolicyChanges
  <2>1. /\ allowed' = ~allowed /\ missed' = ~Watched
        /\ due' = IF Watched THEN due + 1 ELSE due
        /\ UNCHANGED <<run, started, serving, write, failures>>
    BY <1>14 DEF PolicyChanges
  <2>2. Progress'
    BY <2>1 DEF Progress
  <2>3. CASE Watched
    <3>1. due' # 0 /\ (due' = 1 => due = 0)
      BY <2>1, <2>3
    <3>2. due' = 1 => run' = "none"
      BY <2>1, <3>1 DEF Queues
    <3> QED BY <2>2, <3>1, <3>2 DEF Decided
  <2>4. CASE ~Watched
    BY <2>1, <2>2, <2>4 DEF Decided
  <2> QED BY <2>3, <2>4
<1>15. CASE FoldersChange
  BY <1>15 DEF FoldersChange, Progress, Decided
<1>16. CASE Discover \/ Probe \/ Forget
  BY <1>16 DEF Discover, Probe, Forget, Progress, Decided
<1> QED
  BY <1>1, <1>2, <1>3, <1>4, <1>5, <1>6, <1>7, <1>8, <1>9, <1>10, <1>11, <1>12, <1>13,
     <1>14, <1>15, <1>16 DEF Next

-----------------------------------------------------------------------------

LEMMA Inductive == Spec => []IInv
<1>1. Init => IInv
  <2> SUFFICES ASSUME Init PROVE IInv
    OBVIOUS
  <2>1. 0 \in 0..MaxPolicyChanges /\ 0 \in 0..MaxFolders /\ 0 \in 0..MaxProbes
        /\ 0 \in 0..MaxFailures
    BY PublicationAssumption
  <2>2. write \in [Writers -> Writing] /\ \A w \in Writers : write[w].at = "none"
    BY DEF Init, NoWrite, Writing
  <2>3. TypeOK
    <3>1. /\ write \in [Writers -> [at : {"none", "temporary", "published", "rejected"},
                                   descriptor : Descriptor \cup {Nil}]]
          /\ refreshes \in Seq({"run", "activate", "folders"})
      BY <2>2 DEF Init, Writing
    <3> QED BY <2>1, <3>1 DEF Init, TypeOK, Lifecycles
  <2>4. Queues
    <3>1. DOMAIN refreshes = {}
      BY DEF Init
    <3>2. write["start"].at = "none" /\ write["refresh"].at = "none"
      BY <2>2 DEF Writers
    <3> QED BY <3>1, <3>2 DEF Init, Queues
  <2>5. Progress /\ Decided
    BY <2>2 DEF Init, Progress, Decided, Writers
  <2> QED BY <2>3, <2>4, <2>5 DEF IInv
<1>2. IInv /\ [Next]_vars => IInv'
  <2> SUFFICES ASSUME IInv, [Next]_vars PROVE IInv'
    OBVIOUS
  <2>1. CASE Next
    BY <2>1, TypeStep, QueuesStep, PolicyStep DEF IInv
  <2>2. CASE UNCHANGED vars
    BY <2>2 DEF IInv, TypeOK, Queues, Progress, Decided, vars, host, history, bounds
  <2> QED BY <2>1, <2>2
<1> QED BY <1>1, <1>2, PTL DEF Spec

\* The types hold in every state, for any number of changes, discoveries and
\* failures: no refresh ends a run that another one has ended.
THEOREM TypeCorrect == Spec => []TypeOK
<1>1. IInv => TypeOK
  BY DEF IInv
<1> QED BY <1>1, Inductive, PTL

\* Whenever nothing is under way the window listens if and only if the policy
\* allows it, unless the change was missed during activate() or a start failed
\* (the reconcile queue of extension.ts:80-84), for any number of changes.
THEOREM PolicyFollowed == Spec => []FollowsPolicy
<1>1. IInv => FollowsPolicy
  <2> SUFFICES ASSUME IInv, AtRest, ~missed
               PROVE  /\ ~allowed => ~started /\ ~serving
                      /\ allowed /\ failures = 0 => started /\ serving
    BY DEF FollowsPolicy
  <2>1. due = 0 /\ run = "none"
    BY DEF IInv, Queues, AtRest
  <2> QED BY <2>1 DEF IInv, Progress, Decided
<1> QED BY <1>1, Inductive, PTL

-----------------------------------------------------------------------------
(***************************************************************************)
(* The registry.  While nothing has crossed the queues, a refresh and a    *)
(* run are never under way together, so the descriptor of the last write   *)
(* is the window's current one.                                            *)
(***************************************************************************)
InFlight == {"temporary", "published"}

\* What is on disk, or on its way there, while nothing is overlapped.
Ordered ==
    /\ probe # "remove"
    /\ \A i \in DOMAIN refreshes : refreshes[i] = "folders" => due = 0 /\ phase = "watching"
    /\ write["refresh"].at # "none" => started /\ run \in {"none", "refresh"}
    /\ write["start"].at \in InFlight => write["start"].descriptor = Current
    /\ write["refresh"].at \in InFlight /\ Len(refreshes) = 1 =>
         write["refresh"].descriptor = Current
    /\ \A w \in Writers : write[w].at = "published" => file = write[w].descriptor
    /\ ~started /\ run \notin {"undo", "remove"} => file = Nil
    /\ started /\ run # "write" /\ refreshes = <<>> /\ healthy => file = Current
    /\ started /\ run # "write" /\ failures = 0 => healthy

Registry ==
    /\ write["refresh"].at = "rejected" => failures > 0
    /\ ~overlapped => Ordered

\* While nothing is overlapped, only a run that refreshes leaves anything in the
\* queue of the refreshes.
LEMMA OnlyRefreshes ==
    ASSUME TypeOK, Queues, Ordered, due > 0, run # "refresh"
    PROVE  refreshes = <<>> /\ write["refresh"].at = "none"
<1>1. refreshes \in Seq(Waiters)
  BY DEF TypeOK, Waiters
<1>2. SUFFICES ASSUME refreshes # <<>> PROVE FALSE
  BY DEF Queues
<1>3. 1 \in DOMAIN refreshes /\ refreshes[1] \in Waiters
  BY <1>1, <1>2, TailOf
<1>4. due # 0 /\ phase # "marking"
  BY DEF TypeOK, Queues
<1> QED BY <1>3, <1>4 DEF Queues, Ordered, Waiters

\* What is left in the queue when a refresh has ended.
LEMMA RefreshLeaves ==
    ASSUME TypeOK, Queues, Ordered, refreshes # <<>>, RefreshEnds
    PROVE  /\ refreshes' = <<>> => Len(refreshes) = 1
           /\ \A i \in DOMAIN refreshes' : refreshes'[i] = "folders" =>
                                             due' = 0 /\ phase' = "watching"
           /\ run' \in {"none", run}
<1>1. refreshes \in Seq(Waiters) /\ due \in Nat
  BY DEF TypeOK, Waiters
<1>2. refreshes' = <<>> => Len(refreshes) = 1
  <2>1. refreshes' = Tail(refreshes)
    BY DEF RefreshEnds
  <2>2. Len(Tail(refreshes)) = Len(refreshes) - 1
    BY <1>1
  <2>3. Len(<<>>) = 0 /\ Len(refreshes) \in Nat
    BY <1>1
  <2>4. ASSUME refreshes' = <<>> PROVE Len(refreshes) = 1
    <3>1. Len(refreshes) - 1 = 0
      BY <2>1, <2>2, <2>3, <2>4
    <3> QED BY <2>3, <3>1
  <2> QED BY <2>4
<1>3. 1 \in DOMAIN refreshes
  BY <1>1, TailOf
<1>4. \A i \in DOMAIN refreshes' : /\ i + 1 \in DOMAIN refreshes
                                  /\ refreshes'[i] = refreshes[i + 1]
  BY RefreshEndsKeeps
<1>5. \A i \in DOMAIN refreshes' : refreshes'[i] = "folders" => due = 0 /\ phase = "watching"
  BY <1>4 DEF Ordered
<1>6. CASE refreshes[1] = "run" /\ run = "refresh" /\ RunEnds(TRUE)
  <2>1. due > 0 /\ run' = "none"
    BY <1>6 DEF Queues, RunEnds
  <2> QED BY <1>1, <1>2, <1>5, <2>1
<1>7. CASE phase' \in {phase, "watching"} /\ UNCHANGED <<run, due>>
  BY <1>2, <1>5, <1>7
<1> QED BY <1>6, <1>7, RefreshEndsKeeps

LEMMA RegistryStep ==
    ASSUME TypeOK, Queues, Progress, Registry, Next
    PROVE  Registry'
<1> USE DEF history, bounds, host
<1> refreshes \in Seq(Waiters) /\ write \in [Writers -> Writing] /\ due \in Nat
    /\ failures \in Nat
  BY PublicationAssumption DEF TypeOK, Waiters, Writing
<1> NoWrite \in Writing /\ Captured \in Writing /\ NoWrite.at = "none"
    /\ Captured.at = "temporary" /\ Captured.descriptor = Current
  BY WritesTyped DEF NoWrite, Captured
<1> "start" \in Writers /\ "refresh" \in Writers /\ \A w \in Writers : w \in {"start", "refresh"}
  BY DEF Writers
<1>T. ~overlapped => Ordered
  BY DEF Registry
\* A run ends with nothing in the queue of the refreshes.
<1>E. ASSUME Ordered, RunEnds(TRUE) \/ RunEnds(FALSE), due > 0, run # "refresh",
             UNCHANGED <<refreshes, write, started, probe>>, ~started,
             run = "write" => FALSE, file' = Nil
      PROVE  Ordered'
  <2>1. refreshes = <<>> /\ write["refresh"].at = "none"
    BY <1>E, OnlyRefreshes
  <2>2. write["start"].at = "none"
    BY <1>E DEF Queues
  <2>3. \A w \in Writers : write'[w].at = "none"
    BY <1>E, <2>1, <2>2
  <2>4. refreshes' = <<>> /\ DOMAIN refreshes' = {}
    BY <1>E, <2>1
  <2> QED BY <1>E, <2>3, <2>4 DEF Ordered, InFlight
\* A refresh ends.
<1>B. ASSUME Ordered, RefreshEnds, refreshes # <<>>, UNCHANGED <<folders, lifecycle, probe>>,
             started' = started, started \/ (run = "none" /\ file = Nil /\ file' = Nil),
             run \in {"none", "refresh"},
             write'["refresh"] = NoWrite, write'["start"] = write["start"],
             healthy' /\ started /\ Len(refreshes) = 1 => file' = Current,
             started' /\ failures' = 0 => healthy'
      PROVE  Ordered'
  <2>1. run' \in {"none", "refresh"}
    BY <1>B, RefreshLeaves
  <2>2. write["start"].at = "none"
    BY <1>B DEF Queues
  <2>3. \A w \in Writers : write'[w].at = "none"
    BY <1>B, <2>2
  <2>4. Current' = Current
    BY <1>B DEF Current
  <2>5. run = "none" => run' = "none"
    BY <1>B, RefreshLeaves
  <2> QED BY <1>B, <2>1, <2>3, <2>4, <2>5, RefreshLeaves DEF Ordered, InFlight
<1>1. CASE Reconcile
  <2>0. run = "none" /\ due > 0
        /\ UNCHANGED <<folders, lifecycle, started, healthy, write, file, probe, failures,
                       overlapped>>
    BY <1>1 DEF Reconcile
  <2> SUFFICES ASSUME Ordered PROVE Ordered'
    BY <2>0, <1>T DEF Registry
  <2>1. refreshes = <<>> /\ write["refresh"].at = "none" /\ write["start"].at = "none"
    BY <2>0, OnlyRefreshes DEF Queues
  <2>2. \A w \in Writers : write'[w].at = "none"
    BY <2>0, <2>1
  <2>3. Current' = Current
    BY <2>0 DEF Current
  <2>4. CASE allowed /\ started
    <3>1. refreshes' = Append(refreshes, "run") /\ run' = "refresh"
      BY <1>1, <2>4 DEF Reconcile
    <3>2. DOMAIN refreshes' = {1} /\ refreshes'[1] = "run" /\ refreshes' # <<>>
      BY <2>1, <3>1
    <3> QED BY <2>0, <2>2, <2>4, <3>1, <3>2 DEF Ordered, InFlight
  <2>5. CASE ~(allowed /\ started)
    <3>1. refreshes' = <<>> /\ DOMAIN refreshes' = {} /\ run' \in {"listen", "close", "none"}
      BY <1>1, <2>1, <2>5 DEF Reconcile, RunEnds
    <3> QED BY <2>0, <2>1, <2>2, <2>3, <3>1 DEF Ordered, InFlight
  <2> QED BY <2>4, <2>5
<1>2. CASE Listen
  <2>0. run = "listen" /\ run' = "write" /\ started'
        /\ write' = [write EXCEPT !["start"] = Captured]
        /\ UNCHANGED <<folders, lifecycle, refreshes, file, probe, failures, overlapped>>
    BY <1>2 DEF Listen
  <2>1. write'["start"] = Captured /\ write'["refresh"] = write["refresh"]
    BY <2>0, OneWrite
  <2> SUFFICES ASSUME Ordered PROVE Ordered'
    BY <2>0, <2>1, <1>T DEF Registry
  <2>2. due > 0
    BY <2>0 DEF Queues
  <2>3. refreshes = <<>> /\ write["refresh"].at = "none"
    BY <2>0, <2>2, OnlyRefreshes
  <2>4. Current' = Current
    BY <2>0 DEF Current
  <2>5. refreshes' = <<>> /\ DOMAIN refreshes' = {}
    BY <2>0, <2>3
  <2> QED BY <2>0, <2>1, <2>3, <2>4, <2>5 DEF Ordered, InFlight
<1>3. CASE ListenFails
  <2>0. run = "listen" /\ RunEnds(FALSE) /\ failures' = failures + 1
        /\ UNCHANGED <<refreshes, write, started, probe, file, overlapped>>
    BY <1>3 DEF ListenFails, MayFail
  <2>1. due > 0 /\ ~started
    BY <2>0 DEF Queues, Progress
  <2> SUFFICES ASSUME Ordered PROVE Ordered'
    BY <2>0, <1>T DEF Registry
  <2>2. file' = Nil
    BY <2>0, <2>1 DEF Ordered
  <2> QED BY <2>0, <2>1, <2>2, <1>E
<1>4. CASE Undo \/ Remove
  <2>0. run \in {"undo", "remove"} /\ (RunEnds(TRUE) \/ RunEnds(FALSE)) /\ file' = Nil
        /\ UNCHANGED <<refreshes, write, started, probe, overlapped, failures>>
    BY <1>4 DEF Undo, Remove
  <2>1. due > 0 /\ ~started
    BY <2>0 DEF Queues, Progress
  <2> SUFFICES ASSUME Ordered PROVE Ordered'
    BY <2>0, <1>T DEF Registry
  <2> QED BY <2>0, <2>1, <1>E
<1>5. CASE Closed
  <2>0. run = "close" /\ run' = "remove" /\ ~started'
        /\ UNCHANGED <<due, refreshes, write, file, probe, failures, overlapped>>
    BY <1>5 DEF Closed
  <2> SUFFICES ASSUME Ordered PROVE Ordered'
    BY <2>0, <1>T DEF Registry
  <2>1. due > 0 /\ write["start"].at = "none"
    BY <2>0 DEF Queues
  <2>2. refreshes = <<>> /\ write["refresh"].at = "none"
    BY <2>0, <2>1, OnlyRefreshes
  <2>3. \A w \in Writers : write'[w].at = "none"
    BY <2>0, <2>1, <2>2
  <2>4. refreshes' = <<>> /\ DOMAIN refreshes' = {}
    BY <2>0, <2>2
  <2> QED BY <2>0, <2>3, <2>4 DEF Ordered, InFlight
<1>6. CASE Refresh
  <2>0. refreshes # <<>> /\ write["refresh"] = NoWrite
        /\ UNCHANGED <<folders, lifecycle, started, healthy, file, probe, failures, overlapped>>
    BY <1>6 DEF Refresh
  <2>1. Ordered => run \in {"none", "refresh"}
    <3>1. run \notin {"none", "refresh"} => due > 0
      BY DEF Queues
    <3> QED BY <2>0, <3>1, OnlyRefreshes
  <2>2. CASE started
    <3>1. /\ write' = [write EXCEPT !["refresh"] = Captured]
          /\ UNCHANGED <<refreshes, phase, run, due>>
      BY <1>6, <2>2 DEF Refresh
    <3>2. write'["refresh"] = Captured /\ write'["start"] = write["start"]
      BY <3>1, OneWrite
    <3> SUFFICES ASSUME Ordered PROVE Ordered'
      BY <2>0, <3>2, <1>T DEF Registry
    <3>3. Current' = Current
      BY <2>0 DEF Current
    <3>4. \A w \in Writers : write'[w].at = "published" => w = "start"
      BY <3>2
    <3>5. \A w \in Writers : write'[w].at = "published" => file' = write'[w].descriptor
      BY <2>0, <3>2, <3>4 DEF Ordered
    <3> QED BY <2>0, <2>1, <2>2, <3>1, <3>2, <3>3, <3>5 DEF Ordered, InFlight
  <2>3. CASE ~started
    <3>1. RefreshEnds /\ UNCHANGED write
      BY <1>6, <2>3 DEF Refresh
    <3> SUFFICES ASSUME Ordered PROVE Ordered'
      BY <2>0, <3>1, <1>T DEF Registry
    <3>2. run = "none"
      BY <2>1, <2>3 DEF Progress
    <3>3. file = Nil /\ file' = Nil
      BY <2>0, <2>3, <3>2 DEF Ordered
    <3> QED BY <2>0, <2>3, <3>1, <3>2, <3>3, <1>B
  <2> QED BY <2>2, <2>3
\* A write in flight is the only one, of a host that is started.
<1>O. ASSUME Ordered, NEW w \in Writers, write[w].at # "none"
      PROVE  /\ started
             /\ \A v \in Writers \ {w} : write[v].at = "none"
             /\ w = "start" => run = "write" /\ due > 0 /\ refreshes = <<>>
             /\ w = "refresh" => run \in {"none", "refresh"} /\ refreshes # <<>>
  <2>1. CASE w = "start"
    <3>1. run = "write" /\ due > 0 /\ started
      BY <1>O, <2>1 DEF Queues, Progress
    <3> QED BY <1>O, <2>1, <3>1, OnlyRefreshes
  <2>2. CASE w = "refresh"
    <3>1. started /\ run \in {"none", "refresh"} /\ refreshes # <<>>
      BY <1>O, <2>2 DEF Queues, Ordered
    <3>2. write["start"].at = "none"
      BY <3>1 DEF Queues
    <3> QED BY <1>O, <2>2, <3>1, <3>2
  <2> QED BY <2>1, <2>2
<1>7. ASSUME NEW w \in Writers, Rename(w) PROVE Registry'
  <2>0. /\ write[w].at = "temporary" /\ file' = write[w].descriptor
        /\ write' = [write EXCEPT ![w].at = "published"]
        /\ UNCHANGED <<folders, lifecycle, phase, started, healthy, due, run, refreshes, probe,
                       failures, overlapped>>
    BY <1>7 DEF Rename
  <2>1. /\ write'[w].at = "published" /\ write'[w].descriptor = write[w].descriptor
        /\ \A v \in Writers \ {w} : write'[v] = write[v]
    BY <2>0, OneWriteAt DEF Writing
  <2>2. write'["refresh"].at = "rejected" => write["refresh"].at = "rejected"
    BY <2>1
  <2> SUFFICES ASSUME Ordered PROVE Ordered'
    BY <2>0, <2>2, <1>T DEF Registry
  <2>3. Current' = Current
    BY <2>0 DEF Current
  <2>4. \A v \in Writers : write'[v].at # "none" => v = w
    BY <2>0, <2>1, <1>O
  <2> QED BY <2>0, <2>1, <2>3, <2>4, <1>O DEF Ordered, InFlight
<1>8. ASSUME NEW w \in Writers, Harden(w) PROVE Registry'
  <2>0. /\ write[w].at = "published" /\ write' = [write EXCEPT ![w] = NoWrite] /\ healthy'
        /\ IF w = "start" THEN RunEnds(TRUE) /\ UNCHANGED refreshes ELSE RefreshEnds
        /\ UNCHANGED <<folders, lifecycle, started, file, probe, failures, overlapped>>
    BY <1>8 DEF Harden
  <2>1. write'[w] = NoWrite /\ \A v \in Writers \ {w} : write'[v] = write[v]
    BY <2>0, OneWrite
  <2>2. write'["refresh"].at = "rejected" => write["refresh"].at = "rejected"
    BY <2>1
  <2> SUFFICES ASSUME Ordered PROVE Ordered'
    BY <2>0, <2>2, <1>T DEF Registry
  <2>3. Current' = Current
    BY <2>0 DEF Current
  <2>4. file = write[w].descriptor
    BY <2>0 DEF Ordered
  <2>5. started
    BY <2>0, <1>O
  <2>6. CASE w = "start"
    <3>1. file = Current
      BY <2>0, <2>4, <2>6 DEF Ordered, InFlight
    <3>2. refreshes' = <<>> /\ DOMAIN refreshes' = {} /\ run' = "none"
      BY <2>0, <2>6, <1>O DEF RunEnds
    <3>3. \A v \in Writers : write'[v].at = "none"
      BY <2>0, <2>1, <1>O
    <3> QED BY <2>0, <2>3, <2>5, <3>1, <3>2, <3>3 DEF Ordered, InFlight
  <2>7. CASE w = "refresh"
    <3>1. Len(refreshes) = 1 => file' = Current
      BY <2>0, <2>4, <2>7 DEF Ordered, InFlight
    <3>2. refreshes # <<>> /\ run \in {"none", "refresh"} /\ RefreshEnds
      BY <2>0, <2>7, <1>O
    <3> QED BY <2>0, <2>1, <2>5, <2>7, <3>1, <3>2, <1>B
  <2> QED BY <2>6, <2>7
\* A write that rejects leaves an unhealthy or a stopped host.
<1>N. ASSUME Ordered, NEW w \in Writers, NotWritten(w), write[w].at # "none",
             UNCHANGED <<folders, lifecycle, probe>>, failures' # 0
      PROVE  Ordered'
  <2>1. write' = [write EXCEPT ![w] = NoWrite]
    BY <1>N DEF NotWritten
  <2>2. write'[w] = NoWrite /\ \A v \in Writers \ {w} : write'[v] = write[v]
    BY <2>1, OneWrite
  <2>3. CASE w = "start"
    <3>1. run' = "undo" /\ ~started' /\ UNCHANGED <<phase, due, refreshes>>
      BY <1>N, <2>3 DEF NotWritten
    <3>2. refreshes' = <<>> /\ DOMAIN refreshes' = {}
      BY <1>N, <2>3, <3>1, <1>O
    <3>3. \A v \in Writers : write'[v].at = "none"
      BY <1>N, <2>2, <1>O
    <3> QED BY <1>N, <3>1, <3>2, <3>3 DEF Ordered, InFlight
  <2>4. CASE w = "refresh"
    <3>1. ~healthy' /\ RefreshEnds /\ UNCHANGED started
      BY <1>N, <2>4 DEF NotWritten
    <3>2. started /\ refreshes # <<>> /\ run \in {"none", "refresh"}
      BY <1>N, <2>4, <1>O
    <3> QED BY <1>N, <2>2, <2>4, <3>1, <3>2, <1>B
  <2> QED BY <2>3, <2>4
<1>9. ASSUME NEW w \in Writers, TemporaryFails(w) \/ Withdraw(w) PROVE Registry'
  <2>0. /\ NotWritten(w) /\ write[w].at # "none"
        /\ UNCHANGED <<folders, lifecycle, probe, overlapped>>
        /\ write' = [write EXCEPT ![w] = NoWrite]
    BY <1>9 DEF TemporaryFails, Withdraw, NotWritten
  <2>1. write'[w] = NoWrite /\ \A v \in Writers \ {w} : write'[v] = write[v]
    BY <2>0, OneWrite
  <2>2. failures' # 0
    <3>1. CASE TemporaryFails(w)
      BY <3>1 DEF TemporaryFails, MayFail
    <3>2. CASE Withdraw(w)
      <4> write[w].at = "rejected" /\ failures' = failures
        BY <3>2 DEF Withdraw
      <4> QED BY DEF Registry, Progress
    <3> QED BY <1>9, <3>1, <3>2
  <2>3. failures' \in Nat
    BY <1>9 DEF TemporaryFails, Withdraw, MayFail
  <2> QED BY <2>0, <2>2, <2>3, <1>N, <1>T DEF Registry
<1>10. ASSUME NEW w \in Writers, HardenFails(w) PROVE Registry'
  <2>0. /\ write[w].at = "published" /\ write' = [write EXCEPT ![w].at = "rejected"]
        /\ failures' = failures + 1
        /\ UNCHANGED <<folders, lifecycle, phase, started, healthy, due, run, refreshes, file,
                       probe, overlapped>>
    BY <1>10 DEF HardenFails, MayFail
  <2>1. /\ write'[w].at = "rejected" /\ \A v \in Writers \ {w} : write'[v] = write[v]
    BY <2>0, OneWriteAt
  <2> SUFFICES ASSUME Ordered PROVE Ordered'
    BY <2>0, <1>T DEF Registry
  <2>2. Current' = Current
    BY <2>0 DEF Current
  <2>3. \A v \in Writers : write'[v].at \notin {"temporary", "published"}
    BY <2>0, <2>1, <1>O
  <2>4. w = "refresh" => started /\ run \in {"none", "refresh"}
    BY <2>0, <1>O
  <2>5. write'["refresh"].at # "none" => write["refresh"].at # "none"
    BY <2>0, <2>1
  <2> QED BY <2>0, <2>2, <2>3, <2>5 DEF Ordered, InFlight
<1>11. CASE Recovered
  <2>0. /\ phase = "storage" /\ refreshes' = Append(refreshes, "activate")
        /\ UNCHANGED <<folders, started, healthy, due, run, write, file, probe, failures,
                       overlapped>>
    BY <1>11 DEF Recovered
  <2> SUFFICES ASSUME Ordered PROVE Ordered'
    BY <2>0, <1>T DEF Registry
  <2>1. due = 0 /\ run = "none"
    BY <2>0 DEF Queues
  <2>2. refreshes = <<>>
    <3> SUFFICES ASSUME refreshes # <<>> PROVE FALSE
      OBVIOUS
    <3>1. 1 \in DOMAIN refreshes /\ refreshes[1] \in Waiters
      BY TailOf
    <3> QED BY <2>0, <2>1, <3>1 DEF Queues, Ordered, Waiters
  <2>3. \A w \in Writers : write'[w].at = "none"
    BY <2>0, <2>1, <2>2 DEF Queues
  <2>4. refreshes' # <<>> /\ DOMAIN refreshes' = {1} /\ refreshes'[1] = "activate"
    BY <2>0, <2>2
  <2> QED BY <2>0, <2>3, <2>4 DEF Ordered, InFlight
<1>12. CASE PolicyChanges
  <2>0. /\ overlapped' = (overlapped \/ \E i \in DOMAIN refreshes : refreshes[i] = "folders")
        /\ UNCHANGED <<folders, phase, lifecycle, started, healthy, run, refreshes, write, file,
                       probe, failures>>
    BY <1>12 DEF PolicyChanges
  <2>1. Current' = Current
    BY <2>0 DEF Current
  <2> QED BY <2>0, <2>1 DEF Registry, Ordered, InFlight
<1>13. CASE FoldersChange
  <2>0. /\ refreshes' = IF Watched /\ started THEN Append(refreshes, "folders") ELSE refreshes
        /\ overlapped' = (overlapped \/ ~Watched \/ due > 0)
        /\ UNCHANGED <<phase, started, healthy, due, run, write, file, probe, failures>>
    BY <1>13 DEF FoldersChange
  <2> SUFFICES ASSUME Ordered, Watched, ~(due > 0) PROVE Ordered'
    BY <2>0, <1>T DEF Registry
  <2>4. due = 0
    OBVIOUS
  <2>1. run = "none" /\ write["start"].at = "none"
    BY <2>4 DEF Queues
  <2>2. CASE started
    <3>1. refreshes' = Append(refreshes, "folders")
      BY <2>0, <2>2
    <3>2. refreshes' # <<>> /\ (Len(refreshes') = 1 => refreshes = <<>>)
      BY <3>1
    <3>3. Len(refreshes') = 1 => write["refresh"].at = "none"
      BY <3>2 DEF Queues
    <3> QED BY <2>0, <2>1, <2>2, <2>4, <3>2, <3>3 DEF Ordered, InFlight, Watched
  <2>3. CASE ~started
    <3>1. write["refresh"].at = "none"
      BY <2>3 DEF Ordered
    <3> QED BY <2>0, <2>1, <2>3, <2>4, <3>1 DEF Ordered, InFlight, Watched
  <2> QED BY <2>2, <2>3
<1>14. CASE Discover \/ Probe \/ Forget
  <2>0. UNCHANGED <<folders, host, failures>>
    BY <1>14 DEF Discover, Probe, Forget
  <2>1. Current' = Current
    BY <2>0 DEF Current
  <2>2. CASE UNCHANGED <<file, overlapped>> /\ probe' # "remove"
    BY <2>0, <2>1, <2>2 DEF Registry, Ordered, InFlight
  <2>3. CASE overlapped'
    BY <2>0, <2>3 DEF Registry
  <2>4. CASE Forget
    BY <2>0, <2>4 DEF Forget, Registry, Ordered
  <2>5. CASE Discover
    BY <2>2, <2>5 DEF Discover
  <2>6. CASE Probe
    <3>1. probe' = (IF serving THEN "none" ELSE "remove") /\ UNCHANGED file
          /\ overlapped' = (overlapped \/ ~serving)
      BY <2>6 DEF Probe
    <3>2. CASE serving
      <4> overlapped' = overlapped
        BY <3>1, <3>2 DEF TypeOK
      <4> QED BY <3>1, <3>2, <2>2
    <3> QED BY <3>1, <3>2, <2>3
  <2> QED BY <1>14, <2>4, <2>5, <2>6
<1> QED
  BY <1>1, <1>2, <1>3, <1>4, <1>5, <1>6, <1>7, <1>8, <1>9, <1>10, <1>11, <1>12, <1>13,
     <1>14 DEF Next

\* When nothing is under way the registry is accurate, whatever has failed,
\* unless a change of the folders crossed a run of the reconcile queue or a
\* discovery found the listener closed (OnlyOverlapped), for any number of
\* changes, discoveries and failures.
THEOREM RegistryAccurate == Spec => []OnlyOverlapped
<1>1. Init => Registry
  <2> SUFFICES ASSUME Init PROVE Registry
    OBVIOUS
  <2>1. \A w \in Writers : write[w].at = "none"
    BY DEF Init, NoWrite
  <2>2. DOMAIN refreshes = {}
    BY DEF Init
  <2> QED BY <2>1, <2>2 DEF Init, Registry, Ordered, InFlight, Writers
<1>2. IInv /\ Registry /\ [Next]_vars => Registry'
  <2>1. CASE UNCHANGED vars
    BY <2>1 DEF Registry, Ordered, InFlight, Current, vars, host, history, bounds
  <2> QED BY <2>1, RegistryStep DEF IInv
<1>3. IInv /\ Registry => OnlyOverlapped
  <2> SUFFICES ASSUME IInv, Registry, AtRest, ~overlapped PROVE Accurate
    BY DEF OnlyOverlapped
  <2>1. run = "none" /\ refreshes = <<>>
    BY DEF IInv, Queues, AtRest, TypeOK
  <2> QED BY <2>1 DEF Registry, Ordered, Accurate
<1> QED BY <1>1, <1>2, <1>3, Inductive, PTL DEF Spec

-----------------------------------------------------------------------------
(***************************************************************************)
(* Calls through the window (BridgeRpc).                                   *)
(***************************************************************************)

\* How far the daemon's side of a call has come, and what it may know by then.
Stages(c) ==
    /\ call[c].at \in {"idle", "connecting", "abandoned"} =>
          up[c] = <<>> /\ down[c] = <<>> /\ peer[c].at = "none"
    /\ call[c].at \in {"idle", "connecting", "initializing", "requested"} => call[c].result = Nil
    /\ call[c].at = "abandoned" => call[c].result = "cancelled"
    /\ call[c].at = "closed" => call[c].result # Nil /\ down[c] = <<>>
    /\ call[c].at = "requested" => call[c].sent
    /\ call[c].sent => call[c].at \in {"requested", "closed"}

\* What is on its way to the window: one message, and the close behind it.
Upwards(c) ==
    \A i \in DOMAIN up[c] :
        /\ up[c][i] # "close" => i = 1
        /\ up[c][i] = "close" => call[c].at = "closed"
        /\ up[c][i] = "initialize" =>
              ~call[c].sent /\ peer[c].at = "open" /\ down[c] = <<>>
        /\ up[c][i] = "request" =>
              /\ call[c].sent /\ c \notin begun /\ call[c].result # "refused"
              /\ peer[c].at = "open" => down[c] = <<>>
              /\ \A j \in DOMAIN down[c] : down[c][j] = "close"

\* What is on its way to the daemon: one answer, which is true, and the close.
Downwards(c) ==
    \A i \in DOMAIN down[c] :
        /\ down[c][i] # "close" => i = 1
        /\ down[c][i] = "close" => peer[c].at = "closed"
        /\ down[c][i] = "initialized" => ~call[c].sent /\ up[c] = <<>>
        /\ down[c][i] = "refused" => up[c] = <<>> /\ c \notin begun
        /\ down[c][i] = "ok" => c \in completed

\* Work is begun for a request that was sent, by the handler of the window.
Handled(c) ==
    /\ c \in begun <=> peer[c].handler # "none"
    /\ c \in completed => c \in begun
    /\ c \in begun => call[c].sent /\ call[c].result # "refused"
    /\ peer[c].handler = "running" /\ peer[c].at = "open" => down[c] = <<>>
    /\ entry[c] = "running" <=> peer[c].handler = "running" /\ call[c].tool \in Rpc!Tracked
    /\ entry[c] = "succeeded" => c \in completed

Sound(c) == Stages(c) /\ Upwards(c) /\ Downwards(c) /\ Handled(c)
Exchange == \A c \in Calls : Sound(c)

Results == {"ok", "error", "refused", "cancelled", "timeout", "unavailable"}
CallState ==
    [at : {"idle", "connecting", "abandoned", "initializing", "requested", "closed"},
     tool : Offered, token : BOOLEAN, cancelled : BOOLEAN, sent : BOOLEAN,
     result : {Nil} \cup Results]
ToWindow == {"initialize", "request", "close"}
ToDaemon == {"initialized", "ok", "error", "refused", "close"}
PeerState == [at : {"none", "open", "closed"}, authenticated : BOOLEAN,
              handler : {"none", "running", "ended"}, aborted : BOOLEAN]
Entries == {"none", "running", "succeeded", "no-op", "rejected", "failed"}

RpcTyped ==
    /\ call \in [Calls -> CallState]
    /\ up \in [Calls -> Seq(ToWindow)] /\ down \in [Calls -> Seq(ToDaemon)]
    /\ peer \in [Calls -> PeerState] /\ entry \in [Calls -> Entries]

\* A step leaves call c alone.
Same(c) ==
    /\ call'[c] = call[c] /\ up'[c] = up[c] /\ down'[c] = down[c] /\ peer'[c] = peer[c]
    /\ entry'[c] = entry[c]
    /\ c \in begun' <=> c \in begun
    /\ c \in completed' <=> c \in completed

\* A step of call d as the caller and the work see it.
Seen(d) ==
    \/ /\ UNCHANGED <<begun, completed>>
       /\ \/ call'[d].result = call[d].result /\ call'[d].sent = call[d].sent
          \/ /\ call[d].result = Nil
             /\ call'[d].result = "ok" => d \in completed
             /\ call'[d].result = "refused" \/ ~call'[d].sent => d \notin begun
    \/ /\ call' = call /\ begun' = begun \cup {d} /\ UNCHANGED completed
       /\ d \notin begun /\ call[d].sent /\ call[d].result # "refused"
    \/ /\ call' = call /\ completed' = completed \cup {d} /\ UNCHANGED begun
       /\ d \in begun /\ d \notin completed

\* A step of call d keeps what is said of it, and leaves the others alone.
Keeps(d) ==
    /\ RpcTyped' /\ Sound(d)'
    /\ \A c \in Calls \ {d} : Same(c)
    /\ Seen(d)

\* What is left of a queue, and the message behind it.
LEMMA Behind ==
    ASSUME NEW S, NEW s \in Seq(S), NEW n \in 0..Len(s), NEW x \in S
    PROVE  /\ Append(SubSeq(s, 1, n), x) \in Seq(S)
           /\ \A i \in DOMAIN Append(SubSeq(s, 1, n), x) :
                 \/ i \in DOMAIN s /\ Append(SubSeq(s, 1, n), x)[i] = s[i]
                 \/ Append(SubSeq(s, 1, n), x)[i] = x
<1> DEFINE t == SubSeq(s, 1, n)
<1>1. t \in Seq(S) /\ Len(t) = n /\ \A i \in 1..n : t[i] = s[i]
  OBVIOUS
<1>2. 1..n \subseteq DOMAIN s
  OBVIOUS
<1> HIDE DEF t
<1>3. /\ Append(t, x) \in Seq(S) /\ DOMAIN Append(t, x) = 1..(n + 1)
      /\ Append(t, x)[n + 1] = x /\ \A i \in 1..n : Append(t, x)[i] = t[i]
  BY <1>1
<1>4. \A i \in 1..(n + 1) : i \in 1..n \/ i = n + 1
  OBVIOUS
<1>5. \A i \in DOMAIN Append(t, x) :
         \/ i \in DOMAIN s /\ Append(t, x)[i] = s[i]
         \/ Append(t, x)[i] = x
  BY <1>1, <1>2, <1>3, <1>4
<1> QED BY <1>3, <1>5 DEF t

\* The first message of a queue, and what is left without it.
LEMMA First ==
    ASSUME NEW S, NEW s \in Seq(S), s # <<>>
    PROVE  /\ 1 \in DOMAIN s /\ Head(s) = s[1] /\ s[1] \in S
           /\ Tail(s) \in Seq(S)
           /\ \A i \in DOMAIN Tail(s) :
                 i + 1 \in DOMAIN s /\ i + 1 # 1 /\ Tail(s)[i] = s[i + 1]
  OBVIOUS

LEMMA One ==
    ASSUME NEW S, NEW x \in S
    PROVE  /\ Append(<<>>, x) \in Seq(S) /\ Append(<<>>, x) = <<x>> /\ <<x>> \in Seq(S)
           /\ DOMAIN <<x>> = {1} /\ <<x>>[1] = x /\ <<>> \in Seq(S) /\ DOMAIN <<>> = {}
  OBVIOUS

\* A call that ends: the connection is closed at the daemon's end, which has told
\* the caller something.
LEMMA Ends ==
    ASSUME RpcTyped, NEW d \in Calls, Sound(d), Rpc!Detach(d),
           UNCHANGED <<peer, entry, begun, completed>>,
           call' \in [Calls -> CallState], \A c \in Calls \ {d} : call'[c] = call[c],
           call'[d].at = "closed", call'[d].result # Nil,
           call'[d].sent = call[d].sent, call'[d].tool = call[d].tool,
           call[d].result # Nil => call'[d].result = call[d].result,
           call'[d].result = "ok" => d \in completed,
           call'[d].result = "refused" => d \notin begun /\ up[d] = <<>>
    PROVE  Keeps(d)
<1> USE DEF RpcTyped
<1>1. PICK n \in 0..Len(up[d]) :
         up' = [up EXCEPT ![d] = IF peer[d].at = "open" THEN Append(SubSeq(up[d], 1, n), "close")
                                 ELSE <<>>]
  BY DEF Rpc!Detach, Rpc!Serving
<1>2. down' = [down EXCEPT ![d] = <<>>]
  BY DEF Rpc!Detach
<1>3. up[d] \in Seq(ToWindow) /\ "close" \in ToWindow
  BY DEF ToWindow
<1>4. /\ <<>> \in Seq(ToWindow) /\ <<>> \in Seq(ToDaemon) /\ DOMAIN <<>> = {}
  OBVIOUS
<1>5. /\ up'[d] \in Seq(ToWindow)
      /\ \A i \in DOMAIN up'[d] : \/ i \in DOMAIN up[d] /\ up'[d][i] = up[d][i]
                                  \/ up'[d][i] = "close"
  <2>1. CASE peer[d].at = "open"
    <3>1. up'[d] = Append(SubSeq(up[d], 1, n), "close")
      BY <1>1, <2>1
    <3> QED BY <1>3, <3>1, Behind
  <2>2. CASE peer[d].at # "open"
    BY <1>1, <1>4, <2>2
  <2> QED BY <2>1, <2>2
<1>6. down'[d] = <<>> /\ down' \in [Calls -> Seq(ToDaemon)] /\ up' \in [Calls -> Seq(ToWindow)]
  BY <1>1, <1>2, <1>4, <1>5
<1>7. up[d] = <<>> => \A i \in DOMAIN up'[d] : up'[d][i] = "close"
  BY <1>4, <1>5
<1>8. \A i \in DOMAIN up'[d] : up'[d][i] = "close" \/ (i \in DOMAIN up[d] /\ up'[d][i] = up[d][i])
  BY <1>5
<1>9. Upwards(d)'
  <2> SUFFICES ASSUME NEW i \in DOMAIN up'[d]
               PROVE  /\ up'[d][i] # "close" => i = 1
                      /\ up'[d][i] = "initialize" =>
                            ~call'[d].sent /\ peer'[d].at = "open" /\ down'[d] = <<>>
                      /\ up'[d][i] = "request" =>
                            /\ call'[d].sent /\ d \notin begun' /\ call'[d].result # "refused"
                            /\ peer'[d].at = "open" => down'[d] = <<>>
                            /\ \A j \in DOMAIN down'[d] : down'[d][j] = "close"
    BY DEF Upwards
  <2>1. CASE up'[d][i] = "close"
    BY <2>1
  <2>2. CASE i \in DOMAIN up[d] /\ up'[d][i] = up[d][i] /\ up[d] # <<>>
    BY <1>4, <1>6, <2>2 DEF Sound, Upwards
  <2>3. CASE up[d] = <<>>
    BY <1>7, <2>3
  <2> QED BY <1>8, <2>1, <2>2, <2>3
<1>10. Stages(d)' /\ Downwards(d)'
  BY <1>4, <1>6 DEF Stages, Downwards, Sound
<1>11. Handled(d)'
  BY <1>6 DEF Handled, Sound
<1>12. \A c \in Calls \ {d} : Same(c)
  BY <1>1, <1>2 DEF Same
<1>13. Seen(d)
  BY DEF Seen, Sound, Handled
<1> QED BY <1>6, <1>9, <1>10, <1>11, <1>12, <1>13 DEF Keeps, Sound

\* The new state of one call, and nothing else of it.
LEMMA OneCall ==
    ASSUME RpcTyped, NEW d \in Calls, NEW s \in CallState, call' = [call EXCEPT ![d] = s]
    PROVE  /\ call' \in [Calls -> CallState] /\ call'[d] = s
           /\ \A c \in Calls \ {d} : call'[c] = call[c]
  BY DEF RpcTyped

LEMMA StartKeeps ==
    ASSUME RpcTyped, NEW d \in Calls, Sound(d), Rpc!Start(d)
    PROVE  Keeps(d)
<1> DEFINE s == IF call[d].cancelled THEN [call[d] EXCEPT !.at = "closed", !.result = "cancelled"]
                ELSE [call[d] EXCEPT !.at = "connecting"]
<1>1. call[d].at = "idle" /\ call[d] \in CallState /\ call' = [call EXCEPT ![d] = s]
      /\ UNCHANGED <<up, down, peer, entry, begun, completed>>
  BY DEF Rpc!Start, Rpc!work, RpcTyped
<1>2. /\ s \in CallState /\ s.sent = call[d].sent /\ s.tool = call[d].tool
      /\ s.at \in {"closed", "connecting"}
      /\ s.at = "closed" => s.result = "cancelled"
      /\ s.at = "connecting" => s.result = call[d].result
  BY <1>1 DEF CallState, Results
<1> HIDE DEF s
<1>3. call' \in [Calls -> CallState] /\ call'[d] = s /\ \A c \in Calls \ {d} : call'[c] = call[c]
  BY <1>1, <1>2, OneCall
<1>4. Nil # "cancelled"
  BY CallsAssumption DEF Rpc!RpcAssumption
<1>5. call[d].result = Nil /\ ~call[d].sent /\ up[d] = <<>> /\ down[d] = <<>>
      /\ peer[d].at = "none" /\ d \notin begun
  BY <1>1 DEF Sound, Stages, Handled, RpcTyped, CallState
<1>6. Sound(d)'
  BY <1>1, <1>2, <1>3, <1>4, <1>5 DEF Sound, Stages, Upwards, Downwards, Handled
<1>7. Seen(d)
  BY <1>1, <1>2, <1>3, <1>4, <1>5, CallsAssumption DEF Seen, Rpc!RpcAssumption
<1> QED BY <1>1, <1>3, <1>6, <1>7 DEF Keeps, Same, RpcTyped

LEMMA ConnectedKeeps ==
    ASSUME RpcTyped, NEW d \in Calls, Sound(d), Rpc!Connected(d)
    PROVE  Keeps(d)
<1> DEFINE s == [call[d] EXCEPT !.at = IF call[d].at = "connecting" THEN "initializing"
                                       ELSE "closed"]
<1> DEFINE message == IF call[d].at = "connecting" THEN "initialize" ELSE "close"
<1>1. /\ call[d].at \in {"connecting", "abandoned"} /\ call[d] \in CallState
      /\ call' = [call EXCEPT ![d] = s]
      /\ peer' = [peer EXCEPT ![d].at = "open"]
      /\ UNCHANGED <<down, entry, begun, completed>>
  BY DEF Rpc!Connected, Rpc!work, RpcTyped
<1>2. up[d] = <<>> /\ down[d] = <<>> /\ ~call[d].sent /\ d \notin begun
  BY <1>1 DEF Sound, Stages, Handled, RpcTyped, CallState
<1>3. up' = [up EXCEPT ![d] = <<message>>]
  BY <1>1, <1>2, One DEF Rpc!Connected, Rpc!Send
<1>4. message \in ToWindow /\ message \in {"initialize", "close"}
  BY DEF ToWindow
<1>5. /\ s \in CallState /\ s.sent = call[d].sent /\ s.tool = call[d].tool
      /\ s.result = call[d].result
      /\ message = "initialize" => s.at = "initializing" /\ call[d].at = "connecting"
      /\ message = "close" => s.at = "closed" /\ call[d].at = "abandoned"
  BY <1>1 DEF CallState
<1> HIDE DEF s, message
<1>6. /\ call' \in [Calls -> CallState] /\ call'[d] = s
      /\ \A c \in Calls \ {d} : call'[c] = call[c]
  BY <1>1, <1>5, OneCall
<1>7. /\ up' \in [Calls -> Seq(ToWindow)] /\ up'[d] = <<message>>
      /\ DOMAIN up'[d] = {1} /\ up'[d][1] = message
      /\ \A c \in Calls \ {d} : up'[c] = up[c]
  BY <1>3, <1>4, One DEF RpcTyped
<1>8. /\ peer' \in [Calls -> PeerState] /\ peer'[d].at = "open"
      /\ peer'[d].handler = peer[d].handler
      /\ \A c \in Calls \ {d} : peer'[c] = peer[c]
  BY <1>1 DEF RpcTyped, PeerState
<1>9. Nil # "cancelled" /\ DOMAIN <<>> = {}
  BY CallsAssumption DEF Rpc!RpcAssumption
<1>10. Stages(d)'
  BY <1>1, <1>2, <1>4, <1>5, <1>6, <1>9 DEF Sound, Stages
<1>11. Upwards(d)' /\ Downwards(d)' /\ Handled(d)'
  BY <1>1, <1>2, <1>4, <1>5, <1>6, <1>7, <1>8, <1>9
     DEF Sound, Stages, Upwards, Downwards, Handled
<1>12. Seen(d)
  BY <1>1, <1>2, <1>5, <1>6, CallsAssumption DEF Seen, Sound, Stages, Rpc!RpcAssumption
<1> QED BY <1>1, <1>6, <1>7, <1>8, <1>10, <1>11, <1>12 DEF Keeps, Same, Sound, RpcTyped

\* Every way in which the daemon gives a call up.
LEMMA GivenUp ==
    ASSUME RpcTyped, NEW d \in Calls, Sound(d), NEW result \in Results, Rpc!Close(d, result),
           UNCHANGED <<peer, entry, begun, completed>>,
           call[d].at \in {"connecting", "abandoned", "initializing", "requested"},
           result = "ok" => d \in completed,
           result = "refused" => d \notin begun /\ up[d] = <<>>
    PROVE  Keeps(d)
<1> DEFINE s == [call[d] EXCEPT !.at = "closed", !.result = Rpc!Told(d, result)]
<1>1. call[d] \in CallState /\ Rpc!Detach(d) /\ call' = [call EXCEPT ![d] = s]
  BY DEF Rpc!Close, RpcTyped
<1>2. Rpc!Told(d, result) = (IF call[d].result = Nil THEN result ELSE call[d].result)
  BY DEF Rpc!Told
<1>3. Nil \notin Results
  BY CallsAssumption DEF Rpc!RpcAssumption, Results
<1>4. /\ s \in CallState /\ s.at = "closed" /\ s.sent = call[d].sent /\ s.tool = call[d].tool
      /\ s.result = Rpc!Told(d, result)
  BY <1>1, <1>2 DEF CallState
<1> HIDE DEF s
<1>5. call' \in [Calls -> CallState] /\ call'[d] = s /\ \A c \in Calls \ {d} : call'[c] = call[c]
  BY <1>1, <1>4, OneCall
<1>6. call[d].result \in {Nil, "cancelled"}
  BY DEF Sound, Stages
<1>7. s.result # Nil /\ (call[d].result # Nil => s.result = call[d].result)
      /\ s.result \in {result, "cancelled"}
  BY <1>2, <1>3, <1>4, <1>6
<1> QED BY <1>1, <1>4, <1>5, <1>7, Ends

LEMMA CancelKeeps ==
    ASSUME RpcTyped, NEW d \in Calls, Sound(d), Rpc!Cancel(d)
    PROVE  Keeps(d)
<1>1. call[d] \in CallState /\ UNCHANGED <<peer, entry, begun, completed>>
  BY DEF Rpc!Cancel, Rpc!work, RpcTyped
<1>2. Nil # "cancelled"
  BY CallsAssumption DEF Rpc!RpcAssumption
<1>3. CASE call[d].at = "idle"
  <2> DEFINE s == [call[d] EXCEPT !.cancelled = TRUE]
  <2>1. call' = [call EXCEPT ![d] = s] /\ UNCHANGED <<up, down>>
    BY <1>3 DEF Rpc!Cancel
  <2>2. s \in CallState /\ s.at = call[d].at /\ s.sent = call[d].sent /\ s.tool = call[d].tool
        /\ s.result = call[d].result
    BY <1>1 DEF CallState
  <2> HIDE DEF s
  <2>3. /\ call' \in [Calls -> CallState] /\ call'[d] = s
        /\ \A c \in Calls \ {d} : call'[c] = call[c]
    BY <2>1, <2>2, OneCall
  <2>4. Sound(d)'
    BY <1>1, <2>1, <2>2, <2>3 DEF Sound, Stages, Upwards, Downwards, Handled
  <2>5. Seen(d)
    BY <1>1, <1>3, <2>2, <2>3, CallsAssumption DEF Seen, Sound, Stages, Handled, Rpc!RpcAssumption
  <2> QED BY <1>1, <2>1, <2>3, <2>4, <2>5 DEF Keeps, Same, RpcTyped
<1>4. CASE call[d].at = "connecting"
  <2> DEFINE s == [call[d] EXCEPT !.cancelled = TRUE, !.at = "abandoned", !.result = "cancelled"]
  <2>1. call' = [call EXCEPT ![d] = s] /\ UNCHANGED <<up, down>>
    BY <1>4 DEF Rpc!Cancel
  <2>2. s \in CallState /\ s.at = "abandoned" /\ s.sent = call[d].sent /\ s.tool = call[d].tool
        /\ s.result = "cancelled"
    BY <1>1 DEF CallState, Results
  <2> HIDE DEF s
  <2>3. /\ call' \in [Calls -> CallState] /\ call'[d] = s
        /\ \A c \in Calls \ {d} : call'[c] = call[c]
    BY <2>1, <2>2, OneCall
  <2>4. up[d] = <<>> /\ down[d] = <<>> /\ ~call[d].sent /\ d \notin begun
        /\ peer[d].at = "none" /\ call[d].result = Nil
    BY <1>4 DEF Sound, Stages, Handled, RpcTyped, CallState
  <2>5. Sound(d)'
    BY <1>1, <2>1, <2>2, <2>3, <2>4 DEF Sound, Stages, Upwards, Downwards, Handled
  <2>6. Seen(d)
    BY <1>1, <2>2, <2>3, <2>4 DEF Seen
  <2> QED BY <1>1, <2>1, <2>3, <2>5, <2>6 DEF Keeps, Same, RpcTyped
<1>5. CASE call[d].at \in {"initializing", "requested"}
  <2> DEFINE s == [call[d] EXCEPT !.cancelled = TRUE, !.at = "closed", !.result = "cancelled"]
  <2>1. call' = [call EXCEPT ![d] = s] /\ Rpc!Detach(d)
    BY <1>5 DEF Rpc!Cancel
  <2>2. s \in CallState /\ s.at = "closed" /\ s.sent = call[d].sent /\ s.tool = call[d].tool
        /\ s.result = "cancelled"
    BY <1>1 DEF CallState, Results
  <2> HIDE DEF s
  <2>3. /\ call' \in [Calls -> CallState] /\ call'[d] = s
        /\ \A c \in Calls \ {d} : call'[c] = call[c]
    BY <2>1, <2>2, OneCall
  <2>4. call[d].result = Nil
    BY <1>5 DEF Sound, Stages
  <2> QED BY <1>1, <1>2, <2>1, <2>2, <2>3, <2>4, Ends
<1> QED BY <1>3, <1>4, <1>5 DEF Rpc!Cancel

LEMMA DaemonKeeps ==
    ASSUME RpcTyped, NEW d \in Calls, Sound(d), Rpc!Daemon(d)
    PROVE  Keeps(d)
<1>1. CASE Rpc!ConnectFails(d)
  <2>1. PICK result \in {"timeout", "unavailable"} : Rpc!Close(d, result)
    BY <1>1 DEF Rpc!ConnectFails
  <2> QED BY <1>1, <2>1, GivenUp DEF Rpc!ConnectFails, Rpc!work, Results
<1>2. CASE Rpc!TimesOut(d)
  BY <1>2, GivenUp DEF Rpc!TimesOut, Rpc!work, Results
<1>3. CASE Rpc!DaemonReceives(d)
  <2>1. /\ down[d] # <<>> /\ UNCHANGED <<peer, entry, begun, completed>>
        /\ call[d] \in CallState /\ down[d] \in Seq(ToDaemon)
        /\ call[d].at \in {"connecting", "abandoned", "initializing", "requested"}
    BY <1>3 DEF Rpc!DaemonReceives, Rpc!Attached, Rpc!work, RpcTyped
  <2>2. call[d].at \in {"initializing", "requested"}
    BY <2>1 DEF Sound, Stages
  <2>3. /\ 1 \in DOMAIN down[d] /\ Head(down[d]) = down[d][1] /\ down[d][1] \in ToDaemon
        /\ Tail(down[d]) \in Seq(ToDaemon)
        /\ \A i \in DOMAIN Tail(down[d]) :
              i + 1 \in DOMAIN down[d] /\ i + 1 # 1 /\ Tail(down[d])[i] = down[d][i + 1]
    BY <2>1, First
  <2>4. CASE down[d][1] = "initialized"
    <3> DEFINE s == [call[d] EXCEPT !.at = "requested", !.sent = TRUE]
    <3> DEFINE rest == Tail(down[d])
    <3>1. ~call[d].sent /\ up[d] = <<>> /\ d \notin begun /\ call[d].result = Nil
      BY <2>2, <2>3, <2>4 DEF Sound, Downwards, Stages, Handled
    <3>2. /\ call' = [call EXCEPT ![d] = s] /\ down' = [down EXCEPT ![d] = rest]
          /\ up' = [up EXCEPT ![d] = <<"request">>]
      BY <1>3, <2>3, <2>4, <3>1, One DEF Rpc!DaemonReceives, Rpc!Send
    <3>3. s \in CallState /\ s.at = "requested" /\ s.sent /\ s.tool = call[d].tool
          /\ s.result = call[d].result
      BY <2>1 DEF CallState
    <3>4. /\ rest \in Seq(ToDaemon)
          /\ \A i \in DOMAIN rest : rest[i] = "close" /\ peer[d].at = "closed"
      BY <2>3 DEF Sound, Downwards
    <3>5. peer[d].at = "open" => rest = <<>>
      BY <3>4, First
    <3> HIDE DEF s, rest
    <3>6. /\ call' \in [Calls -> CallState] /\ call'[d] = s
          /\ \A c \in Calls \ {d} : call'[c] = call[c]
      BY <3>2, <3>3, OneCall
    <3>7. /\ up' \in [Calls -> Seq(ToWindow)] /\ up'[d] = <<"request">>
          /\ DOMAIN up'[d] = {1} /\ up'[d][1] = "request"
          /\ \A c \in Calls \ {d} : up'[c] = up[c]
      BY <3>2, One DEF RpcTyped, ToWindow
    <3>8. /\ down' \in [Calls -> Seq(ToDaemon)] /\ down'[d] = rest
          /\ \A c \in Calls \ {d} : down'[c] = down[c]
      BY <3>2, <3>4 DEF RpcTyped
    <3>9. Nil # "refused" /\ Nil # "ok" /\ peer'[d] = peer[d]
      BY <2>1, CallsAssumption DEF Rpc!RpcAssumption
    <3>10. Stages(d)'
      BY <3>1, <3>3, <3>6 DEF Stages
    <3>11. Upwards(d)'
      BY <2>1, <3>1, <3>3, <3>4, <3>5, <3>6, <3>7, <3>8, <3>9 DEF Upwards
    <3>12. Downwards(d)' /\ Handled(d)'
      BY <2>1, <3>1, <3>3, <3>4, <3>5, <3>6, <3>8, <3>9 DEF Sound, Downwards, Handled
    <3>13. Seen(d)
      BY <2>1, <3>1, <3>3, <3>6, <3>9 DEF Seen
    <3> QED BY <2>1, <3>6, <3>7, <3>8, <3>10, <3>11, <3>12, <3>13 DEF Keeps, Same, Sound, RpcTyped
  <2>5. CASE down[d][1] # "initialized"
    <3> DEFINE result == IF down[d][1] = "close" THEN "unavailable" ELSE down[d][1]
    <3>1. Rpc!Close(d, result)
      BY <1>3, <2>3, <2>5 DEF Rpc!DaemonReceives
    <3>2. result \in Results
      BY <2>3, <2>5 DEF ToDaemon, Results
    <3>3. /\ result = "ok" => d \in completed
          /\ result = "refused" => d \notin begun /\ up[d] = <<>>
      BY <2>3, <2>5 DEF Sound, Downwards
    <3> HIDE DEF result
    <3> QED BY <2>1, <3>1, <3>2, <3>3, GivenUp
  <2> QED BY <2>4, <2>5
<1> QED BY <1>1, <1>2, <1>3, StartKeeps, ConnectedKeeps DEF Rpc!Daemon

\* The answer of the window, which a daemon that has left never sees.
LEMMA Replied ==
    ASSUME RpcTyped, NEW d \in Calls, Sound(d), NEW message \in ToDaemon, Rpc!Reply(d, message),
           down[d] = <<>>
    PROVE  /\ down' \in [Calls -> Seq(ToDaemon)] /\ \A c \in Calls \ {d} : down'[c] = down[c]
           /\ \/ down'[d] = <<>>
              \/ /\ down'[d] = <<message>> /\ DOMAIN down'[d] = {1} /\ down'[d][1] = message
                 /\ call[d].at # "closed"
<1>1. CASE Rpc!Attached(d)
  <2>1. down' = [down EXCEPT ![d] = <<message>>] /\ call[d].at # "closed"
    BY <1>1, One DEF Rpc!Reply, Rpc!Attached
  <2> QED BY <2>1, One DEF RpcTyped
<1>2. CASE ~Rpc!Attached(d)
  BY <1>2 DEF Rpc!Reply, RpcTyped
<1> QED BY <1>1, <1>2

\* Behind the message the window reads there is at most a close.
LEMMA Reads ==
    ASSUME RpcTyped, NEW d \in Calls, Sound(d), up[d] # <<>>, up' = [up EXCEPT ![d] = Tail(@)]
    PROVE  /\ 1 \in DOMAIN up[d] /\ Head(up[d]) = up[d][1]
           /\ up' \in [Calls -> Seq(ToWindow)] /\ \A c \in Calls \ {d} : up'[c] = up[c]
           /\ \A i \in DOMAIN up'[d] : up'[d][i] = "close" /\ call[d].at = "closed"
           /\ call[d].at # "closed" => up'[d] = <<>>
           /\ call[d].at \in {"initializing", "requested", "closed"}
<1>1. up[d] \in Seq(ToWindow) /\ up' = [up EXCEPT ![d] = Tail(up[d])]
  BY DEF RpcTyped
<1>2. /\ 1 \in DOMAIN up[d] /\ Head(up[d]) = up[d][1]
      /\ Tail(up[d]) \in Seq(ToWindow)
      /\ \A i \in DOMAIN Tail(up[d]) :
            i + 1 \in DOMAIN up[d] /\ i + 1 # 1 /\ Tail(up[d])[i] = up[d][i + 1]
  BY <1>1, First
<1>3. \A i \in DOMAIN Tail(up[d]) : Tail(up[d])[i] = "close" /\ call[d].at = "closed"
  BY <1>2 DEF Sound, Upwards
<1>4. call[d].at # "closed" => Tail(up[d]) = <<>>
  BY <1>2, <1>3, First
<1>5. /\ up' \in [Calls -> Seq(ToWindow)] /\ up'[d] = Tail(up[d])
      /\ \A c \in Calls \ {d} : up'[c] = up[c]
  BY <1>1, <1>2 DEF RpcTyped
<1>6. call[d].at \in {"initializing", "requested", "closed"}
  BY DEF Sound, Stages, RpcTyped, CallState
<1> QED BY <1>2, <1>3, <1>4, <1>5, <1>6

LEMMA InitializeKeeps ==
    ASSUME RpcTyped, NEW d \in Calls, Sound(d), Rpc!Initialize(d)
    PROVE  Keeps(d)
<1>1. /\ peer[d].at = "open" /\ up[d] # <<>> /\ Head(up[d]) = "initialize"
      /\ up' = [up EXCEPT ![d] = Tail(@)]
      /\ UNCHANGED <<call, entry, begun, completed>>
  BY DEF Rpc!Initialize, Rpc!Serving, Rpc!work
<1>R. 1 \in DOMAIN up[d] /\ up[d][1] = "initialize"
  BY <1>1, Reads
<1>2. ~call[d].sent /\ down[d] = <<>> /\ d \notin begun
  BY <1>R DEF Sound, Upwards, Handled
<1>3. PICK message \in {"initialized", "refused"} : Rpc!Reply(d, message)
  BY DEF Rpc!Initialize
<1>4. /\ down' \in [Calls -> Seq(ToDaemon)] /\ \A c \in Calls \ {d} : down'[c] = down[c]
      /\ \/ down'[d] = <<>>
         \/ /\ down'[d] = <<message>> /\ DOMAIN down'[d] = {1} /\ down'[d][1] = message
            /\ call[d].at # "closed"
  BY <1>2, <1>3, Replied DEF ToDaemon
<1>5. /\ peer' \in [Calls -> PeerState] /\ \A c \in Calls \ {d} : peer'[c] = peer[c]
      /\ peer'[d].at = peer[d].at /\ peer'[d].handler = peer[d].handler
  <2>1. peer \in [Calls -> PeerState] /\ peer[d] \in PeerState
    BY DEF RpcTyped
  <2>2. CASE UNCHANGED peer
    BY <2>1, <2>2
  <2>3. CASE peer' = [peer EXCEPT ![d].authenticated = TRUE]
    <3> DEFINE q == [peer[d] EXCEPT !.authenticated = TRUE]
    <3>1. q \in PeerState /\ q.at = peer[d].at /\ q.handler = peer[d].handler
      BY <2>1 DEF PeerState
    <3>2. peer' = [peer EXCEPT ![d] = q]
      BY <2>3
    <3> HIDE DEF q
    <3> QED BY <2>1, <3>1, <3>2
  <2> QED BY <2>2, <2>3 DEF Rpc!Initialize
<1>6. Upwards(d)'
  BY ZenonT(40), <1>1, Reads DEF Upwards
<1>7. Downwards(d)'
  <2>1. CASE down'[d] = <<>>
    BY <2>1, One DEF Downwards
  <2>2. CASE DOMAIN down'[d] = {1} /\ down'[d][1] = message /\ call[d].at # "closed"
    BY <1>1, <1>2, <2>2, Reads DEF Downwards
  <2> QED BY <1>4, <2>1, <2>2
<1>8. Stages(d)' /\ Handled(d)'
  BY <1>1, <1>2, <1>4, <1>5, Reads DEF Sound, Stages, Handled
<1>9. Seen(d)
  BY <1>1, <1>2 DEF Seen, Sound, Stages, Handled
<1> QED BY <1>1, <1>4, <1>5, <1>6, <1>7, <1>8, <1>9, Reads DEF Keeps, Same, Sound, RpcTyped

LEMMA HandleKeeps ==
    ASSUME RpcTyped, NEW d \in Calls, Sound(d), Rpc!Handle(d)
    PROVE  Keeps(d)
<1>1. /\ peer[d].at = "open" /\ up[d] # <<>> /\ Head(up[d]) = "request"
      /\ up' = [up EXCEPT ![d] = Tail(@)]
      /\ UNCHANGED <<call, completed>>
  BY DEF Rpc!Handle, Rpc!Serving
<1>R. 1 \in DOMAIN up[d] /\ up[d][1] = "request"
  BY <1>1, Reads
<1>2. /\ call[d].sent /\ down[d] = <<>> /\ d \notin begun /\ call[d].result # "refused"
      /\ d \notin completed /\ peer[d].handler = "none"
  BY <1>1, <1>R DEF Sound, Upwards, Handled
<1>3. Upwards(d)'
  BY ZenonT(40), <1>1, Reads DEF Upwards
<1>4. CASE Rpc!Admits(d)
  <2>1. /\ begun' = begun \cup {d} /\ UNCHANGED down
        /\ peer' = [peer EXCEPT ![d].handler = "running"]
        /\ entry' = IF call[d].tool \in Rpc!Tracked THEN [entry EXCEPT ![d] = "running"] ELSE entry
    BY <1>4 DEF Rpc!Handle
  <2>2. /\ peer' \in [Calls -> PeerState] /\ \A c \in Calls \ {d} : peer'[c] = peer[c]
        /\ peer'[d].at = peer[d].at /\ peer'[d].handler = "running"
    BY <2>1 DEF RpcTyped, PeerState
  <2>3. /\ entry' \in [Calls -> Entries] /\ \A c \in Calls \ {d} : entry'[c] = entry[c]
        /\ call[d].tool \in Rpc!Tracked => entry'[d] = "running"
        /\ call[d].tool \notin Rpc!Tracked => entry'[d] = entry[d]
    BY <2>1 DEF RpcTyped, Entries
  <2>4. Downwards(d)'
    BY <1>2, <2>1, One DEF Downwards
  <2>5. Stages(d)'
    BY <1>1, <1>2, <2>1, <2>2, Reads DEF Sound, Stages
  <2>6. Handled(d)'
    BY <1>1, <1>2, <2>1, <2>2, <2>3 DEF Sound, Handled
  <2>7. Seen(d)
    BY <1>1, <1>2, <2>1 DEF Seen
  <2> QED BY <1>1, <1>3, <2>1, <2>2, <2>3, <2>4, <2>5, <2>6, <2>7, Reads
          DEF Keeps, Same, Sound, RpcTyped
<1>5. CASE ~Rpc!Admits(d)
  <2>1. Rpc!Reply(d, "refused") /\ UNCHANGED <<peer, begun, entry>>
    BY <1>5 DEF Rpc!Handle
  <2>2. /\ down' \in [Calls -> Seq(ToDaemon)] /\ \A c \in Calls \ {d} : down'[c] = down[c]
        /\ \/ down'[d] = <<>>
           \/ /\ DOMAIN down'[d] = {1} /\ down'[d][1] = "refused" /\ call[d].at # "closed"
    BY <1>2, <2>1, Replied DEF ToDaemon
  <2>3. Downwards(d)'
    <3>1. CASE down'[d] = <<>>
      BY <3>1, One DEF Downwards
    <3>2. CASE DOMAIN down'[d] = {1} /\ down'[d][1] = "refused" /\ call[d].at # "closed"
      BY <1>1, <1>2, <2>1, <3>2, Reads DEF Downwards
    <3> QED BY <2>2, <3>1, <3>2
  <2>4. Stages(d)' /\ Handled(d)'
    BY <1>1, <1>2, <2>1, <2>2, Reads DEF Sound, Stages, Handled
  <2>5. Seen(d)
    BY <1>1, <1>2, <2>1 DEF Seen, Sound, Stages, Handled
  <2> QED BY <1>1, <1>3, <2>1, <2>2, <2>3, <2>4, <2>5, Reads DEF Keeps, Same, Sound, RpcTyped
<1> QED BY <1>4, <1>5

LEMMA WorkKeeps ==
    ASSUME RpcTyped, NEW d \in Calls, Sound(d), Rpc!Work(d)
    PROVE  Keeps(d)
<1>1. /\ peer[d].handler = "running" /\ d \notin completed /\ completed' = completed \cup {d}
      /\ UNCHANGED <<call, up, down, peer, entry, begun>>
  BY DEF Rpc!Work
<1>2. d \in begun
  BY <1>1 DEF Sound, Handled
<1>3. Sound(d)'
  BY <1>1, <1>2 DEF Sound, Stages, Upwards, Downwards, Handled
<1> QED BY <1>1, <1>2, <1>3 DEF Keeps, Same, Seen, RpcTyped

LEMMA HandlerEndsKeeps ==
    ASSUME RpcTyped, NEW d \in Calls, Sound(d), Rpc!HandlerEnds(d)
    PROVE  Keeps(d)
<1>1. PICK ok \in BOOLEAN :
         /\ IF ok THEN Rpc!Returns(d) ELSE peer[d].handler = "running"
         /\ \E status \in IF ok THEN {"succeeded", "no-op"} ELSE {"rejected", "failed"} :
               entry' = IF entry[d] = "running" THEN [entry EXCEPT ![d] = status] ELSE entry
         /\ IF peer[d].aborted \/ ~ Rpc!Serving(d) THEN UNCHANGED down
            ELSE Rpc!Reply(d, IF ok THEN "ok" ELSE "error")
  BY DEF Rpc!HandlerEnds
<1>2. PICK status \in IF ok THEN {"succeeded", "no-op"} ELSE {"rejected", "failed"} :
         entry' = IF entry[d] = "running" THEN [entry EXCEPT ![d] = status] ELSE entry
  BY <1>1
<1>3. /\ peer' = [peer EXCEPT ![d].handler = "ended"]
      /\ UNCHANGED <<call, up, begun, completed>>
  BY DEF Rpc!HandlerEnds
<1>4. peer[d].handler = "running" /\ (ok => d \in completed)
  BY <1>1 DEF Rpc!Returns
<1>5. d \in begun /\ call[d].sent
  BY <1>4 DEF Sound, Handled
<1>6. /\ peer' \in [Calls -> PeerState] /\ \A c \in Calls \ {d} : peer'[c] = peer[c]
      /\ peer'[d].at = peer[d].at /\ peer'[d].handler = "ended"
  BY <1>3 DEF RpcTyped, PeerState
<1>7. /\ entry' \in [Calls -> Entries] /\ \A c \in Calls \ {d} : entry'[c] = entry[c]
      /\ entry'[d] # "running"
      /\ entry'[d] = "succeeded" => entry[d] = "succeeded" \/ ok
  BY <1>2 DEF RpcTyped, Entries
<1>8. \A i \in DOMAIN up[d] : up[d][i] = "close" /\ call[d].at = "closed"
  <2>1. up[d] \in Seq(ToWindow)
    BY DEF RpcTyped
  <2>2. \A i \in DOMAIN up[d] : up[d][i] \in ToWindow
    BY <2>1
  <2> QED BY <1>5, <2>2 DEF Sound, Upwards, ToWindow
<1>9. Upwards(d)'
  BY <1>3, <1>8 DEF Upwards
<1>10. /\ down' \in [Calls -> Seq(ToDaemon)] /\ \A c \in Calls \ {d} : down'[c] = down[c]
       /\ \/ down'[d] = down[d]
          \/ /\ DOMAIN down'[d] = {1} /\ down'[d][1] = (IF ok THEN "ok" ELSE "error")
             /\ call[d].at # "closed"
  <2>1. CASE UNCHANGED down
    BY <2>1 DEF RpcTyped
  <2>2. CASE Rpc!Serving(d) /\ Rpc!Reply(d, IF ok THEN "ok" ELSE "error")
    <3>1. down[d] = <<>>
      BY <1>4, <2>2 DEF Rpc!Serving, Sound, Handled
    <3>2. (IF ok THEN "ok" ELSE "error") \in ToDaemon
      BY DEF ToDaemon
    <3> QED BY <2>2, <3>1, <3>2, Replied
  <2> QED BY <1>1, <2>1, <2>2
<1>11. Downwards(d)'
  <2>1. CASE down'[d] = down[d]
    BY <1>3, <1>6, <2>1 DEF Sound, Downwards
  <2>2. CASE /\ DOMAIN down'[d] = {1} /\ down'[d][1] = (IF ok THEN "ok" ELSE "error")
             /\ call[d].at # "closed"
    BY <1>3, <1>4, <2>2 DEF Downwards
  <2> QED BY <1>10, <2>1, <2>2
<1>12. Stages(d)'
  <2>1. call[d].at \in {"requested", "closed"}
    BY <1>5 DEF Sound, Stages
  <2> QED BY <1>3, <1>10, <2>1 DEF Sound, Stages
<1>13. Handled(d)'
  BY <1>3, <1>4, <1>5, <1>6, <1>7 DEF Sound, Handled
<1>14. Seen(d)
  BY <1>3, <1>5 DEF Seen, Sound, Stages, Handled
<1> QED BY <1>3, <1>6, <1>7, <1>9, <1>10, <1>11, <1>12, <1>13, <1>14
        DEF Keeps, Same, Sound, RpcTyped

LEMMA WindowSeesCloseKeeps ==
    ASSUME RpcTyped, NEW d \in Calls, Sound(d), Rpc!WindowSeesClose(d)
    PROVE  Keeps(d)
<1>1. /\ up[d] # <<>> /\ Head(up[d]) = "close" /\ up' = [up EXCEPT ![d] = <<>>]
      /\ peer' = [peer EXCEPT ![d] = Rpc!Gone(peer[d])]
      /\ UNCHANGED <<call, down, entry, begun, completed>>
  BY DEF Rpc!WindowSeesClose, Rpc!work
<1>2. up[d] \in Seq(ToWindow) /\ peer[d] \in PeerState
  BY DEF RpcTyped
<1>3. call[d].at = "closed" /\ down[d] = <<>>
  BY <1>1, <1>2, First DEF Sound, Upwards, Stages
<1>4. Rpc!Gone(peer[d]) \in PeerState /\ Rpc!Gone(peer[d]).at = "closed"
      /\ Rpc!Gone(peer[d]).handler = peer[d].handler
  BY <1>2 DEF Rpc!Gone, PeerState
<1>5. /\ peer' \in [Calls -> PeerState] /\ peer'[d].at = "closed"
      /\ peer'[d].handler = peer[d].handler
      /\ \A c \in Calls \ {d} : peer'[c] = peer[c]
  BY <1>1, <1>4 DEF RpcTyped
<1>6. /\ up' \in [Calls -> Seq(ToWindow)] /\ up'[d] = <<>>
      /\ \A c \in Calls \ {d} : up'[c] = up[c]
  BY <1>1, One DEF RpcTyped
<1>7. Sound(d)'
  BY <1>1, <1>3, <1>5, <1>6, One DEF Sound, Stages, Upwards, Downwards, Handled
<1>8. Seen(d)
  BY <1>1 DEF Seen, Sound, Stages, Handled
<1> QED BY <1>1, <1>5, <1>6, <1>7, <1>8 DEF Keeps, Same, RpcTyped

LEMMA WindowKeeps ==
    ASSUME RpcTyped, NEW d \in Calls, Sound(d), Rpc!Window(d), ~Rpc!IdleTimesOut(d)
    PROVE  Keeps(d)
  BY InitializeKeeps, HandleKeeps, WorkKeeps, HandlerEndsKeeps, WindowSeesCloseKeeps
     DEF Rpc!Window

\* Connections that the window destroys, in any number.
LEMMA DestroyedKeeps ==
    ASSUME RpcTyped, Exchange, NEW cs \in SUBSET Calls, \A c \in cs : peer[c].at = "open",
           Rpc!Destroyed(cs), UNCHANGED <<call, entry, begun, completed>>
    PROVE  RpcTyped' /\ Exchange'
<1>1. PICK kept \in [cs -> 0..1] :
         down' = [c \in Calls |->
              IF c \in cs /\ Rpc!Attached(c)
              THEN Append(SubSeq(down[c], 1, IF kept[c] = 0 THEN 0 ELSE Len(down[c])), "close")
              ELSE down[c]]
  BY DEF Rpc!Destroyed
<1>2. /\ peer' = [c \in Calls |-> IF c \in cs THEN Rpc!Gone(peer[c]) ELSE peer[c]]
      /\ up' = [c \in Calls |-> IF c \in cs THEN <<>> ELSE up[c]]
  BY DEF Rpc!Destroyed
<1>3. ASSUME NEW d \in cs
      PROVE  /\ peer'[d] \in PeerState /\ peer'[d].at = "closed"
             /\ peer'[d].handler = peer[d].handler
  <2>1. peer[d] \in PeerState /\ peer'[d] = Rpc!Gone(peer[d])
    BY <1>2 DEF RpcTyped
  <2> QED BY <2>1 DEF Rpc!Gone, PeerState
<1>4. ASSUME NEW d \in cs
      PROVE  up'[d] = <<>> /\ DOMAIN up'[d] = {} /\ up'[d] \in Seq(ToWindow)
  BY <1>2, One
<1>5. ASSUME NEW d \in cs
      PROVE  /\ down'[d] \in Seq(ToDaemon)
             /\ \A i \in DOMAIN down'[d] : \/ i \in DOMAIN down[d] /\ down'[d][i] = down[d][i]
                                          \/ down'[d][i] = "close"
             /\ call[d].at = "closed" => down'[d] = <<>>
  <2>1. down[d] \in Seq(ToDaemon) /\ "close" \in ToDaemon
    BY DEF RpcTyped, ToDaemon
  <2>2. CASE Rpc!Attached(d)
    <3> DEFINE n == IF kept[d] = 0 THEN 0 ELSE Len(down[d])
    <3>1. n \in 0..Len(down[d])
      BY <2>1
    <3> HIDE DEF n
    <3>2. down'[d] = Append(SubSeq(down[d], 1, n), "close")
      BY <1>1, <2>2 DEF n
    <3> QED BY <2>1, <2>2, <3>1, <3>2, Behind DEF Rpc!Attached
  <2>3. CASE ~Rpc!Attached(d)
    <3>1. down'[d] = down[d]
      BY <1>1, <2>3
    <3> QED BY <2>1, <3>1 DEF Exchange, Sound, Stages
  <2> QED BY <2>2, <2>3
<1>6. ASSUME NEW d \in Calls \ cs
      PROVE  peer'[d] = peer[d] /\ up'[d] = up[d] /\ down'[d] = down[d]
  BY <1>1, <1>2
<1>7. RpcTyped'
  <2>1. peer' \in [Calls -> PeerState]
    BY <1>2, <1>3, <1>6 DEF RpcTyped
  <2>2. up' \in [Calls -> Seq(ToWindow)]
    BY <1>2, <1>4, <1>6 DEF RpcTyped
  <2>3. down' \in [Calls -> Seq(ToDaemon)]
    BY <1>1, <1>5, <1>6 DEF RpcTyped
  <2> QED BY <2>1, <2>2, <2>3 DEF RpcTyped
<1>8. ASSUME NEW d \in cs PROVE Sound(d)'
  <2>1. Sound(d) /\ peer[d].at = "open" /\ d \in Calls
    BY DEF Exchange
  <2>2. call[d].at \notin {"idle", "connecting", "abandoned"}
    BY <2>1 DEF Sound, Stages
  <2>3. Stages(d)'
    BY <1>5, <2>1, <2>2 DEF Sound, Stages
  <2>4. Upwards(d)'
    BY <1>4 DEF Upwards
  <2>5. Downwards(d)'
    <3> SUFFICES ASSUME NEW i \in DOMAIN down'[d]
                 PROVE  /\ down'[d][i] # "close" => i = 1
                        /\ down'[d][i] = "close" => peer'[d].at = "closed"
                        /\ down'[d][i] = "initialized" => ~call'[d].sent /\ up'[d] = <<>>
                        /\ down'[d][i] = "refused" => up'[d] = <<>> /\ d \notin begun'
                        /\ down'[d][i] = "ok" => d \in completed'
      BY DEF Downwards
    <3>1. CASE down'[d][i] = "close"
      BY <1>3, <3>1
    <3>2. CASE i \in DOMAIN down[d] /\ down'[d][i] = down[d][i]
      BY <1>3, <1>4, <2>1, <3>2 DEF Sound, Downwards
    <3> QED BY <1>5, <3>1, <3>2
  <2>6. Handled(d)'
    BY <1>3, <2>1 DEF Sound, Handled
  <2> QED BY <2>3, <2>4, <2>5, <2>6 DEF Sound
<1>9. ASSUME NEW d \in Calls \ cs PROVE Sound(d)'
  <2>1. Sound(d)
    BY DEF Exchange
  <2> QED BY <1>6, <2>1 DEF Sound, Stages, Upwards, Downwards, Handled
<1> QED BY <1>7, <1>8, <1>9 DEF Exchange

\* A step of one call keeps what is said of every call.
LEMMA OneKeepsAll ==
    ASSUME RpcTyped, Exchange, NEW d \in Calls, Keeps(d)
    PROVE  RpcTyped' /\ Exchange'
<1>1. ASSUME NEW c \in Calls \ {d} PROVE Sound(c)'
  <2>1. Sound(c) /\ Same(c)
    BY DEF Exchange, Keeps
  <2> QED BY <2>1 DEF Same, Sound, Stages, Upwards, Downwards, Handled
<1> QED BY <1>1 DEF Keeps, Exchange

-----------------------------------------------------------------------------
(* What the caller is told (RemoteCall).                                   *)

LEMMA AnswerIs ==
    ASSUME RpcTyped, NEW c \in Calls
    PROVE  /\ call[c].result = Nil => Rpc!Answer(c) = "none"
           /\ call[c].result # Nil => Rpc!Answer(c) \in {"ok", "refused", "unsent", "unknown"}
           /\ Rpc!Answer(c) = "ok" => call[c].result = "ok"
           /\ Rpc!Answer(c) = "refused" => call[c].result = "refused"
           /\ Rpc!Answer(c) = "unsent" => ~call[c].sent
  BY CallsAssumption DEF Rpc!Answer, Rpc!RpcAssumption

LEMMA AnswerIsThen ==
    ASSUME RpcTyped', NEW c \in Calls
    PROVE  /\ call'[c].result = Nil => Rpc!Answer(c)' = "none"
           /\ call'[c].result # Nil => Rpc!Answer(c)' \in {"ok", "refused", "unsent", "unknown"}
           /\ Rpc!Answer(c)' = "ok" => call'[c].result = "ok"
           /\ Rpc!Answer(c)' = "refused" => call'[c].result = "refused"
           /\ Rpc!Answer(c)' = "unsent" => ~call'[c].sent
  BY CallsAssumption DEF Rpc!Answer, Rpc!RpcAssumption

Told == [c \in Calls |-> Rpc!Answer(c)]

\* Every step of a call is one that RemoteCall allows.
LEMMA OneTells ==
    ASSUME RpcTyped, NEW d \in Calls, Sound(d), Keeps(d)
    PROVE  Rpc!Promise!Next \/ UNCHANGED <<Told, begun, completed>>
<1>1. ASSUME NEW c \in Calls, call'[c].result = call[c].result, call'[c].sent = call[c].sent
      PROVE  Rpc!Answer(c)' = Rpc!Answer(c)
  BY <1>1 DEF Rpc!Answer
<1>2. \A c \in Calls \ {d} : Rpc!Answer(c)' = Rpc!Answer(c)
  BY <1>1 DEF Keeps, Same
<1>3. CASE /\ UNCHANGED <<begun, completed>>
           /\ call'[d].result = call[d].result /\ call'[d].sent = call[d].sent
  <2>1. \A c \in Calls : Rpc!Answer(c)' = Rpc!Answer(c)
    BY <1>1, <1>2, <1>3
  <2> QED BY <1>3, <2>1 DEF Told
<1>4. CASE /\ UNCHANGED <<begun, completed>>
           /\ call[d].result = Nil
           /\ call'[d].result = "ok" => d \in completed
           /\ call'[d].result = "refused" \/ ~call'[d].sent => d \notin begun
  <2>1. RpcTyped' /\ Rpc!Answer(d) = "none"
    BY <1>4, AnswerIs DEF Keeps
  <2>2. CASE call'[d].result = Nil
    <3>1. \A c \in Calls : Rpc!Answer(c)' = Rpc!Answer(c)
      BY <1>2, <2>1, <2>2, AnswerIsThen
    <3> QED BY <1>4, <3>1 DEF Told
  <2>3. CASE call'[d].result # Nil
    <3> DEFINE a == Rpc!Answer(d)'
    <3>1. a \in {"ok", "refused", "unsent", "unknown"}
      BY <2>1, <2>3, AnswerIsThen
    <3>2. a = "ok" => d \in completed
      BY <1>4, <2>1, AnswerIsThen
    <3>3. a \in {"refused", "unsent"} => d \notin begun
      BY <1>4, <2>1, AnswerIsThen
    <3>4. Told' = [Told EXCEPT ![d] = a] /\ Told[d] = "none"
      BY <1>2, <2>1 DEF Told
    <3> HIDE DEF a
    <3>5. Rpc!Promise!Answer(d, a)
      BY <1>4, <3>2, <3>3, <3>4 DEF Rpc!Promise!Answer, Rpc!Promise!Final, Told
    <3> QED BY <3>1, <3>5 DEF Rpc!Promise!Next, Rpc!Promise!Final
  <2> QED BY <2>2, <2>3
<1>5. CASE /\ call' = call /\ begun' = begun \cup {d} /\ UNCHANGED completed
           /\ d \notin begun /\ call[d].sent /\ call[d].result # "refused"
  <2>1. Told' = Told
    BY <1>1, <1>5 DEF Told
  <2>2. Told[d] \notin {"refused", "unsent"}
    BY <1>5, AnswerIs DEF Told
  <2>3. Rpc!Promise!Begin(d)
    BY <1>5, <2>1, <2>2 DEF Rpc!Promise!Begin, Rpc!Promise!Final, Told
  <2> QED BY <2>3 DEF Rpc!Promise!Next
<1>6. CASE /\ call' = call /\ completed' = completed \cup {d} /\ UNCHANGED begun
           /\ d \in begun /\ d \notin completed
  <2>1. Told' = Told
    BY <1>1, <1>6 DEF Told
  <2>2. Rpc!Promise!Complete(d)
    BY <1>6, <2>1 DEF Rpc!Promise!Complete, Told
  <2> QED BY <2>2 DEF Rpc!Promise!Next
<1> QED BY <1>3, <1>4, <1>5, <1>6 DEF Keeps, Seen

LEMMA CallsStep ==
    ASSUME RpcTyped, Exchange, Rpc!Next
    PROVE  /\ RpcTyped' /\ Exchange'
           /\ Rpc!Promise!Next \/ UNCHANGED <<Told, begun, completed>>
<1>1. ASSUME call' = call, UNCHANGED <<begun, completed>>
      PROVE  UNCHANGED <<Told, begun, completed>>
  BY <1>1 DEF Told, Rpc!Answer
<1>2. CASE Rpc!Stop
  <2> DEFINE cs == {c \in Calls : peer[c].at = "open"}
  <2>1. Rpc!Destroyed(cs) /\ UNCHANGED <<call, entry, begun, completed>>
    BY <1>2 DEF Rpc!Stop, Rpc!Serving, Rpc!work
  <2>2. cs \in SUBSET Calls /\ \A c \in cs : peer[c].at = "open"
    OBVIOUS
  <2> HIDE DEF cs
  <2> QED BY <1>1, <2>1, <2>2, DestroyedKeeps
<1>3. CASE Rpc!Listen \/ Rpc!Initialized
  <2>1. UNCHANGED <<call, up, down, peer, entry, begun, completed>>
    BY <1>3 DEF Rpc!Listen, Rpc!Initialized, Rpc!work
  <2> QED BY <1>1, <2>1 DEF RpcTyped, Exchange, Sound, Stages, Upwards, Downwards, Handled
<1>4. ASSUME NEW d \in Calls, Rpc!Cancel(d) \/ Rpc!Daemon(d) \/ Rpc!Window(d)
      PROVE  /\ RpcTyped' /\ Exchange'
             /\ Rpc!Promise!Next \/ UNCHANGED <<Told, begun, completed>>
  <2>1. Sound(d)
    BY DEF Exchange
  <2>2. CASE Rpc!IdleTimesOut(d)
    <3>1. Rpc!Destroyed({d}) /\ peer[d].at = "open" /\ UNCHANGED <<call, entry, begun, completed>>
      BY <2>2 DEF Rpc!IdleTimesOut, Rpc!Serving, Rpc!work
    <3>2. {d} \in SUBSET Calls /\ \A c \in {d} : peer[c].at = "open"
      BY <3>1
    <3> QED BY <1>1, <3>1, <3>2, DestroyedKeeps
  <2>3. CASE Keeps(d)
    BY <2>1, <2>3, OneKeepsAll, OneTells
  <2> QED BY <1>4, <2>1, <2>2, <2>3, CancelKeeps, DaemonKeeps, WindowKeeps
<1> QED BY <1>2, <1>3, <1>4 DEF Rpc!Next

LEMMA CallsInductive == MCSpec => []RpcTyped /\ []Exchange
<1>1. MCInit => RpcTyped /\ Exchange
  <2> SUFFICES ASSUME Rpc!Init PROVE RpcTyped /\ Exchange
    BY DEF MCInit
  <2>1. RpcTyped
    <3>1. call \in [Calls -> CallState]
      BY DEF Rpc!Init, CallState
    <3>2. up \in [Calls -> Seq(ToWindow)] /\ down \in [Calls -> Seq(ToDaemon)]
      BY One DEF Rpc!Init
    <3>3. peer \in [Calls -> PeerState]
      BY DEF Rpc!Init, Rpc!NoPeer, PeerState
    <3>4. entry \in [Calls -> Entries]
      BY DEF Rpc!Init, Entries
    <3> QED BY <3>1, <3>2, <3>3, <3>4 DEF RpcTyped
  <2>2. ASSUME NEW c \in Calls
        PROVE  /\ call[c].at = "idle" /\ call[c].result = Nil /\ ~call[c].sent
               /\ up[c] = <<>> /\ down[c] = <<>> /\ entry[c] = "none"
               /\ peer[c].at = "none" /\ peer[c].handler = "none"
               /\ c \notin begun /\ c \notin completed
    BY DEF Rpc!Init, Rpc!NoPeer
  <2>3. ASSUME NEW c \in Calls PROVE Sound(c)
    BY <2>2, One DEF Sound, Stages, Upwards, Downwards, Handled
  <2> QED BY <2>1, <2>3 DEF Exchange
<1>2. RpcTyped /\ Exchange /\ [MCNext]_<<part, vars, rpcVars>> => RpcTyped' /\ Exchange'
  <2>1. CASE UNCHANGED rpcVars
    BY <2>1 DEF rpcVars, RpcTyped, Exchange, Sound, Stages, Upwards, Downwards, Handled
  <2> QED BY <2>1, CallsStep DEF MCNext
<1> QED BY <1>1, <1>2, PTL DEF MCSpec

\* An activity entry says that its call is under way exactly as long as its handler
\* runs, and that it succeeded only when its work is done (bridge-host.ts and
\* agent-activity.ts), for any number of calls, stops and errors.
THEOREM EntriesTellTheTruth == MCSpec => []EntryTruthful
<1>1. Exchange => EntryTruthful
  BY DEF Exchange, Sound, Handled, EntryTruthful, Rpc!EntryTruthful
<1> QED BY <1>1, CallsInductive, PTL

\* Calls through the window keep what RemoteCall promises their callers: work is
\* begun at most once, a call that says it succeeded has done it, and one that was
\* refused or cancelled before it was sent never does it, whatever is lost when a
\* connection closes.
THEOREM CallersAreToldTheTruth == MCSpec => ImplementsRemoteCall
<1>1. MCInit => Rpc!Promise!Init
  <2> SUFFICES ASSUME Rpc!Init PROVE Rpc!Promise!Init
    BY DEF MCInit
  <2>1. \A c \in Calls : call[c].result = Nil
    BY DEF Rpc!Init
  <2>2. \A c \in Calls : Rpc!Answer(c) = "none"
    BY <2>1, CallsAssumption DEF Rpc!Answer, Rpc!RpcAssumption
  <2> QED BY <2>2 DEF Rpc!Promise!Init, Rpc!Init
<1>2. RpcTyped /\ Exchange /\ [MCNext]_<<part, vars, rpcVars>> =>
         [Rpc!Promise!Next]_<<Told, begun, completed>>
  <2>1. CASE UNCHANGED rpcVars
    BY <2>1 DEF rpcVars, Told, Rpc!Answer
  <2> QED BY <2>1, CallsStep DEF MCNext
<1>3. ImplementsRemoteCall <=>
         Rpc!Promise!Init /\ [][Rpc!Promise!Next]_<<Told, begun, completed>>
  BY DEF ImplementsRemoteCall, Rpc!ImplementsRemoteCall, Rpc!Promise!Spec, Told
<1> QED BY <1>1, <1>2, <1>3, CallsInductive, PTL DEF MCSpec
===============================================================================
