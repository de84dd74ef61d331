----------------------------- MODULE UsageInsights -----------------------------
(***************************************************************************)
(* The usage events that server processes append to files of one directory *)
(* under one limit of bytes (usage-insights.ts).  A process appends one    *)
(* event at a time to a file of its own; before that it removes expired    *)
(* files and, for room, the oldest ones, of whatever process.              *)
(*                                                                         *)
(* An event is the bytes of its line.  Listing a directory is one step.    *)
(* What an event says, and reading the events, is left out.                *)
(***************************************************************************)
EXTENDS Naturals, Sequences, FiniteSets, Functions, Filters

CONSTANTS Processes, Nil,
          Sizes,          \* bytes of a line
          MaxTotal,       \* maxTotalBytes
          MaxActive,      \* maxActiveFileBytes
          PruneInterval,  \* pruneIntervalBytes
          MaxTracked,     \* bound: events of a process
          MaxFaults       \* bound: removals that fail

\* A line has at most MAX_EVENT_BYTES (usage-insights.ts:16), and one file at most a twentieth
\* of what all have (MAX_ACTIVE_FILE_BYTES and MAX_TOTAL_BYTES, usage-insights.ts:15-17).
UsageAssumption ==
    /\ IsFiniteSet(Processes) /\ Processes # {} /\ Nil \notin Processes
    /\ Sizes \subseteq Nat \ {0} /\ \E size \in Sizes : \A other \in Sizes : other <= size
    /\ {MaxTotal, MaxActive, PruneInterval, MaxTracked, MaxFaults} \subseteq Nat /\ MaxActive <= MaxTotal

VARIABLES
    files,   \* the directory, the file that was modified first first
    store,   \* what each process knows of its files, and the append under way
    tracked, faults

vars == <<files, store, tracked, faults>>

\* A file, and whether it has been there longer than RETENTION_MS.
File(owner, sequence, size) == [owner |-> owner, sequence |-> sequence, size |-> size, expired |-> FALSE]

NewStore == [at |-> "idle", size |-> 0, sequence |-> 0, active |-> 0, since |-> 0, pruned |-> FALSE,
             periodic |-> FALSE, listed |-> <<>>, total |-> 0,
             pressed |-> FALSE,   \* history: an append of others, or a removal that failed, since the listing
             lost |-> FALSE]      \* history: an event was dropped without that

\* A directory may hold files of processes that have ended.
Init ==
    /\ \E n \in 0..MaxTotal : files = IF n = 0 THEN <<>> ELSE <<File(Nil, 0, n)>>
    /\ store = [p \in Processes |-> NewStore]
    /\ tracked = [p \in Processes |-> 0] /\ faults = 0

\* The files of a listing are different.
TotalOf(list) == SumFunctionOnSet([f \in Range(list) |-> f.size], Range(list))

Same(f, g) == f.owner = g.owner /\ f.sequence = g.sequence

Own(p, f) == f.owner = p /\ f.sequence = store[p].sequence

OthersOf(p) == Where(files, {f \in Range(files) : ~ Own(p, f)})

Without(f) == Where(files, {g \in Range(files) : ~ Same(f, g)})

\* track and #append, when the appends before it are over (#writeQueue), up to the first
\* listing; the interval of time may have passed.
Begin(p, size, overdue) ==
    /\ store[p].at = "idle" /\ tracked[p] < MaxTracked
    /\ tracked' = [tracked EXCEPT ![p] = @ + 1]
    /\ LET rotates == store[p].active > 0 /\ store[p].active + size > MaxActive
           periodic == ~ store[p].pruned \/ store[p].since + size >= PruneInterval \/ overdue
           rotated == IF rotates THEN [store[p] EXCEPT !.sequence = @ + 1, !.active = 0] ELSE store[p]
       IN store' = [store EXCEPT ![p] =
             IF size > MaxTotal THEN store[p]
             ELSE [rotated EXCEPT !.at = IF periodic THEN "expire" ELSE "list", !.size = size,
                                  !.periodic = periodic]]
    /\ UNCHANGED <<files, faults>>

\* pruneInsightFiles: the files to remove because of their age
ListExpired(p) ==
    /\ store[p].at = "expire"
    /\ store' = [store EXCEPT ![p].at = "removeExpired",
          ![p].listed = Where(files, {f \in Range(files) : f.expired /\ ~ Own(p, f)})]
    /\ UNCHANGED <<files, tracked, faults>>

\* A file is removed, also when its process has written to it since.
RemoveExpired(p) ==
    /\ store[p].at = "removeExpired"
    /\ IF store[p].listed = <<>>
       THEN store' = [store EXCEPT ![p].at = "list"] /\ UNCHANGED <<files, faults>>
       ELSE /\ store' = [store EXCEPT ![p].listed = Tail(@)]
            /\ \/ files' = Without(Head(store[p].listed)) /\ UNCHANGED faults
               \/ faults < MaxFaults /\ faults' = faults + 1 /\ UNCHANGED files
    /\ UNCHANGED tracked

\* Mutant: the file the process writes to, which is not removed, is not counted.
ListOthers(p) ==
    /\ store[p].at = "list"
    /\ store' = [store EXCEPT ![p].at = "evict", ![p].listed = files, ![p].pressed = FALSE,
                              ![p].total = TotalOf(OthersOf(p))]
    /\ UNCHANGED <<files, tracked, faults>>

\* pruneInsightFiles: what is left, the oldest first
List(p) ==
    /\ store[p].at = "list"
    /\ store' = [store EXCEPT ![p].at = "evict", ![p].listed = files, ![p].total = TotalOf(files),
                              ![p].pressed = FALSE]
    /\ UNCHANGED <<files, tracked, faults>>

\* The file the process writes to is passed over.
PassedOver(s) == [s EXCEPT !.listed = Tail(@)]

\* pruneInsightFiles, one turn of the loop that makes room
Evict(p) ==
    /\ store[p].at = "evict"
    /\ LET s == store[p]
           rest == [s EXCEPT !.listed = Tail(@)]
       IN IF s.listed = <<>> \/ s.total + store[p].size <= MaxTotal
          THEN store' = [store EXCEPT ![p].at = "check", ![p].listed = <<>>] /\ UNCHANGED <<files, faults>>
          ELSE IF Own(p, Head(s.listed))
          THEN store' = [store EXCEPT ![p] = PassedOver(s)] /\ UNCHANGED <<files, faults>>
          ELSE \/ /\ store' = [store EXCEPT ![p] = [rest EXCEPT !.total = @ - Head(s.listed).size]]
                  /\ files' = Without(Head(s.listed)) /\ UNCHANGED faults
               \/ /\ faults < MaxFaults /\ faults' = faults + 1
                  /\ store' = [store EXCEPT ![p] = [rest EXCEPT !.pressed = TRUE]] /\ UNCHANGED files
    /\ UNCHANGED tracked

\* The next event may come, whatever came of this one.
Over(s) == [s EXCEPT !.at = "idle", !.size = 0, !.total = 0, !.periodic = FALSE, !.pressed = FALSE]

\* pruneInsightFiles: the last listing decides.
Check(p) ==
    /\ store[p].at = "check"
    /\ LET fits == TotalOf(files) + store[p].size <= MaxTotal
       IN store' = [store EXCEPT ![p] =
             IF ~ fits THEN Over([@ EXCEPT !.lost = ~ store[p].pressed])
             ELSE IF store[p].periodic THEN [@ EXCEPT !.at = "append", !.since = 0, !.pruned = TRUE]
             ELSE [@ EXCEPT !.at = "append"]]
    /\ UNCHANGED <<files, tracked, faults>>

\* appendFile, which makes the file when it is not there
AppendLine(p) ==
    /\ store[p].at = "append"
    /\ LET size == store[p].size
           there == Where(files, {f \in Range(files) : Own(p, f)})
           before == IF there = <<>> THEN 0 ELSE Head(there).size
       IN /\ files' = Append(OthersOf(p), File(p, store[p].sequence, before + size))
          /\ store' = [q \in Processes |->
                IF q = p THEN Over([store[p] EXCEPT !.active = @ + size, !.since = @ + size])
                ELSE [store[q] EXCEPT !.pressed = @ \/ store[q].at \in {"evict", "check"}]]
    /\ UNCHANGED <<tracked, faults>>

\* appendFile fails: the event is gone.
AppendFails(p) ==
    /\ store[p].at = "append" /\ faults < MaxFaults
    /\ faults' = faults + 1
    /\ store' = [store EXCEPT ![p] = Over(@)]
    /\ UNCHANGED <<files, tracked>>

\* Thirty days pass over the files that were modified first.
Ages(n) ==
    /\ n \in DOMAIN files /\ ~ files[n].expired
    /\ files' = [m \in DOMAIN files |-> IF m <= n THEN [files[m] EXCEPT !.expired = TRUE] ELSE files[m]]
    /\ UNCHANGED <<store, tracked, faults>>

Next ==
    \/ \E p \in Processes :
          \/ \E size \in Sizes, overdue \in BOOLEAN : Begin(p, size, overdue)
          \/ ListExpired(p) \/ RemoveExpired(p) \/ List(p) \/ Evict(p) \/ Check(p)
          \/ AppendLine(p) \/ AppendFails(p)
    \/ \E n \in DOMAIN files : Ages(n)

Spec == Init /\ [][Next]_vars

(***************************************************************************)
(* Properties                                                              *)
(***************************************************************************)

TypeOK ==
    /\ \A n \in DOMAIN files :
          /\ files[n].owner \in Processes \cup {Nil} /\ files[n].size \in Nat \ {0}
          /\ \A m \in DOMAIN files : Same(files[m], files[n]) => m = n
    /\ \A p \in Processes :
          /\ store[p].at \in {"idle", "expire", "removeExpired", "list", "evict", "check", "append"}
          /\ tracked[p] \in 0..MaxTracked

Largest == CHOOSE size \in Sizes : \A other \in Sizes : other <= size

\* #append, pruneInsightFiles: the files exceed the limit by at most one line of every other
\* process (the check and the append of a process are not one step), and an event is
\* dropped for want of room only when another process has appended since
\* the files were listed, or a file could not be removed.
InsightsFit ==
    /\ TotalOf(files) <= MaxTotal + (Cardinality(Processes) - 1) * Largest
    /\ \A p \in Processes : ~ store[p].lost
=============================================================================
