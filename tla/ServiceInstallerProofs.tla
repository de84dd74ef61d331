----------------------- MODULE ServiceInstallerProofs -----------------------
(***************************************************************************)
(* Theorems about ServiceInstaller, for any number of executables, boots,  *)
(* edits, identities and faults: the type invariant; that no step of any   *)
(* command, failure, crash or recovery leaves a dangling reference to an   *)
(* executable; that the parts of an installation agree whenever no command *)
(* runs and no journal is left; that an operation takes effect in one      *)
(* step; and that no command overwrites an edit it could have seen.        *)
(*                                                                         *)
(* NoDangling is not inductive: a later step writes what the command holds *)
(* in memory.  Kept adds that the transaction in memory and the target of  *)
(* an installation are on disk as well while they may still be written;    *)
(* Control says what the position of the command implies.                  *)
(***************************************************************************)
EXTENDS ServiceInstaller, TLAPS

Refs(t) == Files(t.installation) \cup ({t.task} \ {Nil})

Open == Guarded \cup {"journal", "current"}

Control ==
    /\ pc # "idle" => call # Nil
    /\ pc \in Rollback \cup Open => txn # Nil
    /\ pc \in {"prepare", "plan"} => call.op \in {"install", "uninstall"}
    /\ pc \notin Rollback => after = "idle"
    /\ after = "prepare" => call # Nil /\ call.op = "install"
    /\ after = "plan" => call # Nil /\ call.op = "uninstall"
    /\ pc \in {"journal", "identity"} => NewIdentity <= MaxIds
    /\ pc = "run" => task # Nil
    /\ pc \in {"rbCompare", "rbConfig", "rbIdentity", "rbInstallation", "rbRun"} => task = txn.task
    /\ pc = "rbRun" => txn.task # Nil

Kept ==
    /\ Files(installation) \cup ({task} \ {Nil}) \subseteq exes
    /\ journal # Nil => Refs(journal) \subseteq exes
    /\ pc \in Rollback \cup Open => Refs(txn) \subseteq exes
    /\ pc = "plan" /\ call.op = "install" => call.exe \in exes
    /\ pc \in Open /\ txn.op = "install" => call.exe \in exes

IInv == TypeOK /\ Control /\ Kept

LocalType ==
    /\ pc \in Guarded \cup Rollback \cup Unguarded \cup {"idle"}
    /\ call \in Calls \cup {Nil} /\ txn \in Transactions \cup {Nil}
    /\ source \in Configs /\ conflict \in BOOLEAN
    /\ after \in {"idle", "prepare", "plan", "stopNow", "start"}

\* A command that ends, and one that raises, leaves well-typed local state.
LEMMA NoConfig == [user |-> 0, block |-> 0] \in Configs
  BY InstallerAssumption DEF Configs

LEMMA EndsLocal == Ends => LocalType'
  BY NoConfig DEF Ends, LocalType

LEMMA RaiseLocal == TypeOK /\ Raise => LocalType'
  BY EndsLocal DEF Raise, LocalType, TypeOK, Guarded, Rollback

LEMMA GotoLocal ==
  ASSUME TypeOK, NEW p \in Guarded \cup Rollback \cup Unguarded, Goto(p)
  PROVE  LocalType'
  BY DEF Goto, local, LocalType, TypeOK

\* What a plan records is a transaction.
LEMMA PlannedType ==
  ASSUME TypeOK, Control, Plan
  PROVE  txn' \in Transactions \ {Nil}
  <1> USE InstallerAssumption, NilAssumption
  <1> DEFINE t == Planned(NewIdentity)
  <1>1. call \in Calls /\ NewIdentity \in 0..MaxIds
    BY DEF Plan, Control, TypeOK, NewIdentity
  <1>2. call.op = "uninstall" => installation \in Installations
    BY DEF Plan, TypeOK
  <1>3. call.op \in {"install", "uninstall"}
    BY DEF Control, Plan
  <1>4. t.managed \in BOOLEAN /\ t.published \in Configs
    BY <1>1, <1>2, <1>3 DEF Planned, TypeOK, Calls, Installations, Configs
  <1>5. t.status \in Daemons \cup {Nil} /\ t.version \in Nat /\ t.boot \in 0..MaxBoots
    BY <1>1 DEF Planned, Status, TypeOK, Calls
  <1>6. t \in Transactions
    BY <1>3, <1>4, <1>5 DEF Planned, Transactions, TypeOK
  <1> QED
    BY <1>6 DEF Plan

\* The initial state satisfies the invariant.
LEMMA InitInv == Init => IInv
  <1> SUFFICES ASSUME Init PROVE IInv
    OBVIOUS
  <1>1. TypeOK
    <2>1. 0 \in 0..MaxBoots /\ 0 \in 0..MaxEdits /\ 0 \in 0..MaxIds /\ 0 \in 0..MaxFaults
      BY InstallerAssumption
    <2> QED
      BY <2>1, NoConfig DEF Init, TypeOK
  <1>2. Control
    BY DEF Init, Control, Guarded, Rollback, Open
  <1>3. Kept
    BY DEF Init, Kept, Guarded, Rollback, Open, Files
  <1> QED
    BY <1>1, <1>2, <1>3 DEF IInv

\* Every step of the commands and of their environment preserves it.
LEMMA StepInv == IInv /\ [Next]_vars => IInv'
  <1> SUFFICES ASSUME IInv, [Next]_vars PROVE IInv'
    OBVIOUS
  <1> USE InstallerAssumption, NilAssumption
  <1>0. TypeOK /\ Control /\ Kept
    BY DEF IInv
  <1>1. ASSUME NEW c \in Calls, Begin(c) PROVE IInv'
    <2>1. TypeOK'
      <3>1. pc' \in Guarded \cup Rollback \cup Unguarded \cup {"idle"}
        BY <1>0, <1>1 DEF Begin, Entry, Rollback, Unguarded
      <3>2. call' \in Calls \cup {Nil} /\ txn' \in Transactions \cup {Nil}
        BY <1>0, <1>1 DEF Begin, TypeOK
      <3>3. after' \in {"idle", "prepare", "plan", "stopNow", "start"}
        BY <1>0, <1>1 DEF Begin, Entry, TypeOK
      <3> QED
        BY <1>0, <1>1, <3>1, <3>2, <3>3 DEF Begin, TypeOK, disk, procs, counters
    <2>2. Control'
      <3>1. call' # Nil /\ call'.op \in Ops
        BY <1>0, <1>1, NilAssumption DEF Begin, Calls
      <3>2. pc' \in Rollback => txn' # Nil /\ pc' = "rbStop"
        BY <1>0, <1>1 DEF Begin, Entry, Rollback
      <3>3. pc' \notin Open /\ pc' # "idle"
        BY <1>0, <1>1 DEF Begin, Entry, Open, Guarded
      <3>4. pc' \in {"prepare", "plan"} => call'.op \in {"install", "uninstall"}
        BY <1>1 DEF Begin, Entry
      <3>5. /\ after' = "prepare" => call'.op = "install"
            /\ after' = "plan" => call'.op = "uninstall"
        BY <1>0, <1>1 DEF Begin, Entry, Control, Rollback
      <3>6. pc' \notin Rollback => after' = "idle"
        BY <1>0, <1>1 DEF Begin, Control, Rollback
      <3> QED
        BY <3>1, <3>2, <3>3, <3>4, <3>5, <3>6 DEF Control, Open, Guarded, Rollback
    <2>3. Kept'
      BY <1>0, <1>1 DEF Begin, Entry, Kept, Refs, Files, Open, Guarded, Rollback, disk,
         procs, counters
    <2> QED
      BY <2>1, <2>2, <2>3 DEF IInv
  <1>2. CASE Prepare
    <2>1. TypeOK'
      BY <1>0, <1>2 DEF Prepare, TypeOK, Guarded, Rollback, Unguarded, Configs,
         Installations, Calls, procs, counters, Goto, local, Control, Open
    <2>2. Control'
      BY <1>0, <1>2 DEF Prepare, Control, Open, Guarded, Rollback, procs, counters,
         Goto, local, NewIdentity
    <2>3. Kept'
      BY <1>0, <1>2 DEF Prepare, Kept, Refs, Files, Open, Guarded, Rollback, procs,
         counters, Goto, local
    <2> QED
      BY <2>1, <2>2, <2>3 DEF IInv
  <1>3. CASE Plan
    <2>1. TypeOK'
      BY <1>0, <1>3, PlannedType DEF Plan, TypeOK, Unguarded, disk, procs, counters
    <2>2. Control'
      <3>1. txn' # Nil
        BY <1>0, <1>3, PlannedType DEF Plan, IInv
      <3> QED
        BY <1>0, <1>3, <3>1 DEF Plan, Control, Open, Guarded, Rollback, NewIdentity,
           disk, counters
    <2>3. Kept'
      BY <1>0, <1>3 DEF Plan, Planned, Kept, Refs, Open, Guarded, Rollback, disk
    <2> QED
      BY <2>1, <2>2, <2>3 DEF IInv
  <1>4. CASE PlanFails
    <2>1. TypeOK'
      BY <1>0, <1>4, EndsLocal DEF PlanFails, LocalType, TypeOK, disk, procs, counters
    <2>2. Control'
      BY <1>0, <1>4 DEF PlanFails, Control, Open, Guarded, Rollback, disk, procs,
         counters, Ends, NewIdentity
    <2>3. Kept'
      BY <1>0, <1>4 DEF PlanFails, Kept, Refs, Files, Open, Guarded, Rollback, disk,
         procs, counters, Ends, NewIdentity
    <2> QED
      BY <2>1, <2>2, <2>3 DEF IInv
  <1>5. CASE Current
    <2>1. TypeOK'
      <3>1. LocalType'
        BY <1>0, <1>5, EndsLocal, GotoLocal DEF Current, Guarded
      <3> QED
        BY <1>0, <1>5, <3>1 DEF Current, LocalType, TypeOK, disk, procs, counters
    <2>2. Control'
      BY <1>0, <1>5 DEF Current, Verified, Control, Open, Guarded, Rollback, disk,
         procs, counters, Ends, Goto, local, NewIdentity
    <2>3. Kept'
      BY <1>0, <1>5 DEF Current, Verified, Kept, Refs, Files, Open, Guarded, Rollback,
         disk, procs, counters, Ends, Goto, local
    <2> QED
      BY <2>1, <2>2, <2>3 DEF IInv
  <1>6. CASE WriteJournal
    <2>1. TypeOK'
      BY <1>0, <1>6 DEF WriteJournal, TypeOK, Guarded, Rollback, Unguarded, Configs,
         Installations, Transactions, procs, counters, Goto, local
    <2>2. Control'
      BY <1>0, <1>6 DEF WriteJournal, Control, Open, Guarded, Rollback, procs, counters,
         Goto, local, NewIdentity
    <2>3. Kept'
      BY <1>0, <1>6 DEF WriteJournal, Kept, Refs, Files, Open, Guarded, Rollback, procs,
         counters, Goto, local
    <2> QED
      BY <2>1, <2>2, <2>3 DEF IInv
  <1>7. CASE WriteIdentity
    <2>1. TypeOK'
      BY <1>0, <1>7 DEF WriteIdentity, TypeOK, Guarded, Rollback, Unguarded, Configs,
         Installations, Control, procs, Goto, local, NewIdentity
    <2>2. Control'
      BY <1>0, <1>7 DEF WriteIdentity, Control, Open, Guarded, Rollback, procs, Goto,
         local, NewIdentity
    <2>3. Kept'
      BY <1>0, <1>7 DEF WriteIdentity, Kept, Refs, Files, Open, Guarded, Rollback,
         procs, Goto, local, NewIdentity
    <2> QED
      BY <2>1, <2>2, <2>3 DEF IInv
  <1>8. CASE StopPrevious
    <2>1. TypeOK'
      <3>1. LocalType'
        BY <1>0, <1>8, RaiseLocal, GotoLocal DEF StopPrevious, Guarded
      <3> QED
        BY <1>0, <1>8, <3>1 DEF StopPrevious, LocalType, TypeOK, disk, counters
    <2>2. Control'
      BY <1>0, <1>8 DEF StopPrevious, Control, Open, Guarded, Rollback, disk, counters,
         Raise, Ends, Goto, local, NewIdentity
    <2>3. Kept'
      BY <1>0, <1>8 DEF StopPrevious, Kept, Refs, Files, Open, Guarded, Rollback, disk,
         counters, Raise, Ends, Goto, local
    <2> QED
      BY <2>1, <2>2, <2>3 DEF IInv
  <1>9. CASE ChangeTask
    <2>1. TypeOK'
      BY <1>0, <1>9 DEF ChangeTask, Target, TypeOK, Guarded, Rollback, Unguarded,
         Configs, Installations, Transactions, Calls, procs, counters, Goto, local,
         Control, Open
    <2>2. Control'
      BY <1>0, <1>9 DEF ChangeTask, Target, Control, Open, Guarded, Rollback, procs,
         counters, Goto, local, NewIdentity, TypeOK, Transactions, Installations,
         Daemons, Calls
    <2>3. Kept'
      BY <1>0, <1>9 DEF ChangeTask, Target, Kept, Refs, Files, Open, Guarded, Rollback,
         procs, counters, Goto, local
    <2> QED
      BY <2>1, <2>2, <2>3 DEF IInv
  <1>10. CASE RunTask
    <2>1. TypeOK'
      BY <1>0, <1>10 DEF RunTask, TypeOK, Guarded, Rollback, Unguarded, Daemons,
         Control, disk, counters, Goto, local
    <2>2. Control'
      BY <1>0, <1>10 DEF RunTask, Control, Open, Guarded, Rollback, disk, counters,
         Goto, local, NewIdentity
    <2>3. Kept'
      BY <1>0, <1>10 DEF RunTask, Kept, Refs, Files, Open, Guarded, Rollback, disk,
         counters, Goto, local
    <2> QED
      BY <2>1, <2>2, <2>3 DEF IInv
  <1>11. CASE Ready
    <2>1. TypeOK'
      <3>1. CASE Verified /\ Version[svc.exe] = txn.version
        <4>1. svc \in Daemons /\ txn \in Transactions
          BY <1>0, <1>11, <3>1 DEF Ready, Verified, TypeOK, Control, Guarded, Open
        <4>2. txn' \in Transactions
          BY <1>11, <3>1, <4>1 DEF Ready, Transactions, Daemons
        <4> QED
          BY <1>0, <1>11, <3>1, <4>2 DEF Ready, TypeOK, Guarded, disk, procs, counters
      <3>2. CASE ~(Verified /\ Version[svc.exe] = txn.version)
        BY <1>0, <1>11, <3>2, RaiseLocal DEF Ready, LocalType, TypeOK, disk, procs,
           counters
      <3> QED
        BY <3>1, <3>2
    <2>2. Control'
      BY <1>0, <1>11 DEF Ready, Verified, Control, Open, Guarded, Rollback, disk, procs,
         counters, Raise, Ends, NewIdentity, TypeOK, Transactions, Installations,
         Daemons, Calls
    <2>3. Kept'
      BY <1>0, <1>11 DEF Ready, Verified, Kept, Refs, Files, Open, Guarded, Rollback,
         disk, procs, counters, Raise, Ends, TypeOK, Transactions, Installations,
         Daemons, Calls, Control, Unguarded, Configs, NewIdentity, local
    <2> QED
      BY <2>1, <2>2, <2>3 DEF IInv
  <1>12. CASE JournalBootId
    <2>1. TypeOK'
      BY <1>0, <1>12 DEF JournalBootId, TypeOK, Guarded, Rollback, Unguarded, Configs,
         Installations, Transactions, procs, counters, Goto, local
    <2>2. Control'
      BY <1>0, <1>12 DEF JournalBootId, Control, Open, Guarded, Rollback, procs,
         counters, Goto, local, NewIdentity
    <2>3. Kept'
      BY <1>0, <1>12 DEF JournalBootId, Kept, Refs, Files, Open, Guarded, Rollback,
         procs, counters, Goto, local
    <2> QED
      BY <2>1, <2>2, <2>3 DEF IInv
  <1>13. CASE ReadConfig
    <2>1. TypeOK'
      BY <1>0, <1>13 DEF ReadConfig, TypeOK, Guarded, Rollback, Unguarded, Configs,
         Transactions, Calls, disk, procs, counters
    <2>2. Control'
      BY <1>0, <1>13 DEF ReadConfig, Control, Open, Guarded, Rollback, disk, procs,
         counters, NewIdentity
    <2>3. Kept'
      BY <1>0, <1>13 DEF ReadConfig, Kept, Refs, Files, Open, Guarded, Rollback, disk,
         procs, counters
    <2> QED
      BY <2>1, <2>2, <2>3 DEF IInv
  <1>14. CASE CompareConfig
    <2>1. TypeOK'
      <3>1. LocalType'
        BY <1>0, <1>14, EndsLocal, RaiseLocal, GotoLocal DEF CompareConfig, AfterConfig,
           Guarded, Rollback, Unguarded
      <3> QED
        BY <1>0, <1>14, <3>1 DEF CompareConfig, AfterConfig, LocalType, TypeOK, Daemons,
           Installations, disk, procs, counters
    <2>2. Control'
      BY <1>0, <1>14 DEF CompareConfig, AfterConfig, Result, Control, Open, Guarded,
         Rollback, disk, procs, counters, Raise, Ends, Goto, local, NewIdentity
    <2>3. Kept'
      BY <1>0, <1>14 DEF CompareConfig, AfterConfig, Result, Kept, Refs, Files, Open,
         Guarded, Rollback, disk, procs, counters, Raise, Ends, Goto, local
    <2> QED
      BY <2>1, <2>2, <2>3 DEF IInv
  <1>15. CASE Publish
    <2>1. TypeOK'
      BY <1>0, <1>15 DEF Publish, AfterConfig, Result, TypeOK, Guarded, Rollback,
         Unguarded, Configs, Installations, Transactions, procs, counters, Goto, local,
         Control, Open
    <2>2. Control'
      BY <1>0, <1>15 DEF Publish, AfterConfig, Result, Control, Open, Guarded, Rollback,
         procs, counters, Goto, local, NewIdentity
    <2>3. Kept'
      BY <1>0, <1>15 DEF Publish, AfterConfig, Result, Kept, Refs, Files, Open, Guarded,
         Rollback, procs, counters, Goto, local
    <2> QED
      BY <2>1, <2>2, <2>3 DEF IInv
  <1>16. CASE Record
    <2>1. TypeOK'
      BY <1>0, <1>16 DEF Record, RollbackExe, TypeOK, Guarded, Rollback, Unguarded,
         Configs, Installations, Transactions, Calls, procs, counters, Goto, local,
         Control, Open
    <2>2. Control'
      BY <1>0, <1>16 DEF Record, RollbackExe, Control, Open, Guarded, Rollback, procs,
         counters, Goto, local, NewIdentity
    <2>3. Kept'
      BY <1>0, <1>16 DEF Record, RollbackExe, Kept, Refs, Files, Open, Guarded,
         Rollback, procs, counters, Goto, local, TypeOK, Transactions, Installations,
         Daemons, Calls, Control, Unguarded, Configs, NewIdentity
    <2> QED
      BY <2>1, <2>2, <2>3 DEF IInv
  <1>17. CASE Commit
    <2>1. TypeOK'
      <3>1. LocalType'
        BY <1>0, <1>17, EndsLocal, RaiseLocal, GotoLocal DEF Commit, Guarded, Rollback,
           Unguarded
      <3> QED
        BY <1>0, <1>17, <3>1 DEF Commit, LocalType, TypeOK, Daemons, Installations,
           disk, procs, counters
    <2>2. Control'
      BY <1>0, <1>17 DEF Commit, Control, Open, Guarded, Rollback, procs, counters,
         Ends, Goto, local, NewIdentity
    <2>3. Kept'
      BY <1>0, <1>17 DEF Commit, Kept, Refs, Files, Open, Guarded, Rollback, procs,
         counters, Ends, Goto, local
    <2> QED
      BY <2>1, <2>2, <2>3 DEF IInv
  <1>18. CASE Pruned
    <2>1. TypeOK'
      <3>1. LocalType'
        BY <1>0, <1>18, EndsLocal, RaiseLocal, GotoLocal DEF Pruned, Guarded, Rollback,
           Unguarded
      <3> QED
        BY <1>0, <1>18, <3>1 DEF Pruned, LocalType, TypeOK, Daemons, Installations,
           disk, procs, counters
    <2>2. Control'
      BY <1>0, <1>18 DEF Pruned, Control, Open, Guarded, Rollback, disk, procs,
         counters, Ends, NewIdentity
    <2>3. Kept'
      BY <1>0, <1>18 DEF Pruned, Kept, Refs, Files, Open, Guarded, Rollback, disk,
         procs, counters, Ends
    <2> QED
      BY <2>1, <2>2, <2>3 DEF IInv
  <1>19. CASE StopCandidate
    <2>1. TypeOK'
      <3>1. LocalType'
        BY <1>0, <1>19, EndsLocal, RaiseLocal, GotoLocal DEF StopCandidate, Status,
           Foreign, Guarded, Rollback, Unguarded
      <3> QED
        BY <1>0, <1>19, <3>1 DEF StopCandidate, Status, Foreign, LocalType, TypeOK,
           Daemons, Installations, disk, procs, counters
    <2>2. Control'
      BY <1>0, <1>19 DEF StopCandidate, Foreign, Candidate, Status, Control, Open,
         Guarded, Rollback, disk, counters, Raise, Ends, Goto, local, NewIdentity
    <2>3. Kept'
      BY <1>0, <1>19 DEF StopCandidate, Foreign, Candidate, Status, Kept, Refs, Files,
         Open, Guarded, Rollback, disk, counters, Raise, Ends, Goto, local
    <2> QED
      BY <2>1, <2>2, <2>3 DEF IInv
  <1>20. CASE RestoreTask
    <2>1. TypeOK'
      BY <1>0, <1>20 DEF RestoreTask, TypeOK, Guarded, Rollback, Unguarded, Configs,
         Installations, Transactions, procs, counters, Goto, local, Control, Open
    <2>2. Control'
      BY <1>0, <1>20 DEF RestoreTask, Control, Open, Guarded, Rollback, procs, counters,
         Goto, local, NewIdentity
    <2>3. Kept'
      BY <1>0, <1>20 DEF RestoreTask, Kept, Refs, Files, Open, Guarded, Rollback, procs,
         counters, Goto, local
    <2> QED
      BY <2>1, <2>2, <2>3 DEF IInv
  <1>21. CASE CompareForRestore
    <2>1. TypeOK'
      BY <1>0, <1>21 DEF CompareForRestore, Known, TypeOK, Guarded, Rollback, Unguarded,
         Configs, Transactions, Calls, disk, procs, counters
    <2>2. Control'
      BY <1>0, <1>21 DEF CompareForRestore, Known, Control, Open, Guarded, Rollback,
         disk, procs, counters, NewIdentity
    <2>3. Kept'
      BY <1>0, <1>21 DEF CompareForRestore, Known, Kept, Refs, Files, Open, Guarded,
         Rollback, disk, procs, counters
    <2> QED
      BY <2>1, <2>2, <2>3 DEF IInv
  <1>22. CASE RestoreConfig
    <2>1. TypeOK'
      BY <1>0, <1>22 DEF RestoreConfig, TypeOK, Guarded, Rollback, Unguarded, Configs,
         Installations, Transactions, procs, counters, Goto, local, Control, Open
    <2>2. Control'
      BY <1>0, <1>22 DEF RestoreConfig, Control, Open, Guarded, Rollback, procs,
         counters, Goto, local, NewIdentity
    <2>3. Kept'
      BY <1>0, <1>22 DEF RestoreConfig, Kept, Refs, Files, Open, Guarded, Rollback,
         procs, counters, Goto, local
    <2> QED
      BY <2>1, <2>2, <2>3 DEF IInv
  <1>23. CASE RestoreIdentity
    <2>1. TypeOK'
      BY <1>0, <1>23 DEF RestoreIdentity, TypeOK, Guarded, Rollback, Unguarded, Configs,
         Installations, Transactions, procs, counters, Goto, local, Control, Open
    <2>2. Control'
      BY <1>0, <1>23 DEF RestoreIdentity, Control, Open, Guarded, Rollback, procs,
         counters, Goto, local, NewIdentity
    <2>3. Kept'
      BY <1>0, <1>23 DEF RestoreIdentity, Kept, Refs, Files, Open, Guarded, Rollback,
         procs, counters, Goto, local
    <2> QED
      BY <2>1, <2>2, <2>3 DEF IInv
  <1>24. CASE RestoreInstallation
    <2>1. TypeOK'
      BY <1>0, <1>24 DEF RestoreInstallation, TypeOK, Guarded, Rollback, Unguarded,
         Configs, Installations, Transactions, procs, counters, Goto, local, Control,
         Open
    <2>2. Control'
      BY <1>0, <1>24 DEF RestoreInstallation, Control, Open, Guarded, Rollback, procs,
         counters, Goto, local, NewIdentity
    <2>3. Kept'
      BY <1>0, <1>24 DEF RestoreInstallation, Kept, Refs, Files, Open, Guarded,
         Rollback, procs, counters, Goto, local
    <2> QED
      BY <2>1, <2>2, <2>3 DEF IInv
  <1>25. CASE RunPrevious
    <2>1. TypeOK'
      BY <1>0, <1>25 DEF RunPrevious, TypeOK, Guarded, Rollback, Unguarded, Daemons,
         Control, disk, counters, Goto, local
    <2>2. Control'
      BY <1>0, <1>25 DEF RunPrevious, Control, Open, Guarded, Rollback, disk, counters,
         Goto, local, NewIdentity
    <2>3. Kept'
      BY <1>0, <1>25 DEF RunPrevious, Kept, Refs, Files, Open, Guarded, Rollback, disk,
         counters, Goto, local
    <2> QED
      BY <2>1, <2>2, <2>3 DEF IInv
  <1>26. CASE PreviousReady
    <2>1. TypeOK'
      <3>1. LocalType'
        BY <1>0, <1>26, EndsLocal, RaiseLocal, GotoLocal DEF PreviousReady, Guarded,
           Rollback, Unguarded
      <3> QED
        BY <1>0, <1>26, <3>1 DEF PreviousReady, LocalType, TypeOK, Daemons,
           Installations, disk, procs, counters
    <2>2. Control'
      BY <1>0, <1>26 DEF PreviousReady, Control, Open, Guarded, Rollback, disk, procs,
         counters, Raise, Ends, Goto, local, NewIdentity
    <2>3. Kept'
      BY <1>0, <1>26 DEF PreviousReady, Kept, Refs, Files, Open, Guarded, Rollback,
         disk, procs, counters, Raise, Ends, Goto, local
    <2> QED
      BY <2>1, <2>2, <2>3 DEF IInv
  <1>27. CASE RolledBack
    <2>1. TypeOK'
      <3>1. LocalType'
        BY <1>0, <1>27, EndsLocal, RaiseLocal, GotoLocal DEF RolledBack, Guarded,
           Rollback, Unguarded, LocalType, TypeOK
      <3> QED
        BY <1>0, <1>27, <3>1 DEF RolledBack, LocalType, TypeOK, Daemons, Installations,
           disk, procs, counters
    <2>2. Control'
      BY <1>0, <1>27 DEF RolledBack, Control, Open, Guarded, Rollback, procs, counters,
         Ends, NewIdentity, TypeOK, Transactions, Installations, Daemons, Calls
    <2>3. Kept'
      BY <1>0, <1>27 DEF RolledBack, Kept, Refs, Files, Open, Guarded, Rollback, procs,
         counters, Ends, TypeOK, Transactions, Installations, Daemons, Calls, Control,
         Unguarded, Configs, NewIdentity, local
    <2> QED
      BY <2>1, <2>2, <2>3 DEF IInv
  <1>28. CASE StopNow
    <2>1. TypeOK'
      <3>1. LocalType'
        BY <1>0, <1>28, EndsLocal, RaiseLocal, GotoLocal DEF StopNow, Guarded, Rollback,
           Unguarded
      <3> QED
        BY <1>0, <1>28, <3>1 DEF StopNow, LocalType, TypeOK, Daemons, Installations,
           disk, procs, counters
    <2>2. Control'
      BY <1>0, <1>28 DEF StopNow, Control, Open, Guarded, Rollback, disk, counters,
         Ends, Goto, local, NewIdentity
    <2>3. Kept'
      BY <1>0, <1>28 DEF StopNow, Kept, Refs, Files, Open, Guarded, Rollback, disk,
         counters, Ends, Goto, local
    <2> QED
      BY <2>1, <2>2, <2>3 DEF IInv
  <1>29. CASE Start
    <2>1. TypeOK'
      <3>1. LocalType'
        BY <1>0, <1>29, EndsLocal, RaiseLocal, GotoLocal DEF Start, Startable, Guarded,
           Rollback, Unguarded
      <3> QED
        BY <1>0, <1>29, <3>1 DEF Start, Startable, LocalType, TypeOK, Daemons,
           Installations, disk, procs, counters
    <2>2. Control'
      BY <1>0, <1>29 DEF Start, Startable, Control, Open, Guarded, Rollback, disk,
         counters, Ends, Goto, local, NewIdentity
    <2>3. Kept'
      BY <1>0, <1>29 DEF Start, Startable, Kept, Refs, Files, Open, Guarded, Rollback,
         disk, counters, Ends, Goto, local
    <2> QED
      BY <2>1, <2>2, <2>3 DEF IInv
  <1>30. CASE Started
    <2>1. TypeOK'
      <3>1. LocalType'
        BY <1>0, <1>30, EndsLocal, RaiseLocal, GotoLocal DEF Started, Guarded, Rollback,
           Unguarded
      <3> QED
        BY <1>0, <1>30, <3>1 DEF Started, LocalType, TypeOK, Daemons, Installations,
           disk, procs, counters
    <2>2. Control'
      BY <1>0, <1>30 DEF Started, Control, Open, Guarded, Rollback, disk, procs,
         counters, Ends, NewIdentity
    <2>3. Kept'
      BY <1>0, <1>30 DEF Started, Kept, Refs, Files, Open, Guarded, Rollback, disk,
         procs, counters, Ends
    <2> QED
      BY <2>1, <2>2, <2>3 DEF IInv
  <1>31. ASSUME NEW x \in Exes, Prune(x) PROVE IInv'
    <2>1. TypeOK'
      BY <1>0, <1>31 DEF Prune, Protected, TypeOK, Guarded, Rollback, Unguarded,
         Configs, Installations, procs, counters, Goto, local
    <2>2. Control'
      BY <1>0, <1>31 DEF Prune, Protected, Control, Open, Guarded, Rollback, procs,
         counters, Goto, local, NewIdentity
    <2>3. Kept'
      BY <1>0, <1>31 DEF Prune, Protected, Kept, Refs, Files, Open, Guarded, Rollback,
         procs, counters, Goto, local
    <2> QED
      BY <2>1, <2>2, <2>3 DEF IInv
  <1>32. CASE Fails
    <2>1. TypeOK'
      <3>1. LocalType'
        BY <1>0, <1>32, EndsLocal, RaiseLocal, GotoLocal DEF Fails, Guarded, Rollback,
           Unguarded
      <3> QED
        BY <1>0, <1>32, <3>1 DEF Fails, LocalType, TypeOK, Daemons, Installations, disk,
           procs, counters
    <2>2. Control'
      BY <1>0, <1>32 DEF Fails, Control, Open, Guarded, Rollback, disk, procs, Raise,
         Ends, NewIdentity
    <2>3. Kept'
      BY <1>0, <1>32 DEF Fails, Kept, Refs, Files, Open, Guarded, Rollback, disk, procs,
         Raise, Ends
    <2> QED
      BY <2>1, <2>2, <2>3 DEF IInv
  <1>33. CASE Crash
    <2>1. TypeOK'
      <3>1. LocalType'
        BY <1>0, <1>33, EndsLocal, RaiseLocal, GotoLocal DEF Crash, Guarded, Rollback,
           Unguarded
      <3> QED
        BY <1>0, <1>33, <3>1 DEF Crash, LocalType, TypeOK, Daemons, Installations, disk,
           procs, counters
    <2>2. Control'
      BY <1>0, <1>33 DEF Crash, Control, Open, Guarded, Rollback, disk, procs, Ends,
         NewIdentity
    <2>3. Kept'
      BY <1>0, <1>33 DEF Crash, Kept, Refs, Files, Open, Guarded, Rollback, disk, procs,
         Ends
    <2> QED
      BY <2>1, <2>2, <2>3 DEF IInv
  <1>34. CASE DaemonDies
    <2>1. TypeOK'
      BY <1>0, <1>34 DEF DaemonDies, TypeOK, Guarded, Rollback, Unguarded, Daemons,
         disk, local
    <2>2. Control'
      BY <1>0, <1>34 DEF DaemonDies, Control, Open, Guarded, Rollback, disk, local,
         NewIdentity
    <2>3. Kept'
      BY <1>0, <1>34 DEF DaemonDies, Kept, Refs, Files, Open, Guarded, Rollback, disk,
         local
    <2> QED
      BY <2>1, <2>2, <2>3 DEF IInv
  <1>35. CASE Logon
    <2>1. TypeOK'
      BY <1>0, <1>35 DEF Logon, TypeOK, Guarded, Rollback, Unguarded, Daemons, disk,
         counters, local
    <2>2. Control'
      BY <1>0, <1>35 DEF Logon, Control, Open, Guarded, Rollback, disk, counters, local,
         NewIdentity
    <2>3. Kept'
      BY <1>0, <1>35 DEF Logon, Kept, Refs, Files, Open, Guarded, Rollback, disk,
         counters, local
    <2> QED
      BY <2>1, <2>2, <2>3 DEF IInv
  <1>36. CASE UserEdits
    <2>1. TypeOK'
      BY <1>0, <1>36 DEF UserEdits, TypeOK, Guarded, Rollback, Unguarded, Configs,
         Installations, procs, local
    <2>2. Control'
      BY <1>0, <1>36 DEF UserEdits, Control, Open, Guarded, Rollback, procs, local,
         NewIdentity
    <2>3. Kept'
      BY <1>0, <1>36 DEF UserEdits, Kept, Refs, Files, Open, Guarded, Rollback, procs,
         local
    <2> QED
      BY <2>1, <2>2, <2>3 DEF IInv
  <1>37. CASE UserReverts
    <2>1. TypeOK'
      BY <1>0, <1>37 DEF UserReverts, TypeOK, Guarded, Rollback, Unguarded, Configs,
         Installations, procs, counters, local, Control, Open, Kept, Refs, Files,
         Daemons, Calls, Transactions, NewIdentity
    <2>2. Control'
      BY <1>0, <1>37 DEF UserReverts, Control, Open, Guarded, Rollback, procs, counters,
         local, NewIdentity
    <2>3. Kept'
      BY <1>0, <1>37 DEF UserReverts, Kept, Refs, Files, Open, Guarded, Rollback, procs,
         counters, local
    <2> QED
      BY <2>1, <2>2, <2>3 DEF IInv
  <1>38. ASSUME NEW x \in Exes, Boots(x) PROVE IInv'
    <2>1. TypeOK'
      BY <1>0, <1>38 DEF Boots, TypeOK, Guarded, Rollback, Unguarded, Daemons, disk,
         counters, local
    <2>2. Control'
      BY <1>0, <1>38 DEF Boots, Control, Open, Guarded, Rollback, disk, counters, local,
         NewIdentity
    <2>3. Kept'
      BY <1>0, <1>38 DEF Boots, Kept, Refs, Files, Open, Guarded, Rollback, disk,
         counters, local
    <2> QED
      BY <2>1, <2>2, <2>3 DEF IInv
  <1>39. ASSUME NEW x \in Exes, LaunchEnds(x) PROVE IInv'
    <2>1. TypeOK'
      BY <1>0, <1>39 DEF LaunchEnds, TypeOK, Guarded, Rollback, Unguarded, Daemons,
         disk, counters, local
    <2>2. Control'
      BY <1>0, <1>39 DEF LaunchEnds, Control, Open, Guarded, Rollback, disk, counters,
         local, NewIdentity
    <2>3. Kept'
      BY <1>0, <1>39 DEF LaunchEnds, Kept, Refs, Files, Open, Guarded, Rollback, disk,
         counters, local
    <2> QED
      BY <2>1, <2>2, <2>3 DEF IInv
  <1>40. CASE UNCHANGED vars
    <2>1. TypeOK'
      BY <1>0, <1>40 DEF TypeOK, Guarded, Rollback, Unguarded, Configs, Installations,
         Daemons, Transactions, Calls, Control, Open, Kept, Refs, Files, NewIdentity,
         vars, disk, procs, counters, local
    <2>2. Control'
      BY <1>0, <1>40 DEF Control, Open, Guarded, Rollback, NewIdentity, TypeOK,
         Transactions, Installations, Daemons, Calls, Kept, Refs, Files, Unguarded,
         Configs, vars, disk, procs, counters, local
    <2>3. Kept'
      BY <1>0, <1>40 DEF Kept, Refs, Files, Open, Guarded, Rollback, TypeOK,
         Transactions, Installations, Daemons, Calls, Control, Unguarded, Configs,
         NewIdentity, vars, disk, procs, counters, local
    <2> QED
      BY <2>1, <2>2, <2>3 DEF IInv
  <1> QED
    BY <1>1, <1>2, <1>3, <1>4, <1>5, <1>6, <1>7, <1>8, <1>9, <1>10, <1>11, <1>12, <1>13,
       <1>14, <1>15, <1>16, <1>17, <1>18, <1>19, <1>20, <1>21, <1>22, <1>23, <1>24,
       <1>25, <1>26, <1>27, <1>28, <1>29, <1>30, <1>31, <1>32, <1>33, <1>34, <1>35,
       <1>36, <1>37, <1>38, <1>39, <1>40 DEF Next, Step, Environment

\* Every variable keeps its type: no step writes a record, a task or an identity
\* it does not have.
THEOREM TypeCorrect == Spec => []TypeOK
  BY InitInv, StepInv, PTL DEF Spec, IInv

\* No reachable state has a dangling reference to an executable.
THEOREM NothingDangles == Spec => []NoDangling
  <1>1. IInv => NoDangling
    BY DEF IInv, Kept, Refs, NoDangling
  <1> QED
    BY InitInv, StepInv, <1>1, PTL DEF Spec

(***************************************************************************)
(* The parts of an installation agree.  Settled says so of the moments     *)
(* when no command runs and no journal is left; the invariant says what    *)
(* each position of a command adds to it: what the forward steps have      *)
(* written so far, what the rollback has restored so far, and that the     *)
(* transaction a rollback works from is a snapshot of a settled state.     *)
(***************************************************************************)
Whole(i, t, id, block) ==
    IF i = Nil THEN t = Nil
    ELSE t = i.exe /\ id # 0 /\ (i.managed => block = id)

\* What a transaction has recorded was a settled state, and it changes nothing of
\* the configuration but the managed block.
Snapshot(t) ==
    /\ Whole(t.installation, t.task, t.identity, t.previous.block)
    /\ t.published.user = t.previous.user

SameStart(t, u) ==
    /\ t.installation = u.installation /\ t.task = u.task /\ t.identity = u.identity
    /\ t.previous = u.previous /\ t.published = u.published /\ t.managed = u.managed

Restoring == {"rbIdentity", "rbInstallation", "rbRun", "rbReady", "rbCommit"}

\* The journal is written by the transaction that is open, and by no other.
Journalled ==
    /\ journal = Nil =>
         /\ pc \notin Rollback \cup (Guarded \ {"compare", "publish"})
         /\ Whole(installation, task, identity, config.block)
    /\ journal # Nil =>
         /\ pc \in Guarded \cup Rollback \cup {"idle"}
         /\ Snapshot(journal)
         /\ ~journal.managed => config.block = journal.previous.block
         /\ pc # "idle" => SameStart(txn, journal)

\* The steps of install and uninstall before they commit.
Forward ==
    /\ pc \in Open => txn.op = call.op /\ txn.published.user = txn.previous.user
    /\ pc \in Open /\ txn.op = "install" =>
         /\ txn.managed = call.managed
         /\ txn.published.user = source.user
         /\ txn.managed => txn.published.block = NewIdentity
         /\ pc \notin {"journal", "identity"} => identity # 0
    /\ pc = "journal" =>
         /\ txn.installation = installation /\ txn.task = task /\ txn.identity = identity
         /\ config.block = txn.previous.block
    /\ pc \in {"current", "compare", "publish"} /\ journal = Nil =>
         /\ txn.op = "install" /\ installation # Nil
         /\ installation.exe = call.exe /\ installation.managed = call.managed
    /\ pc \in {"read", "compare", "publish", "record", "commit"} => task = Target
    /\ pc \in {"run", "ready", "bootId"} => task = call.exe /\ txn.op = "install"
    /\ pc = "identity" => txn.op = "install"
    /\ pc = "read" => txn.op = "uninstall"
    /\ pc = "publish" => txn.managed
    /\ pc \in {"record", "commit"} /\ txn.op = "install" /\ txn.managed => config.block = identity
    /\ pc = "commit" => IF txn.op = "uninstall" THEN installation = Nil
                        ELSE installation # Nil /\ installation.exe = call.exe
                             /\ installation.managed = call.managed

\* The steps of a rollback before it commits.
Backward ==
    /\ pc \in Restoring \cup {"rbCompare", "rbConfig"} => task = txn.task
    /\ pc = "rbConfig" => ~conflict /\ source.user = txn.previous.user
    /\ pc \in Restoring /\ ~conflict => config.block = txn.previous.block
    /\ pc \in Restoring \ {"rbIdentity"} => identity = txn.identity
    /\ pc \in {"rbRun", "rbReady", "rbCommit"} => installation = txn.installation

Agrees == Journalled /\ Forward /\ Backward


\* A command that ends, or raises, leaves the disk as it is: what it has written
\* so far is undone from the journal, or is whole.
LEMMA EndsAgrees ==
  ASSUME Agrees, Ends, UNCHANGED disk
  PROVE  Agrees'
  BY DEF Ends, disk, Agrees, Journalled, Forward, Backward, Open, Guarded, Rollback, Restoring

LEMMA RaiseAgrees ==
  ASSUME Agrees, Raise, UNCHANGED disk
  PROVE  Agrees'
  <1>1. CASE pc \in Guarded /\ journal # Nil
    <2>1. pc' = "rbStop" /\ UNCHANGED <<call, txn, source, conflict, disk>>
      BY <1>1 DEF Raise
    <2> QED
      BY <1>1, <2>1 DEF disk, Agrees, Journalled, Forward, Backward, Open, Guarded, Rollback,
         Restoring
  <1>2. CASE ~(pc \in Guarded /\ journal # Nil)
    BY <1>2, EndsAgrees DEF Raise
  <1> QED
    BY <1>1, <1>2

LEMMA SameAgrees ==
  ASSUME Agrees, UNCHANGED <<disk, ids, pc, local>>
  PROVE  Agrees'
  BY DEF disk, local, Agrees, Journalled, Forward, Backward, Target, NewIdentity

LEMMA BeginAgrees ==
  ASSUME TypeOK, Control, Agrees, NEW c \in Calls, Begin(c)
  PROVE  Agrees'
  <1> USE InstallerAssumption, NilAssumption
  <1>1. Journalled'
    BY DEF Begin, Entry, disk, procs, counters, local, Open, Guarded, Rollback, Restoring,
       TypeOK, Control, Agrees, Journalled, Snapshot, Whole, SameStart, Forward, Backward, Target
  <1>2. Forward'
    BY DEF Begin, Entry, disk, procs, counters, local, Open, Guarded, Rollback, Restoring,
       TypeOK, Control, Agrees, Forward, Journalled, Whole, Target, NewIdentity
  <1>3. Backward'
    BY DEF Begin, Entry, disk, procs, counters, local, Open, Guarded, Rollback, Restoring,
       TypeOK, Control, Agrees, Backward, Journalled, Snapshot, SameStart
  <1> QED
    BY <1>1, <1>2, <1>3 DEF Agrees

LEMMA PrepareAgrees ==
  ASSUME TypeOK, Control, Agrees, Prepare
  PROVE  Agrees'
  <1> USE InstallerAssumption, NilAssumption
  <1>1. Journalled'
    BY DEF Prepare, Goto, disk, procs, counters, local, Open, Guarded, Rollback, Restoring,
       TypeOK, Control, Agrees, Journalled, Snapshot, Whole, SameStart, Forward, Backward, Target
  <1>2. Forward'
    BY DEF Prepare, Goto, disk, procs, counters, local, Open, Guarded, Rollback, Restoring,
       TypeOK, Control, Agrees, Forward, Journalled, Whole, Target, NewIdentity
  <1>3. Backward'
    BY DEF Prepare, Goto, disk, procs, counters, local, Open, Guarded, Rollback, Restoring,
       TypeOK, Control, Agrees, Backward, Journalled, Snapshot, SameStart
  <1> QED
    BY <1>1, <1>2, <1>3 DEF Agrees

LEMMA PlanAgrees ==
  ASSUME TypeOK, Control, Agrees, Plan
  PROVE  Agrees'
  <1> USE InstallerAssumption, NilAssumption
  <1>1. Journalled'
    BY DEF Plan, Planned, AlreadyCurrent, Status, disk, procs, counters, local, Open, Guarded,
       Rollback, Restoring, TypeOK, Control, Agrees, Journalled, Snapshot, Whole, SameStart,
       Forward, Backward, Target
  <1>2. Forward'
    BY DEF Plan, Planned, AlreadyCurrent, Status, disk, procs, counters, local, Open, Guarded,
       Rollback, Restoring, TypeOK, Control, Agrees, Forward, Journalled, Whole, Target,
       NewIdentity
  <1>3. Backward'
    BY DEF Plan, Planned, AlreadyCurrent, Status, disk, procs, counters, local, Open, Guarded,
       Rollback, Restoring, TypeOK, Control, Agrees, Backward, Journalled, Snapshot, SameStart
  <1> QED
    BY <1>1, <1>2, <1>3 DEF Agrees

LEMMA CurrentAgrees ==
  ASSUME TypeOK, Control, Agrees, Current
  PROVE  Agrees'
  <1> USE InstallerAssumption, NilAssumption
  <1>r. CASE Ends
    BY <1>r, EndsAgrees DEF Current
  <1>0. CASE ~Ends
    <2>1. Journalled'
      BY <1>0 DEF Current, Goto, disk, procs, counters, local, Open, Guarded, Rollback,
         Restoring, TypeOK, Control, Agrees, Journalled, Snapshot, Whole, SameStart, Forward,
         Backward, Target
    <2>2. Forward'
      BY <1>0 DEF Current, Goto, disk, procs, counters, local, Open, Guarded, Rollback,
         Restoring, TypeOK, Control, Agrees, Forward, Journalled, Whole, Target, NewIdentity
    <2>3. Backward'
      BY <1>0 DEF Current, Goto, disk, procs, counters, local, Open, Guarded, Rollback,
         Restoring, TypeOK, Control, Agrees, Backward, Journalled, Snapshot, SameStart
    <2> QED
      BY <2>1, <2>2, <2>3 DEF Agrees
  <1> QED
    BY <1>r, <1>0

LEMMA WriteJournalAgrees ==
  ASSUME TypeOK, Control, Agrees, WriteJournal
  PROVE  Agrees'
  <1> USE InstallerAssumption, NilAssumption
  <1>1. Journalled'
    BY DEF WriteJournal, Goto, disk, procs, counters, local, Open, Guarded, Rollback, Restoring,
       TypeOK, Control, Agrees, Journalled, Snapshot, Whole, SameStart, Forward, Backward, Target
  <1>2. Forward'
    BY DEF WriteJournal, Goto, disk, procs, counters, local, Open, Guarded, Rollback, Restoring,
       TypeOK, Control, Agrees, Forward, Journalled, Whole, Target, NewIdentity
  <1>3. Backward'
    BY DEF WriteJournal, Goto, disk, procs, counters, local, Open, Guarded, Rollback, Restoring,
       TypeOK, Control, Agrees, Backward, Journalled, Snapshot, SameStart
  <1> QED
    BY <1>1, <1>2, <1>3 DEF Agrees

LEMMA WriteIdentityAgrees ==
  ASSUME TypeOK, Control, Agrees, WriteIdentity
  PROVE  Agrees'
  <1> USE InstallerAssumption, NilAssumption
  <1>1. Journalled'
    BY DEF WriteIdentity, Goto, disk, procs, counters, local, Open, Guarded, Rollback, Restoring,
       TypeOK, Control, Agrees, Journalled, Snapshot, Whole, SameStart, Forward, Backward, Target
  <1>2. Forward'
    BY DEF WriteIdentity, Goto, disk, procs, counters, local, Open, Guarded, Rollback, Restoring,
       TypeOK, Control, Agrees, Forward, Journalled, Whole, Target, NewIdentity
  <1>3. Backward'
    BY DEF WriteIdentity, Goto, disk, procs, counters, local, Open, Guarded, Rollback, Restoring,
       TypeOK, Control, Agrees, Backward, Journalled, Snapshot, SameStart
  <1> QED
    BY <1>1, <1>2, <1>3 DEF Agrees

LEMMA StopPreviousAgrees ==
  ASSUME TypeOK, Control, Agrees, StopPrevious
  PROVE  Agrees'
  <1> USE InstallerAssumption, NilAssumption
  <1>r. CASE Raise
    BY <1>r, RaiseAgrees DEF StopPrevious
  <1>0. CASE ~Raise
    <2>1. Journalled'
      BY <1>0 DEF StopPrevious, Goto, disk, procs, counters, local, Open, Guarded, Rollback,
         Restoring, TypeOK, Control, Agrees, Journalled, Snapshot, Whole, SameStart, Forward,
         Backward, Target
    <2>2. Forward'
      BY <1>0 DEF StopPrevious, Goto, disk, procs, counters, local, Open, Guarded, Rollback,
         Restoring, TypeOK, Control, Agrees, Forward, Journalled, Whole, Target, NewIdentity
    <2>3. Backward'
      BY <1>0 DEF StopPrevious, Goto, disk, procs, counters, local, Open, Guarded, Rollback,
         Restoring, TypeOK, Control, Agrees, Backward, Journalled, Snapshot, SameStart
    <2> QED
      BY <2>1, <2>2, <2>3 DEF Agrees
  <1> QED
    BY <1>r, <1>0

LEMMA ChangeTaskAgrees ==
  ASSUME TypeOK, Control, Agrees, ChangeTask
  PROVE  Agrees'
  <1> USE InstallerAssumption, NilAssumption
  <1>1. /\ pc = "task" /\ pc' = IF txn.op = "install" THEN "run" ELSE "read"
        /\ task' = Target
        /\ UNCHANGED <<call, txn, source, conflict, after, journal, config, installation,
                       identity, ids>>
    BY DEF ChangeTask, Goto, local, counters
  <1>2. txn.op \in {"install", "uninstall"}
    BY <1>1 DEF TypeOK, Control, Open, Guarded, Transactions
  <1>3. Journalled'
    BY <1>1, <1>2 DEF Agrees, Journalled, Guarded, Rollback
  <1>4. Forward'
    BY <1>1, <1>2 DEF Agrees, Forward, Journalled, Open, Guarded, Target, NewIdentity
  <1>5. Backward'
    BY <1>1 DEF Backward, Restoring
  <1> QED
    BY <1>3, <1>4, <1>5 DEF Agrees

LEMMA RunTaskAgrees ==
  ASSUME TypeOK, Control, Agrees, RunTask
  PROVE  Agrees'
  <1> USE InstallerAssumption, NilAssumption
  <1>1. Journalled'
    BY DEF RunTask, Goto, disk, procs, counters, local, Open, Guarded, Rollback, Restoring,
       TypeOK, Control, Agrees, Journalled, Snapshot, Whole, SameStart, Forward, Backward, Target
  <1>2. Forward'
    BY DEF RunTask, Goto, disk, procs, counters, local, Open, Guarded, Rollback, Restoring,
       TypeOK, Control, Agrees, Forward, Journalled, Whole, Target, NewIdentity
  <1>3. Backward'
    BY DEF RunTask, Goto, disk, procs, counters, local, Open, Guarded, Rollback, Restoring,
       TypeOK, Control, Agrees, Backward, Journalled, Snapshot, SameStart
  <1> QED
    BY <1>1, <1>2, <1>3 DEF Agrees

LEMMA ReadyAgrees ==
  ASSUME TypeOK, Control, Agrees, Ready
  PROVE  Agrees'
  <1> USE InstallerAssumption, NilAssumption
  <1>r. CASE Raise
    BY <1>r, RaiseAgrees DEF Ready
  <1>0. CASE ~Raise
    <2>1. /\ pc = "ready" /\ pc' = "bootId" /\ txn' = [txn EXCEPT !.boot = svc.boot]
          /\ UNCHANGED <<call, source, conflict, after, disk, ids>>
      BY <1>0 DEF Ready, counters
    <2>2. txn \in Transactions
      BY <2>1 DEF TypeOK, Control, Open, Guarded
    <2>3. SameStart(txn', txn) /\ txn'.op = txn.op
      BY <2>1, <2>2 DEF SameStart, Transactions
    <2> HIDE <2>2
    <2>4. Journalled'
      BY <2>1, <2>3 DEF Agrees, Journalled, Guarded, Rollback, SameStart, disk
    <2>5. Forward'
      BY <2>1, <2>3 DEF Agrees, Forward, Open, Guarded, SameStart, Target, NewIdentity, disk
    <2>6. Backward'
      BY <2>1 DEF Backward, Restoring
    <2> QED
      BY <2>4, <2>5, <2>6 DEF Agrees
  <1> QED
    BY <1>r, <1>0

LEMMA JournalBootIdAgrees ==
  ASSUME TypeOK, Control, Agrees, JournalBootId
  PROVE  Agrees'
  <1> USE InstallerAssumption, NilAssumption
  <1>1. Journalled'
    BY DEF JournalBootId, Goto, disk, procs, counters, local, Open, Guarded, Rollback, Restoring,
       TypeOK, Control, Agrees, Journalled, Snapshot, Whole, SameStart, Forward, Backward, Target
  <1>2. Forward'
    BY DEF JournalBootId, Goto, disk, procs, counters, local, Open, Guarded, Rollback, Restoring,
       TypeOK, Control, Agrees, Forward, Journalled, Whole, Target, NewIdentity
  <1>3. Backward'
    BY DEF JournalBootId, Goto, disk, procs, counters, local, Open, Guarded, Rollback, Restoring,
       TypeOK, Control, Agrees, Backward, Journalled, Snapshot, SameStart
  <1> QED
    BY <1>1, <1>2, <1>3 DEF Agrees

LEMMA ReadConfigAgrees ==
  ASSUME TypeOK, Control, Agrees, ReadConfig
  PROVE  Agrees'
  <1> USE InstallerAssumption, NilAssumption
  <1>1. Journalled'
    BY DEF ReadConfig, disk, procs, counters, local, Open, Guarded, Rollback, Restoring, TypeOK,
       Control, Agrees, Journalled, Snapshot, Whole, SameStart, Forward, Backward, Target
  <1>2. Forward'
    BY DEF ReadConfig, disk, procs, counters, local, Open, Guarded, Rollback, Restoring, TypeOK,
       Control, Agrees, Forward, Journalled, Whole, Target, NewIdentity
  <1>3. Backward'
    BY DEF ReadConfig, disk, procs, counters, local, Open, Guarded, Rollback, Restoring, TypeOK,
       Control, Agrees, Backward, Journalled, Snapshot, SameStart
  <1> QED
    BY <1>1, <1>2, <1>3 DEF Agrees

LEMMA CompareConfigAgrees ==
  ASSUME TypeOK, Control, Agrees, CompareConfig
  PROVE  Agrees'
  <1> USE InstallerAssumption, NilAssumption
  <1>r. CASE Raise
    BY <1>r, RaiseAgrees DEF CompareConfig
  <1>0. CASE ~Raise
    <2>1. Journalled'
      BY <1>0 DEF CompareConfig, AfterConfig, Result, Goto, disk, procs, counters, local, Open,
         Guarded, Rollback, Restoring, TypeOK, Control, Agrees, Journalled, Snapshot, Whole,
         SameStart, Forward, Backward, Target
    <2>2. Forward'
      BY <1>0 DEF CompareConfig, AfterConfig, Result, Goto, disk, procs, counters, local, Open,
         Guarded, Rollback, Restoring, TypeOK, Control, Agrees, Forward, Journalled, Whole,
         Target, NewIdentity
    <2>3. Backward'
      BY <1>0 DEF CompareConfig, AfterConfig, Result, Goto, disk, procs, counters, local, Open,
         Guarded, Rollback, Restoring, TypeOK, Control, Agrees, Backward, Journalled, Snapshot,
         SameStart
    <2> QED
      BY <2>1, <2>2, <2>3 DEF Agrees
  <1> QED
    BY <1>r, <1>0

LEMMA PublishAgrees ==
  ASSUME TypeOK, Control, Agrees, Publish
  PROVE  Agrees'
  <1> USE InstallerAssumption, NilAssumption
  <1>1. /\ pc = "publish" /\ pc' \in {"prune", "record"} /\ config' = Result
        /\ pc' = "prune" <=> journal = Nil
        /\ UNCHANGED <<call, txn, source, conflict, after, journal, installation, task,
                       identity, ids>>
    BY DEF Publish, AfterConfig, Goto, local, counters
  <1>2. txn.managed /\ txn.op \in {"install", "uninstall"} /\ source \in Configs
    BY <1>1 DEF Agrees, Forward, TypeOK, Control, Open, Guarded, Transactions
  <1>3. txn.op = "install" => config'.block = identity
    BY <1>1, <1>2 DEF Agrees, Forward, Result, NewIdentity, Open, Guarded
  <1>4. Journalled'
    BY <1>1, <1>2, <1>3 DEF Agrees, Journalled, Forward, Guarded, Rollback, Whole, SameStart
  <1>5. Forward'
    BY <1>1, <1>3 DEF Agrees, Forward, Open, Guarded, Target, NewIdentity
  <1>6. Backward'
    BY <1>1 DEF Backward, Restoring
  <1> QED
    BY <1>4, <1>5, <1>6 DEF Agrees

LEMMA RecordAgrees ==
  ASSUME TypeOK, Control, Agrees, Record
  PROVE  Agrees'
  <1> USE InstallerAssumption, NilAssumption
  <1>1. /\ pc = "record" /\ pc' = "commit"
        /\ UNCHANGED <<call, txn, source, conflict, after, journal, config, task, identity, ids>>
    BY DEF Record, Goto, local, counters
  <1>2. txn \in Transactions \ {Nil} /\ call \in Calls \ {Nil}
    BY <1>1 DEF TypeOK, Control, Open, Guarded
  <1>3. RollbackExe(txn.installation, call.exe) \in Exes \cup {Nil}
    BY <1>2 DEF RollbackExe, Transactions, Installations, TypeOK
  <1>4. txn.op = "install" =>
          /\ installation' \in Installations
          /\ installation'.exe = call.exe /\ installation'.managed = call.managed
    BY <1>2, <1>3 DEF Record, Calls, Installations
  <1>5. txn.op \in {"install", "uninstall"}
    BY <1>2 DEF Transactions
  <1>6. txn.op = "uninstall" => installation' = Nil
    BY DEF Record
  <1> HIDE <1>2
  <1>7. Journalled'
    BY <1>1 DEF Agrees, Journalled, Guarded, Rollback
  <1>8. Forward'
    BY <1>1, <1>4, <1>5, <1>6 DEF Agrees, Forward, Journalled, Open, Guarded, Target, NewIdentity
  <1>9. Backward'
    BY <1>1 DEF Backward, Restoring
  <1> QED
    BY <1>7, <1>8, <1>9 DEF Agrees

LEMMA CommitAgrees ==
  ASSUME TypeOK, Control, Agrees, Commit
  PROVE  Agrees'
  <1> USE InstallerAssumption, NilAssumption
  <1>1. /\ pc = "commit" /\ pc' = IF txn.op = "install" THEN "prune" ELSE "idle"
        /\ journal' = Nil /\ UNCHANGED <<config, installation, task, identity, ids>>
    BY DEF Commit, Goto, Ends, counters
  <1>2. txn.op \in {"install", "uninstall"}
    BY <1>1 DEF TypeOK, Control, Open, Guarded, Transactions
  <1>3. Whole(installation, task, identity, config.block)
    BY <1>1, <1>2 DEF Agrees, Forward, Open, Guarded, Target, Whole
  <1>4. Journalled'
    BY <1>1, <1>3 DEF Journalled, Guarded, Rollback, Whole
  <1>5. Forward'
    BY <1>1 DEF Forward, Open, Guarded
  <1>6. Backward'
    BY <1>1 DEF Backward, Restoring
  <1> QED
    BY <1>4, <1>5, <1>6 DEF Agrees

LEMMA PruneAgrees ==
  ASSUME TypeOK, Control, Agrees, NEW e \in Exes, Prune(e)
  PROVE  Agrees'
  <1> USE InstallerAssumption, NilAssumption
  <1>1. Journalled'
    BY DEF Prune, Goto, disk, procs, counters, local, Open, Guarded, Rollback, Restoring, TypeOK,
       Control, Agrees, Journalled, Snapshot, Whole, SameStart, Forward, Backward, Target
  <1>2. Forward'
    BY DEF Prune, Goto, disk, procs, counters, local, Open, Guarded, Rollback, Restoring, TypeOK,
       Control, Agrees, Forward, Journalled, Whole, Target, NewIdentity
  <1>3. Backward'
    BY DEF Prune, Goto, disk, procs, counters, local, Open, Guarded, Rollback, Restoring, TypeOK,
       Control, Agrees, Backward, Journalled, Snapshot, SameStart
  <1> QED
    BY <1>1, <1>2, <1>3 DEF Agrees

LEMMA StopCandidateAgrees ==
  ASSUME TypeOK, Control, Agrees, StopCandidate
  PROVE  Agrees'
  <1> USE InstallerAssumption, NilAssumption
  <1>r. CASE Raise
    BY <1>r, RaiseAgrees DEF StopCandidate
  <1>0. CASE ~Raise
    <2>1. Journalled'
      BY <1>0 DEF StopCandidate, Goto, disk, procs, counters, local, Open, Guarded, Rollback,
         Restoring, TypeOK, Control, Agrees, Journalled, Snapshot, Whole, SameStart, Forward,
         Backward, Target
    <2>2. Forward'
      BY <1>0 DEF StopCandidate, Goto, disk, procs, counters, local, Open, Guarded, Rollback,
         Restoring, TypeOK, Control, Agrees, Forward, Journalled, Whole, Target, NewIdentity
    <2>3. Backward'
      BY <1>0 DEF StopCandidate, Goto, disk, procs, counters, local, Open, Guarded, Rollback,
         Restoring, TypeOK, Control, Agrees, Backward, Journalled, Snapshot, SameStart
    <2> QED
      BY <2>1, <2>2, <2>3 DEF Agrees
  <1> QED
    BY <1>r, <1>0

LEMMA RestoreTaskAgrees ==
  ASSUME TypeOK, Control, Agrees, RestoreTask
  PROVE  Agrees'
  <1> USE InstallerAssumption, NilAssumption
  <1>1. Journalled'
    BY DEF RestoreTask, Goto, disk, procs, counters, local, Open, Guarded, Rollback, Restoring,
       TypeOK, Control, Agrees, Journalled, Snapshot, Whole, SameStart, Forward, Backward, Target
  <1>2. Forward'
    BY DEF RestoreTask, Goto, disk, procs, counters, local, Open, Guarded, Rollback, Restoring,
       TypeOK, Control, Agrees, Forward, Journalled, Whole, Target, NewIdentity
  <1>3. Backward'
    BY DEF RestoreTask, Goto, disk, procs, counters, local, Open, Guarded, Rollback, Restoring,
       TypeOK, Control, Agrees, Backward, Journalled, Snapshot, SameStart
  <1> QED
    BY <1>1, <1>2, <1>3 DEF Agrees

LEMMA CompareForRestoreAgrees ==
  ASSUME TypeOK, Control, Agrees, CompareForRestore
  PROVE  Agrees'
  <1> USE InstallerAssumption, NilAssumption
  <1>1. Journalled'
    BY DEF CompareForRestore, Known, disk, procs, counters, local, Open, Guarded, Rollback,
       Restoring, TypeOK, Control, Agrees, Journalled, Snapshot, Whole, SameStart, Forward,
       Backward, Target
  <1>2. Forward'
    BY DEF CompareForRestore, Known, disk, procs, counters, local, Open, Guarded, Rollback,
       Restoring, TypeOK, Control, Agrees, Forward, Journalled, Whole, Target, NewIdentity
  <1>3. Backward'
    BY DEF CompareForRestore, Known, disk, procs, counters, local, Open, Guarded, Rollback,
       Restoring, TypeOK, Control, Agrees, Backward, Journalled, Snapshot, SameStart
  <1> QED
    BY <1>1, <1>2, <1>3 DEF Agrees

LEMMA RestoreConfigAgrees ==
  ASSUME TypeOK, Control, Agrees, RestoreConfig
  PROVE  Agrees'
  <1> USE InstallerAssumption, NilAssumption
  <1>1. Journalled'
    BY DEF RestoreConfig, Goto, disk, procs, counters, local, Open, Guarded, Rollback, Restoring,
       TypeOK, Control, Agrees, Journalled, Snapshot, Whole, SameStart, Forward, Backward, Target
  <1>2. Forward'
    BY DEF RestoreConfig, Goto, disk, procs, counters, local, Open, Guarded, Rollback, Restoring,
       TypeOK, Control, Agrees, Forward, Journalled, Whole, Target, NewIdentity
  <1>3. Backward'
    BY DEF RestoreConfig, Goto, disk, procs, counters, local, Open, Guarded, Rollback, Restoring,
       TypeOK, Control, Agrees, Backward, Journalled, Snapshot, SameStart
  <1> QED
    BY <1>1, <1>2, <1>3 DEF Agrees

LEMMA RestoreIdentityAgrees ==
  ASSUME TypeOK, Control, Agrees, RestoreIdentity
  PROVE  Agrees'
  <1> USE InstallerAssumption, NilAssumption
  <1>1. Journalled'
    BY DEF RestoreIdentity, Goto, disk, procs, counters, local, Open, Guarded, Rollback,
       Restoring, TypeOK, Control, Agrees, Journalled, Snapshot, Whole, SameStart, Forward,
       Backward, Target
  <1>2. Forward'
    BY DEF RestoreIdentity, Goto, disk, procs, counters, local, Open, Guarded, Rollback,
       Restoring, TypeOK, Control, Agrees, Forward, Journalled, Whole, Target, NewIdentity
  <1>3. Backward'
    BY DEF RestoreIdentity, Goto, disk, procs, counters, local, Open, Guarded, Rollback,
       Restoring, TypeOK, Control, Agrees, Backward, Journalled, Snapshot, SameStart
  <1> QED
    BY <1>1, <1>2, <1>3 DEF Agrees

LEMMA RestoreInstallationAgrees ==
  ASSUME TypeOK, Control, Agrees, RestoreInstallation
  PROVE  Agrees'
  <1> USE InstallerAssumption, NilAssumption
  <1>1. Journalled'
    BY DEF RestoreInstallation, Goto, disk, procs, counters, local, Open, Guarded, Rollback,
       Restoring, TypeOK, Control, Agrees, Journalled, Snapshot, Whole, SameStart, Forward,
       Backward, Target
  <1>2. Forward'
    BY DEF RestoreInstallation, Goto, disk, procs, counters, local, Open, Guarded, Rollback,
       Restoring, TypeOK, Control, Agrees, Forward, Journalled, Whole, Target, NewIdentity
  <1>3. Backward'
    BY DEF RestoreInstallation, Goto, disk, procs, counters, local, Open, Guarded, Rollback,
       Restoring, TypeOK, Control, Agrees, Backward, Journalled, Snapshot, SameStart
  <1> QED
    BY <1>1, <1>2, <1>3 DEF Agrees

LEMMA RunPreviousAgrees ==
  ASSUME TypeOK, Control, Agrees, RunPrevious
  PROVE  Agrees'
  <1> USE InstallerAssumption, NilAssumption
  <1>1. Journalled'
    BY DEF RunPrevious, Goto, disk, procs, counters, local, Open, Guarded, Rollback, Restoring,
       TypeOK, Control, Agrees, Journalled, Snapshot, Whole, SameStart, Forward, Backward, Target
  <1>2. Forward'
    BY DEF RunPrevious, Goto, disk, procs, counters, local, Open, Guarded, Rollback, Restoring,
       TypeOK, Control, Agrees, Forward, Journalled, Whole, Target, NewIdentity
  <1>3. Backward'
    BY DEF RunPrevious, Goto, disk, procs, counters, local, Open, Guarded, Rollback, Restoring,
       TypeOK, Control, Agrees, Backward, Journalled, Snapshot, SameStart
  <1> QED
    BY <1>1, <1>2, <1>3 DEF Agrees

LEMMA PreviousReadyAgrees ==
  ASSUME TypeOK, Control, Agrees, PreviousReady
  PROVE  Agrees'
  <1> USE InstallerAssumption, NilAssumption
  <1>r. CASE Raise
    BY <1>r, RaiseAgrees DEF PreviousReady
  <1>0. CASE ~Raise
    <2>1. Journalled'
      BY <1>0 DEF PreviousReady, Goto, disk, procs, counters, local, Open, Guarded, Rollback,
         Restoring, TypeOK, Control, Agrees, Journalled, Snapshot, Whole, SameStart, Forward,
         Backward, Target
    <2>2. Forward'
      BY <1>0 DEF PreviousReady, Goto, disk, procs, counters, local, Open, Guarded, Rollback,
         Restoring, TypeOK, Control, Agrees, Forward, Journalled, Whole, Target, NewIdentity
    <2>3. Backward'
      BY <1>0 DEF PreviousReady, Goto, disk, procs, counters, local, Open, Guarded, Rollback,
         Restoring, TypeOK, Control, Agrees, Backward, Journalled, Snapshot, SameStart
    <2> QED
      BY <2>1, <2>2, <2>3 DEF Agrees
  <1> QED
    BY <1>r, <1>0

LEMMA RolledBackAgrees ==
  ASSUME TypeOK, Control, Agrees, RolledBack
  PROVE  Agrees'
  <1> USE InstallerAssumption, NilAssumption
  <1>1. Journalled'
    BY DEF RolledBack, Ends, disk, procs, counters, local, Open, Guarded, Rollback, Restoring,
       TypeOK, Control, Agrees, Journalled, Snapshot, Whole, SameStart, Forward, Backward, Target
  <1>2. Forward'
    BY DEF RolledBack, Ends, disk, procs, counters, local, Open, Guarded, Rollback, Restoring,
       TypeOK, Control, Agrees, Forward, Journalled, Whole, Target, NewIdentity
  <1>3. Backward'
    BY DEF RolledBack, Ends, disk, procs, counters, local, Open, Guarded, Rollback, Restoring,
       TypeOK, Control, Agrees, Backward, Journalled, Snapshot, SameStart
  <1> QED
    BY <1>1, <1>2, <1>3 DEF Agrees

LEMMA StopNowAgrees ==
  ASSUME TypeOK, Control, Agrees, StopNow
  PROVE  Agrees'
  <1> USE InstallerAssumption, NilAssumption
  <1>r. CASE Ends
    BY <1>r, EndsAgrees DEF StopNow
  <1>0. CASE ~Ends
    <2>1. Journalled'
      BY <1>0 DEF StopNow, Goto, disk, procs, counters, local, Open, Guarded, Rollback,
         Restoring, TypeOK, Control, Agrees, Journalled, Snapshot, Whole, SameStart, Forward,
         Backward, Target
    <2>2. Forward'
      BY <1>0 DEF StopNow, Goto, disk, procs, counters, local, Open, Guarded, Rollback,
         Restoring, TypeOK, Control, Agrees, Forward, Journalled, Whole, Target, NewIdentity
    <2>3. Backward'
      BY <1>0 DEF StopNow, Goto, disk, procs, counters, local, Open, Guarded, Rollback,
         Restoring, TypeOK, Control, Agrees, Backward, Journalled, Snapshot, SameStart
    <2> QED
      BY <2>1, <2>2, <2>3 DEF Agrees
  <1> QED
    BY <1>r, <1>0

LEMMA StartAgrees ==
  ASSUME TypeOK, Control, Agrees, Start
  PROVE  Agrees'
  <1> USE InstallerAssumption, NilAssumption
  <1>r. CASE Ends
    BY <1>r, EndsAgrees DEF Start
  <1>0. CASE ~Ends
    <2>1. Journalled'
      BY <1>0 DEF Start, Goto, disk, procs, counters, local, Open, Guarded, Rollback, Restoring,
         TypeOK, Control, Agrees, Journalled, Snapshot, Whole, SameStart, Forward, Backward,
         Target
    <2>2. Forward'
      BY <1>0 DEF Start, Goto, disk, procs, counters, local, Open, Guarded, Rollback, Restoring,
         TypeOK, Control, Agrees, Forward, Journalled, Whole, Target, NewIdentity
    <2>3. Backward'
      BY <1>0 DEF Start, Goto, disk, procs, counters, local, Open, Guarded, Rollback, Restoring,
         TypeOK, Control, Agrees, Backward, Journalled, Snapshot, SameStart
    <2> QED
      BY <2>1, <2>2, <2>3 DEF Agrees
  <1> QED
    BY <1>r, <1>0

LEMMA UserEditsAgrees ==
  ASSUME TypeOK, Control, Agrees, UserEdits
  PROVE  Agrees'
  <1> USE InstallerAssumption, NilAssumption
  <1>1. Journalled'
    BY DEF UserEdits, disk, procs, counters, local, Open, Guarded, Rollback, Restoring, TypeOK,
       Control, Agrees, Journalled, Snapshot, Whole, SameStart, Forward, Backward, Target
  <1>2. Forward'
    BY DEF UserEdits, disk, procs, counters, local, Open, Guarded, Rollback, Restoring, TypeOK,
       Control, Agrees, Forward, Journalled, Whole, Target, NewIdentity
  <1>3. Backward'
    BY DEF UserEdits, disk, procs, counters, local, Open, Guarded, Rollback, Restoring, TypeOK,
       Control, Agrees, Backward, Journalled, Snapshot, SameStart
  <1> QED
    BY <1>1, <1>2, <1>3 DEF Agrees

LEMMA UserRevertsAgrees ==
  ASSUME TypeOK, Control, Agrees, UserReverts
  PROVE  Agrees'
  <1> USE InstallerAssumption, NilAssumption
  <1>1. Journalled'
    BY DEF UserReverts, disk, procs, counters, local, Open, Guarded, Rollback, Restoring, TypeOK,
       Control, Agrees, Journalled, Snapshot, Whole, SameStart, Forward, Backward, Target
  <1>2. Forward'
    BY DEF UserReverts, disk, procs, counters, local, Open, Guarded, Rollback, Restoring, TypeOK,
       Control, Agrees, Forward, Journalled, Whole, Target, NewIdentity
  <1>3. Backward'
    BY DEF UserReverts, disk, procs, counters, local, Open, Guarded, Rollback, Restoring, TypeOK,
       Control, Agrees, Backward, Journalled, Snapshot, SameStart
  <1> QED
    BY <1>1, <1>2, <1>3 DEF Agrees

LEMMA StepAgrees == ASSUME IInv, Agrees, [Next]_vars PROVE Agrees'
  <1> USE DEF IInv
  <1>1. CASE \E c \in Calls : Begin(c)
    BY <1>1, BeginAgrees
  <1>2. CASE PlanFails \/ Pruned \/ Started \/ Crash
    BY <1>2, EndsAgrees DEF PlanFails, Pruned, Started, Crash
  <1>3. CASE Fails
    BY <1>3, RaiseAgrees DEF Fails
  <1>4. CASE \/ DaemonDies \/ Logon \/ UNCHANGED vars
             \/ \E e \in Exes : Boots(e) \/ LaunchEnds(e)
    BY <1>4, SameAgrees DEF DaemonDies, Logon, Boots, LaunchEnds, vars, counters
  <1>5. CASE \E e \in Exes : Prune(e)
    BY <1>5, PruneAgrees
  <1> QED
    BY <1>1, <1>2, <1>3, <1>4, <1>5,
       PrepareAgrees, PlanAgrees, CurrentAgrees, WriteJournalAgrees, WriteIdentityAgrees,
       StopPreviousAgrees, ChangeTaskAgrees, RunTaskAgrees, ReadyAgrees, JournalBootIdAgrees,
       ReadConfigAgrees, CompareConfigAgrees, PublishAgrees, RecordAgrees, CommitAgrees,
       StopCandidateAgrees, RestoreTaskAgrees, CompareForRestoreAgrees, RestoreConfigAgrees,
       RestoreIdentityAgrees, RestoreInstallationAgrees, RunPreviousAgrees,
       PreviousReadyAgrees, RolledBackAgrees, StopNowAgrees, StartAgrees,
       UserEditsAgrees, UserRevertsAgrees
       DEF Next, Step, Environment

LEMMA InitAgrees == Init => Agrees
  BY DEF Init, Agrees, Journalled, Forward, Backward, Whole, Open, Guarded, Rollback, Restoring

LEMMA AgreesHolds == Spec => [](IInv /\ Agrees)
  <1>1. Init => IInv /\ Agrees
    BY InitInv, InitAgrees
  <1>2. IInv /\ Agrees /\ [Next]_vars => (IInv /\ Agrees)'
    BY StepInv, StepAgrees
  <1> QED
    BY <1>1, <1>2, PTL DEF Spec

\* Whatever mixture of failures, crashes, recoveries, edits and reviews came
\* before: once no command runs and no journal is left, the login task, the
\* installation record, the identity and the managed block agree.
THEOREM SettledHolds == Spec => []Settled
  <1>1. Agrees => Settled
    BY DEF Agrees, Journalled, Whole, Settled
  <1> QED
    BY <1>1, AgreesHolds, PTL

\* An install or uninstall takes effect in the one step that removes its journal;
\* every other step, a rollback included, leaves what a restart would recover to.
THEOREM CommitIsAtomic == Spec => AtomicCommit
  <1>1. ASSUME IInv, Agrees, [Next]_vars
        PROVE  [Effective' # Effective => pc = "commit" /\ journal' = Nil]_vars
    <2>1. CASE UNCHANGED <<installation, journal>>
      BY <2>1 DEF Effective
    <2>2. CASE WriteJournal
      <3>1. /\ pc = "journal" /\ journal' = txn /\ installation' = installation
            /\ txn # Nil /\ txn.installation = installation /\ journal = Nil
        BY <1>1, <2>2 DEF WriteJournal, IInv, Control, Open, Agrees, Forward, Journalled, Guarded,
           Rollback
      <3> QED
        BY <3>1 DEF Effective
    <2>3. CASE JournalBootId
      <3>1. /\ journal' = txn /\ installation' = installation /\ journal # Nil
            /\ txn # Nil /\ txn.installation = journal.installation
        BY <1>1, <2>3 DEF JournalBootId, IInv, Control, Open, Agrees, Journalled, Guarded,
           SameStart
      <3> QED
        BY <3>1 DEF Effective
    <2>4. CASE Record \/ RestoreInstallation
      <3>1. journal # Nil /\ journal' = journal
        BY <1>1, <2>4 DEF Record, RestoreInstallation, Agrees, Journalled, Guarded, Rollback
      <3> QED
        BY <3>1 DEF Effective
    <2>5. CASE RolledBack
      <3>1. CASE conflict
        BY <2>1, <2>5, <3>1 DEF RolledBack
      <3>2. CASE ~conflict
        <4>1. /\ journal # Nil /\ journal' = Nil /\ installation' = installation
              /\ installation = journal.installation
          BY <1>1, <2>5, <3>2 DEF RolledBack, Agrees, Journalled, Backward, Rollback, SameStart
        <4> QED
          BY <4>1 DEF Effective
      <3> QED
        BY <3>1, <3>2
    <2>6. CASE Commit
      BY <2>6 DEF Commit
    <2>7. CASE UNCHANGED vars
      BY <2>1, <2>7 DEF vars, disk
    <2>8. CASE Next
      <3>1. CASE Environment
        BY <2>1, <3>1 DEF Environment, Fails, Crash, DaemonDies, Logon, UserEdits, UserReverts,
           Boots, LaunchEnds, disk
      <3>2. CASE \E c \in Calls : Begin(c)
        BY <2>1, <3>2 DEF Begin, disk
      <3>3. CASE Step
        BY <2>1, <2>2, <2>3, <2>4, <2>5, <2>6, <3>3 DEF Step, disk, Prepare, Plan, PlanFails,
           Current, WriteIdentity, StopPrevious, ChangeTask, RunTask, Ready, ReadConfig,
           CompareConfig, Publish, Prune, Pruned, StopCandidate, RestoreTask,
           CompareForRestore, RestoreConfig, RestoreIdentity, RunPrevious, PreviousReady,
           StopNow, Start, Started
      <3> QED
        BY <2>8, <3>1, <3>2, <3>3 DEF Next
    <2> QED
      BY <1>1, <2>7, <2>8
  <1> QED
    BY <1>1, AgreesHolds, PTL DEF Spec, AtomicCommit

\* A command never writes back a configuration older than the one it compared
\* with: an edit it destroys was made between the comparison and the write.
THEOREM EditsAreKept == Spec => EditsSurvive
  <1>1. ASSUME IInv, Agrees, [Next]_vars
        PROVE  [Step /\ config'.user < config.user => config.user > source.user]_vars
    <2>1. ASSUME Step, config' # config PROVE Publish \/ RestoreConfig
      BY <2>1 DEF Step, disk, Prepare, Plan, PlanFails, Current, WriteJournal, WriteIdentity,
         StopPrevious, ChangeTask, RunTask, Ready, JournalBootId, ReadConfig, CompareConfig,
         Record, Commit, Prune, Pruned, StopCandidate, RestoreTask, CompareForRestore,
         RestoreIdentity, RestoreInstallation, RunPrevious, PreviousReady, RolledBack,
         StopNow, Start, Started
    <2>2. config.user \in Int /\ source.user \in Int /\ source \in Configs
      BY <1>1, InstallerAssumption DEF IInv, TypeOK, Configs
    <2>3. CASE Publish
      <3>1. config'.user = source.user
        BY <1>1, <2>2, <2>3 DEF Publish, Result, Agrees, Forward, Open, Guarded, Configs,
           IInv, TypeOK, Control, Transactions
      <3> QED
        BY <2>2, <3>1
    <2>4. CASE RestoreConfig
      <3>1. config'.user = source.user
        BY <1>1, <2>4 DEF RestoreConfig, Agrees, Backward
      <3> QED
        BY <2>2, <3>1
    <2> QED
      BY <2>1, <2>2, <2>3, <2>4
  <1> QED
    BY <1>1, AgreesHolds, PTL DEF Spec, EditsSurvive
===============================================================================
