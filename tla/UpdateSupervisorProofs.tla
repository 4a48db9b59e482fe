------------------------ MODULE UpdateSupervisorProofs ------------------------
(***************************************************************************)
(* Safety of the update supervisor for every set of builds and rows.  The  *)
(* invariant ties the supervisor's program counter to what state.json      *)
(* says, and both to what the child may be and what the database holds.    *)
(*                                                                         *)
(* The second part: the supervisor implements AtomicUpgrade, in the runs   *)
(* in which restores succeed and nothing dies between the staging of an    *)
(* update and the exit of the child for it: a death in that window leaves  *)
(* commits in a write-ahead log that the snapshot does not include.        *)
(*                                                                         *)
(* The third part: the lock file, for any number of supervisors.           *)
(***************************************************************************)
EXTENDS UpdateRefinement, SupervisorLock, TLAPS

(* The phase a running promotion has journaled. *)
PhaseAt ==
    /\ pc \in {"copy", "verify"} => journal.phase = "snapshotting"
    /\ pc = "preflight" => journal.phase = "preflighting"
    /\ pc \in {"spawn", "spawned"} => journal.phase = "migrating"
    /\ pc = "wait_ready" => journal.phase = "starting"
    /\ pc = "stabilize" => journal.phase = "stabilizing"
    /\ pc = "open_gate" => journal.phase = "promoted"
    /\ pc \in Rollback => journal.phase = "rolling_back"
    /\ pc \in {"recover_wal", "recover_journal"} => journal.phase \in InFlight
    /\ pc \in {"boot", "loop", "wait", "drop_promoted", "supervise", "drop_failed"}
        => journal.phase \notin InFlight

(* The operation of a running promotion is the journal's. *)
OperationAt ==
    pc \in Preparation \cup {"spawn"} \cup CandidateGated \cup Rollback
        => /\ op \in Builds
           /\ journal.candidate = op /\ journal.backup = op

(* The journal only ever names the bundled binary or a promoted one. *)
Trusted == promoted \cup {Bundled}
CurrentTrusted ==
    /\ journal.current \in Trusted \cup {NoPath}
    /\ journal.phase \in InFlight
        => journal.current \in Trusted /\ journal.previous = journal.current
    /\ pc \in {"wait", "open_gate", "drop_promoted", "supervise", "drop_failed"}
        => journal.current \in Trusted
    /\ pc = "loop" => run = ActivePath
    /\ pc = "wait" => run = journal.current
    /\ pc = "open_gate" => journal.current = op

(* A child runs the journal's current binary, or the candidate behind the gate. *)
ChildAt ==
    /\ pc \in CandidateGated
        => childPath = op /\ childStage \in {"booting", "up", "ready", "exited"}
    /\ pc \in {"wait", "drop_promoted", "supervise"} /\ childStage # "none"
        => childPath = journal.current
    /\ pc \notin CandidateGated \cup {"wait", "drop_promoted", "supervise"}
        => childStage = "none"

(* A child that asked for an update has written the request of its install. *)
InstallAt ==
    /\ childStage \in {"staged", "requested", "exit75"} => install # NoPath
    /\ pc = "wait" /\ childStage \in {"requested", "exit75"} => request = install

SupervisorInv == TypeOK /\ PhaseAt /\ OperationAt /\ CurrentTrusted /\ ChildAt /\ InstallAt

(* Database files: a build that was never promoted has migrated them only while *)
(* its own promotion is in flight, and never a backup.                          *)
Clean(commits) == commits \cap Builds \subseteq promoted
SchemaInv ==
    /\ \A b \in Builds : Clean(backup[b])
    /\ journal.phase \notin InFlight \/ journal.phase \in {"snapshotting", "preflighting"}
        => Clean(main) /\ Clean(wal)
    /\ (main \cup wal) \cap Builds \subseteq promoted \cup {journal.candidate}
    /\ pc \in {"recover_wal", "recover_journal", "drop_wal", "finish_rollback"} => Clean(main)
    /\ pc \in {"recover_journal", "finish_rollback"} => wal = {}

-----------------------------------------------------------------------------
(* Both invariants hold of an empty data directory. *)
LEMMA InvInit == Init => SupervisorInv /\ SchemaInv
  BY ConstantsAssumption DEF Init, SchemaInv, Clean,
      Journals, Phases, InFlight, Paths, Commits, Labels, Stopped, Recovery, Preparation,
      CandidateGated, Rollback, Stages, Open, Goto, disk, supervisor, child, history,
      SupervisorInv, TypeOK, PhaseAt, OperationAt, CurrentTrusted, ChildAt, InstallAt, Trusted,
      ActivePath

(* Every step of the supervisor, of its child and of its environment keeps the  *)
(* types and the relations between program counter, journal and child.          *)
LEMMA InvStep == SupervisorInv /\ [Next]_vars => SupervisorInv'
<1> SUFFICES ASSUME SupervisorInv, [Next]_vars PROVE SupervisorInv'
  OBVIOUS
<1> USE ConstantsAssumption DEF
      SupervisorInv, TypeOK, PhaseAt, OperationAt, CurrentTrusted, ChildAt, InstallAt, Trusted,
      ActivePath,
      Journals, Phases, InFlight, Paths, Commits, Labels, Stopped, Recovery, Preparation,
      CandidateGated, Rollback, Stages, Open, Goto, disk, supervisor, child, history
<1>1. CASE Boot
  BY <1>1 DEF Boot
<1>2. CASE RecoverNothing
  BY <1>2 DEF RecoverNothing
<1>3. CASE RecoverRestore
  BY <1>3 DEF RecoverRestore
<1>4. CASE RecoverDropWal
  BY <1>4 DEF RecoverDropWal
<1>5. CASE RecoverJournal
  BY SMTT(30), ZenonT(60), <1>5 DEF RecoverJournal
<1>6. CASE RecoverFails
  BY <1>6 DEF RecoverFails
<1>7. CASE BootStaged
  BY <1>7 DEF BootStaged, BeginPromotion
<1>8. CASE BootRun
  BY <1>8 DEF BootRun
<1>9. CASE CopyDatabase
  BY <1>9 DEF CopyDatabase
<1>10. CASE VerifySnapshot
  BY <1>10 DEF VerifySnapshot
<1>11. CASE PreflightCandidate
  BY <1>11 DEF PreflightCandidate
<1>12. CASE RollbackFailure
  BY <1>12 DEF RollbackFailure
<1>13. CASE SpawnCandidate
  BY <1>13 DEF SpawnCandidate
<1>14. CASE JournalStarting
  BY <1>14 DEF JournalStarting
<1>15. CASE CandidateBecameReady
  BY <1>15 DEF CandidateBecameReady
<1>16. CASE Promote
  BY SMTT(30), ZenonT(60), <1>16 DEF Promote
<1>17. CASE OpenGate
  BY <1>17 DEF OpenGate
<1>18. CASE DropPromotedRequest
  BY <1>18 DEF DropPromotedRequest
<1>19. CASE BeginRollback
  BY <1>19 DEF BeginRollback, NoChild
<1>20. CASE RollbackRestore
  BY <1>20 DEF RollbackRestore
<1>21. CASE RollbackDropWal
  BY <1>21 DEF RollbackDropWal
<1>22. CASE FinishRollback
  BY <1>22 DEF FinishRollback
<1>23. CASE DropFailedRequest
  BY <1>23 DEF DropFailedRequest
<1>24. CASE RollbackFails
  BY <1>24 DEF RollbackFails
<1>25. CASE StartChild
  BY <1>25 DEF StartChild
<1>26. CASE ChildGone
  BY <1>26 DEF ChildGone, NoChild
<1>27. CASE ChildAskedForUpdate
  BY <1>27 DEF ChildAskedForUpdate, BeginPromotion, NoChild
<1>28. CASE PromotedChildGone
  BY <1>28 DEF PromotedChildGone, NoChild
<1>29. CASE ChildOpens
  BY <1>29 DEF ChildOpens
<1>30. CASE CandidateReady
  BY <1>30 DEF CandidateReady
<1>31. CASE Checkpoint
  BY <1>31 DEF Checkpoint
<1>32. CASE ServiceIdle
  BY <1>32 DEF ServiceIdle, Serving
<1>33. CASE InstallRequests
  BY <1>33 DEF InstallRequests
<1>34. CASE ExitForUpdate
  BY <1>34 DEF ExitForUpdate
<1>35. CASE ChildDies
  BY <1>35 DEF ChildDies
<1>36. CASE Terminate
  BY <1>36 DEF Terminate, NoChild
<1>37. CASE Crash
  BY <1>37 DEF Crash, NoChild
<1>38. ASSUME NEW r \in Rows, Serve(r) PROVE SupervisorInv'
  BY <1>38 DEF Serve, Serving
<1>39. ASSUME NEW b \in Builds, InstallStages(b) PROVE SupervisorInv'
  <2>1. journal' \in Journals /\ childPath # NoPath
    BY <1>39 DEF InstallStages
  <2>2. TypeOK'
    BY <1>39, <2>1 DEF InstallStages
  <2>3. PhaseAt' /\ OperationAt' /\ CurrentTrusted'
    BY <1>39 DEF InstallStages, Serving
  <2>4. ChildAt' /\ InstallAt'
    BY <1>39 DEF InstallStages, Serving
  <2> QED
    BY <2>2, <2>3, <2>4
<1>40. CASE UNCHANGED vars
  BY <1>40 DEF vars
<1>. QED
  BY <1>1, <1>2, <1>3, <1>4, <1>5, <1>6, <1>7, <1>8, <1>9, <1>10, <1>11, <1>12, <1>13, <1>14, <1>15, <1>16, <1>17, <1>18, <1>19, <1>20, <1>21, <1>22, <1>23, <1>24, <1>25, <1>26, <1>27, <1>28, <1>29, <1>30, <1>31, <1>32, <1>33, <1>34, <1>35, <1>36, <1>37, <1>38, <1>39, <1>40
     DEF Next, RecoveryStep, PromotionStep, RollbackStep, SupervisionStep, ChildStep

(* When restores succeed, every step keeps unpromoted migrations confined to the *)
(* promotion that is in flight, so that restoring its snapshot removes them.     *)
LEMMA SchemaStep == ~DiskFaults /\ SupervisorInv /\ SchemaInv /\ [Next]_vars => SchemaInv'
<1> SUFFICES ASSUME ~DiskFaults, SupervisorInv, SchemaInv, [Next]_vars PROVE SchemaInv'
  OBVIOUS
<1> USE ConstantsAssumption DEF SchemaInv, Clean,
      SupervisorInv, TypeOK, PhaseAt, OperationAt, CurrentTrusted, ChildAt, InstallAt, Trusted,
      ActivePath,
      Journals, Phases, InFlight, Paths, Commits, Labels, Stopped, Recovery, Preparation,
      CandidateGated, Rollback, Stages, Open, Goto, disk, supervisor, child, history
<1>1. CASE Boot
  BY <1>1 DEF Boot
<1>2. CASE RecoverNothing
  BY <1>2 DEF RecoverNothing
<1>3. CASE RecoverRestore
  BY <1>3 DEF RecoverRestore
<1>4. CASE RecoverDropWal
  BY <1>4 DEF RecoverDropWal
<1>5. CASE RecoverJournal
  BY <1>5 DEF RecoverJournal
<1>6. CASE RecoverFails
  BY <1>6 DEF RecoverFails
<1>7. CASE BootStaged
  BY <1>7 DEF BootStaged, BeginPromotion
<1>8. CASE BootRun
  BY <1>8 DEF BootRun
<1>9. CASE CopyDatabase
  BY <1>9 DEF CopyDatabase
<1>10. CASE VerifySnapshot
  BY <1>10 DEF VerifySnapshot
<1>11. CASE PreflightCandidate
  BY <1>11 DEF PreflightCandidate
<1>12. CASE RollbackFailure
  BY <1>12 DEF RollbackFailure
<1>13. CASE SpawnCandidate
  BY <1>13 DEF SpawnCandidate
<1>14. CASE JournalStarting
  BY <1>14 DEF JournalStarting
<1>15. CASE CandidateBecameReady
  BY <1>15 DEF CandidateBecameReady
<1>16. CASE Promote
  BY <1>16 DEF Promote
<1>17. CASE OpenGate
  BY <1>17 DEF OpenGate
<1>18. CASE DropPromotedRequest
  BY <1>18 DEF DropPromotedRequest
<1>19. CASE BeginRollback
  BY <1>19 DEF BeginRollback, NoChild
<1>20. CASE RollbackRestore
  BY <1>20 DEF RollbackRestore
<1>21. CASE RollbackDropWal
  BY <1>21 DEF RollbackDropWal
<1>22. CASE FinishRollback
  BY <1>22 DEF FinishRollback
<1>23. CASE DropFailedRequest
  BY <1>23 DEF DropFailedRequest
<1>24. CASE RollbackFails
  BY <1>24 DEF RollbackFails
<1>25. CASE StartChild
  BY <1>25 DEF StartChild
<1>26. CASE ChildGone
  BY <1>26 DEF ChildGone, NoChild
<1>27. CASE ChildAskedForUpdate
  BY <1>27 DEF ChildAskedForUpdate, BeginPromotion, NoChild
<1>28. CASE PromotedChildGone
  BY <1>28 DEF PromotedChildGone, NoChild
<1>29. CASE ChildOpens
  BY <1>29 DEF ChildOpens
<1>30. CASE CandidateReady
  BY <1>30 DEF CandidateReady
<1>31. CASE Checkpoint
  BY <1>31 DEF Checkpoint
<1>32. CASE ServiceIdle
  BY <1>32 DEF ServiceIdle, Serving
<1>33. CASE InstallRequests
  BY <1>33 DEF InstallRequests
<1>34. CASE ExitForUpdate
  BY <1>34 DEF ExitForUpdate
<1>35. CASE ChildDies
  BY <1>35 DEF ChildDies
<1>36. CASE Terminate
  BY <1>36 DEF Terminate, NoChild
<1>37. CASE Crash
  BY <1>37 DEF Crash, NoChild
<1>38. ASSUME NEW r \in Rows, Serve(r) PROVE SchemaInv'
  BY <1>38 DEF Serve, Serving
<1>39. ASSUME NEW b \in Builds, InstallStages(b) PROVE SchemaInv'
  BY <1>39 DEF InstallStages, Serving
<1>40. CASE UNCHANGED vars
  BY <1>40 DEF vars
<1>. QED
  BY <1>1, <1>2, <1>3, <1>4, <1>5, <1>6, <1>7, <1>8, <1>9, <1>10, <1>11, <1>12, <1>13, <1>14, <1>15, <1>16, <1>17, <1>18, <1>19, <1>20, <1>21, <1>22, <1>23, <1>24, <1>25, <1>26, <1>27, <1>28, <1>29, <1>30, <1>31, <1>32, <1>33, <1>34, <1>35, <1>36, <1>37, <1>38, <1>39, <1>40
     DEF Next, RecoveryStep, PromotionStep, RollbackStep, SupervisionStep, ChildStep

-----------------------------------------------------------------------------
(* The invariant holds in every reachable state, crashes and restarts included. *)
LEMMA Invariance == Spec => []SupervisorInv
<1>1. Init => SupervisorInv
  BY InvInit
<1>2. SupervisorInv /\ [Next]_vars => SupervisorInv'
  BY InvStep
<1>. QED
  BY <1>1, <1>2, PTL DEF Spec

(* Type correctness: state.json, the files, the supervisor's variables and the  *)
(* child keep their types for every set of builds and rows.                     *)
THEOREM TypeCorrect == Spec => []TypeOK
<1>1. SupervisorInv => TypeOK
  BY DEF SupervisorInv
<1>. QED
  BY <1>1, Invariance, PTL

(* promoteCandidate and recoverInterrupted: whoever answers clients runs the    *)
(* journal's current binary, and that is the bundled or a promoted one.         *)
THEOREM ActiveBinaryServes == Spec => []ServesActiveBinary
<1>1. SupervisorInv => ServesActiveBinary
  BY ConstantsAssumption DEF ServesActiveBinary, Serving,
      SupervisorInv, TypeOK, PhaseAt, OperationAt, CurrentTrusted, ChildAt, InstallAt, Trusted,
      ActivePath,
      Journals, Phases, InFlight, Paths, Commits, Labels, Stopped, Recovery, Preparation,
      CandidateGated, Rollback, Stages, Open, Goto, disk, supervisor, child, history
<1>. QED
  BY <1>1, Invariance, PTL

(* RunSupervisor never starts the application while the journal says that an    *)
(* update is in flight.                                                         *)
THEOREM SettledJournal == Spec => []StartsFromSettledJournal
<1>1. SupervisorInv => StartsFromSettledJournal
  BY DEF SupervisorInv, PhaseAt, StartsFromSettledJournal
<1>. QED
  BY <1>1, Invariance, PTL

(* readRequest cannot fail after exit code 75: the child wrote request.json and *)
(* nobody removed it.                                                           *)
THEOREM RequestOnExit == Spec => []RequestedExitHasRequest
<1>1. SupervisorInv => RequestedExitHasRequest
  BY DEF SupervisorInv, InstallAt, RequestedExitHasRequest
<1>. QED
  BY <1>1, Invariance, PTL

(* When a restore that is attempted succeeds, no application serves clients on  *)
(* a database with the migrations of a build that was never promoted.           *)
THEOREM MigrationsArePromoted == ASSUME ~DiskFaults PROVE Spec => []NoForeignMigrations
<1>1. Init => SupervisorInv /\ SchemaInv
  BY InvInit
<1>2. SupervisorInv /\ SchemaInv /\ [Next]_vars => (SupervisorInv /\ SchemaInv)'
  BY InvStep, SchemaStep
<1>3. SupervisorInv /\ SchemaInv => NoForeignMigrations
  BY ConstantsAssumption DEF NoForeignMigrations, Serving, SchemaInv, Clean,
      SupervisorInv, TypeOK, PhaseAt, OperationAt, CurrentTrusted, ChildAt, InstallAt, Trusted,
      ActivePath,
      Journals, Phases, InFlight, Paths, Commits, Labels, Stopped, Recovery, Preparation,
      CandidateGated, Rollback, Stages, Open, Goto, disk, supervisor, child, history
<1>. QED
  BY <1>1, <1>2, <1>3, PTL DEF Spec

-----------------------------------------------------------------------------
(* Operation ids are fresh: one that is being installed has no snapshot yet. *)
FreshOperation ==
    /\ taken \subseteq used
    /\ request # NoPath => request \in used
    /\ install # NoPath => install \in used
    /\ childStage \in {"staged", "requested", "exit75"} => install \notin taken
    /\ childStage \in {"requested", "exit75"} => request \in {install, NoPath}
    /\ op \in used \cup {NoPath}

(* Whenever a staged update can be picked up, the write-ahead log is empty. *)
StagedIsCheckpointed ==
    /\ childStage = "exit75" => wal = {}
    /\ journal.phase = "staged" /\ childStage \notin Open
        => wal = {} /\ request \notin taken
    /\ pc = "copy" => op \notin taken /\ wal = {}

(* While a promotion is in flight its snapshot is the database it started from: *)
(* what the candidate adds to the live files is its own migrations.             *)
SnapshotIsCurrent ==
    /\ pc \in {"verify", "preflight", "spawn"} \cup CandidateGated \cup Rollback => op \in taken
    /\ pc \in {"verify", "preflight", "spawn"} => main = backup[op] /\ wal = {}
    /\ pc \in {"spawned", "wait_ready"} /\ childStage = "booting" => main \cup wal = backup[op]
    /\ pc \in {"spawned", "wait_ready"} /\ childStage \in {"up", "ready"}
        => main \cup wal = backup[op] \cup {op}
    /\ pc = "stabilize"
        => main \cup wal = backup[op] \cup {op} /\ childStage \in {"ready", "exited"}
    /\ pc \in {"drop_wal", "finish_rollback"} => main = backup[op]
    /\ pc \in {"recover_wal", "recover_journal"}
        => journal.backup \in taken /\ main = backup[journal.backup]
    /\ pc \in {"recover_journal", "finish_rollback"} => wal = {}

UpgradeInv == FreshOperation /\ StagedIsCheckpointed /\ SnapshotIsCurrent

-----------------------------------------------------------------------------
(* The invariant of the upgrade holds at the start. *)
LEMMA UpgradeInit == Init => UpgradeInv
  BY ConstantsAssumption DEF Init, UpgradeInv, FreshOperation, StagedIsCheckpointed, SnapshotIsCurrent,
      Journals, Phases, InFlight, Paths, Commits, Labels, Stopped, Recovery, Preparation,
      CandidateGated, Rollback, Stages, Open, Goto, disk, supervisor, child, history

(* Every step keeps the snapshot relations. *)
LEMMA UpgradeInvStep ==
    ~DiskFaults /\ ~DiesWhileStaged /\ SupervisorInv /\ UpgradeInv /\ [Next]_vars => UpgradeInv'
<1> SUFFICES ASSUME ~DiskFaults, ~DiesWhileStaged, SupervisorInv, UpgradeInv, [Next]_vars PROVE UpgradeInv'
  OBVIOUS
<1> USE ConstantsAssumption DEF UpgradeInv, FreshOperation, StagedIsCheckpointed, SnapshotIsCurrent,
      SupervisorInv, TypeOK, PhaseAt, OperationAt, CurrentTrusted, ChildAt, InstallAt, Trusted,
      ActivePath,
      Journals, Phases, InFlight, Paths, Commits, Labels, Stopped, Recovery, Preparation,
      CandidateGated, Rollback, Stages, Open, Goto, disk, supervisor, child, history
<1>1. CASE Boot
  BY <1>1 DEF Boot
<1>2. CASE RecoverNothing
  BY <1>2 DEF RecoverNothing
<1>3. CASE RecoverRestore
  BY <1>3 DEF RecoverRestore
<1>4. CASE RecoverDropWal
  BY <1>4 DEF RecoverDropWal
<1>5. CASE RecoverJournal
  BY <1>5 DEF RecoverJournal
<1>6. CASE RecoverFails
  BY <1>6 DEF RecoverFails
<1>7. CASE BootStaged
  BY <1>7 DEF BootStaged, BeginPromotion
<1>8. CASE BootRun
  BY <1>8 DEF BootRun
<1>9. CASE CopyDatabase
  BY <1>9 DEF CopyDatabase
<1>10. CASE VerifySnapshot
  BY <1>10 DEF VerifySnapshot
<1>11. CASE PreflightCandidate
  BY <1>11 DEF PreflightCandidate
<1>12. CASE RollbackFailure
  BY <1>12 DEF RollbackFailure
<1>13. CASE SpawnCandidate
  BY <1>13 DEF SpawnCandidate
<1>14. CASE JournalStarting
  BY <1>14 DEF JournalStarting
<1>15. CASE CandidateBecameReady
  BY <1>15 DEF CandidateBecameReady
<1>16. CASE Promote
  BY <1>16 DEF Promote
<1>17. CASE OpenGate
  BY <1>17 DEF OpenGate
<1>18. CASE DropPromotedRequest
  BY <1>18 DEF DropPromotedRequest
<1>19. CASE BeginRollback
  BY <1>19 DEF BeginRollback, NoChild
<1>20. CASE RollbackRestore
  BY <1>20 DEF RollbackRestore
<1>21. CASE RollbackDropWal
  BY <1>21 DEF RollbackDropWal
<1>22. CASE FinishRollback
  BY <1>22 DEF FinishRollback
<1>23. CASE DropFailedRequest
  BY <1>23 DEF DropFailedRequest
<1>24. CASE RollbackFails
  BY <1>24 DEF RollbackFails
<1>25. CASE StartChild
  BY <1>25 DEF StartChild
<1>26. CASE ChildGone
  BY <1>26 DEF ChildGone, NoChild
<1>27. CASE ChildAskedForUpdate
  BY <1>27 DEF ChildAskedForUpdate, BeginPromotion, NoChild
<1>28. CASE PromotedChildGone
  BY <1>28 DEF PromotedChildGone, NoChild
<1>29. CASE ChildOpens
  BY <1>29 DEF ChildOpens
<1>30. CASE CandidateReady
  BY <1>30 DEF CandidateReady
<1>31. CASE Checkpoint
  BY <1>31 DEF Checkpoint
<1>32. CASE ServiceIdle
  BY <1>32 DEF ServiceIdle, Serving
<1>33. CASE InstallRequests
  BY <1>33 DEF InstallRequests
<1>34. CASE ExitForUpdate
  BY <1>34 DEF ExitForUpdate
<1>35. CASE ChildDies
  BY <1>35 DEF ChildDies, MayDie
<1>36. CASE Terminate
  BY <1>36 DEF Terminate, NoChild, MayDie
<1>37. CASE Crash
  BY <1>37 DEF Crash, NoChild, MayDie
<1>38. ASSUME NEW r \in Rows, Serve(r) PROVE UpgradeInv'
  BY <1>38 DEF Serve, Serving
<1>39. ASSUME NEW b \in Builds, InstallStages(b) PROVE UpgradeInv'
  BY <1>39 DEF InstallStages, Serving
<1>40. CASE UNCHANGED vars
  BY <1>40 DEF vars
<1>. QED
  BY <1>1, <1>2, <1>3, <1>4, <1>5, <1>6, <1>7, <1>8, <1>9, <1>10, <1>11, <1>12, <1>13, <1>14, <1>15, <1>16, <1>17, <1>18, <1>19, <1>20, <1>21, <1>22, <1>23, <1>24, <1>25, <1>26, <1>27, <1>28, <1>29, <1>30, <1>31, <1>32, <1>33, <1>34, <1>35, <1>36, <1>37, <1>38, <1>39, <1>40
     DEF Next, RecoveryStep, PromotionStep, RollbackStep, SupervisionStep, ChildStep

(* Every step is an atomic upgrade, work of the active binary, or no change. *)
LEMMA UpgradeStep ==
    ~DiskFaults /\ ~DiesWhileStaged /\ SupervisorInv /\ UpgradeInv /\ [Next]_vars
        => [Upgrade!Next]_<<ActivePath, EffectiveContents>>
<1> SUFFICES ASSUME ~DiskFaults, ~DiesWhileStaged, SupervisorInv, UpgradeInv, [Next]_vars
             PROVE [Upgrade!Next]_<<ActivePath, EffectiveContents>>
  OBVIOUS
<1> USE ConstantsAssumption DEF UpgradeInv, FreshOperation, StagedIsCheckpointed, SnapshotIsCurrent,
      SupervisorInv, TypeOK, PhaseAt, OperationAt, CurrentTrusted, ChildAt, InstallAt, Trusted,
      ActivePath, EffectiveContents, Upgrade!Next, Upgrade!Work, Upgrade!Upgrade,
      Journals, Phases, InFlight, Paths, Commits, Labels, Stopped, Recovery, Preparation,
      CandidateGated, Rollback, Stages, Open, Goto, disk, supervisor, child, history
<1>1. CASE Boot
  BY <1>1 DEF Boot
<1>2. CASE RecoverNothing
  BY <1>2 DEF RecoverNothing
<1>3. CASE RecoverRestore
  BY <1>3 DEF RecoverRestore
<1>4. CASE RecoverDropWal
  BY <1>4 DEF RecoverDropWal
<1>5. CASE RecoverJournal
  BY <1>5 DEF RecoverJournal
<1>6. CASE RecoverFails
  BY <1>6 DEF RecoverFails
<1>7. CASE BootStaged
  BY <1>7 DEF BootStaged, BeginPromotion
<1>8. CASE BootRun
  BY <1>8 DEF BootRun
<1>9. CASE CopyDatabase
  BY <1>9 DEF CopyDatabase
<1>10. CASE VerifySnapshot
  BY <1>10 DEF VerifySnapshot
<1>11. CASE PreflightCandidate
  BY <1>11 DEF PreflightCandidate
<1>12. CASE RollbackFailure
  BY <1>12 DEF RollbackFailure
<1>13. CASE SpawnCandidate
  BY <1>13 DEF SpawnCandidate
<1>14. CASE JournalStarting
  BY <1>14 DEF JournalStarting
<1>15. CASE CandidateBecameReady
  BY <1>15 DEF CandidateBecameReady
<1>16. CASE Promote
  BY <1>16 DEF Promote
<1>17. CASE OpenGate
  BY <1>17 DEF OpenGate
<1>18. CASE DropPromotedRequest
  BY <1>18 DEF DropPromotedRequest
<1>19. CASE BeginRollback
  BY <1>19 DEF BeginRollback, NoChild
<1>20. CASE RollbackRestore
  BY <1>20 DEF RollbackRestore
<1>21. CASE RollbackDropWal
  BY <1>21 DEF RollbackDropWal
<1>22. CASE FinishRollback
  BY <1>22 DEF FinishRollback
<1>23. CASE DropFailedRequest
  BY <1>23 DEF DropFailedRequest
<1>24. CASE RollbackFails
  BY <1>24 DEF RollbackFails
<1>25. CASE StartChild
  BY <1>25 DEF StartChild
<1>26. CASE ChildGone
  BY <1>26 DEF ChildGone, NoChild
<1>27. CASE ChildAskedForUpdate
  BY <1>27 DEF ChildAskedForUpdate, BeginPromotion, NoChild
<1>28. CASE PromotedChildGone
  BY <1>28 DEF PromotedChildGone, NoChild
<1>29. CASE ChildOpens
  BY <1>29 DEF ChildOpens
<1>30. CASE CandidateReady
  BY <1>30 DEF CandidateReady
<1>31. CASE Checkpoint
  BY <1>31 DEF Checkpoint
<1>32. CASE ServiceIdle
  BY <1>32 DEF ServiceIdle, Serving
<1>33. CASE InstallRequests
  BY <1>33 DEF InstallRequests
<1>34. CASE ExitForUpdate
  BY <1>34 DEF ExitForUpdate
<1>35. CASE ChildDies
  BY <1>35 DEF ChildDies, MayDie
<1>36. CASE Terminate
  BY <1>36 DEF Terminate, NoChild, MayDie
<1>37. CASE Crash
  BY <1>37 DEF Crash, NoChild, MayDie
<1>38. ASSUME NEW r \in Rows, Serve(r) PROVE [Upgrade!Next]_<<ActivePath, EffectiveContents>>
  BY <1>38 DEF Serve, Serving
<1>39. ASSUME NEW b \in Builds, InstallStages(b) PROVE [Upgrade!Next]_<<ActivePath, EffectiveContents>>
  BY <1>39 DEF InstallStages, Serving
<1>40. CASE UNCHANGED vars
  BY <1>40 DEF vars
<1>. QED
  BY <1>1, <1>2, <1>3, <1>4, <1>5, <1>6, <1>7, <1>8, <1>9, <1>10, <1>11, <1>12, <1>13, <1>14, <1>15, <1>16, <1>17, <1>18, <1>19, <1>20, <1>21, <1>22, <1>23, <1>24, <1>25, <1>26, <1>27, <1>28, <1>29, <1>30, <1>31, <1>32, <1>33, <1>34, <1>35, <1>36, <1>37, <1>38, <1>39, <1>40
     DEF Next, RecoveryStep, PromotionStep, RollbackStep, SupervisionStep, ChildStep

(* The rows clients were told were stored stay in the contents that count. *)
LEMMA AckedStep ==
    SupervisorInv /\ acked \subseteq EffectiveContents /\ [Next]_vars /\ [Upgrade!Next]_<<ActivePath, EffectiveContents>>
        => (acked \subseteq EffectiveContents)'
<1> SUFFICES ASSUME SupervisorInv, acked \subseteq EffectiveContents, [Next]_vars,
                    [Upgrade!Next]_<<ActivePath, EffectiveContents>>
             PROVE acked' \subseteq EffectiveContents'
  OBVIOUS
<1>1. EffectiveContents \subseteq EffectiveContents'
  BY DEF Upgrade!Next, Upgrade!Work, Upgrade!Upgrade
<1>2. ASSUME NEW r \in Rows, Serve(r) PROVE acked' \subseteq EffectiveContents'
  <2>1. journal.phase \notin InFlight
    BY <1>2 DEF Serve, Serving, SupervisorInv, TypeOK, PhaseAt, ChildAt, Open, CandidateGated,
       Rollback, Preparation
  <2>2. r \in EffectiveContents'
    BY <1>2, <2>1 DEF Serve, EffectiveContents
  <2> QED
    BY <1>1, <1>2, <2>2 DEF Serve
<1>3. CASE acked' = acked
  BY <1>1, <1>3
<1>4. acked' = acked \/ \E r \in Rows : Serve(r)
  BY DEF Next, vars, RecoveryStep, PromotionStep, RollbackStep, SupervisionStep, ChildStep, history,
Boot, RecoverNothing, RecoverRestore, RecoverDropWal, RecoverJournal, RecoverFails, BootStaged, BootRun, CopyDatabase, VerifySnapshot, PreflightCandidate, RollbackFailure, SpawnCandidate, JournalStarting, CandidateBecameReady, Promote, OpenGate, DropPromotedRequest, BeginRollback, RollbackRestore,
RollbackDropWal, FinishRollback, DropFailedRequest, RollbackFails, StartChild, ChildGone, ChildAskedForUpdate, PromotedChildGone, ChildOpens, CandidateReady, Checkpoint, ServiceIdle, InstallRequests, ExitForUpdate, ChildDies, Terminate, Crash,
     InstallStages
<1> QED
  BY <1>2, <1>3, <1>4

-----------------------------------------------------------------------------
(* UpdateSupervisor implements AtomicUpgrade: the active binary and the contents *)
(* it opens change together, and nothing stored is taken back.                   *)
THEOREM SupervisorImplementsAtomicUpgrade ==
    ASSUME ~DiskFaults, ~DiesWhileStaged PROVE Spec => ImplementsAtomicUpgrade
<1>1. Init => SupervisorInv /\ UpgradeInv
  BY InvInit, UpgradeInit
<1>2. SupervisorInv /\ UpgradeInv /\ [Next]_vars => (SupervisorInv /\ UpgradeInv)'
  BY InvStep, UpgradeInvStep
<1>3. Init => Upgrade!Init
  BY DEF Init, Upgrade!Init, ActivePath, EffectiveContents, InFlight
<1>4. SupervisorInv /\ UpgradeInv /\ [Next]_vars => [Upgrade!Next]_<<ActivePath, EffectiveContents>>
  BY UpgradeStep
<1>. QED
  BY <1>1, <1>2, <1>3, <1>4, PTL DEF Spec, ImplementsAtomicUpgrade, Upgrade!Spec

(* Whatever update fails or is interrupted, the database that the next           *)
(* application serves from has every row a client was told was stored.           *)
THEOREM AckedRowsAreKept == ASSUME ~DiskFaults, ~DiesWhileStaged PROVE Spec => []AckedRowsSurvive
<1> DEFINE Inv == SupervisorInv /\ UpgradeInv /\ acked \subseteq EffectiveContents
<1>1. Init => Inv
  <2>1. Init => acked \subseteq EffectiveContents
    BY DEF Init
  <2> QED
    BY <2>1, InvInit, UpgradeInit
<1>2. Inv /\ [Next]_vars => Inv'
  BY InvStep, UpgradeInvStep, UpgradeStep, AckedStep
<1>3. Inv => AckedRowsSurvive
  BY DEF AckedRowsSurvive, Serving, EffectiveContents, SupervisorInv, TypeOK, PhaseAt, ChildAt, Open,
     CandidateGated, Rollback, Preparation
<1>. QED
  BY <1>1, <1>2, <1>3, PTL DEF Spec
-----------------------------------------------------------------------------
LockTypes ==
    /\ place \in [Supervisors -> Places] /\ attempt \in [Supervisors -> Nat]
    /\ file \in Supervisors \cup {Nobody} /\ written \in SUBSET Supervisors
    /\ read \in [Supervisors -> [file : Supervisors \cup {Nobody}, pid : BOOLEAN]]
    /\ raced \in BOOLEAN /\ company \in SUBSET Supervisors

(* But for the two windows the file is the holder's, only a process that is gone has an *)
(* unwritten one, and what a process is about to remove belonged to one that ended.     *)
HolderInv ==
    ~raced =>
        /\ \A p \in Supervisors : Has(p) => file = p
        /\ \A p \in Supervisors : place[p] = "holds" => p \in written
        /\ file # Nobody => place[file] \in {"write", "holds", "dead"}
        /\ \A p \in Supervisors : place[p] = "judge" =>
               /\ read[p].file \in Supervisors
               /\ ~read[p].pid => place[read[p].file] = "dead"
        /\ \A p \in Supervisors : place[p] = "remove" =>
               /\ read[p].file \in Supervisors
               /\ place[read[p].file] \in Finished \cup {"dead"}

(* A process that nobody disturbs meets a file in its first pass only. *)
AloneInv ==
    \A p \in Supervisors :
        /\ place[p] = "off" => attempt[p] = 0
        /\ p \notin company =>
               /\ place[p] # "unable"
               /\ place[p] \in {"read", "judge", "remove"} => attempt[p] = 0
               /\ place[p] = "create" => attempt[p] = 0 \/ file = Nobody
               /\ place[p] = "read" => file # Nobody

LockInv == LockTypes /\ HolderInv /\ AloneInv

LEMMA LockStep == LockInv /\ [LockNext]_lockVars => LockInv'
<1> SUFFICES ASSUME LockInv, [LockNext]_lockVars PROVE LockInv'
  OBVIOUS
<1> USE LockConstants DEF LockInv, LockTypes, Places, Starting, Finished
<1>1. CASE UNCHANGED lockVars
  BY <1>1 DEF lockVars, HolderInv, AloneInv, Has
<1>2. ASSUME NEW p \in Supervisors, StartSupervisor(p) PROVE LockInv'
  BY <1>2 DEF StartSupervisor, Move, HolderInv, AloneInv, Has
<1>3. ASSUME NEW p \in Supervisors, CreateLock(p) PROVE LockInv'
  BY <1>3 DEF CreateLock, Move, HolderInv, AloneInv, Has
<1>4. ASSUME NEW p \in Supervisors, WriteLock(p) PROVE LockInv'
  BY <1>4 DEF WriteLock, Move, HolderInv, AloneInv, Has
<1>5. ASSUME NEW p \in Supervisors, ReadLock(p) PROVE LockInv'
  <2> DEFINE found == [file |-> file, pid |-> file \in written]
  <2>1. /\ place[p] = "read" /\ file \in Supervisors /\ (file # p \/ raced')
        /\ read' = [read EXCEPT ![p] = found] /\ read'[p] = found
        /\ found.file = file /\ found.pid = (file \in written)
        /\ found \in [file : Supervisors \cup {Nobody}, pid : BOOLEAN]
        /\ place' = [place EXCEPT ![p] = "judge"] /\ raced' \in BOOLEAN
    BY <1>5 DEF ReadLock, Move, HolderInv
  <2>2. LockTypes'
    BY <1>5, <2>1 DEF ReadLock, Move
  <2>3. HolderInv'
    <3>1. /\ file' = file /\ written' = written /\ file # Nobody /\ (~raced' => ~raced)
          /\ ~raced' /\ ~found.pid => place[file] # "write"
          /\ place'[p] = "judge" /\ \A q \in Supervisors \ {p} : place'[q] = place[q]
          /\ \A q \in Supervisors \ {p} : read'[q] = read[q]
      BY <1>5, <2>1 DEF ReadLock
    <3>2. ~raced' => place[file] \in {"write", "holds", "dead"} /\ place'[file] = place[file]
      BY <3>1, <2>1 DEF HolderInv
    <3>3. ~raced' /\ ~found.pid => place[file] = "dead"
      BY <2>1, <3>1, <3>2 DEF HolderInv
    <3>. QED
      BY <2>1, <3>1, <3>2, <3>3 DEF HolderInv, Has
  <2>4. AloneInv'
    BY <1>5, <2>1 DEF ReadLock, Move, AloneInv
  <2>. QED
    BY <2>2, <2>3, <2>4
<1>6. ASSUME NEW p \in Supervisors, ReadFails(p) PROVE LockInv'
  BY <1>6 DEF ReadFails, TryAgain, Move, HolderInv, AloneInv, Has
<1>7. ASSUME NEW p \in Supervisors, JudgeStale(p) PROVE LockInv'
  BY <1>7 DEF JudgeStale, Move, HolderInv, AloneInv, Has
<1>8. ASSUME NEW p \in Supervisors, Refuse(p) PROVE LockInv'
  BY <1>8 DEF Refuse, Move, HolderInv, AloneInv, Has
<1>9. ASSUME NEW p \in Supervisors, RemoveLock(p) PROVE LockInv'
  <2>1. LockTypes'
    BY <1>9 DEF RemoveLock, TryAgain, Move
  <2>2. ASSUME ~raced' PROVE file \in {Nobody, read[p].file} /\ ~raced
    BY <1>9, <2>2 DEF RemoveLock
  <2>3. ASSUME ~raced', NEW q \in Supervisors PROVE ~Has(q)
    BY <1>9, <2>2, <2>3 DEF RemoveLock, HolderInv, Has
  <2>4. HolderInv'
    BY <1>9, <2>2, <2>3 DEF RemoveLock, TryAgain, Move, HolderInv, Has
  <2>5. AloneInv'
    BY <1>9 DEF RemoveLock, TryAgain, Move, AloneInv
  <2>. QED
    BY <2>1, <2>4, <2>5
<1>10. ASSUME NEW p \in Supervisors, ReleaseLock(p) PROVE LockInv'
  BY <1>10 DEF ReleaseLock, Move, HolderInv, AloneInv, Has
<1>11. ASSUME NEW p \in Supervisors, DieWithLock(p) PROVE LockInv'
  BY <1>11 DEF DieWithLock, Move, HolderInv, AloneInv, Has
<1>. QED
  BY <1>1, <1>2, <1>3, <1>4, <1>5, <1>6, <1>7, <1>8, <1>9, <1>10, <1>11 DEF LockNext

(* Two supervisors never work on one data directory, but for the two windows of          *)
(* acquireLock, and a start that nobody interferes with does not fail on what a crash    *)
(* left behind.                                                                          *)
THEOREM DirectoryIsHeldOnce == LockSpec => []LockIsKept
<1>1. LockInit => LockInv
  <2>1. LockInit => LockTypes
    <3>1. Unread \in [file : Supervisors \cup {Nobody}, pid : BOOLEAN]
      BY DEF Unread
    <3>2. LockInit => place \in [Supervisors -> Places] /\ attempt \in [Supervisors -> Nat]
      BY DEF LockInit, Places
    <3>3. LockInit => read \in [Supervisors -> [file : Supervisors \cup {Nobody}, pid : BOOLEAN]]
      BY <3>1 DEF LockInit
    <3>4. LockInit => file \in Supervisors \cup {Nobody} /\ raced \in BOOLEAN
      BY DEF LockInit
    <3>5. LockInit => written \in SUBSET Supervisors /\ company \in SUBSET Supervisors
      BY DEF LockInit
    <3>. QED
      BY <3>2, <3>3, <3>4, <3>5 DEF LockTypes
  <2>2. LockInit => HolderInv /\ AloneInv
    BY DEF LockInit, HolderInv, AloneInv, Has
  <2>. QED
    BY <2>1, <2>2 DEF LockInv
<1>2. LockInv => LockIsKept
  BY DEF LockInv, LockTypes, HolderInv, AloneInv, LockIsKept, OneSupervisor, LoneStartSucceeds
<1>. QED
  BY <1>1, <1>2, LockStep, PTL DEF LockSpec
=============================================================================
