-------------------------- MODULE UpdateSupervisor --------------------------
(***************************************************************************)
(* The update supervisor of internal/updater/supervisor.go: the process    *)
(* that owns the data directory, runs the application as its child, and,   *)
(* when the child asks for it by exiting with code 75, snapshots the       *)
(* database, tries the staged candidate and either promotes it or restores *)
(* the snapshot and the previous binary.  The child is modelled by what    *)
(* the supervisor can see of it: its exit, its journal writes (the service *)
(* of internal/updater/service.go) and what it commits to SQLite.          *)
(*                                                                         *)
(* Abstractions.                                                           *)
(*  - A build is one installed release directory, releases/<id>; its       *)
(*    identity stands for its operation id, its path and its migrations.   *)
(*  - The database is a set of commits, either in the main file or in the  *)
(*    write-ahead log: migrations (named by the binary that ran them) and  *)
(*    rows that a client was told were stored.                             *)
(*  - The journal phases written by the application other than "staged"    *)
(*    (idle, checking, available, downloading, verified, failed) are one   *)
(*    phase, "idle": the supervisor treats them alike.                     *)
(*  - Journal writes succeed.  One supervisor runs at a time.  A crash     *)
(*    stops the supervisor and its child together (power loss, container   *)
(*    kill); remote access is off, so a gated candidate serves nobody.     *)
(***************************************************************************)
EXTENDS FiniteSets

CONSTANTS
    Builds,             \* the candidate builds that may be installed
    Bundled,            \* the binary the supervisor was started from
    NoPath,             \* the empty path of the journal and of request.json
    Rows,               \* the rows clients may store
    DiskFaults,         \* whether restoring a snapshot may fail
    DiesWhileStaged     \* whether the application or the supervisor may die while
                        \* an update is staged and the child has not exited for it

ASSUME ConstantsAssumption ==
    /\ Bundled \notin Builds
    /\ NoPath \notin Builds \cup {Bundled}
    /\ Rows \cap (Builds \cup {Bundled}) = {}
    /\ DiskFaults \in BOOLEAN
    /\ DiesWhileStaged \in BOOLEAN

Paths == Builds \cup {Bundled}
Commits == Paths \cup Rows

(* Mutant of InFlight: a supervisor that forgets one phase when it recovers. *)
InFlightButStarting == {"snapshotting", "preflighting", "migrating", "stabilizing", "rolling_back"}

(* The phases the supervisor is in the middle of: recoverInterrupted acts on these. *)
InFlight == {"snapshotting", "preflighting", "migrating", "starting",
             "stabilizing", "rolling_back"}
Phases == InFlight \cup {"idle", "staged", "promoted", "rolled_back", "needs_manual_recovery"}

Journals == [phase: Phases,
             current: Paths \cup {NoPath},
             previous: Paths \cup {NoPath},
             candidate: Builds \cup {NoPath},
             backup: Builds \cup {NoPath}]

(* Where RunSupervisor is.  It has returned, or was killed, in the Stopped labels. *)
Stopped == {"stopped", "app_failed", "manual_recovery", "crashed"}
Recovery == {"recover", "recover_wal", "recover_journal"}
Preparation == {"copy", "verify", "preflight"}
CandidateGated == {"spawned", "wait_ready", "stabilize", "open_gate"}
Rollback == {"rollback", "drop_wal", "finish_rollback"}
Labels == Stopped \cup Recovery \cup Preparation \cup CandidateGated \cup Rollback
          \cup {"boot", "loop", "wait", "spawn", "drop_promoted", "supervise", "drop_failed"}

Stages == {"none", "booting", "up", "ready", "staged", "requested", "exit75", "exited"}
Open == {"up", "ready", "staged", "requested"}

VARIABLES
    journal,     \* updater/state.json
    request,     \* updater/request.json: the build to promote
    main,        \* commits in paylessforai.db
    wal,         \* commits only in paylessforai.db-wal
    taken,       \* the operations whose backup file exists
    backup,      \* the contents of the backup of each operation
    pc,          \* where the supervisor is
    run,         \* its currentPath
    op,          \* the request being promoted
    childPath,   \* the binary the child process runs
    childStage,  \* how far the child process is
    install,     \* the build the child's Install is working on
    used,        \* history: operation ids given out by Install
    promoted,    \* history: builds journaled as promoted
    failed,      \* history: builds rolled back and quarantined
    acked        \* history: rows whose commit was acknowledged to a client

disk == <<journal, request, main, wal, taken, backup>>
supervisor == <<pc, run, op>>
child == <<childPath, childStage, install>>
history == <<used, promoted, failed, acked>>
vars == <<journal, request, main, wal, taken, backup, pc, run, op,
          childPath, childStage, install, used, promoted, failed, acked>>

(* The child answers clients: it is up, and it is no candidate behind the gate. *)
Serving == childStage \in Open /\ pc \notin CandidateGated

NoChild == childPath' = NoPath /\ childStage' = "none" /\ install' = NoPath
Goto(label) == pc' = label

Init ==
    /\ journal = [phase |-> "idle", current |-> NoPath, previous |-> NoPath,
                  candidate |-> NoPath, backup |-> NoPath]
    /\ request = NoPath
    /\ main = {} /\ wal = {}
    /\ taken = {} /\ backup = [b \in Builds |-> {}]
    /\ pc = "stopped" /\ run = NoPath /\ op = NoPath
    /\ childPath = NoPath /\ childStage = "none" /\ install = NoPath
    /\ used = {} /\ promoted = {} /\ failed = {} /\ acked = {}

-----------------------------------------------------------------------------
(* Starting the supervisor: recoverInterrupted, then the choice of a binary. *)

Boot ==
    /\ pc \in Stopped
    /\ Goto("recover")
    /\ UNCHANGED <<disk, run, op, child, history>>

RecoverNothing ==
    /\ pc = "recover"
    /\ journal.phase \notin InFlight
    /\ Goto("boot")
    /\ UNCHANGED <<disk, run, op, child, history>>

(* restoreDatabase: copy the backup next to the database and rename it over. *)
RecoverRestore ==
    /\ pc = "recover"
    /\ journal.phase \in InFlight
    /\ journal.backup \in taken
    /\ main' = backup[journal.backup]
    /\ Goto("recover_wal")
    /\ UNCHANGED <<journal, request, wal, taken, backup, run, op, child, history>>

RecoverDropWal ==
    /\ pc = "recover_wal"
    /\ wal' = {}
    /\ Goto("recover_journal")
    /\ UNCHANGED <<journal, request, main, taken, backup, run, op, child, history>>

RecoverJournal ==
    /\ pc = "recover_journal"
    /\ journal' = [journal EXCEPT !.phase = "rolled_back", !.current = journal.previous]
    /\ Goto("boot")
    /\ UNCHANGED <<request, main, wal, taken, backup, run, op, child, history>>

(* restoreDatabase fails: no backup file to stat, or a fault in the copy or the check. *)
RecoverFails ==
    /\ \/ pc = "recover" /\ journal.phase \in InFlight /\ journal.backup \notin taken
       \/ pc \in {"recover", "recover_journal"} /\ journal.phase \in InFlight /\ DiskFaults
    /\ Goto("manual_recovery")
    /\ UNCHANGED <<disk, run, op, child, history>>

(* Mutant of BeginPromotion: the candidate is journaled as the active binary. *)
BeginPromotionAsCurrent(previous, candidate) ==
    /\ journal' = [phase |-> "snapshotting", current |-> candidate, previous |-> previous,
                   candidate |-> candidate, backup |-> candidate]
    /\ op' = candidate
    /\ run' = previous
    /\ Goto("copy")

(* promoteCandidate's first transition: previousPath is the binary in use. *)
BeginPromotion(previous, candidate) ==
    /\ journal' = [phase |-> "snapshotting", current |-> previous, previous |-> previous,
                   candidate |-> candidate, backup |-> candidate]
    /\ op' = candidate
    /\ run' = previous
    /\ Goto("copy")

ActivePath == IF journal.current = NoPath THEN Bundled ELSE journal.current

(* An update staged before the supervisor stopped is resumed ... *)
BootStaged ==
    /\ pc = "boot"
    /\ journal.phase = "staged"
    /\ request # NoPath
    /\ BeginPromotion(ActivePath, request)
    /\ UNCHANGED <<request, main, wal, taken, backup, child, history>>

(* ... and otherwise the active binary is started. *)
BootRun ==
    /\ pc = "boot"
    /\ journal.phase # "staged" \/ request = NoPath
    /\ run' = ActivePath
    /\ Goto("loop")
    /\ UNCHANGED <<disk, op, child, history>>

StartChild ==
    /\ pc = "loop"
    /\ journal' = IF journal.current = NoPath
                  THEN [phase |-> "idle", current |-> run, previous |-> NoPath,
                        candidate |-> NoPath, backup |-> NoPath]
                  ELSE journal
    /\ childPath' = run /\ childStage' = "booting" /\ install' = NoPath
    /\ Goto("wait")
    /\ UNCHANGED <<request, main, wal, taken, backup, run, op, history>>

(* The child exits for any other reason than an update: RunSupervisor returns. *)
ChildGone ==
    /\ pc = "wait"
    /\ childStage = "exited"
    /\ NoChild
    /\ Goto("app_failed")
    /\ UNCHANGED <<disk, run, op, history>>

(* Exit code 75: readRequest, then promoteCandidate. *)
ChildAskedForUpdate ==
    /\ pc = "wait"
    /\ childStage = "exit75"
    /\ request # NoPath
    /\ BeginPromotion(run, request)
    /\ NoChild
    /\ UNCHANGED <<request, main, wal, taken, backup, history>>

-----------------------------------------------------------------------------
(* Preparing the candidate: nothing the active binary uses is touched. *)

CopyDatabase ==
    /\ pc = "copy"
    /\ backup' = [backup EXCEPT ![op] = main]
    /\ taken' = taken \cup {op}
    /\ Goto("verify")
    /\ UNCHANGED <<journal, request, main, wal, run, op, child, history>>

VerifySnapshot ==
    /\ pc = "verify"
    /\ journal' = [journal EXCEPT !.phase = "preflighting"]
    /\ Goto("preflight")
    /\ UNCHANGED <<request, main, wal, taken, backup, run, op, child, history>>

PreflightCandidate ==
    /\ pc = "preflight"
    /\ journal' = [journal EXCEPT !.phase = "migrating"]
    /\ Goto("spawn")
    /\ UNCHANGED <<request, main, wal, taken, backup, run, op, child, history>>

(* rollbackFailure: the copy, its check or the preflight failed.  request.json stays. *)
RollbackFailure ==
    /\ pc \in Preparation
    /\ journal' = [journal EXCEPT !.phase = "rolled_back"]
    /\ failed' = failed \cup {op}
    /\ run' = journal.current
    /\ Goto("loop")
    /\ UNCHANGED <<request, main, wal, taken, backup, op, child, used, promoted, acked>>

-----------------------------------------------------------------------------
(* Running the candidate behind the gate, on the live database. *)

SpawnCandidate ==
    /\ pc = "spawn"
    /\ childPath' = op /\ childStage' = "booting" /\ install' = NoPath
    /\ Goto("spawned")
    /\ UNCHANGED <<disk, run, op, history>>

JournalStarting ==
    /\ pc = "spawned"
    /\ journal' = [journal EXCEPT !.phase = "starting"]
    /\ Goto("wait_ready")
    /\ UNCHANGED <<request, main, wal, taken, backup, run, op, child, history>>

CandidateBecameReady ==
    /\ pc = "wait_ready"
    /\ childStage = "ready"
    /\ journal' = [journal EXCEPT !.phase = "stabilizing"]
    /\ Goto("stabilize")
    /\ UNCHANGED <<request, main, wal, taken, backup, run, op, child, history>>

(* The stabilization timer fires.  When the candidate exits at the same moment, *)
(* select may still take the timer.                                             *)
Promote ==
    /\ pc = "stabilize"
    /\ journal' = [journal EXCEPT !.phase = "promoted", !.current = op]
    /\ promoted' = promoted \cup {op}
    /\ Goto("open_gate")
    /\ UNCHANGED <<request, main, wal, taken, backup, run, op, child, used, failed, acked>>

OpenGate ==
    /\ pc = "open_gate"
    /\ Goto("drop_promoted")
    /\ UNCHANGED <<disk, run, op, child, history>>

DropPromotedRequest ==
    /\ pc = "drop_promoted"
    /\ request' = NoPath
    /\ Goto("supervise")
    /\ UNCHANGED <<journal, main, wal, taken, backup, run, op, child, history>>

(* promoteCandidate waits for the promoted child to exit, drops its exit code *)
(* and returns to the loop.                                                   *)
PromotedChildGone ==
    /\ pc = "supervise"
    /\ childStage \in {"exited", "exit75"}
    /\ NoChild
    /\ run' = ActivePath
    /\ op' = NoPath
    /\ Goto("loop")
    /\ UNCHANGED <<disk, history>>

-----------------------------------------------------------------------------
(* rollbackFailureWithRestore. *)

(* Mutant of BeginRollback: no readiness deadline, only an exit ends the wait. *)
BeginRollbackOnExit ==
    /\ pc \in {"spawn", "wait_ready", "stabilize"}
    /\ pc # "spawn" => childStage = "exited"
    /\ journal' = [journal EXCEPT !.phase = "rolling_back", !.current = journal.previous]
    /\ NoChild
    /\ Goto("rollback")
    /\ UNCHANGED <<request, main, wal, taken, backup, run, op, history>>

(* The candidate did not start, exited, missed the readiness deadline, or the  *)
(* supervisor is being terminated: the candidate is killed and the rollback is *)
(* journaled with the previous binary current.                                 *)
BeginRollback ==
    /\ pc \in {"spawn", "wait_ready", "stabilize"}
    /\ journal' = [journal EXCEPT !.phase = "rolling_back", !.current = journal.previous]
    /\ NoChild
    /\ Goto("rollback")
    /\ UNCHANGED <<request, main, wal, taken, backup, run, op, history>>

RollbackRestore ==
    /\ pc = "rollback"
    /\ op \in taken
    /\ main' = backup[op]
    /\ Goto("drop_wal")
    /\ UNCHANGED <<journal, request, wal, taken, backup, run, op, child, history>>

(* Mutant of RollbackDropWal: the log of the candidate is left beside the snapshot. *)
RollbackKeepsWal ==
    /\ pc = "drop_wal"
    /\ Goto("finish_rollback")
    /\ UNCHANGED <<disk, run, op, child, history>>

RollbackDropWal ==
    /\ pc = "drop_wal"
    /\ wal' = {}
    /\ Goto("finish_rollback")
    /\ UNCHANGED <<journal, request, main, taken, backup, run, op, child, history>>

FinishRollback ==
    /\ pc = "finish_rollback"
    /\ journal' = [journal EXCEPT !.phase = "rolled_back"]
    /\ failed' = failed \cup {op}
    /\ Goto("drop_failed")
    /\ UNCHANGED <<request, main, wal, taken, backup, run, op, child, used, promoted, acked>>

DropFailedRequest ==
    /\ pc = "drop_failed"
    /\ request' = NoPath
    /\ run' = ActivePath
    /\ Goto("loop")
    /\ UNCHANGED <<journal, main, wal, taken, backup, op, child, history>>

(* The restore fails: RunSupervisor returns errManualRecovery. *)
RollbackFails ==
    /\ DiskFaults
    /\ pc \in {"rollback", "finish_rollback"}
    /\ journal' = [journal EXCEPT !.phase = "needs_manual_recovery"]
    /\ Goto("manual_recovery")
    /\ UNCHANGED <<request, main, wal, taken, backup, run, op, child, history>>

-----------------------------------------------------------------------------
(* The application child. *)

(* The child opens the database and runs the migrations that are not there yet. *)
ChildOpens ==
    /\ childStage = "booting"
    /\ wal' = wal \cup ({childPath} \ main)
    /\ childStage' = "up"
    /\ UNCHANGED <<journal, request, main, taken, backup, supervisor, childPath, install, history>>

(* A candidate writes its ready file. *)
CandidateReady ==
    /\ pc \in CandidateGated
    /\ childStage = "up"
    /\ childStage' = "ready"
    /\ UNCHANGED <<disk, supervisor, childPath, install, history>>

(* A client's write commits: to the write-ahead log. *)
Serve(r) ==
    /\ Serving
    /\ r \notin acked
    /\ wal' = wal \cup {r}
    /\ acked' = acked \cup {r}
    /\ UNCHANGED <<journal, request, main, taken, backup, supervisor, child, used, promoted, failed>>

(* SQLite moves the log into the main file. *)
Checkpoint ==
    /\ childStage \in Open
    /\ wal # {}
    /\ main' = main \cup wal
    /\ wal' = {}
    /\ UNCHANGED <<journal, request, taken, backup, supervisor, child, history>>

(* Check, and every phase of Install before "staged". *)
ServiceIdle ==
    /\ Serving
    /\ journal.phase # "idle"
    /\ journal' = [journal EXCEPT !.phase = "idle"]
    /\ UNCHANGED <<request, main, wal, taken, backup, supervisor, child, history>>

(* Install: the verified candidate is extracted and journaled ... *)
InstallStages(b) ==
    /\ Serving
    /\ childStage \in {"up", "ready"}
    /\ b \notin used
    /\ used' = used \cup {b}
    /\ journal' = [journal EXCEPT !.phase = "staged", !.candidate = b]
    /\ childStage' = "staged"
    /\ install' = b
    /\ UNCHANGED <<request, main, wal, taken, backup, supervisor, childPath, promoted, failed, acked>>

(* Mutant of InstallRequests: the restart is requested before the file is there. *)
InstallRequestsUnwritten ==
    /\ childStage = "staged"
    /\ childStage' = "requested"
    /\ UNCHANGED <<disk, supervisor, childPath, install, history>>

(* ... then the restart is requested; when the file cannot be written the *)
(* install fails.                                                         *)
InstallRequests ==
    /\ childStage = "staged"
    /\ \/ /\ request' = install
          /\ childStage' = "requested"
          /\ UNCHANGED <<journal, install>>
       \/ /\ journal' = [journal EXCEPT !.phase = "idle"]
          /\ childStage' = "up"
          /\ install' = NoPath
          /\ UNCHANGED request
    /\ UNCHANGED <<main, wal, taken, backup, supervisor, childPath, history>>

(* Mutant of ExitForUpdate: the database is not closed on the way out. *)
ExitForUpdateUnclosed ==
    /\ childStage = "requested"
    /\ childStage' = "exit75"
    /\ UNCHANGED <<disk, supervisor, childPath, install, history>>

(* Run returns ErrUpdateRequested: the deferred Close checkpoints the log. *)
ExitForUpdate ==
    /\ childStage = "requested"
    /\ main' = main \cup wal
    /\ wal' = {}
    /\ childStage' = "exit75"
    /\ UNCHANGED <<journal, request, taken, backup, supervisor, childPath, install, history>>

MayDie == journal.phase = "staged" /\ childStage \in Open => DiesWhileStaged

(* The child exits with any other code, or is killed. *)
ChildDies ==
    /\ childStage \in Open \cup {"booting"}
    /\ MayDie
    /\ childStage' = "exited"
    /\ UNCHANGED <<disk, supervisor, childPath, install, history>>

(* SIGINT or SIGTERM: the command context kills the child, RunSupervisor returns. *)
Terminate ==
    /\ pc \in {"loop", "wait", "supervise"}
    /\ MayDie
    /\ NoChild
    /\ Goto("stopped")
    /\ UNCHANGED <<disk, run, op, history>>

Crash ==
    /\ pc \notin Stopped
    /\ MayDie
    /\ NoChild
    /\ run' = NoPath /\ op' = NoPath
    /\ Goto("crashed")
    /\ UNCHANGED <<disk, history>>

-----------------------------------------------------------------------------
RecoveryStep ==
    \/ RecoverNothing \/ RecoverRestore \/ RecoverDropWal \/ RecoverJournal \/ RecoverFails
    \/ BootStaged \/ BootRun
PromotionStep ==
    \/ CopyDatabase \/ VerifySnapshot \/ PreflightCandidate \/ RollbackFailure
    \/ SpawnCandidate \/ JournalStarting \/ CandidateBecameReady
    \/ Promote \/ OpenGate \/ DropPromotedRequest
RollbackStep ==
    \/ BeginRollback \/ RollbackRestore \/ RollbackDropWal \/ FinishRollback
    \/ DropFailedRequest \/ RollbackFails
SupervisionStep ==
    \/ StartChild \/ ChildGone \/ ChildAskedForUpdate \/ PromotedChildGone
ChildStep ==
    \/ ChildOpens \/ CandidateReady \/ Checkpoint \/ ServiceIdle
    \/ InstallRequests \/ ExitForUpdate \/ ChildDies
    \/ \E r \in Rows : Serve(r)
    \/ \E b \in Builds : InstallStages(b)

Next ==
    \/ Boot \/ RecoveryStep \/ PromotionStep \/ RollbackStep \/ SupervisionStep
    \/ ChildStep \/ Terminate \/ Crash

Spec == Init /\ [][Next]_vars

(* The supervisor is a single thread that never stops between two steps, its     *)
(* readiness and stabilization timers fire, and a child that is started either   *)
(* opens the database or exits.  Nobody has to start the supervisor again.       *)
Fairness ==
    /\ WF_vars(RecoveryStep) /\ WF_vars(PromotionStep) /\ WF_vars(RollbackStep)
    /\ WF_vars(SupervisionStep)
    /\ WF_vars(childStage = "booting" /\ ChildStep)

FairSpec == Spec /\ Fairness

-----------------------------------------------------------------------------
TypeOK ==
    /\ journal \in Journals
    /\ request \in Builds \cup {NoPath}
    /\ main \in SUBSET Commits /\ wal \in SUBSET Commits
    /\ taken \in SUBSET Builds /\ backup \in [Builds -> SUBSET Commits]
    /\ pc \in Labels
    /\ run \in Paths \cup {NoPath}
    /\ op \in Builds \cup {NoPath}
    /\ childPath \in Paths \cup {NoPath}
    /\ childStage \in Stages
    /\ install \in Builds \cup {NoPath}
    /\ childPath = NoPath <=> childStage = "none"
    /\ used \in SUBSET Builds /\ promoted \in SUBSET Builds /\ failed \in SUBSET Builds
    /\ acked \in SUBSET Rows

(* README: "promotes a candidate only after startup succeeds".  Whatever crashes *)
(* and restarts happened, the binary that answers clients is the journal's       *)
(* current one, and it is the bundled one or one that was promoted.              *)
ServesActiveBinary ==
    Serving => /\ childPath = journal.current
               /\ childPath \in promoted \cup {Bundled}

(* README: "Migration or startup failure restores the snapshot and previous     *)
(* binary".  No application serves clients on a database that carries the       *)
(* migrations of a build that was never promoted.                               *)
NoForeignMigrations ==
    Serving => (main \cup wal) \cap Builds \subseteq promoted

(* A promotion that fails takes nothing back: every row whose commit was          *)
(* acknowledged is in the database the next application serves from.              *)
AckedRowsSurvive == Serving => acked \subseteq main \cup wal

(* The supervisor resumes the service after every rollback: whenever it is     *)
(* about to start the application, no half-done update is left in the journal. *)
StartsFromSettledJournal == pc \in {"loop", "wait", "supervise"} => journal.phase \notin InFlight

(* readRequest in the loop always finds the file: a child that exits with 75    *)
(* has written it and nobody removed it since.                                  *)
RequestedExitHasRequest ==
    pc = "wait" /\ childStage = "exit75" => request = install /\ request # NoPath

(* Every attempt ends: the candidate's deadlines, its exit and the failures all *)
(* lead back to an application that serves, or to a supervisor that returned.   *)
AttemptEnds == pc = "copy" ~> Serving \/ pc \in Stopped

(* service.go, Check: "A failed automatic candidate is quarantined until a newer *)
(* build is published".  A quarantined build is not promoted again.              *)
QuarantinedNotRetried == [][op' # op /\ op' # NoPath => op' \notin failed]_vars

(* supervisor.go: "only unrecoverable recovery errors exit".  The supervisor      *)
(* gives up for manual recovery only when a restore really failed.                *)
ManualRecoveryOnlyAfterFault == pc = "manual_recovery" => DiskFaults

(* service.go, Install: "Update staged; waiting for supervisor restart".  A        *)
(* child that exits with code 75 makes the supervisor try the update it staged.    *)
RequestedUpdateIsTried ==
    [][childStage = "exit75" /\ childStage' = "none" /\ pc' \notin Stopped => pc' = "copy"]_vars

=============================================================================
