---------------------------- MODULE UpdateService ----------------------------
(***************************************************************************)
(* The update service of internal/updater/service.go: the part of the      *)
(* application that looks for a newer build, downloads and stages it, and  *)
(* asks the supervisor to try it.  Check and Install run in goroutines of  *)
(* their own (the scheduler's and one per HTTP request) and share the      *)
(* flags under Service.mu; AcknowledgeWarning takes no lock.  All three    *)
(* read the journal, work, and write their copy of the whole record back.  *)
(*                                                                         *)
(* Abstractions.                                                           *)
(*  - A build is its version, a number; the release channel publishes one  *)
(*    build at a time and may withdraw it again.  Updates are enabled and  *)
(*    the application is an official build.                                *)
(*  - The journal keeps what a later step reads: the phases "staged" and   *)
(*    "promoting" (all phases of a promotion), with every other phase as   *)
(*    "idle"; the current binary; the quarantined version.                 *)
(*  - The supervisor is reduced to what it does to the journal, to the     *)
(*    request file and to the application: module UpdateSupervisor has its *)
(*    steps.  A candidate behind the gate serves nobody, so the service in *)
(*    it is at rest; opening the gate and removing the request file that   *)
(*    was promoted is one step.                                            *)
(*  - Operation ids are random and never repeat: an id is taken again here *)
(*    only when nothing names it any more.                                 *)
(***************************************************************************)
EXTENDS Naturals

CONSTANTS
    MaxVersion,      \* versions are 1 .. MaxVersion; the bundled build is version 1
    Ops,             \* operation ids, the names of the staging directories
    MaxEvents        \* bound on publications, requests for a check or an install,
                     \* faults and crashes

ASSUME ServiceConstants ==
    /\ MaxVersion \in Nat \ {0}
    /\ MaxEvents \in Nat
    /\ 0 \notin Ops

Versions == 1 .. MaxVersion
None == 0
MaybeVersion == Versions \cup {None}
MaybeOp == Ops \cup {None}

Journals == [phase: {"idle", "staged", "promoting"},
             current: MaybeVersion,
             quarantined: MaybeVersion]
Requests == [op: Ops, version: Versions] \cup {[op |-> None, version |-> None]}
NoRequest == [op |-> None, version |-> None]

CheckLabels == {"idle", "begin", "mark", "fetch", "decide", "offer", "forget", "nested", "done"}
InstallLabels == {"idle", "begin", "prepare", "mark", "download", "extract", "stage", "request",
                  "restart", "done"}

VARIABLES
    published,   \* the newest build of the channel
    journal,     \* updater/state.json
    request,     \* updater/request.json
    extracted,   \* the staging directories that hold a complete candidate
    running,     \* the version of the application that serves, or served last
    app,         \* "down", "trying" (a candidate is being validated) or "up"
    supervising, \* "off", "loop", or "promoted": waiting for a promoted child
    trying,      \* the request the supervisor is promoting
    checking, installing, requested, available,   \* Service, under its mutex
    check,       \* the Check in progress: its place and its locals
    inst,        \* the Install in progress: its place and its locals
    ack,         \* the AcknowledgeWarning in progress: its place and its copy
    events,      \* events so far
    good,        \* history: the version that was promoted last
    failed,      \* history: every version that was rolled back
    barred       \* history: the version rolled back last, until the channel moves
                 \* or the user asks for a build

service == <<checking, installing, requested, available, check, inst, ack>>
outside == <<running, app, supervising, trying, good, failed>>
vars == <<published, journal, request, extracted, running, app, supervising, trying,
          checking, installing, requested, available, check, inst, ack,
          events, good, failed, barred>>

NoJournal == [phase |-> "idle", current |-> None, quarantined |-> None]
CheckAtRest == [pc |-> "idle", auto |-> FALSE, prev |-> NoJournal, found |-> None]
InstallAtRest == [pc |-> "idle", auto |-> FALSE, want |-> None, manifest |-> None,
                  op |-> None, current |-> None]
AckAtRest == [pc |-> "idle", state |-> NoJournal]

ServiceInit ==
    /\ published = 1
    /\ journal = NoJournal /\ request = NoRequest /\ extracted = {}
    /\ running = 1 /\ app = "down" /\ supervising = "off" /\ trying = NoRequest
    /\ checking = FALSE /\ installing = FALSE /\ requested = FALSE /\ available = None
    /\ check = CheckAtRest /\ inst = InstallAtRest /\ ack = AckAtRest
    /\ events = 0 /\ good = 1 /\ failed = {} /\ barred = None

Happens == events < MaxEvents /\ events' = events + 1

(* A new process: NewService, nothing in progress. *)
Fresh ==
    /\ checking' = FALSE /\ installing' = FALSE /\ requested' = FALSE /\ available' = None
    /\ check' = CheckAtRest /\ inst' = InstallAtRest /\ ack' = AckAtRest

-----------------------------------------------------------------------------
(* Around the service: the channel, the supervisor and the process. *)

Publish(v) ==
    /\ v # published
    /\ Happens
    /\ published' = v
    /\ barred' = None
    /\ UNCHANGED <<journal, request, extracted, service, outside>>

(* RunSupervisor up to its loop: recoverInterrupted, then a staged request. *)
BootSupervisor ==
    /\ supervising = "off"
    /\ supervising' = "loop"
    /\ journal' = IF journal.phase = "promoting"
                    THEN [journal EXCEPT !.phase = "idle", !.quarantined = None]
                    ELSE journal
    /\ trying' = IF journal.phase = "staged" THEN request ELSE NoRequest
    /\ UNCHANGED <<published, request, extracted, running, app, service, events, good, failed, barred>>

(* Mutant of StartApp: the empty path of a new journal is started as it is. *)
StartAppFromJournal ==
    /\ app = "down" /\ supervising = "loop" /\ trying = NoRequest
    /\ app' = "up"
    /\ running' = journal.current
    /\ UNCHANGED <<published, journal, request, extracted, supervising, trying, service, events,
                   good, failed, barred>>

(* The loop: an empty journal is initialised, the current binary is started. *)
StartApp ==
    /\ app = "down" /\ supervising = "loop" /\ trying = NoRequest
    /\ app' = "up"
    /\ running' = IF journal.current = None THEN 1 ELSE journal.current
    /\ journal' = IF journal.current = None THEN [NoJournal EXCEPT !.current = 1] ELSE journal
    /\ UNCHANGED <<published, request, extracted, supervising, trying, service, events,
                   good, failed, barred>>

(* promoteCandidate starts from a new record, with the running binary as both ends. *)
BeginPromotion ==
    /\ app = "down" /\ trying # NoRequest
    /\ app' = "trying"
    /\ journal' = [phase |-> "promoting",
                   current |-> IF journal.current = None THEN 1 ELSE journal.current,
                   quarantined |-> None]
    /\ UNCHANGED <<published, request, extracted, running, supervising, trying, service, events,
                   good, failed, barred>>

(* Promoted; the gate opens and the candidate's own service starts its scheduler. *)
Promoted ==
    /\ app = "trying"
    /\ app' = "up" /\ supervising' = "promoted"
    /\ running' = trying.version /\ good' = trying.version
    /\ journal' = [journal EXCEPT !.phase = "idle", !.current = trying.version]
    /\ request' = NoRequest /\ trying' = NoRequest
    /\ UNCHANGED <<published, extracted, service, events, failed, barred>>

(* rollbackFailure (before the candidate is started) leaves request.json behind, *)
(* rollbackFailureWithRestore removes it; both quarantine the candidate.         *)
RolledBack ==
    /\ app = "trying"
    /\ app' = "down" /\ trying' = NoRequest
    /\ journal' = [journal EXCEPT !.phase = "idle", !.quarantined = trying.version]
    /\ failed' = failed \cup {trying.version}
    /\ barred' = IF trying.version = published THEN published ELSE barred
    /\ \/ request' = request
       \/ request' = NoRequest
    /\ UNCHANGED <<published, extracted, running, supervising, service, events, good>>

(* The process exits with code 75.  Only the loop reads the request: when the   *)
(* child is one that was promoted, the supervisor just starts the binary again. *)
ExitForUpdate ==
    /\ app = "up" /\ requested
    /\ app' = "down" /\ supervising' = "loop"
    /\ trying' = IF supervising = "loop" THEN request ELSE NoRequest
    /\ Fresh
    /\ UNCHANGED <<published, journal, request, extracted, running, events, good, failed, barred>>

Crash ==
    /\ supervising # "off"
    /\ Happens
    /\ app' = "down" /\ supervising' = "off" /\ trying' = NoRequest
    /\ Fresh
    /\ UNCHANGED <<published, journal, request, extracted, running, good, failed, barred>>

-----------------------------------------------------------------------------
(* Check.  The scheduler is one goroutine, so at most one check is automatic. *)

Up == app = "up"
ServiceOnly == UNCHANGED <<published, request, extracted, running, app, supervising, trying,
                           good, failed>>

(* Mutant of CheckBegin: the scheduler of a process that began as a candidate stays off. *)
CheckBeginUnlessPromoted(auto) ==
    /\ Up /\ ~checking /\ ~installing
    /\ IF auto THEN events' = events /\ barred' = barred ELSE Happens /\ barred' = None
    /\ auto => supervising # "promoted"
    /\ checking' = TRUE
    /\ check' = [CheckAtRest EXCEPT !.pc = "begin", !.auto = auto]
    /\ UNCHANGED <<journal, installing, requested, available, inst, ack>>
    /\ ServiceOnly

CheckBegin(auto) ==
    /\ Up /\ ~checking /\ ~installing
    /\ IF auto THEN events' = events /\ barred' = barred ELSE Happens /\ barred' = None
    /\ checking' = TRUE
    /\ check' = [CheckAtRest EXCEPT !.pc = "begin", !.auto = auto]
    /\ UNCHANGED <<journal, installing, requested, available, inst, ack>>
    /\ ServiceOnly

CheckKeeps == /\ UNCHANGED <<checking, installing, requested, inst, ack, barred>>
              /\ ServiceOnly

(* previousState; baseState is this record with another phase. *)
CheckRead ==
    /\ check.pc = "begin"
    /\ check' = [check EXCEPT !.pc = "mark", !.prev = journal]
    /\ UNCHANGED <<journal, available, events>>
    /\ CheckKeeps

Base(c) == [c.prev EXCEPT !.phase = "idle"]

CheckMark ==
    /\ check.pc = "mark"
    /\ journal' = Base(check)
    /\ check' = [check EXCEPT !.pc = "fetch"]
    /\ UNCHANGED <<available, events>>
    /\ CheckKeeps

(* fetchManifest and VerifyManifest. *)
CheckFetch ==
    /\ check.pc = "fetch"
    /\ check' = [check EXCEPT !.pc = "decide", !.found = published]
    /\ UNCHANGED <<journal, available, events>>
    /\ CheckKeeps

CheckFetchFails ==
    /\ check.pc = "fetch"
    /\ Happens
    /\ journal' = Base(check)
    /\ check' = [check EXCEPT !.pc = "done"]
    /\ UNCHANGED available
    /\ CheckKeeps

(* Mutant of Quarantined: the guard for automatic checks is dropped. *)
NeverQuarantined(c) == FALSE

Quarantined(c) == c.auto /\ c.prev.quarantined = c.found

(* Mutant of Eligible: any other build of the channel will do. *)
EligibleWhenDifferent(v) == v # running

Eligible(v) == v > running

CheckQuarantined ==
    /\ check.pc = "decide" /\ Quarantined(check)
    /\ journal' = check.prev
    /\ check' = [check EXCEPT !.pc = "done"]
    /\ UNCHANGED <<available, events>>
    /\ CheckKeeps

CheckNothingNew ==
    /\ check.pc = "decide" /\ ~Quarantined(check) /\ ~Eligible(check.found)
    /\ journal' = Base(check)
    /\ check' = [check EXCEPT !.pc = "forget"]
    /\ UNCHANGED <<available, events>>
    /\ CheckKeeps

CheckForget ==
    /\ check.pc = "forget"
    /\ available' = None
    /\ check' = [check EXCEPT !.pc = "done"]
    /\ UNCHANGED <<journal, events>>
    /\ CheckKeeps

CheckOffer ==
    /\ check.pc = "decide" /\ ~Quarantined(check) /\ Eligible(check.found)
    /\ available' = check.found
    /\ check' = [check EXCEPT !.pc = "offer"]
    /\ UNCHANGED <<journal, events>>
    /\ CheckKeeps

(* The offer is journaled; an automatic check goes on to Install, which refuses  *)
(* when another install is running (CheckRefused).                               *)
CheckOffered ==
    /\ check.pc = "offer"
    /\ journal' = [Base(check) EXCEPT !.quarantined = None]
    /\ check' = [check EXCEPT !.pc = IF check.auto THEN "nested" ELSE "done"]
    /\ UNCHANGED <<available, events>>
    /\ CheckKeeps

CheckRefused ==
    /\ check.pc = "nested" /\ installing /\ ~inst.auto
    /\ check' = [check EXCEPT !.pc = "done"]
    /\ UNCHANGED <<journal, available, events>>
    /\ CheckKeeps

(* Mutant of CheckEnd: the early return for a quarantined build keeps the flag. *)
CheckEndIfAllowed ==
    /\ check.pc = "done"
    /\ checking' = Quarantined(check)
    /\ check' = CheckAtRest
    /\ UNCHANGED <<journal, installing, requested, available, inst, ack, events, barred>>
    /\ ServiceOnly

CheckEnd ==
    /\ check.pc = "done"
    /\ checking' = FALSE
    /\ check' = CheckAtRest
    /\ UNCHANGED <<journal, installing, requested, available, inst, ack, events, barred>>
    /\ ServiceOnly

-----------------------------------------------------------------------------
(* Install, called by a check or by the user with the version shown on the page. *)

InstallBegin(auto, want) ==
    /\ Up /\ ~installing
    /\ IF auto
         THEN check.pc = "nested" /\ want = check.found /\ UNCHANGED <<events, barred>>
         ELSE Happens /\ barred' = None
    /\ installing' = TRUE
    /\ inst' = [InstallAtRest EXCEPT !.pc = "begin", !.auto = auto, !.want = want,
                                     !.manifest = available]
    /\ UNCHANGED <<journal, checking, requested, available, check, ack>>
    /\ ServiceOnly

InstallKeeps == UNCHANGED <<published, running, app, supervising, trying, good, failed, barred,
                            checking, installing, available, check, ack>>

(* Mutant of FailInstall: the record is written as it is, without the merge. *)
FailInstallUnmerged(current) ==
    /\ journal' = [phase |-> "idle", current |-> current, quarantined |-> None]
    /\ inst' = [inst EXCEPT !.pc = "done"]
    /\ UNCHANGED <<request, requested>>
    /\ InstallKeeps

(* failInstall keeps the binaries and the dates of the persisted record; the      *)
(* quarantine is not among them, and every State it is given has none: also an     *)
(* install that is refused because its page is old lifts the quarantine.           *)
FailInstall(current) ==
    /\ journal' = [phase |-> "idle",
                   current |-> IF current = None THEN journal.current ELSE current,
                   quarantined |-> None]
    /\ inst' = [inst EXCEPT !.pc = "done"]
    /\ UNCHANGED <<request, requested>>
    /\ InstallKeeps

(* The manifest on offer is the one asked for, or any was asked for. *)
OnOffer == inst.manifest # None /\ inst.want \in {None, inst.manifest}

InstallStale ==
    /\ inst.pc = "begin"
    /\ ~OnOffer
    /\ FailInstall(None)
    /\ UNCHANGED <<extracted, events>>

(* No artifact for this platform, or its directory cannot be made. *)
InstallUnprepared ==
    /\ inst.pc = "begin"
    /\ OnOffer
    /\ Happens
    /\ FailInstall(None)
    /\ UNCHANGED extracted

Step(label) == inst' = [inst EXCEPT !.pc = label]

(* A new staging directory, and the journal's record as the start of the install's. *)
InstallPrepare(o) ==
    /\ inst.pc = "begin"
    /\ OnOffer
    /\ o # request.op
    /\ inst' = [inst EXCEPT !.pc = "mark", !.op = o, !.current = journal.current]
    /\ extracted' = extracted \ {o}
    /\ UNCHANGED <<journal, request, requested, events>>
    /\ InstallKeeps

Record(phase) == [phase |-> phase, current |-> inst.current, quarantined |-> None]
Journal(phase) == journal' = Record(phase)

InstallMark ==
    /\ inst.pc = "mark"
    /\ Journal("idle")
    /\ Step("download")
    /\ UNCHANGED <<request, extracted, requested, events>>
    /\ InstallKeeps

(* Reading the body journals the progress again and again. *)
InstallProgress ==
    /\ inst.pc = "download" /\ journal # Record("idle")
    /\ Journal("idle")
    /\ UNCHANGED <<request, extracted, requested, inst, events>>
    /\ InstallKeeps

(* VerifyArtifact accepts the whole body; the phase "verified" is journaled. *)
InstallVerified ==
    /\ inst.pc = "download"
    /\ Journal("idle")
    /\ Step("extract")
    /\ UNCHANGED <<request, extracted, requested, events>>
    /\ InstallKeeps

(* Mutant of InstallExtract: an error of ExtractArtifact is not looked at. *)
InstallExtractUnchecked ==
    /\ inst.pc = "extract"
    /\ extracted' \in {extracted, extracted \cup {inst.op}}
    /\ Step("stage")
    /\ UNCHANGED <<journal, request, requested, events>>
    /\ InstallKeeps

InstallExtract ==
    /\ inst.pc = "extract"
    /\ extracted' = extracted \cup {inst.op}
    /\ Step("stage")
    /\ UNCHANGED <<journal, request, requested, events>>
    /\ InstallKeeps

(* The download, the extraction or the request file fails. *)
InstallFails ==
    /\ inst.pc \in {"download", "extract", "request"}
    /\ Happens
    /\ FailInstall(inst.current)
    /\ UNCHANGED extracted

(* A journal write that fails ends the install without a failed record. *)
InstallJournalFails ==
    /\ inst.pc \in {"mark", "download", "stage"}
    /\ Happens
    /\ Step("done")
    /\ UNCHANGED <<journal, request, extracted, requested>>
    /\ InstallKeeps

InstallStage ==
    /\ inst.pc = "stage"
    /\ Journal("staged")
    /\ Step("request")
    /\ UNCHANGED <<request, extracted, requested, events>>
    /\ InstallKeeps

InstallRequest ==
    /\ inst.pc = "request"
    /\ request' = [op |-> inst.op, version |-> inst.manifest]
    /\ Step("restart")
    /\ UNCHANGED <<journal, extracted, requested, events>>
    /\ InstallKeeps

(* onUpdateRequested cancels the application's context. *)
InstallRestart ==
    /\ inst.pc = "restart"
    /\ requested' = TRUE
    /\ Step("done")
    /\ UNCHANGED <<journal, request, extracted, events>>
    /\ InstallKeeps

InstallEnd ==
    /\ inst.pc = "done"
    /\ installing' = FALSE
    /\ inst' = InstallAtRest
    /\ check' = IF inst.auto THEN [check EXCEPT !.pc = "done"] ELSE check
    /\ UNCHANGED <<journal, checking, requested, available, ack, events, barred>>
    /\ ServiceOnly

-----------------------------------------------------------------------------
(* AcknowledgeWarning: a read and a write of the whole record, under no lock. *)

AckRead ==
    /\ Up /\ ack.pc = "idle"
    /\ ack' = [pc |-> "write", state |-> journal]
    /\ UNCHANGED <<journal, checking, installing, requested, available, check, inst, events, barred>>
    /\ ServiceOnly

AckWrite ==
    /\ ack.pc = "write"
    /\ journal' = ack.state
    /\ ack' = AckAtRest
    /\ UNCHANGED <<checking, installing, requested, available, check, inst, events, barred>>
    /\ ServiceOnly

-----------------------------------------------------------------------------
SupervisorStep ==
    BootSupervisor \/ StartApp \/ BeginPromotion \/ Promoted \/ RolledBack \/ ExitForUpdate
CheckStep ==
    \/ CheckRead \/ CheckMark \/ CheckFetch \/ CheckFetchFails \/ CheckQuarantined
    \/ CheckNothingNew \/ CheckForget \/ CheckOffer \/ CheckOffered \/ CheckRefused \/ CheckEnd
InstallStep ==
    \/ InstallStale \/ InstallUnprepared \/ InstallMark \/ InstallVerified
    \/ InstallExtract \/ InstallFails \/ InstallJournalFails \/ InstallStage \/ InstallRequest
    \/ InstallRestart \/ InstallEnd
    \/ \E o \in Ops : InstallPrepare(o)
    \/ \E v \in Versions : InstallBegin(TRUE, v)
UserStep ==
    \/ CheckBegin(FALSE) \/ AckRead
    \/ \E v \in MaybeVersion : InstallBegin(FALSE, v)

ServiceNext ==
    \/ \E v \in Versions : Publish(v)
    \/ SupervisorStep \/ Crash
    \/ CheckBegin(TRUE) \/ CheckStep \/ InstallStep \/ InstallProgress \/ UserStep \/ AckWrite

ServiceSpec == ServiceInit /\ [][ServiceNext]_vars

(* The supervisor is running or is started again, the scheduler's timer fires, the *)
(* HTTP client's timeout ends every request, and a goroutine that can run does.     *)
ServiceFairness ==
    /\ WF_vars(SupervisorStep) /\ WF_vars(CheckBegin(TRUE))
    /\ WF_vars(CheckStep) /\ WF_vars(InstallStep) /\ WF_vars(AckWrite)

FairServiceSpec == ServiceSpec /\ ServiceFairness

-----------------------------------------------------------------------------
Checks == [pc: CheckLabels, auto: BOOLEAN, prev: Journals, found: MaybeVersion]
Installs == [pc: InstallLabels, auto: BOOLEAN, want: MaybeVersion, manifest: MaybeVersion,
             op: MaybeOp, current: MaybeVersion]
Acks == [pc: {"idle", "write"}, state: Journals]

ServiceTypeOK ==
    /\ published \in Versions
    /\ journal \in Journals
    /\ request \in Requests /\ trying \in Requests
    /\ extracted \in SUBSET Ops
    /\ running \in Versions /\ good \in Versions
    /\ app \in {"down", "trying", "up"}
    /\ supervising \in {"off", "loop", "promoted"}
    /\ checking \in BOOLEAN /\ installing \in BOOLEAN /\ requested \in BOOLEAN
    /\ available \in MaybeVersion
    /\ check \in Checks /\ inst \in Installs /\ ack \in Acks
    /\ events \in 0 .. MaxEvents
    /\ failed \in SUBSET Versions
    /\ barred \in MaybeVersion

(* The request file names a candidate that was verified and fully extracted, and   *)
(* it stays that way while later installs fail, are repeated or are cut off: the    *)
(* supervisor never executes half a download (Install, service.go).                 *)
RequestIsExtracted ==
    /\ request # NoRequest => request.op \in extracted
    /\ trying # NoRequest => trying.op \in extracted

(* Check, Install and AcknowledgeWarning write whole records they read earlier, in  *)
(* any order, and a crash may fall between any two writes; the application that     *)
(* comes up is all the same the build that was promoted last.                       *)
RunsLastPromoted == app = "up" => running = good

(* eligible: on the release channel an installation never goes back to an older     *)
(* version, whatever is published, withdrawn, offered on an old page or retried.     *)
NoDowngrade == [][running' >= running]_vars

(* Check, service.go: "A failed automatic candidate is quarantined until a newer    *)
(* build is published".  No automatic install works on the build that was rolled     *)
(* back last, unless the channel moved or the user asked for a check or an install.  *)
FailedBuildStaysOut == inst.pc # "idle" /\ inst.auto => inst.want # barred

(* A published build that never failed here is running in the end: no interleaving   *)
(* of checks, installs, restarts and acknowledgements wedges the service, also in a   *)
(* process that began as a candidate (Start, service.go).                             *)
UpdatesReachTheApp == <>[](running >= published \/ published \in failed)

(* The flags that make Check and Install refuse each other are given back.           *)
OperationsEnd == (checking ~> ~checking) /\ (installing ~> ~installing)
=============================================================================
