------------------------- MODULE UpdateServiceProofs -------------------------
(***************************************************************************)
(* Safety of the update service for any number of versions and staging     *)
(* directories, and any bound on the events.                               *)
(***************************************************************************)
EXTENDS UpdateService, TLAPS

(* The steps of an install that hold a staging directory and a manifest. *)
Working == {"mark", "download", "extract", "stage", "request"}

(* What is in progress has what its next steps use: the manifest that was fetched, *)
(* the candidate to install, the check that waits for the install it began.        *)
ProgressHolds ==
    /\ check.pc # "idle" => checking
    /\ check.pc \in {"decide", "offer", "forget", "nested"} => check.found \in Versions
    /\ inst.pc \in Working => inst.op \in Ops /\ inst.manifest \in Versions
    /\ inst.auto => inst.want \in Versions /\ check.pc = "nested"

(* A process that does not serve has nothing in progress, and the supervisor *)
(* tries what the request file names while no application serves.            *)
ProcessInv ==
    /\ app # "up" => /\ check = CheckAtRest /\ inst = InstallAtRest /\ ack = AckAtRest
                     /\ available = None /\ ~requested
    /\ trying # NoRequest => app # "up" /\ trying = request
    /\ app = "trying" => trying # NoRequest /\ journal.current # None
    /\ supervising = "off" => app = "down" /\ trying = NoRequest

(* The journal, and every copy of it that may be written back, names the binary that *)
(* was promoted last; an empty one stands for the bundled binary.                    *)
Follows(current) == current = good \/ (current = None /\ good = 1)
FollowsInv ==
    /\ running = good
    /\ Follows(journal.current)
    /\ check.pc \notin {"idle", "begin"} => Follows(check.prev.current)
    /\ inst.pc \in Working => Follows(inst.current)
    /\ ack.pc = "write" => Follows(ack.state.current)

(* Everything on its way to the supervisor is newer than what runs. *)
NewerInv ==
    /\ request # NoRequest => request.version > running
    /\ available # None => available > running
    /\ inst.manifest # None => inst.manifest > running

(* The candidate of an install that goes on to the request file is extracted, and *)
(* no install reuses the directory that the request file names.                   *)
ExtractedInv ==
    /\ RequestIsExtracted
    /\ inst.pc \in {"stage", "request"} => inst.op \in extracted

(* While a failed build is barred, the journal and every copy of it quarantine it, it *)
(* is what the channel publishes, and nothing is asked of the supervisor.             *)
Bars(state) == state.phase = "idle" /\ state.quarantined = barred /\ state.current # None
BarredInv ==
    barred # None =>
        /\ barred = published /\ Bars(journal)
        /\ trying = NoRequest /\ ~requested /\ inst = InstallAtRest
        /\ check.pc # "idle" =>
            /\ check.auto
            /\ check.pc \in {"begin", "mark", "fetch", "decide", "forget", "done"}
        /\ check.pc \notin {"idle", "begin"} => Bars(check.prev)
        /\ check.pc \in {"decide", "forget"} => check.found = barred
        /\ ack.pc = "write" => Bars(ack.state)

ServiceInv ==
    /\ ServiceTypeOK /\ ProgressHolds /\ ProcessInv
    /\ FollowsInv /\ NewerInv /\ ExtractedInv /\ BarredInv

-----------------------------------------------------------------------------
LEMMA VersionFacts ==
    /\ 1 \in Versions /\ Versions \subseteq Nat /\ None \notin Versions /\ None \notin Ops
    /\ MaybeVersion = Versions \cup {None} /\ MaybeOp = Ops \cup {None}
BY ServiceConstants DEF Versions, None, MaybeVersion, MaybeOp

(* The records at rest. *)
LEMMA RestFacts ==
    /\ NoJournal \in Journals /\ CheckAtRest \in Checks /\ InstallAtRest \in Installs
    /\ AckAtRest \in Acks /\ NoRequest \in Requests
    /\ CheckAtRest.pc = "idle" /\ InstallAtRest.pc = "idle" /\ AckAtRest.pc = "idle"
    /\ ~InstallAtRest.auto /\ InstallAtRest.manifest = None
BY VersionFacts
DEF NoJournal, CheckAtRest, InstallAtRest, AckAtRest, NoRequest, Journals, Checks, Installs,
    Acks,
    Requests, CheckLabels, InstallLabels

LEMMA RequestFacts ==
    \A r \in Requests : r # NoRequest => r.op \in Ops /\ r.version \in Versions
BY DEF Requests, NoRequest

LEMMA HappensType ==
    ASSUME events \in 0 .. MaxEvents, Happens PROVE events' \in 0 .. MaxEvents
BY ServiceConstants DEF Happens

-----------------------------------------------------------------------------
(* What the steps of a check, of an install and of an acknowledgement leave alone. *)
CheckGoesOn == CheckStep \/ CheckBegin(TRUE) \/ CheckBegin(FALSE)
InstallGoesOn ==
    \/ InstallStep \/ InstallProgress
    \/ \E v \in MaybeVersion : InstallBegin(FALSE, v)
AckGoesOn == AckRead \/ AckWrite

LEMMA CheckFrame ==
    ASSUME CheckGoesOn
    PROVE  UNCHANGED <<published, request, extracted, running, app, supervising, trying, good,
                       failed, installing, requested, inst, ack>>
BY DEF CheckGoesOn, CheckStep, CheckBegin, CheckRead, CheckMark, CheckFetch, CheckFetchFails,
       CheckQuarantined, CheckNothingNew, CheckForget, CheckOffer, CheckOffered, CheckRefused,
       CheckEnd, CheckKeeps, ServiceOnly

LEMMA InstallFrame ==
    ASSUME InstallGoesOn
    PROVE  UNCHANGED <<published, running, app, supervising, trying, good, failed, checking,
                       available, ack>>
BY DEF InstallGoesOn, InstallStep, InstallProgress, InstallBegin, InstallStale,
    InstallUnprepared,
       InstallPrepare, InstallMark, InstallVerified, InstallExtract, InstallFails,
       InstallJournalFails, InstallStage, InstallRequest, InstallRestart, InstallEnd,
       FailInstall, InstallKeeps, ServiceOnly

LEMMA AckFrame ==
    ASSUME AckGoesOn
    PROVE  UNCHANGED <<published, request, extracted, running, app, supervising, trying, good,
                       failed, checking, installing, requested, available, check, inst, barred>>
BY DEF AckGoesOn, AckRead, AckWrite, ServiceOnly

(* All of them happen in a process that serves. *)
LEMMA WorksWhileUp ==
    ASSUME ProcessInv, CheckGoesOn \/ InstallGoesOn \/ AckGoesOn
    PROVE  app = "up" /\ app' = "up" /\ trying = NoRequest /\ trying' = NoRequest
<1>1. CASE CheckGoesOn
  <2>1. app # "up" => ~CheckGoesOn
    BY RestFacts DEF ProcessInv, CheckGoesOn, CheckStep, CheckBegin, Up, CheckRead, CheckMark,
         CheckFetch, CheckFetchFails, CheckQuarantined, CheckNothingNew, CheckForget,
             CheckOffer,
         CheckOffered, CheckRefused, CheckEnd
  <2> QED
    BY <1>1, <2>1, CheckFrame DEF ProcessInv
<1>2. CASE InstallGoesOn
  <2>1. app # "up" => ~InstallGoesOn
    BY RestFacts DEF ProcessInv, InstallGoesOn, InstallStep, InstallProgress, InstallBegin, Up,
         InstallStale, InstallUnprepared, InstallPrepare, InstallMark, InstallVerified,
         InstallExtract, InstallFails, InstallJournalFails, InstallStage, InstallRequest,
         InstallRestart, InstallEnd
  <2> QED
    BY <1>2, <2>1, InstallFrame DEF ProcessInv
<1>3. CASE AckGoesOn
  <2>1. app # "up" => ~AckGoesOn
    BY RestFacts DEF ProcessInv, AckGoesOn, AckRead, AckWrite, Up
  <2> QED
    BY <1>3, <2>1, AckFrame DEF ProcessInv
<1> QED
  BY <1>1, <1>2, <1>3

(* The steps of the specification, by what takes them. *)
LEMMA NextCases ==
    ASSUME ServiceNext
    PROVE  \/ \E v \in Versions : Publish(v)
           \/ BootSupervisor \/ StartApp \/ BeginPromotion \/ Promoted \/ RolledBack
           \/ ExitForUpdate \/ Crash
           \/ CheckGoesOn \/ InstallGoesOn \/ AckGoesOn
BY DEF ServiceNext, SupervisorStep, UserStep, CheckGoesOn, InstallGoesOn, AckGoesOn
-----------------------------------------------------------------------------
(* The types, step by step. *)
LEMMA TypeStep ==
    ASSUME ServiceInv, [ServiceNext]_vars
    PROVE  ServiceTypeOK'
<1> USE VersionFacts, RestFacts DEF ServiceInv, ServiceTypeOK
<1>1. CASE \E v \in Versions : Publish(v)
  BY <1>1, HappensType DEF Publish, service, outside
<1>2. CASE BootSupervisor
  BY <1>2 DEF BootSupervisor, service, Journals
<1>3. CASE StartApp
  BY <1>3 DEF StartApp, service, Journals
<1>4. CASE BeginPromotion
  BY <1>4 DEF BeginPromotion, service, Journals
<1>5. CASE Promoted
  BY <1>5, RequestFacts DEF Promoted, service, Journals, ProcessInv
<1>6. CASE RolledBack
  BY <1>6, RequestFacts DEF RolledBack, service, Journals, ProcessInv
<1>7. CASE ExitForUpdate
  BY <1>7 DEF ExitForUpdate, Fresh
<1>8. CASE Crash
  BY <1>8, HappensType DEF Crash, Fresh
<1>9. CASE CheckGoesOn
  <2>1. CASE CheckBegin(TRUE) \/ CheckBegin(FALSE)
    <3>1. ASSUME NEW automatic \in BOOLEAN, CheckBegin(automatic)
          PROVE  ServiceTypeOK'
      <4>1. check' \in Checks /\ checking' \in BOOLEAN
        BY <3>1 DEF CheckBegin, Checks, CheckLabels, CheckAtRest
      <4>2. events' \in 0 .. MaxEvents
        BY <3>1, HappensType DEF CheckBegin
      <4>. QED
        BY <3>1, <4>1, <4>2 DEF CheckBegin, ServiceOnly
    <3>. QED
      BY <2>1, <3>1
  <2>2. CASE CheckRead
    BY <2>2 DEF CheckRead, CheckKeeps, ServiceOnly, Checks, CheckLabels
  <2>3. CASE CheckMark
    BY <2>3 DEF CheckMark, CheckKeeps, ServiceOnly, Base, Checks, CheckLabels, Journals
  <2>4. CASE CheckFetch
    BY <2>4 DEF CheckFetch, CheckKeeps, ServiceOnly, Checks, CheckLabels
  <2>5. CASE CheckFetchFails
    BY <2>5, HappensType DEF CheckFetchFails, CheckKeeps, ServiceOnly, Base, Checks,
        CheckLabels, Journals
  <2>6. CASE CheckQuarantined
    BY <2>6 DEF CheckQuarantined, CheckKeeps, ServiceOnly, Checks, CheckLabels
  <2>7. CASE CheckNothingNew
    BY <2>7 DEF CheckNothingNew, CheckKeeps, ServiceOnly, Base, Checks, CheckLabels, Journals
  <2>8. CASE CheckForget
    BY <2>8 DEF CheckForget, CheckKeeps, ServiceOnly, Checks, CheckLabels
  <2>9. CASE CheckOffer
    BY <2>9 DEF CheckOffer, CheckKeeps, ServiceOnly, Checks, CheckLabels, ProgressHolds
  <2>10. CASE CheckOffered
    BY <2>10 DEF CheckOffered, CheckKeeps, ServiceOnly, Base, Checks, CheckLabels, Journals
  <2>11. CASE CheckRefused
    BY <2>11 DEF CheckRefused, CheckKeeps, ServiceOnly, Checks, CheckLabels
  <2>12. CASE CheckEnd
    BY <2>12 DEF CheckEnd, ServiceOnly
  <2> QED
    BY <1>9, <2>1, <2>2, <2>3, <2>4, <2>5, <2>6, <2>7, <2>8, <2>9, <2>10, <2>11, <2>12
        DEF CheckGoesOn, CheckStep
<1>10. CASE InstallGoesOn
  <2>1. CASE \E v \in MaybeVersion : InstallBegin(FALSE, v)
    <3>1. PICK v \in MaybeVersion : InstallBegin(FALSE, v)
      BY <2>1
    <3>2. [InstallAtRest EXCEPT !.pc = "begin", !.auto = FALSE, !.want = v, !.manifest = available]
             \in Installs
      BY DEF Installs, InstallLabels, InstallAtRest
    <3> QED
      BY <3>1, <3>2, HappensType DEF InstallBegin, ServiceOnly
  <2>2. CASE \E v \in Versions : InstallBegin(TRUE, v)
    <3>1. PICK v \in Versions : InstallBegin(TRUE, v)
      BY <2>2
    <3>2. [InstallAtRest EXCEPT !.pc = "begin", !.auto = TRUE, !.want = v, !.manifest = available]
             \in Installs
      BY DEF Installs, InstallLabels, InstallAtRest
    <3> QED
      BY <3>1, <3>2, HappensType DEF InstallBegin, ServiceOnly
  <2>3. CASE InstallStale
    BY <2>3 DEF InstallStale, InstallKeeps, FailInstall, Installs, InstallLabels, Journals
  <2>4. CASE InstallUnprepared
    BY <2>4, HappensType DEF InstallUnprepared, InstallKeeps, FailInstall, Installs,
        InstallLabels, Journals
  <2>5. CASE \E o \in Ops : InstallPrepare(o)
    <3>1. PICK o \in Ops : InstallPrepare(o)
      BY <2>5
    <3>2. [inst EXCEPT !.pc = "mark", !.op = o, !.current = journal.current] \in Installs
      BY DEF Installs, InstallLabels, Journals
    <3> QED
      BY <3>1, <3>2 DEF InstallPrepare, InstallKeeps
  <2>6. CASE InstallMark
    BY <2>6 DEF InstallMark, InstallKeeps, Journal, Record, Step, Installs, InstallLabels,
        Journals
  <2>7. CASE InstallProgress
    BY <2>7 DEF InstallProgress, InstallKeeps, Journal, Record, Installs, InstallLabels,
        Journals
  <2>8. CASE InstallVerified
    BY <2>8 DEF InstallVerified, InstallKeeps, Journal, Record, Step, Installs, InstallLabels,
        Journals
  <2>9. CASE InstallExtract
    BY <2>9 DEF InstallExtract, InstallKeeps, Step, Installs, InstallLabels, ProgressHolds,
        Working
  <2>10. CASE InstallFails
    BY <2>10, HappensType DEF InstallFails, InstallKeeps, FailInstall, Installs,
        InstallLabels, Journals
  <2>11. CASE InstallJournalFails
    BY <2>11, HappensType DEF InstallJournalFails, InstallKeeps, Step, Installs, InstallLabels
  <2>12. CASE InstallStage
    BY <2>12 DEF InstallStage, InstallKeeps, Journal, Record, Step, Installs, InstallLabels,
        Journals
  <2>13. CASE InstallRequest
    BY <2>13 DEF InstallRequest, InstallKeeps, Step, Installs, InstallLabels, ProgressHolds,
        Working, Requests
  <2>14. CASE InstallRestart
    BY <2>14 DEF InstallRestart, InstallKeeps, Step, Installs, InstallLabels
  <2>15. CASE InstallEnd
    BY <2>15 DEF InstallEnd, ServiceOnly, Installs, InstallLabels, Checks, CheckLabels
  <2> QED
    BY <1>10, <2>1, <2>2, <2>3, <2>4, <2>5, <2>6, <2>7, <2>8, <2>9, <2>10, <2>11, <2>12,
        <2>13, <2>14, <2>15 DEF InstallGoesOn, InstallStep
<1>11. CASE AckGoesOn
  <2>1. CASE AckRead
    BY <2>1 DEF AckRead, ServiceOnly, Acks
  <2>2. CASE AckWrite
    BY <2>2 DEF AckWrite, ServiceOnly, Acks
  <2> QED
    BY <1>11, <2>1, <2>2 DEF AckGoesOn
<1>12. CASE UNCHANGED vars
  BY <1>12 DEF vars
<1> QED
  BY <1>1, <1>2, <1>3, <1>4, <1>5, <1>6, <1>7, <1>8, <1>9, <1>10, <1>11, <1>12, NextCases
-----------------------------------------------------------------------------
(* What is in progress has what it needs, step by step. *)
LEMMA ProgressStep ==
    ASSUME ServiceInv, [ServiceNext]_vars
    PROVE  ProgressHolds'
<1> USE VersionFacts, RestFacts DEF ServiceInv, ServiceTypeOK, ProgressHolds, Working
<1>1. CASE \E v \in Versions : Publish(v)
  BY <1>1 DEF Publish, service, outside
<1>2. CASE BootSupervisor
  BY <1>2 DEF BootSupervisor, service
<1>3. CASE StartApp
  BY <1>3 DEF StartApp, service
<1>4. CASE BeginPromotion
  BY <1>4 DEF BeginPromotion, service
<1>5. CASE Promoted
  BY <1>5 DEF Promoted, service
<1>6. CASE RolledBack
  BY <1>6 DEF RolledBack, service
<1>7. CASE ExitForUpdate
  BY <1>7 DEF ExitForUpdate, Fresh
<1>8. CASE Crash
  BY <1>8 DEF Crash, Fresh
<1>9. CASE CheckGoesOn
  <2> USE <1>9, CheckFrame
  <2>1. CASE CheckBegin(TRUE) \/ CheckBegin(FALSE)
    BY <2>1 DEF CheckBegin, ServiceOnly, Checks, CheckAtRest
  <2>2. CASE CheckRead
    BY <2>2 DEF CheckRead, CheckKeeps, ServiceOnly, Checks
  <2>3. CASE CheckMark
    BY <2>3 DEF CheckMark, CheckKeeps, ServiceOnly, Base, Checks
  <2>4. CASE CheckFetch
    BY <2>4 DEF CheckFetch, CheckKeeps, ServiceOnly, Checks
  <2>5. CASE CheckFetchFails
    BY <2>5 DEF CheckFetchFails, CheckKeeps, ServiceOnly, Base, Checks
  <2>6. CASE CheckQuarantined
    BY <2>6 DEF CheckQuarantined, CheckKeeps, ServiceOnly, Checks
  <2>7. CASE CheckNothingNew
    BY <2>7 DEF CheckNothingNew, CheckKeeps, ServiceOnly, Base, Checks
  <2>8. CASE CheckForget
    BY <2>8 DEF CheckForget, CheckKeeps, ServiceOnly, Checks
  <2>9. CASE CheckOffer
    BY <2>9 DEF CheckOffer, CheckKeeps, ServiceOnly, Checks
  <2>10. CASE CheckOffered
    BY <2>10 DEF CheckOffered, CheckKeeps, ServiceOnly, Base, Checks
  <2>11. CASE CheckRefused
    BY <2>11 DEF CheckRefused, CheckKeeps, ServiceOnly, Checks
  <2>12. CASE CheckEnd
    BY <2>12 DEF CheckEnd, ServiceOnly, Checks
  <2> QED
    BY <1>9, <2>1, <2>2, <2>3, <2>4, <2>5, <2>6, <2>7, <2>8, <2>9, <2>10, <2>11, <2>12
        DEF CheckGoesOn, CheckStep
<1>10. CASE InstallGoesOn
  <2>1. CASE \E v \in MaybeVersion : InstallBegin(FALSE, v)
    BY <2>1 DEF InstallBegin, ServiceOnly, InstallAtRest
  <2>2. CASE \E v \in Versions : InstallBegin(TRUE, v)
    BY <2>2 DEF InstallBegin, ServiceOnly, InstallAtRest
  <2>3. CASE InstallStale
    BY <2>3 DEF InstallStale, InstallKeeps, FailInstall, Installs
  <2>4. CASE InstallUnprepared
    BY <2>4 DEF InstallUnprepared, InstallKeeps, FailInstall, Installs
  <2>5. CASE \E o \in Ops : InstallPrepare(o)
    BY <2>5 DEF InstallPrepare, InstallKeeps, Installs, OnOffer
  <2>6. CASE InstallMark
    BY <2>6 DEF InstallMark, InstallKeeps, Journal, Record, Step, Installs
  <2>7. CASE InstallProgress
    BY <2>7 DEF InstallProgress, InstallKeeps, Journal, Record, Installs
  <2>8. CASE InstallVerified
    BY <2>8 DEF InstallVerified, InstallKeeps, Journal, Record, Step, Installs
  <2>9. CASE InstallExtract
    BY <2>9 DEF InstallExtract, InstallKeeps, Step, Installs
  <2>10. CASE InstallFails
    BY <2>10 DEF InstallFails, InstallKeeps, FailInstall, Installs
  <2>11. CASE InstallJournalFails
    BY <2>11 DEF InstallJournalFails, InstallKeeps, Step, Installs
  <2>12. CASE InstallStage
    BY <2>12 DEF InstallStage, InstallKeeps, Journal, Record, Step, Installs
  <2>13. CASE InstallRequest
    BY <2>13 DEF InstallRequest, InstallKeeps, Step, Installs
  <2>14. CASE InstallRestart
    BY <2>14 DEF InstallRestart, InstallKeeps, Step, Installs
  <2>15. CASE InstallEnd
    BY <2>15 DEF InstallEnd, ServiceOnly, Installs, Checks
  <2> QED
    BY <1>10, <2>1, <2>2, <2>3, <2>4, <2>5, <2>6, <2>7, <2>8, <2>9, <2>10, <2>11, <2>12,
        <2>13, <2>14, <2>15 DEF InstallGoesOn, InstallStep
<1>11. CASE AckGoesOn
  BY <1>11, AckFrame
<1>12. CASE UNCHANGED vars
  BY <1>12 DEF vars
<1> QED
  BY <1>1, <1>2, <1>3, <1>4, <1>5, <1>6, <1>7, <1>8, <1>9, <1>10, <1>11, <1>12, NextCases
-----------------------------------------------------------------------------
(* Nothing is in progress in a process that does not serve, step by step. *)
LEMMA ProcessStep ==
    ASSUME ServiceInv, [ServiceNext]_vars
    PROVE  ProcessInv'
<1> USE VersionFacts, RestFacts DEF ServiceInv, ServiceTypeOK, ProcessInv
<1>1. CASE \E v \in Versions : Publish(v)
  BY <1>1 DEF Publish, service, outside
<1>2. CASE BootSupervisor
  BY <1>2 DEF BootSupervisor, service
<1>3. CASE StartApp
  BY <1>3 DEF StartApp, service, Journals
<1>4. CASE BeginPromotion
  BY <1>4 DEF BeginPromotion, service, Journals
<1>5. CASE Promoted
  BY <1>5 DEF Promoted, service
<1>6. CASE RolledBack
  BY <1>6 DEF RolledBack, service
<1>7. CASE ExitForUpdate
  BY <1>7 DEF ExitForUpdate, Fresh
<1>8. CASE Crash
  BY <1>8 DEF Crash, Fresh
<1>9. CASE CheckGoesOn
  BY <1>9, CheckFrame, WorksWhileUp
<1>10. CASE InstallGoesOn
  BY <1>10, InstallFrame, WorksWhileUp
<1>11. CASE AckGoesOn
  BY <1>11, AckFrame, WorksWhileUp
<1>12. CASE UNCHANGED vars
  BY <1>12 DEF vars
<1> QED
  BY <1>1, <1>2, <1>3, <1>4, <1>5, <1>6, <1>7, <1>8, <1>9, <1>10, <1>11, <1>12, NextCases
-----------------------------------------------------------------------------
(* The journal and its copies name the binary promoted last, step by step. *)
LEMMA FollowsStep ==
    ASSUME ServiceInv, [ServiceNext]_vars
    PROVE  FollowsInv'
<1> USE VersionFacts, RestFacts DEF ServiceInv, ServiceTypeOK, FollowsInv, Follows, Working
<1>1. CASE \E v \in Versions : Publish(v)
  BY <1>1 DEF Publish, service, outside
<1>2. CASE BootSupervisor
  BY <1>2 DEF BootSupervisor, service, Journals
<1>3. CASE StartApp
  BY <1>3 DEF StartApp, service, Journals, NoJournal
<1>4. CASE BeginPromotion
  BY <1>4 DEF BeginPromotion, service, Journals
<1>5. CASE Promoted
  BY <1>5 DEF Promoted, service, Journals, ProcessInv
<1>6. CASE RolledBack
  BY <1>6 DEF RolledBack, service, Journals
<1>7. CASE ExitForUpdate
  BY <1>7 DEF ExitForUpdate, Fresh
<1>8. CASE Crash
  BY <1>8 DEF Crash, Fresh
<1>9. CASE CheckGoesOn
  <2>1. CASE CheckBegin(TRUE) \/ CheckBegin(FALSE)
    BY <2>1 DEF CheckBegin, ServiceOnly, Checks, CheckAtRest
  <2>2. CASE CheckRead
    BY <2>2 DEF CheckRead, CheckKeeps, ServiceOnly, Checks, Journals
  <2>3. CASE CheckMark
    BY <2>3 DEF CheckMark, CheckKeeps, ServiceOnly, Base, Checks, Journals
  <2>4. CASE CheckFetch
    BY <2>4 DEF CheckFetch, CheckKeeps, ServiceOnly, Checks, Journals
  <2>5. CASE CheckFetchFails
    BY <2>5 DEF CheckFetchFails, CheckKeeps, ServiceOnly, Base, Checks, Journals
  <2>6. CASE CheckQuarantined
    BY <2>6 DEF CheckQuarantined, CheckKeeps, ServiceOnly, Checks, Journals
  <2>7. CASE CheckNothingNew
    BY <2>7 DEF CheckNothingNew, CheckKeeps, ServiceOnly, Base, Checks, Journals
  <2>8. CASE CheckForget
    BY <2>8 DEF CheckForget, CheckKeeps, ServiceOnly, Checks, Journals
  <2>9. CASE CheckOffer
    BY <2>9 DEF CheckOffer, CheckKeeps, ServiceOnly, Checks, Journals
  <2>10. CASE CheckOffered
    BY <2>10 DEF CheckOffered, CheckKeeps, ServiceOnly, Base, Checks, Journals
  <2>11. CASE CheckRefused
    BY <2>11 DEF CheckRefused, CheckKeeps, ServiceOnly, Checks, Journals
  <2>12. CASE CheckEnd
    BY <2>12 DEF CheckEnd, ServiceOnly, Checks, Journals
  <2> QED
    BY <1>9, <2>1, <2>2, <2>3, <2>4, <2>5, <2>6, <2>7, <2>8, <2>9, <2>10, <2>11, <2>12
        DEF CheckGoesOn, CheckStep
<1>10. CASE InstallGoesOn
  <2>1. CASE \E v \in MaybeVersion : InstallBegin(FALSE, v)
    BY <2>1 DEF InstallBegin, ServiceOnly, InstallAtRest
  <2>2. CASE \E v \in Versions : InstallBegin(TRUE, v)
    BY <2>2 DEF InstallBegin, ServiceOnly, InstallAtRest
  <2>3. CASE InstallStale
    BY <2>3 DEF InstallStale, InstallKeeps, FailInstall, Installs, Journals
  <2>4. CASE InstallUnprepared
    BY <2>4 DEF InstallUnprepared, InstallKeeps, FailInstall, Installs, Journals
  <2>5. CASE \E o \in Ops : InstallPrepare(o)
    BY <2>5 DEF InstallPrepare, InstallKeeps, Installs, Journals
  <2>6. CASE InstallMark
    BY <2>6 DEF InstallMark, InstallKeeps, Journal, Record, Step, Installs, Journals
  <2>7. CASE InstallProgress
    BY <2>7 DEF InstallProgress, InstallKeeps, Journal, Record, Installs, Journals
  <2>8. CASE InstallVerified
    BY <2>8 DEF InstallVerified, InstallKeeps, Journal, Record, Step, Installs, Journals
  <2>9. CASE InstallExtract
    BY <2>9 DEF InstallExtract, InstallKeeps, Step, Installs, Journals
  <2>10. CASE InstallFails
    BY <2>10 DEF InstallFails, InstallKeeps, FailInstall, Installs, Journals
  <2>11. CASE InstallJournalFails
    BY <2>11 DEF InstallJournalFails, InstallKeeps, Step, Installs, Journals
  <2>12. CASE InstallStage
    BY <2>12 DEF InstallStage, InstallKeeps, Journal, Record, Step, Installs, Journals
  <2>13. CASE InstallRequest
    BY <2>13 DEF InstallRequest, InstallKeeps, Step, Installs, Journals
  <2>14. CASE InstallRestart
    BY <2>14 DEF InstallRestart, InstallKeeps, Step, Installs, Journals
  <2>15. CASE InstallEnd
    BY <2>15 DEF InstallEnd, ServiceOnly, Checks, ProgressHolds
  <2> QED
    BY <1>10, <2>1, <2>2, <2>3, <2>4, <2>5, <2>6, <2>7, <2>8, <2>9, <2>10, <2>11, <2>12,
        <2>13, <2>14, <2>15 DEF InstallGoesOn, InstallStep
<1>11. CASE AckGoesOn
  <2>1. CASE AckRead
    BY <2>1 DEF AckRead, ServiceOnly, Acks
  <2>2. CASE AckWrite
    BY <2>2 DEF AckWrite, ServiceOnly, Acks
  <2> QED
    BY <1>11, <2>1, <2>2 DEF AckGoesOn
<1>12. CASE UNCHANGED vars
  BY <1>12 DEF vars
<1> QED
  BY <1>1, <1>2, <1>3, <1>4, <1>5, <1>6, <1>7, <1>8, <1>9, <1>10, <1>11, <1>12, NextCases
-----------------------------------------------------------------------------
(* What is on its way is newer than what runs, step by step. *)
LEMMA NewerStep ==
    ASSUME ServiceInv, [ServiceNext]_vars
    PROVE  NewerInv'
<1> USE VersionFacts, RestFacts DEF ServiceInv, ServiceTypeOK, NewerInv
<1>1. CASE \E v \in Versions : Publish(v)
  BY <1>1 DEF Publish, service, outside
<1>2. CASE BootSupervisor
  BY <1>2 DEF BootSupervisor, service
<1>3. CASE StartApp
  BY <1>3 DEF StartApp, service, FollowsInv, Follows
<1>4. CASE BeginPromotion
  BY <1>4 DEF BeginPromotion, service
<1>5. CASE Promoted
  BY <1>5 DEF Promoted, service, ProcessInv
<1>6. CASE RolledBack
  BY <1>6 DEF RolledBack, service
<1>7. CASE ExitForUpdate
  BY <1>7 DEF ExitForUpdate, Fresh
<1>8. CASE Crash
  BY <1>8 DEF Crash, Fresh
<1>9. CASE CheckGoesOn
  <2> USE <1>9, CheckFrame
  <2>1. CASE CheckBegin(TRUE) \/ CheckBegin(FALSE)
    BY <2>1 DEF CheckBegin, ServiceOnly
  <2>2. CASE CheckRead
    BY <2>2 DEF CheckRead, CheckKeeps, ServiceOnly
  <2>3. CASE CheckMark
    BY <2>3 DEF CheckMark, CheckKeeps, ServiceOnly, Base
  <2>4. CASE CheckFetch
    BY <2>4 DEF CheckFetch, CheckKeeps, ServiceOnly
  <2>5. CASE CheckFetchFails
    BY <2>5 DEF CheckFetchFails, CheckKeeps, ServiceOnly, Base
  <2>6. CASE CheckQuarantined
    BY <2>6 DEF CheckQuarantined, CheckKeeps, ServiceOnly
  <2>7. CASE CheckNothingNew
    BY <2>7 DEF CheckNothingNew, CheckKeeps, ServiceOnly, Base
  <2>8. CASE CheckForget
    BY <2>8 DEF CheckForget, CheckKeeps, ServiceOnly
  <2>9. CASE CheckOffer
    BY <2>9 DEF CheckOffer, CheckKeeps, ServiceOnly, Eligible
  <2>10. CASE CheckOffered
    BY <2>10 DEF CheckOffered, CheckKeeps, ServiceOnly, Base
  <2>11. CASE CheckRefused
    BY <2>11 DEF CheckRefused, CheckKeeps, ServiceOnly
  <2>12. CASE CheckEnd
    BY <2>12 DEF CheckEnd, ServiceOnly
  <2> QED
    BY <1>9, <2>1, <2>2, <2>3, <2>4, <2>5, <2>6, <2>7, <2>8, <2>9, <2>10, <2>11, <2>12
        DEF CheckGoesOn, CheckStep
<1>10. CASE InstallGoesOn
  <2>1. CASE \E v \in MaybeVersion : InstallBegin(FALSE, v)
    BY <2>1 DEF InstallBegin, ServiceOnly, InstallAtRest
  <2>2. CASE \E v \in Versions : InstallBegin(TRUE, v)
    BY <2>2 DEF InstallBegin, ServiceOnly, InstallAtRest
  <2>3. CASE InstallStale
    BY <2>3 DEF InstallStale, InstallKeeps, FailInstall, Installs
  <2>4. CASE InstallUnprepared
    BY <2>4 DEF InstallUnprepared, InstallKeeps, FailInstall, Installs
  <2>5. CASE \E o \in Ops : InstallPrepare(o)
    BY <2>5 DEF InstallPrepare, InstallKeeps, Installs
  <2>6. CASE InstallMark
    BY <2>6 DEF InstallMark, InstallKeeps, Journal, Record, Step, Installs
  <2>7. CASE InstallProgress
    BY <2>7 DEF InstallProgress, InstallKeeps, Journal, Record, Installs
  <2>8. CASE InstallVerified
    BY <2>8 DEF InstallVerified, InstallKeeps, Journal, Record, Step, Installs
  <2>9. CASE InstallExtract
    BY <2>9 DEF InstallExtract, InstallKeeps, Step, Installs
  <2>10. CASE InstallFails
    BY <2>10 DEF InstallFails, InstallKeeps, FailInstall, Installs
  <2>11. CASE InstallJournalFails
    BY <2>11 DEF InstallJournalFails, InstallKeeps, Step, Installs
  <2>12. CASE InstallStage
    BY <2>12 DEF InstallStage, InstallKeeps, Journal, Record, Step, Installs
  <2>13. CASE InstallRequest
    BY <2>13 DEF InstallRequest, InstallKeeps, Step, Installs, ProgressHolds, Working
  <2>14. CASE InstallRestart
    BY <2>14 DEF InstallRestart, InstallKeeps, Step, Installs
  <2>15. CASE InstallEnd
    BY <2>15 DEF InstallEnd, ServiceOnly, Installs
  <2> QED
    BY <1>10, <2>1, <2>2, <2>3, <2>4, <2>5, <2>6, <2>7, <2>8, <2>9, <2>10, <2>11, <2>12,
        <2>13, <2>14, <2>15 DEF InstallGoesOn, InstallStep
<1>11. CASE AckGoesOn
  BY <1>11, AckFrame
<1>12. CASE UNCHANGED vars
  BY <1>12 DEF vars
<1> QED
  BY <1>1, <1>2, <1>3, <1>4, <1>5, <1>6, <1>7, <1>8, <1>9, <1>10, <1>11, <1>12, NextCases
-----------------------------------------------------------------------------
(* The request names a whole candidate, step by step. *)
LEMMA ExtractedStep ==
    ASSUME ServiceInv, [ServiceNext]_vars
    PROVE  ExtractedInv'
<1> USE RestFacts DEF ServiceInv, ServiceTypeOK, ProcessInv, ExtractedInv, RequestIsExtracted
<1>1. CASE \E v \in Versions : Publish(v)
  BY <1>1 DEF Publish, service, outside
<1>2. CASE BootSupervisor
  BY <1>2 DEF BootSupervisor, service
<1>3. CASE StartApp
  BY <1>3 DEF StartApp, service
<1>4. CASE BeginPromotion
  BY <1>4 DEF BeginPromotion, service
<1>5. CASE Promoted
  BY <1>5 DEF Promoted, service
<1>6. CASE RolledBack
  BY <1>6 DEF RolledBack, service
<1>7. CASE ExitForUpdate
  BY <1>7 DEF ExitForUpdate, Fresh
<1>8. CASE Crash
  BY <1>8 DEF Crash, Fresh
<1>9. CASE CheckGoesOn
  BY <1>9, CheckFrame
<1>10. CASE InstallGoesOn
  <2> USE <1>10, WorksWhileUp
  <2>1. CASE \E v \in MaybeVersion : InstallBegin(FALSE, v)
    BY <2>1 DEF InstallBegin, ServiceOnly, InstallAtRest
  <2>2. CASE \E v \in Versions : InstallBegin(TRUE, v)
    BY <2>2 DEF InstallBegin, ServiceOnly, InstallAtRest
  <2>3. CASE InstallStale
    BY <2>3 DEF InstallStale, InstallKeeps, FailInstall, Installs
  <2>4. CASE InstallUnprepared
    BY <2>4 DEF InstallUnprepared, InstallKeeps, FailInstall, Installs
  <2>5. CASE \E o \in Ops : InstallPrepare(o)
    BY <2>5 DEF InstallPrepare, InstallKeeps, Installs
  <2>6. CASE InstallMark
    BY <2>6 DEF InstallMark, InstallKeeps, Journal, Record, Step, Installs
  <2>7. CASE InstallProgress
    BY <2>7 DEF InstallProgress, InstallKeeps, Journal, Record, Installs
  <2>8. CASE InstallVerified
    BY <2>8 DEF InstallVerified, InstallKeeps, Journal, Record, Step, Installs
  <2>9. CASE InstallExtract
    BY <2>9 DEF InstallExtract, InstallKeeps, Step, Installs
  <2>10. CASE InstallFails
    BY <2>10 DEF InstallFails, InstallKeeps, FailInstall, Installs
  <2>11. CASE InstallJournalFails
    BY <2>11 DEF InstallJournalFails, InstallKeeps, Step, Installs
  <2>12. CASE InstallStage
    BY <2>12 DEF InstallStage, InstallKeeps, Journal, Record, Step, Installs
  <2>13. CASE InstallRequest
    BY <2>13 DEF InstallRequest, InstallKeeps, Step, Installs
  <2>14. CASE InstallRestart
    BY <2>14 DEF InstallRestart, InstallKeeps, Step, Installs
  <2>15. CASE InstallEnd
    BY <2>15 DEF InstallEnd, ServiceOnly, Installs
  <2> QED
    BY <1>10, <2>1, <2>2, <2>3, <2>4, <2>5, <2>6, <2>7, <2>8, <2>9, <2>10, <2>11, <2>12,
        <2>13, <2>14, <2>15 DEF InstallGoesOn, InstallStep
<1>11. CASE AckGoesOn
  BY <1>11, AckFrame
<1>12. CASE UNCHANGED vars
  BY <1>12 DEF vars
<1> QED
  BY <1>1, <1>2, <1>3, <1>4, <1>5, <1>6, <1>7, <1>8, <1>9, <1>10, <1>11, <1>12, NextCases
-----------------------------------------------------------------------------
(* A barred build stays quarantined, step by step. *)
LEMMA BarredStep ==
    ASSUME ServiceInv, [ServiceNext]_vars
    PROVE  BarredInv'
<1> USE VersionFacts, RestFacts DEF ServiceInv, ServiceTypeOK, BarredInv, Bars
<1>1. CASE \E v \in Versions : Publish(v)
  BY <1>1 DEF Publish, service, outside
<1>2. CASE BootSupervisor
  BY <1>2 DEF BootSupervisor, service, Journals
<1>3. CASE StartApp
  BY <1>3 DEF StartApp, service, Journals
<1>4. CASE BeginPromotion
  BY <1>4 DEF BeginPromotion, service, Journals
<1>5. CASE Promoted
  BY <1>5 DEF Promoted, service, Journals, ProcessInv
<1>6. CASE RolledBack
  BY <1>6, RequestFacts DEF RolledBack, service, Journals, ProcessInv, FollowsInv
<1>7. CASE ExitForUpdate
  BY <1>7 DEF ExitForUpdate, Fresh
<1>8. CASE Crash
  BY <1>8 DEF Crash, Fresh
<1>9. CASE CheckGoesOn
  <2>1. CASE CheckBegin(TRUE) \/ CheckBegin(FALSE)
    BY <2>1 DEF CheckBegin, ServiceOnly, Checks, CheckAtRest
  <2>2. CASE CheckRead
    BY <2>2 DEF CheckRead, CheckKeeps, ServiceOnly, Checks, Journals, Quarantined
  <2>3. CASE CheckMark
    BY <2>3 DEF CheckMark, CheckKeeps, ServiceOnly, Base, Checks, Journals, Quarantined
  <2>4. CASE CheckFetch
    BY <2>4 DEF CheckFetch, CheckKeeps, ServiceOnly, Checks, Journals, Quarantined
  <2>5. CASE CheckFetchFails
    BY <2>5 DEF CheckFetchFails, CheckKeeps, ServiceOnly, Base, Checks, Journals, Quarantined
  <2>6. CASE CheckQuarantined
    BY <2>6 DEF CheckQuarantined, CheckKeeps, ServiceOnly, Checks, Journals, Quarantined
  <2>7. CASE CheckNothingNew
    BY <2>7 DEF CheckNothingNew, CheckKeeps, ServiceOnly, Base, Checks, Journals, Quarantined
  <2>8. CASE CheckForget
    BY <2>8 DEF CheckForget, CheckKeeps, ServiceOnly, Checks, Journals, Quarantined
  <2>9. CASE CheckOffer
    BY <2>9 DEF CheckOffer, CheckKeeps, ServiceOnly, Checks, Journals, Quarantined
  <2>10. CASE CheckOffered
    BY <2>10 DEF CheckOffered, CheckKeeps, ServiceOnly, Base, Checks, Journals, Quarantined
  <2>11. CASE CheckRefused
    BY <2>11 DEF CheckRefused, CheckKeeps, ServiceOnly, Checks, Journals, Quarantined
  <2>12. CASE CheckEnd
    BY <2>12 DEF CheckEnd, ServiceOnly, Checks, Journals, Quarantined
  <2> QED
    BY <1>9, <2>1, <2>2, <2>3, <2>4, <2>5, <2>6, <2>7, <2>8, <2>9, <2>10, <2>11, <2>12
        DEF CheckGoesOn, CheckStep
<1>10. CASE InstallGoesOn
  <2>1. CASE \E v \in MaybeVersion : InstallBegin(FALSE, v)
    BY <2>1 DEF InstallBegin, ServiceOnly, InstallAtRest
  <2>2. CASE \E v \in Versions : InstallBegin(TRUE, v)
    BY <2>2 DEF InstallBegin, ServiceOnly, InstallAtRest
  <2>3. CASE InstallStale
    BY <2>3 DEF InstallStale, InstallKeeps, FailInstall, Installs
  <2>4. CASE InstallUnprepared
    BY <2>4 DEF InstallUnprepared, InstallKeeps, FailInstall, Installs
  <2>5. CASE \E o \in Ops : InstallPrepare(o)
    BY <2>5 DEF InstallPrepare, InstallKeeps, Installs
  <2>6. CASE InstallMark
    BY <2>6 DEF InstallMark, InstallKeeps, Journal, Record, Step, Installs
  <2>7. CASE InstallProgress
    BY <2>7 DEF InstallProgress, InstallKeeps, Journal, Record, Installs
  <2>8. CASE InstallVerified
    BY <2>8 DEF InstallVerified, InstallKeeps, Journal, Record, Step, Installs
  <2>9. CASE InstallExtract
    BY <2>9 DEF InstallExtract, InstallKeeps, Step, Installs
  <2>10. CASE InstallFails
    BY <2>10 DEF InstallFails, InstallKeeps, FailInstall, Installs
  <2>11. CASE InstallJournalFails
    BY <2>11 DEF InstallJournalFails, InstallKeeps, Step, Installs
  <2>12. CASE InstallStage
    BY <2>12 DEF InstallStage, InstallKeeps, Journal, Record, Step, Installs
  <2>13. CASE InstallRequest
    BY <2>13 DEF InstallRequest, InstallKeeps, Step, Installs
  <2>14. CASE InstallRestart
    BY <2>14 DEF InstallRestart, InstallKeeps, Step, Installs
  <2>15. CASE InstallEnd
    BY <2>15 DEF InstallEnd, ServiceOnly, Installs
  <2> QED
    BY <1>10, <2>1, <2>2, <2>3, <2>4, <2>5, <2>6, <2>7, <2>8, <2>9, <2>10, <2>11, <2>12,
        <2>13, <2>14, <2>15 DEF InstallGoesOn, InstallStep
<1>11. CASE AckGoesOn
  <2>1. CASE AckRead
    BY <2>1 DEF AckRead, ServiceOnly, Acks
  <2>2. CASE AckWrite
    BY <2>2 DEF AckWrite, ServiceOnly, Acks
  <2> QED
    BY <1>11, <2>1, <2>2 DEF AckGoesOn
<1>12. CASE UNCHANGED vars
  BY <1>12 DEF vars
<1> QED
  BY <1>1, <1>2, <1>3, <1>4, <1>5, <1>6, <1>7, <1>8, <1>9, <1>10, <1>11, <1>12, NextCases
-----------------------------------------------------------------------------
LEMMA ServiceStart == ServiceInit => ServiceInv
<1> SUFFICES ASSUME ServiceInit PROVE ServiceInv
  OBVIOUS
<1> USE VersionFacts, RestFacts DEF ServiceInit
<1>1. ServiceTypeOK
  <2>1. 0 \in 0 .. MaxEvents
    BY ServiceConstants
  <2> QED
    BY <2>1 DEF ServiceTypeOK
<1>2. ProgressHolds /\ ProcessInv /\ ExtractedInv /\ NewerInv
  BY DEF ProgressHolds, Working, ProcessInv, ExtractedInv, RequestIsExtracted, NewerInv
<1>3. FollowsInv /\ BarredInv
  BY DEF FollowsInv, Follows, Working, BarredInv, NoJournal
<1> QED
  BY <1>1, <1>2, <1>3 DEF ServiceInv

(* Every state of the service satisfies the inductive invariant. *)
THEOREM ServiceSafe == ServiceSpec => []ServiceInv
<1>1. ServiceInv /\ [ServiceNext]_vars => ServiceInv'
  BY TypeStep, ProgressStep, ProcessStep, FollowsStep, NewerStep, ExtractedStep, BarredStep
  DEF ServiceInv
<1> QED
  BY ServiceStart, <1>1, PTL DEF ServiceSpec

(* The flags, the goroutines' locals, the journal and the request keep their types. *)
THEOREM ServiceTypeCorrect == ServiceSpec => []ServiceTypeOK
<1>1. ServiceInv => ServiceTypeOK
  BY DEF ServiceInv
<1> QED
  BY ServiceSafe, <1>1, PTL

(* The request file, and what the supervisor tries, names a whole candidate. *)
THEOREM WholeRequest == ServiceSpec => []RequestIsExtracted
<1>1. ServiceInv => RequestIsExtracted
  BY DEF ServiceInv, ExtractedInv
<1> QED
  BY ServiceSafe, <1>1, PTL

(* The application that serves is the build that was promoted last. *)
THEOREM LastPromotedRuns == ServiceSpec => []RunsLastPromoted
<1>1. ServiceInv => RunsLastPromoted
  BY DEF ServiceInv, FollowsInv, RunsLastPromoted
<1> QED
  BY ServiceSafe, <1>1, PTL

(* No automatic install works on the build that was rolled back last. *)
THEOREM FailedStaysOut == ServiceSpec => []FailedBuildStaysOut
<1>1. ServiceInv => FailedBuildStaysOut
  BY VersionFacts, RestFacts DEF ServiceInv, BarredInv, ProgressHolds, FailedBuildStaysOut
<1> QED
  BY ServiceSafe, <1>1, PTL

(* An installation never goes back to an older version. *)
THEOREM NeverOlder == ServiceSpec => NoDowngrade
<1>1. ServiceInv /\ [ServiceNext]_vars => [running' >= running]_vars
  <2> SUFFICES ASSUME ServiceInv, ServiceNext PROVE running' >= running
    BY DEF vars
  <2> USE VersionFacts DEF ServiceInv, ServiceTypeOK
  <2>1. CASE \E v \in Versions : Publish(v)
    BY <2>1 DEF Publish, outside
  <2>2. CASE BootSupervisor \/ BeginPromotion \/ RolledBack \/ ExitForUpdate \/ Crash
    BY <2>2 DEF BootSupervisor, BeginPromotion, RolledBack, ExitForUpdate, Crash
  <2>3. CASE StartApp
    BY <2>3 DEF StartApp, FollowsInv, Follows
  <2>4. CASE Promoted
    BY <2>4, RequestFacts DEF Promoted, ProcessInv, NewerInv
  <2>5. CASE CheckGoesOn \/ InstallGoesOn \/ AckGoesOn
    BY <2>5, CheckFrame, InstallFrame, AckFrame
  <2> QED
    BY <2>1, <2>2, <2>3, <2>4, <2>5, NextCases
<1> QED
  BY ServiceSafe, <1>1, PTL DEF ServiceSpec, NoDowngrade
=============================================================================
