# PayLessForAI in TLA+

PayLessForAI is a local gateway that routes requests for language models to the
cheapest provider that can answer them, and that updates itself.  This directory
holds TLA+ models of the parts of it whose correctness depends on the order of
events, TLC runs of these models on small instances, and proofs, checked by
TLAPS, that the main properties hold for every value of the constants.

`PROJECT.json` lists the components, the runs, a mutant for every property, the
source lines each definition translates, the findings and the hazards.

## Running it

    tlc -workers 2 -config UpdateSupervisor_faults.cfg MCUpdateSupervisor.tla
    tlapm UpdateSupervisorProofs.tla

Every run of `PROJECT.json` names its module and its `.cfg`, and every module whose
name ends in `Proofs` goes through `tlapm`.  Runs with `"expect": "violation"` end
with a counterexample on purpose: they show where the code and one of its own
statements disagree.  The longest run, `control_plane`, takes about three minutes
with two workers.

## The system

One executable plays two roles.  Started by a user it is the **supervisor**: it
owns the data directory, and runs the **application** (the same executable, or the
one of a later release) as its child.  The application is an HTTP server with a
control plane (a web interface and its API), a gateway (the `/v1` endpoints that
AI clients call), the update service and, optionally, remote access.

    supervisor ──starts──▶ application ──calls──▶ providers
        ▲  │                 │    ▲
        │  └─ journal, ◀─────┘    └── clients
        │     request, backups
        └── exit code 75

### Components

| component | state it keeps | operations | what is hard | what makes it correct |
|---|---|---|---|---|
| Update supervisor (`updater/supervisor.go`) | `state.json`, `request.json`, backups, the lock, the child | run the child, recover, snapshot, preflight, promote, roll back | crashes between any two steps, timers against exits, two processes on one database | an update happens completely or not at all; the active binary is the one that serves; no stored row is lost |
| Update service (`updater/service.go`) | the journal (shared with the supervisor), `available`, `checking`, `installing` | check, install, acknowledge a warning, the scheduler | read–modify–write of the journal by three callers without a common lock | a staged install is not overwritten; a quarantined build is not retried by itself |
| Journal, manifest (`updater/state.go`, `manifest.go`) | one JSON record, history, logs | transition, verify, extract | atomic replacement of the file | what is read is what some transition wrote |
| Application runtime (`app/runtime`) | listeners, services | start, get ready, exit | exit for an update against exit for a failure | the database is closed on the way out |
| Proxy (`proxy/proxy.go`, `stream.go`) | per-request loop; format locks | execute a plan, translate, stream | fail-over, retry budgets, format discovery, blocked providers | attempts are bounded; a healthy route is tried before a request fails; nothing is sent twice |
| Retry engine (`retry/retry.go`) | none | decide | a decision table with seven inputs | never retry what may have been delivered |
| Routing plan, groups compiler, matcher | none | compile groups to entries, match routes | order and limits | the plan holds exactly the eligible routes, in order |
| Group store (`groups/manager.go`, `group_handlers.go`, its repository) | group definitions in memory and in SQLite | save, delete, reload, include discovered routes | validation and reload outside the transaction | what serves is what was stored last; no cycles |
| Catalog (`catalog/`) | routes, models, learned formats, blocked providers, discoveries | refresh, learn, block | a refresh of minutes against learning in between | learned facts survive a refresh; a block ends |
| Remote access (`remoteaccess/`) | desired mode, generation, node, status | configure, run, forget, shut down | generations of goroutines on one state directory | at most one node; the stored status is the latest |
| Control plane and gateway (`controlplane/`, `gateway/`) | none of their own | HTTP handlers | the promotion gate | a candidate serves nobody |
| Sessions (`session/`, its repository) | prefixes of conversations | resolve and register, clean up | forks and concurrent first requests | a request joins a session only when the prefix is its own |
| Network settings (`network/`) | the configured port | bootstrap, set port | a port taken meanwhile | the application comes up |
| Providers, wire formats, statistics, secrets, persistence, web | none, or rows in SQLite | HTTP clients, translations, queries | data, not order | out of this project, see below |

A part that has an order of events is a module of its own; where one part calls
another, either a module composes the two or the caller leaves open what the other
answers:

| module | models | composed with |
|---|---|---|
| `UpdateSupervisor` | the supervisor, its child, database files | `UpdateRefinement` maps it to `AtomicUpgrade` |
| `SupervisorLock` | the lock of the data directory | |
| `UpdateService` | check, install, acknowledge, the scheduler | a reduced supervisor, of which `UpdateSupervisor` has the steps |
| `RetryDecision`, `ProxyExecute` | a request working through its plan | `ProxyExecute` calls `RetryDecision` |
| `StreamDelivery` | how an answer reaches the client | the end of `ProxyExecute`'s route, event by event |
| `Matcher`, `GroupPlan` | which routes a plan holds, in which order | the plan `ProxyExecute` takes as a constant |
| `Catalog`, `GroupStore` | routes and models; routing groups | joined by `ControlPlane` |
| `Credentials` | provider keys, clients, limits | the clients of `Catalog`, the blocks of `ProxyExecute` |
| `Sessions` | which conversation a request belongs to | |
| `RemoteAccess` | generations of the Tailscale node | |

## What is modelled

### `UpdateSupervisor`: the supervisor and its child

The module follows `RunSupervisor` and the functions it calls.  `pc` is the place
in that code; one action is one step between two effects that a crash can separate
(a write of the journal, a copy, a rename, a removal, a spawn).

| variable | in the code |
|---|---|
| `journal` | `updater/state.json`: the phase and the paths of `State` |
| `request` | `updater/request.json` |
| `main`, `wal` | the commits in `paylessforai.db` and those only in its write-ahead log |
| `taken`, `backup` | `updater/backups/<operation>/paylessforai.db`: does it exist, what does it hold |
| `run`, `op` | `currentPath` of `RunSupervisor`, `request` of `promoteCandidate` |
| `childPath`, `childStage`, `install` | the child process: its binary, how far it is, the build its `Install` works on |
| `used`, `promoted`, `failed`, `acked` | history, read by properties; `used` also stands for the random operation ids |

| actions | code |
|---|---|
| `Boot`, `Recover…` | `RunSupervisor` up to line 55, `recoverInterrupted`, `restoreDatabase` |
| `BootStaged`, `BootRun`, `StartChild` | the choice of a binary, the start of the loop |
| `ChildGone`, `ChildAskedForUpdate` | the end of the child |
| `CopyDatabase`, `VerifySnapshot`, `PreflightCandidate`, `RollbackFailure` | `promoteCandidate` before the candidate runs |
| `SpawnCandidate`, `JournalStarting`, `CandidateBecameReady`, `Promote`, `OpenGate`, `DropPromotedRequest`, `PromotedChildGone` | `promoteCandidate` from the spawn on |
| `BeginRollback`, `RollbackRestore`, `RollbackDropWal`, `FinishRollback`, `DropFailedRequest`, `RollbackFails` | `rollbackFailureWithRestore` |
| `ChildOpens`, `CandidateReady`, `ServiceIdle`, `InstallStages`, `InstallRequests`, `ExitForUpdate`, `ChildDies` | the application as the supervisor sees it |
| `Serve`, `Checkpoint`, `Crash`, `Terminate` | clients, SQLite, the machine, signals |

What the model abstracts:

* A **build** is one release directory; its identity stands for the operation id,
  for the path of the binary and for the migrations it brings.
* The **database** is a set of commits.  A commit goes to the write-ahead log;
  a checkpoint moves the log to the main file.  A migration is a commit named by
  the binary that ran it, a row is a commit a client was told about.  The rows a
  gated candidate writes by itself (its first catalog refresh) are not
  acknowledged to anybody and are left out.  An old binary opens a newer database,
  as `MigrateDatabase` does (it ignores migrations it does not know).
* The phases that only the application writes, except `staged`, are one phase,
  `idle`: the supervisor treats them alike.
* The supervisor's journal writes succeed.  One supervisor runs at a time
  (`SupervisorLock` says how far that holds).  A crash takes the supervisor and the
  child together.  Remote access is off.  The active binary exists (`os.Stat` at
  line 64).
* A signal during the preflight or the wait for readiness shows as
  `RollbackFailure` or `BeginRollback`, which is what the code does with a
  cancelled context, followed by `Terminate`.
* Two branches cannot be reached and have no action: the "incomplete updater
  journal" of `recoverInterrupted` (a journal in flight always names its backup
  and the previous binary, `OperationAt` and `CurrentTrusted` below) and a failing
  `readRequest` after exit code 75 (`RequestedExitHasRequest`).

### `AtomicUpgrade` and `UpdateRefinement`: what the supervisor promises

`AtomicUpgrade` is what a user may believe: there is an active binary and a
database, an upgrade replaces both at once or neither, and the application that
serves runs on that pair.  `UpdateRefinement` maps the supervisor's state to it.
While an update is in flight the abstract pair is the previous binary with the
snapshot; after the promotion is journaled it is the candidate with the live
database.  A half-done restore, with the candidate's log still beside the
restored file, therefore has to be invisible.

### `SupervisorLock`: one supervisor per data directory

`acquireLock` and the deferred removal in `RunSupervisor`, for any number of
processes.  `file` is who created `updater/lock`, `written` who has put a pid into
its file, `read[p]` what a later start saw of it, `place[p]` and `attempt[p]` where a
process is and in which pass of the loop.  The steps are the system calls:
`CreateLock`, `WriteLock`, `ReadLock` (or `ReadFails`), `JudgeStale` or `Refuse`,
`RemoveLock`, `ReleaseLock`; a process may die at any of them (`DieWithLock`).

`LockIsKept` says that two processes never both have the directory, and that a start
that meets nobody gets it whatever a crash left behind.  The first half has an
exception, kept as the history variable `raced`, for two windows of the code: the
file of a live process is read before its pid is in it, and a file is removed that is
not the one that was judged.  Two supervisors can then hold one directory.  What the
code says of the lock ("another PayLessForAI instance is already running") is not a
promise about these windows, so they are not listed as a finding.  With `Windows` a
lock that a crash left behind refuses every later start: the pid is not tried there.

### `RetryDecision` and `ProxyExecute`: how the proxy works through a plan

`RetryDecision` is `retry.Engine.Decide` as one operator.  `ProxyExecute` is the
rest of the way of a request once its plan is ranked: `resolveStructuredPlan`,
`ensureStructuredOutput`, `execute` and `executeTranslatedRoute`, for several
requests at once.  A step is what a request does between two points where another
one may come in: a look at shared state, the wait for a lock, an upstream call, a
backoff.

| variable | in the code |
|---|---|
| `req[q]` | the goroutine of a request: `current`, `retriesRemaining`, `totalAttempts`, `blocked`, the client, `candidates`, `formatKnown`, `formatFailure`, the class of `lastErr`, and where it is (`pc`) |
| `blocked[k]` | `Manager.blocked` of the catalog; `timed` has an end, `forever` is a nil time |
| `learned[r]`, `verdict[r]` | the wire format and the structured-output capability stored for a route (in the snapshot and in the database, written one after the other under the same lock) |
| `lock[r]` | `routeFormatLock` |
| `clients` | the configured credentials |
| `spent[q]` | history: what a request gave up for an exhausted quota |

| actions | code |
|---|---|
| `Arrive`, `BudgetSpent`, `PlanExhausted`, `AdmitDirectly` | the head of the loop, lines 453–480, 650–652 |
| `EnsureKnown`, `EnsureUnprobed`, `EnsureLocked`, `Probed` | `ensureStructuredOutput`, called by `resolveStructuredPlan` and by the loop |
| `SkipBlocked`, `NoClient`, `StartAttempt` | lines 498–529 |
| `LockFormat`, `CandidateUnusable`, `CallFails`, `Succeeds`, `Breaks` | `executeTranslatedRoute` |
| `DecideNext`, `WaitOver`, `ClientLeaves` | lines 543–580, `Decide`, `wait` |
| `Lapse`, `SetClients` | `ProviderBlocked` deleting an expired block, `Manager.SetClients` |

What the model abstracts:

* The plan is a constant; `Matcher` and `GroupPlan` say which plans there are.  A direct
  plan has no limit on its attempts, so plans longer than the budget are included.
* A reply succeeds, breaks after bytes reached the client, or fails with a class
  and with a verdict of `shouldTryNextFormat`.  The two are independent: the class
  comes from the body and the status, the verdict from the status alone.
* Time is left out: a timed block may lapse at any moment, a backoff ends or the
  client leaves during it.  A client that leaves during a call shows as a failed
  call, as in the code.
* When the credential of a route is gone, `ClientForRoute` serves it through
  another credential of the provider; which one is open.
* Learned formats and verdicts are stored in one step and these writes succeed;
  `Catalog` has the refreshes.  The run starts with nothing
  learned and nothing blocked.
* `decision.HealthEffect` is modelled in `RetryDecision` and, as in the code, not
  used by the proxy.  The loop for clients that cannot translate (581–649) is left
  out: every client the application builds translates.

### `UpdateService`: looking for updates and installing them

| variable | in the code |
|---|---|
| `published` | the newest build in the release channel |
| `journal`, `request`, `extracted` | `state.json`, `request.json`, the staging directories with a complete candidate |
| `running`, `app`, `supervising`, `trying` | the application that serves and the supervisor around it, reduced to what the service can see |
| `checking`, `installing`, `requested`, `available` | `Service`, under its mutex |
| `check`, `inst`, `ack` | the goroutines of `Check`, `Install` and `AcknowledgeWarning`: the place and the locals of each |
| `events` | the bound: publications, requests, faults and crashes so far |
| `good`, `failed`, `barred` | history: the version promoted last, those rolled back, and the one that nothing automatic may touch |

| actions | code |
|---|---|
| `CheckBegin`, `CheckRead`, `CheckMark`, `CheckFetch`, `CheckFetchFails`, `CheckQuarantined`, `CheckNothingNew`, `CheckForget`, `CheckOffer`, `CheckOffered`, `CheckRefused`, `CheckEnd` | `Check`, by the scheduler or a user, with the automatic install it may begin |
| `InstallBegin` … `InstallEnd`, `InstallStale`, `InstallFails`, `InstallJournalFails` | `Install` and `failInstall` |
| `AckRead`, `AckWrite` | `AcknowledgeWarning` |
| `BootSupervisor`, `StartApp`, `BeginPromotion`, `Promoted`, `RolledBack`, `ExitForUpdate` | what the supervisor does to the journal, the request and the application |
| `Publish`, `Crash` | the channel, the machine |

The journal is one record that three goroutines read, keep for a while and write back
whole, without a common lock: `check.prev`, `inst.current` and `ack.state` are these
copies.  Abstractions: a build is its version; the journal keeps the phase as far as
somebody reads it, the current and the quarantined version; an operation id is used
again only when nothing names it; a candidate behind the gate serves nobody and its
service is at rest; updates are enabled and the build is an official one.

### `Catalog`, `GroupStore` and `ControlPlane`

`Catalog` is a refresh against everything that may happen meanwhile.

| variable | in the code |
|---|---|
| `clients`, `routes`, `additions` | `Manager.clients`, `Manager.current` |
| `known`, `disk` | the models that were ever seen, in memory and in the settings table |
| `refresh` | the `Refresh` that holds `refreshMu` |
| `changed`, `baseline`, `offered` | history |

`BeginRefresh`, `Discover`/`DiscoverFails`, `Discovered`, `Record`/`RecordFails`,
`Publish`, `NothingNew`/`HookRuns` and `EndRefresh` are the stages of `Refresh`,
`SetClients`, `LearnFormat`, `ClearFormat` and `RestartCatalog` what interferes.

`GroupStore` has the tables, the cache that requests are routed by, and everybody who
changes them: editors (`OpenEditor`, `GetStages`, `Submit`, `SubmitNew`, `SaveGroup`,
`SaveRefused`, `DeleteGroup`), reloads (`ReloadReads`, `ReloadSwaps`, `ReloadFails`)
and the sync of discovered routes (`SyncBegin`, `SyncStages`, `SyncSave`,
`SyncConflict`, `SyncDone`).

| variable | in the code |
|---|---|
| `stored`, `deleted` | the tables of `RoutingGroupsRepository` |
| `cache` | `Manager.definitions` |
| `editor[w]` | a handler, from the page the user opens to the answer |
| `sync` | `IncludeDiscoveredRoutes` |
| `reload[p]` | a `Manager.Reload` and the list it read |
| `cachedAt`, `readAt`, `aborted`, `raced` | history: the age of lists, what failed, which saves crossed |

A query and a transaction are atomic; `Get` and `List` are two queries each.  Of a
group its revision and the enabled flag are kept, of its stages the groups they nest,
whether they follow a model's providers, and the sources they pin.

`ControlPlane` joins the two as `app/runtime` does: a refresh calls the sync under
`refreshMu` and waits for it.  Its initial state says what moves (`part`): the catalog
with the hook open, the groups with the batches open, or both joined.  The promise of
the joint part, `FollowersPinTheCatalog`, is that a group that followed new providers
all along pins every source the catalog ever announced, unless a sync failed; nothing
makes up for one that did.

### `Credentials`: provider keys and the clients made of them

| variable | in the code |
|---|---|
| `rows` | the table `provider_credentials` |
| `configured`, `blocked` | `Manager.clients` and `Manager.blocked` |
| `handler[h]` | a request to the control plane and what it holds: the list it read, its row |
| `calling[q]` | a request of the proxy on a credential, and the limit it ran into |
| `used`, `twins`, `unread`, `contradicted` | history |

Handlers look, talk to the provider and store (`BeginCreate`, `StoreCreated`,
`CreateFails`; likewise for updates and deletions), then read the list
(`LoadClients`) and exchange the clients (`ExchangeClients`), with no lock around the
two.  A call that exhausts a quota blocks the credential in memory (`Exhausted`) and
then marks the row (`MarkLimitedByID`, or `MarkFails` when its context is gone).
`Lapses` and `RestartCredentials` are time and the process.

`CredentialsAreFollowed` says that when nobody is at work the clients are those of the
table, a key is stored once, and a limit without an end is remembered by the row.  It
excepts what the code does not prevent, each as a history variable:

* A reload that read an older list may come last and bring back the client of a
  deleted key, until the next reload (`unread`); the refresh timer does not reload.  A
  list that cannot be read removes every client.
* Two overlapping creations store one key twice (`twins`), although README.md:135 says
  that a key "can only be configured once".
* Nothing calls `ClearExpired`; a change of the access mode resets the row but not the
  block in memory (`contradicted`).  `UpdateLabel` reloads nothing.

### `Sessions`: which conversation a request belongs to

`seen`, `keys` and `anchors` are the rows of `sessions` and `session_keys`; `Resolve`
is `ResolveAndRegister` with its cleanup (`Store` when it commits), `SendHeader` a
client that names its session, `Expire` the passing of the retention time.  A history
is a sequence of messages, a hash the prefix it is made of.  Which keys count as
recent is left open, because the times are compared as text.  `told` and `revived` are
history.

### `GroupPlan` and `Matcher`: which routes, in which order

Both are pure.  `GroupPlan` is `Compile` (recursion over nested stages, composition of
policies, limits) and `BuildGroup` (blocks of tries, repetitions, the budgets of
routes and attempts).  `visit` is a recursive function on the stages above a group
(`VisitGroup`, `Visited`); what it inherits and its prefix are computed from them
(`Inherited`, `TryKey`), and the groups it is in are theirs.  `PlanFollowsTheLadder`
compares the plan with a declarative reading (`Paths`, `Honours`, `RetriesSaid`): what a
ladder means, written without visiting, composing or joining anything.
`PlanHonoursEveryStage` is the statement of the README that TLC refutes.

`Matcher` is `Match` for one request over a set of routes: `Compatible` is
`rejectRoute`, `ExpectedCost` and `UsageCost` are the two estimates in words that wrap
around (`AddPart` is the guarded addition).  `Ranked` is the stable sort: it puts each of
the `Candidates` in its `Place`, behind those that precede it.  Which code a rejection
carries is left out.

### `StreamDelivery`: how an answer reaches the client

| variable | in the code |
|---|---|
| `client` | the request: its format, and whether it asks for a stream |
| `answer`, `body` | the answer in hand and the frames read of it |
| `decoder`, `writer` | `streamDecoder` and `StreamWriter` |
| `held` | events of an answer that is collected before it is passed on |
| `out` | what the client has been sent |
| `record` | the stored state of the request, the counted usage, the learned format |

`PumpFrame`, `PumpEnds`, `BreaksOff`, `PumpFails` and `FinalizeStream` pass a stream
on, `CollectFrame`, `CollectEnds`, `CollectFails`, `PassOnPart` and
`CompleteCollected` collect one for a client that wants no stream, `JsonReply`,
`JsonFails`, `StreamReply` and `CompleteReply` handle an answer in one piece;
`AskAnother` and `GiveUp` are the failover that is possible while nothing was written.
All nine pairs of formats are covered.  What is selected of a
sequence is `Picked` of `Subsequences`, with a set for the test.

`StreamsKeepFaith` has four parts: one answer only (`OneAnswerOnly`), its pieces in
order and once (`InOrderOnce`), an end only when it is whole (`EndsOnlyWhenWhole`), and
a record that says what was sent (`RecordIsTrue`).  Not claimed, because the code does
otherwise: a plain client whose write fails loses its usage and is recorded as failed;
a plain client of an SSE upstream in its own format gets SSE frames; a read error after
the terminal frame still makes the stream partial; a call that is announced together
with its arguments loses these.  Names of tools and tool calls in final snapshots are
left out, and so is `Proxy.stream`, which the application's clients do not use.

### `RemoteAccess`: generations of one node

| variable | in the code |
|---|---|
| `desired`, `status`, `generation`, `done` | `Manager`, under its mutex (`done` also stands for `cancel`) |
| `node`, `nodeHost`, `nodeStarted`, `closed` | the node the manager holds |
| `gens[g]`, `call[c]`, `shutdown` | the goroutines: generations, `Configure`/`Retry`, `Shutdown` |
| `running`, `serving` | the nodes that are started, the listeners that are open |
| `savedConfig`, `lastResult` | the settings |

A generation waits for the one before it, reads what is desired, stops, keeps or
replaces the node (`ReadDesired`, `StopNode`, `EnsureNode`, `CloseOld`, `NodeStarts`),
polls it (`PollAgain`, `PollRunning` …), opens its listeners (`ListenPrivate`,
`ListenPublic`, the `Funnel…` actions), serves (`Online`) until it is cancelled, closes
them, and saves its result (`SaveResult`) after the lock is released.
`ConfigureReads`, `ConfigureSaves` and `ConfigureSets` are one call.  The node answers
anything and any of its calls may fail.  A behaviour is one process and starts with
whatever a crash left in the settings.  `ForgetIdentity` is left out: it checks that
remote access is disabled and then deletes files.

## Runs

| run | question | instance | result |
|---|---|---|---|
| `supervisor_faults` | Does the journal always agree with what runs, and does every attempt end, when anything may crash and restores may fail? | 2 builds, 2 rows, faults and deaths everywhere, `FairSpec` | holds, 443 449 states |
| `supervisor_refines` | Is an update atomic, and does it keep stored rows? | 3 builds, 1 row, restores succeed, nothing dies between staging and the exit of the child | holds, 264 673 states |
| `supervisor_wal` | … and if something dies while an update is staged? | 2 builds, 1 row | `AckedRowsSurvive` is violated |
| `supervisor_stranded` | Is manual recovery asked for only after a restore failed? | same | violated |
| `supervisor_retried` | Is a quarantined build left alone? | same | violated |
| `supervisor_dropped` | Is every requested update tried? | same | violated |
| `proxy_contended` | Do requests that fight over one route keep to their budgets, get one answer each, and leave what others learned alone; do they all end? | 2 requests, 3 routes, 3 credentials, 2 formats, budget 3, `FairSpec` | holds, 117 748 states |
| `proxy_misread` | Is an account error ever taken as evidence about the format? | same | `AccountErrorsAreNoEvidence` is violated |
| `update_service` | Do checks, installs and acknowledgements that write one journal back leave the promoted build running, the failed one out, and every request whole; and does a published build reach the application? Does one supervisor have the directory? | 3 versions, 2 operations, 3 events, `ServiceFairness`; or 3 processes over the lock | holds, 315 875 states (57 923 of the lock) |
| `control_plane` | Do refreshes, edits, syncs and restarts leave catalog, groups and cache consistent; are credentials followed and conversations recognised; do plans, ranking and streams say what they promise? | seven parts that share no state, below | holds, 1 670 760 states |
| `group_overlap` | Does a plan honour the policy of every stage? | the ladders of `control_plane` | `PlanHonoursEveryStage` is violated |
| `remote_access` | Is there one node, does *online* mean served, does a shutdown leave nothing, is the last result the stored one, and does disabling take effect? | 3 configurations, 2 host names, 2 calls, `FairRemoteSpec` | holds, 631 649 states |

`control_plane` begins with a choice of what moves, since the parts share nothing and
one run starts faster than seven: `control` (`ControlPlane`, 1 089 058 states),
`sessions` (15 683), `handlers` and `limits` (`Credentials`, 131 600 and 22 057),
`plan` (12 672), `match` (69 312) and `stream` (330 378).  `update_service` does the
same with the service and the lock.  What two parts do have in common is composed:
catalog and groups in `ControlPlane`, supervisor and upgrade in `UpdateRefinement`.

What each property says is in the comment above it; the hazards in `PROJECT.json` say
which one it is for.

### Why these bounds are enough

The supervisor handles one operation at a time and never compares builds, so what
a promotion can do depends on the build that is active, the one being tried, and
at most one request or quarantine left over from before.  Two builds give the
active one, a candidate and a left-over; with three a second promotion can start
from an already promoted build after a failed one.  Rows are never compared
either: one row that is stored before or after a snapshot is enough to lose it, two
allow one to survive what the other does not.  Each build is installed once
(`used`): the code draws a random operation id for every install, so installing the
same version again is another element of `Builds`.  Crashes and restarts are not
bounded.

For the proxy, everything requests share is kept per route and per credential, so
two requests for one route meet in every way two can: one waits for the lock while
the other probes, learns, forgets, or blocks the credential.  The three routes are
the contended one, a second of the same credential (what a quota error must keep
the request from calling) and one whose credential is gone.  With two formats there
is a first candidate and a next one; the hint of the substitute account makes the
format known without having been learned.  The budget of 3 is below the 4 attempts
of the longer plan, so it runs out by retries, by failover and by candidates.  The
failures have one representative for each pair of answers of `shouldTryNextFormat`
and `Decide`: the other classes differ only in the delay or take the same branch.

For the lock, two processes meet over a file and a third left it behind.  A file is
judged by whether its creator is alive and by nothing else, and a start makes two
passes at most.

`update_service` has the bundled build, a newer one and one that is newer still: a
build can fail and another replace it.  Of the two staging directories one is named by
the request file while the other is being filled.  Three events are enough to
publish, fail and publish again, or to crash between an install and its promotion.

In `control_plane` two keys of one provider let a route come and go without its
provider being new, and two models let one be the baseline and the other be announced.
Two groups can nest each other, and the conflicts of the store are between two writers:
two editors, or an editor and the sync.  `MaxEdits = 2` is two saves that cross, or one
and what the other read before it.  Models, keys and editors are symmetric.  Sessions
have two messages and histories of two, so that one is the prefix of another, three ids
and one recent key, so that a key is pruned.  Credentials have two ids and keys, with
two handlers that overlap while nothing runs into a limit, or one handler and two
calls that do.  Ladders (12 672 of them) have two groups, up to two stages each, and
every kind of restriction on both levels; depth 2, 4 stages, 12 routes and 14 attempts
are limits that some of them exceed.  The matcher gets two routes of 38 kinds each and
24 requests: the order of a ranking is decided by pairs, and `MaxInt64 = 1023` is small
enough for sums and products to wrap.  A stream has four frames, enough for two pieces
of text or of one tool call, usage and an end, and two answers, of which one can fail.

In `remote_access` two calls and the start make three generations: one at work, one
cancelled, one that waits.  Each mode has a configuration, and two host names make a
node that has to be replaced.  The proofs cover every number of calls.

### Fairness

`UpdateSupervisor`'s `FairSpec` asks for weak fairness of the supervisor's own steps and of a child that
has started and not yet opened its database.  The supervisor is one thread that
waits only for its child and for timers: `waitReady` has a deadline of 30 seconds,
the stabilization timer is 3 seconds, and both are actions of the model
(`BeginRollback`, `Promote`).  A started child either opens the database or exits.
Nothing makes an operator start the supervisor again, a client write, or a release
appear: `Boot`, `Serve` and `InstallStages` have no fairness, nor has `Crash`.

`ProxyExecute`'s `FairSpec` asks for weak fairness of the steps a request takes by
itself.  It includes the end of a call and of a probe: a probe has a timeout of 15
seconds, and a call ends with the provider's reply, its failure or the disconnect of
the client, whose context it carries.  Taking a route's lock has strong fairness,
because other requests take it in between and `sync.Mutex` hands a contended lock
to the goroutine that has waited longest after a millisecond.  Clients need not
arrive or leave, blocks need not lapse and credentials need not change.

`UpdateService`'s `ServiceFairness`: the supervisor runs, and whoever runs it starts
it again when it is down (an assumption about the user; crashes are bounded by
`MaxEvents`), the scheduler's timer fires, HTTP requests end (the client has a timeout of
30 seconds), and goroutines run on.  Nobody need publish, ask or acknowledge.

`RemoteAccess`'s `RemoteFairness` asks that some generation and some call go on while
one can.  A node may be connecting for ever, which is why `DisableTakesEffect` is about
what a cancellation ends and not about getting online.

`control_plane` states no liveness: a refresh may wait for a provider for minutes, and
everything else there is done by users.

### Findings

* **A snapshot without the write-ahead log** (`supervisor_wal`).  When an update is
  resumed after the application was killed, the log still holds commits.
  `copyDatabase` copies the main file only.  If the candidate then fails, the
  restore puts that copy back and removes the log.
* **Manual recovery where nothing is broken** (`supervisor_stranded`).  The
  snapshot is journaled before it exists.  After a crash in between every start of
  the supervisor fails on the missing backup.
* **A quarantined build is promoted again** (`supervisor_retried`).
  `rollbackFailure` leaves `request.json` behind, and a later start that finds the
  phase `staged` reads it.
* **An update requested by a promoted child is dropped** (`supervisor_dropped`).
  `promoteCandidate` does not look at the exit code of the child it promoted.
* **A quota error is taken as evidence about the format** (`proxy_misread`).  The
  comment on `shouldTryNextFormat` excludes quota errors; the function looks at the
  status, and a reply whose body speaks of a quota may have the status 404, 422 or
  5xx.  The request is sent again in another format, and when that fails
  differently the exhausted credential is not blocked.
* **An empty intersection restricts nothing** (`group_overlap`).  `composePolicy`
  intersects the lists of a stage with those it inherits, and an empty list means no
  restriction.  A stage limited to free routes that nests a group of metered ones
  plans metered calls.

Without a run of their own, met while modelling:

* `BuildGroup` answers `group_price_limit_exceeded` only if every rejection is about a
  price or a policy (`plan.go:117-139`), but the snapshot it matches is the whole
  catalog: a route of any other model adds `wrong_model` and the answer becomes
  `no_eligible_route`.
* The races of credentials, above.
* The gate of a candidate is around the loopback handler only (`server.go:111`); remote
  access, when it is configured, does not pass through it.
* A supervisor that is killed leaves its child running; the next one can restore the
  database below it (`supervisor.go:87`).
* `ForgetIdentity` tests that remote access is disabled and deletes the files
  afterwards (`remoteaccess/manager.go:186`).
* Translations: an Anthropic `thinking` of any type, `disabled` included, becomes
  enabled and loses its budget; a user message with a `tool_result` becomes a chat
  message of role `user` with a `tool_call_id`; `text.format` of type `text` is refused
  by every encoder; a thinking block in a history is refused as `reasoning`.

## Proofs

TLAPS checks the following for every value of the constants.  Where a constant has an
assumption it gives the constant its type or says that two kinds of things are
different; the others are named below.  As a rule a property is not inductive: it
speaks of a state in which something is at rest and depends on what happened since the
work began.  The invariant of each module adds what connects the two.

| module | theorems | of |
|---|---|---|
| `UpdateSupervisorProofs` | `TypeCorrect`, `ActiveBinaryServes`, `SettledJournal`, `RequestOnExit`; `MigrationsArePromoted` if restores succeed (`~DiskFaults`); `SupervisorImplementsAtomicUpgrade` and `AckedRowsAreKept` if, besides, nothing dies between staging and the exit of the child (`~DiesWhileStaged`); `DirectoryIsHeldOnce` | `UpdateSupervisor`, `UpdateRefinement`, `SupervisorLock` |
| `ProxyExecuteProofs` | `TypeCorrect`, `Inductive`, `BudgetHolds`, `OneAnswer`, `NoRouteHidden`, `SpentKeyAvoided`, `FormatsStand`, `VerdictsStand`, `DecideIsBounded` | `ProxyExecute`, `RetryDecision` |
| `UpdateServiceProofs` | `ServiceTypeCorrect`, `WholeRequest`, `LastPromotedRuns`, `FailedStaysOut`, `NeverOlder` | `UpdateService` |
| `ControlPlaneProofs` | of the parts `GroupInvariant`, `GroupSafety`, `CatalogInvariant`, `CatalogTypeCorrect`, `NoRoutesOfRemovedClients`, `AnnouncedOnce`, `RefreshKeeps`; of both joined `ControlImplementsCatalog`, `FollowersPin` and every other property of `ControlPlane` that `control_plane` checks; `ClientsFollowCredentials`; `SessionsInvariant`, `OneSessionPerConversation` | `GroupStore`, `Catalog`, `ControlPlane`, `Credentials`, `Sessions` |
| `RoutingProofs` | `CostsAreExact`, `RankingsAreSound`, `PlansFollowTheirLadders` | `Matcher`, `GroupPlan` |
| `SubsequencesProofs` | lemmas: `Induction`, `SequenceInduction`, what `Picked` returns | `Subsequences` |
| `StreamDeliveryProofs` | `StreamIsInvariant`, `StreamsAreFaithful` | `StreamDelivery` |
| `RemoteAccessProofs` | `RemoteTypeCorrect`, `OneNode`, `OnlineServed`, `CleanShutdown`, `ResultSettles` | `RemoteAccess` |

Every safety property of a passing run is stated by a theorem.

### The supervisor

`SupervisorInv` ties the place in the code to the journal:

* `PhaseAt`: at each point of `promoteCandidate` the journal holds the phase that
  was written last.  A recovery that starts from a phase in flight therefore knows
  that a promotion was running.
* `OperationAt`: the operation in memory is the one in the journal, so a rollback
  and a recovery restore the same backup.
* `CurrentTrusted`: the journal names the bundled binary or a promoted one as
  current; in flight, the previous binary is the current one.
* `ChildAt`: a child runs the journal's current binary unless it is the candidate
  behind the gate.
* `InstallAt`: once a child asked for an update, the request is the one of its own
  install.

`SchemaInv` follows the database files: a build that was not promoted has migrated
them only while its own promotion is past the preflight, and never a backup.  A
restore that fails leaves such a migration in place while the journal settles,
which is why `MigrationsArePromoted` needs `~DiskFaults`.

For the refinement `UpgradeInv` says that an operation id has no backup before its
own promotion (`FreshOperation`), that the log is empty from the exit of the child
for an update to the snapshot (`StagedIsCheckpointed`), and that until the
candidate runs the snapshot and the database are the same (`SnapshotIsCurrent`).
`supervisor_wal` shows that the second fails without `~DiesWhileStaged`, and the
theorem with it.  `UpgradeStep` shows, one action at a time, that a step of the
supervisor is a step of `AtomicUpgrade` or changes nothing; only `Promote`,
`ChildOpens` and `Serve` change the abstract pair.

`LockInv` follows the lock file.  `HolderInv`: but for the two windows the file is the
holder's, a file without a pid belongs to a process that is gone, and what somebody is
about to remove belonged to one that ended.  `AloneInv`: a process that nobody disturbs
meets a file in its first pass only.

### The proxy

`ProxyExecuteProofs` covers every set of requests, routes, credentials and formats,
every plan and every budget; the assumptions only give the constants their types.  `ExecuteInv` consists of

* `RequestsInv`: what holds of each request alone.  The budget has a part for every
  point of the loop: below the limit when an entry is picked, and with room for all
  candidate formats while they are called.  `BudgetHolds`, `OneAnswer` and
  `NoRouteHidden` follow from it.
* `LockInv`: the lock of a route is held exactly by the request that calls or
  probes it.
* `FormatInv`: while a request calls a route whose format is learned, that format is
  its only candidate and no failure speaks against it.  It holds although others
  use the catalog meanwhile because only the holder of the lock changes `learned`
  for its route (`LockInv`); `FormatsStand` follows.
* `VerdictInv`: a probe runs only for a route without a verdict; `VerdictsStand`
  follows.
* `SpentInv`: a credential a request exhausted stays blocked until the block lapses,
  and the request does not have it in use; `SpentKeyAvoided` follows.

Each action has a lemma of its own; those that keep to themselves, take a lock,
release a lock or leave a route share `MovesOn`, `Ends`, `Acquires`, `Releases` and
`LeaveKeeps`.  `DecideIsBounded` is about the retry engine alone.

### The update service

`ServiceInv` is about copies.  `FollowsInv`: the journal and every copy of it that may
be written back name the binary that was promoted last, so it does not matter who
writes when.  `NewerInv`: everything on its way to the supervisor is newer than what
runs.  `ExtractedInv`: an install that goes on to the request file has extracted its
candidate, and none reuses the directory the request names.  `BarredInv`: while a
failed build is barred, the journal and every copy quarantine it, the channel publishes
nothing else, and nothing is on its way.

### Catalog, groups, control plane

`CatalogInv`: until a refresh has published, its keys are the configured clients and
the routes it started from are those published, formats aside (`RefreshHolds`); routes
of removed clients are gone unless the clients changed since; memory and disk agree on
what was announced (`HistoryInv`).

`GroupInv`: what somebody read of a group is what is stored, or it is *outdated*: its
revision is behind or its id deleted.  That is why a revision check is enough
(`NoLostUpdate`), why a reference that was validated still resolves, and, with the
lemmas about cycles (`CycleElsewhere`, `CycleThrough`), why a cycle among enabled groups
needs two saves that crossed.  `ReloadInv` dates lists: one read at a date is what is
stored while nothing changed since.

`ControlInv` adds the hook: every pair of provider and model in the catalog was offered
to it or is about to be (`OfferInv`), and every pair that was offered is pinned by the
groups that follow or is about to be (`PinInv`).  Restricted to the catalog's variables
the composition implements `Catalog` (`ControlImplementsCatalog`), which is how the
theorems about `Catalog` carry over.

### Credentials

`CredentialsInv`: a list that is waiting to become the clients, is not marked `old` and
has nobody `behind` it is the table's, unless somebody still has to read the table
(`ListsInv`); who is behind is waiting too, so that the one exchange that ends a series
of reloads either hands over the newest list or is known to be `old`.  A key that is
being added is not stored, nor added by another, unless it is in `twins` (`TwinsInv`);
what is about to be marked is blocked already (`MarksInv`).

### Costs and ranking

`CostsAreExact` is about the arithmetic of `matcher.go`, for every word size: a cost that
fits an int64 is computed exactly, one that does not is refused, whatever the quantities
and the prices are.  It rests on `PartsAreExact`, the same of one `add` in
`estimateParts`: the guard by division admits exactly the products that fit
(`QuotientBounds`), so nothing that was admitted wraps around (`WordsAreKept`).

`RankingsAreSound` adds the order, for every catalog and request.  `QueriesAssumption`
gives numbers their types (an int64 of any sign) and says that the ids of the routes
are different, as those of rows are.  Keys are compared field by field, which is a
strict total order (`LessIsTransitive`, `LessIsTotal`); since the id is part of the
key no two candidates have the same, so their ranks are different and every place from
the first to the last is taken (`RanksAreInOrder`, by counting).  Turning the catalog
around renames the candidates and leaves their keys, so it leaves the ranks
(`RanksAreRenamed`, `OrderDoesNotMatter`): without the id in the key it would not.
`OfficialPriceIsKept` is the percentage of the official price without its rounding,
`ChargesAreExact` what a finished request is charged, also for negative inputs.

### Plans

`PlansFollowTheirLadders` is about any groups, however many and however deep they nest;
the run varies two.  `PlanAssumption` says what `ValidateDefinition` lets through: a stage
has sources, one that nests has one, and limits and retries are not negative.  The
invariant is that the plan is `PlanOf(Compile(ladder))`; the work is in `PlanFollows`, what
these two compute:

* `FlattenSeq` is the last of the sequences joined so far (`FlattenJoins`), so it holds
  what its parts hold (`FlattenElements`), in order when they are (`FlattenInOrder`).
* A policy that is handed down sums up the stages above: it is within a price limit just
  when all of them are, lets through what all of them do, and retries as the first that
  says so (`InheritedSums`).  So the effective stages of a model stage keep what its path
  says (`ModelStagesKeep`), and one of them admits what every stage of the path lets
  through (`ModelStagesAdmit`).
* The depth bounds the recursion, so `visit` has a solution (`VisitedUnfolds`), and a
  visit depends only on those one stage deeper (`VisitLocal`).  By induction on the depth
  that is left a visit without an error flattens its group: `Flattens` says that its
  stages are of paths through the group, in their order, and that no path is left out
  (`StageFlattens`, `GroupFlattens`, `VisitedFlattens`).
* Every stage is in the block of one that starts it, blocks do not mix, and a cycle drops
  only what it already has, so no route is lost and the order stays (`BlocksCover`,
  `BlocksApart`, `OnceKeeps`, `EntriesFollow`).

That the plan has *only* routes that every stage of the path lets through is false, which
is what `group_overlap` shows; for the price limits it is true, and is part of the theorem.

### Sessions

`SessionsInv`: an id that was never used owns nothing, an anchor has one live owner, and
a live session that owns a key owns its anchor (`AnchorsDecide`).

### Remote access

`RemoteInv`: the generation that works found all before it over (`ChainInv`); a
shutdown goes on only when none works (`ShutdownInv`); what runs is the manager's node,
except while a generation replaces or starts it (`NodeInv`); listeners follow the place
of their generation (`ServingInv`); the last result is saved last (`ResultInv`).

### Streams

`StreamsAreFaithful` is about bodies of any length and any number of candidates; the run
stops at four frames and two answers.  `StreamInv` says for each step of an answer what
has gone out or is held:

* `DecoderInv`: the decoder knows whether the terminal frame was read, and how many
  of the arguments of a tool call it has passed on (`Follows`).
* `PumpInv`, `SettleInv`: while a stream is passed on, what was sent brings what was
  read, no more (`Passed`), and no event that ends it has gone out; after the last frame
  it ends as it should or is known to have failed.
* `CollectInv`: while an answer is collected nothing was sent, and what is held brings
  what was read.
* `WriterInv`: the text that the writer keeps for the terminal event is the text read.
* `PhaseInv`: nothing was written before a step at which another candidate may be asked.

A client that breaks off has taken the first of the frames that were sent, and the
beginning of what brings a text brings a beginning of it (`TakenBegins`, `TakenCount`).
What is read, sent and delivered are subsequences of each other, so the proof rests on
the lemmas about `Picked`: it is a homomorphism (`PickedConcat`), and a narrower selection of
a wider one is the narrower one (`PickedTwice`).

These are inductions over sequences.  The induction theorems of the library take a
predicate, which the provers cannot instantiate; `Induction` states the same with a set
in the place of the predicate, and follows from the well-foundedness of the finite
sets under inclusion (`FS_StrictSubsetOrderingWellFounded`, `WFMin`).  `SequenceInduction`
is what follows from it for sequences that are built by appending.

### Only model-checked

Liveness (`AttemptEnds`, `EveryRequestEnds`, `UpdatesReachTheApp`, `OperationsEnd`,
`DisableTakesEffect`) is out of the prover's reach.  Violations are TLC's.

## Not modelled, and why

* Generated database access (`internal/db/bob`): more than half of the lines of the
  repository's implementation, written by a generator from the schema.
* Request translation (`internal/wire` but for the streams): one request in, one out;
  no state and no order.  Its oddities are listed under *Findings*.
* Providers, statistics, pricing pages: HTTP clients and queries without state; what
  they return is an input of the modules that call them.
* Verification of manifests and artifacts, secrets, identifiers: cryptography and
  I/O.
* Network settings: sequential start-up code; whether the port is still free later is
  up to the operating system.
* `ForgetIdentity`; a supervisor that dies without its child; two supervisors that both
  hold one directory; supervisor journal writes that fail.
* The rejection codes of the matcher, the fields that `ValidateDefinition` checks, the
  preview of a group, slugs.
* Web assets, the mock provider.

## What could come next

A supervisor that leaves its child behind, composed with recovery; `ProxyExecute` over
`Catalog` instead of a fixed snapshot.
