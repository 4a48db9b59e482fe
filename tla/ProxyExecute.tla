---------------------------- MODULE ProxyExecute ----------------------------
(***************************************************************************)
(* How the proxy executes a resolved plan, internal/proxy/proxy.go:        *)
(* resolveStructuredPlan, ensureStructuredOutput, execute and              *)
(* executeTranslatedRoute, for several client requests at once.  They      *)
(* share the learned wire format and structured-output verdict of every    *)
(* route (kept in the catalog snapshot and in the database, here one       *)
(* variable each), the per-route format lock, the blocked credentials and  *)
(* the list of configured clients.                                         *)
(*                                                                         *)
(* Abstractions:                                                           *)
(*  - a plan is given: matching and ranking happen before execution;       *)
(*  - a reply of a provider is one of Succeeds, Breaks and CallFails; what *)
(*    was observed of usage and cost and what is recorded is left out;     *)
(*  - time is left out: a timed block may lapse at any moment, a backoff   *)
(*    may end or the client may leave during it;                           *)
(*  - writes of a learned format or verdict succeed; catalog refreshes,    *)
(*    which replace the snapshot, are not part of this module;             *)
(*  - the path for clients that cannot translate (581-649) is left out:    *)
(*    every client the application builds translates.                      *)
(***************************************************************************)
EXTENDS RetryDecision, Sequences

CONSTANTS
    Requests,            \* client requests
    Routes,              \* provider routes
    Keys,                \* execution keys: one per provider credential
    Formats,             \* wire formats
    NoFormat,            \* wire.FormatUnknown
    NoKey,               \* no client looked up yet
    Free,                \* the holder of an unlocked route
    Plan,                \* Plan[q]: the ranked entries of a request's plan
    FormatOrder,         \* FormatOrder[q]: all formats, the client's own first
    Unusable,            \* <<q, f>>: request q cannot be encoded or prepared in format f
    Structured,          \* requests that require structured output
    DeclaresStructured,  \* routes whose catalog entry declares structured output
    KeyOf,               \* KeyOf[r]: the credential a route belongs to
    ProviderOf,          \* ProviderOf[k]: the provider of a credential
    Hint,                \* Hint[k]: the format hinted by the credential's endpoint, or NoFormat
    ClientSets,          \* the sets of credentials that may be configured
    Failures,            \* [class, evidence]: how a call can fail, and whether shouldTryNextFormat
                         \* takes the failure as evidence about the format
    MaximumAttempts      \* routing.DefaultLimits().MaximumAttempts

Entries == [route : Routes, retries : Nat]
FailureKinds == [class : ErrorClasses \ {"cancelled"}, evidence : BOOLEAN]

ASSUME BudgetAssumption == MaximumAttempts \in Nat \ {0}
ASSUME PlanAssumption == Plan \in [Requests -> Seq(Entries)]
ASSUME FormatAssumption == /\ NoFormat \notin Formats
                           /\ FormatOrder \in [Requests -> Seq(Formats) \ {<<>>}]
                           /\ Hint \in [Keys -> Formats \cup {NoFormat}]
ASSUME LockAssumption == Free \notin Requests
ASSUME KeyAssumption == /\ KeyOf \in [Routes -> Keys]
                        /\ ClientSets \subseteq SUBSET Keys
                        /\ ClientSets # {}
ASSUME FailureAssumption == Failures \subseteq FailureKinds

VARIABLES
    req,       \* req[q]: the local variables of the goroutine that serves request q
    blocked,   \* blocked[k]: Manager.blocked of a credential
    learned,   \* learned[r]: the format learned for a route
    verdict,   \* verdict[r]: the outcome of the route's structured-output probe
    lock,      \* lock[r]: the request that holds routeFormatLock(r)
    clients,   \* the configured credentials
    spent      \* spent[q]: history, the credentials q gave up for an exhausted quota and whose
               \* block has not lapsed since

shared == <<blocked, learned, verdict, lock, clients, spent>>
vars == <<req, shared>>

PCs == {"idle", "pick", "ensure", "probing", "admit", "attempt", "calling", "decide", "waiting",
        "done"}
Outcomes == {"none", "answered", "partial", "failed", "limited", "no_route", "cancelled",
             "unencodable"}

RequestStates ==
    [pc : PCs,
     cursor : Nat \ {0},        \* current + 1
     certified : Nat,           \* the entry resolveStructuredPlan settled on, 0 before
     retries : Int,             \* retriesRemaining, -1 on a new entry
     total : Nat,               \* totalAttempts
     limited : BOOLEAN,         \* blocked
     key : Keys \cup {NoKey},    \* the credential of the client in use
     formats : Seq(Formats),    \* candidates
     known : BOOLEAN,           \* formatKnown
     cand : Nat,                \* the candidate being tried, which is also attemptsUsed
     misfit : BOOLEAN,          \* formatFailure
     error : ErrorClasses \ {"cancelled"},  \* the class of lastErr
     answers : Nat,             \* response bodies begun towards the client
     outcome : Outcomes]

NewRequest == [pc |-> "idle", cursor |-> 1, certified |-> 0, retries |-> -1, total |-> 0,
               limited |-> FALSE, key |-> NoKey, formats |-> <<>>, known |-> FALSE, cand |-> 0,
               misfit |-> FALSE, error |-> "unknown", answers |-> 0, outcome |-> "none"]

Init ==
    /\ req = [q \in Requests |-> NewRequest]
    /\ blocked = [k \in Keys |-> "no"]
    /\ learned = [r \in Routes |-> NoFormat]
    /\ verdict = [r \in Routes |-> "unknown"]
    /\ lock = [r \in Routes |-> Free]
    /\ clients \in ClientSets
    /\ spent = [q \in Requests |-> {}]

-----------------------------------------------------------------------------
(* What the steps are built from. *)

At(q, pc) == req[q].pc = pc
Becomes(q, rec) == req' = [req EXCEPT ![q] = rec]
Goto(q, pc) == Becomes(q, [req[q] EXCEPT !.pc = pc])
InPlan(q) == req[q].cursor <= Len(Plan[q])
Entry(q) == Plan[q][req[q].cursor]
RouteOf(q) == Entry(q).route

(* ClientForRoute: the route's own credential, or any other of its provider. *)
ClientsFor(r) ==
    IF KeyOf[r] \in clients THEN {KeyOf[r]}
    ELSE {k \in clients : ProviderOf[k] = ProviderOf[KeyOf[r]]}

(* Advance to the next entry of the plan. *)
NextEntry(rec) == [rec EXCEPT !.cursor = @ + 1, !.retries = -1, !.pc = "pick"]

(* The entry may serve the request: the first one that may ends the         *)
(* resolution of the plan and begins its execution.                         *)
Admit(rec) == [rec EXCEPT !.pc = "admit",
                          !.certified = IF @ = 0 THEN rec.cursor ELSE @]

Finish(rec, outcome) == [rec EXCEPT !.pc = "done", !.outcome = outcome,
                                    !.answers = @ + (IF outcome = "cancelled" THEN 0 ELSE 1)]

NeedsVerdict(q) ==
    /\ q \in Structured
    /\ req[q].cursor # req[q].certified
    /\ RouteOf(q) \notin DeclaresStructured

-----------------------------------------------------------------------------
(* The head of the loop: resolveStructuredPlan and execute, 208-238, 463-498. *)

Arrive(q) ==
    /\ At(q, "idle")
    /\ Goto(q, "pick")
    /\ UNCHANGED shared

BudgetSpent(q) ==
    /\ At(q, "pick")
    /\ req[q].total >= MaximumAttempts
    /\ Becomes(q, Finish(req[q], "failed"))
    /\ UNCHANGED shared

Picks(q) == At(q, "pick") /\ req[q].total < MaximumAttempts

PlanExhausted(q) ==
    /\ Picks(q) /\ ~InPlan(q)
    /\ Becomes(q, Finish(req[q], IF req[q].certified = 0 THEN "no_route"
                                 ELSE IF req[q].limited THEN "limited" ELSE "failed"))
    /\ UNCHANGED shared

AdmitDirectly(q) ==
    /\ Picks(q) /\ InPlan(q) /\ ~NeedsVerdict(q)
    /\ Becomes(q, Admit(req[q]))
    /\ UNCHANGED shared

AfterVerdict(q, v) == Becomes(q, IF v = "yes" THEN Admit(req[q]) ELSE NextEntry(req[q]))

EnsureKnown(q) ==
    /\ Picks(q) /\ InPlan(q) /\ NeedsVerdict(q)
    /\ verdict[RouteOf(q)] # "unknown"
    /\ AfterVerdict(q, verdict[RouteOf(q)])
    /\ UNCHANGED shared

EnsureUnprobed(q) ==
    /\ Picks(q) /\ InPlan(q) /\ NeedsVerdict(q)
    /\ verdict[RouteOf(q)] = "unknown"
    /\ IF ClientsFor(RouteOf(q)) = {} THEN Becomes(q, NextEntry(req[q])) ELSE Goto(q, "ensure")
    /\ UNCHANGED shared

(* routeFormatLock: one mutex per route, shared by probes and calls. *)
NoExclusion(q) == TRUE                                          \* mutant: a new mutex each time
LockAvailable(q) == lock[RouteOf(q)] = Free

(* mutant: probes without looking whether the route was probed meanwhile *)
EnsureLockedBlindly(q) ==
    /\ At(q, "ensure")
    /\ LockAvailable(q)
    /\ Goto(q, "probing")
    /\ lock' = [lock EXCEPT ![RouteOf(q)] = q]
    /\ UNCHANGED <<blocked, learned, verdict, clients, spent>>

(* Another request may have finished the probe while this one waited. *)
EnsureLocked(q) ==
    /\ At(q, "ensure")
    /\ LockAvailable(q)
    /\ IF verdict[RouteOf(q)] # "unknown"
       THEN /\ AfterVerdict(q, verdict[RouteOf(q)])
            /\ UNCHANGED lock
       ELSE /\ Goto(q, "probing")
            /\ lock' = [lock EXCEPT ![RouteOf(q)] = q]
    /\ UNCHANGED <<blocked, learned, verdict, clients, spent>>

(* The probe's verdict is stored; a probe that failed settles nothing. *)
Probed(q) ==
    /\ At(q, "probing")
    /\ \E v \in {"yes", "no", "unknown"} :
          /\ verdict' = [verdict EXCEPT ![RouteOf(q)] = IF v = "unknown" THEN @ ELSE v]
          /\ AfterVerdict(q, v)
    /\ lock' = [lock EXCEPT ![RouteOf(q)] = Free]
    /\ UNCHANGED <<blocked, learned, clients, spent>>

-----------------------------------------------------------------------------
(* Admission of an entry, 498-528. *)

SkipBlocked(q) ==
    /\ At(q, "admit")
    /\ blocked[KeyOf[RouteOf(q)]] # "no"
    /\ Becomes(q, [NextEntry(req[q]) EXCEPT !.limited = TRUE])
    /\ UNCHANGED shared

NoClient(q) ==
    /\ At(q, "admit")
    /\ blocked[KeyOf[RouteOf(q)]] = "no"
    /\ ClientsFor(RouteOf(q)) = {}
    /\ Becomes(q, [NextEntry(req[q]) EXCEPT !.total = @ + 1])
    /\ UNCHANGED shared

StartAttempt(q) ==
    /\ At(q, "admit")
    /\ blocked[KeyOf[RouteOf(q)]] = "no"
    /\ \E k \in ClientsFor(RouteOf(q)) :
          Becomes(q, [req[q] EXCEPT !.pc = "attempt", !.key = k, !.total = @ + 1,
                                    !.retries = IF @ < 0 THEN Entry(q).retries ELSE @])
    /\ UNCHANGED shared

-----------------------------------------------------------------------------
(* executeTranslatedRoute, 654-787: the route's lock is held throughout. *)

KnownFormat(q) ==
    IF learned[RouteOf(q)] # NoFormat THEN learned[RouteOf(q)] ELSE Hint[req[q].key]

(* How many candidates the budget still allows. *)
RoomForAll(q) == Len(FormatOrder[q])                            \* mutant: no truncation
Room(q) == MaximumAttempts - req[q].total + 1

CandidateFormats(q) ==
    IF KnownFormat(q) # NoFormat THEN <<KnownFormat(q)>>
    ELSE SubSeq(FormatOrder[q], 1, IF Len(FormatOrder[q]) > Room(q) THEN Room(q)
                                   ELSE Len(FormatOrder[q]))

LockFormat(q) ==
    /\ At(q, "attempt")
    /\ LockAvailable(q)
    /\ lock' = [lock EXCEPT ![RouteOf(q)] = q]
    /\ Becomes(q, [req[q] EXCEPT !.pc = "calling", !.known = KnownFormat(q) # NoFormat,
                                 !.formats = CandidateFormats(q), !.cand = 1,
                                 !.misfit = FALSE])
    /\ UNCHANGED <<blocked, learned, verdict, clients, spent>>

Candidate(q) == req[q].formats[req[q].cand]
CanCall(q) == At(q, "calling") /\ <<q, Candidate(q)>> \notin Unusable

(* mutant: returns without unlocking *)
LeaveLocked(q, rec) ==
    /\ Becomes(q, [rec EXCEPT !.total = @ + rec.cand - 1])
    /\ UNCHANGED lock

(* Leave the route: what its candidates used counts against the budget. *)
Leave(q, rec) ==
    /\ Becomes(q, [rec EXCEPT !.total = @ + rec.cand - 1])
    /\ lock' = [lock EXCEPT ![RouteOf(q)] = Free]

(* The candidate failed: try the next one, or give the route up and forget  *)
(* its format if a failure spoke against it.                                *)
CandidateFailed(q, rec, tryNext) ==
    IF tryNext /\ rec.cand < Len(rec.formats)
    THEN /\ Becomes(q, [rec EXCEPT !.cand = @ + 1])
         /\ UNCHANGED <<learned, lock>>
    ELSE /\ Leave(q, [rec EXCEPT !.pc = "decide"])
         /\ learned' = IF rec.misfit THEN [learned EXCEPT ![RouteOf(q)] = NoFormat] ELSE learned

CandidateUnusable(q) ==
    /\ At(q, "calling") /\ <<q, Candidate(q)>> \in Unusable
    /\ CandidateFailed(q, [req[q] EXCEPT !.error = "transport"], TRUE)
    /\ UNCHANGED <<blocked, verdict, clients, spent>>

TriesNextFormat(q, f) == ~req[q].known /\ f.evidence

CallFails(q) ==
    /\ CanCall(q)
    /\ \E f \in Failures :
          CandidateFailed(q, [req[q] EXCEPT !.error = f.class,
                                            !.misfit = @ \/ TriesNextFormat(q, f)],
                          TriesNextFormat(q, f))
    /\ UNCHANGED <<blocked, verdict, clients, spent>>

LearnFormat(q) == learned' = [learned EXCEPT ![RouteOf(q)] = Candidate(q)]

(* A valid response in full; or one that cannot be re-encoded for the       *)
(* client, which is answered with an error.                                 *)
Succeeds(q) ==
    /\ CanCall(q)
    /\ \E outcome \in {"answered", "unencodable"} : Leave(q, Finish(req[q], outcome))
    /\ LearnFormat(q)
    /\ UNCHANGED <<blocked, verdict, clients, spent>>

(* The stream breaks after bytes reached the client; a buffered response    *)
(* was valid, and its format is learned, before it is replayed.             *)
Breaks(q) ==
    /\ CanCall(q)
    /\ Leave(q, Finish(req[q], "partial"))
    /\ LearnFormat(q) \/ UNCHANGED learned
    /\ UNCHANGED <<blocked, verdict, clients, spent>>

-----------------------------------------------------------------------------
(* The verdict on a failed route, 543-580. *)

EntriesLeft(q) == Len(Plan[q]) - req[q].cursor

Decided(q) ==
    Decide([class |-> req[q].error, delivery |-> "nothing_sent", planMode |-> TRUE,
            maximum |-> MaximumAttempts, attempt |-> req[q].total, sameRoute |-> TRUE,
            fallbacks |-> EntriesLeft(q), retries |-> req[q].retries, entries |-> EntriesLeft(q),
            budget |-> MaximumAttempts - req[q].total, deadlinePassed |-> FALSE,
            delayTooLong |-> FALSE]).action

(* A terminal decision must not hide the routes later in the plan. *)
Overridden(q) ==
    /\ Decided(q) \notin {"retry_same_route", "fail_over"}
    /\ EntriesLeft(q) > 0
    /\ req[q].error # "cancelled"

ActionAsDecided(q) == Decided(q)                                \* mutant: no override
Action(q) == IF Overridden(q) THEN "fail_over" ELSE Decided(q)

(* Only a decision of the retry engine on a transient error has a delay. *)
Pause(q) == IF Overridden(q) \/ req[q].error = "quota_exhausted" THEN "pick" ELSE "waiting"

(* mutant: only blocks a credential whose reset time is known *)
BlockKeyUntilReset(q) ==
    IF req[q].error # "quota_exhausted" THEN UNCHANGED <<blocked, spent>>
    ELSE /\ \/ blocked' = [blocked EXCEPT ![KeyOf[RouteOf(q)]] = "timed"]
            \/ UNCHANGED blocked
         /\ spent' = IF req[q].key = KeyOf[RouteOf(q)]
                     THEN [spent EXCEPT ![q] = @ \cup {req[q].key}] ELSE spent

BlockKey(q) ==
    IF req[q].error # "quota_exhausted" THEN UNCHANGED <<blocked, spent>>
    ELSE /\ \E until \in {"timed", "forever"} :
               blocked' = [blocked EXCEPT ![KeyOf[RouteOf(q)]] = until]
         /\ spent' = IF req[q].key = KeyOf[RouteOf(q)]
                     THEN [spent EXCEPT ![q] = @ \cup {req[q].key}] ELSE spent

Settle(q, rec) ==
    CASE Action(q) = "fail_over" -> [NextEntry(rec) EXCEPT !.pc = Pause(q)]
      [] Action(q) = "retry_same_route" ->
            [rec EXCEPT !.pc = Pause(q), !.retries = IF @ > 0 THEN @ - 1 ELSE @]
      [] OTHER -> Finish(rec, "failed")

DecideNext(q) ==
    /\ At(q, "decide")
    /\ BlockKey(q)
    /\ Becomes(q, Settle(q, [req[q] EXCEPT !.limited = @ \/ req[q].error = "quota_exhausted"]))
    /\ UNCHANGED <<learned, verdict, lock, clients>>

WaitOver(q) ==
    /\ At(q, "waiting")
    /\ Goto(q, "pick")
    /\ UNCHANGED shared

ClientLeaves(q) ==
    /\ At(q, "waiting")
    /\ Becomes(q, Finish(req[q], "cancelled"))
    /\ UNCHANGED shared

-----------------------------------------------------------------------------
(* The surroundings: a timed block lapses, credentials are added or removed. *)

Lapse(k) ==
    /\ blocked[k] = "timed"
    /\ blocked' = [blocked EXCEPT ![k] = "no"]
    /\ spent' = [q \in Requests |-> spent[q] \ {k}]
    /\ UNCHANGED <<req, learned, verdict, lock, clients>>

SetClients(K) ==
    /\ K # clients
    /\ clients' = K
    /\ UNCHANGED <<req, blocked, learned, verdict, lock, spent>>

Next ==
    \/ \E q \in Requests :
          \/ Arrive(q) \/ BudgetSpent(q) \/ PlanExhausted(q) \/ AdmitDirectly(q)
          \/ EnsureKnown(q) \/ EnsureUnprobed(q) \/ EnsureLocked(q) \/ Probed(q)
          \/ SkipBlocked(q) \/ NoClient(q) \/ StartAttempt(q) \/ LockFormat(q)
          \/ CandidateUnusable(q) \/ CallFails(q) \/ Succeeds(q) \/ Breaks(q)
          \/ DecideNext(q) \/ WaitOver(q) \/ ClientLeaves(q)
    \/ \E k \in Keys : Lapse(k)
    \/ \E K \in ClientSets : SetClients(K)

Spec == Init /\ [][Next]_vars

(* The goroutine of a request runs; a provider's reply, its failure or the  *)
(* disconnect of the client ends every call and probe; sync.Mutex hands a   *)
(* lock that is released again and again to every waiter in the end.        *)
Proceed(q) ==
    \/ BudgetSpent(q) \/ PlanExhausted(q) \/ AdmitDirectly(q)
    \/ EnsureKnown(q) \/ EnsureUnprobed(q) \/ Probed(q)
    \/ SkipBlocked(q) \/ NoClient(q) \/ StartAttempt(q)
    \/ CandidateUnusable(q) \/ CallFails(q) \/ Succeeds(q) \/ Breaks(q)
    \/ DecideNext(q) \/ WaitOver(q)

FairSpec ==
    /\ Spec
    /\ \A q \in Requests : /\ WF_vars(Proceed(q))
                           /\ SF_vars(EnsureLocked(q))
                           /\ SF_vars(LockFormat(q))

-----------------------------------------------------------------------------
(* Properties. *)

Types ==
    /\ req \in [Requests -> RequestStates]
    /\ blocked \in [Keys -> {"no", "timed", "forever"}]
    /\ learned \in [Routes -> Formats \cup {NoFormat}]
    /\ verdict \in [Routes -> {"unknown", "yes", "no"}]
    /\ lock \in [Routes -> Requests \cup {Free}]
    /\ clients \in ClientSets
    /\ spent \in [Requests -> SUBSET Keys]

(* The types, and the two indexes execute and executeTranslatedRoute use    *)
(* without a check of their own: the entry of the plan a request works on   *)
(* and the candidate format it tries both exist (proxy.go:463, 690).        *)
TypeOK ==
    /\ Types
    /\ \A q \in Requests :
          /\ req[q].pc \in {"ensure", "probing", "admit", "attempt", "calling", "decide"}
                => InPlan(q)
          /\ req[q].pc = "calling" => req[q].cand \in 1..Len(req[q].formats)

(* The attempt budget holds across same-route retries, failovers and the    *)
(* candidate formats tried within one attempt: no upstream call for a       *)
(* request is its 33rd (proxy.go:462, 684).                                 *)
AttemptsBounded ==
    \A q \in Requests :
        req[q].pc = "calling" => req[q].total + req[q].cand - 1 <= MaximumAttempts

(* Every request that ends is answered exactly once, and nothing is tried   *)
(* again after response bytes went out (README.md:223, proxy.go:166).  Only *)
(* a client that left while its request was waiting gets no answer.         *)
AnsweredOnce ==
    \A q \in Requests :
        req[q].answers = (IF req[q].outcome \in {"none", "cancelled"} THEN 0 ELSE 1)

(* No provider error hides a route later in the plan: a request fails only  *)
(* at the last entry or with its budget used up (README.md:220,             *)
(* proxy.go:628).                                                           *)
FailsOnlyWhenSpent ==
    \A q \in Requests :
        req[q].outcome \in {"failed", "limited"} =>
            \/ req[q].cursor >= Len(Plan[q])
            \/ req[q].total >= MaximumAttempts

(* Whatever other requests do meanwhile, a request that gave a credential   *)
(* up because its quota is exhausted does not call it again, through any    *)
(* route of that credential, before the block has lapsed (proxy.go:502,     *)
(* 546-560).                                                                *)
OwnKeyRespected ==
    \A q \in Requests :
        req[q].pc = "calling" /\ req[q].key = KeyOf[RouteOf(q)] => req[q].key \notin spent[q]

(* A format that was learned from a valid response is not forgotten or      *)
(* replaced because a concurrent request for the same route fails           *)
(* (proxy.go:655, 778).                                                     *)
FormatsAreKept ==
    [][\A r \in Routes : learned[r] # NoFormat => learned'[r] = learned[r]]_vars

(* A route is probed for structured output until one probe settles it, and  *)
(* the stored verdict is not overwritten by a request that had been waiting *)
(* to probe the same route (proxy.go:262).                                  *)
ProbeVerdictStands ==
    [][\A r \in Routes : verdict[r] # "unknown" => verdict'[r] = verdict[r]]_vars

(* What the comment on shouldTryNextFormat says (proxy.go:838-841): an      *)
(* authentication, billing, quota or timeout error is not evidence about    *)
(* the format and triggers no extra request in another one.                 *)
AccountErrorsAreNoEvidence ==
    [][\A q \in Requests :
          /\ At(q, "calling") /\ req'[q].pc = "calling"
          /\ req'[q].cand # req[q].cand
          => req'[q].error \notin {"authentication", "payment_required", "quota_exhausted",
                                   "timeout"}]_vars

(* Every request that arrived ends, however routes, formats, credentials    *)
(* and locks are contended.                                                 *)
EveryRequestEnds == \A q \in Requests : At(q, "pick") ~> At(q, "done")
=============================================================================
