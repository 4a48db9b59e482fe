------------------------------- MODULE Catalog -------------------------------
(***************************************************************************)
(* The catalog of internal/catalog: which models the configured providers  *)
(* offer, over which routes, and which of them are news.  Refresh asks     *)
(* every client, keeps the routes of the clients that failed, carries the  *)
(* learned wire formats over, records the discovered models durably,       *)
(* publishes the new snapshot and hands the new routes to a hook.  While   *)
(* it runs, requests learn and clear formats of the published snapshot and *)
(* the control plane may want to exchange the clients.                     *)
(*                                                                         *)
(* Abstractions.                                                           *)
(*  - A client is its execution key (one per stored credential); two keys  *)
(*    may belong to one provider.  A route is a key and a model.           *)
(*  - Of a route the wire format is kept, the fact that requests learn and *)
(*    a refresh carries over; discovery reports none (HintFormat applies   *)
(*    to custom endpoints).  The structured-output verdict is left out.    *)
(*  - The providers answer anything: a set of models or an error.          *)
(***************************************************************************)
EXTENDS Naturals, Functions

CONSTANTS
    Keys,          \* the execution keys
    Models,        \* the logical models
    Formats,       \* the wire formats a route may be found to speak
    Unknown,       \* FormatUnknown
    ProviderOf     \* [Keys -> providers]

ASSUME CatalogConstants == Unknown \notin Formats

Ids == Keys \X Models
KeyOf(id) == id[1]
ModelOf(id) == id[2]
NoRoutes == [id \in {} |-> Unknown]

(* routeProviderModelKey: what makes a route new to the hook. *)
PairOf(id) == <<ProviderOf[KeyOf(id)], ModelOf(id)>>
Pairs(routes) == {PairOf(id) : id \in DOMAIN routes}

RefreshLabels == {"idle", "discover", "record", "publish", "hook", "end"}

VARIABLES
    clients,     \* Manager.clients: the configured keys
    routes,      \* Manager.current.Routes: the format of every route
    known,       \* Manager.known, in a set: {} is nil, the baseline is not taken
    additions,   \* Manager.current.Additions: how often each model is in it
    disk,        \* the discovery state in the settings table
    refresh,     \* the Refresh that holds refreshMu
    changed,     \* history: SetClients came after the last published refresh began
    baseline,    \* history: the models of the first discovery, in a set
    offered      \* history: pairs given to the hook since this process started

learned == <<known, additions, disk, baseline>>
catalogVars == <<clients, routes, known, additions, disk, refresh, changed, baseline, offered>>

NoAdditions == [m \in Models |-> 0]
AtRest == [pc |-> "idle", prev |-> NoRoutes, keys |-> {}, found |-> [k \in {} |-> {}],
           failed |-> {}]

CatalogInit ==
    /\ clients = {} /\ routes = NoRoutes
    /\ known = {} /\ additions = NoAdditions /\ disk = [known |-> {}, additions |-> NoAdditions]
    /\ refresh = AtRest
    /\ changed = FALSE /\ baseline = {} /\ offered = {}

-----------------------------------------------------------------------------
(* SetClients takes refreshMu, so it waits for the refresh that is running. *)
SetClients(keys) ==
    /\ refresh.pc = "idle"
    /\ keys # clients
    /\ clients' = keys
    /\ changed' = TRUE
    /\ UNCHANGED <<routes, refresh, offered, learned>>

BeginRefresh ==
    /\ refresh.pc = "idle"
    /\ refresh' = [pc |-> "discover", prev |-> routes, keys |-> clients,
                   found |-> AtRest.found, failed |-> {}]
    /\ UNCHANGED <<clients, routes, changed, offered, learned>>

(* Mutant of Asked: a client whose discovery failed is asked again. *)
AskedWell == DOMAIN refresh.found

Asked == DOMAIN refresh.found \cup refresh.failed

Discover(k, models) ==
    /\ refresh.pc = "discover" /\ k \in refresh.keys \ Asked
    /\ refresh' = [refresh EXCEPT !.found =
           [c \in DOMAIN @ \cup {k} |-> IF c = k THEN models ELSE @[c]]]
    /\ UNCHANGED <<clients, routes, changed, offered, learned>>

DiscoverFails(k) ==
    /\ refresh.pc = "discover" /\ k \in refresh.keys \ Asked
    /\ refresh' = [refresh EXCEPT !.failed = @ \cup {k}]
    /\ UNCHANGED <<clients, routes, changed, offered, learned>>

Discovered ==
    /\ refresh.pc = "discover" /\ refresh.keys = Asked
    /\ refresh' = [refresh EXCEPT !.pc = "record"]
    /\ UNCHANGED <<clients, routes, changed, offered, learned>>

(* Mutant of Kept: any failure keeps every old route, also of a removed client. *)
KeptAny(r) == IF r.failed = {} THEN {} ELSE DOMAIN r.prev

(* Routes of the clients that failed survive; those of removed clients do not. *)
Kept(r) == {id \in DOMAIN r.prev : KeyOf(id) \in r.failed}

Rediscovered(r) == {id \in Ids : KeyOf(id) \in DOMAIN r.found /\ ModelOf(id) \in r.found[KeyOf(id)]}

(* Mutant of Carried: formats are not filled in from the previous snapshot. *)
CarriedNone(r, id) == Unknown

(* previousFormats: the format that was known when the refresh began. *)
Carried(r, id) == IF id \in DOMAIN r.prev THEN r.prev[id] ELSE Unknown

NextRoutes(r) ==
    [id \in Kept(r) \cup Rediscovered(r) |->
        IF id \in Kept(r) THEN r.prev[id] ELSE Carried(r, id)]

NextModels(r) == {ModelOf(id) : id \in DOMAIN NextRoutes(r)}

(* recordDiscoveries: the first models are the baseline, later ones are announced. *)
News == IF known = {} THEN {} ELSE NextModels(refresh) \ UNION known
RecordedKnown == IF known = {} /\ NextModels(refresh) = {}
                   THEN {} ELSE {(UNION known) \cup NextModels(refresh)}
Recorded == [known |-> RecordedKnown,
             additions |-> [m \in Models |-> additions[m] + IF m \in News THEN 1 ELSE 0]]

Record ==
    /\ refresh.pc = "record"
    /\ known' = Recorded.known /\ additions' = Recorded.additions
    /\ disk' = IF Recorded.known = {} THEN disk ELSE Recorded
    /\ baseline' = IF baseline = {} THEN Recorded.known ELSE baseline
    /\ refresh' = [refresh EXCEPT !.pc = "publish"]
    /\ UNCHANGED <<clients, routes, changed, offered>>

(* Mutant of RecordFails: the models are remembered before they are stored. *)
RecordFailsButKnown ==
    /\ refresh.pc = "record" /\ Recorded.known # {}
    /\ known' = Recorded.known
    /\ refresh' = [refresh EXCEPT !.pc = "end"]
    /\ UNCHANGED <<clients, routes, additions, disk, baseline, changed, offered>>

(* store.Set fails: the refresh is abandoned, the old snapshot stays. *)
RecordFails ==
    /\ refresh.pc = "record" /\ Recorded.known # {}
    /\ refresh' = [refresh EXCEPT !.pc = "end"]
    /\ UNCHANGED <<clients, routes, changed, offered, learned>>

Publish ==
    /\ refresh.pc = "publish"
    /\ routes' = NextRoutes(refresh)
    /\ changed' = FALSE
    /\ refresh' = [refresh EXCEPT !.pc = "hook"]
    /\ UNCHANGED <<clients, offered, learned>>

NewPairs(r) == Pairs(NextRoutes(r)) \ Pairs(r.prev)

NothingNew ==
    /\ refresh.pc = "hook" /\ NewPairs(refresh) = {}
    /\ refresh' = [refresh EXCEPT !.pc = "end"]
    /\ UNCHANGED <<clients, routes, changed, offered, learned>>

(* The hook is called and returns; its error is one of the failures that Refresh *)
(* reports, and the routes are not given to it again.                            *)
HookRuns ==
    /\ refresh.pc = "hook" /\ NewPairs(refresh) # {}
    /\ offered' = offered \cup NewPairs(refresh)
    /\ refresh' = [refresh EXCEPT !.pc = "end"]
    /\ UNCHANGED <<clients, routes, changed, learned>>

EndRefresh ==
    /\ refresh.pc = "end"
    /\ refresh' = AtRest
    /\ UNCHANGED <<clients, routes, changed, offered, learned>>

-----------------------------------------------------------------------------
(* What requests do to the published snapshot. *)

LearnFormat(id, format) ==
    /\ id \in DOMAIN routes
    /\ routes' = [routes EXCEPT ![id] = format]
    /\ UNCHANGED <<clients, refresh, changed, offered, learned>>

ClearFormat(id) ==
    /\ id \in DOMAIN routes
    /\ routes' = [routes EXCEPT ![id] = Unknown]
    /\ UNCHANGED <<clients, refresh, changed, offered, learned>>

(* A new process: Restore brings back the history, not the routes. *)
RestartCatalog ==
    /\ clients' = {} /\ routes' = NoRoutes /\ refresh' = AtRest
    /\ known' = disk.known /\ additions' = disk.additions
    /\ changed' = TRUE /\ offered' = {}
    /\ UNCHANGED <<disk, baseline>>

RefreshStep ==
    \/ BeginRefresh \/ Discovered \/ Record \/ RecordFails \/ Publish \/ NothingNew \/ EndRefresh
    \/ \E k \in Keys : DiscoverFails(k) \/ \E models \in SUBSET Models : Discover(k, models)
LearnStep ==
    \E id \in Ids : \/ \E format \in Formats : LearnFormat(id, format)
                    \/ ClearFormat(id)

CatalogNext ==
    \/ \E keys \in SUBSET Keys : SetClients(keys)
    \/ RefreshStep
    \/ HookRuns
    \/ LearnStep
    \/ RestartCatalog

CatalogSpec == CatalogInit /\ [][CatalogNext]_catalogVars

-----------------------------------------------------------------------------
PairSet == {ProviderOf[k] : k \in Keys} \X Models
MaybeModels == {{}} \cup {{S} : S \in SUBSET Models}

CatalogTypeOK ==
    /\ clients \in SUBSET Keys
    /\ DOMAIN routes \in SUBSET Ids /\ Range(routes) \subseteq Formats \cup {Unknown}
    /\ known \in MaybeModels /\ baseline \in MaybeModels /\ disk.known \in MaybeModels
    /\ additions \in [Models -> Nat] /\ disk.additions \in [Models -> Nat]
    /\ refresh.pc \in RefreshLabels
    /\ refresh.keys \in SUBSET Keys
    /\ refresh.failed \in SUBSET (refresh.keys \ DOMAIN refresh.found)
    /\ DOMAIN refresh.found \in SUBSET refresh.keys
    /\ changed \in BOOLEAN /\ offered \in SUBSET PairSet

(* A refresh that fails in part keeps what it did not ask anew: every route of a       *)
(* client whose discovery failed stays, and a format that was known when the refresh    *)
(* began, and that no request changed since, is still known (Refresh, catalog.go).      *)
RefreshKeepsWhatItKnew ==
    [][refresh.pc = "publish" /\ refresh'.pc = "hook" =>
        /\ \A id \in DOMAIN routes : KeyOf(id) \in refresh.failed => id \in DOMAIN routes'
        /\ \A id \in DOMAIN routes \cap DOMAIN routes' :
               routes[id] = refresh.prev[id] => routes'[id] = routes[id]
      ]_routes

(* Once a refresh that began after the clients were exchanged has been published, no   *)
(* route leads to a client that was removed, whatever failed in between.                *)
RemovedClientsHaveNoRoutes == ~changed => \A id \in DOMAIN routes : KeyOf(id) \in clients

(* A model that was not there at the first discovery is announced exactly once, through *)
(* failed stores, providers that come and go, and restarts in the middle of a refresh.  *)
EachNewModelAnnouncedOnce ==
    /\ \A m \in Models : additions[m] \leq 1
    /\ \A id \in DOMAIN routes : ModelOf(id) \in UNION baseline \/ additions[ModelOf(id)] = 1
    /\ \A m \in UNION baseline : additions[m] = 0
=============================================================================
