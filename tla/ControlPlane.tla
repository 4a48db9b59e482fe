----------------------------- MODULE ControlPlane -----------------------------
(***************************************************************************)
(* The catalog and the routing groups as app/runtime joins them: a refresh *)
(* calls IncludeDiscoveredRoutes with the routes that are new, under       *)
(* refreshMu, and returns when the groups are saved and reloaded.  The     *)
(* initial state decides which part moves: the catalog or the groups with  *)
(* everything around them open, or both joined, in a smaller instance (one *)
(* client, one stored group, one edit, no restart).                        *)
(***************************************************************************)
EXTENDS Catalog, GroupStore

ASSUME ControlPlaneConstants == Sources = PairSet

VARIABLES
    part,          \* the part that moves
    followed       \* history: the groups that followed new providers all the time

controlVars == <<part, followed, catalogVars, groupVars>>

Followers == {g \in Groups : stored[g].stages.follows}

ControlInit ==
    /\ CatalogInit /\ GroupInit
    /\ part \in {"catalog", "groups", "joint"}
    /\ part = "catalog" => stored = NoList
    /\ part = "joint" => \A g, h \in Present(stored) : g = h
    /\ followed = Followers

-----------------------------------------------------------------------------
(* The hook of runtime.go: the refresh goes on when it has returned. *)
RefreshCallsHook == HookRuns /\ SyncBegin(NewPairs(refresh))

HookIsRunning == sync.pc # "idle" \/ reload["sync"].pc # "idle"

JointClients == clients = {} /\ \E k \in Keys : SetClients({k})

JointRefresh ==
    /\ \/ BeginRefresh \/ Discovered \/ Record \/ RecordFails \/ Publish \/ NothingNew
       \/ EndRefresh /\ ~HookIsRunning
       \/ \E k \in Keys : DiscoverFails(k) \/ \E models \in SUBSET Models : Discover(k, models)
       \/ JointClients
    /\ UNCHANGED groupVars

JointGroups ==
    /\ \/ SyncStep
       \/ \E p \in Editors \cup {"sync"} : ReloadStep(p)
       \/ \E w \in Editors : /\ \A v \in Editors \ {w} : editor[v].pc = "idle"
                             /\ EditorStep(w)
    /\ UNCHANGED catalogVars

ControlNext ==
    /\ \/ part = "catalog" /\ CatalogNext /\ UNCHANGED groupVars
       \/ part = "groups" /\ GroupNext /\ UNCHANGED catalogVars
       \/ part = "joint" /\ (JointRefresh \/ RefreshCallsHook \/ JointGroups)
    /\ followed' = followed \cap Followers'
    /\ UNCHANGED part

ControlSpec == ControlInit /\ [][ControlNext]_controlVars

-----------------------------------------------------------------------------
ControlTypeOK ==
    /\ CatalogTypeOK /\ GroupTypeOK
    /\ part \in {"catalog", "groups", "joint"} /\ followed \in SUBSET Groups

(* From discovery to routing: a group that follows new providers has a source for      *)
(* every provider of a model that was ever in the catalog since the process started,    *)
(* unless a sync or a reload failed; edits that run into the sync do not cost it one.    *)
FollowersPinTheCatalog ==
    part = "joint" /\ refresh.pc = "idle" /\ ~aborted =>
        \A g \in followed : offered \cup Pairs(routes) \subseteq stored[g].stages.pinned
=============================================================================
