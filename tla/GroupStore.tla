------------------------------ MODULE GroupStore ------------------------------
(***************************************************************************)
(* The routing groups as they are kept: the tables behind                  *)
(* RoutingGroupsRepository, the cache of groups.Manager that requests are  *)
(* routed by, the editors (group_handlers.go) and the hook that a catalog  *)
(* refresh calls with the routes it discovered (IncludeDiscoveredRoutes).  *)
(*                                                                         *)
(* Abstractions.                                                           *)
(*  - Of a definition the row is its revision and the enabled flag; of its *)
(*    stages, the groups they nest, whether they follow the providers of   *)
(*    the models, and the concrete sources they pin.  Slugs, which are     *)
(*    protected by a UNIQUE column, are left out.                          *)
(*  - A query is atomic and so is a transaction.  Get and List are two     *)
(*    queries: the rows, then the stages (the stages of all rows at once). *)
(*    The list that a save is validated with is read in one step.          *)
(*  - An editor keeps the providers that it read.                          *)
(***************************************************************************)
EXTENDS Naturals

CONSTANTS
    Groups,      \* group ids; random, so a deleted one does not come back
    Sources,     \* the concrete sources, a provider and a model, that groups may pin
    Editors,     \* edits, each from opening the editor to the answer of the handler
    Inputs,      \* what users make of a group
    Batches,     \* the sets of routes that refreshes bring, when none is modelled
    MaxEdits     \* bound on the changes of the store

ASSUME GroupStoreConstants ==
    /\ MaxEdits \in Nat /\ Groups # {} /\ "sync" \notin Editors
    /\ Batches \subseteq SUBSET Sources
    /\ Inputs \subseteq [enabled: BOOLEAN, nests: SUBSET Groups, follows: BOOLEAN]

NoStages == [nests |-> {}, follows |-> FALSE, pinned |-> {}]
Absent == [rev |-> 0, enabled |-> FALSE, stages |-> NoStages]
Stages == [nests: SUBSET Groups, follows: BOOLEAN, pinned: SUBSET Sources]
Revisions == 1 .. MaxEdits + 1
Definitions == [rev: Revisions, enabled: BOOLEAN, stages: Stages]
Stores == [Groups -> Definitions \cup {Absent}]

Defined(rev, input, pinned) ==
    [rev |-> rev, enabled |-> input.enabled,
     stages |-> [nests |-> input.nests, follows |-> input.follows, pinned |-> pinned]]

VARIABLES
    stored,      \* the tables
    deleted,     \* the ids that were deleted
    cache,       \* Manager.definitions
    editor,      \* [Editors -> a handler: its place, group, what it read, what it writes]
    sync,        \* IncludeDiscoveredRoutes: its place, routes, list and groups to save
    reload,      \* [Editors \cup {"sync"} -> a Manager.Reload: its place, its list and
                 \* its date]
    edits,       \* changes of the store so far, also used as a date
    cachedAt,    \* history: the date of the list in the cache
    readAt,      \* history: the date of the latest list that a Reload began to read
    aborted,     \* history: a sync failed after a save, or a reload failed
    raced        \* history: a save fell between another's validation and its save

histories == <<cachedAt, readAt, aborted, raced>>
groupVars == <<stored, deleted, cache, editor, sync, reload, edits, histories>>

Present(store) == {g \in Groups : store[g] # Absent}
EditorAtRest == [pc |-> "idle", group |-> CHOOSE g \in Groups : TRUE, seen |-> Absent,
                 input |-> Absent, at |-> 0]
EditDone == [EditorAtRest EXCEPT !.pc = "done"]
NoList == [g \in Groups |-> Absent]
SyncAtRest == [pc |-> "idle", routes |-> {}, list |-> NoList, todo |-> {}]
NoReload == [pc |-> "idle", list |-> NoList, at |-> 0]

(* Compile follows the enabled nested groups; a disabled one is left out. *)
Nested(store, g) == {h \in store[g].stages.nests : store[h].enabled}
Reaches(store, g, h) ==
    \A S \in SUBSET Groups : (g \in S /\ \A i \in S : Nested(store, i) \subseteq S) => h \in S
CycleWithin(store, R) ==
    \E S \in SUBSET R : S # {} /\ \A i \in S : store[i].enabled /\ Nested(store, i) \cap S # {}
CycleFrom(store, g) == CycleWithin(store, {h \in Present(store) : Reaches(store, g, h)})

Closed(store) == \A g \in Present(store) : store[g].stages.nests \subseteq Present(store)

(* A process that starts on what earlier ones stored, after its first Reload. *)
GroupInit ==
    /\ stored \in [Groups -> {Defined(1, input, {}) : input \in Inputs} \cup {Absent}]
    /\ Closed(stored) /\ ~CycleWithin(stored, Present(stored))
    /\ deleted = {} /\ cache = stored
    /\ editor = [w \in Editors |-> EditorAtRest]
    /\ sync = SyncAtRest
    /\ reload = [p \in Editors \cup {"sync"} |-> NoReload]
    /\ edits = 0 /\ cachedAt = 0 /\ readAt = 0
    /\ aborted = FALSE /\ raced = FALSE

-----------------------------------------------------------------------------
(* The two queries of Get and List. *)
Row(g) == [stored[g] EXCEPT !.stages = NoStages]
WithStages(row, g) == IF row = Absent THEN Absent ELSE [row EXCEPT !.stages = stored[g].stages]
ListRows == [g \in Groups |-> Row(g)]
ListStages(list) == [g \in Groups |-> WithStages(list[g], g)]

StartReload(p) == reload' = [reload EXCEPT ![p].pc = "read"]
Edited == edits < MaxEdits /\ edits' = edits + 1

(* Opening the editor: GET /api/groups/{id}, a row and then its stages. *)
OpenEditor(w, g) ==
    /\ editor[w].pc = "idle" /\ stored[g] # Absent
    /\ editor' = [editor EXCEPT ![w].pc = "get", ![w].group = g, ![w].seen = Row(g)]
    /\ UNCHANGED <<stored, deleted, cache, sync, reload, edits, histories>>

GetStages(w) ==
    /\ editor[w].pc = "get"
    /\ editor' = [editor EXCEPT ![w].pc = "edit",
                                ![w].seen = WithStages(editor[w].seen, editor[w].group)]
    /\ UNCHANGED <<stored, deleted, cache, sync, reload, edits, histories>>

(* Mutant of Validates: a group is checked for what it nests, but not compiled. *)
ValidatesReferences(store, g, input) == input.stages.nests \subseteq Present(store)

(* ValidateDefinition and Compile; a disabled group is not compiled. *)
Validates(store, g, input) ==
    /\ input.stages.nests \subseteq Present(store)
    /\ input.enabled => ~CycleFrom([store EXCEPT ![g] = input], g)

(* saveGroup up to its answer 422 or its call of Save. *)
Submit(w, input) ==
    /\ editor[w].pc = "edit"
    /\ Validates(stored, editor[w].group, input)
    /\ editor' = [editor EXCEPT ![w].pc = "save", ![w].input = input, ![w].at = edits]
    /\ UNCHANGED <<stored, deleted, cache, sync, reload, edits, histories>>

(* POST /api/groups: the id is new. *)
SubmitNew(w, g, input) ==
    /\ editor[w].pc = "idle" /\ stored[g] = Absent /\ g \notin deleted
    /\ \A v \in Editors : editor[v].pc = "save" => editor[v].group # g
    /\ g \notin input.stages.nests
    /\ Validates(stored, g, input)
    /\ editor' = [editor EXCEPT ![w] = [pc |-> "save", group |-> g, seen |-> Absent,
                                        input |-> input, at |-> edits]]
    /\ UNCHANGED <<stored, deleted, cache, sync, reload, edits, histories>>

-----------------------------------------------------------------------------
(* Mutant of RevisionMatches: only the existence of the row is checked. *)
RevisionMatchesAny(g, seen) == (seen = Absent) = (stored[g] = Absent)

RevisionMatches(g, seen) == stored[g].rev = seen.rev

ReferencesExist(input) == input.stages.nests \subseteq Present(stored)

(* The transaction of Save. *)
Saved(g, input) ==
    /\ stored' = [stored EXCEPT ![g] = [input EXCEPT !.rev = stored[g].rev + 1]]
    /\ Edited

SaveGroup(w) ==
    LET e == editor[w] IN
    /\ e.pc = "save"
    /\ RevisionMatches(e.group, e.seen) /\ ReferencesExist(e.input)
    /\ Saved(e.group, e.input)
    /\ raced' = (raced \/ e.at # edits)
    /\ editor' = [editor EXCEPT ![w] = EditDone]
    /\ StartReload(w)
    /\ UNCHANGED <<deleted, cache, sync, cachedAt, readAt, aborted>>

SaveRefused(w) ==
    /\ editor[w].pc = "save"
    /\ ~RevisionMatches(editor[w].group, editor[w].seen) \/ ~ReferencesExist(editor[w].input)
    /\ editor' = [editor EXCEPT ![w] = EditDone]
    /\ UNCHANGED <<stored, deleted, cache, sync, reload, edits, histories>>

(* Mutant of Unreferenced: nested_group_id without ON DELETE RESTRICT. *)
UnreferencedIgnored(g) == TRUE

Unreferenced(g) == \A h \in Present(stored) \ {g} : g \notin stored[h].stages.nests

DeleteGroup(w) ==
    LET g == editor[w].group IN
    /\ editor[w].pc = "edit"
    /\ RevisionMatches(g, editor[w].seen) /\ Unreferenced(g)
    /\ stored' = [stored EXCEPT ![g] = Absent] /\ deleted' = deleted \cup {g}
    /\ Edited
    /\ editor' = [editor EXCEPT ![w] = EditDone]
    /\ StartReload(w)
    /\ UNCHANGED <<cache, sync, cachedAt, readAt, aborted, raced>>

-----------------------------------------------------------------------------
(* Manager.Reload: nothing orders two of them.  A list that a save falls into is *)
(* older than the list of that save's own reload, so it is read in one step.      *)
ReloadReads(p) ==
    /\ reload[p].pc = "read"
    /\ reload' = [reload EXCEPT ![p] = [pc |-> "swap", list |-> stored, at |-> edits]]
    /\ readAt' = edits
    /\ UNCHANGED <<stored, deleted, cache, editor, sync, edits, cachedAt, aborted, raced>>

ReloadSwaps(p) ==
    /\ reload[p].pc = "swap"
    /\ cache' = reload[p].list /\ cachedAt' = reload[p].at
    /\ reload' = [reload EXCEPT ![p] = NoReload]
    /\ UNCHANGED <<stored, deleted, editor, sync, edits, readAt, aborted, raced>>

ReloadFails(p) ==
    /\ reload[p].pc = "read"
    /\ reload' = [reload EXCEPT ![p] = NoReload]
    /\ aborted' = TRUE
    /\ UNCHANGED <<stored, deleted, cache, editor, sync, edits, cachedAt, readAt, raced>>

-----------------------------------------------------------------------------
(* The refresh hook: refreshMu lets one run at a time. *)
SyncBegin(routes) ==
    /\ sync.pc = "idle" /\ reload["sync"].pc = "idle" /\ routes # {}
    /\ sync' = [SyncAtRest EXCEPT !.pc = "stages", !.routes = routes, !.list = ListRows]
    /\ UNCHANGED <<stored, deleted, cache, editor, reload, edits, histories>>

(* Mutant of Follows: a group that is disabled misses what is discovered meanwhile. *)
FollowsEnabled(list, g) == list[g].enabled /\ list[g].stages.follows

Follows(list, g) == list[g].stages.follows

SyncStages ==
    LET list == ListStages(sync.list) IN
    /\ sync.pc = "stages"
    /\ sync' = [sync EXCEPT !.pc = "save", !.list = list,
                            !.todo = {g \in Groups : Follows(list, g) /\
                                                     ~(sync.routes \subseteq list[g].stages.pinned)}]
    /\ UNCHANGED <<stored, deleted, cache, editor, reload, edits, histories>>

SyncSave(g) ==
    LET included == [sync.list[g] EXCEPT !.stages.pinned = @ \cup sync.routes] IN
    /\ sync.pc = "save" /\ g \in sync.todo
    /\ RevisionMatches(g, sync.list[g]) /\ ReferencesExist(included)
    /\ Saved(g, included)
    /\ sync' = [sync EXCEPT !.todo = @ \ {g}]
    /\ UNCHANGED <<deleted, cache, editor, reload, histories>>

(* The first conflict ends the sync: the other groups are not saved, and what was *)
(* saved is not reloaded.                                                         *)
SyncConflict(g) ==
    /\ sync.pc = "save" /\ g \in sync.todo
    /\ ~RevisionMatches(g, sync.list[g]) \/ ~ReferencesExist(sync.list[g])
    /\ sync' = SyncAtRest
    /\ aborted' = TRUE
    /\ UNCHANGED <<stored, deleted, cache, editor, reload, edits, cachedAt, readAt, raced>>

(* Mutant of SyncDone: the hook of runtime.go returns without the Reload. *)
SyncDoneUnloaded ==
    /\ sync.pc = "save" /\ sync.todo = {}
    /\ sync' = SyncAtRest
    /\ UNCHANGED <<stored, deleted, cache, editor, reload, edits, histories>>

SyncDone ==
    /\ sync.pc = "save" /\ sync.todo = {}
    /\ sync' = SyncAtRest
    /\ StartReload("sync")
    /\ UNCHANGED <<stored, deleted, cache, editor, edits, cachedAt, readAt, aborted, raced>>

-----------------------------------------------------------------------------
EditorStep(w) ==
    \/ GetStages(w) \/ SaveGroup(w) \/ SaveRefused(w) \/ DeleteGroup(w)
    \/ \E g \in Groups : OpenEditor(w, g)
    \/ \E input \in Inputs :
           \/ Submit(w, Defined(editor[w].seen.rev, input, editor[w].seen.stages.pinned))
           \/ \E g \in Groups : SubmitNew(w, g, Defined(1, input, {}))
SyncStep == SyncStages \/ SyncDone \/ \E g \in Groups : SyncSave(g) \/ SyncConflict(g)
ReloadStep(p) == ReloadReads(p) \/ ReloadSwaps(p) \/ ReloadFails(p)

GroupNext ==
    \/ \E w \in Editors : EditorStep(w)
    \/ \E p \in Editors \cup {"sync"} : ReloadStep(p)
    \/ \E routes \in Batches : SyncBegin(routes)
    \/ SyncStep

GroupSpec == GroupInit /\ [][GroupNext]_groupVars

-----------------------------------------------------------------------------
GroupTypeOK ==
    /\ stored \in Stores /\ cache \in Stores
    /\ deleted \in SUBSET Groups /\ \A g \in deleted : stored[g] = Absent
    /\ \A w \in Editors : /\ editor[w].pc \in {"idle", "get", "edit", "save", "done"}
                          /\ editor[w].group \in Groups
                          /\ editor[w].seen \in Definitions \cup {Absent}
                          /\ editor[w].input \in Definitions \cup {Absent}
                          /\ editor[w].at \in 0 .. MaxEdits
    /\ sync \in [pc: {"idle", "stages", "save"}, routes: SUBSET Sources, list: Stores,
                 todo: SUBSET Groups]
    /\ \A p \in Editors \cup {"sync"} :
           reload[p] \in [pc: {"idle", "read", "swap"}, list: Stores, at: 0 .. MaxEdits]
    /\ edits \in 0 .. MaxEdits /\ cachedAt \in 0 .. MaxEdits /\ readAt \in 0 .. MaxEdits

(* A stored group never nests one that does not exist, through saves that were        *)
(* validated before a delete and deletes that were decided before a save: the foreign  *)
(* keys of migration 0013 and the transaction of Save see to it.                       *)
ReferencesResolve == Closed(stored)

(* A save replaces exactly what its author read, though Get and List are two queries   *)
(* with saves in between: the row with the revision is read before the stages.          *)
NoLostUpdate ==
    [][/\ \A w \in Editors :
              editor[w].pc = "save" /\ reload'[w].pc = "read" =>
                  stored[editor[w].group] = editor[w].seen
       /\ \A g \in Groups :
              g \in sync.todo /\ g \notin sync'.todo /\ sync'.pc = "save" =>
                  stored[g] = sync.list[g]
      ]_groupVars

(* saveGroup compiles before it saves: enabled groups that nest each other in a cycle  *)
(* (which no request can be routed by) are stored only when two saves were validated    *)
(* against the same list and both succeeded (group_handlers.go:125).                    *)
EnabledCyclesOnlyFromRaces == ~raced => ~CycleWithin(stored, Present(stored))

(* Every change of the store is followed by a Reload, and a Reload that nothing overtook *)
(* leaves in the cache what is stored: requests are routed by the groups the user saved. *)
(* Excepted is a reload or a sync that failed; two reloads may still finish in the wrong *)
(* order (manager.go:28), which leaves an older list in the cache.                       *)
CacheFollowsTheStore ==
    (\A p \in Editors \cup {"sync"} : reload[p].pc = "idle") /\ sync.pc = "idle" /\ ~aborted =>
        readAt = edits /\ (cachedAt = readAt => cache = stored)
=============================================================================
