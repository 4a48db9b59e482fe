-------------------------- MODULE ControlPlaneProofs --------------------------
(***************************************************************************)
(* The control plane, for any number of clients, models, formats, groups,  *)
(* sources, editors, edits, messages, sessions, handlers and requests.     *)
(*                                                                         *)
(* First the routing groups and the catalog, each as it is by itself; then *)
(* the two joined: what was proved of each holds of both, and the groups   *)
(* that follow new providers keep up with them.  Beside them what shares   *)
(* no state with these: the provider credentials and the sessions.         *)
(***************************************************************************)
EXTENDS ControlPlane, Credentials, Sessions, FiniteSetTheorems, SequenceTheorems, TLAPS

-----------------------------------------------------------------------------
(***************************************************************************)
(* The routing groups.                                                     *)
(***************************************************************************)

Maybe == Definitions \cup {Absent}
Processes == Editors \cup {"sync"}
EditorStates == [pc: {"idle", "get", "edit", "save", "done"}, group: Groups, seen: Maybe,
                 input: Maybe, at: 0 .. MaxEdits]
Syncs == [pc: {"idle", "stages", "save"}, routes: SUBSET Sources, list: Stores, todo: SUBSET Groups]
Reloads == [pc: {"idle", "read", "swap"}, list: Stores, at: 0 .. MaxEdits]

GroupTypes ==
    /\ stored \in Stores /\ cache \in Stores /\ deleted \in SUBSET Groups
    /\ editor \in [Editors -> EditorStates] /\ sync \in Syncs /\ reload \in [Processes -> Reloads]
    /\ edits \in 0 .. MaxEdits /\ cachedAt \in 0 .. MaxEdits /\ readAt \in 0 .. MaxEdits
    /\ aborted \in BOOLEAN /\ raced \in BOOLEAN

(* A revision is behind the number of edits; deleted groups stay away. *)
StoreInv == \A g \in Groups : stored[g].rev <= edits + 1 /\ (g \in deleted => stored[g] = Absent)

(* What was read of a group: an older revision, or one that is gone, or what is *)
(* stored; of a row alone, what is stored but for the stages.                   *)
Outdated(what, g) == what.rev < stored[g].rev \/ g \in deleted
SeenRow(what, g) == what \in Definitions /\ (Outdated(what, g) \/ what = Row(g))
SeenWhole(what, g) == what \in Definitions /\ (Outdated(what, g) \/ what = stored[g])

(* Only one editor is creating a group, and nobody has deleted it. *)
Creates(w) ==
    /\ editor[w].seen = Absent /\ stored[editor[w].group] = Absent
    /\ editor[w].group \notin deleted
    /\ \A v \in Editors \ {w} : editor[v].pc = "save" => editor[v].group # editor[w].group

SaveInv(w) ==
    LET e == editor[w] IN
    /\ SeenWhole(e.seen, e.group) \/ Creates(w)
    /\ e.input \in Definitions /\ e.at <= edits
    /\ e.at = edits => Validates(stored, e.group, e.input)
    /\ e.input.stages.pinned = e.seen.stages.pinned

EditorInv(w) ==
    /\ editor[w].pc = "get" => SeenRow(editor[w].seen, editor[w].group)
    /\ editor[w].pc = "edit" => SeenWhole(editor[w].seen, editor[w].group)
    /\ editor[w].pc = "save" => SaveInv(w)
    /\ editor[w].pc # "done" => reload[w].pc = "idle"

SyncInv ==
    /\ sync.pc = "stages" => \A g \in Groups : sync.list[g] = Absent \/ SeenRow(sync.list[g], g)
    /\ sync.pc = "save" => \A g \in sync.todo : SeenWhole(sync.list[g], g)
    /\ sync.pc # "save" => sync.todo = {}

(* What a reload read at a date is what is stored as long as nothing changed since. *)
ReloadInv ==
    /\ readAt <= edits /\ cachedAt <= edits
    /\ cachedAt = edits => cache = stored
    /\ \A p \in Processes : /\ reload[p].at <= edits
                            /\ reload[p].pc = "swap" /\ reload[p].at = edits => reload[p].list = stored
    /\ \/ readAt = edits \/ aborted \/ sync.pc = "save"
       \/ \E p \in Processes : reload[p].pc = "read"

GroupInv ==
    /\ GroupTypes /\ StoreInv /\ (\A w \in Editors : EditorInv(w)) /\ SyncInv /\ ReloadInv
    /\ ReferencesResolve /\ EnabledCyclesOnlyFromRaces

(* The steps of the groups, with the sync called for any routes. *)
GroupStep ==
    \/ \E w \in Editors : EditorStep(w)
    \/ \E p \in Processes : ReloadStep(p)
    \/ \E batch \in SUBSET Sources : SyncBegin(batch)
    \/ SyncStep

-----------------------------------------------------------------------------
(* What there is before a definition: nothing. *)
LEMMA NoStagesType == NoStages \in Stages
  BY DEF NoStages, Stages

(* The fields of Absent. *)
LEMMA AbsentIsNone ==
    /\ Absent \notin Definitions /\ Absent.rev = 0 /\ Absent.stages = NoStages
    /\ NoStages.nests = {} /\ ~NoStages.follows /\ NoStages.pinned = {}
    /\ ~Absent.enabled
  BY DEF Absent, NoStages, Definitions, Revisions, Stages

(* A record whose stages are replaced by themselves is the same record. *)
LEMMA AbsentWithoutStages == [Absent EXCEPT !.stages = NoStages] = Absent
<1> DEFINE Raw == [rev: Nat, enabled: BOOLEAN, stages: Stages]
<1>1. \A d \in Raw : [d EXCEPT !.stages = d.stages] = d
  BY DEF Raw
<1>2. Absent \in Raw
  BY NoStagesType DEF Absent
<1> QED
  BY <1>1, <1>2, AbsentIsNone

(* The types of the fields of a definition. *)
LEMMA DefinitionFields ==
    ASSUME NEW d \in Definitions
    PROVE  /\ d.rev \in Nat \ {0} /\ d.rev \in Revisions /\ d.enabled \in BOOLEAN /\ d.stages \in Stages
           /\ d.stages.nests \in SUBSET Groups /\ d.stages.follows \in BOOLEAN
           /\ d.stages.pinned \in SUBSET Sources
  BY GroupStoreConstants DEF Definitions, Revisions, Stages

(* A definition in which the revision or the stages are replaced. *)
LEMMA DefinitionUpdates ==
    ASSUME NEW d \in Definitions
    PROVE  /\ \A n \in Revisions :
                  /\ [d EXCEPT !.rev = n] \in Definitions
                  /\ [d EXCEPT !.rev = n].rev = n
                  /\ [d EXCEPT !.rev = n].enabled = d.enabled
                  /\ [d EXCEPT !.rev = n].stages = d.stages
           /\ \A s \in Stages :
                  /\ [d EXCEPT !.stages = s] \in Definitions
                  /\ [d EXCEPT !.stages = s].rev = d.rev
                  /\ [d EXCEPT !.stages = s].enabled = d.enabled
                  /\ [d EXCEPT !.stages = s].stages = s
                  /\ s = d.stages => [d EXCEPT !.stages = s] = d
  BY DEF Definitions

(* A definition that pins more sources. *)
LEMMA DefinitionPins ==
    ASSUME NEW d \in Definitions, NEW batch \in SUBSET Sources
    PROVE  LET p == [d EXCEPT !.stages.pinned = @ \cup batch] IN
           /\ p \in Definitions /\ p.rev = d.rev /\ p.enabled = d.enabled
           /\ p.stages.nests = d.stages.nests /\ p.stages.follows = d.stages.follows
           /\ p.stages.pinned = d.stages.pinned \cup batch
  BY DEF Definitions, Stages

(* What a table holds for a group. *)
LEMMA StoreTypes ==
    ASSUME NEW store \in Stores, NEW g \in Groups
    PROVE  /\ store[g] \in Maybe
           /\ store[g].rev = 0 <=> store[g] = Absent
           /\ store[g].rev \in Nat /\ store[g].stages \in Stages
           /\ store[g].enabled => store[g] # Absent
           /\ store[g].stages.nests \in SUBSET Groups /\ store[g].stages.pinned \in SUBSET Sources
           /\ store[g].stages.follows \in BOOLEAN
<1>1. store[g] \in Maybe
  BY DEF Stores, Maybe
<1>2. CASE store[g] = Absent
  <2>1. /\ store[g].rev = 0 /\ store[g].stages = NoStages /\ ~store[g].enabled
    BY <1>2, AbsentIsNone
  <2>2. /\ NoStages.nests \in SUBSET Groups /\ NoStages.pinned \in SUBSET Sources
        /\ NoStages.follows \in BOOLEAN
    BY NoStagesType DEF Stages
  <2> QED
    BY <1>1, <1>2, <2>1, <2>2, NoStagesType
<1>3. CASE store[g] \in Definitions
  <2>1. store[g] # Absent
    BY <1>3, AbsentIsNone
  <2> QED
    BY <1>1, <1>3, <2>1, DefinitionFields
<1> QED
  BY <1>1, <1>2, <1>3 DEF Maybe

(* The first query of Get reads the revision. *)
LEMMA RowFacts ==
    ASSUME GroupTypes, NEW g \in Groups
    PROVE  /\ Row(g) \in Maybe
           /\ stored[g] = Absent <=> Row(g) = Absent
           /\ Row(g).rev = stored[g].rev
           /\ Row(g) # Absent => WithStages(Row(g), g) = stored[g]
<1>1. CASE stored[g] = Absent
  BY <1>1, AbsentWithoutStages DEF Row, Maybe
<1>2. CASE stored[g] \in Definitions
  <2>1. /\ [stored[g] EXCEPT !.stages = NoStages] \in Definitions
        /\ [stored[g] EXCEPT !.stages = NoStages].rev = stored[g].rev
    BY <1>2, DefinitionUpdates, NoStagesType
  <2>2. [[stored[g] EXCEPT !.stages = NoStages] EXCEPT !.stages = stored[g].stages] = stored[g]
    BY <1>2 DEF Definitions
  <2> QED
    BY <1>2, <2>1, <2>2, AbsentIsNone DEF Row, WithStages, Maybe
<1> QED
  BY <1>1, <1>2 DEF GroupTypes, Stores

(* The second query of Get joins the row, of whatever revision, with the stages. *)
LEMMA WithStagesType ==
    ASSUME GroupTypes, NEW row \in Maybe, NEW g \in Groups
    PROVE  /\ WithStages(row, g) \in Maybe /\ WithStages(row, g).rev = row.rev
           /\ row \in Definitions => WithStages(row, g) \in Definitions
                                     /\ WithStages(row, g).stages = stored[g].stages
<1>1. stored[g].stages \in Stages
  BY StoreTypes DEF GroupTypes
<1> QED
  BY <1>1, DefinitionUpdates, AbsentIsNone DEF WithStages, Maybe

-----------------------------------------------------------------------------
(* Cycles: they depend on what is enabled and what it nests. *)
IsCycle(store, S) ==
    S # {} /\ \A i \in S : store[i].enabled /\ Nested(store, i) \cap S # {}

SameShape(store, other, groups) ==
    \A h \in groups : store[h].enabled = other[h].enabled
                      /\ store[h].stages.nests = other[h].stages.nests

(* The groups that a group nests are groups. *)
LEMMA NestedType ==
    ASSUME NEW store \in Stores, NEW g \in Groups
    PROVE  Nested(store, g) \in SUBSET Groups
  BY StoreTypes DEF Nested

(* A cycle that does not go through g was there before g changed. *)
LEMMA CycleElsewhere ==
    ASSUME NEW store \in Stores, NEW other \in Stores, NEW g \in Groups,
           SameShape(store, other, Groups \ {g}),
           NEW S \in SUBSET (Groups \ {g}), IsCycle(other, S)
    PROVE  CycleWithin(store, Present(store))
<1>1. \A i \in S : store[i].enabled
  BY DEF IsCycle, SameShape
<1>2. S \in SUBSET Present(store)
  BY <1>1, StoreTypes DEF Present
<1>3. ASSUME NEW i \in S
      PROVE  Nested(store, i) \cap S # {}
  <2>1. PICK h \in S : h \in Nested(other, i)
    BY DEF IsCycle
  <2>2. h \in store[i].stages.nests /\ store[h].enabled
    BY <2>1 DEF Nested, SameShape
  <2> QED
    BY <2>1, <2>2 DEF Nested
<1> QED
  BY <1>1, <1>2, <1>3 DEF CycleWithin, IsCycle

(* A cycle through g is found by the compilation that starts at g. *)
LEMMA CycleThrough ==
    ASSUME NEW store \in Stores, NEW other \in Stores, SameShape(store, other, Groups),
           NEW S \in SUBSET Groups, IsCycle(other, S), NEW g \in S
    PROVE  store[g].enabled /\ CycleFrom(store, g)
<1> DEFINE T == {i \in S : Reaches(store, g, i)}
<1>1. \A i \in S : store[i].enabled
  BY DEF IsCycle, SameShape
<1>2. T \in SUBSET {h \in Present(store) : Reaches(store, g, h)}
  BY <1>1, StoreTypes DEF Present
<1>3. g \in T
  BY DEF Reaches
<1>4. ASSUME NEW i \in T
      PROVE  Nested(store, i) \cap T # {}
  <2>1. PICK h \in S : h \in Nested(other, i)
    BY DEF IsCycle
  <2>2. h \in Nested(store, i)
    BY <2>1 DEF Nested, SameShape
  <2>3. Reaches(store, g, h)
    <3> SUFFICES ASSUME NEW C \in SUBSET Groups, g \in C,
                        \A j \in C : Nested(store, j) \subseteq C
                 PROVE  h \in C
      BY DEF Reaches
    <3>1. i \in C
      BY DEF Reaches
    <3> QED
      BY <3>1, <2>2
  <2> QED
    BY <2>2, <2>3
<1> HIDE DEF T
<1>5. CycleWithin(store, {h \in Present(store) : Reaches(store, g, h)})
  <2>1. \A i \in T : store[i].enabled
    BY <1>1 DEF T
  <2> QED
    BY <2>1, <1>2, <1>3, <1>4 DEF CycleWithin
<1> QED
  BY <1>1, <1>5 DEF CycleFrom

(* Replacing g by an input that Validates, under any revision and with any pins, *)
(* leaves no cycle where there was none.                                          *)
LEMMA ValidatedHasNoCycle ==
    ASSUME NEW store \in Stores, NEW g \in Groups, NEW input \in Definitions, NEW d \in Definitions,
           Validates(store, g, input),
           d.enabled = input.enabled, d.stages.nests = input.stages.nests,
           ~CycleWithin(store, Present(store))
    PROVE  ~CycleWithin([store EXCEPT ![g] = d], Present([store EXCEPT ![g] = d]))
<1> DEFINE tried == [store EXCEPT ![g] = input]
           new == [store EXCEPT ![g] = d]
<1>1. tried \in Stores /\ new \in Stores
  BY DEF Stores
<1>2. SameShape(tried, new, Groups) /\ SameShape(store, new, Groups \ {g}) /\ tried[g] = input
  BY DEF Stores, SameShape
<1> HIDE DEF tried, new
<1> SUFFICES ASSUME CycleWithin(new, Present(new))
             PROVE  FALSE
  BY DEF new
<1>3. PICK S \in SUBSET Groups : IsCycle(new, S)
  BY DEF CycleWithin, IsCycle, Present
<1>4. CASE g \in S
  <2>1. tried[g].enabled /\ CycleFrom(tried, g)
    BY <1>1, <1>2, <1>3, <1>4, CycleThrough
  <2> QED
    BY <2>1, <1>2 DEF Validates, tried
<1>5. CASE g \notin S
  <2>1. S \in SUBSET (Groups \ {g})
    BY <1>5
  <2>2. CycleWithin(store, Present(store))
    BY <1>1, <1>2, <1>3, <2>1, CycleElsewhere
  <2> QED
    BY <2>2
<1> QED
  BY <1>4, <1>5

(* A change that alters neither what is enabled nor what it nests, or a deletion. *)
LEMMA NoNewCycle ==
    ASSUME NEW store \in Stores, NEW g \in Groups, NEW d \in Maybe,
           d = Absent \/ (d.enabled = store[g].enabled /\ d.stages.nests = store[g].stages.nests),
           ~CycleWithin(store, Present(store))
    PROVE  ~CycleWithin([store EXCEPT ![g] = d], Present([store EXCEPT ![g] = d]))
<1> DEFINE new == [store EXCEPT ![g] = d]
<1>1. new \in Stores
  BY DEF Stores, Maybe
<1>2. SameShape(store, new, Groups \ {g}) /\ new[g] = d
  BY DEF Stores, SameShape
<1> HIDE DEF new
<1> SUFFICES ASSUME CycleWithin(new, Present(new))
             PROVE  FALSE
  BY DEF new
<1>3. PICK S \in SUBSET Groups : IsCycle(new, S)
  BY DEF CycleWithin, IsCycle, Present
<1>4. CASE g \notin S
  <2>1. S \in SUBSET (Groups \ {g})
    BY <1>4
  <2>2. CycleWithin(store, Present(store))
    BY <1>1, <1>2, <1>3, <2>1, CycleElsewhere
  <2> QED
    BY <2>2
<1>5. CASE g \in S
  <2>1. d # Absent
    BY <1>2, <1>3, <1>5, AbsentIsNone DEF IsCycle
  <2>2. SameShape(store, new, Groups)
    BY <2>1, <1>2 DEF SameShape
  <2>3. store[g].enabled /\ CycleFrom(store, g)
    BY <1>1, <1>3, <1>5, <2>2, CycleThrough
  <2> QED
    BY <2>3 DEF CycleFrom, CycleWithin
<1> QED
  BY <1>4, <1>5

-----------------------------------------------------------------------------
(* The states at rest have their types. *)
LEMMA RestTypes ==
    /\ EditorAtRest \in EditorStates /\ EditorAtRest.pc = "idle"
    /\ EditDone \in EditorStates /\ EditDone.pc = "done"
    /\ NoList \in Stores /\ SyncAtRest \in Syncs /\ SyncAtRest.pc = "idle" /\ SyncAtRest.todo = {}
    /\ NoReload \in Reloads /\ NoReload.pc = "idle" /\ NoReload.at = 0
<1>1. (CHOOSE g \in Groups : TRUE) \in Groups
  BY GroupStoreConstants
<1>2. 0 \in 0 .. MaxEdits
  BY GroupStoreConstants
<1>3. EditorAtRest \in EditorStates /\ EditorAtRest.pc = "idle"
  BY <1>1, <1>2 DEF EditorAtRest, EditorStates, Maybe
<1>4. EditDone \in EditorStates /\ EditDone.pc = "done"
  BY <1>3 DEF EditDone, EditorStates
<1>5. NoList \in Stores
  BY DEF NoList, Stores
<1>6. SyncAtRest \in Syncs /\ SyncAtRest.pc = "idle" /\ SyncAtRest.todo = {}
  BY <1>5 DEF SyncAtRest, Syncs
<1>7. NoReload \in Reloads /\ NoReload.pc = "idle" /\ NoReload.at = 0
  BY <1>2, <1>5 DEF NoReload, Reloads
<1> QED
  BY <1>3, <1>4, <1>5, <1>6, <1>7

(* What was seen before a step is, after it, still what is stored, or outdated. *)
KeepsSeen ==
    \A what \in Maybe, g \in Groups : /\ SeenRow(what, g) => SeenRow(what, g)'
                                      /\ SeenWhole(what, g) => SeenWhole(what, g)'

(* A change of one group, one edit later; what was read in a query stays outdated. *)
LEMMA SavedFacts ==
    ASSUME GroupTypes, StoreInv, NEW g \in Groups, g \notin deleted, NEW input \in Definitions,
           Saved(g, input), deleted' = deleted
    PROVE  /\ stored' \in Stores /\ stored'[g] \in Definitions
           /\ stored' = [stored EXCEPT ![g] = [input EXCEPT !.rev = stored[g].rev + 1]]
           /\ stored'[g].stages = input.stages /\ stored'[g].enabled = input.enabled
           /\ stored'[g].rev = stored[g].rev + 1
           /\ \A h \in Groups \ {g} : stored'[h] = stored[h]
           /\ edits' = edits + 1 /\ edits' \in 0 .. MaxEdits
           /\ StoreInv' /\ KeepsSeen
<1> DEFINE d == [input EXCEPT !.rev = stored[g].rev + 1]
<1>1. edits' = edits + 1 /\ edits' \in 0 .. MaxEdits
  BY GroupStoreConstants DEF Saved, Edited, GroupTypes
<1>2. stored[g].rev + 1 \in Revisions
  BY <1>1, StoreTypes, GroupStoreConstants DEF GroupTypes, StoreInv, Revisions
<1>3. d \in Definitions /\ d.rev = stored[g].rev + 1 /\ d.enabled = input.enabled
      /\ d.stages = input.stages
  BY <1>2, DefinitionUpdates
<1>4. stored' = [stored EXCEPT ![g] = d]
  BY DEF Saved
<1> HIDE DEF d
<1>5. stored' \in Stores /\ stored'[g] = d /\ \A h \in Groups \ {g} : stored'[h] = stored[h]
  BY <1>3, <1>4 DEF GroupTypes, Stores
<1>6. StoreInv'
  <2>1. \A h \in Groups : stored[h].rev \in Nat /\ stored[h].rev <= edits + 1
    BY StoreTypes DEF GroupTypes, StoreInv
  <2>2. \A h \in Groups : stored'[h].rev <= edits' + 1
    BY <1>1, <1>3, <1>5, <2>1 DEF GroupTypes
  <2>3. \A h \in Groups : h \in deleted' => stored'[h] = Absent
    BY <1>5 DEF StoreInv
  <2> QED
    BY <2>2, <2>3 DEF StoreInv
<1>7. KeepsSeen
  <2>1. \A h \in Groups \ {g} : stored'[h] = stored[h] /\ Row(h)' = Row(h)
    BY <1>5 DEF Row
  <2>2. ASSUME NEW what \in Definitions, SeenRow(what, g) \/ SeenWhole(what, g)
        PROVE  what.rev < stored'[g].rev
    <3>1. what.rev \in Nat /\ stored[g].rev \in Nat /\ Row(g).rev = stored[g].rev
      BY DefinitionFields, StoreTypes, RowFacts DEF GroupTypes
    <3>2. what.rev <= stored[g].rev
      BY <3>1, <2>2 DEF SeenRow, SeenWhole, Outdated
    <3> QED
      BY <1>3, <1>5, <3>1, <3>2
  <2>3. \A what \in Maybe, h \in Groups \ {g} : /\ SeenRow(what, h) => SeenRow(what, h)'
                                                /\ SeenWhole(what, h) => SeenWhole(what, h)'
    <3> SUFFICES ASSUME NEW what \in Maybe, NEW h \in Groups \ {g}
                 PROVE  /\ SeenRow(what, h) => SeenRow(what, h)'
                        /\ SeenWhole(what, h) => SeenWhole(what, h)'
      OBVIOUS
    <3>1. stored'[h] = stored[h] /\ Row(h)' = Row(h)
      BY <2>1
    <3>2. Outdated(what, h) => Outdated(what, h)'
      BY <3>1 DEF Outdated
    <3> QED
      BY <3>1, <3>2, Zenon DEF SeenRow, SeenWhole
  <2> SUFFICES ASSUME NEW what \in Maybe, NEW h \in Groups
               PROVE  /\ SeenRow(what, h) => SeenRow(what, h)'
                      /\ SeenWhole(what, h) => SeenWhole(what, h)'
    BY DEF KeepsSeen
  <2>4. CASE h = g
    <3>1. stored'[h] = stored'[g] /\ stored[h] = stored[g]
      BY <2>4
    <3> QED
      BY <2>2, <2>4, <3>1 DEF SeenRow, SeenWhole, Outdated
  <2>5. CASE h # g
    BY <2>3, <2>5
  <2> QED
    BY <2>4, <2>5
<1> QED
  BY <1>1, <1>3, <1>4, <1>5, <1>6, <1>7 DEF d

(* A group that is deleted, which does not come back under its id. *)
LEMMA DeletedFacts ==
    ASSUME GroupTypes, StoreInv, NEW g \in Groups,
           stored' = [stored EXCEPT ![g] = Absent], deleted' = deleted \cup {g}, Edited
    PROVE  /\ stored' \in Stores /\ stored'[g] = Absent
           /\ \A h \in Groups \ {g} : stored'[h] = stored[h]
           /\ edits' = edits + 1 /\ edits' \in 0 .. MaxEdits /\ deleted' \in SUBSET Groups
           /\ StoreInv' /\ KeepsSeen
<1>1. edits' = edits + 1 /\ edits' \in 0 .. MaxEdits
  BY GroupStoreConstants DEF Edited, GroupTypes
<1>2. /\ stored' \in Stores /\ stored'[g] = Absent
      /\ \A h \in Groups \ {g} : stored'[h] = stored[h]
  BY DEF GroupTypes, Stores
<1>3. StoreInv'
  <2>1. \A h \in Groups : stored[h].rev \in Nat /\ stored[h].rev <= edits + 1
    BY StoreTypes DEF GroupTypes, StoreInv
  <2>2. \A h \in Groups : stored'[h].rev <= edits' + 1
    BY <1>1, <1>2, <2>1, AbsentIsNone DEF GroupTypes
  <2>3. \A h \in Groups : h \in deleted' => stored'[h] = Absent
    BY <1>2 DEF StoreInv
  <2> QED
    BY <2>2, <2>3 DEF StoreInv
<1>4. KeepsSeen
  <2> SUFFICES ASSUME NEW h \in Groups, h \notin deleted'
               PROVE  stored'[h] = stored[h] /\ Row(h)' = Row(h)
    BY DEF KeepsSeen, SeenRow, SeenWhole, Outdated
  <2> QED
    BY <1>2 DEF Row
<1> QED
  BY <1>1, <1>2, <1>3, <1>4 DEF GroupTypes

(* Steps that leave the tables alone. *)
LEMMA UnchangedStore ==
    ASSUME GroupTypes, StoreInv, UNCHANGED <<stored, deleted, edits>>
    PROVE  StoreInv' /\ KeepsSeen
  BY DEF StoreInv, KeepsSeen, SeenRow, SeenWhole, Outdated, Row

(* The other editors, in a step that does not save their group. *)
LEMMA EditorStays ==
    ASSUME GroupTypes, KeepsSeen, NEW w \in Editors, EditorInv(w), editor'[w] = editor[w],
           reload'[w].pc = reload[w].pc, edits' \in 0 .. MaxEdits,
           edits' = edits + 1 \/ (edits' = edits /\ stored' = stored),
           editor[w].pc = "save" /\ Creates(w) => Creates(w)'
    PROVE  EditorInv(w)'
<1> DEFINE e == editor[w]
<1>1. e.group \in Groups /\ e.seen \in Maybe /\ e.pc = editor[w].pc
  BY DEF GroupTypes, EditorStates
<1>2. /\ SeenRow(e.seen, e.group) => SeenRow(e.seen, e.group)'
      /\ SeenWhole(e.seen, e.group) => SeenWhole(e.seen, e.group)'
  BY <1>1 DEF KeepsSeen, SeenRow, SeenWhole, Outdated, Row
<1>3. e.pc = "get" => SeenRow(e.seen, e.group)'
  BY <1>2 DEF EditorInv
<1>4. e.pc = "edit" => SeenWhole(e.seen, e.group)'
  BY <1>2 DEF EditorInv
<1>5. ASSUME e.pc = "save"
      PROVE  SaveInv(w)'
  <2>1. SaveInv(w)
    BY <1>5 DEF EditorInv
  <2>2. SeenWhole(e.seen, e.group)' \/ Creates(w)'
    BY <1>2, <1>5, <2>1 DEF SaveInv
  <2>3. e.input \in Definitions /\ e.at <= edits' /\ e.input.stages.pinned = e.seen.stages.pinned
    BY <2>1 DEF SaveInv, GroupTypes, EditorStates
  <2>4. e.at = edits' => edits' = edits /\ stored' = stored
    BY <2>1 DEF SaveInv, GroupTypes, EditorStates
  <2>5. e.at = edits' => Validates(stored', e.group, e.input)
    BY <2>1, <2>4 DEF SaveInv
  <2> QED
    BY <2>2, <2>3, <2>5 DEF SaveInv, SeenWhole, Outdated
<1>6. e.pc # "done" => reload'[w].pc = "idle"
  BY DEF EditorInv
<1> QED
  BY <1>3, <1>4, <1>5, <1>6 DEF EditorInv, SeenRow, SeenWhole, Outdated, Row

(* All editors but the one that moves, if any. *)
LEMMA EditorsStay ==
    ASSUME GroupTypes, KeepsSeen, \A v \in Editors : EditorInv(v), NEW W \in SUBSET Editors,
           \A v \in Editors \ W : editor'[v] = editor[v] /\ reload'[v].pc = reload[v].pc,
           edits' \in 0 .. MaxEdits,
           edits' = edits + 1 \/ (edits' = edits /\ stored' = stored),
           \A v \in Editors \ W :
               editor[v].pc = "save" /\ Creates(v) =>
                   /\ stored'[editor[v].group] = Absent /\ editor[v].group \notin deleted'
                   /\ \A w \in W : editor'[w].pc = "save" => editor'[w].group # editor[v].group
    PROVE  \A v \in Editors \ W : EditorInv(v)'
<1> SUFFICES ASSUME NEW v \in Editors \ W
             PROVE  EditorInv(v)'
  OBVIOUS
<1>1. ASSUME editor[v].pc = "save", Creates(v)
      PROVE  Creates(v)'
  <2>1. \A u \in Editors \ {v} : editor'[u].pc = "save" => editor'[u].group # editor[v].group
    BY <1>1 DEF Creates
  <2> QED
    BY <1>1, <2>1 DEF Creates
<1> QED
  BY <1>1, EditorStays

(* A sync that does not move. *)
LEMMA SyncStays ==
    ASSUME GroupTypes, SyncInv, KeepsSeen, sync' = sync
    PROVE  SyncInv'
<1>1. \A g \in Groups : sync.list[g] \in Maybe
  BY StoreTypes DEF GroupTypes, Syncs
<1>2. ASSUME sync.pc = "stages", NEW g \in Groups
      PROVE  sync.list[g] = Absent \/ SeenRow(sync.list[g], g)'
  BY <1>1, <1>2 DEF SyncInv, KeepsSeen
<1>3. ASSUME sync.pc = "save", NEW g \in sync.todo
      PROVE  SeenWhole(sync.list[g], g)'
  BY <1>1, <1>3 DEF SyncInv, KeepsSeen, GroupTypes, Syncs
<1> QED
  BY <1>2, <1>3 DEF SyncInv, SeenRow, SeenWhole, Outdated, Row

(* The dates, in a step that neither edits nor reloads. *)
LEMMA ReloadStays ==
    ASSUME GroupTypes, ReloadInv, UNCHANGED <<stored, cache, edits, reload, cachedAt, readAt>>,
           aborted => aborted', sync.pc = "save" => sync'.pc = "save" \/ aborted'
    PROVE  ReloadInv'
  BY DEF ReloadInv

(* The dates after an edit, which is going to be read. *)
LEMMA EditedReload ==
    ASSUME GroupTypes, ReloadInv, edits' = edits + 1, UNCHANGED <<cachedAt, readAt>>,
           \/ \E p \in Processes : StartReload(p)
           \/ UNCHANGED reload /\ sync'.pc = "save"
    PROVE  ReloadInv' /\ reload' \in [Processes -> Reloads]
<1>1. /\ reload' \in [Processes -> Reloads]
      /\ \A p \in Processes : reload'[p].at = reload[p].at
      /\ sync'.pc = "save" \/ \E p \in Processes : reload'[p].pc = "read"
  BY DEF GroupTypes, Reloads, StartReload
<1>2. \A p \in Processes : reload[p].at <= edits /\ reload[p].at \in Nat
  BY GroupStoreConstants DEF GroupTypes, ReloadInv, Reloads
<1> QED
  BY <1>1, <1>2 DEF ReloadInv, GroupTypes

(* The groups that nest and that are enabled are stored as they were. *)
LEMMA ShapeStays ==
    ASSUME ReferencesResolve, EnabledCyclesOnlyFromRaces, UNCHANGED <<stored, raced>>
    PROVE  ReferencesResolve' /\ EnabledCyclesOnlyFromRaces'
  BY DEF ReferencesResolve, EnabledCyclesOnlyFromRaces, Closed, CycleWithin, Present, Nested

(* Who has seen a group whole is not somebody who creates it. *)
LEMMA SeenIsNotCreated ==
    ASSUME GroupTypes, NEW g \in Groups, NEW what, SeenRow(what, g) \/ SeenWhole(what, g),
           stored[g] = Absent
    PROVE  g \in deleted
<1>1. what \in Definitions /\ what.rev \in Nat \ {0} /\ what # Absent
  BY DefinitionFields, AbsentIsNone DEF SeenRow, SeenWhole
<1>2. Row(g) = Absent /\ stored[g].rev = 0
  BY RowFacts, AbsentIsNone
<1> QED
  BY <1>1, <1>2 DEF SeenRow, SeenWhole, Outdated

(* What was seen, if its revision is the stored one and it exists, is what is stored. *)
LEMMA MatchedIsStored ==
    ASSUME GroupTypes, StoreInv, NEW g \in Groups, NEW what, SeenWhole(what, g),
           RevisionMatches(g, what)
    PROVE  what = stored[g] /\ g \notin deleted /\ stored[g] \in Definitions
<1>1. what \in Definitions /\ what.rev \in Nat \ {0}
  BY DefinitionFields DEF SeenWhole
<1>2. stored[g] # Absent
  BY <1>1, AbsentIsNone DEF RevisionMatches
<1>3. g \notin deleted
  BY <1>2 DEF StoreInv
<1> QED
  BY <1>1, <1>3 DEF SeenWhole, Outdated, RevisionMatches

-----------------------------------------------------------------------------
(* The handlers of an editor up to a save or a delete: only the editor moves. *)
LEMMA EditorMoves ==
    ASSUME GroupInv, NEW w \in Editors, editor' \in [Editors -> EditorStates],
           UNCHANGED <<stored, deleted, cache, sync, reload, edits, histories>>,
           \A v \in Editors \ {w} : editor'[v] = editor[v],
           EditorInv(w)',
           editor'[w].pc = "save" =>
               \A v \in Editors \ {w} : editor[v].pc = "save" /\ Creates(v) =>
                                           editor'[w].group # editor[v].group
    PROVE  GroupInv'
<1>1. GroupTypes' /\ edits' = edits /\ edits' \in 0 .. MaxEdits
  BY DEF GroupInv, GroupTypes, histories
<1>2. StoreInv' /\ KeepsSeen
  BY UnchangedStore DEF GroupInv
<1>3. \A v \in Editors \ {w} : EditorInv(v)'
  <2>1. \A v \in Editors \ {w} : editor[v].pc = "save" /\ Creates(v) =>
            /\ stored'[editor[v].group] = Absent /\ editor[v].group \notin deleted'
            /\ \A u \in {w} : editor'[u].pc = "save" => editor'[u].group # editor[v].group
    BY DEF Creates
  <2> QED
    BY <1>1, <1>2, <2>1, EditorsStay DEF GroupInv
<1>4. SyncInv'
  BY <1>2, SyncStays DEF GroupInv
<1>5. ReloadInv'
  BY ReloadStays DEF GroupInv, histories
<1>6. ReferencesResolve' /\ EnabledCyclesOnlyFromRaces'
  BY ShapeStays DEF GroupInv, histories
<1> QED
  BY <1>1, <1>2, <1>3, <1>4, <1>5, <1>6 DEF GroupInv

(* Opening the editor. *)
LEMMA OpenEditorStep ==
    ASSUME GroupInv, NEW w \in Editors, NEW g \in Groups, OpenEditor(w, g)
    PROVE  GroupInv'
<1>1. Row(g) \in Definitions /\ Row(g) \in Maybe
  BY RowFacts DEF GroupInv, OpenEditor, Maybe
<1>2. /\ editor' \in [Editors -> EditorStates]
      /\ \A v \in Editors \ {w} : editor'[v] = editor[v]
      /\ editor'[w].pc = "get" /\ editor'[w].group = g /\ editor'[w].seen = Row(g)
  BY SMTT(30), ZenonT(60), <1>1 DEF OpenEditor, GroupInv, GroupTypes, EditorStates
<1>3. EditorInv(w)'
  <2>1. SeenRow(editor[w].seen, editor[w].group)'
    BY <1>1, <1>2 DEF SeenRow, OpenEditor, Row
  <2>2. reload'[w].pc = "idle"
    BY DEF OpenEditor, GroupInv, EditorInv
  <2> QED
    BY <1>2, <2>1, <2>2 DEF EditorInv
<1> QED
  BY <1>2, <1>3, EditorMoves DEF OpenEditor

(* The second query of Get. *)
LEMMA GetStagesStep ==
    ASSUME GroupInv, NEW w \in Editors, GetStages(w)
    PROVE  GroupInv'
<1> DEFINE e == editor[w]
           whole == WithStages(e.seen, e.group)
<1>1. e.seen \in Definitions /\ e.group \in Groups /\ SeenRow(e.seen, e.group)
  BY DEF GroupInv, GroupTypes, EditorStates, EditorInv, GetStages, SeenRow
<1>2. whole \in Definitions /\ whole.rev = e.seen.rev
  BY <1>1, WithStagesType DEF GroupInv, Maybe
<1>3. SeenWhole(whole, e.group)
  <2>1. CASE Outdated(e.seen, e.group)
    BY <1>2, <2>1 DEF SeenWhole, Outdated
  <2>2. CASE e.seen = Row(e.group)
    BY <1>1, <1>2, <2>2, RowFacts, AbsentIsNone DEF SeenWhole, GroupInv
  <2> QED
    BY <1>1, <2>1, <2>2 DEF SeenRow
<1>4. /\ editor' \in [Editors -> EditorStates]
      /\ \A v \in Editors \ {w} : editor'[v] = editor[v]
      /\ editor'[w].pc = "edit" /\ editor'[w].group = e.group /\ editor'[w].seen = whole
  BY SMTT(30), ZenonT(60), <1>2 DEF GetStages, GroupInv, GroupTypes, EditorStates, Maybe
<1> HIDE DEF whole
<1>5. EditorInv(w)'
  <2>1. SeenWhole(editor[w].seen, editor[w].group)'
    BY <1>3, <1>4 DEF SeenWhole, Outdated, GetStages
  <2>2. reload'[w].pc = "idle"
    BY DEF GetStages, GroupInv, EditorInv
  <2> QED
    BY <1>4, <2>1, <2>2 DEF EditorInv
<1> QED
  BY <1>4, <1>5, EditorMoves DEF GetStages

(* What users submit is a definition, with the pins that were read. *)
LEMMA DefinedType ==
    ASSUME NEW input \in Inputs, NEW rev \in Revisions, NEW pinned \in SUBSET Sources
    PROVE  /\ Defined(rev, input, pinned) \in Definitions
           /\ Defined(rev, input, pinned).stages.pinned = pinned
           /\ Defined(rev, input, pinned).rev = rev
<1>1. input \in [enabled: BOOLEAN, nests: SUBSET Groups, follows: BOOLEAN]
  BY GroupStoreConstants
<1>2. Defined(rev, input, pinned).stages \in Stages
  BY <1>1 DEF Defined, Stages
<1> QED
  BY <1>1, <1>2 DEF Defined, Definitions

(* A group is submitted that was opened. *)
LEMMA SubmitStep ==
    ASSUME GroupInv, NEW w \in Editors, NEW user \in Inputs,
           Submit(w, Defined(editor[w].seen.rev, user, editor[w].seen.stages.pinned))
    PROVE  GroupInv'
<1> DEFINE e == editor[w]
           input == Defined(e.seen.rev, user, e.seen.stages.pinned)
<1>1. SeenWhole(e.seen, e.group) /\ e.group \in Groups /\ e.seen \in Definitions
  BY DEF GroupInv, GroupTypes, EditorStates, EditorInv, Submit, SeenWhole
<1>2. input \in Definitions /\ input.stages.pinned = e.seen.stages.pinned
  BY <1>1, DefinitionFields, DefinedType
<1> HIDE DEF input
<1>3. Submit(w, input)
  BY DEF input
<1>4. /\ editor' \in [Editors -> EditorStates]
      /\ \A v \in Editors \ {w} : editor'[v] = editor[v]
      /\ editor'[w].pc = "save" /\ editor'[w].group = e.group /\ editor'[w].seen = e.seen
      /\ editor'[w].input = input /\ editor'[w].at = edits
  <2>1. editor' = [editor EXCEPT ![w].pc = "save", ![w].input = input, ![w].at = edits]
    BY <1>3 DEF Submit
  <2>2. editor \in [Editors -> EditorStates] /\ edits \in 0 .. MaxEdits /\ input \in Maybe
    BY <1>2 DEF GroupInv, GroupTypes, Maybe
  <2> QED
    BY <2>1, <2>2 DEF EditorStates
<1>5. EditorInv(w)'
  <2>1. SeenWhole(editor[w].seen, editor[w].group)'
    BY <1>1, <1>3, <1>4 DEF SeenWhole, Outdated, Submit
  <2>2. Validates(stored, e.group, input) /\ stored' = stored /\ edits' = edits /\ edits \in Nat
    BY <1>3, GroupStoreConstants DEF Submit, GroupInv, GroupTypes
  <2>3. SaveInv(w)'
    BY <1>2, <1>4, <2>1, <2>2 DEF SaveInv
  <2>4. reload'[w].pc = "idle"
    BY <1>3 DEF Submit, GroupInv, EditorInv
  <2> QED
    BY <1>4, <2>3, <2>4 DEF EditorInv
<1>6. \A v \in Editors \ {w} : editor[v].pc = "save" /\ Creates(v) => e.group # editor[v].group
  BY <1>1, SeenIsNotCreated DEF Creates, GroupInv
<1>7. UNCHANGED <<stored, deleted, cache, sync, reload, edits, histories>>
  BY <1>3 DEF Submit
<1>8. \A v \in Editors \ {w} : editor[v].pc = "save" /\ Creates(v) =>
          editor'[w].group # editor[v].group
  BY <1>4, <1>6
<1> QED
  BY <1>4, <1>5, <1>7, <1>8, EditorMoves

(* A new group is submitted. *)
LEMMA SubmitNewStep ==
    ASSUME GroupInv, NEW w \in Editors, NEW user \in Inputs, NEW g \in Groups,
           SubmitNew(w, g, Defined(1, user, {}))
    PROVE  GroupInv'
<1> DEFINE input == Defined(1, user, {})
<1>1. input \in Definitions /\ input.stages.pinned = {}
  <2>1. 1 \in Revisions
    BY GroupStoreConstants DEF Revisions
  <2> QED
    BY <2>1, DefinedType
<1> HIDE DEF input
<1>2. SubmitNew(w, g, input)
  BY DEF input
<1>3. edits \in 0 .. MaxEdits /\ edits \in Nat
  BY GroupStoreConstants DEF GroupInv, GroupTypes
<1>4. /\ editor' \in [Editors -> EditorStates]
      /\ \A v \in Editors \ {w} : editor'[v] = editor[v]
      /\ editor'[w].pc = "save" /\ editor'[w].group = g /\ editor'[w].seen = Absent
      /\ editor'[w].input = input /\ editor'[w].at = edits
  BY <1>1, <1>2, <1>3 DEF SubmitNew, GroupInv, GroupTypes, EditorStates, Maybe
<1>5. EditorInv(w)'
  <2>1. Creates(w)'
    BY <1>2, <1>4 DEF Creates, SubmitNew
  <2>2. Validates(stored, g, input) /\ stored' = stored /\ edits' = edits
    BY <1>2 DEF SubmitNew
  <2>3. SaveInv(w)'
    BY <1>1, <1>3, <1>4, <2>1, <2>2, AbsentIsNone DEF SaveInv
  <2>4. reload'[w].pc = "idle"
    BY <1>2 DEF SubmitNew, GroupInv, EditorInv
  <2> QED
    BY <1>4, <2>3, <2>4 DEF EditorInv
<1>6. \A v \in Editors \ {w} : editor[v].pc = "save" /\ Creates(v) => g # editor[v].group
  BY <1>2 DEF SubmitNew
<1> QED
  BY <1>2, <1>4, <1>5, <1>6, EditorMoves DEF SubmitNew

(* A save that is refused. *)
LEMMA SaveRefusedStep ==
    ASSUME GroupInv, NEW w \in Editors, SaveRefused(w)
    PROVE  GroupInv'
<1>1. /\ editor' \in [Editors -> EditorStates]
      /\ \A v \in Editors \ {w} : editor'[v] = editor[v]
      /\ editor'[w].pc = "done"
  BY RestTypes DEF SaveRefused, GroupInv, GroupTypes
<1>2. EditorInv(w)'
  BY <1>1 DEF EditorInv
<1> QED
  BY <1>1, <1>2, EditorMoves DEF SaveRefused

-----------------------------------------------------------------------------
(* The foreign keys: a stored definition nests what is there. *)
LEMMA SavedResolves ==
    ASSUME GroupTypes, ReferencesResolve, NEW g \in Groups, NEW input \in Definitions,
           ReferencesExist(input), stored' \in Stores, stored'[g] \in Definitions,
           stored'[g].stages = input.stages, \A h \in Groups \ {g} : stored'[h] = stored[h]
    PROVE  ReferencesResolve'
<1>1. Present(stored) \subseteq Present(stored')
  BY AbsentIsNone DEF Present
<1>2. ASSUME NEW h \in Present(stored')
      PROVE  stored'[h].stages.nests \subseteq Present(stored')
  <2>1. CASE h = g
    BY <1>1, <2>1 DEF ReferencesExist
  <2>2. CASE h # g
    BY <1>1, <1>2, <2>2 DEF ReferencesResolve, Closed, Present
  <2> QED
    BY <2>1, <2>2
<1> QED
  BY <1>2 DEF ReferencesResolve, Closed

(* A save that succeeds replaces what its author read. *)
LEMMA SaveReplacesSeen ==
    ASSUME GroupInv, NEW w \in Editors, editor[w].pc = "save",
           RevisionMatches(editor[w].group, editor[w].seen)
    PROVE  /\ stored[editor[w].group] = editor[w].seen
           /\ editor[w].group \in Groups /\ editor[w].group \notin deleted
<1>1. editor[w].group \in Groups /\ SaveInv(w)
  BY DEF GroupInv, GroupTypes, EditorStates, EditorInv
<1>2. CASE SeenWhole(editor[w].seen, editor[w].group)
  BY <1>1, <1>2, MatchedIsStored DEF GroupInv
<1>3. CASE Creates(w)
  BY <1>1, <1>3 DEF Creates
<1> QED
  BY <1>1, <1>2, <1>3 DEF SaveInv

(* Saving a group, old or new. *)
LEMMA SaveGroupStep ==
    ASSUME GroupInv, NEW w \in Editors, SaveGroup(w)
    PROVE  GroupInv'
<1> DEFINE g == editor[w].group
           input == editor[w].input
           d == [input EXCEPT !.rev = stored[g].rev + 1]
<1>1. g \in Groups /\ g \notin deleted /\ SaveInv(w) /\ input \in Definitions
  BY SaveReplacesSeen DEF SaveGroup, GroupInv, EditorInv, SaveInv
<1>2. /\ Saved(g, input) /\ deleted' = deleted /\ ReferencesExist(input) /\ StartReload(w)
      /\ UNCHANGED <<cache, sync, cachedAt, readAt, aborted>>
      /\ raced' = (raced \/ editor[w].at # edits)
      /\ editor' = [editor EXCEPT ![w] = EditDone]
  BY DEF SaveGroup
<1>3. /\ stored' \in Stores /\ stored'[g] \in Definitions
      /\ stored' = [stored EXCEPT ![g] = d]
      /\ stored'[g].stages = input.stages /\ stored'[g].enabled = input.enabled
      /\ \A h \in Groups \ {g} : stored'[h] = stored[h]
      /\ edits' = edits + 1 /\ edits' \in 0 .. MaxEdits /\ StoreInv' /\ KeepsSeen
  BY <1>1, <1>2, SavedFacts DEF GroupInv
<1>4. w \in Processes /\ ReloadInv' /\ reload' \in [Processes -> Reloads]
  BY <1>2, <1>3, EditedReload DEF GroupInv, Processes
<1>5. /\ editor' \in [Editors -> EditorStates] /\ editor'[w].pc = "done"
      /\ \A v \in Editors \ {w} : editor'[v] = editor[v]
  BY <1>2, RestTypes DEF GroupInv, GroupTypes
<1>6. GroupTypes'
  BY <1>2, <1>3, <1>4, <1>5 DEF GroupInv, GroupTypes
<1>7. \A v \in Editors : EditorInv(v)'
  <2>1. \A v \in Editors \ {w} : editor[v].pc = "save" /\ Creates(v) =>
            /\ stored'[editor[v].group] = Absent /\ editor[v].group \notin deleted'
            /\ \A u \in {w} : editor'[u].pc = "save" => editor'[u].group # editor[v].group
    <3>1. ASSUME NEW v \in Editors \ {w}, editor[v].pc = "save", Creates(v)
          PROVE  stored'[editor[v].group] = Absent /\ editor[v].group \notin deleted'
      <4>1. editor[v].group # g /\ editor[v].group \in Groups
        BY <3>1 DEF Creates, SaveGroup, GroupInv, GroupTypes, EditorStates
      <4> QED
        BY <3>1, <4>1, <1>2, <1>3 DEF Creates
    <3> QED
      BY <3>1, <1>5
  <2>2. \A v \in Editors \ {w} : reload'[v].pc = reload[v].pc
    BY <1>2 DEF StartReload, GroupInv, GroupTypes, Reloads, Processes
  <2>3. \A v \in Editors \ {w} : EditorInv(v)'
    BY <1>3, <1>5, <2>1, <2>2, EditorsStay DEF GroupInv
  <2>4. EditorInv(w)'
    BY <1>5 DEF EditorInv
  <2> QED
    BY <2>3, <2>4
<1>8. SyncInv'
  BY <1>2, <1>3, SyncStays DEF GroupInv
<1>9. ReferencesResolve'
  BY <1>1, <1>2, <1>3, SavedResolves DEF GroupInv
<1>10. EnabledCyclesOnlyFromRaces'
  <2> SUFFICES ASSUME ~raced, editor[w].at = edits
               PROVE  ~CycleWithin(stored', Present(stored'))
    BY <1>2 DEF EnabledCyclesOnlyFromRaces
  <2>1. Validates(stored, g, input)
    BY <1>1 DEF SaveInv
  <2>2. d \in Definitions /\ d.enabled = input.enabled /\ d.stages = input.stages
    BY <1>1, <1>3 DEF GroupInv, GroupTypes, Stores
  <2>3. ~CycleWithin(stored, Present(stored)) /\ stored \in Stores
    BY DEF GroupInv, GroupTypes, EnabledCyclesOnlyFromRaces
  <2> HIDE DEF d, g, input
  <2>4. ~CycleWithin([stored EXCEPT ![g] = d], Present([stored EXCEPT ![g] = d]))
    BY <1>1, <2>1, <2>2, <2>3, ValidatedHasNoCycle
  <2> QED
    BY <1>3, <2>4
<1> QED
  BY <1>3, <1>4, <1>6, <1>7, <1>8, <1>9, <1>10 DEF GroupInv

(* Deleting a group that no other nests. *)
LEMMA DeleteGroupStep ==
    ASSUME GroupInv, NEW w \in Editors, DeleteGroup(w)
    PROVE  GroupInv'
<1> DEFINE g == editor[w].group
<1>1. g \in Groups /\ stored[g] \in Definitions /\ stored[g] # Absent
  <2>1. SeenWhole(editor[w].seen, g) /\ g \in Groups
    BY DEF DeleteGroup, GroupInv, GroupTypes, EditorStates, EditorInv
  <2> QED
    BY <2>1, MatchedIsStored, AbsentIsNone DEF DeleteGroup, GroupInv
<1>2. /\ stored' = [stored EXCEPT ![g] = Absent] /\ deleted' = deleted \cup {g} /\ Edited
      /\ Unreferenced(g) /\ StartReload(w)
      /\ UNCHANGED <<cache, sync, cachedAt, readAt, aborted, raced>>
      /\ editor' = [editor EXCEPT ![w] = EditDone]
  BY DEF DeleteGroup
<1>3. /\ stored' \in Stores /\ stored'[g] = Absent /\ deleted' \in SUBSET Groups
      /\ \A h \in Groups \ {g} : stored'[h] = stored[h]
      /\ edits' = edits + 1 /\ edits' \in 0 .. MaxEdits /\ StoreInv' /\ KeepsSeen
  BY <1>1, <1>2, DeletedFacts DEF GroupInv
<1>4. w \in Processes /\ ReloadInv' /\ reload' \in [Processes -> Reloads]
  BY <1>2, <1>3, EditedReload DEF GroupInv, Processes
<1>5. /\ editor' \in [Editors -> EditorStates] /\ editor'[w].pc = "done"
      /\ \A v \in Editors \ {w} : editor'[v] = editor[v]
  BY <1>2, RestTypes DEF GroupInv, GroupTypes
<1>6. GroupTypes'
  BY <1>2, <1>3, <1>4, <1>5 DEF GroupInv, GroupTypes
<1>7. \A v \in Editors : EditorInv(v)'
  <2>1. \A v \in Editors \ {w} : editor[v].pc = "save" /\ Creates(v) =>
            /\ stored'[editor[v].group] = Absent /\ editor[v].group \notin deleted'
            /\ \A u \in {w} : editor'[u].pc = "save" => editor'[u].group # editor[v].group
    <3>1. ASSUME NEW v \in Editors \ {w}, editor[v].pc = "save", Creates(v)
          PROVE  stored'[editor[v].group] = Absent /\ editor[v].group \notin deleted'
      <4>1. editor[v].group # g /\ editor[v].group \in Groups
        BY <1>1, <3>1 DEF Creates, GroupInv, GroupTypes, EditorStates
      <4> QED
        BY <3>1, <4>1, <1>2, <1>3 DEF Creates
    <3> QED
      BY <3>1, <1>5
  <2>2. \A v \in Editors \ {w} : reload'[v].pc = reload[v].pc
    BY <1>2 DEF StartReload, GroupInv, GroupTypes, Reloads, Processes
  <2>3. \A v \in Editors \ {w} : EditorInv(v)'
    BY <1>3, <1>5, <2>1, <2>2, EditorsStay DEF GroupInv
  <2>4. EditorInv(w)'
    BY <1>5 DEF EditorInv
  <2> QED
    BY <2>3, <2>4
<1>8. SyncInv'
  BY <1>2, <1>3, SyncStays DEF GroupInv
<1>9. ReferencesResolve'
  <2>1. Present(stored') = Present(stored) \ {g}
    BY <1>3 DEF Present
  <2>2. \A h \in Present(stored') : stored'[h].stages.nests = stored[h].stages.nests
    BY <1>3, <2>1 DEF Present
  <2>3. \A h \in Present(stored') : stored[h].stages.nests \subseteq Present(stored) \ {g}
    BY <1>2, <2>1 DEF GroupInv, ReferencesResolve, Closed, Unreferenced
  <2> QED
    BY <2>1, <2>2, <2>3 DEF ReferencesResolve, Closed
<1>10. EnabledCyclesOnlyFromRaces'
  <2> SUFFICES ASSUME ~raced
               PROVE  ~CycleWithin(stored', Present(stored'))
    BY <1>2 DEF EnabledCyclesOnlyFromRaces
  <2>1. ~CycleWithin(stored, Present(stored)) /\ stored \in Stores /\ Absent \in Maybe
    BY DEF GroupInv, GroupTypes, EnabledCyclesOnlyFromRaces, Maybe
  <2> HIDE DEF g
  <2> QED
    BY <1>1, <1>2, <2>1, NoNewCycle
<1> QED
  BY <1>3, <1>4, <1>6, <1>7, <1>8, <1>9, <1>10 DEF GroupInv

-----------------------------------------------------------------------------
(* The two steps of a Manager.Reload, and its failure. *)
LEMMA ReloadSteps ==
    ASSUME GroupInv, NEW p \in Processes, ReloadStep(p)
    PROVE  GroupInv'
<1>1. /\ UNCHANGED <<stored, deleted, editor, sync, edits, raced>>
      /\ reload[p].pc \in {"read", "swap"}
  BY DEF ReloadStep, ReloadReads, ReloadSwaps, ReloadFails
<1>2. edits \in 0 .. MaxEdits /\ edits \in Nat /\ stored \in Stores
      /\ reload[p].list \in Stores /\ reload[p].at \in 0 .. MaxEdits
  BY GroupStoreConstants DEF GroupInv, GroupTypes, Reloads
<1>3. /\ GroupTypes' /\ \A q \in Processes \ {p} : reload'[q] = reload[q]
      /\ ReloadReads(p) => reload'[p].pc = "swap" /\ reload'[p].list = stored /\ reload'[p].at = edits
      /\ ReloadSwaps(p) \/ ReloadFails(p) => reload'[p].pc = "idle" /\ reload'[p].at = 0
  <2>1. CASE ReloadReads(p)
    <3>1. [pc |-> "swap", list |-> stored, at |-> edits] \in Reloads
      BY <1>2 DEF Reloads
    <3> QED
      BY <1>1, <1>2, <2>1, <3>1, RestTypes DEF ReloadReads, ReloadSwaps, ReloadFails, GroupInv, GroupTypes
  <2>2. CASE ReloadSwaps(p)
    BY <1>1, <1>2, <2>2, RestTypes DEF ReloadReads, ReloadSwaps, GroupInv, GroupTypes
  <2>3. CASE ReloadFails(p)
    <3>1. reload \in [Processes -> Reloads] /\ reload' = [reload EXCEPT ![p] = NoReload]
      BY <2>3 DEF ReloadFails, GroupInv, GroupTypes
    <3>2. /\ reload' \in [Processes -> Reloads] /\ reload'[p].pc = "idle" /\ reload'[p].at = 0
          /\ \A q \in Processes \ {p} : reload'[q] = reload[q]
      BY <3>1, RestTypes
    <3>3. ~ReloadReads(p)
      BY <3>1, <3>2 DEF ReloadReads
    <3>4. GroupTypes'
      BY <1>1, <1>2, <2>3, <3>2 DEF ReloadFails, GroupInv, GroupTypes
    <3> QED
      BY <3>2, <3>3, <3>4
  <2> QED
    BY <2>1, <2>2, <2>3 DEF ReloadStep
<1>4. StoreInv' /\ KeepsSeen
  BY <1>1, UnchangedStore DEF GroupInv
<1>5. \A v \in Editors : EditorInv(v)'
  <2>1. \A v \in Editors \ ({p} \cap Editors) : EditorInv(v)'
    <3>1. \A v \in Editors \ ({p} \cap Editors) : editor'[v] = editor[v] /\ reload'[v].pc = reload[v].pc
      BY <1>1, <1>3 DEF Processes
    <3>2. \A v \in Editors \ ({p} \cap Editors) : editor[v].pc = "save" /\ Creates(v) =>
            /\ stored'[editor[v].group] = Absent /\ editor[v].group \notin deleted'
            /\ \A u \in {p} \cap Editors : editor'[u].pc = "save" => editor'[u].group # editor[v].group
      BY <1>1 DEF Creates
    <3> DEFINE W == {p} \cap Editors
    <3>3. W \in SUBSET Editors
      OBVIOUS
    <3> QED
      BY <1>1, <1>2, <1>4, <3>1, <3>2, <3>3, EditorsStay DEF GroupInv
  <2>2. p \in Editors => EditorInv(p)'
    BY <1>1 DEF GroupInv, EditorInv
  <2> QED
    BY <2>1, <2>2
<1>6. SyncInv'
  BY <1>1, <1>4, SyncStays DEF GroupInv
<1>7. ReloadInv'
  <2>1. CASE ReloadReads(p)
    BY <1>1, <1>2, <1>3, <2>1 DEF ReloadReads, GroupInv, ReloadInv
  <2>2. CASE ReloadSwaps(p)
    <3>1. cachedAt' <= edits' /\ (cachedAt' = edits' => cache' = stored')
      BY <1>1, <2>2 DEF ReloadSwaps, GroupInv, ReloadInv
    <3>2. (\E q \in Processes : reload[q].pc = "read") => \E q \in Processes : reload'[q].pc = "read"
      BY <1>3, <2>2 DEF ReloadSwaps
    <3> QED
      BY <1>1, <1>2, <1>3, <2>2, <3>1, <3>2 DEF ReloadSwaps, GroupInv, ReloadInv
  <2>3. CASE ReloadFails(p)
    BY <1>1, <1>2, <1>3, <2>3 DEF ReloadFails, GroupInv, ReloadInv
  <2> QED
    BY <2>1, <2>2, <2>3 DEF ReloadStep
<1>8. ReferencesResolve' /\ EnabledCyclesOnlyFromRaces'
  BY <1>1, ShapeStays DEF GroupInv
<1> QED
  BY <1>3, <1>4, <1>5, <1>6, <1>7, <1>8 DEF GroupInv

-----------------------------------------------------------------------------
(* A step of the sync that neither saves nor reloads. *)
LEMMA SyncMoves ==
    ASSUME GroupInv, sync' \in Syncs, SyncInv',
           UNCHANGED <<stored, deleted, cache, editor, reload, edits, cachedAt, readAt, raced>>,
           aborted' \in BOOLEAN, aborted => aborted', sync.pc = "save" => sync'.pc = "save" \/ aborted'
    PROVE  GroupInv'
<1>1. GroupTypes' /\ edits' = edits /\ edits' \in 0 .. MaxEdits
  BY DEF GroupInv, GroupTypes
<1>2. StoreInv' /\ KeepsSeen
  BY UnchangedStore DEF GroupInv
<1>3. \A v \in Editors : EditorInv(v)'
  <2> DEFINE W == {}
  <2>1. \A v \in Editors \ W : editor[v].pc = "save" /\ Creates(v) =>
            /\ stored'[editor[v].group] = Absent /\ editor[v].group \notin deleted'
            /\ \A u \in W : editor'[u].pc = "save" => editor'[u].group # editor[v].group
    BY DEF Creates
  <2>2. W \in SUBSET Editors /\ \A v \in Editors \ W : editor'[v] = editor[v] /\ reload'[v].pc = reload[v].pc
    OBVIOUS
  <2>3. \A v \in Editors \ W : EditorInv(v)'
    BY <1>1, <1>2, <2>1, <2>2, EditorsStay DEF GroupInv
  <2> QED
    BY <2>3
<1>4. ReloadInv'
  BY ReloadStays DEF GroupInv
<1>5. ReferencesResolve' /\ EnabledCyclesOnlyFromRaces'
  BY ShapeStays DEF GroupInv
<1> QED
  BY <1>1, <1>2, <1>3, <1>4, <1>5 DEF GroupInv

(* The sync reads the rows. *)
LEMMA SyncBeginStep ==
    ASSUME GroupInv, NEW batch \in SUBSET Sources, SyncBegin(batch)
    PROVE  GroupInv'
<1>1. \A g \in Groups : Row(g) \in Maybe /\ (Row(g) = Absent \/ SeenRow(Row(g), g))
  BY RowFacts DEF GroupInv, SeenRow, Maybe
<1>2. ListRows \in Stores
  BY <1>1 DEF ListRows, Stores, Maybe
<1>3. sync' \in Syncs /\ sync'.pc = "stages" /\ sync'.todo = {} /\ sync'.list = ListRows
  BY <1>2, RestTypes DEF SyncBegin, Syncs
<1>4. SyncInv'
  <2>1. \A g \in Groups : sync'.list[g] = Absent \/ SeenRow(sync.list[g], g)'
    BY <1>1, <1>3 DEF ListRows, SeenRow, Outdated, Row, SyncBegin
  <2> QED
    BY <1>3, <2>1 DEF SyncInv
<1> QED
  BY <1>3, <1>4, SyncMoves DEF SyncBegin, histories, GroupInv, GroupTypes

(* The sync reads the stages. *)
LEMMA SyncStagesStep ==
    ASSUME GroupInv, SyncStages
    PROVE  GroupInv'
<1> DEFINE list == ListStages(sync.list)
           todo == {g \in Groups : Follows(list, g) /\ ~(sync.routes \subseteq list[g].stages.pinned)}
<1>1. \A g \in Groups : sync.list[g] \in Maybe /\ list[g] = WithStages(sync.list[g], g)
  BY StoreTypes DEF GroupInv, GroupTypes, Syncs, ListStages
<1>2. \A g \in Groups : list[g] \in Maybe /\ list[g].rev = sync.list[g].rev
  BY SMTT(30), ZenonT(60), <1>1, WithStagesType DEF GroupInv
<1>3. list \in Stores
  BY <1>2 DEF ListStages, Stores, Maybe
<1>4. ASSUME NEW g \in todo
      PROVE  SeenWhole(list[g], g)
  <2>1. sync.list[g] # Absent /\ g \in Groups
    BY <1>1, AbsentIsNone DEF Follows, WithStages
  <2>2. SeenRow(sync.list[g], g) /\ sync.list[g] \in Definitions
    BY <2>1 DEF GroupInv, SyncInv, SyncStages, SeenRow
  <2>3. list[g] \in Definitions
    BY <1>1, <2>1, <2>2, WithStagesType DEF GroupInv, Maybe
  <2>4. CASE Outdated(sync.list[g], g)
    BY <1>2, <2>1, <2>3, <2>4 DEF SeenWhole, Outdated
  <2>5. CASE sync.list[g] = Row(g)
    BY <1>1, <2>1, <2>3, <2>5, RowFacts DEF SeenWhole, GroupInv
  <2> QED
    BY <2>2, <2>4, <2>5 DEF SeenRow
<1>5. todo \in SUBSET Groups
  OBVIOUS
<1>6. sync' = [sync EXCEPT !.pc = "save", !.list = list, !.todo = todo]
  BY DEF SyncStages
<1> HIDE DEF list, todo
<1>7. sync' \in Syncs /\ sync'.pc = "save" /\ sync'.todo = todo /\ sync'.list = list
  BY <1>3, <1>5, <1>6 DEF GroupInv, GroupTypes, Syncs
<1>8. SyncInv'
  <2>1. \A g \in sync'.todo : SeenWhole(sync.list[g], g)'
    BY <1>4, <1>7 DEF SeenWhole, Outdated, SyncStages
  <2> QED
    BY <1>7, <2>1 DEF SyncInv
<1> QED
  BY <1>7, <1>8, SyncMoves DEF SyncStages, histories, GroupInv, GroupTypes

(* A group that was saved in between ends the sync. *)
LEMMA SyncConflictStep ==
    ASSUME GroupInv, NEW g \in Groups, SyncConflict(g)
    PROVE  GroupInv'
<1>1. sync' \in Syncs /\ sync'.pc = "idle" /\ sync'.todo = {}
  BY RestTypes DEF SyncConflict
<1>2. SyncInv'
  BY <1>1 DEF SyncInv
<1> QED
  BY <1>1, <1>2, SyncMoves DEF SyncConflict

(* What the sync saves is what it read, with more pins. *)
LEMMA SyncSavesSeen ==
    ASSUME GroupInv, NEW g \in Groups, SyncSave(g)
    PROVE  LET included == [sync.list[g] EXCEPT !.stages.pinned = @ \cup sync.routes] IN
           /\ sync.list[g] = stored[g] /\ g \notin deleted /\ stored[g] \in Definitions
           /\ included \in Definitions /\ included.enabled = stored[g].enabled
           /\ included.stages.nests = stored[g].stages.nests
           /\ included.stages.follows = stored[g].stages.follows
           /\ included.stages.pinned = stored[g].stages.pinned \cup sync.routes
           /\ Saved(g, included) /\ ReferencesExist(included)
<1>1. SeenWhole(sync.list[g], g)
  BY DEF GroupInv, SyncInv, SyncSave
<1>2. sync.list[g] = stored[g] /\ g \notin deleted /\ stored[g] \in Definitions
  BY <1>1, MatchedIsStored DEF GroupInv, SyncSave
<1>3. sync.routes \in SUBSET Sources
  BY DEF GroupInv, GroupTypes, Syncs
<1>4. sync.list[g] \in Definitions
  BY <1>2
<1> DEFINE included == [sync.list[g] EXCEPT !.stages.pinned = @ \cup sync.routes]
<1>5. /\ included \in Definitions /\ included.enabled = sync.list[g].enabled
      /\ included.stages.nests = sync.list[g].stages.nests
      /\ included.stages.follows = sync.list[g].stages.follows
      /\ included.stages.pinned = sync.list[g].stages.pinned \cup sync.routes
  BY <1>3, <1>4, DefinitionPins
<1>6. Saved(g, included) /\ ReferencesExist(included)
  BY DEF SyncSave
<1> HIDE DEF included
<1>7. /\ included.enabled = stored[g].enabled /\ included.stages.nests = stored[g].stages.nests
      /\ included.stages.follows = stored[g].stages.follows
      /\ included.stages.pinned = stored[g].stages.pinned \cup sync.routes
  BY <1>2, <1>5
<1> QED
  BY <1>2, <1>5, <1>6, <1>7 DEF included

(* The sync saves a group. *)
LEMMA SyncSaveStep ==
    ASSUME GroupInv, NEW g \in Groups, SyncSave(g)
    PROVE  GroupInv'
<1> DEFINE included == [sync.list[g] EXCEPT !.stages.pinned = @ \cup sync.routes]
           d == [included EXCEPT !.rev = stored[g].rev + 1]
<1>1. /\ g \notin deleted /\ included \in Definitions /\ included.enabled = stored[g].enabled
      /\ included.stages.nests = stored[g].stages.nests /\ stored[g] \in Definitions
      /\ Saved(g, included) /\ ReferencesExist(included)
  BY SyncSavesSeen
<1>2. /\ UNCHANGED <<deleted, cache, editor, reload, cachedAt, readAt, aborted, raced>>
      /\ sync.pc = "save" /\ g \in sync.todo /\ sync' = [sync EXCEPT !.todo = @ \ {g}]
  BY DEF SyncSave, histories
<1> HIDE DEF included
<1>3. /\ stored' \in Stores /\ stored'[g] \in Definitions
      /\ stored' = [stored EXCEPT ![g] = d]
      /\ stored'[g].stages = included.stages /\ stored'[g].enabled = included.enabled
      /\ \A h \in Groups \ {g} : stored'[h] = stored[h]
      /\ edits' = edits + 1 /\ edits' \in 0 .. MaxEdits /\ StoreInv' /\ KeepsSeen
  BY <1>1, <1>2, SavedFacts DEF GroupInv
<1>4. /\ sync' \in Syncs /\ sync'.pc = "save" /\ sync'.todo = sync.todo \ {g}
      /\ sync'.list = sync.list /\ sync.todo \in SUBSET Groups
      /\ \A h \in Groups : sync.list[h] \in Maybe
  BY <1>2, StoreTypes DEF GroupInv, GroupTypes, Syncs
<1>5. GroupTypes'
  BY <1>2, <1>3, <1>4 DEF GroupInv, GroupTypes
<1>6. ReloadInv'
  BY <1>2, <1>3, <1>4, EditedReload DEF GroupInv
<1>7. \A v \in Editors : EditorInv(v)'
  <2> DEFINE W == {}
  <2>1. ASSUME NEW v \in Editors, editor[v].pc = "save", Creates(v)
        PROVE  stored'[editor[v].group] = Absent /\ editor[v].group \notin deleted'
    <3>1. editor[v].group # g /\ editor[v].group \in Groups
      BY <1>1, <2>1, AbsentIsNone DEF Creates, GroupInv, GroupTypes, EditorStates
    <3> QED
      BY <2>1, <3>1, <1>2, <1>3 DEF Creates
  <2>2. W \in SUBSET Editors /\ \A v \in Editors \ W : editor'[v] = editor[v] /\ reload'[v].pc = reload[v].pc
    BY <1>2
  <2>3. \A v \in Editors \ W : EditorInv(v)'
    BY <1>3, <2>1, <2>2, EditorsStay DEF GroupInv
  <2> QED
    BY <2>3
<1>8. SyncInv'
  <2>1. ASSUME NEW h \in sync'.todo
        PROVE  SeenWhole(sync.list[h], h)'
    <3>1. SeenWhole(sync.list[h], h) /\ h \in Groups
      BY <1>2, <1>4, <2>1 DEF GroupInv, SyncInv
    <3>2. SeenWhole(sync.list[h], h) => /\ sync.list[h] \in Definitions
                                        /\ Outdated(sync.list[h], h)' \/ sync.list[h] = stored'[h]
      BY <1>3, <1>4, <3>1 DEF KeepsSeen, SeenWhole, Outdated
    <3> QED
      BY <1>4, <3>1, <3>2 DEF SeenWhole, Outdated
  <2> QED
    BY <1>4, <2>1 DEF SyncInv
<1>9. ReferencesResolve'
  BY <1>1, <1>3, SavedResolves DEF GroupInv
<1>10. EnabledCyclesOnlyFromRaces'
  <2> SUFFICES ASSUME ~raced
               PROVE  ~CycleWithin(stored', Present(stored'))
    BY <1>2 DEF EnabledCyclesOnlyFromRaces
  <2>1. ~CycleWithin(stored, Present(stored)) /\ stored \in Stores
    BY DEF GroupInv, GroupTypes, EnabledCyclesOnlyFromRaces
  <2>2. d \in Maybe /\ d.enabled = stored[g].enabled /\ d.stages.nests = stored[g].stages.nests
    BY <1>1, <1>3 DEF Maybe, GroupInv, GroupTypes, Stores
  <2> HIDE DEF d
  <2>3. ~CycleWithin([stored EXCEPT ![g] = d], Present([stored EXCEPT ![g] = d]))
    BY <2>1, <2>2, NoNewCycle
  <2> QED
    BY <1>3, <2>3
<1> QED
  BY <1>3, <1>5, <1>6, <1>7, <1>8, <1>9, <1>10 DEF GroupInv

(* The sync ends with a reload of its own. *)
LEMMA SyncDoneStep ==
    ASSUME GroupInv, SyncDone
    PROVE  GroupInv'
<1>1. /\ sync' \in Syncs /\ sync'.pc = "idle" /\ sync'.todo = {} /\ StartReload("sync")
      /\ UNCHANGED <<stored, deleted, cache, editor, edits, cachedAt, readAt, aborted, raced>>
  BY RestTypes DEF SyncDone
<1>2. /\ "sync" \in Processes /\ reload' \in [Processes -> Reloads] /\ reload'["sync"].pc = "read"
      /\ \A p \in Processes : reload'[p].at = reload[p].at
      /\ \A p \in Processes \ {"sync"} : reload'[p] = reload[p]
  BY <1>1 DEF GroupInv, GroupTypes, Reloads, StartReload, Processes
<1>3. GroupTypes' /\ edits' \in 0 .. MaxEdits
  BY <1>1, <1>2 DEF GroupInv, GroupTypes
<1>4. StoreInv' /\ KeepsSeen
  BY <1>1, UnchangedStore DEF GroupInv
<1>5. \A v \in Editors : EditorInv(v)'
  <2> DEFINE W == {}
  <2>1. \A v \in Editors \ W : editor[v].pc = "save" /\ Creates(v) =>
            /\ stored'[editor[v].group] = Absent /\ editor[v].group \notin deleted'
            /\ \A u \in W : editor'[u].pc = "save" => editor'[u].group # editor[v].group
    BY <1>1 DEF Creates
  <2>2. W \in SUBSET Editors /\ \A v \in Editors \ W : editor'[v] = editor[v] /\ reload'[v].pc = reload[v].pc
    BY <1>1, <1>2, GroupStoreConstants DEF Processes
  <2>3. \A v \in Editors \ W : EditorInv(v)'
    BY <1>1, <1>3, <1>4, <2>1, <2>2, EditorsStay DEF GroupInv
  <2> QED
    BY <2>3
<1>6. SyncInv'
  BY <1>1 DEF SyncInv
<1>7. ReloadInv'
  BY <1>1, <1>2 DEF GroupInv, ReloadInv
<1>8. ReferencesResolve' /\ EnabledCyclesOnlyFromRaces'
  BY <1>1, ShapeStays DEF GroupInv
<1> QED
  BY <1>3, <1>4, <1>5, <1>6, <1>7, <1>8 DEF GroupInv

-----------------------------------------------------------------------------
(* The stored groups at the start have been saved before, at revision 1. *)
LEMMA GroupStart == GroupInit => GroupInv
<1> SUFFICES ASSUME GroupInit
             PROVE  GroupInv
  OBVIOUS
<1>1. 0 \in 0 .. MaxEdits /\ 1 \in Revisions
  BY GroupStoreConstants DEF Revisions
<1>2. \A input \in Inputs : Defined(1, input, {}) \in Definitions /\ Defined(1, input, {}).rev = 1
  BY <1>1, DefinedType
<1>3. stored \in Stores /\ \A g \in Groups : stored[g].rev <= 1
  <2>1. stored \in [Groups -> {Defined(1, input, {}) : input \in Inputs} \cup {Absent}]
    BY DEF GroupInit
  <2>2. \A g \in Groups : stored[g] \in Maybe /\ stored[g].rev <= 1
    BY <2>1, <1>2, AbsentIsNone DEF Maybe
  <2> QED
    BY <2>1, <2>2 DEF Stores, Maybe
<1>4. GroupTypes
  <2>1. /\ editor \in [Editors -> EditorStates] /\ reload \in [Processes -> Reloads]
        /\ sync \in Syncs /\ deleted \in SUBSET Groups
    BY RestTypes DEF GroupInit, Processes
  <2> QED
    BY <1>1, <1>3, <2>1 DEF GroupInit, GroupTypes
<1>5. StoreInv
  <2>1. edits + 1 = 1 /\ deleted = {}
    BY DEF GroupInit
  <2> QED
    BY <1>3, <2>1 DEF StoreInv
<1>6. \A w \in Editors : EditorInv(w)
  BY RestTypes DEF GroupInit, EditorInv
<1>7. SyncInv
  BY RestTypes DEF GroupInit, SyncInv
<1>8. ReloadInv
  BY RestTypes DEF GroupInit, ReloadInv, Processes
<1>9. ReferencesResolve /\ EnabledCyclesOnlyFromRaces
  BY DEF GroupInit, ReferencesResolve, EnabledCyclesOnlyFromRaces
<1> QED
  BY <1>4, <1>5, <1>6, <1>7, <1>8, <1>9 DEF GroupInv

(* Every step keeps the invariant. *)
LEMMA GroupStepKeeps == GroupInv /\ [GroupStep]_groupVars => GroupInv'
<1> SUFFICES ASSUME GroupInv, [GroupStep]_groupVars
             PROVE  GroupInv'
  OBVIOUS
<1>1. CASE \E w \in Editors : EditorStep(w)
  <2>1. PICK w \in Editors : EditorStep(w)
    BY <1>1
  <2>2. CASE \E g \in Groups : OpenEditor(w, g)
    BY <2>2, OpenEditorStep
  <2>3. CASE \E user \in Inputs :
                 Submit(w, Defined(editor[w].seen.rev, user, editor[w].seen.stages.pinned))
    BY <2>3, SubmitStep
  <2>4. CASE \E user \in Inputs : \E g \in Groups : SubmitNew(w, g, Defined(1, user, {}))
    BY <2>4, SubmitNewStep
  <2>5. CASE GetStages(w)
    BY <2>5, GetStagesStep
  <2>6. CASE SaveGroup(w)
    BY <2>6, SaveGroupStep
  <2>7. CASE SaveRefused(w)
    BY <2>7, SaveRefusedStep
  <2>8. CASE DeleteGroup(w)
    BY <2>8, DeleteGroupStep
  <2> QED
    BY <2>1, <2>2, <2>3, <2>4, <2>5, <2>6, <2>7, <2>8 DEF EditorStep
<1>2. CASE \E p \in Processes : ReloadStep(p)
  BY <1>2, ReloadSteps
<1>3. CASE \E batch \in SUBSET Sources : SyncBegin(batch)
  BY <1>3, SyncBeginStep
<1>4. CASE SyncStep
  BY <1>4, SyncStagesStep, SyncDoneStep, SyncSaveStep, SyncConflictStep DEF SyncStep
<1>5. CASE UNCHANGED groupVars
  BY SMTT(30), ZenonT(60), <1>5 DEF groupVars, histories, GroupInv, GroupTypes, StoreInv, EditorInv, SaveInv, Creates,
      SyncInv, ReloadInv, SeenRow, SeenWhole, Outdated, Row, ReferencesResolve, Closed, Present,
      EnabledCyclesOnlyFromRaces, CycleWithin, Nested
<1> QED
  BY <1>1, <1>2, <1>3, <1>4, <1>5 DEF GroupStep

(* The routes that refreshes bring are sources. *)
LEMMA GroupNextSteps == GroupNext => GroupStep
  BY GroupStoreConstants DEF GroupNext, GroupStep, Processes

(* The inductive invariant of the routing groups. *)
THEOREM GroupInvariant == GroupSpec => []GroupInv
<1>1. GroupInv /\ [GroupNext]_groupVars => GroupInv'
  BY GroupStepKeeps, GroupNextSteps
<1> QED
  BY <1>1, GroupStart, PTL DEF GroupSpec

(* The invariant gives the types of the variables. *)
LEMMA GroupTypesCorrect == GroupInv => GroupTypeOK
  BY DEF GroupInv, GroupTypes, StoreInv, GroupTypeOK, EditorStates, Syncs, Reloads, Maybe, Processes

(* What the invariant says when everything has come to rest. *)
LEMMA CacheAtRest == GroupInv => CacheFollowsTheStore
  BY DEF GroupInv, ReloadInv, CacheFollowsTheStore, Processes

(* What holds of the routing groups at all times: types, references, cycles and cache. *)
THEOREM GroupSafety ==
    GroupSpec => [](GroupTypeOK /\ ReferencesResolve /\ EnabledCyclesOnlyFromRaces
                    /\ CacheFollowsTheStore)
<1>1. GroupInv => GroupTypeOK /\ ReferencesResolve /\ EnabledCyclesOnlyFromRaces /\ CacheFollowsTheStore
  BY GroupTypesCorrect, CacheAtRest DEF GroupInv
<1> QED
  BY <1>1, GroupInvariant, PTL

-----------------------------------------------------------------------------
(* The step formula of NoLostUpdate. *)
ReplacesWhatWasRead ==
    /\ \A w \in Editors : editor[w].pc = "save" /\ reload'[w].pc = "read" =>
                              stored[editor[w].group] = editor[w].seen
    /\ \A g \in Groups : g \in sync.todo /\ g \notin sync'.todo /\ sync'.pc = "save" =>
                              stored[g] = sync.list[g]

(* Only a save of its own makes the handler of an editor reload. *)
LEMMA OnlySavesReload ==
    ASSUME GroupInv, [GroupStep]_groupVars, NEW w \in Editors, editor[w].pc = "save",
           reload'[w].pc = "read"
    PROVE  SaveGroup(w)
<1>1. reload[w].pc = "idle" /\ w \in Processes /\ w # "sync" /\ reload \in [Processes -> Reloads]
  BY GroupStoreConstants DEF GroupInv, GroupTypes, EditorInv, Processes
<1>2. reload'[w] # reload[w]
  BY <1>1
<1>3. CASE \E v \in Editors : EditorStep(v)
  <2>1. PICK v \in Editors : EditorStep(v)
    BY <1>3
  <2>2. StartReload(v) \/ reload' = reload
    BY <2>1 DEF EditorStep, OpenEditor, GetStages, Submit, SubmitNew, SaveGroup, SaveRefused, DeleteGroup
  <2>3. v = w
    BY <1>1, <1>2, <2>2 DEF StartReload
  <2> QED
    BY <1>2, <2>1, <2>3 DEF EditorStep, OpenEditor, GetStages, Submit, SubmitNew, SaveRefused, DeleteGroup
<1>4. CASE \E p \in Processes : ReloadStep(p)
  <2>1. PICK p \in Processes : ReloadStep(p)
    BY <1>4
  <2>2. p # w
    BY <1>1, <2>1 DEF ReloadStep, ReloadReads, ReloadSwaps, ReloadFails
  <2> QED
    BY <1>1, <1>2, <2>1, <2>2 DEF ReloadStep, ReloadReads, ReloadSwaps, ReloadFails
<1>5. CASE SyncStep
  BY <1>1, <1>2, <1>5 DEF SyncStep, SyncStages, SyncDone, SyncSave, SyncConflict, StartReload
<1>6. CASE (\E batch \in SUBSET Sources : SyncBegin(batch)) \/ UNCHANGED groupVars
  BY <1>2, <1>6 DEF SyncBegin, groupVars
<1> QED
  BY <1>3, <1>4, <1>5, <1>6 DEF GroupStep

(* Only a save of its own takes a group off the list of a sync. *)
LEMMA OnlySavesLeaveTheSync ==
    ASSUME GroupInv, [GroupStep]_groupVars, NEW g \in Groups,
           g \in sync.todo, g \notin sync'.todo, sync'.pc = "save"
    PROVE  SyncSave(g)
<1>1. sync.pc = "save" /\ sync' # sync /\ sync \in Syncs
  BY DEF GroupInv, SyncInv, GroupTypes
<1>2. SyncStep
  BY SMTT(30), ZenonT(60), <1>1 DEF GroupStep, EditorStep, OpenEditor, GetStages, Submit, SubmitNew, SaveGroup, SaveRefused,
      DeleteGroup, ReloadStep, ReloadReads, ReloadSwaps, ReloadFails, SyncBegin, groupVars
<1>3. ~SyncStages
  BY <1>1 DEF SyncStages
<1>4. ~SyncDone /\ \A h \in Groups : ~SyncConflict(h)
  BY RestTypes DEF SyncDone, SyncConflict
<1>5. PICK h \in Groups : SyncSave(h)
  BY <1>2, <1>3, <1>4 DEF SyncStep
<1>6. sync'.todo = sync.todo \ {h}
  BY <1>1, <1>5 DEF SyncSave, Syncs
<1> QED
  BY <1>5, <1>6

(* A step replaces what was read. *)
LEMMA GroupStepReplaces == GroupInv /\ [GroupStep]_groupVars => ReplacesWhatWasRead
<1> SUFFICES ASSUME GroupInv, [GroupStep]_groupVars
             PROVE  ReplacesWhatWasRead
  OBVIOUS
<1>1. ASSUME NEW w \in Editors, editor[w].pc = "save", reload'[w].pc = "read"
      PROVE  stored[editor[w].group] = editor[w].seen
  BY <1>1, OnlySavesReload, SaveReplacesSeen DEF SaveGroup
<1>2. ASSUME NEW g \in Groups, g \in sync.todo, g \notin sync'.todo, sync'.pc = "save"
      PROVE  stored[g] = sync.list[g]
  BY <1>2, OnlySavesLeaveTheSync, SyncSavesSeen
<1> QED
  BY <1>1, <1>2 DEF ReplacesWhatWasRead

-----------------------------------------------------------------------------
(***************************************************************************)
(* The catalog.                                                            *)
(***************************************************************************)

RouteMaps == UNION {[D -> Formats \cup {Unknown}] : D \in SUBSET Ids}
Discoveries == UNION {[D -> SUBSET Models] : D \in SUBSET Keys}
Refreshes == [pc: RefreshLabels, prev: RouteMaps, keys: SUBSET Keys, found: Discoveries,
              failed: SUBSET Keys]
StoredHistories == [known: MaybeModels, additions: [Models -> Nat]]

CatalogTypes ==
    /\ clients \in SUBSET Keys /\ routes \in RouteMaps
    /\ known \in MaybeModels /\ baseline \in MaybeModels /\ disk \in StoredHistories
    /\ additions \in [Models -> Nat]
    /\ refresh \in Refreshes
    /\ DOMAIN refresh.found \subseteq refresh.keys
    /\ refresh.failed \subseteq refresh.keys \ DOMAIN refresh.found
    /\ changed \in BOOLEAN /\ offered \in SUBSET PairSet

(* While a refresh runs the clients stay, and until it publishes its snapshot requests *)
(* change formats but no routes.                                                       *)
Unpublished == {"discover", "record", "publish"}
RefreshHolds ==
    /\ refresh.pc # "idle" => refresh.keys = clients
    /\ refresh.pc \in Unpublished => DOMAIN refresh.prev = DOMAIN routes

(* The history in memory is the one in the settings; a model is known when it is of *)
(* the baseline or was announced; and every published model is known.                *)
HistoryInv ==
    /\ disk.known = known /\ disk.additions = additions
    /\ known = {} <=> baseline = {}
    /\ \A m \in Models : /\ additions[m] <= 1
                         /\ m \in UNION known <=> m \in UNION baseline \/ additions[m] = 1
                         /\ m \in UNION baseline => additions[m] = 0
    /\ \A id \in DOMAIN routes : ModelOf(id) \in UNION known
    /\ refresh.pc = "publish" => NextModels(refresh) \subseteq UNION known

CatalogInv == CatalogTypes /\ RefreshHolds /\ RemovedClientsHaveNoRoutes /\ HistoryInv

-----------------------------------------------------------------------------
(* A set of models that is kept in a set or not at all. *)
LEMMA MaybeModelsUnion == ASSUME NEW S \in MaybeModels PROVE UNION S \in SUBSET Models
BY DEF MaybeModels

(* The types of the fields of a refresh. *)
LEMMA RefreshFields ==
    ASSUME NEW r \in Refreshes
    PROVE  /\ r.pc \in RefreshLabels /\ r.prev \in RouteMaps /\ r.keys \in SUBSET Keys
           /\ r.found \in Discoveries /\ r.failed \in SUBSET Keys
           /\ r = [pc |-> r.pc, prev |-> r.prev, keys |-> r.keys, found |-> r.found,
                   failed |-> r.failed]
  BY DEF Refreshes

(* The domain and the values of a map of routes. *)
LEMMA RouteMapFacts ==
    ASSUME NEW f \in RouteMaps
    PROVE  DOMAIN f \in SUBSET Ids /\ \A id \in DOMAIN f : f[id] \in Formats \cup {Unknown}
  BY DEF RouteMaps

(* The next snapshot has the kept and the rediscovered routes. *)
LEMMA NextRoutesType ==
    ASSUME NEW r \in Refreshes
    PROVE  /\ NextRoutes(r) \in RouteMaps
           /\ DOMAIN NextRoutes(r) = Kept(r) \cup Rediscovered(r)
           /\ NextModels(r) \in SUBSET Models
<1>1. Kept(r) \subseteq DOMAIN r.prev /\ Kept(r) \subseteq Ids /\ Rediscovered(r) \subseteq Ids
  BY RefreshFields, RouteMapFacts DEF Kept, Rediscovered
<1>2. \A id \in Ids : Carried(r, id) \in Formats \cup {Unknown}
  BY RefreshFields, RouteMapFacts DEF Carried
<1>3. \A id \in Kept(r) : r.prev[id] \in Formats \cup {Unknown}
  BY <1>1, RefreshFields, RouteMapFacts
<1>4. /\ DOMAIN NextRoutes(r) = Kept(r) \cup Rediscovered(r)
      /\ NextRoutes(r) \in [Kept(r) \cup Rediscovered(r) -> Formats \cup {Unknown}]
  BY <1>1, <1>2, <1>3 DEF NextRoutes
<1>5. NextRoutes(r) \in RouteMaps
  <2>1. Kept(r) \cup Rediscovered(r) \in SUBSET Ids
    BY <1>1
  <2> QED
    BY <1>4, <2>1 DEF RouteMaps
<1>6. NextModels(r) \in SUBSET Models
  <2>1. \A id \in Ids : ModelOf(id) \in Models
    BY DEF Ids, ModelOf
  <2> QED
    BY <1>1, <1>4, <2>1 DEF NextModels
<1> QED
  BY <1>4, <1>5, <1>6
-----------------------------------------------------------------------------
(* The steps that leave what is published alone. *)
LEMMA KeepsPublished ==
    ASSUME CatalogInv, UNCHANGED <<clients, routes, changed, learned>>,
           offered' \in SUBSET PairSet,
           refresh' \in Refreshes, refresh'.pc # "publish",
           DOMAIN refresh'.found \subseteq refresh'.keys,
           refresh'.failed \subseteq refresh'.keys \ DOMAIN refresh'.found,
           refresh'.pc # "idle" => refresh'.keys = clients,
           refresh'.pc \in Unpublished => DOMAIN refresh'.prev = DOMAIN routes
    PROVE  CatalogInv'
<1>1. CatalogTypes'
  BY DEF CatalogInv, CatalogTypes, learned
<1>2. RefreshHolds'
  BY DEF RefreshHolds
<1>3. RemovedClientsHaveNoRoutes'
  BY DEF CatalogInv, RemovedClientsHaveNoRoutes
<1>4. HistoryInv'
  BY DEF CatalogInv, HistoryInv, learned
<1> QED
  BY <1>1, <1>2, <1>3, <1>4 DEF CatalogInv

(* A refresh that goes on to another place. *)
LEMMA RefreshGoesOn ==
    ASSUME CatalogInv, NEW label \in RefreshLabels \ {"idle", "publish"},
           refresh.pc # "idle", label \in Unpublished => refresh.pc \in Unpublished,
           refresh' = [refresh EXCEPT !.pc = label],
           UNCHANGED <<clients, routes, changed, learned>>, offered' \in SUBSET PairSet
    PROVE  CatalogInv'
<1>1. refresh' \in Refreshes
  BY RefreshFields DEF CatalogInv, CatalogTypes, Refreshes
<1>2. /\ refresh'.pc = label /\ refresh'.prev = refresh.prev /\ refresh'.keys = refresh.keys
      /\ refresh'.found = refresh.found /\ refresh'.failed = refresh.failed
  BY RefreshFields DEF CatalogInv, CatalogTypes, Refreshes
<1> QED
  BY <1>1, <1>2, KeepsPublished DEF CatalogInv, CatalogTypes, RefreshHolds

(* AtRest is a refresh. *)
LEMMA AtRestType == AtRest \in Refreshes /\ AtRest.pc = "idle" /\ DOMAIN AtRest.found = {}
                    /\ AtRest.failed = {}
<1>1. NoRoutes \in RouteMaps
  <2>1. NoRoutes \in [{} -> Formats \cup {Unknown}]
    BY DEF NoRoutes
  <2> QED
    BY <2>1 DEF RouteMaps
<1>2. [k \in {} |-> {}] \in Discoveries
  <2>1. [k \in {} |-> {}] \in [{} -> SUBSET Models]
    OBVIOUS
  <2> QED
    BY <2>1 DEF Discoveries
<1> QED
  BY <1>1, <1>2 DEF AtRest, Refreshes, RefreshLabels

(* A refresh begins with the snapshot and the clients of that moment. *)
LEMMA BeginRefreshStep == CatalogInv /\ BeginRefresh => CatalogInv'
<1> SUFFICES ASSUME CatalogInv, BeginRefresh
             PROVE  CatalogInv'
  OBVIOUS
<1>1. refresh' = [pc |-> "discover", prev |-> routes, keys |-> clients,
                  found |-> AtRest.found, failed |-> {}]
  BY DEF BeginRefresh
<1>2. AtRest.found \in Discoveries /\ DOMAIN AtRest.found = {}
  BY AtRestType, RefreshFields
<1>3. refresh' \in Refreshes
  BY <1>1, <1>2 DEF Refreshes, RefreshLabels, CatalogInv, CatalogTypes
<1> QED
  BY <1>1, <1>2, <1>3, KeepsPublished DEF BeginRefresh, CatalogInv, CatalogTypes

(* A client answers. *)
LEMMA DiscoverStep ==
    ASSUME CatalogInv, NEW k \in Keys, NEW models \in SUBSET Models, Discover(k, models)
    PROVE  CatalogInv'
<1> DEFINE more == [c \in DOMAIN refresh.found \cup {k} |-> IF c = k THEN models ELSE refresh.found[c]]
<1>1. /\ refresh.pc = "discover" /\ k \in refresh.keys /\ k \notin DOMAIN refresh.found
      /\ k \notin refresh.failed
      /\ refresh' = [refresh EXCEPT !.found = more]
      /\ UNCHANGED <<clients, routes, changed, offered, learned>>
  BY DEF Discover, Asked
<1>2. PICK D \in SUBSET Keys : refresh.found \in [D -> SUBSET Models]
  BY RefreshFields DEF CatalogInv, CatalogTypes, Discoveries
<1>3. more \in [D \cup {k} -> SUBSET Models]
  BY <1>2
<1>4. more \in Discoveries /\ DOMAIN more = DOMAIN refresh.found \cup {k}
  <2>1. D \cup {k} \in SUBSET Keys
    OBVIOUS
  <2> HIDE DEF more
  <2> QED
    BY <1>2, <1>3, <2>1 DEF Discoveries
<1> HIDE DEF more
<1>5. refresh' \in Refreshes /\ refresh'.pc = "discover" /\ refresh'.prev = refresh.prev
      /\ refresh'.keys = refresh.keys /\ refresh'.found = more /\ refresh'.failed = refresh.failed
  BY <1>1, <1>4, RefreshFields DEF CatalogInv, CatalogTypes, Refreshes
<1> QED
  BY <1>1, <1>4, <1>5, KeepsPublished DEF CatalogInv, CatalogTypes, RefreshHolds, Unpublished

(* A client fails. *)
LEMMA DiscoverFailsStep ==
    ASSUME CatalogInv, NEW k \in Keys, DiscoverFails(k)
    PROVE  CatalogInv'
<1>1. /\ refresh.pc = "discover" /\ k \in refresh.keys /\ k \notin DOMAIN refresh.found
      /\ refresh' = [refresh EXCEPT !.failed = @ \cup {k}]
      /\ UNCHANGED <<clients, routes, changed, offered, learned>>
  BY DEF DiscoverFails, Asked
<1>2. refresh' \in Refreshes /\ refresh'.pc = "discover" /\ refresh'.prev = refresh.prev
      /\ refresh'.keys = refresh.keys /\ refresh'.found = refresh.found
      /\ refresh'.failed = refresh.failed \cup {k}
  BY <1>1, RefreshFields DEF CatalogInv, CatalogTypes, Refreshes
<1> QED
  BY <1>1, <1>2, KeepsPublished DEF CatalogInv, CatalogTypes, RefreshHolds, Unpublished

(* The refresh returns. *)
LEMMA EndRefreshStep == CatalogInv /\ EndRefresh => CatalogInv'
<1> SUFFICES ASSUME CatalogInv, EndRefresh
             PROVE  CatalogInv'
  OBVIOUS
<1>1. refresh' = AtRest /\ UNCHANGED <<clients, routes, changed, offered, learned>>
  BY DEF EndRefresh
<1> QED
  BY <1>1, AtRestType, KeepsPublished DEF CatalogInv, CatalogTypes, Unpublished

(* The hook is called, or there is nothing to call it for. *)
LEMMA HookSteps == CatalogInv /\ (NothingNew \/ HookRuns) => CatalogInv'
<1> SUFFICES ASSUME CatalogInv, NothingNew \/ HookRuns
             PROVE  CatalogInv'
  OBVIOUS
<1>1. NewPairs(refresh) \subseteq PairSet
  <2>1. DOMAIN NextRoutes(refresh) \subseteq Ids
    BY NextRoutesType, RouteMapFacts DEF CatalogInv, CatalogTypes
  <2>2. \A id \in Ids : PairOf(id) \in PairSet
    BY DEF Ids, PairOf, PairSet, KeyOf, ModelOf
  <2> QED
    BY <2>1, <2>2 DEF NewPairs, Pairs
<1>2. /\ refresh.pc = "hook" /\ refresh' = [refresh EXCEPT !.pc = "end"]
      /\ UNCHANGED <<clients, routes, changed, learned>> /\ offered' \in SUBSET PairSet
  BY <1>1 DEF NothingNew, HookRuns, CatalogInv, CatalogTypes
<1> QED
  BY <1>2, RefreshGoesOn DEF RefreshLabels, Unpublished

-----------------------------------------------------------------------------
(* The steps that change what is known or published. *)
LEMMA RecordedFacts ==
    ASSUME CatalogInv, refresh.pc = "record"
    PROVE  /\ Recorded.known \in MaybeModels /\ Recorded.additions \in [Models -> Nat]
           /\ NextModels(refresh) \subseteq UNION Recorded.known
           /\ Recorded.known = {} => known = {} /\ Recorded.additions = additions
           /\ known # {} => Recorded.known # {}
           /\ \A m \in Models :
                  /\ m \in UNION Recorded.known <=> m \in UNION known \/ m \in NextModels(refresh)
                  /\ Recorded.additions[m] = IF m \in News THEN additions[m] + 1 ELSE additions[m]
<1> DEFINE next == NextModels(refresh)
<1>1. next \in SUBSET Models
  BY NextRoutesType DEF CatalogInv, CatalogTypes
<1>2. UNION known \in SUBSET Models /\ known \in MaybeModels /\ additions \in [Models -> Nat]
  BY MaybeModelsUnion DEF CatalogInv, CatalogTypes
<1>3. /\ Recorded.known = RecordedKnown
      /\ Recorded.additions = [m \in Models |-> additions[m] + IF m \in News THEN 1 ELSE 0]
  BY DEF Recorded
<1>4. /\ RecordedKnown \in MaybeModels /\ next \subseteq UNION RecordedKnown
      /\ RecordedKnown = {} <=> known = {} /\ next = {}
      /\ \A m \in Models : m \in UNION RecordedKnown <=> m \in UNION known \/ m \in next
  <2> HIDE DEF next
  <2>1. CASE known = {} /\ next = {}
    BY <2>1 DEF RecordedKnown, MaybeModels, next
  <2>2. CASE ~(known = {} /\ next = {})
    <3>1. RecordedKnown = {(UNION known) \cup next}
      BY <2>2 DEF RecordedKnown, next
    <3>2. UNION RecordedKnown = (UNION known) \cup next
      BY <3>1
    <3>3. RecordedKnown \in MaybeModels
      <4>1. (UNION known) \cup next \in SUBSET Models
        BY <1>1, <1>2
      <4> QED
        BY <3>1, <4>1 DEF MaybeModels
    <3>4. RecordedKnown # {}
      BY <3>1
    <3>5. next \subseteq UNION RecordedKnown
      BY <3>2
    <3>6. \A m \in Models : m \in UNION RecordedKnown <=> m \in UNION known \/ m \in next
      BY <3>2
    <3> QED
      BY <2>2, <3>3, <3>4, <3>5, <3>6
  <2> QED
    BY <2>1, <2>2
<1>5. known = {} => News = {}
  BY DEF News
<1>6. /\ \A m \in Models : Recorded.additions[m] = IF m \in News THEN additions[m] + 1 ELSE additions[m]
      /\ Recorded.additions \in [Models -> Nat]
  BY <1>2, <1>3
<1>7. Recorded.known = {} => Recorded.additions = additions
  BY <1>2, <1>3, <1>4, <1>5
<1> QED
  BY <1>3, <1>4, <1>6, <1>7

(* The models that were found are recorded; the new ones are announced. *)
LEMMA RecordStep == CatalogInv /\ Record => CatalogInv'
<1> SUFFICES ASSUME CatalogInv, Record
             PROVE  CatalogInv'
  OBVIOUS
<1> DEFINE R == Recorded
<1>1. /\ refresh.pc = "record"
      /\ known' = R.known /\ additions' = R.additions
      /\ disk' = IF R.known = {} THEN disk ELSE R
      /\ baseline' = IF baseline = {} THEN R.known ELSE baseline
      /\ refresh' = [refresh EXCEPT !.pc = "publish"]
      /\ UNCHANGED <<clients, routes, changed, offered>>
  BY DEF Record
<1>2. R = [known |-> R.known, additions |-> R.additions]
  BY DEF Recorded
<1>3. /\ refresh' \in Refreshes /\ refresh'.pc = "publish"
      /\ refresh'.prev = refresh.prev /\ refresh'.keys = refresh.keys
      /\ refresh'.found = refresh.found /\ refresh'.failed = refresh.failed
  BY <1>1, RefreshFields DEF CatalogInv, CatalogTypes, Refreshes, RefreshLabels
<1>4. NextModels(refresh') = NextModels(refresh)
  BY <1>3 DEF NextModels, NextRoutes, Kept, Rediscovered, Carried
<1>5. /\ R.known \in MaybeModels /\ R.additions \in [Models -> Nat]
      /\ NextModels(refresh) \subseteq UNION R.known
      /\ R.known = {} => known = {} /\ R.additions = additions
      /\ known # {} => R.known # {}
      /\ \A m \in Models :
             /\ m \in UNION R.known <=> m \in UNION known \/ m \in NextModels(refresh)
             /\ R.additions[m] = IF m \in News THEN additions[m] + 1 ELSE additions[m]
  BY <1>1, RecordedFacts
<1> HIDE DEF R
<1>6. CatalogTypes'
  <2>1. R.known # {} => R \in StoredHistories
    BY <1>2, <1>5 DEF StoredHistories
  <2>2. disk' \in StoredHistories /\ baseline' \in MaybeModels
    BY <1>1, <1>5, <2>1 DEF CatalogInv, CatalogTypes
  <2> QED
    BY <1>1, <1>3, <1>5, <2>2 DEF CatalogInv, CatalogTypes
<1>7. RefreshHolds'
  BY <1>1, <1>3 DEF CatalogInv, RefreshHolds, Unpublished
<1>8. RemovedClientsHaveNoRoutes'
  BY <1>1 DEF CatalogInv, RemovedClientsHaveNoRoutes
<1>9. HistoryInv'
  <2>1. disk'.known = known' /\ disk'.additions = additions'
    BY <1>1, <1>5 DEF CatalogInv, HistoryInv
  <2>2. known' = {} <=> baseline' = {}
    BY <1>1, <1>5 DEF CatalogInv, HistoryInv
  <2>3. ASSUME NEW m \in Models
        PROVE  /\ additions'[m] <= 1
               /\ m \in UNION known' <=> m \in UNION baseline' \/ additions'[m] = 1
               /\ m \in UNION baseline' => additions'[m] = 0
    <3>0. /\ additions[m] \in Nat /\ additions[m] <= 1
          /\ m \in UNION known <=> m \in UNION baseline \/ additions[m] = 1
          /\ m \in UNION baseline => additions[m] = 0
      BY DEF CatalogInv, HistoryInv, CatalogTypes
    <3>1. CASE known = {}
      <4>1. News = {} /\ additions'[m] = additions[m] /\ additions[m] = 0 /\ baseline = {}
        BY <3>1, <3>0, <1>1, <1>5 DEF News, CatalogInv, HistoryInv
      <4>2. baseline' = known'
        BY <4>1, <1>1
      <4> QED
        BY <4>1, <4>2
    <3>2. CASE known # {}
      <4>1. baseline # {} /\ baseline' = baseline
        BY <3>2, <1>1 DEF CatalogInv, HistoryInv
      <4>2. m \in News <=> m \in NextModels(refresh) /\ m \notin UNION known
        BY <3>2 DEF News
      <4>3. m \in UNION known' <=> m \in UNION known \/ m \in NextModels(refresh)
        BY <1>1, <1>5
      <4>4. additions'[m] = IF m \in News THEN additions[m] + 1 ELSE additions[m]
        BY <1>1, <1>5
      <4> QED
        BY <3>0, <4>1, <4>2, <4>3, <4>4
    <3> QED
      BY <3>1, <3>2
  <2>4. ASSUME NEW id \in DOMAIN routes'
        PROVE  ModelOf(id) \in UNION known'
    <3>1. ModelOf(id) \in UNION known /\ ModelOf(id) \in Models
      BY <1>1, MaybeModelsUnion DEF CatalogInv, HistoryInv, CatalogTypes
    <3> QED
      BY <1>1, <1>5, <3>1
  <2>5. NextModels(refresh') \subseteq UNION known'
    BY <1>1, <1>4, <1>5
  <2> QED
    BY <2>1, <2>2, <2>3, <2>4, <2>5 DEF HistoryInv
<1> QED
  BY <1>6, <1>7, <1>8, <1>9 DEF CatalogInv

(* The settings cannot be written: nothing was changed. *)
LEMMA RecordFailsStep == CatalogInv /\ RecordFails => CatalogInv'
  BY RefreshGoesOn DEF RecordFails, RefreshLabels, CatalogInv, CatalogTypes, Unpublished

(* A published snapshot has routes of the clients that were asked. *)
LEMMA PublishStep == CatalogInv /\ Publish => CatalogInv'
<1> SUFFICES ASSUME CatalogInv, Publish
             PROVE  CatalogInv'
  OBVIOUS
<1>1. /\ refresh.pc = "publish" /\ routes' = NextRoutes(refresh) /\ changed' = FALSE
      /\ refresh' = [refresh EXCEPT !.pc = "hook"]
      /\ UNCHANGED <<clients, offered, learned>>
  BY DEF Publish
<1>2. refresh' \in Refreshes /\ refresh'.pc = "hook" /\ refresh'.prev = refresh.prev
      /\ refresh'.keys = refresh.keys /\ refresh'.found = refresh.found
      /\ refresh'.failed = refresh.failed
  BY <1>1, RefreshFields DEF CatalogInv, CatalogTypes, Refreshes, RefreshLabels
<1>3. NextRoutes(refresh) \in RouteMaps
  BY NextRoutesType DEF CatalogInv, CatalogTypes
<1>4. CatalogTypes'
  BY <1>1, <1>2, <1>3 DEF CatalogInv, CatalogTypes, learned
<1>5. \A id \in DOMAIN NextRoutes(refresh) : KeyOf(id) \in refresh.keys
  BY NextRoutesType DEF Kept, Rediscovered, CatalogInv, CatalogTypes
<1>6. clients = refresh.keys
  BY <1>1 DEF CatalogInv, RefreshHolds
<1>7. RemovedClientsHaveNoRoutes'
  BY <1>1, <1>5, <1>6 DEF RemovedClientsHaveNoRoutes
<1>8. HistoryInv'
  <2>1. \A id \in DOMAIN routes' : ModelOf(id) \in UNION known
    BY <1>1 DEF NextModels, CatalogInv, HistoryInv
  <2> QED
    BY <1>1, <1>2, <2>1 DEF CatalogInv, HistoryInv, learned
<1>9. RefreshHolds'
  BY <1>1, <1>2, <1>6 DEF RefreshHolds, Unpublished
<1> QED
  BY <1>4, <1>7, <1>8, <1>9 DEF CatalogInv

(* Learning a format and forgetting it. *)
LEMMA LearnSteps ==
    ASSUME CatalogInv, NEW id \in DOMAIN routes, NEW format \in Formats \cup {Unknown},
           routes' = [routes EXCEPT ![id] = format],
           UNCHANGED <<clients, refresh, changed, offered, learned>>
    PROVE  CatalogInv'
<1>1. DOMAIN routes' = DOMAIN routes /\ routes' \in RouteMaps
  <2>1. PICK D \in SUBSET Ids : routes \in [D -> Formats \cup {Unknown}]
    BY DEF CatalogInv, CatalogTypes, RouteMaps
  <2>2. routes' \in [D -> Formats \cup {Unknown}]
    BY <2>1
  <2> QED
    BY <2>1, <2>2 DEF RouteMaps
<1>2. CatalogTypes'
  BY <1>1 DEF CatalogInv, CatalogTypes, learned
<1>3. RefreshHolds' /\ RemovedClientsHaveNoRoutes'
  BY <1>1 DEF CatalogInv, RefreshHolds, RemovedClientsHaveNoRoutes
<1>4. HistoryInv'
  BY <1>1 DEF CatalogInv, HistoryInv, learned
<1> QED
  BY <1>2, <1>3, <1>4 DEF CatalogInv

(* The clients are exchanged, while no refresh runs. *)
LEMMA SetClientsStep ==
    ASSUME CatalogInv, NEW those \in SUBSET Keys, SetClients(those)
    PROVE  CatalogInv'
<1>1. /\ refresh.pc = "idle" /\ clients' = those /\ changed' = TRUE
      /\ UNCHANGED <<routes, refresh, offered, learned>>
  BY DEF SetClients
<1>2. CatalogTypes'
  BY <1>1 DEF CatalogInv, CatalogTypes, learned
<1>3. RefreshHolds' /\ RemovedClientsHaveNoRoutes'
  BY <1>1 DEF CatalogInv, RefreshHolds, RemovedClientsHaveNoRoutes, Unpublished
<1>4. HistoryInv'
  BY <1>1 DEF CatalogInv, HistoryInv, learned
<1> QED
  BY <1>2, <1>3, <1>4 DEF CatalogInv

(* Restore: what is in the settings is what was known. *)
LEMMA RestartStep == CatalogInv /\ RestartCatalog => CatalogInv'
<1> SUFFICES ASSUME CatalogInv, RestartCatalog
             PROVE  CatalogInv'
  OBVIOUS
<1>1. /\ clients' = {} /\ routes' = NoRoutes /\ refresh' = AtRest
      /\ known' = known /\ additions' = additions
      /\ changed' = TRUE /\ offered' = {}
      /\ UNCHANGED <<disk, baseline>>
  BY DEF RestartCatalog, CatalogInv, HistoryInv
<1>2. NoRoutes \in RouteMaps /\ DOMAIN NoRoutes = {}
  BY AtRestType DEF AtRest, Refreshes, NoRoutes
<1>3. CatalogTypes'
  BY <1>1, <1>2, AtRestType DEF CatalogInv, CatalogTypes
<1>4. RefreshHolds' /\ RemovedClientsHaveNoRoutes'
  BY <1>1, AtRestType DEF RefreshHolds, RemovedClientsHaveNoRoutes, Unpublished
<1>5. HistoryInv'
  BY <1>1, <1>2, AtRestType DEF CatalogInv, HistoryInv
<1> QED
  BY <1>3, <1>4, <1>5 DEF CatalogInv

-----------------------------------------------------------------------------
(* CatalogInv is inductive. *)
LEMMA CatalogStep == CatalogInv /\ [CatalogNext]_catalogVars => CatalogInv'
<1> SUFFICES ASSUME CatalogInv, [CatalogNext]_catalogVars
             PROVE  CatalogInv'
  OBVIOUS
<1>1. CASE \E those \in SUBSET Keys : SetClients(those)
  BY <1>1, SetClientsStep
<1>2. CASE RefreshStep
  <2>1. CASE Discovered
    BY <2>1, RefreshGoesOn DEF Discovered, RefreshLabels, CatalogInv, CatalogTypes, Unpublished
  <2> QED
    BY <1>2, <2>1, BeginRefreshStep, RecordStep, RecordFailsStep, PublishStep, HookSteps,
       EndRefreshStep, DiscoverFailsStep, DiscoverStep DEF RefreshStep
<1>3. CASE HookRuns
  BY <1>3, HookSteps
<1>4. CASE LearnStep
  BY <1>4, LearnSteps DEF LearnStep, LearnFormat, ClearFormat
<1>5. CASE RestartCatalog
  BY <1>5, RestartStep
<1>6. CASE UNCHANGED catalogVars
  <2>1. CatalogTypes' /\ RefreshHolds' /\ RemovedClientsHaveNoRoutes'
    BY <1>6 DEF CatalogInv, CatalogTypes, RefreshHolds, RemovedClientsHaveNoRoutes, catalogVars, learned
  <2>2. HistoryInv'
    BY <1>6 DEF CatalogInv, HistoryInv, NextModels, NextRoutes, Kept, Rediscovered, Carried,
       catalogVars, learned
  <2> QED
    BY <2>1, <2>2 DEF CatalogInv
<1> QED
  BY <1>1, <1>2, <1>3, <1>4, <1>5, <1>6 DEF CatalogNext

(* CatalogInv holds at the start, before any discovery. *)
LEMMA CatalogStart == CatalogInit => CatalogInv
<1> SUFFICES ASSUME CatalogInit
             PROVE  CatalogInv
  OBVIOUS
<1>1. NoRoutes \in RouteMaps /\ DOMAIN NoRoutes = {}
  BY AtRestType DEF AtRest, Refreshes, NoRoutes
<1>2. {} \in MaybeModels /\ NoAdditions \in [Models -> Nat] /\ \A m \in Models : NoAdditions[m] = 0
  BY DEF MaybeModels, NoAdditions
<1>3. CatalogTypes
  BY <1>1, <1>2, AtRestType DEF CatalogInit, CatalogTypes, StoredHistories
<1>4. RefreshHolds /\ RemovedClientsHaveNoRoutes
  BY <1>1, AtRestType DEF CatalogInit, RefreshHolds, RemovedClientsHaveNoRoutes, Unpublished
<1>5. HistoryInv
  BY <1>1, <1>2, AtRestType DEF CatalogInit, HistoryInv
<1> QED
  BY <1>3, <1>4, <1>5 DEF CatalogInv

(* The inductive invariant of the catalog: its types, what a running refresh keeps,
   the routes of removed clients and the history of announcements. *)
THEOREM CatalogInvariant == CatalogSpec => []CatalogInv
  BY CatalogStart, CatalogStep, PTL DEF CatalogSpec

(* The variables of the catalog keep their types. *)
THEOREM CatalogTypeCorrect == CatalogSpec => []CatalogTypeOK
<1>1. CatalogInv => CatalogTypeOK
  BY RefreshFields, RouteMapFacts DEF CatalogInv, CatalogTypes, CatalogTypeOK, StoredHistories, Range
<1> QED
  BY <1>1, CatalogInvariant, PTL

(* No route leads to a removed client once a refresh that began after the exchange
   of the clients was published. *)
THEOREM NoRoutesOfRemovedClients == CatalogSpec => []RemovedClientsHaveNoRoutes
  BY CatalogInvariant, PTL DEF CatalogInv

(* A model that came after the baseline is announced exactly once, through failed
   stores and restarts. *)
THEOREM AnnouncedOnce == CatalogSpec => []EachNewModelAnnouncedOnce
<1>1. CatalogInv => EachNewModelAnnouncedOnce
  <2> SUFFICES ASSUME CatalogInv
               PROVE  EachNewModelAnnouncedOnce
    OBVIOUS
  <2>1. \A id \in DOMAIN routes : ModelOf(id) \in Models
    BY RouteMapFacts DEF CatalogInv, CatalogTypes, Ids, ModelOf
  <2>2. \A m \in UNION baseline : m \in Models
    BY MaybeModelsUnion DEF CatalogInv, CatalogTypes
  <2> QED
    BY <2>1, <2>2 DEF CatalogInv, HistoryInv, EachNewModelAnnouncedOnce
<1> QED
  BY <1>1, CatalogInvariant, PTL

(* What a publication keeps, as the action of RefreshKeepsWhatItKnew. *)
KeepsWhatItKnew ==
    refresh.pc = "publish" /\ refresh'.pc = "hook" =>
        /\ \A id \in DOMAIN routes : KeyOf(id) \in refresh.failed => id \in DOMAIN routes'
        /\ \A id \in DOMAIN routes \cap DOMAIN routes' :
               routes[id] = refresh.prev[id] => routes'[id] = routes[id]

(* A refresh keeps the routes of failed clients and the formats that were known. *)
THEOREM RefreshKeeps == CatalogSpec => RefreshKeepsWhatItKnew
<1>1. CatalogInv /\ [CatalogNext]_catalogVars => [KeepsWhatItKnew]_routes
  <2> SUFFICES ASSUME CatalogInv, [CatalogNext]_catalogVars, routes' # routes,
                      refresh.pc = "publish", refresh'.pc = "hook"
               PROVE  KeepsWhatItKnew
    BY DEF KeepsWhatItKnew
  <2>1. Publish
    BY AtRestType DEF CatalogNext, RefreshStep, LearnStep, SetClients, BeginRefresh, Discovered, Record,
       RecordFails, NothingNew, EndRefresh, DiscoverFails, Discover, HookRuns, LearnFormat,
       ClearFormat, RestartCatalog, catalogVars
  <2>2. routes' = NextRoutes(refresh) /\ DOMAIN refresh.prev = DOMAIN routes
    BY <2>1 DEF Publish, CatalogInv, RefreshHolds, Unpublished
  <2>3. DOMAIN routes' = Kept(refresh) \cup Rediscovered(refresh)
    BY <2>2, NextRoutesType DEF CatalogInv, CatalogTypes
  <2>4. \A id \in DOMAIN routes : KeyOf(id) \in refresh.failed => id \in DOMAIN routes'
    BY <2>2, <2>3 DEF Kept
  <2>5. ASSUME NEW id \in DOMAIN routes \cap DOMAIN routes', routes[id] = refresh.prev[id]
        PROVE  routes'[id] = routes[id]
    BY <2>2, <2>3, <2>5 DEF NextRoutes, Carried
  <2> QED
    BY <2>4, <2>5 DEF KeepsWhatItKnew
<1>2. []([KeepsWhatItKnew]_routes) <=> RefreshKeepsWhatItKnew
  BY PTL DEF RefreshKeepsWhatItKnew, KeepsWhatItKnew
<1> QED
  BY <1>1, <1>2, CatalogInvariant, PTL DEF CatalogSpec

-----------------------------------------------------------------------------
(***************************************************************************)
(* The catalog and the groups joined.                                      *)
(***************************************************************************)

(* What a sync is still going to add to the pins of a group. *)
StillToPin(g) ==
    IF sync.pc = "stages" \/ (sync.pc = "save" /\ g \in sync.todo) THEN sync.routes ELSE {}

(* Every route that was published was offered to the groups, or is about to be. *)
OfferInv ==
    /\ HookIsRunning => refresh.pc = "end"
    /\ refresh.pc # "idle" => Pairs(refresh.prev) \subseteq offered
    /\ Pairs(routes) \subseteq offered \cup (IF refresh.pc = "hook" THEN NewPairs(refresh) ELSE {})

(* Every pair that was offered is pinned by the groups that follow, or is about to be. *)
PinInv ==
    /\ sync.pc = "stages" => \A g \in followed : sync.list[g] # Absent
    /\ ~aborted => \A g \in followed : offered \subseteq stored[g].stages.pinned \cup StillToPin(g)

ControlInv ==
    /\ CatalogInv /\ GroupInv
    /\ part \in {"catalog", "groups", "joint"} /\ followed \subseteq Followers
    /\ part = "joint" => OfferInv /\ PinInv

-----------------------------------------------------------------------------
(* Whichever part moves, the catalog takes a step of its own or none. *)
LEMMA ControlStepOfCatalog == [ControlNext]_controlVars => [CatalogNext]_catalogVars
<1> SUFFICES ASSUME [ControlNext]_controlVars
             PROVE  [CatalogNext]_catalogVars
  OBVIOUS
<1>1. CASE JointRefresh
  BY <1>1 DEF JointRefresh, JointClients, CatalogNext, RefreshStep
<1>2. CASE RefreshCallsHook
  BY <1>2 DEF RefreshCallsHook, CatalogNext
<1>3. CASE JointGroups
  BY <1>3 DEF JointGroups
<1>4. CASE UNCHANGED controlVars
  BY <1>4 DEF controlVars
<1> QED
  BY <1>1, <1>2, <1>3, <1>4 DEF ControlNext

(* The new pairs of a refresh are pairs of a provider and a model. *)
LEMMA NewPairsType == CatalogInv => NewPairs(refresh) \in SUBSET Sources
<1> SUFFICES ASSUME CatalogInv
             PROVE  NewPairs(refresh) \in SUBSET Sources
  OBVIOUS
<1>1. NextRoutes(refresh) \in RouteMaps
  BY NextRoutesType DEF CatalogInv, CatalogTypes
<1>2. DOMAIN NextRoutes(refresh) \in SUBSET Ids
  BY <1>1, RouteMapFacts
<1>3. \A id \in Ids : PairOf(id) \in PairSet
  BY DEF Ids, PairOf, KeyOf, ModelOf, PairSet
<1> QED
  BY <1>2, <1>3, ControlPlaneConstants DEF NewPairs, Pairs

(* And the groups take a step of their own or none. *)
LEMMA ControlStepOfGroups == CatalogInv /\ [ControlNext]_controlVars => [GroupStep]_groupVars
<1> SUFFICES ASSUME CatalogInv, [ControlNext]_controlVars
             PROVE  [GroupStep]_groupVars
  OBVIOUS
<1>1. CASE JointRefresh
  BY <1>1 DEF JointRefresh
<1>2. CASE RefreshCallsHook
  BY <1>2, NewPairsType DEF RefreshCallsHook, GroupStep
<1>3. CASE JointGroups
  BY <1>3 DEF JointGroups, GroupStep, Processes
<1>4. CASE UNCHANGED controlVars
  BY <1>4 DEF controlVars
<1>5. CASE GroupNext
  BY <1>5, GroupNextSteps
<1> QED
  BY <1>1, <1>2, <1>3, <1>4, <1>5 DEF ControlNext

-----------------------------------------------------------------------------
(* A step of the refresh that does not call the hook. *)
LEMMA JointRefreshKeeps ==
    ASSUME ControlInv, OfferInv, PinInv, JointRefresh, followed' \subseteq followed
    PROVE  OfferInv' /\ PinInv'
<1>1. UNCHANGED <<stored, sync, reload, aborted, offered>>
  BY DEF JointRefresh, groupVars, histories, BeginRefresh, Discovered, Record, RecordFails, Publish,
      NothingNew, EndRefresh, DiscoverFails, Discover, JointClients, SetClients
<1>2. PinInv'
  BY <1>1 DEF PinInv, StillToPin
<1>3. HookIsRunning' => refresh'.pc = "end"
  <2>1. HookIsRunning' = HookIsRunning
    BY <1>1 DEF HookIsRunning
  <2>2. refresh.pc = "end" /\ HookIsRunning => refresh' = refresh
    BY DEF JointRefresh, BeginRefresh, Discovered, Record, RecordFails, Publish,
      NothingNew, EndRefresh, DiscoverFails, Discover, JointClients, SetClients
  <2> QED
    BY <2>1, <2>2 DEF OfferInv
<1>4. refresh \in Refreshes
  BY DEF ControlInv, CatalogInv, CatalogTypes
<1>5. CASE Publish
  <2>1. /\ refresh.pc = "publish" /\ routes' = NextRoutes(refresh)
        /\ refresh' = [refresh EXCEPT !.pc = "hook"]
    BY <1>5 DEF Publish
  <2>2. refresh'.pc = "hook" /\ refresh'.prev = refresh.prev /\ refresh'.keys = refresh.keys
        /\ refresh'.found = refresh.found /\ refresh'.failed = refresh.failed
    BY <2>1, <1>4 DEF Refreshes
  <2>3. NewPairs(refresh') = NewPairs(refresh)
    BY <2>2 DEF NewPairs, NextRoutes, Kept, Rediscovered, Carried
  <2>4. Pairs(routes') \subseteq Pairs(refresh.prev) \cup NewPairs(refresh)
    BY <2>1 DEF NewPairs
  <2> QED
    BY <1>1, <1>2, <1>3, <2>1, <2>2, <2>3, <2>4 DEF OfferInv
<1>6. CASE NothingNew
  <2>1. refresh'.pc = "end" /\ refresh'.prev = refresh.prev /\ routes' = routes
        /\ NewPairs(refresh) = {} /\ refresh.pc = "hook"
    BY <1>4, <1>6 DEF NothingNew, Refreshes
  <2> QED
    BY <1>1, <1>2, <1>3, <2>1 DEF OfferInv
<1>7. CASE ~Publish /\ ~NothingNew
  <2> DEFINE Moves == /\ routes' = routes /\ refresh.pc # "hook" /\ refresh'.pc # "hook"
                      /\ \/ refresh'.pc = "idle" \/ refresh'.prev = routes
                         \/ refresh'.prev = refresh.prev /\ refresh.pc # "idle"
  <2>1. ASSUME BeginRefresh
        PROVE  Moves
    BY <2>1 DEF BeginRefresh
  <2>2. ASSUME Discovered \/ Record \/ RecordFails
        PROVE  Moves
    BY <1>4, <2>2 DEF Discovered, Record, RecordFails, Refreshes
  <2>3. ASSUME EndRefresh
        PROVE  Moves
    BY <2>3, AtRestType DEF EndRefresh
  <2>4. ASSUME NEW k \in Keys, DiscoverFails(k)
        PROVE  Moves
    BY <1>4, <2>4 DEF DiscoverFails, Refreshes
  <2>5. ASSUME NEW k \in Keys, NEW models \in SUBSET Models, Discover(k, models)
        PROVE  Moves
    <3>1. refresh.pc = "discover" /\ routes' = routes
      BY <2>5 DEF Discover
    <3>2. \E f : refresh' = [refresh EXCEPT !.found = f]
      BY <2>5 DEF Discover
    <3> QED
      BY <1>4, <3>1, <3>2 DEF Refreshes
  <2>6. ASSUME JointClients
        PROVE  Moves
    BY <2>6 DEF JointClients, SetClients
  <2>7. Moves
    BY <1>7, <2>1, <2>2, <2>3, <2>4, <2>5, <2>6 DEF JointRefresh
  <2> QED
    BY <1>1, <1>2, <1>3, <2>7 DEF OfferInv
<1> QED
  BY <1>5, <1>6, <1>7

(* The hook is called with the pairs that are new. *)
LEMMA HookKeeps ==
    ASSUME ControlInv, OfferInv, PinInv, RefreshCallsHook, followed' \subseteq followed
    PROVE  OfferInv' /\ PinInv'
<1> DEFINE batch == NewPairs(refresh)
<1>1. /\ refresh.pc = "hook" /\ offered' = offered \cup batch
      /\ refresh' = [refresh EXCEPT !.pc = "end"] /\ routes' = routes
      /\ sync.pc = "idle" /\ UNCHANGED <<stored, aborted>>
      /\ sync' = [SyncAtRest EXCEPT !.pc = "stages", !.routes = batch, !.list = ListRows]
  BY DEF RefreshCallsHook, HookRuns, SyncBegin, histories
<1>2. refresh'.pc = "end" /\ refresh'.prev = refresh.prev
  BY <1>1 DEF ControlInv, CatalogInv, CatalogTypes, Refreshes
<1>3. sync'.pc = "stages" /\ sync'.routes = batch /\ sync'.list = ListRows
  BY <1>1 DEF SyncAtRest
<1> HIDE DEF batch
<1>4. \A g \in followed : sync'.list[g] # Absent
  <2>1. ASSUME NEW g \in followed
        PROVE  Row(g) # Absent /\ g \in Groups
    <3>1. g \in Groups /\ stored[g].stages.follows
      BY DEF ControlInv, Followers
    <3>2. stored[g] # Absent
      BY <3>1, AbsentIsNone
    <3> QED
      BY <3>1, <3>2, RowFacts DEF ControlInv, GroupInv
  <2> QED
    BY <1>3, <2>1 DEF ListRows
<1>5. PinInv'
  <2>1. \A g : StillToPin(g) = {} /\ StillToPin(g)' = batch
    BY <1>1, <1>3 DEF StillToPin
  <2> QED
    BY <1>1, <1>3, <1>4, <2>1 DEF PinInv
<1>6. OfferInv'
  BY <1>1, <1>2 DEF OfferInv, batch
<1> QED
  BY <1>5, <1>6

-----------------------------------------------------------------------------
(* An editor never changes what a group pins: it saves the pins that it read. *)
LEMMA EditorKeepsPins ==
    ASSUME GroupInv, NEW w \in Editors, EditorStep(w), NEW g \in Followers'
    PROVE  stored'[g].stages.pinned = stored[g].stages.pinned
<1>1. g \in Groups /\ stored'[g].stages.follows
  BY DEF Followers
<1>2. CASE SaveGroup(w)
  <2> DEFINE h == editor[w].group
             input == editor[w].input
  <2>1. /\ h \in Groups /\ h \notin deleted /\ stored[h] = editor[w].seen
        /\ input \in Definitions /\ input.stages.pinned = editor[w].seen.stages.pinned
        /\ Saved(h, input) /\ deleted' = deleted
    BY <1>2, SaveReplacesSeen DEF SaveGroup, GroupInv, EditorInv, SaveInv
  <2>2. stored'[h].stages = input.stages /\ \A i \in Groups \ {h} : stored'[i] = stored[i]
    BY <2>1, SavedFacts DEF GroupInv
  <2> QED
    BY <1>1, <2>1, <2>2
<1>3. CASE DeleteGroup(w)
  <2>1. stored' = [stored EXCEPT ![editor[w].group] = Absent] /\ editor[w].group \in Groups
    BY <1>3 DEF DeleteGroup, GroupInv, GroupTypes, EditorStates
  <2>2. g # editor[w].group
    BY <1>1, <2>1, AbsentIsNone DEF GroupInv, GroupTypes, Stores
  <2> QED
    BY <1>1, <2>1, <2>2 DEF GroupInv, GroupTypes, Stores
<1>4. CASE ~SaveGroup(w) /\ ~DeleteGroup(w)
  BY <1>4 DEF EditorStep, OpenEditor, GetStages, Submit, SubmitNew, SaveRefused
<1> QED
  BY <1>2, <1>3, <1>4

(* A step of an editor, while the sync runs or not. *)
LEMMA JointEditorKeeps ==
    ASSUME ControlInv, PinInv, NEW w \in Editors, EditorStep(w), offered' = offered,
           followed' \subseteq followed, followed' \subseteq Followers'
    PROVE  PinInv'
<1>1. sync' = sync /\ aborted' = aborted
  BY DEF EditorStep, OpenEditor, GetStages, Submit, SubmitNew, SaveGroup, SaveRefused, DeleteGroup,
      histories
<1>2. \A g \in followed' : stored'[g].stages.pinned = stored[g].stages.pinned
  BY EditorKeepsPins DEF ControlInv
<1> QED
  BY <1>1, <1>2 DEF PinInv, StillToPin

(* The stages that the sync reads tell it which groups follow and what they pin. *)
LEMMA JointSyncStagesKeeps ==
    ASSUME ControlInv, PinInv, SyncStages, offered' = offered, followed' \subseteq followed
    PROVE  PinInv'
<1> DEFINE list == ListStages(sync.list)
           todo == {g \in Groups : Follows(list, g) /\ ~(sync.routes \subseteq list[g].stages.pinned)}
<1>1. sync.pc = "stages" /\ UNCHANGED <<stored, aborted>>
  BY DEF SyncStages, histories
<1>2. sync' = [sync EXCEPT !.pc = "save", !.list = list, !.todo = todo]
  BY DEF SyncStages
<1>3. ASSUME NEW g \in followed
      PROVE  g \in todo \/ sync.routes \subseteq stored[g].stages.pinned
  <2>1. g \in Groups /\ stored[g].stages.follows /\ sync.list[g] # Absent
    BY <1>1 DEF ControlInv, Followers, PinInv
  <2>2. sync.list[g] \in Definitions
    BY <1>1, <2>1 DEF ControlInv, GroupInv, SyncInv, SeenRow
  <2>3. list[g] = WithStages(sync.list[g], g)
    BY <2>1 DEF ListStages
  <2>4. list[g].stages = stored[g].stages
    BY <2>1, <2>2, <2>3, WithStagesType DEF ControlInv, GroupInv, Maybe
  <2> QED
    BY <2>1, <2>4 DEF Follows
<1> HIDE DEF list, todo
<1>4. sync'.pc = "save" /\ sync'.todo = todo /\ sync'.routes = sync.routes
  BY <1>2 DEF ControlInv, GroupInv, GroupTypes, Syncs
<1>5. \A g \in followed : StillToPin(g) = sync.routes /\ (g \in todo => StillToPin(g)' = sync.routes)
  BY <1>1, <1>4 DEF StillToPin
<1>6. ~aborted => \A g \in followed : offered \subseteq stored[g].stages.pinned \cup StillToPin(g)'
  BY <1>3, <1>5 DEF PinInv
<1> QED
  BY <1>1, <1>4, <1>6 DEF PinInv

(* A group that the sync saves has the new pairs from then on. *)
LEMMA JointSyncSaveKeeps ==
    ASSUME ControlInv, PinInv, NEW g \in Groups, SyncSave(g), offered' = offered,
           followed' \subseteq followed
    PROVE  PinInv'
<1> DEFINE included == [sync.list[g] EXCEPT !.stages.pinned = @ \cup sync.routes]
<1>1. /\ g \notin deleted /\ included \in Definitions /\ Saved(g, included)
      /\ included.stages.pinned = stored[g].stages.pinned \cup sync.routes
  BY SyncSavesSeen DEF ControlInv
<1>2. /\ sync.pc = "save" /\ UNCHANGED <<deleted, aborted>>
      /\ sync' = [sync EXCEPT !.todo = @ \ {g}]
  BY DEF SyncSave, histories
<1> HIDE DEF included
<1>3. /\ stored'[g].stages = included.stages /\ \A h \in Groups \ {g} : stored'[h] = stored[h]
  BY <1>1, <1>2, SavedFacts DEF ControlInv, GroupInv
<1>4. sync'.pc = "save" /\ sync'.todo = sync.todo \ {g} /\ sync'.routes = sync.routes
  BY <1>2 DEF ControlInv, GroupInv, GroupTypes, Syncs
<1>5. ASSUME NEW h \in followed
      PROVE  stored[h].stages.pinned \cup StillToPin(h) \subseteq stored'[h].stages.pinned \cup StillToPin(h)'
  <2>1. h \in Groups
    BY DEF ControlInv, Followers
  <2>2. CASE h = g
    BY <1>1, <1>2, <1>3, <2>2 DEF StillToPin
  <2>3. CASE h # g
    BY <1>2, <1>3, <1>4, <2>1, <2>3 DEF StillToPin
  <2> QED
    BY <2>2, <2>3
<1> QED
  BY <1>2, <1>4, <1>5 DEF PinInv

(* A step of the groups that the catalog does not take part in. *)
LEMMA JointGroupsKeep ==
    ASSUME ControlInv, OfferInv, PinInv, JointGroups, followed' \subseteq followed,
           followed' \subseteq Followers'
    PROVE  OfferInv' /\ PinInv'
<1>1. UNCHANGED <<routes, refresh, offered>>
  BY DEF JointGroups, catalogVars
<1>2. reload \in [Processes -> Reloads] /\ "sync" \in Processes
  BY DEF ControlInv, GroupInv, GroupTypes, Processes
<1>3. CASE SyncStep
  <2>1. HookIsRunning
    BY <1>3 DEF HookIsRunning, SyncStep, SyncStages, SyncDone, SyncSave, SyncConflict
  <2>2. OfferInv'
    BY <1>1, <2>1 DEF OfferInv, NewPairs, NextRoutes, Kept, Rediscovered, Carried
  <2>3. CASE SyncDone
    <3>1. /\ sync.pc = "save" /\ sync.todo = {} /\ sync'.pc = "idle" /\ UNCHANGED <<stored, aborted>>
      BY <2>3, RestTypes DEF SyncDone
    <3>2. \A g : StillToPin(g) = {} /\ StillToPin(g)' = {}
      BY <3>1 DEF StillToPin
    <3> QED
      BY <1>1, <2>2, <3>1, <3>2 DEF PinInv
  <2>4. CASE \E g \in Groups : SyncConflict(g)
    BY <2>2, <2>4, RestTypes DEF SyncConflict, PinInv
  <2> QED
    BY <1>1, <1>3, <2>2, <2>3, <2>4, JointSyncStagesKeeps, JointSyncSaveKeeps DEF SyncStep
<1>4. CASE \E p \in Editors \cup {"sync"} : ReloadStep(p)
  <2>1. PICK p \in Processes : ReloadStep(p)
    BY <1>4 DEF Processes
  <2>2. UNCHANGED <<stored, sync>> /\ (aborted => aborted') /\ reload[p].pc # "idle"
    BY <2>1 DEF ReloadStep, ReloadReads, ReloadSwaps, ReloadFails
  <2>3. \A q \in Processes \ {p} : reload'[q] = reload[q]
    BY <1>2, <2>1 DEF ReloadStep, ReloadReads, ReloadSwaps, ReloadFails
  <2>4. HookIsRunning' => HookIsRunning
    BY <1>2, <2>2, <2>3 DEF HookIsRunning
  <2> QED
    BY <1>1, <2>2, <2>4 DEF OfferInv, PinInv, StillToPin, NewPairs, NextRoutes, Kept, Rediscovered, Carried
<1>5. CASE \E w \in Editors : EditorStep(w)
  <2>1. PICK w \in Editors : EditorStep(w)
    BY <1>5
  <2>2. sync' = sync /\ (reload' = reload \/ StartReload(w))
    BY <2>1 DEF EditorStep, OpenEditor, GetStages, Submit, SubmitNew, SaveGroup, SaveRefused, DeleteGroup
  <2>3. HookIsRunning' = HookIsRunning
    BY <1>2, <2>1, <2>2, GroupStoreConstants DEF HookIsRunning, StartReload
  <2>4. OfferInv'
    BY <1>1, <2>3 DEF OfferInv, NewPairs, NextRoutes, Kept, Rediscovered, Carried
  <2> QED
    BY <1>1, <2>1, <2>4, JointEditorKeeps
<1> QED
  BY <1>3, <1>4, <1>5 DEF JointGroups

-----------------------------------------------------------------------------
(* ControlInv holds at the start, when no group has followed anything yet. *)
LEMMA ControlStart == ControlInit => ControlInv
<1> SUFFICES ASSUME ControlInit
             PROVE  ControlInv
  OBVIOUS
<1>1. CatalogInv /\ GroupInv
  BY CatalogStart, GroupStart DEF ControlInit
<1>2. /\ refresh.pc = "idle" /\ offered = {} /\ routes = NoRoutes
      /\ sync.pc = "idle" /\ reload["sync"].pc = "idle"
  BY AtRestType, RestTypes DEF ControlInit, CatalogInit, GroupInit
<1>3. Pairs(routes) = {}
  BY <1>2 DEF Pairs, NoRoutes
<1>4. OfferInv /\ PinInv
  BY <1>2, <1>3 DEF OfferInv, PinInv, HookIsRunning
<1> QED
  BY <1>1, <1>4 DEF ControlInit, ControlInv

(* ControlInv is inductive. *)
LEMMA ControlStep == ControlInv /\ [ControlNext]_controlVars => ControlInv'
<1> SUFFICES ASSUME ControlInv, [ControlNext]_controlVars
             PROVE  ControlInv'
  OBVIOUS
<1>1. CatalogInv'
  BY CatalogStep, ControlStepOfCatalog DEF ControlInv
<1>2. GroupInv'
  BY GroupStepKeeps, ControlStepOfGroups DEF ControlInv
<1>3. CASE UNCHANGED controlVars
  <2>1. /\ part' = part /\ followed' = followed /\ UNCHANGED <<refresh, offered, routes>>
        /\ UNCHANGED <<stored, sync, reload, aborted>>
    BY <1>3 DEF controlVars, catalogVars, groupVars, histories
  <2>2. Followers' = Followers /\ (OfferInv => OfferInv') /\ (PinInv => PinInv')
    BY <2>1 DEF Followers, OfferInv, PinInv, StillToPin, HookIsRunning, NewPairs, NextRoutes, Kept,
        Rediscovered, Carried
  <2> QED
    BY <1>1, <1>2, <2>1, <2>2 DEF ControlInv
<1>4. CASE ControlNext
  <2>1. part' = part /\ followed' \subseteq followed /\ followed' \subseteq Followers'
    BY <1>4 DEF ControlNext
  <2>2. part = "joint" => OfferInv' /\ PinInv'
    BY <1>4, <2>1, JointRefreshKeeps, HookKeeps, JointGroupsKeep DEF ControlNext, ControlInv
  <2> QED
    BY <1>1, <1>2, <2>1, <2>2 DEF ControlInv
<1> QED
  BY <1>3, <1>4

(* The inductive invariant of the control plane. *)
THEOREM ControlInvariant == ControlSpec => []ControlInv
  BY ControlStart, ControlStep, PTL DEF ControlSpec

(* Seen from the catalog, the control plane is the catalog: what was proved of its *)
(* specification holds of the program in which its refreshes call the groups.       *)
THEOREM ControlImplementsCatalog == ControlSpec => CatalogSpec
<1>1. ControlInit => CatalogInit
  BY DEF ControlInit
<1> QED
  BY <1>1, ControlStepOfCatalog, PTL DEF ControlSpec, CatalogSpec

(* The types of the control plane. *)
THEOREM ControlTypeCorrect == ControlSpec => []ControlTypeOK
<1>1. ControlInv /\ CatalogTypeOK => ControlTypeOK
  BY GroupTypesCorrect DEF ControlInv, ControlTypeOK, Followers
<1> QED
  BY <1>1, ControlInvariant, ControlImplementsCatalog, CatalogTypeCorrect, PTL

(* In the control plane no route leads to a removed client once a refresh that began *)
(* after the exchange of the clients was published.                                   *)
THEOREM ControlRemovedClients == ControlSpec => []RemovedClientsHaveNoRoutes
  BY ControlImplementsCatalog, NoRoutesOfRemovedClients, PTL

(* In the control plane a model that came after the baseline is announced once. *)
THEOREM ControlAnnouncedOnce == ControlSpec => []EachNewModelAnnouncedOnce
  BY ControlImplementsCatalog, AnnouncedOnce, PTL

(* In the control plane a partial refresh keeps the routes of failed clients and the *)
(* formats that were known.                                                           *)
THEOREM ControlRefreshKeeps == ControlSpec => RefreshKeepsWhatItKnew
  BY ControlImplementsCatalog, RefreshKeeps, PTL

(* Stored groups nest only stored groups. *)
THEOREM ControlReferencesResolve == ControlSpec => []ReferencesResolve
<1>1. ControlInv => ReferencesResolve
  BY DEF ControlInv, GroupInv
<1> QED
  BY <1>1, ControlInvariant, PTL

(* Enabled groups that nest each other in a cycle come from two saves that raced. *)
THEOREM ControlCyclesOnlyFromRaces == ControlSpec => []EnabledCyclesOnlyFromRaces
<1>1. ControlInv => EnabledCyclesOnlyFromRaces
  BY DEF ControlInv, GroupInv
<1> QED
  BY <1>1, ControlInvariant, PTL

(* Every change of the groups reaches the cache, unless something failed or overtook. *)
THEOREM ControlCacheFollows == ControlSpec => []CacheFollowsTheStore
<1>1. ControlInv => CacheFollowsTheStore
  BY CacheAtRest DEF ControlInv
<1> QED
  BY <1>1, ControlInvariant, PTL

(* A save of an editor or of the sync replaces exactly what it read. *)
THEOREM ControlNoLostUpdate == ControlSpec => NoLostUpdate
<1>1. ControlInv /\ [ControlNext]_controlVars => [ReplacesWhatWasRead]_groupVars
  BY ControlStepOfGroups, GroupStepReplaces DEF ControlInv
<1>2. []([ReplacesWhatWasRead]_groupVars) <=> NoLostUpdate
  BY PTL DEF NoLostUpdate, ReplacesWhatWasRead
<1> QED
  BY <1>1, <1>2, ControlInvariant, PTL DEF ControlSpec

(* A group that follows new providers pins all of them whenever no refresh is running, *)
(* unless a sync or a reload failed.                                                    *)
THEOREM FollowersPin == ControlSpec => []FollowersPinTheCatalog
<1>1. ControlInv => FollowersPinTheCatalog
  <2> SUFFICES ASSUME ControlInv, part = "joint", refresh.pc = "idle", ~aborted,
                      NEW g \in followed
               PROVE  offered \cup Pairs(routes) \subseteq stored[g].stages.pinned
    BY DEF FollowersPinTheCatalog
  <2>1. OfferInv /\ PinInv
    BY DEF ControlInv
  <2>2. Pairs(routes) \subseteq offered /\ sync.pc = "idle"
    BY <2>1 DEF OfferInv, HookIsRunning
  <2>3. StillToPin(g) = {}
    BY <2>2 DEF StillToPin
  <2> QED
    BY <2>1, <2>2, <2>3 DEF PinInv
<1> QED
  BY <1>1, ControlInvariant, PTL

-----------------------------------------------------------------------------
(* The credentials. *)
TableOf(f, ids, values) == DOMAIN f \subseteq ids /\ f \in [DOMAIN f -> values]

CredentialTypes ==
    /\ used \subseteq CredentialIds
    /\ TableOf(rows, used, Rows)
    /\ TableOf(configured, CredentialIds, Modes)
    /\ TableOf(blocked, CredentialIds, Limits)
    /\ handler \in [Handlers -> HandlerStates]
    /\ calling \in [Calls -> CallStates]
    /\ twins \subseteq Secrets /\ unread \in BOOLEAN /\ contradicted \subseteq CredentialIds

(* A list that is neither old nor behind another is the table's, unless a change of   *)
(* the table is still to be read; and who is behind is known of everybody that waits. *)
ListsInv ==
    /\ \A h \in Handlers : handler[h].pc = "set" =>
        /\ \A i \in handler[h].behind : i \in Handlers \ {h} /\ handler[i].pc = "set"
        /\ ~handler[h].old /\ handler[h].behind = {} /\ (\A i \in Handlers : handler[i].pc # "load")
             => handler[h].list = ClientsOf(rows)
    /\ Pending = {} /\ ~unread => configured = ClientsOf(rows)

(* A key that somebody is adding is not stored, nor added by another, or it is known *)
(* that two added it.                                                                *)
TwinsInv ==
    \A h \in Handlers : handler[h].pc = "verify" =>
        /\ \A id \in DOMAIN rows : rows[id].secret = handler[h].secret => handler[h].secret \in twins
        /\ \A i \in Handlers \ {h} :
               handler[i].pc = "verify" /\ handler[i].secret = handler[h].secret
                   => handler[h].secret \in twins

(* What a request is about to mark is blocked already. *)
MarksInv ==
    \A q \in Calls :
        calling[q].pc = "mark" /\ calling[q].limit = "forever" /\ calling[q].id \notin contradicted
            => calling[q].id \in DOMAIN blocked /\ blocked[calling[q].id] = "forever"

CredentialsInv ==
    CredentialTypes /\ ListsInv /\ TwinsInv /\ KeysAreStoredOnce /\ MarksInv /\ LimitsHold

(* The states of a handler and of a request by their places. *)
LEMMA HandlerFields ==
    ASSUME NEW s \in HandlerStates
    PROVE  /\ s.pc \in {"idle", "load", "verify", "update", "delete", "set"}
           /\ s.pc = "verify" => s.secret \in Secrets /\ s.mode \in Modes
           /\ s.pc = "update" => s.id \in CredentialIds /\ s.mode \in Modes /\ s.resets \in BOOLEAN
           /\ s.pc = "delete" => s.id \in CredentialIds
           /\ s.pc = "set" => /\ s.list \in UNION {[S -> Modes] : S \in SUBSET CredentialIds}
                              /\ s.behind \in SUBSET Handlers /\ s.old \in BOOLEAN
                              /\ s = [pc |-> "set", list |-> s.list, behind |-> s.behind, old |-> s.old]
BY DEF HandlerStates

LEMMA CallFields ==
    ASSUME NEW s \in CallStates
    PROVE  /\ s.pc \in {"idle", "call", "mark"}
           /\ s.pc \in {"call", "mark"} => s.id \in CredentialIds
           /\ s.pc = "mark" => s.limit \in Limits
BY DEF CallStates

(* A table of clients is made of any table of rows. *)
LEMMA ClientsAreTyped ==
    ASSUME CredentialTypes
    PROVE  /\ ClientsOf(rows) \in UNION {[S -> Modes] : S \in SUBSET CredentialIds}
           /\ TableOf(ClientsOf(rows), CredentialIds, Modes)
           /\ Nothing \in UNION {[S -> Modes] : S \in SUBSET CredentialIds}
           /\ TableOf(Nothing, CredentialIds, Modes)
<1>1. ClientsOf(rows) \in [DOMAIN rows -> Modes] /\ DOMAIN ClientsOf(rows) = DOMAIN rows
  BY DEF ClientsOf, CredentialTypes, TableOf, Rows
<1>2. Nothing \in [{} -> Modes] /\ DOMAIN Nothing = {}
  BY DEF Nothing
<1>. QED
  BY <1>1, <1>2 DEF CredentialTypes, TableOf

(* A step that leaves the table, the clients and the waiting lists alone. *)
LEMMA ListsStay ==
    ASSUME ListsInv, UNCHANGED <<configured, unread>>, ClientsOf(rows)' = ClientsOf(rows),
           \A h \in Handlers : /\ handler[h].pc \in {"load", "set"} \/ handler'[h].pc \in {"load", "set"}
                                    => handler'[h] = handler[h]
    PROVE  ListsInv'
BY DEF ListsInv, Pending

(* A change of the table: its handler reads the table next. *)
LEMMA ListsChange ==
    ASSUME NEW h \in Handlers, ListsInv, handler \in [Handlers -> HandlerStates],
           handler[h].pc \notin {"load", "set"}, UNCHANGED <<configured, unread>>,
           handler' = [handler EXCEPT ![h] = [pc |-> "load"]]
    PROVE  ListsInv'
<1>1. handler'[h].pc = "load" /\ \A i \in Handlers \ {h} : handler'[i] = handler[i]
  OBVIOUS
<1>2. Pending' # {}
  BY <1>1 DEF Pending
<1>. QED
  BY <1>1, <1>2 DEF ListsInv

(* The steps of a handler that only move it. *)
LEMMA HandlerMoves ==
    ASSUME NEW h \in Handlers, NEW s \in HandlerStates, CredentialsInv,
           handler[h].pc \notin {"load", "set"}, s.pc \in {"idle", "update", "delete"},
           Goes(h, s), OnlyHandler
    PROVE  CredentialsInv'
<1>1. /\ handler' = [handler EXCEPT ![h] = s] /\ handler'[h] = s
      /\ \A i \in Handlers \ {h} : handler'[i] = handler[i]
  BY DEF Goes, CredentialsInv, CredentialTypes
<1>2. CredentialTypes'
  BY <1>1 DEF CredentialsInv, CredentialTypes, OnlyHandler, TableOf
<1>3. ListsInv'
  BY <1>1, ListsStay DEF CredentialsInv, OnlyHandler, ClientsOf
<1>4. TwinsInv'
  BY <1>1 DEF CredentialsInv, TwinsInv, OnlyHandler
<1>5. (KeysAreStoredOnce /\ MarksInv /\ LimitsHold)'
  BY DEF CredentialsInv, KeysAreStoredOnce, MarksInv, LimitsHold, OnlyHandler
<1>. QED
  BY <1>2, <1>3, <1>4, <1>5 DEF CredentialsInv

LEMMA CreateBegins ==
    ASSUME NEW h \in Handlers, NEW secret \in Secrets, NEW mode \in Modes,
           CredentialsInv, BeginCreate(h, secret, mode)
    PROVE  CredentialsInv'
<1> DEFINE s == [pc |-> "verify", secret |-> secret, mode |-> mode]
<1>1. /\ handler' = [handler EXCEPT ![h] = s] /\ handler'[h] = s /\ handler[h].pc = "idle"
      /\ \A i \in Handlers \ {h} : handler'[i] = handler[i]
      /\ s \in HandlerStates /\ s.pc = "verify" /\ s.secret = secret
  BY DEF BeginCreate, Goes, CredentialsInv, CredentialTypes, HandlerStates
<1>2. /\ UNCHANGED <<rows, configured, blocked, calling, used, unread, contradicted>>
      /\ \A id \in DOMAIN rows : rows[id].secret # secret
      /\ twins \subseteq twins' /\ twins' \subseteq Secrets
      /\ Adding(secret) # {} => secret \in twins'
  BY DEF BeginCreate, CredentialsInv, CredentialTypes
<1> HIDE DEF s
<1>3. CredentialTypes'
  BY <1>1, <1>2 DEF CredentialsInv, CredentialTypes, TableOf
<1>4. ListsInv'
  BY <1>1, <1>2, ListsStay DEF CredentialsInv, ClientsOf
<1>5. TwinsInv'
  BY <1>1, <1>2 DEF CredentialsInv, TwinsInv, Adding
<1>6. (KeysAreStoredOnce /\ MarksInv /\ LimitsHold)'
  BY <1>2 DEF CredentialsInv, KeysAreStoredOnce, MarksInv, LimitsHold
<1>. QED
  BY <1>3, <1>4, <1>5, <1>6 DEF CredentialsInv

LEMMA CreateIsStored ==
    ASSUME NEW h \in Handlers, CredentialsInv, StoreCreated(h)
    PROVE  CredentialsInv'
<1>1. PICK id \in CredentialIds \ used :
          /\ rows' = [i \in DOMAIN rows \cup {id} |->
               IF i = id
               THEN [secret |-> handler[h].secret, mode |-> handler[h].mode, limited |-> "no"]
               ELSE rows[i]]
          /\ used' = used \cup {id}
  BY DEF StoreCreated
<1>2. /\ handler[h].pc = "verify" /\ handler[h].secret \in Secrets /\ handler[h].mode \in Modes
      /\ handler' = [handler EXCEPT ![h] = [pc |-> "load"]] /\ handler'[h] = [pc |-> "load"]
      /\ \A i \in Handlers \ {h} : handler'[i] = handler[i]
      /\ UNCHANGED <<configured, blocked, calling, twins, unread, contradicted>>
  BY HandlerFields DEF StoreCreated, Goes, CredentialsInv, CredentialTypes
<1>3. /\ DOMAIN rows' = DOMAIN rows \cup {id} /\ id \notin DOMAIN rows
      /\ rows'[id] = [secret |-> handler[h].secret, mode |-> handler[h].mode, limited |-> "no"]
      /\ \A i \in DOMAIN rows : rows'[i] = rows[i]
  BY <1>1 DEF CredentialsInv, CredentialTypes, TableOf
<1>4. CredentialTypes'
  <2>1. rows'[id] \in Rows /\ \A i \in DOMAIN rows : rows[i] \in Rows
    BY <1>2, <1>3 DEF Rows, CredentialsInv, CredentialTypes, TableOf
  <2>2. TableOf(rows, used, Rows)'
    BY <1>1, <1>3, <2>1 DEF TableOf, CredentialsInv, CredentialTypes
  <2>3. handler' \in [Handlers -> HandlerStates]
    BY <1>2 DEF CredentialsInv, CredentialTypes, HandlerStates
  <2>. QED
    BY <1>1, <1>2, <2>2, <2>3 DEF CredentialsInv, CredentialTypes, TableOf
<1>5. ListsInv'
  BY <1>2, ListsChange DEF CredentialsInv, CredentialTypes
<1>6. TwinsInv'
  BY <1>2, <1>3 DEF CredentialsInv, TwinsInv
<1>7. KeysAreStoredOnce'
  BY <1>2, <1>3 DEF CredentialsInv, TwinsInv, KeysAreStoredOnce
<1>8. (MarksInv /\ LimitsHold)'
  BY <1>2, <1>3 DEF CredentialsInv, MarksInv, LimitsHold
<1>. QED
  BY <1>4, <1>5, <1>6, <1>7, <1>8 DEF CredentialsInv

LEMMA UpdateIsStored ==
    ASSUME NEW h \in Handlers, CredentialsInv, StoreUpdate(h)
    PROVE  CredentialsInv'
<1> DEFINE u == handler[h]
<1> DEFINE row == [rows[u.id] EXCEPT !.mode = u.mode, !.limited = IF u.resets THEN "no" ELSE @]
<1>1. /\ u.pc = "update" /\ u.id \in DOMAIN rows /\ u.mode \in Modes
      /\ handler' = [handler EXCEPT ![h] = [pc |-> "load"]] /\ handler'[h] = [pc |-> "load"]
      /\ \A i \in Handlers \ {h} : handler'[i] = handler[i]
      /\ UNCHANGED <<configured, blocked, calling, used, twins, unread, contradicted>>
  BY HandlerFields DEF StoreUpdate, AfterUpdate, Goes, CredentialsInv, CredentialTypes
<1>2. /\ rows' \in [DOMAIN rows -> Rows] /\ DOMAIN rows' = DOMAIN rows
      /\ \A id \in DOMAIN rows : /\ rows'[id].secret = rows[id].secret
                                 /\ rows'[id].limited \in {rows[id].limited, "no"}
  <2>1. rows' = [rows EXCEPT ![u.id].mode = u.mode, ![u.id].limited = IF u.resets THEN "no" ELSE @]
    BY DEF StoreUpdate
  <2>2. rows \in [DOMAIN rows -> [secret : Secrets, mode : Modes, limited : Limits \cup {"no"}]]
    BY DEF CredentialsInv, CredentialTypes, TableOf, Rows
  <2>. QED
    BY <1>1, <2>1, <2>2 DEF Rows
<1>3. CredentialTypes'
  <2>1. handler' \in [Handlers -> HandlerStates]
    BY <1>1 DEF CredentialsInv, CredentialTypes, HandlerStates
  <2>. QED
    BY <1>1, <1>2, <2>1 DEF CredentialsInv, CredentialTypes, TableOf
<1>4. ListsInv'
  BY <1>1, ListsChange DEF CredentialsInv, CredentialTypes
<1>5. (TwinsInv /\ KeysAreStoredOnce)'
  BY <1>1, <1>2 DEF CredentialsInv, TwinsInv, KeysAreStoredOnce
<1>6. (MarksInv /\ LimitsHold)'
  BY <1>1, <1>2 DEF CredentialsInv, MarksInv, LimitsHold
<1>. QED
  BY <1>3, <1>4, <1>5, <1>6 DEF CredentialsInv

LEMMA DeleteIsStored ==
    ASSUME NEW h \in Handlers, CredentialsInv, StoreDelete(h)
    PROVE  CredentialsInv'
<1>1. /\ handler[h].pc = "delete"
      /\ handler' = [handler EXCEPT ![h] = [pc |-> "load"]] /\ handler'[h] = [pc |-> "load"]
      /\ \A i \in Handlers \ {h} : handler'[i] = handler[i]
      /\ UNCHANGED <<configured, blocked, calling, used, twins, unread, contradicted>>
  BY DEF StoreDelete, Goes, CredentialsInv, CredentialTypes
<1>2. /\ DOMAIN rows' \subseteq DOMAIN rows /\ \A id \in DOMAIN rows' : rows'[id] = rows[id]
      /\ rows' = [id \in DOMAIN rows' |-> rows'[id]]
  BY DEF StoreDelete, Restrict
<1>3. CredentialTypes'
  <2>1. handler' \in [Handlers -> HandlerStates]
    BY <1>1 DEF CredentialsInv, CredentialTypes, HandlerStates
  <2>2. TableOf(rows, used, Rows)'
    BY <1>1, <1>2 DEF CredentialsInv, CredentialTypes, TableOf
  <2>. QED
    BY <1>1, <2>1, <2>2 DEF CredentialsInv, CredentialTypes, TableOf
<1>4. ListsInv'
  BY <1>1, ListsChange DEF CredentialsInv, CredentialTypes
<1>5. (TwinsInv /\ KeysAreStoredOnce)'
  BY <1>1, <1>2 DEF CredentialsInv, TwinsInv, KeysAreStoredOnce
<1>6. (MarksInv /\ LimitsHold)'
  BY <1>1, <1>2 DEF CredentialsInv, MarksInv, LimitsHold
<1>. QED
  BY <1>3, <1>4, <1>5, <1>6 DEF CredentialsInv

(* A handler that waits with a list, as it is and with its other places changed. *)
Lists == UNION {[S -> Modes] : S \in SUBSET CredentialIds}
Waiting(list, behind, old) == [pc |-> "set", list |-> list, behind |-> behind, old |-> old]

LEMMA WaitingFields ==
    ASSUME NEW list \in Lists, NEW behind \in SUBSET Handlers, NEW old \in BOOLEAN
    PROVE  /\ Waiting(list, behind, old) \in HandlerStates
           /\ Waiting(list, behind, old).pc = "set"
           /\ Waiting(list, behind, old).list = list
           /\ Waiting(list, behind, old).behind = behind
           /\ Waiting(list, behind, old).old = old
BY DEF Waiting, HandlerStates, Lists

LEMMA HandlersWait ==
    ASSUME NEW s \in HandlerStates, s.pc = "set"
    PROVE  /\ s.list \in Lists /\ s.behind \in SUBSET Handlers /\ s.old \in BOOLEAN
           /\ s = Waiting(s.list, s.behind, s.old)
BY HandlerFields DEF Waiting, Lists

LEMMA ClientsAreLoaded ==
    ASSUME NEW h \in Handlers, CredentialsInv, LoadClients(h)
    PROVE  CredentialsInv'
<1>1. PICK reads \in BOOLEAN :
         handler' = [i \in Handlers |->
           IF i = h
           THEN [pc |-> "set", list |-> IF reads THEN ClientsOf(rows) ELSE Nothing,
                 behind |-> {}, old |-> ~reads]
           ELSE IF handler[i].pc = "set"
                THEN [handler[i] EXCEPT !.behind = @ \cup {h}]
                ELSE handler[i]]
  BY DEF LoadClients
<1> DEFINE list == IF reads THEN ClientsOf(rows) ELSE Nothing
<1>2. list \in Lists /\ (reads => list = ClientsOf(rows))
  BY ClientsAreTyped DEF CredentialsInv, Lists
<1> DEFINE old == ~reads
<1>3. handler'[h] = Waiting(list, {}, old) /\ {} \in SUBSET Handlers /\ old \in BOOLEAN
  BY <1>1 DEF Waiting
<1> HIDE DEF list, old
<1>4. /\ handler'[h] \in HandlerStates /\ handler'[h].pc = "set" /\ handler'[h].list = list
      /\ handler'[h].behind = {} /\ handler'[h].old = old
  BY <1>2, <1>3, WaitingFields
<1>5. ASSUME NEW i \in Handlers \ {h}, handler[i].pc = "set"
      PROVE  /\ handler'[i] \in HandlerStates /\ handler'[i].pc = "set"
             /\ handler'[i].list = handler[i].list
             /\ handler'[i].behind = handler[i].behind \cup {h}
             /\ handler'[i].old = handler[i].old
  <2>1. /\ handler'[i] = [handler[i] EXCEPT !.behind = handler[i].behind \cup {h}]
        /\ handler[i] \in HandlerStates
    BY <1>1, <1>5 DEF CredentialsInv, CredentialTypes
  <2>2. handler[i].behind \cup {h} \in SUBSET Handlers
    BY <1>5, <2>1, HandlersWait
  <2> DEFINE s == handler[i]
  <2> DEFINE t == handler'[i]
  <2> DEFINE b == handler[i].behind \cup {h}
  <2>3. s \in HandlerStates /\ s.pc = "set" /\ b \in SUBSET Handlers /\ t = [s EXCEPT !.behind = b]
    BY <1>5, <2>1, <2>2
  <2> HIDE DEF s, t, b
  <2>4. t = Waiting(s.list, b, s.old)
    BY <2>3, HandlersWait DEF Waiting
  <2>5. s.list \in Lists /\ s.old \in BOOLEAN
    BY <2>3, HandlersWait
  <2>6. /\ t \in HandlerStates /\ t.pc = "set" /\ t.list = s.list /\ t.behind = b /\ t.old = s.old
    BY <2>3, <2>4, <2>5, WaitingFields
  <2>. QED
    BY <2>6 DEF s, t, b
<1>6. \A i \in Handlers \ {h} : handler[i].pc # "set" => handler'[i] = handler[i]
  BY <1>1
<1>7. /\ UNCHANGED <<rows, configured, blocked, calling, used, twins, unread, contradicted>>
      /\ handler[h].pc = "load"
  BY DEF LoadClients, OnlyHandler
<1>8. CredentialTypes'
  <2>1. handler' \in [Handlers -> HandlerStates]
    <3>1. \A i \in Handlers : handler'[i] \in HandlerStates
      BY <1>4, <1>5, <1>6 DEF CredentialsInv, CredentialTypes
    <3>2. handler' = [i \in Handlers |-> handler'[i]]
      BY <1>1
    <3>. QED
      BY <3>1, <3>2
  <2>. QED
    BY <1>7, <2>1 DEF CredentialsInv, CredentialTypes, TableOf
<1>9. ListsInv'
  <2>1. \A i \in Handlers : handler'[i].pc = "set" =>
            \A j \in handler'[i].behind : j \in Handlers \ {i} /\ handler'[j].pc = "set"
    <3> SUFFICES ASSUME NEW i \in Handlers, handler'[i].pc = "set", NEW j \in handler'[i].behind
                 PROVE  j \in Handlers \ {i} /\ handler'[j].pc = "set"
      OBVIOUS
    <3>1. i # h
      BY <1>4
    <3>2. handler[i].pc = "set" /\ handler'[i].behind = handler[i].behind \cup {h}
      BY <3>1, <1>5, <1>6
    <3>3. CASE j = h
      BY <3>1, <3>3, <1>4
    <3>4. CASE j # h
      <4>1. j \in handler[i].behind
        BY <3>2, <3>4
      <4>2. j \in Handlers \ {i} /\ handler[j].pc = "set"
        BY <4>1, <3>2 DEF CredentialsInv, ListsInv
      <4>. QED
        BY <4>2, <3>4, <1>5
    <3>. QED
      BY <3>3, <3>4
  <2>2. \A i \in Handlers : handler'[i].pc = "set" /\ ~handler'[i].old /\ handler'[i].behind = {}
            => handler'[i].list = ClientsOf(rows)
    <3> SUFFICES ASSUME NEW i \in Handlers, handler'[i].pc = "set", ~handler'[i].old,
                        handler'[i].behind = {}
                 PROVE  handler'[i].list = ClientsOf(rows)
      OBVIOUS
    <3>1. CASE i = h
      BY <1>2, <1>4, <3>1 DEF old
    <3>2. CASE i # h
      <4>1. h \in handler'[i].behind
        BY <3>2, <1>5, <1>6
      <4>. QED
        BY <4>1
    <3>. QED
      BY <3>1, <3>2
  <2>3. h \in Pending'
    BY <1>4 DEF Pending
  <2>. QED
    BY <1>7, <2>1, <2>2, <2>3 DEF ListsInv, ClientsOf
<1>10. TwinsInv'
  <2>1. \A i \in Handlers : handler'[i].pc = "verify" => i # h /\ handler'[i] = handler[i]
    BY <1>4, <1>5, <1>6
  <2>. QED
    BY <1>7, <2>1 DEF CredentialsInv, TwinsInv
<1>11. (KeysAreStoredOnce /\ MarksInv /\ LimitsHold)'
  BY <1>7 DEF CredentialsInv, KeysAreStoredOnce, MarksInv, LimitsHold
<1>. QED
  BY <1>8, <1>9, <1>10, <1>11 DEF CredentialsInv

LEMMA ClientsAreExchanged ==
    ASSUME NEW h \in Handlers, CredentialsInv, ExchangeClients(h)
    PROVE  CredentialsInv'
<1>1. /\ handler[h].pc = "set" /\ configured' = handler[h].list /\ unread' = handler[h].old
      /\ handler' = [i \in Handlers |->
           IF i = h THEN AtEase
           ELSE IF handler[i].pc = "set"
                THEN [handler[i] EXCEPT !.behind = @ \ {h}, !.old = @ \/ h \in handler[i].behind]
                ELSE handler[i]]
      /\ UNCHANGED <<rows, blocked, calling, used, twins, contradicted>>
  BY DEF ExchangeClients
<1>2. handler'[h].pc = "idle" /\ handler'[h] \in HandlerStates
  BY <1>1 DEF AtEase, HandlerStates
<1>3. ASSUME NEW i \in Handlers \ {h}, handler[i].pc = "set"
      PROVE  /\ handler'[i] \in HandlerStates /\ handler'[i].pc = "set"
             /\ handler'[i].list = handler[i].list
             /\ handler'[i].behind = handler[i].behind \ {h}
             /\ handler'[i].old = (handler[i].old \/ h \in handler[i].behind)
  <2> DEFINE b == handler[i].behind \ {h}
  <2> DEFINE o == handler[i].old \/ h \in handler[i].behind
  <2>1. handler'[i] = [handler[i] EXCEPT !.behind = b, !.old = o] /\ handler[i] \in HandlerStates
    BY <1>1, <1>3 DEF CredentialsInv, CredentialTypes
  <2>2. b \in SUBSET Handlers /\ o \in BOOLEAN
    BY <1>3, <2>1, HandlersWait
  <2> DEFINE s == handler[i]
  <2> DEFINE t == handler'[i]
  <2> DEFINE u == [s EXCEPT !.behind = b]
  <2>3. s \in HandlerStates /\ s.pc = "set" /\ t = [s EXCEPT !.behind = b, !.old = o]
    BY <1>3, <2>1
  <2> HIDE DEF b, o, s, t
  <2>4. u = Waiting(s.list, b, s.old) /\ t = [u EXCEPT !.old = o]
    BY <2>3, HandlersWait DEF Waiting
  <2> HIDE DEF u
  <2>5. t = Waiting(s.list, b, o)
    BY <2>4 DEF Waiting
  <2>6. s.list \in Lists
    BY <2>3, HandlersWait
  <2>7. /\ t \in HandlerStates /\ t.pc = "set" /\ t.list = s.list /\ t.behind = b /\ t.old = o
    BY <2>2, <2>5, <2>6, WaitingFields
  <2>. QED
    BY <2>7 DEF b, o, s, t
<1>4. \A i \in Handlers \ {h} : handler[i].pc # "set" => handler'[i] = handler[i]
  BY <1>1
<1>5. CredentialTypes'
  <2>1. handler' \in [Handlers -> HandlerStates]
    <3>1. \A i \in Handlers : handler'[i] \in HandlerStates
      BY <1>2, <1>3, <1>4 DEF CredentialsInv, CredentialTypes
    <3>2. handler' = [i \in Handlers |-> handler'[i]]
      BY <1>1
    <3>. QED
      BY <3>1, <3>2
  <2>2. handler[h].list \in Lists /\ handler[h].old \in BOOLEAN
    BY <1>1, HandlersWait DEF CredentialsInv, CredentialTypes
  <2>3. configured' \in Lists /\ unread' \in BOOLEAN
    BY <1>1, <2>2
  <2>4. TableOf(configured', CredentialIds, Modes)
    BY <2>3 DEF Lists, TableOf
  <2>. QED
    BY <1>1, <2>1, <2>3, <2>4 DEF CredentialsInv, CredentialTypes, TableOf
<1>6. \A i \in Handlers : handler'[i].pc = "set" => i # h /\ handler[i].pc = "set"
  BY <1>2, <1>4
<1>7. ListsInv'
  <2>1. \A i \in Handlers : handler'[i].pc = "set" =>
            \A j \in handler'[i].behind : j \in Handlers \ {i} /\ handler'[j].pc = "set"
    <3> SUFFICES ASSUME NEW i \in Handlers, handler'[i].pc = "set", NEW j \in handler'[i].behind
                 PROVE  j \in Handlers \ {i} /\ handler'[j].pc = "set"
      OBVIOUS
    <3>1. i # h /\ handler[i].pc = "set" /\ handler'[i].behind = handler[i].behind \ {h}
      BY <1>3, <1>6
    <3>2. j # h /\ j \in handler[i].behind
      BY <3>1
    <3>3. j \in Handlers \ {i} /\ handler[j].pc = "set"
      BY <3>1, <3>2 DEF CredentialsInv, ListsInv
    <3>. QED
      BY <3>2, <3>3, <1>3
  <2>2. \A i \in Handlers :
            /\ handler'[i].pc = "set" /\ ~handler'[i].old /\ handler'[i].behind = {}
            /\ \A j \in Handlers : handler'[j].pc # "load"
            => handler'[i].list = ClientsOf(rows)
    <3> SUFFICES ASSUME NEW i \in Handlers, handler'[i].pc = "set", ~handler'[i].old,
                        handler'[i].behind = {}, \A j \in Handlers : handler'[j].pc # "load"
                 PROVE  handler'[i].list = ClientsOf(rows)
      OBVIOUS
    <3>1. /\ i # h /\ handler[i].pc = "set" /\ handler'[i].list = handler[i].list
          /\ handler'[i].behind = handler[i].behind \ {h}
          /\ handler'[i].old = (handler[i].old \/ h \in handler[i].behind)
      BY <1>3, <1>6
    <3>2. ~handler[i].old /\ handler[i].behind = {}
      BY <3>1
    <3>3. \A j \in Handlers : handler[j].pc # "load"
      <4>1. \A j \in Handlers \ {h} : handler[j].pc = "load" => handler'[j].pc = "load"
        BY <1>4
      <4>. QED
        BY <4>1, <1>1
    <3>. QED
      BY <3>1, <3>2, <3>3 DEF CredentialsInv, ListsInv
  <2>3. Pending' = {} /\ ~unread' => configured' = ClientsOf(rows)
    <3> SUFFICES ASSUME Pending' = {}, ~unread' PROVE configured' = ClientsOf(rows)
      OBVIOUS
    <3>1. \A i \in Handlers : handler'[i].pc \notin {"load", "set"}
      BY DEF Pending
    <3>2. \A i \in Handlers \ {h} : handler[i].pc # "set"
      BY <1>3, <3>1
    <3>3. \A i \in Handlers : handler[i].pc # "load"
      <4>1. \A i \in Handlers \ {h} : handler[i].pc # "load"
        BY <1>4, <3>1
      <4>. QED
        BY <4>1, <1>1
    <3>4. handler[h].behind = {} /\ ~handler[h].old
      BY <1>1, <3>2 DEF CredentialsInv, ListsInv
    <3>. QED
      BY <1>1, <3>3, <3>4 DEF CredentialsInv, ListsInv
  <2>4. ClientsOf(rows)' = ClientsOf(rows)
    BY <1>1 DEF ClientsOf
  <2>. QED
    BY <2>1, <2>2, <2>3, <2>4 DEF ListsInv
<1>8. TwinsInv'
  <2>1. \A i \in Handlers : handler'[i].pc = "verify" => handler'[i] = handler[i]
    BY <1>2, <1>3, <1>4
  <2>. QED
    BY <1>1, <2>1 DEF CredentialsInv, TwinsInv
<1>9. (KeysAreStoredOnce /\ MarksInv /\ LimitsHold)'
  BY <1>1 DEF CredentialsInv, KeysAreStoredOnce, MarksInv, LimitsHold
<1>. QED
  BY <1>5, <1>7, <1>8, <1>9 DEF CredentialsInv

(* What requests do leaves the handlers, the keys and the clients alone. *)
LEMMA CallMoves ==
    ASSUME CredentialsInv, UNCHANGED <<configured, handler, used, twins, unread>>,
           TableOf(rows, used, Rows)', TableOf(blocked, CredentialIds, Limits)',
           calling' \in [Calls -> CallStates], contradicted' \subseteq CredentialIds,
           DOMAIN rows' = DOMAIN rows,
           \A id \in DOMAIN rows : rows'[id].secret = rows[id].secret /\ rows'[id].mode = rows[id].mode,
           MarksInv', LimitsHold'
    PROVE  CredentialsInv'
<1>1. CredentialTypes'
  BY DEF CredentialsInv, CredentialTypes, TableOf
<1>2. ClientsOf(rows)' = ClientsOf(rows)
  BY DEF ClientsOf
<1>3. ListsInv'
  BY <1>2, ListsStay DEF CredentialsInv
<1>4. (TwinsInv /\ KeysAreStoredOnce)'
  BY DEF CredentialsInv, TwinsInv, KeysAreStoredOnce
<1>. QED
  BY <1>1, <1>3, <1>4 DEF CredentialsInv

LEMMA CallStep ==
    ASSUME NEW q \in Calls, CredentialsInv,
           \/ \E id \in CredentialIds : BeginCall(q, id)
           \/ CallEnds(q) \/ MarkFails(q)
    PROVE  CredentialsInv'
<1>1. /\ UNCHANGED <<rows, configured, blocked, handler, used, twins, unread, contradicted>>
      /\ calling' \in [Calls -> CallStates] /\ calling'[q].pc # "mark"
      /\ \A p \in Calls \ {q} : calling'[p] = calling[p]
  BY DEF BeginCall, CallEnds, MarkFails, OnlyCall, AtEase, CallStates, CredentialsInv, CredentialTypes
<1>2. (MarksInv /\ LimitsHold)'
  BY <1>1 DEF CredentialsInv, MarksInv, LimitsHold
<1>. QED
  BY <1>1, <1>2, CallMoves DEF CredentialsInv, CredentialTypes, TableOf

LEMMA QuotaIsExhausted ==
    ASSUME NEW q \in Calls, NEW limit \in Limits, CredentialsInv, Exhausted(q, limit)
    PROVE  CredentialsInv'
<1> DEFINE id == calling[q].id
<1>1. /\ id \in CredentialIds
      /\ blocked' = [i \in DOMAIN blocked \cup {id} |-> IF i = id THEN limit ELSE blocked[i]]
      /\ calling' = [calling EXCEPT ![q] = [pc |-> "mark", id |-> id, limit |-> limit]]
      /\ contradicted' = IF limit = "forever" THEN contradicted \ {id} ELSE contradicted \cup {id}
      /\ UNCHANGED <<rows, configured, handler, used, twins, unread>>
  BY CallFields DEF Exhausted, OnlyCall, CredentialsInv, CredentialTypes
<1> HIDE DEF id
<1>2. /\ DOMAIN blocked' = DOMAIN blocked \cup {id} /\ blocked'[id] = limit
      /\ \A i \in DOMAIN blocked \ {id} : blocked'[i] = blocked[i]
  BY <1>1
<1>3. /\ calling'[q] = [pc |-> "mark", id |-> id, limit |-> limit]
      /\ \A p \in Calls \ {q} : calling'[p] = calling[p]
      /\ calling' \in [Calls -> CallStates]
  BY <1>1 DEF CredentialsInv, CredentialTypes, CallStates
<1>4. TableOf(blocked, CredentialIds, Limits)' /\ contradicted' \subseteq CredentialIds
  BY <1>1, <1>2 DEF CredentialsInv, CredentialTypes, TableOf
<1>5. (MarksInv /\ LimitsHold)'
  BY <1>1, <1>2, <1>3 DEF CredentialsInv, MarksInv, LimitsHold, Limits
<1>. QED
  BY <1>1, <1>3, <1>4, <1>5, CallMoves DEF CredentialsInv, CredentialTypes, TableOf

LEMMA RowIsMarked ==
    ASSUME NEW q \in Calls, CredentialsInv, MarkLimitedByID(q)
    PROVE  CredentialsInv'
<1> DEFINE c == calling[q]
<1>1. /\ c.pc = "mark" /\ c.id \in DOMAIN rows /\ c.limit \in Limits
      /\ rows' = [rows EXCEPT ![c.id].limited = c.limit]
      /\ calling' \in [Calls -> CallStates] /\ calling'[q].pc = "idle"
      /\ \A p \in Calls \ {q} : calling'[p] = calling[p]
      /\ UNCHANGED <<configured, blocked, handler, used, twins, unread, contradicted>>
  BY CallFields DEF MarkLimitedByID, AtEase, CallStates, CredentialsInv, CredentialTypes
<1>2. rows \in [DOMAIN rows -> [secret : Secrets, mode : Modes, limited : Limits \cup {"no"}]]
  BY DEF CredentialsInv, CredentialTypes, TableOf, Rows
<1>3. /\ rows' \in [DOMAIN rows -> Rows] /\ DOMAIN rows' = DOMAIN rows
      /\ \A id \in DOMAIN rows :
            /\ rows'[id].secret = rows[id].secret /\ rows'[id].mode = rows[id].mode
            /\ rows'[id].limited = IF id = c.id THEN c.limit ELSE rows[id].limited
  BY <1>1, <1>2 DEF Rows
<1>4. (MarksInv /\ LimitsHold)'
  BY <1>1, <1>3 DEF CredentialsInv, MarksInv, LimitsHold
<1>. QED
  BY <1>1, <1>3, <1>4, CallMoves DEF CredentialsInv, CredentialTypes, TableOf

LEMMA BlockLapses ==
    ASSUME NEW id \in CredentialIds, CredentialsInv, Lapses(id)
    PROVE  CredentialsInv'
<1>1. /\ blocked[id] = "timed" /\ DOMAIN blocked' = DOMAIN blocked \ {id}
      /\ \A i \in DOMAIN blocked' : blocked'[i] = blocked[i]
      /\ blocked' = [i \in DOMAIN blocked' |-> blocked'[i]]
      /\ UNCHANGED <<rows, configured, handler, calling, used, twins, unread, contradicted>>
  BY DEF Lapses, OnlyCall, Restrict
<1>2. (MarksInv /\ LimitsHold)'
  BY <1>1 DEF CredentialsInv, MarksInv, LimitsHold
<1>. QED
  BY <1>1, <1>2, CallMoves DEF CredentialsInv, CredentialTypes, TableOf

LEMMA ProcessRestarts == CredentialsInv /\ RestartCredentials => CredentialsInv'
<1> SUFFICES ASSUME CredentialsInv, RestartCredentials PROVE CredentialsInv'
  OBVIOUS
<1>1. PICK reads \in BOOLEAN, restores \in BOOLEAN :
        /\ configured' = IF reads THEN ClientsOf(rows) ELSE Nothing
        /\ unread' = ~reads
        /\ blocked' = [id \in (IF restores THEN LimitedRows ELSE {}) |-> rows[id].limited]
        /\ contradicted' = IF restores THEN {} ELSE CredentialIds
  BY DEF RestartCredentials
<1>2. /\ handler' = [h \in Handlers |-> AtEase] /\ calling' = [q \in Calls |-> AtEase]
      /\ UNCHANGED <<rows, used, twins>>
  BY DEF RestartCredentials
<1>3. AtEase.pc = "idle" /\ AtEase \in HandlerStates /\ AtEase \in CallStates
  BY DEF AtEase, HandlerStates, CallStates
<1>4. LimitedRows \subseteq DOMAIN rows /\ \A id \in LimitedRows : rows[id].limited \in Limits
  BY DEF LimitedRows, CredentialsInv, CredentialTypes, TableOf, Rows
<1>5. CredentialTypes'
  <2>1. TableOf(configured, CredentialIds, Modes)'
    <3>1. TableOf(configured', CredentialIds, Modes)
      BY <1>1, ClientsAreTyped DEF CredentialsInv
    <3>. QED
      BY <3>1 DEF TableOf
  <2>2. TableOf(blocked, CredentialIds, Limits)'
    BY <1>1, <1>4 DEF TableOf, CredentialsInv, CredentialTypes
  <2>3. handler' \in [Handlers -> HandlerStates] /\ calling' \in [Calls -> CallStates]
    BY <1>2, <1>3
  <2>. QED
    BY <1>1, <1>2, <2>1, <2>2, <2>3 DEF CredentialsInv, CredentialTypes, TableOf
<1>6. ListsInv'
  BY <1>1, <1>2, <1>3 DEF ListsInv, ClientsOf
<1>7. (TwinsInv /\ KeysAreStoredOnce /\ MarksInv)'
  BY <1>2, <1>3 DEF CredentialsInv, TwinsInv, KeysAreStoredOnce, MarksInv
<1>8. LimitsHold'
  BY <1>1, <1>2 DEF LimitsHold, LimitedRows, CredentialsInv, CredentialTypes, TableOf
<1>. QED
  BY <1>5, <1>6, <1>7, <1>8 DEF CredentialsInv

LEMMA CredentialsStep == CredentialsInv /\ [CredentialsNext]_credentialVars => CredentialsInv'
<1> SUFFICES ASSUME CredentialsInv, [CredentialsNext]_credentialVars PROVE CredentialsInv'
  OBVIOUS
<1>1. CASE UNCHANGED credentialVars
  BY <1>1 DEF credentialVars, CredentialsInv, CredentialTypes, TableOf, ListsInv, ClientsOf, Pending,
     TwinsInv, KeysAreStoredOnce, MarksInv, LimitsHold
<1>2. AtEase \in HandlerStates /\ AtEase.pc = "idle"
  BY DEF AtEase, HandlerStates
<1>3. ASSUME NEW h \in Handlers, CreateFails(h) \/ UpdateFails(h) \/ DeleteFails(h)
      PROVE  CredentialsInv'
  BY <1>2, <1>3, HandlerMoves DEF CreateFails, UpdateFails, DeleteFails, Ends
<1>4. ASSUME NEW h \in Handlers, NEW id \in CredentialIds, NEW mode \in Modes, BeginUpdate(h, id, mode)
      PROVE  CredentialsInv'
  <2> DEFINE s == [pc |-> "update", id |-> id, mode |-> mode, resets |-> rows[id].mode # mode]
  <2>1. s \in HandlerStates /\ s.pc = "update"
    BY DEF HandlerStates
  <2>. QED
    BY <1>4, <2>1, HandlerMoves DEF BeginUpdate
<1>5. ASSUME NEW h \in Handlers, NEW id \in CredentialIds, BeginDelete(h, id) PROVE CredentialsInv'
  <2>1. [pc |-> "delete", id |-> id] \in HandlerStates
    BY DEF HandlerStates
  <2>. QED
    BY <1>5, <2>1, HandlerMoves DEF BeginDelete
<1>. QED
  BY <1>1, <1>3, <1>4, <1>5, CreateBegins, CreateIsStored, UpdateIsStored, DeleteIsStored,
     ClientsAreLoaded, ClientsAreExchanged, CallStep, QuotaIsExhausted, RowIsMarked, BlockLapses,
     ProcessRestarts DEF CredentialsNext

(* Once every change of the credentials has been followed by its reload, the clients    *)
(* are those of the table; a key is stored once; a limit for good blocks for good: with *)
(* the exceptions that the code leaves, for any number of handlers and requests.        *)
THEOREM ClientsFollowCredentials == CredentialsSpec => []CredentialsAreFollowed
<1>1. CredentialsInit => CredentialsInv
  <2> SUFFICES ASSUME CredentialsInit PROVE CredentialsInv
    OBVIOUS
  <2>1. AtEase.pc = "idle" /\ AtEase \in HandlerStates /\ AtEase \in CallStates
    BY DEF AtEase, HandlerStates, CallStates
  <2>2. DOMAIN Nothing = {} /\ ClientsOf(Nothing) = Nothing
    BY DEF Nothing, ClientsOf
  <2>3. CredentialTypes
    BY <2>1, <2>2 DEF CredentialsInit, CredentialTypes, TableOf, Nothing
  <2>4. ListsInv /\ TwinsInv /\ KeysAreStoredOnce /\ MarksInv /\ LimitsHold
    BY <2>1, <2>2 DEF CredentialsInit, ListsInv, TwinsInv, KeysAreStoredOnce, MarksInv, LimitsHold
  <2>. QED
    BY <2>3, <2>4 DEF CredentialsInv
<1>2. CredentialsInv => CredentialsAreFollowed
  BY DEF CredentialsInv, ListsInv, ClientsOf, CredentialsAreFollowed, ClientsFollow
<1>. QED
  BY <1>1, <1>2, CredentialsStep, PTL DEF CredentialsSpec

-----------------------------------------------------------------------------
(***************************************************************************)
(* The sessions: a conversation keeps its session, for any length of a     *)
(* history and any number of keys that prune leaves.                       *)
(***************************************************************************)

(* A session that no request was told of owns no hash. *)
UnseenOwnNothing == \A s \in SessionIds, h \in Histories : seen[s] = "none" => <<s, h>> \notin keys

SessionsInv == SessionsTypeOK /\ UnseenOwnNothing /\ AnchorsDecide

-----------------------------------------------------------------------------
(* Histories and their prefixes. *)

(* A history as a sequence of messages that is not empty. *)
LEMMA HistoryIsSequence ==
    ASSUME NEW h \in Histories
    PROVE  /\ h \in Seq(Messages) /\ Len(h) \in 1 .. MaxItems /\ Len(h) \in Nat
           /\ h \in [1 .. Len(h) -> Messages] /\ h[1] \in Messages
<1>1. PICK n \in 1 .. MaxItems : h \in [1 .. n -> Messages]
  BY DEF Histories
<1>2. MaxItems \in Nat /\ n \in Nat
  BY SessionConstants
<1>3. h \in Seq(Messages)
  BY <1>1, <1>2, SeqDef
<1>4. Len(h) = n
  BY <1>1, <1>2, <1>3, LenProperties
<1> QED
  BY <1>1, <1>2, <1>3, <1>4

(* A prefix is a history that begins with the same message. *)
LEMMA PrefixIsHistory ==
    ASSUME NEW h \in Histories, NEW n \in 1 .. Len(h)
    PROVE  /\ SubSeq(h, 1, n) \in Histories
           /\ Len(SubSeq(h, 1, n)) = n
           /\ SubSeq(h, 1, n)[1] = h[1]
<1> DEFINE p == SubSeq(h, 1, n)
<1>1. /\ h \in [1 .. Len(h) -> Messages] /\ Len(h) \in 1 .. MaxItems /\ Len(h) \in Nat
      /\ MaxItems \in Nat
  BY HistoryIsSequence, SessionConstants
<1>2. n \in Int /\ n \in Nat /\ 1 <= n /\ n <= MaxItems /\ \A i \in 1 .. n : h[i] \in Messages
  BY <1>1
<1>3. p \in Seq(Messages) /\ Len(p) = n /\ \A i \in 1 .. n - 1 + 1 : p[i] = h[1 + i - 1]
  <2> 1 \in Int
    OBVIOUS
  <2> QED
    BY <1>2, SubSeqProperties
<1>4. p[1] = h[1]
  <2> HIDE DEF p
  <2> QED
    BY <1>2, <1>3
<1>5. p \in [1 .. n -> Messages]
  <2> HIDE DEF p
  <2> QED
    BY <1>2, <1>3, LenProperties
<1>6. n \in 1 .. MaxItems
  BY <1>1, <1>2
<1> QED
  <2> HIDE DEF p
  <2>1. p \in Histories
    BY <1>5, <1>6 DEF Histories
  <2> QED
    BY <2>1, <1>3, <1>4 DEF p

(* The anchor is the prefix of one message, and two histories with one beginning *)
(* have one anchor.                                                              *)
LEMMA AnchorFacts ==
    ASSUME NEW h \in Histories
    PROVE  /\ Anchor(h) = <<h[1]>> /\ Anchor(h) \in Histories
           /\ Anchor(h) \in PrefixesOf(h) /\ h \in PrefixesOf(h)
<1>1. Len(h) \in 1 .. MaxItems /\ Len(h) \in Nat /\ h \in Seq(Messages) /\ h[1] \in Messages
  BY HistoryIsSequence
<1>2. 1 \in 1 .. Len(h) /\ Len(h) \in 1 .. Len(h)
  BY <1>1, SessionConstants
<1>3. Anchor(h) \in Histories /\ Len(Anchor(h)) = 1 /\ Anchor(h)[1] = h[1]
  BY <1>2, PrefixIsHistory DEF Anchor
<1>4. Anchor(h) \in Seq(Messages)
  BY <1>3, HistoryIsSequence
<1>5. Anchor(h) = <<h[1]>>
  <2>1. <<h[1]>> \in Seq(Messages) /\ Len(<<h[1]>>) = 1 /\ <<h[1]>>[1] = h[1]
    BY <1>1
  <2>2. \A i \in 1 .. 1 : Anchor(h)[i] = <<h[1]>>[i]
    BY <1>3, <2>1
  <2> QED
    BY <1>3, <1>4, <2>1, <2>2, SeqEqual
<1>6. SubSeq(h, 1, Len(h)) = h
  BY <1>1, SubSeqFull
<1>7. Anchor(h) \in PrefixesOf(h) /\ h \in PrefixesOf(h)
  BY <1>2, <1>6 DEF PrefixesOf, Anchor
<1> QED
  BY <1>3, <1>5, <1>7

(* All prefixes of a history begin like it. *)
LEMMA SameBeginning ==
    ASSUME NEW h \in Histories, NEW p \in PrefixesOf(h)
    PROVE  /\ p \in Histories /\ p[1] = h[1] /\ Anchor(p) = Anchor(h)
           /\ Len(p) \in Nat /\ Len(p) <= Len(h)
<1>1. PICK n \in 1 .. Len(h) : p = SubSeq(h, 1, n)
  BY DEF PrefixesOf
<1>2. p \in Histories /\ p[1] = h[1] /\ Len(p) = n
  BY <1>1, PrefixIsHistory
<1>3. Len(h) \in Nat /\ Len(p) \in Nat /\ Len(p) <= Len(h)
  BY <1>2, HistoryIsSequence
<1> QED
  BY <1>2, <1>3, AnchorFacts

(* The anchor is its own anchor. *)
LEMMA AnchorOfAnchor ==
    ASSUME NEW h \in Histories
    PROVE  Anchor(Anchor(h)) = Anchor(h)
BY AnchorFacts, SameBeginning

(* A bounded set of numbers has a largest element: the least set 1 .. b - x. *)
LEMMA LargestNumber ==
    ASSUME NEW T \in SUBSET Nat, T # {}, NEW b \in Nat, \A x \in T : x <= b
    PROVE  \E x \in T : \A y \in T : y <= x
<1> DEFINE Above(x) == 1 .. (b - x)
           F == {Above(x) : x \in T}
<1>1. F # {}
  OBVIOUS
<1>2. ASSUME NEW x \in T
      PROVE  Above(x) \in FiniteSubsetsOf(Nat)
  <2>1. b - x \in Int /\ 1 \in Int
    OBVIOUS
  <2>2. IsFiniteSet(1 .. (b - x))
    BY <2>1, FS_Interval
  <2>3. 1 .. (b - x) \subseteq Nat
    OBVIOUS
  <2> QED
    BY <2>2, <2>3 DEF FiniteSubsetsOf
<1>3. F \subseteq FiniteSubsetsOf(Nat)
  BY <1>2
<1>4. PICK S \in F : \A R \in F : ~(<<R, S>> \in StrictSubsetOrdering(Nat))
  <2> HIDE DEF F
  <2> QED
    BY <1>1, <1>3, FS_StrictSubsetOrderingWellFounded, WFMin
<1>5. PICK x \in T : S = Above(x)
  BY <1>4
<1>6. ASSUME NEW y \in T, ~(y <= x)
      PROVE  FALSE
  <2>1. b - y < b - x /\ x \in Nat /\ y \in Nat /\ y <= b
    BY <1>6
  <2>2. Above(y) \subseteq Above(x) /\ b - x \in Above(x) /\ b - x \notin Above(y)
    BY <2>1
  <2>3. <<Above(y), Above(x)>> \in StrictSubsetOrdering(Nat)
    BY <2>2, <1>2 DEF StrictSubsetOrdering, FiniteSubsetsOf
  <2> QED
    BY <2>3, <1>4, <1>5
<1> QED
  BY <1>6

(* The hash that decides is one of the history's, and it has an owner. *)
LEMMA LongestIsKnown ==
    ASSUME NEW h \in Histories, Known(h) # {}
    PROVE  Longest(h) \in Known(h)
<1> DEFINE T == {Len(p) : p \in Known(h)}
<1>1. Known(h) \subseteq PrefixesOf(h)
  BY DEF Known
<1>2. \A p \in Known(h) : Len(p) \in Nat /\ Len(p) <= Len(h)
  BY <1>1, SameBeginning
<1>3. T \in SUBSET Nat /\ T # {} /\ \A n \in T : n <= Len(h)
  BY <1>2
<1>4. Len(h) \in Nat
  BY HistoryIsSequence
<1>5. \E n \in T : \A m \in T : m <= n
  <2> HIDE DEF T
  <2> QED
    BY <1>3, <1>4, LargestNumber
<1>6. \E p \in Known(h) : \A q \in Known(h) : Len(q) <= Len(p)
  BY <1>5
<1> QED
  BY <1>6 DEF Longest

(* Whoever owns a prefix of a history owns its anchor, so a history that no session *)
(* matches is new: no live session owns its anchor.                                 *)
LEMMA OwnersOfAnchor ==
    ASSUME SessionsInv, ~revived, NEW h \in Histories, NEW p \in PrefixesOf(h),
           NEW s \in Owners(p)
    PROVE  s \in Owners(Anchor(h)) /\ <<s, Anchor(h)>> \in anchors
<1>1. p \in Histories /\ Anchor(p) = Anchor(h)
  BY SameBeginning
<1>2. s \in SessionIds /\ Live(s) /\ <<s, p>> \in keys
  BY DEF Owners
<1>3. <<s, Anchor(h)>> \in anchors
  BY <1>1, <1>2 DEF SessionsInv, AnchorsDecide
<1> QED
  BY <1>2, <1>3 DEF Owners, SessionsInv, SessionsTypeOK

(* The session that a history matches owns its anchor. *)
LEMMA MatchOwnsAnchor ==
    ASSUME SessionsInv, ~revived, NEW h \in Histories, NEW s \in Matches(h)
    PROVE  s \in Owners(Anchor(h)) /\ <<s, Anchor(h)>> \in anchors
<1>1. Known(h) # {} /\ Owners(Longest(h)) = {s}
  BY DEF Matches
<1>2. Longest(h) \in PrefixesOf(h)
  BY <1>1, LongestIsKnown DEF Known
<1> QED
  BY <1>1, <1>2, OwnersOfAnchor

(* Of a history that matches nothing, nobody owns a prefix. *)
LEMMA UnmatchedIsNew ==
    ASSUME SessionsInv, ~revived, NEW h \in Histories, Matches(h) = {}
    PROVE  \A p \in PrefixesOf(h) : Owners(p) = {}
<1> SUFFICES ASSUME NEW q \in PrefixesOf(h), Owners(q) # {}
             PROVE  FALSE
  OBVIOUS
<1>1. Known(h) # {}
  BY DEF Known
<1>2. Longest(h) \in PrefixesOf(h) /\ Owners(Longest(h)) # {}
  BY <1>1, LongestIsKnown DEF Known
<1>3. PICK s \in SessionIds : s \in Owners(Longest(h))
  BY <1>2 DEF Owners
<1>4. ASSUME NEW t \in Owners(Longest(h))
      PROVE  t = s
  <2>1. s \in Owners(Anchor(h)) /\ t \in Owners(Anchor(h)) /\ t \in SessionIds
    BY <1>2, <1>3, OwnersOfAnchor DEF Owners
  <2> QED
    BY <2>1 DEF SessionsInv, AnchorsDecide
<1>5. s \in Matches(h)
  BY <1>1, <1>3, <1>4 DEF Matches
<1> QED
  BY <1>5
-----------------------------------------------------------------------------
(* Store: what it may add to the keys, and that it keeps the anchors of every *)
(* session that is not stale.                                                 *)
LEMMA StoreKeepsAnchors ==
    ASSUME SessionsTypeOK, NEW s \in SessionIds, NEW h \in Histories, NEW fresh, NEW cleanup,
           Store(s, h, fresh, cleanup)
    PROVE  /\ keys' \subseteq keys \cup Registered(s, h, fresh)
           /\ anchors' \subseteq keys'
           /\ \A t \in SessionIds, g \in Histories :
                  seen[t] # "stale" /\ <<t, g>> \in anchors => <<t, g>> \in anchors'
           /\ <<s, Anchor(h)>> \in Registered(s, h, fresh) => <<s, Anchor(h)>> \in anchors'
<1> DEFINE added == Registered(s, h, fresh)
           all == Cleaned(cleanup) \cup added
           isAnchor == (anchors \cap Cleaned(cleanup)) \cup {k \in added : k[2] = Anchor(h)}
           others == Pruneable(s, all, isAnchor)
<1>1. PICK recent \in Recent(others) : keys' = (all \ others) \cup recent
  BY DEF Store
<1>2. anchors' = isAnchor \cap keys'
  BY DEF Store
<1>3. recent \subseteq others /\ others \subseteq all \ isAnchor
  BY DEF Recent, Pruneable
<1>4. Cleaned(cleanup) \subseteq keys /\ anchors \subseteq keys
  BY DEF Cleaned, SessionsTypeOK
<1>5. isAnchor \subseteq all
  OBVIOUS
<1>6. keys' \subseteq all /\ isAnchor \subseteq keys'
  <2> HIDE DEF all, isAnchor, others
  <2> QED
    BY <1>1, <1>3, <1>5
<1>7. anchors' = isAnchor /\ keys' \subseteq keys \cup added
  <2> HIDE DEF added, isAnchor, others
  <2> QED
    BY <1>2, <1>4, <1>6
<1>8. ASSUME NEW t \in SessionIds, NEW g \in Histories, seen[t] # "stale", <<t, g>> \in anchors
      PROVE  <<t, g>> \in anchors'
  <2>1. <<t, g>> \in Cleaned(cleanup)
    BY <1>4, <1>8 DEF Cleaned
  <2> QED
    BY <1>7, <1>8, <2>1
<1>9. <<s, Anchor(h)>> \in added => <<s, Anchor(h)>> \in isAnchor
  <2> HIDE DEF added
  <2> QED
    OBVIOUS
<1> QED
  BY <1>2, <1>7, <1>8, <1>9

(* What is registered, and that the session of a request owns the anchor then. *)
LEMMA RegisteredKeys ==
    ASSUME NEW s \in SessionIds, NEW h \in Histories, NEW fresh \in BOOLEAN,
           NEW t \in SessionIds, NEW g, <<t, g>> \in Registered(s, h, fresh)
    PROVE  t = s /\ g \in Histories /\ Anchor(g) = Anchor(h)
<1>1. t = s /\ g \in {Anchor(h), h}
  BY DEF Registered
<1> QED
  BY <1>1, AnchorFacts, AnchorOfAnchor

(* The types. *)
LEMMA SessionTypesAfterStore ==
    ASSUME SessionsTypeOK, NEW s \in SessionIds, NEW h \in Histories, NEW fresh \in BOOLEAN,
           NEW cleanup, Store(s, h, fresh, cleanup)
    PROVE  SessionsTypeOK'
<1>1. Registered(s, h, fresh) \in SUBSET (SessionIds \X Histories)
  BY AnchorFacts DEF Registered
<1>2. keys' \in SUBSET (SessionIds \X Histories) /\ anchors' \subseteq keys'
  BY <1>1, StoreKeepsAnchors DEF SessionsTypeOK
<1>3. /\ seen' = [seen EXCEPT ![s] = "live"] /\ UNCHANGED revived
      /\ told' = [told EXCEPT ![h[1]] = @ \cup {s}]
  BY DEF Store
<1> QED
  BY <1>2, <1>3 DEF SessionsTypeOK

(* The session that is chosen owns the history's anchor afterwards, and no other *)
(* live session does.                                                            *)
LEMMA StoreChoosesOwner ==
    ASSUME SessionsInv, ~revived, NEW s \in SessionIds, NEW h \in Histories,
           NEW fresh \in BOOLEAN, NEW cleanup, Store(s, h, fresh, cleanup),
           \/ ~fresh /\ s \in Matches(h)
           \/ fresh /\ Matches(h) = {} /\ seen[s] = "none"
    PROVE  /\ <<s, Anchor(h)>> \in anchors'
           /\ \A t \in Owners(Anchor(h)) : t = s
<1>1. Anchor(h) \in PrefixesOf(h)
  BY AnchorFacts
<1>2. CASE ~fresh /\ s \in Matches(h)
  <2>1. s \in Owners(Anchor(h)) /\ <<s, Anchor(h)>> \in Registered(s, h, fresh)
    BY <1>2, MatchOwnsAnchor DEF Registered
  <2>2. \A t \in Owners(Anchor(h)) : t = s
    BY <2>1 DEF SessionsInv, AnchorsDecide, Owners
  <2> QED
    BY <2>1, <2>2, StoreKeepsAnchors DEF SessionsInv
<1>3. CASE fresh /\ Matches(h) = {} /\ seen[s] = "none"
  <2>1. Owners(Anchor(h)) = {}
    BY <1>1, <1>3, UnmatchedIsNew
  <2>2. <<s, Anchor(h)>> \in Registered(s, h, fresh)
    BY <2>1 DEF Registered
  <2> QED
    BY <2>1, <2>2, StoreKeepsAnchors DEF SessionsInv
<1> QED
  BY <1>2, <1>3

(* Storing a history under the session it matched, or under a new one. *)
LEMMA StoreStep ==
    ASSUME SessionsInv, NEW s \in SessionIds, NEW h \in Histories,
           NEW fresh \in BOOLEAN, NEW cleanup, Store(s, h, fresh, cleanup),
           \/ ~fresh /\ s \in Matches(h)
           \/ fresh /\ Matches(h) = {} /\ seen[s] = "none"
    PROVE  SessionsInv'
<1>1. SessionsTypeOK'
  BY SessionTypesAfterStore DEF SessionsInv
<1>2. /\ seen' = [seen EXCEPT ![s] = "live"] /\ revived' = revived
      /\ told' = [told EXCEPT ![h[1]] = @ \cup {s}]
  BY DEF Store
<1>3. seen \in [SessionIds -> {"none", "live", "stale"}] /\ told \in [Messages -> SUBSET SessionIds]
  BY DEF SessionsInv, SessionsTypeOK
<1>4. keys' \subseteq keys \cup Registered(s, h, fresh)
  BY StoreKeepsAnchors DEF SessionsInv
<1>5. UnseenOwnNothing'
  <2> SUFFICES ASSUME NEW t \in SessionIds, NEW g \in Histories, seen'[t] = "none"
               PROVE  <<t, g>> \notin keys'
    BY DEF UnseenOwnNothing
  <2>1. t # s /\ seen[t] = "none"
    BY <1>2, <1>3
  <2> QED
    BY <2>1, <1>4, RegisteredKeys DEF SessionsInv, UnseenOwnNothing
<1>6. ASSUME ~revived'
      PROVE  AnchorsDecide'
  <2>1. ~revived /\ <<s, Anchor(h)>> \in anchors' /\ \A t \in Owners(Anchor(h)) : t = s
    BY <1>2, <1>6, StoreChoosesOwner
  <2>2. ASSUME NEW t \in SessionIds, NEW g \in Histories, Live(t)', <<t, g>> \in keys'
        PROVE  /\ <<t, Anchor(g)>> \in anchors'
               /\ Anchor(g) = Anchor(h) => t = s
               /\ t # s => Live(t) /\ <<t, g>> \in keys
               /\ Anchor(g) # Anchor(h) => Live(t) /\ <<t, g>> \in keys
    <3>1. CASE <<t, g>> \in Registered(s, h, fresh)
      BY <3>1, <2>1, RegisteredKeys
    <3>2. CASE <<t, g>> \in keys
      <4>1. seen[t] # "none"
        BY <3>2 DEF SessionsInv, UnseenOwnNothing
      <4>2. CASE seen[t] = "stale"
        <5>1. t = s
          BY <4>2, <2>2, <1>2, <1>3 DEF Live
        <5>2. s \in Matches(h)
          BY <4>2, <5>1
        <5> QED
          BY <4>2, <5>1, <5>2, <2>1, MatchOwnsAnchor DEF Owners, Live
      <4>3. CASE seen[t] = "live"
        <5>1. Live(t) /\ <<t, Anchor(g)>> \in anchors
          BY <4>3, <3>2, <2>1 DEF Live, SessionsInv, AnchorsDecide
        <5>2. <<t, Anchor(g)>> \in anchors'
          BY <4>3, <5>1, AnchorFacts, StoreKeepsAnchors DEF SessionsInv
        <5>3. t \in Owners(Anchor(g))
          BY <5>1 DEF Owners, SessionsInv, SessionsTypeOK
        <5> QED
          BY <5>1, <5>2, <5>3, <2>1, <3>2
      <4> QED
        BY <4>1, <4>2, <4>3, <1>3
    <3> QED
      BY <3>1, <3>2, <1>4, <2>2
  <2>3. ASSUME NEW t \in SessionIds, NEW u \in SessionIds, NEW g \in Histories,
               (t \in Owners(Anchor(g)))', (u \in Owners(Anchor(g)))'
        PROVE  t = u
    <3>1. /\ Live(t)' /\ <<t, Anchor(g)>> \in keys' /\ Live(u)' /\ <<u, Anchor(g)>> \in keys'
          /\ Anchor(g) \in Histories /\ Anchor(Anchor(g)) = Anchor(g)
      BY <2>3, AnchorFacts, AnchorOfAnchor DEF Owners
    <3>2. CASE Anchor(g) = Anchor(h)
      BY <3>1, <3>2, <2>2
    <3>3. CASE Anchor(g) # Anchor(h)
      <4>1. t \in Owners(Anchor(g)) /\ u \in Owners(Anchor(g))
        BY <3>1, <3>3, <2>2 DEF Owners
      <4> QED
        BY <4>1, <2>1 DEF SessionsInv, AnchorsDecide
    <3> QED
      BY <3>2, <3>3
  <2>4. ASSUME NEW m \in Messages, NEW t \in told'[m]
        PROVE  (t \in Owners(<<m>>))'
    <3>0. h[1] \in Messages /\ Anchor(h) = <<h[1]>>
      BY HistoryIsSequence, AnchorFacts
    <3>1. CASE t \in told[m]
      <4>1. t \in SessionIds /\ Live(t) /\ <<t, <<m>>>> \in keys
        BY <3>1, <2>1 DEF Owners, SessionsInv, AnchorsDecide
      <4>2. <<m>> \in Histories /\ Anchor(<<m>>) = <<m>>
        <5>1. <<m>> \in Histories
          BY <4>1 DEF SessionsInv, SessionsTypeOK
        <5> QED
          BY <5>1, AnchorFacts
      <4>3. <<t, <<m>>>> \in anchors
        BY <4>1, <4>2, <2>1 DEF SessionsInv, AnchorsDecide
      <4>4. <<t, <<m>>>> \in keys'
        BY <4>1, <4>2, <4>3, StoreKeepsAnchors DEF Live, SessionsInv
      <4>5. Live(t)'
        BY <4>1, <1>2, <1>3 DEF Live
      <4> QED
        BY <4>1, <4>4, <4>5 DEF Owners
    <3>2. CASE t \notin told[m]
      <4>1. m = h[1] /\ t = s
        BY <3>0, <3>2, <2>4, <1>2, <1>3
      <4>2. <<s, <<m>>>> \in keys'
        BY <4>1, <3>0, <2>1, StoreKeepsAnchors DEF SessionsInv
      <4>3. Live(s)'
        BY <1>2, <1>3 DEF Live
      <4> QED
        BY <4>1, <4>2, <4>3 DEF Owners
    <3> QED
      BY <3>1, <3>2
  <2> QED
    BY <2>2, <2>3, <2>4 DEF AnchorsDecide
<1>7. AnchorsDecide'
  BY <1>6 DEF AnchorsDecide
<1> QED
  BY <1>1, <1>5, <1>7 DEF SessionsInv

-----------------------------------------------------------------------------
(* The other actions, and the theorems. *)
LEMMA SendHeaderStep ==
    ASSUME SessionsInv, NEW s \in SessionIds, SendHeader(s)
    PROVE  SessionsInv'
<1>1. /\ seen' = [seen EXCEPT ![s] = "live"] /\ revived' = (revived \/ seen[s] = "stale")
      /\ UNCHANGED <<keys, anchors, told>> /\ ~Live(s)
  BY DEF SendHeader
<1>2. SessionsTypeOK'
  BY <1>1 DEF SessionsInv, SessionsTypeOK
<1>3. \A t \in SessionIds : seen'[t] = IF t = s THEN "live" ELSE seen[t]
  BY <1>1 DEF SessionsInv, SessionsTypeOK
<1>4. UnseenOwnNothing'
  BY <1>1, <1>3 DEF SessionsInv, UnseenOwnNothing
<1>5. ASSUME ~revived'
      PROVE  AnchorsDecide'
  <2>1. ~revived /\ seen[s] = "none"
    BY <1>1, <1>5 DEF Live, SessionsInv, SessionsTypeOK
  <2>2. \A t \in SessionIds, h \in Histories : <<t, h>> \in keys => t # s /\ (Live(t)' <=> Live(t))
    BY <2>1, <1>3 DEF SessionsInv, UnseenOwnNothing, Live
  <2>3. \A h \in Histories : Owners(h)' = Owners(h)
    BY <1>1, <2>2, <1>3 DEF Owners, Live
  <2>4. \A h \in Histories : Anchor(h) \in Histories
    BY AnchorFacts
  <2>5. \A m \in Messages : \A t \in told[m] : <<m>> \in Histories
    <3>1. \A m \in Messages : \A t \in told[m] : t \in Owners(<<m>>)
      BY <2>1 DEF SessionsInv, AnchorsDecide
    <3>2. \A m \in Messages : \A t \in told[m] : <<t, <<m>>>> \in keys
      BY <3>1 DEF Owners
    <3>3. keys \in SUBSET (SessionIds \X Histories)
      BY DEF SessionsInv, SessionsTypeOK
    <3> QED
      BY <3>2, <3>3
  <2>6. ASSUME NEW t \in SessionIds, NEW h \in Histories, Live(t)', <<t, h>> \in keys'
        PROVE  <<t, Anchor(h)>> \in anchors'
    BY <2>1, <2>2, <2>6, <1>1 DEF SessionsInv, AnchorsDecide
  <2>7. ASSUME NEW t \in SessionIds, NEW u \in SessionIds, NEW h \in Histories,
               t \in Owners(Anchor(h))', u \in Owners(Anchor(h))'
        PROVE  t = u
    BY <2>1, <2>3, <2>4, <2>7 DEF SessionsInv, AnchorsDecide
  <2>8. ASSUME NEW m \in Messages, NEW t \in told'[m]
        PROVE  t \in Owners(<<m>>)'
    BY <1>1, <2>1, <2>3, <2>5, <2>8 DEF SessionsInv, AnchorsDecide
  <2> QED
    BY <2>6, <2>7, <2>8 DEF AnchorsDecide
<1>6. AnchorsDecide'
  BY <1>5 DEF AnchorsDecide
<1> QED
  BY <1>2, <1>4, <1>6 DEF SessionsInv

(* A session is left out for its age. *)
LEMMA ExpireStep ==
    ASSUME SessionsInv, NEW s \in SessionIds, Expire(s)
    PROVE  SessionsInv'
<1>1. /\ seen' = [seen EXCEPT ![s] = "stale"] /\ UNCHANGED <<keys, anchors, revived>>
      /\ told' = [m \in Messages |-> told[m] \ {s}]
  BY DEF Expire
<1>2. SessionsTypeOK'
  BY <1>1 DEF SessionsInv, SessionsTypeOK
<1>3. \A t \in SessionIds : seen'[t] = IF t = s THEN "stale" ELSE seen[t]
  BY <1>1 DEF SessionsInv, SessionsTypeOK
<1>4. UnseenOwnNothing'
  BY <1>1, <1>3 DEF SessionsInv, UnseenOwnNothing
<1>5. \A t \in SessionIds : Live(t)' <=> Live(t) /\ t # s
  BY <1>3 DEF Live
<1>6. \A h : Owners(h)' = Owners(h) \ {s}
  BY <1>1, <1>5 DEF Owners
<1>7. AnchorsDecide'
  BY <1>1, <1>5, <1>6 DEF SessionsInv, AnchorsDecide
<1> QED
  BY <1>2, <1>4, <1>7 DEF SessionsInv

(* SessionsInv is inductive. *)
LEMMA SessionsStep == SessionsInv /\ [SessionsNext]_sessionVars => SessionsInv'
<1> SUFFICES ASSUME SessionsInv, [SessionsNext]_sessionVars
             PROVE  SessionsInv'
  OBVIOUS
<1>1. ASSUME NEW h \in Histories, NEW cleanup \in BOOLEAN, Resolve(h, cleanup)
      PROVE  SessionsInv'
  <2>1. CASE \E s \in Matches(h) : Store(s, h, FALSE, cleanup)
    BY <2>1, StoreStep DEF Matches
  <2>2. CASE Matches(h) = {} /\ \E s \in SessionIds : seen[s] = "none" /\ Store(s, h, TRUE, cleanup)
    BY <2>2, StoreStep
  <2> QED
    BY <1>1, <2>1, <2>2 DEF Resolve
<1>2. CASE UNCHANGED sessionVars
  <2>1. SessionsTypeOK' /\ UnseenOwnNothing'
    BY <1>2 DEF sessionVars, SessionsInv, SessionsTypeOK, UnseenOwnNothing
  <2>2. AnchorsDecide'
    BY <1>2 DEF sessionVars, SessionsInv, AnchorsDecide, Owners, Live
  <2> QED
    BY <2>1, <2>2 DEF SessionsInv
<1> QED
  BY <1>1, <1>2, SendHeaderStep, ExpireStep DEF SessionsNext

(* The strengthened invariant holds of every behaviour. *)
THEOREM SessionsInvariant == SessionsSpec => []SessionsInv
<1>1. SessionsInit => SessionsInv
  BY DEF SessionsInit, SessionsInv, SessionsTypeOK, UnseenOwnNothing, AnchorsDecide, Live, Owners
<1> QED
  BY <1>1, SessionsStep, PTL DEF SessionsSpec

(* Every live session that owns a hash owns its anchor, and no other live session does. *)
THEOREM AnchorsAlwaysDecide == SessionsSpec => [](SessionsTypeOK /\ AnchorsDecide)
<1>1. SessionsInv => SessionsTypeOK /\ AnchorsDecide
  BY DEF SessionsInv
<1> QED
  BY <1>1, SessionsInvariant, PTL

(* All live sessions a beginning was stored in are one: each owns its anchor. *)
THEOREM OneSessionPerConversation == SessionsSpec => []ConversationKeepsItsSession
<1>1. SessionsInv => ConversationKeepsItsSession
  <2> SUFFICES ASSUME SessionsInv, ~revived, NEW m \in Messages
               PROVE  Cardinality(told[m]) <= 1
    BY DEF ConversationKeepsItsSession
  <2>1. CASE told[m] = {}
    BY <2>1, FS_EmptySet
  <2>2. CASE told[m] # {}
    <3>1. PICK s \in told[m] : TRUE
      BY <2>2
    <3>2. s \in Owners(<<m>>) /\ \A t \in told[m] : t \in Owners(<<m>>)
      BY DEF SessionsInv, AnchorsDecide
    <3>3. <<m>> \in Histories /\ Anchor(<<m>>) = <<m>>
      <4>1. <<m>> \in Histories
        BY <3>2 DEF Owners, SessionsInv, SessionsTypeOK
      <4> QED
        BY <4>1, AnchorFacts
    <3>4. \A t \in told[m] : t = s
      <4>1. s \in SessionIds /\ \A t \in told[m] : t \in SessionIds
        BY <3>2 DEF Owners
      <4>2. s \in Owners(Anchor(<<m>>)) /\ \A t \in told[m] : t \in Owners(Anchor(<<m>>))
        BY <3>2, <3>3
      <4> QED
        BY <3>3, <4>1, <4>2 DEF SessionsInv, AnchorsDecide
    <3>5. told[m] = {s}
      BY <3>1, <3>4
    <3> QED
      BY <3>5, FS_Singleton
  <2> QED
    BY <2>1, <2>2
<1> QED
  BY <1>1, SessionsInvariant, PTL
=============================================================================
