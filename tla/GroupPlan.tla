------------------------------ MODULE GroupPlan ------------------------------
(***************************************************************************)
(* The plan of a request that names a group: Compile (internal/groups)     *)
(* flattens the group, and the groups its stages nest, into effective      *)
(* stages with one policy each, and BuildGroup (internal/routing) asks the *)
(* matcher for the routes of each stage.  The proxy then tries the entries *)
(* of the plan in their order.                                             *)
(*                                                                         *)
(* Abstractions.                                                           *)
(*  - Routes are those the matcher could take for this request (healthy,   *)
(*    capable, priced), in its order, which no stage has an influence on.  *)
(*  - A policy is the providers, the billing classes, one price limit of   *)
(*    the three, and the two kinds of retries; the percentage of the       *)
(*    official price, which is composed like a limit, is left out.         *)
(*  - No providers, or None, is no restriction, as an empty list and nil   *)
(*    are.  The providers of a source are the one it names or those it is  *)
(*    pinned to.  Definitions are valid and their stages in order.         *)
(*  - Issues are their codes; warnings are left out.  A plan without        *)
(*    entries has one error, whatever its routes were rejected for.        *)
(***************************************************************************)
EXTENDS Integers, SequencesExt

CONSTANTS
    Ladders,            \* the groups there may be, functions from slugs to definitions
    Root,               \* the group that is asked for
    Routes,             \* the routes, [id, provider, model, billing, price], in order
    None,
    MaximumDepth, MaximumStages,       \* DefaultCompileLimits
    MaximumRoutes, MaximumAttempts     \* DefaultLimits

VARIABLES
    ladder,      \* the definitions the request is planned with
    plan         \* Plan: its entries and its error

planVars == <<ladder, plan>>

(* What ValidateDefinition requires of a definition, as far as it is modelled. *)
IsList(s) == Len(s) \in Nat /\ DOMAIN s = 1 .. Len(s)
Nests(stage) == stage.sources[1].group # None
IsStage(stage) ==
    /\ IsList(stage.sources) /\ Len(stage.sources) > 0
    /\ Nests(stage) => Len(stage.sources) = 1
    /\ stage.billing # {}
    /\ {stage.limit, stage.retries, stage.tries} \subseteq Nat \cup {None}
    /\ \A source \in Range(stage.sources) : source.retries \in Nat \cup {None}
IsLadder(groups) ==
    /\ Root \in DOMAIN groups /\ None \notin DOMAIN groups
    /\ \A slug \in DOMAIN groups :
           IsList(groups[slug].stages) /\ \A stage \in Range(groups[slug].stages) : IsStage(stage)

ASSUME PlanAssumption ==
    /\ MaximumDepth \in Nat \ {0}
    /\ \A groups \in Ladders : IsLadder(groups)
    /\ IsList(Routes) /\ \A route \in Range(Routes) : route.price \in Nat

NoPlan == [entries |-> <<>>, error |-> "unplanned"]
PlanInit == ladder \in Ladders /\ plan = NoPlan

-----------------------------------------------------------------------------
(* Policies. *)
Unrestricted == [providers |-> {}, billing |-> {}, limit |-> None, retries |-> None, tries |-> None]

Allows(set, x) == set # {} => x \in set
Within(limit, price) == limit # None => price <= limit

Intersect(a, b) == IF a = {} THEN b ELSE IF b = {} THEN a ELSE a \cap b
(* Mutant of Tighter: the stage that is nested deepest sets its own limit. *)
TighterOrOwn(a, b) == IF b = None THEN a ELSE b

Tighter(a, b) == IF a = None \/ (b # None /\ b < a) THEN b ELSE a
Outermost(a, b) == IF a = None THEN b ELSE a

ComposePolicy(parent, stage) ==
    [providers |-> Intersect(parent.providers, stage.providers),
     billing |-> Intersect(parent.billing, stage.billing),
     limit |-> Tighter(parent.limit, stage.limit),
     retries |-> Outermost(parent.retries, stage.retries),
     tries |-> Outermost(parent.tries, stage.tries)]

SourcePolicy(parent, source) ==
    [parent EXCEPT !.providers = Intersect(@, source.providers),
                   !.retries = Outermost(@, source.retries)]

OrZero(n) == IF n = None THEN 0 ELSE n

EffectiveStage(path, key, policy, stage, sources) ==
    LET composed == ComposePolicy(policy, stage) IN
    [path |-> path, tryKey |-> key, models |-> {source.model : source \in sources},
     providers |-> composed.providers, billing |-> composed.billing, limit |-> composed.limit,
     retries |-> OrZero(composed.retries), tries |-> OrZero(composed.tries)]

-----------------------------------------------------------------------------
(* Compile. *)
SourceSpecific(stage) ==
    \E source \in Range(stage.sources) : source.providers # {} \/ source.retries # None

(* A position is that of a stage in a group, a path the positions from the root to a     *)
(* stage.  A try key holds the names of the stages above and the position of the last.    *)
Positions(groups) == UNION {{slug} \X DOMAIN groups[slug].stages : slug \in DOMAIN groups}
StageAt(groups, position) == groups[position[1]].stages[position[2]]
NestedAt(groups, position) == StageAt(groups, position).sources[1].group
GroupBelow(groups, above) == IF above = <<>> THEN Root ELSE NestedAt(groups, above[Len(above)])

TryKey(groups, path) ==
    [i \in DOMAIN path |->
        IF i = Len(path) THEN path[i] ELSE <<path[i][1], StageAt(groups, path[i]).name>>]

(* The policy that the stages above hand down. *)
Handed(policy, stage) == SourcePolicy(ComposePolicy(policy, stage), stage.sources[1])
Inherited(groups, above) ==
    LET policy[i \in 0 .. Len(above)] ==
            IF i = 0 THEN Unrestricted ELSE Handed(policy[i - 1], StageAt(groups, above[i]))
    IN policy[Len(above)]

ModelStages(groups, above, position) ==
    LET stage == StageAt(groups, position)
        policy == ComposePolicy(Inherited(groups, above), stage)
        path == Append(above, position)
        ofSource(source) ==
            EffectiveStage(path, TryKey(groups, path), SourcePolicy(policy, source), Unrestricted, {source})
    IN IF SourceSpecific(stage)
         THEN [i \in DOMAIN stage.sources |-> ofSource(stage.sources[i])]
         ELSE <<EffectiveStage(path, TryKey(groups, path), policy, stage, Range(stage.sources))>>

(* visit: what the groups below a stage become, and the errors met on the way. *)
Flattened(stages) == [stages |-> stages, errors |-> {}]
Failed(code) == [stages |-> <<>>, errors |-> {code}]

VisitStage(groups, below, above, position) ==
    IF ~Nests(StageAt(groups, position)) THEN Flattened(ModelStages(groups, above, position))
    ELSE IF NestedAt(groups, position) \notin DOMAIN groups THEN Failed("group_not_found")
    ELSE IF ~groups[NestedAt(groups, position)].enabled THEN Flattened(<<>>)
    ELSE below[Append(above, position)]

VisitGroup(groups, below, above) ==
    LET slug == GroupBelow(groups, above)
        visited == [i \in DOMAIN groups[slug].stages |->
                        VisitStage(groups, below, above, <<slug, i>>)]
    IN IF Len(above) >= MaximumDepth THEN Failed("group_depth_exceeded")
       ELSE IF \E i \in DOMAIN above : above[i][1] = slug THEN Failed("group_cycle")
       ELSE [stages |-> FlattenSeq([i \in DOMAIN visited |-> visited[i].stages]),
             errors |-> UNION {visited[i].errors : i \in DOMAIN visited}]

Aboves(groups) ==
    {above \in UNION {[1 .. n -> Positions(groups)] : n \in 0 .. MaximumDepth} :
        GroupBelow(groups, above) \in DOMAIN groups}
Visited(groups) ==
    LET visit[above \in Aboves(groups)] == VisitGroup(groups, visit, above) IN visit[<<>>]

Compile(groups) ==
    IF ~groups[Root].enabled THEN Failed("group_disabled")
    ELSE IF Len(Visited(groups).stages) > MaximumStages
      THEN [Visited(groups) EXCEPT !.errors = @ \cup {"group_plan_too_large"}]
    ELSE Visited(groups)

-----------------------------------------------------------------------------
(* Match, for the routes that are compatible with the request. *)
Admits(stage, route) ==
    /\ route.model \in stage.models
    /\ Allows(stage.providers, route.provider) /\ Allows(stage.billing, route.billing)
    /\ Within(stage.limit, route.price)

EntriesOf(stage) ==
    FlattenSeq([i \in DOMAIN Routes |->
        IF Admits(stage, Routes[i])
          THEN <<[path |-> stage.path, route |-> Routes[i], retries |-> stage.retries]>> ELSE <<>>])

(* BuildGroup: neighbours with one try key are a block, which is tried as a whole; a *)
(* route occurs once in a cycle of its block.                                         *)
StartsBlock(stages, i) == i = 1 \/ stages[i].tryKey # stages[i - 1].tryKey
InBlock(stages, first, i) == i >= first /\ \A j \in first .. i : stages[j].tryKey = stages[first].tryKey

Once(entries) ==
    FlattenSeq([i \in DOMAIN entries |->
        IF \E j \in 1 .. i - 1 : entries[j].route = entries[i].route THEN <<>> ELSE <<entries[i]>>])

Cycle(stages, first) ==
    Once(FlattenSeq([i \in DOMAIN stages |->
        IF InBlock(stages, first, i) THEN EntriesOf(stages[i]) ELSE <<>>]))
BlockEntries(stages, first) ==
    FlattenSeq([n \in 1 .. 1 + stages[first].tries |-> Cycle(stages, first)])

PlanEntries(stages) ==
    FlattenSeq([i \in DOMAIN stages |->
        IF StartsBlock(stages, i) THEN BlockEntries(stages, i) ELSE <<>>])

MaxAttempts(entries) == FoldLeft(LAMBDA sum, entry : sum + 1 + entry.retries, 0, entries)

PlanOf(compiled) ==
    LET entries == PlanEntries(compiled.stages) IN
    IF compiled.errors # {} THEN [entries |-> <<>>, error |-> "compile"]
    ELSE IF Len(entries) >= MaximumRoutes
      THEN [entries |-> SubSeq(entries, 1, MaximumRoutes), error |-> "group_plan_too_large"]
    ELSE IF MaxAttempts(entries) > MaximumAttempts
      THEN [entries |-> entries, error |-> "group_plan_too_large"]
    ELSE [entries |-> entries, error |-> IF entries = <<>> THEN "no_eligible_route" ELSE "none"]

BuildGroup ==
    /\ plan = NoPlan
    /\ plan' = PlanOf(Compile(ladder))
    /\ UNCHANGED ladder

PlanSpec == PlanInit /\ [][BuildGroup]_planVars

-----------------------------------------------------------------------------
(* What the definitions say, read without composing anything: the stages above a model *)
(* stage, from the root to the stage itself.                                            *)
IsPath(groups, path) ==
    /\ path[1][1] = Root /\ ~Nests(StageAt(groups, path[Len(path)]))
    /\ \A i \in 1 .. Len(path) - 1 :
           NestedAt(groups, path[i]) = path[i + 1][1] /\ groups[path[i + 1][1]].enabled
Paths(groups) ==
    {path \in UNION {[1 .. n -> Positions(groups)] : n \in 1 .. MaximumDepth} : IsPath(groups, path)}
Before(p, q) == \E n \in DOMAIN p \cap DOMAIN q :
                    p[n][2] < q[n][2] /\ \A m \in 1 .. n - 1 : p[m] = q[m]

SourcesOf(groups, path, model) ==
    {source \in Range(StageAt(groups, path[Len(path)]).sources) : source.model = model}
WithinLimits(groups, path, route) ==
    \A i \in DOMAIN path : Within(StageAt(groups, path[i]).limit, route.price)
Honours(groups, path, route) ==
    /\ \A i \in DOMAIN path :
           /\ Allows(StageAt(groups, path[i]).providers, route.provider)
           /\ route.billing \in StageAt(groups, path[i]).billing
           /\ i < Len(path) => Allows(StageAt(groups, path[i]).sources[1].providers, route.provider)
    /\ \E source \in SourcesOf(groups, path, route.model) : Allows(source.providers, route.provider)

(* How often a route is retried: as the outermost stage that says so, itself or at the   *)
(* group it nests, or else as the source of the route says.                               *)
SaidAt(groups, path, i) ==
    Outermost(StageAt(groups, path[i]).retries,
              IF i < Len(path) THEN StageAt(groups, path[i]).sources[1].retries ELSE None)
RetriesSaid(groups, path, model) ==
    LET saying == {i \in DOMAIN path : SaidAt(groups, path, i) # None} IN
    IF saying # {} THEN {SaidAt(groups, path, i) : i \in {i \in saying : \A j \in saying : i <= j}}
    ELSE {OrZero(source.retries) : source \in SourcesOf(groups, path, model)}

Repeating(groups) == \E position \in Positions(groups) : StageAt(groups, position).tries # None

(* A plan follows its ladder, however deep it is nested: every entry belongs to a model *)
(* stage, is within every price limit on the way to it and is retried as the outermost  *)
(* stage says; the stages are tried in their order; and every route that all stages of   *)
(* a path let through is in the plan (Compile, BuildGroup).                              *)
FollowsLadder(groups, made) ==
    made.error \in {"none", "no_eligible_route"} =>
        /\ \A e \in Range(made.entries) :
               /\ e.path \in Paths(groups) /\ WithinLimits(groups, e.path, e.route)
               /\ e.retries \in RetriesSaid(groups, e.path, e.route.model)
        /\ ~Repeating(groups) => \A i, j \in DOMAIN made.entries :
               i < j => ~Before(made.entries[j].path, made.entries[i].path)
        /\ \A path \in Paths(groups), route \in Range(Routes) :
               Honours(groups, path, route) /\ WithinLimits(groups, path, route) =>
                   \E e \in Range(made.entries) : e.route = route
PlanFollowsTheLadder == FollowsLadder(ladder, plan)

(* A route that is tried is one that every stage on the way to it lets through: "Stages  *)
(* can select explicit models or one nested group, restrict providers and billing        *)
(* classes" (README.md:50-51).                                                            *)
PlanHonoursEveryStage == \A e \in Range(plan.entries) : Honours(ladder, e.path, e.route)
=============================================================================
