------------------------------- MODULE Matcher -------------------------------
(***************************************************************************)
(* Which routes may serve a request, and in which order: Match of          *)
(* internal/matcher, with the fixed-point costs it compares and records.   *)
(*                                                                         *)
(* Abstractions.                                                           *)
(*  - Protocol, parameters, structured output, modalities, context and     *)
(*    output limits are needs of the request that a route offers or not;   *)
(*    the code of a rejection is left out.                                 *)
(*  - A price is current or stale; times are numbers.                      *)
(*  - Models and providers are what their names are normalised to.         *)
(***************************************************************************)
EXTENDS Integers, FiniteSets, SequencesExt

CONSTANTS
    Queries,       \* [request, routes, usage]: what Match is asked, the ids of the routes
                   \* being unique, and what is used in the end
    MaxInt64,      \* the largest int64
    Unlimited      \* a limit that is not set, or no official price

ASSUME WordAssumption == MaxInt64 \in Nat

Int64 == -(MaxInt64 + 1) .. MaxInt64
OptionalLimits == Int64 \cup {Unlimited}

(* Routes as the catalog holds them: a price is an int64 of any sign. *)
IsRoute(route) ==
    /\ \A field \in {"input", "output", "fixed", "cached", "written", "reasoning"} :
           route.price[field] \in Int64
    /\ route.official # Unlimited => route.official.input \in Int64 /\ route.official.output \in Int64
    /\ {route.id, route.observed, route.success, route.latency} \subseteq Int

(* The ids are those of the rows of model_routes. *)
AreRoutes(routes) ==
    /\ routes \in Seq(Range(routes)) /\ \A route \in Range(routes) : IsRoute(route)
    /\ \A i, j \in DOMAIN routes : routes[i].id = routes[j].id => i = j

IsRequest(request) ==
    /\ {request.input, request.output} \subseteq Int64
    /\ {request.maxCost, request.maxInput, request.maxOutput, request.percent} \subseteq OptionalLimits

IsUsage(usage) ==
    /\ \A field \in {"input", "output", "cached", "written", "reasoning"} : usage[field] \in Int64
    /\ usage.net \in BOOLEAN

ASSUME QueriesAssumption ==
    \A q \in Queries : IsRequest(q.request) /\ AreRoutes(q.routes) /\ IsUsage(q.usage)

VARIABLES
    query,
    matched,       \* Match has returned
    ranked         \* the ranking, <<>> when nothing may serve

matcherVars == <<query, matched, ranked>>

MatcherInit == query \in Queries /\ matched = FALSE /\ ranked = <<>>

-----------------------------------------------------------------------------
(* estimateParts: int64 arithmetic that refuses to overflow. *)
Refused == -1
Word(n) == ((n + MaxInt64 + 1) % (2 * MaxInt64 + 2)) - (MaxInt64 + 1)

(* Mutant of AddPart: only the sum is guarded. *)
AddPartOfProduct(total, quantity, price) ==
    IF total = Refused \/ quantity < 0 \/ price < 0 THEN Refused
    ELSE IF Word(quantity * price) > MaxInt64 - total THEN Refused
    ELSE Word(total + Word(quantity * price))

AddPart(total, quantity, price) ==
    IF total = Refused \/ quantity < 0 \/ price < 0 THEN Refused
    ELSE IF quantity # 0 /\ price > MaxInt64 \div quantity THEN Refused
    ELSE IF Word(quantity * price) > MaxInt64 - total THEN Refused
    ELSE Word(total + Word(quantity * price))

ExpectedCost(input, output, price) ==
    LET inputs == AddPart(0, input, price.input)
        outputs == AddPart(inputs, output, price.output)
    IN AddPart(outputs, 1, price.fixed)

(* EstimateUsageCost: what was read from the cache is not paid for as input, unless the *)
(* provider has left it out already.                                                     *)
PaidInput(usage) ==
    IF usage.net THEN usage.input
    ELSE IF usage.cached >= usage.input THEN 0 ELSE usage.input - usage.cached

UsageCost(usage, price) ==
    LET inputs == AddPart(0, PaidInput(usage), price.input)
        cached == AddPart(inputs, usage.cached, price.cached)
        written == AddPart(cached, usage.written, price.written)
        outputs == AddPart(written, usage.output, price.output)
        reasoned == AddPart(outputs, usage.reasoning, price.reasoning)
    IN IF \E field \in {"input", "output", "cached", "written", "reasoning"} : usage[field] < 0
         THEN Refused ELSE AddPart(reasoned, 1, price.fixed)

-----------------------------------------------------------------------------
(* rejectRoute. *)
BillingOf(route) ==
    IF route.billing # "" THEN route.billing ELSE IF route.free THEN "free" ELSE "metered"

NeedsPrice(request) ==
    \E limit \in {request.maxCost, request.maxInput, request.maxOutput, request.percent} :
        limit # Unlimited

WithinOfficialPrice(percent, route) ==
    LET official == route.official
        Cap(price) == Word(price * percent) \div 100
    IN /\ official # Unlimited /\ official.input >= 0 /\ official.output >= 0
       /\ percent > 0 => /\ official.input <= MaxInt64 \div percent
                         /\ official.output <= MaxInt64 \div percent
       /\ route.price.input <= Cap(official.input) /\ route.price.output <= Cap(official.output)

Compatible(request, route) ==
    /\ route.model \in request.models
    /\ request.providers # {} => route.provider \in request.providers
    /\ route.provider \notin request.excluded
    /\ request.billing # {} => BillingOf(route) \in request.billing
    /\ request.needs \subseteq route.offers
    /\ route.health = "healthy" /\ (route.trusted \/ request.untrusted)
    /\ ~route.stale \/ request.stale
    /\ route.priced \/ (route.billing = "subscription" /\ ~NeedsPrice(request))
    /\ route.price.input >= 0 /\ route.price.output >= 0 /\ route.price.fixed >= 0
    /\ request.percent # Unlimited => WithinOfficialPrice(request.percent, route)
    /\ request.maxInput # Unlimited => route.price.input <= request.maxInput
    /\ request.maxOutput # Unlimited => route.price.output <= request.maxOutput

CostOf(request, route) == ExpectedCost(request.input, request.output, route.price)

Affordable(request, route) ==
    /\ CostOf(request, route) # Refused
    /\ request.maxCost # Unlimited => CostOf(request, route) <= request.maxCost

-----------------------------------------------------------------------------
(* The ranking. *)
Tier(route) ==
    IF route.free \/ route.billing = "free" THEN 1 ELSE IF route.billing = "subscription" THEN 2 ELSE 3

Less(a, b) == \E i \in DOMAIN a : a[i] < b[i] /\ \A j \in 1 .. i - 1 : a[j] = b[j]

SortKey(entry) ==
    LET route == entry.route IN
    <<Tier(route), entry.cost, -route.observed, -route.success, route.latency, route.id>>

Candidates(request, routes) ==
    {i \in DOMAIN routes : Compatible(request, routes[i]) /\ Affordable(request, routes[i])}
Entry(request, route) == [route |-> route, cost |-> CostOf(request, route)]

(* The sort is stable: what has the same key stays in the order of the catalog. *)
Precedes(request, routes, i, j) ==
    LET key(k) == SortKey(Entry(request, routes[k])) IN
    Less(key(i), key(j)) \/ (key(i) = key(j) /\ i < j)

(* Sorted, a candidate stands behind those that precede it. *)
Place(request, routes, i) ==
    1 + Cardinality({j \in Candidates(request, routes) : Precedes(request, routes, j, i)})

Ranked(request, routes) ==
    LET candidates == Candidates(request, routes) IN
    [place \in 1 .. Cardinality(candidates) |->
        Entry(request, routes[CHOOSE i \in candidates : Place(request, routes, i) = place])]

InvalidRequest(request) ==
    \/ request.input < 0 \/ request.output < 0
    \/ request.maxCost # Unlimited /\ request.maxCost < 0
    \/ request.percent # Unlimited /\ request.percent \notin 0 .. 100

Match ==
    /\ ~matched /\ matched' = TRUE
    /\ ranked' = IF InvalidRequest(query.request) THEN <<>>
                 ELSE Ranked(query.request, query.routes)
    /\ UNCHANGED query
MatcherSpec == MatcherInit /\ [][Match]_matcherVars

-----------------------------------------------------------------------------
(* What the README promises of the ranking, in exact arithmetic. *)
TrueCost(request, route) ==
    request.input * route.price.input + request.output * route.price.output + route.price.fixed

TrueUsageCost(usage, price) ==
    PaidInput(usage) * price.input + usage.cached * price.cached + usage.written * price.written
    + usage.output * price.output + usage.reasoning * price.reasoning + price.fixed

NotAbove(value, limit) == limit # Unlimited => value <= limit

(* What a served route costs is what its prices say, within every limit of the request; *)
(* free routes come before subscriptions and those before metered ones, cheaper ones     *)
(* first among equals; a compatible route that can be afforded is there; and none of it  *)
(* depends on the order of the catalog (README.md:211-219, and the comment on Match:     *)
(* "does not depend on route order").  A cost is exact or refused, never wrapped around. *)
RankingIsSound ==
    LET request == query.request
        served == {ranked[i].route : i \in DOMAIN ranked}
    IN matched /\ ~InvalidRequest(request) =>
        /\ \A i \in DOMAIN ranked :
               LET route == ranked[i].route IN
               /\ ranked[i].cost = TrueCost(request, route)
               /\ NotAbove(ranked[i].cost, request.maxCost)
               /\ NotAbove(route.price.input, request.maxInput)
               /\ request.percent # Unlimited =>
                      100 * route.price.input <= request.percent * route.official.input
        /\ \A i \in DOMAIN ranked : \A j \in 1 .. i - 1 :
               \/ Tier(ranked[j].route) < Tier(ranked[i].route)
               \/ /\ Tier(ranked[j].route) = Tier(ranked[i].route)
                  /\ ranked[j].cost <= ranked[i].cost
        /\ \A i \in DOMAIN query.routes :
               LET route == query.routes[i] IN
               /\ Compatible(request, route) /\ TrueCost(request, route) <= MaxInt64
               /\ NotAbove(TrueCost(request, route), request.maxCost)
               => route \in served
        /\ ranked = Ranked(request, Reverse(query.routes))
        /\ \A route \in served :
               UsageCost(query.usage, route.price)
                   \in {Refused} \cup ({TrueUsageCost(query.usage, route.price)} \cap 0 .. MaxInt64)
=============================================================================
