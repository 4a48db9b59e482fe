------------------------------ MODULE MCMatcher ------------------------------
(* Finite instances of Matcher for TLC: two routes, each of which may be of any kind   *)
(* that the matcher tells apart, and requests with every limit.  Prices, tokens and the *)
(* word are small and chosen so that products and sums overflow, and so that the        *)
(* percentage of an official price does.                                                *)
EXTENDS Matcher

CONSTANTS mA, mB, p1, p2
ARoute ==
    [provider |-> p1, model |-> mA, free |-> FALSE, billing |-> "metered", offers |-> {"tools"},
     health |-> "healthy", trusted |-> TRUE, stale |-> FALSE, priced |-> TRUE,
     price |-> [input |-> 1, output |-> 2, fixed |-> 0, cached |-> 1, written |-> 400, reasoning |-> 1],
     official |-> [input |-> 6, output |-> 6], observed |-> 1, success |-> 1, latency |-> 1]
Variants ==
    {[ARoute EXCEPT !.price.input = i, !.price.fixed = f, !.billing = b] :
        i \in {0, 1, 400}, f \in {0, 600}, b \in {"free", "subscription", "metered"}}
    \cup {[ARoute EXCEPT !.free = TRUE, !.billing = b] : b \in {"", "metered"}}
    \cup {[ARoute EXCEPT !.priced = FALSE, !.billing = b] : b \in {"subscription", "metered"}}
    \cup {[ARoute EXCEPT !.official = o, !.price.input = i] :
            o \in {Unlimited, [input |-> 20, output |-> 4], [input |-> 3, output |-> 6]}, i \in {2, 10}}
    \cup {[ARoute EXCEPT !.observed = 2], [ARoute EXCEPT !.success = 2], [ARoute EXCEPT !.latency = 0],
          [ARoute EXCEPT !.price.input = -1], [ARoute EXCEPT !.stale = TRUE],
          [ARoute EXCEPT !.trusted = FALSE], [ARoute EXCEPT !.health = "backoff"],
          [ARoute EXCEPT !.provider = p2], [ARoute EXCEPT !.model = mB], [ARoute EXCEPT !.offers = {}]}

WithId(n, route) == [field \in DOMAIN route \cup {"id"} |-> IF field = "id" THEN n ELSE route[field]]
ARequest ==
    [models |-> {mA}, needs |-> {"tools"}, providers |-> {}, excluded |-> {}, billing |-> {},
     input |-> 2, output |-> 1, maxCost |-> Unlimited, maxInput |-> Unlimited,
     maxOutput |-> Unlimited, percent |-> Unlimited, stale |-> FALSE, untrusted |-> FALSE]
SomeRequests ==
    {[ARequest EXCEPT !.input = i, !.output = o, !.maxCost = c] :
        i \in {0, 3}, o \in {0, 400}, c \in {Unlimited, 4}}
    \cup {[ARequest EXCEPT !.percent = p, !.maxInput = i] :
            p \in {Unlimited, 0, 50, 100, 101}, i \in {Unlimited, 1}}
    \cup {[ARequest EXCEPT !.billing = {"metered"}], [ARequest EXCEPT !.excluded = {p1}],
          [ARequest EXCEPT !.providers = {p1}], [ARequest EXCEPT !.maxOutput = 1],
          [ARequest EXCEPT !.stale = TRUE, !.untrusted = TRUE, !.models = {mA, mB}],
          [ARequest EXCEPT !.input = -1]}
SomeUsage ==
    [net |-> FALSE, input |-> 5, output |-> 1, cached |-> 2, written |-> 1, reasoning |-> 1]
PairedQueries ==
    {[request |-> q, routes |-> <<WithId(1, a), WithId(2, b)>>, usage |-> SomeUsage] :
        q \in SomeRequests, a \in Variants, b \in Variants}
=============================================================================
