----------------------------- MODULE MCGroupPlan -----------------------------
(* Finite instances of GroupPlan for TLC: a root whose first stage nests a group *)
(* and whose policies are varied, and which may go on with a model of its own;    *)
(* the nested group has stages of its own policies, or nests the root again.      *)
EXTENDS GroupPlan

CONSTANTS pA, pB, m1, m2, root, inner

Tiers == {"free", "subscription", "metered"}
FourRoutes ==
    <<[id |-> 1, provider |-> pA, model |-> m1, billing |-> "free", price |-> 0],
      [id |-> 2, provider |-> pA, model |-> m1, billing |-> "metered", price |-> 1],
      [id |-> 3, provider |-> pB, model |-> m1, billing |-> "metered", price |-> 2],
      [id |-> 4, provider |-> pB, model |-> m2, billing |-> "metered", price |-> 2]>>

Nest(slug) == [group |-> slug, model |-> None, providers |-> {}, retries |-> None]
OfModel(m, providers, retries) ==
    [group |-> None, model |-> m, providers |-> providers, retries |-> retries]

Plain == [name |-> "", providers |-> {}, billing |-> Tiers, limit |-> None, retries |-> None,
          tries |-> None, sources |-> <<OfModel(m2, {}, None)>>]

NestingStages ==
    {[name |-> "", providers |-> p, billing |-> b, limit |-> l, retries |-> r, tries |-> t,
      sources |-> <<n>>] :
        n \in {Nest(inner), [Nest(inner) EXCEPT !.providers = {pB}, !.retries = 2]},
        p \in {{}, {pA}}, b \in {Tiers, {"free"}}, l \in {None, 1}, r \in {None, 1}, t \in {None, 1}}
InnerStages ==
    {[name |-> "", providers |-> p, billing |-> b, limit |-> l, retries |-> r, tries |-> None,
      sources |-> s] :
        p \in {{}, {pB}}, b \in {Tiers, {"metered"}}, l \in {None, 2}, r \in {None, 0},
        s \in {<<OfModel(m1, {}, None)>>, <<OfModel(m1, {pA}, 2), OfModel(m2, {}, None)>>}}

Group(enabled, stages) == [enabled |-> enabled, stages |-> stages]
Twice == [Plain EXCEPT !.sources = <<Nest(inner)>>]
RootGroups == {Group(TRUE, <<s>> \o rest) : s \in NestingStages, rest \in {<<>>, <<Plain>>, <<Twice>>}}
InnerGroups ==
    {Group(TRUE, <<s>> \o rest) : s \in InnerStages, rest \in {<<>>, <<Plain>>}}
    \cup {Group(FALSE, <<Plain>>), Group(TRUE, <<[Plain EXCEPT !.sources = <<Nest(root)>>]>>)}

TwoGroupLadders == {[slug \in {root, inner} |-> IF slug = root THEN r ELSE c] :
                        r \in RootGroups, c \in InnerGroups}
=============================================================================
