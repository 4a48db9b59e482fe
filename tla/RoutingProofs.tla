---------------------------- MODULE RoutingProofs ----------------------------
(***************************************************************************)
(* The matcher, for every query: what a route costs is exact or refused,   *)
(* and the ranking is sound whatever the order of the catalog.  The plan    *)
(* of a group, for every ladder of groups: it follows what they say.       *)
(***************************************************************************)
EXTENDS Matcher, GroupPlan, SubsequencesProofs, FiniteSetTheorems, TLAPS

-----------------------------------------------------------------------------
(* The costs that Match compares and the proxy records. *)

(* What a word of 64 bits holds. *)
Words == 0 .. MaxInt64

LEMMA WordsAreKept == \A n \in Words : Word(n) = n
<1> SUFFICES ASSUME NEW n \in Words PROVE Word(n) = n
  OBVIOUS
<1> DEFINE m == 2 * MaxInt64 + 2
<1> DEFINE k == n + MaxInt64 + 1
<1>1. m \in Nat \ {0} /\ k \in 0 .. m - 1
  BY WordAssumption DEF Words
<1> HIDE DEF m, k
<1>2. k % m = k
  BY <1>1
<1>3. k - (MaxInt64 + 1) = n /\ n \in Int /\ MaxInt64 \in Int
  BY WordAssumption DEF Words, k
<1>. QED
  BY <1>2, <1>3 DEF Word, m, k

LEMMA ProductsGrow ==
    ASSUME NEW a \in Nat, NEW b \in Nat, NEW c \in Nat, b <= c
    PROVE  a * b <= a * c
OBVIOUS

LEMMA QuotientBounds ==
    ASSUME NEW a \in Nat \ {0}, NEW b \in Nat, NEW m \in Nat
    PROVE  b > m \div a <=> a * b > m
<1> DEFINE d == m \div a
<1>1. d \in Nat /\ a * d <= m /\ m < a * (d + 1)
  OBVIOUS
<1> HIDE DEF d
<1>2. ASSUME b > d PROVE a * b > m
  <2>1. d + 1 <= b /\ d + 1 \in Nat
    BY <1>1, <1>2
  <2>2. a * (d + 1) <= a * b
    BY <2>1, ProductsGrow
  <2>3. a * (d + 1) \in Nat /\ a * b \in Nat
    BY <1>1
  <2>. QED
    BY <1>1, <2>2, <2>3
<1>3. ASSUME ~(b > d) PROVE ~(a * b > m)
  <2>1. a * b <= a * d
    BY <1>1, <1>3, ProductsGrow
  <2>2. a * d \in Nat /\ a * b \in Nat
    BY <1>1
  <2>. QED
    BY <1>1, <2>1, <2>2
<1>. QED
  BY <1>2, <1>3 DEF d

(* A part is added exactly or refused, and refused only when the sum is no word. *)
LEMMA PartsAreExact ==
    ASSUME NEW total \in Words, NEW quantity \in Words, NEW price \in Words
    PROVE  AddPart(total, quantity, price)
             = IF total + quantity * price <= MaxInt64 THEN total + quantity * price ELSE Refused
<1> DEFINE p == quantity * price
<1>1. total \in Nat /\ quantity \in Nat /\ price \in Nat /\ MaxInt64 \in Nat /\ total <= MaxInt64
  BY WordAssumption DEF Words
<1>2. p \in Nat
  BY <1>1
<1>3. quantity # 0 => (price > MaxInt64 \div quantity <=> p > MaxInt64)
  BY <1>1, QuotientBounds
<1>4. quantity = 0 => p = 0
  BY <1>1
<1> HIDE DEF p
<1>5. total # Refused /\ ~(quantity < 0 \/ price < 0)
  BY <1>1 DEF Refused
<1>6. CASE p > MaxInt64
  <2>1. AddPart(total, quantity, price) = Refused
    BY <1>1, <1>2, <1>3, <1>4, <1>5, <1>6 DEF AddPart
  <2>. QED
    BY <1>1, <1>2, <1>6, <2>1 DEF p
<1>7. CASE p <= MaxInt64
  <2>1. Word(p) = p
    BY <1>1, <1>2, <1>7, WordsAreKept DEF Words
  <2>2. ~(quantity # 0 /\ price > MaxInt64 \div quantity)
    BY <1>1, <1>2, <1>3, <1>7
  <2>3. AddPart(total, quantity, price)
          = IF p > MaxInt64 - total THEN Refused ELSE Word(total + p)
    BY <1>5, <2>1, <2>2 DEF AddPart, p
  <2>4. total + p <= MaxInt64 => Word(total + p) = total + p
    BY <1>1, <1>2, WordsAreKept DEF Words
  <2>. QED
    BY <1>1, <1>2, <2>3, <2>4 DEF p
<1>. QED
  BY <1>1, <1>2, <1>6, <1>7

(* A sum of a word and a quantity that can only grow. *)
LEMMA SumsAreExact ==
    ASSUME NEW total, NEW sum \in Nat, NEW quantity \in Words, NEW price \in Words,
           total = IF sum <= MaxInt64 THEN sum ELSE Refused
    PROVE  /\ quantity * price \in Nat
           /\ AddPart(total, quantity, price)
                = IF sum + quantity * price <= MaxInt64 THEN sum + quantity * price ELSE Refused
<1>1. quantity \in Nat /\ price \in Nat /\ MaxInt64 \in Nat
  BY WordAssumption DEF Words
<1>2. quantity * price \in Nat
  BY <1>1
<1>3. CASE sum <= MaxInt64
  <2>1. total = sum /\ sum \in Words
    BY <1>1, <1>3 DEF Words
  <2>2. AddPart(sum, quantity, price)
          = IF sum + quantity * price <= MaxInt64 THEN sum + quantity * price ELSE Refused
    BY <2>1, PartsAreExact
  <2>. QED
    BY <1>2, <2>1, <2>2
<1>4. CASE ~(sum <= MaxInt64)
  <2>1. AddPart(total, quantity, price) = Refused
    BY <1>4 DEF AddPart
  <2>2. ~(sum + quantity * price <= MaxInt64)
    BY <1>1, <1>2, <1>4
  <2>. QED
    BY <1>2, <2>1, <2>2
<1>. QED
  BY <1>2, <1>3, <1>4

(* The expected cost of a route, and what a finished request is charged, are what the *)
(* prices say exactly, or are refused because they do not fit in an int64: no step of *)
(* estimateParts wraps around or refuses a cost that fits.                            *)
THEOREM CostsAreExact ==
    /\ \A request, route :
           /\ request.input \in Words /\ request.output \in Words
           /\ route.price.input \in Words /\ route.price.output \in Words
           /\ route.price.fixed \in Words
           => CostOf(request, route) = IF TrueCost(request, route) <= MaxInt64
                                       THEN TrueCost(request, route) ELSE Refused
    /\ \A usage, price :
           /\ \A field \in {"input", "output", "cached", "written", "reasoning"} :
                  usage[field] \in Words /\ price[field] \in Words
           /\ price.fixed \in Words /\ usage.net \in BOOLEAN
           => UsageCost(usage, price) = IF TrueUsageCost(usage, price) <= MaxInt64
                                        THEN TrueUsageCost(usage, price) ELSE Refused
<1>1. 0 \in Words /\ (0 = IF 0 <= MaxInt64 THEN 0 ELSE Refused)
      /\ \A price \in Words : 1 \in Words => 1 * price = price
  BY WordAssumption DEF Words
<1>2. ASSUME NEW p \in Words, NEW sum \in Nat, NEW total,
             total = IF sum <= MaxInt64 THEN sum ELSE Refused
      PROVE  AddPart(total, 1, p) = IF sum + p <= MaxInt64 THEN sum + p ELSE Refused
  <2>1. p \in Nat /\ MaxInt64 \in Nat
    BY WordAssumption DEF Words
  <2>2. CASE p = 0
    <3>1. CASE sum <= MaxInt64
      BY <1>2, <2>1, <2>2, <3>1, WordsAreKept DEF AddPart, Words, Refused
    <3>2. CASE ~(sum <= MaxInt64)
      BY <1>2, <2>1, <2>2, <3>2 DEF AddPart
    <3>. QED
      BY <3>1, <3>2
  <2>3. CASE p # 0
    <3>1. 1 \in Words /\ 1 * p = p
      BY <2>1, <2>3 DEF Words
    <3>. QED
      BY <1>2, <3>1, SumsAreExact
  <2>. QED
    BY <2>2, <2>3
<1>3. ASSUME NEW request, NEW route,
             request.input \in Words, request.output \in Words,
             route.price.input \in Words, route.price.output \in Words, route.price.fixed \in Words
      PROVE  CostOf(request, route) = IF TrueCost(request, route) <= MaxInt64
                                      THEN TrueCost(request, route) ELSE Refused
  <2> DEFINE a == request.input * route.price.input
  <2> DEFINE b == request.output * route.price.output
  <2> DEFINE f == route.price.fixed
  <2> DEFINE inputs == AddPart(0, request.input, route.price.input)
  <2> DEFINE outputs == AddPart(inputs, request.output, route.price.output)
  <2>1. a \in Nat /\ inputs = IF 0 + a <= MaxInt64 THEN 0 + a ELSE Refused
    BY <1>1, <1>3, SumsAreExact
  <2>2. 0 + a = a
    BY <2>1
  <2>3. b \in Nat /\ outputs = IF a + b <= MaxInt64 THEN a + b ELSE Refused
    <3> HIDE DEF inputs, a
    <3>. QED
      BY <1>3, <2>1, <2>2, SumsAreExact
  <2>4. a + b \in Nat
    BY <2>1, <2>3
  <2>5. AddPart(outputs, 1, f) = IF a + b + f <= MaxInt64 THEN a + b + f ELSE Refused
    <3> HIDE DEF outputs, a, b
    <3>. QED
      BY <1>2, <1>3, <2>3, <2>4
  <2>. QED
    BY <2>5 DEF CostOf, ExpectedCost, TrueCost
<1>4. ASSUME NEW usage, NEW price,
             \A field \in {"input", "output", "cached", "written", "reasoning"} :
                 usage[field] \in Words /\ price[field] \in Words,
             price.fixed \in Words, usage.net \in BOOLEAN
      PROVE  UsageCost(usage, price) = IF TrueUsageCost(usage, price) <= MaxInt64
                                       THEN TrueUsageCost(usage, price) ELSE Refused
  <2> DEFINE a == PaidInput(usage) * price.input
  <2> DEFINE b == usage.cached * price.cached
  <2> DEFINE c == usage.written * price.written
  <2> DEFINE d == usage.output * price.output
  <2> DEFINE e == usage.reasoning * price.reasoning
  <2> DEFINE inputs == AddPart(0, PaidInput(usage), price.input)
  <2> DEFINE cached == AddPart(inputs, usage.cached, price.cached)
  <2> DEFINE written == AddPart(cached, usage.written, price.written)
  <2> DEFINE outputs == AddPart(written, usage.output, price.output)
  <2> DEFINE reasoned == AddPart(outputs, usage.reasoning, price.reasoning)
  <2>1. /\ usage.input \in Words /\ usage.output \in Words /\ usage.cached \in Words
        /\ usage.written \in Words /\ usage.reasoning \in Words
        /\ price.input \in Words /\ price.output \in Words /\ price.cached \in Words
        /\ price.written \in Words /\ price.reasoning \in Words
    BY <1>4
  <2>2. PaidInput(usage) \in Words
    BY <2>1, <1>1, WordAssumption DEF PaidInput, Words
  <2>3. a \in Nat /\ inputs = IF a <= MaxInt64 THEN a ELSE Refused
    <3>1. a \in Nat /\ inputs = IF 0 + a <= MaxInt64 THEN 0 + a ELSE Refused
      BY <1>1, <2>1, <2>2, SumsAreExact
    <3>2. 0 + a = a
      BY <3>1
    <3>. QED
      BY <3>1, <3>2
  <2> HIDE DEF inputs, a
  <2>4. b \in Nat /\ cached = IF a + b <= MaxInt64 THEN a + b ELSE Refused
    BY <2>1, <2>3, SumsAreExact
  <2> HIDE DEF cached, b
  <2>5. c \in Nat /\ a + b \in Nat /\ written = IF a + b + c <= MaxInt64 THEN a + b + c ELSE Refused
    <3>1. a + b \in Nat
      BY <2>3, <2>4
    <3>. QED
      BY <2>1, <2>4, <3>1, SumsAreExact
  <2> HIDE DEF written, c
  <2>6. d \in Nat /\ outputs = IF a + b + c + d <= MaxInt64 THEN a + b + c + d ELSE Refused
    <3>1. a + b + c \in Nat
      BY <2>5
    <3>. QED
      BY <2>1, <2>5, <3>1, SumsAreExact
  <2> HIDE DEF outputs, d
  <2>7. e \in Nat /\ reasoned = IF a + b + c + d + e <= MaxInt64 THEN a + b + c + d + e ELSE Refused
    <3>1. a + b + c + d \in Nat
      BY <2>5, <2>6
    <3>. QED
      BY <2>1, <2>6, <3>1, SumsAreExact
  <2> HIDE DEF reasoned, e
  <2>8. AddPart(reasoned, 1, price.fixed)
          = IF a + b + c + d + e + price.fixed <= MaxInt64
            THEN a + b + c + d + e + price.fixed ELSE Refused
    <3>1. a + b + c + d + e \in Nat
      BY <2>5, <2>6, <2>7
    <3>. QED
      BY <1>2, <1>4, <2>7, <3>1
  <2>9. ~\E field \in {"input", "output", "cached", "written", "reasoning"} : usage[field] < 0
    BY <2>1, WordAssumption DEF Words
  <2>. QED
    BY <2>8, <2>9 DEF UsageCost, TrueUsageCost, a, b, c, d, e, inputs, cached, written, outputs, reasoned
<1>. QED
  BY <1>3, <1>4


-----------------------------------------------------------------------------
(* The order of the ranking. *)

Keys == [1 .. 6 -> Int]

LEMMA LessIsIrreflexive == ASSUME NEW a \in Keys PROVE ~Less(a, a)
BY DEF Less, Keys

LEMMA LessIsTransitive ==
    ASSUME NEW a \in Keys, NEW b \in Keys, NEW c \in Keys, Less(a, b), Less(b, c)
    PROVE  Less(a, c)
<1>1. PICK i \in 1 .. 6 : a[i] < b[i] /\ \A n \in 1 .. i - 1 : a[n] = b[n]
  BY DEF Less, Keys
<1>2. PICK j \in 1 .. 6 : b[j] < c[j] /\ \A n \in 1 .. j - 1 : b[n] = c[n]
  BY DEF Less, Keys
<1>3. \A n \in 1 .. 6 : a[n] \in Int /\ b[n] \in Int /\ c[n] \in Int
  BY DEF Keys
<1>4. DOMAIN a = 1 .. 6
  BY DEF Keys
<1>5. CASE i <= j
  <2>1. a[i] < c[i] /\ \A n \in 1 .. i - 1 : a[n] = c[n]
    BY <1>1, <1>2, <1>3, <1>5
  <2>. QED
    BY <1>4, <2>1 DEF Less
<1>6. CASE j < i
  <2>1. a[j] < c[j] /\ \A n \in 1 .. j - 1 : a[n] = c[n]
    BY <1>1, <1>2, <1>3, <1>6
  <2>. QED
    BY <1>4, <2>1 DEF Less
<1>. QED
  BY <1>5, <1>6

(* Of two keys one is less: the first place in which they differ decides. *)
LEMMA LessIsTotal ==
    ASSUME NEW a \in Keys, NEW b \in Keys, a # b
    PROVE  Less(a, b) \/ Less(b, a)
<1>1. DOMAIN a = 1 .. 6 /\ DOMAIN b = 1 .. 6
      /\ \A n \in 1 .. 6 : a[n] \in Int /\ b[n] \in Int
  BY DEF Keys
<1>2. \E n \in 1 .. 6 : a[n] # b[n]
  BY DEF Keys
<1>3. PICK i \in 1 .. 6 : a[i] # b[i] /\ \A n \in 1 .. i - 1 : a[n] = b[n]
  BY <1>2, \A n \in 1 .. 6 : n \in {1, 2, 3, 4, 5, 6}
<1>4. a[i] < b[i] \/ b[i] < a[i]
  BY <1>1, <1>3
<1>. QED
  BY <1>1, <1>3, <1>4 DEF Less

(* Where each element of a set stands when its keys are sorted. *)
Behind(S, key, i) == {j \in S : Less(key[j], key[i])}
Rank(S, key, i) == 1 + Cardinality(Behind(S, key, i))

(* Different keys give different places, in their order, and every place is taken. *)
LEMMA RanksAreInOrder ==
    ASSUME NEW S, IsFiniteSet(S), NEW key \in [S -> Keys],
           \A i, j \in S : key[i] = key[j] => i = j
    PROVE  /\ \A i \in S : Rank(S, key, i) \in 1 .. Cardinality(S)
           /\ \A i, j \in S : Less(key[i], key[j]) => Rank(S, key, i) < Rank(S, key, j)
           /\ \A i, j \in S : Rank(S, key, i) = Rank(S, key, j) => i = j
           /\ \A n \in 1 .. Cardinality(S) : \E i \in S : Rank(S, key, i) = n
<1>1. \A i \in S : key[i] \in Keys
  OBVIOUS
<1>2. ASSUME NEW i \in S
      PROVE  /\ IsFiniteSet(Behind(S, key, i)) /\ Cardinality(Behind(S, key, i)) \in Nat
             /\ Cardinality(Behind(S, key, i)) < Cardinality(S)
             /\ Cardinality(S) \in Nat
  <2>1. Behind(S, key, i) \in SUBSET S /\ i \notin Behind(S, key, i)
    BY <1>1, LessIsIrreflexive DEF Behind
  <2>2. /\ IsFiniteSet(Behind(S, key, i)) /\ Cardinality(Behind(S, key, i)) <= Cardinality(S)
        /\ Cardinality(S) # Cardinality(Behind(S, key, i))
    BY <2>1, FS_Subset
  <2>3. Cardinality(Behind(S, key, i)) \in Nat /\ Cardinality(S) \in Nat
    BY <2>2, FS_CardinalityType
  <2>. QED
    BY <2>2, <2>3
<1>3. ASSUME NEW i \in S, NEW j \in S, Less(key[i], key[j])
      PROVE  Rank(S, key, i) < Rank(S, key, j)
  <2>1. Behind(S, key, i) \in SUBSET Behind(S, key, j)
    <3>1. SUFFICES ASSUME NEW k \in S, Less(key[k], key[i]) PROVE Less(key[k], key[j])
      BY DEF Behind
    <3>. QED
      BY <1>1, <1>3, <3>1, LessIsTransitive
  <2>2. i \in Behind(S, key, j) /\ i \notin Behind(S, key, i)
    BY <1>1, <1>3, LessIsIrreflexive DEF Behind
  <2>3. /\ Cardinality(Behind(S, key, i)) <= Cardinality(Behind(S, key, j))
        /\ Cardinality(Behind(S, key, j)) # Cardinality(Behind(S, key, i))
    BY <1>2, <2>1, <2>2, FS_Subset
  <2>. QED
    BY <1>2, <2>3 DEF Rank
<1>4. ASSUME NEW i \in S PROVE Rank(S, key, i) \in 1 .. Cardinality(S)
  BY <1>2 DEF Rank
<1>5. ASSUME NEW i \in S, NEW j \in S, Rank(S, key, i) = Rank(S, key, j)
      PROVE  i = j
  <2>1. Rank(S, key, i) \in Int /\ ~(Rank(S, key, i) < Rank(S, key, j))
        /\ ~(Rank(S, key, j) < Rank(S, key, i))
    BY <1>4, <1>5
  <2>2. ~Less(key[i], key[j]) /\ ~Less(key[j], key[i])
    BY <1>3, <2>1
  <2>. QED
    BY <1>1, <2>2, LessIsTotal
<1>6. \A n \in 1 .. Cardinality(S) : \E i \in S : Rank(S, key, i) = n
  <2> DEFINE places == 1 .. Cardinality(S)
  <2> DEFINE rank == [i \in S |-> Rank(S, key, i)]
  <2>1. rank \in Injection(S, places)
    BY <1>4, <1>5 DEF Injection, IsInjective
  <2>2. Cardinality(S) \in Nat
    BY FS_CardinalityType
  <2>3. IsFiniteSet(places) /\ Cardinality(places) = Cardinality(S)
    BY <2>2, FS_Interval
  <2>4. rank \in Surjection(S, places)
    BY <2>1, <2>3, FS_Injection
  <2>5. \A n \in places : \E i \in S : rank[i] = n
    BY <2>4 DEF Surjection
  <2>. QED
    BY <2>5
<1>. QED
  BY <1>3, <1>4, <1>5, <1>6

(* What the elements are called does not matter to where they stand. *)
LEMMA RanksAreRenamed ==
    ASSUME NEW S, IsFiniteSet(S), NEW key \in [S -> Keys],
           NEW T, NEW other \in [T -> Keys], NEW name \in [T -> S],
           \A i, j \in T : name[i] = name[j] => i = j,
           \A i \in S : \E j \in T : name[j] = i,
           \A j \in T : other[j] = key[name[j]]
    PROVE  /\ IsFiniteSet(T) /\ Cardinality(T) = Cardinality(S)
           /\ \A j \in T : Rank(T, other, j) = Rank(S, key, name[j])
<1>1. name \in Bijection(T, S)
  BY DEF Bijection, Injection, Surjection, IsInjective
<1>2. IsFiniteSet(T) /\ Cardinality(T) = Cardinality(S)
  <2>1. name \in Injection(T, S) /\ name \in Surjection(T, S)
    BY <1>1 DEF Bijection
  <2>2. IsFiniteSet(T) /\ (Cardinality(T) = Cardinality(S) <=> name \in Surjection(T, S))
    BY <2>1, FS_Injection
  <2>. QED
    BY <2>1, <2>2
<1>3. ASSUME NEW j \in T PROVE Rank(T, other, j) = Rank(S, key, name[j])
  <2> DEFINE before == Behind(T, other, j)
  <2> DEFINE after == Behind(S, key, name[j])
  <2> DEFINE map == [i \in before |-> name[i]]
  <2>1. after \in SUBSET S
    BY DEF Behind
  <2>2. IsFiniteSet(after)
    BY <2>1, FS_Subset
  <2>3. map \in Injection(before, after)
    BY DEF Injection, IsInjective, Behind
  <2>4. map \in Surjection(before, after)
    <3>1. ASSUME NEW i \in after PROVE \E k \in before : map[k] = i
      <4>1. i \in S /\ Less(key[i], key[name[j]])
        BY <3>1 DEF Behind
      <4>2. PICK k \in T : name[k] = i
        BY <4>1
      <4>3. k \in before
        BY <4>1, <4>2 DEF Behind
      <4>. QED
        BY <4>2, <4>3
    <3>. QED
      BY <2>3, <3>1 DEF Injection, Surjection
  <2>5. Cardinality(before) = Cardinality(after)
    BY <2>2, <2>3, <2>4, FS_Injection
  <2>. QED
    BY <2>5 DEF Rank
<1>. QED
  BY <1>2, <1>3


-----------------------------------------------------------------------------
(* The candidates of a query and their keys. *)

Sound(request, routes) == IsRequest(request) /\ ~InvalidRequest(request) /\ AreRoutes(routes)

KeyOf(request, routes) ==
    [i \in Candidates(request, routes) |-> SortKey(Entry(request, routes[i]))]

(* The cost of a candidate is what its prices say, a number that fits. *)
LEMMA CandidatesAreExact ==
    ASSUME NEW request, NEW routes, Sound(request, routes), NEW i \in Candidates(request, routes)
    PROVE  /\ IsRoute(routes[i]) /\ i \in DOMAIN routes
           /\ CostOf(request, routes[i]) = TrueCost(request, routes[i])
           /\ TrueCost(request, routes[i]) \in Nat /\ TrueCost(request, routes[i]) <= MaxInt64
<1> DEFINE route == routes[i]
<1>1. i \in DOMAIN routes /\ Compatible(request, route) /\ Affordable(request, route)
  BY DEF Candidates
<1>2. IsRoute(route)
  BY <1>1 DEF Sound, AreRoutes, Range
<1>3. /\ route.price["input"] \in Int64 /\ route.price["output"] \in Int64
      /\ route.price["fixed"] \in Int64
  BY <1>2 DEF IsRoute
<1>4. request.input \in Words /\ request.output \in Words
  BY WordAssumption DEF Sound, IsRequest, InvalidRequest, Int64, Words
<1>5. /\ route.price.input \in Words /\ route.price.output \in Words
      /\ route.price.fixed \in Words
  BY <1>1, <1>3, WordAssumption DEF Compatible, Int64, Words
<1>6. CostOf(request, route) = IF TrueCost(request, route) <= MaxInt64
                               THEN TrueCost(request, route) ELSE Refused
  BY <1>4, <1>5, CostsAreExact
<1>7. CostOf(request, route) # Refused
  BY <1>1 DEF Affordable
<1>8. TrueCost(request, route) \in Nat
  BY <1>4, <1>5, WordAssumption DEF TrueCost, Words
<1>. QED
  BY <1>1, <1>2, <1>6, <1>7, <1>8

(* Candidates have keys of their own: the last field of a key is the id. *)
LEMMA CandidatesHaveKeys ==
    ASSUME NEW request, NEW routes, Sound(request, routes)
    PROVE  /\ IsFiniteSet(Candidates(request, routes))
           /\ Candidates(request, routes) \in SUBSET (1 .. Len(routes)) /\ Len(routes) \in Nat
           /\ DOMAIN routes = 1 .. Len(routes)
           /\ KeyOf(request, routes) \in [Candidates(request, routes) -> Keys]
           /\ \A i, j \in Candidates(request, routes) :
                  KeyOf(request, routes)[i] = KeyOf(request, routes)[j] => i = j
<1> DEFINE candidates == Candidates(request, routes)
<1> DEFINE key == KeyOf(request, routes)
<1>1. /\ Len(routes) \in Nat /\ DOMAIN routes = 1 .. Len(routes)
      /\ \A i, j \in DOMAIN routes : routes[i].id = routes[j].id => i = j
  BY DEF Sound, AreRoutes
<1>2. candidates \in SUBSET (1 .. Len(routes))
  BY <1>1 DEF Candidates
<1>3. IsFiniteSet(candidates)
  <2>1. IsFiniteSet(1 .. Len(routes))
    BY <1>1, FS_Interval
  <2>. QED
    BY <1>2, <2>1, FS_Subset
<1>4. ASSUME NEW i \in candidates PROVE key[i] \in Keys /\ key[i][6] = routes[i].id
  <2> DEFINE route == routes[i]
  <2> DEFINE cost == CostOf(request, route)
  <2>1. IsRoute(route) /\ cost \in Int
    BY CandidatesAreExact
  <2>2. {route.id, route.observed, route.success, route.latency} \subseteq Int
    BY <2>1 DEF IsRoute
  <2>3. Tier(route) \in Int
    BY DEF Tier
  <2>4. key[i] = <<Tier(route), cost, -route.observed, -route.success, route.latency, route.id>>
    BY DEF KeyOf, SortKey, Entry
  <2> HIDE DEF key, route, cost
  <2>5. key[i] \in Keys
    BY <2>1, <2>2, <2>3, <2>4 DEF Keys
  <2>. QED
    BY <2>4, <2>5 DEF route
<1>5. key \in [candidates -> Keys]
  BY <1>4 DEF KeyOf
<1>6. ASSUME NEW i \in candidates, NEW j \in candidates, key[i] = key[j] PROVE i = j
  BY <1>1, <1>2, <1>4, <1>6
<1>. QED
  BY <1>1, <1>2, <1>3, <1>5, <1>6

(* The sort puts every candidate where its key belongs. *)
LEMMA PlacesAreRanks ==
    ASSUME NEW request, NEW routes, Sound(request, routes), NEW i \in Candidates(request, routes)
    PROVE  Place(request, routes, i)
             = Rank(Candidates(request, routes), KeyOf(request, routes), i)
<1> DEFINE candidates == Candidates(request, routes)
<1> DEFINE key == KeyOf(request, routes)
<1>1. ASSUME NEW j \in candidates PROVE Precedes(request, routes, j, i) <=> Less(key[j], key[i])
  <2>1. /\ key[j] = SortKey(Entry(request, routes[j])) /\ key[i] = SortKey(Entry(request, routes[i]))
    BY DEF KeyOf
  <2>2. Precedes(request, routes, j, i) <=> Less(key[j], key[i]) \/ (key[j] = key[i] /\ j < i)
    BY <2>1 DEF Precedes
  <2>3. key[j] = key[i] => j = i
    BY CandidatesHaveKeys
  <2>4. i \in Nat /\ ~(i < i)
    BY CandidatesHaveKeys
  <2>. QED
    BY <2>2, <2>3, <2>4
<1>2. {j \in candidates : Precedes(request, routes, j, i)} = Behind(candidates, key, i)
  BY <1>1 DEF Behind
<1>. QED
  BY <1>2 DEF Place, Rank

(* What the ranking holds: every candidate in its place, and nothing else. *)
LEMMA RankedHolds ==
    ASSUME NEW request, NEW routes, Sound(request, routes)
    PROVE  /\ DOMAIN Ranked(request, routes) = 1 .. Cardinality(Candidates(request, routes))
           /\ Cardinality(Candidates(request, routes)) \in Nat
           /\ \A n \in DOMAIN Ranked(request, routes) : \E i \in Candidates(request, routes) :
                  /\ Place(request, routes, i) = n
                  /\ Ranked(request, routes)[n] = Entry(request, routes[i])
           /\ \A i \in Candidates(request, routes) :
                  /\ Place(request, routes, i) \in DOMAIN Ranked(request, routes)
                  /\ Ranked(request, routes)[Place(request, routes, i)] = Entry(request, routes[i])
<1> DEFINE candidates == Candidates(request, routes)
<1> DEFINE chosen(n) == CHOOSE i \in candidates : Place(request, routes, i) = n
<1>1. /\ IsFiniteSet(candidates) /\ KeyOf(request, routes) \in [candidates -> Keys]
      /\ \A i, j \in candidates : KeyOf(request, routes)[i] = KeyOf(request, routes)[j] => i = j
  BY CandidatesHaveKeys
<1>2. /\ \A i \in candidates : Place(request, routes, i) \in 1 .. Cardinality(candidates)
      /\ \A i, j \in candidates : Place(request, routes, i) = Place(request, routes, j) => i = j
      /\ \A n \in 1 .. Cardinality(candidates) : \E i \in candidates : Place(request, routes, i) = n
  BY <1>1, PlacesAreRanks, RanksAreInOrder
<1>3. \A n \in 1 .. Cardinality(candidates) :
          chosen(n) \in candidates /\ Place(request, routes, chosen(n)) = n
  BY <1>2
<1>4. Cardinality(candidates) \in Nat
  BY <1>1, FS_CardinalityType
<1>5. Ranked(request, routes)
        = [n \in 1 .. Cardinality(candidates) |-> Entry(request, routes[chosen(n)])]
  BY DEF Ranked
<1>6. \A i \in candidates : chosen(Place(request, routes, i)) = i
  BY <1>2, <1>3
<1> HIDE DEF chosen, candidates
<1>7. ASSUME NEW n \in 1 .. Cardinality(candidates)
      PROVE  \E i \in candidates :
                 Place(request, routes, i) = n /\ Ranked(request, routes)[n] = Entry(request, routes[i])
  <2>1. chosen(n) \in candidates /\ Place(request, routes, chosen(n)) = n
        /\ Ranked(request, routes)[n] = Entry(request, routes[chosen(n)])
    BY <1>3, <1>5, <1>7
  <2>. QED
    BY <2>1
<1>8. ASSUME NEW i \in candidates
      PROVE  Ranked(request, routes)[Place(request, routes, i)] = Entry(request, routes[i])
  BY <1>2, <1>5, <1>6
<1>. QED
  BY <1>2, <1>4, <1>5, <1>7, <1>8 DEF candidates


-----------------------------------------------------------------------------
(* The order of the catalog. *)

(* A catalog that is turned around has the same routes under other positions. *)
LEMMA TurnedAround ==
    ASSUME NEW request, NEW routes, Sound(request, routes)
    PROVE  /\ Sound(request, Reverse(routes)) /\ Len(routes) \in Nat
           /\ DOMAIN Reverse(routes) = 1 .. Len(routes) /\ DOMAIN routes = 1 .. Len(routes)
           /\ \A j \in 1 .. Len(routes) : Reverse(routes)[j] = routes[Len(routes) - j + 1]
<1>1. /\ Len(routes) \in Nat /\ DOMAIN routes = 1 .. Len(routes)
      /\ \A i, j \in DOMAIN routes : routes[i].id = routes[j].id => i = j
      /\ \A i \in DOMAIN routes : IsRoute(routes[i])
  BY DEF Sound, AreRoutes, Range
<1> DEFINE other == Reverse(routes)
<1>2. other = [j \in 1 .. Len(routes) |-> routes[(Len(routes) - j) + 1]]
  BY DEF Reverse
<1> HIDE DEF other
<1>3. \A j \in 1 .. Len(routes) : (Len(routes) - j) + 1 \in 1 .. Len(routes)
  BY <1>1
<1>4. other \in Seq(Range(other)) /\ DOMAIN other = 1 .. Len(routes)
  <2>1. other \in [1 .. Len(routes) -> Range(other)]
    BY <1>2 DEF Range
  <2>. QED
    BY <1>1, <2>1
<1>5. \A route \in Range(other) : IsRoute(route)
  BY <1>1, <1>2, <1>3 DEF Range
<1>6. ASSUME NEW i \in DOMAIN other, NEW j \in DOMAIN other, other[i].id = other[j].id
      PROVE  i = j
  <2>1. i \in 1 .. Len(routes) /\ j \in 1 .. Len(routes)
    BY <1>4
  <2>2. (Len(routes) - i) + 1 = (Len(routes) - j) + 1
    BY <1>1, <1>2, <1>3, <1>6, <2>1
  <2>. QED
    BY <1>1, <2>1, <2>2
<1>. QED
  BY <1>1, <1>2, <1>4, <1>5, <1>6 DEF Sound, AreRoutes, other

(* And the same ranking. *)
LEMMA OrderDoesNotMatter ==
    ASSUME NEW request, NEW routes, Sound(request, routes)
    PROVE  Ranked(request, Reverse(routes)) = Ranked(request, routes)
<1> DEFINE other == Reverse(routes)
<1> DEFINE n == Len(routes)
<1> DEFINE S == Candidates(request, routes)
<1> DEFINE T == Candidates(request, other)
<1> DEFINE key == KeyOf(request, routes)
<1> DEFINE turned == KeyOf(request, other)
<1> DEFINE name == [j \in T |-> n - j + 1]
<1>1. /\ Sound(request, other) /\ n \in Nat /\ DOMAIN other = 1 .. n /\ DOMAIN routes = 1 .. n
      /\ \A j \in 1 .. n : other[j] = routes[n - j + 1]
  BY TurnedAround
<1>2. /\ IsFiniteSet(S) /\ S \in SUBSET (1 .. n) /\ key \in [S -> Keys]
      /\ T \in SUBSET (1 .. n) /\ turned \in [T -> Keys]
  BY <1>1, CandidatesHaveKeys
<1>3. \A j \in 1 .. n : n - j + 1 \in 1 .. n /\ n - (n - j + 1) + 1 = j
  BY <1>1
<1>4. \A j \in 1 .. n : j \in T <=> n - j + 1 \in S
  BY <1>1, <1>3 DEF Candidates
<1>5. name \in [T -> S] /\ (\A i, j \in T : name[i] = name[j] => i = j)
  BY <1>1, <1>2, <1>4
<1>6. ASSUME NEW i \in S PROVE \E j \in T : name[j] = i
  <2>1. i \in 1 .. n /\ n - i + 1 \in T
    BY <1>2, <1>3, <1>4
  <2>. QED
    BY <1>3, <2>1
<1>7. ASSUME NEW j \in T PROVE turned[j] = key[name[j]]
  <2>1. other[j] = routes[n - j + 1] /\ n - j + 1 \in S
    BY <1>1, <1>2, <1>4
  <2>. QED
    BY <2>1 DEF KeyOf
<1>8. /\ Cardinality(T) = Cardinality(S)
      /\ \A j \in T : Rank(T, turned, j) = Rank(S, key, name[j])
  <2>1. /\ IsFiniteSet(S) /\ key \in [S -> Keys] /\ turned \in [T -> Keys] /\ name \in [T -> S]
        /\ \A i, j \in T : name[i] = name[j] => i = j
        /\ \A i \in S : \E j \in T : name[j] = i
        /\ \A j \in T : turned[j] = key[name[j]]
    BY <1>2, <1>5, <1>6, <1>7
  <2> HIDE DEF S, T, key, turned, name
  <2>. QED
    BY <2>1, RanksAreRenamed
<1>9. ASSUME NEW j \in T PROVE Place(request, other, j) = Place(request, routes, n - j + 1)
  <2>1. n - j + 1 \in S
    BY <1>2, <1>4
  <2>2. Place(request, other, j) = Rank(T, turned, j)
    BY <1>1, PlacesAreRanks
  <2>3. Place(request, routes, n - j + 1) = Rank(S, key, n - j + 1)
    BY <2>1, PlacesAreRanks
  <2>. QED
    BY <1>8, <2>2, <2>3
<1>10. /\ DOMAIN Ranked(request, other) = 1 .. Cardinality(S)
       /\ DOMAIN Ranked(request, routes) = 1 .. Cardinality(S)
  BY <1>1, <1>8, RankedHolds
<1>11. ASSUME NEW p \in 1 .. Cardinality(S)
       PROVE  Ranked(request, other)[p] = Ranked(request, routes)[p]
  <2>0. p \in DOMAIN Ranked(request, other)
    BY <1>10
  <2>1. PICK j \in T : /\ Place(request, other, j) = p
                       /\ Ranked(request, other)[p] = Entry(request, other[j])
    <3> HIDE DEF other
    <3>. QED
      BY <1>1, <2>0, RankedHolds
  <2>2. n - j + 1 \in S /\ other[j] = routes[n - j + 1]
    BY <1>1, <1>2, <1>4
  <2>3. Ranked(request, routes)[Place(request, routes, n - j + 1)] = Entry(request, routes[n - j + 1])
    BY <2>2, RankedHolds
  <2>. QED
    BY <1>9, <2>1, <2>2, <2>3
<1>12. /\ Ranked(request, other) = [p \in DOMAIN Ranked(request, other) |-> Ranked(request, other)[p]]
       /\ Ranked(request, routes) = [p \in DOMAIN Ranked(request, routes) |-> Ranked(request, routes)[p]]
  BY DEF Ranked
<1>. QED
  BY <1>10, <1>11, <1>12


-----------------------------------------------------------------------------
(* The official price. *)

(* A price within the part of the official one that is asked for is so exactly: the *)
(* product fits a word whenever it is formed.                                        *)
LEMMA OfficialPriceIsKept ==
    ASSUME NEW request, NEW routes, Sound(request, routes), NEW i \in Candidates(request, routes),
           request.percent # Unlimited
    PROVE  100 * routes[i].price.input <= request.percent * routes[i].official.input
<1> DEFINE route == routes[i]
<1> DEFINE percent == request.percent
<1> DEFINE official == route.official.input
<1> DEFINE price == route.price.input
<1>1. IsRoute(route) /\ Compatible(request, route)
  BY CandidatesAreExact DEF Candidates
<1>2. percent \in Nat
  BY WordAssumption DEF Sound, InvalidRequest
<1>3. WithinOfficialPrice(percent, route) /\ price >= 0
  BY <1>1 DEF Compatible
<1>4. price \in Nat
  <2>1. price \in Int64
    BY <1>1 DEF IsRoute
  <2>. QED
    BY <1>3, <2>1, WordAssumption DEF Int64
<1>5. official \in Words
  <2>1. official \in Int64
    BY <1>1, <1>3 DEF IsRoute, WithinOfficialPrice
  <2>. QED
    BY <1>3, <2>1, WordAssumption DEF WithinOfficialPrice, Int64, Words
<1>6. /\ percent > 0 => official <= MaxInt64 \div percent
      /\ price <= Word(official * percent) \div 100
  BY <1>3 DEF WithinOfficialPrice
<1> HIDE DEF percent, official, price
<1>7. official * percent = percent * official /\ percent * official \in Nat
  BY <1>2, <1>5, WordAssumption DEF Words
<1>8. percent * official <= MaxInt64
  <2>1. CASE percent = 0
    BY <1>5, <2>1, WordAssumption DEF Words
  <2>2. CASE percent # 0
    <3>1. official \in Nat /\ MaxInt64 \in Nat /\ MaxInt64 \div percent \in Int
      BY <1>2, <1>5, <2>2, WordAssumption DEF Words
    <3>2. ~(official > MaxInt64 \div percent)
      BY <1>2, <1>6, <2>2, <3>1
    <3>3. ~(percent * official > MaxInt64)
      BY <1>2, <2>2, <3>1, <3>2, QuotientBounds
    <3>. QED
      BY <1>7, <3>1, <3>3
  <2>. QED
    BY <2>1, <2>2
<1>9. Word(official * percent) = percent * official
  BY <1>7, <1>8, WordsAreKept DEF Words
<1> DEFINE product == percent * official
<1>10. product \in Nat /\ price <= product \div 100
  BY <1>6, <1>7, <1>9
<1> HIDE DEF product
<1>11. 100 * price <= product
  BY <1>4, <1>10
<1>. QED
  BY <1>11 DEF product, percent, official, price, route

-----------------------------------------------------------------------------
(* What a finished request is charged. *)

(* What was refused stays refused, and what costs less than nothing is refused. *)
LEMMA RefusalsStay ==
    \A total, quantity, price :
        total = Refused \/ quantity < 0 \/ price < 0 => AddPart(total, quantity, price) = Refused
BY DEF AddPart

(* A charge is the true cost, a number that fits, or refused: whatever the signs. *)
LEMMA ChargesAreExact ==
    ASSUME NEW usage, NEW price, IsUsage(usage),
           \A field \in {"input", "output", "fixed", "cached", "written", "reasoning"} :
               price[field] \in Int64
    PROVE  UsageCost(usage, price)
             \in {Refused} \cup ({TrueUsageCost(usage, price)} \cap 0 .. MaxInt64)
<1> DEFINE fields == {"input", "output", "cached", "written", "reasoning"}
<1>1. CASE \E field \in fields : usage[field] < 0
  BY <1>1 DEF UsageCost
<1>2. CASE /\ \A field \in fields : usage[field] \in Words /\ price[field] \in Words
           /\ price.fixed \in Words
  <2>1. UsageCost(usage, price) = IF TrueUsageCost(usage, price) <= MaxInt64
                                  THEN TrueUsageCost(usage, price) ELSE Refused
    <3>1. usage.net \in BOOLEAN
      BY DEF IsUsage
    <3>. QED
      BY <1>2, <3>1, CostsAreExact
  <2>2. TrueUsageCost(usage, price) \in Nat
    <3>1. /\ usage.input \in Nat /\ usage.output \in Nat /\ usage.cached \in Nat
          /\ usage.written \in Nat /\ usage.reasoning \in Nat
          /\ price.input \in Nat /\ price.output \in Nat /\ price.cached \in Nat
          /\ price.written \in Nat /\ price.reasoning \in Nat /\ price.fixed \in Nat
      BY <1>2, WordAssumption DEF Words
    <3>2. PaidInput(usage) \in Nat
      BY <3>1 DEF PaidInput
    <3>. QED
      BY <3>1, <3>2 DEF TrueUsageCost
  <2>. QED
    BY <2>1, <2>2, WordAssumption
<1>3. CASE \E field \in fields \cup {"fixed"} : price[field] < 0
  <2>1. \/ price.input < 0 \/ price.output < 0 \/ price.cached < 0
        \/ price.written < 0 \/ price.reasoning < 0 \/ price.fixed < 0
    BY <1>3
  <2>2. UsageCost(usage, price) = Refused
    BY <2>1, RefusalsStay DEF UsageCost
  <2>. QED
    BY <2>2
<1>4. \/ \E field \in fields : usage[field] < 0
      \/ \E field \in fields \cup {"fixed"} : price[field] < 0
      \/ /\ \A field \in fields : usage[field] \in Words /\ price[field] \in Words
         /\ price.fixed \in Words
  <2>1. \A n \in Int64 : n < 0 \/ n \in Words
    BY WordAssumption DEF Int64, Words
  <2>2. \A field \in fields : usage[field] \in Int64 /\ price[field] \in Int64
    BY DEF IsUsage
  <2>3. price.fixed \in Int64
    OBVIOUS
  <2>. QED
    BY <2>1, <2>2, <2>3
<1>. QED
  BY <1>1, <1>2, <1>3, <1>4


-----------------------------------------------------------------------------
(* The ranking. *)

(* Routes are ranked by class, and within a class by what they cost. *)
LEMMA CheaperFirst ==
    ASSUME NEW request, NEW routes, Sound(request, routes),
           NEW n \in DOMAIN Ranked(request, routes), NEW m \in 1 .. n - 1
    PROVE  LET ranking == Ranked(request, routes) IN
           \/ Tier(ranking[m].route) < Tier(ranking[n].route)
           \/ /\ Tier(ranking[m].route) = Tier(ranking[n].route)
              /\ ranking[m].cost <= ranking[n].cost
<1> DEFINE candidates == Candidates(request, routes)
<1> DEFINE key == KeyOf(request, routes)
<1> DEFINE ranking == Ranked(request, routes)
<1>1. n \in 1 .. Cardinality(candidates) /\ Cardinality(candidates) \in Nat /\ m \in DOMAIN ranking
      /\ m < n /\ n \in Nat /\ m \in Nat
  BY RankedHolds
<1>2. PICK i \in candidates : Place(request, routes, i) = n /\ ranking[n] = Entry(request, routes[i])
  BY RankedHolds
<1>3. PICK j \in candidates : Place(request, routes, j) = m /\ ranking[m] = Entry(request, routes[j])
  BY <1>1, RankedHolds
<1>4. Rank(candidates, key, i) = n /\ Rank(candidates, key, j) = m
  BY <1>2, <1>3, PlacesAreRanks
<1>5. /\ IsFiniteSet(candidates) /\ key \in [candidates -> Keys]
      /\ \A k, l \in candidates : key[k] = key[l] => k = l
  BY CandidatesHaveKeys
<1>6. ~Less(key[i], key[j])
  <2>1. Less(key[i], key[j]) => Rank(candidates, key, i) < Rank(candidates, key, j)
    BY <1>5, RanksAreInOrder
  <2>. QED
    BY <1>1, <1>4, <2>1
<1>7. Less(key[j], key[i])
  <2>1. i # j
    BY <1>1, <1>4
  <2>. QED
    BY <1>5, <1>6, <2>1, LessIsTotal
<1>8. /\ key[j] = SortKey(ranking[m]) /\ key[i] = SortKey(ranking[n])
  BY <1>2, <1>3 DEF KeyOf
<1> DEFINE a == ranking[m]
<1> DEFINE b == ranking[n]
<1> HIDE DEF a, b
<1>9. /\ SortKey(a)[1] = Tier(a.route) /\ SortKey(a)[2] = a.cost
      /\ SortKey(b)[1] = Tier(b.route) /\ SortKey(b)[2] = b.cost
  BY DEF SortKey
<1>10. SortKey(a) \in Keys /\ SortKey(b) \in Keys /\ Less(SortKey(a), SortKey(b))
  BY <1>5, <1>7, <1>8 DEF a, b
<1>11. \/ SortKey(a)[1] < SortKey(b)[1]
       \/ SortKey(a)[1] = SortKey(b)[1] /\ SortKey(a)[2] <= SortKey(b)[2]
  BY <1>10 DEF Less, Keys
<1>. QED
  BY <1>9, <1>11 DEF a, b

(* Every compatible route that can be afforded is a candidate. *)
LEMMA NobodyIsLeftOut ==
    ASSUME NEW request, NEW routes, Sound(request, routes), NEW i \in DOMAIN routes,
           Compatible(request, routes[i]), TrueCost(request, routes[i]) <= MaxInt64,
           NotAbove(TrueCost(request, routes[i]), request.maxCost)
    PROVE  i \in Candidates(request, routes)
<1> DEFINE route == routes[i]
<1>1. IsRoute(route)
  BY DEF Sound, AreRoutes, Range
<1>2. request.input \in Words /\ request.output \in Words
  BY WordAssumption DEF Sound, IsRequest, InvalidRequest, Int64, Words
<1>3. /\ route.price.input \in Words /\ route.price.output \in Words
      /\ route.price.fixed \in Words
  <2>1. /\ route.price["input"] \in Int64 /\ route.price["output"] \in Int64
        /\ route.price["fixed"] \in Int64
    BY <1>1 DEF IsRoute
  <2>. QED
    BY <2>1, WordAssumption DEF Compatible, Int64, Words
<1>4. CostOf(request, route) = TrueCost(request, route)
  BY <1>2, <1>3, CostsAreExact
<1>5. TrueCost(request, route) \in Nat
  BY <1>2, <1>3, WordAssumption DEF TrueCost, Words
<1>6. Affordable(request, route)
  BY <1>4, <1>5 DEF Affordable, Refused, NotAbove
<1>. QED
  BY <1>6 DEF Candidates

(* The ranking of a query. *)
LEMMA RankedIsSound ==
    ASSUME NEW q \in Queries, ~InvalidRequest(q.request), query = q, matched = TRUE,
           ranked = Ranked(q.request, q.routes)
    PROVE  RankingIsSound
<1> DEFINE request == q.request
<1> DEFINE routes == q.routes
<1> DEFINE served == {ranked[i].route : i \in DOMAIN ranked}
<1>1. Sound(request, routes) /\ IsUsage(q.usage)
  BY QueriesAssumption DEF Sound
<1>2. ASSUME NEW n \in DOMAIN ranked
      PROVE  \E i \in Candidates(request, routes) : ranked[n] = Entry(request, routes[i])
  BY <1>1, <1>2, RankedHolds
<1>3. ASSUME NEW n \in DOMAIN ranked
      PROVE  LET route == ranked[n].route IN
             /\ ranked[n].cost = TrueCost(request, route)
             /\ NotAbove(ranked[n].cost, request.maxCost)
             /\ NotAbove(route.price.input, request.maxInput)
             /\ request.percent # Unlimited =>
                    100 * route.price.input <= request.percent * route.official.input
  <2>1. PICK i \in Candidates(request, routes) : ranked[n] = Entry(request, routes[i])
    BY <1>2
  <2>2. ranked[n].route = routes[i] /\ ranked[n].cost = CostOf(request, routes[i])
    BY <2>1 DEF Entry
  <2>3. CostOf(request, routes[i]) = TrueCost(request, routes[i])
    BY <1>1, CandidatesAreExact
  <2>4. Compatible(request, routes[i]) /\ Affordable(request, routes[i])
    BY DEF Candidates
  <2>5. /\ NotAbove(CostOf(request, routes[i]), request.maxCost)
        /\ NotAbove(routes[i].price.input, request.maxInput)
    BY <2>4 DEF NotAbove, Compatible, Affordable
  <2>6. request.percent # Unlimited =>
            100 * routes[i].price.input <= request.percent * routes[i].official.input
    BY <1>1, OfficialPriceIsKept
  <2>. QED
    BY <2>2, <2>3, <2>5, <2>6
<1>4. ASSUME NEW i \in DOMAIN routes,
             Compatible(request, routes[i]) /\ TrueCost(request, routes[i]) <= MaxInt64,
             NotAbove(TrueCost(request, routes[i]), request.maxCost)
      PROVE  routes[i] \in served
  <2>1. i \in Candidates(request, routes)
    BY <1>1, <1>4, NobodyIsLeftOut
  <2>2. /\ Place(request, routes, i) \in DOMAIN ranked
        /\ ranked[Place(request, routes, i)] = Entry(request, routes[i])
    BY <1>1, <2>1, RankedHolds
  <2>3. ranked[Place(request, routes, i)].route = routes[i]
    BY <2>2 DEF Entry
  <2>. QED
    BY <2>2, <2>3
<1>5. ASSUME NEW route \in served
      PROVE  UsageCost(q.usage, route.price)
                 \in {Refused} \cup ({TrueUsageCost(q.usage, route.price)} \cap 0 .. MaxInt64)
  <2>1. PICK n \in DOMAIN ranked : route = ranked[n].route
    OBVIOUS
  <2>2. PICK i \in Candidates(request, routes) : ranked[n] = Entry(request, routes[i])
    BY <1>2
  <2>3. route = routes[i]
    BY <2>1, <2>2 DEF Entry
  <2>4. IsRoute(route)
    BY <1>1, <2>3, CandidatesAreExact
  <2>. QED
    BY <1>1, <2>4, ChargesAreExact DEF IsRoute
<1>6. ASSUME NEW n \in DOMAIN ranked, NEW m \in 1 .. n - 1
      PROVE  \/ Tier(ranked[m].route) < Tier(ranked[n].route)
             \/ /\ Tier(ranked[m].route) = Tier(ranked[n].route)
                /\ ranked[m].cost <= ranked[n].cost
  BY <1>1, <1>6, CheaperFirst
<1>7. ranked = Ranked(request, Reverse(routes))
  BY <1>1, OrderDoesNotMatter
<1>. QED
  BY <1>3, <1>4, <1>5, <1>6, <1>7 DEF RankingIsSound

(* What the matcher has ranked is the ranking of its query. *)
MatcherInv ==
    /\ query \in Queries
    /\ matched /\ ~InvalidRequest(query.request) => ranked = Ranked(query.request, query.routes)

LEMMA MatcherInvariant == MatcherSpec => []MatcherInv
<1>1. MatcherInit => MatcherInv
  BY DEF MatcherInit, MatcherInv
<1>2. MatcherInv /\ [Match]_matcherVars => MatcherInv'
  BY DEF MatcherInv, Match, matcherVars
<1>. QED
  BY <1>1, <1>2, PTL DEF MatcherSpec

(* For every catalog and request: costs are exact or refused and within the limits, the *)
(* classes come in their order and the cheaper routes of a class first, no route that    *)
(* may serve is missing, and the order of the catalog does not matter.                   *)
THEOREM RankingsAreSound == MatcherSpec => []RankingIsSound
<1>1. MatcherInv => RankingIsSound
  <2>1. CASE matched /\ ~InvalidRequest(query.request)
    BY <2>1, RankedIsSound DEF MatcherInv
  <2>2. CASE ~(matched /\ ~InvalidRequest(query.request))
    BY <2>2 DEF RankingIsSound
  <2>. QED
    BY <2>1, <2>2
<1>. QED
  BY <1>1, MatcherInvariant, PTL

-----------------------------------------------------------------------------

(* Sequences that are put together: what is in FlattenSeq, and in which order. *)
Joins(f, ss) ==
    \A i \in 1 .. Len(ss) : f[i] = IF i = 1 THEN ss[i] ELSE f[i - 1] \o ss[i]

(* FlattenSeq is a recursion, which has a solution: the sequences joined so far.         *)
LEMMA JoinsExists ==
    ASSUME NEW E, NEW ss \in Seq(Seq(E))
    PROVE  \E f \in [1 .. Len(ss) -> Seq(E)] : Joins(f, ss)
<1> DEFINE Has(n) == n \leq Len(ss) => \E f \in [1 .. n -> Seq(E)] :
               \A i \in 1 .. n : f[i] = IF i = 1 THEN ss[i] ELSE f[i - 1] \o ss[i]
           S == {n \in Nat : Has(n)}
<1>1. Has(0)
  <2>1. [i \in 1 .. 0 |-> <<>>] \in [1 .. 0 -> Seq(E)]
    BY EmptySeq
  <2>2. \A f : \A i \in 1 .. 0 : f[i] = IF i = 1 THEN ss[i] ELSE f[i - 1] \o ss[i]
    OBVIOUS
  <2> QED
    BY <2>1, <2>2
<1>2. ASSUME NEW n \in Nat, Has(n) PROVE Has(n + 1)
  <2> SUFFICES ASSUME n + 1 \leq Len(ss)
               PROVE  \E f \in [1 .. n + 1 -> Seq(E)] :
                          \A i \in 1 .. n + 1 : f[i] = IF i = 1 THEN ss[i] ELSE f[i - 1] \o ss[i]
    OBVIOUS
  <2>0. n \leq Len(ss) /\ n + 1 \in 1 .. Len(ss)
    BY LenProperties
  <2>1. PICK f \in [1 .. n -> Seq(E)] : \A i \in 1 .. n : f[i] = IF i = 1 THEN ss[i] ELSE f[i - 1] \o ss[i]
    BY <1>2, <2>0
  <2> DEFINE last == IF n + 1 = 1 THEN ss[n + 1] ELSE f[n] \o ss[n + 1]
             g == [i \in 1 .. n + 1 |-> IF i = n + 1 THEN last ELSE f[i]]
  <2>2. ss[n + 1] \in Seq(E)
    BY <2>0, ElementOfSeq
  <2>3. last \in Seq(E)
    <3>1. CASE n + 1 = 1
      BY <3>1, <2>2
    <3>2. CASE n + 1 # 1
      <4>1. n \in 1 .. n
        BY <3>2
      <4>2. f[n] \in Seq(E)
        BY <4>1, <2>1
      <4> QED
        BY <4>2, <2>2, <3>2, ConcatProperties
    <3> QED
      BY <3>1, <3>2
  <2> HIDE DEF last
  <2>4. g \in [1 .. n + 1 -> Seq(E)] /\ g[n + 1] = last /\ \A i \in 1 .. n : g[i] = f[i]
    BY <2>1, <2>3
  <2> HIDE DEF g
  <2>5. ASSUME NEW i \in 1 .. n + 1 PROVE g[i] = IF i = 1 THEN ss[i] ELSE g[i - 1] \o ss[i]
    <3>1. CASE i = n + 1
      <4>1. i # 1 => i - 1 = n /\ n \in 1 .. n
        BY <3>1
      <4> QED
        BY <2>4, <3>1, <4>1 DEF last
    <3>2. CASE i \in 1 .. n
      <4>1. i # 1 => i - 1 \in 1 .. n
        BY <3>2
      <4> QED
        BY <2>1, <2>4, <3>2, <4>1
    <3> QED
      BY <3>1, <3>2
  <2> QED
    BY <2>4, <2>5
<1> HIDE DEF Has
<1>3. Nat \subseteq S
  <2>1. 0 \in S /\ \A n \in Nat : n \in S => n + 1 \in S
    BY <1>1, <1>2
  <2> HIDE DEF S
  <2> QED
    BY <2>1, Induction
<1>4. Has(Len(ss))
  BY <1>3, LenProperties
<1> QED
  BY <1>4, LenProperties DEF Has, Joins

(* FlattenSeq is the last of the sequences joined so far.                                 *)
LEMMA FlattenJoins ==
    ASSUME NEW E, NEW ss \in Seq(Seq(E)), ss # <<>>
    PROVE  \E f \in [1 .. Len(ss) -> Seq(E)] : Joins(f, ss) /\ FlattenSeq(ss) = f[Len(ss)]
<1>1. PICK g \in [1 .. Len(ss) -> Seq(E)] : Joins(g, ss)
  BY JoinsExists
<1> DEFINE Step(f) == [i \in 1 .. Len(ss) |-> IF i = 1 THEN ss[i] ELSE f[i - 1] \o ss[i]]
           f == CHOOSE f : f = Step(f)
<1>2. g = Step(g)
  BY <1>1 DEF Joins
<1>3. f = Step(f)
  <2> HIDE DEF Step
  <2> QED
    BY <1>2
<1>4. Len(ss) # 0
  BY EmptySeq
<1>5. FlattenSeq(ss) = f[Len(ss)]
  BY <1>4 DEF FlattenSeq
<1> DEFINE S == {n \in Nat : n \in 1 .. Len(ss) => f[n] \in Seq(E)}
<1> HIDE DEF f
<1>6. \A i \in 1 .. Len(ss) : f[i] = IF i = 1 THEN ss[i] ELSE f[i - 1] \o ss[i]
  BY <1>3
<1>7. 0 \in S
  OBVIOUS
<1>8. ASSUME NEW n \in Nat, n \in S PROVE n + 1 \in S
  <2> SUFFICES ASSUME n + 1 \in 1 .. Len(ss) PROVE f[n + 1] \in Seq(E)
    OBVIOUS
  <2>1. ss[n + 1] \in Seq(E)
    BY ElementOfSeq
  <2>2. CASE n = 0
    BY <1>6, <2>1, <2>2
  <2>3. CASE n # 0
    <3>1. n \in 1 .. Len(ss) /\ (n + 1) - 1 = n /\ n + 1 # 1
      BY <2>3, LenProperties
    <3>2. f[n + 1] = f[n] \o ss[n + 1]
      BY <1>6, <3>1
    <3> QED
      BY <1>8, <2>1, <3>1, <3>2, ConcatProperties
  <2> QED
    BY <2>2, <2>3
<1>9. Nat \subseteq S
  <2> HIDE DEF S
  <2> QED
    BY <1>7, <1>8, Induction
<1>10. \A n \in 1 .. Len(ss) : f[n] \in Seq(E)
  BY <1>9, LenProperties
<1>11. f \in [1 .. Len(ss) -> Seq(E)]
  BY <1>3, <1>10
<1> QED
  BY <1>5, <1>6, <1>11 DEF Joins

(* What is put together is what the parts hold. *)
LEMMA FlattenElements ==
    ASSUME NEW E, NEW ss \in Seq(Seq(E))
    PROVE  /\ FlattenSeq(ss) \in Seq(E)
           /\ \A x \in Range(FlattenSeq(ss)) : \E i \in 1 .. Len(ss) : x \in Range(ss[i])
           /\ \A i \in 1 .. Len(ss) : \A x \in Range(ss[i]) : x \in Range(FlattenSeq(ss))
<1>1. CASE ss = <<>>
  <2>1. FlattenSeq(ss) = <<>> /\ Len(ss) = 0
    BY <1>1, EmptySeq DEF FlattenSeq
  <2> QED
    BY <2>1, EmptySeq DEF Range
<1>2. CASE ss # <<>>
  <2>1. PICK f \in [1 .. Len(ss) -> Seq(E)] : Joins(f, ss) /\ FlattenSeq(ss) = f[Len(ss)]
    BY <1>2, FlattenJoins
  <2>2. Len(ss) \in 1 .. Len(ss)
    BY <1>2, EmptySeq, LenProperties
  <2> DEFINE Good(n) == \A x : x \in Range(f[n]) <=> \E i \in 1 .. n : x \in Range(ss[i])
             S == {n \in Nat : n \in 1 .. Len(ss) => Good(n)}
  <2>3. 0 \in S
    OBVIOUS
  <2>4. ASSUME NEW n \in Nat, n \in S PROVE n + 1 \in S
    <3> SUFFICES ASSUME n + 1 \in 1 .. Len(ss) PROVE Good(n + 1)
      OBVIOUS
    <3>1. ss[n + 1] \in Seq(E)
      BY ElementOfSeq
    <3>2. CASE n = 0
      <4>0. 1 \in 1 .. Len(ss)
        BY <3>2
      <4>1. f[1] = ss[1]
        BY <2>1, <4>0 DEF Joins
      <4>2. 1 .. n + 1 = {1} /\ n + 1 = 1
        BY <3>2
      <4>3. ASSUME NEW x PROVE x \in Range(f[1]) <=> \E i \in {1} : x \in Range(ss[i])
        BY <4>1
      <4> QED
        BY <4>2, <4>3
    <3>3. CASE n # 0
      <4>1. n \in 1 .. Len(ss) /\ (n + 1) - 1 = n /\ n + 1 # 1
        BY <3>3, LenProperties
      <4>2. f[n + 1] = f[n] \o ss[n + 1] /\ f[n] \in Seq(E)
        BY <2>1, <4>1 DEF Joins
      <4>3. Range(f[n + 1]) = Range(f[n]) \cup Range(ss[n + 1])
        BY <3>1, <4>2, RangeConcatenation
      <4>4. Good(n)
        BY <2>4, <4>1
      <4>5. 1 .. n + 1 = (1 .. n) \cup {n + 1}
        OBVIOUS
      <4> QED
        BY <4>3, <4>4, <4>5
    <3> QED
      BY <3>2, <3>3
  <2>5. Nat \subseteq S
    <3> HIDE DEF S
    <3> QED
      BY <2>3, <2>4, Induction
  <2>6. Good(Len(ss)) /\ f[Len(ss)] \in Seq(E)
    <3>1. Len(ss) \in S
      BY <2>5, LenProperties
    <3> QED
      BY <3>1, <2>1, <2>2
  <2> HIDE DEF S
  <2>7. \A x : x \in Range(FlattenSeq(ss)) <=> \E i \in 1 .. Len(ss) : x \in Range(ss[i])
    BY <2>1, <2>6
  <2> QED
    BY <2>1, <2>6, <2>7
<1> QED
  BY <1>1, <1>2


(* Every element is before the later ones. *)
Sorted(s, R) == \A k, l \in 1 .. Len(s) : k < l => <<s[k], s[l]>> \in R

(* Two sequences in order are in order together when all of one comes before the other.  *)
LEMMA SortedConcat ==
    ASSUME NEW E, NEW s \in Seq(E), NEW t \in Seq(E), NEW R, Sorted(s, R), Sorted(t, R),
           \A x \in Range(s), y \in Range(t) : <<x, y>> \in R
    PROVE  Sorted(s \o t, R)
<1>1. /\ Len(s) \in Nat /\ Len(t) \in Nat /\ Len(s \o t) = Len(s) + Len(t)
      /\ \A i \in 1 .. Len(s) + Len(t) :
             (s \o t)[i] = IF i \leq Len(s) THEN s[i] ELSE t[i - Len(s)]
  BY ConcatProperties, LenProperties
<1>2. /\ \A i \in 1 .. Len(s) : s[i] \in Range(s)
      /\ \A i \in 1 .. Len(t) : t[i] \in Range(t)
  BY LenProperties DEF Range
<1> SUFFICES ASSUME NEW k \in 1 .. Len(s) + Len(t), NEW l \in 1 .. Len(s) + Len(t), k < l
             PROVE  <<(s \o t)[k], (s \o t)[l]>> \in R
  BY <1>1 DEF Sorted
<1>3. CASE l \leq Len(s)
  <2>1. k \in 1 .. Len(s) /\ l \in 1 .. Len(s) /\ (s \o t)[k] = s[k] /\ (s \o t)[l] = s[l]
    BY <1>1, <1>3
  <2> QED
    BY <2>1 DEF Sorted
<1>4. CASE k > Len(s)
  <2>1. /\ k - Len(s) \in 1 .. Len(t) /\ l - Len(s) \in 1 .. Len(t) /\ k - Len(s) < l - Len(s)
        /\ (s \o t)[k] = t[k - Len(s)] /\ (s \o t)[l] = t[l - Len(s)]
    BY <1>1, <1>4
  <2> QED
    BY <2>1 DEF Sorted
<1>5. CASE k \leq Len(s) /\ l > Len(s)
  <2>1. /\ k \in 1 .. Len(s) /\ l - Len(s) \in 1 .. Len(t)
        /\ (s \o t)[k] = s[k] /\ (s \o t)[l] = t[l - Len(s)]
    BY <1>1, <1>5
  <2> QED
    BY <1>2, <2>1
<1>6. Len(s) \in Nat /\ Len(t) \in Nat
  BY LenProperties
<1>7. l \leq Len(s) \/ k > Len(s) \/ (k \leq Len(s) /\ l > Len(s))
  BY <1>6
<1> QED
  BY <1>3, <1>4, <1>5, <1>7

(* What is put together is in order when the parts are, each and among themselves.       *)
LEMMA FlattenInOrder ==
    ASSUME NEW E, NEW ss \in Seq(Seq(E)), NEW R,
           \A i \in 1 .. Len(ss) : Sorted(ss[i], R),
           \A i, j \in 1 .. Len(ss) : i < j =>
               \A x \in Range(ss[i]), y \in Range(ss[j]) : <<x, y>> \in R
    PROVE  Sorted(FlattenSeq(ss), R)
<1>1. CASE ss = <<>>
  <2>1. FlattenSeq(ss) = ss /\ Len(ss) = 0
    BY <1>1, EmptySeq DEF FlattenSeq
  <2> QED
    BY <2>1 DEF Sorted
<1>2. CASE ss # <<>>
  <2>1. PICK f \in [1 .. Len(ss) -> Seq(E)] : Joins(f, ss) /\ FlattenSeq(ss) = f[Len(ss)]
    BY <1>2, FlattenJoins
  <2>2. Len(ss) \in 1 .. Len(ss) /\ Len(ss) \in Nat
    BY <1>2, EmptySeq, LenProperties
  <2> DEFINE Good(n) == /\ Sorted(f[n], R)
                        /\ \A x \in Range(f[n]) : \E i \in 1 .. n : x \in Range(ss[i])
             S == {n \in Nat : n \in 1 .. Len(ss) => Good(n)}
  <2>3. 0 \in S
    OBVIOUS
  <2>4. ASSUME NEW n \in Nat, n \in S PROVE n + 1 \in S
    <3> SUFFICES ASSUME n + 1 \in 1 .. Len(ss) PROVE Good(n + 1)
      OBVIOUS
    <3>1. ss[n + 1] \in Seq(E)
      BY ElementOfSeq
    <3>2. CASE n = 0
      <4>0. 1 \in 1 .. Len(ss) /\ n + 1 = 1
        BY <3>2
      <4>1. f[1] = ss[1]
        BY <2>1, <4>0 DEF Joins
      <4>2. Sorted(f[1], R)
        BY <4>0, <4>1
      <4>3. \A x \in Range(f[1]) : \E i \in 1 .. 1 : x \in Range(ss[i])
        BY <4>1
      <4> QED
        BY <4>0, <4>2, <4>3
    <3>3. CASE n # 0
      <4>1. n \in 1 .. Len(ss) /\ (n + 1) - 1 = n /\ n + 1 # 1
        BY <3>3, LenProperties
      <4>2. f[n + 1] = f[n] \o ss[n + 1] /\ f[n] \in Seq(E)
        BY <2>1, <4>1 DEF Joins
      <4>3. Range(f[n + 1]) = Range(f[n]) \cup Range(ss[n + 1])
        BY <3>1, <4>2, RangeConcatenation
      <4>4. Good(n)
        BY <2>4, <4>1
      <4>5. ASSUME NEW x \in Range(f[n]), NEW y \in Range(ss[n + 1]) PROVE <<x, y>> \in R
        <5>1. PICK i \in 1 .. n : x \in Range(ss[i])
          BY <4>4
        <5>2. i \in 1 .. Len(ss) /\ i < n + 1
          BY <4>1
        <5> QED
          BY <5>1, <5>2
      <4>6. Sorted(f[n] \o ss[n + 1], R)
        BY <3>1, <4>2, <4>4, <4>5, SortedConcat
      <4>7. \A x \in Range(f[n + 1]) : \E i \in 1 .. n + 1 : x \in Range(ss[i])
        <5>1. n + 1 \in 1 .. n + 1 /\ 1 .. n \subseteq 1 .. n + 1
          OBVIOUS
        <5> QED
          BY <4>3, <4>4, <5>1
      <4> QED
        BY <4>2, <4>6, <4>7
    <3> QED
      BY <3>2, <3>3
  <2>5. Nat \subseteq S
    <3> HIDE DEF S
    <3> QED
      BY <2>3, <2>4, Induction
  <2>6. Good(Len(ss))
    <3>1. Len(ss) \in S
      BY <2>2, <2>5
    <3> QED
      BY <3>1, <2>2
  <2> QED
    BY <2>1, <2>6
<1> QED
  BY <1>1, <1>2


-----------------------------------------------------------------------------
(* What a policy that was handed down says of the stages it came through: the limit is *)
(* the tightest; what all let through is let through; the retries are those of the      *)
(* outermost that says so.                                                              *)
HandsOn(groups, position) ==
    Outermost(StageAt(groups, position).retries, StageAt(groups, position).sources[1].retries)

Sums(groups, policy, above, n) ==
    /\ {policy.limit, policy.retries, policy.tries} \subseteq Nat \cup {None}
    /\ \A x \in Nat : Within(policy.limit, x) <=> \A i \in 1 .. n : Within(StageAt(groups, above[i]).limit, x)
    /\ \A x : (\A i \in 1 .. n : /\ Allows(StageAt(groups, above[i]).providers, x)
                                 /\ Allows(StageAt(groups, above[i]).sources[1].providers, x))
              => Allows(policy.providers, x)
    /\ \A x : (\A i \in 1 .. n : Allows(StageAt(groups, above[i]).billing, x)) => Allows(policy.billing, x)
    /\ \/ policy.retries = None /\ \A i \in 1 .. n : HandsOn(groups, above[i]) = None
       \/ \E i \in 1 .. n : /\ policy.retries = HandsOn(groups, above[i]) /\ HandsOn(groups, above[i]) # None
                            /\ \A j \in 1 .. i - 1 : HandsOn(groups, above[j]) = None
    /\ (\A i \in 1 .. n : StageAt(groups, above[i]).tries = None) => policy.tries = None

(* The fields of a policy that is composed and handed down.                              *)
LEMMA HandedFields ==
    ASSUME NEW policy, NEW stage, NEW source
    PROVE  LET composed == ComposePolicy(policy, stage)
               handed == SourcePolicy(composed, source)
           IN /\ composed.providers = Intersect(policy.providers, stage.providers)
              /\ composed.billing = Intersect(policy.billing, stage.billing)
              /\ composed.limit = Tighter(policy.limit, stage.limit)
              /\ composed.retries = Outermost(policy.retries, stage.retries)
              /\ composed.tries = Outermost(policy.tries, stage.tries)
              /\ handed.providers = Intersect(composed.providers, source.providers)
              /\ handed.billing = composed.billing /\ handed.limit = composed.limit
              /\ handed.retries = Outermost(composed.retries, source.retries)
              /\ handed.tries = composed.tries
BY DEF ComposePolicy, SourcePolicy

(* Two policies together let through what both do, and the outer one decides on retries. *)
LEMMA PolicyRules ==
    ASSUME NEW a, NEW b
    PROVE  /\ \A x : Allows(a, x) /\ Allows(b, x) => Allows(Intersect(a, b), x)
           /\ a \in Nat \cup {None} /\ b \in Nat \cup {None} =>
                  /\ Tighter(a, b) \in Nat \cup {None} /\ Outermost(a, b) \in Nat \cup {None}
                  /\ \A x \in Nat : Within(Tighter(a, b), x) <=> Within(a, x) /\ Within(b, x)
           /\ Outermost(a, b) = IF a # None THEN a ELSE b
<1>1. \A x : Allows(a, x) /\ Allows(b, x) => Allows(Intersect(a, b), x)
  BY DEF Allows, Intersect
<1>2. ASSUME a \in Nat \cup {None}, b \in Nat \cup {None}
      PROVE  /\ Tighter(a, b) \in Nat \cup {None} /\ Outermost(a, b) \in Nat \cup {None}
             /\ \A x \in Nat : Within(Tighter(a, b), x) <=> Within(a, x) /\ Within(b, x)
  <2>1. Tighter(a, b) \in Nat \cup {None} /\ Outermost(a, b) \in Nat \cup {None}
    BY <1>2 DEF Tighter, Outermost
  <2>2. ASSUME NEW x \in Nat
        PROVE  Within(Tighter(a, b), x) <=> Within(a, x) /\ Within(b, x)
    BY <1>2 DEF Tighter, Within
  <2> QED
    BY <2>1, <2>2
<1>3. Outermost(a, b) = IF a # None THEN a ELSE b
  BY DEF Outermost
<1> QED
  BY <1>1, <1>2, <1>3

(* What a valid stage says about limits and retries, and that it has sources.            *)
LEMMA StageFields ==
    ASSUME NEW stage, IsStage(stage)
    PROVE  /\ {stage.limit, stage.retries, stage.tries} \subseteq Nat \cup {None}
           /\ Len(stage.sources) \in Nat /\ Len(stage.sources) > 0
           /\ DOMAIN stage.sources = 1 .. Len(stage.sources)
           /\ stage.sources[1] \in Range(stage.sources)
           /\ \A source \in Range(stage.sources) : source.retries \in Nat \cup {None}
BY DEF IsStage, IsList, Range

(* A policy that sums up the stages above sums them up with the next one too.             *)
LEMMA SumsOn ==
    ASSUME NEW groups, NEW policy, NEW above, NEW n \in Nat, Sums(groups, policy, above, n),
           IsStage(StageAt(groups, above[n + 1]))
    PROVE  Sums(groups, Handed(policy, StageAt(groups, above[n + 1])), above, n + 1)
<1> DEFINE stage == StageAt(groups, above[n + 1])
           composed == ComposePolicy(policy, stage)
           handed == Handed(policy, stage)
<1>1. /\ 1 .. n + 1 = (1 .. n) \cup {n + 1}
      /\ \A i \in 1 .. n : 1 .. i - 1 \subseteq 1 .. n
  OBVIOUS
<1>2. /\ {stage.limit, stage.retries, stage.tries, stage.sources[1].retries} \subseteq Nat \cup {None}
      /\ {policy.limit, policy.retries, policy.tries} \subseteq Nat \cup {None}
  BY StageFields DEF Sums
<1>3. /\ composed.retries = Outermost(policy.retries, stage.retries)
      /\ composed.providers = Intersect(policy.providers, stage.providers)
      /\ handed.providers = Intersect(composed.providers, stage.sources[1].providers)
      /\ handed.billing = Intersect(policy.billing, stage.billing)
      /\ handed.limit = Tighter(policy.limit, stage.limit)
      /\ handed.retries = Outermost(composed.retries, stage.sources[1].retries)
      /\ handed.tries = Outermost(policy.tries, stage.tries)
  BY HandedFields DEF Handed
<1> HIDE DEF composed, handed
<1>4. {handed.limit, handed.retries, handed.tries} \subseteq Nat \cup {None}
  BY <1>2, <1>3, PolicyRules
<1>5. ASSUME NEW x \in Nat
      PROVE  Within(handed.limit, x) <=> \A i \in 1 .. n + 1 : Within(StageAt(groups, above[i]).limit, x)
  <2>1. Within(handed.limit, x) <=> Within(policy.limit, x) /\ Within(stage.limit, x)
    BY <1>2, <1>3, PolicyRules
  <2>2. Within(policy.limit, x) <=> \A i \in 1 .. n : Within(StageAt(groups, above[i]).limit, x)
    BY DEF Sums
  <2> QED
    BY <1>1, <2>1, <2>2
<1>6. ASSUME NEW x, \A i \in 1 .. n + 1 : /\ Allows(StageAt(groups, above[i]).providers, x)
                                          /\ Allows(StageAt(groups, above[i]).sources[1].providers, x)
      PROVE  Allows(handed.providers, x)
  <2>1. Allows(policy.providers, x)
    BY <1>1, <1>6 DEF Sums
  <2>2. Allows(stage.providers, x) /\ Allows(stage.sources[1].providers, x)
    BY <1>1, <1>6
  <2> QED
    BY <1>3, <2>1, <2>2, PolicyRules
<1>7. ASSUME NEW x, \A i \in 1 .. n + 1 : Allows(StageAt(groups, above[i]).billing, x)
      PROVE  Allows(handed.billing, x)
  <2>1. Allows(policy.billing, x)
    BY <1>1, <1>7 DEF Sums
  <2>2. Allows(stage.billing, x)
    BY <1>1, <1>7
  <2> QED
    BY <1>3, <2>1, <2>2, PolicyRules
<1>8. handed.retries = IF policy.retries # None THEN policy.retries ELSE HandsOn(groups, above[n + 1])
  <2>1. composed.retries = IF policy.retries # None THEN policy.retries ELSE stage.retries
    BY <1>3, PolicyRules
  <2> QED
    BY <1>3, <2>1 DEF HandsOn, Outermost
<1>9. \/ handed.retries = None /\ \A i \in 1 .. n + 1 : HandsOn(groups, above[i]) = None
      \/ \E i \in 1 .. n + 1 : /\ handed.retries = HandsOn(groups, above[i]) /\ HandsOn(groups, above[i]) # None
                               /\ \A j \in 1 .. i - 1 : HandsOn(groups, above[j]) = None
  <2>1. CASE policy.retries = None /\ \A i \in 1 .. n : HandsOn(groups, above[i]) = None
    <3>1. CASE HandsOn(groups, above[n + 1]) = None
      BY <1>1, <1>8, <2>1, <3>1
    <3>2. CASE HandsOn(groups, above[n + 1]) # None
      <4>1. n + 1 \in 1 .. n + 1 /\ (n + 1) - 1 = n
        OBVIOUS
      <4>2. handed.retries = HandsOn(groups, above[n + 1])
        BY <1>8, <2>1
      <4> QED
        BY <2>1, <3>2, <4>1, <4>2
    <3> QED
      BY <3>1, <3>2
  <2>2. CASE \E i \in 1 .. n : /\ policy.retries = HandsOn(groups, above[i]) /\ HandsOn(groups, above[i]) # None
                               /\ \A j \in 1 .. i - 1 : HandsOn(groups, above[j]) = None
    BY <1>1, <1>8, <2>2
  <2> QED
    BY <2>1, <2>2 DEF Sums
<1>10. (\A i \in 1 .. n + 1 : StageAt(groups, above[i]).tries = None) => handed.tries = None
  BY <1>1, <1>3, PolicyRules DEF Sums
<1> QED
  BY <1>4, <1>5, <1>6, <1>7, <1>9, <1>10 DEF Sums, handed


(* Inherited is built by handing down, stage after stage. *)
HandsDown(groups, policy, above, n) ==
    \A i \in 0 .. n : policy[i] = IF i = 0 THEN Unrestricted
                                  ELSE Handed(policy[i - 1], StageAt(groups, above[i]))

(* Inherited is a recursion, which has a solution.                                      *)
LEMMA InheritedUnfolds ==
    ASSUME NEW groups, NEW above, Len(above) \in Nat
    PROVE  \E policy : HandsDown(groups, policy, above, Len(above)) /\ Inherited(groups, above) = policy[Len(above)]
<1> DEFINE Step(f, n) == [i \in 0 .. n |-> IF i = 0 THEN Unrestricted
                                           ELSE Handed(f[i - 1], StageAt(groups, above[i]))]
           S == {n \in Nat : \E f : f = Step(f, n)}
<1>1. 0 \in S
  <2>1. [i \in 0 .. 0 |-> Unrestricted] = Step([i \in 0 .. 0 |-> Unrestricted], 0)
    OBVIOUS
  <2> QED
    BY <2>1
<1>2. ASSUME NEW n \in Nat, n \in S PROVE n + 1 \in S
  <2>1. PICK f : f = Step(f, n)
    BY <1>2
  <2> DEFINE g == [i \in 0 .. n + 1 |-> IF i = n + 1 THEN Handed(f[n], StageAt(groups, above[n + 1])) ELSE f[i]]
  <2>2. ASSUME NEW i \in 0 .. n + 1
        PROVE  g[i] = IF i = 0 THEN Unrestricted ELSE Handed(g[i - 1], StageAt(groups, above[i]))
    <3>1. CASE i = n + 1
      <4>1. i - 1 = n /\ n \in 0 .. n + 1 /\ n # n + 1 /\ i # 0
        BY <3>1
      <4>2. g[i - 1] = f[n]
        BY <4>1
      <4>3. g[i] = Handed(f[n], StageAt(groups, above[i]))
        BY <3>1
      <4> QED
        BY <4>1, <4>2, <4>3
    <3>2. CASE i # n + 1
      <4>1. i \in 0 .. n /\ (i # 0 => i - 1 \in 0 .. n + 1 /\ i - 1 # n + 1)
        BY <3>2
      <4>2. f[i] = IF i = 0 THEN Unrestricted ELSE Handed(f[i - 1], StageAt(groups, above[i]))
        BY <2>1, <4>1
      <4>3. g[i] = f[i] /\ (i # 0 => g[i - 1] = f[i - 1])
        BY <3>2, <4>1
      <4> QED
        BY <4>2, <4>3
    <3> QED
      BY <3>1, <3>2
  <2>3. g = [i \in 0 .. n + 1 |-> g[i]]
    OBVIOUS
  <2> HIDE DEF g
  <2>4. g = Step(g, n + 1)
    BY <2>2, <2>3
  <2> QED
    BY <2>4
<1> HIDE DEF Step
<1>3. Nat \subseteq S
  <2> HIDE DEF S
  <2> QED
    BY <1>1, <1>2, Induction
<1> DEFINE p == CHOOSE p : p = Step(p, Len(above))
<1>4. p = Step(p, Len(above))
  BY <1>3
<1>5. Inherited(groups, above) = p[Len(above)]
  BY DEF Inherited, Step
<1> HIDE DEF p
<1>6. HandsDown(groups, p, above, Len(above))
  BY <1>4 DEF Step, HandsDown
<1> QED
  BY <1>5, <1>6

(* What is inherited sums up the stages above.                                            *)
LEMMA InheritedSums ==
    ASSUME NEW groups,
           NEW above, Len(above) \in Nat, \A i \in 1 .. Len(above) : IsStage(StageAt(groups, above[i]))
    PROVE  Sums(groups, Inherited(groups, above), above, Len(above))
<1>1. PICK policy : HandsDown(groups, policy, above, Len(above)) /\ Inherited(groups, above) = policy[Len(above)]
  BY InheritedUnfolds
<1> DEFINE S == {n \in Nat : n \leq Len(above) => Sums(groups, policy[n], above, n)}
<1>2. 0 \in S
  <2>1. policy[0] = Unrestricted
    BY <1>1 DEF HandsDown
  <2>2. 1 .. 0 = {}
    OBVIOUS
  <2> QED
    BY <2>1, <2>2 DEF Sums, Unrestricted, Within, Allows
<1>3. ASSUME NEW n \in Nat, n \in S PROVE n + 1 \in S
  <2> SUFFICES ASSUME n + 1 \leq Len(above) PROVE Sums(groups, policy[n + 1], above, n + 1)
    OBVIOUS
  <2>1. n \leq Len(above) /\ n + 1 \in 0 .. Len(above) /\ n + 1 # 0 /\ (n + 1) - 1 = n
        /\ n + 1 \in 1 .. Len(above)
    OBVIOUS
  <2>2. policy[n + 1] = Handed(policy[n], StageAt(groups, above[n + 1]))
    BY <1>1, <2>1 DEF HandsDown
  <2>3. Sums(groups, policy[n], above, n) /\ IsStage(StageAt(groups, above[n + 1]))
    BY <1>3, <2>1
  <2> QED
    BY <2>2, <2>3, SumsOn
<1>4. Nat \subseteq S
  <2> HIDE DEF S
  <2> QED
    BY <1>2, <1>3, Induction
<1>5. Len(above) \in S
  BY <1>4
<1> QED
  BY <1>1, <1>5


(* The stages above a position, and the path that ends there. *)
LEMMA PathEnds ==
    ASSUME NEW groups, NEW above \in Seq(Positions(groups)), NEW position \in Positions(groups)
    PROVE  LET path == Append(above, position) IN
           /\ path \in Seq(Positions(groups)) /\ Len(path) = Len(above) + 1 /\ Len(above) \in Nat
           /\ DOMAIN path = 1 .. Len(above) + 1 /\ DOMAIN above = 1 .. Len(above)
           /\ path[Len(above) + 1] = position
           /\ \A i \in 1 .. Len(above) : path[i] = above[i] /\ i \in DOMAIN path /\ i < Len(path)
           /\ Len(above) + 1 \in DOMAIN path
BY AppendProperties, LenProperties

(* A position of a ladder is that of a valid stage.                                      *)
LEMMA PositionsHaveStages ==
    ASSUME NEW groups, IsLadder(groups), NEW position \in Positions(groups)
    PROVE  /\ position[1] \in DOMAIN groups /\ position[2] \in DOMAIN groups[position[1]].stages
           /\ position = <<position[1], position[2]>> /\ IsStage(StageAt(groups, position))
BY DEF Positions, IsLadder, StageAt, Range

(* What is retried above decides, and then the stage itself, and only then a source. *)
LEMMA RetriesAreSaid ==
    ASSUME NEW groups, IsLadder(groups), NEW above \in Seq(Positions(groups)),
           NEW position \in Positions(groups), NEW model
    PROVE  LET path == Append(above, position)
               said == Outermost(Inherited(groups, above).retries, StageAt(groups, position).retries)
           IN /\ said \in Nat \cup {None}
              /\ said # None => said \in RetriesSaid(groups, path, model)
              /\ said = None => RetriesSaid(groups, path, model)
                                    = {OrZero(source.retries) : source \in SourcesOf(groups, path, model)}
<1> DEFINE path == Append(above, position)
           stage == StageAt(groups, position)
           policy == Inherited(groups, above)
           said == Outermost(policy.retries, stage.retries)
           saying == {i \in DOMAIN path : SaidAt(groups, path, i) # None}
           n == Len(above)
<1>1. /\ Len(path) = n + 1 /\ n \in Nat /\ DOMAIN path = 1 .. n + 1 /\ path[n + 1] = position
      /\ \A i \in 1 .. n : path[i] = above[i] /\ i < Len(path) /\ i \in DOMAIN path
  BY PathEnds
<1>2. \A i \in 1 .. n : IsStage(StageAt(groups, above[i]))
  <2>1. \A i \in 1 .. n : above[i] \in Positions(groups)
    BY ElementOfSeq
  <2> QED
    BY <2>1, PositionsHaveStages
<1>3. Sums(groups, policy, above, n) /\ IsStage(stage)
  BY <1>1, <1>2, InheritedSums, PositionsHaveStages
<1>4. policy.retries \in Nat \cup {None} /\ stage.retries \in Nat \cup {None}
  BY <1>3, StageFields DEF Sums
<1>5. \A i \in 1 .. n : SaidAt(groups, path, i) = HandsOn(groups, above[i])
  BY <1>1 DEF SaidAt, HandsOn
<1>6. SaidAt(groups, path, n + 1) = stage.retries
  BY <1>1 DEF SaidAt, Outermost
<1> HIDE DEF path, stage, policy
<1>7. said \in Nat \cup {None} /\ said = IF policy.retries # None THEN policy.retries ELSE stage.retries
  BY <1>4 DEF Outermost
<1>8. RetriesSaid(groups, path, model) =
          IF saying # {} THEN {SaidAt(groups, path, i) : i \in {i \in saying : \A j \in saying : i \leq j}}
          ELSE {OrZero(source.retries) : source \in SourcesOf(groups, path, model)}
  BY DEF RetriesSaid
<1>9. CASE policy.retries = None /\ \A i \in 1 .. n : HandsOn(groups, above[i]) = None
  <2>1. saying = IF stage.retries # None THEN {n + 1} ELSE {}
    <3>1. \A i \in DOMAIN path : i = n + 1 \/ i \in 1 .. n
      BY <1>1
    <3>2. n + 1 \in DOMAIN path
      BY <1>1
    <3> QED
      BY <3>1, <3>2, <1>5, <1>6, <1>9
  <2>2. said = stage.retries
    BY <1>7, <1>9
  <2>3. CASE said # None
    <3>1. {i \in {n + 1} : \A j \in {n + 1} : i \leq j} = {n + 1}
      BY <1>1
    <3>2. saying = {n + 1}
      BY <2>1, <2>2, <2>3
    <3>3. RetriesSaid(groups, path, model) = {SaidAt(groups, path, i) : i \in {n + 1}}
      BY <1>8, <3>1, <3>2
    <3> QED
      BY <1>6, <1>7, <2>2, <2>3, <3>3 DEF path, stage, policy
  <2>4. CASE said = None
    BY <1>7, <1>8, <2>1, <2>2, <2>4 DEF path, stage, policy
  <2> QED
    BY <2>3, <2>4
<1>10. CASE \E i \in 1 .. n : /\ policy.retries = HandsOn(groups, above[i]) /\ HandsOn(groups, above[i]) # None
                              /\ \A j \in 1 .. i - 1 : HandsOn(groups, above[j]) = None
  <2>1. PICK i \in 1 .. n : /\ policy.retries = HandsOn(groups, above[i]) /\ HandsOn(groups, above[i]) # None
                            /\ \A j \in 1 .. i - 1 : HandsOn(groups, above[j]) = None
    BY <1>10
  <2>2. i \in saying
    BY <1>1, <1>5, <2>1
  <2>3. ASSUME NEW j \in saying PROVE i \leq j
    <3>1. j \in 1 .. n + 1 /\ SaidAt(groups, path, j) # None
      BY <1>1
    <3>2. j \in 1 .. i - 1 => j \in 1 .. n
      BY <1>1
    <3>3. j \notin 1 .. i - 1
      BY <1>5, <2>1, <3>1, <3>2
    <3> QED
      BY <1>1, <3>1, <3>3
  <2>4. SaidAt(groups, path, i) \in RetriesSaid(groups, path, model)
    <3>1. saying # {} /\ i \in {k \in saying : \A j \in saying : k \leq j}
      BY <2>2, <2>3
    <3> HIDE DEF saying
    <3> QED
      BY <1>8, <3>1
  <2>5. said = SaidAt(groups, path, i) /\ said # None
    BY <1>5, <1>7, <2>1
  <2> QED
    BY <1>7, <2>4, <2>5 DEF path, stage, policy
<1> QED
  BY <1>3, <1>9, <1>10 DEF Sums


(* An effective stage keeps the limits on its path and is retried as the path says. *)
Keeps(groups, e, path) ==
    /\ e.path = path /\ e.tryKey = TryKey(groups, path)
    /\ e.retries \in Nat /\ e.tries \in Nat
    /\ \A x \in Nat : Within(e.limit, x) => \A i \in DOMAIN path : Within(StageAt(groups, path[i]).limit, x)
    /\ \A model \in e.models : e.retries \in RetriesSaid(groups, path, model)
    /\ (\A i \in DOMAIN path : StageAt(groups, path[i]).tries = None) => e.tries = 0

(* The policy a stage's own stages are made from. *)
LEMMA ComposedKeeps ==
    ASSUME NEW groups, IsLadder(groups), NEW above \in Seq(Positions(groups)),
           NEW position \in Positions(groups)
    PROVE  LET path == Append(above, position)
               composed == ComposePolicy(Inherited(groups, above), StageAt(groups, position))
           IN /\ {composed.limit, composed.retries, composed.tries} \subseteq Nat \cup {None}
              /\ \A x \in Nat : Within(composed.limit, x) <=>
                                    \A i \in DOMAIN path : Within(StageAt(groups, path[i]).limit, x)
              /\ (\A i \in DOMAIN path : StageAt(groups, path[i]).tries = None) => composed.tries = None
              /\ composed.retries = Outermost(Inherited(groups, above).retries, StageAt(groups, position).retries)
              /\ \A x : (\A i \in DOMAIN path :
                             /\ Allows(StageAt(groups, path[i]).providers, x)
                             /\ i < Len(path) => Allows(StageAt(groups, path[i]).sources[1].providers, x))
                        => Allows(composed.providers, x)
              /\ \A x : (\A i \in DOMAIN path : Allows(StageAt(groups, path[i]).billing, x))
                        => Allows(composed.billing, x)
<1> DEFINE path == Append(above, position)
           stage == StageAt(groups, position)
           policy == Inherited(groups, above)
           composed == ComposePolicy(policy, stage)
           n == Len(above)
<1>1. /\ Len(path) = n + 1 /\ n \in Nat /\ DOMAIN path = 1 .. n + 1 /\ path[n + 1] = position
      /\ \A i \in 1 .. n : path[i] = above[i] /\ i < Len(path) /\ i \in DOMAIN path
      /\ n + 1 \in DOMAIN path
  BY PathEnds
<1>2. \A i \in 1 .. n : IsStage(StageAt(groups, above[i]))
  <2>1. \A i \in 1 .. n : above[i] \in Positions(groups)
    BY ElementOfSeq
  <2> QED
    BY <2>1, PositionsHaveStages
<1>3. Sums(groups, policy, above, n) /\ IsStage(stage)
  BY <1>1, <1>2, InheritedSums, PositionsHaveStages
<1>4. /\ {policy.limit, policy.retries, policy.tries} \subseteq Nat \cup {None}
      /\ {stage.limit, stage.retries, stage.tries} \subseteq Nat \cup {None}
  BY <1>3, StageFields DEF Sums
<1>5. /\ composed.providers = Intersect(policy.providers, stage.providers)
      /\ composed.billing = Intersect(policy.billing, stage.billing)
      /\ composed.limit = Tighter(policy.limit, stage.limit)
      /\ composed.retries = Outermost(policy.retries, stage.retries)
      /\ composed.tries = Outermost(policy.tries, stage.tries)
  BY DEF ComposePolicy
<1>6. StageAt(groups, path[n + 1]) = stage /\ \A i \in 1 .. n : StageAt(groups, path[i]) = StageAt(groups, above[i])
  BY <1>1
<1>7. 1 .. n + 1 = (1 .. n) \cup {n + 1}
  BY <1>1
<1> HIDE DEF path, stage, policy, composed
<1>8. {composed.limit, composed.retries, composed.tries} \subseteq Nat \cup {None}
  BY <1>4, <1>5, PolicyRules
<1>9. ASSUME NEW x \in Nat
      PROVE  Within(composed.limit, x) <=> \A i \in DOMAIN path : Within(StageAt(groups, path[i]).limit, x)
  <2>1. Within(composed.limit, x) <=> Within(policy.limit, x) /\ Within(stage.limit, x)
    BY <1>4, <1>5, PolicyRules
  <2>2. Within(policy.limit, x) <=> \A i \in 1 .. n : Within(StageAt(groups, above[i]).limit, x)
    BY <1>3 DEF Sums
  <2> QED
    BY <1>1, <1>6, <1>7, <2>1, <2>2
<1>10. ASSUME \A i \in DOMAIN path : StageAt(groups, path[i]).tries = None PROVE composed.tries = None
  <2>1. policy.tries = None
    BY <1>1, <1>3, <1>6, <1>10 DEF Sums
  <2>2. stage.tries = None
    BY <1>1, <1>6, <1>10
  <2> QED
    BY <1>5, <2>1, <2>2 DEF Outermost
<1>11. ASSUME NEW x, \A i \in DOMAIN path :
                         /\ Allows(StageAt(groups, path[i]).providers, x)
                         /\ i < Len(path) => Allows(StageAt(groups, path[i]).sources[1].providers, x)
       PROVE  Allows(composed.providers, x)
  <2>1. \A i \in 1 .. n : /\ Allows(StageAt(groups, above[i]).providers, x)
                          /\ Allows(StageAt(groups, above[i]).sources[1].providers, x)
    <3> SUFFICES ASSUME NEW i \in 1 .. n
                 PROVE  /\ Allows(StageAt(groups, above[i]).providers, x)
                        /\ Allows(StageAt(groups, above[i]).sources[1].providers, x)
      OBVIOUS
    <3>1. i \in DOMAIN path /\ i < Len(path) /\ StageAt(groups, path[i]) = StageAt(groups, above[i])
      BY <1>1, <1>6
    <3>2. Allows(StageAt(groups, path[i]).providers, x) /\ Allows(StageAt(groups, path[i]).sources[1].providers, x)
      BY <1>11, <3>1
    <3> QED
      BY <3>1, <3>2
  <2>2. Allows(policy.providers, x)
    BY <1>3, <2>1 DEF Sums
  <2>3. Allows(stage.providers, x)
    BY <1>1, <1>6, <1>11
  <2> QED
    BY <1>5, <2>2, <2>3, PolicyRules
<1>12. ASSUME NEW x, \A i \in DOMAIN path : Allows(StageAt(groups, path[i]).billing, x)
       PROVE  Allows(composed.billing, x)
  <2>1. \A i \in 1 .. n : Allows(StageAt(groups, above[i]).billing, x)
    BY <1>1, <1>6, <1>12
  <2>2. Allows(policy.billing, x)
    BY <1>3, <2>1 DEF Sums
  <2>3. Allows(stage.billing, x)
    BY <1>1, <1>6, <1>12
  <2> QED
    BY <1>5, <2>2, <2>3, PolicyRules
<1> QED
  BY <1>5, <1>8, <1>9, <1>10, <1>11, <1>12 DEF path, stage, policy, composed

(* The fields of an effective stage.                                                     *)
LEMMA EffectiveFields ==
    ASSUME NEW path, NEW key, NEW policy, NEW stage, NEW sources
    PROVE  LET e == EffectiveStage(path, key, policy, stage, sources) IN
           /\ e.path = path /\ e.tryKey = key /\ e.models = {source.model : source \in sources}
           /\ e.providers = Intersect(policy.providers, stage.providers)
           /\ e.billing = Intersect(policy.billing, stage.billing)
           /\ e.limit = Tighter(policy.limit, stage.limit)
           /\ e.retries = OrZero(Outermost(policy.retries, stage.retries))
           /\ e.tries = OrZero(Outermost(policy.tries, stage.tries))
BY DEF EffectiveStage, ComposePolicy

(* Composing with no restriction adds nothing.                                           *)
LEMMA NothingAdded ==
    ASSUME NEW x
    PROVE  /\ Intersect(x, {}) = x /\ Outermost(x, None) = x /\ Tighter(x, None) = x
           /\ Outermost(x, x) = x
           /\ x \in Nat \cup {None} => OrZero(x) \in Nat /\ (x # None => OrZero(x) = x)
           /\ OrZero(None) = 0
<1>1. Intersect(x, {}) = x
  BY DEF Intersect
<1>2. Outermost(x, None) = x /\ Outermost(x, x) = x
  BY DEF Outermost
<1>3. Tighter(x, None) = x
  BY DEF Tighter
<1>4. x \in Nat \cup {None} => OrZero(x) \in Nat /\ (x # None => OrZero(x) = x)
  BY DEF OrZero
<1>5. OrZero(None) = 0
  BY DEF OrZero
<1> QED
  BY <1>1, <1>2, <1>3, <1>4, <1>5


(* A source that has a policy of its own is a stage of its own. *)
LEMMA SourceStageKeeps ==
    ASSUME NEW groups, IsLadder(groups), NEW above \in Seq(Positions(groups)),
           NEW position \in Positions(groups),
           NEW source \in Range(StageAt(groups, position).sources)
    PROVE  LET path == Append(above, position)
               composed == ComposePolicy(Inherited(groups, above), StageAt(groups, position))
               e == EffectiveStage(path, TryKey(groups, path), SourcePolicy(composed, source), Unrestricted, {source})
           IN /\ Keeps(groups, e, path)
              /\ e.limit = composed.limit /\ e.billing = composed.billing
              /\ e.providers = Intersect(composed.providers, source.providers)
              /\ e.models = {source.model}
<1> DEFINE path == Append(above, position)
           composed == ComposePolicy(Inherited(groups, above), StageAt(groups, position))
           handed == SourcePolicy(composed, source)
           e == EffectiveStage(path, TryKey(groups, path), handed, Unrestricted, {source})
<1>1. /\ {composed.limit, composed.retries, composed.tries} \subseteq Nat \cup {None}
      /\ \A x \in Nat : Within(composed.limit, x) <=>
                            \A i \in DOMAIN path : Within(StageAt(groups, path[i]).limit, x)
      /\ (\A i \in DOMAIN path : StageAt(groups, path[i]).tries = None) => composed.tries = None
      /\ composed.retries = Outermost(Inherited(groups, above).retries, StageAt(groups, position).retries)
  BY ComposedKeeps
<1>2. source.retries \in Nat \cup {None}
  BY PositionsHaveStages, StageFields
<1>3. /\ handed.providers = Intersect(composed.providers, source.providers)
      /\ handed.billing = composed.billing /\ handed.limit = composed.limit
      /\ handed.retries = Outermost(composed.retries, source.retries)
      /\ handed.tries = composed.tries
  BY HandedFields
<1>4. path[Len(path)] = position
  BY PathEnds
<1>5. \A model : /\ composed.retries # None => composed.retries \in RetriesSaid(groups, path, model)
                 /\ composed.retries = None => RetriesSaid(groups, path, model)
                        = {OrZero(s.retries) : s \in SourcesOf(groups, path, model)}
  BY <1>1, RetriesAreSaid
<1>6. SourcesOf(groups, path, source.model)
          = {s \in Range(StageAt(groups, position).sources) : s.model = source.model}
  BY <1>4 DEF SourcesOf
<1> HIDE DEF path, composed, handed
<1>7. /\ e.path = path /\ e.tryKey = TryKey(groups, path) /\ e.models = {source.model}
      /\ e.providers = Intersect(handed.providers, {}) /\ e.billing = Intersect(handed.billing, {})
      /\ e.limit = Tighter(handed.limit, None)
      /\ e.retries = OrZero(Outermost(handed.retries, None))
      /\ e.tries = OrZero(Outermost(handed.tries, None))
  <2>1. {s.model : s \in {source}} = {source.model}
    OBVIOUS
  <2>2. /\ Unrestricted.providers = {} /\ Unrestricted.billing = {} /\ Unrestricted.limit = None
        /\ Unrestricted.retries = None /\ Unrestricted.tries = None
    BY DEF Unrestricted
  <2>3. /\ e.path = path /\ e.tryKey = TryKey(groups, path) /\ e.models = {s.model : s \in {source}}
        /\ e.providers = Intersect(handed.providers, Unrestricted.providers)
        /\ e.billing = Intersect(handed.billing, Unrestricted.billing)
        /\ e.limit = Tighter(handed.limit, Unrestricted.limit)
        /\ e.retries = OrZero(Outermost(handed.retries, Unrestricted.retries))
        /\ e.tries = OrZero(Outermost(handed.tries, Unrestricted.tries))
    BY EffectiveFields
  <2> QED
    BY <2>1, <2>2, <2>3
<1> HIDE DEF e
<1>8. /\ e.providers = handed.providers /\ e.billing = handed.billing /\ e.limit = handed.limit
      /\ e.retries = OrZero(handed.retries) /\ e.tries = OrZero(handed.tries)
  BY <1>7, NothingAdded
<1>9. e.retries \in RetriesSaid(groups, path, source.model) /\ e.retries \in Nat
  <2>1. CASE composed.retries # None
    <3>1. handed.retries = composed.retries /\ OrZero(composed.retries) = composed.retries
      BY <1>1, <1>3, <2>1 DEF Outermost, OrZero
    <3> QED
      BY <1>1, <1>5, <1>8, <2>1, <3>1
  <2>2. CASE composed.retries = None
    <3>1. e.retries = OrZero(source.retries)
      BY <1>3, <1>8, <2>2 DEF Outermost
    <3>2. source \in SourcesOf(groups, path, source.model)
      BY <1>6
    <3>3. e.retries \in RetriesSaid(groups, path, source.model)
      BY <1>5, <2>2, <3>1, <3>2
    <3> QED
      BY <1>2, <3>1, <3>3, NothingAdded
  <2> QED
    BY <2>1, <2>2
<1>10. e.tries \in Nat
  BY <1>1, <1>3, <1>8, NothingAdded
<1>11. (\A i \in DOMAIN path : StageAt(groups, path[i]).tries = None) => e.tries = 0
  BY <1>1, <1>3, <1>8, NothingAdded
<1>12. \A x \in Nat : Within(e.limit, x) => \A i \in DOMAIN path : Within(StageAt(groups, path[i]).limit, x)
  BY <1>1, <1>3, <1>8
<1>13. \A model \in e.models : e.retries \in RetriesSaid(groups, path, model)
  BY <1>7, <1>9
<1>14. Keeps(groups, e, path)
  BY <1>7, <1>9, <1>10, <1>11, <1>12, <1>13 DEF Keeps
<1> QED
  BY <1>3, <1>7, <1>8, <1>14 DEF e, path, composed, handed

(* The sources of a stage without policies of their own are one stage. *)
LEMMA PlainStageKeeps ==
    ASSUME NEW groups, IsLadder(groups), NEW above \in Seq(Positions(groups)),
           NEW position \in Positions(groups),
           ~SourceSpecific(StageAt(groups, position))
    PROVE  LET path == Append(above, position)
               stage == StageAt(groups, position)
               composed == ComposePolicy(Inherited(groups, above), stage)
               e == EffectiveStage(path, TryKey(groups, path), composed, stage, Range(stage.sources))
           IN /\ Keeps(groups, e, path)
              /\ e.limit = Tighter(composed.limit, stage.limit)
              /\ e.billing = Intersect(composed.billing, stage.billing)
              /\ e.providers = Intersect(composed.providers, stage.providers)
              /\ e.models = {source.model : source \in Range(stage.sources)}
<1> DEFINE path == Append(above, position)
           stage == StageAt(groups, position)
           composed == ComposePolicy(Inherited(groups, above), stage)
           e == EffectiveStage(path, TryKey(groups, path), composed, stage, Range(stage.sources))
<1>1. /\ {composed.limit, composed.retries, composed.tries} \subseteq Nat \cup {None}
      /\ \A x \in Nat : Within(composed.limit, x) <=>
                            \A i \in DOMAIN path : Within(StageAt(groups, path[i]).limit, x)
      /\ (\A i \in DOMAIN path : StageAt(groups, path[i]).tries = None) => composed.tries = None
      /\ composed.retries = Outermost(Inherited(groups, above).retries, stage.retries)
  BY ComposedKeeps
<1>2. /\ {stage.limit, stage.retries, stage.tries} \subseteq Nat \cup {None}
      /\ \A source \in Range(stage.sources) : source.retries = None
  BY PositionsHaveStages, StageFields DEF SourceSpecific
<1>3. /\ path[Len(path)] = position /\ Len(path) \in DOMAIN path
  BY PathEnds
<1>4. \A model : /\ composed.retries # None => composed.retries \in RetriesSaid(groups, path, model)
                 /\ composed.retries = None => RetriesSaid(groups, path, model)
                        = {OrZero(s.retries) : s \in SourcesOf(groups, path, model)}
  BY <1>1, RetriesAreSaid
<1>5. \A model : SourcesOf(groups, path, model) = {s \in Range(stage.sources) : s.model = model}
  BY <1>3 DEF SourcesOf
<1>6. StageAt(groups, path[Len(path)]) = stage
  BY <1>3
<1> HIDE DEF path, composed, stage
<1>7. /\ e.path = path /\ e.tryKey = TryKey(groups, path)
      /\ e.models = {source.model : source \in Range(stage.sources)}
      /\ e.providers = Intersect(composed.providers, stage.providers)
      /\ e.billing = Intersect(composed.billing, stage.billing)
      /\ e.limit = Tighter(composed.limit, stage.limit)
      /\ e.retries = OrZero(Outermost(composed.retries, stage.retries))
      /\ e.tries = OrZero(Outermost(composed.tries, stage.tries))
  BY EffectiveFields
<1> HIDE DEF e
<1>8. Outermost(composed.retries, stage.retries) = composed.retries
  BY <1>1 DEF Outermost
<1>9. e.retries \in Nat /\ e.tries \in Nat
  <2>1. Outermost(composed.tries, stage.tries) \in Nat \cup {None}
    BY <1>1, <1>2, PolicyRules
  <2> QED
    BY <1>1, <1>7, <1>8, <2>1, NothingAdded
<1>10. ASSUME NEW model \in e.models PROVE e.retries \in RetriesSaid(groups, path, model)
  <2>1. CASE composed.retries # None
    BY <1>1, <1>4, <1>7, <1>8, <2>1, NothingAdded
  <2>2. CASE composed.retries = None
    <3>1. PICK source \in Range(stage.sources) : source.model = model
      BY <1>7
    <3>2. source \in SourcesOf(groups, path, model) /\ source.retries = None
      BY <1>2, <1>5, <3>1
    <3>3. e.retries = OrZero(source.retries)
      BY <1>7, <1>8, <2>2, <3>2
    <3> QED
      BY <1>4, <2>2, <3>2, <3>3
  <2> QED
    BY <2>1, <2>2
<1>11. ASSUME \A i \in DOMAIN path : StageAt(groups, path[i]).tries = None PROVE e.tries = 0
  <2>1. stage.tries = None /\ composed.tries = None
    BY <1>1, <1>3, <1>6, <1>11
  <2> QED
    BY <1>7, <2>1, NothingAdded
<1>12. ASSUME NEW x \in Nat, Within(e.limit, x)
       PROVE  \A i \in DOMAIN path : Within(StageAt(groups, path[i]).limit, x)
  <2>1. Within(composed.limit, x)
    BY <1>1, <1>2, <1>7, <1>12, PolicyRules
  <2> QED
    BY <1>1, <2>1
<1>13. Keeps(groups, e, path)
  BY <1>7, <1>9, <1>10, <1>11, <1>12 DEF Keeps
<1> QED
  BY <1>7, <1>13 DEF e, path, composed, stage


(* Everything the groups can become. *)
Stages(groups) ==
    UNION {Range(ModelStages(groups, above, position)) :
               above \in Seq(Positions(groups)), position \in Positions(groups)}

(* The effective stages of a model stage keep what the path to it says.                  *)
LEMMA ModelStagesKeep ==
    ASSUME NEW groups, IsLadder(groups), NEW above \in Seq(Positions(groups)),
           NEW position \in Positions(groups)
    PROVE  /\ ModelStages(groups, above, position) \in Seq(Stages(groups))
           /\ \A e \in Range(ModelStages(groups, above, position)) : Keeps(groups, e, Append(above, position))
<1> DEFINE path == Append(above, position)
           stage == StageAt(groups, position)
           composed == ComposePolicy(Inherited(groups, above), stage)
           own(source) ==
               EffectiveStage(path, TryKey(groups, path), SourcePolicy(composed, source), Unrestricted, {source})
           plain == EffectiveStage(path, TryKey(groups, path), composed, stage, Range(stage.sources))
           made == ModelStages(groups, above, position)
<1>1. made = IF SourceSpecific(stage) THEN [i \in DOMAIN stage.sources |-> own(stage.sources[i])]
             ELSE <<plain>>
  BY DEF ModelStages
<1>2. Len(stage.sources) \in Nat /\ DOMAIN stage.sources = 1 .. Len(stage.sources)
  BY PositionsHaveStages, StageFields
<1>3. Range(made) \subseteq Stages(groups)
  BY DEF Stages
<1>4. ASSUME SourceSpecific(stage)
      PROVE  made \in Seq(Range(made)) /\ \A e \in Range(made) : Keeps(groups, e, path)
  <2>1. \A source \in Range(stage.sources) : Keeps(groups, own(source), path)
    BY SourceStageKeeps
  <2> HIDE DEF own, path, stage
  <2>2. made = [i \in 1 .. Len(stage.sources) |-> own(stage.sources[i])]
    BY <1>1, <1>2, <1>4
  <2>3. \A i \in 1 .. Len(stage.sources) : stage.sources[i] \in Range(stage.sources)
    BY <1>2 DEF Range
  <2> HIDE DEF made
  <2>4. \A i \in 1 .. Len(stage.sources) : made[i] \in Range(made)
    BY <2>2 DEF Range
  <2>5. made \in [1 .. Len(stage.sources) -> Range(made)]
    BY <2>2, <2>4
  <2>6. \A e \in Range(made) : \E i \in 1 .. Len(stage.sources) : e = own(stage.sources[i])
    BY <2>2 DEF Range
  <2> QED
    BY <1>2, <2>1, <2>3, <2>5, <2>6, SeqDef
<1>5. ASSUME ~SourceSpecific(stage)
      PROVE  made \in Seq(Range(made)) /\ \A e \in Range(made) : Keeps(groups, e, path)
  <2>1. Keeps(groups, plain, path)
    BY <1>5, PlainStageKeeps
  <2> HIDE DEF plain, path, stage
  <2>2. made = <<plain>>
    BY <1>1, <1>5
  <2> HIDE DEF made
  <2>3. Range(made) = {plain}
    BY <2>2 DEF Range
  <2> QED
    BY <2>1, <2>2, <2>3
<1> HIDE DEF made, path
<1>6. made \in Seq(Range(made)) /\ \A e \in Range(made) : Keeps(groups, e, path)
  BY <1>4, <1>5
<1>7. made \in Seq(Stages(groups))
  BY <1>3, <1>6, SeqMonotonic
<1> QED
  BY <1>6, <1>7 DEF made, path

(* A route that every stage of a path lets through is let through by one of its stages. *)
LEMMA ModelStagesAdmit ==
    ASSUME NEW groups, IsLadder(groups), NEW above \in Seq(Positions(groups)),
           NEW position \in Positions(groups),
           NEW route, route.price \in Nat,
           Honours(groups, Append(above, position), route), WithinLimits(groups, Append(above, position), route)
    PROVE  \E e \in Range(ModelStages(groups, above, position)) : Admits(e, route)
<1> DEFINE path == Append(above, position)
           stage == StageAt(groups, position)
           composed == ComposePolicy(Inherited(groups, above), stage)
           own(source) ==
               EffectiveStage(path, TryKey(groups, path), SourcePolicy(composed, source), Unrestricted, {source})
           plain == EffectiveStage(path, TryKey(groups, path), composed, stage, Range(stage.sources))
           made == ModelStages(groups, above, position)
<1>1. made = IF SourceSpecific(stage) THEN [i \in DOMAIN stage.sources |-> own(stage.sources[i])]
             ELSE <<plain>>
  BY DEF ModelStages
<1>2. /\ Within(composed.limit, route.price) <=> \A i \in DOMAIN path : Within(StageAt(groups, path[i]).limit, route.price)
      /\ (\A i \in DOMAIN path :
              /\ Allows(StageAt(groups, path[i]).providers, route.provider)
              /\ i < Len(path) => Allows(StageAt(groups, path[i]).sources[1].providers, route.provider))
         => Allows(composed.providers, route.provider)
      /\ (\A i \in DOMAIN path : Allows(StageAt(groups, path[i]).billing, route.billing))
         => Allows(composed.billing, route.billing)
      /\ composed.limit \in Nat \cup {None}
  BY ComposedKeeps
<1>3. path[Len(path)] = position /\ Len(path) \in DOMAIN path
  BY PathEnds
<1>4. stage.limit \in Nat \cup {None}
  BY PositionsHaveStages, StageFields
<1>5. /\ Allows(composed.providers, route.provider) /\ Allows(composed.billing, route.billing)
      /\ Within(composed.limit, route.price)
  BY <1>2 DEF Honours, WithinLimits, Allows
<1>6. /\ Allows(stage.providers, route.provider) /\ Allows(stage.billing, route.billing)
      /\ Within(stage.limit, route.price)
  BY <1>3 DEF Honours, WithinLimits, Allows
<1>7. PICK source \in Range(stage.sources) :
          source.model = route.model /\ Allows(source.providers, route.provider)
  BY <1>3 DEF Honours, SourcesOf
<1>8. CASE SourceSpecific(stage)
  <2>1. /\ own(source).limit = composed.limit /\ own(source).billing = composed.billing
        /\ own(source).providers = Intersect(composed.providers, source.providers)
        /\ own(source).models = {source.model}
    BY SourceStageKeeps
  <2> HIDE DEF own
  <2>2. Allows(Intersect(composed.providers, source.providers), route.provider)
    BY <1>5, <1>7, PolicyRules
  <2>3. Admits(own(source), route)
    BY <1>5, <1>7, <2>1, <2>2 DEF Admits
  <2>4. own(source) \in Range(made)
    <3>1. PICK i \in DOMAIN stage.sources : source = stage.sources[i]
      BY <1>7 DEF Range
    <3>2. made = [k \in DOMAIN stage.sources |-> own(stage.sources[k])]
      BY <1>1, <1>8
    <3> HIDE DEF made
    <3> QED
      BY <3>1, <3>2 DEF Range
  <2> QED
    BY <2>3, <2>4
<1>9. CASE ~SourceSpecific(stage)
  <2>1. /\ plain.limit = Tighter(composed.limit, stage.limit)
        /\ plain.billing = Intersect(composed.billing, stage.billing)
        /\ plain.providers = Intersect(composed.providers, stage.providers)
        /\ plain.models = {s.model : s \in Range(stage.sources)}
    BY <1>9, PlainStageKeeps
  <2> HIDE DEF plain, composed, stage
  <2>2. /\ Allows(plain.providers, route.provider) /\ Allows(plain.billing, route.billing)
        /\ Within(plain.limit, route.price)
    <3>1. Allows(Intersect(composed.providers, stage.providers), route.provider)
      BY <1>5, <1>6, PolicyRules
    <3>2. Allows(Intersect(composed.billing, stage.billing), route.billing)
      BY <1>5, <1>6, PolicyRules
    <3>3. Within(Tighter(composed.limit, stage.limit), route.price)
      BY <1>2, <1>4, <1>5, <1>6, PolicyRules
    <3> QED
      BY <2>1, <3>1, <3>2, <3>3
  <2>3. Admits(plain, route)
    BY <1>7, <2>1, <2>2 DEF Admits
  <2>4. plain \in Range(made)
    <3>1. made = <<plain>>
      BY <1>1, <1>9
    <3> HIDE DEF made
    <3> QED
      BY <3>1 DEF Range
  <2> QED
    BY <2>3, <2>4
<1> QED
  BY <1>8, <1>9


-----------------------------------------------------------------------------
(* The recursion of Compile ends at the depth that is allowed. *)
LEMMA AbovesAre ==
    ASSUME NEW groups, NEW above
    PROVE  above \in Aboves(groups) <=> /\ above \in Seq(Positions(groups)) /\ Len(above) \leq MaximumDepth
                                        /\ GroupBelow(groups, above) \in DOMAIN groups
<1>0. MaximumDepth \in Nat
  BY PlanAssumption
<1>1. ASSUME above \in Seq(Positions(groups)), Len(above) \leq MaximumDepth
      PROVE  above \in UNION {[1 .. n -> Positions(groups)] : n \in 0 .. MaximumDepth}
  <2>1. above \in [1 .. Len(above) -> Positions(groups)] /\ Len(above) \in 0 .. MaximumDepth
    BY <1>0, <1>1, LenProperties
  <2> QED
    BY <2>1
<1>2. ASSUME above \in UNION {[1 .. n -> Positions(groups)] : n \in 0 .. MaximumDepth}
      PROVE  above \in Seq(Positions(groups)) /\ Len(above) \leq MaximumDepth
  <2>1. PICK n \in 0 .. MaximumDepth : above \in [1 .. n -> Positions(groups)]
    BY <1>2
  <2>2. n \in Nat /\ n \leq MaximumDepth
    BY <1>0
  <2>3. above \in Seq(Positions(groups))
    BY <2>1, <2>2, SeqDef
  <2>4. Len(above) = n
    BY <2>1, <2>2, <2>3, LenProperties
  <2> QED
    BY <2>2, <2>3, <2>4
<1> QED
  BY <1>1, <1>2 DEF Aboves

(* A nested group of the ladder is one that visit reaches.                                *)
LEMMA BelowNested ==
    ASSUME NEW groups, IsLadder(groups), NEW above \in Aboves(groups), Len(above) < MaximumDepth,
           NEW position \in Positions(groups),
           NestedAt(groups, position) \in DOMAIN groups
    PROVE  /\ Append(above, position) \in Aboves(groups) /\ Len(Append(above, position)) = Len(above) + 1
           /\ GroupBelow(groups, Append(above, position)) = NestedAt(groups, position)
<1> DEFINE path == Append(above, position)
<1>1. above \in Seq(Positions(groups)) /\ Len(above) \in Nat /\ MaximumDepth \in Nat
  BY AbovesAre, LenProperties, PlanAssumption
<1>2. /\ path \in Seq(Positions(groups)) /\ Len(path) = Len(above) + 1
      /\ path[Len(path)] = position
  BY <1>1, PathEnds
<1>3. path # <<>>
  BY <1>1, <1>2, EmptySeq
<1> HIDE DEF path
<1>4. GroupBelow(groups, path) = NestedAt(groups, position)
  BY <1>2, <1>3 DEF GroupBelow
<1>5. path \in Aboves(groups)
  BY <1>1, <1>2, <1>4, AbovesAre
<1> QED
  BY <1>2, <1>4, <1>5 DEF path

(* A visit looks only at the visits one stage deeper.                                      *)
LEMMA VisitLocal ==
    ASSUME NEW groups, IsLadder(groups), NEW above \in Aboves(groups), NEW f, NEW g,
           Len(above) < MaximumDepth =>
               \A below \in Aboves(groups) : Len(below) = Len(above) + 1 => f[below] = g[below]
    PROVE  VisitGroup(groups, f, above) = VisitGroup(groups, g, above)
<1> DEFINE slug == GroupBelow(groups, above)
           visited(h) == [i \in DOMAIN groups[slug].stages |-> VisitStage(groups, h, above, <<slug, i>>)]
<1>0. MaximumDepth \in Nat /\ Len(above) \in Nat
  BY PlanAssumption, AbovesAre, LenProperties
<1>1. CASE Len(above) >= MaximumDepth
  BY <1>1 DEF VisitGroup
<1>2. CASE Len(above) < MaximumDepth
  <2>1. ASSUME NEW i \in DOMAIN groups[slug].stages
        PROVE  VisitStage(groups, f, above, <<slug, i>>) = VisitStage(groups, g, above, <<slug, i>>)
    <3> DEFINE position == <<slug, i>>
    <3>1. position \in Positions(groups)
      <4>1. slug \in DOMAIN groups
        BY AbovesAre
      <4> HIDE DEF slug
      <4>2. position \in {slug} \X DOMAIN groups[slug].stages
        OBVIOUS
      <4> QED
        BY <4>1, <4>2 DEF Positions
    <3> HIDE DEF position
    <3>2. ASSUME NestedAt(groups, position) \in DOMAIN groups
          PROVE  f[Append(above, position)] = g[Append(above, position)]
      BY <1>2, <3>1, <3>2, BelowNested
    <3> QED
      BY <3>2 DEF VisitStage, position
  <2>2. visited(f) = visited(g)
    BY <2>1
  <2> DEFINE joined(parts) == [stages |-> FlattenSeq([i \in DOMAIN parts |-> parts[i].stages]),
                               errors |-> UNION {parts[i].errors : i \in DOMAIN parts}]
             cyclic == \E i \in DOMAIN above : above[i][1] = slug
  <2>3. ~(Len(above) >= MaximumDepth)
    BY <1>0, <1>2
  <2>4. \A h : VisitGroup(groups, h, above) = IF cyclic THEN Failed("group_cycle") ELSE joined(visited(h))
    BY <2>3 DEF VisitGroup
  <2> HIDE DEF joined, cyclic, visited
  <2> QED
    BY <2>2, <2>4
<1> QED
  BY <1>0, <1>1, <1>2

(* visit is a recursion, which the greatest depth bounds, so it has a solution.           *)
LEMMA VisitedUnfolds ==
    ASSUME NEW groups, IsLadder(groups)
    PROVE  \E v : /\ \A above \in Aboves(groups) : v[above] = VisitGroup(groups, v, above)
                  /\ Visited(groups) = v[<<>>]
<1>0. MaximumDepth \in Nat
  BY PlanAssumption
<1>1. \A above \in Aboves(groups) : Len(above) \in Nat /\ Len(above) \leq MaximumDepth
  BY AbovesAre, LenProperties
<1> DEFINE Deep(n) == {above \in Aboves(groups) : Len(above) + n >= MaximumDepth}
           Solves(f, n) == \A above \in Deep(n) : f[above] = VisitGroup(groups, f, above)
           S == {n \in Nat : \E f : Solves(f, n)}
<1>2. 0 \in S
  <2> DEFINE f == [above \in Aboves(groups) |-> Failed("group_depth_exceeded")]
  <2>1. ASSUME NEW above \in Deep(0) PROVE f[above] = VisitGroup(groups, f, above)
    <3>1. above \in Aboves(groups) /\ Len(above) >= MaximumDepth
      BY <1>1
    <3>2. f[above] = Failed("group_depth_exceeded")
      BY <3>1
    <3> HIDE DEF f
    <3> QED
      BY <3>1, <3>2 DEF VisitGroup
  <2> HIDE DEF f
  <2>2. Solves(f, 0)
    BY <2>1
  <2> QED
    BY <2>2
<1>3. ASSUME NEW n \in Nat, n \in S PROVE n + 1 \in S
  <2>1. PICK f : Solves(f, n)
    BY <1>3
  <2> DEFINE g == [above \in Aboves(groups) |-> IF above \in Deep(n) THEN f[above] ELSE VisitGroup(groups, f, above)]
  <2>2. ASSUME NEW above \in Deep(n + 1) PROVE g[above] = VisitGroup(groups, f, above)
    <3>1. above \in Aboves(groups)
      OBVIOUS
    <3> HIDE DEF Deep
    <3> QED
      BY <2>1, <3>1
  <2>3. ASSUME NEW above \in Deep(n + 1) PROVE VisitGroup(groups, f, above) = VisitGroup(groups, g, above)
    <3>1. above \in Aboves(groups) /\ Len(above) \in Nat /\ Len(above) + (n + 1) >= MaximumDepth
      BY <1>1
    <3>2. ASSUME NEW below \in Aboves(groups), Len(below) = Len(above) + 1 PROVE f[below] = g[below]
      <4>1. below \in Deep(n)
        BY <1>0, <3>1, <3>2
      <4> HIDE DEF Deep
      <4> QED
        BY <4>1
    <3> HIDE DEF g, Deep
    <3> QED
      BY <3>1, <3>2, VisitLocal
  <2> HIDE DEF g
  <2>4. Solves(g, n + 1)
    BY <2>2, <2>3
  <2> QED
    BY <2>4
<1>4. Nat \subseteq S
  <2> HIDE DEF S
  <2> QED
    BY <1>2, <1>3, Induction
<1>5. PICK f : Solves(f, MaximumDepth)
  BY <1>0, <1>4
<1>6. Deep(MaximumDepth) = Aboves(groups)
  BY <1>0, <1>1
<1> DEFINE Step(h) == [above \in Aboves(groups) |-> VisitGroup(groups, h, above)]
           g == [above \in Aboves(groups) |-> f[above]]
           v == CHOOSE v : v = Step(v)
<1>7. g = Step(g)
  <2>1. \A above \in Aboves(groups) : VisitGroup(groups, f, above) = VisitGroup(groups, g, above)
    <3> SUFFICES ASSUME NEW above \in Aboves(groups) PROVE VisitGroup(groups, f, above) = VisitGroup(groups, g, above)
      OBVIOUS
    <3>1. \A below \in Aboves(groups) : f[below] = g[below]
      OBVIOUS
    <3> HIDE DEF g
    <3> QED
      BY <3>1, VisitLocal
  <2>2. \A above \in Aboves(groups) : f[above] = VisitGroup(groups, f, above)
    BY <1>5, <1>6
  <2> HIDE DEF Deep, S
  <2> QED
    BY <2>1, <2>2
<1>8. v = Step(v)
  <2> HIDE DEF Step
  <2> QED
    BY <1>7
<1>9. Visited(groups) = v[<<>>]
  BY DEF Visited
<1> HIDE DEF v
<1>10. \A above \in Aboves(groups) : v[above] = VisitGroup(groups, v, above)
  BY <1>8
<1> QED
  BY <1>9, <1>10


(* Paths, and those that begin as a given one does. *)
Linked(groups, path) ==
    /\ path # <<>> => path[1][1] = Root
    /\ \A i \in 1 .. Len(path) - 1 :
           NestedAt(groups, path[i]) = path[i + 1][1] /\ groups[path[i + 1][1]].enabled
Leads(groups, above) ==
    /\ above \in Aboves(groups) /\ Linked(groups, above)
    /\ above # <<>> => groups[GroupBelow(groups, above)].enabled
Through(groups, above) ==
    {path \in Paths(groups) : Len(path) >= Len(above) /\ \A i \in 1 .. Len(above) : path[i] = above[i]}

(* A path is a linked sequence of positions that ends at a model stage.                  *)
LEMMA PathsAre ==
    ASSUME NEW groups, NEW path
    PROVE  path \in Paths(groups) <=> /\ path \in Seq(Positions(groups)) /\ Len(path) \in 1 .. MaximumDepth
                                      /\ Linked(groups, path) /\ ~Nests(StageAt(groups, path[Len(path)]))
<1>0. MaximumDepth \in Nat
  BY PlanAssumption
<1>1. ASSUME path \in Seq(Positions(groups)), Len(path) \in 1 .. MaximumDepth
      PROVE  path \in UNION {[1 .. n -> Positions(groups)] : n \in 1 .. MaximumDepth} /\ path # <<>>
  <2>1. path \in [1 .. Len(path) -> Positions(groups)] /\ path # <<>>
    BY <1>1, LenProperties, EmptySeq
  <2> QED
    BY <1>1, <2>1
<1>2. ASSUME path \in UNION {[1 .. n -> Positions(groups)] : n \in 1 .. MaximumDepth}
      PROVE  path \in Seq(Positions(groups)) /\ Len(path) \in 1 .. MaximumDepth
  <2>1. PICK n \in 1 .. MaximumDepth : path \in [1 .. n -> Positions(groups)]
    BY <1>2
  <2>2. n \in Nat
    BY <1>0
  <2>3. path \in Seq(Positions(groups))
    BY <2>1, <2>2, SeqDef
  <2>4. Len(path) = n
    BY <2>1, <2>2, <2>3, LenProperties
  <2> QED
    BY <2>3, <2>4
<1>3. path # <<>> => (IsPath(groups, path) <=> Linked(groups, path) /\ ~Nests(StageAt(groups, path[Len(path)])))
  BY DEF IsPath, Linked
<1>4. path \in Paths(groups) <=> /\ path \in UNION {[1 .. n -> Positions(groups)] : n \in 1 .. MaximumDepth}
                                 /\ IsPath(groups, path)
  BY DEF Paths
<1> QED
  BY <1>1, <1>2, <1>3, <1>4

(* A path is a sequence of positions.                                                     *)
LEMMA PositionsOfPaths ==
    ASSUME NEW groups, IsLadder(groups), NEW path \in Paths(groups)
    PROVE  /\ Len(path) \in Nat /\ DOMAIN path = 1 .. Len(path)
           /\ \A i \in 1 .. Len(path) : path[i] \in Positions(groups) /\ path[i][2] \in Nat
<1>1. path \in Seq(Positions(groups))
  BY PathsAre
<1>2. Len(path) \in Nat /\ DOMAIN path = 1 .. Len(path) /\ \A i \in 1 .. Len(path) : path[i] \in Positions(groups)
  BY <1>1, LenProperties, ElementOfSeq
<1>3. \A position \in Positions(groups) : position[2] \in Nat
  BY PositionsHaveStages DEF IsLadder, IsList
<1> QED
  BY <1>2, <1>3

(* A path is not before one that turned off earlier in the same group.                    *)
LEMMA InItsPlace ==
    ASSUME NEW groups, IsLadder(groups), NEW p \in Paths(groups), NEW q \in Paths(groups), NEW k \in Nat,
           k \in DOMAIN p, k \in DOMAIN q, \A m \in 1 .. k - 1 : p[m] = q[m], q[k][2] < p[k][2]
    PROVE  ~Before(p, q)
<1>1. /\ Len(p) \in Nat /\ DOMAIN p = 1 .. Len(p) /\ Len(q) \in Nat /\ DOMAIN q = 1 .. Len(q)
      /\ \A i \in 1 .. Len(p) : p[i][2] \in Nat
      /\ \A i \in 1 .. Len(q) : q[i][2] \in Nat
  BY PositionsOfPaths
<1> SUFFICES ASSUME NEW n \in DOMAIN p \cap DOMAIN q, p[n][2] < q[n][2], \A m \in 1 .. n - 1 : p[m] = q[m]
             PROVE  FALSE
  BY DEF Before
<1>2. n \in Nat /\ n >= 1 /\ k >= 1
  BY <1>1
<1>3. CASE n < k
  <2>1. p[n] = q[n]
    BY <1>2, <1>3
  <2> QED
    BY <1>1, <2>1
<1>4. CASE n = k
  BY <1>1, <1>4
<1>5. CASE n > k
  <2>1. p[k] = q[k]
    BY <1>2, <1>5
  <2> QED
    BY <1>1, <2>1
<1> QED
  BY <1>2, <1>3, <1>4, <1>5

(* No path is before itself.                                                              *)
LEMMA NotBeforeItself ==
    ASSUME NEW groups, IsLadder(groups), NEW p \in Paths(groups)
    PROVE  ~Before(p, p)
BY PositionsOfPaths DEF Before

(* Stages above a group and a stage of the group are linked.                             *)
LEMMA LinkedOn ==
    ASSUME NEW groups, IsLadder(groups), NEW above, Leads(groups, above),
           NEW position \in Positions(groups),
           position[1] = GroupBelow(groups, above)
    PROVE  Linked(groups, Append(above, position))
<1> DEFINE path == Append(above, position)
           n == Len(above)
<1>1. above \in Seq(Positions(groups))
  BY AbovesAre DEF Leads
<1>2. /\ Len(path) = n + 1 /\ n \in Nat /\ path[n + 1] = position
      /\ \A i \in 1 .. n : path[i] = above[i]
  BY <1>1, PathEnds
<1>3. above = <<>> <=> n = 0
  BY <1>1, EmptySeq
<1> HIDE DEF path
<1>4. path[1][1] = Root
  <2>1. CASE n = 0
    BY <1>2, <1>3, <2>1 DEF GroupBelow
  <2>2. CASE n # 0
    <3>1. 1 \in 1 .. n
      BY <1>2, <2>2
    <3> QED
      BY <1>2, <1>3, <2>2, <3>1 DEF Leads, Linked
  <2> QED
    BY <2>1, <2>2
<1>5. ASSUME NEW i \in 1 .. Len(path) - 1
      PROVE  NestedAt(groups, path[i]) = path[i + 1][1] /\ groups[path[i + 1][1]].enabled
  <2>1. i \in 1 .. n /\ n # 0
    BY <1>2
  <2>2. CASE i = n
    BY <1>2, <1>3, <2>1, <2>2 DEF Leads, GroupBelow
  <2>3. CASE i # n
    <3>1. i \in 1 .. n - 1 /\ i + 1 \in 1 .. n
      BY <1>2, <2>1, <2>3
    <3> QED
      BY <1>2, <2>1, <3>1 DEF Leads, Linked
  <2> QED
    BY <2>2, <2>3
<1> QED
  BY <1>4, <1>5 DEF Linked, path

(* A position whose group is one of the ladder is that of a nesting stage.               *)
LEMMA NestsWithinLadder ==
    ASSUME NEW groups, IsLadder(groups), NEW position
    PROVE  NestedAt(groups, position) \in DOMAIN groups => Nests(StageAt(groups, position))
BY DEF IsLadder, NestedAt, Nests

(* A path that begins with all stages above a group goes on in that group. *)
LEMMA ThroughGroup ==
    ASSUME NEW groups, IsLadder(groups), NEW above, Leads(groups, above),
           NEW path \in Through(groups, above)
    PROVE  \E i \in DOMAIN groups[GroupBelow(groups, above)].stages :
               path \in Through(groups, Append(above, <<GroupBelow(groups, above), i>>))
<1> DEFINE n == Len(above)
           slug == GroupBelow(groups, above)
           next == path[n + 1]
<1>1. above \in Seq(Positions(groups)) /\ slug \in DOMAIN groups /\ n \in Nat /\ (above = <<>> <=> n = 0)
  BY AbovesAre, EmptySeq, LenProperties DEF Leads
<1>2. /\ path \in Paths(groups) /\ Len(path) >= n /\ (\A i \in 1 .. n : path[i] = above[i])
      /\ Linked(groups, path) /\ ~Nests(StageAt(groups, path[Len(path)])) /\ Len(path) >= 1 /\ Len(path) \in Nat
      /\ path # <<>>
  <2>1. path \in Paths(groups) /\ Len(path) >= n /\ \A i \in 1 .. n : path[i] = above[i]
    BY DEF Through
  <2>2. Len(path) \in 1 .. MaximumDepth /\ path \in Seq(Positions(groups))
    BY <2>1, PathsAre
  <2>3. Len(path) \in Nat /\ Len(path) >= 1 /\ path # <<>>
    BY <2>2, EmptySeq, LenProperties
  <2> QED
    BY <2>1, <2>3, PathsAre
<1>3. Len(path) > n
  <2>1. CASE n = 0
    BY <1>2, <2>1
  <2>2. CASE n # 0
    <3>1. n \in 1 .. n /\ above # <<>>
      BY <1>1, <2>2
    <3>2. NestedAt(groups, above[n]) \in DOMAIN groups /\ path[n] = above[n]
      BY <1>1, <1>2, <3>1 DEF GroupBelow
    <3>3. Nests(StageAt(groups, path[n]))
      BY <3>2, NestsWithinLadder
    <3> QED
      BY <1>1, <1>2, <3>3
  <2> QED
    BY <2>1, <2>2
<1>4. next \in Positions(groups)
  BY <1>1, <1>2, <1>3, PositionsOfPaths
<1>5. next[1] = slug
  <2>1. CASE n = 0
    BY <1>1, <1>2, <2>1 DEF Linked, GroupBelow
  <2>2. CASE n # 0
    <3>1. n \in 1 .. Len(path) - 1 /\ n \in 1 .. n
      BY <1>1, <1>2, <1>3, <2>2
    <3> QED
      BY <1>1, <1>2, <2>2, <3>1 DEF Linked, GroupBelow
  <2> QED
    BY <2>1, <2>2
<1>6. next = <<slug, next[2]>> /\ next[2] \in DOMAIN groups[slug].stages
  BY <1>4, <1>5, PositionsHaveStages
<1>7. /\ Len(Append(above, next)) = n + 1 /\ Append(above, next)[n + 1] = next
      /\ \A i \in 1 .. n : Append(above, next)[i] = above[i]
  BY <1>1, <1>4, PathEnds
<1>8. path \in Through(groups, Append(above, next))
  <2>1. ASSUME NEW i \in 1 .. n + 1 PROVE path[i] = Append(above, next)[i]
    <3>1. i = n + 1 \/ i \in 1 .. n
      BY <1>1
    <3> QED
      BY <1>2, <1>7, <3>1
  <2>2. Len(path) >= n + 1
    BY <1>1, <1>2, <1>3
  <2> HIDE DEF next
  <2> QED
    BY <1>2, <1>7, <2>1, <2>2 DEF Through
<1> QED
  BY <1>6, <1>8


(* What is flattened: stages of the paths below, in their order, which keep what the     *)
(* paths say, and which let through what all stages of a path do.                         *)
InOrder(groups) == {r \in Stages(groups) \X Stages(groups) : ~Before(r[2].path, r[1].path)}
Covers(groups, stages, path) ==
    \A route : route.price \in Nat /\ Honours(groups, path, route) /\ WithinLimits(groups, path, route) =>
                   \E e \in Range(stages) : Admits(e, route)
Flattens(groups, result, above) ==
    result.errors = {} =>
        /\ result.stages \in Seq(Stages(groups))
        /\ \A e \in Range(result.stages) : e.path \in Through(groups, above) /\ Keeps(groups, e, e.path)
        /\ \A path \in Through(groups, above) : Covers(groups, result.stages, path)
        /\ Sorted(result.stages, InOrder(groups))

(* Visiting a stage flattens it when the visits one stage deeper do.                     *)
LEMMA StageFlattens ==
    ASSUME NEW groups, IsLadder(groups), NEW above, Leads(groups, above), Len(above) < MaximumDepth,
           NEW position \in Positions(groups), position[1] = GroupBelow(groups, above), NEW below,
           \A deeper : Leads(groups, deeper) /\ Len(deeper) = Len(above) + 1 => Flattens(groups, below[deeper], deeper)
    PROVE  Flattens(groups, VisitStage(groups, below, above, position), Append(above, position))
<1> DEFINE path == Append(above, position)
           n == Len(above)
           result == VisitStage(groups, below, above, position)
           through == Through(groups, path)
<1>1. above \in Aboves(groups) /\ above \in Seq(Positions(groups)) /\ n \in Nat /\ MaximumDepth \in Nat
  BY AbovesAre, LenProperties, PlanAssumption DEF Leads
<1>2. /\ path \in Seq(Positions(groups)) /\ Len(path) = n + 1 /\ path[n + 1] = position
      /\ Linked(groups, path)
  BY <1>1, PathEnds, LinkedOn
<1>3. ASSUME NEW p \in through
      PROVE  /\ p \in Paths(groups) /\ Len(p) \in Nat /\ Len(p) >= n + 1 /\ p[n + 1] = position
             /\ \A i \in 1 .. n + 1 : p[i] = path[i]
             /\ Len(p) > n + 1 => /\ NestedAt(groups, position) \in DOMAIN groups
                                  /\ groups[NestedAt(groups, position)].enabled
  <2> HIDE DEF path
  <2>1. p \in Paths(groups) /\ Len(p) >= n + 1 /\ \A i \in 1 .. n + 1 : p[i] = path[i]
    BY <1>2 DEF Through
  <2>2. p[n + 1] = position
    BY <1>1, <1>2, <2>1
  <2>3. Len(p) \in Nat /\ Linked(groups, p) /\ \A i \in 1 .. Len(p) : p[i] \in Positions(groups)
    BY <2>1, PathsAre, PositionsOfPaths
  <2>4. ASSUME Len(p) > n + 1
        PROVE  NestedAt(groups, position) \in DOMAIN groups /\ groups[NestedAt(groups, position)].enabled
    <3>1. n + 1 \in 1 .. Len(p) - 1 /\ (n + 1) + 1 \in 1 .. Len(p)
      BY <1>1, <2>3, <2>4
    <3>2. NestedAt(groups, p[n + 1]) = p[(n + 1) + 1][1] /\ groups[p[(n + 1) + 1][1]].enabled
      BY <2>3, <3>1 DEF Linked
    <3>3. p[(n + 1) + 1][1] \in DOMAIN groups
      BY <2>3, <3>1, PositionsHaveStages
    <3> QED
      BY <2>2, <3>2, <3>3
  <2> QED
    BY <2>1, <2>2, <2>3, <2>4
<1> SUFFICES ASSUME result.errors = {} PROVE Flattens(groups, result, path)
  BY DEF Flattens
<1>4. CASE ~Nests(StageAt(groups, position))
  <2>1. result = Flattened(ModelStages(groups, above, position))
    BY <1>4 DEF VisitStage
  <2>2. result.stages = ModelStages(groups, above, position)
    BY <2>1 DEF Flattened
  <2>3. /\ result.stages \in Seq(Stages(groups))
        /\ \A e \in Range(result.stages) : Keeps(groups, e, path)
    BY <1>1, <2>2, ModelStagesKeep
  <2>4. path \in Paths(groups)
    <3>1. Len(path) \in 1 .. MaximumDepth /\ path[Len(path)] = position
      BY <1>1, <1>2
    <3> HIDE DEF path
    <3> QED
      BY <1>2, <1>4, <3>1, PathsAre
  <2>5. path \in through
    <3>1. Len(path) >= Len(path)
      BY <1>1, <1>2
    <3> HIDE DEF path
    <3> QED
      BY <2>4, <3>1 DEF Through
  <2>6. \A p \in through : p = path
    <3> SUFFICES ASSUME NEW p \in through PROVE p = path
      OBVIOUS
    <3>1. NestedAt(groups, position) \notin DOMAIN groups
      BY <1>4, NestsWithinLadder
    <3>2. p \in Paths(groups) /\ Len(p) = n + 1 /\ \A i \in 1 .. n + 1 : p[i] = path[i]
      BY <1>1, <1>3, <3>1
    <3>3. p \in Seq(Positions(groups))
      BY <3>2, PathsAre
    <3> HIDE DEF path, through
    <3> QED
      BY <1>2, <3>2, <3>3, SeqEqual
  <2>7. Covers(groups, ModelStages(groups, above, position), path)
    BY <1>1, ModelStagesAdmit DEF Covers
  <2>8. \A e \in Range(result.stages) : e.path = path
    BY <2>3 DEF Keeps
  <2>9. Sorted(result.stages, InOrder(groups))
    <3>1. ~Before(path, path)
      BY <2>4, NotBeforeItself
    <3> SUFFICES ASSUME NEW k \in 1 .. Len(result.stages), NEW l \in 1 .. Len(result.stages)
                 PROVE  <<result.stages[k], result.stages[l]>> \in InOrder(groups)
      BY DEF Sorted
    <3> DEFINE a == result.stages[k]
               b == result.stages[l]
    <3>2. a \in Stages(groups) /\ b \in Stages(groups) /\ a \in Range(result.stages) /\ b \in Range(result.stages)
      BY <2>3, LenProperties, ElementOfSeq DEF Range
    <3>3. a.path = path /\ b.path = path
      BY <2>8, <3>2
    <3> HIDE DEF a, b, result
    <3>4. <<a, b>> \in InOrder(groups)
      BY <3>1, <3>2, <3>3 DEF InOrder
    <3> QED
      BY <3>4 DEF a, b
  <2> HIDE DEF result, path
  <2> QED
    BY <2>2, <2>3, <2>5, <2>6, <2>7, <2>8, <2>9 DEF Flattens
<1>5. CASE Nests(StageAt(groups, position)) /\ NestedAt(groups, position) \notin DOMAIN groups
  <2>1. result.errors = {"group_not_found"}
    BY <1>5 DEF VisitStage, Failed
  <2> QED
    BY <2>1
<1>6. CASE /\ Nests(StageAt(groups, position)) /\ NestedAt(groups, position) \in DOMAIN groups
           /\ ~groups[NestedAt(groups, position)].enabled
  <2>1. result.stages = <<>>
    BY <1>6 DEF VisitStage, Flattened
  <2>2. through = {}
    <3> SUFFICES ASSUME NEW p \in through PROVE FALSE
      OBVIOUS
    <3>1. Len(p) = n + 1
      BY <1>1, <1>3, <1>6
    <3>2. ~Nests(StageAt(groups, p[Len(p)])) /\ p[n + 1] = position
      BY <1>3, PathsAre
    <3> QED
      BY <1>6, <3>1, <3>2
  <2>3. Range(<<>>) = {} /\ <<>> \in Seq(Stages(groups)) /\ Len(<<>>) = 0
    BY EmptySeq DEF Range
  <2>4. Sorted(<<>>, InOrder(groups))
    BY <2>3 DEF Sorted
  <2> HIDE DEF result, through
  <2> QED
    BY <2>1, <2>2, <2>3, <2>4 DEF Flattens, through
<1>7. CASE /\ Nests(StageAt(groups, position)) /\ NestedAt(groups, position) \in DOMAIN groups
           /\ groups[NestedAt(groups, position)].enabled
  <2>1. result = below[path]
    BY <1>7 DEF VisitStage
  <2>2. path \in Aboves(groups) /\ GroupBelow(groups, path) = NestedAt(groups, position)
    BY <1>1, <1>7, BelowNested
  <2>3. Leads(groups, path)
    BY <1>2, <1>7, <2>2 DEF Leads
  <2> QED
    BY <1>2, <2>1, <2>3
<1> QED
  BY <1>4, <1>5, <1>6, <1>7


(* Visiting a group flattens it when the visits one stage deeper do.                     *)
LEMMA GroupFlattens ==
    ASSUME NEW groups, IsLadder(groups), NEW above, Leads(groups, above), NEW below,
           Len(above) < MaximumDepth => \A deeper :
               Leads(groups, deeper) /\ Len(deeper) = Len(above) + 1 => Flattens(groups, below[deeper], deeper)
    PROVE  Flattens(groups, VisitGroup(groups, below, above), above)
<1> DEFINE slug == GroupBelow(groups, above)
           n == Len(above)
           k == Len(groups[slug].stages)
           part(i) == VisitStage(groups, below, above, <<slug, i>>)
           parts == [i \in DOMAIN groups[slug].stages |-> part(i)]
           ss == [i \in DOMAIN parts |-> parts[i].stages]
           result == VisitGroup(groups, below, above)
           path(i) == Append(above, <<slug, i>>)
<1>1. /\ above \in Aboves(groups) /\ above \in Seq(Positions(groups)) /\ n \in Nat /\ MaximumDepth \in Nat
      /\ slug \in DOMAIN groups
  BY AbovesAre, LenProperties, PlanAssumption DEF Leads
<1>2. k \in Nat /\ DOMAIN groups[slug].stages = 1 .. k
  BY <1>1 DEF IsLadder, IsList
<1> SUFFICES ASSUME result.errors = {} PROVE Flattens(groups, result, above)
  BY DEF Flattens
<1>3. Len(above) < MaximumDepth
  <2> SUFFICES ASSUME Len(above) >= MaximumDepth PROVE FALSE
    BY <1>1
  <2>1. result = Failed("group_depth_exceeded")
    BY DEF VisitGroup
  <2> QED
    BY <2>1 DEF Failed
<1>4. result = [stages |-> FlattenSeq(ss), errors |-> UNION {parts[i].errors : i \in DOMAIN parts}]
  <2> DEFINE cyclic == \E i \in DOMAIN above : above[i][1] = slug
             joined == [stages |-> FlattenSeq(ss), errors |-> UNION {parts[i].errors : i \in DOMAIN parts}]
  <2>1. ~(Len(above) >= MaximumDepth)
    BY <1>1, <1>3
  <2>2. result = IF cyclic THEN Failed("group_cycle") ELSE joined
    BY <2>1 DEF VisitGroup
  <2>3. ~cyclic
    <3> HIDE DEF cyclic, joined
    <3> SUFFICES ASSUME cyclic PROVE FALSE
      OBVIOUS
    <3>1. result.errors = {"group_cycle"}
      BY <2>2 DEF Failed
    <3> HIDE DEF result
    <3> QED
      BY <3>1
  <2> HIDE DEF cyclic, joined, result
  <2>4. result = joined
    BY <2>2, <2>3
  <2> QED
    BY <2>4 DEF joined
<1>5. DOMAIN parts = 1 .. k /\ \A i \in 1 .. k : parts[i] = part(i)
  BY <1>2
<1>6. \A i \in 1 .. k : <<slug, i>> \in Positions(groups)
  <2> SUFFICES ASSUME NEW i \in 1 .. k PROVE <<slug, i>> \in Positions(groups)
    OBVIOUS
  <2> HIDE DEF slug
  <2>1. <<slug, i>> \in {slug} \X DOMAIN groups[slug].stages
    BY <1>2
  <2> QED
    BY <1>1, <2>1 DEF Positions
<1>7. \A i \in 1 .. k : Flattens(groups, part(i), path(i))
  <2> SUFFICES ASSUME NEW i \in 1 .. k PROVE Flattens(groups, part(i), path(i))
    OBVIOUS
  <2>1. <<slug, i>>[1] = GroupBelow(groups, above)
    OBVIOUS
  <2> QED
    BY <1>3, <1>6, <2>1, StageFlattens
<1>8. \A i \in 1 .. k : part(i).errors = {}
  <2> HIDE DEF part
  <2>1. UNION {parts[i].errors : i \in DOMAIN parts} = {}
    BY <1>4
  <2> HIDE DEF parts
  <2> QED
    BY <1>5, <2>1
<1>9. \A i \in 1 .. k :
          /\ part(i).stages \in Seq(Stages(groups)) /\ Sorted(part(i).stages, InOrder(groups))
          /\ \A e \in Range(part(i).stages) : e.path \in Through(groups, path(i)) /\ Keeps(groups, e, e.path)
          /\ \A p \in Through(groups, path(i)) : Covers(groups, part(i).stages, p)
  <2> HIDE DEF part, path
  <2> QED
    BY <1>7, <1>8 DEF Flattens
<1>10. ss \in Seq(Seq(Stages(groups))) /\ Len(ss) = k /\ \A i \in 1 .. k : ss[i] = part(i).stages
  <2> HIDE DEF part, parts
  <2>1. ss = [i \in 1 .. k |-> parts[i].stages]
    BY <1>5
  <2>2. \A i \in 1 .. k : parts[i].stages = part(i).stages /\ part(i).stages \in Seq(Stages(groups))
    BY <1>5, <1>9
  <2> HIDE DEF ss
  <2>3. ss \in [1 .. k -> Seq(Stages(groups))]
    BY <2>1, <2>2
  <2>4. ss \in Seq(Seq(Stages(groups)))
    BY <1>2, <2>3, SeqDef
  <2>5. Len(ss) = k
    BY <1>2, <2>3, <2>4, LenProperties
  <2> QED
    BY <2>1, <2>2, <2>4, <2>5
<1> HIDE DEF part, parts, ss, result, slug
<1>11. result.stages = FlattenSeq(ss)
  BY <1>4
<1>12. /\ FlattenSeq(ss) \in Seq(Stages(groups))
       /\ \A x \in Range(FlattenSeq(ss)) : \E i \in 1 .. k : x \in Range(part(i).stages)
       /\ \A i \in 1 .. k : \A x \in Range(part(i).stages) : x \in Range(FlattenSeq(ss))
  BY <1>10, FlattenElements
<1>13. ASSUME NEW i \in 1 .. k, NEW p \in Through(groups, path(i))
       PROVE  /\ p \in Through(groups, above) /\ p \in Paths(groups) /\ p[n + 1] = <<slug, i>> /\ Len(p) \in Nat
              /\ Len(p) >= n + 1 /\ DOMAIN p = 1 .. Len(p) /\ \A m \in 1 .. n : p[m] = above[m]
  <2>1. /\ Len(path(i)) = n + 1 /\ path(i)[n + 1] = <<slug, i>>
        /\ \A m \in 1 .. n : path(i)[m] = above[m]
    BY <1>1, <1>6, PathEnds
  <2> HIDE DEF path
  <2>2. p \in Paths(groups) /\ Len(p) >= n + 1 /\ \A m \in 1 .. n + 1 : p[m] = path(i)[m]
    BY <2>1 DEF Through
  <2>3. Len(p) \in Nat /\ DOMAIN p = 1 .. Len(p)
    BY <2>2, PositionsOfPaths
  <2>4. n + 1 \in 1 .. n + 1 /\ 1 .. n \subseteq 1 .. n + 1
    BY <1>1
  <2>5. p[n + 1] = <<slug, i>> /\ \A m \in 1 .. n : p[m] = above[m]
    BY <2>1, <2>2, <2>4
  <2>6. p \in Through(groups, above)
    BY <1>1, <2>2, <2>3, <2>5 DEF Through
  <2> QED
    BY <2>2, <2>3, <2>5, <2>6
<1>14. ASSUME NEW e \in Range(result.stages) PROVE e.path \in Through(groups, above) /\ Keeps(groups, e, e.path)
  BY <1>9, <1>11, <1>12, <1>13
<1>15. ASSUME NEW p \in Through(groups, above) PROVE Covers(groups, result.stages, p)
  <2>1. PICK i \in 1 .. k : p \in Through(groups, path(i))
    BY <1>2, ThroughGroup DEF slug
  <2>2. Covers(groups, part(i).stages, p)
    BY <1>9, <2>1
  <2> QED
    BY <1>11, <1>12, <2>2 DEF Covers
<1>16. ASSUME NEW i \in 1 .. k, NEW j \in 1 .. k, i < j,
              NEW x \in Range(part(i).stages), NEW y \in Range(part(j).stages)
       PROVE  <<x, y>> \in InOrder(groups)
  <2> DEFINE p == y.path
             q == x.path
  <2>1. /\ p \in Paths(groups) /\ p[n + 1] = <<slug, j>> /\ n + 1 \in DOMAIN p
        /\ \A m \in 1 .. n : p[m] = above[m]
    <3>1. p \in Through(groups, path(j))
      BY <1>9
    <3> HIDE DEF p, path
    <3> QED
      BY <1>1, <1>13, <3>1
  <2>2. /\ q \in Paths(groups) /\ q[n + 1] = <<slug, i>> /\ n + 1 \in DOMAIN q
        /\ \A m \in 1 .. n : q[m] = above[m]
    <3>1. q \in Through(groups, path(i))
      BY <1>9
    <3> HIDE DEF q, path
    <3> QED
      BY <1>1, <1>13, <3>1
  <2>3. x \in Stages(groups) /\ y \in Stages(groups)
    <3>1. part(i).stages \in Seq(Stages(groups)) /\ part(j).stages \in Seq(Stages(groups))
      BY <1>9
    <3> QED
      BY <3>1, RangeOfSeq
  <2> HIDE DEF p, q
  <2>4. n + 1 \in Nat /\ (n + 1) - 1 = n
    BY <1>1
  <2>5. q[n + 1][2] < p[n + 1][2]
    BY <1>16, <2>1, <2>2
  <2>6. \A m \in 1 .. (n + 1) - 1 : p[m] = q[m]
    BY <2>1, <2>2, <2>4
  <2>7. ~Before(p, q)
    BY <2>1, <2>2, <2>4, <2>5, <2>6, InItsPlace
  <2> QED
    BY <2>3, <2>7 DEF InOrder, p, q
<1>17. Sorted(FlattenSeq(ss), InOrder(groups))
  <2>1. \A i \in 1 .. Len(ss) : Sorted(ss[i], InOrder(groups))
    BY <1>9, <1>10
  <2>2. \A i, j \in 1 .. Len(ss) : i < j =>
            \A x \in Range(ss[i]), y \in Range(ss[j]) : <<x, y>> \in InOrder(groups)
    BY <1>10, <1>16
  <2> QED
    BY <1>10, <2>1, <2>2, FlattenInOrder
<1> QED
  BY <1>11, <1>12, <1>14, <1>15, <1>17 DEF Flattens, result

(* The root is reached by taking no stage at all. *)
LEMMA RootLeads ==
    ASSUME NEW groups, IsLadder(groups)
    PROVE  Leads(groups, <<>>)
<1>0. MaximumDepth \in Nat
  BY PlanAssumption
<1>1. <<>> \in Seq(Positions(groups)) /\ Len(<<>>) = 0
  BY EmptySeq
<1>2. GroupBelow(groups, <<>>) = Root /\ Root \in DOMAIN groups
  BY DEF GroupBelow, IsLadder
<1>3. <<>> \in Aboves(groups)
  <2>1. Len(<<>>) \leq MaximumDepth
    BY <1>0, <1>1
  <2>2. GroupBelow(groups, <<>>) \in DOMAIN groups
    BY <1>2
  <2> QED
    BY <1>1, <2>1, <2>2, AbovesAre
<1>4. 1 .. Len(<<>>) - 1 = {}
  BY <1>1
<1> QED
  BY <1>3, <1>4 DEF Leads, Linked

(* By induction on the depth that is left, the visit of the root flattens the ladder.    *)
LEMMA VisitedFlattens ==
    ASSUME NEW groups, IsLadder(groups)
    PROVE  Flattens(groups, Visited(groups), <<>>)
<1>0. MaximumDepth \in Nat
  BY PlanAssumption
<1>1. PICK v : /\ \A above \in Aboves(groups) : v[above] = VisitGroup(groups, v, above)
               /\ Visited(groups) = v[<<>>]
  BY VisitedUnfolds
<1> DEFINE S == {n \in Nat : \A above : Leads(groups, above) /\ Len(above) + n >= MaximumDepth
                                            => Flattens(groups, v[above], above)}
<1>2. \A above : Leads(groups, above) => above \in Aboves(groups) /\ Len(above) \in Nat
  BY AbovesAre, LenProperties DEF Leads
<1>3. 0 \in S
  <2> SUFFICES ASSUME NEW above, Leads(groups, above), Len(above) + 0 >= MaximumDepth
               PROVE  Flattens(groups, v[above], above)
    OBVIOUS
  <2>1. ~(Len(above) < MaximumDepth) /\ above \in Aboves(groups)
    BY <1>0, <1>2
  <2>2. Flattens(groups, VisitGroup(groups, v, above), above)
    BY <2>1, GroupFlattens
  <2> QED
    BY <1>1, <2>1, <2>2
<1>4. ASSUME NEW n \in Nat, n \in S PROVE n + 1 \in S
  <2> SUFFICES ASSUME NEW above, Leads(groups, above), Len(above) + (n + 1) >= MaximumDepth
               PROVE  Flattens(groups, v[above], above)
    OBVIOUS
  <2>1. Len(above) \in Nat /\ above \in Aboves(groups)
    BY <1>2
  <2>2. ASSUME NEW deeper, Leads(groups, deeper), Len(deeper) = Len(above) + 1
        PROVE  Flattens(groups, v[deeper], deeper)
    BY <1>0, <1>4, <2>1, <2>2
  <2>3. Flattens(groups, VisitGroup(groups, v, above), above)
    BY <2>2, GroupFlattens
  <2> QED
    BY <1>1, <2>1, <2>3
<1>5. Nat \subseteq S
  <2> HIDE DEF S
  <2> QED
    BY <1>3, <1>4, Induction
<1>6. Leads(groups, <<>>)
  BY RootLeads
<1>7. Flattens(groups, v[<<>>], <<>>)
  <2>1. MaximumDepth \in S /\ Len(<<>>) + MaximumDepth >= MaximumDepth
    BY <1>0, <1>5, EmptySeq
  <2> QED
    BY <1>6, <2>1
<1> QED
  BY <1>1, <1>7


-----------------------------------------------------------------------------
(* The entries of a plan. *)
EntryOf(stage, route) == [path |-> stage.path, route |-> route, retries |-> stage.retries]
Entries(groups) == {EntryOf(stage, route) : stage \in Stages(groups), route \in Range(Routes)}
EntryOrder(groups) == {r \in Entries(groups) \X Entries(groups) : ~Before(r[2].path, r[1].path)}

(* The entries of a stage are the routes that it admits.                                 *)
LEMMA EntriesOfStage ==
    ASSUME NEW groups, NEW stage \in Stages(groups)
    PROVE  /\ EntriesOf(stage) \in Seq(Entries(groups))
           /\ \A x \in Range(EntriesOf(stage)) : \E route \in Range(Routes) :
                  Admits(stage, route) /\ x = EntryOf(stage, route)
           /\ \A route \in Range(Routes) :
                  Admits(stage, route) => EntryOf(stage, route) \in Range(EntriesOf(stage))
<1> DEFINE piece(i) == IF Admits(stage, Routes[i]) THEN <<EntryOf(stage, Routes[i])>> ELSE <<>>
           ss == [i \in DOMAIN Routes |-> piece(i)]
           k == Len(Routes)
<1>1. k \in Nat /\ DOMAIN Routes = 1 .. k /\ \A i \in 1 .. k : Routes[i] \in Range(Routes)
  BY PlanAssumption DEF IsList, Range
<1>2. \A route \in Range(Routes) : \E i \in 1 .. k : route = Routes[i]
  BY <1>1 DEF Range
<1>3. EntriesOf(stage) = FlattenSeq(ss)
  BY DEF EntriesOf, EntryOf
<1>4. ASSUME NEW i \in 1 .. k
      PROVE  /\ piece(i) \in Seq(Entries(groups))
             /\ Range(piece(i)) = IF Admits(stage, Routes[i]) THEN {EntryOf(stage, Routes[i])} ELSE {}
  <2>1. EntryOf(stage, Routes[i]) \in Entries(groups)
    BY <1>1 DEF Entries
  <2>2. \A e : Range(<<e>>) = {e}
    BY DEF Range
  <2>3. Range(<<>>) = {} /\ <<>> \in Seq(Entries(groups))
    BY EmptySeq DEF Range
  <2>4. <<EntryOf(stage, Routes[i])>> \in Seq(Entries(groups))
    BY <2>1
  <2>5. CASE Admits(stage, Routes[i])
    BY <2>2, <2>4, <2>5
  <2>6. CASE ~Admits(stage, Routes[i])
    BY <2>3, <2>6
  <2> QED
    BY <2>5, <2>6
<1> HIDE DEF piece
<1>5. ss \in Seq(Seq(Entries(groups))) /\ Len(ss) = k /\ \A i \in 1 .. k : ss[i] = piece(i)
  <2>1. ss \in [1 .. k -> Seq(Entries(groups))] /\ \A i \in 1 .. k : ss[i] = piece(i)
    BY <1>1, <1>4
  <2> HIDE DEF ss
  <2>2. ss \in Seq(Seq(Entries(groups)))
    BY <1>1, <2>1, SeqDef
  <2> QED
    BY <1>1, <2>1, <2>2, LenProperties
<1> HIDE DEF ss
<1>6. /\ FlattenSeq(ss) \in Seq(Entries(groups))
      /\ \A x \in Range(FlattenSeq(ss)) : \E i \in 1 .. k : x \in Range(piece(i))
      /\ \A i \in 1 .. k : \A x \in Range(piece(i)) : x \in Range(FlattenSeq(ss))
  BY <1>5, FlattenElements
<1>7. ASSUME NEW x \in Range(EntriesOf(stage))
      PROVE  \E route \in Range(Routes) : Admits(stage, route) /\ x = EntryOf(stage, route)
  <2>1. PICK i \in 1 .. k : x \in Range(piece(i))
    BY <1>3, <1>6
  <2>2. Admits(stage, Routes[i]) /\ x = EntryOf(stage, Routes[i])
    BY <1>4, <2>1
  <2> QED
    BY <1>1, <2>2
<1>8. ASSUME NEW route \in Range(Routes), Admits(stage, route)
      PROVE  EntryOf(stage, route) \in Range(EntriesOf(stage))
  <2>1. PICK i \in 1 .. k : route = Routes[i]
    BY <1>2
  <2>2. EntryOf(stage, route) \in Range(piece(i))
    BY <1>4, <1>8, <2>1
  <2> QED
    BY <1>3, <1>6, <2>2
<1> QED
  BY <1>3, <1>6, <1>7, <1>8

(* Once keeps the order and every route. *)
LEMMA OnceKeeps ==
    ASSUME NEW groups, NEW entries \in Seq(Entries(groups)), NEW R
    PROVE  /\ Once(entries) \in Seq(Entries(groups))
           /\ \A x \in Range(Once(entries)) : x \in Range(entries)
           /\ \A x \in Range(entries) : \E e \in Range(Once(entries)) : e.route = x.route
           /\ Sorted(entries, R) => Sorted(Once(entries), R)
<1> DEFINE again(i) == \E j \in 1 .. i - 1 : entries[j].route = entries[i].route
           piece(i) == IF again(i) THEN <<>> ELSE <<entries[i]>>
           ss == [i \in DOMAIN entries |-> piece(i)]
           k == Len(entries)
<1>1. /\ k \in Nat /\ DOMAIN entries = 1 .. k
      /\ \A i \in 1 .. k : entries[i] \in Entries(groups) /\ entries[i] \in Range(entries)
      /\ \A x \in Range(entries) : \E i \in 1 .. k : x = entries[i]
  BY LenProperties, ElementOfSeq DEF Range
<1>2. Once(entries) = FlattenSeq(ss)
  BY DEF Once
<1>3. ASSUME NEW i \in 1 .. k
      PROVE  piece(i) \in Seq(Entries(groups)) /\ Range(piece(i)) = IF again(i) THEN {} ELSE {entries[i]}
  <2>1. \A e : Range(<<e>>) = {e}
    BY DEF Range
  <2>2. Range(<<>>) = {} /\ <<>> \in Seq(Entries(groups))
    BY EmptySeq DEF Range
  <2>3. <<entries[i]>> \in Seq(Entries(groups))
    BY <1>1
  <2> HIDE DEF again
  <2> QED
    BY <2>1, <2>2, <2>3
<1>4. ASSUME NEW i \in 1 .. k PROVE Sorted(piece(i), R)
  <2>1. Len(piece(i)) \in {0, 1}
    OBVIOUS
  <2> HIDE DEF piece
  <2> QED
    BY <2>1 DEF Sorted
<1> HIDE DEF piece
<1>5. ss \in Seq(Seq(Entries(groups))) /\ Len(ss) = k /\ \A i \in 1 .. k : ss[i] = piece(i)
  <2>1. ss \in [1 .. k -> Seq(Entries(groups))] /\ \A i \in 1 .. k : ss[i] = piece(i)
    BY <1>1, <1>3
  <2> HIDE DEF ss
  <2>2. ss \in Seq(Seq(Entries(groups)))
    BY <1>1, <2>1, SeqDef
  <2> QED
    BY <1>1, <2>1, <2>2, LenProperties
<1> HIDE DEF ss
<1>6. /\ FlattenSeq(ss) \in Seq(Entries(groups))
      /\ \A x \in Range(FlattenSeq(ss)) : \E i \in 1 .. k : x \in Range(piece(i))
      /\ \A i \in 1 .. k : \A x \in Range(piece(i)) : x \in Range(FlattenSeq(ss))
  BY <1>5, FlattenElements
<1>7. ASSUME NEW x \in Range(Once(entries)) PROVE x \in Range(entries)
  <2>1. PICK i \in 1 .. k : x \in Range(piece(i))
    BY <1>2, <1>6
  <2>2. x = entries[i]
    BY <1>3, <2>1
  <2> QED
    BY <1>1, <2>2
<1> DEFINE found(i) == \E e \in Range(Once(entries)) : e.route = entries[i].route
           S == {n \in Nat : \A i \in 1 .. k : i \leq n => found(i)}
<1>8. 0 \in S
  OBVIOUS
<1>9. ASSUME NEW n \in Nat, n \in S PROVE n + 1 \in S
  <2> SUFFICES ASSUME NEW i \in 1 .. k, i = n + 1 PROVE found(i)
    BY <1>9
  <2>1. CASE again(i)
    <3>1. PICK j \in 1 .. i - 1 : entries[j].route = entries[i].route
      BY <2>1
    <3>2. j \in 1 .. k /\ j \leq n
      BY <1>1
    <3>3. found(j)
      BY <1>9, <3>2
    <3> QED
      BY <3>1, <3>3
  <2>2. CASE ~again(i)
    <3>1. entries[i] \in Range(piece(i))
      BY <1>3, <2>2
    <3>2. entries[i] \in Range(Once(entries))
      BY <1>2, <1>6, <3>1
    <3> QED
      BY <3>2
  <2> QED
    BY <2>1, <2>2
<1>10. Nat \subseteq S
  <2> HIDE DEF S
  <2> QED
    BY <1>8, <1>9, Induction
<1>11. ASSUME NEW x \in Range(entries) PROVE \E e \in Range(Once(entries)) : e.route = x.route
  <2>1. PICK i \in 1 .. k : x = entries[i]
    BY <1>1
  <2>2. found(i)
    <3>1. k \in S
      BY <1>1, <1>10
    <3> QED
      BY <1>1, <3>1
  <2> QED
    BY <2>1, <2>2
<1>12. ASSUME Sorted(entries, R) PROVE Sorted(FlattenSeq(ss), R)
  <2>1. ASSUME NEW i \in 1 .. k, NEW j \in 1 .. k, i < j,
               NEW x \in Range(piece(i)), NEW y \in Range(piece(j))
        PROVE  <<x, y>> \in R
    <3>1. x = entries[i] /\ y = entries[j]
      BY <1>3
    <3> QED
      BY <1>12, <2>1, <3>1 DEF Sorted
  <2>2. \A i \in 1 .. Len(ss) : Sorted(ss[i], R)
    BY <1>4, <1>5
  <2>3. \A i, j \in 1 .. Len(ss) : i < j => \A x \in Range(ss[i]), y \in Range(ss[j]) : <<x, y>> \in R
    BY <1>5, <2>1
  <2> QED
    BY <1>5, <2>2, <2>3, FlattenInOrder
<1> QED
  BY <1>2, <1>6, <1>7, <1>11, <1>12

(* Every stage is in the block of one that starts it. *)
LEMMA BlocksCover ==
    ASSUME NEW groups, NEW stages \in Seq(Stages(groups))
    PROVE  \A i \in 1 .. Len(stages) : \E first \in 1 .. Len(stages) :
               StartsBlock(stages, first) /\ InBlock(stages, first, i)
<1> DEFINE has(i) == \E first \in 1 .. Len(stages) : StartsBlock(stages, first) /\ InBlock(stages, first, i)
           S == {n \in Nat : n \in 1 .. Len(stages) => has(n)}
<1>0. Len(stages) \in Nat
  BY LenProperties
<1>1. 0 \in S
  OBVIOUS
<1>2. ASSUME NEW n \in Nat, n \in S PROVE n + 1 \in S
  <2> SUFFICES ASSUME n + 1 \in 1 .. Len(stages) PROVE has(n + 1)
    OBVIOUS
  <2>1. CASE StartsBlock(stages, n + 1)
    <3>1. InBlock(stages, n + 1, n + 1)
      BY DEF InBlock
    <3> QED
      BY <2>1, <3>1
  <2>2. CASE ~StartsBlock(stages, n + 1)
    <3>1. n + 1 # 1 /\ stages[n + 1].tryKey = stages[(n + 1) - 1].tryKey
      BY <2>2 DEF StartsBlock
    <3>2. n \in 1 .. Len(stages) /\ (n + 1) - 1 = n
      BY <1>0, <3>1
    <3>3. PICK first \in 1 .. Len(stages) : StartsBlock(stages, first) /\ InBlock(stages, first, n)
      BY <1>2, <3>2
    <3>4. n >= first /\ \A j \in first .. n : stages[j].tryKey = stages[first].tryKey
      BY <3>3 DEF InBlock
    <3>5. n \in first .. n
      BY <3>4
    <3>6. stages[n + 1].tryKey = stages[first].tryKey
      BY <3>1, <3>2, <3>4, <3>5
    <3>7. \A j \in first .. n + 1 : j = n + 1 \/ j \in first .. n
      OBVIOUS
    <3>8. InBlock(stages, first, n + 1)
      BY <3>4, <3>6, <3>7 DEF InBlock
    <3> QED
      BY <3>3, <3>8
  <2> QED
    BY <2>1, <2>2
<1>3. Nat \subseteq S
  <2> HIDE DEF S
  <2> QED
    BY <1>1, <1>2, Induction
<1> QED
  BY <1>0, <1>3

(* The stages of two blocks are in the order of the blocks.                              *)
LEMMA BlocksApart ==
    ASSUME NEW groups, NEW stages \in Seq(Stages(groups)), NEW a \in 1 .. Len(stages),
           NEW b \in 1 .. Len(stages), a < b,
           StartsBlock(stages, b), NEW i \in 1 .. Len(stages), NEW j \in 1 .. Len(stages),
           InBlock(stages, a, i), InBlock(stages, b, j)
    PROVE  i < j
<1>1. b \leq j
  BY DEF InBlock
<1>2. i < b
  <2> SUFFICES ASSUME i >= b PROVE FALSE
    OBVIOUS
  <2>1. b - 1 \in a .. i /\ b \in a .. i /\ b # 1
    OBVIOUS
  <2>2. stages[b].tryKey = stages[b - 1].tryKey
    BY <2>1 DEF InBlock
  <2> QED
    BY <2>1, <2>2 DEF StartsBlock
<1> QED
  BY <1>1, <1>2


(* What the stages of a plan are known to be. *)
Planned(groups, stages) ==
    /\ stages \in Seq(Stages(groups)) /\ Sorted(stages, InOrder(groups))
    /\ \A e \in Range(stages) : e.path \in Paths(groups) /\ Keeps(groups, e, e.path)

(* Planned stages, one by one.                                                           *)
LEMMA PlannedStages ==
    ASSUME NEW groups, NEW stages, Planned(groups, stages)
    PROVE  /\ Len(stages) \in Nat /\ DOMAIN stages = 1 .. Len(stages)
           /\ \A i \in 1 .. Len(stages) :
                  /\ stages[i] \in Stages(groups) /\ stages[i] \in Range(stages)
                  /\ stages[i].path \in Paths(groups) /\ stages[i].tries \in Nat
           /\ \A i, j \in 1 .. Len(stages) : i < j => ~Before(stages[j].path, stages[i].path)
<1>1. stages \in Seq(Stages(groups))
  BY DEF Planned
<1>2. /\ Len(stages) \in Nat /\ DOMAIN stages = 1 .. Len(stages)
      /\ \A i \in 1 .. Len(stages) : stages[i] \in Stages(groups) /\ stages[i] \in Range(stages)
  BY <1>1, LenProperties, ElementOfSeq DEF Range
<1>3. \A i \in 1 .. Len(stages) : stages[i].path \in Paths(groups) /\ stages[i].tries \in Nat
  BY <1>2 DEF Planned, Keeps
<1>4. \A i, j \in 1 .. Len(stages) : i < j => ~Before(stages[j].path, stages[i].path)
  BY DEF Planned, Sorted, InOrder
<1> QED
  BY <1>2, <1>3, <1>4

(* A cycle of a block has the routes of its stages, in their order.                      *)
LEMMA CycleKeeps ==
    ASSUME NEW groups, IsLadder(groups), NEW stages, Planned(groups, stages), NEW first \in 1 .. Len(stages)
    PROVE  /\ Cycle(stages, first) \in Seq(Entries(groups)) /\ Sorted(Cycle(stages, first), EntryOrder(groups))
           /\ \A x \in Range(Cycle(stages, first)) : \E i \in 1 .. Len(stages) :
                  InBlock(stages, first, i) /\ x \in Range(EntriesOf(stages[i]))
           /\ \A i \in 1 .. Len(stages) : InBlock(stages, first, i) =>
                  \A x \in Range(EntriesOf(stages[i])) :
                      \E e \in Range(Cycle(stages, first)) : e.route = x.route
<1> DEFINE k == Len(stages)
           piece(i) == IF InBlock(stages, first, i) THEN EntriesOf(stages[i]) ELSE <<>>
           ss == [i \in DOMAIN stages |-> piece(i)]
           all == FlattenSeq(ss)
<1>1. /\ k \in Nat /\ DOMAIN stages = 1 .. k
      /\ \A i \in 1 .. k : stages[i] \in Stages(groups) /\ stages[i].path \in Paths(groups)
      /\ \A i, j \in 1 .. k : i < j => ~Before(stages[j].path, stages[i].path)
  BY PlannedStages
<1>2. Cycle(stages, first) = Once(all)
  BY DEF Cycle
<1>3. ASSUME NEW i \in 1 .. k, NEW x \in Range(EntriesOf(stages[i]))
      PROVE  x \in Entries(groups) /\ x.path = stages[i].path
  <2>1. PICK route \in Range(Routes) : x = EntryOf(stages[i], route)
    BY <1>1, EntriesOfStage
  <2> QED
    BY <1>1, <2>1 DEF EntryOf, Entries
<1>4. Range(<<>>) = {} /\ <<>> \in Seq(Entries(groups)) /\ Len(<<>>) = 0
  BY EmptySeq DEF Range
<1>5. ASSUME NEW i \in 1 .. k
      PROVE  /\ piece(i) \in Seq(Entries(groups))
             /\ Range(piece(i)) = IF InBlock(stages, first, i) THEN Range(EntriesOf(stages[i])) ELSE {}
  BY <1>1, <1>4, EntriesOfStage
<1>6. ASSUME NEW i \in 1 .. k, NEW x \in Range(piece(i))
      PROVE  InBlock(stages, first, i) /\ x \in Range(EntriesOf(stages[i]))
  BY <1>5
<1>7. ASSUME NEW i \in 1 .. k PROVE Sorted(piece(i), EntryOrder(groups))
  <2> HIDE DEF piece
  <2> SUFFICES ASSUME NEW a \in 1 .. Len(piece(i)), NEW b \in 1 .. Len(piece(i))
               PROVE  <<piece(i)[a], piece(i)[b]>> \in EntryOrder(groups)
    BY DEF Sorted
  <2>1. piece(i)[a] \in Range(piece(i)) /\ piece(i)[b] \in Range(piece(i))
    BY <1>5, LenProperties DEF Range
  <2> DEFINE x == piece(i)[a]
             y == piece(i)[b]
  <2>2. /\ x \in Entries(groups) /\ x.path = stages[i].path
        /\ y \in Entries(groups) /\ y.path = stages[i].path
    BY <1>3, <1>6, <2>1
  <2> HIDE DEF x, y
  <2>3. ~Before(stages[i].path, stages[i].path)
    BY <1>1, NotBeforeItself
  <2>4. <<x, y>> \in EntryOrder(groups)
    BY <2>2, <2>3 DEF EntryOrder
  <2> QED
    BY <2>4 DEF x, y
<1> HIDE DEF piece
<1>8. ss \in Seq(Seq(Entries(groups))) /\ Len(ss) = k /\ \A i \in 1 .. k : ss[i] = piece(i)
  <2>1. ss \in [1 .. k -> Seq(Entries(groups))] /\ \A i \in 1 .. k : ss[i] = piece(i)
    BY <1>1, <1>5
  <2> HIDE DEF ss
  <2>2. ss \in Seq(Seq(Entries(groups)))
    BY <1>1, <2>1, SeqDef
  <2> QED
    BY <1>1, <2>1, <2>2, LenProperties
<1> HIDE DEF ss
<1>9. /\ all \in Seq(Entries(groups))
      /\ \A x \in Range(all) : \E i \in 1 .. k : x \in Range(piece(i))
      /\ \A i \in 1 .. k : \A x \in Range(piece(i)) : x \in Range(all)
  BY <1>8, FlattenElements
<1>10. Sorted(all, EntryOrder(groups))
  <2>1. ASSUME NEW i \in 1 .. k, NEW j \in 1 .. k, i < j,
               NEW x \in Range(piece(i)), NEW y \in Range(piece(j))
        PROVE  <<x, y>> \in EntryOrder(groups)
    <3>1. /\ x \in Entries(groups) /\ x.path = stages[i].path
          /\ y \in Entries(groups) /\ y.path = stages[j].path
      BY <1>3, <1>6
    <3>2. ~Before(y.path, x.path)
      BY <1>1, <2>1, <3>1
    <3> QED
      BY <3>1, <3>2 DEF EntryOrder
  <2>2. \A i \in 1 .. Len(ss) : Sorted(ss[i], EntryOrder(groups))
    BY <1>7, <1>8
  <2>3. \A i, j \in 1 .. Len(ss) : i < j =>
            \A x \in Range(ss[i]), y \in Range(ss[j]) : <<x, y>> \in EntryOrder(groups)
    BY <1>8, <2>1
  <2> QED
    BY <1>8, <2>2, <2>3, FlattenInOrder
<1> HIDE DEF all
<1>11. /\ Once(all) \in Seq(Entries(groups)) /\ Sorted(Once(all), EntryOrder(groups))
       /\ \A x \in Range(Once(all)) : x \in Range(all)
       /\ \A x \in Range(all) : \E e \in Range(Once(all)) : e.route = x.route
  BY <1>9, <1>10, OnceKeeps
<1>12. ASSUME NEW x \in Range(Once(all))
       PROVE  \E i \in 1 .. k : InBlock(stages, first, i) /\ x \in Range(EntriesOf(stages[i]))
  <2>1. PICK i \in 1 .. k : x \in Range(piece(i))
    BY <1>9, <1>11
  <2> QED
    BY <1>6, <2>1
<1>13. ASSUME NEW i \in 1 .. k, InBlock(stages, first, i), NEW x \in Range(EntriesOf(stages[i]))
       PROVE  \E e \in Range(Once(all)) : e.route = x.route
  <2>1. x \in Range(piece(i))
    BY <1>5, <1>13
  <2> QED
    BY <1>9, <1>11, <2>1
<1> QED
  BY <1>2, <1>11, <1>12, <1>13

(* A block has the routes of its cycle, and is in order when it is tried once.             *)
LEMMA BlockKeeps ==
    ASSUME NEW groups, IsLadder(groups), NEW stages, Planned(groups, stages), NEW first \in 1 .. Len(stages)
    PROVE  LET block == BlockEntries(stages, first) IN
           /\ block \in Seq(Entries(groups))
           /\ \A x : x \in Range(block) <=> x \in Range(Cycle(stages, first))
           /\ stages[first].tries = 0 => Sorted(block, EntryOrder(groups))
<1> DEFINE k == 1 + stages[first].tries
           cycle == Cycle(stages, first)
           ss == [n \in 1 .. k |-> cycle]
<1>1. k \in Nat /\ 1 \in 1 .. k
  BY PlannedStages
<1>2. BlockEntries(stages, first) = FlattenSeq(ss)
  BY DEF BlockEntries
<1>3. cycle \in Seq(Entries(groups)) /\ Sorted(cycle, EntryOrder(groups))
  BY CycleKeeps
<1> HIDE DEF cycle
<1>4. ss \in Seq(Seq(Entries(groups))) /\ Len(ss) = k /\ \A i \in 1 .. k : ss[i] = cycle
  <2> HIDE DEF k
  <2>1. ss \in [1 .. k -> Seq(Entries(groups))] /\ \A i \in 1 .. k : ss[i] = cycle
    BY <1>3
  <2> HIDE DEF ss
  <2>2. ss \in Seq(Seq(Entries(groups)))
    BY <1>1, <2>1, SeqDef
  <2> QED
    BY <1>1, <2>1, <2>2, LenProperties
<1> HIDE DEF ss
<1>5. /\ FlattenSeq(ss) \in Seq(Entries(groups))
      /\ \A x \in Range(FlattenSeq(ss)) : \E i \in 1 .. k : x \in Range(cycle)
      /\ \A i \in 1 .. k : \A x \in Range(cycle) : x \in Range(FlattenSeq(ss))
  <2> HIDE DEF k
  <2> QED
    BY <1>4, FlattenElements
<1>6. \A x : x \in Range(FlattenSeq(ss)) <=> x \in Range(cycle)
  <2> HIDE DEF k
  <2> QED
    BY <1>1, <1>5
<1>7. ASSUME stages[first].tries = 0 PROVE Sorted(FlattenSeq(ss), EntryOrder(groups))
  <2>1. k = 1
    BY <1>7
  <2> HIDE DEF k
  <2>2. \A i \in 1 .. Len(ss) : Sorted(ss[i], EntryOrder(groups))
    BY <1>3, <1>4
  <2>3. \A i, j \in 1 .. Len(ss) : ~(i < j)
    BY <1>4, <2>1
  <2> QED
    BY <1>4, <2>2, <2>3, FlattenInOrder
<1> QED
  BY <1>2, <1>5, <1>6, <1>7 DEF cycle

(* The entries of a plan are those of its stages, none is lost, and they are in order.   *)
LEMMA EntriesFollow ==
    ASSUME NEW groups, IsLadder(groups), NEW stages, Planned(groups, stages)
    PROVE  LET entries == PlanEntries(stages) IN
           /\ entries \in Seq(Entries(groups))
           /\ \A x \in Range(entries) : \E i \in 1 .. Len(stages) : x \in Range(EntriesOf(stages[i]))
           /\ \A i \in 1 .. Len(stages) : \A x \in Range(EntriesOf(stages[i])) :
                  \E e \in Range(entries) : e.route = x.route
           /\ (\A i \in 1 .. Len(stages) : stages[i].tries = 0) => Sorted(entries, EntryOrder(groups))
<1> DEFINE k == Len(stages)
           piece(i) == IF StartsBlock(stages, i) THEN BlockEntries(stages, i) ELSE <<>>
           ss == [i \in DOMAIN stages |-> piece(i)]
           all == FlattenSeq(ss)
<1>1. /\ k \in Nat /\ DOMAIN stages = 1 .. k /\ stages \in Seq(Stages(groups))
      /\ \A i \in 1 .. k : stages[i] \in Stages(groups)
      /\ \A i, j \in 1 .. k : i < j => ~Before(stages[j].path, stages[i].path)
  BY PlannedStages DEF Planned
<1>2. PlanEntries(stages) = all
  BY DEF PlanEntries
<1>3. Range(<<>>) = {} /\ <<>> \in Seq(Entries(groups)) /\ Len(<<>>) = 0
  BY EmptySeq DEF Range
<1>4. ASSUME NEW i \in 1 .. k
      PROVE  /\ piece(i) \in Seq(Entries(groups))
             /\ \A x \in Range(piece(i)) : StartsBlock(stages, i) /\ x \in Range(Cycle(stages, i))
             /\ StartsBlock(stages, i) => \A x \in Range(Cycle(stages, i)) : x \in Range(piece(i))
  BY <1>3, BlockKeeps
<1>5. ASSUME NEW i \in 1 .. k, stages[i].tries = 0 PROVE Sorted(piece(i), EntryOrder(groups))
  <2>1. Sorted(<<>>, EntryOrder(groups))
    BY <1>3 DEF Sorted
  <2>2. Sorted(BlockEntries(stages, i), EntryOrder(groups))
    BY <1>5, BlockKeeps
  <2> QED
    BY <2>1, <2>2
<1> HIDE DEF piece
<1>6. ss \in Seq(Seq(Entries(groups))) /\ Len(ss) = k /\ \A i \in 1 .. k : ss[i] = piece(i)
  <2>1. ss \in [1 .. k -> Seq(Entries(groups))] /\ \A i \in 1 .. k : ss[i] = piece(i)
    BY <1>1, <1>4
  <2> HIDE DEF ss
  <2>2. ss \in Seq(Seq(Entries(groups)))
    BY <1>1, <2>1, SeqDef
  <2> QED
    BY <1>1, <2>1, <2>2, LenProperties
<1> HIDE DEF ss
<1>7. /\ all \in Seq(Entries(groups))
      /\ \A x \in Range(all) : \E i \in 1 .. k : x \in Range(piece(i))
      /\ \A i \in 1 .. k : \A x \in Range(piece(i)) : x \in Range(all)
  BY <1>6, FlattenElements
<1>8. ASSUME NEW i \in 1 .. k, NEW x \in Range(piece(i))
      PROVE  /\ StartsBlock(stages, i)
             /\ \E j \in 1 .. k : InBlock(stages, i, j) /\ x \in Range(EntriesOf(stages[j]))
  BY <1>4, CycleKeeps
<1>9. ASSUME NEW x \in Range(all) PROVE \E i \in 1 .. k : x \in Range(EntriesOf(stages[i]))
  BY <1>7, <1>8
<1>10. ASSUME NEW i \in 1 .. k, NEW x \in Range(EntriesOf(stages[i]))
       PROVE  \E e \in Range(all) : e.route = x.route
  <2>1. PICK first \in 1 .. k : StartsBlock(stages, first) /\ InBlock(stages, first, i)
    BY <1>1, BlocksCover
  <2>2. PICK e \in Range(Cycle(stages, first)) : e.route = x.route
    BY <2>1, CycleKeeps
  <2>3. e \in Range(piece(first))
    BY <1>4, <2>1
  <2> QED
    BY <1>7, <2>2, <2>3
<1>11. ASSUME \A i \in 1 .. k : stages[i].tries = 0 PROVE Sorted(all, EntryOrder(groups))
  <2>1. ASSUME NEW a \in 1 .. k, NEW b \in 1 .. k, a < b,
               NEW x \in Range(piece(a)), NEW y \in Range(piece(b))
        PROVE  <<x, y>> \in EntryOrder(groups)
    <3>1. StartsBlock(stages, b)
      BY <1>8
    <3>2. PICK i \in 1 .. k : InBlock(stages, a, i) /\ x \in Range(EntriesOf(stages[i]))
      BY <1>8
    <3>3. PICK j \in 1 .. k : InBlock(stages, b, j) /\ y \in Range(EntriesOf(stages[j]))
      BY <1>8
    <3>4. i < j
      BY <1>1, <2>1, <3>1, <3>2, <3>3, BlocksApart
    <3>5. ~Before(stages[j].path, stages[i].path)
      BY <1>1, <3>4
    <3>6. PICK r1 \in Range(Routes) : x = EntryOf(stages[i], r1)
      BY <1>1, <3>2, EntriesOfStage
    <3>7. PICK r2 \in Range(Routes) : y = EntryOf(stages[j], r2)
      BY <1>1, <3>3, EntriesOfStage
    <3>8. x \in Entries(groups) /\ y \in Entries(groups)
      BY <1>1, <3>6, <3>7 DEF Entries
    <3>9. x.path = stages[i].path /\ y.path = stages[j].path
      BY <3>6, <3>7 DEF EntryOf
    <3> QED
      BY <3>5, <3>8, <3>9 DEF EntryOrder
  <2>2. \A i \in 1 .. Len(ss) : Sorted(ss[i], EntryOrder(groups))
    BY <1>5, <1>6, <1>11
  <2>3. \A i, j \in 1 .. Len(ss) : i < j =>
            \A x \in Range(ss[i]), y \in Range(ss[j]) : <<x, y>> \in EntryOrder(groups)
    BY <1>6, <2>1
  <2> QED
    BY <1>6, <2>2, <2>3, FlattenInOrder
<1> HIDE DEF all
<1> QED
  BY <1>2, <1>7, <1>9, <1>10, <1>11

(* What compiling without an error gives: planned stages that cover every path. *)
LEMMA CompiledPlanned ==
    ASSUME NEW groups, IsLadder(groups), Compile(groups).errors = {}
    PROVE  /\ Planned(groups, Compile(groups).stages)
           /\ \A path \in Paths(groups) : Covers(groups, Compile(groups).stages, path)
<1> DEFINE visited == Visited(groups)
<1>1. \A code : Failed(code).errors # {}
  BY DEF Failed
<1>2. [visited EXCEPT !.errors = @ \cup {"group_plan_too_large"}].errors # {}
  <2>1. Leads(groups, <<>>)
    BY RootLeads
  <2>2. PICK v : visited = VisitGroup(groups, v, <<>>)
    BY <2>1, VisitedUnfolds DEF Leads
  <2>3. "errors" \in DOMAIN visited
    BY <2>2 DEF VisitGroup, Failed
  <2> QED
    BY <2>3
<1>3. Compile(groups) = visited
  <2> HIDE DEF visited
  <2>1. Compile(groups) \in {Failed("group_disabled"), visited,
                             [visited EXCEPT !.errors = @ \cup {"group_plan_too_large"}]}
    BY DEF Compile, visited
  <2> QED
    BY <1>1, <1>2, <2>1
<1>4. Flattens(groups, visited, <<>>) /\ visited.errors = {}
  BY <1>3, VisitedFlattens
<1>5. \A path \in Paths(groups) : path \in Through(groups, <<>>)
  <2> SUFFICES ASSUME NEW path \in Paths(groups) PROVE path \in Through(groups, <<>>)
    OBVIOUS
  <2>1. Len(path) \in Nat /\ Len(<<>>) = 0
    BY PositionsOfPaths
  <2> QED
    BY <2>1 DEF Through
<1>6. \A path \in Through(groups, <<>>) : path \in Paths(groups)
  BY DEF Through
<1> HIDE DEF visited
<1> QED
  BY <1>3, <1>4, <1>5, <1>6 DEF Flattens, Planned

(* A plan without an error, or without a route, has the entries of its stages.            *)
LEMMA PlanIs ==
    ASSUME NEW compiled, PlanOf(compiled).error \in {"none", "no_eligible_route"}
    PROVE  compiled.errors = {} /\ PlanOf(compiled).entries = PlanEntries(compiled.stages)
BY DEF PlanOf


(* The plan that compiling and matching make follows the ladder: what is in it is what    *)
(* planned stages admit, in their order, and they admit what the ladder lets through.      *)
LEMMA PlanFollows ==
    ASSUME NEW groups, IsLadder(groups)
    PROVE  FollowsLadder(groups, PlanOf(Compile(groups)))
<1> DEFINE stages == Compile(groups).stages
           entries == PlanOf(Compile(groups)).entries
<1> SUFFICES ASSUME PlanOf(Compile(groups)).error \in {"none", "no_eligible_route"}
             PROVE  /\ \A e \in Range(entries) :
                           /\ e.path \in Paths(groups) /\ WithinLimits(groups, e.path, e.route)
                           /\ e.retries \in RetriesSaid(groups, e.path, e.route.model)
                    /\ ~Repeating(groups) => \A i, j \in DOMAIN entries :
                           i < j => ~Before(entries[j].path, entries[i].path)
                    /\ \A path \in Paths(groups), route \in Range(Routes) :
                           Honours(groups, path, route) /\ WithinLimits(groups, path, route) =>
                               \E e \in Range(entries) : e.route = route
  BY DEF FollowsLadder
<1>1. Compile(groups).errors = {} /\ entries = PlanEntries(stages)
  BY PlanIs
<1>2. Planned(groups, stages) /\ \A path \in Paths(groups) : Covers(groups, stages, path)
  BY <1>1, CompiledPlanned
<1>3. \A route \in Range(Routes) : route.price \in Nat
  BY PlanAssumption
<1> HIDE DEF stages, entries
<1>4. /\ Len(stages) \in Nat /\ DOMAIN stages = 1 .. Len(stages)
      /\ \A i \in 1 .. Len(stages) :
             /\ stages[i] \in Stages(groups) /\ stages[i].path \in Paths(groups)
             /\ Keeps(groups, stages[i], stages[i].path)
  BY <1>2, PlannedStages DEF Planned
<1>5. /\ entries \in Seq(Entries(groups))
      /\ \A x \in Range(entries) : \E i \in 1 .. Len(stages) : x \in Range(EntriesOf(stages[i]))
      /\ \A i \in 1 .. Len(stages) : \A x \in Range(EntriesOf(stages[i])) :
             \E e \in Range(entries) : e.route = x.route
      /\ (\A i \in 1 .. Len(stages) : stages[i].tries = 0) => Sorted(entries, EntryOrder(groups))
  BY <1>1, <1>2, EntriesFollow
<1>6. \A stage, route : /\ EntryOf(stage, route).path = stage.path /\ EntryOf(stage, route).route = route
                        /\ EntryOf(stage, route).retries = stage.retries
  BY DEF EntryOf
<1>7. ASSUME NEW e \in Range(entries)
      PROVE  /\ e.path \in Paths(groups) /\ WithinLimits(groups, e.path, e.route)
             /\ e.retries \in RetriesSaid(groups, e.path, e.route.model)
  <2>1. PICK i \in 1 .. Len(stages) : e \in Range(EntriesOf(stages[i]))
    BY <1>5
  <2>2. stages[i] \in Stages(groups)
    BY <1>4
  <2>3. PICK route \in Range(Routes) : Admits(stages[i], route) /\ e = EntryOf(stages[i], route)
    BY <2>1, <2>2, EntriesOfStage
  <2>4. e.path = stages[i].path /\ e.route = route /\ e.retries = stages[i].retries
    BY <1>6, <2>3
  <2>5. route.model \in stages[i].models /\ Within(stages[i].limit, route.price) /\ route.price \in Nat
    BY <1>3, <2>3 DEF Admits
  <2>6. stages[i].path \in Paths(groups) /\ Keeps(groups, stages[i], stages[i].path)
    BY <1>4
  <2>7. WithinLimits(groups, stages[i].path, route)
    BY <2>5, <2>6 DEF Keeps, WithinLimits
  <2>8. stages[i].retries \in RetriesSaid(groups, stages[i].path, route.model)
    BY <2>5, <2>6 DEF Keeps
  <2> QED
    BY <2>4, <2>6, <2>7, <2>8
<1>8. ASSUME ~Repeating(groups), NEW i \in DOMAIN entries, NEW j \in DOMAIN entries, i < j
      PROVE  ~Before(entries[j].path, entries[i].path)
  <2>1. ASSUME NEW s \in 1 .. Len(stages) PROVE stages[s].tries = 0
    <3>1. stages[s].path \in Paths(groups) /\ Keeps(groups, stages[s], stages[s].path)
      BY <1>4
    <3>2. \A n \in DOMAIN stages[s].path : stages[s].path[n] \in Positions(groups)
      BY <3>1, PositionsOfPaths
    <3>3. \A n \in DOMAIN stages[s].path : StageAt(groups, stages[s].path[n]).tries = None
      BY <1>8, <3>2 DEF Repeating
    <3> QED
      BY <3>1, <3>3 DEF Keeps
  <2>2. Sorted(entries, EntryOrder(groups))
    BY <1>5, <2>1
  <2>3. DOMAIN entries = 1 .. Len(entries)
    BY <1>5, LenProperties
  <2> QED
    BY <1>8, <2>2, <2>3 DEF Sorted, EntryOrder
<1>9. ASSUME NEW path \in Paths(groups), NEW route \in Range(Routes),
             Honours(groups, path, route), WithinLimits(groups, path, route)
      PROVE  \E e \in Range(entries) : e.route = route
  <2>1. PICK stage \in Range(stages) : Admits(stage, route)
    BY <1>2, <1>3, <1>9 DEF Covers
  <2>2. PICK i \in 1 .. Len(stages) : stage = stages[i]
    BY <1>4 DEF Range
  <2>3. EntryOf(stage, route) \in Range(EntriesOf(stage))
    BY <1>4, <2>1, <2>2, EntriesOfStage
  <2> QED
    BY <1>5, <1>6, <2>2, <2>3
<1> QED
  BY <1>7, <1>8, <1>9

(* However deep groups are nested, the plan of a request follows them: nothing is planned *)
(* that no model stage admits, that exceeds a limit on the way or that is retried          *)
(* otherwise than said, nothing before its turn, and nothing that is let through is lost   *)
(* (Compile, BuildGroup).                                                                  *)
THEOREM PlansFollowTheirLadders == PlanSpec => []PlanFollowsTheLadder
<1> DEFINE Inv == ladder \in Ladders /\ (plan = NoPlan \/ plan = PlanOf(Compile(ladder)))
<1>1. PlanInit => Inv
  BY DEF PlanInit
<1>2. Inv /\ [BuildGroup]_planVars => Inv'
  <2> SUFFICES ASSUME Inv, [BuildGroup]_planVars PROVE Inv'
    OBVIOUS
  <2>1. CASE BuildGroup
    BY <2>1 DEF BuildGroup
  <2>2. CASE UNCHANGED planVars
    BY <2>2 DEF planVars
  <2> QED
    BY <2>1, <2>2
<1>3. Inv => PlanFollowsTheLadder
  <2> SUFFICES ASSUME Inv PROVE FollowsLadder(ladder, plan)
    BY DEF PlanFollowsTheLadder
  <2>1. IsLadder(ladder)
    BY PlanAssumption
  <2>2. CASE plan = NoPlan
    BY <2>2 DEF NoPlan, FollowsLadder
  <2>3. CASE plan = PlanOf(Compile(ladder))
    BY <2>1, <2>3, PlanFollows
  <2> QED
    BY <2>2, <2>3
<1> QED
  BY <1>1, <1>2, <1>3, PTL DEF PlanSpec
=============================================================================
