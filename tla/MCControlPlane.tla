---------------------------- MODULE MCControlPlane ----------------------------
(* Finite instances of ControlPlane, Sessions, Credentials, GroupPlan, Matcher and   *)
(* StreamDelivery for TLC, which share no state: the initial state says which moves. *)
(* ControlPlane: two clients of one provider, so that a route can come and go        *)
(* without its provider being new; two models, so that one is the baseline and the   *)
(* other is announced; two groups that can nest each other, two edits and the sync   *)
(* that run into one another.  Sessions: two users that may begin alike, three       *)
(* sessions, more histories of one beginning than are kept.  Credentials: two        *)
(* handlers that overlap while no request runs into a limit ("handlers"), or one     *)
(* credential, one handler and two requests that do ("limits").  GroupPlan and       *)
(* Matcher: see MCGroupPlan and MCMatcher.                                           *)
EXTENDS ControlPlane, Sessions, Credentials, MCGroupPlan, MCMatcher, StreamDelivery

CONSTANTS k1, k2, n1, n2, f1, g1, g2, e1, e2, u1, u2, s1, s2, s3, x1, x2, r1, r2

TwoKeys == {k1, k2}
TwoModels == {n1, n2}
OneFormat == {f1}
OneProvider == [k \in TwoKeys |-> pA]
TwoGroups == {g1, g2}
TwoEdits == {e1, e2}
AllSources == {<<pA, n1>>, <<pA, n2>>}
AllAtOnce == {AllSources}

(* A follower, the two ways to nest, and a disabled group that nests. *)
FourInputs ==
    {[enabled |-> TRUE, nests |-> {}, follows |-> TRUE],
     [enabled |-> TRUE, nests |-> {g1}, follows |-> FALSE],
     [enabled |-> TRUE, nests |-> {g2}, follows |-> FALSE],
     [enabled |-> FALSE, nests |-> {g1}, follows |-> TRUE]}

TwoMessages == {u1, u2}
ThreeSessions == {s1, s2, s3}

TwoSecrets == {x1, x2}
TwoCalls == {r1, r2}

VARIABLE moves

OneLadder == CHOOSE l \in Ladders : TRUE
OneQuery == CHOOSE q \in Queries : TRUE
OneClient == [format |-> "chat", streams |-> TRUE]

CheckedInit ==
    /\ moves \in {"control", "sessions", "handlers", "limits", "plan", "match", "stream"}
    /\ SessionsInit /\ CredentialsInit
    /\ ControlInit /\ (moves # "control" => part = "catalog")
    /\ IF moves = "plan" THEN PlanInit ELSE ladder = OneLadder /\ plan = NoPlan
    /\ IF moves = "match" THEN MatcherInit ELSE query = OneQuery /\ matched = FALSE /\ ranked = <<>>
    /\ StreamInit /\ (moves # "stream" => client = OneClient)

CheckedNext ==
    /\ UNCHANGED moves
    /\ \/ /\ moves = "control" /\ ControlNext
          /\ UNCHANGED <<sessionVars, credentialVars, planVars, matcherVars, streamVars>>
       \/ /\ moves = "sessions" /\ SessionsNext
          /\ UNCHANGED <<controlVars, credentialVars, planVars, matcherVars, streamVars>>
       \/ /\ moves = "handlers" /\ CredentialsNext
          /\ \A q \in Calls : calling'[q].pc = "idle"
          /\ UNCHANGED <<controlVars, sessionVars, planVars, matcherVars, streamVars>>
       \/ /\ moves = "limits" /\ CredentialsNext
          /\ Cardinality(used') \leq 1
          /\ \E h \in Handlers : \A i \in Handlers \ {h} : handler'[i].pc = "idle"
          /\ UNCHANGED <<controlVars, sessionVars, planVars, matcherVars, streamVars>>
       \/ /\ moves = "plan" /\ BuildGroup
          /\ UNCHANGED <<controlVars, sessionVars, credentialVars, matcherVars, streamVars>>
       \/ /\ moves = "match" /\ Match
          /\ UNCHANGED <<controlVars, sessionVars, credentialVars, planVars, streamVars>>
       \/ /\ moves = "stream" /\ StreamNext
          /\ UNCHANGED <<controlVars, sessionVars, credentialVars, planVars, matcherVars>>

checkedVars ==
    <<moves, controlVars, sessionVars, credentialVars, planVars, matcherVars, streamVars>>
CheckedSpec == CheckedInit /\ [][CheckedNext]_checkedVars

Interchangeable ==
    Permutations(TwoModels) \cup Permutations(TwoKeys) \cup Permutations(TwoEdits)
=============================================================================
