-------------------------- MODULE ProxyExecuteProofs --------------------------
(***************************************************************************)
(* Safety of plan execution for any number of requests, routes,            *)
(* credentials and formats, any plans and any attempt budget.              *)
(***************************************************************************)
EXTENDS ProxyExecute, TLAPS

(* What is left of the budget at every point of the loop. *)
Budget(rec) ==
    /\ rec.total <= MaximumAttempts
    /\ rec.pc \in {"ensure", "probing", "admit"} => rec.total < MaximumAttempts
    /\ rec.pc \in {"attempt", "calling"} => rec.total > 0
    /\ rec.pc = "calling" => rec.total + Len(rec.formats) - 1 <= MaximumAttempts

(* The part of the invariant that is about one request alone. *)
RequestInv(q, rec) ==
    /\ rec.pc \in {"ensure", "probing", "admit", "attempt", "calling", "decide"}
         => rec.cursor <= Len(Plan[q])
    /\ rec.pc = "calling" => rec.cand \in 1..Len(rec.formats)
    /\ rec.pc = "attempt" => rec.key \in Keys
    /\ Budget(rec)
    /\ rec.pc = "done" <=> rec.outcome # "none"
    /\ rec.answers = (IF rec.outcome \in {"none", "cancelled"} THEN 0 ELSE 1)
    /\ rec.outcome \in {"failed", "limited"}
         => rec.cursor >= Len(Plan[q]) \/ rec.total >= MaximumAttempts
RequestsInv == \A q \in Requests : RequestInv(q, req[q])

Holding == {"calling", "probing"}

(* The lock of a route is held exactly by the request that calls or probes it. *)
LockInv ==
    \A q \in Requests, r \in Routes :
        lock[r] = q <=> req[q].pc \in Holding /\ RouteOf(q) = r

(* Under its lock the format of a route stays what the call found: if it is *)
(* known it is the only candidate and no failure counts as evidence.        *)
FormatInv ==
    \A q \in Requests :
        req[q].pc = "calling" /\ learned[RouteOf(q)] # NoFormat =>
            /\ req[q].formats = <<learned[RouteOf(q)]>>
            /\ req[q].known /\ ~req[q].misfit

(* A probe runs only for a route without a verdict. *)
VerdictInv ==
    \A q \in Requests : req[q].pc = "probing" => verdict[RouteOf(q)] = "unknown"

(* A credential a request gave up is blocked, and none that the request has *)
(* in use was given up by it.                                               *)
SpentInv ==
    \A q \in Requests :
        /\ \A k \in spent[q] : blocked[k] # "no"
        /\ req[q].pc \in {"attempt", "calling", "decide"} /\ req[q].key = KeyOf[RouteOf(q)]
             => req[q].key \notin spent[q]

ExecuteInv == Types /\ RequestsInv /\ LockInv /\ FormatInv /\ VerdictInv /\ SpentInv

-----------------------------------------------------------------------------
(* Records of a request. *)

(* The types of the fields, and of a record with one field replaced. *)
LEMMA FieldTypes ==
    ASSUME NEW rec \in RequestStates
    PROVE  /\ rec.pc \in PCs
           /\ rec.cursor \in Nat \ {0}
           /\ rec.certified \in Nat
           /\ rec.retries \in Int
           /\ rec.total \in Nat
           /\ rec.limited \in BOOLEAN
           /\ rec.key \in Keys \cup {NoKey}
           /\ rec.formats \in Seq(Formats)
           /\ rec.known \in BOOLEAN
           /\ rec.cand \in Nat
           /\ rec.misfit \in BOOLEAN
           /\ rec.error \in ErrorClasses \ {"cancelled"}
           /\ rec.answers \in Nat
           /\ rec.outcome \in Outcomes
  BY DEF RequestStates

(* A request in which one field is replaced by a value of its type is a request. *)
LEMMA FieldUpdates ==
    ASSUME NEW rec \in RequestStates
    PROVE  /\ \A v \in PCs : [rec EXCEPT !.pc = v] \in RequestStates
           /\ \A v \in Nat \ {0} : [rec EXCEPT !.cursor = v] \in RequestStates
           /\ \A v \in Nat : [rec EXCEPT !.certified = v] \in RequestStates
           /\ \A v \in Int : [rec EXCEPT !.retries = v] \in RequestStates
           /\ \A v \in Nat : [rec EXCEPT !.total = v] \in RequestStates
           /\ \A v \in BOOLEAN : [rec EXCEPT !.limited = v] \in RequestStates
           /\ \A v \in Keys \cup {NoKey} : [rec EXCEPT !.key = v] \in RequestStates
           /\ \A v \in Seq(Formats) : [rec EXCEPT !.formats = v] \in RequestStates
           /\ \A v \in BOOLEAN : [rec EXCEPT !.known = v] \in RequestStates
           /\ \A v \in Nat : [rec EXCEPT !.cand = v] \in RequestStates
           /\ \A v \in BOOLEAN : [rec EXCEPT !.misfit = v] \in RequestStates
           /\ \A v \in ErrorClasses \ {"cancelled"} : [rec EXCEPT !.error = v] \in RequestStates
           /\ \A v \in Nat : [rec EXCEPT !.answers = v] \in RequestStates
           /\ \A v \in Outcomes : [rec EXCEPT !.outcome = v] \in RequestStates
<1>1. \A v \in PCs : [rec EXCEPT !.pc = v] \in RequestStates
  BY DEF RequestStates
<1>2. \A v \in Nat \ {0} : [rec EXCEPT !.cursor = v] \in RequestStates
  BY DEF RequestStates
<1>3. \A v \in Nat : [rec EXCEPT !.certified = v] \in RequestStates
  BY DEF RequestStates
<1>4. \A v \in Int : [rec EXCEPT !.retries = v] \in RequestStates
  BY DEF RequestStates
<1>5. \A v \in Nat : [rec EXCEPT !.total = v] \in RequestStates
  BY DEF RequestStates
<1>6. \A v \in BOOLEAN : [rec EXCEPT !.limited = v] \in RequestStates
  BY DEF RequestStates
<1>7. \A v \in Keys \cup {NoKey} : [rec EXCEPT !.key = v] \in RequestStates
  BY DEF RequestStates
<1>8. \A v \in Seq(Formats) : [rec EXCEPT !.formats = v] \in RequestStates
  BY DEF RequestStates
<1>9. \A v \in BOOLEAN : [rec EXCEPT !.known = v] \in RequestStates
  BY DEF RequestStates
<1>10. \A v \in Nat : [rec EXCEPT !.cand = v] \in RequestStates
  BY DEF RequestStates
<1>11. \A v \in BOOLEAN : [rec EXCEPT !.misfit = v] \in RequestStates
  BY DEF RequestStates
<1>12. \A v \in ErrorClasses \ {"cancelled"} : [rec EXCEPT !.error = v] \in RequestStates
  BY DEF RequestStates
<1>13. \A v \in Nat : [rec EXCEPT !.answers = v] \in RequestStates
  BY DEF RequestStates
<1>14. \A v \in Outcomes : [rec EXCEPT !.outcome = v] \in RequestStates
  BY DEF RequestStates
<1> QED
  BY <1>1, <1>2, <1>3, <1>4, <1>5, <1>6, <1>7, <1>8, <1>9, <1>10, <1>11, <1>12, <1>13, <1>14

(* The updates that several steps share. *)
LEMMA NextEntryFacts ==
    ASSUME NEW rec \in RequestStates, NEW n, n = NextEntry(rec)
    PROVE  /\ n \in RequestStates
           /\ n.pc = "pick" /\ n.cursor = rec.cursor + 1 /\ n.total = rec.total
           /\ n.answers = rec.answers /\ n.outcome = rec.outcome
<1> DEFINE a == [rec EXCEPT !.cursor = rec.cursor + 1]
           b == [a EXCEPT !.retries = -1]
<1>1. rec.cursor + 1 \in Nat \ {0} /\ -1 \in Int
  BY FieldTypes
<1>2. a \in RequestStates
  BY <1>1, FieldUpdates
<1>3. a.cursor = rec.cursor + 1 /\ a.total = rec.total /\ a.answers = rec.answers
      /\ a.outcome = rec.outcome
  BY DEF RequestStates
<1> HIDE DEF a
<1>4. b \in RequestStates
  BY <1>1, <1>2, FieldUpdates
<1>5. b.cursor = a.cursor /\ b.total = a.total /\ b.answers = a.answers /\ b.outcome = a.outcome
  BY <1>2 DEF RequestStates
<1> HIDE DEF b
<1>6. n = [b EXCEPT !.pc = "pick"]
  BY DEF a, b, NextEntry
<1>7. n \in RequestStates
  BY <1>4, <1>6, FieldUpdates DEF PCs
<1>8. n.pc = "pick" /\ n.cursor = b.cursor /\ n.total = b.total /\ n.answers = b.answers
      /\ n.outcome = b.outcome
  BY <1>4, <1>6 DEF RequestStates
<1> QED
  BY <1>3, <1>5, <1>7, <1>8

(* What admitting a request sets and what it leaves. *)
LEMMA AdmitFacts ==
    ASSUME NEW rec \in RequestStates, NEW n, n = Admit(rec)
    PROVE  /\ n \in RequestStates
           /\ n.pc = "admit" /\ n.cursor = rec.cursor /\ n.total = rec.total
           /\ n.answers = rec.answers /\ n.outcome = rec.outcome
<1> DEFINE a == [rec EXCEPT !.pc = "admit"]
           c == IF rec.certified = 0 THEN rec.cursor ELSE rec.certified
<1>1. a \in RequestStates
  BY FieldUpdates DEF PCs
<1>2. a.pc = "admit" /\ a.cursor = rec.cursor /\ a.total = rec.total /\ a.answers = rec.answers
      /\ a.outcome = rec.outcome /\ a.certified = rec.certified
  BY DEF RequestStates
<1>3. c \in Nat
  BY FieldTypes
<1>4. n = [a EXCEPT !.certified = c]
  BY <1>2 DEF Admit
<1> HIDE DEF a, c
<1>5. n \in RequestStates
  BY <1>1, <1>3, <1>4, FieldUpdates
<1>6. n.pc = a.pc /\ n.cursor = a.cursor /\ n.total = a.total /\ n.answers = a.answers
      /\ n.outcome = a.outcome
  BY <1>1, <1>4 DEF RequestStates
<1> QED
  BY <1>2, <1>5, <1>6

(* What finishing a request sets: it is done, and answered unless it was cancelled. *)
LEMMA FinishFacts ==
    ASSUME NEW rec \in RequestStates, NEW o \in Outcomes, NEW n, n = Finish(rec, o)
    PROVE  /\ n \in RequestStates
           /\ n.pc = "done" /\ n.cursor = rec.cursor /\ n.total = rec.total
           /\ n.answers = rec.answers + (IF o = "cancelled" THEN 0 ELSE 1) /\ n.outcome = o
           /\ n.cand = rec.cand
<1> DEFINE a == [rec EXCEPT !.pc = "done"]
           b == [a EXCEPT !.outcome = o]
           c == rec.answers + (IF o = "cancelled" THEN 0 ELSE 1)
<1>1. a \in RequestStates
  BY FieldUpdates DEF PCs
<1>2. a.pc = "done" /\ a.cursor = rec.cursor /\ a.total = rec.total /\ a.answers = rec.answers
      /\ a.cand = rec.cand
  BY DEF RequestStates
<1> HIDE DEF a
<1>3. b \in RequestStates
  BY <1>1, FieldUpdates
<1>4. b.pc = a.pc /\ b.cursor = a.cursor /\ b.total = a.total /\ b.answers = a.answers
      /\ b.outcome = o /\ b.cand = a.cand
  BY <1>1 DEF RequestStates
<1>5. c \in Nat
  BY FieldTypes
<1>6. n = [b EXCEPT !.answers = c]
  BY <1>2, <1>4 DEF Finish, a, b
<1> HIDE DEF b, c
<1>7. n \in RequestStates
  BY <1>3, <1>5, <1>6, FieldUpdates
<1>8. n.pc = b.pc /\ n.cursor = b.cursor /\ n.total = b.total /\ n.answers = c
      /\ n.outcome = b.outcome /\ n.cand = b.cand
  BY <1>3, <1>6 DEF RequestStates
<1> QED
  BY <1>2, <1>4, <1>7, <1>8 DEF c

-----------------------------------------------------------------------------
(* Steps of one request. *)

(* The entry a request works on is one of its plan. *)
LEMMA EntryType ==
    ASSUME NEW q \in Requests, Types, InPlan(q)
    PROVE  /\ RouteOf(q) \in Routes
           /\ Entry(q).retries \in Nat
           /\ KeyOf[RouteOf(q)] \in Keys
<1>1. Plan[q] \in Seq(Entries) /\ req[q].cursor \in 1..Len(Plan[q])
  BY PlanAssumption DEF Types, RequestStates, InPlan
<1>2. Plan[q][req[q].cursor] \in Entries
  BY <1>1
<1> QED
  BY <1>2, KeyAssumption DEF RouteOf, Entry, Entries

(* A step of q changes the record of q alone. *)
LEMMA OwnStep ==
    ASSUME Types, RequestsInv, NEW q \in Requests, NEW n \in RequestStates,
           Becomes(q, n), RequestInv(q, n)
    PROVE  /\ req' \in [Requests -> RequestStates]
           /\ req'[q] = n
           /\ \A p \in Requests \ {q} : req'[p] = req[p]
           /\ RequestsInv'
<1>1. /\ req' \in [Requests -> RequestStates]
      /\ req'[q] = n
      /\ \A p \in Requests \ {q} : req'[p] = req[p]
  BY DEF Becomes, Types
<1>2. \A p \in Requests : RequestInv(p, req'[p])
  BY <1>1 DEF RequestsInv
<1> QED
  BY <1>1, <1>2 DEF RequestsInv

(* A step of a request that neither takes nor holds a lock. *)
LEMMA LocalStep ==
    ASSUME ExecuteInv, NEW q \in Requests, NEW n \in RequestStates,
           Becomes(q, n), RequestInv(q, n), UNCHANGED shared,
           req[q].pc \notin Holding, n.pc \notin Holding,
           n.pc \in {"attempt", "decide"} /\ n.key = KeyOf[Plan[q][n.cursor].route]
              => n.key \notin spent[q]
    PROVE  ExecuteInv'
<1>1. /\ req' \in [Requests -> RequestStates]
      /\ req'[q] = n
      /\ \A p \in Requests \ {q} : req'[p] = req[p]
      /\ RequestsInv'
  BY OwnStep DEF ExecuteInv
<1>2. Types'
  BY <1>1 DEF ExecuteInv, Types, shared
<1>3. LockInv'
  BY <1>1 DEF ExecuteInv, LockInv, shared, RouteOf, Entry
<1>4. FormatInv' /\ VerdictInv'
  BY <1>1 DEF ExecuteInv, FormatInv, VerdictInv, shared, RouteOf, Entry, Holding
<1>5. SpentInv'
  BY <1>1 DEF ExecuteInv, SpentInv, shared, RouteOf, Entry, Holding
<1> QED
  BY <1>1, <1>2, <1>3, <1>4, <1>5 DEF ExecuteInv
-----------------------------------------------------------------------------
(* One lemma per action: the record it leaves, and that the invariant holds. *)

(* What is known of the record of a request before each step. *)
LEMMA Now ==
    ASSUME ExecuteInv, NEW q \in Requests
    PROVE  /\ req[q] \in RequestStates
           /\ RequestInv(q, req[q])
           /\ Len(Plan[q]) \in Nat
           /\ MaximumAttempts \in Nat \ {0}
  BY PlanAssumption, BudgetAssumption DEF ExecuteInv, Types, RequestsInv

(* A request moves on without touching anything else. *)
LEMMA MovesOn ==
    ASSUME ExecuteInv, NEW q \in Requests, NEW n, n \in RequestStates, Becomes(q, n),
           UNCHANGED shared,
           req[q].pc \notin Holding \cup {"done"},
           n.pc \in {"pick", "ensure", "admit"},
           n.total \in Nat, n.total <= MaximumAttempts,
           n.pc # "pick" => n.cursor <= Len(Plan[q]) /\ n.total < MaximumAttempts,
           n.answers = req[q].answers, n.outcome = req[q].outcome
    PROVE  ExecuteInv'
<1>1. RequestInv(q, n)
  BY Now DEF RequestInv, Budget, Holding
<1> QED
  BY <1>1, LocalStep DEF Holding

(* A request ends without holding a lock. *)
LEMMA Ends ==
    ASSUME ExecuteInv, NEW q \in Requests, NEW o \in Outcomes \ {"none"},
           Becomes(q, Finish(req[q], o)), UNCHANGED shared,
           req[q].pc \notin Holding \cup {"done"},
           o \in {"failed", "limited"}
             => req[q].cursor >= Len(Plan[q]) \/ req[q].total >= MaximumAttempts
    PROVE  ExecuteInv'
<1> DEFINE n == Finish(req[q], o)
<1>1. /\ n \in RequestStates
      /\ n.pc = "done" /\ n.cursor = req[q].cursor /\ n.total = req[q].total
      /\ n.answers = req[q].answers + (IF o = "cancelled" THEN 0 ELSE 1) /\ n.outcome = o
  BY Now, FinishFacts
<1>2. Becomes(q, n)
  OBVIOUS
<1> HIDE DEF n
<1>3. RequestInv(q, n)
  BY <1>1, Now DEF RequestInv, Budget, Holding
<1> QED
  BY <1>1, <1>2, <1>3, LocalStep DEF Holding

(* The steps between two attempts keep the invariant. *)
LEMMA PicksKeep ==
    ASSUME ExecuteInv, NEW q \in Requests,
           \/ Arrive(q) \/ BudgetSpent(q) \/ PlanExhausted(q) \/ AdmitDirectly(q)
           \/ WaitOver(q) \/ ClientLeaves(q)
    PROVE  ExecuteInv'
<1>1. CASE Arrive(q) \/ WaitOver(q)
  <2> DEFINE n == [req[q] EXCEPT !.pc = "pick"]
  <2>1. n \in RequestStates
    BY Now, FieldUpdates DEF PCs
  <2>2. n.pc = "pick" /\ n.total = req[q].total /\ n.answers = req[q].answers
        /\ n.outcome = req[q].outcome
    BY Now DEF RequestStates
  <2>3. Becomes(q, n) /\ UNCHANGED shared /\ req[q].pc \in {"idle", "waiting"}
    BY <1>1 DEF Arrive, WaitOver, Goto, At
  <2> HIDE DEF n
  <2>4. n.total \in Nat /\ n.total <= MaximumAttempts
    BY <2>2, Now, FieldTypes DEF RequestInv, Budget
  <2> QED
    BY <2>1, <2>2, <2>3, <2>4, MovesOn DEF Holding
<1>2. CASE BudgetSpent(q)
  BY <1>2, Ends DEF BudgetSpent, At, Holding, Outcomes
<1>3. CASE PlanExhausted(q)
  <2> DEFINE o == IF req[q].certified = 0 THEN "no_route"
                  ELSE IF req[q].limited THEN "limited" ELSE "failed"
  <2>1. o \in Outcomes \ {"none"}
    BY DEF Outcomes
  <2>2. Becomes(q, Finish(req[q], o)) /\ UNCHANGED shared /\ req[q].pc = "pick"
    BY <1>3 DEF PlanExhausted, Picks, At
  <2>3. req[q].cursor >= Len(Plan[q])
    BY <1>3, Now, FieldTypes DEF PlanExhausted, InPlan
  <2> HIDE DEF o
  <2> QED
    BY <2>1, <2>2, <2>3, Ends DEF Holding
<1>4. CASE AdmitDirectly(q)
  <2> DEFINE n == Admit(req[q])
  <2>1. /\ n \in RequestStates
        /\ n.pc = "admit" /\ n.cursor = req[q].cursor /\ n.total = req[q].total
        /\ n.answers = req[q].answers /\ n.outcome = req[q].outcome
    BY Now, AdmitFacts
  <2>2. /\ Becomes(q, n) /\ UNCHANGED shared /\ req[q].pc = "pick"
        /\ req[q].total < MaximumAttempts /\ req[q].cursor <= Len(Plan[q])
    BY <1>4 DEF AdmitDirectly, Picks, At, InPlan
  <2> HIDE DEF n
  <2> QED
    BY <2>1, <2>2, Now, FieldTypes, MovesOn DEF Holding
<1>5. CASE ClientLeaves(q)
  BY <1>5, Ends DEF ClientLeaves, At, Holding, Outcomes
<1> QED
  BY <1>1, <1>2, <1>3, <1>4, <1>5

(* A request takes the lock of its route. *)
LEMMA Acquires ==
    ASSUME ExecuteInv, NEW q \in Requests, NEW n \in RequestStates,
           Becomes(q, n), RequestInv(q, n),
           req[q].pc \notin Holding, n.pc \in Holding, n.cursor = req[q].cursor,
           RouteOf(q) \in Routes, lock[RouteOf(q)] = Free,
           lock' = [lock EXCEPT ![RouteOf(q)] = q],
           UNCHANGED <<blocked, learned, verdict, clients, spent>>,
           n.pc = "probing" => verdict[RouteOf(q)] = "unknown",
           n.pc = "calling" =>
              /\ learned[RouteOf(q)] # NoFormat =>
                    n.formats = <<learned[RouteOf(q)]>> /\ n.known /\ ~n.misfit
              /\ n.key = KeyOf[RouteOf(q)] => n.key \notin spent[q]
    PROVE  ExecuteInv'
<1>1. /\ req' \in [Requests -> RequestStates]
      /\ req'[q] = n
      /\ \A p \in Requests \ {q} : req'[p] = req[p]
      /\ RequestsInv'
  BY OwnStep DEF ExecuteInv
<1>2. RouteOf(q)' = RouteOf(q) /\ \A p \in Requests \ {q} : RouteOf(p)' = RouteOf(p)
  BY <1>1 DEF RouteOf, Entry
<1>3. Types'
  BY <1>1 DEF ExecuteInv, Types
<1>4. LockInv'
  BY <1>1, <1>2, LockAssumption DEF ExecuteInv, Types, LockInv
<1>5. FormatInv' /\ VerdictInv'
  BY <1>1, <1>2 DEF ExecuteInv, FormatInv, VerdictInv
<1>6. SpentInv'
  BY <1>1, <1>2 DEF ExecuteInv, SpentInv, Holding
<1> QED
  BY <1>1, <1>3, <1>4, <1>5, <1>6 DEF ExecuteInv

(* A request that holds the lock of its route works on it, and nobody else does. *)
LEMMA Holds ==
    ASSUME ExecuteInv, NEW q \in Requests, req[q].pc \in Holding
    PROVE  /\ RouteOf(q) \in Routes /\ lock[RouteOf(q)] = q
           /\ \A p \in Requests \ {q} : req[p].pc \in Holding => RouteOf(p) # RouteOf(q)
<1>1. \A p \in Requests : req[p].pc \in Holding => RouteOf(p) \in Routes
  BY Now, EntryType DEF RequestInv, Holding, InPlan, ExecuteInv
<1>2. \A p \in Requests : req[p].pc \in Holding => lock[RouteOf(p)] = p
  BY <1>1 DEF ExecuteInv, LockInv
<1> QED
  BY <1>1, <1>2

(* A request gives up the lock of its route, after what it found out about *)
(* this route was stored.                                                  *)
LEMMA Releases ==
    ASSUME ExecuteInv, NEW q \in Requests, NEW n \in RequestStates,
           Becomes(q, n), RequestInv(q, n),
           req[q].pc \in Holding, n.pc \notin Holding \cup {"attempt"},
           lock' = [lock EXCEPT ![RouteOf(q)] = Free],
           learned' \in [Routes -> Formats \cup {NoFormat}],
           verdict' \in [Routes -> {"unknown", "yes", "no"}],
           \A r \in Routes \ {RouteOf(q)} : learned'[r] = learned[r] /\ verdict'[r] = verdict[r],
           UNCHANGED <<blocked, clients, spent>>,
           n.pc = "decide" => /\ req[q].pc = "calling"
                              /\ n.cursor = req[q].cursor /\ n.key = req[q].key
    PROVE  ExecuteInv'
<1>1. /\ req' \in [Requests -> RequestStates]
      /\ req'[q] = n
      /\ \A p \in Requests \ {q} : req'[p] = req[p]
      /\ RequestsInv'
  BY OwnStep DEF ExecuteInv
<1>2. \A p \in Requests \ {q} : RouteOf(p)' = RouteOf(p)
  BY <1>1 DEF RouteOf, Entry
<1>3. Types'
  BY <1>1 DEF ExecuteInv, Types
<1>4. LockInv'
  BY <1>1, <1>2, Holds, LockAssumption DEF ExecuteInv, Types, LockInv
<1>5. \A p \in Requests \ {q} : req[p].pc \in Holding => RouteOf(p) \in Routes \ {RouteOf(q)}
  BY Holds
<1>6. FormatInv' /\ VerdictInv'
  BY <1>1, <1>2, <1>5 DEF ExecuteInv, FormatInv, VerdictInv, Holding
<1>7. n.pc = "decide" => RouteOf(q)' = RouteOf(q)
  BY <1>1 DEF RouteOf, Entry
<1>8. SpentInv'
  BY <1>1, <1>2, <1>7 DEF ExecuteInv, SpentInv, Holding
<1> QED
  BY <1>1, <1>3, <1>4, <1>6, <1>8 DEF ExecuteInv

(* The steps that look for the wire format of a route keep the invariant. *)
LEMMA EnsuresKeep ==
    ASSUME ExecuteInv, NEW q \in Requests,
           \/ EnsureKnown(q) \/ EnsureUnprobed(q) \/ EnsureLocked(q) \/ Probed(q)
    PROVE  ExecuteInv'
<1> DEFINE a == Admit(req[q])
           e == NextEntry(req[q])
<1>1. /\ a \in RequestStates /\ a.pc = "admit" /\ a.cursor = req[q].cursor
      /\ a.total = req[q].total /\ a.answers = req[q].answers /\ a.outcome = req[q].outcome
  BY Now, AdmitFacts
<1>2. /\ e \in RequestStates /\ e.pc = "pick" /\ e.total = req[q].total
      /\ e.answers = req[q].answers /\ e.outcome = req[q].outcome
  BY Now, NextEntryFacts
<1>3. \A v : AfterVerdict(q, v) => Becomes(q, a) \/ Becomes(q, e)
  BY DEF AfterVerdict
<1>4. req[q].total \in Nat /\ req[q].total < MaximumAttempts /\ req[q].cursor <= Len(Plan[q])
      /\ req[q].pc \in {"pick", "ensure", "probing"}
  BY Now, FieldTypes DEF RequestInv, Budget, EnsureKnown, EnsureUnprobed, EnsureLocked, Probed,
       Picks, At, InPlan
<1> HIDE DEF a, e
<1>5. req[q].pc # "probing" /\ Becomes(q, a) /\ UNCHANGED shared => ExecuteInv'
  BY <1>1, <1>4, Now, MovesOn DEF Holding
<1>6. req[q].pc # "probing" /\ Becomes(q, e) /\ UNCHANGED shared => ExecuteInv'
  BY <1>2, <1>4, Now, MovesOn DEF Holding
<1>7. CASE EnsureKnown(q)
  <2>1. (Becomes(q, a) \/ Becomes(q, e)) /\ UNCHANGED shared /\ req[q].pc = "pick"
    BY <1>3, <1>7 DEF EnsureKnown, Picks, At
  <2> QED
    BY <2>1, <1>5, <1>6
<1>8. CASE EnsureUnprobed(q)
  <2> DEFINE n == [req[q] EXCEPT !.pc = "ensure"]
  <2>1. n \in RequestStates
    BY Now, FieldUpdates DEF PCs
  <2>2. n.pc = "ensure" /\ n.cursor = req[q].cursor /\ n.total = req[q].total
        /\ n.answers = req[q].answers /\ n.outcome = req[q].outcome
    BY Now DEF RequestStates
  <2>3. (Becomes(q, n) \/ Becomes(q, e)) /\ UNCHANGED shared /\ req[q].pc = "pick"
    BY <1>8 DEF EnsureUnprobed, Goto, Picks, At, e
  <2> HIDE DEF n
  <2> QED
    <3>1. CASE Becomes(q, n)
      BY <2>1, <2>2, <2>3, <3>1, <1>4, Now, MovesOn DEF Holding
    <3> QED
      BY <2>3, <3>1, <1>6
<1>9. CASE EnsureLocked(q) /\ verdict[RouteOf(q)] # "unknown"
  <2>1. (Becomes(q, a) \/ Becomes(q, e)) /\ UNCHANGED shared /\ req[q].pc = "ensure"
    BY <1>3, <1>9 DEF EnsureLocked, At, shared
  <2> QED
    BY <2>1, <1>5, <1>6
<1>10. CASE EnsureLocked(q) /\ verdict[RouteOf(q)] = "unknown"
  <2> DEFINE n == [req[q] EXCEPT !.pc = "probing"]
  <2>1. n \in RequestStates
    BY Now, FieldUpdates DEF PCs
  <2>2. n.pc = "probing" /\ n.cursor = req[q].cursor /\ n.total = req[q].total
        /\ n.answers = req[q].answers /\ n.outcome = req[q].outcome
    BY Now DEF RequestStates
  <2>3. /\ Becomes(q, n) /\ req[q].pc = "ensure" /\ lock[RouteOf(q)] = Free
        /\ lock' = [lock EXCEPT ![RouteOf(q)] = q]
        /\ UNCHANGED <<blocked, learned, verdict, clients, spent>>
    BY <1>10 DEF EnsureLocked, Goto, At, LockAvailable
  <2> HIDE DEF n
  <2>4. RequestInv(q, n)
    BY <2>2, <2>3, <1>4, Now DEF RequestInv, Budget
  <2>5. RouteOf(q) \in Routes
    BY <1>4, EntryType DEF ExecuteInv, InPlan
  <2> QED
    BY <2>1, <2>2, <2>3, <2>4, <2>5, <1>10, Acquires DEF Holding
<1>11. CASE Probed(q)
  <2>1. PICK v \in {"yes", "no", "unknown"} :
            /\ verdict' = [verdict EXCEPT ![RouteOf(q)] = IF v = "unknown" THEN @ ELSE v]
            /\ AfterVerdict(q, v)
    BY <1>11 DEF Probed
  <2>2. PICK n \in {a, e} : Becomes(q, n)
    BY <1>3, <2>1
  <2>3. n \in RequestStates /\ RequestInv(q, n) /\ n.pc \in {"admit", "pick"}
    BY <2>2, <1>1, <1>2, <1>4, Now DEF RequestInv, Budget
  <2>4. verdict' \in [Routes -> {"unknown", "yes", "no"}]
    BY <2>1 DEF ExecuteInv, Types
  <2>5. \A r \in Routes \ {RouteOf(q)} : verdict'[r] = verdict[r]
    BY <2>1 DEF ExecuteInv, Types
  <2>6. /\ lock' = [lock EXCEPT ![RouteOf(q)] = Free] /\ req[q].pc = "probing"
        /\ UNCHANGED <<blocked, learned, clients, spent>>
    BY <1>11 DEF Probed, At
  <2>7. learned' \in [Routes -> Formats \cup {NoFormat}]
    BY <2>6 DEF ExecuteInv, Types
  <2> QED
    BY <2>2, <2>3, <2>4, <2>5, <2>6, <2>7, Releases DEF Holding
<1> QED
  BY <1>7, <1>8, <1>9, <1>10, <1>11

(* Skipping a blocked account, a missing client and the start of an attempt keep it. *)
LEMMA AdmissionKeeps ==
    ASSUME ExecuteInv, NEW q \in Requests, SkipBlocked(q) \/ NoClient(q) \/ StartAttempt(q)
    PROVE  ExecuteInv'
<1> DEFINE e == NextEntry(req[q])
<1>1. /\ e \in RequestStates /\ e.pc = "pick" /\ e.total = req[q].total
      /\ e.answers = req[q].answers /\ e.outcome = req[q].outcome
  BY Now, NextEntryFacts
<1>2. req[q].total \in Nat /\ req[q].total < MaximumAttempts /\ req[q].cursor <= Len(Plan[q])
      /\ req[q].pc = "admit"
  BY Now, FieldTypes DEF RequestInv, Budget, SkipBlocked, NoClient, StartAttempt, At
<1>3. CASE SkipBlocked(q)
  <2> DEFINE n == [e EXCEPT !.limited = TRUE]
  <2>1. Becomes(q, n) /\ UNCHANGED shared
    BY <1>3 DEF SkipBlocked
  <2> HIDE DEF e
  <2>2. n \in RequestStates
    BY <1>1, FieldUpdates
  <2>3. n.pc = "pick" /\ n.total = req[q].total /\ n.answers = req[q].answers
        /\ n.outcome = req[q].outcome
    BY <1>1 DEF RequestStates
  <2> HIDE DEF n
  <2> QED
    BY <2>1, <2>2, <2>3, <1>2, Now, MovesOn DEF Holding
<1>4. CASE NoClient(q)
  <2> DEFINE n == [e EXCEPT !.total = req[q].total + 1]
  <2>1. Becomes(q, n) /\ UNCHANGED shared
    BY <1>1, <1>4 DEF NoClient
  <2> HIDE DEF e
  <2>2. req[q].total + 1 \in Nat
    BY <1>2
  <2>3. n \in RequestStates
    BY <1>1, <2>2, FieldUpdates
  <2>4. n.pc = "pick" /\ n.total = req[q].total + 1 /\ n.answers = req[q].answers
        /\ n.outcome = req[q].outcome
    BY <1>1 DEF RequestStates
  <2> HIDE DEF n
  <2> QED
    BY <2>1, <2>2, <2>3, <2>4, <1>2, Now, MovesOn DEF Holding
<1>5. CASE StartAttempt(q)
  <2>1. /\ RouteOf(q) \in Routes /\ Entry(q).retries \in Nat /\ KeyOf[RouteOf(q)] \in Keys
        /\ blocked[KeyOf[RouteOf(q)]] = "no"
    BY <1>2, <1>5, EntryType DEF ExecuteInv, InPlan, StartAttempt
  <2>2. PICK k \in ClientsFor(RouteOf(q)) :
           Becomes(q, [req[q] EXCEPT !.pc = "attempt", !.key = k, !.total = @ + 1,
                                     !.retries = IF @ < 0 THEN Entry(q).retries ELSE @])
    BY <1>5 DEF StartAttempt
  <2>3. k \in Keys
    BY KeyAssumption, <2>1 DEF ClientsFor, ExecuteInv, Types
  <2> DEFINE a == [req[q] EXCEPT !.pc = "attempt"]
             b == [a EXCEPT !.key = k]
             c == [b EXCEPT !.total = req[q].total + 1]
             v == IF req[q].retries < 0 THEN Entry(q).retries ELSE req[q].retries
             n == [c EXCEPT !.retries = v]
  <2>4. a \in RequestStates
    BY Now, FieldUpdates DEF PCs
  <2>5. a.pc = "attempt" /\ a.cursor = req[q].cursor /\ a.total = req[q].total
        /\ a.answers = req[q].answers /\ a.outcome = req[q].outcome /\ a.retries = req[q].retries
    BY Now DEF RequestStates
  <2> HIDE DEF a
  <2>6. b \in RequestStates
    BY <2>3, <2>4, FieldUpdates
  <2>7. b.pc = a.pc /\ b.cursor = a.cursor /\ b.total = a.total /\ b.key = k
        /\ b.answers = a.answers /\ b.outcome = a.outcome /\ b.retries = a.retries
    BY <2>4 DEF RequestStates
  <2> HIDE DEF b
  <2>8. req[q].total + 1 \in Nat /\ v \in Int
    BY <1>2, <2>1, Now, FieldTypes
  <2>9. c \in RequestStates
    BY <2>6, <2>8, FieldUpdates
  <2>10. c.pc = b.pc /\ c.cursor = b.cursor /\ c.total = req[q].total + 1 /\ c.key = b.key
         /\ c.answers = b.answers /\ c.outcome = b.outcome /\ c.retries = b.retries
    BY <2>6 DEF RequestStates
  <2>11. Becomes(q, n)
    BY <2>2, <2>5, <2>7, <2>10 DEF a, b
  <2> HIDE DEF c, v
  <2>12. n \in RequestStates
    BY <2>8, <2>9, FieldUpdates
  <2>13. n.pc = c.pc /\ n.cursor = c.cursor /\ n.total = c.total /\ n.key = c.key
         /\ n.answers = c.answers /\ n.outcome = c.outcome
    BY <2>9 DEF RequestStates
  <2> HIDE DEF n
  <2>14. n.pc = "attempt" /\ n.cursor = req[q].cursor /\ n.total = req[q].total + 1 /\ n.key = k
         /\ n.answers = req[q].answers /\ n.outcome = req[q].outcome
    BY <2>5, <2>7, <2>10, <2>13
  <2>15. RequestInv(q, n)
    BY <2>3, <2>14, <1>2, Now DEF RequestInv, Budget
  <2>16. n.key = KeyOf[Plan[q][n.cursor].route] => n.key \notin spent[q]
    BY <2>1, <2>14 DEF ExecuteInv, SpentInv, RouteOf, Entry
  <2>17. UNCHANGED shared
    BY <1>5 DEF StartAttempt
  <2> QED
    BY <2>11, <2>12, <2>14, <2>15, <2>16, <2>17, <1>2, LocalStep DEF Holding
<1> QED
  BY <1>3, <1>4, <1>5

(* The candidates fit in the budget, and there is one. *)
LEMMA CandidatesFit ==
    ASSUME ExecuteInv, NEW q \in Requests, At(q, "attempt")
    PROVE  /\ KnownFormat(q) \in Formats \cup {NoFormat}
           /\ CandidateFormats(q) \in Seq(Formats)
           /\ Len(CandidateFormats(q)) \in Nat \ {0}
           /\ req[q].total + Len(CandidateFormats(q)) - 1 <= MaximumAttempts
<1>1. /\ RouteOf(q) \in Routes /\ req[q].key \in Keys
      /\ req[q].total \in Nat \ {0} /\ req[q].total <= MaximumAttempts
      /\ MaximumAttempts \in Nat
  BY Now, EntryType, FieldTypes DEF At, RequestInv, Budget, InPlan, ExecuteInv
<1>2. KnownFormat(q) \in Formats \cup {NoFormat}
  BY <1>1, FormatAssumption DEF KnownFormat, ExecuteInv, Types
<1>3. CASE KnownFormat(q) # NoFormat
  <2>1. CandidateFormats(q) = <<KnownFormat(q)>> /\ KnownFormat(q) \in Formats
    BY <1>2, <1>3 DEF CandidateFormats
  <2> QED
    BY <1>1, <1>2, <2>1
<1>4. CASE KnownFormat(q) = NoFormat
  <2> DEFINE all == FormatOrder[q]
             m == IF Len(all) > Room(q) THEN Room(q) ELSE Len(all)
  <2>1. all \in Seq(Formats) /\ all # <<>>
    BY FormatAssumption
  <2>2. Len(all) \in Nat \ {0}
    BY <2>1
  <2>3. m \in 1..Len(all) /\ m <= Room(q) /\ Room(q) = MaximumAttempts - req[q].total + 1
    BY <1>1, <2>2 DEF Room
  <2>4. CandidateFormats(q) = SubSeq(all, 1, m)
    BY <1>4 DEF CandidateFormats
  <2> HIDE DEF all, m
  <2>5. SubSeq(all, 1, m) \in Seq(Formats) /\ Len(SubSeq(all, 1, m)) = m
    BY <2>1, <2>2, <2>3
  <2> QED
    BY <1>1, <1>2, <2>2, <2>3, <2>4, <2>5
<1> QED
  BY <1>3, <1>4

(* Taking the lock of a route whose format is not known keeps the invariant. *)
LEMMA LockFormatKeeps ==
    ASSUME ExecuteInv, NEW q \in Requests, LockFormat(q)
    PROVE  ExecuteInv'
<1> DEFINE a == [req[q] EXCEPT !.pc = "calling"]
           k == KnownFormat(q) # NoFormat
           b == [a EXCEPT !.known = k]
           f == CandidateFormats(q)
           c == [b EXCEPT !.formats = f]
           d == [c EXCEPT !.cand = 1]
           n == [d EXCEPT !.misfit = FALSE]
<1>1. /\ Becomes(q, n) /\ req[q].pc = "attempt" /\ lock[RouteOf(q)] = Free
      /\ lock' = [lock EXCEPT ![RouteOf(q)] = q]
      /\ UNCHANGED <<blocked, learned, verdict, clients, spent>>
  BY DEF LockFormat, At, LockAvailable
<1>2. /\ f \in Seq(Formats) /\ Len(f) \in Nat \ {0}
      /\ req[q].total + Len(f) - 1 <= MaximumAttempts
  BY <1>1, CandidatesFit DEF At
<1>3. learned[RouteOf(q)] # NoFormat => k /\ f = <<learned[RouteOf(q)]>>
  BY DEF KnownFormat, CandidateFormats
<1>4. k \in BOOLEAN
  OBVIOUS
<1> HIDE DEF k, f
<1>5. a \in RequestStates
  BY Now, FieldUpdates DEF PCs
<1>6. a.pc = "calling" /\ a.cursor = req[q].cursor /\ a.total = req[q].total /\ a.key = req[q].key
      /\ a.answers = req[q].answers /\ a.outcome = req[q].outcome
  BY Now DEF RequestStates
<1> HIDE DEF a
<1>7. b \in RequestStates
  BY <1>4, <1>5, FieldUpdates
<1>8. b.pc = a.pc /\ b.cursor = a.cursor /\ b.total = a.total /\ b.key = a.key
      /\ b.answers = a.answers /\ b.outcome = a.outcome /\ b.known = k
  BY <1>5 DEF RequestStates
<1> HIDE DEF b
<1>9. c \in RequestStates
  BY <1>2, <1>7, FieldUpdates
<1>10. c.pc = b.pc /\ c.cursor = b.cursor /\ c.total = b.total /\ c.key = b.key
       /\ c.answers = b.answers /\ c.outcome = b.outcome /\ c.known = b.known /\ c.formats = f
  BY <1>7 DEF RequestStates
<1> HIDE DEF c
<1>11. d \in RequestStates
  BY <1>9, FieldUpdates
<1>12. d.pc = c.pc /\ d.cursor = c.cursor /\ d.total = c.total /\ d.key = c.key
       /\ d.answers = c.answers /\ d.outcome = c.outcome /\ d.known = c.known
       /\ d.formats = c.formats /\ d.cand = 1
  BY <1>9 DEF RequestStates
<1> HIDE DEF d
<1>13. n \in RequestStates
  BY <1>11, FieldUpdates
<1>14. n.pc = d.pc /\ n.cursor = d.cursor /\ n.total = d.total /\ n.key = d.key
       /\ n.answers = d.answers /\ n.outcome = d.outcome /\ n.known = d.known
       /\ n.formats = d.formats /\ n.cand = d.cand /\ n.misfit = FALSE
  BY <1>11 DEF RequestStates
<1> HIDE DEF n
<1>15. n.pc = "calling" /\ n.cursor = req[q].cursor /\ n.total = req[q].total
       /\ n.key = req[q].key /\ n.answers = req[q].answers /\ n.outcome = req[q].outcome
       /\ n.known = k /\ n.formats = f /\ n.cand = 1 /\ n.misfit = FALSE
  BY <1>6, <1>8, <1>10, <1>12, <1>14
<1>16. RouteOf(q) \in Routes /\ RequestInv(q, req[q])
  BY <1>1, Now, EntryType DEF RequestInv, InPlan, ExecuteInv
<1>17. RequestInv(q, n)
  BY <1>1, <1>2, <1>15, <1>16, Now, FieldTypes DEF RequestInv, Budget
<1>18. n.key = KeyOf[RouteOf(q)] => n.key \notin spent[q]
  BY <1>1, <1>15 DEF ExecuteInv, SpentInv
<1> QED
  BY <1>1, <1>3, <1>13, <1>15, <1>16, <1>17, <1>18, Acquires DEF Holding

(* What is counted when a route is left at candidate c of l. *)
LEMMA CandidatesCounted ==
    ASSUME NEW total \in Nat, NEW l \in Nat, NEW c \in 1..l, NEW limit \in Nat,
           total + l - 1 <= limit
    PROVE  total + c - 1 \in Nat /\ total + c - 1 <= limit
BY SMT

(* Leaving a route: the lock is free again and what was used is counted. *)
LEMMA LeaveKeeps ==
    ASSUME ExecuteInv, NEW q \in Requests, NEW rec \in RequestStates, Leave(q, rec),
           req[q].pc = "calling", rec.pc \in {"decide", "done"},
           rec.cursor = req[q].cursor, rec.total = req[q].total, rec.cand = req[q].cand,
           rec.pc = "decide" => /\ rec.outcome = "none" /\ rec.answers = 0
                                /\ rec.key = req[q].key,
           rec.pc = "done" => /\ rec.outcome \in Outcomes \ {"none", "cancelled", "failed", "limited"}
                              /\ rec.answers = 1,
           learned' \in [Routes -> Formats \cup {NoFormat}],
           \A r \in Routes \ {RouteOf(q)} : learned'[r] = learned[r],
           UNCHANGED <<blocked, verdict, clients, spent>>
    PROVE  ExecuteInv'
<1> DEFINE t == rec.total + rec.cand - 1
           n == [rec EXCEPT !.total = t]
<1>1. Becomes(q, n) /\ lock' = [lock EXCEPT ![RouteOf(q)] = Free]
  BY DEF Leave
<1>2. /\ req[q].cand \in 1..Len(req[q].formats) /\ Len(req[q].formats) \in Nat
      /\ req[q].total \in Nat /\ req[q].total + Len(req[q].formats) - 1 <= MaximumAttempts
      /\ req[q].cursor <= Len(Plan[q]) /\ MaximumAttempts \in Nat
  BY Now, FieldTypes DEF RequestInv, Budget
<1>3. t \in Nat /\ t <= MaximumAttempts
  <2>1. t = req[q].total + req[q].cand - 1
    OBVIOUS
  <2> HIDE DEF t
  <2> QED
    BY <1>2, <2>1, CandidatesCounted, SMTT(60)
<1> HIDE DEF t
<1>4. n \in RequestStates
  BY <1>3, FieldUpdates
<1>5. n.total = t /\ n.pc = rec.pc /\ n.cursor = rec.cursor /\ n.key = rec.key
      /\ n.answers = rec.answers /\ n.outcome = rec.outcome
  BY DEF RequestStates
<1> HIDE DEF n
<1>6. RequestInv(q, n)
  BY <1>2, <1>3, <1>5 DEF RequestInv, Budget
<1>7. verdict' \in [Routes -> {"unknown", "yes", "no"}]
  BY DEF ExecuteInv, Types
<1> QED
  BY <1>1, <1>4, <1>5, <1>6, <1>7, Releases DEF Holding

(* A failed candidate: the next one is called under the same lock, or the *)
(* route is left.                                                         *)
LEMMA CandidateFailedKeeps ==
    ASSUME ExecuteInv, NEW q \in Requests, NEW rec \in RequestStates, NEW tryNext \in BOOLEAN,
           CandidateFailed(q, rec, tryNext), UNCHANGED <<blocked, verdict, clients, spent>>,
           req[q].pc = "calling", rec.pc = "calling",
           rec.cursor = req[q].cursor, rec.total = req[q].total, rec.cand = req[q].cand,
           rec.key = req[q].key, rec.formats = req[q].formats, rec.known = req[q].known,
           rec.answers = req[q].answers, rec.outcome = req[q].outcome,
           rec.misfit => learned[RouteOf(q)] = NoFormat
    PROVE  ExecuteInv'
<1>1. RouteOf(q) \in Routes /\ RequestInv(q, req[q]) /\ MaximumAttempts \in Nat
  BY Now, EntryType DEF RequestInv, InPlan, ExecuteInv
<1>2. CASE tryNext /\ rec.cand < Len(rec.formats)
  <2> DEFINE n == [rec EXCEPT !.cand = rec.cand + 1]
  <2>1. Becomes(q, n) /\ UNCHANGED <<learned, lock>>
    BY <1>2 DEF CandidateFailed
  <2>2. rec.cand \in Nat /\ rec.cand + 1 \in Nat /\ Len(rec.formats) \in Nat
    BY FieldTypes
  <2>3. n \in RequestStates
    BY <2>2, FieldUpdates
  <2>4. n.pc = "calling" /\ n.cursor = req[q].cursor /\ n.total = req[q].total
        /\ n.key = req[q].key /\ n.formats = req[q].formats /\ n.known = req[q].known
        /\ n.answers = req[q].answers /\ n.outcome = req[q].outcome /\ n.misfit = rec.misfit
        /\ n.cand = rec.cand + 1
    BY DEF RequestStates
  <2> HIDE DEF n
  <2>5. RequestInv(q, n)
    BY <1>1, <1>2, <2>2, <2>4 DEF RequestInv, Budget
  <2>6. /\ req' \in [Requests -> RequestStates]
        /\ req'[q] = n
        /\ \A p \in Requests \ {q} : req'[p] = req[p]
        /\ RequestsInv'
    BY <2>1, <2>3, <2>5, OwnStep DEF ExecuteInv
  <2>7. \A p \in Requests : RouteOf(p)' = RouteOf(p)
    BY <2>4, <2>6 DEF RouteOf, Entry
  <2>8. Types'
    BY <2>1, <2>6 DEF ExecuteInv, Types
  <2>9. LockInv'
    BY <2>1, <2>4, <2>6, <2>7 DEF ExecuteInv, LockInv, Holding
  <2>10. FormatInv'
    BY <2>1, <2>4, <2>6, <2>7 DEF ExecuteInv, FormatInv
  <2>11. VerdictInv'
    BY <2>4, <2>6, <2>7 DEF ExecuteInv, VerdictInv
  <2>12. SpentInv'
    BY <2>4, <2>6, <2>7 DEF ExecuteInv, SpentInv
  <2> QED
    BY <2>6, <2>8, <2>9, <2>10, <2>11, <2>12 DEF ExecuteInv
<1>3. CASE ~(tryNext /\ rec.cand < Len(rec.formats))
  <2> DEFINE n == [rec EXCEPT !.pc = "decide"]
  <2>1. /\ Leave(q, n)
        /\ learned' = IF rec.misfit THEN [learned EXCEPT ![RouteOf(q)] = NoFormat] ELSE learned
    BY <1>3 DEF CandidateFailed
  <2>2. n \in RequestStates
    BY FieldUpdates DEF PCs
  <2>3. n.pc = "decide" /\ n.cursor = rec.cursor /\ n.total = rec.total /\ n.cand = rec.cand
        /\ n.key = rec.key /\ n.answers = rec.answers /\ n.outcome = rec.outcome
    BY DEF RequestStates
  <2> HIDE DEF n
  <2>4. rec.outcome = "none" /\ rec.answers = 0
    BY <1>1 DEF RequestInv
  <2>5. /\ learned' \in [Routes -> Formats \cup {NoFormat}]
        /\ \A r \in Routes \ {RouteOf(q)} : learned'[r] = learned[r]
    BY <2>1 DEF ExecuteInv, Types
  <2> QED
    BY <2>1, <2>2, <2>3, <2>4, <2>5, LeaveKeeps
<1> QED
  BY <1>2, <1>3

(* An attempt that fails keeps the invariant. *)
LEMMA FailuresKeep ==
    ASSUME ExecuteInv, NEW q \in Requests, CandidateUnusable(q) \/ CallFails(q)
    PROVE  ExecuteInv'
<1>1. req[q].pc = "calling" /\ UNCHANGED <<blocked, verdict, clients, spent>>
  BY DEF CandidateUnusable, CallFails, CanCall, At
<1>2. learned[RouteOf(q)] # NoFormat => req[q].known /\ ~req[q].misfit
  BY <1>1 DEF ExecuteInv, FormatInv
<1>3. req[q].misfit \in BOOLEAN /\ req[q].known \in BOOLEAN
  BY Now, FieldTypes
<1>4. CASE CandidateUnusable(q)
  <2> DEFINE n == [req[q] EXCEPT !.error = "transport"]
  <2>1. CandidateFailed(q, n, TRUE)
    BY <1>4 DEF CandidateUnusable
  <2>2. n \in RequestStates
    BY Now, FieldUpdates DEF ErrorClasses
  <2>3. n.pc = "calling" /\ n.cursor = req[q].cursor /\ n.total = req[q].total
        /\ n.cand = req[q].cand /\ n.key = req[q].key /\ n.formats = req[q].formats
        /\ n.known = req[q].known /\ n.answers = req[q].answers /\ n.outcome = req[q].outcome
        /\ n.misfit = req[q].misfit
    BY <1>1, Now DEF RequestStates
  <2> HIDE DEF n
  <2> QED
    BY <1>1, <1>2, <2>1, <2>2, <2>3, CandidateFailedKeeps
<1>5. CASE CallFails(q)
  <2>1. PICK f \in Failures :
           CandidateFailed(q, [req[q] EXCEPT !.error = f.class,
                                             !.misfit = @ \/ TriesNextFormat(q, f)],
                           TriesNextFormat(q, f))
    BY <1>5 DEF CallFails
  <2> DEFINE t == TriesNextFormat(q, f)
             a == [req[q] EXCEPT !.error = f.class]
             m == req[q].misfit \/ t
             n == [a EXCEPT !.misfit = m]
  <2>2. f.class \in ErrorClasses \ {"cancelled"} /\ f.evidence \in BOOLEAN
    BY FailureAssumption DEF FailureKinds
  <2>3. t \in BOOLEAN /\ m \in BOOLEAN /\ (t => ~req[q].known)
    BY <1>3, <2>2 DEF TriesNextFormat
  <2>4. m => learned[RouteOf(q)] = NoFormat
    BY <1>2, <2>3
  <2>5. a \in RequestStates
    BY <2>2, Now, FieldUpdates
  <2>6. a.pc = "calling" /\ a.cursor = req[q].cursor /\ a.total = req[q].total
        /\ a.cand = req[q].cand /\ a.key = req[q].key /\ a.formats = req[q].formats
        /\ a.known = req[q].known /\ a.answers = req[q].answers /\ a.outcome = req[q].outcome
        /\ a.misfit = req[q].misfit
    BY <1>1, Now DEF RequestStates
  <2>7. CandidateFailed(q, n, t)
    BY <2>1, <2>6
  <2> HIDE DEF a, m, t
  <2>8. n \in RequestStates
    BY <2>3, <2>5, FieldUpdates
  <2>9. n.pc = a.pc /\ n.cursor = a.cursor /\ n.total = a.total
        /\ n.cand = a.cand /\ n.key = a.key /\ n.formats = a.formats
        /\ n.known = a.known /\ n.answers = a.answers /\ n.outcome = a.outcome
        /\ n.misfit = m
    BY <2>5 DEF RequestStates
  <2> HIDE DEF n
  <2> QED
    BY <1>1, <2>3, <2>4, <2>6, <2>7, <2>8, <2>9, CandidateFailedKeeps
<1> QED
  BY <1>4, <1>5

(* An attempt that answers, to its end or not, keeps the invariant. *)
LEMMA AnswersKeep ==
    ASSUME ExecuteInv, NEW q \in Requests, Succeeds(q) \/ Breaks(q)
    PROVE  ExecuteInv'
<1>1. /\ req[q].pc = "calling" /\ UNCHANGED <<blocked, verdict, clients, spent>>
      /\ LearnFormat(q) \/ UNCHANGED learned
  BY DEF Succeeds, Breaks, CanCall, At
<1>2. PICK o \in {"answered", "unencodable", "partial"} : Leave(q, Finish(req[q], o))
  BY DEF Succeeds, Breaks
<1> DEFINE n == Finish(req[q], o)
<1>3. o \in Outcomes /\ Leave(q, n)
  BY <1>2 DEF Outcomes
<1>4. /\ n \in RequestStates
      /\ n.pc = "done" /\ n.cursor = req[q].cursor /\ n.total = req[q].total
      /\ n.answers = req[q].answers + (IF o = "cancelled" THEN 0 ELSE 1) /\ n.outcome = o
      /\ n.cand = req[q].cand
  BY <1>3, Now, FinishFacts
<1> HIDE DEF n
<1>5. req[q].answers = 0
  BY <1>1, Now DEF RequestInv
<1>6. RouteOf(q) \in Routes /\ Candidate(q) \in Formats
  BY <1>1, Now, EntryType, FieldTypes DEF RequestInv, InPlan, ExecuteInv, Candidate
<1>7. /\ learned' \in [Routes -> Formats \cup {NoFormat}]
      /\ \A r \in Routes \ {RouteOf(q)} : learned'[r] = learned[r]
  BY <1>1, <1>6 DEF LearnFormat, ExecuteInv, Types
<1> QED
  BY <1>1, <1>2, <1>3, <1>4, <1>5, <1>7, LeaveKeeps DEF Outcomes

(* The verdict on a failed route: the credential may be blocked, and the *)
(* request moves on, waits or ends.                                      *)
LEMMA Decides ==
    ASSUME ExecuteInv, NEW q \in Requests, NEW n \in RequestStates, Becomes(q, n),
           RequestInv(q, n), req[q].pc = "decide", n.pc \in {"pick", "waiting", "done"},
           BlockKey(q), UNCHANGED <<learned, verdict, lock, clients>>
    PROVE  ExecuteInv'
<1>1. /\ req' \in [Requests -> RequestStates]
      /\ req'[q] = n
      /\ \A p \in Requests \ {q} : req'[p] = req[p]
      /\ RequestsInv'
  BY OwnStep DEF ExecuteInv
<1>2. KeyOf[RouteOf(q)] \in Keys
  BY Now, EntryType DEF RequestInv, InPlan, ExecuteInv
<1>3. /\ blocked' \in [Keys -> {"no", "timed", "forever"}]
      /\ \A k \in Keys : blocked[k] # "no" => blocked'[k] # "no"
      /\ blocked' = blocked \/ blocked'[KeyOf[RouteOf(q)]] # "no"
  BY <1>2 DEF BlockKey, ExecuteInv, Types
<1>4. /\ spent' \in [Requests -> SUBSET Keys]
      /\ \A p \in Requests \ {q} : spent'[p] = spent[p]
      /\ \A k \in spent'[q] : k \in spent[q] \/ (k = KeyOf[RouteOf(q)] /\ blocked'[k] # "no")
  BY <1>2, <1>3 DEF BlockKey, ExecuteInv, Types
<1>5. Types'
  BY <1>1, <1>3, <1>4 DEF ExecuteInv, Types
<1>6. \A p \in Requests \ {q} : RouteOf(p)' = RouteOf(p)
  BY <1>1 DEF RouteOf, Entry
<1>7. LockInv'
  BY <1>1, <1>6 DEF ExecuteInv, LockInv, Holding
<1>8. FormatInv' /\ VerdictInv'
  BY <1>1, <1>6 DEF ExecuteInv, FormatInv, VerdictInv
<1>9. \A p \in Requests : \A k \in spent[p] : k \in Keys /\ blocked[k] # "no"
  BY DEF ExecuteInv, Types, SpentInv
<1>10. SpentInv'
  BY <1>1, <1>3, <1>4, <1>6, <1>9 DEF ExecuteInv, SpentInv
<1> QED
  BY <1>1, <1>5, <1>7, <1>8, <1>10 DEF ExecuteInv

(* A request that neither fails over nor tries again has no entry left. *)
LEMMA NothingLeft ==
    ASSUME NEW q \in Requests, req[q] \in RequestStates,
           Action(q) # "fail_over", Action(q) # "retry_same_route"
    PROVE  req[q].cursor >= Len(Plan[q])
<1>1. req[q].error # "cancelled" /\ req[q].cursor \in Nat /\ Len(Plan[q]) \in Nat
  BY FieldTypes, PlanAssumption
<1>2. ~(EntriesLeft(q) > 0)
  BY <1>1 DEF Action, Overridden
<1> QED
  BY <1>1, <1>2 DEF EntriesLeft

(* The decision after a failed attempt keeps the invariant. *)
LEMMA DecideNextKeeps ==
    ASSUME ExecuteInv, NEW q \in Requests, DecideNext(q)
    PROVE  ExecuteInv'
<1> DEFINE l == req[q].limited \/ req[q].error = "quota_exhausted"
           rec == [req[q] EXCEPT !.limited = l]
<1>1. /\ Becomes(q, Settle(q, rec)) /\ BlockKey(q) /\ req[q].pc = "decide"
      /\ UNCHANGED <<learned, verdict, lock, clients>>
  BY DEF DecideNext, At
<1>2. l \in BOOLEAN
  BY Now, FieldTypes
<1> HIDE DEF l
<1>3. rec \in RequestStates
  BY <1>2, Now, FieldUpdates
<1>4. /\ rec.cursor = req[q].cursor /\ rec.total = req[q].total /\ rec.pc = "decide"
      /\ rec.answers = req[q].answers /\ rec.outcome = req[q].outcome
      /\ rec.retries = req[q].retries
  BY <1>1, Now DEF RequestStates
<1> HIDE DEF rec
<1>5. /\ req[q].total \in Nat /\ req[q].total <= MaximumAttempts
      /\ req[q].outcome = "none" /\ req[q].answers = 0
  BY <1>1, Now, FieldTypes DEF RequestInv, Budget
<1>6. Pause(q) \in {"pick", "waiting"}
  BY DEF Pause
<1>7. CASE Action(q) = "fail_over"
  <2> DEFINE e == NextEntry(rec)
             n == [e EXCEPT !.pc = Pause(q)]
  <2>1. /\ e \in RequestStates /\ e.total = rec.total /\ e.answers = rec.answers
        /\ e.outcome = rec.outcome
    BY <1>3, NextEntryFacts
  <2>2. Becomes(q, n)
    BY <1>1, <1>7 DEF Settle
  <2> HIDE DEF e
  <2>3. n \in RequestStates
    BY <1>6, <2>1, FieldUpdates DEF PCs
  <2>4. /\ n.pc = Pause(q) /\ n.total = e.total /\ n.answers = e.answers
        /\ n.outcome = e.outcome
    BY <2>1 DEF RequestStates
  <2> HIDE DEF n
  <2>5. RequestInv(q, n)
    BY <1>4, <1>5, <1>6, <2>1, <2>4 DEF RequestInv, Budget
  <2> QED
    BY <1>1, <1>6, <2>2, <2>3, <2>4, <2>5, Decides
<1>8. CASE Action(q) = "retry_same_route"
  <2> DEFINE v == IF rec.retries > 0 THEN rec.retries - 1 ELSE rec.retries
             a == [rec EXCEPT !.pc = Pause(q)]
             n == [a EXCEPT !.retries = v]
  <2>1. v \in Int
    BY <1>3, FieldTypes
  <2>2. a \in RequestStates
    BY <1>3, <1>6, FieldUpdates DEF PCs
  <2>3. /\ a.pc = Pause(q) /\ a.total = rec.total /\ a.answers = rec.answers
        /\ a.outcome = rec.outcome /\ a.retries = rec.retries
    BY <1>3 DEF RequestStates
  <2>4. Becomes(q, n)
    BY <1>1, <1>8, <2>3 DEF Settle
  <2> HIDE DEF a, v
  <2>5. n \in RequestStates
    BY <2>1, <2>2, FieldUpdates
  <2>6. /\ n.pc = a.pc /\ n.total = a.total /\ n.answers = a.answers
        /\ n.outcome = a.outcome
    BY <2>2 DEF RequestStates
  <2> HIDE DEF n
  <2>7. RequestInv(q, n)
    BY <1>4, <1>5, <1>6, <2>3, <2>6 DEF RequestInv, Budget
  <2> QED
    BY <1>1, <1>6, <2>3, <2>4, <2>5, <2>6, <2>7, Decides
<1>9. CASE Action(q) # "fail_over" /\ Action(q) # "retry_same_route"
  <2> DEFINE n == Finish(rec, "failed")
  <2>1. Becomes(q, n)
    BY <1>1, <1>9 DEF Settle
  <2>2. "failed" \in Outcomes
    BY DEF Outcomes
  <2>3. /\ n \in RequestStates
        /\ n.pc = "done" /\ n.cursor = rec.cursor /\ n.total = rec.total
        /\ n.answers = rec.answers + 1 /\ n.outcome = "failed"
    BY <1>3, <2>2, FinishFacts
  <2> HIDE DEF n
  <2>4. req[q].cursor >= Len(Plan[q])
    BY <1>9, Now, NothingLeft
  <2>5. RequestInv(q, n)
    BY <1>4, <1>5, <2>3, <2>4, Now DEF RequestInv, Budget
  <2> QED
    BY <1>1, <2>1, <2>3, <2>5, Decides
<1> QED
  BY <1>7, <1>8, <1>9

(* The surroundings of the requests, and steps that change nothing. *)
LEMMA SurroundingsKeep ==
    ASSUME ExecuteInv,
           \/ \E k \in Keys : Lapse(k)
           \/ \E K \in ClientSets : SetClients(K)
           \/ UNCHANGED vars
    PROVE  ExecuteInv'
<1>1. UNCHANGED <<req, learned, verdict, lock>>
  BY DEF Lapse, SetClients, vars, shared
<1>2. RequestsInv' /\ LockInv' /\ FormatInv' /\ VerdictInv'
  BY SMTT(30), ZenonT(60), <1>1 DEF ExecuteInv, RequestsInv, LockInv, FormatInv, VerdictInv, RouteOf, Entry
<1>3. CASE \E k \in Keys : Lapse(k)
  <2>1. PICK k \in Keys : Lapse(k)
    BY <1>3
  <2>2. Types'
    BY <2>1 DEF Lapse, ExecuteInv, Types
  <2>3. \A q \in Requests : spent'[q] = spent[q] \ {k} /\ spent[q] \subseteq Keys
    BY <2>1 DEF Lapse, ExecuteInv, Types
  <2>4. \A j \in Keys \ {k} : blocked'[j] = blocked[j]
    BY <2>1 DEF Lapse, ExecuteInv, Types
  <2>5. SpentInv'
    BY <1>1, <2>3, <2>4 DEF ExecuteInv, SpentInv, RouteOf, Entry
  <2> QED
    BY <1>2, <2>2, <2>5 DEF ExecuteInv
<1>4. CASE (\E K \in ClientSets : SetClients(K)) \/ UNCHANGED vars
  <2>1. UNCHANGED <<blocked, spent>> /\ clients' \in ClientSets
    BY <1>4 DEF SetClients, vars, shared, ExecuteInv, Types
  <2>2. Types'
    BY <1>1, <2>1 DEF ExecuteInv, Types
  <2>3. SpentInv'
    BY <1>1, <2>1 DEF ExecuteInv, SpentInv, RouteOf, Entry
  <2> QED
    BY <1>2, <2>2, <2>3 DEF ExecuteInv
<1> QED
  BY <1>3, <1>4

-----------------------------------------------------------------------------
(* The invariant is inductive. *)

(* The invariant holds when no request has arrived. *)
LEMMA InitHolds == Init => ExecuteInv
<1> SUFFICES ASSUME Init PROVE ExecuteInv
  OBVIOUS
<1>1. NewRequest \in RequestStates
  BY DEF NewRequest, RequestStates, PCs, Outcomes, ErrorClasses
<1>2. /\ NewRequest.pc = "idle" /\ NewRequest.total = 0 /\ NewRequest.answers = 0
      /\ NewRequest.outcome = "none"
  BY DEF NewRequest
<1>3. \A q \in Requests : req[q] = NewRequest
  BY DEF Init
<1>4. Types
  BY <1>1, FormatAssumption DEF Init, Types
<1>5. RequestsInv
  BY <1>2, <1>3, BudgetAssumption DEF RequestsInv, RequestInv, Budget
<1>6. LockInv
  BY <1>2, <1>3, LockAssumption DEF Init, LockInv, Holding
<1>7. FormatInv /\ VerdictInv
  BY <1>2, <1>3 DEF FormatInv, VerdictInv
<1>8. SpentInv
  BY <1>2, <1>3 DEF Init, SpentInv
<1> QED
  BY <1>4, <1>5, <1>6, <1>7, <1>8 DEF ExecuteInv

(* Every step keeps the invariant. *)
LEMMA StepKeeps == ExecuteInv /\ [Next]_vars => ExecuteInv'
<1> SUFFICES ASSUME ExecuteInv, [Next]_vars PROVE ExecuteInv'
  OBVIOUS
<1>1. ASSUME NEW q \in Requests,
             \/ Arrive(q) \/ BudgetSpent(q) \/ PlanExhausted(q) \/ AdmitDirectly(q)
             \/ WaitOver(q) \/ ClientLeaves(q)
      PROVE  ExecuteInv'
  BY <1>1, PicksKeep
<1>2. ASSUME NEW q \in Requests,
             EnsureKnown(q) \/ EnsureUnprobed(q) \/ EnsureLocked(q) \/ Probed(q)
      PROVE  ExecuteInv'
  BY <1>2, EnsuresKeep
<1>3. ASSUME NEW q \in Requests, SkipBlocked(q) \/ NoClient(q) \/ StartAttempt(q)
      PROVE  ExecuteInv'
  BY <1>3, AdmissionKeeps
<1>4. ASSUME NEW q \in Requests, LockFormat(q)
      PROVE  ExecuteInv'
  BY <1>4, LockFormatKeeps
<1>5. ASSUME NEW q \in Requests, CandidateUnusable(q) \/ CallFails(q)
      PROVE  ExecuteInv'
  BY <1>5, FailuresKeep
<1>6. ASSUME NEW q \in Requests, Succeeds(q) \/ Breaks(q)
      PROVE  ExecuteInv'
  BY <1>6, AnswersKeep
<1>7. ASSUME NEW q \in Requests, DecideNext(q)
      PROVE  ExecuteInv'
  BY <1>7, DecideNextKeeps
<1>8. ASSUME \/ \E k \in Keys : Lapse(k)
             \/ \E K \in ClientSets : SetClients(K)
             \/ UNCHANGED vars
      PROVE  ExecuteInv'
  BY <1>8, SurroundingsKeep
<1> QED
  BY <1>1, <1>2, <1>3, <1>4, <1>5, <1>6, <1>7, <1>8 DEF Next

(* In every reachable state the locks, formats, verdicts and budgets of all *)
(* requests fit together.                                                   *)
THEOREM Inductive == Spec => []ExecuteInv
  BY InitHolds, StepKeeps, PTL DEF Spec

-----------------------------------------------------------------------------
(* What follows for the properties. *)

(* The state keeps its types, and the entry and the candidate format that   *)
(* the loops index always exist (proxy.go:463, 690).                        *)
THEOREM TypeCorrect == Spec => []TypeOK
<1>1. ExecuteInv => TypeOK
  BY DEF ExecuteInv, TypeOK, RequestsInv, RequestInv, InPlan
<1> QED
  BY <1>1, Inductive, PTL

(* No request is given a further upstream call once its attempt budget is   *)
(* used up, candidate formats included (proxy.go:462, 684).                 *)
THEOREM BudgetHolds == Spec => []AttemptsBounded
<1>1. ExecuteInv => AttemptsBounded
  <2> SUFFICES ASSUME ExecuteInv, NEW q \in Requests, req[q].pc = "calling"
               PROVE  req[q].total + req[q].cand - 1 <= MaximumAttempts
    BY DEF AttemptsBounded
  <2>1. /\ req[q].cand \in 1..Len(req[q].formats) /\ Len(req[q].formats) \in Nat
        /\ req[q].total \in Nat /\ MaximumAttempts \in Nat
        /\ req[q].total + Len(req[q].formats) - 1 <= MaximumAttempts
    BY Now, FieldTypes DEF RequestInv, Budget
  <2> QED
    BY <2>1
<1> QED
  BY <1>1, Inductive, PTL

(* A request that has ended was answered once, and no request is tried      *)
(* again after response bytes went out (proxy.go:166).                      *)
THEOREM OneAnswer == Spec => []AnsweredOnce
<1>1. ExecuteInv => AnsweredOnce
  BY DEF ExecuteInv, RequestsInv, RequestInv, AnsweredOnce
<1> QED
  BY <1>1, Inductive, PTL

(* A request fails only at the last entry of its plan or with its budget    *)
(* used up (proxy.go:563-566).                                              *)
THEOREM NoRouteHidden == Spec => []FailsOnlyWhenSpent
<1>1. ExecuteInv => FailsOnlyWhenSpent
  BY DEF ExecuteInv, RequestsInv, RequestInv, FailsOnlyWhenSpent
<1> QED
  BY <1>1, Inductive, PTL

(* A request does not call a credential again that it gave up for an        *)
(* exhausted quota, until the block has lapsed (proxy.go:502, 546-560).     *)
THEOREM SpentKeyAvoided == Spec => []OwnKeyRespected
<1>1. ExecuteInv => OwnKeyRespected
  BY DEF ExecuteInv, SpentInv, OwnKeyRespected
<1> QED
  BY <1>1, Inductive, PTL

(* The format of a route changes only by a step of the request that holds   *)
(* the lock of the route, and such a step replaces only an unknown format.  *)
LEMMA FormatStep ==
    ASSUME ExecuteInv, [Next]_vars, NEW r \in Routes, learned[r] # NoFormat
    PROVE  learned'[r] = learned[r]
<1>1. CASE UNCHANGED learned
  BY <1>1
<1>2. ASSUME NEW q \in Requests, CandidateUnusable(q)
      PROVE  learned'[r] = learned[r]
  <2>1. CandidateFailed(q, [req[q] EXCEPT !.error = "transport"], TRUE) /\ req[q].pc = "calling"
    BY <1>2 DEF CandidateUnusable, At
  <2>2. [req[q] EXCEPT !.error = "transport"].misfit = req[q].misfit
    BY Now DEF RequestStates
  <2>3. RouteOf(q) = r => ~req[q].misfit
    BY <2>1 DEF ExecuteInv, FormatInv
  <2> QED
    BY <2>1, <2>2, <2>3 DEF CandidateFailed, ExecuteInv, Types
<1>3. ASSUME NEW q \in Requests, CallFails(q)
      PROVE  learned'[r] = learned[r]
  <2>1. PICK f \in Failures :
           CandidateFailed(q, [req[q] EXCEPT !.error = f.class,
                                             !.misfit = @ \/ TriesNextFormat(q, f)],
                           TriesNextFormat(q, f))
    BY <1>3 DEF CallFails
  <2> DEFINE n == [req[q] EXCEPT !.error = f.class, !.misfit = @ \/ TriesNextFormat(q, f)]
  <2>2. n.misfit = (req[q].misfit \/ TriesNextFormat(q, f))
    BY Now DEF RequestStates
  <2>3. RouteOf(q) = r => ~req[q].misfit /\ req[q].known
    BY <1>3 DEF ExecuteInv, FormatInv, CallFails, CanCall, At
  <2>4. RouteOf(q) = r => ~n.misfit
    BY <2>2, <2>3 DEF TriesNextFormat
  <2>5. learned' = (IF n.misfit THEN [learned EXCEPT ![RouteOf(q)] = NoFormat] ELSE learned)
        \/ UNCHANGED learned
    BY <2>1 DEF CandidateFailed
  <2> HIDE DEF n
  <2> QED
    BY <2>4, <2>5 DEF ExecuteInv, Types
<1>4. ASSUME NEW q \in Requests, LearnFormat(q), req[q].pc = "calling"
      PROVE  learned'[r] = learned[r]
  <2>1. learned' = [learned EXCEPT ![RouteOf(q)] = Candidate(q)]
    BY <1>4 DEF LearnFormat
  <2>2. CASE RouteOf(q) = r
    <3>1. req[q].formats = <<learned[r]>>
      BY <1>4, <2>2 DEF ExecuteInv, FormatInv
    <3>2. req[q].cand \in 1..Len(req[q].formats)
      BY <1>4, Now DEF RequestInv
    <3>3. Candidate(q) = learned[r]
      BY <3>1, <3>2 DEF Candidate
    <3> QED
      BY <2>1, <2>2, <3>3 DEF ExecuteInv, Types
  <2>3. CASE RouteOf(q) # r
    BY <2>1, <2>3 DEF ExecuteInv, Types
  <2> QED
    BY <2>2, <2>3
<1>5. ASSUME NEW q \in Requests, Succeeds(q) \/ Breaks(q)
      PROVE  learned'[r] = learned[r]
  BY <1>1, <1>4, <1>5 DEF Succeeds, Breaks, CanCall, At
<1>6. \/ UNCHANGED learned
      \/ \E q \in Requests : CandidateUnusable(q) \/ CallFails(q) \/ Succeeds(q) \/ Breaks(q)
  <2>1. CASE Next
    BY <2>1 DEF Next, Arrive, BudgetSpent, PlanExhausted, AdmitDirectly, EnsureKnown,
         EnsureUnprobed, EnsureLocked, Probed, SkipBlocked, NoClient, StartAttempt, LockFormat,
         DecideNext, WaitOver, ClientLeaves, Lapse, SetClients, shared
  <2>2. CASE UNCHANGED vars
    BY <2>2 DEF vars, shared
  <2> QED
    BY <2>1, <2>2
<1> QED
  BY <1>1, <1>2, <1>3, <1>5, <1>6

(* A format learned from a valid response is not forgotten or replaced by   *)
(* a concurrent request for the same route (proxy.go:655, 778).             *)
THEOREM FormatsStand == Spec => FormatsAreKept
<1>1. ExecuteInv /\ [Next]_vars
        => [\A r \in Routes : learned[r] # NoFormat => learned'[r] = learned[r]]_vars
  BY FormatStep
<1> QED
  BY <1>1, Inductive, PTL DEF Spec, FormatsAreKept

(* Only the request that probes a route stores its verdict, and it began    *)
(* without one.                                                             *)
LEMMA VerdictStep ==
    ASSUME ExecuteInv, [Next]_vars, NEW r \in Routes, verdict[r] # "unknown"
    PROVE  verdict'[r] = verdict[r]
<1>1. ASSUME NEW q \in Requests, Probed(q)
      PROVE  verdict'[r] = verdict[r]
  <2>1. verdict[RouteOf(q)] = "unknown"
    BY <1>1 DEF Probed, At, ExecuteInv, VerdictInv
  <2> QED
    BY <1>1, <2>1 DEF Probed, ExecuteInv, Types
<1>2. UNCHANGED verdict \/ \E q \in Requests : Probed(q)
  <2>1. CASE Next
    BY <2>1 DEF Next, Arrive, BudgetSpent, PlanExhausted, AdmitDirectly, EnsureKnown,
         EnsureUnprobed, EnsureLocked, SkipBlocked, NoClient, StartAttempt, LockFormat,
         CandidateUnusable, CallFails, Succeeds, Breaks, DecideNext, WaitOver, ClientLeaves,
         Lapse, SetClients, shared
  <2>2. CASE UNCHANGED vars
    BY <2>2 DEF vars, shared
  <2> QED
    BY <2>1, <2>2
<1> QED
  BY <1>1, <1>2

(* The stored verdict on structured output is not overwritten by a request  *)
(* that had been waiting to probe the same route (proxy.go:262).            *)
THEOREM VerdictsStand == Spec => ProbeVerdictStands
<1>1. ExecuteInv /\ [Next]_vars
        => [\A r \in Routes : verdict[r] # "unknown" => verdict'[r] = verdict[r]]_vars
  BY VerdictStep
<1> QED
  BY <1>1, Inductive, PTL DEF Spec, ProbeVerdictStands

-----------------------------------------------------------------------------
(* The retry engine on its own, for every input. *)

(* Once response bytes went out the engine never asks for a second try, and *)
(* a try it asks for has a place: a failover leads to an entry that exists, *)
(* a retry in a plan has budget and retries left (retry.go:102-130).        *)
THEOREM DecideIsBounded ==
    ASSUME NEW in \in Inputs
    PROVE  /\ Decide(in).action \in {"fail_over", "retry_same_route"}
                => in.delivery = "nothing_sent"
           /\ Decide(in).action = "fail_over" => Target(in)
           /\ Decide(in).action = "retry_same_route"
                => /\ in.attempt < in.maximum /\ ~in.deadlinePassed
                   /\ in.planMode => in.retries > 0 /\ in.budget > 1
<1>1. in.delivery # "nothing_sent"
        => Decide(in).action \in {"return_client_cancelled", "terminate_partial_stream"}
  BY DEF Decide, Decision
<1>2. Decide(in).action = "fail_over" => Target(in)
  BY DEF Decide, Decision, Terminal
<1>3. Decide(in).action = "retry_same_route"
        => /\ in.attempt < in.maximum /\ ~in.deadlinePassed
           /\ in.planMode => in.retries > 0 /\ in.budget > 1
  BY DEF Decide, Decision, Terminal, Inputs, LeaveRoute, Target
<1> QED
  BY <1>1, <1>2, <1>3
=============================================================================
