------------------------------- MODULE Sessions -------------------------------
(***************************************************************************)
(* Which conversation a request belongs to: internal/session and the       *)
(* tables behind SessionRepository.  A request without a session header is *)
(* recognised by its history, the messages of the user: every prefix has a *)
(* hash, the longest one that a live session owns decides, and the session *)
(* that is chosen gets the first prefix (its anchor) and the whole history *)
(* as keys.                                                                *)
(*                                                                         *)
(* Abstractions.                                                           *)
(*  - A history is what extractHistory leaves of the body, at most         *)
(*    MaxItems messages; a hash is the prefix it is made of.  A request    *)
(*    without a history gets a fresh id and touches nothing.               *)
(*  - One client key: every query is restricted to it.                     *)
(*  - ResolveAndRegister is one transaction; when it fails, or runs into   *)
(*    the 25 ms, the request has a fresh id that is not stored.            *)
(*  - Which keys are recent is left open: the times are compared as text,  *)
(*    RFC 3339 without trailing zeros, which is not their order.           *)
(***************************************************************************)
EXTENDS Integers, Sequences, FiniteSets

CONSTANTS
    Messages,     \* what users write
    MaxItems,     \* maxHistoryItems
    SessionIds,   \* session ids, generated or sent by clients
    MaxRecent     \* maxRecentFingerprints

ASSUME SessionConstants == MaxItems \in Nat \ {0} /\ MaxRecent \in Nat

Histories == UNION {[1 .. n -> Messages] : n \in 1 .. MaxItems}
Anchor(h) == SubSeq(h, 1, 1)
PrefixesOf(h) == {SubSeq(h, 1, n) : n \in 1 .. Len(h)}

VARIABLES
    seen,      \* [SessionIds -> "none", "live", or "stale": not seen for 30 days]
    keys,      \* session_keys: pairs of a session and a hash
    anchors,   \* the keys with is_anchor
    told,      \* history: [Messages -> the live sessions that a history with that
               \* beginning was stored in]
    revived    \* history: a stale session was seen again, by its id in a header

sessionVars == <<seen, keys, anchors, told, revived>>

SessionsInit ==
    /\ seen = [s \in SessionIds |-> "none"]
    /\ keys = {} /\ anchors = {}
    /\ told = [m \in Messages |-> {}] /\ revived = FALSE

Live(s) == seen[s] = "live"
Owners(p) == {s \in SessionIds : Live(s) /\ <<s, p>> \in keys}

(* The hashes of a history that live sessions own: the longest decides, and if *)
(* more than one session owns it, none does.                                    *)
Known(h) == {p \in PrefixesOf(h) : Owners(p) # {}}
Longest(h) == CHOOSE p \in Known(h) : \A q \in Known(h) : Len(q) \leq Len(p)

Matches(h) == {s \in SessionIds : Known(h) # {} /\ Owners(Longest(h)) = {s}}

(* Cleanup removes the keys of the stale sessions, at most every five minutes. *)
Cleaned(cleanup) == IF cleanup THEN {k \in keys : seen[k[1]] # "stale"} ELSE keys

(* A fresh session gets no key that another live session owns. *)
Registered(s, h, fresh) ==
    {<<s, p>> : p \in {q \in {Anchor(h), h} : fresh => Owners(q) = {}}}

(* prune: what is left of a session's keys are the anchors and MaxRecent others. *)
Fewest(m, n) == IF m < n THEN m ELSE n
Recent(others) == {R \in SUBSET others : Cardinality(R) = Fewest(Cardinality(others), MaxRecent)}

(* Mutant of Pruneable: prune does not look at is_anchor. *)
PruneableAll(s, all, isAnchor) == {k \in all : k[1] = s}

Pruneable(s, all, isAnchor) == {k \in all \ isAnchor : k[1] = s}

Store(s, h, fresh, cleanup) ==
    LET added == Registered(s, h, fresh)
        all == Cleaned(cleanup) \cup added
        isAnchor == (anchors \cap Cleaned(cleanup)) \cup {k \in added : k[2] = Anchor(h)}
        others == Pruneable(s, all, isAnchor)
    IN /\ seen' = [seen EXCEPT ![s] = "live"]
       /\ \E recent \in Recent(others) : keys' = (all \ others) \cup recent
       /\ anchors' = isAnchor \cap keys'
       /\ told' = [told EXCEPT ![h[1]] = @ \cup {s}]
       /\ UNCHANGED revived

(* DetectSessionID, without a header. *)
Resolve(h, cleanup) ==
    \/ \E s \in Matches(h) : Store(s, h, FALSE, cleanup)
    \/ /\ Matches(h) = {}
       /\ \E s \in SessionIds : seen[s] = "none" /\ Store(s, h, TRUE, cleanup)

(* DetectSessionID, with a header: the id is used, and its session is seen. *)
SendHeader(s) ==
    /\ ~Live(s)
    /\ seen' = [seen EXCEPT ![s] = "live"]
    /\ revived' = (revived \/ seen[s] = "stale")
    /\ UNCHANGED <<keys, anchors, told>>

(* Thirty days without a request of the session. *)
Expire(s) ==
    /\ Live(s)
    /\ seen' = [seen EXCEPT ![s] = "stale"]
    /\ told' = [m \in Messages |-> told[m] \ {s}]
    /\ UNCHANGED <<keys, anchors, revived>>

SessionsNext ==
    \/ \E h \in Histories, cleanup \in BOOLEAN : Resolve(h, cleanup)
    \/ \E s \in SessionIds : SendHeader(s) \/ Expire(s)

SessionsSpec == SessionsInit /\ [][SessionsNext]_sessionVars

-----------------------------------------------------------------------------
SessionsTypeOK ==
    /\ seen \in [SessionIds -> {"none", "live", "stale"}]
    /\ keys \in SUBSET (SessionIds \X Histories) /\ anchors \subseteq keys
    /\ told \in [Messages -> SUBSET SessionIds] /\ revived \in BOOLEAN

(* However a conversation grows, and whatever was pruned, cleaned up or expired in     *)
(* between, its requests are told one session as long as that session is seen every     *)
(* thirty days: statistics and routing do not split it.  Excepted are conversations     *)
(* after a client has revived a stale session by its id (detector.go, ResolveAndRegister).*)
ConversationKeepsItsSession == ~revived => \A m \in Messages : Cardinality(told[m]) \leq 1

(* Strengthening: the anchor has one live owner, and whoever owns a key owns its anchor. *)
AnchorsDecide ==
    ~revived =>
        /\ \A s \in SessionIds, h \in Histories :
               Live(s) /\ <<s, h>> \in keys => <<s, Anchor(h)>> \in anchors
        /\ \A s, t \in SessionIds, h \in Histories :
               s \in Owners(Anchor(h)) /\ t \in Owners(Anchor(h)) => s = t
        /\ \A m \in Messages : \A s \in told[m] : s \in Owners(<<m>>)
=============================================================================
