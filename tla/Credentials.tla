----------------------------- MODULE Credentials -----------------------------
(***************************************************************************)
(* The provider credentials: the handlers of the control plane that create,*)
(* change and delete them, the clients that runtime.go makes of the rows   *)
(* and hands to the catalog, and the limits that requests of the proxy run *)
(* into.  Nothing holds a lock from the change of the table to             *)
(* SetClients: each handler reads the list for itself, then waits for the  *)
(* lock of the refreshes, for minutes at times.                            *)
(*                                                                         *)
(* Abstractions.                                                           *)
(*  - Of a credential its API key, its access mode and its limit are kept. *)
(*    Every stored credential is enabled and yields a client (nothing      *)
(*    disables one, and a key that does not resolve is never stored).      *)
(*  - A change of the label alone (UpdateLabel) reloads nothing and is     *)
(*    left out: the label of a client may be old.                          *)
(*  - The refresh that follows SetClients is in Catalog.                   *)
(*  - A limit ends at a time or never; time passes whenever it likes.      *)
(***************************************************************************)
EXTENDS Naturals, Functions

CONSTANTS
    CredentialIds,   \* what ids.New may return
    Secrets,         \* the API keys
    Handlers,        \* requests to the control plane that may overlap
    Calls            \* requests of the proxy that may overlap

Modes == {"api", "subscription"}
Limits == {"timed", "forever"}
Rows == [secret : Secrets, mode : Modes, limited : Limits \cup {"no"}]

VARIABLES
    rows,          \* provider_credentials: [a set of ids -> Rows]
    configured,    \* Manager.clients: [a set of ids -> Modes]
    blocked,       \* Manager.blocked: [a set of ids -> Limits]
    handler,       \* the handlers and what they hold
    calling,       \* the requests of the proxy: which credential, and its limit
    used,          \* history: the ids that were given out
    twins,         \* history: keys that two handlers were adding at once
    unread,        \* history: the clients were made of a list that could not be
                   \* read, or that was older than the one they replaced
    contradicted   \* history: credentials of which the last answer, or a restart
                   \* that could not read the table, says less than "forever"

credentialVars ==
    <<rows, configured, blocked, handler, calling, used, twins, unread, contradicted>>

Nothing == [id \in {} |-> "api"]
AtEase == [pc |-> "idle"]

CredentialsInit ==
    /\ rows = Nothing /\ configured = Nothing /\ blocked = Nothing
    /\ handler = [h \in Handlers |-> AtEase]
    /\ calling = [q \in Calls |-> AtEase]
    /\ used = {} /\ twins = {} /\ unread = FALSE /\ contradicted = {}

(* loadProviderClients: a client for every row, or none when List fails. *)
ClientsOf(table) == [id \in DOMAIN table |-> table[id].mode]

(*************************** the handlers **********************************)

Goes(h, state) == handler' = [handler EXCEPT ![h] = state]
Ends(h) == Goes(h, AtEase)
OnlyHandler ==
    UNCHANGED <<rows, configured, blocked, calling, used, twins, unread, contradicted>>

Adding(secret) == {h \in Handlers : handler[h].pc = "verify" /\ handler[h].secret = secret}

(* createProviderCredential, up to the provider: the key is compared with the *)
(* stored ones.                                                               *)
BeginCreate(h, secret, mode) ==
    /\ handler[h].pc = "idle"
    /\ \A id \in DOMAIN rows : rows[id].secret # secret
    /\ Goes(h, [pc |-> "verify", secret |-> secret, mode |-> mode])
    /\ twins' = IF Adding(secret) = {} THEN twins ELSE twins \cup {secret}
    /\ UNCHANGED <<rows, configured, blocked, calling, used, unread, contradicted>>

(* The provider does not verify the key within 30 s, or the row cannot be stored. *)
CreateFails(h) == handler[h].pc = "verify" /\ Ends(h) /\ OnlyHandler

StoreCreated(h) ==
    /\ handler[h].pc = "verify"
    /\ \E id \in CredentialIds \ used :
        /\ rows' = [i \in DOMAIN rows \cup {id} |->
             IF i = id
             THEN [secret |-> handler[h].secret, mode |-> handler[h].mode, limited |-> "no"]
             ELSE rows[i]]
        /\ used' = used \cup {id}
    /\ Goes(h, [pc |-> "load"])
    /\ UNCHANGED <<configured, blocked, calling, twins, unread, contradicted>>

(* UpdateDetails reads the row, and then updates it: a change of the mode resets *)
(* the limit of the row, not the block in memory.                                *)
BeginUpdate(h, id, mode) ==
    /\ handler[h].pc = "idle" /\ id \in DOMAIN rows
    /\ Goes(h, [pc |-> "update", id |-> id, mode |-> mode, resets |-> rows[id].mode # mode])
    /\ OnlyHandler

(* Mutant of AfterUpdate: as after UpdateLabel, the providers are not reloaded. *)
AfterLabel == AtEase

AfterUpdate == [pc |-> "load"]

StoreUpdate(h) ==
    LET u == handler[h] IN
    /\ u.pc = "update"
    /\ u.id \in DOMAIN rows
    /\ rows' = [rows EXCEPT ![u.id].mode = u.mode,
                                ![u.id].limited = IF u.resets THEN "no" ELSE @]
    /\ Goes(h, AfterUpdate)
    /\ UNCHANGED <<configured, blocked, calling, used, twins, unread, contradicted>>

(* The row was deleted in between, or the table cannot be written. *)
UpdateFails(h) == handler[h].pc = "update" /\ Ends(h) /\ OnlyHandler

BeginDelete(h, id) ==
    /\ handler[h].pc = "idle" /\ id \in DOMAIN rows
    /\ Goes(h, [pc |-> "delete", id |-> id])
    /\ OnlyHandler

StoreDelete(h) ==
    /\ handler[h].pc = "delete"
    /\ rows' = Restrict(rows, DOMAIN rows \ {handler[h].id})
    /\ Goes(h, [pc |-> "load"])
    /\ UNCHANGED <<configured, blocked, calling, used, twins, unread, contradicted>>

DeleteFails(h) == handler[h].pc = "delete" /\ Ends(h) /\ OnlyHandler

(* reloadProviders: every handler that is waiting with a list gets to know, in *)
(* "behind", who read after it, and in "old", that such a list came in first.  *)
LoadClients(h) ==
    /\ handler[h].pc = "load"
    /\ \E reads \in BOOLEAN :
         handler' = [i \in Handlers |->
           IF i = h
           THEN [pc |-> "set", list |-> IF reads THEN ClientsOf(rows) ELSE Nothing,
                 behind |-> {}, old |-> ~reads]
           ELSE IF handler[i].pc = "set"
                THEN [handler[i] EXCEPT !.behind = @ \cup {h}]
                ELSE handler[i]]
    /\ OnlyHandler

ExchangeClients(h) ==
    /\ handler[h].pc = "set"
    /\ configured' = handler[h].list
    /\ unread' = handler[h].old
    /\ handler' = [i \in Handlers |->
         IF i = h THEN AtEase
         ELSE IF handler[i].pc = "set"
              THEN [handler[i] EXCEPT !.behind = @ \ {h}, !.old = @ \/ h \in handler[i].behind]
              ELSE handler[i]]
    /\ UNCHANGED <<rows, blocked, calling, used, twins, contradicted>>

(************************ requests of the proxy ****************************)

OnlyCall == UNCHANGED <<rows, configured, handler, used, twins, unread>>

BeginCall(q, id) ==
    /\ calling[q].pc = "idle"
    /\ id \in DOMAIN configured \ DOMAIN blocked
    /\ calling' = [calling EXCEPT ![q] = [pc |-> "call", id |-> id]]
    /\ OnlyCall /\ UNCHANGED <<blocked, contradicted>>

CallEnds(q) ==
    /\ calling[q].pc = "call"
    /\ calling' = [calling EXCEPT ![q] = AtEase]
    /\ OnlyCall /\ UNCHANGED <<blocked, contradicted>>

(* The quota is exhausted: the block is set at once, the row is marked after it. *)
Exhausted(q, limit) ==
    LET id == calling[q].id IN
    /\ calling[q].pc = "call"
    /\ blocked' = [i \in DOMAIN blocked \cup {id} |-> IF i = id THEN limit ELSE blocked[i]]
    /\ calling' = [calling EXCEPT ![q] = [pc |-> "mark", id |-> id, limit |-> limit]]
    /\ contradicted' = IF limit = "forever" THEN contradicted \ {id} ELSE contradicted \cup {id}
    /\ OnlyCall

MarkLimitedByID(q) ==
    LET c == calling[q] IN
    /\ c.pc = "mark" /\ c.id \in DOMAIN rows
    /\ rows' = [rows EXCEPT ![c.id].limited = c.limit]
    /\ calling' = [calling EXCEPT ![q] = AtEase]
    /\ UNCHANGED <<configured, blocked, handler, used, twins, unread, contradicted>>

(* The row is gone, or the client that asked: then its context ends the query. *)
MarkFails(q) ==
    /\ calling[q].pc = "mark"
    /\ calling' = [calling EXCEPT ![q] = AtEase]
    /\ OnlyCall /\ UNCHANGED <<blocked, contradicted>>

(* ProviderBlocked, asked after the time. *)
Lapses(id) ==
    /\ id \in DOMAIN blocked /\ blocked[id] = "timed"
    /\ blocked' = Restrict(blocked, DOMAIN blocked \ {id})
    /\ OnlyCall /\ UNCHANGED <<calling, contradicted>>

(***************************** restarts ************************************)

LimitedRows == {id \in DOMAIN rows : rows[id].limited # "no"}

(* The process ends anywhere and starts: clients and blocks are read back, each *)
(* with a query of its own whose error is passed over.                          *)
RestartCredentials ==
    /\ \E reads, restores \in BOOLEAN :
        /\ configured' = IF reads THEN ClientsOf(rows) ELSE Nothing
        /\ unread' = ~reads
        /\ blocked' = [id \in (IF restores THEN LimitedRows ELSE {}) |-> rows[id].limited]
        /\ contradicted' = IF restores THEN {} ELSE CredentialIds
    /\ handler' = [h \in Handlers |-> AtEase]
    /\ calling' = [q \in Calls |-> AtEase]
    /\ UNCHANGED <<rows, used, twins>>

CredentialsNext ==
    \/ \E h \in Handlers :
        \/ \E secret \in Secrets, mode \in Modes : BeginCreate(h, secret, mode)
        \/ CreateFails(h) \/ StoreCreated(h)
        \/ \E id \in CredentialIds, mode \in Modes : BeginUpdate(h, id, mode)
        \/ StoreUpdate(h) \/ UpdateFails(h)
        \/ \E id \in CredentialIds : BeginDelete(h, id)
        \/ StoreDelete(h) \/ DeleteFails(h)
        \/ LoadClients(h) \/ ExchangeClients(h)
    \/ \E q \in Calls :
        \/ \E id \in CredentialIds : BeginCall(q, id)
        \/ CallEnds(q) \/ MarkLimitedByID(q) \/ MarkFails(q)
        \/ \E limit \in Limits : Exhausted(q, limit)
    \/ \E id \in CredentialIds : Lapses(id)
    \/ RestartCredentials

CredentialsSpec == CredentialsInit /\ [][CredentialsNext]_credentialVars

(***************************** correctness *********************************)

HandlerStates ==
    [pc : {"idle", "load"}]
    \cup [pc : {"verify"}, secret : Secrets, mode : Modes]
    \cup [pc : {"update"}, id : CredentialIds, mode : Modes, resets : BOOLEAN]
    \cup [pc : {"delete"}, id : CredentialIds]
    \cup [pc : {"set"}, list : UNION {[S -> Modes] : S \in SUBSET CredentialIds},
          behind : SUBSET Handlers, old : BOOLEAN]

CallStates ==
    [pc : {"idle"}] \cup [pc : {"call"}, id : CredentialIds]
    \cup [pc : {"mark"}, id : CredentialIds, limit : Limits]

(* The variables have their types, and only ids that were given out are stored. *)
CredentialsTypeOK ==
    /\ used \subseteq CredentialIds
    /\ rows \in UNION {[S -> Rows] : S \in SUBSET used}
    /\ configured \in UNION {[S -> Modes] : S \in SUBSET CredentialIds}
    /\ blocked \in UNION {[S -> Limits] : S \in SUBSET CredentialIds}
    /\ handler \in [Handlers -> HandlerStates]
    /\ calling \in [Calls -> CallStates]
    /\ twins \subseteq Secrets /\ unread \in BOOLEAN /\ contradicted \subseteq CredentialIds

(* Handlers that changed the table, or may have, and did not exchange the clients yet. *)
Pending == {h \in Handlers : handler[h].pc \in {"load", "set"}}

(* When every change has been followed by its reload, the clients are those of the *)
(* stored credentials, in their access mode: a deleted key is not called any more. *)
(* What the code does not keep is said by unread: of two reloads the older list    *)
(* may come in last, and a list that cannot be read removes every client.          *)
ClientsFollow ==
    Pending = {} /\ ~unread =>
        /\ DOMAIN configured = DOMAIN rows
        /\ \A id \in DOMAIN rows : configured[id] = rows[id].mode

(* An API key is stored once, unless two handlers were verifying it at a time. *)
KeysAreStoredOnce ==
    \A i, j \in DOMAIN rows :
        i # j /\ rows[i].secret = rows[j].secret => rows[i].secret \in twins

(* A credential whose row says that it is limited for good is blocked for good, *)
(* over restarts too, unless a request that was under way got another answer.   *)
LimitsHold ==
    \A id \in DOMAIN rows :
        rows[id].limited = "forever" /\ id \notin contradicted =>
            id \in DOMAIN blocked /\ blocked[id] = "forever"

(* The clients, the blocks and the table of the credentials agree as far as the *)
(* code keeps them together.                                                    *)
CredentialsAreFollowed == ClientsFollow /\ KeysAreStoredOnce /\ LimitsHold
=============================================================================
