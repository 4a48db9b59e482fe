----------------------------- MODULE RemoteAccess -----------------------------
(***************************************************************************)
(* The life of the Tailscale node, internal/remoteaccess/manager.go.  Each *)
(* Configure or Retry begins a generation: a goroutine that waits for the  *)
(* one before it, brings the node to what is desired, serves the private   *)
(* and the public listener and stays until it is cancelled.  The manager's *)
(* fields are read and written in short critical sections; the settings    *)
(* and the node are worked on outside of them.                             *)
(*                                                                         *)
(* Abstractions.                                                           *)
(*  - A node is the generation that created it; it answers any status and  *)
(*    any of its calls may fail.  The server of a listener is the listener.*)
(*  - A status is its phase and effective mode; waiting for the login is   *)
(*    "connecting".  New reports a stored configuration that is broken.    *)
(*  - A behaviour is one process; it starts with what is in the settings,  *)
(*    so the initial states are all a crash can leave.  Shutdown is called  *)
(*    once.                                                                *)
(*  - ForgetIdentity is left out: it works on the state directory.         *)
(***************************************************************************)
EXTENDS Naturals

CONSTANTS
    Configs,     \* the configurations that are asked for, [mode, host]
    MaxCalls     \* bound on the calls of Configure and Retry, numbered as they are made

ASSUME RemoteConstants ==
    /\ MaxCalls \in Nat
    /\ \A c \in Configs : c.mode \in {"disabled", "private", "funnel"}

Calls == 1 .. MaxCalls
Generations == 1 .. MaxCalls + 1
MaybeGeneration == {0} \cup Generations
Phases == {"disabled", "starting", "stopping", "connecting", "publishing", "online", "error"}
RemoteStatuses == [phase: Phases, effective: {"disabled", "private", "funnel"}]
Inactive(phase) == [phase |-> phase, effective |-> "disabled"]
NoResult == [phase |-> "none", effective |-> "none"]

Enabled(config) == config.mode # "disabled"

GenerationLabels ==
    {"none", "waiting", "stopping", "ensuring", "replacing", "starting", "polling", "pausing",
     "private", "public", "dns", "online", "served", "closing", "clearing", "ended", "closed"}

VARIABLES
    desired, status, generation, done,      \* Manager, under its mutex; done also stands for cancel
    node, nodeHost, nodeStarted, closed,
    gens,        \* [Generations -> a generation: its place and locals]
    call,        \* [Calls -> a call: its place and locals]
    shutdown,    \* the call of Shutdown: its place and the generation or node it is at
    running,     \* the nodes that are started
    serving,     \* the open listeners, a generation and a kind
    savedConfig, \* the configuration in the settings
    lastResult   \* the last result in the settings

manager == <<desired, status, generation, done, node, nodeHost, nodeStarted, closed>>
nodes == <<node, nodeHost, nodeStarted>>
settings == <<savedConfig, lastResult>>
remoteVars == <<manager, gens, call, shutdown, running, serving, settings>>

NoGeneration == [pc |-> "none", config |-> CHOOSE c \in Configs : TRUE, prev |-> 0, cancelled |-> FALSE,
                 node |-> 0, old |-> 0, unsaved |-> NoResult]
NotCalled == [pc |-> "uncalled", config |-> CHOOSE c \in Configs : TRUE, unchanged |-> FALSE]
Returned == [NotCalled EXCEPT !.pc = "returned"]
NoShutdown == [pc |-> "running", at |-> 0]

(* New, with a configuration that was stored before. *)
RemoteInit ==
    /\ savedConfig \in Configs
    /\ desired = savedConfig /\ status = Inactive("disabled") /\ generation = 0 /\ done = 0
    /\ node = 0 /\ nodeHost = savedConfig.host /\ nodeStarted = FALSE /\ closed = FALSE
    /\ gens = [g \in Generations |-> NoGeneration] /\ shutdown = NoShutdown
    /\ running = {} /\ serving = {}
    /\ call = [c \in Calls |-> NotCalled]
    /\ lastResult = NoResult

-----------------------------------------------------------------------------
(* begin, its critical section; the generation saves its first result before it is *)
(* a goroutine of its own.  The bound is not met: no call begins two.               *)
Begin(disabling) ==
    /\ IF closed
         THEN UNCHANGED <<status, generation, done, gens>>
         ELSE LET g == generation + 1
                  first == Inactive(IF disabling THEN "stopping" ELSE "starting")
              IN /\ g \in Generations
                 /\ generation' = g /\ done' = g /\ status' = first
                 /\ gens' = [h \in Generations |->
                                IF h = g THEN [NoGeneration EXCEPT !.pc = "waiting", !.prev = done,
                                                                   !.unsaved = first]
                                ELSE [gens[h] EXCEPT !.cancelled = @ \/ h = done]]
    /\ UNCHANGED <<nodes, closed, shutdown, running, serving, settings>>

StartRemote ==
    /\ generation = 0 /\ \A c \in Calls : call[c].pc \in {"uncalled", "returned"}
    /\ Enabled(desired)
    /\ Begin(FALSE)
    /\ UNCHANGED <<desired, call>>

IsNext(c) == call[c].pc = "uncalled" /\ \A b \in 1 .. c - 1 : call[b].pc # "uncalled"

ConfigureReads(c, config) ==
    /\ IsNext(c) /\ ~closed
    /\ call' = [call EXCEPT ![c] =
           [pc |-> "saving", config |-> config,
            unchanged |-> desired = config /\ status.phase \notin {"error", "disabled"}]]
    /\ UNCHANGED <<manager, gens, shutdown, running, serving, settings>>

(* The database may fail; nothing is changed then. *)
ConfigureSaves(c) ==
    /\ call[c].pc = "saving"
    /\ \/ savedConfig' = call[c].config /\ call' = [call EXCEPT ![c].pc = "setting"]
       \/ savedConfig' = savedConfig /\ call' = [call EXCEPT ![c] = Returned]
    /\ UNCHANGED <<manager, gens, shutdown, running, serving, lastResult>>

ConfigureSets(c) ==
    /\ call[c].pc = "setting"
    /\ IF closed \/ (call[c].unchanged /\ desired = call[c].config)
         THEN desired' = desired /\ call' = [call EXCEPT ![c] = Returned]
         ELSE desired' = call[c].config /\ call' = [call EXCEPT ![c].pc = "begin"]
    /\ UNCHANGED <<status, generation, done, nodes, closed, gens, shutdown, running, serving,
                   settings>>

CallBegins(c) ==
    /\ call[c].pc = "begin"
    /\ Begin(~Enabled(call[c].config))
    /\ call' = [call EXCEPT ![c] = Returned]
    /\ UNCHANGED <<desired>>

(* Retry: only an error, or a manager that was not started, is retried. *)
Retry(c) ==
    /\ IsNext(c) /\ ~closed
    /\ Enabled(desired) /\ status.phase \in {"error", "disabled"}
    /\ call' = [call EXCEPT ![c].pc = "begin", ![c].config = desired]
    /\ UNCHANGED <<manager, gens, shutdown, running, serving, settings>>

-----------------------------------------------------------------------------
(* A generation.  It has to save the result it published before it goes on. *)

(* Mutant of At: the result is saved in the background. *)
AtOnce(g, label) == gens[g].pc = label

At(g, label) == gens[g].pc = label /\ gens[g].unsaved = NoResult
Go(g, label) == gens' = [gens EXCEPT ![g].pc = label]

(* Mutant of PublishAndGo: the generation is not compared. *)
PublishAlwaysAndGo(g, s, label) ==
    /\ status' = s
    /\ gens' = [gens EXCEPT ![g].pc = label, ![g].unsaved = s]

(* publish: a generation that is not the current one publishes nothing. *)
PublishAndGo(g, s, label) ==
    LET current == generation = g IN
    /\ status' = IF current THEN s ELSE status
    /\ gens' = [gens EXCEPT ![g].pc = label, ![g].unsaved = IF current THEN s ELSE NoResult]
FailAt(g, label) == PublishAndGo(g, Inactive("error"), label)

OnlyGens == UNCHANGED <<manager, call, shutdown, running, serving, settings>>
OnlyStatus == UNCHANGED <<desired, generation, done, nodes, closed, call, shutdown, settings>>

SaveResult(g) ==
    /\ gens[g].unsaved # NoResult
    /\ lastResult' = gens[g].unsaved
    /\ gens' = [gens EXCEPT ![g].unsaved = NoResult]
    /\ UNCHANGED <<manager, call, shutdown, running, serving, savedConfig>>

PreviousIsDone(g) == gens[g].prev # 0 => gens[gens[g].prev].pc = "closed"

(* reconcile begins: it works on what is desired now, not when it was begun. *)
ReadDesired(g) ==
    /\ At(g, "waiting") /\ PreviousIsDone(g)
    /\ gens' = [gens EXCEPT ![g].config = desired,
                            ![g].pc = IF Enabled(desired) THEN "ensuring" ELSE "stopping"]
    /\ OnlyGens

(* stopNode and the status: closing the node takes no answer anyone waits for. *)
StopNode(g) ==
    /\ At(g, "stopping")
    /\ node' = 0 /\ nodeStarted' = FALSE /\ running' = running \ {node}
    /\ PublishAndGo(g, Inactive("disabled"), "clearing")
    /\ UNCHANGED <<desired, generation, done, nodeHost, closed, call, shutdown, serving, settings>>

Replaced(g) == node # 0 /\ nodeHost # gens[g].config.host

(* Mutant of OldNode: the old node is looked up after the new one is in its place. *)
OldNodeLate(g) == IF Replaced(g) THEN g ELSE 0

OldNode(g) == IF Replaced(g) THEN node ELSE 0

(* ensureNode, its critical section; a node of another host name is replaced. *)
EnsureNode(g) ==
    LET new == node = 0 \/ Replaced(g) IN
    /\ At(g, "ensuring")
    /\ node' = IF new THEN g ELSE node
    /\ nodeHost' = gens[g].config.host
    /\ nodeStarted' = TRUE
    /\ gens' = [gens EXCEPT ![g].node = node', ![g].old = OldNode(g),
                            ![g].pc = IF Replaced(g) THEN "replacing"
                                    ELSE IF new \/ ~nodeStarted THEN "starting" ELSE "polling"]
    /\ UNCHANGED <<desired, status, generation, done, closed, call, shutdown, running, serving,
                   settings>>

(* The factory has no node to give; a node of another host name is closed all the same. *)
NoNode(g) ==
    /\ At(g, "ensuring") /\ (node = 0 \/ Replaced(g))
    /\ node' = 0 /\ nodeStarted' = FALSE /\ running' = running \ {OldNode(g)}
    /\ FailAt(g, "clearing")
    /\ UNCHANGED <<desired, generation, done, nodeHost, closed, call, shutdown, serving, settings>>

(* Mutant of CloseOld: the new node is started while the old one is closed. *)
CloseOldLater(g) ==
    /\ At(g, "replacing")
    /\ Go(g, "starting")
    /\ OnlyGens

CloseOld(g) ==
    /\ At(g, "replacing")
    /\ running' = running \ {gens[g].old}
    /\ Go(g, "starting")
    /\ UNCHANGED <<manager, call, shutdown, serving, settings>>

NodeStarts(g) ==
    /\ At(g, "starting")
    /\ running' = running \cup {gens[g].node}
    /\ Go(g, "polling")
    /\ UNCHANGED <<manager, call, shutdown, serving, settings>>

(* discardNode and the failed status. *)
NodeStartFails(g) ==
    /\ At(g, "starting")
    /\ node' = IF node = gens[g].node THEN 0 ELSE node
    /\ nodeStarted' = IF node = gens[g].node THEN FALSE ELSE nodeStarted
    /\ FailAt(g, "clearing")
    /\ UNCHANGED <<desired, generation, done, nodeHost, closed, call, shutdown, running, serving,
                   settings>>

(* The loop ends when the context is cancelled; it is looked at before the node is *)
(* asked and while the loop waits for the next time.                               *)
PollCancelled(g) ==
    /\ gens[g].cancelled
    /\ At(g, "polling") \/ At(g, "pausing")
    /\ Go(g, "clearing")
    /\ OnlyGens

PollAgain(g) ==
    /\ At(g, "pausing") /\ ~gens[g].cancelled
    /\ Go(g, "polling")
    /\ OnlyGens

(* The status of the node: an error, not running yet, without an identity, or well. *)
PollFails(g) ==
    /\ At(g, "polling")
    /\ FailAt(g, "clearing")
    /\ OnlyStatus
    /\ UNCHANGED <<running, serving>>

PollConnecting(g) ==
    /\ At(g, "polling")
    /\ PublishAndGo(g, Inactive("connecting"), "pausing")
    /\ OnlyStatus
    /\ UNCHANGED <<running, serving>>

PollRunning(g) ==
    /\ At(g, "polling")
    /\ Go(g, "private")
    /\ OnlyGens

Serving(g, kind) == serving' = serving \cup {<<g, kind>>}
StopServing(g) == serving' = {l \in serving : l[1] # g}
Effective(g) == gens[g].config.mode

ListenPrivate(g) ==
    /\ At(g, "private")
    /\ \/ /\ Serving(g, "private")
          /\ Go(g, IF Effective(g) = "funnel" THEN "public" ELSE "online")
          /\ status' = status
       \/ FailAt(g, "clearing") /\ serving' = serving
    /\ OnlyStatus
    /\ UNCHANGED running

(* The publishing status is published as soon as both are open. *)
ListenPublic(g) ==
    /\ At(g, "public")
    /\ \/ /\ Serving(g, "public")
          /\ PublishAndGo(g, [phase |-> "publishing", effective |-> "funnel"], "dns")
       \/ FailAt(g, "clearing") /\ StopServing(g)
    /\ OnlyStatus
    /\ UNCHANGED running

(* waitForFunnelDNS: the name resolves, the time is up, or the generation is cancelled. *)
FunnelResolves(g) ==
    /\ At(g, "dns")
    /\ PublishAndGo(g, [phase |-> "online", effective |-> "funnel"], "served")
    /\ OnlyStatus
    /\ UNCHANGED <<running, serving>>

FunnelTimesOut(g) ==
    /\ At(g, "dns") /\ ~gens[g].cancelled
    /\ FailAt(g, "closing")
    /\ OnlyStatus
    /\ UNCHANGED <<running, serving>>

FunnelCancelled(g) ==
    /\ At(g, "dns") /\ gens[g].cancelled
    /\ Go(g, "closing")
    /\ OnlyGens

(* Online, without a funnel to wait for: the generation then waits to be cancelled. *)
Online(g) ==
    /\ At(g, "online")
    /\ PublishAndGo(g, [phase |-> "online", effective |-> "private"], "served")
    /\ OnlyStatus
    /\ UNCHANGED <<running, serving>>

Cancelled(g) ==
    /\ At(g, "served") /\ gens[g].cancelled
    /\ Go(g, "closing")
    /\ OnlyGens

CloseListeners(g) ==
    /\ At(g, "closing")
    /\ StopServing(g)
    /\ Go(g, "clearing")
    /\ UNCHANGED <<manager, call, shutdown, running, settings>>

(* Mutant of Clear: the fields are cleared for the generation that took over, too. *)
ClearAlways(g) ==
    /\ At(g, "clearing")
    /\ done' = 0
    /\ Go(g, "ended")
    /\ UNCHANGED <<desired, status, generation, nodes, closed, call, shutdown, running, serving,
                   settings>>

Clear(g) ==
    /\ At(g, "clearing")
    /\ done' = IF generation = g THEN 0 ELSE done
    /\ Go(g, "ended")
    /\ UNCHANGED <<desired, status, generation, nodes, closed, call, shutdown, running, serving,
                   settings>>

(* Mutant of CloseDone: a generation that was overtaken does not close its channel. *)
CloseDoneIfCurrent(g) ==
    /\ At(g, "ended") /\ generation = g
    /\ gens' = [gens EXCEPT ![g] = [NoGeneration EXCEPT !.pc = "closed"]]
    /\ OnlyGens

CloseDone(g) ==
    /\ At(g, "ended")
    /\ gens' = [gens EXCEPT ![g] = [NoGeneration EXCEPT !.pc = "closed"]]
    /\ OnlyGens

-----------------------------------------------------------------------------
ShutdownBegins ==
    /\ shutdown.pc = "running"
    /\ closed' = TRUE
    /\ gens' = [h \in Generations |-> [gens[h] EXCEPT !.cancelled = @ \/ h = done]]
    /\ shutdown' = [pc |-> "waiting", at |-> done]
    /\ UNCHANGED <<desired, status, generation, done, nodes, call, running, serving, settings>>

ShutdownStops ==
    /\ shutdown.pc = "waiting" /\ (shutdown.at # 0 => gens[shutdown.at].pc = "closed")
    /\ node' = 0 /\ nodeStarted' = FALSE
    /\ shutdown' = [pc |-> "closing", at |-> node]
    /\ UNCHANGED <<desired, status, generation, done, nodeHost, closed, gens, call, running, serving,
                   settings>>

ShutdownReturns ==
    /\ shutdown.pc = "closing"
    /\ running' = running \ {shutdown.at}
    /\ shutdown' = [shutdown EXCEPT !.pc = "returned"]
    /\ UNCHANGED <<manager, gens, call, serving, settings>>

ShutdownTimesOut ==
    /\ shutdown.pc = "waiting" /\ shutdown.at # 0
    /\ shutdown' = [shutdown EXCEPT !.pc = "timedout"]
    /\ UNCHANGED <<manager, gens, call, running, serving, settings>>

-----------------------------------------------------------------------------
GenerationStep(g) ==
    \/ SaveResult(g) \/ ReadDesired(g) \/ StopNode(g) \/ EnsureNode(g) \/ NoNode(g)
    \/ CloseOld(g) \/ NodeStarts(g) \/ NodeStartFails(g) \/ PollCancelled(g) \/ PollAgain(g)
    \/ PollFails(g) \/ PollConnecting(g) \/ PollRunning(g) \/ ListenPrivate(g) \/ ListenPublic(g) \/ FunnelResolves(g)
    \/ FunnelTimesOut(g) \/ FunnelCancelled(g) \/ Online(g) \/ Cancelled(g) \/ CloseListeners(g)
    \/ Clear(g) \/ CloseDone(g)
CallStep(c) == ConfigureSaves(c) \/ ConfigureSets(c) \/ CallBegins(c)
NewCall(c) == Retry(c) \/ \E config \in Configs : ConfigureReads(c, config)

RemoteNext ==
    \/ \E g \in Generations : GenerationStep(g)
    \/ \E c \in Calls : CallStep(c) \/ NewCall(c)
    \/ StartRemote
    \/ ShutdownBegins \/ ShutdownStops \/ ShutdownReturns \/ ShutdownTimesOut

RemoteSpec == RemoteInit /\ [][RemoteNext]_remoteVars

(* Goroutines and handlers that can run do; a node may be "connecting" for ever. *)
RemoteFairness ==
    /\ WF_remoteVars(\E g \in Generations : GenerationStep(g))
    /\ WF_remoteVars(\E c \in Calls : CallStep(c))

FairRemoteSpec == RemoteSpec /\ RemoteFairness

-----------------------------------------------------------------------------
RemoteTypeOK ==
    /\ desired \in Configs /\ savedConfig \in Configs
    /\ status \in RemoteStatuses /\ lastResult \in RemoteStatuses \cup {NoResult}
    /\ generation \in MaybeGeneration /\ done \in {0, generation}
    /\ node \in MaybeGeneration /\ nodeStarted \in BOOLEAN /\ closed \in BOOLEAN
    /\ \A g \in Generations :
           /\ gens[g].pc \in GenerationLabels
           /\ gens[g].config \in Configs /\ gens[g].prev \in 0 .. g - 1
           /\ gens[g].node \in 0 .. g /\ gens[g].old \in 0 .. g - 1
    /\ shutdown.pc \in {"running", "waiting", "closing", "returned", "timedout"}
    /\ running \in SUBSET Generations
    /\ serving \in SUBSET (Generations \X {"private", "public"})

(* However calls, failures and cancellations interleave, one node is started at a      *)
(* time (two would share a state directory), and a listener belongs to that node and    *)
(* to the one generation at work.                                                       *)
OneNodeAtATime ==
    /\ \A m, n \in running : m = n
    /\ \A l \in serving : gens[l[1]].node \in running
    /\ \A k, l \in serving : k[1] = l[1]

(* "Online" on the dashboard means that the listeners of that mode are open, as long as *)
(* the manager is not shut down (Shutdown leaves the status as it is).                   *)
OnlineIsServed ==
    status.phase = "online" /\ ~closed =>
        \E g \in Generations :
            /\ <<g, "private">> \in serving
            /\ <<g, "public">> \in serving <=> status.effective = "funnel"

(* When Shutdown has returned without an error, nothing of the node is left, and no     *)
(* call that was under way brings it back.                                               *)
ShutdownIsClean == shutdown.pc = "returned" => running = {} /\ serving = {}

(* The settings hold the last status when no generation is at work, though results are   *)
(* saved outside the lock and by several goroutines (publish and begin, manager.go).      *)
StoredResultSettles ==
    ~closed /\ generation # 0 /\ (\A g \in Generations : gens[g].pc \in {"none", "closed"}) =>
        lastResult = status

(* Remote access that was disabled is off in the end, whatever the node was doing, and    *)
(* stays off until it is enabled again.                                                    *)
DisableTakesEffect ==
    (~Enabled(desired)) ~> (Enabled(desired) \/ closed \/ (running = {} /\ serving = {}))
=============================================================================
