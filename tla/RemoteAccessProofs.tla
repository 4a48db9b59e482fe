-------------------------- MODULE RemoteAccessProofs --------------------------
(***************************************************************************)
(* Safety of remote access for any configurations and any number of calls. *)
(***************************************************************************)
EXTENDS RemoteAccess, TLAPS

GenerationRecords ==
    [pc: GenerationLabels, config: Configs, prev: MaybeGeneration, cancelled: BOOLEAN,
     node: MaybeGeneration, old: MaybeGeneration, unsaved: RemoteStatuses \cup {NoResult}]
CallRecords ==
    [pc: {"uncalled", "saving", "setting", "begin", "returned"}, config: Configs,
     unchanged: BOOLEAN]

RemoteTypes ==
    /\ desired \in Configs /\ savedConfig \in Configs
    /\ status \in RemoteStatuses /\ lastResult \in RemoteStatuses \cup {NoResult}
    /\ generation \in MaybeGeneration /\ done \in {0, generation}
    /\ node \in MaybeGeneration /\ nodeStarted \in BOOLEAN /\ closed \in BOOLEAN
    /\ gens \in [Generations -> GenerationRecords] /\ call \in [Calls -> CallRecords]
    /\ shutdown \in [pc: {"running", "waiting", "closing", "returned", "timedout"},
                     at: MaybeGeneration]
    /\ running \in SUBSET Generations
    /\ serving \in SUBSET (Generations \X {"private", "public"})

Over == {"ended", "closed"}
NotYet == {"none", "waiting"}

(* The generations are begun one after the other, and one that works has found every *)
(* one before it at its end: it waited for the last of them, or that had cleared its *)
(* channel already.                                                                  *)
ChainInv ==
    /\ \A g \in Generations : gens[g].pc = "none" <=> g > generation
    /\ \A g \in Generations : \A h \in 1 .. g - 1 :
          gens[g].pc \notin NotYet => gens[h].pc \in Over
    /\ \A g \in Generations : gens[g].pc = "waiting" /\ gens[g].prev # g - 1 =>
          gens[g].prev = 0 /\ gens[g - 1].pc \in Over
    /\ done = 0 /\ generation # 0 => gens[generation].pc \in Over
    /\ generation # 0 /\ gens[generation].cancelled => closed

(* After Shutdown no generation is begun, and it goes on when none is at work. *)
Ceased == \A g \in Generations : gens[g].pc \in Over \cup {"none"}
ShutdownInv ==
    /\ shutdown.pc # "running" => closed
    /\ shutdown.pc = "waiting" => IF shutdown.at = 0 THEN Ceased ELSE shutdown.at = generation
    /\ shutdown.pc \in {"closing", "returned"} => Ceased /\ node = 0 /\ ~nodeStarted
    /\ shutdown.pc = "closing" => running \subseteq {shutdown.at}
    /\ shutdown.pc = "returned" => running = {}

(* What is running is the node of the manager, except while a generation is replacing *)
(* or starting it.                                                                    *)
Before == {"none", "waiting", "stopping", "ensuring"}
Placing == {"replacing", "starting"}
Using == {"polling", "pausing", "private", "public", "dns", "online", "served", "closing"}
NodeInv ==
    /\ nodeStarted <=> node # 0
    /\ \A g \in Generations : gens[g].node <= g /\ gens[g].old < g /\ gens[g].prev < g
    /\ node # 0 => gens[node].pc \notin Before
    /\ \A g \in Generations :
        /\ gens[g].pc \in Placing \cup Using => node # 0 /\ node = gens[g].node
        /\ gens[g].pc = "replacing" => running = {gens[g].old}
        /\ gens[g].pc = "starting" => running = {}
    /\ (\A g \in Generations : gens[g].pc \notin Placing)
         /\ shutdown.pc # "closing" => running = IF node = 0 THEN {} ELSE {node}

(* A listener belongs to a generation that has opened it and not closed it yet. *)
Listening == {"public", "online", "dns", "served"}
ServingInv ==
    /\ \A g \in Generations :
        /\ <<g, "private">> \in serving => gens[g].pc \in Listening \cup {"closing"}
        /\ <<g, "public">> \in serving => gens[g].pc \in {"dns", "served", "closing"}
        /\ gens[g].pc \in Listening => <<g, "private">> \in serving
        /\ gens[g].pc = "dns" => <<g, "public">> \in serving
    /\ status.phase = "online" /\ ~closed =>
        /\ generation # 0 /\ gens[generation].pc = "served"
        /\ <<generation, "public">> \in serving <=> status.effective = "funnel"

(* The generation that has come to its end published last, and its result is the one *)
(* that is saved last: those before it have none left to save.                       *)
Ending == {"closing", "clearing", "ended", "closed"}
ResultInv ==
    /\ \A g \in Generations : gens[g].pc \in Over \cup {"none"} => gens[g].unsaved = NoResult
    /\ ~closed /\ generation # 0 /\ gens[generation].pc \in Ending =>
          \/ gens[generation].unsaved = status
          \/ gens[generation].unsaved = NoResult /\ lastResult = status

RemoteInv ==
    RemoteTypes /\ ChainInv /\ ShutdownInv /\ NodeInv /\ ServingInv /\ ResultInv

-----------------------------------------------------------------------------
LEMMA NumberFacts ==
    /\ Calls \subseteq Nat /\ Generations \subseteq Nat \ {0}
    /\ MaybeGeneration = Generations \cup {0} /\ MaybeGeneration \subseteq Nat
    /\ \A g \in Generations : \A h \in 1 .. g - 1 : h \in Generations /\ h < g
    /\ \A g, h \in Generations : g = h \/ h \in 1 .. g - 1 \/ g \in 1 .. h - 1
    /\ \A g \in Generations : g # 1 => g - 1 \in Generations /\ g - 1 \in 1 .. g - 1
    /\ \A g \in MaybeGeneration : g + 1 \in Nat \ {0}
BY RemoteConstants DEF Calls, Generations, MaybeGeneration

(* The records at rest, and the statuses that are published. *)
LEMMA StatusFacts ==
    /\ NoResult \notin RemoteStatuses /\ \A p \in Phases : Inactive(p) \in RemoteStatuses
    /\ \A p \in Phases : Inactive(p).phase = p
    /\ [phase |-> "publishing", effective |-> "funnel"] \in RemoteStatuses
    /\ [phase |-> "online", effective |-> "funnel"] \in RemoteStatuses
    /\ [phase |-> "online", effective |-> "private"] \in RemoteStatuses
    /\ {"disabled", "starting", "stopping", "connecting", "publishing", "online", "error"} = Phases
BY DEF NoResult, RemoteStatuses, Inactive, Phases

LEMMA RestFacts ==
    ASSUME Configs # {}
    PROVE  /\ NoGeneration \in GenerationRecords /\ NotCalled \in CallRecords
           /\ Returned \in CallRecords
           /\ NoGeneration.pc = "none" /\ NoGeneration.prev = 0 /\ NoGeneration.node = 0
           /\ NoGeneration.old = 0 /\ NoGeneration.unsaved = NoResult /\ ~NoGeneration.cancelled
<1>1. (CHOOSE c \in Configs : TRUE) \in Configs
  OBVIOUS
<1> QED
  BY <1>1, NumberFacts
  DEF NoGeneration, NotCalled, Returned, GenerationRecords, CallRecords, GenerationLabels

-----------------------------------------------------------------------------
(* The step is of one generation. *)
Alone(g) ==
    /\ gens' \in [Generations -> GenerationRecords]
    /\ \A h \in Generations : h # g => gens'[h] = gens[h]

(* A generation that goes to another place, with a result to save or without. *)
Goes(g, label, unsaved) ==
    /\ Alone(g)
    /\ gens'[g].pc = label /\ gens'[g].unsaved = unsaved
    /\ gens'[g].config = gens[g].config /\ gens'[g].prev = gens[g].prev
    /\ gens'[g].cancelled = gens[g].cancelled
    /\ gens'[g].node = gens[g].node /\ gens'[g].old = gens[g].old

LEMMA GoGoes ==
    ASSUME RemoteTypes, NEW g \in Generations, NEW label \in GenerationLabels, Go(g, label)
    PROVE  Goes(g, label, gens[g].unsaved)
BY DEF RemoteTypes, GenerationRecords, Go, Goes, Alone

LEMMA SavedGoes ==
    ASSUME RemoteTypes, NEW g \in Generations, SaveResult(g)
    PROVE  Goes(g, gens[g].pc, NoResult)
BY DEF RemoteTypes, GenerationRecords, SaveResult, Goes, Alone

(* Only the current generation publishes, and it has the result to save. *)
LEMMA PublishGoes ==
    ASSUME RemoteTypes, NEW g \in Generations, NEW label \in GenerationLabels,
           NEW s \in RemoteStatuses, PublishAndGo(g, s, label)
    PROVE  /\ Goes(g, label, IF generation = g THEN s ELSE NoResult)
           /\ status' = IF generation = g THEN s ELSE status
BY DEF RemoteTypes, GenerationRecords, PublishAndGo, Goes, Alone

LEMMA FailGoes ==
    ASSUME RemoteTypes, NEW g \in Generations, NEW label \in GenerationLabels, FailAt(g, label)
    PROVE  /\ Goes(g, label, IF generation = g THEN Inactive("error") ELSE NoResult)
           /\ status' = IF generation = g THEN Inactive("error") ELSE status
BY PublishGoes, StatusFacts DEF FailAt

LEMMA ReadGoes ==
    ASSUME RemoteTypes, NEW g \in Generations, ReadDesired(g)
    PROVE  /\ Alone(g)
           /\ gens'[g].pc \in {"ensuring", "stopping"} /\ gens'[g].unsaved = NoResult
           /\ gens'[g].prev = gens[g].prev /\ gens'[g].cancelled = gens[g].cancelled
           /\ gens'[g].node = gens[g].node /\ gens'[g].old = gens[g].old
BY DEF RemoteTypes, GenerationRecords, GenerationLabels, ReadDesired, At, Alone

LEMMA EnsureGoes ==
    ASSUME RemoteTypes, NEW g \in Generations, EnsureNode(g)
    PROVE  /\ Alone(g)
           /\ gens'[g].pc = IF Replaced(g) THEN "replacing"
                            ELSE IF node = 0 \/ ~nodeStarted THEN "starting" ELSE "polling"
           /\ gens'[g].unsaved = NoResult
           /\ gens'[g].prev = gens[g].prev /\ gens'[g].cancelled = gens[g].cancelled
           /\ gens'[g].node = node' /\ gens'[g].old = OldNode(g)
<1>1. node' \in MaybeGeneration /\ OldNode(g) \in MaybeGeneration
  BY NumberFacts DEF RemoteTypes, EnsureNode, OldNode, Replaced
<1> QED
  BY SMTT(30), ZenonT(60), <1>1 DEF RemoteTypes, GenerationRecords, GenerationLabels, EnsureNode, At, Replaced, Alone

LEMMA CloseGoes ==
    ASSUME RemoteTypes, NEW g \in Generations, CloseDone(g)
    PROVE  /\ Alone(g)
           /\ gens'[g] = [NoGeneration EXCEPT !.pc = "closed"]
           /\ gens'[g].pc = "closed" /\ gens'[g].unsaved = NoResult
           /\ ~gens'[g].cancelled /\ gens'[g].prev = 0 /\ gens'[g].node = 0 /\ gens'[g].old = 0
<1>1. [NoGeneration EXCEPT !.pc = "closed"] \in GenerationRecords
  BY RestFacts DEF RemoteTypes, NoGeneration, GenerationRecords, GenerationLabels
<1> QED
  BY <1>1, RestFacts DEF RemoteTypes, CloseDone, NoGeneration, Alone

(* What a step of a generation does to the others, to the manager, and to its own place. *)
Moves(g) ==
    /\ UNCHANGED <<desired, generation, closed, call, shutdown, savedConfig>>
    /\ Alone(g)
    /\ gens'[g].cancelled => gens[g].cancelled
    /\ \/ gens'[g].pc = gens[g].pc
       \/ /\ gens[g].pc \notin {"none", "closed"} /\ gens'[g].pc \notin NotYet
          /\ gens[g].pc = "waiting" => PreviousIsDone(g)
          /\ gens[g].pc = "ended" => gens'[g].pc = "closed"
    /\ gens'[g].prev \in {gens[g].prev, 0}
    /\ gens'[g].pc = "waiting" => gens'[g].prev = gens[g].prev
    /\ done' # done => done' = 0 /\ generation = g /\ gens'[g].pc = "ended"

LEMMA GenerationMoves ==
    ASSUME RemoteTypes, NEW g \in Generations, GenerationStep(g)
    PROVE  Moves(g)
<1> USE StatusFacts DEF Moves, Goes, NotYet, GenerationLabels, manager, settings
<1>1. CASE SaveResult(g)
  BY <1>1, SavedGoes DEF SaveResult
<1>2. CASE ReadDesired(g)
  BY <1>2, ReadGoes DEF ReadDesired, At, OnlyGens
<1>3. CASE StopNode(g)
  BY <1>3, PublishGoes DEF StopNode, At
<1>4. CASE EnsureNode(g)
  <2>1. /\ UNCHANGED <<desired, generation, done, closed, call, shutdown, savedConfig>>
        /\ gens[g].pc = "ensuring"
    BY <1>4 DEF EnsureNode, At
  <2>2. gens'[g].pc \in {"replacing", "starting", "polling"}
    BY <1>4, EnsureGoes
  <2> QED
    BY <1>4, <2>1, <2>2, EnsureGoes
<1>5. CASE NoNode(g)
  BY <1>5, FailGoes DEF NoNode, At, OldNode, Replaced
<1>6. CASE CloseOld(g)
  BY <1>6, GoGoes DEF CloseOld, At
<1>7. CASE NodeStarts(g)
  BY <1>7, GoGoes DEF NodeStarts, At
<1>8. CASE NodeStartFails(g)
  BY <1>8, FailGoes DEF NodeStartFails, At
<1>9. CASE PollCancelled(g)
  BY <1>9, GoGoes DEF PollCancelled, At, OnlyGens
<1>10. CASE PollAgain(g)
  BY <1>10, GoGoes DEF PollAgain, At, OnlyGens
<1>11. CASE PollFails(g)
  BY <1>11, FailGoes DEF PollFails, At, OnlyStatus
<1>12. CASE PollConnecting(g)
  BY <1>12, PublishGoes DEF PollConnecting, At, OnlyStatus
<1>13. CASE PollRunning(g)
  BY <1>13, GoGoes DEF PollRunning, At, OnlyGens
<1>14. CASE ListenPrivate(g)
  BY <1>14, FailGoes, GoGoes DEF ListenPrivate, At, Serving, OnlyStatus
<1>15. CASE ListenPublic(g)
  BY <1>15, FailGoes, PublishGoes DEF ListenPublic, At, Serving, StopServing, OnlyStatus
<1>16. CASE FunnelResolves(g)
  BY <1>16, PublishGoes DEF FunnelResolves, At, OnlyStatus
<1>17. CASE FunnelTimesOut(g)
  BY <1>17, FailGoes DEF FunnelTimesOut, At, OnlyStatus
<1>18. CASE FunnelCancelled(g)
  BY <1>18, GoGoes DEF FunnelCancelled, At, OnlyGens
<1>19. CASE Online(g)
  BY <1>19, PublishGoes DEF Online, At, OnlyStatus
<1>20. CASE Cancelled(g)
  BY <1>20, GoGoes DEF Cancelled, At, OnlyGens
<1>21. CASE CloseListeners(g)
  BY <1>21, GoGoes DEF CloseListeners, At, StopServing
<1>22. CASE Clear(g)
  BY <1>22, GoGoes DEF Clear, At
<1>23. CASE CloseDone(g)
  BY <1>23, CloseGoes DEF CloseDone, At, OnlyGens
<1> QED
  BY <1>1, <1>2, <1>3, <1>4, <1>5, <1>6, <1>7, <1>8, <1>9, <1>10, <1>11, <1>12, <1>13, <1>14,
      <1>15, <1>16, <1>17, <1>18, <1>19, <1>20, <1>21, <1>22, <1>23 DEF GenerationStep

(* The steps that work on the node, that open or close listeners, and that publish or save. *)
NodeSteps(g) ==
    StopNode(g) \/ EnsureNode(g) \/ NoNode(g) \/ CloseOld(g) \/ NodeStarts(g) \/ NodeStartFails(g)
ServingSteps(g) == ListenPrivate(g) \/ ListenPublic(g) \/ CloseListeners(g)

LEMMA OthersKeepTheNode ==
    ASSUME NEW g \in Generations, GenerationStep(g), ~NodeSteps(g)
    PROVE  UNCHANGED <<node, nodeStarted, running>>
BY DEF GenerationStep, NodeSteps, SaveResult, ReadDesired, PollCancelled, PollAgain, PollFails,
       PollConnecting, PollRunning, ListenPrivate, ListenPublic, FunnelResolves, FunnelTimesOut,
       FunnelCancelled, Online, Cancelled, CloseListeners, Clear, CloseDone, OnlyGens,
           OnlyStatus,
       manager, nodes

LEMMA OthersKeepTheListeners ==
    ASSUME NEW g \in Generations, GenerationStep(g), ~ServingSteps(g)
    PROVE  UNCHANGED serving
BY DEF GenerationStep, ServingSteps, SaveResult, ReadDesired, StopNode, EnsureNode, NoNode,
       CloseOld, NodeStarts, NodeStartFails, PollCancelled, PollAgain, PollFails,
           PollConnecting,
       PollRunning, FunnelResolves, FunnelTimesOut, FunnelCancelled, Online, Cancelled, Clear,
       CloseDone, OnlyGens

LEMMA StatusMoves ==
    ASSUME RemoteTypes, NEW g \in Generations, GenerationStep(g)
    PROVE  /\ status' \in RemoteStatuses /\ lastResult' \in RemoteStatuses \cup {NoResult}
           /\ generation # g => status' = status
           /\ \/ SaveResult(g) /\ status' = status
              \/ /\ lastResult' = lastResult
                 /\ \/ status' = status /\ gens'[g].unsaved \in {gens[g].unsaved, NoResult}
                    \/ generation = g /\ gens'[g].unsaved = status'
<1> USE StatusFacts DEF Goes, GenerationLabels, manager, settings
<1>1. CASE SaveResult(g)
  BY <1>1, SavedGoes DEF SaveResult, RemoteTypes, GenerationRecords
<1>2. CASE ReadDesired(g)
  BY <1>2, ReadGoes DEF ReadDesired, At, OnlyGens, RemoteTypes
<1>3. CASE StopNode(g)
  BY <1>3, PublishGoes DEF StopNode, At, RemoteTypes
<1>4. CASE EnsureNode(g)
  BY <1>4, EnsureGoes DEF EnsureNode, At, OldNode, Replaced, RemoteTypes
<1>5. CASE NoNode(g)
  BY <1>5, FailGoes DEF NoNode, At, OldNode, Replaced, RemoteTypes
<1>6. CASE CloseOld(g)
  BY <1>6, GoGoes DEF CloseOld, At, RemoteTypes
<1>7. CASE NodeStarts(g)
  BY <1>7, GoGoes DEF NodeStarts, At, RemoteTypes
<1>8. CASE NodeStartFails(g)
  BY <1>8, FailGoes DEF NodeStartFails, At, RemoteTypes
<1>9. CASE PollCancelled(g)
  BY <1>9, GoGoes DEF PollCancelled, At, OnlyGens, RemoteTypes
<1>10. CASE PollAgain(g)
  BY <1>10, GoGoes DEF PollAgain, At, OnlyGens, RemoteTypes
<1>11. CASE PollFails(g)
  BY <1>11, FailGoes DEF PollFails, At, OnlyStatus, RemoteTypes
<1>12. CASE PollConnecting(g)
  BY <1>12, PublishGoes DEF PollConnecting, At, OnlyStatus, RemoteTypes
<1>13. CASE PollRunning(g)
  BY <1>13, GoGoes DEF PollRunning, At, OnlyGens, RemoteTypes
<1>14. CASE ListenPrivate(g)
  BY SMTT(30), ZenonT(60), <1>14, FailGoes, GoGoes DEF ListenPrivate, At, Serving, OnlyStatus, RemoteTypes
<1>15. CASE ListenPublic(g)
  BY SMTT(30), ZenonT(60), <1>15, FailGoes, PublishGoes DEF ListenPublic, At, Serving, StopServing, OnlyStatus,
      RemoteTypes
<1>16. CASE FunnelResolves(g)
  BY SMTT(30), ZenonT(60), <1>16, PublishGoes DEF FunnelResolves, At, OnlyStatus, RemoteTypes
<1>17. CASE FunnelTimesOut(g)
  BY SMTT(30), ZenonT(60), <1>17, FailGoes DEF FunnelTimesOut, At, OnlyStatus, RemoteTypes
<1>18. CASE FunnelCancelled(g)
  BY <1>18, GoGoes DEF FunnelCancelled, At, OnlyGens, RemoteTypes
<1>19. CASE Online(g)
  BY SMTT(30), ZenonT(60), <1>19, PublishGoes DEF Online, At, OnlyStatus, RemoteTypes
<1>20. CASE Cancelled(g)
  BY <1>20, GoGoes DEF Cancelled, At, OnlyGens, RemoteTypes
<1>21. CASE CloseListeners(g)
  BY <1>21, GoGoes DEF CloseListeners, At, StopServing, RemoteTypes
<1>22. CASE Clear(g)
  BY <1>22, GoGoes DEF Clear, At, RemoteTypes
<1>23. CASE CloseDone(g)
  BY <1>23, CloseGoes DEF CloseDone, At, OnlyGens, RemoteTypes
<1> QED
  BY <1>1, <1>2, <1>3, <1>4, <1>5, <1>6, <1>7, <1>8, <1>9, <1>10, <1>11, <1>12, <1>13, <1>14,
      <1>15, <1>16, <1>17, <1>18, <1>19, <1>20, <1>21, <1>22, <1>23 DEF GenerationStep

LEMMA NodeTypes ==
    ASSUME RemoteTypes, NodeInv, NEW g \in Generations, GenerationStep(g)
    PROVE  node' \in MaybeGeneration /\ nodeStarted' \in BOOLEAN /\ running' \in SUBSET Generations
<1> USE NumberFacts DEF RemoteTypes
<1>1. CASE StopNode(g)
  BY <1>1 DEF StopNode
<1>2. CASE EnsureNode(g)
  BY <1>2 DEF EnsureNode
<1>3. CASE NoNode(g)
  BY <1>3 DEF NoNode
<1>4. CASE CloseOld(g)
  BY <1>4 DEF CloseOld, manager
<1>5. CASE NodeStarts(g)
  <2>1. gens[g].node \in Generations
    BY <1>5 DEF NodeStarts, At, NodeInv, Placing
  <2> QED
    BY <1>5, <2>1 DEF NodeStarts, manager
<1>6. CASE NodeStartFails(g)
  BY <1>6 DEF NodeStartFails
<1> QED
  BY <1>1, <1>2, <1>3, <1>4, <1>5, <1>6, OthersKeepTheNode DEF NodeSteps

LEMMA ServingTypes ==
    ASSUME RemoteTypes, NEW g \in Generations, GenerationStep(g)
    PROVE  serving' \in SUBSET (Generations \X {"private", "public"})
<1> USE DEF RemoteTypes
<1>1. CASE ListenPrivate(g)
  BY <1>1 DEF ListenPrivate, Serving
<1>2. CASE ListenPublic(g)
  BY <1>2 DEF ListenPublic, Serving, StopServing
<1>3. CASE CloseListeners(g)
  BY <1>3 DEF CloseListeners, StopServing
<1> QED
  BY <1>1, <1>2, <1>3, OthersKeepTheListeners DEF ServingSteps

-----------------------------------------------------------------------------
(* A generation is begun when the one before it is at work or at its end. *)
Begins ==
    /\ ~closed /\ generation + 1 \in Generations
    /\ generation' = generation + 1 /\ done' = generation'
    /\ status' \in RemoteStatuses /\ status'.phase # "online"
    /\ gens' \in [Generations -> GenerationRecords]
    /\ gens'[generation'].pc = "waiting" /\ gens'[generation'].prev = done
    /\ gens'[generation'].node = 0 /\ gens'[generation'].old = 0
    /\ ~gens'[generation'].cancelled /\ gens'[generation'].unsaved = status'
    /\ \A h \in Generations : h # generation' =>
           /\ gens'[h].pc = gens[h].pc /\ gens'[h].prev = gens[h].prev
           /\ gens'[h].node = gens[h].node /\ gens'[h].old = gens[h].old
           /\ gens'[h].unsaved = gens[h].unsaved
BeginFrame == UNCHANGED <<node, nodeStarted, closed, shutdown, running, serving, lastResult>>

LEMMA BeginBegins ==
    ASSUME RemoteTypes, NEW disabling \in BOOLEAN, Begin(disabling)
    PROVE  /\ BeginFrame /\ savedConfig' = savedConfig
           /\ Begins \/ UNCHANGED <<status, generation, done, gens>>
<1>1. BeginFrame /\ savedConfig' = savedConfig
  BY DEF Begin, BeginFrame, nodes, settings
<1>2. CASE closed
  BY <1>1, <1>2 DEF Begin
<1>3. CASE ~closed
  <2> DEFINE g == generation + 1
             first == Inactive(IF disabling THEN "stopping" ELSE "starting")
             new == [NoGeneration EXCEPT !.pc = "waiting", !.prev = done, !.unsaved = first]
  <2>1. first \in RemoteStatuses /\ first.phase # "online"
    BY StatusFacts
  <2>2. done \in MaybeGeneration /\ NoGeneration \in GenerationRecords
    BY NumberFacts, RestFacts DEF RemoteTypes
  <2>3. /\ new \in GenerationRecords /\ new.pc = "waiting" /\ new.prev = done /\ new.node = 0
        /\ new.old = 0 /\ ~new.cancelled /\ new.unsaved = first
    BY <2>1, <2>2 DEF NoGeneration, GenerationRecords, GenerationLabels
  <2>4. /\ g \in Generations /\ generation' = g /\ done' = g /\ status' = first
        /\ gens' = [h \in Generations |->
                       IF h = g THEN new ELSE [gens[h] EXCEPT !.cancelled = @ \/ h = done]]
    BY <1>3 DEF Begin
  <2>5. \A h \in Generations :
           /\ [gens[h] EXCEPT !.cancelled = @ \/ h = done] \in GenerationRecords
           /\ gens[h] = [gens[h] EXCEPT !.cancelled = gens[h].cancelled]
    BY DEF RemoteTypes, GenerationRecords
  <2> HIDE DEF g, first, new
  <2>6. gens' \in [Generations -> GenerationRecords] /\ gens'[g] = new
    BY <2>3, <2>4, <2>5
  <2>7. \A h \in Generations : h # g => gens'[h] = [gens[h] EXCEPT !.cancelled = @ \/ h = done]
    BY <2>4
  <2>8. ASSUME NEW h \in Generations, h # g
        PROVE  /\ gens'[h].pc = gens[h].pc /\ gens'[h].prev = gens[h].prev
               /\ gens'[h].node = gens[h].node /\ gens'[h].old = gens[h].old
               /\ gens'[h].unsaved = gens[h].unsaved
    <3> DEFINE cancels == gens[h].cancelled \/ h = done
    <3>1. gens'[h] = [gens[h] EXCEPT !.cancelled = cancels] /\ gens[h] \in GenerationRecords
      BY <2>7, <2>8 DEF RemoteTypes
    <3> HIDE DEF cancels
    <3> QED
      BY <3>1 DEF GenerationRecords
  <2> QED
    BY <1>1, <1>3, <2>1, <2>3, <2>4, <2>6, <2>8 DEF Begins, g
<1> QED
  BY <1>2, <1>3

(* The steps of calls. *)
CallGoesOn ==
    \/ \E c \in Calls : CallStep(c) \/ NewCall(c)
    \/ StartRemote

CallKeepsTypes ==
    /\ BeginFrame
    /\ desired' \in Configs /\ savedConfig' \in Configs
    /\ call' \in [Calls -> CallRecords]

LEMMA CallMoves ==
    ASSUME RemoteTypes, CallGoesOn
    PROVE  CallKeepsTypes /\ (Begins \/ UNCHANGED <<status, generation, done, gens>>)
<1>1. Returned \in CallRecords
  BY RestFacts DEF RemoteTypes
<1>2. ASSUME NEW c \in Calls, NEW config \in Configs, ConfigureReads(c, config)
      PROVE  CallKeepsTypes /\ UNCHANGED <<status, generation, done, gens>>
  BY <1>2 DEF ConfigureReads, CallKeepsTypes, BeginFrame, RemoteTypes, CallRecords, manager,
      settings
<1>3. ASSUME NEW c \in Calls, Retry(c)
      PROVE  CallKeepsTypes /\ UNCHANGED <<status, generation, done, gens>>
  BY SMTT(30), ZenonT(60), <1>3 DEF Retry, CallKeepsTypes, BeginFrame, RemoteTypes, CallRecords, manager, settings
<1>4. ASSUME NEW c \in Calls, ConfigureSaves(c)
      PROVE  CallKeepsTypes /\ UNCHANGED <<status, generation, done, gens>>
  BY <1>1, <1>4 DEF ConfigureSaves, CallKeepsTypes, BeginFrame, RemoteTypes, CallRecords,
      manager
<1>5. ASSUME NEW c \in Calls, ConfigureSets(c)
      PROVE  CallKeepsTypes /\ UNCHANGED <<status, generation, done, gens>>
  BY <1>1, <1>5 DEF ConfigureSets, CallKeepsTypes, BeginFrame, RemoteTypes, CallRecords,
      nodes, settings
<1>6. ASSUME NEW c \in Calls, CallBegins(c)
      PROVE  CallKeepsTypes /\ (Begins \/ UNCHANGED <<status, generation, done, gens>>)
  BY <1>1, <1>6, BeginBegins DEF CallBegins, CallKeepsTypes, Enabled, RemoteTypes, CallRecords
<1>7. ASSUME StartRemote
      PROVE  CallKeepsTypes /\ (Begins \/ UNCHANGED <<status, generation, done, gens>>)
  BY <1>7, BeginBegins DEF StartRemote, CallKeepsTypes, RemoteTypes
<1> QED
  BY <1>2, <1>3, <1>4, <1>5, <1>6, <1>7 DEF CallGoesOn, CallStep, NewCall

LEMMA ShutdownBeginsMoves ==
    ASSUME RemoteTypes, ShutdownBegins
    PROVE  /\ UNCHANGED <<desired, status, generation, done, node, nodeStarted, call, running,
                          serving, savedConfig, lastResult>>
           /\ closed' /\ closed' \in BOOLEAN /\ gens' \in [Generations -> GenerationRecords]
           /\ shutdown' = [pc |-> "waiting", at |-> done] /\ shutdown.pc = "running"
           /\ \A h \in Generations :
                 /\ gens'[h].pc = gens[h].pc /\ gens'[h].prev = gens[h].prev
                 /\ gens'[h].node = gens[h].node /\ gens'[h].old = gens[h].old
                 /\ gens'[h].unsaved = gens[h].unsaved
BY SMTT(30), ZenonT(60) DEF ShutdownBegins, RemoteTypes, GenerationRecords, nodes, settings

LEMMA NextCases ==
    ASSUME RemoteNext
    PROVE  \/ \E g \in Generations : GenerationStep(g)
           \/ CallGoesOn
           \/ ShutdownBegins \/ ShutdownStops \/ ShutdownReturns \/ ShutdownTimesOut
BY DEF RemoteNext, CallGoesOn

-----------------------------------------------------------------------------
LEMMA OverBefore ==
    ASSUME ChainInv, NEW g \in Generations, g # 1 => gens[g - 1].pc \in Over
    PROVE  \A h \in 1 .. g - 1 : gens[h].pc \in Over
<1> TAKE h \in 1 .. g - 1
<1>1. g - 1 \in Generations /\ (h = g - 1 \/ h \in 1 .. (g - 1) - 1) /\ g # 1
  BY NumberFacts
<1>2. gens[g - 1].pc \notin NotYet
  BY <1>1 DEF Over, NotYet
<1> QED
  BY <1>1, <1>2 DEF ChainInv

(* The generations follow each other through every step. *)
LEMMA ChainStep ==
    ASSUME RemoteInv, RemoteNext
    PROVE  ChainInv'
<1> RemoteTypes /\ ChainInv
  BY DEF RemoteInv
<1>1. ASSUME NEW g \in Generations, GenerationStep(g) PROVE ChainInv'
  <2>1. Moves(g)
    BY <1>1, GenerationMoves
  <2>2. /\ generation' = generation /\ closed' = closed
        /\ gens'[g].cancelled => gens[g].cancelled
        /\ \A h \in Generations : h # g => gens'[h] = gens[h]
    BY <2>1 DEF Moves, Alone
  <2>3. \A h \in Generations : gens[h].pc \in Over => gens'[h].pc \in Over
    BY <2>1, <2>2 DEF Moves, Over
  <2>4. \A h \in Generations : gens'[h].pc = "none" <=> gens[h].pc = "none"
    BY <2>1, <2>2 DEF Moves, NotYet
  <2>5. gens'[g].pc \notin NotYet => \A h \in 1 .. g - 1 : gens[h].pc \in Over
    <3>1. CASE gens[g].pc \notin NotYet
      BY <3>1 DEF ChainInv
    <3>2. CASE gens[g].pc = "waiting" /\ gens'[g].pc # gens[g].pc
      <4>1. g # 1 => gens[g - 1].pc \in Over
        BY <2>1, <3>2, NumberFacts DEF Moves, PreviousIsDone, ChainInv, Over
      <4> QED
        BY <4>1, OverBefore
    <3> QED
      BY <2>1, <3>1, <3>2 DEF Moves, NotYet
  <2>6. \A h \in Generations : h # g /\ gens'[h].pc \notin NotYet =>
            \A k \in 1 .. h - 1 : gens[k].pc \in Over
    BY <2>2 DEF ChainInv
  <2>7. \A h \in Generations : gens'[h].pc \notin NotYet =>
            \A k \in 1 .. h - 1 : gens'[k].pc \in Over
    BY <2>3, <2>5, <2>6, NumberFacts
  <2>8. \A h \in Generations : gens'[h].pc = "waiting" =>
            gens[h].pc = "waiting" /\ gens'[h].prev = gens[h].prev
    BY <2>1, <2>2 DEF Moves, NotYet
  <2>9. \A h \in Generations : gens'[h].pc = "waiting" /\ gens'[h].prev # h - 1 =>
            gens'[h].prev = 0 /\ gens'[h - 1].pc \in Over
    <3> TAKE h \in Generations
    <3> HAVE gens'[h].pc = "waiting" /\ gens'[h].prev # h - 1
    <3>1. gens[h].prev = 0 /\ gens[h - 1].pc \in Over /\ gens'[h].prev = 0
      BY <2>8 DEF ChainInv
    <3> QED
      BY <2>3, <2>8, <3>1, NumberFacts
  <2>10. done' = 0 /\ generation' # 0 => gens'[generation'].pc \in Over
    BY <2>1, <2>2, <2>3 DEF Moves, Over, ChainInv, RemoteTypes, MaybeGeneration
  <2>11. generation' # 0 /\ gens'[generation'].cancelled => closed'
    BY <2>2 DEF ChainInv, RemoteTypes, MaybeGeneration
  <2> QED
    BY <2>2, <2>4, <2>7, <2>9, <2>10, <2>11 DEF ChainInv
<1>2. CASE Begins /\ BeginFrame
  <2> DEFINE g == generation'
  <2>1. /\ g = generation + 1 /\ g \in Generations /\ done' = g /\ gens'[g].pc = "waiting"
        /\ gens'[g].prev = done /\ ~gens'[g].cancelled /\ closed' = closed
        /\ \A h \in Generations : h # g => gens'[h].pc = gens[h].pc /\ gens'[h].prev = gens[h].prev
    BY <1>2 DEF Begins, BeginFrame
  <2>2. generation \in Nat /\ done \in {0, generation} /\ gens[g].pc = "none"
    BY <2>1, NumberFacts DEF RemoteTypes, ChainInv
  <2>3. \A h \in Generations : gens[h].pc \in Over => h # g
    BY <2>2 DEF Over
  <2>4. \A h \in Generations : gens[h].pc \in Over => gens'[h].pc \in Over
    BY <2>1, <2>3
  <2> HIDE DEF g
  <2>5. \A h \in Generations : gens'[h].pc = "none" <=> h > g
    BY <2>1, <2>2, NumberFacts DEF ChainInv
  <2>6. \A h \in Generations : \A k \in 1 .. h - 1 : gens'[h].pc \notin NotYet => gens'[k].pc \in Over
    BY <2>1, <2>4, NumberFacts DEF ChainInv, NotYet
  <2>7. ASSUME NEW h \in Generations, gens'[h].pc = "waiting", gens'[h].prev # h - 1
        PROVE  gens'[h].prev = 0 /\ gens'[h - 1].pc \in Over
    <3>1. CASE h = g
      <4>1. done = 0 /\ generation # 0 /\ h - 1 = generation
        BY <2>1, <2>2, <2>7, <3>1
      <4>2. gens[generation].pc \in Over /\ generation \in Generations
        BY <4>1 DEF ChainInv, RemoteTypes, MaybeGeneration
      <4> QED
        BY <2>1, <2>4, <3>1, <4>1, <4>2
    <3>2. CASE h # g
      <4>1. gens[h].pc = "waiting" /\ gens[h].prev # h - 1 /\ gens'[h].prev = gens[h].prev
        BY <2>1, <2>7, <3>2
      <4>2. gens[h].prev = 0 /\ gens[h - 1].pc \in Over
        BY <4>1 DEF ChainInv
      <4>3. h - 1 \in Generations
        BY <4>1, <4>2, NumberFacts
      <4> QED
        BY <2>4, <4>1, <4>2, <4>3
    <3> QED
      BY <3>1, <3>2
  <2>8. done' # 0 /\ ~gens'[generation'].cancelled
    BY <2>1, NumberFacts DEF g
  <2> QED
    BY <2>5, <2>6, <2>7, <2>8 DEF ChainInv, g
<1>3. CASE CallGoesOn
  <2>1. CASE UNCHANGED <<status, generation, done, gens>> /\ BeginFrame
    BY <2>1 DEF ChainInv, BeginFrame
  <2> QED
    BY <1>2, <1>3, <2>1, CallMoves DEF CallKeepsTypes
<1>4. CASE ShutdownBegins
  <2>1. /\ closed' /\ generation' = generation /\ done' = done
        /\ \A h \in Generations : gens'[h].pc = gens[h].pc /\ gens'[h].prev = gens[h].prev
    BY <1>4, ShutdownBeginsMoves
  <2>2. \A h \in Generations : gens'[h].pc = "none" <=> h > generation'
    BY <2>1 DEF ChainInv
  <2>3. \A h \in Generations : \A k \in 1 .. h - 1 : gens'[h].pc \notin NotYet => gens'[k].pc \in Over
    BY <2>1, NumberFacts DEF ChainInv
  <2>4. ASSUME NEW h \in Generations, gens'[h].pc = "waiting", gens'[h].prev # h - 1
        PROVE  gens'[h].prev = 0 /\ gens'[h - 1].pc \in Over
    <3>1. gens[h].prev = 0 /\ gens[h - 1].pc \in Over /\ h # 1
      BY <2>1, <2>4 DEF ChainInv
    <3> QED
      BY <2>1, <3>1, NumberFacts
  <2>5. done' = 0 /\ generation' # 0 => gens'[generation'].pc \in Over
    BY <2>1 DEF ChainInv, RemoteTypes, MaybeGeneration
  <2> QED
    BY <2>1, <2>2, <2>3, <2>4, <2>5 DEF ChainInv
<1>5. CASE ShutdownStops \/ ShutdownReturns \/ ShutdownTimesOut
  BY <1>5 DEF ChainInv, ShutdownStops, ShutdownReturns, ShutdownTimesOut, manager
<1> QED
  BY <1>1, <1>3, <1>4, <1>5, NextCases

-----------------------------------------------------------------------------
(* Of two generations that have begun to work, the older one is over. *)
LEMMA OneAtWork ==
    ASSUME ChainInv, NEW g \in Generations, gens[g].pc \notin NotYet \cup Over
    PROVE  \A h \in Generations : h # g => gens[h].pc \in NotYet \cup Over
<1> TAKE h \in Generations
<1>1. h \in 1 .. g - 1 => gens[h].pc \in Over
  BY DEF ChainInv
<1>2. g \in 1 .. h - 1 => gens[h].pc \in NotYet
  BY DEF ChainInv
<1> QED
  BY <1>1, <1>2, NumberFacts

LEMMA LastOneOver ==
    ASSUME RemoteTypes, ChainInv, generation # 0 => gens[generation].pc \in Over
    PROVE  Ceased
<1> SUFFICES ASSUME NEW g \in Generations PROVE gens[g].pc \in Over \cup {"none"}
  BY DEF Ceased
<1>1. CASE g > generation
  BY <1>1 DEF ChainInv
<1>2. CASE g \leq generation
  <2>1. generation \in Generations /\ gens[generation].pc \in Over
    BY <1>2, NumberFacts DEF RemoteTypes
  <2>2. g = generation \/ g \in 1 .. generation - 1
    BY <1>2, <2>1, NumberFacts
  <2>3. gens[generation].pc \notin NotYet
    BY <2>1 DEF Over, NotYet
  <2> QED
    BY <2>1, <2>2, <2>3 DEF ChainInv
<1> QED
  BY <1>1, <1>2, NumberFacts DEF RemoteTypes

(* What the place of a generation says of the step it took to get there. *)
StepPlaces(g) ==
    /\ ~NodeSteps(g) =>
        /\ gens[g].pc \in Placing \/ gens'[g].pc \in Placing => gens'[g].pc = gens[g].pc
        /\ gens'[g].pc \in Using => gens[g].pc \in Using
        /\ gens'[g].pc \in Before => gens[g].pc \in Before
        /\ \/ gens'[g].node = gens[g].node /\ gens'[g].old = gens[g].old
           \/ gens'[g].pc = "closed" /\ gens'[g].node = 0 /\ gens'[g].old = 0
    /\ ~ServingSteps(g) =>
        /\ gens[g].pc \in Listening \cup {"closing"} => gens'[g].pc \in Listening \cup {"closing"}
        /\ gens[g].pc \in {"dns", "served", "closing"} => gens'[g].pc \in {"dns", "served", "closing"}
        /\ gens'[g].pc \in Listening => gens[g].pc \in Listening
        /\ gens'[g].pc = "dns" => gens[g].pc = "dns"
    /\ status'.phase = "online" =>
        \/ FunnelResolves(g) \/ Online(g)
        \/ status' = status /\ (gens[g].pc = "served" => gens[g].cancelled \/ gens'[g].pc = "served")
    /\ gens'[g].pc \in Over \cup {"none"} => gens'[g].unsaved = NoResult
    /\ gens'[g].pc \in Ending =>
        \/ SaveResult(g) \/ gens[g].cancelled
        \/ generation = g => gens'[g].unsaved = status'
        \/ /\ gens[g].pc \in Ending /\ UNCHANGED <<status, lastResult>>
           /\ gens[g].unsaved = NoResult /\ gens'[g].unsaved = NoResult

LEMMA GenerationPlaces ==
    ASSUME RemoteTypes, NEW g \in Generations, GenerationStep(g)
    PROVE  StepPlaces(g)
<1> USE StatusFacts
    DEF StepPlaces, Goes, GenerationLabels, Over, Using, Before, Placing, Listening, Ending,
        manager, settings
<1>1. CASE SaveResult(g)
  BY <1>1, SavedGoes DEF SaveResult
<1>2. CASE ReadDesired(g)
  BY <1>2, ReadGoes DEF ReadDesired, At, OnlyGens
<1>3. CASE StopNode(g)
  BY <1>3, PublishGoes DEF StopNode, At, NodeSteps
<1>4. CASE EnsureNode(g)
  <2>1. status' = status /\ gens[g].pc = "ensuring" /\ NodeSteps(g)
    BY <1>4 DEF EnsureNode, At, NodeSteps
  <2>2. gens'[g].pc \in {"replacing", "starting", "polling"}
    BY <1>4, EnsureGoes
  <2> QED
    BY <2>1, <2>2
<1>5. CASE NoNode(g)
  BY <1>5, FailGoes DEF NoNode, At, OldNode, Replaced, NodeSteps
<1>6. CASE CloseOld(g)
  BY <1>6, GoGoes DEF CloseOld, At, NodeSteps
<1>7. CASE NodeStarts(g)
  BY <1>7, GoGoes DEF NodeStarts, At, NodeSteps
<1>8. CASE NodeStartFails(g)
  BY <1>8, FailGoes DEF NodeStartFails, At, NodeSteps
<1>9. CASE PollCancelled(g)
  BY <1>9, GoGoes DEF PollCancelled, At, OnlyGens
<1>10. CASE PollAgain(g)
  BY <1>10, GoGoes DEF PollAgain, At, OnlyGens
<1>11. CASE PollFails(g)
  BY <1>11, FailGoes DEF PollFails, At, OnlyStatus
<1>12. CASE PollConnecting(g)
  BY <1>12, PublishGoes DEF PollConnecting, At, OnlyStatus
<1>13. CASE PollRunning(g)
  BY <1>13, GoGoes DEF PollRunning, At, OnlyGens
<1>14. CASE ListenPrivate(g)
  BY SMTT(30), ZenonT(60), <1>14, FailGoes, GoGoes DEF ListenPrivate, At, Serving, OnlyStatus, ServingSteps
<1>15. CASE ListenPublic(g)
  BY SMTT(30), ZenonT(60), <1>15, FailGoes, PublishGoes DEF ListenPublic, At, Serving, StopServing, OnlyStatus,
      ServingSteps
<1>16. CASE FunnelResolves(g)
  BY <1>16, PublishGoes DEF FunnelResolves, At, OnlyStatus
<1>17. CASE FunnelTimesOut(g)
  BY <1>17, FailGoes DEF FunnelTimesOut, At, OnlyStatus
<1>18. CASE FunnelCancelled(g)
  BY <1>18, GoGoes DEF FunnelCancelled, At, OnlyGens
<1>19. CASE Online(g)
  BY <1>19, PublishGoes DEF Online, At, OnlyStatus
<1>20. CASE Cancelled(g)
  BY <1>20, GoGoes DEF Cancelled, At, OnlyGens
<1>21. CASE CloseListeners(g)
  BY <1>21, GoGoes DEF CloseListeners, At, StopServing, ServingSteps
<1>22. CASE Clear(g)
  BY <1>22, GoGoes DEF Clear, At
<1>23. CASE CloseDone(g)
  BY <1>23, CloseGoes DEF CloseDone, At, OnlyGens
<1> QED
  BY <1>1, <1>2, <1>3, <1>4, <1>5, <1>6, <1>7, <1>8, <1>9, <1>10, <1>11, <1>12, <1>13, <1>14,
      <1>15, <1>16, <1>17, <1>18, <1>19, <1>20, <1>21, <1>22, <1>23 DEF GenerationStep

LEMMA PlacesThrough ==
    ASSUME RemoteTypes, NEW g \in Generations, Moves(g)
    PROVE  /\ \A h \in Generations : gens'[h].pc = "none" <=> gens[h].pc = "none"
           /\ \A h \in Generations : gens[h].pc \in Over => gens'[h].pc \in Over
           /\ \A h \in Generations : h # g => gens'[h] = gens[h]
           /\ Ceased => Ceased'
BY DEF Moves, Alone, Over, NotYet, Ceased

-----------------------------------------------------------------------------
(* Shutdown ends what is at work and lets nothing begin. *)
LEMMA ShutdownStep ==
    ASSUME RemoteInv, RemoteNext
    PROVE  ShutdownInv'
<1> RemoteTypes /\ ChainInv /\ ShutdownInv /\ NodeInv
  BY DEF RemoteInv
<1>1. ASSUME NEW g \in Generations, GenerationStep(g) PROVE ShutdownInv'
  <2>1. Moves(g)
    BY <1>1, GenerationMoves
  <2>2. UNCHANGED <<generation, closed, shutdown>> /\ (Ceased => Ceased')
    BY <2>1, PlacesThrough DEF Moves
  <2>3. Ceased => UNCHANGED <<node, nodeStarted, running>>
    <3>1. Ceased => ~NodeSteps(g)
      BY DEF Ceased, Over, NodeSteps, StopNode, EnsureNode, NoNode, CloseOld, NodeStarts,
             NodeStartFails, At
    <3> QED
      BY <1>1, <3>1, OthersKeepTheNode
  <2> QED
    BY <2>2, <2>3 DEF ShutdownInv
<1>2. CASE CallGoesOn
  <2>1. BeginFrame /\ (Begins \/ UNCHANGED <<status, generation, done, gens>>)
    BY <1>2, CallMoves DEF CallKeepsTypes
  <2>2. CASE Begins
    BY <2>1, <2>2 DEF Begins, BeginFrame, ShutdownInv, RemoteTypes
  <2>3. CASE UNCHANGED <<status, generation, done, gens>>
    BY <2>1, <2>3 DEF BeginFrame, ShutdownInv, Ceased
  <2> QED
    BY <2>1, <2>2, <2>3
<1>3. CASE ShutdownBegins
  <2>1. /\ closed' /\ generation' = generation /\ shutdown' = [pc |-> "waiting", at |-> done]
        /\ \A h \in Generations : gens'[h].pc = gens[h].pc
    BY <1>3, ShutdownBeginsMoves
  <2>2. done = 0 => Ceased
    BY LastOneOver DEF ChainInv
  <2>3. Ceased => Ceased'
    BY <2>1 DEF Ceased
  <2> QED
    BY <2>1, <2>2, <2>3 DEF ShutdownInv, RemoteTypes
<1>4. CASE ShutdownStops
  <2>1. Ceased
    <3>1. shutdown.at # 0 => gens[generation].pc \in Over
      BY <1>4 DEF ShutdownStops, ShutdownInv, Over
    <3>2. shutdown.at = 0 => Ceased
      BY <1>4 DEF ShutdownStops, ShutdownInv
    <3> QED
      BY <3>1, <3>2, LastOneOver
  <2>2. running = IF node = 0 THEN {} ELSE {node}
    BY <1>4, <2>1 DEF ShutdownStops, NodeInv, Ceased, Over, Placing
  <2> QED
    BY <1>4, <2>1, <2>2 DEF ShutdownStops, ShutdownInv, Ceased
<1>5. CASE ShutdownReturns
  BY <1>5 DEF ShutdownReturns, ShutdownInv, Ceased, RemoteTypes, manager
<1>6. CASE ShutdownTimesOut
  BY <1>6 DEF ShutdownTimesOut, ShutdownInv, Ceased, RemoteTypes, manager
<1> QED
  BY <1>1, <1>2, <1>3, <1>4, <1>5, <1>6, NextCases

-----------------------------------------------------------------------------
(* One step of the generation at work on the node. *)
LEMMA WorkingOnTheNode ==
    ASSUME RemoteInv, NEW g \in Generations, GenerationStep(g), NodeSteps(g)
    PROVE  NodeInv'
<1> RemoteTypes /\ ChainInv /\ ShutdownInv /\ NodeInv
  BY DEF RemoteInv
<1>1. gens[g].pc \in {"stopping", "ensuring", "replacing", "starting"}
  BY DEF NodeSteps, StopNode, EnsureNode, NoNode, CloseOld, NodeStarts, NodeStartFails, At
<1>2. \A h \in Generations : h # g => gens[h].pc \in NotYet \cup Over
  BY <1>1, OneAtWork DEF NotYet, Over
<1>3. shutdown' = shutdown /\ \A h \in Generations : h # g => gens'[h] = gens[h]
  BY GenerationMoves, PlacesThrough DEF Moves
<1>4. shutdown.pc # "closing"
  BY <1>1 DEF ShutdownInv, Ceased, Over
<1>5. gens'[g].prev < g
  BY GenerationMoves, NumberFacts DEF Moves, NodeInv
<1>6. gens[g].pc \notin Placing => running = IF node = 0 THEN {} ELSE {node}
  BY <1>2, <1>4 DEF NodeInv, Placing, NotYet, Over
<1>7. \A h \in Generations : h # g => gens'[h].node <= h /\ gens'[h].old < h /\ gens'[h].prev < h
  BY <1>3 DEF NodeInv
<1>8. gens[g].node \in Nat /\ gens[g].old \in Nat /\ gens[g].node <= g /\ gens[g].old < g
  BY NumberFacts DEF RemoteTypes, GenerationRecords, NodeInv
<1> USE DEF NotYet, Over, Placing, Using, Before
<1>9. ASSUME node' = 0, ~nodeStarted', running' = {}, gens'[g].pc = "clearing",
             gens'[g].node = gens[g].node, gens'[g].old = gens[g].old
      PROVE  NodeInv'
  BY <1>2, <1>3, <1>5, <1>7, <1>8, <1>9 DEF NodeInv
<1>10. CASE StopNode(g)
  <2>1. /\ gens'[g].pc = "clearing" /\ gens'[g].node = gens[g].node /\ gens'[g].old = gens[g].old
        /\ gens[g].pc = "stopping"
    BY <1>10, PublishGoes, StatusFacts DEF StopNode, At, Goes, GenerationLabels
  <2> QED
    BY <1>6, <1>9, <1>10, <2>1 DEF StopNode
<1>11. CASE EnsureNode(g)
  <2>1. /\ gens[g].pc = "ensuring" /\ node' = IF node = 0 \/ Replaced(g) THEN g ELSE node
        /\ nodeStarted' /\ running' = running
    BY <1>11 DEF EnsureNode, At
  <2>2. /\ gens'[g].pc = IF Replaced(g) THEN "replacing"
                         ELSE IF node = 0 \/ ~nodeStarted THEN "starting" ELSE "polling"
        /\ gens'[g].node = node' /\ gens'[g].old = OldNode(g)
    BY <1>11, EnsureGoes
  <2>3. node # 0 => node \in Generations /\ node \in Nat /\ node < g
    <3>1. SUFFICES ASSUME node # 0 PROVE node \in Generations /\ node \in Nat /\ node < g
      OBVIOUS
    <3>2. node \in Generations /\ gens[node].pc \notin Before
      BY <3>1, NumberFacts DEF NodeInv, RemoteTypes
    <3>3. gens[node].pc \in Over /\ node # g
      BY <1>2, <2>1, <3>2
    <3>4. g \notin 1 .. node - 1
      BY <2>1, <3>2, <3>3 DEF ChainInv
    <3> QED
      BY <3>2, <3>3, <3>4, NumberFacts
  <2>4. /\ Replaced(g) => node # 0 /\ OldNode(g) = node
        /\ ~Replaced(g) => OldNode(g) = 0
    BY DEF Replaced, OldNode
  <2>5. g \in Nat /\ 0 < g /\ (node = 0 \/ Replaced(g) => node' = g)
    BY <2>1, NumberFacts
  <2>6. gens'[g].node <= g /\ gens'[g].old < g
    <3>1. node' <= g
      BY <2>1, <2>3, <2>5
    <3>2. OldNode(g) < g
      BY <2>3, <2>4, <2>5
    <3> QED
      BY <2>2, <3>1, <3>2
  <2>7. node' # 0 /\ gens'[node'].pc \notin Before
    <3>1. CASE node = 0 \/ Replaced(g)
      BY <2>2, <2>5, <3>1
    <3>2. CASE ~(node = 0 \/ Replaced(g))
      BY <1>3, <2>1, <2>3, <3>2 DEF NodeInv
    <3> QED
      BY <3>1, <3>2
  <2>8. gens'[g].pc = "replacing" => running' = {gens'[g].old}
    BY <1>6, <2>1, <2>2, <2>4
  <2>9. gens'[g].pc = "starting" => running' = {}
    BY <1>6, <2>1, <2>2 DEF NodeInv
  <2>10. gens'[g].pc = "polling" => running' = {node'}
    BY <1>6, <2>1, <2>2
  <2>11. gens'[g].pc \in {"replacing", "starting", "polling"}
    BY <2>2
  <2> QED
    BY <1>2, <1>3, <1>5, <1>7, <2>1, <2>2, <2>6, <2>7, <2>8, <2>9, <2>10, <2>11 DEF NodeInv
<1>12. CASE NoNode(g)
  <2>1. /\ gens'[g].pc = "clearing" /\ gens'[g].node = gens[g].node /\ gens'[g].old = gens[g].old
        /\ gens[g].pc = "ensuring"
    BY <1>12, FailGoes DEF NoNode, At, Goes, GenerationLabels
  <2>2. node' = 0 /\ ~nodeStarted' /\ running' = {}
    BY <1>6, <1>12, <2>1 DEF NoNode, OldNode
  <2> QED
    BY <1>9, <2>1, <2>2
<1>13. CASE CloseOld(g)
  <2>1. /\ gens'[g].pc = "starting" /\ gens'[g].node = gens[g].node /\ gens'[g].old = gens[g].old
        /\ gens[g].pc = "replacing" /\ running' = running \ {gens[g].old}
        /\ node' = node /\ nodeStarted' = nodeStarted
    BY <1>13, GoGoes DEF CloseOld, At, Goes, GenerationLabels, manager
  <2>2. running' = {} /\ node = gens[g].node /\ node # 0 /\ nodeStarted
    BY <2>1 DEF NodeInv
  <2>3. gens'[node].pc \notin Before
    <3>1. node \in Generations /\ gens[node].pc \notin Before
      BY <2>2, NumberFacts DEF NodeInv, RemoteTypes
    <3> QED
      BY <1>3, <2>1, <3>1
  <2> QED
    BY <1>2, <1>3, <1>5, <1>7, <1>8, <2>1, <2>2, <2>3 DEF NodeInv
<1>14. CASE NodeStarts(g)
  <2>1. /\ gens'[g].pc = "polling" /\ gens'[g].node = gens[g].node /\ gens'[g].old = gens[g].old
        /\ gens[g].pc = "starting" /\ running' = running \cup {gens[g].node}
        /\ node' = node /\ nodeStarted' = nodeStarted
    BY <1>14, GoGoes DEF NodeStarts, At, Goes, GenerationLabels, manager
  <2>2. running' = {node} /\ node = gens[g].node /\ node # 0 /\ nodeStarted
    BY <2>1 DEF NodeInv
  <2>3. gens'[node].pc \notin Before
    <3>1. node \in Generations /\ gens[node].pc \notin Before
      BY <2>2, NumberFacts DEF NodeInv, RemoteTypes
    <3> QED
      BY <1>3, <2>1, <3>1
  <2> QED
    BY <1>2, <1>3, <1>5, <1>7, <1>8, <2>1, <2>2, <2>3 DEF NodeInv
<1>15. CASE NodeStartFails(g)
  <2>1. /\ gens'[g].pc = "clearing" /\ gens'[g].node = gens[g].node /\ gens'[g].old = gens[g].old
        /\ gens[g].pc = "starting"
    BY <1>15, FailGoes DEF NodeStartFails, At, Goes, GenerationLabels
  <2>2. node' = 0 /\ ~nodeStarted' /\ running' = {}
    BY <1>15, <2>1 DEF NodeStartFails, NodeInv
  <2> QED
    BY <1>9, <2>1, <2>2
<1> QED
  BY <1>10, <1>11, <1>12, <1>13, <1>14, <1>15 DEF NodeSteps

(* What is started follows the manager's node through every step. *)
LEMMA NodeStep ==
    ASSUME RemoteInv, RemoteNext
    PROVE  NodeInv'
<1> RemoteTypes /\ ChainInv /\ ShutdownInv /\ NodeInv
  BY DEF RemoteInv
<1>1. ASSUME NEW g \in Generations, GenerationStep(g) PROVE NodeInv'
  <2>1. CASE NodeSteps(g)
    BY <1>1, <2>1, WorkingOnTheNode
  <2>2. CASE ~NodeSteps(g)
    <3>1. UNCHANGED <<node, nodeStarted, running>>
      BY <1>1, <2>2, OthersKeepTheNode
    <3>2. Moves(g) /\ StepPlaces(g) /\ shutdown' = shutdown
      BY <1>1, GenerationMoves, GenerationPlaces DEF Moves
    <3>3. \A h \in Generations : h # g => gens'[h] = gens[h]
      BY <3>2, PlacesThrough
    <3>4. gens'[g].prev < g /\ gens'[g].node <= g /\ gens'[g].old < g
      BY <2>2, <3>2, NumberFacts DEF Moves, StepPlaces, NodeInv
    <3>5. \A h \in Generations : gens'[h].pc \in Before => gens[h].pc \in Before
      BY <2>2, <3>2, <3>3 DEF StepPlaces
    <3>6. node # 0 => gens'[node].pc \notin Before
      BY <3>5, NumberFacts DEF NodeInv, RemoteTypes
    <3>7. \A h \in Generations : gens'[h].pc \in Placing <=> gens[h].pc \in Placing
      BY <2>2, <3>2, <3>3 DEF StepPlaces
    <3>8. gens'[g].pc \in Placing => gens'[g].pc = gens[g].pc /\ gens'[g].node = gens[g].node
                                     /\ gens'[g].old = gens[g].old
      BY <2>2, <3>2 DEF StepPlaces, Placing
    <3>9. gens'[g].pc \in Using => gens[g].pc \in Using /\ gens'[g].node = gens[g].node
      BY <2>2, <3>2 DEF StepPlaces, Using
    <3>10. \A h \in Generations :
        /\ gens'[h].pc \in Placing \cup Using => node # 0 /\ node = gens'[h].node
        /\ gens'[h].pc = "replacing" => running = {gens'[h].old}
        /\ gens'[h].pc = "starting" => running = {}
      BY <3>3, <3>8, <3>9 DEF NodeInv, Placing
    <3>11. \A h \in Generations : gens'[h].node <= h /\ gens'[h].old < h /\ gens'[h].prev < h
      BY <3>3, <3>4 DEF NodeInv
    <3> QED
      BY <3>1, <3>2, <3>6, <3>7, <3>10, <3>11 DEF NodeInv
  <2> QED
    BY <2>1, <2>2
<1>2. CASE CallGoesOn
  <2>1. BeginFrame /\ (Begins \/ UNCHANGED <<status, generation, done, gens>>)
    BY <1>2, CallMoves DEF CallKeepsTypes
  <2>2. CASE Begins
    <3>1. /\ generation' \in Generations /\ generation' = generation + 1 /\ done \in {0, generation}
          /\ gens[generation'].pc = "none"
      BY <2>2, NumberFacts DEF Begins, RemoteTypes, ChainInv
    <3>2. /\ gens'[generation'].pc = "waiting" /\ gens'[generation'].node = 0
          /\ gens'[generation'].old = 0 /\ gens'[generation'].prev = done
          /\ \A h \in Generations : h # generation' =>
                /\ gens'[h].pc = gens[h].pc /\ gens'[h].prev = gens[h].prev
                /\ gens'[h].node = gens[h].node /\ gens'[h].old = gens[h].old
      BY <2>2 DEF Begins
    <3>3. \A h \in Generations : gens'[h].node <= h /\ gens'[h].old < h /\ gens'[h].prev < h
      BY <3>1, <3>2, NumberFacts DEF NodeInv, RemoteTypes
    <3>4. node # 0 => gens'[node].pc \notin Before
      BY <3>1, <3>2, NumberFacts DEF NodeInv, RemoteTypes, Before
    <3>5. \A h \in Generations :
        /\ gens'[h].pc \in Placing \cup Using => node # 0 /\ node = gens'[h].node
        /\ gens'[h].pc = "replacing" => running = {gens'[h].old}
        /\ gens'[h].pc = "starting" => running = {}
        /\ gens'[h].pc \in Placing <=> gens[h].pc \in Placing
      BY <3>1, <3>2 DEF NodeInv, Placing, Using
    <3> QED
      BY <2>1, <3>3, <3>4, <3>5 DEF NodeInv, BeginFrame
  <2>3. CASE UNCHANGED <<status, generation, done, gens>>
    BY <2>1, <2>3 DEF BeginFrame, NodeInv
  <2> QED
    BY <2>1, <2>2, <2>3
<1>3. CASE ShutdownBegins
  <2>1. /\ UNCHANGED <<node, nodeStarted, running>> /\ shutdown.pc = "running"
        /\ \A h \in Generations :
              /\ gens'[h].pc = gens[h].pc /\ gens'[h].prev = gens[h].prev
              /\ gens'[h].node = gens[h].node /\ gens'[h].old = gens[h].old
    BY <1>3, ShutdownBeginsMoves
  <2>2. node # 0 => gens'[node].pc \notin Before
    BY <2>1, NumberFacts DEF NodeInv, RemoteTypes
  <2> QED
    BY <2>1, <2>2 DEF NodeInv
<1>4. CASE ShutdownStops
  <2>1. Ceased
    BY <1>4, ShutdownStep DEF ShutdownStops, ShutdownInv, Ceased
  <2>2. node' = 0 /\ ~nodeStarted' /\ shutdown'.pc = "closing" /\ gens' = gens
    BY <1>4 DEF ShutdownStops
  <2> QED
    BY <2>1, <2>2 DEF NodeInv, Ceased, Over, Placing, Using
<1>5. CASE ShutdownReturns
  <2>1. Ceased /\ node = 0 /\ ~nodeStarted /\ running' = {} /\ gens' = gens
        /\ node' = node /\ nodeStarted' = nodeStarted
    BY <1>5 DEF ShutdownReturns, ShutdownInv, manager
  <2> QED
    BY <2>1 DEF NodeInv, Ceased, Over, Placing, Using
<1>6. CASE ShutdownTimesOut
  BY <1>6 DEF ShutdownTimesOut, NodeInv, manager
<1> QED
  BY <1>1, <1>2, <1>3, <1>4, <1>5, <1>6, NextCases

-----------------------------------------------------------------------------
(* The listeners of a generation follow its place. *)
LEMMA ListenersFollow ==
    ASSUME RemoteInv, NEW g \in Generations, GenerationStep(g)
    PROVE  \A h \in Generations :
        /\ <<h, "private">> \in serving' => gens'[h].pc \in Listening \cup {"closing"}
        /\ <<h, "public">> \in serving' => gens'[h].pc \in {"dns", "served", "closing"}
        /\ gens'[h].pc \in Listening => <<h, "private">> \in serving'
        /\ gens'[h].pc = "dns" => <<h, "public">> \in serving'
<1> RemoteTypes /\ ChainInv /\ ServingInv
  BY DEF RemoteInv
<1> TAKE h \in Generations
<1>1. \A k \in Generations : k # g => gens'[k] = gens[k]
  BY GenerationMoves, PlacesThrough
<1>2. CASE ~ServingSteps(g)
  <2>1. serving' = serving /\ StepPlaces(g)
    BY <1>2, OthersKeepTheListeners, GenerationPlaces
  <2> QED
    BY <1>1, <1>2, <2>1 DEF ServingInv, StepPlaces
<1> USE DEF Listening
<1>3. CASE ListenPrivate(g)
  <2>1. CASE serving' = serving /\ gens'[g].pc = "clearing" /\ gens[g].pc = "private"
    BY <1>1, <2>1 DEF ServingInv
  <2>2. CASE Serving(g, "private") /\ gens'[g].pc \in {"public", "online"} /\ gens[g].pc = "private"
    BY <1>1, <2>2 DEF ServingInv, Serving
  <2> QED
    BY <1>3, <2>1, <2>2, GoGoes, FailGoes DEF ListenPrivate, At, Goes, GenerationLabels
<1>4. CASE ListenPublic(g)
  <2>1. CASE StopServing(g) /\ gens'[g].pc = "clearing"
    BY <1>1, <2>1 DEF ServingInv, StopServing, RemoteTypes
  <2>2. CASE Serving(g, "public") /\ gens'[g].pc = "dns" /\ gens[g].pc = "public"
    BY <1>1, <2>2 DEF ServingInv, Serving
  <2> QED
    BY <1>4, <2>1, <2>2, PublishGoes, FailGoes, StatusFacts
    DEF ListenPublic, At, Goes, GenerationLabels
<1>5. CASE CloseListeners(g)
  <2>1. StopServing(g) /\ gens'[g].pc = "clearing"
    BY <1>5, GoGoes DEF CloseListeners, Goes, GenerationLabels
  <2> QED
    BY <1>1, <2>1 DEF ServingInv, StopServing, RemoteTypes
<1> QED
  BY <1>2, <1>3, <1>4, <1>5 DEF ServingSteps

(* What is reported as online is served through every step. *)
LEMMA ServingStep ==
    ASSUME RemoteInv, RemoteNext
    PROVE  ServingInv'
<1> RemoteTypes /\ ChainInv /\ ServingInv
  BY DEF RemoteInv
<1>1. ASSUME NEW g \in Generations, GenerationStep(g) PROVE ServingInv'
  <2>1. Moves(g) /\ StepPlaces(g)
    BY <1>1, GenerationMoves, GenerationPlaces
  <2>2. generation' = generation /\ closed' = closed
    BY <2>1 DEF Moves
  <2>3. ASSUME status'.phase = "online", ~closed'
        PROVE  /\ generation # 0 /\ gens'[generation].pc = "served"
               /\ <<generation, "public">> \in serving' <=> status'.effective = "funnel"
    <3>1. CASE status' # status
      <4>1. generation = g /\ (FunnelResolves(g) \/ Online(g))
        BY <1>1, <2>1, <2>3, <3>1, StatusMoves DEF StepPlaces
      <4>2. CASE FunnelResolves(g)
        <5>1. gens'[g].pc = "served" /\ gens[g].pc = "dns" /\ status'.effective = "funnel"
              /\ serving' = serving
          BY <4>1, <4>2, PublishGoes, StatusFacts DEF FunnelResolves, At, Goes, GenerationLabels
        <5> QED
          BY <4>1, <5>1, NumberFacts DEF ServingInv
      <4>3. CASE Online(g)
        <5>1. gens'[g].pc = "served" /\ gens[g].pc = "online" /\ status'.effective = "private"
              /\ serving' = serving
          BY <4>1, <4>3, PublishGoes, StatusFacts DEF Online, At, Goes, GenerationLabels
        <5> QED
          BY <4>1, <5>1, NumberFacts DEF ServingInv
      <4> QED
        BY <4>1, <4>2, <4>3
    <3>2. CASE FunnelResolves(g) \/ Online(g)
      <4>1. gens[g].pc \in {"dns", "online"} /\ gens'[g].pc = "served"
        BY <3>2, PublishGoes, StatusFacts DEF FunnelResolves, Online, At, Goes, GenerationLabels
      <4>2. status' = status => generation # g
        BY <2>2, <2>3, <4>1 DEF ServingInv
      <4>3. status' = status => serving' = serving
        BY <3>2 DEF FunnelResolves, Online
      <4> QED
        BY <2>1, <2>2, <2>3, <3>1, <4>2, <4>3, PlacesThrough, NumberFacts
            DEF ServingInv, RemoteTypes
    <3>3. CASE status' = status /\ ~(FunnelResolves(g) \/ Online(g))
      <4>1. /\ generation \in Generations /\ gens[generation].pc = "served"
            /\ <<generation, "public">> \in serving <=> status.effective = "funnel"
        BY <2>2, <2>3, <3>3, NumberFacts DEF ServingInv, RemoteTypes
      <4>2. generation = g => ~gens[g].cancelled
        BY <2>2, <2>3, <4>1, NumberFacts DEF ChainInv
      <4>3. gens'[generation].pc = "served"
        BY <2>1, <2>3, <3>3, <4>1, <4>2, PlacesThrough DEF StepPlaces
      <4>4. <<generation, "public">> \in serving' <=> <<generation, "public">> \in serving
        <5>1. CASE ~ServingSteps(g)
          BY <1>1, <5>1, OthersKeepTheListeners
        <5>2. CASE ServingSteps(g)
          <6>1. generation # g
            BY <4>1, <5>2 DEF ServingSteps, ListenPrivate, ListenPublic, CloseListeners, At
          <6> QED
            BY <4>1, <5>2, <6>1
            DEF ServingSteps, ListenPrivate, ListenPublic, CloseListeners, Serving, StopServing,
                RemoteTypes
        <5> QED
          BY <5>1, <5>2
      <4> QED
        BY <3>3, <4>1, <4>3, <4>4, NumberFacts
    <3> QED
      BY <3>1, <3>2, <3>3
  <2> QED
    BY <1>1, <2>2, <2>3, ListenersFollow DEF ServingInv
<1>2. CASE CallGoesOn
  <2>1. BeginFrame /\ (Begins \/ UNCHANGED <<status, generation, done, gens>>)
    BY <1>2, CallMoves DEF CallKeepsTypes
  <2>2. CASE Begins
    <3>1. /\ status'.phase # "online" /\ generation' \in Generations /\ gens'[generation'].pc = "waiting"
          /\ gens[generation'].pc = "none"
          /\ \A h \in Generations : h # generation' => gens'[h].pc = gens[h].pc
      BY <2>2, NumberFacts DEF Begins, RemoteTypes, ChainInv
    <3> QED
      BY <2>1, <3>1 DEF ServingInv, BeginFrame, Listening
  <2>3. CASE UNCHANGED <<status, generation, done, gens>>
    BY <2>1, <2>3 DEF BeginFrame, ServingInv
  <2> QED
    BY <2>1, <2>2, <2>3
<1>3. CASE ShutdownBegins
  BY <1>3, ShutdownBeginsMoves DEF ServingInv
<1>4. CASE ShutdownStops \/ ShutdownReturns \/ ShutdownTimesOut
  BY <1>4 DEF ServingInv, ShutdownStops, ShutdownReturns, ShutdownTimesOut, manager
<1> QED
  BY <1>1, <1>2, <1>3, <1>4, NextCases

(* The last result is saved last. *)
LEMMA ResultStep ==
    ASSUME RemoteInv, RemoteNext
    PROVE  ResultInv'
<1> RemoteTypes /\ ChainInv /\ ResultInv
  BY DEF RemoteInv
<1>1. ASSUME NEW g \in Generations, GenerationStep(g) PROVE ResultInv'
  <2>1. Moves(g) /\ StepPlaces(g)
    BY <1>1, GenerationMoves, GenerationPlaces
  <2>2. /\ generation' = generation /\ closed' = closed
        /\ \A h \in Generations : h # g => gens'[h] = gens[h]
    BY <2>1, PlacesThrough DEF Moves
  <2>3. \A h \in Generations : gens'[h].pc \in Over \cup {"none"} => gens'[h].unsaved = NoResult
    BY <2>1, <2>2 DEF StepPlaces, ResultInv
  <2>4. ASSUME ~closed', generation' # 0, gens'[generation].pc \in Ending
        PROVE  \/ gens'[generation].unsaved = status'
               \/ gens'[generation].unsaved = NoResult /\ lastResult' = status'
    <3>0. generation \in Generations /\ ~closed
      BY <2>2, <2>4, NumberFacts DEF RemoteTypes
    <3>1. CASE generation = g
      <4>1. ~gens[g].cancelled
        BY <3>0, <3>1, NumberFacts DEF ChainInv
      <4>2. CASE SaveResult(g)
        <5>1. /\ gens[g].unsaved # NoResult /\ lastResult' = gens[g].unsaved /\ status' = status
              /\ gens'[g].unsaved = NoResult /\ gens'[g].pc = gens[g].pc
          BY <4>2, SavedGoes DEF SaveResult, Goes, manager
        <5>2. gens[g].unsaved = status
          BY <2>4, <3>0, <3>1, <5>1, NumberFacts DEF ResultInv
        <5> QED
          BY <3>1, <5>1, <5>2
      <4>3. CASE ~SaveResult(g)
        BY <2>1, <2>4, <3>0, <3>1, <4>1, <4>3, NumberFacts, StatusFacts
        DEF StepPlaces, ResultInv, RemoteTypes
      <4> QED
        BY <4>2, <4>3
    <3>2. CASE generation # g
      <4>1. gens'[generation] = gens[generation] /\ gens[generation].pc \in Ending
        BY <2>2, <2>4, <3>0, <3>2
      <4>2. gens[g].unsaved = NoResult
        <5>1. CASE g > generation
          BY <5>1 DEF ChainInv, ResultInv
        <5>2. CASE g < generation
          <6>1. g \in 1 .. generation - 1 /\ gens[generation].pc \notin NotYet
            BY <3>0, <4>1, <5>2, NumberFacts DEF Ending, NotYet
          <6> QED
            BY <3>0, <6>1 DEF ChainInv, ResultInv
        <5> QED
          BY <3>0, <3>2, <5>1, <5>2, NumberFacts
      <4>3. status' = status /\ lastResult' = lastResult
        BY <1>1, <3>2, <4>2, StatusMoves DEF SaveResult
      <4> QED
        BY <2>2, <2>4, <4>1, <4>3 DEF ResultInv
    <3> QED
      BY <3>1, <3>2
  <2> QED
    BY <2>2, <2>3, <2>4 DEF ResultInv
<1>2. CASE CallGoesOn
  <2>1. BeginFrame /\ (Begins \/ UNCHANGED <<status, generation, done, gens>>)
    BY <1>2, CallMoves DEF CallKeepsTypes
  <2>2. CASE Begins
    BY <2>2 DEF Begins, ResultInv, Ending, Over
  <2>3. CASE UNCHANGED <<status, generation, done, gens>>
    BY <2>1, <2>3 DEF BeginFrame, ResultInv
  <2> QED
    BY <2>1, <2>2, <2>3
<1>3. CASE ShutdownBegins
  BY <1>3, ShutdownBeginsMoves DEF ResultInv
<1>4. CASE ShutdownStops \/ ShutdownReturns \/ ShutdownTimesOut
  BY <1>4 DEF ResultInv, ShutdownStops, ShutdownReturns, ShutdownTimesOut, manager, settings
<1> QED
  BY <1>1, <1>2, <1>3, <1>4, NextCases

-----------------------------------------------------------------------------
LEMMA TypeStep ==
    ASSUME RemoteInv, RemoteNext
    PROVE  RemoteTypes'
<1> RemoteTypes /\ NodeInv /\ ShutdownInv
  BY DEF RemoteInv
<1>1. ASSUME NEW g \in Generations, GenerationStep(g) PROVE RemoteTypes'
  <2>1. /\ status' \in RemoteStatuses /\ lastResult' \in RemoteStatuses \cup {NoResult}
        /\ node' \in MaybeGeneration /\ nodeStarted' \in BOOLEAN /\ running' \in SUBSET Generations
        /\ serving' \in SUBSET (Generations \X {"private", "public"})
    BY <1>1, StatusMoves, NodeTypes, ServingTypes
  <2>2. /\ UNCHANGED <<desired, generation, closed, call, shutdown, savedConfig>>
        /\ gens' \in [Generations -> GenerationRecords] /\ done' \in {0, generation}
    BY <1>1, GenerationMoves DEF Moves, Alone, RemoteTypes
  <2> QED
    BY <2>1, <2>2 DEF RemoteTypes
<1>2. CASE CallGoesOn
  <2>1. CallKeepsTypes /\ (Begins \/ UNCHANGED <<status, generation, done, gens>>)
    BY <1>2, CallMoves
  <2>2. /\ gens' \in [Generations -> GenerationRecords] /\ status' \in RemoteStatuses
        /\ generation' \in MaybeGeneration /\ done' \in {0, generation'}
    BY <2>1, NumberFacts DEF Begins, RemoteTypes
  <2> QED
    BY <2>1, <2>2 DEF CallKeepsTypes, BeginFrame, RemoteTypes
<1>3. CASE ShutdownBegins
  <2>1. shutdown' \in [pc: {"running", "waiting", "closing", "returned", "timedout"},
                       at: MaybeGeneration]
    BY <1>3, ShutdownBeginsMoves, NumberFacts DEF RemoteTypes
  <2> QED
    BY <1>3, <2>1, ShutdownBeginsMoves DEF RemoteTypes
<1>4. CASE ShutdownStops
  BY <1>4, NumberFacts DEF RemoteTypes, ShutdownStops, settings
<1>5. CASE ShutdownReturns
  BY <1>5 DEF RemoteTypes, ShutdownReturns, manager, settings
<1>6. CASE ShutdownTimesOut
  BY <1>6 DEF RemoteTypes, ShutdownTimesOut, manager, settings
<1> QED
  BY <1>1, <1>2, <1>3, <1>4, <1>5, <1>6, NextCases

LEMMA RemoteStart == RemoteInit => RemoteInv
<1> SUFFICES ASSUME RemoteInit PROVE RemoteInv
  OBVIOUS
<1>1. Configs # {}
  BY DEF RemoteInit
<1>2. \A g \in Generations :
        /\ gens[g] = NoGeneration /\ gens[g] \in GenerationRecords /\ gens[g].pc = "none"
        /\ gens[g].prev = 0 /\ gens[g].node = 0 /\ gens[g].old = 0 /\ gens[g].unsaved = NoResult
  BY <1>1, RestFacts DEF RemoteInit
<1>3. RemoteTypes
  <2>1. gens \in [Generations -> GenerationRecords] /\ call \in [Calls -> CallRecords]
    BY <1>1, RestFacts DEF RemoteInit
  <2>2. status \in RemoteStatuses
    BY StatusFacts DEF RemoteInit
  <2>3. shutdown \in [pc: {"running", "waiting", "closing", "returned", "timedout"},
                      at: MaybeGeneration]
    BY NumberFacts DEF RemoteInit, NoShutdown
  <2> QED
    BY <2>1, <2>2, <2>3, NumberFacts DEF RemoteInit, RemoteTypes
<1>4. ChainInv
  BY <1>2, NumberFacts DEF ChainInv, RemoteInit, NotYet
<1>5. ShutdownInv /\ NodeInv
  BY <1>2, NumberFacts
  DEF ShutdownInv, NodeInv, RemoteInit, NoShutdown, Placing, Using
<1>6. ServingInv /\ ResultInv
  BY <1>2, StatusFacts DEF ServingInv, ResultInv, RemoteInit, Listening
<1> QED
  BY <1>3, <1>4, <1>5, <1>6 DEF RemoteInv

(* Every state of remote access satisfies the inductive invariant. *)
THEOREM RemoteSafe == RemoteSpec => []RemoteInv
<1>1. RemoteInv /\ RemoteNext => RemoteInv'
  BY TypeStep, ChainStep, ShutdownStep, NodeStep, ServingStep, ResultStep DEF RemoteInv
<1>2. RemoteInv /\ UNCHANGED remoteVars => RemoteInv'
  BY DEF RemoteInv, RemoteTypes, ChainInv, ShutdownInv, Ceased, NodeInv, ServingInv, ResultInv,
         remoteVars, manager, settings
<1> QED
  BY RemoteStart, <1>1, <1>2, PTL DEF RemoteSpec

LEMMA ListenerPlaces ==
    ASSUME RemoteInv, NEW l \in serving
    PROVE  l[1] \in Generations /\ gens[l[1]].pc \in Listening \cup {"closing"}
<1>1. l[1] \in Generations /\ l[2] \in {"private", "public"} /\ l = <<l[1], l[2]>>
  BY DEF RemoteInv, RemoteTypes
<1>2. /\ <<l[1], "private">> \in serving => gens[l[1]].pc \in Listening \cup {"closing"}
      /\ <<l[1], "public">> \in serving => gens[l[1]].pc \in {"dns", "served", "closing"}
  BY <1>1 DEF RemoteInv, ServingInv
<1> QED
  BY <1>1, <1>2 DEF Listening

(* The manager's fields, the generations, the calls and the settings keep their types, *)
(* and a generation refers to earlier ones only.                                        *)
THEOREM RemoteTypeCorrect == RemoteSpec => []RemoteTypeOK
<1>1. RemoteInv => RemoteTypeOK
  <2> SUFFICES ASSUME RemoteInv PROVE RemoteTypeOK
    OBVIOUS
  <2>1. RemoteTypes /\ NodeInv
    BY DEF RemoteInv
  <2>2. ASSUME NEW g \in Generations
        PROVE  /\ gens[g].pc \in GenerationLabels /\ gens[g].config \in Configs
               /\ gens[g].prev \in 0 .. g - 1 /\ gens[g].node \in 0 .. g /\ gens[g].old \in 0 .. g - 1
    <3>1. gens[g] \in GenerationRecords
      BY <2>1 DEF RemoteTypes
    <3>2. gens[g].prev \in Nat /\ gens[g].node \in Nat /\ gens[g].old \in Nat /\ g \in Nat
      BY <3>1, NumberFacts DEF GenerationRecords
    <3> QED
      BY <2>1, <3>1, <3>2 DEF NodeInv, GenerationRecords
  <2> QED
    BY <2>1, <2>2 DEF RemoteTypes, RemoteTypeOK
<1> QED
  BY RemoteSafe, <1>1, PTL

(* Two nodes never run at a time, and every listener is of the node that runs. *)
THEOREM OneNode == RemoteSpec => []OneNodeAtATime
<1>1. RemoteInv => OneNodeAtATime
  <2> SUFFICES ASSUME RemoteInv PROVE OneNodeAtATime
    OBVIOUS
  <2>1. RemoteTypes /\ ChainInv /\ ShutdownInv /\ NodeInv /\ ServingInv
    BY DEF RemoteInv
  <2>2. \A l \in serving : l[1] \in Generations /\ gens[l[1]].pc \in Listening \cup {"closing"}
    BY ListenerPlaces
  <2>3. \A l \in serving : \A h \in Generations : h # l[1] => gens[h].pc \in NotYet \cup Over
    BY <2>1, <2>2, OneAtWork DEF Listening, NotYet, Over
  <2>4. ASSUME NEW l \in serving PROVE gens[l[1]].node \in running
    <3>1. node # 0 /\ node = gens[l[1]].node
      BY <2>1, <2>2 DEF NodeInv, Using, Listening
    <3>2. \A h \in Generations : gens[h].pc \notin Placing
      BY <2>2, <2>3 DEF Placing, Listening, NotYet, Over
    <3>3. shutdown.pc # "closing"
      BY <2>1, <2>2 DEF ShutdownInv, Ceased, Listening, Over
    <3> QED
      BY <2>1, <3>1, <3>2, <3>3 DEF NodeInv
  <2>5. \A k, l \in serving : k[1] = l[1]
    BY <2>2, <2>3 DEF Listening, NotYet, Over
  <2>6. \A m, n \in running : m = n
    <3>1. CASE \E g \in Generations : gens[g].pc \in Placing
      BY <2>1, <3>1 DEF NodeInv, Placing
    <3>2. CASE shutdown.pc = "closing"
      BY <2>1, <3>2 DEF ShutdownInv
    <3> QED
      BY <2>1, <3>1, <3>2 DEF NodeInv
  <2> QED
    BY <2>4, <2>5, <2>6 DEF OneNodeAtATime
<1> QED
  BY RemoteSafe, <1>1, PTL

(* Online is reported while the listeners of that mode are open. *)
THEOREM OnlineServed == RemoteSpec => []OnlineIsServed
<1>1. RemoteInv => OnlineIsServed
  <2> SUFFICES ASSUME RemoteInv, status.phase = "online", ~closed
               PROVE  \E g \in Generations :
                          /\ <<g, "private">> \in serving
                          /\ <<g, "public">> \in serving <=> status.effective = "funnel"
    BY DEF OnlineIsServed
  <2>1. /\ generation \in Generations /\ gens[generation].pc = "served"
        /\ <<generation, "public">> \in serving <=> status.effective = "funnel"
    BY NumberFacts DEF RemoteInv, RemoteTypes, ServingInv
  <2>2. <<generation, "private">> \in serving
    BY <2>1 DEF RemoteInv, ServingInv, Listening
  <2> QED
    BY <2>1, <2>2
<1> QED
  BY RemoteSafe, <1>1, PTL

(* A shutdown that returned has left no node and no listener. *)
THEOREM CleanShutdown == RemoteSpec => []ShutdownIsClean
<1>1. RemoteInv => ShutdownIsClean
  <2> SUFFICES ASSUME RemoteInv, shutdown.pc = "returned" PROVE running = {} /\ serving = {}
    BY DEF ShutdownIsClean
  <2>1. running = {} /\ Ceased
    BY DEF RemoteInv, ShutdownInv
  <2>2. \A l \in serving : FALSE
    BY <2>1, ListenerPlaces DEF Ceased, Over, Listening
  <2> QED
    BY <2>1, <2>2
<1> QED
  BY RemoteSafe, <1>1, PTL

(* The settings end up with the status that was published last. *)
THEOREM ResultSettles == RemoteSpec => []StoredResultSettles
<1>1. RemoteInv => StoredResultSettles
  <2> SUFFICES ASSUME RemoteInv, ~closed, generation # 0,
                      \A g \in Generations : gens[g].pc \in {"none", "closed"}
               PROVE  lastResult = status
    BY DEF StoredResultSettles
  <2>1. RemoteTypes /\ ChainInv /\ ResultInv
    BY DEF RemoteInv
  <2>2. generation \in Generations /\ gens[generation].pc = "closed"
    BY <2>1, NumberFacts DEF RemoteTypes, ChainInv
  <2>3. gens[generation].unsaved = NoResult /\ NoResult # status
    BY <2>1, <2>2, StatusFacts DEF ResultInv, Over, RemoteTypes
  <2> QED
    BY <2>1, <2>2, <2>3 DEF ResultInv, Ending
<1> QED
  BY RemoteSafe, <1>1, PTL
=============================================================================
