---------------------------- MODULE StreamDelivery ----------------------------
(***************************************************************************)
(* How a provider's answer reaches the client: the end of                  *)
(* executeTranslatedRoute with internal/proxy/stream.go, the stream        *)
(* decoder and the stream writer of internal/wire.  An answer is read      *)
(* frame by frame, translated into events and written in the client's own  *)
(* format; it can break off at any frame, and so can the client.  As long  *)
(* as nothing was written another candidate may answer instead.            *)
(*                                                                         *)
(* Abstractions.                                                           *)
(*  - A frame is what it means; a piece of text or of a tool's arguments   *)
(*    is the frame that brought it.  Reasoning travels as text does, save  *)
(*    that the writer does not collect it, and is left out; so are frames  *)
(*    without a meaning.                                                   *)
(*  - One tool call: the names that a call has in the formats, the tool    *)
(*    calls in final snapshots and the finish reasons are left out.        *)
(*  - Usage snapshots are cumulative and a later one replaces an earlier:  *)
(*    what is counted is the frame of the last.                            *)
(*  - The frames that open a stream are one, and so are those that close   *)
(*    it before the terminal one.                                          *)
(*  - Which candidate comes next is the concern of ProxyExecute.           *)
(***************************************************************************)
EXTENDS Subsequences

CONSTANTS
    MaxFrames,     \* bound: frames read of one answer
    MaxAnswers     \* bound: candidates that are asked

WireFormats == {"chat", "responses", "anthropic"}

VARIABLES
    client,     \* the request: its format, and whether it asks for a stream
    answer,     \* the answer in hand: its number, the provider's format, and what it is read by
    body,       \* history: the frames read of this answer
    decoder,    \* streamDecoder, and whether what it read was in error
    held,       \* the events of an answer that is not passed on at once
    writer,     \* StreamWriter
    out,        \* what the client has been sent
    record      \* the request's state, the usage that is counted, the format that is learned

streamVars == <<client, answer, body, decoder, held, writer, out, record>>

Steps == {"call", "pump", "collect", "json", "settle", "collected", "replied", "failed", "done"}
NoTool == [named |-> FALSE, args |-> <<>>, emitted |-> 0]
NewDecoder == [count |-> 0, terminal |-> FALSE, tool |-> NoTool, failed |-> FALSE]
NewWriter == [committed |-> FALSE, text |-> <<>>, response |-> <<>>]
NewAnswer(n) == [no |-> n, format |-> "chat", step |-> "call"]

StreamInit ==
    /\ client \in [format : WireFormats, streams : BOOLEAN]
    /\ answer = NewAnswer(1)
    /\ body = <<>> /\ held = <<>> /\ out = <<>>
    /\ decoder = NewDecoder /\ writer = NewWriter
    /\ record = [state |-> "started", usage |-> 0, learned |-> FALSE]

-----------------------------------------------------------------------------
(* Frames and events. *)
Frame(kinds, usages) == [kind : kinds, usage : usages]

(* A Responses stream announces a tool call, if at all, before its arguments.  What comes *)
(* after the terminal frame is ignored, whatever it is: one kind stands for all.           *)
Frames ==
    IF decoder.terminal THEN Frame({"text"}, {FALSE})
    ELSE Frame({"text", "malformed"}, {FALSE}) \cup Frame({"usage"}, {TRUE}) \cup Frame({"error"}, BOOLEAN)
         \cup (IF answer.format # "responses" THEN Frame({"tool", "end"}, {FALSE})
               ELSE Frame({"delta", "rest", "done"}, {FALSE}) \cup Frame({"completed", "bare"}, BOOLEAN)
                    \cup (IF decoder.tool = NoTool THEN Frame({"added", "filled"}, {FALSE}) ELSE {}))

Terminals == {"end", "completed", "bare"}

Piece == <<answer.no, Len(body) + 1>>
Events ==
    [type : {"text", "tool", "usage", "error", "response", "open", "close", "terminal", "json", "refusal"},
     parts : Seq(Nat \X Nat)]
Event(type, parts) == [type |-> type, parts |-> parts]
OfType(type) == {e \in Events : e.type = type}

(* An answer in one piece, as the frames that bring the same: a text, a tool call, or both. *)
JsonBodies ==
    LET Brings(kind, usage) == [kind |-> kind, usage |-> usage] IN
    {<<Brings("text", TRUE)>>, <<Brings("tool", TRUE)>>,
     <<Brings("text", FALSE), Brings("tool", TRUE)>>}

(* The frames that count, up to the terminal one; the pieces that those of some kinds *)
(* brought, and the pieces in a sequence of events.                                    *)
Read == {i \in 1 .. Len(body) : \A j \in 1 .. i - 1 : body[j].kind \notin Terminals}

Brought(kinds) ==
    Picked([i \in 1 .. Len(body) |-> <<answer.no, i>>],
         {<<answer.no, i>> : i \in {j \in Read : body[j].kind \in kinds}})

Pieces(events, type) ==
    LET these == Picked(events, {e \in OfType(type) : e.parts # <<>>}) IN
    [i \in 1 .. Len(these) |-> these[i].parts[1]]

-----------------------------------------------------------------------------
(* The stream decoder: dispatch and decodeResponsesStreamDelta. *)

(* "filled" announces a call together with its first arguments, "rest" ends it with *)
(* arguments that no delta brought, "done" repeats the arguments it has.             *)
ToolAfter(f) ==
    LET tool == decoder.tool
        more == Append(tool.args, Piece)
    IN CASE f.kind = "added" -> [tool EXCEPT !.named = TRUE]
         [] f.kind = "filled" -> [named |-> TRUE, args |-> more, emitted |-> Len(more)]
         [] f.kind \in {"delta", "rest"} -> [tool EXCEPT !.args = more, !.emitted = Len(more)]
         [] OTHER -> tool

ToolEvents(f) ==
    LET tool == ToolAfter(f) IN
    IF f.kind \in {"added", "filled"} THEN <<Event("tool", <<>>)>>
    ELSE IF f.kind \in {"delta", "rest", "done"} /\ tool.named
         THEN <<Event("tool", SubSeq(tool.args, decoder.tool.emitted + 1, Len(tool.args)))>>
    ELSE <<>>

UsageEvents(f) == IF f.usage THEN <<Event("usage", <<Piece>>)>> ELSE <<>>

EventsOf(f) ==
    IF decoder.terminal THEN <<>>
    ELSE UsageEvents(f) \o
         (CASE f.kind \in {"text", "tool"} -> <<Event(f.kind, <<Piece>>)>>
            [] f.kind = "error" -> <<Event("error", <<>>)>>
            [] f.kind = "completed" -> <<Event("response", Brought({"text"}))>>
            [] OTHER -> ToolEvents(f))

DecoderAfter(f, accepted) ==
    IF decoder.terminal THEN decoder
    ELSE [count |-> decoder.count + (IF accepted THEN Len(EventsOf(f)) ELSE 0),
          terminal |-> f.kind \in Terminals,
          tool |-> ToolAfter(f),
          failed |-> ~accepted \/ f.kind \in {"error", "malformed"}]

(* The answer is whole: StreamResponse returns no error at the end of the body. *)
Whole == decoder.count > 0 /\ decoder.terminal

-----------------------------------------------------------------------------
(* The stream writer. *)
Opening == IF client.format = "chat" THEN <<>> ELSE <<Event("open", <<>>)>>

Forwarded ==
    {e \in Events : /\ e.type # "response"
                    /\ e.type = "usage" => client.format # "responses"}

(* What StreamWriter.Write sends for a sequence of events, and what it keeps. *)
Written(events) ==
    (IF writer.committed \/ events = <<>> THEN <<>> ELSE Opening) \o Picked(events, Forwarded)

WriterAfter(events) ==
    LET responses == Picked(events, OfType("response")) IN
    [committed |-> writer.committed \/ events # <<>>,
     text |-> IF client.format = "responses" THEN writer.text \o Pieces(events, "text")
              ELSE <<>>,
     response |-> IF responses = <<>> THEN writer.response ELSE responses[1].parts]

(* StreamWriter.End: a Responses client gets the whole text once more. *)
Closing(w) ==
    LET text == IF w.response = <<>> THEN w.text ELSE w.response IN
    <<Event("close", <<>>),
      Event("terminal", IF client.format = "responses" THEN text ELSE <<>>)>>

(* The client takes the first n frames and then no more. *)
Sent(frames, n) == out' = out \o SubSeq(frames, 1, n)

-----------------------------------------------------------------------------
Step(s) == answer.step = s
Goto(s) == answer' = [answer EXCEPT !.step = s]
Finish(state, usage, learned) ==
    /\ Goto("done")
    /\ record' = [state |-> state, usage |-> usage, learned |-> learned]

(* A candidate answers: its format, and what the content type and the request make of it. *)
Answer ==
    /\ Step("call")
    /\ \E format \in WireFormats :
       \E s \in {"json", IF client.streams THEN "pump" ELSE "collect"} :
           answer' = [answer EXCEPT !.format = format, !.step = s]
    /\ UNCHANGED <<client, body, decoder, held, writer, out, record>>

Observed(events, usage) ==
    LET snapshots == Pieces(events, "usage") IN
    IF snapshots = <<>> THEN usage ELSE snapshots[Len(snapshots)][2]

(* pumpTranslatedStream: a frame is passed on as it is read. *)
PumpFrame(f) ==
    /\ Step("pump") /\ Len(body) < MaxFrames
    /\ body' = Append(body, f)
    /\ writer' = WriterAfter(EventsOf(f))
    /\ record' = [record EXCEPT !.usage = Observed(EventsOf(f), @)]
    /\ LET frames == Written(EventsOf(f)) IN
       \E n \in 0 .. Len(frames) :
           /\ Sent(frames, n)
           /\ decoder' = DecoderAfter(f, n = Len(frames))
    /\ Goto(IF decoder'.failed THEN "settle" ELSE "pump")
    /\ UNCHANGED <<client, held>>

(* A whole body ends, and the stream to the client with it. *)
PumpEnds ==
    /\ Step("pump") /\ Whole
    /\ \E n \in 0 .. Len(Closing(writer)) :
           /\ Sent(Closing(writer), n)
           /\ decoder' = [decoder EXCEPT !.failed = n < Len(Closing(writer))]
    /\ Goto("settle")
    /\ UNCHANGED <<client, body, held, writer, record>>

(* The body ends too early or cannot be read any further, or the client has left. *)
BreaksOff ==
    /\ Step("pump") \/ Step("collect")
    /\ decoder' = [decoder EXCEPT !.failed = TRUE]
    /\ Goto(IF Step("pump") THEN "settle" ELSE "collected")
    /\ UNCHANGED <<client, body, held, writer, out, record>>

(* Mutant of Begun: commitment is inferred from the events that were accepted. *)
BegunByCount == decoder.count > 0

Begun == writer.committed

(* An error before anything was written is the candidate's failure. *)
PumpFails ==
    /\ Step("settle") /\ decoder.failed /\ ~Begun
    /\ Goto("failed")
    /\ UNCHANGED <<client, body, decoder, held, writer, out, record>>

(* finalizeStream; the format of a stream that was delivered is learned. *)
FinalizeStream ==
    /\ Step("settle") /\ (decoder.failed => Begun)
    /\ Finish(IF decoder.failed THEN "partial" ELSE "succeeded", record.usage, ~decoder.failed)
    /\ UNCHANGED <<client, body, decoder, held, writer, out>>

-----------------------------------------------------------------------------
(* A client that asked for no stream: the events are held until the body ends. *)
CollectFrame(f) ==
    /\ Step("collect") /\ Len(body) < MaxFrames
    /\ body' = Append(body, f)
    /\ held' = held \o EventsOf(f)
    /\ decoder' = DecoderAfter(f, TRUE)
    /\ Goto(IF decoder'.failed THEN "collected" ELSE "collect")
    /\ UNCHANGED <<client, writer, out, record>>

CollectEnds ==
    /\ Step("collect") /\ Whole
    /\ Goto("collected")
    /\ UNCHANGED <<client, body, decoder, held, writer, out, record>>

CollectFails ==
    /\ Step("collected") /\ decoder.failed /\ held = <<>>
    /\ Goto("failed")
    /\ UNCHANGED <<client, body, decoder, held, writer, out, record>>

(* completeTranslatedStream for a stream that broke off: what was held is passed on, *)
(* and no end.                                                                       *)
PassOnPart ==
    /\ Step("collected") /\ decoder.failed /\ held # <<>>
    /\ writer' = WriterAfter(held)
    /\ \E n \in 0 .. Len(Written(held)) : Sent(Written(held), n)
    /\ Finish("partial", Observed(held, 0), FALSE)
    /\ UNCHANGED <<client, body, decoder, held>>

(* completeTranslated, EncodeResponse and encodeStreamFor.  A client that is gone is *)
(* an error, and its usage is not counted.                                           *)
CompleteCollected ==
    /\ Step("collected") /\ ~decoder.failed
    /\ writer' = WriterAfter(held)
    /\ LET frames == Written(held) \o Closing(WriterAfter(held)) IN
       \E n \in 0 .. Len(frames) :
           /\ Sent(frames, n)
           /\ IF n = Len(frames) THEN Finish("succeeded", Observed(held, 0), TRUE)
              ELSE Finish("failed", 0, TRUE)
    /\ UNCHANGED <<client, body, decoder, held>>

-----------------------------------------------------------------------------
(* An answer in one piece: a text or a tool call, or both. *)
JsonFails ==
    /\ Step("json")
    /\ Goto("failed")
    /\ UNCHANGED <<client, body, decoder, held, writer, out, record>>

JsonReply(frames) ==
    /\ Step("json") /\ body = <<>> /\ body' = frames
    /\ Goto("replied")
    /\ UNCHANGED <<client, decoder, held, writer, out, record>>

(* The response as the adapters decode it: only Responses and Anthropic set its text. *)
JsonResponse ==
    Event("response", IF answer.format = "chat" THEN <<>> ELSE Brought({"text"}))

(* StreamWriter.WriteResponse: the response, then what it holds as deltas. *)
Expanded ==
    LET Deltas(type) == [i \in 1 .. Len(Brought({type})) |-> Event(type, <<Brought({type})[i]>>)]
    IN <<JsonResponse>> \o Deltas("text") \o Deltas("tool")
       \o <<Event("usage", <<<<answer.no, Len(body)>>>>)>>

(* completeTranslatedStream, for a client that asked for a stream. *)
StreamReply ==
    /\ Step("replied") /\ client.streams
    /\ writer' = WriterAfter(Expanded)
    /\ LET frames == Written(Expanded) \o Closing(WriterAfter(Expanded)) IN
       \E n \in 0 .. Len(frames) :
           /\ Sent(frames, n)
           /\ Finish(IF n = Len(frames) THEN "succeeded" ELSE "partial", Len(body), TRUE)
    /\ UNCHANGED <<client, body, decoder, held>>

(* completeTranslated and EncodeResponse. *)
CompleteReply ==
    /\ Step("replied") /\ ~client.streams
    /\ \/ /\ out' = Append(out, Event("json", Brought({"text"})))
          /\ Finish("succeeded", Len(body), TRUE)
       \/ /\ Finish("failed", 0, TRUE)
          /\ UNCHANGED out
    /\ UNCHANGED <<client, body, decoder, held, writer>>

-----------------------------------------------------------------------------
(* After a failure another candidate is asked, or the client is told. *)
AskAnother ==
    /\ Step("failed") /\ answer.no < MaxAnswers
    /\ answer' = NewAnswer(answer.no + 1)
    /\ body' = <<>> /\ held' = <<>>
    /\ decoder' = NewDecoder /\ writer' = NewWriter
    /\ record' = [record EXCEPT !.usage = 0]
    /\ UNCHANGED <<client, out>>

GiveUp ==
    /\ Step("failed")
    /\ out' = Append(out, Event("refusal", <<>>))
    /\ Finish("failed", 0, record.learned)
    /\ UNCHANGED <<client, body, decoder, held, writer>>

StreamNext ==
    \/ Answer
    \/ \E f \in Frames : PumpFrame(f) \/ CollectFrame(f)
    \/ PumpEnds \/ BreaksOff \/ PumpFails \/ FinalizeStream
    \/ CollectEnds \/ CollectFails \/ PassOnPart \/ CompleteCollected
    \/ JsonFails \/ StreamReply \/ CompleteReply
    \/ \E frames \in JsonBodies : JsonReply(frames)
    \/ AskAnother \/ GiveUp

StreamSpec == StreamInit /\ [][StreamNext]_streamVars

-----------------------------------------------------------------------------
(* What a client can rely on. *)
Got(type) == Pieces(out, type)
Count(type) == Len(Picked(out, OfType(type)))
Begins(s, t) == Len(s) \leq Len(t) /\ SubSeq(t, 1, Len(s)) = s

(* A call whose first arguments came with its announcement loses those. *)
ToolPieces == Brought({"tool", "delta", "rest"})
Announced ==
    \/ answer.format # "responses"
    \/ \E i \in 1 .. Len(body) : body[i].kind = "added"

OneAnswerOnly ==
    \A i \in 1 .. Len(out) : out[i].parts # <<>> => out[i].parts[1][1] = answer.no

InOrderOnce ==
    /\ Begins(Got("text"), Brought({"text"}))
    /\ Announced => Begins(Got("tool"), ToolPieces)
    /\ Count("open") \leq 1 /\ Count("refusal") \leq 1
    /\ Count("refusal") = 1 => Len(out) = 1

EndsOnlyWhenWhole ==
    IF Count("terminal") = 0 THEN record.state = "succeeded" => Count("json") = 1
    ELSE /\ record.state = "succeeded" \/ Step("settle")
         /\ Count("terminal") = 1 /\ out[Len(out)].type = "terminal"
         /\ Got("text") = Brought({"text"})
         /\ Announced => Got("tool") = ToolPieces
         /\ client.format = "responses" => out[Len(out)].parts = Got("text")

(* A stream that was begun is partial or succeeded, with the usage that was seen, and no *)
(* format is learned from an answer that was not whole.                                   *)
UsageSeen ==
    LET dates == {0} \cup {i \in Read : body[i].usage} IN
    CHOOSE d \in dates : \A i \in dates : i \leq d

RecordIsTrue ==
    /\ record.state \in {"partial", "succeeded"} => record.usage = UsageSeen
    /\ record.state = "failed" /\ client.streams => ~writer.committed /\ Count("refusal") = 1
    /\ record.learned => body \in JsonBodies \/ \E i \in Read : body[i].kind \in Terminals

StreamsKeepFaith == OneAnswerOnly /\ InOrderOnce /\ EndsOnlyWhenWhole /\ RecordIsTrue
=============================================================================
