------------------------- MODULE StreamDeliveryProofs -------------------------
(***************************************************************************)
(* Streams keep faith: for bodies of any length, any number of candidates  *)
(* and every way to break off, what the client was sent brings what was    *)
(* read, in order and once, and ends as it should only when it is whole.   *)
(*                                                                         *)
(* The invariant ties what was sent (out) or is held (held) to the frames  *)
(* that were read (body): DecoderInv says which of them the decoder knows  *)
(* of, WriterInv what the writer keeps for the terminal event, and one     *)
(* part for each step of an answer what has gone out by then.              *)
(***************************************************************************)
EXTENDS StreamDelivery, SubsequencesProofs

(* The pieces of the answer in hand, and events that carry no others. *)
Own == {answer.no} \X Nat
OwnEvents == {e \in Events : e.parts \in Seq(Own)}

FrameKinds ==
    {"text", "malformed", "usage", "error", "tool", "end", "delta", "rest", "done", "completed",
     "bare", "added", "filled"}

StreamTypes ==
    /\ client \in [format : WireFormats, streams : BOOLEAN]
    /\ answer \in [no : Nat, format : WireFormats, step : Steps]
    /\ body \in Seq([kind : FrameKinds, usage : BOOLEAN])
    /\ decoder \in [count : Nat, terminal : BOOLEAN, failed : BOOLEAN,
                    tool : [named : BOOLEAN, args : Seq(Own), emitted : Nat]]
    /\ held \in Seq(OwnEvents) /\ out \in Seq(OwnEvents)
    /\ writer \in [committed : BOOLEAN, text : Seq(Own), response : Seq(Own)]
    /\ record \in [state : {"started", "partial", "succeeded", "failed"}, usage : Nat,
                   learned : BOOLEAN]

(* What there is at every step. *)
Untouched == out = <<>> /\ writer = NewWriter

PhaseInv ==
    /\ Step("call") \/ Step("json") =>
           body = <<>> /\ held = <<>> /\ decoder = NewDecoder /\ Untouched /\ record.usage = 0
    /\ Step("pump") \/ Step("settle") => held = <<>> /\ client.streams
    /\ Step("collect") \/ Step("collected") => Untouched /\ ~client.streams
    /\ Step("replied") => body \in JsonBodies /\ held = <<>> /\ Untouched
    /\ Step("failed") => out = <<>> /\ ~writer.committed
    /\ ~Step("done") => record.state = "started" /\ ~record.learned

(* The decoder knows whether the terminal frame was read and which tool arguments it has *)
(* passed on.                                                                             *)
Over == \E i \in 1 .. Len(body) : body[i].kind \in Terminals

Follows ==
    /\ decoder.terminal <=> Over
    /\ answer.format # "responses" => decoder.tool = NoTool
    /\ decoder.tool.emitted = Len(decoder.tool.args)
    /\ answer.format = "responses" /\ Announced => decoder.tool.named
    /\ answer.format = "responses" /\ decoder.tool = NoTool => ToolPieces = <<>>

DecoderInv ==
    Step("pump") \/ Step("settle") \/ Step("collect") \/ Step("collected") => Follows

(* Events that bring exactly what was read. *)
Passed(events) ==
    /\ Pieces(events, "text") = Brought({"text"})
    /\ Announced => Pieces(events, "tool") = ToolPieces
    /\ answer.format = "responses" /\ decoder.tool = NoTool => Pieces(events, "tool") = <<>>

FrameEvents == {e \in OwnEvents : e.type \in {"text", "tool", "usage", "error", "response"}}
StreamEvents == {e \in OwnEvents : e.type \in {"open", "text", "tool", "usage", "error", "close"}}

WriterInv ==
    /\ writer.text = IF client.format = "responses" THEN Brought({"text"}) ELSE <<>>
    /\ writer.response # <<>> => Over /\ writer.response = Brought({"text"})
    /\ ~writer.committed => out = <<>>
    /\ Count("open") \leq 1
    /\ record.usage = UsageSeen

PumpInv ==
    Step("pump") =>
        /\ WriterInv /\ Passed(out) /\ out \in Seq(StreamEvents)
        /\ ~decoder.failed
        /\ decoder.count > 0 => writer.committed

SettleInv ==
    Step("settle") =>
        /\ WriterInv
        /\ decoder.failed => out \in Seq(StreamEvents) /\ InOrderOnce
        /\ ~decoder.failed => writer.committed /\ Over /\ InOrderOnce
                              /\ Count("terminal") = 1 /\ EndsOnlyWhenWhole

CollectInv ==
    Step("collect") \/ Step("collected") =>
        /\ Passed(held) /\ held \in Seq(FrameEvents)
        /\ \A i \in 1 .. Len(held) :
               held[i].type = "response" => Over /\ held[i].parts = Brought({"text"})
        /\ Observed(held, 0) = UsageSeen
        /\ Step("collect") => ~decoder.failed
        /\ Step("collected") /\ ~decoder.failed => Over

StreamInv ==
    /\ StreamTypes /\ PhaseInv /\ DecoderInv /\ PumpInv /\ SettleInv /\ CollectInv
    /\ Step("done") => InOrderOnce /\ EndsOnlyWhenWhole /\ RecordIsTrue

-----------------------------------------------------------------------------
(* Pieces of events. *)
With(type) == {e \in OfType(type) : e.parts # <<>>}
FirstParts(these) == [i \in 1 .. Len(these) |-> these[i].parts[1]]

LEMMA FirstPartsType ==
    ASSUME NEW S, NEW these \in Seq({e \in Events : e.parts \in Seq(S) /\ e.parts # <<>>})
    PROVE  FirstParts(these) \in Seq(S) /\ Len(FirstParts(these)) = Len(these)
<1>1. ASSUME NEW i \in 1 .. Len(these) PROVE these[i].parts[1] \in S
  <2>1. these[i].parts \in Seq(S) /\ these[i].parts # <<>>
    BY ElementOfSeq
  <2> QED
    BY <2>1, EmptySeq, ElementOfSeq
<1> QED
  BY <1>1, LenProperties DEF FirstParts

LEMMA FirstPartsConcat ==
    ASSUME NEW a \in Seq(Events), NEW b \in Seq(Events)
    PROVE  FirstParts(a \o b) = FirstParts(a) \o FirstParts(b)
<1>1. /\ Len(a \o b) = Len(a) + Len(b) /\ Len(a) \in Nat /\ Len(b) \in Nat
      /\ \A i \in 1 .. Len(a) + Len(b) : (a \o b)[i] = IF i <= Len(a) THEN a[i] ELSE b[i - Len(a)]
  BY ConcatProperties, LenProperties
<1>2. FirstParts(a) \o FirstParts(b)
        = [i \in 1 .. Len(a) + Len(b) |->
              IF i <= Len(a) THEN a[i].parts[1] ELSE b[i - Len(a)].parts[1]]
  BY <1>1 DEF FirstParts
<1> QED
  BY <1>1, <1>2 DEF FirstParts

LEMMA PiecesAre ==
    ASSUME NEW events, NEW type
    PROVE  Pieces(events, type) = FirstParts(Picked(events, With(type)))
BY DEF Pieces, FirstParts, With

LEMMA PiecesType ==
    ASSUME NEW events \in Seq(OwnEvents), NEW type
    PROVE  Pieces(events, type) \in Seq(Own)
<1>1. Picked(events, With(type)) \in Seq(OwnEvents \cap With(type))
  BY PickedType
<1>2. OwnEvents \cap With(type) \subseteq {e \in Events : e.parts \in Seq(Own) /\ e.parts # <<>>}
  BY DEF OwnEvents, With
<1> QED
  BY <1>1, <1>2, SeqMonotonic, FirstPartsType, PiecesAre

LEMMA PiecesConcat ==
    ASSUME NEW a \in Seq(Events), NEW b \in Seq(Events), NEW type
    PROVE  Pieces(a \o b, type) = Pieces(a, type) \o Pieces(b, type)
<1>1. Picked(a \o b, With(type)) = Picked(a, With(type)) \o Picked(b, With(type))
  BY PickedConcat
<1>2. Picked(a, With(type)) \in Seq(Events) /\ Picked(b, With(type)) \in Seq(Events)
  BY PickedType
<1>3. FirstParts(Picked(a, With(type)) \o Picked(b, With(type)))
        = FirstParts(Picked(a, With(type))) \o FirstParts(Picked(b, With(type)))
  BY <1>2, FirstPartsConcat
<1> QED
  BY <1>1, <1>3, PiecesAre

LEMMA PiecesEmpty ==
    ASSUME NEW type
    PROVE  Pieces(<<>>, type) = <<>>
BY PickedEmpty, PiecesAre, EmptySeq DEF FirstParts

LEMMA PiecesOne ==
    ASSUME NEW e \in Events, NEW type
    PROVE  Pieces(<<e>>, type)
             = IF e.type = type /\ e.parts # <<>> THEN <<e.parts[1]>> ELSE <<>>
<1>1. e \in With(type) <=> e.type = type /\ e.parts # <<>>
  BY DEF With, OfType
<1>2. FirstParts(<<e>>) = <<e.parts[1]>> /\ FirstParts(<<>>) = <<>>
  BY DEF FirstParts
<1> QED
  BY <1>1, <1>2, PickedOne, PiecesAre

(* Events of other types bring nothing. *)
LEMMA PiecesNone ==
    ASSUME NEW E, NEW events \in Seq(E), NEW type, \A e \in E : e.type # type
    PROVE  Pieces(events, type) = <<>>
<1>1. E \cap With(type) = {}
  BY DEF With, OfType
<1> QED
  BY <1>1, PickedNone, PiecesAre, EmptySeq DEF FirstParts

LEMMA PickedOfType ==
    ASSUME NEW E, NEW events \in Seq(E), NEW type, \A e \in E : e.type # type
    PROVE  Picked(events, OfType(type)) = <<>>
<1>1. E \cap OfType(type) = {}
  BY DEF OfType
<1> QED
  BY <1>1, PickedNone

(* What is forwarded brings the same text and tool arguments. *)
LEMMA PiecesForwarded ==
    ASSUME NEW events \in Seq(Events), NEW type \in {"text", "tool"}
    PROVE  Pieces(Picked(events, Forwarded), type) = Pieces(events, type)
<1>1. Events \cap With(type) \subseteq Forwarded
  BY DEF With, OfType, Forwarded
<1> QED
  BY <1>1, PickedTwice, PiecesAre

-----------------------------------------------------------------------------
(* Beginnings. *)
LEMMA BeginsConcat ==
    ASSUME NEW S, NEW s \in Seq(S), NEW t \in Seq(S)
    PROVE  Begins(s, s \o t)
<1>1. Len(s \o t) = Len(s) + Len(t) /\ Len(s) \in Nat /\ Len(t) \in Nat
  BY ConcatProperties, LenProperties
<1>2. SubSeq(s \o t, 1, Len(s)) = s
  <2>1. CASE s = <<>>
    BY <2>1, SubSeqEmpty, EmptySeq
  <2>2. CASE s # <<>>
    <3>1. 1 \in 1 .. Len(s) /\ Len(s) \in 1 .. Len(s)
      BY <2>2, EmptySeq
    <3> QED
      BY <3>1, SubSeqOfConcat1, SubSeqFull
  <2> QED
    BY <2>1, <2>2
<1> QED
  BY <1>1, <1>2 DEF Begins

LEMMA BeginsSame ==
    ASSUME NEW S, NEW s \in Seq(S)
    PROVE  Begins(s, s)
BY LenProperties, SubSeqFull DEF Begins

LEMMA BeginsEmpty ==
    ASSUME NEW s, Len(s) \in Nat
    PROVE  Begins(<<>>, s)
BY SubSeqEmpty, EmptySeq DEF Begins

(* What the client takes of some frames begins what they bring. *)
LEMMA TakenBegins ==
    ASSUME NEW s \in Seq(OwnEvents), NEW frames \in Seq(OwnEvents), NEW n \in 0 .. Len(frames),
           NEW type
    PROVE  Begins(Pieces(s \o SubSeq(frames, 1, n), type), Pieces(s \o frames, type))
<1> DEFINE taken == SubSeq(frames, 1, n)
           rest == SubSeq(frames, n + 1, Len(frames))
<1>1. taken \in Seq(OwnEvents) /\ rest \in Seq(OwnEvents) /\ frames = taken \o rest
  BY Parted
<1> HIDE DEF taken, rest
<1>2. OwnEvents \subseteq Events
  BY DEF OwnEvents
<1>3. /\ s \in Seq(Events) /\ taken \in Seq(Events) /\ rest \in Seq(Events)
      /\ s \o taken \in Seq(OwnEvents) /\ s \o taken \in Seq(Events)
  BY <1>1, <1>2, SeqMonotonic, ConcatProperties
<1>4. s \o frames = (s \o taken) \o rest
  BY ZenonT(60), SMTT(60), <1>1, ConcatAssociative
<1>5. Pieces(s \o frames, type) = Pieces(s \o taken, type) \o Pieces(rest, type)
  <2>1. Pieces((s \o taken) \o rest, type) = Pieces(s \o taken, type) \o Pieces(rest, type)
    BY ZenonT(60), SMTT(60), <1>3, PiecesConcat
  <2> QED
    BY <1>4, <2>1
<1>6. Pieces(s \o taken, type) \in Seq(Own) /\ Pieces(rest, type) \in Seq(Own)
  BY <1>1, <1>3, PiecesType
<1> QED
  BY <1>5, <1>6, BeginsConcat DEF taken

(* What is taken has no more events of a type than there are. *)
LEMMA TakenCount ==
    ASSUME NEW s \in Seq(OwnEvents), NEW frames \in Seq(OwnEvents), NEW n \in 0 .. Len(frames),
           NEW type
    PROVE  /\ Len(Picked(s \o SubSeq(frames, 1, n), OfType(type))) \in Nat
           /\ Len(Picked(s \o SubSeq(frames, 1, n), OfType(type)))
                \leq Len(Picked(s, OfType(type))) + Len(Picked(frames, OfType(type)))
           /\ Len(Picked(s, OfType(type))) \in Nat
<1> DEFINE taken == SubSeq(frames, 1, n)
           rest == SubSeq(frames, n + 1, Len(frames))
<1>1. taken \in Seq(OwnEvents) /\ rest \in Seq(OwnEvents) /\ frames = taken \o rest
  BY Parted
<1> HIDE DEF taken, rest
<1> DEFINE K(t) == Picked(t, OfType(type))
<1>2. K(s \o taken) = K(s) \o K(taken) /\ K(frames) = K(taken) \o K(rest)
  BY ZenonT(60), SMTT(60), <1>1, PickedConcat
<1>3. K(s) \in Seq(OwnEvents) /\ K(taken) \in Seq(OwnEvents) /\ K(rest) \in Seq(OwnEvents)
  BY <1>1, PickedType
<1> HIDE DEF K
<1>4. /\ Len(K(s \o taken)) = Len(K(s)) + Len(K(taken)) /\ Len(K(s)) \in Nat
      /\ Len(K(frames)) = Len(K(taken)) + Len(K(rest))
      /\ Len(K(taken)) \in Nat /\ Len(K(rest)) \in Nat
  BY <1>2, <1>3, ConcatProperties, LenProperties
<1> QED
  BY <1>4 DEF taken, K

-----------------------------------------------------------------------------
(* What a body brought. *)
Wanted(kinds) == {<<answer.no, i>> : i \in {j \in Read : body[j].kind \in kinds}}
Numbered(n) == [i \in 1 .. n |-> <<answer.no, i>>]

LEMMA BroughtType ==
    ASSUME StreamTypes, NEW kinds
    PROVE  Brought(kinds) \in Seq(Own)
<1>1. Numbered(Len(body)) \in Seq(Own)
  BY LenProperties DEF Numbered, Own, StreamTypes
<1>2. Brought(kinds) = Picked(Numbered(Len(body)), Wanted(kinds))
  BY DEF Brought, Numbered, Wanted
<1> QED
  BY <1>1, <1>2, PickedType

(* One frame more. *)
LEMMA BroughtMore ==
    ASSUME StreamTypes, NEW f \in [kind : FrameKinds, usage : BOOLEAN],
           body' = Append(body, f), answer'.no = answer.no, NEW kinds
    PROVE  /\ Read' = IF Over THEN Read ELSE Read \cup {Len(body) + 1}
           /\ Over' <=> Over \/ f.kind \in Terminals
           /\ Brought(kinds)' = IF Over \/ f.kind \notin kinds THEN Brought(kinds)
                                ELSE Append(Brought(kinds), Piece)
<1> DEFINE n == Len(body)
<1>1. /\ n \in Nat /\ Len(body') = n + 1 /\ body'[n + 1] = f
      /\ \A i \in 1 .. n : body'[i] = body[i]
  BY AppendProperties, LenProperties DEF StreamTypes
<1> HIDE DEF n
<1>2. Over' <=> Over \/ f.kind \in Terminals
  <2>1. ASSUME NEW i \in 1 .. n + 1, body'[i].kind \in Terminals
        PROVE  Over \/ f.kind \in Terminals
    <3>1. i = n + 1 \/ i \in 1 .. n
      BY <1>1
    <3> QED
      BY <1>1, <2>1, <3>1 DEF Over, n
  <2>2. ASSUME NEW i \in 1 .. n, body[i].kind \in Terminals
        PROVE  Over'
    BY <1>1, <2>2 DEF Over, Terminals
  <2>3. f.kind \in Terminals => Over'
    BY <1>1 DEF Over, Terminals
  <2> QED
    BY <1>1, <2>1, <2>2, <2>3 DEF Over, n, Terminals
<1>3. Read' = IF Over THEN Read ELSE Read \cup {n + 1}
  <2>1. ASSUME NEW i \in 1 .. n PROVE i \in Read' <=> i \in Read
    BY <1>1 DEF Read, Terminals, n
  <2>2. n + 1 \in Read' <=> ~Over
    BY <1>1 DEF Read, Over, Terminals, n
  <2>3. Read' \subseteq 1 .. n + 1 /\ Read \subseteq 1 .. n
    BY <1>1 DEF Read, n
  <2>4. ASSUME NEW i PROVE i \in Read' <=> i \in Read \/ (~Over /\ i = n + 1)
    <3>1. CASE i \in 1 .. n
      BY <1>1, <2>1, <3>1
    <3>2. CASE i \notin 1 .. n
      <4>1. i \notin Read
        BY <2>3, <3>2
      <4>2. i \in Read' => i = n + 1
        BY <1>1, <2>3, <3>2
      <4> QED
        BY <2>2, <4>1, <4>2
    <3> QED
      BY <3>1, <3>2
  <2> QED
    BY <2>4
<1>4. /\ Numbered(n + 1) = Append(Numbered(n), Piece)
      /\ Numbered(n) \in Seq(Own) /\ Piece \in Own
  BY <1>1 DEF Numbered, Own, Piece, StreamTypes, n
<1>5. Brought(kinds)' = Picked(Append(Numbered(n), Piece), Wanted(kinds)')
  BY <1>1, <1>4 DEF Brought, Numbered, Wanted
<1>6. Brought(kinds) = Picked(Numbered(n), Wanted(kinds))
  BY DEF Brought, Numbered, Wanted, n
<1>7. Piece \in Wanted(kinds)' <=> ~Over /\ f.kind \in kinds
  BY <1>1, <1>3 DEF Wanted, Piece, Read, n
<1>8. Picked(Numbered(n), Wanted(kinds)') = Picked(Numbered(n), Wanted(kinds))
  <2> DEFINE N == {<<answer.no, i>> : i \in 1 .. n}
  <2>1. Numbered(n) \in Seq(N)
    BY <1>1 DEF Numbered
  <2>2. N \cap Wanted(kinds)' = N \cap Wanted(kinds)
    <3>1. ASSUME NEW i \in 1 .. n
          PROVE  <<answer.no, i>> \in Wanted(kinds)' <=> <<answer.no, i>> \in Wanted(kinds)
      BY <1>1, <1>3 DEF Wanted, Read
    <3> QED
      BY <3>1
  <2> HIDE DEF N
  <2> QED
    BY <2>1, <2>2, PickedSame
<1>9. Brought(kinds)' = IF Piece \in Wanted(kinds)' THEN Append(Brought(kinds), Piece)
                        ELSE Brought(kinds)
  BY <1>4, <1>5, <1>6, <1>8, PickedAppend
<1> QED
  BY <1>2, <1>3, <1>7, <1>9 DEF n

-----------------------------------------------------------------------------
(* The usage that was seen. *)
LEMMA Largest ==
    ASSUME NEW n \in Nat, NEW D \in SUBSET (0 .. n), D # {}
    PROVE  \E d \in D : \A i \in D : i \leq d
<1> DEFINE Has(m) == \A B \in SUBSET (0 .. m) : B # {} => \E d \in B : \A i \in B : i \leq d
           S == {m \in Nat : Has(m)}
<1>1. Has(0)
  <2>1. ASSUME NEW B \in SUBSET (0 .. 0), B # {} PROVE \E d \in B : \A i \in B : i \leq d
    <3>1. PICK b \in B : TRUE
      BY <2>1
    <3>2. \A i \in B : i = 0
      OBVIOUS
    <3>3. \A i \in B : i \leq b
      BY <3>1, <3>2
    <3> QED
      BY <3>1, <3>3
  <2> QED
    BY <2>1
<1>2. ASSUME NEW m \in Nat, Has(m) PROVE Has(m + 1)
  <2> SUFFICES ASSUME NEW B \in SUBSET (0 .. m + 1), B # {} PROVE \E d \in B : \A i \in B : i \leq d
    OBVIOUS
  <2>1. CASE m + 1 \in B
    BY <2>1
  <2>2. CASE m + 1 \notin B
    <3>1. B \in SUBSET (0 .. m)
      BY <2>2
    <3> QED
      BY <1>2, <3>1
  <2> QED
    BY <2>1, <2>2
<1> HIDE DEF Has
<1>3. 0 \in S /\ \A m \in Nat : m \in S => m + 1 \in S
  BY <1>1, <1>2
<1> HIDE DEF S
<1>4. n \in S
  BY <1>3, Induction
<1> QED
  BY <1>4 DEF S, Has

Dates == {0} \cup {i \in Read : body[i].usage}

LEMMA SeenIsLast ==
    ASSUME StreamTypes
    PROVE  UsageSeen \in Dates /\ (\A i \in Dates : i \leq UsageSeen) /\ Dates \subseteq 0 .. Len(body)
<1>1. Dates \subseteq 0 .. Len(body) /\ Dates # {} /\ Len(body) \in Nat
  BY LenProperties DEF Dates, Read, StreamTypes
<1>2. \E d \in Dates : \A i \in Dates : i \leq d
  BY <1>1, Largest
<1>3. UsageSeen = CHOOSE d \in Dates : \A i \in Dates : i \leq d
  BY DEF UsageSeen, Dates
<1> HIDE DEF Dates
<1> QED
  BY <1>1, <1>2, <1>3

LEMMA SeenMore ==
    ASSUME StreamTypes, StreamTypes', NEW f \in [kind : FrameKinds, usage : BOOLEAN],
           body' = Append(body, f), answer'.no = answer.no
    PROVE  UsageSeen' = IF ~Over /\ f.usage THEN Len(body) + 1 ELSE UsageSeen
<1>1. Read' = IF Over THEN Read ELSE Read \cup {Len(body) + 1}
  BY BroughtMore
<1>2. /\ Len(body) \in Nat /\ Len(body') = Len(body) + 1 /\ body'[Len(body) + 1] = f
      /\ \A i \in 1 .. Len(body) : body'[i] = body[i]
  BY AppendProperties, LenProperties DEF StreamTypes
<1>3. ASSUME NEW i PROVE i \in Dates' <=> i \in Dates \/ (~Over /\ f.usage /\ i = Len(body) + 1)
  <2>1. \A j \in Read : j \in 1 .. Len(body)
    BY DEF Read
  <2> QED
    BY <1>1, <1>2, <2>1 DEF Dates
<1>4. UsageSeen \in Dates /\ (\A i \in Dates : i \leq UsageSeen) /\ Dates \subseteq 0 .. Len(body)
  BY SeenIsLast
<1>5. UsageSeen' \in Dates' /\ (\A i \in Dates' : i \leq UsageSeen') /\ Dates' \subseteq Nat
  <2>1. Dates' \subseteq 0 .. Len(body') /\ Dates' # {} /\ Len(body') \in Nat
    BY <1>2 DEF Dates, Read
  <2>2. \E d \in Dates' : \A i \in Dates' : i \leq d
    BY <2>1, Largest
  <2>3. UsageSeen' = CHOOSE d \in Dates' : \A i \in Dates' : i \leq d
    BY DEF UsageSeen, Dates
  <2> DEFINE D == Dates'
             c == CHOOSE d \in D : \A i \in D : i \leq d
  <2> HIDE DEF D
  <2>4. \E d \in D : \A i \in D : i \leq d
    BY <2>2 DEF D
  <2>5. c \in D /\ \A i \in D : i \leq c
    BY <2>4
  <2> HIDE DEF c
  <2>6. UsageSeen' = c
    BY <2>3 DEF c, D
  <2> QED
    BY <2>1, <2>5, <2>6 DEF D
<1> HIDE DEF Dates
<1>6. CASE ~Over /\ f.usage
  <2>1. Len(body) + 1 \in Dates' /\ \A i \in Dates' : i \leq Len(body) + 1
    <3>1. ASSUME NEW i \in Dates' PROVE i \leq Len(body) + 1
      <4>1. i \in 0 .. Len(body) \/ i = Len(body) + 1
        BY <1>3, <1>4, <3>1
      <4> QED
        BY <1>2, <4>1
    <3> QED
      BY <1>3, <1>6, <3>1
  <2>2. Len(body) + 1 \leq UsageSeen' /\ UsageSeen' \leq Len(body) + 1 /\ UsageSeen' \in Nat
    BY <1>5, <2>1
  <2> QED
    BY <1>2, <1>6, <2>2
<1>7. CASE ~(~Over /\ f.usage)
  <2>1. \A i : i \in Dates' <=> i \in Dates
    BY <1>3, <1>7
  <2>2. UsageSeen \leq UsageSeen' /\ UsageSeen' \leq UsageSeen /\ UsageSeen' \in Nat /\ UsageSeen \in Nat
    BY <1>2, <1>4, <1>5, <2>1
  <2> QED
    BY <1>7, <2>2
<1> QED
  BY <1>6, <1>7

-----------------------------------------------------------------------------
(* What a frame is translated to. *)
SentBy(f) ==
    IF f.kind \in {"text", "tool"} THEN <<Event(f.kind, <<Piece>>)>>
    ELSE IF f.kind = "error" THEN <<Event("error", <<>>)>>
    ELSE IF f.kind = "completed" THEN <<Event("response", Brought({"text"}))>>
    ELSE IF f.kind \in {"added", "filled"} THEN <<Event("tool", <<>>)>>
    ELSE IF f.kind \in {"delta", "rest"} /\ decoder.tool.named THEN <<Event("tool", <<Piece>>)>>
    ELSE IF f.kind = "done" /\ decoder.tool.named THEN <<Event("tool", <<>>)>>
    ELSE <<>>

FrameRecords == [kind : FrameKinds, usage : BOOLEAN]

LEMMA FramesAreFrames ==
    ASSUME NEW f \in Frames
    PROVE  f \in FrameRecords
BY DEF Frames, Frame, FrameRecords, FrameKinds

LEMMA PieceIsOwn ==
    ASSUME StreamTypes
    PROVE  Piece \in Own /\ <<Piece>> \in Seq(Own) /\ <<Piece>>[1] = Piece /\ <<Piece>> # <<>>
<1>1. Len(body) + 1 \in Nat
  BY LenProperties DEF StreamTypes
<1> QED
  BY <1>1 DEF Piece, Own

LEMMA OneElement ==
    ASSUME NEW S, NEW t \in Seq(S), Len(t) = 1
    PROVE  t = <<t[1]>>
BY LenProperties

LEMMA EventsAre ==
    ASSUME StreamTypes, decoder.tool.emitted = Len(decoder.tool.args), NEW f \in FrameRecords
    PROVE  /\ EventsOf(f) = IF decoder.terminal THEN <<>> ELSE UsageEvents(f) \o SentBy(f)
           /\ ToolAfter(f) \in [named : BOOLEAN, args : Seq(Own), emitted : Nat]
           /\ ToolAfter(f).emitted = Len(ToolAfter(f).args)
<1> DEFINE args == decoder.tool.args
           more == Append(args, Piece)
<1>1. args \in Seq(Own) /\ decoder.tool \in [named : BOOLEAN, args : Seq(Own), emitted : Nat]
  BY DEF StreamTypes
<1>2. more \in Seq(Own) /\ Len(more) = Len(args) + 1 /\ Len(args) \in Nat /\ more[Len(args) + 1] = Piece
  BY <1>1, PieceIsOwn, AppendProperties, LenProperties
<1>3. SubSeq(more, Len(args) + 1, Len(more)) = <<Piece>>
  <2>1. /\ SubSeq(more, Len(args) + 1, Len(more)) \in Seq(Own)
        /\ Len(SubSeq(more, Len(args) + 1, Len(more))) = 1
        /\ SubSeq(more, Len(args) + 1, Len(more))[1] = Piece
    BY <1>2, PieceIsOwn, SubSeqProperties
  <2> QED
    BY <2>1, OneElement
<1>4. SubSeq(args, Len(args) + 1, Len(args)) = <<>>
  BY <1>2, SubSeqEmpty
<1> HIDE DEF args, more
<1>5. /\ f.kind = "added" => ToolAfter(f) = [decoder.tool EXCEPT !.named = TRUE]
      /\ f.kind = "filled" => ToolAfter(f) = [named |-> TRUE, args |-> more, emitted |-> Len(more)]
      /\ f.kind \in {"delta", "rest"} =>
             ToolAfter(f) = [decoder.tool EXCEPT !.args = more, !.emitted = Len(more)]
      /\ f.kind \notin {"added", "filled", "delta", "rest"} => ToolAfter(f) = decoder.tool
  BY DEF ToolAfter, args, more
<1>6. /\ ToolAfter(f) \in [named : BOOLEAN, args : Seq(Own), emitted : Nat]
      /\ ToolAfter(f).emitted = Len(ToolAfter(f).args)
  <2>1. Len(more) \in Nat
    BY <1>2
  <2>2. CASE f.kind = "added"
    <3> DEFINE tool == decoder.tool
    <3>1. tool \in [named : BOOLEAN, args : Seq(Own), emitted : Nat] /\ tool.emitted = Len(tool.args)
      BY <1>1
    <3>2. ToolAfter(f) = [tool EXCEPT !.named = TRUE]
      BY <1>5, <2>2
    <3> HIDE DEF tool
    <3>3. /\ ToolAfter(f).named = TRUE /\ ToolAfter(f).args = tool.args
          /\ ToolAfter(f).emitted = tool.emitted
      BY <3>1, <3>2
    <3>4. ToolAfter(f) = [named |-> TRUE, args |-> tool.args, emitted |-> tool.emitted]
      BY <3>1, <3>2
    <3> QED
      BY <3>1, <3>3, <3>4
  <2>3. CASE f.kind = "filled"
    <3>1. ToolAfter(f) = [named |-> TRUE, args |-> more, emitted |-> Len(more)]
      BY <1>5, <2>3
    <3> QED
      BY <1>2, <2>1, <3>1
  <2>4. CASE f.kind \in {"delta", "rest"}
    BY <1>1, <1>2, <1>5, <2>1, <2>4
  <2>5. CASE f.kind \notin {"added", "filled", "delta", "rest"}
    BY <1>1, <1>5, <2>5
  <2> QED
    BY <2>2, <2>3, <2>4, <2>5
<1>7. ASSUME f.kind \in {"delta", "rest"} PROVE ToolAfter(f).args = more /\ ToolAfter(f).named = decoder.tool.named
  BY <1>1, <1>5, <1>7
<1>8. ToolEvents(f) = IF f.kind \in {"added", "filled"} THEN <<Event("tool", <<>>)>>
                      ELSE IF f.kind \in {"delta", "rest"} /\ decoder.tool.named
                             THEN <<Event("tool", <<Piece>>)>>
                      ELSE IF f.kind = "done" /\ decoder.tool.named THEN <<Event("tool", <<>>)>>
                      ELSE <<>>
  <2>1. CASE f.kind \in {"delta", "rest"}
    BY <1>3, <1>7, <2>1 DEF ToolEvents, args
  <2>2. CASE f.kind = "done"
    <3>1. ToolAfter(f) = decoder.tool
      BY <1>5, <2>2
    <3> QED
      BY <1>4, <2>2, <3>1 DEF ToolEvents, args
  <2>3. CASE f.kind \notin {"delta", "rest", "done"}
    BY <2>3 DEF ToolEvents
  <2> QED
    BY <2>1, <2>2, <2>3
<1>9. EventsOf(f) = IF decoder.terminal THEN <<>> ELSE UsageEvents(f) \o SentBy(f)
  BY <1>8 DEF EventsOf, SentBy
<1> QED
  BY <1>6, <1>9

LEMMA FrameEventsAreEvents == FrameEvents \subseteq OwnEvents /\ OwnEvents \subseteq Events
BY DEF FrameEvents, OwnEvents

LEMMA EventTypes ==
    ASSUME NEW parts \in Seq(Own), NEW type \in {"text", "tool", "usage", "error", "response"},
           StreamTypes
    PROVE  Event(type, parts) \in FrameEvents
<1>1. parts \in Seq(Nat \X Nat)
  BY SeqMonotonic DEF Own, StreamTypes
<1> QED
  BY <1>1 DEF Event, FrameEvents, OwnEvents, Events

(* What one event brings. *)
Sole(events, type, parts, sought) ==
    Pieces(events, sought) = IF type = sought /\ parts # <<>> THEN <<parts[1]>> ELSE <<>>

IsSole(events, type, parts) ==
    /\ events \in Seq(FrameEvents)
    /\ Len(events) = 1 /\ events[1].type = type /\ events[1].parts = parts
    /\ Sole(events, type, parts, "text") /\ Sole(events, type, parts, "tool")
    /\ Sole(events, type, parts, "usage")

LEMMA PiecesOfEvent ==
    ASSUME StreamTypes, NEW parts \in Seq(Own),
           NEW type \in {"text", "tool", "usage", "error", "response"},
           NEW events, events = <<Event(type, parts)>>
    PROVE  IsSole(events, type, parts)
<1>1. Event(type, parts) \in FrameEvents /\ Event(type, parts) \in Events
  BY EventTypes, FrameEventsAreEvents
<1>2. Event(type, parts).type = type /\ Event(type, parts).parts = parts
  BY DEF Event
<1>3. ASSUME NEW sought PROVE Sole(events, type, parts, sought)
  BY <1>1, <1>2, PiecesOne DEF Sole
<1> QED
  BY <1>1, <1>2, <1>3 DEF IsSole

LEMMA SentFacts ==
    ASSUME StreamTypes, NEW f \in FrameRecords
    PROVE  /\ SentBy(f) \in Seq(FrameEvents)
           /\ Pieces(SentBy(f), "text") = IF f.kind = "text" THEN <<Piece>> ELSE <<>>
           /\ Pieces(SentBy(f), "tool")
                = IF f.kind = "tool" \/ (f.kind \in {"delta", "rest"} /\ decoder.tool.named)
                    THEN <<Piece>> ELSE <<>>
           /\ Pieces(SentBy(f), "usage") = <<>>
           /\ \A i \in 1 .. Len(SentBy(f)) : SentBy(f)[i].type = "response" =>
                  f.kind = "completed" /\ SentBy(f)[i].parts = Brought({"text"})
<1>1. /\ <<Piece>> \in Seq(Own) /\ <<>> \in Seq(Own) /\ Brought({"text"}) \in Seq(Own)
      /\ <<Piece>> # <<>> /\ <<Piece>>[1] = Piece
  BY PieceIsOwn, BroughtType, EmptySeq
<1>2. CASE f.kind \in {"text", "tool"}
  <2>1. SentBy(f) = <<Event(f.kind, <<Piece>>)>>
    BY <1>2 DEF SentBy
  <2>2. IsSole(SentBy(f), f.kind, <<Piece>>)
    BY <1>1, <1>2, <2>1, PiecesOfEvent
  <2> QED
    BY <1>1, <1>2, <2>2 DEF IsSole, Sole
<1>3. CASE f.kind = "error"
  <2>1. SentBy(f) = <<Event("error", <<>>)>>
    BY <1>3 DEF SentBy
  <2>2. IsSole(SentBy(f), "error", <<>>)
    BY <1>1, <1>3, <2>1, PiecesOfEvent
  <2> QED
    BY <1>1, <1>3, <2>2 DEF IsSole, Sole
<1>4. CASE f.kind = "completed"
  <2>1. SentBy(f) = <<Event("response", Brought({"text"}))>>
    BY <1>4 DEF SentBy
  <2>2. IsSole(SentBy(f), "response", Brought({"text"}))
    BY <1>1, <1>4, <2>1, PiecesOfEvent
  <2> QED
    BY <1>1, <1>4, <2>2 DEF IsSole, Sole
<1>5. CASE f.kind \in {"added", "filled"} \/ (f.kind = "done" /\ decoder.tool.named)
  <2>1. SentBy(f) = <<Event("tool", <<>>)>>
    BY <1>5 DEF SentBy
  <2>2. IsSole(SentBy(f), "tool", <<>>)
    BY <1>1, <1>5, <2>1, PiecesOfEvent
  <2> QED
    BY <1>1, <1>5, <2>2 DEF IsSole, Sole
<1>6. CASE f.kind \in {"delta", "rest"} /\ decoder.tool.named
  <2>1. SentBy(f) = <<Event("tool", <<Piece>>)>>
    BY <1>6 DEF SentBy
  <2>2. IsSole(SentBy(f), "tool", <<Piece>>)
    BY <1>1, <1>6, <2>1, PiecesOfEvent
  <2> QED
    BY <1>1, <1>6, <2>2 DEF IsSole, Sole
<1>7. CASE /\ f.kind \notin {"text", "tool", "error", "completed", "added", "filled"}
           /\ f.kind \in {"delta", "rest", "done"} => ~decoder.tool.named
  <2>1. SentBy(f) = <<>>
    BY <1>7 DEF SentBy
  <2> QED
    BY <1>7, <2>1, PiecesEmpty, EmptySeq
<1> QED
  BY <1>2, <1>3, <1>4, <1>5, <1>6, <1>7

LEMMA EventsFacts ==
    ASSUME StreamTypes, decoder.tool.emitted = Len(decoder.tool.args), NEW f \in FrameRecords
    PROVE  /\ EventsOf(f) \in Seq(FrameEvents)
           /\ Pieces(EventsOf(f), "text")
                = IF ~decoder.terminal /\ f.kind = "text" THEN <<Piece>> ELSE <<>>
           /\ Pieces(EventsOf(f), "tool")
                = IF ~decoder.terminal
                     /\ (f.kind = "tool" \/ (f.kind \in {"delta", "rest"} /\ decoder.tool.named))
                    THEN <<Piece>> ELSE <<>>
           /\ Pieces(EventsOf(f), "usage")
                = IF ~decoder.terminal /\ f.usage THEN <<Piece>> ELSE <<>>
           /\ \A i \in 1 .. Len(EventsOf(f)) : EventsOf(f)[i].type = "response" =>
                  /\ ~decoder.terminal /\ f.kind = "completed"
                  /\ EventsOf(f)[i].parts = Brought({"text"})
<1>1. CASE decoder.terminal
  <2>1. EventsOf(f) = <<>>
    BY <1>1, EventsAre
  <2> QED
    BY <1>1, <2>1, PiecesEmpty, EmptySeq
<1>2. CASE ~decoder.terminal
  <2> DEFINE u == UsageEvents(f)
             v == SentBy(f)
  <2>1. EventsOf(f) = u \o v
    BY <1>2, EventsAre
  <2>2. /\ u \in Seq(FrameEvents)
        /\ Pieces(u, "usage") = IF f.usage THEN <<Piece>> ELSE <<>>
        /\ Pieces(u, "text") = <<>> /\ Pieces(u, "tool") = <<>>
        /\ \A i \in 1 .. Len(u) : u[i].type # "response"
    <3>1. CASE f.usage
      <4>1. u = <<Event("usage", <<Piece>>)>>
        BY <3>1 DEF UsageEvents
      <4>2. IsSole(u, "usage", <<Piece>>)
        BY <4>1, PieceIsOwn, PiecesOfEvent
      <4> QED
        BY <3>1, <4>2, PieceIsOwn DEF IsSole, Sole
    <3>2. CASE ~f.usage
      <4>1. u = <<>>
        BY <3>2 DEF UsageEvents
      <4> QED
        BY <3>2, <4>1, PiecesEmpty, EmptySeq
    <3> QED
      BY <3>1, <3>2
  <2>3. /\ v \in Seq(FrameEvents)
        /\ Pieces(v, "text") = IF f.kind = "text" THEN <<Piece>> ELSE <<>>
        /\ Pieces(v, "tool")
             = IF f.kind = "tool" \/ (f.kind \in {"delta", "rest"} /\ decoder.tool.named)
                 THEN <<Piece>> ELSE <<>>
        /\ Pieces(v, "usage") = <<>>
        /\ \A i \in 1 .. Len(v) : v[i].type = "response" =>
               f.kind = "completed" /\ v[i].parts = Brought({"text"})
    BY SentFacts
  <2> HIDE DEF u, v
  <2>4. u \in Seq(Events) /\ v \in Seq(Events)
    BY <2>2, <2>3, FrameEventsAreEvents, SeqMonotonic
  <2>5. \A type : Pieces(u \o v, type) = Pieces(u, type) \o Pieces(v, type)
    BY <2>4, PiecesConcat
  <2>6. <<Piece>> \o <<>> = <<Piece>> /\ <<>> \o <<Piece>> = <<Piece>> /\ <<>> \o <<>> = <<>>
    BY PieceIsOwn, ConcatEmptySeq, EmptySeq
  <2>7. u \o v \in Seq(FrameEvents)
    BY <2>2, <2>3, ConcatProperties
  <2>8. ASSUME NEW i \in 1 .. Len(u \o v), (u \o v)[i].type = "response"
        PROVE  f.kind = "completed" /\ (u \o v)[i].parts = Brought({"text"})
    <3>1. /\ (u \o v)[i] = IF i <= Len(u) THEN u[i] ELSE v[i - Len(u)]
          /\ Len(u \o v) = Len(u) + Len(v) /\ Len(u) \in Nat /\ Len(v) \in Nat
      BY <2>2, <2>3, ConcatProperties, LenProperties
    <3>2. ~(i \in 1 .. Len(u))
      BY <2>2, <2>8, <3>1
    <3>3. i - Len(u) \in 1 .. Len(v) /\ (u \o v)[i] = v[i - Len(u)]
      BY <3>1, <3>2
    <3> QED
      BY <2>3, <2>8, <3>3
  <2>9. /\ Pieces(u \o v, "text") = IF f.kind = "text" THEN <<Piece>> ELSE <<>>
        /\ Pieces(u \o v, "tool")
             = IF f.kind = "tool" \/ (f.kind \in {"delta", "rest"} /\ decoder.tool.named)
                 THEN <<Piece>> ELSE <<>>
        /\ Pieces(u \o v, "usage") = IF f.usage THEN <<Piece>> ELSE <<>>
    BY <2>2, <2>3, <2>5, <2>6
  <2> QED
    BY <1>2, <2>1, <2>7, <2>8, <2>9
<1> QED
  BY <1>1, <1>2

-----------------------------------------------------------------------------
(* A frame is read: the decoder still follows, and events that brought what was read *)
(* bring it with those of the frame.                                                  *)
LEMMA FrameCases ==
    ASSUME NEW f \in Frames
    PROVE  /\ decoder.terminal => f.kind = "text" /\ ~f.usage
           /\ answer.format # "responses" =>
                  f.kind \notin {"delta", "rest", "done", "completed", "bare", "added", "filled"}
           /\ answer.format = "responses" => f.kind \notin {"tool", "end"}
           /\ f.kind \in {"added", "filled"} => decoder.tool = NoTool
BY DEF Frames, Frame

ReadsOn(f) ==
    /\ f \in Frames /\ body' = Append(body, f)
    /\ answer'.no = answer.no /\ answer'.format = answer.format
    /\ decoder'.tool = IF decoder.terminal THEN decoder.tool ELSE ToolAfter(f)
    /\ decoder'.terminal = (decoder.terminal \/ f.kind \in Terminals)

LEMMA AnnouncedMore ==
    ASSUME StreamTypes, NEW f, ReadsOn(f)
    PROVE  Announced' <=> Announced \/ f.kind = "added"
<1>1. f \in FrameRecords /\ body \in Seq(FrameRecords) /\ body' = Append(body, f)
  BY FramesAreFrames DEF ReadsOn, StreamTypes, FrameRecords
<1>2. /\ Len(body) \in Nat /\ Len(body') = Len(body) + 1 /\ body'[Len(body) + 1] = f
      /\ \A i \in 1 .. Len(body) : body'[i] = body[i]
  BY <1>1, AppendProperties, LenProperties
<1>3. ASSUME NEW i \in 1 .. Len(body) + 1, body'[i].kind = "added"
      PROVE  Announced \/ f.kind = "added"
  <2>1. i = Len(body) + 1 \/ i \in 1 .. Len(body)
    BY <1>2
  <2> QED
    BY <1>2, <1>3, <2>1 DEF Announced
<1>4. ASSUME NEW i \in 1 .. Len(body), body[i].kind = "added" PROVE Announced'
  <2>1. i \in 1 .. Len(body') /\ body'[i].kind = "added"
    BY <1>2, <1>4
  <2> QED
    BY <2>1 DEF Announced
<1>5. f.kind = "added" => Announced'
  <2>1. Len(body) + 1 \in 1 .. Len(body')
    BY <1>2
  <2> QED
    BY <1>2, <2>1 DEF Announced
<1>6. answer.format # "responses" => Announced /\ Announced'
  BY DEF Announced, ReadsOn
<1> QED
  BY <1>2, <1>3, <1>4, <1>5, <1>6 DEF Announced, ReadsOn

LEMMA DecoderFollows ==
    ASSUME StreamTypes, Follows, NEW f, ReadsOn(f)
    PROVE  Follows'
<1>1. f \in FrameRecords /\ f \in Frames
  BY FramesAreFrames DEF ReadsOn
<1>2. /\ Over' <=> Over \/ f.kind \in Terminals
      /\ ToolPieces' = IF Over \/ f.kind \notin {"tool", "delta", "rest"} THEN ToolPieces
                       ELSE Append(ToolPieces, Piece)
  BY <1>1, BroughtMore DEF ToolPieces, FrameRecords, ReadsOn
<1>3. decoder'.terminal <=> Over'
  BY <1>2 DEF Follows, ReadsOn
<1>4. Announced' <=> Announced \/ f.kind = "added"
  BY AnnouncedMore
<1>5. CASE decoder.terminal
  BY <1>1, <1>2, <1>3, <1>4, <1>5, FrameCases DEF Follows, ReadsOn
<1>6. CASE ~decoder.terminal
  <2> DEFINE tool == decoder.tool
             more == Append(tool.args, Piece)
  <2>1. /\ tool \in [named : BOOLEAN, args : Seq(Own), emitted : Nat]
        /\ decoder'.tool = ToolAfter(f)
    BY <1>6 DEF StreamTypes, ReadsOn
  <2>2. ToolAfter(f).emitted = Len(ToolAfter(f).args)
    BY <1>1, EventsAre DEF Follows
  <2>3. more # <<>>
    BY <2>1, PieceIsOwn, AppendProperties
  <2>4. /\ f.kind \in {"added", "filled"} => ToolAfter(f).named
        /\ f.kind \in {"delta", "rest"} => ToolAfter(f).named = tool.named /\ ToolAfter(f).args = more
        /\ f.kind = "filled" => ToolAfter(f).args = more
        /\ f.kind \notin {"added", "filled", "delta", "rest"} => ToolAfter(f) = tool
    BY <2>1 DEF ToolAfter
  <2>5. NoTool.named = FALSE /\ NoTool.args = <<>>
    BY DEF NoTool
  <2> HIDE DEF tool, more
  <2>6. answer'.format # "responses" => decoder'.tool = NoTool
    BY <1>1, <2>1, <2>4, FrameCases DEF Follows, ReadsOn, tool
  <2>7. answer'.format = "responses" /\ Announced' => decoder'.tool.named
    <3> SUFFICES ASSUME answer'.format = "responses", Announced' PROVE ToolAfter(f).named
      BY <2>1
    <3>1. CASE f.kind \in {"added", "filled"}
      BY <2>4, <3>1
    <3>2. CASE f.kind \notin {"added", "filled"}
      <4>1. tool.named
        BY <1>4, <3>2 DEF Follows, ReadsOn, tool
      <4> QED
        BY <2>4, <3>2, <4>1
    <3> QED
      BY <3>1, <3>2
  <2>8. answer'.format = "responses" /\ decoder'.tool = NoTool => ToolPieces' = <<>>
    <3> SUFFICES ASSUME answer'.format = "responses", ToolAfter(f) = NoTool PROVE ToolPieces' = <<>>
      BY <2>1
    <3>1. f.kind \notin {"added", "filled", "delta", "rest"}
      BY <2>3, <2>4, <2>5
    <3>2. f.kind # "tool" /\ tool = NoTool /\ answer.format = "responses"
      BY <1>1, <2>4, <3>1, FrameCases DEF ReadsOn
    <3> QED
      BY <1>2, <3>1, <3>2 DEF Follows, tool
  <2> QED
    BY <1>3, <2>1, <2>2, <2>6, <2>7, <2>8 DEF Follows
<1> QED
  BY <1>5, <1>6

LEMMA EventsPass ==
    ASSUME StreamTypes, Follows, NEW f, ReadsOn(f), NEW events, Passed(events),
           NEW later,
           Pieces(later, "text") = Pieces(events, "text") \o Pieces(EventsOf(f), "text"),
           Pieces(later, "tool") = Pieces(events, "tool") \o Pieces(EventsOf(f), "tool"),
           Pieces(events, "tool") \in Seq(Own)
    PROVE  /\ Pieces(later, "text") = Brought({"text"})'
           /\ Announced' => Pieces(later, "tool") = ToolPieces'
           /\ answer'.format = "responses" /\ decoder'.tool = NoTool => Pieces(later, "tool") = <<>>
<1>1. f \in FrameRecords /\ f \in Frames
  BY FramesAreFrames DEF ReadsOn
<1>2. /\ Brought({"text"})' = IF Over \/ f.kind # "text" THEN Brought({"text"})
                              ELSE Append(Brought({"text"}), Piece)
      /\ ToolPieces' = IF Over \/ f.kind \notin {"tool", "delta", "rest"} THEN ToolPieces
                       ELSE Append(ToolPieces, Piece)
  BY <1>1, BroughtMore DEF ToolPieces, FrameRecords, ReadsOn
<1>3. Announced' <=> Announced \/ f.kind = "added"
  BY AnnouncedMore
<1>4. /\ Pieces(EventsOf(f), "text") = IF ~Over /\ f.kind = "text" THEN <<Piece>> ELSE <<>>
      /\ Pieces(EventsOf(f), "tool")
           = IF ~Over /\ (f.kind = "tool" \/ (f.kind \in {"delta", "rest"} /\ decoder.tool.named))
               THEN <<Piece>> ELSE <<>>
  BY <1>1, EventsFacts DEF Follows
<1>5. /\ \A s \in Seq(Own) : s \o <<Piece>> = Append(s, Piece)
      /\ \A s \in Seq(Own) : s \o <<>> = s
  BY PieceIsOwn, AppendIsConcat, ConcatEmptySeq
<1>6. Brought({"text"}) \in Seq(Own) /\ ToolPieces \in Seq(Own)
  BY BroughtType DEF ToolPieces
<1>7. Pieces(later, "text") = Brought({"text"})'
  BY <1>2, <1>4, <1>5, <1>6 DEF Passed
<1>8. CASE Over
  <2>1. f.kind # "added" /\ decoder'.tool = decoder.tool /\ answer'.format = answer.format
    BY <1>1, <1>8, FrameCases DEF Follows, ReadsOn
  <2>2. Pieces(later, "tool") = Pieces(events, "tool")
    BY <1>4, <1>5, <1>8
  <2> QED
    BY <1>2, <1>3, <1>7, <1>8, <2>1, <2>2 DEF Passed
<1>9. CASE ~Over
  <2>1. Announced => (f.kind \in {"delta", "rest"} => decoder.tool.named)
    BY <1>1, FrameCases DEF Follows
  <2>2. ASSUME Announced PROVE Pieces(later, "tool") = ToolPieces'
    BY <1>2, <1>4, <1>5, <1>9, <2>1, <2>2 DEF Passed
  <2>3. ASSUME ~Announced, f.kind = "added" PROVE Pieces(later, "tool") = ToolPieces'
    <3>1. answer.format = "responses" /\ decoder.tool = NoTool
      BY <1>1, <2>3, FrameCases DEF Announced
    <3>2. Pieces(events, "tool") = <<>> /\ ToolPieces = <<>>
      BY <3>1 DEF Passed, Follows
    <3> QED
      BY <1>2, <1>4, <1>5, <2>3, <3>2
  <2>4. ASSUME answer'.format = "responses", decoder'.tool = NoTool
        PROVE  Pieces(later, "tool") = <<>>
    <3>1. ToolAfter(f) = NoTool /\ answer.format = "responses"
      BY <1>9, <2>4 DEF ReadsOn, Follows
    <3>2. NoTool.named = FALSE /\ NoTool.args = <<>>
      BY DEF NoTool
    <3>3. Append(decoder.tool.args, Piece) # <<>>
      BY ZenonT(60), SMTT(60), PieceIsOwn, AppendProperties DEF StreamTypes
    <3>4. decoder.tool \in [named : BOOLEAN, args : Seq(Own), emitted : Nat]
      BY DEF StreamTypes
    <3>5. f.kind \notin {"added", "filled", "delta", "rest"} /\ decoder.tool = NoTool
      BY <3>1, <3>2, <3>3, <3>4 DEF ToolAfter
    <3>6. f.kind # "tool"
      BY <1>1, <3>1, FrameCases
    <3>7. Pieces(events, "tool") = <<>>
      BY <3>1, <3>5 DEF Passed
    <3> QED
      BY <1>4, <1>5, <3>5, <3>6, <3>7
  <2> QED
    BY <1>3, <1>7, <2>2, <2>3, <2>4
<1> QED
  BY <1>8, <1>9

-----------------------------------------------------------------------------
(* What the writer sends. *)
LEMMA StreamEventsAreEvents == StreamEvents \subseteq OwnEvents /\ OwnEvents \subseteq Events
BY DEF StreamEvents, OwnEvents

LEMMA EventIsOwn ==
    ASSUME StreamTypes, NEW parts \in Seq(Own),
           NEW type \in {"text", "tool", "usage", "error", "response", "open", "close", "terminal",
                         "json", "refusal"}
    PROVE  /\ Event(type, parts) \in OwnEvents
           /\ Event(type, parts).type = type /\ Event(type, parts).parts = parts
<1>1. parts \in Seq(Nat \X Nat)
  BY SeqMonotonic DEF Own, StreamTypes
<1> QED
  BY <1>1 DEF Event, OwnEvents, Events

(* The frames that open a stream. *)
LEMMA OpeningFacts ==
    ASSUME StreamTypes
    PROVE  /\ Opening \in Seq(StreamEvents)
           /\ \A type \in {"text", "tool"} : Pieces(Opening, type) = <<>>
           /\ Len(Picked(Opening, OfType("open"))) \in 0 .. 1
<1>1. CASE client.format = "chat"
  <2>1. Opening = <<>>
    BY <1>1 DEF Opening
  <2> QED
    BY <2>1, PiecesEmpty, PickedEmpty, EmptySeq
<1>2. CASE client.format # "chat"
  <2> DEFINE open == Event("open", <<>>)
  <2>1. Opening = <<open>>
    BY <1>2 DEF Opening
  <2>2. open \in OwnEvents /\ open.type = "open"
    BY ZenonT(60), SMTT(60), EventIsOwn, EmptySeq
  <2> HIDE DEF open
  <2>3. open \in StreamEvents /\ open \in Events
    BY <2>2, StreamEventsAreEvents DEF StreamEvents
  <2>4. Picked(<<open>>, OfType("open")) = <<open>> \/ Picked(<<open>>, OfType("open")) = <<>>
    BY PickedOne
  <2>5. Len(<<open>>) = 1 /\ Len(<<>>) = 0
    OBVIOUS
  <2>6. \A type \in {"text", "tool"} : Pieces(<<open>>, type) = <<>>
    BY <2>2, <2>3, PiecesOne
  <2>7. <<open>> \in Seq(StreamEvents)
    BY <2>3
  <2>8. Len(Picked(<<open>>, OfType("open"))) \in 0 .. 1
    BY <2>4, <2>5
  <2> QED
    BY <2>1, <2>6, <2>7, <2>8
<1> QED
  BY <1>1, <1>2

LEMMA WrittenFacts ==
    ASSUME StreamTypes, NEW events \in Seq(FrameEvents)
    PROVE  /\ Written(events) \in Seq(StreamEvents)
           /\ \A type \in {"text", "tool"} : Pieces(Written(events), type) = Pieces(events, type)
           /\ Len(Picked(Written(events), OfType("open"))) \in 0 .. 1
           /\ writer.committed \/ events = <<>> =>
                  Len(Picked(Written(events), OfType("open"))) = 0
           /\ events = <<>> => Written(events) = <<>>
<1> DEFINE opening == IF writer.committed \/ events = <<>> THEN <<>> ELSE Opening
           passed == Picked(events, Forwarded)
<1>1. /\ opening \in Seq(StreamEvents)
      /\ \A type \in {"text", "tool"} : Pieces(opening, type) = <<>>
      /\ Len(Picked(opening, OfType("open"))) \in 0 .. 1
      /\ writer.committed \/ events = <<>> => Len(Picked(opening, OfType("open"))) = 0
  <2>1. CASE writer.committed \/ events = <<>>
    <3>1. opening = <<>>
      BY <2>1
    <3> HIDE DEF opening
    <3>2. Picked(opening, OfType("open")) = <<>> /\ Len(<<>>) = 0
      BY <3>1, PickedEmpty
    <3>3. \A type \in {"text", "tool"} : Pieces(opening, type) = <<>>
      BY <3>1, PiecesEmpty
    <3>4. opening \in Seq(StreamEvents)
      BY <3>1, EmptySeq
    <3> QED
      BY <3>2, <3>3, <3>4
  <2>2. CASE ~(writer.committed \/ events = <<>>)
    BY <2>2, OpeningFacts
  <2> QED
    BY <2>1, <2>2
<1>2. passed \in Seq(FrameEvents \cap Forwarded)
  BY PickedType
<1>3. FrameEvents \cap Forwarded \subseteq StreamEvents
  BY DEF FrameEvents, Forwarded, StreamEvents
<1>4. passed \in Seq(StreamEvents) /\ passed \in Seq(FrameEvents)
  BY <1>2, <1>3, PickedType, SeqMonotonic
<1>5. \A type \in {"text", "tool"} : Pieces(passed, type) = Pieces(events, type)
  BY PiecesForwarded, FrameEventsAreEvents, SeqMonotonic
<1>6. Picked(passed, OfType("open")) = <<>>
  BY <1>4, PickedOfType DEF FrameEvents
<1>7. Written(events) = opening \o passed
  BY DEF Written
<1>8. events = <<>> => passed = <<>> /\ opening = <<>>
  BY PickedEmpty
<1> HIDE DEF opening, passed
<1>9. opening \o passed \in Seq(StreamEvents)
  BY <1>1, <1>4, ConcatProperties
<1>10. opening \in Seq(Events) /\ passed \in Seq(Events)
  BY <1>1, <1>4, StreamEventsAreEvents, SeqMonotonic
<1>11. ASSUME NEW type \in {"text", "tool"}
       PROVE  Pieces(opening \o passed, type) = Pieces(events, type)
  <2>1. Pieces(opening \o passed, type) = <<>> \o Pieces(passed, type)
    BY ZenonT(60), SMTT(60), <1>1, <1>10, PiecesConcat
  <2>2. Pieces(passed, type) \in Seq(Own)
    BY <1>4, StreamEventsAreEvents, SeqMonotonic, PiecesType
  <2> QED
    BY <1>5, <2>1, <2>2, ConcatEmptySeq
<1>12. Picked(opening \o passed, OfType("open")) = Picked(opening, OfType("open"))
  <2>1. Picked(opening \o passed, OfType("open"))
          = Picked(opening, OfType("open")) \o Picked(passed, OfType("open"))
    BY <1>10, PickedConcat
  <2>2. Picked(opening, OfType("open")) \in Seq(Events)
    BY <1>10, PickedType
  <2> QED
    BY <1>6, <2>1, <2>2, ConcatEmptySeq
<1>13. events = <<>> => opening \o passed = <<>>
  BY <1>8, EmptySeq, ConcatEmptySeq
<1> QED
  BY <1>1, <1>7, <1>9, <1>11, <1>12, <1>13

(* What the writer keeps. *)
LEMMA WriterFacts ==
    ASSUME StreamTypes, NEW events \in Seq(FrameEvents)
    PROVE  /\ WriterAfter(events) \in [committed : BOOLEAN, text : Seq(Own), response : Seq(Own)]
           /\ WriterAfter(events).committed = (writer.committed \/ events # <<>>)
           /\ WriterAfter(events).text = IF client.format = "responses"
                                         THEN writer.text \o Pieces(events, "text") ELSE <<>>
           /\ \/ WriterAfter(events).response = writer.response
              \/ \E i \in 1 .. Len(events) : /\ events[i].type = "response"
                                             /\ WriterAfter(events).response = events[i].parts
<1> DEFINE responses == Picked(events, OfType("response"))
           text == IF client.format = "responses" THEN writer.text \o Pieces(events, "text") ELSE <<>>
           response == IF responses = <<>> THEN writer.response ELSE responses[1].parts
<1>1. WriterAfter(events)
        = [committed |-> writer.committed \/ events # <<>>, text |-> text, response |-> response]
  BY DEF WriterAfter
<1>2. writer.committed \in BOOLEAN /\ writer.text \in Seq(Own) /\ writer.response \in Seq(Own)
  BY DEF StreamTypes
<1>3. text \in Seq(Own)
  <2>1. Pieces(events, "text") \in Seq(Own)
    BY PiecesType, FrameEventsAreEvents, SeqMonotonic
  <2> QED
    BY <1>2, <2>1, ConcatProperties, EmptySeq
<1>4. \/ response = writer.response
      \/ \E i \in 1 .. Len(events) : events[i].type = "response" /\ response = events[i].parts
  <2> DEFINE E == {events[i] : i \in 1 .. Len(events)}
  <2>1. CASE responses = <<>>
    BY <2>1
  <2>2. CASE responses # <<>>
    <3>1. events \in Seq(E)
      BY LenProperties
    <3>2. responses \in Seq(E \cap OfType("response"))
      BY <3>1, PickedType
    <3>3. responses[1] \in E \cap OfType("response")
      BY <2>2, <3>2, EmptySeq, ElementOfSeq
    <3> QED
      BY <2>2, <3>3 DEF OfType
  <2> QED
    BY <2>1, <2>2
<1>5. response \in Seq(Own)
  <2>1. ASSUME NEW i \in 1 .. Len(events) PROVE events[i].parts \in Seq(Own)
    BY ElementOfSeq DEF FrameEvents, OwnEvents
  <2> QED
    BY <1>2, <1>4, <2>1
<1> HIDE DEF text, response
<1> QED
  BY <1>1, <1>2, <1>3, <1>4, <1>5 DEF text

-----------------------------------------------------------------------------
(* What the client takes. *)
Takes(now, s, frames, n) ==
    /\ now \in Seq(StreamEvents)
    /\ \A type : Begins(Pieces(now, type), Pieces(s \o frames, type))
    /\ Len(Picked(now, OfType("open"))) \in Nat
    /\ Len(Picked(now, OfType("open")))
         \leq Len(Picked(s, OfType("open"))) + Len(Picked(frames, OfType("open")))
    /\ n = Len(frames) => now = s \o frames
    /\ n = 0 => now = s

LEMMA Delivered ==
    ASSUME StreamTypes, NEW s \in Seq(StreamEvents), NEW frames \in Seq(StreamEvents),
           NEW n \in 0 .. Len(frames), NEW now, now = s \o SubSeq(frames, 1, n)
    PROVE  Takes(now, s, frames, n)
<1>1. SubSeq(frames, 1, n) \in Seq(StreamEvents)
  BY Parted
<1>2. now \in Seq(StreamEvents)
  BY <1>1, ConcatProperties
<1>3. s \in Seq(OwnEvents) /\ frames \in Seq(OwnEvents)
  BY StreamEventsAreEvents, SeqMonotonic
<1>4. \A type : Begins(Pieces(now, type), Pieces(s \o frames, type))
  BY <1>3, TakenBegins
<1>5. /\ Len(Picked(now, OfType("open"))) \in Nat
      /\ Len(Picked(now, OfType("open")))
           \leq Len(Picked(s, OfType("open"))) + Len(Picked(frames, OfType("open")))
  BY <1>3, TakenCount
<1>6. n = Len(frames) => SubSeq(frames, 1, n) = frames
  BY SubSeqFull
<1>7. n = 0 => SubSeq(frames, 1, n) = <<>>
  BY SubSeqEmpty
<1>8. s \o <<>> = s
  BY ConcatEmptySeq
<1> QED
  BY <1>2, <1>4, <1>5, <1>6, <1>7, <1>8 DEF Takes

(* No other event than those of a stream that goes on. *)
LEMMA GoesOn ==
    ASSUME NEW s \in Seq(StreamEvents), NEW type \in {"terminal", "refusal", "json", "response"}
    PROVE  Picked(s, OfType(type)) = <<>> /\ Len(Picked(s, OfType(type))) = 0
<1>1. Picked(s, OfType(type)) = <<>>
  BY PickedOfType DEF StreamEvents
<1> QED
  BY <1>1, EmptySeq

(* A stream that ends: the frames before the terminal one, and the terminal one. *)
EndsWith(now, s, parts) ==
    /\ now \in Seq(OwnEvents)
    /\ \A type \in {"text", "tool"} : Pieces(now, type) = Pieces(s, type)
    /\ Picked(now, OfType("open")) = Picked(s, OfType("open"))
    /\ Picked(now, OfType("refusal")) = <<>> /\ Picked(now, OfType("json")) = <<>>
    /\ Len(Picked(now, OfType("terminal"))) = 1
    /\ now[Len(now)].type = "terminal" /\ now[Len(now)].parts = parts

LEMMA TerminalFacts ==
    ASSUME StreamTypes, NEW s \in Seq(StreamEvents), NEW parts \in Seq(Own),
           NEW now, now = Append(s, Event("terminal", parts))
    PROVE  EndsWith(now, s, parts)
<1> DEFINE e == Event("terminal", parts)
<1>0. now = Append(s, e)
  OBVIOUS
<1>1. e \in OwnEvents /\ e.type = "terminal" /\ e.parts = parts
  BY EventIsOwn
<1>2. s \in Seq(OwnEvents) /\ s \in Seq(Events) /\ e \in Events
  BY <1>1, StreamEventsAreEvents, SeqMonotonic
<1> HIDE DEF e
<1>3. now \in Seq(OwnEvents) /\ now[Len(now)] = e
  BY <1>0, <1>1, <1>2, AppendProperties, LenProperties
<1>4. ASSUME NEW type PROVE Picked(now, OfType(type)) = IF type = "terminal" THEN Append(Picked(s, OfType(type)), e)
                                                       ELSE Picked(s, OfType(type))
  <2>1. Picked(now, OfType(type)) = IF e \in OfType(type) THEN Append(Picked(s, OfType(type)), e)
                                  ELSE Picked(s, OfType(type))
    BY <1>0, <1>2, PickedAppend
  <2>2. e \in OfType(type) <=> type = "terminal"
    BY <1>1, <1>2 DEF OfType
  <2> QED
    BY <2>1, <2>2
<1>5. ASSUME NEW type \in {"text", "tool"} PROVE Pieces(now, type) = Pieces(s, type)
  <2>1. Picked(now, With(type)) = IF e \in With(type) THEN Append(Picked(s, With(type)), e)
                                ELSE Picked(s, With(type))
    BY <1>0, <1>2, PickedAppend
  <2>2. e \notin With(type)
    BY <1>1 DEF With, OfType
  <2> QED
    BY <2>1, <2>2, PiecesAre
<1>6. Len(Append(<<>>, e)) = 1
  BY EmptySeq, AppendProperties
<1>7. Picked(s, OfType("terminal")) = <<>> /\ Picked(s, OfType("refusal")) = <<>> /\ Picked(s, OfType("json")) = <<>>
  BY GoesOn
<1>8. Len(Picked(now, OfType("terminal"))) = 1
  BY <1>4, <1>6, <1>7
<1>9. Picked(now, OfType("open")) = Picked(s, OfType("open")) /\ Picked(now, OfType("refusal")) = <<>>
      /\ Picked(now, OfType("json")) = <<>>
  BY <1>4, <1>7
<1>10. now[Len(now)].type = "terminal" /\ now[Len(now)].parts = parts
  BY <1>1, <1>3
<1> QED
  BY <1>3, <1>5, <1>8, <1>9, <1>10 DEF EndsWith

(* The frames that StreamWriter.End sends after others. *)
FinalParts(w) == IF client.format # "responses" THEN <<>>
                 ELSE IF w.response = <<>> THEN w.text ELSE w.response

Ends(now, s, front, w, whole) ==
    /\ now \in Seq(OwnEvents)
    /\ \A type \in {"text", "tool"} : Begins(Pieces(now, type), Pieces(s \o front, type))
    /\ Len(Picked(now, OfType("open"))) \in Nat
    /\ Len(Picked(now, OfType("open")))
         \leq Len(Picked(s, OfType("open"))) + Len(Picked(front, OfType("open")))
    /\ Len(Picked(now, OfType("refusal"))) = 0 /\ Len(Picked(now, OfType("json"))) = 0
    /\ ~whole => now \in Seq(StreamEvents)
    /\ whole => /\ \A type \in {"text", "tool"} : Pieces(now, type) = Pieces(s \o front, type)
                /\ Len(Picked(now, OfType("terminal"))) = 1
                /\ now[Len(now)].type = "terminal" /\ now[Len(now)].parts = FinalParts(w)

LEMMA Ended ==
    ASSUME StreamTypes, NEW s \in Seq(StreamEvents), NEW front \in Seq(StreamEvents),
           NEW w \in [committed : BOOLEAN, text : Seq(Own), response : Seq(Own)],
           NEW frames, frames = front \o Closing(w), NEW n \in 0 .. Len(frames),
           NEW now, now = s \o SubSeq(frames, 1, n)
    PROVE  Ends(now, s, front, w, n = Len(frames))
<1> DEFINE close == Event("close", <<>>)
           terminal == Event("terminal", FinalParts(w))
           most == Append(front, close)
<1>1. FinalParts(w) \in Seq(Own)
  BY EmptySeq DEF FinalParts
<1>2. close \in StreamEvents /\ close.type = "close"
  BY ZenonT(60), SMTT(60), EventIsOwn, EmptySeq DEF StreamEvents
<1>3. terminal \in OwnEvents /\ front \in Seq(OwnEvents) /\ close \in OwnEvents
  BY <1>1, <1>2, EventIsOwn, StreamEventsAreEvents, SeqMonotonic
<1>4. Closing(w) = <<close, terminal>>
  BY DEF Closing, FinalParts
<1> HIDE DEF close, terminal
<1>5. /\ most \in Seq(StreamEvents) /\ most \in Seq(OwnEvents)
      /\ frames = Append(most, terminal) /\ Len(frames) = Len(most) + 1 /\ Len(most) \in Nat
  <2>1. most \in Seq(StreamEvents) /\ most \in Seq(OwnEvents) /\ Len(most) \in Nat
    BY <1>2, <1>3, AppendProperties, LenProperties
  <2>2. front \o <<close, terminal>> = Append(Append(front, close), terminal)
    BY <1>3
  <2>3. Len(Append(most, terminal)) = Len(most) + 1
    BY <1>3, <2>1, AppendProperties
  <2> QED
    BY <1>4, <2>1, <2>2, <2>3
<1>6. /\ Pieces(s \o most, "text") = Pieces(s \o front, "text")
      /\ Pieces(s \o most, "tool") = Pieces(s \o front, "tool")
      /\ Picked(most, OfType("open")) = Picked(front, OfType("open"))
      /\ s \o front \in Seq(Events)
  <2>1. /\ s \o most = Append(s \o front, close)
        /\ s \o front \in Seq(Events) /\ front \in Seq(Events) /\ close \in Events
    BY <1>2, ConcatProperties, AppendProperties, StreamEventsAreEvents, SeqMonotonic
  <2>2. ASSUME NEW type \in {"text", "tool"}
        PROVE  Pieces(Append(s \o front, close), type) = Pieces(s \o front, type)
    <3>1. close \notin With(type)
      BY <1>2 DEF With, OfType
    <3>2. Picked(Append(s \o front, close), With(type)) = Picked(s \o front, With(type))
      BY <2>1, <3>1, PickedAppend
    <3> QED
      BY <3>2, PiecesAre
  <2>3. close \notin OfType("open")
    BY <1>2 DEF OfType
  <2>4. Picked(Append(front, close), OfType("open")) = Picked(front, OfType("open"))
    BY <2>1, <2>3, PickedAppend
  <2> QED
    BY <2>1, <2>2, <2>4
<1> HIDE DEF most
<1>7. CASE n # Len(frames)
  <2>1. n \in 0 .. Len(most)
    BY <1>5, <1>7
  <2>2. SubSeq(frames, 1, n) = SubSeq(most, 1, n)
    <3>1. CASE n = 0
      BY <3>1, SubSeqEmpty
    <3>2. CASE n # 0
      <4>1. 1 \in 1 .. Len(most) /\ n \in 1 .. Len(most)
        BY <1>5, <2>1, <3>2
      <4>2. frames = most \o <<terminal>> /\ <<terminal>> \in Seq(OwnEvents)
        BY <1>3, <1>5, AppendIsConcat
      <4> QED
        BY <1>5, <4>1, <4>2, SubSeqOfConcat1
    <3> QED
      BY <3>1, <3>2
  <2>3. now = s \o SubSeq(most, 1, n)
    BY <2>2
  <2>4. /\ now \in Seq(StreamEvents)
        /\ \A type : Begins(Pieces(now, type), Pieces(s \o most, type))
        /\ Len(Picked(now, OfType("open"))) \in Nat
        /\ Len(Picked(now, OfType("open")))
             \leq Len(Picked(s, OfType("open"))) + Len(Picked(most, OfType("open")))
    <3>1. Takes(now, s, most, n)
      BY <1>5, <2>1, <2>3, Delivered
    <3> QED
      BY <3>1 DEF Takes
  <2>5. Len(Picked(now, OfType("refusal"))) = 0 /\ Len(Picked(now, OfType("json"))) = 0
    BY <2>4, GoesOn
  <2>6. now \in Seq(OwnEvents)
    BY <2>4, StreamEventsAreEvents, SeqMonotonic
  <2>7. \A type \in {"text", "tool"} : Begins(Pieces(now, type), Pieces(s \o front, type))
    BY <1>6, <2>4
  <2> QED
    BY <1>6, <1>7, <2>4, <2>5, <2>6, <2>7 DEF Ends
<1>8. CASE n = Len(frames)
  <2>1. SubSeq(frames, 1, n) = frames
    <3>1. frames \in Seq(OwnEvents)
      BY <1>3, <1>5, AppendProperties
    <3> QED
      BY <1>8, <3>1, SubSeqFull
  <2>2. now = Append(s \o most, terminal) /\ s \o most \in Seq(StreamEvents)
    <3>1. now = s \o Append(most, terminal)
      BY <1>5, <2>1
    <3>2. s \o Append(most, terminal) = Append(s \o most, terminal)
      BY <1>3, <1>5
    <3>3. s \o most \in Seq(StreamEvents)
      BY <1>5, ConcatProperties
    <3> QED
      BY <3>1, <3>2, <3>3
  <2> DEFINE base == s \o most
  <2>10. now = Append(base, Event("terminal", FinalParts(w))) /\ base \in Seq(StreamEvents)
    BY <2>2 DEF terminal
  <2>11. base = s \o most
    OBVIOUS
  <2> HIDE DEF base
  <2>3. /\ now \in Seq(OwnEvents)
        /\ \A type \in {"text", "tool"} : Pieces(now, type) = Pieces(base, type)
        /\ Picked(now, OfType("open")) = Picked(base, OfType("open"))
        /\ Picked(now, OfType("refusal")) = <<>> /\ Picked(now, OfType("json")) = <<>>
        /\ Len(Picked(now, OfType("terminal"))) = 1
        /\ now[Len(now)].type = "terminal" /\ now[Len(now)].parts = FinalParts(w)
    <3>1. EndsWith(now, base, FinalParts(w))
      BY <1>1, <2>10, TerminalFacts
    <3> QED
      BY <3>1 DEF EndsWith
  <2>4. /\ Len(Picked(s \o most, OfType("open"))) \in Nat
        /\ Len(Picked(s \o most, OfType("open")))
             \leq Len(Picked(s, OfType("open"))) + Len(Picked(most, OfType("open")))
    <3>1. Picked(s \o most, OfType("open")) = Picked(s, OfType("open")) \o Picked(most, OfType("open"))
      BY ZenonT(60), SMTT(60), <1>5, PickedConcat
    <3>2. /\ Picked(s, OfType("open")) \in Seq(StreamEvents)
          /\ Picked(most, OfType("open")) \in Seq(StreamEvents)
      BY <1>5, PickedType
    <3> QED
      BY <3>1, <3>2, ConcatProperties, LenProperties
  <2>5. \A type \in {"text", "tool"} : Pieces(now, type) = Pieces(s \o front, type)
    BY <1>6, <2>3, <2>11
  <2>6. \A type \in {"text", "tool"} : Begins(Pieces(now, type), Pieces(s \o front, type))
    <3>1. \A type : Pieces(now, type) \in Seq(Own)
      BY <2>3, PiecesType
    <3> QED
      BY <2>5, <3>1, BeginsSame
  <2>7. Len(<<>>) = 0
    OBVIOUS
  <2> QED
    BY <1>6, <1>8, <2>3, <2>4, <2>5, <2>6, <2>7, <2>11 DEF Ends
<1> QED
  BY <1>7, <1>8

-----------------------------------------------------------------------------
(* What a step leaves as it is. *)
LEMMA SameAnswer ==
    ASSUME answer'.no = answer.no
    PROVE  /\ Own' = Own /\ OwnEvents' = OwnEvents
           /\ FrameEvents' = FrameEvents /\ StreamEvents' = StreamEvents
BY DEF Own, OwnEvents, FrameEvents, StreamEvents

LEMMA SameBody ==
    ASSUME body' = body
    PROVE  Read' = Read /\ Over' = Over /\ UsageSeen' = UsageSeen
BY DEF Read, Over, UsageSeen

LEMMA SameBrought ==
    ASSUME body' = body, answer'.no = answer.no
    PROVE  ToolPieces' = ToolPieces /\ Brought({"text"})' = Brought({"text"})
<1>1. Read' = Read
  BY SameBody
<1> QED
  BY <1>1 DEF ToolPieces, Brought

LEMMA SameAnnounced ==
    ASSUME body' = body, answer'.format = answer.format
    PROVE  Announced' <=> Announced
BY DEF Announced

LEMMA Moves ==
    ASSUME StreamTypes, NEW s \in Steps, Goto(s)
    PROVE  /\ answer' \in [no : Nat, format : WireFormats, step : Steps]
           /\ answer'.no = answer.no /\ answer'.format = answer.format /\ answer'.step = s
<1>1. answer \in [no : Nat, format : WireFormats, step : Steps]
  BY DEF StreamTypes
<1> QED
  BY <1>1 DEF Goto

LEMMA Finishes ==
    ASSUME StreamTypes, NEW state \in {"partial", "succeeded", "failed"}, NEW usage \in Nat,
           NEW learned \in BOOLEAN, Finish(state, usage, learned)
    PROVE  /\ answer' \in [no : Nat, format : WireFormats, step : Steps]
           /\ answer'.no = answer.no /\ answer'.format = answer.format /\ answer'.step = "done"
           /\ record' \in [state : {"started", "partial", "succeeded", "failed"}, usage : Nat,
                           learned : BOOLEAN]
           /\ record'.state = state /\ record'.usage = usage /\ record'.learned = learned
<1>1. Goto("done") /\ record' = [state |-> state, usage |-> usage, learned |-> learned]
  BY DEF Finish
<1>2. "done" \in Steps
  BY DEF Steps
<1> QED
  BY <1>1, <1>2, Moves

(* At the end nothing is left to keep but the promise. *)
LEMMA AtTheEnd ==
    ASSUME StreamTypes', answer'.step = "done", InOrderOnce', EndsOnlyWhenWhole', RecordIsTrue'
    PROVE  StreamInv'
BY DEF StreamInv, PhaseInv, DecoderInv, PumpInv, SettleInv, CollectInv, Step

-----------------------------------------------------------------------------
(* The terminal frame that was read. *)
LEMMA Smallest ==
    ASSUME NEW B, B \subseteq Nat, B # {}
    PROVE  \E d \in B : \A i \in B : d \leq i
<1> DEFINE Has(m) == \A C \in SUBSET Nat : (\E c \in C : c \leq m) => \E d \in C : \A i \in C : d \leq i
           S == {m \in Nat : Has(m)}
<1>1. Has(0)
  <2>1. ASSUME NEW C \in SUBSET Nat, NEW c \in C, c \leq 0 PROVE \A i \in C : c \leq i
    <3>1. c = 0
      BY <2>1
    <3> QED
      BY <3>1
  <2> QED
    BY <2>1
<1>2. ASSUME NEW m \in Nat, Has(m) PROVE Has(m + 1)
  <2> SUFFICES ASSUME NEW C \in SUBSET Nat, NEW c \in C, c \leq m + 1
               PROVE  \E d \in C : \A i \in C : d \leq i
    OBVIOUS
  <2>1. CASE \E b \in C : b \leq m
    BY <1>2, <2>1
  <2>2. CASE ~(\E b \in C : b \leq m)
    <3>1. \A i \in C : c \leq i
      BY <2>2
    <3> QED
      BY <3>1
  <2> QED
    BY <2>1, <2>2
<1> HIDE DEF Has
<1>3. 0 \in S /\ \A m \in Nat : m \in S => m + 1 \in S
  BY <1>1, <1>2
<1> HIDE DEF S
<1>4. PICK b \in B : TRUE
  OBVIOUS
<1>5. b \in S
  BY <1>3, <1>4, Induction
<1>6. b \leq b /\ B \in SUBSET Nat
  BY <1>4
<1> QED
  BY <1>4, <1>5, <1>6 DEF S, Has

LEMMA OverIsRead ==
    ASSUME StreamTypes, Over
    PROVE  \E i \in Read : body[i].kind \in Terminals
<1> DEFINE B == {i \in 1 .. Len(body) : body[i].kind \in Terminals}
<1>0. Len(body) \in Nat
  BY LenProperties DEF StreamTypes
<1>1. B \subseteq Nat /\ B # {} /\ Len(body) \in Nat
  BY <1>0 DEF Over
<1>2. PICK d \in B : \A i \in B : d \leq i
  <2> HIDE DEF B
  <2> QED
    BY <1>1, Smallest
<1>3. \A j \in 1 .. d - 1 : body[j].kind \notin Terminals
  <2> SUFFICES ASSUME NEW j \in 1 .. d - 1, body[j].kind \in Terminals PROVE FALSE
    OBVIOUS
  <2>1. j \in B
    BY <1>1, <1>2
  <2> QED
    BY <1>2, <2>1
<1> QED
  BY <1>2, <1>3 DEF Read

LEMMA NothingBrought ==
    ASSUME body = <<>>, NEW kinds
    PROVE  Brought(kinds) = <<>>
<1>1. Numbered(0) \in Seq({}) /\ Len(body) = 0
  BY DEF Numbered
<1>2. Brought(kinds) = Picked(Numbered(0), Wanted(kinds))
  BY <1>1 DEF Brought, Numbered, Wanted
<1> QED
  BY <1>1, <1>2, PickedNone

-----------------------------------------------------------------------------
(* The actions.  A candidate answers. *)
LEMMA AnswerStep ==
    ASSUME StreamInv, Answer
    PROVE  StreamInv'
<1> USE DEF StreamInv
<1>1. PICK format \in WireFormats, s \in {"json", IF client.streams THEN "pump" ELSE "collect"} :
          answer' = [answer EXCEPT !.format = format, !.step = s]
  BY DEF Answer
<1>2. /\ Step("call") /\ client' = client /\ body' = body /\ decoder' = decoder /\ held' = held
      /\ writer' = writer /\ out' = out /\ record' = record
  BY DEF Answer
<1>3. /\ answer \in [no : Nat, format : WireFormats, step : Steps]
      /\ client \in [format : WireFormats, streams : BOOLEAN]
  BY DEF StreamTypes
<1>4. s \in {"json", "pump", "collect"} /\ (s = "pump" => client.streams) /\ (s = "collect" => ~client.streams)
  BY <1>3
<1>5. /\ answer' \in [no : Nat, format : WireFormats, step : Steps]
      /\ answer'.no = answer.no /\ answer'.step = s
  BY <1>1, <1>3, <1>4 DEF Steps
<1>6. /\ body = <<>> /\ held = <<>> /\ decoder = NewDecoder /\ out = <<>> /\ writer = NewWriter
      /\ record.usage = 0 /\ record.state = "started" /\ ~record.learned
  BY <1>2 DEF PhaseInv, Untouched, Step
<1>7. Own' = Own /\ OwnEvents' = OwnEvents /\ FrameEvents' = FrameEvents /\ StreamEvents' = StreamEvents
  BY <1>5, SameAnswer
<1>8. StreamTypes'
  BY <1>2, <1>5, <1>7 DEF StreamTypes
<1>9. PhaseInv'
  BY <1>2, <1>4, <1>5, <1>6 DEF PhaseInv, Untouched, Step
<1>10. Brought({"text"})' = <<>> /\ ToolPieces' = <<>>
  BY <1>2, <1>5, <1>6, NothingBrought, SameBrought DEF ToolPieces
<1>11. ~Over' /\ UsageSeen' = 0
  <2>1. Len(body) = 0
    BY <1>6
  <2>2. ~Over
    BY <2>1 DEF Over
  <2>3. UsageSeen = 0
    BY <2>1, SeenIsLast
  <2> QED
    BY <1>2, <2>2, <2>3, SameBody
<1>12. decoder'.tool = NoTool /\ ~decoder'.terminal /\ ~decoder'.failed /\ decoder'.count = 0
  BY <1>2, <1>6 DEF NewDecoder
<1>13. answer'.format = "responses" => ~Announced'
  BY <1>2, <1>6 DEF Announced
<1>14. NoTool.emitted = Len(NoTool.args)
  BY DEF NoTool
<1>15. Follows'
  BY <1>10, <1>11, <1>12, <1>13, <1>14 DEF Follows
<1>16. Passed(<<>>)'
  BY <1>10, PiecesEmpty DEF Passed
<1>17. Passed(out)' /\ Passed(held)' /\ Observed(held, 0)' = 0
  BY <1>2, <1>6, <1>16, PiecesEmpty DEF Passed, Observed
<1>18. writer'.text = <<>> /\ writer'.response = <<>> /\ record'.usage = 0
  BY <1>2, <1>6 DEF NewWriter
<1>19. Count("open")' \leq 1
  BY <1>2, <1>6, PickedEmpty DEF Count
<1>20. WriterInv'
  BY <1>2, <1>6, <1>10, <1>11, <1>18, <1>19 DEF WriterInv
<1>21. out' \in Seq(StreamEvents') /\ held' \in Seq(FrameEvents') /\ Len(held') = 0
  BY <1>2, <1>6, EmptySeq
<1>22. PumpInv'
  BY <1>12, <1>17, <1>20, <1>21 DEF PumpInv
<1>23. CollectInv'
  BY <1>4, <1>5, <1>11, <1>12, <1>17, <1>21 DEF CollectInv, Step
<1> QED
  BY <1>4, <1>5, <1>8, <1>9, <1>15, <1>22, <1>23 DEF DecoderInv, SettleInv, Step

(* What one frame brings to what was read and to the writer. *)
LEMMA MoreIsBrought ==
    ASSUME StreamTypes, Follows, NEW f, ReadsOn(f)
    PROVE  /\ Brought({"text"})' = Brought({"text"}) \o Pieces(EventsOf(f), "text")
           /\ Over => Brought({"text"})' = Brought({"text"})
           /\ Over' <=> Over \/ f.kind \in Terminals
           /\ \A i \in 1 .. Len(EventsOf(f)) : EventsOf(f)[i].type = "response" =>
                  Over' /\ EventsOf(f)[i].parts = Brought({"text"})'
           /\ EventsOf(f) \in Seq(FrameEvents) /\ f \in FrameRecords
           /\ decoder.terminal => EventsOf(f) = <<>>
<1>1. f \in FrameRecords
  BY FramesAreFrames DEF ReadsOn
<1>2. /\ Brought({"text"})' = IF Over \/ f.kind # "text" THEN Brought({"text"})
                              ELSE Append(Brought({"text"}), Piece)
      /\ Over' <=> Over \/ f.kind \in Terminals
  BY <1>1, BroughtMore DEF FrameRecords, ReadsOn
<1>3. /\ EventsOf(f) \in Seq(FrameEvents)
      /\ Pieces(EventsOf(f), "text") = IF ~Over /\ f.kind = "text" THEN <<Piece>> ELSE <<>>
      /\ \A i \in 1 .. Len(EventsOf(f)) : EventsOf(f)[i].type = "response" =>
             f.kind = "completed" /\ EventsOf(f)[i].parts = Brought({"text"})
  BY <1>1, EventsFacts DEF Follows
<1>4. Brought({"text"}) \in Seq(Own)
  BY BroughtType
<1>5. Brought({"text"})' = Brought({"text"}) \o Pieces(EventsOf(f), "text")
  BY <1>2, <1>3, <1>4, PieceIsOwn, AppendIsConcat, ConcatEmptySeq
<1>6. decoder.terminal => EventsOf(f) = <<>>
  BY DEF EventsOf
<1> QED
  BY <1>1, <1>2, <1>3, <1>5, <1>6 DEF Terminals

LEMMA WriterFollows ==
    ASSUME StreamTypes, StreamTypes', Follows, NEW f, ReadsOn(f), WriterInv,
           client' = client, writer' = WriterAfter(EventsOf(f)),
           record'.usage = Observed(EventsOf(f), record.usage),
           out = <<>> /\ EventsOf(f) = <<>> => out' = <<>>,
           Count("open")' \leq 1
    PROVE  WriterInv'
<1> DEFINE ev == EventsOf(f)
<1>1. /\ Brought({"text"})' = Brought({"text"}) \o Pieces(ev, "text")
      /\ Over => Brought({"text"})' = Brought({"text"})
      /\ Over => Over'
      /\ \A i \in 1 .. Len(ev) : ev[i].type = "response" => Over' /\ ev[i].parts = Brought({"text"})'
      /\ ev \in Seq(FrameEvents) /\ f \in FrameRecords
  BY MoreIsBrought
<1>2. Pieces(ev, "usage") = IF ~Over /\ f.usage THEN <<Piece>> ELSE <<>>
  BY <1>1, EventsFacts DEF Follows
<1>3. writer' = WriterAfter(ev)
  OBVIOUS
<1>4. record'.usage = Observed(ev, record.usage)
  OBVIOUS
<1>5. out = <<>> /\ ev = <<>> => out' = <<>>
  OBVIOUS
<1> HIDE DEF ev
<1>6. /\ writer'.committed = (writer.committed \/ ev # <<>>)
      /\ writer'.text = IF client.format = "responses" THEN writer.text \o Pieces(ev, "text") ELSE <<>>
      /\ \/ writer'.response = writer.response
         \/ \E i \in 1 .. Len(ev) : ev[i].type = "response" /\ writer'.response = ev[i].parts
  BY ZenonT(60), SMTT(60), <1>1, <1>3, WriterFacts
<1>7. writer'.text = IF client'.format = "responses" THEN Brought({"text"})' ELSE <<>>
  BY <1>1, <1>6 DEF WriterInv
<1>8. writer'.response # <<>> => Over' /\ writer'.response = Brought({"text"})'
  BY <1>1, <1>6 DEF WriterInv
<1>9. ~writer'.committed => out' = <<>>
  BY <1>5, <1>6 DEF WriterInv
<1>10. record'.usage = UsageSeen'
  <2>1. UsageSeen' = IF ~Over /\ f.usage THEN Len(body) + 1 ELSE UsageSeen
    BY <1>1, SeenMore DEF ReadsOn, FrameRecords
  <2>2. CASE ~Over /\ f.usage
    <3>1. Observed(ev, record.usage) = Piece[2]
      <4>1. <<Piece>> # <<>> /\ <<Piece>>[Len(<<Piece>>)] = Piece
        BY PieceIsOwn
      <4>2. Pieces(ev, "usage") = <<Piece>>
        BY <1>2, <2>2
      <4> QED
        BY <4>1, <4>2 DEF Observed
    <3> QED
      BY <1>4, <2>1, <2>2, <3>1 DEF Piece
  <2>3. CASE ~(~Over /\ f.usage)
    <3>1. Observed(ev, record.usage) = record.usage
      BY <1>2, <2>3 DEF Observed
    <3> QED
      BY <1>4, <2>1, <2>3, <3>1 DEF WriterInv
  <2> QED
    BY <2>2, <2>3
<1> QED
  BY <1>7, <1>8, <1>9, <1>10 DEF WriterInv

(* A frame of a stream that is passed on. *)
LEMMA PumpFrameStep ==
    ASSUME StreamInv, NEW f \in Frames, PumpFrame(f)
    PROVE  StreamInv'
<1> USE DEF StreamInv
<1> DEFINE ev == EventsOf(f)
           frames == Written(ev)
<1>1. PICK n \in 0 .. Len(frames) :
          /\ out' = out \o SubSeq(frames, 1, n)
          /\ decoder' = DecoderAfter(f, n = Len(frames))
  BY DEF PumpFrame, Sent
<1>2. /\ Step("pump") /\ body' = Append(body, f) /\ writer' = WriterAfter(ev)
      /\ record' = [record EXCEPT !.usage = Observed(ev, @)]
      /\ Goto(IF decoder'.failed THEN "settle" ELSE "pump")
      /\ client' = client /\ held' = held
  BY DEF PumpFrame
<1>3. f \in FrameRecords
  BY FramesAreFrames
<1>4. /\ WriterInv /\ Passed(out) /\ out \in Seq(StreamEvents) /\ ~decoder.failed /\ Follows
      /\ decoder.count > 0 => writer.committed
      /\ held = <<>> /\ client.streams /\ record.state = "started" /\ ~record.learned
  BY <1>2 DEF PumpInv, DecoderInv, PhaseInv, Step
<1>5. ev \in Seq(FrameEvents)
  BY <1>3, <1>4, EventsFacts DEF Follows
<1>6. /\ frames \in Seq(StreamEvents)
      /\ \A type \in {"text", "tool"} : Pieces(frames, type) = Pieces(ev, type)
      /\ Len(Picked(frames, OfType("open"))) \in 0 .. 1
      /\ writer.committed \/ ev = <<>> => Len(Picked(frames, OfType("open"))) = 0
      /\ ev = <<>> => frames = <<>>
  BY <1>5, WrittenFacts
<1>7. Observed(ev, record.usage) \in Nat
  <2>1. Pieces(ev, "usage") = <<>> \/ Pieces(ev, "usage") = <<Piece>>
    BY <1>3, <1>4, EventsFacts DEF Follows
  <2>2. Piece[2] \in Nat
    BY PieceIsOwn DEF Own
  <2> QED
    BY <2>1, <2>2 DEF Observed, StreamTypes
<1> HIDE DEF frames
<1>8. /\ answer' \in [no : Nat, format : WireFormats, step : Steps]
      /\ answer'.no = answer.no /\ answer'.format = answer.format
      /\ answer'.step = IF decoder'.failed THEN "settle" ELSE "pump"
  BY <1>2, Moves DEF Steps
<1>9. decoder'.failed \in BOOLEAN /\ decoder' \in
         [count : Nat, terminal : BOOLEAN, failed : BOOLEAN,
          tool : [named : BOOLEAN, args : Seq(Own), emitted : Nat]]
  <2>1. ToolAfter(f) \in [named : BOOLEAN, args : Seq(Own), emitted : Nat]
    BY <1>3, <1>4, EventsAre DEF Follows
  <2>2. Len(EventsOf(f)) \in Nat
    BY <1>5, LenProperties
  <2>3. decoder.count \in Nat
    BY DEF StreamTypes
  <2>4. decoder.count + (IF n = Len(frames) THEN Len(EventsOf(f)) ELSE 0) \in Nat
    BY <2>2, <2>3
  <2>5. CASE decoder.terminal
    <3>1. decoder' = decoder
      BY <1>1, <2>5 DEF DecoderAfter
    <3> QED
      BY <3>1 DEF StreamTypes
  <2>6. CASE ~decoder.terminal
    <3>1. decoder' = [count |-> decoder.count + (IF n = Len(frames) THEN Len(EventsOf(f)) ELSE 0),
                      terminal |-> f.kind \in Terminals, tool |-> ToolAfter(f),
                      failed |-> ~(n = Len(frames)) \/ f.kind \in {"error", "malformed"}]
      BY <1>1, <2>6 DEF DecoderAfter
    <3> QED
      BY <2>1, <2>4, <3>1
  <2> QED
    BY <2>5, <2>6
<1>10. decoder'.count > 0 => decoder.count > 0 \/ ev # <<>>
  <2>1. ev = <<>> => decoder'.count = decoder.count
    <3>1. ASSUME ev = <<>> PROVE decoder.count + (IF n = Len(frames) THEN Len(EventsOf(f)) ELSE 0) = decoder.count
      BY <3>1 DEF StreamTypes
    <3> QED
      BY <1>1, <3>1 DEF DecoderAfter
  <2> QED
    BY <2>1
<1>11. /\ decoder'.tool = IF decoder.terminal THEN decoder.tool ELSE ToolAfter(f)
       /\ decoder'.terminal = (decoder.terminal \/ f.kind \in Terminals)
       /\ ~decoder.terminal /\ n # Len(frames) => decoder'.failed
       /\ decoder.terminal => ~decoder'.failed
  BY <1>1, <1>4 DEF DecoderAfter, StreamTypes
<1>12. ReadsOn(f)
  BY <1>2, <1>8, <1>11 DEF ReadsOn
<1> HIDE DEF ev
<1>13. /\ out' \in Seq(StreamEvents)
       /\ \A type : Begins(Pieces(out', type), Pieces(out \o frames, type))
       /\ Len(Picked(out', OfType("open"))) \in Nat
       /\ Len(Picked(out', OfType("open")))
            \leq Len(Picked(out, OfType("open"))) + Len(Picked(frames, OfType("open")))
       /\ n = Len(frames) => out' = out \o frames
       /\ n = 0 => out' = out
  <2>1. out' = out \o SubSeq(frames, 1, n) /\ StreamTypes
    BY <1>1
  <2>2. out \in Seq(StreamEvents) /\ frames \in Seq(StreamEvents)
    BY <1>4, <1>6
  <2>3. Takes(out', out, frames, n)
    BY <2>1, <2>2, Delivered
  <2> QED
    BY <2>3 DEF Takes
<1>14. ~decoder'.failed => out' = out \o frames
  <2>1. decoder.terminal => frames = <<>>
    BY <1>6, <1>12, <1>4, MoreIsBrought DEF ev
  <2>2. decoder.terminal => n = 0 /\ Len(frames) = 0
    BY <2>1
  <2> QED
    BY <1>11, <1>13, <2>2
<1>15. ev = <<>> => out' = out
  <2>1. ev = <<>> => n = 0
    BY <1>6
  <2> QED
    BY <1>13, <2>1
<1>16. Own' = Own /\ OwnEvents' = OwnEvents /\ FrameEvents' = FrameEvents /\ StreamEvents' = StreamEvents
  BY <1>8, SameAnswer
<1>17. writer' \in [committed : BOOLEAN, text : Seq(Own), response : Seq(Own)]
       /\ writer'.committed = (writer.committed \/ ev # <<>>)
  BY <1>2, <1>5, WriterFacts
<1>18. /\ record' \in [state : {"started", "partial", "succeeded", "failed"}, usage : Nat,
                       learned : BOOLEAN]
       /\ record'.state = "started" /\ ~record'.learned
       /\ record'.usage = Observed(ev, record.usage)
  BY <1>2, <1>4, <1>7 DEF StreamTypes, ev
<1>19. StreamTypes'
  <2>1. body' \in Seq([kind : FrameKinds, usage : BOOLEAN])
    BY <1>2, <1>3, AppendProperties DEF StreamTypes, FrameRecords
  <2>2. out' \in Seq(OwnEvents)
    BY <1>13, StreamEventsAreEvents, SeqMonotonic
  <2>3. held' \in Seq(OwnEvents)
    BY <1>2 DEF StreamTypes
  <2> QED
    BY <1>2, <1>8, <1>9, <1>16, <1>17, <1>18, <2>1, <2>2, <2>3 DEF StreamTypes
<1>20. Count("open")' \leq 1
  <2>1. CASE writer.committed
    <3>1. Len(Picked(out, OfType("open"))) \leq 1 /\ Len(Picked(frames, OfType("open"))) = 0
      BY <1>4, <1>6, <2>1 DEF WriterInv, Count
    <3>2. Len(Picked(out, OfType("open"))) \in Nat
      BY <1>4, PickedType, LenProperties
    <3> QED
      BY <1>13, <3>1, <3>2 DEF Count
  <2>2. CASE ~writer.committed
    <3>1. Len(Picked(out, OfType("open"))) = 0 /\ Len(Picked(frames, OfType("open"))) \in 0 .. 1
      BY <1>4, <1>6, <2>2, PickedEmpty DEF WriterInv
    <3>2. Len(Picked(out', OfType("open"))) \leq 1
      <4>1. \A a, b, c \in Nat : a \leq b + c /\ b = 0 /\ c \leq 1 => a \leq 1
        OBVIOUS
      <4>2. Len(Picked(frames, OfType("open"))) \in Nat /\ Len(Picked(frames, OfType("open"))) \leq 1
        <5>1. \A x \in 0 .. 1 : x \in Nat /\ x \leq 1
          OBVIOUS
        <5> QED
          BY <3>1, <5>1
      <4>3. /\ Len(Picked(out', OfType("open"))) \in Nat /\ Len(Picked(out, OfType("open"))) = 0
            /\ Len(Picked(out', OfType("open")))
                 \leq Len(Picked(out, OfType("open"))) + Len(Picked(frames, OfType("open")))
        BY <1>13, <3>1
      <4> QED
        BY <4>1, <4>2, <4>3
    <3> QED
      BY <3>2 DEF Count
  <2> QED
    BY <2>1, <2>2
<1>21. WriterInv'
  BY <1>2, <1>4, <1>12, <1>15, <1>18, <1>19, <1>20, WriterFollows DEF ev
<1>22. Follows'
  BY <1>4, <1>12, DecoderFollows
<1> DEFINE later == out \o frames
<1>23. /\ Pieces(later, "text") = Pieces(out, "text") \o Pieces(ev, "text")
       /\ Pieces(later, "tool") = Pieces(out, "tool") \o Pieces(ev, "tool")
       /\ Pieces(out, "tool") \in Seq(Own)
  <2>1. out \in Seq(Events) /\ frames \in Seq(Events) /\ out \in Seq(OwnEvents)
    BY <1>4, <1>6, StreamEventsAreEvents, SeqMonotonic
  <2>2. \A type : Pieces(out \o frames, type) = Pieces(out, type) \o Pieces(frames, type)
    BY <2>1, PiecesConcat
  <2>3. Pieces(out, "tool") \in Seq(Own)
    BY <2>1, PiecesType
  <2>4. Pieces(frames, "text") = Pieces(ev, "text") /\ Pieces(frames, "tool") = Pieces(ev, "tool")
    BY <1>6
  <2> QED
    BY <2>2, <2>3, <2>4
<1> HIDE DEF later
<1>24. /\ Pieces(later, "text") = Brought({"text"})'
       /\ Announced' => Pieces(later, "tool") = ToolPieces'
       /\ answer'.format = "responses" /\ decoder'.tool = NoTool => Pieces(later, "tool") = <<>>
  BY <1>4, <1>12, <1>23, EventsPass DEF ev
<1>25. PhaseInv'
  BY <1>2, <1>4, <1>8, <1>9, <1>18 DEF PhaseInv, Step
<1>26. PumpInv'
  <2> SUFFICES ASSUME answer'.step = "pump" PROVE PumpInv'
    BY DEF PumpInv, Step
  <2>1. ~decoder'.failed /\ out' = later
    BY <1>8, <1>14 DEF later
  <2>2. Passed(out)'
    BY <1>24, <2>1 DEF Passed
  <2>3. decoder'.count > 0 => writer'.committed
    BY <1>4, <1>10, <1>17
  <2> QED
    BY <1>13, <1>16, <1>21, <2>1, <2>2, <2>3 DEF PumpInv
<1>27. SettleInv'
  <2> SUFFICES ASSUME answer'.step = "settle" PROVE SettleInv'
    BY DEF SettleInv, Step
  <2>1. decoder'.failed
    BY <1>8
  <2>2. InOrderOnce'
    <3>1. Begins(Pieces(out', "text"), Brought({"text"})')
      BY <1>13, <1>24 DEF later
    <3>2. Announced' => Begins(Pieces(out', "tool"), ToolPieces')
      BY <1>13, <1>24 DEF later
    <3>3. Count("refusal")' = 0
      BY <1>13, GoesOn DEF Count
    <3> QED
      BY <1>20, <3>1, <3>2, <3>3 DEF InOrderOnce, Got
  <2> QED
    BY <1>13, <1>16, <1>21, <2>1, <2>2 DEF SettleInv
<1>28. DecoderInv' /\ CollectInv' /\ answer'.step # "done"
  BY <1>8, <1>22 DEF DecoderInv, CollectInv, Step
<1> QED
  BY <1>19, <1>25, <1>26, <1>27, <1>28 DEF Step

-----------------------------------------------------------------------------
(* Steps that leave the answer as it was read. *)
Keeps ==
    /\ body' = body /\ answer'.no = answer.no /\ answer'.format = answer.format
    /\ Over' = Over /\ UsageSeen' = UsageSeen /\ ToolPieces' = ToolPieces
    /\ Brought({"text"})' = Brought({"text"}) /\ (Announced' <=> Announced)
    /\ Own' = Own /\ OwnEvents' = OwnEvents /\ FrameEvents' = FrameEvents
    /\ StreamEvents' = StreamEvents

LEMMA AsItWas ==
    ASSUME body' = body, answer'.no = answer.no, answer'.format = answer.format
    PROVE  Keeps
BY SameAnswer, SameBody, SameBrought, SameAnnounced DEF Keeps

(* A client that has what was read, has it in order. *)
LEMMA PassedInOrder ==
    ASSUME StreamTypes, Passed(out), out \in Seq(StreamEvents), Count("open") \leq 1
    PROVE  InOrderOnce
<1>1. out \in Seq(OwnEvents)
  BY StreamEventsAreEvents, SeqMonotonic
<1>2. \A type : Pieces(out, type) \in Seq(Own)
  BY <1>1, PiecesType
<1>3. \A type : Begins(Pieces(out, type), Pieces(out, type))
  BY <1>2, BeginsSame
<1>4. Begins(Got("text"), Brought({"text"})) /\ (Announced => Begins(Got("tool"), ToolPieces))
  BY <1>3 DEF Passed, Got
<1>5. Count("refusal") = 0
  BY GoesOn DEF Count
<1> QED
  BY <1>4, <1>5 DEF InOrderOnce

LEMMA OneAtMost ==
    ASSUME NEW a \in Nat, NEW b, NEW c, a \leq b + c,
           (b = 0 /\ c \in 0 .. 1) \/ (b \in Nat /\ b \leq 1 /\ c = 0)
    PROVE  a \leq 1
OBVIOUS

(* The whole body ends. *)
LEMMA PumpEndsStep ==
    ASSUME StreamInv, PumpEnds
    PROVE  StreamInv'
<1> USE DEF StreamInv
<1>1. PICK n \in 0 .. Len(Closing(writer)) :
          /\ out' = out \o SubSeq(Closing(writer), 1, n)
          /\ decoder' = [decoder EXCEPT !.failed = n < Len(Closing(writer))]
  BY DEF PumpEnds, Sent
<1>2. /\ Step("pump") /\ decoder.count > 0 /\ decoder.terminal /\ Goto("settle")
      /\ client' = client /\ body' = body /\ held' = held /\ writer' = writer /\ record' = record
  BY DEF PumpEnds, Whole
<1>3. /\ WriterInv /\ Passed(out) /\ out \in Seq(StreamEvents) /\ Follows
      /\ writer.committed /\ held = <<>> /\ client.streams
      /\ record.state = "started" /\ ~record.learned
  BY <1>2 DEF PumpInv, DecoderInv, PhaseInv, Step
<1>4. /\ answer' \in [no : Nat, format : WireFormats, step : Steps]
      /\ answer'.no = answer.no /\ answer'.format = answer.format /\ answer'.step = "settle"
  BY <1>2, Moves DEF Steps
<1>5. Keeps
  BY <1>2, <1>4, AsItWas
<1>6. writer \in [committed : BOOLEAN, text : Seq(Own), response : Seq(Own)] /\ <<>> \in Seq(StreamEvents)
  BY EmptySeq DEF StreamTypes
<1> DEFINE whole == n = Len(Closing(writer))
<1>7. Ends(out', out, <<>>, writer, whole)
  <2>1. <<>> \o Closing(writer) = Closing(writer)
    BY DEF Closing
  <2> QED
    BY <1>1, <1>3, <1>6, <2>1, Ended
<1>8. out \o <<>> = out
  BY <1>3, ConcatEmptySeq
<1>9. decoder' \in [count : Nat, terminal : BOOLEAN, failed : BOOLEAN,
                    tool : [named : BOOLEAN, args : Seq(Own), emitted : Nat]]
      /\ decoder'.tool = decoder.tool /\ decoder'.terminal = decoder.terminal
      /\ (decoder'.failed <=> ~whole)
  <2>1. Len(Closing(writer)) = 2
    BY DEF Closing
  <2>2. CASE whole
    <3>1. decoder' = [decoder EXCEPT !.failed = FALSE]
      <4>1. (n < Len(Closing(writer))) = FALSE
        BY <2>1, <2>2
      <4> QED
        BY <1>1, <4>1
    <3> QED
      BY <2>2, <3>1 DEF StreamTypes
  <2>3. CASE ~whole
    <3>1. decoder' = [decoder EXCEPT !.failed = TRUE]
      <4>1. (n < Len(Closing(writer))) = TRUE
        BY <2>1, <2>3
      <4> QED
        BY <1>1, <4>1
    <3> QED
      BY <2>3, <3>1 DEF StreamTypes
  <2> QED
    BY <2>2, <2>3
<1> HIDE DEF whole
<1>10. StreamTypes'
  BY <1>2, <1>4, <1>5, <1>7, <1>9 DEF StreamTypes, Keeps, Ends
<1>11. PhaseInv'
  BY <1>2, <1>3, <1>4 DEF PhaseInv, Step
<1>12. Follows'
  BY <1>3, <1>4, <1>5, <1>9 DEF Follows, Keeps
<1>13. Count("open")' \leq 1
  <2>1. Len(Picked(out, OfType("open"))) \in Nat /\ Len(Picked(out, OfType("open"))) \leq 1
    BY <1>3, PickedType, LenProperties DEF WriterInv, Count
  <2>2. Len(Picked(<<>>, OfType("open"))) = 0
    BY PickedEmpty
  <2> QED
    BY <1>7, <2>1, <2>2, OneAtMost DEF Ends, Count
<1>14. WriterInv'
  BY <1>2, <1>3, <1>5, <1>13 DEF WriterInv, Keeps
<1>15. InOrderOnce'
  <2>1. Begins(Pieces(out', "text"), Brought({"text"})')
    BY <1>3, <1>5, <1>7, <1>8 DEF Ends, Passed, Keeps
  <2>2. Announced' => Begins(Pieces(out', "tool"), ToolPieces')
    BY <1>3, <1>5, <1>7, <1>8 DEF Ends, Passed, Keeps
  <2>3. Count("refusal")' = 0
    BY <1>7 DEF Ends, Count
  <2> QED
    BY <1>13, <2>1, <2>2, <2>3 DEF InOrderOnce, Got
<1>16. whole => Count("terminal")' = 1 /\ EndsOnlyWhenWhole'
  <2> SUFFICES ASSUME whole PROVE Count("terminal")' = 1 /\ EndsOnlyWhenWhole'
    OBVIOUS
  <2>1. /\ Pieces(out', "text") = Brought({"text"})
        /\ Announced => Pieces(out', "tool") = ToolPieces
        /\ Count("terminal")' = 1
        /\ out'[Len(out')].type = "terminal" /\ out'[Len(out')].parts = FinalParts(writer)
    BY <1>3, <1>7, <1>8 DEF Ends, Passed, Count
  <2>2. client.format = "responses" => FinalParts(writer) = Brought({"text"})
    BY <1>3 DEF FinalParts, WriterInv
  <2> QED
    BY <1>2, <1>4, <1>5, <2>1, <2>2 DEF EndsOnlyWhenWhole, Got, Step, Keeps
<1>17. SettleInv'
  <2>1. Over'
    BY <1>2, <1>3, <1>5 DEF Follows, Keeps
  <2> QED
    BY <1>2, <1>3, <1>5, <1>7, <1>9, <1>14, <1>15, <1>16, <2>1 DEF SettleInv, Ends, Keeps
<1> QED
  BY <1>4, <1>10, <1>11, <1>12, <1>17 DEF DecoderInv, PumpInv, CollectInv, Step

LEMMA BreaksOffStep ==
    ASSUME StreamInv, BreaksOff
    PROVE  StreamInv'
<1> USE DEF StreamInv
<1>1. /\ Step("pump") \/ Step("collect")
      /\ decoder' = [decoder EXCEPT !.failed = TRUE]
      /\ Goto(IF Step("pump") THEN "settle" ELSE "collected")
      /\ client' = client /\ body' = body /\ held' = held /\ writer' = writer /\ out' = out
      /\ record' = record
  BY DEF BreaksOff
<1>2. Follows /\ record.state = "started" /\ ~record.learned
  BY <1>1 DEF DecoderInv, PhaseInv, Step
<1>3. /\ answer' \in [no : Nat, format : WireFormats, step : Steps]
      /\ answer'.no = answer.no /\ answer'.format = answer.format
      /\ answer'.step = IF Step("pump") THEN "settle" ELSE "collected"
  BY <1>1, Moves DEF Steps
<1>4. Keeps
  BY <1>1, <1>3, AsItWas
<1>5. decoder' \in [count : Nat, terminal : BOOLEAN, failed : BOOLEAN,
                    tool : [named : BOOLEAN, args : Seq(Own), emitted : Nat]]
      /\ decoder'.tool = decoder.tool /\ decoder'.terminal = decoder.terminal /\ decoder'.failed
  BY <1>1 DEF StreamTypes
<1>6. StreamTypes'
  BY <1>1, <1>3, <1>4, <1>5 DEF StreamTypes, Keeps
<1>7. PhaseInv'
  BY <1>1, <1>2, <1>3 DEF PhaseInv, Step, Untouched
<1>8. Follows'
  BY <1>2, <1>3, <1>4, <1>5 DEF Follows, Keeps
<1>9. CASE Step("pump")
  <2>1. WriterInv /\ Passed(out) /\ out \in Seq(StreamEvents)
    BY <1>9 DEF PumpInv
  <2>2. InOrderOnce
    BY <2>1, PassedInOrder DEF WriterInv
  <2>3. WriterInv'
    BY <1>1, <1>4, <2>1 DEF WriterInv, Keeps, Count
  <2>4. InOrderOnce'
    BY <1>1, <1>4, <2>2 DEF InOrderOnce, Keeps, Count, Got
  <2>5. SettleInv'
    BY <1>1, <1>4, <1>5, <2>1, <2>3, <2>4 DEF SettleInv, Keeps
  <2> QED
    BY <1>3, <1>6, <1>7, <1>8, <1>9, <2>5 DEF DecoderInv, PumpInv, CollectInv, Step
<1>10. CASE ~Step("pump")
  <2>1. /\ Passed(held) /\ held \in Seq(FrameEvents) /\ Observed(held, 0) = UsageSeen
        /\ \A i \in 1 .. Len(held) :
               held[i].type = "response" => Over /\ held[i].parts = Brought({"text"})
    BY <1>1, <1>10 DEF CollectInv
  <2>2. Passed(held)' /\ Observed(held, 0)' = UsageSeen'
    BY <1>1, <1>3, <1>4, <1>5, <2>1 DEF Passed, Keeps, Observed
  <2>3. CollectInv'
    BY <1>1, <1>3, <1>4, <1>5, <1>10, <2>1, <2>2 DEF CollectInv, Step, Keeps
  <2> QED
    BY <1>3, <1>6, <1>7, <1>8, <1>10, <2>3 DEF DecoderInv, PumpInv, SettleInv, Step
<1> QED
  BY <1>9, <1>10

(* A failure leaves nothing that the next candidate could not replace. *)
LEMMA FailsClean ==
    ASSUME StreamInv, out = <<>>, ~writer.committed, ~Step("done"), Goto("failed"),
           UNCHANGED <<client, body, decoder, held, writer, out, record>>
    PROVE  StreamInv'
<1> USE DEF StreamInv
<1>1. /\ answer' \in [no : Nat, format : WireFormats, step : Steps]
      /\ answer'.no = answer.no /\ answer'.step = "failed"
  BY Moves DEF Steps
<1>2. Own' = Own /\ OwnEvents' = OwnEvents
  BY <1>1, SameAnswer
<1>3. StreamTypes'
  BY <1>1, <1>2 DEF StreamTypes
<1>4. PhaseInv'
  BY <1>1 DEF PhaseInv, Step
<1> QED
  BY <1>1, <1>3, <1>4 DEF DecoderInv, PumpInv, SettleInv, CollectInv, Step

LEMMA FailureSteps ==
    ASSUME StreamInv, PumpFails \/ CollectFails \/ JsonFails
    PROVE  StreamInv'
<1> USE DEF StreamInv
<1>1. /\ Goto("failed") /\ UNCHANGED <<client, body, decoder, held, writer, out, record>>
      /\ \/ Step("settle") /\ ~writer.committed
         \/ Step("collected")
         \/ Step("json")
  BY DEF PumpFails, CollectFails, JsonFails, Begun
<1>2. out = <<>> /\ ~writer.committed
  BY <1>1 DEF SettleInv, WriterInv, PhaseInv, Untouched, NewWriter
<1>3. ~Step("done")
  BY <1>1 DEF Step
<1> QED
  BY <1>1, <1>2, <1>3, FailsClean

LEMMA FinalizeStep ==
    ASSUME StreamInv, FinalizeStream
    PROVE  StreamInv'
<1> USE DEF StreamInv
<1>1. /\ Step("settle") /\ (decoder.failed => writer.committed)
      /\ client' = client /\ body' = body /\ decoder' = decoder /\ held' = held
      /\ writer' = writer /\ out' = out
      /\ Finish(IF decoder.failed THEN "partial" ELSE "succeeded", record.usage, ~decoder.failed)
  BY DEF FinalizeStream, Begun
<1>2. decoder.failed \in BOOLEAN /\ record.usage \in Nat
  BY DEF StreamTypes
<1>3. /\ answer' \in [no : Nat, format : WireFormats, step : Steps]
      /\ answer'.no = answer.no /\ answer'.format = answer.format /\ answer'.step = "done"
      /\ record' \in [state : {"started", "partial", "succeeded", "failed"}, usage : Nat,
                      learned : BOOLEAN]
      /\ record'.state = IF decoder.failed THEN "partial" ELSE "succeeded"
      /\ record'.usage = record.usage /\ record'.learned = ~decoder.failed
  BY <1>1, <1>2, Finishes
<1>4. Keeps
  BY <1>1, <1>3, AsItWas
<1>5. StreamTypes'
  BY <1>1, <1>3, <1>4 DEF StreamTypes, Keeps
<1>6. WriterInv /\ InOrderOnce
  BY <1>1, <1>2 DEF SettleInv
<1>7. InOrderOnce'
  BY <1>1, <1>4, <1>6 DEF InOrderOnce, Keeps, Count, Got
<1>8. EndsOnlyWhenWhole'
  <2>1. CASE decoder.failed
    <3>1. out \in Seq(StreamEvents)
      BY <1>1, <2>1 DEF SettleInv
    <3>2. Count("terminal")' = 0
      BY <1>1, <3>1, GoesOn DEF Count
    <3> QED
      BY <1>3, <2>1, <3>2 DEF EndsOnlyWhenWhole
  <2>2. CASE ~decoder.failed
    <3>1. Count("terminal") = 1 /\ EndsOnlyWhenWhole
      BY <1>1, <2>2 DEF SettleInv
    <3>2. /\ Count("terminal")' = 1 /\ out'[Len(out')].type = "terminal"
          /\ Got("text")' = Brought({"text"})'
          /\ Announced' => Got("tool")' = ToolPieces'
          /\ client'.format = "responses" => out'[Len(out')].parts = Got("text")'
      <4>1. /\ out[Len(out)].type = "terminal" /\ Got("text") = Brought({"text"})
            /\ Announced => Got("tool") = ToolPieces
            /\ client.format = "responses" => out[Len(out)].parts = Got("text")
        BY <3>1 DEF EndsOnlyWhenWhole
      <4>2. Count("terminal")' = Count("terminal") /\ Got("text")' = Got("text") /\ Got("tool")' = Got("tool")
        BY <1>1 DEF Count, Got
      <4> QED
        BY <1>1, <1>4, <3>1, <4>1, <4>2 DEF Keeps
    <3> QED
      BY <1>3, <2>2, <3>2 DEF EndsOnlyWhenWhole
  <2> QED
    BY <2>1, <2>2
<1>9. RecordIsTrue'
  <2>1. record'.usage = UsageSeen'
    BY <1>3, <1>4, <1>6 DEF WriterInv, Keeps
  <2>2. record'.learned => \E i \in Read : body[i].kind \in Terminals
    <3>1. record'.learned => Over
      BY <1>1, <1>3 DEF SettleInv
    <3> QED
      BY <3>1, OverIsRead
  <2>3. Read' = Read
    BY <1>1, SameBody
  <2> QED
    BY <1>1, <1>3, <2>1, <2>2, <2>3 DEF RecordIsTrue, Terminals
<1> QED
  BY <1>3, <1>5, <1>7, <1>8, <1>9, AtTheEnd

-----------------------------------------------------------------------------
(* The events are held until the body ends. *)
LEMMA CollectFrameStep ==
    ASSUME StreamInv, NEW f \in Frames, CollectFrame(f)
    PROVE  StreamInv'
<1> USE DEF StreamInv
<1> DEFINE ev == EventsOf(f)
<1>1. /\ Step("collect") /\ body' = Append(body, f) /\ held' = held \o ev
      /\ decoder' = DecoderAfter(f, TRUE)
      /\ Goto(IF decoder'.failed THEN "collected" ELSE "collect")
      /\ client' = client /\ writer' = writer /\ out' = out /\ record' = record
  BY DEF CollectFrame
<1>2. f \in FrameRecords
  BY FramesAreFrames
<1>3. /\ Passed(held) /\ held \in Seq(FrameEvents) /\ Observed(held, 0) = UsageSeen
      /\ \A i \in 1 .. Len(held) :
             held[i].type = "response" => Over /\ held[i].parts = Brought({"text"})
      /\ ~decoder.failed /\ Follows
      /\ Untouched /\ ~client.streams /\ record.state = "started" /\ ~record.learned
  BY <1>1 DEF CollectInv, DecoderInv, PhaseInv, Step
<1>4. ev \in Seq(FrameEvents)
  BY <1>2, <1>3, EventsFacts DEF Follows
<1>5. /\ answer' \in [no : Nat, format : WireFormats, step : Steps]
      /\ answer'.no = answer.no /\ answer'.format = answer.format
      /\ answer'.step = IF decoder'.failed THEN "collected" ELSE "collect"
  BY <1>1, Moves DEF Steps
<1>6. decoder' \in [count : Nat, terminal : BOOLEAN, failed : BOOLEAN,
                    tool : [named : BOOLEAN, args : Seq(Own), emitted : Nat]]
      /\ decoder'.tool = (IF decoder.terminal THEN decoder.tool ELSE ToolAfter(f))
      /\ decoder'.terminal = (decoder.terminal \/ f.kind \in Terminals)
  <2>1. CASE decoder.terminal
    <3>1. decoder' = decoder
      BY <1>1, <2>1 DEF DecoderAfter
    <3> QED
      BY <2>1, <3>1 DEF StreamTypes
  <2>2. CASE ~decoder.terminal
    <3>1. ToolAfter(f) \in [named : BOOLEAN, args : Seq(Own), emitted : Nat]
      BY <1>2, <1>3, EventsAre DEF Follows
    <3>2. decoder.count + Len(EventsOf(f)) \in Nat
      BY <1>4, LenProperties DEF StreamTypes
    <3>3. decoder' = [count |-> decoder.count + Len(EventsOf(f)),
                      terminal |-> f.kind \in Terminals, tool |-> ToolAfter(f),
                      failed |-> f.kind \in {"error", "malformed"}]
      BY <1>1, <2>2 DEF DecoderAfter
    <3> QED
      BY <2>2, <3>1, <3>2, <3>3 DEF StreamTypes
  <2> QED
    BY <2>1, <2>2
<1>7. ReadsOn(f)
  BY <1>1, <1>5, <1>6 DEF ReadsOn
<1> HIDE DEF ev
<1>8. Own' = Own /\ OwnEvents' = OwnEvents /\ FrameEvents' = FrameEvents /\ StreamEvents' = StreamEvents
  BY <1>5, SameAnswer
<1>9. held' \in Seq(FrameEvents) /\ held' \in Seq(OwnEvents)
  BY <1>1, <1>3, <1>4, ConcatProperties, FrameEventsAreEvents, SeqMonotonic
<1>10. StreamTypes'
  <2>1. body' \in Seq([kind : FrameKinds, usage : BOOLEAN])
    BY <1>1, <1>2, AppendProperties DEF StreamTypes, FrameRecords
  <2> QED
    BY <1>1, <1>5, <1>6, <1>8, <1>9, <2>1 DEF StreamTypes
<1>11. PhaseInv'
  BY <1>1, <1>3, <1>5 DEF PhaseInv, Step, Untouched
<1>12. Follows'
  BY <1>3, <1>7, DecoderFollows
<1>13. \A type : Pieces(held', type) = Pieces(held, type) \o Pieces(ev, type)
  <2>1. held \in Seq(Events) /\ ev \in Seq(Events)
    BY <1>3, <1>4, FrameEventsAreEvents, SeqMonotonic
  <2>2. \A type : Pieces(held \o ev, type) = Pieces(held, type) \o Pieces(ev, type)
    BY <2>1, PiecesConcat
  <2> QED
    BY <1>1, <2>2
<1>14. \A type : Pieces(held, type) \in Seq(Own)
  BY <1>3, FrameEventsAreEvents, SeqMonotonic, PiecesType
<1>15. /\ Pieces(held', "text") = Brought({"text"})'
       /\ Announced' => Pieces(held', "tool") = ToolPieces'
       /\ answer'.format = "responses" /\ decoder'.tool = NoTool => Pieces(held', "tool") = <<>>
  <2> DEFINE later == held'
  <2>1. /\ Pieces(later, "text") = Pieces(held, "text") \o Pieces(ev, "text")
        /\ Pieces(later, "tool") = Pieces(held, "tool") \o Pieces(ev, "tool")
        /\ Pieces(held, "tool") \in Seq(Own)
    BY <1>13, <1>14
  <2> HIDE DEF later
  <2>2. /\ Pieces(later, "text") = Brought({"text"})'
        /\ Announced' => Pieces(later, "tool") = ToolPieces'
        /\ answer'.format = "responses" /\ decoder'.tool = NoTool => Pieces(later, "tool") = <<>>
    BY <1>3, <1>7, <2>1, EventsPass DEF ev
  <2> QED
    BY <2>2 DEF later
<1>16. Passed(held)'
  BY <1>15 DEF Passed
<1>17. /\ Over => Brought({"text"})' = Brought({"text"})
       /\ Over' <=> Over \/ f.kind \in Terminals
       /\ \A i \in 1 .. Len(ev) : ev[i].type = "response" =>
              Over' /\ ev[i].parts = Brought({"text"})'
  BY <1>3, <1>7, MoreIsBrought DEF ev
<1>18. ASSUME NEW i \in 1 .. Len(held'), held'[i].type = "response"
       PROVE  Over' /\ held'[i].parts = Brought({"text"})'
  <2>1. /\ held'[i] = IF i \leq Len(held) THEN held[i] ELSE ev[i - Len(held)]
        /\ Len(held') = Len(held) + Len(ev) /\ Len(held) \in Nat /\ Len(ev) \in Nat
    BY <1>1, <1>3, <1>4, ConcatProperties, LenProperties
  <2>2. CASE i \leq Len(held)
    <3>1. i \in 1 .. Len(held) /\ held'[i] = held[i]
      BY <2>1, <2>2
    <3>2. Over /\ held[i].parts = Brought({"text"})
      BY <1>3, <1>18, <3>1
    <3> QED
      BY <1>17, <3>1, <3>2
  <2>3. CASE ~(i \leq Len(held))
    <3>1. i - Len(held) \in 1 .. Len(ev) /\ held'[i] = ev[i - Len(held)]
      BY <2>1, <2>3
    <3> QED
      BY <1>17, <1>18, <3>1
  <2> QED
    BY <2>2, <2>3
<1>19. Observed(held, 0)' = UsageSeen'
  <2>1. UsageSeen' = IF ~Over /\ f.usage THEN Len(body) + 1 ELSE UsageSeen
    BY <1>1, <1>2, <1>5, <1>10, SeenMore DEF FrameRecords
  <2>2. Pieces(ev, "usage") = IF ~Over /\ f.usage THEN <<Piece>> ELSE <<>>
    BY <1>2, <1>3, EventsFacts DEF Follows, ev
  <2> DEFINE p == Pieces(held, "usage")
  <2>3. p \in Seq(Own) /\ Pieces(held', "usage") = p \o Pieces(ev, "usage")
    BY <1>13, <1>14
  <2>4. Observed(held, 0) = IF p = <<>> THEN 0 ELSE p[Len(p)][2]
    BY DEF Observed
  <2>5. Observed(held, 0)' = IF Pieces(held', "usage") = <<>> THEN 0
                             ELSE Pieces(held', "usage")[Len(Pieces(held', "usage"))][2]
    BY DEF Observed
  <2> HIDE DEF p
  <2>6. CASE ~Over /\ f.usage
    <3>1. Pieces(held', "usage") = Append(p, Piece)
      BY <2>2, <2>3, <2>6, PieceIsOwn, AppendIsConcat
    <3>2. Append(p, Piece) # <<>> /\ Append(p, Piece)[Len(Append(p, Piece))] = Piece
      BY <2>3, PieceIsOwn, AppendProperties, LenProperties
    <3>3. Piece[2] = Len(body) + 1
      BY DEF Piece
    <3> QED
      BY <2>1, <2>5, <2>6, <3>1, <3>2, <3>3
  <2>7. CASE ~(~Over /\ f.usage)
    <3>1. Pieces(held', "usage") = p
      BY <2>2, <2>3, <2>7, ConcatEmptySeq
    <3> QED
      BY <1>3, <2>1, <2>4, <2>5, <2>7, <3>1
  <2> QED
    BY <2>6, <2>7
<1>20. CollectInv'
  <2>1. held' \in Seq(FrameEvents')
    BY <1>8, <1>9
  <2> QED
    BY <1>5, <1>16, <1>18, <1>19, <2>1 DEF CollectInv, Step
<1> QED
  BY <1>5, <1>10, <1>11, <1>12, <1>20 DEF DecoderInv, PumpInv, SettleInv, Step

LEMMA CollectEndsStep ==
    ASSUME StreamInv, CollectEnds
    PROVE  StreamInv'
<1> USE DEF StreamInv
<1>1. /\ Step("collect") /\ decoder.terminal /\ Goto("collected")
      /\ client' = client /\ body' = body /\ decoder' = decoder /\ held' = held
      /\ writer' = writer /\ out' = out /\ record' = record
  BY DEF CollectEnds, Whole
<1>2. /\ Follows /\ Untouched /\ ~client.streams /\ record.state = "started" /\ ~record.learned
      /\ Passed(held) /\ held \in Seq(FrameEvents) /\ Observed(held, 0) = UsageSeen
      /\ \A i \in 1 .. Len(held) :
             held[i].type = "response" => Over /\ held[i].parts = Brought({"text"})
  BY <1>1 DEF CollectInv, DecoderInv, PhaseInv, Step
<1>3. /\ answer' \in [no : Nat, format : WireFormats, step : Steps]
      /\ answer'.no = answer.no /\ answer'.format = answer.format /\ answer'.step = "collected"
  BY <1>1, Moves DEF Steps
<1>4. Keeps
  BY <1>1, <1>3, AsItWas
<1>5. StreamTypes'
  BY <1>1, <1>3, <1>4 DEF StreamTypes, Keeps
<1>6. PhaseInv'
  BY <1>1, <1>2, <1>3 DEF PhaseInv, Step, Untouched
<1>7. Follows' /\ Over'
  BY <1>1, <1>2, <1>3, <1>4 DEF Follows, Keeps
<1>8. Passed(held)' /\ Observed(held, 0)' = UsageSeen'
  BY <1>1, <1>2, <1>3, <1>4 DEF Passed, Keeps, Observed
<1>9. CollectInv'
  BY <1>1, <1>2, <1>3, <1>4, <1>7, <1>8 DEF CollectInv, Step, Keeps
<1> QED
  BY <1>3, <1>5, <1>6, <1>7, <1>9 DEF DecoderInv, PumpInv, SettleInv, Step

(* What was held brings what was read, to a client that has nothing yet. *)
LEMMA HeldFacts ==
    ASSUME StreamInv, Step("collected")
    PROVE  /\ out = <<>> /\ ~writer.committed /\ writer.text = <<>> /\ writer.response = <<>>
           /\ ~client.streams
           /\ held \in Seq(FrameEvents) /\ Observed(held, 0) = UsageSeen
           /\ UsageSeen \in Nat
           /\ Written(held) \in Seq(StreamEvents) /\ <<>> \in Seq(StreamEvents)
           /\ Pieces(Written(held), "text") = Brought({"text"})
           /\ Announced => Pieces(Written(held), "tool") = ToolPieces
           /\ Len(Picked(Written(held), OfType("open"))) \in 0 .. 1
           /\ Len(Picked(<<>>, OfType("open"))) = 0
           /\ WriterAfter(held) \in [committed : BOOLEAN, text : Seq(Own), response : Seq(Own)]
           /\ client.format = "responses" => FinalParts(WriterAfter(held)) = Brought({"text"})
<1> USE DEF StreamInv
<1>1. /\ Untouched /\ ~client.streams
      /\ Passed(held) /\ held \in Seq(FrameEvents) /\ Observed(held, 0) = UsageSeen
      /\ \A i \in 1 .. Len(held) :
             held[i].type = "response" => Over /\ held[i].parts = Brought({"text"})
  BY DEF CollectInv, PhaseInv
<1>2. out = <<>> /\ ~writer.committed /\ writer.text = <<>> /\ writer.response = <<>>
  BY <1>1 DEF Untouched, NewWriter
<1>3. UsageSeen \in Nat
  <2>1. UsageSeen \in 0 .. Len(body) /\ Len(body) \in Nat
    BY SeenIsLast, LenProperties DEF StreamTypes
  <2> QED
    BY <2>1
<1>4. /\ Written(held) \in Seq(StreamEvents)
      /\ \A type \in {"text", "tool"} : Pieces(Written(held), type) = Pieces(held, type)
      /\ Len(Picked(Written(held), OfType("open"))) \in 0 .. 1
  BY <1>1, WrittenFacts
<1>5. /\ WriterAfter(held) \in [committed : BOOLEAN, text : Seq(Own), response : Seq(Own)]
      /\ WriterAfter(held).text = IF client.format = "responses"
                                  THEN writer.text \o Pieces(held, "text") ELSE <<>>
      /\ \/ WriterAfter(held).response = writer.response
         \/ \E i \in 1 .. Len(held) : /\ held[i].type = "response"
                                      /\ WriterAfter(held).response = held[i].parts
  BY <1>1, WriterFacts
<1>6. client.format = "responses" => WriterAfter(held).text = Brought({"text"})
  <2>1. Pieces(held, "text") = Brought({"text"}) /\ Brought({"text"}) \in Seq(Own)
    BY <1>1, BroughtType DEF Passed
  <2> QED
    BY <1>2, <1>5, <2>1, ConcatEmptySeq
<1>7. client.format = "responses" => FinalParts(WriterAfter(held)) = Brought({"text"})
  BY <1>1, <1>2, <1>5, <1>6 DEF FinalParts
<1>8. <<>> \in Seq(StreamEvents) /\ Len(Picked(<<>>, OfType("open"))) = 0
  BY PickedEmpty, EmptySeq
<1> QED
  BY <1>1, <1>2, <1>3, <1>4, <1>5, <1>7, <1>8 DEF Passed

LEMMA PassOnPartStep ==
    ASSUME StreamInv, PassOnPart
    PROVE  StreamInv'
<1>1. PICK n \in 0 .. Len(Written(held)) : out' = out \o SubSeq(Written(held), 1, n)
  BY DEF PassOnPart, Sent
<1>2. /\ Step("collected") /\ writer' = WriterAfter(held)
      /\ Finish("partial", Observed(held, 0), FALSE)
      /\ client' = client /\ body' = body /\ decoder' = decoder /\ held' = held
  BY DEF PassOnPart
<1>3. StreamTypes /\ Observed(held, 0) \in Nat
  BY <1>2, HeldFacts DEF StreamInv
<1>4. /\ answer' \in [no : Nat, format : WireFormats, step : Steps]
      /\ answer'.no = answer.no /\ answer'.format = answer.format /\ answer'.step = "done"
      /\ record' \in [state : {"started", "partial", "succeeded", "failed"}, usage : Nat,
                      learned : BOOLEAN]
      /\ record'.state = "partial" /\ record'.usage = Observed(held, 0) /\ record'.learned = FALSE
  BY <1>2, <1>3, Finishes
<1>5. Keeps
  BY <1>2, <1>4, AsItWas
<1> DEFINE frames == Written(held)
<1>6. /\ frames \in Seq(StreamEvents) /\ out = <<>> /\ out \in Seq(StreamEvents)
      /\ Pieces(frames, "text") = Brought({"text"})
      /\ Announced => Pieces(frames, "tool") = ToolPieces
      /\ Len(Picked(frames, OfType("open"))) \in 0 .. 1 /\ Len(Picked(out, OfType("open"))) = 0
  BY <1>2, HeldFacts
<1>7. n \in 0 .. Len(frames) /\ out' = out \o SubSeq(frames, 1, n)
  BY <1>1
<1> HIDE DEF frames
<1>8. Takes(out', out, frames, n)
  BY <1>3, <1>6, <1>7, Delivered
<1>9. out \o frames = frames
  BY <1>6, ConcatEmptySeq
<1>10. out' \in Seq(StreamEvents) /\ out' \in Seq(OwnEvents)
  BY <1>8, StreamEventsAreEvents, SeqMonotonic DEF Takes
<1>11. StreamTypes'
  <2>1. writer' \in [committed : BOOLEAN, text : Seq(Own), response : Seq(Own)]
    BY <1>2, HeldFacts
  <2> QED
    BY <1>2, <1>3, <1>4, <1>5, <1>10, <2>1 DEF StreamTypes, Keeps
<1>12. InOrderOnce'
  <2>1. Count("open")' \leq 1
    BY <1>6, <1>8, OneAtMost DEF Takes, Count
  <2>2. /\ Begins(Pieces(out', "text"), Brought({"text"})')
        /\ Announced' => Begins(Pieces(out', "tool"), ToolPieces')
    BY <1>5, <1>6, <1>8, <1>9 DEF Takes, Keeps
  <2>3. Count("refusal")' = 0
    BY <1>10, GoesOn DEF Count
  <2> QED
    BY <2>1, <2>2, <2>3 DEF InOrderOnce, Got
<1>13. EndsOnlyWhenWhole'
  <2>1. Count("terminal")' = 0
    BY <1>10, GoesOn DEF Count
  <2> QED
    BY <1>4, <2>1 DEF EndsOnlyWhenWhole
<1>14. RecordIsTrue'
  <2>1. record'.usage = UsageSeen'
    BY <1>2, <1>4, <1>5, HeldFacts DEF Keeps
  <2> QED
    BY <1>4, <2>1 DEF RecordIsTrue
<1> QED
  BY <1>4, <1>11, <1>12, <1>13, <1>14, AtTheEnd

(* A client is sent everything at once: what was read, and the end. *)
LEMMA SentAtOnce ==
    ASSUME StreamTypes, StreamTypes', Keeps, client' = client, answer'.step = "done",
           NEW front \in Seq(StreamEvents), NEW w \in [committed : BOOLEAN, text : Seq(Own), response : Seq(Own)],
           Pieces(front, "text") = Brought({"text"}),
           Announced => Pieces(front, "tool") = ToolPieces,
           Len(Picked(front, OfType("open"))) \in 0 .. 1,
           client.format = "responses" => FinalParts(w) = Brought({"text"}),
           NEW whole \in BOOLEAN, Ends(out', out, front, w, whole), out = <<>>,
           record'.state = "succeeded" <=> whole
    PROVE  InOrderOnce' /\ EndsOnlyWhenWhole'
<1>1. /\ out \in Seq(StreamEvents) /\ Len(Picked(out, OfType("open"))) = 0
      /\ out \o front = front
  BY EmptySeq, PickedEmpty, ConcatEmptySeq
<1>2. Ends(out', out, front, w, whole)
  OBVIOUS
<1>3. InOrderOnce'
  <2>1. Count("open")' \leq 1
    BY <1>1, <1>2, OneAtMost DEF Ends, Count
  <2>2. /\ Begins(Pieces(out', "text"), Brought({"text"})')
        /\ Announced' => Begins(Pieces(out', "tool"), ToolPieces')
    BY <1>1, <1>2 DEF Ends, Keeps
  <2>3. Count("refusal")' = 0
    BY <1>2 DEF Ends, Count
  <2> QED
    BY <2>1, <2>2, <2>3 DEF InOrderOnce, Got
<1>4. EndsOnlyWhenWhole'
  <2>1. CASE whole
    <3>1. /\ Pieces(out', "text") = Brought({"text"})
          /\ Announced => Pieces(out', "tool") = ToolPieces
          /\ Count("terminal")' = 1
          /\ out'[Len(out')].type = "terminal" /\ out'[Len(out')].parts = FinalParts(w)
      BY <1>1, <1>2, <2>1 DEF Ends, Count
    <3>2. record'.state = "succeeded"
      BY <2>1
    <3>3. /\ Got("text")' = Brought({"text"})'
          /\ Announced' => Got("tool")' = ToolPieces'
          /\ client'.format = "responses" => out'[Len(out')].parts = Got("text")'
      <4>1. Got("text")' = Pieces(out', "text") /\ Got("tool")' = Pieces(out', "tool")
        BY DEF Got
      <4>2. /\ Brought({"text"})' = Brought({"text"}) /\ ToolPieces' = ToolPieces
            /\ (Announced' <=> Announced)
        BY DEF Keeps
      <4>3. client'.format = "responses" => FinalParts(w) = Brought({"text"})
        OBVIOUS
      <4> QED
        BY <3>1, <4>1, <4>2, <4>3
    <3>4. Count("terminal")' # 0 /\ Count("terminal")' = 1 /\ out'[Len(out')].type = "terminal"
      BY <3>1
    <3> QED
      BY <3>2, <3>3, <3>4 DEF EndsOnlyWhenWhole
  <2>2. CASE ~whole
    <3>1. out' \in Seq(StreamEvents)
      BY <1>2, <2>2 DEF Ends
    <3>2. Count("terminal")' = 0
      BY <3>1, GoesOn DEF Count
    <3> QED
      BY <2>2, <3>2 DEF EndsOnlyWhenWhole
  <2> QED
    BY <2>1, <2>2
<1> QED
  BY <1>3, <1>4

LEMMA CompleteCollectedStep ==
    ASSUME StreamInv, CompleteCollected
    PROVE  StreamInv'
<1> DEFINE w == WriterAfter(held)
           front == Written(held)
           frames == front \o Closing(w)
<1>1. PICK n \in 0 .. Len(frames) :
          /\ out' = out \o SubSeq(frames, 1, n)
          /\ IF n = Len(frames) THEN Finish("succeeded", Observed(held, 0), TRUE)
             ELSE Finish("failed", 0, TRUE)
  BY DEF CompleteCollected, Sent
<1>2. /\ Step("collected") /\ ~decoder.failed /\ writer' = WriterAfter(held)
      /\ client' = client /\ body' = body /\ decoder' = decoder /\ held' = held
  BY DEF CompleteCollected
<1>3. StreamTypes /\ Observed(held, 0) \in Nat /\ Over
  BY <1>2, HeldFacts DEF StreamInv, CollectInv
<1>4. /\ answer' \in [no : Nat, format : WireFormats, step : Steps]
      /\ answer'.no = answer.no /\ answer'.format = answer.format /\ answer'.step = "done"
      /\ record' \in [state : {"started", "partial", "succeeded", "failed"}, usage : Nat,
                      learned : BOOLEAN]
      /\ record'.state = (IF n = Len(frames) THEN "succeeded" ELSE "failed")
      /\ record'.state = "succeeded" => record'.usage = Observed(held, 0)
  <2> HIDE DEF frames
  <2>1. CASE n = Len(frames)
    BY <1>1, <1>3, <2>1, Finishes
  <2>2. CASE n # Len(frames)
    BY <1>1, <1>3, <2>2, Finishes
  <2> QED
    BY <2>1, <2>2
<1>5. Keeps
  BY <1>2, <1>4, AsItWas
<1>6. /\ front \in Seq(StreamEvents) /\ out = <<>>
      /\ Pieces(front, "text") = Brought({"text"})
      /\ Announced => Pieces(front, "tool") = ToolPieces
      /\ Len(Picked(front, OfType("open"))) \in 0 .. 1
      /\ w \in [committed : BOOLEAN, text : Seq(Own), response : Seq(Own)]
      /\ client.format = "responses" => FinalParts(w) = Brought({"text"})
  BY <1>2, HeldFacts
<1>7. frames = front \o Closing(w) /\ out' = out \o SubSeq(frames, 1, n)
  BY <1>1
<1>8. writer' = w
  BY <1>2
<1> HIDE DEF w, front, frames
<1> DEFINE whole == n = Len(frames)
<1>9. Ends(out', out, front, w, whole) /\ out' \in Seq(OwnEvents)
  <2>1. out \in Seq(StreamEvents)
    BY <1>6, EmptySeq
  <2>2. Ends(out', out, front, w, n = Len(frames))
    BY <1>3, <1>6, <1>7, <2>1, Ended
  <2> QED
    BY <2>2 DEF Ends
<1>13. whole \in BOOLEAN /\ (record'.state = "succeeded" <=> whole)
  BY <1>4
<1> HIDE DEF whole
<1>10. StreamTypes'
  BY <1>2, <1>3, <1>4, <1>5, <1>6, <1>8, <1>9 DEF StreamTypes, Keeps
<1>11. InOrderOnce' /\ EndsOnlyWhenWhole'
  BY <1>2, <1>3, <1>4, <1>5, <1>6, <1>9, <1>13, <1>10, SentAtOnce
<1>12. RecordIsTrue'
  <2>1. record'.state = "succeeded" => record'.usage = UsageSeen'
    BY <1>2, <1>4, <1>5, HeldFacts DEF Keeps
  <2>2. \E i \in Read' : body'[i].kind \in Terminals
    BY <1>2, <1>3, OverIsRead, SameBody
  <2>3. ~client'.streams
    BY <1>2, HeldFacts
  <2> QED
    BY <1>4, <2>1, <2>2, <2>3 DEF RecordIsTrue, Terminals
<1> QED
  BY <1>4, <1>10, <1>11, <1>12, AtTheEnd

-----------------------------------------------------------------------------
(* An answer in one piece. *)
LEMMA JsonBodiesAre ==
    ASSUME NEW b \in JsonBodies
    PROVE  /\ b \in Seq(FrameRecords) /\ Len(b) \in 1 .. 2
           /\ \A i \in 1 .. Len(b) : /\ b[i].kind \in {"text", "tool"}
                                     /\ b[i].usage <=> i = Len(b)
           /\ Len(b) = 2 => b[1].kind = "text" /\ b[2].kind = "tool"
<1> DEFINE Brings(kind, usage) == [kind |-> kind, usage |-> usage]
<1>1. \A kind \in {"text", "tool"}, usage \in BOOLEAN :
         /\ Brings(kind, usage) \in FrameRecords
         /\ Brings(kind, usage).kind = kind /\ Brings(kind, usage).usage = usage
  BY DEF FrameRecords, FrameKinds
<1>2. \/ b = <<Brings("text", TRUE)>> \/ b = <<Brings("tool", TRUE)>>
      \/ b = <<Brings("text", FALSE), Brings("tool", TRUE)>>
  BY DEF JsonBodies
<1> HIDE DEF Brings
<1>3. ASSUME NEW e \in FrameRecords, b = <<e>>, e.kind \in {"text", "tool"}, e.usage = TRUE
      PROVE  /\ b \in Seq(FrameRecords) /\ Len(b) \in 1 .. 2
             /\ \A i \in 1 .. Len(b) : b[i].kind \in {"text", "tool"} /\ (b[i].usage <=> i = Len(b))
             /\ Len(b) = 2 => b[1].kind = "text" /\ b[2].kind = "tool"
  <2>1. Len(b) = 1 /\ b[1] = e /\ b \in Seq(FrameRecords)
    BY <1>3
  <2>2. \A i \in 1 .. Len(b) : i = 1
    BY <2>1
  <2>3. \A i \in 1 .. Len(b) : b[i].kind \in {"text", "tool"} /\ b[i].usage = TRUE
    BY <1>3, <2>1, <2>2
  <2>4. \A i \in 1 .. Len(b) : b[i].usage <=> i = Len(b)
    BY <2>1, <2>2, <2>3
  <2> QED
    BY <2>1, <2>3, <2>4
<1>4. CASE b = <<Brings("text", TRUE)>> \/ b = <<Brings("tool", TRUE)>>
  BY <1>1, <1>3, <1>4
<1>5. CASE b = <<Brings("text", FALSE), Brings("tool", TRUE)>>
  <2>1. /\ Len(b) = 2 /\ b[1] = Brings("text", FALSE) /\ b[2] = Brings("tool", TRUE)
        /\ b \in Seq(FrameRecords)
    <3>1. Brings("text", FALSE) \in FrameRecords /\ Brings("tool", TRUE) \in FrameRecords
      BY <1>1
    <3>2. \A c \in FrameRecords, d \in FrameRecords :
            /\ Len(<<c, d>>) = 2 /\ <<c, d>>[1] = c /\ <<c, d>>[2] = d
            /\ <<c, d>> \in Seq(FrameRecords)
      OBVIOUS
    <3> QED
      BY <1>5, <3>1, <3>2
  <2>2. /\ b[1].kind = "text" /\ ~b[1].usage
        /\ b[2].kind = "tool" /\ b[2].usage
    BY <1>1, <2>1
  <2>3. ASSUME NEW i \in 1 .. Len(b)
        PROVE  b[i].kind \in {"text", "tool"} /\ (b[i].usage <=> i = Len(b))
    <3>1. i = 1 \/ i = 2
      BY <2>1
    <3>2. CASE i = 1
      BY <2>1, <2>2, <3>2
    <3>3. CASE i = 2
      BY <2>1, <2>2, <3>3
    <3> QED
      BY <3>1, <3>2, <3>3
  <2>4. Len(b) \in 1 .. 2
    BY <2>1
  <2> QED
    BY <2>1, <2>2, <2>3, <2>4
<1> QED
  BY <1>2, <1>4, <1>5

LEMMA JsonReplyStep ==
    ASSUME StreamInv, NEW b \in JsonBodies, JsonReply(b)
    PROVE  StreamInv'
<1> USE DEF StreamInv
<1>1. /\ Step("json") /\ body' = b /\ Goto("replied")
      /\ client' = client /\ decoder' = decoder /\ held' = held /\ writer' = writer /\ out' = out
      /\ record' = record
  BY DEF JsonReply
<1>2. /\ answer' \in [no : Nat, format : WireFormats, step : Steps]
      /\ answer'.no = answer.no /\ answer'.format = answer.format /\ answer'.step = "replied"
  BY <1>1, Moves DEF Steps
<1>3. held = <<>> /\ Untouched /\ record.state = "started" /\ ~record.learned
  BY <1>1 DEF PhaseInv, Step
<1>4. Own' = Own /\ OwnEvents' = OwnEvents
  BY <1>2, SameAnswer
<1>5. StreamTypes'
  BY <1>1, <1>2, <1>4, JsonBodiesAre DEF StreamTypes, FrameRecords
<1>6. PhaseInv'
  BY <1>1, <1>2, <1>3 DEF PhaseInv, Step, Untouched
<1> QED
  BY <1>2, <1>5, <1>6 DEF DecoderInv, PumpInv, SettleInv, CollectInv, Step

(* Everything of such an answer counts. *)
LEMMA RepliedFacts ==
    ASSUME StreamInv, Step("replied")
    PROVE  /\ StreamTypes /\ body \in JsonBodies /\ out = <<>> /\ held = <<>>
           /\ ~writer.committed /\ writer.text = <<>> /\ writer.response = <<>>
           /\ Read = 1 .. Len(body) /\ UsageSeen = Len(body) /\ Len(body) \in Nat
           /\ ToolPieces = Brought({"tool"})
<1> USE DEF StreamInv
<1>1. /\ body \in JsonBodies /\ held = <<>> /\ Untouched
  BY DEF PhaseInv
<1>2. out = <<>> /\ ~writer.committed /\ writer.text = <<>> /\ writer.response = <<>>
  BY <1>1 DEF Untouched, NewWriter
<1>3. /\ Len(body) \in 1 .. 2
      /\ \A i \in 1 .. Len(body) : /\ body[i].kind \in {"text", "tool"}
                                   /\ body[i].usage <=> i = Len(body)
  BY <1>1, JsonBodiesAre
<1>4. Read = 1 .. Len(body)
  <2>1. \A i \in 1 .. Len(body) : \A j \in 1 .. i - 1 : body[j].kind \notin Terminals
    <3> SUFFICES ASSUME NEW i \in 1 .. Len(body), NEW j \in 1 .. i - 1
                 PROVE  body[j].kind \notin Terminals
      OBVIOUS
    <3>1. j \in 1 .. Len(body)
      BY <1>3
    <3> QED
      BY <1>3, <3>1 DEF Terminals
  <2> QED
    BY <2>1 DEF Read
<1>5. UsageSeen = Len(body)
  <2>1. Len(body) \in Dates
    BY <1>3, <1>4 DEF Dates
  <2>2. /\ UsageSeen \in Dates /\ (\A i \in Dates : i \leq UsageSeen)
        /\ Dates \subseteq 0 .. Len(body)
    BY SeenIsLast
  <2>3. Len(body) \leq UsageSeen /\ UsageSeen \in 0 .. Len(body)
    BY <2>1, <2>2
  <2> QED
    BY <1>3, <2>3
<1>6. ToolPieces = Brought({"tool"})
  <2>1. \A i \in Read : body[i].kind \in {"tool", "delta", "rest"} <=> body[i].kind \in {"tool"}
    BY <1>3, <1>4
  <2>2. {j \in Read : body[j].kind \in {"tool", "delta", "rest"}} = {j \in Read : body[j].kind \in {"tool"}}
    BY <2>1
  <2> QED
    BY <2>2 DEF ToolPieces, Brought
<1> QED
  BY <1>1, <1>2, <1>3, <1>4, <1>5, <1>6

LEMMA CompleteReplyStep ==
    ASSUME StreamInv, CompleteReply
    PROVE  StreamInv'
<1>1. /\ Step("replied") /\ ~client.streams
      /\ \/ /\ out' = Append(out, Event("json", Brought({"text"})))
            /\ Finish("succeeded", Len(body), TRUE)
         \/ Finish("failed", 0, TRUE) /\ out' = out
      /\ client' = client /\ body' = body /\ decoder' = decoder /\ held' = held /\ writer' = writer
  BY DEF CompleteReply
<1>2. /\ StreamTypes /\ body \in JsonBodies /\ out = <<>> /\ UsageSeen = Len(body) /\ Len(body) \in Nat
  BY <1>1, RepliedFacts
<1>3. /\ answer' \in [no : Nat, format : WireFormats, step : Steps]
      /\ answer'.no = answer.no /\ answer'.format = answer.format /\ answer'.step = "done"
      /\ record' \in [state : {"started", "partial", "succeeded", "failed"}, usage : Nat,
                      learned : BOOLEAN]
      /\ \/ record'.state = "succeeded" /\ record'.usage = Len(body)
            /\ out' = Append(out, Event("json", Brought({"text"})))
         \/ record'.state = "failed" /\ out' = out
  <2>1. CASE Finish("succeeded", Len(body), TRUE) /\ out' = Append(out, Event("json", Brought({"text"})))
    BY <1>2, <2>1, Finishes
  <2>2. CASE Finish("failed", 0, TRUE) /\ out' = out
    BY <1>2, <2>2, Finishes
  <2> QED
    BY <1>1, <2>1, <2>2
<1>4. Keeps
  BY <1>1, <1>3, AsItWas
<1> DEFINE e == Event("json", Brought({"text"}))
<1>5. e \in OwnEvents /\ e \in Events /\ e.type = "json"
  BY <1>2, BroughtType, EventIsOwn, StreamEventsAreEvents
<1>6. out' = <<>> \/ (out' = <<e>> /\ record'.state = "succeeded")
  BY <1>2, <1>3
<1>7. record'.state = "succeeded" => out' = <<e>>
  BY <1>2, <1>3
<1> HIDE DEF e
<1>8. out' \in Seq(OwnEvents)
  <2>1. <<e>> \in Seq(OwnEvents) /\ <<>> \in Seq(OwnEvents)
    BY <1>5, EmptySeq
  <2> QED
    BY <1>6, <2>1
<1>9. StreamTypes'
  BY <1>1, <1>2, <1>3, <1>4, <1>8 DEF StreamTypes, Keeps
<1>10. \A type \in {"text", "tool"} : Pieces(out', type) = <<>>
  BY <1>5, <1>6, PiecesEmpty, PiecesOne
<1>11. \A type : type # "json" => Len(Picked(out', OfType(type))) = 0
  <2>1. \A type : type # "json" => e \notin OfType(type)
    BY <1>5 DEF OfType
  <2>2. \A type : type # "json" => Picked(<<e>>, OfType(type)) = <<>> /\ Picked(<<>>, OfType(type)) = <<>>
    BY <2>1, PickedOne, PickedEmpty
  <2>3. Len(<<>>) = 0
    OBVIOUS
  <2> QED
    BY <1>6, <2>2, <2>3
<1>12. record'.state = "succeeded" => Len(Picked(out', OfType("json"))) = 1
  <2>1. e \in OfType("json")
    BY <1>5 DEF OfType
  <2>2. Picked(<<e>>, OfType("json")) = <<e>> /\ Len(<<e>>) = 1
    BY <2>1, PickedOne
  <2> QED
    BY <1>7, <2>2
<1>13. InOrderOnce'
  <2>1. Len(Brought({"text"})) \in Nat /\ Len(ToolPieces) \in Nat
    BY <1>2, BroughtType, LenProperties DEF ToolPieces
  <2>2. Begins(<<>>, Brought({"text"})) /\ Begins(<<>>, ToolPieces)
    BY <2>1, BeginsEmpty
  <2>3. Begins(Pieces(out', "text"), Brought({"text"})') /\ Begins(Pieces(out', "tool"), ToolPieces')
    BY <1>4, <1>10, <2>2 DEF Keeps
  <2>4. Count("open")' = 0 /\ Count("refusal")' = 0
    BY <1>11 DEF Count
  <2> QED
    BY <2>3, <2>4 DEF InOrderOnce, Got
<1>14. EndsOnlyWhenWhole'
  <2>1. Count("terminal")' = 0
    BY <1>11 DEF Count
  <2> QED
    BY <1>12, <2>1 DEF EndsOnlyWhenWhole, Count
<1>15. RecordIsTrue'
  <2>1. record'.state = "succeeded" => record'.usage = UsageSeen'
    BY <1>2, <1>3, <1>4 DEF Keeps
  <2> QED
    BY <1>1, <1>2, <1>3, <2>1 DEF RecordIsTrue
<1> QED
  BY <1>3, <1>9, <1>13, <1>14, <1>15, AtTheEnd

(* The pieces that an answer holds, one delta each. *)
DeltasOf(type, s) == [i \in 1 .. Len(s) |-> Event(type, <<s[i]>>)]

LEMMA DeltasFacts ==
    ASSUME StreamTypes, NEW s \in Seq(Own), NEW type \in {"text", "tool"}
    PROVE  /\ DeltasOf(type, s) \in Seq({e \in FrameEvents : e.type = type})
           /\ Pieces(DeltasOf(type, s), type) = s
<1> DEFINE E == {e \in FrameEvents : e.type = type /\ e.parts # <<>>}
           d == DeltasOf(type, s)
<1>1. Len(s) \in Nat /\ \A i \in 1 .. Len(s) : s[i] \in Own
  BY LenProperties
<1>2. ASSUME NEW i \in 1 .. Len(s)
      PROVE  /\ Event(type, <<s[i]>>) \in E
             /\ Event(type, <<s[i]>>).parts[1] = s[i]
  <2>1. <<s[i]>> \in Seq(Own) /\ <<s[i]>> # <<>> /\ <<s[i]>>[1] = s[i]
    BY <1>1
  <2> DEFINE p == <<s[i]>>
  <2> HIDE DEF p
  <2>2. /\ Event(type, p) \in OwnEvents /\ Event(type, p).type = type
        /\ Event(type, p).parts = p
    <3>1. /\ p \in Seq(Own)
          /\ type \in {"text", "tool", "usage", "error", "response", "open", "close", "terminal",
                       "json", "refusal"}
      BY <2>1 DEF p
    <3>2. Event(type, p) \in OwnEvents
      BY <3>1, EventIsOwn
    <3> QED
      BY <3>2 DEF Event
  <2>3. Event(type, p) \in FrameEvents
    BY <2>2 DEF FrameEvents
  <2> QED
    BY <2>1, <2>2, <2>3 DEF p
<1>3. d \in Seq(E) /\ Len(d) = Len(s) /\ \A i \in 1 .. Len(s) : d[i].parts[1] = s[i]
  <2>1. d = [i \in 1 .. Len(s) |-> Event(type, <<s[i]>>)]
    BY DEF DeltasOf
  <2> HIDE DEF E
  <2> QED
    BY <1>1, <1>2, <2>1
<1>4. FirstParts(d) = s
  <2>1. FirstParts(d) = [i \in 1 .. Len(s) |-> d[i].parts[1]]
    BY <1>3 DEF FirstParts
  <2>2. FirstParts(d) = [i \in 1 .. Len(s) |-> s[i]]
    BY <1>3, <2>1
  <2> QED
    BY <1>1, <2>2
<1>5. E \subseteq With(type) /\ E \subseteq {e \in FrameEvents : e.type = type}
  BY FrameEventsAreEvents DEF With, OfType
<1> HIDE DEF E, d
<1>6. Picked(d, With(type)) = d
  BY <1>3, <1>5, PickedAll
<1>7. d \in Seq({e \in FrameEvents : e.type = type})
  BY <1>3, <1>5, SeqMonotonic
<1> QED
  BY <1>4, <1>6, <1>7, PiecesAre DEF d

LEMMA ExpandedFacts ==
    ASSUME StreamTypes
    PROVE  /\ Expanded \in Seq(FrameEvents)
           /\ Pieces(Expanded, "text") = Brought({"text"})
           /\ Pieces(Expanded, "tool") = Brought({"tool"})
           /\ \A i \in 1 .. Len(Expanded) : Expanded[i].type = "response" =>
                  Expanded[i].parts \in {<<>>, Brought({"text"})}
<1> DEFINE text == Brought({"text"})
           tool == Brought({"tool"})
           a == DeltasOf("text", text)
           b == DeltasOf("tool", tool)
           usage == Event("usage", <<<<answer.no, Len(body)>>>>)
           E == {e \in FrameEvents : e.type = "response" => e.parts \in {<<>>, text}}
<1>1. text \in Seq(Own) /\ tool \in Seq(Own)
  BY BroughtType
<1>2. Expanded = <<JsonResponse>> \o a \o b \o <<usage>>
  BY DEF Expanded, DeltasOf
<1>3. JsonResponse \in E /\ JsonResponse.type = "response"
  <2> DEFINE parts == IF answer.format = "chat" THEN <<>> ELSE text
  <2>1. parts \in Seq(Own) /\ parts \in {<<>>, text} /\ JsonResponse = Event("response", parts)
    BY <1>1, EmptySeq DEF JsonResponse
  <2> HIDE DEF parts, text
  <2>2. /\ Event("response", parts) \in OwnEvents /\ Event("response", parts).type = "response"
        /\ Event("response", parts).parts = parts
    BY <2>1, EventIsOwn
  <2> QED
    BY <2>1, <2>2 DEF FrameEvents
<1>4. usage \in E /\ usage.type = "usage"
  <2>1. <<answer.no, Len(body)>> \in Own
    BY LenProperties DEF Own, StreamTypes
  <2>2. <<<<answer.no, Len(body)>>>> \in Seq(Own)
    BY <2>1
  <2>3. usage \in OwnEvents /\ usage.type = "usage"
    BY <2>2, EventIsOwn
  <2> QED
    BY <2>3 DEF FrameEvents
<1>5. /\ a \in Seq({e \in FrameEvents : e.type = "text"}) /\ Pieces(a, "text") = text
      /\ b \in Seq({e \in FrameEvents : e.type = "tool"}) /\ Pieces(b, "tool") = tool
  BY <1>1, DeltasFacts
<1>6. Pieces(a, "tool") = <<>> /\ Pieces(b, "text") = <<>>
  BY <1>5, PiecesNone
<1>7. /\ {e \in FrameEvents : e.type = "text"} \subseteq E
      /\ {e \in FrameEvents : e.type = "tool"} \subseteq E
      /\ E \subseteq FrameEvents /\ E \subseteq Events
  BY FrameEventsAreEvents
<1> DEFINE r == <<JsonResponse>>
           u == <<usage>>
<1>8. a \in Seq(E) /\ b \in Seq(E) /\ r \in Seq(E) /\ u \in Seq(E)
  <2>1. r \in Seq(E) /\ u \in Seq(E)
    BY <1>3, <1>4
  <2> HIDE DEF E, a, b
  <2> QED
    BY <1>5, <1>7, <2>1, SeqMonotonic
<1>9. \A type \in {"text", "tool"} : Pieces(r, type) = <<>> /\ Pieces(u, type) = <<>>
  <2>1. JsonResponse \in Events /\ usage \in Events
    BY <1>3, <1>4, <1>7
  <2> HIDE DEF usage
  <2> QED
    BY <1>3, <1>4, <2>1, PiecesOne
<1>10. Expanded = ((r \o a) \o b) \o u
  BY <1>2
<1> HIDE DEF E, a, b, r, u, usage, text, tool
<1>11. /\ r \o a \in Seq(E) /\ (r \o a) \o b \in Seq(E) /\ ((r \o a) \o b) \o u \in Seq(E)
  BY <1>8, ConcatProperties
<1>12. ASSUME NEW type \in {"text", "tool"}
       PROVE  Pieces(Expanded, type) = (Pieces(a, type) \o Pieces(b, type))
  <2> DEFINE ra == r \o a
             rab == ra \o b
  <2>1. /\ r \in Seq(Events) /\ a \in Seq(Events) /\ b \in Seq(Events) /\ u \in Seq(Events)
        /\ ra \in Seq(Events) /\ rab \in Seq(Events)
    BY <1>7, <1>8, <1>11, SeqMonotonic
  <2>2. Pieces(ra, type) = Pieces(r, type) \o Pieces(a, type)
    BY <2>1, PiecesConcat
  <2> HIDE DEF ra
  <2>3. Pieces(rab, type) = Pieces(ra, type) \o Pieces(b, type)
    BY ZenonT(60), SMTT(60), <2>1, PiecesConcat
  <2>4. Expanded = rab \o u
    BY <1>10 DEF ra
  <2> HIDE DEF rab
  <2>5. Pieces(Expanded, type) = Pieces(rab, type) \o Pieces(u, type)
    BY ZenonT(60), SMTT(60), <2>1, <2>4, PiecesConcat
  <2>6. /\ Pieces(a, type) \in Seq(Own) /\ Pieces(b, type) \in Seq(Own)
    BY <1>1, <1>5, <1>6, EmptySeq
  <2>7. Pieces(ra, type) = Pieces(a, type)
    BY <1>9, <2>2, <2>6, ConcatEmptySeq
  <2>8. Pieces(a, type) \o Pieces(b, type) \in Seq(Own)
    BY <2>6, ConcatProperties
  <2> QED
    BY <1>9, <2>3, <2>5, <2>7, <2>8, ConcatEmptySeq
<1>13. Pieces(Expanded, "text") = text /\ Pieces(Expanded, "tool") = tool
  <2>1. text \o <<>> = text /\ <<>> \o tool = tool
    BY <1>1, ConcatEmptySeq
  <2> QED
    BY <1>5, <1>6, <1>12, <2>1
<1>14. Expanded \in Seq(E) /\ Expanded \in Seq(FrameEvents)
  BY <1>7, <1>10, <1>11, SeqMonotonic
<1>15. \A i \in 1 .. Len(Expanded) : Expanded[i] \in E
  BY <1>14, ElementOfSeq
<1> QED
  BY <1>13, <1>14, <1>15 DEF E, text, tool

LEMMA StreamReplyStep ==
    ASSUME StreamInv, StreamReply
    PROVE  StreamInv'
<1> DEFINE w == WriterAfter(Expanded)
           front == Written(Expanded)
           frames == front \o Closing(w)
<1>1. PICK n \in 0 .. Len(frames) :
          /\ out' = out \o SubSeq(frames, 1, n)
          /\ Finish(IF n = Len(frames) THEN "succeeded" ELSE "partial", Len(body), TRUE)
  BY DEF StreamReply, Sent
<1>2. /\ Step("replied") /\ writer' = WriterAfter(Expanded)
      /\ client' = client /\ body' = body /\ decoder' = decoder /\ held' = held
  BY DEF StreamReply
<1>3. /\ StreamTypes /\ body \in JsonBodies /\ out = <<>>
      /\ writer.text = <<>> /\ writer.response = <<>>
      /\ UsageSeen = Len(body) /\ Len(body) \in Nat /\ ToolPieces = Brought({"tool"})
  BY <1>2, RepliedFacts
<1> DEFINE whole == n = Len(frames)
<1>4. /\ answer' \in [no : Nat, format : WireFormats, step : Steps]
      /\ answer'.no = answer.no /\ answer'.format = answer.format /\ answer'.step = "done"
      /\ record' \in [state : {"started", "partial", "succeeded", "failed"}, usage : Nat,
                      learned : BOOLEAN]
      /\ record'.state = (IF whole THEN "succeeded" ELSE "partial")
      /\ record'.usage = Len(body)
  <2> HIDE DEF frames
  <2>1. CASE n = Len(frames)
    BY <1>1, <1>3, <2>1, Finishes
  <2>2. CASE n # Len(frames)
    BY <1>1, <1>3, <2>2, Finishes
  <2> QED
    BY <2>1, <2>2
<1>5. Keeps
  BY <1>2, <1>4, AsItWas
<1>6. /\ Expanded \in Seq(FrameEvents)
      /\ Pieces(Expanded, "text") = Brought({"text"})
      /\ Pieces(Expanded, "tool") = ToolPieces
      /\ \A i \in 1 .. Len(Expanded) : Expanded[i].type = "response" =>
             Expanded[i].parts \in {<<>>, Brought({"text"})}
  BY <1>3, ExpandedFacts
<1>7. /\ front \in Seq(StreamEvents)
      /\ Pieces(front, "text") = Brought({"text"})
      /\ Announced => Pieces(front, "tool") = ToolPieces
      /\ Len(Picked(front, OfType("open"))) \in 0 .. 1
  BY <1>3, <1>6, WrittenFacts
<1>8. /\ w \in [committed : BOOLEAN, text : Seq(Own), response : Seq(Own)]
      /\ client.format = "responses" => FinalParts(w) = Brought({"text"})
  <2>1. /\ w \in [committed : BOOLEAN, text : Seq(Own), response : Seq(Own)]
        /\ w.text = IF client.format = "responses" THEN writer.text \o Pieces(Expanded, "text") ELSE <<>>
        /\ \/ w.response = writer.response
           \/ \E i \in 1 .. Len(Expanded) : /\ Expanded[i].type = "response"
                                            /\ w.response = Expanded[i].parts
    BY <1>3, <1>6, WriterFacts
  <2> HIDE DEF w
  <2>2. client.format = "responses" => w.text = Brought({"text"})
    BY <1>3, <1>6, <2>1, BroughtType, ConcatEmptySeq
  <2>3. w.response \in {<<>>, Brought({"text"})}
    BY <1>3, <1>6, <2>1
  <2> QED
    BY <2>1, <2>2, <2>3 DEF FinalParts
<1>9. frames = front \o Closing(w) /\ out' = out \o SubSeq(frames, 1, n) /\ writer' = w
  BY <1>1, <1>2
<1> HIDE DEF w, front, frames
<1>10. Ends(out', out, front, w, whole) /\ out' \in Seq(OwnEvents)
  <2>1. out \in Seq(StreamEvents)
    BY <1>3, EmptySeq
  <2>2. Ends(out', out, front, w, n = Len(frames))
    BY <1>3, <1>7, <1>8, <1>9, <2>1, Ended
  <2> QED
    BY <2>2 DEF Ends
<1>11. whole \in BOOLEAN /\ (record'.state = "succeeded" <=> whole)
  BY <1>4
<1> HIDE DEF whole
<1>12. StreamTypes'
  BY <1>2, <1>3, <1>4, <1>5, <1>8, <1>9, <1>10 DEF StreamTypes, Keeps
<1>13. InOrderOnce' /\ EndsOnlyWhenWhole'
  BY <1>2, <1>3, <1>4, <1>5, <1>7, <1>8, <1>10, <1>11, <1>12, SentAtOnce
<1>14. RecordIsTrue'
  BY <1>2, <1>3, <1>4, <1>5 DEF RecordIsTrue, Keeps
<1> QED
  BY <1>4, <1>12, <1>13, <1>14, AtTheEnd

-----------------------------------------------------------------------------
(* After a failure. *)
LEMMA AskAnotherStep ==
    ASSUME StreamInv, AskAnother
    PROVE  StreamInv'
<1> USE DEF StreamInv
<1>1. /\ Step("failed") /\ answer' = NewAnswer(answer.no + 1)
      /\ body' = <<>> /\ held' = <<>> /\ decoder' = NewDecoder /\ writer' = NewWriter
      /\ record' = [record EXCEPT !.usage = 0]
      /\ client' = client /\ out' = out
  BY DEF AskAnother
<1>2. /\ answer' \in [no : Nat, format : WireFormats, step : Steps] /\ answer'.step = "call"
  BY <1>1 DEF NewAnswer, WireFormats, Steps, StreamTypes
<1>3. out = <<>> /\ record.state = "started" /\ ~record.learned
  BY <1>1 DEF PhaseInv, Step
<1>4. /\ record' \in [state : {"started", "partial", "succeeded", "failed"}, usage : Nat,
                      learned : BOOLEAN]
      /\ record'.state = "started" /\ ~record'.learned /\ record'.usage = 0
  BY <1>1, <1>3 DEF StreamTypes
<1>5. /\ decoder' \in [count : Nat, terminal : BOOLEAN, failed : BOOLEAN,
                       tool : [named : BOOLEAN, args : Seq(Own'), emitted : Nat]]
      /\ writer' \in [committed : BOOLEAN, text : Seq(Own'), response : Seq(Own')]
  BY <1>1, EmptySeq DEF NewDecoder, NewWriter, NoTool
<1>6. StreamTypes'
  <2>1. body' \in Seq([kind : FrameKinds, usage : BOOLEAN])
        /\ held' \in Seq(OwnEvents') /\ out' \in Seq(OwnEvents')
    BY <1>1, <1>3, EmptySeq
  <2> QED
    BY <1>1, <1>2, <1>4, <1>5, <2>1 DEF StreamTypes
<1>7. PhaseInv'
  BY <1>1, <1>2, <1>3, <1>4 DEF PhaseInv, Step, Untouched
<1> QED
  BY <1>2, <1>6, <1>7 DEF DecoderInv, PumpInv, SettleInv, CollectInv, Step

LEMMA GiveUpStep ==
    ASSUME StreamInv, GiveUp
    PROVE  StreamInv'
<1> USE DEF StreamInv
<1> DEFINE e == Event("refusal", <<>>)
<1>1. /\ Step("failed") /\ out' = Append(out, e) /\ Finish("failed", 0, record.learned)
      /\ client' = client /\ body' = body /\ decoder' = decoder /\ held' = held /\ writer' = writer
  BY DEF GiveUp
<1>2. out = <<>> /\ ~writer.committed /\ ~record.learned /\ record.learned \in BOOLEAN
  BY <1>1 DEF PhaseInv, Step, StreamTypes
<1>3. /\ answer' \in [no : Nat, format : WireFormats, step : Steps]
      /\ answer'.no = answer.no /\ answer'.format = answer.format /\ answer'.step = "done"
      /\ record' \in [state : {"started", "partial", "succeeded", "failed"}, usage : Nat,
                      learned : BOOLEAN]
      /\ record'.state = "failed" /\ ~record'.learned
  BY <1>1, <1>2, Finishes
<1>4. Keeps
  BY <1>1, <1>3, AsItWas
<1>5. e \in OwnEvents /\ e \in Events /\ e.type = "refusal"
  BY EmptySeq, EventIsOwn, StreamEventsAreEvents
<1>6. out' = <<e>>
  BY <1>1, <1>2
<1> HIDE DEF e
<1>7. <<e>> \in Seq(OwnEvents) /\ Len(<<e>>) = 1 /\ Len(<<>>) = 0
  BY <1>5
<1>8. StreamTypes'
  BY <1>1, <1>3, <1>4, <1>6, <1>7 DEF StreamTypes, Keeps
<1>9. Got("text")' = <<>> /\ Got("tool")' = <<>>
  BY <1>5, <1>6, PiecesOne DEF Got
<1>10. Count("open")' = 0 /\ Count("terminal")' = 0 /\ Count("refusal")' = 1 /\ Len(out') = 1
  <2>1. e \in OfType("refusal") /\ e \notin OfType("open") /\ e \notin OfType("terminal")
    BY <1>5 DEF OfType
  <2> QED
    BY <1>6, <1>7, <2>1, PickedOne DEF Count
<1>11. InOrderOnce'
  <2>1. Len(Brought({"text"})) \in Nat /\ Len(ToolPieces) \in Nat
    BY BroughtType, LenProperties DEF ToolPieces
  <2>2. Begins(<<>>, Brought({"text"})) /\ Begins(<<>>, ToolPieces)
    BY <2>1, BeginsEmpty
  <2>3. Begins(Got("text")', Brought({"text"})') /\ Begins(Got("tool")', ToolPieces')
    BY <1>4, <1>9, <2>2 DEF Keeps
  <2> QED
    BY <1>10, <2>3 DEF InOrderOnce
<1>12. EndsOnlyWhenWhole'
  BY <1>3, <1>10 DEF EndsOnlyWhenWhole
<1>13. RecordIsTrue'
  BY <1>1, <1>2, <1>3, <1>10 DEF RecordIsTrue
<1> QED
  BY <1>3, <1>8, <1>11, <1>12, <1>13, AtTheEnd

-----------------------------------------------------------------------------
LEMMA StreamStart == StreamInit => StreamInv
<1> SUFFICES ASSUME StreamInit PROVE StreamInv
  OBVIOUS
<1>1. /\ client \in [format : WireFormats, streams : BOOLEAN] /\ answer = NewAnswer(1)
      /\ body = <<>> /\ held = <<>> /\ out = <<>> /\ decoder = NewDecoder /\ writer = NewWriter
      /\ record = [state |-> "started", usage |-> 0, learned |-> FALSE]
  BY DEF StreamInit
<1>2. answer \in [no : Nat, format : WireFormats, step : Steps] /\ answer.step = "call"
  BY <1>1 DEF NewAnswer, WireFormats, Steps
<1>3. StreamTypes
  BY <1>1, <1>2, EmptySeq DEF StreamTypes, NewDecoder, NewWriter, NoTool
<1>4. PhaseInv
  BY <1>1, <1>2 DEF PhaseInv, Step, Untouched
<1> QED
  BY <1>2, <1>3, <1>4 DEF StreamInv, DecoderInv, PumpInv, SettleInv, CollectInv, Step

LEMMA StreamRests ==
    ASSUME StreamInv, UNCHANGED streamVars
    PROVE  StreamInv'
<1>1. /\ client' = client /\ answer' = answer /\ body' = body /\ decoder' = decoder
      /\ held' = held /\ writer' = writer /\ out' = out /\ record' = record
  BY DEF streamVars
<1>2. Keeps
  BY <1>1, AsItWas
<1>3. StreamTypes'
  BY <1>1, <1>2 DEF StreamInv, StreamTypes, Keeps
<1>4. PhaseInv'
  BY <1>1 DEF StreamInv, PhaseInv, Step, Untouched
<1>5. Follows => Follows'
  BY <1>1, <1>2 DEF Follows, Keeps
<1>6. DecoderInv'
  BY <1>1, <1>5 DEF StreamInv, DecoderInv, Step
<1>7. (Passed(out) => Passed(out)') /\ (Passed(held) => Passed(held)')
  BY <1>1, <1>2 DEF Passed, Keeps
<1>8. \A type : Count(type)' = Count(type) /\ Got(type)' = Got(type)
  BY <1>1 DEF Count, Got
<1>9. WriterInv => WriterInv'
  BY <1>1, <1>2, <1>8 DEF WriterInv, Keeps
<1>10. InOrderOnce => InOrderOnce'
  BY <1>1, <1>2, <1>8 DEF InOrderOnce, Keeps
<1>11. EndsOnlyWhenWhole => EndsOnlyWhenWhole'
  BY <1>1, <1>2, <1>8 DEF EndsOnlyWhenWhole, Keeps, Step
<1>12. RecordIsTrue => RecordIsTrue'
  <2>1. Read' = Read
    BY <1>1, SameBody
  <2> QED
    BY <1>1, <1>2, <1>8, <2>1 DEF RecordIsTrue, Keeps
<1>13. PumpInv'
  BY <1>1, <1>2, <1>7, <1>9 DEF StreamInv, PumpInv, Step, Keeps
<1>14. SettleInv'
  BY <1>1, <1>2, <1>8, <1>9, <1>10, <1>11 DEF StreamInv, SettleInv, Step, Keeps
<1>15. CollectInv'
  <2>1. Observed(held, 0)' = Observed(held, 0)
    BY <1>1 DEF Observed
  <2> QED
    BY <1>1, <1>2, <1>7, <2>1 DEF StreamInv, CollectInv, Step, Keeps
<1> QED
  BY <1>1, <1>3, <1>4, <1>6, <1>10, <1>11, <1>12, <1>13, <1>14, <1>15 DEF StreamInv, Step

LEMMA StreamStep ==
    ASSUME StreamInv, [StreamNext]_streamVars
    PROVE  StreamInv'
<1>1. CASE Answer
  BY <1>1, AnswerStep
<1>2. ASSUME NEW f \in Frames, PumpFrame(f) PROVE StreamInv'
  BY <1>2, PumpFrameStep
<1>3. ASSUME NEW f \in Frames, CollectFrame(f) PROVE StreamInv'
  BY <1>3, CollectFrameStep
<1>4. CASE PumpEnds
  BY <1>4, PumpEndsStep
<1>5. CASE BreaksOff
  BY <1>5, BreaksOffStep
<1>6. CASE PumpFails \/ CollectFails \/ JsonFails
  BY <1>6, FailureSteps
<1>7. CASE FinalizeStream
  BY <1>7, FinalizeStep
<1>8. CASE CollectEnds
  BY <1>8, CollectEndsStep
<1>9. CASE PassOnPart
  BY <1>9, PassOnPartStep
<1>10. CASE CompleteCollected
  BY <1>10, CompleteCollectedStep
<1>11. CASE StreamReply
  BY <1>11, StreamReplyStep
<1>12. CASE CompleteReply
  BY <1>12, CompleteReplyStep
<1>13. ASSUME NEW frames \in JsonBodies, JsonReply(frames) PROVE StreamInv'
  BY <1>13, JsonReplyStep
<1>14. CASE AskAnother
  BY <1>14, AskAnotherStep
<1>15. CASE GiveUp
  BY <1>15, GiveUpStep
<1>16. CASE UNCHANGED streamVars
  BY <1>16, StreamRests
<1> QED
  BY <1>1, <1>2, <1>3, <1>4, <1>5, <1>6, <1>7, <1>8, <1>9, <1>10, <1>11, <1>12, <1>13, <1>14,
     <1>15, <1>16 DEF StreamNext

(* Frames that the client has belong to the answer in hand: nothing of an answer that failed *)
(* was sent.                                                                                  *)
LEMMA OnlyThisAnswer ==
    ASSUME StreamTypes
    PROVE  OneAnswerOnly
<1> SUFFICES ASSUME NEW i \in 1 .. Len(out), out[i].parts # <<>>
             PROVE  out[i].parts[1][1] = answer.no
  BY DEF OneAnswerOnly
<1>1. out[i] \in OwnEvents
  BY ElementOfSeq DEF StreamTypes
<1>2. out[i].parts \in Seq(Own)
  BY <1>1 DEF OwnEvents
<1>3. out[i].parts[1] \in Own
  BY <1>2, ElementOfSeq, EmptySeq
<1> QED
  BY <1>3 DEF Own

(* The inductive invariant: what was sent and held at each step of an answer. *)
THEOREM StreamIsInvariant == StreamSpec => []StreamInv
<1>1. StreamInv /\ [StreamNext]_streamVars => StreamInv'
  BY StreamStep
<1> QED
  BY <1>1, StreamStart, PTL DEF StreamSpec

LEMMA NothingSent ==
    ASSUME StreamTypes, out = <<>>
    PROVE  InOrderOnce /\ Count("terminal") = 0
<1>1. Got("text") = <<>> /\ Got("tool") = <<>>
  BY PiecesEmpty DEF Got
<1>2. Count("open") = 0 /\ Count("refusal") = 0 /\ Count("terminal") = 0
  BY PickedEmpty DEF Count
<1>3. Len(Brought({"text"})) \in Nat /\ Len(ToolPieces) \in Nat
  BY BroughtType, LenProperties DEF ToolPieces
<1> QED
  BY <1>1, <1>2, <1>3, BeginsEmpty DEF InOrderOnce

(* StreamsKeepFaith: a client gets the pieces of one answer only, in order and once; a stream *)
(* ends only when it is whole; the record says what was delivered.                            *)
THEOREM StreamsAreFaithful == StreamSpec => []StreamsKeepFaith
<1>1. ASSUME StreamInv PROVE StreamsKeepFaith
  <2> USE <1>1 DEF StreamInv
  <2>1. OneAnswerOnly
    BY OnlyThisAnswer
  <2>2. answer.step \in Steps
    BY DEF StreamTypes
  <2>3. ~Step("done") => record.state = "started" /\ ~record.learned
    BY DEF PhaseInv
  <2>4. ~Step("done") => RecordIsTrue
    BY <2>3 DEF RecordIsTrue
  <2>5. CASE answer.step \in {"call", "json", "replied", "failed", "collect", "collected"}
    <3>1. out = <<>> /\ ~Step("done")
      BY <2>5 DEF PhaseInv, Untouched, Step
    <3>2. InOrderOnce /\ Count("terminal") = 0
      BY <3>1, NothingSent
    <3>3. EndsOnlyWhenWhole
      BY <2>3, <3>1, <3>2 DEF EndsOnlyWhenWhole
    <3> QED
      BY <2>1, <2>4, <3>1, <3>2, <3>3 DEF StreamsKeepFaith
  <2>6. CASE Step("pump")
    <3>1. WriterInv /\ Passed(out) /\ out \in Seq(StreamEvents) /\ ~Step("done")
      BY <2>6 DEF PumpInv, Step
    <3>2. InOrderOnce
      BY <3>1, PassedInOrder DEF WriterInv
    <3>3. Count("terminal") = 0
      BY <3>1, GoesOn DEF Count
    <3>4. EndsOnlyWhenWhole
      BY <2>3, <3>1, <3>3 DEF EndsOnlyWhenWhole
    <3> QED
      BY <2>1, <2>4, <3>1, <3>2, <3>4 DEF StreamsKeepFaith
  <2>7. CASE Step("settle")
    <3>1. InOrderOnce /\ ~Step("done") /\ (decoder.failed => out \in Seq(StreamEvents))
          /\ (~decoder.failed => EndsOnlyWhenWhole)
      BY <2>7 DEF SettleInv, Step
    <3>2. decoder.failed => Count("terminal") = 0
      BY <3>1, GoesOn DEF Count
    <3>3. EndsOnlyWhenWhole
      BY <2>3, <3>1, <3>2 DEF EndsOnlyWhenWhole
    <3> QED
      BY <2>1, <2>4, <3>1, <3>3 DEF StreamsKeepFaith
  <2>8. CASE Step("done")
    BY <2>1, <2>8 DEF StreamsKeepFaith
  <2> QED
    BY <2>2, <2>5, <2>6, <2>7, <2>8 DEF Steps, Step
<1> QED
  BY <1>1, StreamIsInvariant, PTL
=============================================================================
