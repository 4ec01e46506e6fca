---------------------------- MODULE SessionsProofs --------------------------
(***************************************************************************)
(* The panes that own a worker: the frames of an OMP child, for any number *)
(* of turns, runs and chunks; the decode thread of a media pane, for any   *)
(* file, any queues and any seeks; the AI session of an Inspector, for any *)
(* number of turns, any backend and any child; the lines of a CLI view,    *)
(* for any pipes, queue, ring and restarts.                                *)
(***************************************************************************)
EXTENDS MCSessions, FoldProofs, SequenceTheorems, WellFoundedInduction, TLAPS

(***************************************************************************)
(* Frames joined from chunks                                               *)
(***************************************************************************)

(* What a series has, apart from its id: as many pieces as were taken, each *)
(* in its place.                                                            *)
Series == [id : ChunkIds \cup {"none"}, count : Nat, length : Nat,
           pieces : Seq((ChunkIds \cup {"none"}) \X Nat), bytes : Nat, torn : BOOLEAN]
InPlace(series) == \A i \in 1..Len(series.pieces) : series.pieces[i] = <<series.id, i - 1>>

RpcInv ==
    /\ partial \in Series /\ joined \in Series
    /\ InPlace(partial)
    /\ joined = NoRun \/ (/\ InPlace(joined) /\ Len(joined.pieces) = joined.count
                          /\ joined.bytes = joined.length)

\* A chunk that continues a series lands in its place.
LEMMA WithInPlace ==
  ASSUME NEW series \in Series, InPlace(series), NEW c \in Chunks, Continues(series, c)
  PROVE  With(series, c) \in Series /\ InPlace(With(series, c))
  <1> DEFINE piece == <<c.id, c.index>>
  <1>1. piece \in (ChunkIds \cup {"none"}) \X Nat
    BY RpcAssumption DEF Chunks
  <1>2. /\ Append(series.pieces, piece) \in Seq((ChunkIds \cup {"none"}) \X Nat)
        /\ Len(Append(series.pieces, piece)) = Len(series.pieces) + 1
        /\ \A i \in 1..Len(series.pieces) : Append(series.pieces, piece)[i] = series.pieces[i]
        /\ Append(series.pieces, piece)[Len(series.pieces) + 1] = piece
    BY <1>1 DEF Series
  <1>3. series.bytes + c.size \in Nat
    BY RpcAssumption DEF Series, Chunks
  <1>4. With(series, c) \in Series
    BY <1>2, <1>3 DEF With, Holding, Series
  <1>5. /\ With(series, c).pieces = Append(series.pieces, piece) /\ With(series, c).id = series.id
        /\ piece = <<series.id, Len(series.pieces)>>
    BY DEF With, Holding, Series, Continues
  <1> HIDE DEF piece
  <1>6. InPlace(With(series, c))
    <2>1. ASSUME NEW i \in 1..Len(series.pieces) + 1
          PROVE  Append(series.pieces, piece)[i] = <<series.id, i - 1>>
      <3>1. Len(series.pieces) \in Nat
        BY DEF Series
      <3>2. CASE i = Len(series.pieces) + 1
        BY <1>2, <1>5, <3>1, <3>2
      <3>3. CASE i \in 1..Len(series.pieces)
        BY <1>2, <3>3 DEF InPlace
      <3>4. QED
        BY <3>1, <3>2, <3>3
    <2>2. QED
      BY <1>2, <1>5, <2>1 DEF InPlace
  <1>7. QED
    BY <1>4, <1>6

\* A series that is torn keeps its pieces.
LEMMA TornInPlace ==
  ASSUME NEW series \in Series, InPlace(series)
  PROVE  /\ Torn(series) \in Series /\ InPlace(Torn(series))
         /\ \A n \in Nat : LET cutShort == Holding(series, series.pieces, n, TRUE)
                           IN cutShort \in Series /\ InPlace(cutShort)
  BY DEF Torn, Holding, Series, InPlace, NoRun

\* A series that starts has no pieces.
LEMMA StartInPlace ==
  ASSUME RpcInv, NEW c \in Chunks
  PROVE  /\ Current(c) \in Series /\ InPlace(Current(c))
         /\ NoRun \in Series /\ InPlace(NoRun)
  <1>1. NoRun \in Series /\ InPlace(NoRun)
    BY DEF NoRun, Series, InPlace
  <1>2. RunOf(c) \in Series
    BY RpcAssumption DEF RunOf, Holding, Series, Chunks
  <1>3. InPlace(RunOf(c))
    BY DEF RunOf, Holding, InPlace
  <1>4. QED
    BY <1>1, <1>2, <1>3 DEF Current, RpcInv

\* A chunk.
LEMMA ChunkJoins ==
  ASSUME RpcInv, NEW c \in Chunks, PushChunk(c)
  PROVE  RpcInv'
  <1>1. /\ partial \in Series /\ InPlace(partial) /\ Torn(partial) \in Series /\ InPlace(Torn(partial))
        /\ NoRun \in Series /\ InPlace(NoRun) /\ Current(c) \in Series /\ InPlace(Current(c))
    BY TornInPlace, StartInPlace DEF RpcInv
  <1>2. CASE UNCHANGED joined /\ partial' \in {Torn(partial), NoRun}
    BY <1>1, <1>2 DEF RpcInv
  <1>3. CASE Continues(Current(c), c)
    <2> DEFINE series == With(Current(c), c)
    <2>1. series \in Series /\ InPlace(series)
      BY <1>1, <1>3, WithInPlace
    <2>2. CASE UNCHANGED joined /\ partial' = series
      BY <2>1, <2>2 DEF RpcInv
    <2>3. CASE /\ UNCHANGED joined
               /\ \E n \in Current(c).bytes..series.length :
                    partial' = Holding(Current(c), Current(c).pieces, n, TRUE)
      <3>1. PICK n \in Current(c).bytes..series.length : partial' = Holding(Current(c), Current(c).pieces, n, TRUE)
        BY <2>3
      <3> HIDE DEF series
      <3>2. n \in Nat
        <4>1. series.length \in Nat
          BY <2>1 DEF Series
        <4>2. Current(c).bytes \in Nat
          BY <1>1 DEF Series
        <4>3. QED
          BY <4>1, <4>2
      <3>3. partial' \in Series /\ InPlace(partial')
        BY <1>1, <3>1, <3>2, TornInPlace
      <3>4. QED
        BY <2>3, <3>3 DEF RpcInv
    <2>4. CASE /\ partial' = NoRun
               /\ UNCHANGED joined \/ (/\ joined' = series /\ Complete(series)
                                       /\ series.bytes = series.length)
      BY <1>1, <2>1, <2>4 DEF RpcInv, Complete
    <2> HIDE DEF series
    <2>5. QED
      BY <1>2, <1>3, <2>2, <2>3, <2>4 DEF PushChunk, series
  <1>4. QED
    BY <1>2, <1>3 DEF PushChunk

\* Every step.
LEMMA RpcNextKeeps == RpcInv /\ [RpcNext]_rpcVars => RpcInv'
  <1> SUFFICES ASSUME RpcInv, [RpcNext]_rpcVars PROVE RpcInv'
    OBVIOUS
  <1>1. ASSUME NEW c \in Chunks, ReadRunChunk(c) PROVE RpcInv'
    BY <1>1, ChunkJoins DEF ReadRunChunk
  <1>2. CASE (\E last \in BOOLEAN : ReadFrame(last)) \/ ReadGarbage
    <2>1. partial' = Torn(partial) /\ UNCHANGED joined
      BY <1>2 DEF ReadFrame, ReadGarbage
    <2>2. QED
      BY <2>1, TornInPlace DEF RpcInv
  <1>3. CASE ReadNothing \/ UNCHANGED rpcVars
    BY <1>3 DEF ReadNothing, RpcInv, rpcVars
  <1>4. CASE NextTurn
    <2>1. joined' = NoRun /\ partial' \in {NoRun, partial}
      BY <1>4 DEF NextTurn
    <2>2. NoRun \in Series /\ InPlace(NoRun)
      BY DEF NoRun, Series, InPlace
    <2>3. QED
      BY <2>1, <2>2 DEF RpcInv
  <1>5. QED
    BY <1>1, <1>2, <1>3, <1>4 DEF RpcNext

\* No series has begun.
LEMMA RpcInvInit == RpcInit => RpcInv
  BY DEF RpcInit, RpcInv, NoRun, Series, InPlace

\* What is in place, and complete, is whole.
LEMMA RpcInvWhole == RpcInv => FramesAreWhole
  <1> SUFFICES ASSUME RpcInv, joined # NoRun
               PROVE  joined.pieces = [i \in 1..joined.count |-> <<joined.id, i - 1>>]
    BY DEF FramesAreWhole, RpcInv
  <1>1. joined.pieces = [i \in 1..Len(joined.pieces) |-> joined.pieces[i]]
    BY DEF RpcInv, Series
  <1>2. QED
    BY <1>1 DEF RpcInv, InPlace

\* A frame joined from chunks holds all of one series, each chunk once and in
\* its place, and as many bytes as announced: for any number of chunks, series
\* and turns (FrameDecoder::push_chunk).
THEOREM JoinedFramesAreWhole == RpcSpec => []FramesAreWhole
  BY RpcInvInit, RpcInvWhole, RpcNextKeeps, PTL DEF RpcSpec

(***************************************************************************)
(* The decode thread of a media pane                                       *)
(***************************************************************************)

(* Types; frames are counted from 0, and a stop is a request of serial 0.   *)
FrameSet == [epoch : Nat, at : Nat]
RequestSet == [position : Nat, serial : Nat]
MediaTyped ==
    /\ streams \subseteq Streams /\ toSend \subseteq streams
    /\ pendingSerial \in Int /\ epoch \in Nat /\ asked \in Nat /\ next \in Nat
    /\ target \in Nat /\ wanted \in Nat
    /\ requests \in Seq(RequestSet)
    /\ queued \in [Streams -> Seq(FrameSet)] /\ backlog \in [Streams -> Seq(FrameSet)]
    /\ skipUntil \in [Streams -> Nat \cup {NoTarget}]

(* The last seek the pane was promised is the last one claimed that was not *)
(* taken back; what waits in the channel is younger than the one in force,  *)
(* in order, and the youngest is for the pane's target.                     *)
Serials ==
    /\ asked = IF phase = "seeking" THEN pendingSerial - 1 ELSE pendingSerial
    /\ epoch <= asked
    /\ \A i \in 1..Len(requests) : requests[i].serial # 0 =>
         /\ epoch < requests[i].serial /\ requests[i].serial <= asked
         /\ requests[i].serial = asked => requests[i].position = target
    /\ \A i, j \in 1..Len(requests) :
         i < j /\ requests[j].serial # 0 => requests[i].serial < requests[j].serial

(* The decoder skips up to the pane's target once it serves its last seek.  *)
From(s) == IF s = "video" THEN target ELSE target - 1
Decoding ==
    /\ decoder # "sending" => toSend = {}
    /\ epoch = asked => \A s \in Streams :
         /\ skipUntil[s] \in {NoTarget, target}
         /\ skipUntil[s] = NoTarget => next >= From(s)
         /\ s \in toSend => skipUntil[s] = NoTarget

(* A frame is of no seek to come; one of the pane's own timeline lies from  *)
(* the target on, before what the demuxer reads next.                       *)
Placed(frame, s) ==
    /\ frame.epoch <= epoch
    /\ frame.epoch = asked =>
         /\ frame.at >= From(s)
         /\ frame.at < next \/ (frame.at = next /\ decoder \in {"sending", "gone"} /\ s \notin toSend)
Ordered(s) ==
    /\ \A i \in 1..Len(queued[s]) : Placed(queued[s][i], s)
    /\ \A i \in 1..Len(backlog[s]) : backlog[s][i].epoch = asked /\ Placed(backlog[s][i], s)
    /\ \A i, j \in 1..Len(queued[s]) :
         i < j /\ queued[s][i].epoch = asked /\ queued[s][j].epoch = asked =>
            queued[s][i].at < queued[s][j].at
    /\ \A i, j \in 1..Len(backlog[s]) : i < j => backlog[s][i].at < backlog[s][j].at
    /\ \A i \in 1..Len(backlog[s]), j \in 1..Len(queued[s]) :
         queued[s][j].epoch = asked => backlog[s][i].at < queued[s][j].at
MediaInv == MediaTyped /\ Serials /\ Decoding /\ \A s \in Streams : Ordered(s)

\* A seek lands on the last key frame at or before its target.
LEMMA KeyFrameBefore ==
  ASSUME NEW position \in Nat
  PROVE  KeyFrame(position) \in Nat /\ KeyFrame(position) <= position
  <1> DEFINE Before == {k \in KeyFrames : k <= position}
             Gaps == {position - k : k \in Before}
  <1>1. KeyFrames \subseteq Nat /\ 0 \in Before
    BY MediaAssumption
  <1>2. Gaps \subseteq Nat /\ Gaps # {}
    BY <1>1
  <1> HIDE DEF Gaps
  <1>3. PICK g \in Gaps : \A h \in Gaps : ~ (<<h, g>> \in OpToRel(<, Nat))
    BY <1>2, NatLessThanWellFounded, WFMin
  <1>4. ASSUME NEW h \in Gaps PROVE g <= h
    <2>1. OpToRel(<, Nat) = {ss \in Nat \X Nat : ss[1] < ss[2]}
      BY Zenon DEF OpToRel
    <2>2. <<h, g>> \notin {ss \in Nat \X Nat : ss[1] < ss[2]}
      BY <1>3, <2>1, Zenon
    <2>3. QED
      BY <1>2, <2>2
  <1>5. PICK k \in Before : g = position - k
    BY <1>3 DEF Gaps
  <1>6. \A other \in KeyFrames : other <= position => other <= k
    <2> SUFFICES ASSUME NEW other \in KeyFrames, other <= position PROVE other <= k
      OBVIOUS
    <2>1. position - other \in Gaps
      BY DEF Gaps
    <2>2. QED
      BY <1>1, <1>4, <1>5, <2>1
  <1>7. \E last \in KeyFrames :
          last <= position /\ \A other \in KeyFrames : other <= position => other <= last
    BY <1>5, <1>6
  <1>8. KeyFrame(position) \in KeyFrames /\ KeyFrame(position) <= position
    BY <1>7 DEF KeyFrame
  <1>9. QED
    BY <1>1, <1>8

\* A pane that has just opened has nothing of any timeline.
LEMMA MediaInvInit == MediaInit => MediaInv
  BY MediaAssumption DEF MediaInit, MediaInv, MediaTyped, Serials, Decoding, Ordered, From, Nothing,
     Streams, NoTarget, FrameSet

\* What leaves the frames and the numbers they are judged by alone.
LEMMA MediaFramed ==
  ASSUME MediaInv, UNCHANGED <<streams, requests, pendingSerial, epoch, queued, toSend, next, skipUntil,
                               asked, target, backlog, wanted>>,
         \/ decoder' = decoder
         \/ toSend = {} /\ decoder' # "sending" /\ decoder \notin {"sending", "gone"},
         phase' = phase \/ {phase, phase'} \cap {"seeking"} = {}
  PROVE  MediaInv'
  <1>1. MediaTyped' /\ Serials'
    BY DEF MediaInv, MediaTyped, Serials
  <1>2. Decoding'
    BY DEF MediaInv, Decoding, From
  <1>3. ASSUME NEW s \in Streams PROVE Ordered(s)'
    <2>1. \A frame : Placed(frame, s) => Placed(frame, s)'
      BY DEF Placed, From
    <2>2. QED
      BY <2>1 DEF MediaInv, Ordered
  <1>4. QED
    BY <1>1, <1>2, <1>3 DEF MediaInv

\* What taking the first or adding a last element does to a queue.
LEMMA QueueFacts ==
  ASSUME NEW S, NEW q \in Seq(S)
  PROVE  /\ Len(q) \in Nat /\ \A i \in 1..Len(q) : q[i] \in S
         /\ q # <<>> => /\ Tail(q) \in Seq(S) /\ Len(Tail(q)) = Len(q) - 1
                        /\ 1 \in 1..Len(q) /\ Head(q) = q[1] /\ Head(q) \in S
                        /\ \A i \in 1..Len(Tail(q)) : i + 1 \in 1..Len(q) /\ Tail(q)[i] = q[i + 1]
         /\ \A x \in S : /\ Append(q, x) \in Seq(S) /\ Len(Append(q, x)) = Len(q) + 1
                         /\ \A i \in 1..Len(q) : Append(q, x)[i] = q[i]
                         /\ Append(q, x)[Len(q) + 1] = x
  OBVIOUS

\* Steps that move neither frames nor numbers.
LEMMA MediaQuietSteps ==
  ASSUME MediaInv, OpenInput \/ EnterRead \/ Hang \/ Return \/ ReadStatus \/ Join
  PROVE  MediaInv'
  <1> USE DEF channel, decoding, mediaPane
  <1>1. CASE OpenInput \/ EnterRead \/ Hang \/ Return
    <2>1. toSend = {} /\ decoder' # "sending" /\ decoder \notin {"sending", "gone"}
      BY <1>1 DEF OpenInput, EnterRead, Hang, Return, MediaInv, Decoding
    <2>2. QED
      BY <1>1, <2>1, MediaFramed DEF OpenInput, EnterRead, Hang, Return
  <1>2. CASE ReadStatus \/ Join
    BY <1>2, MediaFramed DEF ReadStatus, Join
  <1>3. QED
    BY <1>1, <1>2

\* A seek is claimed.
LEMMA SeekBegins ==
  ASSUME MediaInv, AskSeek \/ EndPoll \/ TogglePause
  PROVE  MediaInv'
  <1> USE DEF channel, decoding, mediaPane
  <1>1. /\ UNCHANGED <<streams, requests, epoch, queued, decoder, toSend, next, skipUntil, asked, target,
                       backlog>>
        /\ phase # "seeking"
        /\ \/ UNCHANGED <<pendingSerial, wanted>> /\ phase' # "seeking"
           \/ \E position \in Nat : BeginSeek(position)
    <2>1. CASE AskSeek
      BY <2>1, MediaAssumption DEF AskSeek, Instants
    <2>2. CASE EndPoll
      BY <2>2 DEF EndPoll
    <2>3. CASE TogglePause
      BY <2>3 DEF TogglePause
    <2>4. QED
      BY <2>1, <2>2, <2>3
  <1>2. CASE UNCHANGED <<pendingSerial, wanted>> /\ phase' # "seeking"
    BY <1>1, <1>2, MediaFramed
  <1>3. CASE \E position \in Nat : BeginSeek(position)
    <2>1. MediaTyped' /\ Serials' /\ Decoding'
      BY <1>1, <1>3 DEF MediaInv, MediaTyped, Serials, Decoding, From, BeginSeek
    <2>2. ASSUME NEW s \in Streams PROVE Ordered(s)'
      BY <1>1 DEF MediaInv, Ordered, Placed, From
    <2>3. QED
      BY <2>1, <2>2 DEF MediaInv
  <1>4. QED
    BY <1>1, <1>2, <1>3

\* A seek is queued or taken back.
LEMMA SeekEnds ==
  ASSUME MediaInv, SeekQueued \/ SeekRefused
  PROVE  MediaInv'
  <1> USE DEF channel, decoding, mediaPane
  <1>1. CASE SeekQueued
    <2> DEFINE seek == [position |-> wanted, serial |-> pendingSerial]
    <2>1. /\ UNCHANGED <<streams, pendingSerial, epoch, queued, decoder, toSend, next, skipUntil, wanted>>
          /\ requests' = Append(requests, seek) /\ asked' = pendingSerial /\ target' = wanted
          /\ backlog' = Nothing /\ phase' = "idle" /\ phase = "seeking"
      BY <1>1 DEF SeekQueued
    <2>2. pendingSerial = asked + 1 /\ pendingSerial \in Nat
      BY <2>1 DEF MediaInv, Serials, MediaTyped
    <2>3. seek \in RequestSet
      BY <2>2 DEF MediaInv, MediaTyped, RequestSet
    <2>4. /\ Len(requests') = Len(requests) + 1
          /\ \A i \in 1..Len(requests) : requests'[i] = requests[i]
          /\ requests'[Len(requests) + 1] = seek /\ Len(requests) \in Nat
      BY <2>1, <2>3, QueueFacts DEF MediaInv, MediaTyped
    <2>5. MediaTyped'
      <3>1. requests' \in Seq(RequestSet)
        BY <2>1, <2>3, QueueFacts DEF MediaInv, MediaTyped
      <3>2. QED
        BY <2>1, <2>2, <3>1 DEF MediaInv, MediaTyped, Nothing, Streams
    <2>6. ASSUME NEW i \in 1..Len(requests)
          PROVE  requests[i].serial \in Nat /\ requests[i].serial <= asked
      <3>1. requests[i] \in RequestSet
        BY QueueFacts DEF MediaInv, MediaTyped
      <3>2. requests[i].serial # 0 => requests[i].serial <= asked
        BY DEF MediaInv, Serials
      <3>3. asked \in Nat
        BY DEF MediaInv, MediaTyped
      <3>4. QED
        BY <3>1, <3>2, <3>3 DEF RequestSet
    <2>7. /\ epoch < seek.serial /\ seek.serial = asked' /\ seek.position = target'
          /\ asked \in Nat /\ epoch \in Nat
      BY <2>1, <2>2 DEF MediaInv, MediaTyped, Serials
    <2>8. ASSUME NEW i \in 1..Len(requests'), requests'[i].serial # 0
          PROVE  /\ epoch' < requests'[i].serial /\ requests'[i].serial <= asked'
                 /\ requests'[i].serial = asked' => requests'[i].position = target'
      <3>1. CASE i = Len(requests) + 1
        BY <2>1, <2>2, <2>4, <2>7, <3>1
      <3>2. CASE i \in 1..Len(requests)
        BY <2>1, <2>2, <2>4, <2>6, <2>8, <3>2 DEF MediaInv, Serials
      <3>3. QED
        BY <2>4, <3>1, <3>2
    <2>9. ASSUME NEW i \in 1..Len(requests'), NEW j \in 1..Len(requests'), i < j,
                 requests'[j].serial # 0
          PROVE  requests'[i].serial < requests'[j].serial
      <3>1. i \in 1..Len(requests) /\ requests'[i] = requests[i]
        <4>1. i \in Nat /\ j \in Nat /\ i < j /\ j <= Len(requests) + 1 /\ 1 <= i
          BY <2>4, <2>9
        <4>2. QED
          BY <2>4, <4>1
      <3>2. CASE j = Len(requests) + 1
        BY <2>1, <2>2, <2>4, <2>6, <2>7, <3>1, <3>2
      <3>3. CASE j \in 1..Len(requests)
        BY <2>4, <2>9, <3>1, <3>3 DEF MediaInv, Serials
      <3>4. QED
        BY <2>4, <3>2, <3>3
    <2>10. Serials'
      <3>1. asked' = (IF phase' = "seeking" THEN pendingSerial' - 1 ELSE pendingSerial') /\ epoch' <= asked'
        BY <2>1, <2>2, <2>7
      <3>2. QED
        BY <2>8, <2>9, <3>1 DEF Serials
    <2>11. Decoding'
      BY <2>1, <2>7 DEF MediaInv, Decoding, Serials
    <2>12. ASSUME NEW s \in Streams PROVE Ordered(s)'
      <3>1. queued'[s] = queued[s] /\ Len(backlog'[s]) = 0
        BY <2>1 DEF Nothing
      <3>2. ASSUME NEW i \in 1..Len(queued[s])
            PROVE  queued[s][i].epoch <= epoch /\ queued[s][i].epoch # asked'
        <4>1. queued[s][i].epoch <= epoch
          BY DEF MediaInv, Ordered, Placed
        <4>2. epoch < asked' /\ asked' \in Int /\ epoch \in Int
          BY <2>1, <2>2, <2>7
        <4>3. QED
          BY <4>1, <4>2
      <3>3. QED
        BY <2>1, <3>1, <3>2 DEF Ordered, Placed
    <2>13. QED
      BY <2>5, <2>10, <2>11, <2>12 DEF MediaInv
  <1>2. CASE SeekRefused
    <2>1. MediaTyped' /\ Serials' /\ Decoding'
      BY <1>2 DEF SeekRefused, Abandoned, MediaInv, MediaTyped, Serials, Decoding, From
    <2>2. ASSUME NEW s \in Streams PROVE Ordered(s)'
      BY <1>2 DEF SeekRefused, MediaInv, Ordered, Placed, From
    <2>3. QED
      BY <2>1, <2>2 DEF MediaInv
  <1>3. QED
    BY <1>1, <1>2

\* A seek that is taken out of the channel is in force, or has failed.
LEMMA TakeCommandOrders == ASSUME MediaInv, TakeCommand PROVE MediaInv'
  <1> USE DEF channel, decoding, mediaPane
  <1> DEFINE seek == requests[1]
  <1>1. /\ UNCHANGED <<streams, pendingSerial, queued, toSend, phase, asked, target, backlog, wanted>>
        /\ decoder \in {"decode", "ended"} /\ toSend = {} /\ requests # <<>>
        /\ requests' = Tail(requests)
        /\ \/ UNCHANGED <<epoch, next, skipUntil>>
           \/ /\ Head(requests).serial # 0 /\ Applied(Head(requests))
        /\ decoder' \notin {"sending"}
    BY DEF TakeCommand, Applied, MediaInv, Decoding
  <1>2. /\ Len(requests') = Len(requests) - 1 /\ Head(requests) = seek /\ 1 \in 1..Len(requests)
        /\ Len(requests) \in Nat
        /\ \A i \in 1..Len(requests') : i + 1 \in 1..Len(requests) /\ requests'[i] = requests[i + 1]
        /\ seek \in RequestSet
        /\ requests' \in Seq(RequestSet)
    BY <1>1, QueueFacts DEF MediaInv, MediaTyped
  <1>3. /\ \A i \in 1..Len(requests') : requests'[i].serial # 0 =>
             /\ epoch < requests'[i].serial /\ requests'[i].serial <= asked
             /\ requests'[i].serial = asked => requests'[i].position = target
        /\ \A i, j \in 1..Len(requests') :
             i < j /\ requests'[j].serial # 0 => requests'[i].serial < requests'[j].serial
    <2>1. ASSUME NEW i \in 1..Len(requests'), requests'[i].serial # 0
          PROVE  /\ epoch < requests'[i].serial /\ requests'[i].serial <= asked
                 /\ requests'[i].serial = asked => requests'[i].position = target
      BY <1>2, <2>1 DEF MediaInv, Serials
    <2>2. ASSUME NEW i \in 1..Len(requests'), NEW j \in 1..Len(requests'), i < j,
                 requests'[j].serial # 0
          PROVE  requests'[i].serial < requests'[j].serial
      <3>1. /\ i + 1 \in 1..Len(requests) /\ j + 1 \in 1..Len(requests) /\ i + 1 < j + 1
            /\ requests'[i] = requests[i + 1] /\ requests'[j] = requests[j + 1]
        BY <1>2, <2>2
      <3>2. QED
        BY <2>2, <3>1 DEF MediaInv, Serials
    <2>3. QED
      BY <2>1, <2>2
  <1>4. \A i \in 1..Len(requests') : requests'[i].serial # 0 => seek.serial < requests'[i].serial
    <2> SUFFICES ASSUME NEW i \in 1..Len(requests'), requests'[i].serial # 0
                 PROVE  seek.serial < requests[i + 1].serial
      BY <1>2
    <2>1. i + 1 \in 1..Len(requests) /\ 1 < i + 1
      BY <1>2
    <2>2. QED
      BY <1>2, <2>1 DEF MediaInv, Serials
  <1>5. CASE UNCHANGED <<epoch, next, skipUntil>>
    <2>1. MediaTyped'
      BY <1>1, <1>2, <1>5 DEF MediaInv, MediaTyped
    <2>2. Serials'
      BY <1>1, <1>3, <1>5 DEF MediaInv, Serials
    <2>3. Decoding'
      BY <1>1, <1>5 DEF MediaInv, Decoding, From
    <2>4. ASSUME NEW s \in Streams PROVE Ordered(s)'
      <3>1. \A frame : Placed(frame, s) => Placed(frame, s)'
        BY <1>1, <1>5 DEF Placed, From
      <3>2. QED
        BY <1>1, <3>1 DEF MediaInv, Ordered
    <2>5. QED
      BY <2>1, <2>2, <2>3, <2>4 DEF MediaInv
  <1>6. CASE Head(requests).serial # 0 /\ Applied(Head(requests))
    <2>1. /\ seek.serial # 0 /\ seek.serial \in Nat /\ seek.position \in Nat
          /\ epoch' = seek.serial /\ next' = KeyFrame(seek.position)
          /\ skipUntil' = [s \in Streams |-> seek.position]
      BY <1>2, <1>6 DEF Applied, RequestSet
    <2>2. /\ epoch < seek.serial /\ seek.serial <= asked
          /\ seek.serial = asked => seek.position = target
      BY <1>2, <2>1 DEF MediaInv, Serials
    <2>3. next' \in Nat
      BY <2>1, KeyFrameBefore
    <2>4. MediaTyped'
      BY <1>1, <1>2, <2>1, <2>3 DEF MediaInv, MediaTyped
    <2>5. Serials'
      BY <1>1, <1>3, <1>4, <2>1, <2>2 DEF MediaInv, Serials
    <2>6. Decoding'
      <3>1. target \in Nat
        BY DEF MediaInv, MediaTyped
      <3>2. QED
        BY <1>1, <2>1, <2>2, <3>1 DEF Decoding, NoTarget
    <2>7. ASSUME NEW s \in Streams PROVE Ordered(s)'
      <3>1. epoch \in Int /\ epoch' \in Int /\ asked \in Int /\ epoch < epoch' /\ epoch < asked
        <4>1. epoch \in Int /\ asked \in Int
          BY DEF MediaInv, MediaTyped
        <4>2. QED
          BY <2>1, <2>2, <4>1
      <3>2. ASSUME NEW frame \in FrameSet, Placed(frame, s)
            PROVE  frame.epoch # asked' /\ Placed(frame, s)'
        <4>1. frame.epoch \in Int /\ frame.epoch <= epoch
          BY <3>2 DEF Placed, FrameSet
        <4>2. QED
          BY <1>1, <3>1, <4>1 DEF Placed
      <3>3. /\ \A i \in 1..Len(queued[s]) : queued[s][i] \in FrameSet /\ Placed(queued[s][i], s)
            /\ \A i \in 1..Len(backlog[s]) : /\ backlog[s][i] \in FrameSet /\ Placed(backlog[s][i], s)
                                             /\ backlog[s][i].epoch = asked
        BY QueueFacts DEF MediaInv, MediaTyped, Ordered
      <3>4. QED
        BY <1>1, <3>2, <3>3 DEF Ordered
    <2>8. QED
      BY <2>4, <2>5, <2>6, <2>7 DEF MediaInv
  <1>7. QED
    BY <1>1, <1>5, <1>6

\* The thread leaves in the middle of a packet; the pane closes.
LEMMA LeavingOrders == ASSUME MediaInv, LeaveOnStop \/ CloseMedia PROVE MediaInv'
  <1> USE DEF channel, decoding, mediaPane
  <1>1. CASE LeaveOnStop
    <2>1. /\ UNCHANGED <<streams, requests, pendingSerial, epoch, queued, next, skipUntil, phase, asked,
                         target, backlog, wanted>>
          /\ toSend' = {} /\ decoder' = "gone"
      BY <1>1 DEF LeaveOnStop
    <2>2. MediaTyped' /\ Serials' /\ Decoding'
      BY <2>1 DEF MediaInv, MediaTyped, Serials, Decoding, From
    <2>3. ASSUME NEW s \in Streams PROVE Ordered(s)'
      <3>1. \A frame : Placed(frame, s) => Placed(frame, s)'
        BY <2>1 DEF Placed, From
      <3>2. QED
        BY <2>1, <3>1 DEF MediaInv, Ordered
    <2>4. QED
      BY <2>2, <2>3 DEF MediaInv
  <1>2. CASE CloseMedia
    <2> DEFINE halt == [position |-> 0, serial |-> 0]
    <2>1. /\ UNCHANGED <<streams, pendingSerial, epoch, queued, decoder, toSend, next, skipUntil, asked,
                         target, wanted>>
          /\ requests' = requests \/ requests' = Append(requests, halt)
          /\ phase = "idle" /\ phase' = "joining" /\ backlog' = Nothing
      BY <1>2 DEF CloseMedia
    <2>2. halt \in RequestSet /\ halt.serial = 0
      BY DEF RequestSet
    <2> HIDE DEF halt
    <2>3. requests \in Seq(RequestSet) /\ requests' \in Seq(RequestSet)
      <3>1. requests \in Seq(RequestSet)
        BY DEF MediaInv, MediaTyped
      <3>2. Append(requests, halt) \in Seq(RequestSet)
        BY <2>2, <3>1
      <3>3. QED
        BY <2>1, <3>1, <3>2
    <2>4. /\ Len(requests) \in Nat /\ Len(requests') \in {Len(requests), Len(requests) + 1}
          /\ \A i \in 1..Len(requests) : requests'[i] = requests[i]
          /\ Len(requests') = Len(requests) + 1 => requests'[Len(requests) + 1].serial = 0
      <3>1. /\ Len(Append(requests, halt)) = Len(requests) + 1 /\ Len(requests) \in Nat
            /\ \A i \in 1..Len(requests) : Append(requests, halt)[i] = requests[i]
            /\ Append(requests, halt)[Len(requests) + 1] = halt
        BY <2>2, <2>3
      <3>2. CASE requests' = requests
        BY <3>1, <3>2
      <3>3. CASE requests' = Append(requests, halt)
        BY <2>2, <3>1, <3>3
      <3>4. QED
        BY <2>1, <3>2, <3>3
    <2>5. MediaTyped' /\ Decoding'
      BY <2>1, <2>3 DEF MediaInv, MediaTyped, Decoding, From, Nothing, Streams
    <2>6. \A i \in 1..Len(requests') : requests'[i].serial # 0 =>
            i \in 1..Len(requests) /\ requests'[i] = requests[i]
      BY <2>4
    <2>7. \A i, j \in 1..Len(requests') : i < j /\ requests'[j].serial # 0 =>
            /\ i \in 1..Len(requests) /\ requests'[i] = requests[i]
            /\ j \in 1..Len(requests) /\ requests'[j] = requests[j]
      BY <2>4
    <2>8. Serials'
      <3>1. asked' = (IF phase' = "seeking" THEN pendingSerial' - 1 ELSE pendingSerial')
            /\ epoch' <= asked'
        BY <2>1 DEF MediaInv, Serials
      <3>2. \A i \in 1..Len(requests') : requests'[i].serial # 0 =>
              /\ epoch < requests'[i].serial /\ requests'[i].serial <= asked
              /\ requests'[i].serial = asked => requests'[i].position = target
        BY <2>6 DEF MediaInv, Serials
      <3>3. \A i, j \in 1..Len(requests') :
              i < j /\ requests'[j].serial # 0 => requests'[i].serial < requests'[j].serial
        BY <2>7 DEF MediaInv, Serials
      <3>4. QED
        BY <2>1, <3>1, <3>2, <3>3 DEF Serials
    <2>9. ASSUME NEW s \in Streams PROVE Ordered(s)'
      <3>1. Len(backlog'[s]) = 0
        BY <2>1 DEF Nothing
      <3>2. \A frame : Placed(frame, s) => Placed(frame, s)'
        BY <2>1 DEF Placed, From
      <3>3. QED
        BY <2>1, <3>1, <3>2 DEF MediaInv, Ordered
    <2>10. QED
      BY <2>5, <2>8, <2>9 DEF MediaInv
  <1>3. QED
    BY <1>1, <1>2

\* A packet is read; a frame before the target is not due.
LEMMA ReadPacketOrders == ASSUME MediaInv, ReadPacket PROVE MediaInv'
  <1> USE DEF channel, decoding, mediaPane
  <1>1. toSend = {} /\ decoder = "reading"
    BY DEF ReadPacket, MediaInv, Decoding
  <1>2. CASE UNCHANGED <<toSend, next, skipUntil>> /\ decoder' \in {"ended", "gone"}
    BY <1>1, <1>2, MediaFramed DEF ReadPacket
  <1>3. CASE /\ toSend' = {s \in streams : Due(s)}
             /\ skipUntil' = [s \in Streams |-> IF s \in toSend' THEN NoTarget ELSE skipUntil[s]]
             /\ decoder' = "sending" /\ UNCHANGED next
    <2>1. UNCHANGED <<streams, requests, pendingSerial, epoch, queued, phase, asked, target, backlog,
                      wanted, next>>
      BY <1>3 DEF ReadPacket
    <2>2. /\ toSend' \subseteq streams
          /\ \A s \in Streams : skipUntil'[s] = IF s \in toSend' THEN NoTarget ELSE skipUntil[s]
          /\ skipUntil' \in [Streams -> Nat \cup {NoTarget}]
      BY <1>3 DEF MediaInv, MediaTyped
    <2>3. MediaTyped' /\ Serials'
      BY <2>1, <2>2 DEF MediaInv, MediaTyped, Serials
    <2>4. ASSUME NEW s \in Streams, epoch = asked
          PROVE  /\ skipUntil'[s] \in {NoTarget, target}
                 /\ skipUntil'[s] = NoTarget => next >= From(s)
                 /\ s \in toSend' => skipUntil'[s] = NoTarget
      <3>1. /\ skipUntil[s] \in {NoTarget, target} /\ next \in Int /\ target \in Nat
            /\ skipUntil[s] = NoTarget => next >= From(s)
        BY <2>4 DEF MediaInv, MediaTyped, Decoding
      <3>2. CASE s \in toSend'
        <4>1. Due(s) /\ skipUntil'[s] = NoTarget
          BY <1>3, <2>2, <3>2
        <4>2. CASE skipUntil[s] = NoTarget
          BY <3>1, <4>1, <4>2
        <4>3. CASE skipUntil[s] = target /\ skipUntil[s] # NoTarget
          BY <3>1, <4>1, <4>3 DEF Due, From
        <4>4. QED
          BY <3>1, <4>1, <4>2, <4>3
      <3>3. CASE s \notin toSend'
        BY <2>2, <3>1, <3>3
      <3>4. QED
        BY <3>2, <3>3
    <2>5. Decoding'
      BY <1>3, <2>1, <2>4 DEF Decoding, From
    <2>6. ASSUME NEW s \in Streams PROVE Ordered(s)'
      <3>1. \A frame : Placed(frame, s) => Placed(frame, s)'
        BY <1>1, <2>1 DEF Placed, From
      <3>2. QED
        BY <2>1, <3>1 DEF MediaInv, Ordered
    <2>7. QED
      BY <2>3, <2>5, <2>6 DEF MediaInv
  <1>4. QED
    BY <1>2, <1>3 DEF ReadPacket

\* A frame is queued, tagged with the seek it was decoded for.
LEMMA FrameQueued == ASSUME MediaInv, SendFrame, toSend # {} PROVE MediaInv'
  <1> USE DEF channel, decoding, mediaPane
  <1>1. PICK fresh \in FrameSet : fresh = Tagged(epoch) /\ fresh.epoch = epoch /\ fresh.at = next
    <2>1. /\ Tagged(epoch) \in FrameSet /\ Tagged(epoch).epoch = epoch /\ Tagged(epoch).at = next
      BY DEF MediaInv, MediaTyped, FrameSet, Tagged
    <2>2. QED
      BY <2>1
  <1>2. /\ UNCHANGED <<streams, requests, pendingSerial, epoch, next, skipUntil, phase, asked, target,
                       backlog, wanted, decoder>>
        /\ decoder = "sending" /\ toSend' = toSend \ {Turn}
        /\ queued' = [queued EXCEPT ![Turn] = Append(@, fresh)]
    BY <1>1 DEF SendFrame
  <1>3. Turn \in toSend /\ Turn \in Streams
    BY DEF Turn, MediaInv, MediaTyped, Streams
  <1>4. /\ \A s \in Streams : queued[s] \in Seq(FrameSet) /\ backlog[s] \in Seq(FrameSet)
        /\ Append(queued[Turn], fresh) \in Seq(FrameSet)
    BY <1>1, <1>3 DEF MediaInv, MediaTyped
  <1>5. /\ queued' \in [Streams -> Seq(FrameSet)]
        /\ queued'[Turn] = Append(queued[Turn], fresh)
        /\ \A s \in Streams : s # Turn => queued'[s] = queued[s]
    BY <1>2, <1>3, <1>4 DEF MediaInv, MediaTyped
  <1>6. MediaTyped' /\ Serials'
    BY <1>2, <1>3, <1>5 DEF MediaInv, MediaTyped, Serials
  <1>7. Decoding'
    BY <1>2 DEF MediaInv, Decoding, From
  <1>8. ASSUME NEW s \in Streams, NEW frame, Placed(frame, s) PROVE Placed(frame, s)'
    BY <1>2, <1>8 DEF Placed, From
  <1>9. ASSUME NEW s \in Streams PROVE Ordered(s)'
    <2>1. CASE s # Turn
      BY <1>2, <1>5, <1>8, <1>9, <2>1 DEF MediaInv, Ordered
    <2>2. CASE s = Turn
      <3>1. /\ Len(queued[s]) \in Nat /\ Len(queued'[s]) = Len(queued[s]) + 1
            /\ \A i \in 1..Len(queued[s]) : queued'[s][i] = queued[s][i] /\ queued[s][i] \in FrameSet
            /\ queued'[s][Len(queued[s]) + 1] = fresh
            /\ Len(backlog[s]) \in Nat /\ \A i \in 1..Len(backlog[s]) : backlog[s][i] \in FrameSet
        <4>1. queued[s] \in Seq(FrameSet) /\ backlog[s] \in Seq(FrameSet)
          BY <1>4
        <4>2. queued'[s] = Append(queued[s], fresh)
          BY <1>5, <2>2
        <4>3. QED
          BY <1>1, <4>1, <4>2, QueueFacts
      <3>2. /\ epoch \in Nat /\ asked \in Nat /\ epoch <= asked /\ next \in Nat /\ target \in Nat
            /\ next \in Nat /\ From(s) \in Int
        BY DEF MediaInv, MediaTyped, Serials, From
      <3>3. Placed(fresh, s)'
        <4>1. epoch = asked => next >= From(s)
          BY <1>3, <2>2 DEF MediaInv, Decoding
        <4>2. s \notin toSend'
          BY <1>2, <2>2
        <4>3. QED
          BY <1>2, <1>1, <3>2, <4>1, <4>2 DEF Placed, From
      <3>4. \A i \in 1..Len(queued[s]) : Placed(queued[s][i], s)
        BY DEF MediaInv, Ordered
      <3>5. \A i \in 1..Len(queued[s]) : queued[s][i].epoch = asked => queued[s][i].at < next
        BY <1>2, <1>3, <2>2, <3>4 DEF Placed
      <3>6. \A i \in 1..Len(backlog[s]) :
              Placed(backlog[s][i], s) /\ backlog[s][i].epoch = asked /\ backlog[s][i].at < next
        BY <1>2, <1>3, <2>2 DEF MediaInv, Ordered, Placed
      <3>7. ASSUME NEW i \in 1..Len(queued'[s]) PROVE Placed(queued[s][i], s)'
        BY <1>8, <3>1, <3>3, <3>4, <3>7
      <3>8. ASSUME NEW i \in 1..Len(queued'[s]), NEW j \in 1..Len(queued'[s]), i < j,
                   queued'[s][i].epoch = asked, queued'[s][j].epoch = asked
            PROVE  queued'[s][i].at < queued'[s][j].at
        <4>1. CASE j \in 1..Len(queued[s])
          <5>1. i \in 1..Len(queued[s])
            BY <3>1, <3>8, <4>1
          <5>2. QED
            BY <3>1, <3>8, <4>1, <5>1 DEF MediaInv, Ordered
        <4>2. CASE j = Len(queued[s]) + 1
          <5>1. i \in 1..Len(queued[s])
            BY <3>1, <3>8, <4>2
          <5>2. QED
            BY <1>1, <3>1, <3>5, <3>8, <4>2, <5>1
        <4>3. QED
          BY <3>1, <3>8, <4>1, <4>2
      <3>9. ASSUME NEW i \in 1..Len(backlog[s]), NEW j \in 1..Len(queued'[s]),
                   queued'[s][j].epoch = asked
            PROVE  backlog[s][i].at < queued'[s][j].at
        <4>1. CASE j \in 1..Len(queued[s])
          BY <3>1, <3>9, <4>1 DEF MediaInv, Ordered
        <4>2. CASE j = Len(queued[s]) + 1
          BY <1>1, <3>1, <3>6, <3>9, <4>2
        <4>3. QED
          BY <3>1, <3>9, <4>1, <4>2
      <3>10. /\ \A i \in 1..Len(backlog[s]) : backlog[s][i].epoch = asked /\ Placed(backlog[s][i], s)'
             /\ \A i, j \in 1..Len(backlog[s]) : i < j => backlog[s][i].at < backlog[s][j].at
        BY <1>2, <1>8, <3>6 DEF MediaInv, Ordered
      <3>11. QED
        BY <1>2, <3>7, <3>8, <3>9, <3>10 DEF Ordered
    <2>3. QED
      BY <2>1, <2>2
  <1>10. QED
    BY <1>6, <1>7, <1>9 DEF MediaInv

\* The packet is done.
LEMMA SendFrameOrders == ASSUME MediaInv, SendFrame PROVE MediaInv'
  <1> USE DEF channel, decoding, mediaPane
  <1>1. CASE toSend # {}
    BY <1>1, FrameQueued
  <1>2. CASE toSend = {}
    <2>1. /\ UNCHANGED <<streams, requests, pendingSerial, epoch, queued, toSend, skipUntil, phase, asked,
                         target, backlog, wanted>>
          /\ decoder' = "decode" /\ next' = next + 1
      BY <1>2 DEF SendFrame
    <2>2. next \in Nat /\ target \in Nat
      BY DEF MediaInv, MediaTyped
    <2>3. MediaTyped' /\ Serials'
      BY <2>1 DEF MediaInv, MediaTyped, Serials
    <2>4. Decoding'
      BY <1>2, <2>1, <2>2 DEF MediaInv, Decoding, From
    <2>5. ASSUME NEW s \in Streams PROVE Ordered(s)'
      <3>1. ASSUME NEW frame \in FrameSet, Placed(frame, s) PROVE Placed(frame, s)'
        BY <2>1, <2>2, <3>1 DEF Placed, From, FrameSet
      <3>2. /\ \A i \in 1..Len(queued[s]) : queued[s][i] \in FrameSet
            /\ \A i \in 1..Len(backlog[s]) : backlog[s][i] \in FrameSet
        BY QueueFacts DEF MediaInv, MediaTyped
      <3>3. QED
        BY <2>1, <3>1, <3>2 DEF MediaInv, Ordered
    <2>6. QED
      BY <2>3, <2>4, <2>5 DEF MediaInv
  <1>3. QED
    BY <1>1, <1>2

\* The pane takes a queued frame, and keeps it when it is of its timeline.
LEMMA DrainQueueOrders == ASSUME MediaInv, DrainQueue PROVE MediaInv'
  <1> USE DEF channel, decoding, mediaPane
  <1>1. /\ UNCHANGED <<streams, requests, pendingSerial, epoch, decoder, toSend, next, skipUntil, phase,
                       asked, target, wanted>>
        /\ phase = "drain"
    BY DEF DrainQueue
  <1>2. PICK t \in streams :
          /\ queued[t] # <<>> /\ queued' = [queued EXCEPT ![t] = Tail(@)]
          /\ \/ /\ Presentable(Head(queued[t]))
                /\ backlog' = [backlog EXCEPT ![t] = Append(@, Head(queued[t]))]
             \/ UNCHANGED backlog
    BY DEF DrainQueue, Wanted
  <1> DEFINE head == Head(queued[t])
  <1>3. t \in Streams /\ queued[t] \in Seq(FrameSet) /\ backlog[t] \in Seq(FrameSet)
    BY <1>2 DEF MediaInv, MediaTyped
  <1>4. /\ head \in FrameSet /\ head = queued[t][1] /\ 1 \in 1..Len(queued[t])
        /\ Tail(queued[t]) \in Seq(FrameSet) /\ Len(Tail(queued[t])) = Len(queued[t]) - 1
        /\ \A i \in 1..Len(Tail(queued[t])) : i + 1 \in 1..Len(queued[t])
                                              /\ Tail(queued[t])[i] = queued[t][i + 1]
        /\ Append(backlog[t], head) \in Seq(FrameSet)
        /\ Len(Append(backlog[t], head)) = Len(backlog[t]) + 1 /\ Len(backlog[t]) \in Nat
        /\ \A i \in 1..Len(backlog[t]) : Append(backlog[t], head)[i] = backlog[t][i]
        /\ Append(backlog[t], head)[Len(backlog[t]) + 1] = head
        /\ Len(queued[t]) \in Nat
    BY <1>2, <1>3, QueueFacts
  <1> HIDE DEF head
  <1>5. /\ queued' \in [Streams -> Seq(FrameSet)] /\ queued'[t] = Tail(queued[t])
        /\ \A s \in Streams : s # t => queued'[s] = queued[s]
    BY <1>2, <1>3, <1>4 DEF MediaInv, MediaTyped
  <1>6. /\ \/ UNCHANGED backlog
           \/ backlog'[t] = Append(backlog[t], head) /\ head.epoch = asked
        /\ \A s \in Streams : s # t => backlog'[s] = backlog[s]
        /\ backlog' \in [Streams -> Seq(FrameSet)]
    <2>1. pendingSerial = asked
      BY <1>1 DEF MediaInv, Serials
    <2>2. CASE UNCHANGED backlog
      BY <2>2 DEF MediaInv, MediaTyped
    <2>3. CASE Presentable(head) /\ backlog' = [backlog EXCEPT ![t] = Append(@, head)]
      BY <1>3, <1>4, <2>1, <2>3 DEF MediaInv, MediaTyped, Presentable, Settled
    <2>4. QED
      BY <1>2, <2>2, <2>3 DEF head
  <1>7. MediaTyped' /\ Serials' /\ Decoding'
    BY <1>1, <1>5, <1>6 DEF MediaInv, MediaTyped, Serials, Decoding, From
  <1>8. ASSUME NEW s \in Streams, NEW frame, Placed(frame, s) PROVE Placed(frame, s)'
    BY <1>1, <1>8 DEF Placed, From
  <1>9. ASSUME NEW s \in Streams PROVE Ordered(s)'
    <2>1. CASE s # t
      BY <1>1, <1>5, <1>6, <1>8, <2>1 DEF MediaInv, Ordered
    <2>2. CASE s = t
      <3>1. Ordered(t)
        BY <1>3 DEF MediaInv
      <3>2. \A i \in 1..Len(queued'[t]) : Placed(queued[t][i], t)'
        BY <1>3, <1>4, <1>5, <1>8, <3>1 DEF Ordered
      <3>3. ASSUME NEW i \in 1..Len(queued'[t]), NEW j \in 1..Len(queued'[t]), i < j,
                   queued'[t][i].epoch = asked, queued'[t][j].epoch = asked
            PROVE  queued'[t][i].at < queued'[t][j].at
        <4>1. i + 1 \in 1..Len(queued[t]) /\ j + 1 \in 1..Len(queued[t]) /\ i + 1 < j + 1
              /\ queued'[t][i] = queued[t][i + 1] /\ queued'[t][j] = queued[t][j + 1]
          BY SMTT(30), <1>4, <1>5, <3>3
        <4>2. QED
          BY <3>1, <3>3, <4>1 DEF Ordered
      <3>4. \A j \in 1..Len(queued'[t]) : queued'[t][j].epoch = asked /\ head.epoch = asked =>
              head.at < queued'[t][j].at
        <4> SUFFICES ASSUME NEW j \in 1..Len(queued'[t]), queued'[t][j].epoch = asked,
                            head.epoch = asked
                     PROVE  head.at < queued'[t][j].at
          OBVIOUS
        <4>1. j + 1 \in 1..Len(queued[t]) /\ 1 < j + 1 /\ queued'[t][j] = queued[t][j + 1]
          BY <1>4, <1>5
        <4>2. QED
          BY <1>4, <3>1, <4>1 DEF Ordered
      <3>5. \A i \in 1..Len(backlog[t]), j \in 1..Len(queued'[t]) :
              queued'[t][j].epoch = asked => backlog[t][i].at < queued'[t][j].at
        BY <1>4, <1>5, <3>1 DEF Ordered
      <3>6. CASE UNCHANGED backlog
        BY <1>1, <1>3, <1>8, <2>2, <3>1, <3>2, <3>3, <3>5, <3>6 DEF Ordered
      <3>7. CASE backlog'[t] = Append(backlog[t], head) /\ head.epoch = asked
        <4>1. Placed(head, t) /\ \A i \in 1..Len(backlog[t]) : backlog[t][i].at < head.at
          BY <1>4, <3>1, <3>7 DEF Ordered
        <4>2. ASSUME NEW i \in 1..Len(backlog'[t])
              PROVE  backlog'[t][i].epoch = asked /\ Placed(backlog[t][i], t)'
          <5>1. CASE i \in 1..Len(backlog[t])
            BY <1>3, <1>4, <1>8, <3>1, <3>7, <5>1 DEF Ordered
          <5>2. CASE i = Len(backlog[t]) + 1
            BY <1>3, <1>4, <1>8, <3>7, <4>1, <5>2
          <5>3. QED
            BY <1>4, <3>7, <4>2, <5>1, <5>2
        <4>3. ASSUME NEW i \in 1..Len(backlog'[t]), NEW j \in 1..Len(backlog'[t]), i < j
              PROVE  backlog'[t][i].at < backlog'[t][j].at
          <5>1. CASE j \in 1..Len(backlog[t])
            <6>1. i \in 1..Len(backlog[t])
              BY <1>4, <4>3, <5>1
            <6>2. QED
              BY <1>4, <3>1, <3>7, <4>3, <5>1, <6>1 DEF Ordered
          <5>2. CASE j = Len(backlog[t]) + 1
            <6>1. i \in 1..Len(backlog[t])
              BY <1>4, <4>3, <5>2
            <6>2. QED
              BY <1>4, <3>7, <4>1, <5>2, <6>1
          <5>3. QED
            BY <1>4, <3>7, <4>3, <5>1, <5>2
        <4>4. ASSUME NEW i \in 1..Len(backlog'[t]), NEW j \in 1..Len(queued'[t]),
                     queued'[t][j].epoch = asked
              PROVE  backlog'[t][i].at < queued'[t][j].at
          <5>1. CASE i \in 1..Len(backlog[t])
            BY <1>4, <3>5, <3>7, <4>4, <5>1
          <5>2. CASE i = Len(backlog[t]) + 1
            BY <1>4, <3>4, <3>7, <4>4, <5>2
          <5>3. QED
            BY <1>4, <3>7, <4>4, <5>1, <5>2
        <4>5. QED
          BY <1>1, <2>2, <3>2, <3>3, <4>2, <4>3, <4>4 DEF Ordered
      <3>8. QED
        BY <1>6, <3>6, <3>7
    <2>3. QED
      BY <2>1, <2>2
  <1>10. QED
    BY <1>7, <1>9 DEF MediaInv

\* The pane shows the frame it has had longest.
LEMMA PresentOrders == ASSUME MediaInv, Present PROVE MediaInv'
  <1> USE DEF channel, decoding, mediaPane
  <1>1. UNCHANGED <<streams, requests, pendingSerial, epoch, queued, decoder, toSend, next, skipUntil,
                    phase, asked, target, wanted>>
    BY DEF Present
  <1>2. PICK t \in streams : backlog[t] # <<>> /\ backlog' = [backlog EXCEPT ![t] = Tail(@)]
    BY DEF Present
  <1>3. t \in Streams /\ backlog[t] \in Seq(FrameSet)
    BY DEF MediaInv, MediaTyped
  <1>4. /\ Tail(backlog[t]) \in Seq(FrameSet) /\ Len(Tail(backlog[t])) = Len(backlog[t]) - 1
        /\ \A i \in 1..Len(Tail(backlog[t])) : i + 1 \in 1..Len(backlog[t])
                                               /\ Tail(backlog[t])[i] = backlog[t][i + 1]
        /\ Len(backlog[t]) \in Nat
    BY <1>2, <1>3, QueueFacts
  <1>5. /\ backlog' \in [Streams -> Seq(FrameSet)] /\ backlog'[t] = Tail(backlog[t])
        /\ \A s \in Streams : s # t => backlog'[s] = backlog[s]
    BY <1>2, <1>3, <1>4 DEF MediaInv, MediaTyped
  <1>6. MediaTyped' /\ Serials' /\ Decoding'
    BY <1>1, <1>5 DEF MediaInv, MediaTyped, Serials, Decoding, From
  <1>7. ASSUME NEW s \in Streams, NEW frame, Placed(frame, s) PROVE Placed(frame, s)'
    BY <1>1, <1>7 DEF Placed, From
  <1>8. ASSUME NEW s \in Streams PROVE Ordered(s)'
    <2>1. CASE s # t
      BY <1>1, <1>5, <1>7, <2>1 DEF MediaInv, Ordered
    <2>2. CASE s = t
      <3>1. Ordered(t)
        BY <1>3 DEF MediaInv
      <3>2. ASSUME NEW i \in 1..Len(backlog'[t])
            PROVE  /\ backlog'[t][i].epoch = asked /\ Placed(backlog[t][i], t)'
                   /\ \A j \in 1..Len(queued[t]) : queued[t][j].epoch = asked =>
                        backlog'[t][i].at < queued[t][j].at
        <4>1. i + 1 \in 1..Len(backlog[t]) /\ backlog'[t][i] = backlog[t][i + 1]
          BY <1>4, <1>5
        <4>2. QED
          BY <1>3, <1>7, <3>1, <4>1 DEF Ordered
      <3>3. ASSUME NEW i \in 1..Len(backlog'[t]), NEW j \in 1..Len(backlog'[t]), i < j
            PROVE  backlog'[t][i].at < backlog'[t][j].at
        <4>1. i + 1 \in 1..Len(backlog[t]) /\ j + 1 \in 1..Len(backlog[t]) /\ i + 1 < j + 1
              /\ backlog'[t][i] = backlog[t][i + 1] /\ backlog'[t][j] = backlog[t][j + 1]
          BY <1>4, <1>5, <3>3
        <4>2. QED
          BY <3>1, <4>1 DEF Ordered
      <3>4. QED
        BY <1>1, <1>3, <1>7, <2>2, <3>1, <3>2, <3>3 DEF Ordered
    <2>3. QED
      BY <2>1, <2>2
  <1>9. QED
    BY <1>6, <1>8 DEF MediaInv

\* Every step.
LEMMA MediaNextOrders == MediaInv /\ [MediaNext]_mediaVars => MediaInv'
  <1> SUFFICES ASSUME MediaInv, [MediaNext]_mediaVars PROVE MediaInv'
    OBVIOUS
  <1>1. CASE OpenInput \/ EnterRead \/ Hang \/ Return \/ ReadStatus \/ Join
    BY <1>1, MediaQuietSteps
  <1>2. CASE AskSeek \/ EndPoll \/ TogglePause
    BY <1>2, SeekBegins
  <1>3. CASE SeekQueued \/ SeekRefused
    BY <1>3, SeekEnds
  <1>4. CASE TakeCommand
    BY <1>4, TakeCommandOrders
  <1>5. CASE LeaveOnStop \/ CloseMedia
    BY <1>5, LeavingOrders
  <1>6. CASE ReadPacket
    BY <1>6, ReadPacketOrders
  <1>7. CASE SendFrame
    BY <1>7, SendFrameOrders
  <1>8. CASE DrainQueue
    BY <1>8, DrainQueueOrders
  <1>9. CASE Present
    BY <1>9, PresentOrders
  <1>10. CASE UNCHANGED mediaVars
    BY <1>10, MediaFramed DEF mediaVars
  <1>11. QED
    BY <1>1, <1>2, <1>3, <1>4, <1>5, <1>6, <1>7, <1>8, <1>9, <1>10 DEF MediaNext, DecoderStep, PaneStep

\* What the invariant promises.
LEMMA OrderedIsThisTimeline == MediaInv => FramesOfThisTimeline
  <1> SUFFICES ASSUME MediaInv, NEW s \in Streams, NEW i \in 1..Len(backlog[s])
               PROVE  /\ backlog[s][i].epoch = asked
                      /\ backlog[s][i].at >= From(s)
                      /\ i > 1 => backlog[s][i].at > backlog[s][i - 1].at
    BY DEF FramesOfThisTimeline, From
  <1>1. backlog[s][i].epoch = asked /\ Placed(backlog[s][i], s)
    BY DEF MediaInv, Ordered
  <1>2. CASE i > 1
    <2>1. i - 1 \in 1..Len(backlog[s]) /\ i - 1 < i
      BY <1>2, QueueFacts DEF MediaInv, MediaTyped
    <2>2. backlog[s][i - 1].at < backlog[s][i].at
      BY <2>1 DEF MediaInv, Ordered
    <2>3. backlog[s][i - 1] \in FrameSet /\ backlog[s][i] \in FrameSet
      BY <2>1, QueueFacts DEF MediaInv, MediaTyped
    <2>4. QED
      BY <1>1, <2>2, <2>3 DEF Placed, FrameSet
  <1>3. QED
    BY <1>1, <1>2 DEF Placed

\* A step of the composition is one of the media part, or leaves it alone.
LEMMA PartMedia == [MCNext]_mcVars => [MediaNext]_mediaVars
  BY DEF MCNext, mcVars, InAi, InFrames, InMedia, InCli, InLines

\* What a media pane holds to show was decoded for the last seek it asked for,
\* in order and from its target on: for any file, any room in the queues and any
\* number of seeks (Shared.pending and epoch, poll_video, _reset_after_seek).
THEOREM PanesShowTheirTimeline == MCSpec => []FramesOfThisTimeline
  <1>1. MCInit => MediaInv
    BY MediaInvInit DEF MCInit
  <1>2. MediaInv /\ [MCNext]_mcVars => MediaInv'
    BY MediaNextOrders, PartMedia
  <1>3. QED
    BY <1>1, <1>2, OrderedIsThisTimeline, PTL DEF MCSpec

(***************************************************************************)
(* An AI session and its pane                                              *)
(***************************************************************************)

EnvelopeSet == [run : Nat, kind : {"text", "end"}]
ChildFrames == [run : Nat, kind : FrameKinds]
AiTyped ==
    /\ active \in Nat /\ turns \in Nat /\ run \in Nat /\ paneRun \in Nat
    /\ commands \in Seq(Nat) /\ events \in Seq(EnvelopeSet) /\ batch \in Seq(EnvelopeSet)
    /\ step \in Steps /\ busy \in BOOLEAN /\ pending \in BOOLEAN

(* Runs are counted by the session, and the worker serves one it was given. *)
Numbered ==
    /\ active <= turns
    /\ \A i \in 1..Len(commands) : commands[i] <= turns
    /\ step \notin {"recv", "ended"} => run # 0 /\ run <= turns

(* A run whose end was emitted is no longer in force, but for the moment    *)
(* between the queue and the lock.                                          *)
Over(envelope) ==
    envelope.kind = "end" =>
        /\ envelope.run # 0 /\ envelope.run <= turns
        /\ ~closed /\ envelope.run = active =>
             step \in {"clear", "clearOn"} /\ run = envelope.run
EndsAreOver ==
    /\ \A i \in 1..Len(events) : Over(events[i])
    /\ \A i \in 1..Len(batch) : Over(batch[i])

(* Every backend but the adapter serves one run at a time, the one in force. *)
InHand ==
    backend # "cli" /\ ~closed =>
        \/ active = 0 /\ commands = <<>> /\ step = "recv"
        \/ active # 0 /\ commands = <<active>> /\ step = "recv"
        \/ active # 0 /\ commands = <<>> /\ run = active /\ step \notin {"recv", "ended", "clearOn"}

(* A busy pane waits for the run in force, or has its end before it.        *)
EndOf(r, envelopes) == \E i \in 1..Len(envelopes) : envelopes[i] = [run |-> r, kind |-> "end"]
BusyIsTold ==
    backend # "cli" /\ busy =>
        /\ paneRun # 0 /\ paneRun <= turns /\ (active # 0 => paneRun = active)
        /\ active = 0 \/ step = "clear" => EndOf(paneRun, events) \/ EndOf(paneRun, batch)
ClosedIsQuiet == closed => batch = <<>> /\ ~busy
TurnInv ==
    /\ AiTyped /\ Numbered /\ EndsAreOver /\ InForceIsAwaited
    /\ InHand /\ BusyIsTold /\ ClosedIsQuiet

(* The omp child that serves has been read to the end of the turn before.   *)
Own(frames, r, answered) ==
    /\ \A i \in 1..Len(frames) :
         /\ frames[i].run = r
         /\ frames[i].kind \in {"end", "fail"} => i = Len(frames) /\ answered = 0
    /\ answered \in {0, r}
ChildTyped ==
    /\ stdout \in Seq(ChildFrames) /\ answering \in Nat /\ run \in Nat
ChildInStep ==
    backend = "omp" /\ ~garbled =>
        /\ step \in {"recv", "ask", "clear"} /\ child = "alive" => stdout = <<>> /\ answering = 0
        /\ step \in {"look", "register", "wait"} => Own(stdout, run, answering)
        /\ step = "told" => child = "dead"
OnlyAdaptersReadOn == step = "clearOn" => backend = "cli"
ChildInv == ChildTyped /\ OnlyAdaptersReadOn /\ ChildInStep

\* What a push does to the queue: the event is in it, with events of before.
LEMMA PushedHolds ==
  ASSUME events \in Seq(EnvelopeSet), NEW e \in EnvelopeSet
  PROVE  /\ Pushed(e) \in Seq(EnvelopeSet)
         /\ \E i \in 1..Len(Pushed(e)) : Pushed(e)[i] = e
         /\ \A i \in 1..Len(Pushed(e)) :
              Pushed(e)[i] = e \/ \E j \in 1..Len(events) : Pushed(e)[i] = events[j]
  <1> DEFINE kept == IF Len(events) = QueueLimit THEN Tail(events) ELSE events
  <1>1. kept \in Seq(EnvelopeSet) /\ \A i \in 1..Len(kept) : \E j \in 1..Len(events) : kept[i] = events[j]
    <2>1. CASE Len(events) = QueueLimit
      <3>1. events # <<>>
        BY <2>1, AiAssumption
      <3>2. /\ Tail(events) \in Seq(EnvelopeSet)
            /\ \A i \in 1..Len(Tail(events)) : i + 1 \in 1..Len(events) /\ Tail(events)[i] = events[i + 1]
        BY <3>1, QueueFacts
      <3>3. QED
        BY <2>1, <3>2
    <2>2. CASE Len(events) # QueueLimit
      BY <2>2
    <2>3. QED
      BY <2>1, <2>2
  <1>2. Pushed(e) = Append(kept, e)
    BY DEF Pushed
  <1> HIDE DEF kept
  <1>3. /\ Append(kept, e) \in Seq(EnvelopeSet) /\ Len(Append(kept, e)) = Len(kept) + 1 /\ Len(kept) \in Nat
        /\ \A i \in 1..Len(kept) : Append(kept, e)[i] = kept[i]
        /\ Append(kept, e)[Len(kept) + 1] = e
    BY <1>1
  <1>4. QED
    BY <1>1, <1>2, <1>3

\* What a poll takes and what it leaves were queued; nothing is lost between.
LEMMA PollHolds ==
  ASSUME events \in Seq(EnvelopeSet), Poll
  PROVE  /\ batch' \in Seq(EnvelopeSet) /\ events' \in Seq(EnvelopeSet)
         /\ \A i \in 1..Len(events') : \E j \in 1..Len(events) : events'[i] = events[j]
         /\ \A i \in 1..Len(batch') :
              batch'[i].kind # "end" \/ \E j \in 1..Len(events) : batch'[i] = events[j]
         /\ \A j \in 1..Len(events) :
              \/ \E i \in 1..Len(events') : events'[i] = events[j]
              \/ \E i \in 1..Len(batch') : batch'[i] = events[j]
  <1> DEFINE told == IF dropped THEN <<[run |-> 0, kind |-> "text"]>> ELSE <<>>
             first == SubSeq(events, 1, Oldest)
             after == SubSeq(events, Oldest + 1, Len(events))
  <1>1. Len(events) \in Nat /\ Oldest \in 0..Len(events)
    BY AiAssumption DEF Oldest
  <1>2. /\ first \in Seq(EnvelopeSet) /\ Len(first) = Oldest
        /\ \A i \in 1..Oldest : first[i] = events[i]
    BY <1>1, SubSeqProperties
  <1>3. /\ after \in Seq(EnvelopeSet) /\ Len(after) = Len(events) - Oldest
        /\ \A i \in 1..Len(after) : i + Oldest \in 1..Len(events) /\ after[i] = events[i + Oldest]
    <2>1. \A i \in Oldest + 1..Len(events) : events[i] \in EnvelopeSet
      BY <1>1
    <2>2. after \in Seq(EnvelopeSet) /\ Len(after) = Len(events) - Oldest
          /\ \A i \in 1..Len(events) - Oldest : after[i] = events[Oldest + 1 + i - 1]
      BY <1>1, <2>1, SubSeqProperties
    <2> HIDE DEF after
    <2>3. QED
      BY <1>1, <2>2
  <1>4. /\ told \in Seq(EnvelopeSet) /\ Len(told) \in {0, 1}
        /\ \A i \in 1..Len(told) : told[i].kind # "end"
    <2>1. [run |-> 0, kind |-> "text"] \in EnvelopeSet
      BY DEF EnvelopeSet
    <2>2. CASE dropped
      BY <2>1, <2>2
    <2>3. CASE ~dropped
      BY <2>3
    <2>4. QED
      BY <2>2, <2>3
  <1>5. batch' = told \o first /\ events' = after
    BY DEF Poll, Drained
  <1> HIDE DEF told, first, after
  <1>6. /\ told \o first \in Seq(EnvelopeSet) /\ Len(told \o first) = Len(told) + Len(first)
        /\ \A i \in 1..Len(told) : (told \o first)[i] = told[i]
        /\ \A i \in 1..Len(first) : (told \o first)[Len(told) + i] = first[i]
    BY SMTT(30), <1>2, <1>4
  <1>7. \A i \in 1..Len(events') : \E j \in 1..Len(events) : events'[i] = events[j]
    BY <1>3, <1>5
  <1>8. ASSUME NEW i \in 1..Len(batch')
        PROVE  batch'[i].kind # "end" \/ \E j \in 1..Len(events) : batch'[i] = events[j]
    <2>1. CASE i \in 1..Len(told)
      BY <1>4, <1>5, <1>6, <2>1
    <2>2. CASE i \notin 1..Len(told)
      <3>1. i - Len(told) \in 1..Len(first) /\ Len(told) + (i - Len(told)) = i
        BY <1>1, <1>2, <1>4, <1>5, <1>6, <1>8, <2>2
      <3>2. PICK k \in 1..Len(first) : Len(told) + k = i
        BY <3>1
      <3>3. batch'[i] = first[k]
        BY <1>5, <1>6, <3>2
      <3>4. QED
        BY <1>1, <1>2, <3>2, <3>3
    <2>3. QED
      BY <2>1, <2>2
  <1>9. ASSUME NEW j \in 1..Len(events)
        PROVE  \/ \E i \in 1..Len(events') : events'[i] = events[j]
               \/ \E i \in 1..Len(batch') : batch'[i] = events[j]
    <2>1. CASE j <= Oldest
      <3>1. j \in 1..Len(first) /\ Len(told) + j \in 1..Len(batch')
        BY <1>1, <1>2, <1>4, <1>5, <1>6, <2>1
      <3>2. batch'[Len(told) + j] = events[j]
        BY <1>1, <1>2, <1>5, <1>6, <2>1, <3>1
      <3>3. QED
        BY <3>1, <3>2
    <2>2. CASE j > Oldest
      <3>1. j - Oldest \in 1..Len(after) /\ (j - Oldest) + Oldest = j
        BY <1>1, <1>3, <2>2
      <3>2. after[j - Oldest] = events[j]
        BY <1>3, <3>1
      <3>3. QED
        BY <1>5, <3>1, <3>2
    <2>3. QED
      BY <1>1, <2>1, <2>2
  <1>10. QED
    BY <1>2, <1>3, <1>5, <1>6, <1>7, <1>8, <1>9

(* The steps of a worker that serves a run: silent ones, one that shows    *)
(* something, and one that ends the run for the pane.                       *)
Serving == step \in {"ask", "look", "register", "wait", "abort", "drain", "told"}
SameSession == UNCHANGED <<backend, active, closed, commands, turns, run, paneRun, busy, pending, batch>>
ServesOn == SameSession /\ UNCHANGED events /\ (step' = step \/ (Serving /\ Serving'))
Shows == /\ SameSession /\ Serving /\ Serving'
         /\ events' = Pushed([run |-> run, kind |-> "text"])
Ends == /\ SameSession /\ Serving
        /\ events' = Pushed([run |-> run, kind |-> "end"])
        /\ step' \in {"clear", "clearOn"} /\ (step' = "clearOn" => backend = "cli")

\* Every step of a worker that serves is one of these, or a silent goodbye.
LEMMA ServingSteps ==
  /\ AskFails \/ MockAnswers \/ ReadEnd \/ ReadBad \/ TellAbort => Ends
  /\ AskLands \/ ReadText => Shows
  /\ AskRespawns \/ LookAtFlag \/ RegisterWaiter \/ WakeUp \/ Abort \/ AbortAcknowledged
       \/ AbortUnanswered \/ ChildWrites \/ ChildExits => ServesOn
  /\ Deadline \/ ReadUi => ServesOn \/ Ends
  /\ ReadEof => \/ Ends
                \/ /\ backend = "cli" /\ step = "wait" /\ step' = "recv" /\ run' = 0
                   /\ UNCHANGED <<session, outbound, pane>>
  <1> USE DEF Serving, SameSession, session, outbound, worker, process, pane
  <1>1. AskFails \/ MockAnswers \/ ReadEnd \/ ReadBad \/ TellAbort => Ends
    BY DEF AskFails, MockAnswers, ReadEnd, ReadBad, TellAbort, Take, EmitEnd, Push, Ends
  <1>2. AskLands \/ ReadText => Shows
    BY DEF AskLands, ReadText, Take, EmitText, Push, Shows
  <1>3. AskRespawns \/ LookAtFlag \/ RegisterWaiter \/ WakeUp => ServesOn
    BY DEF AskRespawns, AskAgain, LookAtFlag, RegisterWaiter, WakeUp, ServesOn
  <1>4. Abort \/ AbortAcknowledged \/ AbortUnanswered \/ ChildWrites \/ ChildExits => ServesOn
    BY DEF Abort, AbortAcknowledged, AbortUnanswered, ChildWrites, ChildExits, ServesOn
  <1>5. Deadline => ServesOn \/ Ends
    BY DEF Deadline, EmitEnd, Push, ServesOn, Ends
  <1>6. ReadUi => ServesOn \/ Ends
    BY DEF ReadUi, Take, AskAgain, EmitEnd, Push, ServesOn, Ends
  <1>7. ReadEof => \/ Ends
                   \/ /\ backend = "cli" /\ step = "wait" /\ step' = "recv" /\ run' = 0
                      /\ UNCHANGED <<session, outbound, pane>>
    BY DEF ReadEof, EmitEnd, Push, Ends
  <1>8. QED
    BY <1>1, <1>2, <1>3, <1>4, <1>5, <1>6, <1>7

\* A step that says nothing, or shows something, ends no run.
LEMMA ServingKeeps == ASSUME TurnInv, ServesOn \/ Shows PROVE TurnInv'
  <1>1. /\ SameSession /\ (step' = step \/ (Serving /\ Serving'))
        /\ events' = events \/ (Serving /\ events' = Pushed([run |-> run, kind |-> "text"]))
    BY DEF ServesOn, Shows
  <1>2. AiTyped' /\ \A i \in 1..Len(events') : Over(events[i])'
    <2>1. CASE events' = events
      <3>1. AiTyped'
        BY <1>1, <2>1 DEF TurnInv, AiTyped, SameSession, Serving, Steps
      <3>2. QED
        BY <1>1, <2>1, <3>1 DEF TurnInv, EndsAreOver, Over, SameSession, Serving
    <2>2. CASE Serving /\ events' = Pushed([run |-> run, kind |-> "text"])
      <3>1. PICK e \in EnvelopeSet : e = [run |-> run, kind |-> "text"] /\ e.kind # "end"
        <4>1. [run |-> run, kind |-> "text"] \in EnvelopeSet
          BY DEF TurnInv, AiTyped, EnvelopeSet
        <4>2. QED
          BY <4>1
      <3>2. /\ events' \in Seq(EnvelopeSet)
            /\ \A i \in 1..Len(events') :
                 events'[i] = e \/ \E j \in 1..Len(events) : events'[i] = events[j]
        <4>1. /\ Pushed(e) \in Seq(EnvelopeSet)
              /\ \A i \in 1..Len(Pushed(e)) :
                   Pushed(e)[i] = e \/ \E j \in 1..Len(events) : Pushed(e)[i] = events[j]
          BY PushedHolds DEF TurnInv, AiTyped
        <4>2. events' = Pushed(e)
          BY <2>2, <3>1
        <4>3. PICK p : p = Pushed(e) /\ p = events'
          BY <4>2
        <4>4. QED
          BY <4>1, <4>3
      <3>3. AiTyped'
        BY <1>1, <3>2 DEF TurnInv, AiTyped, SameSession, Serving, Steps
      <3>4. \A j \in 1..Len(events) : Over(events[j])
        BY DEF TurnInv, EndsAreOver
      <3>5. ASSUME NEW i \in 1..Len(events') PROVE Over(events[i])'
        <4>1. CASE events'[i] = e
          BY <3>1, <4>1 DEF Over
        <4>2. CASE \E j \in 1..Len(events) : events'[i] = events[j]
          <5>1. PICK j \in 1..Len(events) : events'[i] = events[j]
            BY <4>2
          <5>2. step \notin {"clear", "clearOn"}
            BY <2>2 DEF Serving
          <5>3. QED
            BY <1>1, <3>4, <5>1, <5>2 DEF Over, SameSession
        <4>3. QED
          BY <3>2, <4>1, <4>2
      <3>6. QED
        BY <3>3, <3>5
    <2>3. QED
      BY <1>1, <2>1, <2>2
  <1>3. \A i \in 1..Len(batch') : Over(batch[i])'
    BY <1>1 DEF TurnInv, EndsAreOver, Over, SameSession, Serving
  <1>4. Numbered' /\ InForceIsAwaited' /\ InHand' /\ ClosedIsQuiet'
    BY <1>1 DEF TurnInv, Numbered, InForceIsAwaited, InHand, ClosedIsQuiet, SameSession, Serving
  <1>5. BusyIsTold'
    <2>1. CASE events' = events
      BY <1>1, <2>1 DEF TurnInv, BusyIsTold, SameSession, Serving
    <2>2. CASE Serving
      <3>1. backend # "cli" /\ busy => active # 0
        BY <2>2 DEF TurnInv, InHand, ClosedIsQuiet, Serving
      <3>2. step' # "clear"
        BY <1>1, <2>2 DEF Serving
      <3>3. QED
        BY <1>1, <3>1, <3>2 DEF TurnInv, BusyIsTold, SameSession
    <2>3. QED
      BY <1>1, <2>1, <2>2
  <1>6. QED
    BY <1>2, <1>3, <1>4, <1>5 DEF TurnInv, EndsAreOver

\* A run ends for its pane: the event first, the lock next.
LEMMA EndingKeeps == ASSUME TurnInv, Ends PROVE TurnInv'
  <1>1. PICK e \in EnvelopeSet : e = [run |-> run, kind |-> "end"] /\ e.run = run /\ e.kind = "end"
    <2>1. [run |-> run, kind |-> "end"] \in EnvelopeSet
      BY DEF TurnInv, AiTyped, EnvelopeSet
    <2>2. QED
      BY <2>1
  <1>2. /\ events' \in Seq(EnvelopeSet)
        /\ \E i \in 1..Len(events') : events'[i] = e
        /\ \A i \in 1..Len(events') :
             events'[i] = e \/ \E j \in 1..Len(events) : events'[i] = events[j]
    BY <1>1, PushedHolds DEF Ends, TurnInv, AiTyped
  <1>3. /\ SameSession /\ step' \in {"clear", "clearOn"} /\ (step' = "clearOn" => backend = "cli")
        /\ step \notin {"recv", "clear", "clearOn", "ended"} /\ run # 0 /\ run <= turns
    BY DEF Ends, Serving, TurnInv, Numbered
  <1>4. AiTyped'
    BY <1>2, <1>3 DEF TurnInv, AiTyped, SameSession, Steps
  <1>5. ASSUME NEW old, Over(old) PROVE Over(old)'
    BY <1>3, <1>5 DEF Over, SameSession
  <1>6. EndsAreOver'
    <2>1. ASSUME NEW i \in 1..Len(events') PROVE Over(events[i])'
      <3>1. CASE events'[i] = e
        BY <1>1, <1>3, <3>1 DEF Over, SameSession
      <3>2. CASE \E j \in 1..Len(events) : events'[i] = events[j]
        <4>1. PICK j \in 1..Len(events) : events'[i] = events[j]
          BY <3>2
        <4>2. Over(events[j])
          BY DEF TurnInv, EndsAreOver
        <4>3. QED
          BY <1>5, <4>1, <4>2 DEF Over
      <3>3. QED
        BY <1>2, <3>1, <3>2
    <2>2. ASSUME NEW i \in 1..Len(batch') PROVE Over(batch[i])'
      <3>1. batch' = batch /\ Over(batch[i])
        BY <1>3, <2>2 DEF TurnInv, EndsAreOver, SameSession
      <3>2. QED
        BY <1>5, <3>1 DEF Over
    <2>3. QED
      BY <2>1, <2>2 DEF EndsAreOver
  <1>7. Numbered' /\ InForceIsAwaited' /\ InHand' /\ ClosedIsQuiet'
    BY <1>3 DEF TurnInv, Numbered, InForceIsAwaited, InHand, ClosedIsQuiet, SameSession
  <1>8. BusyIsTold'
    <2> SUFFICES ASSUME backend # "cli", busy PROVE BusyIsTold'
      BY <1>3 DEF BusyIsTold, SameSession
    <2>1. active = run /\ active # 0 /\ paneRun = active
      BY <1>3 DEF TurnInv, InHand, ClosedIsQuiet, BusyIsTold
    <2>2. EndOf(paneRun, events)'
      BY <1>1, <1>2, <1>3, <2>1 DEF EndOf, SameSession
    <2>3. QED
      BY <1>3, <2>1, <2>2 DEF TurnInv, BusyIsTold, SameSession
  <1>9. QED
    BY <1>4, <1>6, <1>7, <1>8 DEF TurnInv

\* The run is taken out of force; an adapter may leave without a word.
LEMMA LettingGoKeeps ==
  ASSUME TurnInv,
         \/ ClearActive
         \/ /\ backend = "cli" /\ step = "wait" /\ step' = "recv" /\ run' = 0
            /\ UNCHANGED <<session, outbound, pane>>
  PROVE  TurnInv'
  <1> USE DEF session, outbound, worker, process, pane
  <1>1. CASE ClearActive
    <2>1. /\ UNCHANGED <<backend, closed, commands, turns, events, paneRun, busy, pending, batch>>
          /\ step \in {"clear", "clearOn"} /\ active' \in {0, active} /\ (active = run => active' = 0)
          /\ step' = (IF step = "clear" THEN "recv" ELSE "look")
          /\ run' = (IF step = "clear" THEN 0 ELSE run) /\ (active # run => active' = active)
      BY <1>1 DEF ClearActive, Cleared
    <2>2. AiTyped' /\ Numbered'
      BY <2>1 DEF TurnInv, AiTyped, Numbered, Steps
    <2>3. ASSUME NEW old, Over(old) PROVE Over(old)'
      BY <2>1, <2>3 DEF Over
    <2>4. EndsAreOver'
      <3>1. \A i \in 1..Len(events) : Over(events[i])'
        BY <2>1, <2>3 DEF TurnInv, EndsAreOver, Over
      <3>2. \A i \in 1..Len(batch) : Over(batch[i])'
        BY <2>1, <2>3 DEF TurnInv, EndsAreOver, Over
      <3>3. QED
        BY <2>1, <3>1, <3>2 DEF EndsAreOver
    <2>5. InForceIsAwaited' /\ InHand' /\ ClosedIsQuiet'
      BY <2>1 DEF TurnInv, InForceIsAwaited, InHand, ClosedIsQuiet
    <2>6. BusyIsTold'
      <3> SUFFICES ASSUME backend # "cli", busy PROVE BusyIsTold'
        BY <2>1 DEF BusyIsTold
      <3>1. step = "clear"
        BY <2>1 DEF TurnInv, InHand, ClosedIsQuiet
      <3>2. EndOf(paneRun, events)' \/ EndOf(paneRun, batch)'
        BY <2>1, <3>1 DEF TurnInv, BusyIsTold, EndOf
      <3>3. QED
        BY <2>1, <3>2 DEF TurnInv, BusyIsTold
    <2>7. QED
      BY <2>2, <2>4, <2>5, <2>6 DEF TurnInv
  <1>2. CASE /\ backend = "cli" /\ step = "wait" /\ step' = "recv" /\ run' = 0
             /\ UNCHANGED <<session, outbound, pane>>
    <2>1. AiTyped' /\ Numbered' /\ EndsAreOver'
      BY <1>2 DEF TurnInv, AiTyped, Numbered, EndsAreOver, Over, Steps
    <2>2. InForceIsAwaited' /\ InHand' /\ ClosedIsQuiet' /\ BusyIsTold'
      BY <1>2 DEF TurnInv, InForceIsAwaited, InHand, ClosedIsQuiet, BusyIsTold
    <2>3. QED
      BY <2>1, <2>2 DEF TurnInv
  <1>3. QED
    BY <1>1, <1>2

\* A prompt is taken from the channel and announced.
LEMMA TakingKeeps == ASSUME TurnInv, TakePrompt PROVE TurnInv'
  <1> USE DEF session, outbound, worker, process, pane
  <1>1. /\ UNCHANGED <<backend, active, closed, turns, paneRun, busy, pending, batch>>
        /\ step = "recv" /\ step' = "ask" /\ commands # <<>> /\ Head(commands) # 0
        /\ commands' = Tail(commands) /\ run' = Head(commands)
        /\ events' = Pushed([run |-> Head(commands), kind |-> "text"])
    BY DEF TakePrompt, Push
  <1>2. /\ run' \in Nat /\ run' # 0 /\ run' <= turns /\ commands' \in Seq(Nat)
        /\ \A i \in 1..Len(commands') : commands'[i] <= turns
    <2>1. commands \in Seq(Nat) /\ \A i \in 1..Len(commands) : commands[i] <= turns
      BY DEF TurnInv, AiTyped, Numbered
    <2>2. QED
      BY <1>1, <2>1, QueueFacts
  <1>3. PICK e \in EnvelopeSet : e = [run |-> Head(commands), kind |-> "text"] /\ e.kind # "end"
    <2>1. [run |-> Head(commands), kind |-> "text"] \in EnvelopeSet
      BY <1>1, <1>2 DEF EnvelopeSet
    <2>2. QED
      BY <2>1
  <1>4. /\ events' \in Seq(EnvelopeSet)
        /\ \A i \in 1..Len(events') :
             events'[i] = e \/ \E j \in 1..Len(events) : events'[i] = events[j]
    <2>1. /\ Pushed(e) \in Seq(EnvelopeSet)
          /\ \A i \in 1..Len(Pushed(e)) :
               Pushed(e)[i] = e \/ \E j \in 1..Len(events) : Pushed(e)[i] = events[j]
      BY PushedHolds DEF TurnInv, AiTyped
    <2>2. events' = Pushed(e)
      BY <1>1, <1>3
    <2>3. PICK p : p = Pushed(e) /\ p = events'
      BY <2>2
    <2>4. QED
      BY <2>1, <2>3
  <1>5. AiTyped' /\ Numbered'
    BY <1>1, <1>2, <1>4 DEF TurnInv, AiTyped, Numbered, Steps
  <1>6. ASSUME NEW old, Over(old) PROVE Over(old)'
    BY <1>1, <1>6 DEF Over
  <1>7. EndsAreOver'
    <2>1. ASSUME NEW i \in 1..Len(events') PROVE Over(events[i])'
      <3>1. CASE events'[i] = e
        BY <1>3, <3>1 DEF Over
      <3>2. CASE \E j \in 1..Len(events) : events'[i] = events[j]
        <4>1. PICK j \in 1..Len(events) : events'[i] = events[j]
          BY <3>2
        <4>2. Over(events[j])
          BY DEF TurnInv, EndsAreOver
        <4>3. QED
          BY <1>6, <4>1, <4>2 DEF Over
      <3>3. QED
        BY <1>4, <3>1, <3>2
    <2>2. ASSUME NEW i \in 1..Len(batch') PROVE Over(batch[i])'
      <3>1. batch' = batch /\ Over(batch[i])
        BY <1>1, <2>2 DEF TurnInv, EndsAreOver
      <3>2. QED
        BY <1>6, <3>1 DEF Over
    <2>3. QED
      BY <2>1, <2>2 DEF EndsAreOver
  <1>8. InForceIsAwaited' /\ ClosedIsQuiet'
    BY <1>1 DEF TurnInv, InForceIsAwaited, ClosedIsQuiet
  <1>9. backend # "cli" /\ ~closed => active # 0 /\ run' = active /\ commands' = <<>>
    BY <1>1 DEF TurnInv, InHand
  <1>10. InHand'
    BY <1>1, <1>9 DEF InHand
  <1>11. BusyIsTold'
    BY <1>1, <1>9 DEF TurnInv, BusyIsTold, ClosedIsQuiet
  <1>12. QED
    BY <1>5, <1>7, <1>8, <1>10, <1>11 DEF TurnInv

\* The session ends.
LEMMA LeavingKeeps == ASSUME TurnInv, Shutdown \/ ClosePane PROVE TurnInv'
  <1> USE DEF session, outbound, worker, process, pane
  <1>1. CASE Shutdown
    <2>1. /\ UNCHANGED <<backend, active, closed, commands, turns, events, paneRun, busy, pending, batch>>
          /\ closed /\ step' = "ended" /\ run' = 0
      BY <1>1 DEF Shutdown
    <2>2. AiTyped' /\ Numbered' /\ EndsAreOver'
      BY <2>1 DEF TurnInv, AiTyped, Numbered, EndsAreOver, Over, Steps
    <2>3. InForceIsAwaited' /\ InHand' /\ BusyIsTold' /\ ClosedIsQuiet'
      BY <2>1 DEF TurnInv, InForceIsAwaited, InHand, BusyIsTold, ClosedIsQuiet
    <2>4. QED
      BY <2>2, <2>3 DEF TurnInv
  <1>2. CASE ClosePane
    <2>1. /\ UNCHANGED <<backend, active, turns, events, batch, step, run>>
          /\ closed' = TRUE /\ batch = <<>> /\ commands' = Append(commands, 0)
          /\ paneRun' = 0 /\ busy' = FALSE /\ pending' = FALSE
      BY <1>2 DEF ClosePane, Signal
    <2>2. /\ commands' \in Seq(Nat)
          /\ \A i \in 1..Len(commands') : commands'[i] <= turns
      <3>1. /\ Append(commands, 0) \in Seq(Nat) /\ Len(Append(commands, 0)) = Len(commands) + 1
            /\ \A i \in 1..Len(commands) : Append(commands, 0)[i] = commands[i]
            /\ Append(commands, 0)[Len(commands) + 1] = 0 /\ Len(commands) \in Nat
        BY DEF TurnInv, AiTyped
      <3>2. QED
        BY <2>1, <3>1 DEF TurnInv, AiTyped, Numbered
    <2>3. AiTyped' /\ Numbered'
      BY <2>1, <2>2 DEF TurnInv, AiTyped, Numbered
    <2>4. EndsAreOver'
      BY <2>1 DEF TurnInv, EndsAreOver, Over
    <2>5. InForceIsAwaited' /\ InHand' /\ BusyIsTold' /\ ClosedIsQuiet'
      BY <2>1 DEF InForceIsAwaited, InHand, BusyIsTold, ClosedIsQuiet
    <2>6. QED
      BY <2>3, <2>4, <2>5 DEF TurnInv
  <1>3. QED
    BY <1>1, <1>2

\* What a prompt does to the session: nothing to a run in force, or the next
\* one, of a number no event has.
LEMMA PromptStarts ==
  ASSUME TurnInv, Prompt
  PROVE  \/ /\ active # 0 /\ busy' = FALSE /\ UNCHANGED <<active, commands, turns, paneRun>>
         \/ /\ active = 0 /\ turns' = turns + 1 /\ active' = turns' /\ paneRun' = turns' /\ busy' = TRUE
            /\ turns' \in Nat /\ turns < turns'
            /\ commands' \in Seq(Nat) /\ \A i \in 1..Len(commands') : commands'[i] <= turns'
            /\ commands = <<>> => commands' = <<turns'>>
  <1>1. CASE active # 0
    BY <1>1 DEF Prompt
  <1>2. CASE active = 0
    <2>1. /\ turns' = turns + 1 /\ active' = turns' /\ paneRun' = turns' /\ busy' = TRUE
          /\ commands' = Append(commands, turns + 1) /\ turns \in Nat
      BY <1>2 DEF Prompt, TurnInv, AiTyped
    <2>2. /\ commands \in Seq(Nat) /\ Append(commands, turns + 1) \in Seq(Nat)
          /\ Len(Append(commands, turns + 1)) = Len(commands) + 1
          /\ \A i \in 1..Len(commands) : Append(commands, turns + 1)[i] = commands[i]
          /\ Append(commands, turns + 1)[Len(commands) + 1] = turns + 1 /\ Len(commands) \in Nat
      BY <2>1 DEF TurnInv, AiTyped
    <2>3. \A i \in 1..Len(commands) : commands[i] <= turns /\ commands[i] \in Nat
      BY <2>2 DEF TurnInv, Numbered
    <2>4. ASSUME NEW i \in 1..Len(commands') PROVE commands'[i] <= turns'
      <3>1. CASE i \in 1..Len(commands)
        BY <2>1, <2>2, <2>3, <3>1
      <3>2. CASE i = Len(commands) + 1
        BY <2>1, <2>2, <3>2
      <3>3. QED
        BY <2>1, <2>2, <3>1, <3>2
    <2>5. commands = <<>> => commands' = <<turns'>>
      BY <2>1
    <2>6. QED
      BY <1>2, <2>1, <2>2, <2>4, <2>5
  <1>3. QED
    BY <1>1, <1>2

\* A prompt keeps what it does not start in order.
LEMMA PromptKeeps ==
  ASSUME TurnInv, Prompt, ~closed,
         UNCHANGED <<backend, closed, events, step, run>>, pending' \in BOOLEAN,
         batch' \in Seq(EnvelopeSet),
         \A i \in 1..Len(batch') : \E j \in 1..Len(batch) : batch'[i] = batch[j]
  PROVE  TurnInv'
  <1>1. CASE active # 0 /\ busy' = FALSE /\ UNCHANGED <<active, commands, turns, paneRun>>
    <2>1. AiTyped' /\ Numbered'
      BY <1>1 DEF TurnInv, AiTyped, Numbered
    <2>2. EndsAreOver'
      BY <1>1 DEF TurnInv, EndsAreOver, Over
    <2>3. InForceIsAwaited' /\ InHand' /\ BusyIsTold' /\ ClosedIsQuiet'
      BY <1>1 DEF TurnInv, InForceIsAwaited, InHand, BusyIsTold, ClosedIsQuiet
    <2>4. QED
      BY <2>1, <2>2, <2>3 DEF TurnInv
  <1>2. CASE /\ active = 0 /\ turns' = turns + 1 /\ active' = turns' /\ paneRun' = turns' /\ busy' = TRUE
             /\ turns' \in Nat /\ turns < turns'
             /\ commands' \in Seq(Nat) /\ \A i \in 1..Len(commands') : commands'[i] <= turns'
             /\ commands = <<>> => commands' = <<turns'>>
    <2>1. turns \in Nat /\ turns' # 0
      BY <1>2 DEF TurnInv, AiTyped
    <2>2. AiTyped' /\ Numbered'
      BY <1>2, <2>1 DEF TurnInv, AiTyped, Numbered
    <2>3. ASSUME NEW old \in EnvelopeSet, Over(old) PROVE Over(old)'
      BY <1>2, <2>1, <2>3 DEF Over, EnvelopeSet
    <2>4. EndsAreOver'
      <3>1. /\ \A i \in 1..Len(events) : events[i] \in EnvelopeSet /\ Over(events[i])
            /\ \A i \in 1..Len(batch) : batch[i] \in EnvelopeSet /\ Over(batch[i])
        BY QueueFacts DEF TurnInv, AiTyped, EndsAreOver
      <3>2. ASSUME NEW i \in 1..Len(events') PROVE Over(events[i])'
        BY <2>3, <3>1, <3>2 DEF Over
      <3>3. ASSUME NEW i \in 1..Len(batch') PROVE Over(batch[i])'
        <4>1. PICK j \in 1..Len(batch) : batch'[i] = batch[j]
          BY <3>3
        <4>2. QED
          BY <2>3, <3>1, <4>1 DEF Over
      <3>4. QED
        BY <3>2, <3>3 DEF EndsAreOver
    <2>5. InForceIsAwaited' /\ ClosedIsQuiet'
      BY <1>2 DEF InForceIsAwaited, ClosedIsQuiet
    <2>6. backend # "cli" => step = "recv" /\ commands' = <<active'>>
      BY <1>2 DEF TurnInv, InHand
    <2>7. InHand' /\ BusyIsTold'
      BY <1>2, <2>1, <2>6 DEF InHand, BusyIsTold
    <2>8. QED
      BY <2>2, <2>4, <2>5, <2>7 DEF TurnInv
  <1>3. QED
    BY <1>1, <1>2, PromptStarts

\* A text is submitted: a new turn, or a cancel and a text to follow.
LEMMA SubmitKeeps == ASSUME TurnInv, Submit PROVE TurnInv'
  <1> USE DEF session, outbound, worker, process, pane
  <1>1. /\ ~closed /\ batch = <<>>
        /\ UNCHANGED <<backend, closed, events, batch, step, run>>
    BY DEF Submit, Signal
  <1>2. CASE Prompt /\ pending' = pending
    <2>1. batch' \in Seq(EnvelopeSet) /\ pending' \in BOOLEAN
      BY <1>1, <1>2 DEF TurnInv, AiTyped
    <2>2. QED
      BY <1>1, <1>2, <2>1, PromptKeeps
  <1>3. CASE UNCHANGED <<active, commands, turns, paneRun, busy>> /\ pending' = TRUE
    <2>1. AiTyped' /\ Numbered' /\ EndsAreOver'
      BY <1>1, <1>3 DEF TurnInv, AiTyped, Numbered, EndsAreOver, Over
    <2>2. InForceIsAwaited' /\ InHand' /\ ClosedIsQuiet' /\ BusyIsTold'
      BY <1>1, <1>3 DEF TurnInv, InForceIsAwaited, InHand, ClosedIsQuiet, BusyIsTold, EndOf
    <2>3. QED
      BY <2>1, <2>2 DEF TurnInv
  <1>4. QED
    BY <1>2, <1>3 DEF Submit

\* A poll moves events from the queue to the pane.
LEMMA PollKeeps == ASSUME TurnInv, Poll PROVE TurnInv'
  <1> USE DEF session, outbound, worker, process, pane
  <1>1. /\ UNCHANGED <<backend, active, closed, commands, turns, step, run, paneRun, busy, pending>>
        /\ ~closed /\ batch = <<>>
    BY DEF Poll
  <1>2. /\ batch' \in Seq(EnvelopeSet) /\ events' \in Seq(EnvelopeSet)
        /\ \A i \in 1..Len(events') : \E j \in 1..Len(events) : events'[i] = events[j]
        /\ \A i \in 1..Len(batch') :
             batch'[i].kind # "end" \/ \E j \in 1..Len(events) : batch'[i] = events[j]
        /\ \A j \in 1..Len(events) :
             \/ \E i \in 1..Len(events') : events'[i] = events[j]
             \/ \E i \in 1..Len(batch') : batch'[i] = events[j]
    BY PollHolds DEF TurnInv, AiTyped
  <1>3. AiTyped' /\ Numbered'
    BY <1>1, <1>2 DEF TurnInv, AiTyped, Numbered
  <1>4. ASSUME NEW old, Over(old) PROVE Over(old)'
    BY <1>1, <1>4 DEF Over
  <1>5. EndsAreOver'
    <2>1. \A j \in 1..Len(events) : Over(events[j])
      BY DEF TurnInv, EndsAreOver
    <2>2. ASSUME NEW i \in 1..Len(events') PROVE Over(events[i])'
      <3>1. PICK j \in 1..Len(events) : events'[i] = events[j]
        BY <1>2, <2>2
      <3>2. QED
        BY <1>4, <2>1, <3>1 DEF Over
    <2>3. ASSUME NEW i \in 1..Len(batch') PROVE Over(batch[i])'
      <3>1. CASE batch'[i].kind # "end"
        BY <3>1 DEF Over
      <3>2. CASE \E j \in 1..Len(events) : batch'[i] = events[j]
        <4>1. PICK j \in 1..Len(events) : batch'[i] = events[j]
          BY <3>2
        <4>2. QED
          BY <1>4, <2>1, <4>1 DEF Over
      <3>3. QED
        BY <1>2, <2>3, <3>1, <3>2
    <2>4. QED
      BY <2>2, <2>3 DEF EndsAreOver
  <1>6. InForceIsAwaited' /\ InHand' /\ ClosedIsQuiet'
    BY <1>1 DEF TurnInv, InForceIsAwaited, InHand, ClosedIsQuiet
  <1>7. EndOf(paneRun, events) \/ EndOf(paneRun, batch) => EndOf(paneRun, events)' \/ EndOf(paneRun, batch)'
    <2>1. ~EndOf(paneRun, batch)
      BY <1>1 DEF EndOf
    <2>2. SUFFICES ASSUME NEW j \in 1..Len(events), events[j] = [run |-> paneRun, kind |-> "end"]
                   PROVE  EndOf(paneRun, events)' \/ EndOf(paneRun, batch)'
      BY <2>1 DEF EndOf
    <2>3. \/ \E i \in 1..Len(events') : events'[i] = [run |-> paneRun', kind |-> "end"]
          \/ \E i \in 1..Len(batch') : batch'[i] = [run |-> paneRun', kind |-> "end"]
      BY <1>1, <1>2, <2>2
    <2>4. QED
      BY <2>3 DEF EndOf
  <1>8. BusyIsTold'
    BY <1>1, <1>7 DEF TurnInv, BusyIsTold
  <1>9. QED
    BY <1>3, <1>5, <1>6, <1>8 DEF TurnInv

\* The pane handles one event of a poll.
LEMMA HandlingKeeps == ASSUME TurnInv, HandleEnvelope PROVE TurnInv'
  <1> USE DEF session, outbound, worker, process, pane
  <1> DEFINE head == Head(batch)
  <1>1. /\ UNCHANGED <<backend, closed, events, step, run>>
        /\ batch # <<>> /\ batch' = Tail(batch) /\ ~closed
    BY DEF HandleEnvelope, TurnInv, ClosedIsQuiet
  <1>2. /\ batch' \in Seq(EnvelopeSet) /\ head \in EnvelopeSet /\ Over(head)
        /\ \A i \in 1..Len(batch') : i + 1 \in 1..Len(batch) /\ batch'[i] = batch[i + 1]
        /\ \A j \in 1..Len(batch) : batch[j] = head \/ \E i \in 1..Len(batch') : batch'[i] = batch[j]
    <2>1. batch \in Seq(EnvelopeSet) /\ \A i \in 1..Len(batch) : Over(batch[i])
      BY DEF TurnInv, AiTyped, EndsAreOver
    <2>2. /\ batch' \in Seq(EnvelopeSet) /\ head \in EnvelopeSet /\ Len(batch') = Len(batch) - 1
          /\ 1 \in 1..Len(batch) /\ head = batch[1] /\ Len(batch) \in Nat
          /\ \A i \in 1..Len(batch') : i + 1 \in 1..Len(batch) /\ batch'[i] = batch[i + 1]
      BY <1>1, <2>1, QueueFacts
    <2>3. ASSUME NEW j \in 1..Len(batch), batch[j] # head
          PROVE  \E i \in 1..Len(batch') : batch'[i] = batch[j]
      <3>1. j # 1
        BY <2>2, <2>3
      <3>2. j - 1 \in 1..Len(batch') /\ (j - 1) + 1 = j
        BY <2>2, <3>1
      <3>3. QED
        BY <2>2, <3>2
    <2> HIDE DEF head
    <2>4. QED
      BY <2>1, <2>2, <2>3
  <1> HIDE DEF head
  <1>3. \A i \in 1..Len(batch') : Over(batch'[i])
    BY <1>2 DEF TurnInv, EndsAreOver
  <1>4. CASE /\ Concerns(head) /\ head.kind = "end"
             /\ busy' = FALSE /\ paneRun' = 0 /\ UNCHANGED <<active, commands, turns>> /\ pending' \in BOOLEAN
    <2>1. AiTyped' /\ Numbered'
      BY <1>1, <1>2, <1>4 DEF TurnInv, AiTyped, Numbered
    <2>2. EndsAreOver'
      <3>1. ASSUME NEW old, Over(old) PROVE Over(old)'
        BY <1>1, <1>4, <3>1 DEF Over
      <3>2. \A i \in 1..Len(events) : Over(events[i])'
        BY <1>1, <1>4 DEF TurnInv, EndsAreOver, Over
      <3>3. ASSUME NEW i \in 1..Len(batch') PROVE Over(batch[i])'
        BY <1>3, <3>1, <3>3 DEF Over
      <3>4. QED
        BY <1>1, <3>2, <3>3 DEF EndsAreOver
    <2>3. active # 0 => step \in {"clear", "clearOn"} /\ run = active
      <3>1. head.run # 0 /\ head.run = paneRun
        BY <1>2, <1>4 DEF Over, Concerns
      <3>2. QED
        BY <1>1, <1>2, <1>4, <3>1 DEF TurnInv, InForceIsAwaited, Over
    <2>4. InForceIsAwaited' /\ InHand' /\ ClosedIsQuiet' /\ BusyIsTold'
      BY <1>1, <1>4, <2>3 DEF TurnInv, InForceIsAwaited, InHand, ClosedIsQuiet, BusyIsTold
    <2>5. QED
      BY <2>1, <2>2, <2>4 DEF TurnInv
  <1>5. CASE Prompt /\ pending' = FALSE
    <2>1. \A i \in 1..Len(batch') : \E j \in 1..Len(batch) : batch'[i] = batch[j]
      BY <1>2
    <2>2. QED
      BY <1>1, <1>2, <1>5, <2>1, PromptKeeps
  <1>6. CASE /\ ~Concerns(head) \/ head.kind # "end"
             /\ UNCHANGED <<active, commands, turns, busy, paneRun, pending>>
    <2>1. AiTyped' /\ Numbered'
      BY <1>1, <1>2, <1>6 DEF TurnInv, AiTyped, Numbered
    <2>2. EndsAreOver'
      <3>1. ASSUME NEW old, Over(old) PROVE Over(old)'
        BY <1>1, <1>6, <3>1 DEF Over
      <3>2. \A i \in 1..Len(events) : Over(events[i])'
        BY <1>1, <1>6 DEF TurnInv, EndsAreOver, Over
      <3>3. ASSUME NEW i \in 1..Len(batch') PROVE Over(batch[i])'
        BY <1>3, <3>1, <3>3 DEF Over
      <3>4. QED
        BY <1>1, <3>2, <3>3 DEF EndsAreOver
    <2>3. InForceIsAwaited' /\ InHand' /\ ClosedIsQuiet'
      BY <1>1, <1>6 DEF TurnInv, InForceIsAwaited, InHand, ClosedIsQuiet
    <2>4. EndOf(paneRun, events) => EndOf(paneRun, events)'
      BY <1>1, <1>6 DEF EndOf
    <2>5. EndOf(paneRun, batch) => EndOf(paneRun, batch)'
      <3>1. SUFFICES ASSUME NEW j \in 1..Len(batch), batch[j] = [run |-> paneRun, kind |-> "end"]
                     PROVE  EndOf(paneRun, batch)'
        BY DEF EndOf
      <3>2. batch[j] # head
        BY <1>6, <3>1 DEF Concerns
      <3>3. PICK i \in 1..Len(batch') : batch'[i] = batch[j]
        BY <1>2, <3>2
      <3>4. batch'[i] = [run |-> paneRun', kind |-> "end"]
        BY <1>6, <3>1, <3>3
      <3>5. QED
        BY <3>4 DEF EndOf
    <2>6. BusyIsTold'
      BY <1>1, <1>6, <2>4, <2>5 DEF TurnInv, BusyIsTold
    <2>7. QED
      BY <2>1, <2>2, <2>3, <2>6 DEF TurnInv
  <1>7. QED
    <2>1. pending' \in BOOLEAN
      BY DEF HandleEnvelope, TurnInv, AiTyped
    <2>2. QED
      BY <1>4, <1>5, <1>6, <2>1 DEF HandleEnvelope, head

\* Every step keeps the runs in order.
LEMMA TurnsStayInOrder == TurnInv /\ [AiNext]_aiVars => TurnInv'
  <1> SUFFICES ASSUME TurnInv, [AiNext]_aiVars PROVE TurnInv'
    OBVIOUS
  <1>1. CASE Submit \/ Poll \/ HandleEnvelope \/ ClosePane \/ Shutdown \/ TakePrompt
    BY <1>1, SubmitKeeps, PollKeeps, HandlingKeeps, LeavingKeeps, TakingKeeps
  <1>2. CASE ClearActive
    BY <1>2, LettingGoKeeps
  <1>3. CASE AskFails \/ MockAnswers \/ ReadEnd \/ ReadBad \/ TellAbort
    BY <1>3, ServingSteps, EndingKeeps
  <1>4. CASE AskLands \/ ReadText \/ AskRespawns \/ LookAtFlag \/ RegisterWaiter \/ WakeUp
    BY <1>4, ServingSteps, ServingKeeps
  <1>5. CASE Abort \/ AbortAcknowledged \/ AbortUnanswered \/ ChildWrites \/ ChildExits
    BY <1>5, ServingSteps, ServingKeeps
  <1>6. CASE Deadline \/ ReadUi
    BY <1>6, ServingSteps, ServingKeeps, EndingKeeps
  <1>7. CASE ReadEof
    BY <1>7, ServingSteps, EndingKeeps, LettingGoKeeps
  <1>8. CASE UNCHANGED aiVars
    <2>1. ServesOn
      BY <1>8 DEF aiVars, ServesOn, SameSession
    <2>2. QED
      BY <2>1, ServingKeeps
  <1>9. QED
    BY <1>1, <1>2, <1>3, <1>4, <1>5, <1>6, <1>7, <1>8 DEF AiNext, WorkerStep

\* A session starts without a run.
LEMMA TurnInvInit == AiInit => TurnInv
  <1> SUFFICES ASSUME AiInit PROVE TurnInv
    OBVIOUS
  <1>1. /\ active = 0 /\ turns = 0 /\ run = 0 /\ paneRun = 0 /\ step = "recv"
        /\ commands = <<>> /\ events = <<>> /\ batch = <<>> /\ busy = FALSE /\ pending = FALSE
    BY Zenon DEF AiInit
  <1>2. InForceIsAwaited /\ InHand /\ BusyIsTold /\ ClosedIsQuiet
    BY <1>1 DEF InForceIsAwaited, InHand, BusyIsTold, ClosedIsQuiet
  <1>3. Numbered /\ EndsAreOver
    BY <1>1 DEF Numbered, EndsAreOver
  <1>4. AiTyped
    <2>1. <<>> \in Seq(Nat) /\ <<>> \in Seq(EnvelopeSet)
      OBVIOUS
    <2>2. step \in Steps /\ busy \in BOOLEAN /\ pending \in BOOLEAN
      BY <1>1, Zenon DEF Steps
    <2>3. QED
      BY <1>1, <2>1, <2>2 DEF AiTyped
  <1>5. QED
    BY <1>2, <1>3, <1>4 DEF TurnInv

\* What the order of the runs promises the pane.
LEMMA OrderedRunsAreAwaited == TurnInv => RunsAreAwaited
  <1> SUFFICES ASSUME TurnInv PROVE OnlyAdaptersStrand
    BY DEF RunsAreAwaited, TurnInv
  <1>1. CASE backend = "cli"
    BY <1>1 DEF OnlyAdaptersStrand
  <1>2. CASE backend # "cli"
    <2>1. ~Stuck
      BY <1>2 DEF TurnInv, InHand, Stuck
    <2>2. ASSUME EndLost PROVE FALSE
      <3>1. busy /\ paneRun # active /\ ~closed
        BY <2>2 DEF EndLost, TurnInv, ClosedIsQuiet
      <3>2. EndOf(paneRun, events) \/ EndOf(paneRun, batch)
        BY <1>2, <3>1 DEF TurnInv, BusyIsTold
      <3>3. /\ Len(events) \in Nat /\ Len(batch) \in Nat /\ Len(events \o batch) = Len(events) + Len(batch)
            /\ \A i \in 1..Len(events) : (events \o batch)[i] = events[i]
            /\ \A i \in 1..Len(batch) : (events \o batch)[Len(events) + i] = batch[i]
        BY DEF TurnInv, AiTyped
      <3>4. \E i \in 1..Len(events \o batch) : (events \o batch)[i] = [run |-> paneRun, kind |-> "end"]
        <4>1. CASE EndOf(paneRun, events)
          <5>1. PICK i \in 1..Len(events) : events[i] = [run |-> paneRun, kind |-> "end"]
            BY <4>1 DEF EndOf
          <5>2. i \in 1..Len(events \o batch)
            BY <3>3
          <5>3. QED
            BY <3>3, <5>1, <5>2
        <4>2. CASE EndOf(paneRun, batch)
          <5>1. PICK i \in 1..Len(batch) : batch[i] = [run |-> paneRun, kind |-> "end"]
            BY <4>2 DEF EndOf
          <5>2. Len(events) + i \in 1..Len(events \o batch)
            BY <3>3
          <5>3. (events \o batch)[Len(events) + i] = [run |-> paneRun, kind |-> "end"]
            BY <3>3, <5>1
          <5>4. QED
            BY <5>2, <5>3
        <4>3. QED
          BY <3>2, <4>1, <4>2
      <3>5. QED
        BY <2>2, <3>4 DEF EndLost
    <2>3. QED
      BY <2>1, <2>2 DEF OnlyAdaptersStrand
  <1>3. QED
    BY <1>1, <1>2

\* A step of the composition is one of the session, or leaves it alone.
LEMMA PartAi == [MCNext]_mcVars => [AiNext]_aiVars
  BY DEF MCNext, mcVars, InAi, InFrames, InMedia, InCli, InLines

\* A step of the composition is one of the frames, or leaves them alone.
LEMMA PartFrames == [MCNext]_mcVars => [RpcNext]_rpcVars
  BY DEF MCNext, mcVars, InAi, InFrames, InMedia, InCli, InLines

\* The run in force is the one its pane waits for, and only an adapter can
\* strand a pane: for any number of turns and any size of the event queue
\* (EventSink::emit, EventQueue::push, AiSession::prompt, _handle_envelope).
THEOREM PanesAwaitTheRunInForce == MCSpec => []RunsAreAwaited
  <1>1. MCInit => TurnInv
    BY TurnInvInit DEF MCInit
  <1>2. TurnInv /\ [MCNext]_mcVars => TurnInv'
    BY TurnsStayInOrder, PartAi
  <1>3. QED
    BY <1>1, <1>2, OrderedRunsAreAwaited, PTL DEF MCSpec

(***************************************************************************)
(* The child of an omp session                                             *)
(***************************************************************************)

\* What reading the first frame of a child leaves, and what writing one adds.
LEMMA ChildFrameFacts ==
  ASSUME ChildTyped
  PROVE  /\ stdout # <<>> => Tail(stdout) \in Seq(ChildFrames)
         /\ \A kind \in FrameKinds, r \in Nat :
              Append(stdout, [run |-> r, kind |-> kind]) \in Seq(ChildFrames)
  <1>1. \A kind \in FrameKinds, r \in Nat : [run |-> r, kind |-> kind] \in ChildFrames
    BY DEF ChildFrames
  <1>2. QED
    BY <1>1, QueueFacts DEF ChildTyped

\* A frame is read, and the turn goes on; its end is the last frame of all.
LEMMA ReadingOn ==
  ASSUME NEW frames \in Seq(ChildFrames), frames # <<>>, NEW r, NEW answered, Own(frames, r, answered)
  PROVE  /\ Own(Tail(frames), r, answered)
         /\ Head(frames).run = r
         /\ Head(frames).kind \in {"end", "fail"} => Tail(frames) = <<>> /\ answered = 0
  <1> DEFINE after == Tail(frames)
  <1>1. /\ after \in Seq(ChildFrames) /\ Len(after) = Len(frames) - 1 /\ Len(frames) \in Nat
        /\ 1 \in 1..Len(frames) /\ Head(frames) = frames[1]
        /\ \A i \in 1..Len(after) : i + 1 \in 1..Len(frames) /\ after[i] = frames[i + 1]
    BY QueueFacts
  <1>2. after \in Seq(ChildFrames) /\ (Len(after) = 0 => after = <<>>)
    <2> HIDE DEF after
    <2>1. \A q \in Seq(ChildFrames) : Len(q) = 0 => q = <<>>
      OBVIOUS
    <2>2. QED
      BY <1>1, <2>1
  <1>3. Head(frames).run = r /\ (Head(frames).kind \in {"end", "fail"} => 1 = Len(frames) /\ answered = 0)
    <2>1. /\ frames[1].run = r
          /\ frames[1].kind \in {"end", "fail"} => 1 = Len(frames) /\ answered = 0
      BY <1>1, Zenon DEF Own
    <2>2. QED
      BY <1>1, <2>1
  <1> HIDE DEF after
  <1>4. ASSUME NEW i \in 1..Len(after)
        PROVE  /\ after[i].run = r
               /\ after[i].kind \in {"end", "fail"} => i = Len(after) /\ answered = 0
    <2>1. i + 1 \in 1..Len(frames) /\ after[i] = frames[i + 1]
      BY <1>1
    <2>2. /\ after[i].run = r
          /\ after[i].kind \in {"end", "fail"} => i + 1 = Len(frames) /\ answered = 0
      BY <2>1, Zenon DEF Own
    <2>3. i + 1 = Len(frames) => i = Len(after)
      BY <1>1
    <2>4. QED
      BY <2>2, <2>3
  <1>5. Own(after, r, answered)
    BY <1>4 DEF Own
  <1>6. 1 = Len(frames) => after = <<>>
    BY <1>1, <1>2
  <1>7. QED
    BY <1>3, <1>5, <1>6, Zenon DEF after

\* Types of the child's frames.
LEMMA ChildTypes == ASSUME ChildTyped, run' \in Nat, AiNext PROVE ChildTyped'
  <1> USE DEF session, outbound, worker, process, pane
  <1> DEFINE none == <<>>
  <1>1. none \in Seq(ChildFrames)
    OBVIOUS
  <1>2. CASE TakePrompt
    <2>1. UNCHANGED <<stdout, answering>> \/ (stdout' = none /\ answering' = 0)
      BY <1>2 DEF TakePrompt, Fresh
    <2> HIDE DEF none
    <2>2. QED
      BY <1>1, <2>1 DEF ChildTyped
  <1>3. CASE \/ AskFails \/ AskRespawns \/ MockAnswers \/ AskLands \/ LookAtFlag \/ RegisterWaiter
             \/ WakeUp \/ Deadline \/ ReadEof \/ AbortUnanswered \/ TellAbort \/ Shutdown \/ ClearActive
             \/ Poll \/ ChildExits
    <2>1. /\ stdout' \in {stdout, none} /\ answering' \in {answering, 0, run}
      <3>1. CASE AskFails \/ AskRespawns \/ MockAnswers \/ AskLands \/ LookAtFlag \/ RegisterWaiter
        BY <3>1 DEF AskFails, AskRespawns, AskAgain, Fresh, EmitEnd, EmitText, Push, MockAnswers, AskLands,
           LookAtFlag, RegisterWaiter
      <3>2. CASE WakeUp \/ Deadline \/ ReadEof \/ AbortUnanswered \/ TellAbort
        BY <3>2 DEF WakeUp, Deadline, ReadEof, AbortUnanswered, TellAbort, EmitEnd
      <3>3. CASE Shutdown \/ ClearActive \/ Poll \/ ChildExits
        BY <3>3 DEF Shutdown, ClearActive, Poll, ChildExits
      <3>4. QED
        BY <1>3, <3>1, <3>2, <3>3
    <2> HIDE DEF none
    <2>2. QED
      BY <1>1, <2>1 DEF ChildTyped
  <1>4. CASE ReadText \/ ReadEnd \/ ReadBad \/ ReadUi \/ AbortAcknowledged
    <2>1. /\ answering' \in {answering, 0}
          /\ stdout' = none \/ (stdout # <<>> /\ stdout' = Tail(stdout))
      BY <1>4 DEF ReadText, ReadEnd, ReadBad, ReadUi, Take, AskAgain, Fresh, AbortAcknowledged, EmitEnd,
         EmitText, Push
    <2> HIDE DEF none
    <2>2. answering' \in Nat
      BY <2>1 DEF ChildTyped
    <2>3. stdout' \in Seq(ChildFrames)
      <3>1. stdout \in Seq(ChildFrames)
        BY DEF ChildTyped
      <3>2. QED
        BY <1>1, <2>1, <3>1, ChildFrameFacts
    <2>4. QED
      BY <2>2, <2>3 DEF ChildTyped
  <1>5. CASE Abort \/ ChildWrites
    <2>1. /\ answering' \in {answering, 0}
          /\ \/ stdout' \in {stdout, none}
             \/ \E kind \in FrameKinds, r \in Nat : stdout' = Append(stdout, [run |-> r, kind |-> kind])
      <3>1. CASE Abort
        BY <3>1 DEF Abort, ChildTyped, FrameKinds
      <3>2. CASE ChildWrites
        BY <3>2 DEF ChildWrites, ChildTyped, FrameKinds
      <3>3. QED
        BY <1>5, <3>1, <3>2
    <2> HIDE DEF none
    <2>2. answering' \in Nat
      BY <2>1 DEF ChildTyped
    <2>3. stdout' \in Seq(ChildFrames)
      <3>1. stdout \in Seq(ChildFrames)
        BY DEF ChildTyped
      <3>2. QED
        BY <1>1, <2>1, <3>1, ChildFrameFacts
    <2>4. QED
      BY <2>2, <2>3 DEF ChildTyped
  <1>6. CASE Submit \/ HandleEnvelope \/ ClosePane
    BY <1>6 DEF Submit, HandleEnvelope, ClosePane, Signal, ChildTyped
  <1>7. QED
    BY <1>2, <1>3, <1>4, <1>5, <1>6 DEF AiNext, WorkerStep

\* A worker asks, reads and gives up.
LEMMA ChildWorkerKeeps == ASSUME ChildInv, WorkerStep PROVE ChildInStep'
  <1> USE DEF session, outbound, worker, process, pane
  <1> SUFFICES ASSUME backend' = "omp", ~garbled' PROVE ChildInStep'
    BY DEF ChildInStep
  <1>1. backend = "omp" /\ (garbled' = garbled => ~garbled) /\ UNCHANGED backend
    BY DEF WorkerStep, TakePrompt, AskFails, AskRespawns, AskLands, MockAnswers, LookAtFlag, RegisterWaiter,
       WakeUp, Deadline, ReadText, ReadEnd, ReadBad, ReadUi, ReadEof, Abort, AbortAcknowledged,
       AbortUnanswered, TellAbort, ClearActive, Shutdown, EmitEnd
  <1>2. ~garbled =>
          /\ step \in {"recv", "ask", "clear"} /\ child = "alive" => stdout = <<>> /\ answering = 0
          /\ step \in {"look", "register", "wait"} => Own(stdout, run, answering)
          /\ step = "told" => child = "dead"
    BY <1>1 DEF ChildInv, ChildInStep
  <1>3. CASE TakePrompt
    BY <1>1, <1>2, <1>3 DEF TakePrompt, Fresh, Stale, ChildInStep
  <1>4. CASE AskFails \/ MockAnswers
    BY <1>1, <1>2, <1>4 DEF AskFails, MockAnswers, EmitEnd, ChildInStep
  <1>5. CASE AskRespawns
    BY <1>1, <1>2, <1>5 DEF AskRespawns, AskAgain, Fresh, ChildInStep
  <1>6. CASE AskLands
    <2>1. /\ step' = "look" /\ stdout' = <<>> /\ answering' = run /\ run' = run
      BY <1>1, <1>2, <1>6 DEF AskLands
    <2>2. Own(stdout', run', answering')
      BY <2>1 DEF Own
    <2>3. QED
      BY <2>1, <2>2 DEF ChildInStep
  <1>7. CASE LookAtFlag \/ RegisterWaiter
    BY <1>1, <1>2, <1>7 DEF LookAtFlag, RegisterWaiter, ChildInStep
  <1>8. CASE WakeUp \/ Deadline
    BY <1>1, <1>2, <1>8 DEF WakeUp, Deadline, ChildInStep
  <1>9. CASE ReadText \/ ReadEnd \/ ReadUi
    <2>1. step = "wait" /\ stdout # <<>>
      BY <1>9 DEF ReadText, ReadEnd, ReadUi, Take
    <2>2. ~garbled => /\ Own(Tail(stdout), run, answering)
                      /\ Head(stdout).kind \in {"end", "fail"} => Tail(stdout) = <<>> /\ answering = 0
      BY <1>2, <2>1, ReadingOn DEF ChildInv, ChildTyped
    <2>3. CASE ReadText
      BY <1>1, <2>2, <2>3 DEF ReadText, Take, EmitText, ChildInStep
    <2>4. CASE ReadEnd
      BY <1>1, <2>2, <2>4 DEF ReadEnd, Take, EmitEnd, ChildInStep
    <2>5. CASE ReadUi
      BY <1>1, <2>2, <2>5 DEF ReadUi, Take, AskAgain, Fresh, EmitEnd, ChildInStep
    <2>6. QED
      BY <1>9, <2>3, <2>4, <2>5
  <1>10. CASE ReadBad
    BY <1>1, <1>10 DEF ReadBad
  <1>11. CASE ReadEof
    BY <1>1, <1>11 DEF ReadEof, EmitEnd, ChildInStep
  <1>12. CASE Abort
    BY <1>1, <1>12 DEF Abort, ChildInStep
  <1>13. CASE AbortAcknowledged
    BY <1>1, <1>13 DEF AbortAcknowledged, Retired, ChildInStep
  <1>14. CASE AbortUnanswered \/ TellAbort \/ Shutdown
    BY <1>1, <1>2, <1>14 DEF AbortUnanswered, TellAbort, Shutdown, EmitEnd, ChildInStep
  <1>15. CASE ClearActive
    BY <1>1, <1>2, <1>15 DEF ClearActive, ChildInStep, ChildInv, OnlyAdaptersReadOn
  <1>16. QED
    BY <1>3, <1>4, <1>5, <1>6, <1>7, <1>8, <1>9, <1>10, <1>11, <1>12, <1>13, <1>14, <1>15 DEF WorkerStep

\* The child writes or exits; the pane acts.
LEMMA ChildAloneKeeps ==
  ASSUME ChildInv, \/ ChildWrites \/ ChildExits \/ Submit \/ Poll \/ HandleEnvelope \/ ClosePane
                   \/ UNCHANGED aiVars
  PROVE  ChildInStep'
  <1> USE DEF session, outbound, worker, process, pane
  <1>1. CASE ChildWrites
    <2> SUFFICES ASSUME backend = "omp", ~garbled PROVE ChildInStep'
      BY <1>1 DEF ChildWrites, ChildInStep
    <2>1. /\ child = "alive" /\ answering # 0 /\ UNCHANGED <<backend, garbled, step, run, child>>
          /\ \E kind \in FrameKinds :
               /\ stdout' = Append(stdout, [run |-> answering, kind |-> kind])
               /\ answering' = IF kind \in {"end", "fail"} THEN 0 ELSE answering
      BY <1>1 DEF ChildWrites
    <2>2. /\ step \notin {"recv", "ask", "clear", "told"}
          /\ step \in {"look", "register", "wait"} => Own(stdout, run, answering)
      BY <2>1 DEF ChildInv, ChildInStep
    <2>3. ASSUME step \in {"look", "register", "wait"} PROVE Own(stdout', run, answering')
      <3>1. PICK kind \in FrameKinds :
              /\ stdout' = Append(stdout, [run |-> answering, kind |-> kind])
              /\ answering' = IF kind \in {"end", "fail"} THEN 0 ELSE answering
        BY <2>1
      <3>2. PICK frame \in ChildFrames : /\ frame = [run |-> answering, kind |-> kind]
                                         /\ frame.run = answering /\ frame.kind = kind
        <4>1. [run |-> answering, kind |-> kind] \in ChildFrames
          BY DEF ChildFrames, ChildInv, ChildTyped
        <4>2. QED
          BY <4>1
      <3>3. answering = run /\ \A i \in 1..Len(stdout) : stdout[i].run = run /\ stdout[i].kind \notin {"end", "fail"}
        BY <2>1, <2>2, <2>3 DEF Own
      <3>4. /\ Len(stdout) \in Nat /\ Len(stdout') = Len(stdout) + 1
            /\ \A i \in 1..Len(stdout) : stdout'[i] = stdout[i]
            /\ stdout'[Len(stdout) + 1] = frame
        BY <3>1, <3>2, QueueFacts DEF ChildInv, ChildTyped
      <3>5. ASSUME NEW i \in 1..Len(stdout')
            PROVE  /\ stdout'[i].run = run
                   /\ stdout'[i].kind \in {"end", "fail"} => i = Len(stdout') /\ answering' = 0
        <4>1. CASE i \in 1..Len(stdout)
          BY <3>3, <3>4, <4>1
        <4>2. CASE i = Len(stdout) + 1
          BY <3>1, <3>2, <3>3, <3>4, <4>2
        <4>3. QED
          BY <3>4, <3>5, <4>1, <4>2
      <3>6. answering' \in {0, run}
        BY <3>1, <3>3
      <3>7. QED
        BY <3>5, <3>6 DEF Own
    <2>4. QED
      BY <2>1, <2>2, <2>3 DEF ChildInStep
  <1>2. CASE ChildExits
    <2>1. Own(stdout, run, answering) => Own(stdout, run, 0)
      BY DEF Own
    <2>2. QED
      BY <1>2, <2>1 DEF ChildExits, ChildInv, ChildInStep
  <1>3. CASE Submit \/ ClosePane
    BY <1>3 DEF Submit, ClosePane, Signal, ChildInv, ChildInStep
  <1>4. CASE Poll \/ HandleEnvelope \/ UNCHANGED aiVars
    BY <1>4 DEF Poll, HandleEnvelope, aiVars, ChildInv, ChildInStep
  <1>5. QED
    BY <1>1, <1>2, <1>3, <1>4

\* Only an adapter is read on after its turn.
LEMMA AdaptersReadOn == ASSUME OnlyAdaptersReadOn, [AiNext]_aiVars PROVE OnlyAdaptersReadOn'
  <1> USE DEF session, outbound, worker, process, pane
  <1>1. CASE AskFails \/ MockAnswers \/ ReadEnd \/ ReadBad \/ TellAbort
    BY <1>1, ServingSteps DEF Ends, SameSession, OnlyAdaptersReadOn
  <1>2. CASE AskLands \/ ReadText \/ AskRespawns \/ LookAtFlag \/ RegisterWaiter \/ WakeUp
    BY <1>2, ServingSteps DEF ServesOn, Shows, SameSession, Serving, OnlyAdaptersReadOn
  <1>3. CASE Abort \/ AbortAcknowledged \/ AbortUnanswered \/ ChildWrites \/ ChildExits
    BY <1>3, ServingSteps DEF ServesOn, SameSession, Serving, OnlyAdaptersReadOn
  <1>4. CASE Deadline \/ ReadUi
    BY <1>4, ServingSteps DEF ServesOn, Ends, SameSession, Serving, OnlyAdaptersReadOn
  <1>5. CASE ReadEof
    BY <1>5, ServingSteps DEF Ends, SameSession, OnlyAdaptersReadOn
  <1>6. CASE Submit \/ Poll \/ HandleEnvelope \/ ClosePane \/ UNCHANGED aiVars
    BY <1>6 DEF Submit, Poll, HandleEnvelope, ClosePane, Signal, aiVars, OnlyAdaptersReadOn
  <1>7. CASE Shutdown \/ TakePrompt \/ ClearActive
    BY <1>7 DEF Shutdown, TakePrompt, ClearActive, OnlyAdaptersReadOn
  <1>8. QED
    BY <1>1, <1>2, <1>3, <1>4, <1>5, <1>6, <1>7 DEF AiNext, WorkerStep

\* Every step keeps the child in step with its worker.
LEMMA ChildStaysInStep == ChildInv /\ TurnInv' /\ [AiNext]_aiVars => ChildInv'
  <1> SUFFICES ASSUME ChildInv, TurnInv', [AiNext]_aiVars PROVE ChildInv'
    OBVIOUS
  <1>1. OnlyAdaptersReadOn'
    BY AdaptersReadOn DEF ChildInv
  <1>2. ChildInStep'
    BY ChildWorkerKeeps, ChildAloneKeeps DEF AiNext
  <1>3. ChildTyped'
    <2>1. run' \in Nat
      BY DEF TurnInv, AiTyped
    <2>2. CASE AiNext
      BY <2>1, <2>2, ChildTypes DEF ChildInv
    <2>3. CASE UNCHANGED aiVars
      BY <2>3 DEF aiVars, ChildInv, ChildTyped
    <2>4. QED
      BY <2>2, <2>3
  <1>4. QED
    BY <1>1, <1>2, <1>3 DEF ChildInv

\* A session starts without frames.
LEMMA ChildInvInit == AiInit => ChildInv
  <1> SUFFICES ASSUME AiInit PROVE ChildInv
    OBVIOUS
  <1>1. stdout = <<>> /\ answering = 0 /\ run = 0 /\ step = "recv"
    BY Zenon DEF AiInit
  <1>2. QED
    BY <1>1 DEF ChildInv, ChildTyped, ChildInStep, OnlyAdaptersReadOn

\* A turn of an omp session reads what was written for it: no answer of an
\* earlier turn that was given up, and no frame put together from chunks of
\* another series (OmpWorker::prompt, abort, retire; FrameDecoder::push_chunk).
THEOREM TurnsReadTheirOwnFrames == MCSpec => []TurnsReadTheirOwn
  <1>1. MCInit => TurnInv /\ ChildInv /\ RpcInv
    BY TurnInvInit, ChildInvInit, RpcInvInit DEF MCInit
  <1>2. TurnInv /\ ChildInv /\ RpcInv /\ [MCNext]_mcVars => (TurnInv /\ ChildInv /\ RpcInv)'
    BY TurnsStayInOrder, ChildStaysInStep, RpcNextKeeps, PartAi, PartFrames
  <1>3. ChildInv => StreamIsItsTurns
    <2> SUFFICES ASSUME ChildInv, backend = "omp", step \in {"look", "register", "wait"}, stdout # <<>>,
                        ~garbled
                 PROVE  Head(stdout).run = run
      BY DEF StreamIsItsTurns
    <2>1. Own(stdout, run, answering) /\ stdout \in Seq(ChildFrames)
      BY DEF ChildInv, ChildInStep, ChildTyped
    <2>2. QED
      BY <2>1, ReadingOn
  <1>4. TurnInv /\ ChildInv /\ RpcInv => TurnsReadTheirOwn
    BY <1>3, RpcInvWhole DEF TurnsReadTheirOwn
  <1>5. QED
    BY <1>1, <1>2, <1>4, PTL DEF MCSpec

(***************************************************************************)
(* The lines of a CLI view                                                 *)
(***************************************************************************)

CliLine == Processes \X Pipes \X Nat
OfPipe(line, p, s) == line[1] = p /\ line[2] = s

SpansPlaces(q, p, s, a, b) ==
  /\ \A i \in DOMAIN q : OfPipe(q[i], p, s) => q[i][3] \in a + 1..b
  /\ \A n \in a + 1..b : \E i \in DOMAIN q : OfPipe(q[i], p, s) /\ q[i][3] = n
  /\ \A i, j \in DOMAIN q : i < j /\ OfPipe(q[i], p, s) /\ OfPipe(q[j], p, s) => q[i][3] < q[j][3]

\* What Spans says, place by place.
LEMMA SpansByPlace ==
  ASSUME NEW q, NEW p, NEW s, NEW a, NEW b
  PROVE  Spans(q, p, s, a, b) <=> SpansPlaces(q, p, s, a, b)
  <1> DEFINE M == {i \in DOMAIN q : q[i][1] = p /\ q[i][2] = s}
  <1>1. Spans(q, p, s, a, b) <=> ({q[i][3] : i \in M} = a + 1..b /\ \A i, j \in M : i < j => q[i][3] < q[j][3])
    BY Zenon DEF Spans
  <1>2. \A i : i \in M <=> i \in DOMAIN q /\ OfPipe(q[i], p, s)
    BY DEF OfPipe
  <1> HIDE DEF M
  <1>3. {q[i][3] : i \in M} = a + 1..b <=>
          (\A i \in M : q[i][3] \in a + 1..b) /\ (\A n \in a + 1..b : \E i \in M : q[i][3] = n)
    OBVIOUS
  <1>4. (\A i \in M : q[i][3] \in a + 1..b) <=> (\A i \in DOMAIN q : OfPipe(q[i], p, s) => q[i][3] \in a + 1..b)
    BY <1>2, Zenon
  <1>5. (\A n \in a + 1..b : \E i \in M : q[i][3] = n) <=>
          (\A n \in a + 1..b : \E i \in DOMAIN q : OfPipe(q[i], p, s) /\ q[i][3] = n)
    BY <1>2, Zenon
  <1>6. (\A i, j \in M : i < j => q[i][3] < q[j][3]) <=>
          (\A i, j \in DOMAIN q : i < j /\ OfPipe(q[i], p, s) /\ OfPipe(q[j], p, s) => q[i][3] < q[j][3])
    BY <1>2, Zenon
  <1>7. QED
    BY <1>1, <1>3, <1>4, <1>5, <1>6, Zenon DEF SpansPlaces

\* Lines of other pipes take no number of this one.
LEMMA OthersSpanNothing ==
  ASSUME NEW q, NEW p, NEW s, NEW a \in Nat, \A i \in DOMAIN q : ~OfPipe(q[i], p, s)
  PROVE  Spans(q, p, s, a, a)
  <1>1. \A n \in a + 1..a : FALSE
    OBVIOUS
  <1>2. SpansPlaces(q, p, s, a, a)
    BY <1>1 DEF SpansPlaces
  <1>3. QED
    BY <1>2, SpansByPlace, Zenon

\* Lines numbered one after another span their numbers.
LEMMA NumberedSpan ==
  ASSUME NEW p, NEW s, NEW a \in Nat, NEW n \in Nat, NEW q, q = [i \in 1..n |-> <<p, s, a + i>>]
  PROVE  Spans(q, p, s, a, a + n)
  <1>1. DOMAIN q = 1..n /\ \A i \in 1..n : OfPipe(q[i], p, s) /\ q[i][3] = a + i
    BY DEF OfPipe
  <1>2. \A i \in DOMAIN q : q[i][3] \in a + 1..a + n
    BY <1>1
  <1>3. ASSUME NEW k \in a + 1..a + n PROVE \E i \in DOMAIN q : OfPipe(q[i], p, s) /\ q[i][3] = k
    <2>1. k - a \in 1..n /\ a + (k - a) = k
      OBVIOUS
    <2>2. QED
      BY <1>1, <2>1
  <1>4. \A i, j \in DOMAIN q : i < j => q[i][3] < q[j][3]
    BY <1>1
  <1>5. SpansPlaces(q, p, s, a, a + n)
    BY <1>2, <1>3, <1>4 DEF SpansPlaces
  <1>6. QED
    BY <1>5, SpansByPlace, Zenon

\* Where one span ends the next begins.
LEMMA SpansJoin ==
  ASSUME NEW q \in Seq(CliLine), NEW r \in Seq(CliLine), NEW p, NEW s,
         NEW a \in Nat, NEW b \in Nat, NEW c \in Nat, a <= b, b <= c,
         Spans(q, p, s, a, b), Spans(r, p, s, b, c)
  PROVE  Spans(q \o r, p, s, a, c)
  <1> DEFINE t == q \o r
  <1>1. /\ t \in Seq(CliLine) /\ Len(t) = Len(q) + Len(r) /\ Len(q) \in Nat /\ Len(r) \in Nat
        /\ \A i \in 1..Len(q) : t[i] = q[i]
        /\ \A i \in 1..Len(r) : t[Len(q) + i] = r[i]
    OBVIOUS
  <1>2. DOMAIN t = 1..Len(q) + Len(r) /\ DOMAIN q = 1..Len(q) /\ DOMAIN r = 1..Len(r)
    BY <1>1
  <1> HIDE DEF t
  <1>3. /\ \A i \in 1..Len(q) : OfPipe(q[i], p, s) => q[i][3] \in a + 1..b
        /\ \A n \in a + 1..b : \E i \in 1..Len(q) : OfPipe(q[i], p, s) /\ q[i][3] = n
        /\ \A i, j \in 1..Len(q) : i < j /\ OfPipe(q[i], p, s) /\ OfPipe(q[j], p, s) => q[i][3] < q[j][3]
    <2>1. SpansPlaces(q, p, s, a, b)
      BY SpansByPlace, Zenon
    <2>2. QED
      BY <1>2, <2>1, Zenon DEF SpansPlaces
  <1>4. /\ \A i \in 1..Len(r) : OfPipe(r[i], p, s) => r[i][3] \in b + 1..c
        /\ \A n \in b + 1..c : \E i \in 1..Len(r) : OfPipe(r[i], p, s) /\ r[i][3] = n
        /\ \A i, j \in 1..Len(r) : i < j /\ OfPipe(r[i], p, s) /\ OfPipe(r[j], p, s) => r[i][3] < r[j][3]
    <2>1. SpansPlaces(r, p, s, b, c)
      BY SpansByPlace, Zenon
    <2>2. QED
      BY <1>2, <2>1, Zenon DEF SpansPlaces
  <1>5. \A i \in DOMAIN t : i \in 1..Len(q) \/ (i - Len(q) \in 1..Len(r) /\ i = Len(q) + (i - Len(q)))
    BY <1>1, <1>2
  <1>6. ASSUME NEW i \in DOMAIN t, OfPipe(t[i], p, s)
        PROVE  \/ i \in 1..Len(q) /\ t[i][3] \in a + 1..b
               \/ i - Len(q) \in 1..Len(r) /\ t[i][3] \in b + 1..c
    <2>1. CASE i \in 1..Len(q)
      <3>1. t[i] = q[i]
        BY <1>1, <2>1
      <3>2. QED
        BY <1>3, <1>6, <2>1, <3>1
    <2>2. CASE i - Len(q) \in 1..Len(r)
      <3>1. t[i] = r[i - Len(q)]
        BY <1>1, <1>5, <2>2
      <3>2. QED
        BY <1>4, <1>6, <2>2, <3>1
    <2>3. QED
      BY <1>5, <2>1, <2>2
  <1>7. \A i \in DOMAIN t : OfPipe(t[i], p, s) => t[i][3] \in a + 1..c
    BY <1>6
  <1>8. ASSUME NEW n \in a + 1..c PROVE \E i \in DOMAIN t : OfPipe(t[i], p, s) /\ t[i][3] = n
    <2>1. CASE n \in a + 1..b
      <3>1. PICK i \in 1..Len(q) : OfPipe(q[i], p, s) /\ q[i][3] = n
        BY <1>3, <2>1
      <3>2. t[i] = q[i] /\ i \in DOMAIN t
        BY <1>1, <1>2
      <3>3. QED
        BY <3>1, <3>2
    <2>2. CASE n \in b + 1..c
      <3>1. PICK i \in 1..Len(r) : OfPipe(r[i], p, s) /\ r[i][3] = n
        BY <1>4, <2>2
      <3>2. t[Len(q) + i] = r[i] /\ Len(q) + i \in DOMAIN t
        BY <1>1, <1>2
      <3>3. QED
        BY <3>1, <3>2
    <2>3. QED
      BY <2>1, <2>2
  <1>9. ASSUME NEW i \in DOMAIN t, NEW j \in DOMAIN t, i < j, OfPipe(t[i], p, s), OfPipe(t[j], p, s)
        PROVE  t[i][3] < t[j][3]
    <2>1. CASE i \in 1..Len(q) /\ j \in 1..Len(q)
      <3>1. t[i] = q[i] /\ t[j] = q[j]
        BY <1>1, <2>1
      <3>2. QED
        BY <1>3, <1>9, <2>1, <3>1
    <2>2. CASE i \in 1..Len(q) /\ j - Len(q) \in 1..Len(r)
      <3>1. t[i] = q[i] /\ t[j] = r[j - Len(q)]
        BY <1>1, <1>5, <2>2
      <3>2. t[i][3] \in a + 1..b
        BY <1>3, <1>9, <2>2, <3>1
      <3>3. t[j][3] \in b + 1..c
        BY <1>4, <1>9, <2>2, <3>1
      <3>4. QED
        BY <3>2, <3>3
    <2>3. CASE i - Len(q) \in 1..Len(r) /\ j - Len(q) \in 1..Len(r)
      <3>1. t[i] = r[i - Len(q)] /\ t[j] = r[j - Len(q)]
        BY SMTT(30), <1>1, <1>5, <2>3
      <3>2. i - Len(q) < j - Len(q)
        BY <1>1, <1>2, <1>9
      <3>3. QED
        BY <1>4, <1>9, <2>3, <3>1, <3>2
    <2>4. i \in 1..Len(q) \/ j - Len(q) \in 1..Len(r)
      BY <1>1, <1>2, <1>9
    <2>5. QED
      BY <1>5, <1>9, <2>1, <2>2, <2>3, <2>4
  <1>10. SpansPlaces(t, p, s, a, c)
    BY <1>7, <1>8, <1>9 DEF SpansPlaces
  <1>11. QED
    BY <1>10, SpansByPlace, Zenon DEF t

\* The last lines of a span are a span to the same end.
LEMMA LastOfSpan ==
  ASSUME NEW q \in Seq(CliLine), NEW p, NEW s, NEW a \in Nat, NEW b \in Nat, a <= b,
         Spans(q, p, s, a, b), NEW k \in 0..Len(q)
  PROVE  \E c \in a..b : Spans(SubSeq(q, k + 1, Len(q)), p, s, c, b)
  <1> DEFINE t == SubSeq(q, k + 1, Len(q))
             S == {n \in a + 1..b : \E i \in DOMAIN t : OfPipe(t[i], p, s) /\ t[i][3] = n}
  <1>1. /\ t \in Seq(CliLine) /\ DOMAIN t = 1..Len(q) - k /\ DOMAIN q = 1..Len(q) /\ Len(q) \in Nat
        /\ \A i \in 1..Len(q) - k : t[i] = q[k + i]
    OBVIOUS
  <1> HIDE DEF t
  <1>2. SpansPlaces(q, p, s, a, b)
    BY SpansByPlace, Zenon
  <1>3. ASSUME NEW i \in DOMAIN t, OfPipe(t[i], p, s) PROVE t[i][3] \in a + 1..b /\ t[i][3] \in S
    <2>1. k + i \in DOMAIN q /\ t[i] = q[k + i]
      BY <1>1
    <2>2. t[i][3] \in a + 1..b
      BY <1>2, <1>3, <2>1 DEF SpansPlaces
    <2>3. QED
      BY <1>3, <2>2
  <1>4. CASE S = {}
    <2>1. Spans(t, p, s, b, b)
      BY <1>3, <1>4, OthersSpanNothing
    <2>2. b \in a..b
      OBVIOUS
    <2>3. QED
      BY <2>1, <2>2 DEF t
  <1>5. CASE S # {}
    <2>1. S \in SUBSET Nat
      OBVIOUS
    <2>2. PICK m \in S : \A y \in S : m <= y
      BY <1>5, <2>1, LeastOfNats
    <2>3. m \in a + 1..b /\ (m - 1) + 1 = m /\ m - 1 \in a..b
      BY <2>2
    <2>4. PICK l \in DOMAIN t : OfPipe(t[l], p, s) /\ t[l][3] = m
      BY <2>2
    <2>5. \A i \in DOMAIN t : OfPipe(t[i], p, s) => t[i][3] \in m..b
      <3>1. ASSUME NEW i \in DOMAIN t, OfPipe(t[i], p, s) PROVE t[i][3] \in m..b
        <4>1. t[i][3] \in a + 1..b /\ m <= t[i][3]
          BY <1>3, <2>2, <3>1
        <4>2. QED
          BY <2>3, <4>1
      <3>2. QED
        BY <3>1
    <2>6. ASSUME NEW n \in m..b PROVE \E i \in DOMAIN t : OfPipe(t[i], p, s) /\ t[i][3] = n
      <3>1. n \in a + 1..b
        BY <2>3
      <3>2. PICK j \in DOMAIN q : OfPipe(q[j], p, s) /\ q[j][3] = n
        BY <1>2, <3>1 DEF SpansPlaces
      <3>3. CASE j > k
        <4>1. j - k \in DOMAIN t /\ t[j - k] = q[j]
          BY <1>1, <3>3
        <4>2. QED
          BY <3>2, <4>1
      <3>4. CASE j <= k
        <4>1. k + l \in DOMAIN q /\ t[l] = q[k + l] /\ j < k + l
          <5>1. l \in 1..Len(q) - k /\ j \in 1..Len(q)
            BY <1>1, <2>4, <3>2
          <5>2. QED
            BY SMTT(30), <1>1, <3>4, <5>1
        <4>2. q[j][3] < q[k + l][3]
          BY <1>2, <2>4, <3>2, <4>1 DEF SpansPlaces
        <4>3. n < m
          BY <2>4, <3>2, <4>1, <4>2, Zenon
        <4>4. QED
          BY <2>3, <4>3
      <3>5. QED
        BY <1>1, <3>3, <3>4
    <2>7. ASSUME NEW i \in DOMAIN t, NEW j \in DOMAIN t, i < j, OfPipe(t[i], p, s), OfPipe(t[j], p, s)
          PROVE  t[i][3] < t[j][3]
      <3>1. k + i \in DOMAIN q /\ k + j \in DOMAIN q /\ k + i < k + j /\ t[i] = q[k + i] /\ t[j] = q[k + j]
        <4>1. i \in 1..Len(q) - k /\ j \in 1..Len(q) - k
          BY <1>1
        <4>2. k + i \in 1..Len(q) /\ k + j \in 1..Len(q) /\ k + i < k + j
          BY <1>1, <2>7, <4>1
        <4>3. QED
          BY <1>1, <4>1, <4>2, Zenon
      <3>2. QED
        BY <1>2, <2>7, <3>1 DEF SpansPlaces
    <2>8. SpansPlaces(t, p, s, m - 1, b)
      BY <2>3, <2>5, <2>6, <2>7 DEF SpansPlaces
    <2>9. Spans(t, p, s, m - 1, b)
      BY <2>8, SpansByPlace, Zenon
    <2>10. QED
      BY <2>3, <2>9 DEF t
  <1>6. QED
    BY <1>4, <1>5

(* What a view has of a pipe: the ring up to one line, the queue from there  *)
(* to another, and what the reader has in hand from there on.                *)
HandsOver(s, first, ring, queue) ==
  /\ first <= ring /\ ring <= queue /\ queue <= taken[started][s]
  /\ Spans(shown, started, s, first, ring)
  /\ Spans(lines[started], started, s, ring, queue)
  /\ pushing[started][s] = [i \in 1..taken[started][s] - queue |-> <<started, s, queue + i>>]
  /\ Len(shown) < ViewLines => first = 0
CliTyped ==
  /\ started \in Nat /\ held \in BOOLEAN /\ shown \in Seq(CliLine)
  /\ taken \in [Processes -> [Pipes -> Nat]] /\ written \in [Processes -> [Pipes -> Nat]]
  /\ reader \in [Processes -> [Pipes -> {"none", "reads", "ended"}]]
  /\ pushing \in [Processes -> [Pipes -> Seq(CliLine)]]
  /\ lines \in [Processes -> Seq(CliLine)] /\ shut \in [Processes -> BOOLEAN]
(* A process that was not started has read and queued nothing.               *)
Untouched == \A p \in Processes : p > started =>
  /\ shut[p] = FALSE /\ lines[p] = <<>>
  /\ \A s \in Pipes : reader[p][s] = "none" /\ pushing[p][s] = <<>> /\ taken[p][s] = 0
LinesAreOwn ==
  /\ \A i \in DOMAIN shown : shown[i][1] <= started
  /\ \A p \in Processes : \A i \in DOMAIN lines[p] : lines[p][i][1] = p
  /\ \A p \in Processes, s \in Pipes : \A i \in DOMAIN pushing[p][s] : OfPipe(pushing[p][s][i], p, s)
NothingIsLost ==
  held = TRUE =>
    /\ started \in Processes /\ shut[started] = FALSE
    /\ \A s \in Pipes : \E first, ring, queue \in Nat : HandsOver(s, first, ring, queue)
CliInv == CliTyped /\ Untouched /\ LinesAreOwn /\ NothingIsLost

\* Nothing was started, so nothing is anywhere.
LEMMA CliStarts == CliInit => CliInv
  <1> SUFFICES ASSUME CliInit PROVE CliInv
    OBVIOUS
  <1> USE DEF CliInit
  <1>1. CliTyped
    <2>1. 0 \in Nat /\ <<>> \in Seq(CliLine)
      OBVIOUS
    <2>2. QED
      BY <2>1 DEF CliTyped
  <1>2. Untouched
    BY DEF Untouched
  <1>3. LinesAreOwn
    BY DEF LinesAreOwn
  <1>4. NothingIsLost
    BY DEF NothingIsLost
  <1>5. QED
    BY <1>1, <1>2, <1>3, <1>4 DEF CliInv

\* What a pipe and its reader's end do leaves the lines alone.
LEMMA QuietPipesKeep ==
  ASSUME CliInv, UNCHANGED <<started, held, taken, pushing, lines, shut, shown>>,
         written' \in [Processes -> [Pipes -> Nat]],
         reader' \in [Processes -> [Pipes -> {"none", "reads", "ended"}]],
         \A p \in Processes, s \in Pipes : p > started => reader'[p][s] = reader[p][s]
  PROVE  CliInv'
  <1>1. CliTyped'
    BY DEF CliInv, CliTyped
  <1>2. Untouched'
    BY DEF CliInv, Untouched
  <1>3. LinesAreOwn'
    BY DEF CliInv, LinesAreOwn
  <1>4. \A s, first, ring, queue : HandsOver(s, first, ring, queue) => HandsOver(s, first, ring, queue)'
    BY DEF HandsOver, Spans
  <1>5. NothingIsLost'
    <2>1. NothingIsLost
      BY DEF CliInv
    <2>2. held' = held /\ started' = started /\ shut' = shut
      OBVIOUS
    <2>3. QED
      BY <1>4, <2>1, <2>2, Zenon DEF NothingIsLost
  <1>6. QED
    BY <1>1, <1>2, <1>3, <1>5 DEF CliInv

\* A view that lets go of its process has nothing to keep.
LEMMA LetGoKeeps ==
  ASSUME CliInv, UNCHANGED <<started, taken, written, reader, pushing, lines, shown>>,
         held' = FALSE, shut' \in [Processes -> BOOLEAN],
         \A p \in Processes : p > started => shut'[p] = shut[p]
  PROVE  CliInv'
  <1>1. CliTyped'
    BY DEF CliInv, CliTyped
  <1>2. Untouched'
    BY DEF CliInv, Untouched
  <1>3. LinesAreOwn'
    BY DEF CliInv, LinesAreOwn
  <1>4. NothingIsLost'
    BY DEF NothingIsLost
  <1>5. QED
    BY <1>1, <1>2, <1>3, <1>4 DEF CliInv

\* A process that starts has shown nothing, whatever the ring holds of others.
LEMMA SpawnedStartsEmpty ==
  ASSUME CliInv, StartSpawns
  PROVE  CliInv'
  <1> DEFINE n == started + 1
  <1>1. /\ started' = n /\ n \in Processes /\ n > started /\ held' = TRUE /\ started \in Nat
        /\ UNCHANGED <<written, taken, pushing, lines, shut, shown>>
    BY CliAssumption DEF StartSpawns, CliInv, CliTyped, Processes
  <1>2. /\ reader' \in [Processes -> [Pipes -> {"none", "reads", "ended"}]]
        /\ \A p \in Processes : p # n => reader'[p] = reader[p]
    BY <1>1 DEF StartSpawns, CliInv, CliTyped
  <1>3. CliTyped'
    BY <1>1, <1>2 DEF CliInv, CliTyped
  <1>4. \A p \in Processes : p > n => p > started /\ p # n
    BY <1>1 DEF Processes
  <1>5. Untouched'
    BY <1>1, <1>2, <1>4 DEF CliInv, Untouched
  <1>6. LinesAreOwn'
    <2>1. \A i \in DOMAIN shown : shown[i][1] \in Processes /\ shown[i][1] <= n
      <3>1. \A i \in DOMAIN shown : shown[i] \in CliLine
        BY DEF CliInv, CliTyped
      <3>2. \A i \in DOMAIN shown : shown[i][1] \in Nat /\ shown[i][1] <= started
        BY <3>1 DEF CliInv, LinesAreOwn, CliLine, Processes
      <3>3. \A x \in Nat : x <= started => x <= n
        BY <1>1
      <3>4. QED
        BY <3>1, <3>2, <3>3 DEF CliLine
    <2>2. QED
      BY <1>1, <2>1 DEF CliInv, LinesAreOwn
  <1>7. shut[n] = FALSE /\ lines[n] = <<>> /\ \A s \in Pipes : pushing[n][s] = <<>> /\ taken[n][s] = 0
    BY <1>1 DEF CliInv, Untouched
  <1>8. ASSUME NEW s \in Pipes PROVE HandsOver(s, 0, 0, 0)'
    <2>1. \A i \in DOMAIN shown : ~OfPipe(shown[i], n, s)
      <3>1. \A i \in DOMAIN shown : shown[i][1] <= started /\ shown[i] \in CliLine
        BY DEF CliInv, CliTyped, LinesAreOwn
      <3>2. \A x \in Nat : x <= started => x # n
        BY <1>1
      <3>3. QED
        BY <3>1, <3>2 DEF OfPipe, CliLine, Processes
    <2>2. Spans(shown, n, s, 0, 0)
      BY <2>1, OthersSpanNothing
    <2>3. Spans(<<>>, n, s, 0, 0)
      BY OthersSpanNothing
    <2>4. Spans(shown', started', s, 0, 0) /\ Spans(lines'[started'], started', s, 0, 0)
      <3>1. shown' = shown /\ started' = n /\ lines'[started'] = <<>>
        BY <1>1, <1>7
      <3>2. QED
        BY <2>2, <2>3, <3>1, Zenon
    <2>5. <<>> = [i \in 1..0 |-> <<n, s, 0 + i>>]
      OBVIOUS
    <2>6. taken'[started'][s] = 0 /\ pushing'[started'][s] = <<>>
      BY <1>1, <1>7
    <2>7. pushing'[started'][s] = [i \in 1..taken'[started'][s] - 0 |-> <<started', s, 0 + i>>]
      <3>1. taken'[started'][s] - 0 = 0
        BY <2>6
      <3>2. QED
        BY <1>1, <2>5, <2>6, <3>1
    <2>8. Spans(shown, started, s, 0, 0)' /\ Spans(lines[started], started, s, 0, 0)'
      BY <2>4, Zenon DEF Spans
    <2>9. QED
      BY <2>6, <2>7, <2>8 DEF HandsOver
  <1>9. NothingIsLost'
    BY <1>1, <1>7, <1>8 DEF NothingIsLost
  <1>10. QED
    BY <1>3, <1>5, <1>6, <1>9 DEF CliInv

\* A reader takes the next lines of its pipe in hand when it has none.
LEMMA ReadChunkKeeps ==
  ASSUME CliInv, NEW p \in Processes, NEW s \in Pipes, ReadChunk(p, s)
  PROVE  CliInv'
  <1>1. PICK n \in taken[p][s] + 1..written[p][s] :
           /\ pushing' = [pushing EXCEPT ![p][s] = [i \in 1..n - taken[p][s] |-> <<p, s, taken[p][s] + i>>]]
           /\ taken' = [taken EXCEPT ![p][s] = n]
    BY DEF ReadChunk
  <1> DEFINE t == taken[p][s]
             hand == [i \in 1..n - t |-> <<p, s, t + i>>]
  <1>2. CliTyped /\ Untouched /\ LinesAreOwn /\ NothingIsLost
    BY DEF CliInv
  <1>3. t \in Nat /\ written[p][s] \in Nat
    BY <1>2 DEF CliTyped
  <1>4. n \in Nat /\ n - t \in Nat /\ n > t
    BY <1>3
  <1>5. UNCHANGED <<started, held, written, reader, lines, shut, shown>>
        /\ reader[p][s] = "reads" /\ pushing[p][s] = <<>>
    BY DEF ReadChunk
  <1>6. hand \in Seq(CliLine) /\ Len(hand) = n - t /\ \A i \in DOMAIN hand : OfPipe(hand[i], p, s)
    <2>1. \A i \in 1..n - t : <<p, s, t + i>> \in CliLine
      BY <1>3 DEF CliLine
    <2>2. QED
      BY <1>4, <2>1 DEF OfPipe
  <1>7. /\ taken'[p][s] = n /\ pushing'[p][s] = hand
        /\ \A q \in Processes, r \in Pipes :
             q # p \/ r # s => taken'[q][r] = taken[q][r] /\ pushing'[q][r] = pushing[q][r]
    BY <1>1, <1>2 DEF CliTyped
  <1> HIDE DEF hand
  <1>8. CliTyped'
    <2>1. taken' \in [Processes -> [Pipes -> Nat]]
      BY <1>1, <1>2, <1>4 DEF CliTyped
    <2>2. pushing' = [pushing EXCEPT ![p][s] = hand]
      BY <1>1 DEF hand
    <2>3. pushing' \in [Processes -> [Pipes -> Seq(CliLine)]]
      BY <1>2, <1>6, <2>2 DEF CliTyped
    <2>4. QED
      BY <1>2, <1>5, <2>1, <2>3 DEF CliTyped
  <1>9. ~(p > started)
    BY <1>2, <1>5 DEF Untouched
  <1>10. Untouched'
    BY <1>2, <1>5, <1>7, <1>9 DEF Untouched
  <1>11. LinesAreOwn'
    <2>1. \A q \in Processes, r \in Pipes : \A i \in DOMAIN pushing'[q][r] : OfPipe(pushing'[q][r][i], q, r)
      BY <1>2, <1>6, <1>7 DEF LinesAreOwn
    <2>2. QED
      BY <1>2, <1>5, <2>1 DEF LinesAreOwn
  <1>12. ASSUME NEW r \in Pipes, started \in Processes,
                NEW first \in Nat, NEW ring \in Nat, NEW queue \in Nat, HandsOver(r, first, ring, queue)
         PROVE  HandsOver(r, first, ring, queue)'
    <2>1. Spans(shown, started, r, first, ring)' /\ Spans(lines[started], started, r, ring, queue)'
      <3>1. Spans(shown, started, r, first, ring) /\ Spans(lines[started], started, r, ring, queue)
        BY <1>12 DEF HandsOver
      <3>2. QED
        BY <1>5, <3>1 DEF Spans
    <2>2. CASE p # started \/ r # s
      <3>1. taken'[started'][r] = taken[started][r] /\ pushing'[started'][r] = pushing[started][r]
        BY <1>5, <1>7, <1>12, <2>2
      <3>2. QED
        BY <1>5, <1>12, <2>1, <3>1 DEF HandsOver
    <2>3. CASE p = started /\ r = s
      <3>1. queue <= t /\ pushing[p][s] = [i \in 1..t - queue |-> <<p, s, queue + i>>]
        BY <1>12, <2>3 DEF HandsOver
      <3>2. queue = t
        <4>1. Len(pushing[p][s]) = t - queue
          BY <1>3, <3>1
        <4>2. t - queue = 0
          BY <1>5, <4>1
        <4>3. QED
          BY <1>3, <4>2
      <3>3. taken'[started'][r] = n /\ pushing'[started'][r] = [i \in 1..n - queue |-> <<started', r, queue + i>>]
        BY <1>5, <1>7, <2>3, <3>2 DEF hand
      <3>4. queue <= n /\ first <= ring /\ ring <= queue /\ (Len(shown) < ViewLines => first = 0)
        BY <1>4, <1>12, <3>2 DEF HandsOver
      <3>5. QED
        BY <1>5, <2>1, <3>3, <3>4 DEF HandsOver
    <2>4. QED
      BY <2>2, <2>3
  <1>13. NothingIsLost'
    BY <1>2, <1>5, <1>12 DEF NothingIsLost
  <1>14. QED
    BY <1>8, <1>10, <1>11, <1>13 DEF CliInv

\* A closed queue takes nothing, and is not that of a process a view holds.
LEMMA DropKeeps ==
  ASSUME CliInv, NEW p \in Processes, NEW s \in Pipes, PushLines(p, s), shut[p] = TRUE,
         pushing' = [pushing EXCEPT ![p][s] = <<>>], UNCHANGED lines
  PROVE  CliInv'
  <1>1. CliTyped /\ Untouched /\ LinesAreOwn /\ NothingIsLost
    BY DEF CliInv
  <1>2. UNCHANGED <<started, held, written, taken, reader, lines, shut, shown>>
    BY DEF PushLines
  <1>3. /\ pushing'[p][s] = <<>>
        /\ \A q \in Processes, r \in Pipes : q # p \/ r # s => pushing'[q][r] = pushing[q][r]
    BY <1>1 DEF CliTyped
  <1>4. CliTyped'
    <2>1. <<>> \in Seq(CliLine)
      OBVIOUS
    <2>2. pushing' \in [Processes -> [Pipes -> Seq(CliLine)]]
      BY <1>1, <2>1 DEF CliTyped
    <2>3. QED
      BY <1>1, <1>2, <2>2 DEF CliTyped
  <1>5. Untouched'
    BY <1>1, <1>2, <1>3 DEF Untouched
  <1>6. LinesAreOwn'
    <2>1. \A q \in Processes, r \in Pipes : \A i \in DOMAIN pushing'[q][r] : OfPipe(pushing'[q][r][i], q, r)
      BY <1>1, <1>3 DEF LinesAreOwn
    <2>2. QED
      BY <1>1, <1>2, <2>1 DEF LinesAreOwn
  <1>7. ASSUME held = TRUE PROVE started # p /\ started \in Processes
    BY <1>1, <1>7 DEF NothingIsLost
  <1>8. ASSUME held = TRUE, NEW r \in Pipes, NEW first, NEW ring, NEW queue, HandsOver(r, first, ring, queue)
        PROVE  HandsOver(r, first, ring, queue)'
    <2>1. pushing'[started'][r] = pushing[started][r]
      BY <1>2, <1>3, <1>7, <1>8
    <2>2. Spans(shown, started, r, first, ring)' /\ Spans(lines[started], started, r, ring, queue)'
      <3>1. Spans(shown, started, r, first, ring) /\ Spans(lines[started], started, r, ring, queue)
        BY <1>8 DEF HandsOver
      <3>2. QED
        BY <1>2, <3>1 DEF Spans
    <2>3. QED
      BY <1>2, <1>8, <2>1, <2>2 DEF HandsOver
  <1>9. NothingIsLost'
    BY <1>1, <1>2, <1>8 DEF NothingIsLost
  <1>10. QED
    BY <1>4, <1>5, <1>6, <1>9 DEF CliInv

\* The first places of a sequence, the rest, and where they are in it.
LEMMA CutInTwo ==
  ASSUME NEW u \in Seq(CliLine), NEW f \in 1..Len(u)
  PROVE  /\ SubSeq(u, 1, f) \in Seq(CliLine) /\ Len(SubSeq(u, 1, f)) = f
         /\ \A i \in 1..f : SubSeq(u, 1, f)[i] = u[i]
         /\ SubSeq(u, f + 1, Len(u)) \in Seq(CliLine) /\ Len(SubSeq(u, f + 1, Len(u))) = Len(u) - f
         /\ \A i \in 1..Len(u) - f : SubSeq(u, f + 1, Len(u))[i] = u[f + i]
  OBVIOUS

\* What is queued behind what is queued has its place after it.
LEMMA BehindIt ==
  ASSUME NEW q \in Seq(CliLine), NEW r \in Seq(CliLine), NEW i \in DOMAIN (q \o r), i \notin DOMAIN q
  PROVE  i - Len(q) \in DOMAIN r /\ (q \o r)[i] = r[i - Len(q)]
  <1>1. i \in 1..Len(q) + Len(r) /\ i \notin 1..Len(q) /\ Len(q) \in Nat /\ Len(r) \in Nat
    OBVIOUS
  <1>2. i > Len(q) /\ i <= Len(q) + Len(r) /\ i - Len(q) \in 1..Len(r)
    BY <1>1
  <1>3. QED
    BY <1>2

\* A span in the next state is one of what is there then.
LEMMA SpansLater ==
  ASSUME NEW s, NEW a, NEW b
  PROVE  /\ Spans(lines[started], started, s, a, b)' <=> Spans(lines'[started'], started', s, a, b)
         /\ Spans(shown, started, s, a, b)' <=> Spans(shown', started', s, a, b)
  BY Zenon DEF Spans

\* What fits is queued behind what is queued, and the rest stays in hand.
LEMMA QueueingKeeps ==
  ASSUME CliInv, NEW p \in Processes, NEW s \in Pipes, PushLines(p, s), Room(p) > 0,
         lines' = [lines EXCEPT ![p] = @ \o SubSeq(pushing[p][s], 1, Fitting(p, s))],
         pushing' = [pushing EXCEPT ![p][s] = Unqueued(p, s)]
  PROVE  CliInv'
  <1> DEFINE held1 == pushing[p][s]
             f == Fitting(p, s)
             taking == SubSeq(held1, 1, f)
             left == SubSeq(held1, f + 1, Len(held1))
  <1>1. CliTyped /\ Untouched /\ LinesAreOwn /\ NothingIsLost
    BY DEF CliInv
  <1>2. UNCHANGED <<started, held, written, taken, reader, shut, shown>> /\ held1 # <<>>
    BY DEF PushLines
  <1>3. held1 \in Seq(CliLine) /\ lines[p] \in Seq(CliLine)
    BY <1>1 DEF CliTyped
  <1>4. f \in 1..Len(held1)
    <2>1. Room(p) \in Int /\ Len(held1) \in Nat /\ Len(held1) > 0
      BY SMTT(30), <1>2, <1>3, CliAssumption DEF Room
    <2>2. QED
      BY <2>1 DEF Fitting
  <1> HIDE DEF f
  <1>5. /\ taking \in Seq(CliLine) /\ Len(taking) = f /\ \A i \in 1..f : taking[i] = held1[i]
        /\ left \in Seq(CliLine) /\ Len(left) = Len(held1) - f
        /\ \A i \in 1..Len(held1) - f : left[i] = held1[f + i]
    <2> HIDE DEF held1
    <2>1. QED
      BY <1>3, <1>4, CutInTwo
  <1>6. \A i \in DOMAIN held1 : OfPipe(held1[i], p, s)
    BY <1>1 DEF LinesAreOwn
  <1>7. /\ \A i \in DOMAIN taking : OfPipe(taking[i], p, s)
        /\ \A i \in DOMAIN left : OfPipe(left[i], p, s)
    <2>1. DOMAIN held1 = 1..Len(held1) /\ Len(held1) \in Nat
      BY <1>3
    <2>2. \A i \in 1..f : i \in DOMAIN held1
      BY <1>4, <2>1
    <2>3. \A i \in 1..Len(held1) - f : f + i \in DOMAIN held1
      BY <1>4, <2>1
    <2>4. DOMAIN taking = 1..f /\ DOMAIN left = 1..Len(held1) - f
      BY <1>5
    <2> HIDE DEF held1, taking, left
    <2>5. QED
      BY <1>5, <1>6, <2>2, <2>3, <2>4
  <1>8. lines' = [lines EXCEPT ![p] = @ \o taking] /\ pushing' = [pushing EXCEPT ![p][s] = left]
    BY DEF Unqueued, f
  <1> HIDE DEF held1, taking, left
  <1>9. /\ lines'[p] = lines[p] \o taking /\ \A q \in Processes : q # p => lines'[q] = lines[q]
        /\ pushing'[p][s] = left
        /\ \A q \in Processes, r \in Pipes : q # p \/ r # s => pushing'[q][r] = pushing[q][r]
    <2>1. lines' = [lines EXCEPT ![p] = lines[p] \o taking]
      BY <1>8
    <2>2. lines \in [Processes -> Seq(CliLine)] /\ pushing \in [Processes -> [Pipes -> Seq(CliLine)]]
      BY <1>1 DEF CliTyped
    <2> DEFINE behind == lines[p] \o taking
    <2> HIDE DEF behind
    <2>3. lines' = [lines EXCEPT ![p] = behind]
      BY <2>1 DEF behind
    <2>4. lines'[p] = behind /\ \A q \in Processes : q # p => lines'[q] = lines[q]
      BY <2>2, <2>3
    <2>5. /\ pushing'[p][s] = left
          /\ \A q \in Processes, r \in Pipes : q # p \/ r # s => pushing'[q][r] = pushing[q][r]
      <3>1. pushing' = [pushing EXCEPT ![p][s] = left]
        BY <1>8
      <3>2. DOMAIN pushing = Processes /\ \A q \in Processes : DOMAIN pushing[q] = Pipes
        BY <2>2
      <3>3. QED
        BY <3>1, <3>2
    <2>6. QED
      BY <2>4, <2>5 DEF behind
  <1>10. CliTyped'
    <2>1. lines[p] \o taking \in Seq(CliLine)
      BY <1>3, <1>5
    <2>2. lines' = [lines EXCEPT ![p] = lines[p] \o taking]
      BY <1>8
    <2>3. lines' \in [Processes -> Seq(CliLine)]
      BY <1>1, <2>1, <2>2 DEF CliTyped
    <2>4. pushing' \in [Processes -> [Pipes -> Seq(CliLine)]]
      BY <1>1, <1>5, <1>8 DEF CliTyped
    <2>5. QED
      BY <1>1, <1>2, <2>3, <2>4 DEF CliTyped
  <1>11. ~(p > started)
    BY <1>1, <1>2 DEF Untouched, held1
  <1>12. Untouched'
    BY <1>1, <1>2, <1>9, <1>11 DEF Untouched
  <1>13. LinesAreOwn'
    <2>1. \A q \in Processes, r \in Pipes : \A i \in DOMAIN pushing'[q][r] : OfPipe(pushing'[q][r][i], q, r)
      BY <1>1, <1>7, <1>9 DEF LinesAreOwn
    <2>2. ASSUME NEW i \in DOMAIN lines'[p] PROVE lines'[p][i][1] = p
      <3>1. DOMAIN lines[p] = 1..Len(lines[p]) /\ Len(lines[p]) \in Nat
        BY <1>3
      <3>2. CASE i \in DOMAIN lines[p]
        <4>1. lines'[p][i] = lines[p][i]
          BY <1>3, <1>5, <1>9, <3>2
        <4>2. QED
          BY <1>1, <3>2, <4>1 DEF LinesAreOwn
      <3>3. CASE i \notin DOMAIN lines[p]
        <4>1. i - Len(lines[p]) \in DOMAIN taking /\ lines'[p][i] = taking[i - Len(lines[p])]
          <5>1. lines'[p] = lines[p] \o taking
            BY <1>9
          <5>2. i \in DOMAIN (lines[p] \o taking)
            BY <5>1, Zenon
          <5>3. i - Len(lines[p]) \in DOMAIN taking /\ (lines[p] \o taking)[i] = taking[i - Len(lines[p])]
            BY <1>3, <1>5, <3>3, <5>2, BehindIt, Zenon
          <5>4. QED
            BY <5>1, <5>3, Zenon
        <4>2. QED
          BY <1>7, <4>1 DEF OfPipe
      <3>4. QED
        BY <3>2, <3>3
    <2>3. \A q \in Processes : \A i \in DOMAIN lines'[q] : lines'[q][i][1] = q
      <3>1. \A q \in Processes : q # p => \A i \in DOMAIN lines'[q] : lines'[q][i][1] = q
        BY <1>1, <1>9 DEF LinesAreOwn
      <3>2. QED
        BY <2>2, <3>1
    <2>4. QED
      BY <1>1, <1>2, <2>1, <2>3 DEF LinesAreOwn
  <1>14. ASSUME started \in Processes, NEW r \in Pipes,
                NEW first \in Nat, NEW ring \in Nat, NEW queue \in Nat, HandsOver(r, first, ring, queue)
         PROVE  \E later \in Nat : HandsOver(r, first, ring, later)'
    <2>1. Spans(shown, started, r, first, ring)'
      <3>1. Spans(shown, started, r, first, ring)
        BY <1>14 DEF HandsOver
      <3>2. QED
        BY <1>2, <3>1 DEF Spans
    <2>2. /\ first <= ring /\ ring <= queue /\ queue <= taken[started][r] /\ taken[started][r] \in Nat
          /\ Spans(lines[started], started, r, ring, queue)
          /\ pushing[started][r] = [i \in 1..taken[started][r] - queue |-> <<started, r, queue + i>>]
          /\ (Len(shown) < ViewLines => first = 0)
      BY <1>1, <1>14 DEF HandsOver, CliTyped
    <2>3. CASE p # started
      <3>1. lines'[started'] = lines[started] /\ pushing'[started'][r] = pushing[started][r]
        BY <1>2, <1>9, <1>14, <2>3
      <3>2. Spans(lines[started], started, r, ring, queue)'
        BY <1>2, <2>2, <3>1, SpansLater
      <3>3. HandsOver(r, first, ring, queue)'
        BY <1>2, <2>1, <2>2, <3>1, <3>2 DEF HandsOver
      <3>4. QED
        BY <3>3
    <2>4. CASE p = started /\ r # s
      <3>1. \A i \in DOMAIN taking : ~OfPipe(taking[i], started, r)
        BY <1>7, <2>4 DEF OfPipe
      <3>2. Spans(taking, started, r, queue, queue)
        BY <3>1, OthersSpanNothing
      <3>3. Spans(lines[started] \o taking, started, r, ring, queue)
        BY <1>3, <1>5, <2>2, <2>4, <3>2, SpansJoin
      <3>4. lines'[started'] = lines[started] \o taking /\ pushing'[started'][r] = pushing[started][r]
        <4>1. lines'[p] = lines[p] \o taking /\ pushing'[p][r] = pushing[p][r] /\ started' = started
          BY <1>2, <1>9, <2>4, Zenon
        <4>2. QED
          BY <2>4, <4>1, Zenon
      <3>5. Spans(lines[started], started, r, ring, queue)'
        <4>1. Spans(lines'[started'], started', r, ring, queue)
          BY <1>2, <3>3, <3>4, Zenon
        <4>2. QED
          BY <4>1, SpansLater, Zenon
      <3>6. HandsOver(r, first, ring, queue)'
        BY <1>2, <2>1, <2>2, <3>4, <3>5 DEF HandsOver
      <3>7. QED
        BY <3>6
    <2>5. CASE p = started /\ r = s
      <3>1. held1 = [i \in 1..taken[started][r] - queue |-> <<started, r, queue + i>>]
        BY <2>2, <2>5 DEF held1
      <3>2. Len(held1) = taken[started][r] - queue
        BY <2>2, <3>1
      <3>0. PICK later \in Nat : later = queue + f
        <4>1. queue + f \in Nat
          BY <1>4, <1>3
        <4>2. QED
          BY <4>1
      <3>3. f \in Nat /\ later \in Nat /\ later <= taken[started][r] /\ queue <= later
        BY <1>4, <2>2, <3>0, <3>2
      <3>4. \A i \in 1..f : held1[i] = <<started, r, queue + i>>
        BY SMTT(30), <1>4, <2>2, <3>1, <3>2
      <3>5. taking = [i \in 1..f |-> <<started, r, queue + i>>]
        <4>1. taking = [i \in 1..f |-> taking[i]]
          BY <1>5, <3>3
        <4>2. \A i \in 1..f : taking[i] = <<started, r, queue + i>>
          BY <1>5, <3>4, Zenon
        <4>3. QED
          BY <4>1, <4>2
      <3>6. Spans(taking, started, r, queue, later)
        <4>1. Spans(taking, started, r, queue, queue + f)
          BY <3>3, <3>5, NumberedSpan
        <4>2. QED
          BY <3>0, <4>1
      <3>7. Spans(lines[started] \o taking, started, r, ring, later)
        <4>1. lines[started] \in Seq(CliLine)
          BY <1>3, <2>5
        <4>2. QED
          BY <1>5, <2>2, <3>3, <3>6, <4>1, SpansJoin
      <3>8. lines'[started'] = lines[started] \o taking /\ pushing'[started'][r] = left /\ started' = started
        <4>1. lines'[p] = lines[p] \o taking /\ pushing'[p][s] = left /\ started' = started
          BY <1>2, <1>9, Zenon
        <4>2. QED
          BY <2>5, <4>1, Zenon
      <3>9. ring <= later
        BY <2>2, <3>3
      <3>10. left = [i \in 1..taken[started][r] - later |-> <<started, r, later + i>>]
        <4>1. Len(held1) - f = taken[started][r] - later
          BY <2>2, <3>0, <3>2, <3>3
        <4>2. \A i \in 1..Len(held1) - f : held1[f + i] = <<started, r, later + i>>
          <5>1. \A i \in 1..Len(held1) - f : f + i \in 1..taken[started][r] - queue /\ queue + (f + i) = later + i
            <6>1. ASSUME NEW i \in 1..Len(held1) - f PROVE f + i \in 1..taken[started][r] - queue /\ queue + (f + i) = later + i
              <7>1. f \in Nat /\ queue \in Nat /\ Len(held1) \in Nat /\ i \in Nat /\ 1 <= i /\ i <= Len(held1) - f
                BY <1>4, <3>3, <6>1
              <7>2. f + i \in 1..Len(held1) /\ queue + (f + i) = (queue + f) + i
                BY <7>1
              <7>3. QED
                BY <3>0, <3>2, <7>2
            <6>2. QED
              BY <6>1
          <5>2. QED
            BY <3>1, <5>1
        <4>3. left = [i \in 1..Len(held1) - f |-> left[i]]
          BY <1>5
        <4>4. QED
          BY <1>5, <4>1, <4>2, <4>3
      <3>11. Spans(lines[started], started, r, ring, later)'
        <4>1. Spans(lines'[started'], started', r, ring, later)
          BY <3>7, <3>8, Zenon
        <4>2. QED
          BY <4>1, SpansLater
      <3>12. HandsOver(r, first, ring, later)'
        <4>1. taken' = taken /\ shown' = shown /\ started' = started
          BY <1>2
        <4>2. pushing'[started'][r] = [i \in 1..taken'[started'][r] - later |-> <<started', r, later + i>>]
          BY <3>8, <3>10, <4>1, Zenon
        <4>3. later <= taken'[started'][r] /\ (Len(shown') < ViewLines => first = 0) /\ first <= ring
          BY <2>2, <3>3, <4>1, Zenon
        <4>4. QED
          BY <2>1, <3>11, <3>9, <4>2, <4>3 DEF HandsOver
      <3>13. QED
        BY <3>3, <3>12
    <2>6. QED
      BY <2>3, <2>4, <2>5
  <1>15. NothingIsLost'
    BY <1>1, <1>2, <1>14 DEF NothingIsLost
  <1>16. QED
    BY <1>10, <1>12, <1>13, <1>15 DEF CliInv

\* A frame moves what is queued to the ring, which keeps its last lines.
LEMMA LinesPolledKeep ==
  ASSUME CliInv, PollLines
  PROVE  CliInv'
  <1> DEFINE waiting == lines[started]
             both == shown \o waiting
             k == Len(both) - ViewLines
  <1>1. CliTyped /\ Untouched /\ LinesAreOwn /\ NothingIsLost
    BY DEF CliInv
  <1>2. UNCHANGED <<started, held, written, taken, reader, pushing, shut>> /\ held = TRUE
    BY <1>1 DEF PollLines, CliTyped
  <1>3. started \in Processes
    BY <1>1, <1>2 DEF NothingIsLost
  <1>4. shown \in Seq(CliLine) /\ waiting \in Seq(CliLine) /\ both \in Seq(CliLine)
    BY <1>1, <1>3 DEF CliTyped
  <1>5. lines'[started] = <<>> /\ \A q \in Processes : q # started => lines'[q] = lines[q]
    BY <1>1, <1>3 DEF PollLines, CliTyped
  <1>6. shown' = IF Len(both) > ViewLines THEN SubSeq(both, Len(both) - ViewLines + 1, Len(both)) ELSE both
    BY DEF PollLines, Trimmed
  <1>7. Len(both) = Len(shown) + Len(waiting) /\ Len(both) \in Nat /\ Len(shown) \in Nat /\ Len(waiting) \in Nat
    BY <1>4
  <1> HIDE DEF both, waiting
  <1>8. \/ shown' = both /\ Len(both) <= ViewLines
        \/ k \in 0..Len(both) /\ shown' = SubSeq(both, k + 1, Len(both)) /\ Len(shown') = ViewLines
    <2>1. CASE Len(both) > ViewLines
      <3>1. k \in 0..Len(both) /\ shown' = SubSeq(both, k + 1, Len(both))
        BY <1>6, <1>7, <2>1, CliAssumption
      <3>2. Len(SubSeq(both, k + 1, Len(both))) = Len(both) - k
        BY <1>4, <3>1
      <3>3. Len(both) - k = ViewLines
        BY <1>7, CliAssumption
      <3>4. QED
        BY <3>1, <3>2, <3>3
    <2>2. CASE ~(Len(both) > ViewLines)
      BY <1>6, <1>7, <2>2, CliAssumption
    <2>3. QED
      BY <2>1, <2>2
  <1> HIDE DEF k
  <1>9. shown' \in Seq(CliLine) /\ \A i \in DOMAIN shown' : \E j \in DOMAIN both : shown'[i] = both[j]
    <2>1. CASE shown' = both
      BY <1>4, <2>1
    <2>2. CASE k \in 0..Len(both) /\ shown' = SubSeq(both, k + 1, Len(both))
      <3>1. SubSeq(both, k + 1, Len(both)) \in Seq(CliLine)
        BY <1>4, <2>2
      <3>2. \A i \in DOMAIN SubSeq(both, k + 1, Len(both)) :
              k + i \in DOMAIN both /\ SubSeq(both, k + 1, Len(both))[i] = both[k + i]
        BY <1>4, <2>2
      <3>3. QED
        BY <2>2, <3>1, <3>2
    <2>3. QED
      BY <1>8, <2>1, <2>2
  <1>10. CliTyped'
    <2>1. lines' \in [Processes -> Seq(CliLine)]
      <3>1. <<>> \in Seq(CliLine) /\ lines' = [lines EXCEPT ![started] = <<>>]
        BY DEF PollLines
      <3>2. QED
        BY <1>1, <3>1 DEF CliTyped
    <2>2. QED
      BY <1>1, <1>2, <1>9, <2>1 DEF CliTyped
  <1>11. Untouched'
    BY <1>1, <1>2, <1>5, <1>3 DEF Untouched
  <1>12. LinesAreOwn'
    <2>1. \A j \in DOMAIN both : both[j][1] <= started
      <3>1. ASSUME NEW j \in DOMAIN both PROVE both[j][1] <= started
        <4>1. CASE j \in DOMAIN shown
          <5>1. both[j] = shown[j]
            BY <1>4, <4>1 DEF both
          <5>2. QED
            BY <1>1, <4>1, <5>1 DEF LinesAreOwn
        <4>2. CASE j \notin DOMAIN shown
          <5>1. j \in DOMAIN (shown \o waiting)
            BY DEF both
          <5>2. j - Len(shown) \in DOMAIN waiting /\ both[j] = waiting[j - Len(shown)]
            BY <1>4, <4>2, <5>1, BehindIt, Zenon DEF both
          <5>3. both[j][1] = started
            BY <1>1, <1>3, <5>2 DEF LinesAreOwn, waiting
          <5>4. QED
            BY <1>3, <5>3 DEF Processes
        <4>3. QED
          BY <4>1, <4>2
      <3>2. QED
        BY <3>1
    <2>2. \A i \in DOMAIN shown' : shown'[i][1] <= started'
      BY <1>2, <1>9, <2>1
    <2>3. \A q \in Processes : \A i \in DOMAIN lines'[q] : lines'[q][i][1] = q
      <3>1. DOMAIN (<<>>) = {}
        OBVIOUS
      <3>2. QED
        BY <1>1, <1>5, <3>1, Zenon DEF LinesAreOwn
    <2>4. QED
      BY <1>1, <1>2, <2>2, <2>3 DEF LinesAreOwn
  <1>13. ASSUME NEW r \in Pipes, NEW first \in Nat, NEW ring \in Nat, NEW queue \in Nat, HandsOver(r, first, ring, queue)
         PROVE  \E c \in Nat : HandsOver(r, c, queue, queue)'
    <2>1. /\ first <= ring /\ ring <= queue /\ queue <= taken[started][r] /\ (Len(shown) < ViewLines => first = 0)
          /\ Spans(shown, started, r, first, ring) /\ Spans(waiting, started, r, ring, queue)
          /\ pushing[started][r] = [i \in 1..taken[started][r] - queue |-> <<started, r, queue + i>>]
      BY <1>13 DEF HandsOver, waiting
    <2>2. Spans(both, started, r, first, queue) /\ first <= queue
      BY <1>4, <2>1, SpansJoin DEF both
    <2>3. PICK c \in first..queue : Spans(shown', started, r, c, queue) /\ (Len(shown') < ViewLines => c = 0)
      <3>1. CASE shown' = both /\ Len(both) <= ViewLines
        <4>1. Len(both) < ViewLines => first = 0
          BY <1>7, <2>1, CliAssumption
        <4>2. first \in first..queue
          BY <2>2
        <4>3. QED
          BY <2>2, <3>1, <4>1, <4>2
      <3>2. CASE k \in 0..Len(both) /\ shown' = SubSeq(both, k + 1, Len(both)) /\ Len(shown') = ViewLines
        <4>1. \E c \in first..queue : Spans(SubSeq(both, k + 1, Len(both)), started, r, c, queue)
          BY <1>4, <2>2, <3>2, LastOfSpan
        <4>2. ~(Len(shown') < ViewLines)
          BY <3>2, CliAssumption
        <4>3. QED
          BY <3>2, <4>1, <4>2, Zenon
      <3>3. QED
        BY <1>8, <3>1, <3>2
    <2>4. c \in Nat /\ c <= queue
      BY <2>3
    <2>5. Spans(shown, started, r, c, queue)'
      <3>1. Spans(shown', started', r, c, queue)
        BY <1>2, <2>3
      <3>2. QED
        BY <3>1, SpansLater
    <2>6. Spans(lines[started], started, r, queue, queue)'
      <3>1. Spans(<<>>, started, r, queue, queue)
        BY OthersSpanNothing
      <3>2. lines'[started'] = <<>> /\ started' = started
        BY <1>2, <1>5
      <3>3. Spans(lines'[started'], started', r, queue, queue)
        BY <3>1, <3>2, Zenon
      <3>4. QED
        BY <3>3, SpansLater
    <2>7. HandsOver(r, c, queue, queue)'
      BY <1>2, <2>1, <2>3, <2>4, <2>5, <2>6 DEF HandsOver
    <2>8. QED
      BY <2>4, <2>7
  <1>14. NothingIsLost'
    <2>1. \A r \in Pipes : \E first, ring, queue \in Nat : HandsOver(r, first, ring, queue)'
      BY <1>1, <1>2, <1>13 DEF NothingIsLost
    <2>2. QED
      BY <1>1, <1>2, <2>1 DEF NothingIsLost
  <1>15. QED
    BY <1>10, <1>11, <1>12, <1>14 DEF CliInv

\* A stop closes the queue of the process that was held, and no other.
LEMMA StopShutsItsOwn ==
  ASSUME CliInv, StopHeld
  PROVE  /\ shut' \in [Processes -> BOOLEAN]
         /\ \A p \in Processes : p > started => shut'[p] = shut[p]
  <1>1. shut \in [Processes -> BOOLEAN] /\ started \in Nat
    BY DEF CliInv, CliTyped
  <1>2. shut' = shut \/ shut' = [shut EXCEPT ![started] = TRUE]
    BY DEF StopHeld, StopProcess, QueueShut
  <1>3. CASE shut' = shut
    BY <1>1, <1>3
  <1>4. CASE shut' = [shut EXCEPT ![started] = TRUE]
    <2>1. shut' \in [Processes -> BOOLEAN]
      BY <1>1, <1>4
    <2>2. \A p \in Processes : p > started => p # started
      BY <1>1, CliAssumption DEF Processes
    <2>3. \A p \in Processes : p # started => shut'[p] = shut[p]
      BY <1>1, <1>4
    <2>4. QED
      BY <2>1, <2>2, <2>3, Zenon
  <1>5. QED
    BY <1>2, <1>3, <1>4

\* Every step of a view keeps what it has of its pipes.
LEMMA CliNextKeeps == CliInv /\ [CliNext]_cliVars => CliInv'
  <1> SUFFICES ASSUME CliInv, [CliNext]_cliVars PROVE CliInv'
    OBVIOUS
  <1>1. /\ written \in [Processes -> [Pipes -> Nat]] /\ started \in Nat
        /\ reader \in [Processes -> [Pipes -> {"none", "reads", "ended"}]]
        /\ shut \in [Processes -> BOOLEAN]
    BY DEF CliInv, CliTyped
  <1>2. ASSUME NEW p \in Processes, NEW s \in Pipes, ReadChunk(p, s) PROVE CliInv'
    BY <1>2, ReadChunkKeeps
  <1>3. ASSUME NEW p \in Processes, NEW s \in Pipes, PushLines(p, s) PROVE CliInv'
    <2>1. CASE shut[p] = TRUE /\ pushing' = [pushing EXCEPT ![p][s] = <<>>] /\ UNCHANGED lines
      BY <1>3, <2>1, DropKeeps
    <2>2. CASE /\ Room(p) > 0
               /\ lines' = [lines EXCEPT ![p] = @ \o SubSeq(pushing[p][s], 1, Fitting(p, s))]
               /\ pushing' = [pushing EXCEPT ![p][s] = Unqueued(p, s)]
      BY <1>3, <2>2, QueueingKeeps
    <2>3. shut[p] \in BOOLEAN
      BY <1>1
    <2>4. QED
      BY <1>3, <2>1, <2>2, <2>3 DEF PushLines
  <1>4. ASSUME NEW p \in Processes, NEW s \in Pipes, ReaderEnds(p, s) PROVE CliInv'
    <2>1. reader' = [reader EXCEPT ![p][s] = "ended"] /\ reader[p][s] = "reads"
          /\ UNCHANGED <<started, held, written, taken, pushing, lines, shut, shown>>
      BY <1>4 DEF ReaderEnds
    <2>2. reader' \in [Processes -> [Pipes -> {"none", "reads", "ended"}]]
      BY <1>1, <2>1
    <2>3. ~(p > started)
      BY <2>1 DEF CliInv, Untouched
    <2>4. \A q \in Processes, r \in Pipes : q > started => reader'[q][r] = reader[q][r]
      BY <1>1, <2>1, <2>3
    <2>5. QED
      BY <1>1, <2>1, <2>2, <2>4, QuietPipesKeep
  <1>5. ASSUME NEW p \in Processes, NEW s \in Pipes, WriteLine(p, s) PROVE CliInv'
    <2>1. written' = [written EXCEPT ![p][s] = @ + 1]
          /\ UNCHANGED <<started, held, taken, reader, pushing, lines, shut, shown>>
      BY <1>5 DEF WriteLine
    <2>2. written' \in [Processes -> [Pipes -> Nat]]
      BY <1>1, <2>1
    <2>3. QED
      BY <1>1, <2>1, <2>2, QuietPipesKeep
  <1>6. CASE UNCHANGED <<started, held, written, taken, reader, pushing, lines, shut, shown>>
    BY <1>1, <1>6, QuietPipesKeep
  <1>7. ASSUME NEW p \in Processes, CommandExits(p) \/ HelperExits(p) PROVE CliInv'
    BY <1>6, <1>7 DEF CommandExits, HelperExits
  <1>8. ASSUME StartRefused \/ ReadStatusJson PROVE CliInv'
    BY <1>6, <1>8 DEF StartRefused, ReadStatusJson
  <1>9. ASSUME StartFails \/ StopPressed \/ ExitTree PROVE CliInv'
    <2>1. StopHeld /\ held' = FALSE /\ UNCHANGED <<started, taken, written, reader, pushing, lines, shown>>
      BY <1>9 DEF StartFails, StopPressed, ExitTree
    <2>2. QED
      BY <2>1, StopShutsItsOwn, LetGoKeeps
  <1>10. CASE UNCHANGED cliVars
    BY <1>6, <1>10 DEF cliVars
  <1>11. ASSUME Readers PROVE CliInv'
    BY <1>2, <1>3, <1>4, <1>11 DEF Readers, ReaderStep
  <1>12. QED
    BY <1>5, <1>7, <1>8, <1>9, <1>10, <1>11, SpawnedStartsEmpty, LinesPolledKeep DEF CliNext

\* Ring, queue and hand end to end are all a view has of a pipe.
LEMMA HandedOverIsComplete == CliInv => OutputIsComplete
  <1> SUFFICES ASSUME CliInv, held, NEW s \in Pipes
               PROVE  \E first \in 0..taken[started][s] :
                        /\ Spans(shown \o lines[started] \o pushing[started][s], started, s, first, taken[started][s])
                        /\ Len(shown) < ViewLines => first = 0
    BY Zenon DEF OutputIsComplete
  <1>1. CliTyped /\ NothingIsLost
    BY DEF CliInv
  <1>2. held = TRUE
    BY <1>1 DEF CliTyped
  <1>3. started \in Processes
    BY <1>1, <1>2 DEF NothingIsLost
  <1>4. /\ shown \in Seq(CliLine) /\ lines[started] \in Seq(CliLine) /\ pushing[started][s] \in Seq(CliLine)
        /\ taken[started][s] \in Nat
    BY <1>1, <1>3 DEF CliTyped
  <1>5. PICK first, ring, queue \in Nat : HandsOver(s, first, ring, queue)
    BY <1>1, <1>2 DEF NothingIsLost
  <1>6. /\ first <= ring /\ ring <= queue /\ queue <= taken[started][s] /\ (Len(shown) < ViewLines => first = 0)
        /\ Spans(shown, started, s, first, ring) /\ Spans(lines[started], started, s, ring, queue)
        /\ pushing[started][s] = [i \in 1..taken[started][s] - queue |-> <<started, s, queue + i>>]
    BY <1>5 DEF HandsOver
  <1>7. Spans(shown \o lines[started], started, s, first, queue) /\ first <= queue
    BY <1>4, <1>6, SpansJoin
  <1>8. Spans(pushing[started][s], started, s, queue, taken[started][s])
    <2>1. PICK n \in Nat : n = taken[started][s] - queue
      BY <1>4, <1>6
    <2>2. pushing[started][s] = [i \in 1..n |-> <<started, s, queue + i>>]
      BY <1>6, <2>1
    <2>3. Spans(pushing[started][s], started, s, queue, queue + n)
      BY <2>2, NumberedSpan
    <2>4. queue + n = taken[started][s]
      BY <1>4, <2>1
    <2>5. QED
      BY <2>3, <2>4
  <1>9. shown \o lines[started] \in Seq(CliLine)
    BY <1>4
  <1>10. Spans((shown \o lines[started]) \o pushing[started][s], started, s, first, taken[started][s])
    BY <1>4, <1>6, <1>7, <1>8, <1>9, SpansJoin
  <1>11. first \in 0..taken[started][s]
    BY <1>4, <1>6
  <1>12. QED
    BY <1>6, <1>10, <1>11

(***************************************************************************)
(* The pieces of a line                                                    *)
(***************************************************************************)

Bytes == {"x", "CR"}

(* The pieces and what is left over, joined, are the line written so far; a  *)
(* line that ended is its pieces.                                            *)
CutInv ==
  /\ rest \in Seq(Bytes) /\ wrote \in Seq(Bytes) /\ cut \in Seq(Seq(Bytes)) /\ done \in {"no", "LF", "end"}
  /\ Len(rest) <= MaxLine /\ \A i \in DOMAIN cut : Len(cut[i]) <= MaxLine
  /\ done = "no" => FlattenSeq(cut) \o rest = wrote /\ (rest = <<>> => cut = <<>>)
  /\ done # "no" => rest = <<>> /\ FlattenSeq(cut) = WithoutCR(wrote)

\* No pieces make an empty line.
LEMMA NothingJoined == FlattenSeq(<<>>) = <<>>
  <1>1. Len(<<>>) = 0
    OBVIOUS
  <1>2. QED
    BY <1>1, Zenon DEF FlattenSeq

\* What the pieces of the next state make is what these pieces make.
LEMMA PiecesLater == FlattenSeq(cut)' = FlattenSeq(cut') /\ WithoutCR(wrote)' = WithoutCR(wrote')
  BY Zenon DEF FlattenSeq, WithoutCR, Last, Front

\* The first places of a sequence are one.
LEMMA BeginsTyped ==
  ASSUME NEW S, NEW s \in Seq(S), NEW k \in 0..Len(s)
  PROVE  SubSeq(s, 1, k) \in Seq(S) /\ Len(SubSeq(s, 1, k)) = k /\ \A i \in 1..k : SubSeq(s, 1, k)[i] = s[i]
  <1>1. k \in Nat /\ Len(s) \in Nat /\ \A i \in 1..k : i \in 1..Len(s) /\ s[i] \in S
    OBVIOUS
  <1>2. SubSeq(s, 1, k) = [i \in 1..k |-> s[i]]
    <2>1. SubSeq(s, 1, k) = [i \in 1..(1 + k - 1) |-> s[i + 1 - 1]]
      BY <1>1
    <2>2. QED
      BY <1>1, <2>1
  <1>3. [i \in 1..k |-> s[i]] \in Seq(S)
    BY <1>1
  <1>4. QED
    BY <1>1, <1>2, <1>3

\* A CR is dropped at the end of the last piece, whatever comes before it.
LEMMA DroppedAtTheEnd ==
  ASSUME NEW s \in Seq(Bytes)
  PROVE  /\ WithoutCR(s) \in Seq(Bytes) /\ Len(WithoutCR(s)) <= Len(s)
         /\ \A u \in Seq(Bytes) : s # <<>> => WithoutCR(u \o s) = u \o WithoutCR(s)
  <1>1. CASE s = <<>>
    <2>1. WithoutCR(s) = s /\ Len(s) \in Nat
      BY <1>1 DEF WithoutCR
    <2>2. Len(WithoutCR(s)) <= Len(s)
      BY <2>1
    <2>3. QED
      BY <1>1, <2>1, <2>2, Zenon
  <1>2. CASE s # <<>>
    <2> DEFINE n == Len(s)
    <2>1. n \in Nat /\ n >= 1 /\ n - 1 \in Nat
      BY <1>2
    <2>2. CASE s[n] = "CR"
      <3>1. WithoutCR(s) = SubSeq(s, 1, n - 1)
        <4>1. s # <<>> /\ Last(s) = "CR"
          BY <1>2, <2>2 DEF Last
        <4>2. WithoutCR(s) = Front(s)
          BY <4>1, Zenon DEF WithoutCR
        <4>3. QED
          BY <4>2 DEF Front
      <3>2. SubSeq(s, 1, n - 1) \in Seq(Bytes) /\ Len(SubSeq(s, 1, n - 1)) = n - 1
        <4>1. n - 1 \in 0..Len(s)
          BY <2>1
        <4>2. QED
          BY <4>1, BeginsTyped
      <3>3. ASSUME NEW u \in Seq(Bytes) PROVE WithoutCR(u \o s) = u \o WithoutCR(s)
        <4>1. /\ u \o s \in Seq(Bytes) /\ Len(u \o s) = Len(u) + n /\ Len(u) \in Nat
              /\ \A i \in 1..Len(u) : (u \o s)[i] = u[i]
              /\ \A i \in 1..n : (u \o s)[Len(u) + i] = s[i]
          OBVIOUS
        <4>2. (u \o s)[Len(u) + n] = "CR" /\ Len(u) + n # 0
          BY <2>1, <2>2, <4>1
        <4>3. u \o s # <<>>
          BY <4>1, <4>2
        <4>4. WithoutCR(u \o s) = SubSeq(u \o s, 1, Len(u) + n - 1)
          BY <4>1, <4>2, <4>3 DEF WithoutCR, Last, Front
        <4>5. SubSeq(u \o s, 1, Len(u) + n - 1) = u \o SubSeq(s, 1, n - 1)
          <5> DEFINE a == SubSeq(u \o s, 1, Len(u) + n - 1)
                     b == u \o SubSeq(s, 1, n - 1)
          <5>1. a \in Seq(Bytes) /\ Len(a) = Len(u) + n - 1 /\ \A i \in 1..Len(u) + n - 1 : a[i] = (u \o s)[i]
            BY <2>1, <4>1
          <5>2. /\ b \in Seq(Bytes) /\ Len(b) = Len(u) + n - 1
                /\ \A i \in 1..Len(u) : b[i] = u[i]
                /\ \A i \in 1..n - 1 : b[Len(u) + i] = s[i]
            BY <2>1, <3>2
          <5> HIDE DEF a, b
          <5>3. ASSUME NEW i \in 1..Len(u) + n - 1 PROVE a[i] = b[i]
            <6>1. CASE i <= Len(u)
              <7>1. i \in 1..Len(u)
                BY <4>1, <6>1
              <7>2. QED
                BY <4>1, <5>1, <5>2, <7>1
            <6>2. CASE i > Len(u)
              <7>1. i - Len(u) \in 1..n - 1 /\ i - Len(u) \in 1..n /\ Len(u) + (i - Len(u)) = i
                BY <2>1, <4>1, <6>2
              <7>2. (u \o s)[i] = s[i - Len(u)] /\ b[i] = s[i - Len(u)]
                BY <4>1, <5>2, <7>1
              <7>3. QED
                BY <5>1, <7>2
            <6>3. QED
              BY <4>1, <6>1, <6>2
          <5>4. a = b
            BY <5>1, <5>2, <5>3
          <5>5. QED
            BY <5>4 DEF a, b
        <4>6. QED
          BY <3>1, <4>4, <4>5
      <3>4. QED
        BY <2>1, <3>1, <3>2, <3>3
    <2>3. CASE s[n] # "CR"
      <3>1. WithoutCR(s) = s
        BY <2>3 DEF WithoutCR, Last
      <3>2. ASSUME NEW u \in Seq(Bytes) PROVE WithoutCR(u \o s) = u \o s
        <4>1. Len(u \o s) = Len(u) + n /\ (u \o s)[Len(u) + n] = s[n]
          BY <2>1
        <4>2. (u \o s)[Len(u \o s)] # "CR"
          BY <2>3, <4>1
        <4>3. QED
          BY <4>2, Zenon DEF WithoutCR, Last
      <3>3. QED
        BY <2>1, <3>1, <3>2
    <2>4. QED
      BY <2>2, <2>3
  <1>3. QED
    BY <1>1, <1>2

\* A line that goes on, or the next one, is what its pieces and the rest make.
LEMMA LineSoFar ==
  ASSUME CutInv
  PROVE  /\ Start(cut) \in Seq(Seq(Bytes)) /\ Start(wrote) \in Seq(Bytes)
         /\ \A i \in DOMAIN Start(cut) : Len(Start(cut)[i]) <= MaxLine
         /\ FlattenSeq(Start(cut)) \o rest = Start(wrote)
         /\ rest = <<>> => Start(cut) = <<>> /\ Start(wrote) = <<>>
  <1>1. CASE done = "no"
    <2>1. Start(cut) = cut /\ Start(wrote) = wrote
      BY <1>1 DEF Start
    <2>2. rest = <<>> => wrote = <<>>
      <3>1. <<>> \o <<>> = <<>>
        OBVIOUS
      <3>2. QED
        BY <1>1, <3>1, NothingJoined DEF CutInv
    <2>3. QED
      BY <1>1, <2>1, <2>2 DEF CutInv
  <1>2. CASE done # "no"
    <2>1. Start(cut) = <<>> /\ Start(wrote) = <<>> /\ rest = <<>>
      BY <1>2 DEF Start, CutInv
    <2>2. FlattenSeq(Start(cut)) \o rest = Start(wrote)
      <3>1. <<>> \o <<>> = <<>>
        OBVIOUS
      <3>2. QED
        BY <2>1, <3>1, NothingJoined
    <2>3. QED
      BY <2>1, <2>2
  <1>3. QED
    BY <1>1, <1>2

\* The first line has not begun.
LEMMA CutStarts == CutInit => CutInv
  <1> SUFFICES ASSUME CutInit PROVE CutInv
    OBVIOUS
  <1>1. rest = <<>> /\ wrote = <<>> /\ cut = <<>> /\ done = "no"
    BY DEF CutInit
  <1>2. <<>> \o <<>> = <<>> /\ <<>> \in Seq(Bytes) /\ <<>> \in Seq(Seq(Bytes)) /\ Len(<<>>) = 0 /\ DOMAIN (<<>>) = {}
    OBVIOUS
  <1>3. FlattenSeq(cut) \o rest = wrote
    BY <1>1, <1>2, NothingJoined
  <1>4. QED
    BY <1>1, <1>2, <1>3, CutAssumption DEF CutInv

\* What is joined is a line, and one byte or one piece more comes at its end.
LEMMA JoinedGrows ==
  ASSUME NEW q \in Seq(Seq(Bytes)), NEW x \in Seq(Bytes)
  PROVE  /\ Append(q, x) \in Seq(Seq(Bytes)) /\ FlattenSeq(q) \in Seq(Bytes)
         /\ FlattenSeq(Append(q, x)) = FlattenSeq(q) \o x
         /\ \A b \in Bytes : FlattenSeq(q) \o Append(x, b) = Append(FlattenSeq(q) \o x, b)
         /\ Len(x) <= MaxLine /\ (\A i \in DOMAIN q : Len(q[i]) <= MaxLine) =>
              \A i \in DOMAIN Append(q, x) : Len(Append(q, x)[i]) <= MaxLine
  <1>1. FlattenSeq(q) \in Seq(Bytes) /\ FlattenSeq(Append(q, x)) = FlattenSeq(q) \o x
    BY FlattenAppend
  <1> DEFINE f == FlattenSeq(q)
  <1> HIDE DEF f
  <1>2. ASSUME NEW b \in Bytes PROVE f \o Append(x, b) = Append(f \o x, b)
    <2>1. f \in Seq(Bytes)
      BY <1>1 DEF f
    <2>2. QED
      BY <2>1
  <1>3. Append(q, x) \in Seq(Seq(Bytes))
    OBVIOUS
  <1>4. ASSUME Len(x) <= MaxLine, \A i \in DOMAIN q : Len(q[i]) <= MaxLine, NEW i \in DOMAIN Append(q, x)
        PROVE  Len(Append(q, x)[i]) <= MaxLine
    <2>1. (i \in DOMAIN q /\ Append(q, x)[i] = q[i]) \/ Append(q, x)[i] = x
      OBVIOUS
    <2>2. QED
      BY <1>4, <2>1
  <1>5. QED
    BY <1>1, <1>2, <1>3, <1>4, Zenon DEF f

\* A byte goes behind the rest, or behind the piece the full rest becomes.
LEMMA ByteKeeps ==
  ASSUME CutInv, NEW b \in Bytes, Byte(b)
  PROVE  CutInv'
  <1>1. /\ rest \in Seq(Bytes) /\ Len(rest) <= MaxLine /\ MaxLine \in Nat \ {0} /\ Len(rest) \in Nat
        /\ done' = "no" /\ wrote' = Append(Start(wrote), b)
    BY CutAssumption DEF CutInv, Byte
  <1>2. wrote' \in Seq(Bytes)
    BY <1>1, LineSoFar
  <1>3. <<b>> \in Seq(Bytes) /\ Len(<<b>>) = 1 /\ <<b>> # <<>> /\ <<b>> = Append(<<>>, b) /\ <<>> \in Seq(Bytes)
    OBVIOUS
  <1>4. CASE done = "no" /\ Full
    <2>1. cut' = Append(cut, rest) /\ rest' = <<b>> /\ Start(cut) = cut /\ Start(wrote) = wrote
      BY <1>4 DEF Byte, Start
    <2>2. cut \in Seq(Seq(Bytes)) /\ \A i \in DOMAIN cut : Len(cut[i]) <= MaxLine
      BY DEF CutInv
    <2>3. FlattenSeq(cut) \o rest = wrote /\ wrote \in Seq(Bytes)
      BY <1>4 DEF CutInv
    <2>4. FlattenSeq(cut') = wrote
      BY <1>1, <2>1, <2>2, <2>3, JoinedGrows
    <2>5. FlattenSeq(cut') \o rest' = wrote'
      <3>1. wrote \o <<b>> = Append(wrote, b)
        BY <2>3
      <3>2. QED
        BY <1>1, <2>1, <2>4, <3>1, Zenon
    <2>6. cut' \in Seq(Seq(Bytes)) /\ \A i \in DOMAIN cut' : Len(cut'[i]) <= MaxLine
      BY <1>1, <2>1, <2>2, JoinedGrows
    <2>7. rest' \in Seq(Bytes) /\ Len(rest') <= MaxLine /\ rest' # <<>>
      BY <1>1, <1>3, <2>1
    <2>8. FlattenSeq(cut)' \o rest' = wrote'
      BY <2>5, PiecesLater, Zenon
    <2>9. QED
      BY <1>1, <1>2, <2>6, <2>7, <2>8 DEF CutInv
  <1>5. CASE ~(done = "no" /\ Full)
    <2>1. cut' = Start(cut) /\ rest' = Append(rest, b)
      <3>1. done = "no" => cut' = cut /\ Start(cut) = cut
        BY <1>5 DEF Byte, Start
      <3>2. cut' = IF done = "no" /\ Full THEN Append(cut, rest) ELSE Start(cut)
        BY DEF Byte
      <3>3. rest' = IF done = "no" /\ Full THEN <<b>> ELSE Append(rest, b)
        BY DEF Byte
      <3>4. QED
        BY <1>5, <3>2, <3>3
    <2>2. /\ cut' \in Seq(Seq(Bytes)) /\ \A i \in DOMAIN cut' : Len(cut'[i]) <= MaxLine
          /\ FlattenSeq(cut') \o rest = Start(wrote)
      BY <2>1, LineSoFar
    <2>3. FlattenSeq(cut') \o Append(rest, b) = Append(FlattenSeq(cut') \o rest, b)
      BY <1>1, <2>2, JoinedGrows
    <2>4. FlattenSeq(cut)' \o rest' = wrote'
      BY <1>1, <2>1, <2>2, <2>3, PiecesLater, Zenon
    <2>5. Len(rest) < MaxLine
      <3>1. CASE done = "no"
        BY <1>1, <1>5, <3>1 DEF Full
      <3>2. CASE done # "no"
        BY <1>1, <3>2 DEF CutInv
      <3>3. QED
        BY <3>1, <3>2
    <2>6. rest' \in Seq(Bytes) /\ Len(rest') <= MaxLine /\ rest' # <<>>
      BY <1>1, <2>1, <2>5
    <2>7. QED
      BY <1>1, <1>2, <2>2, <2>4, <2>6 DEF CutInv
  <1>6. QED
    BY <1>4, <1>5

\* An end makes the rest the last piece, without its CR.
LEMMA EndKeeps ==
  ASSUME CutInv, rest' = <<>>, wrote' = Start(wrote), done' \in {"LF", "end"},
         \/ cut' = Append(Start(cut), WithoutCR(rest))
         \/ rest = <<>> /\ cut' = Start(cut)
  PROVE  CutInv'
  <1>1. /\ Start(cut) \in Seq(Seq(Bytes)) /\ Start(wrote) \in Seq(Bytes)
        /\ \A i \in DOMAIN Start(cut) : Len(Start(cut)[i]) <= MaxLine
        /\ FlattenSeq(Start(cut)) \o rest = Start(wrote)
        /\ rest = <<>> => Start(cut) = <<>> /\ Start(wrote) = <<>>
    BY LineSoFar
  <1>2. rest \in Seq(Bytes) /\ Len(rest) <= MaxLine /\ MaxLine \in Nat \ {0} /\ Len(rest) \in Nat
    BY CutAssumption DEF CutInv
  <1>3. WithoutCR(<<>>) = <<>>
    BY DEF WithoutCR
  <1>4. FlattenSeq(cut') = WithoutCR(wrote') /\ cut' \in Seq(Seq(Bytes)) /\ \A i \in DOMAIN cut' : Len(cut'[i]) <= MaxLine
    <2>1. CASE cut' = Append(Start(cut), WithoutCR(rest))
      <3>1. WithoutCR(rest) \in Seq(Bytes) /\ Len(WithoutCR(rest)) <= MaxLine
        <4>1. WithoutCR(rest) \in Seq(Bytes) /\ Len(WithoutCR(rest)) <= Len(rest) /\ Len(WithoutCR(rest)) \in Nat
          BY <1>2, DroppedAtTheEnd
        <4>2. QED
          BY <1>2, <4>1
      <3>2. /\ FlattenSeq(cut') = FlattenSeq(Start(cut)) \o WithoutCR(rest)
            /\ cut' \in Seq(Seq(Bytes)) /\ \A i \in DOMAIN cut' : Len(cut'[i]) <= MaxLine
            /\ FlattenSeq(Start(cut)) \in Seq(Bytes)
        BY <1>1, <2>1, <3>1, JoinedGrows
      <3>3. CASE rest = <<>>
        <4>1. <<>> \o <<>> = <<>>
          OBVIOUS
        <4>2. FlattenSeq(cut') = <<>> \o <<>> /\ WithoutCR(wrote') = <<>>
          BY <1>1, <1>3, <3>2, <3>3, NothingJoined, Zenon
        <4>3. QED
          BY <3>2, <4>1, <4>2
      <3>4. CASE rest # <<>>
        <4>1. WithoutCR(FlattenSeq(Start(cut)) \o rest) = FlattenSeq(Start(cut)) \o WithoutCR(rest)
          BY <1>2, <3>2, <3>4, DroppedAtTheEnd
        <4>2. QED
          BY <1>1, <3>2, <4>1
      <3>5. QED
        BY <3>3, <3>4
    <2>2. CASE rest = <<>> /\ cut' = Start(cut)
      <3>1. cut' = <<>> /\ wrote' = <<>>
        BY <1>1, <2>2
      <3>2. FlattenSeq(cut') = WithoutCR(wrote')
        BY <1>3, <3>1, NothingJoined, Zenon
      <3>3. QED
        BY <1>1, <2>2, <3>2
    <2>3. QED
      BY <2>1, <2>2
  <1>5. FlattenSeq(cut)' = WithoutCR(wrote)'
    BY <1>4, PiecesLater, Zenon
  <1>6. <<>> \in Seq(Bytes) /\ Len(<<>>) = 0
    OBVIOUS
  <1>7. QED
    BY SMTT(30), <1>1, <1>2, <1>4, <1>5, <1>6 DEF CutInv

\* Every step keeps the pieces of the line.
LEMMA CutNextKeeps == CutInv /\ [CutNext]_cutVars => CutInv'
  <1> SUFFICES ASSUME CutInv, [CutNext]_cutVars PROVE CutInv'
    OBVIOUS
  <1>1. ASSUME NEW b \in Bytes, Byte(b) PROVE CutInv'
    BY <1>1, ByteKeeps
  <1>2. CASE LineEnd
    BY <1>2, EndKeeps DEF LineEnd
  <1>3. CASE StreamEnd
    <2>1. /\ rest' = <<>> /\ wrote' = Start(wrote) /\ done' = "end"
          /\ cut' = IF rest = <<>> THEN Start(cut) ELSE Append(Start(cut), WithoutCR(rest))
      BY <1>3 DEF StreamEnd
    <2>2. QED
      BY <2>1, EndKeeps
  <1>4. CASE UNCHANGED cutVars
    <2>1. rest' = rest /\ wrote' = wrote /\ cut' = cut /\ done' = done
      BY <1>4 DEF cutVars
    <2>2. FlattenSeq(cut)' = FlattenSeq(cut) /\ WithoutCR(wrote)' = WithoutCR(wrote)
      BY <2>1, PiecesLater, Zenon
    <2>3. QED
      BY <2>1, <2>2 DEF CutInv
  <1>5. QED
    BY <1>1, <1>2, <1>3, <1>4 DEF CutNext, Bytes

\* The pieces joined are the line.
LEMMA LineIsItsPieces == CutInv => PiecesMakeTheLine
  <1> SUFFICES ASSUME CutInv PROVE PiecesMakeTheLine
    OBVIOUS
  <1>1. FlattenSeq(cut) \o rest = IF done = "no" THEN wrote ELSE WithoutCR(wrote)
    <2>1. CASE done = "no"
      BY <2>1 DEF CutInv
    <2>2. CASE done # "no"
      <3>1. rest = <<>> /\ FlattenSeq(cut) = WithoutCR(wrote) /\ WithoutCR(wrote) \in Seq(Bytes)
        BY <2>2, DroppedAtTheEnd DEF CutInv
      <3>2. \A u \in Seq(Bytes) : u \o <<>> = u
        OBVIOUS
      <3>3. QED
        BY <2>2, <3>1, <3>2
    <2>3. QED
      BY <2>1, <2>2
  <1>2. QED
    BY <1>1, Zenon DEF CutInv, PiecesMakeTheLine

\* A step of the composition is one of the view, or leaves it alone.
LEMMA PartCli == [MCNext]_mcVars => [CliNext]_cliVars
  BY DEF MCNext, mcVars, InAi, InFrames, InMedia, InCli, InLines

\* A step of the composition is one of the cutter, or leaves it alone.
LEMMA PartLines == [MCNext]_mcVars => [CutNext]_cutVars
  BY DEF MCNext, mcVars, InAi, InFrames, InMedia, InCli, InLines

\* While a pane holds a command nothing it printed is lost, doubled or out of
\* order, and its pieces make its lines: for pipes, queues and rings of any size
\* and any number of restarts (read_lines, LineQueue::push, poll_lines,
\* _append_lines, push_chunk, flush_pending).
THEOREM LinesAreDelivered == MCSpec => []LinesArriveWhole
  <1>1. MCInit => CliInv /\ CutInv
    BY CliStarts, CutStarts DEF MCInit
  <1>2. CliInv /\ CutInv /\ [MCNext]_mcVars => (CliInv /\ CutInv)'
    <2>1. CliInv /\ [MCNext]_mcVars => CliInv'
      BY CliNextKeeps, PartCli, Zenon
    <2>2. CutInv /\ [MCNext]_mcVars => CutInv'
      BY CutNextKeeps, PartLines, Zenon
    <2>3. QED
      BY <2>1, <2>2
  <1>3. CliInv /\ CutInv => LinesArriveWhole
    BY HandedOverIsComplete, LineIsItsPieces, Zenon DEF LinesArriveWhole
  <1>4. QED
    BY <1>1, <1>2, <1>3, PTL DEF MCSpec
=============================================================================
