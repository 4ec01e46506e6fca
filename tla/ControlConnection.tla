-------------------------- MODULE ControlConnection --------------------------
(* One connection of the control socket: handle_connection and handle_frame  *)
(* of gpty-ipc/src/server.rs with the envelope of protocol.rs.  A client may *)
(* pipeline: it writes frames without waiting, cuts one short by closing its *)
(* side, or stops reading.  A frame is what the server's checks make of it;  *)
(* the id of a request is its place in the stream, and 0 is the id of an     *)
(* answer to a frame whose own id nobody could read.                         *)
EXTENDS Naturals, Sequences, FiniteSets

CONSTANT MaxFrames       \* bound: frames one client writes

ASSUME MaxFramesAssumption == MaxFrames \in Nat \ {0}

VARIABLES
  stream,      \* the frames that are whole, as the client wrote them
  unfinished,  \* the frame the client is still writing, or "none"
  ended,       \* the client closed its write side
  listening,   \* the client still reads its answers
  taken,       \* how many frames the server has read
  conn,        \* "reading", "handling", "writing" or "closed"
  pending,     \* the answer being written
  after,       \* what follows that answer: "continue" or "close"
  replies,     \* the answers that went out
  ran          \* the frames whose handler was called, in order

connVars == <<stream, unfinished, ended, listening, taken, conn, pending, after, replies, ran>>

\* What a line can be to handle_frame.  "long" is the readable head of a line
\* beyond MAX_REQUEST_LEN; "undecodable" is a line (or such a head, cut inside
\* a character) that is not UTF-8, an error of read_line itself.
FrameKinds == {"blank", "garbage", "notification", "denied", "badParams", "unknown", "call", "long", "undecodable"}

Answer(id, what) == [id |-> id, what |-> what]
NoAnswer == Answer(0, "nothing")

ConnInit ==
  /\ stream = <<>> /\ unfinished = "none" /\ ended = FALSE /\ listening = TRUE
  /\ taken = 0 /\ conn = "reading" /\ pending = NoAnswer /\ after = "continue"
  /\ replies = <<>> /\ ran = <<>>

serverVars == <<taken, conn, pending, after, replies, ran>>

\* -------------------------------------------------------------- the client

Write(kind) ==
  /\ ~ended /\ unfinished = "none" /\ Len(stream) < MaxFrames
  /\ IF kind = "long"
     THEN /\ stream' = Append(stream, "long")
          /\ unfinished' \in {"garbage", "call"}       \* the tail, whatever it looks like
     ELSE unfinished' = kind /\ UNCHANGED stream
  /\ UNCHANGED <<ended, listening, serverVars>>

FinishLine ==
  /\ ~ended /\ unfinished # "none"
  /\ stream' = Append(stream, unfinished) /\ unfinished' = "none"
  /\ UNCHANGED <<ended, listening, serverVars>>

\* At the end of the stream read_line hands out what there is: a whole
\* document without its newline, or the beginning of one.
EndStream ==
  /\ ~ended /\ ended' = TRUE
  /\ stream' \in IF unfinished = "none" THEN {stream}
                 ELSE {Append(stream, k) : k \in {unfinished, "garbage"}}
  /\ unfinished' = "none"
  /\ UNCHANGED <<listening, serverVars>>

StopsListening ==
  /\ listening /\ listening' = FALSE
  /\ UNCHANGED <<stream, unfinished, ended, serverVars>>

\* -------------------------------------------------------------- the server

\* The answer handle_frame gives on its own, and what it does next.
Refusal(kind, id) ==
  CASE kind = "garbage"   -> Answer(0, "parse error")
    [] kind = "long"      -> Answer(0, "too long")
    [] kind = "denied"    -> Answer(id, "unauthorized")
    [] kind = "badParams" -> Answer(id, "invalid params")
    [] kind = "unknown"   -> Answer(id, "method not found")

\* Flawed: an overlong line is answered and its tail read as the next frame.
ClosesUnauthorized(kind) == kind = "denied"
ClosesAfter(kind) == kind \in {"long", "denied"}

\* Skipped without an answer; a notification is told apart before the secret
\* is looked at, so an unauthenticated one is dropped as well.
Silent(kind) == kind \in {"blank", "notification"}

TakeFrame ==
  /\ conn = "reading" /\ taken < Len(stream)
  /\ taken' = taken + 1
  /\ LET kind == stream[taken + 1]
     IN  CASE Silent(kind) ->
                UNCHANGED <<conn, pending, after, ran>>
           [] kind = "undecodable" ->
                conn' = "closed" /\ UNCHANGED <<pending, after, ran>>
           [] kind = "call" ->
                conn' = "handling" /\ ran' = Append(ran, taken + 1) /\ UNCHANGED <<pending, after>>
           [] OTHER ->
                /\ conn' = "writing" /\ pending' = Refusal(kind, taken + 1)
                /\ after' = IF ClosesAfter(kind) THEN "close" ELSE "continue"
                /\ UNCHANGED ran
  /\ UNCHANGED <<stream, unfinished, ended, listening, replies>>

\* The end of the stream, between two frames.
EndOfStream ==
  /\ conn = "reading" /\ taken = Len(stream) /\ ended
  /\ conn' = "closed"
  /\ UNCHANGED <<stream, unfinished, ended, listening, taken, pending, after, replies, ran>>

\* IO_TIMEOUT on a frame that does not come, or does not end.
ReadTimesOut ==
  /\ conn = "reading" /\ taken = Len(stream) /\ ~ended
  /\ conn' = "closed"
  /\ UNCHANGED <<stream, unfinished, ended, listening, taken, pending, after, replies, ran>>

\* The handler answers, fails, or misses its registered budget.
HandlerReturns ==
  /\ conn = "handling"
  /\ \E what \in {"result", "error", "handler timed out"} : pending' = Answer(taken, what)
  /\ conn' = "writing" /\ after' = "continue"
  /\ UNCHANGED <<stream, unfinished, ended, listening, taken, replies, ran>>

WriteReply ==
  /\ conn = "writing"
  /\ replies' = Append(replies, pending) /\ pending' = NoAnswer
  /\ conn' = IF after = "close" THEN "closed" ELSE "reading"
  /\ UNCHANGED <<stream, unfinished, ended, listening, taken, after, ran>>

\* write_response fails or misses IO_TIMEOUT; a client that reads cannot
\* bring that about.
WriteFails ==
  /\ conn = "writing" /\ ~listening
  /\ conn' = "closed" /\ pending' = NoAnswer
  /\ UNCHANGED <<stream, unfinished, ended, listening, taken, after, replies, ran>>

ClientSteps == (\E k \in FrameKinds : Write(k)) \/ FinishLine \/ EndStream \/ StopsListening
ServerSteps == TakeFrame \/ EndOfStream \/ ReadTimesOut \/ HandlerReturns \/ WriteReply \/ WriteFails
ConnNext == ClientSteps \/ ServerSteps

\* Each direction has its timeout and the handler its budget.
ConnSpec == ConnInit /\ [][ConnNext]_connVars /\ WF_connVars(ServerSteps)

\* ----------------------------------------------------------- what it promises

\* The frames up to the one that ends the conversation, those of them that
\* are owed an answer, and the turn in which each of those is answered.
LastOfAll(kind) == kind \in {"long", "denied", "undecodable"}
Served == {i \in 1 .. Len(stream) : \A j \in 1 .. Len(stream) : LastOfAll(stream[j]) => i <= j}
Owed == {i \in Served : stream[i] \notin {"blank", "notification", "undecodable"}}
OwedUpTo(n) == {i \in Owed : i <= n}
Turn(i) == Cardinality(OwedUpTo(i))

Fits(reply, i) ==
  CASE stream[i] = "call" -> reply.id = i /\ reply.what \in {"result", "error", "handler timed out"}
    [] OTHER -> reply = Refusal(stream[i], i)

\* Answers go out in the order of the frames, one to each that is owed one
\* and none to another (handle_frame answers before it reads on).
RepliesInOrder ==
  /\ Len(replies) <= Cardinality(Owed)
  /\ \A i \in Owed : Turn(i) <= Len(replies) => Fits(replies[Turn(i)], i)

\* No handler runs twice, out of turn, for anything but a request, or for a
\* frame behind the one that ended the conversation.
HandlersInTurn ==
  /\ \A k \in DOMAIN ran : ran[k] \in Served /\ stream[ran[k]] = "call"
  /\ \A k, l \in DOMAIN ran : k < l => ran[k] < ran[l]

\* A client that keeps reading is answered every frame the server took before
\* the connection ended, the one that ended it among them.
NothingTakenIsDropped ==
  conn = "closed" /\ listening => \A i \in Owed : i <= taken => Turn(i) <= Len(replies)

\* Whatever the client does or stops doing, the connection ends and its slot
\* is free again (IO_TIMEOUT on both directions, a budget on the handler).
SlotComesBack == <>(conn = "closed")
=============================================================================
