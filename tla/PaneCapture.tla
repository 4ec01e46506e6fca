----------------------------- MODULE PaneCapture -----------------------------
(***************************************************************************)
(* What becomes of a pane's output when a concept captures it.  The        *)
(* terminal task (run_terminal_task) takes chunks from the pty and shows   *)
(* them on the grid, or, while a capture is in flight, buffers them.  A    *)
(* finished capture becomes an event that the GUI routes to a receiver     *)
(* pane; the raw bytes wait in a store until the GUI has them discarded    *)
(* (a receiver took the capture) or replayed to the grid (none did).       *)
(* Closing the pane aborts the task from the GUI's thread and hands what   *)
(* is in flight to the engine's queue of orphans.                          *)
(*                                                                         *)
(* The two threads interleave at the locks of the session and the queues.  *)
(* A chunk is its number in the order the child wrote it.  Left out: what  *)
(* the lines say (whether one matches is a choice), notify-only concepts,  *)
(* agent states, and the prompt an acknowledged capture leaves on screen.  *)
(*                                                                         *)
(* Bounds: Chunks are written and Captures begun at most; MaxBuffered is   *)
(* MAX_BUFFERED_CAPTURES.                                                  *)
(***************************************************************************)
EXTENDS Integers, Sequences, FiniteSets

CONSTANTS Chunks, Captures, MaxBuffered

ASSUME BoundsAssumption == Chunks \in Nat /\ Captures \in Nat /\ MaxBuffered \in Nat \ {0}

VARIABLES
  written,  \* chunks written to the pty
  taken,    \* chunks the task has received from it
  child,    \* the child has not exited
  task,     \* select; feeding or matching a chunk; reaping; ended
  active,   \* a capture is in flight
  armed,    \* timeout_sleep is set to its deadline
  repaint,  \* within POST_RESIZE_CONCEPT_SUPPRESS_MS of a resize
  buffer,   \* the chunks of the capture in flight
  shown,    \* the chunks on the grid
  dropped,  \* the chunks taken for a repaint, or that found the session closed
  nextId,   \* next_event_id
  content,  \* per capture: its chunks
  raw,      \* per capture: its entry in the chunk store
  queue,    \* the pane's queue of events
  orphans,  \* the engine's
  sink,     \* where the session publishes
  commands, \* flush and acknowledge commands on the stdin channel
  dropStage,\* open; aborted, finalized (steps of its drop); gone
  outcome   \* per capture: pending; received, missed (no receiver), evicted

ioVars == <<written, taken, child>>
sessionVars == <<active, buffer, nextId, content, raw, queue, orphans, sink, outcome>>
captureVars == <<written, taken, child, task, active, armed, repaint, buffer, shown, dropped,
                 nextId, content, raw, queue, orphans, sink, commands, dropStage, outcome>>

Ids == 0..Captures-1
Elements(s) == {s[i] : i \in DOMAIN s}

CaptureTypeOK ==
  /\ taken \in 0..Chunks /\ written \in taken..Chunks
  /\ task \in {"select", "feeding", "matching", "reaping", "ended"}
  /\ {child, active, armed, repaint} \subseteq BOOLEAN
  /\ buffer \subseteq 1..taken /\ shown \subseteq 1..taken /\ dropped \subseteq 1..taken
  /\ nextId \in 0..Captures
  /\ content \in [Ids -> SUBSET (1..taken)]
  /\ raw \in [Ids -> {"none", "held", "evicted", "used"}]
  /\ Cardinality({id \in Ids : raw[id] = "held"}) <= MaxBuffered
  /\ queue \in Seq(Ids) /\ Len(queue) <= MaxBuffered
  /\ orphans \in Seq(Ids) /\ Len(orphans) <= MaxBuffered
  /\ sink \in {"pane", "engine"}
  /\ commands \in Seq({"flush", "acknowledge"} \X Ids)
  /\ dropStage \in {"open", "aborted", "finalized", "gone"}
  /\ outcome \in [Ids -> {"pending", "received", "missed", "evicted"}]

CaptureInit ==
  /\ written = 0 /\ taken = 0 /\ child = TRUE
  /\ task = "select"
  /\ active = FALSE /\ armed = FALSE /\ repaint = FALSE
  /\ buffer = {} /\ shown = {} /\ dropped = {}
  /\ nextId = 0
  /\ content = [id \in Ids |-> {}]
  /\ raw = [id \in Ids |-> "none"]
  /\ queue = <<>> /\ orphans = <<>> /\ sink = "pane"
  /\ commands = <<>>
  /\ dropStage = "open"
  /\ outcome = [id \in Ids |-> "pending"]

-----------------------------------------------------------------------------
\* The capture session.

\* push_bounded: the oldest event goes when nobody drains the queue.
Bounded(q, id) == Append(IF Len(q) >= MaxBuffered THEN Tail(q) ELSE q, id)
DroppedBy(q) == IF Len(q) >= MaxBuffered THEN {Head(q)} ELSE {}

\* The store keeps the newest captures.
Held == {id \in Ids : raw[id] = "held"}
EvictedBy(id) ==
  IF Cardinality(Held) >= MaxBuffered
    THEN {old \in Held : \A other \in Held : old <= other} ELSE {}

\* Flawed: the id of the next event stays.
NextIdStuck == nextId

NextId == nextId + 1

\* Flawed: the buffered bytes are copied into the event, not moved.
RestOfBufferCopied(chunks) == chunks

RestOfBuffer(chunks) == {}

\* finalize_state: the chunks become capture `nextId', whose event goes to `to'.
Publish(chunks, to) ==
  /\ nextId' = NextId
  /\ content' = [content EXCEPT ![nextId] = chunks]
  /\ buffer' = RestOfBuffer(chunks)
  /\ raw' = [id \in Ids |-> IF id = nextId THEN "held"
                            ELSE IF id \in EvictedBy(nextId) THEN "evicted" ELSE raw[id]]
  /\ IF to = "pane"
       THEN queue' = Bounded(queue, nextId) /\ UNCHANGED orphans
       ELSE orphans' = Bounded(orphans, nextId) /\ UNCHANGED queue
  /\ outcome' = [id \in Ids |->
       IF id \in DroppedBy(IF to = "pane" THEN queue ELSE orphans) THEN "evicted" ELSE outcome[id]]
  /\ sink' = to

Finalize(chunks, to) == Publish(chunks, to) /\ active' = FALSE

\* finalize, finalize_to: nothing to publish when no capture is in flight.
FinalizeIfActive(to) ==
  IF active THEN Finalize(buffer, to)
  ELSE sink' = to /\ UNCHANGED <<active, buffer, nextId, content, raw, queue, orphans, outcome>>

\* apply_match: a match begins a capture and arms the timeout.
CanBegin == nextId < Captures
Begin ==
  /\ CanBegin
  /\ active' = TRUE /\ armed' = TRUE
  /\ UNCHANGED <<buffer, nextId, content, raw, queue, orphans, sink, outcome>>

-----------------------------------------------------------------------------
\* The terminal task.

\* Whoever holds the pty may write to it, the child's children included.
Write ==
  /\ written < Chunks
  /\ written' = written + 1
  /\ UNCHANGED <<taken, child, task, armed, repaint, shown, dropped, commands, dropStage, sessionVars>>

ChildExits ==
  /\ child
  /\ child' = FALSE
  /\ UNCHANGED <<written, taken, task, armed, repaint, shown, dropped, commands, dropStage, sessionVars>>

\* A chunk arrives; the task asks once whether a capture is in flight.
TakeOutput ==
  /\ task = "select" /\ taken < written
  /\ taken' = taken + 1
  /\ task' = IF active THEN "feeding" ELSE "matching"
  /\ UNCHANGED <<written, child, armed, repaint, shown, dropped, commands, dropStage, sessionVars>>

\* A chunk for the capture: none after a resize, none when the pane's drop
\* has finalized the session meanwhile; the byte cap or the deadline may end it.
Feed ==
  /\ task = "feeding"
  /\ task' = "select"
  /\ \/ /\ repaint \/ ~active
        /\ dropped' = dropped \cup {taken}
        /\ UNCHANGED <<armed, sessionVars>>
     \/ /\ ~repaint /\ active
        /\ buffer' = buffer \cup {taken}
        /\ armed' = TRUE
        /\ UNCHANGED <<dropped, active, nextId, content, raw, queue, orphans, sink, outcome>>
     \/ /\ ~repaint /\ active
        /\ Finalize(buffer \cup {taken}, sink)
        /\ armed' = FALSE
        /\ UNCHANGED dropped
  /\ UNCHANGED <<ioVars, repaint, shown, commands, dropStage>>

\* A chunk for the grid.  A line of it may begin a capture, not after a resize
\* and not on the alternate screen; the chunk itself is shown.
Match ==
  /\ task = "matching"
  /\ task' = "select"
  /\ shown' = shown \cup {taken}
  /\ \/ ~repaint /\ Begin
     \/ UNCHANGED <<armed, sessionVars>>
  /\ UNCHANGED <<ioVars, repaint, dropped, commands, dropStage>>

\* The capture's deadline.
TimeOut ==
  /\ task = "select" /\ armed
  /\ FinalizeIfActive(sink)
  /\ armed' = FALSE
  /\ UNCHANGED <<ioVars, task, repaint, shown, dropped, commands, dropStage>>

\* Input of the user: it stops a capture whose concept says so, and a line
\* that finds no capture in flight, or has just stopped one, may begin one.
Input ==
  /\ task = "select"
  /\ \/ active /\ Finalize(buffer, sink) /\ armed' = FALSE
     \/ active /\ NextId < Captures /\ Publish(buffer, sink) /\ active' = TRUE /\ armed' = TRUE
     \/ ~active /\ Begin
  /\ UNCHANGED <<ioVars, task, repaint, shown, dropped, commands, dropStage>>

Resize ==
  /\ task = "select"
  /\ repaint' = TRUE
  /\ UNCHANGED <<ioVars, task, armed, shown, dropped, commands, dropStage, sessionVars>>

RepaintOver ==
  /\ repaint
  /\ repaint' = FALSE
  /\ UNCHANGED <<ioVars, task, armed, shown, dropped, commands, dropStage, sessionVars>>

Replays(command) == command[1] = "flush"

\* handle_command: the GUI's answer to an event, if the store still has it.
Command ==
  /\ task = "select" /\ commands # <<>>
  /\ LET command == Head(commands)  id == command[2] IN
       IF id \in Held
         THEN /\ raw' = [raw EXCEPT ![id] = "used"]
              /\ shown' = IF Replays(command) THEN shown \cup content[id] ELSE shown
         ELSE UNCHANGED <<raw, shown>>
  /\ commands' = Tail(commands)
  /\ UNCHANGED <<ioVars, task, armed, repaint, dropped, dropStage, active, buffer, nextId, content,
                 queue, orphans, sink, outcome>>

\* What is in flight when the child is gone.
AtExit == FinalizeIfActive(sink)

\* The child is gone and the pty is empty (its read side closed, or it was
\* quiet for EXIT_DRAIN_QUIET_MS): the loop ends, and with it the channel.
LoopEnds ==
  /\ task = "select" /\ ~child /\ taken = written
  /\ AtExit
  /\ task' = "reaping"
  /\ UNCHANGED <<ioVars, armed, repaint, shown, dropped, commands, dropStage>>

Reap ==
  /\ task = "reaping"
  /\ task' = "ended"
  /\ UNCHANGED <<ioVars, armed, repaint, shown, dropped, commands, dropStage, sessionVars>>

\* An abort takes effect where the task awaits.
Aborted ==
  /\ dropStage # "open" /\ task \in {"select", "reaping"}
  /\ task' = "ended"
  /\ UNCHANGED <<ioVars, armed, repaint, shown, dropped, commands, dropStage, sessionVars>>

Task == TakeOutput \/ Feed \/ Match \/ TimeOut \/ Command \/ LoopEnds \/ Reap \/ Aborted

-----------------------------------------------------------------------------
\* The GUI's thread.

\* A frame drains the pane's events and routes each: whether a receiver takes
\* it is a choice.  The answer is a command, which goes nowhere once the task
\* has left its loop.
Answer(id, takers) == <<IF id \in takers THEN "acknowledge" ELSE "flush", id>>
Routed(ids, takers) == [id \in Ids |->
  IF id \in ids THEN (IF id \in takers THEN "received" ELSE "missed") ELSE outcome[id]]

\* drain_concept_events, drain_orphaned_captures: all that is queued, at once.
TakesEvents == queue' = <<>>
TakesOrphans == orphans' = <<>>

Poll ==
  /\ dropStage = "open" /\ queue # <<>>
  /\ \E takers \in SUBSET Elements(queue) :
       /\ outcome' = Routed(Elements(queue), takers)
       /\ commands' = commands \o [i \in DOMAIN queue |-> Answer(queue[i], takers)]
  /\ TakesEvents
  /\ UNCHANGED <<ioVars, task, armed, repaint, shown, dropped, dropStage, active, buffer, nextId,
                 content, raw, orphans, sink>>

PollOrphans ==
  /\ dropStage \in {"open", "gone"} /\ orphans # <<>>
  /\ \E takers \in SUBSET Elements(orphans) : outcome' = Routed(Elements(orphans), takers)
  /\ TakesOrphans
  /\ UNCHANGED <<ioVars, task, armed, repaint, shown, dropped, commands, dropStage, active, buffer,
                 nextId, content, raw, queue, sink>>

\* SpawnedTerminal::drop, the task running on: abort, finalize, carry over.
Close ==
  /\ dropStage = "open"
  /\ dropStage' = "aborted"
  /\ UNCHANGED <<ioVars, task, armed, repaint, shown, dropped, commands, sessionVars>>

FinalizeOrphan ==
  /\ dropStage = "aborted"
  /\ dropStage' = "finalized"
  /\ FinalizeIfActive("engine")
  /\ UNCHANGED <<ioVars, task, armed, repaint, shown, dropped, commands>>

\* Flawed: what the task finalized on its own stays on the dead pane's queue.
CarriedNone == <<>>
Carried == queue

\* The orphan queue takes them one by one and drops its oldest when full.
CarryOver ==
  /\ dropStage = "finalized"
  /\ dropStage' = "gone"
  /\ LET all == orphans \o Carried
         kept == IF Len(all) > MaxBuffered
                   THEN SubSeq(all, Len(all) - MaxBuffered + 1, Len(all)) ELSE all
     IN /\ orphans' = kept
        /\ outcome' = [id \in Ids |->
             IF id \in Elements(all) \ Elements(kept) THEN "evicted" ELSE outcome[id]]
  /\ queue' = <<>>
  /\ UNCHANGED <<ioVars, task, armed, repaint, shown, dropped, commands, active, buffer, nextId,
                 content, raw, sink>>

Gui == Poll \/ PollOrphans \/ FinalizeOrphan \/ CarryOver

-----------------------------------------------------------------------------
CaptureNext ==
  \/ Write \/ ChildExits
  \/ TakeOutput \/ Feed \/ Match \/ TimeOut \/ Input \/ Resize \/ RepaintOver \/ Command
  \/ LoopEnds \/ Reap \/ Aborted
  \/ Poll \/ PollOrphans \/ Close \/ FinalizeOrphan \/ CarryOver

CaptureSpec == CaptureInit /\ [][CaptureNext]_captureVars

-----------------------------------------------------------------------------
\* Where a chunk is: on the grid as it came, in the capture in flight, in one
\* finished capture, or dropped; run_terminal_task and finalize_state move
\* chunks between two threads and never copy one or lose one.
Captured == UNION {content[id] : id \in Ids}
InHand == IF task \in {"feeding", "matching"} THEN {taken} ELSE {}
EveryChunkInOnePlace ==
  /\ (1..taken) \ InHand = shown \cup dropped \cup buffer \cup Captured
  /\ buffer \cap (shown \cup dropped \cup Captured) = {}
  /\ dropped \cap (shown \cup Captured) = {}
  /\ \A id, other \in Ids : id # other => content[id] \cap content[other] = {}

\* What a receiver took does not come back on the terminal, and what waits for
\* its route is not there yet (acknowledge_capture, flush_capture).
RoutedOutputStaysOff ==
  \A id \in Ids : content[id] \cap shown # {} => outcome[id] = "missed"

\* An event is in one queue at one place until it is routed, across the drop
\* of its pane: no capture is routed or reported twice.
EachEventOnce ==
  LET all == queue \o orphans IN
  /\ \A i, j \in DOMAIN all : all[i] = all[j] => i = j
  /\ \A id \in Elements(all) : id < nextId /\ outcome[id] = "pending"

\* A capture in flight in an open pane ends and is reported, whether its
\* deadline, its user, its child or the closing of its pane ends it.
EveryCaptureIsReported ==
  \A id \in Ids : active /\ nextId = id /\ dropStage = "open" ~> outcome[id] # "pending"

\* A capture no receiver took comes back to a terminal whose task runs.
Running == task \notin {"reaping", "ended"} /\ dropStage = "open"
MissedOutputReturns ==
  \A id \in Ids : outcome[id] = "missed" /\ Running
    ~> content[id] \subseteq shown \/ raw[id] = "evicted" \/ ~Running

\* docs/content/wiki/pane.md:76: "if no receiver is open, the captured bytes
\* replay into the terminal that produced them instead of vanishing."
MissedOutputIsReplayed ==
  \A id \in Ids : outcome[id] = "missed" /\ dropStage = "open" ~> content[id] \subseteq shown \/ dropStage # "open"

\* An event is routed once, and what it carried is then in one place: with the
\* receiver that took it, or back on the terminal.
EventsAreRoutedOnce == EachEventOnce /\ RoutedOutputStaysOff

\* A capture comes to its end: it is reported, and what no receiver took comes
\* back to the terminal.
CapturesSettle == EveryCaptureIsReported /\ MissedOutputReturns
=============================================================================
