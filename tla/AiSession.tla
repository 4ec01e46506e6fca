----------------------------- MODULE AiSession -----------------------------
(* One AI session of an Inspector pane (gpty-ai): the session object the GUI *)
(* thread calls, the worker task of its backend, the child process the       *)
(* worker talks to, and the pane that asks and polls (inspector_pane.gd).    *)
(*                                                                           *)
(* A turn is known by its number (turn_id, run_id).  An event is the run it  *)
(* belongs to and whether it ends it; a frame of the child is the run it was *)
(* written for and what the worker makes of it.  Texts are left out.         *)
EXTENDS Integers, Sequences, SequencesExt

CONSTANTS
    Backends,        \* kinds of backend a session is opened with
    MaxTurns,        \* bound: turns asked for
    MaxFrames,       \* bound: frames a child has written and nobody has read
    MaxWrites,       \* bound: frames one child writes
    QueueLimit,      \* MAX_QUEUED_EVENTS
    PollLimit        \* max_events of a poll

ASSUME AiAssumption ==
    /\ Backends \subseteq {"omp", "cli", "mock"}
    /\ MaxTurns \in Nat \ {0} /\ QueueLimit \in Nat \ {0} /\ PollLimit \in Nat \ {0}
    /\ MaxFrames \in Nat /\ MaxWrites \in Nat

VARIABLES
    backend,    \* SessionOpenRequest.backend
    active,     \* the run in force, 0 for None (Mutex<Option<ActiveRun>>)
    cancelled,  \* runs whose CancelSignal is set
    closed,     \* AiSession.closed
    commands,   \* the channel to the worker: runs, 0 for Close
    turns,      \* next_turn - 1
    events,     \* EventQueue.events
    dropped,    \* whether EventQueue.dropped is above 0
    step,       \* where the worker is
    run,        \* the run the worker serves, 0 for none
    woken,      \* notify_waiters found the worker waiting
    respawned,  \* this turn has replaced the child once
    child,      \* "none", "alive", "gone" (exited), "dead" (given up)
    stdout,     \* frames the child wrote and the worker has not read
    writes,     \* frames the child may still write
    answering,  \* the run the child is answering, 0 for none
    garbled,    \* a turn ended on a frame nobody could read
    paneRun,    \* _run_id, 0 for ""
    busy,       \* _busy
    pending,    \* _pending_prompt is not empty
    batch       \* envelopes of the poll under way, not yet handled

session == <<backend, active, cancelled, closed, commands, turns>>
outbound == <<events, dropped>>
worker == <<step, run, woken, respawned>>
process == <<child, stdout, writes, answering, garbled>>
pane == <<paneRun, busy, pending, batch>>
aiVars == <<backend, active, cancelled, closed, commands, turns, events, dropped,
            step, run, woken, respawned, child, stdout, writes, answering,
            garbled, paneRun, busy, pending, batch>>

Runs == 1..MaxTurns
FrameKinds == {"text", "end", "fail", "ui", "bad"}
Steps == {"recv", "ask", "look", "register", "wait", "abort", "drain", "told",
          "clear", "clearOn", "ended"}

AiInit ==
    /\ backend \in Backends
    /\ active = 0 /\ cancelled = {} /\ closed = FALSE /\ commands = <<>> /\ turns = 0
    /\ events = <<>> /\ dropped = FALSE
    /\ step = "recv" /\ run = 0 /\ woken = FALSE /\ respawned = FALSE
    /\ child \in IF backend = "omp" THEN {"none", "alive"} ELSE {"none"}
    /\ stdout = <<>> /\ writes = MaxWrites /\ answering = 0 /\ garbled = FALSE
    /\ paneRun = 0 /\ busy = FALSE /\ pending = FALSE /\ batch = <<>>

(***************************************************************************)
(* The event queue                                                         *)
(***************************************************************************)

(* push: a full queue gives up its oldest event. *)
Pushed(envelope) ==
    Append(IF Len(events) = QueueLimit THEN Tail(events) ELSE events, envelope)

Push(r, kind) ==
    /\ events' = Pushed([run |-> r, kind |-> kind])
    /\ dropped' = (dropped \/ Len(events) = QueueLimit)

(* EventSink::emit of an event that does not end the run. *)
EmitText == Push(run, "text")

(* EventSink::emit of Done, Error or Cancelled: the event is queued under   *)
(* one lock, the run is taken out of force under another (Cleared).         *)
EmitEnd(next) ==
    /\ Push(run, "end")
    /\ step' = next
    /\ UNCHANGED session

\* Flawed: the end of a run leaves it in force.
ClearedNever == active

(* Only the run that ended leaves: a later one may be in force by now. *)
Cleared == IF active = run THEN 0 ELSE active

ClearActive ==
    /\ step \in {"clear", "clearOn"}
    /\ active' = Cleared
    /\ step' = IF step = "clear" THEN "recv" ELSE "look"
    /\ run' = IF step = "clear" THEN 0 ELSE run
    /\ woken' = FALSE /\ respawned' = FALSE
    /\ UNCHANGED <<backend, cancelled, closed, commands, turns, outbound, process, pane>>

(***************************************************************************)
(* The pane and the session it calls                                       *)
(***************************************************************************)

(* AiSession::cancel: the flag first, then the notice to whoever waits. *)
Signal ==
    /\ cancelled' = IF active # 0 THEN cancelled \cup {active} ELSE cancelled
    /\ woken' = (woken \/ (backend = "omp" /\ step = "wait" /\ active = run))
    /\ UNCHANGED <<step, run, respawned>>

(* AiSession::prompt, called by _start_turn of a pane that is not busy. *)
Prompt ==
    \/ /\ active # 0                                 \* "a turn is already running"
       /\ busy' = FALSE
       /\ UNCHANGED <<active, commands, turns, paneRun>>
    \/ /\ active = 0 /\ turns < MaxTurns
       /\ turns' = turns + 1
       /\ active' = turns + 1
       /\ commands' = Append(commands, turns + 1)
       /\ paneRun' = turns + 1 /\ busy' = TRUE

(* _start_turn *)
Submit ==
    /\ ~closed /\ batch = <<>>
    /\ \/ /\ ~busy /\ Prompt
          /\ UNCHANGED <<cancelled, worker, pending>>
       \/ /\ busy /\ pending' = TRUE /\ Signal
          /\ UNCHANGED <<active, commands, turns, paneRun, busy>>
    /\ UNCHANGED <<backend, closed, outbound, process, batch>>

(* _process: session_poll takes the oldest, told first of what was lost. *)
Oldest == IF Len(events) < PollLimit THEN Len(events) ELSE PollLimit
Drained ==
    (IF dropped THEN <<[run |-> 0, kind |-> "text"]>> ELSE <<>>) \o SubSeq(events, 1, Oldest)

Poll ==
    /\ ~closed /\ batch = <<>> /\ Drained # <<>>
    /\ batch' = Drained
    /\ events' = SubSeq(events, Oldest + 1, Len(events)) /\ dropped' = FALSE
    /\ UNCHANGED <<session, worker, process, paneRun, busy, pending>>

(* _handle_envelope: an event of another run than the pane's is not shown. *)
Concerns(envelope) == envelope.run = 0 \/ envelope.run = paneRun

HandleEnvelope ==
    /\ batch # <<>>
    /\ batch' = Tail(batch)
    /\ \/ /\ Concerns(Head(batch)) /\ Head(batch).kind = "end" /\ pending
          /\ pending' = FALSE                        \* _finish_turn starts the next
          /\ IF active # 0 \/ turns = MaxTurns
             THEN /\ busy' = FALSE /\ paneRun' = 0
                  /\ UNCHANGED <<active, commands, turns>>
             ELSE Prompt
       \/ /\ Concerns(Head(batch)) /\ Head(batch).kind = "end" /\ ~pending
          /\ busy' = FALSE /\ paneRun' = 0
          /\ UNCHANGED <<active, commands, turns, pending>>
       \/ /\ ~Concerns(Head(batch)) \/ Head(batch).kind # "end"
          /\ UNCHANGED <<active, commands, turns, busy, paneRun, pending>>
    /\ UNCHANGED <<backend, cancelled, closed, outbound, worker, process>>

(* _close_session: cancel, then AiSession::close. *)
ClosePane ==
    /\ ~closed /\ batch = <<>>
    /\ closed' = TRUE
    /\ Signal
    /\ commands' = Append(commands, 0)
    /\ paneRun' = 0 /\ busy' = FALSE /\ pending' = FALSE
    /\ UNCHANGED <<backend, active, turns, outbound, process, batch>>

(***************************************************************************)
(* The worker: receiving a prompt                                          *)
(***************************************************************************)

Fresh(state) ==
    /\ child' = state /\ stdout' = <<>> /\ answering' = 0 /\ garbled' = FALSE
    /\ writes' = MaxWrites

(* is_dead: flagged, or reaped; a start that failed is tried again. *)
Stale == child \in {"none", "gone", "dead"}

(* recv: a prompt is announced; the omp worker first replaces a child that  *)
(* cannot serve it, and a start may fail.                                   *)
TakePrompt ==
    /\ step = "recv" /\ commands # <<>> /\ Head(commands) # 0
    /\ commands' = Tail(commands)
    /\ run' = Head(commands)
    /\ Push(Head(commands), "text")
    /\ step' = "ask" /\ respawned' = FALSE /\ woken' = FALSE
    /\ IF backend = "omp" /\ Stale
       THEN \E state \in {"alive", "none"} : Fresh(state)
       ELSE UNCHANGED process
    /\ UNCHANGED <<backend, active, cancelled, closed, turns, pane>>

(* A child whose pipes closed is answered by a fresh one, once in a turn. *)
MayRespawn == child = "gone" /\ ~respawned

AskAgain ==
    /\ respawned' = TRUE /\ step' = "ask"
    /\ \E state \in {"alive", "none"} : Fresh(state)
    /\ UNCHANGED <<run, woken, outbound>>

(* prompt: what keeps the request from being written. *)
AskFails ==
    /\ step = "ask"
    /\ \/ run \in cancelled /\ backend # "cli"
       \/ backend = "omp" /\ (child = "none" \/ (child = "gone" /\ respawned))
       \/ backend = "cli"                            \* the command does not start
    /\ EmitEnd("clear")
    /\ UNCHANGED <<run, woken, respawned, process, pane>>

AskRespawns ==
    /\ step = "ask" /\ backend = "omp" /\ run \notin cancelled /\ MayRespawn
    /\ AskAgain
    /\ UNCHANGED <<session, pane>>

(* The request reaches the child: the long-lived one, or the turn's own. *)
AskLands ==
    /\ step = "ask" /\ (run \notin cancelled \/ backend = "cli")
    /\ step' = "look"
    /\ \/ /\ backend = "omp" /\ child = "alive"
          /\ answering' = run /\ UNCHANGED <<child, stdout, writes, garbled>>
       \/ /\ backend = "cli"
          /\ child' = "alive" /\ stdout' = <<>> /\ answering' = run
          /\ writes' = MaxWrites /\ garbled' = FALSE
       \/ /\ backend = "mock" /\ UNCHANGED process
    /\ EmitText
    /\ UNCHANGED <<session, run, woken, respawned, pane>>

(* run_mock_session after its yield: one more look at the flag, then Done. *)
MockAnswers ==
    /\ backend = "mock" /\ step = "look"
    /\ EmitEnd("clear")
    /\ UNCHANGED <<run, woken, respawned, process, pane>>

(***************************************************************************)
(* The worker: reading the child                                           *)
(***************************************************************************)

(* The flag is looked at (notified, drive_child) ... *)
LookAtFlag ==
    /\ step = "look" /\ backend # "mock"
    /\ step' = IF run \in cancelled THEN "abort" ELSE "register"
    /\ UNCHANGED <<session, outbound, run, woken, respawned, process, pane>>

(* ... and only then is the waiter registered. *)
RegisterWaiter ==
    /\ step = "register"
    /\ step' = "wait" /\ woken' = FALSE
    /\ UNCHANGED <<session, outbound, run, respawned, process, pane>>

(* The notice of a cancel ends the wait of the omp worker alone. *)
WakeUp ==
    /\ step = "wait" /\ backend = "omp" /\ woken
    /\ step' = "abort"
    /\ UNCHANGED <<session, outbound, run, woken, respawned, process, pane>>

(* PROMPT_TIMEOUT of omp, FRAME_TIMEOUT and PROMPT_TIMEOUT of cli. *)
Deadline ==
    /\ step = "wait" /\ ~woken
    /\ \/ /\ backend = "omp"
          /\ step' = "abort"
          /\ UNCHANGED <<session, outbound, run, woken, respawned, process>>
       \/ /\ backend = "cli"
          /\ EmitEnd("clear")
          /\ child' = "dead" /\ stdout' = <<>> /\ answering' = 0
          /\ UNCHANGED <<run, woken, respawned, writes, garbled>>
    /\ UNCHANGED pane

Take(kinds) ==
    /\ step = "wait" /\ ~woken /\ stdout # <<>> /\ Head(stdout).kind \in kinds
    /\ stdout' = Tail(stdout)
    /\ UNCHANGED <<writes, answering>>

(* A delta, a thought, a status: shown, and the loop turns. *)
ReadText ==
    /\ Take({"text"}) /\ EmitText
    /\ step' = "look"
    /\ UNCHANGED <<session, run, woken, respawned, child, garbled, pane>>

(* The end of the turn.  The cli worker reads on until its child closes. *)
ReadEnd ==
    /\ Take({"end", "fail"})
    /\ EmitEnd(IF backend = "cli" THEN "clearOn" ELSE "clear")
    /\ UNCHANGED <<run, woken, respawned, child, garbled, pane>>

(* A frame that is no frame ends the turn; the omp child stays in service. *)
ReadBad ==
    /\ Take({"bad"})
    /\ EmitEnd("clear")
    /\ child' = IF backend = "cli" THEN "dead" ELSE child
    /\ garbled' = TRUE
    /\ UNCHANGED <<run, woken, respawned, pane>>

(* extension_ui_request: answered "cancelled"; a child that is gone by then *)
(* makes the turn be asked again.                                           *)
ReadUi ==
    /\ backend = "omp"
    /\ \/ /\ Take({"ui"}) /\ child = "alive"
          /\ step' = "look"
          /\ UNCHANGED <<session, outbound, run, woken, respawned, child, garbled>>
       \/ /\ step = "wait" /\ ~woken /\ stdout # <<>> /\ Head(stdout).kind = "ui" /\ MayRespawn
          /\ AskAgain /\ UNCHANGED session
       \/ /\ Take({"ui"}) /\ child = "gone" /\ respawned
          /\ EmitEnd("clear") /\ UNCHANGED <<run, woken, respawned, child, garbled>>
    /\ UNCHANGED pane

(* EOF: omp fails the turn; cli looks at how its child ended, and a success *)
(* says nothing unless the turn was cancelled.                              *)
ReadEof ==
    /\ step = "wait" /\ ~woken /\ stdout = <<>> /\ child = "gone"
    /\ child' = "dead" /\ answering' = 0
    /\ \/ EmitEnd("clear") /\ UNCHANGED run
       \/ /\ backend = "cli" /\ run \in cancelled
          /\ EmitEnd("clear") /\ UNCHANGED run
       \/ /\ backend = "cli" /\ run \notin cancelled
          /\ step' = "recv" /\ run' = 0
          /\ UNCHANGED <<session, outbound>>
    /\ UNCHANGED <<woken, respawned, stdout, writes, garbled, pane>>

(***************************************************************************)
(* The worker: giving a turn up                                            *)
(***************************************************************************)

(* cli kills its child; omp writes an abort, or kills what cannot take it. *)
Abort ==
    /\ step = "abort"
    /\ \/ /\ backend = "omp" /\ child = "alive"
          /\ step' = "drain"
          /\ stdout' = IF Len(stdout) < MaxFrames
                       THEN Append(stdout, [run |-> run, kind |-> "end"]) ELSE stdout
          /\ UNCHANGED <<child, answering>>
       \/ /\ backend = "cli" \/ child = "gone"
          /\ step' = "told" /\ child' = "dead" /\ stdout' = <<>> /\ answering' = 0
    /\ UNCHANGED <<session, outbound, run, woken, respawned, writes, garbled, pane>>

\* Flawed: an acknowledged abort keeps the child.
RetiredNever == "alive"

(* A child that was told to stop is retired, acknowledged or not: what it   *)
(* still writes cannot be told from the next turn's.                        *)
Retired == "dead"

AbortAcknowledged ==
    /\ step = "drain" /\ stdout # <<>>
    /\ stdout' = Tail(stdout)
    /\ \/ /\ Head(stdout).kind = "end"
          /\ step' = "told" /\ child' = Retired
       \/ /\ Head(stdout).kind \notin {"end", "bad"}
          /\ UNCHANGED <<step, child>>
       \/ /\ Head(stdout).kind = "bad"
          /\ step' = "told" /\ child' = "dead"
    /\ UNCHANGED <<session, outbound, run, woken, respawned, writes,
                   answering, garbled, pane>>

AbortUnanswered ==
    /\ step = "drain"
    /\ step' = "told" /\ child' = "dead" /\ stdout' = <<>> /\ answering' = 0
    /\ UNCHANGED <<session, outbound, run, woken, respawned, writes, garbled, pane>>

(* Cancelled, or the error the abort was for. *)
TellAbort ==
    /\ step = "told" /\ EmitEnd("clear")
    /\ UNCHANGED <<run, woken, respawned, process, pane>>

(* Close: the omp worker kills its child; dropping the session aborts the   *)
(* task wherever it waits, and its child with it (kill_on_drop).            *)
Shutdown ==
    /\ closed /\ step # "ended"
    /\ step' = "ended" /\ run' = 0
    /\ child' = "dead" /\ stdout' = <<>> /\ answering' = 0
    /\ UNCHANGED <<session, outbound, woken, respawned, writes, garbled, pane>>

(***************************************************************************)
(* The child                                                               *)
(***************************************************************************)

ChildWrites ==
    /\ child = "alive" /\ answering # 0 /\ Len(stdout) < MaxFrames /\ writes > 0
    /\ \E kind \in IF backend = "cli" THEN FrameKinds \ {"ui"} ELSE FrameKinds :
         /\ stdout' = Append(stdout, [run |-> answering, kind |-> kind])
         /\ answering' = IF kind \in {"end", "fail"} /\ backend = "omp" THEN 0 ELSE answering
    /\ writes' = writes - 1
    /\ UNCHANGED <<session, outbound, worker, child, garbled, pane>>

ChildExits ==
    /\ child = "alive" /\ child' = "gone" /\ answering' = 0
    /\ UNCHANGED <<session, outbound, worker, stdout, writes, garbled, pane>>

WorkerStep ==
    \/ TakePrompt \/ AskFails \/ AskRespawns \/ AskLands \/ MockAnswers
    \/ LookAtFlag \/ RegisterWaiter \/ WakeUp \/ Deadline
    \/ ReadText \/ ReadEnd \/ ReadBad \/ ReadUi \/ ReadEof
    \/ Abort \/ AbortAcknowledged \/ AbortUnanswered \/ TellAbort
    \/ ClearActive \/ Shutdown

AiNext ==
    \/ Submit \/ Poll \/ HandleEnvelope \/ ClosePane
    \/ WorkerStep \/ ChildWrites \/ ChildExits

AiSpec == AiInit /\ [][AiNext]_aiVars

(***************************************************************************)
(* What a session promises                                                 *)
(***************************************************************************)

Envelopes == [run : 0..MaxTurns, kind : {"text", "end"}]

\* Type correctness of a session, its worker, its child and its pane.
AiTypeOK ==
    /\ backend \in Backends /\ active \in 0..MaxTurns /\ cancelled \subseteq Runs
    /\ closed \in BOOLEAN /\ commands \in Seq(0..MaxTurns) /\ turns \in 0..MaxTurns
    /\ events \in Seq(Envelopes) /\ Len(events) <= QueueLimit /\ dropped \in BOOLEAN
    /\ step \in Steps /\ run \in 0..MaxTurns /\ woken \in BOOLEAN /\ respawned \in BOOLEAN
    /\ child \in {"none", "alive", "gone", "dead"} /\ writes \in 0..MaxWrites
    /\ stdout \in Seq([run : Runs, kind : FrameKinds])
    /\ answering \in 0..MaxTurns /\ garbled \in BOOLEAN
    /\ paneRun \in 0..MaxTurns /\ busy \in BOOLEAN /\ pending \in BOOLEAN
    /\ batch \in Seq(Envelopes)

\* The run in force is the one its pane waits for, unless its end was shown
\* in the moment between the queue and the lock of emit: no other end, of an
\* earlier run or of a poll that came late, takes it from the pane.
InForceIsAwaited ==
    ~closed /\ active # 0 =>
        paneRun = active \/ (step \in {"clear", "clearOn"} /\ run = active)

\* The worker has let go of a run that stays in force, or the end of the run
\* the pane waits for has fallen out of the queue.
Stuck == ~closed /\ active # 0 /\ step = "recv" /\ commands = <<>>
EndLost ==
    /\ busy /\ paneRun # active
    /\ \A i \in 1..Len(events \o batch) :
          (events \o batch)[i] # [run |-> paneRun, kind |-> "end"]

\* Only an adapter can strand its pane: by closing without a done or an error
\* frame, or by talking on after it until the queue gives the end up.
OnlyAdaptersStrand == Stuck \/ EndLost => backend = "cli"

\* An omp turn reads no frame of an earlier turn, unless that one ended on a
\* frame nobody could read: every other way to give a turn up retires the child.
StreamIsItsTurns ==
    backend = "omp" /\ step \in {"look", "register", "wait"} /\ stdout # <<>> =>
        Head(stdout).run = run \/ garbled

\* A turn ends for its pane whatever the child does, except with an adapter,
\* which may close without a word (inspector_pane.gd then stays busy).
TurnsEnd == (busy /\ backend # "cli") ~> ~busy

\* A pane that closed leaves neither its worker nor a child behind.
NoOrphan == closed ~> (step = "ended" /\ child # "alive")

=============================================================================
