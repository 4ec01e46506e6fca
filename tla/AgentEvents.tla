---------------------------- MODULE AgentEvents ----------------------------
(***************************************************************************)
(* The event socket of a window: how the events of the agents and programs *)
(* inside its terminals reach the GUI (omp_events.rs).  Spawning a shell   *)
(* registers a session whose id and capability only that shell's children  *)
(* hold; a submission is checked, numbered against the session and queued; *)
(* the frame drains the queue.                                             *)
(*                                                                         *)
(* The GUI thread (spawn, close, drain) and the socket's tasks meet at the *)
(* locks of SESSIONS and EVENTS: removing a session and purging its events *)
(* are two steps, checking and queueing an event is one, counting it is    *)
(* another.  A submission stays in flight for as long as its connection's  *)
(* task is not scheduled; its producer has timed out and sent the next.    *)
(* Left out: the fields of an event, and submissions refused before the    *)
(* tables are read, which change nothing but the log.                      *)
(*                                                                         *)
(* Bounds: Spawns sessions are handed out, Sends submissions made, Runs    *)
(* agent processes started per terminal; the caps are the code's, smaller. *)
(***************************************************************************)
EXTENDS Integers, Sequences, FiniteSets, SequencesExt

CONSTANTS Panes, Spawns, Sends, Runs,
          MaxGlobalEvents, MaxSessionEvents, MaxQueuedBytes, SeqResetCeiling

ASSUME EventBoundsAssumption ==
  /\ Spawns \in Nat /\ Sends \in Nat /\ Runs \in Nat
  /\ {MaxGlobalEvents, MaxSessionEvents, MaxQueuedBytes, SeqResetCeiling} \subseteq Nat

VARIABLES
  sessionOf,  \* per pane: terminal_session_id, 0 before a shell runs
  spawned,    \* session ids handed out
  gui,        \* the GUI thread: idle, or a step of spawning or closing
  lastSeq,    \* SESSIONS: last_seq of every registered session
  events,     \* EVENTS: the queue
  queued,     \* EVENTS: its byte total
  counters,   \* COUNTERS: events accepted and drained
  uncounted,  \* accepted submissions whose task has not reached COUNTERS yet
  runs,       \* per session: agent processes started in it
  numbered,   \* per session: the number its current agent process used last
  inflight,   \* submissions no task has handled yet
  sent,       \* submissions made
  purged,     \* history: events removed with their session
  taken,      \* history: the numbers that became some session's last_seq
  stale       \* history: the numbers refused as stale

eventVars == <<sessionOf, spawned, gui, lastSeq, events, queued, counters, uncounted,
               runs, numbered, inflight, sent, purged, taken, stale>>
producerVars == <<runs, numbered, inflight, sent>>

Sessions == 1..Spawns
Sizes == 1..2
Submissions == [id: 1..Sends, session: Sessions, run: 0..Runs, seq: 0..Sends, bytes: Sizes]
Numbers == [session: Sessions, run: 1..Runs, seq: 1..Sends]
Number(r) == [session |-> r.session, run |-> r.run, seq |-> r.seq]
Idle == [step |-> "idle", pane |-> "none", session |-> 0]

BytesOf(s) == FoldSeq(LAMBDA e, n : e.bytes + n, 0, s)
Live == DOMAIN lastSeq

EventsTypeOK ==
  /\ sessionOf \in [Panes -> 0..spawned] /\ spawned \in 0..Spawns
  /\ gui \in [step: {"idle", "closing", "replacing", "spawning"}, pane: Panes \union {"none"},
              session: 0..Spawns]
  /\ Live \subseteq 1..spawned /\ lastSeq \in [Live -> 0..Sends]
  /\ events \in Seq(Submissions) /\ queued \in Nat
  /\ counters \in [accepted: 0..Sends, drained: 0..Sends]
  /\ uncounted \subseteq Submissions /\ inflight \subseteq Submissions /\ sent \in 0..Sends
  /\ runs \in [Sessions -> 0..Runs] /\ numbered \in [Sessions -> 0..Sends]
  /\ purged \in 0..Sends /\ taken \subseteq Numbers /\ stale \subseteq Numbers

EventsInit ==
  /\ sessionOf = [p \in Panes |-> 0] /\ spawned = 0 /\ gui = Idle
  /\ lastSeq = <<>> /\ events = <<>> /\ queued = 0
  /\ counters = [accepted |-> 0, drained |-> 0]
  /\ uncounted = {} /\ inflight = {} /\ sent = 0
  /\ runs = [s \in Sessions |-> 0] /\ numbered = [s \in Sessions |-> 0]
  /\ purged = 0 /\ taken = {} /\ stale = {}

----------------------------------------------------------------------------
\* The GUI thread: start_shell, the drop of a terminal, the drain.

Registered(s) == [t \in Live \union {s} |-> IF t = s THEN 0 ELSE lastSeq[t]]
Forgotten(s) == [t \in Live \ {s} |-> lastSeq[t]]

Purge(s) == FoldLeft(LAMBDA kept, e : IF e.session = s THEN kept ELSE Append(kept, e), <<>>, events)

\* unregister_terminal, first lock: the session is removed from SESSIONS.
\* A pane that closes ends there; start_shell goes on to a new session.
Unregister(p, next) ==
  /\ gui = Idle /\ sessionOf[p] # 0
  /\ gui' = [step |-> next, pane |-> p, session |-> sessionOf[p]]
  /\ lastSeq' = Forgotten(sessionOf[p])
  /\ sessionOf' = [sessionOf EXCEPT ![p] = 0]
  /\ UNCHANGED <<spawned, events, queued, counters, uncounted, purged, taken, stale>>
  /\ UNCHANGED producerVars

CloseTerminal(p) == Unregister(p, "closing")
ReplaceShell(p) == spawned < Spawns /\ Unregister(p, "replacing")

\* unregister_terminal, second lock: its events leave the queue.
PurgeEvents ==
  /\ gui.step \in {"closing", "replacing"}
  /\ events' = Purge(gui.session) /\ queued' = queued - (BytesOf(events) - BytesOf(events'))
  /\ purged' = purged + Len(events) - Len(events')
  /\ IF gui.step = "replacing"
     THEN gui' = [step |-> "spawning", pane |-> gui.pane, session |-> spawned + 1]
          /\ spawned' = spawned + 1 /\ lastSeq' = Registered(spawned + 1)
     ELSE gui' = Idle /\ UNCHANGED <<spawned, lastSeq>>
  /\ UNCHANGED <<sessionOf, counters, uncounted, taken, stale>> /\ UNCHANGED producerVars

\* start_shell of a pane without a session: register_terminal.
StartShell(p) ==
  /\ gui = Idle /\ sessionOf[p] = 0 /\ spawned < Spawns
  /\ gui' = [step |-> "spawning", pane |-> p, session |-> spawned + 1]
  /\ spawned' = spawned + 1 /\ lastSeq' = Registered(spawned + 1)
  /\ UNCHANGED <<sessionOf, events, queued, counters, uncounted, purged, taken, stale>>
  /\ UNCHANGED producerVars

\* The spawn succeeds and the terminal keeps the session ...
ShellStarted ==
  /\ gui.step = "spawning"
  /\ sessionOf' = [sessionOf EXCEPT ![gui.pane] = gui.session] /\ gui' = Idle
  /\ UNCHANGED <<spawned, lastSeq, events, queued, counters, uncounted, purged, taken, stale>>
  /\ UNCHANGED producerVars

\* ... or fails, and the session is unregistered again.
ShellFailed ==
  /\ gui.step = "spawning"
  /\ lastSeq' = Forgotten(gui.session) /\ gui' = [step |-> "closing", pane |-> gui.pane, session |-> gui.session]
  /\ UNCHANGED <<sessionOf, spawned, events, queued, counters, uncounted, purged, taken, stale>>
  /\ UNCHANGED producerVars

BytesAfterDrain == 0
\* drain_events, each frame: the queue and its byte total go together, then
\* the counters.
DrainEvents ==
  /\ gui = Idle /\ events # <<>>
  /\ events' = <<>> /\ queued' = BytesAfterDrain
  /\ counters' = [accepted |-> counters.accepted, drained |-> counters.drained + Len(events)]
  /\ UNCHANGED <<sessionOf, spawned, gui, lastSeq, uncounted, purged, taken, stale>>
  /\ UNCHANGED producerVars

----------------------------------------------------------------------------
\* The producers in a terminal: one agent process after the other, numbering
\* its events from 1, and programs that declare a state without a number.

Holders == {s \in 1..spawned : \E p \in Panes : sessionOf[p] = s \/ runs[s] > 0}

AgentStarts(s) ==
  /\ s \in Holders /\ runs[s] < Runs
  /\ runs' = [runs EXCEPT ![s] = @ + 1] /\ numbered' = [numbered EXCEPT ![s] = 0]
  /\ UNCHANGED <<sessionOf, spawned, gui, lastSeq, events, queued, counters, uncounted,
                 inflight, sent, purged, taken, stale>>

\* The extension sends its next event; it waits 250 ms for the connection to
\* end and goes on, whatever became of it.
SendEvent(s, b) ==
  /\ s \in Holders /\ runs[s] > 0 /\ sent < Sends
  /\ sent' = sent + 1 /\ numbered' = [numbered EXCEPT ![s] = @ + 1]
  /\ inflight' = inflight \union
       {[id |-> sent + 1, session |-> s, run |-> runs[s], seq |-> numbered[s] + 1, bytes |-> b]}
  /\ UNCHANGED <<sessionOf, spawned, gui, lastSeq, events, queued, counters, uncounted, runs,
                 purged, taken, stale>>

\* gpty state: no number.
DeclareState(s) ==
  /\ s \in Holders /\ sent < Sends
  /\ sent' = sent + 1
  /\ inflight' = inflight \union
       {[id |-> sent + 1, session |-> s, run |-> 0, seq |-> 0, bytes |-> 1]}
  /\ UNCHANGED <<sessionOf, spawned, gui, lastSeq, events, queued, counters, uncounted, runs,
                 numbered, purged, taken, stale>>

----------------------------------------------------------------------------
\* The socket's tasks: event_handler.

\* accept_event_seq: a number above the last one, or one so small below it
\* that the extension must have started anew.
AcceptEventSeq(last, seq) == seq > last \/ (seq < last /\ seq <= SeqResetCeiling)

\* A declaration carries no number and moves none.
InSequence(r) == r.seq = 0 \/ AcceptEventSeq(lastSeq[r.session], r.seq)
Advance(r) ==
  IF r.seq = 0 THEN UNCHANGED <<lastSeq, taken>>
  ELSE lastSeq' = [lastSeq EXCEPT ![r.session] = r.seq] /\ taken' = taken \union {Number(r)}

HasRoom(r) ==
  /\ Len(events) < MaxGlobalEvents /\ queued + r.bytes <= MaxQueuedBytes
  /\ Len(SelectSeq(events, LAMBDA e : e.session = r.session)) < MaxSessionEvents

\* An unknown session (a stale environment), or the connection was lost.
SubmissionLost(r) ==
  /\ r \in inflight
  /\ inflight' = inflight \ {r}
  /\ UNCHANGED <<sessionOf, spawned, gui, lastSeq, events, queued, counters, uncounted, runs,
                 numbered, sent, purged, taken, stale>>

RefuseStale(r) ==
  /\ r \in inflight /\ r.session \in Live /\ ~InSequence(r)
  /\ inflight' = inflight \ {r} /\ stale' = stale \union {Number(r)}
  /\ UNCHANGED <<sessionOf, spawned, gui, lastSeq, events, queued, counters, uncounted, runs,
                 numbered, sent, purged, taken>>

\* A full queue refuses the event; its number is used all the same.
RefuseFull(r) ==
  /\ r \in inflight /\ r.session \in Live /\ InSequence(r) /\ ~HasRoom(r)
  /\ inflight' = inflight \ {r} /\ Advance(r)
  /\ UNCHANGED <<sessionOf, spawned, gui, events, queued, counters, uncounted, runs, numbered, sent,
                 purged, stale>>

\* The session is looked up, and the event queued, under the session's lock.
Accept(r) ==
  /\ r \in inflight /\ r.session \in Live /\ InSequence(r) /\ HasRoom(r)
  /\ inflight' = inflight \ {r} /\ Advance(r)
  /\ events' = Append(events, r) /\ queued' = queued + r.bytes
  /\ uncounted' = uncounted \union {r}
  /\ UNCHANGED <<sessionOf, spawned, gui, counters, runs, numbered, sent, purged, stale>>

\* note_counter, the locks given back.
Count(r) ==
  /\ r \in uncounted
  /\ uncounted' = uncounted \ {r}
  /\ counters' = [accepted |-> counters.accepted + 1, drained |-> counters.drained]
  /\ UNCHANGED <<sessionOf, spawned, gui, lastSeq, events, queued, runs, numbered, inflight,
                 sent, purged, taken, stale>>

EventsNext ==
  \/ \E p \in Panes : CloseTerminal(p) \/ ReplaceShell(p) \/ StartShell(p)
  \/ PurgeEvents \/ ShellStarted \/ ShellFailed \/ DrainEvents
  \/ \E s \in Sessions : AgentStarts(s) \/ DeclareState(s)
  \/ \E s \in Sessions, b \in Sizes : SendEvent(s, b)
  \/ \E r \in inflight : SubmissionLost(r) \/ RefuseStale(r) \/ RefuseFull(r) \/ Accept(r)
  \/ \E r \in uncounted : Count(r)

EventsSpec == EventsInit /\ [][EventsNext]_eventVars

----------------------------------------------------------------------------
\* An event waits only for a terminal that can still show it: the queue holds
\* none of a session that was unregistered, except while the GUI is between
\* the two locks of unregister_terminal, and, the GUI idle, the registered
\* sessions are exactly the panes' (a failed spawn leaves none behind).
EventsHaveATerminal ==
  /\ \A i \in DOMAIN events : events[i].session \in Live
                              \/ (gui.step \in {"closing", "replacing"} /\ events[i].session = gui.session)
  /\ gui = Idle => Live = {sessionOf[p] : p \in Panes} \ {0}

\* Nothing is lost between the socket and the GUI but what the pane's end
\* removes: what was accepted is drained, queued or purged, whatever the order
\* in which the tasks reach the counters, and the byte total that bounds the
\* queue is that of the events in it.
EventsAccounted ==
  /\ queued = BytesOf(events)
  /\ counters.accepted + Cardinality(uncounted) = counters.drained + Len(events) + purged

\* A restarted agent is heard: a number is refused as stale only because the
\* same process had a later one accepted before, or because an older process
\* went at least as far and the number is past the reset's ceiling or the very
\* one in force.
StaleMeansLate ==
  \A x \in stale : \E a \in taken :
    /\ a.session = x.session /\ a.seq >= x.seq
    /\ a.run = x.run \/ x.seq > SeqResetCeiling \/ a.seq = x.seq

\* The queue between the socket and the frame is sound: every event in it has
\* a terminal that can still show it, none is lost on the way, and only late
\* ones are refused.
EventQueueIsSound == EventsHaveATerminal /\ EventsAccounted /\ StaleMeansLate
=============================================================================
