----------------------------- MODULE PtyProcess -----------------------------
(***************************************************************************)
(* The process behind a pane (pty.rs, engine.rs, gdext lib.rs): how it is  *)
(* spawned step by step, each of which may fail, the two threads and the   *)
(* task that serve it, what its status document says while it ends, and    *)
(* what a teardown leaves behind.  The child may leave descendants in its  *)
(* process group, a process outside of the group that holds the pty too,   *)
(* or close the pty itself and go on.                                      *)
(***************************************************************************)
EXTENDS Naturals

CONSTANT QueueChunks  \* OUTPUT_QUEUE_CHUNKS

ASSUME QueueAssumption == QueueChunks \in Nat \ {0}

VARIABLES
  stage,       \* of the spawn: "none", "registered", "opened", "spawned", "reading", "live", "failed"
  registered,  \* the event session of this pane
  child,       \* "none", "running", "zombie" (ended, not reaped), "reaped"
  holds,       \* the child holds the pty
  group,       \* descendants in the child's process group run
  outsider,    \* a process outside the group holds the pty
  reader,      \* the reader thread: "none", "reading", "blocked" (queue full), "ended"
  chunks,      \* the chunks queued for the task
  writer,      \* the writer thread: "none", "waiting", "writing" (blocked on the child), "ended"
  task,        \* the pane's task: "none", "running", "reaping", "ended", "dropped" (aborted or panicked)
  seenExit,    \* child_exit of the task
  alive,       \* status.child_alive
  exitCode,    \* status.exit_code is set
  pane         \* "none", "open", "closed"

spawnVars == <<stage, registered>>
worldVars == <<child, holds, group, outsider>>
threadVars == <<reader, chunks, writer>>
statusVars == <<seenExit, alive, exitCode>>
ptyVars == <<spawnVars, worldVars, threadVars, task, statusVars, pane>>

ChildRuns == child = "running"
Held == (ChildRuns /\ holds) \/ group \/ outsider
HasReceiver == stage \in {"opened", "spawned", "reading"} \/ task \in {"running", "reaping"}

PtyInit ==
  /\ stage = "none" /\ registered = FALSE
  /\ child = "none" /\ holds = FALSE /\ group = FALSE /\ outsider = FALSE
  /\ reader = "none" /\ chunks = 0 /\ writer = "none" /\ task = "none"
  /\ seenExit = FALSE /\ alive = FALSE /\ exitCode = FALSE /\ pane = "none"

---------------------------------------------------------------------------
(* start_shell: the session is registered first, and goes with a failure.  *)

StartShell ==
  /\ pane = "none" /\ pane' = "open"
  /\ stage' = "registered" /\ registered' \in BOOLEAN
  /\ UNCHANGED <<worldVars, threadVars, task, statusVars>>

(* A step that fails after the child exists kills it; the reap may be early.*)
Abandon ==
  /\ stage' = "failed" /\ registered' = FALSE
  /\ child' \in (IF ChildRuns THEN {"zombie", "reaped"} ELSE {child})

(* openpty and its two ends, before anything is spawned. *)
OpenPty ==
  /\ stage = "registered"
  /\ (stage' = "opened" /\ UNCHANGED <<registered, child>>) \/ Abandon
  /\ UNCHANGED <<holds, group, outsider, threadVars, task, statusVars, pane>>

SpawnCommand ==
  /\ stage = "opened"
  /\ \/ stage' = "spawned" /\ child' = "running" /\ holds' = TRUE /\ UNCHANGED registered
     \/ Abandon /\ UNCHANGED holds
  /\ UNCHANGED <<group, outsider, threadVars, task, statusVars, pane>>

StartReader ==
  /\ stage = "spawned"
  /\ \/ stage' = "reading" /\ reader' = "reading" /\ UNCHANGED <<registered, child>>
     \/ Abandon /\ UNCHANGED reader
  /\ UNCHANGED <<holds, group, outsider, chunks, writer, task, statusVars, pane>>

StartWriter ==
  /\ stage = "reading"
  /\ \/ /\ stage' = "live" /\ writer' = "waiting" /\ task' = "running" /\ alive' = TRUE
        /\ UNCHANGED <<registered, child>>
     \/ Abandon /\ UNCHANGED <<writer, task, alive>>
  /\ UNCHANGED <<holds, group, outsider, reader, chunks, seenExit, exitCode, pane>>

---------------------------------------------------------------------------
(* The child and its descendants. *)

ChildActs ==
  /\ ChildRuns
  /\ \/ child' = "zombie" /\ UNCHANGED <<holds, group, outsider>>
     \/ holds' = FALSE /\ UNCHANGED <<child, group, outsider>>
     \/ group' = TRUE /\ UNCHANGED <<child, holds, outsider>>
     \/ outsider' = TRUE /\ UNCHANGED <<child, holds, group>>
  /\ UNCHANGED <<spawnVars, threadVars, task, statusVars, pane>>

GroupEnds == group /\ group' = FALSE
  /\ UNCHANGED <<spawnVars, child, holds, outsider, threadVars, task, statusVars, pane>>
OutsiderEnds == outsider /\ outsider' = FALSE
  /\ UNCHANGED <<spawnVars, child, holds, group, threadVars, task, statusVars, pane>>

---------------------------------------------------------------------------
(* The reader thread: a read, and a blocking send of what was read. *)

Read ==
  /\ reader = "reading" /\ Held
  /\ reader' = (IF ~HasReceiver THEN "ended" ELSE IF chunks = QueueChunks THEN "blocked" ELSE "reading")
  /\ chunks' = (IF HasReceiver /\ chunks < QueueChunks THEN chunks + 1 ELSE chunks)
  /\ UNCHANGED <<spawnVars, worldVars, writer, task, statusVars, pane>>

Unblock ==
  /\ reader = "blocked" /\ (chunks < QueueChunks \/ ~HasReceiver)
  /\ reader' = (IF HasReceiver THEN "reading" ELSE "ended")
  /\ chunks' = (IF HasReceiver THEN chunks + 1 ELSE chunks)
  /\ UNCHANGED <<spawnVars, worldVars, writer, task, statusVars, pane>>

ReadEnd ==
  /\ reader = "reading" /\ ~Held /\ reader' = "ended"
  /\ UNCHANGED <<spawnVars, worldVars, chunks, writer, task, statusVars, pane>>

(* The writer thread blocks as long as nobody who holds the pty reads, and *)
(* ends when its queue is closed.                                          *)
\* Flawed: an aborted task's queue stays open.
WriterGoneAtEnd == stage = "failed" \/ task = "ended"

WriterGone == stage = "failed" \/ task \in {"ended", "dropped"}
Write == writer = "waiting" /\ ~WriterGone /\ writer' = "writing"
  /\ UNCHANGED <<spawnVars, worldVars, reader, chunks, task, statusVars, pane>>
Written == writer = "writing" /\ Held /\ writer' = "waiting"
  /\ UNCHANGED <<spawnVars, worldVars, reader, chunks, task, statusVars, pane>>
WriterEnds ==
  /\ (writer = "writing" /\ ~Held) \/ (writer = "waiting" /\ WriterGone)
  /\ writer' = "ended"
  /\ UNCHANGED <<spawnVars, worldVars, reader, chunks, task, statusVars, pane>>

---------------------------------------------------------------------------
(* The task, and what goes with it: PtyHandle's drop kills the whole group.*)

Killed ==
  /\ group' = FALSE
  /\ child' \in (IF ChildRuns THEN {"zombie", "reaped"} ELSE IF child = "zombie" THEN {"reaped"} ELSE {child})
  /\ UNCHANGED <<holds, outsider>>

TakeChunk ==
  /\ task = "running" /\ chunks > 0 /\ chunks' = chunks - 1
  /\ UNCHANGED <<spawnVars, worldVars, reader, writer, task, statusVars, pane>>

PollChild ==
  /\ task = "running" /\ ~seenExit /\ child = "zombie"
  /\ child' = "reaped" /\ seenExit' = TRUE /\ alive' = FALSE
  /\ UNCHANGED <<spawnVars, holds, group, outsider, threadVars, task, exitCode, pane>>

\* Flawed: the end of the pty is taken for the end of the child.
LoopEndsForGone ==
  /\ task = "running" /\ chunks = 0 /\ (reader = "ended" \/ seenExit)
  /\ task' = "reaping" /\ alive' = FALSE
  /\ UNCHANGED <<spawnVars, worldVars, threadVars, seenExit, exitCode, pane>>

(* The loop ends with the pty, or with silence after the child's exit. *)
LoopEnds ==
  /\ task = "running" /\ chunks = 0 /\ (reader = "ended" \/ seenExit)
  /\ task' = "reaping"
  /\ UNCHANGED <<spawnVars, worldVars, threadVars, statusVars, pane>>

AliveAtEnd == ChildRuns

(* Up to two seconds of polls, the last word of the status, and the drop. *)
TaskEnds ==
  /\ task = "reaping" /\ task' = "ended"
  /\ alive' = AliveAtEnd /\ exitCode' = ~ChildRuns
  /\ Killed
  /\ UNCHANGED <<spawnVars, threadVars, seenExit, pane>>

TaskPanics ==
  /\ task \in {"running", "reaping"} /\ pane = "open" /\ task' = "dropped"
  /\ Killed
  /\ UNCHANGED <<spawnVars, threadVars, statusVars, pane>>

(* Closing the pane aborts the task, which takes effect at its next await. *)
CloseTerminal ==
  /\ pane = "open" /\ stage \in {"live", "failed"}
  /\ pane' = "closed" /\ registered' = FALSE
  /\ UNCHANGED <<stage, worldVars, threadVars, task, statusVars>>

Abort ==
  /\ pane = "closed" /\ task \in {"running", "reaping"} /\ task' = "dropped"
  /\ Killed
  /\ UNCHANGED <<spawnVars, threadVars, statusVars, pane>>

PtyNext ==
  \/ StartShell \/ OpenPty \/ SpawnCommand \/ StartReader \/ StartWriter
  \/ ChildActs \/ GroupEnds \/ OutsiderEnds
  \/ Read \/ Unblock \/ ReadEnd \/ Write \/ Written \/ WriterEnds
  \/ TakeChunk \/ PollChild \/ LoopEnds \/ TaskEnds \/ TaskPanics \/ CloseTerminal \/ Abort

(* The runtime polls the task, and threads run; nobody has to write or end.*)
PtyFairness ==
  /\ WF_ptyVars(Abort) /\ WF_ptyVars(TaskEnds)
  /\ WF_ptyVars(Unblock) /\ WF_ptyVars(ReadEnd) /\ WF_ptyVars(WriterEnds)

PtySpec == PtyInit /\ [][PtyNext]_ptyVars /\ PtyFairness

---------------------------------------------------------------------------
(* The status document: running, and exit_reason. *)
TaskAlive == task \in {"running", "reaping"}
Running == ~exitCode /\ TaskAlive

PtyTypeOK ==
  /\ child \in {"none", "running", "zombie", "reaped"} /\ chunks \in 0..QueueChunks
  /\ reader \in {"none", "reading", "blocked", "ended"} /\ writer \in {"none", "waiting", "writing", "ended"}

(* The document of a live pane never says that no process is left while the*)
(* child runs, and it says "exited" only of a child that did: a close that *)
(* asks by it never stops work unasked (term.rs:146-153, engine.rs:1018).  *)
AliveIsNeverUnderstated ==
  (stage = "live" /\ ChildRuns) => (alive /\ ~exitCode)

(* A child never runs on without an owner that would kill it: not after a  *)
(* spawn that failed half-way, not after its task is gone; and with the    *)
(* task its process group goes too (pty.rs:436, 337).                      *)
NothingRunsUnowned ==
  /\ (stage = "failed" \/ task \in {"ended", "dropped"}) => ~ChildRuns
  /\ task \in {"ended", "dropped"} => ~group

(* A closed pane lets go of everything: its task ends, and both threads do *)
(* unless somebody who left the child's group still holds the pty - a read *)
(* that is blocked on the pty, or a send on a full queue, outlives nobody. *)
Settled == task \notin {"running", "reaping"} /\ reader \in {"none", "ended"} /\ writer \in {"none", "ended"}
ClosedPanesSettle == (pane = "closed") ~> (Settled \/ Held)

(* "A child that closed its pty and outlived the pane keeps running": the  *)
(* end of the task does not end the child, so that a close asks about it   *)
(* (term.rs:147-150, roadmap v0.7).                                        *)
SurvivorOutlivesTheTask == [][(task = "reaping" /\ task' = "ended" /\ ChildRuns) => ChildRuns']_ptyVars

(* A pane accounts for its process: it says that one lives while one does, *)
(* and what it no longer owns does not run.                                *)
ProcessIsAccountedFor == AliveIsNeverUnderstated /\ NothingRunsUnowned
=============================================================================
