------------------------------- MODULE CliView -------------------------------
(* One CLI view (gpty-core cli.rs, gpty-gdext cli_view.rs, cli_view_pane.gd): *)
(* a command's process group, the two threads that read its pipes, the       *)
(* bounded queue of lines between them and the pane, and the pane's ring.    *)
(*                                                                           *)
(* A line is the process and the pipe it was written to and its number       *)
(* there.  The command may leave a helper of its own group behind when it    *)
(* exits.  How bytes are cut into lines is in CliLines.                      *)
EXTENDS Integers, Sequences, SequencesExt, FiniteSetsExt

CONSTANTS
    Starts,          \* bound: processes the pane starts
    LinesWritten,    \* bound: lines all processes write
    PipeLines,       \* lines a pipe holds before a write blocks
    QueueLines,      \* QUEUE_LINES
    ViewLines        \* MAX_LINES

ASSUME CliAssumption ==
    /\ Starts \in Nat \ {0} /\ LinesWritten \in Nat
    /\ PipeLines \in Nat \ {0} /\ QueueLines \in Nat \ {0} /\ ViewLines \in Nat \ {0}

Pipes == {"stdout", "stderr"}
Processes == 1..Starts

VARIABLES
    started,    \* processes started so far; the last is the pane's, if held
    held,       \* the pane holds a process (GptyCliView.process is Some)
    command,    \* per process: "none", "runs", "exited" (a zombie), "reaped"
    helper,     \* per process: another member of its group is alive
    written,    \* per process and pipe: lines written
    taken,      \* per process and pipe: lines a reader has read
    reader,     \* per process and pipe: "none", "reads", "ended"
    pushing,    \* per process and pipe: lines a reader has and must queue
    lines,      \* per process: LineQueue.lines
    shut,       \* per process: LineQueue.closed
    reason,     \* per process: exit_reason
    shown,      \* _lines
    running,    \* _running
    gone        \* the pane left the tree

cliVars == <<started, held, command, helper, written, taken, reader, pushing, lines,
             shut, reason, shown, running, gone>>

CliInit ==
    /\ started = 0 /\ held = FALSE
    /\ command = [p \in Processes |-> "none"] /\ helper = [p \in Processes |-> FALSE]
    /\ written = [p \in Processes |-> [s \in Pipes |-> 0]] /\ taken = written
    /\ reader = [p \in Processes |-> [s \in Pipes |-> "none"]]
    /\ pushing = [p \in Processes |-> [s \in Pipes |-> <<>>]]
    /\ lines = [p \in Processes |-> <<>>] /\ shut = [p \in Processes |-> FALSE]
    /\ reason = [p \in Processes |-> "none"]
    /\ shown = <<>> /\ running = FALSE /\ gone = FALSE

(***************************************************************************)
(* The command and its group                                               *)
(***************************************************************************)

GroupLives(p) == command[p] = "runs" \/ helper[p]

WriteLine(p, s) ==
    /\ GroupLives(p)
    /\ MapThenSumSet(LAMBDA q : written[q]["stdout"] + written[q]["stderr"], Processes)
         < LinesWritten
    /\ written[p][s] - taken[p][s] < PipeLines
    /\ written' = [written EXCEPT ![p][s] = @ + 1]
    /\ UNCHANGED <<started, held, command, helper, taken, reader, pushing, lines, shut,
                   reason, shown, running, gone>>

CommandExits(p) ==
    /\ command[p] = "runs"
    /\ command' = [command EXCEPT ![p] = "exited"]
    /\ \E left \in BOOLEAN : helper' = [helper EXCEPT ![p] = left]
    /\ UNCHANGED <<started, held, written, taken, reader, pushing, lines, shut, reason,
                   shown, running, gone>>

HelperExits(p) ==
    /\ helper[p] /\ helper' = [helper EXCEPT ![p] = FALSE]
    /\ UNCHANGED <<started, held, command, written, taken, reader, pushing, lines, shut,
                   reason, shown, running, gone>>

(***************************************************************************)
(* The readers                                                             *)
(***************************************************************************)

(* read_lines: a chunk holds some of the lines in the pipe, a partial line  *)
(* none of them.                                                            *)
ReadChunk(p, s) ==
    /\ reader[p][s] = "reads" /\ pushing[p][s] = <<>>
    /\ \E n \in taken[p][s] + 1 .. written[p][s] :
         /\ pushing' = [pushing EXCEPT ![p][s] =
                          [i \in 1..n - taken[p][s] |-> <<p, s, taken[p][s] + i>>]]
         /\ taken' = [taken EXCEPT ![p][s] = n]
    /\ UNCHANGED <<started, held, command, helper, written, reader, lines, shut, reason,
                   shown, running, gone>>

(* LineQueue::push: what there is room for; the rest waits for space.  A    *)
(* queue that was closed takes nothing, and the reader reads on.            *)
Room(p) == QueueLines - Len(lines[p])
Fitting(p, s) == IF Len(pushing[p][s]) < Room(p) THEN Len(pushing[p][s]) ELSE Room(p)

\* Flawed: what does not fit is dropped.
DroppedWhenFull(p, s) == <<>>

Unqueued(p, s) == SubSeq(pushing[p][s], Fitting(p, s) + 1, Len(pushing[p][s]))

PushLines(p, s) ==
    /\ pushing[p][s] # <<>>
    /\ \/ /\ shut[p]
          /\ pushing' = [pushing EXCEPT ![p][s] = <<>>]
          /\ UNCHANGED lines
       \/ /\ ~shut[p] /\ Room(p) > 0
          /\ lines' = [lines EXCEPT ![p] = @ \o SubSeq(pushing[p][s], 1, Fitting(p, s))]
          /\ pushing' = [pushing EXCEPT ![p][s] = Unqueued(p, s)]
    /\ UNCHANGED <<started, held, command, helper, written, taken, reader, shut, reason,
                   shown, running, gone>>

(* The end of the stream, once no member of the group has the pipe open. *)
ReaderEnds(p, s) ==
    /\ reader[p][s] = "reads" /\ pushing[p][s] = <<>>
    /\ ~GroupLives(p) /\ taken[p][s] = written[p][s]
    /\ reader' = [reader EXCEPT ![p][s] = "ended"]
    /\ UNCHANGED <<started, held, command, helper, written, taken, pushing, lines, shut,
                   reason, shown, running, gone>>

(***************************************************************************)
(* CliProcess                                                              *)
(***************************************************************************)

(* refresh, then the kill of the group, the reap and the close of the       *)
(* queue: a command that ended on its own is only recorded.                 *)
EndedAlone(p) == reason[p] = "exited" \/ command[p] = "exited"

\* Flawed: a stop leaves the queue open.
QueueLeftOpen(p) == shut[p]

QueueShut(p) == TRUE

StopProcess(p) ==
    IF EndedAlone(p)
    THEN /\ reason' = [reason EXCEPT ![p] = "exited"]
         /\ command' = [command EXCEPT ![p] = "reaped"]
         /\ UNCHANGED <<helper, shut>>
    ELSE /\ reason' = [reason EXCEPT ![p] = "killed"]
         /\ command' = [command EXCEPT ![p] = "reaped"]
         /\ helper' = [helper EXCEPT ![p] = FALSE]
         /\ shut' = [shut EXCEPT ![p] = QueueShut(p)]

StopHeld == IF held THEN StopProcess(started) ELSE UNCHANGED <<reason, command, helper, shut>>

(* start: a command that is empty, oversized or mangled is refused before    *)
(* the old process is touched ...                                           *)
StartRefused ==
    /\ ~gone /\ running' = FALSE
    /\ UNCHANGED <<started, held, command, helper, written, taken, reader, pushing, lines,
                   shut, reason, shown, gone>>

(* ... which is stopped first; the spawn is a step of its own and may not come. *)
StartFails ==
    /\ ~gone /\ StopHeld /\ held' = FALSE /\ running' = FALSE
    /\ UNCHANGED <<started, written, taken, reader, pushing, lines, shown, gone>>

StartSpawns ==
    /\ ~gone /\ ~held /\ started < Starts
    /\ started' = started + 1 /\ held' = TRUE /\ running' = TRUE
    /\ reader' = [reader EXCEPT ![started'] = [s \in Pipes |-> "reads"]]
    /\ command' = [command EXCEPT ![started'] = "runs"]
    /\ UNCHANGED <<helper, written, taken, pushing, lines, shut, reason, shown, gone>>

StopPressed ==
    /\ ~gone /\ running /\ StopHeld
    /\ held' = FALSE /\ running' = FALSE
    /\ UNCHANGED <<started, written, taken, reader, pushing, lines, shown, gone>>

ExitTree ==
    /\ ~gone /\ gone' = TRUE /\ StopHeld /\ held' = FALSE
    /\ UNCHANGED <<started, written, taken, reader, pushing, lines, shown, running>>

(***************************************************************************)
(* A frame of the pane                                                     *)
(***************************************************************************)

Trimmed(batch) == SubSeq(batch, Len(batch) - ViewLines + 1, Len(batch))

(* poll_lines, _append_lines *)
PollLines ==
    /\ ~gone /\ held /\ lines[started] # <<>>
    /\ shown' = LET all == shown \o lines[started]
                IN IF Len(all) > ViewLines THEN Trimmed(all) ELSE all
    /\ lines' = [lines EXCEPT ![started] = <<>>]
    /\ UNCHANGED <<started, held, command, helper, written, taken, reader, pushing, shut,
                   reason, running, gone>>

(* status_json: the command is reaped, and the label follows. *)
ReadStatusJson ==
    /\ ~gone /\ held
    /\ command' = [command EXCEPT ![started] = IF @ = "exited" THEN "reaped" ELSE @]
    /\ reason' = [reason EXCEPT ![started] =
                      IF command[started] = "exited" THEN "exited" ELSE @]
    /\ running' = (command[started] = "runs")
    /\ UNCHANGED <<started, held, helper, written, taken, reader, pushing, lines, shut,
                   shown, gone>>

ReaderStep(p, s) == ReadChunk(p, s) \/ PushLines(p, s) \/ ReaderEnds(p, s)

Readers == \E p \in Processes, s \in Pipes : ReaderStep(p, s)

CliNext ==
    \/ Readers
    \/ \E p \in Processes, s \in Pipes : WriteLine(p, s)
    \/ \E p \in Processes : CommandExits(p) \/ HelperExits(p)
    \/ StartRefused \/ StartFails \/ StartSpawns \/ StopPressed \/ ExitTree \/ PollLines \/ ReadStatusJson

CliSpec == CliInit /\ [][CliNext]_cliVars

(***************************************************************************)
(* What a CLI view promises                                                *)
(***************************************************************************)

\* Type correctness of a CLI view, its processes and their readers.
CliTypeOK ==
    /\ started \in 0..Starts
    /\ <<held, running, gone>> \in BOOLEAN \X BOOLEAN \X BOOLEAN
    /\ command \in [Processes -> {"none", "runs", "exited", "reaped"}]
    /\ helper \in [Processes -> BOOLEAN] /\ shut \in [Processes -> BOOLEAN]
    /\ written \in [Processes -> [Pipes -> 0..LinesWritten]]
    /\ taken \in [Processes -> [Pipes -> 0..LinesWritten]]
    /\ reader \in [Processes -> [Pipes -> {"none", "reads", "ended"}]]
    /\ reason \in [Processes -> {"none", "exited", "killed"}]
    /\ \A p \in Processes : Len(lines[p]) <= QueueLines
    /\ Len(shown) <= ViewLines

\* The lines of a pipe in a sequence are those after the first up to the last,
\* each of them once and in their order.
Spans(sequence, p, s, first, last) ==
    LET Mine == {i \in DOMAIN sequence : sequence[i][1] = p /\ sequence[i][2] = s}
    IN /\ {sequence[i][3] : i \in Mine} = first + 1 .. last
       /\ \A i, j \in Mine : i < j => sequence[i][3] < sequence[j][3]

\* While a pane holds a process no line of it is lost, doubled or overtaken by
\* a later line of its stream: what is shown, queued and read of a stream is the
\* last part of what was written to it, without a gap, however full the queue
\* gets; only lines older than the ring are missing.
OutputIsComplete ==
    held => \A s \in Pipes :
        \E first \in 0..taken[started][s] :
            /\ Spans(shown \o lines[started] \o pushing[started][s], started, s, first, taken[started][s])
            /\ Len(shown) < ViewLines => first = 0

\* A process the pane killed leaves no reader behind.
KilledReadersEnd ==
    LET Left == \E p \in Processes, s \in Pipes : reason[p] = "killed" /\ reader[p][s] # "ended"
    IN Left ~> ~Left

\* A full queue never stops a command for good: what it wrote is read while
\* the pane holds it.
WrittenIsRead ==
    (held /\ taken[started] # written[started]) ~> (~held \/ taken[started] = written[started])

=============================================================================
