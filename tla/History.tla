------------------------------ MODULE History ------------------------------
(***************************************************************************)
(* The persistent scrollback of one pane (crates/gpty-core/src/history.rs) *)
(* and its restore when the pane is reopened (crates/gpty-gdext/src/lib.rs).*)
(*                                                                         *)
(* Four actors share it: the terminal task pushes output lines and never   *)
(* blocks; the writer thread moves them in batches into SQLite and trims   *)
(* the table; the GUI thread flushes and drops the pane; and the operating *)
(* system may end the process between any two steps.  A step of the model  *)
(* is one critical section of the queue's mutex or one SQLite transaction. *)
(***************************************************************************)
EXTENDS Integers, FiniteSets, SequencesExt

CONSTANTS
  Texts,               \* what a line may hold: records [bytes, chars]
  Caps,                \* values of the history_lines setting
  RetainedBytesPerRow, \* RETAINED_BYTES_PER_ROW
  UncappedRowBudget,   \* UNCAPPED_ROW_BUDGET
  FlushRows,           \* FLUSH_ROWS
  Faults,              \* which of "append", "read", "spawn" may fail
  MaxLine              \* bound: the pane prints lines 1..MaxLine

ASSUME HistoryAssumption ==
  /\ Texts \subseteq [bytes : Nat, chars : Nat]
  /\ Caps \subseteq Nat \ {0}
  /\ RetainedBytesPerRow \in Nat \ {0}
  /\ UncappedRowBudget \in Nat \ {0}
  /\ FlushRows \in Nat \ {0}
  /\ Faults \subseteq {"append", "read", "spawn"}
  /\ MaxLine \in Nat

\* parser::MAX_LINE_LEN (16 KiB) is below the smallest byte cap (1 MiB).
ASSUME LineFitsWindow ==
  \A t \in Texts : t.bytes <= UncappedRowBudget * RetainedBytesPerRow

VARIABLES
  rows,      \* the pane's rows of the `lines` table
  pane,      \* "absent", "open" or "closing" (inside PaneHistory::drop)
  cap,       \* HistoryStore.cap of the open store
  lineCount, \* TermGrid.line_count: the number of the last stored line
  lines,     \* QueueInner.lines
  qbytes,    \* QueueInner.bytes
  pending,   \* QueueInner.pending
  closed,    \* QueueInner.closed
  batch,     \* the writer's batch
  writer,    \* where the writer thread is
  flush,     \* PaneHistory::flush: "none", "waiting", or what it returned
  restored   \* rows the last open fed back into the grid

queueVars == <<lines, qbytes, pending, closed>>
vars == <<rows, pane, cap, lineCount, queueVars, batch, writer, flush, restored>>

Line == [num : Nat, text : Texts]

WriterSteps == {"none", "take", "check", "retake", "wait", "append",
                "trimRows", "trimBytes", "account", "exited"}

-----------------------------------------------------------------------------
(* Sums over lines, and the retention window a store derives from its cap. *)

Bytes(q) == FoldLeft(LAMBDA sum, l : sum + l.text.bytes, 0, q)
Chars(table) == MapThenSumSet(LAMBDA l : l.text.chars, table)
Nums(table)  == {l.num : l \in table}
Highest(table) == Max(Nums(table) \cup {0})

\* HistoryStore::open: the byte cap a row cap implies.
ByteCap(c) == (IF c > UncappedRowBudget THEN c ELSE UncappedRowBudget)
                * RetainedBytesPerRow

\* Flawed: it drops one line too many once the queue is full.
FirstKeptTight(q, c, b) ==
  Min({k \in 1..Len(q) + 1 :
         \/ k = Len(q) + 1
         \/ /\ Len(q) - (k - 1) < c
            /\ b - Bytes(SubSeq(q, 1, k - 1)) <= ByteCap(c)})

\* LineQueue::push drops from the front until the rest fits the window or
\* nothing is left: the index of the first line it keeps.
FirstKept(q, c, b) ==
  Min({k \in 1..Len(q) + 1 :
         \/ k = Len(q) + 1
         \/ /\ Len(q) - (k - 1) <= c
            /\ b - Bytes(SubSeq(q, 1, k - 1)) <= ByteCap(c)})

TypeOK ==
  /\ rows \subseteq Line /\ restored \subseteq Line
  /\ lines \in Seq(Line) /\ batch \in Seq(Line)
  /\ pane \in {"absent", "open", "closing"}
  /\ cap \in Caps
  /\ lineCount \in Nat /\ qbytes \in Int /\ pending \in Nat
  /\ closed \in BOOLEAN
  /\ writer \in WriterSteps
  /\ flush \in {"none", "waiting", "committed", "timedOut"}

-----------------------------------------------------------------------------
(* Opening, dropping and losing the pane.                                  *)

\* The queue and the writer of a session that is not running.
NoSession ==
  /\ lines = <<>> /\ qbytes = 0 /\ pending = 0 /\ closed = FALSE
  /\ batch = <<>> /\ writer = "none" /\ flush = "none"

Init ==
  /\ rows = {} /\ pane = "absent" /\ cap \in Caps /\ lineCount = 0
  /\ restored = {}
  /\ NoSession

EndSession ==
  /\ pane' = "absent"
  /\ lines' = <<>> /\ qbytes' = 0 /\ pending' = 0 /\ closed' = FALSE
  /\ batch' = <<>> /\ writer' = "none" /\ flush' = "none"
  /\ lineCount' = 0 /\ restored' = {}
  /\ UNCHANGED <<rows, cap>>

\* The rows start_shell restores: get_lines(start, max), both ends included.
RestoredRows(c) ==
  LET max   == Highest(rows)
      start == IF max - c < 1 THEN 1 ELSE max - c
  IN  {r \in rows : r.num \in start..max}

\* The number the grid counts on from when the store is opened.
Unseeded(readOk)  == 0                                      \* flawed
FirstCount(readOk) == IF readOk THEN Highest(rows) ELSE 0

\* start_shell opens the store, reads its highest line number, seeds the
\* grid's counter with it and feeds the tail back.  When the read fails the
\* store is attached all the same, with the counter at 0.
Open(c, readOk, spawnOk) ==
  /\ pane = "absent"
  /\ readOk \/ "read" \in Faults
  /\ spawnOk \/ "spawn" \in Faults
  /\ pane' = "open" /\ cap' = c
  /\ lineCount' = FirstCount(readOk)
  /\ restored'  = IF readOk THEN RestoredRows(c) ELSE {}
  /\ writer'    = IF spawnOk THEN "take" ELSE "none"
  /\ UNCHANGED <<rows, queueVars, batch, flush>>

\* PaneHistory::drop: close the queue, then join the writer.  The last Arc is
\* gone, so no push and no flush is running or can start.
Drop ==
  /\ pane = "open" /\ flush # "waiting"
  /\ pane' = "closing" /\ closed' = TRUE
  /\ UNCHANGED <<rows, cap, lineCount, lines, qbytes, pending, batch, writer,
                 flush, restored>>

Joined ==
  /\ pane = "closing" /\ writer \in {"exited", "none"}
  /\ EndSession

\* The process ends without running destructors: only SQLite survives.
Kill ==
  /\ pane # "absent"
  /\ EndSession

\* prune_missing_panes, called from another pane while this one's key is in
\* no workspace.
PruneMissing ==
  /\ pane = "absent"
  /\ rows' = {}
  /\ UNCHANGED <<pane, cap, lineCount, queueVars, batch, writer, flush, restored>>

-----------------------------------------------------------------------------
(* The terminal task and the GUI thread.                                   *)

\* One more pending line, and one fewer for each line dropped.
PendingKeepsDropped(evicted) == pending + 1         \* flawed
PendingAfterPush(evicted)    == pending + 1 - evicted

\* TermGrid::store_line and LineQueue::push.
Push(t) ==
  LET l == [num |-> lineCount + 1, text |-> t]
      q == Append(lines, l)
      b == qbytes + t.bytes
      k == FirstKept(q, cap, b)
  IN  /\ pane = "open" /\ lineCount < MaxLine
      /\ lineCount' = lineCount + 1
      /\ lines'   = SubSeq(q, k, Len(q))
      /\ qbytes'  = b - Bytes(SubSeq(q, 1, k - 1))
      /\ pending' = PendingAfterPush(k - 1)
      /\ UNCHANGED <<rows, pane, cap, closed, batch, writer, flush, restored>>

StartFlush ==
  /\ pane = "open" /\ flush # "waiting"
  /\ flush' = "waiting"
  /\ UNCHANGED <<rows, pane, cap, lineCount, queueVars, batch, writer, restored>>

\* LineQueue::wait_committed: no line pending, or FLUSH_ACK_TIMEOUT.
FlushReturns ==
  /\ flush = "waiting"
  /\ flush' = IF pending > 0 THEN "timedOut" ELSE "committed"
  /\ UNCHANGED <<rows, pane, cap, lineCount, queueVars, batch, writer, restored>>

-----------------------------------------------------------------------------
(* The writer thread.                                                      *)

\* LineQueue::take leaves nothing counted in the queue.
BytesAfterTake == 0

TakeLines ==
  /\ batch' = batch \o lines
  /\ lines' = <<>> /\ qbytes' = BytesAfterTake
  /\ UNCHANGED <<rows, pane, cap, lineCount, pending, closed, flush, restored>>

Take ==
  /\ writer = "take"
  /\ TakeLines
  /\ writer' = IF Len(batch') >= FlushRows THEN "append"
               ELSE IF batch' = <<>> THEN "check" ELSE "wait"

\* Closure is terminal only once a fresh take is empty.
LeaveAtOnce == IF closed THEN "exited" ELSE "wait"   \* flawed
AfterCheck  == IF closed THEN "retake" ELSE "wait"

CheckClosed ==
  /\ writer = "check"
  /\ writer' = AfterCheck
  /\ UNCHANGED <<rows, pane, cap, lineCount, queueVars, batch, flush, restored>>

NeverLeave  == "wait"                                       \* flawed
AfterRetake == IF batch' = <<>> THEN "exited" ELSE "wait"

Retake ==
  /\ writer = "retake"
  /\ TakeLines
  /\ writer' = AfterRetake

\* LineQueue::wait: lines are waiting, or the queue closed, or FLUSH_INTERVAL
\* passed with nothing new.
AfterWait == IF lines # <<>> \/ batch = <<>> THEN "take" ELSE "append"

Wait ==
  /\ writer = "wait"
  /\ writer' = AfterWait
  /\ UNCHANGED <<rows, pane, cap, lineCount, queueVars, batch, flush, restored>>

\* append_batch: one transaction, all of the batch or none of it.
AppendBatch ==
  /\ writer = "append"
  /\ \/ rows' = rows \cup ToSet(batch)
     \/ "append" \in Faults /\ rows' = rows
  /\ writer' = "trimRows"
  /\ UNCHANGED <<pane, cap, lineCount, queueVars, batch, flush, restored>>

\* enforce_cap, first statement: the newest `cap` line numbers stay.
TrimRows ==
  /\ writer = "trimRows"
  /\ rows' = {r \in rows : r.num > Highest(rows) - cap}
  /\ writer' = "trimBytes"
  /\ UNCHANGED <<pane, cap, lineCount, queueVars, batch, flush, restored>>

\* The line number the byte trim deletes up to: the MIN over the lines whose
\* running total, summed from the newest backwards, is over the cap.
Cutoff ==
  Min({n \in Nums(rows) :
         Chars({r \in rows : r.num >= n}) > ByteCap(cap)})

\* enforce_cap, second statement.
TrimBytes ==
  /\ writer = "trimBytes"
  /\ rows' = IF Chars(rows) > ByteCap(cap)
               THEN {r \in rows : r.num > Cutoff} ELSE rows
  /\ writer' = "account"
  /\ UNCHANGED <<pane, cap, lineCount, queueVars, batch, flush, restored>>

\* LineQueue::flushed: the batch is accounted for whether or not it was written.
Account ==
  /\ writer = "account"
  /\ pending' = IF Len(batch) > pending THEN 0 ELSE pending - Len(batch)
  /\ batch' = <<>>
  /\ writer' = "take"
  /\ UNCHANGED <<rows, pane, cap, lineCount, lines, qbytes, closed, flush, restored>>

Writer == \/ Take \/ CheckClosed \/ Retake \/ Wait
          \/ AppendBatch \/ TrimRows \/ TrimBytes \/ Account

Next ==
  \/ \E c \in Caps, readOk, spawnOk \in BOOLEAN : Open(c, readOk, spawnOk)
  \/ Drop \/ Joined \/ Kill \/ PruneMissing
  \/ \E t \in Texts : Push(t)
  \/ StartFlush \/ FlushReturns
  \/ Writer

Spec == Init /\ [][Next]_vars

-----------------------------------------------------------------------------
(* Properties.                                                             *)

\* PENDING is exact: the lines a flush waits for are those in the queue and
\* those the writer holds, so a flush can neither return early nor hang on a
\* line nobody will write (push and its eviction, take, flushed).
PendingIsExact == pending = Len(lines) + Len(batch)

\* The writer thread ends only after the close, with nothing left to commit: a
\* line pushed just before the drop is not abandoned in the queue.
WriterExitsDrained == writer = "exited" => closed /\ pending = 0

\* Line numbers only grow: a reopened pane continues after the highest stored
\* line (seed_line_count), so a fresh row never takes the number of a stored
\* one and `line_num` order stays print order, across drops, kills and trims.
NumbersGrow == [][\A r \in rows' \ rows : r.num > Highest(rows)]_vars

\* A clean end keeps the tail: when a flush reports that everything is
\* committed, and when the writer exits after a drop, the last line the pane
\* printed is in the store.
TailKept ==
  (flush' = "committed" /\ flush = "waiting") \/ (writer' = "exited" /\ writer # "exited")
    => Highest(rows) = lineCount

\* What the queue drops under a flood is older than what the store retains:
\* the store holds each of the newest `cap` lines up to its highest (lines
\* short enough that only the row cap binds).
NoGapInWindow ==
  \A n \in 1..Highest(rows) : n > Highest(rows) - cap => n \in Nums(rows)

\* After a commit the store holds no more text than its byte cap.
StoreWithinByteCap == writer = "account" => Chars(rows) <= ByteCap(cap)

\* Dropping a pane returns: the writer notices the close, commits what it
\* holds and exits.
DropReturns == (pane = "closing") ~> (pane = "absent")

\* What is queued is settled even if the pane goes quiet and whether or not
\* its batch can be written, as long as the pane has a writer.
LinesReachTheStore == (pending > 0 /\ writer # "none") ~> (pending = 0)

\* The writer settles what it owes: the queued lines, and the drop that waits
\* for it.
WriterSettles == LinesReachTheStore /\ DropReturns
=============================================================================
