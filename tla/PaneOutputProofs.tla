-------------------------- MODULE PaneOutputProofs --------------------------
(***************************************************************************)
(* What becomes of a pane's output, for any number of lines and chunks and *)
(* any size of the caps and queues: the pending count of the scrollback    *)
(* queue is exact and its line numbers only grow; eviction opens no hole   *)
(* in the window the store retains, and the last line is stored when the   *)
(* writer says so; no chunk is lost or copied by the terminal task and the *)
(* closing of its pane, and every capture is routed once.                  *)
(***************************************************************************)
EXTENDS MCPaneOutput, FoldProofs, SequenceTheorems, TLAPS

\* A non-empty set of naturals has a least element, which Min returns.
LEMMA MinOfNats ==
  ASSUME NEW S \in SUBSET Nat, S # {}
  PROVE  /\ Min(S) \in S
         /\ \A y \in S : Min(S) <= y
BY LeastOfNats DEF Min

\* Eviction keeps a suffix of the queue: the index of the first line kept is
\* between 1 and one past the end, so at most every queued line is dropped
\* (LineQueue::push).
LEMMA FirstKeptRange ==
  ASSUME NEW q \in Seq(Line), NEW c, NEW b
  PROVE  FirstKept(q, c, b) \in 1..Len(q) + 1
<1> DEFINE S == {k \in 1..Len(q) + 1 :
         \/ k = Len(q) + 1
         \/ /\ Len(q) - (k - 1) <= c
            /\ b - Bytes(SubSeq(q, 1, k - 1)) <= ByteCap(c)}
<1>1. Len(q) + 1 \in S
  OBVIOUS
<1>2. S \in SUBSET Nat /\ S # {}
  BY <1>1
<1>3. Min(S) \in S
  BY <1>2, MinOfNats
<1>4. QED
  BY <1>3 DEF FirstKept
-----------------------------------------------------------------------------
(* The inductive invariant: the types of the state the count and the line  *)
(* numbers depend on, the exact count, and what each writer step knows of  *)
(* the batch and of the close.                                             *)

Types ==
  /\ rows \subseteq Line /\ \A r \in rows : r.num <= MaxLine
  /\ lines \in Seq(Line) /\ batch \in Seq(Line)
  /\ lineCount \in 0..MaxLine
  /\ pane \in {"absent", "open", "closing"}
  /\ closed \in BOOLEAN
  /\ writer \in WriterSteps

\* Lines never carry a number past the counter.
QueueBounded ==
  /\ \A i \in DOMAIN lines : lines[i].num <= MaxLine
  /\ \A i \in DOMAIN batch : batch[i].num <= MaxLine

\* Between sessions there is no queue and no writer.
SessionOver == pane = "absent" => writer = "none" /\ batch = <<>>

\* closed() is true only inside drop, when nothing can be pushed any more.
ClosedMeansClosing == closed <=> pane = "closing"

\* The batch is empty when the writer looks at the closed flag, and a writer
\* that has seen it set finds it set ever after.
WriterKnows ==
  /\ writer \in {"none", "check", "retake", "exited"} => batch = <<>>
  /\ writer \in {"retake", "exited"} => closed
  /\ writer = "exited" => lines = <<>>

Inv == /\ Types /\ QueueBounded /\ PendingIsExact
       /\ SessionOver /\ ClosedMeansClosing /\ WriterKnows

\* The highest of a bounded set of line numbers is one of them, or 0.
LEMMA HighestOfRows ==
  ASSUME rows \subseteq Line, \A r \in rows : r.num <= MaxLine
  PROVE  /\ Highest(rows) \in 0..MaxLine
         /\ Highest(rows) \in Nums(rows) \cup {0}
         /\ \A r \in rows : r.num <= Highest(rows)
<1> DEFINE N == Nums(rows) \cup {0}
           D == {MaxLine - n : n \in N}
<1>1. N \subseteq 0..MaxLine /\ 0 \in N
  BY HistoryAssumption DEF Nums, Line
<1>2. D \in SUBSET Nat /\ D # {}
  BY <1>1, HistoryAssumption
<1>3. PICK d \in D : \A y \in D : d <= y
  BY <1>2, MinOfNats
<1>4. PICK x \in N : d = MaxLine - x
  OBVIOUS
<1>5. \A y \in N : x >= y
  <2>1. SUFFICES ASSUME NEW y \in N PROVE x >= y
    OBVIOUS
  <2>2. MaxLine - y \in D
    OBVIOUS
  <2>3. MaxLine - x <= MaxLine - y
    BY <1>3, <1>4, <2>2
  <2>4. QED
    BY <1>1, <2>3, HistoryAssumption
<1>6. Max(N) \in N /\ \A y \in N : Max(N) >= y
  BY <1>5 DEF Max
<1>7. QED
  BY <1>1, <1>6, HistoryAssumption DEF Highest, Nums, Line

\* An empty queue and an empty batch.
LEMMA EmptyLines ==
  /\ <<>> \in Seq(Line) /\ Len(<<>>) = 0 /\ DOMAIN <<>> = {}
BY DEF Line

\* Initially no session is open and nothing is stored.
LEMMA InitInv == Init => Inv
<1> SUFFICES ASSUME Init PROVE Inv
  OBVIOUS
<1>1. QueueBounded
  BY EmptyLines DEF Init, NoSession, QueueBounded
<1>2. lineCount \in 0..MaxLine
  BY HistoryAssumption DEF Init
<1>3. Types
  BY EmptyLines, <1>2, Zenon DEF Init, NoSession, Types, WriterSteps
<1>4. PendingIsExact
  BY EmptyLines DEF Init, NoSession, PendingIsExact
<1>5. SessionOver /\ ClosedMeansClosing /\ WriterKnows
  BY DEF Init, NoSession, SessionOver, ClosedMeansClosing, WriterKnows
<1>6. QED
  BY <1>1, <1>3, <1>4, <1>5 DEF Inv

\* Dropping lines from the front of the queue and counting the new one keeps
\* the count exact (LineQueue::push).
LEMMA PushInv ==
  ASSUME Inv, NEW t \in Texts, Push(t)
  PROVE  Inv'
<1> DEFINE l == [num |-> lineCount + 1, text |-> t]
           q == Append(lines, l)
           k == FirstKept(q, cap, qbytes + t.bytes)
<1>1. l \in Line /\ q \in Seq(Line) /\ Len(q) = Len(lines) + 1
  BY DEF Inv, Types, Line
<1>2. k \in 1..Len(q) + 1
  BY <1>1, FirstKeptRange
<1>3. lines' = SubSeq(q, k, Len(q)) /\ pending' = pending + 1 - (k - 1)
  BY Zenon DEF Push, PendingAfterPush
<1>4. lines' \in Seq(Line) /\ Len(lines') = Len(q) - (k - 1)
  BY <1>1, <1>2, <1>3
<1>5. \A i \in DOMAIN lines' : lines'[i] = q[i + k - 1] /\ i + k - 1 \in DOMAIN q
  <2>1. \A i \in 1..Len(lines') : lines'[i] = q[i + k - 1] /\ i + k - 1 \in 1..Len(q)
    BY <1>1, <1>2, <1>3, <1>4
  <2>2. QED
    BY <1>1, <1>4, <2>1
<1>6. \A i \in DOMAIN q : q[i].num <= MaxLine
  <2>1. lineCount + 1 <= MaxLine
    BY HistoryAssumption DEF Push, PendingAfterPush, Inv, Types
  <2>2. QED
    BY <1>1, <2>1 DEF Inv, Types, QueueBounded
<1>7. /\ lineCount < MaxLine /\ lineCount' = lineCount + 1 /\ pane = "open"
      /\ UNCHANGED <<rows, pane, closed, batch, writer>>
  BY DEF Push, PendingAfterPush
<1>8. lineCount' \in 0..MaxLine
  BY <1>7, HistoryAssumption DEF Inv, Types
<1>9. Types'
  BY <1>4, <1>7, <1>8, Zenon DEF Inv, Types
<1>10. QueueBounded'
  BY <1>5, <1>6, <1>7 DEF Inv, Types, QueueBounded
<1>11. PendingIsExact'
  BY <1>1, <1>2, <1>3, <1>4, <1>7 DEF Inv, Types, PendingIsExact
<1>12. SessionOver' /\ ClosedMeansClosing' /\ WriterKnows'
  BY <1>7 DEF Inv, SessionOver, ClosedMeansClosing, WriterKnows
<1>13. QED
  BY <1>9, <1>10, <1>11, <1>12 DEF Inv

\* What the writer takes is what leaves the queue.
LEMMA TakenInv ==
  ASSUME Inv, batch' = batch \o lines, lines' = <<>>,
         UNCHANGED <<rows, pane, lineCount, pending, closed>>
  PROVE  /\ batch' \in Seq(Line) /\ lines' \in Seq(Line)
         /\ QueueBounded' /\ PendingIsExact'
         /\ (batch' = <<>> => lines = <<>> /\ batch = <<>>)
BY DEF Inv, Types, QueueBounded, PendingIsExact

\* Every step of the writer's loop (spawn_writer).
LEMMA WriterInv ==
  ASSUME Inv, Writer
  PROVE  Inv'
<1>1. CASE Take
  BY <1>1, TakenInv DEF Take, TakeLines, BytesAfterTake, Inv, Types, SessionOver, ClosedMeansClosing, WriterKnows, WriterSteps
<1>2. CASE CheckClosed
  BY <1>2 DEF CheckClosed, AfterCheck, queueVars, Inv, Types, QueueBounded, PendingIsExact,
     SessionOver, ClosedMeansClosing, WriterKnows, WriterSteps
<1>3. CASE Retake
  BY <1>3, TakenInv DEF Retake, TakeLines, BytesAfterTake, AfterRetake, Inv, Types, SessionOver, ClosedMeansClosing, WriterKnows, WriterSteps
<1>4. CASE Wait
  BY <1>4 DEF Wait, AfterWait, queueVars, Inv, Types, QueueBounded, PendingIsExact,
     SessionOver, ClosedMeansClosing, WriterKnows, WriterSteps
<1>5. CASE AppendBatch
  <2>1. rows' \subseteq Line /\ \A r \in rows' : r.num <= MaxLine
    BY <1>5 DEF AppendBatch, ToSet, Inv, Types, QueueBounded
  <2>2. QED
    BY <1>5, <2>1 DEF AppendBatch, queueVars, Inv, Types, QueueBounded, PendingIsExact,
       SessionOver, ClosedMeansClosing, WriterKnows, WriterSteps
<1>6. CASE TrimRows
  BY <1>6 DEF TrimRows, queueVars, Inv, Types, QueueBounded, PendingIsExact,
     SessionOver, ClosedMeansClosing, WriterKnows, WriterSteps
<1>7. CASE TrimBytes
  BY <1>7 DEF TrimBytes, queueVars, Inv, Types, QueueBounded, PendingIsExact,
     SessionOver, ClosedMeansClosing, WriterKnows, WriterSteps
<1>8. CASE Account
  BY <1>8 DEF Account, Inv, Types, QueueBounded, PendingIsExact,
     SessionOver, ClosedMeansClosing, WriterKnows, WriterSteps
<1>9. QED
  BY <1>1, <1>2, <1>3, <1>4, <1>5, <1>6, <1>7, <1>8 DEF Writer

\* The session ends: the writer is joined, or the process dies.
LEMMA EndSessionInv ==
  ASSUME Inv, EndSession
  PROVE  Inv'
<1> 0 \in 0..MaxLine
  BY HistoryAssumption
<1>1. Types'
  BY EmptyLines, Zenon DEF EndSession, Inv, Types, WriterSteps
<1> QueueBounded'
  BY EmptyLines DEF EndSession, QueueBounded
<1>2. PendingIsExact'
  BY EmptyLines DEF EndSession, PendingIsExact
<1>3. SessionOver' /\ ClosedMeansClosing' /\ WriterKnows'
  BY DEF EndSession, SessionOver, ClosedMeansClosing, WriterKnows
<1>4. QED
  BY <1>1, <1>2, <1>3 DEF Inv

\* One case per action of the pane, its writer and the sweep of missing panes.
LEMMA NextInv == Inv /\ [Next]_vars => Inv'
<1> SUFFICES ASSUME Inv, [Next]_vars PROVE Inv'
  OBVIOUS
<1>1. ASSUME NEW c \in Caps, NEW readOk \in BOOLEAN, NEW spawnOk \in BOOLEAN,
             Open(c, readOk, spawnOk)
      PROVE  Inv'
  <2>1. Highest(rows) \in 0..MaxLine
    BY HighestOfRows DEF Inv, Types
  <2>2. lineCount' \in 0..MaxLine
    BY <1>1, <2>1, HistoryAssumption DEF Open, FirstCount
  <2>3. Types' /\ QueueBounded'
    BY <1>1, <2>2 DEF Open, queueVars, Inv, Types, QueueBounded, WriterSteps
  <2>4. ~closed /\ batch = <<>> /\ UNCHANGED <<closed, batch, lines, pending>>
    <3>1. ~closed
      BY <1>1 DEF Open, Inv, ClosedMeansClosing, Types
    <3>2. QED
      BY <1>1, <3>1 DEF Open, queueVars, Inv, SessionOver
  <2>5. QED
    BY <1>1, <2>3, <2>4 DEF Open, Inv, PendingIsExact, SessionOver, ClosedMeansClosing, WriterKnows
<1>2. CASE Drop
  BY <1>2 DEF Drop, Inv, Types, QueueBounded, PendingIsExact, SessionOver, ClosedMeansClosing, WriterKnows
<1>3. CASE Joined \/ Kill
  BY <1>3, EndSessionInv DEF Joined, Kill
<1>4. CASE PruneMissing
  BY <1>4 DEF PruneMissing, queueVars, Inv, Types, QueueBounded, PendingIsExact,
     SessionOver, ClosedMeansClosing, WriterKnows
<1>5. ASSUME NEW t \in Texts, Push(t) PROVE Inv'
  BY <1>5, PushInv
<1>6. CASE StartFlush \/ FlushReturns
  <2>1. UNCHANGED <<rows, pane, lineCount, lines, pending, closed, batch, writer>>
    BY <1>6, Zenon DEF StartFlush, FlushReturns, queueVars
  <2>2. QED
    BY <2>1 DEF Inv, Types, QueueBounded, PendingIsExact, SessionOver,
       ClosedMeansClosing, WriterKnows
<1>7. CASE Writer
  BY <1>7, WriterInv
<1>8. CASE UNCHANGED vars
  BY <1>8 DEF vars, queueVars, Inv, Types, QueueBounded, PendingIsExact,
     SessionOver, ClosedMeansClosing, WriterKnows
<1>9. QED
  BY <1>1, <1>2, <1>3, <1>4, <1>5, <1>6, <1>7, <1>8 DEF Next

\* The count a flush waits on is exact, whatever the caps, the batch size, the
\* faults and the output (LineQueue::push, take, flushed).
THEOREM PendingCorrect == Spec => []PendingIsExact
<1>1. Inv => PendingIsExact
  BY DEF Inv
<1>2. QED
  BY InitInv, NextInv, <1>1, PTL DEF Spec

\* The writer never exits while a line is queued or held (spawn_writer's fresh
\* take after the close).
THEOREM ExitCorrect == Spec => []WriterExitsDrained
<1>1. Inv => WriterExitsDrained
  BY DEF Inv, WriterKnows, PendingIsExact, WriterExitsDrained
<1>2. QED
  BY InitInv, NextInv, <1>1, PTL DEF Spec
-----------------------------------------------------------------------------
(* Line numbers.  What waits in the queue is younger than what the writer    *)
(* holds, and both are younger than what is stored, until a batch is stored. *)

NotYetStored == {"none", "take", "check", "retake", "wait", "append", "exited"}

NumInv ==
  /\ pane = "absent" => lines = <<>> /\ batch = <<>>
  /\ pane # "absent" => \A r \in rows : r.num <= lineCount
  /\ \A i \in DOMAIN lines : 1 <= lines[i].num /\ lines[i].num <= lineCount
  /\ \A i \in DOMAIN batch : 1 <= batch[i].num /\ batch[i].num <= lineCount
  /\ \A i \in DOMAIN batch, j \in DOMAIN lines : batch[i].num < lines[j].num
  /\ \A r \in rows, j \in DOMAIN lines : r.num < lines[j].num
  /\ writer \in NotYetStored =>
       \A r \in rows, i \in DOMAIN batch : r.num < batch[i].num

\* The lines of a queue carry numbers.
LEMMA NumsOfLines ==
  ASSUME NEW q \in Seq(Line), NEW i \in DOMAIN q
  PROVE  q[i].num \in Nat
<1>1. q[i] \in Line
  OBVIOUS
<1>2. QED
  BY <1>1 DEF Line

\* Initially nothing is numbered.
LEMMA NumInit == Init => NumInv
<1> SUFFICES ASSUME Init PROVE NumInv
  OBVIOUS
<1>1. rows = {} /\ lines = <<>> /\ batch = <<>> /\ pane = "absent"
  BY DEF Init, NoSession
<1>2. QED
  BY <1>1, EmptyLines DEF NumInv

\* A pushed line takes the next number, and eviction only shortens the queue.
LEMMA PushNum ==
  ASSUME Inv, NumInv, NEW t \in Texts, Push(t)
  PROVE  NumInv'
<1> DEFINE l == [num |-> lineCount + 1, text |-> t]
           q == Append(lines, l)
           k == FirstKept(q, cap, qbytes + t.bytes)
<1>1. l \in Line /\ q \in Seq(Line) /\ Len(q) = Len(lines) + 1 /\ lineCount \in Nat
  BY HistoryAssumption DEF Inv, Types, Line
<1>2. k \in 1..Len(q) + 1
  BY <1>1, FirstKeptRange
<1>3. lines' = SubSeq(q, k, Len(q))
  BY Zenon DEF Push
<1>4. /\ lineCount' = lineCount + 1 /\ pane = "open"
      /\ UNCHANGED <<rows, pane, batch, writer>>
  BY DEF Push
<1>5. \A j \in DOMAIN lines' : lines'[j] = q[j + k - 1] /\ j + k - 1 \in 1..Len(q)
  BY <1>1, <1>2, <1>3
<1>6. \A j \in 1..Len(q) : q[j].num = lineCount + 1 \/ (j \in DOMAIN lines /\ q[j] = lines[j])
  BY <1>1 DEF Inv, Types
<1> HIDE DEF l, q, k
<1>7. \A j \in DOMAIN lines' : \/ lines'[j].num = lineCount + 1
                                \/ \E i \in DOMAIN lines : lines'[j] = lines[i]
  BY <1>5, <1>6
<1>8. \A r \in rows : r.num \in Nat
  BY DEF Inv, Types, Line
<1>9. /\ \A i \in DOMAIN batch : batch[i].num \in Nat
      /\ \A i \in DOMAIN lines : lines[i].num \in Nat
  BY NumsOfLines DEF Inv, Types
<1>10. \A j \in DOMAIN lines' : 1 <= lines'[j].num /\ lines'[j].num <= lineCount'
  BY <1>1, <1>4, <1>7, <1>9 DEF NumInv
<1>11. /\ \A i \in DOMAIN batch', j \in DOMAIN lines' : batch'[i].num < lines'[j].num
       /\ \A i \in DOMAIN batch' : 1 <= batch'[i].num /\ batch'[i].num <= lineCount'
  BY <1>1, <1>4, <1>7, <1>9 DEF NumInv
<1>12. /\ \A r \in rows', j \in DOMAIN lines' : r.num < lines'[j].num
       /\ \A r \in rows' : r.num <= lineCount'
  BY <1>1, <1>4, <1>7, <1>8 DEF NumInv
<1>13. QED
  BY <1>4, <1>10, <1>11, <1>12 DEF NumInv

\* The writer takes the queue behind what it holds.
LEMMA TakeNum ==
  ASSUME Inv, NumInv, Take \/ Retake
  PROVE  NumInv'
<1>1. /\ batch' = batch \o lines /\ lines' = <<>>
      /\ UNCHANGED <<rows, pane, lineCount>> /\ writer \in NotYetStored
  BY DEF Take, Retake, TakeLines, NotYetStored
<1>2. lines \in Seq(Line) /\ batch \in Seq(Line)
  BY DEF Inv, Types
<1>3. \A i \in DOMAIN batch' : \/ (i \in DOMAIN batch /\ batch'[i] = batch[i])
                               \/ \E j \in DOMAIN lines : batch'[i] = lines[j]
  BY <1>1, <1>2
<1>4. DOMAIN lines' = {}
  BY <1>1, EmptyLines
<1>5. pane' = "absent" => lines' = <<>> /\ batch' = <<>>
  BY <1>1, <1>2 DEF NumInv
<1>6. QED
  BY <1>1, <1>3, <1>4, <1>5 DEF NumInv

\* The other steps of the writer.
LEMMA WriterNum ==
  ASSUME Inv, NumInv, Writer
  PROVE  NumInv'
<1>1. CASE Take \/ Retake
  BY <1>1, TakeNum
<1>2. CASE CheckClosed \/ Wait
  <2>1. /\ UNCHANGED <<rows, pane, lineCount, lines, batch>>
        /\ writer \in NotYetStored
    BY <1>2 DEF CheckClosed, Wait, queueVars, NotYetStored
  <2>2. QED
    BY <2>1 DEF NumInv
<1>3. CASE AppendBatch
  <2>1. rows' \subseteq rows \cup ToSet(batch) /\ writer' \notin NotYetStored
    BY <1>3 DEF AppendBatch, NotYetStored
  <2>2. UNCHANGED <<pane, lineCount, lines, batch>>
    BY <1>3 DEF AppendBatch, queueVars
  <2>3. \A r \in rows' : r \in rows \/ \E i \in DOMAIN batch : r = batch[i]
    BY <2>1 DEF ToSet
  <2>4. QED
    BY <2>1, <2>2, <2>3 DEF NumInv
<1>4. CASE TrimRows \/ TrimBytes
  <2>1. rows' \subseteq rows /\ writer' \notin NotYetStored
    BY <1>4 DEF TrimRows, TrimBytes, NotYetStored
  <2>2. UNCHANGED <<pane, lineCount, lines, batch>>
    BY <1>4 DEF TrimRows, TrimBytes, queueVars
  <2>3. QED
    BY <2>1, <2>2 DEF NumInv
<1>5. CASE Account
  <2>1. UNCHANGED <<rows, pane, lineCount, lines>> /\ batch' = <<>>
    BY <1>5 DEF Account
  <2>2. QED
    BY <2>1, EmptyLines DEF NumInv
<1>6. QED
  BY <1>1, <1>2, <1>3, <1>4, <1>5 DEF Writer

\* Where the highest number can be read on every open, each step keeps the
\* order of the numbers.
LEMMA NextNum ==
  ASSUME "read" \notin Faults
  PROVE  Inv /\ NumInv /\ [Next]_vars => NumInv'
<1> SUFFICES ASSUME Inv, NumInv, [Next]_vars PROVE NumInv'
  OBVIOUS
<1>1. ASSUME NEW c \in Caps, NEW readOk \in BOOLEAN, NEW spawnOk \in BOOLEAN,
             Open(c, readOk, spawnOk)
      PROVE  NumInv'
  <2>1. /\ lineCount' = Highest(rows) /\ UNCHANGED <<rows, lines, batch>>
        /\ lines = <<>> /\ batch = <<>> /\ pane' = "open"
    BY <1>1 DEF Open, FirstCount, queueVars, NumInv
  <2>2. \A r \in rows : r.num <= Highest(rows)
    BY HighestOfRows DEF Inv, Types
  <2>3. QED
    BY <2>1, <2>2, EmptyLines DEF NumInv
<1>2. CASE Joined \/ Kill
  <2>1. lines' = <<>> /\ batch' = <<>> /\ pane' = "absent"
    BY <1>2 DEF Joined, Kill, EndSession
  <2>2. QED
    BY <2>1, EmptyLines DEF NumInv
<1>3. CASE PruneMissing
  <2>1. rows' = {} /\ UNCHANGED <<pane, lineCount, lines, batch>>
    BY <1>3 DEF PruneMissing, queueVars
  <2>2. QED
    BY <2>1 DEF NumInv
<1>4. ASSUME NEW t \in Texts, Push(t) PROVE NumInv'
  BY <1>4, PushNum
<1>5. CASE Drop
  <2>1. pane = "open" /\ pane' = "closing" /\ UNCHANGED <<rows, lineCount, lines, batch, writer>>
    BY <1>5 DEF Drop
  <2>2. QED
    BY <2>1 DEF NumInv
<1>6. CASE StartFlush \/ FlushReturns \/ UNCHANGED vars
  <2>1. UNCHANGED <<rows, pane, lineCount, lines, batch, writer>>
    BY <1>6, Zenon DEF StartFlush, FlushReturns, vars, queueVars
  <2>2. QED
    BY <2>1 DEF NumInv
<1>7. CASE Writer
  BY <1>7, WriterNum
<1>8. QED
  BY <1>1, <1>2, <1>3, <1>4, <1>5, <1>6, <1>7 DEF Next

\* Only a commit stores new rows, and each is younger than any stored one.
LEMMA FreshRows ==
  Inv /\ NumInv /\ [Next]_vars => \A r \in rows' \ rows : r.num > Highest(rows)
<1> SUFFICES ASSUME Inv, NumInv, [Next]_vars, NEW r \in rows', r \notin rows
             PROVE  r.num > Highest(rows)
  OBVIOUS
<1>1. AppendBatch
  <2>1. ASSUME NEW c \in Caps, NEW readOk \in BOOLEAN, NEW spawnOk \in BOOLEAN
        PROVE  ~Open(c, readOk, spawnOk)
    BY DEF Open
  <2>2. ~(Drop \/ Joined \/ Kill \/ PruneMissing \/ StartFlush \/ FlushReturns)
    BY DEF Drop, Joined, Kill, EndSession, PruneMissing, StartFlush, FlushReturns
  <2>3. ASSUME NEW t \in Texts PROVE ~Push(t)
    BY Zenon DEF Push
  <2>4. ~(Take \/ CheckClosed \/ Retake \/ Wait \/ TrimRows \/ TrimBytes \/ Account)
    BY DEF Take, CheckClosed, Retake, TakeLines, Wait, TrimRows, TrimBytes, Account
  <2>5. ~UNCHANGED vars
    BY DEF vars
  <2>6. QED
    BY <2>1, <2>2, <2>3, <2>4, <2>5 DEF Next, Writer
<1>2. PICK i \in DOMAIN batch : r = batch[i]
  BY <1>1 DEF AppendBatch, ToSet
<1>3. /\ \A s \in rows : s.num < r.num
      /\ 1 <= r.num
  BY <1>1, <1>2 DEF NumInv, AppendBatch, NotYetStored
<1>4. Highest(rows) \in Nums(rows) \cup {0} /\ Highest(rows) \in 0..MaxLine
  BY HighestOfRows DEF Inv, Types
<1>5. r.num \in Nat
  BY <1>2, NumsOfLines DEF Inv, Types
<1>6. CASE Highest(rows) = 0
  BY <1>3, <1>5, <1>6
<1>7. CASE Highest(rows) \in Nums(rows)
  <2>1. PICK s \in rows : Highest(rows) = s.num
    BY <1>7 DEF Nums
  <2>2. s.num < r.num /\ s.num \in Nat
    BY <1>3, <2>1 DEF Inv, Types, Line
  <2>3. QED
    BY <1>5, <2>1, <2>2
<1>8. QED
  BY <1>4, <1>6, <1>7

\* Across drops, kills, evictions and trims a stored number is never given to
\* a fresh line, as long as the highest one can be read when the store opens
\* (seed_line_count).
THEOREM NumbersOnlyGrow ==
  ASSUME "read" \notin Faults
  PROVE  Spec => NumbersGrow
<1>1. Inv /\ NumInv /\ [Next]_vars => NumInv'
  BY NextNum
<1>2. QED
  BY InitInv, NextInv, NumInit, <1>1, FreshRows, PTL DEF Spec, NumbersGrow

-----------------------------------------------------------------------------
(* The captures. *)

\* The part of the types the rest depends on.
Places ==
  /\ taken \in Nat /\ nextId \in Nat
  /\ active \in BOOLEAN
  /\ content \in [Ids -> SUBSET Nat]
  /\ raw \in [Ids -> {"none", "held", "evicted", "used"}]
  /\ task \in {"select", "feeding", "matching", "reaping", "ended"}
  /\ InHand \subseteq 1..taken

\* A capture in flight has an id of its own; no other has content yet.
FreshIds ==
  /\ active => nextId < Captures
  /\ \A id \in Ids : id >= nextId => content[id] = {}

\* Nothing is buffered without a capture.
BufferIsOwned == active \/ buffer = {}

CaptureInv == Places /\ FreshIds /\ BufferIsOwned /\ EveryChunkInOnePlace

\* Nothing is taken and nothing captured at first.
LEMMA CaptureInitInv == CaptureInit => CaptureInv
<1> SUFFICES ASSUME CaptureInit PROVE CaptureInv
  OBVIOUS
<1> USE BoundsAssumption DEF CaptureInit
<1>1. Places BY DEF Places, InHand
<1>2. FreshIds /\ BufferIsOwned BY DEF FreshIds, BufferIsOwned
<1>3. Captured = {} BY DEF Captured
<1>4. InHand = {} /\ 1..taken = {} BY DEF InHand
<1>5. EveryChunkInOnePlace BY <1>3, <1>4 DEF EveryChunkInOnePlace
<1> QED BY <1>1, <1>2, <1>5 DEF CaptureInv

\* Publishing moves the chunks of the capture in flight, and those only.
LEMMA PublishContent ==
  ASSUME CaptureInv, active, NEW chunks \in SUBSET Nat, NEW to, Publish(chunks, to)
  PROVE  /\ nextId \in Ids /\ nextId' = nextId + 1 /\ nextId' \in Nat
         /\ content' \in [Ids -> SUBSET Nat]
         /\ content'[nextId] = chunks /\ content[nextId] = {}
         /\ \A id \in Ids : id # nextId => content'[id] = content[id]
         /\ Captured' = Captured \cup chunks
         /\ buffer' = {}
         /\ raw' \in [Ids -> {"none", "held", "evicted", "used"}]
<1> USE BoundsAssumption DEF CaptureInv, Places, FreshIds, Ids
<1>1. nextId \in Ids OBVIOUS
<1>2. content' = [content EXCEPT ![nextId] = chunks] BY DEF Publish
<1>3. content' \in [Ids -> SUBSET Nat] BY <1>1, <1>2
<1>4. content'[nextId] = chunks /\ content[nextId] = {} BY <1>1, <1>2
<1>5. \A id \in Ids : id # nextId => content'[id] = content[id] BY <1>1, <1>2
<1>6. Captured' = Captured \cup chunks
  <2> HIDE DEF Ids
  <2>1. ASSUME NEW n PROVE n \in Captured' <=> \E id \in Ids : n \in content'[id]
    BY DEF Captured, Ids
  <2>2. ASSUME NEW n PROVE n \in Captured <=> \E id \in Ids : n \in content[id]
    BY DEF Captured
  <2>3. ASSUME NEW n
        PROVE  (\E id \in Ids : n \in content'[id])
                 <=> (\E id \in Ids : n \in content[id]) \/ n \in chunks
    BY <1>1, <1>4, <1>5
  <2> QED BY <2>1, <2>2, <2>3
<1>7. nextId' = nextId + 1 /\ buffer' = {} BY DEF Publish, NextId, RestOfBuffer
<1>8. raw' \in [Ids -> {"none", "held", "evicted", "used"}]
  BY DEF Publish
<1> QED BY <1>1, <1>3, <1>4, <1>5, <1>6, <1>7, <1>8

\* So a capture that ends, with the chunk in hand or without it, keeps the
\* invariant, whether another begins at once or not.
LEMMA PublishInv ==
  ASSUME CaptureInv, active, NEW to, NEW extra \in SUBSET InHand,
         Publish(buffer \cup extra, to),
         active' \in BOOLEAN, active' => nextId + 1 < Captures,
         task' \in {"select", "feeding", "matching", "reaping", "ended"},
         InHand' = InHand \ extra,
         UNCHANGED <<taken, shown, dropped>>
  PROVE  CaptureInv'
<1> USE DEF CaptureInv
<1>1. /\ extra \subseteq 1..taken /\ InHand \subseteq 1..taken
      /\ (1..taken) \ InHand = shown \cup dropped \cup buffer \cup Captured
  BY DEF EveryChunkInOnePlace, Places
<1>2. buffer \cup extra \in SUBSET Nat
  <2>1. 1..taken \subseteq Nat BY DEF Places
  <2> QED BY <1>1, <2>1
<1>3. /\ nextId \in Ids /\ nextId' = nextId + 1 /\ nextId' \in Nat
      /\ content' \in [Ids -> SUBSET Nat]
      /\ content'[nextId] = buffer \cup extra /\ content[nextId] = {}
      /\ \A id \in Ids : id # nextId => content'[id] = content[id]
      /\ Captured' = Captured \cup buffer \cup extra
      /\ buffer' = {}
      /\ raw' \in [Ids -> {"none", "held", "evicted", "used"}]
  BY <1>2, PublishContent
<1>4. Places' BY <1>1, <1>3 DEF Places
<1>5. FreshIds' BY <1>3 DEF FreshIds, Ids, Places
<1>6. BufferIsOwned' BY <1>3 DEF BufferIsOwned
<1>7. extra \cap (shown \cup dropped \cup buffer \cup Captured) = {}
  BY <1>1
<1>8. (1..taken)' \ InHand' = shown' \cup dropped' \cup buffer' \cup Captured'
  BY <1>1, <1>3
<1>9. \A id \in Ids : content[id] \subseteq Captured
  BY DEF Captured
<1>10. \A id, other \in Ids : id # other => content'[id] \cap content'[other] = {}
  BY <1>3, <1>7, <1>9 DEF EveryChunkInOnePlace
<1>11. dropped' \cap (shown' \cup Captured') = {}
  BY <1>3, <1>7 DEF EveryChunkInOnePlace
<1>12. EveryChunkInOnePlace'
  BY <1>3, <1>8, <1>10, <1>11 DEF EveryChunkInOnePlace
<1> QED BY <1>4, <1>5, <1>6, <1>12

\* A step that moves no chunk and ends no capture keeps it.
LEMMA QuietInv ==
  ASSUME CaptureInv, UNCHANGED <<taken, nextId, content, buffer, shown, dropped>>,
         InHand' = InHand, active' \in BOOLEAN,
         active' => nextId < Captures, active => active',
         raw' \in [Ids -> {"none", "held", "evicted", "used"}],
         task' \in {"select", "feeding", "matching", "reaping", "ended"}
  PROVE  CaptureInv'
<1> USE DEF CaptureInv
<1>1. Places' BY DEF Places
<1>2. FreshIds' /\ BufferIsOwned' BY DEF FreshIds, BufferIsOwned
<1>3. Captured' = Captured BY DEF Captured
<1>4. EveryChunkInOnePlace' BY <1>3 DEF EveryChunkInOnePlace
<1> QED BY <1>1, <1>2, <1>4

\* finalize and finalize_to, from the task where it awaits or from the drop.
LEMMA EndInv ==
  ASSUME CaptureInv, NEW to, FinalizeIfActive(to), UNCHANGED <<taken, shown, dropped>>,
         InHand' = InHand, task' \in {"select", "feeding", "matching", "reaping", "ended"}
  PROVE  CaptureInv'
<1>1. CASE active
  <2>1. Publish(buffer \cup {}, to) /\ active' = FALSE
    BY <1>1 DEF FinalizeIfActive, Finalize
  <2> QED BY <1>1, <2>1, PublishInv
<1>2. CASE ~active
  BY <1>2, QuietInv DEF FinalizeIfActive, CaptureInv, Places, FreshIds
<1> QED BY <1>1, <1>2

\* A chunk arrives.
LEMMA TakeInv == ASSUME CaptureInv, TakeOutput PROVE CaptureInv'
<1> USE DEF CaptureInv, TakeOutput, sessionVars
<1>1. InHand = {} /\ InHand' = {taken'} BY DEF InHand
<1>2. Places' BY <1>1 DEF Places
<1>3. FreshIds' /\ BufferIsOwned' BY DEF FreshIds, BufferIsOwned
<1>4. Captured' = Captured BY DEF Captured
<1>5. (1..taken') \ {taken'} = 1..taken BY DEF Places
<1>6. EveryChunkInOnePlace' BY <1>1, <1>4, <1>5 DEF EveryChunkInOnePlace
<1> QED BY <1>2, <1>3, <1>6

\* A chunk for the capture.
LEMMA FeedInv == ASSUME CaptureInv, Feed PROVE CaptureInv'
<1>1. task = "feeding" /\ InHand = {taken} /\ InHand' = {} /\ task' = "select" /\ taken' = taken
  BY DEF Feed, InHand, ioVars
<1>2. /\ taken \in 1..taken /\ 1..taken \subseteq Nat
      /\ (1..taken) \ {taken} = shown \cup dropped \cup buffer \cup Captured
  BY <1>1 DEF CaptureInv, Places, EveryChunkInOnePlace
<1>3. CASE dropped' = dropped \cup {taken} /\ UNCHANGED <<shown, sessionVars>>
  <2> USE <1>3 DEF CaptureInv, sessionVars
  <2>1. Places' BY <1>1 DEF Places
  <2>2. FreshIds' /\ BufferIsOwned' BY DEF FreshIds, BufferIsOwned
  <2>3. Captured' = Captured BY DEF Captured
  <2>4. EveryChunkInOnePlace' BY <1>1, <1>2, <2>3 DEF EveryChunkInOnePlace
  <2> QED BY <2>1, <2>2, <2>4
<1>4. CASE /\ active /\ buffer' = buffer \cup {taken}
           /\ UNCHANGED <<shown, dropped, active, nextId, content, raw>>
  <2> USE <1>4 DEF CaptureInv
  <2>1. Places' BY <1>1 DEF Places
  <2>2. FreshIds' /\ BufferIsOwned' BY DEF FreshIds, BufferIsOwned
  <2>3. Captured' = Captured BY DEF Captured
  <2>4. EveryChunkInOnePlace' BY <1>1, <1>2, <2>3 DEF EveryChunkInOnePlace
  <2> QED BY <2>1, <2>2, <2>4
<1>5. CASE active /\ Finalize(buffer \cup {taken}, sink) /\ UNCHANGED <<shown, dropped>>
  BY <1>1, <1>5, PublishInv DEF Finalize
<1> QED BY <1>3, <1>4, <1>5 DEF Feed, sessionVars

\* A chunk for the grid.
LEMMA MatchInv == ASSUME CaptureInv, Match PROVE CaptureInv'
<1> USE DEF CaptureInv
<1>1. task = "matching" /\ InHand = {taken} /\ InHand' = {} /\ task' = "select" /\ taken' = taken
  BY DEF Match, InHand, ioVars
<1>2. /\ taken \in 1..taken /\ 1..taken \subseteq Nat
      /\ (1..taken) \ {taken} = shown \cup dropped \cup buffer \cup Captured
  BY <1>1 DEF Places, EveryChunkInOnePlace
<1>3. /\ shown' = shown \cup {taken}
      /\ UNCHANGED <<dropped, buffer, nextId, content, raw>>
      /\ active' \in BOOLEAN /\ (active => active')
      /\ (active' => nextId < Captures)
  <2>1. CASE Begin BY <2>1 DEF Match, Begin, CanBegin
  <2>2. CASE UNCHANGED <<armed, sessionVars>>
    BY <2>2 DEF Match, sessionVars, Places, FreshIds
  <2> QED BY <2>1, <2>2 DEF Match
<1>4. Places' BY <1>1, <1>3 DEF Places
<1>5. FreshIds' /\ BufferIsOwned' BY <1>3 DEF FreshIds, BufferIsOwned
<1>6. Captured' = Captured BY <1>3 DEF Captured
<1>7. EveryChunkInOnePlace' BY <1>1, <1>2, <1>3, <1>6 DEF EveryChunkInOnePlace
<1> QED BY <1>4, <1>5, <1>7

\* A replay shows chunks of a finished capture, which are nowhere else.
LEMMA CommandInv == ASSUME CaptureInv, Command PROVE CaptureInv'
<1> USE DEF CaptureInv
<1>1. /\ UNCHANGED <<taken, task, nextId, content, active, buffer, dropped>>
      /\ shown \subseteq shown' /\ shown' \subseteq shown \cup Captured
  <2>1. UNCHANGED <<taken, task, nextId, content, active, buffer, dropped>>
    BY DEF Command, ioVars
  <2>2. CASE UNCHANGED shown BY <2>1, <2>2
  <2>3. ASSUME NEW id \in Ids, shown' = shown \cup content[id] PROVE shown' \subseteq shown \cup Captured
    BY <2>3 DEF Captured
  <2>4. shown' = shown \/ \E id \in Ids : shown' = shown \cup content[id]
    BY DEF Command, Held
  <2> QED BY <2>1, <2>2, <2>3, <2>4
<1>2. raw' \in [Ids -> {"none", "held", "evicted", "used"}]
  BY DEF Command, Places
<1>3. InHand' = InHand /\ Captured' = Captured BY <1>1 DEF InHand, Captured
<1>4. Places' BY <1>1, <1>2, <1>3 DEF Places
<1>5. FreshIds' /\ BufferIsOwned' BY <1>1 DEF FreshIds, BufferIsOwned
<1>6. EveryChunkInOnePlace' BY <1>1, <1>3 DEF EveryChunkInOnePlace
<1> QED BY <1>4, <1>5, <1>6

-----------------------------------------------------------------------------
\* Every step keeps the invariant.
LEMMA CaptureStep == CaptureInv /\ [CaptureNext]_captureVars => CaptureInv'
<1> SUFFICES ASSUME CaptureInv, [CaptureNext]_captureVars PROVE CaptureInv'
  OBVIOUS
<1> USE DEF ioVars, sessionVars
<1>1. active \in BOOLEAN /\ (active => nextId < Captures)
      /\ raw \in [Ids -> {"none", "held", "evicted", "used"}]
      /\ task \in {"select", "feeding", "matching", "reaping", "ended"}
  BY DEF CaptureInv, Places, FreshIds
<1>2. CASE Write \/ ChildExits \/ Resize \/ RepaintOver \/ Close
  BY <1>1, <1>2, QuietInv DEF Write, ChildExits, Resize, RepaintOver, Close, InHand
<1>3. CASE Poll \/ PollOrphans \/ CarryOver
  <2>1. UNCHANGED <<taken, nextId, content, buffer, shown, dropped, active, raw, task>>
    <3>1. CASE Poll BY <3>1, Zenon DEF Poll
    <3>2. CASE PollOrphans BY <3>2, Zenon DEF PollOrphans
    <3>3. CASE CarryOver BY <3>3, Zenon DEF CarryOver
    <3> QED BY <1>3, <3>1, <3>2, <3>3
  <2> QED BY <1>1, <2>1, QuietInv DEF InHand
<1>4. CASE Reap \/ Aborted
  BY <1>1, <1>4, QuietInv DEF Reap, Aborted, InHand
<1>5. CASE TakeOutput BY <1>5, TakeInv
<1>6. CASE Feed BY <1>6, FeedInv
<1>7. CASE Match BY <1>7, MatchInv
<1>8. CASE Command BY <1>8, CommandInv
<1>9. CASE TimeOut
  BY <1>1, <1>9, EndInv DEF TimeOut, InHand
<1>10. CASE LoopEnds
  BY <1>1, <1>10, EndInv DEF LoopEnds, AtExit, InHand
<1>11. CASE FinalizeOrphan
  BY <1>1, <1>11, EndInv DEF FinalizeOrphan, InHand
<1>12. CASE Input
  <2>1. UNCHANGED <<taken, shown, dropped, task>> /\ InHand = {} /\ InHand' = InHand \ {}
    BY <1>12 DEF Input, InHand
  <2>2. CASE active /\ Finalize(buffer, sink)
    <3>1. Publish(buffer \cup {}, sink) /\ active' = FALSE BY <2>2 DEF Finalize
    <3> QED BY <1>1, <2>1, <2>2, <3>1, PublishInv
  <2>3. CASE active /\ NextId < Captures /\ Publish(buffer, sink) /\ active' = TRUE
    <3>1. Publish(buffer \cup {}, sink) BY <2>3
    <3>2. nextId + 1 < Captures BY <2>3 DEF NextId
    <3> QED BY <1>1, <2>1, <2>3, <3>1, <3>2, PublishInv
  <2>4. CASE ~active /\ Begin
    BY <1>1, <2>1, <2>4, QuietInv DEF Begin, CanBegin
  <2> QED BY <1>12, <2>2, <2>3, <2>4 DEF Input
<1>13. CASE UNCHANGED captureVars
  BY <1>1, <1>13, QuietInv DEF captureVars, InHand
<1> QED BY <1>2, <1>3, <1>4, <1>5, <1>6, <1>7, <1>8, <1>9, <1>10, <1>11, <1>12, <1>13 DEF CaptureNext

\* Every chunk the task has taken is on the grid, in one capture or dropped
\* for a repaint, however the task, the GUI and the drop of the pane
\* interleave.
THEOREM ChunksStayInOnePlace == CaptureSpec => []EveryChunkInOnePlace
<1>1. CaptureInit => CaptureInv BY CaptureInitInv
<1>2. CaptureInv /\ [CaptureNext]_captureVars => CaptureInv' BY CaptureStep
<1>3. CaptureInv => EveryChunkInOnePlace BY DEF CaptureInv
<1> QED BY <1>1, <1>2, <1>3, PTL DEF CaptureSpec

-----------------------------------------------------------------------------
(* The events of the captures. *)

\* No event is queued twice.
Once(q) == \A i, j \in DOMAIN q : q[i] = q[j] => i = j

\* A flush is asked for a capture that found no receiver.
OnlyTheMissedAreFlushed ==
  \A i \in DOMAIN commands : Replays(commands[i]) => outcome[commands[i][2]] = "missed"

QueueTypes ==
  /\ queue \in Seq(Ids) /\ orphans \in Seq(Ids)
  /\ outcome \in [Ids -> {"pending", "received", "missed", "evicted"}]
  /\ commands \in Seq({"flush", "acknowledge"} \X Ids)

\* What is queued has not been routed, nor has what is still to be published.
QueuedArePending ==
  /\ Once(queue) /\ Once(orphans) /\ Elements(queue) \cap Elements(orphans) = {}
  /\ \A id \in Elements(queue) \cup Elements(orphans) : id < nextId /\ outcome[id] = "pending"
  /\ \A id \in Ids : id >= nextId => outcome[id] = "pending"

RouteInv == QueueTypes /\ QueuedArePending /\ OnlyTheMissedAreFlushed /\ RoutedOutputStaysOff

\* The queue drops its oldest event for the new one, if it must (push_bounded).
LEMMA BoundedKeepsOnce ==
  ASSUME NEW q \in Seq(Ids), NEW id \in Ids, Once(q), id \notin Elements(q)
  PROVE  /\ Bounded(q, id) \in Seq(Ids) /\ Once(Bounded(q, id))
         /\ Elements(Bounded(q, id)) \subseteq Elements(q) \cup {id}
         /\ Elements(Bounded(q, id)) \cap DroppedBy(q) = {}
         /\ DroppedBy(q) \subseteq Elements(q)
<1> USE BoundsAssumption DEF Once, Elements
<1> HIDE DEF Ids
<1>1. CASE Len(q) >= MaxBuffered
  <2>1. q # <<>> BY <1>1
  <2>2. /\ Tail(q) \in Seq(Ids) /\ Len(Tail(q)) = Len(q) - 1
        /\ \A i \in 1..Len(q)-1 : Tail(q)[i] = q[i+1]
    BY <2>1
  <2>3. Bounded(q, id) = Append(Tail(q), id) /\ DroppedBy(q) = {q[1]}
    BY <1>1, <2>1 DEF Bounded, DroppedBy
  <2>4. /\ Append(Tail(q), id) \in Seq(Ids) /\ Len(Append(Tail(q), id)) = Len(q)
        /\ \A i \in 1..Len(q)-1 : Append(Tail(q), id)[i] = q[i+1]
        /\ Append(Tail(q), id)[Len(q)] = id
    BY <2>1, <2>2
  <2> DEFINE b == Append(Tail(q), id)
  <2>5. DOMAIN b = 1..Len(q) /\ DOMAIN q = 1..Len(q) /\ Len(q) \in Nat BY <2>4
  <2> HIDE DEF b
  <2>6. b \in Seq(Ids) /\ b[Len(q)] = id /\ \A i \in 1..Len(q)-1 : b[i] = q[i+1]
    BY <2>4 DEF b
  <2>7. \A i \in 1..Len(q)-1 : i + 1 \in DOMAIN q /\ q[i+1] # id
    BY <2>5
  <2>8. Once(b) BY SMTT(30), <2>5, <2>6, <2>7
  <2>9. \A x \in Elements(b) : (x \in Elements(q) \/ x = id) /\ x # q[1]
    <3> SUFFICES ASSUME NEW i \in 1..Len(q)
                 PROVE (b[i] \in Elements(q) \/ b[i] = id) /\ b[i] # q[1]
      BY <2>5
    <3>1. 1 \in DOMAIN q /\ q[1] # id BY <2>1, <2>5
    <3>2. CASE i = Len(q) BY <3>1, <3>2, <2>6
    <3>3. CASE i \in 1..Len(q)-1
      <4>1. i + 1 \in DOMAIN q /\ 1 \in DOMAIN q /\ i + 1 # 1 BY <3>1, <3>3, <2>7
      <4>2. b[i] = q[i+1] BY <3>3, <2>6
      <4> QED BY <4>1, <4>2
    <3>4. i = Len(q) \/ i \in 1..Len(q)-1
      <4>1. Len(q) \in Nat /\ i \in Int /\ 1 <= i /\ i <= Len(q) BY <2>5
      <4>2. i = Len(q) \/ i <= Len(q) - 1 BY <4>1
      <4> QED BY <4>1, <4>2
    <3> QED BY <3>2, <3>3, <3>4
  <2>10. q[1] \in Elements(q) BY <2>1, <2>5
  <2> QED BY <2>3, <2>6, <2>8, <2>9, <2>10 DEF b
<1>2. CASE ~ (Len(q) >= MaxBuffered)
  <2>1. Bounded(q, id) = Append(q, id) /\ DroppedBy(q) = {}
    BY <1>2 DEF Bounded, DroppedBy
  <2>2. /\ Append(q, id) \in Seq(Ids) /\ Len(Append(q, id)) = Len(q) + 1
        /\ \A i \in 1..Len(q) : Append(q, id)[i] = q[i]
        /\ Append(q, id)[Len(q) + 1] = id
        /\ Len(q) \in Nat /\ DOMAIN q = 1..Len(q)
    OBVIOUS
  <2> DEFINE b == Append(q, id)
  <2>3. DOMAIN b = 1..Len(q)+1 BY <2>2
  <2> HIDE DEF b
  <2>4. b \in Seq(Ids) /\ b[Len(q) + 1] = id /\ \A i \in 1..Len(q) : b[i] = q[i] /\ q[i] # id
    BY <2>2 DEF b
  <2>5. Once(b) BY <2>2, <2>3, <2>4
  <2>6. \A x \in Elements(b) : x \in Elements(q) \/ x = id BY <2>2, <2>3, <2>4
  <2> QED BY <2>1, <2>4, <2>5, <2>6 DEF b
<1> QED BY <1>1, <1>2

\* Two queues with nothing in common, one behind the other.
LEMMA JoinedStayOnce ==
  ASSUME NEW p \in Seq(Ids), NEW q \in Seq(Ids), Once(p), Once(q),
         Elements(p) \cap Elements(q) = {}
  PROVE  /\ p \o q \in Seq(Ids) /\ Once(p \o q)
         /\ Elements(p \o q) = Elements(p) \cup Elements(q)
<1> USE DEF Once, Elements
<1> HIDE DEF Ids
<1> DEFINE b == p \o q
<1>1. /\ b \in Seq(Ids) /\ DOMAIN b = 1..Len(p)+Len(q)
      /\ \A i \in 1..Len(p)+Len(q) : b[i] = IF i <= Len(p) THEN p[i] ELSE q[i - Len(p)]
      /\ Len(p) \in Nat /\ Len(q) \in Nat /\ DOMAIN p = 1..Len(p) /\ DOMAIN q = 1..Len(q)
  OBVIOUS
<1> HIDE DEF b
<1>2. \A i \in 1..Len(p) : b[i] = p[i] BY <1>1
<1>3. \A i \in 1..Len(q) : b[Len(p) + i] = q[i] BY SMTT(30), <1>1
<1>4. ASSUME NEW i \in 1..Len(p), NEW j \in 1..Len(q) PROVE p[i] # q[j]
  <2>1. p[i] \in Elements(p) /\ q[j] \in Elements(q) BY <1>1
  <2> HIDE DEF Elements
  <2> QED BY <2>1
<1>5. ASSUME NEW i \in DOMAIN b
      PROVE  i \in 1..Len(p) \/ \E j \in 1..Len(q) : i = Len(p) + j
  <2>1. CASE i <= Len(p) BY <1>1, <2>1
  <2>2. CASE i > Len(p)
    <3>1. i - Len(p) \in 1..Len(q) /\ i = Len(p) + (i - Len(p)) BY <1>1, <2>2
    <3> QED BY <3>1
  <2> QED BY <1>1, <2>1, <2>2
<1>6. Once(b) 
  <2> SUFFICES ASSUME NEW i \in DOMAIN b, NEW j \in DOMAIN b, b[i] = b[j] PROVE i = j
    OBVIOUS
  <2>1. CASE i \in 1..Len(p) /\ j \in 1..Len(p)
    BY <1>1, <1>2, <2>1
  <2>2. CASE i \in 1..Len(p) /\ \E l \in 1..Len(q) : j = Len(p) + l
    BY SMTT(30), <1>2, <1>3, <1>4, <2>2
  <2>3. CASE j \in 1..Len(p) /\ \E l \in 1..Len(q) : i = Len(p) + l
    BY <1>2, <1>3, <1>4, <2>3
  <2>4. ASSUME NEW k \in 1..Len(q), NEW l \in 1..Len(q), i = Len(p) + k, j = Len(p) + l PROVE i = j
    <3>1. q[k] = q[l] BY <1>3, <2>4
    <3>2. k = l BY <1>1, <3>1
    <3> QED BY <2>4, <3>2
  <2> QED BY <1>5, <2>1, <2>2, <2>3, <2>4
<1>7. \A x \in Elements(b) : x \in Elements(p) \/ x \in Elements(q)
  <2> SUFFICES ASSUME NEW i \in DOMAIN b PROVE b[i] \in Elements(p) \/ b[i] \in Elements(q)
    OBVIOUS
  <2>1. CASE i \in 1..Len(p) BY <1>1, <1>2, <2>1
  <2>2. ASSUME NEW j \in 1..Len(q), i = Len(p) + j PROVE b[i] \in Elements(q)
    BY <1>1, <1>3, <2>2
  <2> QED BY <1>5, <2>1, <2>2
<1>8. \A x \in Elements(p) : x \in Elements(b) BY <1>1, <1>2
<1>9. \A x \in Elements(q) : x \in Elements(b)
  <2> SUFFICES ASSUME NEW j \in 1..Len(q) PROVE q[j] \in Elements(b)
    BY <1>1
  <2>1. Len(p) + j \in DOMAIN b BY <1>1
  <2> QED BY <1>3, <2>1
<1> QED BY <1>1, <1>6, <1>7, <1>8, <1>9 DEF b

\* What is left of a queue that had to drop its oldest.
LEMMA SuffixStaysOnce ==
  ASSUME NEW q \in Seq(Ids), Once(q), NEW n \in Nat, n <= Len(q)
  PROVE  LET kept == SubSeq(q, n + 1, Len(q)) IN
         kept \in Seq(Ids) /\ Once(kept) /\ Elements(kept) \subseteq Elements(q)
<1> USE DEF Once, Elements
<1> HIDE DEF Ids
<1> DEFINE b == SubSeq(q, n + 1, Len(q))
<1>1. /\ b \in Seq(Ids) /\ DOMAIN b = 1..Len(q)-n
      /\ \A i \in 1..Len(q)-n : b[i] = q[n + i]
      /\ Len(q) \in Nat /\ DOMAIN q = 1..Len(q)
  OBVIOUS
<1> HIDE DEF b
<1>2. \A i \in 1..Len(q)-n : n + i \in DOMAIN q BY <1>1
<1>3. Once(b)
  <2> SUFFICES ASSUME NEW i \in DOMAIN b, NEW j \in DOMAIN b, b[i] = b[j] PROVE i = j
    OBVIOUS
  <2>1. q[n + i] = q[n + j] /\ n + i \in DOMAIN q /\ n + j \in DOMAIN q BY <1>1, <1>2
  <2>2. n + i = n + j BY <2>1
  <2>3. i \in Int /\ j \in Int BY <1>1
  <2> HIDE DEF Once, Elements
  <2> QED BY <2>2, <2>3
<1>4. Elements(b) \subseteq Elements(q)
  <2> SUFFICES ASSUME NEW i \in DOMAIN b PROVE b[i] \in Elements(q)
    OBVIOUS
  <2> QED BY SMTT(30), <1>1, <1>2
<1> QED BY <1>1, <1>3, <1>4 DEF b

\* Nothing is queued and nothing shown at first.
LEMMA RouteInitInv == CaptureInit => RouteInv
<1> SUFFICES ASSUME CaptureInit PROVE RouteInv
  OBVIOUS
<1> USE BoundsAssumption DEF CaptureInit
<1>1. queue = <<>> /\ orphans = <<>> /\ commands = <<>> /\ Elements(<<>>) = {}
  BY DEF Elements
<1>2. QueueTypes BY <1>1 DEF QueueTypes
<1>3. QueuedArePending BY <1>1 DEF QueuedArePending, Once
<1>4. OnlyTheMissedAreFlushed BY <1>1 DEF OnlyTheMissedAreFlushed
<1>5. RoutedOutputStaysOff BY DEF RoutedOutputStaysOff
<1> QED BY <1>2, <1>3, <1>4, <1>5 DEF RouteInv

\* A step that routes nothing and shows no captured chunk.
LEMMA StillRoute ==
  ASSUME RouteInv, UNCHANGED <<queue, orphans, nextId, content, commands, outcome>>,
         shown' \cap Captured \subseteq shown
  PROVE  RouteInv'
<1> USE DEF RouteInv
<1>1. QueueTypes' BY DEF QueueTypes
<1>2. QueuedArePending' BY DEF QueuedArePending, Once, Elements
<1>3. OnlyTheMissedAreFlushed' BY DEF OnlyTheMissedAreFlushed
<1>4. \A id \in Ids : content[id] \subseteq Captured BY DEF Captured
<1>5. RoutedOutputStaysOff' BY <1>4 DEF RoutedOutputStaysOff
<1> QED BY <1>1, <1>2, <1>3, <1>5

\* A finished capture goes behind the others, and what falls out of the queue
\* has been neither routed nor shown.
LEMMA PublishRoute ==
  ASSUME CaptureInv, RouteInv, active, NEW chunks \in SUBSET Nat, NEW to, Publish(chunks, to),
         chunks \cap shown = {}, UNCHANGED <<shown, commands>>
  PROVE  RouteInv'
<1> DEFINE q == IF to = "pane" THEN queue ELSE orphans
<1>1. /\ nextId \in Ids /\ nextId' = nextId + 1 /\ nextId \in Int
      /\ content'[nextId] = chunks
      /\ \A id \in Ids : id # nextId => content'[id] = content[id]
  <2>1. nextId \in Int BY DEF CaptureInv, Places
  <2>2. /\ nextId \in Ids /\ nextId' = nextId + 1
        /\ content'[nextId] = chunks
        /\ \A id \in Ids : id # nextId => content'[id] = content[id]
    BY PublishContent
  <2> QED BY <2>1, <2>2
<1>2. /\ queue \in Seq(Ids) /\ orphans \in Seq(Ids) /\ Once(queue) /\ Once(orphans)
      /\ Elements(queue) \cap Elements(orphans) = {}
      /\ \A id \in Elements(queue) \cup Elements(orphans) : id < nextId /\ outcome[id] = "pending"
      /\ \A id \in Ids : id >= nextId => outcome[id] = "pending"
      /\ outcome \in [Ids -> {"pending", "received", "missed", "evicted"}]
  BY DEF RouteInv, QueueTypes, QueuedArePending
<1>3. nextId \notin Elements(queue) /\ nextId \notin Elements(orphans) BY <1>1, <1>2
<1>4. /\ Bounded(q, nextId) \in Seq(Ids) /\ Once(Bounded(q, nextId))
      /\ Elements(Bounded(q, nextId)) \subseteq Elements(q) \cup {nextId}
      /\ Elements(Bounded(q, nextId)) \cap DroppedBy(q) = {}
      /\ DroppedBy(q) \subseteq Elements(q)
  BY <1>1, <1>2, <1>3, BoundedKeepsOnce
<1>5. outcome' = [id \in Ids |-> IF id \in DroppedBy(q) THEN "evicted" ELSE outcome[id]]
  BY DEF Publish
<1>6. /\ to = "pane" => queue' = Bounded(q, nextId) /\ orphans' = orphans
      /\ to # "pane" => orphans' = Bounded(q, nextId) /\ queue' = queue
  BY DEF Publish
<1>7. q = IF to = "pane" THEN queue ELSE orphans
  OBVIOUS
<1> HIDE DEF q
<1>8. /\ queue' \in Seq(Ids) /\ orphans' \in Seq(Ids) /\ Once(queue') /\ Once(orphans')
      /\ Elements(queue') \cap Elements(orphans') = {}
      /\ Elements(queue') \cup Elements(orphans')
           \subseteq (Elements(queue) \cup Elements(orphans) \cup {nextId}) \ DroppedBy(q)
  <2>1. CASE to = "pane"
    <3>1. queue' = Bounded(q, nextId) /\ orphans' = orphans /\ q = queue BY <2>1, <1>6, <1>7
    <3> QED BY <3>1, <1>2, <1>3, <1>4
  <2>2. CASE to # "pane"
    <3>1. orphans' = Bounded(q, nextId) /\ queue' = queue /\ q = orphans BY <2>2, <1>6, <1>7
    <3> QED BY <3>1, <1>2, <1>3, <1>4
  <2> QED BY <2>1, <2>2
<1>9. DroppedBy(q) \subseteq Elements(queue) \cup Elements(orphans) BY <1>4, <1>7
<1>10. QueueTypes'
  <2>1. outcome' \in [Ids -> {"pending", "received", "missed", "evicted"}] BY <1>2, <1>5
  <2> QED BY <1>8, <2>1 DEF RouteInv, QueueTypes
<1>11. QueuedArePending'
  <2>1. \A id \in Elements(queue') \cup Elements(orphans') : id \in Ids
    BY <1>8 DEF Elements
  <2>2. ASSUME NEW id \in Elements(queue') \cup Elements(orphans')
        PROVE  id < nextId' /\ outcome'[id] = "pending"
    <3>1. id \in Ids /\ id \in Int /\ id \notin DroppedBy(q) BY <1>8, <2>1 DEF Ids
    <3>2. CASE id = nextId BY <1>1, <1>2, <1>5, <3>1, <3>2
    <3>3. CASE id \in Elements(queue) \cup Elements(orphans)
      <4>1. id < nextId /\ outcome[id] = "pending" BY <1>2, <3>3
      <4> QED BY <1>1, <1>5, <3>1, <4>1
    <3> QED BY <1>8, <3>2, <3>3
  <2>3. ASSUME NEW id \in Ids, id >= nextId' PROVE outcome'[id] = "pending"
    <3>1. id \in Int /\ id > nextId BY <1>1, <2>3 DEF Ids
    <3>2. id \notin DroppedBy(q)
      <4>1. id \notin Elements(queue) \cup Elements(orphans) BY <1>2, <3>1, <1>1
      <4> QED BY <4>1, <1>9
    <3> QED BY <1>1, <1>2, <1>5, <3>1, <3>2
  <2>4. (Once(queue))' /\ (Once(orphans))' BY <1>8 DEF Once
  <2> QED BY <1>8, <2>2, <2>3, <2>4 DEF QueuedArePending, Once, Elements
<1>12. \A id \in Ids : outcome[id] = "missed" => outcome'[id] = "missed"
  BY <1>2, <1>5, <1>9
<1>13. OnlyTheMissedAreFlushed'
  <2>1. \A i \in DOMAIN commands : commands[i][2] \in Ids BY DEF RouteInv, QueueTypes
  <2> QED BY <1>12, <2>1 DEF RouteInv, OnlyTheMissedAreFlushed
<1>14. RoutedOutputStaysOff'
  BY <1>1, <1>12 DEF RouteInv, RoutedOutputStaysOff
<1> QED BY <1>10, <1>11, <1>13, <1>14 DEF RouteInv

\* finalize and finalize_to.
LEMMA EndRoute ==
  ASSUME CaptureInv, RouteInv, NEW to, FinalizeIfActive(to), UNCHANGED <<shown, commands>>
  PROVE  RouteInv'
<1>1. CASE active
  <2>1. Publish(buffer, to) BY <1>1 DEF FinalizeIfActive, Finalize
  <2>2. buffer \in SUBSET Nat /\ buffer \cap shown = {}
    <3>1. buffer \subseteq 1..taken \/ buffer \subseteq Nat
      BY DEF CaptureInv, EveryChunkInOnePlace
    <3>2. 1..taken \subseteq Nat BY DEF CaptureInv, Places
    <3> QED BY <3>1, <3>2 DEF CaptureInv, EveryChunkInOnePlace
  <2> QED BY <1>1, <2>1, <2>2, PublishRoute
<1>2. CASE ~active
  BY <1>2, StillRoute DEF FinalizeIfActive
<1> QED BY <1>1, <1>2

\* A chunk for the capture, in hand until now and shown nowhere.
LEMMA FeedRoute == ASSUME CaptureInv, RouteInv, Feed PROVE RouteInv'
<1>1. UNCHANGED <<shown, commands>> /\ InHand = {taken} BY DEF Feed, InHand
<1>2. CASE UNCHANGED <<queue, orphans, nextId, content, outcome>>
  BY <1>1, <1>2, StillRoute
<1>3. CASE active /\ Finalize(buffer \cup {taken}, sink)
  <2>1. /\ 1..taken \subseteq Nat /\ {taken} \subseteq 1..taken
        /\ (1..taken) \ {taken} = shown \cup dropped \cup buffer \cup Captured
        /\ buffer \cap shown = {}
    BY <1>1 DEF CaptureInv, Places, EveryChunkInOnePlace
  <2>2. buffer \cup {taken} \in SUBSET Nat /\ (buffer \cup {taken}) \cap shown = {}
    BY <2>1
  <2> QED BY <1>1, <1>3, <2>2, PublishRoute DEF Finalize
<1> QED BY <1>2, <1>3 DEF Feed, sessionVars

\* A chunk for the grid, in hand until now and in no capture.
LEMMA MatchRoute == ASSUME CaptureInv, RouteInv, Match PROVE RouteInv'
<1>1. shown' = shown \cup {taken} /\ commands' = commands /\ InHand = {taken}
  BY DEF Match, InHand
<1>2. taken \notin Captured
  BY <1>1 DEF CaptureInv, EveryChunkInOnePlace
<1>3. UNCHANGED <<queue, orphans, nextId, content, outcome>>
  BY DEF Match, Begin, sessionVars
<1> QED BY <1>1, <1>2, <1>3, StillRoute

\* An answer is carried out: only a capture nobody received comes back.
LEMMA CommandRoute == ASSUME CaptureInv, RouteInv, Command PROVE RouteInv'
<1>1. /\ commands \in Seq({"flush", "acknowledge"} \X Ids) /\ commands # <<>>
      /\ UNCHANGED <<queue, orphans, nextId, content, outcome>>
      /\ commands' = Tail(commands)
  BY DEF Command, RouteInv, QueueTypes
<1>2. /\ commands' \in Seq({"flush", "acknowledge"} \X Ids)
      /\ \A i \in DOMAIN commands' : i + 1 \in DOMAIN commands /\ commands'[i] = commands[i+1]
  BY <1>1
<1>3. QueueTypes' BY <1>1, <1>2 DEF RouteInv, QueueTypes
<1>4. QueuedArePending'
  <2>1. QueuedArePending /\ UNCHANGED <<queue, orphans, nextId, outcome>> BY <1>1 DEF RouteInv
  <2> QED BY <2>1 DEF QueuedArePending, Once, Elements
<1>5. OnlyTheMissedAreFlushed'
  BY <1>1, <1>2 DEF RouteInv, OnlyTheMissedAreFlushed, Replays
<1>6. RoutedOutputStaysOff'
  <2>1. CASE shown' = shown
    BY <1>1, <2>1 DEF RouteInv, RoutedOutputStaysOff
  <2>2. CASE Replays(commands[1]) /\ shown' = shown \cup content[commands[1][2]]
    <3>1. 1 \in DOMAIN commands /\ commands[1][2] \in Ids BY <1>1
    <3>2. outcome[commands[1][2]] = "missed"
      BY <2>2, <3>1 DEF RouteInv, OnlyTheMissedAreFlushed
    <3>3. \A id \in Ids : id # commands[1][2] => content[id] \cap content[commands[1][2]] = {}
      BY <3>1 DEF CaptureInv, EveryChunkInOnePlace
    <3> QED BY <1>1, <2>2, <3>2, <3>3 DEF RouteInv, RoutedOutputStaysOff
  <2>3. Head(commands) = commands[1] BY <1>1
  <2> QED BY <2>1, <2>2, <2>3 DEF Command
<1> QED BY <1>3, <1>4, <1>5, <1>6 DEF RouteInv

\* Routing an event decides what becomes of it, and of no other.
LEMMA RoutedOutcome ==
  ASSUME RouteInv, NEW ids \in SUBSET Ids, NEW takers, \A id \in ids : id < nextId /\ outcome[id] = "pending",
         outcome' = Routed(ids, takers)
  PROVE  /\ outcome' \in [Ids -> {"pending", "received", "missed", "evicted"}]
         /\ \A id \in Ids : outcome[id] = "missed" => outcome'[id] = "missed"
         /\ \A id \in Ids : id \notin ids => outcome'[id] = outcome[id]
         /\ \A id \in ids : id \notin takers => outcome'[id] = "missed"
         /\ nextId \in Int => \A id \in Ids : id >= nextId => outcome'[id] = "pending"
<1>1. outcome \in [Ids -> {"pending", "received", "missed", "evicted"}]
      /\ \A id \in Ids : id >= nextId => outcome[id] = "pending"
  BY DEF RouteInv, QueueTypes, QueuedArePending
<1>2. \A id \in Ids : id \in Int BY DEF Ids
<1>3. outcome' \in [Ids -> {"pending", "received", "missed", "evicted"}] BY <1>1 DEF Routed
<1>4. ASSUME NEW id \in Ids, id \notin ids PROVE outcome'[id] = outcome[id] BY <1>4 DEF Routed
<1>5. ASSUME NEW id \in ids, id \notin takers PROVE outcome'[id] = "missed" BY <1>5 DEF Routed
<1>6. \A id \in Ids : outcome[id] = "missed" => outcome'[id] = "missed" BY <1>4
<1>7. nextId \in Int => \A id \in Ids : id >= nextId => outcome'[id] = "pending"
  BY <1>1, <1>2, <1>4
<1> QED BY <1>3, <1>4, <1>5, <1>6, <1>7

\* A frame routes the pane's events and asks for what no receiver takes.
LEMMA PollRoute == ASSUME CaptureInv, RouteInv, Poll PROVE RouteInv'
<1>1. PICK takers \in SUBSET Elements(queue) :
        /\ outcome' = Routed(Elements(queue), takers)
        /\ commands' = commands \o [i \in DOMAIN queue |-> Answer(queue[i], takers)]
  BY DEF Poll
<1>2. queue' = <<>> /\ UNCHANGED <<orphans, nextId, content, shown>>
  BY DEF Poll, TakesEvents
<1>3. /\ queue \in Seq(Ids) /\ Elements(queue) \in SUBSET Ids /\ nextId \in Int
      /\ \A id \in Elements(queue) : id < nextId /\ outcome[id] = "pending"
      /\ commands \in Seq({"flush", "acknowledge"} \X Ids)
  BY DEF RouteInv, QueueTypes, QueuedArePending, CaptureInv, Places, Elements
<1>4. /\ outcome' \in [Ids -> {"pending", "received", "missed", "evicted"}]
      /\ \A id \in Ids : outcome[id] = "missed" => outcome'[id] = "missed"
      /\ \A id \in Ids : id \notin Elements(queue) => outcome'[id] = outcome[id]
      /\ \A id \in Elements(queue) : id \notin takers => outcome'[id] = "missed"
      /\ \A id \in Ids : id >= nextId => outcome'[id] = "pending"
  BY <1>1, <1>3, RoutedOutcome
<1> DEFINE answers == [i \in DOMAIN queue |-> Answer(queue[i], takers)]
<1>5. /\ \A i \in DOMAIN queue : answers[i] = Answer(queue[i], takers)
      /\ answers \in Seq({"flush", "acknowledge"} \X Ids) /\ Len(answers) = Len(queue)
  <2>1. \A i \in DOMAIN queue : queue[i] \in Ids BY <1>3
  <2>2. \A i \in DOMAIN queue : Answer(queue[i], takers) \in {"flush", "acknowledge"} \X Ids
    BY <2>1 DEF Answer
  <2>3. DOMAIN queue = 1..Len(queue) /\ Len(queue) \in Nat BY <1>3
  <2> QED BY <2>2, <2>3
<1>6. commands' = commands \o answers BY <1>1
<1> HIDE DEF answers
<1>7. /\ commands' \in Seq({"flush", "acknowledge"} \X Ids)
      /\ DOMAIN commands = 1..Len(commands) /\ Len(commands) \in Nat
      /\ DOMAIN queue = 1..Len(queue) /\ Len(queue) \in Nat
      /\ DOMAIN commands' = 1..Len(commands)+Len(queue)
      /\ \A i \in 1..Len(commands) : commands'[i] = commands[i]
      /\ \A i \in 1..Len(queue) : commands'[Len(commands) + i] = answers[i]
  BY <1>3, <1>5, <1>6
<1>8. QueueTypes' BY <1>2, <1>4, <1>7 DEF RouteInv, QueueTypes
<1>9. QueuedArePending'
  <2>1. Elements(queue') = {} /\ Once(queue') BY <1>2 DEF Elements, Once
  <2>2. /\ Once(orphans) /\ Elements(queue) \cap Elements(orphans) = {}
        /\ \A id \in Elements(orphans) : id \in Ids /\ id < nextId /\ outcome[id] = "pending"
    <3>1. \A id \in Elements(orphans) : id \in Ids BY DEF RouteInv, QueueTypes, Elements
    <3> QED BY <3>1 DEF RouteInv, QueuedArePending
  <2>3. \A id \in Elements(orphans) : outcome'[id] = "pending" BY <1>4, <2>2
  <2>4. orphans' = orphans /\ nextId' = nextId BY <1>2
  <2>5. Elements(orphans)' = Elements(orphans) /\ Once(orphans)' BY <2>2, <2>4 DEF Elements, Once
  <2>6. Elements(queue)' = {} /\ Once(queue)' BY <2>1 DEF Elements, Once
  <2> QED BY <1>4, <2>2, <2>3, <2>4, <2>5, <2>6 DEF QueuedArePending
<1>10. OnlyTheMissedAreFlushed'
  <2> SUFFICES ASSUME NEW i \in DOMAIN commands', Replays(commands'[i])
               PROVE  outcome'[commands'[i][2]] = "missed"
    BY DEF OnlyTheMissedAreFlushed, Replays
  <2>1. CASE i \in 1..Len(commands)
    <3>1. commands'[i] = commands[i] /\ i \in DOMAIN commands /\ commands[i][2] \in Ids
      BY <1>3, <1>7, <2>1
    <3> QED BY <1>4, <3>1 DEF RouteInv, OnlyTheMissedAreFlushed
  <2>2. ASSUME NEW j \in 1..Len(queue), i = Len(commands) + j
        PROVE  outcome'[commands'[i][2]] = "missed"
    <3>1. commands'[i] = Answer(queue[j], takers) /\ queue[j] \in Elements(queue)
      BY <1>5, <1>7, <2>2 DEF Elements
    <3>2. queue[j] \notin takers /\ commands'[i][2] = queue[j] BY <3>1 DEF Answer, Replays
    <3> QED BY <1>4, <3>1, <3>2
  <2>3. i \in 1..Len(commands) \/ \E j \in 1..Len(queue) : i = Len(commands) + j
    <3>1. CASE i > Len(commands)
      <4>1. i - Len(commands) \in 1..Len(queue) /\ i = Len(commands) + (i - Len(commands))
        BY <1>7, <3>1
      <4> QED BY <4>1
    <3> QED BY <1>7, <3>1
  <2> QED BY <2>1, <2>2, <2>3
<1>11. RoutedOutputStaysOff'
  BY <1>2, <1>4 DEF RouteInv, RoutedOutputStaysOff
<1> QED BY <1>8, <1>9, <1>10, <1>11 DEF RouteInv

\* The engine's orphans are routed without a pane to answer.
LEMMA OrphansRoute == ASSUME CaptureInv, RouteInv, PollOrphans PROVE RouteInv'
<1>1. PICK takers \in SUBSET Elements(orphans) : outcome' = Routed(Elements(orphans), takers)
  BY DEF PollOrphans
<1>2. orphans' = <<>> /\ UNCHANGED <<queue, nextId, content, shown, commands>>
  BY DEF PollOrphans, TakesOrphans
<1>3. /\ Elements(orphans) \in SUBSET Ids /\ nextId \in Int
      /\ \A id \in Elements(orphans) : id < nextId /\ outcome[id] = "pending"
      /\ commands \in Seq({"flush", "acknowledge"} \X Ids)
  BY DEF RouteInv, QueueTypes, QueuedArePending, CaptureInv, Places, Elements
<1>4. /\ outcome' \in [Ids -> {"pending", "received", "missed", "evicted"}]
      /\ \A id \in Ids : outcome[id] = "missed" => outcome'[id] = "missed"
      /\ \A id \in Ids : id \notin Elements(orphans) => outcome'[id] = outcome[id]
      /\ \A id \in Ids : id >= nextId => outcome'[id] = "pending"
  BY <1>1, <1>3, RoutedOutcome
<1>5. QueueTypes' BY <1>2, <1>4 DEF RouteInv, QueueTypes
<1>6. QueuedArePending'
  <2>1. /\ Once(queue) /\ Elements(queue) \cap Elements(orphans) = {}
        /\ \A id \in Elements(queue) : id \in Ids /\ id < nextId /\ outcome[id] = "pending"
    <3>1. \A id \in Elements(queue) : id \in Ids BY DEF RouteInv, QueueTypes, Elements
    <3> QED BY <3>1 DEF RouteInv, QueuedArePending
  <2>2. \A id \in Elements(queue) : outcome'[id] = "pending" BY <1>4, <2>1
  <2>3. Elements(queue)' = Elements(queue) /\ Once(queue)' BY <1>2, <2>1 DEF Elements, Once
  <2>4. Elements(orphans)' = {} /\ Once(orphans)' BY <1>2 DEF Elements, Once
  <2> QED BY <1>2, <1>4, <2>1, <2>2, <2>3, <2>4 DEF QueuedArePending
<1>7. OnlyTheMissedAreFlushed'
  <2>1. \A i \in DOMAIN commands : commands[i][2] \in Ids BY <1>3
  <2> QED BY <1>2, <1>4, <2>1 DEF RouteInv, OnlyTheMissedAreFlushed, Replays
<1>8. RoutedOutputStaysOff'
  BY <1>2, <1>4 DEF RouteInv, RoutedOutputStaysOff
<1> QED BY <1>5, <1>6, <1>7, <1>8 DEF RouteInv

\* The dead pane's events go behind the engine's orphans, whose oldest may
\* fall out.
LEMMA CarryRoute == ASSUME CaptureInv, RouteInv, CarryOver PROVE RouteInv'
<1> DEFINE all == orphans \o Carried
<1> DEFINE kept == IF Len(all) > MaxBuffered
                     THEN SubSeq(all, Len(all) - MaxBuffered + 1, Len(all)) ELSE all
<1>1. /\ orphans' = kept /\ queue' = <<>>
      /\ outcome' = [id \in Ids |->
           IF id \in Elements(all) \ Elements(kept) THEN "evicted" ELSE outcome[id]]
      /\ UNCHANGED <<nextId, content, shown, commands>>
  BY DEF CarryOver
<1>2. /\ queue \in Seq(Ids) /\ orphans \in Seq(Ids) /\ Once(queue) /\ Once(orphans)
      /\ Elements(queue) \cap Elements(orphans) = {}
      /\ \A id \in Elements(queue) \cup Elements(orphans) : id < nextId /\ outcome[id] = "pending"
      /\ \A id \in Ids : id >= nextId => outcome[id] = "pending"
      /\ outcome \in [Ids -> {"pending", "received", "missed", "evicted"}]
  BY DEF RouteInv, QueueTypes, QueuedArePending
<1>3. /\ all \in Seq(Ids) /\ Once(all)
      /\ Elements(all) = Elements(orphans) \cup Elements(queue)
  <2>1. Elements(orphans) \cap Elements(queue) = {} BY <1>2
  <2> QED BY <1>2, <2>1, JoinedStayOnce DEF Carried
<1> HIDE DEF all
<1>4. kept \in Seq(Ids) /\ Once(kept) /\ Elements(kept) \subseteq Elements(all)
  <2>1. CASE Len(all) > MaxBuffered
    <3>1. PICK n \in Nat : n = Len(all) - MaxBuffered BY <1>3, <2>1, BoundsAssumption
    <3>2. n <= Len(all) /\ kept = SubSeq(all, n + 1, Len(all))
      BY <1>3, <2>1, <3>1, BoundsAssumption
    <3> HIDE DEF kept
    <3> QED BY <1>3, <3>2, SuffixStaysOnce
  <2>2. CASE ~ (Len(all) > MaxBuffered) BY <1>3, <2>2
  <2> QED BY <2>1, <2>2
<1> HIDE DEF kept
<1>5. outcome' \in [Ids -> {"pending", "received", "missed", "evicted"}] BY <1>1, <1>2
<1>6. \A id \in Ids : id \notin Elements(queue) \cup Elements(orphans) => outcome'[id] = outcome[id]
  BY <1>1, <1>3
<1>7. \A id \in Elements(kept) : id \in Ids /\ id < nextId /\ outcome'[id] = "pending"
  <2>1. \A id \in Elements(kept) : id \in Ids BY <1>4 DEF Elements
  <2> HIDE DEF Ids
  <2> QED BY <1>1, <1>2, <1>3, <1>4, <2>1
<1>8. \A id \in Ids : outcome[id] = "missed" => outcome'[id] = "missed"
  BY <1>2, <1>6
<1>9. QueueTypes' BY <1>1, <1>4, <1>5 DEF RouteInv, QueueTypes
<1>10. QueuedArePending'
  <2>1. \A id \in Ids : id >= nextId => outcome'[id] = "pending"
    <3>1. nextId \in Int /\ \A id \in Ids : id \in Int BY DEF CaptureInv, Places, Ids
    <3>2. \A id \in Ids : id >= nextId => id \notin Elements(queue) \cup Elements(orphans)
      BY <1>2, <3>1
    <3> QED BY <1>2, <1>6, <3>2
  <2>2. Elements(queue)' = {} /\ Once(queue)' BY <1>1 DEF Elements, Once
  <2>3. Elements(orphans)' = Elements(kept) /\ Once(orphans)' BY <1>1, <1>4 DEF Elements, Once
  <2>4. nextId' = nextId BY <1>1
  <2> QED BY <1>7, <2>1, <2>2, <2>3, <2>4 DEF QueuedArePending
<1>11. OnlyTheMissedAreFlushed'
  <2>1. \A i \in DOMAIN commands : commands[i][2] \in Ids BY DEF RouteInv, QueueTypes
  <2>2. commands' = commands BY <1>1
  <2> QED BY <1>8, <2>1, <2>2 DEF RouteInv, OnlyTheMissedAreFlushed, Replays
<1>12. RoutedOutputStaysOff'
  BY <1>1, <1>8 DEF RouteInv, RoutedOutputStaysOff
<1> QED BY <1>9, <1>10, <1>11, <1>12 DEF RouteInv

\* Every step keeps the invariant.
LEMMA RouteStep == CaptureInv /\ RouteInv /\ [CaptureNext]_captureVars => RouteInv'
<1> SUFFICES ASSUME CaptureInv, RouteInv, [CaptureNext]_captureVars PROVE RouteInv'
  OBVIOUS
<1>1. CASE Write \/ ChildExits \/ Resize \/ RepaintOver \/ Close \/ Reap \/ Aborted \/ TakeOutput
  BY <1>1, StillRoute
     DEF Write, ChildExits, Resize, RepaintOver, Close, Reap, Aborted, TakeOutput, sessionVars
<1>2. CASE Feed BY <1>2, FeedRoute
<1>3. CASE Match BY <1>3, MatchRoute
<1>4. CASE TimeOut BY <1>4, EndRoute DEF TimeOut
<1>5. CASE LoopEnds BY <1>5, EndRoute DEF LoopEnds, AtExit
<1>6. CASE FinalizeOrphan BY <1>6, EndRoute DEF FinalizeOrphan
<1>7. CASE Input
  <2>1. UNCHANGED <<shown, commands>> BY <1>7 DEF Input
  <2>2. CASE active /\ Publish(buffer, sink)
    <3>1. 1..taken \subseteq Nat /\ buffer \subseteq 1..taken /\ buffer \cap shown = {}
      BY DEF CaptureInv, Places, EveryChunkInOnePlace
    <3>2. buffer \in SUBSET Nat BY <3>1
    <3> QED BY <2>1, <2>2, <3>1, <3>2, PublishRoute
  <2>3. CASE Begin BY <2>1, <2>3, StillRoute DEF Begin
  <2> QED BY <1>7, <2>2, <2>3 DEF Input, Finalize
<1>8. CASE Command BY <1>8, CommandRoute
<1>9. CASE Poll BY <1>9, PollRoute
<1>10. CASE PollOrphans BY <1>10, OrphansRoute
<1>11. CASE CarryOver BY <1>11, CarryRoute
<1>12. CASE UNCHANGED captureVars BY <1>12, StillRoute DEF captureVars
<1> QED BY <1>1, <1>2, <1>3, <1>4, <1>5, <1>6, <1>7, <1>8, <1>9, <1>10, <1>11, <1>12 DEF CaptureNext

\* No event is in two queues or twice in one, so that none is routed twice
\* across the drop of its pane, and what a receiver took or what still waits
\* for its route is not on the terminal.
THEOREM EventsGoOneWay == CaptureSpec => []EventsAreRoutedOnce
<1>1. CaptureInit => CaptureInv /\ RouteInv BY CaptureInitInv, RouteInitInv
<1>2. CaptureInv /\ RouteInv /\ [CaptureNext]_captureVars => CaptureInv' /\ RouteInv'
  BY CaptureStep, RouteStep
<1>3. CaptureInv /\ RouteInv => EventsAreRoutedOnce
  <2> SUFFICES ASSUME RouteInv PROVE EventsAreRoutedOnce
    OBVIOUS
  <2>1. /\ queue \in Seq(Ids) /\ orphans \in Seq(Ids) /\ Once(queue) /\ Once(orphans)
        /\ Elements(queue) \cap Elements(orphans) = {}
        /\ \A id \in Elements(queue) \cup Elements(orphans) : id < nextId /\ outcome[id] = "pending"
        /\ RoutedOutputStaysOff
    BY DEF RouteInv, QueueTypes, QueuedArePending
  <2>2. Once(queue \o orphans) /\ Elements(queue \o orphans) = Elements(queue) \cup Elements(orphans)
    BY <2>1, JoinedStayOnce
  <2> QED BY <2>1, <2>2 DEF EventsAreRoutedOnce, EachEventOnce, Once
<1> QED BY <1>1, <1>2, <1>3, PTL DEF CaptureSpec

-----------------------------------------------------------------------------
(* The window the store retains, where only a fixed row cap binds.  What is  *)
(* stored, what is stored or with the writer, and what is in any place at    *)
(* all each hold every one of the newest lines up to their highest: eviction *)
(* opens a hole only once the queue alone holds a whole window.              *)

ShortLine == [num : Nat, text : {Short}]

\* S holds the newest ShortCap lines up to number h, and none above.
Whole(S, h) ==
  /\ \A r \in S : r.num <= h
  /\ \A n \in 1..h : n > h - ShortCap => \E r \in S : r.num = n

ShortTypes ==
  /\ cap = ShortCap
  /\ rows \subseteq ShortLine /\ lines \in Seq(ShortLine) /\ batch \in Seq(ShortLine)
  /\ lineCount \in Nat /\ qbytes = Len(lines)

\* The queue holds the newest lines, one after another.
QueueIsNewest == \A i \in 1..Len(lines) : lines[i].num = (lineCount - Len(lines)) + i

\* Once the batch is committed it is stored, but for what the trims removed.
BatchIsStored ==
  /\ writer = "trimRows" => ToSet(batch) \subseteq rows
  /\ writer \in {"trimBytes", "account"} =>
       \E h \in Nat :
         /\ Whole(rows, h)
         /\ \A r \in ToSet(batch) : r \in rows \/ r.num <= h - ShortCap
         /\ writer = "trimBytes" => \A r \in rows : r.num > h - ShortCap

WindowsAreWhole ==
  /\ \E h \in Nat : Whole(rows, h)
  /\ \E h \in Nat : Whole(rows \cup ToSet(batch), h)
  /\ pane # "absent" => Whole(rows \cup ToSet(batch) \cup ToSet(lines), lineCount)
  /\ pane = "absent" => lines = <<>> /\ batch = <<>>

WindowInv == ShortTypes /\ QueueIsNewest /\ BatchIsStored /\ WindowsAreWhole

\* Lines of one byte are as many bytes as lines.
LEMMA BytesOfShort ==
  ASSUME NEW q \in Seq(ShortLine)
  PROVE  Bytes(q) = Len(q)
<1> DEFINE T == DOMAIN q
           w == [i \in T |-> q[i].text.bytes]
           g == [s \in SUBSET T |-> Cardinality(s)]
           it == CHOOSE f : f = [x \in SUBSET T |->
                          IF x = {} THEN 0 ELSE f[x \ {Max(x)}] + q[Max(x)].text.bytes]
<1>1. T = 1..Len(q) /\ Len(q) \in Nat
  OBVIOUS
<1>2. IsFiniteSet(T) /\ Cardinality(T) = Len(q)
  BY <1>1, FS_Interval
<1>3. Bytes(q) = it[T]
  BY Zenon DEF Bytes, FoldLeft, MapThenFoldSet
<1>4. \A c \in T : w[c] = 1 /\ q[c].text.bytes = 1
  <2>1. ASSUME NEW c \in T PROVE q[c].text.bytes = 1
    <3>1. q[c] \in ShortLine BY <1>1
    <3> QED BY <3>1 DEF ShortLine, Short
  <2> QED BY <2>1
<1>5. Additive(g, w, T)
  BY <1>2, <1>4, UnitsAreCounted
<1>6. \A x \in SUBSET T : x # {} => Max(x) \in x
  <2>1. ASSUME NEW x \in SUBSET T, x # {} PROVE x \in SUBSET (0..Len(q))
    BY <1>1
  <2> QED BY <1>1, <2>1, MaxOfNats, Zenon
<1> HIDE DEF T, w, g
<1>7. g = [x \in SUBSET T |->
             IF x = {} THEN 0 ELSE g[x \ {Max(x)}] + q[Max(x)].text.bytes]
  <2>1. g = [x \in SUBSET T |-> g[x]] /\ g[{}] = 0
    BY <1>5 DEF Additive
  <2>2. ASSUME NEW x \in SUBSET T, x # {} PROVE g[x] = g[x \ {Max(x)}] + q[Max(x)].text.bytes
    <3>1. Max(x) \in x /\ Max(x) \in T /\ x \ {Max(x)} \in SUBSET T
      BY <1>6, <2>2
    <3>2. g[x] = w[Max(x)] + g[x \ {Max(x)}] /\ g[x \ {Max(x)}] \in Int
      BY <1>5, <3>1 DEF Additive
    <3>3. w[Max(x)] = 1 /\ q[Max(x)].text.bytes = 1
      BY <1>4, <3>1
    <3> QED BY <3>2, <3>3
  <2> QED BY <2>1, <2>2
<1>8. it = [x \in SUBSET T |->
             IF x = {} THEN 0 ELSE it[x \ {Max(x)}] + q[Max(x)].text.bytes]
  BY <1>7, Zenon
<1> HIDE DEF it
<1>9. it[T] = g[T]
  <2>1. it[{}] = 0 BY <1>8
  <2>2. \A s \in SUBSET T : s # {} => \E c \in s : \/ it[s] = w[c] + it[s \ {c}]
                                                   \/ it[s] = it[s \ {c}] + w[c]
    <3> SUFFICES ASSUME NEW s \in SUBSET T, s # {} PROVE it[s] = it[s \ {Max(s)}] + w[Max(s)] /\ Max(s) \in s
      OBVIOUS
    <3>1. Max(s) \in s /\ Max(s) \in T BY <1>6
    <3>2. w[Max(s)] = q[Max(s)].text.bytes BY <1>4, <3>1
    <3> QED BY <1>8, <3>1, <3>2
  <2>3. \A c \in T : w[c] \in Int BY <1>4
  <2> QED BY <1>2, <1>5, <2>1, <2>2, <2>3, FoldIsTotal
<1>10. g[T] = Cardinality(T) BY DEF g
<1> QED BY <1>2, <1>3, <1>9, <1>10

\* Lines of one character are as many characters as lines.
LEMMA CharsOfShort ==
  ASSUME NEW t \in SUBSET ShortLine, IsFiniteSet(t)
  PROVE  Chars(t) = Cardinality(t)
<1> DEFINE w == [r \in t |-> r.text.chars]
           g == [s \in SUBSET t |-> Cardinality(s)]
           it == CHOOSE f : f = [x \in SUBSET t |->
                   IF x = {} THEN 0 ELSE (CHOOSE y \in x : TRUE).text.chars + f[x \ {CHOOSE y \in x : TRUE}]]
<1>1. Chars(t) = it[t]
  BY Zenon DEF Chars, MapThenSumSet, MapThenFoldSet
<1>2. \A c \in t : w[c] = 1 /\ c.text.chars = 1
  <2>1. ASSUME NEW c \in t PROVE c.text.chars = 1
    <3>1. c \in ShortLine OBVIOUS
    <3> QED BY <3>1 DEF ShortLine, Short
  <2> QED BY <2>1
<1>3. Additive(g, w, t)
  BY <1>2, UnitsAreCounted
<1> HIDE DEF w, g
<1>4. \A x \in SUBSET t : x # {} => (CHOOSE y \in x : TRUE) \in x
  OBVIOUS
<1>5. g = [x \in SUBSET t |->
             IF x = {} THEN 0 ELSE (CHOOSE y \in x : TRUE).text.chars + g[x \ {CHOOSE y \in x : TRUE}]]
  <2>1. g = [x \in SUBSET t |-> g[x]] /\ g[{}] = 0
    BY <1>3 DEF Additive
  <2>2. ASSUME NEW x \in SUBSET t, x # {}
        PROVE  g[x] = (CHOOSE y \in x : TRUE).text.chars + g[x \ {CHOOSE y \in x : TRUE}]
    <3> PICK c \in x : c = CHOOSE y \in x : TRUE
      BY <1>4, <2>2
    <3>1. g[x] = w[c] + g[x \ {c}]
      BY <1>3 DEF Additive
    <3>2. w[c] = c.text.chars
      BY <1>2
    <3> QED BY <3>1, <3>2
  <2> QED BY <2>1, <2>2
<1>6. it = [x \in SUBSET t |->
             IF x = {} THEN 0 ELSE (CHOOSE y \in x : TRUE).text.chars + it[x \ {CHOOSE y \in x : TRUE}]]
  BY <1>5, Zenon
<1> HIDE DEF it
<1>7. it[t] = g[t]
  <2>1. it[{}] = 0 BY <1>6
  <2>2. \A s \in SUBSET t : s # {} => \E c \in s : \/ it[s] = w[c] + it[s \ {c}]
                                                   \/ it[s] = it[s \ {c}] + w[c]
    <3> SUFFICES ASSUME NEW s \in SUBSET t, s # {} PROVE \E c \in s : it[s] = w[c] + it[s \ {c}]
      OBVIOUS
    <3> PICK c \in s : c = CHOOSE y \in s : TRUE
      BY <1>4
    <3>1. it[s] = c.text.chars + it[s \ {c}]
      BY <1>6
    <3>2. w[c] = c.text.chars
      BY <1>2
    <3> QED BY <3>1, <3>2
  <2>3. \A c \in t : w[c] \in Int BY <1>2
  <2> QED BY <1>3, <2>1, <2>2, <2>3, FoldIsTotal
<1>8. g[t] = Cardinality(t) BY DEF g
<1> QED BY <1>1, <1>7, <1>8

\* A window of short lines is no longer than its row cap.
LEMMA WindowFits ==
  ASSUME NEW t \in SUBSET ShortLine, NEW h \in Nat, NEW c \in Nat,
         \A r \in t : r.num <= h /\ r.num > h - c
  PROVE  IsFiniteSet(t) /\ Cardinality(t) <= c
<1> DEFINE N == (h - c + 1)..h
           f == [r \in t |-> r.num]
<1>1. IsFiniteSet(N) /\ Cardinality(N) = c
  BY FS_Interval
<1>2. ASSUME NEW r \in t PROVE r.num \in N /\ r = [num |-> r.num, text |-> Short]
  <2>1. r \in ShortLine /\ r.num <= h /\ r.num > h - c
    OBVIOUS
  <2>2. r.num \in Nat
    BY <2>1 DEF ShortLine
  <2> QED BY <2>1, <2>2 DEF ShortLine
<1>3. f \in [t -> N]
  BY <1>2
<1>4. f \in Injection(t, N)
  <2>1. \A a, b \in t : f[a] = f[b] => a = b
    BY <1>2
  <2> QED BY <1>3, <2>1 DEF Injection, IsInjective
<1> QED BY <1>1, <1>4, FS_Injection

\* A row cap is positive, and no larger than the bytes it retains.
LEMMA CapFitsBytes ==
  /\ ShortCap \in Nat /\ ShortCap >= 1
  /\ ByteCap(ShortCap) \in Nat /\ ByteCap(ShortCap) >= ShortCap
<1> DEFINE U == IF ShortCap > UncappedRowBudget THEN ShortCap ELSE UncappedRowBudget
<1>1. ShortCap \in Nat /\ ShortCap >= 1 /\ U \in Nat /\ U >= ShortCap
  BY HistoryAssumption, ShortCapAssumption
<1>2. RetainedBytesPerRow \in Nat /\ RetainedBytesPerRow >= 1
  BY HistoryAssumption
<1>3. \A a, b \in Nat : b >= 1 => a * b \in Nat /\ a * b >= a
  OBVIOUS
<1>4. ByteCap(ShortCap) = U * RetainedBytesPerRow
  BY DEF ByteCap
<1> HIDE DEF U
<1>5. U * RetainedBytesPerRow \in Nat /\ U * RetainedBytesPerRow >= U
  BY <1>1, <1>2, <1>3
<1> QED BY <1>1, <1>4, <1>5

\* The highest number of a whole window is its end.
LEMMA HighestOfWhole ==
  ASSUME NEW t \in SUBSET ShortLine, NEW h \in Nat, Whole(t, h)
  PROVE  Highest(t) = h
<1> DEFINE N == Nums(t) \cup {0}
<1>1. \A r \in t : r.num \in 0..h
  BY DEF ShortLine, Whole
<1>2. N \in SUBSET (0..h) /\ N # {}
  BY <1>1 DEF Nums
<1>3. h \in N
  <2>1. CASE h = 0 BY <2>1
  <2>2. CASE h # 0
    <3>1. h \in 1..h /\ h > h - ShortCap
      BY <2>2, CapFitsBytes
    <3>2. PICK r \in t : r.num = h
      BY <3>1 DEF Whole
    <3> QED BY <3>2 DEF Nums
  <2> QED BY <2>1, <2>2
<1>4. Max(N) \in N /\ \A y \in N : Max(N) >= y
  BY <1>2, MaxOfNats, Zenon
<1>5. Max(N) >= h /\ Max(N) \in 0..h
  BY <1>2, <1>3, <1>4
<1>6. Highest(t) = Max(N)
  BY DEF Highest
<1> HIDE DEF N
<1> QED BY <1>5, <1>6

\* Nothing is stored, queued or held.
LEMMA WholeOfNothing == Whole({}, 0)
BY DEF Whole

\* A window stays whole without what lies before it.
LEMMA WholeWithoutOld ==
  ASSUME NEW S, NEW h \in Nat, Whole(S, h), NEW R \in SUBSET S,
         \A r \in S \ R : r.num <= h - ShortCap
  PROVE  Whole(R, h)
<1>1. \A r \in R : r.num <= h
  BY DEF Whole
<1>2. ASSUME NEW n \in 1..h, n > h - ShortCap PROVE \E r \in R : r.num = n
  <2>1. PICK r \in S : r.num = n
    BY <1>2 DEF Whole
  <2>2. r \in R
    BY <1>2, <2>1, CapFitsBytes
  <2> QED BY <2>1, <2>2
<1> QED BY <1>1, <1>2 DEF Whole

\* What it takes to be whole.
LEMMA WholeIf ==
  ASSUME NEW S, NEW h, \A r \in S : r.num <= h,
         \A n \in 1..h : n > h - ShortCap => \E r \in S : r.num = n
  PROVE  Whole(S, h)
BY DEF Whole

\* One line more at the end of the window.
LEMMA WholeWithNext ==
  ASSUME NEW S, NEW h \in Nat, Whole(S, h), NEW R, S \subseteq R,
         \A r \in R \ S : r.num = h + 1, \E r \in R : r.num = h + 1,
         \A r \in S : r.num \in Nat,
         NEW k, k = h + 1
  PROVE  Whole(R, k)
<1>1. \A r \in R : r.num <= k
  BY DEF Whole
<1>2. ASSUME NEW n \in 1..k, n > k - ShortCap PROVE \E r \in R : r.num = n
  <2>1. CASE n = k BY <2>1
  <2>2. CASE n # k
    <3>1. n \in 1..h /\ n > h - ShortCap
      BY <1>2, <2>2, CapFitsBytes
    <3> QED BY <3>1 DEF Whole
  <2> QED BY <2>1, <2>2
<1> QED BY <1>1, <1>2, WholeIf, Zenon

\* What two queues hold together.
LEMMA JoinedHold ==
  ASSUME NEW p \in Seq(ShortLine), NEW q \in Seq(ShortLine)
  PROVE  p \o q \in Seq(ShortLine) /\ ToSet(p \o q) = ToSet(p) \cup ToSet(q)
<1>1. p \o q \in Seq(ShortLine) /\ Len(p \o q) = Len(p) + Len(q)
  OBVIOUS
<1>2. \A i \in 1..Len(p) : (p \o q)[i] = p[i] /\ i \in 1..Len(p \o q)
  BY <1>1
<1>3. \A i \in 1..Len(q) : (p \o q)[Len(p) + i] = q[i] /\ Len(p) + i \in 1..Len(p \o q)
  BY <1>1
<1>4. \A i \in 1..Len(p \o q) :
        \/ (i \in 1..Len(p) /\ (p \o q)[i] = p[i])
        \/ (i - Len(p) \in 1..Len(q) /\ (p \o q)[i] = q[i - Len(p)])
  BY <1>1
<1>5. ToSet(p) = {p[i] : i \in 1..Len(p)} /\ ToSet(q) = {q[i] : i \in 1..Len(q)}
     /\ ToSet(p \o q) = {(p \o q)[i] : i \in 1..Len(p \o q)}
  BY <1>1 DEF ToSet
<1> DEFINE j == p \o q
<1>6. ToSet(p) \subseteq ToSet(j) /\ ToSet(q) \subseteq ToSet(j)
  BY <1>2, <1>3, <1>5, Zenon
<1>7. ToSet(j) \subseteq ToSet(p) \cup ToSet(q)
  BY <1>4, <1>5, Zenon
<1> QED BY <1>1, <1>6, <1>7

\* An empty queue.
LEMMA EmptyShort == <<>> \in Seq(ShortLine) /\ Len(<<>>) = 0 /\ ToSet(<<>>) = {}
<1>1. <<>> \in Seq(ShortLine) /\ Len(<<>>) = 0 /\ DOMAIN <<>> = {} OBVIOUS
<1> QED BY <1>1 DEF ToSet

\* Where nothing is stored, queued or held, or lost from there.
LEMMA StillWhole ==
  ASSUME WindowInv, UNCHANGED <<rows, cap, lineCount, lines, qbytes, batch>>,
         pane' = "absent" <=> pane = "absent",
         writer' = writer \/ writer' \notin {"trimRows", "trimBytes", "account"}
  PROVE  WindowInv'
<1>1. ShortTypes' BY DEF WindowInv, ShortTypes
<1>2. QueueIsNewest' BY DEF WindowInv, QueueIsNewest
<1>3. BatchIsStored'
  <2>1. rows' = rows /\ batch' = batch BY DEF WindowInv
  <2> QED BY <2>1, Zenon DEF WindowInv, BatchIsStored
<1>4. WindowsAreWhole' BY DEF WindowInv, WindowsAreWhole
<1> QED BY <1>1, <1>2, <1>3, <1>4 DEF WindowInv

\* The queue passes to the writer.
LEMMA TakenWhole ==
  ASSUME WindowInv, TakeLines, pane # "absent",
         writer' \notin {"trimRows", "trimBytes", "account"}
  PROVE  WindowInv'
<1>1. /\ batch' = batch \o lines /\ lines' = <<>> /\ qbytes' = 0
      /\ UNCHANGED <<rows, pane, cap, lineCount>>
  BY DEF TakeLines, BytesAfterTake
<1>2. batch' \in Seq(ShortLine) /\ ToSet(batch') = ToSet(batch) \cup ToSet(lines)
  BY <1>1, JoinedHold DEF WindowInv, ShortTypes
<1>3. ShortTypes' BY <1>1, <1>2, EmptyShort DEF WindowInv, ShortTypes
<1>4. QueueIsNewest' BY <1>1, EmptyShort DEF QueueIsNewest
<1>5. BatchIsStored' BY DEF BatchIsStored
<1>6. WindowsAreWhole'
  <2>1. rows' \cup ToSet(batch') = rows \cup ToSet(batch) \cup ToSet(lines)
    BY <1>1, <1>2
  <2>2. rows' \cup ToSet(batch') \cup ToSet(lines') = rows \cup ToSet(batch) \cup ToSet(lines)
    BY <1>1, <2>1, EmptyShort
  <2>3. lineCount \in Nat /\ Whole(rows \cup ToSet(batch) \cup ToSet(lines), lineCount)
        /\ \E h \in Nat : Whole(rows, h)
    BY DEF WindowInv, ShortTypes, WindowsAreWhole
  <2> QED BY <1>1, <2>1, <2>2, <2>3 DEF WindowsAreWhole
<1> QED BY <1>3, <1>4, <1>5, <1>6 DEF WindowInv

\* A commit stores what the writer holds.
LEMMA AppendedWhole ==
  ASSUME WindowInv, AppendBatch, ToSet(batch) \subseteq rows', pane # "absent"
  PROVE  WindowInv'
<1>1. /\ rows' = rows \cup ToSet(batch) /\ writer' = "trimRows"
      /\ UNCHANGED <<pane, cap, lineCount, lines, qbytes, batch>>
  BY DEF AppendBatch, queueVars
<1>2. ToSet(batch) \subseteq ShortLine
  <2>1. batch \in Seq(ShortLine) BY DEF WindowInv, ShortTypes
  <2> QED BY <2>1 DEF ToSet
<1>3. ShortTypes' BY <1>1, <1>2 DEF WindowInv, ShortTypes
<1>4. QueueIsNewest' BY <1>1 DEF WindowInv, QueueIsNewest
<1>5. BatchIsStored' BY <1>1 DEF BatchIsStored
<1>6. WindowsAreWhole'
  <2>1. rows' \cup ToSet(batch') = rows \cup ToSet(batch) BY <1>1
  <2> QED BY <1>1, <2>1 DEF WindowInv, WindowsAreWhole
<1> QED BY <1>3, <1>4, <1>5, <1>6 DEF WindowInv

\* The session ends, cleanly or not: what is stored stays.
LEMMA EndedWhole == ASSUME WindowInv, EndSession PROVE WindowInv'
<1>1. /\ pane' = "absent" /\ lines' = <<>> /\ qbytes' = 0 /\ batch' = <<>> /\ writer' = "none"
      /\ lineCount' = 0 /\ UNCHANGED <<rows, cap>>
  BY DEF EndSession
<1>2. ShortTypes' BY <1>1, EmptyShort DEF WindowInv, ShortTypes
<1>3. QueueIsNewest' BY <1>1, EmptyShort DEF QueueIsNewest
<1>4. BatchIsStored' BY <1>1 DEF BatchIsStored
<1>5. WindowsAreWhole'
  <2>1. rows' \cup ToSet(batch') = rows BY <1>1, EmptyShort
  <2> QED BY <1>1, <2>1 DEF WindowInv, WindowsAreWhole
<1> QED BY <1>2, <1>3, <1>4, <1>5 DEF WindowInv

\* Between sessions the sweep may take all.
LEMMA PrunedWhole == ASSUME WindowInv, Inv, PruneMissing PROVE WindowInv'
<1>1. /\ pane = "absent" /\ rows' = {}
      /\ UNCHANGED <<pane, cap, lineCount, lines, qbytes, batch, writer>>
  BY DEF PruneMissing, queueVars
<1>2. ShortTypes' BY <1>1 DEF WindowInv, ShortTypes
<1>3. QueueIsNewest' BY <1>1 DEF WindowInv, QueueIsNewest
<1>4. BatchIsStored' BY <1>1 DEF Inv, SessionOver, BatchIsStored
<1>5. WindowsAreWhole'
  <2>1. batch = <<>> /\ lines = <<>> BY <1>1 DEF WindowInv, WindowsAreWhole
  <2>2. rows' \cup ToSet(batch') = {} BY <1>1, <2>1, EmptyShort
  <2> QED BY <1>1, <2>1, <2>2, WholeOfNothing DEF WindowsAreWhole
<1> QED BY <1>2, <1>3, <1>4, <1>5 DEF WindowInv

\* A push never drops the line it pushes: alone it fits the window.
LEMMA PushedIsKept ==
  ASSUME NEW p \in Seq(ShortLine), NEW l \in Line, NEW b, b = Len(p) + l.text.bytes
  PROVE  FirstKept(Append(p, l), ShortCap, b) <= Len(p) + 1
<1> DEFINE q == Append(p, l)
           S == {k \in 1..Len(q) + 1 :
                   \/ k = Len(q) + 1
                   \/ /\ Len(q) - (k - 1) <= ShortCap
                      /\ b - Bytes(SubSeq(q, 1, k - 1)) <= ByteCap(ShortCap)}
<1>1. Len(q) = Len(p) + 1 /\ Len(p) \in Nat /\ Len(q) - 1 = Len(p) OBVIOUS
<1>2. SubSeq(q, 1, Len(q) - 1) = p
  <2>1. l \in Line \cup ShortLine /\ p \in Seq(Line \cup ShortLine) OBVIOUS
  <2>2. q \in Seq(Line \cup ShortLine) BY <2>1
  <2>3. SubSeq(q, 1, Len(q) - 1) \in Seq(Line \cup ShortLine) /\ Len(SubSeq(q, 1, Len(q) - 1)) = Len(p)
    BY <1>1, <2>2
  <2>4. \A i \in 1..Len(p) : SubSeq(q, 1, Len(q) - 1)[i] = p[i]
    BY <1>1, <2>1, <2>2
  <2> HIDE DEF q
  <2> QED BY <2>1, <2>3, <2>4, SeqEqual
<1>3. b - Bytes(p) = l.text.bytes /\ l.text.bytes \in Nat
  <2>1. Bytes(p) = Len(p) BY BytesOfShort
  <2>2. l.text.bytes \in Nat BY HistoryAssumption DEF Line
  <2> QED BY <1>1, <2>1, <2>2
<1>4. l.text.bytes <= ByteCap(ShortCap)
  <2>1. l.text.bytes <= UncappedRowBudget * RetainedBytesPerRow
    BY LineFitsWindow DEF Line
  <2>2. \A x, y, r \in Nat : x <= y => x * r \in Nat /\ y * r \in Nat /\ x * r <= y * r
    OBVIOUS
  <2> DEFINE U == IF ShortCap > UncappedRowBudget THEN ShortCap ELSE UncappedRowBudget
  <2>3. U \in Nat /\ UncappedRowBudget \in Nat /\ UncappedRowBudget <= U /\ RetainedBytesPerRow \in Nat
    BY HistoryAssumption, CapFitsBytes
  <2>4. ByteCap(ShortCap) = U * RetainedBytesPerRow BY DEF ByteCap
  <2> HIDE DEF U
  <2>5. UncappedRowBudget * RetainedBytesPerRow <= U * RetainedBytesPerRow
        /\ UncappedRowBudget * RetainedBytesPerRow \in Nat /\ U * RetainedBytesPerRow \in Nat
    BY <2>2, <2>3
  <2> QED BY <1>3, <2>1, <2>4, <2>5
<1>5. Len(q) \in S
  <2>1. b - Bytes(SubSeq(q, 1, Len(q) - 1)) <= ByteCap(ShortCap) BY <1>2, <1>3, <1>4
  <2>2. Len(q) - (Len(q) - 1) <= ShortCap BY <1>1, CapFitsBytes
  <2> HIDE DEF q
  <2> QED BY <1>1, <2>1, <2>2
<1>6. S \in SUBSET Nat BY <1>1
<1>7. Min(S) <= Len(q) BY <1>5, <1>6, MinOfNats
<1> QED BY <1>1, <1>7 DEF FirstKept

\* Of short lines a push drops no more than the row cap makes it drop.
LEMMA EvictedAreOld ==
  ASSUME NEW q \in Seq(ShortLine), NEW k, k = FirstKept(q, ShortCap, Len(q)), k <= Len(q)
  PROVE  /\ k \in 1..Len(q) /\ Bytes(SubSeq(q, 1, k - 1)) = k - 1
         /\ k = 1 \/ Len(q) - (k - 1) >= ShortCap
<1> DEFINE S == {j \in 1..Len(q) + 1 :
                   \/ j = Len(q) + 1
                   \/ /\ Len(q) - (j - 1) <= ShortCap
                      /\ Len(q) - Bytes(SubSeq(q, 1, j - 1)) <= ByteCap(ShortCap)}
<1>1. Len(q) \in Nat OBVIOUS
<1>2. S \in SUBSET Nat /\ S # {}
  <2>1. Len(q) + 1 \in S BY <1>1
  <2> QED BY <1>1, <2>1
<1>3. k = Min(S) BY DEF FirstKept
<1>4. k \in S /\ \A y \in S : k <= y BY <1>2, <1>3, MinOfNats
<1>5. k \in 1..Len(q) BY <1>1, <1>4
<1>6. \A j \in 1..Len(q) : Bytes(SubSeq(q, 1, j - 1)) = j - 1
  <2> SUFFICES ASSUME NEW j \in 1..Len(q) PROVE Bytes(SubSeq(q, 1, j - 1)) = j - 1
    OBVIOUS
  <2>1. SubSeq(q, 1, j - 1) \in Seq(ShortLine) /\ Len(SubSeq(q, 1, j - 1)) = j - 1 OBVIOUS
  <2> QED BY <2>1, BytesOfShort
<1>7. k = 1 \/ Len(q) - (k - 1) >= ShortCap
  <2> SUFFICES ASSUME k # 1, Len(q) - (k - 1) < ShortCap PROVE FALSE
    BY <1>1, <1>5, CapFitsBytes
  <2>1. k - 1 \in 1..Len(q) /\ ~(k <= k - 1) BY <1>1, <1>5
  <2>2. Len(q) - (k - 1 - 1) <= ShortCap BY <1>1, <1>5, CapFitsBytes
  <2>3. Len(q) - Bytes(SubSeq(q, 1, k - 1 - 1)) <= ByteCap(ShortCap)
    <3>1. Bytes(SubSeq(q, 1, k - 1 - 1)) = k - 1 - 1 BY <1>6, <2>1
    <3> QED BY <1>1, <1>5, <2>2, <3>1, CapFitsBytes
  <2>4. k - 1 \in S BY <1>1, <2>1, <2>2, <2>3
  <2> QED BY <1>4, <2>1, <2>4
<1> QED BY <1>5, <1>6, <1>7

\* A push adds the newest line, and drops lines only from a queue that alone
\* holds a whole window.
LEMMA PushedWhole ==
  ASSUME WindowInv, Inv, NEW t \in Texts, Push(t), \A r \in ToSet(lines') : r.text = Short
  PROVE  WindowInv'
<1>1. /\ lines \in Seq(ShortLine) /\ lines \in Seq(Line) /\ qbytes = Len(lines)
      /\ lineCount \in Nat /\ Len(lines) \in Nat /\ cap = ShortCap
  BY DEF WindowInv, ShortTypes, Inv, Types
<1>2. PICK l \in Line : l = [num |-> lineCount + 1, text |-> t]
  <2>1. [num |-> lineCount + 1, text |-> t] \in Line
    BY <1>1 DEF Line
  <2> QED BY <2>1
<1>3. l.text = t /\ l.num = lineCount + 1
  BY <1>2
<1>4. PICK q : q = Append(lines, l)
  OBVIOUS
<1>5. PICK n : n = Len(q)
  OBVIOUS
<1>6. /\ q \in Seq(Line) /\ n = Len(lines) + 1 /\ n = Len(q) /\ n \in Nat /\ q[n] = l
      /\ \A i \in 1..Len(lines) : q[i] = lines[i]
  BY <1>1, <1>3, <1>4, <1>5
<1>7. PICK k : k = FirstKept(q, ShortCap, qbytes + t.bytes)
  OBVIOUS
<1>8. /\ pane = "open" /\ pane' = "open" /\ lineCount' = lineCount + 1
      /\ lines' = SubSeq(q, k, n) /\ qbytes' = (qbytes + t.bytes) - Bytes(SubSeq(q, 1, k - 1))
      /\ UNCHANGED <<rows, cap, batch, writer>>
  <2>1. q = Append(lines, [num |-> lineCount + 1, text |-> t]) /\ k = FirstKept(q, cap, qbytes + t.bytes)
    BY <1>1, <1>2, <1>4, <1>7
  <2> DEFINE l0 == [num |-> lineCount + 1, text |-> t]
             q0 == Append(lines, l0)
             k0 == FirstKept(q0, cap, qbytes + t.bytes)
  <2>2. lines' = SubSeq(q0, k0, Len(q0))
    BY Zenon DEF Push
  <2>3. qbytes' = (qbytes + t.bytes) - Bytes(SubSeq(q0, 1, k0 - 1))
    BY Zenon DEF Push
  <2>4. pane = "open" /\ lineCount' = lineCount + 1
        /\ rows' = rows /\ pane' = pane /\ cap' = cap /\ batch' = batch /\ writer' = writer
    BY Zenon DEF Push
  <2>5. q = q0 /\ k = k0
    BY <2>1, Zenon
  <2> HIDE DEF l0, q0, k0
  <2> QED BY <1>5, <2>2, <2>3, <2>4, <2>5, Zenon
<1>9. k <= n
  BY <1>1, <1>3, <1>4, <1>6, <1>7, PushedIsKept
<1>10. k \in 1..n
  <2>1. k \in 1..n + 1
    BY <1>6, <1>7, FirstKeptRange
  <2> QED BY <1>6, <1>9, <2>1
<1>11. PICK ls : ls = lines'
  OBVIOUS
<1>12. PICK m : m = Len(ls)
  OBVIOUS
<1>13. m = n - (k - 1) /\ m \in 1..n /\ \A i \in 1..m : ls[i] = q[i + k - 1]
  BY <1>6, <1>8, <1>10, <1>11, <1>12
<1>14. t = Short
  <2>1. m \in 1..m /\ m + k - 1 = n
    BY <1>6, <1>10, <1>13
  <2>2. ls[m] = l BY <1>6, <1>13, <2>1
  <2>3. DOMAIN ls = 1..m BY <1>6, <1>8, <1>10, <1>11, <1>12
  <2>4. l \in ToSet(ls) BY <2>1, <2>2, <2>3 DEF ToSet
  <2> QED BY <1>3, <1>11, <2>4
<1>15. q \in Seq(ShortLine)
  <2>1. l \in ShortLine BY <1>1, <1>2, <1>14 DEF ShortLine
  <2> QED BY <1>1, <1>4, <2>1
<1>16. qbytes + t.bytes = n
  <2>1. t.bytes = 1 BY <1>14 DEF Short
  <2> QED BY <1>1, <1>6, <2>1
<1>17. /\ Bytes(SubSeq(q, 1, k - 1)) = k - 1
       /\ k = 1 \/ n - (k - 1) >= ShortCap
  BY <1>5, <1>7, <1>9, <1>15, <1>16, EvictedAreOld, Zenon
<1>18. ls \in Seq(ShortLine)
  BY <1>6, <1>8, <1>10, <1>11, <1>15
<1>19. ShortTypes'
  <2>1. qbytes' = m
    <3>1. qbytes' = n - (k - 1) BY <1>8, <1>16, <1>17, Zenon
    <3> QED BY <1>13, <3>1, Zenon
  <2>2. cap' = ShortCap /\ rows' = rows /\ batch' = batch /\ lineCount' \in Nat BY <1>1, <1>8
  <2> QED BY <1>11, <1>12, <1>18, <2>1, <2>2 DEF WindowInv, ShortTypes
<1>20. \A i \in 1..n : q[i].num = ((lineCount + 1) - n) + i
  <2>1. \A i \in 1..Len(lines) : q[i].num = lineCount - Len(lines) + i
    BY <1>6 DEF WindowInv, QueueIsNewest
  <2> QED BY SMTT(30), <1>1, <1>3, <1>6, <2>1
<1>21. \A i \in 1..m : ls[i].num = ((lineCount + 1) - m) + i
  <2> SUFFICES ASSUME NEW i \in 1..m PROVE ls[i].num = ((lineCount + 1) - m) + i
    OBVIOUS
  <2>1. i + k - 1 \in 1..n /\ ls[i] = q[i + k - 1] BY <1>6, <1>10, <1>13
  <2>2. q[i + k - 1].num = ((lineCount + 1) - n) + (i + k - 1) BY <1>20, <2>1
  <2> QED BY <1>1, <1>6, <1>10, <1>13, <2>1, <2>2
<1>22. QueueIsNewest'
  <2>1. \A i \in 1..Len(lines') : lines'[i].num = (lineCount' - Len(lines')) + i
    BY <1>8, <1>11, <1>12, <1>21, Zenon
  <2> QED BY <2>1, Zenon DEF QueueIsNewest
<1>23. BatchIsStored'
  <2>1. rows' = rows /\ batch' = batch /\ writer' = writer BY <1>8
  <2> QED BY <2>1, Zenon DEF WindowInv, BatchIsStored
<1>24. WindowsAreWhole'
  <2>1. PICK S : S = rows \cup ToSet(batch) \cup ToSet(lines) OBVIOUS
  <2>2. PICK R : R = rows \cup ToSet(batch) \cup ToSet(ls) OBVIOUS
  <2>3. Whole(S, lineCount) BY <1>8, <2>1 DEF WindowInv, WindowsAreWhole
  <2>4. ToSet(ls) = {ls[i] : i \in 1..m} /\ ToSet(lines) = {lines[i] : i \in 1..Len(lines)}
    <3>1. DOMAIN ls = 1..m /\ DOMAIN lines = 1..Len(lines) BY <1>1, <1>12, <1>18
    <3> QED BY <3>1 DEF ToSet
  <2>5. \A r \in S : r.num \in Nat /\ r.num <= lineCount
    <3>1. rows \subseteq ShortLine /\ ToSet(batch) \subseteq ShortLine /\ ToSet(lines) \subseteq ShortLine
      <4>1. rows \subseteq ShortLine /\ batch \in Seq(ShortLine) BY DEF WindowInv, ShortTypes
      <4> QED BY <1>1, <4>1 DEF ToSet
    <3>2. \A r \in S : r.num \in Nat BY <2>1, <3>1 DEF ShortLine
    <3> QED BY <2>3, <3>2 DEF Whole
  <2>6. Whole(R, lineCount')
    <3>1. CASE k = 1
      <4>1. m = n /\ \A i \in 1..n : ls[i] = q[i] BY <1>6, <1>13, <3>1
      <4>2. ToSet(lines) \subseteq ToSet(ls)
        <5>1. \A i \in 1..Len(lines) : i \in 1..m /\ ls[i] = lines[i] BY <1>1, <1>6, <4>1
        <5> QED BY <2>4, <5>1
      <4>3. l \in ToSet(ls)
        <5>1. m \in 1..m /\ ls[m] = l BY <1>6, <1>13, <4>1
        <5> QED BY <2>4, <5>1
      <4>4. ToSet(ls) \subseteq ToSet(lines) \cup {l}
        <5>1. \A i \in 1..m : (i \in 1..Len(lines) /\ ls[i] = lines[i]) \/ ls[i] = l BY <1>1, <1>6, <4>1
        <5> QED BY <2>4, <5>1
      <4>5. S \subseteq R /\ (\A r \in R \ S : r.num = lineCount + 1) /\ \E r \in R : r.num = lineCount + 1
        BY <1>3, <2>1, <2>2, <4>2, <4>3, <4>4
      <4> QED BY <1>1, <1>8, <2>3, <2>5, <4>5, WholeWithNext
    <3>2. CASE m >= ShortCap
      <4>1. ASSUME NEW r \in R PROVE r.num <= lineCount'
        <5>1. CASE r \in S BY <1>1, <1>8, <2>5, <5>1
        <5>2. CASE r \notin S
          <6>1. PICK i \in 1..m : r = ls[i] BY <2>1, <2>2, <2>4, <5>2
          <6>2. r.num = ((lineCount + 1) - m) + i BY <1>21, <6>1
          <6> QED BY <1>1, <1>6, <1>8, <1>13, <6>1, <6>2
        <5> QED BY <5>1, <5>2
      <4>2. ASSUME NEW x \in 1..lineCount', x > lineCount' - ShortCap PROVE \E r \in R : r.num = x
        <5>1. x - ((lineCount + 1) - m) \in 1..m
          BY SMTT(30), <1>1, <1>6, <1>8, <1>13, <3>2, <4>2, CapFitsBytes
        <5>2. ls[x - ((lineCount + 1) - m)].num = ((lineCount + 1) - m) + (x - ((lineCount + 1) - m))
          BY <1>21, <5>1
        <5>3. ls[x - ((lineCount + 1) - m)].num = x BY <1>1, <1>6, <1>8, <1>13, <5>2
        <5>4. ls[x - ((lineCount + 1) - m)] \in R BY <2>2, <2>4, <5>1
        <5> QED BY <5>3, <5>4
      <4> QED BY <4>1, <4>2, WholeIf, Zenon
    <3> QED BY <1>13, <1>17, <3>1, <3>2
  <2> QED BY <1>8, <1>11, <2>2, <2>6 DEF WindowInv, WindowsAreWhole
<1> QED BY <1>19, <1>22, <1>23, <1>24 DEF WindowInv

\* Everything is a line of a window, and its number is not past the counter.
LEMMA LinesOfWindow ==
  ASSUME WindowInv
  PROVE  /\ rows \in SUBSET ShortLine /\ ToSet(batch) \subseteq ShortLine
         /\ ToSet(lines) \subseteq ShortLine
         /\ \A r \in rows \cup ToSet(batch) \cup ToSet(lines) : r.num \in Nat
<1>1. rows \subseteq ShortLine /\ batch \in Seq(ShortLine) /\ lines \in Seq(ShortLine)
  BY DEF WindowInv, ShortTypes
<1>2. ToSet(batch) \subseteq ShortLine /\ ToSet(lines) \subseteq ShortLine
  BY <1>1 DEF ToSet
<1> QED BY <1>1, <1>2 DEF ShortLine

\* What is stored ends no later than the counter.
LEMMA StoredEndsBefore ==
  ASSUME WindowInv, NEW h \in Nat, Whole(rows, h), pane # "absent"
  PROVE  h <= lineCount
<1>1. lineCount \in Nat /\ Whole(rows \cup ToSet(batch) \cup ToSet(lines), lineCount)
  BY DEF WindowInv, ShortTypes, WindowsAreWhole
<1>2. CASE h = 0 BY <1>1, <1>2
<1>3. CASE h # 0
  <2>1. h \in 1..h /\ h > h - ShortCap BY <1>3, CapFitsBytes
  <2>2. PICK r \in rows : r.num = h BY <2>1 DEF Whole
  <2> QED BY <1>1, <2>2 DEF Whole
<1> QED BY <1>2, <1>3

\* The row trim keeps the newest lines.
LEMMA TrimmedWhole ==
  ASSUME WindowInv, TrimRows, pane # "absent"
  PROVE  WindowInv'
<1>1. PICK h \in Nat : Whole(rows, h) BY DEF WindowInv, WindowsAreWhole
<1>2. cap = ShortCap /\ lineCount \in Nat BY DEF WindowInv, ShortTypes
<1>3. Highest(rows) = h BY <1>1, LinesOfWindow, HighestOfWhole
<1>4. /\ rows' = {r \in rows : r.num > h - ShortCap} /\ writer = "trimRows" /\ writer' = "trimBytes"
      /\ UNCHANGED <<pane, cap, lineCount, lines, qbytes, batch>>
  BY <1>2, <1>3 DEF TrimRows, queueVars
<1>5. \A r \in rows \ rows' : r.num <= h - ShortCap
  BY <1>2, <1>4, LinesOfWindow, CapFitsBytes
<1>6. Whole(rows', h)
  BY <1>1, <1>4, <1>5, WholeWithoutOld
<1>7. h <= lineCount BY <1>1, StoredEndsBefore
<1>8. ToSet(batch) \subseteq rows BY <1>4 DEF WindowInv, BatchIsStored
<1>9. Whole(rows' \cup ToSet(batch'), h)
  <2>1. rows' \cup ToSet(batch') \in SUBSET rows BY <1>4, <1>8
  <2>2. \A r \in rows \ (rows' \cup ToSet(batch')) : r.num <= h - ShortCap BY <1>5
  <2> QED BY <1>1, <2>1, <2>2, WholeWithoutOld
<1>10. Whole(rows' \cup ToSet(batch') \cup ToSet(lines'), lineCount')
  <2> DEFINE S == rows \cup ToSet(batch) \cup ToSet(lines)
             R == rows' \cup ToSet(batch') \cup ToSet(lines')
  <2>1. R \in SUBSET S /\ S \ R \subseteq rows \ rows' BY <1>4
  <2>2. \A r \in S \ R : r.num <= lineCount - ShortCap
    BY <1>2, <1>5, <1>7, <2>1, LinesOfWindow, CapFitsBytes
  <2>3. Whole(S, lineCount) BY DEF WindowInv, WindowsAreWhole
  <2> HIDE DEF S, R
  <2>4. Whole(R, lineCount) BY <1>2, <2>1, <2>2, <2>3, WholeWithoutOld
  <2> QED BY <1>4, <2>4 DEF R
<1>11. ShortTypes' BY <1>4 DEF WindowInv, ShortTypes
<1>12. QueueIsNewest' BY <1>4 DEF WindowInv, QueueIsNewest
<1>13. BatchIsStored'
  <2>1. \A r \in ToSet(batch') : r \in rows' \/ r.num <= h - ShortCap BY <1>4, <1>5, <1>8
  <2>2. \A r \in rows' : r.num > h - ShortCap BY <1>4
  <2> QED BY <1>4, <1>6, <2>1, <2>2 DEF BatchIsStored
<1>14. WindowsAreWhole' BY <1>4, <1>6, <1>9, <1>10 DEF WindowsAreWhole
<1> QED BY <1>11, <1>12, <1>13, <1>14 DEF WindowInv

\* A window of short lines is within the byte cap.
LEMMA BytesNeverBind ==
  ASSUME WindowInv, writer = "trimBytes"
  PROVE  /\ Chars(rows) \in Nat /\ ByteCap(cap) \in Nat
         /\ Chars(rows) <= ByteCap(cap)
<1>1. PICK h \in Nat : Whole(rows, h) /\ \A r \in rows : r.num > h - ShortCap
  BY DEF WindowInv, BatchIsStored
<1>2. \A r \in rows : r.num <= h BY <1>1 DEF Whole
<1>3. rows \in SUBSET ShortLine BY LinesOfWindow
<1>4. IsFiniteSet(rows) /\ Cardinality(rows) <= ShortCap
  BY <1>1, <1>2, <1>3, CapFitsBytes, WindowFits
<1>5. Chars(rows) = Cardinality(rows) /\ Cardinality(rows) \in Nat
  BY <1>3, <1>4, CharsOfShort, FS_CardinalityType
<1>6. cap = ShortCap BY DEF WindowInv, ShortTypes
<1> QED BY <1>4, <1>5, <1>6, CapFitsBytes

\* The byte trim finds nothing to do.
LEMMA ByteTrimWhole ==
  ASSUME WindowInv, TrimBytes, pane # "absent"
  PROVE  WindowInv'
<1>1. rows' = rows
  <2>1. writer = "trimBytes" /\ rows' = IF Chars(rows) > ByteCap(cap) THEN {r \in rows : r.num > Cutoff} ELSE rows
    BY Zenon DEF TrimBytes
  <2>2. Chars(rows) \in Nat /\ ByteCap(cap) \in Nat /\ Chars(rows) <= ByteCap(cap)
    BY <2>1, BytesNeverBind
  <2>3. ~(Chars(rows) > ByteCap(cap)) BY <2>2
  <2> QED BY <2>1, <2>3, Zenon
<1>2. /\ writer = "trimBytes" /\ writer' = "account"
      /\ UNCHANGED <<pane, cap, lineCount, lines, qbytes, batch>>
  BY DEF TrimBytes, queueVars
<1>3. ShortTypes' BY <1>1, <1>2 DEF WindowInv, ShortTypes
<1>4. QueueIsNewest' BY <1>2 DEF WindowInv, QueueIsNewest
<1>5. BatchIsStored' BY <1>1, <1>2 DEF WindowInv, BatchIsStored
<1>6. WindowsAreWhole' BY <1>1, <1>2 DEF WindowInv, WindowsAreWhole
<1> QED BY <1>3, <1>4, <1>5, <1>6 DEF WindowInv

\* A batch that is accounted for is stored, or trimmed for its age.
LEMMA AccountedWhole ==
  ASSUME WindowInv, Account, pane # "absent"
  PROVE  WindowInv'
<1>1. /\ writer = "account" /\ writer' = "take" /\ batch' = <<>>
      /\ UNCHANGED <<rows, pane, cap, lineCount, lines, qbytes>>
  BY DEF Account
<1>2. PICK h \in Nat : /\ Whole(rows, h)
                       /\ \A r \in ToSet(batch) : r \in rows \/ r.num <= h - ShortCap
  BY <1>1 DEF WindowInv, BatchIsStored
<1>3. h <= lineCount /\ lineCount \in Nat BY <1>2, StoredEndsBefore DEF WindowInv, ShortTypes
<1>4. rows' \cup ToSet(batch') = rows BY <1>1, EmptyShort
<1>5. Whole(rows' \cup ToSet(batch') \cup ToSet(lines'), lineCount')
  <2> DEFINE S == rows \cup ToSet(batch) \cup ToSet(lines)
             R == rows \cup ToSet(lines)
  <2>1. R \in SUBSET S /\ S \ R \subseteq ToSet(batch) \ rows OBVIOUS
  <2>2. \A r \in S \ R : r.num <= lineCount - ShortCap
    BY <1>2, <1>3, <2>1, LinesOfWindow, CapFitsBytes
  <2>3. Whole(S, lineCount) BY DEF WindowInv, WindowsAreWhole
  <2>4. R = rows' \cup ToSet(batch') \cup ToSet(lines') BY <1>1, <1>4
  <2> HIDE DEF S, R
  <2>5. Whole(R, lineCount) BY <1>3, <2>1, <2>2, <2>3, WholeWithoutOld
  <2> QED BY <1>1, <2>4, <2>5
<1>6. ShortTypes' BY <1>1, EmptyShort DEF WindowInv, ShortTypes
<1>7. QueueIsNewest' BY <1>1 DEF WindowInv, QueueIsNewest
<1>8. BatchIsStored' BY <1>1 DEF BatchIsStored
<1>9. WindowsAreWhole' BY <1>1, <1>2, <1>4, <1>5 DEF WindowsAreWhole
<1> QED BY <1>6, <1>7, <1>8, <1>9 DEF WindowInv

\* A reopened pane counts on from what is stored.
LEMMA OpenedWhole ==
  ASSUME WindowInv, NEW c, NEW spawnOk, Open(c, TRUE, spawnOk), cap' = ShortCap, writer \notin {"trimRows", "trimBytes", "account"}
  PROVE  WindowInv'
<1>1. PICK h \in Nat : Whole(rows, h) BY DEF WindowInv, WindowsAreWhole
<1>2. Highest(rows) = h BY <1>1, LinesOfWindow, HighestOfWhole
<1>3. /\ pane = "absent" /\ pane' = "open" /\ lineCount' = h
      /\ writer' \in {"take", "none"} /\ UNCHANGED <<rows, lines, qbytes, batch>>
  BY <1>2 DEF Open, FirstCount, queueVars
<1>4. lines = <<>> /\ batch = <<>> BY <1>3 DEF WindowInv, WindowsAreWhole
<1>5. ShortTypes' BY <1>3 DEF WindowInv, ShortTypes
<1>6. QueueIsNewest' BY <1>3, <1>4, EmptyShort DEF QueueIsNewest
<1>7. BatchIsStored' BY <1>3 DEF BatchIsStored
<1>8. WindowsAreWhole'
  <2>1. rows' \cup ToSet(batch') = rows /\ rows' \cup ToSet(batch') \cup ToSet(lines') = rows
    BY <1>3, <1>4, EmptyShort
  <2> QED BY <1>1, <1>3, <2>1 DEF WindowsAreWhole
<1> QED BY <1>5, <1>6, <1>7, <1>8 DEF WindowInv

\* A flush waits only while its pane is open.
FlushIsOpen == flush = "waiting" => pane = "open"

\* The short lines' part of a step.
ShortStep == Next /\ cap' = ShortCap /\ NothingFails

\* No step closes a pane under a flush that waits.
LEMMA FlushStaysOpen == FlushIsOpen /\ [Next]_vars => FlushIsOpen'
<1> SUFFICES ASSUME FlushIsOpen, [Next]_vars PROVE FlushIsOpen'
  OBVIOUS
<1>1. ASSUME NEW c \in Caps, NEW readOk \in BOOLEAN, NEW spawnOk \in BOOLEAN, Open(c, readOk, spawnOk)
      PROVE  FlushIsOpen'
  BY <1>1 DEF Open, FlushIsOpen
<1>2. CASE Drop \/ Joined \/ Kill \/ PruneMissing
  BY <1>2 DEF Drop, Joined, Kill, EndSession, PruneMissing, FlushIsOpen
<1>3. ASSUME NEW t \in Texts, Push(t) PROVE FlushIsOpen'
  <2>1. pane = "open" /\ pane' = pane /\ flush' = flush BY <1>3, Zenon DEF Push
  <2> QED BY <2>1 DEF FlushIsOpen
<1>4. CASE StartFlush \/ FlushReturns
  BY <1>4 DEF StartFlush, FlushReturns, FlushIsOpen
<1>5. CASE Writer
  <2>1. pane' = pane /\ flush' = flush
    BY <1>5 DEF Writer, Take, CheckClosed, Retake, TakeLines, Wait, AppendBatch, TrimRows, TrimBytes, Account
  <2> QED BY <2>1 DEF FlushIsOpen
<1>6. CASE UNCHANGED vars
  BY <1>6 DEF vars, FlushIsOpen
<1> QED BY <1>1, <1>2, <1>3, <1>4, <1>5, <1>6 DEF Next

\* One case per action, for lines that only the row cap evicts.
LEMMA WindowStep ==
  ASSUME "read" \notin Faults, Inv, WindowInv, ShortStep \/ UNCHANGED vars
  PROVE  WindowInv'
<1> DEFINE Trims == {"trimRows", "trimBytes", "account"}
<1>1. ASSUME ShortStep, NEW c \in Caps, NEW readOk \in BOOLEAN, NEW spawnOk \in BOOLEAN, Open(c, readOk, spawnOk)
      PROVE  WindowInv'
  <2>1. readOk = TRUE BY <1>1 DEF Open
  <2>2. pane = "absent" BY <1>1 DEF Open
  <2>3. writer \notin Trims BY <2>2 DEF Inv, SessionOver
  <2>4. cap' = ShortCap BY <1>1 DEF ShortStep
  <2>5. Open(c, TRUE, spawnOk) BY <1>1, <2>1, Zenon
  <2> QED BY <2>3, <2>4, <2>5, OpenedWhole
<1>2. CASE Drop
  <2>1. UNCHANGED <<rows, cap, lineCount, lines, qbytes, batch, writer>> /\ pane = "open" /\ pane' = "closing"
    BY <1>2 DEF Drop
  <2> QED BY <2>1, StillWhole
<1>3. CASE Joined \/ Kill
  BY <1>3, EndedWhole DEF Joined, Kill
<1>4. CASE PruneMissing
  BY <1>4, PrunedWhole
<1>5. ASSUME ShortStep, NEW t \in Texts, Push(t) PROVE WindowInv'
  <2>1. \A r \in ToSet(lines') : r.text = Short BY <1>5 DEF ShortStep, NothingFails
  <2> QED BY <1>5, <2>1, PushedWhole
<1>6. CASE StartFlush \/ FlushReturns
  <2>1. UNCHANGED <<rows, cap, lineCount, lines, qbytes, batch, writer, pane>>
    BY <1>6 DEF StartFlush, FlushReturns, queueVars
  <2> QED BY <2>1, StillWhole
<1>7. ASSUME ShortStep, Writer PROVE WindowInv'
  <2>1. pane # "absent"
    <3>1. writer # "none"
      BY <1>7 DEF Writer, Take, CheckClosed, Retake, Wait, AppendBatch, TrimRows, TrimBytes, Account
    <3> QED BY <3>1 DEF Inv, SessionOver
  <2>2. CASE Take \/ Retake
    <3>1. TakeLines /\ writer' \notin Trims BY <2>2 DEF Take, Retake, AfterRetake
    <3> QED BY <2>1, <3>1, TakenWhole
  <2>3. CASE CheckClosed \/ Wait
    <3>1. UNCHANGED <<rows, cap, lineCount, lines, qbytes, batch, pane>> /\ writer' \notin Trims
      BY <2>3 DEF CheckClosed, Wait, AfterCheck, AfterWait, queueVars
    <3> QED BY <3>1, StillWhole
  <2>4. CASE AppendBatch
    <3>1. writer = "append" /\ writer' = "trimRows" BY <2>4 DEF AppendBatch
    <3>2. ToSet(batch) \subseteq rows' BY <1>7, <3>1 DEF ShortStep, NothingFails
    <3> QED BY <2>1, <2>4, <3>2, AppendedWhole
  <2> QED BY <1>7, <2>1, <2>2, <2>3, <2>4, TrimmedWhole, ByteTrimWhole, AccountedWhole DEF Writer
<1>8. CASE UNCHANGED vars
  <2>1. UNCHANGED <<rows, cap, lineCount, lines, qbytes, batch, pane, writer>> BY <1>8 DEF vars, queueVars
  <2> QED BY <2>1, StillWhole
<1>9. ShortStep => Next BY DEF ShortStep
<1> QED BY <1>1, <1>2, <1>3, <1>4, <1>5, <1>6, <1>7, <1>8, <1>9 DEF Next

\* Before the first session nothing is stored.
LEMMA WindowInit == ASSUME Init, cap = ShortCap PROVE WindowInv /\ FlushIsOpen
<1>1. /\ rows = {} /\ lines = <<>> /\ batch = <<>> /\ qbytes = 0 /\ lineCount = 0
      /\ pane = "absent" /\ writer = "none" /\ flush = "none"
  BY DEF Init, NoSession
<1>2. ShortTypes BY <1>1, EmptyShort DEF ShortTypes
<1>3. QueueIsNewest BY <1>1, EmptyShort DEF QueueIsNewest
<1>4. BatchIsStored BY <1>1 DEF BatchIsStored
<1>5. WindowsAreWhole
  <2>1. rows \cup ToSet(batch) = {} BY <1>1, EmptyShort
  <2> QED BY <1>1, <2>1, WholeOfNothing DEF WindowsAreWhole
<1>6. FlushIsOpen BY <1>1 DEF FlushIsOpen
<1> QED BY <1>2, <1>3, <1>4, <1>5, <1>6 DEF WindowInv

\* With everything stored the last line is the highest.
LEMMA AllIsStored ==
  ASSUME WindowInv, pane # "absent", lines = <<>>, batch = <<>>
  PROVE  Highest(rows) = lineCount
<1>1. rows \cup ToSet(batch) \cup ToSet(lines) = rows BY EmptyShort
<1>2. Whole(rows, lineCount) /\ lineCount \in Nat
  BY <1>1 DEF WindowInv, WindowsAreWhole, ShortTypes
<1> QED BY <1>2, LinesOfWindow, HighestOfWhole

\* What a flush reports and what the writer leaves behind.
LEMMA TailStep ==
  ASSUME Inv, WindowInv, FlushIsOpen, [Next]_vars
  PROVE  TailKept
<1>1. ASSUME flush = "waiting", flush' = "committed" PROVE Highest(rows) = lineCount
  <2>1. FlushReturns
    <3>1. ASSUME NEW c \in Caps, NEW readOk \in BOOLEAN, NEW spawnOk \in BOOLEAN, Open(c, readOk, spawnOk)
          PROVE  FALSE
      BY <1>1, <3>1 DEF Open
    <3>2. ASSUME NEW t \in Texts, Push(t) PROVE FALSE
      <4>1. flush' = flush BY <3>2, Zenon DEF Push
      <4> QED BY <1>1, <4>1
    <3>3. ASSUME Drop \/ Joined \/ Kill \/ PruneMissing \/ StartFlush \/ Writer \/ UNCHANGED vars PROVE FALSE
      BY <1>1, <3>3 DEF Drop, Joined, Kill, EndSession, PruneMissing, StartFlush, vars,
         Writer, Take, CheckClosed, Retake, TakeLines, Wait, AppendBatch, TrimRows, TrimBytes, Account
    <3> QED BY <3>1, <3>2, <3>3 DEF Next
  <2>2. ~(pending > 0) BY <1>1, <2>1 DEF FlushReturns
  <2>3. lines \in Seq(Line) /\ batch \in Seq(Line) /\ pending = Len(lines) + Len(batch)
    BY DEF Inv, Types, PendingIsExact
  <2>4. lines = <<>> /\ batch = <<>> BY <2>2, <2>3
  <2>5. pane = "open" BY <1>1 DEF FlushIsOpen
  <2> QED BY <2>4, <2>5, AllIsStored
<1>2. ASSUME writer' = "exited", writer # "exited" PROVE Highest(rows) = lineCount
  <2>1. Retake
    <3>1. ASSUME NEW c \in Caps, NEW readOk \in BOOLEAN, NEW spawnOk \in BOOLEAN, Open(c, readOk, spawnOk)
          PROVE  FALSE
      BY <1>2, <3>1 DEF Open
    <3>2. ASSUME NEW t \in Texts, Push(t) PROVE FALSE
      <4>1. writer' = writer BY <3>2, Zenon DEF Push
      <4> QED BY <1>2, <4>1
    <3>3. ASSUME Drop \/ Joined \/ Kill \/ PruneMissing \/ StartFlush \/ FlushReturns \/ UNCHANGED vars PROVE FALSE
      BY <1>2, <3>3 DEF Drop, Joined, Kill, EndSession, PruneMissing, StartFlush, FlushReturns, vars
    <3>4. ASSUME Take \/ CheckClosed \/ Wait \/ AppendBatch \/ TrimRows \/ TrimBytes \/ Account PROVE FALSE
      BY <1>2, <3>4 DEF Take, CheckClosed, AfterCheck, Wait, AfterWait, AppendBatch, TrimRows, TrimBytes, Account
    <3> QED BY <3>1, <3>2, <3>3, <3>4 DEF Next, Writer
  <2>2. batch' = batch \o lines /\ batch' = <<>>
    BY <1>2, <2>1 DEF Retake, AfterRetake, TakeLines
  <2>3. lines = <<>> /\ batch = <<>>
    <3>1. lines \in Seq(Line) /\ batch \in Seq(Line) BY DEF Inv, Types
    <3>2. batch \o lines = <<>> BY <2>2
    <3>3. Len(batch \o lines) = Len(batch) + Len(lines) BY <3>1
    <3>4. Len(batch) = 0 /\ Len(lines) = 0
      <4>1. Len(batch) \in Nat /\ Len(lines) \in Nat /\ Len(batch \o lines) = 0 BY <3>1, <3>2
      <4> QED BY <3>3, <4>1
    <3> QED BY <3>1, <3>4
  <2>4. pane # "absent"
    <3>1. writer = "retake" BY <2>1 DEF Retake
    <3> QED BY <3>1 DEF Inv, SessionOver
  <2> QED BY <2>3, <2>4, AllIsStored
<1> QED BY <1>1, <1>2 DEF TailKept

\* The part of a step that is the scrollback's.
LEMMA HistoryPart ==
  ASSUME [MCNext]_mcVars
  PROVE  /\ [Next]_vars /\ supply' = supply
         /\ supply = "short" => ShortStep \/ UNCHANGED vars
<1>1. CASE InHistory(SuppliedNext)
  <2>1. Next /\ cap' \in CapsOf[supply] /\ (supply = "short" => NothingFails) /\ supply' = supply
    BY <1>1, Zenon DEF InHistory, SuppliedNext
  <2>2. supply = "short" => cap' = ShortCap
    BY <2>1 DEF CapsOf
  <2> QED BY <2>1, <2>2, Zenon DEF ShortStep
<1>2. CASE InCapture(CaptureNext)
  BY <1>2, Zenon DEF InCapture
<1>3. CASE UNCHANGED mcVars
  BY <1>3, Zenon DEF mcVars
<1> QED BY <1>1, <1>2, <1>3 DEF MCNext

\* What holds of the scrollback at every state, and of the short lines.
SupplyInv == Inv /\ FlushIsOpen /\ (supply = "short" => WindowInv)

\* It holds at the start, whichever lines are supplied.
LEMMA SupplyInit == MCInit => SupplyInv
<1> SUFFICES ASSUME MCInit PROVE SupplyInv
  OBVIOUS
<1>1. Init /\ supply \in {"mixed", "short"} /\ cap \in CapsOf[supply] BY DEF MCInit
<1>2. Inv BY <1>1, InitInv
<1>3. FlushIsOpen BY <1>1 DEF Init, NoSession, FlushIsOpen
<1>4. supply = "short" => WindowInv
  <2>1. supply = "short" => cap = ShortCap BY <1>1 DEF CapsOf
  <2> QED BY <1>1, <2>1, WindowInit
<1> QED BY <1>2, <1>3, <1>4 DEF SupplyInv

\* And every step keeps it.
LEMMA SupplyStep ==
  ASSUME "read" \notin Faults
  PROVE  SupplyInv /\ [MCNext]_mcVars => SupplyInv'
<1> SUFFICES ASSUME SupplyInv, [MCNext]_mcVars PROVE SupplyInv'
  OBVIOUS
<1>1. [Next]_vars /\ supply' = supply /\ (supply = "short" => ShortStep \/ UNCHANGED vars)
  BY HistoryPart
<1>2. Inv' BY <1>1, NextInv DEF SupplyInv
<1>3. FlushIsOpen' BY <1>1, FlushStaysOpen DEF SupplyInv
<1>4. supply' = "short" => WindowInv' BY <1>1, WindowStep DEF SupplyInv
<1> QED BY <1>2, <1>3, <1>4 DEF SupplyInv

\* Whatever the row cap and the order of pushes, commits, trims, kills and
\* reopenings, eviction opens no hole in the retained window of short lines,
\* as long as the highest stored number can be read when the store opens.
THEOREM EvictionStaysInvisible ==
  ASSUME "read" \notin Faults
  PROVE  MCSpec => []EvictionLeavesNoHole
<1>1. SupplyInv => EvictionLeavesNoHole
  <2> SUFFICES ASSUME SupplyInv, supply = "short" PROVE NoGapInWindow
    BY DEF EvictionLeavesNoHole
  <2>1. WindowInv BY DEF SupplyInv
  <2>2. PICK h \in Nat : Whole(rows, h) BY <2>1 DEF WindowInv, WindowsAreWhole
  <2>3. Highest(rows) = h BY <2>1, <2>2, LinesOfWindow, HighestOfWhole
  <2>4. cap = ShortCap BY <2>1 DEF WindowInv, ShortTypes
  <2>5. \A n \in 1..h : n > h - ShortCap => \E r \in rows : r.num = n BY <2>2 DEF Whole
  <2> QED BY <2>3, <2>4, <2>5, Zenon DEF NoGapInWindow, Nums
<1> QED BY <1>1, SupplyInit, SupplyStep, PTL DEF MCSpec

\* Under the same supply the last line is stored when a flush reports success
\* and when the writer leaves after the drop.
THEOREM TailIsKept ==
  ASSUME "read" \notin Faults
  PROVE  MCSpec => CleanEndKeepsTheTail
<1>1. SupplyInv /\ [MCNext]_mcVars => (supply = "short" => TailKept)
  BY HistoryPart, TailStep DEF SupplyInv
<1> QED BY <1>1, SupplyInit, SupplyStep, PTL DEF MCSpec, CleanEndKeepsTheTail
=============================================================================
