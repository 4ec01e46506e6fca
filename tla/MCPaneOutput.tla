---------------------------- MODULE MCPaneOutput ----------------------------
(***************************************************************************)
(* What becomes of a pane's output, in one run: its scrollback, with the   *)
(* thread that writes it to the store, and the captures of its concepts.   *)
(* The scrollback has one of two supplies.  "mixed": lines of one byte,    *)
(* and lines of more bytes than characters, which the byte cap evicts; the *)
(* row cap changes from session to session, batches may fail and a writer  *)
(* may not start.  "short": more lines, so small that only a fixed row cap *)
(* binds, and nothing fails except that the process may be killed at any   *)
(* moment.  The captures have three chunks, two captures and queues that   *)
(* are full with one.                                                      *)
(* The two parts share no variable; a behaviour is that of the part chosen *)
(* at its start.                                                           *)
(***************************************************************************)
EXTENDS History, PaneCapture

CONSTANT ShortCap  \* the row cap of the short lines

ASSUME ShortCapAssumption == ShortCap \in Caps

VARIABLES
  part,   \* which part this behaviour is of
  supply  \* which lines its scrollback gets

mcVars == <<part, supply, vars, captureVars>>

Short == [bytes |-> 1, chars |-> 1]
Long  == [bytes |-> 3, chars |-> 2]
MixedLines == {Short, Long}

CapsOf == [mixed |-> {1, 2}, short |-> {ShortCap}]
LinesOf == [mixed |-> 4, short |-> MaxLine]

NothingFails ==
  /\ \A l \in ToSet(lines') : l.text = Short
  /\ writer = "append" /\ writer' = "trimRows" => ToSet(batch) \subseteq rows'
  /\ pane = "absent" /\ pane' = "open" => writer' = "take"

SuppliedNext ==
  /\ Next
  /\ cap' \in CapsOf[supply] /\ lineCount' <= LinesOf[supply]
  /\ supply = "short" => NothingFails

InHistory(A) == part = "history" /\ A /\ UNCHANGED <<part, supply, captureVars>>
InCapture(A) == part = "capture" /\ A /\ UNCHANGED <<part, supply, vars>>

(* The part that does not move starts in one state. *)
MCInit ==
  /\ part \in {"history", "capture"} /\ supply \in {"mixed", "short"}
  /\ Init /\ CaptureInit
  /\ cap \in CapsOf[supply]
  /\ part = "capture" => supply = "short"

MCNext == InHistory(SuppliedNext) \/ InCapture(CaptureNext)

(* The writer is a running thread, and the join and the bounded flush wait *)
(* return once what they wait for has happened.  The task of the pane is   *)
(* polled by its runtime, timers fire and frames come; the timer and the   *)
(* command branch are disabled again and again by the other branches of    *)
(* the same select!, which polls them in random order.  The user, the      *)
(* child and the closing of the pane owe nothing.                          *)
MCFairness ==
  /\ WF_mcVars(InHistory(Writer)) /\ WF_mcVars(InHistory(Joined))
  /\ WF_mcVars(InHistory(FlushReturns))
  /\ WF_mcVars(InCapture(TakeOutput)) /\ WF_mcVars(InCapture(Feed)) /\ WF_mcVars(InCapture(Match))
  /\ SF_mcVars(InCapture(TimeOut)) /\ SF_mcVars(InCapture(Command))
  /\ WF_mcVars(InCapture(LoopEnds)) /\ WF_mcVars(InCapture(Reap)) /\ WF_mcVars(InCapture(Aborted))
  /\ WF_mcVars(InCapture(Poll)) /\ WF_mcVars(InCapture(PollOrphans))
  /\ WF_mcVars(InCapture(FinalizeOrphan)) /\ WF_mcVars(InCapture(CarryOver))

MCSpec == MCInit /\ [][MCNext]_mcVars /\ MCFairness

\* While the row cap alone binds, eviction from the queue opens no hole in the
\* window of lines the store retains (push's eviction against enforce_cap).
EvictionLeavesNoHole == supply = "short" => NoGapInWindow

\* While nothing fails, a flush that reports success and a drop that has
\* joined its writer have stored the last line (closed, and the fresh take).
CleanEndKeepsTheTail == [][supply = "short" => TailKept]_mcVars

\* Whoever waits for a pane's output is served: the flush and the drop that
\* wait for the writer, and the captures that wait for their report.
OutputSettles == WriterSettles /\ CapturesSettle
=============================================================================
