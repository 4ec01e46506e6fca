----------------------------- MODULE MCTerminal -----------------------------
(***************************************************************************)
(* The terminals of a window, in one run.  Behind one of them: its process *)
(* and the threads that serve it, its grid and the cells the window draws, *)
(* the lines committed from its output and the concepts they are matched   *)
(* on.  Around all of them: what the window asks before it closes any (two *)
(* terminals, two notes, two workspaces), and the rectangles it gives them *)
(* (four tiles; a layout with a gap in its middle and one in coarser units *)
(* to restore; a grid once disturbed is only reset or loaded anew).        *)
(* The parts share no variable; a behaviour is that of the part chosen at  *)
(* its start.                                                              *)
(***************************************************************************)
EXTENDS PtyProcess, PaneScreen, LineStream, ConceptMatch, CloseContract, TileLayout

VARIABLE part

mcVars == <<part, ptyVars, paneVars, lineVars, matchVars, vars, tileVars>>

InProcess(A) == part = "process" /\ A /\ UNCHANGED <<part, paneVars, lineVars, matchVars, vars, tileVars>>
InScreen(A) == part = "screen" /\ A /\ UNCHANGED <<part, ptyVars, lineVars, matchVars, vars, tileVars>>
InLines(A) == part = "lines" /\ A /\ UNCHANGED <<part, ptyVars, paneVars, matchVars, vars, tileVars>>
InConcepts(A) == part = "concepts" /\ A /\ UNCHANGED <<part, ptyVars, paneVars, lineVars, vars, tileVars>>
InWindow(A) == part = "window" /\ A /\ UNCHANGED <<part, ptyVars, paneVars, lineVars, matchVars, tileVars>>

InTiles(A) ==
  part = "tiles" /\ A /\ UNCHANGED <<part, ptyVars, paneVars, lineVars, matchVars, vars>>

Rect(col, row, cspan, rspan) ==
  [at |-> [x |-> col, y |-> row], span |-> [x |-> cspan, y |-> rspan]]
\* What a window saved with its panes apart, and what one saved with them over
\* each other.
ApartLayouts ==
  {<<Rect(0, 0, 4, 2), Rect(4, 0, 2, 4), Rect(2, 4, 4, 2), Rect(0, 2, 2, 4)>>,
   <<Rect(0, 0, 1, 1), Rect(1, 0, 1, 2), Rect(0, 1, 1, 1)>>}
SavedLayouts == ApartLayouts \cup {<<Rect(0, 0, 2, 1), Rect(1, 0, 1, 2)>>}

(* The parts that do not move start in one state. *)
MCInit ==
  /\ part \in {"process", "screen", "lines", "concepts", "window", "tiles"}
  /\ PtyInit /\ ScreenInit /\ LineInit /\ MatchInit /\ Init /\ TilesInit
  /\ part # "screen" => height = DefaultHeight
  /\ part # "tiles" => firstSpace

MCNext ==
  InProcess(PtyNext) \/ InScreen(ScreenNext) \/ InLines(LineNext) \/ InConcepts(MatchNext)
  \/ InWindow(Next) \/ InTiles(TilesNext /\ (disturbed => ResetTiles \/ LoadLayout))

(* Only the threads and the task of the process owe anything. *)
MCFairness ==
  /\ WF_mcVars(InProcess(Abort)) /\ WF_mcVars(InProcess(TaskEnds))
  /\ WF_mcVars(InProcess(Unblock)) /\ WF_mcVars(InProcess(ReadEnd)) /\ WF_mcVars(InProcess(WriterEnds))

MCSpec == MCInit /\ [][MCNext]_mcVars /\ MCFairness

\* A line of output is committed as it shows and goes to the concept it is for.
LinesReachTheirConcept == LinesAreWhatIsShown /\ CaptureOutranksNotify

\* What the pane draws is its grid, and a resize keeps what it showed.
ScreenIsTrue == []DrawnIsCurrent /\ GrowthKeepsTheScreen
=============================================================================
