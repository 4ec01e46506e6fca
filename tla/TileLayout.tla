----------------------------- MODULE TileLayout -----------------------------
(***************************************************************************)
(* The rectangles of one workspace's panes (terminal_manager.gd) and the   *)
(* drag that moves a divider between them (tile_drag.gd).  A press on a    *)
(* pane's edge saves every tile; the release rewinds the tiles to what was *)
(* saved and moves those on the divider's line by whole units.  Between    *)
(* the two the GUI's frames go on: requests of the socket create and close *)
(* panes and load layouts.                                                 *)
(*                                                                         *)
(* A tile says where its wrapper is to be; the wrappers follow when the    *)
(* workspace lays out its grid, which a drag and an exchange of positions  *)
(* ask for by a signal that only the first workspace's manager has wired.  *)
(*                                                                         *)
(* What the press saved by wrapper is kept with each tile.  Left out: what *)
(* a pane runs, another body in a tile (the rectangle stays), minimizing   *)
(* (it too), focus, the pixels of the preview, and a switch of workspaces  *)
(* during a drag.                                                          *)
(* Bounds: MaxTiles is the room the window's ceiling leaves; the set of    *)
(* panes changes once during a drag.                                       *)
(***************************************************************************)
EXTENDS Integers, SequencesExt

CONSTANTS
  Grid,      \* PaneTypes.GRID
  MinTile,   \* PaneTypes.MIN_TILE
  MaxTiles,  \* the panes there is room for
  Layouts    \* saved layouts: sequences of rectangles

ASSUME TilesAssumption == Grid \in Nat \ {0} /\ MinTile \in 1..Grid /\ MaxTiles \in Nat

VARIABLES
  tiles,       \* TerminalManager.tiles, each with what the press saved of it
  edge,        \* the drag in flight: its axis, line and limits
  firstSpace,  \* the manager is that of the window's first workspace
  laidOut,     \* the wrappers are where the tiles say
  gap,         \* history: the cells left open by a close or a restore
  disturbed    \* history: a drag was committed beside a gap, or over other
               \* panes than it saved, or a restore mistook a layout's unit
               \* or took panes that overlapped when they were saved

tileVars == <<tiles, edge, firstSpace, laidOut, gap, disturbed>>

Axes == {"x", "y"}
Across(axis) == IF axis = "x" THEN "y" ELSE "x"
FarEnd(t, axis) == t.at[axis] + t.span[axis]
Area(t) == t.span["x"] * t.span["y"]
Cells(t) == (t.at["x"]..FarEnd(t, "x")-1) \X (t.at["y"]..FarEnd(t, "y")-1)
Board == (0..Grid-1) \X (0..Grid-1)
Occupied(ts) == UNION {Cells(ts[i]) : i \in DOMAIN ts}

(* What is loaded was saved by a window, in one unit or another              *)
(* (terminal_manager.gd:753): its panes are on the board and have a size.    *)
IsLayout(saved) ==
  saved # <<>> /\ saved \in Seq([at : [Axes -> Nat], span : [Axes -> Nat \ {0}]])
ASSUME LayoutsAssumption == \A saved \in Layouts : IsLayout(saved)

Overlap(ts) == \E i, j \in DOMAIN ts : i # j /\ Cells(ts[i]) \cap Cells(ts[j]) # {}

NoEdge == [axis |-> "none", line |-> 0, lo |-> 0, hi |-> 0, changed |-> FALSE]
Dragging == edge.axis # "none"
\* The set of panes is not what it was at the press.
Changed == ~edge.changed /\ edge' = [edge EXCEPT !.changed = Dragging]

Unsaved == <<>>
Tile(at, span) == [at |-> at, span |-> span, was |-> Unsaved]
WholeGrid == Tile([a \in Axes |-> 0], [a \in Axes |-> Grid])

Rectangles == [at : [Axes -> 0..Grid-1], span : [Axes -> 1..Grid]]
TilesTypeOK ==
  /\ Len(tiles) <= MaxTiles
  /\ \A i \in DOMAIN tiles :
       /\ [at |-> tiles[i].at, span |-> tiles[i].span] \in Rectangles
       /\ tiles[i].was = Unsaved \/ (Dragging /\ tiles[i].was[1] \in Rectangles)
  /\ edge.axis \in Axes \cup {"none"} /\ edge.lo <= edge.hi
  /\ {firstSpace, laidOut, disturbed} \subseteq BOOLEAN
  /\ gap \subseteq Board

TilesInit ==
  /\ tiles = <<>> /\ edge = NoEdge
  /\ firstSpace \in BOOLEAN /\ laidOut = TRUE
  /\ gap = {} /\ disturbed = FALSE

-----------------------------------------------------------------------------
\* A new pane halves the largest tile.

SplitTarget(ts) == CHOOSE i \in DOMAIN ts : \A j \in DOMAIN ts :
  Area(ts[j]) < Area(ts[i]) \/ (Area(ts[j]) = Area(ts[i]) /\ i <= j)

Half(span) == Max({span \div 2, 1})
CanSplit(span) == Half(span) >= MinTile /\ span - Half(span) >= MinTile

\* The target keeps the half, the new wrapper takes the rest, before or after.
Split(ts, i, axis, newFirst) ==
  LET half == Half(ts[i].span[axis])
      rest == ts[i].span[axis] - half
      Moved(by) == [ts[i].at EXCEPT ![axis] = @ + by]
  IN Append([ts EXCEPT ![i].at = IF newFirst THEN Moved(rest) ELSE @, ![i].span[axis] = half],
            Tile(IF newFirst THEN ts[i].at ELSE Moved(half), [ts[i].span EXCEPT ![axis] = rest]))

SplitSides == {"left", "right", "top", "bottom", "none"}
AxisFor(t, side) ==
  CASE side \in {"left", "right"} -> "x"
    [] side \in {"top", "bottom"} -> "y"
    [] OTHER -> IF t.span["x"] >= t.span["y"] THEN "x" ELSE "y"

Spawn(side) ==
  /\ Len(tiles) < MaxTiles
  /\ \/ tiles = <<>> /\ tiles' = <<WholeGrid>>
     \/ /\ tiles # <<>>
        /\ LET i == SplitTarget(tiles)  axis == AxisFor(tiles[i], side) IN
             \/ /\ CanSplit(tiles[i].span[axis])
                /\ tiles' = Split(tiles, i, axis, side \in {"left", "top"})
             \/ /\ ~CanSplit(tiles[i].span[axis]) /\ side # "none"
                /\ CanSplit(tiles[i].span[Across(axis)])
                /\ tiles' = Split(tiles, i, Across(axis), FALSE)
  /\ laidOut' = TRUE
  /\ Changed
  /\ UNCHANGED <<firstSpace, gap, disturbed>>

-----------------------------------------------------------------------------
\* A closed pane's rectangle goes to one neighbour of its size, or to all the
\* tiles that make up one of its sides.

Abuts(t, rm, axis, after) ==
  IF after THEN FarEnd(rm, axis) = t.at[axis] ELSE FarEnd(t, axis) = rm.at[axis]
SameExtent(t, rm, axis) == t.at[axis] = rm.at[axis] /\ t.span[axis] = rm.span[axis]
WithinExtent(t, rm, axis) == t.at[axis] >= rm.at[axis] /\ FarEnd(t, axis) <= FarEnd(rm, axis)

Grown(t, rm, axis) ==
  [t EXCEPT !.at[axis] = Min({@, rm.at[axis]}), !.span[axis] = @ + rm.span[axis]]

ExactAxes(t, rm) == {axis \in Axes :
  SameExtent(t, rm, Across(axis)) /\ \E after \in BOOLEAN : Abuts(t, rm, axis, after)}
ExactFits(ts, rm) == {i \in DOMAIN ts : ExactAxes(ts[i], rm) # {}}

Abutting(ts, rm, axis, after) == {i \in DOMAIN ts :
  Abuts(ts[i], rm, axis, after) /\ WithinExtent(ts[i], rm, Across(axis))}
\* Flawed: the tiles of a side need not make up all of it.
EdgeGroupAny(ts, rm, axis, after) == Abutting(ts, rm, axis, after)
EdgeGroup(ts, rm, axis, after) ==
  LET along == Abutting(ts, rm, axis, after) IN
    IF MapThenSumSet(LAMBDA i : ts[i].span[Across(axis)], along) = rm.span[Across(axis)]
      THEN along ELSE {}

\* Left, right, up, down.
EdgeOrder == <<<<"x", FALSE>>, <<"x", TRUE>>, <<"y", FALSE>>, <<"y", TRUE>>>>

AfterKill(rm, rest) ==
  LET exact == ExactFits(rest, rm)
      fit == SelectInSeq(EdgeOrder, LAMBDA e : EdgeGroup(rest, rm, e[1], e[2]) # {})
      axis == EdgeOrder[fit][1]
  IN CASE exact # {} ->
            [rest EXCEPT ![Min(exact)] = Grown(@, rm, CHOOSE a \in ExactAxes(@, rm) : TRUE)]
       [] exact = {} /\ fit # 0 ->
            [i \in DOMAIN rest |-> IF i \in EdgeGroup(rest, rm, axis, EdgeOrder[fit][2])
                                     THEN Grown(rest[i], rm, axis) ELSE rest[i]]
       [] exact = {} /\ fit = 0 /\ Len(rest) = 1 -> <<[WholeGrid EXCEPT !.was = rest[1].was]>>
       [] OTHER -> rest

KillTile(i) ==
  /\ LET rest == RemoveAt(tiles, i) IN
       /\ tiles' = AfterKill(tiles[i], rest)
       /\ gap' = IF rest = <<>> THEN {}
                 ELSE IF tiles' = rest THEN gap \cup Cells(tiles[i])
                 ELSE gap \ Cells(tiles'[1])
       /\ disturbed' = (disturbed /\ rest # <<>>)
  /\ laidOut' = TRUE
  /\ Changed
  /\ UNCHANGED firstSpace

\* The wrappers follow at tiles_resized where it is connected.
SwapPositions(i, j) ==
  /\ ~Dragging
  /\ tiles' = [tiles EXCEPT ![i].at = tiles[j].at, ![i].span = tiles[j].span,
                            ![j].at = tiles[i].at, ![j].span = tiles[i].span]
  /\ laidOut' = firstSpace
  /\ UNCHANGED <<edge, firstSpace, gap, disturbed>>

ResetTiles ==
  /\ tiles # <<>>
  /\ tiles' = <<>> /\ gap' = {} /\ disturbed' = FALSE /\ laidOut' = TRUE
  /\ Changed
  /\ UNCHANGED firstSpace

-----------------------------------------------------------------------------
\* A saved layout: scaled from the unit it seems to be written in, clamped to
\* the grid, cut off where there is no more room.

\* No reader is given the unit, so it is the furthest edge of the tiles.
UnitOf(saved) ==
  Max({0} \cup UNION {{FarEnd(saved[i], "x"), FarEnd(saved[i], "y")} : i \in DOMAIN saved})
Rescaled(n, unit) == (2 * n * Grid + unit) \div (2 * unit)
Scaled(saved) ==
  LET unit == UnitOf(saved) IN
    IF unit \in {0, Grid} THEN saved
    ELSE [i \in DOMAIN saved |->
           [at |-> [a \in Axes |-> Rescaled(saved[i].at[a], unit)],
            span |-> [a \in Axes |-> Max({Rescaled(saved[i].span[a], unit), 1})]]]

Sanitized(t) ==
  LET at == [a \in Axes |-> Min({t.at[a], Grid - 1})] IN
    Tile(at, [a \in Axes |-> Min({Max({t.span[a], 1}), Grid - at[a]})])

RestoredTiles(saved) ==
  [i \in 1..Min({Len(saved), MaxTiles}) |-> Sanitized(Scaled(saved)[i])]

RestoreTiles(saved) ==
  /\ tiles' = RestoredTiles(saved)
  /\ gap' = Board \ Occupied(tiles')
  /\ disturbed' = (Grid % UnitOf(saved) # 0 \/ Overlap(saved))
  /\ laidOut' = TRUE
  /\ Changed
  /\ UNCHANGED firstSpace

LoadLayout == \E saved \in Layouts : RestoreTiles(saved)

\* The window closes and restores what it saved.
RestartWindow ==
  /\ tiles # <<>> /\ ~Dragging
  /\ RestoreTiles([i \in DOMAIN tiles |-> [at |-> tiles[i].at, span |-> tiles[i].span]])

-----------------------------------------------------------------------------
\* The drag of a divider: all tiles that end or begin on its line.

Before(ts, axis, line) == {i \in DOMAIN ts : ts[i].was # Unsaved /\ FarEnd(ts[i], axis) = line}
After(ts, axis, line) == {i \in DOMAIN ts : ts[i].was # Unsaved /\ ts[i].at[axis] = line}

BeginDrag(i, axis, far) ==
  LET saved == [j \in DOMAIN tiles |->
                  [tiles[j] EXCEPT !.was = <<[at |-> tiles[j].at, span |-> tiles[j].span]>>]]
      line == IF far THEN FarEnd(tiles[i], axis) ELSE tiles[i].at[axis]
      before == Before(saved, axis, line)
      after == After(saved, axis, line)
      lo == Max({-line} \cup {MinTile - tiles[j].span[axis] : j \in before})
      hi == Min({Grid - line} \cup {tiles[j].span[axis] - MinTile : j \in after})
  IN /\ ~Dragging /\ Len(tiles) >= 2
     /\ before # {} /\ after # {} /\ lo <= hi
     /\ edge' = [axis |-> axis, line |-> line, lo |-> lo, hi |-> hi, changed |-> FALSE]
     /\ tiles' = saved
     /\ UNCHANGED <<firstSpace, laidOut, gap, disturbed>>

\* A tile that was there at the press is what it was at the press.
Rewound(t) == IF t.was = Unsaved THEN t ELSE [t EXCEPT !.at = t.was[1].at, !.span = t.was[1].span]

\* Flawed: only the tiles before the line move.
MovedByBefore(t, isBefore, isAfter, step) ==
  IF isBefore THEN [t EXCEPT !.span[edge.axis] = @ + step] ELSE t
MovedBy(t, isBefore, isAfter, step) ==
  CASE isBefore -> [t EXCEPT !.span[edge.axis] = @ + step]
    [] isAfter -> [t EXCEPT !.at[edge.axis] = @ + step, !.span[edge.axis] = @ - step]
    [] OTHER -> t

Committed(step) ==
  LET back == [i \in DOMAIN tiles |-> Rewound(tiles[i])]
      before == Before(back, edge.axis, edge.line)
      after == After(back, edge.axis, edge.line)
  IN IF before = {} \/ after = {} THEN back
     ELSE [i \in DOMAIN back |-> MovedBy(back[i], i \in before, i \in after, step)]

BesideGap == \E c \in gap :
  (IF edge.axis = "x" THEN c[1] ELSE c[2]) \in {edge.line - 1, edge.line}

EndDrag(step) ==
  /\ Dragging /\ step \in edge.lo..edge.hi
  /\ tiles' = [i \in DOMAIN tiles |-> [Committed(step)[i] EXCEPT !.was = Unsaved]]
  /\ edge' = NoEdge
  /\ laidOut' = (firstSpace \/ (laidOut /\ step = 0 /\ ~edge.changed))
  /\ disturbed' = (disturbed \/ BesideGap \/ edge.changed)
  /\ UNCHANGED <<firstSpace, gap>>

\* Any other layout of the grid: a resized window, a sidebar, a settings change.
Relayout ==
  /\ ~laidOut /\ laidOut' = TRUE
  /\ UNCHANGED <<tiles, edge, firstSpace, gap, disturbed>>

-----------------------------------------------------------------------------
TilesNext ==
  \/ \E side \in SplitSides : Spawn(side)
  \/ \E i \in DOMAIN tiles : KillTile(i)
  \/ \E i, j \in DOMAIN tiles : i < j /\ SwapPositions(i, j)
  \/ ResetTiles \/ LoadLayout \/ RestartWindow
  \/ \E i \in DOMAIN tiles, axis \in Axes, far \in BOOLEAN : BeginDrag(i, axis, far)
  \/ \E step \in -Grid..Grid : EndDrag(step)
  \/ Relayout

-----------------------------------------------------------------------------
\* Panes share the grid: no cell has two, and none is empty but those a close
\* found no neighbour for or a restore left open, through any splits, closes,
\* exchanges, drags and restores.  Out of it are the drags the code commits
\* beside such a gap, or over other panes than it saved, and the layouts saved
\* after one.
TilesShareTheGrid ==
  tiles # <<>> /\ ~disturbed =>
    /\ \A i, j \in DOMAIN tiles : i # j => Cells(tiles[i]) \cap Cells(tiles[j]) = {}
    /\ Occupied(tiles) = Board \ gap

\* docs/content/wiki/gpty/layout.md:13: "Panes never overlap, and no tile is
\* ever automatically stacked on another."
PanesNeverOverlap ==
  \A i, j \in DOMAIN tiles : i # j => Cells(tiles[i]) \cap Cells(tiles[j]) = {}

\* tile_drag.gd:70-73: what moves a tile emits `tiles_resized' once, and "the
\* consumer is `workspace._apply_layout`, which also restores the wrappers to
\* the model".
TilesAreDrawn == ~Dragging => laidOut

\* layout.md:15: "except a lone survivor, which becomes the whole grid again".
LoneSurvivorIsWhole ==
  [][Len(tiles) = 2 /\ Len(tiles') = 1 => Occupied(tiles') = Board]_tileVars

\* terminal_manager.gd:753: "a layout always tiles its whole grid, so the
\* furthest edge among its tiles *is* the unit it was written in".
UnitIsKnown == tiles # <<>> => UnitOf(tiles) = Grid
=============================================================================
