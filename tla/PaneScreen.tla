----------------------------- MODULE PaneScreen -----------------------------
(***************************************************************************)
(* A terminal's grid between the task that feeds it and the window that    *)
(* draws it (term.rs, engine.rs, gdext lib.rs and grid_api.rs,             *)
(* terminal_pane.gd).  The task prints and applies the sizes it is sent;   *)
(* the window scrolls, sets the palette, asks for a size and, when the     *)
(* generation moved, fetches what changed and patches its cells with it.   *)
(* Three sizes are kept for one pane: the window's, the grid's, the pty's. *)
(*                                                                         *)
(* A line is the number of the print that wrote it, a size its rows: the   *)
(* columns take no part.  The emulator's own rules (alacritty_terminal) are*)
(* external; the alternate screen keeps no history and is left out.        *)
(***************************************************************************)
EXTENDS Integers, Sequences

CONSTANTS
  Heights,        \* the rows a pane may have
  DefaultHeight,  \* DEFAULT_ROWS, with which a pty is opened
  MaxHistory,     \* scrolling_history
  MaxPrints,      \* bound: the lines printed
  MaxResizes      \* bound: the sizes on their way to the task

ASSUME ScreenAssumption ==
  Heights \subseteq Nat \ {0} /\ DefaultHeight \in Heights /\ {MaxHistory, MaxPrints, MaxResizes} \subseteq Nat

VARIABLES
  lines,      \* the grid: its history, oldest first, and its screen
  height,     \* the rows of the screen
  cursor,     \* the cursor's row on the screen
  hidden,     \* the program hid its cursor
  offset,     \* display_offset: how far the view is scrolled back
  damage,     \* the rows of the screen changed since the last fetch
  colours,    \* the palette
  recoloured, \* palette_changed
  lastFull,   \* last_full_offset
  printed,    \* the lines printed so far
  moved,      \* the generation is not the one the window saw last
  looking,    \* the window has seen a new generation and not fetched yet
  cells,      \* what the window draws: a line and a palette for each row
  paneHeight, \* the rows the window recorded
  ptyHeight,  \* the rows the child was told
  resizes     \* the sizes on their way to the task

gridVars == <<lines, height, cursor, hidden, offset, damage, colours, recoloured, lastFull, printed>>
paneVars == <<gridVars, moved, looking, cells, paneHeight, ptyHeight, resizes>>

Blank == 0
Blanks(n) == [i \in 1..n |-> Blank]
AllRows == -1
Lower(a, b) == IF a < b THEN a ELSE b
Higher(a, b) == IF a > b THEN a ELSE b
HistorySize == Len(lines) - height
Screen == SubSeq(lines, HistorySize + 1, Len(lines))
View == SubSeq(lines, HistorySize - offset + 1, HistorySize - offset + height)
Capped(ls, h) == SubSeq(ls, Higher(1, Len(ls) - h - MaxHistory + 1), Len(ls))

ScreenInit ==
  /\ height \in Heights /\ paneHeight = height /\ ptyHeight = DefaultHeight
  /\ lines = Blanks(height) /\ cursor = 0 /\ hidden = FALSE /\ offset = 0
  /\ damage = {AllRows} /\ colours = 0 /\ recoloured = FALSE /\ lastFull = 0 /\ printed = 0
  /\ moved = TRUE /\ looking = FALSE /\ cells = <<>> /\ resizes = <<>>

---------------------------------------------------------------------------
(* The task: feed. *)

\* A view that is scrolled back stays on its lines while others scroll off.
OffsetAfter(n) == IF offset = 0 THEN 0 ELSE Lower(offset + n, MaxHistory)

Fed ==
  /\ moved' = TRUE
  /\ UNCHANGED <<height, colours, recoloured, lastFull, looking, cells, paneHeight, ptyHeight, resizes>>

PrintLine ==
  LET written == [lines EXCEPT ![HistorySize + cursor + 1] = printed + 1] IN
  /\ printed < MaxPrints /\ printed' = printed + 1
  /\ IF cursor < height - 1
     THEN /\ lines' = written /\ cursor' = cursor + 1
          /\ damage' = damage \cup {cursor, cursor + 1} /\ UNCHANGED offset
     ELSE /\ lines' = Capped(Append(written, Blank), height) /\ UNCHANGED cursor
          /\ damage' = {AllRows} /\ offset' = OffsetAfter(1)
  /\ UNCHANGED hidden /\ Fed

(* A program that clears the screen scrolls what is on it into the history.*)
ClearScreen ==
  LET used == {r \in 1..height : Screen[r] # Blank}
      n == IF used = {} THEN 0 ELSE CHOOSE r \in used : \A s \in used : s <= r IN
  /\ lines' = Capped(SubSeq(lines, 1, HistorySize + n) \o Blanks(height), height)
  /\ cursor' = 0 /\ damage' = {AllRows} /\ offset' = OffsetAfter(n)
  /\ UNCHANGED <<hidden, printed>> /\ Fed

MoveCursor ==
  /\ cursor' = 0 /\ damage' = damage \cup {cursor, cursor'}
  /\ UNCHANGED <<lines, offset, hidden, printed>> /\ Fed

HideCursor ==
  /\ hidden' = ~hidden /\ damage' = damage \cup {cursor}
  /\ UNCHANGED <<lines, cursor, offset, printed>> /\ Fed

---------------------------------------------------------------------------
(* resize. *)

(* The emulator fills a taller screen from its history, a shorter one gives*)
(* the rows above the cursor to it.                                        *)
Reflowed(h) ==
  LET pulled == Lower(HistorySize, h - height)
      over == Higher(0, cursor + 1 - h) IN
  IF h > height
  THEN [lines |-> lines \o Blanks(h - height - pulled), cursor |-> cursor + pulled,
        offset |-> Higher(0, offset - (h - height))]
  ELSE LET kept == Capped(SubSeq(lines, 1, HistorySize + over + h), h) IN
       [lines |-> kept, cursor |-> Lower(cursor, h - 1),
        offset |-> Lower(IF over = 0 THEN offset ELSE OffsetAfter(over), Len(kept) - h)]

HistoryAfter(h) == Len(Reflowed(h).lines) - h

\* Flawed: the scrollback is measured before the emulator has resized.
GrowsBackBefore(h) == offset = 0 /\ h > height /\ HistorySize > 0
GrowsBack(h) == offset = 0 /\ h > height /\ HistoryAfter(h) > 0

(* The rows that came out of the history are deleted, the rest moves back  *)
(* up, and the cursor goes home and down to its old row: a count of 0 in a *)
(* control sequence is a count of 1.                                       *)
Anchored(h) ==
  LET r == Reflowed(h)
      kept == HistoryAfter(h)
      down == IF hidden THEN 0 ELSE IF cursor = 0 THEN 1 ELSE cursor IN
  [lines |-> SubSeq(r.lines, 1, kept) \o SubSeq(r.lines, kept + 1 + h - height, Len(r.lines))
               \o Blanks(h - height),
   cursor |-> Lower(down, h - 1), offset |-> 0]

ResizeGrid(h) ==
  LET new == IF GrowsBack(h) THEN Anchored(h) ELSE Reflowed(h) IN
  /\ lines' = new.lines /\ cursor' = new.cursor /\ offset' = new.offset
  /\ height' = h /\ damage' = {AllRows} /\ moved' = TRUE
  /\ UNCHANGED <<hidden, colours, recoloured, lastFull, printed>>

(* The window asks for a size: at once for the grid, by the task's queue   *)
(* for the pty; a grid that has the size is left alone.                    *)
AskResize(h) ==
  /\ ~looking /\ h # paneHeight /\ Len(resizes) < MaxResizes
  /\ paneHeight' = h
  /\ IF h = height THEN UNCHANGED <<gridVars, moved, resizes>>
                   ELSE ResizeGrid(h) /\ resizes' = Append(resizes, h)
  /\ UNCHANGED <<looking, cells, ptyHeight>>

TakeResize ==
  /\ resizes # <<>>
  /\ resizes' = Tail(resizes) /\ ptyHeight' = Head(resizes)
  /\ IF Head(resizes) = height THEN UNCHANGED <<gridVars, moved>> ELSE ResizeGrid(Head(resizes))
  /\ UNCHANGED <<looking, cells, paneHeight>>

---------------------------------------------------------------------------
(* The window. *)

ScrollTo(n) ==
  /\ ~looking /\ n \in 0..HistorySize
  /\ offset' = n /\ moved' = TRUE
  /\ UNCHANGED <<lines, height, cursor, hidden, damage, colours, recoloured, lastFull, printed,
                 looking, cells, paneHeight, ptyHeight, resizes>>

SetPalette ==
  /\ ~looking
  /\ colours' = 1 - colours /\ recoloured' = TRUE /\ moved' = TRUE
  /\ UNCHANGED <<lines, height, cursor, hidden, offset, damage, lastFull, printed,
                 looking, cells, paneHeight, ptyHeight, resizes>>

Look ==
  /\ ~looking /\ moved
  /\ looking' = TRUE /\ moved' = FALSE
  /\ UNCHANGED <<gridVars, cells, paneHeight, ptyHeight, resizes>>

Drawn == [i \in 1..height |-> <<View[i], colours>>]

IsFull == cells = <<>> \/ recoloured \/ offset # lastFull \/ AllRows \in damage

(* get_grid_updates, and the window's merge: the damaged rows of the screen*)
(* that the view still shows, in the place the view has them.              *)
Fetch ==
  /\ looking /\ looking' = FALSE
  /\ cells' = (IF IsFull THEN Drawn
               ELSE [i \in DOMAIN cells |-> IF i - 1 - offset \in damage THEN Drawn[i] ELSE cells[i]])
  /\ lastFull' = (IF IsFull THEN offset ELSE lastFull)
  /\ recoloured' = FALSE /\ damage' = {}
  /\ UNCHANGED <<lines, height, cursor, hidden, offset, colours, printed, moved, paneHeight, ptyHeight, resizes>>

ScreenNext ==
  \/ PrintLine \/ ClearScreen \/ MoveCursor \/ HideCursor \/ TakeResize
  \/ \E h \in Heights : AskResize(h)
  \/ \E n \in 0..MaxHistory : ScrollTo(n)
  \/ SetPalette \/ Look \/ Fetch

ScreenSpec == ScreenInit /\ [][ScreenNext]_paneVars

---------------------------------------------------------------------------
ScreenTypeOK ==
  /\ height \in Heights /\ Len(lines) \in height..height + MaxHistory
  /\ cursor \in 0..height - 1 /\ offset \in 0..HistorySize
  /\ paneHeight \in Heights /\ ptyHeight \in Heights

(* A window that has seen the newest generation draws what the grid shows, *)
(* every row in its place and in the palette's colours, whatever was       *)
(* printed, scrolled, cleared, resized or recoloured between its looks, and*)
(* whatever the task did between a look and its fetch (term.rs:384,        *)
(* terminal_pane.gd:541).                                                  *)
DrawnIsCurrent == (~looking /\ ~moved) => cells = Drawn

(* A taller screen keeps every row the shorter one showed, in order and    *)
(* together: what is deleted came out of the history (term.rs:458-463).    *)
GrowthKeepsTheScreen ==
  [][height' > height =>
       \E k \in 0..height' - height : SubSeq(Screen', k + 1, k + height) = Screen]_paneVars

=============================================================================
