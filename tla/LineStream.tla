----------------------------- MODULE LineStream -----------------------------
(***************************************************************************)
(* From the bytes a program writes to the lines concepts are matched on:   *)
(* the guard that bounds escape strings (escstring.rs), the escape parser  *)
(* behind it (vte, external) and the handler that commits lines            *)
(* (parser.rs).  The guard and the parser each keep an idea of where in an *)
(* escape sequence the stream is; nothing but their rules keeps the two in *)
(* step.  Bytes are their roles: "x", "B" and "H" print, and end a control *)
(* sequence without effect, a move to the next row or one to the first;    *)
(* "]", "[" and "P" print or introduce a string, a control sequence or a   *)
(* device string.  The caps of a line and of a string are scaled down, and *)
(* the cursor's row is the first or another.                               *)
(***************************************************************************)
EXTENDS Naturals, Sequences, SequencesExt

CONSTANTS
  LineCap,    \* MAX_LINE_LEN
  StringCap,  \* MAX_ESCAPE_STRING_BYTES
  MaxSegment  \* bound: what reaches the handler between two line breaks

ASSUME LineAssumption == LineCap \in Nat \ {0} /\ StringCap \in Nat /\ MaxSegment \in Nat

VARIABLES
  oscLen,      \* the guard's count of the open string, or NoString
  pendingEsc,  \* the guard has just passed an ESC
  mode,        \* the parser: "ground", "esc", "csi", "osc", "dcs"
  payload,     \* the bytes of a string the parser holds
  current,     \* current_line
  stash,       \* cr_stash, or NoStash
  firstRow,    \* cursor_row is 1
  segment,     \* what has reached the handler since the last line break
  committed    \* the lines the last byte completed, with the segment they came from

lineVars == <<oscLen, pendingEsc, mode, payload, current, stash, firstRow, segment, committed>>

Bytes == {"x", "B", "H", "]", "[", "P", "LF", "CR", "BEL", "CAN", "ESC"}
Controls == {"LF", "CR", "BEL"}
NoString == StringCap + 2
NoStash == <<"none">>
NoLine == [line |-> NoStash, from |-> <<>>]

---------------------------------------------------------------------------
(* The guard: the string it is in after a byte, and whether it closes it.  *)

\* Flawed: an ESC stays remembered until an introducer comes.
GuardEscUntilUsed(b) == b = "ESC" \/ (pendingEsc /\ b # "]")
GuardEsc(b) ==
  IF oscLen # NoString THEN b = "ESC" ELSE b = "ESC" /\ ~pendingEsc

GuardLen(b) ==
  IF oscLen # NoString THEN (IF b \in {"BEL", "CAN", "ESC"} THEN NoString ELSE oscLen + 1)
  ELSE IF pendingEsc /\ b = "]" THEN 0 ELSE NoString

Closes(b) == GuardLen(b) # NoString /\ GuardLen(b) > StringCap

(* The parser: the state a byte leads to.  ESC and CAN act anywhere, a     *)
(* control in the middle of a sequence is executed and the sequence goes on.*)
Introduced(b) == CASE b = "[" -> "csi" [] b = "]" -> "osc" [] b = "P" -> "dcs" [] OTHER -> "ground"
ModeAfter(b) ==
  IF b = "ESC" THEN "esc"
  ELSE IF b = "CAN" \/ (mode = "osc" /\ b = "BEL") THEN "ground"
  ELSE IF mode \in {"osc", "dcs"} \/ b \in Controls THEN mode
  ELSE IF mode = "esc" THEN Introduced(b) ELSE "ground"

Prints(b) == mode = "ground" /\ b \notin Controls \cup {"ESC", "CAN"}
Executes(b) == b \in Controls /\ mode \in {"ground", "esc", "csi"}
MovesRow(b) == mode = "csi" /\ (b = "B" \/ (b = "H" /\ ~firstRow))

---------------------------------------------------------------------------
(* The handler. *)

Stashed == stash # NoStash

PrintByte(b) ==
  LET line == IF Stashed THEN <<>> ELSE current IN
  /\ current' = (IF Len(line) < LineCap THEN Append(line, b) ELSE line)
  /\ stash' = NoStash
  /\ segment' = Append(segment, b)
  /\ committed' = NoLine /\ UNCHANGED firstRow

CarriageReturn ==
  /\ stash' = (IF Stashed THEN stash ELSE current)
  /\ current' = (IF Stashed THEN current ELSE <<>>)
  /\ segment' = Append(segment, "CR")
  /\ committed' = NoLine /\ UNCHANGED firstRow

Line == IF Stashed THEN stash ELSE current
Emptied == IF Stashed THEN current ELSE <<>>

LineFeed ==
  /\ committed' = [line |-> Line, from |-> segment]
  /\ stash' = NoStash /\ current' = Emptied /\ segment' = <<>> /\ UNCHANGED firstRow

(* commit_if_nonempty: a cursor that changes its row ends a line with text.*)
LeaveRow(b) ==
  /\ firstRow' = (b = "H")
  /\ committed' = (IF Line = <<>> THEN NoLine ELSE [line |-> Line, from |-> segment])
  /\ stash' = NoStash /\ current' = Emptied /\ segment' = <<>>

Silent == committed' = NoLine /\ UNCHANGED <<current, stash, firstRow, segment>>

Handle(b) ==
  CASE Prints(b) -> PrintByte(b)
    [] Executes(b) /\ b = "CR" -> CarriageReturn
    [] Executes(b) /\ b = "LF" -> LineFeed
    [] MovesRow(b) -> LeaveRow(b)
    [] OTHER -> Silent

---------------------------------------------------------------------------
LineInit ==
  /\ oscLen = NoString /\ pendingEsc = FALSE /\ mode = "ground" /\ payload = 0
  /\ current = <<>> /\ stash = NoStash /\ firstRow = TRUE /\ segment = <<>> /\ committed = NoLine

(* One byte through all three; a closing string gets a BEL of the guard's. *)
FeedByte(b) ==
  /\ (Prints(b) \/ (Executes(b) /\ b = "CR")) => Len(segment) < MaxSegment
  /\ oscLen' = (IF Closes(b) THEN NoString ELSE GuardLen(b))
  /\ pendingEsc' = (GuardEsc(b) /\ ~Closes(b))
  /\ mode' = (IF Closes(b) THEN (IF ModeAfter(b) = "osc" THEN "ground" ELSE ModeAfter(b)) ELSE ModeAfter(b))
  /\ payload' = (IF mode' # "osc" THEN 0
                 ELSE IF mode = "osc" /\ b \notin Controls /\ payload <= StringCap + 1 THEN payload + 1 ELSE payload)
  /\ Handle(b)

LineNext == \E b \in Bytes : FeedByte(b)

LineSpec == LineInit /\ [][LineNext]_lineVars

---------------------------------------------------------------------------
LineTypeOK ==
  /\ oscLen \in 0..StringCap \cup {NoString} /\ pendingEsc \in BOOLEAN
  /\ mode \in {"ground", "esc", "csi", "osc", "dcs"} /\ payload \in 0..StringCap + 2
  /\ Len(current) <= LineCap /\ firstRow \in BOOLEAN

(* What a line shows: of the pieces between its carriage returns the last  *)
(* that has text, up to the cap.                                           *)
LastPiece(s) ==
  FoldLeft(LAMBDA acc, b :
      IF b = "CR" THEN [acc EXCEPT !.fresh = TRUE]
      ELSE [text |-> IF acc.fresh THEN <<b>> ELSE Append(acc.text, b), fresh |-> FALSE],
    [text |-> <<>>, fresh |-> FALSE], s).text
Visible(s) == LET text == LastPiece(s) IN SubSeq(text, 1, IF Len(text) < LineCap THEN Len(text) ELSE LineCap)

(* Every committed line is what the screen would show of it: an overwritten*)
(* text is gone, a CRLF or a CR CR LF keeps the text, whatever cursor moves*)
(* and escape sequences lie between.  And the guard's bell falls only into *)
(* a string that is open: it never cuts a sequence or rings in plain text  *)
(* (parser.rs:110, escstring.rs:44).                                       *)
LinesAreWhatIsShown ==
  /\ committed.line # NoStash => committed.line = Visible(committed.from)
  /\ oscLen # NoString => mode = "osc"

=============================================================================
