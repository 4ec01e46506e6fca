------------------------------ MODULE CliLines ------------------------------
(***************************************************************************)
(* How a CLI view cuts its program's output into lines (cli.rs,            *)
(* push_chunk): at every LF, with the CR before it dropped, and at MaxLine *)
(* bytes.  A reader may stop in the middle of a line at any byte, and the  *)
(* stream may end there.                                                   *)
(***************************************************************************)
EXTENDS Naturals, Sequences, SequencesExt

CONSTANTS
  MaxLine,     \* MAX_LINE_BYTES
  MaxWritten   \* bound: the bytes of one line

ASSUME CutAssumption == MaxLine \in Nat \ {0} /\ MaxWritten \in Nat

VARIABLES
  rest,      \* pending: the bytes of the line so far
  wrote,   \* the bytes the program wrote of this line
  cut,       \* the pieces this line was cut into
  done       \* the line just ended, by "LF" or by the "end" of the stream, or "no"

cutVars == <<rest, wrote, cut, done>>

WithoutCR(s) == IF s # <<>> /\ Last(s) = "CR" THEN Front(s) ELSE s

CutInit == rest = <<>> /\ wrote = <<>> /\ cut = <<>> /\ done = "no"

Full == Len(rest) >= MaxLine

Start(s) == IF done = "no" THEN s ELSE <<>>

Byte(b) ==
  /\ done # "end" /\ Len(Start(wrote)) < MaxWritten
  /\ wrote' = Append(Start(wrote), b)
  /\ cut' = (IF done = "no" /\ Full THEN Append(cut, rest) ELSE Start(cut))
  /\ rest' = (IF done = "no" /\ Full THEN <<b>> ELSE Append(rest, b))
  /\ done' = "no"

LineEnd ==
  /\ done # "end"
  /\ cut' = Append(Start(cut), WithoutCR(rest)) /\ rest' = <<>>
  /\ wrote' = Start(wrote) /\ done' = "LF"

(* flush_pending: a stream that ends in the middle of a line ends the line. *)
StreamEnd ==
  /\ done # "end"
  /\ cut' = (IF rest = <<>> THEN Start(cut) ELSE Append(Start(cut), WithoutCR(rest))) /\ rest' = <<>>
  /\ wrote' = Start(wrote) /\ done' = "end"

CutNext == (\E b \in {"x", "CR"} : Byte(b)) \/ LineEnd \/ StreamEnd

CutSpec == CutInit /\ [][CutNext]_cutVars

---------------------------------------------------------------------------
(* The pieces of a line joined are the line as it was written, whatever the*)
(* cap cut it into, and none is longer than the cap (cli.rs:350-352).      *)
PiecesMakeTheLine ==
  /\ \A i \in DOMAIN cut : Len(cut[i]) <= MaxLine
  /\ Len(rest) <= MaxLine
  /\ FlattenSeq(cut) \o rest = (IF done = "no" THEN wrote ELSE WithoutCR(wrote))
=============================================================================
