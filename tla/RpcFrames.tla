----------------------------- MODULE RpcFrames ------------------------------
(***************************************************************************)
(* The frames of an OMP child over its turns (frame.rs, omp.rs): a frame   *)
(* is a line of at most a limit, a large one arrives as a run of chunks    *)
(* which the decoder joins.  The child may write chunks out of order, mix  *)
(* two runs or break one off.  An error ends the turn; a line that cannot  *)
(* be read ends the child too, and the next turn starts another one.       *)
(***************************************************************************)
EXTENDS Naturals, Sequences

CONSTANTS
  ChunkIds,    \* the identities of chunk runs
  MaxChunks,   \* MAX_CHUNKS, scaled
  MaxLength,   \* MAX_REASSEMBLED_FRAME_BYTES, scaled
  MaxPrompts     \* bound: the turns of a session

ASSUME RpcAssumption == MaxChunks \in Nat \ {0} /\ MaxLength \in Nat \ {0} /\ MaxPrompts \in Nat

VARIABLES
  partial,    \* the series being joined, or NoRun
  dead,       \* the child is to be replaced before the next turn
  turn,       \* the turn in hand
  verdict,    \* "reading", "failed" or "done"
  joined,     \* the series that was delivered last
  expected,   \* what the child wrote of a series in this turn, if it kept to the rules
  orderly     \* the child has kept to the rules in this turn

rpcVars == <<partial, dead, turn, verdict, joined, expected, orderly>>

(* A chunk carries size bytes of a frame that has count chunks of length bytes. *)
Chunks == [id : ChunkIds, index : 0..MaxChunks, count : 0..MaxChunks + 1,
           length : 0..MaxLength + 1, size : 1..MaxLength]
Holding(series, pieces, bytes, torn) ==
  [id |-> series.id, count |-> series.count, length |-> series.length, pieces |-> pieces,
   bytes |-> bytes, torn |-> torn]
RunOf(c) == Holding(c, <<>>, 0, FALSE)
NoRun == [id |-> "none", count |-> 0, length |-> 0, pieces |-> <<>>, bytes |-> 0, torn |-> FALSE]

RpcInit ==
  /\ partial = NoRun /\ joined = NoRun /\ expected = NoRun
  /\ dead = FALSE /\ turn = 1 /\ verdict = "reading" /\ orderly = TRUE

Fail == verdict' = "failed"
Reading == verdict = "reading"

---------------------------------------------------------------------------
(* The decoder. *)

WellFormed(c) == c.count \in 1..MaxChunks /\ c.length \in 1..MaxLength /\ c.index < c.count

Continues(series, c) ==
  series.id = c.id /\ series.count = c.count /\ series.length = c.length /\ Len(series.pieces) = c.index

With(series, c) ==
  Holding(series, Append(series.pieces, <<c.id, c.index>>), series.bytes + c.size, series.torn)
Complete(series) == Len(series.pieces) = series.count

(* A series the decoder still holds when a turn fails. *)
Torn(series) ==
  IF series = NoRun THEN NoRun ELSE Holding(series, series.pieces, series.bytes, TRUE)
Current(c) == IF partial = NoRun THEN RunOf(c) ELSE partial

PushChunk(c) ==
  IF ~WellFormed(c) \/ (partial = NoRun /\ c.index # 0)
  THEN Fail /\ partial' = Torn(partial) /\ UNCHANGED joined
  ELSE IF ~Continues(Current(c), c) THEN Fail /\ partial' = NoRun /\ UNCHANGED joined
  ELSE LET series == With(Current(c), c) IN
    \* decode_base64_into keeps what fits of a chunk that goes beyond the length
    IF series.bytes > series.length
    THEN /\ Fail /\ UNCHANGED joined
         /\ \E n \in Current(c).bytes..series.length :
              partial' = Holding(Current(c), Current(c).pieces, n, TRUE)
    ELSE IF ~Complete(series) THEN partial' = series /\ UNCHANGED <<verdict, joined>>
    ELSE /\ partial' = NoRun
         /\ IF series.bytes = series.length THEN joined' = series /\ UNCHANGED verdict ELSE Fail /\ UNCHANGED joined

---------------------------------------------------------------------------
(* What the child may write, and whether it kept to the rules. *)

StartsRun(c) == expected = NoRun /\ WellFormed(c) /\ c.index = 0
Keeps(c) ==
  LET series == IF expected = NoRun THEN RunOf(c) ELSE expected IN
  /\ StartsRun(c) \/ (expected # NoRun /\ Continues(expected, c))
  /\ With(series, c).bytes <= series.length
  /\ Complete(With(series, c)) => With(series, c).bytes = series.length

ReadRunChunk(c) ==
  /\ Reading
  /\ PushChunk(c)
  /\ orderly' = (orderly /\ Keeps(c))
  /\ expected' = (LET series == With(IF expected = NoRun THEN RunOf(c) ELSE expected, c) IN
                  IF ~(orderly /\ Keeps(c)) \/ Complete(series) THEN NoRun ELSE series)
  /\ UNCHANGED <<dead, turn>>

(* Any other frame: an event of the turn, or its end. *)
ReadFrame(last) ==
  /\ Reading
  /\ orderly' = (orderly /\ expected = NoRun) /\ expected' = NoRun
  /\ verdict' = (IF partial # NoRun THEN "failed" ELSE IF last THEN "done" ELSE verdict)
  /\ partial' = Torn(partial)
  /\ UNCHANGED <<dead, turn, joined>>

(* A line that is no JSON: the turn fails, and the decoder keeps its series. *)
ReadGarbage ==
  /\ Reading /\ Fail
  /\ partial' = Torn(partial) /\ orderly' = FALSE /\ expected' = NoRun
  /\ UNCHANGED <<dead, turn, joined>>

(* read_frame: an overlong line, no UTF-8, or the end of the stream. *)
ReadNothing ==
  /\ Reading /\ Fail
  /\ dead' = TRUE /\ orderly' = FALSE /\ expected' = NoRun
  /\ UNCHANGED <<partial, turn, joined>>

(* The next prompt: a dead child is replaced, a live one asked again. *)
NextTurn ==
  /\ ~Reading /\ turn < MaxPrompts
  /\ turn' = turn + 1 /\ verdict' = "reading" /\ dead' = FALSE
  /\ partial' = (IF dead THEN NoRun ELSE partial)
  /\ joined' = NoRun /\ expected' = NoRun /\ orderly' = TRUE

RpcNext ==
  \/ \E c \in Chunks : ReadRunChunk(c)
  \/ \E last \in BOOLEAN : ReadFrame(last)
  \/ ReadGarbage \/ ReadNothing \/ NextTurn

RpcSpec == RpcInit /\ [][RpcNext]_rpcVars

---------------------------------------------------------------------------
(* A frame joined from chunks holds all of one run, each chunk once and in *)
(* its place, and as many bytes as announced - however chunks of several   *)
(* runs follow each other, unless the run survived a failed turn           *)
(* (omp.rs:528).                                                           *)
FramesAreWhole ==
  (joined # NoRun /\ ~joined.torn) =>
    /\ joined.bytes = joined.length
    /\ joined.pieces = [i \in 1..joined.count |-> <<joined.id, i - 1>>]

=============================================================================
