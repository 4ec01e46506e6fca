----------------------------- MODULE MCSessions -----------------------------
(***************************************************************************)
(* The panes that own a worker and what it runs, in one run: the AI        *)
(* session of an Inspector and the frames of its child, the decode thread  *)
(* of a media pane, the command of a CLI view and the lines its output is  *)
(* cut into.  They share no variable; a behaviour is that of the part      *)
(* chosen at its start.                                                    *)
(***************************************************************************)
EXTENDS AiSession, RpcFrames, MediaSession, CliView, CliLines

VARIABLE part

mcVars == <<part, aiVars, rpcVars, mediaVars, cliVars, cutVars>>

InAi(A) == part = "ai" /\ A /\ UNCHANGED <<part, rpcVars, mediaVars, cliVars, cutVars>>
InFrames(A) == part = "frames" /\ A /\ UNCHANGED <<part, aiVars, mediaVars, cliVars, cutVars>>
InMedia(A) == part = "media" /\ A /\ UNCHANGED <<part, aiVars, rpcVars, cliVars, cutVars>>
InCli(A) == part = "cli" /\ A /\ UNCHANGED <<part, aiVars, rpcVars, mediaVars, cutVars>>
InLines(A) == part = "lines" /\ A /\ UNCHANGED <<part, aiVars, rpcVars, mediaVars, cliVars>>

(* The parts that do not move start in one state. *)
MCInit ==
  /\ part \in {"ai", "frames", "media", "cli", "lines"}
  /\ AiInit /\ RpcInit /\ MediaInit /\ CliInit /\ CutInit
  /\ part # "ai" => backend = "mock"
  /\ part # "media" => looping /\ streams = {"video"}

MCNext ==
  InAi(AiNext) \/ InFrames(RpcNext) \/ InMedia(MediaNext) \/ InCli(CliNext) \/ InLines(CutNext)

(* Threads and tasks run, panes poll in every frame; nothing makes a child *)
(* write or exit, or a user act.                                           *)
MCSpec ==
  /\ MCInit /\ [][MCNext]_mcVars
  /\ WF_mcVars(InAi(WorkerStep)) /\ WF_mcVars(InAi(Poll)) /\ WF_mcVars(InAi(HandleEnvelope))
  /\ WF_mcVars(InMedia(DecoderStep)) /\ WF_mcVars(InMedia(PaneStep))
  /\ SF_mcVars(InMedia(ReadStatus))
  /\ WF_mcVars(InCli(PollLines)) /\ WF_mcVars(InCli(Readers))

\* The session's run in force is the one its pane waits for; what a child says
\* after it, or a full queue drops, leaves nobody waiting.
RunsAreAwaited == InForceIsAwaited /\ OnlyAdaptersStrand

\* A turn reads what was written for it: the answer, and its frames put
\* together from the chunks of their own run.
TurnsReadTheirOwn == StreamIsItsTurns /\ FramesAreWhole

\* What a command prints arrives whole, in order, in pieces that make its lines.
LinesArriveWhole == OutputIsComplete /\ PiecesMakeTheLine

\* Whoever waits for a worker is served, in the part that moves: a turn ends and
\* a child is not left behind, a seek is applied and a closed decoder leaves,
\* output is read and killed readers end.
SessionsSettle ==
  /\ part = "ai" => TurnsEnd /\ NoOrphan
  /\ part = "media" => SeekIsApplied /\ StoppedDecoderLeaves
  /\ part = "cli" => KilledReadersEnd /\ WrittenIsRead
=============================================================================
