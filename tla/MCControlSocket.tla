--------------------------- MODULE MCControlSocket ---------------------------
(* The control socket for TLC, in one of four parts that share no state.     *)
(* "unix": two GUIs and one or two CLI calls over one socket file; a launch  *)
(* by hand can happen whenever a call could start a GUI, so one call meets   *)
(* every company a second call would give it.  "pipe": two GUIs over one     *)
(* Windows pipe name.  "path": two processes that work out the path.  "conn": *)
(* one connection and the frames its client pipelines.                       *)
EXTENDS ControlSocket, WindowsPipe, SocketPath, ControlConnection

VARIABLE part

mcVars == <<vars, pipeVars, pathVars, connVars, part>>

InUnix(A) == part = "unix" /\ A /\ UNCHANGED <<pipeVars, pathVars, connVars, part>>
InPipe(A) == part = "pipe" /\ A /\ UNCHANGED <<vars, pathVars, connVars, part>>
InPath(A) == part = "path" /\ A /\ UNCHANGED <<vars, pipeVars, connVars, part>>
InConn(A) == part = "conn" /\ A /\ UNCHANGED <<vars, pipeVars, pathVars, part>>

MCInit ==
  /\ Init /\ PipeInit /\ PathInit /\ ConnInit /\ part \in {"unix", "pipe", "path", "conn"}
  /\ part # "unix" => path = CHOOSE p \in FirstPaths : TRUE
  /\ part # "path" => override = "unset" /\ \A d \in DOMAIN dirIs : dirIs[d] = "secure"

MCNext == InUnix(Next) \/ InPipe(PipeNext) \/ InPath(PathNext) \/ InConn(ConnNext)

\* The server task runs on the tokio runtime, frames keep coming, the toast is
\* a timer and a CLI call runs to its end; nobody has to answer a dialog.
MCFairness ==
  /\ \A g \in Guis : WF_mcVars(InUnix(Serve(g))) /\ WF_mcVars(InUnix(Poll(g))) /\ WF_mcVars(InUnix(ToastEnds(g)))
  /\ \A c \in Clis : WF_mcVars(InUnix(CallProbe(c))) /\ WF_mcVars(InUnix(CallWait(c)))
  /\ \A s \in Servers : WF_mcVars(InPipe(Creates(s)))
  /\ WF_mcVars(InConn(ServerSteps))

MCSpec == MCInit /\ [][MCNext]_mcVars /\ MCFairness

\* From where a caller looks to the answer it gets: on Linux all processes
\* derive one path (default_socket_path); on Windows a GUI never joins
\* another's pipe name, serves its own user within its slots, and a start that
\* cannot have the name ends (IpcServer::serve, create_with); pipelined frames
\* are answered in order, none twice and none behind the frame that ended the
\* conversation, and the connection's slot comes back (handle_connection).
CallersAreServed ==
  /\ []CallersLookThere
  /\ PipeStartsAreSafe
  /\ [](RepliesInOrder /\ HandlersInTurn /\ NothingTakenIsDropped)
  /\ part = "conn" => SlotComesBack
=============================================================================
