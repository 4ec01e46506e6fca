---------------------------- MODULE ControlSocket ----------------------------
(***************************************************************************)
(* Who owns the control socket.  Every GUI process starts a server that    *)
(* inspects the socket path, probes what it finds there, removes what it   *)
(* takes for a leftover, binds and restricts the file (IpcServer::serve);  *)
(* a GUI whose server is refused notes why, asks itself to quit through a  *)
(* flag that its frames poll, and closes.  CLI calls probe the same path   *)
(* and start a GUI when nothing listens (daemon.rs, connect_with).         *)
(*                                                                         *)
(* The file system is one path.  A socket file is named by the GUI that    *)
(* bound it; it stays behind when that GUI is gone (nothing unlinks it on  *)
(* exit) and is then a leftover, like `Leftover', the one a process of an  *)
(* earlier session left.  `Foreign' is a file the server refuses to touch  *)
(* and the client refuses to use: not a socket, or another user's.         *)
(*                                                                         *)
(* Bounds: the GUIs and the CLI calls are finite sets, each used once, and *)
(* a call makes at most Patience + 1 probes.                               *)
(***************************************************************************)
EXTENDS Integers, FiniteSets

CONSTANTS
  Guis,        \* GUI processes, started by a user or by a call
  Clis,        \* CLI calls that may start a GUI
  Patience,    \* probes a call may repeat before its deadline
  FirstPaths,  \* what may be at the path when the session begins
  NoFile, Leftover, Foreign, NoGui

ASSUME NamesAssumption ==
  /\ FirstPaths \subseteq {NoFile, Leftover, Foreign}
  /\ {NoFile, Leftover, Foreign, NoGui} \cap Guis = {}
  /\ NoFile # Leftover /\ NoFile # Foreign /\ Leftover # Foreign
ASSUME PatienceAssumption == Patience \in Nat

VARIABLES
  path,      \* the socket file at the path, or NoFile, or Foreign
  restricted,\* the GUIs whose socket file has mode 0600
  server,    \* per GUI: where its serve() is
  saw,       \* per GUI: the file its probe took for a leftover (ghost)
  reason,    \* per GUI: STARTUP_FAILURE holds a reason
  flag,      \* per GUI: SHUTDOWN_REQUESTED
  window,    \* per GUI: off, open, asking (quit dialog), closing (toast), gone
  call,      \* per CLI call: where its connect_with is, or how it ended
  child,     \* per CLI call: the GUI it started
  tries      \* per CLI call: probes left before the deadline

guiVars == <<server, saw, reason, flag, window>>
cliVars == <<call, child, tries>>
vars == <<path, restricted, server, saw, reason, flag, window, call, child, tries>>

Bound == {"securing", "serving"}
Failed == {"refusing", "noted", "refused"}
ServerStates == {"off", "inspecting", "probing", "removing", "binding"} \cup Bound \cup Failed
Ends == {"running", "hopeless", "unstarted", "late", "childExited"}

TypeOK ==
  /\ path \in Guis \cup {NoFile, Leftover, Foreign}
  /\ restricted \subseteq Guis
  /\ server \in [Guis -> ServerStates]
  /\ saw \in [Guis -> Guis \cup {NoFile, Leftover, Foreign}]
  /\ reason \in [Guis -> BOOLEAN]
  /\ flag \in [Guis -> BOOLEAN]
  /\ window \in [Guis -> {"off", "open", "asking", "closing", "gone"}]
  /\ call \in [Clis -> {"idle", "probing", "waiting"} \cup Ends]
  /\ child \in [Clis -> Guis \cup {NoGui}]
  /\ tries \in [Clis -> 0..Patience]

Init ==
  /\ path \in FirstPaths
  /\ restricted = {}
  /\ server = [g \in Guis |-> "off"]
  /\ saw = [g \in Guis |-> NoFile]
  /\ reason = [g \in Guis |-> FALSE]
  /\ flag = [g \in Guis |-> FALSE]
  /\ window = [g \in Guis |-> "off"]
  /\ call = [c \in Clis |-> "idle"]
  /\ child = [c \in Clis |-> NoGui]
  /\ tries = [c \in Clis |-> Patience]

\* A process that has not exited.
Up(g) == window[g] \in {"open", "asking", "closing"}

\* A listener answers connects on its socket file as soon as it is bound; it
\* lives until serve() fails or the process ends.
Listens(p) == p \in Guis /\ server[p] \in Bound /\ Up(p)

-----------------------------------------------------------------------------
\* IpcServer::serve, one action per system call.

\* What the probe of a file says.  A listener whose backlog is full does not
\* answer in time (Unknown).
ProbeResult(p) ==
  IF p = NoFile THEN {"Absent"}
  ELSE IF Listens(p) THEN {"Live", "Unknown"} ELSE {"Stale"}

\* Flawed: a probe that could not tell counts as nobody listening.
ReplaceableUnknown == {"Stale", "Absent", "Unknown"}

\* The outcomes that let the server replace the file.
Replaceable == {"Stale", "Absent"}

Inspect(g) ==
  /\ server[g] = "inspecting" /\ Up(g)
  /\ server' = [server EXCEPT ![g] =
       IF path = NoFile THEN "binding" ELSE IF path = Foreign THEN "refusing" ELSE "probing"]
  /\ UNCHANGED <<path, restricted, saw, reason, flag, window, cliVars>>

Probe(g) ==
  /\ server[g] = "probing" /\ Up(g)
  /\ \E result \in ProbeResult(path) :
       server' = [server EXCEPT ![g] = IF result \in Replaceable THEN "removing" ELSE "refusing"]
  /\ saw' = [saw EXCEPT ![g] = path]
  /\ UNCHANGED <<path, restricted, reason, flag, window, cliVars>>

\* remove_file takes whatever is at the path by now, and its error is ignored.
RemoveFile(g) ==
  /\ server[g] = "removing" /\ Up(g)
  /\ path' = NoFile
  /\ server' = [server EXCEPT ![g] = "binding"]
  /\ UNCHANGED <<restricted, saw, reason, flag, window, cliVars>>

\* The bind creates the file, or fails when there is one again.
Bind(g) ==
  /\ server[g] = "binding" /\ Up(g)
  /\ IF path = NoFile
       THEN path' = g /\ server' = [server EXCEPT ![g] = "securing"]
       ELSE path' = path /\ server' = [server EXCEPT ![g] = "refusing"]
  /\ UNCHANGED <<restricted, saw, reason, flag, window, cliVars>>

\* set_permissions goes by the path too: it restricts whatever file is there,
\* and fails, dropping the listener, when there is none.
Secure(g) ==
  /\ server[g] = "securing" /\ Up(g)
  /\ IF path = NoFile
       THEN server' = [server EXCEPT ![g] = "refusing"] /\ UNCHANGED restricted
       ELSE /\ server' = [server EXCEPT ![g] = "serving"]
            /\ restricted' = restricted \cup ({path} \cap Guis)
  /\ UNCHANGED <<path, saw, reason, flag, window, cliVars>>

\* Flawed: the flag goes up first.
NoteLast(g) ==
  \/ /\ server[g] = "refusing"
     /\ server' = [server EXCEPT ![g] = "noted"]
     /\ flag' = [flag EXCEPT ![g] = TRUE]
     /\ UNCHANGED reason
  \/ /\ server[g] = "noted"
     /\ server' = [server EXCEPT ![g] = "refused"]
     /\ reason' = [reason EXCEPT ![g] = TRUE]
     /\ UNCHANGED flag

\* A failed start leaves its reason before it raises the flag, so that the
\* frame that takes the flag finds the reason.
NoteFirst(g) ==
  \/ /\ server[g] = "refusing"
     /\ server' = [server EXCEPT ![g] = "noted"]
     /\ reason' = [reason EXCEPT ![g] = TRUE]
     /\ UNCHANGED flag
  \/ /\ server[g] = "noted"
     /\ server' = [server EXCEPT ![g] = "refused"]
     /\ flag' = [flag EXCEPT ![g] = TRUE]
     /\ UNCHANGED reason

ReportFailure(g) ==
  /\ Up(g)
  /\ NoteFirst(g)
  /\ UNCHANGED <<path, restricted, saw, window, cliVars>>

Serve(g) == Inspect(g) \/ Probe(g) \/ RemoveFile(g) \/ Bind(g) \/ Secure(g) \/ ReportFailure(g)

-----------------------------------------------------------------------------
\* The window: _poll_ipc_requests and request_quit.

\* The quit walk: no dialog when no pane is busy.
QuitAsks == {"asking", "gone"}

\* A frame takes the flag.  A refused instance says why and quits without
\* asking; any other request walks the panes, unless a walk is under way.
Poll(g) ==
  /\ window[g] \in {"open", "asking"} /\ flag[g]
  /\ flag' = [flag EXCEPT ![g] = FALSE]
  /\ IF reason[g]
       THEN window' = [window EXCEPT ![g] = "closing"]
       ELSE IF window[g] = "asking" THEN UNCHANGED window
       ELSE \E next \in QuitAsks : window' = [window EXCEPT ![g] = next]
  /\ reason' = [reason EXCEPT ![g] = FALSE]
  /\ UNCHANGED <<path, restricted, server, saw, cliVars>>

\* The toast has been on screen long enough (at once when headless).
ToastEnds(g) ==
  /\ window[g] = "closing"
  /\ window' = [window EXCEPT ![g] = "gone"]
  /\ UNCHANGED <<path, restricted, server, saw, reason, flag, cliVars>>

\* The user closes the window, or answers the quit dialog.
CloseWindow(g) ==
  /\ window[g] = "open"
  /\ \E next \in QuitAsks : window' = [window EXCEPT ![g] = next]
  /\ UNCHANGED <<path, restricted, server, saw, reason, flag, cliVars>>

AnswerQuit(g) ==
  /\ window[g] = "asking"
  /\ \E next \in {"open", "gone"} : window' = [window EXCEPT ![g] = next]
  /\ UNCHANGED <<path, restricted, server, saw, reason, flag, cliVars>>

Crash(g) ==
  /\ Up(g)
  /\ window' = [window EXCEPT ![g] = "gone"]
  /\ UNCHANGED <<path, restricted, server, saw, reason, flag, cliVars>>

\* `gpty daemon stop' reaches the server at the path: shutdown_handler.
Stop(g) ==
  /\ path = g /\ g \in restricted /\ server[g] = "serving" /\ Up(g)
  /\ flag' = [flag EXCEPT ![g] = TRUE]
  /\ UNCHANGED <<path, restricted, server, saw, reason, window, cliVars>>

\* A process comes up with its window, and ensure_server_started runs once.
OpenWindow(g) ==
  /\ window[g] = "off"
  /\ window' = [window EXCEPT ![g] = "open"]
  /\ server' = [server EXCEPT ![g] = "inspecting"]

Launch(g) ==
  /\ OpenWindow(g)
  /\ UNCHANGED <<path, restricted, saw, reason, flag, cliVars>>

-----------------------------------------------------------------------------
\* The CLI: probe_with and connect_with.

\* The client refuses a file that is not its own or is open to others, before
\* it connects; a listener that does not serve yet, or is slow, is Busy.
Answers(p) ==
  IF p = Foreign \/ p \in Guis \ restricted THEN {"Failed"}
  ELSE IF ~Listens(p) THEN {"Absent"}
  ELSE IF server[p] = "serving" THEN {"Running", "Busy"} ELSE {"Busy"}

\* Flawed: any answer that is not the GUI's starts one.
StartsGuiOnSilence == {"Absent", "Busy"}

\* The answers on which a call without a child starts a GUI.
StartsGui == {"Absent"}

Begin(c) ==
  /\ call[c] = "idle"
  /\ call' = [call EXCEPT ![c] = "probing"]
  /\ UNCHANGED <<path, restricted, guiVars, child, tries>>

Starts(c, answer) == answer \in StartsGui /\ child[c] = NoGui

\* A call that starts a GUI waits for it, or ends when there is none to start.
Spawn(c) ==
  \/ \E g \in Guis :
       /\ OpenWindow(g)
       /\ child' = [child EXCEPT ![c] = g]
       /\ call' = [call EXCEPT ![c] = "waiting"]
  \/ call' = [call EXCEPT ![c] = "unstarted"] /\ UNCHANGED <<server, window, child>>

CallProbe(c) ==
  /\ call[c] = "probing"
  /\ \E answer \in Answers(path) :
       IF Starts(c, answer) THEN Spawn(c)
       ELSE /\ call' = [call EXCEPT ![c] =
                 IF answer = "Running" THEN "running"
                 ELSE IF answer = "Failed" THEN "hopeless" ELSE "waiting"]
            /\ UNCHANGED <<server, window, child>>
  /\ UNCHANGED <<path, restricted, saw, reason, flag, tries>>

\* The deadline, in probes left.
DeadlinePassed(c) == tries[c] = 0

FewerTries(n) == IF n = 0 THEN 0 ELSE n - 1

\* The end of the loop: the deadline, then the child's exit, then a pause.
CallWait(c) ==
  /\ call[c] = "waiting"
  /\ call' = [call EXCEPT ![c] =
       IF DeadlinePassed(c) THEN "late"
       ELSE IF child[c] # NoGui /\ window[child[c]] = "gone" THEN "childExited"
       ELSE "probing"]
  /\ tries' = [tries EXCEPT ![c] = FewerTries(tries[c])]
  /\ UNCHANGED <<path, restricted, guiVars, child>>

-----------------------------------------------------------------------------
Next ==
  \/ \E g \in Guis :
       \/ Serve(g) \/ Poll(g) \/ ToastEnds(g)
       \/ CloseWindow(g) \/ AnswerQuit(g) \/ Crash(g) \/ Stop(g) \/ Launch(g)
  \/ \E c \in Clis : Begin(c) \/ CallProbe(c) \/ CallWait(c)

Spec == Init /\ [][Next]_vars

-----------------------------------------------------------------------------
\* serve (server.rs:190): a file with a listener behind it is removed from the
\* path only by a server that probed another file there and was overtaken: no
\* answered or unanswered probe ever ends in the removal of what was probed.
LiveSocketsAreLeftAlone ==
  [][\A h \in Guis : path = h /\ Listens(h) /\ path' # h =>
       \E g \in Guis : server[g] = "removing" /\ saw[g] # h]_vars

\* connect_with (daemon.rs:246): a call starts one GUI at most, and none while
\* something listens at the path, however long that takes to answer.
StartsOnlyIntoSilence ==
  [][\A c \in Clis : child'[c] # child[c] => child[c] = NoGui /\ ~Listens(path)]_vars

\* start_ipc_server_inner (ipc.rs:335): a window does not stay open without a
\* control server, whatever the panes ask and whoever cancels a quit dialog.
EveryWindowServesOrCloses ==
  \A g \in Guis : window[g] = "open" ~> server[g] = "serving" \/ window[g] = "gone"

\* connect_with: every call ends, with or without a GUI.
EveryCallEnds == \A c \in Clis : call[c] = "probing" ~> call[c] \in Ends

\* A start comes to an end, the window's and the call's.
StartsSettle == EveryWindowServesOrCloses /\ EveryCallEnds

\* server.rs:163 removes a socket "only when nothing is listening on it", so a
\* serving GUI is the one at the path.
EveryServerIsReachable == \A g \in Guis : server[g] = "serving" /\ Up(g) => path = g

=============================================================================
