------------------------- MODULE ControlSocketProofs -------------------------
(***************************************************************************)
(* The control socket, for any set of GUIs, servers, processes and calls   *)
(* and streams of any length: a live socket is taken from the path only by *)
(* a server that was overtaken; a call starts a GUI only into silence; a   *)
(* refused window that is still open holds both its flag and its reason; a *)
(* Windows pipe name is claimed once and a slot is its server's; whoever   *)
(* works out the path finds the same one; the frames of a connection run   *)
(* and are answered in turn.                                               *)
(***************************************************************************)
EXTENDS ControlSocket, WindowsPipe, SocketPath, ControlConnection, FiniteSetTheorems, TLAPS

\* The inductive invariant.

\* A GUI whose socket will never be listened on again.
Finished(g) == window[g] = "gone" \/ server[g] \in Failed

\* A process that has not started has no server.
FreshInv == \A g \in Guis : window[g] = "off" => server[g] = "off"

\* A GUI's file is at the path only after it was bound.
FileInv == path \in Guis => server[path] \in Bound \cup Failed

\* What a server is about to remove was finished when it was probed.
SawInv == \A g \in Guis : server[g] = "removing" /\ saw[g] \in Guis => Finished(saw[g])

\* The reason is there before the flag, and a frame takes both at once.
ReportInv == \A g \in Guis :
  /\ flag[g] => server[g] \in {"serving", "refused"}
  /\ server[g] = "noted" /\ Up(g) => reason[g]
  /\ server[g] = "refused" /\ window[g] \in {"open", "asking"} => flag[g] /\ reason[g]

Inv == FreshInv /\ FileInv /\ SawInv

\* The first state is well typed and nothing has started in it.
LEMMA InitInv == Init => TypeOK /\ Inv
  BY NamesAssumption, PatienceAssumption
  DEF Init, TypeOK, Inv, FreshInv, FileInv, SawInv, ServerStates, Bound, Failed

\* Every step keeps the types.
LEMMA TypeStep == TypeOK /\ [Next]_vars => TypeOK'
<1> SUFFICES ASSUME TypeOK, [Next]_vars PROVE TypeOK'
  OBVIOUS
<1> USE DEF TypeOK, ServerStates, Bound, Failed, Ends, cliVars, guiVars
<1>1. ASSUME NEW g \in Guis, Serve(g) PROVE TypeOK'
  <2>1. CASE Inspect(g) BY <2>1 DEF Inspect
  <2>2. CASE Probe(g) BY <2>2 DEF Probe
  <2>3. CASE RemoveFile(g) BY <2>3 DEF RemoveFile
  <2>4. CASE Bind(g) BY <2>4 DEF Bind
  <2>5. CASE Secure(g) BY <2>5 DEF Secure
  <2>6. CASE ReportFailure(g) BY <2>6 DEF ReportFailure, NoteFirst
  <2> QED BY <1>1, <2>1, <2>2, <2>3, <2>4, <2>5, <2>6 DEF Serve
<1>2. ASSUME NEW g \in Guis, Poll(g) PROVE TypeOK'
  BY <1>2 DEF Poll, QuitAsks
<1>3. ASSUME NEW g \in Guis, ToastEnds(g) \/ CloseWindow(g) \/ AnswerQuit(g) \/ Crash(g) PROVE TypeOK'
  BY <1>3 DEF ToastEnds, CloseWindow, AnswerQuit, Crash, QuitAsks
<1>4. ASSUME NEW g \in Guis, Stop(g) \/ Launch(g) PROVE TypeOK'
  BY <1>4 DEF Stop, Launch, OpenWindow
<1>5. ASSUME NEW c \in Clis, Begin(c) PROVE TypeOK'
  BY <1>5 DEF Begin
<1>6. ASSUME NEW c \in Clis, CallProbe(c) PROVE TypeOK'
  <2>1. PICK answer \in Answers(path) :
          IF Starts(c, answer) THEN Spawn(c)
          ELSE /\ call' = [call EXCEPT ![c] =
                    IF answer = "Running" THEN "running"
                    ELSE IF answer = "Failed" THEN "hopeless" ELSE "waiting"]
               /\ UNCHANGED <<server, window, child>>
    BY <1>6 DEF CallProbe
  <2>2. UNCHANGED <<path, restricted, saw, reason, flag, tries>>
    BY <1>6 DEF CallProbe
  <2>3. CASE Starts(c, answer) BY <2>1, <2>2, <2>3 DEF Spawn, OpenWindow
  <2>4. CASE ~Starts(c, answer) BY <2>1, <2>2, <2>4
  <2> QED BY <2>3, <2>4
<1>7. ASSUME NEW c \in Clis, CallWait(c) PROVE TypeOK'
  <2>1. FewerTries(tries[c]) \in 0..Patience
    BY PatienceAssumption DEF FewerTries
  <2> QED BY <1>7, <2>1 DEF CallWait
<1>8. CASE UNCHANGED vars BY <1>8 DEF vars
<1> QED BY <1>1, <1>2, <1>3, <1>4, <1>5, <1>6, <1>7, <1>8 DEF Next

\* The steps of a server keep the invariant.
LEMMA ServeInv == ASSUME TypeOK, Inv, NEW g \in Guis, Serve(g) PROVE Inv'
<1> USE DEF TypeOK, Inv, FreshInv, FileInv, SawInv, Finished, Up, Bound, Failed, cliVars
<1>1. CASE Inspect(g) BY <1>1 DEF Inspect
<1>2. CASE Probe(g)
  <2>1. ASSUME path \in Guis, server'[g] = "removing" PROVE Finished(path)'
    BY <1>2, <2>1, NamesAssumption DEF Probe, ProbeResult, Replaceable, Listens
  <2> QED BY <1>2, <2>1 DEF Probe
<1>3. CASE RemoveFile(g) BY <1>3, NamesAssumption DEF RemoveFile
<1>4. CASE Bind(g) BY <1>4, NamesAssumption DEF Bind
<1>5. CASE Secure(g) BY <1>5 DEF Secure
<1>6. CASE ReportFailure(g) BY <1>6 DEF ReportFailure, NoteFirst
<1> QED BY <1>1, <1>2, <1>3, <1>4, <1>5, <1>6 DEF Serve

\* The steps of a window keep the invariant.
LEMMA WindowInv ==
  ASSUME TypeOK, Inv, NEW g \in Guis,
         Poll(g) \/ ToastEnds(g) \/ CloseWindow(g) \/ AnswerQuit(g) \/ Crash(g) \/ Stop(g)
  PROVE  Inv'
<1> USE DEF TypeOK, Inv, FreshInv, FileInv, SawInv, Finished, Up, Failed, cliVars
<1>1. CASE Poll(g) BY <1>1 DEF Poll, QuitAsks
<1>2. CASE ToastEnds(g) BY <1>2 DEF ToastEnds
<1>3. CASE CloseWindow(g) BY <1>3 DEF CloseWindow, QuitAsks
<1>4. CASE AnswerQuit(g) BY <1>4 DEF AnswerQuit
<1>5. CASE Crash(g) BY <1>5 DEF Crash
<1>6. CASE Stop(g) BY <1>6 DEF Stop
<1> QED BY <1>1, <1>2, <1>3, <1>4, <1>5, <1>6

\* A process that comes up keeps the invariant.
LEMMA OpenInv ==
  ASSUME TypeOK, Inv, NEW g \in Guis, OpenWindow(g), UNCHANGED <<path, saw>>
  PROVE  Inv'
  BY DEF TypeOK, Inv, FreshInv, FileInv, SawInv, Finished, Bound, Failed, OpenWindow

\* So every step keeps it: a call touches the GUIs only by starting one.
LEMMA StepInv == TypeOK /\ Inv /\ [Next]_vars => Inv'
<1> SUFFICES ASSUME TypeOK, Inv, [Next]_vars PROVE Inv'
  OBVIOUS
<1>1. ASSUME UNCHANGED <<path, server, saw, window>> PROVE Inv'
  BY <1>1 DEF Inv, FreshInv, FileInv, SawInv, Finished
<1>2. ASSUME NEW g \in Guis, Launch(g) PROVE Inv'
  BY <1>2, OpenInv DEF Launch
<1>3. ASSUME NEW c \in Clis, Begin(c) \/ CallWait(c) PROVE Inv'
  BY <1>3, <1>1 DEF Begin, CallWait, guiVars
<1>4. ASSUME NEW c \in Clis, CallProbe(c) PROVE Inv'
  <2>1. UNCHANGED <<path, saw>> BY <1>4 DEF CallProbe
  <2>2. (\E g \in Guis : OpenWindow(g)) \/ UNCHANGED <<server, window>>
    BY <1>4 DEF CallProbe, Spawn
  <2> QED BY <2>1, <2>2, <1>1, OpenInv
<1>5. CASE UNCHANGED vars BY <1>5, <1>1 DEF vars
<1> QED BY <1>2, <1>3, <1>4, <1>5, ServeInv, WindowInv DEF Next

-----------------------------------------------------------------------------
\* Type correctness, for any GUIs, calls and patience.
THEOREM TypeCorrect == Spec => []TypeOK
<1>1. Init => TypeOK BY InitInv
<1>2. TypeOK /\ [Next]_vars => TypeOK' BY TypeStep
<1> QED BY <1>1, <1>2, PTL DEF Spec

\* Whatever is at the path and whoever listens there, only a server that
\* probed something else is able to take it away.
LEMMA TakenByTheOvertaken ==
  ASSUME TypeOK, Inv, Next, NEW h \in Guis, path = h, Listens(h), path' # h
  PROVE  \E g \in Guis : server[g] = "removing" /\ saw[g] # h
<1>1. PICK g \in Guis : RemoveFile(g) \/ Bind(g)
  <2>1. ASSUME NEW g \in Guis,
               Inspect(g) \/ Probe(g) \/ Secure(g) \/ ReportFailure(g) \/ Poll(g)
               \/ ToastEnds(g) \/ CloseWindow(g) \/ AnswerQuit(g) \/ Crash(g)
               \/ Stop(g) \/ Launch(g)
        PROVE  path' = path
    BY <2>1 DEF Inspect, Probe, Secure, ReportFailure, Poll, ToastEnds, CloseWindow,
                AnswerQuit, Crash, Stop, Launch
  <2>2. ASSUME NEW c \in Clis, Begin(c) \/ CallProbe(c) \/ CallWait(c) PROVE path' = path
    BY <2>2 DEF Begin, CallProbe, CallWait
  <2> QED BY <2>1, <2>2 DEF Next, Serve
<1>2. CASE Bind(g)
  BY <1>2, NamesAssumption DEF Bind
<1>3. CASE RemoveFile(g)
  BY <1>3 DEF RemoveFile, Inv, SawInv, Finished, Listens, Up, Bound, Failed
<1> QED BY <1>1, <1>2, <1>3

\* serve never removes what it found alive or could not tell: a listening
\* GUI loses the path only to a server that was overtaken after its probe.
THEOREM LiveSocketsStay == Spec => LiveSocketsAreLeftAlone
<1>1. Init => TypeOK /\ Inv BY InitInv
<1>2. TypeOK /\ Inv /\ [Next]_vars => (TypeOK /\ Inv)' BY TypeStep, StepInv
<1>3. TypeOK /\ Inv /\ [Next]_vars =>
        [\A h \in Guis : path = h /\ Listens(h) /\ path' # h =>
           \E g \in Guis : server[g] = "removing" /\ saw[g] # h]_vars
  BY TakenByTheOvertaken DEF vars
<1> QED BY <1>1, <1>2, <1>3, PTL DEF Spec, LiveSocketsAreLeftAlone

-----------------------------------------------------------------------------
\* The order of a failed start, which the liveness of the window rests on.
LEMMA ReportStep == TypeOK /\ FreshInv /\ ReportInv /\ [Next]_vars => ReportInv'
<1> SUFFICES ASSUME TypeOK, FreshInv, ReportInv, [Next]_vars PROVE ReportInv'
  OBVIOUS
<1> USE DEF TypeOK, FreshInv, ReportInv, Up, cliVars, guiVars
<1>1. ASSUME NEW g \in Guis, Serve(g) PROVE ReportInv'
  <2>1. CASE Inspect(g) BY <2>1 DEF Inspect
  <2>2. CASE Probe(g) BY <2>2 DEF Probe
  <2>3. CASE RemoveFile(g) BY <2>3 DEF RemoveFile
  <2>4. CASE Bind(g) BY <2>4 DEF Bind
  <2>5. CASE Secure(g) BY <2>5 DEF Secure
  <2>6. CASE ReportFailure(g) BY <2>6 DEF ReportFailure, NoteFirst
  <2> QED BY <1>1, <2>1, <2>2, <2>3, <2>4, <2>5, <2>6 DEF Serve
<1>2. ASSUME NEW g \in Guis, Poll(g) PROVE ReportInv'
  BY <1>2 DEF Poll, QuitAsks
<1>3. ASSUME NEW g \in Guis, ToastEnds(g) \/ CloseWindow(g) \/ AnswerQuit(g) \/ Crash(g) PROVE ReportInv'
  BY <1>3 DEF ToastEnds, CloseWindow, AnswerQuit, Crash, QuitAsks
<1>4. ASSUME NEW g \in Guis, Stop(g) \/ Launch(g) PROVE ReportInv'
  BY <1>4 DEF Stop, Launch, OpenWindow
<1>5. ASSUME NEW c \in Clis, Begin(c) \/ CallWait(c) PROVE ReportInv'
  BY <1>5 DEF Begin, CallWait
<1>6. ASSUME NEW c \in Clis, CallProbe(c) PROVE ReportInv'
  <2>1. UNCHANGED <<reason, flag>> BY <1>6 DEF CallProbe
  <2>2. (\E g \in Guis : OpenWindow(g)) \/ UNCHANGED <<server, window>>
    BY <1>6 DEF CallProbe, Spawn
  <2> QED BY <2>1, <2>2 DEF OpenWindow
<1>7. CASE UNCHANGED vars BY <1>7 DEF vars
<1> QED BY <1>1, <1>2, <1>3, <1>4, <1>5, <1>6, <1>7 DEF Next

\* A refused instance whose window is still open has both its flag and its
\* reason waiting for the next frame, so that frame closes it without asking.
THEOREM RefusedWindowsAreTold == Spec => []ReportInv
<1>1. Init => TypeOK /\ Inv /\ ReportInv
  BY InitInv DEF Init, ReportInv
<1>2. TypeOK /\ Inv /\ ReportInv /\ [Next]_vars => (TypeOK /\ Inv /\ ReportInv)'
  BY TypeStep, StepInv, ReportStep DEF Inv
<1> QED BY <1>1, <1>2, PTL DEF Spec

-----------------------------------------------------------------------------
(* The pipe name on Windows. *)

Places == {"off", "create", "listening", "refused", "gone"}

PipeTypes ==
    /\ accept \in [Servers -> Places]
    /\ claimed \in [Servers -> BOOLEAN] /\ created \in [Servers -> BOOLEAN]
    /\ served \in [Servers -> SUBSET Peers]

\* A server has spent its claim exactly when it has created an instance.
ClaimsAreTrue == \A s \in Servers : claimed[s] = created[s]

FiniteSlots == \A s \in Servers : IsFiniteSet(served[s])

PipeInv == PipeTypes /\ ClaimsAreTrue /\ FiniteSlots /\ SlotsAreOwn

\* Before any launch nobody is served.
LEMMA PipeInitInv == PipeInit => PipeInv
  <1> SUFFICES ASSUME PipeInit PROVE PipeInv
    OBVIOUS
  <1>1. PipeTypes
    BY DEF PipeInit, PipeTypes, Places
  <1>2. ClaimsAreTrue
    BY DEF PipeInit, ClaimsAreTrue
  <1>3. FiniteSlots /\ SlotsAreOwn
    BY FS_EmptySet, WindowsPipeAssumption DEF PipeInit, FiniteSlots, SlotsAreOwn
  <1>4. QED
    BY <1>1, <1>2, <1>3 DEF PipeInv

\* Steps that serve nobody anew keep the slots.
LEMMA SlotsKept ==
  ASSUME FiniteSlots, SlotsAreOwn, UNCHANGED served
  PROVE  FiniteSlots' /\ SlotsAreOwn'
  BY DEF FiniteSlots, SlotsAreOwn

\* A client that gets a slot is the server's own user, and one was free.
LEMMA AcceptKeeps ==
  ASSUME PipeInv, NEW s \in Servers, NEW p \in Peers, Accept(s, p)
  PROVE  PipeInv'
  <1>1. PICK who \in SUBSET Verified(p) :
          served' = [served EXCEPT ![s] = @ \cup IF Permits(s) > 0 THEN who ELSE {}]
    BY DEF Accept
  <1>2. who \subseteq {p} /\ who \subseteq Own /\ who \subseteq Peers
    BY <1>1, WindowsPipeAssumption DEF Verified
  <1> DEFINE now == served[s] \cup IF Permits(s) > 0 THEN who ELSE {}
  <1>3. /\ IsFiniteSet(served[s]) /\ served[s] \subseteq Own /\ served[s] \subseteq Peers
        /\ Cardinality(served[s]) <= MaxConnections /\ Cardinality(served[s]) \in Nat
    BY FS_CardinalityType DEF PipeInv, PipeTypes, FiniteSlots, SlotsAreOwn
  <1>4. now \subseteq Own /\ now \subseteq Peers
    BY <1>2, <1>3
  <1>5. IsFiniteSet(now) /\ Cardinality(now) <= MaxConnections
    <2>1. CASE now = served[s]
      BY <1>3, <2>1
    <2>2. CASE now # served[s]
      <3>1. Permits(s) > 0 /\ now = served[s] \cup {p} /\ p \notin served[s]
        BY <1>2, <2>2
      <3>2. Cardinality(served[s]) + 1 <= MaxConnections
        BY <1>3, <3>1, WindowsPipeAssumption DEF Permits
      <3> HIDE DEF now
      <3>3. IsFiniteSet(now) /\ Cardinality(now) = Cardinality(served[s]) + 1
        BY <1>3, <3>1, FS_AddElement
      <3>4. QED
        BY <3>2, <3>3
    <2>3. QED
      BY <2>1, <2>2
  <1> HIDE DEF now
  <1>6. /\ served' = [served EXCEPT ![s] = now]
        /\ accept' = [accept EXCEPT ![s] = "create"] /\ UNCHANGED <<claimed, created>>
    BY <1>1 DEF Accept, Goes, now
  <1>7. PipeTypes' /\ ClaimsAreTrue'
    BY <1>4, <1>6 DEF PipeInv, PipeTypes, ClaimsAreTrue, Places
  <1>8. FiniteSlots' /\ SlotsAreOwn'
    BY <1>4, <1>5, <1>6 DEF PipeInv, PipeTypes, FiniteSlots, SlotsAreOwn
  <1>9. QED
    BY <1>7, <1>8 DEF PipeInv

\* A handler that ends, or a server that goes, frees slots and takes none.
LEMMA FreeKeeps ==
  ASSUME PipeInv, NEW s \in Servers, NEW left \in SUBSET served[s],
         served' = [served EXCEPT ![s] = left],
         accept' \in [Servers -> Places], UNCHANGED <<claimed, created>>
  PROVE  PipeInv'
  <1>1. /\ IsFiniteSet(served[s]) /\ served[s] \subseteq Own /\ served[s] \subseteq Peers
        /\ Cardinality(served[s]) <= MaxConnections /\ Cardinality(served[s]) \in Nat
    BY FS_CardinalityType DEF PipeInv, PipeTypes, FiniteSlots, SlotsAreOwn
  <1>2. /\ IsFiniteSet(left) /\ Cardinality(left) <= Cardinality(served[s])
        /\ Cardinality(left) \in Nat
    BY <1>1, FS_Subset, FS_CardinalityType
  <1>3. Cardinality(left) <= MaxConnections
    BY <1>1, <1>2, WindowsPipeAssumption
  <1>4. PipeTypes' /\ ClaimsAreTrue'
    BY <1>1 DEF PipeInv, PipeTypes, ClaimsAreTrue
  <1>5. FiniteSlots' /\ SlotsAreOwn'
    BY <1>1, <1>2, <1>3 DEF PipeInv, PipeTypes, FiniteSlots, SlotsAreOwn
  <1>6. QED
    BY <1>4, <1>5 DEF PipeInv

\* One case per action of a server.
LEMMA PipeNextInv == PipeInv /\ [PipeNext]_pipeVars => PipeInv'
  <1> SUFFICES ASSUME PipeInv, [PipeNext]_pipeVars PROVE PipeInv'
    OBVIOUS
  <1>1. ASSUME NEW s \in Servers,
               LaunchServer(s) \/ NameTaken(s) \/ ConnectFails(s)
        PROVE  PipeInv'
    <2>1. accept' \in [Servers -> Places] /\ UNCHANGED <<claimed, created, served>>
      BY <1>1 DEF LaunchServer, NameTaken, ConnectFails, Goes, PipeInv, PipeTypes, Places
    <2>2. QED
      BY <2>1, SlotsKept DEF PipeInv, PipeTypes, ClaimsAreTrue
  <1>2. ASSUME NEW s \in Servers, CreateInstance(s) PROVE PipeInv'
    <2>1. PipeTypes' /\ ClaimsAreTrue'
      BY <1>2 DEF CreateInstance, Goes, PipeInv, PipeTypes, ClaimsAreTrue, Places
    <2>2. UNCHANGED served
      BY <1>2 DEF CreateInstance
    <2>3. QED
      BY <2>1, <2>2, SlotsKept DEF PipeInv
  <1>3. ASSUME NEW s \in Servers, CreateFails(s) PROVE PipeInv'
    <2>1. UNCHANGED <<claimed, created, served>>
      BY <1>3 DEF CreateFails, ClaimKept, PipeInv, PipeTypes
    <2>2. accept' \in [Servers -> Places]
      BY <1>3 DEF CreateFails, Goes, PipeInv, PipeTypes, Places
    <2>3. QED
      BY <2>1, <2>2, SlotsKept DEF PipeInv, PipeTypes, ClaimsAreTrue
  <1>4. ASSUME NEW s \in Servers, NEW p \in Peers, Accept(s, p) PROVE PipeInv'
    BY <1>4, AcceptKeeps
  <1>5. ASSUME NEW s \in Servers, NEW p \in Peers, HandlerEnds(s, p) PROVE PipeInv'
    BY <1>5, FreeKeeps DEF HandlerEnds, PipeInv, PipeTypes
  <1>6. ASSUME NEW s \in Servers, ServerGone(s) PROVE PipeInv'
    <2>1. accept' \in [Servers -> Places]
      BY <1>6 DEF ServerGone, Goes, PipeInv, PipeTypes, Places
    <2>2. QED
      BY <1>6, <2>1, FreeKeeps DEF ServerGone
  <1>7. CASE UNCHANGED pipeVars
    BY <1>7, SlotsKept DEF pipeVars, PipeInv, PipeTypes, ClaimsAreTrue
  <1>8. QED
    BY <1>1, <1>2, <1>3, <1>4, <1>5, <1>6, <1>7 DEF PipeNext

\* Only a create that succeeds takes a server from creating to listening, and
\* the flag lets a first one succeed only while the name is free.
LEMMA ClaimStep == PipeInv /\ [PipeNext]_pipeVars => StartsClaimTheName
  <1> SUFFICES ASSUME PipeInv, [PipeNext]_pipeVars, NEW s \in Servers,
                      accept[s] = "create", accept'[s] = "listening", NameExists
               PROVE  created[s]
    BY DEF StartsClaimTheName
  <1>1. accept \in [Servers -> Places]
    BY DEF PipeInv, PipeTypes
  <1>2. CreateInstance(s)
    <2>1. \A t \in Servers : ~(\/ LaunchServer(t) \/ NameTaken(t) \/ CreateFails(t)
                               \/ ConnectFails(t) \/ ServerGone(t))
      BY <1>1 DEF LaunchServer, NameTaken, CreateFails, ConnectFails, ServerGone, Goes
    <2>2. \A t \in Servers, p \in Peers : ~(Accept(t, p) \/ HandlerEnds(t, p))
      BY <1>1 DEF Accept, HandlerEnds, Goes
    <2>3. \A t \in Servers : CreateInstance(t) => t = s
      BY <1>1 DEF CreateInstance, Goes
    <2>4. ~UNCHANGED pipeVars
      BY DEF pipeVars
    <2>5. QED
      BY <2>1, <2>2, <2>3, <2>4 DEF PipeNext
  <1>3. claimed[s]
    BY <1>2 DEF CreateInstance, Allowed
  <1>4. QED
    BY <1>3 DEF PipeInv, ClaimsAreTrue

\* A server never has more clients than slots, nor one of another user, and a
\* starting GUI never joins the pipe of another window (create_with).
THEOREM PipesAreClaimed == PipeSpec => []SlotsAreOwn /\ [][StartsClaimTheName]_pipeVars
  <1>1. PipeInv => SlotsAreOwn
    BY DEF PipeInv
  <1>2. QED
    BY PipeInitInv, PipeNextInv, ClaimStep, <1>1, PTL DEF PipeSpec

-----------------------------------------------------------------------------
(* One connection. *)

ConnTypes ==
  /\ stream \in Seq(FrameKinds) /\ unfinished \in FrameKinds \cup {"none"}
  /\ taken \in Nat /\ taken <= Len(stream)
  /\ ran \in Seq(Nat) /\ after \in {"continue", "close"}

\* What has run was taken, in order, and is not behind an end.
RanInTurn ==
  /\ \A k \in DOMAIN ran : 1 <= ran[k] /\ ran[k] <= taken /\ stream[ran[k]] = "call"
  /\ \A k \in DOMAIN ran, j \in 1 .. Len(stream) : LastOfAll(stream[j]) => ran[k] <= j
  /\ \A k, l \in DOMAIN ran : k < l => ran[k] < ran[l]

\* While the connection will read on, nothing it took has ended it.
Going == conn \in {"reading", "handling"} \/ (conn = "writing" /\ after = "continue")
NoEndTaken == Going => \A j \in 1 .. taken : ~LastOfAll(stream[j])

ConnInv == ConnTypes /\ RanInTurn /\ NoEndTaken

\* Initially nothing was written and nothing ran.
LEMMA ConnInitInv == ConnInit => ConnInv
  <1> SUFFICES ASSUME ConnInit PROVE ConnInv
    OBVIOUS
  <1>1. stream = <<>> /\ ran = <<>> /\ taken = 0 /\ unfinished = "none"
    BY DEF ConnInit
  <1>2. ConnTypes
    BY <1>1 DEF ConnTypes, ConnInit
  <1>3. RanInTurn
    BY <1>1 DEF RanInTurn
  <1>4. NoEndTaken
    BY <1>1 DEF NoEndTaken
  <1>5. QED
    BY <1>2, <1>3, <1>4 DEF ConnInv

\* A longer stream changes nothing about what was taken.
LEMMA StreamGrows ==
  ASSUME ConnInv, NEW kind \in FrameKinds, stream' = Append(stream, kind),
         unfinished' \in FrameKinds \cup {"none"}, UNCHANGED serverVars
  PROVE  ConnInv'
  <1>1. /\ Len(stream') = Len(stream) + 1
        /\ \A i \in 1 .. Len(stream) : stream'[i] = stream[i]
        /\ stream' \in Seq(FrameKinds)
    BY DEF ConnInv, ConnTypes
  <1>2. UNCHANGED <<taken, conn, after, ran>>
    BY DEF serverVars
  <1>3. ConnTypes'
    BY <1>1, <1>2 DEF ConnInv, ConnTypes
  <1>4. \A k \in DOMAIN ran : ran[k] \in 1 .. Len(stream)
    BY DEF ConnInv, ConnTypes, RanInTurn
  <1>5. RanInTurn'
    <2>1. ASSUME NEW k \in DOMAIN ran, NEW j \in 1 .. Len(stream'), LastOfAll(stream'[j])
          PROVE  ran[k] <= j
      <3>1. CASE j \in 1 .. Len(stream)
        BY <1>1, <2>1, <3>1 DEF ConnInv, ConnTypes, RanInTurn
      <3>2. CASE j = Len(stream) + 1
        BY <1>4, <3>2 DEF ConnInv, ConnTypes
      <3>3. QED
        BY <1>1, <3>1, <3>2 DEF ConnInv, ConnTypes
    <2>2. QED
      BY <1>1, <1>2, <1>4, <2>1 DEF ConnInv, RanInTurn
  <1>6. NoEndTaken'
    BY <1>1, <1>2 DEF ConnInv, ConnTypes, NoEndTaken, Going
  <1>7. QED
    BY <1>3, <1>5, <1>6 DEF ConnInv

\* The client's steps.
LEMMA ClientKeeps == ASSUME ConnInv, ClientSteps PROVE ConnInv'
  <1>1. ASSUME NEW kind \in FrameKinds, Write(kind) PROVE ConnInv'
    <2>1. UNCHANGED serverVars /\ UNCHANGED serverVars => UNCHANGED <<taken, conn, after, ran>>
      BY <1>1 DEF Write, serverVars
    <2>2. CASE kind = "long"
      BY <1>1, <2>1, <2>2, StreamGrows DEF Write, FrameKinds
    <2>3. CASE kind # "long"
      BY <1>1, <2>1, <2>3 DEF Write, ConnInv, ConnTypes, RanInTurn, NoEndTaken, Going
    <2>4. QED
      BY <2>2, <2>3
  <1>2. CASE FinishLine
    <2>1. unfinished \in FrameKinds
      BY <1>2 DEF FinishLine, ConnInv, ConnTypes
    <2>2. QED
      BY <1>2, <2>1, StreamGrows DEF FinishLine
  <1>3. CASE EndStream
    <2>1. CASE unfinished = "none"
      BY <1>3, <2>1 DEF EndStream, serverVars, ConnInv, ConnTypes, RanInTurn, NoEndTaken, Going
    <2>2. CASE unfinished # "none"
      <3>1. PICK kind \in {unfinished, "garbage"} : stream' = Append(stream, kind)
        BY <1>3, <2>2 DEF EndStream
      <3>2. kind \in FrameKinds
        BY <2>2 DEF ConnInv, ConnTypes, FrameKinds
      <3>3. QED
        BY <1>3, <3>1, <3>2, StreamGrows DEF EndStream
    <2>3. QED
      BY <2>1, <2>2
  <1>4. CASE StopsListening
    BY <1>4 DEF StopsListening, serverVars, ConnInv, ConnTypes, RanInTurn, NoEndTaken, Going
  <1>5. QED
    BY <1>1, <1>2, <1>3, <1>4 DEF ClientSteps

\* A frame is taken: it runs only as a request, and while nothing ended the
\* conversation.
LEMMA TakeKeeps == ASSUME ConnInv, TakeFrame PROVE ConnInv'
  <1> DEFINE kind == stream[taken + 1]
  <1>1. /\ conn = "reading" /\ taken < Len(stream) /\ taken' = taken + 1
        /\ UNCHANGED <<stream, unfinished>>
    BY DEF TakeFrame
  <1>2. kind \in FrameKinds /\ taken + 1 \in 1 .. Len(stream) /\ taken \in Nat
    BY <1>1 DEF ConnInv, ConnTypes
  <1>3. \A j \in 1 .. taken : ~LastOfAll(stream[j])
    BY <1>1 DEF ConnInv, NoEndTaken, Going
  <1>4. CASE kind = "call"
    <2>1. ran' = Append(ran, taken + 1) /\ conn' = "handling"
      BY <1>4 DEF TakeFrame, Silent
    <2>2. /\ ran' \in Seq(Nat) /\ Len(ran') = Len(ran) + 1
          /\ \A k \in 1 .. Len(ran) : ran'[k] = ran[k]
          /\ ran'[Len(ran) + 1] = taken + 1
      BY <1>2, <2>1 DEF ConnInv, ConnTypes
    <2>3. \A k \in DOMAIN ran' : \/ k \in DOMAIN ran /\ ran'[k] = ran[k]
                                 \/ k = Len(ran) + 1 /\ ran'[k] = taken + 1
      <3>1. DOMAIN ran' = 1 .. Len(ran') /\ DOMAIN ran = 1 .. Len(ran) /\ Len(ran) \in Nat
        BY <2>2 DEF ConnInv, ConnTypes
      <3>2. \A k \in 1 .. Len(ran') : k \in 1 .. Len(ran) \/ k = Len(ran) + 1
        BY <2>2, <3>1
      <3>3. QED
        BY <2>2, <3>1, <3>2, Zenon
    <2>4. ConnTypes'
      BY <1>1, <1>2, <1>4, <2>2 DEF ConnInv, ConnTypes, TakeFrame, Silent
    <2>5. \A k \in DOMAIN ran' : 1 <= ran'[k] /\ ran'[k] <= taken' /\ stream'[ran'[k]] = "call"
      BY <1>1, <1>2, <1>4, <2>3 DEF ConnInv, ConnTypes, RanInTurn
    <2>6. \A k \in DOMAIN ran', j \in 1 .. Len(stream') : LastOfAll(stream'[j]) => ran'[k] <= j
      BY <1>1, <1>2, <1>3, <2>3 DEF ConnInv, ConnTypes, RanInTurn
    <2>7. \A k, l \in DOMAIN ran' : k < l => ran'[k] < ran'[l]
      <3>1. DOMAIN ran = 1 .. Len(ran) /\ Len(ran) \in Nat
        BY DEF ConnInv, ConnTypes
      <3>2. \A k \in DOMAIN ran : ran[k] \in Nat /\ ran[k] < taken + 1
        BY <1>2 DEF ConnInv, ConnTypes, RanInTurn
      <3>3. QED
        BY <1>2, <2>3, <3>1, <3>2 DEF ConnInv, RanInTurn
    <2>8. NoEndTaken'
      <3>1. ~LastOfAll(kind)
        BY <1>4 DEF LastOfAll
      <3>2. QED
        BY <1>1, <1>2, <1>3, <3>1 DEF NoEndTaken
    <2>9. QED
      BY <2>4, <2>5, <2>6, <2>7, <2>8 DEF ConnInv, RanInTurn
  <1>5. CASE kind # "call"
    <2>1. UNCHANGED ran
      BY <1>5 DEF TakeFrame
    <2>2. ConnTypes'
      <3>1. after' \in {"continue", "close"}
        BY <1>5 DEF TakeFrame, ConnInv, ConnTypes
      <3>2. QED
        BY <1>1, <1>2, <2>1, <3>1 DEF ConnInv, ConnTypes
    <2>3. RanInTurn'
      BY <1>1, <1>2, <2>1 DEF ConnInv, ConnTypes, RanInTurn
    <2>4. Going' => ~LastOfAll(kind)
      <3>1. CASE Silent(kind)
        BY <3>1 DEF Silent, LastOfAll
      <3>2. CASE kind = "undecodable"
        <4>1. conn' = "closed"
          BY <3>2 DEF TakeFrame, Silent
        <4>2. QED
          BY <4>1 DEF Going
      <3>3. CASE ~Silent(kind) /\ kind # "undecodable"
        <4>1. conn' = "writing" /\ after' = IF ClosesAfter(kind) THEN "close" ELSE "continue"
          BY <1>5, <3>3 DEF TakeFrame
        <4>2. QED
          BY <3>3, <4>1 DEF Going, ClosesAfter, LastOfAll
      <3>4. QED
        BY <3>1, <3>2, <3>3
    <2>5. NoEndTaken'
      BY <1>1, <1>2, <1>3, <2>4 DEF NoEndTaken
    <2>6. QED
      BY <2>2, <2>3, <2>5 DEF ConnInv
  <1>6. QED
    BY <1>4, <1>5

\* Every step of the client and of the server.
LEMMA ConnNextInv == ConnInv /\ [ConnNext]_connVars => ConnInv'
  <1> SUFFICES ASSUME ConnInv, [ConnNext]_connVars PROVE ConnInv'
    OBVIOUS
  <1>1. CASE ClientSteps
    BY <1>1, ClientKeeps
  <1>2. CASE TakeFrame
    BY <1>2, TakeKeeps
  <1>3. CASE EndOfStream \/ ReadTimesOut \/ HandlerReturns \/ WriteReply \/ WriteFails
    <2>1. UNCHANGED <<stream, unfinished, taken, ran>>
      BY <1>3 DEF EndOfStream, ReadTimesOut, HandlerReturns, WriteReply, WriteFails
    <2>2. (Going' => Going) /\ after' \in {"continue", "close"}
      <3>1. CASE EndOfStream \/ ReadTimesOut \/ WriteFails
        BY <3>1 DEF EndOfStream, ReadTimesOut, WriteFails, Going, ConnInv, ConnTypes
      <3>2. CASE HandlerReturns
        BY <3>2 DEF HandlerReturns, Going
      <3>3. CASE WriteReply
        <4>1. UNCHANGED after /\ conn = "writing" /\ after \in {"continue", "close"}
          BY <3>3 DEF WriteReply, ConnInv, ConnTypes
        <4>2. after = "close" => conn' = "closed"
          BY <3>3 DEF WriteReply
        <4>3. QED
          BY <4>1, <4>2 DEF Going
      <3>4. QED
        BY <1>3, <3>1, <3>2, <3>3
    <2>3. QED
      BY <2>1, <2>2 DEF ConnInv, ConnTypes, RanInTurn, NoEndTaken
  <1>4. CASE UNCHANGED connVars
    BY <1>4 DEF connVars, ConnInv, ConnTypes, RanInTurn, NoEndTaken, Going
  <1>5. QED
    BY <1>1, <1>2, <1>3, <1>4 DEF ConnNext, ServerSteps

\* For streams of any length: a handler runs once for a request, in turn, and
\* never for anything behind a bad credential, an overlong line or one that is
\* no text (handle_frame).
THEOREM HandlersRunInTurn == ConnSpec => []HandlersInTurn
  <1>1. ConnInv => HandlersInTurn
    <2> SUFFICES ASSUME ConnInv PROVE HandlersInTurn
      OBVIOUS
    <2>1. \A k \in DOMAIN ran : ran[k] \in 1 .. Len(stream)
      BY DEF ConnInv, ConnTypes, RanInTurn
    <2>2. QED
      BY <2>1 DEF ConnInv, RanInTurn, HandlersInTurn, Served
  <1>2. QED
    BY ConnInitInv, ConnNextInv, <1>1, PTL DEF ConnSpec

-----------------------------------------------------------------------------
\* A call gets another child only by a probe that nobody listens behind.
LEMMA ChildrenIntoSilence ==
  ASSUME TypeOK, Next, NEW c \in Clis, child'[c] # child[c]
  PROVE  child[c] = NoGui /\ ~Listens(path)
<1>1. PICK d \in Clis : CallProbe(d)
  <2>1. ASSUME NEW g \in Guis,
               \/ Serve(g) \/ Poll(g) \/ ToastEnds(g) \/ CloseWindow(g)
               \/ AnswerQuit(g) \/ Crash(g) \/ Stop(g) \/ Launch(g)
        PROVE  child' = child
    BY <2>1 DEF Serve, Inspect, Probe, RemoveFile, Bind, Secure, ReportFailure, Poll, ToastEnds,
                CloseWindow, AnswerQuit, Crash, Stop, Launch, cliVars
  <2>2. ASSUME NEW e \in Clis, Begin(e) \/ CallWait(e) PROVE child' = child
    BY <2>2 DEF Begin, CallWait
  <2> QED BY <2>1, <2>2 DEF Next
<1>2. PICK answer \in Answers(path) :
        IF Starts(d, answer) THEN Spawn(d) ELSE UNCHANGED child
  BY <1>1 DEF CallProbe
<1>3. Starts(d, answer) /\ Spawn(d)
  BY <1>2
<1>4. c = d
  BY <1>3 DEF Spawn, TypeOK
<1>5. ~Listens(path)
  BY <1>2, <1>3 DEF Starts, StartsGui, Answers
<1> QED BY <1>3, <1>4, <1>5 DEF Starts

\* connect_with starts a GUI only for a call that has none and into silence:
\* whatever answers, however late, keeps every call from starting another.
THEOREM CallsStartIntoSilence == Spec => StartsOnlyIntoSilence
<1>1. TypeOK /\ [Next]_vars =>
        [\A c \in Clis : child'[c] # child[c] => child[c] = NoGui /\ ~Listens(path)]_vars
  BY ChildrenIntoSilence
<1> QED BY <1>1, TypeCorrect, PTL DEF StartsOnlyIntoSilence, Spec

-----------------------------------------------------------------------------
(* The path of the socket. *)

PathSpec == PathInit /\ [][PathNext]_pathVars

Directories == {"xdg_runtime", "run_user", "xdg_state", "home_state"}

PathTypes ==
  /\ override \in {"unset", "relative", "absolute"}
  /\ dirIs \in [Directories -> Kinds]
  /\ at \in [Processes -> 0 .. 4]
  /\ doing \in [Processes -> {"look", "make", "tighten", "check"}]
  /\ place \in [Processes -> {"none", "given", "tmp"} \cup Directories]
  /\ disturbed \in BOOLEAN

\* The k-th candidate as it is found.
FoundAs(k) == dirIs[Candidates[k]]

\* No process of this user settles there, however often it looks: a runtime
\* directory is used as it is, and gpty's own could be made or tightened
\* unless somebody else has to.
Rejected(k) ==
  IF OfGpty(k) THEN FoundAs(k) \in {"unnamed", "sealed", "foreign", "stuck"} ELSE FoundAs(k) # "secure"

\* What a process has left behind it, and what it made sure of so far in the
\* directory it looks at.
PassedInv(p) ==
  /\ \A k \in 1 .. 4 : k < at[p] => Rejected(k)
  /\ place[p] = "tmp" => \A k \in 1 .. 4 : Rejected(k)
  /\ \A k \in 1 .. 4 :
       place[p] = Candidates[k] => FoundAs(k) = "secure" /\ \A n \in 1 .. 4 : n < k => Rejected(n)
BegunInv(p) ==
  /\ at[p] = 0 => place[p] = "none" /\ doing[p] = "look"
  /\ at[p] > 0 => (place[p] = "given" <=> override = "absolute")
DoingInv(p) ==
  /\ doing[p] # "look" => at[p] > 0 /\ OfGpty(at[p])
  /\ doing[p] = "make" => FoundAs(at[p]) # "unnamed"
  /\ doing[p] \in {"tighten", "check"} => FoundAs(at[p]) \notin {"unnamed", "missing", "sealed"}
  /\ doing[p] = "check" => FoundAs(at[p]) # "lax"
CallerInv(p) == PassedInv(p) /\ BegunInv(p) /\ DoingInv(p)

PathInv == ~disturbed => \A p \in Processes : CallerInv(p)

\* Callers change gpty's own directories only, and only for the better.
DirsImprove ==
  \A k \in 1 .. 4 :
    \/ FoundAs(k)' = FoundAs(k)
    \/ OfGpty(k) /\ FoundAs(k) = "missing" /\ FoundAs(k)' \in {"secure", "lax"}
    \/ OfGpty(k) /\ FoundAs(k) = "lax" /\ FoundAs(k)' = "secure"

\* The four candidates are four directories.
LEMMA FourCandidates ==
  /\ Len(Candidates) = 4
  /\ \A k \in 1 .. 4 : Candidates[k] \in Directories
  /\ \A k, n \in 1 .. 4 : Candidates[k] = Candidates[n] => k = n
  /\ \A d \in Directories : \E k \in 1 .. 4 : d = Candidates[k]
  /\ \A k \in 0 .. 4 : OfGpty(k) <=> k > 2
<1>1. /\ Len(Candidates) = 4
      /\ Candidates[1] = "xdg_runtime" /\ Candidates[2] = "run_user"
      /\ Candidates[3] = "xdg_state" /\ Candidates[4] = "home_state"
  BY DEF Candidates, Runtime
<1>2. Len(Runtime) = 2
  BY DEF Runtime
<1> QED
  BY <1>1, <1>2 DEF Directories, OfGpty

\* Where a process looks is one of them.
LEMMA LooksAtOne ==
  ASSUME PathTypes, NEW p \in Processes, Looking(p)
  PROVE  at[p] \in 1 .. 4 /\ Dir(p) \in Directories /\ Now(p) = FoundAs(at[p]) /\ Now(p) \in Kinds
<1>1. at[p] \in 1 .. 4
  BY DEF PathTypes, Looking
<1>2. Dir(p) \in Directories
  BY <1>1, FourCandidates DEF Dir
<1> QED
  BY <1>1, <1>2 DEF Now, Dir, FoundAs, PathTypes

\* The first state: nobody has begun.
LEMMA PathInitInv == PathInit => PathTypes /\ PathInv
<1> SUFFICES ASSUME PathInit PROVE PathTypes /\ PathInv
  OBVIOUS
<1>1. PathTypes
  <2>1. PICK xr, ru \in {"secure", "lax"}, xs, hs \in Kinds :
          dirIs = [xdg_runtime |-> xr, run_user |-> ru, xdg_state |-> xs, home_state |-> hs]
    BY DEF PathInit
  <2>2. xr \in Kinds /\ ru \in Kinds
    BY DEF Kinds
  <2>3. dirIs \in [Directories -> Kinds]
    BY <2>1, <2>2, SMT DEF Directories
  <2>4. /\ at \in [Processes -> 0 .. 4] /\ place \in [Processes -> {"none"}]
        /\ doing \in [Processes -> {"look"}]
    BY DEF PathInit
  <2>5. override \in {"unset", "relative", "absolute"} /\ disturbed = FALSE
    BY DEF PathInit
  <2> QED
    BY <2>3, <2>4, <2>5 DEF PathTypes
<1>2. ASSUME NEW p \in Processes PROVE CallerInv(p)
  <2>1. at[p] = 0 /\ place[p] = "none" /\ doing[p] = "look"
    BY DEF PathInit
  <2>2. \A k \in 1 .. 4 : Candidates[k] # "none"
    BY FourCandidates DEF Directories
  <2> QED
    BY <2>1, <2>2 DEF CallerInv, PassedInv, BegunInv, DoingInv
<1> QED
  BY <1>1, <1>2 DEF PathInv

\* A process keeps what it has while others make and tighten.
LEMMA OthersKeep ==
  ASSUME PathTypes, NEW q \in Processes, CallerInv(q), DirsImprove,
         UNCHANGED <<override, at[q], doing[q], place[q]>>
  PROVE  CallerInv(q)'
<1> at[q] \in 0 .. 4 /\ (at[q] > 0 => at[q] \in 1 .. 4)
  BY DEF PathTypes
<1>1. \A k \in 1 .. 4 : (Rejected(k) => Rejected(k)') /\ (FoundAs(k) = "secure" => FoundAs(k)' = "secure")
  BY DEF DirsImprove, Rejected
<1>2. PassedInv(q)'
  BY <1>1 DEF CallerInv, PassedInv
<1>3. BegunInv(q)'
  BY DEF CallerInv, BegunInv
<1>4. DoingInv(q)'
  BY DEF CallerInv, DoingInv, DirsImprove
<1> QED
  BY <1>2, <1>3, <1>4 DEF CallerInv

\* A candidate that will never do is left for the next.
LEMMA GoesOn ==
  ASSUME PathTypes, NEW p \in Processes, CallerInv(p), Looking(p), NextCandidate(p), Rejected(at[p])
  PROVE  DirsImprove /\ CallerInv(p)'
<1>1. at[p] \in 1 .. 4
  BY LooksAtOne
<1>2. UNCHANGED <<dirIs, override, disturbed>> /\ doing' = [doing EXCEPT ![p] = "look"]
  BY DEF NextCandidate, PathStill
<1>3. \A k \in 1 .. 4 : FoundAs(k)' = FoundAs(k) /\ (Rejected(k)' <=> Rejected(k))
  BY <1>2 DEF FoundAs, Rejected
<1>4. \A k \in 1 .. 4 : k <= at[p] => Rejected(k)
  BY <1>1 DEF CallerInv, PassedInv
<1>5. override # "absolute"
  BY <1>1 DEF CallerInv, BegunInv, Looking
<1>6. CASE at[p] = 4
  <2>1. place' = [place EXCEPT ![p] = "tmp"] /\ at' = at
    BY <1>6, FourCandidates DEF NextCandidate
  <2>2. at'[p] = 4 /\ place'[p] = "tmp" /\ doing'[p] = "look"
    BY <1>2, <1>6, <2>1 DEF PathTypes
  <2>3. \A k \in 1 .. 4 : Candidates[k] # "tmp"
    BY FourCandidates DEF Directories
  <2>4. PassedInv(p)'
    BY <1>3, <1>4, <1>6, <2>2, <2>3 DEF PassedInv
  <2>5. BegunInv(p)' /\ DoingInv(p)'
    BY <1>2, <1>5, <2>2 DEF BegunInv, DoingInv
  <2> QED
    BY <1>3, <2>2, <2>4, <2>5 DEF CallerInv, DirsImprove
<1>7. CASE at[p] # 4
  <2>1. at' = [at EXCEPT ![p] = @ + 1] /\ place' = place
    BY <1>7, FourCandidates DEF NextCandidate
  <2>2. at'[p] = at[p] + 1 /\ place'[p] = "none" /\ doing'[p] = "look"
    BY <1>1, <1>2, <1>7, <2>1 DEF PathTypes, Looking
  <2>3. \A k \in 1 .. 4 : Candidates[k] # "none"
    BY FourCandidates DEF Directories
  <2>4. PassedInv(p)'
    BY <1>1, <1>3, <1>4, <2>2, <2>3 DEF PassedInv
  <2>5. BegunInv(p)' /\ DoingInv(p)'
    BY <1>1, <1>2, <1>5, <2>2 DEF BegunInv, DoingInv
  <2> QED
    BY <1>3, <2>2, <2>4, <2>5 DEF CallerInv, DirsImprove
<1> QED
  BY <1>6, <1>7

\* A secure directory is settled on.
LEMMA Settles ==
  ASSUME PathTypes, NEW p \in Processes, CallerInv(p), Looking(p), Now(p) = "secure", Found(p, Dir(p))
  PROVE  DirsImprove /\ CallerInv(p)'
<1>1. at[p] \in 1 .. 4 /\ Dir(p) \in Directories /\ FoundAs(at[p]) = "secure" /\ Dir(p) = Candidates[at[p]]
  BY LooksAtOne DEF Dir
<1>2. /\ UNCHANGED <<dirIs, at, override, disturbed>>
      /\ doing' = [doing EXCEPT ![p] = "look"] /\ place' = [place EXCEPT ![p] = Dir(p)]
  BY DEF Found, PathStill
<1>3. place'[p] = Dir(p) /\ doing'[p] = "look"
  BY <1>1, <1>2 DEF PathTypes
<1>4. \A k \in 1 .. 4 : FoundAs(k)' = FoundAs(k) /\ (Rejected(k)' <=> Rejected(k))
  BY <1>2 DEF FoundAs, Rejected
<1>5. PassedInv(p)'
  <2>1. \A k \in 1 .. 4 : place'[p] = Candidates[k] => k = at[p]
    BY <1>1, <1>3, FourCandidates
  <2>2. place'[p] # "tmp"
    BY <1>1, <1>3 DEF Directories
  <2> QED
    BY <1>1, <1>2, <1>4, <2>1, <2>2 DEF CallerInv, PassedInv
<1>6. BegunInv(p)' /\ DoingInv(p)'
  BY <1>1, <1>2, <1>3 DEF CallerInv, BegunInv, DoingInv, Looking, Directories
<1> QED
  BY <1>3, <1>4, <1>5, <1>6 DEF CallerInv, DirsImprove

\* A process goes from one thing it does with a directory to the next.
LEMMA DoesNext ==
  ASSUME PathTypes, NEW p \in Processes, CallerInv(p), Looking(p), OfGpty(at[p]), DirsImprove,
         NEW what \in {"make", "tighten", "check"}, Does(p, what),
         what = "make" => FoundAs(at[p])' # "unnamed",
         what # "make" => FoundAs(at[p])' \notin {"unnamed", "missing", "sealed"},
         what = "check" => FoundAs(at[p])' # "lax"
  PROVE  CallerInv(p)'
<1>1. at[p] \in 1 .. 4
  BY LooksAtOne
<1>2. UNCHANGED <<at, place, override, disturbed>> /\ doing' = [doing EXCEPT ![p] = what]
  BY DEF Does, PathStill
<1>3. doing'[p] = what
  BY <1>2 DEF PathTypes
<1>9. at'[p] = at[p] /\ place'[p] = place[p] /\ override' = override
  BY <1>2
<1>4. \A k \in 1 .. 4 : (Rejected(k) => Rejected(k)') /\ (FoundAs(k) = "secure" => FoundAs(k)' = "secure")
  BY DEF DirsImprove, Rejected
<1>5. PassedInv(p)'
  BY <1>2, <1>4 DEF CallerInv, PassedInv
<1>6. BegunInv(p)'
  BY <1>1, <1>2 DEF CallerInv, BegunInv
<1>8. DoingInv(p)'
  BY <1>1, <1>2, <1>3 DEF DoingInv, FoundAs
<1> QED
  BY <1>3, <1>5, <1>6, <1>8 DEF CallerInv

\* Whatever a process does next, its own place and the directories stay in
\* order.
LEMMA CallerSteps ==
  ASSUME PathTypes, NEW p \in Processes, CallerInv(p),
         BeginPath(p) \/ LookRuntime(p) \/ LookState(p) \/ MakeDir(p) \/ Tighten(p) \/ CheckDir(p)
  PROVE  DirsImprove /\ CallerInv(p)'
<1>1. CASE BeginPath(p)
  <2>1. /\ UNCHANGED <<dirIs, doing, override, disturbed>> /\ at' = [at EXCEPT ![p] = 1]
        /\ place' = [place EXCEPT ![p] = IF override = "absolute" THEN "given" ELSE "none"]
    BY <1>1 DEF BeginPath, PathStill
  <2>2. at'[p] = 1
    BY <2>1 DEF PathTypes
  <2>3. doing'[p] = "look" /\ place'[p] = IF override = "absolute" THEN "given" ELSE "none"
    BY <1>1, <2>1 DEF BeginPath, CallerInv, BegunInv, PathTypes
  <2>4. DirsImprove
    BY <2>1 DEF DirsImprove, FoundAs
  <2>5. \A k \in 1 .. 4 : Candidates[k] \notin {"none", "given"}
    BY FourCandidates DEF Directories
  <2>6. PassedInv(p)'
    BY <2>2, <2>3, <2>5 DEF PassedInv
  <2>7. BegunInv(p)' /\ DoingInv(p)'
    BY <2>1, <2>2, <2>3 DEF BegunInv, DoingInv
  <2> QED
    BY <2>2, <2>4, <2>6, <2>7 DEF CallerInv
<1>2. CASE LookRuntime(p)
  <2>1. CASE Now(p) = "secure"
    BY <1>2, <2>1, Settles DEF LookRuntime, Judge
  <2>2. CASE Now(p) # "secure"
    <3>1. Rejected(at[p])
      BY <1>2, <2>2, LooksAtOne DEF LookRuntime, Rejected
    <3> QED
      BY <1>2, <2>2, <3>1, GoesOn DEF LookRuntime, Judge
  <2> QED
    BY <2>1, <2>2
<1>3. CASE LookState(p)
  <2>0. Looking(p) /\ OfGpty(at[p]) /\ Now(p) = FoundAs(at[p]) /\ Now(p) \in Kinds
    BY <1>3, LooksAtOne DEF LookState
  <2>1. CASE Now(p) = "unnamed" /\ NextCandidate(p)
    <3>1. Rejected(at[p])
      BY <2>0, <2>1 DEF Rejected
    <3> QED
      BY <2>0, <2>1, <3>1, GoesOn
  <2>2. ASSUME NEW what \in {"make", "tighten", "check"}, Does(p, what), UNCHANGED dirIs,
               what = "make" => Now(p) # "unnamed",
               what # "make" => Now(p) \notin {"unnamed", "missing", "sealed"}, what # "check"
        PROVE  DirsImprove /\ CallerInv(p)'
    <3>1. DirsImprove /\ FoundAs(at[p])' = FoundAs(at[p])
      <4>1. at' = at
        BY <2>2 DEF Does
      <4> QED
        BY <2>2, <4>1 DEF DirsImprove, FoundAs
    <3> QED
      BY <2>0, <2>2, <3>1, DoesNext
  <2>3. CASE Now(p) \in {"missing", "sealed"} /\ Does(p, "make") /\ UNCHANGED dirIs
    BY <2>2, <2>3
  <2>4. CASE Now(p) \notin {"unnamed", "missing", "sealed"} /\ Does(p, "tighten") /\ UNCHANGED dirIs
    BY <2>2, <2>4
  <2> QED
    BY <1>3, <2>1, <2>3, <2>4 DEF LookState
<1>4. ASSUME NEW what \in {"tighten", "check"}, NEW is \in Kinds, Looking(p), OfGpty(at[p]), Does(p, what),
             dirIs' = [dirIs EXCEPT ![Dir(p)] = is],
             \/ is = Now(p)
             \/ Now(p) = "missing" /\ is \in {"secure", "lax"}
             \/ Now(p) = "lax" /\ is = "secure",
             is \notin {"unnamed", "missing", "sealed"}, what = "check" => is # "lax"
      PROVE  DirsImprove /\ CallerInv(p)'
  <2>1. at[p] \in 1 .. 4 /\ Dir(p) \in Directories /\ Now(p) = FoundAs(at[p]) /\ Dir(p) = Candidates[at[p]]
    BY <1>4, LooksAtOne DEF Dir
  <2>2. dirIs'[Dir(p)] = is
    BY <1>4, <2>1 DEF PathTypes
  <2>3. at' = at
    BY <1>4 DEF Does
  <2>4. FoundAs(at[p])' = is
    BY <2>1, <2>2, <2>3 DEF FoundAs
  <2>5. \A k \in 1 .. 4 : k # at[p] => FoundAs(k)' = FoundAs(k)
    <3> SUFFICES ASSUME NEW k \in 1 .. 4, k # at[p] PROVE FoundAs(k)' = FoundAs(k)
      OBVIOUS
    <3>1. Candidates[k] \in Directories /\ Candidates[k] # Dir(p)
      BY <2>1, FourCandidates
    <3> QED
      BY <1>4, <3>1 DEF FoundAs, PathTypes
  <2>6. \A k \in 1 .. 4 : k = at[p] => FoundAs(k)' = is
    BY <2>4, <2>3 DEF FoundAs
  <2>7. DirsImprove
    BY <1>4, <2>1, <2>5, <2>6 DEF DirsImprove
  <2> QED
    BY <1>4, <2>4, <2>7, DoesNext
<1>5. CASE MakeDir(p)
  <2>0. Looking(p) /\ OfGpty(at[p]) /\ Now(p) = FoundAs(at[p]) /\ Now(p) \in Kinds \ {"unnamed"} /\ Dir(p) \in Directories
    BY <1>5, LooksAtOne DEF MakeDir, CallerInv, DoingInv
  <2>1. CASE Now(p) = "sealed"
    <3>1. Rejected(at[p])
      BY <2>0, <2>1 DEF Rejected
    <3> QED
      BY <1>5, <2>0, <2>1, <3>1, GoesOn DEF MakeDir, CanMake
  <2>2. CASE Now(p) # "sealed"
    <3>1. PICK mode \in {"secure", "lax"} :
            dirIs' = [dirIs EXCEPT ![Dir(p)] = IF @ = "missing" THEN mode ELSE @]
      BY <1>5, <2>2 DEF MakeDir, CanMake
    <3>2. PICK is \in Kinds : is = IF Now(p) = "missing" THEN mode ELSE Now(p)
      BY <2>0 DEF Kinds
    <3>3. dirIs' = [dirIs EXCEPT ![Dir(p)] = is]
      BY <3>1, <3>2 DEF Now
    <3>4. Does(p, "tighten")
      BY <1>5, <2>2 DEF MakeDir, CanMake
    <3> QED
      BY <1>4, <2>0, <2>2, <3>2, <3>3, <3>4
  <2> QED
    BY <2>1, <2>2
<1>6. CASE Tighten(p)
  <2>0. /\ Looking(p) /\ OfGpty(at[p]) /\ Now(p) = FoundAs(at[p]) /\ Dir(p) \in Directories
        /\ Now(p) \in Kinds \ {"unnamed", "missing", "sealed"}
    BY <1>6, LooksAtOne DEF Tighten, CallerInv, DoingInv
  <2>1. dirIs' = [dirIs EXCEPT ![Dir(p)] = IF @ = "lax" THEN "secure" ELSE @] /\ Does(p, "check")
    BY <1>6, <2>0 DEF Tighten
  <2>2. PICK is \in Kinds : is = IF Now(p) = "lax" THEN "secure" ELSE Now(p)
    BY <2>0 DEF Kinds
  <2>3. dirIs' = [dirIs EXCEPT ![Dir(p)] = is]
    BY <2>1, <2>2 DEF Now
  <2> QED
    BY <1>4, <2>0, <2>1, <2>2, <2>3
<1>7. CASE CheckDir(p)
  <2>1. CASE Now(p) = "secure"
    BY <1>7, <2>1, Settles DEF CheckDir, Judge
  <2>2. CASE Now(p) # "secure"
    <3>1. OfGpty(at[p]) /\ Now(p) = FoundAs(at[p]) /\ Now(p) \in Kinds \ {"unnamed", "missing", "sealed", "lax", "secure"}
      BY <1>7, <2>2, LooksAtOne DEF CheckDir, CallerInv, DoingInv
    <3>2. Rejected(at[p])
      BY <3>1 DEF Rejected, Kinds
    <3> QED
      BY <1>7, <2>2, <3>2, GoesOn DEF CheckDir, Judge
  <2> QED
    BY <2>1, <2>2
<1> QED
  BY <1>1, <1>2, <1>3, <1>5, <1>6, <1>7

\* A step of a process leaves the others where they are.
LEMMA OthersStay ==
  ASSUME PathTypes, NEW p \in Processes, NEW q \in Processes, q # p,
         BeginPath(p) \/ LookRuntime(p) \/ LookState(p) \/ MakeDir(p) \/ Tighten(p) \/ CheckDir(p)
  PROVE  UNCHANGED <<override, disturbed, at[q], doing[q], place[q]>>
  BY DEF PathTypes, BeginPath, LookRuntime, LookState, MakeDir, Tighten, CheckDir, Judge, Found,
         NextCandidate, Does, PathStill

\* Every step keeps the types.
LEMMA PathTypesStep == PathTypes /\ [PathNext]_pathVars => PathTypes'
<1> SUFFICES ASSUME PathTypes, [PathNext]_pathVars PROVE PathTypes'
  OBVIOUS
<1>1. ASSUME NEW p \in Processes, Looking(p), NextCandidate(p) PROVE PathTypes'
  <2>1. at[p] \in 1 .. 4
    BY <1>1, LooksAtOne
  <2> QED
    BY <1>1, <2>1, FourCandidates DEF NextCandidate, PathStill, PathTypes
<1>2. ASSUME NEW p \in Processes, Looking(p), Judge(p) PROVE PathTypes'
  <2>1. Dir(p) \in Directories
    BY <1>2, LooksAtOne
  <2>2. CASE Found(p, Dir(p))
    BY <2>1, <2>2 DEF Found, PathStill, PathTypes
  <2> QED
    BY <1>1, <1>2, <2>2 DEF Judge
<1>3. ASSUME NEW p \in Processes, NEW what \in {"make", "tighten", "check"}, Does(p, what),
             dirIs' \in [Directories -> Kinds]
      PROVE  PathTypes'
  BY <1>3 DEF Does, PathStill, PathTypes
<1>4. ASSUME NEW p \in Processes, BeginPath(p) PROVE PathTypes'
  BY <1>4 DEF BeginPath, PathStill, PathTypes
<1>5. ASSUME NEW p \in Processes, LookRuntime(p) \/ CheckDir(p) PROVE PathTypes'
  BY <1>2, <1>5 DEF LookRuntime, CheckDir
<1>6. ASSUME NEW p \in Processes, LookState(p) PROVE PathTypes'
  <2>1. dirIs \in [Directories -> Kinds]
    BY DEF PathTypes
  <2> QED
    BY <1>1, <1>3, <1>6, <2>1 DEF LookState
<1>7. ASSUME NEW p \in Processes, MakeDir(p) PROVE PathTypes'
  <2>1. Looking(p)
    BY <1>7 DEF MakeDir
  <2>2. ASSUME CanMake(p) PROVE Does(p, "tighten") /\ dirIs' \in [Directories -> Kinds]
    <3>1. PICK mode \in {"secure", "lax"} :
            dirIs' = [dirIs EXCEPT ![Dir(p)] = IF @ = "missing" THEN mode ELSE @]
      BY <1>7, <2>2 DEF MakeDir
    <3> QED
      BY <1>7, <2>2, <3>1 DEF MakeDir, PathTypes, Kinds
  <2> QED
    BY <1>1, <1>3, <1>7, <2>1, <2>2 DEF MakeDir
<1>8. ASSUME NEW p \in Processes, Tighten(p) PROVE PathTypes'
  <2>1. Looking(p)
    BY <1>8 DEF Tighten
  <2>2. ASSUME Now(p) \notin {"missing", "sealed"} PROVE Does(p, "check") /\ dirIs' \in [Directories -> Kinds]
    BY <1>8, <2>2 DEF Tighten, PathTypes, Kinds
  <2> QED
    BY <1>1, <1>3, <1>8, <2>1, <2>2 DEF Tighten
<1>9. CASE ChangeOutside
  <2>1. PICK d \in DOMAIN dirIs, is \in {"secure", "lax", "missing"} : dirIs' = [dirIs EXCEPT ![d] = is]
    BY <1>9 DEF ChangeOutside
  <2>2. dirIs' \in [Directories -> Kinds]
    BY <2>1 DEF PathTypes, Kinds
  <2>3. disturbed' \in BOOLEAN
    BY <1>9 DEF ChangeOutside
  <2> QED
    BY <1>9, <2>2, <2>3 DEF ChangeOutside, PathTypes
<1>10. CASE UNCHANGED pathVars
  BY <1>10 DEF pathVars, PathTypes
<1> QED
  BY <1>4, <1>5, <1>6, <1>7, <1>8, <1>9, <1>10 DEF PathNext

\* Every step keeps the invariant, until somebody else has changed a
\* directory under a process that had begun.
LEMMA PathNextInv == PathTypes /\ PathInv /\ [PathNext]_pathVars => PathInv'
<1> SUFFICES ASSUME PathTypes, PathInv, [PathNext]_pathVars, ~disturbed' PROVE PathInv'
  BY DEF PathInv
<1>1. ASSUME NEW p \in Processes,
             BeginPath(p) \/ LookRuntime(p) \/ LookState(p) \/ MakeDir(p) \/ Tighten(p) \/ CheckDir(p)
      PROVE  PathInv'
  <2>1. ~disturbed
    BY <1>1 DEF BeginPath, LookRuntime, LookState, MakeDir, Tighten, CheckDir, Judge, Found,
                NextCandidate, Does, PathStill
  <2>2. DirsImprove /\ CallerInv(p)'
    BY <1>1, <2>1, CallerSteps DEF PathInv
  <2>3. ASSUME NEW q \in Processes, q # p PROVE CallerInv(q)'
    BY <1>1, <2>1, <2>2, <2>3, OthersStay, OthersKeep DEF PathInv
  <2>4. \A q \in Processes : CallerInv(q)'
    <3> SUFFICES ASSUME NEW q \in Processes PROVE CallerInv(q)'
      OBVIOUS
    <3>1. CASE q = p
      BY <2>2, <3>1 DEF CallerInv, PassedInv, BegunInv, DoingInv
    <3> QED
      BY <2>3, <3>1
  <2> QED
    BY <2>4 DEF PathInv
<1>2. CASE ChangeOutside
  <2>1. ~disturbed /\ \A p \in Processes : at[p] = 0
    <3>1. ~(disturbed \/ \E p \in Processes : at[p] > 0)
      BY <1>2, Zenon DEF ChangeOutside
    <3> QED
      BY <3>1 DEF PathTypes
  <2>2. ASSUME NEW p \in Processes PROVE CallerInv(p)'
    <3>1. at[p] = 0 /\ place[p] = "none" /\ doing[p] = "look"
      BY <2>1 DEF PathInv, CallerInv, BegunInv
    <3>2. at'[p] = 0 /\ place'[p] = "none" /\ doing'[p] = "look"
      BY <1>2, <3>1 DEF ChangeOutside
    <3>3. \A k \in 1 .. 4 : Candidates[k] # "none"
      BY FourCandidates DEF Directories
    <3> QED
      BY <3>2, <3>3 DEF CallerInv, PassedInv, BegunInv, DoingInv
  <2> QED
    BY <2>2 DEF PathInv
<1>3. CASE UNCHANGED pathVars
  BY <1>3 DEF pathVars, PathInv, CallerInv, PassedInv, BegunInv, DoingInv, Rejected, FoundAs
<1> QED
  BY <1>1, <1>2, <1>3 DEF PathNext

\* default_socket_path gives every process of a user the same place, for any
\* number of them making and tightening directories beside one another: the
\* candidates before the one a process settled on will do for nobody, and the
\* one it settled on will do for all.
THEOREM CallersMeet == PathSpec => []CallersLookThere
<1>1. PathTypes /\ PathInv => CallersLookThere
  <2> SUFFICES ASSUME PathTypes, PathInv, ~disturbed, NEW p \in Processes, NEW q \in Processes,
                      place[p] # "none", place[q] # "none"
               PROVE  place[p] = place[q]
    BY DEF CallersLookThere
  <2>1. ASSUME NEW r \in Processes, place[r] # "none"
        PROVE  /\ place[r] = "given" <=> override = "absolute"
               /\ place[r] \in {"given", "tmp"} \/ \E k \in 1 .. 4 : place[r] = Candidates[k]
    BY <2>1, FourCandidates DEF PathInv, CallerInv, BegunInv, PathTypes
  <2>2. \A k \in 1 .. 4 : FoundAs(k) = "secure" => ~Rejected(k)
    BY DEF Rejected
  <2>3. ASSUME NEW r \in Processes, NEW k \in 1 .. 4, place[r] = Candidates[k]
        PROVE  FoundAs(k) = "secure" /\ \A n \in 1 .. 4 : n < k => Rejected(n)
    BY <2>3 DEF PathInv, CallerInv, PassedInv
  <2>4. ASSUME NEW r \in Processes, NEW k \in 1 .. 4, place[r] = "tmp" PROVE Rejected(k)
    BY <2>4 DEF PathInv, CallerInv, PassedInv
  <2>5. ASSUME NEW k \in 1 .. 4, NEW n \in 1 .. 4, place[p] = Candidates[k], place[q] = Candidates[n]
        PROVE  k = n
    BY <2>2, <2>3, <2>5
  <2> QED
    BY <2>1, <2>2, <2>3, <2>4, <2>5
<1> QED
  BY PathInitInv, PathTypesStep, PathNextInv, <1>1, PTL DEF PathSpec

\* What an answer is.
Outcomes == {"nothing", "parse error", "too long", "unauthorized", "invalid params", "method not found",
             "result", "error", "handler timed out"}
Replies == [id : Nat, what : Outcomes]

\* The answers that went out are those owed so far, but for the one under way,
\* and each is to the frame whose turn it was.
AnswersMatch == \A i \in Owed : Turn(i) <= Len(replies) => Fits(replies[Turn(i)], i)
AnswersKept ==
  /\ conn \in {"reading", "handling", "writing", "closed"}
  /\ conn = "reading" => Len(replies) = Turn(taken)
  /\ conn \in {"handling", "writing"} => taken \in Owed /\ Len(replies) + 1 = Turn(taken)
  /\ conn = "handling" => stream[taken] = "call"
  /\ conn = "writing" => Fits(pending, taken)
  /\ conn = "closed" => Len(replies) <= Turn(taken) /\ (listening => Len(replies) = Turn(taken))
AnswerInv == replies \in Seq(Replies) /\ pending \in Replies /\ AnswersKept /\ AnswersMatch

\* The numbers in which frames are owed an answer.
LEMMA TurnFacts ==
  ASSUME ConnTypes
  PROVE  /\ Owed \subseteq 1 .. Len(stream) /\ IsFiniteSet(Owed)
         /\ \A n \in Nat : Turn(n) \in Nat /\ Turn(n) <= Cardinality(Owed)
         /\ \A m, n \in Nat : m <= n => Turn(m) <= Turn(n)
         /\ \A m, n \in Nat : m < n /\ n \in Owed => Turn(m) < Turn(n)
         /\ Turn(0) = 0
<1>1. Len(stream) \in Nat /\ Owed \subseteq 1 .. Len(stream) /\ \A i \in Owed : i \in Nat /\ i > 0
  BY DEF ConnTypes, Owed, Served
<1>2. IsFiniteSet(Owed)
  <2>1. IsFiniteSet(1 .. Len(stream)) /\ Owed \in SUBSET (1 .. Len(stream))
    BY <1>1, FS_Interval
  <2> QED
    BY <2>1, FS_Subset
<1>3. ASSUME NEW n \in Nat
      PROVE  IsFiniteSet(OwedUpTo(n)) /\ Turn(n) \in Nat /\ Turn(n) <= Cardinality(Owed)
  <2>1. OwedUpTo(n) \in SUBSET Owed
    BY DEF OwedUpTo
  <2> QED
    BY <1>2, <2>1, FS_Subset, FS_CardinalityType DEF Turn
<1>4. ASSUME NEW m \in Nat, NEW n \in Nat, m <= n PROVE Turn(m) <= Turn(n)
  <2>1. \A i \in OwedUpTo(m) : i \in OwedUpTo(n)
    BY <1>1, <1>4 DEF OwedUpTo
  <2> QED
    BY <1>3, <2>1, FS_Subset DEF Turn
<1>5. ASSUME NEW m \in Nat, NEW n \in Nat, m < n, n \in Owed PROVE Turn(m) < Turn(n)
  <2>1. (\A i \in OwedUpTo(m) : i \in OwedUpTo(n)) /\ n \in OwedUpTo(n) /\ n \notin OwedUpTo(m)
    BY <1>1, <1>5 DEF OwedUpTo
  <2>2. Turn(m) # Turn(n)
    BY <1>3, <2>1, FS_Subset DEF Turn
  <2> QED
    BY <1>3, <1>4, <1>5, <2>2
<1>6. Turn(0) = 0
  <2>1. \A i \in OwedUpTo(0) : FALSE
    BY <1>1 DEF OwedUpTo
  <2> QED
    BY <2>1, FS_EmptySet DEF Turn
<1> QED
  BY <1>1, <1>2, <1>3, <1>4, <1>5, <1>6

\* The next frame has the next turn if it is owed an answer, and none if not.
LEMMA NextTurn ==
  ASSUME ConnTypes, NEW n \in Nat
  PROVE  Turn(n + 1) = IF n + 1 \in Owed THEN Turn(n) + 1 ELSE Turn(n)
<1>1. (\A i \in Owed : i \in Nat) /\ IsFiniteSet(OwedUpTo(n))
  <2>1. OwedUpTo(n) \in SUBSET Owed
    BY DEF OwedUpTo
  <2> QED
    BY <2>1, TurnFacts, FS_Subset
<1>2. CASE n + 1 \in Owed
  <2>1. OwedUpTo(n + 1) = OwedUpTo(n) \cup {n + 1} /\ n + 1 \notin OwedUpTo(n)
    <3>1. \A i \in Nat : i <= n + 1 <=> i <= n \/ i = n + 1
      OBVIOUS
    <3>2. ~(n + 1 <= n) /\ n + 1 <= n + 1
      OBVIOUS
    <3> QED
      BY <1>1, <1>2, <3>1, <3>2, Zenon DEF OwedUpTo
  <2> QED
    BY <1>1, <1>2, <2>1, FS_AddElement DEF Turn
<1>3. CASE n + 1 \notin Owed
  <2>1. OwedUpTo(n + 1) = OwedUpTo(n)
    <3>1. \A i \in Nat : i <= n + 1 <=> i <= n \/ i = n + 1
      OBVIOUS
    <3> QED
      BY <1>1, <1>3, <3>1, Zenon DEF OwedUpTo
  <2> QED
    BY <1>3, <2>1 DEF Turn
<1> QED
  BY <1>2, <1>3

\* An answer with one of the outcomes is one.
LEMMA AnswersAreReplies ==
  /\ \A id \in Nat, what \in Outcomes : Answer(id, what) \in Replies
  /\ "nothing" \in Outcomes
  /\ \A kind \in {"garbage", "long", "denied", "badParams", "unknown"}, id \in Nat : Refusal(kind, id) \in Replies
  /\ \A id \in Nat, what \in {"result", "error", "handler timed out"} : Answer(id, what) \in Replies
<1>1. \A id \in Nat, what \in Outcomes : Answer(id, what) \in Replies
  BY DEF Answer, Replies
<1>2. /\ "nothing" \in Outcomes /\ "parse error" \in Outcomes /\ "too long" \in Outcomes
      /\ "unauthorized" \in Outcomes /\ "invalid params" \in Outcomes /\ "method not found" \in Outcomes
      /\ \A what \in {"result", "error", "handler timed out"} : what \in Outcomes
  BY Zenon DEF Outcomes
<1>3. 0 \in Nat
  OBVIOUS
<1>4. ASSUME NEW kind \in {"garbage", "long", "denied", "badParams", "unknown"}, NEW id \in Nat
      PROVE  Refusal(kind, id) \in Replies
  <2>1. CASE kind = "garbage"
    BY <1>1, <1>2, <1>3, <2>1, Zenon DEF Refusal
  <2>2. CASE kind = "long"
    BY <1>1, <1>2, <1>3, <2>2, Zenon DEF Refusal
  <2>3. CASE kind = "denied"
    BY <1>1, <1>2, <2>3, Zenon DEF Refusal
  <2>4. CASE kind = "badParams"
    BY <1>1, <1>2, <2>4, Zenon DEF Refusal
  <2>5. CASE kind = "unknown"
    BY <1>1, <1>2, <2>5, Zenon DEF Refusal
  <2> QED
    BY <2>1, <2>2, <2>3, <2>4, <2>5
<1> QED
  BY <1>1, <1>2, <1>4, Zenon

\* Nothing is owed or answered before the first frame.
LEMMA AnswerInitInv == ConnInit => AnswerInv
<1> SUFFICES ASSUME ConnInit PROVE AnswerInv
  OBVIOUS
<1>1. stream = <<>> /\ conn = "reading" /\ taken = 0 /\ replies = <<>>
  BY DEF ConnInit
<1>2. pending \in Replies
  BY AnswersAreReplies DEF ConnInit, NoAnswer
<1>3. ConnTypes
  BY ConnInitInv DEF ConnInv
<1>4. Turn(0) = 0 /\ Owed = {}
  BY <1>1, <1>3, TurnFacts
<1> QED
  BY <1>1, <1>2, <1>4 DEF AnswerInv, AnswersKept, AnswersMatch

\* A frame more leaves the turns of the others alone.
LEMMA TurnsStay ==
  ASSUME ConnTypes, NEW kind \in FrameKinds, stream' = Append(stream, kind)
  PROVE  /\ \A i \in 1 .. Len(stream) : (i \in Owed' <=> i \in Owed) /\ stream'[i] = stream[i]
         /\ \A i \in 0 .. Len(stream) : Turn(i)' = Turn(i)
         /\ Owed' \subseteq 1 .. Len(stream) + 1
         /\ \A n \in Nat : n = Len(stream) + 1 /\ n \in Owed' => Turn(n)' = Turn(Len(stream)) + 1
<1>1. /\ Len(stream') = Len(stream) + 1 /\ Len(stream) \in Nat
      /\ \A i \in 1 .. Len(stream) : stream'[i] = stream[i]
  BY DEF ConnTypes
<1>2. \A i \in 1 .. Len(stream) : i \in Served' <=> i \in Served
  BY <1>1 DEF Served
<1>3. \A i \in 1 .. Len(stream) : i \in Owed' <=> i \in Owed
  BY <1>1, <1>2 DEF Owed
<1>4. Owed' \subseteq 1 .. Len(stream) + 1 /\ Owed \subseteq 1 .. Len(stream)
  BY <1>1 DEF Owed, Served
<1>5. ASSUME NEW i \in 0 .. Len(stream) PROVE Turn(i)' = Turn(i)
  <2>1. \A j \in Owed' : j <= i => j \in Owed
    BY <1>1, <1>3, <1>4
  <2>2. \A j \in Owed : j \in Owed'
    BY <1>3, <1>4
  <2>3. OwedUpTo(i)' = OwedUpTo(i)
    BY <2>1, <2>2 DEF OwedUpTo
  <2> QED
    BY <2>3 DEF Turn
<1>6. ASSUME NEW n \in Nat, n = Len(stream) + 1, n \in Owed' PROVE Turn(n)' = Turn(Len(stream)) + 1
  <2>1. /\ \A i \in Owed : i \in Owed' /\ i # n /\ i <= n /\ i <= Len(stream)
        /\ \A i \in Owed' : i \in Owed \/ i = n
        /\ n <= n
    BY <1>1, <1>3, <1>4, <1>6
  <2>2. OwedUpTo(n)' = OwedUpTo(Len(stream)) \cup {n} /\ n \notin OwedUpTo(Len(stream))
    BY <1>6, <2>1, Zenon DEF OwedUpTo
  <2>3. IsFiniteSet(OwedUpTo(Len(stream)))
    <3>1. OwedUpTo(Len(stream)) \in SUBSET Owed
      BY DEF OwedUpTo
    <3> QED
      BY <3>1, TurnFacts, FS_Subset
  <2>4. Cardinality(OwedUpTo(Len(stream)) \cup {n}) = Cardinality(OwedUpTo(Len(stream))) + 1
    BY <2>2, <2>3, FS_AddElement
  <2> QED
    BY <2>2, <2>4, Zenon DEF Turn
<1> QED
  BY <1>1, <1>3, <1>4, <1>5, <1>6

\* While the stream stays, so do the turns.
LEMMA StreamStill ==
  ASSUME UNCHANGED stream
  PROVE  /\ Owed' = Owed /\ Served' = Served
         /\ \A n : Turn(n)' = Turn(n)
         /\ \A r, i : Fits(r, i)' <=> Fits(r, i)
  BY Zenon DEF Owed, Served, OwedUpTo, Turn, Fits, Refusal

\* A longer stream changes nothing about what was answered.
LEMMA AnswersOutlastWriting ==
  ASSUME ConnTypes, AnswerInv, NEW kind \in FrameKinds, stream' = Append(stream, kind),
         UNCHANGED <<taken, conn, pending, replies, listening>>
  PROVE  AnswerInv'
<1>1. /\ \A i \in 1 .. Len(stream) : (i \in Owed' <=> i \in Owed) /\ stream'[i] = stream[i]
      /\ \A i \in 0 .. Len(stream) : Turn(i)' = Turn(i)
      /\ Owed' \subseteq 1 .. Len(stream) + 1
      /\ \A n \in Nat : n = Len(stream) + 1 /\ n \in Owed' => Turn(n)' = Turn(Len(stream)) + 1
  BY TurnsStay
<1>2. /\ \A n \in Nat : Turn(n) \in Nat
      /\ \A m, n \in Nat : m <= n => Turn(m) <= Turn(n)
      /\ Owed \subseteq 1 .. Len(stream)
  BY TurnFacts
<1>3. taken \in 0 .. Len(stream) /\ Len(stream) \in Nat /\ Len(replies) \in Nat
  BY DEF ConnTypes, AnswerInv
<1>4. PICK t \in 0 .. Len(stream) : t = taken /\ t = taken'
  BY <1>3
<1>5. \A r : \A i \in 1 .. Len(stream) : Fits(r, i)' <=> Fits(r, i)
  <2> SUFFICES ASSUME NEW i \in 1 .. Len(stream), NEW r PROVE Fits(r, i)' <=> Fits(r, i)
    OBVIOUS
  <2>1. stream'[i] = stream[i]
    BY <1>1
  <2> QED
    BY <2>1, Zenon DEF Fits, Refusal
<1>6. AnswersKept'
  <2>1. Turn(t)' = Turn(t) /\ (t \in Owed => t \in 1 .. Len(stream) /\ t \in Owed')
    BY <1>1, <1>2
  <2>2. t \in Owed => (Fits(pending, t) => Fits(pending, t)')
    BY <1>5, <2>1
  <2>3. t \in Owed => stream'[t] = stream[t]
    BY <1>1, <2>1
  <2> QED
    BY <1>4, <2>1, <2>2, <2>3 DEF AnswerInv, AnswersKept
<1>7. Len(replies) <= Turn(Len(stream))
  <2>1. Turn(taken) <= Turn(Len(stream)) /\ Turn(taken) \in Nat /\ Turn(Len(stream)) \in Nat
    BY <1>2, <1>3
  <2>2. Len(replies) = Turn(taken) \/ Len(replies) + 1 = Turn(taken) \/ Len(replies) <= Turn(taken)
    BY DEF AnswerInv, AnswersKept
  <2> QED
    BY <1>3, <2>1, <2>2
<1>8. ASSUME NEW i \in Nat, i \in Owed', Turn(i)' <= Len(replies) PROVE Fits(replies[Turn(i)], i)'
  <2>1. CASE i \in 1 .. Len(stream)
    <3>1. i \in Owed /\ Turn(i)' = Turn(i)
      BY <1>1, <1>8, <2>1
    <3>2. Fits(replies[Turn(i)], i)
      BY <1>8, <3>1 DEF AnswerInv, AnswersMatch
    <3> QED
      BY <1>5, <2>1, <3>1, <3>2
  <2>2. CASE i = Len(stream) + 1
    <3>1. Turn(i)' = Turn(Len(stream)) + 1 /\ Turn(Len(stream)) \in Nat
      BY <1>1, <1>2, <1>3, <1>8, <2>2
    <3> QED
      BY <1>3, <1>7, <1>8, <3>1
  <2>3. i \in 1 .. Len(stream) \/ i = Len(stream) + 1
    BY <1>1, <1>3, <1>8
  <2> QED
    BY <2>1, <2>2, <2>3
<1>9. \A i \in Owed' : i \in Nat
  BY <1>1, <1>3
<1> QED
  BY <1>6, <1>8, <1>9 DEF AnswerInv, AnswersMatch

\* While neither the stream nor the answers change, the answers still match.
LEMMA MatchesStay == ASSUME AnswersMatch, UNCHANGED <<stream, replies>> PROVE AnswersMatch'
<1>1. Owed' = Owed /\ (\A n : Turn(n)' = Turn(n)) /\ \A r, i : Fits(r, i)' <=> Fits(r, i)
  BY StreamStill
<1>2. ASSUME NEW i \in Owed, (Turn(i) <= Len(replies))' PROVE Fits(replies[Turn(i)], i)'
  <2>1. Turn(i) <= Len(replies)
    BY <1>1, <1>2
  <2>2. Fits(replies[Turn(i)], i)
    BY <2>1 DEF AnswersMatch
  <2>3. Fits(replies[Turn(i)], i)'
    BY <1>1, <2>2
  <2> QED
    BY <2>3
<1> QED
  BY <1>1, <1>2 DEF AnswersMatch

\* What the client does.
LEMMA ClientKeepsAnswers == ASSUME ConnInv, AnswerInv, ClientSteps PROVE AnswerInv'
<1>1. ConnTypes
  BY DEF ConnInv
<1>2. ASSUME UNCHANGED <<stream, taken, conn, pending, replies>>, listening' => listening PROVE AnswerInv'
  <2>1. AnswersMatch'
    BY <1>2, MatchesStay DEF AnswerInv
  <2>2. Owed' = Owed /\ (\A n : Turn(n)' = Turn(n)) /\ \A r, i : Fits(r, i)' <=> Fits(r, i)
    BY <1>2, StreamStill
  <2>3. PICK t : t = taken /\ t = taken'
    BY <1>2
  <2>4. AnswersKept'
    BY <1>2, <2>2, <2>3 DEF AnswerInv, AnswersKept
  <2> QED
    BY <1>2, <2>1, <2>4 DEF AnswerInv
<1>3. ASSUME NEW kind \in FrameKinds, Write(kind) PROVE AnswerInv'
  <2>1. UNCHANGED <<taken, conn, pending, replies, listening>>
    BY <1>3 DEF Write, serverVars
  <2>2. CASE kind = "long"
    BY <1>1, <1>3, <2>1, <2>2, AnswersOutlastWriting DEF Write
  <2>3. CASE kind # "long"
    BY <1>2, <1>3, <2>1, <2>3 DEF Write
  <2> QED
    BY <2>2, <2>3
<1>4. CASE FinishLine
  <2>1. unfinished \in FrameKinds
    BY <1>1, <1>4 DEF FinishLine, ConnTypes
  <2> QED
    BY <1>1, <1>4, <2>1, AnswersOutlastWriting DEF FinishLine, serverVars
<1>5. CASE EndStream
  <2>1. UNCHANGED <<taken, conn, pending, replies, listening>>
    BY <1>5 DEF EndStream, serverVars
  <2>2. CASE unfinished = "none"
    BY <1>2, <1>5, <2>1, <2>2 DEF EndStream
  <2>3. CASE unfinished # "none"
    <3>1. PICK kind \in {unfinished, "garbage"} : stream' = Append(stream, kind)
      BY <1>5, <2>3 DEF EndStream
    <3>2. kind \in FrameKinds
      BY <1>1, <2>3, <3>1 DEF ConnTypes, FrameKinds
    <3> QED
      BY <1>1, <2>1, <3>1, <3>2, AnswersOutlastWriting
  <2> QED
    BY <2>2, <2>3
<1>6. CASE StopsListening
  BY <1>2, <1>6 DEF StopsListening, serverVars
<1> QED
  BY <1>3, <1>4, <1>5, <1>6 DEF ClientSteps

\* The frame taken next is behind no end, so it is owed an answer unless it is
\* skipped or no text.
LEMMA TakenNext ==
  ASSUME ConnInv, TakeFrame
  PROVE  /\ taken \in Nat /\ taken + 1 \in 1 .. Len(stream) /\ conn = "reading" /\ taken' = taken + 1
         /\ UNCHANGED <<stream, listening, replies>> /\ stream[taken + 1] \in FrameKinds
         /\ taken + 1 \in Owed <=> stream[taken + 1] \notin {"blank", "notification", "undecodable"}
<1>1. /\ conn = "reading" /\ taken < Len(stream) /\ taken' = taken + 1 /\ UNCHANGED <<stream, listening, replies>>
  BY DEF TakeFrame
<1>2. taken \in Nat /\ taken + 1 \in 1 .. Len(stream) /\ stream[taken + 1] \in FrameKinds
  BY <1>1 DEF ConnInv, ConnTypes
<1>3. \A j \in 1 .. taken : ~LastOfAll(stream[j])
  BY <1>1 DEF ConnInv, NoEndTaken, Going
<1>4. taken + 1 \in Served
  <2>1. \A j \in 1 .. Len(stream) : j \in 1 .. taken \/ taken + 1 <= j
    BY <1>2
  <2> QED
    BY <1>2, <1>3, <2>1, Zenon DEF Served
<1>5. taken + 1 \in Owed <=> stream[taken + 1] \notin {"blank", "notification", "undecodable"}
  BY <1>4, Zenon DEF Owed
<1> QED
  BY <1>1, <1>2, <1>5

\* A frame is taken: it is refused, handed to its handler, or skipped.
LEMMA TakeKeepsAnswers == ASSUME ConnInv, AnswerInv, TakeFrame PROVE AnswerInv'
<1>1. PICK n \in Nat : n = taken + 1 /\ taken' = n /\ conn = "reading"
  BY TakenNext
<1>2. /\ n \in 1 .. Len(stream) /\ UNCHANGED <<stream, listening, replies>> /\ stream[n] \in FrameKinds
      /\ n \in Owed <=> stream[n] \notin {"blank", "notification", "undecodable"}
  BY <1>1, TakenNext
<1>3. Owed' = Owed /\ (\A m : Turn(m)' = Turn(m)) /\ \A r, i : Fits(r, i)' <=> Fits(r, i)
  BY <1>2, StreamStill
<1>4. AnswersMatch'
  BY <1>2, MatchesStay DEF AnswerInv
<1>5. Turn(n) = IF n \in Owed THEN Len(replies) + 1 ELSE Len(replies)
  <2>1. Turn(n) = IF n \in Owed THEN Turn(taken) + 1 ELSE Turn(taken)
    BY <1>1, NextTurn DEF ConnInv, ConnTypes
  <2>2. Len(replies) = Turn(taken)
    BY <1>1 DEF AnswerInv, AnswersKept
  <2> QED
    BY <2>1, <2>2
<1>6. Len(replies) \in Nat
  BY DEF AnswerInv
<1>7. CASE Silent(stream[n])
  <2>1. UNCHANGED <<conn, pending>> /\ n \notin Owed
    BY <1>1, <1>2, <1>7 DEF TakeFrame, Silent
  <2>2. AnswersKept'
    BY <1>1, <1>2, <1>3, <1>5, <2>1 DEF AnswersKept
  <2> QED
    BY <1>2, <1>4, <2>1, <2>2 DEF AnswerInv
<1>8. CASE stream[n] = "undecodable"
  <2>1. conn' = "closed" /\ UNCHANGED pending /\ n \notin Owed
    BY <1>1, <1>2, <1>8 DEF TakeFrame, Silent
  <2>2. AnswersKept'
    BY <1>1, <1>2, <1>3, <1>5, <1>6, <2>1 DEF AnswersKept
  <2> QED
    BY <1>2, <1>4, <2>1, <2>2 DEF AnswerInv
<1>9. CASE stream[n] = "call"
  <2>1. conn' = "handling" /\ UNCHANGED pending /\ n \in Owed
    BY <1>1, <1>2, <1>9 DEF TakeFrame, Silent
  <2>2. AnswersKept'
    BY <1>1, <1>2, <1>3, <1>5, <1>9, <2>1 DEF AnswersKept
  <2> QED
    BY <1>2, <1>4, <2>1, <2>2 DEF AnswerInv
<1>10. CASE stream[n] \notin {"blank", "notification", "undecodable", "call"}
  <2>1. conn' = "writing" /\ pending' = Refusal(stream[n], n) /\ n \in Owed
    BY <1>1, <1>2, <1>10 DEF TakeFrame, Silent
  <2>2. stream[n] \in {"garbage", "long", "denied", "badParams", "unknown"}
    BY <1>2, <1>10 DEF FrameKinds
  <2>3. pending' \in Replies
    BY <2>1, <2>2, AnswersAreReplies
  <2>4. Fits(Refusal(stream[n], n), n)
    BY <1>10, Zenon DEF Fits
  <2>5. Fits(pending, n)'
    <3>1. PICK r : r = pending' /\ r = Refusal(stream[n], n)
      BY <2>1
    <3>2. Fits(r, n)'
      BY <1>3, <2>4, <3>1
    <3> QED
      BY <3>1, <3>2, Zenon DEF Fits
  <2>6. AnswersKept'
    BY <1>1, <1>2, <1>3, <1>5, <2>1, <2>5 DEF AnswersKept
  <2> QED
    BY <1>2, <1>4, <2>3, <2>6 DEF AnswerInv
<1> QED
  BY <1>7, <1>8, <1>9, <1>10 DEF Silent

\* Every step of the client and of the server.
LEMMA AnswerNextInv == ConnInv /\ AnswerInv /\ [ConnNext]_connVars => AnswerInv'
<1> SUFFICES ASSUME ConnInv, AnswerInv, [ConnNext]_connVars PROVE AnswerInv'
  OBVIOUS
<1>0. Len(replies) \in Nat /\ taken \in Nat /\ Turn(taken) \in Nat
  BY TurnFacts DEF AnswerInv, ConnInv, ConnTypes
<1>1. CASE ClientSteps
  BY <1>1, ClientKeepsAnswers
<1>2. CASE TakeFrame
  BY <1>2, TakeKeepsAnswers
<1>3. ASSUME UNCHANGED <<stream, listening, taken>>
      PROVE  /\ Owed' = Owed /\ (\A r, i : Fits(r, i)' <=> Fits(r, i))
             /\ \E t \in Nat : t = taken /\ t = taken' /\ Turn(t)' = Turn(t)
  BY <1>0, <1>3, StreamStill
<1>4. CASE EndOfStream \/ ReadTimesOut
  <2>1. UNCHANGED <<stream, listening, taken, replies, pending>> /\ conn = "reading" /\ conn' = "closed"
    BY <1>4 DEF EndOfStream, ReadTimesOut
  <2>2. PICK t \in Nat : t = taken /\ t = taken' /\ Turn(t)' = Turn(t)
    BY <1>3, <2>1
  <2>3. AnswersKept'
    BY <1>0, <2>1, <2>2 DEF AnswerInv, AnswersKept
  <2>4. AnswersMatch'
    BY <2>1, MatchesStay DEF AnswerInv
  <2> QED
    BY <2>1, <2>3, <2>4 DEF AnswerInv
<1>5. CASE HandlerReturns
  <2>1. /\ UNCHANGED <<stream, listening, taken, replies>> /\ conn = "handling" /\ conn' = "writing"
        /\ taken \in Owed /\ stream[taken] = "call" /\ Len(replies) + 1 = Turn(taken)
    BY <1>5 DEF HandlerReturns, AnswerInv, AnswersKept
  <2>2. PICK what \in {"result", "error", "handler timed out"} : pending' = Answer(taken, what)
    BY <1>5, Zenon DEF HandlerReturns
  <2>3. pending' \in Replies
    BY <1>0, <2>2, AnswersAreReplies, Zenon
  <2>4. Fits(Answer(taken, what), taken)
    BY <2>1, <2>2, Zenon DEF Fits, Answer
  <2>5. PICK t \in Nat : t = taken /\ t = taken' /\ Turn(t)' = Turn(t)
    BY <1>3, <2>1
  <2>6. PICK r : r = pending' /\ r = Answer(t, what)
    BY <2>2, <2>5, Zenon
  <2>7. Fits(r, t)
    BY <2>4, <2>5, <2>6, Zenon
  <2>8. Fits(r, t)'
    BY <1>3, <2>1, <2>7
  <2>9. Fits(pending, taken)'
    BY <2>5, <2>6, <2>8, Zenon DEF Fits
  <2>10. AnswersKept'
    BY <1>0, <1>3, <2>1, <2>5, <2>9 DEF AnswersKept
  <2>11. AnswersMatch'
    BY <2>1, MatchesStay DEF AnswerInv
  <2> QED
    BY <2>1, <2>3, <2>10, <2>11 DEF AnswerInv
<1>6. CASE WriteFails
  <2>1. /\ UNCHANGED <<stream, listening, taken, replies>> /\ conn = "writing" /\ ~listening
        /\ conn' = "closed" /\ pending' = NoAnswer
    BY <1>6 DEF WriteFails
  <2>2. PICK t \in Nat : t = taken /\ t = taken' /\ Turn(t)' = Turn(t)
    BY <1>3, <2>1
  <2>3. AnswersKept'
    BY <1>0, <2>1, <2>2 DEF AnswerInv, AnswersKept
  <2>4. AnswersMatch'
    BY <2>1, MatchesStay DEF AnswerInv
  <2>5. pending' \in Replies
    BY <2>1, AnswersAreReplies DEF NoAnswer
  <2> QED
    BY <2>1, <2>3, <2>4, <2>5 DEF AnswerInv
<1>7. CASE WriteReply
  <2>1. /\ UNCHANGED <<stream, listening, taken>> /\ conn = "writing" /\ pending' = NoAnswer
        /\ replies' = Append(replies, pending) /\ conn' \in {"closed", "reading"}
        /\ taken \in Owed /\ Len(replies) + 1 = Turn(taken) /\ Fits(pending, taken)
    BY <1>7 DEF WriteReply, AnswerInv, AnswersKept
  <2>2. /\ replies' \in Seq(Replies) /\ Len(replies') = Len(replies) + 1
        /\ replies'[Len(replies) + 1] = pending
        /\ \A k \in 1 .. Len(replies) : replies'[k] = replies[k]
    BY <2>1 DEF AnswerInv
  <2>3. PICK t \in Nat : t = taken /\ t = taken' /\ Turn(t)' = Turn(t)
    BY <1>3, <2>1
  <2>4. AnswersKept'
    BY <1>0, <2>1, <2>2, <2>3 DEF AnswersKept
  <2>5. pending' \in Replies
    BY <2>1, AnswersAreReplies DEF NoAnswer
  <2>6. /\ Owed' = Owed /\ (\A n : Turn(n)' = Turn(n)) /\ \A r, i : Fits(r, i)' <=> Fits(r, i)
    BY <2>1, StreamStill
  <2>7. ASSUME NEW i \in Owed, (Turn(i) <= Len(replies))' PROVE Fits(replies[Turn(i)], i)'
    <3>1. i \in Nat /\ i > 0 /\ Turn(i) \in Nat /\ Turn(i) <= Len(replies) + 1
      <4>1. i \in Nat /\ i > 0 /\ Turn(i) \in Nat
        <5>1. i \in 1 .. Len(stream) /\ Len(stream) \in Nat /\ \A n \in Nat : Turn(n) \in Nat
          BY SMTT(30), TurnFacts DEF ConnInv, ConnTypes
        <5> QED
          BY <5>1
      <4>2. Turn(i)' = Turn(i) /\ Turn(i)' <= Len(replies')
        BY <2>6, <2>7
      <4> QED
        BY <2>2, <4>1, <4>2
    <3>2. Turn(i) >= 1
      BY <3>1, TurnFacts DEF ConnInv
    <3>3. PICK k : k = Turn(i) /\ k = Turn(i)'
      BY <2>6
    <3>4. PICK r : r = replies'[k] /\ Fits(r, i)
      <4>1. CASE Turn(i) <= Len(replies)
        <5>1. Fits(replies[Turn(i)], i)
          BY <2>7, <4>1 DEF AnswerInv, AnswersMatch
        <5>2. Turn(i) \in 1 .. Len(replies)
          BY <1>0, <3>1, <3>2, <4>1
        <5>3. replies'[k] = replies[Turn(i)]
          BY <2>2, <3>3, <5>2, Zenon
        <5> QED
          BY <5>1, <5>3, Zenon
      <4>2. CASE Turn(i) = Len(replies) + 1
        <5>1. i = taken
          BY SMTT(30), <1>0, <2>1, <2>7, <3>1, <4>2, TurnFacts DEF ConnInv
        <5>2. replies'[k] = pending
          BY <2>2, <3>3, <4>2
        <5> QED
          BY <2>1, <5>1, <5>2, Zenon
      <4> QED
        BY <1>0, <3>1, <4>1, <4>2
    <3>5. Fits(r, i)'
      BY <2>6, <3>4
    <3> QED
      BY <3>3, <3>4, <3>5, Zenon DEF Fits
  <2>8. AnswersMatch'
    BY <2>6, <2>7 DEF AnswersMatch
  <2> QED
    BY <2>2, <2>4, <2>5, <2>8 DEF AnswerInv
<1>8. CASE UNCHANGED connVars
  <2>1. UNCHANGED <<stream, listening, taken, replies, pending, conn>>
    BY <1>8 DEF connVars
  <2>2. PICK t \in Nat : t = taken /\ t = taken' /\ Turn(t)' = Turn(t)
    BY <1>3, <2>1
  <2>3. AnswersKept'
    BY <1>3, <2>1, <2>2 DEF AnswerInv, AnswersKept
  <2>4. AnswersMatch'
    BY <2>1, MatchesStay DEF AnswerInv
  <2> QED
    BY <2>1, <2>3, <2>4 DEF AnswerInv
<1> QED
  BY <1>1, <1>2, <1>4, <1>5, <1>6, <1>7, <1>8 DEF ConnNext, ServerSteps

\* What a client may count on, for streams of any length and however it
\* writes, cuts short or stops reading (handle_connection, handle_frame):
\* answers go out in the order of the frames, each is to the frame whose turn
\* it is, and one that keeps reading gets them all before the connection ends.
THEOREM RepliesComeInTurn == ConnSpec => [](RepliesInOrder /\ NothingTakenIsDropped)
<1>1. ConnInv /\ AnswerInv => RepliesInOrder /\ NothingTakenIsDropped
  <2> SUFFICES ASSUME ConnInv, AnswerInv PROVE RepliesInOrder /\ NothingTakenIsDropped
    OBVIOUS
  <2>1. /\ taken \in Nat /\ Len(replies) \in Nat /\ Turn(taken) \in Nat /\ Turn(taken) <= Cardinality(Owed)
        /\ Cardinality(Owed) \in Nat
    BY TurnFacts, FS_CardinalityType DEF ConnInv, ConnTypes, AnswerInv
  <2>2. Len(replies) <= Turn(taken)
    BY <2>1 DEF AnswerInv, AnswersKept
  <2>3. RepliesInOrder
    BY <2>1, <2>2 DEF AnswerInv, AnswersMatch, RepliesInOrder
  <2>4. ASSUME conn = "closed", listening, NEW i \in Owed, i <= taken PROVE Turn(i) <= Len(replies)
    BY <2>1, <2>4, TurnFacts DEF ConnInv, ConnTypes, AnswerInv, AnswersKept
  <2> QED
    BY <2>3, <2>4 DEF NothingTakenIsDropped
<1> QED
  BY ConnInitInv, ConnNextInv, AnswerInitInv, AnswerNextInv, <1>1, PTL DEF ConnSpec
=============================================================================
