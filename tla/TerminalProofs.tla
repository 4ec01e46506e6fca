--------------------------- MODULE TerminalProofs ---------------------------
(***************************************************************************)
(* The terminals of a window, for any panes, workspaces and limits. Behind *)
(* one terminal its process is accounted for, for any length of the output *)
(* queue, its pane draws what its grid holds, for any heights, history and *)
(* sizes on their way, and its lines reach the concept that ranks first,   *)
(* for any stream and any library. Around all of them the close contract   *)
(* keeps its types, no note is destroyed without its user's answer, and a  *)
(* question never outlives its pane. The walks share AskClose, Continue    *)
(* and Perform; one lemma each says what they keep, and every action of    *)
(* the user or of the socket that asks or destroys is an instance of one   *)
(* of them. Last come the tiles: whatever is done to them, they share the  *)
(* grid, for any grid and any layouts that are saved.                      *)
(***************************************************************************)
EXTENDS MCTerminal, FoldProofs, SequenceTheorems, FiniteSetTheorems, TLAPS


(* What the two parts of ProcessIsAccountedFor rest on: where the spawn and  *)
(* the task are says what the child can be, and the status follows it.       *)
TaskFollowsSpawn == (task = "none") <=> (stage # "live")
NoChildYet == stage \in {"none", "registered", "opened"} => child = "none"
FailedLeavesNoChild == stage = "failed" => child # "running"
GoneLeavesNoChild == task \in {"ended", "dropped"} => child # "running" /\ group = FALSE
StatusFollows ==
  stage = "live" /\ child = "running" => alive = TRUE /\ exitCode = FALSE
NoCodeBeforeLive == stage # "live" => exitCode = FALSE
PaneComesFirst == pane = "none" => stage = "none"
ProcessInv ==
  /\ PaneComesFirst /\ TaskFollowsSpawn /\ NoChildYet /\ FailedLeavesNoChild /\ GoneLeavesNoChild
  /\ StatusFollows /\ NoCodeBeforeLive

\* Before a pane is open nothing runs.
LEMMA ProcessInit == PtyInit => ProcessInv
  BY DEF PtyInit, ProcessInv, TaskFollowsSpawn, NoChildYet, FailedLeavesNoChild,
         GoneLeavesNoChild, StatusFollows, NoCodeBeforeLive, PaneComesFirst

\* A drop of the handle leaves neither the child nor its group running.
LEMMA KilledKills == Killed => child' # "running" /\ group' = FALSE
  BY DEF Killed, ChildRuns

\* A step that gives up on the spawn leaves no child running.
LEMMA AbandonKills == Abandon => child' # "running" /\ stage' = "failed"
  BY DEF Abandon, ChildRuns

\* The spawn, step by step (start_shell, GptyPty::spawn).
LEMMA SpawnKeeps ==
  ASSUME ProcessInv, StartShell \/ OpenPty \/ SpawnCommand \/ StartReader \/ StartWriter
  PROVE  ProcessInv'
  <1> USE DEF ProcessInv, TaskFollowsSpawn, NoChildYet, FailedLeavesNoChild,
              GoneLeavesNoChild, StatusFollows, NoCodeBeforeLive, PaneComesFirst,
              worldVars, statusVars
  <1>1. CASE StartShell
    BY <1>1 DEF StartShell
  <1>2. CASE OpenPty
    BY <1>2, AbandonKills DEF OpenPty
  <1>3. CASE SpawnCommand
    BY <1>3, AbandonKills DEF SpawnCommand
  <1>4. CASE StartReader
    BY <1>4, AbandonKills DEF StartReader
  <1>5. CASE StartWriter
    BY <1>5, AbandonKills DEF StartWriter
  <1>6. QED
    BY <1>1, <1>2, <1>3, <1>4, <1>5

\* The child, its descendants, the threads that serve the pty and the chunks
\* the task takes: none of them starts a child.
LEMMA WorldKeeps ==
  ASSUME ProcessInv,
         \/ ChildActs \/ GroupEnds \/ OutsiderEnds
         \/ Read \/ Unblock \/ ReadEnd \/ Write \/ Written \/ WriterEnds \/ TakeChunk
  PROVE  ProcessInv'
  <1>1. /\ UNCHANGED <<stage, task, statusVars, pane>>
        /\ child' \in {child, "zombie"} /\ (group' = TRUE => group = TRUE \/ ChildRuns)
        /\ group' \in {group, TRUE, FALSE}
    BY DEF ChildActs, GroupEnds, OutsiderEnds, Read, Unblock, ReadEnd, Write, Written,
           WriterEnds, TakeChunk, spawnVars, worldVars, statusVars
  <1>2. child' = "zombie" => child \in {"running", "zombie"}
    BY DEF ChildActs, GroupEnds, OutsiderEnds, Read, Unblock, ReadEnd, Write, Written,
           WriterEnds, TakeChunk, worldVars, ChildRuns
  <1>3. QED
    BY <1>1, <1>2 DEF ProcessInv, TaskFollowsSpawn, NoChildYet, FailedLeavesNoChild,
       GoneLeavesNoChild, StatusFollows, NoCodeBeforeLive, PaneComesFirst, statusVars, ChildRuns

\* The task to its end, the close of the pane and the abort of its task
\* (run_terminal_task, GptyTerminal::drop): the last word of the status is
\* said before the handle is dropped, and then there is nothing to say.
LEMMA TaskKeeps ==
  ASSUME ProcessInv,
         \/ PollChild \/ LoopEnds \/ TaskEnds \/ TaskPanics \/ CloseTerminal \/ Abort
  PROVE  ProcessInv'
  <1> USE DEF ProcessInv, TaskFollowsSpawn, NoChildYet, FailedLeavesNoChild,
              GoneLeavesNoChild, StatusFollows, NoCodeBeforeLive, PaneComesFirst,
              worldVars, spawnVars, statusVars
  <1>1. CASE PollChild
    BY <1>1 DEF PollChild
  <1>2. CASE LoopEnds
    BY <1>2 DEF LoopEnds
  <1>3. CASE TaskEnds
    BY <1>3, KilledKills DEF TaskEnds
  <1>4. CASE TaskPanics
    BY <1>4, KilledKills DEF TaskPanics
  <1>5. CASE CloseTerminal
    BY <1>5 DEF CloseTerminal
  <1>6. CASE Abort
    BY <1>6, KilledKills DEF Abort
  <1>7. QED
    BY <1>1, <1>2, <1>3, <1>4, <1>5, <1>6

\* Steps of nobody keep the invariant.
LEMMA ProcessStutters == ProcessInv /\ UNCHANGED ptyVars => ProcessInv'
  BY DEF ProcessInv, TaskFollowsSpawn, NoChildYet, FailedLeavesNoChild, GoneLeavesNoChild,
         StatusFollows, NoCodeBeforeLive, PaneComesFirst, ptyVars, spawnVars, worldVars,
         threadVars, statusVars

\* The invariant is as strong as what the run checks.
LEMMA ProcessCounts == ProcessInv => ProcessIsAccountedFor
  BY DEF ProcessInv, TaskFollowsSpawn, FailedLeavesNoChild, GoneLeavesNoChild, StatusFollows,
         ProcessIsAccountedFor, AliveIsNeverUnderstated, NothingRunsUnowned, ChildRuns

\* A live pane never says that no process is left while its child runs, a child
\* never outlives the spawn that failed or the task that owned it, and the
\* process group goes with the task - for every queue length.
THEOREM ProcessesAreAccountedFor == PtySpec => []ProcessIsAccountedFor
  <1>1. ProcessInv /\ [PtyNext]_ptyVars => ProcessInv'
    BY SpawnKeeps, WorldKeeps, TaskKeeps, ProcessStutters DEF PtyNext
  <1>2. QED
    BY ProcessInit, ProcessCounts, <1>1, PTL DEF PtySpec

-----------------------------------------------------------------------------
(* The close contract. *)

Screens == {"free", "leaving", "busy"}

\* What a handler may find on the screen: a question only if it is polled.
Found(from, act) ==
  /\ from \in Screens
  /\ from = "busy" => ask # "none" /\ act \in {"kill", "activate", "quit"}

\* A layout about to be replaced is in an open workspace; a reload that waits
\* for trust has none.
ReplacedIsOpen ==
  /\ walk.act = "activate" \/ ask = "profile" => open # {}
  /\ ask = "trust" => open = {}

\* Walks are closed under what the model does to them (_ask_close_step's index
\* and answers, panes freed meanwhile).
LEMMA WalkTypes ==
  ASSUME NEW wk \in Walks
  PROVE  /\ \A gone : Forget(wk, gone) \in Walks /\ Forget(wk, gone).act = wk.act
         /\ \A s \in SUBSET Panes :
              /\ [wk EXCEPT !.asking = s] \in Walks
              /\ [wk EXCEPT !.discarded = @ \cup s, !.asking = {}] \in Walks
              /\ [wk EXCEPT !.late = @ \cup s] \in Walks
              /\ [wk EXCEPT !.named = s] \in Walks
         /\ \A s, r \in SUBSET Panes :
              /\ [wk EXCEPT !.left = s, !.asking = r] \in Walks
              /\ [wk EXCEPT !.left = s, !.named = r] \in Walks
  <1>1. \A gone : Forget(wk, gone) \in Walks /\ Forget(wk, gone).act = wk.act
    BY DEF Walks, Forget
  <1>2. ASSUME NEW s \in SUBSET Panes
        PROVE  /\ [wk EXCEPT !.asking = s] \in Walks
               /\ [wk EXCEPT !.discarded = @ \cup s, !.asking = {}] \in Walks
               /\ [wk EXCEPT !.late = @ \cup s] \in Walks
               /\ [wk EXCEPT !.named = s] \in Walks
    BY DEF Walks
  <1>3. ASSUME NEW s \in SUBSET Panes, NEW r \in SUBSET Panes
        PROVE  /\ [wk EXCEPT !.left = s, !.asking = r] \in Walks
               /\ [wk EXCEPT !.left = s, !.named = r] \in Walks
    BY DEF Walks
  <1>4. QED
    BY <1>1, <1>2, <1>3

\* A new walk, and none, are walks.
LEMMA NewWalkTypes ==
  ASSUME NEW act \in Acts \cup {"none"}, NEW target \in SUBSET Panes,
         NEW space \in SUBSET Spaces
  PROVE  /\ Walk(act, target, space) \in Walks
         /\ Walk(act, target, space).act = act
         /\ NoWalk \in Walks /\ NoWalk.act = "none"
  BY DEF Walk, Walks, NoWalk, Acts

\* Clear and Raise keep the screen's types (the dialogs of the window).
LEMMA ScreenTypes ==
  ASSUME ScreenOK, NEW from, NEW act, Found(from, act)
  PROVE  /\ \A gone : Clear(from, gone) => ScreenOK'
         /\ \A wk \in Walks, q \in Questions :
              (wk.act # "none" <=> q \in WalkQuestions) /\ Raise(q, wk, from) => ScreenOK'
  <1>1. ASSUME NEW gone, Clear(from, gone)
        PROVE  ScreenOK'
    <2>1. CASE from = "busy"
      BY <1>1, <2>1, WalkTypes DEF Clear, Found, ScreenOK
    <2>2. CASE from # "busy"
      <3>1. NoWalk \in Walks /\ NoWalk.act = "none"
        BY NewWalkTypes DEF NoWalk, Walk, Walks
      <3>2. QED
        BY <1>1, <2>2, <3>1 DEF Clear, Found, Screens, ScreenOK, WalkQuestions
    <2>3. QED
      BY <2>1, <2>2
  <1>2. ASSUME NEW wk \in Walks, NEW q \in Questions,
               wk.act # "none" <=> q \in WalkQuestions, Raise(q, wk, from)
        PROVE  ScreenOK'
    <2>1. CASE from = "free"
      BY <1>2, <2>1 DEF Raise, ScreenOK
    <2>2. CASE from # "free"
      BY <1>1, <1>2, <2>2 DEF Raise
    <2>3. QED
      BY <2>1, <2>2
  <1>3. QED
    BY <1>1, <1>2

-----------------------------------------------------------------------------
\* The window's own panes and commands after panes are gone, moved in or added
\* (TerminalManager.reset and kill, _restore_into, _attach_pane_into).
LEMMA RestoredIsNew ==
  ASSUME NEW kept \in SUBSET Panes, NEW new \in Restored(kept)
  PROVE  new \subseteq Panes /\ new \cap kept = {}
  BY DEF Restored

\* Build opens workspaces and puts every pane in one of them.
LEMMA BuildTypes ==
  ASSUME Build
  PROVE  /\ DOMAIN home' \subseteq Panes /\ home' \in [DOMAIN home' -> Spaces]
         /\ open' \subseteq Spaces /\ active' \in Spaces /\ active' \in open'
         /\ \A p \in DOMAIN home' : home'[p] \in open'
  <1>1. PICK now \in SUBSET Spaces \ {{}}, new \in Restored({}) :
          /\ open' = now /\ active' \in now
          /\ home' \in [new -> now]
    BY DEF Build
  <1>2. new \subseteq Panes
    BY <1>1, RestoredIsNew
  <1>3. QED
    BY <1>1, <1>2

\* A workspace of its own for a profile.
LEMMA InNewWorkspaceTypes ==
  ASSUME WindowOK, InNewWorkspace, UNCHANGED workVars
  PROVE  WindowOK'
  <1>1. PICK w \in Spaces \ open, new \in Restored(Live) :
          /\ open' = open \cup {w} /\ active' = w
          /\ home' = Add(Live, new, w)
    BY DEF InNewWorkspace
  <1>2. new \subseteq Panes
    BY <1>1, RestoredIsNew DEF WindowOK, Live
  <1>3. QED
    BY <1>1, <1>2 DEF WindowOK, Live, Add, workVars

\* Reload leaves a file's workspaces, or none and the trust question.
LEMMA ReloadTypes ==
  ASSUME WindowOK, ScreenOK, NEW from, NEW act, Found(from, act), Reload(from), busy' = {}, dirty' = {}
  PROVE  WindowOK' /\ ScreenOK'
  <1>1. CASE Build /\ Clear(from, {})
    BY <1>1, BuildTypes, ScreenTypes DEF WindowOK, Live
  <1>2. CASE /\ home' = <<>> /\ open' = {} /\ UNCHANGED active
             /\ Raise("trust", NoWalk, from)
    <2>1. ScreenOK'
      <3>1. NoWalk \in Walks /\ NoWalk.act = "none"
        BY NewWalkTypes DEF NoWalk, Walk, Walks
      <3>2. QED
        BY <1>2, <3>1, ScreenTypes DEF Questions, WalkQuestions
    <2>2. WindowOK'
      BY <1>2, <2>1 DEF WindowOK, Live
    <2>3. QED
      BY <2>1, <2>2
  <1>3. QED
    BY <1>1, <1>2 DEF Reload

\* A process that ended holds nothing.
LEMMA QuitTypes ==
  ASSUME WindowOK, Quits, busy' = {}, dirty' = {}, lost' \subseteq Panes, unasked' \subseteq Panes
  PROVE  TypeOK'
  <1>1. NoWalk \in Walks /\ NoWalk.act = "none"
    BY NewWalkTypes DEF NoWalk, Walk, Walks
  <1>2. DOMAIN home' = {}
    BY DEF Quits
  <1>3. WindowOK'
    BY <1>2 DEF Quits, WindowOK, Live
  <1>4. QED
    BY <1>1, <1>3 DEF Quits, TypeOK, WindowOK, ScreenOK, FlagsOK, Live, WalkQuestions

\* Perform: whatever the action is, the window that results is well typed.
LEMMA PerformTypes ==
  ASSUME TypeOK, NEW from, NEW wk \in Walks, wk.act # "none", Found(from, wk.act),
         wk.act = "activate" => open # {},
         NEW d \in SUBSET dirty, Perform(wk, d, from)
  PROVE  TypeOK'
  <1> DEFINE gone == Destroyed(wk)
             kept == Live \ gone
  <1>1. /\ lost' = lost \cup ((gone \cap d) \ wk.discarded)
        /\ unasked' = unasked \cup ((gone \cap busy) \ (wk.named \cup wk.late))
        /\ busy' = busy \ gone /\ dirty' = d \ gone
    BY DEF Perform
  <1>2. lost' \subseteq Panes /\ unasked' \subseteq Panes
    BY <1>1 DEF TypeOK, FlagsOK, WindowOK, Live
  <1>3. /\ busy' \subseteq Terminals /\ busy' \subseteq kept
        /\ dirty' \subseteq Wikis /\ dirty' \subseteq kept
        /\ kept \subseteq Live /\ kept \subseteq Panes
    BY <1>1 DEF TypeOK, WindowOK, Live
  <1>4. CASE wk.act \in {"kill", "reset"}
    <2>1. home' = Keep(kept) /\ Clear(from, gone) /\ UNCHANGED <<open, active, quitAsking, up>>
      BY <1>4 DEF Perform
    <2>2. ScreenOK'
      BY <2>1, ScreenTypes DEF TypeOK
    <2>3. WindowOK'
      BY <2>1, <1>3 DEF TypeOK, WindowOK, Live, Keep
    <2>4. QED
      BY <2>1, <2>2, <2>3, <1>2 DEF TypeOK, FlagsOK
  <1>5. CASE wk.act = "swap"
    <2>1. Swapped(gone) /\ Clear(from, gone) /\ UNCHANGED <<open, active, quitAsking, up>>
      BY <1>5 DEF Perform
    <2>2. ScreenOK'
      BY <2>1, ScreenTypes DEF TypeOK
    <2>3. WindowOK'
      <3>1. CASE gone = {}
        BY <2>1, <1>3, <3>1 DEF TypeOK, WindowOK, Live, Swapped
      <3>2. CASE gone # {}
        <4>1. PICK p \in gone, q \in Panes \ (Live \ gone) :
                     home' = Add(Live \ gone, {q}, home[p])
          BY <2>1, <3>2 DEF Swapped
        <4>2. p \in Live
          BY <1>5 DEF Destroyed
        <4>3. QED
          BY <2>1, <1>3, <4>1, <4>2 DEF TypeOK, WindowOK, Live, Add
      <3>3. QED
        BY <3>1, <3>2
    <2>4. QED
      BY <2>1, <2>2, <2>3, <1>2 DEF TypeOK, FlagsOK
  <1>6. CASE wk.act = "activate"
    <2>1. PICK new \in Restored(kept) : home' = Add(kept, new, active)
      BY <1>6 DEF Perform
    <2>2. Clear(from, gone) /\ UNCHANGED <<open, active, quitAsking, up>>
      BY <1>6 DEF Perform
    <2>3. ScreenOK'
      BY <2>2, ScreenTypes DEF TypeOK
    <2>4. new \subseteq Panes
      BY <1>3, RestoredIsNew
    <2>5. active \in open
      BY <1>6 DEF TypeOK, WindowOK
    <2>6. WindowOK'
      BY <2>1, <2>2, <2>4, <2>5, <1>3 DEF TypeOK, WindowOK, Live, Add
    <2>7. QED
      BY <2>2, <2>3, <2>6, <1>2 DEF TypeOK, FlagsOK
  <1>7. CASE wk.act = "close"
    <2>1. /\ home' = Keep(kept) /\ open' = open \ wk.space
          /\ IF active \in wk.space THEN active' \in open' ELSE UNCHANGED active
          /\ Clear(from, gone)
          /\ UNCHANGED <<quitAsking, up>>
      BY <1>7 DEF Perform
    <2>2. ScreenOK'
      BY <2>1, ScreenTypes DEF TypeOK
    <2>3. gone = {p \in Live : home[p] \in wk.space}
      BY <1>7 DEF Destroyed
    <2>4. WindowOK'
      BY <2>1, <2>3, <1>3 DEF TypeOK, WindowOK, Live, Keep
    <2>5. QED
      BY <2>1, <2>2, <2>4, <1>2 DEF TypeOK, FlagsOK
  <1>8. CASE wk.act = "load"
    <2>1. Reload(from) /\ UNCHANGED <<quitAsking, up>>
      BY <1>8 DEF Perform
    <2>2. busy' = {} /\ dirty' = {}
      <3>1. gone = Live
        BY <1>8 DEF Destroyed
      <3>2. QED
        BY <1>1, <3>1 DEF TypeOK, WindowOK
    <2>3. WindowOK' /\ ScreenOK'
      BY <2>1, <2>2, ReloadTypes DEF TypeOK
    <2>4. QED
      BY <2>1, <2>3, <1>2 DEF TypeOK, FlagsOK
  <1>9. CASE wk.act = "quit"
    <2>1. Quits
      BY <1>9 DEF Perform
    <2>2. busy' = {} /\ dirty' = {}
      <3>1. gone = Live
        BY <1>9 DEF Destroyed
      <3>2. QED
        BY <1>1, <3>1 DEF TypeOK, WindowOK
    <2>3. QED
      BY <2>1, <2>2, <1>2, QuitTypes DEF TypeOK
  <1>10. QED
    BY <1>4, <1>5, <1>6, <1>7, <1>8, <1>9 DEF Walks, Acts

-----------------------------------------------------------------------------
\* A waiting walk asks only panes its action destroys, and of those it asks
\* every one with unsaved work that has not answered Discard; the commands it
\* would stop were named or began after the question.
WalkCovered ==
  walk.act # "none" =>
    /\ walk.left \subseteq Destroyed(walk)
    /\ Destroyed(walk) \cap dirty \subseteq walk.left \cup walk.asking \cup walk.discarded
    /\ ask = "running" => walk.asking = {}
    /\ Destroyed(walk) \cap busy \subseteq walk.named \cup walk.late

AskInv == ReplacedIsOpen /\ QuestionHasItsPane /\ WalkCovered

\* What the history variables say.
Histories == NoNoteLost /\ CommandsNamed

IInv == TypeOK /\ Histories /\ AskInv

\* Without a walk there is nothing to keep.
LEMMA NothingAsked ==
  ASSUME walk'.act = "none", ask' \in {"none", "trust", "other"},
         ask' = "trust" => open' = {}
  PROVE  AskInv'
  BY DEF AskInv, ReplacedIsOpen, QuestionHasItsPane, WalkCovered

\* A clear screen has no walk (the answered dialog is freed).
LEMMA ClearAsksNothing ==
  ASSUME NEW from \in {"free", "leaving"}, NEW gone, Clear(from, gone)
  PROVE  AskInv'
  <1>1. ask' = "none" /\ walk'.act = "none"
    BY DEF Clear, NoWalk, Walk
  <1>2. QED
    BY <1>1, NothingAsked

\* A request that destroys clean panes and keeps the others where they are
\* leaves the question on the screen true (killPane, layoutLoad).
LEMMA BusyKeeps ==
  ASSUME IInv, ask # "none", NEW gone, gone \cap dirty = {}, Clear("busy", gone),
         dirty' = dirty, busy' = busy \ gone, UNCHANGED <<open, active>>,
         \A p \in Live \ gone : p \in Live' /\ home'[p] = home[p]
  PROVE  AskInv'
  <1>1. /\ ask' = ask
        /\ walk' = [walk EXCEPT !.target = @ \ gone, !.left = @ \ gone,
                                !.named = @ \ gone, !.late = @ \ gone]
    BY DEF Clear, Forget
  <1>2. walk \in Walks /\ dirty \subseteq Live /\ busy \subseteq Live
    BY DEF IInv, TypeOK, WindowOK, ScreenOK
  <1>3. /\ walk'.act = walk.act /\ walk'.left = walk.left \ gone
        /\ walk'.target = walk.target \ gone
        /\ walk'.space = walk.space /\ walk'.asking = walk.asking
        /\ walk'.discarded = walk.discarded
        /\ walk'.named = walk.named \ gone /\ walk'.late = walk.late \ gone
    BY <1>1, <1>2 DEF Walks
  <1>4. ASSUME NEW p \in Live \ gone
        PROVE  p \in Destroyed(walk)' <=> p \in Destroyed(walk)
    BY <1>3 DEF Destroyed, In, Live
  <1>5. ReplacedIsOpen'
    BY <1>1, <1>3 DEF IInv, AskInv, ReplacedIsOpen
  <1>6. QuestionHasItsPane'
    <2>1. SUFFICES ASSUME ask \in {"leave", "overwrite"}
                   PROVE  \E p \in dirty : walk'.asking = {p} /\ p \in Destroyed(walk)'
      BY <1>1 DEF QuestionHasItsPane
    <2>2. PICK p \in dirty : walk.asking = {p} /\ p \in Destroyed(walk)
      BY <2>1 DEF IInv, AskInv, QuestionHasItsPane
    <2>3. QED
      BY <2>2, <1>2, <1>3, <1>4
  <1>7. WalkCovered'
    <2>1. SUFFICES ASSUME walk.act # "none"
                   PROVE  WalkCovered'
      BY <1>3 DEF WalkCovered
    <2>2. walk.left \subseteq Live
      BY <2>1 DEF IInv, AskInv, WalkCovered, Destroyed, In
    <2>3. QED
      BY <2>1, <2>2, <1>1, <1>2, <1>3, <1>4 DEF IInv, AskInv, WalkCovered
  <1>8. QED
    BY <1>5, <1>6, <1>7 DEF AskInv

\* Perform: an action whose pane answers are all in destroys no note that was
\* neither saved nor discarded, and leaves a question on the screen true.
LEMMA PerformKeeps ==
  ASSUME IInv, NEW from, NEW wk \in Walks, wk.act # "none", Found(from, wk.act),
         wk.act = "activate" => open # {},
         NEW d \in SUBSET dirty, Destroyed(wk) \cap d \subseteq wk.discarded,
         Destroyed(wk) \cap busy \subseteq wk.named \cup wk.late,
         from = "busy" => d = dirty /\ (wk.act = "quit" \/ Destroyed(wk) \cap dirty = {}),
         Perform(wk, d, from)
  PROVE  IInv'
  <1> DEFINE gone == Destroyed(wk)
             kept == Live \ gone
  <1>1. TypeOK'
    BY PerformTypes DEF IInv
  <1>2. Histories'
    <2>1. /\ lost' = lost \cup ((gone \cap d) \ wk.discarded)
          /\ unasked' = unasked \cup ((gone \cap busy) \ (wk.named \cup wk.late))
      BY DEF Perform
    <2>2. QED
      BY <2>1 DEF IInv, Histories, NoNoteLost, CommandsNamed
  <1>3. AskInv'
    <2>1. CASE wk.act = "quit"
      <3>1. ask' = "none" /\ walk'.act = "none"
        BY <2>1 DEF Perform, Quits, NoWalk, Walk
      <3>2. QED
        BY <3>1, NothingAsked
    <2>2. CASE wk.act = "load"
      <3>1. from \in {"free", "leaving"} /\ Reload(from)
        BY <2>2 DEF Perform, Found, Screens
      <3>2. CASE Build /\ Clear(from, {})
        BY <3>1, <3>2, ClearAsksNothing
      <3>3. CASE open' = {} /\ Raise("trust", NoWalk, from)
        <4>1. CASE from = "free"
          <5>1. ask' = "trust" /\ walk'.act = "none"
            BY <3>3, <4>1 DEF Raise, NoWalk, Walk
          <5>2. QED
            BY <3>3, <5>1, NothingAsked
        <4>2. CASE from # "free"
          BY <3>1, <3>3, <4>2, ClearAsksNothing DEF Raise
        <4>3. QED
          BY <4>1, <4>2
      <3>4. QED
        BY <3>1, <3>2, <3>3 DEF Reload
    <2>3. CASE wk.act \notin {"quit", "load"} /\ from # "busy"
      <3>1. Clear(from, gone)
        BY <2>3 DEF Perform
      <3>2. QED
        BY <2>3, <3>1, ClearAsksNothing DEF Found, Screens
    <2>4. CASE wk.act # "quit" /\ from = "busy"
      <3>1. wk.act \in {"kill", "activate"} /\ ask # "none" /\ d = dirty /\ gone \cap dirty = {}
        BY <2>4 DEF Found
      <3>2. /\ Clear("busy", gone) /\ dirty' = dirty /\ busy' = busy \ gone
            /\ UNCHANGED <<open, active>>
        BY <2>4, <3>1 DEF Perform
      <3>3. \A p \in Live \ gone : p \in Live' /\ home'[p] = home[p]
        <4>1. CASE wk.act = "kill"
          BY <4>1 DEF Perform, Keep, Live
        <4>2. CASE wk.act = "activate"
          <5>1. PICK new \in Restored(kept) : home' = Add(kept, new, active)
            BY <4>2 DEF Perform
          <5>2. new \cap kept = {}
            <6>1. kept \in SUBSET Panes
              BY DEF IInv, TypeOK, WindowOK, Live
            <6>2. QED
              BY <6>1, RestoredIsNew
          <5>3. QED
            BY <5>1, <5>2 DEF Add, Live
        <4>3. QED
          BY <3>1, <4>1, <4>2
      <3>4. QED
        BY <3>1, <3>2, <3>3, BusyKeeps
    <2>5. QED
      BY <2>1, <2>2, <2>3, <2>4
  <1>4. QED
    BY <1>1, <1>2, <1>3 DEF IInv

\* A no changes nothing but the screen.
LEMMA DeclineKeeps ==
  ASSUME IInv, NEW from, NEW act, Found(from, act), NEW wk,
         NEW d \in SUBSET dirty, from = "busy" => d = dirty,
         Decline(wk, from), dirty' = d
  PROVE  IInv'
  <1>1. Clear(from, {}) /\ UNCHANGED <<windowVars, busy, up, historyVars>>
    BY DEF Decline
  <1>2. ScreenOK'
    BY <1>1, ScreenTypes DEF IInv, TypeOK
  <1>3. TypeOK' /\ Histories'
    BY <1>1, <1>2 DEF Decline, IInv, TypeOK, WindowOK, FlagsOK, Histories, NoNoteLost, CommandsNamed, Live,
                      windowVars, historyVars
  <1>4. AskInv'
    <2>1. CASE from = "busy"
      BY <1>1, <2>1, BusyKeeps DEF Found, windowVars, Live
    <2>2. CASE from # "busy"
      BY <1>1, <2>2, ClearAsksNothing DEF Found, Screens
    <2>3. QED
      BY <2>1, <2>2
  <1>5. QED
    BY <1>3, <1>4 DEF IInv

\* A question that is put, or refused by the engine, over an unchanged window.
LEMMA RaiseKeeps ==
  ASSUME IInv, NEW from, NEW wk \in Walks, wk.act # "none", Found(from, wk.act),
         wk.act = "activate" => open # {},
         NEW d \in SUBSET dirty, from = "busy" => d = dirty, dirty' = d,
         NEW q \in WalkQuestions, Raise(q, wk, from),
         wk.left \subseteq Destroyed(wk),
         Destroyed(wk) \cap d \subseteq wk.left \cup wk.asking \cup wk.discarded,
         Destroyed(wk) \cap busy \subseteq wk.named \cup wk.late,
         q = "running" => wk.asking = {},
         q # "running" => \E p \in d : wk.asking = {p} /\ p \in Destroyed(wk),
         quitAsking' \in BOOLEAN,
         UNCHANGED <<windowVars, busy, up, historyVars>>
  PROVE  IInv'
  <1>1. ScreenOK'
    BY ScreenTypes DEF IInv, TypeOK, Questions
  <1>2. TypeOK' /\ Histories'
    BY <1>1 DEF IInv, TypeOK, WindowOK, FlagsOK, Histories, NoNoteLost, CommandsNamed, Live, windowVars, historyVars
  <1>3. AskInv'
    <2>1. CASE from = "free"
      <3>1. ask' = q /\ walk' = wk
        BY <2>1 DEF Raise
      <3>2. Destroyed(walk)' = Destroyed(wk)
        BY <3>1 DEF Destroyed, In, Live, windowVars
      <3>3. ReplacedIsOpen'
        BY <3>1 DEF ReplacedIsOpen, WalkQuestions, windowVars
      <3>4. QuestionHasItsPane'
        BY <3>1, <3>2 DEF QuestionHasItsPane
      <3>5. WalkCovered'
        BY <3>1, <3>2 DEF WalkCovered
      <3>6. QED
        BY <3>3, <3>4, <3>5 DEF AskInv
    <2>2. CASE from = "leaving"
      BY <2>2, ClearAsksNothing DEF Raise
    <2>3. CASE from = "busy"
      BY <2>3, BusyKeeps DEF Raise, Found, windowVars, Live
    <2>4. QED
      BY <2>1, <2>2, <2>3 DEF Found, Screens
  <1>4. QED
    BY <1>2, <1>3 DEF IInv

\* _ask_close_step: every pane left is asked before the action is performed.
LEMMA ContinueKeeps ==
  ASSUME IInv, NEW from, NEW wk \in Walks, wk.act # "none", Found(from, wk.act),
         wk.act = "activate" => open # {}, wk.asking = {},
         NEW d \in SUBSET dirty,
         wk.left \subseteq Destroyed(wk),
         Destroyed(wk) \cap d \subseteq wk.left \cup wk.discarded,
         Destroyed(wk) \cap busy \subseteq wk.named \cup wk.late,
         from = "busy" => d = dirty /\ (wk.act = "quit" \/ Destroyed(wk) \cap dirty = {}),
         Continue(wk, d, from)
  PROVE  IInv'
  <1> DEFINE must == wk.left \cap Live \cap d
  <1>1. dirty \subseteq Live /\ dirty \subseteq Panes
    BY DEF IInv, TypeOK, WindowOK, Live
  <1>2. CASE must = {} /\ Perform(wk, d, from)
    <2>1. Destroyed(wk) \cap d \subseteq wk.discarded
      BY <1>1, <1>2
    <2>2. QED
      BY <1>2, <2>1, PerformKeeps
  <1>3. ASSUME NEW p \in must,
               IF from = "busy" /\ p \in walk.asking
               THEN Decline(wk, from) /\ dirty' = d
               ELSE /\ Raise("leave", [wk EXCEPT !.left = must \ {p}, !.asking = {p}], from)
                    /\ dirty' = d
                    /\ quitAsking' = (quitAsking \/ wk.act = "quit")
                    /\ UNCHANGED <<windowVars, busy, up, historyVars>>
        PROVE  IInv'
    <2>1. CASE from = "busy" /\ p \in walk.asking
      BY <1>3, <2>1, DeclineKeeps
    <2>2. CASE ~(from = "busy" /\ p \in walk.asking)
      <3> DEFINE next == [wk EXCEPT !.left = must \ {p}, !.asking = {p}]
      <3>1. /\ next \in Walks /\ next.act = wk.act /\ next.target = wk.target
            /\ next.space = wk.space /\ next.left = must \ {p} /\ next.asking = {p}
            /\ next.discarded = wk.discarded /\ next.named = wk.named /\ next.late = wk.late
        BY <1>1 DEF Walks
      <3>2. Destroyed(next) = Destroyed(wk)
        BY <3>1 DEF Destroyed
      <3>3. /\ Raise("leave", next, from) /\ dirty' = d
            /\ quitAsking' = (quitAsking \/ wk.act = "quit")
            /\ UNCHANGED <<windowVars, busy, up, historyVars>>
        BY <1>3, <2>2
      <3>4. quitAsking' \in BOOLEAN
        BY <3>3
      <3>5. /\ p \in d /\ p \in Destroyed(next)
            /\ next.left \subseteq Destroyed(next)
            /\ Destroyed(next) \cap d \subseteq next.left \cup next.asking \cup next.discarded
            /\ Destroyed(next) \cap busy \subseteq next.named \cup next.late
        BY <1>1, <3>1, <3>2
      <3>6. "leave" \in WalkQuestions
        BY DEF WalkQuestions
      <3>7. next.act # "none" /\ Found(from, next.act) /\ (next.act = "activate" => open # {})
        BY <3>1
      <3> HIDE DEF next
      <3>8. QED
        BY <3>1, <3>3, <3>4, <3>5, <3>6, <3>7, RaiseKeeps
    <2>3. QED
      BY <2>1, <2>2
  <1>4. QED
    BY <1>2, <1>3 DEF Continue

\* _ask_close_then: what is asked is what the action destroys.
LEMMA AskCloseKeeps ==
  ASSUME IInv, NEW from, NEW wk \in Walks, wk.act # "none", Found(from, wk.act),
         wk.act = "activate" => open # {},
         wk.asking = {}, wk.target \subseteq Live,
         from = "busy" => wk.act = "quit",
         AskClose(wk, from)
  PROVE  IInv'
  <1> DEFINE running == Asked(wk) \cap busy
             asks == [wk EXCEPT !.left = Asked(wk), !.named = running]
  <1>1. Asked(wk) = Destroyed(wk)
    BY DEF Asked, Destroyed
  <1>2. Asked(wk) \subseteq Panes
    BY <1>1 DEF Destroyed, In, IInv, TypeOK, WindowOK, Live
  <1>3. /\ asks \in Walks /\ asks.act = wk.act /\ asks.target = wk.target
        /\ asks.space = wk.space /\ asks.left = Asked(wk) /\ asks.asking = {}
        /\ asks.named = running
    BY <1>2 DEF Walks
  <1>4. Destroyed(asks) = asks.left /\ Destroyed(asks) \cap busy = asks.named
    BY <1>1, <1>3 DEF Destroyed
  <1>5. asks.act # "none" /\ Found(from, asks.act) /\ (asks.act = "activate" => open # {})
    BY <1>3
  <1>6. CASE running = {} /\ Continue(asks, dirty, from)
    <2> HIDE DEF asks
    <2>1. QED
      BY <1>3, <1>4, <1>5, <1>6, ContinueKeeps
  <1>7. CASE /\ Raise("running", asks, from)
             /\ quitAsking' = (quitAsking \/ wk.act = "quit")
             /\ UNCHANGED <<windowVars, workVars, up, historyVars>>
    <2>1. /\ quitAsking' \in BOOLEAN /\ dirty' = dirty /\ "running" \in WalkQuestions
          /\ UNCHANGED <<windowVars, busy, up, historyVars>>
      BY <1>7 DEF workVars, WalkQuestions
    <2>2. Raise("running", asks, from)
      BY <1>7
    <2> HIDE DEF asks
    <2>3. QED
      BY <1>3, <1>4, <1>5, <2>1, <2>2, RaiseKeeps
  <1>8. QED
    BY <1>6, <1>7 DEF AskClose

-----------------------------------------------------------------------------
\* The user's closes, swaps, resets, reloads and activations.
LEMMA UserAsks ==
  ASSUME IInv, NEW act \in Acts, NEW target \in SUBSET Live, NEW space \in SUBSET Spaces,
         NEW from, Found(from, act), act = "activate" => open # {},
         from = "busy" => act = "quit",
         AskClose(Walk(act, target, space), from)
  PROVE  IInv'
  <1> DEFINE wk == Walk(act, target, space)
  <1>1. target \in SUBSET Panes
    BY DEF IInv, TypeOK, WindowOK, Live
  <1>2. wk \in Walks /\ wk.act = act
    BY <1>1, NewWalkTypes
  <1>3. wk.act # "none" /\ wk.asking = {} /\ wk.target = target
    BY <1>2 DEF Walk, Acts
  <1> HIDE DEF wk
  <1>4. AskClose(wk, from)
    BY DEF wk
  <1>5. QED
    BY <1>2, <1>3, <1>4, AskCloseKeeps

\* With no dialog on the screen an action finds it free.
LEMMA FreeFound ==
  ASSUME NEW act
  PROVE  Found("free", act)
  BY DEF Found, Screens

\* The closes, swaps, resets and reloads a user starts with no dialog up.
LEMMA UserActs ==
  ASSUME IInv,
         \/ \E p \in Panes : Close(p) \/ Swap(p)
         \/ \E w \in Spaces : CloseWorkspace(w)
         \/ Reset \/ Load
  PROVE  IInv'
  <1>1. ASSUME NEW p \in Panes, Close(p) \/ Swap(p)
        PROVE  IInv'
    <2>1. {p} \in SUBSET Live /\ {} \in SUBSET Spaces
      BY <1>1 DEF Close, Swap, In
    <2>2. CASE Close(p)
      BY <2>1, <2>2, FreeFound, UserAsks DEF Close, Acts
    <2>3. CASE Swap(p)
      BY <2>1, <2>3, FreeFound, UserAsks DEF Swap, Acts
    <2>4. QED
      BY <1>1, <2>2, <2>3
  <1>2. ASSUME NEW w \in Spaces, CloseWorkspace(w)
        PROVE  IInv'
    <2>1. {w} \in SUBSET Spaces /\ {} \in SUBSET Live
      OBVIOUS
    <2>2. QED
      BY <1>2, <2>1, FreeFound, UserAsks DEF CloseWorkspace, Acts
  <1>3. {} \in SUBSET Live /\ {} \in SUBSET Spaces
    OBVIOUS
  <1>4. CASE Reset
    BY <1>3, <1>4, FreeFound, UserAsks DEF Reset, Acts
  <1>5. CASE Load
    BY <1>3, <1>5, FreeFound, UserAsks DEF Load, Acts
  <1>6. QED
    BY <1>1, <1>2, <1>4, <1>5

\* A profile: asked about, opened beside the others, or activated.
LEMMA ActivateKeeps ==
  ASSUME IInv, Activate \/ OpenProfile \/ AnswerProfile
  PROVE  IInv'
  <1>1. {} \in SUBSET Live /\ {} \in SUBSET Spaces
    OBVIOUS
  <1>2. NoWalk \in Walks /\ NoWalk.act = "none"
    BY NewWalkTypes DEF NoWalk, Walk, Walks
  <1>3. (Activate \/ OpenProfile \/ AnswerProfile) => open # {}
    BY DEF Activate, OpenProfile, AnswerProfile, IInv, AskInv, ReplacedIsOpen
  <1>4. CASE AskClose(Walk("activate", {}, {}), "free")
    BY <1>1, <1>3, <1>4, FreeFound, UserAsks DEF Acts
  <1>5. CASE Free /\ Raise("profile", NoWalk, "free") /\ UNCHANGED <<windowVars, workVars>> /\ Calm
    <2>1. ScreenOK'
      BY <1>2, <1>5, FreeFound, ScreenTypes DEF IInv, TypeOK, Questions, WalkQuestions
    <2>2. TypeOK' /\ Histories'
      BY <1>5, <2>1 DEF IInv, TypeOK, WindowOK, FlagsOK, Histories, NoNoteLost, CommandsNamed, Live, Calm,
                        windowVars, workVars, historyVars
    <2>3. AskInv'
      BY <1>2, <1>3, <1>5 DEF Raise, AskInv, ReplacedIsOpen, QuestionHasItsPane, WalkCovered,
                         windowVars
    <2>4. QED
      BY <2>2, <2>3 DEF IInv
  <1>6. CASE OpenProfile
    <2>1. WindowOK'
      BY <1>6, InNewWorkspaceTypes DEF OpenProfile, IInv, TypeOK
    <2>2. walk'.act = "none" /\ ask' = "none"
      BY <1>6 DEF OpenProfile, Free, screenVars, IInv, TypeOK, ScreenOK, WalkQuestions
    <2>3. TypeOK' /\ Histories'
      BY <1>6, <2>1 DEF OpenProfile, IInv, TypeOK, ScreenOK, FlagsOK, Histories, NoNoteLost, CommandsNamed, Calm,
                        screenVars, historyVars
    <2>4. QED
      BY <2>2, <2>3, NothingAsked DEF IInv
  <1>7. CASE /\ AnswerProfile
             /\ InNewWorkspace /\ Clear("free", {}) /\ UNCHANGED workVars /\ Calm
    <2>1. WindowOK'
      BY <1>7, InNewWorkspaceTypes DEF IInv, TypeOK
    <2>2. ScreenOK'
      BY <1>7, FreeFound, ScreenTypes DEF IInv, TypeOK
    <2>3. TypeOK' /\ Histories'
      BY <1>7, <2>1, <2>2 DEF IInv, TypeOK, FlagsOK, Histories, NoNoteLost, CommandsNamed, Calm, historyVars
    <2>4. QED
      BY <1>7, <2>3, ClearAsksNothing DEF IInv
  <1>8. CASE Clear("free", {}) /\ UNCHANGED <<windowVars, workVars>> /\ Calm
    <2>1. ScreenOK'
      BY <1>8, FreeFound, ScreenTypes DEF IInv, TypeOK
    <2>2. TypeOK' /\ Histories'
      BY <1>8, <2>1 DEF IInv, TypeOK, WindowOK, FlagsOK, Histories, NoNoteLost, CommandsNamed, Live, Calm,
                        windowVars, workVars, historyVars
    <2>3. QED
      BY <1>8, <2>2, ClearAsksNothing DEF IInv
  <1>9. QED
    BY <1>4, <1>5, <1>6, <1>7, <1>8 DEF Activate, AnswerProfile

\* The user works on the screen in front, or moves to another workspace.
LEMMA UserWorks ==
  ASSUME IInv,
         \/ \E p \in Panes : Edit(p) \/ SaveNote(p) \/ TypeCommand(p)
         \/ \E w \in Spaces : AddWorkspace(w) \/ Switch(w)
  PROVE  IInv'
  <1> USE DEF IInv, TypeOK, Histories, NoNoteLost, CommandsNamed, Calm, screenVars, historyVars
  <1>1. Free /\ UNCHANGED <<screenVars, lost, unasked, quitAsking, up>>
    BY DEF Edit, SaveNote, TypeCommand, AddWorkspace, Switch
  <1>2. ask' = "none" /\ walk'.act = "none" /\ ScreenOK' /\ FlagsOK'
        /\ UNCHANGED <<lost, unasked>>
    BY <1>1 DEF Free, ScreenOK, FlagsOK, WalkQuestions
  <1>3. ASSUME NEW p \in Panes, Edit(p) \/ SaveNote(p) \/ TypeCommand(p)
        PROVE  WindowOK'
    BY <1>3 DEF Edit, SaveNote, TypeCommand, WindowOK, In, Live, windowVars
  <1>4. ASSUME NEW w \in Spaces, AddWorkspace(w) \/ Switch(w)
        PROVE  WindowOK'
    BY <1>4 DEF AddWorkspace, Switch, WindowOK, Live, workVars
  <1>5. WindowOK'
    BY <1>3, <1>4
  <1>6. QED
    BY <1>2, <1>5, NothingAsked

\* An answer that lets the walk go on: whoever was asked has saved or discarded.
LEMMA AnswerContinues ==
  ASSUME IInv, ask \in WalkQuestions, NEW wk \in Walks, NEW from \in {"free", "leaving"},
         NEW d \in SUBSET dirty,
         wk.act = walk.act, wk.target = walk.target, wk.space = walk.space,
         wk.left = walk.left, wk.asking = {}, wk.named = walk.named, wk.late = walk.late,
         dirty \cap walk.asking \cap d \subseteq wk.discarded, walk.discarded \subseteq wk.discarded,
         Continue(wk, d, from)
  PROVE  IInv'
  <1>1. walk.act # "none"
    BY DEF IInv, TypeOK, ScreenOK
  <1>2. Destroyed(wk) = Destroyed(walk)
    BY DEF Destroyed
  <1>3. /\ wk.left \subseteq Destroyed(wk)
        /\ Destroyed(wk) \cap d \subseteq wk.left \cup wk.discarded
        /\ Destroyed(wk) \cap busy \subseteq wk.named \cup wk.late
    BY <1>1, <1>2 DEF IInv, AskInv, WalkCovered
  <1>4. wk.act = "activate" => open # {}
    BY DEF IInv, AskInv, ReplacedIsOpen
  <1>5. Found(from, wk.act) /\ from # "busy"
    BY DEF Found, Screens
  <1>6. QED
    BY <1>1, <1>3, <1>4, <1>5, ContinueKeeps

\* Every answer of a walk's dialogs: no, yes, discard, save and overwrite.
LEMMA Answers ==
  ASSUME IInv, No \/ StopThem \/ Discard \/ Save \/ Overwrite
  PROVE  IInv'
  <1>1. ask \in WalkQuestions /\ walk \in Walks
    BY DEF No, StopThem, Discard, Save, Overwrite, WalkQuestions, IInv, TypeOK, ScreenOK
  <1>2. CASE Decline(walk, "free") /\ UNCHANGED dirty
    BY <1>2, FreeFound, DeclineKeeps
  <1>3. CASE StopThem
    <2>1. walk.asking = {}
      BY <1>1, <1>3 DEF StopThem, IInv, TypeOK, ScreenOK, AskInv, WalkCovered
    <2>2. QED
      BY <1>1, <1>3, <2>1, AnswerContinues DEF StopThem
  <1>4. CASE Discard
    <2> DEFINE wk == [walk EXCEPT !.discarded = @ \cup walk.asking, !.asking = {}]
    <2>1. /\ wk \in Walks /\ wk.act = walk.act /\ wk.target = walk.target
          /\ wk.space = walk.space /\ wk.left = walk.left /\ wk.asking = {}
          /\ wk.named = walk.named /\ wk.late = walk.late
          /\ wk.discarded = walk.discarded \cup walk.asking
      BY <1>1 DEF Walks
    <2>2. Continue(wk, dirty, "leaving")
      BY <1>4 DEF Discard
    <2> HIDE DEF wk
    <2>3. QED
      BY <1>1, <2>1, <2>2, AnswerContinues
  <1>5. CASE Continue([walk EXCEPT !.asking = {}], dirty \ walk.asking, "free")
    <2> DEFINE wk == [walk EXCEPT !.asking = {}]
    <2>1. /\ wk \in Walks /\ wk.act = walk.act /\ wk.target = walk.target
          /\ wk.space = walk.space /\ wk.left = walk.left /\ wk.asking = {}
          /\ wk.named = walk.named /\ wk.late = walk.late
          /\ wk.discarded = walk.discarded
      BY <1>1 DEF Walks
    <2>2. Continue(wk, dirty \ walk.asking, "free")
      BY <1>5
    <2> HIDE DEF wk
    <2>3. QED
      BY <1>1, <2>1, <2>2, AnswerContinues
  <1>6. CASE /\ ask = "leave" /\ ask' = "overwrite"
             /\ UNCHANGED <<windowVars, workVars, walk, modal>> /\ Calm
    <2>1. UNCHANGED <<home, open, active, busy, dirty, walk, modal, quitAsking, up, lost, unasked>>
      BY <1>6 DEF windowVars, workVars, Calm, historyVars
    <2>2. TypeOK' /\ Histories'
      BY <1>6, <2>1 DEF IInv, TypeOK, WindowOK, ScreenOK, FlagsOK, Histories, NoNoteLost, CommandsNamed, Live,
                        WalkQuestions, Questions
    <2>3. Destroyed(walk)' = Destroyed(walk)
      BY <2>1 DEF Destroyed, In, Live
    <2>4. AskInv'
      BY <1>6, <2>1, <2>3 DEF IInv, AskInv, ReplacedIsOpen, QuestionHasItsPane, WalkCovered
    <2>5. QED
      BY <2>2, <2>4 DEF IInv
  <1>7. QED
    BY <1>2, <1>3, <1>4, <1>5, <1>6 DEF No, Save, Overwrite

\* The trust answer, other dialogs and the end of a frame.
LEMMA OtherDialogs ==
  ASSUME IInv, AnswerTrust \/ OtherDialog \/ OtherCloses \/ EndFrame
  PROVE  IInv'
  <1>1. NoWalk \in Walks /\ NoWalk.act = "none"
    BY NewWalkTypes DEF NoWalk, Walk, Walks
  <1>2. FlagsOK' /\ Histories'
    BY DEF AnswerTrust, OtherDialog, OtherCloses, EndFrame, Calm, IInv, TypeOK, FlagsOK,
           Histories, NoNoteLost, CommandsNamed, historyVars
  <1>3. CASE AnswerTrust
    <2>1. Build /\ Clear("free", {}) /\ UNCHANGED workVars
      BY <1>3 DEF AnswerTrust
    <2>2. ScreenOK'
      BY <2>1, FreeFound, ScreenTypes DEF IInv, TypeOK
    <2>3. busy = {} /\ dirty = {}
      BY <1>3 DEF AnswerTrust, IInv, AskInv, ReplacedIsOpen, TypeOK, WindowOK
    <2>4. WindowOK'
      BY <2>1, <2>3, BuildTypes DEF WindowOK, Live, workVars
    <2>5. QED
      BY <1>2, <2>1, <2>2, <2>4, ClearAsksNothing DEF IInv, TypeOK
  <1>4. CASE OtherDialog
    <2>1. Raise("other", NoWalk, "free") /\ UNCHANGED <<windowVars, workVars>>
      BY <1>4 DEF OtherDialog
    <2>2. ScreenOK'
      BY <1>1, <2>1, FreeFound, ScreenTypes DEF IInv, TypeOK, Questions, WalkQuestions
    <2>3. WindowOK'
      BY <2>1 DEF IInv, TypeOK, WindowOK, Live, windowVars, workVars
    <2>4. walk'.act = "none" /\ ask' = "other"
      BY <1>1, <2>1 DEF Raise
    <2>5. QED
      BY <1>2, <2>2, <2>3, <2>4, NothingAsked DEF IInv, TypeOK
  <1>5. CASE OtherCloses
    <2>1. PICK m \in {"free", "leaving"} : Clear(m, {})
      BY <1>5 DEF OtherCloses
    <2>2. ScreenOK'
      BY <2>1, ScreenTypes DEF IInv, TypeOK, Found, Screens
    <2>3. WindowOK'
      BY <1>5 DEF OtherCloses, IInv, TypeOK, WindowOK, Live, windowVars, workVars
    <2>4. QED
      BY <1>2, <2>1, <2>2, <2>3, ClearAsksNothing DEF IInv, TypeOK
  <1>6. CASE EndFrame
    <2>1. ask' = "none" /\ walk'.act = "none" /\ ScreenOK'
      BY <1>6 DEF EndFrame, IInv, TypeOK, ScreenOK, WalkQuestions
    <2>2. WindowOK'
      BY <1>6 DEF EndFrame, IInv, TypeOK, WindowOK, Live, windowVars, workVars
    <2>3. QED
      BY <1>2, <2>1, <2>2, NothingAsked DEF IInv, TypeOK
  <1>7. QED
    BY <1>3, <1>4, <1>5, <1>6

-----------------------------------------------------------------------------
\* The screen a request finds.
LEMMA ScreenNowFound ==
  ASSUME IInv, NEW act \in {"kill", "activate", "quit"}
  PROVE  Found(ScreenNow, act)
  BY DEF ScreenNow, Found, Screens, IInv, TypeOK, ScreenOK

\* The requests that destroy panes (killPane, layoutLoad) and the quit.
LEMMA RequestsDestroy ==
  ASSUME IInv, (\E p \in Panes : KillPane(p)) \/ LayoutLoad \/ RequestQuit
  PROVE  IInv'
  <1>1. ASSUME NEW p \in Panes, KillPane(p)
        PROVE  IInv'
    <2> DEFINE wk == [Walk("kill", {p}, {}) EXCEPT !.named = {p}]
    <2>1. wk \in Walks /\ wk.act = "kill" /\ wk.target = {p} /\ wk.discarded = {}
          /\ wk.named = {p}
      BY DEF Walk, Walks, Acts
    <2>2. Destroyed(wk) = {p} \cap Live
      BY <2>1 DEF Destroyed
    <2>3. p \notin dirty /\ Perform(wk, dirty, ScreenNow)
      BY <1>1 DEF KillPane, Refused
    <2>4. Found(ScreenNow, wk.act)
      BY <2>1, ScreenNowFound
    <2> HIDE DEF wk
    <2>5. QED
      BY <2>1, <2>2, <2>3, <2>4, PerformKeeps
  <1>2. CASE LayoutLoad
    <2> DEFINE wk == [Walk("activate", {}, {}) EXCEPT !.left = In(active), !.named = Panes]
    <2>1. In(active) \subseteq Panes
      BY DEF In, IInv, TypeOK, WindowOK, Live
    <2>2. /\ wk \in Walks /\ wk.act = "activate" /\ wk.left = In(active)
          /\ wk.asking = {} /\ wk.discarded = {} /\ wk.named = Panes
      BY <2>1 DEF Walk, Walks, Acts
    <2>3. Destroyed(wk) = In(active)
      BY <2>2 DEF Destroyed
    <2>4. open # {} /\ In(active) \cap dirty = {} /\ Continue(wk, dirty, ScreenNow)
      BY <1>2 DEF LayoutLoad, Refused
    <2>5. Found(ScreenNow, wk.act)
      BY <2>2, ScreenNowFound
    <2> HIDE DEF wk
    <2>6. QED
      BY <2>1, <2>2, <2>3, <2>4, <2>5, ContinueKeeps
  <1>3. CASE RequestQuit
    <2>1. {} \in SUBSET Live /\ {} \in SUBSET Spaces
      OBVIOUS
    <2>2. QED
      BY <1>3, <2>1, ScreenNowFound, UserAsks DEF RequestQuit, Acts
  <1>4. QED
    BY <1>1, <1>2, <1>3

\* A request that starts something changes no note and moves no pane.
LEMMA RequestsStart ==
  ASSUME IInv, \E p \in Panes : NewPane(p) \/ Inject(p) \/ CommandEnds(p)
  PROVE  IInv'
  <1>1. PICK p \in Panes : NewPane(p) \/ Inject(p) \/ CommandEnds(p)
    OBVIOUS
  <1>2. UNCHANGED <<open, active, dirty, ask, modal, quitAsking, up, lost, unasked>>
    BY <1>1 DEF NewPane, Inject, CommandEnds, Calm, windowVars, screenVars, historyVars
  <1>3. /\ walk' \in Walks /\ walk'.act = walk.act /\ walk'.target = walk.target
        /\ walk'.space = walk.space /\ walk'.left = walk.left
        /\ walk'.asking = walk.asking /\ walk'.discarded = walk.discarded
        /\ walk'.named = walk.named /\ walk.late \subseteq walk'.late
    <2>1. CASE UNCHANGED walk
      BY <2>1 DEF IInv, TypeOK, ScreenOK
    <2>2. CASE walk' = [walk EXCEPT !.late = @ \cup {p}]
      BY <2>2 DEF IInv, TypeOK, ScreenOK, Walks
    <2>3. QED
      BY <1>1, <2>1, <2>2 DEF NewPane, Inject, CommandEnds, Late, screenVars
  <1>4. /\ Live \subseteq Live' /\ \A q \in Live : home'[q] = home[q]
        /\ WindowOK'
    <2>1. CASE NewPane(p)
      BY <1>2, <2>1 DEF NewPane, Add, Live, IInv, TypeOK, WindowOK
    <2>2. CASE Inject(p)
      BY <1>2, <2>2 DEF Inject, windowVars, Live, IInv, TypeOK, WindowOK
    <2>3. CASE CommandEnds(p)
      BY <1>2, <2>3 DEF CommandEnds, windowVars, Live, IInv, TypeOK, WindowOK
    <2>4. QED
      BY <1>1, <2>1, <2>2, <2>3
  <1>5. walk.act = "none" \/ busy' \subseteq busy \cup walk'.late
    <2>1. CASE busy' \subseteq busy
      BY <2>1
    <2>2. CASE busy' = busy \cup {p} /\ Late(p)
      BY <2>2 DEF Late, IInv, TypeOK, ScreenOK, Walks
    <2>3. QED
      BY <1>1, <2>1, <2>2 DEF NewPane, Inject, CommandEnds
  <1>6. TypeOK' /\ Histories'
    BY <1>2, <1>3, <1>4 DEF IInv, TypeOK, ScreenOK, FlagsOK, Histories, NoNoteLost, CommandsNamed
  <1>7. \A q \in Live : q \in Destroyed(walk)' <=> q \in Destroyed(walk)
    BY <1>2, <1>3, <1>4 DEF Destroyed, In, Live
  <1>8. AskInv'
    <2>1. ReplacedIsOpen'
      BY <1>2, <1>3 DEF IInv, AskInv, ReplacedIsOpen
    <2>2. dirty \subseteq Live
      BY DEF IInv, TypeOK, WindowOK
    <2>3. QuestionHasItsPane'
      BY <1>2, <1>3, <1>7, <2>2 DEF IInv, AskInv, QuestionHasItsPane
    <2>4. Destroyed(walk) \subseteq Live \/ walk.act = "none"
      BY DEF Destroyed, In
    <2>5. WalkCovered'
      <3>1. SUFFICES ASSUME walk.act # "none" PROVE WalkCovered'
        BY <1>3 DEF WalkCovered
      <3>2. walk.left \subseteq Destroyed(walk) /\ Destroyed(walk) \subseteq Live
        BY <2>4, <3>1 DEF IInv, AskInv, WalkCovered
      <3>3. walk'.left \subseteq Destroyed(walk)'
        BY <1>3, <1>7, <3>2
      <3>4. Destroyed(walk)' \cap dirty \subseteq walk'.left \cup walk'.asking \cup walk'.discarded
        BY <1>3, <1>7, <2>2, <3>1 DEF IInv, AskInv, WalkCovered
      <3>5. Destroyed(walk)' \cap busy \subseteq walk'.named \cup walk'.late
        <4>1. busy \subseteq Live
          BY DEF IInv, TypeOK, WindowOK
        <4>2. QED
          BY <1>3, <1>7, <3>1, <4>1 DEF IInv, AskInv, WalkCovered
      <3>6. Destroyed(walk)' \cap busy' \subseteq walk'.named \cup walk'.late
        BY <1>5, <3>1, <3>5
      <3>7. QED
        BY <1>2, <1>3, <3>1, <3>3, <3>4, <3>6 DEF IInv, AskInv, WalkCovered
    <2>6. QED
      BY <2>1, <2>3, <2>5 DEF AskInv
  <1>9. QED
    BY <1>6, <1>8 DEF IInv

\* The process ends without a question, and starts again from its file.
LEMMA AroundTheProgram ==
  ASSUME IInv, Crash \/ Start
  PROVE  IInv'
  <1>1. CASE Crash
    <2>1. TypeOK'
      BY <1>1, QuitTypes DEF Crash, IInv, TypeOK, FlagsOK, historyVars
    <2>2. ask' = "none" /\ walk'.act = "none" /\ Histories'
      BY <1>1 DEF Crash, Quits, NoWalk, Walk, IInv, Histories, NoNoteLost, CommandsNamed, historyVars
    <2>3. QED
      BY <2>1, <2>2, NothingAsked DEF IInv
  <1>2. CASE Start
    <2>1. WindowOK' /\ ScreenOK'
      BY <1>2, FreeFound, ReloadTypes DEF Start, IInv, TypeOK
    <2>2. FlagsOK' /\ Histories'
      BY <1>2 DEF Start, IInv, TypeOK, FlagsOK, Histories, NoNoteLost, CommandsNamed, historyVars
    <2>3. AskInv'
      <3>1. CASE Clear("free", {})
        BY <3>1, ClearAsksNothing
      <3>2. CASE open' = {} /\ Raise("trust", NoWalk, "free")
        <4>1. ask' = "trust" /\ walk'.act = "none"
          BY <3>2 DEF Raise, NoWalk, Walk
        <4>2. QED
          BY <3>2, <4>1, NothingAsked
      <3>3. QED
        BY <1>2, <3>1, <3>2 DEF Start, Reload
    <2>4. QED
      BY <2>1, <2>2, <2>3 DEF IInv, TypeOK
  <1>3. QED
    BY <1>1, <1>2

-----------------------------------------------------------------------------
\* The strengthened invariant holds in every behaviour: types, no lost note,
\* and the question on the screen still covers what its action destroys.
THEOREM Invariant == Spec => []IInv
  <1>1. Init => IInv
    <2>1. SUFFICES ASSUME Init PROVE IInv
      OBVIOUS
    <2>2. NoWalk \in Walks /\ NoWalk.act = "none"
      BY NewWalkTypes DEF NoWalk, Walk, Walks
    <2>3. DOMAIN home = {}
      BY <2>1 DEF Init
    <2>4. active \in Spaces
      BY <2>1, PanesAssumption DEF Init
    <2>5. WindowOK
      BY <2>1, <2>3, <2>4 DEF Init, WindowOK, Live
    <2>6. QED
      BY <2>1, <2>2, <2>5 DEF Init, IInv, TypeOK, ScreenOK, FlagsOK, Histories, NoNoteLost, CommandsNamed, AskInv,
                        ReplacedIsOpen, QuestionHasItsPane, WalkCovered, WalkQuestions
  <1>2. IInv /\ [Next]_vars => IInv'
    <2>1. SUFFICES ASSUME IInv, [Next]_vars PROVE IInv'
      OBVIOUS
    <2>2. CASE UNCHANGED vars
      <3>1. Destroyed(walk)' = Destroyed(walk)
        BY <2>2 DEF vars, Destroyed, In, Live
      <3>2. TypeOK' /\ Histories'
        BY <2>1, <2>2 DEF vars, IInv, TypeOK, WindowOK, ScreenOK, FlagsOK, Histories, NoNoteLost, CommandsNamed, Live
      <3>3. AskInv'
        BY <2>1, <2>2, <3>1 DEF vars, IInv, AskInv, ReplacedIsOpen, QuestionHasItsPane, WalkCovered
      <3>4. QED
        BY <3>2, <3>3 DEF IInv
    <2>3. CASE (\E p \in Panes : Close(p) \/ Swap(p)) \/ (\E w \in Spaces : CloseWorkspace(w))
               \/ Reset \/ Load
      BY <2>1, <2>3, UserActs
    <2>4. CASE Activate \/ OpenProfile \/ AnswerProfile
      BY <2>1, <2>4, ActivateKeeps
    <2>5. CASE (\E p \in Panes : Edit(p) \/ SaveNote(p) \/ TypeCommand(p))
               \/ (\E w \in Spaces : AddWorkspace(w) \/ Switch(w))
      BY <2>1, <2>5, UserWorks
    <2>6. CASE No \/ StopThem \/ Discard \/ Save \/ Overwrite
      BY <2>1, <2>6, Answers
    <2>7. CASE AnswerTrust \/ OtherDialog \/ OtherCloses \/ EndFrame
      BY <2>1, <2>7, OtherDialogs
    <2>8. CASE (\E p \in Panes : KillPane(p)) \/ LayoutLoad \/ RequestQuit
      BY <2>1, <2>8, RequestsDestroy
    <2>9. CASE \E p \in Panes : NewPane(p) \/ Inject(p) \/ CommandEnds(p)
      BY <2>1, <2>9, RequestsStart
    <2>10. CASE Crash \/ Start
      BY <2>1, <2>10, AroundTheProgram
    <2>11. QED
      BY <2>1, <2>2, <2>3, <2>4, <2>5, <2>6, <2>7, <2>8, <2>9, <2>10 DEF Next
  <1>3. QED
    BY <1>1, <1>2, PTL DEF Spec

\* Type correctness of the close contract.
THEOREM TypeCorrect == Spec => []TypeOK
  <1>1. IInv => TypeOK
    BY DEF IInv
  <1>2. QED
    BY <1>1, Invariant, PTL

\* For any panes and workspaces, and requests and answers in any order, no note
\* is destroyed that its user neither saved nor discarded (_request_leave,
\* has_unsaved_state).
THEOREM NotesKept == Spec => []NoNoteLost
  <1>1. IInv => NoNoteLost
    BY DEF IInv, Histories
  <1>2. QED
    BY <1>1, Invariant, PTL

\* A pane's question is about a live pane with unsaved work that the action
\* behind it would destroy.
THEOREM QuestionsHavePanes == Spec => []QuestionHasItsPane
  <1>1. IInv => QuestionHasItsPane
    BY DEF IInv, AskInv
  <1>2. QED
    BY <1>1, Invariant, PTL

\* For any panes and workspaces, an action of the user stops only commands its
\* question named or that began while it was on the screen (_ask_running_then).
THEOREM NamedCommands == Spec => []CommandsNamed
  <1>1. IInv => CommandsNamed
    BY DEF IInv, Histories
  <1>2. QED
    BY <1>1, Invariant, PTL

\* Neither a note nor a command goes without its question, for any panes and
\* any interleaving of requests and answers.
THEOREM NothingGoesUnasked == Spec => []NothingLostUnasked
  <1>1. NoNoteLost /\ CommandsNamed => NothingLostUnasked
    BY DEF NothingLostUnasked
  <1>2. QED
    BY <1>1, NotesKept, NamedCommands, PTL

-----------------------------------------------------------------------------
\* Every step keeps some panes and adds at most what they leave room for.
Fits ==
  \E kept \in SUBSET Live, new \in SUBSET Panes :
    Live' = kept \cup new /\ Cardinality(new) <= RoomBeside(kept)

CapInv == TypeOK /\ LivePanesCapped

\* The panes of a window are finitely many.
LEMMA FinitePanes ==
  ASSUME NEW s \in SUBSET Panes
  PROVE  IsFiniteSet(s) /\ Cardinality(s) \in Nat
  BY PanesAssumption, FS_Subset, FS_CardinalityType

\* A step that only takes panes away fits.
LEMMA FewerFit ==
  ASSUME CapInv, Live' \subseteq Live
  PROVE  Fits
  <1>1. Live' \in SUBSET Live /\ {} \in SUBSET Panes /\ Live' = Live' \cup {}
    OBVIOUS
  <1>2. Live \subseteq Panes
    BY DEF CapInv, TypeOK, WindowOK, Live
  <1>3. IsFiniteSet(Live) /\ Cardinality(Live) \in Nat /\ Cardinality(Live) <= MaxLive
    BY <1>2, FinitePanes DEF CapInv, LivePanesCapped
  <1>4. Cardinality(Live') <= Cardinality(Live) /\ Cardinality(Live') \in Nat
    BY <1>1, <1>2, <1>3, FS_Subset, FS_CardinalityType
  <1>5. Cardinality({}) <= RoomBeside(Live')
    BY <1>3, <1>4, PanesAssumption, FS_EmptySet DEF RoomBeside
  <1>6. QED
    BY <1>1, <1>5 DEF Fits

\* What fits stays within the limit.
LEMMA FitsCaps ==
  ASSUME CapInv, Fits
  PROVE  LivePanesCapped'
  <1>1. PICK kept \in SUBSET Live, new \in SUBSET Panes :
          Live' = kept \cup new /\ Cardinality(new) <= RoomBeside(kept)
    BY DEF Fits
  <1>2. kept \in SUBSET Panes
    BY DEF CapInv, TypeOK, WindowOK, Live
  <1>3. /\ IsFiniteSet(kept) /\ Cardinality(kept) \in Nat
        /\ IsFiniteSet(new) /\ Cardinality(new) \in Nat
        /\ Cardinality(kept \cap new) \in Nat
    BY <1>2, FinitePanes
  <1>4. Cardinality(kept \cup new)
          = Cardinality(kept) + Cardinality(new) - Cardinality(kept \cap new)
    BY <1>3, FS_Union
  <1>5. QED
    BY <1>1, <1>3, <1>4, PanesAssumption DEF LivePanesCapped, RoomBeside

\* A restored layout fits.
LEMMA RestoredFits ==
  ASSUME CapInv, NEW kept \in SUBSET Live, NEW new \in Restored(kept), Live' = kept \cup new
  PROVE  Fits
  <1>1. new \in SUBSET Panes /\ Cardinality(new) <= RoomBeside(kept)
    BY DEF Restored
  <1>2. QED
    BY <1>1 DEF Fits

\* A single new pane fits where there is room for one (_pane_ceiling_refusal).
LEMMA OneFits ==
  ASSUME CapInv, NEW p \in Panes, NEW kept \in SUBSET Live, RoomBeside(kept) > 0,
         Live' = kept \cup {p}
  PROVE  Fits
  <1>1. Cardinality({p}) = 1
    BY FS_Singleton
  <1>2. kept \in SUBSET Panes
    BY DEF CapInv, TypeOK, WindowOK, Live
  <1>3. RoomBeside(kept) \in Int
    BY <1>2, FinitePanes, PanesAssumption DEF RoomBeside
  <1>4. Cardinality({p}) <= RoomBeside(kept)
    BY <1>1, <1>3
  <1>5. QED
    BY <1>4 DEF Fits

\* _build_workspaces: the file's panes alone.
LEMMA BuildFits ==
  ASSUME CapInv, Build
  PROVE  Fits
  <1>1. PICK now \in SUBSET Spaces \ {{}}, new \in Restored({}) : home' \in [new -> now]
    BY DEF Build
  <1>2. Live' = {} \cup new /\ {} \in SUBSET Live
    BY <1>1 DEF Live
  <1>3. QED
    BY <1>1, <1>2, RestoredFits

\* A reload leaves the file's panes, or none while it waits for trust.
LEMMA ReloadFits ==
  ASSUME CapInv, NEW from, Reload(from)
  PROVE  Fits
  <1>1. CASE Build
    BY <1>1, BuildFits
  <1>2. CASE home' = <<>>
    BY <1>2, FewerFit DEF Live
  <1>3. QED
    BY <1>1, <1>2 DEF Reload

\* A profile opened beside the others.
LEMMA InNewWorkspaceFits ==
  ASSUME CapInv, InNewWorkspace
  PROVE  Fits
  <1>1. PICK w \in Spaces \ open, new \in Restored(Live) : home' = Add(Live, new, w)
    BY DEF InNewWorkspace
  <1>2. Live' = Live \cup new /\ Live \in SUBSET Live
    BY <1>1 DEF Add, Live
  <1>3. QED
    BY <1>1, <1>2, RestoredFits

\* Whatever an action destroys and restores fits.
LEMMA PerformFits ==
  ASSUME CapInv, NEW wk \in Walks, NEW d, NEW from, Perform(wk, d, from), wk.act # "none"
  PROVE  Fits
  <1> DEFINE gone == Destroyed(wk)
             kept == Live \ gone
  <1>1. CASE wk.act \in {"kill", "reset", "close"}
    <2>1. home' = Keep(kept)
      BY <1>1 DEF Perform
    <2>2. QED
      BY <2>1, FewerFit DEF Keep, Live
  <1>2. CASE wk.act = "swap"
    <2>0. Swapped(gone)
      BY <1>2 DEF Perform
    <2>1. CASE UNCHANGED home
      BY <2>1, FewerFit DEF Live
    <2>2. CASE gone # {}
      <3>1. PICK p \in gone, q \in Panes \ (Live \ gone) :
              home' = Add(Live \ gone, {q}, home[p])
        BY <2>0, <2>2 DEF Swapped
      <3>2. p \in Live
        BY <1>2 DEF Destroyed
      <3>3. Live \ gone \in SUBSET Live /\ Live' = (Live \ gone) \cup {q}
        BY <3>1 DEF Add, Live
      <3>4. RoomBeside(Live \ gone) > 0
        <4>1. Live \in SUBSET Panes /\ Live \ {p} \in SUBSET Panes /\ Live \ gone \in SUBSET Panes
          BY DEF CapInv, TypeOK, WindowOK, Live
        <4>2. /\ IsFiniteSet(Live) /\ Cardinality(Live) \in Nat
              /\ IsFiniteSet(Live \ {p}) /\ Cardinality(Live \ {p}) \in Nat
              /\ Cardinality(Live \ gone) \in Nat
          BY <4>1, FinitePanes
        <4>3. Cardinality(Live \ {p}) = Cardinality(Live) - 1
          BY <3>2, <4>2, FS_RemoveElement
        <4>4. Live \ gone \subseteq Live \ {p}
          BY <3>1
        <4>5. Cardinality(Live \ gone) <= Cardinality(Live \ {p})
          BY <4>2, <4>4, FS_Subset
        <4>6. Cardinality(Live) <= MaxLive
          BY DEF CapInv, LivePanesCapped
        <4>7. QED
          BY <4>2, <4>3, <4>5, <4>6, PanesAssumption DEF RoomBeside
      <3>5. QED
        BY <3>1, <3>3, <3>4, OneFits
    <2>3. QED
      BY <2>0, <2>1, <2>2 DEF Swapped
  <1>3. CASE wk.act = "activate"
    <2>1. PICK new \in Restored(kept) : home' = Add(kept, new, active)
      BY <1>3 DEF Perform
    <2>2. Live' = kept \cup new /\ kept \in SUBSET Live
      BY <2>1 DEF Add, Live
    <2>3. QED
      BY <2>1, <2>2, RestoredFits
  <1>4. CASE wk.act = "load"
    BY <1>4, ReloadFits DEF Perform
  <1>5. CASE wk.act = "quit"
    <2>1. Live' = {}
      BY <1>5 DEF Perform, Quits, Live
    <2>2. QED
      BY <2>1, FewerFit
  <1>6. QED
    BY <1>1, <1>2, <1>3, <1>4, <1>5 DEF Walks, Acts

\* A walk changes the panes only when it performs its action.
LEMMA WalksFit ==
  ASSUME CapInv, NEW wk \in Walks, wk.act # "none", NEW from,
         \/ AskClose(wk, from)
         \/ \E d : Continue(wk, d, from)
  PROVE  Fits
  <1>1. ASSUME NEW w \in Walks, w.act # "none", NEW d, Continue(w, d, from)
        PROVE  Fits
    <2>1. CASE Perform(w, d, from)
      BY <1>1, <2>1, PerformFits
    <2>2. CASE UNCHANGED home
      BY <2>2, FewerFit DEF Live
    <2>3. QED
      BY <1>1, <2>1, <2>2 DEF Continue, Decline, windowVars
  <1>2. CASE AskClose(wk, from)
    <2> DEFINE asks == [wk EXCEPT !.left = Asked(wk), !.named = Asked(wk) \cap busy]
    <2>1. CASE Continue(asks, dirty, from)
      <3>1. wk.target \subseteq Panes
        BY DEF Walks
      <3>2. Asked(wk) \subseteq Panes
        BY <3>1 DEF Asked, In, CapInv, TypeOK, WindowOK, Live
      <3>3. asks \in Walks /\ asks.act = wk.act
        BY <3>2 DEF Walks
      <3> HIDE DEF asks
      <3>4. QED
        BY <1>1, <2>1, <3>3
    <2>2. CASE UNCHANGED home
      BY <2>2, FewerFit DEF Live
    <2>3. QED
      BY <1>2, <2>1, <2>2 DEF AskClose, windowVars
  <1>3. QED
    BY <1>1, <1>2

\* A new walk from the screen.
LEMMA NewWalksFit ==
  ASSUME CapInv, NEW act \in Acts, NEW target \in SUBSET Panes, NEW space \in SUBSET Spaces,
         NEW from, AskClose(Walk(act, target, space), from)
  PROVE  Fits
  <1>1. Walk(act, target, space) \in Walks /\ Walk(act, target, space).act # "none"
    BY NewWalkTypes DEF Acts
  <1>2. QED
    BY <1>1, WalksFit

\* Every step of the program fits.
LEMMA StepsFit ==
  ASSUME CapInv, [Next]_vars
  PROVE  Fits
  <1>1. CASE UNCHANGED home
    BY <1>1, FewerFit DEF Live
  <1>2. ASSUME NEW p \in Panes, Close(p) \/ Swap(p)
        PROVE  Fits
    BY <1>2, NewWalksFit DEF Close, Swap, Acts
  <1>3. ASSUME NEW w \in Spaces, CloseWorkspace(w)
        PROVE  Fits
    BY <1>3, NewWalksFit DEF CloseWorkspace, Acts
  <1>4. CASE Reset \/ Load \/ RequestQuit
    BY <1>4, NewWalksFit DEF Reset, Load, RequestQuit, Acts
  <1>5. CASE Activate \/ OpenProfile \/ AnswerProfile
    <2>1. CASE AskClose(Walk("activate", {}, {}), "free")
      BY <2>1, NewWalksFit DEF Acts
    <2>2. CASE InNewWorkspace
      BY <2>2, InNewWorkspaceFits
    <2>3. QED
      BY <1>1, <1>5, <2>1, <2>2 DEF Activate, OpenProfile, AnswerProfile, windowVars
  <1>6. CASE No \/ StopThem \/ Discard \/ Save \/ Overwrite
    <2>1. walk \in Walks /\ walk.act # "none"
      BY <1>6 DEF No, StopThem, Discard, Save, Overwrite, WalkQuestions, CapInv, TypeOK, ScreenOK
    <2>2. CASE UNCHANGED home
      BY <2>2, <1>1
    <2>3. CASE Continue(walk, dirty, "free")
      BY <2>1, <2>3, WalksFit
    <2>4. CASE Continue([walk EXCEPT !.discarded = @ \cup walk.asking, !.asking = {}], dirty, "leaving")
      <3> DEFINE wk == [walk EXCEPT !.discarded = @ \cup walk.asking, !.asking = {}]
      <3>1. wk \in Walks /\ wk.act # "none"
        BY <2>1 DEF Walks
      <3>2. Continue(wk, dirty, "leaving")
        BY <2>4
      <3> HIDE DEF wk
      <3>3. QED
        BY <3>1, <3>2, WalksFit
    <2>5. CASE Continue([walk EXCEPT !.asking = {}], dirty \ walk.asking, "free")
      <3> DEFINE wk == [walk EXCEPT !.asking = {}]
      <3>1. wk \in Walks /\ wk.act # "none"
        BY <2>1 DEF Walks
      <3>2. Continue(wk, dirty \ walk.asking, "free")
        BY <2>5
      <3> HIDE DEF wk
      <3>3. QED
        BY <3>1, <3>2, WalksFit
    <2>6. QED
      BY <1>6, <2>2, <2>3, <2>4, <2>5
         DEF No, StopThem, Discard, Save, Overwrite, Decline, windowVars
  <1>7. CASE AnswerTrust
    BY <1>7, BuildFits DEF AnswerTrust
  <1>8. ASSUME NEW p \in Panes, KillPane(p)
        PROVE  Fits
    <2> DEFINE wk == [Walk("kill", {p}, {}) EXCEPT !.named = {p}]
    <2>1. wk \in Walks /\ wk.act # "none"
      BY DEF Walk, Walks, Acts
    <2>2. Perform(wk, dirty, ScreenNow)
      BY <1>8 DEF KillPane
    <2> HIDE DEF wk
    <2>3. QED
      BY <2>1, <2>2, PerformFits
  <1>9. CASE LayoutLoad
    <2> DEFINE wk == [Walk("activate", {}, {}) EXCEPT !.left = In(active), !.named = Panes]
    <2>1. In(active) \subseteq Panes
      BY DEF In, CapInv, TypeOK, WindowOK, Live
    <2>2. wk \in Walks /\ wk.act # "none"
      BY <2>1 DEF Walk, Walks, Acts
    <2>3. Continue(wk, dirty, ScreenNow)
      BY <1>9 DEF LayoutLoad
    <2> HIDE DEF wk
    <2>4. QED
      BY <2>2, <2>3, WalksFit
  <1>10. ASSUME NEW p \in Panes, NewPane(p)
         PROVE  Fits
    <2>1. Live' = Live \cup {p} /\ RoomBeside(Live) > 0
      BY <1>10 DEF NewPane, Add, Live
    <2>2. QED
      BY <2>1, OneFits
  <1>11. CASE Crash
    <2>1. Live' = {}
      BY <1>11 DEF Crash, Quits, Live
    <2>2. QED
      BY <2>1, FewerFit
  <1>12. CASE Start
    BY <1>12, ReloadFits DEF Start
  <1>13. ASSUME NEW p \in Panes, Edit(p) \/ SaveNote(p) \/ TypeCommand(p) \/ Inject(p) \/ CommandEnds(p)
         PROVE  Fits
    BY <1>13, <1>1 DEF Edit, SaveNote, TypeCommand, Inject, CommandEnds, windowVars
  <1>14. ASSUME NEW w \in Spaces, AddWorkspace(w) \/ Switch(w)
         PROVE  Fits
    BY <1>14, <1>1 DEF AddWorkspace, Switch
  <1>15. CASE OtherDialog \/ OtherCloses \/ EndFrame
    BY <1>15, <1>1 DEF OtherDialog, OtherCloses, EndFrame, windowVars
  <1>16. CASE UNCHANGED vars
    BY <1>16, <1>1 DEF vars
  <1>17. QED
    BY <1>2, <1>3, <1>4, <1>5, <1>6, <1>7, <1>8, <1>9, <1>10, <1>11, <1>12, <1>13, <1>14, <1>15,
       <1>16 DEF Next

\* For any limit, the panes of all workspaces together stay within it
\* (_live_pane_room, _pane_ceiling_refusal).
THEOREM PanesCapped == Spec => []LivePanesCapped
  <1>1. Init => LivePanesCapped
    <2>1. SUFFICES ASSUME Init PROVE LivePanesCapped
      OBVIOUS
    <2>2. Live = {}
      BY <2>1 DEF Init, Live
    <2>3. QED
      BY <2>2, FS_EmptySet, PanesAssumption DEF LivePanesCapped
  <1>2. TypeOK /\ LivePanesCapped /\ [Next]_vars => LivePanesCapped'
    BY StepsFit, FitsCaps DEF CapInv
  <1>3. QED
    BY <1>1, <1>2, TypeCorrect, PTL DEF Spec

---------------------------------------------------------------------------
(* The grid behind a pane, and the cells the window draws of it.            *)

GridTyped ==
  /\ height \in Heights /\ lines \in Seq(Nat) /\ Len(lines) >= height /\ Len(lines) <= height + MaxHistory
  /\ cursor \in 0..height - 1 /\ offset \in 0..HistorySize
  /\ damage \in SUBSET Int /\ printed \in Nat
ScreenTyped ==
  /\ GridTyped
  /\ paneHeight \in Heights /\ ptyHeight \in Heights /\ resizes \in Seq(Heights)

\* The cells are the grid's at the offset they were fetched at, but for the
\* rows the damage names.
CellsArePatched ==
  /\ lastFull \in 0..HistorySize /\ DOMAIN cells = 1..height
  /\ \A i \in 1..height :
       i - 1 - lastFull \in damage \/ cells[i] = <<lines[HistorySize - lastFull + i], colours>>
AllIsFetchedNext == cells = <<>> \/ recoloured \/ AllRows \in damage

ScreenInv == ScreenTyped /\ (AllIsFetchedNext \/ CellsArePatched) /\ DrawnIsCurrent

\* The smaller and the larger of two numbers.
LEMMA LowerHigher ==
  ASSUME NEW a \in Int, NEW b \in Int
  PROVE  /\ Lower(a, b) <= a /\ Lower(a, b) <= b /\ Lower(a, b) \in {a, b}
         /\ Higher(a, b) >= a /\ Higher(a, b) >= b /\ Higher(a, b) \in {a, b}
  BY DEF Lower, Higher

\* Blank rows are as many as asked for.
LEMMA BlankRows ==
  ASSUME NEW n \in Nat
  PROVE  /\ Blanks(n) \in Seq(Nat) /\ Len(Blanks(n)) = n
         /\ \A i \in 1..n : Blanks(n)[i] = Blank
  BY DEF Blanks, Blank

\* A grid cut to its history keeps its newest rows.
LEMMA CappedRows ==
  ASSUME NEW ls \in Seq(Nat), NEW h \in Nat, h <= Len(ls)
  PROVE  /\ Capped(ls, h) \in Seq(Nat)
         /\ Len(Capped(ls, h)) = Lower(Len(ls), h + MaxHistory)
<1>1. MaxHistory \in Nat /\ Len(ls) \in Nat BY ScreenAssumption
<1> DEFINE m == Higher(1, Len(ls) - h - MaxHistory + 1)
<1>2. m \in 1..Len(ls) + 1 /\ Len(ls) - m + 1 = Lower(Len(ls), h + MaxHistory)
  <2>1. Len(ls) - h - MaxHistory + 1 \in Int /\ h + MaxHistory \in Int BY <1>1
  <2>2. /\ m >= 1 /\ m >= Len(ls) - h - MaxHistory + 1 /\ m \in {1, Len(ls) - h - MaxHistory + 1}
        /\ Lower(Len(ls), h + MaxHistory) <= Len(ls) /\ Lower(Len(ls), h + MaxHistory) <= h + MaxHistory
        /\ Lower(Len(ls), h + MaxHistory) \in {Len(ls), h + MaxHistory}
    BY <1>1, <2>1, LowerHigher
  <2> HIDE DEF m
  <2> QED BY <1>1, <2>1, <2>2
<1> HIDE DEF m
<1>3. SubSeq(ls, m, Len(ls)) \in Seq(Nat) /\ Len(SubSeq(ls, m, Len(ls))) = Len(ls) - m + 1
  BY <1>1, <1>2
<1> QED BY <1>2, <1>3 DEF Capped, m

\* The numbers of a typed grid.
LEMMA GridNumbers ==
  ASSUME GridTyped
  PROVE  /\ height \in Nat \ {0} /\ MaxHistory \in Nat /\ Len(lines) \in Nat
         /\ HistorySize \in 0..MaxHistory /\ HistorySize = Len(lines) - height
         /\ cursor \in Nat /\ cursor < height /\ offset \in Nat /\ offset <= HistorySize
<1>1. height \in Nat \ {0} /\ MaxHistory \in Nat /\ Len(lines) \in Nat
  BY ScreenAssumption DEF GridTyped
<1> QED BY <1>1 DEF GridTyped, HistorySize

\* So it is with its window.
LEMMA ScreenNumbers ==
  ASSUME ScreenTyped
  PROVE  /\ height \in Nat \ {0} /\ MaxHistory \in Nat /\ Len(lines) \in Nat
         /\ HistorySize \in 0..MaxHistory /\ HistorySize = Len(lines) - height
         /\ cursor \in Nat /\ cursor < height /\ offset \in Nat /\ offset <= HistorySize
  BY GridNumbers DEF ScreenTyped

\* What a cap on rows and history leaves of the history.
LEMMA LowerCuts ==
  ASSUME NEW total \in Nat, NEW h \in Nat, h <= total, NEW most \in Nat
  PROVE  /\ Lower(total, h + most) >= h /\ Lower(total, h + most) <= h + most
         /\ Lower(total, h + most) - h = Lower(total - h, most)
  BY DEF Lower

\* A view scrolled back stays within the history that grew.
LEMMA OffsetStays ==
  ASSUME ScreenTyped, NEW n \in Nat
  PROVE  OffsetAfter(n) \in 0..Lower(HistorySize + n, MaxHistory)
  BY ScreenNumbers DEF OffsetAfter, Lower

\* A line printed keeps the grid typed.
LEMMA PrintTyped ==
  ASSUME ScreenTyped, PrintLine
  PROVE  ScreenTyped'
<1> DEFINE written == [lines EXCEPT ![HistorySize + cursor + 1] = printed + 1]
<1>1. PICK w : w = written OBVIOUS
<1>2. w \in Seq(Nat) /\ Len(w) = Len(lines)
  BY SMTT(30), <1>1, ScreenNumbers DEF ScreenTyped, GridTyped
<1>3. UNCHANGED <<height, paneHeight, ptyHeight, resizes>> /\ printed' \in Nat
  BY DEF PrintLine, Fed, ScreenTyped, GridTyped
<1>4. CASE cursor < height - 1
  <2>1. lines' = w /\ cursor' = cursor + 1 /\ damage' = damage \cup {cursor, cursor + 1} /\ offset' = offset
    BY <1>1, <1>4 DEF PrintLine
  <2>2. HistorySize' = HistorySize BY <1>2, <1>3, <2>1 DEF HistorySize
  <2> QED BY <1>2, <1>3, <1>4, <2>1, <2>2, ScreenNumbers DEF ScreenTyped, GridTyped
<1>5. CASE ~(cursor < height - 1)
  <2>1. lines' = Capped(Append(w, Blank), height) /\ cursor' = cursor /\ damage' = {AllRows}
        /\ offset' = OffsetAfter(1)
    BY <1>1, <1>5 DEF PrintLine
  <2>2. PICK ls : ls = Append(w, Blank) /\ lines' = Capped(ls, height) BY Zenon, <2>1
  <2>3. ls \in Seq(Nat) /\ Len(ls) = Len(lines) + 1 BY <1>2, <2>2 DEF Blank
  <2>4. lines' \in Seq(Nat) /\ Len(lines') = Lower(Len(lines) + 1, height + MaxHistory)
    <3>1. height \in Nat /\ height <= Len(ls) BY <2>3, ScreenNumbers
    <3>2. Capped(ls, height) \in Seq(Nat) /\ Len(Capped(ls, height)) = Lower(Len(ls), height + MaxHistory)
      BY <2>3, <3>1, CappedRows
    <3> QED BY Zenon, <2>2, <2>3, <3>2
  <2>5. Len(lines') >= height /\ Len(lines') <= height + MaxHistory
        /\ Len(lines') - height = Lower(HistorySize + 1, MaxHistory)
    <3>1. Len(lines) + 1 \in Nat /\ height \in Nat /\ height <= Len(lines) + 1 /\ MaxHistory \in Nat
          /\ Len(lines) + 1 - height = HistorySize + 1
      BY ScreenNumbers
    <3>2. PICK total : total = Len(lines) + 1 OBVIOUS
    <3>3. /\ Lower(total, height + MaxHistory) >= height
          /\ Lower(total, height + MaxHistory) <= height + MaxHistory
          /\ Lower(total, height + MaxHistory) - height = Lower(total - height, MaxHistory)
      BY <3>1, <3>2, LowerCuts
    <3> QED BY <2>4, <3>1, <3>2, <3>3
  <2>6. HistorySize' = Lower(HistorySize + 1, MaxHistory) BY <1>3, <2>5 DEF HistorySize
  <2>7. offset' \in 0..HistorySize' BY <2>1, <2>6, OffsetStays
  <2> QED BY <1>3, <2>1, <2>4, <2>5, <2>7 DEF ScreenTyped, GridTyped, AllRows
<1> QED BY <1>4, <1>5

\* So does a screen cleared, whose used rows have a last one.
LEMMA ClearTyped ==
  ASSUME ScreenTyped, ClearScreen
  PROVE  ScreenTyped'
<1> DEFINE used == {r \in 1..height : Screen[r] # Blank}
           n == IF used = {} THEN 0 ELSE CHOOSE r \in used : \A s \in used : s <= r
<1>1. n \in 0..height
  <2>1. CASE used = {} BY <2>1, ScreenNumbers
  <2>2. CASE used # {}
    <3>1. used \in SUBSET (0..height) BY ScreenNumbers
    <3>2. height \in Nat BY ScreenNumbers
    <3>3. Max(used) \in used /\ \A s \in used : Max(used) >= s BY <2>2, <3>1, <3>2, MaxOfNats
    <3>4. \A s \in used : s <= Max(used) BY <3>1, <3>2, <3>3
    <3> HIDE DEF used
    <3>5. n \in used BY <2>2, <3>3, <3>4
    <3> QED BY <3>1, <3>5
  <2> QED BY <2>1, <2>2
<1>2. PICK m \in 0..height : m = n BY <1>1
<1>3. /\ lines' = Capped(SubSeq(lines, 1, HistorySize + m) \o Blanks(height), height)
      /\ cursor' = 0 /\ damage' = {AllRows} /\ offset' = OffsetAfter(m)
      /\ UNCHANGED <<height, printed, paneHeight, ptyHeight, resizes>>
  BY <1>2 DEF ClearScreen, Fed
<1> HIDE DEF used, n
<1>4. PICK ls : ls = SubSeq(lines, 1, HistorySize + m) \o Blanks(height) /\ lines' = Capped(ls, height)
  BY Zenon, <1>3
<1>5. ls \in Seq(Nat) /\ Len(ls) = HistorySize + m + height
  <2>1. SubSeq(lines, 1, HistorySize + m) \in Seq(Nat) /\ Len(SubSeq(lines, 1, HistorySize + m)) = HistorySize + m
    <3>1. HistorySize + m \in 0..Len(lines) BY <1>2, ScreenNumbers
    <3>2. PICK k : k = HistorySize + m OBVIOUS
    <3>3. SubSeq(lines, 1, k) \in Seq(Nat) /\ Len(SubSeq(lines, 1, k)) = k
      BY <3>1, <3>2 DEF ScreenTyped, GridTyped
    <3> QED BY Zenon, <3>2, <3>3
  <2>2. Blanks(height) \in Seq(Nat) /\ Len(Blanks(height)) = height BY BlankRows, ScreenNumbers
  <2> QED BY <1>4, <2>1, <2>2
<1>6. lines' \in Seq(Nat) /\ Len(lines') = Lower(HistorySize + m + height, height + MaxHistory)
  <2>1. height \in Nat /\ height <= Len(ls) BY <1>2, <1>5, ScreenNumbers
  <2>2. Capped(ls, height) \in Seq(Nat) /\ Len(Capped(ls, height)) = Lower(Len(ls), height + MaxHistory)
    BY <1>5, <2>1, CappedRows
  <2> QED BY Zenon, <1>4, <1>5, <2>2
<1>7. Len(lines') >= height /\ Len(lines') <= height + MaxHistory
      /\ Len(lines') - height = Lower(HistorySize + m, MaxHistory)
  <2>1. HistorySize + m + height \in Nat /\ height \in Nat /\ height <= HistorySize + m + height
        /\ MaxHistory \in Nat /\ HistorySize + m + height - height = HistorySize + m
    BY <1>2, ScreenNumbers
  <2>2. PICK total : total = HistorySize + m + height OBVIOUS
  <2>3. /\ Lower(total, height + MaxHistory) >= height
        /\ Lower(total, height + MaxHistory) <= height + MaxHistory
        /\ Lower(total, height + MaxHistory) - height = Lower(total - height, MaxHistory)
    BY <2>1, <2>2, LowerCuts
  <2>4. Len(lines') = Lower(total, height + MaxHistory) BY Zenon, <1>6, <2>2
  <2>5. total - height = HistorySize + m BY <1>2, <2>2, ScreenNumbers
  <2> QED BY <2>3, <2>4, <2>5
<1>8. HistorySize' = Lower(HistorySize + m, MaxHistory) BY <1>3, <1>7 DEF HistorySize
<1>9. offset' \in 0..HistorySize' BY <1>2, <1>3, <1>8, OffsetStays
<1>10. cursor' \in 0..height' - 1 BY <1>3, ScreenNumbers
<1> QED BY <1>3, <1>6, <1>7, <1>9, <1>10 DEF ScreenTyped, GridTyped, AllRows

\* Rows cut out of a grid.
LEMMA RowsCut ==
  ASSUME NEW ls \in Seq(Nat), NEW m \in Nat, NEW n \in Nat, m <= n, n <= Len(ls)
  PROVE  /\ SubSeq(ls, m + 1, n) \in Seq(Nat) /\ Len(SubSeq(ls, m + 1, n)) = n - m
         /\ \A j \in 1..n - m : SubSeq(ls, m + 1, n)[j] = ls[m + j]
<1>1. \A j \in m + 1..n : ls[j] \in Nat OBVIOUS
<1>2. /\ SubSeq(ls, m + 1, n) \in Seq(Nat)
      /\ Len(SubSeq(ls, m + 1, n)) = IF m + 1 <= n THEN n - (m + 1) + 1 ELSE 0
      /\ \A j \in 1..n - (m + 1) + 1 : SubSeq(ls, m + 1, n)[j] = ls[m + 1 + j - 1]
  BY <1>1, SubSeqProperties
<1> DEFINE cut == SubSeq(ls, m + 1, n)
<1> HIDE DEF cut
<1>3. cut \in Seq(Nat) /\ Len(cut) = n - m BY <1>2 DEF cut
<1>4. ASSUME NEW j \in 1..n - m PROVE cut[j] = ls[m + j]
  <2>1. j \in 1..n - (m + 1) + 1 /\ m + 1 + j - 1 = m + j OBVIOUS
  <2>2. cut[j] = ls[m + 1 + j - 1] BY Zenon, <1>2, <2>1 DEF cut
  <2> QED BY <2>1, <2>2
<1> QED BY <1>3, <1>4 DEF cut

\* Rows put below others.
LEMMA RowsJoined ==
  ASSUME NEW a \in Seq(Nat), NEW b \in Seq(Nat)
  PROVE  /\ a \o b \in Seq(Nat) /\ Len(a \o b) = Len(a) + Len(b)
         /\ \A j \in 1..Len(a) : (a \o b)[j] = a[j]
         /\ \A j \in 1..Len(b) : (a \o b)[Len(a) + j] = b[j]
<1> DEFINE c == a \o b
<1>1. /\ c \in Seq(Nat) /\ Len(c) = Len(a) + Len(b)
      /\ \A i \in 1..Len(a) + Len(b) : c[i] = IF i <= Len(a) THEN a[i] ELSE b[i - Len(a)]
  BY ConcatProperties
<1> HIDE DEF c
<1>2. Len(a) \in Nat /\ Len(b) \in Nat OBVIOUS
<1>3. \A j \in 1..Len(a) : c[j] = a[j] BY <1>1, <1>2
<1>4. ASSUME NEW j \in 1..Len(b) PROVE c[Len(a) + j] = b[j]
  <2>1. Len(a) + j \in 1..Len(a) + Len(b) /\ ~(Len(a) + j <= Len(a)) /\ Len(a) + j - Len(a) = j
    BY <1>2
  <2>2. c[Len(a) + j] = b[Len(a) + j - Len(a)] BY <1>1, <2>1
  <2> QED BY <2>1, <2>2
<1> QED BY <1>1, <1>3, <1>4 DEF c

(* A grid without k rows of its middle, and others below it.               *)
WithoutRows(ls, kept, k, b) == SubSeq(ls, 1, kept) \o SubSeq(ls, kept + k + 1, Len(ls)) \o b

\* Its rows below those deleted moved up.
LEMMA RowsDeleted ==
  ASSUME NEW ls \in Seq(Nat), NEW b \in Seq(Nat), NEW kept \in Nat, NEW k \in Nat, kept + k <= Len(ls)
  PROVE  /\ WithoutRows(ls, kept, k, b) \in Seq(Nat)
         /\ Len(WithoutRows(ls, kept, k, b)) = Len(ls) - k + Len(b)
         /\ \A j \in 1..Len(ls) - kept - k : WithoutRows(ls, kept, k, b)[kept + j] = ls[kept + k + j]
<1> DEFINE top == SubSeq(ls, 1, kept)
           low == SubSeq(ls, kept + k + 1, Len(ls))
           first == top \o low
           new == first \o b
<1>0. Len(ls) \in Nat /\ Len(b) \in Nat /\ kept + k \in Nat /\ kept <= Len(ls) OBVIOUS
<1>1. top \in Seq(Nat) /\ Len(top) = kept
  <2>1. SubSeq(ls, 0 + 1, kept) \in Seq(Nat) /\ Len(SubSeq(ls, 0 + 1, kept)) = kept - 0 BY <1>0, RowsCut
  <2> QED BY <2>1
<1>2. /\ low \in Seq(Nat) /\ Len(low) = Len(ls) - (kept + k)
      /\ \A j \in 1..Len(ls) - (kept + k) : low[j] = ls[kept + k + j]
  BY <1>0, RowsCut
<1> HIDE DEF top, low
<1>3. /\ first \in Seq(Nat) /\ Len(first) = Len(top) + Len(low)
      /\ \A j \in 1..Len(low) : first[Len(top) + j] = low[j]
  BY <1>1, <1>2, RowsJoined
<1> HIDE DEF first
<1>4. /\ new \in Seq(Nat) /\ Len(new) = Len(first) + Len(b)
      /\ \A j \in 1..Len(first) : new[j] = first[j]
  BY <1>3, RowsJoined
<1> HIDE DEF new
<1>5. Len(first) = Len(ls) - k /\ Len(new) = Len(ls) - k + Len(b) BY <1>0, <1>1, <1>2, <1>3, <1>4
<1>6. ASSUME NEW j \in 1..Len(ls) - kept - k PROVE new[kept + j] = ls[kept + k + j]
  <2>1. j \in 1..Len(ls) - (kept + k) /\ kept + j \in 1..Len(first) /\ j \in 1..Len(low)
    BY <1>0, <1>2, <1>5
  <2>2. new[kept + j] = first[kept + j] BY <1>4, <2>1
  <2>3. first[kept + j] = low[j] BY <1>1, <1>3, <2>1
  <2>4. low[j] = ls[kept + k + j] BY <1>2, <2>1
  <2> QED BY <2>2, <2>3, <2>4
<1>7. WithoutRows(ls, kept, k, b) = new BY Zenon DEF WithoutRows, new, first, top, low
<1> QED BY <1>4, <1>5, <1>6, <1>7

(* The h rows of a screen below a history of old are, row by row, among the*)
(* rows of a taller one, k from its top.                                   *)
RowsStay(ls, new, old, kept, k, h, taller) ==
  /\ ls \in Seq(Nat) /\ new \in Seq(Nat) /\ {old, kept, k, h, taller} \subseteq Nat
  /\ Len(ls) = old + h /\ Len(new) = kept + taller /\ k + h <= taller
  /\ \A j \in 1..h : new[kept + k + j] = ls[old + j]
ScreenStays(ls, new, old, kept, k, h) ==
  SubSeq(SubSeq(new, kept + 1, Len(new)), k + 1, k + h) = SubSeq(ls, old + 1, Len(ls))

\* Then the screen is found again within the taller one.
LEMMA ScreenFound ==
  ASSUME NEW ls, NEW new, NEW old, NEW kept, NEW k, NEW h, NEW more,
         RowsStay(ls, new, old, kept, k, h, more)
  PROVE  ScreenStays(ls, new, old, kept, k, h)
<1> DEFINE s == SubSeq(new, kept + 1, Len(new))
           t == SubSeq(s, k + 1, k + h)
           u == SubSeq(ls, old + 1, Len(ls))
<1>0. /\ ls \in Seq(Nat) /\ new \in Seq(Nat) /\ old \in Nat /\ kept \in Nat /\ k \in Nat
      /\ h \in Nat /\ more \in Nat
      /\ Len(ls) = old + h /\ Len(new) = kept + more /\ k + h <= more
      /\ \A j \in 1..h : new[kept + k + j] = ls[old + j]
  BY DEF RowsStay
<1>1. s \in Seq(Nat) /\ Len(s) = more /\ \A j \in 1..more : s[j] = new[kept + j]
  <2>1. Len(new) - kept = more BY <1>0
  <2>2. s \in Seq(Nat) /\ Len(s) = Len(new) - kept /\ \A j \in 1..Len(new) - kept : s[j] = new[kept + j]
    BY <1>0, RowsCut
  <2> HIDE DEF s
  <2> QED BY <2>1, <2>2
<1>2. u \in Seq(Nat) /\ Len(u) = h /\ \A j \in 1..h : u[j] = ls[old + j]
  <2>1. Len(ls) - old = h BY <1>0
  <2>2. u \in Seq(Nat) /\ Len(u) = Len(ls) - old /\ \A j \in 1..Len(ls) - old : u[j] = ls[old + j]
    BY SMTT(30), <1>0, RowsCut
  <2> HIDE DEF u
  <2> QED BY <2>1, <2>2
<1> HIDE DEF s, u
<1>3. t \in Seq(Nat) /\ Len(t) = h /\ \A j \in 1..h : t[j] = s[k + j]
  <2>1. PICK n : n = k + h OBVIOUS
  <2>2. n \in Nat /\ k <= n /\ n <= Len(s) /\ n - k = h BY <1>0, <1>1, <2>1
  <2>3. /\ SubSeq(s, k + 1, n) \in Seq(Nat) /\ Len(SubSeq(s, k + 1, n)) = n - k
        /\ \A j \in 1..n - k : SubSeq(s, k + 1, n)[j] = s[k + j]
    <3>1. k \in Nat /\ s \in Seq(Nat) BY <1>0, <1>1
    <3> QED BY <2>2, <3>1, RowsCut
  <2>4. t = SubSeq(s, k + 1, n) BY Zenon, <2>1
  <2> HIDE DEF t
  <2> QED BY <2>2, <2>3, <2>4
<1> HIDE DEF t
<1>4. ASSUME NEW j \in 1..h PROVE t[j] = u[j]
  <2>0. k \in Nat /\ h \in Nat /\ more \in Nat /\ kept \in Nat /\ k + h <= more BY <1>0
  <2>1. k + j \in 1..more /\ kept + (k + j) = kept + k + j BY <2>0
  <2>2. t[j] = s[k + j] /\ u[j] = ls[old + j] BY <1>2, <1>3
  <2>3. s[k + j] = new[kept + (k + j)] BY <1>1, <2>1
  <2> QED BY <1>0, <2>1, <2>2, <2>3
<1>5. t = u BY <1>2, <1>3, <1>4
<1> QED BY Zenon, <1>5 DEF ScreenStays, s, t, u

\* A taller screen is filled from the history first.
LEMMA ReflowGrows ==
  ASSUME GridTyped, NEW h \in Heights, h > height
  PROVE  \E k \in 0..h - height :
           /\ k = Lower(HistorySize, h - height)
           /\ Reflowed(h).lines = lines \o Blanks(h - height - k)
           /\ Reflowed(h).lines \in Seq(Nat) /\ Len(Reflowed(h).lines) = Len(lines) + (h - height - k)
           /\ \A j \in 1..Len(lines) : Reflowed(h).lines[j] = lines[j]
           /\ Reflowed(h).cursor = cursor + k /\ Reflowed(h).offset = Higher(0, offset - (h - height))
<1>1. h \in Nat /\ height \in Nat /\ HistorySize \in Nat BY GridNumbers, ScreenAssumption
<1>2. PICK k : k = Lower(HistorySize, h - height) OBVIOUS
<1>3. k \in 0..h - height BY <1>1, <1>2, LowerHigher
<1>4. /\ Reflowed(h).lines = lines \o Blanks(h - height - k)
      /\ Reflowed(h).cursor = cursor + k /\ Reflowed(h).offset = Higher(0, offset - (h - height))
  BY <1>2 DEF Reflowed
<1>5. PICK b : b = Blanks(h - height - k) OBVIOUS
<1>6. b \in Seq(Nat) /\ Len(b) = h - height - k
  <2>1. h - height - k \in Nat BY <1>1, <1>3
  <2> QED BY <1>5, <2>1, BlankRows
<1>7. PICK ls : ls = lines \o b OBVIOUS
<1>8. ls \in Seq(Nat) /\ Len(ls) = Len(lines) + (h - height - k) /\ \A j \in 1..Len(lines) : ls[j] = lines[j]
  BY <1>6, <1>7, RowsJoined DEF GridTyped
<1>9. Reflowed(h).lines = ls BY Zenon, <1>4, <1>5, <1>7
<1> QED BY <1>2, <1>3, <1>4, <1>8, <1>9

\* A shorter one gives the rows above the cursor to it.
LEMMA ReflowShrinks ==
  ASSUME GridTyped, NEW h \in Heights, h < height
  PROVE  /\ Reflowed(h).lines \in Seq(Nat)
         /\ Len(Reflowed(h).lines) >= h /\ Len(Reflowed(h).lines) <= h + MaxHistory
         /\ Reflowed(h).cursor \in 0..h - 1 /\ Reflowed(h).offset \in 0..Len(Reflowed(h).lines) - h
<1>1. h \in Nat \ {0} BY ScreenAssumption
<1>2. PICK over : over = Higher(0, cursor + 1 - h) OBVIOUS
<1>3. over \in 0..height - h
  <2>1. cursor + 1 - h \in Int /\ cursor + 1 - h <= height - h BY <1>1, GridNumbers
  <2> QED BY <1>1, <1>2, <2>1, GridNumbers, LowerHigher
<1>4. PICK n : n = HistorySize + over + h OBVIOUS
<1>5. n \in Nat /\ n <= Len(lines) /\ n >= h BY <1>1, <1>3, <1>4, GridNumbers
<1>6. PICK ls : ls = SubSeq(lines, 1, n) OBVIOUS
<1>7. ls \in Seq(Nat) /\ Len(ls) = n BY <1>5, <1>6 DEF GridTyped
<1>8. PICK kept : kept = Capped(ls, h) OBVIOUS
<1>9. kept \in Seq(Nat) /\ Len(kept) >= h /\ Len(kept) <= h + MaxHistory
  <2>1. Len(kept) = Lower(n, h + MaxHistory) /\ kept \in Seq(Nat) BY <1>1, <1>5, <1>7, <1>8, CappedRows
  <2> QED BY <1>1, <1>5, <2>1, LowerCuts, GridNumbers
<1>10. /\ Reflowed(h).lines = kept /\ Reflowed(h).cursor = Lower(cursor, h - 1)
       /\ Reflowed(h).offset = Lower(IF over = 0 THEN offset ELSE OffsetAfter(over), Len(kept) - h)
  <2>1. ~(h > height) BY <1>1, GridNumbers
  <2> QED BY <1>2, <1>4, <1>6, <1>8, <2>1 DEF Reflowed
<1>11. Reflowed(h).cursor \in 0..h - 1 BY <1>1, <1>10, GridNumbers, LowerHigher
<1>12. Reflowed(h).offset \in 0..Len(kept) - h
  <2>1. PICK o : o = (IF over = 0 THEN offset ELSE OffsetAfter(over)) OBVIOUS
  <2>2. o \in Nat
    <3>1. OffsetAfter(over) \in Nat BY <1>3, GridNumbers, <1>1 DEF OffsetAfter, Lower
    <3> QED BY <2>1, <3>1, GridNumbers
  <2>3. Len(kept) - h \in Nat BY <1>1, <1>9
  <2>4. Reflowed(h).offset = Lower(o, Len(kept) - h) BY <1>10, <2>1
  <2> QED BY <2>2, <2>3, <2>4, LowerHigher
<1> QED BY <1>9, <1>10, <1>11, <1>12

\* Growing without scrollback above: the screen moves down by the rows pulled.
LEMMA GrowsPlain ==
  ASSUME GridTyped, NEW h \in Heights, h > height, ResizeGrid(h), ~GrowsBack(h)
  PROVE  GridTyped' /\ \E k \in 0..h - height : SubSeq(Screen', k + 1, k + height) = Screen
<1>1. PICK k \in 0..h - height :
           /\ k = Lower(HistorySize, h - height)
           /\ Reflowed(h).lines \in Seq(Nat) /\ Len(Reflowed(h).lines) = Len(lines) + (h - height - k)
           /\ \A j \in 1..Len(lines) : Reflowed(h).lines[j] = lines[j]
           /\ Reflowed(h).cursor = cursor + k /\ Reflowed(h).offset = Higher(0, offset - (h - height))
  BY ReflowGrows
<1>2. /\ lines' = Reflowed(h).lines /\ cursor' = Reflowed(h).cursor /\ offset' = Reflowed(h).offset
      /\ height' = h /\ damage' = {AllRows} /\ printed' = printed
  BY DEF ResizeGrid
<1>3. /\ lines' \in Seq(Nat) /\ Len(lines') = Len(lines) + (h - height - k)
      /\ \A j \in 1..Len(lines) : lines'[j] = lines[j]
      /\ cursor' = cursor + k /\ offset' = Higher(0, offset - (h - height))
  BY <1>1, <1>2
<1>4. h \in Nat /\ k \in Nat /\ k <= HistorySize /\ k <= h - height /\ k \in {HistorySize, h - height}
      /\ h - height \in Int
  <2>1. h \in Nat /\ h - height \in Int /\ HistorySize \in Int BY ScreenAssumption, GridNumbers
  <2>2. k <= HistorySize /\ k <= h - height /\ k \in {HistorySize, h - height} BY <1>1, <2>1, LowerHigher
  <2> QED BY <2>1, <2>2
<1>9. PICK n : n = Len(lines') OBVIOUS
<1>10. /\ height \in Nat \ {0} /\ HistorySize \in Nat /\ MaxHistory \in Nat /\ HistorySize <= MaxHistory
       /\ Len(lines) = HistorySize + height /\ cursor \in Nat /\ cursor < height
  BY GridNumbers
<1>11. n = Len(lines) + (h - height - k) BY <1>3, <1>9
<1>5. n - h = HistorySize - k BY <1>4, <1>10, <1>11
<1>6. HistorySize' = HistorySize - k BY <1>2, <1>5, <1>9 DEF HistorySize
<1>7. GridTyped'
  <2>1. cursor' \in 0..h - 1
    <3>1. cursor + k \in 0..h - 1 BY <1>4, <1>10
    <3> QED BY <1>3, <3>1
  <2>2. offset' \in 0..HistorySize - k
    <3>1. offset - (h - height) \in Int /\ offset - (h - height) <= HistorySize - k /\ HistorySize - k \in Nat
      BY <1>4, GridNumbers
    <3>2. offset' >= 0 /\ offset' \in {0, offset - (h - height)} BY <1>3, <3>1, LowerHigher
    <3> QED BY <3>1, <3>2
  <2>3. n >= h /\ n <= h + MaxHistory BY <1>4, <1>10, <1>11
  <2> QED BY <1>2, <1>3, <1>6, <1>9, <2>1, <2>2, <2>3 DEF GridTyped, AllRows
<1>8. SubSeq(Screen', k + 1, k + height) = Screen
  <2>1. PICK new : new = lines' OBVIOUS
  <2>2. PICK kept : kept = HistorySize - k OBVIOUS
  <2>3. /\ kept \in Nat /\ HistorySize \in Nat /\ height \in Nat /\ lines \in Seq(Nat) /\ new \in Seq(Nat)
        /\ Len(lines) = HistorySize + height /\ Len(new) = kept + h /\ k + height <= h
    <3>1. lines \in Seq(Nat) /\ new \in Seq(Nat) /\ Len(new) = n BY <1>3, <1>9, <2>1 DEF GridTyped
    <3>2. kept \in Nat /\ n = kept + h /\ k + height <= h BY <1>4, <1>10, <1>11, <2>2
    <3> QED BY <1>10, <3>1, <3>2
  <2>4. \A j \in 1..height : new[kept + k + j] = lines[HistorySize + j]
    <3> SUFFICES ASSUME NEW j \in 1..height PROVE new[kept + k + j] = lines[HistorySize + j] OBVIOUS
    <3>1. kept + k + j = HistorySize + j /\ HistorySize + j \in 1..Len(lines) BY <1>4, <2>2, <2>3
    <3> QED BY <1>3, <2>1, <3>1
  <2>5. SubSeq(SubSeq(new, kept + 1, Len(new)), k + 1, k + height) = SubSeq(lines, HistorySize + 1, Len(lines))
    <3>1. h \in Nat /\ k \in Nat BY <1>4
    <3>2. RowsStay(lines, new, HistorySize, kept, k, height, h) BY <2>3, <2>4, <3>1 DEF RowsStay
    <3>3. ScreenStays(lines, new, HistorySize, kept, k, height) BY <3>2, ScreenFound
    <3> QED BY Zenon, <3>3 DEF ScreenStays
  <2>6. Screen' = SubSeq(new, kept + 1, Len(new)) BY Zenon, <1>6, <2>1, <2>2 DEF Screen
  <2> QED BY Zenon, <2>5, <2>6 DEF Screen
<1> QED BY <1>1, <1>7, <1>8

\* Growing under a scrollback: the rows pulled are deleted, the screen stays
\* at the top.
LEMMA GrowsAnchored ==
  ASSUME GridTyped, NEW h \in Heights, h > height, ResizeGrid(h), GrowsBack(h)
  PROVE  GridTyped' /\ \E k \in 0..h - height : SubSeq(Screen', k + 1, k + height) = Screen
<1>1. PICK k \in 0..h - height :
           /\ k = Lower(HistorySize, h - height)
           /\ Reflowed(h).lines \in Seq(Nat) /\ Len(Reflowed(h).lines) = Len(lines) + (h - height - k)
           /\ \A j \in 1..Len(lines) : Reflowed(h).lines[j] = lines[j]
  BY ReflowGrows
<1>2. PICK ls : ls = Reflowed(h).lines OBVIOUS
<1>3. PICK kept : kept = HistoryAfter(h) OBVIOUS
<1>4. h \in Nat /\ k \in Nat /\ k <= HistorySize /\ k <= h - height /\ k \in {HistorySize, h - height}
      /\ h - height \in Nat /\ kept > 0 /\ kept = Len(ls) - h
  <2>1. h \in Nat /\ h - height \in Nat /\ HistorySize \in Int BY ScreenAssumption, GridNumbers
  <2>2. k <= HistorySize /\ k <= h - height /\ k \in {HistorySize, h - height} BY <1>1, <2>1, LowerHigher
  <2>3. kept > 0 BY <1>3 DEF GrowsBack
  <2>4. kept = Len(ls) - h BY <1>2, <1>3 DEF HistoryAfter
  <2> QED BY <2>1, <2>2, <2>3, <2>4
<1>5. k = h - height /\ kept \in Nat /\ Len(ls) = Len(lines) /\ kept + k = HistorySize /\ kept + h = Len(ls)
  <2>1. Len(ls) = Len(lines) + (h - height - k) BY <1>1, <1>2
  <2>2. /\ height \in Nat \ {0} /\ HistorySize \in Nat /\ Len(lines) = HistorySize + height
    BY GridNumbers
  <2>3. PICK n : n = Len(ls) OBVIOUS
  <2>4. n = Len(lines) + (h - height - k) /\ kept = n - h BY <1>4, <2>1, <2>3
  <2>5. kept = HistorySize - k BY <1>4, <2>2, <2>4
  <2>6. k = h - height BY <1>4, <2>2, <2>5
  <2>7. kept \in Nat /\ n = Len(lines) /\ kept + k = HistorySize /\ kept + h = n
    BY <1>4, <2>2, <2>4, <2>5, <2>6
  <2> QED BY <2>3, <2>6, <2>7
<1>6. PICK b : b = Blanks(h - height) OBVIOUS
<1>7. b \in Seq(Nat) /\ Len(b) = k BY <1>4, <1>5, <1>6, BlankRows
<1>8. PICK new : new = WithoutRows(ls, kept, k, b) OBVIOUS
<1>9. /\ new \in Seq(Nat) /\ Len(new) = Len(ls) - k + Len(b)
      /\ \A j \in 1..Len(ls) - kept - k : new[kept + j] = ls[kept + k + j]
  <2>1. ls \in Seq(Nat) /\ kept + k <= Len(ls) BY <1>1, <1>2, <1>5, GridNumbers
  <2>2. k \in Nat /\ kept \in Nat BY <1>4, <1>5
  <2>3. /\ WithoutRows(ls, kept, k, b) \in Seq(Nat)
        /\ Len(WithoutRows(ls, kept, k, b)) = Len(ls) - k + Len(b)
        /\ \A j \in 1..Len(ls) - kept - k : WithoutRows(ls, kept, k, b)[kept + j] = ls[kept + k + j]
    <3>1. \A c \in Seq(Nat) :
            /\ WithoutRows(ls, kept, k, c) \in Seq(Nat)
            /\ Len(WithoutRows(ls, kept, k, c)) = Len(ls) - k + Len(c)
            /\ \A j \in 1..Len(ls) - kept - k : WithoutRows(ls, kept, k, c)[kept + j] = ls[kept + k + j]
      <4> TAKE c \in Seq(Nat)
      <4> QED BY ZenonT(30), <2>1, <2>2, RowsDeleted
    <3> QED BY Zenon, <1>7, <3>1
  <2> QED BY Zenon, <1>8, <2>3
<1>10. PICK down : down = (IF hidden THEN 0 ELSE IF cursor = 0 THEN 1 ELSE cursor) OBVIOUS
<1>11. /\ lines' = new /\ cursor' = Lower(down, h - 1) /\ offset' = 0
       /\ height' = h /\ damage' = {AllRows} /\ printed' = printed
  <2>1. kept + 1 + h - height = kept + k + 1 BY <1>4, <1>5, GridNumbers
  <2>2. /\ Anchored(h).lines = SubSeq(ls, 1, kept) \o SubSeq(ls, kept + 1 + h - height, Len(ls)) \o b
        /\ Anchored(h).cursor = Lower(down, h - 1) /\ Anchored(h).offset = 0
    BY <1>2, <1>3, <1>6, <1>10 DEF Anchored
  <2>3. Anchored(h).lines = new BY Zenon, <1>8, <2>1, <2>2 DEF WithoutRows
  <2>4. /\ lines' = Anchored(h).lines /\ cursor' = Anchored(h).cursor /\ offset' = Anchored(h).offset
        /\ height' = h /\ damage' = {AllRows} /\ printed' = printed
    BY DEF ResizeGrid
  <2> QED BY <2>2, <2>3, <2>4
<1>12. Len(lines') = kept + h /\ Len(new) = kept + h
  <2>1. Len(new) = Len(ls) - k + k BY <1>7, <1>9
  <2>2. Len(ls) - k + k = kept + h BY <1>4, <1>5
  <2> QED BY <1>11, <2>1, <2>2
<1>13. HistorySize' = kept
  <2>1. Len(lines') - h = kept BY <1>4, <1>5, <1>12
  <2> QED BY <1>11, <2>1 DEF HistorySize
<1>14. GridTyped'
  <2>1. cursor' \in 0..h - 1
    <3>1. down \in Nat /\ h - 1 \in Nat BY <1>4, <1>10, GridNumbers
    <3> QED BY <1>11, <3>1, LowerHigher
  <2>2. Len(lines') >= h /\ Len(lines') <= h + MaxHistory BY <1>4, <1>5, <1>12, GridNumbers
  <2>3. offset' \in 0..HistorySize' BY <1>5, <1>11, <1>13
  <2> QED BY <1>9, <1>11, <2>1, <2>2, <2>3 DEF GridTyped, AllRows
<1>15. SubSeq(Screen', 0 + 1, 0 + height) = Screen
  <2>1. /\ HistorySize \in Nat /\ height \in Nat /\ lines \in Seq(Nat)
        /\ Len(lines) = HistorySize + height /\ 0 + height <= h /\ 0 \in Nat
    BY <1>4, GridNumbers DEF GridTyped
  <2>2. \A j \in 1..height : new[kept + 0 + j] = lines[HistorySize + j]
    <3> SUFFICES ASSUME NEW j \in 1..height PROVE new[kept + 0 + j] = lines[HistorySize + j] OBVIOUS
    <3>1. /\ j \in 1..Len(ls) - kept - k /\ kept + 0 + j = kept + j /\ kept + k + j = HistorySize + j
          /\ HistorySize + j \in 1..Len(lines)
      BY <1>4, <1>5, <2>1, GridNumbers
    <3>2. new[kept + j] = ls[kept + k + j] BY <1>9, <3>1
    <3>3. ls[HistorySize + j] = lines[HistorySize + j] BY <1>1, <1>2, <3>1
    <3> QED BY <3>1, <3>2, <3>3
  <2>3. SubSeq(SubSeq(new, kept + 1, Len(new)), 0 + 1, 0 + height) = SubSeq(lines, HistorySize + 1, Len(lines))
    <3>1. h \in Nat /\ kept \in Nat /\ new \in Seq(Nat) /\ Len(new) = kept + h BY <1>4, <1>5, <1>9, <1>12
    <3>2. RowsStay(lines, new, HistorySize, kept, 0, height, h) BY <2>1, <2>2, <3>1 DEF RowsStay
    <3>3. ScreenStays(lines, new, HistorySize, kept, 0, height) BY <3>2, ScreenFound
    <3> QED BY Zenon, <3>3 DEF ScreenStays
  <2>4. Screen' = SubSeq(new, kept + 1, Len(new)) BY Zenon, <1>11, <1>13 DEF Screen
  <2> QED BY Zenon, <2>3, <2>4 DEF Screen
<1>16. 0 \in 0..h - height BY <1>4
<1> QED BY <1>14, <1>15, <1>16

\* Any size keeps the grid typed, a taller one keeps the screen.
LEMMA ResizeKeeps ==
  ASSUME GridTyped, NEW h \in Heights, h # height, ResizeGrid(h)
  PROVE  /\ GridTyped' /\ height' = h
         /\ h > height => \E k \in 0..h - height : SubSeq(Screen', k + 1, k + height) = Screen
<1>1. h \in Nat /\ height \in Nat BY ScreenAssumption, GridNumbers
<1>2. height' = h BY DEF ResizeGrid
<1>3. CASE h > height BY <1>2, <1>3, GrowsPlain, GrowsAnchored
<1>4. CASE ~(h > height)
  <2>1. h < height BY <1>1, <1>4
  <2>2. ~GrowsBack(h) BY <1>4 DEF GrowsBack
  <2>3. /\ lines' = Reflowed(h).lines /\ cursor' = Reflowed(h).cursor /\ offset' = Reflowed(h).offset
        /\ damage' = {AllRows} /\ printed' = printed
    BY <2>2 DEF ResizeGrid
  <2>4. /\ lines' \in Seq(Nat) /\ Len(lines') >= h /\ Len(lines') <= h + MaxHistory
        /\ cursor' \in 0..h - 1 /\ offset' \in 0..Len(lines') - h
    BY <2>1, <2>3, ReflowShrinks
  <2> QED BY <1>2, <1>4, <2>3, <2>4 DEF GridTyped, HistorySize, AllRows
<1> QED BY <1>3, <1>4

\* The steps of task and window keep the grid and the window typed.
LEMMA ScreenStepsTyped ==
  ASSUME ScreenTyped, ScreenNext
  PROVE  ScreenTyped'
<1>0. GridTyped /\ paneHeight \in Heights /\ ptyHeight \in Heights /\ resizes \in Seq(Heights)
  BY DEF ScreenTyped
<1>1. CASE PrintLine BY <1>1, PrintTyped
<1>2. CASE ClearScreen BY <1>2, ClearTyped
<1>3. CASE MoveCursor \/ HideCursor
  <2>1. /\ cursor' \in {0, cursor} /\ damage' = damage \cup {cursor, cursor'}
        /\ UNCHANGED <<lines, height, offset, printed, paneHeight, ptyHeight, resizes>>
    BY <1>3 DEF MoveCursor, HideCursor, Fed
  <2>2. HistorySize' = HistorySize BY <2>1 DEF HistorySize
  <2>3. cursor \in 0..height - 1 /\ cursor' \in 0..height - 1
    <3>1. height \in Nat \ {0} /\ cursor \in 0..height - 1 BY <1>0, GridNumbers DEF GridTyped
    <3> QED BY <2>1, <3>1
  <2>4. damage' \in SUBSET Int
    <3>1. damage \in SUBSET Int /\ cursor \in Int /\ cursor' \in Int
      BY <1>0, <2>3, GridNumbers DEF GridTyped
    <3> QED BY <2>1, <3>1
  <2>5. GridTyped' BY <1>0, <2>1, <2>2, <2>3, <2>4 DEF GridTyped
  <2> QED BY <1>0, <2>1, <2>5 DEF ScreenTyped
<1>4. CASE TakeResize
  <2>1. PICK h : h = Head(resizes) OBVIOUS
  <2>2. h \in Heights /\ Tail(resizes) \in Seq(Heights) BY <1>0, <1>4, <2>1 DEF TakeResize
  <2>3. ptyHeight' \in Heights /\ resizes' \in Seq(Heights) /\ paneHeight' = paneHeight
    BY <1>4, <2>1, <2>2 DEF TakeResize
  <2>4. CASE h = height
    <3>1. UNCHANGED gridVars BY <1>4, <2>1, <2>4 DEF TakeResize
    <3> QED BY <1>0, <2>3, <3>1 DEF ScreenTyped, GridTyped, HistorySize, gridVars
  <2>5. CASE h # height
    <3>1. ResizeGrid(h) BY <1>4, <2>1, <2>5 DEF TakeResize
    <3> QED BY <1>0, <2>2, <2>3, <2>5, <3>1, ResizeKeeps DEF ScreenTyped
  <2> QED BY <2>4, <2>5
<1>5. ASSUME NEW h \in Heights, AskResize(h) PROVE ScreenTyped'
  <2>1. paneHeight' = h /\ ptyHeight' = ptyHeight BY <1>5 DEF AskResize
  <2>2. CASE h = height
    <3>1. UNCHANGED <<gridVars, resizes>> BY <1>5, <2>2 DEF AskResize
    <3> QED BY <1>0, <2>1, <3>1 DEF ScreenTyped, GridTyped, HistorySize, gridVars
  <2>3. CASE h # height
    <3>1. ResizeGrid(h) /\ resizes' = Append(resizes, h) BY <1>5, <2>3 DEF AskResize
    <3>2. resizes' \in Seq(Heights) BY <1>0, <3>1
    <3> QED BY <1>0, <2>1, <2>3, <3>1, <3>2, ResizeKeeps DEF ScreenTyped
  <2> QED BY <2>2, <2>3
<1>6. ASSUME NEW n \in 0..MaxHistory, ScrollTo(n) PROVE ScreenTyped'
  BY <1>0, <1>6 DEF ScrollTo, ScreenTyped, GridTyped, HistorySize
<1>7. CASE SetPalette \/ Look
  BY <1>0, <1>7 DEF SetPalette, Look, gridVars, ScreenTyped, GridTyped, HistorySize
<1>8. CASE Fetch
  BY <1>0, <1>8 DEF Fetch, ScreenTyped, GridTyped, HistorySize
<1> QED BY <1>1, <1>2, <1>3, <1>4, <1>5, <1>6, <1>7, <1>8 DEF ScreenNext

\* A row of the view is a row of the grid, the offset further up.
LEMMA RowsOfTheView ==
  ASSUME ScreenTyped
  PROVE  /\ DOMAIN Drawn = 1..height
         /\ \A i \in 1..height : Drawn[i] = <<lines[HistorySize - offset + i], colours>>
<1>1. DOMAIN Drawn = 1..height /\ \A i \in 1..height : Drawn[i] = <<View[i], colours>> BY DEF Drawn
<1>2. PICK m : m = HistorySize - offset OBVIOUS
<1>3. PICK n : n = m + height OBVIOUS
<1>4. m \in Nat /\ n \in Nat /\ m <= n /\ n <= Len(lines) /\ n - m = height /\ lines \in Seq(Nat)
  <2>1. lines \in Seq(Nat) BY DEF ScreenTyped, GridTyped
  <2>2. /\ HistorySize \in Nat /\ offset \in Nat /\ offset <= HistorySize /\ height \in Nat
        /\ Len(lines) = HistorySize + height
    BY ScreenNumbers
  <2> QED BY <1>2, <1>3, <2>1, <2>2
<1>5. \A i \in 1..n - m : SubSeq(lines, m + 1, n)[i] = lines[m + i] BY <1>4, RowsCut
<1>6. View = SubSeq(lines, m + 1, n) BY Zenon, <1>2, <1>3 DEF View
<1>7. \A i \in 1..height : View[i] = lines[HistorySize - offset + i] BY <1>2, <1>4, <1>5, <1>6
<1> HIDE DEF Drawn
<1> QED BY <1>1, <1>7

\* After a fetch the cells are what the grid shows.
LEMMA FetchDraws ==
  ASSUME ScreenTyped, AllIsFetchedNext \/ CellsArePatched, Fetch
  PROVE  cells' = Drawn /\ Drawn' = Drawn /\ CellsArePatched'
<1>1. /\ cells' = (IF IsFull THEN Drawn
                   ELSE [i \in DOMAIN cells |-> IF i - 1 - offset \in damage THEN Drawn[i] ELSE cells[i]])
      /\ lastFull' = (IF IsFull THEN offset ELSE lastFull)
      /\ UNCHANGED <<lines, height, offset, colours>> /\ damage' = {}
  BY DEF Fetch
<1>2. Drawn' = Drawn
  BY <1>1 DEF Drawn, View, HistorySize
<1>3. /\ DOMAIN Drawn = 1..height /\ Drawn = [i \in 1..height |-> Drawn[i]]
      /\ \A i \in 1..height : Drawn[i] = <<lines[HistorySize - offset + i], colours>>
  <2>1. Drawn = [i \in 1..height |-> Drawn[i]] BY DEF Drawn
  <2> QED BY <2>1, RowsOfTheView
<1>4. cells' = Drawn /\ lastFull' = offset
  <2>1. CASE IsFull BY <1>1, <2>1
  <2>2. CASE ~IsFull
    <3>1. offset = lastFull /\ CellsArePatched BY <2>2 DEF IsFull, AllIsFetchedNext
    <3>2. /\ DOMAIN cells = 1..height
          /\ \A i \in 1..height :
               i - 1 - offset \in damage \/ cells[i] = <<lines[HistorySize - offset + i], colours>>
      BY <3>1 DEF CellsArePatched
    <3>3. \A i \in 1..height : (IF i - 1 - offset \in damage THEN Drawn[i] ELSE cells[i]) = Drawn[i]
      BY <1>3, <3>2
    <3>4. cells' = [i \in 1..height |-> IF i - 1 - offset \in damage THEN Drawn[i] ELSE cells[i]]
      BY <1>1, <2>2, <3>2
    <3>5. cells' = [i \in 1..height |-> Drawn[i]] BY <3>3, <3>4
    <3> QED BY <1>1, <1>3, <2>2, <3>1, <3>5
  <2> QED BY <2>1, <2>2
<1>5. CellsArePatched'
  <2>1. HistorySize' = HistorySize BY <1>1 DEF HistorySize
  <2>2. offset \in 0..HistorySize BY ScreenNumbers
  <2> QED BY <1>1, <1>3, <1>4, <2>1, <2>2 DEF CellsArePatched
<1> QED BY <1>2, <1>4, <1>5

\* What a row printed changes is damaged; what changes more is fetched whole.
LEMMA CellsStayPatched ==
  ASSUME ScreenTyped, AllIsFetchedNext \/ CellsArePatched,
         PrintLine \/ ClearScreen \/ MoveCursor \/ HideCursor
  PROVE  AllIsFetchedNext' \/ CellsArePatched'
<1>0. UNCHANGED <<height, colours, recoloured, lastFull, cells>>
  BY DEF PrintLine, ClearScreen, MoveCursor, HideCursor, Fed
<1>1. CASE damage' = {AllRows} BY <1>1 DEF AllIsFetchedNext
<1>2. CASE AllIsFetchedNext /\ damage \subseteq damage' BY <1>0, <1>2 DEF AllIsFetchedNext
<1>3. CASE CellsArePatched /\ (MoveCursor \/ HideCursor)
  <2>1. lines' = lines /\ damage \subseteq damage' BY <1>3 DEF MoveCursor, HideCursor
  <2> QED BY <1>0, <1>3, <2>1 DEF CellsArePatched, HistorySize
<1>4. CASE CellsArePatched /\ PrintLine /\ cursor < height - 1
  <2>1. /\ lines' = [lines EXCEPT ![HistorySize + cursor + 1] = printed + 1]
        /\ damage' = damage \cup {cursor, cursor + 1}
    BY <1>4 DEF PrintLine
  <2>2. lines \in Seq(Nat) BY DEF ScreenTyped, GridTyped
  <2>3. /\ Len(lines') = Len(lines)
        /\ \A j \in 1..Len(lines) : j = HistorySize + cursor + 1 \/ lines'[j] = lines[j]
    BY <2>1, <2>2
  <2>4. HistorySize' = HistorySize BY <1>0, <2>3 DEF HistorySize
  <2>5. lastFull \in 0..HistorySize /\ DOMAIN cells = 1..height
        /\ \A i \in 1..height :
             i - 1 - lastFull \in damage \/ cells[i] = <<lines[HistorySize - lastFull + i], colours>>
    BY <1>4 DEF CellsArePatched
  <2>6. ASSUME NEW i \in 1..height
        PROVE  i - 1 - lastFull \in damage' \/ cells[i] = <<lines'[HistorySize - lastFull + i], colours>>
    <3>1. HistorySize - lastFull + i \in 1..Len(lines)
      <4>1. HistorySize \in Nat /\ lastFull \in Nat /\ lastFull <= HistorySize /\ height \in Nat
            /\ Len(lines) = HistorySize + height
        BY <2>5, ScreenNumbers
      <4> QED BY <4>1
    <3>2. CASE HistorySize - lastFull + i = HistorySize + cursor + 1
      <4>1. HistorySize \in Nat /\ lastFull \in Nat /\ cursor \in Nat /\ height \in Nat BY <2>5, ScreenNumbers
      <4>2. i - 1 - lastFull = cursor BY <3>2, <4>1
      <4> QED BY <2>1, <4>2
    <3>3. CASE HistorySize - lastFull + i # HistorySize + cursor + 1
      <4>1. lines'[HistorySize - lastFull + i] = lines[HistorySize - lastFull + i] BY <2>3, <3>1, <3>3
      <4> QED BY <2>1, <2>5, <4>1
    <3> QED BY <3>2, <3>3
  <2>7. CellsArePatched' BY <1>0, <2>4, <2>5, <2>6 DEF CellsArePatched
  <2> QED BY <2>7
<1>5. damage' = {AllRows} \/ (damage \subseteq damage' /\ ~ClearScreen /\ (PrintLine => cursor < height - 1))
  BY DEF PrintLine, ClearScreen, MoveCursor, HideCursor
<1> QED BY <1>1, <1>2, <1>3, <1>4, <1>5

\* A resize is fetched whole.
LEMMA ResizeIsFetched ==
  ASSUME NEW h \in Heights, ResizeGrid(h)
  PROVE  AllIsFetchedNext' /\ moved' = TRUE
  BY DEF ResizeGrid, AllIsFetchedNext

\* Every step keeps the cells patched, and the newest generation drawn.
LEMMA ScreenKept == ScreenInv /\ [ScreenNext]_paneVars => ScreenInv'
<1> SUFFICES ASSUME ScreenInv, [ScreenNext]_paneVars PROVE ScreenInv'
  OBVIOUS
<1>0. ScreenTyped /\ (AllIsFetchedNext \/ CellsArePatched) /\ DrawnIsCurrent BY DEF ScreenInv
<1>1. CASE PrintLine \/ ClearScreen \/ MoveCursor \/ HideCursor
  <2>1. AllIsFetchedNext' \/ CellsArePatched' BY <1>0, <1>1, CellsStayPatched
  <2>2. moved' = TRUE BY <1>1 DEF PrintLine, ClearScreen, MoveCursor, HideCursor, Fed
  <2>3. ScreenTyped' BY <1>0, <1>1, ScreenStepsTyped DEF ScreenNext
  <2> QED BY <2>1, <2>2, <2>3 DEF ScreenInv, DrawnIsCurrent
<1>2. CASE TakeResize \/ \E h \in Heights : AskResize(h)
  <2>1. ScreenTyped' BY <1>0, <1>2, ScreenStepsTyped DEF ScreenNext
  <2>2. PICK h : UNCHANGED <<gridVars, moved>> \/ (h \in Heights /\ ResizeGrid(h))
    <3>1. CASE TakeResize
      <4>1. Head(resizes) \in Heights BY <1>0, <3>1 DEF TakeResize, ScreenTyped
      <4> QED BY <3>1, <4>1 DEF TakeResize
    <3>2. CASE \E h \in Heights : AskResize(h) BY <3>2 DEF AskResize
    <3> QED BY <1>2, <3>1, <3>2
  <2>3. looking' = looking /\ cells' = cells BY <1>2 DEF TakeResize, AskResize
  <2>4. CASE UNCHANGED <<gridVars, moved>>
    <3>1. Drawn' = Drawn BY <2>4 DEF gridVars, Drawn, View, HistorySize
    <3>2. (AllIsFetchedNext \/ CellsArePatched)'
      BY <1>0, <2>3, <2>4 DEF gridVars, AllIsFetchedNext, CellsArePatched, HistorySize
    <3> QED BY <1>0, <2>1, <2>3, <2>4, <3>1, <3>2 DEF ScreenInv, DrawnIsCurrent
  <2>5. CASE ResizeGrid(h) /\ h \in Heights
    <3>1. AllIsFetchedNext' /\ moved' = TRUE BY <2>5, ResizeIsFetched
    <3> QED BY <2>1, <3>1 DEF ScreenInv, DrawnIsCurrent
  <2> QED BY <2>2, <2>4, <2>5
<1>3. CASE SetPalette \/ \E n \in 0..MaxHistory : ScrollTo(n)
  <2>1. ScreenTyped' BY <1>0, <1>3, ScreenStepsTyped DEF ScreenNext
  <2>2. moved' = TRUE BY <1>3 DEF SetPalette, ScrollTo
  <2>3. (AllIsFetchedNext \/ CellsArePatched)'
    BY <1>0, <1>3 DEF SetPalette, ScrollTo, AllIsFetchedNext, CellsArePatched, HistorySize
  <2> QED BY <2>1, <2>2, <2>3 DEF ScreenInv, DrawnIsCurrent
<1>4. CASE Look
  <2>1. ScreenTyped' BY <1>0, <1>4, ScreenStepsTyped DEF ScreenNext
  <2>2. looking' = TRUE BY <1>4 DEF Look
  <2>3. (AllIsFetchedNext \/ CellsArePatched)'
    BY <1>0, <1>4 DEF Look, gridVars, AllIsFetchedNext, CellsArePatched, HistorySize
  <2> QED BY <2>1, <2>2, <2>3 DEF ScreenInv, DrawnIsCurrent
<1>5. CASE Fetch
  <2>1. ScreenTyped' BY <1>0, <1>5, ScreenStepsTyped DEF ScreenNext
  <2>2. cells' = Drawn' /\ CellsArePatched' BY <1>0, <1>5, FetchDraws
  <2> QED BY <2>1, <2>2 DEF ScreenInv, DrawnIsCurrent
<1>6. CASE UNCHANGED paneVars
  <2>1. UNCHANGED <<gridVars, moved, looking, cells, paneHeight, ptyHeight, resizes>> BY <1>6 DEF paneVars
  <2>2. ScreenTyped' BY <1>0, <2>1 DEF gridVars, ScreenTyped, GridTyped, HistorySize
  <2>3. (AllIsFetchedNext \/ CellsArePatched)'
    BY <1>0, <2>1 DEF gridVars, AllIsFetchedNext, CellsArePatched, HistorySize
  <2>4. Drawn' = Drawn BY <2>1 DEF gridVars, Drawn, View, HistorySize
  <2> QED BY <1>0, <2>1, <2>2, <2>3, <2>4 DEF ScreenInv, DrawnIsCurrent
<1> QED BY <1>1, <1>2, <1>3, <1>4, <1>5, <1>6 DEF ScreenNext

\* A pane starts with a blank grid and everything to fetch.
LEMMA ScreenStarts == ScreenInit => ScreenInv
<1> SUFFICES ASSUME ScreenInit PROVE ScreenInv
  OBVIOUS
<1>1. height \in Nat \ {0} /\ MaxHistory \in Nat /\ DefaultHeight \in Heights /\ height \in Heights
  BY ScreenAssumption DEF ScreenInit
<1>2. lines = Blanks(height) BY DEF ScreenInit
<1>3. lines \in Seq(Nat) /\ Len(lines) = height BY <1>1, <1>2, BlankRows
<1>4. HistorySize = 0 BY <1>1, <1>3 DEF HistorySize
<1>5. <<>> \in Seq(Heights) OBVIOUS
<1>6. ScreenTyped BY <1>1, <1>3, <1>4, <1>5 DEF ScreenInit, ScreenTyped, GridTyped, AllRows
<1> QED BY <1>6 DEF ScreenInit, ScreenInv, AllIsFetchedNext, DrawnIsCurrent

\* A screen grows by a resize alone, which keeps what it showed.
LEMMA ScreenGrows ==
  ScreenInv /\ [ScreenNext]_paneVars =>
    (height' > height =>
       \E k \in 0..height' - height : SubSeq(Screen', k + 1, k + height) = Screen)
<1> SUFFICES ASSUME ScreenInv, ScreenNext \/ UNCHANGED paneVars, height' > height
             PROVE  \E k \in 0..height' - height : SubSeq(Screen', k + 1, k + height) = Screen
  OBVIOUS
<1>1. ScreenTyped /\ GridTyped BY DEF ScreenInv, ScreenTyped
<1>2. height \in Nat /\ height' # height BY <1>1, GridNumbers
<1>3. PICK h \in Heights : ResizeGrid(h)
  <2>1. CASE TakeResize
    <3>1. Head(resizes) \in Heights BY <1>1, <2>1 DEF TakeResize, ScreenTyped
    <3> QED BY <1>2, <2>1, <3>1 DEF TakeResize, gridVars
  <2>2. CASE \E h \in Heights : AskResize(h) BY <1>2, <2>2 DEF AskResize, gridVars
  <2>3. CASE UNCHANGED height BY <1>2, <2>3
  <2>4. TakeResize \/ (\E h \in Heights : AskResize(h)) \/ UNCHANGED height
    BY DEF ScreenNext, PrintLine, ClearScreen, MoveCursor, HideCursor, Fed, ScrollTo, SetPalette, Look, Fetch,
           gridVars, paneVars
  <2> QED BY <2>1, <2>2, <2>3, <2>4
<1>4. height' = h BY <1>3 DEF ResizeGrid
<1> QED BY <1>1, <1>2, <1>3, <1>4, ResizeKeeps

\* For any heights, history and interleaving of task and window, what the pane
\* draws of a generation it has fetched is its grid, and a taller screen keeps
\* every row the shorter one showed (get_grid_updates, resize).
THEOREM ScreensAreTrue == MCSpec => ScreenIsTrue
<1>1. MCInit => ScreenInv BY ScreenStarts DEF MCInit
<1>2. [MCNext]_mcVars => [ScreenNext]_paneVars
  BY DEF MCNext, mcVars, InProcess, InScreen, InLines, InConcepts, InWindow, InTiles
<1>3. ScreenInv => DrawnIsCurrent BY DEF ScreenInv
<1>4. ScreenInv /\ [ScreenNext]_paneVars =>
        [height' > height =>
           \E k \in 0..height' - height : SubSeq(Screen', k + 1, k + height) = Screen]_paneVars
  BY ScreenGrows
<1> QED BY <1>1, <1>2, <1>3, <1>4, ScreenKept, PTL DEF MCSpec, ScreenIsTrue, GrowthKeepsTheScreen

(* The lines: what the handler holds of the open segment is what the        *)
(* segment shows, piece by piece.                                           *)
Piece == [text : Seq(Bytes), fresh : BOOLEAN]
NoPiece == [text |-> <<>>, fresh |-> FALSE]
PieceAfter(p, b) ==
  IF b = "CR" THEN [p EXCEPT !.fresh = TRUE]
  ELSE [text |-> IF p.fresh THEN <<b>> ELSE Append(p.text, b), fresh |-> FALSE]
PieceOf(s) == FoldLeft(LAMBDA acc, b :
      IF b = "CR" THEN [acc EXCEPT !.fresh = TRUE]
      ELSE [text |-> IF acc.fresh THEN <<b>> ELSE Append(acc.text, b), fresh |-> FALSE],
    [text |-> <<>>, fresh |-> FALSE], s)
PieceTable == [p \in Piece \X Bytes |-> PieceAfter(p[1], p[2])]

\* The table is one of pieces.
LEMMA PiecesTyped ==
  /\ NoPiece \in Piece /\ PieceTable \in [Piece \X Bytes -> Piece]
  /\ \A p \in Piece, b \in Bytes : PieceAfter(p, b) \in Piece /\ PieceTable[<<p, b>>] = PieceAfter(p, b)
<1>1. ASSUME NEW p \in Piece, NEW b \in Bytes PROVE PieceAfter(p, b) \in Piece
  <2>1. <<b>> \in Seq(Bytes) /\ Append(p.text, b) \in Seq(Bytes) BY DEF Piece
  <2> QED BY <2>1 DEF Piece, PieceAfter
<1>2. \A x \in Piece \X Bytes : x[1] \in Piece /\ x[2] \in Bytes OBVIOUS
<1>3. \A x \in Piece \X Bytes : PieceAfter(x[1], x[2]) \in Piece BY <1>1, <1>2
<1>4. PieceTable \in [Piece \X Bytes -> Piece] BY <1>3 DEF PieceTable
<1>5. \A p \in Piece, b \in Bytes : <<p, b>> \in Piece \X Bytes OBVIOUS
<1>6. \A p \in Piece, b \in Bytes : PieceTable[<<p, b>>] = PieceAfter(p, b) BY <1>5 DEF PieceTable
<1>7. NoPiece \in Piece BY DEF Piece, NoPiece
<1> QED BY <1>1, <1>4, <1>6, <1>7

\* What a text shows is a fold by that table.
LEMMA PieceFolds ==
  ASSUME NEW s \in Seq(Bytes)
  PROVE  \E g : FoldOf(g, PieceTable, NoPiece, s, Len(s), Piece) /\ PieceOf(s) = g[1..Len(s)]
<1> DEFINE T == DOMAIN s
           it == CHOOSE f : f = [x \in SUBSET T |->
                   IF x = {} THEN [text |-> <<>>, fresh |-> FALSE]
                   ELSE IF s[Max(x)] = "CR" THEN [f[x \ {Max(x)}] EXCEPT !.fresh = TRUE]
                   ELSE [text |-> IF f[x \ {Max(x)}].fresh THEN <<s[Max(x)]>>
                                  ELSE Append(f[x \ {Max(x)}].text, s[Max(x)]), fresh |-> FALSE]]
<1>1. T = 1..Len(s) /\ Len(s) \in Nat /\ s \in [1..Len(s) -> Bytes]
  OBVIOUS
<1>2. PieceOf(s) = it[T]
  BY Zenon DEF PieceOf, FoldLeft, MapThenFoldSet
<1>3. \A x \in SUBSET T : x # {} => Max(x) \in x
  <2>1. ASSUME NEW x \in SUBSET T, x # {} PROVE x \in SUBSET (0..Len(s))
    BY <1>1
  <2> QED BY <1>1, <2>1, MaxOfNats, Zenon
<1> HIDE DEF T
<1>4. PICK g : FoldOf(g, PieceTable, NoPiece, s, Len(s), Piece)
  BY <1>1, PiecesTyped, FoldExists
<1>5. /\ g \in [SUBSET T -> Piece] /\ g[{}] = NoPiece
      /\ \A x \in SUBSET T : x # {} => g[x] = PieceTable[<<g[x \ {Max(x)}], s[Max(x)]>>]
  BY <1>1, <1>4 DEF FoldOf
<1>6. ASSUME NEW x \in SUBSET T, x # {} PROVE g[x] = PieceAfter(g[x \ {Max(x)}], s[Max(x)])
  <2>1. Max(x) \in T BY <1>3, <1>6
  <2>2. s[Max(x)] \in Bytes BY <1>1, <2>1
  <2>3. g[x \ {Max(x)}] \in Piece BY <1>5
  <2> QED BY <1>5, <1>6, <2>2, <2>3, PiecesTyped, Zenon
<1>7. g = [x \in SUBSET T |-> IF x = {} THEN NoPiece ELSE PieceAfter(g[x \ {Max(x)}], s[Max(x)])]
  <2>1. g = [x \in SUBSET T |-> g[x]] BY <1>5
  <2> QED BY <1>5, <1>6, <2>1
<1>8. g = [x \in SUBSET T |->
                   IF x = {} THEN [text |-> <<>>, fresh |-> FALSE]
                   ELSE IF s[Max(x)] = "CR" THEN [g[x \ {Max(x)}] EXCEPT !.fresh = TRUE]
                   ELSE [text |-> IF g[x \ {Max(x)}].fresh THEN <<s[Max(x)]>>
                                  ELSE Append(g[x \ {Max(x)}].text, s[Max(x)]), fresh |-> FALSE]]
  BY <1>7, Zenon DEF PieceAfter, NoPiece
<1>9. it = [x \in SUBSET T |->
                   IF x = {} THEN [text |-> <<>>, fresh |-> FALSE]
                   ELSE IF s[Max(x)] = "CR" THEN [it[x \ {Max(x)}] EXCEPT !.fresh = TRUE]
                   ELSE [text |-> IF it[x \ {Max(x)}].fresh THEN <<s[Max(x)]>>
                                  ELSE Append(it[x \ {Max(x)}].text, s[Max(x)]), fresh |-> FALSE]]
  BY <1>8, Zenon
<1> HIDE DEF it
<1>10. it = [x \in SUBSET T |-> IF x = {} THEN NoPiece ELSE PieceAfter(it[x \ {Max(x)}], s[Max(x)])]
  BY <1>9, Zenon DEF PieceAfter, NoPiece
<1>11. it[{}] = NoPiece BY <1>10
<1>12. ASSUME NEW x \in SUBSET T, x # {}, it[x \ {Max(x)}] \in Piece
       PROVE  it[x] = PieceTable[<<it[x \ {Max(x)}], s[Max(x)]>>]
  <2>1. Max(x) \in T BY <1>3, <1>12
  <2>2. s[Max(x)] \in Bytes BY <1>1, <2>1
  <2>3. it[x] = PieceAfter(it[x \ {Max(x)}], s[Max(x)]) BY <1>10, <1>12
  <2> QED BY <1>12, <2>2, <2>3, PiecesTyped, Zenon
<1>13. it = [x \in SUBSET T |-> it[x]] BY <1>10, Zenon
<1>14. FoldOf(it, PieceTable, NoPiece, s, Len(s), Piece)
  BY <1>1, <1>11, <1>12, <1>13, PiecesTyped, FoldIsOf
<1> QED BY <1>1, <1>2, <1>14

\* A byte more changes what a text shows by what the byte does.
LEMMA PieceGrows ==
  ASSUME NEW s \in Seq(Bytes), NEW b \in Bytes
  PROVE  /\ PieceOf(s) \in Piece
         /\ PieceOf(Append(s, b)) = PieceAfter(PieceOf(s), b)
<1> DEFINE r == Append(s, b)
<1>1. /\ r \in Seq(Bytes) /\ Len(r) = Len(s) + 1 /\ Len(s) \in Nat /\ Len(r) \in 1..Len(r)
      /\ r[Len(r)] = b /\ \A i \in 1..Len(s) : s[i] = r[i]
  OBVIOUS
<1> HIDE DEF r
<1>2. PICK g : FoldOf(g, PieceTable, NoPiece, s, Len(s), Piece) /\ PieceOf(s) = g[1..Len(s)]
  BY PieceFolds
<1>3. PICK h : FoldOf(h, PieceTable, NoPiece, r, Len(r), Piece) /\ PieceOf(r) = h[1..Len(r)]
  BY <1>1, PieceFolds
<1>4. g[1..Len(s)] = h[1..Len(s)]
  <2>1. Len(r) \in Nat /\ Len(s) <= Len(s) /\ Len(s) <= Len(r) BY <1>1
  <2> QED BY <1>1, <1>2, <1>3, <2>1, FoldsAgree
<1>5. h[1..Len(r)] = PieceTable[<<h[1..(Len(r) - 1)], r[Len(r)]>>]
  <2>1. Len(r) \in Nat BY <1>1
  <2> QED BY <1>1, <1>3, <2>1, FoldStep
<1>6. Len(r) - 1 = Len(s) BY <1>1
<1>7. g[1..Len(s)] \in Piece
  <2>1. 1..Len(s) \in SUBSET (1..Len(s)) OBVIOUS
  <2> QED BY <1>2, <2>1 DEF FoldOf
<1>8. PieceOf(r) = PieceTable[<<PieceOf(s), b>>]
  BY <1>1, <1>2, <1>3, <1>4, <1>5, <1>6, Zenon
<1>9. PieceOf(s) \in Piece BY <1>2, <1>7, Zenon
<1>10. PieceOf(r) = PieceAfter(PieceOf(s), b) BY <1>8, <1>9, PiecesTyped, Zenon
<1> QED BY <1>9, <1>10 DEF r

\* An empty text shows nothing.
LEMMA NothingShows == PieceOf(<<>>) = NoPiece
<1>1. <<>> \in Seq(Bytes) /\ Len(<<>>) = 0 /\ 1..0 = {} OBVIOUS
<1>2. PICK g : FoldOf(g, PieceTable, NoPiece, <<>>, Len(<<>>), Piece) /\ PieceOf(<<>>) = g[1..Len(<<>>)]
  BY <1>1, PieceFolds, Zenon
<1>3. g[{}] = NoPiece BY <1>2 DEF FoldOf
<1> QED BY <1>1, <1>2, <1>3, Zenon

UpToCap(t) == SubSeq(t, 1, IF Len(t) < LineCap THEN Len(t) ELSE LineCap)

\* What is visible of a segment is its piece, up to the cap.
LEMMA VisibleIsCapped == \A s : Visible(s) = UpToCap(PieceOf(s).text)
  BY Zenon DEF Visible, LastPiece, PieceOf, UpToCap

\* The cap is kept by dropping what comes after it.
LEMMA CapDrops ==
  ASSUME NEW t \in Seq(Bytes), NEW b \in Bytes
  PROVE  /\ UpToCap(t) \in Seq(Bytes) /\ UpToCap(<<>>) = <<>> /\ UpToCap(<<b>>) = <<b>>
         /\ UpToCap(Append(t, b)) = (IF Len(UpToCap(t)) < LineCap THEN Append(UpToCap(t), b) ELSE UpToCap(t))
<1> USE LineAssumption DEF UpToCap
<1>1. UpToCap(t) \in Seq(Bytes) OBVIOUS
<1>2. UpToCap(<<>>) = <<>> OBVIOUS
<1>3. UpToCap(<<b>>) = <<b>>
  <2>1. (IF Len(<<b>>) < LineCap THEN Len(<<b>>) ELSE LineCap) = 1 OBVIOUS
  <2>2. SubSeq(<<b>>, 1, 1) = <<b>>
    <3>1. \A u \in Seq(Bytes) : SubSeq(u, 1, Len(u)) = u OBVIOUS
    <3>2. <<b>> \in Seq(Bytes) /\ Len(<<b>>) = 1 OBVIOUS
    <3> QED BY <3>1, <3>2, Zenon
  <2> QED BY <2>1, <2>2, Zenon
<1>4. CASE Len(t) < LineCap
  <2>1. UpToCap(t) = t BY <1>4
  <2>2. UpToCap(Append(t, b)) = Append(t, b) BY <1>4
  <2> QED BY <1>1, <1>2, <1>3, <1>4, <2>1, <2>2, Zenon
<1>5. CASE ~(Len(t) < LineCap)
  <2>1. Len(UpToCap(t)) = LineCap BY <1>5
  <2>2. ~(Len(UpToCap(t)) < LineCap) BY <2>1
  <2>3. UpToCap(Append(t, b)) = UpToCap(t) BY <1>5
  <2> HIDE DEF UpToCap
  <2> QED BY <1>1, <1>2, <1>3, <2>2, <2>3, Zenon
<1> QED BY <1>4, <1>5

(* What the guard, the parser and the handler hold between two bytes.  A     *)
(* string the guard counts is open in the parser, and so is an escape it     *)
(* remembers; the text of the handler is what its segment shows.             *)
GuardInStep ==
  /\ oscLen \in Nat /\ pendingEsc \in BOOLEAN
  /\ oscLen # NoString => mode = "osc"
  /\ pendingEsc = TRUE => mode = "esc"
HandlerTyped ==
  /\ current \in Seq(Bytes) /\ segment \in Seq(Bytes)
  /\ stash = NoStash \/ (stash \in Seq(Bytes) /\ current = <<>>)
SegmentIsHeld ==
  /\ Stashed => PieceOf(segment).fresh = TRUE
  /\ ~Stashed => PieceOf(segment).fresh = FALSE
  /\ Line = Visible(segment)
CommitsShow == committed.line # NoStash => committed.line = Visible(committed.from)
LineInv == GuardInStep /\ HandlerTyped /\ SegmentIsHeld /\ CommitsShow

\* A stream starts outside of any sequence, with an empty line.
LEMMA LineStarts == LineInit => LineInv
<1> SUFFICES ASSUME LineInit PROVE LineInv
  OBVIOUS
<1>1. GuardInStep
  <2>1. oscLen = NoString /\ NoString \in Nat BY LineAssumption DEF LineInit, NoString
  <2>2. pendingEsc = FALSE BY DEF LineInit
  <2> QED BY <2>1, <2>2, Zenon DEF GuardInStep
<1>2. HandlerTyped BY DEF LineInit, HandlerTyped
<1>3. CommitsShow BY DEF LineInit, CommitsShow, NoLine
<1>4. Visible(<<>>) = <<>>
  <2>1. Visible(<<>>) = UpToCap(<<>>) BY VisibleIsCapped, NothingShows DEF NoPiece
  <2>2. UpToCap(<<>>) = <<>>
    <3>1. <<>> \in Seq(Bytes) /\ "x" \in Bytes BY DEF Bytes
    <3> QED BY <3>1, CapDrops
  <2> QED BY <2>1, <2>2
<1>5. SegmentIsHeld
  BY <1>4, NothingShows DEF LineInit, SegmentIsHeld, NoPiece, Stashed, Line
<1> QED BY <1>1, <1>2, <1>3, <1>5 DEF LineInv

\* The guard follows the parser into a string and out of it.
LEMMA GuardKept ==
  ASSUME GuardInStep, NEW b \in Bytes, FeedByte(b)
  PROVE  GuardInStep'
<1>1. GuardLen(b) \in Nat BY LineAssumption DEF GuardInStep, GuardLen, NoString
<1>2. NoString \in Nat BY LineAssumption DEF NoString
<1>3. oscLen' \in Nat /\ pendingEsc' \in BOOLEAN BY <1>1, <1>2 DEF FeedByte
<1>4. GuardEsc(b) => b = "ESC" BY DEF GuardEsc
<1>5. b = "ESC" => ModeAfter(b) = "esc" /\ GuardLen(b) = NoString
  <2>1. b = "ESC" => ModeAfter(b) = "esc" BY Zenon DEF ModeAfter
  <2>2. b = "ESC" => b \in {"BEL", "CAN", "ESC"} /\ b # "]" OBVIOUS
  <2>3. b = "ESC" => GuardLen(b) = NoString BY <2>2, Zenon DEF GuardLen
  <2> QED BY <2>1, <2>3
<1>6. pendingEsc' = TRUE => mode' = "esc"
  <2> SUFFICES ASSUME pendingEsc' = TRUE PROVE mode' = "esc"
    OBVIOUS
  <2>1. GuardEsc(b) /\ ~Closes(b) BY DEF FeedByte
  <2>2. mode' = ModeAfter(b) BY <2>1 DEF FeedByte
  <2> QED BY <1>4, <1>5, <2>1, <2>2
<1>7. oscLen' # NoString => mode' = "osc"
  <2> SUFFICES ASSUME oscLen' # NoString PROVE mode' = "osc"
    OBVIOUS
  <2>1. ~Closes(b) /\ GuardLen(b) # NoString BY DEF FeedByte
  <2>2. mode' = ModeAfter(b) BY <2>1 DEF FeedByte
  <2>3. CASE oscLen # NoString
    <3>1. b \notin {"BEL", "CAN", "ESC"} BY <2>1, <2>3 DEF GuardLen
    <3>2. mode = "osc" BY <2>3 DEF GuardInStep
    <3> QED BY <2>2, <3>1, <3>2 DEF ModeAfter
  <2>4. CASE oscLen = NoString
    <3>1. pendingEsc = TRUE /\ b = "]" BY <2>1, <2>4 DEF GuardLen, GuardInStep
    <3>2. mode = "esc" BY <3>1 DEF GuardInStep
    <3> QED BY <2>2, <3>1, <3>2 DEF ModeAfter, Introduced, Controls
  <2> QED BY <2>3, <2>4
<1>8. NoString' = NoString BY DEF NoString
<1> QED BY <1>3, <1>6, <1>7, <1>8 DEF GuardInStep

\* A printed byte is text, or the text that replaces an overwritten one.
LEMMA PrintKeeps ==
  ASSUME HandlerTyped, SegmentIsHeld, NEW b \in Bytes, b # "CR", PrintByte(b)
  PROVE  HandlerTyped' /\ SegmentIsHeld'
<1> DEFINE p == PieceOf(segment)
           q == PieceOf(Append(segment, b))
<1>1. segment \in Seq(Bytes) /\ current \in Seq(Bytes) BY DEF HandlerTyped
<1>2. p \in Piece /\ q = PieceAfter(p, b) BY <1>1, PieceGrows
<1>3. q = [text |-> IF p.fresh THEN <<b>> ELSE Append(p.text, b), fresh |-> FALSE]
  BY <1>2 DEF PieceAfter
<1> HIDE DEF q
<1>4. p.text \in Seq(Bytes) BY <1>2 DEF Piece
<1>5. segment' = Append(segment, b) /\ stash' = NoStash BY DEF PrintByte
<1>6. Visible(segment)' = UpToCap(q.text)
  <2>1. Visible(Append(segment, b)) = UpToCap(q.text) BY VisibleIsCapped DEF q
  <2>2. Visible(segment)' = Visible(segment') BY Zenon DEF Visible, LastPiece, FoldLeft, MapThenFoldSet
  <2> QED BY <1>5, <2>1, <2>2
<1>7. Visible(segment) = UpToCap(p.text) BY VisibleIsCapped
<1> HIDE DEF p
<1>8. current' = UpToCap(q.text)
  <2>1. CASE Stashed
    <3>1. p.fresh = TRUE BY <2>1 DEF SegmentIsHeld, p
    <3>2. q.text = <<b>> BY <1>3, <3>1
    <3>3. current' = <<b>>
      <4>1. current' = (IF Len(<<>>) < LineCap THEN Append(<<>>, b) ELSE <<>>) BY <2>1 DEF PrintByte
      <4>2. Len(<<>>) < LineCap BY LineAssumption
      <4> QED BY <4>1, <4>2
    <3> QED BY <1>4, <3>2, <3>3, CapDrops
  <2>2. CASE ~Stashed
    <3>1. p.fresh = FALSE BY <2>2 DEF SegmentIsHeld, p
    <3>2. q.text = Append(p.text, b) BY <1>3, <3>1
    <3>3. current = UpToCap(p.text) BY <1>7, <2>2 DEF SegmentIsHeld, Line
    <3>4. current' = (IF Len(current) < LineCap THEN Append(current, b) ELSE current) BY <2>2 DEF PrintByte
    <3>5. UpToCap(Append(p.text, b)) = (IF Len(UpToCap(p.text)) < LineCap THEN Append(UpToCap(p.text), b) ELSE UpToCap(p.text))
      BY <1>4, CapDrops
    <3> QED BY <3>2, <3>3, <3>4, <3>5, Zenon
  <2> QED BY <2>1, <2>2
<1>9. q.text \in Seq(Bytes)
  <2>1. <<b>> \in Seq(Bytes) /\ Append(p.text, b) \in Seq(Bytes) BY <1>4
  <2> QED BY <1>3, <2>1
<1>10. current' \in Seq(Bytes) BY <1>8, <1>9, CapDrops
<1>11. HandlerTyped' BY <1>1, <1>5, <1>10 DEF HandlerTyped, NoStash
<1>12. ~Stashed' /\ Line' = current' BY <1>5 DEF Stashed, Line, NoStash
<1>13. PieceOf(segment)' = q
  <2>1. PieceOf(segment)' = PieceOf(segment') BY Zenon DEF PieceOf, FoldLeft, MapThenFoldSet
  <2> QED BY <1>5, <2>1 DEF q
<1>14. q.fresh = FALSE BY <1>3
<1> QED BY <1>6, <1>8, <1>11, <1>12, <1>13, <1>14 DEF SegmentIsHeld

\* A carriage return keeps the text until something is written over it.
LEMMA ReturnKeeps ==
  ASSUME HandlerTyped, SegmentIsHeld, CarriageReturn
  PROVE  HandlerTyped' /\ SegmentIsHeld'
<1> DEFINE p == PieceOf(segment)
           q == PieceOf(Append(segment, "CR"))
<1>1. segment \in Seq(Bytes) /\ current \in Seq(Bytes) /\ "CR" \in Bytes BY DEF HandlerTyped, Bytes
<1>2. p \in Piece /\ q = PieceAfter(p, "CR") BY <1>1, PieceGrows
<1>3. q.text = p.text /\ q.fresh = TRUE BY <1>2 DEF PieceAfter, Piece
<1>4. segment' = Append(segment, "CR") /\ segment' \in Seq(Bytes) BY <1>1 DEF CarriageReturn
<1>5. Visible(segment)' = Visible(segment)
  <2>1. Visible(Append(segment, "CR")) = UpToCap(q.text) /\ Visible(segment) = UpToCap(p.text) BY VisibleIsCapped
  <2>2. Visible(segment)' = Visible(segment') BY Zenon DEF Visible, LastPiece, FoldLeft, MapThenFoldSet
  <2> HIDE DEF p, q
  <2> QED BY <1>3, <1>4, <2>1, <2>2
<1>6. PieceOf(segment)' = q
  <2>1. PieceOf(segment)' = PieceOf(segment') BY Zenon DEF PieceOf, FoldLeft, MapThenFoldSet
  <2> QED BY <1>4, <2>1
<1> HIDE DEF p, q
<1>7. CASE Stashed
  <2>1. stash' = stash /\ current' = current BY <1>7 DEF CarriageReturn
  <2>2. Stashed' /\ Line' = Line BY <1>7, <2>1 DEF Stashed, Line, NoStash
  <2>3. HandlerTyped' BY <1>4, <2>1 DEF HandlerTyped, NoStash
  <2> QED BY <1>3, <1>5, <1>6, <2>2, <2>3 DEF SegmentIsHeld
<1>8. CASE ~Stashed
  <2>1. stash' = current /\ current' = <<>> BY <1>8 DEF CarriageReturn
  <2>2. current # NoStash
    <3>1. "none" \notin Bytes BY DEF Bytes
    <3>2. NoStash[1] = "none" /\ Len(NoStash) = 1 BY DEF NoStash
    <3>3. current = NoStash => current[1] \in Bytes BY <1>1, <3>2
    <3> QED BY <3>1, <3>2, <3>3
  <2>3. Stashed' /\ Line' = current BY <2>1, <2>2 DEF Stashed, Line, NoStash
  <2>4. Line = current BY <1>8 DEF Line
  <2>5. HandlerTyped' BY <1>1, <1>4, <2>1 DEF HandlerTyped, NoStash
  <2> QED BY <1>3, <1>5, <1>6, <2>3, <2>4, <2>5 DEF SegmentIsHeld
<1> QED BY <1>7, <1>8

\* What ends a line leaves an empty one.
LEMMA EndedIsEmpty ==
  ASSUME HandlerTyped, stash' = NoStash, current' = Emptied, segment' = <<>>
  PROVE  HandlerTyped' /\ SegmentIsHeld'
<1>2. Emptied = <<>> BY DEF Emptied, HandlerTyped, Stashed
<1>3. HandlerTyped' BY <1>2 DEF HandlerTyped, NoStash
<1>4. ~Stashed' /\ Line' = <<>> BY <1>2 DEF Stashed, Line, NoStash
<1>5. Visible(<<>>) = <<>>
  <2>1. Visible(<<>>) = UpToCap(<<>>) BY VisibleIsCapped, NothingShows DEF NoPiece
  <2>2. UpToCap(<<>>) = <<>>
    <3>1. <<>> \in Seq(Bytes) /\ "x" \in Bytes BY DEF Bytes
    <3> QED BY <3>1, CapDrops
  <2> QED BY <2>1, <2>2
<1>6. Visible(segment)' = <<>>
  <2>1. Visible(segment)' = Visible(segment') BY Zenon DEF Visible, LastPiece, FoldLeft, MapThenFoldSet
  <2> QED BY <1>5, <2>1
<1>7. PieceOf(segment)' = NoPiece
  <2>1. PieceOf(segment)' = PieceOf(segment') BY Zenon DEF PieceOf, FoldLeft, MapThenFoldSet
  <2> QED BY <2>1, NothingShows
<1>8. NoPiece.fresh = FALSE BY DEF NoPiece
<1> QED BY <1>3, <1>4, <1>6, <1>7, <1>8 DEF SegmentIsHeld

\* Nothing is lost in between.
LEMMA SilenceKeeps ==
  ASSUME HandlerTyped, SegmentIsHeld, UNCHANGED <<current, stash, segment>>
  PROVE  HandlerTyped' /\ SegmentIsHeld'
<1>1. HandlerTyped' BY DEF HandlerTyped, NoStash
<1>2. Line' = Line /\ Stashed' = Stashed BY DEF Line, Stashed, NoStash
<1>3. Visible(segment)' = Visible(segment)
  <2>1. Visible(segment)' = Visible(segment') BY Zenon DEF Visible, LastPiece, FoldLeft, MapThenFoldSet
  <2> QED BY <2>1
<1>4. PieceOf(segment)' = PieceOf(segment)
  <2>1. PieceOf(segment)' = PieceOf(segment') BY Zenon DEF PieceOf, FoldLeft, MapThenFoldSet
  <2> QED BY <2>1
<1> QED BY <1>1, <1>2, <1>3, <1>4, Zenon DEF SegmentIsHeld

\* Whatever the parser makes of a byte, the handler holds what is shown, and
\* commits that.
LEMMA HandlerKept ==
  ASSUME HandlerTyped, SegmentIsHeld, NEW b \in Bytes, FeedByte(b)
  PROVE  HandlerTyped' /\ SegmentIsHeld' /\ CommitsShow'
<1>1. Visible(committed.from)' = Visible(committed.from')
  BY Zenon DEF Visible, LastPiece, FoldLeft, MapThenFoldSet
<1>2. committed' = NoLine => CommitsShow'
  <2> SUFFICES ASSUME committed' = NoLine PROVE CommitsShow'
    OBVIOUS
  <2>1. committed'.line = NoStash BY DEF NoLine
  <2>2. NoStash' = NoStash BY DEF NoStash
  <2> QED BY <2>1, <2>2, Zenon DEF CommitsShow
<1>3. committed' = [line |-> Line, from |-> segment] => CommitsShow'
  <2> SUFFICES ASSUME committed' = [line |-> Line, from |-> segment] PROVE CommitsShow'
    OBVIOUS
  <2>1. committed'.line = Line /\ committed'.from = segment OBVIOUS
  <2>2. Line = Visible(segment) BY DEF SegmentIsHeld
  <2>3. Visible(committed.from') = Visible(segment) BY <2>1
  <2> QED BY <1>1, <2>1, <2>2, <2>3, Zenon DEF CommitsShow
<1>4. CASE Prints(b)
  <2>1. b # "CR" BY <1>4 DEF Prints, Controls
  <2>2. PrintByte(b)
    <3>1. Handle(b) BY DEF FeedByte
    <3>2. ~Executes(b) /\ ~MovesRow(b) BY <1>4 DEF Prints, Executes, MovesRow
    <3> QED BY <1>4, <3>1, <3>2 DEF Handle
  <2>3. committed' = NoLine BY <2>2 DEF PrintByte
  <2> QED BY <1>2, <2>1, <2>2, <2>3, PrintKeeps
<1>5. CASE ~Prints(b) /\ Executes(b) /\ b = "CR"
  <2>1. CarriageReturn
    <3>1. Handle(b) BY DEF FeedByte
    <3>2. b # "LF" /\ ~MovesRow(b) BY <1>5 DEF MovesRow
    <3> QED BY <1>5, <3>1, <3>2 DEF Handle
  <2>2. committed' = NoLine BY <2>1 DEF CarriageReturn
  <2> QED BY <1>2, <2>1, <2>2, ReturnKeeps
<1>6. CASE ~Prints(b) /\ Executes(b) /\ b = "LF"
  <2>1. LineFeed
    <3>1. Handle(b) BY DEF FeedByte
    <3>2. b # "CR" /\ ~MovesRow(b) BY <1>6 DEF MovesRow
    <3> QED BY <1>6, <3>1, <3>2 DEF Handle
  <2>2. HandlerTyped' /\ SegmentIsHeld' BY <2>1, EndedIsEmpty DEF LineFeed
  <2>3. CommitsShow' BY <1>3, <2>1 DEF LineFeed
  <2> QED BY <2>2, <2>3
<1>7. CASE ~Prints(b) /\ ~(Executes(b) /\ b \in {"CR", "LF"}) /\ MovesRow(b)
  <2>1. LeaveRow(b)
    <3>1. Handle(b) BY DEF FeedByte
    <3> QED BY <1>7, <3>1 DEF Handle
  <2>2. HandlerTyped' /\ SegmentIsHeld' BY <2>1, EndedIsEmpty DEF LeaveRow
  <2>3. CommitsShow' BY <1>2, <1>3, <2>1 DEF LeaveRow
  <2> QED BY <2>2, <2>3
<1>8. CASE ~Prints(b) /\ ~(Executes(b) /\ b \in {"CR", "LF"}) /\ ~MovesRow(b)
  <2>1. Silent
    <3>1. Handle(b) BY DEF FeedByte
    <3> QED BY <1>8, <3>1 DEF Handle
  <2>2. HandlerTyped' /\ SegmentIsHeld' BY <2>1, SilenceKeeps DEF Silent
  <2>3. CommitsShow' BY <1>2, <2>1 DEF Silent
  <2> QED BY <2>2, <2>3
<1> QED BY <1>4, <1>5, <1>6, <1>7, <1>8

\* A byte keeps guard, parser and handler in step; no byte keeps them too.
LEMMA LinesKept == LineInv /\ [LineNext]_lineVars => LineInv'
<1> SUFFICES ASSUME LineInv, [LineNext]_lineVars PROVE LineInv'
  OBVIOUS
<1>1. CASE LineNext
  <2>1. PICK b \in Bytes : FeedByte(b) BY <1>1 DEF LineNext
  <2>2. GuardInStep' BY <2>1, GuardKept DEF LineInv
  <2>3. HandlerTyped' /\ SegmentIsHeld' /\ CommitsShow' BY <2>1, HandlerKept DEF LineInv
  <2> QED BY <2>2, <2>3 DEF LineInv
<1>2. CASE UNCHANGED lineVars
  <2>1. GuardInStep' BY <1>2 DEF LineInv, GuardInStep, lineVars, NoString
  <2>2. HandlerTyped' /\ SegmentIsHeld' BY <1>2, SilenceKeeps DEF LineInv, lineVars
  <2>3. committed' = committed BY <1>2 DEF lineVars
  <2>4. Visible(committed.from)' = Visible(committed.from)
    <3>1. Visible(committed.from)' = Visible(committed.from')
      BY Zenon DEF Visible, LastPiece, FoldLeft, MapThenFoldSet
    <3> QED BY <2>3, <3>1
  <2>5. NoStash' = NoStash BY DEF NoStash
  <2>6. CommitsShow' BY <2>3, <2>4, <2>5, Zenon DEF LineInv, CommitsShow
  <2> QED BY <2>1, <2>2, <2>6 DEF LineInv
<1> QED BY <1>1, <1>2

(* The concepts: the scan of a library keeps the first capture, or the      *)
(* first notice before any.                                                 *)
Hit == [at : Nat, capture : BOOLEAN]
NoHit == [at |-> 0, capture |-> FALSE]
Looked(lib, line, found, i) ==
  IF found.capture \/ ~Fires(lib[i], line) THEN found
  ELSE IF lib[i].mode = "capture" THEN [at |-> i, capture |-> TRUE]
  ELSE IF found.at = 0 THEN [at |-> i, capture |-> FALSE] ELSE found
ScanTable(lib, line) == [p \in Hit \X Nat |-> Looked(lib, line, p[1], p[2])]
Firing(lib, line, m, kind) == {i \in 1..m : Fires(lib[i], line) /\ lib[i].mode = kind}
LeastOf(x, S) == x \in S /\ \A y \in S : x <= y
FirstOf(found, lib, line, m) ==
  /\ Firing(lib, line, m, "capture") # {} =>
       found.capture = TRUE /\ LeastOf(found.at, Firing(lib, line, m, "capture"))
  /\ Firing(lib, line, m, "capture") = {} =>
       /\ found.capture = FALSE
       /\ Firing(lib, line, m, "notify") # {} => LeastOf(found.at, Firing(lib, line, m, "notify"))
       /\ Firing(lib, line, m, "notify") = {} => found.at = 0

\* One look more is at a place of the library, or at none.
LEMMA LooksTyped ==
  ASSUME NEW lib, NEW line
  PROVE  /\ NoHit \in Hit /\ ScanTable(lib, line) \in [Hit \X Nat -> Hit]
         /\ \A f \in Hit, i \in Nat :
              /\ Looked(lib, line, f, i) \in Hit
              /\ ScanTable(lib, line)[<<f, i>>] = Looked(lib, line, f, i)
<1>1. ASSUME NEW f \in Hit, NEW i \in Nat PROVE Looked(lib, line, f, i) \in Hit
  <2>1. Looked(lib, line, f, i) \in {f, [at |-> i, capture |-> TRUE], [at |-> i, capture |-> FALSE]}
    BY Zenon DEF Looked
  <2>2. [at |-> i, capture |-> TRUE] \in Hit /\ [at |-> i, capture |-> FALSE] \in Hit BY DEF Hit
  <2> QED BY <2>1, <2>2, Zenon
<1>2. \A x \in Hit \X Nat : x[1] \in Hit /\ x[2] \in Nat OBVIOUS
<1>3. \A x \in Hit \X Nat : Looked(lib, line, x[1], x[2]) \in Hit BY <1>1, <1>2
<1>4. ScanTable(lib, line) \in [Hit \X Nat -> Hit] BY <1>3 DEF ScanTable
<1>5. \A f \in Hit, i \in Nat : <<f, i>> \in Hit \X Nat OBVIOUS
<1>6. \A f \in Hit, i \in Nat : ScanTable(lib, line)[<<f, i>>] = Looked(lib, line, f, i)
  BY <1>5 DEF ScanTable
<1>7. NoHit \in Hit BY DEF Hit, NoHit
<1> QED BY <1>1, <1>4, <1>6, <1>7

\* The scan is a fold of looks.
LEMMA ScanFolds ==
  ASSUME NEW lib, NEW n \in Nat, DOMAIN lib = 1..n, NEW line
  PROVE  \E g : /\ FoldOf(g, ScanTable(lib, line), NoHit, [i \in 1..n |-> i], n, Hit)
                /\ Scan(lib, line) = g[1..n].at
<1> DEFINE q == [i \in 1..n |-> i]
           T == DOMAIN q
           it == CHOOSE f : f = [x \in SUBSET T |->
                   IF x = {} THEN [at |-> 0, capture |-> FALSE]
                   ELSE IF f[x \ {Max(x)}].capture \/ ~Fires(lib[q[Max(x)]], line) THEN f[x \ {Max(x)}]
                   ELSE IF lib[q[Max(x)]].mode = "capture" THEN [at |-> q[Max(x)], capture |-> TRUE]
                   ELSE IF f[x \ {Max(x)}].at = 0 THEN [at |-> q[Max(x)], capture |-> FALSE]
                   ELSE f[x \ {Max(x)}]]
<1>1. T = 1..n /\ q \in [1..n -> Nat] /\ q = [i \in DOMAIN lib |-> i]
  OBVIOUS
<1>2. Scan(lib, line) = it[T].at
  <2> HIDE DEF q
  <2> QED BY ZenonT(30), <1>1 DEF Scan, FoldLeft, MapThenFoldSet
<1> HIDE DEF q
<1>3. \A x \in SUBSET T : x # {} => Max(x) \in x
  <2>1. ASSUME NEW x \in SUBSET T, x # {} PROVE x \in SUBSET (0..n)
    BY <1>1
  <2> QED BY <2>1, MaxOfNats, Zenon
<1> HIDE DEF T
<1> DEFINE op == ScanTable(lib, line)
<1>4. op \in [Hit \X Nat -> Hit] /\ NoHit \in Hit BY LooksTyped
<1> HIDE DEF op
<1>5. PICK g : FoldOf(g, op, NoHit, q, n, Hit)
  BY <1>1, <1>4, FoldExists
<1>6. /\ g \in [SUBSET T -> Hit] /\ g[{}] = NoHit
      /\ \A x \in SUBSET T : x # {} => g[x] = op[<<g[x \ {Max(x)}], q[Max(x)]>>]
  BY <1>1, <1>5 DEF FoldOf
<1>7. ASSUME NEW x \in SUBSET T, x # {} PROVE g[x] = Looked(lib, line, g[x \ {Max(x)}], q[Max(x)])
  <2>1. Max(x) \in T BY <1>3, <1>7
  <2>2. q[Max(x)] \in Nat BY <1>1, <2>1
  <2>3. g[x \ {Max(x)}] \in Hit BY <1>6
  <2> QED BY <1>6, <1>7, <2>2, <2>3, LooksTyped, Zenon DEF op
<1>8. g = [x \in SUBSET T |-> IF x = {} THEN NoHit ELSE Looked(lib, line, g[x \ {Max(x)}], q[Max(x)])]
  <2>1. g = [x \in SUBSET T |-> g[x]] BY <1>6
  <2> QED BY <1>6, <1>7, <2>1
<1>9. g = [x \in SUBSET T |->
                   IF x = {} THEN [at |-> 0, capture |-> FALSE]
                   ELSE IF g[x \ {Max(x)}].capture \/ ~Fires(lib[q[Max(x)]], line) THEN g[x \ {Max(x)}]
                   ELSE IF lib[q[Max(x)]].mode = "capture" THEN [at |-> q[Max(x)], capture |-> TRUE]
                   ELSE IF g[x \ {Max(x)}].at = 0 THEN [at |-> q[Max(x)], capture |-> FALSE]
                   ELSE g[x \ {Max(x)}]]
  BY <1>8, Zenon DEF Looked, NoHit
<1>10. it = [x \in SUBSET T |->
                   IF x = {} THEN [at |-> 0, capture |-> FALSE]
                   ELSE IF it[x \ {Max(x)}].capture \/ ~Fires(lib[q[Max(x)]], line) THEN it[x \ {Max(x)}]
                   ELSE IF lib[q[Max(x)]].mode = "capture" THEN [at |-> q[Max(x)], capture |-> TRUE]
                   ELSE IF it[x \ {Max(x)}].at = 0 THEN [at |-> q[Max(x)], capture |-> FALSE]
                   ELSE it[x \ {Max(x)}]]
  BY <1>9, Zenon
<1> HIDE DEF it
<1>11. it = [x \in SUBSET T |-> IF x = {} THEN NoHit ELSE Looked(lib, line, it[x \ {Max(x)}], q[Max(x)])]
  BY <1>10, Zenon DEF Looked, NoHit
<1>12. it[{}] = NoHit BY <1>11
<1>13. ASSUME NEW x \in SUBSET T, x # {}, it[x \ {Max(x)}] \in Hit
       PROVE  it[x] = op[<<it[x \ {Max(x)}], q[Max(x)]>>]
  <2>1. Max(x) \in T BY <1>3, <1>13
  <2>2. q[Max(x)] \in Nat BY <1>1, <2>1
  <2>3. it[x] = Looked(lib, line, it[x \ {Max(x)}], q[Max(x)]) BY <1>11, <1>13
  <2> QED BY <1>13, <2>2, <2>3, LooksTyped, Zenon DEF op
<1>14. it = [x \in SUBSET T |-> it[x]] BY <1>11, Zenon
<1>15. FoldOf(it, op, NoHit, q, n, Hit)
  BY <1>1, <1>4, <1>12, <1>13, <1>14, FoldIsOf
<1> QED BY <1>1, <1>2, <1>15 DEF op, q

\* A look at the next place keeps the first capture, or the first notice.
LEMMA LookKeepsFirst ==
  ASSUME NEW lib, NEW line, NEW m \in Nat, NEW f \in Hit, FirstOf(f, lib, line, m),
         lib[m + 1].mode \in {"capture", "notify"}
  PROVE  FirstOf(Looked(lib, line, f, m + 1), lib, line, m + 1)
<1> DEFINE C == Firing(lib, line, m, "capture")
           N == Firing(lib, line, m, "notify")
           D == Firing(lib, line, m + 1, "capture")
           O == Firing(lib, line, m + 1, "notify")
           r == Looked(lib, line, f, m + 1)
           fires == Fires(lib[m + 1], line)
<1>1. C \in SUBSET (1..m) /\ N \in SUBSET (1..m) BY DEF Firing
<1>2. \A x \in 1..m + 1 : x \in 1..m \/ x = m + 1 OBVIOUS
<1>3. fires /\ lib[m + 1].mode = "capture" => D = C \cup {m + 1} /\ O = N
  BY <1>2 DEF Firing
<1>4. fires /\ lib[m + 1].mode = "notify" => D = C /\ O = N \cup {m + 1}
  BY <1>2 DEF Firing
<1>5. ~fires => D = C /\ O = N BY <1>2 DEF Firing
<1>6. f.at \in Nat /\ f.capture \in BOOLEAN BY DEF Hit
<1>7. /\ C # {} => f.capture = TRUE /\ LeastOf(f.at, C)
      /\ C = {} => /\ f.capture = FALSE
                   /\ N # {} => LeastOf(f.at, N)
                   /\ N = {} => f.at = 0
  BY Zenon DEF FirstOf
<1> HIDE DEF C, N, D, O
<1> SUFFICES /\ D # {} => r.capture = TRUE /\ LeastOf(r.at, D)
             /\ D = {} => /\ r.capture = FALSE
                          /\ O # {} => LeastOf(r.at, O)
                          /\ O = {} => r.at = 0
  BY Zenon DEF FirstOf, D, O
<1>8. CASE ~fires
  <2>1. r = f BY <1>8, Zenon DEF Looked
  <2> HIDE DEF r
  <2> QED BY <1>5, <1>7, <1>8, <2>1, Zenon
<1>9. CASE fires /\ f.capture = TRUE
  <2>1. r = f BY <1>9, Zenon DEF Looked
  <2>2. C # {} /\ LeastOf(f.at, C)
    <3>1. C # {} BY <1>7, <1>9
    <3> QED BY <1>7, <3>1
  <2>3. D # {} BY <1>3, <1>4, <1>9, <2>2
  <2>4. f.at <= m + 1 /\ \A y \in C : f.at <= y
    <3>1. f.at \in C /\ \A y \in C : f.at <= y BY <2>2 DEF LeastOf
    <3>2. f.at \in 1..m BY <1>1, <3>1
    <3> QED BY <3>1, <3>2
  <2>5. D \in SUBSET (C \cup {m + 1}) /\ C \in SUBSET D BY <1>3, <1>4, <1>9
  <2>6. LeastOf(f.at, D) BY <2>2, <2>4, <2>5 DEF LeastOf
  <2> HIDE DEF r
  <2> QED BY <1>9, <2>1, <2>3, <2>6, Zenon
<1>10. CASE fires /\ f.capture # TRUE /\ lib[m + 1].mode = "capture"
  <2>0. f.capture = FALSE BY <1>6, <1>10
  <2>1. r = [at |-> m + 1, capture |-> TRUE] BY <1>10, <2>0, Zenon DEF Looked
  <2>2. C = {} BY <1>7, <1>10
  <2>3. D = {m + 1} BY <1>3, <1>10, <2>2
  <2>4. r.at = m + 1 /\ r.capture = TRUE BY <2>1
  <2>5. LeastOf(m + 1, {m + 1}) BY DEF LeastOf
  <2> HIDE DEF r
  <2> QED BY <2>3, <2>4, <2>5, Zenon
<1>11. CASE fires /\ f.capture # TRUE /\ lib[m + 1].mode = "notify"
  <2>1. C = {} /\ D = {} BY <1>4, <1>7, <1>11
  <2>2. O = N \cup {m + 1} BY <1>4, <1>11
  <2>3. f.capture = FALSE BY <1>7, <2>1
  <2>4. lib[m + 1].mode # "capture" BY <1>11
  <2>5. CASE N = {}
    <3>1. f.at = 0 BY <1>7, <2>1, <2>5
    <3>2. r = [at |-> m + 1, capture |-> FALSE] BY <1>11, <2>3, <2>4, <3>1, Zenon DEF Looked
    <3>3. r.at = m + 1 /\ r.capture = FALSE BY <3>2
    <3>4. O = {m + 1} BY <2>2, <2>5
    <3>5. LeastOf(m + 1, {m + 1}) BY DEF LeastOf
    <3> HIDE DEF r
    <3> QED BY <2>1, <3>3, <3>4, <3>5, Zenon
  <2>6. CASE N # {}
    <3>1. LeastOf(f.at, N) BY <1>7, <2>1, <2>6
    <3>2. f.at \in 1..m BY <1>1, <3>1 DEF LeastOf
    <3>3. f.at # 0 BY <3>2
    <3>4. r = f BY <1>11, <2>3, <2>4, <3>3, Zenon DEF Looked
    <3>5. f.at <= m + 1 BY <3>2
    <3>6. LeastOf(f.at, O) BY <2>2, <3>1, <3>5 DEF LeastOf
    <3> HIDE DEF r
    <3> QED BY <2>1, <2>2, <2>3, <3>4, <3>6, Zenon
  <2> QED BY <2>5, <2>6
<1> QED BY <1>8, <1>9, <1>10, <1>11

\* The scan of a library chooses as the rule says.
LEMMA ScanChooses ==
  ASSUME NEW lib \in Seq(Concepts), NEW line
  PROVE  LET C == Firing(lib, line, Len(lib), "capture")
             N == Firing(lib, line, Len(lib), "notify")
         IN  Scan(lib, line) = (IF C # {} THEN Min(C) ELSE IF N # {} THEN Min(N) ELSE 0)
<1> DEFINE n == Len(lib)
           q == [i \in 1..n |-> i]
           C == Firing(lib, line, n, "capture")
           N == Firing(lib, line, n, "notify")
<1>1. n \in Nat /\ DOMAIN lib = 1..n OBVIOUS
<1>2. \A m \in 1..n : lib[m].mode \in {"capture", "notify"}
  <2>1. \A m \in 1..n : lib[m] \in Concepts OBVIOUS
  <2>2. \A c \in Concepts : c.mode \in {"capture", "notify"} BY DEF Concepts
  <2> QED BY <2>1, <2>2, Zenon
<1> HIDE DEF n
<1>3. PICK g : FoldOf(g, ScanTable(lib, line), NoHit, q, n, Hit) /\ Scan(lib, line) = g[1..n].at
  BY <1>1, ScanFolds
<1> DEFINE P == {m \in Nat : m <= n => FirstOf(g[1..m], lib, line, m)}
<1>4. 0 \in P
  <2>1. Firing(lib, line, 0, "capture") = {} /\ Firing(lib, line, 0, "notify") = {} BY DEF Firing
  <2>2. 1..0 = {} OBVIOUS
  <2>3. g[{}] = NoHit BY <1>3 DEF FoldOf
  <2>4. NoHit.at = 0 /\ NoHit.capture = FALSE BY DEF NoHit
  <2>5. FirstOf(NoHit, lib, line, 0) BY <2>1, <2>4, Zenon DEF FirstOf
  <2>6. g[1..0] = NoHit BY <2>2, <2>3
  <2> QED BY <2>5, <2>6
<1>5. ASSUME NEW m \in P PROVE m + 1 \in P
  <2> SUFFICES ASSUME m + 1 <= n PROVE FirstOf(g[1..(m + 1)], lib, line, m + 1)
    OBVIOUS
  <2>1. m \in Nat /\ FirstOf(g[1..m], lib, line, m) /\ m + 1 \in 1..n /\ (m + 1) - 1 = m /\ q[m + 1] = m + 1
    BY <1>1
  <2> HIDE DEF P, q
  <2>2. g[1..(m + 1)] = ScanTable(lib, line)[<<g[1..((m + 1) - 1)], q[m + 1]>>]
    BY <1>1, <1>3, <2>1, FoldStep
  <2>3. g[1..m] \in Hit
    <3>1. 1..m \in SUBSET (1..n) BY <1>1, <2>1
    <3> QED BY <1>3, <3>1 DEF FoldOf
  <2>4. g[1..(m + 1)] = ScanTable(lib, line)[<<g[1..m], m + 1>>] BY <2>1, <2>2
  <2>5. m + 1 \in Nat BY <2>1
  <2>6. g[1..(m + 1)] = Looked(lib, line, g[1..m], m + 1) BY <2>3, <2>4, <2>5, LooksTyped, Zenon
  <2>7. FirstOf(Looked(lib, line, g[1..m], m + 1), lib, line, m + 1)
    BY <1>2, <2>1, <2>3, LookKeepsFirst
  <2> QED BY <2>6, <2>7
<1>6. P = Nat BY <1>4, <1>5, InductionOnNats
<1>7. FirstOf(g[1..n], lib, line, n)
  <2>1. n \in P BY <1>1, <1>6
  <2>2. n <= n BY <1>1
  <2> QED BY <2>1, <2>2
<1> DEFINE r == g[1..n]
<1>8. C \in SUBSET Nat /\ N \in SUBSET Nat BY DEF Firing
<1>9. /\ C # {} => LeastOf(r.at, C)
      /\ C = {} => (N # {} => LeastOf(r.at, N)) /\ (N = {} => r.at = 0)
  BY <1>7, Zenon DEF FirstOf
<1> HIDE DEF r, C, N
<1>10. ASSUME NEW S \in SUBSET Nat, NEW x, LeastOf(x, S) PROVE x = Min(S)
  <2>1. x \in S /\ \A y \in S : x <= y BY <1>10 DEF LeastOf
  <2>2. Min(S) \in S /\ \A y \in S : Min(S) <= y BY <2>1 DEF Min
  <2>3. x \in Nat /\ Min(S) \in Nat /\ x <= Min(S) /\ Min(S) <= x BY <2>1, <2>2
  <2> QED BY <2>3
<1>11. Scan(lib, line) = r.at BY <1>3 DEF r
<1>12. Scan(lib, line) = (IF C # {} THEN Min(C) ELSE IF N # {} THEN Min(N) ELSE 0)
  <2>1. CASE C # {}
    <3>1. r.at = Min(C) BY <1>8, <1>9, <1>10, <2>1
    <3> QED BY <1>11, <2>1, <3>1
  <2>2. CASE C = {} /\ N # {}
    <3>1. r.at = Min(N) BY <1>8, <1>9, <1>10, <2>2
    <3> QED BY <1>11, <2>2, <3>1
  <2>3. CASE C = {} /\ N = {}
    <3>1. r.at = 0 BY <1>9, <2>3
    <3> QED BY <1>11, <2>3, <3>1
  <2> QED BY <2>1, <2>2, <2>3
<1> QED BY <1>12 DEF C, N, n

(* What matching holds: a gate that has every trigger it might pass over,    *)
(* and a verdict by the rule.                                                *)
MatchInv ==
  /\ library \in Seq(Concepts)
  /\ gate \in {NoGate, EnabledTriggers(library)}
  /\ CaptureOutranksNotify

\* A gate lets pass every line that a concept behind it takes.
LEMMA GateLetsPass ==
  ASSUME library \in Seq(Concepts), gate \in {NoGate, EnabledTriggers(library)}, NEW line, ~Passes(line),
         NEW kind
  PROVE  Firing(library, line, Len(library), kind) = {}
<1> SUFFICES ASSUME NEW i \in 1..Len(library), Fires(library[i], line) PROVE FALSE
  BY DEF Firing
<1>1. gate = EnabledTriggers(library) /\ gate \cap line = {} BY DEF Passes
<1>2. DOMAIN library = 1..Len(library) OBVIOUS
<1>3. library[i].enabled /\ library[i].trigger \in line BY DEF Fires
<1>4. i \in {j \in DOMAIN library : library[j].enabled} BY <1>2, <1>3
<1>5. library[i].trigger \in EnabledTriggers(library) BY <1>4, Zenon DEF EnabledTriggers
<1> QED BY <1>1, <1>3, <1>5

\* A line is given to the concept the rule names, through a gate or without.
LEMMA VerdictsFollow ==
  MatchInv /\ [MatchNext]_matchVars => MatchInv'
<1> SUFFICES ASSUME MatchInv, MatchNext \/ UNCHANGED matchVars PROVE MatchInv'
  OBVIOUS
<1>1. ASSUME NEW lib \in Seq(Concepts), LoadConcepts(lib) PROVE MatchInv'
  <2>1. library' \in Seq(Concepts) BY <1>1 DEF LoadConcepts
  <2>2. gate' \in {NoGate, EnabledTriggers(lib)} BY <1>1 DEF LoadConcepts
  <2>3. EnabledTriggers(library)' = EnabledTriggers(lib) BY <1>1 DEF LoadConcepts, EnabledTriggers
  <2>4. NoGate' = NoGate BY DEF NoGate
  <2>5. verdict'.asked = FALSE BY <1>1 DEF LoadConcepts, NoVerdict
  <2>6. CaptureOutranksNotify' BY <2>5, Zenon DEF CaptureOutranksNotify
  <2> QED BY <2>1, <2>2, <2>3, <2>4, <2>6 DEF MatchInv
<1>2. ASSUME NEW line \in SUBSET Patterns, MatchLine(line) PROVE MatchInv'
  <2>1. library' = library /\ gate' = gate BY <1>2 DEF MatchLine
  <2>2. verdict'.line = line /\ verdict'.at = IF Passes(line) THEN Scan(library, line) ELSE 0
    BY <1>2 DEF MatchLine
  <2> DEFINE C == Firing(library, line, Len(library), "capture")
             N == Firing(library, line, Len(library), "notify")
  <2>3. library \in Seq(Concepts) /\ gate \in {NoGate, EnabledTriggers(library)} BY DEF MatchInv
  <2>4. verdict'.at = (IF C # {} THEN Min(C) ELSE IF N # {} THEN Min(N) ELSE 0)
    <3>1. CASE Passes(line) BY <2>2, <2>3, <3>1, ScanChooses
    <3>2. CASE ~Passes(line)
      <4>1. C = {} /\ N = {} BY <2>3, <3>2, GateLetsPass
      <4> HIDE DEF C, N
      <4> QED BY <2>2, <3>2, <4>1
    <3> QED BY <3>1, <3>2
  <2>5. DOMAIN library = 1..Len(library) BY <2>3
  <2>6. Candidates("capture")' = C /\ Candidates("notify")' = N
    BY <2>1, <2>2, <2>5 DEF Candidates, Firing, Fires
  <2>7. CaptureOutranksNotify' BY <2>4, <2>6, Zenon DEF CaptureOutranksNotify
  <2>8. EnabledTriggers(library)' = EnabledTriggers(library) BY <2>1 DEF EnabledTriggers
  <2> QED BY <2>1, <2>3, <2>7, <2>8 DEF MatchInv, NoGate
<1>3. CASE UNCHANGED matchVars
  BY <1>3 DEF matchVars, MatchInv, NoGate, EnabledTriggers, CaptureOutranksNotify, Candidates, Fires
<1>4. <<>> \in Seq(Concepts) OBVIOUS
<1>5. \A c \in Concepts : library \in Seq(Concepts) => Append(library, c) \in Seq(Concepts) OBVIOUS
<1>6. library \in Seq(Concepts) BY DEF MatchInv
<1> QED BY <1>1, <1>2, <1>3, <1>4, <1>5, <1>6 DEF MatchNext

\* For any caps, any stream of bytes and any library, a line that is committed
\* is what the screen would show of its segment, the guard's bell falls only
\* into an open string, and a line goes to the first capture it fires, else to
\* the first notice (escstring.rs, parser.rs, concept.rs).
THEOREM LinesArePlaced == MCSpec => []LinesReachTheirConcept
<1>1. MCInit => LineInv /\ MatchInv
  <2>1. MatchInit => MatchInv
    BY DEF MatchInit, MatchInv, NoVerdict, CaptureOutranksNotify
  <2> QED BY <2>1, LineStarts DEF MCInit
<1>2. [MCNext]_mcVars => [LineNext]_lineVars /\ [MatchNext]_matchVars
  BY DEF MCNext, mcVars, InProcess, InScreen, InLines, InConcepts, InWindow, InTiles
<1>3. LineInv /\ MatchInv => LinesReachTheirConcept
  BY DEF LineInv, GuardInStep, CommitsShow, MatchInv, LinesReachTheirConcept, LinesAreWhatIsShown
<1> QED BY <1>1, <1>2, <1>3, LinesKept, VerdictsFollow, PTL DEF MCSpec

(***************************************************************************)
(* Tiles that share the grid                                               *)
(***************************************************************************)

(* A rectangle is where it is and how far it goes on both axes; a tile keeps *)
(* within the grid, now and as the press saved it.                           *)
Placed(t) == t.at \in [Axes -> Int] /\ t.span \in [Axes -> Int]
OnGrid(t) ==
  /\ t.at \in [Axes -> 0..Grid-1] /\ t.span \in [Axes -> 1..Grid]
  /\ \A axis \in Axes : FarEnd(t, axis) <= Grid
Outlines == {r \in Rectangles : OnGrid(r)}
TileSet ==
  {t \in [at : [Axes -> 0..Grid-1], span : [Axes -> 1..Grid], was : {Unsaved} \cup {<<r>> : r \in Outlines}] :
     OnGrid(t)}

(* The cell u along an axis and v across it. *)
CellAt(axis, u, v) == IF axis = "x" THEN <<u, v>> ELSE <<v, u>>
Covers(t, axis, u, v) ==
  /\ t.at[axis] <= u /\ u < FarEnd(t, axis)
  /\ t.at[Across(axis)] <= v /\ v < FarEnd(t, Across(axis))

(* Tiles that have no cell in common and together have those of a board. *)
Share(ts, B) ==
  /\ \A i, j \in DOMAIN ts : i # j => Cells(ts[i]) \cap Cells(ts[j]) = {}
  /\ Occupied(ts) = B

\* Every cell is one along and across an axis.
LEMMA CellsAreCrossings ==
  ASSUME NEW axis \in Axes
  PROVE  /\ \A p \in Int \X Int : \E u, v \in Int : p = CellAt(axis, u, v)
         /\ \A u, v \in Int : CellAt(axis, u, v) \in Int \X Int
  <1>1. CASE axis = "x"
    BY <1>1 DEF CellAt
  <1>2. CASE axis = "y"
    BY <1>2 DEF CellAt
  <1>3. QED
    BY <1>1, <1>2 DEF Axes

\* The cells of a tile, along and across an axis.
LEMMA CellsOfTile ==
  ASSUME NEW t, Placed(t), NEW axis \in Axes, NEW u \in Int, NEW v \in Int
  PROVE  CellAt(axis, u, v) \in Cells(t) <=> Covers(t, axis, u, v)
  <1>1. PICK L1, R1, L2, R2 \in Int :
          /\ L1 = t.at["x"] /\ R1 = FarEnd(t, "x")
          /\ L2 = t.at["y"] /\ R2 = FarEnd(t, "y")
    BY DEF Placed, Axes, FarEnd
  <1>2. Cells(t) = (L1..R1-1) \X (L2..R2-1)
    BY <1>1 DEF Cells
  <1>3. \A a, b \in Int : <<a, b>> \in Cells(t) <=> L1 <= a /\ a < R1 /\ L2 <= b /\ b < R2
    BY <1>2
  <1>4. CASE axis = "x"
    <2>1. CellAt(axis, u, v) = <<u, v>> /\ Across(axis) = "y"
      BY <1>4 DEF CellAt, Across
    <2>2. QED
      BY <1>1, <1>3, <1>4, <2>1 DEF Covers
  <1>5. CASE axis = "y"
    <2>1. CellAt(axis, u, v) = <<v, u>> /\ Across(axis) = "x"
      BY <1>5 DEF CellAt, Across
    <2>2. QED
      BY <1>1, <1>3, <1>5, <2>1 DEF Covers
  <1>6. QED
    BY <1>4, <1>5 DEF Axes

\* Cells are pairs of numbers.
LEMMA CellsArePairs ==
  ASSUME NEW t, Placed(t)
  PROVE  Cells(t) \subseteq Int \X Int
  <1>1. PICK L1, R1, L2, R2 \in Int :
          /\ L1 = t.at["x"] /\ R1 = FarEnd(t, "x")
          /\ L2 = t.at["y"] /\ R2 = FarEnd(t, "y")
    BY DEF Placed, Axes, FarEnd
  <1>2. Cells(t) = (L1..R1-1) \X (L2..R2-1)
    BY <1>1 DEF Cells
  <1>3. QED
    BY <1>2

\* Sets of cells that agree on every crossing are equal.
LEMMA SameCells ==
  ASSUME NEW axis \in Axes, NEW S \in SUBSET (Int \X Int), NEW T \in SUBSET (Int \X Int),
         \A u, v \in Int : CellAt(axis, u, v) \in S <=> CellAt(axis, u, v) \in T
  PROVE  S = T
  <1>1. ASSUME NEW p \in Int \X Int PROVE p \in S <=> p \in T
    <2>1. PICK u, v \in Int : p = CellAt(axis, u, v)
      BY CellsAreCrossings
    <2>2. QED
      BY <2>1
  <1>2. QED
    BY <1>1

\* A tile of the grid has its cells on the board, and it has some.
LEMMA TileOnBoard ==
  ASSUME NEW t, OnGrid(t)
  PROVE  Placed(t) /\ Cells(t) \subseteq Board /\ Cells(t) # {}
  <1>1. Grid \in Nat
    BY TilesAssumption
  <1>2. Placed(t)
    BY <1>1 DEF OnGrid, Placed
  <1>3. PICK L1, R1, L2, R2 \in Int :
          /\ L1 = t.at["x"] /\ R1 = FarEnd(t, "x") /\ 0 <= L1 /\ L1 < R1 /\ R1 <= Grid
          /\ L2 = t.at["y"] /\ R2 = FarEnd(t, "y") /\ 0 <= L2 /\ L2 < R2 /\ R2 <= Grid
    BY <1>1 DEF OnGrid, Axes, FarEnd
  <1>4. Cells(t) = (L1..R1-1) \X (L2..R2-1)
    BY <1>3 DEF Cells
  <1>5. <<L1, L2>> \in Cells(t)
    BY <1>3, <1>4
  <1>6. L1..R1-1 \subseteq 0..Grid-1 /\ L2..R2-1 \subseteq 0..Grid-1
    BY <1>1, <1>3
  <1>7. QED
    BY <1>2, <1>4, <1>5, <1>6 DEF Board

\* The crossings of the board.
LEMMA BoardCrossings ==
  ASSUME NEW axis \in Axes, NEW u \in Int, NEW v \in Int
  PROVE  CellAt(axis, u, v) \in Board <=> u \in 0..Grid-1 /\ v \in 0..Grid-1
  <1>1. Grid \in Nat
    BY TilesAssumption
  <1>2. CASE axis = "x"
    BY <1>1, <1>2 DEF CellAt, Board
  <1>3. CASE axis = "y"
    BY <1>1, <1>3 DEF CellAt, Board
  <1>4. QED
    BY <1>2, <1>3 DEF Axes

\* What shares the grid, cell by cell along an axis.
LEMMA ShareByCrossings ==
  ASSUME NEW ts, \A i \in DOMAIN ts : Placed(ts[i]), NEW B, NEW axis \in Axes, Share(ts, B),
         NEW u \in Int, NEW v \in Int
  PROVE  /\ \A i, j \in DOMAIN ts : Covers(ts[i], axis, u, v) /\ Covers(ts[j], axis, u, v) => i = j
         /\ CellAt(axis, u, v) \in B <=> \E i \in DOMAIN ts : Covers(ts[i], axis, u, v)
  <1>1. PICK p : p = CellAt(axis, u, v)
    OBVIOUS
  <1>2. \A i \in DOMAIN ts : p \in Cells(ts[i]) <=> Covers(ts[i], axis, u, v)
    BY <1>1, CellsOfTile
  <1>3. \A i, j \in DOMAIN ts : p \in Cells(ts[i]) /\ p \in Cells(ts[j]) => i = j
    BY DEF Share
  <1>4. p \in B <=> \E i \in DOMAIN ts : p \in Cells(ts[i])
    BY DEF Share, Occupied
  <1>5. QED
    BY <1>1, <1>2, <1>3, <1>4

\* And the other way round.
LEMMA CrossingsShare ==
  ASSUME NEW ts, \A i \in DOMAIN ts : Placed(ts[i]), NEW B \in SUBSET (Int \X Int), NEW axis \in Axes,
         \A u, v \in Int :
           /\ \A i, j \in DOMAIN ts : Covers(ts[i], axis, u, v) /\ Covers(ts[j], axis, u, v) => i = j
           /\ CellAt(axis, u, v) \in B <=> \E i \in DOMAIN ts : Covers(ts[i], axis, u, v)
  PROVE  Share(ts, B)
  <1>1. \A i \in DOMAIN ts : Cells(ts[i]) \subseteq Int \X Int
    BY CellsArePairs
  <1>2. \A u, v \in Int : \A i \in DOMAIN ts : CellAt(axis, u, v) \in Cells(ts[i]) <=> Covers(ts[i], axis, u, v)
    BY CellsOfTile
  <1>3. \A i, j \in DOMAIN ts : i # j => Cells(ts[i]) \cap Cells(ts[j]) = {}
    <2>1. SUFFICES ASSUME NEW i \in DOMAIN ts, NEW j \in DOMAIN ts, NEW p, p \in Cells(ts[i]), p \in Cells(ts[j])
                   PROVE  i = j
      OBVIOUS
    <2>2. PICK u, v \in Int : p = CellAt(axis, u, v)
      BY <1>1, <2>1, CellsAreCrossings
    <2>3. QED
      BY <1>2, <2>1, <2>2
  <1>4. Occupied(ts) = B
    <2>1. Occupied(ts) \in SUBSET (Int \X Int)
      BY <1>1 DEF Occupied
    <2>2. \A u, v \in Int : CellAt(axis, u, v) \in Occupied(ts) <=> CellAt(axis, u, v) \in B
      BY <1>2 DEF Occupied
    <2>3. QED
      BY <2>1, <2>2, SameCells, Zenon
  <1>5. QED
    BY <1>3, <1>4 DEF Share

(***************************************************************************)
(* A split                                                                 *)
(***************************************************************************)

\* One tile's cells shared between two.
LEMMA TwoForOne ==
  ASSUME NEW ts, NEW n \in Nat, DOMAIN ts = 1..n, NEW i \in 1..n, NEW B, Share(ts, B),
         NEW us, DOMAIN us = 1..(n + 1), \A k \in 1..n : k # i => Cells(us[k]) = Cells(ts[k]),
         Cells(us[i]) \cup Cells(us[n + 1]) = Cells(ts[i]), Cells(us[i]) \cap Cells(us[n + 1]) = {}
  PROVE  Share(us, B)
  <1>1. PICK C : C = [k \in 1..n |-> Cells(ts[k])]
    OBVIOUS
  <1>2. PICK D : D = [k \in 1..(n + 1) |-> Cells(us[k])]
    OBVIOUS
  <1>3. \A j, k \in 1..n : j # k => C[j] \cap C[k] = {}
    BY <1>1 DEF Share
  <1>4. /\ \A k \in 1..n : k # i => D[k] = C[k]
        /\ D[i] \cup D[n + 1] = C[i] /\ D[i] \cap D[n + 1] = {}
    BY <1>1, <1>2
  <1>5. B = UNION {C[k] : k \in 1..n}
    BY <1>1 DEF Share, Occupied
  <1>6. 1..(n + 1) = (1..n) \cup {n + 1} /\ n + 1 \notin 1..n
    OBVIOUS
  <1>7. \A j, k \in 1..(n + 1) : j # k => D[j] \cap D[k] = {}
    BY <1>3, <1>4, <1>6
  <1>8. B = UNION {D[k] : k \in 1..(n + 1)}
    <2>1. ASSUME NEW p PROVE (\E k \in 1..n : p \in C[k]) <=> (\E k \in 1..(n + 1) : p \in D[k])
      BY <1>4, <1>6
    <2>2. QED
      BY <1>5, <2>1
  <1>9. QED
    BY <1>2, <1>7, <1>8 DEF Share, Occupied

\* A part of an outline, along one axis, keeps within the grid.
LEMMA PartOnGrid ==
  ASSUME NEW A \in [Axes -> 0..Grid-1], NEW S \in [Axes -> 1..Grid], \A a \in Axes : A[a] + S[a] <= Grid,
         NEW axis \in Axes, NEW m \in Int, NEW w \in Int, A[axis] <= m, 1 <= w, m + w <= A[axis] + S[axis],
         NEW P, P = [A EXCEPT ![axis] = m], NEW Q, Q = [S EXCEPT ![axis] = w]
  PROVE  P \in [Axes -> 0..Grid-1] /\ Q \in [Axes -> 1..Grid] /\ \A a \in Axes : P[a] + Q[a] <= Grid
  <1>1. Grid \in Nat
    BY TilesAssumption
  <1>2. P = [a \in Axes |-> IF a = axis THEN m ELSE A[a]] /\ Q = [a \in Axes |-> IF a = axis THEN w ELSE S[a]]
    OBVIOUS
  <1>3. m \in 0..Grid-1 /\ w \in 1..Grid /\ m + w <= Grid
    <2>1. A[axis] \in Int /\ 0 <= A[axis] /\ S[axis] \in Int /\ A[axis] + S[axis] <= Grid
      BY <1>1
    <2>2. QED
      BY <1>1, <2>1
  <1>4. QED
    BY <1>2, <1>3

\* The tiles after a split: two in the place of one.
LEMMA SplitTiles ==
  ASSUME NEW ts \in Seq(TileSet), NEW i \in DOMAIN ts, NEW axis \in Axes, NEW newFirst \in BOOLEAN,
         NEW half \in Int, half = Half(ts[i].span[axis]), 1 <= half, half < ts[i].span[axis]
  PROVE  LET us == Split(ts, i, axis, newFirst)  n == Len(ts)
             rest == ts[i].span[axis] - half IN
         /\ us \in Seq(TileSet) /\ Len(us) = n + 1
         /\ \A k \in 1..n : k # i => us[k] = ts[k]
         /\ \A k \in {i, n + 1} :
              /\ us[k].at[Across(axis)] = ts[i].at[Across(axis)]
              /\ us[k].span[Across(axis)] = ts[i].span[Across(axis)]
         /\ us[i].span[axis] = half /\ us[n + 1].span[axis] = rest
         /\ us[i].at[axis] = IF newFirst THEN ts[i].at[axis] + rest ELSE ts[i].at[axis]
         /\ us[n + 1].at[axis] = IF newFirst THEN ts[i].at[axis] ELSE ts[i].at[axis] + half
         /\ us[i].was = ts[i].was /\ us[n + 1].was = Unsaved
  <1> DEFINE us == Split(ts, i, axis, newFirst)
             n == Len(ts)
             rest == ts[i].span[axis] - half
             old == ts[i]
             kept == [old EXCEPT !.at = IF newFirst THEN [old.at EXCEPT ![axis] = @ + rest] ELSE old.at,
                                 !.span = [old.span EXCEPT ![axis] = half]]
             new == Tile(IF newFirst THEN old.at ELSE [old.at EXCEPT ![axis] = @ + half],
                         [old.span EXCEPT ![axis] = rest])
  <1>1. us = Append([ts EXCEPT ![i] = kept], new)
    BY DEF Split
  <1>2. old \in TileSet
    OBVIOUS
  <1>3. /\ old.at \in [Axes -> 0..Grid-1] /\ old.span \in [Axes -> 1..Grid]
        /\ \A a \in Axes : old.at[a] + old.span[a] <= Grid
        /\ old.was \in {Unsaved} \cup {<<r>> : r \in Outlines}
    BY <1>2 DEF TileSet, OnGrid, FarEnd
  <1>4. rest \in Int /\ 1 <= rest /\ rest + half = old.span[axis] /\ Grid \in Nat
    BY <1>3, TilesAssumption
  <1>5. Across(axis) \in Axes /\ Across(axis) # axis /\ \A a \in Axes : a = axis \/ a = Across(axis)
    BY DEF Across, Axes
  <1>6. /\ kept \in TileSet /\ kept.was = old.was
        /\ kept.span = [old.span EXCEPT ![axis] = half]
        /\ kept.at = IF newFirst THEN [old.at EXCEPT ![axis] = @ + rest] ELSE old.at
    <2>1. PICK at : at = IF newFirst THEN [old.at EXCEPT ![axis] = @ + rest] ELSE old.at
      OBVIOUS
    <2>2. PICK span : span = [old.span EXCEPT ![axis] = half]
      OBVIOUS
    <2>3. at \in [Axes -> 0..Grid-1] /\ span \in [Axes -> 1..Grid] /\ \A a \in Axes : at[a] + span[a] <= Grid
      <3>1. PICK A, S : A = old.at /\ S = old.span
        OBVIOUS
      <3>2. /\ A \in [Axes -> 0..Grid-1] /\ S \in [Axes -> 1..Grid] /\ \A a \in Axes : A[a] + S[a] <= Grid
            /\ rest \in Int /\ 1 <= rest /\ rest + half = S[axis]
        BY <1>3, <1>4, <3>1
      <3>3. PICK m \in Int : m = IF newFirst THEN A[axis] + rest ELSE A[axis]
        BY <1>4, <3>2
      <3>4. at = IF newFirst THEN [A EXCEPT ![axis] = @ + rest] ELSE A
        BY <2>1, <3>1, Zenon
      <3> HIDE DEF old, rest
      <3>5. at = [A EXCEPT ![axis] = m]
        BY <3>2, <3>3, <3>4
      <3>6. A[axis] <= m /\ m + half <= A[axis] + S[axis]
        <4>1. PICK p, q \in Int : p = A[axis] /\ q = S[axis]
          BY <1>4, <3>2
        <4>2. 1 <= rest /\ rest \in Int /\ rest + half = q /\ m = IF newFirst THEN p + rest ELSE p
          BY <3>2, <3>3, <4>1
        <4>3. p <= m /\ m + half <= p + q
          BY <4>2
        <4>4. QED
          BY <4>1, <4>3
      <3>7. span = [S EXCEPT ![axis] = half]
        BY <2>2, <3>1
      <3>8. QED
        BY <3>2, <3>5, <3>6, <3>7, PartOnGrid
    <2>4. old \in [at : [Axes -> 0..Grid-1], span : [Axes -> 1..Grid], was : {Unsaved} \cup {<<r>> : r \in Outlines}]
      BY <1>2 DEF TileSet
    <2>5. kept = [old EXCEPT !.at = at, !.span = span]
      BY <2>1, <2>2
    <2> HIDE DEF kept, old
    <2>6. kept = [at |-> at, span |-> span, was |-> old.was]
      BY <2>4, <2>5
    <2>7. QED
      BY <1>3, <2>1, <2>2, <2>3, <2>6 DEF TileSet, OnGrid, FarEnd
  <1>7. /\ new \in TileSet /\ new.was = Unsaved /\ new.span = [old.span EXCEPT ![axis] = rest]
        /\ new.at = IF newFirst THEN old.at ELSE [old.at EXCEPT ![axis] = @ + half]
    <2>1. PICK at : at = IF newFirst THEN old.at ELSE [old.at EXCEPT ![axis] = @ + half]
      OBVIOUS
    <2>2. PICK span : span = [old.span EXCEPT ![axis] = rest]
      OBVIOUS
    <2>3. at \in [Axes -> 0..Grid-1] /\ span \in [Axes -> 1..Grid] /\ \A a \in Axes : at[a] + span[a] <= Grid
      <3>1. PICK A, S : A = old.at /\ S = old.span
        OBVIOUS
      <3>2. /\ A \in [Axes -> 0..Grid-1] /\ S \in [Axes -> 1..Grid] /\ \A a \in Axes : A[a] + S[a] <= Grid
            /\ rest \in Int /\ 1 <= rest /\ rest + half = S[axis]
        BY <1>3, <1>4, <3>1
      <3>3. PICK m \in Int : m = IF newFirst THEN A[axis] ELSE A[axis] + half
        BY <1>4, <3>2
      <3>4. at = IF newFirst THEN A ELSE [A EXCEPT ![axis] = @ + half]
        BY <2>1, <3>1, Zenon
      <3>5. span = [S EXCEPT ![axis] = rest]
        BY <2>2, <3>1
      <3> HIDE DEF old, rest
      <3>6. at = [A EXCEPT ![axis] = m]
        BY <3>2, <3>3, <3>4
      <3>7. A[axis] <= m /\ m + rest <= A[axis] + S[axis]
        <4>1. PICK p, q \in Int : p = A[axis] /\ q = S[axis]
          BY <1>4, <3>2
        <4>2. 1 <= rest /\ rest \in Int /\ rest + half = q /\ m = IF newFirst THEN p ELSE p + half
          BY <3>2, <3>3, <4>1
        <4>3. p <= m /\ m + rest <= p + q
          BY <4>2
        <4>4. QED
          BY <4>1, <4>3
      <3>8. QED
        BY <3>2, <3>5, <3>6, <3>7, PartOnGrid
    <2>4. new = [at |-> at, span |-> span, was |-> Unsaved]
      BY <2>1, <2>2 DEF Tile
    <2> HIDE DEF new, old
    <2>5. QED
      BY <2>1, <2>2, <2>3, <2>4 DEF TileSet, OnGrid, FarEnd
  <1> HIDE DEF us, kept, new
  <1>8. /\ us \in Seq(TileSet) /\ Len(us) = n + 1 /\ us[i] = kept /\ us[n + 1] = new
        /\ \A k \in 1..n : k # i => us[k] = ts[k]
    BY <1>1, <1>6, <1>7
  <1>9. /\ us[i].span[axis] = half /\ us[i].span[Across(axis)] = old.span[Across(axis)]
        /\ us[i].at[axis] = (IF newFirst THEN old.at[axis] + rest ELSE old.at[axis])
        /\ us[i].at[Across(axis)] = old.at[Across(axis)]
    BY <1>3, <1>5, <1>6, <1>8
  <1>10. /\ us[n + 1].span[axis] = rest /\ us[n + 1].span[Across(axis)] = old.span[Across(axis)]
         /\ us[n + 1].at[axis] = (IF newFirst THEN old.at[axis] ELSE old.at[axis] + half)
         /\ us[n + 1].at[Across(axis)] = old.at[Across(axis)]
    BY <1>3, <1>5, <1>7, <1>8
  <1>11. us[i].was = ts[i].was /\ us[n + 1].was = Unsaved
    BY <1>6, <1>7, <1>8
  <1>12. QED
    BY <1>8, <1>9, <1>10, <1>11 DEF us

\* A split keeps the grid shared.
LEMMA SplitShares ==
  ASSUME NEW ts \in Seq(TileSet), NEW i \in DOMAIN ts, NEW axis \in Axes, NEW newFirst \in BOOLEAN,
         NEW half \in Int, half = Half(ts[i].span[axis]), 1 <= half, half < ts[i].span[axis],
         NEW B, Share(ts, B)
  PROVE  Share(Split(ts, i, axis, newFirst), B)
  <1>1. PICK us : us = Split(ts, i, axis, newFirst)
    OBVIOUS
  <1>2. PICK n \in Nat : n = Len(ts) /\ DOMAIN ts = 1..n
    OBVIOUS
  <1>3. PICK rest : rest = ts[i].span[axis] - half
    OBVIOUS
  <1>4. /\ us \in Seq(TileSet) /\ Len(us) = n + 1
        /\ \A k \in 1..n : k # i => us[k] = ts[k]
        /\ \A k \in {i, n + 1} :
             /\ us[k].at[Across(axis)] = ts[i].at[Across(axis)]
             /\ us[k].span[Across(axis)] = ts[i].span[Across(axis)]
        /\ us[i].span[axis] = half /\ us[n + 1].span[axis] = rest
        /\ us[i].at[axis] = (IF newFirst THEN ts[i].at[axis] + rest ELSE ts[i].at[axis])
        /\ us[n + 1].at[axis] = (IF newFirst THEN ts[i].at[axis] ELSE ts[i].at[axis] + half)
    <2>1. PICK k, other : k \in Nat /\ k = Len(ts) /\ other = ts[i].span[axis] - half
      OBVIOUS
    <2>2. LET split == Split(ts, i, axis, newFirst) IN
          /\ split \in Seq(TileSet) /\ Len(split) = k + 1
          /\ \A j \in 1..k : j # i => split[j] = ts[j]
          /\ \A j \in {i, k + 1} :
               /\ split[j].at[Across(axis)] = ts[i].at[Across(axis)]
               /\ split[j].span[Across(axis)] = ts[i].span[Across(axis)]
          /\ split[i].span[axis] = half /\ split[k + 1].span[axis] = other
          /\ split[i].at[axis] = (IF newFirst THEN ts[i].at[axis] + other ELSE ts[i].at[axis])
          /\ split[k + 1].at[axis] = (IF newFirst THEN ts[i].at[axis] ELSE ts[i].at[axis] + half)
      BY <2>1, SplitTiles
    <2>3. k = n /\ other = rest
      BY <1>2, <1>3, <2>1
    <2>4. QED
      BY <1>1, <2>2, <2>3
  <1>5. i \in 1..n /\ DOMAIN us = 1..(n + 1) /\ ts[i] \in TileSet /\ us[i] \in TileSet /\ us[n + 1] \in TileSet
    BY <1>2, <1>4
  <1>6. Placed(ts[i]) /\ Placed(us[i]) /\ Placed(us[n + 1])
    BY <1>5, TileOnBoard DEF TileSet
  <1>7. PICK L, W, D, H \in Int : L = ts[i].at[axis] /\ W = ts[i].span[axis]
                               /\ D = ts[i].at[Across(axis)] /\ H = ts[i].span[Across(axis)]
    BY <1>6 DEF Placed, Across, Axes
  <1>8. ASSUME NEW u \in Int, NEW v \in Int
        PROVE  /\ Covers(ts[i], axis, u, v) <=> Covers(us[i], axis, u, v) \/ Covers(us[n + 1], axis, u, v)
               /\ ~ (Covers(us[i], axis, u, v) /\ Covers(us[n + 1], axis, u, v))
    <2>1. Covers(ts[i], axis, u, v) <=> L <= u /\ u < L + W /\ D <= v /\ v < D + H
      BY <1>7 DEF Covers, FarEnd
    <2>2. Covers(us[i], axis, u, v) <=>
            IF newFirst THEN L + rest <= u /\ u < L + rest + half /\ D <= v /\ v < D + H
                        ELSE L <= u /\ u < L + half /\ D <= v /\ v < D + H
      BY <1>4, <1>7 DEF Covers, FarEnd
    <2>3. Covers(us[n + 1], axis, u, v) <=>
            IF newFirst THEN L <= u /\ u < L + rest /\ D <= v /\ v < D + H
                        ELSE L + half <= u /\ u < L + half + rest /\ D <= v /\ v < D + H
      BY <1>4, <1>7 DEF Covers, FarEnd
    <2>4. rest = W - half /\ 1 <= half /\ half < W
      BY <1>3, <1>7
    <2>5. CASE newFirst
      BY <2>1, <2>2, <2>3, <2>4, <2>5
    <2>6. CASE ~newFirst
      BY <2>1, <2>2, <2>3, <2>4, <2>6
    <2>7. QED
      BY <2>5, <2>6
  <1>9. \A u, v \in Int : /\ CellAt(axis, u, v) \in Cells(ts[i]) <=> Covers(ts[i], axis, u, v)
                          /\ CellAt(axis, u, v) \in Cells(us[i]) <=> Covers(us[i], axis, u, v)
                          /\ CellAt(axis, u, v) \in Cells(us[n + 1]) <=> Covers(us[n + 1], axis, u, v)
    BY <1>6, CellsOfTile
  <1>10. /\ Cells(ts[i]) \in SUBSET (Int \X Int) /\ Cells(us[i]) \cup Cells(us[n + 1]) \in SUBSET (Int \X Int)
         /\ Cells(us[i]) \cap Cells(us[n + 1]) \in SUBSET (Int \X Int) /\ {} \in SUBSET (Int \X Int)
    BY <1>6, CellsArePairs
  <1>11. Cells(us[i]) \cup Cells(us[n + 1]) = Cells(ts[i])
    <2>1. PICK S, T : S = Cells(us[i]) \cup Cells(us[n + 1]) /\ T = Cells(ts[i])
      OBVIOUS
    <2>2. \A u, v \in Int : CellAt(axis, u, v) \in S <=> CellAt(axis, u, v) \in T
      BY <1>8, <1>9, <2>1
    <2>3. S \in SUBSET (Int \X Int) /\ T \in SUBSET (Int \X Int)
      BY <1>10, <2>1, Zenon
    <2>4. S = T
      BY <2>2, <2>3, SameCells
    <2>5. QED
      BY <2>1, <2>4
  <1>12. Cells(us[i]) \cap Cells(us[n + 1]) = {}
    <2>1. PICK S, T : S = Cells(us[i]) \cap Cells(us[n + 1]) /\ T = {}
      OBVIOUS
    <2>2. \A u, v \in Int : CellAt(axis, u, v) \in S <=> CellAt(axis, u, v) \in T
      BY <1>8, <1>9, <2>1
    <2>3. S \in SUBSET (Int \X Int) /\ T \in SUBSET (Int \X Int)
      BY <1>10, <2>1, Zenon
    <2>4. S = T
      BY <2>2, <2>3, SameCells
    <2>5. QED
      BY <2>1, <2>4
  <1>13. \A k \in 1..n : k # i => Cells(us[k]) = Cells(ts[k])
    BY <1>4
  <1>14. Share(us, B)
    <2>1. DOMAIN ts = 1..n /\ i \in 1..n /\ DOMAIN us = 1..(n + 1)
      BY <1>2, <1>5
    <2>2. QED
      BY <2>1, <1>11, <1>12, <1>13, TwoForOne
  <1>15. QED
    BY <1>1, <1>14

(***************************************************************************)
(* A close                                                                 *)
(***************************************************************************)

\* The lesser and the greater of two.
LEMMA OfTwo ==
  ASSUME NEW x \in Int, NEW y \in Int
  PROVE  /\ Min({x, y}) = IF x <= y THEN x ELSE y
         /\ Max({x, y}) = IF x >= y THEN x ELSE y
  <1>1. Min({x, y}) \in {x, y} /\ Min({x, y}) <= x /\ Min({x, y}) <= y
    <2>1. \E z \in {x, y} : \A w \in {x, y} : z <= w
      BY SMT
    <2>2. Min({x, y}) \in {x, y} /\ \A w \in {x, y} : Min({x, y}) <= w
      BY <2>1, Zenon DEF Min
    <2>3. QED
      BY <2>2
  <1>2. Max({x, y}) \in {x, y} /\ Max({x, y}) >= x /\ Max({x, y}) >= y
    <2>1. \E z \in {x, y} : \A w \in {x, y} : z >= w
      BY SMT
    <2>2. Max({x, y}) \in {x, y} /\ \A w \in {x, y} : Max({x, y}) >= w
      BY <2>1, Zenon DEF Max
    <2>3. QED
      BY <2>2
  <1>3. QED
    BY <1>1, <1>2

(* What a neighbour gains of a closed tile: its own extent of it. *)
Strip(t, rm, axis) ==
  [at |-> [a \in Axes |-> IF a = axis THEN rm.at[a] ELSE t.at[a]],
   span |-> [a \in Axes |-> IF a = axis THEN rm.span[a] ELSE t.span[a]]]

\* A neighbour that grows gains a strip of the closed tile's depth.
LEMMA GrownTile ==
  ASSUME NEW t \in TileSet, NEW rm \in TileSet, NEW axis \in Axes, NEW after \in BOOLEAN,
         Abuts(t, rm, axis, after)
  PROVE  /\ Grown(t, rm, axis) \in TileSet /\ Grown(t, rm, axis).was = t.was
         /\ Placed(Strip(t, rm, axis))
         /\ Cells(Grown(t, rm, axis)) = Cells(t) \cup Cells(Strip(t, rm, axis))
         /\ Grown(t, rm, axis) # t
  <1>1. PICK A, S : A = t.at /\ S = t.span
    OBVIOUS
  <1>2. PICK P, Q : P = rm.at /\ Q = rm.span
    OBVIOUS
  <1>3. /\ A \in [Axes -> 0..Grid-1] /\ S \in [Axes -> 1..Grid] /\ \A a \in Axes : A[a] + S[a] <= Grid
        /\ P \in [Axes -> 0..Grid-1] /\ Q \in [Axes -> 1..Grid] /\ \A a \in Axes : P[a] + Q[a] <= Grid
    BY <1>1, <1>2 DEF TileSet, OnGrid, FarEnd
  <1>4. Grid \in Nat /\ Across(axis) \in Axes /\ Across(axis) # axis /\ \A a \in Axes : a = axis \/ a = Across(axis)
    BY TilesAssumption DEF Across, Axes
  <1>5. /\ A[axis] \in Int /\ S[axis] \in Int /\ P[axis] \in Int /\ Q[axis] \in Int
        /\ 1 <= S[axis] /\ 1 <= Q[axis] /\ 0 <= A[axis] /\ 0 <= P[axis]
        /\ A[axis] + S[axis] <= Grid /\ P[axis] + Q[axis] <= Grid
        /\ A[Across(axis)] \in Int /\ S[Across(axis)] \in Int
    BY <1>3, <1>4
  <1>6. IF after THEN P[axis] + Q[axis] = A[axis] ELSE A[axis] + S[axis] = P[axis]
    BY <1>1, <1>2 DEF Abuts, FarEnd
  <1>7. PICK m \in Int : m = Min({A[axis], P[axis]}) /\ m = IF after THEN P[axis] ELSE A[axis]
    <2>1. Min({A[axis], P[axis]}) = IF A[axis] <= P[axis] THEN A[axis] ELSE P[axis]
      BY <1>5, OfTwo
    <2>2. QED
      BY <1>5, <1>6, <2>1
  <1>8. PICK w \in Int : w = S[axis] + Q[axis]
    BY <1>5
  <1>9. PICK g : g = Grown(t, rm, axis)
    OBVIOUS
  <1>10. g = [at |-> [a \in Axes |-> IF a = axis THEN m ELSE A[a]],
              span |-> [a \in Axes |-> IF a = axis THEN w ELSE S[a]], was |-> t.was]
    <2>1. PICK N, V : N = [A EXCEPT ![axis] = m] /\ V = [S EXCEPT ![axis] = w]
      OBVIOUS
    <2>2. g = [t EXCEPT !.at = N, !.span = V]
      BY <1>1, <1>2, <1>7, <1>8, <1>9, <2>1 DEF Grown
    <2>3. t = [at |-> A, span |-> S, was |-> t.was]
      BY <1>1 DEF TileSet
    <2>4. g = [at |-> N, span |-> V, was |-> t.was]
      BY <2>2, <2>3
    <2>5. N = [a \in Axes |-> IF a = axis THEN m ELSE A[a]] /\ V = [a \in Axes |-> IF a = axis THEN w ELSE S[a]]
      BY <1>3, <2>1
    <2>6. QED
      BY <2>4, <2>5
  <1>11. g.at \in [Axes -> 0..Grid-1] /\ g.span \in [Axes -> 1..Grid] /\ \A a \in Axes : g.at[a] + g.span[a] <= Grid
    <2>1. m \in 0..Grid-1 /\ w \in 1..Grid /\ m + w <= Grid
      <3>1. PICK L, W, F, E \in Int : L = A[axis] /\ W = S[axis] /\ F = P[axis] /\ E = Q[axis]
        BY <1>5
      <3>2. /\ 1 <= W /\ 1 <= E /\ 0 <= L /\ 0 <= F /\ L + W <= Grid /\ F + E <= Grid
            /\ IF after THEN F + E = L ELSE L + W = F
            /\ m = (IF after THEN F ELSE L) /\ w = W + E
        BY <1>5, <1>6, <1>7, <1>8, <3>1
      <3>3. CASE after
        BY <1>4, <3>2, <3>3
      <3>4. CASE ~after
        BY <1>4, <3>2, <3>4
      <3>5. QED
        BY <3>3, <3>4
    <2>2. QED
      BY <1>3, <1>10, <2>1
  <1>12. g \in TileSet /\ g.was = t.was
    <2>1. t.was \in {Unsaved} \cup {<<r>> : r \in Outlines}
      BY DEF TileSet
    <2>2. QED
      BY <1>10, <1>11, <2>1 DEF TileSet, OnGrid, FarEnd
  <1>13. PICK s : s = Strip(t, rm, axis)
    OBVIOUS
  <1>14. s.at = [a \in Axes |-> IF a = axis THEN P[a] ELSE A[a]] /\ s.span = [a \in Axes |-> IF a = axis THEN Q[a] ELSE S[a]]
    BY <1>1, <1>2, <1>13 DEF Strip
  <1>15. Placed(s) /\ Placed(t) /\ Placed(g)
    BY <1>1, <1>3, <1>4, <1>11, <1>14 DEF Placed
  <1>16. \A u, v \in Int : Covers(g, axis, u, v) <=> Covers(t, axis, u, v) \/ Covers(s, axis, u, v)
    <2> SUFFICES ASSUME NEW u \in Int, NEW v \in Int
                 PROVE  Covers(g, axis, u, v) <=> Covers(t, axis, u, v) \/ Covers(s, axis, u, v)
      OBVIOUS
    <2>1. PICK D, H \in Int : D = A[Across(axis)] /\ H = S[Across(axis)]
      BY <1>5
    <2>2. Covers(t, axis, u, v) <=> A[axis] <= u /\ u < A[axis] + S[axis] /\ D <= v /\ v < D + H
      BY <1>1, <2>1 DEF Covers, FarEnd
    <2>3. Covers(s, axis, u, v) <=> P[axis] <= u /\ u < P[axis] + Q[axis] /\ D <= v /\ v < D + H
      BY <1>4, <1>14, <2>1 DEF Covers, FarEnd
    <2>4. Covers(g, axis, u, v) <=> m <= u /\ u < m + w /\ D <= v /\ v < D + H
      BY <1>4, <1>10, <2>1 DEF Covers, FarEnd
    <2>5. PICK L, W, F, E \in Int : L = A[axis] /\ W = S[axis] /\ F = P[axis] /\ E = Q[axis]
      BY <1>5
    <2>6. /\ 1 <= W /\ 1 <= E
          /\ IF after THEN F + E = L ELSE L + W = F
          /\ m = (IF after THEN F ELSE L) /\ w = W + E
          /\ Covers(t, axis, u, v) <=> L <= u /\ u < L + W /\ D <= v /\ v < D + H
          /\ Covers(s, axis, u, v) <=> F <= u /\ u < F + E /\ D <= v /\ v < D + H
      BY <1>5, <1>6, <1>7, <1>8, <2>2, <2>3, <2>5
    <2>7. CASE after
      BY <2>4, <2>6, <2>7
    <2>8. CASE ~after
      BY <2>4, <2>6, <2>8
    <2>9. QED
      BY <2>7, <2>8
  <1>17. Cells(g) = Cells(t) \cup Cells(s)
    <2>1. PICK X, Y : X = Cells(g) /\ Y = Cells(t) \cup Cells(s)
      OBVIOUS
    <2>2. X \in SUBSET (Int \X Int) /\ Y \in SUBSET (Int \X Int)
      BY <1>15, <2>1, CellsArePairs
    <2>3. \A u, v \in Int : CellAt(axis, u, v) \in X <=> CellAt(axis, u, v) \in Y
      BY <1>15, <1>16, <2>1, CellsOfTile
    <2>4. X = Y
      BY <2>2, <2>3, SameCells
    <2>5. QED
      BY <2>1, <2>4
  <1>18. g # t
    <2>1. g.span[axis] = w /\ w # S[axis]
      BY <1>5, <1>8, <1>10
    <2>2. QED
      BY <1>1, <2>1
  <1>19. QED
    BY <1>9, <1>12, <1>13, <1>15, <1>17, <1>18

\* The spans a side is weighed by are summed up, in whatever order.
SpansOf(ts, T, b) == MapThenSumSet(LAMBDA i : ts[i].span[b], T)

\* Adding the spans of a set up, one after the other, is any way of summing them.
LEMMA SpansAreSummed ==
  ASSUME NEW ts, NEW b, NEW T, IsFiniteSet(T), NEW g, NEW w, Additive(g, w, T),
         \A c \in T : w[c] = ts[c].span[b] /\ w[c] \in Int
  PROVE  SpansOf(ts, T, b) = g[T]
  <1> DEFINE it == CHOOSE f : f = [x \in SUBSET T |->
                     IF x = {} THEN 0 ELSE ts[CHOOSE y \in x : TRUE].span[b] + f[x \ {CHOOSE y \in x : TRUE}]]
  <1>1. SpansOf(ts, T, b) = it[T]
    BY Zenon DEF SpansOf, MapThenSumSet, MapThenFoldSet
  <1>2. \A x \in SUBSET T : x # {} => (CHOOSE y \in x : TRUE) \in x
    OBVIOUS
  <1>3. g = [x \in SUBSET T |->
               IF x = {} THEN 0 ELSE ts[CHOOSE y \in x : TRUE].span[b] + g[x \ {CHOOSE y \in x : TRUE}]]
    <2>1. g = [x \in SUBSET T |-> g[x]] /\ g[{}] = 0
      BY DEF Additive
    <2>2. ASSUME NEW x \in SUBSET T, x # {}
          PROVE  g[x] = ts[CHOOSE y \in x : TRUE].span[b] + g[x \ {CHOOSE y \in x : TRUE}]
      <3>1. PICK c \in x : c = CHOOSE y \in x : TRUE
        BY <1>2, <2>2
      <3>2. g[x] = w[c] + g[x \ {c}]
        BY DEF Additive
      <3>3. QED
        BY <3>1, <3>2
    <2>3. QED
      BY <2>1, <2>2
  <1>4. it = [x \in SUBSET T |->
                IF x = {} THEN 0 ELSE ts[CHOOSE y \in x : TRUE].span[b] + it[x \ {CHOOSE y \in x : TRUE}]]
    BY <1>3, Zenon
  <1> HIDE DEF it
  <1>5. it[{}] = 0
    BY <1>4
  <1>6. \A s \in SUBSET T : s # {} => \E c \in s : \/ it[s] = w[c] + it[s \ {c}]
                                                   \/ it[s] = it[s \ {c}] + w[c]
    <2> SUFFICES ASSUME NEW s \in SUBSET T, s # {} PROVE \E c \in s : it[s] = w[c] + it[s \ {c}]
      OBVIOUS
    <2>1. PICK c \in s : c = CHOOSE y \in s : TRUE
      BY <1>2
    <2>2. it[s] = ts[c].span[b] + it[s \ {c}]
      BY <1>4, <2>1
    <2>3. QED
      BY <2>2
  <1>7. it[T] = g[T]
    <2>1. \A c \in T : w[c] \in Int
      OBVIOUS
    <2>2. Sums(it, w, T)
      BY <1>5, <1>6, <2>1, Zenon DEF Sums
    <2>3. QED
      BY <2>2, SumIsTotal
  <1>8. QED
    BY <1>1, <1>7

\* The tiles along a side whose spans sum up to its length make up all of it:
\* their strips part the closed tile.
LEMMA StripsPart ==
  ASSUME NEW ts \in Seq(TileSet), NEW B, Share(ts, B),
         NEW rm \in TileSet, NEW axis \in Axes, NEW after \in BOOLEAN,
         NEW along, along = EdgeGroup(ts, rm, axis, after), along # {},
         NEW S, S = [i \in along |-> Cells(Strip(ts[i], rm, axis))]
  PROVE  /\ along \subseteq DOMAIN ts /\ \A i \in along : Abuts(ts[i], rm, axis, after)
         /\ \A i, j \in along : i # j => S[i] \cap S[j] = {}
         /\ UnionOf(S, along) = Cells(rm)
  <1>0. \A i, j \in DOMAIN ts : i # j => Cells(ts[i]) \cap Cells(ts[j]) = {}
    BY DEF Share
  <1>1. PICK b \in Axes : b = Across(axis) /\ b # axis /\ \A a \in Axes : a = axis \/ a = b
    BY DEF Across, Axes
  <1>2. /\ along = Abutting(ts, rm, axis, after)
        /\ SpansOf(ts, along, b) = rm.span[b]
    <2>1. PICK al : al = Abutting(ts, rm, axis, after)
      OBVIOUS
    <2>2. EdgeGroup(ts, rm, axis, after) =
            IF SpansOf(ts, Abutting(ts, rm, axis, after), Across(axis)) = rm.span[Across(axis)]
              THEN Abutting(ts, rm, axis, after) ELSE {}
      BY Zenon DEF EdgeGroup, SpansOf
    <2>3. QED
      BY <1>1, <2>1, <2>2, Zenon
  <1>3. /\ along \subseteq DOMAIN ts
        /\ \A i \in along : Abuts(ts[i], rm, axis, after) /\ WithinExtent(ts[i], rm, b)
    BY <1>1, <1>2 DEF Abutting
  <1>4. \A i \in along : ts[i] \in TileSet
    BY <1>3
  <1>5. Grid \in Nat
    BY TilesAssumption
  <1>6. \A t \in TileSet : \A a \in Axes : /\ t.at[a] \in Int /\ t.span[a] \in Int /\ 1 <= t.span[a]
                                           /\ FarEnd(t, a) = t.at[a] + t.span[a] /\ FarEnd(t, a) \in Int
    BY <1>5 DEF TileSet, OnGrid, FarEnd
  <1>7. \A t \in TileSet : Placed(t)
    BY TileOnBoard DEF TileSet
  <1>8. PICK X : X = rm.at[b]..FarEnd(rm, b)-1
    OBVIOUS
  <1>9. PICK V : V = [i \in along |-> ts[i].at[b]..FarEnd(ts[i], b)-1]
    OBVIOUS
  <1>10. \A i \in along : V[i] \in SUBSET X
    <2> SUFFICES ASSUME NEW i \in along PROVE V[i] \in SUBSET X
      OBVIOUS
    <2>1. PICK D, H, E, F \in Int : D = ts[i].at[b] /\ H = FarEnd(ts[i], b) /\ E = rm.at[b] /\ F = FarEnd(rm, b)
      BY <1>4, <1>6
    <2>2. D >= E /\ H <= F
      BY <1>3, <2>1 DEF WithinExtent
    <2>3. V[i] = D..H-1 /\ X = E..F-1
      BY <1>8, <1>9, <2>1
    <2>4. QED
      BY <2>2, <2>3
  <1>11. \A i, j \in along : i # j => V[i] \cap V[j] = {}
    <2> SUFFICES ASSUME NEW i \in along, NEW j \in along, NEW v, v \in V[i], v \in V[j] PROVE i = j
      OBVIOUS
    <2>1. PICK u \in Int : u = IF after THEN FarEnd(rm, axis) ELSE rm.at[axis] - 1
      BY <1>6
    <2>2. ASSUME NEW k \in along, v \in V[k] PROVE v \in Int /\ Covers(ts[k], axis, u, v)
      <3>1. PICK D, H, L, W, G \in Int : D = ts[k].at[b] /\ H = FarEnd(ts[k], b) /\ L = ts[k].at[axis]
                                      /\ W = ts[k].span[axis] /\ G = FarEnd(ts[k], axis)
        BY <1>4, <1>6
      <3>2. G = L + W /\ 1 <= W
        BY <1>4, <1>6, <3>1
      <3>3. v \in Int /\ D <= v /\ v < H
        BY <1>9, <2>2, <3>1
      <3>4. L <= u /\ u < G
        <4>1. CASE after
          <5>1. u = L
            BY <1>3, <2>1, <3>1, <4>1 DEF Abuts
          <5>2. QED
            BY <3>2, <5>1
        <4>2. CASE ~after
          <5>1. u = G - 1
            BY <1>3, <2>1, <3>1, <4>2 DEF Abuts
          <5>2. QED
            BY <3>2, <5>1
        <4>3. QED
          BY <4>1, <4>2
      <3>5. QED
        BY <1>1, <3>1, <3>3, <3>4 DEF Covers
    <2>3. v \in Int /\ Covers(ts[i], axis, u, v) /\ Covers(ts[j], axis, u, v)
      BY <2>2
    <2>4. CellAt(axis, u, v) \in Cells(ts[i]) /\ CellAt(axis, u, v) \in Cells(ts[j])
      BY <1>4, <1>7, <2>3, CellsOfTile
    <2>5. QED
      BY <1>0, <1>3, <2>4
  <1>12. IsFiniteSet(X) /\ Cardinality(X) = rm.span[b]
    <2>1. PICK E, F \in Int : E = rm.at[b] /\ F = FarEnd(rm, b) /\ rm.span[b] = F - E /\ E < F
      BY <1>6
    <2>2. IsFiniteSet(E..F-1) /\ Cardinality(E..F-1) = IF E > F-1 THEN 0 ELSE (F-1)-E+1
      <3>1. F-1 \in Int
        BY <2>1
      <3>2. QED
        BY <3>1, FS_Interval
    <2>3. QED
      BY <1>8, <2>1, <2>2
  <1>13. \A i \in along : Cardinality(V[i]) = ts[i].span[b] /\ ts[i].span[b] \in Int
    <2> SUFFICES ASSUME NEW i \in along PROVE Cardinality(V[i]) = ts[i].span[b] /\ ts[i].span[b] \in Int
      OBVIOUS
    <2>1. PICK E, F \in Int : E = ts[i].at[b] /\ F = FarEnd(ts[i], b) /\ ts[i].span[b] = F - E /\ E < F
      <3>1. PICK t \in TileSet : t = ts[i]
        BY <1>4
      <3>2. PICK E, W \in Int : E = t.at[b] /\ W = t.span[b] /\ 1 <= W /\ FarEnd(t, b) = E + W
        BY <1>6
      <3>3. QED
        BY <3>1, <3>2
    <2>2. Cardinality(E..F-1) = IF E > F-1 THEN 0 ELSE (F-1)-E+1
      <3>1. F-1 \in Int
        BY <2>1
      <3>2. QED
        BY <3>1, FS_Interval
    <2>3. V[i] = E..F-1
      BY <1>9, <2>1
    <2>4. QED
      BY <2>1, <2>2, <2>3
  <1>14. IsFiniteSet(along)
    <2>1. PICK n \in Nat : n = Len(ts) /\ DOMAIN ts = 1..n
      OBVIOUS
    <2>2. IsFiniteSet(1..n)
      BY FS_Interval
    <2>3. QED
      BY <1>3, <2>1, <2>2, FS_Subset
  <1>15. UNION {V[i] : i \in along} = X
    <2>1. PICK w : w = [i \in along |-> ts[i].span[b]]
      OBVIOUS
    <2>2. PICK g : g = [s \in SUBSET along |-> Cardinality(UnionOf(V, s))]
      OBVIOUS
    <2>3. \A c \in along : w[c] = Cardinality(V[c]) /\ w[c] = ts[c].span[b] /\ w[c] \in Int
      BY <1>13, <2>1
    <2>4. Additive(g, w, along)
      <3>1. \A c \in along : w[c] = Cardinality(V[c])
        BY <2>3
      <3>2. SetsApart(V, along, X)
        BY <1>10, <1>11, <1>12, Zenon DEF SetsApart
      <3>3. QED
        BY <2>2, <3>1, <3>2, UnionsAreCounted
    <2>5. SpansOf(ts, along, b) = g[along]
      <3>1. \A c \in along : w[c] = ts[c].span[b] /\ w[c] \in Int
        BY <2>3
      <3>2. QED
        BY <1>14, <2>4, <3>1, SpansAreSummed
    <2>6. g[along] = Cardinality(UNION {V[c] : c \in along})
      BY <2>2 DEF UnionOf
    <2>7. UNION {V[c] : c \in along} \in SUBSET X
      BY <1>10
    <2>8. PICK Y : Y = UNION {V[c] : c \in along}
      OBVIOUS
    <2>9. Y \in SUBSET X /\ Cardinality(X) = Cardinality(Y)
      BY <1>2, <1>12, <2>5, <2>6, <2>7, <2>8
    <2>10. X = Y
      BY <1>12, <2>9, FS_Subset
    <2>11. QED
      BY <2>8, <2>10
  <1>16. \A i \in along : /\ Placed(Strip(ts[i], rm, axis))
                          /\ \A u, v \in Int : Covers(Strip(ts[i], rm, axis), axis, u, v)
                               <=> rm.at[axis] <= u /\ u < FarEnd(rm, axis) /\ v \in V[i]
    <2> SUFFICES ASSUME NEW i \in along
                 PROVE  /\ Placed(Strip(ts[i], rm, axis))
                        /\ \A u, v \in Int : Covers(Strip(ts[i], rm, axis), axis, u, v)
                             <=> rm.at[axis] <= u /\ u < FarEnd(rm, axis) /\ v \in V[i]
      OBVIOUS
    <2>1. PICK s : s = Strip(ts[i], rm, axis)
      OBVIOUS
    <2>2. Placed(s)
      BY <1>3, <1>4, <2>1, GrownTile
    <2>3. /\ s.at[axis] = rm.at[axis] /\ FarEnd(s, axis) = FarEnd(rm, axis)
          /\ s.at[b] = ts[i].at[b] /\ FarEnd(s, b) = FarEnd(ts[i], b)
      BY <1>1, <2>1 DEF Strip, FarEnd
    <2>4. PICK D, H \in Int : D = ts[i].at[b] /\ H = FarEnd(ts[i], b)
      BY <1>4, <1>6
    <2>5. V[i] = D..H-1
      BY <1>9, <2>4
    <2>6. \A u, v \in Int : Covers(s, axis, u, v) <=> rm.at[axis] <= u /\ u < FarEnd(rm, axis) /\ D <= v /\ v < H
      BY <1>1, <2>3, <2>4 DEF Covers
    <2>7. \A v \in Int : v \in V[i] <=> D <= v /\ v < H
      BY <2>5
    <2>8. QED
      BY <2>1, <2>2, <2>6, <2>7
  <1>17. \A u, v \in Int : Covers(rm, axis, u, v) <=> rm.at[axis] <= u /\ u < FarEnd(rm, axis) /\ v \in X
    <2>1. PICK E, F \in Int : E = rm.at[b] /\ F = FarEnd(rm, b)
      BY <1>6
    <2>2. X = E..F-1
      BY <1>8, <2>1
    <2>3. \A v \in Int : v \in X <=> E <= v /\ v < F
      BY <2>2
    <2>4. QED
      BY <1>1, <2>1, <2>3 DEF Covers
  <1>18. \A i \in along : S[i] = Cells(Strip(ts[i], rm, axis))
    OBVIOUS
  <1>19. /\ \A i \in along : S[i] \in SUBSET (Int \X Int)
         /\ \A i \in along : \A u, v \in Int : CellAt(axis, u, v) \in S[i]
                               <=> rm.at[axis] <= u /\ u < FarEnd(rm, axis) /\ v \in V[i]
    <2>1. ASSUME NEW i \in along
          PROVE  /\ S[i] \in SUBSET (Int \X Int)
                 /\ \A u, v \in Int : CellAt(axis, u, v) \in S[i] <=> Covers(Strip(ts[i], rm, axis), axis, u, v)
      <3>1. PICK s : s = Strip(ts[i], rm, axis) /\ Placed(s) /\ S[i] = Cells(s)
        BY <1>16, <1>18
      <3>2. QED
        BY <3>1, CellsArePairs, CellsOfTile
    <2>2. QED
      BY <1>16, <2>1
  <1>20. \A i, j \in along : i # j => S[i] \cap S[j] = {}
    <2> SUFFICES ASSUME NEW i \in along, NEW j \in along, NEW p, p \in S[i], p \in S[j] PROVE i = j
      OBVIOUS
    <2>1. PICK u, v \in Int : p = CellAt(axis, u, v)
      BY <1>19, CellsAreCrossings
    <2>2. v \in V[i] /\ v \in V[j]
      BY <1>19, <2>1
    <2>3. QED
      BY <1>11, <2>2
  <1>21. UNION {S[i] : i \in along} = Cells(rm)
    <2>1. PICK Y, Z : Y = UNION {S[i] : i \in along} /\ Z = Cells(rm)
      OBVIOUS
    <2>2. Y \in SUBSET (Int \X Int) /\ Z \in SUBSET (Int \X Int)
      BY <1>7, <1>19, <2>1, CellsArePairs
    <2>3. \A u, v \in Int : CellAt(axis, u, v) \in Z <=> rm.at[axis] <= u /\ u < FarEnd(rm, axis) /\ v \in X
      BY <1>7, <1>17, <2>1, CellsOfTile
    <2>4. \A u, v \in Int : CellAt(axis, u, v) \in Y <=> rm.at[axis] <= u /\ u < FarEnd(rm, axis) /\ v \in X
      BY <1>15, <1>19, <2>1
    <2>5. \A u, v \in Int : CellAt(axis, u, v) \in Y <=> CellAt(axis, u, v) \in Z
      BY <2>3, <2>4
    <2>6. Y = Z
      BY <2>2, <2>5, SameCells
    <2>7. QED
      BY <2>1, <2>6
  <1>22. QED
    BY <1>3, <1>20, <1>21 DEF UnionOf

\* Neighbours that take a rectangle in parts.
Gain(us, ts, G, S, R) ==
  /\ DOMAIN us = DOMAIN ts /\ G \subseteq DOMAIN ts
  /\ \A k \in G : Cells(us[k]) = Cells(ts[k]) \cup S[k]
  /\ \A k \in DOMAIN ts : k \notin G => Cells(us[k]) = Cells(ts[k])
  /\ \A j, k \in G : j # k => S[j] \cap S[k] = {}
  /\ R = UnionOf(S, G)

\* What takes a part of the free board each, and no part twice, shares the board and the parts.
LEMMA PartsTaken ==
  ASSUME NEW ts, NEW B, Share(ts, B), NEW us, NEW G, NEW S, NEW R, Gain(us, ts, G, S, R), R \cap B = {}
  PROVE  Share(us, B \cup R)
  <1>0. /\ DOMAIN us = DOMAIN ts /\ G \in SUBSET DOMAIN ts
        /\ \A k \in G : Cells(us[k]) = Cells(ts[k]) \cup S[k]
        /\ \A k \in DOMAIN ts : k \notin G => Cells(us[k]) = Cells(ts[k])
        /\ \A j, k \in G : j # k => S[j] \cap S[k] = {}
        /\ R = UNION {S[k] : k \in G}
    BY DEF Gain, UnionOf
  <1>1. PICK I : I = DOMAIN ts
    OBVIOUS
  <1>2. PICK C : C = [k \in I |-> Cells(ts[k])]
    OBVIOUS
  <1>3. PICK D : D = [k \in I |-> Cells(us[k])]
    OBVIOUS
  <1>4. /\ \A j, k \in I : j # k => C[j] \cap C[k] = {}
        /\ B = UNION {C[k] : k \in I}
    BY <1>1, <1>2 DEF Share, Occupied
  <1>5. (\A k \in G : D[k] = C[k] \cup S[k]) /\ \A k \in I : k \notin G => D[k] = C[k]
    BY <1>0, <1>1, <1>2, <1>3
  <1>6. /\ \A k \in I : \A p \in D[k] : p \in C[k] \/ (k \in G /\ p \in S[k])
        /\ \A k \in I : \A p \in C[k] : p \in D[k] /\ p \in B
        /\ \A k \in G : \A p \in S[k] : p \in R /\ p \in D[k] /\ p \notin B
    <2>1. \A k \in G : \A p \in S[k] : p \in R
      BY <1>0
    <2>2. G \subseteq I
      BY <1>0, <1>1
    <2>3. QED
      BY <1>4, <1>5, <2>1, <2>2
  <1>7. \A j, k \in I : j # k => D[j] \cap D[k] = {}
    <2> SUFFICES ASSUME NEW j \in I, NEW k \in I, NEW p, p \in D[j], p \in D[k] PROVE j = k
      OBVIOUS
    <2>1. (p \in C[j] \/ (j \in G /\ p \in S[j])) /\ (p \in C[k] \/ (k \in G /\ p \in S[k]))
      BY <1>6
    <2>2. CASE p \in B
      <3>1. p \in C[j] /\ p \in C[k]
        BY <1>6, <2>1, <2>2
      <3>2. QED
        BY <1>4, <3>1
    <2>3. CASE p \notin B
      <3>1. j \in G /\ k \in G /\ p \in S[j] /\ p \in S[k]
        BY <1>6, <2>1, <2>3
      <3>2. QED
        BY <1>0, <3>1
    <2>4. QED
      BY <2>2, <2>3
  <1>8. B \cup R = UNION {D[k] : k \in I}
    <2>1. ASSUME NEW p \in B \cup R PROVE \E k \in I : p \in D[k]
      <3>1. CASE p \in B
        BY <1>4, <1>6, <3>1
      <3>2. CASE p \in R
        BY <1>0, <1>1, <1>6, <3>2
      <3>3. QED
        BY <3>1, <3>2
    <2>2. ASSUME NEW k \in I, NEW p \in D[k] PROVE p \in B \cup R
      BY <1>6, <2>2
    <2>3. QED
      BY <2>1, <2>2
  <1>9. QED
    BY <1>0, <1>1, <1>3, <1>7, <1>8 DEF Share, Occupied

\* What becomes of the others when a tile is closed.
KillOf(us, rm, rest) ==
  \/ \E m \in ExactFits(rest, rm) : \E axis \in ExactAxes(rest[m], rm) :
       us = [rest EXCEPT ![m] = Grown(rest[m], rm, axis)]
  \/ \E axis \in Axes, after \in BOOLEAN :
       /\ EdgeGroup(rest, rm, axis, after) # {}
       /\ us = [i \in DOMAIN rest |->
                  IF i \in EdgeGroup(rest, rm, axis, after) THEN Grown(rest[i], rm, axis) ELSE rest[i]]
  \/ Len(rest) = 1 /\ us = <<[WholeGrid EXCEPT !.was = rest[1].was]>>
  \/ us = rest

\* What is left of a close is one of the outcomes of its passes.
LEMMA KillCases ==
  ASSUME NEW rest \in Seq(TileSet), NEW rm
  PROVE  KillOf(AfterKill(rm, rest), rm, rest)
  <1>1. PICK us : us = AfterKill(rm, rest)
    OBVIOUS
  <1>2. PICK exact : exact = ExactFits(rest, rm)
    OBVIOUS
  <1>3. PICK E : E = {k \in 1..4 : EdgeGroup(rest, rm, EdgeOrder[k][1], EdgeOrder[k][2]) # {}}
    OBVIOUS
  <1>4. PICK fit : fit = IF E # {} THEN Min(E) ELSE 0
    OBVIOUS
  <1>5. SelectInSeq(EdgeOrder, LAMBDA e : EdgeGroup(rest, rm, e[1], e[2]) # {}) = fit
    <2>1. Len(EdgeOrder) = 4
      BY DEF EdgeOrder
    <2>2. SelectInSeq(EdgeOrder, LAMBDA e : EdgeGroup(rest, rm, e[1], e[2]) # {}) =
            LET I == {k \in 1..Len(EdgeOrder) : EdgeGroup(rest, rm, EdgeOrder[k][1], EdgeOrder[k][2]) # {}}
            IN  IF I # {} THEN Min(I) ELSE 0
      BY Zenon DEF SelectInSeq
    <2>3. QED
      BY <1>3, <1>4, <2>1, <2>2, Zenon
  <1>6. us = CASE exact # {} ->
                    [rest EXCEPT ![Min(exact)] = Grown(@, rm, CHOOSE a \in ExactAxes(@, rm) : TRUE)]
               [] exact = {} /\ fit # 0 ->
                    [i \in DOMAIN rest |-> IF i \in EdgeGroup(rest, rm, EdgeOrder[fit][1], EdgeOrder[fit][2])
                                             THEN Grown(rest[i], rm, EdgeOrder[fit][1]) ELSE rest[i]]
               [] exact = {} /\ fit = 0 /\ Len(rest) = 1 -> <<[WholeGrid EXCEPT !.was = rest[1].was]>>
               [] OTHER -> rest
    BY <1>1, <1>2, <1>5, Zenon DEF AfterKill
  <1>7. CASE exact # {}
    <2>1. Min(exact) \in exact
      <3>1. exact \in SUBSET Nat
        BY <1>2 DEF ExactFits
      <3>2. \E x \in exact : \A y \in exact : x <= y
        BY <1>7, <3>1, LeastOfNats
      <3>3. QED
        BY <3>2, Zenon DEF Min
    <2>2. PICK m \in exact : m = Min(exact)
      BY <2>1
    <2>3. m \in DOMAIN rest /\ ExactAxes(rest[m], rm) # {}
      BY <1>2 DEF ExactFits
    <2>4. PICK axis \in ExactAxes(rest[m], rm) : axis = CHOOSE a \in ExactAxes(rest[m], rm) : TRUE
      BY <2>3
    <2>5. us = [rest EXCEPT ![Min(exact)] = Grown(@, rm, CHOOSE a \in ExactAxes(@, rm) : TRUE)]
      BY <1>6, <1>7
    <2>6. us = [rest EXCEPT ![m] = Grown(rest[m], rm, axis)]
      BY <2>2, <2>3, <2>4, <2>5
    <2>7. QED
      BY <1>1, <1>2, <2>6, Zenon DEF KillOf
  <1>8. CASE exact = {} /\ fit # 0
    <2>1. fit \in E
      <3>0. E \in SUBSET Nat
        BY <1>3
      <3>1. E \in SUBSET Nat /\ E # {} /\ fit = Min(E)
        BY <1>4, <1>8, <3>0, Zenon
      <3>2. \E x \in E : \A y \in E : x <= y
        BY <3>1, LeastOfNats
      <3>3. Min(E) \in E
        BY <3>2, Zenon DEF Min
      <3>4. QED
        BY <3>1, <3>3
    <2>2. fit \in 1..4 /\ EdgeGroup(rest, rm, EdgeOrder[fit][1], EdgeOrder[fit][2]) # {}
      BY <1>3, <2>1
    <2>3. EdgeOrder[fit][1] \in Axes /\ EdgeOrder[fit][2] \in BOOLEAN
      <3>1. fit = 1 \/ fit = 2 \/ fit = 3 \/ fit = 4
        BY <2>2
      <3>2. /\ EdgeOrder[1] = <<"x", FALSE>> /\ EdgeOrder[2] = <<"x", TRUE>>
            /\ EdgeOrder[3] = <<"y", FALSE>> /\ EdgeOrder[4] = <<"y", TRUE>>
        BY DEF EdgeOrder
      <3>3. PICK e : e = EdgeOrder[fit]
        OBVIOUS
      <3>4. e = <<"x", FALSE>> \/ e = <<"x", TRUE>> \/ e = <<"y", FALSE>> \/ e = <<"y", TRUE>>
        BY <3>1, <3>2, <3>3, Zenon
      <3>5. \E x \in Axes, y \in BOOLEAN : e = <<x, y>>
        <4>1. "x" \in Axes /\ "y" \in Axes /\ TRUE \in BOOLEAN /\ FALSE \in BOOLEAN
          BY DEF Axes
        <4>2. QED
          BY <3>4, <4>1, Zenon
      <3>6. \A x, y : <<x, y>>[1] = x /\ <<x, y>>[2] = y
        OBVIOUS
      <3>7. PICK x \in Axes, y \in BOOLEAN : e = <<x, y>>
        BY <3>5
      <3>8. e[1] = x /\ e[2] = y
        BY <3>6, <3>7, Zenon
      <3>9. QED
        BY <3>3, <3>7, <3>8, Zenon
    <2>4. PICK axis \in Axes, after \in BOOLEAN : axis = EdgeOrder[fit][1] /\ after = EdgeOrder[fit][2]
      BY <2>3
    <2>5. us = [i \in DOMAIN rest |-> IF i \in EdgeGroup(rest, rm, EdgeOrder[fit][1], EdgeOrder[fit][2])
                                        THEN Grown(rest[i], rm, EdgeOrder[fit][1]) ELSE rest[i]]
      BY <1>6, <1>8
    <2>6. QED
      BY <1>1, <2>2, <2>4, <2>5, Zenon DEF KillOf
  <1>9. CASE exact = {} /\ fit = 0 /\ Len(rest) = 1
    BY <1>1, <1>6, <1>9 DEF KillOf
  <1>10. CASE exact = {} /\ fit = 0 /\ Len(rest) # 1
    BY <1>1, <1>6, <1>10 DEF KillOf
  <1>11. QED
    BY <1>7, <1>8, <1>9, <1>10

\* The whole grid as a tile.
LEMMA WholeIsATile ==
  ASSUME NEW old \in {Unsaved} \cup {<<r>> : r \in Outlines}
  PROVE  /\ [WholeGrid EXCEPT !.was = old] \in TileSet
         /\ [WholeGrid EXCEPT !.was = old].was = old
         /\ Cells([WholeGrid EXCEPT !.was = old]) = Board
         /\ WholeGrid \in TileSet /\ Cells(WholeGrid) = Board
  <1>1. Grid \in Nat /\ 1 <= Grid
    BY TilesAssumption
  <1>2. PICK A, S : A = [a \in Axes |-> 0] /\ S = [a \in Axes |-> Grid]
    OBVIOUS
  <1>3. WholeGrid = [at |-> A, span |-> S, was |-> Unsaved]
    BY <1>2 DEF WholeGrid, Tile
  <1>4. [WholeGrid EXCEPT !.was = old] = [at |-> A, span |-> S, was |-> old]
    BY <1>3
  <1>5. A \in [Axes -> 0..Grid-1] /\ S \in [Axes -> 1..Grid] /\ \A a \in Axes : A[a] + S[a] <= Grid
    BY <1>1, <1>2
  <1>6. \A z \in {Unsaved} \cup {<<r>> : r \in Outlines} :
          /\ [at |-> A, span |-> S, was |-> z] \in TileSet
          /\ Cells([at |-> A, span |-> S, was |-> z]) = Board
    <2> SUFFICES ASSUME NEW z \in {Unsaved} \cup {<<r>> : r \in Outlines}
                 PROVE  /\ [at |-> A, span |-> S, was |-> z] \in TileSet
                        /\ Cells([at |-> A, span |-> S, was |-> z]) = Board
      OBVIOUS
    <2>1. PICK t : t = [at |-> A, span |-> S, was |-> z]
      OBVIOUS
    <2>2. t.at = A /\ t.span = S
      BY <2>1
    <2>3. t \in TileSet
      BY <1>5, <2>1 DEF TileSet, OnGrid, FarEnd
    <2>4. t.at["x"] = 0 /\ t.at["y"] = 0 /\ FarEnd(t, "x") = Grid /\ FarEnd(t, "y") = Grid
      BY <1>1, <1>2, <2>2 DEF FarEnd, Axes
    <2>5. Cells(t) = Board
      BY <2>4 DEF Cells, Board
    <2>6. QED
      BY <2>1, <2>3, <2>5
  <1>7. QED
    BY <1>3, <1>4, <1>6

\* A neighbour of the closed tile's extent gains all of it.
LEMMA ExactStrip ==
  ASSUME NEW t \in TileSet, NEW rm \in TileSet, NEW axis \in ExactAxes(t, rm)
  PROVE  /\ axis \in Axes /\ \E after \in BOOLEAN : Abuts(t, rm, axis, after)
         /\ Cells(Strip(t, rm, axis)) = Cells(rm)
  <1>1. axis \in Axes /\ SameExtent(t, rm, Across(axis)) /\ \E after \in BOOLEAN : Abuts(t, rm, axis, after)
    BY DEF ExactAxes
  <1>2. \A a \in Axes : a = axis \/ a = Across(axis)
    BY <1>1 DEF Across, Axes
  <1>3. /\ t.at[Across(axis)] = rm.at[Across(axis)] /\ t.span[Across(axis)] = rm.span[Across(axis)]
    BY <1>1 DEF SameExtent
  <1>4. PICK s : s = Strip(t, rm, axis)
    OBVIOUS
  <1>5. \A a \in Axes : s.at[a] = rm.at[a] /\ s.span[a] = rm.span[a]
    BY <1>2, <1>3, <1>4 DEF Strip
  <1>6. Cells(s) = Cells(rm)
    BY <1>5 DEF Cells, FarEnd, Axes
  <1>7. QED
    BY <1>1, <1>4, <1>6

(* Tiles with what was saved of some of those there were. *)
SavedOf(us, rest) == us \in Seq(TileSet) /\ \A i \in DOMAIN us : \E j \in DOMAIN rest : us[i].was = rest[j].was

\* The tiles after a close.
LEMMA KillTiles ==
  ASSUME NEW rest \in Seq(TileSet), NEW rm \in TileSet, NEW us, us = AfterKill(rm, rest)
  PROVE  SavedOf(us, rest)
  <1>1. KillOf(us, rm, rest)
    BY KillCases
  <1>2. PICK n \in Nat : n = Len(rest) /\ DOMAIN rest = 1..n
    OBVIOUS
  <1>3. \A F : F \in [1..n -> TileSet] => F \in Seq(TileSet) /\ DOMAIN F = 1..n
    OBVIOUS
  <1>4. rest \in [1..n -> TileSet]
    BY <1>2
  <1>5. ASSUME NEW m \in ExactFits(rest, rm), NEW axis \in ExactAxes(rest[m], rm),
               us = [rest EXCEPT ![m] = Grown(rest[m], rm, axis)]
        PROVE  us \in Seq(TileSet) /\ \A i \in DOMAIN us : \E j \in DOMAIN rest : us[i].was = rest[j].was
    <2>1. m \in 1..n /\ rest[m] \in TileSet
      BY <1>2 DEF ExactFits
    <2>2. Grown(rest[m], rm, axis) \in TileSet /\ Grown(rest[m], rm, axis).was = rest[m].was
      BY <2>1, ExactStrip, GrownTile
    <2>3. us = [i \in 1..n |-> IF i = m THEN Grown(rest[m], rm, axis) ELSE rest[i]]
      BY <1>4, <1>5, <2>1
    <2>4. us \in [1..n -> TileSet] /\ \A i \in 1..n : us[i].was = rest[i].was
      BY <1>4, <2>2, <2>3
    <2>5. QED
      BY <1>2, <1>3, <2>4
  <1>6. ASSUME NEW axis \in Axes, NEW after \in BOOLEAN,
               us = [i \in DOMAIN rest |->
                       IF i \in EdgeGroup(rest, rm, axis, after) THEN Grown(rest[i], rm, axis) ELSE rest[i]]
        PROVE  us \in Seq(TileSet) /\ \A i \in DOMAIN us : \E j \in DOMAIN rest : us[i].was = rest[j].was
    <2>1. PICK G : G = EdgeGroup(rest, rm, axis, after)
      OBVIOUS
    <2>2. G = Abutting(rest, rm, axis, after) \/ G = {}
      BY <2>1, Zenon DEF EdgeGroup
    <2>3. \A i \in G : i \in 1..n /\ Abuts(rest[i], rm, axis, after)
      BY <1>2, <2>2 DEF Abutting
    <2>4. \A i \in G : Grown(rest[i], rm, axis) \in TileSet /\ Grown(rest[i], rm, axis).was = rest[i].was
      BY <1>4, <2>3, GrownTile
    <2>5. us = [i \in 1..n |-> IF i \in G THEN Grown(rest[i], rm, axis) ELSE rest[i]]
      BY <1>2, <1>6, <2>1
    <2>6. us \in [1..n -> TileSet] /\ \A i \in 1..n : us[i].was = rest[i].was
      BY <1>4, <2>4, <2>5
    <2>7. QED
      BY <1>2, <1>3, <2>6
  <1>7. ASSUME Len(rest) = 1, us = <<[WholeGrid EXCEPT !.was = rest[1].was]>>
        PROVE  us \in Seq(TileSet) /\ \A i \in DOMAIN us : \E j \in DOMAIN rest : us[i].was = rest[j].was
    <2>1. rest[1] \in TileSet /\ 1 \in DOMAIN rest
      BY <1>2, <1>4, <1>7
    <2>2. PICK old \in {Unsaved} \cup {<<r>> : r \in Outlines} : old = rest[1].was
      BY <2>1 DEF TileSet
    <2>3. PICK t : t = [WholeGrid EXCEPT !.was = old] /\ t \in TileSet /\ t.was = old
      BY WholeIsATile
    <2>4. us = <<t>>
      BY <1>7, <2>2, <2>3
    <2>5. us \in Seq(TileSet) /\ DOMAIN us = {1} /\ us[1] = t
      BY <2>3, <2>4
    <2>6. us[1].was = rest[1].was
      BY <2>2, <2>3, <2>5
    <2>7. QED
      BY <2>1, <2>5, <2>6
  <1>8. QED
    BY <1>1, <1>5, <1>6, <1>7 DEF KillOf, SavedOf

\* A close keeps the grid shared: the neighbours take the closed tile whole, a
\* lone survivor takes the grid, or its cells are left open.
LEMMA KillShares ==
  ASSUME NEW rest \in Seq(TileSet), NEW rm \in TileSet, NEW us, us = AfterKill(rm, rest),
         NEW B, Share(rest, B), Cells(rm) \cap B = {}
  PROVE  \/ us = rest
         \/ us # rest /\ Share(us, B \cup Cells(rm))
         \/ us # rest /\ Share(us, Board) /\ Len(us) = 1 /\ Cells(us[1]) = Board
  <1>1. KillOf(us, rm, rest)
    BY KillCases
  <1>2. PICK n \in Nat : n = Len(rest) /\ DOMAIN rest = 1..n
    OBVIOUS
  <1>3. rest \in [1..n -> TileSet]
    BY <1>2
  <1>4. ASSUME NEW m \in ExactFits(rest, rm), NEW axis \in ExactAxes(rest[m], rm),
               us = [rest EXCEPT ![m] = Grown(rest[m], rm, axis)]
        PROVE  us # rest /\ Share(us, B \cup Cells(rm))
    <2>1. m \in 1..n /\ rest[m] \in TileSet
      BY <1>2 DEF ExactFits
    <2>2. /\ Cells(Grown(rest[m], rm, axis)) = Cells(rest[m]) \cup Cells(rm)
          /\ Grown(rest[m], rm, axis) # rest[m]
      BY <2>1, ExactStrip, GrownTile
    <2>3. us = [i \in 1..n |-> IF i = m THEN Grown(rest[m], rm, axis) ELSE rest[i]]
      BY <1>3, <1>4, <2>1
    <2>4. DOMAIN us = DOMAIN rest /\ us[m] # rest[m]
      BY <1>2, <2>1, <2>2, <2>3
    <2>5. PICK G : G = {m}
      OBVIOUS
    <2>6. PICK S : S = [k \in G |-> Cells(rm)]
      OBVIOUS
    <2>7. G \in SUBSET DOMAIN rest /\ \A k \in G : Cells(us[k]) = Cells(rest[k]) \cup S[k]
      BY <1>2, <2>1, <2>2, <2>3, <2>5, <2>6
    <2>8. \A k \in DOMAIN rest : k \notin G => Cells(us[k]) = Cells(rest[k])
      BY <1>2, <2>3, <2>5
    <2>9. (\A j, k \in G : j # k => S[j] \cap S[k] = {}) /\ Cells(rm) = UnionOf(S, G)
      BY <2>5, <2>6 DEF UnionOf
    <2>10. Share(us, B \cup Cells(rm))
      <3>1. Gain(us, rest, G, S, Cells(rm))
        BY <2>4, <2>7, <2>8, <2>9 DEF Gain
      <3>2. QED
        BY <3>1, PartsTaken
    <2>11. QED
      BY <2>4, <2>10
  <1>5. ASSUME NEW axis \in Axes, NEW after \in BOOLEAN, EdgeGroup(rest, rm, axis, after) # {},
               us = [i \in DOMAIN rest |->
                       IF i \in EdgeGroup(rest, rm, axis, after) THEN Grown(rest[i], rm, axis) ELSE rest[i]]
        PROVE  us # rest /\ Share(us, B \cup Cells(rm))
    <2>1. PICK G : G = EdgeGroup(rest, rm, axis, after) /\ G # {}
      BY <1>5
    <2>2. PICK S : S = [k \in G |-> Cells(Strip(rest[k], rm, axis))]
      OBVIOUS
    <2>3. /\ G \subseteq DOMAIN rest /\ \A i \in G : Abuts(rest[i], rm, axis, after)
          /\ \A i, j \in G : i # j => S[i] \cap S[j] = {}
          /\ UnionOf(S, G) = Cells(rm)
      BY <2>1, <2>2, StripsPart
    <2>4. \A k \in G : S[k] = Cells(Strip(rest[k], rm, axis))
      BY <2>2
    <2>5. us = [i \in 1..n |-> IF i \in G THEN Grown(rest[i], rm, axis) ELSE rest[i]]
      BY <1>2, <1>5, <2>1
    <2>6. DOMAIN us = DOMAIN rest
      BY <1>2, <2>5
    <2>7. \A k \in G : Cells(us[k]) = Cells(rest[k]) \cup S[k] /\ us[k] # rest[k]
      <3> SUFFICES ASSUME NEW k \in G PROVE Cells(us[k]) = Cells(rest[k]) \cup S[k] /\ us[k] # rest[k]
        OBVIOUS
      <3>1. k \in 1..n /\ rest[k] \in TileSet /\ Abuts(rest[k], rm, axis, after)
        BY <1>2, <1>3, <2>3
      <3>2. us[k] = Grown(rest[k], rm, axis)
        BY <2>5, <3>1
      <3>3. QED
        BY <2>4, <3>1, <3>2, GrownTile
    <2>8. \A k \in DOMAIN rest : k \notin G => Cells(us[k]) = Cells(rest[k])
      BY <1>2, <2>5
    <2>9. \A k \in G : Cells(us[k]) = Cells(rest[k]) \cup S[k]
      BY <2>7
    <2>10. Share(us, B \cup Cells(rm))
      <3>1. Gain(us, rest, G, S, Cells(rm))
        BY <2>3, <2>6, <2>8, <2>9 DEF Gain
      <3>2. QED
        BY <3>1, PartsTaken
    <2>11. us # rest
      BY <2>1, <2>7
    <2>12. QED
      BY <2>10, <2>11
  <1>6. ASSUME Len(rest) = 1, us = <<[WholeGrid EXCEPT !.was = rest[1].was]>>
        PROVE  us # rest /\ Share(us, Board) /\ Len(us) = 1 /\ Cells(us[1]) = Board
    <2>1. rest[1] \in TileSet /\ 1 \in DOMAIN rest
      BY <1>2, <1>3, <1>6
    <2>2. PICK old \in {Unsaved} \cup {<<r>> : r \in Outlines} : old = rest[1].was
      BY <2>1 DEF TileSet
    <2>3. PICK t : t = [WholeGrid EXCEPT !.was = old] /\ Cells(t) = Board
      BY WholeIsATile
    <2>4. us = <<t>>
      BY <1>6, <2>2, <2>3
    <2>5. DOMAIN us = {1} /\ Len(us) = 1 /\ us[1] = t
      BY <2>4
    <2>6. Share(us, Board)
      BY <2>3, <2>5 DEF Share, Occupied
    <2>7. us # rest
      <3>1. SUFFICES ASSUME us = rest PROVE FALSE
        OBVIOUS
      <3>2. Cells(rest[1]) = Board /\ Cells(rest[1]) \subseteq B
        BY <2>1, <2>3, <2>5, <3>1 DEF Share, Occupied
      <3>3. Cells(rm) \subseteq Board /\ Cells(rm) # {}
        BY TileOnBoard DEF TileSet
      <3>4. QED
        BY <3>2, <3>3
    <2>8. QED
      BY <2>3, <2>5, <2>6, <2>7
  <1>7. QED
    BY <1>1, <1>4, <1>5, <1>6 DEF KillOf

\* The others share what the closed tile had not.
LEMMA OneRemoved ==
  ASSUME NEW ts \in Seq(TileSet), NEW i \in DOMAIN ts
  PROVE  /\ RemoveAt(ts, i) \in Seq(TileSet) /\ Len(RemoveAt(ts, i)) = Len(ts) - 1
         /\ \A k \in DOMAIN RemoveAt(ts, i) : \E j \in DOMAIN ts : RemoveAt(ts, i)[k] = ts[j]
         /\ \A B : Share(ts, B) => Cells(ts[i]) \subseteq B /\ Share(RemoveAt(ts, i), B \ Cells(ts[i]))
  <1>1. PICK n \in Nat : n = Len(ts) /\ DOMAIN ts = 1..n
    OBVIOUS
  <1>2. PICK r : r = RemoveAt(ts, i)
    OBVIOUS
  <1>3. /\ r \in Seq(TileSet) /\ Len(r) = n - 1 /\ DOMAIN r = 1..(n - 1)
        /\ \A k \in 1..(n - 1) : r[k] = ts[IF k < i THEN k ELSE k + 1]
    <2>1. i \in 1..n
      BY <1>1
    <2>2. PICK a, b : a = SubSeq(ts, 1, i - 1) /\ b = SubSeq(ts, i + 1, n) /\ r = a \o b
      BY <1>1, <1>2 DEF RemoveAt
    <2>3. a \in Seq(TileSet) /\ Len(a) = i - 1 /\ \A k \in 1..(i - 1) : a[k] = ts[k]
      BY <1>1, <2>1, <2>2
    <2>4. b \in Seq(TileSet) /\ Len(b) = n - i /\ \A k \in 1..(n - i) : b[k] = ts[i + k]
      <3>1. i + 1 \in 1..(n + 1) /\ i \in Nat /\ n \in Nat
        BY <2>1
      <3>2. b = [k \in 1..(n - i) |-> ts[i + k]]
        <4>1. SubSeq(ts, i + 1, n) = [k \in 1..((n - (i + 1)) + 1) |-> ts[((i + 1) + k) - 1]]
          BY <1>1, <3>1
        <4>2. (n - (i + 1)) + 1 = n - i /\ \A k \in 1..(n - i) : ((i + 1) + k) - 1 = i + k
          BY <3>1
        <4>3. QED
          BY <2>2, <4>1, <4>2
      <3>3. n - i \in Nat /\ \A k \in 1..(n - i) : i + k \in 1..n
        BY <2>1
      <3>4. b \in [1..(n - i) -> TileSet]
        BY <1>1, <3>2, <3>3
      <3>5. \A m \in Nat : \A F : F \in [1..m -> TileSet] => F \in Seq(TileSet) /\ Len(F) = m
        OBVIOUS
      <3>6. QED
        BY <3>2, <3>3, <3>4, <3>5
    <2>5. /\ r \in Seq(TileSet) /\ Len(r) = n - 1
          /\ \A k \in 1..(i - 1) : r[k] = a[k]
          /\ \A l \in 1..(n - i) : r[l + (i - 1)] = b[l]
      <3>2. /\ r \in Seq(TileSet) /\ Len(r) = (i - 1) + (n - i)
            /\ \A k \in 1..(i - 1) : r[k] = a[k]
            /\ \A l \in 1..(n - i) : r[l + (i - 1)] = b[l]
        <4>1. a \in Seq(TileSet) /\ b \in Seq(TileSet) /\ r = a \o b /\ Len(a) = i - 1 /\ Len(b) = n - i
          BY <2>2, <2>3, <2>4
        <4>2. /\ r \in Seq(TileSet) /\ Len(r) = Len(a) + Len(b)
              /\ \A k \in 1..Len(a) : r[k] = a[k]
              /\ \A l \in 1..Len(b) : r[l + Len(a)] = b[l]
          <5>1. PICK x \in Nat, y \in Nat : x = Len(a) /\ y = Len(b)
            BY <4>1
          <5>2. /\ r \in Seq(TileSet) /\ Len(r) = x + y
                /\ \A k \in 1..(x + y) : r[k] = IF k <= x THEN a[k] ELSE b[k - x]
            BY <4>1, <5>1, ConcatProperties
          <5>3. \A k \in 1..x : k \in 1..(x + y) /\ k <= x
            BY <5>1
          <5>4. \A l \in 1..y : l + x \in 1..(x + y) /\ ~ (l + x <= x) /\ (l + x) - x = l
            BY <5>1
          <5>5. \A k \in 1..x : r[k] = a[k]
            BY <5>2, <5>3
          <5>6. ASSUME NEW l \in 1..y PROVE r[l + x] = b[l]
            <6>1. PICK k \in 1..(x + y) : k = l + x /\ ~ (k <= x) /\ k - x = l
              BY <5>4
            <6>2. r[k] = b[k - x]
              BY <5>2, <6>1
            <6>3. QED
              BY <6>1, <6>2
          <5>7. QED
            BY <5>1, <5>2, <5>5, <5>6
        <4>3. QED
          BY <4>1, <4>2, Zenon
      <3>3. QED
        BY <2>1, <3>2
    <2>6. ASSUME NEW k \in 1..(n - 1) PROVE r[k] = ts[IF k < i THEN k ELSE k + 1]
      <3>1. CASE k < i
        <4>1. k \in 1..(i - 1)
          BY <2>1, <3>1
        <4>2. QED
          BY <2>3, <2>5, <3>1, <4>1
      <3>2. CASE ~ (k < i)
        <4>1. r[k] = b[k - (i - 1)]
          <5>1. k - (i - 1) \in 1..(n - i) /\ (k - (i - 1)) + (i - 1) = k
            BY <2>1, <3>2
          <5>2. PICK l \in 1..(n - i) : l = k - (i - 1) /\ l + (i - 1) = k
            BY <5>1
          <5>3. QED
            BY <2>5, <5>2
        <4>2. k - (i - 1) \in 1..(n - i) /\ i + (k - (i - 1)) = k + 1
          BY <2>1, <3>2
        <4>3. QED
          BY <2>4, <3>2, <4>1, <4>2
      <3>3. QED
        BY <3>1, <3>2
    <2>7. QED
      BY <2>5, <2>6
  <1>4. PICK from : from = [k \in 1..(n - 1) |-> IF k < i THEN k ELSE k + 1]
    OBVIOUS
  <1>5. /\ \A k \in 1..(n - 1) : from[k] \in 1..n /\ from[k] # i /\ r[k] = ts[from[k]]
        /\ \A j, k \in 1..(n - 1) : j # k => from[j] # from[k]
        /\ \A j \in 1..n : j # i => \E k \in 1..(n - 1) : from[k] = j
    <2>1. i \in 1..n
      BY <1>1
    <2>2. \A k \in 1..(n - 1) : from[k] \in 1..n /\ from[k] # i /\ r[k] = ts[from[k]]
      BY <1>3, <1>4, <2>1
    <2>3. \A j, k \in 1..(n - 1) : j # k => from[j] # from[k]
      BY <1>4, <2>1
    <2>4. ASSUME NEW j \in 1..n, j # i PROVE \E k \in 1..(n - 1) : from[k] = j
      <3>1. CASE j < i
        <4>1. j \in 1..(n - 1) /\ from[j] = j
          BY <1>4, <2>1, <3>1
        <4>2. QED
          BY <4>1
      <3>2. CASE j > i
        <4>1. j - 1 \in 1..(n - 1) /\ from[j - 1] = j
          BY <1>4, <2>1, <3>2
        <4>2. QED
          BY <4>1
      <3>3. QED
        BY <2>1, <2>4, <3>1, <3>2
    <2>5. QED
      BY <2>2, <2>3, <2>4
  <1>6. ASSUME NEW B, Share(ts, B) PROVE Cells(ts[i]) \subseteq B /\ Share(r, B \ Cells(ts[i]))
    <2>1. PICK C : C = [k \in 1..n |-> Cells(ts[k])]
      OBVIOUS
    <2>2. (\A j, k \in 1..n : j # k => C[j] \cap C[k] = {}) /\ B = UNION {C[k] : k \in 1..n}
      BY <1>1, <1>6, <2>1 DEF Share, Occupied
    <2>3. PICK D : D = [k \in 1..(n - 1) |-> Cells(r[k])]
      OBVIOUS
    <2>4. \A k \in 1..(n - 1) : D[k] = C[from[k]]
      BY <1>5, <2>1, <2>3
    <2>5. \A j, k \in 1..(n - 1) : j # k => D[j] \cap D[k] = {}
      <3> SUFFICES ASSUME NEW j \in 1..(n - 1), NEW k \in 1..(n - 1), j # k PROVE D[j] \cap D[k] = {}
        OBVIOUS
      <3>1. PICK f \in 1..n, g \in 1..n : f = from[j] /\ g = from[k] /\ f # g
        BY <1>5
      <3>2. QED
        BY <2>2, <2>4, <3>1
    <2>6. i \in 1..n /\ Cells(ts[i]) = C[i]
      BY <1>1, <2>1
    <2>7. B \ C[i] = UNION {D[k] : k \in 1..(n - 1)}
      <3>1. ASSUME NEW p \in B \ C[i] PROVE \E k \in 1..(n - 1) : p \in D[k]
        <4>1. PICK j \in 1..n : p \in C[j]
          BY <2>2, <3>1
        <4>2. j # i
          BY <3>1, <4>1
        <4>3. PICK k \in 1..(n - 1) : from[k] = j
          BY <1>5, <4>2
        <4>4. QED
          BY <2>4, <4>1, <4>3
      <3>2. ASSUME NEW k \in 1..(n - 1), NEW p \in D[k] PROVE p \in B \ C[i]
        <4>1. PICK f \in 1..n : f = from[k] /\ f # i
          BY <1>5
        <4>2. p \in C[f] /\ C[f] \subseteq B /\ C[f] \cap C[i] = {}
          BY <2>2, <2>4, <2>6, <3>2, <4>1
        <4>3. QED
          BY <4>2
      <3>3. QED
        BY <3>1, <3>2
    <2>8. C[i] \subseteq B
      BY <2>2, <2>6
    <2>9. DOMAIN r = 1..(n - 1) /\ \A k \in 1..(n - 1) : Cells(r[k]) = D[k]
      BY <1>3, <2>3
    <2>10. Occupied(r) = UNION {D[k] : k \in 1..(n - 1)}
      BY <2>9 DEF Occupied
    <2>11. \A j, k \in DOMAIN r : j # k => Cells(r[j]) \cap Cells(r[k]) = {}
      BY <2>5, <2>9
    <2>12. Share(r, B \ C[i])
      BY <2>7, <2>10, <2>11 DEF Share
    <2>13. QED
      BY <2>6, <2>8, <2>12
  <1>7. \A k \in DOMAIN r : \E j \in DOMAIN ts : r[k] = ts[j]
    <2>1. ASSUME NEW k \in 1..(n - 1) PROVE \E j \in 1..n : r[k] = ts[j]
      <3>1. from[k] \in 1..n /\ r[k] = ts[from[k]]
        BY <1>5
      <3>2. QED
        BY <3>1
    <2>2. QED
      BY <1>1, <1>3, <2>1
  <1>8. QED
    BY <1>1, <1>2, <1>3, <1>6, <1>7

(***************************************************************************)
(* An exchange, a drag                                                     *)
(***************************************************************************)

\* Two tiles that change places keep the grid shared.
LEMMA SwapShares ==
  ASSUME NEW ts \in Seq(TileSet), NEW i \in DOMAIN ts, NEW j \in DOMAIN ts, i # j, NEW us,
         us = [ts EXCEPT ![i].at = ts[j].at, ![i].span = ts[j].span,
                         ![j].at = ts[i].at, ![j].span = ts[i].span]
  PROVE  /\ us \in Seq(TileSet) /\ Len(us) = Len(ts) /\ \A k \in DOMAIN us : us[k].was = ts[k].was
         /\ \A B : Share(ts, B) => Share(us, B)
  <1>1. PICK n \in Nat : n = Len(ts) /\ DOMAIN ts = 1..n
    OBVIOUS
  <1>2. ts \in [1..n -> TileSet] /\ i \in 1..n /\ j \in 1..n
    BY <1>1
  <1>3. PICK a, b : a = ts[i] /\ b = ts[j] /\ a \in TileSet /\ b \in TileSet
    BY <1>2
  <1>4. PICK c, d : c = [at |-> b.at, span |-> b.span, was |-> a.was] /\ d = [at |-> a.at, span |-> a.span, was |-> b.was]
    OBVIOUS
  <1>5. c \in TileSet /\ d \in TileSet /\ Cells(c) = Cells(b) /\ Cells(d) = Cells(a)
    <2>1. c \in TileSet /\ d \in TileSet
      BY <1>3, <1>4 DEF TileSet, OnGrid, FarEnd
    <2>2. c.at = b.at /\ c.span = b.span /\ d.at = a.at /\ d.span = a.span
      BY <1>4
    <2>3. QED
      BY <2>1, <2>2 DEF Cells, FarEnd
  <1>6. us = [k \in 1..n |-> IF k = i THEN c ELSE IF k = j THEN d ELSE ts[k]]
    <2>1. PICK e : e = [a EXCEPT !.at = b.at, !.span = b.span]
      OBVIOUS
    <2>2. PICK f : f = [b EXCEPT !.at = a.at, !.span = a.span]
      OBVIOUS
    <2>3. us = [ts EXCEPT ![i] = e, ![j] = f]
      BY <1>2, <1>3, <2>1, <2>2
    <2>4. e = c /\ f = d
      <3>1. \A t \in TileSet : t = [at |-> t.at, span |-> t.span, was |-> t.was]
        BY DEF TileSet
      <3>2. PICK x, y, z, w, r, s : x = a.at /\ y = a.span /\ z = a.was /\ w = b.at /\ r = b.span /\ s = b.was
        OBVIOUS
      <3>3. a = [at |-> x, span |-> y, was |-> z] /\ b = [at |-> w, span |-> r, was |-> s]
        BY <1>3, <3>1, <3>2
      <3>4. e = [at |-> w, span |-> r, was |-> z] /\ f = [at |-> x, span |-> y, was |-> s]
        BY <2>1, <2>2, <3>3
      <3>5. QED
        BY <1>4, <3>2, <3>4
    <2>5. QED
      BY <1>2, <2>3, <2>4
  <1>7. us \in [1..n -> TileSet]
    BY <1>2, <1>5, <1>6
  <1>8. us \in Seq(TileSet) /\ Len(us) = n /\ DOMAIN us = 1..n
    <2>1. \A F : F \in [1..n -> TileSet] => F \in Seq(TileSet) /\ Len(F) = n /\ DOMAIN F = 1..n
      OBVIOUS
    <2>2. QED
      BY <1>7, <2>1
  <1>9. ASSUME NEW B, Share(ts, B) PROVE Share(us, B)
    <2>1. PICK C : C = [k \in 1..n |-> Cells(ts[k])]
      OBVIOUS
    <2>2. (\A l, k \in 1..n : l # k => C[l] \cap C[k] = {}) /\ B = UNION {C[k] : k \in 1..n}
      BY <1>1, <1>9, <2>1 DEF Share, Occupied
    <2>3. PICK p : p = [k \in 1..n |-> IF k = i THEN j ELSE IF k = j THEN i ELSE k]
      OBVIOUS
    <2>4. PICK D : D = [k \in 1..n |-> Cells(us[k])]
      OBVIOUS
    <2>5. \A k \in 1..n : p[k] \in 1..n /\ D[k] = C[p[k]] /\ p[p[k]] = k
      BY <1>2, <1>3, <1>5, <1>6, <2>1, <2>3, <2>4
    <2>6. \A l, k \in 1..n : l # k => D[l] \cap D[k] = {}
      <3> SUFFICES ASSUME NEW l \in 1..n, NEW k \in 1..n, l # k PROVE D[l] \cap D[k] = {}
        OBVIOUS
      <3>1. p[l] \in 1..n /\ p[k] \in 1..n /\ p[p[l]] = l /\ p[p[k]] = k /\ D[l] = C[p[l]] /\ D[k] = C[p[k]]
        BY <2>5
      <3>2. PICK f \in 1..n, g \in 1..n : f = p[l] /\ g = p[k]
        BY <3>1
      <3>3. f # g
        BY <3>1, <3>2
      <3>4. D[l] = C[f] /\ D[k] = C[g]
        BY <3>1, <3>2
      <3>5. C[f] \cap C[g] = {}
        BY <2>2, <3>3
      <3>6. QED
        BY <3>4, <3>5
    <2>7. B = UNION {D[k] : k \in 1..n}
      <3>1. ASSUME NEW z \in B PROVE \E k \in 1..n : z \in D[k]
        <4>1. PICK k \in 1..n : z \in C[k]
          BY <2>2
        <4>2. p[k] \in 1..n /\ D[p[k]] = C[k]
          BY <2>5
        <4>3. QED
          BY <4>1, <4>2
      <3>2. ASSUME NEW k \in 1..n, NEW z \in D[k] PROVE z \in B
        BY <2>2, <2>5
      <3>3. QED
        BY <3>1, <3>2
    <2>8. Occupied(us) = B
      <3>1. Occupied(us) = UNION {Cells(us[k]) : k \in 1..n}
        BY <1>8 DEF Occupied
      <3>2. QED
        BY <2>4, <2>7, <3>1
    <2>9. \A l, k \in DOMAIN us : l # k => Cells(us[l]) \cap Cells(us[k]) = {}
      <3> SUFFICES ASSUME NEW l \in DOMAIN us, NEW k \in DOMAIN us, l # k
                   PROVE  Cells(us[l]) \cap Cells(us[k]) = {}
        OBVIOUS
      <3>1. l \in 1..n /\ k \in 1..n /\ Cells(us[l]) = D[l] /\ Cells(us[k]) = D[k]
        BY <1>8, <2>4
      <3>2. D[l] \cap D[k] = {}
        BY <2>6, <3>1
      <3>3. QED
        BY <3>1, <3>2
    <2>10. QED
      BY <2>8, <2>9 DEF Share
  <1>10. \A k \in DOMAIN us : us[k].was = ts[k].was
    <2>1. c.was = a.was /\ d.was = b.was
      BY <1>4
    <2>2. QED
      BY <1>3, <1>6, <1>8, <2>1
  <1>11. QED
    BY <1>1, <1>8, <1>9, <1>10

(* The outlines of tiles along and across an axis, as tables.                *)
InBox(L, R, D, U, k, u, v) == L[k] <= u /\ u < R[k] /\ D[k] <= v /\ v < U[k]

(* The ends that are at a line, moved with it. *)
Slid(n, L, line, step) == [k \in 1..n |-> IF L[k] = line THEN line + step ELSE L[k]]

(* A line that ends one tile where another begins, all along its length.     *)
Divides(n, L, R, D, U, line, step) ==
  /\ n \in Nat /\ line \in Int /\ step \in Int
  /\ L \in [1..n -> Int] /\ R \in [1..n -> Int] /\ D \in [1..n -> Int] /\ U \in [1..n -> Int]
  /\ \A k \in 1..n : L[k] < R[k]
  /\ \A k \in 1..n : R[k] = line => L[k] < line + step
  /\ \A k \in 1..n : L[k] = line => line + step < R[k]
  /\ \A u, v \in Int : \A i, j \in 1..n : InBox(L, R, D, U, i, u, v) /\ InBox(L, R, D, U, j, u, v) => i = j
  /\ \A v \in Int : \A i \in 1..n : (D[i] <= v /\ v < U[i] /\ (R[i] = line \/ L[i] = line))
       => \E k, m \in 1..n : InBox(L, R, D, U, k, line - 1, v) /\ InBox(L, R, D, U, m, line, v)

\* A cell of a moved tile was the tile's own, or that of its neighbour across
\* the line in the same row.
LEMMA MovedCell ==
  ASSUME NEW n, NEW L, NEW R, NEW D, NEW U, NEW line, NEW step, Divides(n, L, R, D, U, line, step),
         NEW M, M = Slid(n, L, line, step),
         NEW N, N = Slid(n, R, line, step),
         NEW i \in 1..n, NEW u \in Int, NEW v \in Int, InBox(M, N, D, U, i, u, v)
  PROVE  \/ InBox(L, R, D, U, i, u, v)
         \/ /\ R[i] = line /\ line <= u /\ u < line + step /\ InBox(L, R, D, U, i, line - 1, v)
            /\ \E m \in 1..n : L[m] = line /\ InBox(L, R, D, U, m, u, v)
         \/ /\ L[i] = line /\ line + step <= u /\ u < line /\ InBox(L, R, D, U, i, line, v)
            /\ \E m \in 1..n : R[m] = line /\ InBox(L, R, D, U, m, u, v)
  <1> USE DEF Divides, InBox, Slid
  <1>1. L[i] < R[i] /\ L[i] \in Int /\ R[i] \in Int /\ D[i] <= v /\ v < U[i] /\ M[i] <= u /\ u < N[i]
    OBVIOUS
  <1>2. ~ (L[i] = line /\ R[i] = line)
    BY <1>1
  <1>3. CASE R[i] = line
    <2>1. M[i] = L[i] /\ N[i] = line + step
      BY <1>1, <1>3
    <2>2. CASE u < line
      BY <1>1, <1>3, <2>1, <2>2
    <2>3. CASE line <= u
      <3>1. PICK k \in 1..n, m \in 1..n : InBox(L, R, D, U, k, line - 1, v) /\ InBox(L, R, D, U, m, line, v)
        BY <1>1, <1>3
      <3>2. InBox(L, R, D, U, i, line - 1, v)
        BY <1>1, <1>3
      <3>3. m # i
        BY <1>3, <3>1
      <3>4. PICK A, C, E, F \in Int : A = L[m] /\ C = R[m] /\ E = D[m] /\ F = U[m]
        OBVIOUS
      <3>5. A = line
        <4>1. ~ InBox(L, R, D, U, m, line - 1, v)
          BY <3>2, <3>3
        <4>2. A <= line /\ line < C /\ E <= v /\ v < F
          BY <3>1, <3>4
        <4>3. ~ (A <= line - 1)
          BY <3>4, <4>1, <4>2
        <4>4. QED
          BY <4>2, <4>3
      <3>6. L[m] = line /\ InBox(L, R, D, U, m, u, v)
        <4>1. A <= line /\ line < C /\ E <= v /\ v < F
          BY <3>1, <3>4
        <4>2. line + step < C
          BY <3>4, <3>5
        <4>3. u < line + step
          BY <1>1, <2>1
        <4>4. A <= u /\ u < C /\ E <= v /\ v < F
          BY <2>3, <3>5, <4>1, <4>2, <4>3
        <4>5. QED
          BY <3>4, <3>5, <4>4
      <3>7. QED
        BY <1>1, <1>3, <2>1, <2>3, <3>2, <3>6
    <2>4. QED
      BY <2>2, <2>3
  <1>4. CASE L[i] = line
    <2>1. N[i] = R[i] /\ M[i] = line + step
      BY <1>1, <1>4
    <2>2. CASE line <= u
      BY <1>1, <1>4, <2>1, <2>2
    <2>3. CASE u < line
      <3>1. PICK k \in 1..n, m \in 1..n : InBox(L, R, D, U, k, line - 1, v) /\ InBox(L, R, D, U, m, line, v)
        BY <1>1, <1>4
      <3>2. InBox(L, R, D, U, i, line, v)
        BY <1>1, <1>4
      <3>3. k # i
        BY <1>4, <3>1
      <3>4. PICK A, C, E, F \in Int : A = L[k] /\ C = R[k] /\ E = D[k] /\ F = U[k]
        OBVIOUS
      <3>5. C = line
        <4>1. ~ InBox(L, R, D, U, k, line, v)
          BY <3>2, <3>3
        <4>2. A <= line - 1 /\ line - 1 < C /\ E <= v /\ v < F
          BY <3>1, <3>4
        <4>3. ~ (line < C)
          BY <3>4, <4>1, <4>2
        <4>4. QED
          BY <4>2, <4>3
      <3>6. R[k] = line /\ InBox(L, R, D, U, k, u, v)
        <4>1. A <= line - 1 /\ line - 1 < C /\ E <= v /\ v < F
          BY <3>1, <3>4
        <4>2. A < line + step
          BY <3>4, <3>5
        <4>3. line + step <= u
          BY <1>1, <2>1
        <4>4. A <= u /\ u < C /\ E <= v /\ v < F
          BY <2>3, <3>5, <4>1, <4>2, <4>3
        <4>5. QED
          BY <3>4, <3>5, <4>4
      <3>7. QED
        BY <1>1, <1>4, <2>1, <2>3, <3>2, <3>6
    <2>4. QED
      BY <2>2, <2>3
  <1>5. CASE R[i] # line /\ L[i] # line
    BY <1>1, <1>5
  <1>6. QED
    BY <1>3, <1>4, <1>5

(* A cell in one box at most, and in one now that was in one before.         *)
StaysCovered(n, M, N, L, R, D, U, u, v) ==
  /\ \A i, j \in 1..n : InBox(M, N, D, U, i, u, v) /\ InBox(M, N, D, U, j, u, v) => i = j
  /\ (\E i \in 1..n : InBox(M, N, D, U, i, u, v)) <=> (\E i \in 1..n : InBox(L, R, D, U, i, u, v))

\* A line that moves leaves no cell without a tile and none with two.
LEMMA DividerMoves ==
  ASSUME NEW n, NEW L, NEW R, NEW D, NEW U, NEW line, NEW step, Divides(n, L, R, D, U, line, step),
         NEW M, M = Slid(n, L, line, step),
         NEW N, N = Slid(n, R, line, step),
         NEW u \in Int, NEW v \in Int
  PROVE  StaysCovered(n, M, N, L, R, D, U, u, v)
  <1>1. \A i, j \in 1..n : \A x, y \in Int : InBox(L, R, D, U, i, x, y) /\ InBox(L, R, D, U, j, x, y) => i = j
    BY DEF Divides
  <1>2. line \in Int /\ step \in Int
    BY DEF Divides
  <1>0. \A k \in 1..n : /\ M[k] = IF L[k] = line THEN line + step ELSE L[k]
                        /\ N[k] = IF R[k] = line THEN line + step ELSE R[k]
    BY DEF Slid
  <1>3. ASSUME NEW i \in 1..n, NEW j \in 1..n, InBox(M, N, D, U, i, u, v), InBox(M, N, D, U, j, u, v),
               InBox(L, R, D, U, i, u, v)
        PROVE  i = j
    <2>1. CASE InBox(L, R, D, U, j, u, v)
      BY <1>1, <1>3, <2>1
    <2>2. ASSUME NEW m \in 1..n, L[m] = line, InBox(L, R, D, U, m, u, v), u < line + step PROVE FALSE
      <3>1. m = i
        BY <1>1, <1>3, <2>2
      <3>2. M[i] = line + step
        BY <1>0, <2>2, <3>1
      <3>3. QED
        BY <1>2, <1>3, <2>2, <3>2 DEF InBox
    <2>3. ASSUME NEW m \in 1..n, R[m] = line, InBox(L, R, D, U, m, u, v), line + step <= u PROVE FALSE
      <3>1. m = i
        BY <1>1, <1>3, <2>3
      <3>2. N[i] = line + step
        BY <1>0, <2>3, <3>1
      <3>3. QED
        BY <1>2, <1>3, <2>3, <3>2 DEF InBox
    <2>4. QED
      BY <1>3, <2>1, <2>2, <2>3, MovedCell
  <1>4. ASSUME NEW i \in 1..n, NEW j \in 1..n, InBox(M, N, D, U, i, u, v), InBox(M, N, D, U, j, u, v)
        PROVE  i = j
    <2>1. CASE InBox(L, R, D, U, i, u, v) \/ InBox(L, R, D, U, j, u, v)
      BY <1>3, <1>4, <2>1
    <2>2. CASE ~ InBox(L, R, D, U, i, u, v) /\ ~ InBox(L, R, D, U, j, u, v)
      <3>1. \/ line <= u /\ InBox(L, R, D, U, i, line - 1, v)
            \/ u < line /\ InBox(L, R, D, U, i, line, v)
        BY <1>4, <2>2, MovedCell
      <3>2. \/ line <= u /\ InBox(L, R, D, U, j, line - 1, v)
            \/ u < line /\ InBox(L, R, D, U, j, line, v)
        BY <1>4, <2>2, MovedCell
      <3>3. line - 1 \in Int
        BY <1>2
      <3>4. ~ (line <= u /\ u < line)
        BY <1>2
      <3>5. QED
        BY <1>1, <1>2, <3>1, <3>2, <3>3, <3>4
    <2>3. QED
      BY <2>1, <2>2
  <1>5. ASSUME NEW i \in 1..n, InBox(M, N, D, U, i, u, v) PROVE \E m \in 1..n : InBox(L, R, D, U, m, u, v)
    BY <1>5, MovedCell
  <1>6. ASSUME NEW i \in 1..n, InBox(L, R, D, U, i, u, v) PROVE \E k \in 1..n : InBox(M, N, D, U, k, u, v)
    <2>1. PICK A, C, E, F \in Int : A = L[i] /\ C = R[i] /\ E = D[i] /\ F = U[i]
      BY DEF Divides
    <2>2. A < C /\ A <= u /\ u < C /\ E <= v /\ v < F
      BY <1>6, <2>1 DEF Divides, InBox
    <2>3. M[i] = (IF A = line THEN line + step ELSE A) /\ N[i] = (IF C = line THEN line + step ELSE C)
      BY <1>0, <2>1
    <2>4. CASE InBox(M, N, D, U, i, u, v)
      BY <2>4
    <2>5. ASSUME ~ InBox(M, N, D, U, i, u, v), A = line
          PROVE  \E k \in 1..n : InBox(M, N, D, U, k, u, v)
      <3>1. C # line /\ u < line + step /\ line <= u
        BY <1>2, <2>1, <2>2, <2>3, <2>5 DEF InBox
      <3>2. PICK k \in 1..n, m \in 1..n : InBox(L, R, D, U, k, line - 1, v) /\ InBox(L, R, D, U, m, line, v)
        BY <2>1, <2>2, <2>5 DEF Divides
      <3>3. PICK a, c, e, f \in Int : a = L[k] /\ c = R[k] /\ e = D[k] /\ f = U[k]
        <4>1. L[k] \in Int /\ R[k] \in Int /\ D[k] \in Int /\ U[k] \in Int
          BY DEF Divides
        <4>2. QED
          BY <4>1
      <3>4. a <= line - 1 /\ line - 1 < c /\ e <= v /\ v < f
        BY <3>2, <3>3 DEF InBox
      <3>5. k # i
        <4>1. a # line
          BY <1>2, <3>3, <3>4
        <4>2. QED
          BY <2>1, <2>5, <3>3, <4>1
      <3>6. InBox(L, R, D, U, i, line, v)
        BY <1>2, <2>1, <2>2, <2>5 DEF InBox
      <3>7. c = line
        <4>1. ~ InBox(L, R, D, U, k, line, v)
          BY <1>1, <1>2, <3>5, <3>6
        <4>2. ~ (line < c)
          BY <1>2, <3>3, <3>4, <4>1 DEF InBox
        <4>3. QED
          BY <1>2, <3>4, <4>2
      <3>8. M[k] = a /\ N[k] = line + step
        <4>1. a # line
          BY <1>2, <3>3, <3>4
        <4>2. QED
          BY <1>0, <3>3, <3>7, <4>1
      <3>9. QED
        BY <1>2, <3>1, <3>3, <3>4, <3>8 DEF InBox
    <2>6. ASSUME ~ InBox(M, N, D, U, i, u, v), C = line
          PROVE  \E k \in 1..n : InBox(M, N, D, U, k, u, v)
      <3>1. A # line /\ line + step <= u /\ u < line
        BY <1>2, <2>1, <2>2, <2>3, <2>6 DEF InBox
      <3>2. PICK k \in 1..n, m \in 1..n : InBox(L, R, D, U, k, line - 1, v) /\ InBox(L, R, D, U, m, line, v)
        BY <2>1, <2>2, <2>6 DEF Divides
      <3>3. PICK a, c, e, f \in Int : a = L[m] /\ c = R[m] /\ e = D[m] /\ f = U[m]
        <4>1. L[m] \in Int /\ R[m] \in Int /\ D[m] \in Int /\ U[m] \in Int
          BY DEF Divides
        <4>2. QED
          BY <4>1
      <3>4. a <= line /\ line < c /\ e <= v /\ v < f
        BY <3>2, <3>3 DEF InBox
      <3>5. m # i
        <4>1. c # line
          BY <1>2, <3>3, <3>4
        <4>2. QED
          BY <2>1, <2>6, <3>3, <4>1
      <3>6. InBox(L, R, D, U, i, line - 1, v)
        BY <1>2, <2>1, <2>2, <2>6, <3>1 DEF InBox
      <3>7. a = line
        <4>1. line - 1 \in Int
          BY <1>2
        <4>2. ~ InBox(L, R, D, U, m, line - 1, v)
          BY <1>1, <3>5, <3>6, <4>1
        <4>3. ~ (a <= line - 1)
          BY <1>2, <3>3, <3>4, <4>2 DEF InBox
        <4>4. QED
          BY <1>2, <3>4, <4>3
      <3>8. N[m] = c /\ M[m] = line + step
        <4>1. c # line
          BY <1>2, <3>3, <3>4
        <4>2. QED
          BY <1>0, <3>3, <3>7, <4>1
      <3>9. QED
        BY <1>2, <3>1, <3>3, <3>4, <3>8 DEF InBox
    <2>7. QED
      <3>1. A # line /\ C # line => M[i] = L[i] /\ N[i] = R[i]
        BY <2>1, <2>3
      <3>2. A # line /\ C # line => InBox(M, N, D, U, i, u, v)
        BY <1>6, <3>1 DEF InBox
      <3>3. QED
        BY <2>4, <2>5, <2>6, <3>2
  <1>7. QED
    BY <1>4, <1>5, <1>6 DEF StaysCovered

(* The tiles with their outlines moved along an axis, where they end or      *)
(* begin at a line.                                                          *)
Shifted(us, ts, axis, line, step) ==
  /\ DOMAIN us = DOMAIN ts
  /\ \A i \in DOMAIN ts :
       /\ us[i].at[axis] = IF ts[i].at[axis] = line THEN line + step ELSE ts[i].at[axis]
       /\ FarEnd(us[i], axis) = IF FarEnd(ts[i], axis) = line THEN line + step ELSE FarEnd(ts[i], axis)
       /\ us[i].at[Across(axis)] = ts[i].at[Across(axis)]
       /\ FarEnd(us[i], Across(axis)) = FarEnd(ts[i], Across(axis))

(* A line within the grid with no open cell beside it, and room to move it.  *)
Movable(ts, hole, axis, line, step) ==
  /\ line \in 1..Grid-1 /\ step \in Int
  /\ \A v \in 0..Grid-1 : CellAt(axis, line - 1, v) \notin hole /\ CellAt(axis, line, v) \notin hole
  /\ \A i \in DOMAIN ts : FarEnd(ts[i], axis) = line => ts[i].at[axis] < line + step
  /\ \A i \in DOMAIN ts : ts[i].at[axis] = line => line + step < FarEnd(ts[i], axis)

\* A drag of a line with no open cell beside it keeps the grid shared.
LEMMA DragShares ==
  ASSUME NEW ts \in Seq(TileSet), NEW us, NEW hole \in SUBSET Board, Share(ts, Board \ hole),
         NEW axis \in Axes, NEW line, NEW step, Movable(ts, hole, axis, line, step),
         Shifted(us, ts, axis, line, step), \A i \in DOMAIN us : Placed(us[i])
  PROVE  Share(us, Board \ hole)
  <1>1. PICK n \in Nat : n = Len(ts) /\ DOMAIN ts = 1..n
    OBVIOUS
  <1>2. DOMAIN us = 1..n /\ Grid \in Nat /\ line \in Int /\ step \in Int /\ 1 <= line /\ line < Grid
    BY <1>1, TilesAssumption DEF Shifted, Movable
  <1>3. PICK L : L = [k \in 1..n |-> ts[k].at[axis]]
    OBVIOUS
  <1>4. PICK R : R = [k \in 1..n |-> FarEnd(ts[k], axis)]
    OBVIOUS
  <1>5. PICK D : D = [k \in 1..n |-> ts[k].at[Across(axis)]]
    OBVIOUS
  <1>6. PICK U : U = [k \in 1..n |-> FarEnd(ts[k], Across(axis))]
    OBVIOUS
  <1>7. \A k \in 1..n : OnGrid(ts[k]) /\ Placed(ts[k])
    BY <1>1, TileOnBoard DEF TileSet
  <1>8. \A k \in 1..n : /\ L[k] \in Int /\ R[k] \in Int /\ D[k] \in Int /\ U[k] \in Int
                        /\ L[k] < R[k] /\ 0 <= D[k] /\ U[k] <= Grid
    <2> SUFFICES ASSUME NEW k \in 1..n
                 PROVE  /\ L[k] \in Int /\ R[k] \in Int /\ D[k] \in Int /\ U[k] \in Int
                        /\ L[k] < R[k] /\ 0 <= D[k] /\ U[k] <= Grid
      OBVIOUS
    <2>1. PICK b \in Axes : b = Across(axis)
      BY DEF Across, Axes
    <2>2. PICK A, S : A = ts[k].at /\ S = ts[k].span
      OBVIOUS
    <2>3. A \in [Axes -> 0..Grid-1] /\ S \in [Axes -> 1..Grid] /\ \A a \in Axes : A[a] + S[a] <= Grid
      BY <1>7, <2>2 DEF OnGrid, FarEnd
    <2>4. L[k] = A[axis] /\ R[k] = A[axis] + S[axis] /\ D[k] = A[b] /\ U[k] = A[b] + S[b]
      BY <1>3, <1>4, <1>5, <1>6, <2>1, <2>2 DEF FarEnd
    <2>5. /\ A[axis] \in Int /\ S[axis] \in Int /\ 1 <= S[axis] /\ A[b] \in Int /\ S[b] \in Int /\ 0 <= A[b]
          /\ A[b] + S[b] <= Grid
      BY <1>2, <2>3
    <2>6. QED
      BY <1>2, <2>4, <2>5
  <1>9. \A k \in 1..n : \A u, v \in Int : Covers(ts[k], axis, u, v) <=> InBox(L, R, D, U, k, u, v)
    BY <1>3, <1>4, <1>5, <1>6 DEF Covers, InBox
  <1>10. \A u, v \in Int : /\ \A i, j \in 1..n : InBox(L, R, D, U, i, u, v) /\ InBox(L, R, D, U, j, u, v) => i = j
                           /\ CellAt(axis, u, v) \in Board \ hole <=> \E i \in 1..n : InBox(L, R, D, U, i, u, v)
    <2> SUFFICES ASSUME NEW u \in Int, NEW v \in Int
                 PROVE  /\ \A i, j \in 1..n : InBox(L, R, D, U, i, u, v) /\ InBox(L, R, D, U, j, u, v) => i = j
                        /\ CellAt(axis, u, v) \in Board \ hole <=> \E i \in 1..n : InBox(L, R, D, U, i, u, v)
      OBVIOUS
    <2>1. PICK B : B = Board \ hole
      OBVIOUS
    <2>2. Share(ts, B) /\ \A i \in DOMAIN ts : Placed(ts[i])
      BY <1>1, <1>7, <2>1
    <2>3. /\ \A i, j \in DOMAIN ts : Covers(ts[i], axis, u, v) /\ Covers(ts[j], axis, u, v) => i = j
          /\ CellAt(axis, u, v) \in B <=> \E i \in DOMAIN ts : Covers(ts[i], axis, u, v)
      BY <2>2, ShareByCrossings
    <2>4. QED
      BY <1>1, <1>9, <2>1, <2>3
  <1>11. ASSUME NEW v \in Int, NEW i \in 1..n, D[i] <= v, v < U[i]
         PROVE  \E k, m \in 1..n : InBox(L, R, D, U, k, line - 1, v) /\ InBox(L, R, D, U, m, line, v)
    <2>1. v \in 0..Grid-1
      <3>1. PICK d, e \in Int : d = D[i] /\ e = U[i] /\ 0 <= d /\ e <= Grid
        BY <1>8
      <3>2. QED
        BY <1>2, <1>11, <3>1
    <2>2. line - 1 \in Int /\ line - 1 \in 0..Grid-1 /\ line \in 0..Grid-1
      BY <1>2
    <2>3. CellAt(axis, line - 1, v) \in Board \ hole /\ CellAt(axis, line, v) \in Board \ hole
      BY <1>2, <2>1, <2>2, BoardCrossings DEF Movable
    <2>4. QED
      BY <1>2, <1>10, <2>2, <2>3
  <1>12. Divides(n, L, R, D, U, line, step)
    <2>1. L \in [1..n -> Int] /\ R \in [1..n -> Int] /\ D \in [1..n -> Int] /\ U \in [1..n -> Int]
      <3>1. \A k \in 1..n : L[k] \in Int /\ R[k] \in Int /\ D[k] \in Int /\ U[k] \in Int
        BY <1>8
      <3>2. QED
        BY <1>3, <1>4, <1>5, <1>6, <3>1
    <2>2. \A k \in 1..n : /\ L[k] < R[k]
                          /\ R[k] = line => L[k] < line + step
                          /\ L[k] = line => line + step < R[k]
      BY <1>1, <1>3, <1>4, <1>8 DEF Movable
    <2>3. QED
      BY <1>2, <1>10, <1>11, <2>1, <2>2 DEF Divides
  <1>13. PICK M : M = Slid(n, L, line, step)
    OBVIOUS
  <1>14. PICK N : N = Slid(n, R, line, step)
    OBVIOUS
  <1>15. \A k \in 1..n : \A u, v \in Int : Covers(us[k], axis, u, v) <=> InBox(M, N, D, U, k, u, v)
    <2> SUFFICES ASSUME NEW k \in 1..n, NEW u \in Int, NEW v \in Int
                 PROVE  Covers(us[k], axis, u, v) <=> InBox(M, N, D, U, k, u, v)
      OBVIOUS
    <2>1. /\ us[k].at[axis] = M[k] /\ FarEnd(us[k], axis) = N[k]
          /\ us[k].at[Across(axis)] = D[k] /\ FarEnd(us[k], Across(axis)) = U[k]
      BY <1>1, <1>3, <1>4, <1>5, <1>6, <1>13, <1>14 DEF Shifted, Slid
    <2>2. QED
      BY <2>1 DEF Covers, InBox
  <1>16. Board \ hole \in SUBSET (Int \X Int)
    BY <1>2 DEF Board
  <1>17. \A u, v \in Int :
           /\ \A i, j \in DOMAIN us : Covers(us[i], axis, u, v) /\ Covers(us[j], axis, u, v) => i = j
           /\ CellAt(axis, u, v) \in Board \ hole <=> \E i \in DOMAIN us : Covers(us[i], axis, u, v)
    <2> SUFFICES ASSUME NEW u \in Int, NEW v \in Int
                 PROVE  /\ \A i, j \in DOMAIN us : Covers(us[i], axis, u, v) /\ Covers(us[j], axis, u, v) => i = j
                        /\ CellAt(axis, u, v) \in Board \ hole <=> \E i \in DOMAIN us : Covers(us[i], axis, u, v)
      OBVIOUS
    <2>1. StaysCovered(n, M, N, L, R, D, U, u, v)
      BY <1>12, <1>13, <1>14, DividerMoves
    <2>2. QED
      BY <1>2, <1>10, <1>15, <2>1 DEF StaysCovered
  <1>18. QED
    BY <1>16, <1>17, CrossingsShare

\* A set of numbers that a number bounds has a greatest.
LEMMA GreatestIsThere ==
  ASSUME NEW S \in SUBSET Int, S # {}, NEW b \in Int, \A x \in S : x <= b
  PROVE  Max(S) \in S /\ \A x \in S : x <= Max(S)
  <1>1. PICK D : D = {b - x : x \in S}
    OBVIOUS
  <1>2. D \in SUBSET Nat /\ D # {}
    <2>1. ASSUME NEW x \in S PROVE b - x \in Nat
      <3>1. x \in Int /\ x <= b
        OBVIOUS
      <3>2. QED
        BY <3>1
    <2>2. QED
      BY <1>1, <2>1
  <1>3. PICK d \in D : \A y \in D : d <= y
    BY <1>2, LeastOfNats
  <1>4. PICK m \in S : d = b - m
    BY <1>1
  <1>5. \A x \in S : m >= x
    <2> SUFFICES ASSUME NEW x \in S PROVE m >= x
      OBVIOUS
    <2>1. b - x \in D /\ x \in Int /\ m \in Int
      BY <1>1
    <2>2. b - m <= b - x
      BY <1>3, <1>4, <2>1
    <2>3. QED
      BY <2>1, <2>2
  <1>6. Max(S) \in S /\ \A x \in S : Max(S) >= x
    BY <1>5, Zenon DEF Max
  <1>7. QED
    BY <1>6

\* A set of numbers that a number bounds has a least.
LEMMA LeastIsThere ==
  ASSUME NEW S \in SUBSET Int, S # {}, NEW b \in Int, \A x \in S : b <= x
  PROVE  Min(S) \in S /\ \A x \in S : Min(S) <= x
  <1>1. PICK D : D = {x - b : x \in S}
    OBVIOUS
  <1>2. D \in SUBSET Nat /\ D # {}
    <2>1. ASSUME NEW x \in S PROVE x - b \in Nat
      <3>1. x \in Int /\ b <= x
        OBVIOUS
      <3>2. QED
        BY <3>1
    <2>2. QED
      BY <1>1, <2>1
  <1>3. PICK d \in D : \A y \in D : d <= y
    BY <1>2, LeastOfNats
  <1>4. PICK m \in S : d = m - b
    BY <1>1
  <1>5. \A x \in S : m <= x
    <2> SUFFICES ASSUME NEW x \in S PROVE m <= x
      OBVIOUS
    <2>1. x - b \in D /\ x \in Int /\ m \in Int
      BY <1>1
    <2>2. m - b <= x - b
      BY <1>3, <1>4, <2>1
    <2>3. QED
      BY <2>1, <2>2
  <1>6. QED
    BY <1>5, Zenon DEF Min

(* The drag in flight: its limits keep its line within the grid, and no tile *)
(* the press saved gets less than the least span.                            *)
EdgeOK(e) ==
  /\ e \in [axis : Axes \cup {"none"}, line : Int, lo : Int, hi : Int, changed : BOOLEAN]
  /\ e.lo <= e.hi /\ 0 <= e.line + e.lo /\ e.line + e.hi <= Grid
KeptIn(w, e) == w # Unsaved =>
  /\ e.axis \in Axes
  /\ FarEnd(w[1], e.axis) = e.line => MinTile <= w[1].span[e.axis] + e.lo
  /\ w[1].at[e.axis] = e.line => MinTile <= w[1].span[e.axis] - e.hi
AsSaved(t) == t.was = <<[at |-> t.at, span |-> t.span]>>

TilesInv ==
  /\ tiles \in Seq(TileSet) /\ Len(tiles) <= MaxTiles
  /\ EdgeOK(edge) /\ gap \in SUBSET Board
  /\ firstSpace \in BOOLEAN /\ laidOut \in BOOLEAN /\ disturbed \in BOOLEAN
  /\ \A i \in DOMAIN tiles : KeptIn(tiles[i].was, edge)
  /\ Dragging /\ ~edge.changed => \A i \in DOMAIN tiles : AsSaved(tiles[i])
  /\ tiles = <<>> /\ 0 < MaxTiles => gap = {}
  /\ tiles # <<>> /\ ~disturbed => Share(tiles, Board \ gap)

\* A tile is its place, its span and what was saved of it.
LEMMA TileFields ==
  /\ \A t \in TileSet :
       /\ t = [at |-> t.at, span |-> t.span, was |-> t.was]
       /\ t.at \in [Axes -> 0..Grid-1] /\ t.span \in [Axes -> 1..Grid]
       /\ \A a \in Axes : t.at[a] + t.span[a] <= Grid
       /\ t.was = Unsaved \/ \E r \in Outlines : t.was = <<r>>
  /\ \A A \in [Axes -> 0..Grid-1], S \in [Axes -> 1..Grid], t \in TileSet :
       (\A a \in Axes : A[a] + S[a] <= Grid) =>
         [at |-> A, span |-> S, was |-> t.was] \in TileSet /\ [at |-> A, span |-> S, was |-> Unsaved] \in TileSet
  /\ \A r \in Outlines :
       /\ r = [at |-> r.at, span |-> r.span]
       /\ r.at \in [Axes -> 0..Grid-1] /\ r.span \in [Axes -> 1..Grid]
       /\ \A a \in Axes : r.at[a] + r.span[a] <= Grid
  <1>1. \A t \in TileSet :
          /\ t = [at |-> t.at, span |-> t.span, was |-> t.was]
          /\ t.at \in [Axes -> 0..Grid-1] /\ t.span \in [Axes -> 1..Grid]
          /\ \A a \in Axes : t.at[a] + t.span[a] <= Grid
          /\ t.was = Unsaved \/ \E r \in Outlines : t.was = <<r>>
    BY DEF TileSet, OnGrid, FarEnd
  <1>2. \A t \in TileSet : t.was \in {Unsaved} \cup {<<r>> : r \in Outlines}
    BY DEF TileSet
  <1>3. ASSUME NEW A \in [Axes -> 0..Grid-1], NEW S \in [Axes -> 1..Grid], \A a \in Axes : A[a] + S[a] <= Grid,
               NEW w \in {Unsaved} \cup {<<r>> : r \in Outlines}
        PROVE  [at |-> A, span |-> S, was |-> w] \in TileSet
    BY <1>3 DEF TileSet, OnGrid, FarEnd
  <1>4. \A r \in Outlines :
          /\ r = [at |-> r.at, span |-> r.span]
          /\ r.at \in [Axes -> 0..Grid-1] /\ r.span \in [Axes -> 1..Grid]
          /\ \A a \in Axes : r.at[a] + r.span[a] <= Grid
    BY DEF Outlines, Rectangles, OnGrid, FarEnd
  <1>5. QED
    BY <1>1, <1>2, <1>3, <1>4

\* What a release rewinds is a tile still, and the same if it is as it was saved.
LEMMA RewoundTile ==
  ASSUME NEW t \in TileSet
  PROVE  /\ Rewound(t) \in TileSet /\ Rewound(t).was = t.was
         /\ t.was # Unsaved => Rewound(t).at = t.was[1].at /\ Rewound(t).span = t.was[1].span
         /\ AsSaved(t) => Rewound(t) = t
  <1>1. PICK A, S, w : A = t.at /\ S = t.span /\ w = t.was
    OBVIOUS
  <1>2. t = [at |-> A, span |-> S, was |-> w] /\ (w = Unsaved \/ \E r \in Outlines : w = <<r>>)
    BY <1>1, TileFields
  <1>3. CASE w = Unsaved
    <2>1. Rewound(t) = t
      BY <1>1, <1>3 DEF Rewound
    <2>2. QED
      BY <1>1, <1>3, <2>1
  <1>4. ASSUME NEW r \in Outlines, w = <<r>>
        PROVE  /\ Rewound(t) \in TileSet /\ Rewound(t).was = t.was
               /\ t.was # Unsaved => Rewound(t).at = t.was[1].at /\ Rewound(t).span = t.was[1].span
               /\ AsSaved(t) => Rewound(t) = t
    <2>1. PICK P, Q : P = r.at /\ Q = r.span
      OBVIOUS
    <2>2. w # Unsaved /\ w[1] = r
      BY <1>4 DEF Unsaved
    <2>3. Rewound(t) = [t EXCEPT !.at = P, !.span = Q]
      BY <1>1, <2>1, <2>2 DEF Rewound
    <2>4. Rewound(t) = [at |-> P, span |-> Q, was |-> w]
      BY <1>2, <2>3
    <2>5. Rewound(t) \in TileSet
      <3>1. P \in [Axes -> 0..Grid-1] /\ Q \in [Axes -> 1..Grid] /\ \A a \in Axes : P[a] + Q[a] <= Grid
        BY <2>1, TileFields
      <3>2. [at |-> P, span |-> Q, was |-> t.was] \in TileSet
        BY <3>1, TileFields
      <3>3. QED
        BY <1>1, <2>4, <3>2
    <2>6. AsSaved(t) => P = A /\ Q = S
      <3>1. SUFFICES ASSUME w = <<[at |-> A, span |-> S]>> PROVE P = A /\ Q = S
        BY <1>1 DEF AsSaved
      <3>2. r = [at |-> A, span |-> S]
        BY <1>4, <3>1
      <3>3. QED
        BY <2>1, <3>2
    <2>7. QED
      BY <1>1, <1>2, <2>1, <2>2, <2>4, <2>5, <2>6
  <1>5. QED
    BY <1>2, <1>3, <1>4

\* What a release moves is a tile still: its end or its beginning goes with
\* the line.
LEMMA MovedTile ==
  ASSUME EdgeOK(edge), edge.axis \in Axes, NEW step \in edge.lo..edge.hi, NEW t \in TileSet,
         NEW isBefore \in BOOLEAN, NEW isAfter \in BOOLEAN,
         isBefore => FarEnd(t, edge.axis) = edge.line /\ MinTile <= t.span[edge.axis] + edge.lo,
         isAfter => t.at[edge.axis] = edge.line /\ MinTile <= t.span[edge.axis] - edge.hi,
         NEW u, u = MovedBy(t, isBefore, isAfter, step)
  PROVE  /\ u \in TileSet /\ u.was = t.was
         /\ u.at[edge.axis] = IF isAfter THEN edge.line + step ELSE t.at[edge.axis]
         /\ FarEnd(u, edge.axis) = IF isBefore THEN edge.line + step ELSE FarEnd(t, edge.axis)
         /\ u.at[Across(edge.axis)] = t.at[Across(edge.axis)]
         /\ FarEnd(u, Across(edge.axis)) = FarEnd(t, Across(edge.axis))
         /\ ~isBefore /\ ~isAfter => u = t
  <1>1. PICK A, S, w : A = t.at /\ S = t.span /\ w = t.was
    OBVIOUS
  <1>2. PICK axis \in Axes : axis = edge.axis
    OBVIOUS
  <1>3. PICK b \in Axes : b = Across(axis) /\ b # axis /\ \A a \in Axes : a = axis \/ a = b
    BY DEF Across, Axes
  <1>4. /\ A \in [Axes -> 0..Grid-1] /\ S \in [Axes -> 1..Grid] /\ \A a \in Axes : A[a] + S[a] <= Grid
        /\ t = [at |-> A, span |-> S, was |-> w]
    BY <1>1, TileFields
  <1>5. PICK L, W, line, lo, hi \in Int : L = A[axis] /\ W = S[axis] /\ line = edge.line /\ lo = edge.lo /\ hi = edge.hi
    <2>1. Grid \in Nat
      BY TilesAssumption
    <2>2. A[axis] \in Int /\ S[axis] \in Int
      BY <1>4, <2>1
    <2>3. edge.line \in Int /\ edge.lo \in Int /\ edge.hi \in Int
      BY DEF EdgeOK
    <2>4. QED
      BY <2>2, <2>3
  <1>6. /\ Grid \in Int /\ MinTile \in Int /\ 1 <= MinTile /\ 0 <= L /\ 1 <= W /\ L + W <= Grid
        /\ step \in Int /\ lo <= step /\ step <= hi /\ 0 <= line + lo /\ line + hi <= Grid
    <2>1. Grid \in Int /\ MinTile \in Int /\ 1 <= MinTile
      BY TilesAssumption
    <2>2. 0 <= L /\ 1 <= W /\ L + W <= Grid
      BY <1>4, <1>5, <2>1
    <2>3. 0 <= line + lo /\ line + hi <= Grid
      BY <1>5 DEF EdgeOK
    <2>4. step \in Int /\ lo <= step /\ step <= hi
      BY <1>5
    <2>5. QED
      BY <2>1, <2>2, <2>3, <2>4
  <1>7. /\ isBefore => L + W = line /\ MinTile <= W + lo
        /\ isAfter => L = line /\ MinTile <= W - hi
    BY <1>1, <1>2, <1>5 DEF FarEnd
  <1>8. ASSUME NEW l \in Int, NEW r \in Int, 0 <= l, 1 <= r, l + r <= Grid,
               u = [at |-> [A EXCEPT ![axis] = l], span |-> [S EXCEPT ![axis] = r], was |-> w]
        PROVE  /\ u \in TileSet /\ u.was = t.was /\ u.at[axis] = l /\ FarEnd(u, axis) = l + r
               /\ u.at[b] = t.at[b] /\ FarEnd(u, b) = FarEnd(t, b)
    <2>1. PICK P, Q : P = [a \in Axes |-> IF a = axis THEN l ELSE A[a]]
                   /\ Q = [a \in Axes |-> IF a = axis THEN r ELSE S[a]]
      OBVIOUS
    <2>2. u = [at |-> P, span |-> Q, was |-> w]
      <3>1. P = [A EXCEPT ![axis] = l] /\ Q = [S EXCEPT ![axis] = r]
        BY <1>4, <2>1
      <3>2. QED
        BY <1>8, <3>1
    <2>3. l \in 0..Grid-1 /\ r \in 1..Grid
      BY <1>6, <1>8
    <2>4. P \in [Axes -> 0..Grid-1] /\ Q \in [Axes -> 1..Grid] /\ \A a \in Axes : P[a] + Q[a] <= Grid
      BY <1>4, <1>8, <2>1, <2>3
    <2>5. [at |-> P, span |-> Q, was |-> t.was] \in TileSet
      BY <2>4, TileFields
    <2>6. u.at = P /\ u.span = Q /\ u.was = w
      BY <2>2
    <2>7. P[axis] = l /\ Q[axis] = r /\ P[b] = A[b] /\ Q[b] = S[b]
      BY <1>3, <2>1
    <2>8. QED
      BY <1>1, <2>2, <2>5, <2>6, <2>7 DEF FarEnd
  <1>9. CASE isBefore
    <2>0. ~isAfter
      BY <1>6, <1>7, <1>9
    <2>1. u = [t EXCEPT !.span[edge.axis] = @ + step]
      BY <1>9, <2>0, Zenon DEF MovedBy
    <2>2. u = [t EXCEPT !.span = [S EXCEPT ![axis] = W + step]]
      BY <1>1, <1>2, <1>5, <2>1
    <2>3. A = [A EXCEPT ![axis] = L]
      BY <1>4, <1>5
    <2>4. u = [at |-> [A EXCEPT ![axis] = L], span |-> [S EXCEPT ![axis] = W + step], was |-> w]
      BY <1>4, <2>2, <2>3
    <2>5. W + step \in Int /\ 1 <= W + step /\ L + (W + step) <= Grid /\ L + (W + step) = line + step
      BY <1>6, <1>7, <1>9
    <2>6. /\ u \in TileSet /\ u.was = t.was /\ u.at[axis] = L /\ FarEnd(u, axis) = line + step
          /\ u.at[b] = t.at[b] /\ FarEnd(u, b) = FarEnd(t, b)
      BY <1>6, <1>8, <2>4, <2>5
    <2>7. QED
      BY <1>1, <1>2, <1>3, <1>5, <1>9, <2>0, <2>6
  <1>10. CASE ~isBefore /\ isAfter
    <2>1. u = [t EXCEPT !.at[axis] = @ + step, !.span[axis] = @ - step]
      BY <1>2, <1>10, Zenon DEF MovedBy
    <2>2. u = [t EXCEPT !.at = [A EXCEPT ![axis] = L + step], !.span = [S EXCEPT ![axis] = W - step]]
      BY <1>1, <1>5, <2>1
    <2>3. u = [at |-> [A EXCEPT ![axis] = L + step], span |-> [S EXCEPT ![axis] = W - step], was |-> w]
      BY <1>4, <2>2
    <2>4. /\ L + step \in Int /\ W - step \in Int /\ 0 <= L + step /\ 1 <= W - step
          /\ (L + step) + (W - step) = L + W /\ L + step = line + step
      BY <1>6, <1>7, <1>10
    <2>5. /\ u \in TileSet /\ u.was = t.was /\ u.at[axis] = line + step /\ FarEnd(u, axis) = L + W
          /\ u.at[b] = t.at[b] /\ FarEnd(u, b) = FarEnd(t, b)
      BY <1>6, <1>8, <2>3, <2>4
    <2>6. FarEnd(t, axis) = L + W
      BY <1>1, <1>5 DEF FarEnd
    <2>7. (IF isAfter THEN line + step ELSE L) = line + step /\ (IF isBefore THEN line + step ELSE L + W) = L + W
      BY <1>10
    <2>8. QED
      BY <1>1, <1>2, <1>3, <1>5, <1>10, <2>5, <2>6, <2>7
  <1>11. CASE ~isBefore /\ ~isAfter
    <2>1. u = t
      BY <1>11, Zenon DEF MovedBy
    <2>2. QED
      BY <1>11, <2>1
  <1>12. QED
    BY <1>9, <1>10, <1>11

\* A release puts tiles of the grid in the place of those there are, and moves
\* a divider whole if the set of panes is what the press saved.
LEMMA CommitTiles ==
  ASSUME TilesInv, Dragging, NEW step \in edge.lo..edge.hi, NEW cs, cs = Committed(step)
  PROVE  /\ DOMAIN cs = DOMAIN tiles /\ \A i \in DOMAIN tiles : cs[i] \in TileSet
         /\ ~edge.changed /\ ~BesideGap /\ Share(tiles, Board \ gap) => Share(cs, Board \ gap)
  <1>1. tiles \in Seq(TileSet) /\ EdgeOK(edge) /\ gap \in SUBSET Board
    BY DEF TilesInv
  <1>2. PICK n \in Nat : n = Len(tiles) /\ DOMAIN tiles = 1..n
    BY <1>1
  <1>3. edge.axis \in Axes
    BY <1>1 DEF EdgeOK, Dragging
  <1>4. PICK back : back = [i \in 1..n |-> Rewound(tiles[i])]
    OBVIOUS
  <1>5. PICK before : before = Before(back, edge.axis, edge.line)
    OBVIOUS
  <1>6. PICK after : after = After(back, edge.axis, edge.line)
    OBVIOUS
  <1>7. cs = IF before = {} \/ after = {} THEN back
             ELSE [i \in 1..n |-> MovedBy(back[i], i \in before, i \in after, step)]
    <2>1. back = [i \in DOMAIN tiles |-> Rewound(tiles[i])] /\ DOMAIN back = 1..n
      BY <1>2, <1>4
    <2>2. Committed(step) =
            LET bk == [i \in DOMAIN tiles |-> Rewound(tiles[i])]
                be == Before(bk, edge.axis, edge.line)
                af == After(bk, edge.axis, edge.line)
            IN IF be = {} \/ af = {} THEN bk ELSE [i \in DOMAIN bk |-> MovedBy(bk[i], i \in be, i \in af, step)]
      BY Zenon DEF Committed
    <2>3. Committed(step) = IF before = {} \/ after = {} THEN back
                            ELSE [i \in DOMAIN back |-> MovedBy(back[i], i \in before, i \in after, step)]
      BY <1>5, <1>6, <2>1, <2>2
    <2>4. QED
      BY <2>1, <2>3
  <1>8. \A i \in 1..n : /\ tiles[i] \in TileSet /\ back[i] \in TileSet /\ back[i].was = tiles[i].was
                        /\ tiles[i].was # Unsaved => /\ back[i].at = tiles[i].was[1].at
                                                     /\ back[i].span = tiles[i].was[1].span
                        /\ AsSaved(tiles[i]) => back[i] = tiles[i]
    <2> SUFFICES ASSUME NEW i \in 1..n
                 PROVE  /\ tiles[i] \in TileSet /\ back[i] \in TileSet /\ back[i].was = tiles[i].was
                        /\ tiles[i].was # Unsaved => /\ back[i].at = tiles[i].was[1].at
                                                     /\ back[i].span = tiles[i].was[1].span
                        /\ AsSaved(tiles[i]) => back[i] = tiles[i]
      OBVIOUS
    <2>1. tiles[i] \in TileSet /\ back[i] = Rewound(tiles[i])
      BY <1>1, <1>2, <1>4
    <2>2. QED
      BY <2>1, RewoundTile
  <1>9. ASSUME NEW i \in 1..n
        PROVE  /\ i \in before => /\ FarEnd(back[i], edge.axis) = edge.line
                                  /\ MinTile <= back[i].span[edge.axis] + edge.lo
               /\ i \in after => /\ back[i].at[edge.axis] = edge.line
                                 /\ MinTile <= back[i].span[edge.axis] - edge.hi
               /\ i \in before <=> back[i].was # Unsaved /\ FarEnd(back[i], edge.axis) = edge.line
               /\ i \in after <=> back[i].was # Unsaved /\ back[i].at[edge.axis] = edge.line
    <2>1. /\ i \in before <=> back[i].was # Unsaved /\ FarEnd(back[i], edge.axis) = edge.line
          /\ i \in after <=> back[i].was # Unsaved /\ back[i].at[edge.axis] = edge.line
      BY <1>4, <1>5, <1>6 DEF Before, After
    <2>2. KeptIn(tiles[i].was, edge)
      BY <1>2 DEF TilesInv
    <2>3. back[i].was # Unsaved =>
            /\ FarEnd(back[i], edge.axis) = edge.line => MinTile <= back[i].span[edge.axis] + edge.lo
            /\ back[i].at[edge.axis] = edge.line => MinTile <= back[i].span[edge.axis] - edge.hi
      BY <1>8, <2>2 DEF KeptIn, FarEnd
    <2>4. QED
      BY <2>1, <2>3
  <1>10. ASSUME ~(before = {} \/ after = {}), NEW i \in 1..n
         PROVE  /\ cs[i] \in TileSet
                /\ cs[i].at[edge.axis] = IF i \in after THEN edge.line + step ELSE back[i].at[edge.axis]
                /\ FarEnd(cs[i], edge.axis) = IF i \in before THEN edge.line + step ELSE FarEnd(back[i], edge.axis)
                /\ cs[i].at[Across(edge.axis)] = back[i].at[Across(edge.axis)]
                /\ FarEnd(cs[i], Across(edge.axis)) = FarEnd(back[i], Across(edge.axis))
    <2>1. PICK isBefore \in BOOLEAN : isBefore <=> i \in before
      OBVIOUS
    <2>2. PICK isAfter \in BOOLEAN : isAfter <=> i \in after
      OBVIOUS
    <2>3. cs[i] = MovedBy(back[i], i \in before, i \in after, step)
      BY <1>7, <1>10
    <2>4. MovedBy(back[i], i \in before, i \in after, step) = MovedBy(back[i], isBefore, isAfter, step)
      <3>1. CASE isBefore /\ isAfter
        BY <2>1, <2>2, <3>1, Zenon DEF MovedBy
      <3>2. CASE isBefore /\ ~isAfter
        BY <2>1, <2>2, <3>2, Zenon DEF MovedBy
      <3>3. CASE ~isBefore /\ isAfter
        BY <2>1, <2>2, <3>3, Zenon DEF MovedBy
      <3>4. CASE ~isBefore /\ ~isAfter
        BY <2>1, <2>2, <3>4, Zenon DEF MovedBy
      <3>5. QED
        BY <3>1, <3>2, <3>3, <3>4
    <2>5. PICK u : u = MovedBy(back[i], isBefore, isAfter, step)
      OBVIOUS
    <2>6. /\ isBefore => FarEnd(back[i], edge.axis) = edge.line /\ MinTile <= back[i].span[edge.axis] + edge.lo
          /\ isAfter => back[i].at[edge.axis] = edge.line /\ MinTile <= back[i].span[edge.axis] - edge.hi
      BY <1>9, <2>1, <2>2
    <2>7. /\ u \in TileSet
          /\ u.at[edge.axis] = IF isAfter THEN edge.line + step ELSE back[i].at[edge.axis]
          /\ FarEnd(u, edge.axis) = IF isBefore THEN edge.line + step ELSE FarEnd(back[i], edge.axis)
          /\ u.at[Across(edge.axis)] = back[i].at[Across(edge.axis)]
          /\ FarEnd(u, Across(edge.axis)) = FarEnd(back[i], Across(edge.axis))
      BY <1>1, <1>3, <1>8, <2>5, <2>6, MovedTile
    <2>8. u = cs[i]
      BY <2>3, <2>4, <2>5
    <2>9. QED
      BY <2>1, <2>2, <2>7, <2>8
  <1>11. DOMAIN cs = DOMAIN tiles
    BY <1>2, <1>4, <1>7
  <1>12. \A i \in DOMAIN tiles : cs[i] \in TileSet
    <2>1. CASE before = {} \/ after = {}
      BY <1>2, <1>7, <1>8, <2>1
    <2>2. CASE ~(before = {} \/ after = {})
      BY <1>2, <1>10, <2>2
    <2>3. QED
      BY <2>1, <2>2
  <1>13. ASSUME ~edge.changed, ~BesideGap, Share(tiles, Board \ gap) PROVE Share(cs, Board \ gap)
    <2>1. \A i \in 1..n : AsSaved(tiles[i]) /\ back[i] = tiles[i] /\ tiles[i].was # Unsaved
      <3>1. \A i \in 1..n : AsSaved(tiles[i])
        BY <1>2, <1>13 DEF TilesInv
      <3>2. \A i \in 1..n : tiles[i].was # Unsaved
        <4>1. \A r : <<r>> # Unsaved
          BY DEF Unsaved
        <4>2. QED
          BY <3>1, <4>1 DEF AsSaved
      <3>3. QED
        BY <1>8, <3>1, <3>2
    <2>2. CASE before = {} \/ after = {}
      <3>1. cs = back
        BY <1>7, <2>2
      <3>2. \A i \in DOMAIN tiles : cs[i] = tiles[i]
        BY <1>2, <2>1, <3>1
      <3>3. QED
        BY <1>11, <1>13, <3>2 DEF Share, Occupied
    <2>3. CASE ~(before = {} \/ after = {})
      <3>1. PICK i \in 1..n, j \in 1..n : i \in before /\ j \in after
        <4>1. before \subseteq 1..n /\ after \subseteq 1..n
          BY <1>4, <1>5, <1>6 DEF Before, After
        <4>2. QED
          BY <2>3, <4>1
      <3>2. /\ FarEnd(tiles[i], edge.axis) = edge.line /\ tiles[i] \in TileSet
            /\ tiles[j].at[edge.axis] = edge.line /\ tiles[j] \in TileSet
        BY <1>8, <1>9, <2>1, <3>1
      <3>3. edge.line \in 1..Grid-1
        <4>1. Grid \in Nat
          BY TilesAssumption
        <4>2. PICK L, W, P \in Int : L = tiles[i].at[edge.axis] /\ W = tiles[i].span[edge.axis] /\ P = tiles[j].at[edge.axis]
                                    /\ 0 <= L /\ 1 <= W /\ P <= Grid - 1
          <5>1. /\ tiles[i].at \in [Axes -> 0..Grid-1] /\ tiles[i].span \in [Axes -> 1..Grid]
                /\ tiles[j].at \in [Axes -> 0..Grid-1]
            BY <3>2, TileFields
          <5>2. QED
            BY <1>3, <4>1, <5>1
        <4>3. edge.line = L + W /\ edge.line = P
          BY <3>2, <4>2 DEF FarEnd
        <4>4. QED
          BY <4>1, <4>2, <4>3
      <3>4. Shifted(cs, tiles, edge.axis, edge.line, step)
        BY <1>2, <1>9, <1>10, <1>11, <2>1, <2>3 DEF Shifted
      <3>5. \A k \in DOMAIN cs : cs[k] \in TileSet /\ Placed(cs[k]) /\ cs[k].at[edge.axis] < FarEnd(cs[k], edge.axis)
        <4> SUFFICES ASSUME NEW k \in DOMAIN cs
                     PROVE  cs[k] \in TileSet /\ Placed(cs[k]) /\ cs[k].at[edge.axis] < FarEnd(cs[k], edge.axis)
          OBVIOUS
        <4>1. cs[k] \in TileSet /\ Placed(cs[k])
          BY <1>11, <1>12, TileOnBoard DEF TileSet
        <4>2. PICK A, S : A = cs[k].at /\ S = cs[k].span
          OBVIOUS
        <4>3. A \in [Axes -> 0..Grid-1] /\ S \in [Axes -> 1..Grid] /\ Grid \in Nat
          BY <4>1, <4>2, TileFields, TilesAssumption
        <4>4. A[edge.axis] \in Int /\ S[edge.axis] \in Int /\ 1 <= S[edge.axis]
          BY <1>3, <4>3
        <4>5. QED
          BY <4>1, <4>2, <4>4 DEF FarEnd
      <3>6. Movable(tiles, gap, edge.axis, edge.line, step)
        <4>1. step \in Int
          BY <1>1 DEF EdgeOK
        <4>2. \A v \in 0..Grid-1 : CellAt(edge.axis, edge.line - 1, v) \notin gap /\ CellAt(edge.axis, edge.line, v) \notin gap
          BY <1>3, <1>13 DEF BesideGap, CellAt
        <4>3. ASSUME NEW k \in DOMAIN tiles
              PROVE  /\ FarEnd(tiles[k], edge.axis) = edge.line => tiles[k].at[edge.axis] < edge.line + step
                     /\ tiles[k].at[edge.axis] = edge.line => edge.line + step < FarEnd(tiles[k], edge.axis)
          <5>1. tiles[k].at[edge.axis] # FarEnd(tiles[k], edge.axis)
            <6>1. PICK A, S : A = tiles[k].at /\ S = tiles[k].span
              OBVIOUS
            <6>2. A \in [Axes -> 0..Grid-1] /\ S \in [Axes -> 1..Grid] /\ Grid \in Nat
              BY <1>2, <1>8, <6>1, TileFields, TilesAssumption
            <6>3. A[edge.axis] \in Int /\ S[edge.axis] \in Int /\ 1 <= S[edge.axis]
              BY <1>3, <6>2
            <6>4. QED
              BY <6>1, <6>3 DEF FarEnd
          <5>2. k \in 1..n /\ tiles[k] = back[k] /\ back[k].was # Unsaved
            BY <1>2, <2>1
          <5>3. /\ cs[k].at[edge.axis] = IF k \in after THEN edge.line + step ELSE back[k].at[edge.axis]
                /\ FarEnd(cs[k], edge.axis) = IF k \in before THEN edge.line + step ELSE FarEnd(back[k], edge.axis)
            BY <1>10, <2>3, <5>2
          <5>4. /\ k \in before <=> FarEnd(tiles[k], edge.axis) = edge.line
                /\ k \in after <=> tiles[k].at[edge.axis] = edge.line
            BY <1>9, <5>2
          <5>5. cs[k].at[edge.axis] < FarEnd(cs[k], edge.axis)
            BY <1>11, <3>5
          <5>6. QED
            BY <5>1, <5>2, <5>3, <5>4, <5>5
        <4>4. QED
          BY <3>3, <4>1, <4>2, <4>3 DEF Movable
      <3>7. QED
        BY <1>1, <1>3, <1>13, <3>4, <3>5, <3>6, DragShares
    <2>4. QED
      BY <2>2, <2>3
  <1>14. QED
    BY <1>11, <1>12, <1>13

\* A release keeps the invariant.
LEMMA EndDragKeeps ==
  ASSUME TilesInv, NEW step, EndDrag(step)
  PROVE  TilesInv'
  <1>1. Dragging /\ step \in edge.lo..edge.hi
    BY DEF EndDrag
  <1>2. PICK cs : cs = Committed(step)
    OBVIOUS
  <1>3. /\ DOMAIN cs = DOMAIN tiles /\ \A i \in DOMAIN tiles : cs[i] \in TileSet
        /\ ~edge.changed /\ ~BesideGap /\ Share(tiles, Board \ gap) => Share(cs, Board \ gap)
    BY <1>1, <1>2, CommitTiles
  <1>4. PICK n \in Nat : n = Len(tiles) /\ DOMAIN tiles = 1..n
    BY DEF TilesInv
  <1>5. PICK us : us = tiles' /\ us = [i \in 1..n |-> [cs[i] EXCEPT !.was = Unsaved]]
    BY <1>2, <1>4 DEF EndDrag
  <1>6. \A i \in 1..n : us[i] \in TileSet /\ us[i].at = cs[i].at /\ us[i].span = cs[i].span /\ us[i].was = Unsaved
    <2> SUFFICES ASSUME NEW i \in 1..n
                 PROVE  us[i] \in TileSet /\ us[i].at = cs[i].at /\ us[i].span = cs[i].span /\ us[i].was = Unsaved
      OBVIOUS
    <2>1. PICK t \in TileSet : t = cs[i]
      BY <1>3, <1>4
    <2>2. PICK A, S, w : A = t.at /\ S = t.span /\ w = t.was
      OBVIOUS
    <2>3. t = [at |-> A, span |-> S, was |-> w]
      BY <2>2, TileFields
    <2>4. us[i] = [at |-> A, span |-> S, was |-> Unsaved]
      <3>1. us[i] = [t EXCEPT !.was = Unsaved]
        BY <1>5, <2>1
      <3>2. QED
        BY <2>3, <3>1
    <2>5. [at |-> A, span |-> S, was |-> Unsaved] \in TileSet
      <3>1. A \in [Axes -> 0..Grid-1] /\ S \in [Axes -> 1..Grid] /\ \A a \in Axes : A[a] + S[a] <= Grid
        BY <2>2, TileFields
      <3>2. QED
        BY <3>1, TileFields
    <2>6. QED
      BY <2>1, <2>2, <2>4, <2>5
  <1>7. us \in Seq(TileSet) /\ Len(us) = n /\ DOMAIN us = 1..n
    <2>1. \A F : F \in [1..n -> TileSet] => F \in Seq(TileSet) /\ Len(F) = n /\ DOMAIN F = 1..n
      OBVIOUS
    <2>2. us \in [1..n -> TileSet]
      BY <1>5, <1>6
    <2>3. QED
      BY <2>1, <2>2
  <1>8. ASSUME NEW B, Share(cs, B) PROVE Share(us, B)
    <2>1. \A i \in DOMAIN us : i \in DOMAIN cs /\ Cells(us[i]) = Cells(cs[i])
      BY <1>3, <1>4, <1>6, <1>7 DEF Cells, FarEnd
    <2>2. DOMAIN us = DOMAIN cs
      BY <1>3, <1>4, <1>7
    <2>3. PICK C : C = [i \in 1..n |-> Cells(us[i])]
      OBVIOUS
    <2>4. \A i \in 1..n : C[i] = Cells(us[i]) /\ C[i] = Cells(cs[i])
      BY <1>7, <2>1, <2>3
    <2>5. QED
      BY <1>3, <1>4, <1>7, <1>8, <2>4 DEF Share, Occupied
  <1>9. EdgeOK(NoEdge)
    <2>1. Grid \in Nat
      BY TilesAssumption
    <2>2. QED
      BY <2>1 DEF EdgeOK, NoEdge
  <1>10. /\ edge' = NoEdge /\ gap' = gap /\ firstSpace' = firstSpace
         /\ laidOut' = (firstSpace \/ (laidOut /\ step = 0 /\ ~edge.changed))
         /\ disturbed' = (disturbed \/ BesideGap \/ edge.changed)
    BY DEF EndDrag
  <1>11. laidOut' \in BOOLEAN /\ disturbed' \in BOOLEAN
    BY <1>10
  <1>12. tiles' = <<>> <=> tiles = <<>>
    <2>1. tiles' = <<>> <=> n = 0
      BY <1>5, <1>7
    <2>2. tiles = <<>> <=> n = 0
      BY <1>4 DEF TilesInv
    <2>3. QED
      BY <2>1, <2>2
  <1>13. ASSUME tiles' # <<>>, ~disturbed' PROVE Share(tiles', Board \ gap)
    <2>1. ~disturbed /\ ~BesideGap /\ ~edge.changed
      BY <1>10, <1>13
    <2>2. Share(tiles, Board \ gap)
      BY <1>12, <1>13, <2>1 DEF TilesInv
    <2>3. QED
      BY <1>3, <1>5, <1>8, <2>1, <2>2
  <1>14. \A i \in DOMAIN tiles' : KeptIn(tiles'[i].was, edge')
    BY <1>5, <1>6, <1>7 DEF KeptIn
  <1>15. ~Dragging'
    BY <1>10 DEF Dragging, NoEdge
  <1>16. tiles' \in Seq(TileSet) /\ Len(tiles') <= MaxTiles
    BY <1>4, <1>5, <1>7 DEF TilesInv
  <1>17. QED
    BY <1>9, <1>10, <1>11, <1>12, <1>13, <1>14, <1>15, <1>16 DEF TilesInv

\* A press keeps the invariant: the limits leave every tile on the line its
\* least span.
LEMMA BeginDragKeeps ==
  ASSUME TilesInv, NEW i \in DOMAIN tiles, NEW axis \in Axes, NEW far \in BOOLEAN, BeginDrag(i, axis, far)
  PROVE  TilesInv'
  <1>1. PICK n \in Nat : n = Len(tiles) /\ DOMAIN tiles = 1..n
    BY DEF TilesInv
  <1>2. PICK saved : saved = [j \in 1..n |-> [tiles[j] EXCEPT !.was = <<[at |-> tiles[j].at, span |-> tiles[j].span]>>]]
    OBVIOUS
  <1>3. PICK line : line = IF far THEN FarEnd(tiles[i], axis) ELSE tiles[i].at[axis]
    OBVIOUS
  <1>4. PICK before : before = Before(saved, axis, line)
    OBVIOUS
  <1>5. PICK after : after = After(saved, axis, line)
    OBVIOUS
  <1>6. PICK S : S = {-line} \cup {MinTile - tiles[j].span[axis] : j \in before}
    OBVIOUS
  <1>7. PICK T : T = {Grid - line} \cup {tiles[j].span[axis] - MinTile : j \in after}
    OBVIOUS
  <1>8. PICK lo : lo = Max(S)
    OBVIOUS
  <1>9. PICK hi : hi = Min(T)
    OBVIOUS
  <1>10. /\ lo <= hi
         /\ edge' = [axis |-> axis, line |-> line, lo |-> lo, hi |-> hi, changed |-> FALSE]
         /\ tiles' = saved /\ UNCHANGED <<firstSpace, laidOut, gap, disturbed>>
    <2>1. LET sv == [j \in DOMAIN tiles |->
                  [tiles[j] EXCEPT !.was = <<[at |-> tiles[j].at, span |-> tiles[j].span]>>]]
              l == IF far THEN FarEnd(tiles[i], axis) ELSE tiles[i].at[axis]
              b == Before(sv, axis, l)
              a == After(sv, axis, l)
              low == Max({-l} \cup {MinTile - tiles[j].span[axis] : j \in b})
              high == Min({Grid - l} \cup {tiles[j].span[axis] - MinTile : j \in a})
          IN /\ low <= high
             /\ edge' = [axis |-> axis, line |-> l, lo |-> low, hi |-> high, changed |-> FALSE]
             /\ tiles' = sv /\ UNCHANGED <<firstSpace, laidOut, gap, disturbed>>
      BY Zenon DEF BeginDrag
    <2>2. saved = [j \in DOMAIN tiles |->
                  [tiles[j] EXCEPT !.was = <<[at |-> tiles[j].at, span |-> tiles[j].span]>>]]
      BY <1>1, <1>2
    <2>3. QED
      BY <1>3, <1>4, <1>5, <1>6, <1>7, <1>8, <1>9, <2>1, <2>2, Zenon
  <1>11. \A j \in 1..n : /\ tiles[j] \in TileSet /\ saved[j] \in TileSet
                         /\ saved[j].at = tiles[j].at /\ saved[j].span = tiles[j].span
                         /\ saved[j].was = <<[at |-> tiles[j].at, span |-> tiles[j].span]>>
    <2> SUFFICES ASSUME NEW j \in 1..n
                 PROVE  /\ tiles[j] \in TileSet /\ saved[j] \in TileSet
                        /\ saved[j].at = tiles[j].at /\ saved[j].span = tiles[j].span
                        /\ saved[j].was = <<[at |-> tiles[j].at, span |-> tiles[j].span]>>
      OBVIOUS
    <2>1. PICK t \in TileSet : t = tiles[j]
      BY <1>1 DEF TilesInv
    <2>2. PICK A, Q, w : A = t.at /\ Q = t.span /\ w = t.was
      OBVIOUS
    <2>3. /\ t = [at |-> A, span |-> Q, was |-> w]
          /\ A \in [Axes -> 0..Grid-1] /\ Q \in [Axes -> 1..Grid] /\ \A a \in Axes : A[a] + Q[a] <= Grid
      BY <2>2, TileFields
    <2>4. PICK r : r = [at |-> A, span |-> Q]
      OBVIOUS
    <2>5. saved[j] = [at |-> A, span |-> Q, was |-> <<r>>]
      <3>1. saved[j] = [t EXCEPT !.was = <<[at |-> t.at, span |-> t.span]>>]
        BY <1>2, <2>1
      <3>2. saved[j] = [t EXCEPT !.was = <<r>>]
        BY <2>2, <2>4, <3>1
      <3>3. QED
        BY <2>3, <3>2
    <2>6. r \in Outlines
      BY <2>3, <2>4 DEF Outlines, Rectangles, OnGrid, FarEnd
    <2>7. saved[j] \in TileSet
      BY <2>3, <2>5, <2>6 DEF TileSet, OnGrid, FarEnd
    <2>8. saved[j].at = A /\ saved[j].span = Q /\ saved[j].was = <<r>>
      BY <2>5
    <2>9. QED
      BY <2>1, <2>2, <2>4, <2>7, <2>8
  <1>12. Grid \in Int /\ MinTile \in Int /\ 1 <= MinTile
    BY TilesAssumption
  <1>13. \A j \in 1..n : /\ tiles[j].at[axis] \in Int /\ tiles[j].span[axis] \in Int /\ 1 <= tiles[j].span[axis]
                         /\ 0 <= tiles[j].at[axis] /\ FarEnd(tiles[j], axis) = tiles[j].at[axis] + tiles[j].span[axis]
                         /\ FarEnd(tiles[j], axis) <= Grid
    <2> SUFFICES ASSUME NEW j \in 1..n
                 PROVE  /\ tiles[j].at[axis] \in Int /\ tiles[j].span[axis] \in Int /\ 1 <= tiles[j].span[axis]
                        /\ 0 <= tiles[j].at[axis] /\ FarEnd(tiles[j], axis) = tiles[j].at[axis] + tiles[j].span[axis]
                        /\ FarEnd(tiles[j], axis) <= Grid
      OBVIOUS
    <2>1. PICK A, Q : A = tiles[j].at /\ Q = tiles[j].span
      OBVIOUS
    <2>2. A \in [Axes -> 0..Grid-1] /\ Q \in [Axes -> 1..Grid] /\ \A a \in Axes : A[a] + Q[a] <= Grid
      BY <1>11, <2>1, TileFields
    <2>3. A[axis] \in Int /\ Q[axis] \in Int /\ 1 <= Q[axis] /\ 0 <= A[axis] /\ A[axis] + Q[axis] <= Grid
      BY <1>12, <2>2
    <2>4. QED
      BY <2>1, <2>3 DEF FarEnd
  <1>14. line \in Int /\ 0 <= line /\ line <= Grid
    <2>1. PICK A, W \in Int : A = tiles[i].at[axis] /\ W = tiles[i].span[axis] /\ 1 <= W /\ 0 <= A
                             /\ FarEnd(tiles[i], axis) = A + W /\ A + W <= Grid
      BY <1>1, <1>13
    <2>2. QED
      BY <1>3, <1>12, <2>1
  <1>15. /\ before = {j \in 1..n : FarEnd(tiles[j], axis) = line}
         /\ after = {j \in 1..n : tiles[j].at[axis] = line}
    <2>1. DOMAIN saved = 1..n /\ \A j \in 1..n : saved[j].was # Unsaved
      <3>1. \A r : <<r>> # Unsaved
        BY DEF Unsaved
      <3>2. DOMAIN saved = 1..n
        BY <1>2
      <3>3. \A j \in 1..n : saved[j].was = <<[at |-> tiles[j].at, span |-> tiles[j].span]>>
        BY <1>11
      <3>4. QED
        BY <3>1, <3>2, <3>3
    <2>2. \A j \in 1..n : FarEnd(saved[j], axis) = FarEnd(tiles[j], axis) /\ saved[j].at[axis] = tiles[j].at[axis]
      BY <1>11 DEF FarEnd
    <2>3. QED
      BY <1>4, <1>5, <2>1, <2>2 DEF Before, After
  <1>16. lo \in S /\ \A x \in S : x <= lo
    <2>1. S \in SUBSET Int /\ S # {} /\ \A x \in S : x <= MinTile
      <3>1. ASSUME NEW j \in before PROVE MinTile - tiles[j].span[axis] \in Int /\ MinTile - tiles[j].span[axis] <= MinTile
        <4>1. PICK W \in Int : W = tiles[j].span[axis] /\ 1 <= W
          BY <1>13, <1>15
        <4>2. QED
          BY <1>12, <4>1
      <3>2. -line \in Int /\ -line <= MinTile
        BY <1>12, <1>14
      <3>3. QED
        BY <1>6, <3>1, <3>2
    <2>2. QED
      BY <1>8, <1>12, <2>1, GreatestIsThere
  <1>17. hi \in T /\ \A x \in T : hi <= x
    <2>1. T \in SUBSET Int /\ T # {} /\ \A x \in T : -MinTile <= x
      <3>1. ASSUME NEW j \in after PROVE tiles[j].span[axis] - MinTile \in Int /\ -MinTile <= tiles[j].span[axis] - MinTile
        <4>1. PICK W \in Int : W = tiles[j].span[axis] /\ 1 <= W
          BY <1>13, <1>15
        <4>2. QED
          BY <1>12, <4>1
      <3>2. Grid - line \in Int /\ -MinTile <= Grid - line
        BY <1>12, <1>14
      <3>3. QED
        BY <1>7, <3>1, <3>2
    <2>2. -MinTile \in Int
      BY <1>12
    <2>3. QED
      BY <1>9, <2>1, <2>2, LeastIsThere
  <1>18. lo \in Int /\ hi \in Int /\ 0 <= line + lo /\ line + hi <= Grid
    <2>1. -line \in S /\ Grid - line \in T
      BY <1>6, <1>7
    <2>2. S \in SUBSET Int /\ T \in SUBSET Int
      <3>1. ASSUME NEW j \in 1..n PROVE MinTile - tiles[j].span[axis] \in Int /\ tiles[j].span[axis] - MinTile \in Int
        <4>1. PICK W \in Int : W = tiles[j].span[axis]
          BY <1>13
        <4>2. QED
          BY <1>12, <4>1
      <3>2. -line \in Int /\ Grid - line \in Int
        BY <1>12, <1>14
      <3>3. QED
        BY <1>6, <1>7, <1>15, <3>1, <3>2
    <2>3. lo \in Int /\ hi \in Int /\ -line <= lo /\ hi <= Grid - line
      BY <1>16, <1>17, <2>1, <2>2
    <2>4. QED
      BY <1>12, <1>14, <2>3
  <1>19. EdgeOK(edge')
    BY <1>10, <1>14, <1>18 DEF EdgeOK
  <1>20. ASSUME NEW j \in 1..n PROVE KeptIn(saved[j].was, edge')
    <2>1. PICK r : r = [at |-> tiles[j].at, span |-> tiles[j].span]
      OBVIOUS
    <2>2. saved[j].was[1] = r /\ r.at = tiles[j].at /\ r.span = tiles[j].span
      BY <1>11, <2>1
    <2>3. PICK A, W \in Int : A = tiles[j].at[axis] /\ W = tiles[j].span[axis]
      BY <1>13
    <2>4. A + W = line => MinTile <= W + lo
      <3>1. SUFFICES ASSUME A + W = line PROVE MinTile <= W + lo
        OBVIOUS
      <3>2. MinTile - tiles[j].span[axis] \in S
        BY <1>6, <1>13, <1>15, <2>3, <3>1
      <3>3. MinTile - W <= lo
        BY <1>16, <2>3, <3>2
      <3>4. QED
        BY <1>12, <1>18, <3>3
    <2>5. A = line => MinTile <= W - hi
      <3>1. SUFFICES ASSUME A = line PROVE MinTile <= W - hi
        OBVIOUS
      <3>2. tiles[j].span[axis] - MinTile \in T
        BY <1>7, <1>15, <2>3, <3>1
      <3>3. hi <= W - MinTile
        BY <1>17, <2>3, <3>2
      <3>4. QED
        BY <1>12, <1>18, <3>3
    <2>6. edge'.axis = axis /\ edge'.line = line /\ edge'.lo = lo /\ edge'.hi = hi
      BY <1>10
    <2>7. FarEnd(r, axis) = A + W /\ r.at[axis] = A /\ r.span[axis] = W
      BY <2>2, <2>3 DEF FarEnd
    <2>8. QED
      BY <2>2, <2>4, <2>5, <2>6, <2>7 DEF KeptIn
  <1>21. saved \in Seq(TileSet) /\ Len(saved) = n /\ DOMAIN saved = 1..n
    <2>1. \A F : F \in [1..n -> TileSet] => F \in Seq(TileSet) /\ Len(F) = n /\ DOMAIN F = 1..n
      OBVIOUS
    <2>2. saved \in [1..n -> TileSet]
      BY <1>2, <1>11
    <2>3. QED
      BY <2>1, <2>2
  <1>22. \A j \in 1..n : AsSaved(saved[j])
    BY <1>11 DEF AsSaved
  <1>23. tiles # <<>> /\ tiles' # <<>>
    BY <1>1, <1>10, <1>21 DEF TilesInv
  <1>24. ASSUME NEW B, Share(tiles, B) PROVE Share(saved, B)
    <2>1. PICK C : C = [j \in 1..n |-> Cells(saved[j])]
      OBVIOUS
    <2>2. \A j \in 1..n : C[j] = Cells(saved[j]) /\ C[j] = Cells(tiles[j])
      BY <1>11, <2>1 DEF Cells, FarEnd
    <2>3. QED
      BY <1>1, <1>21, <1>24, <2>2 DEF Share, Occupied
  <1>25. /\ gap' = gap /\ firstSpace' = firstSpace /\ laidOut' = laidOut /\ disturbed' = disturbed
    BY <1>10
  <1>26. tiles' # <<>> /\ ~disturbed' => Share(tiles', Board \ gap')
    BY <1>10, <1>23, <1>24, <1>25 DEF TilesInv
  <1>27. tiles' \in Seq(TileSet) /\ Len(tiles') <= MaxTiles
    BY <1>1, <1>10, <1>21 DEF TilesInv
  <1>28. \A j \in DOMAIN tiles' : KeptIn(tiles'[j].was, edge') /\ AsSaved(tiles'[j])
    BY <1>10, <1>20, <1>21, <1>22
  <1>29. QED
    BY <1>19, <1>23, <1>25, <1>26, <1>27, <1>28 DEF TilesInv

(***************************************************************************)
(* The panes come and go                                                   *)
(***************************************************************************)

\* There is a largest tile to split, the first of those.
LEMMA TargetIsThere ==
  ASSUME NEW ts \in Seq(TileSet), ts # <<>>
  PROVE  SplitTarget(ts) \in DOMAIN ts
  <1>1. PICK n \in Nat : n = Len(ts) /\ DOMAIN ts = 1..n /\ 1 <= n
    OBVIOUS
  <1>2. PICK w : w = [j \in 1..n |-> Area(ts[j])]
    OBVIOUS
  <1>3. PICK G \in Nat : G = Grid
    BY TilesAssumption
  <1>4. \A x, y \in 1..G : x * y \in Int /\ x * y <= G * G
    <2> SUFFICES ASSUME NEW x \in 1..G, NEW y \in 1..G PROVE x * y \in Int /\ x * y <= G * G
      OBVIOUS
    <2>1. x \in Int /\ y \in Int /\ G \in Int /\ 0 <= x /\ 0 <= y /\ x <= G /\ y <= G
      OBVIOUS
    <2>2. x * y <= G * y
      BY <2>1
    <2>3. G * y <= G * G
      BY <2>1
    <2>4. x * y \in Int /\ G * y \in Int /\ G * G \in Int
      BY <2>1
    <2>5. QED
      BY <2>2, <2>3, <2>4
  <1>5. \A j \in 1..n : w[j] \in Int /\ w[j] <= G * G
    <2> SUFFICES ASSUME NEW j \in 1..n PROVE w[j] \in Int /\ w[j] <= G * G
      OBVIOUS
    <2>1. PICK S : S = ts[j].span /\ S \in [Axes -> 1..G]
      BY <1>1, <1>3, TileFields
    <2>2. PICK x \in 1..G, y \in 1..G : x = S["x"] /\ y = S["y"]
      BY <2>1 DEF Axes
    <2>3. w[j] = x * y
      BY <1>2, <2>1, <2>2 DEF Area
    <2>4. QED
      BY <1>4, <2>3
  <1>6. PICK W : W = {w[j] : j \in 1..n}
    OBVIOUS
  <1>7. PICK m \in W : \A x \in W : x <= m
    <2>1. W \in SUBSET Int /\ W # {} /\ \A x \in W : x <= G * G
      BY <1>1, <1>5, <1>6
    <2>2. G * G \in Int
      OBVIOUS
    <2>3. QED
      BY <2>1, <2>2, GreatestIsThere
  <1>8. PICK F : F = {j \in 1..n : w[j] = m}
    OBVIOUS
  <1>9. F \in SUBSET Nat /\ F # {}
    BY <1>6, <1>8
  <1>10. PICK i \in F : \A j \in F : i <= j
    BY <1>9, LeastOfNats
  <1>11. i \in DOMAIN ts /\ \A j \in DOMAIN ts : Area(ts[j]) < Area(ts[i]) \/ (Area(ts[j]) = Area(ts[i]) /\ i <= j)
    <2>1. i \in 1..n /\ w[i] = m
      BY <1>8
    <2>2. ASSUME NEW j \in 1..n PROVE w[j] < w[i] \/ (w[j] = w[i] /\ i <= j)
      <3>1. w[j] <= m /\ w[j] \in Int /\ m \in Int
        BY <1>5, <1>6, <1>7, <2>1
      <3>2. w[j] = m => i <= j
        BY <1>8, <1>10
      <3>3. QED
        BY <2>1, <3>1, <3>2
    <2>3. \A j \in 1..n : w[j] = Area(ts[j])
      BY <1>2
    <2>4. QED
      BY <1>1, <2>1, <2>2, <2>3
  <1>12. QED
    BY <1>11, Zenon DEF SplitTarget

\* What can be split has a half that is neither nothing nor all of it.
LEMMA HalvesAreParts ==
  ASSUME NEW s \in Int, 1 <= s, CanSplit(s)
  PROVE  Half(s) \in Int /\ 1 <= Half(s) /\ Half(s) < s
  <1>1. s \div 2 \in Int /\ MinTile \in Int /\ 1 <= MinTile
    BY TilesAssumption
  <1>2. Half(s) = IF s \div 2 >= 1 THEN s \div 2 ELSE 1
    BY <1>1, OfTwo DEF Half
  <1>3. Half(s) \in Int /\ 1 <= Half(s)
    BY <1>1, <1>2
  <1>4. s - Half(s) >= MinTile
    BY DEF CanSplit
  <1>5. QED
    BY <1>1, <1>3, <1>4

\* The invariant when the set of panes changes: none of what was saved is
\* other than it was.
LEMMA PanesChange ==
  ASSUME TilesInv, Changed, UNCHANGED firstSpace, tiles' \in Seq(TileSet), Len(tiles') <= MaxTiles,
         gap' \in SUBSET Board, laidOut' \in BOOLEAN, disturbed' \in BOOLEAN,
         \A i \in DOMAIN tiles' : tiles'[i].was = Unsaved \/ \E j \in DOMAIN tiles : tiles'[i].was = tiles[j].was,
         tiles' = <<>> /\ 0 < MaxTiles => gap' = {},
         tiles' # <<>> /\ ~disturbed' => Share(tiles', Board \ gap')
  PROVE  TilesInv'
  <1>1. EdgeOK(edge) /\ edge' = [edge EXCEPT !.changed = Dragging]
    BY DEF TilesInv, Changed
  <1>2. /\ edge' \in [axis : Axes \cup {"none"}, line : Int, lo : Int, hi : Int, changed : BOOLEAN]
        /\ edge'.axis = edge.axis /\ edge'.line = edge.line /\ edge'.lo = edge.lo /\ edge'.hi = edge.hi
        /\ edge'.changed = Dragging
    <2>1. PICK d \in BOOLEAN : d = Dragging
      BY DEF Dragging
    <2>2. edge \in [axis : Axes \cup {"none"}, line : Int, lo : Int, hi : Int, changed : BOOLEAN]
      BY <1>1 DEF EdgeOK
    <2>3. edge' = [edge EXCEPT !.changed = d]
      BY <1>1, <2>1
    <2>4. QED
      BY <2>1, <2>2, <2>3
  <1>3. EdgeOK(edge')
    BY <1>1, <1>2 DEF EdgeOK
  <1>4. \A w : KeptIn(w, edge) => KeptIn(w, edge')
    BY <1>2 DEF KeptIn
  <1>5. KeptIn(Unsaved, edge')
    BY DEF KeptIn
  <1>6. \A i \in DOMAIN tiles' : KeptIn(tiles'[i].was, edge')
    BY <1>4, <1>5 DEF TilesInv
  <1>7. ~(Dragging' /\ ~edge'.changed)
    BY <1>2 DEF Dragging
  <1>8. firstSpace' \in BOOLEAN
    BY DEF TilesInv
  <1>9. QED
    BY <1>3, <1>6, <1>7, <1>8 DEF TilesInv

\* A new pane keeps the invariant: it has the grid, or a part of one tile.
LEMMA SpawnKeepsTiles ==
  ASSUME TilesInv, NEW side \in SplitSides, Spawn(side)
  PROVE  TilesInv'
  <1>1. tiles \in Seq(TileSet) /\ Len(tiles) < MaxTiles /\ MaxTiles \in Nat
    BY TilesAssumption DEF TilesInv, Spawn
  <1>2. Changed /\ laidOut' = TRUE /\ firstSpace' = firstSpace /\ gap' = gap /\ disturbed' = disturbed
    BY DEF Spawn
  <1>3. gap \in SUBSET Board /\ disturbed \in BOOLEAN
    BY DEF TilesInv
  <1>4. CASE tiles = <<>> /\ tiles' = <<WholeGrid>>
    <2>1. WholeGrid \in TileSet /\ Cells(WholeGrid) = Board /\ WholeGrid.was = Unsaved
      <3>1. Unsaved \in {Unsaved} \cup {<<r>> : r \in Outlines}
        OBVIOUS
      <3>2. WholeGrid.was = Unsaved
        BY DEF WholeGrid, Tile
      <3>3. QED
        BY <3>1, <3>2, WholeIsATile
    <2>2. gap = {}
      BY <1>1, <1>4 DEF TilesInv
    <2>3. /\ tiles' \in Seq(TileSet) /\ Len(tiles') = 1 /\ DOMAIN tiles' = {1} /\ tiles'[1] = WholeGrid
          /\ tiles' # <<>>
      BY <1>4, <2>1
    <2>4. Share(tiles', Board \ gap')
      BY <1>2, <2>1, <2>2, <2>3 DEF Share, Occupied
    <2>5. \A i \in DOMAIN tiles' : tiles'[i].was = Unsaved
      BY <2>1, <2>3
    <2>6. Len(tiles') <= MaxTiles
      BY <1>1, <1>4, <2>3
    <2>7. QED
      BY <1>2, <1>3, <2>3, <2>4, <2>5, <2>6, PanesChange
  <1>5. ASSUME tiles # <<>>, NEW i \in DOMAIN tiles, NEW axis \in Axes, NEW newFirst \in BOOLEAN,
               CanSplit(tiles[i].span[axis]), tiles' = Split(tiles, i, axis, newFirst)
        PROVE  TilesInv'
    <2>1. tiles[i].span[axis] \in Int /\ 1 <= tiles[i].span[axis]
      <3>1. Grid \in Nat
        BY TilesAssumption
      <3>2. tiles[i] \in TileSet
        BY <1>1, <1>5
      <3>3. PICK S : S = tiles[i].span /\ S \in [Axes -> 1..Grid]
        BY <3>2, TileFields
      <3>4. S[axis] \in Int /\ 1 <= S[axis]
        BY <3>1, <3>3
      <3>5. QED
        BY <3>3, <3>4
    <2>2. PICK half \in Int : half = Half(tiles[i].span[axis]) /\ 1 <= half /\ half < tiles[i].span[axis]
      BY <1>5, <2>1, HalvesAreParts
    <2>3. PICK n \in Nat : n = Len(tiles) /\ DOMAIN tiles = 1..n
      BY <1>1
    <2>4. /\ tiles' \in Seq(TileSet) /\ Len(tiles') = n + 1
          /\ \A k \in 1..n : k # i => tiles'[k] = tiles[k]
          /\ tiles'[i].was = tiles[i].was /\ tiles'[n + 1].was = Unsaved
      BY <1>1, <1>5, <2>2, <2>3, SplitTiles
    <2>5. DOMAIN tiles' = 1..(n + 1) /\ tiles' # <<>>
      BY <2>3, <2>4
    <2>6. \A k \in DOMAIN tiles' : tiles'[k].was = Unsaved \/ \E j \in DOMAIN tiles : tiles'[k].was = tiles[j].was
      <3>1. 1..(n + 1) = (1..n) \cup {n + 1}
        BY <2>3
      <3>2. QED
        BY <1>5, <2>3, <2>4, <2>5, <3>1
    <2>7. ~disturbed' => Share(tiles', Board \ gap')
      <3>1. SUFFICES ASSUME ~disturbed PROVE Share(tiles', Board \ gap)
        BY <1>2
      <3>2. Share(tiles, Board \ gap)
        BY <1>5, <3>1 DEF TilesInv
      <3>3. QED
        BY <1>1, <1>5, <2>2, <3>2, SplitShares
    <2>8. Len(tiles') <= MaxTiles
      BY <1>1, <2>3, <2>4
    <2>9. QED
      BY <1>2, <1>3, <2>4, <2>5, <2>6, <2>7, <2>8, PanesChange
  <1>6. CASE tiles # <<>>
    <2>1. PICK i \in DOMAIN tiles : i = SplitTarget(tiles)
      BY <1>1, <1>6, TargetIsThere
    <2>2. PICK axis \in Axes : axis = AxisFor(tiles[i], side)
      BY DEF AxisFor, Axes
    <2>3. Across(axis) \in Axes
      BY DEF Across, Axes
    <2>4. \/ CanSplit(tiles[i].span[axis]) /\ tiles' = Split(tiles, i, axis, side \in {"left", "top"})
          \/ /\ CanSplit(tiles[i].span[Across(axis)])
             /\ tiles' = Split(tiles, i, Across(axis), FALSE)
      <3>1. LET k == SplitTarget(tiles)  a == AxisFor(tiles[k], side) IN
              \/ /\ CanSplit(tiles[k].span[a])
                 /\ tiles' = Split(tiles, k, a, side \in {"left", "top"})
              \/ /\ ~CanSplit(tiles[k].span[a]) /\ side # "none"
                 /\ CanSplit(tiles[k].span[Across(a)])
                 /\ tiles' = Split(tiles, k, Across(a), FALSE)
        BY <1>6, Zenon DEF Spawn
      <3>2. QED
        BY <2>1, <2>2, <3>1, Zenon
    <2>5. PICK newFirst \in BOOLEAN : newFirst <=> side \in {"left", "top"}
      OBVIOUS
    <2>6. Split(tiles, i, axis, side \in {"left", "top"}) = Split(tiles, i, axis, newFirst)
      <3>1. CASE newFirst
        BY <2>5, <3>1, Zenon DEF Split
      <3>2. CASE ~newFirst
        BY <2>5, <3>2, Zenon DEF Split
      <3>3. QED
        BY <3>1, <3>2
    <2>7. CASE CanSplit(tiles[i].span[axis]) /\ tiles' = Split(tiles, i, axis, side \in {"left", "top"})
      BY <1>5, <1>6, <2>6, <2>7
    <2>8. CASE CanSplit(tiles[i].span[Across(axis)]) /\ tiles' = Split(tiles, i, Across(axis), FALSE)
      BY <1>5, <1>6, <2>3, <2>8
    <2>9. QED
      BY <2>4, <2>7, <2>8
  <1>7. tiles = <<>> => tiles' = <<WholeGrid>>
    BY DEF Spawn
  <1>8. QED
    BY <1>4, <1>6, <1>7

\* A closed pane keeps the invariant: its cells have a new owner or are open.
LEMMA KillKeepsTiles ==
  ASSUME TilesInv, NEW i \in DOMAIN tiles, KillTile(i)
  PROVE  TilesInv'
  <1>1. tiles \in Seq(TileSet) /\ Len(tiles) <= MaxTiles /\ gap \in SUBSET Board /\ disturbed \in BOOLEAN
    BY DEF TilesInv
  <1>2. PICK rest : rest = RemoveAt(tiles, i)
    OBVIOUS
  <1>3. PICK rm \in TileSet : rm = tiles[i]
    BY <1>1
  <1>4. PICK us : us = tiles' /\ us = AfterKill(rm, rest)
    BY <1>2, <1>3, Zenon DEF KillTile
  <1>5. /\ gap' = IF rest = <<>> THEN {} ELSE IF us = rest THEN gap \cup Cells(rm) ELSE gap \ Cells(us[1])
        /\ disturbed' = (disturbed /\ rest # <<>>)
        /\ laidOut' = TRUE /\ Changed /\ firstSpace' = firstSpace
    BY <1>2, <1>3, <1>4, Zenon DEF KillTile
  <1>6. /\ rest \in Seq(TileSet) /\ Len(rest) = Len(tiles) - 1
        /\ \A k \in DOMAIN rest : \E j \in DOMAIN tiles : rest[k] = tiles[j]
        /\ \A B : Share(tiles, B) => Cells(rm) \subseteq B /\ Share(rest, B \ Cells(rm))
    <2>1. /\ RemoveAt(tiles, i) \in Seq(TileSet) /\ Len(RemoveAt(tiles, i)) = Len(tiles) - 1
          /\ \A k \in DOMAIN RemoveAt(tiles, i) : \E j \in DOMAIN tiles : RemoveAt(tiles, i)[k] = tiles[j]
          /\ \A B : Share(tiles, B) => /\ Cells(tiles[i]) \subseteq B
                                       /\ Share(RemoveAt(tiles, i), B \ Cells(tiles[i]))
      BY <1>1, OneRemoved, Zenon
    <2>2. QED
      BY <1>2, <1>3, <2>1, Zenon
  <1>7. us \in Seq(TileSet) /\ \A k \in DOMAIN us : \E j \in DOMAIN rest : us[k].was = rest[j].was
    <2>1. us = AfterKill(rm, rest) /\ rest \in Seq(TileSet)
      BY <1>4, <1>6
    <2>2. SavedOf(us, rest)
      BY <2>1, KillTiles
    <2>3. QED
      BY <2>2, Zenon DEF SavedOf
  <1>8. \A k \in DOMAIN us : \E j \in DOMAIN tiles : us[k].was = tiles[j].was
    BY <1>6, <1>7
  <1>9. Cells(rm) \subseteq Board
    BY TileOnBoard DEF TileSet
  <1>10. gap' \in SUBSET Board
    BY <1>1, <1>5, <1>9
  <1>11. disturbed' \in BOOLEAN /\ laidOut' \in BOOLEAN
    BY <1>5
  <1>12. KillOf(us, rm, rest)
    BY <1>4, <1>6, KillCases
  <1>13. (us = <<>> <=> rest = <<>>) /\ Len(us) = Len(rest)
    <2>1. PICK n \in Nat : n = Len(rest) /\ DOMAIN rest = 1..n
      BY <1>6
    <2>2. DOMAIN us = 1..n
      <3>1. ASSUME NEW m, NEW axis, us = [rest EXCEPT ![m] = Grown(rest[m], rm, axis)]
            PROVE  DOMAIN us = 1..n
        BY <2>1, <3>1
      <3>2. ASSUME NEW axis, NEW after, us = [k \in DOMAIN rest |->
                       IF k \in EdgeGroup(rest, rm, axis, after) THEN Grown(rest[k], rm, axis) ELSE rest[k]]
            PROVE  DOMAIN us = 1..n
        BY <2>1, <3>2
      <3>3. ASSUME NEW t, Len(rest) = 1, us = <<t>> PROVE DOMAIN us = 1..n
        BY <2>1, <3>3
      <3>4. QED
        BY <1>12, <2>1, <3>1, <3>2, <3>3 DEF KillOf
    <2>3. QED
      BY <1>6, <1>7, <2>1, <2>2
  <1>14. Len(us) <= MaxTiles
    BY <1>1, <1>6, <1>13, TilesAssumption
  <1>15. us = <<>> => gap' = {}
    BY <1>5, <1>13
  <1>16. ASSUME us # <<>>, ~disturbed' PROVE Share(us, Board \ gap')
    <2>1. rest # <<>> /\ ~disturbed
      BY <1>5, <1>13, <1>16
    <2>2. tiles # <<>>
      BY <1>1
    <2>3. Share(tiles, Board \ gap)
      BY <2>1, <2>2 DEF TilesInv
    <2>4. PICK B : B = (Board \ gap) \ Cells(rm)
      OBVIOUS
    <2>5. Share(rest, B) /\ Cells(rm) \subseteq Board \ gap /\ Cells(rm) \cap B = {}
      BY <1>6, <2>3, <2>4
    <2>6. \/ us = rest
          \/ us # rest /\ Share(us, B \cup Cells(rm))
          \/ us # rest /\ Share(us, Board) /\ Len(us) = 1 /\ Cells(us[1]) = Board
      BY <1>4, <1>6, <2>5, KillShares
    <2>7. CASE us = rest
      <3>1. gap' = gap \cup Cells(rm)
        BY <1>5, <2>1, <2>7
      <3>2. Board \ gap' = B
        BY <2>4, <3>1
      <3>3. QED
        BY <2>5, <2>7, <3>2
    <2>8. CASE us # rest /\ Share(us, B \cup Cells(rm))
      <3>1. B \cup Cells(rm) = Board \ gap
        BY <2>4, <2>5
      <3>2. 1 \in DOMAIN us
        BY <1>7, <1>16
      <3>3. Cells(us[1]) \subseteq Board \ gap
        BY <2>8, <3>1, <3>2 DEF Share, Occupied
      <3>4. gap' = gap
        BY <1>5, <2>1, <2>8, <3>3
      <3>5. QED
        BY <2>8, <3>1, <3>4
    <2>9. CASE us # rest /\ Share(us, Board) /\ Cells(us[1]) = Board
      <3>1. gap' = {}
        BY <1>1, <1>5, <2>1, <2>9
      <3>2. Board \ gap' = Board
        BY <3>1
      <3>3. QED
        BY <2>9, <3>2
    <2>10. QED
      BY <2>6, <2>7, <2>8, <2>9
  <1>17. QED
    BY <1>4, <1>5, <1>7, <1>8, <1>10, <1>11, <1>14, <1>15, <1>16, PanesChange

\* An exchange keeps the invariant, and so does a grid with no pane.
LEMMA SwapKeepsTiles ==
  ASSUME TilesInv, NEW i \in DOMAIN tiles, NEW j \in DOMAIN tiles, i # j, SwapPositions(i, j)
  PROVE  TilesInv'
  <1>1. tiles \in Seq(TileSet) /\ Len(tiles) <= MaxTiles
    BY DEF TilesInv
  <1>2. PICK us : us = tiles' /\ us = [tiles EXCEPT ![i].at = tiles[j].at, ![i].span = tiles[j].span,
                                                    ![j].at = tiles[i].at, ![j].span = tiles[i].span]
    BY DEF SwapPositions
  <1>3. /\ us \in Seq(TileSet) /\ Len(us) = Len(tiles) /\ \A k \in DOMAIN us : us[k].was = tiles[k].was
        /\ \A B : Share(tiles, B) => Share(us, B)
    BY <1>1, <1>2, SwapShares
  <1>4. DOMAIN us = DOMAIN tiles
    BY <1>1, <1>3
  <1>5. /\ ~Dragging /\ laidOut' = firstSpace
        /\ edge' = edge /\ firstSpace' = firstSpace /\ gap' = gap /\ disturbed' = disturbed
    BY DEF SwapPositions
  <1>6. ~Dragging' /\ EdgeOK(edge')
    BY <1>5 DEF TilesInv, Dragging
  <1>7. \A k \in DOMAIN tiles' : KeptIn(tiles'[k].was, edge')
    BY <1>2, <1>3, <1>4, <1>5 DEF TilesInv
  <1>8. tiles # <<>> /\ tiles' # <<>>
    BY <1>1, <1>2, <1>4
  <1>9. ~disturbed' => Share(tiles', Board \ gap')
    BY <1>2, <1>3, <1>5, <1>8 DEF TilesInv
  <1>10. gap' \in SUBSET Board /\ firstSpace' \in BOOLEAN /\ laidOut' \in BOOLEAN /\ disturbed' \in BOOLEAN
    BY <1>5 DEF TilesInv
  <1>11. QED
    BY <1>1, <1>2, <1>3, <1>6, <1>7, <1>8, <1>9, <1>10 DEF TilesInv

\* No panes, no cells.
LEMMA ResetKeepsTiles ==
  ASSUME TilesInv, ResetTiles
  PROVE  TilesInv'
  <1>1. tiles' = <<>> /\ gap' = {} /\ disturbed' = FALSE /\ laidOut' = TRUE /\ Changed /\ firstSpace' = firstSpace
    BY DEF ResetTiles
  <1>2. tiles' \in Seq(TileSet) /\ Len(tiles') <= MaxTiles /\ DOMAIN tiles' = {}
    BY <1>1, TilesAssumption
  <1>3. QED
    BY <1>1, <1>2, PanesChange

(***************************************************************************)
(* A restored layout                                                       *)
(***************************************************************************)

\* A multiple of a number, and a rest that is less, divided by that number.
LEMMA QuotientOfMultiple ==
  ASSUME NEW d \in Nat, 1 <= d, NEW q \in Nat, NEW r \in Nat, r < d
  PROVE  (d * q + r) \div d = q
  <1>1. PICK n \in Nat : n = d * q + r
    OBVIOUS
  <1>2. PICK e \in Int : e = n \div d
    OBVIOUS
  <1>3. d * e <= n /\ n < d * e + d
    BY <1>2
  <1>4. e <= q
    <2>1. SUFFICES ASSUME q + 1 <= e PROVE FALSE
      OBVIOUS
    <2>2. d * (q + 1) <= d * e
      BY <2>1
    <2>3. d * (q + 1) = d * q + d
      OBVIOUS
    <2>4. QED
      BY <1>1, <1>3, <2>2, <2>3
  <1>5. q <= e
    <2>1. SUFFICES ASSUME e + 1 <= q PROVE FALSE
      OBVIOUS
    <2>2. d * (e + 1) <= d * q
      BY <2>1
    <2>3. d * (e + 1) = d * e + d
      OBVIOUS
    <2>4. QED
      BY <1>1, <1>3, <2>2, <2>3
  <1>6. QED
    BY <1>1, <1>2, <1>4, <1>5

\* A number a unit divides is a multiple of it.
LEMMA MultipleOfUnit ==
  ASSUME NEW u \in Nat, 1 <= u, Grid % u = 0
  PROVE  \E k \in Nat : 1 <= k /\ Grid = k * u
  <1>1. PICK G \in Nat : G = Grid /\ 1 <= G
    BY TilesAssumption
  <1>2. PICK e \in Int : e = G \div u
    OBVIOUS
  <1>3. G = u * e + (G % u)
    BY <1>2
  <1>4. G = u * e
    BY <1>1, <1>3
  <1>5. 1 <= e
    <2>1. SUFFICES ASSUME e <= 0 PROVE FALSE
      BY <1>2
    <2>2. u * e <= 0
      BY <2>1
    <2>3. QED
      BY <1>1, <1>4, <2>2
  <1>6. e \in Nat /\ Grid = e * u
    BY <1>1, <1>4, <1>5
  <1>7. QED
    BY <1>5, <1>6

\* Scaled from a unit that divides the grid, a number is multiplied.
LEMMA RescaledIsTimes ==
  ASSUME NEW u \in Nat, 1 <= u, NEW k \in Nat, Grid = k * u, NEW x \in Nat
  PROVE  Rescaled(x, u) = k * x
  <1>1. PICK q \in Nat : q = k * x
    OBVIOUS
  <1>2. 2 * x * (k * u) = (2 * u) * q
    BY <1>1
  <1>3. 2 * u \in Nat /\ 1 <= 2 * u /\ u < 2 * u
    OBVIOUS
  <1>4. ((2 * u) * q + u) \div (2 * u) = q
    BY <1>3, QuotientOfMultiple
  <1>5. Rescaled(x, u) = ((2 * u) * q + u) \div (2 * u)
    BY <1>2 DEF Rescaled
  <1>6. QED
    BY <1>1, <1>4, <1>5

\* Scaled from any unit, a number is none below zero.
LEMMA RescaledIsNat ==
  ASSUME NEW u \in Nat, 1 <= u, NEW x \in Nat
  PROVE  Rescaled(x, u) \in Nat
  <1>1. PICK G \in Nat : G = Grid
    BY TilesAssumption
  <1>2. PICK n \in Nat : n = 2 * x * G + u
    OBVIOUS
  <1>3. PICK d \in Nat : d = 2 * u /\ 1 <= d
    OBVIOUS
  <1>4. n \div d \in Nat
    <2>1. PICK e \in Int : e = n \div d
      BY <1>3
    <2>2. n < d * e + d
      BY <1>3, <2>1
    <2>3. 0 <= e
      <3>1. SUFFICES ASSUME e + 1 <= 0 PROVE FALSE
        OBVIOUS
      <3>2. d * (e + 1) <= 0
        BY <1>3, <3>1
      <3>3. d * (e + 1) = d * e + d
        OBVIOUS
      <3>4. QED
        BY <2>2, <3>2, <3>3
    <2>4. QED
      BY <2>1, <2>3
  <1>5. QED
    BY <1>1, <1>2, <1>3, <1>4 DEF Rescaled

\* The unit of a layout is the furthest edge there is in it.
LEMMA UnitIsFurthest ==
  ASSUME NEW saved, IsLayout(saved)
  PROVE  /\ UnitOf(saved) \in Nat /\ 1 <= UnitOf(saved)
         /\ \A i \in DOMAIN saved : \A a \in Axes : FarEnd(saved[i], a) <= UnitOf(saved)
  <1>1. PICK n \in Nat : n = Len(saved) /\ DOMAIN saved = 1..n /\ 1 <= n
    BY DEF IsLayout
  <1>2. \A i \in 1..n : saved[i].at \in [Axes -> Nat] /\ saved[i].span \in [Axes -> Nat \ {0}]
    <2>1. PICK R : R = [at : [Axes -> Nat], span : [Axes -> Nat \ {0}]]
      OBVIOUS
    <2>2. saved \in Seq(R)
      BY <2>1 DEF IsLayout
    <2>3. \A i \in 1..n : saved[i] \in R
      BY <1>1, <2>2
    <2>4. QED
      BY <2>1, <2>3
  <1>3. \A i \in 1..n : \A a \in Axes : FarEnd(saved[i], a) \in Nat /\ 1 <= FarEnd(saved[i], a)
    <2> SUFFICES ASSUME NEW i \in 1..n, NEW a \in Axes PROVE FarEnd(saved[i], a) \in Nat /\ 1 <= FarEnd(saved[i], a)
      OBVIOUS
    <2>1. PICK A, S : A = saved[i].at /\ S = saved[i].span
      OBVIOUS
    <2>2. A[a] \in Nat /\ S[a] \in Nat /\ 1 <= S[a]
      <3>1. A \in [Axes -> Nat] /\ S \in [Axes -> Nat \ {0}]
        BY <1>2, <2>1
      <3>2. S[a] \in Nat \ {0}
        BY <3>1
      <3>3. QED
        BY <3>1, <3>2
    <2>3. QED
      BY <2>1, <2>2 DEF FarEnd
  <1>4. PICK f : f = [i \in 1..n |-> FarEnd(saved[i], "x") + FarEnd(saved[i], "y")]
    OBVIOUS
  <1>5. \A i \in 1..n : f[i] \in Nat /\ \A a \in Axes : FarEnd(saved[i], a) <= f[i]
    <2> SUFFICES ASSUME NEW i \in 1..n PROVE f[i] \in Nat /\ \A a \in Axes : FarEnd(saved[i], a) <= f[i]
      OBVIOUS
    <2>1. PICK x, y \in Nat : x = FarEnd(saved[i], "x") /\ y = FarEnd(saved[i], "y")
      BY <1>3 DEF Axes
    <2>2. f[i] = x + y
      BY <1>4, <2>1
    <2>3. QED
      BY <2>1, <2>2 DEF Axes
  <1>6. \E b \in Nat : \A i \in 1..n : f[i] <= b
    <2>1. PICK P : P = {m \in Nat : \E b \in Nat : \A i \in 1..n : i <= m => f[i] <= b}
      OBVIOUS
    <2>2. 0 \in P
      BY <2>1
    <2>3. ASSUME NEW m \in P PROVE m + 1 \in P
      <3>1. PICK b \in Nat : \A i \in 1..n : i <= m => f[i] <= b
        BY <2>1
      <3>2. CASE m + 1 \in 1..n
        <4>1. PICK g \in Nat : g = f[m + 1]
          BY <1>5, <3>2
        <4>2. PICK c \in Nat : c = b + g
          OBVIOUS
        <4>3. ASSUME NEW i \in 1..n, i <= m + 1 PROVE f[i] <= c
          <5>1. PICK h \in Nat : h = f[i]
            BY <1>5
          <5>2. CASE i = m + 1
            BY <4>1, <4>2, <5>1, <5>2
          <5>3. CASE i <= m
            BY <3>1, <4>2, <5>1, <5>3
          <5>4. QED
            BY <2>1, <4>3, <5>2, <5>3
        <4>4. QED
          BY <2>1, <4>3
      <3>3. CASE m + 1 \notin 1..n
        <4>1. \A i \in 1..n : i <= m + 1 => i <= m
          BY <2>1, <3>3
        <4>2. QED
          BY <2>1, <3>1, <4>1
      <3>4. QED
        BY <3>2, <3>3
    <2>4. P = Nat
      <3>1. P \in SUBSET Nat
        BY <2>1
      <3>2. QED
        BY <2>2, <2>3, <3>1, InductionOnNats
    <2>5. PICK b \in Nat : \A i \in 1..n : i <= n => f[i] <= b
      BY <2>1, <2>4
    <2>6. QED
      BY <2>5
  <1>7. PICK b \in Nat : \A i \in 1..n : f[i] <= b
    BY <1>6
  <1>8. PICK S : S = {0} \cup UNION {{FarEnd(saved[i], "x"), FarEnd(saved[i], "y")} : i \in DOMAIN saved}
    OBVIOUS
  <1>9. S \in SUBSET Nat /\ S # {} /\ \A x \in S : x <= b
    <2>1. ASSUME NEW i \in DOMAIN saved, NEW a \in Axes PROVE FarEnd(saved[i], a) \in Nat /\ FarEnd(saved[i], a) <= b
      <3>1. PICK x, y \in Nat : x = FarEnd(saved[i], a) /\ y = f[i] /\ x <= y /\ y <= b
        BY <1>1, <1>3, <1>5, <1>7
      <3>2. QED
        BY <3>1
    <2>2. \A i \in DOMAIN saved : /\ FarEnd(saved[i], "x") \in Nat /\ FarEnd(saved[i], "x") <= b
                                  /\ FarEnd(saved[i], "y") \in Nat /\ FarEnd(saved[i], "y") <= b
      BY <2>1 DEF Axes
    <2>3. \A x \in S : x = 0 \/ \E i \in DOMAIN saved : x = FarEnd(saved[i], "x") \/ x = FarEnd(saved[i], "y")
      BY <1>8
    <2>4. \A x \in S : x \in Nat /\ x <= b
      BY <2>2, <2>3
    <2>5. 0 \in S
      BY <1>8
    <2>6. QED
      BY <2>4, <2>5
  <1>10. Max(S) \in S /\ \A x \in S : x <= Max(S)
    BY <1>9, GreatestIsThere
  <1>11. UnitOf(saved) = Max(S)
    BY <1>8, Zenon DEF UnitOf
  <1>12. \A i \in DOMAIN saved : \A a \in Axes : FarEnd(saved[i], a) \in S
    BY <1>8 DEF Axes
  <1>13. 1 <= Max(S)
    <2>1. 1 \in DOMAIN saved /\ "x" \in Axes
      BY <1>1 DEF Axes
    <2>2. PICK x \in Nat : x = FarEnd(saved[1], "x") /\ 1 <= x /\ x \in S
      BY <1>1, <1>3, <1>12, <2>1
    <2>3. x <= Max(S) /\ Max(S) \in Nat
      BY <1>9, <1>10, <2>2
    <2>4. QED
      BY <2>2, <2>3
  <1>14. QED
    BY <1>9, <1>10, <1>11, <1>12, <1>13

\* Clamped to the grid, a rectangle is a tile; one within the grid is unchanged.
LEMMA SanitizedTile ==
  ASSUME NEW A \in [Axes -> Nat], NEW S \in [Axes -> Nat], NEW t, t.at = A, t.span = S
  PROVE  /\ Sanitized(t) \in TileSet /\ Sanitized(t).was = Unsaved
         /\ (\A a \in Axes : 1 <= S[a] /\ A[a] + S[a] <= Grid) => Sanitized(t).at = A /\ Sanitized(t).span = S
  <1>1. PICK G \in Nat : G = Grid /\ 1 <= G
    BY TilesAssumption
  <1>2. PICK at : at = [a \in Axes |-> Min({t.at[a], G - 1})]
    OBVIOUS
  <1>3. PICK span : span = [a \in Axes |-> Min({Max({t.span[a], 1}), G - at[a]})]
    OBVIOUS
  <1>4. Sanitized(t) = [at |-> at, span |-> span, was |-> Unsaved]
    BY <1>1, <1>2, <1>3, Zenon DEF Sanitized, Tile
  <1>5. ASSUME NEW a \in Axes
        PROVE  /\ at[a] \in 0..G-1 /\ span[a] \in 1..G /\ at[a] + span[a] <= G
               /\ 1 <= S[a] /\ A[a] + S[a] <= G => at[a] = A[a] /\ span[a] = S[a]
    <2>1. PICK x, y \in Nat : x = A[a] /\ y = S[a]
      OBVIOUS
    <2>2. at[a] = IF x <= G - 1 THEN x ELSE G - 1
      <3>1. at[a] = Min({x, G - 1}) /\ G - 1 \in Int
        BY <1>1, <1>2, <2>1
      <3>2. QED
        BY <3>1, OfTwo
    <2>3. PICK l \in Int : l = at[a] /\ 0 <= l /\ l <= G - 1
      BY <1>1, <2>2
    <2>4. PICK z \in Int : z = Max({y, 1}) /\ z = IF y >= 1 THEN y ELSE 1
      <3>1. Max({y, 1}) = IF y >= 1 THEN y ELSE 1
        <4>1. y \in Int /\ 1 \in Int
          OBVIOUS
        <4>2. QED
          BY <4>1, OfTwo
      <3>2. QED
        BY <3>1
    <2>5. span[a] = IF z <= G - l THEN z ELSE G - l
      <3>1. span[a] = Min({z, G - l}) /\ G - l \in Int
        BY <1>1, <1>3, <2>1, <2>3, <2>4
      <3>2. QED
        BY <3>1, OfTwo
    <2>6. PICK r \in Int : r = span[a] /\ r = IF z <= G - l THEN z ELSE G - l
      BY <1>1, <2>5
    <2>7. 1 <= r /\ r <= G /\ l + r <= G
      BY <1>1, <2>3, <2>4, <2>6
    <2>8. 1 <= y /\ x + y <= G => l = x /\ r = y
      BY <1>1, <2>2, <2>3, <2>4, <2>6
    <2>9. QED
      BY <2>1, <2>3, <2>6, <2>7, <2>8
  <1>6. at \in [Axes -> 0..Grid-1] /\ span \in [Axes -> 1..Grid] /\ \A a \in Axes : at[a] + span[a] <= Grid
    <2>1. \A a \in Axes : at[a] \in 0..Grid-1 /\ span[a] \in 1..Grid /\ at[a] + span[a] <= Grid
      BY <1>1, <1>5
    <2>2. at = [a \in Axes |-> at[a]] /\ span = [a \in Axes |-> span[a]]
      BY <1>2, <1>3
    <2>3. QED
      BY <2>1, <2>2
  <1>7. Sanitized(t) \in TileSet
    BY <1>4, <1>6 DEF TileSet, OnGrid, FarEnd
  <1>8. Sanitized(t).at = at /\ Sanitized(t).span = span /\ Sanitized(t).was = Unsaved
    BY <1>4
  <1>9. ASSUME \A a \in Axes : 1 <= S[a] /\ A[a] + S[a] <= Grid PROVE at = A /\ span = S
    <2>1. \A a \in Axes : at[a] = A[a] /\ span[a] = S[a]
      BY <1>1, <1>5, <1>9
    <2>2. at = [a \in Axes |-> at[a]] /\ span = [a \in Axes |-> span[a]]
      BY <1>2, <1>3
    <2>3. A = [a \in Axes |-> A[a]] /\ S = [a \in Axes |-> S[a]]
      OBVIOUS
    <2>4. QED
      BY <2>1, <2>2, <2>3
  <1>10. QED
    BY <1>7, <1>8, <1>9

(* One rectangle ends where the other has not begun. *)
Apart(s, t) == \E a \in Axes : FarEnd(s, a) <= t.at[a] \/ FarEnd(t, a) <= s.at[a]

\* Rectangles apart have no cell in common.
LEMMA ApartIsDisjoint ==
  ASSUME NEW s, Placed(s), NEW t, Placed(t), Apart(s, t)
  PROVE  Cells(s) \cap Cells(t) = {}
  <1>1. PICK a \in Axes : FarEnd(s, a) <= t.at[a] \/ FarEnd(t, a) <= s.at[a]
    BY DEF Apart
  <1>2. SUFFICES ASSUME NEW p, p \in Cells(s), p \in Cells(t) PROVE FALSE
    OBVIOUS
  <1>3. PICK u, v \in Int : p = CellAt(a, u, v)
    BY <1>2, CellsArePairs, CellsAreCrossings
  <1>4. Covers(s, a, u, v) /\ Covers(t, a, u, v)
    BY <1>2, <1>3, CellsOfTile
  <1>5. PICK L, R, M, N \in Int : L = s.at[a] /\ R = FarEnd(s, a) /\ M = t.at[a] /\ N = FarEnd(t, a)
    BY DEF Placed, FarEnd
  <1>6. L <= u /\ u < R /\ M <= u /\ u < N /\ (R <= M \/ N <= L)
    BY <1>1, <1>4, <1>5 DEF Covers
  <1>7. QED
    BY <1>5, <1>6

\* Rectangles with no cell in common are apart.
LEMMA DisjointIsApart ==
  ASSUME NEW s, Placed(s), NEW t, Placed(t), \A a \in Axes : s.at[a] < FarEnd(s, a) /\ t.at[a] < FarEnd(t, a),
         Cells(s) \cap Cells(t) = {}
  PROVE  Apart(s, t)
  <1>1. SUFFICES ASSUME ~Apart(s, t) PROVE FALSE
    OBVIOUS
  <1>2. \A a \in Axes : /\ s.at[a] \in Int /\ t.at[a] \in Int /\ FarEnd(s, a) \in Int /\ FarEnd(t, a) \in Int
                        /\ s.at[a] < FarEnd(s, a) /\ t.at[a] < FarEnd(t, a)
                        /\ ~ (FarEnd(s, a) <= t.at[a]) /\ ~ (FarEnd(t, a) <= s.at[a])
    BY <1>1 DEF Placed, FarEnd, Apart
  <1>3. ASSUME NEW a \in Axes
        PROVE  \E u \in Int : s.at[a] <= u /\ u < FarEnd(s, a) /\ t.at[a] <= u /\ u < FarEnd(t, a)
    <2>1. PICK L, R, M, N \in Int : L = s.at[a] /\ R = FarEnd(s, a) /\ M = t.at[a] /\ N = FarEnd(t, a)
      BY <1>2
    <2>2. L < R /\ M < N /\ M < R /\ L < N
      BY <1>2, <2>1
    <2>3. CASE L <= M
      BY <2>1, <2>2, <2>3
    <2>4. CASE M <= L
      BY <2>1, <2>2, <2>4
    <2>5. QED
      BY <2>1, <2>3, <2>4
  <1>4. "x" \in Axes /\ "y" \in Axes /\ Across("x") = "y"
    BY DEF Axes, Across
  <1>5. PICK u \in Int : s.at["x"] <= u /\ u < FarEnd(s, "x") /\ t.at["x"] <= u /\ u < FarEnd(t, "x")
    BY <1>3, <1>4
  <1>6. PICK v \in Int : s.at["y"] <= v /\ v < FarEnd(s, "y") /\ t.at["y"] <= v /\ v < FarEnd(t, "y")
    BY <1>3, <1>4
  <1>7. Covers(s, "x", u, v) /\ Covers(t, "x", u, v)
    BY <1>4, <1>5, <1>6 DEF Covers
  <1>8. CellAt("x", u, v) \in Cells(s) /\ CellAt("x", u, v) \in Cells(t)
    BY <1>4, <1>7, CellsOfTile
  <1>9. QED
    BY <1>8

\* A layout scaled from its unit: numbers still, and if the unit divides the
\* grid, all of them multiplied by the same.
LEMMA ScaledRectangles ==
  ASSUME NEW saved, IsLayout(saved), NEW i \in DOMAIN saved
  PROVE  /\ Scaled(saved)[i].at \in [Axes -> Nat] /\ Scaled(saved)[i].span \in [Axes -> Nat]
         /\ \A k \in Nat : 1 <= k /\ Grid = k * UnitOf(saved) =>
              \A a \in Axes : /\ Scaled(saved)[i].at[a] = k * saved[i].at[a]
                              /\ Scaled(saved)[i].span[a] = k * saved[i].span[a]
  <1>1. PICK u \in Nat : u = UnitOf(saved) /\ 1 <= u
    BY UnitIsFurthest
  <1>2. PICK A, S : A = saved[i].at /\ S = saved[i].span
    OBVIOUS
  <1>3. A \in [Axes -> Nat] /\ S \in [Axes -> Nat] /\ \A a \in Axes : 1 <= S[a]
    <2>1. PICK R : R = [at : [Axes -> Nat], span : [Axes -> Nat \ {0}]]
      OBVIOUS
    <2>2. saved \in Seq(R)
      BY <2>1 DEF IsLayout
    <2>3. saved[i] \in R
      BY <2>2
    <2>4. A \in [Axes -> Nat] /\ S \in [Axes -> Nat \ {0}]
      BY <1>2, <2>1, <2>3
    <2>5. QED
      BY <2>4
  <1>4. CASE u = Grid
    <2>1. Scaled(saved) = saved
      BY <1>1, <1>4, Zenon DEF Scaled
    <2>2. ASSUME NEW k \in Nat, 1 <= k, Grid = k * u PROVE k = 1
      <3>1. SUFFICES ASSUME 2 <= k PROVE FALSE
        BY <2>2
      <3>2. 2 * u <= k * u
        BY <3>1
      <3>3. QED
        BY <1>1, <1>4, <2>2, <3>2
    <2>3. \A a \in Axes : 1 * A[a] = A[a] /\ 1 * S[a] = S[a]
      BY <1>3
    <2>4. QED
      BY <1>1, <1>2, <1>3, <2>1, <2>2, <2>3
  <1>5. CASE u # Grid
    <2>1. Scaled(saved) = [j \in DOMAIN saved |->
             [at |-> [a \in Axes |-> Rescaled(saved[j].at[a], u)],
              span |-> [a \in Axes |-> Max({Rescaled(saved[j].span[a], u), 1})]]]
      <3>1. u # 0
        BY <1>1
      <3>2. u \notin {0, Grid}
        BY <1>5, <3>1
      <3>3. QED
        BY <1>1, <3>2, Zenon DEF Scaled
    <2>2. Scaled(saved)[i] = [at |-> [a \in Axes |-> Rescaled(saved[i].at[a], u)],
                              span |-> [a \in Axes |-> Max({Rescaled(saved[i].span[a], u), 1})]]
      BY <2>1
    <2>3. /\ Scaled(saved)[i].at = [a \in Axes |-> Rescaled(A[a], u)]
          /\ Scaled(saved)[i].span = [a \in Axes |-> Max({Rescaled(S[a], u), 1})]
      BY <1>2, <2>2
    <2>4. ASSUME NEW a \in Axes
          PROVE  /\ Rescaled(A[a], u) \in Nat
                 /\ Max({Rescaled(S[a], u), 1}) \in Nat
                 /\ \A k \in Nat : 1 <= k /\ Grid = k * u =>
                      Rescaled(A[a], u) = k * A[a] /\ Max({Rescaled(S[a], u), 1}) = k * S[a]
      <3>1. PICK x, y \in Nat : x = A[a] /\ y = S[a] /\ 1 <= y
        BY <1>3
      <3>2. PICK p, q \in Nat : p = Rescaled(A[a], u) /\ q = Rescaled(S[a], u)
        BY <1>1, <3>1, RescaledIsNat
      <3>3. PICK m \in Nat : m = Max({q, 1}) /\ m = IF q >= 1 THEN q ELSE 1
        <4>1. q \in Int /\ 1 \in Int
          OBVIOUS
        <4>2. Max({q, 1}) = IF q >= 1 THEN q ELSE 1
          BY <4>1, OfTwo
        <4>3. QED
          BY <4>2
      <3>4. ASSUME NEW k \in Nat, 1 <= k, Grid = k * u PROVE p = k * x /\ m = k * y
        <4>1. p = k * x /\ q = k * y
          BY <1>1, <3>1, <3>2, <3>4, RescaledIsTimes
        <4>2. 1 <= k * y
          BY <3>1, <3>4
        <4>3. QED
          BY <3>3, <4>1, <4>2
      <3>5. Rescaled(A[a], u) = p /\ Max({Rescaled(S[a], u), 1}) = m
        BY <3>2, <3>3
      <3>6. \A k \in Nat : 1 <= k /\ Grid = k * u => p = k * A[a] /\ m = k * S[a]
        BY <3>1, <3>4
      <3>7. QED
        BY <3>5, <3>6, Zenon
    <2>5. PICK P : P = [a \in Axes |-> Rescaled(A[a], u)]
      OBVIOUS
    <2>6. PICK Q : Q = [a \in Axes |-> Max({Rescaled(S[a], u), 1})]
      OBVIOUS
    <2>7. P \in [Axes -> Nat] /\ Q \in [Axes -> Nat]
      BY <2>4, <2>5, <2>6
    <2>8. \A k \in Nat : 1 <= k /\ Grid = k * u => \A a \in Axes : P[a] = k * A[a] /\ Q[a] = k * S[a]
      BY <2>4, <2>5, <2>6
    <2>9. Scaled(saved)[i].at = P /\ Scaled(saved)[i].span = Q
      BY <2>3, <2>5, <2>6
    <2>10. QED
      BY <1>1, <1>2, <2>7, <2>8, <2>9
  <1>6. QED
    BY <1>4, <1>5

\* The tiles of a restored layout: on the grid, none saved by a press; and if
\* its unit divides the grid and its panes were apart, apart as they were.
LEMMA RestoredShares ==
  ASSUME NEW saved, IsLayout(saved), NEW us, us = RestoredTiles(saved)
  PROVE  /\ us \in Seq(TileSet) /\ Len(us) <= MaxTiles
         /\ \A i \in DOMAIN us : us[i].was = Unsaved
         /\ us = <<>> => MaxTiles = 0
         /\ Occupied(us) \subseteq Board
         /\ Grid % UnitOf(saved) = 0 /\ ~Overlap(saved) => Share(us, Occupied(us))
  <1>1. PICK n \in Nat : n = Len(saved) /\ DOMAIN saved = 1..n /\ 1 <= n
    BY DEF IsLayout
  <1>2. PICK m \in Nat : m = Min({n, MaxTiles}) /\ m = IF n <= MaxTiles THEN n ELSE MaxTiles
    <2>1. n \in Int /\ MaxTiles \in Int /\ MaxTiles \in Nat
      BY TilesAssumption
    <2>2. Min({n, MaxTiles}) = IF n <= MaxTiles THEN n ELSE MaxTiles
      BY <2>1, OfTwo
    <2>3. QED
      BY <2>1, <2>2
  <1>3. m <= MaxTiles /\ m <= n /\ (m = 0 => MaxTiles = 0)
    BY <1>1, <1>2, TilesAssumption
  <1>4. us = [i \in 1..m |-> Sanitized(Scaled(saved)[i])]
    <2>1. RestoredTiles(saved) = [i \in 1..Min({Len(saved), MaxTiles}) |-> Sanitized(Scaled(saved)[i])]
      BY Zenon DEF RestoredTiles
    <2>2. QED
      BY <1>1, <1>2, <2>1
  <1>5. \A i \in 1..m : i \in DOMAIN saved
    BY <1>1, <1>3
  <1>6. ASSUME NEW i \in 1..m
        PROVE  /\ us[i] \in TileSet /\ us[i].was = Unsaved
               /\ LET A == Scaled(saved)[i].at  S == Scaled(saved)[i].span IN
                    (\A a \in Axes : 1 <= S[a] /\ A[a] + S[a] <= Grid) => us[i].at = A /\ us[i].span = S
    <2>1. PICK t : t = Scaled(saved)[i]
      OBVIOUS
    <2>2. PICK A \in [Axes -> Nat], S \in [Axes -> Nat] : A = t.at /\ S = t.span
      BY <1>5, <2>1, ScaledRectangles
    <2>3. us[i] = Sanitized(t)
      BY <1>4, <2>1
    <2>4. /\ Sanitized(t) \in TileSet /\ Sanitized(t).was = Unsaved
          /\ (\A a \in Axes : 1 <= S[a] /\ A[a] + S[a] <= Grid) => Sanitized(t).at = A /\ Sanitized(t).span = S
      BY <2>2, SanitizedTile
    <2>5. QED
      BY <2>1, <2>2, <2>3, <2>4
  <1>7. us \in Seq(TileSet) /\ Len(us) = m /\ DOMAIN us = 1..m
    <2>1. \A F : F \in [1..m -> TileSet] => F \in Seq(TileSet) /\ Len(F) = m /\ DOMAIN F = 1..m
      OBVIOUS
    <2>2. us \in [1..m -> TileSet]
      BY <1>4, <1>6
    <2>3. QED
      BY <2>1, <2>2
  <1>8. Occupied(us) \subseteq Board
    <2>1. \A i \in DOMAIN us : Cells(us[i]) \subseteq Board
      BY <1>6, <1>7, TileOnBoard DEF TileSet
    <2>2. QED
      BY <2>1 DEF Occupied
  <1>9. ASSUME Grid % UnitOf(saved) = 0, ~Overlap(saved) PROVE Share(us, Occupied(us))
    <2>1. PICK u \in Nat : u = UnitOf(saved) /\ 1 <= u
      BY UnitIsFurthest
    <2>2. PICK k \in Nat : 1 <= k /\ Grid = k * u
      BY <1>9, <2>1, MultipleOfUnit
    <2>3. ASSUME NEW i \in 1..m
          PROVE  /\ Placed(saved[i]) /\ Placed(us[i])
                 /\ \A a \in Axes : /\ saved[i].at[a] < FarEnd(saved[i], a)
                                    /\ us[i].at[a] = k * saved[i].at[a]
                                    /\ FarEnd(us[i], a) = k * FarEnd(saved[i], a)
      <3>1. i \in DOMAIN saved
        BY <1>5
      <3>2. PICK P, Q : P = saved[i].at /\ Q = saved[i].span
        OBVIOUS
      <3>3. P \in [Axes -> Nat] /\ Q \in [Axes -> Nat] /\ \A a \in Axes : 1 <= Q[a]
        <4>1. PICK R : R = [at : [Axes -> Nat], span : [Axes -> Nat \ {0}]]
          OBVIOUS
        <4>2. saved \in Seq(R)
          BY <4>1 DEF IsLayout
        <4>3. saved[i] \in R
          BY <3>1, <4>2
        <4>4. P \in [Axes -> Nat] /\ Q \in [Axes -> Nat \ {0}]
          BY <3>2, <4>1, <4>3
        <4>5. QED
          BY <4>4
      <3>4. PICK A, S : A = Scaled(saved)[i].at /\ S = Scaled(saved)[i].span
        OBVIOUS
      <3>5. A \in [Axes -> Nat] /\ S \in [Axes -> Nat] /\ \A a \in Axes : A[a] = k * P[a] /\ S[a] = k * Q[a]
        BY <2>1, <2>2, <3>1, <3>2, <3>4, ScaledRectangles
      <3>6. ASSUME NEW a \in Axes PROVE 1 <= S[a] /\ A[a] + S[a] <= Grid /\ A[a] + S[a] = k * (P[a] + Q[a])
        <4>1. PICK x, y \in Nat : x = P[a] /\ y = Q[a] /\ 1 <= y
          BY <3>3
        <4>2. x + y <= u
          BY <2>1, <3>1, <3>2, <4>1, UnitIsFurthest DEF FarEnd
        <4>3. A[a] = k * x /\ S[a] = k * y
          BY <3>5, <4>1
        <4>4. 1 <= k * y
          BY <2>2, <4>1
        <4>5. k * (x + y) <= k * u
          BY <4>2
        <4>6. k * (x + y) = k * x + k * y
          OBVIOUS
        <4>7. QED
          BY <2>2, <4>1, <4>3, <4>4, <4>5, <4>6
      <3>7. us[i].at = A /\ us[i].span = S
        BY <1>6, <3>4, <3>6
      <3>8. Placed(us[i])
        BY <1>6, TileOnBoard DEF TileSet
      <3>9. Placed(saved[i])
        BY <3>2, <3>3 DEF Placed
      <3>10. \A a \in Axes : /\ saved[i].at[a] < FarEnd(saved[i], a)
                             /\ us[i].at[a] = k * saved[i].at[a]
                             /\ FarEnd(us[i], a) = k * FarEnd(saved[i], a)
        <4> SUFFICES ASSUME NEW a \in Axes
                     PROVE  /\ P[a] < P[a] + Q[a] /\ A[a] = k * P[a] /\ A[a] + S[a] = k * (P[a] + Q[a])
          BY <3>2, <3>7 DEF FarEnd
        <4>1. PICK x, y \in Nat : x = P[a] /\ y = Q[a] /\ 1 <= y
          BY <3>3
        <4>2. P[a] < P[a] + Q[a]
          BY <4>1
        <4>3. QED
          BY <3>5, <3>6, <4>2
      <3>11. QED
        BY <3>8, <3>9, <3>10
    <2>4. ASSUME NEW i \in 1..m, NEW j \in 1..m, i # j PROVE Cells(us[i]) \cap Cells(us[j]) = {}
      <3>1. Cells(saved[i]) \cap Cells(saved[j]) = {}
        BY <1>5, <1>9, <2>4 DEF Overlap
      <3>2. Apart(saved[i], saved[j])
        BY <2>3, <3>1, DisjointIsApart
      <3>3. PICK a \in Axes : FarEnd(saved[i], a) <= saved[j].at[a] \/ FarEnd(saved[j], a) <= saved[i].at[a]
        BY <3>2 DEF Apart
      <3>4. PICK L, R, M, N \in Int : /\ L = saved[i].at[a] /\ R = FarEnd(saved[i], a)
                                      /\ M = saved[j].at[a] /\ N = FarEnd(saved[j], a)
        <4>1. ASSUME NEW t, Placed(t) PROVE t.at[a] \in Int /\ FarEnd(t, a) \in Int
          <5>1. t.at[a] \in Int /\ t.span[a] \in Int
            BY <4>1 DEF Placed
          <5>2. QED
            BY <5>1 DEF FarEnd
        <4>2. Placed(saved[i]) /\ Placed(saved[j])
          BY <2>3
        <4>3. QED
          BY <4>1, <4>2
      <3>5. /\ us[i].at[a] = k * L /\ FarEnd(us[i], a) = k * R
            /\ us[j].at[a] = k * M /\ FarEnd(us[j], a) = k * N
        BY <2>3, <3>4
      <3>6. k * R <= k * M \/ k * N <= k * L
        <4>1. R <= M => k * R <= k * M
          OBVIOUS
        <4>2. N <= L => k * N <= k * L
          OBVIOUS
        <4>3. QED
          BY <3>3, <3>4, <4>1, <4>2
      <3>7. Apart(us[i], us[j])
        BY <3>5, <3>6 DEF Apart
      <3>8. QED
        BY <2>3, <3>7, ApartIsDisjoint
    <2>5. QED
      BY <1>7, <2>4 DEF Share
  <1>10. us = <<>> => MaxTiles = 0
    BY <1>3, <1>7
  <1>11. QED
    BY <1>3, <1>6, <1>7, <1>8, <1>9, <1>10

\* A restored layout keeps the invariant: what it leaves open is accounted for.
LEMMA RestoreKeepsTiles ==
  ASSUME TilesInv, NEW saved, IsLayout(saved), RestoreTiles(saved)
  PROVE  TilesInv'
  <1>1. PICK us : us = tiles' /\ us = RestoredTiles(saved)
    BY DEF RestoreTiles
  <1>2. /\ gap' = Board \ Occupied(us) /\ disturbed' = (Grid % UnitOf(saved) # 0 \/ Overlap(saved))
        /\ laidOut' = TRUE /\ Changed /\ firstSpace' = firstSpace
    BY <1>1 DEF RestoreTiles
  <1>3. /\ us \in Seq(TileSet) /\ Len(us) <= MaxTiles
        /\ \A i \in DOMAIN us : us[i].was = Unsaved
        /\ us = <<>> => MaxTiles = 0
        /\ Occupied(us) \subseteq Board
        /\ Grid % UnitOf(saved) = 0 /\ ~Overlap(saved) => Share(us, Occupied(us))
    BY <1>1, RestoredShares
  <1>4. Board \ gap' = Occupied(us) /\ gap' \in SUBSET Board
    BY <1>2, <1>3
  <1>5. ~disturbed' => Share(us, Board \ gap')
    BY <1>2, <1>3, <1>4
  <1>6. disturbed' \in BOOLEAN /\ laidOut' \in BOOLEAN
    BY <1>2
  <1>7. ~(us = <<>> /\ 0 < MaxTiles)
    BY <1>3
  <1>8. QED
    BY <1>1, <1>2, <1>3, <1>4, <1>5, <1>6, <1>7, PanesChange

\* What a window saves of its tiles is a layout.
LEMMA SavedIsLayout ==
  ASSUME TilesInv, tiles # <<>>,
         NEW saved, saved = [i \in DOMAIN tiles |-> [at |-> tiles[i].at, span |-> tiles[i].span]]
  PROVE  IsLayout(saved)
  <1>1. PICK n \in Nat : n = Len(tiles) /\ DOMAIN tiles = 1..n /\ 1 <= n
    BY DEF TilesInv
  <1>2. PICK R : R = [at : [Axes -> Nat], span : [Axes -> Nat \ {0}]]
    OBVIOUS
  <1>3. ASSUME NEW i \in 1..n PROVE saved[i] \in R /\ saved[i].at = tiles[i].at /\ saved[i].span = tiles[i].span
    <2>1. PICK A, S : A = tiles[i].at /\ S = tiles[i].span
      OBVIOUS
    <2>2. A \in [Axes -> 0..Grid-1] /\ S \in [Axes -> 1..Grid]
      BY <1>1, <2>1, TileFields DEF TilesInv
    <2>3. A \in [Axes -> Nat] /\ S \in [Axes -> Nat \ {0}]
      <3>1. 0..Grid-1 \subseteq Nat /\ 1..Grid \subseteq Nat \ {0}
        BY TilesAssumption
      <3>2. QED
        BY <2>2, <3>1
    <2>4. saved[i] = [at |-> A, span |-> S]
      BY <1>1, <2>1
    <2>5. [at |-> A, span |-> S] \in R
      BY <1>2, <2>3
    <2>6. saved[i].at = A /\ saved[i].span = S
      BY <2>4
    <2>7. QED
      BY <2>1, <2>4, <2>5, <2>6
  <1>4. saved \in Seq(R) /\ Len(saved) = n
    <2>1. \A F : F \in [1..n -> R] => F \in Seq(R) /\ Len(F) = n /\ DOMAIN F = 1..n
      OBVIOUS
    <2>2. saved \in [1..n -> R]
      BY <1>1, <1>3
    <2>3. QED
      BY <2>1, <2>2
  <1>5. saved # <<>>
    BY <1>1, <1>4
  <1>6. QED
    BY <1>2, <1>4, <1>5 DEF IsLayout

\* A window starts with no tiles.
LEMMA TilesStart == TilesInit => TilesInv
  <1>1. SUFFICES ASSUME TilesInit PROVE TilesInv
    OBVIOUS
  <1>2. EdgeOK(NoEdge)
    <2>1. Grid \in Nat
      BY TilesAssumption
    <2>2. QED
      BY <2>1 DEF EdgeOK, NoEdge
  <1>3. <<>> \in Seq(TileSet) /\ Len(<<>>) = 0 /\ DOMAIN <<>> = {}
    OBVIOUS
  <1>4. /\ tiles = <<>> /\ edge = NoEdge /\ gap = {} /\ disturbed = FALSE
        /\ firstSpace \in BOOLEAN /\ laidOut = TRUE
    BY <1>1 DEF TilesInit
  <1>5. Len(tiles) <= MaxTiles
    BY <1>3, <1>4, TilesAssumption
  <1>6. ~Dragging
    BY <1>4 DEF Dragging, NoEdge
  <1>7. QED
    BY <1>2, <1>3, <1>4, <1>5, <1>6 DEF TilesInv

\* Every step of the tiles keeps the invariant.
LEMMA TilesKept == TilesInv /\ [TilesNext]_tileVars => TilesInv'
  <1> SUFFICES ASSUME TilesInv, [TilesNext]_tileVars PROVE TilesInv'
    OBVIOUS
  <1>1. ASSUME NEW side \in SplitSides, Spawn(side) PROVE TilesInv'
    BY <1>1, SpawnKeepsTiles
  <1>2. ASSUME NEW i \in DOMAIN tiles, KillTile(i) PROVE TilesInv'
    BY <1>2, KillKeepsTiles
  <1>3. ASSUME NEW i \in DOMAIN tiles, NEW j \in DOMAIN tiles, i < j, SwapPositions(i, j) PROVE TilesInv'
    <2>1. i # j
      <3>1. i \in Int /\ j \in Int
        BY DEF TilesInv
      <3>2. QED
        BY <1>3, <3>1
    <2>2. QED
      BY <1>3, <2>1, SwapKeepsTiles
  <1>4. CASE ResetTiles
    BY <1>4, ResetKeepsTiles
  <1>5. CASE LoadLayout
    <2>1. PICK saved \in Layouts : RestoreTiles(saved)
      BY <1>5 DEF LoadLayout
    <2>2. QED
      BY <2>1, LayoutsAssumption, RestoreKeepsTiles
  <1>6. CASE RestartWindow
    <2>1. PICK saved : /\ saved = [i \in DOMAIN tiles |-> [at |-> tiles[i].at, span |-> tiles[i].span]]
                       /\ RestoreTiles(saved)
      BY <1>6 DEF RestartWindow
    <2>2. IsLayout(saved)
      BY <1>6, <2>1, SavedIsLayout DEF RestartWindow
    <2>3. QED
      BY <2>1, <2>2, RestoreKeepsTiles
  <1>7. ASSUME NEW i \in DOMAIN tiles, NEW axis \in Axes, NEW far \in BOOLEAN, BeginDrag(i, axis, far)
        PROVE  TilesInv'
    BY <1>7, BeginDragKeeps
  <1>8. ASSUME NEW step \in -Grid..Grid, EndDrag(step) PROVE TilesInv'
    BY <1>8, EndDragKeeps
  <1>9. CASE Relayout
    <2>1. /\ tiles' = tiles /\ edge' = edge /\ firstSpace' = firstSpace /\ gap' = gap /\ disturbed' = disturbed
          /\ laidOut' = TRUE
      BY <1>9 DEF Relayout
    <2>2. Dragging' <=> Dragging
      BY <2>1 DEF Dragging
    <2>3. QED
      BY <2>1, <2>2 DEF TilesInv
  <1>10. CASE UNCHANGED tileVars
    <2>1. /\ tiles' = tiles /\ edge' = edge /\ firstSpace' = firstSpace /\ gap' = gap /\ disturbed' = disturbed
          /\ laidOut' = laidOut
      BY <1>10 DEF tileVars
    <2>2. Dragging' <=> Dragging
      BY <2>1 DEF Dragging
    <2>3. QED
      BY <2>1, <2>2 DEF TilesInv
  <1>11. QED
    BY <1>1, <1>2, <1>3, <1>4, <1>5, <1>6, <1>7, <1>8, <1>9, <1>10 DEF TilesNext

\* The types of the tiles, and the grid they share, are what the invariant says.
LEMMA TilesFollow == TilesInv => TilesTypeOK /\ TilesShareTheGrid
  <1> SUFFICES ASSUME TilesInv PROVE TilesTypeOK /\ TilesShareTheGrid
    OBVIOUS
  <1>1. TilesShareTheGrid
    BY DEF TilesInv, Share, TilesShareTheGrid
  <1>2. ASSUME NEW i \in DOMAIN tiles
        PROVE  /\ [at |-> tiles[i].at, span |-> tiles[i].span] \in Rectangles
               /\ tiles[i].was = Unsaved \/ (Dragging /\ tiles[i].was[1] \in Rectangles)
    <2>1. tiles[i] \in TileSet /\ KeptIn(tiles[i].was, edge)
      BY DEF TilesInv
    <2>2. /\ tiles[i].at \in [Axes -> 0..Grid-1] /\ tiles[i].span \in [Axes -> 1..Grid]
          /\ tiles[i].was = Unsaved \/ \E r \in Outlines : tiles[i].was = <<r>>
      BY <2>1, TileFields
    <2>3. tiles[i].was # Unsaved => edge.axis \in Axes
      BY <2>1 DEF KeptIn
    <2>4. edge.axis \in Axes => Dragging
      BY DEF Axes, Dragging
    <2>5. \A r \in Outlines : <<r>>[1] \in Rectangles
      BY DEF Outlines
    <2>6. QED
      BY <2>2, <2>3, <2>4, <2>5 DEF Rectangles
  <1>3. edge.axis \in Axes \cup {"none"} /\ edge.lo <= edge.hi
    BY DEF TilesInv, EdgeOK
  <1>4. QED
    BY <1>1, <1>2, <1>3 DEF TilesTypeOK, TilesInv

\* Panes share the grid: no cell of it has two tiles, and none is without but
\* those a close or a restore left open, whatever is split, closed, exchanged,
\* dragged, reset and restored (terminal_manager.gd, tile_drag.gd).
THEOREM TilesShare == MCSpec => []TilesShareTheGrid
  <1>1. MCInit => TilesInv
    BY TilesStart DEF MCInit
  <1>2. TilesInv /\ [MCNext]_mcVars => TilesInv'
    <2>1. [MCNext]_mcVars => [TilesNext]_tileVars
      BY DEF MCNext, mcVars, InProcess, InScreen, InLines, InConcepts, InWindow, InTiles
    <2>2. QED
      BY <2>1, TilesKept
  <1>3. TilesInv => TilesShareTheGrid
    BY TilesFollow
  <1>4. QED
    BY <1>1, <1>2, <1>3, PTL DEF MCSpec
=============================================================================
