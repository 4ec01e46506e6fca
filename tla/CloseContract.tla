---------------------------- MODULE CloseContract ----------------------------
(***************************************************************************)
(* Who may destroy a pane.  The window holds workspaces of panes; a wiki   *)
(* pane may hold an unsaved note, a terminal may run a command.  The user  *)
(* closes, swaps, resets, reloads and quits through one walk               *)
(* (_ask_close_then) that asks about running commands once and then asks   *)
(* every pane with unsaved work; a request from the control socket cannot  *)
(* answer a question, so it is refused over unsaved work and otherwise     *)
(* acts at once, whatever question is on the screen at that moment.        *)
(*                                                                         *)
(* The engine shows one exclusive dialog at a time: it refuses a second    *)
(* one while another is registered, and one that is freed without being    *)
(* hidden stays registered until its frame ends (wiki_pane.gd, comment of  *)
(* _save_after_dialog).  A dialog takes the user's input from everything   *)
(* behind it, but not the polled requests.                                 *)
(*                                                                         *)
(* A save asked by a walk awaits one frame, in which only the rest of the  *)
(* same input flush could act: it is one step here.  Which neighbour a     *)
(* closed workspace activates, in which order panes are asked and what a   *)
(* file restores are choices.  Bounds: Panes and Spaces are the identities *)
(* in use, reused once free; MaxLive is MAX_LIVE_PANES, the number of      *)
(* Spaces is MAX_WORKSPACES.                                               *)
(***************************************************************************)
EXTENDS Integers, FiniteSets

CONSTANTS Terminals, Wikis, Spaces, MaxLive

Panes == Terminals \cup Wikis

ASSUME PanesAssumption ==
  /\ IsFiniteSet(Panes) /\ Terminals \cap Wikis = {}
  /\ Spaces # {} /\ MaxLive \in Nat

VARIABLES
  home,       \* live panes and the workspace each is in
  busy,       \* terminals that run a command
  dirty,      \* wikis that hold an unsaved note
  open,       \* the workspaces; none while a reload waits for trust
  active,     \* the one on the screen
  ask,        \* the question on the screen
  walk,       \* the action it is asked for
  modal,      \* leaving: an answered dialog is still registered
  quitAsking, \* _quit_asking
  up,         \* the program runs
  lost,       \* history: panes destroyed with a note neither saved nor discarded
  unasked     \* history: commands stopped though they ran at the ask and were not named

historyVars == <<lost, unasked>>
windowVars == <<home, open, active>>
workVars == <<busy, dirty>>
screenVars == <<ask, walk, modal>>
vars == <<home, busy, dirty, open, active, ask, walk, modal, quitAsking, up, lost, unasked>>

Acts == {"kill", "swap", "reset", "activate", "close", "load", "quit"}

\* A walk: the panes still to ask, the one being asked, those whose note the
\* user discarded, and the commands the first question named; late is history:
\* the panes where a command began after the walk did.
Walks == [act : Acts \cup {"none"}, target : SUBSET Panes, space : SUBSET Spaces,
          left : SUBSET Panes, asking : SUBSET Panes, discarded : SUBSET Panes,
          named : SUBSET Panes, late : SUBSET Panes]

Walk(act, target, space) ==
  [act |-> act, target |-> target, space |-> space, left |-> {}, asking |-> {},
   discarded |-> {}, named |-> {}, late |-> {}]
NoWalk == Walk("none", {}, {})

WalkQuestions == {"running", "leave", "overwrite"}
Questions == WalkQuestions \cup {"trust", "profile", "other"}

Live == DOMAIN home
In(w) == {p \in Live : home[p] = w}

WindowOK ==
  /\ DOMAIN home \subseteq Panes /\ home \in [DOMAIN home -> Spaces]
  /\ busy \subseteq Terminals \cap Live
  /\ dirty \subseteq Wikis \cap Live
  /\ open \subseteq Spaces /\ active \in Spaces
  /\ \A p \in Live : home[p] \in open
  /\ open # {} => active \in open

ScreenOK ==
  /\ ask \in Questions \cup {"none"}
  /\ walk \in Walks /\ (walk.act # "none" <=> ask \in WalkQuestions)
  /\ modal \in {"free", "leaving"} /\ (modal = "leaving" => ask = "none")

FlagsOK ==
  /\ quitAsking \in BOOLEAN /\ up \in BOOLEAN
  /\ lost \subseteq Panes /\ unasked \subseteq Panes

\* A pane is in an open workspace and holds only the work of its kind; a
\* question of a walk is on the screen while its walk waits.
TypeOK == WindowOK /\ ScreenOK /\ FlagsOK

Init ==
  /\ home = <<>> /\ busy = {} /\ dirty = {}
  /\ open = {} /\ active = CHOOSE w \in Spaces : TRUE
  /\ ask = "none" /\ walk = NoWalk /\ modal = "free"
  /\ quitAsking = FALSE /\ up = FALSE
  /\ lost = {} /\ unasked = {}

-----------------------------------------------------------------------------
\* Dialogs.  `from' is the screen a handler finds: free, leaving, or busy with
\* a question that stays.

ScreenNow == IF ask # "none" THEN "busy" ELSE modal

\* A destroyed pane is no longer asked or acted on.
Forget(wk, gone) ==
  [wk EXCEPT !.target = @ \ gone, !.left = @ \ gone,
             !.named = @ \ gone, !.late = @ \ gone]

\* Nothing is asked; panes are gone.
Clear(from, gone) ==
  IF from = "busy" THEN walk' = Forget(walk, gone) /\ UNCHANGED <<ask, modal>>
  ELSE ask' = "none" /\ walk' = NoWalk /\ modal' = from

\* popup_centered: refused while another exclusive dialog is registered.
Raise(question, wk, from) ==
  IF from = "free" THEN ask' = question /\ walk' = wk /\ modal' = "free"
  ELSE Clear(from, {})

-----------------------------------------------------------------------------
\* What is asked and what is destroyed.

\* Flawed: a reload asks the panes on the screen only.
AskedOnScreen(wk) ==
  IF wk.act \in {"kill", "swap"} THEN wk.target
  ELSE IF wk.act = "close" THEN {p \in Live : home[p] \in wk.space}
  ELSE In(active)

Asked(wk) ==
  IF wk.act \in {"kill", "swap"} THEN wk.target
  ELSE IF wk.act = "close" THEN {p \in Live : home[p] \in wk.space}
  ELSE IF wk.act \in {"reset", "activate"} THEN In(active)
  ELSE Live

Destroyed(wk) ==
  IF wk.act \in {"kill", "swap"} THEN wk.target \cap Live
  ELSE IF wk.act = "close" THEN {p \in Live : home[p] \in wk.space}
  ELSE IF wk.act \in {"reset", "activate"} THEN In(active)
  ELSE Live

Keep(ps) == [p \in ps |-> home[p]]
Add(ps, new, w) == [p \in ps \cup new |-> IF p \in new THEN w ELSE home[p]]

\* Flawed: the limit counts the workspace on the screen.
RoomOnScreen(kept) == MaxLive - Cardinality(kept \cap In(active))

\* _live_pane_room: what the panes of every workspace leave.
RoomBeside(kept) == MaxLive - Cardinality(kept)

\* _restore_into: as many of the file's panes as there is room for, one
\* terminal for an empty layout.
Restored(kept) ==
  {new \in SUBSET (Panes \ kept) :
     /\ Cardinality(new) <= RoomBeside(kept)
     /\ RoomBeside(kept) > 0 => new # {}}

\* _build_workspaces, from whatever the file holds.
Build ==
  /\ \E now \in SUBSET Spaces \ {{}}, new \in Restored({}) :
       /\ open' = now /\ active' \in now
       /\ home' \in [new -> now]

\* _init_workspaces: an untrusted file waits for the user, with no workspace.
Reload(from) ==
  \/ Build /\ Clear(from, {})
  \/ /\ home' = <<>> /\ open' = {} /\ UNCHANGED active
     /\ Raise("trust", NoWalk, from)

\* _swap_pane_now: another pane takes the tile.
Swapped(gone) ==
  IF gone = {} THEN UNCHANGED home
  ELSE \E p \in gone, q \in Panes \ (Live \ gone) :
         home' = Add(Live \ gone, {q}, home[p])

Quits ==
  /\ up' = FALSE /\ quitAsking' = FALSE
  /\ home' = <<>> /\ open' = {} /\ UNCHANGED active
  /\ ask' = "none" /\ walk' = NoWalk /\ modal' = "free"

\* `next': the action itself, d being the notes not saved by then.
Perform(wk, d, from) ==
  LET gone == Destroyed(wk)
      kept == Live \ gone IN
  /\ lost' = lost \cup ((gone \cap d) \ wk.discarded)
  /\ unasked' = unasked \cup ((gone \cap busy) \ (wk.named \cup wk.late))
  /\ busy' = busy \ gone /\ dirty' = d \ gone
  /\ \/ /\ wk.act \in {"kill", "reset"}
        /\ home' = Keep(kept) /\ Clear(from, gone)
        /\ UNCHANGED <<open, active, quitAsking, up>>
     \/ /\ wk.act = "swap"
        /\ Swapped(gone)
        /\ Clear(from, gone)
        /\ UNCHANGED <<open, active, quitAsking, up>>
     \/ /\ wk.act = "activate"
        /\ \E new \in Restored(kept) : home' = Add(kept, new, active)
        /\ Clear(from, gone)
        /\ UNCHANGED <<open, active, quitAsking, up>>
     \/ /\ wk.act = "close"
        /\ home' = Keep(kept) /\ open' = open \ wk.space
        /\ IF active \in wk.space THEN active' \in open' ELSE UNCHANGED active
        /\ Clear(from, gone)
        /\ UNCHANGED <<quitAsking, up>>
     \/ wk.act = "load" /\ Reload(from) /\ UNCHANGED <<quitAsking, up>>
     \/ wk.act = "quit" /\ Quits

\* A no: the whole action is cancelled.
Decline(wk, from) ==
  /\ quitAsking' = (quitAsking /\ wk.act # "quit")
  /\ Clear(from, {})
  /\ UNCHANGED <<windowVars, busy, up, historyVars>>

\* _ask_close_step: the next pane with unsaved work answers before the walk
\* goes on.  One that is asking already says no.
Continue(wk, d, from) ==
  LET must == wk.left \cap Live \cap d IN
  \/ must = {} /\ Perform(wk, d, from)
  \/ \E p \in must :
       IF from = "busy" /\ p \in walk.asking
         THEN Decline(wk, from) /\ dirty' = d
         ELSE /\ Raise("leave", [wk EXCEPT !.left = must \ {p}, !.asking = {p}], from)
              /\ dirty' = d
              /\ quitAsking' = (quitAsking \/ wk.act = "quit")
              /\ UNCHANGED <<windowVars, busy, up, historyVars>>

\* _ask_close_then: one consent for the commands, then the panes.
AskClose(wk, from) ==
  LET running == Asked(wk) \cap busy
      asks == [wk EXCEPT !.left = Asked(wk), !.named = running] IN
  IF running = {} THEN Continue(asks, dirty, from)
  ELSE /\ Raise("running", asks, from)
       /\ quitAsking' = (quitAsking \/ wk.act = "quit")
       /\ UNCHANGED <<windowVars, workVars, up, historyVars>>

-----------------------------------------------------------------------------
\* The user, when no dialog takes the input.

Free == up /\ ask = "none" /\ modal = "free"
Calm == UNCHANGED <<quitAsking, up, historyVars>>

Close(p) == Free /\ p \in In(active) /\ AskClose(Walk("kill", {p}, {}), "free")
Swap(p) == Free /\ p \in In(active) /\ AskClose(Walk("swap", {p}, {}), "free")
Reset == Free /\ open # {} /\ AskClose(Walk("reset", {}, {}), "free")
Load == Free /\ AskClose(Walk("load", {}, {}), "free")
CloseWorkspace(w) ==
  Free /\ w \in open /\ open # {w} /\ AskClose(Walk("close", {}, {w}), "free")

\* _activate_profile: at once, or after the question about trust or about
\* replacing the layout.
Activate ==
  /\ Free /\ open # {}
  /\ \/ AskClose(Walk("activate", {}, {}), "free")
     \/ Raise("profile", NoWalk, "free") /\ UNCHANGED <<windowVars, workVars>> /\ Calm

\* A profile in a workspace of its own replaces nothing.
InNewWorkspace ==
  \E w \in Spaces \ open, new \in Restored(Live) :
    /\ open' = open \cup {w} /\ active' = w
    /\ home' = Add(Live, new, w)

OpenProfile ==
  /\ Free /\ open # {}
  /\ InNewWorkspace
  /\ UNCHANGED <<workVars, screenVars>> /\ Calm

AddWorkspace(w) ==
  /\ Free /\ open # {} /\ w \notin open
  /\ open' = open \cup {w} /\ active' = w
  /\ UNCHANGED <<home, workVars, screenVars>> /\ Calm

Switch(w) ==
  /\ Free /\ w \in open /\ w # active
  /\ active' = w
  /\ UNCHANGED <<home, open, workVars, screenVars>> /\ Calm

\* The user types into a note or at a prompt of the workspace on the screen.
Edit(p) ==
  /\ Free /\ p \in Wikis \cap In(active)
  /\ dirty' = dirty \cup {p}
  /\ UNCHANGED <<windowVars, busy, screenVars>> /\ Calm

SaveNote(p) ==
  /\ Free /\ p \in dirty \cap In(active)
  /\ dirty' = dirty \ {p}
  /\ UNCHANGED <<windowVars, busy, screenVars>> /\ Calm

TypeCommand(p) ==
  /\ Free /\ p \in Terminals \cap In(active)
  /\ busy' = busy \cup {p}
  /\ UNCHANGED <<windowVars, dirty, screenVars>> /\ Calm

\* Another dialog of the program; a plugin review closes by its timer too.
OtherDialog ==
  /\ Free /\ Raise("other", NoWalk, "free")
  /\ UNCHANGED <<windowVars, workVars>> /\ Calm

OtherCloses ==
  /\ ask = "other"
  /\ \E m \in {"free", "leaving"} : Clear(m, {})
  /\ UNCHANGED <<windowVars, workVars>> /\ Calm

-----------------------------------------------------------------------------
\* Answers.

No ==
  /\ ask \in WalkQuestions
  /\ Decline(walk, "free") /\ UNCHANGED dirty

StopThem == ask = "running" /\ Continue(walk, dirty, "free")

\* The dialog is freed but not hidden: it stays registered for the frame.
Discard ==
  /\ ask = "leave"
  /\ Continue([walk EXCEPT !.discarded = @ \cup walk.asking, !.asking = {}], dirty, "leaving")

\* _save: written; refused because the file changed; or failed.
Save ==
  /\ ask = "leave"
  /\ \/ Continue([walk EXCEPT !.asking = {}], dirty \ walk.asking, "free")
     \/ /\ ask' = "overwrite"
        /\ UNCHANGED <<windowVars, workVars, walk, modal>> /\ Calm
     \/ Decline(walk, "free") /\ UNCHANGED dirty

Overwrite ==
  /\ ask = "overwrite"
  /\ \/ Continue([walk EXCEPT !.asking = {}], dirty \ walk.asking, "free")
     \/ Decline(walk, "free") /\ UNCHANGED dirty

\* Restore or Cancel: the file's workspaces, the untrusted ones emptied.
AnswerTrust ==
  /\ ask = "trust"
  /\ Build /\ Clear("free", {})
  /\ UNCHANGED workVars /\ Calm

AnswerProfile ==
  /\ ask = "profile"
  /\ \/ AskClose(Walk("activate", {}, {}), "free")
     \/ InNewWorkspace /\ Clear("free", {}) /\ UNCHANGED workVars /\ Calm
     \/ Clear("free", {}) /\ UNCHANGED <<windowVars, workVars>> /\ Calm

\* The frame ends: what was freed is gone.
EndFrame ==
  /\ modal = "leaving"
  /\ modal' = "free"
  /\ UNCHANGED <<windowVars, workVars, ask, walk>> /\ Calm

-----------------------------------------------------------------------------
\* Requests of the control socket, polled whatever is on the screen.

\* A command began after the question was asked.
Late(p) == walk' = IF walk.act = "none" THEN walk ELSE [walk EXCEPT !.late = @ \cup {p}]

\* newPane, paneRun; the user's own new panes come the same way.
NewPane(p) ==
  /\ up /\ open # {} /\ p \notin Live /\ RoomBeside(Live) > 0
  /\ home' = Add(Live, {p}, active)
  /\ \/ UNCHANGED <<busy, walk>>
     \/ p \in Terminals /\ busy' = busy \cup {p} /\ Late(p)
  /\ UNCHANGED <<open, active, dirty, ask, modal>> /\ Calm

\* inject, broadcast
Inject(p) ==
  /\ up /\ p \in (Terminals \cap Live) \ busy
  /\ busy' = busy \cup {p} /\ Late(p)
  /\ UNCHANGED <<windowVars, dirty, ask, modal>> /\ Calm

\* Flawed: only panes on the screen are looked at.
RefusedOnScreen(ps) == (ps \cap In(active)) \cap dirty # {}

\* has_unsaved_state: the caller cannot answer, so it is refused.
Refused(ps) == ps \cap dirty # {}

\* killPane
KillPane(p) ==
  /\ up /\ p \in Live /\ ~Refused({p})
  /\ Perform([Walk("kill", {p}, {}) EXCEPT !.named = {p}], dirty, ScreenNow)

\* layoutLoad, of a trusted profile
LayoutLoad ==
  /\ up /\ open # {} /\ ~Refused(In(active))
  /\ Continue([Walk("activate", {}, {}) EXCEPT !.left = In(active), !.named = Panes],
              dirty, ScreenNow)

\* The window's close request, or the shutdown flag; only the flag gets past
\* a dialog.
RequestQuit ==
  /\ up /\ ~quitAsking
  /\ AskClose(Walk("quit", {}, {}), ScreenNow)

-----------------------------------------------------------------------------
\* Around the program.

CommandEnds(p) ==
  /\ p \in busy
  /\ busy' = busy \ {p}
  /\ UNCHANGED <<windowVars, dirty, screenVars>> /\ Calm

Crash ==
  /\ up
  /\ Quits /\ busy' = {} /\ dirty' = {} /\ UNCHANGED historyVars

Start ==
  /\ ~up
  /\ up' = TRUE /\ Reload("free") /\ busy' = {} /\ dirty' = {}
  /\ UNCHANGED <<quitAsking, historyVars>>

Next ==
  \/ \E p \in Panes : \/ Close(p) \/ Swap(p) \/ Edit(p) \/ SaveNote(p) \/ TypeCommand(p)
                      \/ NewPane(p) \/ Inject(p) \/ KillPane(p) \/ CommandEnds(p)
  \/ \E w \in Spaces : CloseWorkspace(w) \/ AddWorkspace(w) \/ Switch(w)
  \/ Reset \/ Load \/ Activate \/ OpenProfile \/ OtherDialog \/ OtherCloses
  \/ No \/ StopThem \/ Discard \/ Save \/ Overwrite \/ AnswerTrust \/ AnswerProfile \/ EndFrame
  \/ LayoutLoad \/ RequestQuit \/ Crash \/ Start

Spec == Init /\ [][Next]_vars

-----------------------------------------------------------------------------
\* A note is destroyed only when the user chose Discard for it or it was saved:
\* no close, swap, reset, reload, quit or control-socket request takes another
\* pane's unsaved work with it (_request_leave, has_unsaved_state).
NoNoteLost == lost = {}

\* An action of the user stops no command that ran when the action was asked
\* and that its question did not name: what is asked is what is destroyed, for
\* every workspace the action reaches (_ask_running_then).
CommandsNamed == unasked = {}

\* Neither a note nor a command goes without its question: what a walk asked
\* about covers what its action destroys.
NothingLostUnasked == NoNoteLost /\ CommandsNamed

\* A pane's question never outlives the pane, nor the unsaved work it is
\* about, while requests from the control socket destroy other panes
\* (wiki_pane.gd _request_leave: the dialog is the pane's child).
QuestionHasItsPane ==
  ask \in {"leave", "overwrite"} =>
    \E p \in dirty : walk.asking = {p} /\ p \in Destroyed(walk)

\* The panes of all workspaces together stay within MAX_LIVE_PANES, through
\* spawns, restores, swaps and profile activations.
LivePanesCapped == Cardinality(Live) <= MaxLive

\* With nothing on the screen no quit is being asked: the next request to quit
\* is heard (workspace.gd: the flag clears when the walk ends, so a request
\* after a cancelled one still works).
QuitIsHeard == ~(quitAsking /\ Free)

=============================================================================
