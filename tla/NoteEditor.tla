------------------------------ MODULE NoteEditor ------------------------------
(* The wiki pane's note editor (wiki_pane.gd, gpty-core vault.rs): the buffer  *)
(* of one open note, the file others edit too, the questions around losing     *)
(* either, and the recovery copy that outlives a crash.                        *)
(*                                                                             *)
(* A text is a number, 0 for none; every edit makes a new one, and no two     *)
(* files have one text.  A file's stamp is the text it holds: two revisions    *)
(* are never taken for one another.                                            *)
EXTENDS Integers, FiniteSets

CONSTANTS
    Names,        \* paths a note can have
    AtFirst,      \* name -> the text its file has at first
    BigTexts,     \* texts over the read cap: shown read-only, never written
    MaxTexts,     \* bound: texts written by anybody
    MaxCrashes    \* bound: times the window dies

ASSUME EditorAssumption ==
    /\ Names \cap {"none", "list", "close", "stay"} = {} /\ BigTexts \subseteq Nat
    /\ IsFiniteSet(Names) /\ Cardinality(Names) <= MaxTexts
    /\ AtFirst \in [Names -> 1..Cardinality(Names)]
    /\ \A m, n \in Names : AtFirst[m] = AtFirst[n] => m = n
    /\ MaxTexts \in Nat /\ MaxCrashes \in Nat

VARIABLES
    disk,      \* name -> the text of its file, 0 for no file
    open,      \* _current_rel, "none" for the list
    text,      \* the buffer
    saved,     \* _saved_text
    stamp,     \* _loaded_mtime and _loaded_size
    copies,    \* name -> recovery copy [text, stamp], text 0 for none
    armed,     \* _scratch_timer runs
    ask,       \* the question on the screen
    next,      \* what the answer lets happen: a name, "list", "close" or "stay"
    saving,    \* _save_after_dialog waits for the next frame: "no", "save" or "force"
    offered,   \* _restore_copy and _restore_rel
    pane,      \* the pane exists
    texts, crashes,
    base,      \* history: text -> the file's text it grew from
    forgone,   \* history: the copy of the buffer failed, or was discarded
    owed,      \* history: name -> text a crash left in a copy, unanswered
    discarded  \* history: the text a Discard threw away

editorVars == <<disk, open, text, saved, stamp, copies, armed, ask, next, saving, offered, pane,
                texts, crashes, base, forgone, owed, discarded>>

buffer == <<open, text, saved, stamp>>
question == <<ask, next, saving, offered>>
history == <<base, forgone, owed, discarded>>

NoCopy == [text |-> 0, stamp |-> 0]
NoOffer == [name |-> "none", text |-> 0, stamp |-> 0]
Goals == Names \cup {"list", "close", "stay"}

EditorInit ==
    /\ disk = AtFirst /\ texts = Cardinality(Names)
    /\ open = "none" /\ text = 0 /\ saved = 0 /\ stamp = 0
    /\ copies = [n \in Names |-> NoCopy] /\ armed = FALSE
    /\ ask = "none" /\ next = "list" /\ saving = "no" /\ offered = NoOffer
    /\ pane = TRUE /\ crashes = 0
    /\ base = [t \in 0..MaxTexts + 1 |-> 0] /\ forgone = FALSE
    /\ owed = [n \in Names |-> 0] /\ discarded = 0

Editable == open # "none" /\ saved \notin BigTexts
Dirty == Editable /\ text # saved
NewText == texts + 1
CanWrite == texts <= MaxTexts
Asking == ask # "none"

Dropped(name) == [n \in Names |-> IF n = name THEN NoCopy ELSE copies[n]]
Answered(name) == [n \in Names |-> IF n = name THEN 0 ELSE owed[n]]

(***************************************************************************)
(* Opening and leaving                                                     *)
(***************************************************************************)

(* _offer_scratch: a copy that says what the file says is only a leftover. *)
Offers(n) == disk[n] \notin BigTexts /\ copies[n].text \notin {0, disk[n]}
Leftover(n) == disk[n] \notin BigTexts /\ copies[n].text = disk[n]

(* _open_note of a file that can be read; kept and debt are the copies and  *)
(* the answers owed by then.                                                *)
OpenNote(n, kept, debt) ==
    /\ open' = n /\ text' = disk[n] /\ saved' = disk[n] /\ stamp' = disk[n]
    /\ armed' = FALSE
    /\ copies' = (IF Leftover(n) THEN [kept EXCEPT ![n] = NoCopy] ELSE kept)
    /\ owed' = (IF Leftover(n) THEN [debt EXCEPT ![n] = 0] ELSE debt)
    /\ ask' = (IF Offers(n) THEN "restore" ELSE "none")
    /\ offered' = (IF Offers(n) THEN [name |-> n, text |-> copies[n].text,
                                      stamp |-> copies[n].stamp] ELSE offered)

(* _clear_note: the list, or no pane any more. *)
Clear == open' = "none" /\ text' = 0 /\ saved' = 0 /\ stamp' = 0 /\ armed' = FALSE

Unreadable(goal) == goal \in Names /\ disk[goal] = 0

(* What leaving was for ... *)
Proceed(goal, kept, debt) ==
    \/ /\ goal \in Names /\ ~Unreadable(goal) /\ OpenNote(goal, kept, debt) /\ UNCHANGED pane
    \/ /\ goal \in {"list", "close"} /\ Clear /\ ask' = "none"
       /\ copies' = kept /\ owed' = debt /\ pane' = (goal = "list") /\ UNCHANGED offered

(* ... and what may come to nothing after the answer: a note that cannot be *)
(* read, a close that another pane calls off.                               *)
CalledOff(goal, kept, debt) ==
    /\ goal \in {"close", "stay"} \/ Unreadable(goal)
    /\ ask' = "none" /\ copies' = kept /\ owed' = debt
    /\ UNCHANGED <<open, text, offered, pane>>

(* _request_leave: a clean buffer just goes; one question at a time. *)
Leave ==
    /\ pane /\ ~Asking
    /\ \E goal \in Goals \ {open, "stay"} :
         \/ /\ ~Dirty /\ Proceed(goal, copies, owed) /\ UNCHANGED next
         \/ /\ Dirty /\ ask' = "leave" /\ next' = goal
            /\ UNCHANGED <<buffer, copies, armed, offered, owed, pane>>
    /\ UNCHANGED <<disk, saving, texts, crashes, base, forgone, discarded>>

\* Flawed: only the timer stops, the copy stays.
KeptOnDiscard(name) == copies

(* Discard: the copy goes, then the buffer, if what follows takes it away. *)
DroppedOnDiscard(name) == Dropped(name)

DiscardAnswer ==
    /\ ask = "leave"
    /\ \/ Proceed(next, DroppedOnDiscard(open), Answered(open))
       \/ /\ CalledOff(next, DroppedOnDiscard(open), Answered(open))
          /\ armed' = FALSE /\ UNCHANGED <<saved, stamp>>
    /\ discarded' = text /\ forgone' = TRUE
    /\ UNCHANGED <<disk, next, saving, texts, crashes, base>>

CancelAnswer ==
    /\ ask \in {"leave", "overwrite"} /\ ask' = "none"
    /\ UNCHANGED <<disk, buffer, copies, armed, next, saving, offered, pane, texts, crashes, history>>

(* Save, and Overwrite: the question is gone first, the save is a frame away. *)
SaveAnswer ==
    /\ ask \in {"leave", "overwrite"} /\ ask' = "none"
    /\ saving' = (IF ask = "leave" THEN "save" ELSE "force")
    /\ UNCHANGED <<disk, buffer, copies, armed, next, offered, pane, texts, crashes, history>>

(***************************************************************************)
(* Typing, and the recovery copy                                           *)
(***************************************************************************)

Type ==
    /\ pane /\ ~Asking /\ Editable /\ CanWrite
    /\ texts' = NewText /\ text' = NewText
    /\ base' = [base EXCEPT ![NewText] = IF Dirty THEN base[text] ELSE saved]
    /\ armed' = TRUE /\ forgone' = FALSE /\ discarded' = 0 /\ owed' = Answered(open)
    /\ UNCHANGED <<disk, open, saved, stamp, copies, question, pane, crashes>>

(* Back to what was loaded: the timer stops, a copy already written stays. *)
Undo ==
    /\ pane /\ ~Asking /\ Dirty /\ text' = saved /\ armed' = FALSE
    /\ UNCHANGED <<disk, open, saved, stamp, copies, question, pane, texts, crashes, history>>

(* write_scratch: the buffer and the stamp it was loaded with. *)
CopyOfBuffer == [text |-> text, stamp |-> stamp]

Snapshot(kept, name) ==
    \/ text \notin BigTexts /\ copies' = [kept EXCEPT ![name] = CopyOfBuffer] /\ forgone' = FALSE
    \/ copies' = kept /\ forgone' = TRUE

TimerFires ==
    /\ pane /\ armed /\ armed' = FALSE
    /\ IF Dirty THEN Snapshot(copies, open) ELSE UNCHANGED <<copies, forgone>>
    /\ UNCHANGED <<disk, buffer, question, pane, texts, crashes, base, owed, discarded>>

(* The question about a copy: restored, discarded, or not now. *)
Restore ==
    /\ ask = "restore" /\ ask' = "none" /\ offered' = NoOffer
    /\ IF offered.name = open
       THEN /\ text' = offered.text /\ stamp' = offered.stamp
            /\ forgone' = FALSE /\ owed' = Answered(open)
       ELSE UNCHANGED <<text, stamp, forgone, owed>>
    /\ UNCHANGED <<disk, open, saved, copies, armed, next, saving, pane, texts, crashes, base,
                   discarded>>

DiscardCopy ==
    /\ ask = "restore" /\ ask' = "none" /\ offered' = NoOffer
    /\ copies' = Dropped(offered.name) /\ armed' = FALSE /\ owed' = Answered(open)
    /\ discarded' = offered.text
    /\ UNCHANGED <<disk, buffer, next, saving, pane, texts, crashes, base, forgone>>

NotNow ==
    /\ ask = "restore" /\ ask' = "none" /\ owed' = Answered(open)
    /\ UNCHANGED <<disk, buffer, copies, armed, next, saving, offered, pane, texts, crashes, base,
                   forgone, discarded>>

(***************************************************************************)
(* Saving                                                                  *)
(***************************************************************************)

\* Flawed: whatever is on disk is replaced.
SavesAnyway == disk[open] # 0

(* write_vault_note: the file has the stamp the buffer was loaded with.  Its *)
(* check and its rename are one step here.                                   *)
SavesOver == disk[open] # 0 /\ disk[open] = stamp

(* _save: written, or the file moved on and the user is asked, or refused.  *)
SaveNote(force, goal) ==
    \/ /\ SavesOver \/ (force /\ disk[open] # 0)
       /\ text \notin BigTexts
       /\ disk' = [disk EXCEPT ![open] = text] /\ discarded' = 0
       /\ \/ Proceed(goal, Dropped(open), Answered(open))
          \/ /\ CalledOff(goal, Dropped(open), Answered(open))
             /\ saved' = text /\ stamp' = text /\ armed' = FALSE
    \/ /\ ~SavesOver /\ ~force /\ disk[open] # 0 /\ ask' = "overwrite"
       /\ UNCHANGED <<disk, buffer, copies, armed, offered, owed, discarded, pane>>
    \/ UNCHANGED <<disk, buffer, copies, armed, offered, owed, discarded, ask, pane>>

(* The button, and Ctrl+S, which also writes a clean buffer. *)
Save ==
    /\ pane /\ ~Asking /\ Editable /\ saving = "no"
    /\ next' = "stay" /\ SaveNote(FALSE, "stay")
    /\ UNCHANGED <<saving, texts, crashes, base, forgone>>

(* The save a question asked for, and then what the question was about. *)
SaveNow ==
    /\ pane /\ saving # "no" /\ saving' = "no"
    /\ IF Editable /\ next # open
       THEN SaveNote(saving = "force", next)
       ELSE UNCHANGED <<disk, buffer, copies, armed, offered, owed, discarded, ask, pane>>
    /\ UNCHANGED <<next, texts, crashes, base, forgone>>

(* rename_vault_note: the destination is claimed, never replaced. *)
Rename ==
    /\ pane /\ ~Asking /\ open # "none" /\ disk[open] # 0
    /\ \E new \in Names :
         /\ disk[new] = 0
         /\ disk' = [disk EXCEPT ![new] = disk[open], ![open] = 0]
         /\ open' = new /\ owed' = [owed EXCEPT ![new] = 0, ![open] = 0]
         /\ IF Dirty THEN Snapshot(Dropped(open), new) /\ armed' = FALSE
                     ELSE copies' = Dropped(open) /\ armed' = FALSE /\ UNCHANGED forgone
    /\ discarded' = 0
    /\ UNCHANGED <<text, saved, stamp, question, pane, texts, crashes, base>>

(* rewrite_links_after_rename on the open note, when its buffer is clean:   *)
(* the editor takes what was written and its stamp.                         *)
AdoptRewrite ==
    /\ pane /\ ~Asking /\ Editable /\ ~Dirty /\ disk[open] # 0 /\ CanWrite
    /\ texts' = NewText /\ disk' = [disk EXCEPT ![open] = NewText]
    /\ base' = [base EXCEPT ![NewText] = disk[open]]
    /\ text' = NewText /\ saved' = NewText /\ stamp' = NewText
    /\ UNCHANGED <<open, copies, armed, question, pane, crashes, forgone, owed, discarded>>

(* A confirmed Delete takes the buffer with it. *)
Delete ==
    /\ pane /\ ~Asking /\ open # "none"
    /\ disk' = [disk EXCEPT ![open] = 0]
    /\ copies' = Dropped(open) /\ owed' = Answered(open) /\ discarded' = text
    /\ Clear
    /\ UNCHANGED <<question, pane, texts, crashes, base, forgone>>

(* The settings take the pane to another vault, also under a question.      *)
ChangeVault ==
    /\ pane /\ open # "none"
    /\ copies' = Dropped(open) /\ owed' = Answered(open) /\ discarded' = text
    /\ Clear
    /\ UNCHANGED <<disk, question, pane, texts, crashes, base, forgone>>

(***************************************************************************)
(* Everybody else                                                          *)
(***************************************************************************)

OutsideEdit ==
    /\ CanWrite
    /\ \E n \in Names : \E t \in {NewText, 0} \ {disk[n]} :
         /\ disk' = [disk EXCEPT ![n] = t]
         /\ base' = [base EXCEPT ![NewText] = disk[n]]
    /\ texts' = NewText
    /\ UNCHANGED <<buffer, copies, armed, question, pane, crashes, forgone, owed, discarded>>

(* The window dies, at worst between the write of a save and its clean-up.  *)
Crash ==
    /\ crashes < MaxCrashes /\ crashes' = crashes + 1
    /\ \/ /\ pane /\ Dirty /\ SavesOver /\ ~Asking
          /\ disk' = [disk EXCEPT ![open] = text]
          /\ owed' = Answered(open)
       \/ /\ UNCHANGED disk
          /\ owed' = IF pane /\ Dirty /\ ~armed /\ ~forgone
                     THEN [owed EXCEPT ![open] = text] ELSE owed
    /\ Clear /\ ask' = "none" /\ saving' = "no" /\ offered' = NoOffer /\ pane' = TRUE
    /\ forgone' = FALSE
    /\ UNCHANGED <<copies, next, texts, base, discarded>>

OpenPane ==
    /\ ~pane /\ pane' = TRUE
    /\ UNCHANGED <<disk, buffer, copies, armed, question, texts, crashes, history>>

EditorNext ==
    \/ Leave \/ DiscardAnswer \/ CancelAnswer \/ SaveAnswer \/ Type \/ Undo \/ TimerFires
    \/ Restore \/ DiscardCopy \/ NotNow \/ Save \/ SaveNow \/ Rename \/ AdoptRewrite \/ Delete
    \/ ChangeVault \/ OutsideEdit \/ Crash \/ OpenPane

EditorSpec == EditorInit /\ [][EditorNext]_editorVars

(***************************************************************************)
(* What the editor promises                                                *)
(***************************************************************************)

\* Type correctness of the files, the buffer, the copies and the questions.
EditorTypeOK ==
    /\ disk \in [Names -> 0..texts] /\ open \in Names \cup {"none"}
    /\ {text, saved, stamp, discarded} \subseteq 0..texts
    /\ copies \in [Names -> [text : 0..texts, stamp : 0..texts]]
    /\ offered \in [name : Names \cup {"none"}, text : 0..texts, stamp : 0..texts]
    /\ ask \in {"none", "leave", "overwrite", "restore"} /\ next \in Goals
    /\ saving \in {"no", "save", "force"}
    /\ {armed, pane, forgone} \subseteq BOOLEAN

\* A save the user did not force replaces the very text the buffer grew from,
\* through restores, renames and respelled mentions: no outside edit is
\* overwritten unasked.
SaveReplacesItsBase ==
    [][\A n \in Names :
         disk'[n] # disk[n] /\ disk'[n] = text /\ n = open /\ saving # "force" /\ Dirty =>
            disk[n] = base[text]]_editorVars

\* Unsaved work outlives a crash: once the timer has fired the copy holds the
\* whole buffer and the stamp it was loaded with.
CopyCoversWork ==
    pane /\ Dirty /\ ~armed /\ ~forgone => copies[open] = CopyOfBuffer

\* Work a crash left in a copy stays there until the user has answered for it.
CrashedWorkIsKept ==
    \A n \in Names : owed[n] # 0 => copies[n].text = owed[n]

\* What the user discarded is not offered back.
DiscardedStaysDiscarded ==
    ask = "restore" /\ offered.name = open => offered.text # discarded

\* Unsaved work outlives what may happen to it: the copy covers the buffer, a
\* crash's copy waits for its answer, and only a discard ends it, for good.
WorkIsKept == CopyCoversWork /\ CrashedWorkIsKept /\ DiscardedStaysDiscarded

=============================================================================
