----------------------------- MODULE PluginStore -----------------------------
(* Installed plugins (gpty-cli commands/plugin.rs, plugin_store.rs): the CLI  *)
(* commands that write plugins.json and the content directories, the window  *)
(* that reviews an install and re-reads the store, and what each crash,      *)
(* refusal or overlap of two commands leaves on disk.                        *)
(*                                                                           *)
(* A plugin is its id, its content the revision it was cloned at, a record   *)
(* that revision and the enabled flag.  Several commands may run at once: no *)
(* lock spans the read and the write of the store.                           *)
EXTENDS Integers, FiniteSets

CONSTANTS
    Ids,             \* plugins
    MaxRevision,     \* revisions a plugin is published at
    Lanes,           \* terminals a command can be typed in
    MaxPlugins,      \* MAX_PLUGINS
    MaxCommands,     \* bound: commands typed
    MaxFaults        \* bound: commands killed half-way

ASSUME PluginAssumption ==
    /\ Ids # {} /\ IsFiniteSet(Ids)
    /\ MaxRevision \in Nat \ {0} /\ MaxPlugins \in Nat \ {0}
    /\ MaxCommands \in Nat /\ MaxFaults \in Nat

VARIABLES
    records,    \* plugins.json: id -> [rev, enabled], rev 0 for none
    content,    \* <data>/plugins/<id>: its revision, 0 for no directory
    aside,      \* .old- directories nobody will remove: [id, rev]
    staging,    \* lanes whose clone is still in the staging directory
    pc,         \* lane -> where its command is
    job,        \* lane -> [op, id, rev]
    seen,       \* lane -> the records it has read
    old,        \* lane -> the revision it moved aside, 0 for none
    verdict,    \* lane -> the answer to its review
    dialogs,    \* lanes whose review is on the screen
    reviewed,   \* [id, rev] a human has accepted
    listing,    \* id -> revision whose profiles and concepts the window lists
    up,         \* a window is running
    refreshDue, \* _refresh_plugin_content_deferred is waiting
    unheard,    \* a command changed the store and its notice was lost
    typed, faults,
    overlapped   \* history: a command was typed while another ran

pluginVars == <<records, content, aside, staging, pc, job, seen, old, verdict, dialogs,
                reviewed, listing, up, refreshDue, unheard, typed, faults, overlapped>>

onDisk == <<records, content, aside>>
window == <<dialogs, reviewed, listing, up, refreshDue>>
bounds == <<typed, faults, overlapped>>

Revisions == 1..MaxRevision
NoRecord == [rev |-> 0, enabled |-> FALSE]
Admin == {"enable", "disable", "uninstall"}
Jobs == [op : {"none", "install"} \cup Admin, id : Ids, rev : 0..MaxRevision]

(* A store as earlier sessions left it: some plugins installed, each reviewed. *)
PluginInit ==
    /\ \E installed \in SUBSET Ids :
         /\ records = [id \in Ids |-> IF id \in installed
                                      THEN [rev |-> 1, enabled |-> TRUE] ELSE NoRecord]
         /\ content = [id \in Ids |-> IF id \in installed THEN 1 ELSE 0]
         /\ reviewed = {[id |-> id, rev |-> 1] : id \in installed}
         /\ listing = content
         /\ Cardinality(installed) <= MaxPlugins
    /\ aside = {} /\ staging = {}
    /\ pc = [l \in Lanes |-> "idle"] /\ job \in [Lanes -> {[op |-> "none", id |-> CHOOSE id \in Ids : TRUE, rev |-> 0]}]
    /\ seen = [l \in Lanes |-> [id \in Ids |-> NoRecord]] /\ old = [l \in Lanes |-> 0]
    /\ verdict = [l \in Lanes |-> "none"] /\ dialogs = {}
    /\ up = TRUE /\ refreshDue = FALSE /\ unheard = FALSE /\ typed = 0 /\ faults = 0 /\ overlapped = FALSE

(* A command ends: StagingGuard removes its clone on every way out. *)
Finish(l) ==
    /\ pc' = [pc EXCEPT ![l] = "idle"]
    /\ job' = [job EXCEPT ![l] = [op |-> "none", id |-> @.id, rev |-> 0]]
    /\ seen' = [seen EXCEPT ![l] = [id \in Ids |-> NoRecord]]
    /\ old' = [old EXCEPT ![l] = 0]
    /\ verdict' = [verdict EXCEPT ![l] = "none"]
    /\ staging' = staging \ {l}

Goto(l, where) ==
    /\ pc' = [pc EXCEPT ![l] = where]
    /\ UNCHANGED job

Keep == UNCHANGED <<seen, old, verdict, staging>>

(***************************************************************************)
(* The store file                                                          *)
(***************************************************************************)

(* records(): the whole file is read; one that does not parse, or that      *)
(* cannot be read, ends the command.                                        *)
ReadStore(l, next) ==
    \/ /\ seen' = [seen EXCEPT ![l] = records]
       /\ Goto(l, next) /\ UNCHANGED <<old, verdict, staging>>
    \/ Finish(l)

\* Flawed: an upgrade enables what the user disabled.
UpsertedEnabled(store, id, rev) == [store EXCEPT ![id] = [rev |-> rev, enabled |-> TRUE]]

(* upsert: an upgrade keeps the enabled flag. *)
Upserted(store, id, rev) ==
    [store EXCEPT ![id] = [rev |-> rev, enabled |-> IF @.rev = 0 THEN TRUE ELSE @.enabled]]

Full(store, id) ==
    store[id].rev = 0 /\ Cardinality({other \in Ids : store[other].rev # 0}) >= MaxPlugins

Removed(store, id) == [store EXCEPT ![id] = NoRecord]
Flagged(store, id, enabled) == [store EXCEPT ![id] = [rev |-> @.rev, enabled |-> enabled]]

(* write_records: what was read, changed, replaces the file at once. *)
WriteStore(l, store, next) ==
    \/ /\ records' = store /\ Goto(l, next) /\ Keep
    \/ /\ UNCHANGED records /\ Finish(l)

(***************************************************************************)
(* gpty plugin install                                                     *)
(***************************************************************************)

Typed(l) ==
    /\ pc[l] = "idle" /\ typed < MaxCommands /\ typed' = typed + 1
    /\ overlapped' = (overlapped \/ \E other \in Lanes : pc[other] # "idle")

(* parse_target, the clone, read_manifest and check_gates, each of which    *)
(* may refuse.                                                              *)
TypeInstall(l) ==
    /\ Typed(l)
    /\ \E id \in Ids, rev \in Revisions :
         job' = [job EXCEPT ![l] = [op |-> "install", id |-> id, rev |-> rev]]
    /\ pc' = [pc EXCEPT ![l] = "cloned"]
    /\ staging' = staging \cup {l}
    /\ UNCHANGED <<onDisk, window, seen, old, verdict, unheard, faults>>

GatesRefuse(l) ==
    /\ pc[l] = "cloned" /\ Finish(l)
    /\ UNCHANGED <<onDisk, window, unheard, bounds>>

(* The same revision is not installed again; another one asks for a review, *)
(* which needs a window.                                                    *)
AskReview(l) ==
    /\ pc[l] = "cloned"
    /\ \/ /\ records[job[l].id].rev = job[l].rev \/ ~up
          /\ Finish(l) /\ UNCHANGED dialogs
       \/ /\ records[job[l].id].rev # job[l].rev /\ up
          /\ Goto(l, "review") /\ Keep
          /\ dialogs' = dialogs \cup {l}
    /\ UNCHANGED <<onDisk, reviewed, listing, up, refreshDue, unheard, bounds>>

(* _show_plugin_review: the human answers, also when nobody waits any more. *)
AnswerReview(l) ==
    /\ l \in dialogs /\ dialogs' = dialogs \ {l}
    /\ \E answer \in {"accepted", "declined"} :
         /\ verdict' = [verdict EXCEPT ![l] = IF pc[l] = "review" THEN answer ELSE @]
         /\ refreshDue' = (refreshDue \/ answer = "accepted")
         /\ reviewed' = IF answer = "accepted"
                        THEN reviewed \cup {[id |-> job[l].id, rev |-> job[l].rev]} ELSE reviewed
    /\ UNCHANGED <<onDisk, staging, pc, job, seen, old, listing, up, unheard, bounds>>

(* review_install: only an acceptance installs; a timeout, a disconnect or  *)
(* a decline ends the command, and the dialog of a request that is gone     *)
(* closes itself (_expire_plugin_review).                                   *)
Installs(answer) == answer = "accepted"

ReviewEnds(l) ==
    /\ pc[l] = "review"
    /\ \/ /\ Installs(verdict[l])
          /\ Goto(l, "aside") /\ Keep /\ UNCHANGED dialogs
       \/ /\ verdict[l] # "accepted"
          /\ Finish(l) /\ dialogs' = dialogs \ {l}
    /\ UNCHANGED <<onDisk, reviewed, listing, up, refreshDue, unheard, bounds>>

(* move_staged_into: the content in place steps aside ... *)
MoveAside(l) ==
    /\ pc[l] = "aside"
    /\ LET id == job[l].id IN
       \/ /\ content' = [content EXCEPT ![id] = 0]
          /\ old' = [old EXCEPT ![l] = content[id]]
          /\ Goto(l, "into") /\ UNCHANGED <<seen, verdict, staging>>
       \/ /\ Finish(l) /\ UNCHANGED content
    /\ UNCHANGED <<records, aside, window, unheard, bounds>>

\* Flawed: a move that fails leaves the old content aside.
NotRolledBack(l) == 0

(* ... and comes back if the clone cannot take its place. *)
RolledBack(l) == old[l]

Abandoned(l) == IF old[l] # 0 THEN {[id |-> job[l].id, rev |-> old[l]]} ELSE {}

MoveInto(l) ==
    /\ pc[l] = "into"
    /\ LET id == job[l].id IN
       \/ /\ content[id] = 0
          /\ content' = [content EXCEPT ![id] = job[l].rev]
          /\ old' = [old EXCEPT ![l] = 0]
          /\ staging' = staging \ {l}
          /\ Goto(l, "upsert") /\ UNCHANGED <<seen, verdict, aside>>
       \/ /\ content[id] = 0
          /\ content' = [content EXCEPT ![id] = RolledBack(l)]
          /\ Finish(l) /\ UNCHANGED aside
       \/ /\ content[id] # 0                         \* another command was quicker
          /\ aside' = aside \cup Abandoned(l)
          /\ Finish(l) /\ UNCHANGED content
    /\ UNCHANGED <<records, window, unheard, bounds>>

(* The record is written last. *)
ReadForUpsert(l) ==
    /\ pc[l] = "upsert" /\ ReadStore(l, "record")
    /\ UNCHANGED <<onDisk, window, unheard, bounds>>

WriteUpsert(l) ==
    /\ pc[l] = "record"
    /\ \/ /\ ~Full(seen[l], job[l].id)
          /\ WriteStore(l, Upserted(seen[l], job[l].id, job[l].rev), "installed")
       \/ /\ Full(seen[l], job[l].id)
          /\ Finish(l) /\ UNCHANGED records
    /\ UNCHANGED <<content, aside, window, unheard, bounds>>

InstallEnds(l) ==
    /\ pc[l] = "installed" /\ Finish(l)
    /\ UNCHANGED <<onDisk, window, unheard, bounds>>

(***************************************************************************)
(* gpty plugin enable, disable, uninstall                                  *)
(***************************************************************************)

TypeAdmin(l) ==
    /\ Typed(l)
    /\ \E op \in Admin, id \in Ids :
         job' = [job EXCEPT ![l] = [op |-> op, id |-> id, rev |-> 0]]
    /\ pc' = [pc EXCEPT ![l] = "read"]
    /\ UNCHANGED <<onDisk, window, seen, old, verdict, staging, unheard, faults>>

ReadForAdmin(l) ==
    /\ pc[l] = "read" /\ ReadStore(l, "write")
    /\ UNCHANGED <<onDisk, window, unheard, bounds>>

(* "is not installed", or the change is written. *)
WriteAdmin(l) ==
    /\ pc[l] = "write"
    /\ LET id == job[l].id IN
       \/ /\ seen[l][id].rev = 0
          /\ Finish(l) /\ UNCHANGED records
       \/ /\ seen[l][id].rev # 0 /\ job[l].op = "uninstall"
          /\ WriteStore(l, Removed(seen[l], id), "remove")
       \/ /\ seen[l][id].rev # 0 /\ job[l].op # "uninstall"
          /\ WriteStore(l, Flagged(seen[l], id, job[l].op = "enable"), "notify")
    /\ UNCHANGED <<content, aside, window, unheard, bounds>>

(* uninstall: the record is gone already, the directory is best-effort. *)
RemoveContent(l) ==
    /\ pc[l] = "remove"
    /\ \E left \in {0, content[job[l].id]} : content' = [content EXCEPT ![job[l].id] = left]
    /\ Goto(l, "notify") /\ Keep
    /\ UNCHANGED <<records, aside, window, unheard, bounds>>

(* profiles_json, plugin_concepts_json: only what is enabled is listing. *)
Listed(store) == [id \in Ids |-> IF store[id].enabled THEN store[id].rev ELSE 0]

(* notify_store_changed: a window that runs re-reads the store and answers. *)
Notify(l) ==
    /\ pc[l] = "notify" /\ Finish(l)
    /\ listing' = IF up THEN Listed(records) ELSE listing
    /\ UNCHANGED <<onDisk, dialogs, reviewed, up, refreshDue, unheard, bounds>>

(***************************************************************************)
(* The window, and what kills a command                                    *)
(***************************************************************************)

(* Two seconds after an acceptance, however far the install has come. *)
Refresh ==
    /\ up /\ refreshDue /\ refreshDue' = FALSE
    /\ listing' = Listed(records) /\ unheard' = FALSE
    /\ UNCHANGED <<onDisk, staging, pc, job, seen, old, verdict, dialogs, reviewed, up, bounds>>

Quit ==
    /\ up /\ up' = FALSE /\ dialogs' = {} /\ refreshDue' = FALSE
    /\ listing' = [id \in Ids |-> 0]
    /\ UNCHANGED <<onDisk, staging, pc, job, seen, old, verdict, reviewed, unheard, bounds>>

Launch ==
    /\ ~up /\ up' = TRUE /\ listing' = Listed(records) /\ unheard' = FALSE
    /\ UNCHANGED <<onDisk, staging, pc, job, seen, old, verdict, dialogs, reviewed,
                   refreshDue, bounds>>

(* A command killed half-way leaves its clone, and what it moved aside. *)
Killed(l) ==
    /\ pc[l] # "idle" /\ faults < MaxFaults /\ faults' = faults + 1
    /\ pc' = [pc EXCEPT ![l] = "idle"]
    /\ job' = [job EXCEPT ![l] = [op |-> "none", id |-> @.id, rev |-> 0]]
    /\ seen' = [seen EXCEPT ![l] = [id \in Ids |-> NoRecord]]
    /\ old' = [old EXCEPT ![l] = 0] /\ verdict' = [verdict EXCEPT ![l] = "none"]
    /\ aside' = aside \cup Abandoned(l) /\ dialogs' = dialogs \ {l}
    /\ unheard' = (unheard \/ pc[l] \in {"notify", "remove"})
    /\ UNCHANGED <<records, content, staging, reviewed, listing, up, refreshDue, typed, overlapped>>

PluginNext ==
    \/ \E l \in Lanes :
         \/ TypeInstall(l) \/ GatesRefuse(l) \/ AskReview(l) \/ AnswerReview(l)
         \/ ReviewEnds(l) \/ MoveAside(l) \/ MoveInto(l) \/ ReadForUpsert(l)
         \/ WriteUpsert(l) \/ InstallEnds(l)
         \/ TypeAdmin(l) \/ ReadForAdmin(l) \/ WriteAdmin(l) \/ RemoveContent(l)
         \/ Notify(l) \/ Killed(l)
    \/ Refresh \/ Quit \/ Launch

PluginSpec == PluginInit /\ [][PluginNext]_pluginVars

(***************************************************************************)
(* What the commands promise                                               *)
(***************************************************************************)

\* Type correctness of the store, the directories, the commands and the window.
PluginTypeOK ==
    /\ records \in [Ids -> [rev : 0..MaxRevision, enabled : BOOLEAN]]
    /\ content \in [Ids -> 0..MaxRevision] /\ listing \in [Ids -> 0..MaxRevision]
    /\ aside \subseteq [id : Ids, rev : Revisions] /\ reviewed \subseteq [id : Ids, rev : Revisions]
    /\ staging \subseteq Lanes /\ dialogs \subseteq Lanes
    /\ job \in [Lanes -> Jobs] /\ old \in [Lanes -> 0..MaxRevision]
    /\ seen \in [Lanes -> [Ids -> [rev : 0..MaxRevision, enabled : BOOLEAN]]]
    /\ verdict \in [Lanes -> {"none", "accepted", "declined"}]
    /\ pc \in [Lanes -> {"idle", "cloned", "review", "aside", "into", "upsert", "record",
                         "installed", "read", "write", "remove", "notify"}]
    /\ <<up, refreshDue, unheard>> \in BOOLEAN \X BOOLEAN \X BOOLEAN
    /\ Cardinality({id \in Ids : records[id].rev # 0}) <= MaxPlugins

\* Nothing is installed, listed or recorded at a revision no human accepted,
\* however commands overlap, fail or are killed: a review fails closed.
InstalledWasReviewed ==
    \A id \in Ids :
        /\ content[id] # 0 => [id |-> id, rev |-> content[id]] \in reviewed
        /\ records[id].rev # 0 => [id |-> id, rev |-> records[id].rev] \in reviewed
        /\ listing[id] # 0 => [id |-> id, rev |-> listing[id]] \in reviewed

MovedAside(id) ==
    \/ \E l \in Lanes : old[l] # 0 /\ job[l].id = id
    \/ \E left \in aside : left.id = id

\* Commands typed one after another leave records, content and window in step: a
\* plugin is listed in the store only while its content is on disk, in place or
\* moved aside by an upgrade under way or killed, and once a command has been
\* answered the window offers nothing of a plugin that is disabled or gone.
RecordsHaveContent ==
    ~overlapped =>
        /\ \A id \in Ids : records[id].rev # 0 => content[id] # 0 \/ MovedAside(id)
        /\ ~unheard /\ (\A l \in Lanes : pc[l] = "idle") =>
              \A id \in Ids : listing[id] # 0 => records[id].enabled

\* The record file tells the truth: a plugin in force is of a revision the
\* user accepted, and its content is there.
RecordsAreTrue == InstalledWasReviewed /\ RecordsHaveContent

\* A plugin the user disabled stays so until somebody enables it, across every
\* upgrade, when commands are typed one after another.
DisabledStaysDisabled ==
    [][~overlapped =>
         \A id \in Ids :
            records[id].rev # 0 /\ ~records[id].enabled /\ records'[id].enabled =>
                \E l \in Lanes : job[l].op = "enable" /\ job[l].id = id]_pluginVars
=============================================================================
