---------------------------- MODULE StoresProofs ----------------------------
(***************************************************************************)
(* What gpty keeps on disk: the plugin store, for any plugins, terminals   *)
(* and revisions and any number of commands typed or killed; the manifest  *)
(* a plugin ships, for any lists and edits; the index of a vault, for any  *)
(* notes, texts and passes, the gate before its verbs, and the editor with *)
(* its recovery copies.                                                    *)
(***************************************************************************)
EXTENDS MCStores, FoldProofs, FiniteSetTheorems, TLAPS

(***************************************************************************)
(* Installed plugins                                                       *)
(***************************************************************************)

(* Types, without the cap on the number of records.                         *)
Places == {"idle", "cloned", "review", "aside", "into", "upsert", "record",
           "installed", "read", "write", "remove", "notify"}
Stores == [Ids -> [rev : 0..MaxRevision, enabled : BOOLEAN]]
DiskTyped == records \in Stores /\ content \in [Ids -> 0..MaxRevision]
LanesTyped ==
    /\ job \in [Lanes -> Jobs] /\ old \in [Lanes -> 0..MaxRevision] /\ seen \in [Lanes -> Stores]
    /\ verdict \in [Lanes -> {"none", "accepted", "declined"}] /\ pc \in [Lanes -> Places]
WindowTyped == listing \in [Ids -> 0..MaxRevision] /\ dialogs \subseteq Lanes
PlugTyped == DiskTyped /\ LanesTyped /\ WindowTyped

\* The store starts well typed.
LEMMA PlugTypedInit == PluginInit => PlugTyped
  <1> SUFFICES ASSUME PluginInit PROVE PlugTyped
    OBVIOUS
  <1>1. DiskTyped
    BY PluginAssumption DEF PluginInit, DiskTyped, Stores, NoRecord
  <1>2. LanesTyped
    BY PluginAssumption DEF PluginInit, LanesTyped, Stores, NoRecord, Jobs, Places
  <1>3. WindowTyped
    BY PluginAssumption DEF PluginInit, WindowTyped
  <1>4. QED
    BY <1>1, <1>2, <1>3 DEF PlugTyped

\* A store that is changed by a command is a store.
LEMMA ChangedStores ==
  ASSUME NEW recs \in Stores, NEW id \in Ids, NEW rev \in 0..MaxRevision, NEW flag \in BOOLEAN
  PROVE  /\ Upserted(recs, id, rev) \in Stores
         /\ Removed(recs, id) \in Stores
         /\ Flagged(recs, id, flag) \in Stores
         /\ Listed(recs) \in [Ids -> 0..MaxRevision]
  <1>1. Upserted(recs, id, rev) \in Stores
    BY DEF Stores, Upserted
  <1>2. Removed(recs, id) \in Stores
    BY PluginAssumption DEF Stores, Removed, NoRecord
  <1>3. Flagged(recs, id, flag) \in Stores
    BY DEF Stores, Flagged
  <1>4. Listed(recs) \in [Ids -> 0..MaxRevision]
    BY PluginAssumption DEF Stores, Listed
  <1>5. QED
    BY <1>1, <1>2, <1>3, <1>4

\* A command that ends forgets what it held.
LEMMA FinishTyped ==
  ASSUME LanesTyped, NEW l \in Lanes, Finish(l)
  PROVE  LanesTyped'
  BY PluginAssumption DEF LanesTyped, Finish, Stores, Jobs, Places, NoRecord

\* A command that goes on keeps what it held.
LEMMA GotoTyped ==
  ASSUME LanesTyped, NEW l \in Lanes, NEW where \in Places, Goto(l, where), Keep
  PROVE  LanesTyped'
  BY DEF LanesTyped, Goto, Keep

\* The commands that are typed, and those a human or a fault ends.
LEMMA PlugTypedTyped ==
  ASSUME PlugTyped, NEW l \in Lanes,
         TypeInstall(l) \/ TypeAdmin(l) \/ AnswerReview(l) \/ Killed(l)
  PROVE  PlugTyped'
  <1> USE DEF PlugTyped, DiskTyped, LanesTyped, WindowTyped
  <1>1. CASE TypeInstall(l)
    <2>1. PICK id \in Ids, rev \in Revisions :
            job' = [job EXCEPT ![l] = [op |-> "install", id |-> id, rev |-> rev]]
      BY <1>1 DEF TypeInstall
    <2>2. [op |-> "install", id |-> id, rev |-> rev] \in Jobs
      BY PluginAssumption DEF Jobs, Revisions
    <2>3. QED
      BY <1>1, <2>1, <2>2 DEF TypeInstall, onDisk, window, Places
  <1>2. CASE TypeAdmin(l)
    <2>1. PICK op \in Admin, id \in Ids :
            job' = [job EXCEPT ![l] = [op |-> op, id |-> id, rev |-> 0]]
      BY <1>2 DEF TypeAdmin
    <2>2. [op |-> op, id |-> id, rev |-> 0] \in Jobs
      BY PluginAssumption DEF Jobs
    <2>3. QED
      BY <1>2, <2>1, <2>2 DEF TypeAdmin, onDisk, window, Places
  <1>3. CASE AnswerReview(l)
    BY <1>3 DEF AnswerReview, onDisk
  <1>4. CASE Killed(l)
    <2>1. LanesTyped'
      BY <1>4, PluginAssumption DEF Killed, Stores, Jobs, Places, NoRecord
    <2>2. QED
      BY <1>4, <2>1 DEF Killed
  <1>5. QED
    BY <1>1, <1>2, <1>3, <1>4

\* The steps of an install.
LEMMA PlugTypedInstall ==
  ASSUME PlugTyped, NEW l \in Lanes,
         \/ GatesRefuse(l) \/ AskReview(l) \/ ReviewEnds(l) \/ MoveAside(l) \/ MoveInto(l)
         \/ ReadForUpsert(l) \/ WriteUpsert(l) \/ InstallEnds(l)
  PROVE  PlugTyped'
  <1>0. /\ job[l].id \in Ids /\ job[l].rev \in 0..MaxRevision
        /\ old[l] \in 0..MaxRevision /\ seen[l] \in Stores /\ DiskTyped /\ LanesTyped /\ WindowTyped
    BY DEF PlugTyped, LanesTyped, Jobs
  <1>1. CASE GatesRefuse(l) \/ InstallEnds(l)
    BY <1>0, <1>1, FinishTyped
    DEF GatesRefuse, InstallEnds, PlugTyped, DiskTyped, WindowTyped, onDisk, window
  <1>2. CASE AskReview(l)
    <2>1. LanesTyped'
      BY <1>0, <1>2, FinishTyped, GotoTyped DEF AskReview, Places
    <2>2. QED
      BY <1>0, <1>2, <2>1 DEF AskReview, PlugTyped, DiskTyped, WindowTyped, onDisk
  <1>3. CASE ReviewEnds(l)
    <2>1. LanesTyped'
      BY <1>0, <1>3, FinishTyped, GotoTyped DEF ReviewEnds, Places
    <2>2. QED
      BY <1>0, <1>3, <2>1 DEF ReviewEnds, PlugTyped, DiskTyped, WindowTyped, onDisk
  <1>4. CASE MoveAside(l)
    <2>1. CASE Finish(l) /\ UNCHANGED content
      BY <1>0, <1>4, <2>1, FinishTyped DEF MoveAside, PlugTyped, DiskTyped, WindowTyped, window
    <2>2. CASE ~(Finish(l) /\ UNCHANGED content)
      BY <1>0, <1>4, <2>2, PluginAssumption
      DEF MoveAside, Goto, PlugTyped, DiskTyped, LanesTyped, WindowTyped, window, Places
    <2>3. QED
      BY <2>1, <2>2
  <1>5. CASE MoveInto(l)
    <2>1. CASE Finish(l)
      <3>1. content' \in [Ids -> 0..MaxRevision]
        BY <1>0, <1>5, <2>1 DEF MoveInto, DiskTyped, RolledBack, Finish, Goto
      <3>2. QED
        BY <1>0, <1>5, <2>1, <3>1, FinishTyped
        DEF MoveInto, PlugTyped, DiskTyped, WindowTyped, window
    <2>2. CASE ~Finish(l)
      BY <1>0, <1>5, <2>2, PluginAssumption
      DEF MoveInto, Goto, PlugTyped, DiskTyped, LanesTyped, WindowTyped, window, Places
    <2>3. QED
      BY <2>1, <2>2
  <1>6. CASE ReadForUpsert(l)
    <2>1. CASE Finish(l)
      BY <1>0, <1>6, <2>1, FinishTyped
      DEF ReadForUpsert, PlugTyped, DiskTyped, WindowTyped, onDisk, window
    <2>2. CASE ~Finish(l)
      BY <1>0, <1>6, <2>2
      DEF ReadForUpsert, ReadStore, Goto, PlugTyped, DiskTyped, LanesTyped, WindowTyped,
          onDisk, window, Places
    <2>3. QED
      BY <2>1, <2>2
  <1>7. CASE WriteUpsert(l)
    <2>1. LanesTyped'
      BY <1>0, <1>7, FinishTyped, GotoTyped DEF WriteUpsert, WriteStore, Places
    <2>2. records' \in Stores
      BY <1>0, <1>7, ChangedStores DEF WriteUpsert, WriteStore, DiskTyped
    <2>3. QED
      BY <1>0, <1>7, <2>1, <2>2 DEF WriteUpsert, PlugTyped, DiskTyped, WindowTyped, window
  <1>8. QED
    BY <1>1, <1>2, <1>3, <1>4, <1>5, <1>6, <1>7

\* The steps of the other commands.
LEMMA PlugTypedAdmin ==
  ASSUME PlugTyped, NEW l \in Lanes,
         ReadForAdmin(l) \/ WriteAdmin(l) \/ RemoveContent(l) \/ Notify(l)
  PROVE  PlugTyped'
  <1>0. /\ job[l].id \in Ids /\ seen[l] \in Stores /\ DiskTyped /\ LanesTyped /\ WindowTyped
    BY DEF PlugTyped, LanesTyped, Jobs
  <1>1. CASE ReadForAdmin(l)
    <2>1. CASE Finish(l)
      BY <1>0, <1>1, <2>1, FinishTyped
      DEF ReadForAdmin, PlugTyped, DiskTyped, WindowTyped, onDisk, window
    <2>2. CASE ~Finish(l)
      BY <1>0, <1>1, <2>2
      DEF ReadForAdmin, ReadStore, Goto, PlugTyped, DiskTyped, LanesTyped, WindowTyped,
          onDisk, window, Places
    <2>3. QED
      BY <2>1, <2>2
  <1>2. CASE WriteAdmin(l)
    <2>1. LanesTyped'
      BY <1>0, <1>2, FinishTyped, GotoTyped DEF WriteAdmin, WriteStore, Places
    <2>2. PICK id \in Ids : id = job[l].id
      BY <1>0
    <2>3. \/ UNCHANGED records \/ records' = Removed(seen[l], id)
          \/ records' = Flagged(seen[l], id, job[l].op = "enable")
      BY <1>2, <2>2 DEF WriteAdmin, WriteStore
    <2>4. (job[l].op = "enable") \in BOOLEAN
      OBVIOUS
    <2>5. records' \in Stores
      BY <1>0, <2>2, <2>3, <2>4, PluginAssumption, ChangedStores DEF DiskTyped
    <2>6. QED
      BY <1>0, <1>2, <2>1, <2>5 DEF WriteAdmin, PlugTyped, DiskTyped, WindowTyped, window
  <1>3. CASE RemoveContent(l)
    <2>1. LanesTyped'
      BY <1>0, <1>3, GotoTyped DEF RemoveContent, Places
    <2>2. content' \in [Ids -> 0..MaxRevision]
      BY <1>0, <1>3, PluginAssumption DEF RemoveContent, DiskTyped
    <2>3. QED
      BY <1>0, <1>3, <2>1, <2>2 DEF RemoveContent, PlugTyped, DiskTyped, WindowTyped, window
  <1>4. CASE Notify(l)
    <2>1. Listed(records) \in [Ids -> 0..MaxRevision]
      BY <1>0, PluginAssumption DEF DiskTyped, Listed, Stores
    <2>2. QED
      BY <1>0, <1>4, <2>1, FinishTyped DEF Notify, PlugTyped, DiskTyped, WindowTyped, onDisk
  <1>5. QED
    BY <1>1, <1>2, <1>3, <1>4

\* The window.
LEMMA PlugTypedWindow ==
  ASSUME PlugTyped, Refresh \/ Quit \/ Launch \/ UNCHANGED pluginVars
  PROVE  PlugTyped'
  <1>1. Listed(records) \in [Ids -> 0..MaxRevision]
    BY PluginAssumption DEF PlugTyped, DiskTyped, Listed, Stores
  <1>2. listing' \in [Ids -> 0..MaxRevision] /\ dialogs' \subseteq Lanes
    BY <1>1, PluginAssumption DEF PlugTyped, WindowTyped, Refresh, Quit, Launch, pluginVars
  <1>3. UNCHANGED <<records, content, job, old, seen, verdict, pc>>
    BY DEF Refresh, Quit, Launch, pluginVars, onDisk
  <1>4. QED
    BY <1>2, <1>3 DEF PlugTyped, DiskTyped, LanesTyped, WindowTyped

\* One case per action.
LEMMA PlugTypedNext == PlugTyped /\ [PluginNext]_pluginVars => PlugTyped'
  BY PlugTypedTyped, PlugTypedInstall, PlugTypedAdmin, PlugTypedWindow DEF PluginNext

(* A review fails closed: every revision the store knows, a command holds   *)
(* or a command is about to write is one a human accepted.                   *)
Accepted(id, rev) == rev # 0 => [id |-> id, rev |-> rev] \in reviewed
Installing == {"aside", "into", "upsert", "record"}
KnownAccepted ==
    \A id \in Ids :
        Accepted(id, content[id]) /\ Accepted(id, records[id].rev) /\ Accepted(id, listing[id])
LaneAccepted(l) ==
    /\ pc[l] = "idle" => old[l] = 0 /\ verdict[l] = "none"
    /\ Accepted(job[l].id, old[l])
    /\ verdict[l] = "accepted" \/ pc[l] \in Installing => Accepted(job[l].id, job[l].rev)
    /\ \A id \in Ids : Accepted(id, seen[l][id].rev)
ReviewInv == PlugTyped /\ KnownAccepted /\ \A l \in Lanes : LaneAccepted(l)

\* What earlier sessions left was reviewed.
LEMMA ReviewInit == PluginInit => ReviewInv
  <1> SUFFICES ASSUME PluginInit PROVE ReviewInv
    OBVIOUS
  <1>1. PlugTyped
    BY PlugTypedInit
  <1>2. KnownAccepted
    <2>1. PICK installed \in SUBSET Ids :
            /\ records = [id \in Ids |-> IF id \in installed
                                         THEN [rev |-> 1, enabled |-> TRUE] ELSE NoRecord]
            /\ content = [id \in Ids |-> IF id \in installed THEN 1 ELSE 0]
            /\ reviewed = {[id |-> id, rev |-> 1] : id \in installed}
            /\ listing = content
      BY DEF PluginInit
    <2>2. QED
      BY <2>1 DEF KnownAccepted, Accepted, NoRecord
  <1>3. \A l \in Lanes : LaneAccepted(l)
    BY DEF PluginInit, LaneAccepted, Accepted, Installing, NoRecord
  <1>4. QED
    BY <1>1, <1>2, <1>3 DEF ReviewInv

\* A lane that does not move keeps what was accepted.
LEMMA OthersAccepted ==
  ASSUME NEW l \in Lanes, LaneAccepted(l), reviewed \subseteq reviewed',
         /\ pc'[l] = pc[l] /\ old'[l] = old[l] /\ verdict'[l] = verdict[l]
         /\ job'[l] = job[l] /\ seen'[l] = seen[l]
  PROVE  LaneAccepted(l)'
  BY DEF LaneAccepted, Accepted

\* A command that ends holds nothing.
LEMMA FinishAccepted ==
  ASSUME ReviewInv, reviewed \subseteq reviewed', NEW l \in Lanes, Finish(l)
  PROVE  \A m \in Lanes : LaneAccepted(m)'
  <1> SUFFICES ASSUME NEW m \in Lanes PROVE LaneAccepted(m)'
    OBVIOUS
  <1>1. LaneAccepted(m) /\ LanesTyped
    BY DEF ReviewInv, PlugTyped
  <1>2. CASE m = l
    BY <1>1, <1>2 DEF LanesTyped, Finish, LaneAccepted, Accepted, NoRecord, Installing
  <1>3. CASE m # l
    BY <1>1, <1>3, OthersAccepted DEF LanesTyped, Finish
  <1>4. QED
    BY <1>2, <1>3

\* A step of one lane is told by what that lane holds after it.
LEMMA OneLaneAccepted ==
  ASSUME ReviewInv, reviewed \subseteq reviewed', NEW l \in Lanes, LaneAccepted(l)',
         \A m \in Lanes \ {l} :
            /\ pc'[m] = pc[m] /\ old'[m] = old[m] /\ verdict'[m] = verdict[m]
            /\ job'[m] = job[m] /\ seen'[m] = seen[m]
  PROVE  \A m \in Lanes : LaneAccepted(m)'
  <1> SUFFICES ASSUME NEW m \in Lanes \ {l} PROVE LaneAccepted(m)'
    OBVIOUS
  <1>1. LaneAccepted(m)
    BY DEF ReviewInv
  <1>2. QED
    BY <1>1, OthersAccepted

\* A command that only goes on holds what it held.
LEMMA GotoAccepted ==
  ASSUME ReviewInv, reviewed \subseteq reviewed', NEW l \in Lanes, NEW where \in Places,
         Goto(l, where), Keep, where # "idle",
         where \in Installing => Accepted(job[l].id, job[l].rev)
  PROVE  \A m \in Lanes : LaneAccepted(m)'
  <1>1. LaneAccepted(l) /\ LanesTyped
    BY DEF ReviewInv, PlugTyped
  <1>2. LaneAccepted(l)'
    BY <1>1 DEF LanesTyped, Goto, Keep, LaneAccepted, Accepted
  <1>3. QED
    BY <1>1, <1>2, OneLaneAccepted DEF LanesTyped, Goto, Keep

\* What is accepted stays accepted.
LEMMA KnownStays ==
  ASSUME KnownAccepted, reviewed \subseteq reviewed', UNCHANGED <<content, records, listing>>
  PROVE  KnownAccepted'
  BY DEF KnownAccepted, Accepted

\* The commands that are typed, and those a human or a fault ends: the answer
\* to a review is the only way a revision becomes accepted.
LEMMA AcceptedTyped ==
  ASSUME ReviewInv, NEW l \in Lanes,
         TypeInstall(l) \/ TypeAdmin(l) \/ AnswerReview(l) \/ Killed(l)
  PROVE  KnownAccepted' /\ \A m \in Lanes : LaneAccepted(m)'
  <1>0. LaneAccepted(l) /\ LanesTyped /\ KnownAccepted
    BY DEF ReviewInv, PlugTyped
  <1>1. CASE TypeInstall(l)
    <2>1. LaneAccepted(l)'
      BY <1>0, <1>1 DEF TypeInstall, Typed, window, LanesTyped, LaneAccepted, Accepted, Installing
    <2>2. QED
      BY <1>0, <1>1, <2>1, OneLaneAccepted, KnownStays
      DEF TypeInstall, Typed, window, onDisk, LanesTyped
  <1>2. CASE TypeAdmin(l)
    <2>1. LaneAccepted(l)'
      BY <1>0, <1>2 DEF TypeAdmin, Typed, window, LanesTyped, LaneAccepted, Accepted, Installing
    <2>2. QED
      BY <1>0, <1>2, <2>1, OneLaneAccepted, KnownStays
      DEF TypeAdmin, Typed, window, onDisk, LanesTyped
  <1>3. CASE AnswerReview(l)
    <2>1. PICK answer \in {"accepted", "declined"} :
            /\ verdict' = [verdict EXCEPT ![l] = IF pc[l] = "review" THEN answer ELSE @]
            /\ reviewed' = IF answer = "accepted"
                        THEN reviewed \cup {[id |-> job[l].id, rev |-> job[l].rev]} ELSE reviewed
      BY <1>3 DEF AnswerReview
    <2>2. LaneAccepted(l)'
      BY <1>0, <1>3, <2>1 DEF AnswerReview, LanesTyped, LaneAccepted, Accepted, Installing
    <2>3. QED
      BY <1>0, <1>3, <2>1, <2>2, OneLaneAccepted, KnownStays DEF AnswerReview, onDisk, LanesTyped
  <1>4. CASE Killed(l)
    <2>1. LaneAccepted(l)'
      BY <1>0, <1>4 DEF Killed, LanesTyped, LaneAccepted, Accepted, Installing, NoRecord
    <2>2. QED
      BY <1>0, <1>4, <2>1, OneLaneAccepted, KnownStays DEF Killed, LanesTyped
  <1>5. QED
    BY <1>1, <1>2, <1>3, <1>4

\* The steps of an install: nothing is moved or written before the review is
\* accepted, and what comes back from aside was there before.
LEMMA AcceptedInstall ==
  ASSUME ReviewInv, NEW l \in Lanes,
         \/ GatesRefuse(l) \/ AskReview(l) \/ ReviewEnds(l) \/ MoveAside(l) \/ MoveInto(l)
         \/ ReadForUpsert(l) \/ WriteUpsert(l) \/ InstallEnds(l)
  PROVE  KnownAccepted' /\ \A m \in Lanes : LaneAccepted(m)'
  <1>0. /\ LaneAccepted(l) /\ LanesTyped /\ KnownAccepted /\ DiskTyped /\ job[l].id \in Ids
        /\ reviewed' = reviewed
    BY DEF ReviewInv, PlugTyped, LanesTyped, Jobs, GatesRefuse, AskReview, ReviewEnds, MoveAside,
           MoveInto, ReadForUpsert, WriteUpsert, InstallEnds, window
  <1>1. CASE GatesRefuse(l) \/ InstallEnds(l)
    BY <1>0, <1>1, FinishAccepted, KnownStays DEF GatesRefuse, InstallEnds, onDisk, window
  <1>2. CASE AskReview(l)
    <2>1. \A m \in Lanes : LaneAccepted(m)'
      BY <1>0, <1>2, FinishAccepted, GotoAccepted DEF AskReview, Places, Installing
    <2>2. QED
      BY <1>0, <1>2, <2>1, KnownStays DEF AskReview, onDisk
  <1>3. CASE ReviewEnds(l)
    <2>1. Installs(verdict[l]) => Accepted(job[l].id, job[l].rev)
      BY <1>0 DEF Installs, LaneAccepted
    <2>2. \A m \in Lanes : LaneAccepted(m)'
      BY <1>0, <1>3, <2>1, FinishAccepted, GotoAccepted DEF ReviewEnds, Places
    <2>3. QED
      BY <1>0, <1>3, <2>2, KnownStays DEF ReviewEnds, onDisk
  <1>4. CASE MoveAside(l)
    <2>1. CASE Finish(l) /\ UNCHANGED content
      BY <1>0, <1>4, <2>1, FinishAccepted, KnownStays DEF MoveAside, window
    <2>2. CASE ~(Finish(l) /\ UNCHANGED content)
      <3>1. LaneAccepted(l)'
        BY <1>0, <1>4, <2>2
        DEF MoveAside, Goto, KnownAccepted, LanesTyped, LaneAccepted, Accepted, Installing
      <3>2. KnownAccepted'
        BY <1>0, <1>4, <2>2 DEF MoveAside, KnownAccepted, Accepted, DiskTyped, window
      <3>3. QED
        BY <1>0, <1>4, <2>2, <3>1, <3>2, OneLaneAccepted DEF MoveAside, Goto, LanesTyped
    <2>3. QED
      BY <2>1, <2>2
  <1>5. CASE MoveInto(l)
    <2>1. KnownAccepted'
      BY <1>0, <1>5
      DEF MoveInto, KnownAccepted, Accepted, DiskTyped, window, LaneAccepted, Installing,
          RolledBack, Finish
    <2>2. CASE Finish(l)
      BY <1>0, <2>1, <2>2, FinishAccepted
    <2>3. CASE ~Finish(l)
      <3>1. LaneAccepted(l)'
        BY <1>0, <1>5, <2>3
        DEF MoveInto, Goto, LanesTyped, LaneAccepted, Accepted, Installing
      <3>2. QED
        BY <1>0, <1>5, <2>1, <2>3, <3>1, OneLaneAccepted DEF MoveInto, Goto, LanesTyped
    <2>4. QED
      BY <2>2, <2>3
  <1>6. CASE ReadForUpsert(l)
    <2>1. KnownAccepted'
      BY <1>0, <1>6, KnownStays DEF ReadForUpsert, onDisk, window
    <2>2. CASE Finish(l)
      BY <1>0, <2>1, <2>2, FinishAccepted
    <2>3. CASE ~Finish(l)
      <3>1. LaneAccepted(l)'
        BY <1>0, <1>6, <2>3
        DEF ReadForUpsert, ReadStore, Goto, KnownAccepted, LanesTyped, LaneAccepted, Accepted,
            Installing
      <3>2. QED
        BY <1>0, <1>6, <2>1, <2>3, <3>1, OneLaneAccepted
        DEF ReadForUpsert, ReadStore, Goto, LanesTyped
    <2>4. QED
      BY <2>2, <2>3
  <1>7. CASE WriteUpsert(l)
    <2>1. \A m \in Lanes : LaneAccepted(m)'
      BY <1>0, <1>7, FinishAccepted, GotoAccepted DEF WriteUpsert, WriteStore, Places, Installing
    <2>2. \A id \in Ids : Accepted(id, Upserted(seen[l], job[l].id, job[l].rev)[id].rev)
      BY <1>0, <1>7
      DEF WriteUpsert, Upserted, LaneAccepted, Accepted, Installing, LanesTyped, Stores
    <2>3. KnownAccepted'
      BY <1>0, <1>7, <2>2 DEF WriteUpsert, WriteStore, KnownAccepted, Accepted, window
    <2>4. QED
      BY <2>1, <2>3
  <1>8. QED
    BY <1>1, <1>2, <1>3, <1>4, <1>5, <1>6, <1>7

\* The other commands write only what they have read, and remove.
LEMMA AcceptedAdmin ==
  ASSUME ReviewInv, NEW l \in Lanes,
         ReadForAdmin(l) \/ WriteAdmin(l) \/ RemoveContent(l) \/ Notify(l)
  PROVE  KnownAccepted' /\ \A m \in Lanes : LaneAccepted(m)'
  <1>0. /\ LaneAccepted(l) /\ LanesTyped /\ KnownAccepted /\ DiskTyped /\ job[l].id \in Ids
        /\ reviewed' = reviewed
    BY DEF ReviewInv, PlugTyped, LanesTyped, Jobs, ReadForAdmin, WriteAdmin, RemoveContent,
           Notify, window
  <1>1. CASE ReadForAdmin(l)
    <2>1. KnownAccepted'
      BY <1>0, <1>1, KnownStays DEF ReadForAdmin, onDisk, window
    <2>2. CASE Finish(l)
      BY <1>0, <2>1, <2>2, FinishAccepted
    <2>3. CASE ~Finish(l)
      <3>1. LaneAccepted(l)'
        BY <1>0, <1>1, <2>3
        DEF ReadForAdmin, ReadStore, Goto, KnownAccepted, LanesTyped, LaneAccepted, Accepted,
            Installing
      <3>2. QED
        BY <1>0, <1>1, <2>1, <2>3, <3>1, OneLaneAccepted
        DEF ReadForAdmin, ReadStore, Goto, LanesTyped
    <2>4. QED
      BY <2>2, <2>3
  <1>2. CASE WriteAdmin(l)
    <2>1. \A m \in Lanes : LaneAccepted(m)'
      BY <1>0, <1>2, FinishAccepted, GotoAccepted DEF WriteAdmin, WriteStore, Places, Installing
    <2>2. \A id \in Ids : /\ Accepted(id, Removed(seen[l], job[l].id)[id].rev)
                          /\ \A flag : Accepted(id, Flagged(seen[l], job[l].id, flag)[id].rev)
      BY <1>0 DEF Removed, Flagged, LaneAccepted, Accepted, LanesTyped, Stores, NoRecord
    <2>3. KnownAccepted'
      <3>1. UNCHANGED <<content, listing>>
        BY <1>2 DEF WriteAdmin, window
      <3>2. CASE records' = records
        BY <1>0, <3>1, <3>2 DEF KnownAccepted, Accepted
      <3>3. CASE records' = Removed(seen[l], job[l].id)
        <4>1. \A id \in Ids : Accepted(id, records'[id].rev)
          BY <2>2, <3>3
        <4>2. QED
          BY <1>0, <3>1, <4>1 DEF KnownAccepted, Accepted
      <3>4. CASE \E flag : records' = Flagged(seen[l], job[l].id, flag)
        <4>1. \A id \in Ids : Accepted(id, records'[id].rev)
          BY <2>2, <3>4
        <4>2. QED
          BY <1>0, <3>1, <4>1 DEF KnownAccepted, Accepted
      <3>5. QED
        BY <1>2, <3>2, <3>3, <3>4, Zenon DEF WriteAdmin, WriteStore
    <2>4. QED
      BY <2>1, <2>3
  <1>3. CASE RemoveContent(l)
    <2>1. \A m \in Lanes : LaneAccepted(m)'
      BY <1>0, <1>3, GotoAccepted DEF RemoveContent, Places, Installing
    <2>2. KnownAccepted'
      BY <1>0, <1>3 DEF RemoveContent, KnownAccepted, Accepted, DiskTyped, window
    <2>3. QED
      BY <2>1, <2>2
  <1>4. CASE Notify(l)
    <2>1. \A m \in Lanes : LaneAccepted(m)'
      BY <1>0, <1>4, FinishAccepted DEF Notify
    <2>2. KnownAccepted'
      BY <1>0, <1>4 DEF Notify, Listed, KnownAccepted, Accepted, onDisk
    <2>3. QED
      BY <2>1, <2>2
  <1>5. QED
    BY <1>1, <1>2, <1>3, <1>4

\* The window lists what the records say, or nothing.
LEMMA AcceptedWindow ==
  ASSUME ReviewInv, Refresh \/ Quit \/ Launch \/ UNCHANGED pluginVars
  PROVE  KnownAccepted' /\ \A m \in Lanes : LaneAccepted(m)'
  <1>1. KnownAccepted'
    BY DEF ReviewInv, KnownAccepted, Accepted, Refresh, Quit, Launch, pluginVars, onDisk, Listed
  <1>2. UNCHANGED <<job, old, seen, verdict, pc, reviewed>>
    BY DEF Refresh, Quit, Launch, pluginVars
  <1>3. QED
    BY <1>1, <1>2 DEF ReviewInv, LaneAccepted, Accepted

\* One case per action.
LEMMA ReviewNext == ReviewInv /\ [PluginNext]_pluginVars => ReviewInv'
  <1> SUFFICES ASSUME ReviewInv, [PluginNext]_pluginVars PROVE ReviewInv'
    OBVIOUS
  <1>1. PlugTyped'
    BY PlugTypedNext DEF ReviewInv
  <1>2. KnownAccepted' /\ \A m \in Lanes : LaneAccepted(m)'
    BY AcceptedTyped, AcceptedInstall, AcceptedAdmin, AcceptedWindow DEF PluginNext
  <1>3. QED
    BY <1>1, <1>2 DEF ReviewInv

(* Commands typed one after another: at most one is under way, what it has  *)
(* read is what is there, and every half-done step can be told from where   *)
(* the command is.                                                           *)
OneAtATime == \A l, m \in Lanes : pc[l] # "idle" /\ pc[m] # "idle" => l = m
LaneInStep(l) ==
    /\ pc[l] # "into" => old[l] = 0
    /\ pc[l] \in {"record", "write"} => seen[l] = records
    /\ pc[l] \in {"cloned", "review", "aside", "into", "upsert", "record"} => job[l].rev # 0
    /\ pc[l] \in {"upsert", "record"} => content[job[l].id] # 0
    /\ pc[l] = "remove" => records[job[l].id].rev = 0
ContentKept == \A id \in Ids : records[id].rev # 0 => content[id] # 0 \/ MovedAside(id)
Answering == \E l \in Lanes : pc[l] \in {"remove", "notify"}
OnlyEnabledListed ==
    ~unheard => \A id \in Ids : listing[id] # 0 => records[id].enabled \/ Answering
NothingListedWhenDown == ~up => \A id \in Ids : listing[id] = 0
SerialInv ==
    /\ PlugTyped /\ NothingListedWhenDown
    /\ ~overlapped => /\ OneAtATime /\ \A l \in Lanes : LaneInStep(l)
                      /\ ContentKept /\ OnlyEnabledListed

\* No command is under way at the start.
LEMMA SerialInit == PluginInit => SerialInv
  <1> SUFFICES ASSUME PluginInit PROVE SerialInv
    OBVIOUS
  <1>1. PlugTyped
    BY PlugTypedInit
  <1>2. NothingListedWhenDown /\ OneAtATime /\ \A l \in Lanes : LaneInStep(l)
    BY DEF PluginInit, NothingListedWhenDown, OneAtATime, LaneInStep
  <1>3. ContentKept /\ OnlyEnabledListed
    <2>1. PICK installed \in SUBSET Ids :
            /\ records = [id \in Ids |-> IF id \in installed
                                         THEN [rev |-> 1, enabled |-> TRUE] ELSE NoRecord]
            /\ content = [id \in Ids |-> IF id \in installed THEN 1 ELSE 0]
            /\ listing = content
      BY DEF PluginInit
    <2>2. QED
      BY <2>1 DEF ContentKept, OnlyEnabledListed, NoRecord
  <1>4. QED
    BY <1>1, <1>2, <1>3 DEF SerialInv

\* A command under way is the only one.
LEMMA Alone ==
  ASSUME SerialInv, ~overlapped, NEW l \in Lanes, pc[l] # "idle"
  PROVE  \A m \in Lanes \ {l} : pc[m] = "idle" /\ old[m] = 0
  BY DEF SerialInv, OneAtATime, LaneInStep

\* With no upgrade half-way, what was moved aside is in a directory nobody
\* will remove.
LEMMA AsideIsLeft ==
  ASSUME SerialInv, ~overlapped, NEW l \in Lanes, pc[l] \notin {"idle", "into"}, NEW id \in Ids,
         MovedAside(id)
  PROVE  \E left \in aside : left.id = id
  BY Alone DEF SerialInv, LaneInStep, MovedAside

\* An idle lane has nothing to be in step with.
LEMMA IdleInStep ==
  ASSUME NEW l \in Lanes, pc'[l] = "idle", old'[l] = 0
  PROVE  LaneInStep(l)'
  BY DEF LaneInStep

\* A command that ends leaves its lane idle and the others as they were.
LEMMA FinishFrees ==
  ASSUME PlugTyped, NEW l \in Lanes, Finish(l)
  PROVE  /\ pc'[l] = "idle" /\ old'[l] = 0
         /\ \A m \in Lanes \ {l} : pc'[m] = pc[m] /\ old'[m] = old[m]
  BY DEF PlugTyped, LanesTyped, Finish

\* Once it is typed alone, a command's steps are in step.
LEMMA StepInStep ==
  ASSUME SerialInv, ~overlapped, NEW l \in Lanes, pc[l] # "idle",
         \A m \in Lanes \ {l} : pc'[m] = pc[m] /\ old'[m] = old[m],
         LaneInStep(l)'
  PROVE  OneAtATime' /\ \A m \in Lanes : LaneInStep(m)'
  <1>1. OneAtATime'
    BY Alone DEF OneAtATime
  <1>2. ASSUME NEW m \in Lanes \ {l} PROVE LaneInStep(m)'
    BY Alone, IdleInStep
  <1>3. QED
    BY <1>1, <1>2

\* A step that changes neither the disk nor what the window lists keeps them
\* in step.
LEMMA QuietStep ==
  ASSUME SerialInv, PlugTyped', NEW l \in Lanes, pc[l] \notin {"idle", "into", "remove", "notify"},
         UNCHANGED <<records, content, aside, listing, up, unheard, overlapped>>,
         \A m \in Lanes \ {l} : pc'[m] = pc[m] /\ old'[m] = old[m],
         ~overlapped => LaneInStep(l)'
  PROVE  SerialInv'
  <1>1. NothingListedWhenDown'
    BY DEF SerialInv, NothingListedWhenDown
  <1>2. CASE ~overlapped
    <2>1. OneAtATime' /\ \A m \in Lanes : LaneInStep(m)'
      BY <1>2, StepInStep
    <2>2. ContentKept'
      BY <1>2, AsideIsLeft DEF SerialInv, ContentKept, MovedAside
    <2>3. ~Answering
      BY <1>2, Alone DEF Answering
    <2>4. OnlyEnabledListed'
      BY <1>2, <2>3 DEF SerialInv, OnlyEnabledListed
    <2>5. QED
      BY <1>1, <2>1, <2>2, <2>4 DEF SerialInv
  <1>3. CASE overlapped
    BY <1>1, <1>3 DEF SerialInv
  <1>4. QED
    BY <1>2, <1>3

\* A command that ends, having written nothing, leaves everything in step.
LEMMA FinishInStep ==
  ASSUME SerialInv, PlugTyped', NEW l \in Lanes, pc[l] \notin {"idle", "into", "remove", "notify"},
         UNCHANGED <<records, content, aside, listing, up, unheard, overlapped>>, Finish(l)
  PROVE  SerialInv'
  <1>1. PlugTyped
    BY DEF SerialInv
  <1>2. LaneInStep(l)'
    BY <1>1, FinishFrees, IdleInStep
  <1>3. QED
    BY <1>1, <1>2, FinishFrees, QuietStep

\* A command that goes on has what its next place needs.
LEMMA GotoInStep ==
  ASSUME SerialInv, PlugTyped', NEW l \in Lanes, pc[l] \notin {"idle", "into", "remove", "notify"},
         UNCHANGED <<records, content, aside, listing, up, unheard, overlapped>>,
         NEW where \in Places, Goto(l, where), UNCHANGED old,
         \/ where \in {"review", "aside"} /\ job[l].rev # 0
         \/ /\ where \in {"record", "write"} /\ seen'[l] = records
            /\ where = "record" => pc[l] = "upsert"
  PROVE  SerialInv'
  <1>1. PlugTyped
    BY DEF SerialInv
  <1>2. ASSUME ~overlapped PROVE LaneInStep(l)'
    BY <1>1, <1>2 DEF SerialInv, LaneInStep, PlugTyped, LanesTyped, Goto
  <1>3. QED
    BY <1>1, <1>2, QuietStep DEF PlugTyped, LanesTyped, Goto

\* A command is typed: if it is alone, no other is half-way.
LEMMA TypedInStep ==
  ASSUME SerialInv, PlugTyped', NEW l \in Lanes, TypeInstall(l) \/ TypeAdmin(l)
  PROVE  SerialInv'
  <1>1. /\ pc[l] = "idle" /\ overlapped' = (overlapped \/ \E m \in Lanes : pc[m] # "idle")
        /\ UNCHANGED <<records, content, aside, listing, up, unheard, old>>
        /\ pc' = [pc EXCEPT ![l] = IF TypeInstall(l) THEN "cloned" ELSE "read"]
    BY DEF TypeInstall, TypeAdmin, Typed, onDisk, window
  <1>2. TypeInstall(l) => job'[l].rev # 0
    BY DEF TypeInstall, SerialInv, PlugTyped, LanesTyped, Revisions
  <1>3. NothingListedWhenDown'
    BY <1>1 DEF SerialInv, NothingListedWhenDown
  <1>4. CASE ~overlapped'
    <2>1. ~overlapped /\ \A m \in Lanes : pc[m] = "idle" /\ old[m] = 0
      BY <1>1, <1>4 DEF SerialInv, LaneInStep
    <2>2. pc' \in [Lanes -> Places] /\ pc \in [Lanes -> Places]
      BY DEF SerialInv, PlugTyped, LanesTyped
    <2>3. OneAtATime'
      BY <1>1, <2>1, <2>2 DEF OneAtATime
    <2>4. LaneInStep(l)'
      BY <1>1, <1>2, <2>1, <2>2 DEF LaneInStep, TypeAdmin
    <2>5. \A m \in Lanes \ {l} : LaneInStep(m)'
      BY <1>1, <2>1, <2>2 DEF LaneInStep
    <2>6. ContentKept'
      BY <1>1, <2>1 DEF SerialInv, ContentKept, MovedAside
    <2>7. OnlyEnabledListed'
      BY <1>1, <2>1 DEF SerialInv, OnlyEnabledListed, Answering
    <2>8. QED
      BY <1>3, <2>3, <2>4, <2>5, <2>6, <2>7 DEF SerialInv
  <1>5. QED
    BY <1>3, <1>4 DEF SerialInv

\* The steps of an install that write nothing.
LEMMA QuietInstall ==
  ASSUME SerialInv, PlugTyped', NEW l \in Lanes,
         GatesRefuse(l) \/ InstallEnds(l) \/ AskReview(l) \/ ReviewEnds(l) \/ ReadForUpsert(l)
  PROVE  SerialInv'
  <1>1. /\ pc[l] \notin {"idle", "into", "remove", "notify"}
        /\ UNCHANGED <<records, content, aside, listing, up, unheard, overlapped>>
    BY DEF GatesRefuse, InstallEnds, AskReview, ReviewEnds, ReadForUpsert, onDisk, window, bounds
  <1>2. CASE Finish(l)
    BY <1>1, <1>2, FinishInStep
  <1>3. CASE ~Finish(l) /\ ~overlapped
    <2>1. PlugTyped /\ LaneInStep(l)
      BY <1>3 DEF SerialInv
    <2>2. CASE AskReview(l)
      <3>1. Goto(l, "review") /\ UNCHANGED old /\ job[l].rev # 0
        BY <1>3, <2>1, <2>2 DEF AskReview, Keep, LaneInStep
      <3>2. QED
        BY <1>1, <3>1, GotoInStep DEF Places
    <2>3. CASE ReviewEnds(l)
      <3>1. Goto(l, "aside") /\ UNCHANGED old /\ job[l].rev # 0
        BY <1>3, <2>1, <2>3 DEF ReviewEnds, Keep, LaneInStep
      <3>2. QED
        BY <1>1, <3>1, GotoInStep DEF Places
    <2>4. CASE ReadForUpsert(l)
      <3>1. Goto(l, "record") /\ UNCHANGED old /\ pc[l] = "upsert" /\ seen'[l] = records
        BY <1>3, <2>1, <2>4 DEF ReadForUpsert, ReadStore, PlugTyped, LanesTyped
      <3>2. QED
        BY <1>1, <3>1, GotoInStep DEF Places
    <2>5. QED
      BY <1>3, <2>2, <2>3, <2>4 DEF GatesRefuse, InstallEnds
  <1>4. CASE overlapped
    BY <1>1, <1>4 DEF SerialInv, NothingListedWhenDown
  <1>5. QED
    BY <1>2, <1>3, <1>4

\* The move aside, the move into place and its three outcomes: a record's
\* content is in place, aside, or coming back.
LEMMA MovesInStep ==
  ASSUME SerialInv, PlugTyped', NEW l \in Lanes, MoveAside(l) \/ MoveInto(l)
  PROVE  SerialInv'
  <1>1. /\ pc[l] \in {"aside", "into"} /\ PlugTyped
        /\ UNCHANGED <<records, listing, up, unheard, overlapped>>
    BY DEF MoveAside, MoveInto, window, bounds, SerialInv
  <1>2. NothingListedWhenDown'
    BY <1>1 DEF SerialInv, NothingListedWhenDown
  <1>3. CASE ~overlapped
    <2> DEFINE id == job[l].id
    <2>1. /\ id \in Ids /\ LaneInStep(l) /\ ContentKept /\ ~Answering
          /\ \A m \in Lanes \ {l} : pc[m] = "idle" /\ old[m] = 0
      BY <1>1, <1>3, Alone DEF SerialInv, Answering, PlugTyped, LanesTyped, Jobs
    <2>2. OnlyEnabledListed'
      BY <1>1, <1>3, <2>1 DEF SerialInv, OnlyEnabledListed
    <2>3. /\ \A m \in Lanes \ {l} : pc'[m] = pc[m] /\ old'[m] = old[m]
          /\ \A m \in Lanes : job'[m].id = job[m].id
      BY <1>1 DEF MoveAside, MoveInto, Finish, Goto, PlugTyped, LanesTyped
    <2>4. /\ \A other \in Ids \ {id} : content'[other] = content[other]
          /\ aside \subseteq aside'
      BY <1>1 DEF MoveAside, MoveInto, PlugTyped, DiskTyped
    <2>5. LaneInStep(l)'
      BY <1>1, <2>1
      DEF MoveAside, MoveInto, Finish, Goto, PlugTyped, LanesTyped, DiskTyped, LaneInStep
    <2>6. OneAtATime' /\ \A m \in Lanes : LaneInStep(m)'
      BY <1>1, <1>3, <2>3, <2>5, StepInStep
    <2>7. ASSUME NEW other \in Ids, records'[other].rev # 0
          PROVE  content'[other] # 0 \/ MovedAside(other)'
      <3>1. content[other] # 0 \/ MovedAside(other)
        BY <1>1, <2>1, <2>7 DEF ContentKept
      <3>2. CASE other # id
        BY <2>1, <2>3, <2>4, <3>1, <3>2 DEF MovedAside
      <3>3. CASE other = id /\ MoveAside(l)
        <4>1. MovedAside(other) => MovedAside(other)'
          BY <1>3, <2>1, <2>4, <3>3, AsideIsLeft DEF MoveAside, MovedAside
        <4>2. content'[id] = content[id] \/ (old'[l] = content[id] /\ job'[l].id = id)
          BY <1>1, <2>3, <3>3 DEF MoveAside, PlugTyped, LanesTyped
        <4>3. QED
          BY <3>1, <3>3, <4>1, <4>2 DEF MovedAside
      <3>4. CASE other = id /\ MoveInto(l)
        <4>1. MovedAside(other) /\ old[l] = 0 => MovedAside(other)'
          BY <2>1, <2>4 DEF MovedAside
        <4>2. \/ content'[id] = job[l].rev /\ job[l].rev # 0
              \/ content[id] = 0 /\ content'[id] = old[l]
              \/ content[id] # 0 /\ content'[id] = content[id]
          BY <1>1, <2>1, <3>4 DEF MoveInto, RolledBack, PlugTyped, DiskTyped, LaneInStep
        <4>3. QED
          BY <3>1, <3>4, <4>1, <4>2
      <3>5. QED
        BY <3>2, <3>3, <3>4
    <2>8. ContentKept'
      BY <2>7 DEF ContentKept
    <2>9. QED
      BY <1>2, <2>2, <2>6, <2>8 DEF SerialInv
  <1>4. QED
    BY <1>1, <1>2, <1>3 DEF SerialInv

\* The record is written last, of a plugin whose content is in place, and an
\* upgrade keeps the flag.
LEMMA UpsertInStep ==
  ASSUME SerialInv, PlugTyped', NEW l \in Lanes, WriteUpsert(l)
  PROVE  SerialInv'
  <1>1. /\ pc[l] = "record" /\ PlugTyped
        /\ UNCHANGED <<content, aside, listing, up, unheard, overlapped>>
    BY DEF WriteUpsert, window, bounds, SerialInv
  <1>2. CASE Finish(l) /\ UNCHANGED records
    BY <1>1, <1>2, FinishInStep
  <1>3. CASE ~(Finish(l) /\ UNCHANGED records) /\ ~overlapped
    <2> DEFINE id == job[l].id
    <2>1. /\ id \in Ids /\ LaneInStep(l) /\ ContentKept /\ OnlyEnabledListed /\ ~Answering
          /\ content[id] # 0 /\ seen[l] = records
          /\ \A m \in Lanes \ {l} : pc[m] = "idle" /\ old[m] = 0
      BY <1>1, <1>3, Alone DEF SerialInv, Answering, PlugTyped, LanesTyped, Jobs, LaneInStep
    <2>2. /\ Goto(l, "installed") /\ Keep
          /\ records' = Upserted(records, id, job[l].rev)
      BY <1>3, <2>1 DEF WriteUpsert, WriteStore
    <2>3. OneAtATime' /\ \A m \in Lanes : LaneInStep(m)'
      <3>1. /\ pc'[l] = "installed" /\ old' = old
            /\ \A m \in Lanes \ {l} : pc'[m] = pc[m]
        BY <1>1, <2>2 DEF Goto, Keep, PlugTyped, LanesTyped
      <3>2. LaneInStep(l)'
        BY <1>1, <2>1, <3>1 DEF LaneInStep
      <3>3. QED
        BY <1>1, <1>3, <3>1, <3>2, StepInStep
    <2>4. ContentKept'
      <3>1. \A other \in Ids : MovedAside(other)' <=> MovedAside(other)
        BY <1>1, <2>2 DEF MovedAside, Goto, Keep
      <3>2. \A other \in Ids \ {id} : records'[other] = records[other]
        BY <1>1, <2>2 DEF Upserted, PlugTyped, DiskTyped, Stores
      <3>3. QED
        BY <1>1, <2>1, <3>1, <3>2 DEF ContentKept
    <2>5. OnlyEnabledListed'
      <3>1. \A other \in Ids : listing[other] # 0 /\ ~unheard => records[other].enabled
        BY <2>1 DEF OnlyEnabledListed
      <3>2. \A other \in Ids : records[other].enabled => records'[other].enabled
        BY <1>1, <2>2 DEF Upserted, PlugTyped, DiskTyped, Stores
      <3>3. QED
        BY <1>1, <3>1, <3>2 DEF OnlyEnabledListed
    <2>6. QED
      BY <1>1, <2>3, <2>4, <2>5 DEF SerialInv, NothingListedWhenDown
  <1>4. QED
    BY <1>1, <1>2, <1>3 DEF SerialInv, NothingListedWhenDown

\* An enable, a disable or an uninstall: what is no longer enabled is being
\* answered for until the window has been told.
LEMMA AdminInStep ==
  ASSUME SerialInv, PlugTyped', NEW l \in Lanes, ReadForAdmin(l) \/ WriteAdmin(l)
  PROVE  SerialInv'
  <1>1. /\ pc[l] \in {"read", "write"} /\ PlugTyped
        /\ UNCHANGED <<content, aside, listing, up, unheard, overlapped>>
    BY DEF ReadForAdmin, WriteAdmin, window, onDisk, bounds, SerialInv
  <1>2. CASE Finish(l) /\ UNCHANGED records
    BY <1>1, <1>2, FinishInStep
  <1>3. CASE ReadForAdmin(l) /\ ~Finish(l)
    <2>1. Goto(l, "write") /\ UNCHANGED <<old, records>> /\ seen'[l] = records
      BY <1>1, <1>3 DEF ReadForAdmin, ReadStore, onDisk, PlugTyped, LanesTyped
    <2>2. QED
      BY <1>1, <2>1, GotoInStep DEF Places
  <1>4. CASE WriteAdmin(l) /\ ~(Finish(l) /\ UNCHANGED records) /\ ~overlapped
    <2>1. /\ job[l].id \in Ids /\ LaneInStep(l) /\ ContentKept /\ OnlyEnabledListed
          /\ seen[l] = records
          /\ \A m \in Lanes \ {l} : pc[m] = "idle" /\ old[m] = 0
      BY <1>1, <1>4, Alone
      DEF SerialInv, PlugTyped, LanesTyped, Jobs, LaneInStep, WriteAdmin
    <2>2. /\ Keep /\ pc'[l] \in {"remove", "notify"} /\ job' = job
          /\ \A m \in Lanes \ {l} : pc'[m] = pc[m]
          /\ \A id \in Ids : records'[id].rev \in {records[id].rev, 0}
          /\ pc'[l] = "remove" => records'[job[l].id].rev = 0
      <3> DEFINE flag == job[l].op = "enable"
      <3>1. \/ records' = Removed(records, job[l].id) /\ Goto(l, "remove") /\ Keep
            \/ records' = Flagged(records, job[l].id, flag) /\ Goto(l, "notify") /\ Keep
        BY <1>4, <2>1, Zenon DEF WriteAdmin, WriteStore
      <3> HIDE DEF flag
      <3>2. \A id \in Ids : records'[id].rev \in {records[id].rev, 0}
        BY <1>1, <2>1, <3>1 DEF Removed, Flagged, NoRecord, PlugTyped, DiskTyped, Stores
      <3>3. pc'[l] = "remove" => records'[job[l].id].rev = 0
        BY <1>1, <2>1, <3>1 DEF Goto, Removed, NoRecord, PlugTyped, DiskTyped, LanesTyped, Stores
      <3>4. QED
        BY <1>1, <3>1, <3>2, <3>3 DEF Goto, PlugTyped, LanesTyped
    <2>3. LaneInStep(l)'
      BY <1>1, <2>1, <2>2 DEF LaneInStep, Keep
    <2>4. OneAtATime' /\ \A m \in Lanes : LaneInStep(m)'
      BY <1>1, <1>4, <2>2, <2>3, StepInStep DEF Keep
    <2>5. ContentKept'
      BY <1>1, <2>1, <2>2 DEF ContentKept, MovedAside, Keep
    <2>6. Answering'
      BY <2>2 DEF Answering
    <2>7. QED
      BY <1>1, <2>4, <2>5, <2>6 DEF SerialInv, NothingListedWhenDown, OnlyEnabledListed
  <1>5. QED
    BY <1>1, <1>2, <1>3, <1>4 DEF SerialInv, NothingListedWhenDown, ReadForAdmin, onDisk

\* Removing the content of a plugin whose record is gone.
LEMMA RemoveInStep ==
  ASSUME SerialInv, PlugTyped', NEW l \in Lanes, RemoveContent(l)
  PROVE  SerialInv'
  <1>1. /\ pc[l] = "remove" /\ PlugTyped /\ Goto(l, "notify") /\ Keep
        /\ UNCHANGED <<records, aside, listing, up, unheard, overlapped>>
        /\ \A id \in Ids : id # job[l].id => content'[id] = content[id]
    BY DEF RemoveContent, window, bounds, SerialInv, PlugTyped, DiskTyped
  <1>2. CASE ~overlapped
    <2>1. LaneInStep(l) /\ ContentKept
      BY <1>2 DEF SerialInv
    <2>2. /\ pc'[l] = "notify" /\ old' = old /\ job' = job
          /\ \A m \in Lanes \ {l} : pc'[m] = pc[m]
      BY <1>1 DEF Goto, Keep, PlugTyped, LanesTyped
    <2>3. LaneInStep(l)'
      BY <1>1, <2>1, <2>2 DEF LaneInStep
    <2>4. OneAtATime' /\ \A m \in Lanes : LaneInStep(m)'
      BY <1>1, <1>2, <2>2, <2>3, StepInStep
    <2>5. ContentKept'
      BY <1>1, <2>1, <2>2 DEF ContentKept, MovedAside, LaneInStep
    <2>6. Answering'
      BY <2>2 DEF Answering
    <2>7. QED
      BY <1>1, <2>4, <2>5, <2>6 DEF SerialInv, NothingListedWhenDown, OnlyEnabledListed
  <1>3. QED
    BY <1>1, <1>2 DEF SerialInv, NothingListedWhenDown

\* What the window reads from the records lists only what is enabled.
LEMMA ListedIsEnabled ==
  ASSUME NEW recs \in Stores, NEW id \in Ids, Listed(recs)[id] # 0
  PROVE  recs[id].enabled
  BY DEF Listed, Stores

\* A notice makes a running window read the store again.
LEMMA NotifyInStep ==
  ASSUME SerialInv, PlugTyped', NEW l \in Lanes, Notify(l)
  PROVE  SerialInv'
  <1>1. /\ pc[l] = "notify" /\ PlugTyped /\ Finish(l)
        /\ listing' = (IF up THEN Listed(records) ELSE listing)
        /\ UNCHANGED <<records, content, aside, up, unheard, overlapped>>
    BY DEF Notify, onDisk, bounds, SerialInv
  <1>2. NothingListedWhenDown' /\ \A id \in Ids : listing'[id] # 0 => records[id].enabled
    BY <1>1, ListedIsEnabled DEF SerialInv, NothingListedWhenDown, PlugTyped, DiskTyped
  <1>3. CASE ~overlapped
    <2>1. OneAtATime' /\ \A m \in Lanes : LaneInStep(m)'
      BY <1>1, <1>3, FinishFrees, IdleInStep, StepInStep
    <2>2. ContentKept'
      BY <1>1, <1>3, AsideIsLeft DEF SerialInv, ContentKept, MovedAside
    <2>3. QED
      BY <1>1, <1>2, <2>1, <2>2 DEF SerialInv, OnlyEnabledListed
  <1>4. QED
    BY <1>1, <1>2, <1>3 DEF SerialInv

\* A command that is killed leaves what it moved aside where it is, and the
\* window that was not told remembers it.
LEMMA KilledInStep ==
  ASSUME SerialInv, PlugTyped', NEW l \in Lanes, Killed(l)
  PROVE  SerialInv'
  <1>1. /\ pc[l] # "idle" /\ PlugTyped /\ aside' = aside \cup Abandoned(l)
        /\ UNCHANGED <<records, content, listing, up, overlapped>>
        /\ unheard' = (unheard \/ pc[l] \in {"notify", "remove"})
    BY DEF Killed, SerialInv
  <1>2. /\ pc'[l] = "idle" /\ old'[l] = 0
        /\ \A m \in Lanes \ {l} : pc'[m] = pc[m] /\ old'[m] = old[m]
        /\ \A m \in Lanes : job'[m].id = job[m].id
    BY <1>1 DEF Killed, PlugTyped, LanesTyped
  <1>3. NothingListedWhenDown'
    BY <1>1 DEF SerialInv, NothingListedWhenDown
  <1>4. CASE ~overlapped
    <2>1. OneAtATime' /\ \A m \in Lanes : LaneInStep(m)'
      BY <1>1, <1>2, <1>4, IdleInStep, StepInStep
    <2>2. \A id \in Ids : MovedAside(id) => MovedAside(id)'
      <3> SUFFICES ASSUME NEW id \in Ids, MovedAside(id) PROVE MovedAside(id)'
        OBVIOUS
      <3>1. CASE \E left \in aside : left.id = id
        BY <1>1, <3>1 DEF MovedAside
      <3>2. CASE old[l] # 0 /\ job[l].id = id
        <4>1. [id |-> id, rev |-> old[l]] \in aside'
          BY <1>1, <3>2 DEF Abandoned
        <4>2. QED
          BY <4>1 DEF MovedAside
      <3>3. CASE \E m \in Lanes \ {l} : old[m] # 0 /\ job[m].id = id
        BY <1>2, <3>3 DEF MovedAside
      <3>4. QED
        BY <3>1, <3>2, <3>3 DEF MovedAside
    <2>3. ContentKept'
      BY <1>1, <1>4, <2>2 DEF SerialInv, ContentKept
    <2>4. ~unheard' => ~unheard /\ ~Answering
      BY <1>1, <1>4, Alone DEF Answering
    <2>5. OnlyEnabledListed'
      BY <1>1, <1>4, <2>4 DEF SerialInv, OnlyEnabledListed
    <2>6. QED
      BY <1>3, <2>1, <2>3, <2>5 DEF SerialInv
  <1>5. QED
    BY <1>1, <1>3, <1>4 DEF SerialInv

\* The window, and the answer of the human in it.
LEMMA WindowInStep ==
  ASSUME SerialInv, PlugTyped',
         \/ Refresh \/ Quit \/ Launch \/ UNCHANGED pluginVars
         \/ \E l \in Lanes : AnswerReview(l)
  PROVE  SerialInv'
  <1>1. /\ UNCHANGED <<records, content, aside, pc, job, seen, old, overlapped>>
        /\ \/ up' /\ listing' = Listed(records)
           \/ ~up' /\ listing' = [id \in Ids |-> 0] /\ UNCHANGED unheard
           \/ UNCHANGED <<up, listing, unheard>>
    BY DEF Refresh, Quit, Launch, pluginVars, AnswerReview, onDisk, bounds
  <1>2. PlugTyped
    BY DEF SerialInv
  <1>3. NothingListedWhenDown'
    BY <1>1 DEF SerialInv, NothingListedWhenDown
  <1>4. CASE ~overlapped
    <2>1. OneAtATime' /\ (\A m \in Lanes : LaneInStep(m)') /\ ContentKept'
      BY <1>1, <1>4 DEF SerialInv, OneAtATime, LaneInStep, ContentKept, MovedAside
    <2>2. OnlyEnabledListed'
      BY <1>1, <1>2, <1>4, ListedIsEnabled
      DEF SerialInv, OnlyEnabledListed, Answering, PlugTyped, DiskTyped
    <2>3. QED
      BY <1>3, <2>1, <2>2 DEF SerialInv
  <1>5. QED
    BY <1>1, <1>3, <1>4 DEF SerialInv

\* One case per action.
LEMMA SerialNext == SerialInv /\ [PluginNext]_pluginVars => SerialInv'
  <1> SUFFICES ASSUME SerialInv, [PluginNext]_pluginVars PROVE SerialInv'
    OBVIOUS
  <1>1. PlugTyped'
    BY PlugTypedNext DEF SerialInv
  <1>2. QED
    BY <1>1, TypedInStep, QuietInstall, MovesInStep, UpsertInStep, AdminInStep, RemoveInStep,
       NotifyInStep, KilledInStep, WindowInStep
    DEF PluginNext

\* An upgrade leaves the flag of every plugin there is.
LEMMA UpgradeKeepsFlag ==
  ASSUME NEW recs \in Stores, NEW p, NEW rev, NEW id \in Ids, recs[id].rev # 0,
         Upserted(recs, p, rev)[id].enabled
  PROVE  recs[id].enabled
  <1>1. CASE id = p
    <2>1. Upserted(recs, p, rev)[id] = [rev |-> rev, enabled |-> recs[id].enabled]
      BY <1>1 DEF Upserted, Stores
    <2>2. QED
      BY <2>1
  <1>2. CASE id # p
    BY <1>2 DEF Upserted, Stores
  <1>3. QED
    BY <1>1, <1>2

\* The record file tells the truth, for every store, every number of commands
\* and of kills: what is recorded, in place or offered is of a revision a human
\* accepted, whatever commands overlap; and of commands typed one after another
\* a record always has its content, and the window offers nothing disabled.
THEOREM RecordsTellTheTruth == PluginSpec => []RecordsAreTrue
  <1>1. ReviewInv => InstalledWasReviewed
    BY DEF ReviewInv, KnownAccepted, Accepted, InstalledWasReviewed
  <1>2. SerialInv => RecordsHaveContent
    BY DEF SerialInv, ContentKept, OnlyEnabledListed, Answering, RecordsHaveContent
  <1>3. RecordsAreTrue <=> InstalledWasReviewed /\ RecordsHaveContent
    BY DEF RecordsAreTrue
  <1>4. QED
    BY ReviewInit, ReviewNext, SerialInit, SerialNext, <1>1, <1>2, <1>3, PTL DEF PluginSpec

\* No upgrade, and no other command, turns on what the user has disabled.
THEOREM DisabledPluginsStayDisabled == PluginSpec => DisabledStaysDisabled
  <1> DEFINE Stays ==
        ~overlapped =>
          \A id \in Ids :
            records[id].rev # 0 /\ ~records[id].enabled /\ records'[id].enabled =>
              \E l \in Lanes : job[l].op = "enable" /\ job[l].id = id
  <1>1. SerialInv /\ [PluginNext]_pluginVars => [Stays]_pluginVars
    <2> SUFFICES ASSUME SerialInv, PluginNext, ~overlapped, NEW id \in Ids,
                        records[id].rev # 0, ~records[id].enabled, records'[id].enabled
                 PROVE  \E l \in Lanes : job[l].op = "enable" /\ job[l].id = id
      OBVIOUS
    <2>1. PlugTyped
      BY DEF SerialInv
    <2>2. PICK l \in Lanes : (WriteUpsert(l) \/ WriteAdmin(l)) /\ seen[l] = records
      <3>1. PICK l \in Lanes : WriteUpsert(l) \/ WriteAdmin(l)
        BY DEF PluginNext, TypeInstall, GatesRefuse, AskReview, AnswerReview, ReviewEnds,
               MoveAside, MoveInto, ReadForUpsert, InstallEnds, TypeAdmin, ReadForAdmin,
               RemoveContent, Notify, Killed, Refresh, Quit, Launch, onDisk
      <3>2. QED
        BY <3>1 DEF SerialInv, LaneInStep, WriteUpsert, WriteAdmin
    <2>3. CASE WriteUpsert(l)
      <3>1. records' = Upserted(records, job[l].id, job[l].rev) \/ records' = records
        BY <2>2, <2>3 DEF WriteUpsert, WriteStore
      <3>2. records[id].rev # 0 /\ records'[id].enabled => records[id].enabled
        BY <2>1, <3>1, UpgradeKeepsFlag DEF PlugTyped, DiskTyped
      <3>3. QED
        BY <3>2
    <2>4. CASE WriteAdmin(l)
      BY <2>1, <2>2, <2>4
      DEF WriteAdmin, WriteStore, Removed, Flagged, NoRecord, PlugTyped, DiskTyped, Stores
    <2>5. QED
      BY <2>2, <2>3, <2>4
  <1>2. QED
    BY SerialInit, SerialNext, <1>1, PTL DEF PluginSpec, DisabledStaysDisabled

(* The cap on installed plugins is checked against what the command read    *)
(* (records().len() >= MAX_PLUGINS), and the file it writes is that reading  *)
(* changed: commands that overlap lose each other's work, not the cap.       *)
RecordedIn(recs) == {id \in Ids : recs[id].rev # 0}
WithinCap(recs) == Cardinality(RecordedIn(recs)) <= MaxPlugins
CapInv == PlugTyped /\ WithinCap(records) /\ \A l \in Lanes : WithinCap(seen[l])

\* Sets of plugins can be counted.
LEMMA RecordedCounts ==
  ASSUME NEW recs
  PROVE  IsFiniteSet(RecordedIn(recs)) /\ Cardinality(RecordedIn(recs)) \in Nat
  <1>1. RecordedIn(recs) \subseteq Ids /\ IsFiniteSet(Ids)
    BY PluginAssumption DEF RecordedIn
  <1>2. QED
    BY <1>1, FS_Subset, FS_CardinalityType

\* A store with no record that another has not is within the cap too.
LEMMA FewerWithinCap ==
  ASSUME NEW recs, NEW other, RecordedIn(other) \subseteq RecordedIn(recs), WithinCap(recs)
  PROVE  WithinCap(other)
  <1>1. Cardinality(RecordedIn(other)) <= Cardinality(RecordedIn(recs))
    BY RecordedCounts, FS_Subset
  <1>2. QED
    BY <1>1, RecordedCounts, PluginAssumption DEF WithinCap

\* An upgrade counts no further plugin, and a first install only below the cap.
LEMMA UpsertWithinCap ==
  ASSUME NEW recs \in Stores, NEW id \in Ids, NEW rev, WithinCap(recs), ~Full(recs, id)
  PROVE  WithinCap(Upserted(recs, id, rev))
  <1> DEFINE new == Upserted(recs, id, rev)
  <1>1. RecordedIn(new) \subseteq RecordedIn(recs) \cup {id}
    BY DEF RecordedIn, Upserted, Stores
  <1>2. CASE recs[id].rev # 0
    <2>1. RecordedIn(new) \subseteq RecordedIn(recs)
      BY <1>1, <1>2 DEF RecordedIn
    <2>2. QED
      BY <2>1, FewerWithinCap
  <1>3. CASE recs[id].rev = 0
    <2>1. id \notin RecordedIn(recs)
      BY <1>3 DEF RecordedIn
    <2>2. Cardinality(RecordedIn(recs) \cup {id}) = Cardinality(RecordedIn(recs)) + 1
      BY <2>1, RecordedCounts, FS_AddElement
    <2>3. IsFiniteSet(RecordedIn(recs) \cup {id})
      BY RecordedCounts, FS_AddElement
    <2>4. Cardinality(RecordedIn(new)) <= Cardinality(RecordedIn(recs) \cup {id})
      BY <1>1, <2>3, FS_Subset
    <2>5. ~(Cardinality(RecordedIn(recs)) >= MaxPlugins)
      BY <1>3 DEF Full, RecordedIn
    <2>6. QED
      BY <2>2, <2>4, <2>5, RecordedCounts, PluginAssumption DEF WithinCap
  <1>4. QED
    BY <1>2, <1>3

\* Nothing was over the cap before.
LEMMA CapInit == PluginInit => CapInv
  <1> SUFFICES ASSUME PluginInit PROVE CapInv
    OBVIOUS
  <1>1. PICK installed \in SUBSET Ids :
          /\ records = [id \in Ids |-> IF id \in installed
                                       THEN [rev |-> 1, enabled |-> TRUE] ELSE NoRecord]
          /\ Cardinality(installed) <= MaxPlugins
    BY DEF PluginInit
  <1>2. WithinCap(records)
    <2>1. RecordedIn(records) = installed
      BY <1>1 DEF RecordedIn, NoRecord
    <2>2. QED
      BY <1>1, <2>1 DEF WithinCap
  <1>3. \A l \in Lanes : WithinCap(seen[l])
    <2>1. \A l \in Lanes : RecordedIn(seen[l]) \subseteq RecordedIn(records)
      BY DEF PluginInit, RecordedIn, NoRecord
    <2>2. QED
      BY <1>2, <2>1, FewerWithinCap
  <1>4. QED
    BY <1>2, <1>3, PlugTypedInit DEF CapInv

\* What a lane has read is what the file says, what it read before, or nothing.
LEMMA SeenIsRead ==
  ASSUME PlugTyped, PluginNext, NEW l \in Lanes
  PROVE  seen'[l] \in {seen[l], records, [id \in Ids |-> NoRecord]}
  <1>1. \/ UNCHANGED seen
        \/ \E k \in Lanes : seen' = [seen EXCEPT ![k] = records]
        \/ \E k \in Lanes : seen' = [seen EXCEPT ![k] = [id \in Ids |-> NoRecord]]
    <2>1. ASSUME NEW k \in Lanes, Finish(k)
          PROVE  seen' = [seen EXCEPT ![k] = [id \in Ids |-> NoRecord]]
      BY <2>1 DEF Finish
    <2>2. ASSUME NEW k \in Lanes,
                 TypeInstall(k) \/ GatesRefuse(k) \/ AskReview(k) \/ AnswerReview(k) \/ ReviewEnds(k)
                 \/ MoveAside(k) \/ MoveInto(k)
          PROVE  UNCHANGED seen \/ Finish(k)
      BY <2>2 DEF TypeInstall, GatesRefuse, AskReview, AnswerReview, ReviewEnds, MoveAside,
                  MoveInto, Keep
    <2>3. ASSUME NEW k \in Lanes,
                 WriteUpsert(k) \/ InstallEnds(k) \/ TypeAdmin(k) \/ WriteAdmin(k)
                 \/ RemoveContent(k) \/ Notify(k)
          PROVE  UNCHANGED seen \/ Finish(k)
      BY <2>3 DEF WriteUpsert, InstallEnds, TypeAdmin, WriteAdmin, RemoveContent, Notify, WriteStore,
                  Keep
    <2>4. ASSUME NEW k \in Lanes, ReadForUpsert(k) \/ ReadForAdmin(k)
          PROVE  seen' = [seen EXCEPT ![k] = records] \/ Finish(k)
      BY <2>4 DEF ReadForUpsert, ReadForAdmin, ReadStore
    <2>5. ASSUME NEW k \in Lanes, Killed(k)
          PROVE  seen' = [seen EXCEPT ![k] = [id \in Ids |-> NoRecord]]
      BY <2>5 DEF Killed
    <2>6. CASE Refresh \/ Quit \/ Launch
      BY <2>6 DEF Refresh, Quit, Launch
    <2>7. QED
      BY <2>1, <2>2, <2>3, <2>4, <2>5, <2>6 DEF PluginNext
  <1>2. QED
    BY <1>1 DEF PlugTyped, LanesTyped

\* The file is what one command has read, changed.
LEMMA RecordsAreSeen ==
  ASSUME PlugTyped, PluginNext, ~UNCHANGED records
  PROVE  \E l \in Lanes, flag \in BOOLEAN :
            \/ /\ ~Full(seen[l], job[l].id)
               /\ records' = Upserted(seen[l], job[l].id, job[l].rev)
            \/ records' = Removed(seen[l], job[l].id)
            \/ records' = Flagged(seen[l], job[l].id, flag) /\ seen[l][job[l].id].rev # 0
  <1>1. PICK l \in Lanes : WriteUpsert(l) \/ WriteAdmin(l)
    BY DEF PluginNext, TypeInstall, GatesRefuse, AskReview, AnswerReview, ReviewEnds,
           MoveAside, MoveInto, ReadForUpsert, InstallEnds, TypeAdmin, ReadForAdmin,
           RemoveContent, Notify, Killed, Refresh, Quit, Launch, onDisk
  <1>2. CASE WriteUpsert(l)
    BY <1>2 DEF WriteUpsert, WriteStore
  <1>3. CASE WriteAdmin(l)
    <2>1. (job[l].op = "enable") \in BOOLEAN
      OBVIOUS
    <2>2. QED
      BY <1>3, <2>1, Zenon DEF WriteAdmin, WriteStore
  <1>4. QED
    BY <1>1, <1>2, <1>3

\* Whatever is read or written is within the cap.
LEMMA CapNext == CapInv /\ [PluginNext]_pluginVars => CapInv'
  <1> SUFFICES ASSUME CapInv, [PluginNext]_pluginVars PROVE CapInv'
    OBVIOUS
  <1>1. PlugTyped /\ PlugTyped'
    BY PlugTypedNext DEF CapInv
  <1>2. CASE UNCHANGED pluginVars
    BY <1>1, <1>2 DEF CapInv, pluginVars, WithinCap, RecordedIn
  <1>3. CASE PluginNext
    <2>1. ASSUME NEW l \in Lanes PROVE WithinCap(seen'[l])
      <3>1. RecordedIn([id \in Ids |-> NoRecord]) \subseteq RecordedIn(records)
        BY DEF RecordedIn, NoRecord
      <3>2. WithinCap([id \in Ids |-> NoRecord])
        BY <3>1, FewerWithinCap DEF CapInv
      <3>3. QED
        BY <1>1, <1>3, <3>2, SeenIsRead DEF CapInv
    <2>2. WithinCap(records')
      <3>1. CASE UNCHANGED records
        BY <3>1 DEF CapInv
      <3>2. CASE ~UNCHANGED records
        <4>1. PICK l \in Lanes, flag \in BOOLEAN :
                \/ /\ ~Full(seen[l], job[l].id)
                   /\ records' = Upserted(seen[l], job[l].id, job[l].rev)
                \/ records' = Removed(seen[l], job[l].id)
                \/ records' = Flagged(seen[l], job[l].id, flag) /\ seen[l][job[l].id].rev # 0
          BY <1>1, <1>3, <3>2, RecordsAreSeen
        <4>2. seen[l] \in Stores /\ job[l].id \in Ids /\ WithinCap(seen[l])
          BY <1>1 DEF PlugTyped, LanesTyped, Jobs, CapInv
        <4>3. CASE records' = Upserted(seen[l], job[l].id, job[l].rev) /\ ~Full(seen[l], job[l].id)
          BY <4>2, <4>3, UpsertWithinCap
        <4>4. CASE records' = Removed(seen[l], job[l].id)
          <5>1. RecordedIn(records') \subseteq RecordedIn(seen[l])
            BY <4>2, <4>4 DEF RecordedIn, Removed, NoRecord, Stores
          <5>2. QED
            BY <4>2, <5>1, FewerWithinCap
        <4>5. CASE records' = Flagged(seen[l], job[l].id, flag) /\ seen[l][job[l].id].rev # 0
          <5>1. RecordedIn(records') \subseteq RecordedIn(seen[l])
            BY <4>2, <4>5 DEF RecordedIn, Flagged, Stores
          <5>2. QED
            BY <4>2, <5>1, FewerWithinCap
        <4>6. QED
          BY <4>1, <4>3, <4>4, <4>5
      <3>3. QED
        BY <3>1, <3>2
    <2>3. QED
      BY <1>1, <2>1, <2>2 DEF CapInv, WithinCap, RecordedIn
  <1>4. QED
    BY <1>2, <1>3

\* The store never holds more than MAX_PLUGINS records, however many installs
\* overlap: what a command writes is what it has read and found below the cap.
THEOREM StoreStaysWithinCap ==
  PluginSpec => [](Cardinality({id \in Ids : records[id].rev # 0}) <= MaxPlugins)
  <1>1. CapInv => Cardinality({id \in Ids : records[id].rev # 0}) <= MaxPlugins
    BY DEF CapInv, WithinCap, RecordedIn
  <1>2. QED
    BY CapInit, CapNext, <1>1, PTL DEF PluginSpec

(***************************************************************************)
(* The index of a vault                                                    *)
(***************************************************************************)

(* Rows are taken from the table only behind a walk that met every note.    *)
VaultShapes ==
    /\ rows = [n \in Notes |-> rows[n]]
    /\ walker = [p \in Passers |-> walker[p]] /\ missed = [p \in Passers |-> missed[p]]
RemovalsAreComplete == \A p \in Passers : walker[p] = "removing" => missed[p] = {}
RemovalInv == VaultShapes /\ RemovalsAreComplete

\* No pass runs at first.
LEMMA RemovalInit == VaultInit => RemovalInv
  BY DEF VaultInit, RemovalInv, VaultShapes, RemovalsAreComplete

\* What is not a pass leaves the passes where they are.
LEMMA RemovalQuiet ==
  ASSUME RemovalInv, \/ Edit \/ RenameNote \/ Respell \/ LeaveMentions \/ ReadMentions
                     \/ StampNote \/ WriteMentions
  PROVE  UNCHANGED <<rows, walker, missed, scan>>
  BY DEF Edit, RenameNote, Respell, LeaveMentions, ReadMentions, StampNote, WriteMentions, store,
         passState

\* A pass removes rows only when its walk was not capped.
LEMMA RemovalPass ==
  ASSUME RemovalInv, NEW p \in Passers,
         \/ Walk(p) \/ List(p) \/ ReadNote(p) \/ Upsert(p) \/ RemoveRow(p) \/ RemoveLinks(p)
         \/ RemovalDone(p) \/ PassEnds(p) \/ PassFails(p)
  PROVE  RemovalInv'
  <1> USE DEF RemovalInv, VaultShapes, RemovalsAreComplete
  <1>1. CASE Walk(p)
    BY <1>1 DEF Walk, store
  <1>2. CASE List(p)
    BY <1>2 DEF List, store
  <1>3. CASE ReadNote(p)
    BY <1>3 DEF ReadNote, store
  <1>4. CASE Upsert(p)
    BY <1>4 DEF Upsert, Truncated
  <1>5. CASE RemoveRow(p)
    BY <1>5 DEF RemoveRow
  <1>6. CASE RemoveLinks(p)
    BY <1>6 DEF RemoveLinks
  <1>7. CASE RemovalDone(p)
    BY <1>7 DEF RemovalDone, store
  <1>8. CASE PassEnds(p)
    BY <1>8 DEF PassEnds, Fresh
  <1>9. CASE PassFails(p)
    BY <1>9 DEF PassFails, Fresh, store
  <1>10. QED
    BY <1>1, <1>2, <1>3, <1>4, <1>5, <1>6, <1>7, <1>8, <1>9

\* Every step.
LEMMA RemovalNext == RemovalInv /\ [VaultNext]_vaultVars => RemovalInv'
  <1> SUFFICES ASSUME RemovalInv, [VaultNext]_vaultVars PROVE RemovalInv'
    OBVIOUS
  <1>1. CASE UNCHANGED <<rows, walker, missed, scan>>
    BY <1>1 DEF RemovalInv, VaultShapes, RemovalsAreComplete
  <1>2. CASE UNCHANGED vaultVars
    BY <1>1, <1>2 DEF vaultVars
  <1>3. CASE VaultNext
    BY <1>1, <1>3, RemovalQuiet, RemovalPass DEF VaultNext
  <1>4. QED
    BY <1>2, <1>3

\* The row that a removal takes is of a note its whole walk did not meet.
LEMMA RemovedWasMissing ==
  ASSUME RemovalInv, VaultNext, NEW n \in Notes, rows[n].stamp # 0, rows'[n].stamp = 0
  PROVE  \E p \in Passers : Running(p) /\ scan[p][n] = 0 /\ n \notin missed[p]
  <1>1. PICK p \in Passers : Upsert(p) \/ RemoveRow(p)
    BY RemovalQuiet DEF VaultNext, Walk, List, ReadNote, RemoveLinks, RemovalDone, PassEnds,
       PassFails, store
  <1>2. ~Upsert(p)
    BY DEF Upsert
  <1>3. RemoveRow(p)
    BY <1>1, <1>2
  <1>4. First(Missing(p)) \in Missing(p)
    BY <1>3 DEF RemoveRow, First
  <1>5. n = First(Missing(p))
    BY <1>3 DEF RemoveRow, RemovalInv, VaultShapes
  <1>6. scan[p][n] = 0 /\ missed[p] = {} /\ walker[p] = "removing"
    BY <1>3, <1>4, <1>5 DEF Missing, RemoveRow, RemovalInv, RemovalsAreComplete
  <1>7. QED
    BY <1>6 DEF Running

\* A note leaves the index only in a pass that walked the whole vault without
\* meeting it, for any notes, passes and edits (index_vault, remove_missing).
THEOREM OnlyTheVanishedLeave == VaultSpec => OnlyVanishedAreDropped
  <1>1. RemovalInv /\ [VaultNext]_vaultVars =>
          [\A n \in Notes : rows[n].stamp # 0 /\ rows'[n].stamp = 0 =>
             \E p \in Passers : Running(p) /\ scan[p][n] = 0 /\ n \notin missed[p]]_vaultVars
    BY RemovedWasMissing
  <1>2. QED
    BY RemovalInit, RemovalNext, <1>1, PTL DEF VaultSpec, OnlyVanishedAreDropped

(* What the store keeps is derived from the notes: tables of entries whose  *)
(* stamps were given already, and passes over them.                         *)
Entry(x) == x = [stamp |-> x.stamp, body |-> x.body] /\ x.stamp \in 0..clock
            /\ (x.stamp = 0 => x = NoText)
IsTable(t) == t = [n \in Notes |-> t[n]] /\ \A n \in Notes : Entry(t[n])
Stations == {"idle", "listed", "reading", "removing", "pruning"}

StoreTyped ==
    /\ clock \in Nat \ {0} /\ IsTable(files) /\ IsTable(rows)
    /\ edges = [n \in Notes |-> edges[n]]
    /\ settled \in BOOLEAN /\ disturbed \in BOOLEAN
WalksTyped ==
    /\ walker \in [Passers -> Stations] /\ scan \in [Passers -> [Notes -> 0..clock]]
    /\ missed \in [Passers -> SUBSET Notes] /\ toRead \in [Passers -> SUBSET Notes]
FindingsTyped ==
    /\ batch = [p \in Passers |-> batch[p]] /\ \A p \in Passers : IsTable(batch[p])
    /\ moved \in [Passers -> BOOLEAN] /\ clean \in [Passers -> BOOLEAN]
    /\ gone \in [Passers -> Notes \cup {Nobody}]
IndexTyped == StoreTyped /\ WalksTyped /\ FindingsTyped

\* One of several is one of them.
LEMMA FirstIsIn == ASSUME NEW notes, notes # {} PROVE First(notes) \in notes
  BY DEF First

\* The index starts well typed.
LEMMA IndexTypedInit == VaultInit => IndexTyped
  <1> SUFFICES ASSUME VaultInit PROVE IndexTyped
    OBVIOUS
  <1>1. IsTable(files)
    <2>1. PICK n \in Notes : \E entry \in TextsAt(n, 1) :
            files = [m \in Notes |-> IF m = n THEN entry ELSE NoText]
      BY DEF VaultInit
    <2>2. PICK entry \in TextsAt(n, 1) : files = [m \in Notes |-> IF m = n THEN entry ELSE NoText]
      BY <2>1
    <2>3. clock = 1
      BY DEF VaultInit
    <2>4. PICK body \in Texts[n] : entry = [stamp |-> 1, body |-> body]
      BY <2>2 DEF TextsAt
    <2>5. Entry(entry) /\ Entry(NoText)
      BY <2>3, <2>4 DEF Entry, NoText
    <2>6. QED
      BY <2>2, <2>5 DEF IsTable
  <1>2. StoreTyped
    <2>1. rows = [n \in Notes |-> NoText] /\ edges = [n \in Notes |-> {}] /\ clock = 1
          /\ settled = FALSE /\ disturbed = FALSE
      BY DEF VaultInit
    <2>2. IsTable(rows)
      BY <2>1 DEF IsTable, Entry, NoText
    <2>3. edges = [n \in Notes |-> edges[n]]
      BY <2>1
    <2>4. clock \in Nat \ {0}
      BY <2>1
    <2>5. settled \in BOOLEAN /\ disturbed \in BOOLEAN
      BY <2>1
    <2>6. QED
      BY <1>1, <2>2, <2>3, <2>4, <2>5, Zenon DEF StoreTyped
  <1>3. WalksTyped
    BY DEF WalksTyped, VaultInit, Stations
  <1>4. FindingsTyped
    BY DEF FindingsTyped, VaultInit, IsTable, Entry, NoText
  <1>5. QED
    BY <1>2, <1>3, <1>4 DEF IndexTyped

\* An entry stays one as the clock goes on.
LEMMA TableStays ==
  ASSUME clock \in Nat, clock' \in Nat, clock' >= clock, NEW t, IsTable(t)
  PROVE  t = [n \in Notes |-> t[n]] /\ \A n \in Notes :
           t[n] = [stamp |-> t[n].stamp, body |-> t[n].body] /\ t[n].stamp \in 0..clock'
           /\ (t[n].stamp = 0 => t[n] = NoText)
  BY DEF IsTable, Entry

(* A note on disk keeps the stamp of its last change, and no two have one.  *)
FilesApart ==
    \A n, m \in Notes : n # m /\ files[n].stamp # 0 => files[n].stamp # files[m].stamp

(* What an editor, a rename and a respelling do to the vault.               *)
FilesChange ==
    /\ clock' = clock + 1 /\ files' = [n \in Notes |-> files'[n]]
    /\ \A n \in Notes : \/ files'[n] = [stamp |-> clock + 1, body |-> files'[n].body]
                        \/ files'[n] = NoText
                        \/ \E k \in Notes : files'[n] = files[k]
    /\ \A n, m \in Notes : n # m /\ files'[n].stamp # 0 => files'[n].stamp # files'[m].stamp
    /\ clean' = [p \in Passers |-> FALSE] /\ settled' = FALSE
    /\ UNCHANGED <<store, walker, scan, missed, toRead, batch, moved, gone, disturbed, torn>>

(* What the passes and the index are made of.                               *)
indexVars == <<files, clock, rows, edges, walker, scan, missed, toRead, batch, moved, gone,
               clean, settled, disturbed, torn>>

\* One note gets a text of its own, or none.
LEMMA OneFileChanges ==
  ASSUME IndexTyped, FilesApart, NEW n \in Notes, NEW entry,
         entry = [stamp |-> clock + 1, body |-> entry.body] \/ entry = NoText,
         clock' = clock + 1, Changed([files EXCEPT ![n] = entry]),
         UNCHANGED <<store, walker, scan, missed, toRead, batch, moved, gone, disturbed, torn>>
  PROVE  FilesChange
  <1>1. files' = [m \in Notes |-> IF m = n THEN entry ELSE files[m]]
    BY DEF Changed, IndexTyped, StoreTyped, IsTable
  <1>2. clock \in Nat /\ \A m \in Notes : files[m].stamp \in 0..clock
    BY DEF IndexTyped, StoreTyped, IsTable, Entry
  <1>3. entry.stamp \in {0, clock + 1}
    BY DEF NoText
  <1>4. \A k, m \in Notes : k # m /\ files'[k].stamp # 0 => files'[k].stamp # files'[m].stamp
    BY <1>1, <1>2, <1>3 DEF FilesApart
  <1>5. \A m \in Notes : \/ files'[m] = [stamp |-> clock + 1, body |-> files'[m].body]
                         \/ files'[m] = NoText
                         \/ \E k \in Notes : files'[m] = files[k]
    BY <1>1
  <1>6. files' = [m \in Notes |-> files'[m]]
    BY <1>1
  <1>7. QED
    BY <1>4, <1>5, <1>6 DEF FilesChange, Changed

\* The steps outside the passes: a change of the notes, or nothing the index sees.
LEMMA StepsOfTheVault ==
  ASSUME IndexTyped, FilesApart,
         \/ Edit \/ RenameNote \/ Respell \/ LeaveMentions \/ ReadMentions \/ StampNote \/ WriteMentions
  PROVE  FilesChange \/ UNCHANGED indexVars
  <1>1. CASE Edit
    <2>1. PICK n \in Notes : \E entry \in TextsAt(n, clock + 1) \cup {NoText} :
                               Changed([files EXCEPT ![n] = entry])
      BY <1>1 DEF Edit
    <2>2. PICK entry \in TextsAt(n, clock + 1) \cup {NoText} : Changed([files EXCEPT ![n] = entry])
      BY <2>1
    <2>3. entry = [stamp |-> clock + 1, body |-> entry.body] \/ entry = NoText
      BY <2>2 DEF TextsAt
    <2>4. QED
      BY <1>1, <2>2, <2>3, OneFileChanges DEF Edit
  <1>2. CASE RenameNote
    <2>1. PICK was \in Present(files), new \in Notes \ Present(files) :
            Changed([files EXCEPT ![new] = files[was], ![was] = NoText])
      BY <1>2 DEF RenameNote
    <2>2. was \in Notes /\ new \in Notes /\ was # new
      BY <2>1 DEF Present
    <2>3. files' = [m \in Notes |-> IF m = was THEN NoText ELSE IF m = new THEN files[was] ELSE files[m]]
      BY <2>1, <2>2 DEF Changed, IndexTyped, StoreTyped, IsTable
    <2>4. NoText.stamp = 0
      BY DEF NoText
    <2>5. \A k, m \in Notes : k # m /\ files'[k].stamp # 0 => files'[k].stamp # files'[m].stamp
      BY <2>2, <2>3, <2>4 DEF FilesApart
    <2>6. \A m \in Notes : files'[m] = NoText \/ \E k \in Notes : files'[m] = files[k]
      BY <2>2, <2>3
    <2>7. files' = [m \in Notes |-> files'[m]]
      BY <2>3
    <2>8. QED
      BY <1>2, <2>1, <2>5, <2>6, <2>7 DEF FilesChange, Changed, RenameNote
  <1>3. CASE Respell \/ LeaveMentions \/ ReadMentions \/ StampNote
    BY <1>3 DEF Respell, LeaveMentions, ReadMentions, StampNote, store, passState, indexVars
  <1>4. CASE WriteMentions
    <2> DEFINE note == inHand[1]
               entry == [stamp |-> clock + 1, body |-> Respelled(inHand[3])]
    <2>1. CASE ~WritesIf(note, inHand[2])
      BY <1>4, <2>1 DEF WriteMentions, indexVars, store
    <2>2. CASE WritesIf(note, inHand[2])
      <3>1. /\ clock' = clock + 1 /\ Changed([files EXCEPT ![note] = entry])
            /\ UNCHANGED <<store, walker, scan, missed, toRead, batch, moved, gone, disturbed, torn>>
        BY <1>4, <2>2 DEF WriteMentions
      <3>2. CASE note \in Notes
        <4>1. entry = [stamp |-> clock + 1, body |-> entry.body]
          OBVIOUS
        <4> HIDE DEF note, entry
        <4>2. QED
          BY <3>1, <3>2, <4>1, OneFileChanges
      <3>3. CASE note \notin Notes
        <4>1. files' = files
          BY <3>1, <3>3 DEF Changed, IndexTyped, StoreTyped, IsTable
        <4>2. files = [m \in Notes |-> files[m]]
          BY DEF IndexTyped, StoreTyped, IsTable
        <4>3. QED
          BY <3>1, <4>1, <4>2 DEF FilesChange, FilesApart, Changed
      <3>4. QED
        BY <3>2, <3>3
    <2>3. QED
      BY <2>1, <2>2
  <1>5. QED
    BY <1>1, <1>2, <1>3, <1>4

\* What a change of the vault leaves of the types.
LEMMA ChangeTyped ==
  ASSUME IndexTyped, FilesChange
  PROVE  IndexTyped'
  <1>1. clock \in Nat /\ clock' \in Nat \ {0} /\ clock' >= clock /\ clock' = clock + 1
    BY DEF IndexTyped, StoreTyped, FilesChange
  <1>2. IsTable(rows)'
    BY <1>1 DEF IsTable, Entry, IndexTyped, StoreTyped, FilesChange, store
  <1>3. \A p \in Passers : IsTable(batch[p])'
    BY <1>1 DEF IsTable, Entry, IndexTyped, FindingsTyped, FilesChange
  <1>4. IsTable(files)'
    BY <1>1 DEF IsTable, Entry, NoText, IndexTyped, StoreTyped, FilesChange
  <1>5. scan' \in [Passers -> [Notes -> 0..clock']]
    BY <1>1 DEF IndexTyped, WalksTyped, FilesChange
  <1>6. StoreTyped'
    BY <1>1, <1>2, <1>4 DEF IndexTyped, StoreTyped, FilesChange, store
  <1>7. WalksTyped'
    BY <1>5 DEF IndexTyped, WalksTyped, FilesChange
  <1>8. FindingsTyped'
    BY <1>3 DEF IndexTyped, FindingsTyped, FilesChange
  <1>9. QED
    BY <1>6, <1>7, <1>8 DEF IndexTyped

(* A pass has only at hand what its stage needs.                            *)
PassesTidy ==
    \A p \in Passers :
        /\ \A n \in toRead[p] : scan[p][n] # 0
        /\ \A n \in Notes : batch[p][n].stamp \in {0, scan[p][n]}
        /\ walker[p] # "reading" => toRead[p] = {} /\ \A n \in Notes : batch[p][n] = NoText
        /\ gone[p] # Nobody => walker[p] = "removing"

\* A pass that ends forgets what it had.
LEMMA FreshTyped ==
  ASSUME IndexTyped, NEW p \in Passers, Fresh(p), StoreTyped', clock' = clock
  PROVE  IndexTyped'
  <1>1. \A n \in Notes : 0 \in 0..clock
    BY DEF IndexTyped, StoreTyped
  <1>2. IsTable([n \in Notes |-> NoText])
    BY <1>1 DEF IsTable, Entry, NoText
  <1>3. WalksTyped'
    BY <1>1 DEF IndexTyped, WalksTyped, Fresh, Stations
  <1>4. clean' \in [Passers -> BOOLEAN] /\ moved' \in [Passers -> BOOLEAN]
        /\ gone' \in [Passers -> Notes \cup {Nobody}]
    BY DEF IndexTyped, FindingsTyped, Fresh
  <1>5. batch' = [q \in Passers |-> IF q = p THEN [n \in Notes |-> NoText] ELSE batch[q]]
    BY DEF IndexTyped, FindingsTyped, Fresh
  <1>6. \A q \in Passers : IsTable(batch[q])'
    BY <1>2, <1>5 DEF IndexTyped, FindingsTyped, IsTable, Entry
  <1>7. FindingsTyped'
    BY <1>4, <1>5, <1>6 DEF FindingsTyped
  <1>8. QED
    BY <1>3, <1>7 DEF IndexTyped

\* A pass leaves a table of entries behind.
LEMMA PassTyped ==
  ASSUME IndexTyped, PassesTidy, NEW p \in Passers,
         \/ Walk(p) \/ List(p) \/ ReadNote(p) \/ Upsert(p) \/ RemoveRow(p) \/ RemoveLinks(p)
         \/ RemovalDone(p) \/ PassEnds(p) \/ PassFails(p)
  PROVE  IndexTyped'
  <1> USE DEF IndexTyped
  <1>1. CASE Walk(p)
    <2>1. PICK kept \in Listings :
            /\ scan' = [scan EXCEPT ![p] = [n \in Notes |-> IF n \in kept THEN files[n].stamp ELSE 0]]
            /\ missed' = [missed EXCEPT ![p] = Present(files) \ kept]
      BY <1>1 DEF Walk
    <2>2. Present(files) \ kept \in SUBSET Notes
      BY DEF Present
    <2>3. \A n \in Notes : files[n].stamp \in 0..clock
      BY DEF StoreTyped, IsTable, Entry
    <2>4. clock' = clock /\ 0 \in 0..clock
      BY <1>1 DEF Walk, StoreTyped
    <2>5. scan' \in [Passers -> [Notes -> 0..clock']]
      BY <2>1, <2>3, <2>4 DEF WalksTyped
    <2>6. StoreTyped'
      BY <1>1 DEF Walk, StoreTyped, store, IsTable, Entry
    <2>7. WalksTyped'
      BY <1>1, <2>1, <2>2, <2>5 DEF Walk, WalksTyped, Stations
    <2>8. clean' \in [Passers -> BOOLEAN]
      BY <1>1 DEF Walk
    <2>9. FindingsTyped'
      BY <1>1, <2>4, <2>8 DEF Walk, FindingsTyped, IsTable, Entry
    <2>10. QED
      BY <2>6, <2>7, <2>9
  <1>2. CASE List(p)
    <2>1. (\E n \in Notes : Stale(p, n) /\ rows[n].stamp = 0) \in BOOLEAN
      OBVIOUS
    <2>2. moved' \in [Passers -> BOOLEAN]
      BY <1>2, <2>1 DEF List, FindingsTyped
    <2>3. StoreTyped'
      BY <1>2 DEF List, StoreTyped, store, IsTable, Entry
    <2>4. WalksTyped'
      BY <1>2 DEF List, WalksTyped, Stations
    <2>5. FindingsTyped'
      BY <1>2, <2>2 DEF List, FindingsTyped, IsTable, Entry
    <2>6. QED
      BY <2>3, <2>4, <2>5
  <1>3. CASE ReadNote(p)
    <2> DEFINE n == First(toRead[p])
    <2>1. n \in Notes
      BY <1>3, FirstIsIn DEF ReadNote, WalksTyped
    <2>2. scan[p][n] \in 0..clock /\ scan[p][n] # 0
      BY <1>3, <2>1, FirstIsIn DEF ReadNote, WalksTyped, PassesTidy
    <2>3. \/ batch' = batch
          \/ batch' = [batch EXCEPT ![p][n] = [stamp |-> scan[p][n], body |-> files[n].body]]
      BY <1>3 DEF ReadNote
    <2>4. StoreTyped'
      BY <1>3 DEF ReadNote, StoreTyped, store, IsTable, Entry
    <2>5. WalksTyped'
      BY <1>3 DEF ReadNote, WalksTyped
    <2>6. clean' \in [Passers -> BOOLEAN]
      BY <1>3 DEF ReadNote, FindingsTyped
    <2>7. clock' = clock /\ moved' = moved /\ gone' = gone
      BY <1>3 DEF ReadNote
    <2> HIDE DEF n
    <2>8. CASE batch' = batch
      BY <2>6, <2>7, <2>8, <2>4, <2>5 DEF FindingsTyped, IsTable, Entry
    <2>9. CASE batch' = [batch EXCEPT ![p][n] = [stamp |-> scan[p][n], body |-> files[n].body]]
      <3> DEFINE entry == [stamp |-> scan[p][n], body |-> files[n].body]
      <3>1. Entry(entry)
        BY <2>2 DEF Entry
      <3> HIDE DEF entry
      <3>2. batch' = [q \in Passers |-> IF q = p THEN [m \in Notes |-> IF m = n THEN entry ELSE batch[p][m]]
                                         ELSE batch[q]]
        BY <2>1, <2>9 DEF FindingsTyped, IsTable, entry
      <3>3. \A q \in Passers : IsTable(batch[q])'
        BY <2>7, <3>1, <3>2 DEF FindingsTyped, IsTable, Entry
      <3>4. batch' = [q \in Passers |-> batch'[q]]
        BY <3>2
      <3>5. QED
        BY <2>4, <2>5, <2>6, <2>7, <3>3, <3>4 DEF FindingsTyped
    <2>10. QED
      BY <2>3, <2>8, <2>9
  <1>4. CASE Upsert(p)
    <2>1. rows' = [n \in Notes |-> IF batch[p][n].stamp # 0 THEN batch[p][n] ELSE rows[n]]
          /\ edges' = [n \in Notes |-> edges'[n]]
      BY <1>4 DEF Upsert
    <2>2. clock' = clock /\ files' = files /\ settled' = settled /\ disturbed' = disturbed
      BY <1>4 DEF Upsert
    <2>3. IsTable(rows)'
      BY <2>1, <2>2 DEF StoreTyped, FindingsTyped, IsTable, Entry
    <2>4. StoreTyped'
      BY <2>1, <2>2, <2>3 DEF StoreTyped, IsTable, Entry
    <2>5. WalksTyped'
      BY <1>4 DEF Upsert, WalksTyped, Stations
    <2>6. batch' = [q \in Passers |-> IF q = p THEN [n \in Notes |-> NoText] ELSE batch[q]]
      BY <1>4 DEF Upsert, FindingsTyped
    <2>7. IsTable([n \in Notes |-> NoText])
      BY DEF IsTable, Entry, NoText, StoreTyped
    <2>8. \A q \in Passers : IsTable(batch[q])'
      BY <2>2, <2>6, <2>7 DEF FindingsTyped, IsTable, Entry
    <2>9. FindingsTyped'
      BY <1>4, <2>6, <2>8 DEF Upsert, FindingsTyped
    <2>10. QED
      BY <2>4, <2>5, <2>9
  <1>5. CASE RemoveRow(p)
    <2> DEFINE n == First(Missing(p))
    <2>1. n \in Notes
      BY <1>5, FirstIsIn DEF RemoveRow, Missing, Present
    <2>2. rows' = [rows EXCEPT ![n] = NoText] /\ gone' = [gone EXCEPT ![p] = n]
      BY <1>5 DEF RemoveRow
    <2> HIDE DEF n
    <2>3. rows' = [m \in Notes |-> IF m = n THEN NoText ELSE rows[m]]
      BY <2>2 DEF StoreTyped, IsTable
    <2>4. clock' = clock
      BY <1>5 DEF RemoveRow
    <2>5. IsTable(rows)'
      <3>1. NoText = [stamp |-> NoText.stamp, body |-> NoText.body] /\ NoText.stamp \in 0..clock
        BY DEF NoText, StoreTyped
      <3>2. QED
        BY <2>3, <2>4, <3>1 DEF StoreTyped, IsTable, Entry
    <2>6. StoreTyped'
      BY <1>5, <2>5 DEF RemoveRow, StoreTyped, IsTable, Entry
    <2>7. WalksTyped'
      BY <1>5 DEF RemoveRow, WalksTyped
    <2>8. FindingsTyped'
      BY <1>5, <2>1, <2>2 DEF RemoveRow, FindingsTyped, IsTable, Entry
    <2>9. QED
      BY <2>6, <2>7, <2>8
  <1>6. CASE RemoveLinks(p)
    <2>1. StoreTyped'
      BY <1>6 DEF RemoveLinks, StoreTyped, IsTable, Entry
    <2>2. WalksTyped'
      BY <1>6 DEF RemoveLinks, WalksTyped
    <2>3. FindingsTyped'
      BY <1>6 DEF RemoveLinks, FindingsTyped, IsTable, Entry
    <2>4. QED
      BY <2>1, <2>2, <2>3
  <1>7. CASE RemovalDone(p)
    <2>1. StoreTyped'
      BY <1>7 DEF RemovalDone, StoreTyped, IsTable, Entry, store
    <2>2. WalksTyped'
      BY <1>7 DEF RemovalDone, WalksTyped, Stations
    <2>3. FindingsTyped'
      BY <1>7 DEF RemovalDone, FindingsTyped, IsTable, Entry
    <2>4. QED
      BY <2>1, <2>2, <2>3
  <1>8. CASE PassEnds(p)
    <2>1. edges' = [n \in Notes |-> edges'[n]]
      BY <1>8 DEF PassEnds, ResolvedAgain, StoreTyped
    <2>2. settled' \in BOOLEAN
      BY <1>8, Zenon DEF PassEnds
    <2>3. StoreTyped'
      BY <1>8, <2>1, <2>2 DEF PassEnds, StoreTyped, IsTable, Entry
    <2>4. QED
      BY <1>8, <2>3, FreshTyped DEF PassEnds
  <1>9. CASE PassFails(p)
    <2>1. StoreTyped'
      BY <1>9 DEF PassFails, StoreTyped, IsTable, Entry, store
    <2>2. QED
      BY <1>9, <2>1, FreshTyped DEF PassFails
  <1>10. QED
    BY <1>1, <1>2, <1>3, <1>4, <1>5, <1>6, <1>7, <1>8, <1>9

\* Nothing is at hand before the first pass.
LEMMA TidyInit == VaultInit => PassesTidy
  BY DEF VaultInit, PassesTidy, NoText

\* A change of the vault takes nothing from a pass.
LEMMA TidyStays ==
  ASSUME PassesTidy, UNCHANGED <<walker, scan, toRead, batch, gone>>
  PROVE  PassesTidy'
  BY DEF PassesTidy

\* A pass that ends has nothing at hand.
LEMMA TidyFresh ==
  ASSUME IndexTyped, PassesTidy, NEW p \in Passers, Fresh(p)
  PROVE  PassesTidy'
  BY DEF PassesTidy, Fresh, IndexTyped, WalksTyped, FindingsTyped, NoText

\* A pass has what its next stage needs.
LEMMA TidyNext ==
  ASSUME IndexTyped, PassesTidy, NEW p \in Passers,
         \/ Walk(p) \/ List(p) \/ ReadNote(p) \/ Upsert(p) \/ RemoveRow(p) \/ RemoveLinks(p)
         \/ RemovalDone(p) \/ PassEnds(p) \/ PassFails(p)
  PROVE  PassesTidy'
  <1> USE DEF IndexTyped, WalksTyped, FindingsTyped
  <1>1. CASE Walk(p)
    <2>1. PICK kept \in Listings :
            scan' = [scan EXCEPT ![p] = [n \in Notes |-> IF n \in kept THEN files[n].stamp ELSE 0]]
      BY <1>1 DEF Walk
    <2>2. toRead[p] = {} /\ gone[p] = Nobody /\ \A n \in Notes : batch[p][n] = NoText
      BY <1>1 DEF PassesTidy, Walk, Running
    <2>3. QED
      BY <1>1, <2>1, <2>2 DEF Walk, PassesTidy, NoText
  <1>2. CASE List(p)
    BY <1>2 DEF List, PassesTidy, Stale
  <1>3. CASE ReadNote(p)
    <2> DEFINE n == First(toRead[p])
    <2>1. n \in Notes
      BY <1>3, FirstIsIn DEF ReadNote
    <2>2. \/ batch' = batch
          \/ batch' = [batch EXCEPT ![p][n] = [stamp |-> scan[p][n], body |-> files[n].body]]
      BY <1>3 DEF ReadNote
    <2>3. /\ toRead' = [toRead EXCEPT ![p] = toRead[p] \ {n}] /\ walker[p] = "reading"
          /\ scan' = scan /\ walker' = walker /\ gone' = gone
      BY <1>3 DEF ReadNote
    <2> HIDE DEF n
    <2>4. \A q \in Passers, m \in Notes :
            batch'[q][m] = batch[q][m] \/ (q = p /\ batch'[q][m].stamp = scan[q][m])
      BY <2>1, <2>2 DEF IsTable
    <2>5. ASSUME NEW q \in Passers
          PROVE  /\ \A m \in toRead'[q] : scan'[q][m] # 0
                 /\ walker'[q] # "reading" => toRead'[q] = {}
                 /\ gone'[q] # Nobody => walker'[q] = "removing"
      BY <2>3 DEF PassesTidy
    <2>6. ASSUME NEW q \in Passers, NEW m \in Notes
          PROVE  /\ batch'[q][m].stamp \in {0, scan'[q][m]}
                 /\ walker'[q] # "reading" => batch'[q][m] = NoText
      <3>1. batch[q][m].stamp \in {0, scan[q][m]} /\ (walker[q] # "reading" => batch[q][m] = NoText)
        BY DEF PassesTidy
      <3>2. batch'[q][m] = batch[q][m] \/ (q = p /\ batch'[q][m].stamp = scan[q][m])
        BY <2>4
      <3>3. walker' = walker /\ scan' = scan /\ walker[p] = "reading"
        BY <2>3
      <3>4. CASE batch'[q][m] = batch[q][m]
        BY <3>1, <3>3, <3>4
      <3>5. CASE q = p /\ batch'[q][m].stamp = scan[q][m]
        BY <3>3, <3>5
      <3>6. QED
        BY <3>2, <3>4, <3>5
    <2>7. QED
      BY <2>5, <2>6 DEF PassesTidy
  <1>4. CASE Upsert(p)
    BY <1>4 DEF Upsert, PassesTidy, NoText
  <1>5. CASE RemoveRow(p)
    BY <1>5 DEF RemoveRow, PassesTidy
  <1>6. CASE RemoveLinks(p)
    BY <1>6 DEF RemoveLinks, PassesTidy
  <1>7. CASE RemovalDone(p)
    BY <1>7 DEF RemovalDone, PassesTidy
  <1>8. CASE PassEnds(p)
    BY <1>8, TidyFresh DEF PassEnds
  <1>9. CASE PassFails(p)
    BY <1>9, TidyFresh DEF PassFails
  <1>10. QED
    BY <1>1, <1>2, <1>3, <1>4, <1>5, <1>6, <1>7, <1>8, <1>9

(* A text filed under the stamp of a note that is on disk is that note's,   *)
(* unless it was read after another change.                                 *)
FiledAs(t) ==
    \A n, m \in Notes : t[n].stamp # 0 /\ t[n].stamp = files[m].stamp =>
        t[n].body = files[m].body \/ <<n, t[n].stamp>> \in torn
TextsFiled == FiledAs(rows) /\ \A p \in Passers : FiledAs(batch[p])

\* Nothing is filed at first.
LEMMA FiledInit == VaultInit => TextsFiled /\ FilesApart
  <1> SUFFICES ASSUME VaultInit PROVE TextsFiled /\ FilesApart
    OBVIOUS
  <1>1. TextsFiled
    BY DEF VaultInit, TextsFiled, FiledAs, NoText
  <1>2. PICK n \in Notes : \E entry \in TextsAt(n, 1) :
            files = [m \in Notes |-> IF m = n THEN entry ELSE NoText]
    BY DEF VaultInit
  <1>3. FilesApart
    BY <1>2 DEF FilesApart, TextsAt, NoText
  <1>4. QED
    BY <1>1, <1>3

\* A new stamp is nobody's, a note that moves takes its text along.
LEMMA FiledStays ==
  ASSUME IndexTyped, TextsFiled, FilesChange
  PROVE  TextsFiled' /\ FilesApart'
  <1>1. clock \in Nat /\ \A n \in Notes : rows[n].stamp \in 0..clock
        /\ \A p \in Passers : batch[p][n].stamp \in 0..clock
    BY DEF IndexTyped, StoreTyped, FindingsTyped, IsTable, Entry
  <1>2. ASSUME NEW m \in Notes
        PROVE  \/ files'[m].stamp \in {0, clock + 1}
               \/ \E k \in Notes : files'[m] = files[k]
    BY DEF FilesChange, NoText
  <1>3. ASSUME NEW t, FiledAs(t), \A n \in Notes : t[n].stamp \in 0..clock, NEW n \in Notes, NEW m \in Notes,
               t[n].stamp # 0, t[n].stamp = files'[m].stamp
        PROVE  t[n].body = files'[m].body \/ <<n, t[n].stamp>> \in torn
    <2>1. PICK k \in Notes : files'[m] = files[k]
      BY <1>1, <1>2, <1>3
    <2>2. QED
      BY <1>3, <2>1 DEF FiledAs
  <1>4. rows' = rows /\ batch' = batch /\ torn' = torn
    BY DEF FilesChange, store
  <1>5. FiledAs(rows)'
    BY <1>1, <1>3, <1>4 DEF TextsFiled, FiledAs
  <1>6. \A p \in Passers : FiledAs(batch[p])'
    BY <1>1, <1>3, <1>4 DEF TextsFiled, FiledAs
  <1>7. FilesApart'
    BY DEF FilesApart, FilesChange
  <1>8. QED
    BY <1>5, <1>6, <1>7 DEF TextsFiled

\* A pass files what it reads, and says when that was torn.
LEMMA FiledNext ==
  ASSUME IndexTyped, TextsFiled, FilesApart, NEW p \in Passers,
         \/ Walk(p) \/ List(p) \/ ReadNote(p) \/ Upsert(p) \/ RemoveRow(p) \/ RemoveLinks(p)
         \/ RemovalDone(p) \/ PassEnds(p) \/ PassFails(p)
  PROVE  TextsFiled' /\ FilesApart'
  <1>1. files' = files
    BY DEF Walk, List, ReadNote, Upsert, RemoveRow, RemoveLinks, RemovalDone, PassEnds, PassFails
  <1>2. FilesApart'
    BY <1>1 DEF FilesApart
  <1>3. CASE Walk(p) \/ List(p) \/ RemoveLinks(p) \/ RemovalDone(p)
    BY <1>1, <1>2, <1>3 DEF Walk, List, RemoveLinks, RemovalDone, store, TextsFiled, FiledAs
  <1>4. CASE ReadNote(p)
    <2> DEFINE n == First(toRead[p])
    <2>1. n \in Notes
      BY <1>4, FirstIsIn DEF ReadNote, IndexTyped, WalksTyped
    <2>2. CASE files[n].stamp = 0
      BY <1>1, <1>2, <1>4, <2>2 DEF ReadNote, store, TextsFiled, FiledAs
    <2>3. CASE files[n].stamp # 0
      <3>1. /\ batch' = [batch EXCEPT ![p][n] = [stamp |-> scan[p][n], body |-> files[n].body]]
            /\ torn' = IF files[n].stamp = scan[p][n] THEN torn ELSE torn \cup {<<n, scan[p][n]>>}
            /\ rows' = rows
        BY <1>4, <2>3 DEF ReadNote, store
      <3> HIDE DEF n
      <3>2. \A q \in Passers, m \in Notes :
              batch'[q][m] = IF q = p /\ m = n
                             THEN [stamp |-> scan[p][n], body |-> files[n].body] ELSE batch[q][m]
        BY <2>1, <3>1 DEF IndexTyped, FindingsTyped, IsTable
      <3>3. \A x \in torn : x \in torn'
        BY <3>1
      <3>4. FiledAs(rows)'
        BY <1>1, <3>1, <3>3 DEF TextsFiled, FiledAs
      <3>5. ASSUME NEW q \in Passers, NEW k \in Notes, NEW m \in Notes,
                   batch'[q][k].stamp # 0, batch'[q][k].stamp = files[m].stamp
            PROVE  batch'[q][k].body = files[m].body \/ <<k, batch'[q][k].stamp>> \in torn'
        <4>1. CASE q = p /\ k = n
          <5>1. batch'[q][k] = [stamp |-> scan[p][n], body |-> files[n].body]
            BY <3>2, <4>1
          <5>2. CASE files[n].stamp = scan[p][n]
            <6>1. m = n
              BY <2>1, <3>5, <5>1, <5>2 DEF FilesApart
            <6>2. QED
              BY <5>1, <6>1
          <5>3. CASE files[n].stamp # scan[p][n]
            BY <3>1, <4>1, <5>1, <5>3
          <5>4. QED
            BY <5>2, <5>3
        <4>2. CASE ~(q = p /\ k = n)
          <5>1. batch'[q][k] = batch[q][k]
            BY <3>2, <4>2
          <5>2. FiledAs(batch[q])
            BY DEF TextsFiled
          <5>3. QED
            BY <3>3, <3>5, <5>1, <5>2 DEF FiledAs
        <4>3. QED
          BY <4>1, <4>2
      <3>6. \A q \in Passers : FiledAs(batch[q])'
        BY <1>1, <3>5 DEF FiledAs
      <3>7. QED
        BY <1>2, <3>4, <3>6 DEF TextsFiled
    <2>4. QED
      BY <2>2, <2>3
  <1>5. CASE Upsert(p)
    <2>1. rows' = [n \in Notes |-> IF batch[p][n].stamp # 0 THEN batch[p][n] ELSE rows[n]] /\ torn' = torn
      BY <1>5 DEF Upsert
    <2>2. batch' = [q \in Passers |-> IF q = p THEN [n \in Notes |-> NoText] ELSE batch[q]]
      BY <1>5 DEF Upsert, IndexTyped, FindingsTyped
    <2>3. FiledAs(rows)'
      BY <1>1, <2>1 DEF TextsFiled, FiledAs
    <2>4. \A q \in Passers : FiledAs(batch[q])'
      BY <1>1, <2>1, <2>2 DEF TextsFiled, FiledAs, NoText
    <2>5. QED
      BY <1>2, <2>3, <2>4 DEF TextsFiled
  <1>6. CASE RemoveRow(p)
    <2>1. \A n \in Notes : rows'[n] \in {rows[n], NoText}
      BY <1>6 DEF RemoveRow, IndexTyped, StoreTyped, IsTable
    <2>2. batch' = batch /\ torn' = torn /\ NoText.stamp = 0
      BY <1>6 DEF RemoveRow, NoText
    <2>3. FiledAs(rows)'
      BY <1>1, <2>1, <2>2 DEF TextsFiled, FiledAs
    <2>4. QED
      BY <1>1, <1>2, <2>2, <2>3 DEF TextsFiled, FiledAs
  <1>7. CASE PassEnds(p) \/ PassFails(p)
    <2>1. rows' = rows /\ torn' = torn
          /\ batch' = [q \in Passers |-> IF q = p THEN [n \in Notes |-> NoText] ELSE batch[q]]
      BY <1>7 DEF PassEnds, PassFails, Fresh, IndexTyped, FindingsTyped, store
    <2>2. \A q \in Passers : FiledAs(batch[q])'
      BY <1>1, <2>1 DEF TextsFiled, FiledAs, NoText
    <2>3. QED
      BY <1>1, <1>2, <2>1, <2>2 DEF TextsFiled, FiledAs
  <1>8. QED
    BY <1>3, <1>4, <1>5, <1>6, <1>7

(* A pass that is alone over a vault that holds still, and met every note,  *)
(* brings row after row to what it saw.                                     *)
Sure(p) == clean[p] /\ missed[p] = {}
OneIsClean == \A p \in Passers : clean[p] => Running(p) /\ \A q \in Passers : Running(q) => q = p
SureSees ==
    \A p \in Passers : Sure(p) => \A n \in Notes :
        /\ scan[p][n] = files[n].stamp
        /\ walker[p] = "reading" /\ scan[p][n] # 0 =>
             rows[n].stamp = scan[p][n] \/ n \in toRead[p] \/ batch[p][n].stamp = scan[p][n]
        /\ walker[p] \in {"removing", "pruning"} => scan[p][n] \in {0, rows[n].stamp}
        /\ walker[p] = "pruning" /\ scan[p][n] = 0 => rows[n].stamp = 0
SettledAgrees ==
    settled => (\A p \in Passers : ~Running(p)) /\ \A n \in Notes : rows[n].stamp = files[n].stamp
PassesAgree == OneIsClean /\ SureSees /\ SettledAgrees

\* No pass has seen anything at first, and no pass is sure once a note changed.
LEMMA AgreeInit == VaultInit => PassesAgree
  <1> SUFFICES ASSUME VaultInit PROVE PassesAgree
    OBVIOUS
  <1>1. settled = FALSE /\ \A p \in Passers : clean[p] = FALSE
    BY DEF VaultInit
  <1>2. QED
    BY <1>1 DEF PassesAgree, OneIsClean, SureSees, SettledAgrees, Sure

\* No pass is sure of what it saw once a note has changed.
LEMMA AgreeChange ==
  ASSUME FilesChange
  PROVE  PassesAgree'
  <1>1. settled' = FALSE /\ \A p \in Passers : clean'[p] = FALSE
    BY DEF FilesChange
  <1>2. QED
    BY <1>1 DEF PassesAgree, OneIsClean, SureSees, SettledAgrees, Sure

\* A pass that ends was the only one that could be clean.
LEMMA AgreeFresh ==
  ASSUME IndexTyped, PassesAgree, NEW p \in Passers, Running(p), Fresh(p)
  PROVE  OneIsClean' /\ SureSees'
  <1>1. \A q \in Passers : clean[q] => q = p
    BY DEF PassesAgree, OneIsClean
  <1>2. \A q \in Passers : clean'[q] = FALSE
    BY <1>1 DEF Fresh, IndexTyped, FindingsTyped
  <1>3. QED
    BY <1>2 DEF OneIsClean, SureSees, Sure

\* A step of a pass brings the rows nearer to what it saw.
LEMMA AgreeNext ==
  ASSUME IndexTyped, PassesTidy, PassesAgree, NEW p \in Passers,
         \/ Walk(p) \/ List(p) \/ ReadNote(p) \/ Upsert(p) \/ RemoveRow(p) \/ RemoveLinks(p)
         \/ RemovalDone(p) \/ PassEnds(p) \/ PassFails(p)
  PROVE  PassesAgree'
  <1>1. CASE Walk(p)
    <2>1. PICK kept \in Listings :
            /\ scan' = [scan EXCEPT ![p] = [n \in Notes |-> IF n \in kept THEN files[n].stamp ELSE 0]]
            /\ missed' = [missed EXCEPT ![p] = Present(files) \ kept]
      BY <1>1 DEF Walk
    <2>2. /\ clean' = [q \in Passers |-> q = p /\ \A other \in Passers : ~Running(other)]
          /\ walker' = [walker EXCEPT ![p] = "listed"] /\ settled' = FALSE /\ files' = files
      BY <1>1 DEF Walk
    <2>3. OneIsClean'
      BY <2>2 DEF OneIsClean, Running, IndexTyped, WalksTyped
    <2>4. ASSUME NEW q \in Passers, Sure(q)', NEW n \in Notes
          PROVE  q = p /\ walker'[q] = "listed" /\ scan'[q][n] = files'[n].stamp
      <3>1. q = p
        BY <2>2, <2>4 DEF Sure
      <3>2. walker'[q] = "listed"
        BY <2>2, <3>1 DEF IndexTyped, WalksTyped
      <3>3. missed'[p] = Present(files) \ kept /\ missed'[p] = {}
        BY <2>1, <2>4, <3>1 DEF IndexTyped, WalksTyped, Sure
      <3>4. files[n].stamp = 0 \/ n \in kept
        BY <3>3 DEF Present
      <3>5. scan'[p][n] = IF n \in kept THEN files[n].stamp ELSE 0
        BY <2>1 DEF IndexTyped, WalksTyped
      <3>6. QED
        BY <2>2, <3>1, <3>2, <3>4, <3>5
    <2>5. SureSees'
      BY <2>4 DEF SureSees
    <2>6. QED
      BY <2>2, <2>3, <2>5 DEF PassesAgree, SettledAgrees
  <1>2. ASSUME Running(p)
        PROVE  settled = FALSE /\ \A q \in Passers : clean[q] => q = p
    BY <1>2 DEF PassesAgree, SettledAgrees, OneIsClean, IndexTyped, StoreTyped
  <1>3. CASE List(p)
    <2>1. Running(p)
      BY <1>3 DEF List, Running
    <2>2. settled' = FALSE
      BY <1>2, <1>3, <2>1 DEF List
    <2>3. walker' = [walker EXCEPT ![p] = "reading"] /\ clean' = clean /\ missed' = missed
          /\ scan' = scan /\ files' = files /\ toRead' = [toRead EXCEPT ![p] = {n \in Notes : Stale(p, n)}]
          /\ rows' = rows
      BY <1>3 DEF List, store
    <2>4. OneIsClean'
      BY <1>2, <2>1, <2>3 DEF PassesAgree, OneIsClean, Running, IndexTyped, WalksTyped
    <2>5. SureSees'
      BY <1>2, <2>1, <2>3 DEF PassesAgree, SureSees, Sure, Stale, IndexTyped, WalksTyped
    <2>6. QED
      BY <2>2, <2>4, <2>5 DEF PassesAgree, SettledAgrees
  <1>4. CASE ReadNote(p)
    <2> DEFINE n == First(toRead[p])
    <2>1. n \in Notes
      BY <1>4, FirstIsIn DEF ReadNote, IndexTyped, WalksTyped
    <2>2. Running(p) /\ walker[p] = "reading"
      BY <1>4 DEF ReadNote, Running
    <2>3. settled' = FALSE
      BY <1>2, <1>4, <2>2 DEF ReadNote
    <2>4. /\ walker' = walker /\ missed' = missed /\ scan' = scan /\ files' = files /\ rows' = rows
          /\ toRead' = [toRead EXCEPT ![p] = toRead[p] \ {n}]
      BY <1>4 DEF ReadNote, store
    <2>5. \A q \in Passers : clean'[q] => clean[q]
      BY <1>4 DEF ReadNote, IndexTyped, FindingsTyped
    <2>6. ~clean'[p] \/ batch' = [batch EXCEPT ![p][n] = [stamp |-> scan[p][n], body |-> files[n].body]]
      BY <1>4 DEF ReadNote, IndexTyped, FindingsTyped
    <2> HIDE DEF n
    <2>7. OneIsClean'
      BY <2>4, <2>5 DEF PassesAgree, OneIsClean, Running
    <2>8. ASSUME NEW q \in Passers, Sure(q)', NEW m \in Notes
          PROVE  /\ q = p /\ scan[p][m] = files[m].stamp
                 /\ scan[p][m] # 0 =>
                      rows[m].stamp = scan[p][m] \/ m \in toRead'[p] \/ batch'[p][m].stamp = scan[p][m]
      <3>1. q = p /\ Sure(p)
        BY <1>2, <2>2, <2>4, <2>5, <2>8 DEF Sure
      <3>2. batch' = [batch EXCEPT ![p][n] = [stamp |-> scan[p][n], body |-> files[n].body]]
        BY <2>6, <2>8, <3>1 DEF Sure
      <3>3. batch'[p][m].stamp = IF m = n THEN scan[p][n] ELSE batch[p][m].stamp
        BY <2>1, <3>2 DEF IndexTyped, FindingsTyped, IsTable
      <3>4. m \in toRead[p] => m = n \/ m \in toRead'[p]
        BY <2>4 DEF IndexTyped, WalksTyped
      <3>5. /\ scan[p][m] = files[m].stamp
            /\ scan[p][m] # 0 =>
                 rows[m].stamp = scan[p][m] \/ m \in toRead[p] \/ batch[p][m].stamp = scan[p][m]
        BY <2>2, <3>1 DEF PassesAgree, SureSees
      <3>6. QED
        BY <3>1, <3>3, <3>4, <3>5
    <2>9. SureSees'
      BY <2>2, <2>4, <2>8 DEF SureSees
    <2>10. QED
      BY <2>3, <2>7, <2>9 DEF PassesAgree, SettledAgrees
  <1>5. CASE Upsert(p)
    <2>1. Running(p) /\ walker[p] = "reading" /\ toRead[p] = {}
      BY <1>5 DEF Upsert, Running
    <2>2. settled' = FALSE
      BY <1>2, <1>5, <2>1 DEF Upsert
    <2>3. /\ missed' = missed /\ scan' = scan /\ files' = files /\ clean' = clean
          /\ walker' = [walker EXCEPT ![p] = IF Truncated(p) THEN "pruning" ELSE "removing"]
          /\ rows' = [n \in Notes |-> IF batch[p][n].stamp # 0 THEN batch[p][n] ELSE rows[n]]
      BY <1>5 DEF Upsert
    <2>4. OneIsClean'
      BY <1>2, <2>1, <2>3 DEF PassesAgree, OneIsClean, Running, IndexTyped, WalksTyped
    <2>5. ASSUME NEW q \in Passers, Sure(q)', NEW n \in Notes
          PROVE  /\ q = p /\ scan[p][n] = files[n].stamp /\ walker'[p] = "removing"
                 /\ scan[p][n] \in {0, rows'[n].stamp}
      <3>1. q = p /\ Sure(p)
        BY <1>2, <2>1, <2>3, <2>5 DEF Sure
      <3>2. walker'[p] = "removing"
        BY <2>3, <3>1 DEF Sure, Truncated, IndexTyped, WalksTyped
      <3>3. batch[p][n].stamp \in {0, scan[p][n]}
        BY DEF PassesTidy
      <3>4. /\ scan[p][n] = files[n].stamp
            /\ scan[p][n] # 0 => rows[n].stamp = scan[p][n] \/ batch[p][n].stamp = scan[p][n]
        BY <2>1, <3>1 DEF PassesAgree, SureSees
      <3>5. QED
        BY <2>3, <3>1, <3>2, <3>3, <3>4
    <2>6. SureSees'
      BY <2>3, <2>5 DEF SureSees
    <2>7. QED
      BY <2>2, <2>4, <2>6 DEF PassesAgree, SettledAgrees
  <1>6. CASE RemoveRow(p)
    <2> DEFINE n == First(Missing(p))
    <2>1. Running(p) /\ walker[p] = "removing"
      BY <1>6 DEF RemoveRow, Running
    <2>2. n \in Notes /\ scan[p][n] = 0
      BY <1>6, FirstIsIn DEF RemoveRow, Missing, Present
    <2>3. settled' = FALSE
      BY <1>2, <1>6, <2>1 DEF RemoveRow
    <2>4. /\ missed' = missed /\ scan' = scan /\ files' = files /\ clean' = clean /\ walker' = walker
          /\ rows' = [rows EXCEPT ![n] = NoText]
      BY <1>6 DEF RemoveRow
    <2> HIDE DEF n
    <2>5. \A m \in Notes : rows'[m] = IF m = n THEN NoText ELSE rows[m]
      BY <2>2, <2>4 DEF IndexTyped, StoreTyped, IsTable
    <2>6. OneIsClean'
      BY <2>4 DEF PassesAgree, OneIsClean, Running
    <2>7. SureSees'
      BY <1>2, <2>1, <2>2, <2>4, <2>5 DEF PassesAgree, SureSees, Sure
    <2>8. QED
      BY <2>3, <2>6, <2>7 DEF PassesAgree, SettledAgrees
  <1>7. CASE RemoveLinks(p)
    <2>1. Running(p)
      BY <1>7 DEF RemoveLinks, Running
    <2>2. settled' = FALSE
      BY <1>2, <1>7, <2>1 DEF RemoveLinks
    <2>3. UNCHANGED <<files, rows, walker, scan, missed, toRead, batch, clean>>
      BY <1>7 DEF RemoveLinks
    <2>4. QED
      BY <2>2, <2>3 DEF PassesAgree, OneIsClean, SureSees, SettledAgrees, Sure, Running
  <1>8. CASE RemovalDone(p)
    <2>1. Running(p) /\ walker[p] = "removing"
      BY <1>8 DEF RemovalDone, Running
    <2>2. settled' = FALSE
      BY <1>2, <1>8, <2>1 DEF RemovalDone
    <2>3. UNCHANGED <<files, rows, scan, missed, toRead, batch, clean>>
          /\ walker' = [walker EXCEPT ![p] = "pruning"]
      BY <1>8 DEF RemovalDone, store
    <2>4. OneIsClean'
      BY <1>2, <2>1, <2>3 DEF PassesAgree, OneIsClean, Running, IndexTyped, WalksTyped
    <2>5. \A n \in Notes : scan[p][n] = 0 => rows[n].stamp = 0
      BY <1>8 DEF RemovalDone, Missing, Present
    <2>6. SureSees'
      BY <1>2, <2>1, <2>3, <2>5 DEF PassesAgree, SureSees, Sure, IndexTyped, WalksTyped
    <2>7. QED
      BY <2>2, <2>4, <2>6 DEF PassesAgree, SettledAgrees
  <1>9. CASE PassEnds(p)
    <2>1. Running(p) /\ walker[p] = "pruning" /\ Fresh(p)
      BY <1>9 DEF PassEnds, Running
    <2>2. rows' = rows /\ files' = files /\ (settled' => Sure(p))
      BY <1>9 DEF PassEnds, Sure, Truncated
    <2>3. ASSUME settled'
          PROVE  (\A q \in Passers : ~Running(q)') /\ \A n \in Notes : rows[n].stamp = files[n].stamp
      <3>1. clean[p] /\ Sure(p)
        BY <2>2, <2>3 DEF Sure
      <3>2. \A q \in Passers : Running(q) => q = p
        BY <3>1 DEF PassesAgree, OneIsClean
      <3>3. \A q \in Passers : ~Running(q)'
        BY <2>1, <3>2 DEF Running, Fresh, IndexTyped, WalksTyped
      <3>4. \A n \in Notes : rows[n].stamp = files[n].stamp
        BY <2>1, <3>1 DEF PassesAgree, SureSees
      <3>5. QED
        BY <3>3, <3>4
    <2>4. SettledAgrees'
      BY <2>2, <2>3 DEF SettledAgrees
    <2>5. QED
      BY <2>1, <2>4, AgreeFresh DEF PassesAgree
  <1>10. CASE PassFails(p)
    <2>1. Running(p) /\ Fresh(p) /\ settled' = settled
      BY <1>10 DEF PassFails
    <2>2. settled' = FALSE
      BY <1>2, <2>1
    <2>3. QED
      BY <2>1, <2>2, AgreeFresh DEF PassesAgree, SettledAgrees
  <1>11. QED
    BY <1>1, <1>3, <1>4, <1>5, <1>6, <1>7, <1>8, <1>9, <1>10

(* While no pass has failed or met another: the links are those of the      *)
(* rows; from the upsert on their targets are, and what they resolve to is  *)
(* too unless the notes moved.                                              *)
Linked == \A n \in Notes : edges[n] = EdgesOf(rows[n].body, Present(rows))
TargetsOf(n) == {e.target : e \in edges[n]}
OnePassRuns == \A p, q \in Passers : Running(p) /\ Running(q) => p = q
LinkedBefore == (\A p \in Passers : walker[p] \in {"idle", "listed", "reading"}) => Linked
MovesNoticed ==
    \A p \in Passers : walker[p] = "reading" => \A n \in Notes :
        (n \in toRead[p] \/ batch[p][n].stamp # 0) /\ rows[n].stamp = 0 => moved[p]
LinkedAfter ==
    \A p \in Passers : walker[p] \in {"removing", "pruning"} =>
        /\ gone[p] = Nobody /\ ~moved[p] => Linked
        /\ \A n \in Notes : n # gone[p] => TargetsOf(n) = rows[n].body
        /\ gone[p] # Nobody => rows[gone[p]] = NoText
LinksFollow == ~disturbed => OnePassRuns /\ LinkedBefore /\ MovesNoticed /\ LinkedAfter

\* The vault's root is no note.
LEMMA NobodyIsNoNote == Nobody \notin Notes
  BY VaultAssumption, Zenon DEF Nobody

\* The links of a text have the targets it mentions, and resolving these again
\* gives the links of the text.
LEMMA EdgesOfTargets ==
  ASSUME NEW body, NEW notes, NEW es
  PROVE  /\ {e.target : e \in EdgesOf(body, notes)} = body
         /\ EdgesOf({}, notes) = {}
         /\ {[target |-> e.target, resolved |-> Resolved(e.target, notes)] : e \in es} =
              EdgesOf({e.target : e \in es}, notes)
  <1> DEFINE LinkTo(t) == [target |-> t, resolved |-> Resolved(t, notes)]
  <1>1. \A t : LinkTo(t).target = t
    OBVIOUS
  <1> HIDE DEF LinkTo
  <1>2. {e.target : e \in {LinkTo(t) : t \in body}} = body
    BY <1>1
  <1>3. {LinkTo(t) : t \in {}} = {}
    OBVIOUS
  <1>4. {LinkTo(e.target) : e \in es} = {LinkTo(t) : t \in {e.target : e \in es}}
    OBVIOUS
  <1>5. QED
    BY <1>2, <1>3, <1>4, Zenon DEF EdgesOf, LinkTo

\* An empty table has no links.
LEMMA FollowInit == VaultInit => LinksFollow
  <1> SUFFICES ASSUME VaultInit PROVE LinksFollow
    OBVIOUS
  <1>1. \A p \in Passers : walker[p] = "idle"
    BY DEF VaultInit
  <1>2. \A n \in Notes : edges[n] = {} /\ rows[n].body = {}
    BY DEF VaultInit, NoText
  <1>3. Linked
    BY <1>2, EdgesOfTargets DEF Linked
  <1>4. QED
    BY <1>1, <1>3 DEF LinksFollow, OnePassRuns, LinkedBefore, MovesNoticed, LinkedAfter, Running

\* A change of the vault is nothing to the store.
LEMMA FollowStays ==
  ASSUME LinksFollow, UNCHANGED <<rows, edges, walker, toRead, batch, moved, gone, disturbed>>
  PROVE  LinksFollow'
  <1>1. Linked' <=> Linked
    BY DEF Linked, Present
  <1>2. \A n \in Notes : TargetsOf(n)' = TargetsOf(n)
    BY DEF TargetsOf
  <1>3. \A p \in Passers : Running(p)' <=> Running(p)
    BY DEF Running
  <1>4. OnePassRuns' <=> OnePassRuns
    BY <1>3 DEF OnePassRuns
  <1>5. (LinkedBefore' <=> LinkedBefore) /\ (MovesNoticed' <=> MovesNoticed)
    BY <1>1 DEF LinkedBefore, MovesNoticed
  <1>6. LinkedAfter' <=> LinkedAfter
    BY <1>1, <1>2 DEF LinkedAfter
  <1>7. QED
    BY <1>4, <1>5, <1>6 DEF LinksFollow

\* A pass that runs alone is the only one to look at.
LEMMA OnlyThisRuns ==
  ASSUME LinksFollow, ~disturbed, NEW p \in Passers, Running(p), IndexTyped
  PROVE  \A q \in Passers : q # p => walker[q] = "idle"
  BY DEF LinksFollow, OnePassRuns, Running

\* A pass links what it files, and what moved when it ends.
LEMMA FollowNext ==
  ASSUME IndexTyped, PassesTidy, LinksFollow, NEW p \in Passers,
         \/ Walk(p) \/ List(p) \/ ReadNote(p) \/ Upsert(p) \/ RemoveRow(p) \/ RemoveLinks(p)
         \/ RemovalDone(p) \/ PassEnds(p) \/ PassFails(p)
  PROVE  LinksFollow'
  <1> SUFFICES ASSUME ~disturbed'
               PROVE  (OnePassRuns /\ LinkedBefore /\ MovesNoticed /\ LinkedAfter)'
    BY DEF LinksFollow
  <1>1. ~PassFails(p)
    BY DEF PassFails
  <1>2. CASE Walk(p)
    <2>1. disturbed' = (disturbed \/ \E other \in Passers : Running(other))
      BY <1>2 DEF Walk
    <2>2. ~disturbed /\ \A q \in Passers : walker[q] = "idle"
      BY <2>1, Zenon DEF Running
    <2>3. walker' = [walker EXCEPT ![p] = "listed"] /\ rows' = rows /\ edges' = edges
      BY <1>2 DEF Walk, store
    <2>4. \A q \in Passers : walker'[q] = IF q = p THEN "listed" ELSE "idle"
      BY <2>2, <2>3 DEF IndexTyped, WalksTyped
    <2>5. Linked
      BY <2>2 DEF LinksFollow, LinkedBefore
    <2>6. Linked'
      BY <2>3, <2>5 DEF Linked, Present
    <2>7. QED
      BY <2>4, <2>6 DEF OnePassRuns, LinkedBefore, MovesNoticed, LinkedAfter, Running
  <1> SUFFICES ASSUME ~Walk(p)
               PROVE  (OnePassRuns /\ LinkedBefore /\ MovesNoticed /\ LinkedAfter)'
    BY <1>2
  <1>3. Running(p) /\ ~disturbed
    BY <1>1 DEF List, ReadNote, Upsert, RemoveRow, RemoveLinks, RemovalDone, PassEnds, PassFails, Running
  <1>4. \A q \in Passers : q # p => walker[q] = "idle"
    BY <1>3, OnlyThisRuns
  <1>5. ASSUME NEW at \in Stations, walker' = [walker EXCEPT ![p] = at]
        PROVE  OnePassRuns' /\ \A q \in Passers : walker'[q] = IF q = p THEN at ELSE "idle"
    BY <1>4, <1>5 DEF OnePassRuns, Running, IndexTyped, WalksTyped
  <1>6. ASSUME walker[p] \in {"listed", "reading"} PROVE Linked
    BY <1>3, <1>4, <1>6 DEF LinksFollow, LinkedBefore
  <1>7. OnePassRuns /\ MovesNoticed /\ LinkedAfter
    BY <1>3 DEF LinksFollow
  <1>8. CASE List(p)
    <2>1. /\ walker' = [walker EXCEPT ![p] = "reading"] /\ rows' = rows /\ edges' = edges /\ batch' = batch
          /\ toRead' = [toRead EXCEPT ![p] = {n \in Notes : Stale(p, n)}]
          /\ moved' = [moved EXCEPT ![p] = \E n \in Notes : Stale(p, n) /\ rows[n].stamp = 0]
      BY <1>8 DEF List, store
    <2>2. Linked'
      BY <1>6, <1>8, <2>1 DEF List, Linked, Present
    <2>3. OnePassRuns' /\ \A q \in Passers : walker'[q] = IF q = p THEN "reading" ELSE "idle"
      BY <1>5, <2>1 DEF Stations
    <2>4. ASSUME NEW n \in Notes, n \in toRead'[p] \/ batch'[p][n].stamp # 0, rows'[n].stamp = 0
          PROVE  moved'[p]
      <3>1. batch[p][n] = NoText
        BY <1>8 DEF List, PassesTidy
      <3>2. Stale(p, n) /\ rows[n].stamp = 0
        BY <2>1, <2>4, <3>1 DEF NoText, IndexTyped, WalksTyped
      <3>3. QED
        BY <2>1, <3>2 DEF IndexTyped, FindingsTyped
    <2>5. QED
      BY <2>2, <2>3, <2>4 DEF LinkedBefore, MovesNoticed, LinkedAfter
  <1>9. CASE ReadNote(p)
    <2> DEFINE n == First(toRead[p])
    <2>1. n \in Notes /\ n \in toRead[p]
      BY <1>9, FirstIsIn DEF ReadNote, IndexTyped, WalksTyped
    <2>2. /\ walker[p] = "reading" /\ walker' = walker /\ rows' = rows /\ edges' = edges
          /\ moved' = moved /\ toRead' = [toRead EXCEPT ![p] = toRead[p] \ {n}]
      BY <1>9 DEF ReadNote, store
    <2>3. \/ batch' = batch
          \/ batch' = [batch EXCEPT ![p][n] = [stamp |-> scan[p][n], body |-> files[n].body]]
      BY <1>9 DEF ReadNote
    <2> HIDE DEF n
    <2>4. Linked'
      BY <1>6, <2>2 DEF Linked, Present
    <2>5. OnePassRuns' /\ \A q \in Passers : walker'[q] = IF q = p THEN "reading" ELSE "idle"
      BY <1>4, <1>7, <2>2 DEF OnePassRuns, Running
    <2>6. ASSUME NEW m \in Notes, m \in toRead'[p] \/ batch'[p][m].stamp # 0, rows'[m].stamp = 0
          PROVE  moved'[p]
      <3>1. m = n \/ batch'[p][m] = batch[p][m]
        BY <2>1, <2>3 DEF IndexTyped, FindingsTyped, IsTable
      <3>2. m \in toRead[p] \/ batch[p][m].stamp # 0
        BY <2>1, <2>2, <2>6, <3>1 DEF IndexTyped, WalksTyped
      <3>3. QED
        BY <1>7, <2>2, <2>6, <3>2 DEF MovesNoticed
    <2>7. QED
      BY <2>4, <2>5, <2>6 DEF LinkedBefore, MovesNoticed, LinkedAfter
  <1>10. CASE Upsert(p)
    <2> DEFINE at == IF Truncated(p) THEN "pruning" ELSE "removing"
    <2>1. /\ rows' = [n \in Notes |-> IF batch[p][n].stamp # 0 THEN batch[p][n] ELSE rows[n]]
          /\ edges' = [n \in Notes |-> IF n \in LinksRewritten(p)
                                        THEN EdgesOf(batch[p][n].body, Present(rows')) ELSE edges[n]]
          /\ walker' = [walker EXCEPT ![p] = at] /\ moved' = moved /\ gone' = gone
      BY <1>10 DEF Upsert
    <2>2. Linked /\ gone[p] = Nobody /\ walker[p] = "reading"
      BY <1>6, <1>10 DEF Upsert, PassesTidy
    <2>3. at \in {"pruning", "removing"}
      OBVIOUS
    <2> HIDE DEF at
    <2>4. OnePassRuns' /\ \A q \in Passers : walker'[q] = IF q = p THEN at ELSE "idle"
      BY <1>5, <2>1, <2>3 DEF Stations
    <2>5. ASSUME NEW n \in Notes
          PROVE  \/ rows'[n] = batch[p][n] /\ edges'[n] = EdgesOf(rows'[n].body, Present(rows'))
                 \/ rows'[n] = rows[n] /\ edges'[n] = EdgesOf(rows'[n].body, Present(rows))
      BY <2>1, <2>2 DEF LinksRewritten, Present, Linked
    <2>6. ASSUME NEW n \in Notes PROVE TargetsOf(n)' = rows'[n].body
      <3>1. \A body, notes : {e.target : e \in EdgesOf(body, notes)} = body
        BY EdgesOfTargets
      <3>2. PICK notes : edges'[n] = EdgesOf(rows'[n].body, notes)
        BY <2>5
      <3>3. {e.target : e \in edges'[n]} = rows'[n].body
        BY <3>1, <3>2
      <3>4. QED
        BY <3>3 DEF TargetsOf
    <2>7. ASSUME ~moved'[p] PROVE Linked'
      <3>1. \A n \in Notes : batch[p][n].stamp # 0 => rows[n].stamp # 0
        BY <1>7, <2>1, <2>2, <2>7 DEF MovesNoticed
      <3>2. \A n \in Notes : rows'[n].stamp # 0 <=> rows[n].stamp # 0
        BY <2>1, <3>1
      <3>3. Present(rows') = Present(rows)
        BY <3>2 DEF Present
      <3>4. QED
        BY <2>5, <3>3 DEF Linked
    <2>8. LinkedAfter'
      BY <2>1, <2>2, <2>4, <2>6, <2>7 DEF LinkedAfter
    <2>9. QED
      BY <2>3, <2>4, <2>8 DEF LinkedBefore, MovesNoticed
  <1>11. CASE RemoveRow(p)
    <2> DEFINE n == First(Missing(p))
    <2>1. n \in Notes
      BY <1>11, FirstIsIn DEF RemoveRow, Missing, Present
    <2>2. /\ walker[p] = "removing" /\ gone[p] = Nobody /\ walker' = walker /\ edges' = edges
          /\ rows' = [rows EXCEPT ![n] = NoText] /\ gone' = [gone EXCEPT ![p] = n]
      BY <1>11 DEF RemoveRow
    <2> HIDE DEF n
    <2>3. OnePassRuns' /\ \A q \in Passers : walker'[q] = IF q = p THEN "removing" ELSE "idle"
      BY <1>4, <1>7, <2>2 DEF OnePassRuns, Running
    <2>4. gone'[p] = n /\ gone'[p] # Nobody
      BY <2>1, <2>2, NobodyIsNoNote DEF IndexTyped, FindingsTyped
    <2>5. \A m \in Notes : rows'[m] = IF m = n THEN NoText ELSE rows[m]
      BY <2>1, <2>2 DEF IndexTyped, StoreTyped, IsTable
    <2>6. \A m \in Notes : TargetsOf(m) = rows[m].body
      BY <1>7, <2>2, NobodyIsNoNote DEF LinkedAfter
    <2>7. \A m \in Notes : TargetsOf(m)' = TargetsOf(m)
      BY <2>2 DEF TargetsOf
    <2>8. LinkedAfter'
      BY <2>1, <2>3, <2>4, <2>5, <2>6, <2>7 DEF LinkedAfter
    <2>9. QED
      BY <2>3, <2>8 DEF LinkedBefore, MovesNoticed
  <1>12. CASE RemoveLinks(p)
    <2>1. /\ walker[p] = "removing" /\ gone[p] # Nobody /\ walker' = walker /\ rows' = rows
          /\ edges' = [edges EXCEPT ![gone[p]] = {}] /\ gone' = [gone EXCEPT ![p] = Nobody]
          /\ moved' = [moved EXCEPT ![p] = TRUE]
      BY <1>12 DEF RemoveLinks
    <2>2. OnePassRuns' /\ \A q \in Passers : walker'[q] = IF q = p THEN "removing" ELSE "idle"
      BY <1>4, <1>7, <2>1 DEF OnePassRuns, Running
    <2>3. gone[p] \in Notes /\ gone'[p] = Nobody /\ moved'[p]
      BY <2>1 DEF IndexTyped, FindingsTyped
    <2>4. rows[gone[p]] = NoText /\ \A m \in Notes : m # gone[p] => TargetsOf(m) = rows[m].body
      BY <1>7, <2>1 DEF LinkedAfter
    <2>5. ASSUME NEW m \in Notes PROVE TargetsOf(m)' = rows[m].body
      <3>1. CASE m = gone[p]
        <4>1. edges'[m] = {} /\ rows[m].body = {}
          BY <2>1, <2>3, <2>4, <3>1 DEF IndexTyped, StoreTyped, NoText
        <4>2. QED
          BY <4>1 DEF TargetsOf
      <3>2. CASE m # gone[p]
        <4>1. edges'[m] = edges[m]
          BY <2>1, <3>2 DEF IndexTyped, StoreTyped
        <4>2. QED
          BY <2>4, <3>2, <4>1 DEF TargetsOf
      <3>3. QED
        BY <3>1, <3>2
    <2>6. LinkedAfter'
      BY <2>1, <2>2, <2>3, <2>5 DEF LinkedAfter
    <2>7. QED
      BY <2>2, <2>6 DEF LinkedBefore, MovesNoticed
  <1>13. CASE RemovalDone(p)
    <2>1. /\ walker[p] = "removing" /\ gone[p] = Nobody /\ UNCHANGED <<rows, edges, moved, gone>>
          /\ walker' = [walker EXCEPT ![p] = "pruning"]
      BY <1>13 DEF RemovalDone, store
    <2>2. OnePassRuns' /\ \A q \in Passers : walker'[q] = IF q = p THEN "pruning" ELSE "idle"
      BY <1>5, <2>1 DEF Stations
    <2>3. (Linked' <=> Linked) /\ \A m \in Notes : TargetsOf(m)' = TargetsOf(m)
      BY <2>1 DEF Linked, Present, TargetsOf
    <2>4. LinkedAfter'
      BY <1>7, <2>1, <2>2, <2>3 DEF LinkedAfter
    <2>5. QED
      BY <2>2, <2>4 DEF LinkedBefore, MovesNoticed
  <1>14. CASE PassEnds(p)
    <2>1. walker[p] = "pruning" /\ rows' = rows /\ edges' = ResolvedAgain(p)
          /\ walker' = [walker EXCEPT ![p] = "idle"]
      BY <1>14 DEF PassEnds, Fresh
    <2>2. OnePassRuns' /\ \A q \in Passers : walker'[q] = "idle"
      BY <1>5, <2>1 DEF Stations
    <2>3. gone[p] = Nobody
      BY <2>1 DEF PassesTidy
    <2>4. CASE ~moved[p]
      <3>1. edges' = edges /\ Linked
        BY <1>7, <2>1, <2>3, <2>4 DEF ResolvedAgain, LinkedAfter
      <3>2. QED
        BY <2>1, <2>2, <3>1 DEF Linked, Present, LinkedBefore, MovesNoticed, LinkedAfter
    <2>5. CASE moved[p]
      <3>1. \A n \in Notes : TargetsOf(n) = rows[n].body
        BY <1>7, <2>1, <2>3, NobodyIsNoNote DEF LinkedAfter
      <3>2. \A n \in Notes : edges'[n] = {[target |-> e.target, resolved |-> Resolved(e.target, Present(rows))]
                                            : e \in edges[n]}
        BY <2>1, <2>5 DEF ResolvedAgain
      <3>3. \A n \in Notes : edges'[n] = EdgesOf(TargetsOf(n), Present(rows))
        BY <3>2, EdgesOfTargets DEF TargetsOf
      <3>4. Linked'
        BY <2>1, <3>1, <3>3 DEF Linked, Present
      <3>5. QED
        BY <2>2, <3>4 DEF LinkedBefore, MovesNoticed, LinkedAfter
    <2>6. QED
      BY <2>4, <2>5
  <1>15. QED
    BY <1>1, <1>8, <1>9, <1>10, <1>11, <1>12, <1>13, <1>14

\* What resolves to a note resolves to one of those it was resolved among.
LEMMA ResolvedIsThere ==
  ASSUME NEW target, NEW notes, Resolved(target, notes) # Nobody
  PROVE  Resolved(target, notes) \in notes
  <1> DEFINE found == Matches(target, notes)
  <1>1. Single(found) /\ Resolved(target, notes) = CHOOSE n \in found : TRUE
    BY DEF Resolved
  <1>2. found # {}
    BY <1>1, FS_EmptySet DEF Single
  <1>3. \A n \in found : n \in notes
    BY DEF Matches, Exact, Folded
  <1> HIDE DEF found
  <1>4. QED
    BY <1>1, <1>2, <1>3

\* A graph's edges are mentions, and none is left out without saying so.
LEMMA GraphOfMentions ==
  ASSUME NEW maxEdges, NEW maxGhosts, NEW g \in Graphs(maxEdges, maxGhosts)
  PROVE  /\ g.notes = Present(rows) /\ \A e \in g.edges : e \in ResolvedEdges
         /\ \A e \in g.ghostEdges : e \in GhostEdges /\ e.dst \in g.ghosts
         /\ g.ghosts = Ghosts(g.ghostEdges)
         /\ ~g.truncated => g.edges = ResolvedEdges /\ g.ghostEdges = GhostEdges
  <1> DEFINE Draw(ks, gs, ends) ==
               [notes |-> Present(rows), ghosts |-> ends, edges |-> ks, ghostEdges |-> Drawn(gs, ends),
                truncated |-> ks # ResolvedEdges \/ gs # GhostEdges \/ ends # Ghosts(gs)]
  <1>1. Graphs(maxEdges, maxGhosts) =
          UNION {UNION {{Draw(ks, gs, ends) : ends \in Capped(Ghosts(gs), maxGhosts)} :
                          gs \in Heaviest(GhostEdges, maxEdges)} : ks \in Heaviest(ResolvedEdges, maxEdges)}
    BY DEF Graphs
  <1>2. PICK kept \in Heaviest(ResolvedEdges, maxEdges) :
          \E keptGhosts \in Heaviest(GhostEdges, maxEdges) :
            \E ghosts \in Capped(Ghosts(keptGhosts), maxGhosts) : g = Draw(kept, keptGhosts, ghosts)
    <2> HIDE DEF Draw
    <2>1. QED
      BY <1>1
  <1>3. PICK keptGhosts \in Heaviest(GhostEdges, maxEdges) :
           \E ghosts \in Capped(Ghosts(keptGhosts), maxGhosts) : g = Draw(kept, keptGhosts, ghosts)
    BY <1>2
  <1>4. PICK ghosts \in Capped(Ghosts(keptGhosts), maxGhosts) : g = Draw(kept, keptGhosts, ghosts)
    BY <1>3
  <1>5. /\ \A e \in kept : e \in ResolvedEdges
        /\ \A e \in keptGhosts : e \in GhostEdges
        /\ \A d \in ghosts : d \in Ghosts(keptGhosts)
    BY DEF Heaviest, Capped
  <1>6. /\ g.notes = Present(rows) /\ g.ghosts = ghosts /\ g.edges = kept
        /\ g.ghostEdges = Drawn(keptGhosts, ghosts)
    BY <1>4
  <1>7. ~g.truncated => kept = ResolvedEdges /\ keptGhosts = GhostEdges /\ ghosts = Ghosts(keptGhosts)
    BY <1>4, Zenon
  <1>8. Ghosts(Drawn(keptGhosts, ghosts)) = ghosts
    BY <1>5 DEF Ghosts, Drawn
  <1>9. Drawn(keptGhosts, Ghosts(keptGhosts)) = keptGhosts
    BY DEF Ghosts, Drawn
  <1>10. \A e \in Drawn(keptGhosts, ghosts) : e \in GhostEdges /\ e.dst \in ghosts
    BY <1>5 DEF Drawn
  <1>11. QED
    BY <1>5, <1>6, <1>7, <1>8, <1>9, <1>10

\* An edge of a graph goes from a note that mentions, and to a note or a ghost.
LEMMA EdgesOfMentions ==
  /\ \A e \in ResolvedEdges : \E n \in Notes : \E mention \in edges[n] :
        e.src = n /\ e.dst = mention.resolved /\ mention.resolved # Nobody
  /\ \A e \in GhostEdges : \E n \in Notes : e.src = n /\ edges[n] # {}
  /\ \A n \in Notes : \A mention \in edges[n] :
       IF mention.resolved # Nobody
       THEN \E e \in ResolvedEdges : e.src = n /\ e.dst = mention.resolved
       ELSE \E e \in GhostEdges : e.src = n /\ e.dst = mention.target
  <1>1. ASSUME NEW n, NEW d, NEW ms
        PROVE  EdgeOf(n, d, ms).src = n /\ EdgeOf(n, d, ms).dst = d
    BY DEF EdgeOf
  <1>2. ASSUME NEW e \in ResolvedEdges
        PROVE  \E n \in Notes : \E mention \in edges[n] :
                 e.src = n /\ e.dst = mention.resolved /\ mention.resolved # Nobody
    <2>1. PICK n \in Notes : \E d \in {out.resolved : out \in edges[n]} \ {Nobody} :
            e = EdgeOf(n, d, {out \in edges[n] : out.resolved = d})
      BY DEF ResolvedEdges
    <2>2. QED
      BY <1>1, <2>1
  <1>3. ASSUME NEW e \in GhostEdges
        PROVE  \E n \in Notes : e.src = n /\ edges[n] # {}
    <2>1. PICK n \in Notes :
            \E t \in {out.target : out \in {o \in edges[n] : o.resolved = Nobody}} :
              e = EdgeOf(n, t, {out \in edges[n] : out.resolved = Nobody /\ out.target = t})
      BY DEF GhostEdges
    <2>2. QED
      BY <1>1, <2>1
  <1>4. ASSUME NEW n \in Notes, NEW mention \in edges[n], mention.resolved # Nobody
        PROVE  \E e \in ResolvedEdges : e.src = n /\ e.dst = mention.resolved
    <2> DEFINE d == mention.resolved
               e == EdgeOf(n, d, {out \in edges[n] : out.resolved = d})
               Of(m) == {EdgeOf(m, x, {out \in edges[m] : out.resolved = x}) :
                           x \in {out.resolved : out \in edges[m]} \ {Nobody}}
    <2>1. d \in {out.resolved : out \in edges[n]} \ {Nobody}
      BY <1>4
    <2>2. e \in Of(n)
      BY <2>1
    <2>3. ResolvedEdges = UNION {Of(m) : m \in Notes}
      BY DEF ResolvedEdges
    <2>4. e.src = n /\ e.dst = mention.resolved
      BY <1>1
    <2> HIDE DEF e, Of
    <2>5. QED
      BY <2>2, <2>3, <2>4
  <1>5. ASSUME NEW n \in Notes, NEW mention \in edges[n], mention.resolved = Nobody
        PROVE  \E e \in GhostEdges : e.src = n /\ e.dst = mention.target
    <2> DEFINE t == mention.target
               e == EdgeOf(n, t, {out \in edges[n] : out.resolved = Nobody /\ out.target = t})
               Of(m) == {EdgeOf(m, x, {out \in edges[m] : out.resolved = Nobody /\ out.target = x}) :
                           x \in {out.target : out \in {o \in edges[m] : o.resolved = Nobody}}}
    <2>1. t \in {out.target : out \in {o \in edges[n] : o.resolved = Nobody}}
      BY <1>5
    <2>2. e \in Of(n)
      BY <2>1
    <2>3. GhostEdges = UNION {Of(m) : m \in Notes}
      BY DEF GhostEdges
    <2>4. e.src = n /\ e.dst = mention.target
      BY <1>1
    <2> HIDE DEF e, Of
    <2>5. QED
      BY <2>2, <2>3, <2>4
  <1>6. QED
    BY <1>2, <1>3, <1>4, <1>5

\* With the links of the rows, every graph can be drawn.
LEMMA LinkedIsDrawable ==
  ASSUME IndexTyped, Linked PROVE GraphIsDrawable
  <1> SUFFICES ASSUME NEW maxEdges, NEW maxGhosts, NEW g \in Graphs(maxEdges, maxGhosts)
      PROVE  /\ \A e \in g.edges : e.src \in g.notes /\ e.dst \in g.notes
             /\ \A e \in g.ghostEdges : e.src \in g.notes /\ e.dst \in g.ghosts
             /\ g.ghosts = Ghosts(g.ghostEdges)
             /\ ~g.truncated => \A n \in Notes : \A mention \in edges[n] :
                  \/ \E e \in g.edges : e.src = n /\ e.dst = mention.resolved
                  \/ \E e \in g.ghostEdges : e.src = n /\ e.dst = mention.target
    BY DEF GraphIsDrawable
  <1>1. ASSUME NEW n \in Notes, edges[n] # {}
        PROVE  n \in Present(rows)
    <2>1. rows[n].body # {}
      BY <1>1, EdgesOfTargets DEF Linked
    <2>2. rows[n].stamp # 0
      BY <2>1 DEF IndexTyped, StoreTyped, IsTable, Entry, NoText
    <2>3. QED
      BY <2>2 DEF Present
  <1>2. ASSUME NEW n \in Notes, NEW mention \in edges[n], mention.resolved # Nobody
        PROVE  mention.resolved \in Present(rows)
    <2>1. PICK t \in rows[n].body : mention = [target |-> t, resolved |-> Resolved(t, Present(rows))]
      BY DEF Linked, EdgesOf
    <2>2. mention.resolved = Resolved(t, Present(rows))
      BY <2>1
    <2>3. QED
      BY <1>2, <2>2, ResolvedIsThere
  <1>3. /\ g.notes = Present(rows) /\ \A e \in g.edges : e \in ResolvedEdges
        /\ \A e \in g.ghostEdges : e \in GhostEdges /\ e.dst \in g.ghosts
        /\ g.ghosts = Ghosts(g.ghostEdges)
        /\ ~g.truncated => g.edges = ResolvedEdges /\ g.ghostEdges = GhostEdges
    BY GraphOfMentions
  <1>4. \A e \in g.edges : e.src \in g.notes /\ e.dst \in g.notes
    BY <1>1, <1>2, <1>3, EdgesOfMentions
  <1>5. \A e \in g.ghostEdges : e.src \in g.notes
    BY <1>1, <1>3, EdgesOfMentions
  <1>6. ASSUME ~g.truncated, NEW n \in Notes, NEW mention \in edges[n]
        PROVE  \/ \E e \in g.edges : e.src = n /\ e.dst = mention.resolved
               \/ \E e \in g.ghostEdges : e.src = n /\ e.dst = mention.target
    BY <1>3, <1>6, EdgesOfMentions
  <1>7. QED
    BY <1>3, <1>4, <1>5, <1>6

IndexInv == IndexTyped /\ PassesTidy /\ FilesApart /\ TextsFiled /\ PassesAgree /\ LinksFollow

\* Every step keeps the index in step with the vault.
LEMMA IndexNext == IndexInv /\ [VaultNext]_vaultVars => IndexInv'
  <1> SUFFICES ASSUME IndexInv, [VaultNext]_vaultVars PROVE IndexInv'
    OBVIOUS
  <1>1. CASE UNCHANGED indexVars
    <2> USE <1>1 DEF indexVars
    <2>1. IndexTyped'
      BY DEF IndexInv, IndexTyped, StoreTyped, WalksTyped, FindingsTyped, IsTable, Entry
    <2>2. PassesTidy' /\ FilesApart' /\ LinksFollow'
      BY TidyStays, FollowStays DEF IndexInv, FilesApart
    <2>3. TextsFiled' /\ PassesAgree'
      BY DEF IndexInv, TextsFiled, FiledAs, PassesAgree, OneIsClean, SureSees, SettledAgrees, Sure, Running
    <2>4. QED
      BY <2>1, <2>2, <2>3 DEF IndexInv
  <1>2. CASE FilesChange
    <2>1. UNCHANGED <<walker, scan, toRead, batch, gone, rows, edges, moved, disturbed>>
      BY <1>2 DEF FilesChange, store
    <2>2. PassesTidy' /\ LinksFollow'
      BY <2>1, TidyStays, FollowStays DEF IndexInv
    <2>3. QED
      BY <1>2, <2>2, ChangeTyped, FiledStays, AgreeChange DEF IndexInv
  <1>3. ASSUME NEW p \in Passers,
               \/ Walk(p) \/ List(p) \/ ReadNote(p) \/ Upsert(p) \/ RemoveRow(p) \/ RemoveLinks(p)
               \/ RemovalDone(p) \/ PassEnds(p) \/ PassFails(p)
        PROVE  IndexInv'
    BY <1>3, PassTyped, TidyNext, FiledNext, AgreeNext, FollowNext DEF IndexInv
  <1>4. CASE UNCHANGED vaultVars
    BY <1>1, <1>4 DEF vaultVars, indexVars
  <1>5. CASE VaultNext
    BY <1>1, <1>2, <1>3, <1>5, StepsOfTheVault DEF VaultNext, IndexInv
  <1>6. QED
    BY <1>4, <1>5

\* What the index is made of gives what it promises.
LEMMA IndexKeeps == IndexInv => IndexIsDerived
  <1> SUFFICES ASSUME IndexInv PROVE IndexIsDerived
    OBVIOUS
  <1>1. SettledRowsMatch
    <2> SUFFICES ASSUME settled, NEW n \in Notes
                 PROVE  rows[n].stamp = files[n].stamp /\ (rows[n] # files[n] => <<n, rows[n].stamp>> \in torn)
      BY DEF SettledRowsMatch
    <2>1. rows[n].stamp = files[n].stamp
      BY DEF IndexInv, PassesAgree, SettledAgrees
    <2>2. Entry(rows[n]) /\ Entry(files[n])
      BY DEF IndexInv, IndexTyped, StoreTyped, IsTable
    <2>3. rows[n].body = files[n].body => rows[n] = files[n]
      BY <2>1, <2>2 DEF Entry
    <2>4. rows[n].stamp = 0 => rows[n] = files[n]
      BY <2>1, <2>2 DEF Entry
    <2>5. rows[n].stamp # 0 => rows[n].body = files[n].body \/ <<n, rows[n].stamp>> \in torn
      BY <2>1 DEF IndexInv, TextsFiled, FiledAs
    <2>6. QED
      BY <2>1, <2>3, <2>4, <2>5
  <1>2. ~disturbed /\ (\A p \in Passers : ~Running(p)) => Linked
    BY DEF IndexInv, LinksFollow, LinkedBefore, Running
  <1>3. LinksAreDerived
    BY <1>2 DEF LinksAreDerived, Linked
  <1>4. GraphIsDrawable
    BY <1>2, LinkedIsDrawable DEF GraphIsDrawable, IndexInv
  <1>5. QED
    BY <1>1, <1>3, <1>4 DEF IndexIsDerived

\* A pass alone over a vault that holds still leaves every row with its note's
\* stamp and, unless the text was read after another change, its text; the links
\* are those of the rows, and a graph of them can be drawn, for any notes, texts,
\* passes and edits (index_vault, reresolve_links, graph_limited).
THEOREM IndexFollowsTheVault == VaultSpec => []IndexIsDerived
  <1>1. VaultInit => IndexInv
    BY IndexTypedInit, TidyInit, FiledInit, AgreeInit, FollowInit DEF IndexInv
  <1>2. QED
    BY <1>1, IndexNext, IndexKeeps, PTL DEF VaultSpec

(***************************************************************************)
(* The vault verbs                                                         *)
(***************************************************************************)

Stages == {"unasked", "asked", "directory", "listed", "scanned", "written", "indexed",
           "refused", "unlisted", "answered"}
ListTyped ==
    /\ roots \subseteq Spellings /\ pushed \subseteq roots /\ clearing \in BOOLEAN
    /\ mirror \subseteq Dirs /\ meant \in [Spellings -> SUBSET Dirs]
PlacesTyped ==
    /\ names \in [Spellings -> Dirs] /\ indexed \in [Spellings -> SUBSET Dirs]
RequestsTyped ==
    /\ asked \in [Requests -> [verb : {"none", "search", "read"}, path : Spellings, at : Stages,
                               found : SUBSET Dirs]]
    /\ during \in [Requests -> SUBSET SUBSET Dirs]
ScopeTyped == ListTyped /\ PlacesTyped /\ RequestsTyped

(* What the mirror holds is what the last push found behind the list.       *)
MirrorIsMeant == \A d \in mirror : \E p \in roots : meant[p] = {d}
MeantIsMirrored == \A p \in Spellings : meant[p] \subseteq mirror
PushedIsForgotten == ~clearing => \A p \in pushed : meant[p] = {}
MirrorInv == MirrorIsMeant /\ MeantIsMirrored /\ PushedIsForgotten

(* What a request has seen since it came: where its path leads, what passes *)
(* over that path hold, and the rows they have written.                     *)
SeesPlace == \A r \in Requests : Waiting(r) => Real(asked[r].path) \in during[r]
SeesPasses ==
    \A r, q \in Requests :
        Waiting(r) /\ asked[q].at = "scanned" /\ asked[q].path = asked[r].path =>
            asked[q].found \in during[r]
SeesRows ==
    \A r \in Requests : asked[r].at \in {"written", "indexed"} => indexed[asked[r].path] \in during[r]
PassesSearch ==
    \A r \in Requests : asked[r].at \in {"scanned", "written", "indexed"} => asked[r].verb = "search"
SeenInv == SeesPlace /\ SeesPasses /\ SeesRows /\ PassesSearch

ScopeInv == ScopeTyped /\ MirrorInv /\ SeenInv

\* Nothing is listed, asked or indexed at first.
LEMMA ScopeInitInv == ScopeInit => ScopeInv
  <1> SUFFICES ASSUME ScopeInit PROVE ScopeInv
    OBVIOUS
  <1>1. ScopeTyped
    BY VaultScopeAssumption DEF ScopeInit, ScopeTyped, ListTyped, PlacesTyped, RequestsTyped, Stages,
       NoRequest
  <1>2. MirrorInv
    BY DEF ScopeInit, MirrorInv, MirrorIsMeant, MeantIsMirrored, PushedIsForgotten
  <1>3. SeenInv
    BY DEF ScopeInit, SeenInv, SeesPlace, SeesPasses, SeesRows, PassesSearch, Waiting, NoRequest
  <1>4. QED
    BY <1>1, <1>2, <1>3 DEF ScopeInv

\* Where a path leads is a set of directories.
LEMMA RealTyped == ASSUME PlacesTyped, NEW p \in Spellings PROVE Real(p) \in SUBSET Dirs
  BY DEF PlacesTyped, Real

\* Each step keeps the types of the list and its mirror.
LEMMA ListTypedNext ==
  ASSUME ScopeTyped, ScopeNext PROVE ListTyped'
  <1> USE DEF ScopeTyped, ListTyped, placeVars, registryVars
  <1>1. CASE MovePlaces
    BY <1>1 DEF MovePlaces
  <1>2. CASE Reload
    BY <1>2 DEF Reload, PushStarts
  <1>3. CASE ClearMirror
    BY <1>3 DEF ClearMirror, ClearedMirror
  <1>4. ASSUME NEW p \in Spellings, Register(p) PROVE ListTyped'
    BY <1>4 DEF Register, PushStarts
  <1>5. ASSUME NEW p \in Spellings, PushRoot(p) PROVE ListTyped'
    BY <1>5, RealTyped DEF PushRoot
  <1>6. ASSUME NEW p \in Spellings, PaneCall(p) PROVE ListTyped'
    BY <1>6 DEF PaneCall, PaneIndex, Reindex, PaneSearch, PaneLinks, PaneGraph, PaneResolve, Shows,
       PaneStill
  <1>7. ASSUME NEW r \in Requests, RequestStep(r) PROVE ListTyped'
    BY <1>7 DEF RequestStep, Ask, JudgePath, JudgeListed, ScanVault, WriteRows, PruneDead,
       AnswerSearch, AnswerRead, Ends, At, Moves, ScopeStill
  <1>8. QED
    BY <1>1, <1>2, <1>3, <1>4, <1>5, <1>6, <1>7 DEF ScopeNext

\* Each step keeps the types of the places and the index.
LEMMA PlacesTypedNext ==
  ASSUME ScopeTyped, ScopeNext PROVE PlacesTyped'
  <1> USE DEF ScopeTyped, PlacesTyped, placeVars, registryVars
  <1>1. CASE MovePlaces
    BY <1>1 DEF MovePlaces
  <1>2. CASE Reload
    BY <1>2 DEF Reload
  <1>3. CASE ClearMirror
    BY <1>3 DEF ClearMirror
  <1>4. ASSUME NEW p \in Spellings, Register(p) PROVE PlacesTyped'
    BY <1>4 DEF Register
  <1>5. ASSUME NEW p \in Spellings, PushRoot(p) PROVE PlacesTyped'
    BY <1>5 DEF PushRoot
  <1>6. ASSUME NEW p \in Spellings, PaneCall(p) PROVE PlacesTyped'
    <2>1. CASE PaneIndex(p)
      BY <2>1, <1>6, RealTyped DEF PaneIndex, PaneStill, LiveRows
    <2>2. CASE UNCHANGED <<names, indexed>>
      BY <2>2
    <2>3. QED
      BY <1>6, <2>1, <2>2 DEF PaneCall, Reindex, PaneSearch, PaneLinks, PaneGraph, PaneResolve,
         Shows, PaneStill
  <1>7. ASSUME NEW r \in Requests, RequestStep(r) PROVE PlacesTyped'
    <2>1. CASE WriteRows(r)
      BY <2>1, <1>7 DEF WriteRows, RowsOf, RequestsTyped, Moves, ScopeStill
    <2>2. CASE PruneDead(r)
      BY <2>2 DEF PruneDead, LiveRows, At, Moves, ScopeStill
    <2>3. CASE UNCHANGED <<names, indexed>>
      BY <2>3
    <2>4. QED
      BY <1>7, <2>1, <2>2, <2>3 DEF RequestStep, Ask, JudgePath, JudgeListed, ScanVault,
         AnswerSearch, AnswerRead, Ends, At, Moves, ScopeStill
  <1>8. QED
    BY <1>1, <1>2, <1>3, <1>4, <1>5, <1>6, <1>7 DEF ScopeNext

\* Each step keeps the types of the requests.
LEMMA RequestsTypedNext ==
  ASSUME ScopeTyped, ScopeNext, PlacesTyped' PROVE RequestsTyped'
  <1> USE DEF ScopeTyped, RequestsTyped, placeVars, registryVars, Stages
  <1>0. \A where \in Stages : NoRequest(where) \in [verb : {"none", "search", "read"},
          path : Spellings, at : Stages, found : SUBSET Dirs]
    BY VaultScopeAssumption DEF NoRequest
  <1>1. CASE MovePlaces
    BY <1>1 DEF MovePlaces, LeadsTo, PlacesTyped
  <1>2. CASE Reload
    BY <1>0, <1>2 DEF Reload
  <1>3. CASE ClearMirror
    BY <1>3 DEF ClearMirror
  <1>4. ASSUME NEW p \in Spellings, Register(p) PROVE RequestsTyped'
    BY <1>4 DEF Register
  <1>5. ASSUME NEW p \in Spellings, PushRoot(p) PROVE RequestsTyped'
    BY <1>5 DEF PushRoot
  <1>6. ASSUME NEW p \in Spellings, PaneCall(p) PROVE RequestsTyped'
    BY <1>6 DEF PaneCall, PaneIndex, Reindex, PaneSearch, PaneLinks, PaneGraph, PaneResolve, Shows,
       PaneStill
  <1>7. ASSUME NEW r \in Requests, RequestStep(r) PROVE RequestsTyped'
    <2>1. ASSUME NEW where \in Stages, At(r, where) PROVE RequestsTyped'
      BY <1>7, <2>1 DEF At, Moves, Request
    <2>2. ASSUME NEW where \in Stages, Ends(r, where) PROVE RequestsTyped'
      BY <1>0, <1>7, <2>2 DEF Ends
    <2>3. ASSUME NEW verb \in {"search", "read"}, NEW p \in Spellings, Ask(r, verb, p)
          PROVE  RequestsTyped'
      <3>1. {Real(p)} \cup InHand(p) \in SUBSET SUBSET Dirs
        BY RealTyped DEF InHand
      <3>2. QED
        BY <1>7, <2>3, <3>1 DEF Ask
    <2>4. CASE ScanVault(r)
      BY <1>7, <2>4, RealTyped DEF ScanVault, Moves, Request
    <2>5. CASE WriteRows(r)
      BY <1>7, <2>5 DEF WriteRows, Moves, Request
    <2>6. QED
      BY <1>7, <2>1, <2>2, <2>3, <2>4, <2>5 DEF RequestStep, JudgePath, JudgeListed, PruneDead,
         AnswerSearch, AnswerRead
  <1>8. QED
    BY <1>1, <1>2, <1>3, <1>4, <1>5, <1>6, <1>7 DEF ScopeNext

\* The types, for every step.
LEMMA ScopeTypedNext == ASSUME ScopeTyped, ScopeNext PROVE ScopeTyped'
  BY ListTypedNext, PlacesTypedNext, RequestsTypedNext DEF ScopeTyped

\* The mirror follows the list: it is cleared before the first root is pushed,
\* and a root is pushed once.
LEMMA MirrorNext ==
  ASSUME ScopeTyped, MirrorInv, ScopeNext PROVE MirrorInv'
  <1> USE DEF MirrorInv, MirrorIsMeant, MeantIsMirrored, PushedIsForgotten, registryVars
  <1>1. CASE UNCHANGED <<registryVars, meant>>
    BY <1>1
  <1>2. CASE Reload
    BY <1>2 DEF Reload, PushStarts
  <1>3. CASE ClearMirror
    BY <1>3 DEF ClearMirror, ClearedMirror, ScopeTyped, ListTyped
  <1>4. ASSUME NEW p \in Spellings, Register(p) PROVE MirrorInv'
    BY <1>4 DEF Register, PushStarts
  <1>5. ASSUME NEW p \in Spellings, PushRoot(p) PROVE MirrorInv'
    <2> USE <1>5 DEF PushRoot, ScopeTyped, ListTyped
    <2>1. MirrorIsMeant'
      <3>1. ASSUME NEW d \in Real(p) PROVE \E q \in roots' : meant'[q] = {d}
        BY <3>1 DEF Real
      <3>2. ASSUME NEW d \in mirror PROVE \E q \in roots' : meant'[q] = {d}
        <4>1. PICK q \in roots : meant[q] = {d}
          BY <3>2
        <4>2. q # p
          BY <4>1
        <4>3. QED
          BY <4>1, <4>2
      <3>3. QED
        BY <3>1, <3>2
    <2>2. MeantIsMirrored'
      OBVIOUS
    <2>3. PushedIsForgotten'
      OBVIOUS
    <2>4. QED
      BY <2>1, <2>2, <2>3
  <1>6. QED
    BY <1>1, <1>2, <1>3, <1>4, <1>5 DEF ScopeNext, MovePlaces, PaneCall, PaneIndex, Reindex,
       PaneSearch, PaneLinks, PaneGraph, PaneResolve, Shows, PaneStill, RequestStep, Ask, JudgePath,
       JudgeListed, ScanVault, WriteRows, PruneDead, AnswerSearch, AnswerRead, Ends, At, Moves,
       ScopeStill

\* What a waiting request has seen covers the rows a prune or a pass leaves.
LEMMA RowsStaySeen ==
  ASSUME ScopeTyped, SeenInv, UNCHANGED <<names, there, asked, during>>,
         \A p \in Spellings : indexed'[p] \in {indexed[p], Real(p)}
  PROVE  SeenInv'
  <1> USE DEF SeenInv, Waiting
  <1>1. SeesPlace' /\ SeesPasses' /\ PassesSearch'
    BY DEF SeesPlace, SeesPasses, PassesSearch, Real
  <1>2. SeesRows'
    <2> SUFFICES ASSUME NEW r \in Requests, asked[r].at \in {"written", "indexed"}
                 PROVE  indexed'[asked[r].path] \in during[r]
      BY DEF SeesRows
    <2>1. asked[r].path \in Spellings
      BY DEF ScopeTyped, RequestsTyped
    <2>2. indexed[asked[r].path] \in during[r] /\ Real(asked[r].path) \in during[r]
      BY DEF SeesRows, SeesPlace
    <2>3. QED
      BY <2>1, <2>2
  <1>3. QED
    BY <1>1, <1>2

\* A directory that comes or goes, and a link that turns, are seen.
LEMMA MoveIsSeen == ASSUME ScopeTyped, SeenInv, MovePlaces PROVE SeenInv'
  <1> USE DEF SeenInv, MovePlaces
  <1>1. ASSUME NEW r \in Requests
        PROVE  /\ during[r] \subseteq during'[r]
               /\ Waiting(r) => Real(asked[r].path)' \in during'[r]
    BY DEF LeadsTo, Real
  <1>2. SeesPlace'
    BY <1>1 DEF SeesPlace, Waiting, Real
  <1>3. SeesPasses' /\ SeesRows' /\ PassesSearch'
    BY <1>1 DEF SeesPasses, SeesRows, PassesSearch, Waiting
  <1>4. QED
    BY <1>2, <1>3

\* A request that goes on keeps what it has seen, and what it scans it sees.
LEMMA RequestSees ==
  ASSUME ScopeTyped, ScopeTyped', SeenInv, NEW r \in Requests, RequestStep(r) PROVE SeenInv'
  <1> USE DEF SeenInv, Waiting
  <1>1. ASSUME NEW verb \in {"search", "read"}, NEW p \in Spellings, Ask(r, verb, p)
        PROVE  SeenInv'
    <2> USE <1>1 DEF Ask, ScopeStill, placeVars
    <2>1. /\ \A q \in Requests \ {r} : asked'[q] = asked[q] /\ during'[q] = during[q]
          /\ asked'[r].at = "asked" /\ asked'[r].path = p
          /\ during'[r] = {Real(p)} \cup InHand(p)
      BY DEF ScopeTyped, RequestsTyped
    <2>2. UNCHANGED <<names, there, indexed>>
      OBVIOUS
    <2>3. SeesPlace'
      BY <2>1, <2>2 DEF SeesPlace, Real
    <2>4. SeesPasses'
      BY <2>1, <2>2 DEF SeesPasses, InHand
    <2>5. SeesRows' /\ PassesSearch'
      BY <2>1, <2>2 DEF SeesRows, PassesSearch
    <2>6. QED
      BY <2>3, <2>4, <2>5
  <1>2. ASSUME NEW where \in {"refused", "unlisted", "answered"}, Ends(r, where) PROVE SeenInv'
    <2> USE <1>2 DEF Ends, ScopeStill, placeVars
    <2>1. /\ \A q \in Requests \ {r} : asked'[q] = asked[q] /\ during'[q] = during[q]
          /\ asked'[r].at = where
      BY DEF ScopeTyped, RequestsTyped, NoRequest
    <2>2. UNCHANGED <<names, there, indexed>>
      OBVIOUS
    <2>3. SeesPlace' /\ SeesPasses'
      BY <2>1, <2>2 DEF SeesPlace, SeesPasses, Real
    <2>4. SeesRows' /\ PassesSearch'
      BY <2>1, <2>2 DEF SeesRows, PassesSearch
    <2>5. QED
      BY <2>3, <2>4
  <1>3. ASSUME NEW where \in {"directory", "listed"}, At(r, where), UNCHANGED indexed,
               asked[r].at \in {"asked", "directory"}
        PROVE  SeenInv'
    <2> USE <1>3 DEF At, Moves, Request, ScopeStill, placeVars
    <2>1. /\ \A q \in Requests \ {r} : asked'[q] = asked[q]
          /\ asked'[r].at = where /\ asked'[r].path = asked[r].path
      BY DEF ScopeTyped, RequestsTyped
    <2>2. UNCHANGED <<names, there, indexed, during>>
      OBVIOUS
    <2>3. SeesPlace' /\ SeesPasses'
      BY <2>1, <2>2 DEF SeesPlace, SeesPasses, Real
    <2>4. SeesRows' /\ PassesSearch'
      BY <2>1, <2>2 DEF SeesRows, PassesSearch
    <2>5. QED
      BY <2>3, <2>4
  <1>4. CASE ScanVault(r)
    <2> USE <1>4 DEF ScanVault, Moves, Request, ScopeStill, placeVars
    <2>1. /\ \A q \in Requests \ {r} : asked'[q] = asked[q]
          /\ asked'[r].at = "scanned" /\ asked'[r].path = asked[r].path
          /\ asked'[r].found = Real(asked[r].path) /\ asked'[r].verb = "search"
      BY DEF ScopeTyped, RequestsTyped
    <2>2. UNCHANGED <<names, there, indexed, during>>
      OBVIOUS
    <2>3. SeesPlace'
      BY <2>1, <2>2 DEF SeesPlace, Real
    <2>4. SeesPasses'
      BY <2>1, <2>2 DEF SeesPasses, SeesPlace
    <2>5. SeesRows' /\ PassesSearch'
      BY <2>1, <2>2 DEF SeesRows, PassesSearch
    <2>6. QED
      BY <2>3, <2>4, <2>5
  <1>5. CASE WriteRows(r)
    <2> USE <1>5 DEF WriteRows, Moves, Request, ScopeStill, placeVars, RowsOf
    <2>1. /\ \A q \in Requests \ {r} : asked'[q] = asked[q]
          /\ asked'[r].at = "written" /\ asked'[r].path = asked[r].path
          /\ asked'[r].verb = asked[r].verb
      BY DEF ScopeTyped, RequestsTyped
    <2>2. UNCHANGED <<names, there, during>>
      OBVIOUS
    <2>3. /\ \A p \in Spellings \ {asked[r].path} : indexed'[p] = indexed[p]
          /\ indexed'[asked[r].path] = asked[r].found
      BY DEF ScopeTyped, PlacesTyped, RequestsTyped
    <2>4. SeesPlace' /\ SeesPasses' /\ PassesSearch'
      BY <2>1, <2>2 DEF SeesPlace, SeesPasses, PassesSearch, Real
    <2>5. SeesRows'
      <3> SUFFICES ASSUME NEW q \in Requests, asked'[q].at \in {"written", "indexed"}
                   PROVE  indexed'[asked'[q].path] \in during'[q]
        BY DEF SeesRows
      <3>1. asked'[q].path = asked[q].path /\ asked[q].path \in Spellings
        BY <2>1 DEF ScopeTyped, RequestsTyped
      <3>2. CASE asked[q].path = asked[r].path
        BY <2>1, <2>2, <2>3, <3>1, <3>2 DEF SeesPasses
      <3>3. CASE asked[q].path # asked[r].path
        BY <2>1, <2>2, <2>3, <3>1, <3>3 DEF SeesRows
      <3>4. QED
        BY <3>2, <3>3
    <2>6. QED
      BY <2>4, <2>5
  <1>6. CASE PruneDead(r)
    <2> USE <1>6 DEF PruneDead, At, Moves, Request, ScopeStill, placeVars
    <2>1. /\ \A q \in Requests \ {r} : asked'[q] = asked[q]
          /\ asked'[r].at = "indexed" /\ asked'[r].path = asked[r].path
          /\ asked'[r].verb = asked[r].verb
      BY DEF ScopeTyped, RequestsTyped
    <2>2. UNCHANGED <<names, there, during>>
      OBVIOUS
    <2>3. \A p \in Spellings : indexed'[p] = indexed[p] \/ indexed'[p] = Real(p)
      BY DEF LiveRows, IsDir
    <2>4. SeesPlace' /\ SeesPasses' /\ PassesSearch'
      BY <2>1, <2>2 DEF SeesPlace, SeesPasses, PassesSearch, Real
    <2>5. SeesRows'
      <3> SUFFICES ASSUME NEW q \in Requests, asked'[q].at \in {"written", "indexed"}
                   PROVE  indexed'[asked'[q].path] \in during'[q]
        BY DEF SeesRows
      <3>1. /\ asked'[q].path = asked[q].path /\ asked[q].path \in Spellings
            /\ asked[q].at \in {"written", "indexed"}
        BY <2>1 DEF ScopeTyped, RequestsTyped
      <3>2. QED
        BY <2>2, <2>3, <3>1 DEF SeesRows, SeesPlace
    <2>6. QED
      BY <2>4, <2>5
  <1>7. QED
    BY <1>1, <1>2, <1>3, <1>4, <1>5, <1>6 DEF RequestStep, JudgePath, JudgeListed, AnswerSearch,
       AnswerRead

\* Every step.
LEMMA SeenNext == ASSUME ScopeTyped, ScopeTyped', SeenInv, ScopeNext PROVE SeenInv'
  <1> USE DEF registryVars, placeVars
  <1>1. CASE UNCHANGED <<names, there, asked, during, indexed>>
    BY <1>1, RowsStaySeen
  <1>2. CASE Reload
    BY <1>2 DEF Reload, SeenInv, SeesPlace, SeesPasses, SeesRows, PassesSearch, Waiting, NoRequest
  <1>3. ASSUME NEW p \in Spellings, PaneIndex(p) PROVE SeenInv'
    <2>1. \A q \in Spellings : indexed'[q] \in {indexed[q], Real(q)}
      BY <1>3 DEF PaneIndex, LiveRows, IsDir, ScopeTyped, PlacesTyped
    <2>2. QED
      BY <1>3, <2>1, RowsStaySeen DEF PaneIndex, PaneStill
  <1>4. QED
    BY <1>1, <1>2, <1>3, MoveIsSeen, RequestSees DEF ScopeNext, ClearMirror, Register, PushRoot,
       PaneCall, Reindex, PaneSearch, PaneLinks, PaneGraph, PaneResolve, Shows, PaneStill

\* The invariant holds along every behaviour.
LEMMA ScopeNextInv == ScopeInv /\ [ScopeNext]_scopeVars => ScopeInv'
  <1> SUFFICES ASSUME ScopeInv, [ScopeNext]_scopeVars PROVE ScopeInv'
    OBVIOUS
  <1>1. CASE ScopeNext
    BY <1>1, ScopeTypedNext, MirrorNext, SeenNext DEF ScopeInv
  <1>2. CASE UNCHANGED scopeVars
    <2>1. ScopeTyped'
      BY <1>2 DEF ScopeInv, ScopeTyped, ListTyped, PlacesTyped, RequestsTyped, scopeVars,
         registryVars, placeVars
    <2>2. MirrorInv'
      BY <1>2 DEF ScopeInv, MirrorInv, MirrorIsMeant, MeantIsMirrored, PushedIsForgotten, scopeVars,
         registryVars
    <2>3. SeenInv'
      BY <1>2, RowsStaySeen DEF ScopeInv, scopeVars, placeVars
    <2>4. QED
      BY <2>1, <2>2, <2>3 DEF ScopeInv
  <1>3. QED
    BY <1>1, <1>2

\* Only the judge of the mirror opens the gate or says "not registered".
LEMMA GateJudges ==
  ASSUME ScopeInv, ScopeNext, NEW r \in Requests, Becomes(r, "listed") \/ Becomes(r, "unlisted")
  PROVE  JudgeListed(r) /\ asked'[r].at = IF Registered(asked[r].path) THEN "listed" ELSE "unlisted"
  <1> USE DEF Becomes
  <1>1. asked \in [Requests -> [verb : {"none", "search", "read"}, path : Spellings, at : Stages,
                               found : SUBSET Dirs]]
    BY DEF ScopeInv, ScopeTyped, RequestsTyped
  <1>2. ~Reload
    BY DEF Reload, NoRequest
  <1>3. PICK q \in Requests : RequestStep(q)
    BY <1>2 DEF ScopeNext, MovePlaces, ClearMirror, Register, PushRoot, PaneCall, PaneIndex,
       Reindex, PaneSearch, PaneLinks, PaneGraph, PaneResolve, Shows, PaneStill
  <1>4. q = r
    BY <1>1, <1>3 DEF RequestStep, Ask, JudgePath, JudgeListed, ScanVault, WriteRows, PruneDead,
       AnswerSearch, AnswerRead, Ends, At, Moves
  <1>5. JudgeListed(r)
    BY <1>1, <1>3, <1>4 DEF RequestStep, Ask, JudgePath, ScanVault, WriteRows, PruneDead,
       AnswerSearch, AnswerRead, Ends, At, Moves, Request, NoRequest
  <1>6. QED
    BY <1>1, <1>5 DEF JudgeListed, Ends, At, Moves, Request, NoRequest

\* Only the two answers answer.
LEMMA AnswersAnswer ==
  ASSUME ScopeInv, ScopeNext, NEW r \in Requests, Becomes(r, "answered")
  PROVE  AnswerSearch(r) \/ (AnswerRead(r) /\ Contained(asked[r].path))
  <1> USE DEF Becomes
  <1>1. asked \in [Requests -> [verb : {"none", "search", "read"}, path : Spellings, at : Stages,
                               found : SUBSET Dirs]]
    BY DEF ScopeInv, ScopeTyped, RequestsTyped
  <1>2. ~Reload
    BY DEF Reload, NoRequest
  <1>3. PICK q \in Requests : RequestStep(q)
    BY <1>2 DEF ScopeNext, MovePlaces, ClearMirror, Register, PushRoot, PaneCall, PaneIndex,
       Reindex, PaneSearch, PaneLinks, PaneGraph, PaneResolve, Shows, PaneStill
  <1>4. q = r
    BY <1>1, <1>3 DEF RequestStep, Ask, JudgePath, JudgeListed, ScanVault, WriteRows, PruneDead,
       AnswerSearch, AnswerRead, Ends, At, Moves
  <1>5. AnswerSearch(r) \/ AnswerRead(r)
    BY <1>1, <1>3, <1>4 DEF RequestStep, Ask, JudgePath, JudgeListed, ScanVault, WriteRows,
       PruneDead, Ends, At, Moves, Request, NoRequest
  <1>6. QED
    BY <1>1, <1>5 DEF AnswerRead, Ends, NoRequest

\* What each step of a request may do.
LEMMA VerbStep ==
  ASSUME ScopeInv, ScopeNext PROVE GrantedIsListed /\ RefusalIsExplained /\ AnswersAreCurrent
  <1>1. GrantedIsListed
    <2> SUFFICES ASSUME NEW r \in Requests, Becomes(r, "listed")
                 PROVE  \E p \in roots : Real(asked[r].path) = meant[p]
      BY DEF GrantedIsListed
    <2>1. Registered(asked[r].path)
      BY GateJudges DEF Becomes
    <2>2. PICK d : Real(asked[r].path) = {d} /\ d \in mirror
      BY <2>1 DEF Registered, IsDir, Real
    <2>3. QED
      BY <2>2 DEF ScopeInv, MirrorInv, MirrorIsMeant
  <1>2. RefusalIsExplained
    <2> SUFFICES ASSUME NEW r \in Requests, Becomes(r, "unlisted"), asked[r].path \in roots,
                        meant[asked[r].path] = Real(asked[r].path), IsDir(asked[r].path)
                 PROVE  FALSE
      BY DEF RefusalIsExplained
    <2>1. ~Registered(asked[r].path)
      BY GateJudges DEF Becomes
    <2>2. meant[asked[r].path] \subseteq mirror
      BY DEF ScopeInv, MirrorInv, MeantIsMirrored, ScopeTyped, ListTyped
    <2>3. QED
      BY <2>1, <2>2 DEF Registered
  <1>3. AnswersAreCurrent
    <2> SUFFICES ASSUME NEW r \in Requests, Becomes(r, "answered") PROVE AnswerOf(r) \in during[r]
      BY DEF AnswersAreCurrent
    <2> USE DEF ScopeInv, SeenInv
    <2>1. CASE AnswerSearch(r)
      BY <2>1 DEF AnswerSearch, AnswerOf, SeesRows, PassesSearch
    <2>2. CASE AnswerRead(r)
      BY <2>2 DEF AnswerRead, AnswerOf, SeesPlace, Waiting
    <2>3. QED
      BY <2>1, <2>2, AnswersAnswer
  <1>4. QED
    BY <1>1, <1>2, <1>3

\* A request passes the gate only into a directory the user's list led to when
\* it was last pushed, a refusal is explained, and an answer shows the vault as
\* it was seen since the request came: for any directories, links, lists and
\* requests on the pool's threads (vault_ipc.rs, vault_api.rs, vault_registry.gd).
THEOREM VerbsStayInScope == ScopeSpec => VaultVerbsAreScoped
  <1>1. ScopeInv /\ [ScopeNext]_scopeVars =>
          [GrantedIsListed /\ RefusalIsExplained /\ AnswersAreCurrent]_scopeVars
    BY VerbStep
  <1>2. QED
    BY ScopeInitInv, ScopeNextInv, <1>1, PTL DEF ScopeSpec, VaultVerbsAreScoped

(***************************************************************************)
(* Recovery copies                                                         *)
(***************************************************************************)

CopyTyped ==
    /\ copyAt \in [Files -> [of : Owners \cup {<<>>}, text : Int]]
    /\ condemned \in [Windows -> SUBSET Files]
    /\ landed \in [Owners -> Int] /\ excused \subseteq Owners
WritingTyped ==
    /\ snapshots \in Nat
    /\ writing \in [Windows -> [step : {"idle", "prune", "located", "written"},
                                of : Owners \cup {<<>>}, text : Int]]
    /\ \A w \in Windows : writing[w].step # "idle" => writing[w].of \in Owners

(* A file holds the copy of a note it is the file of; a note whose copy is   *)
(* not in its file, and whoever shares a file that another note holds or a  *)
(* prune is about to remove, is excused.                                    *)
OfferedAsLanded == \A o \in Owners : copyAt[KeyOf[o]].of = o => copyAt[KeyOf[o]].text = landed[o]
HeldIsOfItsFile == \A f \in Files : copyAt[f].of \in Owners => KeyOf[copyAt[f].of] = f
MissingIsExcused == \A o \in Owners : landed[o] # 0 /\ copyAt[KeyOf[o]].of # o => o \in excused
SharersAreExcused ==
    \A o \in Owners : copyAt[KeyOf[o]].of \in Owners /\ copyAt[KeyOf[o]].of # o => o \in excused
CondemnedIsExcused ==
    \A w \in Windows, o \in Owners : KeyOf[o] \in condemned[w] => o \in excused
CopyInv ==
    /\ CopyTyped /\ WritingTyped
    /\ OfferedAsLanded /\ HeldIsOfItsFile /\ MissingIsExcused /\ SharersAreExcused
    /\ CondemnedIsExcused

\* A note is a pair, and its file is a file.
LEMMA OwnersHaveFiles ==
  /\ <<>> \notin Owners
  /\ \A o \in Owners : KeyOf[o] \in Files
  <1>1. ASSUME <<>> \in Owners PROVE FALSE
    <2>1. PICK v \in Vaults, p \in Paths : <<>> = <<v, p>>
      BY <1>1 DEF Owners
    <2>2. Len(<<>>) = 0 /\ Len(<<v, p>>) = 2
      OBVIOUS
    <2>3. QED
      BY <2>1, <2>2
  <1>2. QED
    BY <1>1 DEF Files

\* No copy is there at first.
LEMMA CopyInit == CopiesInit => CopyInv
  <1> SUFFICES ASSUME CopiesInit PROVE CopyInv
    OBVIOUS
  <1> USE OwnersHaveFiles DEF CopiesInit, Empty, Idle
  <1>1. CopyTyped /\ WritingTyped
    BY DEF CopyTyped, WritingTyped
  <1>2. /\ OfferedAsLanded /\ HeldIsOfItsFile /\ MissingIsExcused /\ SharersAreExcused
        /\ CondemnedIsExcused
    BY DEF OfferedAsLanded, HeldIsOfItsFile, MissingIsExcused, SharersAreExcused, CondemnedIsExcused
  <1>3. QED
    BY <1>1, <1>2 DEF CopyInv

\* A step that leaves the files and what is told of them alone.
LEMMA CopiesStand ==
  ASSUME CopyInv, WritingTyped', UNCHANGED <<copyAt, landed, excused>>,
         condemned' \in [Windows -> SUBSET Files],
         \A w \in Windows : condemned'[w] \subseteq condemned[w]
  PROVE  CopyInv'
  BY DEF CopyInv, CopyTyped, OfferedAsLanded, HeldIsOfItsFile, MissingIsExcused,
         SharersAreExcused, CondemnedIsExcused

\* What a window writes has an owner, at every step.
LEMMA WritingNext ==
  ASSUME CopyInv, CopiesNext PROVE WritingTyped'
  <1> USE DEF WritingTyped, CopyInv, History
  <1>1. ASSUME NEW w \in Windows, NEW o \in Owners, TakeCopy(w, o) PROVE WritingTyped'
    BY <1>1 DEF TakeCopy
  <1>2. ASSUME NEW w \in Windows, UNCHANGED snapshots, Gives(w) PROVE WritingTyped'
    BY <1>2 DEF Gives, Idle
  <1>3. ASSUME NEW w \in Windows, NEW where \in {"located", "written"}, UNCHANGED snapshots,
               Step(w, where), writing[w].step # "idle"
        PROVE  WritingTyped'
    BY <1>3 DEF Step
  <1>4. CASE UNCHANGED <<writing, snapshots>>
    BY <1>4
  <1>5. ASSUME NEW w \in Windows, Locate(w) \/ WriteTemp(w) \/ LandCopy(w) \/ Kill(w)
        PROVE  WritingTyped'
    BY <1>2, <1>3, <1>5 DEF Locate, WriteTemp, LandCopy, Kill
  <1>6. QED
    BY <1>1, <1>4, <1>5 DEF CopiesNext, ClearCopy, JudgeCopy, PruneTemp, RemoveCopy, Age, MoveVault,
       DamageCopy

\* A prune condemns a file only when every note of that file is excused.
LEMMA JudgeExcuses ==
  ASSUME CopyInv, WritingTyped', NEW w \in Windows, NEW f \in Files, JudgeCopy(w, f)
  PROVE  CopyInv'
  <1> USE OwnersHaveFiles DEF CopyInv, JudgeCopy
  <1>1. CopyTyped'
    BY DEF CopyTyped
  <1>2. /\ OfferedAsLanded' /\ HeldIsOfItsFile' /\ MissingIsExcused' /\ SharersAreExcused'
    BY DEF OfferedAsLanded, HeldIsOfItsFile, MissingIsExcused, SharersAreExcused
  <1>3. ASSUME Orphaned(copyAt[f]), NEW o \in Owners, KeyOf[o] = f PROVE o \in excused'
    <2>1. copyAt[f].of \in Owners
      BY <1>3 DEF Orphaned, CopyTyped
    <2>2. CASE copyAt[f].of = o
      BY <1>3, <2>2 DEF Orphaned, SeenGone
    <2>3. CASE copyAt[f].of # o
      BY <1>3, <2>1, <2>3 DEF SharersAreExcused
    <2>4. QED
      BY <2>2, <2>3
  <1>4. CondemnedIsExcused'
    BY <1>3 DEF CondemnedIsExcused, CopyTyped
  <1>5. QED
    BY <1>1, <1>2, <1>4

\* What a prune removes was excused when it was condemned.
LEMMA RemovalExcused ==
  ASSUME CopyInv, WritingTyped', NEW w \in Windows, RemoveCopy(w) PROVE CopyInv'
  <1> USE OwnersHaveFiles DEF CopyInv, RemoveCopy, History, Empty
  <1>1. CopyTyped'
    BY DEF CopyTyped
  <1>2. OfferedAsLanded' /\ HeldIsOfItsFile'
    BY DEF CopyTyped, OfferedAsLanded, HeldIsOfItsFile
  <1>3. MissingIsExcused'
    BY DEF CopyTyped, MissingIsExcused, CondemnedIsExcused
  <1>4. SharersAreExcused'
    BY DEF CopyTyped, SharersAreExcused
  <1>5. CondemnedIsExcused'
    BY DEF CopyTyped, CondemnedIsExcused
  <1>6. QED
    BY <1>1, <1>2, <1>3, <1>4, <1>5

\* A copy that lands is its note's, and excuses the notes that share its file.
LEMMA LandingExcuses ==
  ASSUME CopyInv, WritingTyped', NEW w \in Windows, LandCopy(w),
         ~UNCHANGED <<copyAt, landed, excused>>
  PROVE  CopyInv'
  <1> DEFINE o == writing[w].of
  <1> USE OwnersHaveFiles DEF CopyInv
  <1>1. o \in Owners /\ writing[w].text \in Int
    BY DEF LandCopy, WritingTyped
  <1>2. /\ copyAt' = [copyAt EXCEPT ![KeyOf[o]] = [of |-> o, text |-> writing[w].text]]
        /\ landed' = [landed EXCEPT ![o] = writing[w].text]
        /\ excused' = (IF Doomed(o) THEN excused ELSE excused \ {o}) \cup Sharing(o)
        /\ UNCHANGED condemned
    BY DEF LandCopy
  <1> HIDE DEF o
  <1>3. /\ copyAt'[KeyOf[o]] = [of |-> o, text |-> writing[w].text]
        /\ \A f \in Files \ {KeyOf[o]} : copyAt'[f] = copyAt[f]
        /\ landed'[o] = writing[w].text /\ \A p \in Owners \ {o} : landed'[p] = landed[p]
    BY <1>1, <1>2 DEF CopyTyped
  <1>4. /\ \A p \in Owners \ {o} : p \in excused => p \in excused'
        /\ \A p \in Owners \ {o} : KeyOf[p] = KeyOf[o] => p \in excused'
    BY <1>1, <1>2 DEF Sharing
  <1>5. CopyTyped'
    BY <1>1, <1>2 DEF CopyTyped, Sharing
  <1>6. OfferedAsLanded'
    BY <1>1, <1>3 DEF OfferedAsLanded
  <1>7. HeldIsOfItsFile'
    BY <1>1, <1>3 DEF HeldIsOfItsFile
  <1>8. MissingIsExcused'
    BY <1>1, <1>3, <1>4 DEF MissingIsExcused
  <1>9. SharersAreExcused'
    BY <1>1, <1>3, <1>4 DEF SharersAreExcused, HeldIsOfItsFile
  <1>10. CondemnedIsExcused'
    BY <1>1, <1>2, <1>4 DEF CondemnedIsExcused, Doomed
  <1>11. QED
    BY <1>5, <1>6, <1>7, <1>8, <1>9, <1>10

\* A copy that is cleared, or damaged.
LEMMA LossExcused ==
  ASSUME CopyInv, WritingTyped',
         \/ \E w \in Windows, o \in Owners : ClearCopy(w, o)
         \/ \E f \in Files : DamageCopy(f)
  PROVE  CopyInv'
  <1> USE OwnersHaveFiles DEF CopyInv, Empty, NotARecord
  <1>1. ASSUME NEW w \in Windows, NEW o \in Owners, ClearCopy(w, o) PROVE CopyInv'
    <2>1. CopyTyped'
      BY <1>1 DEF ClearCopy, CopyTyped, Sharing
    <2>2. OfferedAsLanded' /\ HeldIsOfItsFile'
      BY <1>1 DEF ClearCopy, CopyTyped, OfferedAsLanded, HeldIsOfItsFile
    <2>3. MissingIsExcused' /\ SharersAreExcused' /\ CondemnedIsExcused'
      BY <1>1 DEF ClearCopy, CopyTyped, MissingIsExcused, SharersAreExcused, CondemnedIsExcused,
         Sharing
    <2>4. QED
      BY <2>1, <2>2, <2>3
  <1>2. ASSUME NEW f \in Files, DamageCopy(f) PROVE CopyInv'
    <2>1. CopyTyped'
      BY <1>2 DEF DamageCopy, CopyTyped
    <2>2. OfferedAsLanded' /\ HeldIsOfItsFile'
      BY <1>2 DEF DamageCopy, CopyTyped, OfferedAsLanded, HeldIsOfItsFile
    <2>3. MissingIsExcused' /\ SharersAreExcused' /\ CondemnedIsExcused'
      BY <1>2 DEF DamageCopy, CopyTyped, MissingIsExcused, SharersAreExcused, CondemnedIsExcused
    <2>4. QED
      BY <2>1, <2>2, <2>3
  <1>3. QED
    BY <1>1, <1>2

\* Every step.
LEMMA CopyNext == CopyInv /\ [CopiesNext]_copyVars => CopyInv'
  <1> SUFFICES ASSUME CopyInv, [CopiesNext]_copyVars PROVE CopyInv'
    OBVIOUS
  <1>1. CASE UNCHANGED copyVars
    <2>1. WritingTyped'
      BY <1>1 DEF CopyInv, WritingTyped, copyVars
    <2>2. QED
      BY <1>1, <2>1, CopiesStand DEF CopyInv, CopyTyped, copyVars
  <1>2. CASE CopiesNext
    <2>1. WritingTyped'
      BY <1>2, WritingNext
    <2>2. CASE UNCHANGED <<copyAt, landed, excused, condemned>>
      BY <2>1, <2>2, CopiesStand DEF CopyInv, CopyTyped
    <2>3. ASSUME NEW w \in Windows, Kill(w) PROVE CopyInv'
      BY <2>1, <2>3, CopiesStand DEF CopyInv, CopyTyped, Kill
    <2>4. ASSUME NEW w \in Windows, LandCopy(w) PROVE CopyInv'
      <3>1. CASE ~UNCHANGED <<copyAt, landed, excused>>
        BY <2>1, <2>4, <3>1, LandingExcuses
      <3>2. CASE UNCHANGED <<copyAt, landed, excused>>
        BY <2>2, <2>4, <3>2 DEF LandCopy
      <3>3. QED
        BY <3>1, <3>2
    <2>5. QED
      BY <1>2, <2>1, <2>2, <2>3, <2>4, JudgeExcuses, RemovalExcused, LossExcused DEF CopiesNext,
         TakeCopy, PruneTemp, Locate, WriteTemp, Age, MoveVault, History
  <1>3. QED
    BY <1>1, <1>2

\* While a note's vault is a directory, its file offers the text that landed
\* last, or nothing when it was cleared or excused.
LEMMA CopyCounts == CopyInv => CopiesAreKept
  <1> SUFFICES ASSUME CopyInv PROVE OfferedIsOwn /\ CopiesOutliveOutages
    BY DEF CopiesAreKept
  <1>1. OfferedIsOwn
    BY DEF OfferedIsOwn, Offered, CopyInv, OfferedAsLanded
  <1>2. CopiesOutliveOutages
    BY DEF CopiesOutliveOutages, Offered, CopyInv, OfferedAsLanded, MissingIsExcused
  <1>3. QED
    BY <1>1, <1>2

\* What is offered for a note is the last text of that note that landed, and a
\* copy goes only with its vault, by damage or to a note of the same hash: for
\* any vaults, notes and windows that write, prune, clear and die at any step
\* (write_scratch, prune_scratch, clear_scratch, read_scratch).
THEOREM LandedCopiesAreKept == CopiesSpec => []CopiesAreKept
  BY CopyInit, CopyNext, CopyCounts, PTL DEF CopiesSpec

(***************************************************************************)
(* The note editor: types                                                  *)
(***************************************************************************)

Numbers == 0..texts
CopiesOfTexts == [Names -> [text : Numbers, stamp : Numbers]]
FilesTyped ==
    /\ texts \in Nat /\ Cardinality(Names) <= texts /\ texts <= MaxTexts + 1
    /\ disk \in [Names -> Numbers] /\ base \in [0..MaxTexts + 1 -> Numbers]
BufferTyped ==
    /\ open \in Names \cup {"none"}
    /\ text \in Numbers /\ saved \in Numbers /\ stamp \in Numbers
CopiesTyped ==
    /\ copies \in CopiesOfTexts /\ owed \in [Names -> Numbers] /\ discarded \in Numbers
QuestionTyped ==
    /\ offered \in [name : Names \cup {"none"}, text : Numbers, stamp : Numbers]
    /\ ask \in {"none", "leave", "overwrite", "restore"} /\ next \in Goals
    /\ saving \in {"no", "save", "force"}
EditorTyped == FilesTyped /\ BufferTyped /\ CopiesTyped /\ QuestionTyped

\* The names are counted.
LEMMA NamesCounted == Cardinality(Names) \in Nat
  BY EditorAssumption, FS_CardinalityType

\* The list is on the screen at first.
LEMMA EditorTypedInit == EditorInit => EditorTyped
  BY EditorAssumption, NamesCounted DEF EditorInit, EditorTyped, FilesTyped, BufferTyped, CopiesTyped,
     QuestionTyped, Numbers, CopiesOfTexts, NoCopy, NoOffer, Goals

\* A copy that is dropped, a debt that is answered.
LEMMA DroppedTyped ==
  ASSUME EditorTyped, NEW name \in Names \cup {"none"}
  PROVE  Dropped(name) \in CopiesOfTexts /\ Answered(name) \in [Names -> Numbers]
  BY DEF EditorTyped, FilesTyped, CopiesTyped, Numbers, CopiesOfTexts, Dropped, Answered, NoCopy

\* Leaving for another note, the list or the end.
LEMMA ProceedTyped ==
  ASSUME EditorTyped, NEW goal \in Goals, NEW kept \in CopiesOfTexts,
         NEW debt \in [Names -> Numbers], UNCHANGED texts, Proceed(goal, kept, debt)
  PROVE  /\ BufferTyped'
         /\ copies' \in CopiesOfTexts /\ owed' \in [Names -> Numbers]
         /\ offered' \in [name : Names \cup {"none"}, text : Numbers, stamp : Numbers]
         /\ ask' \in {"none", "restore"}
  <1> USE DEF EditorTyped, FilesTyped, BufferTyped, CopiesTyped, QuestionTyped, Numbers, CopiesOfTexts
  <1>1. CASE goal \in Names /\ OpenNote(goal, kept, debt)
    <2>1. copies' \in CopiesOfTexts /\ owed' \in [Names -> Numbers]
      <3>1. NoCopy \in [text : Numbers, stamp : Numbers]
        BY DEF NoCopy
      <3>2. [kept EXCEPT ![goal] = NoCopy] \in CopiesOfTexts
        BY <3>1
      <3>3. 0 \in Numbers /\ [debt EXCEPT ![goal] = 0] \in [Names -> Numbers]
        BY <1>1
      <3>4. QED
        BY <1>1, <3>2, <3>3 DEF OpenNote
    <2>2. BufferTyped' /\ ask' \in {"none", "restore"}
      BY <1>1 DEF OpenNote
    <2>3. offered' \in [name : Names \cup {"none"}, text : Numbers, stamp : Numbers]
      BY <1>1 DEF OpenNote
    <2>4. QED
      BY <2>1, <2>2, <2>3
  <1>2. CASE Clear /\ ask' = "none" /\ copies' = kept /\ owed' = debt /\ UNCHANGED offered
    BY <1>2 DEF Clear
  <1>3. QED
    BY <1>1, <1>2 DEF Proceed

\* A save, and what it was for.
LEMMA SaveTyped ==
  ASSUME EditorTyped, NEW goal \in Goals, open \in Names, NEW force,
         UNCHANGED <<texts, base>>, next' \in Goals, saving' \in {"no", "save", "force"},
         SaveNote(force, goal)
  PROVE  EditorTyped'
  <1> USE DEF EditorTyped, FilesTyped, QuestionTyped, CopiesTyped, BufferTyped, Numbers
  <1>1. /\ disk' = [disk EXCEPT ![open] = text] \/ disk' = disk
        /\ discarded' \in {0, discarded}
    BY DEF SaveNote
  <1>2. FilesTyped' /\ discarded' \in Numbers'
    <2>1. [disk EXCEPT ![open] = text] \in [Names -> Numbers]
      OBVIOUS
    <2>2. QED
      BY <1>1, <2>1
  <1>3. CASE Proceed(goal, Dropped(open), Answered(open))
    BY <1>2, <1>3, ProceedTyped, DroppedTyped DEF CopiesOfTexts
  <1>4. CASE /\ CalledOff(goal, Dropped(open), Answered(open))
             /\ saved' = text /\ stamp' = text
    BY <1>2, <1>4, DroppedTyped DEF CalledOff, CopiesOfTexts
  <1>5. CASE UNCHANGED <<buffer, copies, offered, owed>> /\ ask' \in {ask, "overwrite"}
    BY <1>2, <1>5 DEF buffer, CopiesOfTexts
  <1>6. QED
    BY <1>3, <1>4, <1>5 DEF SaveNote

\* Opening, leaving and the questions.
LEMMA QuestionsTyped ==
  ASSUME EditorTyped, \/ Leave \/ DiscardAnswer \/ CancelAnswer \/ SaveAnswer \/ Restore
                      \/ DiscardCopy \/ NotNow \/ OpenPane \/ Save \/ SaveNow
  PROVE  EditorTyped'
  <1> USE DEF EditorTyped, FilesTyped, BufferTyped, CopiesTyped, QuestionTyped, Numbers,
              buffer, question, history
  <1>1. CASE Leave
    <2>1. PICK goal \in Goals :
            \/ Proceed(goal, copies, owed) /\ UNCHANGED next
            \/ /\ ask' = "leave" /\ next' = goal
               /\ UNCHANGED <<buffer, copies, offered, owed>>
      BY <1>1 DEF Leave
    <2>2. UNCHANGED <<disk, saving, texts, base, discarded>>
      BY <1>1 DEF Leave
    <2>3. CASE Proceed(goal, copies, owed) /\ UNCHANGED next
      BY <2>2, <2>3, ProceedTyped DEF CopiesOfTexts
    <2>4. QED
      BY <2>1, <2>2, <2>3 DEF CopiesOfTexts
  <1>2. CASE DiscardAnswer
    <2>1. UNCHANGED <<disk, next, saving, texts, base>> /\ discarded' = text
      BY <1>2 DEF DiscardAnswer
    <2>2. CASE Proceed(next, Dropped(open), Answered(open))
      BY <2>1, <2>2, ProceedTyped, DroppedTyped DEF CopiesOfTexts
    <2>3. CASE CalledOff(next, Dropped(open), Answered(open)) /\ UNCHANGED <<saved, stamp>>
      BY <2>1, <2>3, DroppedTyped DEF CalledOff, CopiesOfTexts
    <2>4. QED
      BY <1>2, <2>2, <2>3 DEF DiscardAnswer, DroppedOnDiscard
  <1>3. CASE CancelAnswer \/ SaveAnswer \/ NotNow \/ OpenPane
    BY <1>3, DroppedTyped DEF CancelAnswer, SaveAnswer, NotNow, OpenPane, CopiesOfTexts
  <1>4. CASE Restore
    <2>1. /\ BufferTyped' /\ FilesTyped' /\ CopiesTyped'
      BY <1>4, DroppedTyped DEF Restore, CopiesOfTexts
    <2>2. QuestionTyped'
      BY <1>4 DEF Restore, NoOffer
    <2>3. QED
      BY <2>1, <2>2
  <1>5. CASE DiscardCopy
    <2>1. BufferTyped' /\ FilesTyped'
      BY <1>5 DEF DiscardCopy
    <2>2. CopiesTyped'
      BY <1>5, DroppedTyped DEF DiscardCopy, CopiesOfTexts
    <2>3. QuestionTyped'
      BY <1>5 DEF DiscardCopy, NoOffer
    <2>4. QED
      BY <2>1, <2>2, <2>3
  <1>6. CASE Save
    <2>1. /\ open \in Names /\ UNCHANGED <<texts, base, saving>> /\ next' = "stay"
          /\ SaveNote(FALSE, "stay")
      BY <1>6 DEF Save, Editable
    <2>2. QED
      BY <2>1, SaveTyped DEF Goals
  <1>7. CASE SaveNow
    <2>1. UNCHANGED <<next, texts, base>> /\ saving' = "no"
      BY <1>7 DEF SaveNow
    <2>2. CASE open \in Names /\ SaveNote(saving = "force", next)
      BY <2>1, <2>2, SaveTyped
    <2>3. QED
      BY <1>7, <2>1, <2>2 DEF SaveNow, Editable, CopiesOfTexts
  <1>8. QED
    BY <1>1, <1>2, <1>3, <1>4, <1>5, <1>6, <1>7

\* What is well typed stays so when another text is written.
LEMMA OneMoreText ==
  ASSUME EditorTyped, CanWrite, texts' = NewText
  PROVE  /\ texts' \in Nat /\ Cardinality(Names) <= texts' /\ texts' <= MaxTexts + 1
         /\ NewText \in Numbers' /\ NewText \in 0..MaxTexts + 1 /\ Numbers \subseteq Numbers'
         /\ [Names -> Numbers] \subseteq [Names -> Numbers']
         /\ [0..MaxTexts + 1 -> Numbers] \subseteq [0..MaxTexts + 1 -> Numbers']
         /\ CopiesOfTexts \subseteq CopiesOfTexts'
         /\ [name : Names \cup {"none"}, text : Numbers, stamp : Numbers]
              \subseteq [name : Names \cup {"none"}, text : Numbers', stamp : Numbers']
  <1> USE NamesCounted, EditorAssumption DEF EditorTyped, FilesTyped, CanWrite, NewText
  <1>1. /\ texts' \in Nat /\ Cardinality(Names) <= texts' /\ texts' <= MaxTexts + 1
        /\ NewText \in 0..texts' /\ NewText \in 0..MaxTexts + 1 /\ 0..texts \subseteq 0..texts'
    OBVIOUS
  <1>2. [text : Numbers, stamp : Numbers] \subseteq [text : Numbers', stamp : Numbers']
    BY <1>1 DEF Numbers
  <1>3. QED
    BY <1>1, <1>2 DEF Numbers, CopiesOfTexts

\* A copy of the buffer.
LEMMA SnapshotTyped ==
  ASSUME EditorTyped, NEW kept \in CopiesOfTexts, NEW name \in Names, Snapshot(kept, name)
  PROVE  copies' \in CopiesOfTexts
  <1>1. CopyOfBuffer \in [text : Numbers, stamp : Numbers]
    BY DEF CopyOfBuffer, EditorTyped, BufferTyped
  <1>2. [kept EXCEPT ![name] = CopyOfBuffer] \in CopiesOfTexts
    BY <1>1 DEF CopiesOfTexts
  <1>3. QED
    BY <1>2 DEF Snapshot

\* Typing, renaming, deleting, and what happens to the pane and its files.
LEMMA WorkTyped ==
  ASSUME EditorTyped, \/ Type \/ Undo \/ TimerFires \/ Rename \/ AdoptRewrite \/ Delete
                      \/ ChangeVault \/ OutsideEdit \/ Crash
  PROVE  EditorTyped'
  <1>1. CASE Type
    <2>1. texts' = NewText /\ CanWrite
      BY <1>1 DEF Type
    <2>2. base' \in [0..MaxTexts + 1 -> Numbers]
      <3>1. base[text] \in Numbers /\ saved \in Numbers
        BY EditorAssumption DEF EditorTyped, FilesTyped, BufferTyped, Numbers
      <3>2. \A x \in Numbers :
              [base EXCEPT ![NewText] = x] \in [0..MaxTexts + 1 -> Numbers]
        BY DEF EditorTyped, FilesTyped
      <3>3. QED
        BY <1>1, <3>1, <3>2 DEF Type
    <2>3. FilesTyped'
      BY <1>1, <2>1, <2>2, OneMoreText DEF EditorTyped, FilesTyped, Type
    <2>4. BufferTyped' /\ CopiesTyped' /\ QuestionTyped'
      BY <1>1, <2>1, OneMoreText, DroppedTyped DEF EditorTyped, BufferTyped, CopiesTyped,
         QuestionTyped, Type, question, Numbers
    <2>5. QED
      BY <2>3, <2>4 DEF EditorTyped
  <1>2. CASE Undo
    BY <1>2 DEF Undo, EditorTyped, FilesTyped, BufferTyped, CopiesTyped, QuestionTyped, Numbers,
       CopiesOfTexts, question, history
  <1>3. CASE TimerFires
    <2>1. UNCHANGED <<disk, open, text, saved, stamp, ask, next, saving, offered, texts, base, owed,
                      discarded>>
      BY <1>3 DEF TimerFires, buffer, question
    <2>2. copies' \in CopiesOfTexts
      BY <1>3, SnapshotTyped DEF TimerFires, Dirty, Editable, EditorTyped, BufferTyped, CopiesTyped
    <2>3. QED
      BY <2>1, <2>2 DEF EditorTyped, FilesTyped, BufferTyped, CopiesTyped, QuestionTyped, Numbers,
         CopiesOfTexts
  <1>4. CASE Rename
    <2>1. PICK new \in Names :
            /\ disk' = [disk EXCEPT ![new] = disk[open], ![open] = 0] /\ open' = new
            /\ owed' = [owed EXCEPT ![new] = 0, ![open] = 0]
            /\ Snapshot(Dropped(open), new) \/ copies' = Dropped(open)
      BY <1>4 DEF Rename
    <2>2. UNCHANGED <<text, saved, stamp, ask, next, saving, offered, texts, base>> /\ discarded' = 0
      BY <1>4 DEF Rename, question
    <2>3. copies' \in CopiesOfTexts
      BY <2>1, SnapshotTyped, DroppedTyped DEF EditorTyped, BufferTyped
    <2>4. open \in Names
      BY <1>4 DEF Rename, EditorTyped, BufferTyped
    <2>5. disk' \in [Names -> Numbers] /\ owed' \in [Names -> Numbers] /\ 0 \in Numbers
      <3>1. \A f \in [Names -> Numbers], m, n \in Names, x, y \in Numbers :
              [f EXCEPT ![m] = x, ![n] = y] \in [Names -> Numbers]
        OBVIOUS
      <3>2. 0 \in Numbers /\ disk[open] \in Numbers
        BY <2>4 DEF EditorTyped, FilesTyped, Numbers
      <3>3. QED
        BY <2>1, <2>4, <3>1, <3>2 DEF EditorTyped, FilesTyped, CopiesTyped
    <2>6. QED
      BY <2>1, <2>2, <2>3, <2>5 DEF EditorTyped, FilesTyped, BufferTyped, CopiesTyped, QuestionTyped,
         Numbers, CopiesOfTexts
  <1>5. CASE AdoptRewrite
    <2>1. texts' = NewText /\ CanWrite /\ open \in Names
      BY <1>5 DEF AdoptRewrite, Editable, EditorTyped, BufferTyped
    <2>2. FilesTyped'
      BY <1>5, <2>1, OneMoreText DEF EditorTyped, FilesTyped, AdoptRewrite
    <2>3. BufferTyped' /\ CopiesTyped' /\ QuestionTyped'
      BY <1>5, <2>1, OneMoreText DEF EditorTyped, BufferTyped, CopiesTyped, QuestionTyped,
         AdoptRewrite, question
    <2>4. QED
      BY <2>2, <2>3 DEF EditorTyped
  <1>6. CASE Delete \/ ChangeVault
    <2>1. /\ disk' \in {disk, [disk EXCEPT ![open] = 0]} /\ copies' = Dropped(open)
          /\ owed' = Answered(open) /\ discarded' = text /\ Clear
          /\ UNCHANGED <<ask, next, saving, offered, texts, base>>
      BY <1>6 DEF Delete, ChangeVault, question
    <2>2. disk' \in [Names -> Numbers]
      BY <2>1 DEF EditorTyped, FilesTyped, Numbers
    <2>3. FilesTyped' /\ BufferTyped'
      BY <2>1, <2>2 DEF EditorTyped, FilesTyped, BufferTyped, Numbers, Clear
    <2>4. CopiesTyped' /\ QuestionTyped'
      BY <2>1, DroppedTyped DEF EditorTyped, BufferTyped, CopiesTyped, QuestionTyped, Numbers,
         CopiesOfTexts
    <2>5. QED
      BY <2>3, <2>4 DEF EditorTyped
  <1>7. CASE OutsideEdit
    <2>1. texts' = NewText /\ CanWrite
      BY <1>7 DEF OutsideEdit
    <2>2. PICK n \in Names : \E t \in {NewText, 0} :
            disk' = [disk EXCEPT ![n] = t] /\ base' = [base EXCEPT ![NewText] = disk[n]]
      BY <1>7 DEF OutsideEdit
    <2>3. FilesTyped'
      BY <2>1, <2>2, OneMoreText DEF EditorTyped, FilesTyped, Numbers
    <2>4. BufferTyped' /\ CopiesTyped' /\ QuestionTyped'
      BY <1>7, <2>1, OneMoreText DEF EditorTyped, BufferTyped, CopiesTyped, QuestionTyped,
         OutsideEdit, question, buffer
    <2>5. QED
      BY <2>3, <2>4 DEF EditorTyped
  <1>8. CASE Crash
    <2>1. /\ disk' \in {disk, [disk EXCEPT ![open] = text]}
          /\ owed' \in {Answered(open), owed, [owed EXCEPT ![open] = text]}
          /\ UNCHANGED <<copies, next, texts, base, discarded>>
          /\ ask' = "none" /\ saving' = "no" /\ offered' = NoOffer /\ Clear
      BY <1>8 DEF Crash
    <2>2. disk' \in [Names -> Numbers] /\ owed' \in [Names -> Numbers]
      BY <2>1, DroppedTyped DEF EditorTyped, FilesTyped, BufferTyped, CopiesTyped
    <2>3. FilesTyped' /\ BufferTyped'
      BY <2>1, <2>2 DEF EditorTyped, FilesTyped, BufferTyped, Numbers, Clear
    <2>4. CopiesTyped' /\ QuestionTyped'
      BY <2>1, <2>2 DEF EditorTyped, FilesTyped, CopiesTyped, QuestionTyped, Numbers,
         CopiesOfTexts, NoOffer
    <2>5. QED
      BY <2>3, <2>4 DEF EditorTyped
  <1>9. QED
    BY <1>1, <1>2, <1>3, <1>4, <1>5, <1>6, <1>7, <1>8

\* Every step.
LEMMA EditorTypedNext == EditorTyped /\ [EditorNext]_editorVars => EditorTyped'
  <1>1. ASSUME EditorTyped, UNCHANGED editorVars PROVE EditorTyped'
    BY <1>1 DEF EditorTyped, FilesTyped, BufferTyped, CopiesTyped, QuestionTyped, Numbers,
       CopiesOfTexts, editorVars
  <1>2. QED
    BY <1>1, QuestionsTyped, WorkTyped DEF EditorNext

(***************************************************************************)
(* The note editor: no two names share a text                              *)
(***************************************************************************)

(* What a name's file, copy and buffer say, and where it came from.         *)
Has(n, t) ==
    \/ t = disk[n] \/ t = copies[n].text \/ t = copies[n].stamp
    \/ n = open /\ t \in {text, saved, stamp}
OneHome == \A m, n \in Names, t \in Numbers \ {0} : Has(m, t) /\ Has(n, t) => m = n

(* A buffer says something, and was loaded from something.                  *)
Loaded ==
    /\ open = "none" => text = 0 /\ saved = 0 /\ stamp = 0
    /\ open # "none" => text # 0 /\ saved # 0 /\ stamp # 0
    /\ \A n \in Names : copies[n].text # 0 => copies[n].stamp # 0

(* The copy that is offered is the open note's own, and nobody else's.      *)
OfferStands ==
    ask = "restore" =>
      /\ offered.name \in Names /\ open \in {offered.name, "none"}
      /\ offered.text # 0 /\ \A n \in Names \ {offered.name} : copies[n].text # offered.text
      /\ open = "none" => owed[offered.name] = 0
      /\ open # "none" =>
           /\ copies[open].text = offered.text /\ copies[open].stamp = offered.stamp
           /\ ~armed /\ text = saved
           /\ disk[open] = offered.stamp => saved = offered.stamp

\* Nobody has a number that is only given now.
LEMMA NewIsNobodys ==
  ASSUME EditorTyped, NEW n \in Names PROVE ~Has(n, NewText)
  BY DEF EditorTyped, FilesTyped, BufferTyped, CopiesTyped, CopiesOfTexts, Numbers, Has, NewText

\* A step by which a name comes to nothing it did not have.
LEMMA HomesKept ==
  ASSUME EditorTyped, OneHome, UNCHANGED texts,
         \A n \in Names, t \in Numbers \ {0} : Has(n, t)' => Has(n, t)
  PROVE  OneHome'
  BY DEF OneHome, Numbers

\* A step by which one name gets the new text, and no other anything.
LEMMA NewHome ==
  ASSUME EditorTyped, OneHome, texts' = NewText, NEW new \in Names,
         \A n \in Names, t \in Numbers' \ {0} : Has(n, t)' => Has(n, t) \/ (n = new /\ t = NewText)
  PROVE  OneHome'
  <1> SUFFICES ASSUME NEW m \in Names, NEW n \in Names, NEW t \in Numbers' \ {0},
                      Has(m, t)', Has(n, t)'
               PROVE  m = n
    BY DEF OneHome
  <1>1. CASE t = NewText
    BY <1>1, NewIsNobodys
  <1>2. CASE t # NewText
    <2>1. t \in Numbers \ {0}
      BY <1>2 DEF Numbers, NewText, EditorTyped, FilesTyped
    <2>2. QED
      BY <1>2, <2>1 DEF OneHome
  <1>3. QED
    BY <1>1, <1>2

\* Leaving for another note: the buffer takes what that file says.
LEMMA ProceedHas ==
  ASSUME EditorTyped, NEW goal \in Goals, goal # open, NEW kept \in {copies, Dropped(open)},
         NEW debt, Proceed(goal, kept, debt),
         \A n \in Names : disk'[n] = disk[n] \/ (n = open /\ disk'[n] = text),
         NEW n \in Names, NEW t \in Numbers \ {0}, Has(n, t)'
  PROVE  Has(n, t)
  <1>1. copies' = kept \/ copies' = [kept EXCEPT ![goal] = NoCopy]
    BY DEF Proceed, OpenNote
  <1>2. copies'[n] = copies[n] \/ copies'[n] = NoCopy
    BY <1>1 DEF Dropped, EditorTyped, CopiesTyped, CopiesOfTexts
  <1>3. /\ t = copies'[n].text => t = copies[n].text
        /\ t = copies'[n].stamp => t = copies[n].stamp
    BY <1>2 DEF NoCopy
  <1>4. n = open' /\ t \in {text', saved', stamp'} => t = disk[n]
    BY DEF Proceed, OpenNote, Clear
  <1>5. QED
    BY <1>3, <1>4 DEF Has

(* What is asked about leaving is about leaving; a pane that is gone asks   *)
(* nothing and has no note open.                                            *)
Leaving ==
    /\ ask = "leave" => next # open /\ next # "stay"
    /\ ~pane => open = "none" /\ ask = "none"
EditorCore == EditorTyped /\ OneHome /\ Loaded /\ OfferStands /\ Leaving

\* What a save leaves to a name, it had before.
LEMMA SaveHas ==
  ASSUME EditorTyped, NEW goal \in Goals, goal # open, open \in Names, NEW force,
         SaveNote(force, goal), NEW n \in Names, NEW t \in Numbers \ {0}, Has(n, t)'
  PROVE  Has(n, t)
  <1>1. \A m \in Names : disk'[m] = disk[m] \/ (m = open /\ disk'[m] = text)
    BY DEF SaveNote, EditorTyped, FilesTyped
  <1>2. CASE Proceed(goal, Dropped(open), Answered(open))
    BY <1>1, <1>2, ProceedHas
  <1>3. CASE CalledOff(goal, Dropped(open), Answered(open)) /\ saved' = text /\ stamp' = text
    <2>1. /\ t = copies'[n].text => t = copies[n].text
          /\ t = copies'[n].stamp => t = copies[n].stamp
      BY <1>3 DEF CalledOff, Dropped, NoCopy
    <2>2. open' = open /\ text' = text
      BY <1>3 DEF CalledOff
    <2>3. QED
      BY <1>1, <1>3, <2>1, <2>2 DEF Has
  <1>4. CASE UNCHANGED <<buffer, copies>>
    BY <1>1, <1>4 DEF Has, buffer
  <1>5. QED
    BY <1>2, <1>3, <1>4 DEF SaveNote

\* No step of the questions gives a name a text it did not have.
LEMMA QuestionsHave ==
  ASSUME EditorCore, \/ Leave \/ DiscardAnswer \/ CancelAnswer \/ SaveAnswer \/ Restore
                     \/ DiscardCopy \/ NotNow \/ OpenPane \/ Save \/ SaveNow,
         NEW n \in Names, NEW t \in Numbers \ {0}, Has(n, t)'
  PROVE  Has(n, t)
  <1> USE DEF EditorCore, question, history
  <1>1. CASE UNCHANGED <<disk, buffer, copies>>
    BY <1>1 DEF Has, buffer
  <1>2. CASE Leave
    <2>1. PICK goal \in Goals \ {open, "stay"} :
            Proceed(goal, copies, owed) \/ UNCHANGED <<buffer, copies>>
      BY <1>2 DEF Leave
    <2>2. QED
      BY <1>1, <1>2, <2>1, ProceedHas DEF Leave
  <1>3. CASE DiscardAnswer
    <2>1. next \in Goals /\ next # open
      BY <1>3 DEF DiscardAnswer, Leaving, EditorTyped, QuestionTyped
    <2>2. CASE Proceed(next, Dropped(open), Answered(open))
      BY <1>3, <2>1, <2>2, ProceedHas DEF DiscardAnswer
    <2>3. CASE CalledOff(next, Dropped(open), Answered(open)) /\ UNCHANGED <<saved, stamp>>
      BY <1>3, <2>3 DEF DiscardAnswer, CalledOff, Dropped, NoCopy, Has
    <2>4. QED
      BY <1>3, <2>2, <2>3 DEF DiscardAnswer, DroppedOnDiscard
  <1>4. CASE Restore
    <2>1. UNCHANGED <<disk, open, saved, copies>>
      BY <1>4 DEF Restore
    <2>2. \/ UNCHANGED <<text, stamp>>
          \/ open \in Names /\ text' = copies[open].text /\ stamp' = copies[open].stamp
      BY <1>4, EditorAssumption DEF Restore, OfferStands
    <2>3. QED
      BY <2>1, <2>2 DEF Has
  <1>5. CASE DiscardCopy
    BY <1>5 DEF DiscardCopy, Dropped, NoCopy, Has, buffer
  <1>6. CASE Save
    <2>1. open \in Names /\ SaveNote(FALSE, "stay") /\ "stay" \in Goals /\ open # "stay"
      BY <1>6, EditorAssumption DEF Save, Editable, EditorTyped, BufferTyped, Goals
    <2>2. QED
      BY <2>1, SaveHas
  <1>7. CASE SaveNow
    <2>1. CASE Editable /\ next # open /\ SaveNote(saving = "force", next)
      <3>1. open \in Names /\ next \in Goals
        BY <2>1 DEF Editable, EditorTyped, BufferTyped, QuestionTyped
      <3>2. QED
        BY <2>1, <3>1, SaveHas
    <2>2. QED
      BY <1>1, <1>7, <2>1 DEF SaveNow
  <1>8. QED
    BY <1>1, <1>2, <1>3, <1>4, <1>5, <1>6, <1>7 DEF CancelAnswer, SaveAnswer, NotNow, OpenPane

\* Homes, for every step.
LEMMA HomesNext == ASSUME EditorCore, EditorNext PROVE OneHome'
  <1> USE DEF EditorCore
  <1>1. CASE \/ Leave \/ DiscardAnswer \/ CancelAnswer \/ SaveAnswer \/ Restore
             \/ DiscardCopy \/ NotNow \/ OpenPane \/ Save \/ SaveNow
    <2>1. UNCHANGED texts
      BY <1>1 DEF Leave, DiscardAnswer, CancelAnswer, SaveAnswer, Restore, DiscardCopy, NotNow,
         OpenPane, Save, SaveNow
    <2>2. QED
      BY <1>1, <2>1, QuestionsHave, HomesKept
  <1>2. CASE Type
    <2>1. UNCHANGED <<disk, open, saved, stamp, copies>> /\ texts' = NewText /\ text' = NewText
      BY <1>2 DEF Type
    <2>2. open \in Names
      BY <1>2 DEF Type, Editable, EditorTyped, BufferTyped
    <2>3. QED
      BY <2>1, <2>2, NewHome DEF Has
  <1>3. CASE AdoptRewrite
    <2>1. /\ UNCHANGED <<open, copies>> /\ texts' = NewText /\ text' = NewText
          /\ saved' = NewText /\ stamp' = NewText /\ disk' = [disk EXCEPT ![open] = NewText]
      BY <1>3 DEF AdoptRewrite
    <2>2. open \in Names
      BY <1>3 DEF AdoptRewrite, Editable, EditorTyped, BufferTyped
    <2>3. QED
      BY <2>1, <2>2, NewHome DEF Has, EditorTyped, FilesTyped
  <1>4. CASE OutsideEdit
    <2>1. UNCHANGED <<buffer, copies>> /\ texts' = NewText
      BY <1>4 DEF OutsideEdit
    <2>2. PICK n \in Names : \E t \in {NewText, 0} : disk' = [disk EXCEPT ![n] = t]
      BY <1>4 DEF OutsideEdit
    <2>3. QED
      BY <2>1, <2>2, NewHome DEF Has, EditorTyped, FilesTyped, buffer
  <1>5. CASE Undo \/ TimerFires
    <2>1. /\ UNCHANGED <<disk, open, saved, stamp, texts>> /\ text' \in {text, saved}
          /\ \/ UNCHANGED copies
             \/ open \in Names /\ copies' = [copies EXCEPT ![open] = CopyOfBuffer]
      BY <1>5 DEF Undo, TimerFires, Snapshot, Dirty, Editable, buffer, EditorTyped, BufferTyped
    <2>2. \A n \in Names, t \in Numbers \ {0} : Has(n, t)' => Has(n, t)
      BY <2>1 DEF Has, CopyOfBuffer, EditorTyped, CopiesTyped, CopiesOfTexts
    <2>3. QED
      BY <2>1, <2>2, HomesKept
  <1>6. CASE Delete \/ ChangeVault
    <2>1. /\ UNCHANGED texts /\ copies' = Dropped(open) /\ Clear
          /\ disk' \in {disk, [disk EXCEPT ![open] = 0]}
      BY <1>6 DEF Delete, ChangeVault
    <2>2. \A n \in Names, t \in Numbers \ {0} : Has(n, t)' => Has(n, t)
      BY <2>1 DEF Has, Dropped, NoCopy, Clear, EditorTyped, FilesTyped
    <2>3. QED
      BY <2>1, <2>2, HomesKept
  <1>7. CASE Crash
    <2>1. /\ UNCHANGED <<texts, copies>> /\ Clear
          /\ disk' \in {disk, [disk EXCEPT ![open] = text]}
      BY <1>7 DEF Crash
    <2>2. \A n \in Names, t \in Numbers \ {0} : Has(n, t)' => Has(n, t)
      BY <2>1 DEF Has, Clear, EditorTyped, FilesTyped
    <2>3. QED
      BY <2>1, <2>2, HomesKept
  <1>8. CASE Rename
    <2>1. PICK new \in Names :
            /\ disk[new] = 0 /\ disk' = [disk EXCEPT ![new] = disk[open], ![open] = 0]
            /\ open' = new
            /\ Snapshot(Dropped(open), new) \/ copies' = Dropped(open)
      BY <1>8 DEF Rename
    <2>2. UNCHANGED <<text, saved, stamp, texts>> /\ open \in Names /\ new # open
      BY <1>8, <2>1 DEF Rename, EditorTyped, BufferTyped
    <2>3. ASSUME NEW n \in Names, NEW t \in Numbers \ {0}, Has(n, t)'
          PROVE  n # open /\ (Has(n, t) \/ (n = new /\ Has(open, t)))
      <3>1. /\ disk'[open] = 0 /\ disk'[new] = disk[open]
            /\ n \notin {open, new} => disk'[n] = disk[n]
        BY <2>1, <2>2 DEF EditorTyped, FilesTyped
      <3>2. /\ copies'[open] = NoCopy
            /\ copies'[new] = CopyOfBuffer \/ copies'[new] = copies[new]
            /\ n \notin {open, new} => copies'[n] = copies[n]
        BY <2>1, <2>2 DEF Snapshot, Dropped
      <3>3. CASE n = open
        BY <2>1, <2>2, <2>3, <3>1, <3>2, <3>3 DEF Has, NoCopy
      <3>4. CASE n = new
        <4>1. \/ t = disk[open] \/ t \in {text, saved, stamp}
              \/ t = copies[new].text \/ t = copies[new].stamp
          BY <2>1, <2>2, <2>3, <3>1, <3>2, <3>4 DEF Has, CopyOfBuffer
        <4>2. QED
          BY <2>2, <3>4, <4>1 DEF Has
      <3>5. CASE n \notin {open, new}
        BY <2>1, <2>2, <2>3, <3>1, <3>2, <3>5 DEF Has
      <3>6. QED
        BY <3>3, <3>4, <3>5
    <2>4. Numbers' = Numbers
      BY <2>2 DEF Numbers
    <2>5. ASSUME NEW m \in Names, NEW n \in Names, NEW t \in Numbers \ {0}, Has(m, t)', Has(n, t)'
          PROVE  m = n
      <3>1. m # open /\ (Has(m, t) \/ (m = new /\ Has(open, t)))
        BY <2>3, <2>5
      <3>2. n # open /\ (Has(n, t) \/ (n = new /\ Has(open, t)))
        BY <2>3, <2>5
      <3>3. QED
        BY <2>2, <3>1, <3>2 DEF OneHome
    <2>6. QED
      BY <2>4, <2>5 DEF OneHome
  <1>9. QED
    BY <1>1, <1>2, <1>3, <1>4, <1>5, <1>6, <1>7, <1>8 DEF EditorNext

(***************************************************************************)
(* The note editor: a buffer is loaded, an offer stands                    *)
(***************************************************************************)

(* What a step owes besides the homes.                                      *)
Standing == Loaded /\ OfferStands /\ Leaving

\* What leaves a copy alone or drops it.
LEMMA KeptCopies ==
  ASSUME EditorTyped, NEW kept \in {copies, Dropped(open)}
  PROVE  /\ kept \in CopiesOfTexts
         /\ \A n \in Names : kept[n] = copies[n] \/ kept[n] = NoCopy
         /\ \A n \in Names \ {open} : kept[n] = copies[n]
  <1>1. copies \in CopiesOfTexts /\ Dropped(open) \in CopiesOfTexts
    BY DroppedTyped DEF EditorTyped, BufferTyped, CopiesTyped
  <1>2. QED
    BY <1>1 DEF Dropped

\* Leaving for another note opens what that note has, and offers its copy.
LEMMA ProceedStands ==
  ASSUME EditorCore, pane, NEW goal \in Goals, goal # open, NEW kept \in {copies, Dropped(open)},
         NEW debt, Proceed(goal, kept, debt), \A n \in Names \ {open} : disk'[n] = disk[n]
  PROVE  Standing'
  <1> USE DEF EditorCore
  <1>1. CASE goal \in Names /\ disk[goal] # 0 /\ OpenNote(goal, kept, debt) /\ pane'
    <2>1. /\ open' = goal /\ text' = disk[goal] /\ saved' = disk[goal] /\ stamp' = disk[goal]
          /\ ~armed' /\ disk'[goal] = disk[goal] /\ kept[goal] = copies[goal]
      BY <1>1, KeptCopies DEF OpenNote
    <2>2. /\ copies' = kept \/ copies' = [kept EXCEPT ![goal] = NoCopy]
          /\ Offers(goal) => copies' = kept
      BY <1>1 DEF OpenNote, Offers, Leftover
    <2>3. \A n \in Names : copies'[n] = copies[n] \/ copies'[n] = NoCopy
      BY <2>2, KeptCopies DEF CopiesOfTexts
    <2>4. Loaded'
      BY <1>1, <2>1, <2>3, EditorAssumption DEF Loaded, NoCopy
    <2>5. CASE Offers(goal)
      <3>1. /\ offered'.name = goal /\ offered'.text = copies[goal].text
            /\ offered'.stamp = copies[goal].stamp /\ copies'[goal] = copies[goal]
        BY <1>1, <2>1, <2>2, <2>5 DEF OpenNote
      <3>2. copies[goal].text \in Numbers \ {0}
        BY <1>1, <2>5 DEF Offers, EditorTyped, CopiesTyped, CopiesOfTexts
      <3>3. \A n \in Names \ {goal} : copies[n].text # copies[goal].text
        BY <1>1, <3>2 DEF OneHome, Has
      <3>4. \A n \in Names \ {goal} : copies'[n].text # copies[goal].text
        BY <2>3, <3>2, <3>3 DEF NoCopy
      <3>5. goal # "none"
        BY <1>1, EditorAssumption
      <3>6. OfferStands'
        BY <1>1, <2>1, <3>1, <3>2, <3>4, <3>5 DEF OfferStands
      <3>7. QED
        BY <1>1, <2>4, <2>5, <3>6 DEF Standing, Leaving, OpenNote
    <2>6. CASE ~Offers(goal)
      BY <1>1, <2>4, <2>6 DEF Standing, Leaving, OfferStands, OpenNote
    <2>7. QED
      BY <2>5, <2>6
  <1>2. CASE Clear /\ ask' = "none" /\ copies' = kept
    BY <1>2, KeptCopies DEF Clear, Standing, Loaded, OfferStands, Leaving, NoCopy
  <1>3. QED
    BY <1>1, <1>2 DEF Proceed, Unreadable

\* A save leaves a loaded buffer, and takes the offer away or leaves it.
LEMMA SaveStands ==
  ASSUME EditorCore, pane, open \in Names, NEW goal \in Goals, goal # open, NEW force,
         SaveNote(force, goal), next' = goal, ask = "leave" => goal # "stay"
  PROVE  Standing'
  <1> USE DEF EditorCore
  <1>1. \A n \in Names \ {open} : disk'[n] = disk[n]
    BY DEF SaveNote, EditorTyped, FilesTyped
  <1>2. CASE Proceed(goal, Dropped(open), Answered(open))
    BY <1>1, <1>2, ProceedStands
  <1>3. CASE /\ CalledOff(goal, Dropped(open), Answered(open))
             /\ saved' = text /\ stamp' = text
    BY <1>3, KeptCopies, EditorAssumption DEF CalledOff, Standing, Loaded, OfferStands, Leaving, NoCopy
  <1>4. CASE UNCHANGED <<disk, buffer, copies, armed, offered, owed, pane>> /\ ask' = "overwrite"
    BY <1>4 DEF buffer, Standing, Loaded, OfferStands, Leaving
  <1>5. CASE UNCHANGED <<disk, buffer, copies, armed, offered, owed, ask, pane>>
    BY <1>5 DEF buffer, Standing, Loaded, OfferStands, Leaving
  <1>6. QED
    BY <1>2, <1>3, <1>4, <1>5 DEF SaveNote

\* The questions and their answers.
LEMMA QuestionsStand ==
  ASSUME EditorCore, \/ Leave \/ DiscardAnswer \/ CancelAnswer \/ SaveAnswer \/ Restore
                     \/ DiscardCopy \/ NotNow \/ OpenPane \/ Save \/ SaveNow
  PROVE  Standing'
  <1> USE DEF EditorCore, question, history
  <1>1. CASE Leave
    <2>1. PICK goal \in Goals \ {open, "stay"} :
            \/ Proceed(goal, copies, owed)
            \/ /\ ask' = "leave" /\ next' = goal
               /\ UNCHANGED <<buffer, copies, armed, offered, owed, pane>>
      BY <1>1 DEF Leave
    <2>2. pane /\ UNCHANGED disk
      BY <1>1 DEF Leave
    <2>3. CASE Proceed(goal, copies, owed)
      BY <2>1, <2>2, <2>3, ProceedStands
    <2>4. QED
      BY <2>1, <2>2, <2>3 DEF Standing, Loaded, OfferStands, Leaving, buffer
  <1>2. CASE DiscardAnswer
    <2>1. next \in Goals /\ next # open /\ pane /\ UNCHANGED disk
      BY <1>2 DEF DiscardAnswer, Leaving, EditorTyped, QuestionTyped
    <2>2. CASE Proceed(next, Dropped(open), Answered(open))
      BY <2>1, <2>2, ProceedStands
    <2>3. CASE CalledOff(next, Dropped(open), Answered(open)) /\ UNCHANGED <<saved, stamp>>
      BY <2>1, <2>3, KeptCopies DEF CalledOff, Standing, Loaded, OfferStands, Leaving, NoCopy
    <2>4. QED
      BY <1>2, <2>2, <2>3 DEF DiscardAnswer, DroppedOnDiscard
  <1>3. CASE CancelAnswer \/ SaveAnswer \/ NotNow \/ OpenPane
    BY <1>3 DEF CancelAnswer, SaveAnswer, NotNow, OpenPane, Standing, Loaded, OfferStands, Leaving,
       buffer
  <1>4. CASE Restore
    <2>1. /\ UNCHANGED <<open, saved, copies, pane>> /\ ask' = "none"
          /\ \/ UNCHANGED <<text, stamp>>
             \/ /\ open \in Names /\ text' = copies[open].text /\ stamp' = copies[open].stamp
                /\ text' # 0
      BY <1>4, EditorAssumption DEF Restore, OfferStands
    <2>2. QED
      BY <2>1, EditorAssumption DEF Standing, Loaded, OfferStands, Leaving
  <1>5. CASE DiscardCopy
    <2>1. /\ UNCHANGED <<buffer, pane>> /\ ask' = "none"
          /\ \A n \in Names : copies'[n] = copies[n] \/ copies'[n] = NoCopy
      BY <1>5 DEF DiscardCopy, Dropped
    <2>2. QED
      BY <2>1 DEF Standing, Loaded, OfferStands, Leaving, NoCopy, buffer
  <1>6. CASE Save
    <2>1. /\ open \in Names /\ SaveNote(FALSE, "stay") /\ "stay" \in Goals /\ open # "stay"
          /\ pane /\ next' = "stay" /\ ask # "leave"
      BY <1>6, EditorAssumption DEF Save, Editable, EditorTyped, BufferTyped, Goals, Asking
    <2>2. QED
      BY <2>1, SaveStands
  <1>7. CASE SaveNow
    <2>1. pane /\ next' = next
      BY <1>7 DEF SaveNow
    <2>2. CASE Editable /\ next # open /\ SaveNote(saving = "force", next)
      <3>1. open \in Names /\ next \in Goals /\ (ask = "leave" => next # "stay")
        BY <2>2 DEF Editable, EditorTyped, BufferTyped, QuestionTyped, Leaving
      <3>2. QED
        BY <2>1, <2>2, <3>1, SaveStands
    <2>3. CASE UNCHANGED <<disk, buffer, copies, armed, offered, owed, ask, pane>>
      BY <2>1, <2>3 DEF Standing, Loaded, OfferStands, Leaving, buffer
    <2>4. \/ Editable /\ next # open /\ SaveNote(saving = "force", next)
          \/ UNCHANGED <<disk, buffer, copies, armed, offered, owed, ask, pane>>
      BY <1>7, Zenon DEF SaveNow
    <2>5. QED
      BY <2>2, <2>3, <2>4
  <1>8. QED
    BY <1>1, <1>2, <1>3, <1>4, <1>5, <1>6, <1>7

\* Typing, the copy, renames and deletes, and the others.
LEMMA WorkStands ==
  ASSUME EditorCore, \/ Type \/ Undo \/ TimerFires \/ Rename \/ AdoptRewrite \/ Delete
                     \/ ChangeVault \/ OutsideEdit \/ Crash
  PROVE  Standing'
  <1> USE DEF EditorCore, question
  <1>1. NewText # 0 /\ NewText \notin Numbers
    BY DEF EditorTyped, FilesTyped, NewText, Numbers
  <1>2. CASE Type \/ Undo \/ AdoptRewrite
    <2>1. /\ pane' = pane /\ pane /\ ask' = ask /\ ask = "none" /\ open' = open /\ open # "none"
          /\ copies' = copies
          /\ text' \in {NewText, saved} /\ saved' \in {saved, NewText} /\ stamp' \in {stamp, NewText}
      BY <1>2 DEF Type, Undo, AdoptRewrite, Asking, Editable, Dirty
    <2>2. QED
      BY <1>1, <2>1 DEF Standing, Loaded, OfferStands, Leaving
  <1>3. CASE TimerFires
    <2>1. /\ UNCHANGED <<disk, buffer, ask, next, offered, pane, owed>> /\ armed /\ ~armed'
          /\ \/ UNCHANGED copies
             \/ /\ open \in Names /\ copies' = [copies EXCEPT ![open] = CopyOfBuffer]
      BY <1>3 DEF TimerFires, Snapshot, Dirty, Editable, EditorTyped, BufferTyped
    <2>2. CASE UNCHANGED copies
      BY <2>1, <2>2 DEF Standing, Loaded, OfferStands, Leaving, buffer
    <2>3. CASE open \in Names /\ copies' = [copies EXCEPT ![open] = CopyOfBuffer]
      <3>1. open # "none" /\ ask # "restore"
        BY <2>1, <2>3, EditorAssumption DEF OfferStands
      <3>2. \A n \in Names : copies'[n] = copies[n] \/ (n = open /\ copies'[n] = CopyOfBuffer)
        BY <2>3 DEF EditorTyped, CopiesTyped, CopiesOfTexts
      <3>3. Loaded'
        BY <2>1, <3>1, <3>2 DEF Loaded, CopyOfBuffer, buffer
      <3>4. QED
        BY <2>1, <3>1, <3>3 DEF Standing, OfferStands, Leaving, buffer
    <2>4. QED
      BY <2>1, <2>2, <2>3
  <1>4. CASE Rename
    <2>1. PICK new \in Names : /\ open' = new
                               /\ Snapshot(Dropped(open), new) \/ copies' = Dropped(open)
      BY <1>4 DEF Rename
    <2>2. /\ UNCHANGED <<text, saved, stamp, ask, next, pane>> /\ open # "none" /\ ask = "none"
          /\ pane
      BY <1>4 DEF Rename, Asking
    <2>3. \A n \in Names : copies'[n] \in {copies[n], NoCopy, CopyOfBuffer}
      BY <2>1 DEF Snapshot, Dropped
    <2>4. Loaded'
      BY <2>1, <2>2, <2>3, EditorAssumption DEF Loaded, NoCopy, CopyOfBuffer
    <2>5. QED
      BY <2>2, <2>4 DEF Standing, OfferStands, Leaving
  <1>5. CASE Delete \/ ChangeVault
    <2>1. /\ Clear /\ copies' = Dropped(open) /\ owed' = Answered(open) /\ open \in Names
          /\ UNCHANGED <<ask, next, offered, pane>> /\ pane
      BY <1>5 DEF Delete, ChangeVault, EditorTyped, BufferTyped
    <2>2. \A n \in Names : copies'[n] = copies[n] \/ copies'[n] = NoCopy
      BY <2>1 DEF Dropped
    <2>3. Loaded'
      BY <2>1, <2>2 DEF Loaded, Clear, NoCopy
    <2>4. OfferStands'
      <3>1. SUFFICES ASSUME ask = "restore" PROVE OfferStands'
        BY <2>1 DEF OfferStands
      <3>2. /\ offered.name = open /\ offered.text # 0
            /\ \A n \in Names \ {offered.name} : copies[n].text # offered.text
        BY <2>1, <3>1, EditorAssumption DEF OfferStands
      <3>3. \A n \in Names \ {open} : copies'[n].text # offered.text
        BY <2>2, <3>2 DEF NoCopy
      <3>4. owed'[open] = 0 /\ open' = "none"
        BY <2>1 DEF Answered, Clear
      <3>5. QED
        BY <2>1, <3>2, <3>3, <3>4 DEF OfferStands
    <2>5. Leaving'
      BY <2>1, EditorAssumption DEF Leaving, Clear, EditorTyped, QuestionTyped, Goals
    <2>6. QED
      BY <2>3, <2>4, <2>5 DEF Standing
  <1>6. CASE OutsideEdit
    <2>1. UNCHANGED <<buffer, copies, armed, ask, next, offered, pane, owed>>
      BY <1>6 DEF OutsideEdit
    <2>2. PICK n \in Names : \E t \in {NewText, 0} : disk' = [disk EXCEPT ![n] = t]
      BY <1>6 DEF OutsideEdit
    <2>3. open \in Names /\ ask = "restore" =>
            offered.stamp # 0 /\ offered.stamp \in Numbers /\ open # "none"
      BY EditorAssumption DEF OfferStands, Loaded, EditorTyped, QuestionTyped
    <2>4. open \in Names => disk'[open] \in {disk[open], NewText, 0}
      BY <2>2 DEF EditorTyped, FilesTyped
    <2>5. OfferStands'
      BY <1>1, <2>1, <2>3, <2>4 DEF OfferStands, buffer
    <2>6. QED
      BY <2>1, <2>5 DEF Standing, Loaded, Leaving, buffer
  <1>7. CASE Crash
    BY <1>7 DEF Crash, Clear, Standing, Loaded, OfferStands, Leaving
  <1>8. QED
    BY <1>2, <1>3, <1>4, <1>5, <1>6, <1>7

\* The editor starts with the list, and no question.
LEMMA CoreInit == EditorInit => EditorCore
  <1> SUFFICES ASSUME EditorInit PROVE OneHome /\ Standing
    BY EditorTypedInit DEF EditorCore, Standing
  <1>1. OneHome
    BY EditorAssumption DEF EditorInit, OneHome, Has, NoCopy
  <1>2. Standing
    BY DEF EditorInit, Standing, Loaded, OfferStands, Leaving, NoCopy
  <1>3. QED
    BY <1>1, <1>2

\* Every step.
LEMMA CoreNext == EditorCore /\ [EditorNext]_editorVars => EditorCore'
  <1>1. ASSUME EditorCore, UNCHANGED editorVars PROVE OneHome' /\ Standing'
    <2>1. OneHome'
      BY <1>1 DEF EditorCore, OneHome, Has, Numbers, editorVars
    <2>2. Standing'
      BY <1>1 DEF EditorCore, Standing, Loaded, OfferStands, Leaving, editorVars
    <2>3. QED
      BY <2>1, <2>2
  <1>2. ASSUME EditorCore, EditorNext PROVE OneHome' /\ Standing'
    BY <1>2, HomesNext, QuestionsStand, WorkStands DEF EditorNext
  <1>3. QED
    BY <1>1, <1>2, EditorTypedNext DEF EditorCore, Standing

(***************************************************************************)
(* The note editor: what a buffer and a copy grew from                     *)
(***************************************************************************)

(* A text is younger than the file it was loaded from.                      *)
Older ==
    /\ open # "none" /\ text # saved => stamp < text /\ copies[open].stamp # text
    /\ \A n \in Names : copies[n].text # 0 => copies[n].stamp < copies[n].text

(* A buffer and a copy whose stamp the file still has grew from that file.  *)
GrewFromFile ==
    /\ open # "none" /\ disk[open] = stamp =>
         saved = stamp /\ (text # saved => base[text] = stamp)
    /\ \A n \in Names : copies[n].text # 0 /\ disk[n] = copies[n].stamp =>
         base[copies[n].text] = copies[n].stamp
Grown == Older /\ GrewFromFile

\* Leaving for another note keeps what the copies grew from.
LEMMA ProceedGrows ==
  ASSUME EditorCore, Grown, NEW goal \in Goals, goal # open, NEW kept \in {copies, Dropped(open)},
         NEW debt, Proceed(goal, kept, debt), UNCHANGED base,
         \A n \in Names : disk'[n] = disk[n] \/ (n = open /\ kept = Dropped(open))
  PROVE  Grown'
  <1> USE DEF EditorCore, Grown
  <1>1. copies' = kept \/ copies' = [kept EXCEPT ![goal] = NoCopy]
    BY DEF Proceed, OpenNote
  <1>2. \A n \in Names : copies'[n] = NoCopy \/ (copies'[n] = copies[n] /\ disk'[n] = disk[n])
    BY <1>1, KeptCopies DEF CopiesOfTexts, Dropped
  <1>3. /\ text' = saved'
        /\ open' # "none" => open' \in Names /\ saved' = stamp'
    BY DEF Proceed, OpenNote, Clear
  <1>4. Older'
    BY <1>2, <1>3 DEF Older, NoCopy
  <1>5. GrewFromFile'
    BY <1>2, <1>3 DEF GrewFromFile, NoCopy
  <1>6. QED
    BY <1>4, <1>5

\* A save that is not the file's own text drops the copy with the old stamp.
LEMMA SaveGrows ==
  ASSUME EditorCore, Grown, open \in Names, NEW goal \in Goals, goal # open, NEW force,
         SaveNote(force, goal), UNCHANGED base
  PROVE  Grown'
  <1> USE DEF EditorCore, Grown
  <1>1. CASE Proceed(goal, Dropped(open), Answered(open)) /\ disk' = [disk EXCEPT ![open] = text]
    <2>1. \A n \in Names \ {open} : disk'[n] = disk[n]
      BY <1>1 DEF EditorTyped, FilesTyped
    <2>2. QED
      BY <1>1, <2>1, ProceedGrows
  <1>2. CASE /\ CalledOff(goal, Dropped(open), Answered(open))
             /\ saved' = text /\ stamp' = text /\ disk' = [disk EXCEPT ![open] = text]
    <2>1. \A n \in Names : copies'[n] = NoCopy \/ (copies'[n] = copies[n] /\ disk'[n] = disk[n])
      BY <1>2 DEF CalledOff, Dropped, EditorTyped, FilesTyped
    <2>2. open' = open /\ text' = text
      BY <1>2 DEF CalledOff
    <2>3. QED
      BY <1>2, <2>1, <2>2 DEF Older, GrewFromFile, NoCopy
  <1>3. CASE UNCHANGED <<disk, buffer, copies>>
    BY <1>3 DEF buffer, Older, GrewFromFile
  <1>4. QED
    BY <1>1, <1>2, <1>3 DEF SaveNote

\* A copy that goes takes its stamp with it.
LEMMA DropGrows ==
  ASSUME EditorCore, Grown, UNCHANGED <<open, text, saved, stamp, disk, base>>,
         \A n \in Names : copies'[n] = copies[n] \/ copies'[n] = NoCopy
  PROVE  Grown'
  <1> USE DEF EditorCore, Grown
  <1>1. open # "none" => open \in Names /\ text # 0
    BY DEF EditorTyped, BufferTyped, Loaded
  <1>2. Older'
    BY <1>1 DEF Older, NoCopy
  <1>3. GrewFromFile'
    BY DEF GrewFromFile, NoCopy
  <1>4. QED
    BY <1>2, <1>3

\* The questions and their answers.
LEMMA QuestionsGrow ==
  ASSUME EditorCore, Grown,
         \/ Leave \/ DiscardAnswer \/ CancelAnswer \/ SaveAnswer \/ Restore
         \/ DiscardCopy \/ NotNow \/ OpenPane \/ Save \/ SaveNow
  PROVE  Grown'
  <1> USE DEF EditorCore, Grown, question, history
  <1>1. CASE UNCHANGED <<disk, buffer, copies, base>>
    BY <1>1 DEF buffer, Older, GrewFromFile
  <1>2. CASE Leave
    <2>1. PICK goal \in Goals \ {open, "stay"} :
            Proceed(goal, copies, owed) \/ UNCHANGED <<buffer, copies>>
      BY <1>2 DEF Leave
    <2>2. UNCHANGED <<disk, base>>
      BY <1>2 DEF Leave
    <2>3. QED
      BY <1>1, <2>1, <2>2, ProceedGrows
  <1>3. CASE DiscardAnswer
    <2>1. next \in Goals /\ next # open /\ UNCHANGED <<disk, base>>
      BY <1>3 DEF DiscardAnswer, Leaving, EditorTyped, QuestionTyped
    <2>2. CASE Proceed(next, Dropped(open), Answered(open))
      BY <2>1, <2>2, ProceedGrows
    <2>3. CASE CalledOff(next, Dropped(open), Answered(open)) /\ UNCHANGED <<saved, stamp>>
      <3>1. /\ UNCHANGED <<open, text, saved, stamp, disk, base>>
            /\ \A n \in Names : copies'[n] = copies[n] \/ copies'[n] = NoCopy
        BY <2>1, <2>3 DEF CalledOff, Dropped
      <3>2. QED
        BY <3>1, DropGrows
    <2>4. QED
      BY <1>3, <2>2, <2>3 DEF DiscardAnswer, DroppedOnDiscard
  <1>4. CASE Restore
    <2>1. /\ UNCHANGED <<open, saved, copies, disk, base>>
          /\ \/ UNCHANGED <<text, stamp>>
             \/ /\ open \in Names /\ text' = copies[open].text /\ stamp' = copies[open].stamp
                /\ text' # 0 /\ (disk[open] = stamp' => saved = stamp')
      BY <1>4, EditorAssumption DEF Restore, OfferStands
    <2>2. CASE UNCHANGED <<text, stamp>>
      BY <1>1, <2>1, <2>2 DEF buffer
    <2>3. CASE /\ open \in Names /\ text' = copies[open].text /\ stamp' = copies[open].stamp
               /\ text' # 0 /\ (disk[open] = stamp' => saved = stamp')
      <3>1. stamp' \in Nat /\ text' \in Nat
        BY <2>3 DEF EditorTyped, CopiesTyped, CopiesOfTexts, FilesTyped, Numbers
      <3>2. Older'
        BY <2>1, <2>3, <3>1 DEF Older
      <3>3. GrewFromFile'
        BY <2>1, <2>3 DEF GrewFromFile
      <3>4. QED
        BY <3>2, <3>3
    <2>4. QED
      BY <2>1, <2>2, <2>3
  <1>5. CASE DiscardCopy
    <2>1. /\ UNCHANGED <<open, text, saved, stamp, disk, base>>
          /\ \A n \in Names : copies'[n] = copies[n] \/ copies'[n] = NoCopy
      BY <1>5 DEF DiscardCopy, Dropped, buffer
    <2>2. QED
      BY <2>1, DropGrows
  <1>6. CASE Save
    <2>1. open \in Names /\ SaveNote(FALSE, "stay") /\ "stay" \in Goals /\ open # "stay"
      BY <1>6, EditorAssumption DEF Save, Editable, EditorTyped, BufferTyped, Goals
    <2>2. UNCHANGED base
      BY <1>6 DEF Save
    <2>3. QED
      BY <2>1, <2>2, SaveGrows
  <1>7. CASE SaveNow
    <2>1. UNCHANGED base
      BY <1>7 DEF SaveNow
    <2>2. CASE Editable /\ next # open /\ SaveNote(saving = "force", next)
      <3>1. open \in Names /\ next \in Goals
        BY <2>2 DEF Editable, EditorTyped, BufferTyped, QuestionTyped
      <3>2. QED
        BY <2>1, <2>2, <3>1, SaveGrows
    <2>3. \/ Editable /\ next # open /\ SaveNote(saving = "force", next)
          \/ UNCHANGED <<disk, buffer, copies, armed, offered, owed, discarded, ask, pane>>
      BY <1>7, Zenon DEF SaveNow
    <2>4. QED
      BY <1>1, <2>1, <2>2, <2>3
  <1>8. QED
    BY <1>1, <1>2, <1>3, <1>4, <1>5, <1>6, <1>7 DEF CancelAnswer, SaveAnswer, NotNow, OpenPane

\* Typing, the copy, renames and deletes, and the others.
LEMMA WorkGrows ==
  ASSUME EditorCore, Grown, \/ Type \/ Undo \/ TimerFires \/ Rename \/ AdoptRewrite \/ Delete
                            \/ ChangeVault \/ OutsideEdit \/ Crash
  PROVE  Grown'
  <1> USE DEF EditorCore, Grown, question
  <1>1. /\ NewText \in Nat /\ NewText # 0 /\ NewText \notin Numbers /\ \A t \in Numbers : t < NewText
        /\ CanWrite => NewText \in 0..MaxTexts + 1
    BY EditorAssumption DEF EditorTyped, FilesTyped, NewText, Numbers, CanWrite
  <1>2. /\ text \in Numbers /\ saved \in Numbers /\ stamp \in Numbers
        /\ \A n \in Names : disk[n] \in Numbers /\ copies[n].text \in Numbers
                            /\ copies[n].stamp \in Numbers
    BY DEF EditorTyped, FilesTyped, BufferTyped, CopiesTyped, CopiesOfTexts
  <1>3. ASSUME NEW x, base' = [base EXCEPT ![NewText] = x], CanWrite
        PROVE  base'[NewText] = x /\ \A t \in Numbers : base'[t] = base[t]
    BY <1>1, <1>3 DEF EditorTyped, FilesTyped, Numbers, CanWrite, NewText
  <1>4. /\ open \in Names <=> open # "none"
        /\ open # "none" => text # 0 /\ saved # 0 /\ stamp # 0
        /\ \A n \in Names : copies[n].text # 0 => copies[n].stamp # 0
    BY EditorAssumption DEF EditorTyped, BufferTyped, Loaded
  <1>5. CASE Type
    <2>1. /\ UNCHANGED <<disk, open, saved, stamp, copies>> /\ text' = NewText /\ open # "none"
          /\ base' = [base EXCEPT ![NewText] = IF Dirty THEN base[text] ELSE saved] /\ CanWrite
          /\ Dirty <=> text # saved
      BY <1>5 DEF Type, Editable, Dirty
    <2>2. /\ base'[NewText] = IF text # saved THEN base[text] ELSE saved
          /\ \A t \in Numbers : base'[t] = base[t]
      BY <1>3, <2>1
    <2>3. Older'
      BY <1>1, <1>2, <1>4, <2>1 DEF Older
    <2>4. GrewFromFile'
      BY <1>2, <1>4, <2>1, <2>2 DEF GrewFromFile
    <2>5. QED
      BY <2>3, <2>4
  <1>6. CASE Undo
    BY <1>6 DEF Undo, Older, GrewFromFile, history
  <1>7. CASE TimerFires
    <2>1. /\ UNCHANGED <<disk, open, text, saved, stamp, base>>
          /\ \/ UNCHANGED copies
             \/ /\ open # "none" /\ text # saved /\ copies' = [copies EXCEPT ![open] = CopyOfBuffer]
      BY <1>7 DEF TimerFires, Snapshot, Dirty, Editable, buffer
    <2>2. CASE UNCHANGED copies
      BY <2>1, <2>2 DEF Older, GrewFromFile
    <2>3. CASE /\ open # "none" /\ text # saved /\ copies' = [copies EXCEPT ![open] = CopyOfBuffer]
      <3>1. /\ copies'[open].text = text /\ copies'[open].stamp = stamp
            /\ \A n \in Names \ {open} : copies'[n] = copies[n]
        BY <1>4, <2>3 DEF CopyOfBuffer, EditorTyped, CopiesTyped, CopiesOfTexts
      <3>2. stamp < text
        BY <2>3 DEF Older
      <3>3. Older'
        BY <1>2, <2>1, <2>3, <3>1, <3>2 DEF Older, Numbers
      <3>4. GrewFromFile'
        BY <2>1, <2>3, <3>1 DEF GrewFromFile
      <3>5. QED
        BY <3>3, <3>4
    <2>4. QED
      BY <2>1, <2>2, <2>3
  <1>8. CASE Rename
    <2>1. PICK new \in Names :
            /\ disk[new] = 0 /\ disk' = [disk EXCEPT ![new] = disk[open], ![open] = 0]
            /\ open' = new
            /\ IF Dirty THEN Snapshot(Dropped(open), new) ELSE copies' = Dropped(open)
      BY <1>8 DEF Rename
    <2>2. /\ UNCHANGED <<text, saved, stamp, base>> /\ open \in Names /\ disk[open] # 0
          /\ new # open
      BY <1>4, <1>8, <2>1 DEF Rename
    <2>3. /\ disk'[open] = 0 /\ disk'[new] = disk[open]
          /\ \A n \in Names \ {open, new} : disk'[n] = disk[n]
      BY <2>1, <2>2 DEF EditorTyped, FilesTyped
    <2>4. /\ copies'[open] = NoCopy
          /\ (text # saved /\ copies'[new] = CopyOfBuffer) \/ copies'[new] = copies[new]
          /\ \A n \in Names \ {open, new} : copies'[n] = copies[n]
      BY <2>1, <2>2 DEF Snapshot, Dropped, Dirty
    <2>5. copies[new].stamp # 0 => copies[new].stamp \notin {text, disk[open]}
      BY <1>2, <1>4, <2>2 DEF OneHome, Has
    <2>6. Older'
      <3>1. text # saved => stamp < text /\ text # 0
        BY <1>4, <2>2 DEF Older
      <3>2. text # saved => copies'[new].stamp # text
        BY <1>2, <2>4, <2>5, <3>1 DEF CopyOfBuffer, Numbers
      <3>3. ASSUME NEW n \in Names, copies'[n].text # 0
            PROVE  copies'[n].stamp < copies'[n].text
        <4>1. (copies'[n] = CopyOfBuffer /\ text # saved) \/ copies'[n] = copies[n]
          BY <2>2, <2>4, <3>3 DEF NoCopy
        <4>2. QED
          BY <3>1, <3>3, <4>1 DEF Older, CopyOfBuffer
      <3>4. QED
        BY <2>1, <2>2, <3>1, <3>2, <3>3 DEF Older
    <2>7. GrewFromFile'
      <3>1. /\ disk'[new] = stamp' => saved = stamp /\ (text # saved => base[text] = stamp)
        BY <1>4, <2>2, <2>3 DEF GrewFromFile
      <3>2. ASSUME NEW n \in Names, copies'[n].text # 0, disk'[n] = copies'[n].stamp
            PROVE  base[copies'[n].text] = copies'[n].stamp
        <4>1. CASE n = open
          BY <2>4, <3>2, <4>1 DEF NoCopy
        <4>2. CASE n = new
          BY <1>4, <2>2, <2>3, <2>4, <2>5, <3>2, <4>2 DEF CopyOfBuffer, GrewFromFile
        <4>3. CASE n \notin {open, new}
          BY <2>3, <2>4, <3>2, <4>3 DEF GrewFromFile
        <4>4. QED
          BY <4>1, <4>2, <4>3
      <3>3. QED
        BY <2>1, <2>2, <3>1, <3>2 DEF GrewFromFile
    <2>8. QED
      BY <2>6, <2>7
  <1>9. CASE AdoptRewrite
    <2>1. /\ UNCHANGED <<open, copies>> /\ text' = NewText /\ saved' = NewText /\ stamp' = NewText
          /\ disk' = [disk EXCEPT ![open] = NewText] /\ open \in Names
          /\ base' = [base EXCEPT ![NewText] = disk[open]] /\ CanWrite
      BY <1>4, <1>9 DEF AdoptRewrite, Editable
    <2>2. \A t \in Numbers : base'[t] = base[t]
      BY <1>3, <2>1
    <2>3. \A n \in Names : disk'[n] = disk[n] \/ disk'[n] = NewText
      BY <2>1 DEF EditorTyped, FilesTyped
    <2>4. Older'
      BY <2>1 DEF Older
    <2>5. GrewFromFile'
      BY <1>1, <1>2, <2>1, <2>2, <2>3 DEF GrewFromFile
    <2>6. QED
      BY <2>4, <2>5
  <1>10. CASE Delete \/ ChangeVault
    <2>1. /\ Clear /\ copies' = Dropped(open) /\ UNCHANGED base
          /\ disk' \in {disk, [disk EXCEPT ![open] = 0]}
      BY <1>10 DEF Delete, ChangeVault
    <2>2. \A n \in Names : copies'[n] = NoCopy \/ (copies'[n] = copies[n] /\ disk'[n] = disk[n])
      BY <2>1 DEF Dropped, EditorTyped, FilesTyped
    <2>3. QED
      BY <2>1, <2>2 DEF Clear, NoCopy, Older, GrewFromFile
  <1>11. CASE OutsideEdit
    <2>1. UNCHANGED <<open, text, saved, stamp, copies>> /\ CanWrite
      BY <1>11 DEF OutsideEdit, buffer
    <2>2. PICK n \in Names : \E t \in {NewText, 0} :
            disk' = [disk EXCEPT ![n] = t] /\ base' = [base EXCEPT ![NewText] = disk[n]]
      BY <1>11 DEF OutsideEdit
    <2>3. \A t \in Numbers : base'[t] = base[t]
      BY <1>3, <2>1, <2>2
    <2>4. \A m \in Names : disk'[m] \in {disk[m], NewText, 0}
      BY <2>2 DEF EditorTyped, FilesTyped
    <2>5. Older'
      BY <2>1 DEF Older
    <2>6. GrewFromFile'
      BY <1>1, <1>2, <1>4, <2>1, <2>3, <2>4 DEF GrewFromFile
    <2>7. QED
      BY <2>5, <2>6
  <1>12. CASE Crash
    <2>1. /\ Clear /\ UNCHANGED <<copies, base>>
          /\ UNCHANGED disk \/ (Dirty /\ disk' = [disk EXCEPT ![open] = text])
      BY <1>12 DEF Crash
    <2>2. \A n \in Names : copies[n].text # 0 /\ disk'[n] = copies[n].stamp => disk'[n] = disk[n]
      BY <1>4, <2>1 DEF Dirty, Editable, Older, EditorTyped, FilesTyped
    <2>3. QED
      BY <2>1, <2>2 DEF Clear, Older, GrewFromFile
  <1>13. QED
    BY <1>5, <1>6, <1>7, <1>8, <1>9, <1>10, <1>11, <1>12

\* Every step, and what a save does.
LEMMA GrownNext == EditorCore /\ Grown /\ [EditorNext]_editorVars => Grown'
  <1>1. ASSUME Grown, UNCHANGED editorVars PROVE Grown'
    BY <1>1 DEF Grown, Older, GrewFromFile, editorVars
  <1>2. QED
    BY <1>1, QuestionsGrow, WorkGrows DEF EditorNext

\* The change that puts the buffer on disk is a save's, unless it is no change
\* of the open note's file to the buffer at all.
LEMMA SaveReplaces ==
  ASSUME EditorCore, Grown, [EditorNext]_editorVars, open \in Names, disk'[open] # disk[open],
         disk'[open] = text, saving # "force", Dirty
  PROVE  disk[open] = base[text]
  <1> USE DEF EditorCore, Grown
  <1>1. text \in Numbers /\ text # 0 /\ text # NewText /\ text # saved /\ open # "none"
    BY EditorAssumption DEF EditorTyped, BufferTyped, FilesTyped, Numbers, NewText, Loaded, Dirty
  <1>2. SavesOver => disk[open] = base[text]
    BY <1>1 DEF SavesOver, GrewFromFile
  <1>3. CASE Save
    BY <1>2, <1>3 DEF Save, SaveNote
  <1>4. CASE SaveNow
    <2>1. SaveNote(FALSE, next) \/ UNCHANGED disk
      <3>1. (saving = "force") = FALSE
        OBVIOUS
      <3>2. SaveNote(saving = "force", next) => SaveNote(FALSE, next)
        BY <3>1, Zenon
      <3>3. QED
        BY <1>4, <3>2, Zenon DEF SaveNow
    <2>2. QED
      BY <1>2, <2>1 DEF SaveNote
  <1>5. CASE Rename
    <2>1. PICK new \in Names : /\ disk[new] = 0 /\ disk[open] # 0
                               /\ disk' = [disk EXCEPT ![new] = disk[open], ![open] = 0]
      BY <1>5 DEF Rename
    <2>2. disk'[open] = 0
      BY <2>1 DEF EditorTyped, FilesTyped
    <2>3. QED
      BY <1>1, <2>2
  <1>6. CASE AdoptRewrite \/ Delete
    BY <1>1, <1>6 DEF AdoptRewrite, Delete, EditorTyped, FilesTyped
  <1>7. CASE OutsideEdit
    <2>1. PICK n \in Names : \E t \in {NewText, 0} : disk' = [disk EXCEPT ![n] = t]
      BY <1>7 DEF OutsideEdit
    <2>2. QED
      BY <1>1, <2>1 DEF EditorTyped, FilesTyped
  <1>8. CASE Crash
    BY <1>2, <1>8 DEF Crash
  <1>9. QED
    BY <1>3, <1>4, <1>5, <1>6, <1>7, <1>8 DEF EditorNext, Leave, DiscardAnswer, CancelAnswer,
       SaveAnswer, Type, Undo, TimerFires, Restore, DiscardCopy, NotNow, ChangeVault, OpenPane,
       editorVars

\* The list has no buffer and the files no copies.
LEMMA GrownInit == EditorInit => Grown
  BY DEF EditorInit, Grown, Older, GrewFromFile, NoCopy

\* A save nobody forced replaces the very text the buffer grew from: for any
\* notes, any edits of the files meanwhile, any restores, renames and crashes
\* (save_wiki_note with the stamp it loaded, write_vault_note's check).
THEOREM SavesKeepOutsideEdits == EditorSpec => SaveReplacesItsBase
  <1>1. ASSUME EditorCore, Grown, [EditorNext]_editorVars
        PROVE  [\A n \in Names :
                  disk'[n] # disk[n] /\ disk'[n] = text /\ n = open /\ saving # "force" /\ Dirty =>
                    disk[n] = base[text]]_editorVars
    BY <1>1, SaveReplaces
  <1>2. QED
    BY <1>1, CoreInit, CoreNext, GrownInit, GrownNext, PTL DEF EditorSpec, SaveReplacesItsBase

(***************************************************************************)
(* The note editor: unsaved work                                           *)
(***************************************************************************)

(* Work in the buffer owes nothing to an older crash; while the timer runs  *)
(* nothing is discarded, and what was discarded is in no copy.              *)
WorkAnswered == Dirty => owed[open] = 0
DiscardKept ==
    /\ armed => discarded = 0
    /\ discarded # 0 => \A n \in Names : copies[n].text # discarded
Kept == CopyCoversWork /\ CrashedWorkIsKept /\ WorkAnswered /\ DiscardKept

\* What was discarded is offered by no copy.
LEMMA KeptCounts == ASSUME EditorCore, Kept PROVE WorkIsKept
  BY EditorAssumption DEF EditorCore, Kept, WorkIsKept, DiscardedStaysDiscarded, OfferStands, DiscardKept

\* A clean buffer, no timer, and copies and debts that only go together.
LEMMA CleanKept ==
  ASSUME EditorCore, Kept, ~Dirty', ~armed',
         \A n \in Names : /\ copies'[n] = copies[n] \/ copies'[n] = NoCopy
                          /\ owed'[n] = 0 \/ (owed'[n] = owed[n] /\ copies'[n] = copies[n]),
         \/ discarded' \in {0, discarded}
         \/ discarded' = text /\ (open \in Names => copies'[open] = NoCopy)
  PROVE  Kept'
  <1> USE DEF EditorCore, Kept
  <1>1. CopyCoversWork' /\ WorkAnswered'
    BY DEF CopyCoversWork, WorkAnswered
  <1>2. CrashedWorkIsKept'
    BY DEF CrashedWorkIsKept
  <1>3. CASE discarded' \in {0, discarded}
    <2>1. DiscardKept'
      BY <1>3 DEF DiscardKept, NoCopy
    <2>2. QED
      BY <1>1, <1>2, <2>1
  <1>4. CASE discarded' = text /\ (open \in Names => copies'[open] = NoCopy)
    <2>1. ASSUME NEW n \in Names, text # 0 PROVE copies'[n].text # text
      <3>1. text \in Numbers \ {0} /\ open \in Names
        BY <2>1 DEF EditorTyped, BufferTyped, Loaded
      <3>2. n # open => copies[n].text # text
        BY <3>1 DEF OneHome, Has
      <3>3. QED
        BY <1>4, <2>1, <3>1, <3>2 DEF NoCopy
    <2>2. DiscardKept'
      BY <1>4, <2>1 DEF DiscardKept
    <2>3. QED
      BY <1>1, <1>2, <2>2
  <1>5. QED
    BY <1>3, <1>4

\* Leaving for another note takes a copy only with its debt.
LEMMA ProceedKeeps ==
  ASSUME EditorCore, NEW goal \in Goals, goal # open, NEW kept, NEW debt,
         \/ kept = copies /\ debt = owed
         \/ kept = Dropped(open) /\ debt = Answered(open),
         Proceed(goal, kept, debt)
  PROVE  /\ ~Dirty' /\ ~armed'
         /\ \A n \in Names : /\ copies'[n] = copies[n] \/ copies'[n] = NoCopy
                             /\ owed'[n] = 0 \/ (owed'[n] = owed[n] /\ copies'[n] = copies[n])
         /\ kept = Dropped(open) /\ open \in Names => copies'[open] = NoCopy
  <1> USE DEF EditorCore
  <1>1. ~Dirty' /\ ~armed'
    BY DEF Proceed, OpenNote, Clear, Dirty, Editable
  <1>2. kept \in CopiesOfTexts /\ debt \in [Names -> Numbers]
    BY DroppedTyped DEF EditorTyped, BufferTyped, CopiesTyped
  <1>3. \/ copies' = kept /\ owed' = debt
        \/ goal \in Names /\ copies' = [kept EXCEPT ![goal] = NoCopy] /\ owed' = [debt EXCEPT ![goal] = 0]
    BY DEF Proceed, OpenNote
  <1>4. \A n \in Names : \/ copies'[n] = kept[n] /\ owed'[n] = debt[n]
                         \/ copies'[n] = NoCopy /\ owed'[n] = 0
    BY <1>2, <1>3 DEF CopiesOfTexts
  <1>5. \A n \in Names : \/ kept[n] = copies[n] /\ debt[n] = owed[n]
                         \/ kept[n] = NoCopy /\ debt[n] = 0
    BY DEF Dropped, Answered
  <1>6. kept = Dropped(open) /\ open \in Names => kept[open] = NoCopy
    BY DEF Dropped
  <1>7. QED
    BY <1>1, <1>4, <1>5, <1>6

\* A save owes nothing any more, or nothing has happened.
LEMMA SaveKeeps ==
  ASSUME EditorCore, Kept, open \in Names, NEW goal \in Goals, goal # open, NEW force,
         SaveNote(force, goal), UNCHANGED forgone
  PROVE  Kept'
  <1> USE DEF EditorCore
  <1>1. CASE Proceed(goal, Dropped(open), Answered(open)) /\ discarded' = 0
    BY <1>1, ProceedKeeps, CleanKept
  <1>2. CASE /\ CalledOff(goal, Dropped(open), Answered(open))
             /\ saved' = text /\ ~armed' /\ discarded' = 0
    <2>1. /\ ~Dirty' /\ ~armed'
          /\ \A n \in Names : /\ copies'[n] = copies[n] \/ copies'[n] = NoCopy
                              /\ owed'[n] = 0 \/ (owed'[n] = owed[n] /\ copies'[n] = copies[n])
      BY <1>2 DEF CalledOff, Dropped, Answered, Dirty
    <2>2. QED
      BY <1>2, <2>1, CleanKept
  <1>3. CASE UNCHANGED <<buffer, copies, armed, owed, discarded, pane>>
    BY <1>3 DEF buffer, Kept, CopyCoversWork, CrashedWorkIsKept, WorkAnswered, DiscardKept, Dirty,
       Editable, CopyOfBuffer
  <1>4. QED
    BY <1>1, <1>2, <1>3 DEF SaveNote

\* The questions and their answers.
LEMMA QuestionsKeep ==
  ASSUME EditorCore, Kept,
         \/ Leave \/ DiscardAnswer \/ CancelAnswer \/ SaveAnswer \/ Restore
         \/ DiscardCopy \/ NotNow \/ OpenPane \/ Save \/ SaveNow
  PROVE  Kept'
  <1> USE DEF EditorCore, question, history
  <1>1. CASE UNCHANGED <<buffer, copies, armed, owed, discarded, forgone, pane>>
    BY <1>1 DEF buffer, Kept, CopyCoversWork, CrashedWorkIsKept, WorkAnswered, DiscardKept, Dirty,
       Editable, CopyOfBuffer
  <1>2. CASE Leave
    <2>1. PICK goal \in Goals \ {open, "stay"} :
            Proceed(goal, copies, owed) \/ UNCHANGED <<buffer, copies, armed, owed, pane>>
      BY <1>2 DEF Leave
    <2>2. UNCHANGED <<forgone, discarded>>
      BY <1>2 DEF Leave
    <2>3. CASE Proceed(goal, copies, owed)
      BY <2>1, <2>2, <2>3, ProceedKeeps, CleanKept
    <2>4. QED
      BY <1>1, <2>1, <2>2, <2>3
  <1>3. CASE DiscardAnswer
    <2>1. next \in Goals /\ next # open /\ discarded' = text /\ forgone' = TRUE
      BY <1>3 DEF DiscardAnswer, Leaving, EditorTyped, QuestionTyped
    <2>2. CASE Proceed(next, Dropped(open), Answered(open))
      BY <2>1, <2>2, ProceedKeeps, CleanKept
    <2>3. CASE /\ CalledOff(next, Dropped(open), Answered(open)) /\ ~armed'
               /\ UNCHANGED <<saved, stamp>>
      <3>1. /\ UNCHANGED <<open, text, saved, stamp>> /\ forgone' /\ ~armed'
            /\ copies' = Dropped(open) /\ owed' = Answered(open)
        BY <2>1, <2>3 DEF CalledOff
      <3>2. \A n \in Names : n # open /\ text # 0 => copies[n].text # text
        BY DEF EditorTyped, BufferTyped, Loaded, OneHome, Has
      <3>3. DiscardKept'
        BY <2>1, <3>1, <3>2 DEF DiscardKept, Dropped, NoCopy
      <3>4. CrashedWorkIsKept'
        BY <3>1 DEF Kept, CrashedWorkIsKept, Dropped, Answered
      <3>5. CopyCoversWork' /\ WorkAnswered'
        BY <3>1 DEF CopyCoversWork, WorkAnswered, Answered, Dirty, Editable, EditorTyped, BufferTyped
      <3>6. QED
        BY <3>3, <3>4, <3>5 DEF Kept
    <2>4. QED
      BY <1>3, <2>2, <2>3 DEF DiscardAnswer, DroppedOnDiscard
  <1>4. CASE CancelAnswer \/ SaveAnswer
    BY <1>1, <1>4 DEF CancelAnswer, SaveAnswer
  <1>5. CASE Restore
    <2>1. UNCHANGED <<open, saved, copies, armed, pane, discarded>>
      BY <1>5 DEF Restore
    <2>2. CASE offered.name = open
      <3>1. /\ text' = copies[open].text /\ stamp' = copies[open].stamp /\ owed' = Answered(open)
            /\ open \in Names
        BY <1>5, <2>2, EditorAssumption DEF Restore, OfferStands
      <3>2. copies[open] = [text |-> copies[open].text, stamp |-> copies[open].stamp]
        BY <3>1 DEF EditorTyped, CopiesTyped, CopiesOfTexts
      <3>3. CopyCoversWork'
        BY <2>1, <3>1, <3>2 DEF CopyCoversWork, CopyOfBuffer
      <3>4. CrashedWorkIsKept' /\ WorkAnswered'
        BY <2>1, <3>1 DEF Kept, CrashedWorkIsKept, WorkAnswered, Answered
      <3>5. DiscardKept'
        BY <2>1 DEF Kept, DiscardKept
      <3>6. QED
        BY <3>3, <3>4, <3>5 DEF Kept
    <2>3. CASE offered.name # open
      <3>1. UNCHANGED <<text, stamp, forgone, owed>>
        BY <1>5, <2>3 DEF Restore
      <3>2. QED
        BY <1>1, <2>1, <3>1 DEF buffer
    <2>4. QED
      BY <2>2, <2>3
  <1>6. CASE DiscardCopy
    <2>1. /\ UNCHANGED buffer /\ copies' = Dropped(offered.name) /\ ~armed'
          /\ owed' = Answered(open) /\ discarded' = offered.text /\ ask = "restore"
      BY <1>6 DEF DiscardCopy
    <2>2. offered.name \in Names /\ ~Dirty'
      BY <2>1 DEF OfferStands, Dirty, Editable, buffer
    <2>3. CopyCoversWork' /\ WorkAnswered'
      BY <2>2 DEF CopyCoversWork, WorkAnswered
    <2>4. CrashedWorkIsKept'
      BY <2>1, EditorAssumption DEF Kept, CrashedWorkIsKept, Dropped, Answered, OfferStands, NoCopy
    <2>5. DiscardKept'
      BY <2>1 DEF DiscardKept, Dropped, OfferStands, NoCopy
    <2>6. QED
      BY <2>3, <2>4, <2>5 DEF Kept
  <1>7. CASE NotNow
    <2>1. UNCHANGED <<buffer, copies, armed, pane, forgone, discarded>> /\ owed' = Answered(open)
      BY <1>7 DEF NotNow
    <2>2. CopyCoversWork' /\ DiscardKept'
      BY <2>1 DEF Kept, CopyCoversWork, DiscardKept, Dirty, Editable, CopyOfBuffer, buffer
    <2>3. CrashedWorkIsKept' /\ WorkAnswered'
      BY <2>1 DEF Kept, CrashedWorkIsKept, WorkAnswered, Answered, Dirty, Editable, buffer,
         EditorTyped, BufferTyped
    <2>4. QED
      BY <2>2, <2>3 DEF Kept
  <1>8. CASE OpenPane
    BY <1>8, EditorAssumption DEF OpenPane, Leaving, buffer, Kept, CopyCoversWork, CrashedWorkIsKept, WorkAnswered,
       DiscardKept, Dirty, Editable, CopyOfBuffer
  <1>9. CASE Save
    <2>1. open \in Names /\ SaveNote(FALSE, "stay") /\ "stay" \in Goals /\ open # "stay"
      BY <1>9, EditorAssumption DEF Save, Editable, EditorTyped, BufferTyped, Goals
    <2>2. UNCHANGED forgone
      BY <1>9 DEF Save
    <2>3. QED
      BY <2>1, <2>2, SaveKeeps
  <1>10. CASE SaveNow
    <2>1. UNCHANGED forgone
      BY <1>10 DEF SaveNow
    <2>2. CASE Editable /\ next # open /\ SaveNote(saving = "force", next)
      <3>1. open \in Names /\ next \in Goals
        BY <2>2 DEF Editable, EditorTyped, BufferTyped, QuestionTyped
      <3>2. QED
        BY <2>1, <2>2, <3>1, SaveKeeps
    <2>3. \/ Editable /\ next # open /\ SaveNote(saving = "force", next)
          \/ UNCHANGED <<disk, buffer, copies, armed, offered, owed, discarded, ask, pane>>
      BY <1>10, Zenon DEF SaveNow
    <2>4. QED
      BY <1>1, <2>1, <2>2, <2>3
  <1>11. QED
    BY <1>2, <1>3, <1>4, <1>5, <1>6, <1>7, <1>8, <1>9, <1>10

\* Typing, the copy, renames and deletes, and the others.
LEMMA WorkKeeps ==
  ASSUME EditorCore, Kept, \/ Type \/ Undo \/ TimerFires \/ Rename \/ AdoptRewrite \/ Delete
                           \/ ChangeVault \/ OutsideEdit \/ Crash
  PROVE  Kept'
  <1> USE DEF EditorCore, question
  <1>1. CASE Type
    <2>1. UNCHANGED <<open, saved, stamp, copies>> /\ armed' /\ discarded' = 0 /\ owed' = Answered(open)
      BY <1>1 DEF Type
    <2>2. CopyCoversWork' /\ DiscardKept'
      BY <2>1 DEF CopyCoversWork, DiscardKept
    <2>3. CrashedWorkIsKept' /\ WorkAnswered'
      BY <2>1 DEF Kept, CrashedWorkIsKept, WorkAnswered, Answered, Dirty, Editable, EditorTyped,
         BufferTyped
    <2>4. QED
      BY <2>2, <2>3 DEF Kept
  <1>2. CASE Undo
    BY <1>2, CleanKept DEF Undo, Dirty, Editable, history
  <1>3. CASE TimerFires
    <2>1. UNCHANGED <<open, text, saved, stamp, owed, discarded, pane>> /\ armed /\ ~armed' /\ discarded = 0
      BY <1>3 DEF TimerFires, buffer, Kept, DiscardKept
    <2>2. CASE Dirty
      <3>1. open \in Names /\ owed[open] = 0
        BY <2>2 DEF Dirty, Editable, EditorTyped, BufferTyped, Kept, WorkAnswered
      <3>2. \/ copies' = [copies EXCEPT ![open] = CopyOfBuffer]
            \/ copies' = copies /\ forgone'
        BY <1>3, <2>2 DEF TimerFires, Snapshot
      <3>3. CopyCoversWork'
        BY <2>1, <3>1, <3>2 DEF CopyCoversWork, CopyOfBuffer, EditorTyped, CopiesTyped, CopiesOfTexts
      <3>4. CrashedWorkIsKept'
        BY <2>1, <3>1, <3>2 DEF Kept, CrashedWorkIsKept, EditorTyped, CopiesTyped, CopiesOfTexts
      <3>5. WorkAnswered' /\ DiscardKept'
        BY <2>1, <3>1 DEF WorkAnswered, DiscardKept
      <3>6. QED
        BY <3>3, <3>4, <3>5 DEF Kept
    <2>3. CASE ~Dirty
      BY <1>3, <2>1, <2>3, CleanKept DEF TimerFires, Dirty, Editable
    <2>4. QED
      BY <2>2, <2>3
  <1>4. CASE Rename
    <2>1. PICK new \in Names :
            /\ disk[new] = 0 /\ open' = new /\ owed' = [owed EXCEPT ![new] = 0, ![open] = 0]
            /\ IF Dirty THEN Snapshot(Dropped(open), new)
                        ELSE copies' = Dropped(open)
      BY <1>4 DEF Rename
    <2>2. /\ UNCHANGED <<text, saved, stamp>> /\ ~armed' /\ discarded' = 0 /\ new # open
          /\ open \in Names
      BY <1>4, <2>1 DEF Rename, EditorTyped, BufferTyped
    <2>3. /\ owed'[new] = 0 /\ owed'[open] = 0
          /\ \A n \in Names \ {open, new} : owed'[n] = owed[n]
      BY <2>1, <2>2 DEF EditorTyped, CopiesTyped
    <2>4. \A n \in Names \ {open, new} : copies'[n] = copies[n]
      BY <2>1, <2>2 DEF Snapshot, Dropped
    <2>5. Dirty => copies'[new] = CopyOfBuffer \/ forgone'
      BY <2>1, <2>2 DEF Snapshot, Dropped
    <2>6. CopyCoversWork'
      BY <2>1, <2>2, <2>5, EditorAssumption DEF CopyCoversWork, Dirty, Editable, CopyOfBuffer, EditorTyped, BufferTyped
    <2>7. CrashedWorkIsKept'
      BY <2>3, <2>4 DEF Kept, CrashedWorkIsKept
    <2>8. WorkAnswered' /\ DiscardKept'
      BY <2>1, <2>2, <2>3 DEF WorkAnswered, DiscardKept
    <2>9. QED
      BY <2>6, <2>7, <2>8 DEF Kept
  <1>5. CASE AdoptRewrite
    <2>1. UNCHANGED <<open, copies, armed, owed, discarded>> /\ text' = saved'
      BY <1>5 DEF AdoptRewrite
    <2>2. QED
      BY <2>1 DEF Kept, CopyCoversWork, CrashedWorkIsKept, WorkAnswered, DiscardKept, Dirty
  <1>6. CASE Delete \/ ChangeVault
    <2>1. Clear /\ copies' = Dropped(open) /\ owed' = Answered(open) /\ discarded' = text
      BY <1>6 DEF Delete, ChangeVault
    <2>2. QED
      BY <2>1, CleanKept DEF Clear, Dirty, Editable, Dropped, Answered
  <1>7. CASE OutsideEdit
    BY <1>7 DEF OutsideEdit, buffer, Kept, CopyCoversWork, CrashedWorkIsKept, WorkAnswered,
       DiscardKept, Dirty, Editable, CopyOfBuffer
  <1>8. CASE Crash
    <2>1. /\ Clear /\ UNCHANGED <<copies, discarded>>
          /\ owed' = Answered(open) \/ owed' = IF pane /\ Dirty /\ ~armed /\ ~forgone
                     THEN [owed EXCEPT ![open] = text] ELSE owed
      BY <1>8 DEF Crash
    <2>2. CopyCoversWork' /\ WorkAnswered' /\ DiscardKept'
      BY <2>1 DEF Clear, Kept, CopyCoversWork, WorkAnswered, DiscardKept, Dirty, Editable
    <2>3. \A n \in Names : owed'[n] # 0 => owed'[n] = owed[n] \/ owed'[n] = copies[n].text
      BY <2>1 DEF Answered, Kept, CopyCoversWork, CopyOfBuffer, EditorTyped, CopiesTyped
    <2>4. CrashedWorkIsKept'
      BY <2>1, <2>3 DEF Kept, CrashedWorkIsKept
    <2>5. QED
      BY <2>2, <2>4 DEF Kept
  <1>9. QED
    BY <1>1, <1>2, <1>3, <1>4, <1>5, <1>6, <1>7, <1>8

\* The list owes nothing.
LEMMA KeptInit == EditorInit => Kept
  BY DEF EditorInit, Kept, CopyCoversWork, CrashedWorkIsKept, WorkAnswered, DiscardKept, Dirty,
     Editable

\* Every step.
LEMMA KeptNext == EditorCore /\ Kept /\ [EditorNext]_editorVars => Kept'
  <1>1. ASSUME Kept, UNCHANGED editorVars PROVE Kept'
    BY <1>1 DEF Kept, CopyCoversWork, CrashedWorkIsKept, WorkAnswered, DiscardKept, Dirty,
       Editable, CopyOfBuffer, editorVars
  <1>2. QED
    BY <1>1, QuestionsKeep, WorkKeeps DEF EditorNext

\* Unsaved work outlives a crash: the copy covers the buffer once the timer has
\* fired, waits for the user's answer, and what was discarded is not offered
\* again; for any notes and any order of edits, questions, renames and crashes
\* (_write_scratch, _offer_scratch, clear_scratch).
THEOREM UnsavedWorkIsKept == EditorSpec => []WorkIsKept
  BY CoreInit, CoreNext, KeptInit, KeptNext, KeptCounts, PTL DEF EditorSpec

\* What the user typed is on disk, in the buffer or in a copy that is kept,
\* beside whatever the other stores do: the editor and the recovery copies are
\* parts that move alone.
THEOREM TypedTextSurvives == MCSpec => []TypedTextIsKept
  <1>1. MCInit => EditorInit /\ CopiesInit
    BY DEF MCInit
  <1>2. [MCNext]_mcVars => [EditorNext]_editorVars /\ [CopiesNext]_copyVars
    BY DEF MCNext, mcVars, InManifest, InPlugins, InVault, InEditor, InScope, InCopies
  <1>3. WorkIsKept /\ CopiesAreKept => TypedTextIsKept
    BY DEF TypedTextIsKept
  <1>4. QED
    BY <1>1, <1>2, <1>3, UnsavedWorkIsKept, LandedCopiesAreKept, PTL DEF MCSpec, EditorSpec, CopiesSpec

(***************************************************************************)
(* What a plugin ships                                                     *)
(***************************************************************************)

(* The steps of the two folds that read a list, as tables.                 *)
KeepTable(kept, B) == [p \in Seq(B) \X B |-> IF p[2] \in kept THEN Append(p[1], p[2]) ELSE p[1]]
NewTable(B) == [p \in Seq(B) \X B |-> IF Contains(p[1], p[2]) THEN p[1] ELSE Append(p[1], p[2])]

\* Both pick.
LEMMA TablesPick ==
  ASSUME NEW B, NEW kept
  PROVE  /\ Picks(KeepTable(kept, B), kept, B) /\ Picks(NewTable(B), B, B)
         /\ PicksAll(KeepTable(kept, B), kept, B)
  <1>1. \A r \in Seq(B), x \in B : /\ <<r, x>> \in Seq(B) \X B /\ Append(r, x) \in Seq(B)
                                   /\ \E j \in 1..Len(Append(r, x)) : Append(r, x)[j] = x
    <2> TAKE r \in Seq(B), x \in B
    <2>1. Len(r) + 1 \in 1..Len(Append(r, x)) /\ Append(r, x)[Len(r) + 1] = x
      OBVIOUS
    <2>2. QED
      BY <2>1
  <1>2. /\ KeepTable(kept, B) \in [Seq(B) \X B -> Seq(B)]
        /\ NewTable(B) \in [Seq(B) \X B -> Seq(B)]
    BY DEF KeepTable, NewTable
  <1>3. \A r \in Seq(B), x \in B :
           KeepTable(kept, B)[<<r, x>>] = IF x \in kept THEN Append(r, x) ELSE r
    BY DEF KeepTable
  <1>4. \A r \in Seq(B), x \in B :
           NewTable(B)[<<r, x>>] = IF \E j \in 1..Len(r) : r[j] = x THEN r ELSE Append(r, x)
    BY DEF NewTable, Contains
  <1>5. Picks(KeepTable(kept, B), kept, B)
    <2>1. ASSUME NEW r \in Seq(B), NEW x \in B
          PROVE  /\ \/ KeepTable(kept, B)[<<r, x>>] = r
                    \/ x \in kept /\ KeepTable(kept, B)[<<r, x>>] = Append(r, x)
                 /\ x \in kept => \E j \in 1..Len(KeepTable(kept, B)[<<r, x>>]) :
                                    KeepTable(kept, B)[<<r, x>>][j] = x
      <3>1. CASE x \in kept
        <4>1. KeepTable(kept, B)[<<r, x>>] = Append(r, x)
          BY <1>3, <3>1
        <4>2. QED
          BY <1>1, <3>1, <4>1
      <3>2. CASE x \notin kept
        BY <1>3, <3>2
      <3>3. QED
        BY <3>1, <3>2
    <2>2. QED
      BY <1>2, <2>1 DEF Picks
  <1>6. Picks(NewTable(B), B, B)
    <2>1. ASSUME NEW r \in Seq(B), NEW x \in B
          PROVE  /\ \/ NewTable(B)[<<r, x>>] = r
                    \/ x \in B /\ NewTable(B)[<<r, x>>] = Append(r, x)
                 /\ x \in B => \E j \in 1..Len(NewTable(B)[<<r, x>>]) : NewTable(B)[<<r, x>>][j] = x
      <3>1. CASE \E j \in 1..Len(r) : r[j] = x
        BY <1>4, <3>1
      <3>2. CASE ~\E j \in 1..Len(r) : r[j] = x
        <4>1. NewTable(B)[<<r, x>>] = Append(r, x)
          BY <1>4, <3>2
        <4>2. QED
          BY <1>1, <4>1
      <3>3. QED
        BY <3>1, <3>2
    <2>2. QED
      BY <1>2, <2>1 DEF Picks
  <1>7. QED
    BY <1>3, <1>5, <1>6 DEF PicksAll

\* The elements of a list that a reader keeps are picked from it, and are the
\* list when it keeps them all.
LEMMA ThosePicked ==
  ASSUME NEW B, NEW s \in Seq(B), NEW kept
  PROVE  /\ PickedOf(Those(s, kept), s, Len(s), kept, B)
         /\ (\A i \in 1..Len(s) : s[i] \in kept) => Len(Those(s, kept)) = Len(s)
  <1> DEFINE T == DOMAIN s
             Body(f) == [x \in SUBSET T |->
                           IF x = {} THEN <<>>
                           ELSE IF s[Max(x)] \in kept THEN Append(f[x \ {Max(x)}], s[Max(x)])
                           ELSE f[x \ {Max(x)}]]
             it == CHOOSE f : f = Body(f)
             n == Len(s)
             op == KeepTable(kept, B)
  <1>1. T = 1..n /\ n \in Nat /\ s \in [1..n -> B]
    OBVIOUS
  <1>2. Those(s, kept) = it[T]
    BY ZenonT(30) DEF Those, FoldLeft, MapThenFoldSet
  <1>3. Picks(op, kept, B)
    BY TablesPick
  <1> HIDE DEF T, n
  <1>4. PICK g : FoldOf(g, op, <<>>, s, n, Seq(B))
    <2>1. <<>> \in Seq(B) /\ op \in [Seq(B) \X B -> Seq(B)]
      BY <1>3 DEF Picks
    <2>2. QED
      BY <1>1, <2>1, FoldExists
  <1>5. g = Body(g)
    <2>1. /\ g \in [SUBSET T -> Seq(B)] /\ g[{}] = <<>>
          /\ \A x \in SUBSET T : x # {} => g[x] = op[<<g[x \ {Max(x)}], s[Max(x)]>>]
      BY <1>1, <1>4 DEF FoldOf
    <2>2. ASSUME NEW x \in SUBSET T, x # {}
          PROVE  g[x] = IF s[Max(x)] \in kept THEN Append(g[x \ {Max(x)}], s[Max(x)])
                        ELSE g[x \ {Max(x)}]
      <3>1. x \in SUBSET (0..n)
        BY <1>1
      <3>2. Max(x) \in T
        BY <1>1, <2>2, <3>1, MaxOfNats
      <3>3. PICK e \in B, r \in Seq(B) : e = s[Max(x)] /\ r = g[x \ {Max(x)}]
        BY <1>1, <2>1, <3>2
      <3>4. g[x] = op[<<r, e>>]
        BY <2>1, <2>2, <3>3
      <3>5. op[<<r, e>>] = IF e \in kept THEN Append(r, e) ELSE r
        BY DEF KeepTable
      <3>6. QED
        BY <3>3, <3>4, <3>5, Zenon
    <2>3. g = [x \in SUBSET T |-> g[x]]
      BY <2>1
    <2>4. \A x \in SUBSET T : g[x] = IF x = {} THEN <<>>
                           ELSE IF s[Max(x)] \in kept THEN Append(g[x \ {Max(x)}], s[Max(x)])
                           ELSE g[x \ {Max(x)}]
      BY <2>1, <2>2, Zenon
    <2>5. QED
      BY <2>3, <2>4, Zenon
  <1>6. it = Body(it)
    <2> HIDE DEF Body
    <2>1. QED
      BY <1>5, Zenon
  <1> HIDE DEF it
  <1>7. FoldOf(it, op, <<>>, s, n, Seq(B))
    <2>1. it[{}] = <<>> /\ it = [x \in SUBSET (1..n) |-> it[x]]
      <3>1. DOMAIN it = SUBSET T /\ {} \in SUBSET T
        BY <1>6
      <3>2. it[{}] = <<>>
        BY <1>6, <3>1
      <3>3. QED
        BY <1>1, <1>6, <3>1, <3>2
    <2>2. ASSUME NEW x \in SUBSET (1..n), x # {}, it[x \ {Max(x)}] \in Seq(B)
          PROVE  it[x] = op[<<it[x \ {Max(x)}], s[Max(x)]>>]
      <3>1. x \in SUBSET (0..n)
        BY <1>1
      <3>2. Max(x) \in 1..n
        BY <1>1, <2>2, <3>1, MaxOfNats
      <3>3. PICK e \in B, r \in Seq(B) : e = s[Max(x)] /\ r = it[x \ {Max(x)}]
        BY <1>1, <2>2, <3>2
      <3>4. op[<<r, e>>] = IF e \in kept THEN Append(r, e) ELSE r
        BY DEF KeepTable
      <3>5. it[x] = IF s[Max(x)] \in kept THEN Append(it[x \ {Max(x)}], s[Max(x)])
                    ELSE it[x \ {Max(x)}]
        BY <1>1, <1>6, <2>2
      <3>6. QED
        BY <3>3, <3>4, <3>5, Zenon
    <2>3. <<>> \in Seq(B) /\ op \in [Seq(B) \X B -> Seq(B)]
      BY <1>3 DEF Picks
    <2> HIDE DEF op
    <2>4. \A x \in SUBSET (1..n) :
             x # {} /\ it[x \ {Max(x)}] \in Seq(B) => it[x] = op[<<it[x \ {Max(x)}], s[Max(x)]>>]
      BY <2>2
    <2>5. PICK A, bottom : A = Seq(B) /\ bottom = <<>>
      OBVIOUS
    <2>6. /\ bottom \in A /\ op \in [A \X B -> A] /\ it[{}] = bottom
          /\ \A x \in SUBSET (1..n) :
               x # {} /\ it[x \ {Max(x)}] \in A => it[x] = op[<<it[x \ {Max(x)}], s[Max(x)]>>]
      BY <2>1, <2>3, <2>4, <2>5, Zenon
    <2>7. FoldOf(it, op, bottom, s, n, A)
      BY <1>1, <2>1, <2>6, FoldIsOf
    <2>8. QED
      BY <2>5, <2>7, Zenon
  <1> HIDE DEF op
  <1>8. PickedOf(it[1..n], s, n, kept, B)
    BY <1>1, <1>3, <1>7, FoldPicks
  <1>9. (\A i \in 1..n : s[i] \in kept) => Len(it[1..n]) = n
    <2>1. PicksAll(op, kept, B)
      BY TablesPick DEF op
    <2>2. QED
      BY <1>1, <1>7, <2>1, FoldPicksAll
  <1>10. QED
    BY <1>1, <1>2, <1>8, <1>9 DEF n

\* So are the first ones of those that are alike.
LEMMA DistinctPicked ==
  ASSUME NEW B, NEW s \in Seq(B)
  PROVE  PickedOf(Distinct(s), s, Len(s), B, B)
  <1> DEFINE T == DOMAIN s
             Body(f) == [x \in SUBSET T |->
                           IF x = {} THEN <<>>
                           ELSE IF Contains(f[x \ {Max(x)}], s[Max(x)]) THEN f[x \ {Max(x)}]
                           ELSE Append(f[x \ {Max(x)}], s[Max(x)])]
             it == CHOOSE f : f = Body(f)
             n == Len(s)
             op == NewTable(B)
  <1>1. T = 1..n /\ n \in Nat /\ s \in [1..n -> B]
    OBVIOUS
  <1>2. Distinct(s) = it[T]
    BY ZenonT(30) DEF Distinct, FoldLeft, MapThenFoldSet
  <1>3. Picks(op, B, B)
    BY TablesPick
  <1> HIDE DEF T, n
  <1>4. PICK g : FoldOf(g, op, <<>>, s, n, Seq(B))
    <2>1. <<>> \in Seq(B) /\ op \in [Seq(B) \X B -> Seq(B)]
      BY <1>3 DEF Picks
    <2>2. QED
      BY <1>1, <2>1, FoldExists
  <1>5. g = Body(g)
    <2>1. /\ g \in [SUBSET T -> Seq(B)] /\ g[{}] = <<>>
          /\ \A x \in SUBSET T : x # {} => g[x] = op[<<g[x \ {Max(x)}], s[Max(x)]>>]
      BY <1>1, <1>4 DEF FoldOf
    <2>2. ASSUME NEW x \in SUBSET T, x # {}
          PROVE  g[x] = IF Contains(g[x \ {Max(x)}], s[Max(x)]) THEN g[x \ {Max(x)}]
                        ELSE Append(g[x \ {Max(x)}], s[Max(x)])
      <3>1. x \in SUBSET (0..n)
        BY <1>1
      <3>2. Max(x) \in T
        BY <1>1, <2>2, <3>1, MaxOfNats
      <3>3. PICK e \in B, r \in Seq(B) : e = s[Max(x)] /\ r = g[x \ {Max(x)}]
        BY <1>1, <2>1, <3>2
      <3>4. g[x] = op[<<r, e>>]
        BY <2>1, <2>2, <3>3
      <3>5. op[<<r, e>>] = IF Contains(r, e) THEN r ELSE Append(r, e)
        BY DEF NewTable
      <3>6. QED
        BY <3>3, <3>4, <3>5, Zenon
    <2>3. g = [x \in SUBSET T |-> g[x]]
      BY <2>1
    <2>4. \A x \in SUBSET T : g[x] = IF x = {} THEN <<>>
                           ELSE IF Contains(g[x \ {Max(x)}], s[Max(x)]) THEN g[x \ {Max(x)}]
                           ELSE Append(g[x \ {Max(x)}], s[Max(x)])
      BY <2>1, <2>2, Zenon
    <2>5. QED
      BY <2>3, <2>4, Zenon
  <1>6. it = Body(it)
    <2> HIDE DEF Body
    <2>1. QED
      BY <1>5, Zenon
  <1> HIDE DEF it
  <1>7. FoldOf(it, op, <<>>, s, n, Seq(B))
    <2>1. it[{}] = <<>> /\ it = [x \in SUBSET (1..n) |-> it[x]]
      <3>1. DOMAIN it = SUBSET T /\ {} \in SUBSET T
        BY <1>6
      <3>2. it[{}] = <<>>
        BY <1>6, <3>1
      <3>3. QED
        BY <1>1, <1>6, <3>1, <3>2
    <2>2. ASSUME NEW x \in SUBSET (1..n), x # {}, it[x \ {Max(x)}] \in Seq(B)
          PROVE  it[x] = op[<<it[x \ {Max(x)}], s[Max(x)]>>]
      <3>1. x \in SUBSET (0..n)
        BY <1>1
      <3>2. Max(x) \in 1..n
        BY <1>1, <2>2, <3>1, MaxOfNats
      <3>3. PICK e \in B, r \in Seq(B) : e = s[Max(x)] /\ r = it[x \ {Max(x)}]
        BY <1>1, <2>2, <3>2
      <3>4. op[<<r, e>>] = IF Contains(r, e) THEN r ELSE Append(r, e)
        BY DEF NewTable
      <3>5. it[x] = IF Contains(it[x \ {Max(x)}], s[Max(x)]) THEN it[x \ {Max(x)}]
                    ELSE Append(it[x \ {Max(x)}], s[Max(x)])
        BY <1>1, <1>6, <2>2
      <3>6. QED
        BY <3>3, <3>4, <3>5, Zenon
    <2>3. <<>> \in Seq(B) /\ op \in [Seq(B) \X B -> Seq(B)]
      BY <1>3 DEF Picks
    <2> HIDE DEF op
    <2>4. \A x \in SUBSET (1..n) :
             x # {} /\ it[x \ {Max(x)}] \in Seq(B) => it[x] = op[<<it[x \ {Max(x)}], s[Max(x)]>>]
      BY <2>2
    <2>5. PICK A, bottom : A = Seq(B) /\ bottom = <<>>
      OBVIOUS
    <2>6. /\ bottom \in A /\ op \in [A \X B -> A] /\ it[{}] = bottom
          /\ \A x \in SUBSET (1..n) :
               x # {} /\ it[x \ {Max(x)}] \in A => it[x] = op[<<it[x \ {Max(x)}], s[Max(x)]>>]
      BY <2>1, <2>3, <2>4, <2>5, Zenon
    <2>7. FoldOf(it, op, bottom, s, n, A)
      BY <1>1, <2>1, <2>6, FoldIsOf
    <2>8. QED
      BY <2>5, <2>7, Zenon
  <1> HIDE DEF op
  <1>8. PickedOf(it[1..n], s, n, B, B)
    BY <1>1, <1>3, <1>7, FoldPicks
  <1>9. QED
    BY <1>1, <1>2, <1>8 DEF n

\* What a reader keeps of a list.
LEMMA ThoseFacts ==
  ASSUME NEW B, NEW s \in Seq(B), NEW kept
  PROVE  /\ Those(s, kept) \in Seq(B) /\ Len(Those(s, kept)) <= Len(s)
         /\ ToSet(Those(s, kept)) = ToSet(s) \cap kept
         /\ Len(Those(s, kept)) = Len(s) => Those(s, kept) = s
         /\ ToSet(s) \subseteq kept => Those(s, kept) = s
  <1>1. PICK r : r = Those(s, kept)
    OBVIOUS
  <1>2. PickedOf(r, s, Len(s), kept, B) /\ ((\A i \in 1..Len(s) : s[i] \in kept) => Len(r) = Len(s))
    BY <1>1, ThosePicked
  <1>3. /\ r \in Seq(B) /\ Len(r) <= Len(s)
        /\ \A i \in 1..Len(s) : s[i] \in kept => \E j \in 1..Len(r) : r[j] = s[i]
        /\ \A j \in 1..Len(r) : r[j] \in kept /\ \E i \in 1..Len(s) : r[j] = s[i]
        /\ Len(r) = Len(s) => \A i \in 1..Len(s) : r[i] = s[i]
    BY <1>2 DEF PickedOf
  <1>4. /\ ToSet(r) = {r[j] : j \in 1..Len(r)} /\ ToSet(s) = {s[i] : i \in 1..Len(s)}
    BY <1>3 DEF ToSet
  <1>5. ToSet(r) = ToSet(s) \cap kept
    BY <1>3, <1>4
  <1>6. Len(r) = Len(s) => r = s
    BY <1>3
  <1>7. ToSet(s) \subseteq kept => Len(r) = Len(s)
    BY <1>2, <1>4
  <1>8. QED
    BY <1>1, <1>3, <1>5, <1>6, <1>7

\* What is left of one when nothing is said twice.
LEMMA DistinctFacts ==
  ASSUME NEW B, NEW s \in Seq(B)
  PROVE  Distinct(s) \in Seq(B) /\ Len(Distinct(s)) <= Len(s) /\ ToSet(Distinct(s)) = ToSet(s)
  <1>1. PICK r : r = Distinct(s)
    OBVIOUS
  <1>2. PickedOf(r, s, Len(s), B, B)
    BY <1>1, DistinctPicked
  <1>3. /\ r \in Seq(B) /\ Len(r) <= Len(s)
        /\ \A i \in 1..Len(s) : s[i] \in B => \E j \in 1..Len(r) : r[j] = s[i]
        /\ \A j \in 1..Len(r) : r[j] \in B /\ \E i \in 1..Len(s) : r[j] = s[i]
    BY <1>2 DEF PickedOf
  <1>4. /\ ToSet(r) = {r[j] : j \in 1..Len(r)} /\ ToSet(s) = {s[i] : i \in 1..Len(s)}
        /\ \A i \in 1..Len(s) : s[i] \in B
    BY <1>3 DEF ToSet
  <1>5. ToSet(r) = ToSet(s)
    BY <1>3, <1>4
  <1>6. QED
    BY <1>1, <1>3, <1>5

\* The first elements of a list no longer than a limit are the list.
LEMMA FirstFacts ==
  ASSUME NEW B, NEW s \in Seq(B), NEW n \in Nat
  PROVE  ToSet(FirstOf(s, n)) \subseteq ToSet(s) /\ (Len(s) <= n => FirstOf(s, n) = s)
  <1>1. PICK r, m : r = FirstOf(s, n) /\ m = (IF Len(s) < n THEN Len(s) ELSE n)
    OBVIOUS
  <1>2. m \in 0..Len(s) /\ (Len(s) <= n => m = Len(s)) /\ r = SubSeq(s, 1, m)
    BY <1>1 DEF FirstOf
  <1>3. r \in Seq(B) /\ Len(r) = m /\ \A i \in 1..m : r[i] = s[i]
    BY <1>2
  <1>4. /\ ToSet(r) = {r[j] : j \in 1..Len(r)} /\ ToSet(s) = {s[i] : i \in 1..Len(s)}
    BY <1>3 DEF ToSet
  <1>5. ToSet(r) \subseteq ToSet(s)
    BY <1>2, <1>3, <1>4
  <1>6. Len(s) <= n => r = s
    BY <1>2, <1>3
  <1>7. QED
    BY <1>1, <1>5, <1>6

(* The words and the records a manifest is made of.                        *)
Words == {"absent", "other", "empty", "odd", "wide", "long", "good", "another", "unknown", "elsewhere",
          "published", "unpublished", "emitted", "terminal", "observer", "table", "list", "default",
          "yes", "no", "single_line", "p", "q", "r", "h", "t", "u", "v"}
ListSet == [shape : Words, items : Seq(Words)]
TileSet == [table : BOOLEAN, settings : Words, type : Words, rows : Int, attachment : Words,
            command : Words, shell : Words, old : Words, args : ListSet, col : Int, cspan : Int]
ConceptSet == [table : BOOLEAN, unknown : BOOLEAN, name : Words, trigger : Words,
               enabled : Words, on_input : Words, stop : Int, mode : Words,
               conditions : ListSet, targets : ListSet]
ManifestSet == [unknown : BOOLEAN, id : Words, name : Words, min : Int, platform : Words,
                argv : ListSet, action : Words, command : Words, key : Words, arg : Words,
                event : Words, scheme : Words, handler : ListSet, concepts : Seq(ConceptSet),
                profile : Words, tiles : Seq(TileSet)]
WellFormed(m) == m \in ManifestSet /\ Len(m.concepts) # 0 /\ Len(m.tiles) # 0

\* The lists an author writes.
LEMMA ListsTyped ==
  /\ NoList \in ListSet /\ TextLists \subseteq ListSet
  /\ \A l \in {NotAList, ListOf(<<>>), ListOf(<<"other">>), ListOf(<<"r", "other">>)} : l \in ListSet
  <1>1. \A s \in Seq(Words) : ListOf(s) \in ListSet
    BY DEF ListOf, ListSet, Words
  <1>2. <<>> \in Seq(Words) /\ \A a, b, c \in Words : /\ <<a>> \in Seq(Words)
                                                       /\ <<a, b>> \in Seq(Words)
                                                       /\ <<a, b, c>> \in Seq(Words)
    OBVIOUS
  <1>3. NoList \in ListSet /\ NotAList \in ListSet
    BY <1>2 DEF NoList, NotAList, ListSet, Words
  <1>4. \A t \in BadTexts : t \in Words
    BY DEF BadTexts, Words
  <1>5. "t" \in Words /\ "u" \in Words /\ "v" \in Words /\ "r" \in Words /\ "other" \in Words
    BY DEF Words
  <1>6. \A l \in TextLists : l \in ListSet
    <2>1. \A s \in {<<"t", "t">>, <<"t", "u">>, <<"t", "u", "v">>} : s \in Seq(Words)
      BY <1>2, <1>5
    <2>2. QED
      BY <1>1, <1>2, <1>3, <1>4, <2>1, Zenon DEF TextLists
  <1>7. \A l \in {NotAList, ListOf(<<>>), ListOf(<<"other">>), ListOf(<<"r", "other">>)} : l \in ListSet
    <2>1. <<"other">> \in Seq(Words) /\ <<"r", "other">> \in Seq(Words)
      BY <1>2, <1>5
    <2>2. QED
      BY <1>1, <1>2, <1>3, <2>1, Zenon
  <1>8. QED
    BY <1>3, <1>6, <1>7

\* An edit leaves a tile a tile.
LEMMA TileEditsTyped ==
  ASSUME ManifestAssumption, NEW t \in TileSet
  PROVE  TileEdits(t) \subseteq TileSet
  <1>1. [t EXCEPT !.table = FALSE] \in TileSet
    BY DEF TileSet
  <1>2. \A s \in Words : /\ [t EXCEPT !.settings = s] \in TileSet
                          /\ [t EXCEPT !.type = s] \in TileSet
                          /\ [t EXCEPT !.attachment = s] \in TileSet
    BY DEF TileSet
  <1>3. \A s \in Words : /\ [t EXCEPT !.command = s] \in TileSet
                          /\ [t EXCEPT !.shell = s] \in TileSet
                          /\ [t EXCEPT !.old = s] \in TileSet
    BY DEF TileSet
  <1>4. \A n \in Int : /\ [t EXCEPT !.rows = n] \in TileSet
                       /\ [t EXCEPT !.col = n] \in TileSet
                       /\ [t EXCEPT !.cspan = n] \in TileSet
    BY DEF TileSet
  <1>5. \A l \in ListSet : [t EXCEPT !.args = l] \in TileSet
    BY DEF TileSet
  <1>6. \A n \in {Unset, NoInt, 0, 1, Grid, Grid + 1} : n \in Int
    BY DEF ManifestAssumption, Unset, NoInt
  <1>7. \A s \in BadTexts \cup {"observer", "unknown", "q", "default", "p"} : s \in Words
    BY DEF BadTexts, Words
  <1>8. ASSUME NEW e \in TileEdits(t) PROVE e \in TileSet
    <2>1. CASE e \in {[t EXCEPT !.table = FALSE]} \cup {[t EXCEPT !.settings = s] : s \in {"absent", "other"}}
               \cup {[t EXCEPT !.type = s] : s \in {"absent", "other", "observer", "unknown"}}
      BY <1>1, <1>2, <1>7, <2>1 DEF BadTexts
    <2>2. CASE e \in {[t EXCEPT !.attachment = s] : s \in BadTexts}
               \cup {[t EXCEPT !.command = s] : s \in {"absent", "other", "empty", "q", "default"}}
               \cup {[t EXCEPT !.shell = s] : s \in {"other", "p", "q"}}
               \cup {[t EXCEPT !.old = s] : s \in {"p", "q"}}
      BY <1>2, <1>3, <1>7, <2>2 DEF BadTexts
    <2>3. CASE e \in {[t EXCEPT !.rows = n] : n \in {Unset, NoInt, 0, Grid + 1}}
               \cup {[t EXCEPT !.col = n] : n \in {Unset, NoInt, 1, Grid}}
               \cup {[t EXCEPT !.cspan = n] : n \in {Unset, NoInt, 0, 1, Grid + 1}}
      BY <1>4, <1>6, <2>3
    <2>4. CASE e \in {[t EXCEPT !.args = l] :
                        l \in {NotAList, ListOf(<<>>), ListOf(<<"other">>), ListOf(<<"r", "other">>)}}
      BY <1>5, <2>4, ListsTyped, Zenon
    <2>5. QED
      BY <2>1, <2>2, <2>3, <2>4, Zenon DEF TileEdits
  <1>9. QED
    BY <1>8

\* Nor a concept anything else.
LEMMA ConceptEditsTyped ==
  ASSUME ManifestAssumption, NEW c \in ConceptSet
  PROVE  ConceptEdits(c) \subseteq ConceptSet
  <1>1. [c EXCEPT !.table = FALSE] \in ConceptSet /\ [c EXCEPT !.unknown = TRUE] \in ConceptSet
    BY DEF ConceptSet
  <1>2. \A s \in Words : /\ [c EXCEPT !.name = s] \in ConceptSet
                          /\ [c EXCEPT !.trigger = s] \in ConceptSet
    BY DEF ConceptSet
  <1>3. \A s \in Words : /\ [c EXCEPT !.enabled = s] \in ConceptSet
                          /\ [c EXCEPT !.on_input = s] \in ConceptSet
                          /\ [c EXCEPT !.mode = s] \in ConceptSet
    BY DEF ConceptSet
  <1>4. \A n \in Int : [c EXCEPT !.stop = n] \in ConceptSet
    BY DEF ConceptSet
  <1>5. \A l \in ListSet : /\ [c EXCEPT !.conditions = l] \in ConceptSet
                           /\ [c EXCEPT !.targets = l] \in ConceptSet
    BY DEF ConceptSet
  <1>6. \A n \in {NoInt, 0, 1, MaxStop, MaxStop + 1} : n \in Int
    BY DEF ManifestAssumption, NoInt
  <1>7. \A s \in BadTexts \cup {"yes", "no", "single_line", "unknown"} : s \in Words
    BY DEF BadTexts, Words
  <1>8. ASSUME NEW e \in ConceptEdits(c) PROVE e \in ConceptSet
    <2>1. CASE e \in {[c EXCEPT !.table = FALSE], [c EXCEPT !.unknown = TRUE]}
      BY <1>1, <2>1
    <2>2. CASE e \in {[c EXCEPT !.name = s] : s \in BadTexts} \cup {[c EXCEPT !.trigger = s] : s \in BadTexts}
      BY <1>2, <1>7, <2>2
    <2>3. CASE e \in {[c EXCEPT !.enabled = f] : f \in {"other", "yes", "no"}}
               \cup {[c EXCEPT !.on_input = f] : f \in {"other", "yes", "no"}}
               \cup {[c EXCEPT !.mode = s] : s \in {"other", "single_line", "unknown"}}
      BY <1>3, <1>7, <2>3 DEF BadTexts
    <2>4. CASE e \in {[c EXCEPT !.stop = n] : n \in {NoInt, 0, 1, MaxStop, MaxStop + 1}}
      BY <1>4, <1>6, <2>4
    <2>5. CASE e \in {[c EXCEPT !.conditions = l] : l \in TextLists}
               \cup {[c EXCEPT !.targets = l] : l \in TextLists}
      BY <1>5, <2>5, ListsTyped
    <2>6. QED
      BY <2>1, <2>2, <2>3, <2>4, <2>5, Zenon DEF ConceptEdits
  <1>9. QED
    BY <1>8

\* The plain manifest is one.
LEMMA PlainTyped ==
  ASSUME ManifestAssumption
  PROVE  PlainTile \in TileSet /\ PlainConcept \in ConceptSet /\ WellFormed(Plain)
  <1>1. NoList \in ListSet /\ ListOf(<<"t">>) \in ListSet /\ ListOf(<<"h">>) \in ListSet
    <2>1. "t" \in Words /\ "h" \in Words /\ "list" \in Words
      BY DEF Words
    <2>2. <<"t">> \in Seq(Words) /\ <<"h">> \in Seq(Words)
      BY <2>1
    <2>3. QED
      BY <2>1, <2>2, ListsTyped DEF ListOf, ListSet
  <1>2. PlainTile \in TileSet
    BY <1>1 DEF PlainTile, TileSet, Words, ManifestAssumption
  <1>3. PlainConcept \in ConceptSet
    BY <1>1 DEF PlainConcept, ConceptSet, Words, Unset
  <1>4. <<PlainConcept>> \in Seq(ConceptSet) /\ <<PlainTile>> \in Seq(TileSet)
    BY <1>2, <1>3
  <1>5. Len(<<PlainConcept>>) # 0 /\ Len(<<PlainTile>>) # 0
    OBVIOUS
  <1>6. Plain \in ManifestSet
    BY <1>1, <1>4 DEF Plain, ManifestSet, Words
  <1>7. Plain.concepts = <<PlainConcept>> /\ Plain.tiles = <<PlainTile>>
    BY DEF Plain
  <1>8. QED
    BY <1>2, <1>3, <1>5, <1>6, <1>7 DEF WellFormed

\* A list of which an element is replaced or one is added is as long or longer.
LEMMA ListEdits ==
  ASSUME NEW B, NEW s \in Seq(B), Len(s) # 0, NEW e \in B
  PROVE  /\ Append(s, e) \in Seq(B) /\ Len(Append(s, e)) # 0
         /\ \A i \in 1..Len(s) : [s EXCEPT ![i] = e] \in Seq(B) /\ Len([s EXCEPT ![i] = e]) # 0
         /\ 1 \in 1..Len(s) /\ Len(s) \in 1..Len(s) /\ s[1] \in B /\ s[Len(s)] \in B
  <1>1. \A i \in 1..Len(s) : [s EXCEPT ![i] = e] \in Seq(B) /\ Len([s EXCEPT ![i] = e]) = Len(s)
    OBVIOUS
  <1>2. 1 \in 1..Len(s) /\ Len(s) \in 1..Len(s) /\ Len(s) \in Nat
    OBVIOUS
  <1>3. Append(s, e) \in Seq(B) /\ Len(Append(s, e)) = Len(s) + 1
    OBVIOUS
  <1>4. QED
    BY <1>1, <1>2, <1>3

\* Edits of texts and numbers.
LEMMA FieldEdits ==
  ASSUME NEW m, WellFormed(m)
  PROVE  /\ WellFormed([m EXCEPT !.unknown = TRUE])
         /\ \A n \in Int : WellFormed([m EXCEPT !.min = n])
         /\ \A l \in ListSet : WellFormed([m EXCEPT !.argv = l]) /\ WellFormed([m EXCEPT !.handler = l])
         /\ \A t \in Words : /\ WellFormed([m EXCEPT !.id = t]) /\ WellFormed([m EXCEPT !.name = t])
                             /\ WellFormed([m EXCEPT !.platform = t]) /\ WellFormed([m EXCEPT !.action = t])
         /\ \A t \in Words : /\ WellFormed([m EXCEPT !.command = t]) /\ WellFormed([m EXCEPT !.key = t])
                             /\ WellFormed([m EXCEPT !.arg = t]) /\ WellFormed([m EXCEPT !.event = t])
         /\ \A t \in Words : /\ WellFormed([m EXCEPT !.scheme = t]) /\ WellFormed([m EXCEPT !.profile = t])
         /\ \A cs \in Seq(ConceptSet) : Len(cs) # 0 => WellFormed([m EXCEPT !.concepts = cs])
         /\ \A ts \in Seq(TileSet) : Len(ts) # 0 => WellFormed([m EXCEPT !.tiles = ts])
  <1> USE DEF WellFormed, ManifestSet
  <1>1. WellFormed([m EXCEPT !.unknown = TRUE])
    OBVIOUS
  <1>2. ASSUME NEW n \in Int PROVE WellFormed([m EXCEPT !.min = n])
    OBVIOUS
  <1>3. ASSUME NEW l \in ListSet PROVE WellFormed([m EXCEPT !.argv = l]) /\ WellFormed([m EXCEPT !.handler = l])
    OBVIOUS
  <1>4. ASSUME NEW t \in Words
        PROVE  /\ WellFormed([m EXCEPT !.id = t]) /\ WellFormed([m EXCEPT !.name = t])
               /\ WellFormed([m EXCEPT !.platform = t]) /\ WellFormed([m EXCEPT !.action = t])
    OBVIOUS
  <1>5. ASSUME NEW t \in Words
        PROVE  /\ WellFormed([m EXCEPT !.command = t]) /\ WellFormed([m EXCEPT !.key = t])
               /\ WellFormed([m EXCEPT !.arg = t]) /\ WellFormed([m EXCEPT !.event = t])
    OBVIOUS
  <1>6. ASSUME NEW t \in Words
        PROVE  WellFormed([m EXCEPT !.scheme = t]) /\ WellFormed([m EXCEPT !.profile = t])
    OBVIOUS
  <1>7. ASSUME NEW cs \in Seq(ConceptSet), Len(cs) # 0 PROVE WellFormed([m EXCEPT !.concepts = cs])
    BY <1>7
  <1>8. ASSUME NEW ts \in Seq(TileSet), Len(ts) # 0 PROVE WellFormed([m EXCEPT !.tiles = ts])
    BY <1>8
  <1> HIDE DEF WellFormed
  <1>9. QED
    BY <1>1, <1>2, <1>3, <1>4, <1>5, <1>6, <1>7, <1>8

\* And of the whole manifest.
LEMMA EditsTyped ==
  ASSUME ManifestAssumption, NEW m, WellFormed(m), NEW e \in ManifestEdits(m)
  PROVE  WellFormed(e)
  <1>0. /\ \A t \in BadTexts \cup {"another", "unknown", "elsewhere", "unpublished"} : t \in Words
        /\ "absent" \in BadTexts /\ "other" \in BadTexts
    BY DEF BadTexts, Words
  <1>1. /\ m.concepts \in Seq(ConceptSet) /\ Len(m.concepts) # 0
        /\ m.tiles \in Seq(TileSet) /\ Len(m.tiles) # 0
    BY DEF WellFormed, ManifestSet
  <1>2. /\ m.concepts[1] \in ConceptSet /\ m.tiles[Len(m.tiles)] \in TileSet
        /\ 1 \in 1..Len(m.concepts) /\ Len(m.tiles) \in 1..Len(m.tiles)
    <2>1. PlainConcept \in ConceptSet /\ PlainTile \in TileSet
      BY PlainTyped
    <2>2. QED
      BY <1>1, <2>1, ListEdits
  <1>3. CASE e \in {[m EXCEPT !.unknown = TRUE]}
             \cup {[m EXCEPT !.id = t] : t \in BadTexts \cup {"another"}}
             \cup {[m EXCEPT !.name = t] : t \in BadTexts}
             \cup {[m EXCEPT !.platform = t] : t \in {"absent", "other", "unknown", "elsewhere"}}
             \cup {[m EXCEPT !.action = t] : t \in BadTexts}
    <2>1. CASE e \in {[m EXCEPT !.unknown = TRUE]}
      BY <2>1, FieldEdits
    <2>2. CASE e \in {[m EXCEPT !.id = t] : t \in BadTexts \cup {"another"}}
      <3>1. PICK t \in BadTexts \cup {"another"} : e = [m EXCEPT !.id = t]
        BY <2>2
      <3>2. t \in Words
        BY <1>0
      <3>3. QED
        BY <3>1, <3>2, FieldEdits
    <2>3. CASE e \in {[m EXCEPT !.name = t] : t \in BadTexts}
      <3>1. PICK t \in BadTexts : e = [m EXCEPT !.name = t]
        BY <2>3
      <3>2. t \in Words
        BY <1>0
      <3>3. QED
        BY <3>1, <3>2, FieldEdits
    <2>4. CASE e \in {[m EXCEPT !.platform = t] : t \in {"absent", "other", "unknown", "elsewhere"}}
      <3>1. PICK t \in {"absent", "other", "unknown", "elsewhere"} : e = [m EXCEPT !.platform = t]
        BY <2>4
      <3>2. t \in Words
        BY <1>0
      <3>3. QED
        BY <3>1, <3>2, FieldEdits
    <2>5. CASE e \in {[m EXCEPT !.action = t] : t \in BadTexts}
      <3>1. PICK t \in BadTexts : e = [m EXCEPT !.action = t]
        BY <2>5
      <3>2. t \in Words
        BY <1>0
      <3>3. QED
        BY <3>1, <3>2, FieldEdits
    <2>6. QED
      BY <1>3, <2>1, <2>2, <2>3, <2>4, <2>5, Zenon
  <1>4. CASE e \in {[m EXCEPT !.command = t] : t \in {"absent", "other", "unpublished"}}
             \cup {[m EXCEPT !.key = t] : t \in BadTexts \ {"absent", "other"}}
             \cup {[m EXCEPT !.arg = t] : t \in BadTexts \ {"absent"}}
             \cup {[m EXCEPT !.event = t] : t \in {"absent", "other", "unknown"}}
             \cup {[m EXCEPT !.scheme = t] : t \in BadTexts}
             \cup {[m EXCEPT !.profile = t] : t \in BadTexts}
    <2>1. CASE e \in {[m EXCEPT !.command = t] : t \in {"absent", "other", "unpublished"}}
      <3>1. PICK t \in {"absent", "other", "unpublished"} : e = [m EXCEPT !.command = t]
        BY <2>1
      <3>2. t \in Words
        BY <1>0
      <3>3. QED
        BY <3>1, <3>2, FieldEdits
    <2>2. CASE e \in {[m EXCEPT !.key = t] : t \in BadTexts \ {"absent", "other"}}
      <3>1. PICK t \in BadTexts \ {"absent", "other"} : e = [m EXCEPT !.key = t]
        BY <2>2
      <3>2. t \in Words
        BY <1>0
      <3>3. QED
        BY <3>1, <3>2, FieldEdits
    <2>3. CASE e \in {[m EXCEPT !.arg = t] : t \in BadTexts \ {"absent"}}
      <3>1. PICK t \in BadTexts \ {"absent"} : e = [m EXCEPT !.arg = t]
        BY <2>3
      <3>2. t \in Words
        BY <1>0
      <3>3. QED
        BY <3>1, <3>2, FieldEdits
    <2>4. CASE e \in {[m EXCEPT !.event = t] : t \in {"absent", "other", "unknown"}}
      <3>1. PICK t \in {"absent", "other", "unknown"} : e = [m EXCEPT !.event = t]
        BY <2>4
      <3>2. t \in Words
        BY <1>0
      <3>3. QED
        BY <3>1, <3>2, FieldEdits
    <2>5. CASE e \in {[m EXCEPT !.scheme = t] : t \in BadTexts}
      <3>1. PICK t \in BadTexts : e = [m EXCEPT !.scheme = t]
        BY <2>5
      <3>2. t \in Words
        BY <1>0
      <3>3. QED
        BY <3>1, <3>2, FieldEdits
    <2>6. CASE e \in {[m EXCEPT !.profile = t] : t \in BadTexts}
      <3>1. PICK t \in BadTexts : e = [m EXCEPT !.profile = t]
        BY <2>6
      <3>2. t \in Words
        BY <1>0
      <3>3. QED
        BY <3>1, <3>2, FieldEdits
    <2>7. QED
      BY <1>4, <2>1, <2>2, <2>3, <2>4, <2>5, <2>6, Zenon
  <1>5. CASE e \in {[m EXCEPT !.min = n] : n \in {Unset, NoInt, 2}}
    <2>1. PICK n \in {Unset, NoInt, 2} : e = [m EXCEPT !.min = n]
      BY <1>5
    <2>2. n \in Int
      BY DEF Unset, NoInt
    <2>3. QED
      BY <2>1, <2>2, FieldEdits
  <1>6. CASE e \in {[m EXCEPT !.argv = l] : l \in TextLists} \cup {[m EXCEPT !.handler = l] : l \in TextLists \cup {NoList}}
    <2>1. PICK l \in TextLists \cup {NoList} : e = [m EXCEPT !.argv = l] \/ e = [m EXCEPT !.handler = l]
      BY <1>6
    <2>2. l \in ListSet
      BY ListsTyped
    <2>3. WellFormed([m EXCEPT !.argv = l]) /\ WellFormed([m EXCEPT !.handler = l])
      BY <2>2, FieldEdits
    <2>4. QED
      BY <2>1, <2>3, Zenon
  <1>7. CASE e \in {[m EXCEPT !.concepts = Append(@, PlainConcept)], [m EXCEPT !.tiles = Append(@, PlainTile)]}
    <2>1. PICK cs, ts : cs = Append(m.concepts, PlainConcept) /\ ts = Append(m.tiles, PlainTile)
      OBVIOUS
    <2>2. cs \in Seq(ConceptSet) /\ Len(cs) # 0 /\ ts \in Seq(TileSet) /\ Len(ts) # 0
      BY <1>1, <2>1, PlainTyped, ListEdits
    <2>3. e = [m EXCEPT !.concepts = cs] \/ e = [m EXCEPT !.tiles = ts]
      BY <1>7, <2>1
    <2>4. WellFormed([m EXCEPT !.concepts = cs]) /\ WellFormed([m EXCEPT !.tiles = ts])
      BY <2>2, FieldEdits
    <2>5. QED
      BY <2>3, <2>4, Zenon
  <1>8. CASE e \in {[m EXCEPT !.concepts[1] = c] : c \in ConceptEdits(m.concepts[1])}
    <2>1. PICK c \in ConceptEdits(m.concepts[1]) : e = [m EXCEPT !.concepts[1] = c]
      BY <1>8
    <2>2. c \in ConceptSet
      BY <1>2, ConceptEditsTyped
    <2>3. PICK cs : cs = [m.concepts EXCEPT ![1] = c]
      OBVIOUS
    <2>4. cs \in Seq(ConceptSet) /\ Len(cs) # 0
      BY <1>1, <1>2, <2>2, <2>3, ListEdits
    <2>5. e = [m EXCEPT !.concepts = cs]
      BY <2>1, <2>3
    <2>6. QED
      BY <2>4, <2>5, FieldEdits
  <1>9. CASE e \in {[m EXCEPT !.tiles[Len(m.tiles)] = t] : t \in TileEdits(m.tiles[Len(m.tiles)])}
    <2>1. PICK t \in TileEdits(m.tiles[Len(m.tiles)]) : e = [m EXCEPT !.tiles[Len(m.tiles)] = t]
      BY <1>9
    <2>2. t \in TileSet
      BY <1>2, TileEditsTyped
    <2>3. PICK ts : ts = [m.tiles EXCEPT ![Len(m.tiles)] = t]
      OBVIOUS
    <2>4. ts \in Seq(TileSet) /\ Len(ts) # 0
      BY <1>1, <1>2, <2>2, <2>3, ListEdits
    <2>5. e = [m EXCEPT !.tiles = ts]
      BY <2>1, <2>3
    <2>6. QED
      BY <2>4, <2>5, FieldEdits
  <1>10. QED
    BY <1>3, <1>4, <1>5, <1>6, <1>7, <1>8, <1>9, Zenon DEF ManifestEdits

\* A list has finitely many elements.
LEMMA ListsAreFinite ==
  ASSUME NEW B, NEW s \in Seq(B)
  PROVE  IsFiniteSet(ToSet(s))
  <1>1. PICK T : T = ToSet(s)
    OBVIOUS
  <1>2. T = {s[i] : i \in 1..Len(s)} /\ Len(s) \in Nat
    BY <1>1 DEF ToSet
  <1>3. s \in [1..Len(s) -> T] /\ \A t \in T : \E i \in 1..Len(s) : s[i] = t
    BY <1>2
  <1>4. s \in Surjection(1..Len(s), T)
    BY <1>3 DEF Surjection
  <1>5. ExistsSurjection(1..Len(s), T)
    BY <1>4 DEF ExistsSurjection
  <1>6. QED
    BY <1>1, <1>2, <1>5, FS_NatSurjection

\* The targets the review names are among those the engine loads, and are all
\* of them unless the list is longer than what a review names.
LEMMA TargetsNamed ==
  ASSUME ManifestAssumption, NEW l \in ListSet
  PROVE  LET taken == ToSet(TextsOf(l)) \ {"empty"} IN
         /\ Shown(l.items) \subseteq taken
         /\ Cardinality(taken) > Cardinality(Shown(l.items)) => Len(l.items) > ShownCap
  <1>1. PICK s, named, few, front :
          /\ s = l.items /\ named = Named(s) /\ few = Distinct(named) /\ front = FirstOf(few, ShownCap)
    OBVIOUS
  <1>2. s \in Seq(Words) /\ ShownCap \in Nat
    BY <1>1 DEF ListSet, ManifestAssumption
  <1>3. /\ named \in Seq(Words) /\ Len(named) <= Len(s)
        /\ ToSet(named) = {t \in ToSet(s) : IsText(t) /\ t # "empty"}
    <2>1. PICK kept : kept = {t \in ToSet(s) : IsText(t) /\ t # "empty"}
      OBVIOUS
    <2>2. named = Those(s, kept)
      BY <1>1, <2>1 DEF Named
    <2>3. named \in Seq(Words) /\ Len(named) <= Len(s) /\ ToSet(named) = ToSet(s) \cap kept
      BY <1>2, <2>2, ThoseFacts
    <2>4. QED
      BY <2>1, <2>3
  <1>4. ToSet(TextsOf(l)) = {t \in ToSet(s) : IsText(t)}
    <2>1. PICK kept : kept = {t \in ToSet(s) : IsText(t)}
      OBVIOUS
    <2>2. TextsOf(l) = Those(s, kept)
      BY <1>1, <2>1 DEF TextsOf
    <2>3. ToSet(TextsOf(l)) = ToSet(s) \cap kept
      BY <1>2, <2>2, ThoseFacts
    <2>4. QED
      BY <2>1, <2>3
  <1>5. few \in Seq(Words) /\ Len(few) <= Len(named) /\ ToSet(few) = ToSet(named)
    BY <1>1, <1>3, DistinctFacts
  <1>6. ToSet(front) \subseteq ToSet(few) /\ (Len(few) <= ShownCap => front = few)
    BY <1>1, <1>2, <1>5, FirstFacts
  <1>7. PICK X, Y : X = ToSet(TextsOf(l)) \ {"empty"} /\ Y = ToSet(front)
    OBVIOUS
  <1>8. X = ToSet(named)
    BY <1>3, <1>4, <1>7
  <1>9. Y \subseteq X
    BY <1>5, <1>6, <1>7, <1>8
  <1>10. ASSUME Len(s) <= ShownCap PROVE ~(Cardinality(X) > Cardinality(Y))
    <2>1. Len(few) <= ShownCap
      <3>1. Len(few) \in Nat /\ Len(named) \in Nat /\ Len(s) \in Nat
        BY <1>2, <1>3, <1>5
      <3>2. QED
        BY <1>2, <1>3, <1>5, <1>10, <3>1
    <2>2. X = Y
      BY <1>5, <1>6, <1>7, <1>8, <2>1
    <2>3. Cardinality(X) \in Nat
      BY <1>3, <1>8, ListsAreFinite, FS_CardinalityType
    <2>4. QED
      BY <2>2, <2>3
  <1>11. Len(s) > ShownCap \/ Len(s) <= ShownCap
    BY <1>2
  <1>12. Shown(l.items) = Y
    BY <1>1, <1>7, Zenon DEF Shown
  <1>13. QED
    BY <1>1, <1>7, <1>9, <1>10, <1>11, <1>12, Zenon

\* The engine loads every concept of a manifest that passed the validator.
LEMMA ConceptsLoaded ==
  ASSUME NEW m, WellFormed(m), Valid(m)
  PROVE  /\ ListedConcepts(RecordOf(m)) = m.concepts
         /\ ConceptsFromJson(m.concepts) = [i \in DOMAIN m.concepts |-> EngineConcept(m.concepts[i])]
  <1>1. PICK cs : cs = m.concepts
    OBVIOUS
  <1>2. /\ cs \in Seq(ConceptSet) /\ \A i \in DOMAIN cs : ValidConcept(cs[i])
        /\ Len(ConceptsFromJson(cs)) = Len(cs)
    BY <1>1 DEF WellFormed, ManifestSet, Valid, ValidConcepts
  <1>3. ListedConcepts(RecordOf(m)) = cs
    <2>1. PICK kept : kept = {c \in ToSet(cs) : IsText(c.name) /\ IsText(c.trigger)}
      OBVIOUS
    <2>2. RecordOf(m).concepts = cs
      BY <1>1 DEF RecordOf, Nothing
    <2>3. ListedConcepts(RecordOf(m)) = Those(cs, kept)
      BY <2>1, <2>2 DEF ListedConcepts
    <2>4. ToSet(cs) \subseteq kept
      BY <1>2, <2>1 DEF ToSet, ValidConcept, Fits
    <2>5. QED
      BY <1>2, <2>3, <2>4, ThoseFacts
  <1>4. ConceptsFromJson(cs) = [i \in DOMAIN cs |-> EngineConcept(cs[i])]
    <2>1. PICK taken : taken = Those(cs, {c \in ToSet(cs) : EngineTakes(c)})
      OBVIOUS
    <2>2. ConceptsFromJson(cs) = [i \in DOMAIN taken |-> EngineConcept(taken[i])]
      BY <2>1, Zenon DEF ConceptsFromJson
    <2>3. taken \in Seq(ConceptSet) /\ (Len(taken) = Len(cs) => taken = cs)
      BY <1>2, <2>1, ThoseFacts
    <2>4. Len(ConceptsFromJson(cs)) = Len(taken)
      <3>1. DOMAIN taken = 1..Len(taken) /\ Len(taken) \in Nat
        BY <2>3
      <3>2. \A F, n : n \in Nat /\ F = [i \in 1..n |-> EngineConcept(taken[i])] => Len(F) = n
        OBVIOUS
      <3>3. QED
        BY <2>2, <3>1, <3>2
    <2>5. taken = cs
      BY <1>2, <2>3, <2>4
    <2>6. QED
      BY <2>2, <2>5
  <1>5. QED
    BY <1>1, <1>3, <1>4

\* The window forces no number of a tile that passed the validator.
LEMMA TilesUnforced ==
  ASSUME ManifestAssumption, NEW t, ValidTile(t)
  PROVE  /\ SanitizedColumn(t) = NumberOr(t.col, 0) /\ SanitizedSpan(t) = NumberOr(t.cspan, Grid)
         /\ SanitizedRows(t) = t.rows /\ SanitizedAttachment(t) = t.attachment
  <1>1. PICK col, cspan : col = NumberOr(t.col, 0) /\ cspan = NumberOr(t.cspan, Grid)
    OBVIOUS
  <1>2. /\ col \in 0..Grid - 1 /\ cspan \in 1..Grid /\ col + cspan <= Grid /\ Grid \in Nat
        /\ t.rows = Unset \/ t.rows \in 1..Grid
        /\ t.attachment = "absent" \/ IsIdentifier(t.attachment)
    BY <1>1, Zenon DEF ValidTile, ManifestAssumption
  <1>3. SanitizedColumn(t) = col
    BY <1>1, <1>2 DEF SanitizedColumn, Forced, Between, NoInt
  <1>4. SanitizedSpan(t) = cspan
    <2>1. Forced(cspan, 1, Grid) = cspan
      BY <1>2 DEF Forced, Between, NoInt
    <2>2. Between(cspan, 1, Grid - col) = cspan
      BY <1>2 DEF Between
    <2>3. QED
      BY <1>1, <1>3, <2>1, <2>2 DEF SanitizedSpan
  <1>5. SanitizedRows(t) = t.rows
    BY <1>2 DEF SanitizedRows, Between, NoInt, Unset
  <1>6. SanitizedAttachment(t) = t.attachment
    BY <1>2 DEF SanitizedAttachment
  <1>7. QED
    BY <1>1, <1>3, <1>4, <1>5, <1>6

\* A tile that names what it runs in strings has one key, with something in it
\* if it starts anything.
LEMMA KeysAgree ==
  ASSUME NEW t \in TileSet
  PROVE  /\ ReviewedKey(t) \in Seq(Words)
         /\ Plainly(t) => ReviewedKey(t) = TilePlanKey(t)
         /\ Plainly(t) /\ SpawnsUntrusted(t) => TilePlanKey(t) # <<>>
  <1>1. PICK p, args : p = Program(t) /\ args = TextsOf(t.args)
    OBVIOUS
  <1>2. PICK items : items = t.args.items
    OBVIOUS
  <1>3. p \in Words /\ items \in Seq(Words) /\ "absent" \in Words
    BY <1>1, <1>2 DEF Program, TileSet, ListSet, Words
  <1>4. /\ args \in Seq(Words)
        /\ (\A i \in DOMAIN items : IsText(items[i])) => args = items
    <2>1. PICK kept : kept = {x \in ToSet(items) : IsText(x)}
      OBVIOUS
    <2>2. args = Those(items, kept)
      BY <1>1, <1>2, <2>1 DEF TextsOf
    <2>3. (\A i \in DOMAIN items : IsText(items[i])) => ToSet(items) \subseteq kept
      BY <2>1 DEF ToSet
    <2>4. QED
      BY <1>3, <2>2, <2>3, ThoseFacts
  <1>5. \A w \in Words : PlanKey(w, t) = (IF w \in {"absent", "empty"} THEN <<>> ELSE <<w>>) \o args
    BY <1>1 DEF PlanKey
  <1>6. \A w \in Words : PlanKey(w, t) \in Seq(Words)
    <2>1. ASSUME NEW w \in Words PROVE (IF w \in {"absent", "empty"} THEN <<>> ELSE <<w>>) \o args \in Seq(Words)
      <3>1. <<>> \in Seq(Words) /\ <<w>> \in Seq(Words)
        OBVIOUS
      <3>2. QED
        BY <1>4, <3>1
    <2>2. QED
      BY <1>5, <2>1
  <1>7. ReviewedKey(t) \in Seq(Words)
    BY <1>1, <1>3, <1>6 DEF ReviewedKey
  <1>8. ASSUME Plainly(t) PROVE ReviewedKey(t) = TilePlanKey(t)
    <2>1. p # "other"
      BY <1>1, <1>8 DEF Plainly
    <2>2. (IF IsText(p) THEN p ELSE "absent") = p
      BY <2>1 DEF IsText
    <2>3. QED
      BY <1>1, <2>2 DEF ReviewedKey, TilePlanKey
  <1>9. ASSUME Plainly(t), SpawnsUntrusted(t) PROVE TilePlanKey(t) # <<>>
    <2>1. TilePlanKey(t) = (IF p \in {"absent", "empty"} THEN <<>> ELSE <<p>>) \o args
      BY <1>1, <1>3, <1>5 DEF TilePlanKey
    <2>2. p \notin {"absent", "empty"} \/ items # <<>>
      BY <1>1, <1>2, <1>9 DEF SpawnsUntrusted
    <2>3. args = items
      BY <1>2, <1>4, <1>9 DEF Plainly
    <2>4. CASE p \notin {"absent", "empty"}
      <3>1. Len(<<p>> \o args) = 1 + Len(args) /\ Len(args) \in Nat
        BY <1>3, <1>4
      <3>2. Len(<<>>) = 0
        OBVIOUS
      <3>3. QED
        BY <2>1, <2>4, <3>1, <3>2
    <2>5. CASE p \in {"absent", "empty"}
      <3>1. TilePlanKey(t) = args
        BY <1>4, <2>1, <2>5
      <3>2. QED
        BY <2>2, <2>3, <2>5, <3>1
    <2>6. QED
      BY <2>4, <2>5
  <1>10. QED
    BY <1>7, <1>8, <1>9

\* The keys of a profile's tiles are in the plans the user approved, if an
\* approval holds them all.
LEMMA PlansHoldTheKeys ==
  ASSUME ManifestAssumption, NEW ts \in Seq(TileSet), Len(Distinct(PlanKeys(ts))) <= MaxPlans,
         \A i \in DOMAIN ts : Plainly(ts[i])
  PROVE  PlansCovered(ts, Approved(Distinct(PlanKeys(ts))))
  <1>1. PICK keys : keys = [i \in DOMAIN ts |-> ReviewedKey(ts[i])]
    OBVIOUS
  <1>2. keys \in Seq(Seq(Words)) /\ DOMAIN keys = DOMAIN ts
    <2>1. \A i \in 1..Len(ts) : ReviewedKey(ts[i]) \in Seq(Words)
      <3>1. \A i \in 1..Len(ts) : ts[i] \in TileSet
        OBVIOUS
      <3>2. QED
        BY <3>1, KeysAgree
    <2>2. DOMAIN ts = 1..Len(ts) /\ Len(ts) \in Nat
      OBVIOUS
    <2>3. \A n \in Nat : \A K : K = [i \in 1..n |-> ReviewedKey(ts[i])] /\ (\A i \in 1..n : ReviewedKey(ts[i]) \in Seq(Words))
                            => K \in Seq(Seq(Words))
      OBVIOUS
    <2>4. QED
      BY <1>1, <2>1, <2>2, <2>3
  <1>3. PICK told : told = PlanKeys(ts)
    OBVIOUS
  <1>4. told \in Seq(Seq(Words)) /\ ToSet(told) = ToSet(keys) \ {<<>>}
    <2>1. told = Those(keys, ToSet(keys) \ {<<>>})
      BY <1>1, <1>3, Zenon DEF PlanKeys
    <2>2. PICK kept : kept = ToSet(keys) \ {<<>>}
      OBVIOUS
    <2>3. told \in Seq(Seq(Words)) /\ ToSet(told) = ToSet(keys) \cap kept
      BY <1>2, <2>1, <2>2, ThoseFacts
    <2>4. QED
      BY <2>2, <2>3
  <1>5. PICK plans : plans = Distinct(told)
    OBVIOUS
  <1>6. plans \in Seq(Seq(Words)) /\ ToSet(plans) = ToSet(told)
    BY <1>4, <1>5, DistinctFacts
  <1>7. Approved(plans) = ToSet(plans)
    <2>1. MaxPlans \in Nat /\ Len(plans) <= MaxPlans
      BY <1>3, <1>5 DEF ManifestAssumption
    <2>2. FirstOf(plans, MaxPlans) = plans
      BY <1>6, <2>1, FirstFacts
    <2>3. QED
      BY <2>2 DEF Approved
  <1>8. ASSUME NEW i \in DOMAIN ts, SpawnsUntrusted(ts[i])
        PROVE  TilePlanKey(ts[i]) # <<>> /\ TilePlanKey(ts[i]) \in Approved(plans)
    <2>1. ts[i] \in TileSet /\ Plainly(ts[i])
      OBVIOUS
    <2>2. TilePlanKey(ts[i]) # <<>> /\ TilePlanKey(ts[i]) = ReviewedKey(ts[i])
      BY <1>8, <2>1, KeysAgree
    <2>3. keys[i] = ReviewedKey(ts[i]) /\ i \in DOMAIN keys
      BY <1>1, <1>2
    <2>4. ReviewedKey(ts[i]) \in ToSet(keys)
      BY <2>3 DEF ToSet
    <2>5. QED
      BY <1>4, <1>6, <1>7, <2>2, <2>4
  <1>9. QED
    BY <1>3, <1>5, <1>8, Zenon DEF PlansCovered

(* A manifest that passed the validator is reviewed, written and listed as  *)
(* it is: each stage holds what the one before it made.                     *)
PassedInv == stage \in {"reviewed", "recorded", "listed"} => Valid(manifest) /\ review = Reviewed(manifest)
RecordedInv == stage \in {"recorded", "listed"} => record = RecordOf(manifest)
ListedInv ==
    stage = "listed" =>
        listedAs = RecordOf(manifest) /\ loaded = ConceptsFromJson(ListedConcepts(RecordOf(manifest)))
RanInv == ran # <<>> => stage = "listed" /\ ran = <<manifest.command, manifest.key, manifest.arg>>
ManifestInv ==
    WellFormed(manifest) /\ stage # "unwritable" /\ PassedInv /\ RecordedInv /\ ListedInv /\ RanInv

\* The store writes what the validator lets through.
LEMMA ValidIsStorable ==
  ASSUME NEW m, Valid(m)
  PROVE  Storable(RecordOf(m)) /\ IsText(RecordOf(m).profile)
  <1>1. PICK r : r = RecordOf(m)
    OBVIOUS
  <1>2. r.concepts = m.concepts /\ r.profile = m.profile /\ r.tiles = m.tiles
    BY <1>1 DEF RecordOf, Nothing
  <1>3. /\ Len(r.concepts) <= Cap /\ \A i \in DOMAIN r.concepts : ValidConcept(r.concepts[i])
        /\ Fits(r.profile) /\ Len(r.tiles) <= Cap /\ \A i \in DOMAIN r.tiles : ValidTile(r.tiles[i])
    BY <1>2 DEF Valid, ValidConcepts, ValidProfiles
  <1>4. \A i \in DOMAIN r.concepts : StorableConcept(r.concepts[i])
    BY <1>3 DEF ValidConcept, StorableConcept
  <1>5. \A i \in DOMAIN r.tiles : r.tiles[i].table
    BY <1>3 DEF ValidTile
  <1>6. QED
    BY <1>1, <1>3, <1>4, <1>5 DEF Storable, StorableProfile, Fits

\* The author has written a plain manifest and nothing is installed.
LEMMA ManifestInitInv == ManifestAssumption /\ ManifestInit => ManifestInv
  <1> SUFFICES ASSUME ManifestAssumption, ManifestInit PROVE ManifestInv
    OBVIOUS
  <1>1. WellFormed(manifest)
    BY PlainTyped DEF ManifestInit
  <1>2. QED
    BY <1>1 DEF ManifestInit, ManifestInv, PassedInv, RecordedInv, ListedInv, RanInv

\* Every stage.
LEMMA ManifestNextInv ==
  ASSUME ManifestAssumption, ManifestInv, [ManifestNext]_manifestVars
  PROVE  ManifestInv'
  <1> USE DEF ManifestInv
  <1>1. CASE Depart
    <2>1. WellFormed(manifest')
      BY <1>1, EditsTyped DEF Depart
    <2>2. stage = "authored" /\ stage' = "authored" /\ ran' = ran
      BY <1>1 DEF Depart
    <2>3. QED
      BY <2>1, <2>2 DEF PassedInv, RecordedInv, ListedInv, RanInv
  <1>2. CASE Install
    <2>1. /\ stage = "authored" /\ stage' \in {"rejected", "refused", "reviewed"}
          /\ stage' = "reviewed" => Valid(manifest) /\ review' = Reviewed(manifest)
          /\ UNCHANGED <<manifest, ran>>
      BY <1>2 DEF Install
    <2>2. QED
      BY <2>1 DEF PassedInv, RecordedInv, ListedInv, RanInv
  <1>3. CASE WriteRecord
    <2>1. stage = "reviewed" /\ Valid(manifest) /\ review = Reviewed(manifest)
      BY <1>3 DEF WriteRecord, PassedInv
    <2>2. Storable(RecordOf(manifest))
      BY <2>1, ValidIsStorable
    <2>3. /\ stage' = "recorded" /\ record' = RecordOf(manifest)
          /\ UNCHANGED <<manifest, review, ran>>
      BY <1>3, <2>2 DEF WriteRecord
    <2>4. QED
      BY <2>1, <2>3 DEF PassedInv, RecordedInv, ListedInv, RanInv
  <1>4. CASE ListRecord
    <2>1. stage = "recorded" /\ Valid(manifest) /\ review = Reviewed(manifest) /\ record = RecordOf(manifest)
      BY <1>4 DEF ListRecord, PassedInv, RecordedInv
    <2>2. IsText(record.profile)
      BY <2>1, ValidIsStorable
    <2>3. /\ stage' = "listed" /\ listedAs' = RecordOf(manifest)
          /\ loaded' = ConceptsFromJson(ListedConcepts(RecordOf(manifest)))
          /\ UNCHANGED <<manifest, review, record, ran>>
      BY <1>4, <2>1, <2>2 DEF ListRecord
    <2>4. QED
      BY <2>1, <2>3 DEF PassedInv, RecordedInv, ListedInv, RanInv
  <1>5. CASE RunAction
    <2>1. /\ stage = "listed" /\ ran' = <<manifest.command, manifest.key, manifest.arg>>
          /\ UNCHANGED <<manifest, stage, review, record, listedAs, loaded>>
      BY <1>5 DEF RunAction
    <2>2. QED
      BY <2>1 DEF PassedInv, RecordedInv, ListedInv, RanInv
  <1>6. CASE UNCHANGED manifestVars
    BY <1>6 DEF manifestVars, PassedInv, RecordedInv, ListedInv, RanInv
  <1>7. QED
    BY <1>1, <1>2, <1>3, <1>4, <1>5, <1>6 DEF ManifestNext

\* What is listed is what the review named, loaded whole.
LEMMA InvCarries ==
  ASSUME ManifestAssumption, ManifestInv
  PROVE  AcceptedIsCarried
  <1>1. WellFormed(manifest) /\ stage # "unwritable"
    BY DEF ManifestInv
  <1>2. ran # <<>> => ran = review.action
    BY DEF ManifestInv, PassedInv, RanInv, Reviewed
  <1>3. ASSUME stage = "listed"
        PROVE  /\ listedAs.tiles = manifest.tiles
               /\ \A i \in DOMAIN listedAs.tiles : ValidTile(listedAs.tiles[i])
               /\ review = Reviewed(manifest) /\ Valid(manifest)
               /\ loaded = [i \in DOMAIN manifest.concepts |-> EngineConcept(manifest.concepts[i])]
    <2>1. /\ Valid(manifest) /\ review = Reviewed(manifest) /\ listedAs = RecordOf(manifest)
          /\ loaded = ConceptsFromJson(ListedConcepts(RecordOf(manifest)))
      BY <1>3 DEF ManifestInv, PassedInv, ListedInv
    <2>2. listedAs.tiles = manifest.tiles
      BY <2>1 DEF RecordOf, Nothing
    <2>3. \A i \in DOMAIN manifest.tiles : ValidTile(manifest.tiles[i])
      BY <2>1 DEF Valid, ValidProfiles
    <2>4. loaded = [i \in DOMAIN manifest.concepts |-> EngineConcept(manifest.concepts[i])]
      BY <1>1, <2>1, ConceptsLoaded
    <2>5. QED
      BY <2>1, <2>2, <2>3, <2>4
  <1>4. ASSUME stage = "listed", NEW i \in DOMAIN listedAs.tiles
        PROVE  LET t == listedAs.tiles[i] IN
               /\ SanitizedColumn(t) = NumberOr(t.col, 0) /\ SanitizedSpan(t) = NumberOr(t.cspan, Grid)
               /\ SanitizedRows(t) = t.rows /\ SanitizedAttachment(t) = t.attachment
    BY <1>3, <1>4, TilesUnforced
  <1>5. ASSUME stage = "listed" PROVE DOMAIN loaded = DOMAIN manifest.concepts /\ Len(loaded) = Len(manifest.concepts)
    <2>1. manifest.concepts \in Seq(ConceptSet)
      BY <1>1 DEF WellFormed, ManifestSet
    <2>2. DOMAIN loaded = DOMAIN manifest.concepts
      BY <1>3, <1>5
    <2>3. PICK n \in Nat : n = Len(manifest.concepts) /\ DOMAIN manifest.concepts = 1..n
      BY <2>1
    <2>4. \A F : F = [i \in 1..n |-> EngineConcept(manifest.concepts[i])] => Len(F) = n
      OBVIOUS
    <2>5. QED
      BY <1>3, <1>5, <2>2, <2>3, <2>4
  <1>6. ASSUME stage = "listed", NEW i \in DOMAIN loaded
        PROVE  /\ loaded[i].enabled = review.concepts[i].enabled
               /\ loaded[i].notify = review.concepts[i].notify
               /\ review.concepts[i].targets \subseteq loaded[i].targets
               /\ Cardinality(loaded[i].targets) > Cardinality(review.concepts[i].targets) =>
                    Len(manifest.concepts[i].targets.items) > ShownCap
    <2>1. PICK c : c = manifest.concepts[i]
      OBVIOUS
    <2>2. c \in ConceptSet /\ c.targets \in ListSet
      <3>1. manifest.concepts \in Seq(ConceptSet) /\ i \in DOMAIN manifest.concepts
        BY <1>1, <1>5, <1>6 DEF WellFormed, ManifestSet
      <3>2. c \in ConceptSet
        BY <2>1, <3>1
      <3>3. QED
        BY <3>2 DEF ConceptSet
    <2>3. loaded[i] = EngineConcept(c) /\ review.concepts[i] = ConceptReview(c)
      BY <1>3, <1>5, <1>6, <2>1 DEF Reviewed
    <2>4. /\ loaded[i].enabled = review.concepts[i].enabled
          /\ loaded[i].notify = review.concepts[i].notify
          /\ loaded[i].targets = ToSet(TextsOf(c.targets)) \ {"empty"}
          /\ review.concepts[i].targets = Shown(c.targets.items)
      BY <2>3 DEF EngineConcept, ConceptReview
    <2>5. PICK X, Y : X = ToSet(TextsOf(c.targets)) \ {"empty"} /\ Y = Shown(c.targets.items)
      OBVIOUS
    <2>6. Y \subseteq X /\ (Cardinality(X) > Cardinality(Y) => Len(c.targets.items) > ShownCap)
      BY <2>2, <2>5, TargetsNamed, Zenon
    <2>7. QED
      BY <2>1, <2>4, <2>5, <2>6, Zenon
  <1>7. QED
    BY <1>1, <1>2, <1>3, <1>4, <1>5, <1>6, Zenon DEF AcceptedIsCarried

\* A plain profile needs no second question.
LEMMA InvCovers ==
  ASSUME ManifestAssumption, ManifestInv
  PROVE  ReviewCoversTheProfile
  <1> SUFFICES ASSUME stage = "listed", Len(review.plans) <= MaxPlans,
                      \A i \in DOMAIN listedAs.tiles : Plainly(listedAs.tiles[i])
               PROVE  PlansCovered(listedAs.tiles, Approved(review.plans))
    BY DEF ReviewCoversTheProfile
  <1>1. PICK ts : ts = manifest.tiles
    OBVIOUS
  <1>2. ts \in Seq(TileSet) /\ listedAs.tiles = ts /\ review.plans = Distinct(PlanKeys(ts))
    <2>1. review = Reviewed(manifest) /\ listedAs = RecordOf(manifest) /\ WellFormed(manifest)
      BY DEF ManifestInv, PassedInv, ListedInv
    <2>2. ts \in Seq(TileSet)
      BY <1>1, <2>1 DEF WellFormed, ManifestSet
    <2>3. listedAs.tiles = ts
      BY <1>1, <2>1 DEF RecordOf, Nothing
    <2>4. review.plans = Distinct(PlanKeys(ts))
      BY <1>1, <2>1 DEF Reviewed
    <2>5. QED
      BY <2>2, <2>3, <2>4
  <1>3. QED
    BY <1>2, PlansHoldTheKeys

\* A manifest the validator accepts is carried whole to the panes and the rules
\* it becomes, and what the user's review approved is all that its tiles start;
\* for any caps, any lists and any number of departures from a plain manifest
\* (parse_manifest, review_summary, upsert, plugin_concepts_json,
\* concepts_from_json, sanitize_tile, _plans_covered).
THEOREM ManifestsAreHonoured == MCSpec => []ManifestIsHonoured
  <1>1. MCInit => ManifestInv
    BY ManifestAssumption, ManifestInitInv DEF MCInit
  <1>2. ManifestInv /\ [MCNext]_mcVars => ManifestInv'
    <2>1. [MCNext]_mcVars => [ManifestNext]_manifestVars
      BY DEF MCNext, mcVars, InManifest, InPlugins, InVault, InEditor, InScope, InCopies
    <2>2. QED
      BY <2>1, ManifestAssumption, ManifestNextInv
  <1>3. ManifestInv => ManifestIsHonoured
    BY ManifestAssumption, InvCarries, InvCovers DEF ManifestIsHonoured
  <1>4. QED
    BY <1>1, <1>2, <1>3, PTL DEF MCSpec
=============================================================================
