--------------------------- MODULE RecoveryCopies ---------------------------
(* The directory of recovery copies (gpty-core vault.rs): one file per note  *)
(* with unsaved text, written by any window a few times a minute, and tidied *)
(* by every write.  NoteEditor has the editor that owns a copy; here are the *)
(* files, which windows share, which vaults that come and go leave behind,   *)
(* and which a window that dies leaves half written.                         *)
(*                                                                           *)
(* A note is a vault, by its canonical directory, and a path in it.  A text  *)
(* is a number, 0 for none.                                                  *)
EXTENDS Integers, FiniteSets

CONSTANTS
    Vaults, Paths,
    KeyOf,         \* note -> the name of its file: a hash, two notes may share one
    Windows,       \* processes that write copies
    MaxCopies,     \* bound: texts snapshotted
    MaxMishaps     \* bound: vaults that move, files damaged, windows killed

Owners == Vaults \X Paths

ASSUME RecoveryCopiesAssumption ==
    /\ DOMAIN KeyOf = Owners /\ MaxCopies \in Nat /\ MaxMishaps \in Nat

VARIABLES
    vaultIs,     \* vault -> "dir", "file", "gone" or "blocked" (cannot be told)
    copyAt,      \* file -> the record in it: whose text, and the text
    temps,       \* window -> its temp file: "none", "fresh" or "stale"
    writing,     \* window -> how far its write_scratch is, and of what
    toJudge,     \* window -> files its prune has still to look at
    condemned,   \* window -> the file it is about to remove, as a set
    snapshots, mishaps,
    landed,        \* history: note -> the text that landed last and was not cleared
    excused      \* history: notes whose copy may be missing, and why is below

copyVars == <<vaultIs, copyAt, temps, writing, toJudge, condemned, snapshots, mishaps, landed, excused>>

Files == {KeyOf[o] : o \in Owners}
NotARecord == [of |-> <<>>, text |-> 0]
Empty == [of |-> <<>>, text |-> -1]
Idle == [step |-> "idle", of |-> <<>>, text |-> 0]
Sharing(o) == {other \in Owners \ {o} : KeyOf[other] = KeyOf[o]}

CopiesInit ==
    /\ vaultIs = [v \in Vaults |-> "dir"]
    /\ copyAt = [f \in Files |-> Empty]
    /\ temps = [w \in Windows |-> "none"] /\ writing = [w \in Windows |-> Idle]
    /\ toJudge = [w \in Windows |-> {}] /\ condemned = [w \in Windows |-> {}]
    /\ snapshots = 0 /\ mishaps = 0
    /\ landed = [o \in Owners |-> 0] /\ excused = {}

(***************************************************************************)
(* write_scratch (the GUI thread of one window)                            *)
(***************************************************************************)

Step(w, where) ==
    writing' = [writing EXCEPT ![w] = [step |-> where, of |-> writing[w].of, text |-> writing[w].text]]
Gives(w) == writing' = [writing EXCEPT ![w] = Idle]
History == <<snapshots, mishaps, landed, excused>>

TakeCopy(w, o) ==
    /\ writing[w] = Idle /\ snapshots < MaxCopies /\ snapshots' = snapshots + 1
    /\ writing' = [writing EXCEPT ![w] = [step |-> "prune", of |-> o, text |-> snapshots']]
    /\ toJudge' = [toJudge EXCEPT ![w] = {f \in Files : copyAt[f] # Empty}]
    /\ UNCHANGED <<vaultIs, copyAt, temps, condemned, mishaps, landed, excused>>

(* What metadata says of a vault's path: absent, or there and no directory. *)
SeenGone(v) == vaultIs[v] \in {"gone", "file"}

(* copy_is_orphaned: a record that names no vault decides nothing. *)
Orphaned(held) == held.of # <<>> /\ SeenGone(held.of[1])

(* A file that went meanwhile is none to judge. *)
JudgeCopy(w, f) ==
    /\ writing[w].step = "prune" /\ condemned[w] = {} /\ f \in toJudge[w]
    /\ toJudge' = [toJudge EXCEPT ![w] = @ \ {f}]
    /\ condemned' = [condemned EXCEPT ![w] = IF Orphaned(copyAt[f]) THEN {f} ELSE {}]
    /\ excused' = excused \cup {o \in Owners : KeyOf[o] = f /\ vaultIs[o[1]] \in {"gone", "file"}}
    /\ UNCHANGED <<vaultIs, copyAt, temps, writing, snapshots, mishaps, landed>>

(* remove_stale: no harm if another window removed it first. *)
RemoveCopy(w) ==
    /\ condemned[w] # {} /\ condemned' = [condemned EXCEPT ![w] = {}]
    /\ copyAt' = [f \in Files |-> IF f \in condemned[w] THEN Empty ELSE copyAt[f]]
    /\ UNCHANGED <<vaultIs, temps, writing, toJudge, History>>

(* temp_is_stale: the remains of a write an hour old, whoever left them. *)
PruneTemp(w, other) ==
    /\ writing[w].step = "prune" /\ temps[other] = "stale"
    /\ temps' = [temps EXCEPT ![other] = "none"]
    /\ UNCHANGED <<vaultIs, copyAt, writing, toJudge, condemned, History>>

(* scratch_location, after the prune: a vault that is no directory now is   *)
(* refused.  ensure_private_dir may fail too.                               *)
Locate(w) ==
    /\ writing[w].step = "prune" /\ condemned[w] = {}
    /\ \/ vaultIs[writing[w].of[1]] = "dir" /\ Step(w, "located")
       \/ Gives(w)
    /\ toJudge' = [toJudge EXCEPT ![w] = {}]
    /\ UNCHANGED <<vaultIs, copyAt, temps, condemned, History>>

WriteTemp(w) ==
    /\ writing[w].step = "located"
    /\ \/ Step(w, "written") /\ temps' = [temps EXCEPT ![w] = "fresh"]
       \/ Gives(w) /\ UNCHANGED temps
    /\ UNCHANGED <<vaultIs, copyAt, toJudge, condemned, History>>

\* A copy landing while a prune is about to remove its file may go with it.
Doomed(o) == \E w \in Windows : KeyOf[o] \in condemned[w]

(* The rename over the previous copy fails when the temp file was pruned.   *)
LandCopy(w) ==
    /\ writing[w].step = "written" /\ Gives(w)
    /\ LET o == writing[w].of IN
       \/ /\ temps[w] # "none"
          /\ copyAt' = [copyAt EXCEPT ![KeyOf[o]] = [of |-> o, text |-> writing[w].text]]
          /\ landed' = [landed EXCEPT ![o] = writing[w].text]
          /\ excused' = (IF Doomed(o) THEN excused ELSE excused \ {o}) \cup Sharing(o)
       \/ UNCHANGED <<copyAt, landed, excused>>
    /\ temps' = [temps EXCEPT ![w] = "none"]
    /\ UNCHANGED <<vaultIs, toJudge, condemned, snapshots, mishaps>>

(* clear_scratch, when a save or a discard decided about the text. *)
ClearCopy(w, o) ==
    /\ writing[w] = Idle /\ vaultIs[o[1]] = "dir" /\ copyAt[KeyOf[o]] # Empty
    /\ copyAt' = [copyAt EXCEPT ![KeyOf[o]] = Empty]
    /\ landed' = [landed EXCEPT ![o] = 0] /\ excused' = excused \cup Sharing(o)
    /\ UNCHANGED <<vaultIs, temps, writing, toJudge, condemned, snapshots, mishaps>>

(* read_scratch: a record that names another note answers as absent. *)
Offered(o) ==
    LET held == copyAt[KeyOf[o]] IN
    IF vaultIs[o[1]] = "dir" /\ held.of = o THEN held.text ELSE 0

(***************************************************************************)
(* What windows, disks and users do around them                            *)
(***************************************************************************)

Mishap == mishaps < MaxMishaps /\ mishaps' = mishaps + 1

MoveVault(v) ==
    /\ Mishap /\ \E is \in {"dir", "file", "gone", "blocked"} : vaultIs' = [vaultIs EXCEPT ![v] = is]
    /\ UNCHANGED <<copyAt, temps, writing, toJudge, condemned, snapshots, landed, excused>>

DamageCopy(f) ==
    /\ Mishap /\ copyAt[f] # Empty /\ copyAt' = [copyAt EXCEPT ![f] = NotARecord]
    /\ excused' = excused \cup {o \in Owners : KeyOf[o] = f}
    /\ UNCHANGED <<vaultIs, temps, writing, toJudge, condemned, snapshots, landed>>

(* The machine may sleep between a write and its rename: any temp can age. *)
Age(w) ==
    /\ temps[w] = "fresh" /\ temps' = [temps EXCEPT ![w] = "stale"]
    /\ UNCHANGED <<vaultIs, copyAt, writing, toJudge, condemned, History>>

Kill(w) ==
    /\ Mishap /\ writing[w] # Idle /\ Gives(w)
    /\ toJudge' = [toJudge EXCEPT ![w] = {}] /\ condemned' = [condemned EXCEPT ![w] = {}]
    /\ UNCHANGED <<vaultIs, copyAt, temps, snapshots, landed, excused>>

CopiesNext ==
    \/ \E w \in Windows :
         \/ \E o \in Owners : TakeCopy(w, o) \/ ClearCopy(w, o)
         \/ \E f \in Files : JudgeCopy(w, f)
         \/ \E other \in Windows : PruneTemp(w, other)
         \/ RemoveCopy(w) \/ Locate(w) \/ WriteTemp(w) \/ LandCopy(w) \/ Age(w) \/ Kill(w)
    \/ \E v \in Vaults : MoveVault(v)
    \/ \E f \in Files : DamageCopy(f)

CopiesSpec == CopiesInit /\ [][CopiesNext]_copyVars

(***************************************************************************)
(* Properties                                                              *)
(***************************************************************************)

\* The copy offered for a note is the last text that landed for that note,
\* never another note's and never a half-written one.
OfferedIsOwn == \A o \in Owners : Offered(o) \in {0, landed[o]}

\* While its vault is a directory, a copy that landed and was not cleared is
\* there, whatever windows died and vaults went: unless a prune saw its vault
\* gone, its file was damaged, or a note of the same hash took the file.
CopiesOutliveOutages ==
    \A o \in Owners : vaultIs[o[1]] = "dir" /\ landed[o] # 0 /\ Offered(o) = 0 => o \in excused

\* What the user typed and no window saved is still there to be offered.
CopiesAreKept == OfferedIsOwn /\ CopiesOutliveOutages
=============================================================================
