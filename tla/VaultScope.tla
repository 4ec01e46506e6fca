----------------------------- MODULE VaultScope -----------------------------
(* Which directories a request over the control socket may look into, and    *)
(* what it answers: the list of vaults the user keeps (vault_registry.gd),   *)
(* its mirror in process memory (vault_api.rs), the two vault verbs on the   *)
(* blocking pool (vault_ipc.rs) and the rows of the index they share with    *)
(* the wiki pane.  The pool's threads and the GUI run side by side; between  *)
(* two steps a directory may go, come back, or a link be turned to another.  *)
(*                                                                           *)
(* A directory is its canonical path; a path is a spelling of it, absolute.  *)
(* How a pass reads a vault, and what queries compute from it, are           *)
(* VaultIndex and VaultQueries: here a path's rows are the directory they    *)
(* were read from.                                                           *)
EXTENDS FiniteSets, Integers

CONSTANTS
    Dirs,          \* directories, by canonical path
    Spellings,     \* what users and clients write for them
    Target,        \* spelling -> the directory it names at first
    Movable,       \* spellings that are links: they can be turned to another
    Requests,      \* requests over the control socket
    MaxRoots,      \* MAX_VAULTS
    MaxMoves       \* bound: what users, files and the pane do around the requests

ASSUME VaultScopeAssumption ==
    /\ Spellings # {} /\ Target \in [Spellings -> Dirs] /\ Movable \subseteq Spellings
    /\ MaxRoots \in Nat \ {0} /\ MaxMoves \in Nat

VARIABLES
    names,     \* spelling -> the directory it leads to
    there,     \* directories that can be reached
    roots,     \* _roots of VaultRegistry
    pushed,    \* spellings _push_to_rust has still to register
    clearing,  \* ... and whether it has still to clear
    mirror,    \* REGISTERED_VAULT_ROOTS
    indexed,   \* spelling -> the directory whose rows the index holds for it
    asked,     \* request -> [verb, path, at, found]: how far it came, what its pass read
    shown,     \* the pane's last answer
    moves,
    meant,     \* history: spelling -> the directory the last push found there
    during     \* history: request -> where its path was seen to lead since it came

registryVars == <<roots, pushed, clearing, mirror>>
placeVars == <<names, there>>
scopeVars == <<registryVars, placeVars, indexed, asked, shown, moves, meant, during>>

(* canonicalize and is_dir: nobody, when the path leads nowhere. *)
Real(p) == {names[p]} \cap there
IsDir(p) == Real(p) # {}

Waiting(r) == asked[r].at \notin {"unasked", "refused", "unlisted", "answered"}
LeadsTo(paths, reach) ==
    [r \in Requests |-> IF Waiting(r) THEN during[r] \cup {{paths[asked[r].path]} \cap reach} ELSE during[r]]
NoRequest(where) == [verb |-> "none", path |-> CHOOSE p \in Spellings : TRUE, at |-> where, found |-> {}]
NothingShown == [failed |-> FALSE, of |-> {}]

ScopeInit ==
    /\ names = Target /\ there = Dirs
    /\ roots = {} /\ pushed = {} /\ clearing = FALSE /\ mirror = {}
    /\ indexed = [p \in Spellings |-> {}]
    /\ asked = [r \in Requests |-> NoRequest("unasked")]
    /\ shown = NothingShown /\ moves = 0
    /\ meant = [p \in Spellings |-> {}] /\ during = [r \in Requests |-> {}]

(***************************************************************************)
(* The places (outside gpty)                                               *)
(***************************************************************************)

Moved == moves < MaxMoves /\ moves' = moves + 1

MovePlaces ==
    /\ Moved
    /\ \/ \E d \in Dirs : there' = (IF d \in there THEN there \ {d} ELSE there \cup {d}) /\ UNCHANGED names
       \/ \E p \in Movable, d \in Dirs : names' = [names EXCEPT ![p] = d] /\ UNCHANGED there
    /\ during' = LeadsTo(names', there')
    /\ UNCHANGED <<registryVars, indexed, asked, shown, meant>>

(***************************************************************************)
(* The list and its mirror (GUI thread)                                    *)
(***************************************************************************)

GuiIdle == pushed = {} /\ ~clearing
PushStarts(list) == roots' = list /\ pushed' = list /\ clearing' = TRUE

(* register: a path already listed is answered true and nothing is done.   *)
(* What it writes to vaults.json matters to the next process only.          *)
Register(p) ==
    /\ GuiIdle /\ Moved
    /\ IsDir(p) /\ p \notin roots /\ Cardinality(roots) < MaxRoots
    /\ PushStarts(roots \cup {p})
    /\ UNCHANGED <<placeVars, mirror, indexed, asked, shown, meant, during>>

(* A new process reads vaults.json, which anyone may have edited, up to its *)
(* cap; whoever waited for the old process has lost the connection.         *)
Reload ==
    /\ GuiIdle /\ Moved
    /\ \E written \in SUBSET Spellings, list \in SUBSET Spellings :
         /\ list \subseteq written
         /\ Cardinality(list) = IF Cardinality(written) < MaxRoots THEN Cardinality(written) ELSE MaxRoots
         /\ PushStarts(list)
    /\ mirror' = {} /\ meant' = [p \in Spellings |-> {}]
    /\ asked' = [r \in Requests |-> IF Waiting(r) THEN NoRequest("refused") ELSE asked[r]]
    /\ during' = [r \in Requests |-> {}]
    /\ UNCHANGED <<placeVars, indexed, shown>>

(* vault_clear_roots *)
ClearedMirror == {}

ClearMirror ==
    /\ clearing /\ clearing' = FALSE
    /\ mirror' = ClearedMirror /\ meant' = [p \in Spellings |-> {}]
    /\ UNCHANGED <<roots, pushed, placeVars, indexed, asked, shown, moves, during>>

(* vault_register_root: a root that cannot be resolved now is left out. *)
PushRoot(p) ==
    /\ ~clearing /\ p \in pushed /\ pushed' = pushed \ {p}
    /\ mirror' = mirror \cup Real(p) /\ meant' = [meant EXCEPT ![p] = Real(p)]
    /\ UNCHANGED <<roots, clearing, placeVars, indexed, asked, shown, moves, during>>

(***************************************************************************)
(* vaultSearch and vaultRead (blocking pool)                               *)
(***************************************************************************)

ScopeStill == UNCHANGED <<registryVars, placeVars, shown, moves, meant>>
Moves(r, state) == asked' = [asked EXCEPT ![r] = state] /\ UNCHANGED during /\ ScopeStill
Request(r, where, found) == [verb |-> asked[r].verb, path |-> asked[r].path, at |-> where, found |-> found]
At(r, where) == Moves(r, Request(r, where, asked[r].found))
Ends(r, where) ==
    /\ asked' = [asked EXCEPT ![r] = NoRequest(where)] /\ during' = [during EXCEPT ![r] = {}]
    /\ ScopeStill /\ UNCHANGED indexed

(* What passes over p that have not written yet will write. *)
InHand(p) == {asked[r].found : r \in {q \in Requests : asked[q].at = "scanned" /\ asked[q].path = p}}

Ask(r, verb, p) ==
    /\ asked[r].at = "unasked"
    /\ asked' = [asked EXCEPT ![r] = [verb |-> verb, path |-> p, at |-> "asked", found |-> {}]]
    /\ during' = [during EXCEPT ![r] = {Real(p)} \cup InHand(p)]
    /\ ScopeStill /\ UNCHANGED indexed

(* vault_path_problem *)
JudgePath(r) ==
    /\ asked[r].at = "asked"
    /\ IF IsDir(asked[r].path) THEN At(r, "directory") /\ UNCHANGED indexed ELSE Ends(r, "refused")

\* Flawed: the mirror is asked for the path as it was spelled, not where it leads.
RegisteredAsSpelled(p) == IsDir(p) /\ p \in roots

(* vault_root_registered *)
Registered(p) == IsDir(p) /\ Real(p) \subseteq mirror

JudgeListed(r) ==
    /\ asked[r].at = "directory"
    /\ IF Registered(asked[r].path) THEN At(r, "listed") /\ UNCHANGED indexed ELSE Ends(r, "unlisted")

(* search_work brings the index up to date: it walks the vault, nothing when *)
(* the path leads nowhere any more ...                                       *)
ScanVault(r) ==
    /\ asked[r].at = "listed" /\ asked[r].verb = "search"
    /\ Moves(r, Request(r, "scanned", Real(asked[r].path)))
    /\ UNCHANGED indexed

(* ... replaces the rows kept under that spelling ... *)
RowsOf(r) == asked[r].found

WriteRows(r) ==
    /\ asked[r].at = "scanned" /\ Moves(r, Request(r, "written", {}))
    /\ indexed' = [indexed EXCEPT ![asked[r].path] = RowsOf(r)]

(* ... and forgets, under any spelling, vaults that are no directory now. *)
LiveRows == [p \in Spellings |-> IF IsDir(p) THEN indexed[p] ELSE {}]

PruneDead(r) == asked[r].at = "written" /\ At(r, "indexed") /\ indexed' = LiveRows

(* The directory an answer's text is of; read_work wants it to be there. *)
AnswerOf(r) == IF asked[r].verb = "search" THEN indexed[asked[r].path] ELSE Real(asked[r].path)

AnswerSearch(r) == asked[r].at = "indexed" /\ Ends(r, "answered")

(* note_path and resolve_inside want the root to be there still. *)
Contained(p) == IsDir(p)

AnswerRead(r) ==
    /\ asked[r].at = "listed" /\ asked[r].verb = "read"
    /\ Ends(r, IF Contained(asked[r].path) THEN "answered" ELSE "refused")

(***************************************************************************)
(* The pane's own calls (GUI thread, unlisted vaults too)                  *)
(***************************************************************************)

PaneMay == GuiIdle /\ Moved
PaneStill == UNCHANGED <<registryVars, placeVars, asked, meant, during>>

(* Without a directory, or a store to open, an error; else one of `answers`. *)
Shows(p, answers) ==
    /\ PaneMay /\ PaneStill /\ UNCHANGED indexed
    /\ \/ shown' = [failed |-> TRUE, of |-> {}]
       \/ IsDir(p) /\ \E hits \in answers : shown' = [failed |-> FALSE, of |-> hits]

(* vault_index: what a pass lists comes from the walk, not from the rows. *)
PaneIndex(p) ==
    /\ PaneMay /\ PaneStill /\ IsDir(p)
    /\ shown' = [failed |-> FALSE, of |-> Real(p)]
    /\ indexed' = [LiveRows EXCEPT ![p] = Real(p)]
    /\ during' = during

(* vault_note_create and its kind bring the index up to date the same way, *)
(* and succeed without it.                                                  *)
Reindex(p) == Contained(p) /\ (PaneIndex(p) \/ Shows(p, {Real(p)}))

(* A text can match nothing, a note have no links, a target name no note. *)
PaneSearch(p) == Shows(p, {{}, indexed[p]})
PaneLinks(p) == Shows(p, {{}, indexed[p]})
PaneGraph(p) == Shows(p, {indexed[p]})
PaneResolve(p) == Shows(p, {{}, indexed[p]})

PaneCall(p) == PaneIndex(p) \/ Reindex(p) \/ PaneSearch(p) \/ PaneLinks(p) \/ PaneGraph(p) \/ PaneResolve(p)

RequestStep(r) ==
    \/ \E verb \in {"search", "read"}, p \in Spellings : Ask(r, verb, p)
    \/ JudgePath(r) \/ JudgeListed(r)
    \/ ScanVault(r) \/ WriteRows(r) \/ PruneDead(r) \/ AnswerSearch(r) \/ AnswerRead(r)

ScopeNext ==
    \/ MovePlaces \/ Reload \/ ClearMirror
    \/ \E p \in Spellings : Register(p) \/ PushRoot(p) \/ PaneCall(p)
    \/ \E r \in Requests : RequestStep(r)

ScopeSpec == ScopeInit /\ [][ScopeNext]_scopeVars

(***************************************************************************)
(* Properties                                                              *)
(***************************************************************************)

Becomes(r, where) == asked[r].at # where /\ asked'[r].at = where

\* A request passes the gate only into a directory that a path of the user's
\* list led to when the list was last pushed: neither another spelling nor a
\* link turned since opens a directory the list never meant.
GrantedIsListed ==
    \A r \in Requests : Becomes(r, "listed") =>
        \E p \in roots : Real(asked[r].path) = meant[p]

\* A request for a path of the list is told "not registered" only while the
\* list is being pushed, or when the path led elsewhere, or nowhere, at the push.
RefusalIsExplained ==
    \A r \in Requests : Becomes(r, "unlisted") /\ asked[r].path \in roots =>
        ~GuiIdle \/ meant[asked[r].path] # Real(asked[r].path) \/ ~IsDir(asked[r].path)

\* An answer shows the vault as it was at some moment since the request came,
\* or as a pass under way by then had found it: never the rows of an earlier
\* walk, and never nothing unless the path led nowhere for a while.
AnswersAreCurrent ==
    \A r \in Requests : Becomes(r, "answered") => AnswerOf(r) \in during[r]

\* The gate of the vault verbs, and what they answer behind it.
VaultVerbsAreScoped == [][GrantedIsListed /\ RefusalIsExplained /\ AnswersAreCurrent]_scopeVars

\* What a refused caller is told to do helps: a directory that is refused as
\* not registered is added when the user opens it in a pane's settings.  The
\* code does not keep this: a path listed while its directory was away is in
\* the list and not in the mirror, and register does nothing for it.
OpeningHelps ==
    GuiIdle => \A p \in Spellings : IsDir(p) /\ ~Registered(p) => p \notin roots
=============================================================================
