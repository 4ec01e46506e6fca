------------------------------ MODULE VaultIndex ------------------------------
(* The vault index (gpty-core vault.rs, gpty-gdext vault_api.rs and           *)
(* vault_ipc.rs): notes on disk that others edit too, the store's rows and    *)
(* links, the index pass that follows the notes, the pass that respells       *)
(* mentions after a rename, and what a query answers from the store in        *)
(* whatever state a pass has brought it to.                                   *)
(*                                                                            *)
(* A note's text is the set of targets it mentions, its stamp the count of    *)
(* changes up to it.  The wiki pane's pass runs on the GUI thread, a          *)
(* vaultSearch request runs one of its own on the blocking pool.              *)
EXTENDS Links

CONSTANTS
    Notes,         \* note paths that can exist
    Texts,         \* note -> the sets of targets its text can mention
    MaxNotes,      \* MAX_NOTES, where the walk stops
    Passers,       \* threads an index pass runs on
    MaxEdits,      \* bound: changes to the vault
    MaxPasses,     \* bound: passes started
    MaxCuts,       \* bound: passes that fail or are killed
    GraphCaps      \* caps on edges and ghosts a graph is asked with

ASSUME VaultAssumption ==
    /\ NoteOf("", "", FALSE) \notin Notes /\ MaxNotes \in Nat \ {0}
    /\ MaxEdits \in Nat /\ MaxPasses \in Nat /\ MaxCuts \in Nat

NoText == [stamp |-> 0, body |-> {}]

VARIABLES
    files,       \* note -> [stamp, body], stamp 0 for no file
    clock,       \* stamps given so far
    rows,        \* the notes table: note -> [stamp, body]
    edges,       \* the links table: note -> {[target, resolved]}
    walker,      \* passer -> where its pass is
    scan,        \* passer -> note -> the stamp the walk saw
    missed,      \* passer -> notes on disk its capped walk left out
    toRead,      \* passer -> notes it has not read yet
    batch,       \* passer -> note -> what it read
    moved,       \* passer -> it added or removed a note
    gone,        \* passer -> a removed note whose links are still there
    clean,       \* passer -> alone since its walk, nothing changed, all read
    settled,     \* the last pass was clean and nothing happened since
    disturbed,   \* some pass failed, or ran while another did
    torn,        \* history: <<note, stamp>> filed with a text read after another change
    move,        \* the rename whose mentions are being respelled
    plan,        \* notes the respelling has still to look at
    before,      \* the notes there were before the rename, as its walk found them
    inHand,      \* the note it has read, its stamp and its text
    lost,        \* an outside edit it replaced
    passes, cuts

vaultVars == <<files, clock, rows, edges, walker, scan, missed, toRead, batch, moved, gone,
               clean, settled, disturbed, torn, move, plan, before, inHand, lost, passes, cuts>>

store == <<rows, edges>>
passState == <<walker, scan, missed, toRead, batch, moved, gone, clean>>
rewrite == <<move, plan, before, inHand, lost>>

(* Notes are taken in the walk's order. *)
First(notes) == CHOOSE n \in notes : TRUE

Present(texts) == {n \in Notes : texts[n].stamp # 0}
TextsAt(n, stamp) == {[stamp |-> stamp, body |-> body] : body \in Texts[n]}
Nobody == NoteOf("", "", FALSE)

(* What the links table keeps of a target. *)
Resolved(target, notes) ==
    IF Single(Matches(target, notes)) THEN CHOOSE n \in Matches(target, notes) : TRUE
    ELSE Nobody

EdgesOf(body, notes) == {[target |-> t, resolved |-> Resolved(t, notes)] : t \in body}

VaultInit ==
    /\ \E n \in Notes : \E text \in TextsAt(n, 1) :
         files = [m \in Notes |-> IF m = n THEN text ELSE NoText]
    /\ clock = 1
    /\ rows = [n \in Notes |-> NoText] /\ edges = [n \in Notes |-> {}]
    /\ walker = [p \in Passers |-> "idle"] /\ scan = [p \in Passers |-> [n \in Notes |-> 0]]
    /\ missed = [p \in Passers |-> {}] /\ toRead = [p \in Passers |-> {}]
    /\ batch = [p \in Passers |-> [n \in Notes |-> NoText]]
    /\ moved = [p \in Passers |-> FALSE] /\ gone = [p \in Passers |-> Nobody]
    /\ clean = [p \in Passers |-> FALSE] /\ settled = FALSE /\ disturbed = FALSE
    /\ torn = {}
    /\ move = <<>> /\ plan = {} /\ before = {} /\ inHand = <<>> /\ lost = FALSE
    /\ passes = 0 /\ cuts = 0

(***************************************************************************)
(* The vault                                                               *)
(***************************************************************************)

(* No pass that runs now can be sure of what it saw. *)
Changed(texts) ==
    /\ files' = texts
    /\ clean' = [p \in Passers |-> FALSE] /\ settled' = FALSE

(* Another editor, a checkout, create_vault_note, delete_vault_note.         *)
Edit ==
    /\ clock <= MaxEdits /\ clock' = clock + 1
    /\ \E n \in Notes : \E text \in TextsAt(n, clock + 1) \cup {NoText} :
         /\ text.body # files[n].body \/ (text.stamp = 0) # (files[n].stamp = 0)
         /\ Changed([files EXCEPT ![n] = text])
    /\ UNCHANGED <<store, walker, scan, missed, toRead, batch, moved, gone, disturbed, torn, rewrite,
                   passes, cuts>>

(* rename_vault_note: the destination is claimed first, so nothing is        *)
(* replaced, and the file keeps its stamp.                                   *)
RenameNote ==
    /\ clock <= MaxEdits /\ clock' = clock + 1 /\ move = <<>>
    /\ \E old \in Present(files), new \in Notes \ Present(files) :
         /\ Changed([files EXCEPT ![new] = files[old], ![old] = NoText])
         /\ move' = <<old, new>>
    /\ UNCHANGED <<store, walker, scan, missed, toRead, batch, moved, gone, disturbed, torn,
                   plan, before, inHand, lost, passes, cuts>>

(***************************************************************************)
(* index_vault                                                             *)
(***************************************************************************)

Running(p) == walker[p] # "idle"

\* Flawed: a capped walk looks complete.
CapUnnoticed(p) == FALSE

Truncated(p) == missed[p] # {}

(* scan_vault: at most MaxNotes of the notes there are.                      *)
Listings ==
    {kept \in SUBSET Present(files) :
        Cardinality(kept) = IF Cardinality(Present(files)) <= MaxNotes
                            THEN Cardinality(Present(files)) ELSE MaxNotes}

(* The walk takes their stamps. *)
Walk(p) ==
    /\ ~Running(p) /\ passes < MaxPasses /\ passes' = passes + 1
    /\ \E kept \in Listings :
         /\ scan' = [scan EXCEPT ![p] = [n \in Notes |-> IF n \in kept THEN files[n].stamp ELSE 0]]
         /\ missed' = [missed EXCEPT ![p] = Present(files) \ kept]
    /\ walker' = [walker EXCEPT ![p] = "listed"]
    /\ clean' = [q \in Passers |-> q = p /\ \A other \in Passers : ~Running(other)]
    /\ disturbed' = (disturbed \/ \E other \in Passers : Running(other))
    /\ settled' = FALSE
    /\ UNCHANGED <<files, clock, store, toRead, batch, moved, gone, torn, rewrite, cuts>>

(* indexed(): what the store holds is compared with what the walk saw. *)
Stale(p, n) == scan[p][n] # 0 /\ scan[p][n] # rows[n].stamp

List(p) ==
    /\ walker[p] = "listed"
    /\ toRead' = [toRead EXCEPT ![p] = {n \in Notes : Stale(p, n)}]
    /\ moved' = [moved EXCEPT ![p] = \E n \in Notes : Stale(p, n) /\ rows[n].stamp = 0]
    /\ walker' = [walker EXCEPT ![p] = "reading"]
    /\ UNCHANGED <<files, clock, store, scan, missed, batch, gone, clean, settled, disturbed, torn,
                   rewrite, passes, cuts>>

(* The text is read after its stamp; a note that cannot be read is skipped.  *)
ReadNote(p) ==
    /\ walker[p] = "reading"
    /\ toRead[p] # {}
    /\ LET n == First(toRead[p]) IN
         /\ toRead' = [toRead EXCEPT ![p] = @ \ {n}]
         /\ IF files[n].stamp # 0
            THEN /\ batch' = [batch EXCEPT ![p][n] = [stamp |-> scan[p][n], body |-> files[n].body]]
                 /\ torn' = IF files[n].stamp = scan[p][n] THEN torn ELSE torn \cup {<<n, scan[p][n]>>}
                 /\ UNCHANGED clean
            ELSE /\ clean' = [clean EXCEPT ![p] = FALSE] /\ UNCHANGED <<batch, torn>>
    /\ UNCHANGED <<files, clock, store, walker, scan, missed, moved, gone, settled, disturbed,
                   rewrite, passes, cuts>>

LinksRewritten(p) == Present(batch[p])

(* upsert_batch: rows and the links of their texts in one transaction,       *)
(* resolved among the notes there are after it.                              *)
Upsert(p) ==
    /\ walker[p] = "reading" /\ toRead[p] = {}
    /\ LET after == [n \in Notes |-> IF batch[p][n].stamp # 0 THEN batch[p][n] ELSE rows[n]]
       IN /\ rows' = after
          /\ edges' = [n \in Notes |-> IF n \in LinksRewritten(p)
                                       THEN EdgesOf(batch[p][n].body, Present(after)) ELSE edges[n]]
    /\ batch' = [batch EXCEPT ![p] = [n \in Notes |-> NoText]]
    /\ walker' = [walker EXCEPT ![p] = IF Truncated(p) THEN "pruning" ELSE "removing"]
    /\ UNCHANGED <<files, clock, scan, missed, toRead, moved, gone, clean, settled, disturbed, torn,
                   rewrite, passes, cuts>>

Missing(p) == {n \in Present(rows) : scan[p][n] = 0}

(* remove_missing: only after a complete walk; a note's row, then its links. *)
RemoveRow(p) ==
    /\ walker[p] = "removing" /\ gone[p] = Nobody
    /\ Missing(p) # {}
    /\ LET n == First(Missing(p)) IN
         /\ rows' = [rows EXCEPT ![n] = NoText] /\ gone' = [gone EXCEPT ![p] = n]
    /\ UNCHANGED <<files, clock, edges, walker, scan, missed, toRead, batch, moved, clean,
                   settled, disturbed, torn, rewrite, passes, cuts>>

RemoveLinks(p) ==
    /\ walker[p] = "removing" /\ gone[p] # Nobody
    /\ edges' = [edges EXCEPT ![gone[p]] = {}]
    /\ gone' = [gone EXCEPT ![p] = Nobody] /\ moved' = [moved EXCEPT ![p] = TRUE]
    /\ UNCHANGED <<files, clock, rows, walker, scan, missed, toRead, batch, clean, settled,
                   disturbed, torn, rewrite, passes, cuts>>

RemovalDone(p) ==
    /\ walker[p] = "removing" /\ gone[p] = Nobody /\ Missing(p) = {}
    /\ walker' = [walker EXCEPT ![p] = "pruning"]
    /\ UNCHANGED <<files, clock, store, scan, missed, toRead, batch, moved, gone, clean, settled,
                   disturbed, torn, rewrite, passes, cuts>>

Fresh(p) ==
    /\ walker' = [walker EXCEPT ![p] = "idle"]
    /\ scan' = [scan EXCEPT ![p] = [n \in Notes |-> 0]]
    /\ missed' = [missed EXCEPT ![p] = {}] /\ toRead' = [toRead EXCEPT ![p] = {}]
    /\ batch' = [batch EXCEPT ![p] = [n \in Notes |-> NoText]]
    /\ moved' = [moved EXCEPT ![p] = FALSE] /\ gone' = [gone EXCEPT ![p] = Nobody]
    /\ clean' = [clean EXCEPT ![p] = FALSE]

\* Flawed: links are not looked at again when the notes moved.
NotResolvedAgain(p) == edges

(* reresolve_links, when the set of notes moved. *)
ResolvedAgain(p) ==
    IF moved[p] THEN [n \in Notes |-> {[target |-> e.target, resolved |-> Resolved(e.target, Present(rows))]
                                        : e \in edges[n]}]
    ELSE edges

PassEnds(p) ==
    /\ walker[p] = "pruning"
    /\ edges' = ResolvedAgain(p)
    /\ settled' = (clean[p] /\ ~Truncated(p))
    /\ Fresh(p)
    /\ UNCHANGED <<files, clock, rows, disturbed, torn, rewrite, passes, cuts>>

(* The store answers an error and the pass returns, or the window is killed. *)
PassFails(p) ==
    /\ Running(p) /\ cuts < MaxCuts /\ cuts' = cuts + 1
    /\ Fresh(p) /\ disturbed' = TRUE
    /\ UNCHANGED <<files, clock, store, settled, torn, rewrite, passes>>

(***************************************************************************)
(* rewrite_links_after_rename                                              *)
(***************************************************************************)

DonePlanning(left) == IF left = {} THEN <<>> ELSE move


(* The walk after the rename, and the notes as they were before it; a note   *)
(* back at the old name, or none at the new one, refuses the pass.  The      *)
(* renamed note itself is looked at only when its editor has no unsaved work.*)
Respell ==
    /\ move # <<>> /\ plan = {} /\ inHand = <<>>
    /\ \E kept \in Listings :
         IF move[1] \in kept \/ move[2] \notin kept
         THEN move' = <<>> /\ UNCHANGED <<plan, before>>
         ELSE /\ plan' \in {kept, kept \ {move[2]}}
              /\ before' = (kept \ {move[2]}) \cup {move[1]}
              /\ move' = DonePlanning(plan')
    /\ UNCHANGED <<files, clock, store, passState, settled, disturbed, torn, inHand, lost, passes, cuts>>

(* Nobody asks, or the user declines. *)
LeaveMentions ==
    /\ move # <<>> /\ plan = {} /\ inHand = <<>> /\ move' = <<>>
    /\ UNCHANGED <<files, clock, store, passState, settled, disturbed, torn, plan, before, inHand, lost, passes,
                   cuts>>

Mentioning(body) ==
    {t \in body : Resolves(t, before, move[1]) /\ Retarget(t, move[2]) # t}
Respelled(body) == (body \ Mentioning(body)) \cup {Retarget(t, move[2]) : t \in Mentioning(body)}

(* read_note: a note without a mention, or one that is gone, is passed over. *)
ReadMentions ==
    /\ inHand = <<>> /\ plan # {}
    /\ LET n == First(plan) IN
         /\ plan' = plan \ {n}
         /\ IF Mentioning(files[n].body) # {}
            THEN inHand' = <<n, 0, files[n].body>> /\ UNCHANGED move
            ELSE move' = DonePlanning(plan') /\ UNCHANGED inHand
    /\ UNCHANGED <<files, clock, store, passState, settled, disturbed, torn, before, lost, passes, cuts>>

(* The stamp is taken after the text was read, not with it.                  *)
StampNote ==
    /\ inHand # <<>> /\ inHand[2] = 0
    /\ IF files[inHand[1]].stamp = 0
       THEN inHand' = <<>> /\ move' = DonePlanning(plan)
       ELSE inHand' = [inHand EXCEPT ![2] = files[inHand[1]].stamp] /\ UNCHANGED move
    /\ UNCHANGED <<files, clock, store, passState, settled, disturbed, torn, plan, before, lost, passes, cuts>>

(* write_vault_note, its check and its rename as one step: only a file that  *)
(* still has the stamp is replaced.                                          *)
WritesIf(note, stamp) == files[note].stamp = stamp

WriteMentions ==
    /\ inHand # <<>> /\ inHand[2] # 0
    /\ LET note == inHand[1] IN
       IF WritesIf(note, inHand[2])
       THEN /\ clock' = clock + 1
            /\ Changed([files EXCEPT ![note] = [stamp |-> clock + 1, body |-> Respelled(inHand[3])]])
            /\ lost' = (lost \/ files[note].body # inHand[3])
       ELSE UNCHANGED <<files, clock, clean, settled, lost>>
    /\ inHand' = <<>> /\ move' = DonePlanning(plan)
    /\ UNCHANGED <<store, walker, scan, missed, toRead, batch, moved, gone, disturbed, torn, plan,
                   before, passes, cuts>>

VaultNext ==
    \/ Edit \/ RenameNote
    \/ \E p \in Passers :
         Walk(p) \/ List(p) \/ ReadNote(p) \/ Upsert(p) \/ RemoveRow(p) \/ RemoveLinks(p)
         \/ RemovalDone(p) \/ PassEnds(p) \/ PassFails(p)
    \/ Respell \/ LeaveMentions \/ ReadMentions \/ StampNote \/ WriteMentions

VaultSpec == VaultInit /\ [][VaultNext]_vaultVars

(***************************************************************************)
(* Queries: links_for, graph, resolve_target                               *)
(***************************************************************************)

(* resolve_target: the note set comes from the index.                         *)
CandidatesOf(target) == Matches(target, Present(rows))

(* links_for: what a note points at, and the same edges read in reverse ...   *)
Outgoing(n) == edges[n]

(* ... and what does not resolve, with the notes an ambiguous target could    *)
(* mean; a target that resolves by now has none.                              *)
Unresolved(n) ==
    {[target |-> e.target,
      candidates |-> IF Single(CandidatesOf(e.target)) THEN {} ELSE CandidatesOf(e.target)] :
        e \in {out \in Outgoing(n) : out.resolved = Nobody}}

(* graph_edges: the mentions of one note by another, or of one target that    *)
(* resolves to nothing, are one edge with their count.                        *)
EdgeOf(n, dst, mentions) == [src |-> n, dst |-> dst, count |-> Cardinality(mentions)]

ResolvedEdges ==
    UNION {{EdgeOf(n, d, {e \in edges[n] : e.resolved = d}) :
                d \in {e.resolved : e \in edges[n]} \ {Nobody}} : n \in Notes}

GhostEdges ==
    UNION {{EdgeOf(n, t, {e \in edges[n] : e.resolved = Nobody /\ e.target = t}) :
                t \in {e.target : e \in {out \in edges[n] : out.resolved = Nobody}}} : n \in Notes}

(* As many as the cap allows; of edges the heaviest (ties go by name, here to *)
(* anybody).                                                                  *)
Capped(all, cap) ==
    {kept \in SUBSET all :
        Cardinality(kept) = IF Cardinality(all) <= cap THEN Cardinality(all) ELSE cap}

Heaviest(all, cap) ==
    {kept \in Capped(all, cap) : \A k \in kept, other \in all \ kept : k.count >= other.count}

Ghosts(kept) == {e.dst : e \in kept}

(* An edge whose ghost did not survive its cap cannot be drawn.               *)
Drawn(kept, ghosts) == {e \in kept : e.dst \in ghosts}

(* graph_limited: every answer it may give with these caps.                   *)
Graphs(maxEdges, maxGhosts) ==
    UNION {UNION {
        {[notes |-> Present(rows), ghosts |-> ghosts,
          edges |-> kept, ghostEdges |-> Drawn(keptGhosts, ghosts),
          truncated |-> kept # ResolvedEdges \/ keptGhosts # GhostEdges \/ ghosts # Ghosts(keptGhosts)] :
            ghosts \in Capped(Ghosts(keptGhosts), maxGhosts)} :
            keptGhosts \in Heaviest(GhostEdges, maxEdges)} :
            kept \in Heaviest(ResolvedEdges, maxEdges)}

(***************************************************************************)
(* What the index promises                                                 *)
(***************************************************************************)

\* Type correctness of the vault, the store and the passes.
VaultTypeOK ==
    /\ \A n \in Notes :
         /\ files[n].body \subseteq [kind : {"bare", "bare.md", "path", "path.md"}, dir : STRING,
                                     stem : STRING, upper : BOOLEAN]
         /\ rows[n].stamp \in 0..clock /\ files[n].stamp \in 0..clock
         /\ \A e \in edges[n] : e.resolved \in Notes \cup {Nobody}
    /\ walker \in [Passers -> {"idle", "listed", "reading", "removing", "pruning"}]
    /\ \A p \in Passers : gone[p] \in Notes \cup {Nobody} /\ toRead[p] \subseteq Notes
    /\ plan \subseteq Notes /\ before \subseteq Notes

\* A pass that ran alone over a vault that held still leaves the store holding
\* the notes on disk, whatever failed or overlapped before it: every row has its
\* note's stamp, and its text unless an earlier pass filed another text, which
\* stood there for a moment, under that very stamp.
SettledRowsMatch ==
    settled => \A n \in Notes :
        /\ rows[n].stamp = files[n].stamp
        /\ rows[n] # files[n] => <<n, rows[n].stamp>> \in torn

\* "Bring one vault's index up to date" (vault.rs:1954): such a pass leaves
\* every note's row with the text of its file.
SettledIndexIsTheVault ==
    settled => \A n \in Notes : rows[n] = files[n]

\* Between passes that neither failed nor overlapped, every note has the links
\* its indexed text mentions, each resolved among the notes indexed now.
LinksAreDerived ==
    ~disturbed /\ (\A p \in Passers : ~Running(p)) =>
        \A n \in Notes : edges[n] = EdgesOf(rows[n].body, Present(rows))

\* Between passes that neither failed nor overlapped, a graph of the mentions there
\* are can be drawn: every edge has both its ends, every ghost an edge, and a graph
\* that does not call itself truncated accounts for every mention.
GraphIsDrawable ==
    ~disturbed /\ (\A p \in Passers : ~Running(p)) /\ (\E n \in Notes : edges[n] # {}) =>
        \A maxEdges, maxGhosts \in GraphCaps : \A g \in Graphs(maxEdges, maxGhosts) :
            /\ \A e \in g.edges : e.src \in g.notes /\ e.dst \in g.notes
            /\ \A e \in g.ghostEdges : e.src \in g.notes /\ e.dst \in g.ghosts
            /\ g.ghosts = Ghosts(g.ghostEdges)
            /\ ~g.truncated => \A n \in Notes : \A mention \in edges[n] :
                 \/ \E e \in g.edges : e.src = n /\ e.dst = mention.resolved
                 \/ \E e \in g.ghostEdges : e.src = n /\ e.dst = mention.target

\* The index is derived from the vault, and so is what a query answers.
IndexIsDerived == SettledRowsMatch /\ LinksAreDerived /\ GraphIsDrawable

\* A note leaves the index only in a pass whose walk did not meet it, and met
\* every note there was: a capped walk drops nothing.
OnlyVanishedAreDropped ==
    [][\A n \in Notes :
         rows[n].stamp # 0 /\ rows'[n].stamp = 0 =>
            \E p \in Passers : Running(p) /\ scan[p][n] = 0 /\ n \notin missed[p]]_vaultVars

\* A note that changes between its read and its write is skipped, never
\* replaced, as the comment on rewrite_links_after_rename says.
OutsideEditsSurvive == ~lost
=============================================================================
