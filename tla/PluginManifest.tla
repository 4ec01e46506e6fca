--------------------------- MODULE PluginManifest ---------------------------
(***************************************************************************)
(* What a plugin ships, on its way from the manifest to the panes and      *)
(* rules it becomes (plugin_manifest.rs, commands/plugin.rs,               *)
(* plugin_store.rs, gdext lib.rs, concept.rs, pane_types.gd).  One text is *)
(* read by many readers in two languages, each with rules of its own: the  *)
(* validator, the review, the store's writer and reader, the window's      *)
(* listing, the engine and the window's gate on what a tile would run.     *)
(* The author writes a manifest that departs from a plain one in at most   *)
(* MaxDepartures places.                                                   *)
(*                                                                         *)
(* A text is known by what the readers tell apart: "absent", "other" (not  *)
(* a string), "empty", "odd" (outside an identifier's alphabet, or no      *)
(* regex), "wide" (within its cap in characters and above it in bytes),    *)
(* "long" (above it in both), or any other text, which is good.  Lists,    *)
(* numbers and the layout grid are scaled down.                            *)
(***************************************************************************)
EXTENDS Integers, Sequences, FiniteSets, SequencesExt

CONSTANTS
  MaxDepartures,  \* the places in which a manifest departs from the plain one
  Cap,       \* the limit of a list in a manifest
  ShownCap,  \* how many targets or programs the review names (MAX_CONCEPT_TARGETS)
  MaxPlans,  \* how many plans an approval holds (TrustedStore.MAX_PLANS)
  Grid,      \* GRID, the width and height of the layout grid
  MaxStop    \* MAX_STOP_TIMEOUT_MS

ASSUME ManifestAssumption ==
  /\ MaxDepartures \in Nat /\ MaxPlans \in Nat \ {0}
  /\ Cap \in Nat \ {0} /\ ShownCap \in 1..Cap /\ Grid \in Nat \ {0} /\ MaxStop \in Nat \ {0}

VARIABLES
  manifest,  \* the file as the author wrote it
  edits,     \* how often it was edited
  stage,     \* "authored", "rejected", "refused", "reviewed", "unwritable", "recorded", "listed"
  review,    \* what the summary said of concepts, programs and plans
  record,    \* what plugins.json holds of it
  listedAs,   \* what the window made of the record
  loaded,    \* the concepts the engine made of the listing
  ran        \* the command line of the action that was run

manifestVars == <<manifest, edits, stage, review, record, listedAs, loaded, ran>>

---------------------------------------------------------------------------
(* Texts, flags, numbers and lists as a manifest holds them. *)

IsText(t) == t \notin {"absent", "other"}
Fits(t) == IsText(t) /\ t \notin {"empty", "long"}
FitsInBytes(t) == Fits(t) /\ t # "wide"
IsIdentifier(t) == FitsInBytes(t) /\ t # "odd"
IsOptionalFlag(f) == f \in {"absent", "yes", "no"}
FlagOr(f, default) == IF f \in {"yes", "no"} THEN f ELSE default

Unset == -2    \* no such number
NoInt == -3    \* a value that is not an integer
NumberOr(n, default) == IF n = Unset THEN default ELSE n

ListOf(items) == [shape |-> "list", items |-> items]
NoList == [shape |-> "absent", items |-> <<>>]
NotAList == [shape |-> "other", items |-> <<>>]
IsOptionalList(l, cap) == l.shape = "absent" \/ (l.shape = "list" /\ Len(l.items) <= cap)

(* The elements of a list that a reader keeps, in their order. *)
Those(s, kept) == FoldLeft(LAMBDA acc, x : IF x \in kept THEN Append(acc, x) ELSE acc, <<>>, s)
TextsOf(l) == Those(l.items, {t \in ToSet(l.items) : IsText(t)})

(* The first distinct texts of a list, as many as the review names. *)
Distinct(s) == FoldLeft(LAMBDA acc, x : IF Contains(acc, x) THEN acc ELSE Append(acc, x), <<>>, s)
FirstOf(s, n) == SubSeq(s, 1, IF Len(s) < n THEN Len(s) ELSE n)
Named(items) == Those(items, {t \in ToSet(items) : IsText(t) /\ t # "empty"})
Shown(items) == ToSet(FirstOf(Distinct(Named(items)), ShownCap))

---------------------------------------------------------------------------
(* The plain manifest and the edits of its author. *)

PlainTile == [table |-> TRUE, settings |-> "table", type |-> "terminal", rows |-> 1,
              attachment |-> "good", command |-> "p", shell |-> "absent", old |-> "absent",
              args |-> NoList, col |-> 0, cspan |-> Grid]
PlainConcept == [table |-> TRUE, unknown |-> FALSE, name |-> "good", trigger |-> "good",
                 enabled |-> "absent", on_input |-> "absent", stop |-> Unset, mode |-> "absent",
                 conditions |-> NoList, targets |-> ListOf(<<"t">>)]
Plain == [unknown |-> FALSE, id |-> "good", name |-> "good", min |-> 1, platform |-> "good",
          argv |-> NoList, action |-> "good", command |-> "published", key |-> "good", arg |-> "good",
          event |-> "emitted", scheme |-> "good", handler |-> ListOf(<<"h">>),
          concepts |-> <<PlainConcept>>, profile |-> "good", tiles |-> <<PlainTile>>]

BadTexts == {"absent", "other", "empty", "odd", "wide", "long"}
TextLists == {NotAList, ListOf(<<>>)} \cup {ListOf(<<t>>) : t \in BadTexts \ {"absent"}}
               \cup {ListOf(s) : s \in {<<"t", "t">>, <<"t", "u">>, <<"t", "u", "v">>}}

TileEdits(t) ==
  {[t EXCEPT !.table = FALSE]}
    \cup {[t EXCEPT !.settings = s] : s \in {"absent", "other"}}
    \cup {[t EXCEPT !.type = s] : s \in {"absent", "other", "observer", "unknown"}}
    \cup {[t EXCEPT !.rows = n] : n \in {Unset, NoInt, 0, Grid + 1}}
    \cup {[t EXCEPT !.attachment = s] : s \in BadTexts}
    \cup {[t EXCEPT !.command = s] : s \in {"absent", "other", "empty", "q", "default"}}
    \cup {[t EXCEPT !.shell = s] : s \in {"other", "p", "q"}}
    \cup {[t EXCEPT !.old = s] : s \in {"p", "q"}}
    \cup {[t EXCEPT !.args = l] : l \in {NotAList, ListOf(<<>>), ListOf(<<"other">>), ListOf(<<"r", "other">>)}}
    \cup {[t EXCEPT !.col = n] : n \in {Unset, NoInt, 1, Grid}}
    \cup {[t EXCEPT !.cspan = n] : n \in {Unset, NoInt, 0, 1, Grid + 1}}

ConceptEdits(c) ==
  {[c EXCEPT !.table = FALSE], [c EXCEPT !.unknown = TRUE]}
    \cup {[c EXCEPT !.name = s] : s \in BadTexts}
    \cup {[c EXCEPT !.trigger = s] : s \in BadTexts}
    \cup {[c EXCEPT !.enabled = f] : f \in {"other", "yes", "no"}}
    \cup {[c EXCEPT !.on_input = f] : f \in {"other", "yes", "no"}}
    \cup {[c EXCEPT !.stop = n] : n \in {NoInt, 0, 1, MaxStop, MaxStop + 1}}
    \cup {[c EXCEPT !.mode = s] : s \in {"other", "single_line", "unknown"}}
    \cup {[c EXCEPT !.conditions = l] : l \in TextLists}
    \cup {[c EXCEPT !.targets = l] : l \in TextLists}

ManifestEdits(m) ==
  {[m EXCEPT !.unknown = TRUE]}
    \cup {[m EXCEPT !.id = t] : t \in BadTexts \cup {"another"}}
    \cup {[m EXCEPT !.name = t] : t \in BadTexts}
    \cup {[m EXCEPT !.min = n] : n \in {Unset, NoInt, 2}}
    \cup {[m EXCEPT !.platform = t] : t \in {"absent", "other", "unknown", "elsewhere"}}
    \cup {[m EXCEPT !.argv = l] : l \in TextLists}
    \cup {[m EXCEPT !.action = t] : t \in BadTexts}
    \cup {[m EXCEPT !.command = t] : t \in {"absent", "other", "unpublished"}}
    \cup {[m EXCEPT !.key = t] : t \in BadTexts \ {"absent", "other"}}
    \cup {[m EXCEPT !.arg = t] : t \in BadTexts \ {"absent"}}
    \cup {[m EXCEPT !.event = t] : t \in {"absent", "other", "unknown"}}
    \cup {[m EXCEPT !.scheme = t] : t \in BadTexts}
    \cup {[m EXCEPT !.handler = l] : l \in TextLists \cup {NoList}}
    \cup {[m EXCEPT !.profile = t] : t \in BadTexts}
    \cup {[m EXCEPT !.concepts = Append(@, PlainConcept)], [m EXCEPT !.tiles = Append(@, PlainTile)]}
    \cup {[m EXCEPT !.concepts[1] = c] : c \in ConceptEdits(m.concepts[1])}
    \cup {[m EXCEPT !.tiles[Len(m.tiles)] = t] : t \in TileEdits(m.tiles[Len(m.tiles)])}

---------------------------------------------------------------------------
(* The validator: parse_manifest. *)

(* The grid counts an argument's characters: a wide one is worth two. *)
IsArgv(l) ==
  /\ l.shape = "list" /\ Len(l.items) <= Cap
  /\ \A i \in DOMAIN l.items : Fits(l.items[i])
  /\ FoldLeft(LAMBDA n, t : n + (IF t = "wide" THEN 2 ELSE 1), 0, l.items) <= Cap

ValidActions(m) ==
  IsIdentifier(m.action) /\ m.command = "published" /\ IsIdentifier(m.key)
    /\ IsText(m.arg) /\ m.arg # "long"
ValidEvents(m) == m.event = "emitted"
ValidHandlers(m) == IsIdentifier(m.scheme) /\ IsArgv(m.handler)

ValidConcept(c) ==
  /\ c.table /\ ~c.unknown
  /\ Fits(c.name) /\ Fits(c.trigger)
  /\ IsOptionalFlag(c.enabled) /\ IsOptionalFlag(c.on_input)
  /\ c.stop = Unset \/ c.stop \in 1..MaxStop
  /\ c.mode \in {"absent", "single_line"}
  /\ IsOptionalList(c.conditions, Cap) /\ \A i \in DOMAIN c.conditions.items : Fits(c.conditions.items[i])
  /\ IsOptionalList(c.targets, Cap) /\ \A i \in DOMAIN c.targets.items : Fits(c.targets.items[i])

ValidTile(t) ==
  LET col == NumberOr(t.col, 0)
      cspan == NumberOr(t.cspan, Grid)
  IN /\ t.table /\ t.settings = "table"
     /\ t.type \in {"absent", "other", "terminal"}
     /\ t.rows = Unset \/ t.rows \in 1..Grid
     /\ t.attachment = "absent" \/ IsIdentifier(t.attachment)
     /\ col \in 0..Grid - 1 /\ cspan \in 1..Grid /\ col + cspan <= Grid

---------------------------------------------------------------------------
(* The engine: concepts_from_json counts bytes and compiles what it reads. *)

Compiles(t) == FitsInBytes(t) /\ t # "odd"
EngineTakes(c) ==
  /\ FitsInBytes(c.name) /\ Compiles(c.trigger)
  /\ IsOptionalList(c.conditions, Cap) /\ \A i \in DOMAIN c.conditions.items : Compiles(c.conditions.items[i])
DefaultStop == 1
Between(n, low, high) == IF n < low THEN low ELSE IF n > high THEN high ELSE n
StopAfter(n) == IF n < 0 THEN DefaultStop ELSE Between(n, 1, MaxStop)
EngineConcept(c) ==
  [name |-> c.name,
   enabled |-> FlagOr(c.enabled, "yes"),
   notify |-> c.mode = "single_line",
   stop |-> StopAfter(c.stop), on_input |-> FlagOr(c.on_input, "yes"),
   targets |-> ToSet(TextsOf(c.targets)) \ {"empty"}]
ConceptsFromJson(cs) ==
  LET taken == Those(cs, {c \in ToSet(cs) : EngineTakes(c)}) IN [i \in DOMAIN taken |-> EngineConcept(taken[i])]

ValidConcepts(m) ==
  /\ Len(m.concepts) <= Cap
  /\ \A i \in DOMAIN m.concepts : ValidConcept(m.concepts[i])
  /\ Len(ConceptsFromJson(m.concepts)) = Len(m.concepts)
ValidProfiles(m) ==
  Fits(m.profile) /\ Len(m.tiles) <= Cap /\ \A i \in DOMAIN m.tiles : ValidTile(m.tiles[i])

Valid(m) ==
  /\ ~m.unknown
  /\ IsIdentifier(m.id) /\ Fits(m.name) /\ m.min \notin {Unset, NoInt}
  /\ m.platform \in {"absent", "good", "elsewhere"}
  /\ m.argv.shape = "absent" \/ IsArgv(m.argv)
  /\ ValidActions(m) /\ ValidEvents(m) /\ ValidHandlers(m) /\ ValidConcepts(m) /\ ValidProfiles(m)

(* check_gates: this target, this platform, this version (1). *)
Gates(m) == m.id = "good" /\ m.platform \in {"absent", "good"} /\ m.min <= 1

---------------------------------------------------------------------------
(* What a tile runs: the key the review records, and the key of the gate.  *)

Program(t) == IF t.command # "absent" THEN t.command ELSE IF t.shell # "absent" THEN t.shell ELSE t.old
PlanKey(program, t) ==
  (IF program \in {"absent", "empty"} THEN <<>> ELSE <<program>>) \o TextsOf(t.args)

\* Flawed: the review knows one of the names a program goes by.
CommandKey(t) == PlanKey(IF IsText(t.command) THEN t.command ELSE "absent", t)

(* The review reads strings only; the window makes a string of anything. *)
ReviewedKey(t) == PlanKey(IF IsText(Program(t)) THEN Program(t) ELSE "absent", t)
TilePlanKey(t) == PlanKey(Program(t), t)
SpawnsUntrusted(t) ==
  \/ Program(t) \notin {"absent", "empty", "default"}
  \/ t.args.items # <<>>

PlanKeys(tiles) ==
  LET keys == [i \in DOMAIN tiles |-> ReviewedKey(tiles[i])] IN Those(keys, ToSet(keys) \ {<<>>})
Approved(plans) == ToSet(FirstOf(plans, MaxPlans))
PlansCovered(tiles, approved) ==
  \A i \in DOMAIN tiles :
    SpawnsUntrusted(tiles[i]) => TilePlanKey(tiles[i]) # <<>> /\ TilePlanKey(tiles[i]) \in approved

(* What the window makes of a tile: an unusable one is dropped whole, the  *)
(* numbers of another are forced into the grid.                            *)
Usable(t) == t.table /\ t.settings \in {"absent", "table"} /\ t.type \notin {"other", "unknown"}
Forced(n, low, high) == IF n = NoInt THEN low ELSE Between(n, low, high)
SanitizedColumn(t) == Forced(NumberOr(t.col, 0), 0, Grid - 1)
SanitizedSpan(t) ==
  LET wanted == Forced(NumberOr(t.cspan, Grid), 1, Grid) IN Between(wanted, 1, Grid - SanitizedColumn(t))
SanitizedRows(t) == IF t.rows \in {Unset, NoInt} THEN Unset ELSE Between(t.rows, 1, Grid)
SanitizedAttachment(t) == IF IsIdentifier(t.attachment) THEN t.attachment ELSE "absent"

---------------------------------------------------------------------------
(* The stages. *)

Nothing == [concepts |-> <<>>, profile |-> "absent", tiles |-> <<>>, plans |-> <<>>, programs |-> {},
            action |-> <<>>]

ManifestInit ==
  /\ manifest = Plain /\ edits = 0 /\ stage = "authored"
  /\ review = Nothing /\ record = Nothing /\ listedAs = Nothing /\ loaded = <<>> /\ ran = <<>>

Depart ==
  /\ stage = "authored" /\ edits < MaxDepartures
  /\ manifest' \in ManifestEdits(manifest) /\ edits' = edits + 1
  /\ UNCHANGED <<stage, review, record, listedAs, loaded, ran>>

ConceptReview(c) ==
  [name |-> c.name, enabled |-> FlagOr(c.enabled, "yes"), notify |-> c.mode = "single_line",
   targets |-> Shown(c.targets.items)]
Reviewed(m) ==
  [concepts |-> [i \in DOMAIN m.concepts |-> ConceptReview(m.concepts[i])],
   profile |-> m.profile, tiles |-> <<>>, plans |-> Distinct(PlanKeys(m.tiles)),
   programs |-> Shown(Distinct([i \in DOMAIN m.tiles |-> m.tiles[i].command])),
   action |-> <<m.command, m.key, m.arg>>]

(* install reads the manifest, puts it through the gates and asks. *)
Install ==
  /\ stage = "authored"
  /\ stage' = (IF ~Valid(manifest) THEN "rejected" ELSE IF ~Gates(manifest) THEN "refused" ELSE "reviewed")
  /\ review' = (IF Valid(manifest) /\ Gates(manifest) THEN Reviewed(manifest) ELSE review)
  /\ UNCHANGED <<manifest, edits, record, listedAs, loaded, ran>>

(* The store's own rules, for what is written and for what is read. *)
StorableConcept(c) == c.table /\ ~c.unknown /\ Fits(c.name) /\ Fits(c.trigger)
StorableProfile(r) ==
  Fits(r.profile) /\ Len(r.tiles) <= Cap /\ \A i \in DOMAIN r.tiles : r.tiles[i].table
Storable(r) ==
  Len(r.concepts) <= Cap /\ (\A i \in DOMAIN r.concepts : StorableConcept(r.concepts[i])) /\ StorableProfile(r)

RecordOf(m) == [Nothing EXCEPT !.concepts = m.concepts, !.profile = m.profile, !.tiles = m.tiles]

WriteRecord ==
  /\ stage = "reviewed"
  /\ IF Storable(RecordOf(manifest))
     THEN stage' = "recorded" /\ record' = RecordOf(manifest)
     ELSE stage' = "unwritable" /\ record' = record
  /\ UNCHANGED <<manifest, edits, review, listedAs, loaded, ran>>

(* profiles_json and plugin_concepts_json, and the push to the engine. *)
ListedConcepts(r) == Those(r.concepts, {c \in ToSet(r.concepts) : IsText(c.name) /\ IsText(c.trigger)})
ListRecord ==
  /\ stage = "recorded"
  /\ stage' = "listed"
  /\ listedAs' = (IF IsText(record.profile) THEN record ELSE [record EXCEPT !.tiles = <<>>])
  /\ loaded' = ConceptsFromJson(ListedConcepts(record))
  /\ UNCHANGED <<manifest, edits, review, record, ran>>

(* run_action reads the installed manifest again and spawns its argv. *)
RunAction ==
  /\ stage = "listed" /\ ran = <<>>
  /\ ran' = <<manifest.command, manifest.key, manifest.arg>>
  /\ UNCHANGED <<manifest, edits, stage, review, record, listedAs, loaded>>

ManifestNext == Depart \/ Install \/ WriteRecord \/ ListRecord \/ RunAction

ManifestSpec == ManifestInit /\ [][ManifestNext]_manifestVars

---------------------------------------------------------------------------
ManifestTypeOK ==
  /\ edits \in 0..MaxDepartures
  /\ stage \in {"authored", "rejected", "refused", "reviewed", "unwritable", "recorded", "listed"}
  /\ \A i \in DOMAIN loaded : loaded[i].stop \in 1..MaxStop

(* What the validator accepts is never refused or thinned out further on:  *)
(* the store can write it, the window lists all of it and forces no number *)
(* of a usable tile, the engine loads every concept with the switch, the   *)
(* mode and the targets the review named, and the action that runs is the  *)
(* one it named (plugin_manifest.rs:9-23, plugin.rs:481).                  *)
AcceptedIsCarried ==
  /\ stage # "unwritable"
  /\ stage = "listed" =>
       /\ listedAs.tiles = manifest.tiles
       /\ \A i \in DOMAIN listedAs.tiles : LET t == listedAs.tiles[i] IN
            Usable(t) =>
              /\ SanitizedColumn(t) = NumberOr(t.col, 0) /\ SanitizedSpan(t) = NumberOr(t.cspan, Grid)
              /\ SanitizedRows(t) = t.rows /\ SanitizedAttachment(t) = t.attachment
       /\ Len(loaded) = Len(manifest.concepts)
       /\ \A i \in DOMAIN loaded :
            /\ loaded[i].enabled = review.concepts[i].enabled
            /\ loaded[i].notify = review.concepts[i].notify
            /\ review.concepts[i].targets \subseteq loaded[i].targets
            /\ Cardinality(loaded[i].targets) > Cardinality(review.concepts[i].targets) =>
                 Len(manifest.concepts[i].targets.items) > ShownCap
  /\ ran # <<>> => ran = review.action

(* A profile whose tiles name what they run in strings, in no more plans   *)
(* than an approval holds, activates without asking a second time: the key *)
(* the review recorded is the key the window derives (plugin.rs:557).      *)
Plainly(t) == Program(t) # "other" /\ \A i \in DOMAIN t.args.items : IsText(t.args.items[i])
ReviewCoversTheProfile ==
  (stage = "listed" /\ Len(review.plans) <= MaxPlans /\ \A i \in DOMAIN listedAs.tiles : Plainly(listedAs.tiles[i]))
    => PlansCovered(listedAs.tiles, Approved(review.plans))

=============================================================================
