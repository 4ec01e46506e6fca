-------------------------------- MODULE Links --------------------------------
(* Wikilinks (gpty-core links.rs): what a [[target]] means among the notes    *)
(* of a vault, and how it is respelled when the note it means is renamed.     *)
(*                                                                            *)
(* A note is its directory, its file stem and the case the stem is written in *)
(* ("" is the vault's root); a target is a bare stem, a path, or a path that  *)
(* spells its .md.                                                            *)
EXTENDS Integers, FiniteSets

NoteOf(dir, stem, upper) == [dir |-> dir, stem |-> stem, upper |-> upper]
TargetTo(kind, dir, stem, upper) == [kind |-> kind, dir |-> dir, stem |-> stem, upper |-> upper]

IsPath(target) == target.kind \in {"path", "path.md"}

(* NoteIndex: the four maps, as the notes a target finds in each.             *)
SameStem(target, note) == target.kind # "bare.md" /\ note.stem = target.stem
SamePlace(target, note) == IsPath(target) => note.dir = target.dir
SameCase(target, note) == note.upper = target.upper

Folded(target, notes) == {note \in notes : SameStem(target, note) /\ SamePlace(target, note)}
Exact(target, notes) == {note \in Folded(target, notes) : SameCase(target, note)}

Single(notes) == Cardinality(notes) = 1

(* resolve: one exact match, else every match that ignores case.  One note is *)
(* Resolved, none is Missing, several are Ambiguous.                          *)
Matches(target, notes) ==
    IF Single(Exact(target, notes)) THEN Exact(target, notes) ELSE Folded(target, notes)

Resolves(target, notes, note) == Matches(target, notes) = {note}

(* retarget: a path stays a path as long as the new name has a directory to   *)
(* show; a path that spelled its extension keeps it, also where only a stem   *)
(* is left.                                                                   *)
Retarget(target, new) ==
    CASE ~IsPath(target) -> TargetTo(target.kind, "", new.stem, new.upper)
      [] IsPath(target) /\ new.dir # "" -> TargetTo(target.kind, new.dir, new.stem, new.upper)
      [] IsPath(target) /\ new.dir = "" ->
            TargetTo(IF target.kind = "path" THEN "bare" ELSE "bare.md", "", new.stem, new.upper)
=============================================================================
