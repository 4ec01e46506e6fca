------------------------------ MODULE MCStores ------------------------------
(***************************************************************************)
(* What gpty keeps on disk beside its terminals, in one run: what a plugin *)
(* ships, the installed plugins, the index of a vault and who may ask it,  *)
(* a note being edited and its recovery copies.  They share no variable; a *)
(* behaviour is that of the part chosen at its start.                      *)
(***************************************************************************)
EXTENDS PluginManifest, PluginStore, VaultIndex, NoteEditor, VaultScope, RecoveryCopies

VARIABLE part

mcVars == <<part, manifestVars, pluginVars, vaultVars, editorVars, scopeVars, copyVars>>

(* Two notes of one stem, a third that mentions them, by stem or by path. *)
DeepA == NoteOf("d", "a", FALSE)
RootA == NoteOf("", "a", FALSE)
RootB == NoteOf("", "b", FALSE)
MCNotes == {DeepA, RootA, RootB}
MCTexts == [n \in MCNotes |->
    CASE n = DeepA -> {{TargetTo("bare", "", "a", FALSE)}}
      [] n = RootA -> {{}}
      [] n = RootB -> {{TargetTo("bare", "", "a", FALSE)}, {TargetTo("path.md", "d", "a", FALSE)}}]

(* Two notes to edit. *)
MCAtFirst == [n \in Names |-> IF n = "m" THEN 1 ELSE 2]

(* Two vaults, one of them reached through a link that can be turned; two   *)
(* notes in each, two of them of one hash.                                  *)
MCTarget == [p \in Spellings |-> IF p = "b" THEN "B" ELSE "A"]
MCKeyOf == [o \in Owners |-> CASE o = <<"A", "m">> -> 1 [] o = <<"B", "n">> -> 3 [] OTHER -> 2]

InManifest(A) == part = "manifest" /\ A /\ UNCHANGED <<part, pluginVars, vaultVars, editorVars, scopeVars, copyVars>>
InPlugins(A) == part = "plugins" /\ A /\ UNCHANGED <<part, manifestVars, vaultVars, editorVars, scopeVars, copyVars>>
InVault(A) == part = "vault" /\ A /\ UNCHANGED <<part, manifestVars, pluginVars, editorVars, scopeVars, copyVars>>
InEditor(A) == part = "editor" /\ A /\ UNCHANGED <<part, manifestVars, pluginVars, vaultVars, scopeVars, copyVars>>
InScope(A) == part = "scope" /\ A /\ UNCHANGED <<part, manifestVars, pluginVars, vaultVars, editorVars, copyVars>>
InCopies(A) == part = "copies" /\ A /\ UNCHANGED <<part, manifestVars, pluginVars, vaultVars, editorVars, scopeVars>>

(* The parts that do not move start in one state. *)
MCInit ==
  /\ part \in {"manifest", "plugins", "vault", "editor", "scope", "copies"}
  /\ ManifestInit /\ PluginInit /\ VaultInit /\ EditorInit /\ ScopeInit /\ CopiesInit
  /\ part # "plugins" => \A id \in Ids : records[id].rev = 0
  /\ part # "vault" => files[RootA].stamp = 1

MCNext ==
  \/ InManifest(ManifestNext) \/ InPlugins(PluginNext) \/ InVault(VaultNext) \/ InEditor(EditorNext)
  \/ InScope(ScopeNext) \/ InCopies(CopiesNext)

MCSpec == MCInit /\ [][MCNext]_mcVars

\* What the validator of a manifest accepts is what the engine runs, and what
\* the user's review approved is all that the gate lets start.
ManifestIsHonoured == AcceptedIsCarried /\ ReviewCoversTheProfile

\* What the user typed is on disk, in the buffer, or in a copy that is kept.
TypedTextIsKept == WorkIsKept /\ CopiesAreKept
=============================================================================
