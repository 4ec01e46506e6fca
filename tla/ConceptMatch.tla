---------------------------- MODULE ConceptMatch ----------------------------
(***************************************************************************)
(* Which concept handles a line (concept.rs): the library is compiled into *)
(* a gate over the triggers of its enabled concepts, which may fail to     *)
(* compile, and an ordered scan behind it, in which a capture outranks a   *)
(* notice.  A line is the set of patterns it matches; between two lines a  *)
(* library may be replaced by one with another concept, or by none.        *)
(***************************************************************************)
EXTENDS Naturals, Sequences, SequencesExt, FiniteSetsExt

CONSTANTS
  Patterns,     \* triggers and conditions
  MaxConcepts   \* MAX_CONCEPTS, scaled

ASSUME MatchAssumption == MaxConcepts \in Nat

VARIABLES
  library,  \* the concepts, in order
  gate,     \* the patterns of the RegexSet, or NoGate
  verdict   \* the place of the concept chosen for the last line, with the line, or 0

matchVars == <<library, gate, verdict>>

Concepts == [enabled : BOOLEAN, trigger : Patterns, conditions : SUBSET Patterns, mode : {"capture", "notify"}]
NoGate == {"none"}
NoVerdict == [at |-> 0, line |-> {}, asked |-> FALSE]

EnabledTriggers(lib) == {lib[i].trigger : i \in {j \in DOMAIN lib : lib[j].enabled}}

MatchInit == library = <<>> /\ gate = NoGate /\ verdict = NoVerdict

\* ConceptMatcher::new: no gate when nothing is enabled or the set does not compile.
LoadConcepts(lib) ==
  /\ library' = lib /\ verdict' = NoVerdict
  /\ gate' \in (IF EnabledTriggers(lib) = {} THEN {NoGate} ELSE {NoGate, EnabledTriggers(lib)})

Fires(c, line) == c.enabled /\ c.trigger \in line /\ c.conditions \subseteq line

(* match_line: the scan returns at the first capture and remembers the     *)
(* first notice before it.                                                 *)
Scan(lib, line) ==
  FoldLeft(LAMBDA found, i :
      IF found.capture \/ ~Fires(lib[i], line) THEN found
      ELSE IF lib[i].mode = "capture" THEN [at |-> i, capture |-> TRUE]
      ELSE IF found.at = 0 THEN [at |-> i, capture |-> FALSE] ELSE found,
    [at |-> 0, capture |-> FALSE], [i \in DOMAIN lib |-> i]).at

Passes(line) == gate = NoGate \/ gate \cap line # {}

MatchLine(line) ==
  /\ verdict' = [at |-> IF Passes(line) THEN Scan(library, line) ELSE 0, line |-> line, asked |-> TRUE]
  /\ UNCHANGED <<library, gate>>

MatchNext ==
  \/ LoadConcepts(<<>>)
  \/ Len(library) < MaxConcepts /\ \E c \in Concepts : LoadConcepts(Append(library, c))
  \/ \E line \in SUBSET Patterns : MatchLine(line)

MatchSpec == MatchInit /\ [][MatchNext]_matchVars

---------------------------------------------------------------------------
(* Whether or not there is a gate, a line goes to the first enabled concept*)
(* that captures and whose trigger and conditions it matches, else to the  *)
(* first that notifies, else to none (concept.rs:23-27, 71-73).            *)
Candidates(kind) == {i \in DOMAIN library : Fires(library[i], verdict.line) /\ library[i].mode = kind}
CaptureOutranksNotify ==
  verdict.asked =>
    verdict.at = (IF Candidates("capture") # {} THEN Min(Candidates("capture"))
                  ELSE IF Candidates("notify") # {} THEN Min(Candidates("notify")) ELSE 0)
=============================================================================
