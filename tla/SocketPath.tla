----------------------------- MODULE SocketPath -----------------------------
(* Where the GUI and whoever calls it look for the control socket            *)
(* (transport.rs): each process works the path out for itself, from the      *)
(* environment and from directories that the others make and tighten at the  *)
(* same time.  This is the resolution on Linux.                              *)
EXTENDS Sequences, Integers

CONSTANTS
    Processes,     \* processes of one user and one environment
    MaxOutside     \* bound: changes that others make to the directories

ASSUME SocketPathAssumption == MaxOutside \in Nat

VARIABLES
    override,   \* GPTY_SOCKET: "unset", "relative" or "absolute"
    dirIs,      \* directory -> how it is found
    at,         \* process -> the candidate it looks at, 0 before it began
    doing,      \* process -> what it does next with a directory of gpty's own
    place,      \* process -> the directory of its socket, "none" so far
    outside,
    disturbed   \* history: others changed a directory since a process began

pathVars == <<override, dirIs, at, doing, place, outside, disturbed>>

(* $XDG_RUNTIME_DIR and /run/user/<uid> are used as they are; gpty's own    *)
(* directory under $XDG_STATE_HOME or under $HOME is made, and tightened.    *)
Runtime == <<"xdg_runtime", "run_user">>
Candidates == Runtime \o <<"xdg_state", "home_state">>
OfGpty(i) == i > Len(Runtime)

(* "lax": ours and open to others; "stuck": lax, and nobody can change it;   *)
(* "foreign": another user's; "missing"; "sealed": missing, nobody can make  *)
(* it; "unnamed": no variable names it by an absolute path.                  *)
Kinds == {"secure", "lax", "stuck", "foreign", "missing", "sealed", "unnamed"}

PathInit ==
    /\ override \in {"unset", "relative", "absolute"}
    /\ \E xr, ru \in {"secure", "lax"}, xs, hs \in Kinds :
         dirIs = [xdg_runtime |-> xr, run_user |-> ru, xdg_state |-> xs, home_state |-> hs]
    /\ at = [p \in Processes |-> 0] /\ doing = [p \in Processes |-> "look"]
    /\ place = [p \in Processes |-> "none"] /\ outside = 0 /\ disturbed = FALSE

Looking(p) == place[p] = "none" /\ at[p] > 0
Dir(p) == Candidates[at[p]]
Now(p) == dirIs[Dir(p)]
PathStill == UNCHANGED <<override, outside, disturbed>>

Found(p, where) ==
    /\ place' = [place EXCEPT ![p] = where] /\ doing' = [doing EXCEPT ![p] = "look"]
    /\ UNCHANGED <<dirIs, at>> /\ PathStill

(* The shared temporary directory when no candidate is left. *)
NextCandidate(p) ==
    /\ doing' = [doing EXCEPT ![p] = "look"]
    /\ IF at[p] = Len(Candidates) THEN place' = [place EXCEPT ![p] = "tmp"] /\ UNCHANGED at
       ELSE at' = [at EXCEPT ![p] = @ + 1] /\ UNCHANGED place
    /\ UNCHANGED dirIs /\ PathStill

(* is_secure_runtime_dir *)
Judge(p) == IF Now(p) = "secure" THEN Found(p, Dir(p)) ELSE NextCandidate(p)

Does(p, what) == doing' = [doing EXCEPT ![p] = what] /\ UNCHANGED <<at, place>> /\ PathStill

(* default_socket_path: an absolute override is taken as it is. *)
BeginPath(p) ==
    /\ place[p] = "none" /\ at[p] = 0
    /\ place' = [place EXCEPT ![p] = IF override = "absolute" THEN "given" ELSE "none"]
    /\ at' = [at EXCEPT ![p] = 1]
    /\ UNCHANGED <<dirIs, doing>> /\ PathStill

LookRuntime(p) == Looking(p) /\ ~OfGpty(at[p]) /\ Judge(p)

(* xdg_dir: there or not ... *)
LookState(p) ==
    /\ Looking(p) /\ OfGpty(at[p]) /\ doing[p] = "look"
    /\ \/ Now(p) = "unnamed" /\ NextCandidate(p)
       \/ Now(p) \in {"missing", "sealed"} /\ Does(p, "make") /\ UNCHANGED dirIs
       \/ Now(p) \notin {"unnamed", "missing", "sealed"} /\ Does(p, "tighten") /\ UNCHANGED dirIs

(* create_dir_all: one that is there by now is as good. *)
CanMake(p) == Now(p) # "sealed"

(* ... made, with the mode the process happens to give it ... *)
MakeDir(p) ==
    /\ Looking(p) /\ doing[p] = "make"
    /\ IF ~CanMake(p) THEN NextCandidate(p)
       ELSE /\ Does(p, "tighten")
            /\ \E mode \in {"secure", "lax"} :
                 dirIs' = [dirIs EXCEPT ![Dir(p)] = IF @ = "missing" THEN mode ELSE @]

(* ... tightened if it is ours ... *)
Tighten(p) ==
    /\ Looking(p) /\ doing[p] = "tighten"
    /\ IF Now(p) \in {"missing", "sealed"} THEN NextCandidate(p)
       ELSE /\ Does(p, "check")
            /\ dirIs' = [dirIs EXCEPT ![Dir(p)] = IF @ = "lax" THEN "secure" ELSE @]

(* ... and used if it is secure now. *)
CheckDir(p) == Looking(p) /\ doing[p] = "check" /\ Judge(p)

(* A login makes /run/user, an administrator repairs a home. *)
ChangeOutside ==
    /\ outside < MaxOutside /\ outside' = outside + 1
    /\ \E d \in DOMAIN dirIs, is \in {"secure", "lax", "missing"} : dirIs' = [dirIs EXCEPT ![d] = is]
    /\ disturbed' = (disturbed \/ \E p \in Processes : at[p] > 0)
    /\ UNCHANGED <<override, at, doing, place>>

PathNext ==
    \/ \E p \in Processes :
         BeginPath(p) \/ LookRuntime(p) \/ LookState(p) \/ MakeDir(p) \/ Tighten(p) \/ CheckDir(p)
    \/ ChangeOutside

(***************************************************************************)
(* Properties                                                              *)
(***************************************************************************)

\* "the client has to derive the same path" (transport.rs:156): whatever two
\* processes make and tighten beside one another, they look in one place, as
\* long as nobody else changes the directories after the first of them began.
CallersLookThere ==
    \A p, q \in Processes :
        ~disturbed /\ place[p] # "none" /\ place[q] # "none" => place[p] = place[q]
=============================================================================
