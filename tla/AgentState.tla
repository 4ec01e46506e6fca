----------------------------- MODULE AgentState -----------------------------
(***************************************************************************)
(* The state a terminal shows for the agent in it, and how the panes that  *)
(* observe the terminal learn of it.  Three sources feed one tracker:      *)
(* events of the event socket (tier 1, set by the GUI thread), OSC         *)
(* declarations in the output (tier 2) and failure lines or a failed exit  *)
(* (tier 3), both read by the terminal task, which takes the grid's lock   *)
(* once for the declaration and once for the heuristics.  The pane polls   *)
(* the tracker and announces a change; a scan of each frame tells a pane   *)
(* that has just started to observe.                                       *)
(*                                                                         *)
(* A time is an age: how long ago, counted to the interval that matters.   *)
(* Left out: which lines match, and chunks read while the screen is in the *)
(* alternate buffer, captured or repainting, which feed no tracker.        *)
(*                                                                         *)
(* Bounds: Inputs observations; Shells shells or terminals behind the id.  *)
(***************************************************************************)
EXTENDS Integers, FiniteSets

CONSTANTS Followers, Inputs, Shells, DeclarationInterval, Tier3TTL

ASSUME AgentBoundsAssumption ==
  /\ Inputs \in Nat /\ Shells \in Nat /\ "self" \notin Followers
  /\ DeclarationInterval \in Nat \ {0} /\ Tier3TTL \in Nat \ {0}

VARIABLES
  shown,     \* AgentStateTracker.state
  tier,      \* AgentStateTracker.tier, 0 for None
  declAge,   \* age of last_declaration_unix_ms, the interval if none
  signalAge, \* age of last_t3_signal_unix_ms, the TTL if none
  task,      \* the terminal task: reading, at the heuristics, or ended
  inputs,    \* observations made so far
  shells,    \* shells started behind the id
  badge,     \* the pane's _badge_state, "" before any delivery
  observing, \* the panes that follow the terminal
  told,      \* _agent_state_primed: what each observer was last told, "" none
  declared,  \* history: the last tier 1 state since the shell's start, or ""
  behind     \* history: observers told something the pane has not announced

agentVars == <<shown, tier, declAge, signalAge, task, inputs, shells, badge, observing, told,
               declared, behind>>
trackerVars == <<shown, tier, declAge, signalAge>>
observerVars == <<badge, observing, told, behind>>

AgentStates == {"idle", "working", "failed"}
Observers == Followers \union {"self"}

AgentTypeOK ==
  /\ shown \in AgentStates /\ tier \in 0..3
  /\ declAge \in 0..DeclarationInterval /\ signalAge \in 0..Tier3TTL
  /\ task \in {"reading", "heuristics", "ended"} /\ inputs \in 0..Inputs /\ shells \in 1..Shells
  /\ badge \in AgentStates \union {""} /\ observing \subseteq Observers
  /\ told \in [Observers -> AgentStates \union {""}]
  /\ declared \in AgentStates \union {""} /\ behind \subseteq Followers

AgentInit ==
  /\ shown = "idle" /\ tier = 0 /\ declAge = DeclarationInterval /\ signalAge = Tier3TTL
  /\ task = "reading" /\ inputs = 0 /\ shells = 1
  /\ badge = "" /\ observing = {"self"} /\ told = [o \in Observers |-> ""]
  /\ declared = "" /\ behind = {}

----------------------------------------------------------------------------
\* The tracker.

\* Flawed: the newest observation wins.
NeverOutranked(t) == FALSE
\* AgentStateTracker::observe: a weaker tier never overrides a stronger one.
Outranked(t) == tier # 0 /\ t > tier
Observe(t, s) ==
  IF Outranked(t) THEN UNCHANGED <<shown, tier>> ELSE shown' = s /\ tier' = t

\* set_agent_state, from a routed event of the terminal's own session.
Tier1Event(s) ==
  /\ inputs < Inputs /\ inputs' = inputs + 1
  /\ Observe(1, s) /\ declared' = s
  /\ UNCHANGED <<declAge, signalAge, task, shells>> /\ UNCHANGED observerVars

\* A chunk with a declaration, accepted once per interval.
Declaration(s) ==
  /\ task = "reading" /\ inputs < Inputs /\ inputs' = inputs + 1
  /\ IF declAge >= DeclarationInterval
     THEN Observe(2, s) /\ declAge' = 0
     ELSE UNCHANGED <<shown, tier, declAge>>
  /\ task' = "heuristics"
  /\ UNCHANGED <<signalAge, shells, declared>> /\ UNCHANGED observerVars

\* The rest of the chunk: a failure line is an observation of its own, and a
\* tier 3 state nothing refreshed for the TTL falls back to idle.
Decayed(s, t, age) == t = 3 /\ s # "idle" /\ age >= Tier3TTL
Heuristics(fails) ==
  /\ task = "heuristics" \/ (task = "reading" /\ inputs < Inputs)
  /\ inputs' = IF task = "reading" THEN inputs + 1 ELSE inputs
  /\ signalAge' = IF fails THEN 0 ELSE signalAge
  /\ LET s == IF fails /\ ~Outranked(3) THEN "failed" ELSE shown
         t == IF fails /\ ~Outranked(3) THEN 3 ELSE tier
     IN /\ shown' = (IF Decayed(s, t, signalAge') THEN "idle" ELSE s)
        /\ tier' = t
  /\ task' = "reading"
  /\ UNCHANGED <<declAge, shells, declared>> /\ UNCHANGED observerVars

\* The child is reaped: an exit code other than 0 is a failure.
Exit(code) ==
  /\ task = "reading" /\ task' = "ended"
  /\ IF code # 0 THEN Observe(3, "failed") ELSE UNCHANGED <<shown, tier>>
  /\ UNCHANGED <<declAge, signalAge, inputs, shells, declared>> /\ UNCHANGED observerVars

TimePasses ==
  /\ declAge < DeclarationInterval \/ signalAge < Tier3TTL
  /\ declAge' = IF declAge < DeclarationInterval THEN declAge + 1 ELSE declAge
  /\ signalAge' = IF signalAge < Tier3TTL THEN signalAge + 1 ELSE signalAge
  /\ UNCHANGED <<shown, tier, task, inputs, shells, declared>> /\ UNCHANGED observerVars

FreshTracker ==
  /\ shells < Shells /\ shells' = shells + 1
  /\ shown' = "idle" /\ tier' = 0 /\ declAge' = DeclarationInterval /\ signalAge' = Tier3TTL
  /\ task' = "reading" /\ declared' = "" /\ UNCHANGED inputs

\* start_shell in the same pane: a new grid with a tracker of its own.
Respawn == FreshTracker /\ UNCHANGED observerVars

\* A new pane behind the same attachment id.  It is an observer anew; those
\* that follow the id keep what they were told.
ReplaceTerminal ==
  /\ FreshTracker
  /\ badge' = "" /\ told' = [told EXCEPT !["self"] = ""]
  /\ behind' = behind \union {o \in Followers : told[o] # ""}
  /\ UNCHANGED observing

----------------------------------------------------------------------------
\* The panes (GUI thread).

\* Flawed: only the terminal itself hears the change.
AnnouncedToSelf(s) == [told EXCEPT !["self"] = IF @ # "" THEN s ELSE @]
\* _poll_agent_state: a change is announced to every settled observer; the
\* first read before any delivery is adopted in silence.  Polls are several
\* frames apart, so the scan has settled the terminal before the second.
Announced(s) == [o \in Observers |-> IF told[o] # "" THEN s ELSE told[o]]
PollAgentState ==
  /\ shown # badge /\ (badge = "" \/ told["self"] # "")
  /\ badge' = shown
  /\ IF badge = "" THEN UNCHANGED <<told, behind>>
     ELSE told' = Announced(shown) /\ behind' = {}
  /\ UNCHANGED observing /\ UNCHANGED trackerVars
  /\ UNCHANGED <<task, inputs, shells, declared>>

\* _prime_new_pane_observers: every observer not settled yet is told the
\* state, the terminal's own badge among them.
Prime ==
  /\ \E o \in observing : told[o] = ""
  /\ told' = [o \in Observers |-> IF o \in observing /\ told[o] = "" THEN shown ELSE told[o]]
  /\ badge' = IF told["self"] = "" THEN shown ELSE badge
  /\ behind' = IF badge' = shown THEN behind
               ELSE behind \union {o \in observing : told[o] = ""}
  /\ UNCHANGED observing /\ UNCHANGED trackerVars
  /\ UNCHANGED <<task, inputs, shells, declared>>

\* A pane starts to follow the terminal.
Follow(o) ==
  /\ o \notin observing /\ observing' = observing \union {o}
  /\ UNCHANGED <<badge, told, behind>> /\ UNCHANGED trackerVars
  /\ UNCHANGED <<task, inputs, shells, declared>>

AgentNext ==
  \/ \E s \in AgentStates : Tier1Event(s) \/ Declaration(s)
  \/ \E fails \in BOOLEAN : Heuristics(fails)
  \/ \E code \in 0..1 : Exit(code)
  \/ TimePasses \/ Respawn \/ ReplaceTerminal \/ PollAgentState \/ Prime
  \/ \E o \in Followers : Follow(o)

\* Frames go on: the pane polls and the workspace scans.
AgentSpec ==
  /\ AgentInit /\ [][AgentNext]_agentVars
  /\ WF_agentVars(PollAgentState) /\ WF_agentVars(Prime)

----------------------------------------------------------------------------
\* Spoofable output never overrides an agent's own events: from the first
\* tier 1 observation of a shell on, the state shown is the last one that
\* tier declared, whatever the output says, decays or the exit code is.
AuthoritativeStays == declared # "" => shown = declared /\ tier = 1

\* When the observations stop, the terminal's badge shows its state, and so
\* does every pane that follows it, unless its entry was out of step with the
\* announcements: it was settled on a terminal replaced behind the same id, or
\* it was told a state the slow poll had not seen; then the next announcement
\* puts it right.
ObserversAgree ==
  <>[](badge = shown /\ \A o \in observing \ behind : told[o] = shown)

\* As the comment of the dispatch has it (workspace.gd:2007): "a terminal emits
\* its tiered state change and every pane observing that terminal hears it".
EveryObserverHears == <>[](\A o \in observing : told[o] = shown)
=============================================================================
