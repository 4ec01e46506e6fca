------------------------------- MODULE McpServer -------------------------------
(***************************************************************************)
(* `gpty mcp': a client writes lines to the server's standard input, the   *)
(* server reads at most LineCap bytes of one, answers what asks for an     *)
(* answer, and turns the call of a tool into one request on the control    *)
(* socket (mcp.rs), its arguments checked against the command line's own   *)
(* definitions and renamed for the handler (wire.rs, schema.rs).  Tools    *)
(* that manage the window are handled by the server itself.                *)
(*                                                                         *)
(* A line is its sort, its length and, for a call, the tool and its        *)
(* arguments; a value is the JSON form it has on the line.  `new-pane',    *)
(* `vault-weight', `pane-wait' and `version' stand for the tools: one that *)
(* renames an argument, one with a rule of its own, one whose answer the   *)
(* window holds back, and a plain one.  `shutdown' and `plugin-install'    *)
(* are methods of the window that no tool is published for.                *)
(*                                                                         *)
(* Bounds: MaxLines lines, one of them unread at a time; MaxSwitches       *)
(* changes of the window that no tool asked for; waits of Waits.           *)
(***************************************************************************)
EXTENDS Integers, Sequences, FiniteSets, SequencesExt

CONSTANTS LineCap, MaxLines, MaxSwitches,
          Budget,  \* time a call may take, and a start
          Waits    \* the deadlines a pane-wait may name

\* A line holds more than its newline.
ASSUME McpBoundsAssumption ==
  /\ LineCap \in Nat /\ LineCap > 1
  /\ MaxLines \in Nat /\ MaxSwitches \in Nat /\ Budget \in Nat /\ Waits \subseteq Nat

VARIABLES
  unread,  \* lines written and not read
  owed,  \* the ids of the answers the client is owed, in order
  answers, \* the ids of the answers it was given
  reply,    \* the last answer: its id and what it says
  work,    \* the call the server is busy with, or NoWork
  window,     \* the window: down, starting, up, or wedged
  accepted,    \* requests the window has accepted and not answered
  deeds,    \* what the window did, and what the call meant
  switches

mcpVars == <<unread, owed, answers, reply, work, window, accepted, deeds, switches>>

Local == {"daemon-start", "daemon-stop", "daemon-status"}
Published == Local \cup {"new-pane", "vault-weight", "pane-wait", "version"}
ToolNames == Published \cup {"shutdown", "plugin-install"}

\* What clap says of each argument.
KindOf == [pane_type |-> "text", focus |-> "bool", tags |-> "joined", argv |-> "list",
           weight |-> "integer", clear |-> "bool", timeout_ms |-> "integer"]
ArgumentsOf(tool) ==
  CASE tool = "new-pane" -> {"pane_type", "focus", "tags", "argv"}
    [] tool = "vault-weight" -> {"weight", "clear"}
    [] tool = "pane-wait" -> {"timeout_ms"}
    [] OTHER -> {}

\* Values by their JSON form; of a string, what it spells.
Forms == {"null", "true", "false", "number", "list", "mixed"}
Spellings == {"words", "numberWords", "trueWords", "falseWords"}
Values == Forms \cup Spellings

-----------------------------------------------------------------------------
\* wire.rs: arguments to parameters.

Refusal == "refused"

\* The value an argument of this kind takes, or the refusal.
Coerce(kind, value) ==
  CASE kind = "text" /\ value \in Spellings -> value
    [] kind = "integer" /\ value \in {"number", "numberWords"} -> "number"
    [] kind = "bool" /\ value \in {"true", "trueWords"} -> "true"
    [] kind = "bool" /\ value \in {"false", "falseWords"} -> "false"
    [] kind \in {"list", "joined"} /\ value = "list" -> "list"
    [] kind = "joined" /\ value \in Spellings -> "list"
    [] OTHER -> Refusal

\* Flawed: every argument travels under its own name.
OwnName(tool, id) == id

WireKey(tool, id) == IF tool = "new-pane" /\ id = "pane_type" THEN "type" ELSE id

\* vault-weight takes a weight or the switch that clears it.
WeightRule(params) ==
  LET named == "weight" \in DOMAIN params
      clear == "clear" \in DOMAIN params /\ params["clear"] = "true"
  IN CASE named /\ ~clear -> [weight |-> params["weight"]]
       [] ~named /\ clear -> [weight |-> "null"]
       [] OTHER -> [refused |-> Refusal]

Malformed(params) == "refused" \in DOMAIN params

WireParams(tool, args) ==
  LET plain == [key \in {WireKey(tool, id) : id \in DOMAIN args} |->
                  LET id == CHOOSE i \in DOMAIN args : WireKey(tool, i) = key
                  IN Coerce(KindOf[id], args[id])]
  IN IF \/ ~(DOMAIN args \subseteq ArgumentsOf(tool))
        \/ \E id \in DOMAIN args : Coerce(KindOf[id], args[id]) = Refusal
       THEN [refused |-> Refusal]
       ELSE IF tool = "vault-weight" THEN WeightRule(plain) ELSE plain

NoArgs == [id \in {} |-> "none"]

\* What the window's handler makes of the parameters: a key it does not read
\* is nothing to it, a key that is absent has its default.
ReadsKey(params, key, default) == IF key \in DOMAIN params THEN params[key] ELSE default
Handled(tool, params) ==
  CASE tool = "new-pane" ->
         [type |-> ReadsKey(params, "type", "default"), focus |-> ReadsKey(params, "focus", "true"),
          tags |-> ReadsKey(params, "tags", "none")]
    [] tool = "vault-weight" -> [weight |-> ReadsKey(params, "weight", "null")]
    [] OTHER -> NoArgs

\* What the client asked for, in its own words.
Meant(tool, args) ==
  LET says(id, default) ==
        IF id \in DOMAIN args THEN Coerce(KindOf[id], args[id]) ELSE default
  IN CASE tool = "new-pane" ->
            [type |-> says("pane_type", "default"), focus |-> says("focus", "true"),
             tags |-> says("tags", "none")]
       [] tool = "vault-weight" ->
            [weight |-> IF says("clear", "false") = "true" THEN "null" ELSE says("weight", Refusal)]
       [] OTHER -> NoArgs

-----------------------------------------------------------------------------
\* The lines a client writes.

One(id, values) == {[i \in {id} |-> v] : v \in values}
CallArgs(tool) ==
  CASE tool = "new-pane" -> {NoArgs, [pane_type |-> "words", type |-> "words"]}
                              \cup UNION {One(id, Values) : id \in {"pane_type", "focus", "tags"}}
                              \cup One("argv", {"list", "words"})
    [] tool = "vault-weight" -> {NoArgs} \cup One("clear", {"true", "false"})
         \cup One("weight", {"number", "words", "numberWords"})
         \cup {[weight |-> "number", clear |-> c] : c \in {"true", "false", "trueWords"}}
    [] OTHER -> {NoArgs}

Lengths == {1, LineCap - 1, LineCap, LineCap + 1}
PlainLines(id) ==
  [sort : {"blank", "garbage", "notification", "initialize"}, length : Lengths, id : {id},
   tool : {"none"}, args : {NoArgs}, wait : {0}]
CallLines(id) ==
  UNION {[sort : {"call"}, length : {1}, id : {id}, tool : {tool}, args : CallArgs(tool),
          wait : IF tool = "pane-wait" THEN Waits ELSE {0}] : tool \in ToolNames}

\* The newline is the last byte of a line: a line fits when both do.
Oversized(line) == line.length >= LineCap
\* A request without an id, or none at all, is not answered; a line that is
\* no request is answered under 0.
Wants(line) == Oversized(line) \/ line.sort \notin {"blank", "notification"}
AnswerId(line) == IF Oversized(line) \/ line.sort = "garbage" THEN 0 ELSE line.id

NoWork == [stage |-> "idle"]

McpInit ==
  /\ unread = <<>> /\ owed = <<>> /\ answers = <<>>
  /\ reply = [id |-> -1, says |-> "nothing"]
  /\ work = NoWork
  /\ window \in {"down", "up"}
  /\ accepted = {} /\ deeds = {}
  /\ switches = 0

ClientWrites ==
  /\ unread = <<>> /\ Len(owed) < MaxLines
  /\ \E line \in PlainLines(Len(owed) + 1) \cup CallLines(Len(owed) + 1) :
       /\ unread' = <<line>>
       /\ owed' = owed \o (IF Wants(line) THEN <<AnswerId(line)>> ELSE <<>>)
  /\ UNCHANGED <<answers, reply, work, window, accepted, deeds, switches>>

\* A JSON-RPC answer: a result, a result that is the tool's failure, or an error.
Answer(id, says) ==
  /\ answers' = Append(answers, id)
  /\ reply' = [id |-> id, says |-> says]
  /\ work' = NoWork

\* discard_line: to the next newline, or the end of the input.
Discarded(lines) == Tail(lines)

ReadOversized ==
  /\ work = NoWork /\ unread # <<>> /\ Oversized(Head(unread))
  /\ unread' = Discarded(unread)
  /\ Answer(0, "invalid")
  /\ UNCHANGED <<owed, window, accepted, deeds, switches>>

ReadSilently ==
  /\ work = NoWork /\ unread # <<>> /\ ~Wants(Head(unread))
  /\ unread' = Tail(unread)
  /\ UNCHANGED <<owed, answers, reply, work, window, accepted, deeds, switches>>

Allowed(tool) == tool \in Published

\* A line that is answered at once: not a request, not a call, a call of no
\* tool, or one whose arguments are refused.
ReadAnswered ==
  /\ work = NoWork /\ unread # <<>>
  /\ LET line == Head(unread) IN
       /\ ~Oversized(line) /\ Wants(line)
       /\ \/ line.sort = "garbage" /\ Answer(0, "unparsable")
          \/ line.sort = "initialize" /\ Answer(line.id, "result")
          \/ line.sort = "call" /\ ~Allowed(line.tool) /\ Answer(line.id, "malformed")
          \/ /\ line.sort = "call" /\ Allowed(line.tool) /\ line.tool \notin Local
             /\ Malformed(WireParams(line.tool, line.args)) /\ Answer(line.id, "malformed")
  /\ unread' = Tail(unread)
  /\ UNCHANGED <<owed, window, accepted, deeds, switches>>

ReadCall ==
  /\ work = NoWork /\ unread # <<>>
  /\ LET line == Head(unread) IN
       /\ line.sort = "call" /\ Allowed(line.tool)
       /\ line.tool \in Local \/ ~Malformed(WireParams(line.tool, line.args))
       /\ work' = [stage |-> IF line.tool = "daemon-start" THEN "probe" ELSE "connect",
                   id |-> line.id, tool |-> line.tool, age |-> 0, wait |-> line.wait,
                   meant |-> Meant(line.tool, line.args),
                   params |-> IF line.tool \in Local THEN NoArgs ELSE WireParams(line.tool, line.args)]
  /\ unread' = Tail(unread)
  /\ UNCHANGED <<owed, answers, reply, window, accepted, deeds, switches>>

-----------------------------------------------------------------------------
\* A call in flight.

Busy(s) == work # NoWork /\ work.stage = s
Working(stage, age) ==
  [stage |-> stage, id |-> work.id, tool |-> work.tool, age |-> age, wait |-> work.wait,
   meant |-> work.meant, params |-> work.params]
NoLines == UNCHANGED <<unread, owed>>

\* Nothing listens: the daemon tools say so, every other tool fails.
CallNobody ==
  /\ Busy("connect") /\ window \in {"down", "starting"}
  /\ Answer(work.id, IF work.tool \in Local THEN "result" ELSE "nobody")
  /\ NoLines /\ UNCHANGED <<window, accepted, deeds, switches>>

CallGui ==
  /\ Busy("connect") /\ window \in {"up", "wedged"}
  /\ work' = Working("waiting", work.age)
  /\ accepted' = accepted \cup {[id |-> work.id, tool |-> work.tool, params |-> work.params,
                         meant |-> work.meant, wait |-> work.wait, age |-> 0]}
  /\ NoLines /\ UNCHANGED <<answers, reply, window, deeds, switches>>

\* The window handles a request, or refuses it; a pane-wait it answers when
\* the text shows up, or at its deadline.  Who asked may have gone.
GuiAnswers ==
  /\ window = "up"
  /\ \E r \in accepted, ok \in BOOLEAN :
       /\ accepted' = accepted \ {r}
       /\ deeds' = IF ok THEN deeds \cup {[id |-> r.id, meant |-> r.meant,
                                         did |-> Handled(r.tool, r.params)]} ELSE deeds
       /\ window' = IF ok /\ r.tool = "daemon-stop" THEN "down" ELSE window
       /\ IF Busy("waiting") /\ work.id = r.id
            THEN Answer(r.id, IF ok THEN "result" ELSE "failure")
            ELSE UNCHANGED <<answers, reply, work>>
  /\ NoLines /\ UNCHANGED switches

\* A window that goes takes its requests with it: the connections close.
GuiGoes ==
  /\ window \in {"up", "wedged", "starting"} /\ switches < MaxSwitches
  /\ switches' = switches + 1
  /\ window' = "down" /\ accepted' = {}
  /\ IF Busy("waiting")
       THEN Answer(work.id, IF work.tool \in Local THEN "failure" ELSE "transport")
       ELSE UNCHANGED <<answers, reply, work>>
  /\ NoLines /\ UNCHANGED deeds

\* The window hangs, or comes back; or the user opens one.
GuiSwitches ==
  /\ switches < MaxSwitches /\ switches' = switches + 1
  /\ \/ window = "up" /\ window' = "wedged"
     \/ window = "wedged" /\ window' = "up"
     \/ window = "down" /\ window' = "up"
  /\ NoLines /\ UNCHANGED <<answers, reply, work, accepted, deeds>>

TimedOut ==
  /\ Busy("waiting") /\ work.age = Budget
  /\ Answer(work.id, IF work.tool \in Local THEN "failure" ELSE "transport")
  /\ NoLines /\ UNCHANGED <<window, accepted, deeds, switches>>

\* daemon-start: a window is started only where nothing listens, once.
StartProbe ==
  /\ Busy("probe")
  /\ \/ window = "up" /\ Answer(work.id, "result") /\ UNCHANGED window
     \/ window = "wedged" /\ work' = Working("awaiting", work.age) /\ UNCHANGED <<window, answers, reply>>
     \/ /\ window \in {"down", "starting"} /\ window' = "starting"
        /\ work' = Working("awaiting", work.age) /\ UNCHANGED <<answers, reply>>
  /\ NoLines /\ UNCHANGED <<accepted, deeds, switches>>

\* The loop ends with an answer, with the child's exit, or at its deadline.
StartEnds ==
  /\ Busy("awaiting")
  /\ \/ window = "up" /\ Answer(work.id, "result")
     \/ window = "down" /\ Answer(work.id, "failure")
     \/ work.age = Budget /\ window # "up" /\ Answer(work.id, "failure")
  /\ NoLines /\ UNCHANGED <<window, accepted, deeds, switches>>

ChildIsUp == window = "starting" /\ window' = "up"
             /\ NoLines /\ UNCHANGED <<answers, reply, work, accepted, deeds, switches>>

\* Time passes for the call and for the waits the window holds; a wait that is
\* due is answered first, by a window that answers.
Due(r) == r.tool = "pane-wait" /\ r.age = r.wait
Waited(r) ==
  [id |-> r.id, tool |-> r.tool, params |-> r.params, meant |-> r.meant, wait |-> r.wait,
   age |-> IF r.tool = "pane-wait" /\ ~Due(r) THEN r.age + 1 ELSE r.age]
Tick ==
  /\ work # NoWork /\ work.stage \in {"waiting", "awaiting"} /\ work.age < Budget
  /\ window = "up" => ~ \E r \in accepted : Due(r)
  /\ work' = Working(work.stage, work.age + 1)
  /\ accepted' = {Waited(r) : r \in accepted}
  /\ NoLines /\ UNCHANGED <<answers, reply, window, deeds, switches>>

McpNext ==
  \/ ClientWrites \/ ReadOversized \/ ReadSilently \/ ReadAnswered \/ ReadCall
  \/ CallNobody \/ CallGui \/ GuiAnswers \/ GuiGoes \/ GuiSwitches \/ TimedOut
  \/ StartProbe \/ StartEnds \/ ChildIsUp \/ Tick

McpSpec == McpInit /\ [][McpNext]_mcpVars

-----------------------------------------------------------------------------
\* Answers come in the order of the lines that ask for one, each under its
\* line's id, none of them twice; and when the server is idle with nothing to
\* read it owes none.
AnswersInOrder ==
  /\ IsPrefix(answers, owed)
  /\ work = NoWork /\ unread = <<>> => answers = owed

\* What the window did is what the client asked for, in the client's words;
\* a call that was answered with success was carried out, and one that was
\* refused as malformed never reached the window.
CallsMeanWhatTheySay ==
  /\ \A d \in deeds : d.did = d.meant
  /\ reply.says = "malformed" => \A r \in accepted \cup deeds : r.id # reply.id

\* A pane-wait is answered for what it waited for: a call that fails has run to
\* the wait's own deadline (docs/content/wiki/gpty/mcp.md: blocking on output
\* until a pattern appears works in both, the command line and the server).
WaitsAreHeardOut ==
  \A r \in accepted : r.tool = "pane-wait" /\ r.age < r.wait => Busy("waiting") /\ work.id = r.id
=============================================================================
