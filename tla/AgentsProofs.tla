-------------------------- MODULE AgentsProofs -----------------------------
(* Proofs about a window and its agents.  What an agent says of itself      *)
(* outranks what its output looks like, for every interval, time to live    *)
(* and number of shells; the tool server answers each line in its turn and  *)
(* the window does what the call meant, for any number of lines and waits.  *)
EXTENDS MCAgents, FoldProofs, SequenceTheorems, TLAPS

\* The tier is a number, and a declared state has the authority of tier 1.
TierIsNumber == tier \in Nat
TierInv == TierIsNumber /\ AuthoritativeStays

\* Initially nothing is declared.
LEMMA TierInit == AgentInit => TierInv
  <1> SUFFICES ASSUME AgentInit PROVE TierInv
    OBVIOUS
  <1>1. tier = 0 /\ AuthoritativeStays
    BY Zenon DEF AgentInit, AuthoritativeStays
  <1>2. TierIsNumber
    BY <1>1 DEF TierIsNumber
  <1>3. QED
    BY <1>1, <1>2 DEF TierInv

\* Steps that touch neither the tracker nor the history keep its invariant.
LEMMA TierQuiet ==
  ASSUME TierInv, UNCHANGED <<shown, tier, declared>>
  PROVE  TierInv'
  BY DEF TierInv, TierIsNumber, AuthoritativeStays

\* A tier is a number wherever one is set.
LEMMA TierStaysNumber ==
  ASSUME TierIsNumber, tier' \in {0, 1, 2, 3, tier}
  PROVE  TierIsNumber'
  BY DEF TierIsNumber

\* Tier 1 is never outranked, and outranks the two below it.
LEMMA TierOneRules ==
  ASSUME TierIsNumber
  PROVE  /\ ~Outranked(1)
         /\ tier = 1 => Outranked(2) /\ Outranked(3)
  BY DEF TierIsNumber, Outranked

\* While no event of the agent's own has arrived, anything may be shown.
LEMMA NothingDeclared ==
  ASSUME TierInv, tier # 1, UNCHANGED declared, tier' \in {0, 1, 2, 3, tier}
  PROVE  TierInv'
  <1>1. AuthoritativeStays'
    BY Zenon DEF TierInv, AuthoritativeStays
  <1>2. TierIsNumber'
    BY TierStaysNumber DEF TierInv
  <1>3. QED
    BY <1>1, <1>2 DEF TierInv

\* An observation of a weaker tier than 1 leaves a declared state alone
\* (AgentStateTracker::observe).
LEMMA WeakObservation ==
  ASSUME TierInv, NEW t \in {2, 3}, NEW s, Observe(t, s), UNCHANGED declared
  PROVE  TierInv'
  <1>1. CASE tier = 1
    <2>1. Outranked(t)
      BY <1>1, TierOneRules DEF TierInv
    <2>2. QED
      BY <2>1, TierQuiet DEF Observe
  <1>2. CASE tier # 1
    <2>1. tier' \in {0, 1, 2, 3, tier}
      BY Zenon DEF Observe
    <2>2. QED
      BY <1>2, <2>1, NothingDeclared
  <1>3. QED
    BY <1>1, <1>2

\* A chunk's heuristics: neither a failure line nor the decay of tier 3
\* touches a declared state.
LEMMA HeuristicsKeep ==
  ASSUME TierInv, NEW fails \in BOOLEAN, Heuristics(fails)
  PROVE  TierInv'
  <1> DEFINE s == IF fails /\ ~Outranked(3) THEN "failed" ELSE shown
             t == IF fails /\ ~Outranked(3) THEN 3 ELSE tier
  <1>1. /\ shown' = (IF Decayed(s, t, signalAge') THEN "idle" ELSE s)
        /\ tier' = t /\ UNCHANGED declared
    BY Zenon DEF Heuristics
  <1>2. CASE tier = 1
    <2>1. Outranked(3)
      BY <1>2, TierOneRules DEF TierInv
    <2>2. s = shown /\ t = tier
      BY <2>1
    <2>3. ~Decayed(s, t, signalAge')
      BY <1>2, <2>2 DEF Decayed
    <2> HIDE DEF s, t
    <2>4. UNCHANGED <<shown, tier, declared>>
      BY <1>1, <2>2, <2>3
    <2>5. QED
      BY <2>4, TierQuiet
  <1>3. CASE tier # 1
    <2>1. tier' \in {0, 1, 2, 3, tier}
      BY <1>1, Zenon
    <2>2. QED
      BY <1>1, <1>3, <2>1, NothingDeclared
  <1>4. QED
    BY <1>2, <1>3

\* One case per action of the tracker, the task and the panes.
LEMMA TierNext == TierInv /\ [AgentNext]_agentVars => TierInv'
  <1> SUFFICES ASSUME TierInv, [AgentNext]_agentVars PROVE TierInv'
    OBVIOUS
  <1>1. ASSUME NEW s \in AgentStates, Tier1Event(s) PROVE TierInv'
    <2>1. ~Outranked(1)
      BY TierOneRules DEF TierInv
    <2>2. shown' = s /\ tier' = 1 /\ declared' = s
      BY <1>1, <2>1 DEF Tier1Event, Observe
    <2>3. TierIsNumber'
      BY <2>2 DEF TierIsNumber
    <2>4. QED
      BY <2>2, <2>3, Zenon DEF TierInv, AuthoritativeStays
  <1>2. ASSUME NEW s \in AgentStates, Declaration(s) PROVE TierInv'
    <2>1. Observe(2, s) \/ UNCHANGED <<shown, tier>>
      BY <1>2 DEF Declaration
    <2>2. UNCHANGED declared
      BY <1>2 DEF Declaration
    <2>3. QED
      BY <2>1, <2>2, WeakObservation, TierQuiet
  <1>3. ASSUME NEW fails \in BOOLEAN, Heuristics(fails) PROVE TierInv'
    BY <1>3, HeuristicsKeep
  <1>4. ASSUME NEW code \in 0..1, Exit(code) PROVE TierInv'
    <2>1. Observe(3, "failed") \/ UNCHANGED <<shown, tier>>
      BY <1>4 DEF Exit
    <2>2. UNCHANGED declared
      BY <1>4 DEF Exit
    <2>3. QED
      BY <2>1, <2>2, WeakObservation, TierQuiet
  <1>5. CASE Respawn \/ ReplaceTerminal
    <2>1. tier' = 0 /\ declared' = ""
      BY <1>5, Zenon DEF Respawn, ReplaceTerminal, FreshTracker
    <2>2. TierIsNumber'
      BY <2>1 DEF TierIsNumber
    <2>3. QED
      BY <2>1, <2>2, Zenon DEF TierInv, AuthoritativeStays
  <1>6. CASE TimePasses \/ PollAgentState \/ Prime \/ (\E o \in Followers : Follow(o))
    BY <1>6, TierQuiet DEF TimePasses, PollAgentState, Prime, Follow, trackerVars
  <1>7. CASE UNCHANGED agentVars
    BY <1>7, TierQuiet DEF agentVars
  <1>8. QED
    BY <1>1, <1>2, <1>3, <1>4, <1>5, <1>6, <1>7 DEF AgentNext

\* From an agent's first event of its own on, the state shown is the last one
\* it declared: no output, no decay and no exit code changes it.
THEOREM AgentsSpeakForThemselves == AgentSpec => []AuthoritativeStays
  <1>1. TierInv => AuthoritativeStays
    BY DEF TierInv
  <1>2. QED
    BY TierInit, TierNext, <1>1, PTL DEF AgentSpec

-----------------------------------------------------------------------------
(* The tools.  A line that wants an answer is owed one from when it is      *)
(* written: the answers given, then the call in flight, then the line that  *)
(* is not read are what is owed, in this order.                             *)

Calling == IF work = NoWork THEN 0 ELSE 1
Wanting == IF unread # <<>> /\ Wants(Head(unread)) THEN 1 ELSE 0

LineOf(id) == PlainLines(id) \cup CallLines(id)

UnreadInv == unread = <<>> \/ \E id \in Nat : \E line \in LineOf(id) : unread = <<line>>

OwedInv ==
  /\ answers \in Seq(Nat) /\ owed \in Seq(Nat)
  /\ Len(owed) = Len(answers) + Calling + Wanting
  /\ \A i \in 1..Len(answers) : owed[i] = answers[i]

\* The call and the line carry the number of their answer.
NumberInv ==
  /\ work # NoWork => work.id = Len(answers) + 1 /\ owed[Len(answers) + 1] = work.id
  /\ Wanting = 1 => owed[Len(owed)] = AnswerId(Head(unread)) /\ Head(unread).id = Len(owed)

TurnInv == UnreadInv /\ OwedInv /\ NumberInv

\* What a line can be.
LEMMA LineFacts ==
  ASSUME NEW id \in Nat, NEW line \in LineOf(id)
  PROVE  /\ line.id = id
         /\ line.sort \in {"blank", "garbage", "notification", "initialize", "call"}
         /\ line.sort = "call" => ~Oversized(line)
<1>1. CASE line \in PlainLines(id)
  BY <1>1 DEF PlainLines
<1>2. CASE line \in CallLines(id)
  <2>1. line.id = id /\ line.sort = "call" /\ line.length = 1
    BY <1>2 DEF CallLines
  <2> QED BY <2>1, McpBoundsAssumption DEF Oversized
<1> QED BY <1>1, <1>2 DEF LineOf

\* Nothing is written at first.
LEMMA TurnInit == McpInit => TurnInv
<1> SUFFICES ASSUME McpInit PROVE TurnInv
  OBVIOUS
<1>1. unread = <<>> /\ owed = <<>> /\ answers = <<>> /\ work = NoWork
  BY DEF McpInit
<1>2. Calling = 0 /\ Wanting = 0 /\ <<>> \in Seq(Nat) /\ Len(<<>>) = 0
  BY <1>1 DEF Calling, Wanting
<1> QED BY <1>1, <1>2 DEF TurnInv, UnreadInv, OwedInv, NumberInv

\* The three things that happen to a call while no line moves: it is answered,
\* it goes on, or nothing of it changes.
CallEnds ==
  /\ work # NoWork /\ work' = NoWork
  /\ answers' = Append(answers, work.id)
  /\ reply'.id = work.id /\ reply'.says # "malformed"
CallMoves ==
  /\ work # NoWork
  /\ \E stage \in {"waiting", "awaiting"} : \E spent : work' = Working(stage, spent)
  /\ UNCHANGED <<answers, reply>>
CallStays == UNCHANGED <<answers, reply, work>>

\* A step of a call, of the window or of the clock is one of the three.
LEMMA CallSteps ==
  ASSUME \/ CallNobody \/ CallGui \/ GuiAnswers \/ GuiGoes \/ GuiSwitches \/ TimedOut
         \/ StartProbe \/ StartEnds \/ ChildIsUp \/ Tick
  PROVE  NoLines /\ (CallEnds \/ CallMoves \/ CallStays)
<1> USE DEF NoLines, Busy
<1>1. ASSUME NEW says \in {"result", "failure", "transport", "nobody"},
             work # NoWork, Answer(work.id, says)
      PROVE  CallEnds
  BY <1>1 DEF Answer, CallEnds
<1>2. CASE CallNobody BY <1>1, <1>2 DEF CallNobody
<1>3. CASE CallGui BY <1>3 DEF CallGui, CallMoves
<1>4. CASE GuiAnswers
  <2>1. PICK r \in accepted, ok \in BOOLEAN :
          IF Busy("waiting") /\ work.id = r.id
            THEN Answer(r.id, IF ok THEN "result" ELSE "failure")
            ELSE UNCHANGED <<answers, reply, work>>
    BY <1>4 DEF GuiAnswers
  <2>2. NoLines BY <1>4 DEF GuiAnswers
  <2> QED BY <1>1, <2>1, <2>2 DEF CallStays
<1>5. CASE GuiGoes BY <1>1, <1>5 DEF GuiGoes, CallStays
<1>6. CASE GuiSwitches BY <1>6 DEF GuiSwitches, CallStays
<1>7. CASE TimedOut BY <1>1, <1>7 DEF TimedOut
<1>8. CASE StartProbe
  <2>1. work # NoWork /\ NoLines BY <1>8 DEF StartProbe
  <2>2. CASE Answer(work.id, "result") BY <1>1, <2>1, <2>2
  <2>3. CASE work' = Working("awaiting", work.age) /\ UNCHANGED <<answers, reply>>
    BY <2>1, <2>3 DEF CallMoves
  <2> QED BY <1>8, <2>1, <2>2, <2>3 DEF StartProbe
<1>9. CASE StartEnds BY <1>1, <1>9 DEF StartEnds
<1>10. CASE ChildIsUp BY <1>10 DEF ChildIsUp, CallStays
<1>11. CASE Tick BY <1>11 DEF Tick, CallMoves
<1> QED BY <1>2, <1>3, <1>4, <1>5, <1>6, <1>7, <1>8, <1>9, <1>10, <1>11

\* A call that is answered takes its turn.
LEMMA TurnEnds == ASSUME TurnInv, NoLines, CallEnds PROVE TurnInv'
<1>1. /\ work # NoWork /\ work' = NoWork /\ work.id \in Nat
      /\ answers' = Append(answers, work.id)
      /\ UNCHANGED <<unread, owed>>
      /\ answers \in Seq(Nat) /\ owed \in Seq(Nat)
      /\ Len(owed) = Len(answers) + 1 + Wanting
      /\ owed[Len(answers) + 1] = work.id
      /\ \A i \in 1..Len(answers) : owed[i] = answers[i]
  BY DEF CallEnds, NoLines, TurnInv, OwedInv, NumberInv, Calling
<1>2. /\ answers' \in Seq(Nat) /\ Len(answers') = Len(answers) + 1
      /\ \A i \in 1..Len(answers) : answers'[i] = answers[i]
      /\ answers'[Len(answers) + 1] = work.id /\ Len(answers) \in Nat
  BY <1>1
<1>3. Calling' = 0 /\ Wanting' = Wanting BY <1>1 DEF Calling, Wanting
<1>4. UnreadInv' BY <1>1 DEF TurnInv, UnreadInv
<1>5. OwedInv'
  <2>1. \A i \in 1..Len(answers') : owed[i] = answers'[i]
    <3> SUFFICES ASSUME NEW i \in 1..Len(answers') PROVE owed[i] = answers'[i]
      OBVIOUS
    <3>1. i \in 1..Len(answers) \/ i = Len(answers) + 1 BY <1>2
    <3> QED BY <1>1, <1>2, <3>1
  <2>2. Len(owed) = Len(answers') + 0 + Wanting /\ Wanting \in {0, 1}
    BY <1>1, <1>2 DEF Wanting
  <2>3. owed' = owed /\ owed \in Seq(Nat) BY <1>1
  <2> QED BY <1>2, <1>3, <2>1, <2>2, <2>3 DEF OwedInv
<1>6. NumberInv'
  <2>1. Wanting = 1 => owed[Len(owed)] = AnswerId(Head(unread)) /\ Head(unread).id = Len(owed)
    BY DEF TurnInv, NumberInv
  <2> QED BY <1>1, <1>3, <2>1 DEF NumberInv
<1> QED BY <1>4, <1>5, <1>6 DEF TurnInv

\* A call that goes on keeps its number.
LEMMA TurnMoves == ASSUME TurnInv, NoLines, CallMoves \/ CallStays PROVE TurnInv'
<1>1. /\ UNCHANGED <<unread, owed, answers>>
      /\ work' = work \/ (work # NoWork /\ work' # NoWork /\ work'.id = work.id)
  BY DEF NoLines, CallMoves, CallStays, Working, NoWork
<1>2. Calling' = Calling /\ Wanting' = Wanting BY <1>1 DEF Calling, Wanting
<1>3. UnreadInv' BY <1>1 DEF TurnInv, UnreadInv
<1>4. OwedInv' BY <1>1, <1>2 DEF TurnInv, OwedInv
<1>5. NumberInv'
  <2>1. /\ work # NoWork => work.id = Len(answers) + 1 /\ owed[Len(answers) + 1] = work.id
        /\ Wanting = 1 => owed[Len(owed)] = AnswerId(Head(unread)) /\ Head(unread).id = Len(owed)
    BY DEF TurnInv, NumberInv
  <2> QED BY <1>1, <1>2, <2>1 DEF NumberInv
<1> QED BY <1>3, <1>4, <1>5 DEF TurnInv

\* A line that wants an answer is owed one, behind the others.
LEMMA TurnWrites == ASSUME TurnInv, ClientWrites PROVE TurnInv'
<1>1. PICK line \in LineOf(Len(owed) + 1) :
        /\ unread' = <<line>>
        /\ owed' = owed \o (IF Wants(line) THEN <<AnswerId(line)>> ELSE <<>>)
  BY DEF ClientWrites, LineOf
<1>2. unread = <<>> /\ UNCHANGED <<answers, work>> BY DEF ClientWrites
<1>3. /\ answers \in Seq(Nat) /\ owed \in Seq(Nat) /\ Len(owed) \in Nat /\ Len(answers) \in Nat
      /\ Len(owed) = Len(answers) + Calling
      /\ \A i \in 1..Len(answers) : owed[i] = answers[i]
      /\ work # NoWork => work.id = Len(answers) + 1 /\ owed[Len(answers) + 1] = work.id
  BY <1>2 DEF TurnInv, OwedInv, NumberInv, Wanting, Calling
<1>4. line.id = Len(owed) + 1 /\ AnswerId(line) \in Nat
  BY <1>3, LineFacts DEF AnswerId
<1>5. Head(unread') = line /\ unread' # <<>> BY <1>1
<1>6. Calling' = Calling /\ Calling \in {0, 1} /\ (Calling = 1 <=> work # NoWork)
  BY <1>2 DEF Calling
<1>7. UnreadInv' BY <1>1, <1>3 DEF UnreadInv
<1>8. CASE Wants(line)
  <2>1. /\ owed' \in Seq(Nat) /\ Len(owed') = Len(owed) + 1
        /\ \A i \in 1..Len(owed) : owed'[i] = owed[i]
        /\ owed'[Len(owed) + 1] = AnswerId(line)
    <3>1. owed' = owed \o <<AnswerId(line)>> BY <1>1, <1>8
    <3>2. owed' = Append(owed, AnswerId(line)) BY <1>3, <1>4, <3>1
    <3> QED BY <1>3, <1>4, <3>2
  <2>2. Wanting' = 1 BY <1>5, <1>8 DEF Wanting, Wants, Oversized
  <2>3. OwedInv'
    <3>1. \A i \in 1..Len(answers) : owed'[i] = answers[i]
      BY <1>3, <1>6, <2>1
    <3> QED BY <1>2, <1>3, <1>6, <2>1, <2>2, <3>1 DEF OwedInv
  <2>4. NumberInv'
    <3>1. work # NoWork => Len(answers) + 1 \in 1..Len(owed) BY <1>3, <1>6
    <3> QED BY <1>2, <1>3, <1>4, <1>5, <2>1, <3>1 DEF NumberInv, AnswerId, Oversized
  <2> QED BY <1>7, <2>3, <2>4 DEF TurnInv
<1>9. CASE ~Wants(line)
  <2>1. owed' = owed BY <1>1, <1>3, <1>9
  <2>2. Wanting' = 0 BY <1>5, <1>9 DEF Wanting, Wants, Oversized
  <2>3. OwedInv' BY <1>2, <1>3, <1>6, <2>1, <2>2 DEF OwedInv
  <2>4. NumberInv' BY <1>2, <1>3, <2>1, <2>2 DEF NumberInv
  <2> QED BY <1>7, <2>3, <2>4 DEF TurnInv
<1> QED BY <1>8, <1>9

\* The server reads a line: there is none after it, and what it was owed is
\* answered, becomes the call in flight, or was nothing.
LEMMA LineIsRead ==
  ASSUME TurnInv, ReadOversized \/ ReadSilently \/ ReadAnswered \/ ReadCall
  PROVE  /\ work = NoWork /\ unread # <<>> /\ unread' = <<>> /\ owed' = owed
         /\ ~Wants(Head(unread)) => UNCHANGED <<answers, work, reply>>
         /\ Wants(Head(unread)) =>
              \/ answers' = Append(answers, AnswerId(Head(unread))) /\ work' = NoWork
              \/ /\ answers' = answers /\ work' # NoWork
                 /\ work'.id = AnswerId(Head(unread)) /\ work'.id = Head(unread).id
<1>1. work = NoWork /\ unread # <<>> /\ unread' = Tail(unread) /\ owed' = owed
  BY DEF ReadOversized, ReadSilently, ReadAnswered, ReadCall, Discarded
<1>2. PICK id \in Nat : \E line \in LineOf(id) : unread = <<line>>
  BY <1>1 DEF TurnInv, UnreadInv
<1>3. PICK line \in LineOf(id) : unread = <<line>> BY <1>2
<1>4. Head(unread) = line /\ Tail(unread) = <<>> BY <1>3
<1>5. CASE ReadOversized
  <2>1. Oversized(line) /\ Answer(0, "invalid") BY <1>4, <1>5 DEF ReadOversized
  <2>2. answers' = Append(answers, 0) /\ work' = NoWork BY <2>1 DEF Answer
  <2>3. Wants(line) /\ AnswerId(line) = 0 BY <2>1 DEF Wants, AnswerId
  <2> QED BY <1>1, <1>4, <2>2, <2>3
<1>6. CASE ReadSilently BY <1>1, <1>4, <1>6 DEF ReadSilently
<1>7. CASE ReadAnswered
  <2>1. ~Oversized(line) /\ Wants(line)
    BY <1>4, <1>7 DEF ReadAnswered
  <2>2. \/ line.sort = "garbage" /\ Answer(0, "unparsable")
        \/ line.sort = "initialize" /\ Answer(line.id, "result")
        \/ line.sort = "call" /\ Answer(line.id, "malformed")
    BY <1>4, <1>7 DEF ReadAnswered
  <2>3. answers' = Append(answers, AnswerId(line)) /\ work' = NoWork
    <3>1. CASE line.sort = "garbage" /\ Answer(0, "unparsable")
      BY <3>1 DEF Answer, AnswerId
    <3>2. CASE line.sort # "garbage" /\ \E says : Answer(line.id, says)
      BY <2>1, <3>2 DEF Answer, AnswerId
    <3> QED BY <2>2, <3>1, <3>2
  <2> QED BY <1>1, <1>4, <2>1, <2>3
<1>8. CASE ReadCall
  <2>1. line.sort = "call" /\ answers' = answers BY <1>4, <1>8 DEF ReadCall
  <2>2. work' # NoWork /\ work'.id = line.id BY <1>4, <1>8 DEF ReadCall, NoWork
  <2>3. ~Oversized(line) BY <2>1, LineFacts
  <2>4. Wants(line) /\ AnswerId(line) = line.id BY <2>1, <2>3 DEF Wants, AnswerId
  <2> QED BY <1>1, <1>4, <2>1, <2>2, <2>4
<1> QED BY <1>5, <1>6, <1>7, <1>8

\* A line that is read gives its turn to the answer, or to the call.
LEMMA TurnReads ==
  ASSUME TurnInv, ReadOversized \/ ReadSilently \/ ReadAnswered \/ ReadCall
  PROVE  TurnInv'
<1> DEFINE line == Head(unread)
<1>1. /\ work = NoWork /\ unread # <<>> /\ unread' = <<>> /\ owed' = owed
      /\ ~Wants(line) => UNCHANGED <<answers, work>>
      /\ Wants(line) =>
           \/ answers' = Append(answers, AnswerId(line)) /\ work' = NoWork
           \/ answers' = answers /\ work' # NoWork /\ work'.id = AnswerId(line) /\ work'.id = line.id
  BY LineIsRead
<1>2. /\ answers \in Seq(Nat) /\ owed \in Seq(Nat) /\ Len(owed) \in Nat /\ Len(answers) \in Nat
      /\ Len(owed) = Len(answers) + Wanting
      /\ \A i \in 1..Len(answers) : owed[i] = answers[i]
      /\ Wanting = IF Wants(line) THEN 1 ELSE 0
      /\ Wanting = 1 => owed[Len(owed)] = AnswerId(line) /\ line.id = Len(owed)
  BY <1>1 DEF TurnInv, OwedInv, NumberInv, Wanting, Calling
<1> HIDE DEF line
<1>3. Wanting' = 0 /\ UnreadInv' BY <1>1 DEF Wanting, UnreadInv
<1>4. CASE UNCHANGED <<answers, work>> /\ ~Wants(line)
  <2>1. Calling' = 0 BY <1>1, <1>4 DEF Calling
  <2>2. OwedInv' BY <1>1, <1>2, <1>3, <1>4, <2>1 DEF OwedInv
  <2>3. NumberInv' BY <1>1, <1>3, <1>4 DEF NumberInv
  <2> QED BY <1>3, <2>2, <2>3 DEF TurnInv
<1>5. CASE Wants(line) /\ answers' = Append(answers, AnswerId(line)) /\ work' = NoWork
  <2>1. Calling' = 0 /\ Len(owed) = Len(answers) + 1 /\ owed[Len(answers) + 1] = AnswerId(line)
    BY <1>2, <1>5 DEF Calling
  <2>2. AnswerId(line) \in Nat BY <1>2, <2>1
  <2>3. /\ answers' \in Seq(Nat) /\ Len(answers') = Len(answers) + 1
        /\ \A i \in 1..Len(answers) : answers'[i] = answers[i]
        /\ answers'[Len(answers) + 1] = AnswerId(line)
    BY <1>2, <1>5, <2>2
  <2>4. \A i \in 1..Len(answers') : owed[i] = answers'[i]
    <3> SUFFICES ASSUME NEW i \in 1..Len(answers') PROVE owed[i] = answers'[i]
      OBVIOUS
    <3>1. i \in 1..Len(answers) \/ i = Len(answers) + 1 BY <1>2, <2>3
    <3> QED BY <1>2, <2>1, <2>3, <3>1
  <2>5. OwedInv' BY <1>1, <1>2, <1>3, <2>1, <2>3, <2>4 DEF OwedInv
  <2>6. NumberInv'
    <3>1. Wanting' = 0 /\ work' = NoWork BY <1>3, <1>5
    <3>2. Wanting' # 1 BY <3>1
    <3>3. (work # NoWork => work.id = Len(answers) + 1 /\ owed[Len(answers) + 1] = work.id)'
      BY <3>1 DEF NoWork
    <3>4. (Wanting = 1 => owed[Len(owed)] = AnswerId(Head(unread)) /\ Head(unread).id = Len(owed))'
      BY <3>2
    <3> QED BY <3>3, <3>4, Zenon DEF NumberInv
  <2> QED BY <1>3, <2>5, <2>6 DEF TurnInv
<1>6. CASE /\ Wants(line) /\ answers' = answers /\ work' # NoWork
           /\ work'.id = AnswerId(line) /\ work'.id = line.id
  <2>1. Calling' = 1 BY <1>6 DEF Calling
  <2>2. Len(owed) = Len(answers) + 1 /\ owed[Len(owed)] = AnswerId(line) /\ line.id = Len(owed)
    BY <1>2, <1>6
  <2>3. OwedInv' BY <1>1, <1>2, <1>3, <1>6, <2>1, <2>2 DEF OwedInv
  <2>4. NumberInv'
    <3>1. Wanting' # 1 BY <1>3
    <3>2. work'.id = Len(answers') + 1 /\ owed'[Len(answers') + 1] = work'.id
      BY <1>1, <1>6, <2>2
    <3> QED BY <3>1, <3>2, Zenon DEF NumberInv
  <2> QED BY <1>3, <2>3, <2>4 DEF TurnInv
<1> QED BY <1>1, <1>4, <1>5, <1>6

\* Every step keeps the turns.
LEMMA TurnNext == TurnInv /\ [McpNext]_mcpVars => TurnInv'
<1> SUFFICES ASSUME TurnInv, [McpNext]_mcpVars PROVE TurnInv'
  OBVIOUS
<1>1. CASE ClientWrites BY <1>1, TurnWrites
<1>2. CASE ReadOversized \/ ReadSilently \/ ReadAnswered \/ ReadCall BY <1>2, TurnReads
<1>3. CASE \/ CallNobody \/ CallGui \/ GuiAnswers \/ GuiGoes \/ GuiSwitches \/ TimedOut
           \/ StartProbe \/ StartEnds \/ ChildIsUp \/ Tick
  <2>1. NoLines /\ (CallEnds \/ CallMoves \/ CallStays) BY <1>3, CallSteps
  <2> QED BY <2>1, TurnEnds, TurnMoves
<1>4. CASE UNCHANGED mcpVars
  <2>1. NoLines /\ CallStays BY <1>4 DEF mcpVars, NoLines, CallStays
  <2> QED BY <2>1, TurnMoves
<1> QED BY <1>1, <1>2, <1>3, <1>4 DEF McpNext

\* What is owed begins with what was answered, and an idle server with
\* nothing to read owes nothing.
LEMMA TurnsAreInOrder == TurnInv => AnswersInOrder
<1> SUFFICES ASSUME TurnInv PROVE AnswersInOrder
  OBVIOUS
<1>1. /\ answers \in Seq(Nat) /\ owed \in Seq(Nat) /\ Len(owed) \in Nat /\ Len(answers) \in Nat
      /\ Len(owed) = Len(answers) + Calling + Wanting
      /\ \A i \in 1..Len(answers) : owed[i] = answers[i]
      /\ Calling \in {0, 1} /\ Wanting \in {0, 1}
  <2>1. TurnInv => /\ answers \in Seq(Nat) /\ owed \in Seq(Nat)
                   /\ Len(owed) = Len(answers) + Calling + Wanting
                   /\ \A i \in 1..Len(answers) : owed[i] = answers[i]
    BY DEF TurnInv, OwedInv
  <2>2. Calling \in {0, 1} /\ Wanting \in {0, 1} BY DEF Calling, Wanting
  <2> QED BY <2>1, <2>2
<1>2. IsPrefix(answers, owed)
  <2>1. Len(answers) <= Len(owed) BY <1>1
  <2>2. SubSeq(answers, 1, Len(answers)) = SubSeq(owed, 1, Len(answers))
    <3>1. /\ SubSeq(answers, 1, Len(answers)) \in Seq(Nat)
          /\ Len(SubSeq(answers, 1, Len(answers))) = Len(answers)
          /\ \A i \in 1..Len(answers) : SubSeq(answers, 1, Len(answers))[i] = answers[i]
      BY <1>1
    <3>2. /\ SubSeq(owed, 1, Len(answers)) \in Seq(Nat)
          /\ Len(SubSeq(owed, 1, Len(answers))) = Len(answers)
          /\ \A i \in 1..Len(answers) : SubSeq(owed, 1, Len(answers))[i] = owed[i]
      <4>1. \A i \in 1..Len(answers) : i \in 1..Len(owed) BY <1>1, <2>1
      <4>2. \A i \in 1..Len(answers) : owed[i] \in Nat BY <1>1, <4>1
      <4> QED BY <1>1, <4>2, SubSeqProperties
    <3> QED BY <1>1, <3>1, <3>2, SeqEqual
  <2> QED BY <2>1, <2>2 DEF IsPrefix
<1>3. work = NoWork /\ unread = <<>> => answers = owed
  <2> SUFFICES ASSUME work = NoWork, unread = <<>> PROVE answers = owed
    OBVIOUS
  <2>1. Len(owed) = Len(answers) BY <1>1 DEF Calling, Wanting
  <2> QED BY <1>1, <2>1, SeqEqual
<1> QED BY <1>2, <1>3 DEF AnswersInOrder

\* No two arguments of a call travel under one key.
Keys(tool, args) == {WireKey(tool, id) : id \in DOMAIN args}
Plain(tool, args) ==
  [key \in Keys(tool, args) |->
     LET id == CHOOSE i \in DOMAIN args : WireKey(tool, i) = key
     IN Coerce(KindOf[id], args[id])]

\* The value that travels is that of the argument it came from.
LEMMA ArgumentsTravel ==
  ASSUME NEW tool, NEW args, DOMAIN args \subseteq ArgumentsOf(tool)
  PROVE  /\ DOMAIN Plain(tool, args) = Keys(tool, args)
         /\ \A id \in DOMAIN args :
              Plain(tool, args)[WireKey(tool, id)] = Coerce(KindOf[id], args[id])
         /\ "refused" \notin Keys(tool, args)
         /\ tool = "new-pane" =>
              /\ "type" \in Keys(tool, args) <=> "pane_type" \in DOMAIN args
              /\ "focus" \in Keys(tool, args) <=> "focus" \in DOMAIN args
              /\ "tags" \in Keys(tool, args) <=> "tags" \in DOMAIN args
         /\ tool = "vault-weight" =>
              /\ "weight" \in Keys(tool, args) <=> "weight" \in DOMAIN args
              /\ "clear" \in Keys(tool, args) <=> "clear" \in DOMAIN args
<1>1. DOMAIN args \subseteq {"pane_type", "focus", "tags", "argv", "weight", "clear", "timeout_ms"}
  BY DEF ArgumentsOf
<1>2. \A id \in DOMAIN args :
        WireKey(tool, id) = IF tool = "new-pane" /\ id = "pane_type" THEN "type" ELSE id
  BY DEF WireKey
<1>3. \A i, j \in DOMAIN args : WireKey(tool, i) = WireKey(tool, j) => i = j
  BY <1>1, <1>2
<1>4. ASSUME NEW id \in DOMAIN args
      PROVE  Plain(tool, args)[WireKey(tool, id)] = Coerce(KindOf[id], args[id])
  <2>1. WireKey(tool, id) \in Keys(tool, args) BY DEF Keys
  <2>2. (CHOOSE i \in DOMAIN args : WireKey(tool, i) = WireKey(tool, id)) = id
    BY <1>3
  <2> QED BY <2>1, <2>2 DEF Plain
<1>5. DOMAIN Plain(tool, args) = Keys(tool, args) BY DEF Plain
<1>6. "refused" \notin Keys(tool, args) BY <1>1, <1>2 DEF Keys
<1>7. tool = "new-pane" =>
        /\ "type" \in Keys(tool, args) <=> "pane_type" \in DOMAIN args
        /\ "focus" \in Keys(tool, args) <=> "focus" \in DOMAIN args
        /\ "tags" \in Keys(tool, args) <=> "tags" \in DOMAIN args
  BY <1>1, <1>2 DEF Keys
<1>8. tool = "vault-weight" =>
        /\ "weight" \in Keys(tool, args) <=> "weight" \in DOMAIN args
        /\ "clear" \in Keys(tool, args) <=> "clear" \in DOMAIN args
  BY <1>1, <1>2 DEF Keys
<1> QED BY <1>4, <1>5, <1>6, <1>7, <1>8

\* Whatever the arguments of a call are, the window's handler makes of its
\* parameters what the client meant, unless the call is refused as malformed.
LEMMA MeaningIsKept ==
  ASSUME NEW tool, NEW args, ~Malformed(WireParams(tool, args))
  PROVE  Handled(tool, WireParams(tool, args)) = Meant(tool, args)
<1> DEFINE plain == Plain(tool, args)
<1>1. /\ DOMAIN args \subseteq ArgumentsOf(tool)
      /\ WireParams(tool, args) = IF tool = "vault-weight" THEN WeightRule(plain) ELSE plain
  <2>1. Malformed([refused |-> Refusal]) BY DEF Malformed
  <2>2. WireParams(tool, args) =
          IF \/ ~(DOMAIN args \subseteq ArgumentsOf(tool))
             \/ \E id \in DOMAIN args : Coerce(KindOf[id], args[id]) = Refusal
            THEN [refused |-> Refusal]
            ELSE IF tool = "vault-weight" THEN WeightRule(plain) ELSE plain
    BY Zenon DEF WireParams, Plain, Keys
  <2> HIDE DEF plain
  <2> QED BY <2>1, <2>2, Zenon
<1>2. /\ DOMAIN plain = Keys(tool, args)
      /\ \A id \in DOMAIN args : plain[WireKey(tool, id)] = Coerce(KindOf[id], args[id])
      /\ tool = "new-pane" =>
           /\ "type" \in DOMAIN plain <=> "pane_type" \in DOMAIN args
           /\ "focus" \in DOMAIN plain <=> "focus" \in DOMAIN args
           /\ "tags" \in DOMAIN plain <=> "tags" \in DOMAIN args
      /\ tool = "vault-weight" =>
           /\ "weight" \in DOMAIN plain <=> "weight" \in DOMAIN args
           /\ "clear" \in DOMAIN plain <=> "clear" \in DOMAIN args
  BY <1>1, ArgumentsTravel
<1> HIDE DEF plain
<1>3. CASE tool = "new-pane"
  <2>1. Handled(tool, plain) =
          [type |-> ReadsKey(plain, "type", "default"), focus |-> ReadsKey(plain, "focus", "true"),
           tags |-> ReadsKey(plain, "tags", "none")]
    BY <1>3 DEF Handled
  <2>2. /\ WireKey(tool, "pane_type") = "type" /\ WireKey(tool, "focus") = "focus"
        /\ WireKey(tool, "tags") = "tags"
    BY <1>3 DEF WireKey
  <2>3. ReadsKey(plain, "type", "default") =
          IF "pane_type" \in DOMAIN args THEN Coerce(KindOf["pane_type"], args["pane_type"]) ELSE "default"
    BY <1>2, <1>3, <2>2 DEF ReadsKey
  <2>4. ReadsKey(plain, "focus", "true") =
          IF "focus" \in DOMAIN args THEN Coerce(KindOf["focus"], args["focus"]) ELSE "true"
    BY <1>2, <1>3, <2>2 DEF ReadsKey
  <2>5. ReadsKey(plain, "tags", "none") =
          IF "tags" \in DOMAIN args THEN Coerce(KindOf["tags"], args["tags"]) ELSE "none"
    BY <1>2, <1>3, <2>2 DEF ReadsKey
  <2> QED BY <1>1, <1>3, <2>1, <2>3, <2>4, <2>5 DEF Meant
<1>4. CASE tool = "vault-weight"
  <2> DEFINE named == "weight" \in DOMAIN args
             clears == "clear" \in DOMAIN args /\ Coerce(KindOf["clear"], args["clear"]) = "true"
  <2>1. WireKey(tool, "weight") = "weight" /\ WireKey(tool, "clear") = "clear"
    BY <1>4 DEF WireKey
  <2>2. /\ named => plain["weight"] = Coerce(KindOf["weight"], args["weight"])
        /\ "clear" \in DOMAIN args => plain["clear"] = Coerce(KindOf["clear"], args["clear"])
    BY <1>2, <2>1
  <2>3. WeightRule(plain) =
          CASE named /\ ~clears -> [weight |-> plain["weight"]]
            [] ~named /\ clears -> [weight |-> "null"]
            [] OTHER -> [refused |-> Refusal]
    BY <1>2, <1>4, <2>2 DEF WeightRule
  <2>4. Malformed([refused |-> Refusal]) BY DEF Malformed
  <2>5. Meant(tool, args) =
          [weight |-> IF clears THEN "null"
                      ELSE IF named THEN Coerce(KindOf["weight"], args["weight"]) ELSE Refusal]
    BY <1>4 DEF Meant
  <2>6. ASSUME NEW w PROVE Handled(tool, [weight |-> w]) = [weight |-> w]
    BY <1>4 DEF Handled, ReadsKey
  <2>7. CASE named /\ ~clears
    <3>1. WireParams(tool, args) = [weight |-> plain["weight"]] BY <1>1, <1>4, <2>3, <2>7
    <3> QED BY <2>2, <2>5, <2>6, <2>7, <3>1
  <2>8. CASE ~named /\ clears
    <3>1. WireParams(tool, args) = [weight |-> "null"] BY <1>1, <1>4, <2>3, <2>8
    <3> QED BY <2>5, <2>6, <2>8, <3>1
  <2>9. (named /\ ~clears) \/ (~named /\ clears)
    BY <1>1, <1>4, <2>3, <2>4
  <2> QED BY <2>7, <2>8, <2>9
<1>5. CASE tool \notin {"new-pane", "vault-weight"}
  <2>1. Meant(tool, args) = NoArgs BY <1>5 DEF Meant
  <2>2. Handled(tool, WireParams(tool, args)) = NoArgs BY <1>5 DEF Handled
  <2> QED BY <2>1, <2>2
<1> QED BY <1>3, <1>4, <1>5

\* What is asked of the window is what the client meant, and every request and
\* deed carries the number of an answer that is given or owed for a call.
Faithful(r) == Handled(r.tool, r.params) = r.meant

AskedInv ==
  /\ \A r \in accepted : Faithful(r)
  /\ work # NoWork => Faithful(work)
  /\ \A d \in deeds : d.did = d.meant

NumbersInv ==
  /\ \A r \in accepted \cup deeds : r.id \in Nat /\ r.id <= Len(answers) + Calling
  /\ reply.says = "malformed" =>
       /\ reply.id \in Nat /\ reply.id <= Len(answers)
       /\ \A r \in accepted \cup deeds : r.id # reply.id

CallInv == AskedInv /\ NumbersInv

\* Nothing is asked at first.
LEMMA CallInit == McpInit => CallInv
<1> SUFFICES ASSUME McpInit PROVE CallInv
  OBVIOUS
<1>1. accepted = {} /\ deeds = {} /\ work = NoWork /\ reply.says = "nothing"
  BY DEF McpInit
<1> QED BY <1>1 DEF CallInv, AskedInv, NumbersInv

\* A request the window accepts is the call in flight, or was accepted before;
\* what it does is what a request asks for.
Requests == \A r \in accepted' :
  \/ \E q \in accepted : r.id = q.id /\ r.tool = q.tool /\ r.params = q.params /\ r.meant = q.meant
  \/ /\ work # NoWork /\ work' # NoWork
     /\ r.id = work.id /\ r.tool = work.tool /\ r.params = work.params /\ r.meant = work.meant
Deeds == \A d \in deeds' :
  d \in deeds \/ \E q \in accepted : d.id = q.id /\ d.meant = q.meant /\ d.did = Handled(q.tool, q.params)

\* Every step of a call, of the window or of the clock does no more.
LEMMA CallRequests ==
  ASSUME \/ CallNobody \/ CallGui \/ GuiAnswers \/ GuiGoes \/ GuiSwitches \/ TimedOut
         \/ StartProbe \/ StartEnds \/ ChildIsUp \/ Tick
  PROVE  Requests /\ Deeds
<1>1. ASSUME accepted' \subseteq accepted, deeds' = deeds PROVE Requests /\ Deeds
  BY <1>1 DEF Requests, Deeds
<1>2. CASE CallNobody \/ GuiSwitches \/ TimedOut \/ StartProbe \/ StartEnds \/ ChildIsUp
  BY <1>1, <1>2 DEF CallNobody, GuiSwitches, TimedOut, StartProbe, StartEnds, ChildIsUp
<1>3. CASE GuiGoes BY <1>1, <1>3 DEF GuiGoes
<1>4. CASE CallGui
  <2>1. PICK r : r = [id |-> work.id, tool |-> work.tool, params |-> work.params,
                      meant |-> work.meant, wait |-> work.wait, age |-> 0]
    OBVIOUS
  <2>2. accepted' = accepted \cup {r} /\ deeds' = deeds /\ work # NoWork
    BY <1>4, <2>1 DEF CallGui, Busy
  <2>3. work' # NoWork BY <1>4 DEF CallGui, Working, NoWork
  <2>4. r.id = work.id /\ r.tool = work.tool /\ r.params = work.params /\ r.meant = work.meant
    BY <2>1
  <2> QED BY <2>2, <2>3, <2>4 DEF Requests, Deeds
<1>5. CASE GuiAnswers
  <2>1. PICK r \in accepted, ok \in BOOLEAN :
          /\ accepted' = accepted \ {r}
          /\ deeds' = IF ok THEN deeds \cup {[id |-> r.id, meant |-> r.meant,
                                              did |-> Handled(r.tool, r.params)]} ELSE deeds
    BY <1>5 DEF GuiAnswers
  <2>2. PICK d : d = [id |-> r.id, meant |-> r.meant, did |-> Handled(r.tool, r.params)]
    OBVIOUS
  <2>3. d.id = r.id /\ d.meant = r.meant /\ d.did = Handled(r.tool, r.params)
    BY <2>2
  <2>4. accepted' \subseteq accepted /\ deeds' \subseteq deeds \cup {d} BY <2>1, <2>2
  <2> QED BY <2>3, <2>4 DEF Requests, Deeds
<1>6. CASE Tick
  <2>1. accepted' = {Waited(r) : r \in accepted} /\ deeds' = deeds BY <1>6 DEF Tick
  <2>2. ASSUME NEW q \in accepted
        PROVE  /\ Waited(q).id = q.id /\ Waited(q).tool = q.tool
               /\ Waited(q).params = q.params /\ Waited(q).meant = q.meant
    BY DEF Waited
  <2> QED BY <2>1, <2>2 DEF Requests, Deeds
<1> QED BY <1>2, <1>3, <1>4, <1>5, <1>6

\* So what was asked stays what was meant, and a refused call stays unasked.
LEMMA CallGoesOn ==
  ASSUME TurnInv, CallInv, Requests, Deeds, CallEnds \/ CallMoves \/ CallStays
  PROVE  CallInv'
<1>1. /\ Len(answers) \in Nat /\ Calling \in {0, 1} /\ (Calling = 1 <=> work # NoWork)
      /\ answers \in Seq(Nat)
      /\ work # NoWork => work.id = Len(answers) + 1
  BY DEF TurnInv, OwedInv, NumberInv, Calling
<1>2. /\ \A r \in accepted \cup deeds : r.id \in Nat /\ r.id <= Len(answers) + Calling
      /\ reply.says = "malformed" =>
           /\ reply.id \in Nat /\ reply.id <= Len(answers)
           /\ \A r \in accepted \cup deeds : r.id # reply.id
  BY DEF CallInv, NumbersInv
<1>3. /\ Len(answers') \in Nat /\ Len(answers') + Calling' = Len(answers) + Calling
      /\ Len(answers') >= Len(answers)
      /\ reply' = reply \/ reply'.says # "malformed"
      /\ work' # NoWork => /\ work # NoWork
                           /\ work'.tool = work.tool /\ work'.params = work.params
                           /\ work'.meant = work.meant
  <2>1. CASE CallEnds
    <3>1. Len(answers') = Len(answers) + 1 /\ Calling = 1 /\ Calling' = 0 /\ work' = NoWork
      BY <1>1, <2>1 DEF CallEnds, Calling
    <3> QED BY <1>1, <2>1, <3>1 DEF CallEnds
  <2>2. CASE CallMoves
    <3>1. work # NoWork /\ UNCHANGED <<answers, reply>> BY <2>2 DEF CallMoves
    <3>2. /\ work' # NoWork /\ work'.tool = work.tool /\ work'.params = work.params
          /\ work'.meant = work.meant
      BY <2>2 DEF CallMoves, Working, NoWork
    <3>3. Calling' = Calling BY <3>1, <3>2 DEF Calling
    <3> QED BY <1>1, <3>1, <3>2, <3>3
  <2>3. CASE CallStays
    <3>1. UNCHANGED <<answers, reply, work>> BY <2>3 DEF CallStays
    <3>2. Calling' = Calling BY <3>1 DEF Calling
    <3> QED BY <1>1, <3>1, <3>2
  <2> QED BY <2>1, <2>2, <2>3
<1>4. \A r \in accepted' \cup deeds' :
        (\E q \in accepted \cup deeds : r.id = q.id) \/ (work # NoWork /\ r.id = work.id)
  BY DEF Requests, Deeds
<1>5. AskedInv'
  <2>1. /\ \A r \in accepted : Faithful(r)
        /\ work # NoWork => Faithful(work)
        /\ \A d \in deeds : d.did = d.meant
    BY DEF CallInv, AskedInv
  <2>2. \A r \in accepted' : Faithful(r) BY <2>1 DEF Requests, Faithful
  <2>3. work' # NoWork => Faithful(work') BY <1>3, <2>1 DEF Faithful
  <2>4. \A d \in deeds' : d.did = d.meant BY <2>1 DEF Deeds, Faithful
  <2> QED BY <2>2, <2>3, <2>4 DEF AskedInv, Faithful
<1>6. NumbersInv'
  <2>1. \A r \in accepted' \cup deeds' : r.id \in Nat /\ r.id <= Len(answers') + Calling'
    BY <1>1, <1>2, <1>3, <1>4
  <2>2. ASSUME reply'.says = "malformed"
        PROVE  /\ reply'.id \in Nat /\ reply'.id <= Len(answers')
               /\ \A r \in accepted' \cup deeds' : r.id # reply'.id
    <3>1. reply' = reply BY <1>3, <2>2
    <3>2. reply.id \in Nat /\ reply.id <= Len(answers) /\ \A r \in accepted \cup deeds : r.id # reply.id
      BY <1>2, <2>2, <3>1
    <3>3. work # NoWork => work.id # reply.id BY <1>1, <3>2
    <3> QED BY <1>1, <1>3, <1>4, <3>1, <3>2, <3>3
  <2> QED BY <2>1, <2>2 DEF NumbersInv
<1> QED BY <1>5, <1>6 DEF CallInv

\* A line that is read asks nothing of the window yet.
LEMMA CallReads ==
  ASSUME TurnInv, CallInv, ReadOversized \/ ReadSilently \/ ReadAnswered \/ ReadCall
  PROVE  CallInv'
<1>1. /\ work = NoWork /\ UNCHANGED <<accepted, deeds>>
  BY DEF ReadOversized, ReadSilently, ReadAnswered, ReadCall
<1>2. /\ Len(answers) \in Nat /\ Calling = 0 /\ answers \in Seq(Nat)
      /\ \A r \in accepted \cup deeds : r.id \in Nat /\ r.id <= Len(answers)
      /\ reply.says = "malformed" =>
           /\ reply.id \in Nat /\ reply.id <= Len(answers)
           /\ \A r \in accepted \cup deeds : r.id # reply.id
  <2>1. Len(answers) \in Nat /\ answers \in Seq(Nat) BY DEF TurnInv, OwedInv
  <2>2. Calling = 0 BY <1>1 DEF Calling
  <2> QED BY <2>1, <2>2 DEF CallInv, NumbersInv
<1>3. (\A r \in accepted : Faithful(r)) /\ (\A d \in deeds : d.did = d.meant)
  BY DEF CallInv, AskedInv
<1>4. Calling' \in {0, 1} BY DEF Calling
<1>5. CASE UNCHANGED <<answers, reply>> /\ (work' # NoWork => Faithful(work'))
  <2>1. AskedInv' BY <1>1, <1>3, <1>5 DEF AskedInv, Faithful
  <2>2. NumbersInv' BY <1>1, <1>2, <1>4, <1>5 DEF NumbersInv
  <2> QED BY <2>1, <2>2 DEF CallInv
<1>6. ASSUME NEW n \in Nat, NEW says, Answer(n, says), says = "malformed" => n = Len(answers) + 1
      PROVE  CallInv'
  <2>1. work' = NoWork /\ reply'.says = says /\ reply'.id = n /\ Len(answers') = Len(answers) + 1
    BY <1>2, <1>6 DEF Answer
  <2>2. AskedInv' BY <1>1, <1>3, <2>1 DEF AskedInv, Faithful
  <2>3. NumbersInv'
    <3>1. \A r \in accepted \cup deeds : r.id \in Nat /\ r.id <= Len(answers') + Calling'
      BY <1>2, <1>4, <2>1
    <3>2. ASSUME says = "malformed"
          PROVE  /\ n \in Nat /\ n <= Len(answers')
                 /\ \A r \in accepted \cup deeds : r.id # n
      BY <1>2, <1>6, <2>1, <3>2
    <3> QED BY <1>1, <2>1, <3>1, <3>2 DEF NumbersInv
  <2> QED BY <2>2, <2>3 DEF CallInv
<1>7. CASE ReadOversized
  <2>1. Answer(0, "invalid") BY <1>7 DEF ReadOversized
  <2> QED BY <1>6, <2>1
<1>8. CASE ReadSilently
  BY <1>1, <1>5, <1>8 DEF ReadSilently
<1>9. ASSUME unread # <<>>
      PROVE  \E id \in Nat : \E line \in LineOf(id) : unread = <<line>> /\ line.id = id
                             /\ (Wants(line) => id = Len(answers) + 1)
  <2>1. PICK id \in Nat : \E line \in LineOf(id) : unread = <<line>>
    BY <1>9 DEF TurnInv, UnreadInv
  <2>2. PICK line \in LineOf(id) : unread = <<line>> BY <2>1
  <2>3. line.id = id /\ Head(unread) = line BY <2>2, LineFacts
  <2>4. Wants(line) => id = Len(answers) + 1
    <3>1. Wants(line) => Wanting = 1 BY <1>9, <2>3 DEF Wanting
    <3>2. Wanting = 1 => line.id = Len(answers) + 1
      BY <1>2, <2>3 DEF TurnInv, OwedInv, NumberInv
    <3> QED BY <2>3, <3>1, <3>2
  <2> QED BY <2>2, <2>3, <2>4
<1>10. CASE ReadAnswered
  <2>1. PICK id \in Nat : \E line \in LineOf(id) : unread = <<line>> /\ line.id = id
                             /\ (Wants(line) => id = Len(answers) + 1)
    BY <1>9, <1>10 DEF ReadAnswered
  <2>2. PICK line \in LineOf(id) : unread = <<line>> /\ line.id = id
                             /\ (Wants(line) => id = Len(answers) + 1)
    BY <2>1
  <2>3. Head(unread) = line BY <2>2
  <2>4. /\ Wants(line)
        /\ \/ Answer(0, "unparsable") \/ Answer(line.id, "result") \/ Answer(line.id, "malformed")
    BY <1>10, <2>3 DEF ReadAnswered
  <2> QED BY <1>6, <2>2, <2>4
<1>11. CASE ReadCall
  <2>1. UNCHANGED <<answers, reply>> BY <1>11 DEF ReadCall
  <2>2. PICK line : /\ line.tool \in Local \/ ~Malformed(WireParams(line.tool, line.args))
                    /\ work'.tool = line.tool
                    /\ work'.meant = Meant(line.tool, line.args)
                    /\ work'.params = IF line.tool \in Local THEN NoArgs
                                      ELSE WireParams(line.tool, line.args)
    BY <1>11 DEF ReadCall
  <2>3. CASE line.tool \in Local
    <3>1. Meant(line.tool, line.args) = NoArgs /\ Handled(line.tool, NoArgs) = NoArgs
      BY <2>3 DEF Local, Meant, Handled
    <3> QED BY <1>5, <2>1, <2>2, <2>3, <3>1 DEF Faithful
  <2>4. CASE line.tool \notin Local
    <3>1. Handled(line.tool, WireParams(line.tool, line.args)) = Meant(line.tool, line.args)
      BY <2>2, <2>4, MeaningIsKept
    <3> QED BY <1>5, <2>1, <2>2, <2>4, <3>1 DEF Faithful
  <2> QED BY <2>3, <2>4
<1> QED BY <1>7, <1>8, <1>10, <1>11

\* Every step keeps what is asked.
LEMMA CallNext == TurnInv /\ CallInv /\ [McpNext]_mcpVars => CallInv'
<1> SUFFICES ASSUME TurnInv, CallInv, [McpNext]_mcpVars PROVE CallInv'
  OBVIOUS
<1>1. CASE ClientWrites
  <2>1. Requests /\ Deeds /\ CallStays
    BY <1>1 DEF ClientWrites, Requests, Deeds, CallStays
  <2> QED BY <2>1, CallGoesOn
<1>2. CASE ReadOversized \/ ReadSilently \/ ReadAnswered \/ ReadCall BY <1>2, CallReads
<1>3. CASE \/ CallNobody \/ CallGui \/ GuiAnswers \/ GuiGoes \/ GuiSwitches \/ TimedOut
           \/ StartProbe \/ StartEnds \/ ChildIsUp \/ Tick
  BY <1>3, CallSteps, CallRequests, CallGoesOn
<1>4. CASE UNCHANGED mcpVars
  <2>1. Requests /\ Deeds /\ CallStays BY <1>4 DEF mcpVars, Requests, Deeds, CallStays
  <2> QED BY <2>1, CallGoesOn
<1> QED BY <1>1, <1>2, <1>3, <1>4 DEF McpNext

\* The steps of the composition leave the tools alone or are the tools' own.
LEMMA ToolsStep == [MCNext]_mcVars => [McpNext]_mcpVars
BY DEF MCNext, mcVars, InEvents, InFeed, InState, InTools

\* A tool call is answered once, in its turn and under its own id, whatever
\* becomes of the window meanwhile, and the window acts on what the client
\* asked for and on nothing it did not say.
THEOREM CallsAreAnsweredInTurn == MCSpec => []ToolCallsAreSound
<1>1. MCInit => TurnInv /\ CallInv BY TurnInit, CallInit DEF MCInit
<1>2. TurnInv /\ CallInv /\ [MCNext]_mcVars => TurnInv' /\ CallInv'
  BY ToolsStep, TurnNext, CallNext
<1>3. TurnInv /\ CallInv => ToolCallsAreSound
  <2>1. CallInv => CallsMeanWhatTheySay
    BY DEF CallInv, AskedInv, NumbersInv, CallsMeanWhatTheySay
  <2> QED BY <2>1, TurnsAreInOrder DEF ToolCallsAreSound
<1> QED BY <1>1, <1>2, <1>3, PTL DEF MCSpec

----------------------------------------------------------------------------
\* The event feed: what waits in a slot is the newest, in a row.

InARow(q, upto, given) ==
  /\ Len(q) <= MaxQueuedEvents
  /\ \A i \in 1..Len(q) : q[i] = upto - Len(q) + i
  /\ upto - Len(q) = given \/ (Len(q) = MaxQueuedEvents /\ upto - Len(q) > given)
FeedTyped ==
  /\ slots \subseteq Clients /\ emitted \in Int
  /\ waiting \in [Clients -> Seq(Int)] /\ seen \in [Clients -> Int]
FeedInv == FeedTyped /\ \A c \in slots : InARow(waiting[c], emitted, seen[c])

\* A new slot has been given everything so far.
LEMMA NothingWaits ==
  ASSUME NEW upto \in Int
  PROVE  <<>> \in Seq(Int) /\ InARow(<<>>, upto, upto)
<1>1. <<>> \in Seq(Int) /\ Len(<<>>) = 0 /\ 1..0 = {}
  OBVIOUS
<1> QED BY <1>1, SubscriptionBoundsAssumption DEF InARow

\* A full queue loses its oldest event to the new one.
LEMMA EnqueuedInARow ==
  ASSUME NEW q \in Seq(Int), NEW upto \in Int, NEW given \in Int, InARow(q, upto, given)
  PROVE  /\ Enqueue(q, upto + 1) \in Seq(Int)
         /\ InARow(Enqueue(q, upto + 1), upto + 1, given)
<1> DEFINE k == IF Len(q) >= MaxQueuedEvents THEN Tail(q) ELSE q
           r == Append(k, upto + 1)
<1>1. /\ Len(q) \in Nat /\ Len(q) <= MaxQueuedEvents /\ MaxQueuedEvents \in Nat \ {0}
      /\ \A i \in 1..Len(q) : q[i] = upto - Len(q) + i
      /\ upto - Len(q) = given \/ (Len(q) = MaxQueuedEvents /\ upto - Len(q) > given)
  BY SubscriptionBoundsAssumption DEF InARow
<1>2. CASE Len(q) = MaxQueuedEvents
  <2>1. q # <<>> BY <1>1, <1>2
  <2>2. k = Tail(q) BY <1>1, <1>2
  <2>3. k \in Seq(Int) /\ Len(k) = Len(q) - 1 /\ \A i \in 1..Len(k) : k[i] = q[i + 1]
    BY <2>1, <2>2
  <2> HIDE DEF k
  <2>4. r \in Seq(Int) /\ Len(r) = Len(k) + 1 /\ (\A i \in 1..Len(k) : r[i] = k[i]) /\ r[Len(k) + 1] = upto + 1
    BY <2>3
  <2> HIDE DEF r
  <2>5. Len(r) = Len(q)
    BY <1>1, <2>3, <2>4
  <2>6. ASSUME NEW i \in 1..Len(r) PROVE r[i] = (upto + 1) - Len(r) + i
    <3>1. CASE i = Len(r) BY <1>1, <2>3, <2>4, <2>5, <3>1
    <3>2. CASE i # Len(r)
      <4>1. i \in 1..Len(k) /\ i + 1 \in 1..Len(q) BY <1>1, <2>3, <2>5, <3>2
      <4>2. r[i] = q[i + 1] BY <2>3, <2>4, <4>1
      <4>3. q[i + 1] = upto - Len(q) + (i + 1) BY <1>1, <4>1
      <4> QED BY <1>1, <2>5, <4>2, <4>3
    <3> QED BY <3>1, <3>2
  <2>7. Len(r) = MaxQueuedEvents /\ (upto + 1) - Len(r) > given
    BY <1>1, <1>2, <2>5
  <2>8. r = Enqueue(q, upto + 1) BY DEF Enqueue, r, k
  <2> QED BY <1>1, <2>4, <2>6, <2>7, <2>8 DEF InARow
<1>3. CASE Len(q) # MaxQueuedEvents
  <2>1. k = q BY <1>1, <1>3
  <2> HIDE DEF k
  <2>2. r \in Seq(Int) /\ Len(r) = Len(q) + 1 /\ (\A i \in 1..Len(q) : r[i] = q[i]) /\ r[Len(q) + 1] = upto + 1
    BY <2>1
  <2> HIDE DEF r
  <2>3. ASSUME NEW i \in 1..Len(r) PROVE r[i] = (upto + 1) - Len(r) + i
    <3>1. CASE i = Len(r) BY <1>1, <2>2, <3>1
    <3>2. CASE i # Len(r)
      <4>1. i \in 1..Len(q) BY <1>1, <2>2, <3>2
      <4>2. r[i] = upto - Len(q) + i BY <1>1, <2>2, <4>1
      <4> QED BY <1>1, <2>2, <4>1, <4>2
    <3> QED BY <3>1, <3>2
  <2>4. Len(r) <= MaxQueuedEvents /\ (upto + 1) - Len(r) = given
    BY <1>1, <1>3, <2>2
  <2>5. r = Enqueue(q, upto + 1) BY DEF Enqueue, r, k
  <2> QED BY <2>2, <2>3, <2>4, <2>5 DEF InARow
<1> QED BY <1>2, <1>3

\* A poll takes the oldest; its last is the last one given.
LEMMA PolledInARow ==
  ASSUME NEW q \in Seq(Int), NEW upto \in Int, NEW given \in Int, InARow(q, upto, given),
         NEW n \in 0..Len(q)
  PROVE  /\ SubSeq(q, n + 1, Len(q)) \in Seq(Int)
         /\ InARow(SubSeq(q, n + 1, Len(q)), upto, IF n = 0 THEN given ELSE q[n])
         /\ (IF n = 0 THEN given ELSE q[n]) \in Int
<1> DEFINE r == SubSeq(q, n + 1, Len(q))
<1> SUFFICES /\ r \in Seq(Int)
             /\ InARow(r, upto, IF n = 0 THEN given ELSE q[n])
             /\ (IF n = 0 THEN given ELSE q[n]) \in Int
  OBVIOUS
<1>1. /\ Len(q) \in Nat /\ Len(q) <= MaxQueuedEvents /\ MaxQueuedEvents \in Nat \ {0}
      /\ \A i \in 1..Len(q) : q[i] = upto - Len(q) + i
      /\ upto - Len(q) = given \/ (Len(q) = MaxQueuedEvents /\ upto - Len(q) > given)
  BY SubscriptionBoundsAssumption DEF InARow
<1>2. r \in Seq(Int) /\ Len(r) = Len(q) - n /\ \A i \in 1..Len(r) : r[i] = q[n + i]
  BY <1>1, SubSeqProperties
<1> HIDE DEF r
<1>3. ASSUME NEW i \in 1..Len(r) PROVE r[i] = upto - Len(r) + i
  <2>1. n + i \in 1..Len(q) BY <1>1, <1>2
  <2>2. r[i] = upto - Len(q) + (n + i) BY <1>1, <1>2, <2>1
  <2> QED BY <1>1, <1>2, <2>2
<1>4. CASE n = 0
  BY <1>1, <1>2, <1>3, <1>4 DEF InARow
<1>5. CASE n # 0
  <2>1. q[n] = upto - Len(q) + n BY <1>1, <1>5
  <2>2. Len(r) <= MaxQueuedEvents /\ upto - Len(r) = q[n] /\ q[n] \in Int BY <1>1, <1>2, <2>1
  <2> QED BY <1>2, <1>3, <1>5, <2>2 DEF InARow
<1> QED BY <1>4, <1>5

\* No slot is taken at first.
LEMMA FeedInit == SubscriptionsInit => FeedInv
<1> SUFFICES ASSUME SubscriptionsInit PROVE FeedInv
  OBVIOUS
<1>1. <<>> \in Seq(Int) OBVIOUS
<1> QED BY <1>1 DEF SubscriptionsInit, FeedInv, FeedTyped

\* Slots that were not touched keep what waits in them.
LEMMA KeptInARow ==
  ASSUME FeedInv
  PROVE  /\ Cleared(waiting, <<>>) \in [Clients -> Seq(Int)] /\ Cleared(seen, 0) \in [Clients -> Int]
         /\ Kept \subseteq slots
         /\ \A c \in Kept : Cleared(waiting, <<>>)[c] = waiting[c] /\ Cleared(seen, 0)[c] = seen[c]
<1>1. <<>> \in Seq(Int) OBVIOUS
<1> QED BY <1>1 DEF FeedInv, FeedTyped, Cleared, Kept

\* A slot taken or refused: the idle ones go.
LEMMA FeedSubscribe ==
  ASSUME FeedInv, NEW c \in Clients, Subscribe(c) \/ SubscribeRefused(c)
  PROVE  FeedInv'
<1>1. CASE SubscribeRefused(c)
  <2>1. slots' = Kept /\ waiting' = Cleared(waiting, <<>>) /\ seen' = Cleared(seen, 0) /\ emitted' = emitted
    BY <1>1 DEF SubscribeRefused, Release
  <2> QED BY <2>1, KeptInARow DEF FeedInv, FeedTyped
<1>2. CASE Subscribe(c)
  <2> DEFINE w == Cleared(waiting, <<>>)
             s == Cleared(seen, 0)
  <2>1. /\ slots' = Kept \union {c} /\ waiting' = [w EXCEPT ![c] = <<>>]
        /\ seen' = [s EXCEPT ![c] = emitted] /\ emitted' = emitted
    BY <1>2 DEF Subscribe
  <2>2. /\ w \in [Clients -> Seq(Int)] /\ s \in [Clients -> Int] /\ Kept \subseteq slots
        /\ \A d \in Kept : w[d] = waiting[d] /\ s[d] = seen[d]
    BY KeptInARow
  <2> HIDE DEF w, s
  <2>3. FeedTyped /\ emitted \in Int BY DEF FeedInv, FeedTyped
  <2>4. <<>> \in Seq(Int) /\ InARow(<<>>, emitted, emitted) BY <2>3, NothingWaits
  <2>5. FeedTyped' BY <2>1, <2>2, <2>3, <2>4 DEF FeedTyped
  <2>6. ASSUME NEW d \in slots' PROVE InARow(waiting'[d], emitted', seen'[d])
    <3>1. CASE d = c
      BY <2>1, <2>2, <2>4, <3>1
    <3>2. CASE d # c
      <4>1. d \in Kept /\ d \in slots /\ d \in Clients BY <2>1, <2>2, <2>3, <3>2 DEF FeedTyped
      <4>2. waiting'[d] = waiting[d] /\ seen'[d] = seen[d] BY <2>1, <2>2, <3>2, <4>1
      <4> QED BY <2>1, <4>1, <4>2 DEF FeedInv
    <3> QED BY <3>1, <3>2
  <2> QED BY <2>5, <2>6 DEF FeedInv
<1> QED BY <1>1, <1>2

\* An event goes to every slot that is kept.
LEMMA FeedEmit == ASSUME FeedInv, Emit PROVE FeedInv'
<1>1. /\ emitted' = emitted + 1 /\ slots' = Kept /\ seen' = Cleared(seen, 0)
      /\ waiting' = [c \in Clients |-> IF c \in Kept THEN Enqueue(waiting[c], emitted + 1) ELSE <<>>]
  BY DEF Emit
<1>2. Cleared(seen, 0) \in [Clients -> Int] /\ Kept \subseteq slots /\ \A c \in Kept : Cleared(seen, 0)[c] = seen[c]
  BY KeptInARow
<1>3. ASSUME NEW c \in Kept
      PROVE  Enqueue(waiting[c], emitted + 1) \in Seq(Int) /\ InARow(Enqueue(waiting[c], emitted + 1), emitted + 1, seen[c])
  <2>1. c \in slots /\ c \in Clients /\ waiting[c] \in Seq(Int) /\ seen[c] \in Int /\ emitted \in Int
    BY <1>2 DEF FeedInv, FeedTyped
  <2>2. InARow(waiting[c], emitted, seen[c]) BY <2>1 DEF FeedInv
  <2> QED BY <2>1, <2>2, EnqueuedInARow
<1>4. Kept \subseteq Clients /\ emitted + 1 \in Int BY <1>2 DEF FeedInv, FeedTyped
<1>5. <<>> \in Seq(Int) OBVIOUS
<1>6. FeedTyped' BY <1>1, <1>2, <1>3, <1>4, <1>5 DEF FeedTyped
<1>7. ASSUME NEW c \in slots' PROVE InARow(waiting'[c], emitted', seen'[c])
  <2>1. c \in Kept /\ c \in Clients BY <1>1, <1>4
  <2>2. waiting'[c] = Enqueue(waiting[c], emitted + 1) /\ seen'[c] = seen[c] BY <1>1, <1>2, <2>1
  <2> QED BY <1>1, <1>3, <2>1, <2>2
<1> QED BY <1>6, <1>7 DEF FeedInv

\* A poll takes the oldest of one slot.
LEMMA FeedPoll ==
  ASSUME FeedInv, NEW c \in Clients, NEW limit \in 0..MaxQueuedEvents, Poll(c, limit)
  PROVE  FeedInv'
<1>1. PICK n : /\ n = IF limit < Len(waiting[c]) THEN limit ELSE Len(waiting[c])
               /\ waiting' = [waiting EXCEPT ![c] = SubSeq(@, n + 1, Len(@))]
               /\ seen' = [seen EXCEPT ![c] = IF n = 0 THEN @ ELSE waiting[c][n]]
  BY DEF Poll
<1>2. c \in slots /\ slots' = slots /\ emitted' = emitted BY DEF Poll
<1>3. FeedTyped /\ waiting[c] \in Seq(Int) /\ seen[c] \in Int /\ emitted \in Int
  BY DEF FeedInv, FeedTyped
<1>4. n \in 0..Len(waiting[c]) BY <1>1, <1>3, SubscriptionBoundsAssumption
<1>5. InARow(waiting[c], emitted, seen[c]) BY <1>2 DEF FeedInv
<1>6. /\ SubSeq(waiting[c], n + 1, Len(waiting[c])) \in Seq(Int)
      /\ InARow(SubSeq(waiting[c], n + 1, Len(waiting[c])), emitted, IF n = 0 THEN seen[c] ELSE waiting[c][n])
      /\ (IF n = 0 THEN seen[c] ELSE waiting[c][n]) \in Int
  BY <1>3, <1>4, <1>5, PolledInARow
<1>7. /\ waiting'[c] = SubSeq(waiting[c], n + 1, Len(waiting[c]))
      /\ seen'[c] = IF n = 0 THEN seen[c] ELSE waiting[c][n]
      /\ \A d \in Clients \ {c} : waiting'[d] = waiting[d] /\ seen'[d] = seen[d]
  BY <1>1, <1>3 DEF FeedTyped
<1>8. FeedTyped' BY <1>1, <1>2, <1>3, <1>6 DEF FeedTyped
<1>9. ASSUME NEW d \in slots' PROVE InARow(waiting'[d], emitted', seen'[d])
  <2>1. CASE d = c BY <1>2, <1>6, <1>7, <2>1
  <2>2. CASE d # c
    <3>1. d \in slots /\ d \in Clients \ {c} BY <1>2, <1>3, <2>2 DEF FeedTyped
    <3> QED BY <1>2, <1>7, <3>1 DEF FeedInv
  <2> QED BY <2>1, <2>2
<1> QED BY <1>8, <1>9 DEF FeedInv

\* Every step keeps the rows.
LEMMA FeedNext == FeedInv /\ [SubscriptionsNext]_subscriptionVars => FeedInv'
<1> SUFFICES ASSUME FeedInv, [SubscriptionsNext]_subscriptionVars PROVE FeedInv'
  OBVIOUS
<1>1. CASE Emit BY <1>1, FeedEmit
<1>2. ASSUME NEW c \in Clients, Subscribe(c) \/ SubscribeRefused(c) PROVE FeedInv'
  BY <1>2, FeedSubscribe
<1>3. ASSUME NEW c \in Clients, NEW limit \in 0..MaxQueuedEvents, Poll(c, limit) PROVE FeedInv'
  BY <1>3, FeedPoll
<1>4. ASSUME UNCHANGED <<slots, waiting, emitted, seen>> PROVE FeedInv'
  BY <1>4 DEF FeedInv, FeedTyped, InARow
<1>5. CASE Pass \/ \E c \in Clients : PollUnknown(c) \/ Start(c) \/ Vanish(c)
  BY <1>4, <1>5 DEF Pass, PollUnknown, Start, Vanish
<1>6. CASE UNCHANGED subscriptionVars
  BY <1>4, <1>6 DEF subscriptionVars
<1> QED BY <1>1, <1>2, <1>3, <1>5, <1>6 DEF SubscriptionsNext

\* The rows end with the newest event.
LEMMA RowsAreTheFeed == FeedInv => FeedEndsWithTheNewest
<1> SUFFICES ASSUME FeedInv, NEW c \in slots
             PROVE  LET q == waiting[c] IN
                    /\ q = [i \in 1..Len(q) |-> emitted - Len(q) + i]
                    /\ emitted - Len(q) = seen[c] \/ (Len(q) = MaxQueuedEvents /\ emitted - Len(q) > seen[c])
  BY DEF FeedEndsWithTheNewest
<1>1. waiting[c] \in Seq(Int) /\ InARow(waiting[c], emitted, seen[c])
  BY DEF FeedInv, FeedTyped
<1> QED BY <1>1 DEF InARow

----------------------------------------------------------------------------
\* The event socket: every queued event has a terminal, none is lost, and
\* only late ones are refused.

Event == [id: Nat, session: Nat, run: Nat, seq: Nat, bytes: Nat]
WeightsOf(q) == [i \in 1..Len(q) |-> q[i].bytes]

\* Weights are numbers.
LEMMA WeightsAreNumbers ==
  ASSUME NEW q \in Seq(Event)
  PROVE  WeightsOf(q) \in [1..Len(q) -> Int]
<1>1. ASSUME NEW i \in 1..Len(q) PROVE q[i].bytes \in Int
  <2>1. q[i] \in Event OBVIOUS
  <2> QED BY <2>1 DEF Event
<1> QED BY <1>1 DEF WeightsOf

\* The bytes of a queue are the total over its places.
LEMMA BytesTotal ==
  ASSUME NEW q \in Seq(Event)
  PROVE  \A g : Additive(g, WeightsOf(q), 1..Len(q)) => BytesOf(q) = g[1..Len(q)]
<1>0. SUFFICES ASSUME NEW g, Additive(g, WeightsOf(q), 1..Len(q)) PROVE BytesOf(q) = g[1..Len(q)]
  BY Zenon
<1> DEFINE w == WeightsOf(q)
           T == DOMAIN q
           it == CHOOSE f : f = [x \in SUBSET T |->
                   IF x = {} THEN 0 ELSE q[CHOOSE y \in x : TRUE].bytes + f[x \ {CHOOSE y \in x : TRUE}]]
<1>1. T = 1..Len(q) /\ Len(q) \in Nat
  OBVIOUS
<1>2. IsFiniteSet(T)
  BY <1>1, FS_Interval
<1>3. BytesOf(q) = it[T]
  BY Zenon DEF BytesOf, FoldSeq, FoldFunction, FoldFunctionOnSet, MapThenFoldSet
<1>4. \A c \in T : w[c] = q[c].bytes /\ w[c] \in Int
  <2>1. ASSUME NEW c \in T PROVE w[c] = q[c].bytes /\ w[c] \in Int
    <3>1. q[c] \in Event BY <1>1
    <3> QED BY <1>1, <3>1 DEF Event, WeightsOf
  <2> QED BY <2>1
<1>5. Additive(g, w, T)
  BY <1>0, <1>1
<1>6. \A x \in SUBSET T : x # {} => (CHOOSE y \in x : TRUE) \in x
  OBVIOUS
<1> HIDE DEF T, w
<1>7. g = [x \in SUBSET T |->
             IF x = {} THEN 0 ELSE q[CHOOSE y \in x : TRUE].bytes + g[x \ {CHOOSE y \in x : TRUE}]]
  <2>1. g = [x \in SUBSET T |-> g[x]] /\ g[{}] = 0
    BY <1>5 DEF Additive
  <2>2. ASSUME NEW x \in SUBSET T, x # {}
        PROVE  g[x] = q[CHOOSE y \in x : TRUE].bytes + g[x \ {CHOOSE y \in x : TRUE}]
    <3> DEFINE c == CHOOSE y \in x : TRUE
    <3>1. c \in x /\ c \in T BY <1>6, <2>2
    <3> HIDE DEF c
    <3>2. g[x] = w[c] + g[x \ {c}] /\ w[c] = q[c].bytes
      BY <1>4, <1>5, <3>1 DEF Additive
    <3> QED BY <3>2 DEF c
  <2> QED BY <2>1, <2>2
<1>8. it = [x \in SUBSET T |->
              IF x = {} THEN 0 ELSE q[CHOOSE y \in x : TRUE].bytes + it[x \ {CHOOSE y \in x : TRUE}]]
  BY <1>7, Zenon
<1> HIDE DEF it
<1>9. it[T] = g[T]
  <2>1. it[{}] = 0 BY <1>8
  <2>2. \A s \in SUBSET T : s # {} => \E c \in s : \/ it[s] = w[c] + it[s \ {c}]
                                                   \/ it[s] = it[s \ {c}] + w[c]
    <3> SUFFICES ASSUME NEW s \in SUBSET T, s # {} PROVE \E c \in s : it[s] = w[c] + it[s \ {c}]
      OBVIOUS
    <3> DEFINE c == CHOOSE y \in s : TRUE
    <3>1. c \in s /\ c \in T BY <1>6
    <3>2. it[s] = q[c].bytes + it[s \ {c}] BY <1>8
    <3> HIDE DEF c
    <3>3. w[c] = q[c].bytes BY <1>4, <3>1
    <3> QED BY <3>1, <3>2, <3>3
  <2>3. \A c \in T : w[c] \in Int BY <1>4
  <2> QED BY <1>2, <1>5, <2>1, <2>2, <2>3, FoldIsTotal
<1> QED BY <1>1, <1>3, <1>9

\* Its bytes are a number, none for no events.
LEMMA BytesAreCounted ==
  ASSUME NEW q \in Seq(Event)
  PROVE  BytesOf(q) \in Int /\ (q = <<>> => BytesOf(q) = 0)
<1> DEFINE w == WeightsOf(q)
<1>1. Len(q) \in Nat /\ w \in [1..Len(q) -> Int]
  BY WeightsAreNumbers
<1> HIDE DEF w
<1>2. PICK g : Additive(g, w, 1..Len(q)) BY <1>1, AdditiveExists
<1>3. BytesOf(q) = g[1..Len(q)] BY <1>2, BytesTotal DEF w
<1>4. 1..Len(q) \in SUBSET (1..Len(q)) OBVIOUS
<1>5. g[1..Len(q)] \in Int BY <1>2, <1>4 DEF Additive
<1>6. ASSUME q = <<>> PROVE g[1..Len(q)] = 0
  <2>1. 1..Len(q) = {} BY <1>6
  <2> QED BY <1>2, <2>1 DEF Additive
<1> QED BY <1>3, <1>5, <1>6

\* One more event is its bytes more.
LEMMA BytesAppended ==
  ASSUME NEW q \in Seq(Event), NEW r \in Event
  PROVE  BytesOf(Append(q, r)) = BytesOf(q) + r.bytes
<1> DEFINE p == Append(q, r)
           w == WeightsOf(q)
           v == WeightsOf(p)
<1>1. p \in Seq(Event) /\ Len(q) \in Nat /\ Len(p) = Len(q) + 1 /\ p[Len(p)] = r
      /\ \A i \in 1..Len(q) : p[i] = q[i]
  OBVIOUS
<1> HIDE DEF p
<1>2. w \in [1..Len(q) -> Int] /\ v \in [1..Len(p) -> Int]
  BY <1>1, WeightsAreNumbers
<1>3. v[Len(p)] = r.bytes /\ \A i \in 1..Len(q) : w[i] = v[i]
  BY <1>1 DEF WeightsOf
<1> HIDE DEF w, v
<1>4. PICK g : Additive(g, w, 1..Len(q)) BY <1>1, <1>2, AdditiveExists
<1>5. PICK h : Additive(h, v, 1..Len(p))
  <2>1. Len(p) \in Nat BY <1>1
  <2> QED BY <1>2, <2>1, AdditiveExists
<1>6. BytesOf(q) = g[1..Len(q)] BY <1>4, BytesTotal DEF w
<1>7. BytesOf(p) = h[1..Len(p)] BY <1>1, <1>5, BytesTotal DEF v
<1>8. h[1..Len(p)] = v[Len(p)] + h[1..(Len(p) - 1)] BY <1>1, <1>5, AdditivePrefix
<1>9. Len(p) - 1 = Len(q) BY <1>1
<1>10. g[1..Len(q)] = h[1..Len(q)] BY <1>1, <1>3, <1>4, <1>5, AdditiveAgree
<1>11. BytesOf(q) \in Int /\ r.bytes \in Int BY BytesAreCounted DEF Event
<1>12. BytesOf(p) = BytesOf(q) + r.bytes BY <1>3, <1>6, <1>7, <1>8, <1>9, <1>10, <1>11
<1> QED BY <1>12 DEF p

\* What was queued for other sessions.
Others(s) == {e \in Event : e.session # s /\ \E i \in DOMAIN events : events[i] = e}

\* A purge leaves only that.
LEMMA PurgedAreOthers ==
  ASSUME NEW s
  PROVE  events \in Seq(Event) => Purge(s) \in Seq(Others(s))
<1>a. SUFFICES ASSUME events \in Seq(Event) PROVE Purge(s) \in Seq(Others(s))
  OBVIOUS
<1>0. PICK q : q = events /\ q \in Seq(Event) BY <1>a
<1> DEFINE T == DOMAIN q
           E == {q[i] : i \in T}
           B == {e \in E : e.session # s}
           A == Seq(B)
           op == [p \in A \X E |-> IF p[2].session = s THEN p[1] ELSE Append(p[1], p[2])]
           it == CHOOSE f : f = [x \in SUBSET T |->
                   IF x = {} THEN <<>>
                   ELSE IF q[Max(x)].session = s THEN f[x \ {Max(x)}]
                                                 ELSE Append(f[x \ {Max(x)}], q[Max(x)])]
<1>1. T = 1..Len(q) /\ Len(q) \in Nat /\ q \in [1..Len(q) -> E]
  BY <1>0
<1>2. Purge(s) = it[T]
  BY <1>0, Zenon DEF Purge, FoldLeft, MapThenFoldSet
<1>3. \A x \in SUBSET T : x # {} => Max(x) \in x
  <2>1. ASSUME NEW x \in SUBSET T, x # {} PROVE x \in SUBSET (0..Len(q))
    BY <1>1
  <2> QED BY <1>1, <2>1, MaxOfNats, Zenon
<1> HIDE DEF T, A, E
<1>4. /\ op \in [A \X E -> A] /\ <<>> \in A
      /\ \A k \in A, e \in E : op[<<k, e>>] = IF e.session = s THEN k ELSE Append(k, e)
  <2>1. \A k \in A, e \in E : (IF e.session = s THEN k ELSE Append(k, e)) \in A BY DEF A
  <2>2. <<>> \in A BY DEF A
  <2> HIDE DEF B
  <2>3. \A p \in A \X E : p[1] \in A /\ p[2] \in E OBVIOUS
  <2>4. \A p \in A \X E : (IF p[2].session = s THEN p[1] ELSE Append(p[1], p[2])) \in A BY <2>1, <2>3
  <2>5. \A k \in A, e \in E : <<k, e>> \in A \X E OBVIOUS
  <2> QED BY <2>2, <2>4, <2>5
<1> HIDE DEF op, B
<1>5. PICK g \in [SUBSET T -> A] :
           /\ g[{}] = <<>>
           /\ \A x \in SUBSET T : x # {} => g[x] = op[<<g[x \ {Max(x)}], q[Max(x)]>>]
  <2>1. \E g : FoldOf(g, op, <<>>, q, Len(q), A)
    BY <1>1, <1>4, FoldExists
  <2> QED BY <1>1, <2>1 DEF FoldOf
<1>6. g = [x \in SUBSET T |->
             IF x = {} THEN <<>>
             ELSE IF q[Max(x)].session = s THEN g[x \ {Max(x)}]
                                           ELSE Append(g[x \ {Max(x)}], q[Max(x)])]
  <2>1. ASSUME NEW x \in SUBSET T, x # {}
        PROVE  g[x] = IF q[Max(x)].session = s THEN g[x \ {Max(x)}]
                                               ELSE Append(g[x \ {Max(x)}], q[Max(x)])
    <3>1. Max(x) \in T BY <1>3, <2>1
    <3>2. q[Max(x)] \in E BY <1>1, <3>1
    <3>3. g[x \ {Max(x)}] \in A BY <1>5
    <3> QED BY <1>4, <1>5, <2>1, <3>2, <3>3
  <2>2. g = [x \in SUBSET T |-> g[x]] BY <1>5
  <2> QED BY <1>5, <2>1, <2>2
<1>7. it = [x \in SUBSET T |->
             IF x = {} THEN <<>>
             ELSE IF q[Max(x)].session = s THEN it[x \ {Max(x)}]
                                           ELSE Append(it[x \ {Max(x)}], q[Max(x)])]
  BY <1>6, Zenon
<1> HIDE DEF it
<1>8. it[{}] \in A BY <1>4, <1>7
<1>9. ASSUME NEW x \in SUBSET T, x # {}, it[x \ {Max(x)}] \in A PROVE it[x] \in A
  <2>1. Max(x) \in T BY <1>3, <1>9
  <2>2. q[Max(x)] \in E BY <1>1, <2>1
  <2>3. it[x] = IF q[Max(x)].session = s THEN it[x \ {Max(x)}] ELSE Append(it[x \ {Max(x)}], q[Max(x)])
    BY <1>7, <1>9
  <2>4. op[<<it[x \ {Max(x)}], q[Max(x)]>>] \in A
    <3>1. <<it[x \ {Max(x)}], q[Max(x)]>> \in A \X E BY <1>9, <2>2
    <3> QED BY <1>4, <3>1
  <2> QED BY <1>4, <1>9, <2>2, <2>3, <2>4
<1>10. it[1..Len(q)] \in A
  <2>1. \A x \in SUBSET (1..Len(q)) : it[x] \in A BY <1>1, <1>8, <1>9, FoldStaysIn
  <2> QED BY <2>1
<1>11. B = Others(s)
  <2>1. E = {events[i] : i \in DOMAIN events} BY <1>0 DEF E, T
  <2>2. \A i \in DOMAIN events : events[i] \in Event BY <1>a
  <2> QED BY <2>1, <2>2 DEF B, Others
<1> QED BY <1>1, <1>2, <1>10, <1>11 DEF A

EventNumber == [session: Nat, run: Nat, seq: Nat]
GuiSteps == {"idle", "closing", "replacing", "spawning"}
EventsTyped ==
  /\ sessionOf \in [Panes -> Nat] /\ spawned \in Nat
  /\ gui \in [step: GuiSteps, pane: Panes \union {"none"}, session: Nat]
  /\ lastSeq \in [Live -> Nat]
  /\ events \in Seq(Event) /\ counters \in [accepted: Nat, drained: Nat]
  /\ uncounted \in SUBSET Event /\ inflight \in SUBSET Event /\ sent \in Nat
  /\ runs \in [Sessions -> Nat] /\ numbered \in [Sessions -> Nat]
  /\ purged \in Int /\ taken \in SUBSET EventNumber

\* Where a session is known: a pane's own, or the one its spawn registered.
OwnSessions == {sessionOf[p] : p \in Panes} \ {0}
SessionsAreOwn ==
  /\ \A p \in Panes : sessionOf[p] <= spawned
  /\ \A p, o \in Panes : sessionOf[p] = sessionOf[o] /\ sessionOf[p] # 0 => p = o
  /\ gui.step # "spawning" => Live = OwnSessions
  /\ gui.step = "spawning" => Live = OwnSessions \union {gui.session}
  /\ gui.step # "idle" =>
       /\ gui.pane \in Panes /\ gui.session \in 1..spawned
       /\ \A p \in Panes : sessionOf[p] # gui.session
  /\ gui.step \in {"replacing", "spawning"} => sessionOf[gui.pane] = 0
QueueIsShown ==
  \A i \in DOMAIN events : \/ events[i].session \in Live
                           \/ gui.step \in {"closing", "replacing"} /\ events[i].session = gui.session

\* A submission is in one place, and its number in the order of sending.
SubmissionsApart ==
  /\ IsFiniteSet(uncounted) /\ inflight \intersect uncounted = {}
  /\ \A e \in inflight \union uncounted : e.id <= sent

\* The last number of a session was taken by an event of it.
LastWasTaken ==
  \A s \in Live : lastSeq[s] = 0 \/ \E a \in taken : a.session = s /\ a.seq = lastSeq[s]

EventInv ==
  /\ EventsTyped /\ SessionsAreOwn /\ QueueIsShown
  /\ SubmissionsApart /\ EventsAccounted
  /\ LastWasTaken /\ StaleMeansLate

\* No session, no event at first.
LEMMA EventsStart == EventsInit => EventInv
<1> SUFFICES ASSUME EventsInit PROVE EventInv
  OBVIOUS
<1>1. <<>> \in Seq(Event) /\ DOMAIN <<>> = {} /\ <<>> \in [{} -> Nat] /\ Len(<<>>) = 0
  OBVIOUS
<1>2. EventsTyped
  BY <1>1 DEF EventsInit, EventsTyped, GuiSteps, Live, Idle
<1>3. SessionsAreOwn
  BY <1>1 DEF EventsInit, SessionsAreOwn, OwnSessions, Live, Idle
<1>4. QueueIsShown /\ LastWasTaken /\ StaleMeansLate
  BY <1>1 DEF EventsInit, QueueIsShown, LastWasTaken, StaleMeansLate, Live
<1>5. SubmissionsApart
  BY FS_EmptySet DEF EventsInit, SubmissionsApart
<1>6. EventsAccounted
  <2>1. BytesOf(<<>>) = 0 BY <1>1, BytesAreCounted
  <2>2. Cardinality({}) = 0 BY FS_EmptySet
  <2> QED BY <1>1, <2>1, <2>2 DEF EventsInit, EventsAccounted
<1> QED BY <1>2, <1>3, <1>4, <1>5, <1>6 DEF EventInv

\* The GUI thread keeps the types.
LEMMA GuiTyped ==
  ASSUME EventInv,
         \/ \E p \in Panes : CloseTerminal(p) \/ ReplaceShell(p) \/ StartShell(p)
         \/ ShellStarted \/ ShellFailed \/ DrainEvents
  PROVE  EventsTyped'
<1>0. EventsTyped /\ SessionsAreOwn BY DEF EventInv
<1>1. CASE \E p \in Panes : CloseTerminal(p) \/ ReplaceShell(p)
  <2>1. PICK p \in Panes, next \in {"closing", "replacing"} : Unregister(p, next)
    BY <1>1 DEF CloseTerminal, ReplaceShell
  <2>2. lastSeq' \in [Live' -> Nat] BY <1>0, <2>1 DEF Unregister, EventsTyped, Forgotten, Live
  <2>3. gui' \in [step: GuiSteps, pane: Panes \union {"none"}, session: Nat]
    BY <1>0, <2>1 DEF Unregister, EventsTyped, GuiSteps
  <2>4. sessionOf' \in [Panes -> Nat] BY <1>0, <2>1 DEF Unregister, EventsTyped
  <2> QED BY <1>0, <2>1, <2>2, <2>3, <2>4 DEF Unregister, EventsTyped, producerVars
<1>2. CASE \E p \in Panes : StartShell(p)
  <2>1. lastSeq' = Registered(spawned + 1) BY <1>2 DEF StartShell
  <2>2. lastSeq' \in [Live' -> Nat] BY <1>0, <2>1 DEF EventsTyped, Registered, Live
  <2>3. PICK p \in Panes : StartShell(p) BY <1>2
  <2>4. gui' \in [step: GuiSteps, pane: Panes \union {"none"}, session: Nat]
    BY <1>0, <2>3 DEF StartShell, EventsTyped, GuiSteps
  <2> QED BY <1>0, <2>2, <2>3, <2>4 DEF StartShell, EventsTyped, producerVars
<1>3. CASE ShellStarted
  BY <1>0, <1>3 DEF ShellStarted, EventsTyped, Live, Idle, GuiSteps, producerVars
<1>4. CASE ShellFailed
  BY <1>0, <1>4 DEF ShellFailed, EventsTyped, Forgotten, Live, GuiSteps, producerVars
<1>5. CASE DrainEvents
  <2>1. <<>> \in Seq(Event) /\ Len(events) \in Nat BY <1>0 DEF EventsTyped
  <2> QED BY <1>0, <1>5, <2>1 DEF DrainEvents, EventsTyped, Live, producerVars
<1> QED BY <1>1, <1>2, <1>3, <1>4, <1>5

\* So does the purge, whose queue is one of others.
LEMMA PurgeTyped ==
  ASSUME EventInv, PurgeEvents
  PROVE  /\ EventsTyped'
         /\ \A i \in DOMAIN events' : /\ events'[i].session # gui.session
                                      /\ \E j \in DOMAIN events : events[j] = events'[i]
<1>0. EventsTyped BY DEF EventInv
<1> DEFINE B == Others(gui.session)
<1>1. events' \in Seq(B)
  BY <1>0, PurgedAreOthers DEF PurgeEvents, EventsTyped
<1>2. events' \in Seq(Event) /\ Len(events') \in Nat /\ Len(events) \in Nat
      /\ \A i \in DOMAIN events' : events'[i] \in B
  <2>1. B \subseteq Event BY DEF Others
  <2>2. PICK p : p = events' BY Zenon
  <2> HIDE DEF B
  <2>3. p \in Seq(Event) /\ Len(p) \in Nat /\ \A i \in DOMAIN p : p[i] \in B BY <1>1, <2>1, <2>2
  <2> QED BY <1>0, <2>2, <2>3 DEF EventsTyped
<1>3. EventsTyped'
  <2>1. purged' \in Int BY <1>0, <1>2 DEF PurgeEvents, EventsTyped
  <2>2. CASE gui.step = "replacing"
    BY SMTT(30), <1>0, <1>2, <2>1, <2>2 DEF PurgeEvents, EventsTyped, Registered, Live, GuiSteps, producerVars
  <2>3. CASE gui.step # "replacing"
    BY SMTT(30), <1>0, <1>2, <2>1, <2>3 DEF PurgeEvents, EventsTyped, Idle, Live, GuiSteps, producerVars
  <2> QED BY <2>2, <2>3
<1> QED BY <1>2, <1>3 DEF Others

\* And the producers.
LEMMA ProducersTyped ==
  ASSUME EventInv, NEW s \in Sessions, NEW b \in Sizes,
         AgentStarts(s) \/ SendEvent(s, b) \/ DeclareState(s)
  PROVE  EventsTyped'
<1>0. EventsTyped BY DEF EventInv
<1>1. s \in Nat /\ b \in Nat BY EventBoundsAssumption DEF Sessions, Sizes
<1>2. CASE AgentStarts(s)
  BY SMTT(30), <1>0, <1>2 DEF AgentStarts, EventsTyped, Live
<1>3. CASE SendEvent(s, b)
  <2>1. [id |-> sent + 1, session |-> s, run |-> runs[s], seq |-> numbered[s] + 1, bytes |-> b] \in Event
    BY <1>0, <1>1 DEF EventsTyped, Event
  <2> QED BY SMTT(30), <1>0, <1>3, <2>1 DEF SendEvent, EventsTyped, Live
<1>4. CASE DeclareState(s)
  <2>1. [id |-> sent + 1, session |-> s, run |-> 0, seq |-> 0, bytes |-> 1] \in Event
    BY <1>0, <1>1 DEF EventsTyped, Event
  <2> QED BY <1>0, <1>4, <2>1 DEF DeclareState, EventsTyped, Live
<1> QED BY <1>2, <1>3, <1>4

\* What a number that is in sequence does.
LEMMA AdvanceFacts ==
  ASSUME EventsTyped, NEW r \in Event, r.session \in Live, Advance(r)
  PROVE  /\ lastSeq' \in [Live -> Nat] /\ Live' = Live
         /\ taken' \in SUBSET EventNumber /\ taken \subseteq taken'
         /\ \A s \in Live : lastSeq'[s] = lastSeq[s] \/ (s = r.session /\ lastSeq'[s] = r.seq)
         /\ lastSeq'[r.session] = lastSeq[r.session]
              \/ \E a \in taken' : a.session = r.session /\ a.seq = lastSeq'[r.session]
<1>1. CASE r.seq = 0
  BY <1>1 DEF Advance, EventsTyped, Live
<1>2. CASE r.seq # 0
  <2>1. lastSeq' = [lastSeq EXCEPT ![r.session] = r.seq] /\ taken' = taken \union {Number(r)}
    BY <1>2 DEF Advance
  <2>2. Number(r) \in EventNumber /\ Number(r).session = r.session /\ Number(r).seq = r.seq /\ r.seq \in Nat
    BY DEF Number, EventNumber, Event
  <2> QED BY <2>1, <2>2 DEF EventsTyped, Live
<1> QED BY <1>1, <1>2

\* And the tasks of the socket.
LEMMA TasksTyped ==
  ASSUME EventInv,
         \/ \E r \in inflight : SubmissionLost(r) \/ RefuseStale(r) \/ RefuseFull(r) \/ Accept(r)
         \/ \E r \in uncounted : Count(r)
  PROVE  EventsTyped'
<1>0. EventsTyped BY DEF EventInv
<1>1. ASSUME NEW r \in inflight, SubmissionLost(r) \/ RefuseStale(r) PROVE EventsTyped'
  BY <1>0, <1>1 DEF SubmissionLost, RefuseStale, EventsTyped, Live
<1>2. ASSUME NEW r \in inflight, RefuseFull(r) PROVE EventsTyped'
  <2>1. r \in Event /\ r.session \in Live /\ Advance(r) BY <1>0, <1>2 DEF RefuseFull, EventsTyped
  <2> QED BY <1>0, <1>2, <2>1, AdvanceFacts DEF RefuseFull, EventsTyped
<1>3. ASSUME NEW r \in inflight, Accept(r) PROVE EventsTyped'
  <2>1. r \in Event /\ r.session \in Live /\ Advance(r) BY <1>0, <1>3 DEF Accept, EventsTyped
  <2>2. Append(events, r) \in Seq(Event) BY <1>0, <2>1 DEF EventsTyped
  <2> QED BY <1>0, <1>3, <2>1, <2>2, AdvanceFacts DEF Accept, EventsTyped
<1>4. ASSUME NEW r \in uncounted, Count(r) PROVE EventsTyped'
  BY <1>0, <1>4 DEF Count, EventsTyped, Live
<1> QED BY <1>1, <1>2, <1>3, <1>4

\* What leaves the GUI thread, the sessions and the queue alone keeps the
\* terminals' part.
LEMMA TerminalsQuiet ==
  ASSUME SessionsAreOwn, QueueIsShown, UNCHANGED <<sessionOf, spawned, gui, events>>, Live' = Live
  PROVE  SessionsAreOwn' /\ QueueIsShown'
<1>1. OwnSessions' = OwnSessions BY DEF OwnSessions
<1>2. SessionsAreOwn' BY <1>1 DEF SessionsAreOwn
<1>3. QueueIsShown' BY DEF QueueIsShown
<1> QED BY <1>2, <1>3

\* A session leaves the table, its events still queued.
LEMMA UnregisterKeepsTerminals ==
  ASSUME EventInv, NEW p \in Panes, NEW next \in {"closing", "replacing"}, Unregister(p, next)
  PROVE  SessionsAreOwn' /\ QueueIsShown'
<1>0. EventsTyped /\ SessionsAreOwn /\ QueueIsShown BY DEF EventInv
<1>1. /\ gui.step = "idle" /\ sessionOf[p] # 0 /\ spawned' = spawned /\ events' = events
      /\ gui' = [step |-> next, pane |-> p, session |-> sessionOf[p]]
      /\ lastSeq' = Forgotten(sessionOf[p]) /\ sessionOf' = [sessionOf EXCEPT ![p] = 0]
  BY DEF Unregister, Idle
<1>2. Live = OwnSessions BY <1>0, <1>1 DEF SessionsAreOwn
<1>3. Live' = Live \ {sessionOf[p]} BY <1>1 DEF Live, Forgotten
<1>4. sessionOf'[p] = 0 /\ \A o \in Panes \ {p} : sessionOf'[o] = sessionOf[o] BY <1>0, <1>1 DEF EventsTyped
<1>5. OwnSessions' = OwnSessions \ {sessionOf[p]}
  <2>1. \A o \in Panes \ {p} : sessionOf[o] # sessionOf[p] BY <1>0, <1>1 DEF SessionsAreOwn
  <2> QED BY <1>4, <2>1 DEF OwnSessions
<1>6. gui'.step = next /\ gui'.pane = p /\ gui'.session = sessionOf[p] BY <1>1
<1>7. sessionOf[p] \in 1..spawned BY <1>0, <1>1 DEF SessionsAreOwn, EventsTyped
<1>8. \A o \in Panes : sessionOf'[o] # sessionOf[p] BY <1>0, <1>1, <1>4 DEF SessionsAreOwn
<1>9. SessionsAreOwn'
  <2>1. \A o \in Panes : sessionOf'[o] <= spawned'
    BY <1>0, <1>1, <1>4 DEF SessionsAreOwn, EventsTyped
  <2>2. \A o, u \in Panes : sessionOf'[o] = sessionOf'[u] /\ sessionOf'[o] # 0 => o = u
    BY <1>0, <1>4 DEF SessionsAreOwn
  <2> QED BY <1>1, <1>2, <1>3, <1>4, <1>5, <1>6, <1>7, <1>8, <2>1, <2>2 DEF SessionsAreOwn
<1>10. QueueIsShown'
  BY <1>0, <1>1, <1>3, <1>6 DEF QueueIsShown
<1> QED BY <1>9, <1>10

\* A new session is nobody's yet.
LEMMA RegisterKeepsSessions ==
  ASSUME EventsTyped, SessionsAreOwn, NEW p \in Panes, sessionOf[p] = 0, gui.step # "spawning",
         gui' = [step |-> "spawning", pane |-> p, session |-> spawned + 1],
         spawned' = spawned + 1, lastSeq' = Registered(spawned + 1), sessionOf' = sessionOf
  PROVE  SessionsAreOwn' /\ Live' = Live \union {spawned + 1}
<1>1. Live' = Live \union {spawned + 1} BY DEF Live, Registered
<1>2. OwnSessions' = OwnSessions BY DEF OwnSessions
<1>3. gui'.step = "spawning" /\ gui'.pane = p /\ gui'.session = spawned + 1 OBVIOUS
<1>4. spawned \in Nat /\ \A o \in Panes : sessionOf[o] \in Nat /\ sessionOf[o] <= spawned
  BY DEF EventsTyped, SessionsAreOwn
<1>5. SessionsAreOwn' BY <1>1, <1>2, <1>3, <1>4 DEF SessionsAreOwn
<1> QED BY <1>1, <1>5

\* The GUI thread's other steps keep the terminals' part.
LEMMA GuiKeepsTerminals ==
  ASSUME EventInv,
         \/ \E p \in Panes : StartShell(p)
         \/ ShellStarted \/ ShellFailed \/ DrainEvents
  PROVE  SessionsAreOwn' /\ QueueIsShown'
<1>0. EventsTyped /\ SessionsAreOwn /\ QueueIsShown BY DEF EventInv
<1>1. CASE \E p \in Panes : StartShell(p)
  <2>1. PICK p \in Panes : StartShell(p) BY <1>1
  <2>2. gui.step = "idle" BY <2>1 DEF StartShell, Idle
  <2>3. SessionsAreOwn' /\ Live' = Live \union {spawned + 1}
    BY <1>0, <2>1, <2>2, RegisterKeepsSessions DEF StartShell
  <2>4. events' = events BY <2>1 DEF StartShell
  <2> QED BY <1>0, <2>2, <2>3, <2>4 DEF QueueIsShown
<1>2. CASE ShellStarted
  <2>1. /\ gui.step = "spawning" /\ spawned' = spawned /\ events' = events /\ lastSeq' = lastSeq
        /\ sessionOf' = [sessionOf EXCEPT ![gui.pane] = gui.session] /\ gui'.step = "idle"
    BY <1>2 DEF ShellStarted, Idle
  <2>2. /\ gui.pane \in Panes /\ gui.session \in 1..spawned /\ sessionOf[gui.pane] = 0
        /\ \A p \in Panes : sessionOf[p] # gui.session
        /\ Live = OwnSessions \union {gui.session}
    BY <1>0, <2>1 DEF SessionsAreOwn
  <2>3. /\ sessionOf'[gui.pane] = gui.session
        /\ \A o \in Panes \ {gui.pane} : sessionOf'[o] = sessionOf[o]
    BY <1>0, <2>1, <2>2 DEF EventsTyped
  <2>4. OwnSessions' = OwnSessions \union {gui.session}
    BY <2>2, <2>3 DEF OwnSessions
  <2>5. Live' = Live BY <2>1 DEF Live
  <2>6. \A p \in Panes : sessionOf'[p] <= spawned'
    BY <1>0, <2>1, <2>2, <2>3 DEF SessionsAreOwn
  <2>7. \A p, o \in Panes : sessionOf'[p] = sessionOf'[o] /\ sessionOf'[p] # 0 => p = o
    BY <1>0, <2>2, <2>3 DEF SessionsAreOwn
  <2>8. SessionsAreOwn' BY <2>1, <2>2, <2>4, <2>5, <2>6, <2>7 DEF SessionsAreOwn
  <2> QED BY <1>0, <2>1, <2>5, <2>8 DEF QueueIsShown
<1>3. CASE ShellFailed
  <2>1. /\ gui.step = "spawning" /\ UNCHANGED <<spawned, events, sessionOf>>
        /\ lastSeq' = Forgotten(gui.session)
        /\ gui' = [step |-> "closing", pane |-> gui.pane, session |-> gui.session]
    BY <1>3 DEF ShellFailed
  <2>2. gui'.step = "closing" /\ gui'.pane = gui.pane /\ gui'.session = gui.session BY <2>1
  <2>3. Live' = Live \ {gui.session} BY <2>1 DEF Live, Forgotten
  <2>4. OwnSessions' = OwnSessions BY <2>1 DEF OwnSessions
  <2>5. gui.session \notin OwnSessions BY <1>0, <2>1 DEF SessionsAreOwn, OwnSessions
  <2>6. Live' = OwnSessions' BY <1>0, <2>1, <2>3, <2>4, <2>5 DEF SessionsAreOwn
  <2>7. SessionsAreOwn' BY <1>0, <2>1, <2>2, <2>6 DEF SessionsAreOwn
  <2> QED BY <1>0, <2>1, <2>2, <2>3, <2>7 DEF QueueIsShown
<1>4. CASE DrainEvents
  <2>1. UNCHANGED <<sessionOf, spawned, gui, lastSeq>> /\ events' = <<>> BY <1>4 DEF DrainEvents
  <2>2. OwnSessions' = OwnSessions /\ Live' = Live BY <2>1 DEF OwnSessions, Live
  <2>3. SessionsAreOwn' BY <1>0, <2>1, <2>2 DEF SessionsAreOwn
  <2> QED BY <2>1, <2>3 DEF QueueIsShown
<1> QED BY <1>1, <1>2, <1>3, <1>4

\* The purge leaves what has a terminal.
LEMMA PurgeKeepsTerminals ==
  ASSUME EventInv, PurgeEvents
  PROVE  SessionsAreOwn' /\ QueueIsShown'
<1>0. EventsTyped /\ SessionsAreOwn /\ QueueIsShown BY DEF EventInv
<1>1. /\ gui.step \in {"closing", "replacing"} /\ sessionOf' = sessionOf
      /\ gui.step = "replacing" =>
           /\ gui' = [step |-> "spawning", pane |-> gui.pane, session |-> spawned + 1]
           /\ spawned' = spawned + 1 /\ lastSeq' = Registered(spawned + 1)
      /\ gui.step # "replacing" => gui'.step = "idle" /\ spawned' = spawned /\ lastSeq' = lastSeq
  BY DEF PurgeEvents, Idle
<1>2. \A i \in DOMAIN events' : /\ events'[i].session # gui.session
                                /\ \E j \in DOMAIN events : events[j] = events'[i]
  BY PurgeTyped
<1>3. \A i \in DOMAIN events' : events'[i].session \in Live
  BY <1>0, <1>2 DEF QueueIsShown
<1>4. CASE gui.step = "replacing"
  <2>1. gui.pane \in Panes /\ sessionOf[gui.pane] = 0 BY <1>0, <1>4 DEF SessionsAreOwn
  <2>2. SessionsAreOwn' /\ Live' = Live \union {spawned + 1}
    BY <1>0, <1>1, <1>4, <2>1, RegisterKeepsSessions
  <2> QED BY <1>3, <2>2 DEF QueueIsShown
<1>5. CASE gui.step # "replacing"
  <2>1. OwnSessions' = OwnSessions /\ Live' = Live BY <1>1, <1>5 DEF OwnSessions, Live
  <2>2. SessionsAreOwn' BY <1>0, <1>1, <1>5, <2>1 DEF SessionsAreOwn
  <2> QED BY <1>3, <2>1, <2>2 DEF QueueIsShown
<1> QED BY <1>4, <1>5

\* The producers and the tasks leave the sessions as they are.
LEMMA TasksKeepTerminals ==
  ASSUME EventInv,
         \/ \E s \in Sessions : AgentStarts(s) \/ DeclareState(s) \/ \E b \in Sizes : SendEvent(s, b)
         \/ \E r \in inflight : SubmissionLost(r) \/ RefuseStale(r) \/ RefuseFull(r) \/ Accept(r)
         \/ \E r \in uncounted : Count(r)
  PROVE  SessionsAreOwn' /\ QueueIsShown'
<1>0. EventsTyped /\ SessionsAreOwn /\ QueueIsShown BY DEF EventInv
<1>1. CASE \E s \in Sessions : AgentStarts(s) \/ DeclareState(s) \/ \E b \in Sizes : SendEvent(s, b)
  <2>1. UNCHANGED <<sessionOf, spawned, gui, events, lastSeq>>
    BY <1>1 DEF AgentStarts, DeclareState, SendEvent
  <2> QED BY <1>0, <2>1, TerminalsQuiet DEF Live
<1>2. CASE \E r \in inflight : SubmissionLost(r) \/ RefuseStale(r)
  <2>1. UNCHANGED <<sessionOf, spawned, gui, events, lastSeq>>
    BY <1>2 DEF SubmissionLost, RefuseStale
  <2> QED BY <1>0, <2>1, TerminalsQuiet DEF Live
<1>3. CASE \E r \in uncounted : Count(r)
  <2>1. UNCHANGED <<sessionOf, spawned, gui, events, lastSeq>>
    BY <1>3 DEF Count
  <2> QED BY <1>0, <2>1, TerminalsQuiet DEF Live
<1>4. CASE \E r \in inflight : RefuseFull(r)
  <2>1. PICK r \in inflight : RefuseFull(r) BY <1>4
  <2>2. r \in Event /\ r.session \in Live /\ Advance(r) /\ UNCHANGED <<sessionOf, spawned, gui, events>>
    BY <1>0, <2>1 DEF RefuseFull, EventsTyped
  <2>3. Live' = Live BY <1>0, <2>2, AdvanceFacts
  <2> QED BY <1>0, <2>2, <2>3, TerminalsQuiet
<1>5. CASE \E r \in inflight : Accept(r)
  <2>1. PICK r \in inflight : Accept(r) BY <1>5
  <2>2. /\ r \in Event /\ r.session \in Live /\ Advance(r) /\ UNCHANGED <<sessionOf, spawned, gui>>
        /\ events' = Append(events, r) /\ events \in Seq(Event)
    BY <1>0, <2>1 DEF Accept, EventsTyped
  <2>3. Live' = Live BY <1>0, <2>2, AdvanceFacts
  <2>4. OwnSessions' = OwnSessions BY <2>2 DEF OwnSessions
  <2>5. SessionsAreOwn' BY <1>0, <2>2, <2>3, <2>4 DEF SessionsAreOwn
  <2>6. \A i \in DOMAIN events' : events'[i] = r \/ (i \in DOMAIN events /\ events'[i] = events[i])
    BY <2>2
  <2>7. QueueIsShown' BY <1>0, <2>2, <2>3, <2>6 DEF QueueIsShown
  <2> QED BY <2>5, <2>7
<1> QED BY <1>1, <1>2, <1>3, <1>4, <1>5

\* The accounts of a state: the bytes, then the counts.
LEMMA AccountsNow ==
  EventsAccounted =>
    /\ queued = BytesOf(events)
    /\ counters.accepted + Cardinality(uncounted) = counters.drained + Len(events) + purged
  BY Zenon DEF EventsAccounted

\* And of the state a step leads to.
LEMMA AccountsAfter ==
  ASSUME queued' = BytesOf(events'),
         counters'.accepted + Cardinality(uncounted') = counters'.drained + Len(events') + purged'
  PROVE  EventsAccounted'
  BY Zenon DEF EventsAccounted

\* What leaves the queue and its counts alone keeps them.
LEMMA QueueLeftAlone ==
  EventsAccounted /\ UNCHANGED <<events, queued, counters, uncounted, purged>> => EventsAccounted'
<1> SUFFICES ASSUME EventsAccounted, UNCHANGED <<events, queued, counters, uncounted, purged>>
             PROVE  EventsAccounted'
  OBVIOUS
<1>1. queued' = BytesOf(events') BY Zenon, AccountsNow
<1>2. counters'.accepted + Cardinality(uncounted') = counters'.drained + Len(events') + purged'
  BY Zenon, AccountsNow
<1> QED BY <1>1, <1>2, AccountsAfter

\* The GUI thread and a starting agent keep the accounts: a purge counts what
\* it removes, a drain what it takes.
LEMMA GuiKeepsAccounts ==
  ASSUME EventInv,
         \/ \E p \in Panes : CloseTerminal(p) \/ ReplaceShell(p) \/ StartShell(p)
         \/ PurgeEvents \/ ShellStarted \/ ShellFailed \/ DrainEvents
         \/ \E s \in Sessions : AgentStarts(s)
  PROVE  SubmissionsApart' /\ EventsAccounted'
<1>0. /\ EventsTyped /\ SubmissionsApart /\ EventsAccounted
      /\ events \in Seq(Event) /\ BytesOf(events) \in Int /\ Len(events) \in Nat
      /\ Cardinality(uncounted) \in Nat
      /\ counters.accepted \in Nat /\ counters.drained \in Nat /\ purged \in Int
      /\ queued = BytesOf(events)
      /\ counters.accepted + Cardinality(uncounted) = counters.drained + Len(events) + purged
  <2>1. EventsTyped /\ SubmissionsApart /\ EventsAccounted BY DEF EventInv
  <2>2. events \in Seq(Event) /\ purged \in Int BY <2>1 DEF EventsTyped
  <2>3. counters.accepted \in Nat /\ counters.drained \in Nat BY <2>1 DEF EventsTyped
  <2>4. Cardinality(uncounted) \in Nat BY <2>1, FS_CardinalityType DEF SubmissionsApart
  <2> QED BY <2>1, <2>2, <2>3, <2>4, BytesAreCounted, AccountsNow
<1>1. CASE \/ \E p \in Panes : CloseTerminal(p) \/ ReplaceShell(p) \/ StartShell(p)
           \/ ShellStarted \/ ShellFailed \/ \E s \in Sessions : AgentStarts(s)
  <2>1. UNCHANGED <<events, queued, counters, uncounted, purged, inflight, sent>>
    BY <1>1 DEF CloseTerminal, ReplaceShell, Unregister, StartShell, ShellStarted, ShellFailed,
                AgentStarts, producerVars
  <2>2. SubmissionsApart' BY <1>0, <2>1 DEF SubmissionsApart
  <2> QED BY <1>0, <2>1, <2>2, QueueLeftAlone
<1>2. CASE PurgeEvents
  <2>1. /\ queued' = queued - (BytesOf(events) - BytesOf(events'))
        /\ purged' = purged + Len(events) - Len(events')
        /\ UNCHANGED <<counters, uncounted, inflight, sent>>
    BY <1>2 DEF PurgeEvents, producerVars
  <2>2. events' \in Seq(Event) BY <1>2, PurgeTyped DEF EventsTyped
  <2>3. BytesOf(events') \in Int /\ Len(events') \in Nat BY <2>2, BytesAreCounted
  <2>4. queued' = BytesOf(events') BY <1>0, <2>1, <2>3
  <2>5. counters'.accepted + Cardinality(uncounted') = counters'.drained + Len(events') + purged'
    BY <1>0, <2>1, <2>3
  <2>6. EventsAccounted' BY <2>4, <2>5, AccountsAfter
  <2>7. SubmissionsApart' BY <1>0, <2>1 DEF SubmissionsApart
  <2> QED BY <2>6, <2>7
<1>3. CASE DrainEvents
  <2>1. /\ events' = <<>> /\ queued' = 0
        /\ counters'.accepted = counters.accepted /\ counters'.drained = counters.drained + Len(events)
        /\ UNCHANGED <<uncounted, inflight, sent, purged>>
    BY <1>3 DEF DrainEvents, producerVars, BytesAfterDrain
  <2>2. BytesOf(events') = 0 /\ Len(events') = 0
    <3>1. <<>> \in Seq(Event) /\ Len(<<>>) = 0 OBVIOUS
    <3> QED BY <2>1, <3>1, BytesAreCounted
  <2>3. counters'.accepted + Cardinality(uncounted') = counters'.drained + Len(events') + purged'
    BY <1>0, <2>1, <2>2
  <2>4. EventsAccounted' BY <2>1, <2>2, <2>3, AccountsAfter
  <2>5. SubmissionsApart' BY <1>0, <2>1 DEF SubmissionsApart
  <2> QED BY <2>4, <2>5
<1> QED BY <1>1, <1>2, <1>3

\* A submission is new; one handled is queued, and counted later, or gone.
LEMMA TasksKeepAccounts ==
  ASSUME EventInv,
         \/ \E s \in Sessions : DeclareState(s) \/ \E b \in Sizes : SendEvent(s, b)
         \/ \E r \in inflight : SubmissionLost(r) \/ RefuseStale(r) \/ RefuseFull(r) \/ Accept(r)
         \/ \E r \in uncounted : Count(r)
  PROVE  SubmissionsApart' /\ EventsAccounted'
<1>0. /\ EventsTyped /\ SubmissionsApart /\ EventsAccounted
      /\ events \in Seq(Event) /\ BytesOf(events) \in Int /\ Len(events) \in Nat
      /\ IsFiniteSet(uncounted) /\ Cardinality(uncounted) \in Nat
      /\ counters.accepted \in Nat /\ counters.drained \in Nat /\ purged \in Int
      /\ queued = BytesOf(events)
      /\ counters.accepted + Cardinality(uncounted) = counters.drained + Len(events) + purged
  <2>1. EventsTyped /\ SubmissionsApart /\ EventsAccounted BY DEF EventInv
  <2>2. events \in Seq(Event) /\ purged \in Int BY <2>1 DEF EventsTyped
  <2>3. counters.accepted \in Nat /\ counters.drained \in Nat BY <2>1 DEF EventsTyped
  <2>4. IsFiniteSet(uncounted) /\ Cardinality(uncounted) \in Nat
    BY <2>1, FS_CardinalityType DEF SubmissionsApart
  <2> QED BY <2>1, <2>2, <2>3, <2>4, BytesAreCounted, AccountsNow
<1>1. CASE \E s \in Sessions : DeclareState(s) \/ \E b \in Sizes : SendEvent(s, b)
  <2>1. PICK r : /\ inflight' = inflight \union {r} /\ sent' = sent + 1 /\ r.id = sent + 1
                 /\ UNCHANGED <<events, queued, counters, uncounted, purged>>
    BY <1>1 DEF DeclareState, SendEvent
  <2>2. sent \in Nat /\ \A e \in inflight \union uncounted : e.id \in Nat /\ e.id <= sent
    BY <1>0 DEF EventsTyped, SubmissionsApart, Event
  <2>3. r \notin uncounted BY <2>1, <2>2
  <2>4. \A e \in inflight' \union uncounted' : e.id <= sent' BY <2>1, <2>2
  <2>5. SubmissionsApart' BY <1>0, <2>1, <2>3, <2>4 DEF SubmissionsApart
  <2>6. EventsAccounted' BY <1>0, <2>1, QueueLeftAlone
  <2> QED BY <2>5, <2>6
<1>2. CASE \E r \in inflight : SubmissionLost(r) \/ RefuseStale(r) \/ RefuseFull(r)
  <2>1. inflight' \subseteq inflight /\ UNCHANGED <<events, queued, counters, uncounted, purged, sent>>
    BY <1>2 DEF SubmissionLost, RefuseStale, RefuseFull
  <2>2. SubmissionsApart' BY <1>0, <2>1 DEF SubmissionsApart
  <2>3. EventsAccounted' BY <1>0, <2>1, QueueLeftAlone
  <2> QED BY <2>2, <2>3
<1>3. CASE \E r \in inflight : Accept(r)
  <2>1. PICK r \in inflight : Accept(r) BY <1>3
  <2>2. /\ events' = Append(events, r) /\ queued' = queued + r.bytes
        /\ inflight' = inflight \ {r} /\ uncounted' = uncounted \union {r}
        /\ UNCHANGED <<counters, sent, purged>>
    BY <2>1 DEF Accept
  <2>3. r \in Event /\ r \notin uncounted BY <1>0 DEF EventsTyped, SubmissionsApart
  <2>4. IsFiniteSet(uncounted') /\ Cardinality(uncounted') = Cardinality(uncounted) + 1
    BY <1>0, <2>2, <2>3, FS_AddElement
  <2>5. BytesOf(Append(events, r)) = BytesOf(events) + r.bytes BY <1>0, <2>3, BytesAppended
  <2>6. queued' = BytesOf(events') BY <1>0, <2>2, <2>5
  <2>7. Len(events') = Len(events) + 1 BY <1>0, <2>2
  <2>8. counters'.accepted + Cardinality(uncounted') = counters'.drained + Len(events') + purged'
    <3>1. counters' = counters /\ purged' = purged BY <2>2
    <3>2. /\ counters.accepted + Cardinality(uncounted) = counters.drained + Len(events) + purged
          /\ counters.accepted \in Nat /\ counters.drained \in Nat /\ purged \in Int
          /\ Len(events) \in Nat /\ Cardinality(uncounted) \in Nat
      BY <1>0
    <3>3. Cardinality(uncounted') = Cardinality(uncounted) + 1 BY <2>4
    <3> QED BY <2>7, <3>1, <3>2, <3>3
  <2>9. EventsAccounted' BY <2>6, <2>8, AccountsAfter
  <2>10. SubmissionsApart' BY <1>0, <2>2, <2>4 DEF SubmissionsApart
  <2> QED BY <2>9, <2>10
<1>4. CASE \E r \in uncounted : Count(r)
  <2>1. PICK r \in uncounted : Count(r) BY <1>4
  <2>2. /\ uncounted' = uncounted \ {r}
        /\ counters'.accepted = counters.accepted + 1 /\ counters'.drained = counters.drained
        /\ UNCHANGED <<events, queued, inflight, sent, purged>>
    BY <2>1 DEF Count
  <2>3. IsFiniteSet(uncounted') /\ Cardinality(uncounted') = Cardinality(uncounted) - 1
    BY <1>0, <2>2, FS_RemoveElement
  <2>4. queued' = BytesOf(events') BY Zenon, <1>0, <2>2
  <2>5. counters'.accepted + Cardinality(uncounted') = counters'.drained + Len(events') + purged'
    BY SMTT(30), <1>0, <2>2, <2>3
  <2>6. EventsAccounted' BY <2>4, <2>5, AccountsAfter
  <2>7. SubmissionsApart' BY <1>0, <2>2, <2>3 DEF SubmissionsApart
  <2> QED BY <2>6, <2>7
<1> QED BY <1>1, <1>2, <1>3, <1>4

\* A table of numbers that only forgets sessions, or learns them anew, shows
\* numbers that were taken.
LEMMA NumbersQuiet ==
  ASSUME LastWasTaken, StaleMeansLate, UNCHANGED <<taken, stale>>,
         \A s \in Live' : lastSeq'[s] = 0 \/ (s \in Live /\ lastSeq'[s] = lastSeq[s])
  PROVE  LastWasTaken' /\ StaleMeansLate'
<1>1. LastWasTaken' BY DEF LastWasTaken
<1>2. StaleMeansLate' BY DEF StaleMeansLate
<1> QED BY <1>1, <1>2

\* Every step refuses only numbers that are late.
LEMMA NumbersKept ==
  ASSUME EventInv, EventsNext
  PROVE  LastWasTaken' /\ StaleMeansLate'
<1>0. EventsTyped /\ LastWasTaken /\ StaleMeansLate BY DEF EventInv
<1>1. ASSUME NEW p \in Panes, CloseTerminal(p) \/ ReplaceShell(p) PROVE LastWasTaken' /\ StaleMeansLate'
  <2>1. lastSeq' = Forgotten(sessionOf[p]) /\ UNCHANGED <<taken, stale>>
    BY <1>1 DEF CloseTerminal, ReplaceShell, Unregister
  <2>2. \A s \in Live' : s \in Live /\ lastSeq'[s] = lastSeq[s] BY <2>1 DEF Live, Forgotten
  <2> QED BY <1>0, <2>1, <2>2, NumbersQuiet
<1>2. CASE ShellFailed
  <2>1. lastSeq' = Forgotten(gui.session) /\ UNCHANGED <<taken, stale>> BY <1>2 DEF ShellFailed
  <2>2. \A s \in Live' : s \in Live /\ lastSeq'[s] = lastSeq[s] BY <2>1 DEF Live, Forgotten
  <2> QED BY <1>0, <2>1, <2>2, NumbersQuiet
<1>3. ASSUME lastSeq' \in {lastSeq, Registered(spawned + 1)}, UNCHANGED <<taken, stale>>
      PROVE  LastWasTaken' /\ StaleMeansLate'
  <2>1. \A s \in Live' : lastSeq'[s] = 0 \/ (s \in Live /\ lastSeq'[s] = lastSeq[s])
    BY <1>3 DEF Live, Registered
  <2> QED BY <1>0, <1>3, <2>1, NumbersQuiet
<1>4. CASE PurgeEvents \/ \E p \in Panes : StartShell(p)
  BY <1>3, <1>4 DEF PurgeEvents, StartShell
<1>5. CASE \/ ShellStarted \/ DrainEvents
           \/ \E s \in Sessions : AgentStarts(s) \/ DeclareState(s) \/ \E b \in Sizes : SendEvent(s, b)
           \/ \E r \in inflight : SubmissionLost(r)
           \/ \E r \in uncounted : Count(r)
  BY <1>3, <1>5 DEF ShellStarted, DrainEvents, AgentStarts, DeclareState, SendEvent, SubmissionLost, Count
<1>6. ASSUME NEW r \in inflight, RefuseFull(r) \/ Accept(r) PROVE LastWasTaken' /\ StaleMeansLate'
  <2>1. r \in Event /\ r.session \in Live /\ Advance(r) /\ stale' = stale
    BY <1>0, <1>6 DEF RefuseFull, Accept, EventsTyped
  <2>2. /\ Live' = Live /\ taken \subseteq taken'
        /\ \A s \in Live : lastSeq'[s] = lastSeq[s] \/ (s = r.session /\ lastSeq'[s] = r.seq)
        /\ lastSeq'[r.session] = lastSeq[r.session]
             \/ \E a \in taken' : a.session = r.session /\ a.seq = lastSeq'[r.session]
    BY <1>0, <2>1, AdvanceFacts
  <2>3. LastWasTaken'
    <3>1. ASSUME NEW s \in Live
          PROVE  lastSeq'[s] = 0 \/ \E a \in taken' : a.session = s /\ a.seq = lastSeq'[s]
      <4>1. CASE lastSeq'[s] = lastSeq[s] BY <1>0, <2>2, <4>1 DEF LastWasTaken
      <4>2. CASE lastSeq'[s] # lastSeq[s] BY <2>2, <4>2
      <4> QED BY <4>1, <4>2
    <3> QED BY <2>2, <3>1 DEF LastWasTaken
  <2>4. StaleMeansLate' BY <1>0, <2>1, <2>2 DEF StaleMeansLate
  <2> QED BY <2>3, <2>4
<1>7. ASSUME NEW r \in inflight, RefuseStale(r) PROVE LastWasTaken' /\ StaleMeansLate'
  <2>1. /\ r.session \in Live /\ ~InSequence(r) /\ stale' = stale \union {Number(r)}
        /\ lastSeq' = lastSeq /\ taken' = taken
    BY <1>7 DEF RefuseStale
  <2>2. /\ r.seq \in Nat /\ lastSeq[r.session] \in Nat /\ SeqResetCeiling \in Nat
        /\ \A a \in taken : a.seq \in Nat
    <3>1. r \in Event BY <1>0 DEF EventsTyped
    <3>2. \A a \in taken : a \in EventNumber BY <1>0 DEF EventsTyped
    <3> QED BY <1>0, <2>1, <3>1, <3>2, EventBoundsAssumption DEF EventsTyped, Event, EventNumber
  <2>3. r.seq # 0 /\ r.seq <= lastSeq[r.session]
        /\ (r.seq >= lastSeq[r.session] \/ r.seq > SeqResetCeiling)
    BY <2>1, <2>2 DEF InSequence, AcceptEventSeq
  <2>4. PICK a \in taken : a.session = r.session /\ a.seq = lastSeq[r.session]
    BY <1>0, <2>1, <2>2, <2>3 DEF LastWasTaken
  <2>5. Number(r).session = r.session /\ Number(r).seq = r.seq /\ Number(r).run = r.run BY DEF Number
  <2>6. /\ a.session = Number(r).session /\ a.seq >= Number(r).seq
        /\ a.run = Number(r).run \/ Number(r).seq > SeqResetCeiling \/ a.seq = Number(r).seq
    BY <2>2, <2>3, <2>4, <2>5
  <2>7. StaleMeansLate' BY <1>0, <2>1, <2>4, <2>6 DEF StaleMeansLate
  <2>8. LastWasTaken' BY <1>0, <2>1 DEF LastWasTaken, Live
  <2> QED BY <2>7, <2>8
<1> QED BY <1>1, <1>2, <1>4, <1>5, <1>6, <1>7 DEF EventsNext

\* Every step of the event socket keeps its invariant.
LEMMA EventsKept == EventInv /\ [EventsNext]_eventVars => EventInv'
<1> SUFFICES ASSUME EventInv, [EventsNext]_eventVars PROVE EventInv'
  OBVIOUS
<1>1. CASE EventsNext
  <2>1. EventsTyped'
    <3>1. CASE \/ \E p \in Panes : CloseTerminal(p) \/ ReplaceShell(p) \/ StartShell(p)
               \/ ShellStarted \/ ShellFailed \/ DrainEvents
      BY <3>1, GuiTyped
    <3>2. CASE PurgeEvents BY <3>2, PurgeTyped
    <3>3. ASSUME NEW s \in Sessions, NEW b \in Sizes, AgentStarts(s) \/ SendEvent(s, b) \/ DeclareState(s)
          PROVE  EventsTyped'
      BY <3>3, ProducersTyped
    <3>4. 1 \in Sizes BY DEF Sizes
    <3>5. CASE \/ \E r \in inflight : SubmissionLost(r) \/ RefuseStale(r) \/ RefuseFull(r) \/ Accept(r)
               \/ \E r \in uncounted : Count(r)
      BY <3>5, TasksTyped
    <3> QED BY <1>1, <3>1, <3>2, <3>3, <3>4, <3>5 DEF EventsNext
  <2>2. SessionsAreOwn' /\ QueueIsShown'
    <3>1. ASSUME NEW p \in Panes, CloseTerminal(p) \/ ReplaceShell(p) PROVE SessionsAreOwn' /\ QueueIsShown'
      <4>1. PICK next \in {"closing", "replacing"} : Unregister(p, next)
        BY <3>1 DEF CloseTerminal, ReplaceShell
      <4> QED BY <4>1, UnregisterKeepsTerminals
    <3>2. CASE (\E p \in Panes : StartShell(p)) \/ ShellStarted \/ ShellFailed \/ DrainEvents
      BY <3>2, GuiKeepsTerminals
    <3>3. CASE PurgeEvents BY <3>3, PurgeKeepsTerminals
    <3>4. CASE \/ \E s \in Sessions : AgentStarts(s) \/ DeclareState(s) \/ \E b \in Sizes : SendEvent(s, b)
               \/ \E r \in inflight : SubmissionLost(r) \/ RefuseStale(r) \/ RefuseFull(r) \/ Accept(r)
               \/ \E r \in uncounted : Count(r)
      BY <3>4, TasksKeepTerminals
    <3> QED BY <1>1, <3>1, <3>2, <3>3, <3>4 DEF EventsNext
  <2>3. SubmissionsApart' /\ EventsAccounted'
    <3>1. CASE \/ \E p \in Panes : CloseTerminal(p) \/ ReplaceShell(p) \/ StartShell(p)
               \/ PurgeEvents \/ ShellStarted \/ ShellFailed \/ DrainEvents
               \/ \E s \in Sessions : AgentStarts(s)
      BY <3>1, GuiKeepsAccounts
    <3>2. CASE \/ \E s \in Sessions : DeclareState(s) \/ \E b \in Sizes : SendEvent(s, b)
               \/ \E r \in inflight : SubmissionLost(r) \/ RefuseStale(r) \/ RefuseFull(r) \/ Accept(r)
               \/ \E r \in uncounted : Count(r)
      BY <3>2, TasksKeepAccounts
    <3> QED BY <1>1, <3>1, <3>2 DEF EventsNext
  <2>4. LastWasTaken' /\ StaleMeansLate' BY <1>1, NumbersKept
  <2> QED BY <2>1, <2>2, <2>3, <2>4 DEF EventInv
<1>2. CASE UNCHANGED eventVars
  <2>1. UNCHANGED <<sessionOf, spawned, gui, events, lastSeq>>
        /\ UNCHANGED <<events, queued, counters, uncounted, purged, inflight, sent>>
        /\ UNCHANGED <<runs, numbered, taken, stale>>
    BY <1>2 DEF eventVars
  <2>2. EventsTyped' BY <2>1 DEF EventInv, EventsTyped, Live
  <2>3. SessionsAreOwn' /\ QueueIsShown' BY <2>1, TerminalsQuiet DEF EventInv, Live
  <2>4. SubmissionsApart' /\ EventsAccounted'
    <3>1. SubmissionsApart' BY <2>1 DEF EventInv, SubmissionsApart
    <3>2. EventsAccounted' BY <2>1, QueueLeftAlone DEF EventInv
    <3> QED BY <3>1, <3>2
  <2>5. LastWasTaken' /\ StaleMeansLate' BY <2>1, NumbersQuiet DEF EventInv, Live
  <2> QED BY <2>2, <2>3, <2>4, <2>5 DEF EventInv
<1> QED BY <1>1, <1>2

\* The invariant makes the queue sound.
LEMMA QueueIsSound == EventInv => EventQueueIsSound
<1> SUFFICES ASSUME EventInv PROVE EventQueueIsSound
  OBVIOUS
<1>1. SessionsAreOwn /\ QueueIsShown /\ EventsAccounted /\ StaleMeansLate BY DEF EventInv
<1>2. gui = Idle => gui.step = "idle" BY DEF Idle
<1>3. EventsHaveATerminal BY <1>1, <1>2 DEF EventsHaveATerminal, SessionsAreOwn, OwnSessions, QueueIsShown
<1> QED BY <1>1, <1>3 DEF EventQueueIsSound

\* What an agent reports arrives as long as there is room: the queue holds
\* events of terminals that can still show them, none is lost on the way and
\* only late ones are refused; a feed that overflows has lost its oldest
\* events and never its newest, for any panes, caps, clients and interleaving.
THEOREM EventsReachTheWindow == MCSpec => []EventsArrive
<1>1. MCInit => EventInv /\ FeedInv
  BY EventsStart, FeedInit DEF MCInit
<1>2. EventInv /\ FeedInv /\ [MCNext]_mcVars => EventInv' /\ FeedInv'
  <2>1. [MCNext]_mcVars => [EventsNext]_eventVars /\ [SubscriptionsNext]_subscriptionVars
    BY DEF MCNext, mcVars, InEvents, InFeed, InState, InTools
  <2> QED BY <2>1, EventsKept, FeedNext
<1>3. EventInv /\ FeedInv => EventsArrive
  BY QueueIsSound, RowsAreTheFeed DEF EventsArrive
<1> QED BY <1>1, <1>2, <1>3, PTL DEF MCSpec
=============================================================================
