-------------------------- MODULE IpcBridgeProofs --------------------------
(***************************************************************************)
(* What holds of the IPC bridge for any set of requests, any timeouts and  *)
(* any number of reviews: a request that ended left nothing behind, the    *)
(* review cap is kept, the bridge implements RequestLifecycle, and where   *)
(* the slack covers the frames a stall can skip its clocks agree.          *)
(***************************************************************************)
EXTENDS IpcBridge, FiniteSetTheorems, TLAPS

-----------------------------------------------------------------------------
(* The inductive invariant: where a request is, on both sides.             *)

\* The parts of TypeOK the rest depends on.
Places ==
  /\ stage \in [Requests -> Stages]
  /\ queue \subseteq Requests /\ channels \subseteq Requests /\ inbox \subseteq Requests
  /\ work \subseteq Requests /\ handled \subseteq Requests
  /\ waits \subseteq Waits /\ reviews \subseteq Reviews

\* The GUI has a request in at most one place, and only one that was pushed.
OnePlace ==
  /\ queue \cap work = {} /\ queue \cap handled = {} /\ work \cap handled = {}
  /\ \A r \in queue \cup work \cup handled : stage[r] \notin {"new", "refused"}

\* Nothing of a batch is left between two frames.
BatchEnds == frame = "between" => work = {}

\* What is held or answered was dispatched.
HeldWasHandled ==
  /\ waits \subseteq handled /\ reviews \subseteq handled /\ inbox \subseteq handled
  /\ \A r \in Requests : stage[r] = "answered" => r \in handled

\* A oneshot that holds an answer was taken out of the table by it, after the
\* channel had been registered.
AnsweredOnce ==
  /\ inbox \cap channels = {}
  /\ \A r \in inbox : stage[r] \notin {"new", "refused", "queued"}

\* An open request is somewhere on the GUI's side.
OpenIsSomewhere == \A r \in Requests : Open(r) => r \in queue \cup work \cup handled

Inv ==
  /\ Places /\ OnePlace /\ BatchEnds /\ HeldWasHandled /\ AnsweredOnce
  /\ OpenIsSomewhere /\ NothingLeftBehind

\* The bridge starts with no request anywhere.
LEMMA InitInv == Init => Inv
  BY DEF Init, Inv, Places, OnePlace, BatchEnds, HeldWasHandled, AnsweredOnce,
            OpenIsSomewhere, NothingLeftBehind, Open, Stages

\* The steps of a connection task keep the invariant.
LEMMA ConnectionInv == ASSUME Inv, NEW r \in Requests, Connection(r) PROVE Inv'
<1> USE DEF Inv, Places, OnePlace, BatchEnds, HeldWasHandled, AnsweredOnce,
            OpenIsSomewhere, NothingLeftBehind, Open, Stages
<1>1. CASE Call(r)
  BY <1>1 DEF Call, guiVars, history
<1>2. CASE Reject(r)
  BY <1>2 DEF Reject, guiVars, history
<1>3. CASE Register(r)
  BY <1>3 DEF Register, clientVars, guiVars, history
<1>4. CASE Deliver(r)
  BY <1>4 DEF Deliver, guiVars, history
<1>5. CASE Elapse(r)
  BY <1>5 DEF Elapse, clientVars, guiVars, history
<1>6. CASE Withdraw(r)
  BY <1>6 DEF Withdraw, QueueWithout, guiVars, history
<1> HIDE DEF Inv
<1>7. QED
  BY <1>1, <1>2, <1>3, <1>4, <1>5, <1>6 DEF Connection

\* The steps of the GUI's poll keep the invariant.
LEMMA PollInv == ASSUME Inv, Poll PROVE Inv'
<1> USE DEF Inv, Places, OnePlace, BatchEnds, HeldWasHandled, AnsweredOnce,
            OpenIsSomewhere, NothingLeftBehind, Open, Stages
<1>1. CASE Drain
  BY <1>1 DEF Drain, QueueAfterDrain, clientVars, history
<1>2. CASE PollWaits
  BY <1>2 DEF PollWaits, Respond, clientVars
<1>3. ASSUME NEW r \in Requests, AnswerAtOnce(r) PROVE Inv'
  BY <1>3 DEF AnswerAtOnce, NextOfBatch, Respond, clientVars
<1>4. ASSUME NEW r \in Requests, HoldWait(r) PROVE Inv'
  BY <1>4 DEF HoldWait, NextOfBatch, RespondNone, clientVars
<1>5. ASSUME NEW r \in Requests, Review(r) PROVE Inv'
  BY <1>5 DEF Review, NextOfBatch, Respond, RespondNone, clientVars
<1> HIDE DEF Inv
<1>6. QED
  BY <1>1, <1>2, <1>3, <1>4, <1>5 DEF Poll

\* Clicks, expiries, callers that give up and the clock keep it.
LEMMA OtherInv ==
  ASSUME Inv, Hang \/ Dialog \/ Tick \/ (\E r \in Waits : GiveUp(r)) \/ UNCHANGED vars
  PROVE  Inv'
<1> USE DEF Inv, Places, OnePlace, BatchEnds, HeldWasHandled, AnsweredOnce,
            OpenIsSomewhere, NothingLeftBehind, Open, Stages
<1>1. ASSUME NEW r \in Reviews, NEW accept \in BOOLEAN, Click(r, accept) PROVE Inv'
  BY <1>1 DEF Click, Finish, Respond, clientVars
<1>2. ASSUME NEW r \in Reviews, Expire(r) PROVE Inv'
  BY <1>2 DEF Expire, Finish, RespondNone, clientVars
<1>3. CASE Tick \/ Hang
  BY <1>3 DEF Tick, Hang, serverVars, clientVars, history
<1>4. ASSUME NEW r \in Waits, GiveUp(r) PROVE Inv'
  BY <1>4 DEF GiveUp, serverVars, guiVars, history
<1>5. CASE UNCHANGED vars
  BY <1>5 DEF vars, serverVars, guiVars, history
<1> HIDE DEF Inv
<1>6. QED
  BY <1>1, <1>2, <1>3, <1>4, <1>5 DEF Dialog

\* The connections, the poll and everything else.
LEMMA NextInv == Inv /\ [Next]_vars => Inv'
  BY ConnectionInv, PollInv, OtherInv DEF Next

\* Inv holds throughout.
LEMMA SpecInv == Spec => []Inv
  BY InitInv, NextInv, PTL DEF Spec

\* A registered channel belongs to a request still waited for, and a request
\* that timed out is in no queue (ipc.rs, the cleanup after the timeout).
THEOREM NothingIsLeftBehind == Spec => []NothingLeftBehind
<1>1. Inv => NothingLeftBehind
  BY DEF Inv
<1>2. QED
  BY <1>1, SpecInv, PTL

-----------------------------------------------------------------------------
(* The bridge implements RequestLifecycle.                                 *)

\* Both functions of the refinement mapping, request by request.
LEMMA Mapping ==
  ASSUME \A r \in Requests : ProgressOf(r)' = ProgressOf(r) /\ OutcomeOf(r)' = OutcomeOf(r)
  PROVE  UNCHANGED Lifecycle!lifecycleVars
  BY Zenon DEF Lifecycle!lifecycleVars

\* No request has begun.
LEMMA InitLifecycle == Init => Lifecycle!LifecycleInit
  BY DEF Init, Lifecycle!LifecycleInit, ProgressOf, OutcomeOf

\* A step of a connection task submits, refuses, replies, times out or
\* changes nothing that can be seen.
LEMMA ConnectionRefines ==
  ASSUME Inv, NEW r \in Requests, Connection(r)
  PROVE  Lifecycle!LifecycleNext \/ UNCHANGED Lifecycle!lifecycleVars
<1> USE DEF Places, OnePlace, HeldWasHandled, OpenIsSomewhere, NothingLeftBehind,
            Open, Stages, ProgressOf, OutcomeOf
<1>0. Places /\ OnePlace /\ HeldWasHandled /\ OpenIsSomewhere /\ NothingLeftBehind
  BY DEF Inv
<1>1. CASE Call(r)
  <2>1. Lifecycle!Submit(r)
    BY <1>0, <1>1 DEF Call, guiVars, history, Lifecycle!Submit
  <2>2. QED
    BY <2>1 DEF Lifecycle!LifecycleNext
<1>2. CASE Reject(r)
  <2>1. Lifecycle!Refuse(r)
    BY <1>0, <1>2 DEF Reject, guiVars, history, Lifecycle!Refuse
  <2>2. QED
    BY <2>1 DEF Lifecycle!LifecycleNext
<1>3. CASE Register(r) \/ Elapse(r)
  <2>1. UNCHANGED Lifecycle!lifecycleVars
    BY <1>0, <1>3, Mapping DEF Register, Elapse, clientVars, guiVars, history
  <2>2. QED
    BY <2>1
<1>4. CASE Deliver(r)
  <2>1. Lifecycle!Reply(r)
    BY <1>0, <1>4 DEF Deliver, guiVars, history, Lifecycle!Reply
  <2>2. QED
    BY <2>1 DEF Lifecycle!LifecycleNext
<1>5. CASE Withdraw(r)
  <2>1. Lifecycle!TimeOut(r)
    BY <1>0, <1>5 DEF Withdraw, QueueWithout, guiVars, history, Lifecycle!TimeOut
  <2>2. QED
    BY <2>1 DEF Lifecycle!LifecycleNext
<1>6. QED
  BY <1>1, <1>2, <1>3, <1>4, <1>5 DEF Connection

\* A step of the poll takes the queue, acts on one request, or is invisible.
LEMMA PollRefines ==
  ASSUME Inv, Poll
  PROVE  Lifecycle!LifecycleNext \/ UNCHANGED Lifecycle!lifecycleVars
<1> USE DEF Places, OnePlace, BatchEnds, ProgressOf, OutcomeOf
<1>0. Places /\ OnePlace /\ BatchEnds
  BY DEF Inv
<1>1. CASE Drain
  <2>1. Lifecycle!TakeAll
    BY <1>0, <1>1 DEF Drain, QueueAfterDrain, clientVars, history, Lifecycle!TakeAll
  <2>2. QED
    BY <2>1 DEF Lifecycle!LifecycleNext
<1>2. CASE PollWaits
  BY <1>0, <1>2, Mapping DEF PollWaits, clientVars
<1>3. ASSUME NEW r \in Requests, AnswerAtOnce(r) \/ HoldWait(r) \/ Review(r)
      PROVE  Lifecycle!LifecycleNext
  <2>1. /\ r \in work /\ work' = work \ {r} /\ handled' = handled \cup {r}
        /\ UNCHANGED <<stage, queue>>
    BY <1>3 DEF AnswerAtOnce, HoldWait, Review, NextOfBatch
  <2>2. Lifecycle!Act(r)
    BY <1>0, <2>1 DEF Lifecycle!Act
  <2>3. QED
    BY <2>2 DEF Lifecycle!LifecycleNext
<1>4. QED
  BY <1>1, <1>2, <1>3 DEF Poll

\* Nothing else touches what the refinement mapping reads.
LEMMA OtherRefines ==
  ASSUME Hang \/ Dialog \/ Tick \/ (\E r \in Waits : GiveUp(r)) \/ UNCHANGED vars
  PROVE  UNCHANGED Lifecycle!lifecycleVars
<1>1. UNCHANGED <<stage, queue, work, handled>>
  BY DEF Dialog, Click, Expire, Tick, Hang, GiveUp, Respond, RespondNone, Finish,
         vars, serverVars, clientVars, guiVars, history
<1>2. QED
  BY <1>1, Mapping DEF ProgressOf, OutcomeOf

\* The bridge keeps the promise of RequestLifecycle: a request is taken and
\* acted on at most once, has one outcome, is acted on before the reply, and
\* is never acted on once withdrawn (ipc.rs, make_gdscript_handler).
THEOREM BridgeImplementsLifecycle == Spec => ImplementsLifecycle
<1>1. Inv /\ [Next]_vars =>
        Lifecycle!LifecycleNext \/ UNCHANGED Lifecycle!lifecycleVars
  BY ConnectionRefines, PollRefines, OtherRefines DEF Next
<1>2. QED
  BY <1>1, InitLifecycle, SpecInv, PTL DEF Spec, ImplementsLifecycle, Lifecycle!LifecycleSpec

-----------------------------------------------------------------------------
(* The review cap.                                                         *)

ReviewsBounded == IsFiniteSet(reviews) /\ Cardinality(reviews) <= MaxReviews

\* Only _show_plugin_review opens a dialog, below the cap.
THEOREM ReviewCapIsKept == Spec => []ReviewsCapped
<1>1. Init => ReviewsBounded
  BY BridgeAssumption, FS_EmptySet DEF Init, ReviewsBounded
<1>2. ReviewsBounded /\ [Next]_vars => ReviewsBounded'
  <2> SUFFICES ASSUME ReviewsBounded, [Next]_vars PROVE ReviewsBounded'
    OBVIOUS
  <2>0. Cardinality(reviews) \in Nat
    BY FS_CardinalityType DEF ReviewsBounded
  <2>1. \/ reviews' = reviews
        \/ \E r \in Reviews : reviews' = reviews \ {r}
        \/ \E r \in Requests : Review(r) /\ reviews' = reviews \cup {r} /\ ~ReviewsFull
    BY DEF Next, Connection, Call, Reject, Register, Deliver, Elapse, Withdraw, GiveUp,
           Poll, Drain, PollWaits, AnswerAtOnce, HoldWait, Review, Hang, Dialog, Click,
           Expire, Finish, Tick, vars, guiVars
  <2>2. ASSUME NEW r, reviews' = reviews \ {r} PROVE ReviewsBounded'
    BY <2>0, <2>2, FS_RemoveElement, BridgeAssumption DEF ReviewsBounded
  <2>3. ASSUME NEW r, reviews' = reviews \cup {r}, ~ReviewsFull PROVE ReviewsBounded'
    <3>1. Cardinality(reviews) < MaxReviews
      BY <2>0, <2>3, BridgeAssumption DEF ReviewsFull
    <3>2. /\ IsFiniteSet(reviews \cup {r})
          /\ \/ Cardinality(reviews \cup {r}) = Cardinality(reviews)
             \/ Cardinality(reviews \cup {r}) = Cardinality(reviews) + 1
      BY FS_AddElement DEF ReviewsBounded
    <3>3. Cardinality(reviews \cup {r}) <= MaxReviews
      BY <2>0, <3>1, <3>2, BridgeAssumption
    <3>4. QED
      BY <2>3, <3>2, <3>3 DEF ReviewsBounded
  <2>4. CASE reviews' = reviews
    BY <2>4 DEF ReviewsBounded
  <2>5. QED
    BY <2>1, <2>2, <2>3, <2>4
<1>3. ReviewsBounded => ReviewsCapped
  BY DEF ReviewsBounded, ReviewsCapped
<1>4. QED
  BY <1>1, <1>2, <1>3, PTL DEF Spec
-----------------------------------------------------------------------------
(* The clocks of a request.                                                *)

\* The clamp of a pane wait, whatever was asked.
LEMMA ClampType ==
  ASSUME NEW r \in Waits, asked \in [Waits -> AskedWaits]
  PROVE  /\ ClampedWait(asked[r]) \in Nat
         /\ MinWait <= ClampedWait(asked[r]) /\ ClampedWait(asked[r]) <= WaitCeiling
<1>1. asked[r] \in Int
  BY BridgeAssumption
<1>2. QED
  BY <1>1, BridgeAssumption DEF ClampedWait

\* Each kind of request has its own timeout.
LEMMA FallbackType ==
  ASSUME NEW r \in Requests
  PROVE  /\ FallbackTimeout(r) \in Nat
         /\ r \in Waits => FallbackTimeout(r) = PaneWaitTimeout
         /\ r \in Reviews => FallbackTimeout(r) = ReviewTimeout
  BY BridgeAssumption DEF FallbackTimeout, Requests

\* The bridge starts well typed.
LEMMA InitTypes == Init => TypeOK
  BY BridgeAssumption DEF Init, TypeOK, Stages

\* Every step keeps the types.
LEMMA NextTypes == TypeOK /\ [Next]_vars => TypeOK'
<1> SUFFICES ASSUME TypeOK, [Next]_vars PROVE TypeOK'
  OBVIOUS
<1> USE BridgeAssumption DEF TypeOK, Stages
<1>1. ASSUME NEW r \in Requests, Call(r) PROVE TypeOK'
  <2>1. FallbackTimeout(r) \in Nat
    BY FallbackType
  <2>2. \A w \in Waits : ClientTimeout(w) \in Nat
    BY ClampType DEF ClientTimeout
  <2>3. QED
    BY <1>1, <2>1, <2>2 DEF Call, guiVars, history
<1>2. ASSUME NEW r \in Requests, Reject(r) PROVE TypeOK'
  BY <1>2 DEF Reject, guiVars, history
<1>3. ASSUME NEW r \in Requests, Register(r) PROVE TypeOK'
  BY <1>3, FallbackType DEF Register, clientVars, guiVars, history
<1>4. ASSUME NEW r \in Requests, Deliver(r) PROVE TypeOK'
  BY <1>4 DEF Deliver, Tell, guiVars, history
<1>5. ASSUME NEW r \in Requests, Elapse(r) PROVE TypeOK'
  BY <1>5 DEF Elapse, clientVars, guiVars, history
<1>6. ASSUME NEW r \in Requests, Withdraw(r) PROVE TypeOK'
  BY <1>6 DEF Withdraw, QueueWithout, Tell, guiVars, history
<1>7. ASSUME NEW r \in Waits, GiveUp(r) PROVE TypeOK'
  BY <1>7 DEF GiveUp, serverVars, guiVars, history
<1>8. CASE Drain
  BY <1>8 DEF Drain, QueueAfterDrain, clientVars, history
<1>9. CASE PollWaits
  BY <1>9 DEF PollWaits, Respond, Requests, Smooth, clientVars
<1>10. ASSUME NEW r \in Requests, AnswerAtOnce(r) PROVE TypeOK'
  BY <1>10 DEF AnswerAtOnce, Respond, clientVars
<1>11. ASSUME NEW r \in Requests, HoldWait(r) PROVE TypeOK'
  BY <1>11, ClampType DEF HoldWait, RespondNone, clientVars
<1>12. ASSUME NEW r \in Requests, Review(r) PROVE TypeOK'
  BY <1>12 DEF Review, ReviewTime, Respond, RespondNone, clientVars
<1>13. CASE Hang
  BY <1>13 DEF Hang, serverVars, clientVars, history
<1>14. ASSUME NEW r \in Reviews, NEW accept \in BOOLEAN, Click(r, accept) PROVE TypeOK'
  BY <1>14 DEF Click, Finish, Respond, Requests, clientVars
<1>15. ASSUME NEW r \in Reviews, Expire(r) PROVE TypeOK'
  BY <1>15 DEF Expire, Finish, RespondNone, clientVars
<1>16. CASE Tick
  BY <1>16 DEF Tick, Less, Smooth, history
<1>17. CASE UNCHANGED vars
  BY <1>17 DEF vars, serverVars, clientVars, guiVars, history
<1> HIDE DEF TypeOK
<1>18. QED
  BY <1>1, <1>2, <1>3, <1>4, <1>5, <1>6, <1>7, <1>8, <1>9, <1>10, <1>11, <1>12, <1>13,
     <1>14, <1>15, <1>16, <1>17 DEF Next, Connection, Poll, Dialog

\* Type correctness of the bridge, its timers and its histories.
THEOREM TypeCorrect == Spec => []TypeOK
  BY InitTypes, NextTypes, PTL DEF Spec

\* What the frames can cost a pane wait, three times over: the frame it misses,
\* the one that holds it, and the one that finds its deadline passed.
SlackCoversFrames ==
  /\ MinWait >= 1
  /\ WaitSlack >= 3 * MaxStall
  /\ PaneWaitTimeout >= WaitCeiling + 3 * MaxStall

\* The GUI still owes this pane wait an answer.
Owed(r) == Alive(r) /\ r \notin responded

\* The longest time until the GUI answers it, while frames keep coming.
TimeOwed(r) ==
  IF r \in waits
  THEN IF waitLeft[r] = 0 THEN MaxStall - stall ELSE waitLeft[r] + MaxStall - 1
  ELSE (MaxStall - stall) + ClampedWait(asked[r]) + MaxStall - 1
         + (IF r \in queue /\ frame # "between" THEN MaxStall ELSE 0)

\* A wait that is owed is somewhere in the GUI, never past its clamp.
WaitIsHeld(r) ==
  /\ waitLeft[r] <= ClampedWait(asked[r])
  /\ Owed(r) => r \in queue \cup work \cup waits
  /\ client[r] = "calling" => Open(r)

\* Both timers of a wait outlast what the GUI may still take, and where one has
\* run out the GUI had answered.
TimersOutlast(r) ==
  /\ Owed(r) /\ stage[r] = "waiting" => fallback[r] > TimeOwed(r)
  /\ Owed(r) /\ client[r] = "calling" => clientLeft[r] > TimeOwed(r)
  /\ stage[r] \in {"elapsed", "timedOut"} => r \in responded
  /\ client[r] = "gaveUp" => r \in responded

WaitInv == \A r \in Waits : WaitIsHeld(r) /\ (Smooth => TimersOutlast(r))

\* What is owed while frames keep coming takes no less than nothing, and no
\* more than the longest wait and three frames.
LEMMA TimeOwedRange ==
  ASSUME SlackCoversFrames, TypeOK, Smooth, NEW r \in Waits, WaitIsHeld(r)
  PROVE  /\ TimeOwed(r) \in Nat
         /\ TimeOwed(r) < ClampedWait(asked[r]) + 3 * MaxStall
<1>1. /\ stall \in Nat /\ MaxStall \in Nat /\ stall <= MaxStall
      /\ waitLeft[r] \in Nat /\ waitLeft[r] <= ClampedWait(asked[r])
  BY BridgeAssumption DEF TypeOK, Smooth, WaitIsHeld
<1>2. ClampedWait(asked[r]) \in Nat /\ ClampedWait(asked[r]) >= 1
  BY ClampType, BridgeAssumption DEF SlackCoversFrames, TypeOK
<1>3. QED
  BY <1>1, <1>2 DEF TimeOwed

\* A wait that a step leaves alone keeps its timers; an answer more does not
\* matter.
LEMMA WaitKept ==
  ASSUME NEW r \in Waits, WaitIsHeld(r), Smooth => TimersOutlast(r),
         stage'[r] = stage[r], fallback'[r] = fallback[r],
         client'[r] = client[r], clientLeft'[r] = clientLeft[r],
         waitLeft'[r] = waitLeft[r],
         r \in queue' <=> r \in queue, r \in work' <=> r \in work,
         r \in waits' <=> r \in waits,
         responded \subseteq responded', UNCHANGED <<asked, frame, stall>>
  PROVE  WaitIsHeld(r)' /\ (Smooth => TimersOutlast(r))'
<1>1. Smooth' = Smooth /\ Alive(r)' = Alive(r) /\ Open(r)' = Open(r)
  BY DEF Smooth, Alive, Open
<1>2. TimeOwed(r)' = TimeOwed(r) /\ ClampedWait(asked[r])' = ClampedWait(asked[r])
  BY DEF TimeOwed
<1>3. Owed(r)' => Owed(r)
  BY <1>1 DEF Owed
<1>4. QED
  BY <1>1, <1>2, <1>3 DEF WaitIsHeld, TimersOutlast

\* The caller's clock, and the queue, start with the call; the fallback starts
\* later, with the channel.
LEMMA CallKeepsWaits ==
  ASSUME SlackCoversFrames, TypeOK, Inv, WaitInv, NEW s \in Requests,
         Call(s) \/ Reject(s) \/ Register(s)
  PROVE  WaitInv'
<1> SUFFICES ASSUME NEW r \in Waits PROVE WaitIsHeld(r)' /\ (Smooth => TimersOutlast(r))'
  BY DEF WaitInv
<1>1. WaitIsHeld(r) /\ (Smooth => TimersOutlast(r)) /\ r \in Requests
  BY DEF WaitInv, Requests
<1>2. ClampedWait(asked[r]) \in Nat /\ ClampedWait(asked[r]) <= WaitCeiling
  BY ClampType DEF TypeOK
<1>3. asked' = asked /\ frame' = frame /\ stall' = stall /\ Smooth' = Smooth
  BY DEF Call, Reject, Register, clientVars, guiVars, Smooth
<1>4. CASE r # s
  <2>1. /\ stage'[r] = stage[r] /\ fallback'[r] = fallback[r]
        /\ client'[r] = client[r] /\ clientLeft'[r] = clientLeft[r]
        /\ waitLeft'[r] = waitLeft[r] /\ (r \in queue' <=> r \in queue)
        /\ work' = work /\ waits' = waits /\ responded' = responded
    BY <1>1, <1>4 DEF Call, Reject, Register, clientVars, guiVars, history, TypeOK
  <2>2. QED
    BY <1>1, <1>3, <2>1, WaitKept
<1>5. CASE r = s /\ Call(s)
  <2>1. /\ stage'[r] = "queued" /\ client'[r] = "calling" /\ r \in queue'
        /\ clientLeft'[r] = ClampedWait(asked[r]) + WaitSlack
        /\ waitLeft' = waitLeft /\ responded' = responded /\ waits' = waits
    BY <1>1, <1>5 DEF Call, ClientTimeout, guiVars, history, TypeOK
  <2>2. WaitIsHeld(r)'
    BY <1>1, <1>3, <2>1 DEF WaitIsHeld, Open
  <2>3. ASSUME Smooth PROVE clientLeft'[r] > TimeOwed(r)'
    <3>1. r \notin waits'
      BY <1>1, <1>5, <2>1 DEF Call, Inv, OnePlace, HeldWasHandled
    <3>2. /\ TimeOwed(r)' \in Int /\ stall \in Nat
          /\ TimeOwed(r)' <= (MaxStall - stall) + ClampedWait(asked[r]) + MaxStall - 1 + MaxStall
      BY <1>2, <1>3, <3>1, BridgeAssumption DEF TimeOwed, TypeOK
    <3>3. QED
      BY <1>2, <2>1, <3>2, BridgeAssumption DEF SlackCoversFrames
  <2>4. QED
    BY <1>3, <2>1, <2>2, <2>3 DEF TimersOutlast
<1>6. CASE r = s /\ Reject(s)
  BY <1>1, <1>3, <1>6 DEF Reject, WaitIsHeld, TimersOutlast, Owed, Alive, Open, TypeOK,
                         guiVars, history
<1>7. CASE r = s /\ Register(s)
  <2>1. /\ stage[r] = "queued" /\ stage'[r] = "waiting" /\ fallback'[r] = PaneWaitTimeout
        /\ UNCHANGED <<queue, work, waits, waitLeft, client, clientLeft, responded>>
    BY <1>1, <1>7, FallbackType DEF Register, clientVars, guiVars, history, TypeOK
  <2>2. TimeOwed(r)' = TimeOwed(r) /\ Owed(r)' = Owed(r)
    BY <1>3, <2>1 DEF TimeOwed, Owed, Alive
  <2>3. WaitIsHeld(r)'
    BY <1>1, <1>3, <2>1, <2>2 DEF WaitIsHeld, Open
  <2>4. ASSUME Smooth PROVE fallback'[r] > TimeOwed(r)'
    <3>1. TimeOwed(r) \in Nat /\ TimeOwed(r) < ClampedWait(asked[r]) + 3 * MaxStall
      BY <1>1, <2>4, TimeOwedRange
    <3>2. QED
      BY <1>2, <2>1, <2>2, <3>1, BridgeAssumption DEF SlackCoversFrames
  <2>5. QED
    BY <1>1, <1>3, <2>1, <2>2, <2>3, <2>4 DEF TimersOutlast
<1>8. QED
  BY <1>4, <1>5, <1>6, <1>7

\* The connection ends: by an answer, or by a fallback that can only run out
\* where the GUI had answered.
LEMMA EndsKeepWaits ==
  ASSUME SlackCoversFrames, TypeOK, Inv, WaitInv, NEW s \in Requests,
         Deliver(s) \/ Elapse(s) \/ Withdraw(s) \/ (s \in Waits /\ GiveUp(s))
  PROVE  WaitInv'
<1> SUFFICES ASSUME NEW r \in Waits PROVE WaitIsHeld(r)' /\ (Smooth => TimersOutlast(r))'
  BY DEF WaitInv
<1>1. WaitIsHeld(r) /\ (Smooth => TimersOutlast(r)) /\ r \in Requests
  BY DEF WaitInv, Requests
<1>2. /\ UNCHANGED <<asked, frame, stall, work, waits, waitLeft, responded>>
      /\ Smooth' = Smooth
  BY DEF Deliver, Elapse, Withdraw, GiveUp, clientVars, guiVars, history, Smooth
<1>3. CASE r # s
  <2>1. /\ stage'[r] = stage[r] /\ fallback'[r] = fallback[r]
        /\ client'[r] = client[r] /\ clientLeft'[r] = clientLeft[r]
        /\ (r \in queue' <=> r \in queue)
    BY <1>1, <1>3 DEF Deliver, Elapse, Withdraw, GiveUp, Tell, QueueWithout, clientVars,
                      serverVars, TypeOK
  <2>2. QED
    BY <1>1, <1>2, <2>1, WaitKept
<1>4. CASE r = s /\ (Deliver(s) \/ Withdraw(s))
  <2>1. stage'[r] \in {"answered", "timedOut"} /\ client'[r] # "calling"
    BY <1>1, <1>4 DEF Deliver, Withdraw, Tell, TypeOK
  <2>2. client'[r] = "gaveUp" => client[r] = "gaveUp"
    BY <1>1, <1>4 DEF Deliver, Withdraw, Tell, TypeOK
  <2>3. stage'[r] = "timedOut" => stage[r] = "elapsed"
    BY <1>1, <1>4 DEF Deliver, Withdraw, TypeOK
  <2>4. QED
    BY <1>1, <1>2, <2>1, <2>2, <2>3 DEF WaitIsHeld, TimersOutlast, Owed, Alive
<1>5. CASE r = s /\ Elapse(s)
  <2>1. /\ stage[r] = "waiting" /\ fallback[r] = 0 /\ stage'[r] = "elapsed"
        /\ UNCHANGED <<client, queue>>
    BY <1>1, <1>5 DEF Elapse, FallbackDue, clientVars, TypeOK
  <2>2. ASSUME Smooth PROVE r \in responded
    <3>1. TimeOwed(r) \in Nat
      BY <1>1, <2>2, TimeOwedRange
    <3>2. ~Owed(r)
      BY <1>1, <2>1, <2>2, <3>1 DEF TimersOutlast
    <3>3. QED
      BY <2>1, <3>2 DEF Owed, Alive
  <2>3. QED
    BY <1>1, <1>2, <2>1, <2>2 DEF WaitIsHeld, TimersOutlast, Owed, Alive, Open
<1>6. CASE r = s /\ GiveUp(s)
  <2>1. /\ client[r] = "calling" /\ clientLeft[r] = 0 /\ client'[r] = "gaveUp"
        /\ UNCHANGED <<stage, fallback, queue>>
    BY <1>1, <1>6 DEF GiveUp, serverVars, TypeOK
  <2>2. ASSUME Smooth PROVE r \in responded
    <3>1. TimeOwed(r) \in Nat
      BY <1>1, <2>2, TimeOwedRange
    <3>2. ~Owed(r)
      BY <1>1, <2>1, <2>2, <3>1 DEF TimersOutlast
    <3>3. QED
      BY <1>1, <2>1, <2>2, <3>2 DEF Owed, Alive, Open, WaitIsHeld, TimersOutlast
  <2>3. TimeOwed(r)' = TimeOwed(r) /\ Owed(r)' = Owed(r)
    BY <1>2, <2>1 DEF TimeOwed, Owed, Alive
  <2>4. QED
    BY <1>1, <1>2, <2>1, <2>2, <2>3 DEF WaitIsHeld, TimersOutlast
<1>7. QED
  BY <1>3, <1>4, <1>5, <1>6

\* A frame takes what is queued, and at its end answers every wait whose
\* deadline has passed.
LEMMA FrameKeepsWaits ==
  ASSUME SlackCoversFrames, TypeOK, Inv, WaitInv, Drain \/ PollWaits \/ Hang
  PROVE  WaitInv'
<1> SUFFICES ASSUME NEW r \in Waits PROVE WaitIsHeld(r)' /\ (Smooth => TimersOutlast(r))'
  BY DEF WaitInv
<1>1. WaitIsHeld(r) /\ (Smooth => TimersOutlast(r)) /\ r \in Requests
  BY DEF WaitInv, Requests
<1>2. /\ UNCHANGED <<asked, stage, fallback, client, clientLeft>> /\ responded \subseteq responded'
      /\ Alive(r)' = Alive(r) /\ Open(r)' = Open(r)
  BY DEF Drain, PollWaits, Hang, Respond, serverVars, clientVars, history, Alive, Open
<1>3. /\ ClampedWait(asked[r]) \in Nat /\ ClampedWait(asked[r]) >= 1
      /\ stall \in Nat /\ MaxStall \in Nat /\ waitLeft[r] \in Nat
      /\ fallback[r] \in Nat /\ clientLeft[r] \in Nat
  BY <1>1, ClampType, BridgeAssumption DEF TypeOK, SlackCoversFrames
<1>4. ASSUME WaitIsHeld(r)', Smooth' => Smooth,
             Smooth /\ Owed(r)' => TimeOwed(r)' \in Int /\ TimeOwed(r)' <= TimeOwed(r)
      PROVE  WaitIsHeld(r)' /\ (Smooth => TimersOutlast(r))'
  <2>1. Owed(r)' => Owed(r)
    BY <1>2 DEF Owed
  <2>2. Smooth => TimeOwed(r) \in Nat
    BY <1>1, TimeOwedRange
  <2>3. QED
    BY <1>1, <1>2, <1>3, <1>4, <2>1, <2>2 DEF TimersOutlast
<1>5. CASE Drain
  <2>1. /\ UNCHANGED <<waits, waitLeft, stall, responded>>
        /\ frame = "between" /\ work' = queue /\ queue' = {}
    BY <1>5 DEF Drain, QueueAfterDrain, history
  <2>2. work = {}
    BY <2>1 DEF Inv, BatchEnds
  <2>3. WaitIsHeld(r)' /\ Smooth' = Smooth
    BY <1>1, <1>2, <2>1, <2>2 DEF WaitIsHeld, Owed, Smooth
  <2>4. TimeOwed(r)' = TimeOwed(r)
    BY <1>2, <1>3, <2>1 DEF TimeOwed
  <2>5. Smooth => TimeOwed(r) \in Nat
    BY <1>1, TimeOwedRange
  <2>6. QED
    BY <1>4, <2>3, <2>4, <2>5
<1>6. CASE Hang
  <2>1. /\ UNCHANGED <<waits, waitLeft, stall, responded, work, queue>>
        /\ frame = "polling" /\ frame' = "hung"
    BY <1>6 DEF Hang, history, serverVars
  <2>2. WaitIsHeld(r)' /\ Smooth' = Smooth
    BY <1>1, <1>2, <2>1 DEF WaitIsHeld, Owed, Smooth
  <2>3. TimeOwed(r)' = TimeOwed(r)
    BY <1>2, <2>1 DEF TimeOwed
  <2>4. Smooth => TimeOwed(r) \in Nat
    BY <1>1, TimeOwedRange
  <2>5. QED
    BY <1>4, <2>2, <2>3, <2>4
<1>7. CASE PollWaits
  <2>1. /\ frame = "polling" /\ frame' = "between" /\ work = {} /\ work' = {} /\ queue' = queue
        /\ stall' = IF Smooth THEN 0 ELSE stall
    BY <1>7 DEF PollWaits
  <2>2. PICK ended \in SUBSET waits :
          /\ {w \in waits : waitLeft[w] = 0} \subseteq ended
          /\ waits' = waits \ ended
          /\ waitLeft' = [w \in Waits |-> IF w \in ended THEN 0 ELSE waitLeft[w]]
          /\ Respond(ended)
    BY <1>7 DEF PollWaits
  <2>3. Owed(r)' => Owed(r) /\ r \notin ended
    BY <1>2, <2>2 DEF Respond, Owed
  <2>4. waitLeft'[r] = IF r \in ended THEN 0 ELSE waitLeft[r]
    BY <2>2
  <2>5. WaitIsHeld(r)'
    BY <1>1, <1>2, <1>3, <2>1, <2>2, <2>3, <2>4 DEF WaitIsHeld
  <2>6. Smooth' => Smooth
    BY <2>1, <1>3 DEF Smooth
  <2>7. ASSUME Smooth, Owed(r)' PROVE TimeOwed(r)' \in Int /\ TimeOwed(r)' <= TimeOwed(r)
    <3>1. r \notin ended /\ r \in queue \cup waits /\ stall' = 0 /\ stall <= MaxStall
      BY <1>1, <2>1, <2>3, <2>7 DEF WaitIsHeld, Smooth
    <3>2. CASE r \in waits
      <4>1. r \in waits' /\ waitLeft'[r] = waitLeft[r] /\ waitLeft[r] # 0
        BY <2>2, <2>4, <3>1, <3>2
      <4>2. QED
        BY <1>3, <3>2, <4>1 DEF TimeOwed
    <3>3. CASE r \notin waits
      <4>1. r \in queue /\ r \in queue' /\ r \notin waits'
        BY <2>1, <2>2, <3>1, <3>3
      <4>2. QED
        BY <1>2, <1>3, <2>1, <3>1, <3>3, <4>1 DEF TimeOwed
    <3>4. QED
      BY <3>2, <3>3
  <2>8. QED
    BY <1>4, <2>5, <2>6, <2>7
<1>8. QED
  BY <1>5, <1>6, <1>7

\* A wait is held for what it asked, clamped; whatever else the poll handles
\* concerns other requests, or answers this one.
LEMMA PollKeepsWaits ==
  ASSUME SlackCoversFrames, TypeOK, Inv, WaitInv, NEW s \in Requests,
         AnswerAtOnce(s) \/ HoldWait(s) \/ Review(s)
  PROVE  WaitInv'
<1> SUFFICES ASSUME NEW r \in Waits PROVE WaitIsHeld(r)' /\ (Smooth => TimersOutlast(r))'
  BY DEF WaitInv
<1>1. WaitIsHeld(r) /\ (Smooth => TimersOutlast(r)) /\ r \in Requests
  BY DEF WaitInv, Requests
<1>2. /\ UNCHANGED <<asked, stage, fallback, client, clientLeft, queue, frame, stall>>
      /\ responded \subseteq responded' /\ work' = work \ {s} /\ s \in work
      /\ Alive(r)' = Alive(r) /\ Open(r)' = Open(r) /\ Smooth' = Smooth
  BY DEF AnswerAtOnce, HoldWait, Review, NextOfBatch, Respond, RespondNone, clientVars, Alive,
         Open, Smooth
<1>3. CASE r # s
  <2>1. (r \in waits' <=> r \in waits) /\ waitLeft'[r] = waitLeft[r]
    BY <1>3 DEF AnswerAtOnce, HoldWait, Review, TypeOK
  <2>2. QED
    BY <1>1, <1>2, <1>3, <2>1, WaitKept
<1>4. CASE r = s /\ AnswerAtOnce(s)
  <2>1. ~Owed(r)' /\ waitLeft' = waitLeft
    BY <1>2, <1>4 DEF AnswerAtOnce, Respond, Owed
  <2>2. QED
    BY <1>1, <1>2, <2>1 DEF WaitIsHeld, TimersOutlast
<1>5. CASE r = s /\ HoldWait(s)
  <2>1. r \in waits' /\ waitLeft'[r] = ClampedWait(asked[r]) /\ responded' = responded
    BY <1>5 DEF HoldWait, RespondNone, TypeOK
  <2>2. /\ ClampedWait(asked[r]) \in Nat /\ ClampedWait(asked[r]) >= 1
        /\ stall \in Nat /\ MaxStall \in Nat
    BY ClampType, BridgeAssumption DEF TypeOK, SlackCoversFrames
  <2>3. r \notin queue /\ r \notin waits
    BY <1>2, <1>5 DEF Inv, OnePlace, HeldWasHandled
  <2>4. Smooth => TimeOwed(r)' \in Nat /\ TimeOwed(r)' <= TimeOwed(r) /\ TimeOwed(r) \in Nat
    BY <1>2, <2>1, <2>2, <2>3 DEF TimeOwed, Smooth
  <2>5. WaitIsHeld(r)'
    BY <1>1, <1>2, <2>1, <2>2 DEF WaitIsHeld
  <2>6. fallback[r] \in Nat /\ clientLeft[r] \in Nat /\ Owed(r)' = Owed(r)
    BY <1>1, <1>2, <2>1 DEF TypeOK, Owed
  <2>7. QED
    BY <1>1, <1>2, <2>1, <2>4, <2>5, <2>6 DEF TimersOutlast
<1>6. CASE r = s /\ Review(s)
  BY <1>6, BridgeAssumption DEF Review
<1>7. QED
  BY <1>3, <1>4, <1>5, <1>6

\* Dialogs answer reviews only.
LEMMA DialogKeepsWaits ==
  ASSUME TypeOK, WaitInv, Dialog \/ UNCHANGED vars
  PROVE  WaitInv'
<1> SUFFICES ASSUME NEW r \in Waits PROVE WaitIsHeld(r)' /\ (Smooth => TimersOutlast(r))'
  BY DEF WaitInv
<1>1. WaitIsHeld(r) /\ (Smooth => TimersOutlast(r))
  BY DEF WaitInv
<1>2. /\ UNCHANGED <<asked, stage, fallback, client, clientLeft, queue, frame, stall, work,
                     waits, waitLeft>>
      /\ responded \subseteq responded'
  BY DEF Dialog, Click, Expire, Respond, RespondNone, clientVars, vars, serverVars, guiVars,
         history
<1>3. QED
  BY <1>1, <1>2, WaitKept

\* A unit of time takes no more from the caller and the fallback than from what
\* the GUI may still take.
LEMMA TickKeepsWaits ==
  ASSUME SlackCoversFrames, TypeOK, Inv, WaitInv, Tick
  PROVE  WaitInv'
<1> SUFFICES ASSUME NEW r \in Waits PROVE WaitIsHeld(r)' /\ (Smooth => TimersOutlast(r))'
  BY DEF WaitInv
<1>1. WaitIsHeld(r) /\ (Smooth => TimersOutlast(r)) /\ r \in Requests
  BY DEF WaitInv, Requests
<1>2. /\ UNCHANGED <<asked, stage, client, queue, frame, work, waits, responded>>
      /\ Alive(r)' = Alive(r) /\ Open(r)' = Open(r) /\ Owed(r)' = Owed(r)
  BY DEF Tick, history, Alive, Open, Owed
<1>3. /\ ClampedWait(asked[r]) \in Nat /\ ClampedWait(asked[r]) >= 1
      /\ stall \in Nat /\ MaxStall \in Nat /\ waitLeft[r] \in Nat
      /\ fallback[r] \in Nat /\ clientLeft[r] \in Nat
  BY <1>1, ClampType, BridgeAssumption DEF TypeOK, SlackCoversFrames
<1>4. /\ waitLeft'[r] = Less(waitLeft[r]) /\ fallback'[r] = Less(fallback[r])
      /\ clientLeft'[r] = Less(clientLeft[r])
      /\ stall' = IF Smooth THEN stall + 1 ELSE stall
  BY <1>1 DEF Tick
<1>5. WaitIsHeld(r)'
  BY <1>1, <1>2, <1>3, <1>4 DEF WaitIsHeld, Less
<1>6. ASSUME Smooth' PROVE TimersOutlast(r)'
  <2>1. Smooth /\ stall' = stall + 1 /\ stall + 1 <= MaxStall
    BY <1>3, <1>4, <1>6 DEF Smooth
  <2>2. TimeOwed(r) \in Nat
    BY <1>1, <2>1, TimeOwedRange
  <2>3. TimeOwed(r)' \in Int /\ TimeOwed(r)' <= TimeOwed(r) - 1
    BY <1>2, <1>3, <1>4, <2>1 DEF TimeOwed, Less
  <2>4. fallback[r] > TimeOwed(r) => fallback'[r] > TimeOwed(r)'
    BY <1>3, <1>4, <2>2, <2>3 DEF Less
  <2>5. clientLeft[r] > TimeOwed(r) => clientLeft'[r] > TimeOwed(r)'
    BY <1>3, <1>4, <2>2, <2>3 DEF Less
  <2>6. QED
    BY <1>1, <1>2, <2>1, <2>4, <2>5 DEF TimersOutlast
<1>7. QED
  BY <1>5, <1>6

\* The timers of the waits, through every step.
LEMMA NextKeepsWaits ==
  ASSUME SlackCoversFrames, TypeOK, Inv, WaitInv, [Next]_vars
  PROVE  WaitInv'
<1>1. ASSUME NEW s \in Requests, Connection(s) PROVE WaitInv'
  BY <1>1, CallKeepsWaits, EndsKeepWaits DEF Connection
<1>2. ASSUME NEW s \in Waits, GiveUp(s) PROVE WaitInv'
  BY <1>2, EndsKeepWaits DEF Requests
<1>3. CASE Poll \/ Hang
  BY <1>3, FrameKeepsWaits, PollKeepsWaits DEF Poll
<1>4. CASE Dialog \/ UNCHANGED vars
  BY <1>4, DialogKeepsWaits
<1>5. CASE Tick
  BY <1>5, TickKeepsWaits
<1>6. QED
  BY <1>1, <1>2, <1>3, <1>4, <1>5 DEF Next

\* No wait is owed before the first call.
LEMMA InitWaits == Init => WaitInv
<1> SUFFICES ASSUME Init, NEW r \in Waits
             PROVE  WaitIsHeld(r) /\ TimersOutlast(r)
  BY DEF WaitInv
<1>1. ClampedWait(asked[r]) \in Nat
  BY ClampType DEF Init
<1>2. stage[r] = "new" /\ client[r] = "idle" /\ waitLeft[r] = 0
  BY DEF Init, Requests
<1>3. QED
  BY <1>1, <1>2 DEF WaitIsHeld, TimersOutlast, Owed, Alive

-----------------------------------------------------------------------------
(* The clock of a dialog.                                                  *)

Registered(r) == stage[r] \in {"waiting", "elapsed", "timedOut"}

\* What a review has left is what its request has, but for the time since it
\* was drained; an open one was never answered.
ReviewTimes(r) ==
  /\ deadline[r] <= ReviewTimeout /\ reviewLeft[r] <= ReviewTimeout
  /\ Registered(r) /\ r \in queue => deadline[r] <= fallback[r]
  /\ Registered(r) /\ r \in work => deadline[r] <= fallback[r] + stall
  /\ Registered(r) /\ r \in reviews => reviewLeft[r] <= fallback[r] + MaxStall
  /\ stage[r] \in {"elapsed", "timedOut"} => fallback[r] = 0
  /\ r \in reviews => stage[r] # "answered" /\ r \notin inbox

ReviewInv == \A r \in Reviews : Smooth => ReviewTimes(r)

\* Before the first call every clock is at zero.
LEMMA InitReviews == Init => ReviewInv
  BY BridgeAssumption DEF Init, ReviewInv, ReviewTimes, Registered, Requests

\* A review that a step leaves alone keeps its clocks.
LEMMA ReviewKept ==
  ASSUME NEW r \in Reviews, Smooth => ReviewTimes(r),
         stage'[r] = stage[r], fallback'[r] = fallback[r],
         deadline'[r] = deadline[r], reviewLeft'[r] = reviewLeft[r],
         r \in queue' => r \in queue, r \in work' => r \in work,
         r \in reviews' => r \in reviews, r \in inbox' => r \in inbox,
         stall' = stall
  PROVE  (Smooth => ReviewTimes(r))'
  BY DEF Smooth, ReviewTimes, Registered

\* The request's own clock starts with the call, the fallback with the channel,
\* and neither is left when the fallback has run out.
LEMMA ConnectionKeepsReviews ==
  ASSUME TypeOK, Inv, ReviewInv, NEW s \in Requests, Connection(s)
  PROVE  ReviewInv'
<1> SUFFICES ASSUME NEW r \in Reviews, Smooth' PROVE ReviewTimes(r)'
  BY DEF ReviewInv
<1>1. /\ UNCHANGED <<work, frame, reviews, reviewLeft, stall>> /\ inbox' \subseteq inbox
      /\ Smooth /\ ReviewTimes(r) /\ r \in Requests
  BY DEF Connection, Call, Reject, Register, Deliver, Elapse, Withdraw, clientVars, guiVars,
         history, Smooth, ReviewInv, Requests
<1>2. /\ deadline[r] \in Nat /\ reviewLeft[r] \in Nat /\ fallback[r] \in Nat
      /\ stall \in Nat /\ MaxStall \in Nat /\ ReviewTimeout \in Nat
  BY <1>1, BridgeAssumption DEF TypeOK
<1>3. CASE r # s
  <2>1. /\ stage'[r] = stage[r] /\ fallback'[r] = fallback[r] /\ deadline'[r] = deadline[r]
        /\ (r \in queue' => r \in queue)
    BY <1>1, <1>3 DEF Connection, Call, Reject, Register, Deliver, Elapse, Withdraw,
                      QueueWithout, clientVars, TypeOK
  <2>2. QED
    BY <1>1, <2>1, ReviewKept
<1>4. CASE r = s /\ (Call(s) \/ Reject(s))
  <2>1. r \notin reviews
    BY <1>4 DEF Call, Reject, Inv, OnePlace, HeldWasHandled
  <2>2. stage'[r] \in {"queued", "refused"} /\ deadline'[r] <= ReviewTimeout
    BY <1>1, <1>2, <1>4, FallbackType DEF Call, Reject, TypeOK, ReviewTimes
  <2>3. QED
    BY <1>1, <2>1, <2>2 DEF ReviewTimes, Registered
<1>5. CASE r = s /\ Register(s)
  <2>1. /\ stage[r] = "queued" /\ stage'[r] = "waiting" /\ fallback'[r] = ReviewTimeout
        /\ UNCHANGED <<queue, deadline, inbox>>
    BY <1>1, <1>5, FallbackType DEF Register, TypeOK
  <2>2. QED
    BY <1>1, <1>2, <2>1 DEF ReviewTimes
<1>6. CASE r = s /\ Deliver(s)
  <2>1. r \notin reviews /\ stage'[r] = "answered" /\ UNCHANGED <<queue, deadline>>
    BY <1>1, <1>6 DEF Deliver, TypeOK, ReviewTimes
  <2>2. QED
    BY <1>1, <2>1 DEF ReviewTimes, Registered
<1>7. CASE r = s /\ (Elapse(s) \/ Withdraw(s))
  <2>1. /\ Registered(r) /\ fallback[r] = 0 /\ stage'[r] \in {"elapsed", "timedOut"}
        /\ UNCHANGED <<fallback, deadline, inbox>> /\ queue' \subseteq queue
    BY <1>1, <1>7 DEF Elapse, Withdraw, FallbackDue, QueueWithout, Registered, ReviewTimes,
                      TypeOK
  <2>2. QED
    BY <1>1, <2>1 DEF ReviewTimes, Registered
<1>8. QED
  BY <1>3, <1>4, <1>5, <1>6, <1>7 DEF Connection

\* A drained review keeps the time it had; its dialog gets that and no more.
LEMMA PollKeepsReviews ==
  ASSUME TypeOK, Inv, ReviewInv, Poll
  PROVE  ReviewInv'
<1> SUFFICES ASSUME NEW r \in Reviews, Smooth' PROVE ReviewTimes(r)'
  BY DEF ReviewInv
<1>0. UNCHANGED <<stage, deadline, fallback>> /\ r \in Requests
  BY DEF Poll, Drain, PollWaits, AnswerAtOnce, HoldWait, Review, Requests
<1>1. Smooth /\ ReviewTimes(r)
  <2>1. stall' = stall \/ stall' = (IF Smooth THEN 0 ELSE stall)
    <3>1. CASE Drain
      BY <3>1 DEF Drain
    <3>2. CASE PollWaits
      BY <3>2 DEF PollWaits
    <3>3. CASE \E s \in Requests : AnswerAtOnce(s) \/ HoldWait(s) \/ Review(s)
      BY <3>3 DEF AnswerAtOnce, HoldWait, Review
    <3>4. QED
      BY <3>1, <3>2, <3>3 DEF Poll
  <2>2. Smooth
    <3>1. CASE stall' = stall
      BY <3>1 DEF Smooth
    <3>2. CASE stall' # stall
      BY <2>1, <3>2
    <3>3. QED
      BY <3>1, <3>2
  <2>3. QED
    BY <2>2 DEF ReviewInv
<1>2. /\ deadline[r] \in Nat /\ reviewLeft[r] \in Nat /\ fallback[r] \in Nat
      /\ stall \in Nat /\ MaxStall \in Nat /\ ReviewTimeout \in Nat /\ stall <= MaxStall
  BY <1>0, <1>1, BridgeAssumption DEF TypeOK, Smooth
<1>3. CASE Drain
  BY <1>0, <1>1, <1>2, <1>3 DEF Drain, QueueAfterDrain, ReviewTimes, Registered
<1>4. CASE PollWaits
  <2>1. UNCHANGED <<queue, work, reviews, reviewLeft>> /\ work = {}
    BY <1>4 DEF PollWaits
  <2>2. r \in inbox' => r \in inbox
    BY <1>4, BridgeAssumption DEF PollWaits, Respond, TypeOK
  <2>3. QED
    BY <1>0, <1>1, <2>1, <2>2 DEF ReviewTimes, Registered
<1>5. ASSUME NEW s \in Requests, AnswerAtOnce(s) \/ HoldWait(s) PROVE ReviewTimes(r)'
  <2>1. UNCHANGED <<queue, reviews, reviewLeft, stall>> /\ work' \subseteq work /\ r # s
    BY <1>5, BridgeAssumption DEF AnswerAtOnce, HoldWait, NextOfBatch
  <2>2. r \in inbox' => r \in inbox
    BY <1>5, <2>1 DEF AnswerAtOnce, HoldWait, Respond, RespondNone
  <2>3. QED
    BY <1>0, <1>1, <2>1, <2>2 DEF ReviewTimes, Registered
<1>6. ASSUME NEW s \in Requests, Review(s), r # s PROVE ReviewTimes(r)'
  <2>1. /\ UNCHANGED <<queue, stall>> /\ work' \subseteq work
        /\ (r \in reviews' => r \in reviews) /\ (r \in inbox' => r \in inbox)
        /\ reviewLeft'[r] = reviewLeft[r]
    BY <1>6 DEF Review, Respond, RespondNone, TypeOK
  <2>2. QED
    BY <1>0, <1>1, <1>6, <2>1 DEF ReviewTimes, Registered
<1>7. ASSUME Review(r) PROVE ReviewTimes(r)'
  <2>1. /\ r \in work /\ r \notin work' /\ r \notin queue' /\ r \notin reviews /\ r \notin inbox
        /\ stage[r] # "answered" /\ UNCHANGED <<queue, stall>>
    BY <1>0, <1>7 DEF Review, NextOfBatch, Inv, OnePlace, HeldWasHandled
  <2>2. CASE r \notin reviews'
    <3>1. reviewLeft' = reviewLeft
      BY <1>7, <2>2 DEF Review
    <3>2. QED
      BY <1>0, <1>1, <2>1, <2>2, <3>1 DEF ReviewTimes, Registered
  <2>3. CASE r \in reviews'
    <3>1. reviewLeft'[r] = deadline[r] /\ inbox' = inbox
      BY <1>7, <2>1, <2>3 DEF Review, ReviewTime, RespondNone, TypeOK
    <3>2. QED
      BY <1>0, <1>1, <1>2, <2>1, <3>1 DEF ReviewTimes, Registered
  <2>4. QED
    BY <2>2, <2>3
<1>8. QED
  BY <1>3, <1>4, <1>5, <1>6, <1>7 DEF Poll

\* A dialog that ends is no longer due, and time runs for all clocks alike.
LEMMA OtherKeepsReviews ==
  ASSUME TypeOK, Inv, ReviewInv, Hang \/ Dialog \/ Tick \/ (\E s \in Waits : GiveUp(s)) \/ UNCHANGED vars
  PROVE  ReviewInv'
<1> SUFFICES ASSUME NEW r \in Reviews, Smooth' PROVE ReviewTimes(r)'
  BY DEF ReviewInv
<1>1. /\ deadline[r] \in Nat /\ reviewLeft[r] \in Nat /\ fallback[r] \in Nat
      /\ stall \in Nat /\ MaxStall \in Nat /\ ReviewTimeout \in Nat
  BY BridgeAssumption DEF TypeOK, Requests
<1>2. CASE Tick
  <2>1. Smooth /\ stall' = stall + 1
    BY <1>1, <1>2 DEF Tick, Smooth
  <2>2. /\ deadline'[r] = IF r \in queue THEN Less(deadline[r]) ELSE deadline[r]
        /\ fallback'[r] = Less(fallback[r]) /\ reviewLeft'[r] = Less(reviewLeft[r])
        /\ UNCHANGED <<stage, queue, work, reviews, inbox>>
    BY <1>2 DEF Tick, Requests
  <2>3. ReviewTimes(r) /\ (r \in work => r \notin queue)
    BY <2>1 DEF ReviewInv, Inv, OnePlace
  <2>4. QED
    BY <1>1, <2>1, <2>2, <2>3 DEF ReviewTimes, Registered, Less
<1>3. CASE Hang \/ (\E s \in Waits : GiveUp(s)) \/ UNCHANGED vars
  <2>1. UNCHANGED <<stage, deadline, fallback, queue, work, reviews, reviewLeft, inbox, stall>>
    BY <1>3 DEF Hang, GiveUp, vars, serverVars, guiVars
  <2>2. QED
    BY <2>1, ReviewKept DEF ReviewInv
<1>4. ASSUME NEW s \in Reviews, Expire(s) \/ \E accept \in BOOLEAN : Click(s, accept)
      PROVE  ReviewTimes(r)'
  <2>1. /\ UNCHANGED <<stage, deadline, fallback, queue, work, stall>>
        /\ reviews' = reviews \ {s} /\ reviewLeft'[r] \in {0, reviewLeft[r]}
    BY <1>4 DEF Expire, Click, Finish, TypeOK
  <2>2. r \in reviews' => r # s /\ r \in reviews /\ reviewLeft'[r] = reviewLeft[r] /\ (r \in inbox' => r \in inbox)
    BY <1>4, <2>1 DEF Expire, Click, Finish, Respond, RespondNone, TypeOK
  <2>3. ReviewTimes(r)
    BY <2>1 DEF ReviewInv, Smooth
  <2>4. QED
    BY <1>1, <2>1, <2>2, <2>3 DEF ReviewTimes, Registered
<1>5. QED
  BY <1>2, <1>3, <1>4 DEF Dialog

\* The clocks of the reviews, through every step.
LEMMA NextKeepsReviews ==
  ASSUME TypeOK, Inv, ReviewInv, [Next]_vars
  PROVE  ReviewInv'
  BY ConnectionKeepsReviews, PollKeepsReviews, OtherKeepsReviews DEF Next

\* For any timeouts that leave a pane wait three frames of slack, its fallback
\* never cuts it short and its caller is still there when it is answered; and a
\* dialog outlives its request by one frame at most, whatever the timeouts are
\* (fallback_timeout in ipc.rs, pane_wait.rs, _show_plugin_review).
THEOREM ClocksAgree ==
  ASSUME SlackCoversFrames
  PROVE  Spec => []TimersAgree
<1> DEFINE TimeInv == TypeOK /\ Inv /\ WaitInv /\ ReviewInv
<1>1. Init => TimeInv
  BY InitTypes, InitInv, InitWaits, InitReviews
<1>2. TimeInv /\ [Next]_vars => TimeInv'
  BY SlackCoversFrames, NextTypes, NextInv, NextKeepsWaits, NextKeepsReviews
<1>3. TimeInv => TimersAgree
  <2> SUFFICES ASSUME TimeInv PROVE TimersAgree
    OBVIOUS
  <2>1. WaitNotCutShort /\ CallerOutlivesWait
    BY DEF WaitInv, TimersOutlast, WaitNotCutShort, CallerOutlivesWait
  <2>2. ASSUME NEW r \in reviews, ~Open(r), Smooth PROVE reviewLeft[r] <= MaxStall
    <3>1. r \in Reviews /\ r \in Requests /\ ReviewTimes(r) /\ reviewLeft[r] \in Nat /\ MaxStall \in Nat
      BY <2>2, BridgeAssumption DEF ReviewInv, TypeOK, Requests
    <3>2. stage[r] \notin {"new", "refused", "answered"}
      BY <3>1 DEF Inv, OnePlace, HeldWasHandled, ReviewTimes
    <3>3. stage[r] = "timedOut"
      BY <2>2, <3>1, <3>2 DEF Open, TypeOK, Stages
    <3>4. QED
      BY <3>1, <3>3 DEF ReviewTimes, Registered
  <2>3. QED
    BY <2>1, <2>2 DEF TimersAgree, DeadReviewIsDue
<1> HIDE DEF TimeInv
<1>4. QED
  BY <1>1, <1>2, <1>3, PTL DEF Spec
=============================================================================
