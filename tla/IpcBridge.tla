----------------------------- MODULE IpcBridge -----------------------------
(***************************************************************************)
(* The bridge between the control socket's connections (tokio tasks) and   *)
(* the GUI thread that answers them once a frame                           *)
(* (crates/gpty-gdext/src/ipc.rs, workspace.gd, ipc_handlers.gd).          *)
(*                                                                         *)
(* A connection pushes its request and, under a second lock, registers the *)
(* channel it will wait on.  The GUI drains the queue each frame, answers  *)
(* what it can at once, and holds the answers of pane waits and of plugin  *)
(* reviews.  Every request has a fallback deadline; the caller has its own.*)
(* Timers are countdowns: a tick takes one unit off each armed timer, and  *)
(* a timer at 0 may fire at any later moment, as a real one may.           *)
(***************************************************************************)
EXTENDS Integers, FiniteSets

CONSTANTS
  Direct, Waits, Reviews, \* the requests, by kind of method: answered from
                          \* the poll loop, paneWait, pluginInstall
  AskedWaits,     \* values of paneWait's timeout_ms parameter
  MinWait,        \* the lower clamp of a pane wait (100 ms)
  WaitCeiling,    \* the upper clamp of a pane wait (60 s)
  GdsTimeout,     \* GDS_RESPONSE_TIMEOUT
  PaneWaitTimeout,\* PANE_WAIT_TIMEOUT
  ReviewTimeout,  \* PLUGIN_REVIEW_TIMEOUT
  WaitSlack,      \* what pane-wait adds to the server's deadline (2 s)
  MaxReviews,     \* PLUGIN_REVIEW_MAX_PENDING
  MaxConnections, \* MAX_CONNECTIONS
  MaxStall        \* the longest time between two frames that is tolerated

Requests == Direct \cup Waits \cup Reviews

ASSUME BridgeAssumption ==
  /\ Direct \cap Waits = {} /\ Direct \cap Reviews = {} /\ Waits \cap Reviews = {}
  /\ IsFiniteSet(Requests)
  /\ AskedWaits \subseteq Int
  /\ MinWait \in Nat /\ WaitCeiling \in Nat /\ MinWait <= WaitCeiling
  /\ GdsTimeout \in Nat /\ PaneWaitTimeout \in Nat /\ ReviewTimeout \in Nat
  /\ WaitSlack \in Nat
  /\ MaxReviews \in Nat /\ MaxConnections \in Nat /\ MaxStall \in Nat

VARIABLES
  stage,      \* where each request's connection task is
  queue,      \* ids in PENDING_REQUESTS
  position,   \* the order in which they were pushed
  pushed,     \* how many were pushed so far
  channels,   \* ids in PENDING_RESPONSES
  inbox,      \* requests whose oneshot holds an answer
  deadline,   \* IpcRequest.deadline: time left, as last computed for the GUI
  fallback,   \* time left of the handler's own timeout
  asked,      \* a pane wait's timeout_ms
  client,     \* what the caller of a pane wait is doing
  clientLeft, \* time left of its read timeout
  work,       \* the batch _poll_ipc_requests is walking
  frame,      \* "between" two frames, "polling", or "hung" for good
  waits,      \* keys of _pending_waits
  waitLeft,   \* time left of their deadline_ms
  reviews,    \* keys of _pending_plugin_reviews
  reviewLeft, \* time left of their ReviewExpiry timer
  approved,   \* plugins recorded by TrustedStore.approve_plugin
  stall,      \* time since the last frame; MaxStall + 1 once it was too long
  handled,    \* history: requests the GUI has dispatched
  responded   \* history: requests it answered before their deadline

serverVars == <<stage, queue, position, pushed, channels, inbox, deadline, fallback>>
clientVars == <<asked, client, clientLeft>>
guiVars == <<work, frame, waits, waitLeft, reviews, reviewLeft, approved, stall>>
history == <<handled, responded>>
vars == <<serverVars, clientVars, guiVars, history>>

Stages == {"new", "refused", "queued", "waiting", "elapsed", "answered", "timedOut"}

\* The connection task still holds its slot.
Open(r) == stage[r] \in {"queued", "waiting", "elapsed"}
Alive(r) == stage[r] \in {"queued", "waiting"}

\* saturating_duration_since
Less(t) == IF t = 0 THEN 0 ELSE t - 1
Smooth == stall <= MaxStall

TypeOK ==
  /\ stage \in [Requests -> Stages]
  /\ queue \subseteq Requests /\ channels \subseteq Requests /\ inbox \subseteq Requests
  /\ position \in [Requests -> Nat] /\ pushed \in Nat
  /\ deadline \in [Requests -> Nat] /\ fallback \in [Requests -> Nat]
  /\ asked \in [Waits -> AskedWaits]
  /\ client \in [Waits -> {"idle", "calling", "gaveUp", "told", "dropped"}]
  /\ clientLeft \in [Waits -> Nat]
  /\ work \subseteq Requests /\ frame \in {"between", "polling", "hung"}
  /\ waits \subseteq Waits /\ waitLeft \in [Waits -> Nat]
  /\ reviews \subseteq Reviews /\ reviewLeft \in [Reviews -> Nat]
  /\ approved \subseteq Reviews
  /\ stall \in 0..MaxStall + 1
  /\ handled \subseteq Requests /\ responded \subseteq Requests

-----------------------------------------------------------------------------
(* The timeouts.                                                           *)

\* fallback_timeout
FallbackTimeout(r) ==
  CASE r \in Direct  -> GdsTimeout
    [] r \in Waits   -> PaneWaitTimeout
    [] r \in Reviews -> ReviewTimeout

\* clampi(timeout_ms, 100, 60000), in the GUI and in the CLI.
ClampedWait(t) ==
  IF t < MinWait THEN MinWait ELSE IF t > WaitCeiling THEN WaitCeiling ELSE t

\* The read timeout of a pane wait's caller.
ClientTimeout(r) == ClampedWait(asked[r]) + WaitSlack

-----------------------------------------------------------------------------
(* The connection's side: tokio tasks.                                     *)

Init ==
  /\ stage = [r \in Requests |-> "new"]
  /\ queue = {} /\ position = [r \in Requests |-> 0] /\ pushed = 0
  /\ channels = {} /\ inbox = {}
  /\ deadline = [r \in Requests |-> 0] /\ fallback = [r \in Requests |-> 0]
  /\ asked \in [Waits -> AskedWaits]
  /\ client = [r \in Waits |-> "idle"] /\ clientLeft = [r \in Waits |-> 0]
  /\ work = {} /\ frame = "between"
  /\ waits = {} /\ waitLeft = [r \in Waits |-> 0]
  /\ reviews = {} /\ reviewLeft = [r \in Reviews |-> 0]
  /\ approved = {} /\ stall = 0
  /\ handled = {} /\ responded = {}

FreeSlot == Cardinality({r \in Requests : Open(r)}) < MaxConnections

\* A caller connects, the server takes a slot, reads the frame, and the
\* handler pushes the request.  Its response channel is not registered yet.
Call(r) ==
  /\ stage[r] = "new" /\ FreeSlot
  /\ stage' = [stage EXCEPT ![r] = "queued"]
  /\ queue' = queue \cup {r}
  /\ pushed' = pushed + 1 /\ position' = [position EXCEPT ![r] = pushed + 1]
  /\ deadline' = [deadline EXCEPT ![r] = FallbackTimeout(r)]
  /\ client' = [w \in Waits |-> IF w = r THEN "calling" ELSE client[w]]
  /\ clientLeft' = [w \in Waits |-> IF w = r THEN ClientTimeout(w) ELSE clientLeft[w]]
  /\ UNCHANGED <<channels, inbox, fallback, asked, guiVars, history>>

\* Every slot is taken: the connection is dropped unread.
Reject(r) ==
  /\ stage[r] = "new" /\ ~FreeSlot
  /\ stage' = [stage EXCEPT ![r] = "refused"]
  /\ client' = [w \in Waits |-> IF w = r THEN "dropped" ELSE client[w]]
  /\ UNCHANGED <<queue, position, pushed, channels, inbox, deadline, fallback,
                 asked, clientLeft, guiVars, history>>

\* The second critical section of the handler, then its timeout starts.
Register(r) ==
  /\ stage[r] = "queued"
  /\ stage' = [stage EXCEPT ![r] = "waiting"]
  /\ channels' = channels \cup {r}
  /\ fallback' = [fallback EXCEPT ![r] = FallbackTimeout(r)]
  /\ UNCHANGED <<queue, position, pushed, inbox, deadline, clientVars, guiVars, history>>

\* The response is written: the caller hears it unless it stopped listening.
Tell(r) ==
  /\ client' = [w \in Waits |->
                  IF w = r /\ client[w] = "calling" THEN "told" ELSE client[w]]
  /\ clientLeft' = [w \in Waits |-> IF w = r THEN 0 ELSE clientLeft[w]]

\* The oneshot resolves: the answer is written and the connection ends.
Deliver(r) ==
  /\ stage[r] = "waiting" /\ r \in inbox
  /\ stage' = [stage EXCEPT ![r] = "answered"]
  /\ inbox' = inbox \ {r}
  /\ fallback' = [fallback EXCEPT ![r] = 0]
  /\ Tell(r)
  /\ UNCHANGED <<queue, position, pushed, channels, deadline, asked, guiVars, history>>

FallbackDue(r) == fallback[r] = 0

\* tokio's timeout polls the answer first, so it elapses only without one;
\* the receiver is dropped here, before the entries are.
Elapse(r) ==
  /\ stage[r] = "waiting" /\ FallbackDue(r) /\ r \notin inbox
  /\ stage' = [stage EXCEPT ![r] = "elapsed"]
  /\ UNCHANGED <<queue, position, pushed, channels, inbox, deadline, fallback,
                 clientVars, guiVars, history>>

\* Flawed: the queue entry outlives the request.
QueueLeft(r) == queue

\* queue.retain(|req| req.id != id)
QueueWithout(r) == queue \ {r}

\* The cleanup of an elapsed request, under both locks, then the error.
Withdraw(r) ==
  /\ stage[r] = "elapsed"
  /\ stage' = [stage EXCEPT ![r] = "timedOut"]
  /\ channels' = channels \ {r}
  /\ queue' = QueueWithout(r)
  /\ Tell(r)
  /\ UNCHANGED <<position, pushed, inbox, deadline, fallback, asked, guiVars, history>>

\* The caller's read timeout.  The server does not notice it.
GiveUp(r) ==
  /\ client[r] = "calling" /\ clientLeft[r] = 0
  /\ client' = [client EXCEPT ![r] = "gaveUp"]
  /\ UNCHANGED <<serverVars, asked, clientLeft, guiVars, history>>

-----------------------------------------------------------------------------
(* The GUI's side: one thread, one poll per frame.                         *)

\* complete_response for each of S: a request with no registered channel is
\* warned about and its answer is lost; a dropped receiver ignores the send.
Respond(S) ==
  /\ channels' = channels \ S
  /\ inbox' = inbox \cup {r \in S \cap channels : stage[r] = "waiting"}
  /\ responded' = responded \cup {r \in S : Alive(r)}

RespondNone == UNCHANGED <<channels, inbox, responded>>

\* Flawed: the GUI reads the queue without taking it.
QueueKept == queue

\* drain_requests: queue.drain(..)
QueueAfterDrain == {}

\* _poll_ipc_requests: the batch of this frame, with the time each has left.
Drain ==
  /\ frame = "between"
  /\ frame' = "polling"
  /\ work' = queue /\ queue' = QueueAfterDrain
  /\ UNCHANGED <<stage, position, pushed, channels, inbox, deadline, fallback,
                 clientVars, waits, waitLeft, reviews, reviewLeft, approved,
                 stall, history>>

\* The next request of the batch, in the order of the queue.
NextOfBatch(r) ==
  /\ frame = "polling" /\ r \in work
  /\ \A s \in work : position[r] <= position[s]

\* A method answered from the poll loop, or any method with bad arguments:
\* an unknown pane, a pane that is no terminal, an invalid pattern.
AnswerAtOnce(r) ==
  /\ NextOfBatch(r) /\ r \in Direct \cup Waits
  /\ work' = work \ {r} /\ handled' = handled \cup {r}
  /\ Respond({r})
  /\ UNCHANGED <<stage, queue, position, pushed, deadline, fallback, clientVars,
                 frame, waits, waitLeft, reviews, reviewLeft, approved, stall>>

\* dispatch_request: a pane wait is held, and its deadline starts now.
HoldWait(r) ==
  /\ NextOfBatch(r) /\ r \in Waits
  /\ work' = work \ {r} /\ handled' = handled \cup {r}
  /\ waits' = waits \cup {r}
  /\ waitLeft' = [waitLeft EXCEPT ![r] = ClampedWait(asked[r])]
  /\ RespondNone
  /\ UNCHANGED <<stage, queue, position, pushed, deadline, fallback, clientVars,
                 frame, reviews, reviewLeft, approved, stall>>

\* Flawed: the dialog gets the whole review window, however old the request.
ReviewTimeWhole(r) == ReviewTimeout

\* The review's expiry timer is armed with the time the request had left.
ReviewTime(r) == deadline[r]

ReviewsFull == Cardinality(reviews) >= MaxReviews

\* _show_plugin_review: no dialog for a request that is already dead, an
\* error when too many are open, a dialog with an expiry timer otherwise.
Review(r) ==
  /\ NextOfBatch(r) /\ r \in Reviews
  /\ work' = work \ {r} /\ handled' = handled \cup {r}
  /\ \/ deadline[r] = 0 /\ RespondNone /\ UNCHANGED <<reviews, reviewLeft>>
     \/ /\ deadline[r] > 0 /\ ReviewsFull
        /\ Respond({r}) /\ UNCHANGED <<reviews, reviewLeft>>
     \/ /\ deadline[r] > 0 /\ ~ReviewsFull
        /\ reviews' = reviews \cup {r}
        /\ reviewLeft' = [reviewLeft EXCEPT ![r] = ReviewTime(r)]
        /\ RespondNone
  /\ UNCHANGED <<stage, queue, position, pushed, deadline, fallback, clientVars,
                 frame, waits, waitLeft, approved, stall>>

\* _poll_pending_waits, the end of the frame's polling: a wait ends when its
\* pane is gone, when a line matches, or when its deadline has passed.
PollWaits ==
  /\ frame = "polling" /\ work = {}
  /\ \E ended \in SUBSET waits :
       /\ {r \in waits : waitLeft[r] = 0} \subseteq ended
       /\ waits' = waits \ ended
       /\ waitLeft' = [r \in Waits |-> IF r \in ended THEN 0 ELSE waitLeft[r]]
       /\ Respond(ended)
  /\ frame' = "between"
  /\ stall' = IF Smooth THEN 0 ELSE stall
  /\ UNCHANGED <<stage, queue, position, pushed, deadline, fallback, clientVars,
                 work, reviews, reviewLeft, approved, handled>>

\* A handler that never returns: no further frame.
Hang ==
  /\ frame = "polling" /\ frame' = "hung"
  /\ UNCHANGED <<serverVars, clientVars, work, waits, waitLeft, reviews, reviewLeft,
                 approved, stall, history>>

\* _finish_plugin_review
Finish(r) ==
  /\ reviews' = reviews \ {r}
  /\ reviewLeft' = [reviewLeft EXCEPT ![r] = 0]

\* A click on Install records the consent before it answers; a click on
\* Decline only answers.  Input is delivered between two frames' polls.
Click(r, accept) ==
  /\ frame = "between" /\ r \in reviews
  /\ approved' = IF accept THEN approved \cup {r} ELSE approved
  /\ Finish(r) /\ Respond({r})
  /\ UNCHANGED <<stage, queue, position, pushed, deadline, fallback, clientVars,
                 work, frame, waits, waitLeft, stall, handled>>

\* Flawed: the dialog stays open when its request is dead.
ReviewExpiresNever(r) == FALSE

ReviewExpires(r) == reviewLeft[r] = 0

\* _expire_plugin_review: nothing is answered.
Expire(r) ==
  /\ frame = "between" /\ r \in reviews /\ ReviewExpires(r)
  /\ Finish(r) /\ RespondNone
  /\ UNCHANGED <<stage, queue, position, pushed, deadline, fallback, clientVars,
                 work, frame, waits, waitLeft, approved, stall, handled>>

-----------------------------------------------------------------------------

Tick ==
  /\ deadline' = [r \in Requests |->
                    IF r \in queue THEN Less(deadline[r]) ELSE deadline[r]]
  /\ fallback' = [r \in Requests |-> Less(fallback[r])]
  /\ clientLeft' = [r \in Waits |-> Less(clientLeft[r])]
  /\ waitLeft' = [r \in Waits |-> Less(waitLeft[r])]
  /\ reviewLeft' = [r \in Reviews |-> Less(reviewLeft[r])]
  /\ stall' = IF Smooth THEN stall + 1 ELSE stall
  /\ UNCHANGED <<stage, queue, position, pushed, channels, inbox, asked, client,
                 work, frame, waits, reviews, approved, history>>

Connection(r) ==
  Call(r) \/ Reject(r) \/ Register(r) \/ Deliver(r) \/ Elapse(r) \/ Withdraw(r)

Poll ==
  \/ Drain
  \/ PollWaits
  \/ \E r \in Requests : AnswerAtOnce(r) \/ HoldWait(r) \/ Review(r)

Dialog == \E r \in Reviews : Expire(r) \/ \E accept \in BOOLEAN : Click(r, accept)

Next ==
  \/ \E r \in Requests : Connection(r)
  \/ \E r \in Waits : GiveUp(r)
  \/ Poll \/ Hang \/ Dialog \/ Tick

Spec == Init /\ [][Next]_vars

\* tokio runs the connection tasks and fires its timers; time passes.  The
\* engine calls _process and runs the timers in each frame, so a timer that is
\* due between frames again and again fires; nobody has to click, and the GUI
\* may hang.
FairSpec ==
  /\ Spec /\ WF_vars(Tick) /\ WF_vars(Poll)
  /\ \A r \in Requests :
       WF_vars(Register(r) \/ Deliver(r) \/ Elapse(r) \/ Withdraw(r))
  /\ \A r \in Reviews : SF_vars(Expire(r))

-----------------------------------------------------------------------------
(* Properties.                                                             *)

\* A request leaves nothing behind: a registered channel belongs to a request
\* still being waited for, and a request that timed out is in no queue, so
\* that the GUI cannot act later for a caller that was told it failed
\* (ipc.rs, the cleanup after the elapsed timeout).
NothingLeftBehind ==
  /\ \A r \in channels : stage[r] \in {"waiting", "elapsed"}
  /\ \A r \in queue : Open(r)

\* A pane wait is answered by the GUI, never by the fallback, as long as the
\* frames keep coming: the fallback outlives the longest wait even though
\* the wait's own deadline starts only when the GUI drains it (ipc.rs 78-84).
WaitNotCutShort ==
  \A r \in Waits : stage[r] = "timedOut" /\ Smooth => r \in responded

\* A dialog outlives its request by no more than the frame that armed it: its
\* timer counts what the request had left when it was drained, not a review
\* window of its own (_show_plugin_review).
DeadReviewIsDue ==
  \A r \in reviews : ~Open(r) /\ Smooth => reviewLeft[r] <= MaxStall

\* No more reviews wait on the human than the cap, whatever the interleaving.
ReviewsCapped == Cardinality(reviews) <= MaxReviews

\* How far the GUI got with a request, and what its connection was told.
ProgressOf(r) ==
  IF stage[r] \in {"new", "refused"} THEN "new"
  ELSE IF r \in queue THEN "queued"
  ELSE IF r \in work THEN "taken"
  ELSE IF r \in handled THEN "handled" ELSE "withdrawn"

OutcomeOf(r) ==
  IF stage[r] = "answered" THEN "reply"
  ELSE IF stage[r] = "timedOut" THEN "timeout"
  ELSE IF stage[r] = "refused" THEN "refused" ELSE "open"

Lifecycle == INSTANCE RequestLifecycle WITH
  progress <- [r \in Requests |-> ProgressOf(r)],
  outcome <- [r \in Requests |-> OutcomeOf(r)]

\* The bridge implements the life of a request: taken once, acted on once,
\* one outcome, no action after a withdrawal.
ImplementsLifecycle == Lifecycle!LifecycleSpec

\* Every accepted request ends and frees its connection slot, even if the GUI
\* hangs in the middle of a frame.
EveryRequestEnds == \A r \in Requests : Open(r) ~> ~Open(r)

\* The GUI's own tables empty again: a held wait and an open review end with
\* no click and no matching line, as long as frames keep coming.
TablesEmpty ==
  /\ \A r \in Waits : r \in waits ~> r \notin waits \/ frame = "hung"
  /\ \A r \in Reviews : r \in reviews ~> r \notin reviews \/ frame = "hung"

\* The caller of a pane wait is still listening when the GUI answers it, if
\* what it adds to the wait covers the frames on either side of it
\* (pane_wait.rs: "a read timeout that outlives the server-side deadline").
CallerOutlivesWait ==
  \A r \in Waits : Smooth /\ client[r] = "gaveUp" => r \in responded \/ stage[r] = "timedOut"

\* The clocks of a request agree, wherever its frames put it: the caller waits
\* longer than the wait, the fallback longer than both, and a dialog no longer
\* than its request.
TimersAgree == WaitNotCutShort /\ CallerOutlivesWait /\ DeadReviewIsDue

\* Nobody waits for ever, on either side of the bridge: requests end, and the
\* tables of the GUI empty.
RequestsEnd == EveryRequestEnds /\ TablesEmpty

-----------------------------------------------------------------------------
(* A claim of the comments that the code does not keep.                    *)

\* "If GDScript hasn't responded by then, the client receives an error": the
\* timeout error is for requests the GUI has not answered.
TimeoutMeansNoResponse ==
  \A r \in Requests : stage[r] = "timedOut" => r \notin responded
=============================================================================
