------------------------- MODULE EventSubscriptions -------------------------
(***************************************************************************)
(* The event feed of a window: a client subscribes, then polls for the     *)
(* events the GUI emitted (pane spawned, killed, captured).  Slots are few *)
(* and a client may vanish, so a slot that was not polled for a while is   *)
(* released; a slow client loses its oldest events, never the newest.      *)
(*                                                                         *)
(* Every step is one lock of SUBSCRIPTIONS.  Time is the age of each slot, *)
(* counted to the limit SUBSCRIPTION_IDLE.  An event is its number.        *)
(*                                                                         *)
(* Bounds: Emissions events, MaxPolls polls at a time (the limit a poll    *)
(* asks for); the caps are the code's, smaller.                            *)
(***************************************************************************)
EXTENDS Integers, Sequences, FiniteSets

CONSTANTS Clients, MaxSubscriptions, MaxQueuedEvents, SubscriptionIdle, Emissions

ASSUME SubscriptionBoundsAssumption ==
  /\ MaxSubscriptions \in Nat \ {0} /\ MaxQueuedEvents \in Nat \ {0}
  /\ SubscriptionIdle \in Nat \ {0} /\ Emissions \in Nat

VARIABLES
  client,   \* out; waiting for a slot; polling; gone without a word
  slots,    \* SUBSCRIPTIONS: the clients that hold a slot
  waiting,  \* per client: the numbers queued in its slot
  age,      \* per client: time since its last poll
  emitted,  \* events emitted
  seen      \* history: per client, the last number its slot gave it

subscriptionVars == <<client, slots, waiting, age, emitted, seen>>

SubscriptionsTypeOK ==
  /\ client \in [Clients -> {"out", "asking", "polling", "gone"}]
  /\ slots \subseteq Clients /\ Cardinality(slots) <= MaxSubscriptions
  /\ waiting \in [Clients -> Seq(1..Emissions)] /\ age \in [Clients -> 0..SubscriptionIdle]
  /\ emitted \in 0..Emissions
  /\ seen \in [Clients -> 0..Emissions]

SubscriptionsInit ==
  /\ client = [c \in Clients |-> "out"] /\ slots = {}
  /\ waiting = [c \in Clients |-> <<>>] /\ age = [c \in Clients |-> 0]
  /\ emitted = 0 /\ seen = [c \in Clients |-> 0]

\* subscription_expired
Expired(c) == age[c] >= SubscriptionIdle
\* release_idle_subscriptions: the slot goes with what waited in it.
Kept == {c \in slots : ~Expired(c)}
Cleared(f, empty) == [c \in Clients |-> IF c \in slots \ Kept THEN empty ELSE f[c]]
Release ==
  /\ slots' = Kept /\ waiting' = Cleared(waiting, <<>>)
  /\ age' = Cleared(age, 0) /\ seen' = Cleared(seen, 0)

SlotFree == Cardinality(Kept) < MaxSubscriptions

\* subscribe_handler: idle slots are released, then a free one is taken.
Subscribe(c) ==
  /\ client[c] = "asking" /\ SlotFree
  /\ slots' = Kept \union {c}
  /\ client' = [client EXCEPT ![c] = "polling"]
  /\ waiting' = [Cleared(waiting, <<>>) EXCEPT ![c] = <<>>]
  /\ age' = [Cleared(age, 0) EXCEPT ![c] = 0] /\ seen' = [Cleared(seen, 0) EXCEPT ![c] = emitted]
  /\ UNCHANGED emitted

\* All slots taken: -32001, and the client asks again.
SubscribeRefused(c) ==
  /\ client[c] = "asking" /\ ~SlotFree
  /\ Release
  /\ UNCHANGED <<client, emitted>>

\* Flawed: a full queue loses the new event.
DropNewest(q, e) == IF Len(q) >= MaxQueuedEvents THEN q ELSE Append(q, e)
Enqueue(q, e) == Append(IF Len(q) >= MaxQueuedEvents THEN Tail(q) ELSE q, e)

\* emit_event: idle slots are released, the others get the event.
Emit ==
  /\ emitted < Emissions
  /\ emitted' = emitted + 1 /\ slots' = Kept
  /\ age' = Cleared(age, 0) /\ seen' = Cleared(seen, 0)
  /\ waiting' = [c \in Clients |-> IF c \in Kept THEN Enqueue(waiting[c], emitted') ELSE <<>>]
  /\ UNCHANGED client

\* events_poll_handler: up to limit events, oldest first; an idle slot that
\* nothing released yet is alive again.
Poll(c, limit) ==
  /\ client[c] = "polling" /\ c \in slots
  /\ LET n == IF limit < Len(waiting[c]) THEN limit ELSE Len(waiting[c])
     IN /\ waiting' = [waiting EXCEPT ![c] = SubSeq(@, n + 1, Len(@))]
        /\ seen' = [seen EXCEPT ![c] = IF n = 0 THEN @ ELSE waiting[c][n]]
  /\ age' = [age EXCEPT ![c] = 0]
  /\ UNCHANGED <<client, slots, emitted>>

\* The slot was released meanwhile: -32002, and the client subscribes anew.
PollUnknown(c) ==
  /\ client[c] = "polling" /\ c \notin slots
  /\ client' = [client EXCEPT ![c] = "asking"]
  /\ UNCHANGED <<slots, waiting, age, emitted, seen>>

\* The clients: one starts, or vanishes with its slot taken.
Start(c) ==
  /\ client[c] = "out"
  /\ client' = [client EXCEPT ![c] = "asking"]
  /\ UNCHANGED <<slots, waiting, age, emitted, seen>>

Vanish(c) ==
  /\ client[c] \in {"asking", "polling"}
  /\ client' = [client EXCEPT ![c] = "gone"]
  /\ UNCHANGED <<slots, waiting, age, emitted, seen>>

Pass ==
  /\ \E c \in slots : age[c] < SubscriptionIdle
  /\ age' = [c \in Clients |-> IF c \in slots /\ age[c] < SubscriptionIdle THEN age[c] + 1 ELSE age[c]]
  /\ UNCHANGED <<client, slots, waiting, emitted, seen>>

SubscriptionsNext ==
  \/ Emit \/ Pass
  \/ \E c \in Clients : Subscribe(c) \/ SubscribeRefused(c) \/ PollUnknown(c) \/ Start(c) \/ Vanish(c)
  \/ \E c \in Clients, limit \in 0..MaxQueuedEvents : Poll(c, limit)

\* Clients that are there keep asking and polling; time passes.
SubscriptionsSpec ==
  /\ SubscriptionsInit /\ [][SubscriptionsNext]_subscriptionVars
  /\ WF_subscriptionVars(Pass)
  /\ \A c \in Clients : WF_subscriptionVars(Subscribe(c))

----------------------------------------------------------------------------
\* A subscriber can trust the end of its feed: while it holds a slot, what
\* waits for it is a run of consecutive events up to the newest, nothing of
\* which it was given before, and it starts right after what it was given
\* unless the queue is full.
FeedEndsWithTheNewest ==
  \A c \in slots :
    LET q == waiting[c] IN
    /\ q = [i \in 1..Len(q) |-> emitted - Len(q) + i]
    /\ emitted - Len(q) = seen[c] \/ (Len(q) = MaxQueuedEvents /\ emitted - Len(q) > seen[c])

\* Slots come back: a client that keeps asking gets one, unless as many
\* others are there to hold them all, however many clients vanished with
\* theirs.
AskingIsHeard ==
  \A c \in Clients :
    (client[c] = "asking") ~> \/ client[c] # "asking"
                              \/ Cardinality({d \in Clients \ {c} : client[d] = "polling"}) >= MaxSubscriptions
=============================================================================
