------------------------------ MODULE MCAgents ------------------------------
(***************************************************************************)
(* The parts between a window and its agents, in one run: the event        *)
(* socket, the event feed, the state of one terminal, and the server that  *)
(* offers the window's calls as tools.  They share no variable; a          *)
(* behaviour is that of the part chosen at its start.                      *)
(***************************************************************************)
EXTENDS AgentEvents, EventSubscriptions, AgentState, McpServer

VARIABLE part

mcVars == <<part, eventVars, subscriptionVars, agentVars, mcpVars>>

InEvents(A) == part = "events" /\ A /\ UNCHANGED <<part, subscriptionVars, agentVars, mcpVars>>
InFeed(A) == part = "feed" /\ A /\ UNCHANGED <<part, eventVars, agentVars, mcpVars>>
InState(A) == part = "state" /\ A /\ UNCHANGED <<part, eventVars, subscriptionVars, mcpVars>>
InTools(A) == part = "tools" /\ A /\ UNCHANGED <<part, eventVars, subscriptionVars, agentVars>>

(* The parts that do not move start in one state. *)
MCInit ==
  /\ part \in {"events", "feed", "state", "tools"}
  /\ EventsInit /\ SubscriptionsInit /\ AgentInit /\ McpInit
  /\ part # "tools" => window = "down"

MCNext ==
  InEvents(EventsNext) \/ InFeed(SubscriptionsNext) \/ InState(AgentNext) \/ InTools(McpNext)

MCSpec ==
  /\ MCInit /\ [][MCNext]_mcVars
  /\ WF_mcVars(InFeed(Pass)) /\ \A c \in Clients : WF_mcVars(InFeed(Subscribe(c)))
  /\ WF_mcVars(InState(PollAgentState)) /\ WF_mcVars(InState(Prime))

\* What an agent reports arrives as long as there is room: the queue holds
\* events of live sessions in their order, within its limits, and a feed that
\* overflows has lost its oldest events and never its newest.
EventsArrive == EventQueueIsSound /\ FeedEndsWithTheNewest

\* A tool call is answered once, in turn, under its own id, and the window acts
\* on what the client asked for and on nothing it did not say.
ToolCallsAreSound == AnswersInOrder /\ CallsMeanWhatTheySay

\* Whoever waits is served: a client that asks for a slot of the feed, and the
\* panes that observe the terminal (where the terminal is the part that moves).
AgentsAreHeard == AskingIsHeard /\ (part = "state" => ObserversAgree)
=============================================================================
