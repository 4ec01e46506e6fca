----------------------------- MODULE WindowsPipe -----------------------------
(* The control socket where there are no Unix sockets (server.rs): a named   *)
(* pipe.  Each instance of the name serves one client, several may exist at  *)
(* once, also of several processes; a process owns the name only by creating *)
(* its first instance with a flag that fails while any other exists.         *)
EXTENDS FiniteSets, Integers

CONSTANTS
    Servers,          \* GUI processes that share one name
    Peers,            \* processes that connect
    Own,              \* those of the user the servers run as
    MaxConnections,   \* MAX_CONNECTIONS
    StartupAttempts,  \* PIPE_STARTUP_ATTEMPTS
    MaxFaults         \* bound: creates that fail after one succeeded, crashes

ASSUME WindowsPipeAssumption ==
    /\ Own \subseteq Peers /\ MaxConnections \in Nat \ {0} /\ {StartupAttempts, MaxFaults} \subseteq Nat

VARIABLES
    accept,    \* server -> where its accept loop is
    claimed,   \* server -> any_instance_created
    created,   \* server -> created_any of serve
    failures,  \* server -> startup_failures
    served,    \* server -> peers whose handler runs, each on its instance
    faults

pipeVars == <<accept, claimed, created, failures, served, faults>>

PipeInit ==
    /\ accept = [s \in Servers |-> "off"] /\ claimed = [s \in Servers |-> FALSE]
    /\ created = [s \in Servers |-> FALSE]
    /\ failures = [s \in Servers |-> 0] /\ served = [s \in Servers |-> {}]
    /\ faults = 0

HasInstances(s) == accept[s] = "listening" \/ served[s] # {}
NameExists == \E s \in Servers : HasInstances(s)

Goes(s, where) == accept' = [accept EXCEPT ![s] = where]
Fault == faults < MaxFaults /\ faults' = faults + 1

LaunchServer(s) ==
    /\ accept[s] = "off" /\ Goes(s, "create")
    /\ UNCHANGED <<claimed, created, failures, served, faults>>

(* create_with: a create that failed has claimed nothing. *)
ClaimKept(s) == claimed[s]

(* What the name allows: any create, but the first only while no one has it. *)
Allowed(s) == claimed[s] \/ ~NameExists

CreateInstance(s) ==
    /\ accept[s] = "create" /\ Allowed(s)
    /\ Goes(s, "listening") /\ claimed' = [claimed EXCEPT ![s] = TRUE]
    /\ created' = [created EXCEPT ![s] = TRUE]
    /\ UNCHANGED <<failures, served, faults>>

(* pipe_name_is_taken: the flag found an instance, and the error says so. *)
NameTaken(s) ==
    /\ accept[s] = "create" /\ ~Allowed(s) /\ Goes(s, "refused")
    /\ UNCHANGED <<claimed, created, failures, served, faults>>

(* Any other error, also one that stands for a taken name: while nothing was *)
(* ever created, so many and no more.                                        *)
GivesUp(s) == failures[s] + 1 > StartupAttempts

CreateFails(s) ==
    /\ accept[s] = "create" /\ claimed' = [claimed EXCEPT ![s] = ClaimKept(s)]
    /\ IF created[s] THEN Fault /\ UNCHANGED <<accept, failures>>
       ELSE /\ failures' = [failures EXCEPT ![s] = @ + 1]
            /\ Goes(s, IF GivesUp(s) THEN "refused" ELSE "create")
            /\ UNCHANGED faults
    /\ UNCHANGED <<created, served>>

(* client_is_current_user: the user of the process at the other end, no one  *)
(* when that process or its token cannot be looked up.                       *)
Verified(p) == {p} \cap Own
Permits(s) == MaxConnections - Cardinality(served[s])

(* The instance goes with a client that is refused; a look-up can fail. *)
Accept(s, p) ==
    /\ accept[s] = "listening" /\ \A t \in Servers : p \notin served[t]
    /\ Goes(s, "create")
    /\ \E who \in SUBSET Verified(p) :
         served' = [served EXCEPT ![s] = @ \cup IF Permits(s) > 0 THEN who ELSE {}]
    /\ UNCHANGED <<claimed, created, failures, faults>>

ConnectFails(s) ==
    /\ accept[s] = "listening" /\ Goes(s, "create")
    /\ UNCHANGED <<claimed, created, failures, served, faults>>

HandlerEnds(s, p) ==
    /\ p \in served[s] /\ served' = [served EXCEPT ![s] = @ \ {p}]
    /\ UNCHANGED <<accept, claimed, created, failures, faults>>

(* A window whose server was refused quits; any process can be killed. *)
ServerGone(s) ==
    /\ \/ accept[s] = "refused" /\ UNCHANGED faults
       \/ accept[s] \in {"create", "listening"} /\ Fault
    /\ Goes(s, "gone") /\ served' = [served EXCEPT ![s] = {}]
    /\ UNCHANGED <<claimed, created, failures>>

PipeNext ==
    \E s \in Servers :
        \/ LaunchServer(s) \/ CreateInstance(s) \/ NameTaken(s) \/ CreateFails(s)
        \/ ConnectFails(s) \/ ServerGone(s)
        \/ \E p \in Peers : Accept(s, p) \/ HandlerEnds(s, p)

(* The accept loop never rests between two creates. *)
Creates(s) == CreateInstance(s) \/ NameTaken(s) \/ CreateFails(s)

PipeSpec == PipeInit /\ [][PipeNext]_pipeVars /\ \A s \in Servers : WF_pipeVars(Creates(s))

(***************************************************************************)
(* Properties                                                              *)
(***************************************************************************)

\* A starting GUI becomes a server of the name only while no instance of it
\* exists, whatever failed before: it never joins the pipe of another window.
StartsClaimTheName ==
    \A s \in Servers : accept[s] = "create" /\ accept'[s] = "listening" /\ NameExists => created[s]

\* A server holds no more clients than its slots, and none it cannot tell to
\* be its own user's.
SlotsAreOwn == \A s \in Servers : served[s] \subseteq Own /\ Cardinality(served[s]) <= MaxConnections

\* A window with no control surface does not look alive: a start that can
\* never create its pipe ends, refused.
StartsEnd ==
    \A s \in Servers : (accept[s] = "create" /\ ~created[s]) ~> accept[s] # "create"

\* serve on Windows: the start of a GUI, and the slots of its clients.
PipeStartsAreSafe == []SlotsAreOwn /\ [][StartsClaimTheName]_pipeVars /\ StartsEnd

\* The name has one owner at a time.  The code does not keep this: between the
\* end of its last instance and its next create a server holds none, a second
\* GUI claims the name then, and the first goes on creating beside it.
NameHasOneServer ==
    \A s, t \in Servers : HasInstances(s) /\ HasInstances(t) => s = t
=============================================================================
