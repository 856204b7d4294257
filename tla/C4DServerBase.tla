--------------------------- MODULE C4DServerBase ---------------------------
(***************************************************************************)
(* The shared state of c4d-server: the state machine of state.go, the node *)
(* registry of registry.go, the sessions of session.go, the node counters  *)
(* of types.go, the two mutexes that matter (NodeRegistry.mu and           *)
(* ClusterManager.mu), and the program counters of the goroutines that act *)
(* on them.  The modules Registration, FailureHandling and Reconfiguration *)
(* extend this one with the actions of server.go, monitor.go and           *)
(* cluster.go; C4DServer composes them.                                    *)
(*                                                                         *)
(* A critical section under registry.mu is one action.  registryMu is      *)
(* therefore only ever seen "free", or "leaked" once a handler returned    *)
(* from its critical section without unlocking.                            *)
(***************************************************************************)
EXTENDS Integers, FiniteSets, Sequences

CONSTANTS
    Node,           \* node identifiers, the keys of the registry's maps
    Url(_),         \* the URL a node registers with
    None,           \* no node, no owner
    ActiveNodes,    \* config.ActiveNodes = ExpectedNodes - StandbyNodes
    StandbyNodes,   \* config.StandbyNodes
    Goroutine,      \* reconfigurations that handleNodeFailure can have spawned
    ApiCall,        \* concurrent remove requests of the HTTP API
    Notifier,       \* concurrent NotifyFailure handlers
    Silent,         \* the nodes whose heartbeats may stop for a while
    Crashing,       \* the nodes that may report a failure
    Unreachable,    \* the nodes a command may fail to reach
    MaxAttempts,    \* reconfigureCluster's maxAttempts (3)
    MaxDisruptions  \* bound: failure reports and removals in a behaviour

ASSUME NodeAssumption ==
    /\ IsFiniteSet(Node)
    /\ None \notin Node
    /\ {Silent, Crashing, Unreachable} \subseteq SUBSET Node

\* A registry key is a node identifier and never a URL: the monitor registers
\* "task.namespace.port" under the URL "http://task.namespace:port".
ASSUME UrlAssumption == \A n \in Node : Url(n) \notin Node

ASSUME TaskAssumption ==
    /\ None \notin Goroutine \cup ApiCall
    /\ Goroutine \cap ApiCall = {}
    /\ (Goroutine \cup ApiCall) \cap Node = {}

ASSUME SizeAssumption ==
    /\ ActiveNodes \in Nat \ {0}
    /\ StandbyNodes \in Nat
    /\ MaxAttempts \in Nat \ {0}
    /\ MaxDisruptions \in Nat

VARIABLES
    state,        \* ServerState.current
    status,       \* status[n]: registry.nodes[n].Status, "absent" with no entry
    rank,         \* rank[n]: registry.nodes[n].Rank
    health,       \* health[n]: age of registry.health[n].LastHeartbeat
    healthFailed, \* healthFailed[n]: registry.health[n].Status = "failed"
    session,      \* session[n]: the entry of SessionManager.sessions
    activeCtr,    \* metrics.activeNodes
    standbyCtr,   \* metrics.standbyNodes
    registryMu,   \* NodeRegistry.mu
    cmMu,         \* the owner of ClusterManager.mu
    reg,          \* reg[n]: the Register handler serving node n
    starter,      \* starter[n]: that handler inside checkAndStartProgram
    notifier,     \* notifier[c]: the NotifyFailure handlers
    hm,           \* the node the health monitor is about to time out
    task,         \* task[t]: the executions of reconfigureCluster
    told,         \* told[n]: the last RANK delivered to n, -1 before any
    disruptions   \* bound: failure reports and removals so far

registryVars == <<status, rank, health, healthFailed>>
counterVars  == <<activeCtr, standbyCtr>>
handlerVars  == <<reg, starter, notifier, hm>>
vars == <<state, registryVars, session, counterVars, registryMu, cmMu,
          handlerVars, task, told, disruptions>>

-----------------------------------------------------------------------------
(* Types. *)

States == {"Initializing", "Running", "Reconfiguring", "Failed"}
Task   == Goroutine \cup ApiCall

TaskPC == {"idle", "begin", "collect", "promote", "count", "sort", "assign",
           "notify", "settle"}

\* One execution of reconfigureCluster.  The code holds pointers to NodeState;
\* lost is the set of nodes whose object has left the registry since, so that
\* writes through the pointer no longer reach the entry of that node.
TaskType ==
    [pc      : TaskPC,
     try     : Nat,              \* attempt
     roster  : SUBSET Node,      \* activeNodes
     lost    : SUBSET Node,
     promo   : SUBSET Node,      \* standbyNodes[i..numToPromote-1]
     done    : Nat,              \* i, the nodes promoted so far
     order   : Seq(Node),        \* activeNodes, sorted
     idx     : Nat,              \* i of the loop that assigns ranks
     pending : SUBSET Node,      \* nodes that have not been notified yet
     bad     : SUBSET Node]      \* failedNodes

IdleTask == [pc |-> "idle", try |-> 0, roster |-> {}, lost |-> {},
             promo |-> {}, done |-> 0, order |-> <<>>, idx |-> 0,
             pending |-> {}, bad |-> {}]

RegType == [pc   : {"idle", "admitted", "reserve", "session", "store", "count"},
            as   : {"active", "standby"},   \* nodeStatus
            rank : Int]                     \* nodeRank
IdleReg == [pc |-> "idle", as |-> "active", rank |-> 0]

StarterType == [pc      : {"idle", "waiting", "starting"},
                order   : Seq(Node),        \* activeNodes, sorted by URL
                pending : SUBSET Node,      \* nodes not answered yet
                bad     : SUBSET Node]      \* errors
IdleStarter == [pc |-> "idle", order |-> <<>>, pending |-> {}, bad |-> {}]

NotifierType == [pc : {"idle", "seen", "mark"}, node : Node \cup {None}]
IdleNotifier == [pc |-> "idle", node |-> None]

\* The type invariant of the server's state.
TypeOK ==
    /\ state \in States
    /\ status \in [Node -> {"absent", "active", "standby", "failed"}]
    /\ rank \in [Node -> Int]
    /\ health \in [Node -> {"absent", "fresh", "late", "dead"}]
    /\ healthFailed \in [Node -> BOOLEAN]
    /\ session \in [Node -> {"none", "connected", "disconnected"}]
    /\ activeCtr \in Int
    /\ standbyCtr \in Int
    /\ registryMu \in {"free", "leaked"}
    /\ cmMu \in {None} \cup Node \cup ApiCall
    /\ reg \in [Node -> RegType]
    /\ starter \in [Node -> StarterType]
    /\ notifier \in [Notifier -> NotifierType]
    /\ hm \in Node \cup {None}
    /\ task \in [Task -> TaskType]
    /\ told \in [Node -> Int]
    /\ disruptions \in Nat

-----------------------------------------------------------------------------
(* The state machine of state.go. *)

\* Mutant: a second failure during a reconfiguration is refused.
validTransitions_NoSelfLoop ==
    [s \in States |->
        CASE s = "Initializing"  -> {"Running"}
          [] s = "Running"       -> {"Reconfiguring", "Failed"}
          [] s = "Reconfiguring" -> {"Running", "Failed"}
          [] s = "Failed"        -> {}]

\* Mutant: the server may reconfigure before it has started.
validTransitions_Early ==
    [s \in States |->
        CASE s = "Initializing"  -> {"Running", "Reconfiguring"}
          [] s = "Running"       -> {"Reconfiguring", "Failed"}
          [] s = "Reconfiguring" -> {"Running", "Reconfiguring", "Failed"}
          [] s = "Failed"        -> {}]

\* Transition's table.  A transition to Failed never consults it.
validTransitions ==
    [s \in States |->
        CASE s = "Initializing"  -> {"Running"}
          [] s = "Running"       -> {"Reconfiguring", "Failed"}
          [] s = "Reconfiguring" -> {"Running", "Reconfiguring", "Failed"}
          [] s = "Failed"        -> {}]

CanTransition(to) == to \in validTransitions[state]

\* Transition(Failed) ends the process with os.Exit(1): nothing runs after it.
Alive == state # "Failed"

-----------------------------------------------------------------------------
(* The registry. *)

Registered == {n \in Node : status[n] # "absent"}
WithStatus(s) == {n \in Node : status[n] = s}

\* A step that has registry.mu to itself.
UnderRegistryMu == registryMu = "free"

\* The object of every node in S leaves the registry, which a pointer held in
\* a roster outlives.
LoseObjects(S, tasks) ==
    [t \in Task |->
        [tasks[t] EXCEPT !.lost = @ \cup (S \cap (tasks[t].roster \cup tasks[t].promo))]]

\* Mutant: the health record stays behind.
DeleteNodes_KeepsHealth(S) ==
    /\ status' = [n \in Node |-> IF n \in S THEN "absent" ELSE status[n]]
    /\ rank' = [n \in Node |-> IF n \in S THEN -1 ELSE rank[n]]
    /\ UNCHANGED <<health, healthFailed>>

\* delete(nodes, n); delete(health, n) for every n of S.
DeleteNodes(S) ==
    /\ status' = [n \in Node |-> IF n \in S THEN "absent" ELSE status[n]]
    /\ rank' = [n \in Node |-> IF n \in S THEN -1 ELSE rank[n]]
    /\ health' = [n \in Node |-> IF n \in S THEN "absent" ELSE health[n]]
    /\ healthFailed' = [n \in Node |-> IF n \in S THEN FALSE ELSE healthFailed[n]]

\* Mutant: whatever its status, a node gives an active slot back.
ReleaseSlots_AnyStatus(S) ==
    /\ activeCtr' = activeCtr - Cardinality(S)
    /\ UNCHANGED standbyCtr

\* The counters give back the slots of S; a failed node holds none.
ReleaseSlots(S) ==
    /\ activeCtr' = activeCtr - Cardinality(S \cap WithStatus("active"))
    /\ standbyCtr' = standbyCtr - Cardinality(S \cap WithStatus("standby"))

=============================================================================
