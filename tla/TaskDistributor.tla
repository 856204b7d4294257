-------------------------- MODULE TaskDistributor --------------------------
(***************************************************************************)
(* The task distributor: Flask serves every request with a thread of its   *)
(* own, and all of them share one lock, which is not reentrant.            *)
(*                                                                         *)
(* A method that holds the lock is one step, unless it waits while it does.*)
(* No task is ever given a node: assign_task_to_node is not reached.       *)
(***************************************************************************)
EXTENDS Integers, FiniteSets

CONSTANTS
    Node,      \* compute nodes
    Request,   \* POST requests to /tasks
    None       \* nobody holds the lock

VARIABLES
    lock,          \* the request that holds TaskDistributor.lock
    task_counter,
    tasks,         \* ids of the tasks, all of them pending
    node_status,   \* the nodes that are registered, all of them available
    request        \* request[r]: where create_task_endpoint is, and its task_id

vars == <<lock, task_counter, tasks, node_status, request>>

Init ==
    /\ lock = None
    /\ task_counter = 0
    /\ tasks = {}
    /\ node_status = {}
    /\ request = [r \in Request |-> [pc |-> "next id", task |-> 0]]

Free == lock = None
Goto(r, pc) == request' = [request EXCEPT ![r].pc = pc]

-----------------------------------------------------------------------------

\* register_node
RegisterNode(n) ==
    /\ Free
    /\ node_status' = node_status \cup {n}
    /\ UNCHANGED <<lock, task_counter, tasks, request>>

\* unregister_node: the node has no task that could fail.
UnregisterNode(n) ==
    /\ Free
    /\ node_status' = node_status \ {n}
    /\ UNCHANGED <<lock, task_counter, tasks, request>>

-----------------------------------------------------------------------------
(* create_task_endpoint *)

\* get_next_task_id
GetNextTaskId(r) ==
    /\ request[r].pc = "next id"
    /\ Free
    /\ task_counter' = task_counter + 1
    /\ request' = [request EXCEPT ![r] = [pc |-> "create", task |-> task_counter']]
    /\ UNCHANGED <<lock, tasks, node_status>>

\* create_task
CreateTask(r) ==
    /\ request[r].pc = "create"
    /\ Free
    /\ tasks' = tasks \cup {request[r].task}
    /\ Goto(r, "find")
    /\ UNCHANGED <<lock, task_counter, node_status>>

\* get_node_for_task takes the lock: the task exists and has no node, so that a
\* new one is asked for with the lock held.
GetNodeForTask(r) ==
    /\ request[r].pc = "find"
    /\ Free
    /\ lock' = r
    /\ Goto(r, "available")
    /\ UNCHANGED <<task_counter, tasks, node_status>>

\* get_available_node takes the lock too.  Of nodes there are it chooses with
\* random, which is not imported: the request fails.
GetAvailableNode(r) ==
    /\ request[r].pc = "available"
    /\ Free
    /\ lock' = None
    /\ Goto(r, IF node_status = {} THEN "no node" ELSE "failed")
    /\ UNCHANGED <<task_counter, tasks, node_status>>

CreateTaskEndpoint(r) ==
    \/ GetNextTaskId(r) \/ CreateTask(r) \/ GetNodeForTask(r) \/ GetAvailableNode(r)

Next ==
    \/ \E r \in Request : CreateTaskEndpoint(r)
    \/ \E n \in Node : RegisterNode(n) \/ UnregisterNode(n)

Spec == Init /\ [][Next]_vars

\* A thread that waits for the lock gets it if it is free again and again.
FairSpec == Spec /\ \A r \in Request : SF_vars(CreateTaskEndpoint(r))

-----------------------------------------------------------------------------

\* The comment of create_task_endpoint: "Try to find a node for the task".  The
\* attempt ends, with a node or without one.
SearchEnds ==
    \A r \in Request : request[r].pc \in {"find", "available"} ~> request[r].pc \in {"no node", "failed"}

=============================================================================
