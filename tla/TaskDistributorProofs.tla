------------------------ MODULE TaskDistributorProofs ------------------------
(***************************************************************************)
(* Theorems about the task distributor, for any number of nodes and of     *)
(* requests: no two tasks share an id; and the first request that looks    *)
(* for a node waits for the lock it holds, so that no search ever ends and *)
(* the distributor answers nobody any more.                                *)
(***************************************************************************)
EXTENDS TaskDistributor, TLAPS

RequestType == [pc   : {"next id", "create", "find", "available", "no node", "failed"},
                task : Nat]

\* Requests that have an id.
Numbered == {r \in Request : request[r].pc # "next id"}

TaskDistributorTypeOK ==
    /\ lock \in Request \cup {None}
    /\ task_counter \in Nat
    /\ tasks \in SUBSET Nat
    /\ node_status \in SUBSET Node
    /\ request \in [Request -> RequestType]

\* Two requests never create the same task: the counter is read and written
\* under the lock, and the id travels with the request.
IdsUnique ==
    \A r, s \in Numbered : request[r].task = request[s].task => r = s

\* No request has come to an end of get_node_for_task, found a node or not.
NoSearchEnds == \A r \in Request : request[r].pc \notin {"no node", "failed"}

\* Strengthens IdsUnique and NoSearchEnds to an inductive invariant: ids are
\* below the counter, tasks have the ids of requests that are past create_task,
\* and the lock is held by the requests that look for an available node.
IdsCounted ==
    /\ \A r \in Numbered : request[r].task \in 1 .. task_counter
    /\ \A k \in tasks : \E r \in Numbered : request[r].pc # "create" /\ request[r].task = k

LockHeld == \A r \in Request : request[r].pc = "available" <=> lock = r

IInv == TaskDistributorTypeOK /\ IdsUnique /\ IdsCounted /\ LockHeld /\ NoSearchEnds

-----------------------------------------------------------------------------
(* The invariant *)

LEMMA InitIInv == ASSUME None \notin Request PROVE Init => IInv
<1> SUFFICES ASSUME Init PROVE IInv
  OBVIOUS
<1>1. lock = None /\ task_counter = 0 /\ tasks = {} /\ node_status = {}
  BY DEF Init
<1>2. [pc |-> "next id", task |-> 0] \in RequestType
  BY DEF RequestType
<1>3. request = [r \in Request |-> [pc |-> "next id", task |-> 0]]
  BY DEF Init
<1>4. request \in [Request -> RequestType]
  BY <1>2, <1>3
<1>5. \A r \in Request : request[r].pc = "next id"
  BY <1>3
<1>6. Numbered = {}
  BY <1>5 DEF Numbered
<1>7. TaskDistributorTypeOK
  BY <1>1, <1>4 DEF TaskDistributorTypeOK
<1>8. LockHeld /\ NoSearchEnds
  BY <1>1, <1>5 DEF LockHeld, NoSearchEnds
<1>9. QED
  BY <1>1, <1>6, <1>7, <1>8 DEF IInv, IdsUnique, IdsCounted

\* A step that gives the ids of the tasks and of the requests no new ones.
LEMMA NextIdKeeps ==
    ASSUME None \notin Request, IInv, NEW r \in Request, GetNextTaskId(r)
    PROVE  IInv'
<1>1. /\ request[r].pc = "next id" /\ lock = None /\ task_counter' = task_counter + 1
      /\ UNCHANGED <<lock, tasks, node_status>>
      /\ request' = [request EXCEPT ![r] = [pc |-> "create", task |-> task_counter + 1]]
  BY DEF GetNextTaskId, Free
<1>2. task_counter \in Nat /\ task_counter + 1 \in Nat /\ request \in [Request -> RequestType]
  BY DEF IInv, TaskDistributorTypeOK
<1>3. /\ request'[r].pc = "create" /\ request'[r].task = task_counter + 1
      /\ \A s \in Request : s # r => request'[s] = request[s]
  BY <1>1, <1>2
<1>4. TaskDistributorTypeOK'
  <2>1. \A k \in Nat : [pc |-> "create", task |-> k] \in RequestType
    BY DEF RequestType
  <2>2. request' \in [Request -> RequestType]
    BY <1>1, <1>2, <2>1
  <2>3. QED
    BY <1>1, <1>2, <2>2 DEF IInv, TaskDistributorTypeOK
<1>5. r \notin Numbered /\ Numbered' = Numbered \cup {r}
  BY <1>1, <1>3 DEF Numbered
<1>6. \A s \in Numbered : request[s].task \in 1 .. task_counter /\ request'[s] = request[s]
  BY <1>3, <1>5 DEF IInv, IdsCounted, Numbered
<1>7. IdsCounted'
  <2>1. \A s \in Numbered' : request'[s].task \in 1 .. task_counter'
    <3>1. \A k \in 1 .. task_counter : k \in 1 .. (task_counter + 1)
      BY <1>2
    <3>2. task_counter + 1 \in 1 .. (task_counter + 1)
      BY <1>2
    <3>3. \A s \in Numbered : request'[s].task \in 1 .. (task_counter + 1)
      BY <1>6, <3>1
    <3>4. QED
      BY <1>1, <1>3, <1>5, <3>2, <3>3
  <2>2. ASSUME NEW k \in tasks'
        PROVE  \E s \in Numbered' : request'[s].pc # "create" /\ request'[s].task = k
    <3>1. PICK s \in Numbered : request[s].pc # "create" /\ request[s].task = k
      BY <1>1 DEF IInv, IdsCounted
    <3>2. QED
      BY <1>5, <1>6, <3>1
  <2>3. QED
    BY <2>1, <2>2 DEF IdsCounted
<1>8. IdsUnique'
  <2>1. \A s \in Numbered : request'[s].task # request'[r].task
    BY <1>2, <1>3, <1>6
  <2>2. \A s, u \in Numbered : request'[s].task = request'[u].task => s = u
    BY <1>6 DEF IInv, IdsUnique
  <2>3. QED
    BY <1>5, <2>1, <2>2 DEF IdsUnique
<1>9. LockHeld' /\ NoSearchEnds'
  BY <1>1, <1>3 DEF IInv, LockHeld, NoSearchEnds
<1>10. QED
  BY <1>4, <1>7, <1>8, <1>9 DEF IInv

\* A request that goes on keeps its id.
LEMMA GotoKeeps ==
    ASSUME IInv, NEW r \in Request, NEW pc \in {"find", "available"},
           request[r].pc \in {"create", "find"}, Goto(r, pc), UNCHANGED task_counter
    PROVE  /\ request' \in [Request -> RequestType]
           /\ request'[r].pc = pc
           /\ \A s \in Request : request'[s].task = request[s].task
           /\ \A s \in Request : s # r => request'[s] = request[s]
           /\ Numbered' = Numbered
<1>1. request \in [Request -> RequestType] /\ request[r] \in RequestType
  BY DEF IInv, TaskDistributorTypeOK
<1>2. request' = [request EXCEPT ![r] = [request[r] EXCEPT !.pc = pc]]
  BY DEF Goto
<1>3. [request[r] EXCEPT !.pc = pc] \in RequestType
  BY <1>1 DEF RequestType
<1>4. request' \in [Request -> RequestType]
  BY <1>1, <1>2, <1>3
<1>5. /\ request'[r].pc = pc /\ request'[r].task = request[r].task
      /\ \A s \in Request : s # r => request'[s] = request[s]
  BY <1>1, <1>2 DEF RequestType
<1>6. QED
  BY <1>4, <1>5 DEF Numbered

LEMMA CreateKeeps ==
    ASSUME None \notin Request, IInv, NEW r \in Request, CreateTask(r)
    PROVE  IInv'
<1>1. /\ request[r].pc = "create" /\ lock = None /\ tasks' = tasks \cup {request[r].task}
      /\ Goto(r, "find") /\ UNCHANGED <<lock, task_counter, node_status>>
  BY DEF CreateTask, Free
<1>2. /\ request' \in [Request -> RequestType]
      /\ request'[r].pc = "find"
      /\ \A s \in Request : request'[s].task = request[s].task
      /\ \A s \in Request : s # r => request'[s] = request[s]
      /\ Numbered' = Numbered
  BY <1>1, GotoKeeps
<1>3. r \in Numbered /\ request[r].task \in Nat
  BY <1>1 DEF Numbered, IInv, TaskDistributorTypeOK, RequestType
<1>4. TaskDistributorTypeOK'
  BY <1>1, <1>2, <1>3 DEF IInv, TaskDistributorTypeOK
<1>5. IdsUnique'
  BY <1>2 DEF IInv, IdsUnique, Numbered
<1>6. IdsCounted'
  <2>1. \A s \in Numbered' : request'[s].task \in 1 .. task_counter'
    BY <1>1, <1>2 DEF IInv, IdsCounted, Numbered
  <2>2. ASSUME NEW k \in tasks
        PROVE  \E s \in Numbered' : request'[s].pc # "create" /\ request'[s].task = k
    <3>1. PICK s \in Numbered : request[s].pc # "create" /\ request[s].task = k
      BY DEF IInv, IdsCounted
    <3>2. s # r /\ s \in Request
      BY <1>1, <3>1 DEF Numbered
    <3>3. QED
      BY <1>2, <3>1, <3>2
  <2>3. \E s \in Numbered' : request'[s].pc # "create" /\ request'[s].task = request[r].task
    BY <1>2, <1>3
  <2>4. QED
    BY <1>1, <2>1, <2>2, <2>3 DEF IdsCounted
<1>7. LockHeld' /\ NoSearchEnds'
  BY <1>1, <1>2 DEF IInv, LockHeld, NoSearchEnds
<1>8. QED
  BY <1>4, <1>5, <1>6, <1>7 DEF IInv

LEMMA FindKeeps ==
    ASSUME None \notin Request, IInv, NEW r \in Request, GetNodeForTask(r)
    PROVE  IInv'
<1>1. /\ request[r].pc = "find" /\ lock = None /\ lock' = r
      /\ Goto(r, "available") /\ UNCHANGED <<task_counter, tasks, node_status>>
  BY DEF GetNodeForTask, Free
<1>2. /\ request' \in [Request -> RequestType]
      /\ request'[r].pc = "available"
      /\ \A s \in Request : request'[s].task = request[s].task
      /\ \A s \in Request : s # r => request'[s] = request[s]
      /\ Numbered' = Numbered
  BY <1>1, GotoKeeps
<1>3. TaskDistributorTypeOK'
  BY <1>1, <1>2 DEF IInv, TaskDistributorTypeOK
<1>4. IdsUnique'
  BY <1>2 DEF IInv, IdsUnique, Numbered
<1>5. \A s \in Request : request[s].pc # "create" => request'[s].pc # "create"
  BY <1>2
<1>6. IdsCounted'
  <2>1. \A s \in Numbered' : request'[s].task \in 1 .. task_counter'
    BY <1>1, <1>2 DEF IInv, IdsCounted, Numbered
  <2>2. ASSUME NEW k \in tasks'
        PROVE  \E s \in Numbered' : request'[s].pc # "create" /\ request'[s].task = k
    <3>1. PICK s \in Numbered : request[s].pc # "create" /\ request[s].task = k
      BY <1>1 DEF IInv, IdsCounted
    <3>2. s \in Request
      BY DEF Numbered
    <3>3. QED
      BY <1>2, <1>5, <3>1, <3>2
  <2>3. QED
    BY <2>1, <2>2 DEF IdsCounted
<1>7. \A s \in Request : request[s].pc # "available"
  BY <1>1 DEF IInv, LockHeld
<1>8. LockHeld' /\ NoSearchEnds'
  BY <1>1, <1>2, <1>7 DEF IInv, LockHeld, NoSearchEnds
<1>9. QED
  BY <1>3, <1>4, <1>6, <1>8 DEF IInv

\* get_available_node never gets the lock that its caller holds.
LEMMA NeverAvailable ==
    ASSUME None \notin Request, IInv, NEW r \in Request
    PROVE  ~GetAvailableNode(r)
BY DEF GetAvailableNode, Free, IInv, LockHeld

LEMMA IInvInductive == ASSUME None \notin Request PROVE Spec => []IInv
<1>1. Init => IInv
  BY InitIInv
<1>2. ASSUME IInv, [Next]_vars PROVE IInv'
  <2>1. ASSUME NEW r \in Request, CreateTaskEndpoint(r) PROVE IInv'
    BY <1>2, <2>1, NextIdKeeps, CreateKeeps, FindKeeps, NeverAvailable DEF CreateTaskEndpoint
  <2>2. ASSUME NEW n \in Node, RegisterNode(n) \/ UnregisterNode(n) PROVE IInv'
    <3>1. node_status' \in SUBSET Node /\ UNCHANGED <<lock, task_counter, tasks, request>>
      BY <1>2, <2>2 DEF RegisterNode, UnregisterNode, IInv, TaskDistributorTypeOK
    <3>2. QED
      BY <1>2, <3>1 DEF IInv, TaskDistributorTypeOK, IdsUnique, IdsCounted, Numbered,
                        LockHeld, NoSearchEnds
  <2>3. CASE UNCHANGED vars
    BY <1>2, <2>3 DEF vars, IInv, TaskDistributorTypeOK, IdsUnique, IdsCounted, Numbered,
                      LockHeld, NoSearchEnds
  <2>4. QED
    BY <1>2, <2>1, <2>2, <2>3 DEF Next
<1>3. QED
  BY <1>1, <1>2, PTL DEF Spec

-----------------------------------------------------------------------------
(* What it says *)

\* However many requests run at once, each creates a task of its own.
THEOREM TasksHaveTheirOwnIds == ASSUME None \notin Request PROVE Spec => []IdsUnique
<1>1. IInv => IdsUnique
  BY DEF IInv
<1>2. QED
  BY <1>1, IInvInductive, PTL

\* No request ever learns that there is a node for its task, or that there is
\* none: "Try to find a node for the task" never ends, on no cluster.
THEOREM SearchNeverEnds == ASSUME None \notin Request PROVE Spec => []NoSearchEnds
<1>1. IInv => NoSearchEnds
  BY DEF IInv
<1>2. QED
  BY <1>1, IInvInductive, PTL

\* The first search takes the distributor down with it: once a request looks for
\* an available node, no request and no registration takes another step.
Stuck(r) == lock = r /\ request[r].pc = "available"

THEOREM FirstSearchIsTheLast ==
    ASSUME None \notin Request, NEW r \in Request
    PROVE  Spec => [](request[r].pc = "available" => []Stuck(r) /\ [][FALSE]_vars)
<1>1. IInv /\ request[r].pc = "available" => Stuck(r)
  BY DEF IInv, LockHeld, Stuck
<1>2. ASSUME Stuck(r), Next PROVE FALSE
  BY <1>2 DEF Stuck, Next, CreateTaskEndpoint, GetNextTaskId, CreateTask, GetNodeForTask,
              GetAvailableNode, RegisterNode, UnregisterNode, Free
<1>3. Stuck(r) /\ [Next]_vars => Stuck(r)' /\ [FALSE]_vars
  <2>1. ASSUME Stuck(r), UNCHANGED vars PROVE Stuck(r)'
    BY <2>1 DEF Stuck, vars
  <2>2. QED
    BY <1>2, <2>1
<1>4. QED
  BY <1>1, <1>3, IInvInductive, PTL DEF Spec

=============================================================================
