-------------------------- MODULE C4DServerProofs --------------------------
(***************************************************************************)
(* Theorems about c4d-server, for any set of nodes and any number of       *)
(* concurrent handlers and reconfigurations.                               *)
(***************************************************************************)
EXTENDS C4DServer, FiniteSetTheorems, TLAPS

-----------------------------------------------------------------------------
(* Cardinalities and enumerations *)

\* A set of nodes has a cardinality.
LEMMA NodeSetFinite ==
    ASSUME NEW S \in SUBSET Node
    PROVE  IsFiniteSet(S) /\ Cardinality(S) \in Nat
<1>1. IsFiniteSet(S)
  BY FS_Subset, NodeAssumption
<1>2. QED
  BY <1>1, FS_CardinalityType

\* An enumeration of a set of nodes is a sequence of nodes as long as the set.
LEMMA EnumerationIsSeq ==
    ASSUME NEW S \in SUBSET Node, NEW f \in Bijection(1 .. Cardinality(S), S)
    PROVE  f \in Seq(Node) /\ Len(f) = Cardinality(S)
<1>1. f \in [1 .. Cardinality(S) -> S]
  BY DEF Bijection, Injection
<1>2. Cardinality(S) \in Nat
  BY NodeSetFinite
<1>3. f \in [1 .. Cardinality(S) -> Node]
  BY <1>1
<1>4. QED
  BY <1>2, <1>3

-----------------------------------------------------------------------------
(* What the parts leave alone *)

\* Failures leave registrations and starts alone.
LEMMA FailureKeepsHandlers ==
    ASSUME FailureStep
    PROVE  UNCHANGED <<reg, starter, cmMu, told>>
<1>1. ASSUME NEW n \in Node, Age(n) \/ HealthScan(n) \/ CleanupSessions(n)
      PROVE  UNCHANGED <<reg, starter, cmMu, told>>
  BY <1>1 DEF Age, HealthScan, CleanupSessions, handlerVars
<1>2. ASSUME NEW c \in Notifier, NEW n \in Node, NotifySeen(c, n)
      PROVE  UNCHANGED <<reg, starter, cmMu, told>>
  BY <1>2 DEF NotifySeen
<1>3. ASSUME NEW c \in Notifier, HandleNodeFailure(c) \/ NotifyMark(c)
      PROVE  UNCHANGED <<reg, starter, cmMu, told>>
  BY <1>3 DEF HandleNodeFailure, NotifyMark
<1>4. CASE HealthTimeout \/ CleanupDeadConnections
  BY <1>4 DEF HealthTimeout, CleanupDeadConnections, handlerVars
<1>5. QED
  BY <1>1, <1>2, <1>3, <1>4 DEF FailureStep

\* Reconfigurations and removals leave every handler alone.
LEMMA ReconfigurationKeepsHandlers ==
    ASSUME ReconfigurationStep
    PROVE  UNCHANGED <<reg, starter, notifier, hm>>
<1>1. UNCHANGED handlerVars
  <2>1. ASSUME NEW t, Begin(t) PROVE UNCHANGED handlerVars
    BY <2>1 DEF Begin
  <2>2. ASSUME NEW t, Collect(t) \/ Count(t) \/ Sort(t) PROVE UNCHANGED handlerVars
    BY <2>2 DEF Collect, Count, Sort
  <2>3. ASSUME NEW t, AssignRank(t) \/ Settle(t) PROVE UNCHANGED handlerVars
    BY <2>3 DEF AssignRank, Settle
  <2>4. ASSUME NEW t, NEW n, Promote(t, n) \/ NotifyNode(t, n) PROVE UNCHANGED handlerVars
    BY <2>4 DEF Promote, NotifyNode
  <2>5. ASSUME NEW t, NEW n, RemoveNode(t, n) PROVE UNCHANGED handlerVars
    BY <2>5 DEF RemoveNode
  <2>6. QED
    BY <2>1, <2>2, <2>3, <2>4, <2>5 DEF ReconfigurationStep
<1>2. QED
  BY <1>1 DEF handlerVars

-----------------------------------------------------------------------------
(* Type correctness *)

\* Changing one record of a function of records keeps the function's type.
LEMMA StarterUpdate ==
    ASSUME TypeOK, NEW n \in Node, NEW r \in StarterType
    PROVE  [starter EXCEPT ![n] = r] \in [Node -> StarterType]
BY DEF TypeOK

LEMMA TaskUpdate ==
    ASSUME TypeOK, NEW t \in Task, NEW r \in TaskType
    PROVE  [task EXCEPT ![t] = r] \in [Task -> TaskType]
BY DEF TypeOK

\* Init establishes the types.
LEMMA InitTypeOK == Init => TypeOK
BY NodeAssumption, TaskAssumption
DEF Init, TypeOK, States, RegType, IdleReg, StarterType, IdleStarter,
    NotifierType, IdleNotifier, TaskType, TaskPC, IdleTask, Task

\* The handlers of Register keep the types.
LEMMA RegisterTypeOK ==
    ASSUME TypeOK, NEW n \in Node, RegisterHandler(n) \/ RegisterAdmit(n) \/ SendHeartbeat(n)
    PROVE  TypeOK'
<1>1. CASE RegisterAdmit(n)
  BY <1>1, ZenonT(40) DEF RegisterAdmit, RegGoto, TypeOK, RegType, registryVars, counterVars
<1>2. CASE RegisterLookup(n)
  <2>1. healthFailed' \in [Node -> BOOLEAN]
    <3>1. CASE UNCHANGED healthFailed
      BY <3>1 DEF TypeOK
    <3>2. CASE healthFailed' = [healthFailed EXCEPT ![n] = status[n] = "failed"]
      BY <3>2, Zenon DEF TypeOK
    <3>3. QED
      BY <1>2, <3>1, <3>2 DEF RegisterLookup, Reconnect
  <2>2. /\ reg' \in [Node -> RegType]
        /\ session' \in [Node -> {"none", "connected", "disconnected"}]
        /\ health' \in [Node -> {"absent", "fresh", "late", "dead"}]
    <3>1. CASE Reconnect(n)
      BY <3>1 DEF Reconnect, RegDone, IdleReg, TypeOK, RegType
    <3>2. CASE RegGoto(n, "reserve") /\ UNCHANGED <<session, health>>
      BY <3>2 DEF RegGoto, TypeOK, RegType
    <3>3. QED
      BY <1>2, <3>1, <3>2 DEF RegisterLookup
  <2>3. QED
    BY <1>2, <2>1, <2>2 DEF RegisterLookup, TypeOK, counterVars
<1>3. CASE RegisterReserve(n)
  BY <1>3, SMTT(30) DEF RegisterReserve, RegDone, IdleReg, TypeOK, RegType, registryVars, counterVars
<1>4. CASE RegisterSession(n)
  BY <1>4 DEF RegisterSession, RegGoto, TypeOK, RegType, registryVars, counterVars
<1>5. CASE RegisterNode(n)
  BY <1>5 DEF RegisterNode, RegGoto, TypeOK, RegType, counterVars
<1>6. CASE RegisterCount(n)
  <2>1. starter' \in [Node -> StarterType]
    <3>1. CASE AllRegistered
      <4>1. starter[n] \in StarterType
        BY DEF TypeOK
      <4>2. [starter[n] EXCEPT !.pc = "waiting"] \in StarterType
        BY <4>1 DEF StarterType
      <4>3. starter' = [starter EXCEPT ![n] = [starter[n] EXCEPT !.pc = "waiting"]]
        BY <1>6, <3>1 DEF RegisterCount
      <4>4. QED
        BY <4>2, <4>3, StarterUpdate
    <3>2. CASE ~AllRegistered
      BY <1>6, <3>2 DEF RegisterCount, TypeOK
    <3>3. QED
      BY <3>1, <3>2
  <2>2. reg' \in [Node -> RegType]
    BY <1>6 DEF RegisterCount, RegDone, IdleReg, TypeOK, RegType
  <2>3. QED
    BY <1>6, <2>1, <2>2 DEF RegisterCount, TypeOK, registryVars, counterVars
<1>7. CASE SendHeartbeat(n)
  BY <1>7 DEF SendHeartbeat, TypeOK, counterVars, handlerVars
<1>8. QED
  BY <1>1, <1>2, <1>3, <1>4, <1>5, <1>6, <1>7 DEF RegisterHandler

\* checkAndStartProgram keeps the types.
LEMMA StartTypeOK ==
    ASSUME TypeOK, RostersEnumerated, NEW n \in Node,
           StartAcquire(n) \/ StartFinish(n) \/ \E m \in Node : StartSend(n, m)
    PROVE  TypeOK'
<1>1. CASE StartAcquire(n)
  <2>1. CASE ~Accepting \/ NothingToStart
    <3>1. starter' = [starter EXCEPT ![n] = IdleStarter] /\ UNCHANGED <<cmMu, rank>>
      BY <1>1, <2>1 DEF StartAcquire
    <3>2. starter' \in [Node -> StarterType]
      BY <3>1 DEF TypeOK, StarterType, IdleStarter
    <3>3. QED
      BY <1>1, <3>1, <3>2 DEF StartAcquire, TypeOK, counterVars
  <2>2. CASE ~(~Accepting \/ NothingToStart)
    <3>1. PICK order \in StartOrders :
            /\ cmMu' = n
            /\ rank' = [m \in Node |->
                          IF status[m] = "active"
                          THEN (CHOOSE i \in DOMAIN order : order[i] = m) - 1
                          ELSE rank[m]]
            /\ starter' = [starter EXCEPT ![n] =
                             [pc |-> "starting", order |-> order,
                              pending |-> WithStatus("active"), bad |-> {}]]
      BY <1>1, <2>2 DEF StartAcquire
    <3>2. WithStatus("active") \in SUBSET Node
      BY DEF WithStatus
    <3>3. /\ order \in Bijection(1 .. Cardinality(WithStatus("active")), WithStatus("active"))
          /\ order \in Seq(Node)
      BY <3>2, EnumerationIsSeq DEF StartOrders
    <3>4. rank' \in [Node -> Int]
      <4>1. ASSUME NEW m \in Node, status[m] = "active"
            PROVE  (CHOOSE i \in DOMAIN order : order[i] = m) - 1 \in Int
        <5>1. m \in WithStatus("active")
          BY <4>1 DEF WithStatus
        <5>2. \E i \in DOMAIN order : order[i] = m
          BY <3>3, <5>1 DEF Bijection, Surjection
        <5>3. DOMAIN order \subseteq Int
          BY <3>3, <3>2, NodeSetFinite DEF Bijection, Surjection
        <5>4. QED
          BY <5>2, <5>3
      <4>2. QED
        BY <3>1, <4>1 DEF TypeOK
    <3>5. starter' \in [Node -> StarterType]
      BY <3>1, <3>2, <3>3 DEF TypeOK, StarterType
    <3>6. QED
      BY <1>1, <3>1, <3>4, <3>5 DEF StartAcquire, TypeOK, counterVars
  <2>3. QED
    BY <2>1, <2>2
<1>2. CASE StartFinish(n)
  <2>1. starter' \in [Node -> StarterType]
    BY <1>2 DEF StartFinish, TypeOK, StarterType, IdleStarter
  <2>2. state' \in States
    BY <1>2 DEF StartFinish, TypeOK, States
  <2>3. QED
    BY <1>2, <2>1, <2>2 DEF StartFinish, TypeOK, registryVars, counterVars
<1>3. CASE \E m \in Node : StartSend(n, m)
  <2>1. PICK m \in Node : StartSend(n, m)
    BY <1>3
  <2>2. PICK delivered \in BOOLEAN, error \in BOOLEAN :
          /\ told' = IF delivered THEN [told EXCEPT ![m] = StartRank(n, m)] ELSE told
          /\ starter' = [starter EXCEPT
                           ![n].pending = @ \ {m},
                           ![n].bad = IF error THEN @ \cup {m} ELSE @]
    BY <2>1 DEF StartSend
  <2>3. starter' \in [Node -> StarterType]
    <3> DEFINE r == [starter[n] EXCEPT !.pending = @ \ {m},
                                       !.bad = IF error THEN @ \cup {m} ELSE @]
    <3>1. starter[n] \in StarterType
      BY DEF TypeOK
    <3>2. r \in StarterType
      BY <3>1 DEF StarterType
    <3>3. starter' = [starter EXCEPT ![n] = r]
      BY <2>2
    <3> HIDE DEF r
    <3>4. QED
      BY <3>2, <3>3, StarterUpdate
  <2>4. told' \in [Node -> Int]
    <3>1. m \in {starter[n].order[i] : i \in DOMAIN starter[n].order}
      BY <2>1 DEF RostersEnumerated, StarterEnumerated, StartSend
    <3>2. DOMAIN starter[n].order \subseteq Int
      BY DEF TypeOK, StarterType
    <3>3. StartRank(n, m) \in Int
      BY <3>1, <3>2 DEF StartRank
    <3>4. QED
      BY <2>2, <3>3 DEF TypeOK
  <2>5. QED
    BY <2>1, <2>3, <2>4 DEF StartSend, TypeOK, registryVars, counterVars
<1>4. QED
  BY <1>1, <1>2, <1>3

\* A failure that is handled keeps the types.
LEMMA ReleaseSlotsTypeOK ==
    ASSUME TypeOK, NEW S \in SUBSET Node, ReleaseSlots(S)
    PROVE  activeCtr' \in Int /\ standbyCtr' \in Int
<1>1. /\ S \cap WithStatus("active") \in SUBSET Node
      /\ S \cap WithStatus("standby") \in SUBSET Node
  OBVIOUS
<1>2. /\ Cardinality(S \cap WithStatus("active")) \in Nat
      /\ Cardinality(S \cap WithStatus("standby")) \in Nat
  BY <1>1, NodeSetFinite
<1>3. QED
  BY <1>2 DEF ReleaseSlots, TypeOK

LEMMA LoseObjectsTypeOK ==
    ASSUME TypeOK, NEW S \in SUBSET Node
    PROVE  LoseObjects(S, task) \in [Task -> TaskType]
<1>1. ASSUME NEW t \in Task
      PROVE  [task[t] EXCEPT !.lost = @ \cup (S \cap (task[t].roster \cup task[t].promo))]
                \in TaskType
  <2>1. task[t] \in TaskType
    BY DEF TypeOK
  <2>2. QED
    BY <2>1 DEF TaskType
<1>2. QED
  BY <1>1 DEF LoseObjects

LEMMA DeleteNodesTypeOK ==
    ASSUME TypeOK, NEW S \in SUBSET Node, DeleteNodes(S)
    PROVE  /\ status' \in [Node -> {"absent", "active", "standby", "failed"}]
           /\ rank' \in [Node -> Int]
           /\ health' \in [Node -> {"absent", "fresh", "late", "dead"}]
           /\ healthFailed' \in [Node -> BOOLEAN]
<1>1. healthFailed' \in [Node -> BOOLEAN]
  <2>1. ASSUME NEW n \in Node
        PROVE  (IF n \in S THEN FALSE ELSE healthFailed[n]) \in BOOLEAN
    <3>1. healthFailed[n] \in BOOLEAN
      BY DEF TypeOK
    <3>2. QED
      BY <3>1, Zenon
  <2>2. QED
    BY <2>1, Zenon DEF DeleteNodes
<1>2. status' \in [Node -> {"absent", "active", "standby", "failed"}]
  BY DEF DeleteNodes, TypeOK
<1>3. rank' \in [Node -> Int]
  BY DEF DeleteNodes, TypeOK
<1>4. health' \in [Node -> {"absent", "fresh", "late", "dead"}]
  BY DEF DeleteNodes, TypeOK
<1>5. QED
  BY <1>1, <1>2, <1>3, <1>4

LEMMA NotifierTypeOK ==
    ASSUME TypeOK, NEW c \in Notifier,
           NotifierHandler(c) \/ \E n \in Node : NotifySeen(c, n)
    PROVE  TypeOK'
<1>1. CASE \E n \in Node : NotifySeen(c, n)
  BY <1>1 DEF NotifySeen, TypeOK, NotifierType, registryVars, counterVars
<1>2. CASE HandleNodeFailure(c)
  <2> DEFINE n == notifier[c].node
  <2>1. notifier' \in [Notifier -> NotifierType]
    BY <1>2 DEF HandleNodeFailure, NotifierGoto, TypeOK, NotifierType
  <2>2. CASE UNCHANGED <<state, status, counterVars, registryMu, task>>
    BY <1>2, <2>1, <2>2 DEF HandleNodeFailure, TypeOK, counterVars
  <2>3. CASE FailureRefused
    BY <1>2, <2>1, <2>3 DEF HandleNodeFailure, FailureRefused, TypeOK, counterVars
  <2>4. CASE n \in Registered /\ FailureAccepted(n)
    <3>1. n \in Node
      BY <2>4 DEF Registered
    <3>2. activeCtr' \in Int /\ standbyCtr' \in Int
      BY <2>4, <3>1, ReleaseSlotsTypeOK DEF FailureAccepted
    <3>3. task' \in [Task -> TaskType]
      <4>1. CASE UNCHANGED task
        BY <4>1 DEF TypeOK
      <4>2. CASE \E g \in Goroutine : task' = [task EXCEPT ![g].pc = "begin"]
        <5>1. PICK g \in Goroutine : task' = [task EXCEPT ![g] = [task[g] EXCEPT !.pc = "begin"]]
          BY <4>2
        <5>2. task[g] \in TaskType
          BY DEF TypeOK, Task
        <5>3. [task[g] EXCEPT !.pc = "begin"] \in TaskType
          BY <5>2 DEF TaskType, TaskPC
        <5>4. QED
          BY <5>1, <5>3, TaskUpdate DEF Task
      <4>3. QED
        BY <2>4, <4>1, <4>2 DEF FailureAccepted
    <3>4. state' \in States /\ status' \in [Node -> {"absent", "active", "standby", "failed"}]
      BY <2>4 DEF FailureAccepted, TypeOK, States
    <3>5. QED
      BY <1>2, <2>1, <2>4, <3>2, <3>3, <3>4 DEF HandleNodeFailure, FailureAccepted, TypeOK
  <2>5. QED
    BY <1>2, <2>2, <2>3, <2>4 DEF HandleNodeFailure
<1>3. CASE NotifyMark(c)
  <2>1. healthFailed' \in [Node -> BOOLEAN]
    <3>1. healthFailed' =
            [healthFailed EXCEPT ![notifier[c].node] = @ \/ health[notifier[c].node] # "absent"]
      BY <1>3 DEF NotifyMark
    <3>2. QED
      BY <3>1, Zenon DEF TypeOK
  <2>2. notifier' \in [Notifier -> NotifierType]
    BY <1>3 DEF NotifyMark, TypeOK, NotifierType, IdleNotifier
  <2>3. QED
    BY <1>3, <2>1, <2>2 DEF NotifyMark, TypeOK, counterVars
<1>4. QED
  BY <1>1, <1>2, <1>3 DEF NotifierHandler

\* So do the health monitor and the removal of dead connections and sessions.
LEMMA HealthTypeOK ==
    ASSUME TypeOK,
           \/ \E n \in Node : Age(n) \/ HealthScan(n) \/ CleanupSessions(n)
           \/ HealthTimeout
           \/ CleanupDeadConnections
    PROVE  TypeOK'
<1>1. ASSUME NEW n \in Node, Age(n) \/ HealthScan(n) \/ CleanupSessions(n)
      PROVE  TypeOK'
  <2>1. CASE Age(n)
    BY <2>1 DEF Age, TypeOK, counterVars, handlerVars
  <2>2. CASE HealthScan(n)
    BY <2>2 DEF HealthScan, TypeOK, registryVars, counterVars
  <2>3. CASE CleanupSessions(n)
    BY <2>3 DEF CleanupSessions, TypeOK, registryVars, counterVars, handlerVars
  <2>4. QED
    BY <1>1, <2>1, <2>2, <2>3
<1>2. CASE HealthTimeout
  BY <1>2 DEF HealthTimeout, StatusAfterTimeout, TypeOK, counterVars
<1>3. CASE CleanupDeadConnections
  <2> DEFINE dead == {n \in Node : health[n] = "dead"}
  <2>1. dead \in SUBSET Node
    OBVIOUS
  <2>2. /\ session' = Disconnected(dead)
        /\ ReleaseSlots(dead)
        /\ DeleteNodes(dead)
        /\ task' = LoseObjects(dead, task)
        /\ UNCHANGED <<state, registryMu, cmMu, handlerVars, told, disruptions>>
    BY <1>3 DEF CleanupDeadConnections
  <2> HIDE DEF dead
  <2>3. session' \in [Node -> {"none", "connected", "disconnected"}]
    BY <2>2 DEF Disconnected, TypeOK
  <2>4. QED
    BY <2>1, <2>2, <2>3, ReleaseSlotsTypeOK, DeleteNodesTypeOK, LoseObjectsTypeOK
    DEF TypeOK, handlerVars
<1>4. QED
  BY <1>1, <1>2, <1>3

\* A remove request keeps the types.
LEMMA RemoveTypeOK ==
    ASSUME TypeOK, NEW t \in ApiCall, NEW n \in Node, RemoveNode(t, n)
    PROVE  TypeOK'
<1>1. /\ {n} \in SUBSET Node
      /\ t \in Task
  BY DEF Task
<1>2. /\ state' = "Reconfiguring"
      /\ ReleaseSlots({n})
      /\ DeleteNodes({n})
      /\ disruptions' = disruptions + 1
      /\ UNCHANGED <<session, registryMu, handlerVars, told>>
      /\ \/ /\ cmMu' = t
            /\ task' = [LoseObjects({n}, task) EXCEPT ![t].pc = "begin"]
         \/ /\ cmMu' = cmMu
            /\ task' = LoseObjects({n}, task)
  BY DEF RemoveNode
<1>3. LoseObjects({n}, task) \in [Task -> TaskType]
  BY <1>1, LoseObjectsTypeOK
<1>4. task' \in [Task -> TaskType]
  <2> DEFINE tasks == LoseObjects({n}, task)
  <2>1. CASE task' = [tasks EXCEPT ![t].pc = "begin"]
    <3> HIDE DEF tasks
    <3>1. tasks[t] \in TaskType
      BY <1>1, <1>3 DEF tasks
    <3>2. [tasks[t] EXCEPT !.pc = "begin"] \in TaskType
      BY <3>1 DEF TaskType, TaskPC
    <3>3. task' = [tasks EXCEPT ![t] = [tasks[t] EXCEPT !.pc = "begin"]]
      BY <2>1
    <3>4. QED
      BY <1>1, <1>3, <3>2, <3>3 DEF tasks
  <2>2. QED
    BY <1>2, <1>3, <2>1
<1>5. QED
  BY <1>1, <1>2, <1>4, ReleaseSlotsTypeOK, DeleteNodesTypeOK
  DEF TypeOK, States, handlerVars

\* Every step of a reconfiguration keeps the types.
LEMMA ReconfigureTypeOK ==
    ASSUME TypeOK, RostersEnumerated, NEW t \in Task, Reconfigure(t)
    PROVE  TypeOK'
<1>t. task[t] \in TaskType
  BY DEF TypeOK
<1>i. IdleTask \in TaskType
  BY DEF IdleTask, TaskType, TaskPC
<1>1. CASE Begin(t)
  <2>1. [task[t] EXCEPT !.pc = "collect"] \in TaskType
    BY <1>t DEF TaskType, TaskPC
  <2>2. \/ task' = [task EXCEPT ![t] = [task[t] EXCEPT !.pc = "collect"]]
        \/ task' = [task EXCEPT ![t] = IdleTask]
    BY <1>1 DEF Begin
  <2>3. task' \in [Task -> TaskType]
    BY <1>i, <2>1, <2>2, TaskUpdate
  <2>4. state' \in States /\ cmMu' \in {None} \cup Node \cup ApiCall
    BY <1>1 DEF Begin, UnlockCM, TypeOK, States
  <2>5. QED
    BY <1>1, <2>3, <2>4 DEF Begin, TypeOK, registryVars, counterVars, handlerVars
<1>2. CASE Collect(t)
  <2>1. PICK promo \in SUBSET WithStatus("standby") :
          task' = [task EXCEPT ![t] =
                     [task[t] EXCEPT !.pc = IF promo = {} THEN "sort" ELSE "promote",
                                     !.roster = WithStatus("active"), !.promo = promo,
                                     !.lost = {}, !.done = 0]]
    BY <1>2 DEF Collect
  <2>2. WithStatus("active") \in SUBSET Node /\ promo \in SUBSET Node
    BY DEF WithStatus
  <2>3. task' \in [Task -> TaskType]
    <3> DEFINE r == [task[t] EXCEPT !.pc = IF promo = {} THEN "sort" ELSE "promote",
                                    !.roster = WithStatus("active"), !.promo = promo,
                                    !.lost = {}, !.done = 0]
    <3>1. r \in TaskType
      BY <1>t, <2>2 DEF TaskType, TaskPC
    <3> HIDE DEF r
    <3>2. QED
      BY <2>1, <3>1, TaskUpdate DEF r
  <2>4. QED
    BY <1>2, <2>3 DEF Collect, TypeOK, registryVars, counterVars, handlerVars
<1>3. CASE Count(t)
  <2>1. [task[t] EXCEPT !.pc = "sort", !.done = 0] \in TaskType
    BY <1>t DEF TaskType, TaskPC
  <2>2. task' = [task EXCEPT ![t] = [task[t] EXCEPT !.pc = "sort", !.done = 0]]
    BY <1>3 DEF Count
  <2>3. task' \in [Task -> TaskType]
    BY <2>1, <2>2, TaskUpdate
  <2>4. activeCtr' \in Int /\ standbyCtr' \in Int
    BY <1>3, <1>t DEF Count, TypeOK, TaskType
  <2>5. QED
    BY <1>3, <2>3, <2>4 DEF Count, TypeOK, registryVars, handlerVars
<1>4. CASE Sort(t)
  <2>1. CASE UNCHANGED task /\ state' = "Failed"
    BY <1>4, <2>1 DEF Sort, TypeOK, States, registryVars, counterVars, handlerVars
  <2>2. CASE /\ UNCHANGED state
             /\ \E order \in RankOrders(t) :
                  task' = [task EXCEPT ![t] = [task[t] EXCEPT !.pc = "assign", !.order = order, !.idx = 1]]
    <3>1. PICK order \in RankOrders(t) :
            task' = [task EXCEPT ![t] = [task[t] EXCEPT !.pc = "assign", !.order = order, !.idx = 1]]
      BY <2>2
    <3>2. task[t].roster \in SUBSET Node
      BY <1>t DEF TaskType
    <3>3. order \in Seq(Node)
      BY <3>2, EnumerationIsSeq DEF RankOrders
    <3>4. [task[t] EXCEPT !.pc = "assign", !.order = order, !.idx = 1] \in TaskType
      BY <1>t, <3>3 DEF TaskType, TaskPC
    <3>5. task' \in [Task -> TaskType]
      BY <3>1, <3>4, TaskUpdate
    <3>6. QED
      BY <1>4, <2>2, <3>5 DEF Sort, TypeOK, registryVars, counterVars, handlerVars
  <2>3. QED
    BY <1>4, <2>1, <2>2 DEF Sort
<1>5. CASE AssignRank(t)
  <2> DEFINE r1 == [task[t] EXCEPT !.pc = "notify", !.pending = task[t].roster, !.idx = 0]
             r2 == [task[t] EXCEPT !.idx = task[t].idx + 1]
  <2>1. r1 \in TaskType /\ r2 \in TaskType
    <3>1. r1 \in TaskType
      BY <1>t DEF TaskType, TaskPC
    <3>2. task[t].idx + 1 \in Nat
      BY <1>t DEF TaskType
    <3>3. r2 \in TaskType
      BY <1>t, <3>2 DEF TaskType
    <3>4. QED
      BY <3>1, <3>3
  <2>2. task' = [task EXCEPT ![t] = r1] \/ task' = [task EXCEPT ![t] = r2]
    BY <1>5 DEF AssignRank
  <2> HIDE DEF r1, r2
  <2>3. task' \in [Task -> TaskType]
    BY <2>1, <2>2, TaskUpdate
  <2>4. rank' \in [Node -> Int]
    <3>1. task[t].idx - 1 \in Int
      BY <1>t DEF TaskType
    <3>2. QED
      BY <1>5, <3>1 DEF AssignRank, AssignedRank, TypeOK
  <2>5. QED
    BY <1>5, <2>3, <2>4 DEF AssignRank, TypeOK, counterVars, handlerVars
<1>6. CASE Settle(t)
  <2>1. CASE Succeed(t)
    <3>1. task' \in [Task -> TaskType]
      BY <1>i, <2>1, TaskUpdate DEF Succeed
    <3>2. state' \in States /\ cmMu' \in {None} \cup Node \cup ApiCall
      BY <2>1 DEF Succeed, Resumed, UnlockCM, TypeOK, States
    <3>3. QED
      BY <1>6, <2>1, <3>1, <3>2 DEF Settle, Succeed, TypeOK, counterVars, handlerVars
  <2>2. CASE Retry(t)
    <3>1. [IdleTask EXCEPT !.pc = "collect", !.try = task[t].try + 1] \in TaskType
      <4>1. task[t].try + 1 \in Nat
        BY <1>t DEF TaskType
      <4>2. QED
        BY <1>i, <4>1 DEF TaskType, TaskPC
    <3>2. \/ /\ task' = [task EXCEPT ![t] = [IdleTask EXCEPT !.pc = "collect",
                                                             !.try = task[t].try + 1]]
             /\ UNCHANGED state
          \/ state' = "Failed" /\ UNCHANGED task
      BY <2>2 DEF Retry
    <3>3. task' \in [Task -> TaskType] /\ state' \in States
      BY <3>1, <3>2, TaskUpdate DEF TypeOK, States
    <3>4. FoundByUrl(task[t].bad) \cap WithStatus("active") \in SUBSET Node
      BY DEF WithStatus
    <3>5. activeCtr' \in Int
      BY <2>2, <3>4, NodeSetFinite DEF Retry, TypeOK
    <3>6. status' \in [Node -> {"absent", "active", "standby", "failed"}]
      BY <2>2 DEF Retry, TypeOK
    <3>7. QED
      BY <1>6, <2>2, <3>3, <3>5, <3>6 DEF Settle, Retry, TypeOK, handlerVars
  <2>3. QED
    BY <1>6, <2>1, <2>2 DEF Settle
<1>7. ASSUME NEW n \in Node, Promote(t, n)
      PROVE  TypeOK'
  <2> DEFINE r == [task[t] EXCEPT !.pc = IF task[t].promo = {n} THEN "count" ELSE "promote",
                                  !.promo = @ \ {n}, !.roster = @ \cup {n}, !.done = @ + 1]
  <2>1. r \in TaskType
    <3>1. (IF task[t].promo = {n} THEN "count" ELSE "promote") \in TaskPC
      BY DEF TaskPC
    <3>2. task[t].done + 1 \in Nat
      BY <1>t DEF TaskType
    <3>3. task[t].promo \ {n} \in SUBSET Node /\ task[t].roster \cup {n} \in SUBSET Node
      BY <1>t DEF TaskType
    <3>4. QED
      BY <1>t, <3>1, <3>2, <3>3 DEF TaskType
  <2>2. task' = [task EXCEPT ![t] = r]
    BY <1>7 DEF Promote
  <2> HIDE DEF r
  <2>3. task' \in [Task -> TaskType]
    BY <2>1, <2>2, TaskUpdate
  <2>4. PromotionRank(t) \in Int
    BY <1>t, NodeSetFinite DEF PromotionRank, TaskType
  <2>5. /\ status' \in [Node -> {"absent", "active", "standby", "failed"}]
        /\ rank' \in [Node -> Int]
    BY <1>7, <2>4 DEF Promote, TypeOK
  <2>6. QED
    BY <1>7, <2>3, <2>5 DEF Promote, TypeOK, counterVars, handlerVars
<1>8. ASSUME NEW n \in Node, NotifyNode(t, n)
      PROVE  TypeOK'
  <2>1. PICK delivered \in BOOLEAN, error \in BOOLEAN :
          /\ told' = IF delivered THEN [told EXCEPT ![n] = SentRank(t, n)] ELSE told
          /\ task' = [task EXCEPT ![t] =
                        [task[t] EXCEPT !.pending = @ \ {n},
                                        !.pc = IF task[t].pending = {n} THEN "settle" ELSE "notify",
                                        !.bad = IF error THEN @ \cup {n} ELSE @]]
    BY <1>8 DEF NotifyNode
  <2> DEFINE r == [task[t] EXCEPT !.pending = @ \ {n},
                                  !.pc = IF task[t].pending = {n} THEN "settle" ELSE "notify",
                                  !.bad = IF error THEN @ \cup {n} ELSE @]
  <2>2. r \in TaskType
    BY <1>t DEF TaskType, TaskPC
  <2>3. task' = [task EXCEPT ![t] = r]
    BY <2>1
  <2> HIDE DEF r
  <2>4. task' \in [Task -> TaskType]
    BY <2>2, <2>3, TaskUpdate
  <2>5. SentRank(t, n) \in Int
    <3>1. /\ n \in task[t].pending
          /\ task[t].pc = "notify"
      BY <1>8 DEF NotifyNode, InTask
    <3>2. /\ task[t].order \in Bijection(1 .. Cardinality(task[t].roster), task[t].roster)
          /\ n \in task[t].roster
      BY <3>1 DEF RostersEnumerated, TaskEnumerated
    <3>3. \E i \in DOMAIN task[t].order : task[t].order[i] = n
      BY <3>2 DEF Bijection, Surjection
    <3>4. DOMAIN task[t].order \subseteq Int
      BY <1>t DEF TaskType
    <3>5. (CHOOSE i \in DOMAIN task[t].order : task[t].order[i] = n) \in Int
      BY <3>3, <3>4
    <3>6. QED
      BY <3>5 DEF SentRank, TypeOK
  <2>6. told' \in [Node -> Int]
    BY <2>1, <2>5 DEF TypeOK
  <2>7. QED
    BY <1>8, <2>4, <2>6 DEF NotifyNode, TypeOK, registryVars, counterVars, handlerVars
<1>9. QED
  BY <1>1, <1>2, <1>3, <1>4, <1>5, <1>6, <1>7, <1>8 DEF Reconfigure

\* Every step keeps the enumerations: starters.
LEMMA StartersEnumerated ==
    ASSUME TypeOK, RostersEnumerated, [Next]_vars
    PROVE  \A n \in Node : StarterEnumerated(starter'[n])
<1>1. CASE UNCHANGED starter
  BY <1>1 DEF RostersEnumerated
<1>2. ASSUME NEW n \in Node, NEW r \in StarterType, StarterEnumerated(r),
             starter' = [starter EXCEPT ![n] = r]
      PROVE  \A m \in Node : StarterEnumerated(starter'[m])
  BY <1>2 DEF RostersEnumerated, TypeOK
<1>3. StarterEnumerated(IdleStarter) /\ IdleStarter \in StarterType
  BY DEF StarterEnumerated, IdleStarter, StarterType
<1>4. ASSUME NEW n \in Node, RegisterCount(n)
      PROVE  \A m \in Node : StarterEnumerated(starter'[m])
  <2>1. CASE AllRegistered
    <3>1. starter[n] \in StarterType /\ StarterEnumerated(starter[n])
      BY DEF TypeOK, RostersEnumerated
    <3>2. /\ [starter[n] EXCEPT !.pc = "waiting"] \in StarterType
          /\ StarterEnumerated([starter[n] EXCEPT !.pc = "waiting"])
      BY <3>1 DEF StarterType, StarterEnumerated
    <3>3. starter' = [starter EXCEPT ![n] = [starter[n] EXCEPT !.pc = "waiting"]]
      BY <1>4, <2>1 DEF RegisterCount
    <3>4. QED
      BY <1>2, <3>2, <3>3
  <2>2. CASE ~AllRegistered
    BY <1>1, <1>4, <2>2 DEF RegisterCount
  <2>3. QED
    BY <2>1, <2>2
<1>5. ASSUME NEW n \in Node, StartAcquire(n)
      PROVE  \A m \in Node : StarterEnumerated(starter'[m])
  <2>1. CASE ~Accepting \/ NothingToStart
    BY <1>2, <1>3, <1>5, <2>1 DEF StartAcquire
  <2>2. CASE ~(~Accepting \/ NothingToStart)
    <3>1. PICK order \in StartOrders :
            starter' = [starter EXCEPT ![n] =
                          [pc |-> "starting", order |-> order,
                           pending |-> WithStatus("active"), bad |-> {}]]
      BY <1>5, <2>2 DEF StartAcquire
    <3>2. WithStatus("active") \in SUBSET Node
      BY DEF WithStatus
    <3>3. order \in Seq(Node)
      BY <3>2, EnumerationIsSeq DEF StartOrders
    <3>4. WithStatus("active") \subseteq {order[i] : i \in DOMAIN order}
      BY DEF StartOrders, Bijection, Surjection
    <3> DEFINE r == [pc |-> "starting", order |-> order,
                     pending |-> WithStatus("active"), bad |-> {}]
    <3>5. r \in StarterType /\ StarterEnumerated(r)
      BY <3>2, <3>3, <3>4 DEF StarterType, StarterEnumerated
    <3> HIDE DEF r
    <3>6. QED
      BY <1>2, <3>1, <3>5 DEF r
  <2>3. QED
    BY <2>1, <2>2
<1>6. ASSUME NEW n \in Node, NEW m \in Node, StartSend(n, m)
      PROVE  \A k \in Node : StarterEnumerated(starter'[k])
  <2>1. PICK error \in BOOLEAN :
          starter' = [starter EXCEPT
                        ![n].pending = @ \ {m},
                        ![n].bad = IF error THEN @ \cup {m} ELSE @]
    BY <1>6 DEF StartSend
  <2> DEFINE r == [starter[n] EXCEPT !.pending = @ \ {m},
                                     !.bad = IF error THEN @ \cup {m} ELSE @]
  <2>2. starter[n] \in StarterType /\ StarterEnumerated(starter[n])
    BY DEF TypeOK, RostersEnumerated
  <2>3. r \in StarterType /\ StarterEnumerated(r)
    BY <2>2 DEF StarterType, StarterEnumerated
  <2>4. starter' = [starter EXCEPT ![n] = r]
    BY <2>1
  <2> HIDE DEF r
  <2>5. QED
    BY <1>2, <2>3, <2>4
<1>7. ASSUME NEW n \in Node, StartFinish(n)
      PROVE  \A m \in Node : StarterEnumerated(starter'[m])
  BY <1>2, <1>3, <1>7 DEF StartFinish
<1>8. ASSUME NEW n \in Node,
             \/ RegisterAdmit(n) \/ RegisterLookup(n) \/ RegisterReserve(n)
             \/ RegisterSession(n) \/ RegisterNode(n) \/ SendHeartbeat(n)
      PROVE  UNCHANGED starter
  BY <1>8 DEF RegisterAdmit, RegisterLookup, RegisterReserve, RegisterSession,
              RegisterNode, SendHeartbeat, handlerVars
<1>9. ASSUME FailureStep
      PROVE  UNCHANGED starter
  BY <1>9, FailureKeepsHandlers
<1>10. ASSUME ReconfigurationStep
       PROVE  UNCHANGED starter
  BY <1>10, ReconfigurationKeepsHandlers
<1>11. CASE UNCHANGED vars
  BY <1>1, <1>11 DEF vars, handlerVars
<1>12. QED
  BY <1>1, <1>4, <1>5, <1>6, <1>7, <1>8, <1>9, <1>10, <1>11
  DEF Next, RegistrationStep

\* Every step keeps the enumerations: reconfigurations.
LEMMA TasksEnumerated ==
    ASSUME TypeOK, RostersEnumerated, [Next]_vars
    PROVE  \A t \in Task : TaskEnumerated(task'[t])
<1>1. CASE UNCHANGED task
  BY <1>1 DEF RostersEnumerated
<1>2. ASSUME NEW t \in Task, NEW r, TaskEnumerated(r), task' = [task EXCEPT ![t] = r]
      PROVE  \A u \in Task : TaskEnumerated(task'[u])
  BY <1>2 DEF RostersEnumerated, TypeOK
<1>3. ASSUME NEW S \in SUBSET Node
      PROVE  \A t \in Task : TaskEnumerated(LoseObjects(S, task)[t])
  <2>1. SUFFICES ASSUME NEW t \in Task
                 PROVE  TaskEnumerated(LoseObjects(S, task)[t])
    OBVIOUS
  <2>2. task[t] \in TaskType /\ TaskEnumerated(task[t])
    BY DEF TypeOK, RostersEnumerated
  <2>3. QED
    BY <2>2 DEF LoseObjects, TaskEnumerated, TaskType
<1>4. ASSUME NEW r \in TaskType, r.pc \notin {"assign", "notify", "settle"}
      PROVE  TaskEnumerated(r)
  BY <1>4 DEF TaskEnumerated
<1>5. ASSUME RegistrationStep
      PROVE  UNCHANGED task
  BY <1>5 DEF RegistrationStep, RegisterAdmit, RegisterLookup, RegisterReserve,
              RegisterSession, RegisterNode, RegisterCount, SendHeartbeat, StartAcquire,
              StartSend, StartFinish
<1>6. ASSUME NEW c \in Notifier, HandleNodeFailure(c)
      PROVE  \A t \in Task : TaskEnumerated(task'[t])
  <2>1. CASE UNCHANGED task
    BY <1>1, <2>1
  <2>2. CASE \E g \in Goroutine : task' = [task EXCEPT ![g].pc = "begin"]
    <3>1. PICK g \in Goroutine : task' = [task EXCEPT ![g] = [task[g] EXCEPT !.pc = "begin"]]
      BY <2>2
    <3>2. g \in Task /\ task[g] \in TaskType
      BY DEF TypeOK, Task
    <3>3. TaskEnumerated([task[g] EXCEPT !.pc = "begin"])
      BY <3>2 DEF TaskEnumerated, TaskType
    <3>4. QED
      BY <1>2, <3>1, <3>2, <3>3
  <2>3. QED
    BY <1>6, <2>1, <2>2 DEF HandleNodeFailure, FailureRefused, FailureAccepted
<1>7. CASE CleanupDeadConnections
  <2>1. {n \in Node : health[n] = "dead"} \in SUBSET Node
    OBVIOUS
  <2>2. QED
    BY <1>3, <1>7, <2>1 DEF CleanupDeadConnections
<1>8. ASSUME FailureStep, ~CleanupDeadConnections, \A c \in Notifier : ~HandleNodeFailure(c)
      PROVE  UNCHANGED task
  BY <1>8 DEF FailureStep, Age, NotifySeen, NotifyMark, HealthScan, HealthTimeout,
              CleanupSessions
<1>9. ASSUME NEW t \in ApiCall, NEW n \in Node, RemoveNode(t, n)
      PROVE  \A u \in Task : TaskEnumerated(task'[u])
  <2> DEFINE tasks == LoseObjects({n}, task)
  <2>1. /\ \A u \in Task : TaskEnumerated(tasks[u])
        /\ tasks \in [Task -> TaskType]
        /\ t \in Task
    BY <1>3, LoseObjectsTypeOK DEF Task
  <2>2. task' = tasks \/ task' = [tasks EXCEPT ![t].pc = "begin"]
    BY <1>9 DEF RemoveNode
  <2> HIDE DEF tasks
  <2>3. TaskEnumerated([tasks[t] EXCEPT !.pc = "begin"])
    BY <2>1 DEF TaskEnumerated, TaskType
  <2>4. QED
    BY <2>1, <2>2, <2>3
<1>10. ASSUME NEW t \in Task, Reconfigure(t)
       PROVE  \A u \in Task : TaskEnumerated(task'[u])
  <2>t. task[t] \in TaskType /\ TaskEnumerated(task[t])
    BY DEF TypeOK, RostersEnumerated
  <2>i. IdleTask \in TaskType /\ IdleTask.pc = "idle"
    BY DEF IdleTask, TaskType, TaskPC
  <2>1. CASE Begin(t)
    <3>1. TaskEnumerated([task[t] EXCEPT !.pc = "collect"]) /\ TaskEnumerated(IdleTask)
      BY <2>t, <2>i DEF TaskEnumerated, TaskType
    <3>2. \/ task' = [task EXCEPT ![t] = [task[t] EXCEPT !.pc = "collect"]]
          \/ task' = [task EXCEPT ![t] = IdleTask]
      BY <2>1 DEF Begin
    <3>3. QED
      BY <1>2, <3>1, <3>2
  <2>2. CASE Collect(t)
    <3>1. PICK promo \in SUBSET WithStatus("standby") :
            task' = [task EXCEPT ![t] =
                       [task[t] EXCEPT !.pc = IF promo = {} THEN "sort" ELSE "promote",
                                       !.roster = WithStatus("active"), !.promo = promo,
                                       !.lost = {}, !.done = 0]]
      BY <2>2 DEF Collect
    <3> DEFINE r == [task[t] EXCEPT !.pc = IF promo = {} THEN "sort" ELSE "promote",
                                    !.roster = WithStatus("active"), !.promo = promo,
                                    !.lost = {}, !.done = 0]
    <3>2. r.pc \in {"sort", "promote"}
      BY <2>t DEF TaskType
    <3>3. task' = [task EXCEPT ![t] = r]
      BY <3>1
    <3> HIDE DEF r
    <3>4. TaskEnumerated(r)
      BY <3>2 DEF TaskEnumerated
    <3>5. QED
      BY <1>2, <3>3, <3>4
  <2>3. CASE Count(t)
    <3>1. TaskEnumerated([task[t] EXCEPT !.pc = "sort", !.done = 0])
      BY <2>t DEF TaskEnumerated, TaskType
    <3>2. task' = [task EXCEPT ![t] = [task[t] EXCEPT !.pc = "sort", !.done = 0]]
      BY <2>3 DEF Count
    <3>3. QED
      BY <1>2, <3>1, <3>2
  <2>4. CASE Sort(t)
    <3>1. CASE UNCHANGED task
      BY <1>1, <3>1
    <3>2. CASE \E order \in RankOrders(t) :
                 task' = [task EXCEPT ![t] =
                            [task[t] EXCEPT !.pc = "assign", !.order = order, !.idx = 1]]
      <4>1. PICK order \in RankOrders(t) :
              task' = [task EXCEPT ![t] =
                         [task[t] EXCEPT !.pc = "assign", !.order = order, !.idx = 1]]
        BY <3>2
      <4>2. order \in Bijection(1 .. Cardinality(task[t].roster), task[t].roster)
        BY DEF RankOrders
      <4>3. TaskEnumerated([task[t] EXCEPT !.pc = "assign", !.order = order, !.idx = 1])
        BY <2>t, <4>2 DEF TaskEnumerated, TaskType
      <4>4. QED
        BY <1>2, <4>1, <4>3
    <3>3. QED
      BY <2>4, <3>1, <3>2 DEF Sort
  <2>5. CASE AssignRank(t)
    <3> DEFINE r1 == [task[t] EXCEPT !.pc = "notify", !.pending = task[t].roster, !.idx = 0]
               r2 == [task[t] EXCEPT !.idx = task[t].idx + 1]
    <3>1. task[t].pc = "assign"
      BY <2>5 DEF AssignRank, InTask
    <3>2. TaskEnumerated(r1)
      BY <2>t, <3>1 DEF TaskEnumerated, TaskType
    <3>3. TaskEnumerated(r2)
      BY <2>t, <3>1 DEF TaskEnumerated, TaskType
    <3>4. task' = [task EXCEPT ![t] = r1] \/ task' = [task EXCEPT ![t] = r2]
      BY <2>5 DEF AssignRank
    <3> HIDE DEF r1, r2
    <3>5. QED
      BY <1>2, <3>2, <3>3, <3>4
  <2>6. CASE Settle(t)
    <3> DEFINE r == [IdleTask EXCEPT !.pc = "collect", !.try = task[t].try + 1]
    <3>1. r.pc = "collect"
      BY DEF IdleTask
    <3>2. \/ task' = [task EXCEPT ![t] = IdleTask]
          \/ task' = [task EXCEPT ![t] = r]
          \/ UNCHANGED task
      BY <2>6 DEF Settle, Succeed, Retry
    <3> HIDE DEF r
    <3>3. TaskEnumerated(r) /\ TaskEnumerated(IdleTask)
      BY <2>i, <3>1 DEF TaskEnumerated
    <3>4. QED
      BY <1>1, <1>2, <3>2, <3>3
  <2>7. ASSUME NEW n \in Node, Promote(t, n)
        PROVE  \A u \in Task : TaskEnumerated(task'[u])
    <3> DEFINE r == [task[t] EXCEPT !.pc = IF task[t].promo = {n} THEN "count" ELSE "promote",
                                    !.promo = @ \ {n}, !.roster = @ \cup {n}, !.done = @ + 1]
    <3>1. r.pc \in {"count", "promote"}
      BY <2>t DEF TaskType
    <3>2. task' = [task EXCEPT ![t] = r]
      BY <2>7 DEF Promote
    <3> HIDE DEF r
    <3>3. TaskEnumerated(r)
      BY <3>1 DEF TaskEnumerated
    <3>4. QED
      BY <1>2, <3>2, <3>3
  <2>8. ASSUME NEW n \in Node, NotifyNode(t, n)
        PROVE  \A u \in Task : TaskEnumerated(task'[u])
    <3>1. PICK error \in BOOLEAN :
            task' = [task EXCEPT ![t] =
                       [task[t] EXCEPT !.pending = @ \ {n},
                                       !.pc = IF task[t].pending = {n} THEN "settle" ELSE "notify",
                                       !.bad = IF error THEN @ \cup {n} ELSE @]]
      BY <2>8 DEF NotifyNode
    <3>2. task[t].pc = "notify"
      BY <2>8 DEF NotifyNode, InTask
    <3> DEFINE r == [task[t] EXCEPT !.pending = @ \ {n},
                                    !.pc = IF task[t].pending = {n} THEN "settle" ELSE "notify",
                                    !.bad = IF error THEN @ \cup {n} ELSE @]
    <3>3. TaskEnumerated(r)
      BY <2>t, <3>2 DEF TaskEnumerated, TaskType
    <3>4. task' = [task EXCEPT ![t] = r]
      BY <3>1
    <3> HIDE DEF r
    <3>5. QED
      BY <1>2, <3>3, <3>4
  <2>9. QED
    BY <1>10, <2>1, <2>2, <2>3, <2>4, <2>5, <2>6, <2>7, <2>8 DEF Reconfigure
<1>11. CASE UNCHANGED vars
  BY <1>1, <1>11 DEF vars
<1>12. QED
  BY <1>1, <1>5, <1>6, <1>7, <1>8, <1>9, <1>10, <1>11
  DEF Next, FailureStep, ReconfigurationStep, Reconfigure

\* Init establishes the enumerations.
LEMMA InitEnumerated == Init => RostersEnumerated
BY DEF Init, RostersEnumerated, StarterEnumerated, TaskEnumerated, IdleStarter, IdleTask

\* Every step keeps the types.
LEMMA NextTypeOK ==
    ASSUME TypeOK, RostersEnumerated, [Next]_vars
    PROVE  TypeOK'
<1>1. CASE RegistrationStep
  BY <1>1, RegisterTypeOK, StartTypeOK DEF RegistrationStep, RegisterHandler
<1>2. CASE FailureStep
  BY <1>2, NotifierTypeOK, HealthTypeOK DEF FailureStep, NotifierHandler
<1>3. CASE ReconfigurationStep
  BY <1>3, ReconfigureTypeOK, RemoveTypeOK DEF ReconfigurationStep, Reconfigure
<1>4. CASE UNCHANGED vars
  BY <1>4 DEF vars, registryVars, counterVars, handlerVars, TypeOK
<1>5. QED
  BY <1>1, <1>2, <1>3, <1>4 DEF Next

\* The types, together with the enumerations that make them inductive.
TypeInv == TypeOK /\ RostersEnumerated

LEMMA TypeInvInductive == Spec => []TypeInv
<1>1. Init => TypeInv
  BY InitTypeOK, InitEnumerated DEF TypeInv
<1>2. TypeInv /\ [Next]_vars => TypeInv'
  BY NextTypeOK, StartersEnumerated, TasksEnumerated DEF TypeInv, RostersEnumerated
<1>3. QED
  BY <1>1, <1>2, PTL DEF Spec

\* The server's state keeps its types: in particular no rank is ever read from
\* a place a node does not have in the list it is notified from.
THEOREM TypeCorrect == Spec => []TypeOK
<1>1. TypeInv => TypeOK
  BY DEF TypeInv
<1>2. QED
  BY <1>1, TypeInvInductive, PTL

-----------------------------------------------------------------------------
(* The leaked lock *)

\* Only before the start is the transition to Reconfiguring refused.
LEMMA RefusedOnlyInitially ==
    ASSUME TypeOK, Alive, ~CanTransition("Reconfiguring")
    PROVE  state = "Initializing"
BY DEF TypeOK, States, Alive, CanTransition, validTransitions

\* Init leaks nothing and reconfigures nothing.
LEMMA InitLeakFree == Init => NoReconfigurationBeforeStart /\ NoReconfigurationUnderLeak
BY DEF Init, NoReconfigurationBeforeStart, NoReconfigurationUnderLeak, IdleTask, Task

\* A step that neither touches the program counters nor the lock, and does not
\* return to Initializing, disturbs neither.
LEMMA LeakFreeUndisturbed ==
    ASSUME TypeOK, NoReconfigurationBeforeStart, NoReconfigurationUnderLeak,
           \A t \in Task : task'[t].pc = task[t].pc,
           state' = "Initializing" => state = "Initializing",
           UNCHANGED registryMu
    PROVE  NoReconfigurationBeforeStart' /\ NoReconfigurationUnderLeak'
BY DEF NoReconfigurationBeforeStart, NoReconfigurationUnderLeak, Task

\* Losing objects leaves the program counters alone.
LEMMA LoseObjectsPC ==
    ASSUME TypeOK, NEW S, NEW t \in Task
    PROVE  LoseObjects(S, task)[t].pc = task[t].pc
<1>1. task[t] \in TaskType
  BY DEF TypeOK
<1>2. QED
  BY <1>1 DEF LoseObjects, TaskType

\* A step of a reconfiguration goes on, or ends it, after the start and under a
\* lock that is free.
LEMMA ReconfigureLeakFree ==
    ASSUME TypeOK, NoReconfigurationBeforeStart, NoReconfigurationUnderLeak,
           NEW t \in Task, Reconfigure(t)
    PROVE  NoReconfigurationBeforeStart' /\ NoReconfigurationUnderLeak'
<1>1. task[t].pc # "idle"
  BY DEF Reconfigure, Begin, Collect, Promote, Count, Sort, AssignRank, NotifyNode,
         Settle, InTask
<1>2. state # "Initializing"
  BY <1>1 DEF NoReconfigurationBeforeStart
<1>3. state' # "Initializing" /\ UNCHANGED registryMu
  BY <1>2 DEF Reconfigure, Begin, Collect, Promote, Count, Sort, AssignRank, NotifyNode,
              Settle, Succeed, Resumed, Retry
<1>4. \E r : task' = [task EXCEPT ![t] = r]
  <2>1. CASE UNCHANGED task
    BY <2>1 DEF TypeOK
  <2>2. CASE Begin(t)
    BY <2>2 DEF Begin
  <2>3. CASE Settle(t)
    BY <2>1, <2>3 DEF Settle, Succeed, Retry
  <2>4. CASE Collect(t) \/ Count(t) \/ Sort(t) \/ AssignRank(t)
    BY <2>1, <2>4 DEF Collect, Count, Sort, AssignRank
  <2>5. CASE \E n \in Node : Promote(t, n) \/ NotifyNode(t, n)
    BY <2>5 DEF Promote, NotifyNode
  <2>6. QED
    BY <2>2, <2>3, <2>4, <2>5 DEF Reconfigure
<1>5. \A u \in Task : u # t => task'[u] = task[u]
  BY <1>4 DEF TypeOK
<1>6. NoReconfigurationBeforeStart'
  BY <1>3 DEF NoReconfigurationBeforeStart
<1>7. NoReconfigurationUnderLeak'
  BY <1>1, <1>3, <1>5 DEF NoReconfigurationUnderLeak, Task
<1>8. QED
  BY <1>6, <1>7

\* Every step keeps reconfigurations and the leak apart.
LEMMA NextLeakFree ==
    ASSUME TypeOK, NoReconfigurationBeforeStart, NoReconfigurationUnderLeak, [Next]_vars
    PROVE  NoReconfigurationBeforeStart' /\ NoReconfigurationUnderLeak'
<1>1. CASE RegistrationStep
  <2>1. UNCHANGED <<task, registryMu>> /\ (state' = "Initializing" => state = "Initializing")
    BY <1>1 DEF RegistrationStep, RegisterAdmit, RegisterLookup, RegisterReserve,
                RegisterSession, RegisterNode, RegisterCount, SendHeartbeat, StartAcquire,
                StartSend, StartFinish
  <2>2. QED
    BY <2>1, LeakFreeUndisturbed
<1>2. ASSUME NEW c \in Notifier, HandleNodeFailure(c)
      PROVE  NoReconfigurationBeforeStart' /\ NoReconfigurationUnderLeak'
  <2> DEFINE n == notifier[c].node
  <2>1. CASE UNCHANGED <<state, status, counterVars, registryMu, task>>
    BY <2>1, LeakFreeUndisturbed
  <2>2. CASE ~CanTransition("Reconfiguring") /\ FailureRefused
    <3>1. state = "Initializing"
      BY <1>2, <2>2, RefusedOnlyInitially DEF HandleNodeFailure
    <3>2. \A t \in Task : task[t].pc = "idle"
      BY <3>1 DEF NoReconfigurationBeforeStart
    <3>3. QED
      BY <2>2, <3>2 DEF FailureRefused, NoReconfigurationBeforeStart,
                        NoReconfigurationUnderLeak, Task
  <2>3. CASE FailureAccepted(n)
    <3>1. state' = "Reconfiguring" /\ registryMu' = "free"
      BY <1>2, <2>3 DEF HandleNodeFailure, FailureAccepted, UnderRegistryMu
    <3>2. QED
      BY <3>1 DEF NoReconfigurationBeforeStart, NoReconfigurationUnderLeak
  <2>4. QED
    BY <1>2, <2>1, <2>2, <2>3 DEF HandleNodeFailure
<1>3. CASE CleanupDeadConnections
  BY <1>3, LoseObjectsPC, LeakFreeUndisturbed DEF CleanupDeadConnections
<1>4. ASSUME FailureStep, ~CleanupDeadConnections, \A c \in Notifier : ~HandleNodeFailure(c)
      PROVE  NoReconfigurationBeforeStart' /\ NoReconfigurationUnderLeak'
  <2>1. UNCHANGED <<task, registryMu, state>>
    BY <1>4 DEF FailureStep, Age, NotifySeen, NotifyMark, HealthScan, HealthTimeout,
                CleanupSessions
  <2>2. QED
    BY <2>1, LeakFreeUndisturbed
<1>5. ASSUME NEW t \in ApiCall, NEW n \in Node, RemoveNode(t, n)
      PROVE  NoReconfigurationBeforeStart' /\ NoReconfigurationUnderLeak'
  <2>1. state' = "Reconfiguring" /\ UNCHANGED registryMu
    BY <1>5 DEF RemoveNode
  <2>2. \A g \in Goroutine : task'[g].pc = task[g].pc
    <3> DEFINE tasks == LoseObjects({n}, task)
    <3>1. tasks \in [Task -> TaskType] /\ \A g \in Task : tasks[g].pc = task[g].pc
      BY LoseObjectsTypeOK, LoseObjectsPC
    <3>2. task' = tasks \/ task' = [tasks EXCEPT ![t].pc = "begin"]
      BY <1>5 DEF RemoveNode
    <3> HIDE DEF tasks
    <3>3. \A g \in Goroutine : g \in Task /\ g # t
      BY TaskAssumption DEF Task
    <3>4. QED
      BY <3>1, <3>2, <3>3
  <2>3. QED
    BY <2>1, <2>2 DEF NoReconfigurationBeforeStart, NoReconfigurationUnderLeak
<1>6. CASE UNCHANGED vars
  BY <1>6, LeakFreeUndisturbed DEF vars
<1>7. QED
  BY <1>1, <1>2, <1>3, <1>4, <1>5, <1>6, ReconfigureLeakFree
  DEF Next, FailureStep, ReconfigurationStep, Reconfigure

\* A reconfiguration that a failure started never meets a leaked registry lock.
THEOREM LeakNeverStopsRecovery == Spec => []NoReconfigurationUnderLeak
<1>1. Init => NoReconfigurationBeforeStart /\ NoReconfigurationUnderLeak
  BY InitLeakFree
<1>2. TypeInv /\ NoReconfigurationBeforeStart /\ NoReconfigurationUnderLeak /\ [Next]_vars
        => NoReconfigurationBeforeStart' /\ NoReconfigurationUnderLeak'
  BY NextLeakFree DEF TypeInv
<1>3. QED
  BY <1>1, <1>2, TypeInvInductive, PTL DEF Spec

-----------------------------------------------------------------------------
(* The coherence of registry, health records, sessions and handlers *)

\* Init is coherent.
LEMMA InitCoherent == Init => RegistryCoherent /\ PromotableRegistered
BY DEF Init, RegistryCoherent, PromotableRegistered, Registered, IdleReg, IdleTask

\* A step that keeps the set of registered nodes, their health records and the
\* sessions, and brings no handler to a reserved slot, keeps coherence.
LEMMA CoherentUndisturbed ==
    ASSUME RegistryCoherent,
           \A n \in Node : status'[n] = "absent" <=> status[n] = "absent",
           \A n \in Node : health'[n] = "absent" <=> health[n] = "absent",
           UNCHANGED <<reg, session>>
    PROVE  RegistryCoherent'
BY DEF RegistryCoherent, Registered

\* Every step of a registration keeps coherence.
LEMMA RegistrationCoherent ==
    ASSUME TypeOK, RegistryCoherent, RegistrationStep
    PROVE  RegistryCoherent'
<1>1. ASSUME NEW n \in Node, RegisterAdmit(n)
      PROVE  RegistryCoherent'
  BY <1>1 DEF RegisterAdmit, RegGoto, RegistryCoherent, Registered, TypeOK, RegType,
              registryVars
<1>2. ASSUME NEW n \in Node, RegisterLookup(n)
      PROVE  RegistryCoherent'
  <2>1. CASE Reconnect(n) /\ n \in Registered
    BY <1>2, <2>1 DEF RegisterLookup, Reconnect, RegDone, IdleReg, RegistryCoherent,
                      Registered, TypeOK, RegType
  <2>2. CASE /\ session[n] = "none" \/ n \notin Registered
             /\ RegGoto(n, "reserve")
             /\ UNCHANGED <<session, health, healthFailed>>
    BY <1>2, <2>2 DEF RegisterLookup, RegGoto, RegistryCoherent, Registered, TypeOK, RegType
  <2>3. QED
    BY <1>2, <2>1, <2>2 DEF RegisterLookup
<1>3. ASSUME NEW n \in Node, RegisterReserve(n)
      PROVE  RegistryCoherent'
  BY <1>3 DEF RegisterReserve, RegDone, IdleReg, RegistryCoherent, Registered, TypeOK,
              RegType, registryVars
<1>4. ASSUME NEW n \in Node, RegisterSession(n)
      PROVE  RegistryCoherent'
  BY <1>4 DEF RegisterSession, RegGoto, RegistryCoherent, Registered, TypeOK, RegType,
              registryVars
<1>5. ASSUME NEW n \in Node, RegisterNode(n)
      PROVE  RegistryCoherent'
  <2>1. session[n] = "connected" /\ reg[n].as \in {"active", "standby"}
    BY <1>5 DEF RegisterNode, RegistryCoherent, TypeOK, RegType
  <2>2. QED
    BY <1>5, <2>1 DEF RegisterNode, RegGoto, RegistryCoherent, Registered, TypeOK, RegType
<1>6. ASSUME NEW n \in Node, RegisterCount(n)
      PROVE  RegistryCoherent'
  BY <1>6 DEF RegisterCount, RegDone, IdleReg, RegistryCoherent, Registered, TypeOK,
              RegType, registryVars
<1>7. ASSUME NEW n \in Node, SendHeartbeat(n)
      PROVE  RegistryCoherent'
  BY <1>7, CoherentUndisturbed DEF SendHeartbeat, TypeOK, handlerVars
<1>8. ASSUME NEW n \in Node,
             StartAcquire(n) \/ StartFinish(n) \/ \E m \in Node : StartSend(n, m)
      PROVE  RegistryCoherent'
  BY <1>8, CoherentUndisturbed DEF StartAcquire, StartFinish, StartSend, registryVars
<1>9. QED
  BY <1>1, <1>2, <1>3, <1>4, <1>5, <1>6, <1>7, <1>8 DEF RegistrationStep

\* Deleting registered nodes keeps coherence, with their sessions disconnected
\* or not.
LEMMA DeleteCoherent ==
    ASSUME TypeOK, RegistryCoherent, NEW S \in SUBSET Registered, DeleteNodes(S),
           session' = Disconnected(S) \/ UNCHANGED session, UNCHANGED reg
    PROVE  RegistryCoherent'
<1>1. ASSUME NEW n \in Node, n \in S
      PROVE  /\ status'[n] = "absent"
             /\ health'[n] = "absent"
             /\ reg[n].pc # "store"
  BY <1>1 DEF DeleteNodes, RegistryCoherent
<1>2. ASSUME NEW n \in Node, n \notin S
      PROVE  /\ status'[n] = status[n]
             /\ health'[n] = health[n]
             /\ session'[n] = session[n]
  BY <1>2 DEF DeleteNodes, Disconnected, TypeOK
<1>3. QED
  BY <1>1, <1>2 DEF RegistryCoherent, Registered

\* Every step that handles a failure keeps coherence.
LEMMA FailureCoherent ==
    ASSUME TypeOK, RegistryCoherent, FailureStep
    PROVE  RegistryCoherent'
<1>1. ASSUME NEW n \in Node, Age(n)
      PROVE  RegistryCoherent'
  BY <1>1, CoherentUndisturbed DEF Age, TypeOK, handlerVars
<1>2. ASSUME NEW c \in Notifier, HandleNodeFailure(c)
      PROVE  RegistryCoherent'
  <2>1. \A m \in Node : status'[m] = "absent" <=> status[m] = "absent"
    BY <1>2 DEF HandleNodeFailure, FailureRefused, FailureAccepted, Registered, TypeOK
  <2>2. QED
    BY <1>2, <2>1, CoherentUndisturbed DEF HandleNodeFailure
<1>3. CASE HealthTimeout
  <2>1. \A m \in Node : status'[m] = "absent" <=> status[m] = "absent"
    BY <1>3 DEF HealthTimeout, StatusAfterTimeout, Registered, TypeOK
  <2>2. QED
    BY <1>3, <2>1, CoherentUndisturbed DEF HealthTimeout
<1>4. ASSUME NEW n \in Node, CleanupSessions(n)
      PROVE  RegistryCoherent'
  BY <1>4 DEF CleanupSessions, RegistryCoherent, Registered, TypeOK, registryVars, handlerVars
<1>5. CASE CleanupDeadConnections
  <2> DEFINE dead == {n \in Node : health[n] = "dead"}
  <2>1. dead \in SUBSET Registered
    BY DEF RegistryCoherent, Registered
  <2>2. DeleteNodes(dead) /\ session' = Disconnected(dead) /\ UNCHANGED reg
    BY <1>5 DEF CleanupDeadConnections, handlerVars
  <2> HIDE DEF dead
  <2>3. QED
    BY <2>1, <2>2, DeleteCoherent
<1>6. ASSUME \/ \E n \in Node, c \in Notifier : NotifySeen(c, n)
             \/ \E c \in Notifier : NotifyMark(c)
             \/ \E n \in Node : HealthScan(n)
      PROVE  RegistryCoherent'
  BY <1>6, CoherentUndisturbed DEF NotifySeen, NotifyMark, HealthScan, registryVars
<1>7. QED
  BY <1>1, <1>2, <1>3, <1>4, <1>5, <1>6 DEF FailureStep

\* Every step of a reconfiguration, and of a removal, keeps coherence.
LEMMA ReconfigurationCoherent ==
    ASSUME TypeOK, RegistryCoherent, PromotableRegistered, ReconfigurationStep
    PROVE  RegistryCoherent'
<1>1. ASSUME NEW t \in Task, NEW n \in Node, Promote(t, n)
      PROVE  RegistryCoherent'
  <2>1. n \in task[t].lost \/ n \in Registered
    BY <1>1 DEF Promote, PromotableRegistered
  <2>2. \A m \in Node : status'[m] = "absent" <=> status[m] = "absent"
    BY <1>1, <2>1 DEF Promote, Registered, TypeOK
  <2>3. QED
    BY <1>1, <2>2, CoherentUndisturbed DEF Promote, handlerVars
<1>2. ASSUME NEW t \in Task, Settle(t)
      PROVE  RegistryCoherent'
  <2>1. \A m \in Node : status'[m] = "absent" <=> status[m] = "absent"
    BY <1>2 DEF Settle, Succeed, Retry, FoundByUrl, Registered, TypeOK
  <2>2. QED
    BY <1>2, <2>1, CoherentUndisturbed DEF Settle, handlerVars
<1>3. ASSUME NEW t \in Task,
             \/ Begin(t) \/ Collect(t) \/ Count(t) \/ Sort(t) \/ AssignRank(t)
             \/ \E n \in Node : NotifyNode(t, n)
      PROVE  RegistryCoherent'
  BY <1>3, CoherentUndisturbed
  DEF Begin, Collect, Count, Sort, AssignRank, NotifyNode, registryVars, handlerVars
<1>4. ASSUME NEW t \in ApiCall, NEW n \in Node, RemoveNode(t, n)
      PROVE  RegistryCoherent'
  <2>1. {n} \in SUBSET Registered /\ DeleteNodes({n}) /\ UNCHANGED <<session, reg>>
    BY <1>4 DEF RemoveNode, handlerVars
  <2>2. QED
    BY <2>1, DeleteCoherent
<1>5. QED
  BY <1>1, <1>2, <1>3, <1>4 DEF ReconfigurationStep

\* A step under which no node leaves the registry and no reconfiguration gains
\* a node to promote keeps the nodes to promote registered.
LEMMA PromotableUndisturbed ==
    ASSUME PromotableRegistered,
           Registered \subseteq Registered',
           \A t \in Task : task'[t].promo \ task'[t].lost \subseteq task[t].promo \ task[t].lost
    PROVE  PromotableRegistered'
BY DEF PromotableRegistered

\* A reconfiguration whose record gains no node to promote leaves every
\* reconfiguration so.
LEMMA NoPromotableGained ==
    ASSUME TypeOK, NEW t \in Task, NEW r, task' = [task EXCEPT ![t] = r],
           r.promo \ r.lost \subseteq task[t].promo \ task[t].lost
    PROVE  \A u \in Task :
             task'[u].promo \ task'[u].lost \subseteq task[u].promo \ task[u].lost
<1>1. task'[t] = r /\ \A u \in Task : u # t => task'[u] = task[u]
  BY DEF TypeOK
<1>2. QED
  BY <1>1

\* Deleting nodes keeps the nodes to promote registered: their pointers are
\* known to be lost.
LEMMA DeletePromotable ==
    ASSUME TypeOK, PromotableRegistered, NEW S \in SUBSET Node, DeleteNodes(S),
           \A t \in Task : /\ task'[t].promo = LoseObjects(S, task)[t].promo
                           /\ task'[t].lost = LoseObjects(S, task)[t].lost
    PROVE  PromotableRegistered'
<1>1. SUFFICES ASSUME NEW t \in Task, NEW n \in task'[t].promo \ task'[t].lost
               PROVE  n \in Registered'
  BY DEF PromotableRegistered
<1>2. task[t] \in TaskType
  BY DEF TypeOK
<1>3. /\ task'[t].promo = task[t].promo
      /\ task'[t].lost = task[t].lost \cup (S \cap (task[t].roster \cup task[t].promo))
  BY <1>2 DEF LoseObjects, TaskType
<1>4. n \in Registered /\ n \notin S
  BY <1>3 DEF PromotableRegistered
<1>5. QED
  BY <1>4 DEF DeleteNodes, Registered

\* Every step of the server keeps the nodes to promote registered.
LEMMA NextPromotable ==
    ASSUME TypeOK, PromotableRegistered, [Next]_vars
    PROVE  PromotableRegistered'
<1>1. CASE RegistrationStep
  <2>1. UNCHANGED task
    BY <1>1 DEF RegistrationStep, RegisterAdmit, RegisterLookup, RegisterReserve,
                RegisterSession, RegisterNode, RegisterCount, SendHeartbeat, StartAcquire,
                StartSend, StartFinish
  <2>2. CASE UNCHANGED status
    BY <2>1, <2>2, PromotableUndisturbed DEF Registered
  <2>3. CASE \E n \in Node : RegisterNode(n)
    <3>1. PICK n \in Node : RegisterNode(n)
      BY <2>3
    <3>2. reg[n].as \in {"active", "standby"}
      BY DEF TypeOK, RegType
    <3>3. Registered \subseteq Registered'
      BY <3>1, <3>2 DEF RegisterNode, Registered, TypeOK
    <3>4. QED
      BY <2>1, <3>3, PromotableUndisturbed
  <2>4. QED
    BY <1>1, <2>2, <2>3
    DEF RegistrationStep, RegisterAdmit, RegisterLookup, RegisterReserve, RegisterSession,
        RegisterCount, SendHeartbeat, StartAcquire, StartSend, StartFinish, registryVars
<1>2. ASSUME NEW c \in Notifier, HandleNodeFailure(c)
      PROVE  PromotableRegistered'
  <2>1. Registered \subseteq Registered'
    BY <1>2 DEF HandleNodeFailure, FailureRefused, FailureAccepted, Registered, TypeOK
  <2>2. CASE UNCHANGED task
    BY <2>1, <2>2, PromotableUndisturbed
  <2>3. CASE \E g \in Goroutine : task' = [task EXCEPT ![g].pc = "begin"]
    <3>1. PICK g \in Goroutine : task' = [task EXCEPT ![g].pc = "begin"]
      BY <2>3
    <3>2. g \in Task /\ task[g] \in TaskType
      BY DEF Task, TypeOK
    <3> DEFINE r == [task[g] EXCEPT !.pc = "begin"]
    <3>3. r.promo = task[g].promo /\ r.lost = task[g].lost
      BY <3>2 DEF TaskType
    <3>4. task' = [task EXCEPT ![g] = r]
      BY <3>1
    <3> HIDE DEF r
    <3>5. QED
      BY <2>1, <3>2, <3>3, <3>4, NoPromotableGained, PromotableUndisturbed
  <2>4. QED
    BY <1>2, <2>2, <2>3 DEF HandleNodeFailure, FailureRefused, FailureAccepted
<1>3. CASE HealthTimeout
  <2>1. Registered \subseteq Registered' /\ UNCHANGED task
    BY <1>3 DEF HealthTimeout, StatusAfterTimeout, Registered, TypeOK
  <2>2. QED
    BY <2>1, PromotableUndisturbed
<1>4. CASE CleanupDeadConnections
  BY <1>4, DeletePromotable DEF CleanupDeadConnections
<1>5. ASSUME NEW t \in ApiCall, NEW n \in Node, RemoveNode(t, n)
      PROVE  PromotableRegistered'
  <2> DEFINE tasks == LoseObjects({n}, task)
  <2>1. tasks \in [Task -> TaskType]
    BY LoseObjectsTypeOK
  <2>2. task' = tasks \/ task' = [tasks EXCEPT ![t].pc = "begin"]
    BY <1>5 DEF RemoveNode
  <2>3. DeleteNodes({n})
    BY <1>5 DEF RemoveNode
  <2> HIDE DEF tasks
  <2>4. \A u \in Task : task'[u].promo = tasks[u].promo /\ task'[u].lost = tasks[u].lost
    <3>1. CASE task' = tasks
      BY <3>1
    <3>2. CASE task' = [tasks EXCEPT ![t].pc = "begin"]
      <4>1. t \in Task /\ tasks[t] \in TaskType
        BY <2>1 DEF Task
      <4>2. /\ task'[t] = [tasks[t] EXCEPT !.pc = "begin"]
            /\ \A u \in Task : u # t => task'[u] = tasks[u]
        BY <2>1, <3>2, <4>1
      <4>3. task'[t].promo = tasks[t].promo /\ task'[t].lost = tasks[t].lost
        BY <4>1, <4>2 DEF TaskType
      <4>4. QED
        BY <4>2, <4>3
    <3>3. QED
      BY <2>2, <3>1, <3>2
  <2>5. QED
    BY <2>3, <2>4, DeletePromotable DEF tasks
<1>6. ASSUME NEW t \in Task, Collect(t)
      PROVE  PromotableRegistered'
  <2>1. PICK promo \in SUBSET WithStatus("standby") :
          task' = [task EXCEPT ![t] =
                     [task[t] EXCEPT !.pc = IF promo = {} THEN "sort" ELSE "promote",
                                     !.roster = WithStatus("active"), !.promo = promo,
                                     !.lost = {}, !.done = 0]]
    BY <1>6 DEF Collect
  <2>2. promo \subseteq Registered
    BY DEF WithStatus, Registered
  <2>3. /\ task'[t].promo = promo
        /\ \A u \in Task : u # t => task'[u] = task[u]
    BY <2>1 DEF TypeOK, TaskType
  <2>4. Registered' = Registered
    BY <1>6 DEF Collect, Registered, registryVars
  <2>5. QED
    BY <2>2, <2>3, <2>4 DEF PromotableRegistered
<1>7. ASSUME NEW t \in Task, NEW n \in Node, Promote(t, n)
      PROVE  PromotableRegistered'
  <2>1. Registered \subseteq Registered'
    BY <1>7 DEF Promote, Registered, TypeOK
  <2>2. \A u \in Task : /\ task'[u].promo \subseteq task[u].promo
                        /\ task'[u].lost = task[u].lost
    BY <1>7, SMTT(30) DEF Promote, TypeOK, TaskType
  <2>3. QED
    BY <2>1, <2>2, PromotableUndisturbed
<1>8. ASSUME NEW t \in Task, Begin(t) \/ Settle(t)
      PROVE  PromotableRegistered'
  <2>1. Registered \subseteq Registered'
    BY <1>8 DEF Begin, Settle, Succeed, Retry, FoundByUrl, Registered, TypeOK, registryVars
  <2> DEFINE r1 == [task[t] EXCEPT !.pc = "collect"]
             r2 == [IdleTask EXCEPT !.pc = "collect", !.try = task[t].try + 1]
  <2>2. \/ task' = [task EXCEPT ![t] = r1]
        \/ task' = [task EXCEPT ![t] = r2]
        \/ task' = [task EXCEPT ![t] = IdleTask]
        \/ UNCHANGED task
    BY <1>8 DEF Begin, Settle, Succeed, Retry
  <2>3. r1.promo = task[t].promo /\ r1.lost = task[t].lost
    BY DEF TypeOK, TaskType
  <2>4. r2.promo = {} /\ IdleTask.promo = {}
    BY DEF IdleTask
  <2> HIDE DEF r1, r2
  <2>5. CASE task' = [task EXCEPT ![t] = r1]
    BY <2>1, <2>3, <2>5, NoPromotableGained, PromotableUndisturbed
  <2>6. CASE task' = [task EXCEPT ![t] = r2]
    BY <2>1, <2>4, <2>6, NoPromotableGained, PromotableUndisturbed
  <2>7. CASE task' = [task EXCEPT ![t] = IdleTask]
    BY <2>1, <2>4, <2>7, NoPromotableGained, PromotableUndisturbed
  <2>8. CASE UNCHANGED task
    BY <2>1, <2>8, PromotableUndisturbed
  <2>9. QED
    BY <2>2, <2>5, <2>6, <2>7, <2>8
<1>9. ASSUME NEW t \in Task, NEW r, task' = [task EXCEPT ![t] = r],
             r.promo = task[t].promo, r.lost = task[t].lost, UNCHANGED status
      PROVE  PromotableRegistered'
  BY <1>9, NoPromotableGained, PromotableUndisturbed DEF Registered
<1>c. ASSUME NEW t \in Task, Count(t)
      PROVE  PromotableRegistered'
  <2> DEFINE r == [task[t] EXCEPT !.pc = "sort", !.done = 0]
  <2>1. r.promo = task[t].promo /\ r.lost = task[t].lost
    BY DEF TypeOK, TaskType
  <2>2. task' = [task EXCEPT ![t] = r] /\ UNCHANGED status
    BY <1>c DEF Count, registryVars
  <2> HIDE DEF r
  <2>3. QED
    BY <1>9, <2>1, <2>2
<1>s. ASSUME NEW t \in Task, Sort(t)
      PROVE  PromotableRegistered'
  <2>1. CASE UNCHANGED task
    BY <1>s, <2>1, PromotableUndisturbed DEF Sort, Registered, registryVars
  <2>2. CASE \E order \in RankOrders(t) :
               task' = [task EXCEPT ![t] =
                          [task[t] EXCEPT !.pc = "assign", !.order = order, !.idx = 1]]
    <3>1. PICK order \in RankOrders(t) :
            task' = [task EXCEPT ![t] =
                       [task[t] EXCEPT !.pc = "assign", !.order = order, !.idx = 1]]
      BY <2>2
    <3> DEFINE r == [task[t] EXCEPT !.pc = "assign", !.order = order, !.idx = 1]
    <3>2. r.promo = task[t].promo /\ r.lost = task[t].lost
      BY DEF TypeOK, TaskType
    <3>3. task' = [task EXCEPT ![t] = r] /\ UNCHANGED status
      BY <1>s, <3>1 DEF Sort, registryVars
    <3> HIDE DEF r
    <3>4. QED
      BY <1>9, <3>2, <3>3
  <2>3. QED
    BY <1>s, <2>1, <2>2 DEF Sort
<1>a. ASSUME NEW t \in Task, AssignRank(t)
      PROVE  PromotableRegistered'
  <2> DEFINE r1 == [task[t] EXCEPT !.pc = "notify", !.pending = task[t].roster, !.idx = 0]
             r2 == [task[t] EXCEPT !.idx = task[t].idx + 1]
  <2>1. /\ r1.promo = task[t].promo /\ r1.lost = task[t].lost
        /\ r2.promo = task[t].promo /\ r2.lost = task[t].lost
    BY DEF TypeOK, TaskType
  <2>2. /\ task' = [task EXCEPT ![t] = r1] \/ task' = [task EXCEPT ![t] = r2]
        /\ UNCHANGED status
    BY <1>a DEF AssignRank
  <2> HIDE DEF r1, r2
  <2>3. QED
    BY <1>9, <2>1, <2>2
<1>n. ASSUME NEW t \in Task, NEW n \in Node, NotifyNode(t, n)
      PROVE  PromotableRegistered'
  <2>1. PICK error \in BOOLEAN :
          task' = [task EXCEPT ![t] =
                     [task[t] EXCEPT !.pending = @ \ {n},
                                     !.pc = IF task[t].pending = {n} THEN "settle" ELSE "notify",
                                     !.bad = IF error THEN @ \cup {n} ELSE @]]
    BY <1>n DEF NotifyNode
  <2> DEFINE r == [task[t] EXCEPT !.pending = @ \ {n},
                                  !.pc = IF task[t].pending = {n} THEN "settle" ELSE "notify",
                                  !.bad = IF error THEN @ \cup {n} ELSE @]
  <2>2. r.promo = task[t].promo /\ r.lost = task[t].lost
    BY DEF TypeOK, TaskType
  <2>3. task' = [task EXCEPT ![t] = r] /\ UNCHANGED status
    BY <1>n, <2>1 DEF NotifyNode, registryVars
  <2> HIDE DEF r
  <2>4. QED
    BY <1>9, <2>2, <2>3
<1>10. ASSUME UNCHANGED <<status, task>>
       PROVE  PromotableRegistered'
  BY <1>10, PromotableUndisturbed DEF Registered
<1>11. QED
  <2>1. CASE FailureStep
    BY <2>1, <1>2, <1>3, <1>4, <1>10
    DEF FailureStep, Age, NotifySeen, NotifyMark, HealthScan, CleanupSessions, registryVars
  <2>2. CASE ReconfigurationStep
    BY <2>2, <1>5, <1>6, <1>7, <1>8, <1>c, <1>s, <1>a, <1>n DEF ReconfigurationStep
  <2>3. CASE UNCHANGED vars
    BY <2>3, <1>10 DEF vars, registryVars
  <2>4. QED
    BY <1>1, <2>1, <2>2, <2>3 DEF Next

\* The registry, its health records, the sessions and the registrations under
\* way always agree: no slot is reserved for a node that has an entry, and no
\* entry lacks the health record that the HTTP API follows without a check.
THEOREM RegistryStaysCoherent == Spec => []RegistryCoherent
<1>1. Init => RegistryCoherent /\ PromotableRegistered
  BY InitCoherent
<1>2. ASSUME TypeInv, RegistryCoherent, PromotableRegistered, [Next]_vars
      PROVE  RegistryCoherent' /\ PromotableRegistered'
  <2>1. CASE UNCHANGED vars
    BY <1>2, <2>1
    DEF vars, registryVars, handlerVars, RegistryCoherent, PromotableRegistered, Registered
  <2>2. TypeOK
    BY <1>2 DEF TypeInv
  <2>3. PromotableRegistered'
    BY <1>2, <2>2, NextPromotable
  <2>4. CASE RegistrationStep
    BY <1>2, <2>2, <2>3, <2>4, RegistrationCoherent
  <2>5. CASE FailureStep
    BY <1>2, <2>2, <2>3, <2>5, FailureCoherent
  <2>6. CASE ReconfigurationStep
    BY <1>2, <2>2, <2>3, <2>6, ReconfigurationCoherent
  <2>7. QED
    BY <1>2, <2>1, <2>3, <2>4, <2>5, <2>6 DEF Next
<1>3. QED
  BY <1>1, <1>2, TypeInvInductive, PTL DEF Spec

=============================================================================
