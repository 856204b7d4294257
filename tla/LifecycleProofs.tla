--------------------------- MODULE LifecycleProofs ---------------------------
(***************************************************************************)
(* c4d-server implements the lifecycle of ServerLifecycle; and the ranks a *)
(* reconfiguration tells, and the staff it restores, when it runs alone.   *)
(***************************************************************************)
EXTENDS SlotProofs

-----------------------------------------------------------------------------
(* The inductive invariant of the refinement *)

\* A pointer that t holds, and that is not known to be lost, leads to an entry
\* of the registry.
PointersOK(t) == (task[t].roster \cup task[t].promo) \ task[t].lost \subseteq Registered

\* A reconfiguration that assigns ranks or notifies has enough nodes, and is
\* somewhere in its list; one that settles has come to every node.
PlanOK(t) ==
    /\ task[t].pc \in {"assign", "notify", "settle"} => Enough(t)
    /\ task[t].pc = "assign" => task[t].idx \in 1 .. Cardinality(task[t].roster)
    /\ task[t].pc = "settle" => task[t].pending = {}

\* The places of the list whose nodes have been given their rank.
Ranked(t, i) ==
    /\ i \in DOMAIN task[t].order
    /\ task[t].pc = "notify" \/ (task[t].pc = "assign" /\ i < task[t].idx)
    /\ task[t].order[i] \notin task[t].lost

\* A rank that t has assigned, and that t reads again before it sends it, is
\* not the -1 of a standby, whoever has written it since.
RanksOK(t) == \A i \in Nat : Ranked(t, i) => rank[task[t].order[i]] \in Nat

\* A node that has answered has been told a rank.
AnswersOK(t) ==
    task[t].pc \in {"notify", "settle"} =>
        \A n \in task[t].roster :
            n \in task[t].pending \/ n \in task[t].bad \/ told[n] \in Nat

TaskOK(t) == PointersOK(t) /\ PlanOK(t) /\ RanksOK(t) /\ AnswersOK(t)

\* A node that has answered the start knows its place.
StartedTold ==
    \A n \in Node : starter[n].pc = "starting" =>
        \A i \in DOMAIN starter[n].order :
            \/ starter[n].order[i] \in starter[n].pending
            \/ starter[n].order[i] \in starter[n].bad
            \/ told[starter[n].order[i]] = i - 1

RankInv == StartedTold /\ \A t \in Task : TaskOK(t)


\* What the proofs below go by.
LifecycleInv == SlotInv /\ StartInv /\ RankInv

LEMMA LifecycleInvTypes ==
    ASSUME LifecycleInv
    PROVE  /\ TypeOK /\ RostersEnumerated /\ RegistryCoherent
           /\ NoReconfigurationBeforeStart /\ StartBarrier /\ StartersListOnce
           /\ StartedTold /\ \A t \in Task : TaskOK(t)
BY DEF LifecycleInv, SlotInv, TypeInv, StartInv, RankInv

\* The list of a reconfiguration that has one enumerates its roster.
LEMMA ListEnumeratesRoster ==
    ASSUME TypeOK, RostersEnumerated, NEW t \in Task, task[t].pc \in {"assign", "notify", "settle"}
    PROVE  /\ Cardinality(task[t].roster) \in Nat
           /\ DOMAIN task[t].order = 1 .. Cardinality(task[t].roster)
           /\ \A i \in DOMAIN task[t].order : task[t].order[i] \in task[t].roster
           /\ \A n \in task[t].roster : \E i \in DOMAIN task[t].order : task[t].order[i] = n
           /\ \A i, j \in DOMAIN task[t].order : task[t].order[i] = task[t].order[j] => i = j
<1>1. task[t].order \in Bijection(1 .. Cardinality(task[t].roster), task[t].roster)
  BY DEF RostersEnumerated, TaskEnumerated
<1>2. task[t].roster \in SUBSET Node
  BY DEF TypeOK, TaskType
<1>3. Cardinality(task[t].roster) \in Nat
  BY <1>2, NodeSetFinite
<1>4. QED
  BY <1>1, <1>3 DEF Bijection, Injection, Surjection, IsInjective

\* A record that has no plan yet only needs its pointers.
LEMMA EarlyTask ==
    ASSUME NEW t \in Task, task'[t].pc \notin {"assign", "notify", "settle"}, PointersOK(t)'
    PROVE  TaskOK(t)'
BY DEF TaskOK, PlanOK, RanksOK, Ranked, AnswersOK

\* A record that keeps its nodes and its plan, but for the objects it loses,
\* keeps its invariant, as long as nobody writes a negative rank.
LEMMA KeptTask ==
    ASSUME TypeOK, RostersEnumerated, NEW t \in Task, TaskOK(t),
           task'[t].pc = task[t].pc,
           task'[t].roster = task[t].roster, task'[t].promo = task[t].promo,
           task[t].lost \subseteq task'[t].lost,
           SamePlan(t),
           (task[t].roster \cup task[t].promo) \ task'[t].lost \subseteq Registered',
           \A n \in task[t].roster \ task'[t].lost : rank'[n] = rank[n] \/ rank'[n] \in Nat,
           \A n \in Node : told'[n] = told[n] \/ told'[n] \in Nat
    PROVE  TaskOK(t)'
<1>1. PointersOK(t)' /\ PlanOK(t)'
  BY DEF TaskOK, PointersOK, PlanOK, SamePlan, Enough
<1>2. AnswersOK(t)'
  <2>1. task[t].roster \subseteq Node
    BY DEF TypeOK, TaskType
  <2>2. QED
    BY <2>1 DEF TaskOK, AnswersOK, SamePlan
<1>3. RanksOK(t)'
  <2>1. SUFFICES ASSUME NEW i \in Nat, Ranked(t, i)'
                 PROVE  rank'[task[t].order[i]] \in Nat
    BY DEF RanksOK, SamePlan
  <2>2. Ranked(t, i) /\ task[t].order[i] \notin task'[t].lost
    BY <2>1 DEF Ranked, SamePlan
  <2>3. task[t].order[i] \in task[t].roster
    BY <2>2, ListEnumeratesRoster DEF Ranked
  <2>4. rank[task[t].order[i]] \in Nat
    BY <2>2 DEF TaskOK, RanksOK
  <2>5. QED
    BY <2>2, <2>3, <2>4
<1>4. QED
  BY <1>1, <1>2, <1>3 DEF TaskOK

\* The same for a record that is not touched at all.
LEMMA OtherTask ==
    ASSUME TypeOK, RostersEnumerated, NEW t \in Task, TaskOK(t), task'[t] = task[t],
           Registered \subseteq Registered',
           \A n \in Registered : rank'[n] = rank[n] \/ rank'[n] \in Nat,
           \A n \in Node : told'[n] = told[n] \/ told'[n] \in Nat
    PROVE  TaskOK(t)'
<1>1. (task[t].roster \cup task[t].promo) \ task[t].lost \subseteq Registered
  BY DEF TaskOK, PointersOK
<1>2. QED
  BY <1>1, KeptTask DEF SamePlan

\* Before the start no reconfiguration has a plan.
LEMMA NoPlanBeforeStart ==
    ASSUME TypeOK, NoReconfigurationBeforeStart, state = "Initializing",
           UNCHANGED task, Registered \subseteq Registered', NEW t \in Task, TaskOK(t)
    PROVE  TaskOK(t)'
<1>1. task'[t].pc = "idle"
  BY DEF NoReconfigurationBeforeStart
<1>2. PointersOK(t)'
  BY DEF TaskOK, PointersOK
<1>3. QED
  BY <1>1, <1>2, EarlyTask

\* Registrations add entries, and the start comes before any reconfiguration.
LEMMA RegistrationTasks ==
    ASSUME LifecycleInv, RegistrationStep, NEW t \in Task
    PROVE  TaskOK(t)'
<1>1. /\ TypeOK /\ RostersEnumerated /\ RegistryCoherent /\ NoReconfigurationBeforeStart
      /\ StartBarrier /\ TaskOK(t)
  BY LifecycleInvTypes
<1>2. UNCHANGED task
  BY DEF RegistrationStep, RegisterAdmit, RegisterLookup, RegisterReserve, RegisterSession,
         RegisterNode, RegisterCount, SendHeartbeat, StartAcquire, StartSend, StartFinish
<1>3. ASSUME NEW n \in Node, RegisterNode(n)
      PROVE  TaskOK(t)'
  <2>1. n \notin Registered /\ reg[n].as \in {"active", "standby"}
    BY <1>1, <1>3 DEF RegisterNode, RegistryCoherent, TypeOK, RegType
  <2>2. /\ status' = [status EXCEPT ![n] = reg[n].as]
        /\ rank' = [rank EXCEPT ![n] = reg[n].rank]
        /\ UNCHANGED told
    BY <1>3 DEF RegisterNode
  <2>3. Registered \subseteq Registered' /\ \A m \in Registered : rank'[m] = rank[m]
    BY <1>1, <2>1, <2>2 DEF Registered, TypeOK
  <2>4. QED
    BY <1>1, <1>2, <2>2, <2>3, OtherTask
<1>4. ASSUME NEW n \in Node,
             \/ RegisterAdmit(n) \/ RegisterLookup(n) \/ RegisterReserve(n)
             \/ RegisterSession(n) \/ RegisterCount(n) \/ SendHeartbeat(n) \/ StartFinish(n)
      PROVE  TaskOK(t)'
  <2>1. UNCHANGED <<status, rank, told>>
    BY <1>4 DEF RegisterAdmit, RegisterLookup, RegisterReserve, RegisterSession,
                RegisterCount, SendHeartbeat, StartFinish, registryVars
  <2>2. QED
    BY <1>1, <1>2, <2>1, OtherTask DEF Registered
<1>5. ASSUME NEW n \in Node, StartAcquire(n) \/ \E m \in Node : StartSend(n, m)
      PROVE  TaskOK(t)'
  <2>1. UNCHANGED status
    BY <1>5 DEF StartAcquire, StartSend, registryVars
  <2>2. state = "Initializing" \/ UNCHANGED <<rank, told>>
    BY <1>1, <1>5 DEF StartAcquire, StartSend, Accepting, NothingToStart, StartBarrier
  <2>3. QED
    BY <1>1, <1>2, <2>1, <2>2, OtherTask, NoPlanBeforeStart DEF Registered
<1>6. QED
  BY <1>3, <1>4, <1>5 DEF RegistrationStep

\* A node that is deleted is lost to every reconfiguration that points to it.
LEMMA DeletedTask ==
    ASSUME LifecycleInv, NEW S \in SUBSET Node, DeleteNodes(S), UNCHANGED told, NEW t \in Task,
           task'[t].pc = task[t].pc \/ task'[t].pc = "begin",
           task'[t].roster = task[t].roster, task'[t].promo = task[t].promo,
           task'[t].lost = task[t].lost \cup (S \cap (task[t].roster \cup task[t].promo)),
           SamePlan(t)
    PROVE  TaskOK(t)'
<1>1. TypeOK /\ RostersEnumerated /\ TaskOK(t)
  BY LifecycleInvTypes
<1>2. task[t].roster \subseteq Node /\ task[t].promo \subseteq Node
  BY <1>1 DEF TypeOK, TaskType
<1>3. ASSUME NEW n \in (task[t].roster \cup task[t].promo) \ task'[t].lost
      PROVE  n \in Registered' /\ rank'[n] = rank[n]
  <2>1. n \in Registered /\ n \notin S
    BY <1>1, <1>3 DEF TaskOK, PointersOK
  <2>2. QED
    BY <2>1 DEF DeleteNodes, Registered
<1>4. CASE task'[t].pc = "begin"
  BY <1>3, <1>4, EarlyTask DEF PointersOK
<1>5. CASE task'[t].pc = task[t].pc
  BY <1>1, <1>3, <1>5, KeptTask
<1>6. QED
  BY <1>4, <1>5

LEMMA FailureTasks ==
    ASSUME LifecycleInv, FailureStep, NEW t \in Task
    PROVE  TaskOK(t)'
<1>1. TypeOK /\ RostersEnumerated /\ TaskOK(t)
  BY LifecycleInvTypes
<1>2. UNCHANGED told
  BY DEF FailureStep, Age, HealthScan, CleanupSessions, NotifySeen, HandleNodeFailure,
         NotifyMark, HealthTimeout, CleanupDeadConnections
<1>3. ASSUME NEW c \in Notifier, HandleNodeFailure(c)
      PROVE  TaskOK(t)'
  <2>1. UNCHANGED rank
    BY <1>3 DEF HandleNodeFailure
  <2>2. Registered \subseteq Registered'
    BY <1>1, <1>3 DEF HandleNodeFailure, FailureRefused, FailureAccepted, Registered, TypeOK
  <2>3. CASE task'[t] = task[t]
    BY <1>1, <1>2, <2>1, <2>2, <2>3, OtherTask
  <2>4. CASE task'[t].pc = "begin" /\ SameNodes(t)
    <3>1. PointersOK(t)'
      BY <1>1, <2>2, <2>4 DEF TaskOK, PointersOK, SameNodes
    <3>2. QED
      BY <2>4, <3>1, EarlyTask
  <2>5. QED
    BY <1>1, <1>3, <2>3, <2>4, FailureTask DEF OnlyTask
<1>4. CASE CleanupDeadConnections
  <2> DEFINE dead == {n \in Node : health[n] = "dead"}
  <2>1. dead \in SUBSET Node /\ DeleteNodes(dead) /\ task' = LoseObjects(dead, task)
    BY <1>4 DEF CleanupDeadConnections
  <2> HIDE DEF dead
  <2>2. /\ task'[t].pc = task[t].pc
        /\ task'[t].roster = task[t].roster /\ task'[t].promo = task[t].promo
        /\ task'[t].lost = task[t].lost \cup (dead \cap (task[t].roster \cup task[t].promo))
        /\ SamePlan(t)
    BY <1>1, <2>1, LoseObjectsTask DEF SamePlan
  <2>3. QED
    BY <1>2, <2>1, <2>2, DeletedTask
<1>5. ASSUME ~CleanupDeadConnections, \A c \in Notifier : ~HandleNodeFailure(c)
      PROVE  TaskOK(t)'
  <2>1. UNCHANGED <<task, rank>>
    BY <1>5 DEF FailureStep, Age, NotifySeen, NotifyMark, HealthScan, HealthTimeout,
                CleanupSessions, registryVars
  <2>2. Registered \subseteq Registered'
    BY <1>1, <1>5 DEF FailureStep, Age, NotifySeen, NotifyMark, HealthScan, HealthTimeout,
                CleanupSessions, registryVars, StatusAfterTimeout, Registered, TypeOK
  <2>3. QED
    BY <1>1, <1>2, <2>1, <2>2, OtherTask
<1>6. QED
  BY <1>3, <1>4, <1>5

\* The rank that t sends is one it has assigned, and never negative.
LEMMA SentRankNat ==
    ASSUME TypeOK, RostersEnumerated, NEW t \in Task, TaskOK(t), task[t].pc = "notify",
           NEW n \in task[t].pending
    PROVE  SentRank(t, n) \in Nat
<1>1. n \in task[t].roster
  BY DEF RostersEnumerated, TaskEnumerated
<1>2. PICK i \in DOMAIN task[t].order : task[t].order[i] = n
  BY <1>1, ListEnumeratesRoster
<1>3. i \in Nat /\ DOMAIN task[t].order = 1 .. Cardinality(task[t].roster)
      /\ Cardinality(task[t].roster) \in Nat
  BY ListEnumeratesRoster
<1>4. CASE n \in task[t].lost
  <2> DEFINE j == CHOOSE j \in DOMAIN task[t].order : task[t].order[j] = n
  <2>1. j \in DOMAIN task[t].order
    BY <1>2
  <2> HIDE DEF j
  <2>2. j - 1 \in Nat
    BY <1>3, <2>1
  <2>3. QED
    BY <1>4, <2>2 DEF SentRank, j
<1>5. CASE n \notin task[t].lost
  <2>1. Ranked(t, i)
    BY <1>2, <1>5 DEF Ranked
  <2>2. QED
    BY <1>2, <1>3, <1>5, <2>1 DEF SentRank, TaskOK, RanksOK
<1>6. QED
  BY <1>4, <1>5

\* Steps that prepare the list: the nodes are read, promoted and counted.
LEMMA PreparingTasks ==
    ASSUME LifecycleInv, NEW t \in Task, NEW u \in Task,
           \/ Begin(t) \/ Collect(t) \/ Count(t) \/ Settle(t)
           \/ \E n \in Node : Promote(t, n)
    PROVE  TaskOK(u)'
<1>1. TypeOK /\ RostersEnumerated /\ TaskOK(u) /\ TaskOK(t)
  BY LifecycleInvTypes
<1>2. UNCHANGED told
  BY DEF Begin, Collect, Count, Settle, Promote
<1>3. Registered \subseteq Registered' /\ \A n \in Registered : rank'[n] = rank[n] \/ rank'[n] \in Nat
  <2>1. CASE Begin(t) \/ Collect(t) \/ Count(t) \/ Settle(t)
    <3>1. UNCHANGED rank
      BY <2>1 DEF Begin, Collect, Count, Settle, registryVars
    <3>2. Registered' = Registered
      <4>1. CASE Begin(t) \/ Collect(t) \/ Count(t)
        BY <4>1 DEF Begin, Collect, Count, registryVars, Registered
      <4>2. CASE Settle(t)
        BY <1>1, <4>2, SettleTask DEF Registered
      <4>3. QED
        BY <2>1, <4>1, <4>2
    <3>3. QED
      BY <3>1, <3>2
  <2>2. ASSUME NEW n \in Node, Promote(t, n)
        PROVE  Registered \subseteq Registered'
               /\ \A m \in Registered : rank'[m] = rank[m] \/ rank'[m] \in Nat
    <3>1. task[t].roster \in SUBSET Node /\ task[t].done \in Nat
      BY <1>1 DEF TypeOK, TaskType
    <3>2. PromotionRank(t) \in Nat
      BY <3>1, NodeSetFinite DEF PromotionRank
    <3>3. \/ UNCHANGED <<status, rank>>
          \/ /\ status' = [status EXCEPT ![n] = "active"]
             /\ rank' = [rank EXCEPT ![n] = PromotionRank(t)]
      BY <2>2 DEF Promote
    <3>4. QED
      BY <1>1, <3>2, <3>3 DEF Registered, TypeOK
  <2>3. QED
    BY <2>1, <2>2
<1>4. CASE task'[u] = task[u]
  BY <1>1, <1>2, <1>3, <1>4, OtherTask
<1>5. CASE u = t
  <2>1. CASE Begin(t) \/ Count(t) \/ Settle(t)
    <3>1. CASE UNCHANGED task
      BY <1>4, <1>5, <3>1
    <3>2. CASE task'[t].pc \notin {"assign", "notify", "settle"} /\ (SameNodes(t) \/ BlankPlan(t))
      <4>1. PointersOK(t)'
        BY <1>1, <1>3, <3>2 DEF TaskOK, PointersOK, SameNodes, BlankPlan
      <4>2. QED
        BY <1>5, <3>2, <4>1, EarlyTask
    <3>3. QED
      BY <1>1, <2>1, <3>1, <3>2, BeginTask, CountTask, SettleTask
  <2>2. CASE Collect(t)
    <3>1. /\ task'[t].pc \in {"promote", "sort"}
          /\ task'[t].roster = WithStatus("active")
          /\ task'[t].promo \in SUBSET WithStatus("standby")
      BY <1>1, <2>2, CollectTask
    <3>2. UNCHANGED status
      BY <2>2 DEF Collect, registryVars
    <3>3. PointersOK(t)'
      BY <3>1, <3>2 DEF PointersOK, WithStatus, Registered
    <3>4. QED
      BY <1>5, <3>1, <3>3, EarlyTask
  <2>3. ASSUME NEW n \in Node, Promote(t, n)
        PROVE  TaskOK(u)'
    <3>1. /\ n \in task[t].promo
          /\ task'[t].pc \in {"promote", "count"}
          /\ task'[t].roster = task[t].roster \cup {n}
          /\ task'[t].promo = task[t].promo \ {n}
          /\ task'[t].lost = task[t].lost
      BY <1>1, <2>3, PromoteTask
    <3>2. PointersOK(t)'
      BY <1>1, <1>3, <3>1 DEF TaskOK, PointersOK
    <3>3. QED
      BY <1>5, <3>1, <3>2, EarlyTask
  <2>4. QED
    BY <2>1, <2>2, <2>3
<1>6. QED
  <2>1. OnlyTask(t)
    BY <1>1, BeginTask, CollectTask, CountTask, SettleTask, PromoteTask
  <2>2. QED
    BY <1>4, <1>5, <2>1 DEF OnlyTask

\* A roster that fills the world is sorted.
LEMMA SortingTasks ==
    ASSUME LifecycleInv, NEW t \in Task, NEW u \in Task, Sort(t)
    PROVE  TaskOK(u)'
<1>1. TypeOK /\ RostersEnumerated /\ TaskOK(u) /\ TaskOK(t)
  BY LifecycleInvTypes
<1>2. UNCHANGED <<told, status, rank>>
  BY DEF Sort, registryVars
<1>3. CASE task'[u] = task[u]
  BY <1>1, <1>2, <1>3, OtherTask DEF Registered
<1>4. CASE u = t /\ Enough(t) /\ task'[t] # task[t]
  <2>1. /\ task'[t].pc = "assign" /\ SameNodes(t)
        /\ task'[t].order \in Bijection(1 .. Cardinality(task[t].roster), task[t].roster)
        /\ task'[t].idx = 1
    BY <1>1, <1>4, SortTask
  <2>2. Cardinality(task[t].roster) \in Nat /\ Cardinality(task[t].roster) >= 1
    <3>1. task[t].roster \in SUBSET Node
      BY <1>1 DEF TypeOK, TaskType
    <3>2. QED
      BY <1>4, <3>1, NodeSetFinite, SizeAssumption DEF Enough
  <2>3. PointersOK(t)'
    BY <1>1, <1>2, <2>1 DEF TaskOK, PointersOK, SameNodes, Registered
  <2>4. PlanOK(t)'
    BY <1>4, <2>1, <2>2 DEF PlanOK, Enough, SameNodes
  <2>5. RanksOK(t)'
    <3>1. DOMAIN task'[t].order = 1 .. Cardinality(task[t].roster)
      BY <2>1 DEF Bijection, Injection
    <3>2. \A i \in Nat : ~Ranked(t, i)'
      BY <2>1, <2>2, <3>1 DEF Ranked
    <3>3. QED
      BY <3>2 DEF RanksOK
  <2>6. AnswersOK(t)'
    BY <2>1 DEF AnswersOK
  <2>7. QED
    BY <1>4, <2>3, <2>4, <2>5, <2>6 DEF TaskOK
<1>5. QED
  <2>1. OnlyTask(t) /\ (Enough(t) \/ UNCHANGED task)
    BY <1>1, SortTask
  <2>2. QED
    BY <1>3, <1>4, <2>1 DEF OnlyTask

\* One more rank is assigned.
LEMMA AssigningTasks ==
    ASSUME LifecycleInv, NEW t \in Task, NEW u \in Task, AssignRank(t)
    PROVE  TaskOK(u)'
<1>1. TypeOK /\ RostersEnumerated /\ TaskOK(u) /\ TaskOK(t)
  BY LifecycleInvTypes
<1> DEFINE k == task[t].idx
           n == task[t].order[k]
           size == Cardinality(task[t].roster)
<1>2. /\ OnlyTask(t) /\ task[t].pc = "assign" /\ SameNodes(t)
      /\ task'[t].order = task[t].order /\ task'[t].bad = task[t].bad
      /\ \/ /\ k = size /\ task'[t].pc = "notify" /\ task'[t].pending = task[t].roster
            /\ task'[t].idx = 0
         \/ /\ k # size /\ task'[t].pc = "assign" /\ task'[t].pending = task[t].pending
            /\ task'[t].idx = k + 1
  BY <1>1, AssignTask
<1>3. /\ rank' = IF n \in task[t].lost THEN rank ELSE [rank EXCEPT ![n] = k - 1]
      /\ UNCHANGED <<told, status>>
  BY DEF AssignRank, AssignedRank
<1>4. /\ k \in 1 .. size /\ size \in Nat /\ DOMAIN task[t].order = 1 .. size
      /\ \A i \in DOMAIN task[t].order : task[t].order[i] \in task[t].roster
  BY <1>1, <1>2, ListEnumeratesRoster DEF TaskOK, PlanOK
<1>5. k - 1 \in Nat /\ rank \in [Node -> Int] /\ n \in Node
  <2>1. task[t].roster \subseteq Node
    BY <1>1 DEF TypeOK, TaskType
  <2>2. QED
    BY <1>1, <1>4, <2>1 DEF TypeOK
<1> HIDE DEF k, n, size
<1>6. \A m \in Node : rank'[m] = rank[m] \/ rank'[m] \in Nat
  BY <1>3, <1>5
<1>7. CASE task'[u] = task[u]
  BY <1>1, <1>3, <1>6, <1>7, OtherTask DEF Registered
<1>8. CASE u = t
  <2>1. PointersOK(t)'
    BY <1>1, <1>2, <1>3 DEF TaskOK, PointersOK, SameNodes, Registered
  <2>2. PlanOK(t)'
    <3>1. Enough(t)'
      BY <1>1, <1>2 DEF TaskOK, PlanOK, SameNodes, Enough
    <3>2. task'[t].pc = "assign" => task'[t].idx \in 1 .. Cardinality(task'[t].roster)
      BY <1>2, <1>4 DEF SameNodes, size
    <3>3. task'[t].pc # "settle"
      BY <1>2
    <3>4. QED
      BY <3>1, <3>2, <3>3 DEF PlanOK
  <2>3. RanksOK(t)'
    <3>1. SUFFICES ASSUME NEW i \in Nat, Ranked(t, i)'
                   PROVE  rank'[task[t].order[i]] \in Nat
      BY <1>2 DEF RanksOK
    <3>2. /\ i \in 1 .. size /\ i <= k
          /\ task[t].order[i] \notin task[t].lost
      BY <1>2, <1>4, <3>1 DEF Ranked, SameNodes
    <3>3. task[t].order[i] \in Node
      BY <1>1, <1>4, <3>2 DEF TypeOK, TaskType
    <3>4. CASE i = k
      BY <1>3, <1>5, <3>2, <3>4 DEF n
    <3>5. CASE i < k
      <4>1. Ranked(t, i)
        BY <1>2, <1>4, <3>2, <3>5 DEF Ranked, k
      <4>2. rank[task[t].order[i]] \in Nat
        BY <1>1, <4>1 DEF TaskOK, RanksOK
      <4>3. QED
        BY <1>6, <3>3, <4>2
    <3>6. QED
      BY <1>4, <3>2, <3>4, <3>5
  <2>4. AnswersOK(t)'
    BY <1>2 DEF AnswersOK, SameNodes
  <2>5. QED
    BY <1>8, <2>1, <2>2, <2>3, <2>4 DEF TaskOK
<1>9. QED
  BY <1>2, <1>7, <1>8 DEF OnlyTask

\* One more node is notified.
LEMMA NotifyingTasks ==
    ASSUME LifecycleInv, NEW t \in Task, NEW u \in Task, NEW n \in Node, NotifyNode(t, n)
    PROVE  TaskOK(u)'
<1>1. TypeOK /\ RostersEnumerated /\ TaskOK(u) /\ TaskOK(t)
  BY LifecycleInvTypes
<1>2. /\ OnlyTask(t) /\ task[t].pc = "notify" /\ n \in task[t].pending /\ SameNodes(t)
      /\ task'[t].order = task[t].order /\ task'[t].idx = task[t].idx
      /\ task'[t].pending = task[t].pending \ {n}
      /\ task'[t].pc = IF task[t].pending = {n} THEN "settle" ELSE "notify"
      /\ \/ /\ told' = [told EXCEPT ![n] = SentRank(t, n)]
            /\ task'[t].bad \in {task[t].bad, task[t].bad \cup {n}}
         \/ /\ told' = told
            /\ task'[t].bad = task[t].bad \cup {n}
  BY <1>1, NotifyTask
<1>3. SentRank(t, n) \in Nat
  BY <1>1, <1>2, SentRankNat
<1>4. \A m \in Node : told'[m] = told[m] \/ told'[m] \in Nat
  BY <1>1, <1>2, <1>3 DEF TypeOK
<1>5. n \in task'[t].bad \/ told'[n] \in Nat
  BY <1>1, <1>2, <1>3 DEF TypeOK
<1>6. UNCHANGED <<status, rank>>
  BY DEF NotifyNode, registryVars
<1>7. CASE task'[u] = task[u]
  BY <1>1, <1>4, <1>6, <1>7, OtherTask DEF Registered
<1>8. CASE u = t
  <2>1. PointersOK(t)'
    BY <1>1, <1>2, <1>6 DEF TaskOK, PointersOK, SameNodes, Registered
  <2>2. PlanOK(t)'
    BY <1>1, <1>2 DEF TaskOK, PlanOK, SameNodes, Enough
  <2>3. RanksOK(t)'
    BY <1>1, <1>2, <1>6 DEF TaskOK, RanksOK, Ranked, SameNodes
  <2>4. AnswersOK(t)'
    <3>1. SUFFICES ASSUME NEW m \in task[t].roster
                   PROVE  m \in task'[t].pending \/ m \in task'[t].bad \/ told'[m] \in Nat
      BY <1>2 DEF AnswersOK, SameNodes
    <3>2. m \in Node
      BY <1>1 DEF TypeOK, TaskType
    <3>3. m \in task[t].pending \/ m \in task[t].bad \/ told[m] \in Nat
      BY <1>1, <1>2 DEF TaskOK, AnswersOK
    <3>4. QED
      BY <1>2, <1>4, <1>5, <3>2, <3>3
  <2>5. QED
    BY <1>8, <2>1, <2>2, <2>3, <2>4 DEF TaskOK
<1>9. QED
  BY <1>2, <1>7, <1>8 DEF OnlyTask

LEMMA ReconfigurationTasks ==
    ASSUME LifecycleInv, ReconfigurationStep, NEW u \in Task
    PROVE  TaskOK(u)'
<1>1. ASSUME NEW t \in ApiCall, NEW n \in Node, RemoveNode(t, n)
      PROVE  TaskOK(u)'
  <2>1. TypeOK
    BY LifecycleInvTypes
  <2>2. /\ DeleteNodes({n}) /\ {n} \in SUBSET Node /\ UNCHANGED told
        /\ task'[u].pc = task[u].pc \/ task'[u].pc = "begin"
        /\ task'[u].roster = task[u].roster /\ task'[u].promo = task[u].promo
        /\ task'[u].lost = task[u].lost \cup ({n} \cap (task[u].roster \cup task[u].promo))
        /\ SamePlan(u)
    <3>1. DeleteNodes({n}) /\ UNCHANGED told /\ Removal(t, n, u)
      BY <1>1, <2>1, RemoveTask
    <3>2. QED
      BY <3>1 DEF Removal
  <2>3. QED
    BY <2>2, DeletedTask
<1>2. QED
  BY <1>1, PreparingTasks, SortingTasks, AssigningTasks, NotifyingTasks DEF ReconfigurationStep

\* A handler sends each node of its list the place it has there.
LEMMA StartRankIsPlace ==
    ASSUME StartersListOnce, NEW n \in Node, starter[n].pc = "starting",
           NEW i \in DOMAIN starter[n].order
    PROVE  StartRank(n, starter[n].order[i]) = i - 1
<1> DEFINE m == starter[n].order[i]
           j == CHOOSE j \in DOMAIN starter[n].order : starter[n].order[j] = m
<1>1. j \in DOMAIN starter[n].order /\ starter[n].order[j] = m
  OBVIOUS
<1> HIDE DEF j
<1>2. j = i
  BY <1>1 DEF StartersListOnce
<1>3. QED
  BY <1>2 DEF StartRank, j

\* Whoever starts the program does so alone: the others keep their records.
LEMMA StartedToldUndisturbed ==
    ASSUME StartedTold, UNCHANGED told,
           \A n \in Node : starter'[n].pc = "starting" => starter'[n] = starter[n]
    PROVE  StartedTold'
BY DEF StartedTold

LEMMA NextStartedTold ==
    ASSUME LifecycleInv, [Next]_vars
    PROVE  StartedTold'
<1>1. /\ TypeOK /\ RostersEnumerated /\ NoReconfigurationBeforeStart
      /\ StartBarrier /\ StartersListOnce /\ StartedTold
  BY LifecycleInvTypes
<1>2. ASSUME NEW n \in Node, NEW m \in Node, StartSend(n, m)
      PROVE  StartedTold'
  <2>1. starter[n] \in StarterType /\ starter[n].pc = "starting" /\ m \in starter[n].pending
    BY <1>1, <1>2 DEF TypeOK, StartSend
  <2>2. PICK delivered \in BOOLEAN, error \in BOOLEAN :
          /\ delivered \/ error
          /\ told' = IF delivered THEN [told EXCEPT ![m] = StartRank(n, m)] ELSE told
          /\ starter' = [starter EXCEPT ![n].pending = @ \ {m},
                                        ![n].bad = IF error THEN @ \cup {m} ELSE @]
    BY <1>2 DEF StartSend
  <2>3. /\ starter'[n].order = starter[n].order
        /\ starter'[n].pending = starter[n].pending \ {m}
        /\ starter'[n].bad = (IF error THEN starter[n].bad \cup {m} ELSE starter[n].bad)
        /\ \A k \in Node : k # n => starter'[k] = starter[k]
    BY <1>1, <2>1, <2>2 DEF TypeOK, StarterType
  <2>4. \A k \in Node : k # n => starter[k].pc # "starting"
    BY <1>1, <2>1 DEF StartBarrier
  <2>5. SUFFICES ASSUME NEW i \in DOMAIN starter[n].order
                 PROVE  \/ starter[n].order[i] \in starter'[n].pending
                        \/ starter[n].order[i] \in starter'[n].bad
                        \/ told'[starter[n].order[i]] = i - 1
    BY <2>3, <2>4 DEF StartedTold
  <2>6. CASE starter[n].order[i] # m
    <3>1. told'[starter[n].order[i]] = told[starter[n].order[i]]
      BY <1>1, <2>2, <2>6 DEF TypeOK
    <3>2. \/ starter[n].order[i] \in starter[n].pending
          \/ starter[n].order[i] \in starter[n].bad
          \/ told[starter[n].order[i]] = i - 1
      BY <1>1, <2>1 DEF StartedTold
    <3>3. QED
      BY <2>3, <2>6, <3>1, <3>2
  <2>7. CASE starter[n].order[i] = m
    <3>1. StartRank(n, m) = i - 1
      BY <1>1, <2>1, <2>7, StartRankIsPlace
    <3>2. QED
      BY <1>1, <2>2, <2>3, <2>7, <3>1 DEF TypeOK
  <2>8. QED
    BY <2>6, <2>7
<1>3. ASSUME NEW n \in Node, StartAcquire(n)
      PROVE  StartedTold'
  <2>1. UNCHANGED told
    BY <1>3 DEF StartAcquire
  <2>2. CASE starter' = [starter EXCEPT ![n] = IdleStarter]
    BY <1>1, <2>1, <2>2, StartedToldUndisturbed DEF TypeOK, IdleStarter
  <2>3. CASE \E order \in StartOrders :
               starter' = [starter EXCEPT ![n] =
                             [pc |-> "starting", order |-> order,
                              pending |-> WithStatus("active"), bad |-> {}]]
    <3>1. PICK order \in StartOrders :
               starter' = [starter EXCEPT ![n] =
                             [pc |-> "starting", order |-> order,
                              pending |-> WithStatus("active"), bad |-> {}]]
      BY <2>3
    <3>2. \A i \in DOMAIN order : order[i] \in WithStatus("active")
      BY DEF StartOrders, Bijection, Injection
    <3>3. /\ starter'[n].order = order /\ starter'[n].pending = WithStatus("active")
          /\ \A m \in Node : m # n => starter'[m] = starter[m]
      BY <1>1, <3>1 DEF TypeOK
    <3>4. QED
      BY <1>1, <2>1, <3>2, <3>3 DEF StartedTold
  <2>4. QED
    BY <1>3, <2>2, <2>3 DEF StartAcquire
<1>4. ASSUME NEW n \in Node, RegisterCount(n)
      PROVE  StartedTold'
  <2>1. UNCHANGED told
    BY <1>4 DEF RegisterCount
  <2>2. starter[n] \in StarterType
    BY <1>1 DEF TypeOK
  <2>3. \A m \in Node : starter'[m].pc = "starting" => starter'[m] = starter[m]
    BY <1>1, <1>4, <2>2 DEF RegisterCount, TypeOK, StarterType
  <2>4. QED
    BY <1>1, <2>1, <2>3, StartedToldUndisturbed
<1>5. ASSUME NEW n \in Node, StartFinish(n)
      PROVE  StartedTold'
  <2>1. UNCHANGED told /\ starter' = [starter EXCEPT ![n] = IdleStarter]
    BY <1>5 DEF StartFinish
  <2>2. \A m \in Node : starter'[m].pc = "starting" => starter'[m] = starter[m]
    BY <1>1, <2>1 DEF TypeOK, IdleStarter
  <2>3. QED
    BY <1>1, <2>1, <2>2, StartedToldUndisturbed
<1>6. ASSUME NEW t \in Task, NEW n \in Node, NotifyNode(t, n)
      PROVE  StartedTold'
  <2>1. state # "Initializing"
    BY <1>1, <1>6 DEF NotifyNode, InTask, NoReconfigurationBeforeStart
  <2>2. UNCHANGED starter
    BY <1>6 DEF NotifyNode, handlerVars
  <2>3. QED
    BY <1>1, <2>1, <2>2 DEF StartBarrier, StartedTold
<1>7. ASSUME UNCHANGED <<starter, told>>
      PROVE  StartedTold'
  BY <1>1, <1>7, StartedToldUndisturbed
<1>8. CASE RegistrationStep
  BY <1>2, <1>3, <1>4, <1>5, <1>7, <1>8
  DEF RegistrationStep, RegisterAdmit, RegisterLookup, RegisterReserve, RegisterSession,
      RegisterNode, SendHeartbeat, handlerVars
<1>9. CASE FailureStep
  BY <1>7, <1>9, FailureKeepsHandlers
<1>10. CASE ReconfigurationStep
  <2>1. ASSUME NEW t, \/ Begin(t) \/ Collect(t) \/ Count(t) \/ Sort(t) \/ AssignRank(t)
                      \/ Settle(t) \/ \E n \in Node : Promote(t, n) \/ RemoveNode(t, n)
        PROVE  UNCHANGED told
    BY <2>1 DEF Begin, Collect, Count, Sort, AssignRank, Settle, Promote, RemoveNode
  <2>2. QED
    BY <1>6, <1>7, <1>10, <2>1, ReconfigurationKeepsHandlers DEF ReconfigurationStep
<1>11. CASE UNCHANGED vars
  BY <1>7, <1>11 DEF vars, handlerVars
<1>12. QED
  BY <1>8, <1>9, <1>10, <1>11 DEF Next

LEMMA LifecycleInvInductive == Spec => []LifecycleInv
<1>1. Init => RankInv
  BY DEF Init, RankInv, StartedTold, IdleStarter, TaskOK, PointersOK, PlanOK, RanksOK,
         Ranked, AnswersOK, IdleTask
<1>2. ASSUME LifecycleInv, [Next]_vars
      PROVE  RankInv'
  <2>1. CASE UNCHANGED vars
    <3>1. UNCHANGED <<task, status, rank, told, starter>>
      BY <2>1 DEF vars, registryVars, handlerVars
    <3>2. \A t \in Task : TaskOK(t)
      BY <1>2, LifecycleInvTypes
    <3>3. \A t \in Task : TaskOK(t)'
      BY <3>1, <3>2 DEF TaskOK, PointersOK, PlanOK, RanksOK, Ranked, AnswersOK, Enough, Registered
    <3>4. QED
      BY <1>2, <3>3, NextStartedTold DEF RankInv
  <2>2. QED
    BY <1>2, <2>1, NextStartedTold, RegistrationTasks, FailureTasks, ReconfigurationTasks
    DEF Next, RankInv
<1>3. SlotInv /\ StartInv /\ RankInv => LifecycleInv
  BY DEF LifecycleInv
<1>4. QED
  BY <1>1, <1>2, <1>3, SlotInvInductive, StartInvInductive, PTL DEF Spec

-----------------------------------------------------------------------------
(* The refinement: each step of the server is a step of ServerLifecycle, or  *)
(* changes neither the phase nor a rank that was told.                       *)

\* The cardinality that the instance names is that of FiniteSets.
LEMMA SameCardinality == \A S : Lifecycle!Cardinality(S) = Cardinality(S)
BY DEF Lifecycle!Cardinality, Cardinality

\* A command that takes a rank to a node.
LEMMA DeliverStep ==
    ASSUME TypeOK, Alive, NEW n \in Node, NEW r \in Nat, told' = [told EXCEPT ![n] = r],
           UNCHANGED state
    PROVE  Lifecycle!Deliver
<1>1. told'[n] = r
  BY DEF TypeOK
<1>2. told' = [told EXCEPT ![n] = told'[n]] /\ told'[n] \in Nat
  BY <1>1
<1>3. QED
  BY <1>2 DEF Lifecycle!Deliver, TypeOK, States, Alive

\* A failure or a removal that takes the server out of service.
LEMMA DisruptStep ==
    ASSUME state \in {"Running", "Reconfiguring"}, state' = "Reconfiguring", UNCHANGED told
    PROVE  Lifecycle!Disrupt
BY DEF Lifecycle!Disrupt

\* A reconfiguration that gives up.
LEMMA StopStep ==
    ASSUME state \in {"Running", "Reconfiguring"}, state' = "Failed", UNCHANGED told
    PROVE  Lifecycle!Stop
BY DEF Lifecycle!Stop

\* When all start commands have been answered, the nodes of the list hold the
\* ranks of the world.
LEMMA StartStep ==
    ASSUME LifecycleInv, NEW n \in Node, StartFinish(n), state' = "Running"
    PROVE  Lifecycle!Start \/ UNCHANGED <<state, told>>
<1>1. /\ TypeOK /\ StartBarrier /\ StartersListOnce /\ StartedTold
  BY LifecycleInvTypes
<1>2. starter[n].pc = "starting" /\ starter[n].pending = {} /\ UNCHANGED told
  BY DEF StartFinish
<1>3. state = "Initializing" /\ Len(starter[n].order) = ActiveNodes
  BY <1>1, <1>2 DEF StartBarrier
<1>4. starter[n].bad = {}
  BY <1>3 DEF StartFinish, StartSucceeded
<1> DEFINE order == starter[n].order
           team  == {order[i] : i \in 1 .. ActiveNodes}
<1>5. order \in Seq(Node) /\ DOMAIN order = 1 .. ActiveNodes /\ ActiveNodes \in Nat
  BY <1>1, <1>3, SizeAssumption DEF TypeOK, StarterType
<1>6. \A i \in 1 .. ActiveNodes : told[order[i]] = i - 1
  BY <1>1, <1>2, <1>4, <1>5 DEF StartedTold
<1>7. \A i, j \in 1 .. ActiveNodes : order[i] = order[j] => i = j
  BY <1>1, <1>2, <1>5 DEF StartersListOnce
<1> HIDE DEF order
<1>8. team \in SUBSET Node
  BY <1>5
<1>9. Cardinality(team) = ActiveNodes
  <2>1. order \in Bijection(1 .. ActiveNodes, team)
    <3>1. order \in [1 .. ActiveNodes -> team]
      BY <1>5
    <3>2. QED
      BY <1>7, <3>1 DEF Bijection, Injection, Surjection, IsInjective
  <2>2. ExistsBijection(1 .. ActiveNodes, team)
    BY <2>1 DEF ExistsBijection
  <2>3. QED
    BY <1>5, <2>2, FS_CountingElements
<1>10. {told[m] : m \in team} = 0 .. ActiveNodes - 1
  <2>1. ASSUME NEW m \in team
        PROVE  told[m] \in 0 .. ActiveNodes - 1
    BY <1>5, <1>6
  <2>2. ASSUME NEW k \in 0 .. ActiveNodes - 1
        PROVE  \E m \in team : told[m] = k
    <3>1. k + 1 \in 1 .. ActiveNodes
      BY <1>5
    <3>2. order[k + 1] \in team /\ told[order[k + 1]] = k
      BY <1>6, <3>1
    <3>3. QED
      BY <3>2
  <2>3. QED
    BY <2>1, <2>2
<1>11. Lifecycle!WorldComplete
  BY <1>8, <1>9, <1>10, SameCardinality DEF Lifecycle!WorldComplete
<1>12. QED
  BY <1>2, <1>3, <1>11 DEF Lifecycle!Start

\* A reconfiguration that succeeds has told enough nodes a rank.
LEMMA ResumeStep ==
    ASSUME LifecycleInv, NEW t \in Task, task[t].pc = "settle", task[t].bad = {},
           state = "Reconfiguring", state' = "Running", UNCHANGED told
    PROVE  Lifecycle!Resume
<1>1. TypeOK /\ TaskOK(t)
  BY LifecycleInvTypes
<1>2. \A n \in task[t].roster : told[n] \in Nat
  BY <1>1 DEF TaskOK, AnswersOK, PlanOK
<1>3. task[t].roster \in SUBSET {n \in Node : told[n] >= 0}
  BY <1>1, <1>2 DEF TypeOK, TaskType
<1>4. Cardinality(task[t].roster) >= ActiveNodes
  BY <1>1 DEF TaskOK, PlanOK, Enough
<1>5. /\ IsFiniteSet({n \in Node : told[n] >= 0})
      /\ Cardinality({n \in Node : told[n] >= 0}) \in Nat
  BY NodeSetFinite
<1>6. Cardinality(task[t].roster) <= Cardinality({n \in Node : told[n] >= 0})
  BY <1>3, <1>5, FS_Subset
<1>7. Cardinality(task[t].roster) \in Nat
  BY <1>3, NodeSetFinite
<1>8. Cardinality({n \in Node : told[n] >= 0}) >= ActiveNodes
  BY <1>4, <1>5, <1>6, <1>7, SizeAssumption
<1>9. QED
  BY <1>8, SameCardinality DEF Lifecycle!Resume

LEMMA RegistrationRefines ==
    ASSUME LifecycleInv, RegistrationStep
    PROVE  Lifecycle!Next \/ UNCHANGED <<state, told>>
<1>1. /\ TypeOK /\ StartersListOnce
      /\ \A n \in Node : StarterEnumerated(starter[n])
  BY LifecycleInvTypes DEF RostersEnumerated
<1>2. ASSUME NEW n \in Node, NEW m \in Node, StartSend(n, m)
      PROVE  Lifecycle!Next \/ UNCHANGED <<state, told>>
  <2>1. /\ Alive /\ starter[n].pc = "starting" /\ m \in starter[n].pending /\ UNCHANGED state
        /\ told' = [told EXCEPT ![m] = StartRank(n, m)] \/ UNCHANGED told
    BY <1>2 DEF StartSend
  <2>2. PICK i \in DOMAIN starter[n].order : starter[n].order[i] = m
    BY <1>1, <2>1 DEF StarterEnumerated
  <2>3. i \in Nat \ {0}
    <3>1. starter[n].order \in Seq(Node)
      BY <1>1 DEF TypeOK, StarterType
    <3>2. QED
      BY <2>2, <3>1
  <2>4. StartRank(n, m) \in Nat
    BY <1>1, <2>1, <2>2, <2>3, StartRankIsPlace
  <2>5. QED
    BY <1>1, <2>1, <2>4, DeliverStep DEF Lifecycle!Next
<1>3. ASSUME NEW n \in Node, StartFinish(n)
      PROVE  Lifecycle!Next \/ UNCHANGED <<state, told>>
  <2>1. state' = "Running" \/ UNCHANGED state
    BY <1>3 DEF StartFinish
  <2>2. UNCHANGED told
    BY <1>3 DEF StartFinish
  <2>3. QED
    BY <1>3, <2>1, <2>2, StartStep DEF Lifecycle!Next
<1>4. QED
  BY <1>2, <1>3
  DEF RegistrationStep, RegisterAdmit, RegisterLookup, RegisterReserve, RegisterSession,
      RegisterNode, RegisterCount, SendHeartbeat, StartAcquire

LEMMA FailureRefines ==
    ASSUME LifecycleInv, FailureStep
    PROVE  Lifecycle!Next \/ UNCHANGED <<state, told>>
<1>1. TypeOK
  BY LifecycleInvTypes
<1>2. ASSUME NEW c \in Notifier, HandleNodeFailure(c)
      PROVE  Lifecycle!Next \/ UNCHANGED <<state, told>>
  <2>1. UNCHANGED told
    BY <1>2 DEF HandleNodeFailure
  <2>2. \/ UNCHANGED state
        \/ state \in {"Running", "Reconfiguring"} /\ state' = "Reconfiguring"
    BY <1>1, <1>2, FailureTask
  <2>3. QED
    BY <2>1, <2>2, DisruptStep DEF Lifecycle!Next
<1>3. QED
  BY <1>2
  DEF FailureStep, Age, HealthScan, CleanupSessions, NotifySeen, NotifyMark, HealthTimeout,
      CleanupDeadConnections

LEMMA ReconfigurationRefines ==
    ASSUME LifecycleInv, ReconfigurationStep
    PROVE  Lifecycle!Next \/ UNCHANGED <<state, told>>
<1>1. /\ TypeOK /\ RostersEnumerated /\ NoReconfigurationBeforeStart
      /\ \A t \in Task : TaskOK(t)
  BY LifecycleInvTypes
<1>2. ASSUME NEW t \in Task, Alive, task[t].pc # "idle"
      PROVE  state \in {"Running", "Reconfiguring"}
  BY <1>1, <1>2 DEF NoReconfigurationBeforeStart, TypeOK, States, Alive
<1>3. ASSUME NEW t \in Task, Begin(t)
      PROVE  Lifecycle!Next \/ UNCHANGED <<state, told>>
  <2>1. state \in {"Running", "Reconfiguring"} /\ state' = "Reconfiguring"
    BY <1>1, <1>2, <1>3, BeginTask
  <2>2. QED
    BY <1>3, <2>1, DisruptStep DEF Begin, Lifecycle!Next
<1>4. ASSUME NEW t \in Task, Sort(t)
      PROVE  Lifecycle!Next \/ UNCHANGED <<state, told>>
  <2>1. state \in {"Running", "Reconfiguring"} /\ (state' = "Failed" \/ UNCHANGED state)
    BY <1>1, <1>2, <1>4, SortTask
  <2>2. QED
    BY <1>4, <2>1, StopStep DEF Sort, Lifecycle!Next
<1>5. ASSUME NEW t \in Task, Settle(t)
      PROVE  Lifecycle!Next \/ UNCHANGED <<state, told>>
  <2>1. /\ state \in {"Running", "Reconfiguring"} /\ task[t].pc = "settle"
        /\ \/ task[t].bad = {} /\ state' = Resumed
           \/ UNCHANGED state
           \/ state' = "Failed"
    BY <1>1, <1>2, <1>5, SettleTask
  <2>2. UNCHANGED told
    BY <1>5 DEF Settle
  <2>3. QED
    BY <2>1, <2>2, StopStep, ResumeStep DEF Resumed, Lifecycle!Next
<1>6. ASSUME NEW t \in Task, NEW n \in Node, NotifyNode(t, n)
      PROVE  Lifecycle!Next \/ UNCHANGED <<state, told>>
  <2>1. /\ Alive /\ task[t].pc = "notify" /\ n \in task[t].pending
        /\ told' = [told EXCEPT ![n] = SentRank(t, n)] \/ UNCHANGED told
    BY <1>1, <1>6, NotifyTask
  <2>2. SentRank(t, n) \in Nat
    BY <1>1, <2>1, SentRankNat
  <2>3. UNCHANGED state
    BY <1>6 DEF NotifyNode
  <2>4. QED
    BY <1>1, <2>1, <2>2, <2>3, DeliverStep DEF Lifecycle!Next
<1>7. ASSUME NEW t \in ApiCall, NEW n \in Node, RemoveNode(t, n)
      PROVE  Lifecycle!Next \/ UNCHANGED <<state, told>>
  <2>1. state \in {"Running", "Reconfiguring"} /\ state' = "Reconfiguring" /\ UNCHANGED told
    BY <1>1, <1>7, RemoveTask
  <2>2. QED
    BY <2>1, DisruptStep DEF Lifecycle!Next
<1>8. QED
  BY <1>3, <1>4, <1>5, <1>6, <1>7
  DEF ReconfigurationStep, Collect, Count, AssignRank, Promote

\* The server implements the lifecycle it promises: ranks are whole numbers
\* when they are told; the program starts on a complete world, once; the server
\* is back in service only after enough nodes were told a rank; and it gives up
\* only once it has been disrupted.
THEOREM ImplementsLifecycle == Spec => LifecycleRefinement
<1>1. Init => Lifecycle!Init
  BY DEF Init, Lifecycle!Init
<1>2. LifecycleInv /\ [Next]_vars
        => [Lifecycle!Next]_<<CASE state = "Initializing"  -> "waiting"
                               [] state = "Running"       -> "serving"
                               [] state = "Reconfiguring" -> "recovering"
                               [] state = "Failed"        -> "stopped", told>>
  <2>1. SUFFICES ASSUME LifecycleInv, [Next]_vars
                 PROVE  Lifecycle!Next \/ UNCHANGED <<state, told>>
    OBVIOUS
  <2>2. CASE UNCHANGED vars
    BY <2>2 DEF vars
  <2>3. QED
    BY <2>1, <2>2, RegistrationRefines, FailureRefines, ReconfigurationRefines DEF Next
<1>3. QED
  BY <1>1, <1>2, LifecycleInvInductive, PTL DEF Spec, LifecycleRefinement, Lifecycle!Spec

-----------------------------------------------------------------------------
(* The ranks of a reconfiguration that runs alone.  Two at once may tell a   *)
(* node two places, so this is not a property of the specification alone.    *)

\* No two reconfigurations at once.
OneAtATime ==
    \A t, u \in Task : (task[t].pc # "idle" /\ task[u].pc # "idle") => t = u

\* The ranks that t has assigned are the places in its list, and so are the
\* ranks it has told.
RanksInOrder(t) == \A i \in Nat : Ranked(t, i) => rank[task[t].order[i]] = i - 1

ToldInOrder(t) ==
    task[t].pc \in {"notify", "settle"} =>
        \A i \in DOMAIN task[t].order :
            \/ task[t].order[i] \in task[t].pending
            \/ task[t].order[i] \in task[t].bad
            \/ told[task[t].order[i]] = i - 1

OrderOK(t) == RanksInOrder(t) /\ ToldInOrder(t)

\* A record that has no plan has nothing in order.
LEMMA EarlyOrder ==
    ASSUME NEW t \in Task, task'[t].pc \notin {"assign", "notify", "settle"}
    PROVE  OrderOK(t)'
BY DEF OrderOK, RanksInOrder, ToldInOrder, Ranked

\* A record that keeps its list, while nobody writes its ranks, stays in order.
LEMMA KeptOrder ==
    ASSUME TypeOK, RostersEnumerated, NEW t \in Task, OrderOK(t),
           task'[t].pc = task[t].pc, task'[t].roster = task[t].roster,
           task[t].lost \subseteq task'[t].lost, SamePlan(t),
           \A n \in task[t].roster \ task'[t].lost : rank'[n] = rank[n],
           UNCHANGED told
    PROVE  OrderOK(t)'
<1>1. ToldInOrder(t)'
  BY DEF OrderOK, ToldInOrder, SamePlan
<1>2. RanksInOrder(t)'
  <2>1. SUFFICES ASSUME NEW i \in Nat, Ranked(t, i)'
                 PROVE  rank'[task[t].order[i]] = i - 1
    BY DEF RanksInOrder, SamePlan
  <2>2. Ranked(t, i) /\ task[t].order[i] \notin task'[t].lost
    BY <2>1 DEF Ranked, SamePlan
  <2>3. task[t].order[i] \in task[t].roster
    BY <2>2, ListEnumeratesRoster DEF Ranked
  <2>4. QED
    BY <2>2, <2>3 DEF OrderOK, RanksInOrder
<1>3. QED
  BY <1>1, <1>2 DEF OrderOK

\* No registration touches the ranks of a list.
LEMMA RegistrationOrder ==
    ASSUME LifecycleInv, NEW t \in Task, OrderOK(t), RegistrationStep
    PROVE  OrderOK(t)'
<1>1. /\ TypeOK /\ RostersEnumerated /\ RegistryCoherent /\ NoReconfigurationBeforeStart
      /\ StartBarrier /\ TaskOK(t)
  BY LifecycleInvTypes
<1>2. UNCHANGED task
  BY DEF RegistrationStep, RegisterAdmit, RegisterLookup, RegisterReserve, RegisterSession,
         RegisterNode, RegisterCount, SendHeartbeat, StartAcquire, StartSend, StartFinish
<1>3. CASE state = "Initializing"
  BY <1>1, <1>2, <1>3, EarlyOrder DEF NoReconfigurationBeforeStart
<1>4. CASE state # "Initializing"
  <2>1. UNCHANGED told
    BY <1>1, <1>4, ZenonT(40)
    DEF RegistrationStep, RegisterAdmit, RegisterLookup, RegisterReserve, RegisterSession,
        RegisterNode, RegisterCount, SendHeartbeat, StartAcquire, StartSend, StartFinish,
        StartBarrier
  <2>2. ASSUME NEW n \in Node, RegisterNode(n)
        PROVE  \A m \in Registered : rank'[m] = rank[m]
    BY <1>1, <2>2 DEF RegisterNode, RegistryCoherent, TypeOK, Registered
  <2>3. UNCHANGED rank \/ \E n \in Node : RegisterNode(n)
    BY <1>1, <1>4
    DEF RegistrationStep, RegisterAdmit, RegisterLookup, RegisterReserve, RegisterSession,
        RegisterCount, SendHeartbeat, StartAcquire, StartSend, StartFinish, registryVars,
        Accepting, NothingToStart
  <2>4. \A n \in task[t].roster \ task[t].lost : rank'[n] = rank[n]
    BY <1>1, <2>2, <2>3 DEF TaskOK, PointersOK
  <2>5. QED
    BY <1>1, <1>2, <2>1, <2>4, KeptOrder DEF SamePlan
<1>5. QED
  BY <1>3, <1>4

\* Nor does a node that is deleted, whose pointer is lost.
LEMMA DeletedOrder ==
    ASSUME LifecycleInv, NEW S \in SUBSET Node, DeleteNodes(S), UNCHANGED told, NEW t \in Task,
           OrderOK(t), task'[t].pc = task[t].pc \/ task'[t].pc = "begin",
           task'[t].roster = task[t].roster,
           task'[t].lost = task[t].lost \cup (S \cap (task[t].roster \cup task[t].promo)),
           SamePlan(t)
    PROVE  OrderOK(t)'
<1>1. TypeOK /\ RostersEnumerated
  BY LifecycleInvTypes
<1>2. task[t].roster \subseteq Node
  BY <1>1 DEF TypeOK, TaskType
<1>3. \A n \in task[t].roster \ task'[t].lost : rank'[n] = rank[n]
  BY <1>2 DEF DeleteNodes
<1>4. QED
  BY <1>1, <1>3, EarlyOrder, KeptOrder

LEMMA FailureOrder ==
    ASSUME LifecycleInv, NEW t \in Task, OrderOK(t), FailureStep
    PROVE  OrderOK(t)'
<1>1. TypeOK /\ RostersEnumerated
  BY LifecycleInvTypes
<1>2. UNCHANGED told
  BY DEF FailureStep, Age, HealthScan, CleanupSessions, NotifySeen, HandleNodeFailure,
         NotifyMark, HealthTimeout, CleanupDeadConnections
<1>3. CASE task'[t] = task[t] /\ UNCHANGED rank
  BY <1>1, <1>2, <1>3, KeptOrder DEF SamePlan
<1>4. ASSUME NEW c \in Notifier, HandleNodeFailure(c)
      PROVE  OrderOK(t)'
  <2>1. UNCHANGED rank
    BY <1>4 DEF HandleNodeFailure
  <2>2. task'[t] = task[t] \/ task'[t].pc = "begin"
    BY <1>1, <1>4, FailureTask DEF OnlyTask
  <2>3. QED
    BY <1>3, <2>1, <2>2, EarlyOrder
<1>5. CASE CleanupDeadConnections
  <2> DEFINE dead == {n \in Node : health[n] = "dead"}
  <2>1. dead \in SUBSET Node /\ DeleteNodes(dead) /\ task' = LoseObjects(dead, task)
    BY <1>5 DEF CleanupDeadConnections
  <2> HIDE DEF dead
  <2>2. /\ task'[t].pc = task[t].pc /\ task'[t].roster = task[t].roster
        /\ task'[t].lost = task[t].lost \cup (dead \cap (task[t].roster \cup task[t].promo))
        /\ SamePlan(t)
    BY <1>1, <2>1, LoseObjectsTask DEF SamePlan
  <2>3. QED
    BY <1>2, <2>1, <2>2, DeletedOrder
<1>6. ASSUME ~CleanupDeadConnections, \A c \in Notifier : ~HandleNodeFailure(c)
      PROVE  OrderOK(t)'
  <2>1. UNCHANGED <<task, rank>>
    BY <1>6 DEF FailureStep, Age, NotifySeen, NotifyMark, HealthScan, HealthTimeout,
                CleanupSessions, registryVars
  <2>2. QED
    BY <1>3, <2>1
<1>7. QED
  BY <1>4, <1>5, <1>6

\* The place of a node is assigned to it, and to no other.
LEMMA AssigningOrder ==
    ASSUME LifecycleInv, NEW t \in Task, OrderOK(t), AssignRank(t)
    PROVE  OrderOK(t)'
<1>1. TypeOK /\ RostersEnumerated /\ TaskOK(t)
  BY LifecycleInvTypes
<1> DEFINE k == task[t].idx
           n == task[t].order[k]
           size == Cardinality(task[t].roster)
<1>2. /\ task[t].pc = "assign" /\ SameNodes(t)
      /\ task'[t].order = task[t].order
      /\ \/ /\ k = size /\ task'[t].pc = "notify" /\ task'[t].pending = task[t].roster
         \/ /\ task'[t].pc = "assign" /\ task'[t].idx = k + 1
  BY <1>1, AssignTask
<1>3. rank' = IF n \in task[t].lost THEN rank ELSE [rank EXCEPT ![n] = k - 1]
  BY DEF AssignRank, AssignedRank
<1>4. /\ k \in 1 .. size /\ size \in Nat /\ DOMAIN task[t].order = 1 .. size
      /\ \A i \in DOMAIN task[t].order : task[t].order[i] \in task[t].roster
      /\ \A i, j \in DOMAIN task[t].order : task[t].order[i] = task[t].order[j] => i = j
  BY <1>1, <1>2, ListEnumeratesRoster DEF TaskOK, PlanOK
<1>5. rank \in [Node -> Int] /\ task[t].roster \subseteq Node
  BY <1>1 DEF TypeOK, TaskType
<1> HIDE DEF k, n, size
<1>6. RanksInOrder(t)'
  <2>1. SUFFICES ASSUME NEW i \in Nat, Ranked(t, i)'
                 PROVE  rank'[task[t].order[i]] = i - 1
    BY <1>2 DEF RanksInOrder
  <2>2. /\ i \in 1 .. size /\ i <= k
        /\ task[t].order[i] \notin task[t].lost
    BY <1>2, <1>4, <2>1 DEF Ranked, SameNodes
  <2>3. CASE i = k
    BY <1>3, <1>4, <1>5, <2>2, <2>3 DEF n
  <2>4. CASE i < k
    <3>1. Ranked(t, i)
      BY <1>2, <1>4, <2>2, <2>4 DEF Ranked, k
    <3>2. rank[task[t].order[i]] = i - 1
      BY <3>1 DEF OrderOK, RanksInOrder
    <3>3. task[t].order[i] # n /\ task[t].order[i] \in Node
      BY <1>4, <1>5, <2>2, <2>4 DEF n
    <3>4. QED
      BY <1>3, <1>5, <3>2, <3>3
  <2>5. QED
    BY <1>4, <2>2, <2>3, <2>4
<1>7. ToldInOrder(t)'
  BY <1>2, <1>4 DEF ToldInOrder, SameNodes
<1>8. QED
  BY <1>6, <1>7 DEF OrderOK

\* What is sent to a node is its place, lost or not.
LEMMA SentRankIsPlace ==
    ASSUME TypeOK, RostersEnumerated, NEW t \in Task, OrderOK(t), task[t].pc = "notify",
           NEW i \in DOMAIN task[t].order
    PROVE  SentRank(t, task[t].order[i]) = i - 1
<1> DEFINE n == task[t].order[i]
           j == CHOOSE j \in DOMAIN task[t].order : task[t].order[j] = n
<1>1. /\ \A p, q \in DOMAIN task[t].order : task[t].order[p] = task[t].order[q] => p = q
      /\ i \in Nat
  <2>1. DOMAIN task[t].order = 1 .. Cardinality(task[t].roster) /\ Cardinality(task[t].roster) \in Nat
    BY ListEnumeratesRoster
  <2>2. QED
    BY <2>1, ListEnumeratesRoster
<1>2. j = i
  BY <1>1
<1>3. n \notin task[t].lost => rank[n] = i - 1
  BY <1>1 DEF OrderOK, RanksInOrder, Ranked
<1> HIDE DEF j
<1>4. QED
  BY <1>2, <1>3 DEF SentRank, j

LEMMA NotifyingOrder ==
    ASSUME LifecycleInv, NEW t \in Task, OrderOK(t), NEW n \in Node, NotifyNode(t, n)
    PROVE  OrderOK(t)'
<1>1. TypeOK /\ RostersEnumerated
  BY LifecycleInvTypes
<1>2. /\ task[t].pc = "notify" /\ SameNodes(t)
      /\ task'[t].order = task[t].order /\ task'[t].idx = task[t].idx
      /\ task'[t].pending = task[t].pending \ {n}
      /\ task'[t].pc = IF task[t].pending = {n} THEN "settle" ELSE "notify"
      /\ \/ /\ told' = [told EXCEPT ![n] = SentRank(t, n)]
            /\ task'[t].bad \in {task[t].bad, task[t].bad \cup {n}}
         \/ /\ told' = told
            /\ task'[t].bad = task[t].bad \cup {n}
  BY <1>1, NotifyTask
<1>3. RanksInOrder(t)'
  <2>1. UNCHANGED rank
    BY DEF NotifyNode, registryVars
  <2>2. QED
    BY <1>2, <2>1 DEF OrderOK, RanksInOrder, Ranked, SameNodes
<1>4. ToldInOrder(t)'
  <2>1. SUFFICES ASSUME NEW i \in DOMAIN task[t].order
                 PROVE  \/ task[t].order[i] \in task'[t].pending
                        \/ task[t].order[i] \in task'[t].bad
                        \/ told'[task[t].order[i]] = i - 1
    BY <1>2 DEF ToldInOrder
  <2>2. CASE task[t].order[i] = n
    <3>1. SentRank(t, n) = i - 1
      BY <1>1, <1>2, <2>2, SentRankIsPlace
    <3>2. QED
      BY <1>1, <1>2, <2>2, <3>1 DEF TypeOK
  <2>3. CASE task[t].order[i] # n
    <3>1. told'[task[t].order[i]] = told[task[t].order[i]]
      <4>1. task[t].order[i] \in task[t].roster /\ task[t].roster \subseteq Node
        BY <1>1, <1>2, ListEnumeratesRoster DEF TypeOK, TaskType
      <4>2. QED
        BY <1>1, <1>2, <2>3, <4>1 DEF TypeOK
    <3>2. \/ task[t].order[i] \in task[t].pending
          \/ task[t].order[i] \in task[t].bad
          \/ told[task[t].order[i]] = i - 1
      BY <1>2 DEF OrderOK, ToldInOrder
    <3>3. QED
      BY <1>2, <2>3, <3>1, <3>2
  <2>4. QED
    BY <2>2, <2>3
<1>5. QED
  BY <1>3, <1>4 DEF OrderOK

\* A reconfiguration that runs alone is the only one that writes ranks.
LEMMA ReconfigurationOrder ==
    ASSUME LifecycleInv, OneAtATime, NEW u \in Task, OrderOK(u), ReconfigurationStep
    PROVE  OrderOK(u)'
<1>1. TypeOK /\ RostersEnumerated
  BY LifecycleInvTypes
<1>2. ASSUME NEW t \in ApiCall, NEW n \in Node, RemoveNode(t, n)
      PROVE  OrderOK(u)'
  <2>1. /\ DeleteNodes({n}) /\ {n} \in SUBSET Node /\ UNCHANGED told
        /\ task'[u].pc = task[u].pc \/ task'[u].pc = "begin"
        /\ task'[u].roster = task[u].roster
        /\ task'[u].lost = task[u].lost \cup ({n} \cap (task[u].roster \cup task[u].promo))
        /\ SamePlan(u)
    <3>1. DeleteNodes({n}) /\ UNCHANGED told /\ Removal(t, n, u)
      BY <1>1, <1>2, RemoveTask
    <3>2. QED
      BY <3>1 DEF Removal
  <2>2. QED
    BY <2>1, DeletedOrder
<1>3. ASSUME NEW t \in Task, Reconfigure(t), t # u
      PROVE  OrderOK(u)'
  <2>1. task[t].pc # "idle" /\ OnlyTask(t)
    BY <1>1, <1>3, BeginTask, CollectTask, CountTask, SortTask, AssignTask, SettleTask,
       PromoteTask, NotifyTask DEF Reconfigure
  <2>2. task[u].pc = "idle" /\ task'[u] = task[u]
    BY <1>3, <2>1 DEF OneAtATime, OnlyTask
  <2>3. QED
    BY <2>2, EarlyOrder
<1>4. CASE Begin(u) \/ Collect(u) \/ Count(u) \/ \E n \in Node : Promote(u, n)
  <2>1. task'[u].pc \notin {"assign", "notify", "settle"}
    BY <1>1, <1>4, BeginTask, CollectTask, CountTask, PromoteTask
  <2>2. QED
    BY <2>1, EarlyOrder
<1>5. CASE Settle(u)
  <2>1. UNCHANGED <<rank, told>>
    BY <1>5 DEF Settle
  <2>2. UNCHANGED task \/ task'[u].pc \notin {"assign", "notify", "settle"}
    BY <1>1, <1>5, SettleTask
  <2>3. QED
    BY <1>1, <2>1, <2>2, EarlyOrder, KeptOrder DEF SamePlan
<1>6. CASE Sort(u)
  <2>1. UNCHANGED <<rank, told>>
    BY <1>6 DEF Sort, registryVars
  <2>2. CASE UNCHANGED task
    BY <1>1, <2>1, <2>2, KeptOrder DEF SamePlan
  <2>3. CASE /\ task'[u].pc = "assign" /\ task'[u].idx = 1
             /\ task'[u].order \in Bijection(1 .. Cardinality(task[u].roster), task[u].roster)
    <3>1. Cardinality(task[u].roster) \in Nat
      BY <1>1, NodeSetFinite DEF TypeOK, TaskType
    <3>2. \A i \in Nat : ~Ranked(u, i)'
      BY <2>3, <3>1 DEF Ranked, Bijection, Injection
    <3>3. QED
      BY <2>3, <3>2 DEF OrderOK, RanksInOrder, ToldInOrder
  <2>4. QED
    BY <1>1, <1>6, <2>2, <2>3, SortTask
<1>7. QED
  BY <1>2, <1>3, <1>4, <1>5, <1>6, AssigningOrder, NotifyingOrder
  DEF ReconfigurationStep, Reconfigure

\* When a reconfiguration that never met another one has notified its nodes
\* without an error, each of them was told its place in the sorted list, even
\* if it has been removed, has timed out or has registered anew meanwhile.
THEOREM LoneRosterToldInOrder == Spec /\ []OneAtATime => []RosterToldInOrder
<1>1. Init => \A t \in Task : OrderOK(t)
  BY DEF Init, OrderOK, RanksInOrder, Ranked, ToldInOrder, IdleTask
<1>2. ASSUME LifecycleInv, OneAtATime, \A t \in Task : OrderOK(t), [Next]_vars
      PROVE  (\A t \in Task : OrderOK(t))'
  <2>1. SUFFICES ASSUME NEW t \in Task
                 PROVE  OrderOK(t)'
    OBVIOUS
  <2>2. CASE UNCHANGED vars
    <3>1. UNCHANGED <<task, rank, told>>
      BY <2>2 DEF vars, registryVars
    <3>2. TypeOK /\ RostersEnumerated
      BY <1>2, LifecycleInvTypes
    <3>3. QED
      BY <1>2, <3>1, <3>2, KeptOrder DEF SamePlan
  <2>3. QED
    BY <1>2, <2>2, RegistrationOrder, FailureOrder, ReconfigurationOrder DEF Next
<1>3. ASSUME LifecycleInv, \A t \in Task : OrderOK(t)
      PROVE  RosterToldInOrder
  <2>1. \A t \in Task : TaskOK(t)
    BY <1>3, LifecycleInvTypes
  <2>2. QED
    BY <1>3, <2>1 DEF RosterToldInOrder, OrderOK, ToldInOrder, TaskOK, PlanOK
<1>4. QED
  BY <1>1, <1>2, <1>3, LifecycleInvInductive, PTL DEF Spec

-----------------------------------------------------------------------------
(* Staff.  A timeout takes a node out without a reconfiguration, and a        *)
(* reconfiguration counts on nodes that were removed after it read the        *)
(* registry, so this is said of the behaviours without either.                *)

\* Heartbeats arrive, so that nobody is timed out.
HeartbeatsArrive == \A n \in Node : health[n] \in {"absent", "fresh"}

\* No node leaves the registry while a reconfiguration points to it.
NothingLost == \A t \in Task : task[t].lost = {}

\* t is about to read the registry, or has read it and has nobody in its
\* roster that is not active.
Recovering(t) ==
    \/ task[t].pc \in {"begin", "collect"}
    \/ task[t].pc \in {"promote", "count", "sort"} /\ task[t].roster \subseteq WithStatus("active")

\* The cluster is staffed, or a reconfiguration will see that it is not.
Staffed ==
    state \in {"Running", "Reconfiguring"} =>
        \/ Cardinality(WithStatus("active")) >= ActiveNodes
        \/ \E t \in Task : Recovering(t)

StaffedAtStart ==
    (\E n \in Node : starter[n].pc = "starting")
        => Cardinality(WithStatus("active")) >= ActiveNodes

StaffInv == hm = None /\ Staffed /\ StaffedAtStart

\* As long as no active node is lost, a staffed cluster stays staffed.
LEMMA StaffGrows ==
    ASSUME WithStatus("active") \subseteq WithStatus("active")',
           Cardinality(WithStatus("active")) >= ActiveNodes
    PROVE  Cardinality(WithStatus("active")') >= ActiveNodes
<1>1. WithStatus("active")' \in SUBSET Node /\ WithStatus("active") \in SUBSET Node
  BY DEF WithStatus
<1> DEFINE A == WithStatus("active")
           B == WithStatus("active")'
<1>2. A \in SUBSET B /\ IsFiniteSet(B) /\ Cardinality(B) \in Nat /\ Cardinality(A) \in Nat
  BY <1>1, NodeSetFinite
<1>3. Cardinality(A) <= Cardinality(B)
  BY <1>2, FS_Subset
<1>4. ActiveNodes \in Nat /\ Cardinality(A) >= ActiveNodes
  BY SizeAssumption
<1> HIDE DEF A, B
<1>5. Cardinality(B) >= ActiveNodes
  BY <1>2, <1>3, <1>4
<1>6. QED
  BY <1>5 DEF B

\* Steps that keep the active nodes, the phase and the reconfigurations.
LEMMA StaffUndisturbed ==
    ASSUME StaffInv, WithStatus("active") \subseteq WithStatus("active")',
           UNCHANGED <<hm, task>>, state' \in {"Running", "Reconfiguring"} => UNCHANGED state,
           \A n \in Node : starter'[n].pc = "starting" => starter[n].pc = "starting"
    PROVE  StaffInv'
<1>1. \A t \in Task : Recovering(t) => Recovering(t)'
  BY DEF Recovering
<1>2. Staffed'
  BY <1>1, StaffGrows DEF StaffInv, Staffed
<1>3. StaffedAtStart'
  BY StaffGrows DEF StaffInv, StaffedAtStart
<1>4. QED
  BY <1>2, <1>3 DEF StaffInv

LEMMA RegistrationStaff ==
    ASSUME LifecycleInv, StaffInv, RegistrationStep
    PROVE  StaffInv'
<1>1. TypeOK /\ RegistryCoherent
  BY LifecycleInvTypes
<1>2. UNCHANGED <<hm, task>>
  BY DEF RegistrationStep, RegisterAdmit, RegisterLookup, RegisterReserve, RegisterSession,
         RegisterNode, RegisterCount, SendHeartbeat, StartAcquire, StartSend, StartFinish,
         handlerVars
<1>3. WithStatus("active") \subseteq WithStatus("active")'
  <2>1. ASSUME NEW n \in Node, RegisterNode(n)
        PROVE  WithStatus("active") \subseteq WithStatus("active")'
    BY <1>1, <2>1 DEF RegisterNode, RegistryCoherent, Registered, WithStatus, TypeOK
  <2>2. UNCHANGED status \/ \E n \in Node : RegisterNode(n)
    BY DEF RegistrationStep, RegisterAdmit, RegisterLookup, RegisterReserve, RegisterSession,
           RegisterCount, SendHeartbeat, StartAcquire, StartSend, StartFinish, registryVars
  <2>3. QED
    BY <2>1, <2>2 DEF WithStatus
<1>4. ASSUME NEW n \in Node, StartAcquire(n)
      PROVE  StaffInv'
  <2>1. UNCHANGED <<state, status>>
    BY <1>4 DEF StartAcquire
  <2>2. CASE ~Accepting \/ NothingToStart
    <3>1. starter' = [starter EXCEPT ![n] = IdleStarter]
      BY <1>4, <2>2 DEF StartAcquire
    <3>2. \A m \in Node : starter'[m].pc = "starting" => starter[m].pc = "starting"
      BY <1>1, <3>1 DEF TypeOK, IdleStarter
    <3>3. QED
      BY <1>2, <1>3, <2>1, <3>2, StaffUndisturbed
  <2>3. CASE ~NothingToStart
    <3>1. Cardinality(WithStatus("active")) >= ActiveNodes
      <4>1. Cardinality(WithStatus("active")) \in Nat
        BY <1>1, SlotSetsFinite
      <4>2. QED
        BY <2>3, <4>1, SizeAssumption DEF NothingToStart
    <3>2. QED
      BY <1>2, <1>3, <3>1, StaffGrows DEF StaffInv, Staffed, StaffedAtStart
  <2>4. QED
    BY <2>2, <2>3
<1>5. ASSUME NEW n \in Node, StartFinish(n)
      PROVE  StaffInv'
  <2>1. Cardinality(WithStatus("active")') >= ActiveNodes
    BY <1>3, <1>5, StaffGrows DEF StartFinish, StaffInv, StaffedAtStart
  <2>2. QED
    BY <1>2, <2>1 DEF StaffInv, Staffed, StaffedAtStart
<1>6. ASSUME NEW n \in Node,
             \/ RegisterAdmit(n) \/ RegisterLookup(n) \/ RegisterReserve(n)
             \/ RegisterSession(n) \/ RegisterNode(n) \/ RegisterCount(n) \/ SendHeartbeat(n)
             \/ \E m \in Node : StartSend(n, m)
      PROVE  StaffInv'
  <2>1. UNCHANGED state
    BY <1>6 DEF RegisterAdmit, RegisterLookup, RegisterReserve, RegisterSession,
                RegisterNode, RegisterCount, SendHeartbeat, StartSend
  <2>2. \A m \in Node : starter'[m].pc = "starting" => starter[m].pc = "starting"
    <3>1. CASE UNCHANGED starter
      BY <3>1
    <3>2. CASE RegisterCount(n)
      BY <1>1, <3>2 DEF RegisterCount, TypeOK, StarterType
    <3>3. ASSUME NEW m \in Node, StartSend(n, m)
          PROVE  \A k \in Node : starter'[k].pc = "starting" => starter[k].pc = "starting"
      BY <1>1, <3>3 DEF StartSend, TypeOK
    <3>4. QED
      BY <1>6, <3>1, <3>2, <3>3
      DEF RegisterAdmit, RegisterLookup, RegisterReserve, RegisterSession, RegisterNode,
          SendHeartbeat, handlerVars
  <2>3. QED
    BY <1>2, <1>3, <2>1, <2>2, StaffUndisturbed
<1>7. QED
  BY <1>4, <1>5, <1>6 DEF RegistrationStep

\* The failure of an active node, the only one that takes an active node out
\* here, spawns a reconfiguration, and never comes before the start.
LEMMA FailureStaff ==
    ASSUME LifecycleInv, HeartbeatsArrive, StaffInv, FailureStep
    PROVE  StaffInv'
<1>1. TypeOK /\ StartBarrier
  BY LifecycleInvTypes
<1>2. hm = None /\ \A n \in Node : ~Overdue(n) /\ health[n] # "dead"
  BY DEF StaffInv, HeartbeatsArrive, Overdue
<1>3. ASSUME NEW c \in Notifier, HandleNodeFailure(c)
      PROVE  StaffInv'
  <2> DEFINE n == notifier[c].node
  <2>1. UNCHANGED <<hm, starter>>
    BY <1>3 DEF HandleNodeFailure
  <2>2. CASE UNCHANGED <<state, status, activeCtr, task>>
    BY <2>1, <2>2, StaffUndisturbed DEF WithStatus
  <2>3. CASE /\ state \in {"Running", "Reconfiguring"} /\ state' = "Reconfiguring"
             /\ status' = [status EXCEPT ![n] = "failed"]
             /\ status[n] # "active" /\ UNCHANGED task
    <3>1. WithStatus("active") \subseteq WithStatus("active")'
      BY <1>1, <2>3 DEF WithStatus, TypeOK
    <3>2. \A t \in Task : Recovering(t) => Recovering(t)'
      BY <2>3, <3>1 DEF Recovering
    <3>3. Staffed'
      BY <2>3, <3>1, <3>2, StaffGrows DEF StaffInv, Staffed
    <3>4. StaffedAtStart'
      BY <2>1, <3>1, StaffGrows DEF StaffInv, StaffedAtStart
    <3>5. QED
      BY <1>2, <2>1, <3>3, <3>4 DEF StaffInv
  <2>4. CASE /\ state \in {"Running", "Reconfiguring"}
             /\ \E g \in Goroutine : task'[g].pc = "begin"
    <3>1. \E g \in Task : Recovering(g)'
      BY <2>4 DEF Recovering, Task
    <3>2. \A m \in Node : starter'[m].pc # "starting"
      BY <1>1, <2>1, <2>4 DEF StartBarrier
    <3>3. QED
      BY <1>2, <2>1, <3>1, <3>2 DEF StaffInv, Staffed, StaffedAtStart
  <2>5. QED
    BY <1>1, <1>3, <2>2, <2>3, <2>4, FailureTask
<1>4. ~CleanupDeadConnections /\ ~HealthTimeout /\ \A n \in Node : ~HealthScan(n)
  BY <1>2 DEF CleanupDeadConnections, HealthTimeout, HealthScan
<1>5. ASSUME \A c \in Notifier : ~HandleNodeFailure(c)
      PROVE  StaffInv'
  <2>1. UNCHANGED <<task, status, state, starter, hm>>
    BY <1>4, <1>5 DEF FailureStep, Age, NotifySeen, NotifyMark, CleanupSessions, registryVars,
                      handlerVars
  <2>2. QED
    BY <2>1, StaffUndisturbed DEF WithStatus
<1>6. QED
  BY <1>3, <1>5

\* A removal of an active node reconfigures; and a reconfiguration leaves the
\* cluster staffed, tries again or ends the server.
LEMMA ReconfigurationStaff ==
    ASSUME LifecycleInv, NothingLost, StaffInv, ReconfigurationStep
    PROVE  StaffInv'
<1>1. TypeOK /\ StartBarrier /\ NoReconfigurationBeforeStart /\ \A t \in Task : TaskOK(t)
  BY LifecycleInvTypes
<1>2. UNCHANGED <<hm, starter>>
  BY ReconfigurationKeepsHandlers
<1>3. ASSUME NEW t \in ApiCall, NEW n \in Node, RemoveNode(t, n)
      PROVE  StaffInv'
  <2>1. /\ state \in {"Running", "Reconfiguring"} /\ state' = "Reconfiguring"
        /\ DeleteNodes({n})
        /\ \A u \in Task :
             /\ u = t /\ status[n] = "active" => task'[u].pc = "begin"
             /\ u # t \/ status[n] # "active" => task'[u].pc = task[u].pc
             /\ task'[u].roster = task[u].roster
    <3>1. /\ state \in {"Running", "Reconfiguring"} /\ state' = "Reconfiguring"
          /\ DeleteNodes({n}) /\ \A u \in Task : Removal(t, n, u)
      BY <1>1, <1>3, RemoveTask
    <3>2. QED
      BY <3>1 DEF Removal
  <2>2. \A m \in Node : starter'[m].pc # "starting"
    BY <1>1, <1>2, <2>1 DEF StartBarrier
  <2>3. CASE status[n] = "active"
    <3>1. Recovering(t)' /\ t \in Task
      BY <2>1, <2>3 DEF Recovering, Task
    <3>2. QED
      BY <1>2, <2>2, <3>1 DEF StaffInv, Staffed, StaffedAtStart
  <2>4. CASE status[n] # "active"
    <3>1. WithStatus("active") \subseteq WithStatus("active")'
      BY <2>1, <2>4 DEF DeleteNodes, WithStatus
    <3>2. \A u \in Task : Recovering(u) => Recovering(u)'
      BY <2>1, <2>4, <3>1 DEF Recovering
    <3>3. QED
      BY <1>2, <2>1, <2>2, <3>1, <3>2, StaffGrows DEF StaffInv, Staffed, StaffedAtStart
  <2>5. QED
    BY <2>3, <2>4
<1>4. ASSUME NEW t \in Task, Reconfigure(t)
      PROVE  StaffInv'
  <2>1. state # "Initializing" /\ state # "Failed" /\ OnlyTask(t)
    <3>1. Alive /\ task[t].pc # "idle" /\ OnlyTask(t)
      BY <1>1, <1>4, BeginTask, CollectTask, CountTask, SortTask, AssignTask, SettleTask,
         PromoteTask, NotifyTask DEF Reconfigure
    <3>2. QED
      BY <1>1, <3>1 DEF NoReconfigurationBeforeStart, Alive
  <2>2. state \in {"Running", "Reconfiguring"}
    BY <1>1, <2>1 DEF TypeOK, States
  <2>3. \A m \in Node : starter'[m].pc # "starting"
    BY <1>1, <1>2, <2>2 DEF StartBarrier
  <2>4. WithStatus("active") \subseteq WithStatus("active")'
    <3>1. ASSUME NEW n \in Node, Promote(t, n)
          PROVE  WithStatus("active") \subseteq WithStatus("active")'
      BY <1>1, <3>1 DEF Promote, WithStatus, TypeOK
    <3>2. UNCHANGED status \/ \E n \in Node : Promote(t, n)
      BY <1>1, <1>4, SettleTask
      DEF Reconfigure, Begin, Collect, Count, Sort, AssignRank, NotifyNode, registryVars
    <3>3. QED
      BY <3>1, <3>2 DEF WithStatus
  <2>5. \A u \in Task : u # t => (Recovering(u) => Recovering(u)')
    BY <2>1, <2>4 DEF Recovering, OnlyTask
  <2>6. CASE \/ state' = "Failed" \/ Cardinality(WithStatus("active")) >= ActiveNodes
             \/ Recovering(t)'
    BY <1>2, <2>3, <2>4, <2>6, StaffGrows DEF StaffInv, Staffed, StaffedAtStart
  <2>7. CASE ~Recovering(t)
    BY <1>2, <2>2, <2>3, <2>4, <2>5, <2>7, StaffGrows DEF StaffInv, Staffed, StaffedAtStart
  <2>8. ASSUME Recovering(t)
        PROVE  \/ state' = "Failed" \/ Cardinality(WithStatus("active")) >= ActiveNodes
               \/ Recovering(t)'
    <3>1. CASE Begin(t)
      BY <1>1, <2>1, <3>1, BeginTask DEF Recovering
    <3>2. CASE Collect(t)
      <4>1. /\ task'[t].pc \in {"promote", "sort"}
            /\ task'[t].roster = WithStatus("active")
        BY <1>1, <3>2, CollectTask
      <4>2. QED
        BY <2>4, <4>1 DEF Recovering
    <3>3. ASSUME NEW n \in Node, Promote(t, n)
          PROVE  Recovering(t)'
      <4>1. /\ task[t].pc = "promote" /\ task'[t].pc \in {"promote", "count"}
            /\ task'[t].roster = task[t].roster \cup {n}
        BY <1>1, <3>3, PromoteTask
      <4>2. n \in WithStatus("active")'
        BY <1>1, <3>3 DEF Promote, NothingLost, WithStatus, TypeOK
      <4>3. QED
        BY <2>4, <2>8, <4>1, <4>2 DEF Recovering
    <3>4. CASE Count(t)
      BY <1>1, <2>4, <2>8, <3>4, CountTask DEF Recovering, SameNodes
    <3>5. CASE Sort(t) /\ Enough(t)
      <4>1. task[t].roster \subseteq WithStatus("active") /\ WithStatus("active") \in SUBSET Node
        BY <1>1, <2>8, <3>5, SortTask DEF Recovering, WithStatus
      <4>2. /\ Cardinality(task[t].roster) <= Cardinality(WithStatus("active"))
            /\ Cardinality(task[t].roster) \in Nat /\ Cardinality(WithStatus("active")) \in Nat
        BY <4>1, NodeSetFinite, FS_Subset
      <4>3. QED
        BY <3>5, <4>2, SizeAssumption DEF Enough
    <3>6. CASE Sort(t) /\ ~Enough(t)
      BY <1>1, <3>6, SortTask
    <3>7. QED
      BY <1>1, <1>4, <2>8, <3>1, <3>2, <3>3, <3>4, <3>5, <3>6, AssignTask, NotifyTask, SettleTask
      DEF Reconfigure, Recovering
  <2>9. QED
    BY <2>6, <2>7, <2>8
<1>5. QED
  BY <1>3, <1>4 DEF ReconfigurationStep, Reconfigure

\* As long as heartbeats arrive and no node is removed under a reconfiguration,
\* a server that is back in Running, with no reconfiguration under way, has its
\* ActiveNodes active nodes, however failures, removals, registrations and
\* reconfigurations have overlapped.
THEOREM ReportedFailuresAreStaffed ==
    Spec /\ []HeartbeatsArrive /\ []NothingLost => []RunningIsStaffed
<1>1. Init => StaffInv
  BY DEF Init, StaffInv, Staffed, StaffedAtStart, IdleStarter
<1>2. ASSUME LifecycleInv, HeartbeatsArrive, NothingLost, StaffInv, [Next]_vars
      PROVE  StaffInv'
  <2>1. CASE UNCHANGED vars
    BY <1>2, <2>1, StaffUndisturbed DEF vars, registryVars, handlerVars, WithStatus
  <2>2. QED
    BY <1>2, <2>1, RegistrationStaff, FailureStaff, ReconfigurationStaff DEF Next
<1>3. StaffInv => RunningIsStaffed
  BY DEF StaffInv, Staffed, Recovering, RunningIsStaffed
<1>4. QED
  BY <1>1, <1>2, <1>3, LifecycleInvInductive, PTL DEF Spec

\* Where no heartbeat may be missing and nobody asks for a removal, both hold.
QuietInv == HeartbeatsArrive /\ NothingLost

LEMMA QuietSteps ==
    ASSUME TypeOK, Silent = {}, ApiCall = {}, QuietInv, [Next]_vars
    PROVE  QuietInv'
<1>1. CASE UNCHANGED vars
  BY <1>1 DEF QuietInv, HeartbeatsArrive, NothingLost, vars, registryVars
<1>2. CASE RegistrationStep
  <2>1. PICK n \in Node :
          \/ RegisterAdmit(n) \/ RegisterLookup(n) \/ RegisterReserve(n)
          \/ RegisterSession(n) \/ RegisterNode(n) \/ RegisterCount(n)
          \/ SendHeartbeat(n) \/ StartAcquire(n) \/ StartFinish(n)
          \/ \E m \in Node : StartSend(n, m)
    BY <1>2 DEF RegistrationStep
  <2>2. UNCHANGED task
    BY <2>1 DEF RegisterAdmit, RegisterLookup, RegisterReserve, RegisterSession,
                RegisterNode, RegisterCount, SendHeartbeat, StartAcquire, StartFinish, StartSend
  <2>3. health' = health \/ health' = [health EXCEPT ![n] = "fresh"]
    <3>1. CASE RegisterLookup(n)
      BY <3>1 DEF RegisterLookup, Reconnect
    <3>2. CASE RegisterNode(n) \/ SendHeartbeat(n)
      BY <3>2 DEF RegisterNode, SendHeartbeat
    <3>3. CASE \/ RegisterAdmit(n) \/ RegisterReserve(n) \/ RegisterSession(n)
               \/ RegisterCount(n) \/ StartAcquire(n) \/ StartFinish(n)
               \/ \E m \in Node : StartSend(n, m)
      BY <3>3 DEF RegisterAdmit, RegisterReserve, RegisterSession, RegisterCount,
                  StartAcquire, StartFinish, StartSend, registryVars
    <3>4. QED
      BY <2>1, <3>1, <3>2, <3>3
  <2>4. QED
    BY <2>2, <2>3 DEF QuietInv, HeartbeatsArrive, NothingLost, TypeOK
<1>3. CASE FailureStep
  <2>1. /\ \A n \in Node : ~Age(n)
        /\ ~CleanupDeadConnections
    BY DEF Age, CleanupDeadConnections, QuietInv, HeartbeatsArrive
  <2>2. ASSUME NEW c \in Notifier, HandleNodeFailure(c)
        PROVE  QuietInv'
    <3>1. UNCHANGED health
      BY <2>2 DEF HandleNodeFailure
    <3>2. \/ UNCHANGED task
          \/ \E g \in Task : OnlyTask(g) /\ SameNodes(g)
      BY <2>2, FailureTask DEF Task
    <3>3. QED
      BY <3>1, <3>2 DEF QuietInv, HeartbeatsArrive, NothingLost, OnlyTask, SameNodes
  <2>3. ASSUME \/ \E n \in Node : HealthScan(n) \/ CleanupSessions(n)
               \/ \E n \in Node, c \in Notifier : NotifySeen(c, n)
               \/ \E c \in Notifier : NotifyMark(c)
               \/ HealthTimeout
        PROVE  QuietInv'
    <3>1. UNCHANGED <<health, task>>
      BY <2>3 DEF HealthScan, CleanupSessions, NotifySeen, NotifyMark, HealthTimeout, registryVars
    <3>2. QED
      BY <3>1 DEF QuietInv, HeartbeatsArrive, NothingLost
  <2>4. QED
    BY <1>3, <2>1, <2>2, <2>3 DEF FailureStep
<1>4. CASE ReconfigurationStep
  <2>1. PICK t \in Task :
          \/ Begin(t) \/ Collect(t) \/ Count(t) \/ Sort(t) \/ AssignRank(t) \/ Settle(t)
          \/ \E n \in Node : Promote(t, n) \/ NotifyNode(t, n)
    BY <1>4 DEF ReconfigurationStep
  <2>2. UNCHANGED health
    BY <2>1 DEF Begin, Collect, Count, Sort, AssignRank, Settle, Promote, NotifyNode, registryVars
  <2>3. OnlyTask(t)
    BY <2>1, BeginTask, CollectTask, CountTask, SortTask, AssignTask, SettleTask, PromoteTask, NotifyTask
  <2>4. task'[t].lost \in {{}, task[t].lost}
    BY <2>1, BeginTask, CollectTask, CountTask, SortTask, AssignTask, SettleTask, PromoteTask, NotifyTask
    DEF SameNodes, BlankPlan
  <2>5. QED
    BY <2>2, <2>3, <2>4 DEF QuietInv, HeartbeatsArrive, NothingLost, OnlyTask
<1>5. QED
  BY <1>1, <1>2, <1>3, <1>4 DEF Next

\* Where heartbeats are never missing and nodes are not removed by request, a
\* server back in Running has its ActiveNodes active nodes, whatever fails and is
\* reported, and however many reconfigurations that starts at once.
THEOREM StaffedWithoutTimeouts ==
    ASSUME Silent = {}, ApiCall = {}
    PROVE  Spec => []RunningIsStaffed
<1>1. Init => QuietInv
  BY DEF Init, QuietInv, HeartbeatsArrive, NothingLost, IdleTask
<1>2. ASSUME LifecycleInv, QuietInv, [Next]_vars
      PROVE  QuietInv'
  BY <1>2, LifecycleInvTypes, QuietSteps
<1>3. QuietInv => HeartbeatsArrive /\ NothingLost
  BY DEF QuietInv
<1>4. QED
  BY <1>1, <1>2, <1>3, LifecycleInvInductive, ReportedFailuresAreStaffed, PTL DEF Spec

=============================================================================
