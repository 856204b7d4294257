----------------------------- MODULE SlotProofs -----------------------------
(***************************************************************************)
(* Theorems about the slots of c4d-server and the start of the program:    *)
(* the counter that Register admits by never falls behind the registry,    *)
(* only a complete world is started, and cm.mu is held by one who needs it *)
(* (which a remove request that cannot reach a node does for ever).        *)
(***************************************************************************)
EXTENDS C4DServerProofs

-----------------------------------------------------------------------------
(* What each step of a reconfiguration does to its record.  The steps that   *)
(* the proofs take apart cite these lemmas, and never the records again.     *)

\* No other reconfiguration is touched.
OnlyTask(t) == \A u \in Task : u # t => task'[u] = task[u]

\* The fields that hold what t read from the registry, and what it goes by.
SameNodes(t) == /\ task'[t].roster = task[t].roster
                /\ task'[t].lost = task[t].lost
                /\ task'[t].promo = task[t].promo

SamePlan(t) == /\ task'[t].order = task[t].order
               /\ task'[t].idx = task[t].idx
               /\ task'[t].pending = task[t].pending
               /\ task'[t].bad = task[t].bad

\* The record of a reconfiguration that has done nothing yet.
BlankPlan(t) == /\ task'[t].roster = {}
                /\ task'[t].lost = {}
                /\ task'[t].promo = {}
                /\ task'[t].done = 0
                /\ task'[t].order = << >>
                /\ task'[t].idx = 0
                /\ task'[t].pending = {}
                /\ task'[t].bad = {}

\* Begin accepts the work, or gives it up where there is none.
LEMMA BeginTask ==
    ASSUME TypeOK, NEW t \in Task, Begin(t)
    PROVE  /\ OnlyTask(t)
           /\ Alive /\ task[t].pc = "begin"
           /\ \/ /\ state \in {"Running", "Reconfiguring"} /\ state' = "Reconfiguring"
                 /\ task'[t].pc = "collect" /\ task'[t].done = task[t].done
                 /\ SameNodes(t) /\ SamePlan(t) /\ UNCHANGED cmMu
              \/ /\ state = "Initializing" /\ task'[t].pc = "idle" /\ BlankPlan(t)
                 /\ state' \in {"Failed", state}
<1>1. task \in [Task -> TaskType] /\ task[t] \in TaskType
  BY DEF TypeOK
<1>2. OnlyTask(t)
  BY <1>1 DEF OnlyTask, Begin
<1>3. CASE state = "Reconfiguring" \/ CanTransition("Reconfiguring")
  <2>1. state \in {"Running", "Reconfiguring"}
    BY <1>3 DEF CanTransition, validTransitions, States, TypeOK
  <2>2. task'[t] = [task[t] EXCEPT !.pc = "collect"]
    BY <1>1, <1>3 DEF Begin
  <2>3. QED
    BY <1>1, <1>2, <1>3, <2>1, <2>2 DEF Begin, InTask, TaskType, SameNodes, SamePlan
<1>4. CASE ~(state = "Reconfiguring" \/ CanTransition("Reconfiguring"))
  <2>1. state = "Initializing"
    BY <1>4, RefusedOnlyInitially DEF Begin, InTask
  <2>2. task'[t] = IdleTask
    BY <1>1, <1>4 DEF Begin
  <2>3. QED
    BY <1>2, <1>4, <2>1, <2>2 DEF Begin, InTask, IdleTask, BlankPlan
<1>5. QED
  BY <1>3, <1>4

LEMMA CollectTask ==
    ASSUME TypeOK, NEW t \in Task, Collect(t)
    PROVE  /\ OnlyTask(t)
           /\ Alive /\ task[t].pc = "collect"
           /\ task'[t].pc \in {"promote", "sort"}
           /\ task'[t].roster = WithStatus("active")
           /\ task'[t].promo \in SUBSET WithStatus("standby")
           /\ task'[t].lost = {} /\ task'[t].done = 0
           /\ SamePlan(t)
<1>1. task \in [Task -> TaskType] /\ task[t] \in TaskType
  BY DEF TypeOK
<1>2. PICK promo \in SUBSET WithStatus("standby") :
        task' = [task EXCEPT ![t] =
                   [task[t] EXCEPT !.pc = IF promo = {} THEN "sort" ELSE "promote",
                                   !.roster = WithStatus("active"), !.promo = promo,
                                   !.lost = {}, !.done = 0]]
  BY DEF Collect
<1>3. task'[t] = [task[t] EXCEPT !.pc = IF promo = {} THEN "sort" ELSE "promote",
                                 !.roster = WithStatus("active"), !.promo = promo,
                                 !.lost = {}, !.done = 0]
  BY <1>1, <1>2
<1>4. OnlyTask(t)
  BY <1>1, <1>2 DEF OnlyTask
<1>5. QED
  BY <1>1, <1>3, <1>4 DEF Collect, InTask, TaskType, SamePlan

LEMMA PromoteTask ==
    ASSUME TypeOK, NEW t \in Task, NEW n \in Node, Promote(t, n)
    PROVE  /\ OnlyTask(t)
           /\ Alive /\ task[t].pc = "promote" /\ n \in task[t].promo
           /\ task'[t].pc \in {"promote", "count"}
           /\ task'[t].roster = task[t].roster \cup {n}
           /\ task'[t].promo = task[t].promo \ {n}
           /\ task'[t].lost = task[t].lost
           /\ task'[t].done = task[t].done + 1
           /\ SamePlan(t)
<1>1. task \in [Task -> TaskType] /\ task[t] \in TaskType
  BY DEF TypeOK
<1> DEFINE r == [task[t] EXCEPT !.pc = IF task[t].promo = {n} THEN "count" ELSE "promote",
                                !.promo = @ \ {n}, !.roster = @ \cup {n},
                                !.done = @ + 1]
<1>2. task' = [task EXCEPT ![t] = r]
  BY DEF Promote
<1>3. task'[t] = r /\ OnlyTask(t)
  BY <1>1, <1>2 DEF OnlyTask
<1>4. QED
  BY <1>1, <1>3 DEF Promote, InTask, TaskType, SamePlan

LEMMA CountTask ==
    ASSUME TypeOK, NEW t \in Task, Count(t)
    PROVE  /\ OnlyTask(t)
           /\ Alive /\ task[t].pc = "count"
           /\ task'[t].pc = "sort" /\ task'[t].done = 0
           /\ SameNodes(t) /\ SamePlan(t)
<1>1. task \in [Task -> TaskType] /\ task[t] \in TaskType
  BY DEF TypeOK
<1>2. task'[t] = [task[t] EXCEPT !.pc = "sort", !.done = 0] /\ OnlyTask(t)
  BY <1>1 DEF Count, OnlyTask
<1>3. QED
  BY <1>1, <1>2 DEF Count, InTask, TaskType, SameNodes, SamePlan

\* Sort gives an order to a roster that fills the world, or ends the server.
LEMMA SortTask ==
    ASSUME TypeOK, NEW t \in Task, Sort(t)
    PROVE  /\ OnlyTask(t)
           /\ Alive /\ task[t].pc = "sort"
           /\ \/ /\ Enough(t) /\ UNCHANGED state
                 /\ task'[t].pc = "assign" /\ task'[t].done = task[t].done
                 /\ SameNodes(t)
                 /\ task'[t].order \in Bijection(1 .. Cardinality(task[t].roster), task[t].roster)
                 /\ task'[t].idx = 1
                 /\ task'[t].pending = task[t].pending
                 /\ task'[t].bad = task[t].bad
              \/ /\ ~Enough(t) /\ state' = "Failed" /\ UNCHANGED task
<1>1. task \in [Task -> TaskType] /\ task[t] \in TaskType
  BY DEF TypeOK
<1>2. CASE Enough(t)
  <2>1. PICK order \in RankOrders(t) :
          task' = [task EXCEPT ![t] =
                     [task[t] EXCEPT !.pc = "assign", !.order = order, !.idx = 1]]
    BY <1>2 DEF Sort
  <2>2. order \in Bijection(1 .. Cardinality(task[t].roster), task[t].roster)
    BY DEF RankOrders
  <2>3. /\ task'[t] = [task[t] EXCEPT !.pc = "assign", !.order = order, !.idx = 1]
        /\ OnlyTask(t)
    BY <1>1, <2>1 DEF OnlyTask
  <2>4. QED
    BY <1>1, <1>2, <2>2, <2>3 DEF Sort, InTask, TaskType, SameNodes
<1>3. CASE ~Enough(t)
  BY <1>3 DEF Sort, InTask, OnlyTask
<1>4. QED
  BY <1>2, <1>3

LEMMA AssignTask ==
    ASSUME TypeOK, NEW t \in Task, AssignRank(t)
    PROVE  /\ OnlyTask(t)
           /\ Alive /\ task[t].pc = "assign"
           /\ task'[t].done = task[t].done /\ SameNodes(t)
           /\ task'[t].order = task[t].order /\ task'[t].bad = task[t].bad
           /\ \/ /\ task[t].idx = Cardinality(task[t].roster)
                 /\ task'[t].pc = "notify" /\ task'[t].pending = task[t].roster
                 /\ task'[t].idx = 0
              \/ /\ task[t].idx # Cardinality(task[t].roster)
                 /\ task'[t].pc = "assign" /\ task'[t].pending = task[t].pending
                 /\ task'[t].idx = task[t].idx + 1
<1>1. task \in [Task -> TaskType] /\ task[t] \in TaskType
  BY DEF TypeOK
<1> DEFINE r == IF task[t].idx = Cardinality(task[t].roster)
                THEN [task[t] EXCEPT !.pc = "notify", !.pending = task[t].roster, !.idx = 0]
                ELSE [task[t] EXCEPT !.idx = task[t].idx + 1]
<1>2. task' = [task EXCEPT ![t] = r]
  BY DEF AssignRank
<1>3. task'[t] = r /\ OnlyTask(t)
  BY <1>1, <1>2 DEF OnlyTask
<1>4. QED
  BY <1>1, <1>3 DEF AssignRank, InTask, TaskType, SameNodes

LEMMA NotifyTask ==
    ASSUME TypeOK, NEW t \in Task, NEW n \in Node, NotifyNode(t, n)
    PROVE  /\ OnlyTask(t)
           /\ Alive /\ task[t].pc = "notify" /\ n \in task[t].pending
           /\ task'[t].done = task[t].done /\ SameNodes(t)
           /\ task'[t].order = task[t].order /\ task'[t].idx = task[t].idx
           /\ task'[t].pending = task[t].pending \ {n}
           /\ task'[t].pc = IF task[t].pending = {n} THEN "settle" ELSE "notify"
           /\ \/ /\ told' = [told EXCEPT ![n] = SentRank(t, n)]
                 /\ task'[t].bad \in {task[t].bad, task[t].bad \cup {n}}
              \/ /\ told' = told
                 /\ task'[t].bad = task[t].bad \cup {n}
<1>1. task \in [Task -> TaskType] /\ task[t] \in TaskType
  BY DEF TypeOK
<1>2. PICK delivered \in BOOLEAN, error \in BOOLEAN :
        /\ delivered \/ error
        /\ told' = IF delivered THEN [told EXCEPT ![n] = SentRank(t, n)] ELSE told
        /\ task' = [task EXCEPT ![t] =
                      [task[t] EXCEPT !.pending = @ \ {n},
                                      !.pc = IF task[t].pending = {n} THEN "settle" ELSE "notify",
                                      !.bad = IF error THEN @ \cup {n} ELSE @]]
  BY DEF NotifyNode
<1> DEFINE r == [task[t] EXCEPT !.pending = @ \ {n},
                                !.pc = IF task[t].pending = {n} THEN "settle" ELSE "notify",
                                !.bad = IF error THEN @ \cup {n} ELSE @]
<1>3. task'[t] = r /\ OnlyTask(t)
  BY <1>1, <1>2 DEF OnlyTask
<1>4. /\ r.done = task[t].done /\ r.roster = task[t].roster /\ r.lost = task[t].lost
      /\ r.promo = task[t].promo /\ r.order = task[t].order /\ r.idx = task[t].idx
      /\ r.pending = task[t].pending \ {n}
      /\ r.pc = (IF task[t].pending = {n} THEN "settle" ELSE "notify")
      /\ r.bad = (IF error THEN task[t].bad \cup {n} ELSE task[t].bad)
  BY <1>1 DEF TaskType
<1> HIDE DEF r
<1>5. QED
  BY <1>2, <1>3, <1>4 DEF NotifyNode, InTask, SameNodes

\* The nodes found under the URLs of those that did not answer are none.
LEMMA NoneFoundByUrl ==
    ASSUME NEW bad \in SUBSET Node
    PROVE  FoundByUrl(bad) = {}
BY UrlAssumption DEF FoundByUrl, Registered

\* Settle ends the reconfiguration, starts it over or ends the server, and
\* marks no node.
LEMMA SettleTask ==
    ASSUME TypeOK, NEW t \in Task, Settle(t)
    PROVE  /\ OnlyTask(t)
           /\ Alive /\ task[t].pc = "settle"
           /\ UNCHANGED <<status, activeCtr>>
           /\ \/ /\ task[t].bad = {} /\ state' = Resumed
                 /\ task'[t].pc = "idle" /\ BlankPlan(t)
              \/ /\ cmMu = None /\ UNCHANGED <<state, cmMu>>
                 /\ task'[t].pc = "collect" /\ BlankPlan(t)
              \/ /\ cmMu = None /\ UNCHANGED <<task, cmMu>>
                 /\ state' = "Failed"
<1>1. task \in [Task -> TaskType] /\ task[t] \in TaskType
  BY DEF TypeOK
<1>2. CASE Succeed(t)
  <2>1. task'[t] = IdleTask /\ OnlyTask(t)
    BY <1>1, <1>2 DEF Succeed, OnlyTask
  <2>2. QED
    BY <1>2, <2>1 DEF Succeed, Settle, InTask, IdleTask, BlankPlan, counterVars
<1>3. CASE Retry(t)
  <2>1. FoundByUrl(task[t].bad) = {}
    BY <1>1, NoneFoundByUrl DEF TaskType
  <2>2. UNCHANGED <<status, activeCtr>>
    <3>1. status' = [n \in Node |-> status[n]]
      BY <1>3, <2>1 DEF Retry
    <3>2. activeCtr' = activeCtr - Cardinality({})
      <4>1. FoundByUrl(task[t].bad) \cap WithStatus("active") = {}
        BY <2>1
      <4>2. QED
        BY <1>3, <4>1 DEF Retry
    <3>3. QED
      BY <3>1, <3>2, FS_EmptySet DEF TypeOK
  <2>3. CASE UNCHANGED state
            /\ task' = [task EXCEPT ![t] = [IdleTask EXCEPT !.pc = "collect",
                                                           !.try = task[t].try + 1]]
    <3>1. /\ task'[t] = [IdleTask EXCEPT !.pc = "collect", !.try = task[t].try + 1]
          /\ OnlyTask(t)
      BY <1>1, <2>3 DEF OnlyTask
    <3>2. task'[t].pc = "collect" /\ BlankPlan(t)
      BY <3>1 DEF IdleTask, BlankPlan
    <3>3. cmMu = None /\ UNCHANGED <<state, cmMu>> /\ Alive /\ task[t].pc = "settle"
      BY <1>3, <2>3 DEF Retry, CanLockCM, Settle, InTask
    <3>4. QED
      BY <2>2, <3>1, <3>2, <3>3
  <2>4. CASE state' = "Failed" /\ UNCHANGED task
    BY <1>3, <2>2, <2>4 DEF Retry, CanLockCM, Settle, InTask, OnlyTask
  <2>5. QED
    BY <1>3, <2>3, <2>4 DEF Retry
<1>4. QED
  BY <1>2, <1>3 DEF Settle

\* A step that loses objects changes nothing else in a record.
LEMMA LoseObjectsTask ==
    ASSUME TypeOK, NEW S, NEW t \in Task, NEW r, r = LoseObjects(S, task)[t]
    PROVE  /\ r.pc = task[t].pc /\ r.done = task[t].done
           /\ r.roster = task[t].roster /\ r.promo = task[t].promo
           /\ r.lost = task[t].lost \cup (S \cap (task[t].roster \cup task[t].promo))
           /\ r.order = task[t].order /\ r.idx = task[t].idx
           /\ r.pending = task[t].pending /\ r.bad = task[t].bad
<1>1. task[t] \in TaskType
  BY DEF TypeOK
<1>2. QED
  BY <1>1 DEF LoseObjects, TaskType

\* A record whose program counter alone is set, as when a goroutine is spawned.
LEMMA SpawnTask ==
    ASSUME TypeOK, NEW g \in Task, task' = [task EXCEPT ![g].pc = "begin"]
    PROVE  /\ OnlyTask(g)
           /\ task'[g].pc = "begin" /\ task'[g].done = task[g].done
           /\ SameNodes(g) /\ SamePlan(g)
<1>1. task \in [Task -> TaskType] /\ task[g] \in TaskType
  BY DEF TypeOK
<1>2. task'[g] = [task[g] EXCEPT !.pc = "begin"] /\ OnlyTask(g)
  BY <1>1 DEF OnlyTask
<1>3. QED
  BY <1>1, <1>2 DEF TaskType, SameNodes, SamePlan

\* The failure of a node that handleNodeFailure is told of is refused, or it is
\* accepted and, if the node was active, spawns a goroutine.
LEMMA FailureTask ==
    ASSUME TypeOK, NEW c \in Notifier, HandleNodeFailure(c), NEW n, n = notifier[c].node
    PROVE  \/ UNCHANGED <<state, status, activeCtr, task>>
           \/ /\ n \in Registered
              /\ state \in {"Running", "Reconfiguring"} /\ state' = "Reconfiguring"
              /\ status' = [status EXCEPT ![n] = "failed"]
              /\ ReleaseSlots({n})
              /\ \/ status[n] # "active" /\ UNCHANGED task
                 \/ /\ status[n] = "active"
                    /\ \E g \in Goroutine :
                         /\ task[g].pc = "idle" /\ OnlyTask(g)
                         /\ task'[g].pc = "begin" /\ task'[g].done = task[g].done
                         /\ SameNodes(g) /\ SamePlan(g)
<1>1. CASE UNCHANGED <<state, status, counterVars, registryMu, task>> \/ FailureRefused
  BY <1>1 DEF FailureRefused, counterVars
<1>2. CASE n \in Registered /\ CanTransition("Reconfiguring") /\ FailureAccepted(n)
  <2>1. state \in {"Running", "Reconfiguring"}
    BY <1>2 DEF CanTransition, validTransitions, States, TypeOK
  <2>2. CASE ~Spawns(n)
    BY <1>2, <2>1, <2>2 DEF FailureAccepted, Spawns
  <2>3. CASE Spawns(n)
    <3>1. PICK g \in Goroutine : /\ task[g].pc = "idle"
                                 /\ task' = [task EXCEPT ![g].pc = "begin"]
      BY <1>2, <2>3 DEF FailureAccepted
    <3>2. g \in Task
      BY DEF Task
    <3>3. QED
      BY <1>2, <2>1, <2>3, <3>1, <3>2, SpawnTask DEF FailureAccepted, Spawns
  <2>4. QED
    BY <2>2, <2>3
<1>3. QED
  BY <1>1, <1>2 DEF HandleNodeFailure

\* What the remove request t for n leaves of the reconfiguration u.
Removal(t, n, u) ==
    /\ u = t /\ status[n] = "active" => task'[u].pc = "begin"
    /\ u # t \/ status[n] # "active" => task'[u].pc = task[u].pc
    /\ task'[u].done = task[u].done
    /\ task'[u].roster = task[u].roster /\ task'[u].promo = task[u].promo
    /\ task'[u].lost = task[u].lost \cup ({n} \cap (task[u].roster \cup task[u].promo))
    /\ SamePlan(u)

\* A remove request goes on to reconfigure only when the node was active.
LEMMA RemoveTask ==
    ASSUME TypeOK, NEW t \in ApiCall, NEW n \in Node, RemoveNode(t, n)
    PROVE  /\ task[t].pc = "idle" /\ cmMu = None /\ n \in Registered
           /\ state \in {"Running", "Reconfiguring"} /\ state' = "Reconfiguring"
           /\ ReleaseSlots({n}) /\ DeleteNodes({n})
           /\ UNCHANGED <<reg, starter, told>>
           /\ \A u \in Task : Removal(t, n, u)
<1>1. state \in {"Running", "Reconfiguring"}
  BY DEF RemoveNode, CanTransition, validTransitions, States, TypeOK
<1> DEFINE tasks == LoseObjects({n}, task)
<1>2. tasks \in [Task -> TaskType] /\ t \in Task
  BY LoseObjectsTypeOK DEF Task
<1>3. \A u \in Task :
        /\ tasks[u].pc = task[u].pc /\ tasks[u].done = task[u].done
        /\ tasks[u].roster = task[u].roster /\ tasks[u].promo = task[u].promo
        /\ tasks[u].lost = task[u].lost \cup ({n} \cap (task[u].roster \cup task[u].promo))
        /\ tasks[u].order = task[u].order /\ tasks[u].idx = task[u].idx
        /\ tasks[u].pending = task[u].pending /\ tasks[u].bad = task[u].bad
  BY LoseObjectsTask
<1>4. task' = IF status[n] = "active" THEN [tasks EXCEPT ![t].pc = "begin"] ELSE tasks
  BY DEF RemoveNode
<1> HIDE DEF tasks
<1>5. \A u \in Task : task'[u] = IF u = t /\ status[n] = "active"
                                THEN [tasks[u] EXCEPT !.pc = "begin"] ELSE tasks[u]
  BY <1>2, <1>4
<1>6. ASSUME NEW u \in Task
      PROVE  LET r == [tasks[u] EXCEPT !.pc = "begin"] IN
             /\ r.pc = "begin" /\ r.done = tasks[u].done
             /\ r.roster = tasks[u].roster /\ r.promo = tasks[u].promo
             /\ r.lost = tasks[u].lost
             /\ r.order = tasks[u].order /\ r.idx = tasks[u].idx
             /\ r.pending = tasks[u].pending /\ r.bad = tasks[u].bad
  BY <1>2 DEF TaskType
<1>7. ASSUME NEW u \in Task
      PROVE  Removal(t, n, u)
  <2>1. CASE u = t /\ status[n] = "active"
    <3>1. task'[u] = [tasks[u] EXCEPT !.pc = "begin"]
      BY <1>5, <2>1
    <3>2. /\ task'[u].pc = "begin" /\ task'[u].done = tasks[u].done
          /\ task'[u].roster = tasks[u].roster /\ task'[u].promo = tasks[u].promo
          /\ task'[u].lost = tasks[u].lost
          /\ task'[u].order = tasks[u].order /\ task'[u].idx = tasks[u].idx
          /\ task'[u].pending = tasks[u].pending /\ task'[u].bad = tasks[u].bad
      BY <1>6, <3>1
    <3>3. QED
      BY <1>3, <2>1, <3>2 DEF SamePlan, Removal
  <2>2. CASE ~(u = t /\ status[n] = "active")
    BY <1>3, <1>5, <2>2 DEF SamePlan, Removal
  <2>3. QED
    BY <2>1, <2>2
<1>8. QED
  BY <1>1, <1>7 DEF RemoveNode, handlerVars

-----------------------------------------------------------------------------
(* The slots of the active nodes *)

\* A reconfiguration owes the counters its promotions only until it counts them.
PromotionsCounted ==
    /\ IsFiniteSet(Uncounted)
    /\ \A t \in Task : task[t].pc \notin {"promote", "count"} => task[t].done = 0

\* The promotions that are not counted yet depend on done alone.
LEMMA UncountedSame ==
    ASSUME \A t \in Task : task'[t].done = task[t].done
    PROVE  Uncounted' = Uncounted
BY DEF Uncounted

\* One more promotion is one more element.
LEMMA UncountedPromotion ==
    ASSUME TypeOK, IsFiniteSet(Uncounted), NEW t \in Task, OnlyTask(t),
           task'[t].done = task[t].done + 1
    PROVE  IsFiniteSet(Uncounted') /\ Cardinality(Uncounted') = Cardinality(Uncounted) + 1
<1> DEFINE d == task[t].done
<1>1. d \in Nat
  BY DEF TypeOK, TaskType
<1>2. \A u \in Task : u # t => task'[u].done = task[u].done
  BY DEF OnlyTask
<1>3. 1 .. (d + 1) = (1 .. d) \cup {d + 1}
  BY <1>1
<1>4. Uncounted' = Uncounted \cup {<<t, d + 1>>}
  <2>1. {t} \X (1 .. task'[t].done) = ({t} \X (1 .. d)) \cup {<<t, d + 1>>}
    BY <1>3
  <2>2. \A u \in Task : u # t => {u} \X (1 .. task'[u].done) = {u} \X (1 .. task[u].done)
    BY <1>2
  <2> DEFINE before(u) == {u} \X (1 .. task[u].done)
             after(u)  == {u} \X (1 .. task'[u].done)
  <2>3. after(t) = before(t) \cup {<<t, d + 1>>} /\ \A u \in Task : u # t => after(u) = before(u)
    BY <2>1, <2>2
  <2> HIDE DEF before, after
  <2>4. (UNION {after(u) : u \in Task}) = (UNION {before(u) : u \in Task}) \cup {<<t, d + 1>>}
    BY <2>3, Zenon
  <2>5. QED
    BY <2>4 DEF Uncounted, before, after
<1>5. <<t, d + 1>> \notin Uncounted
  <2>1. SUFFICES ASSUME NEW u \in Task, <<t, d + 1>> \in {u} \X (1 .. task[u].done)
                 PROVE  FALSE
    BY DEF Uncounted
  <2>2. u = t /\ d + 1 \in 1 .. d
    BY <2>1
  <2>3. QED
    BY <1>1, <2>2
<1>6. QED
  BY <1>4, <1>5, FS_AddElement

\* d promotions are d elements.
LEMMA TokensCounted ==
    ASSUME NEW t, NEW d \in Nat
    PROVE  IsFiniteSet({t} \X (1 .. d)) /\ Cardinality({t} \X (1 .. d)) = d
<1>1. IsFiniteSet(1 .. d) /\ Cardinality(1 .. d) = d
  BY FS_Interval
<1>2. IsFiniteSet({t}) /\ Cardinality({t}) = 1
  BY FS_Singleton
<1>3. /\ IsFiniteSet({t} \X (1 .. d))
      /\ Cardinality({t} \X (1 .. d)) = Cardinality({t}) * Cardinality(1 .. d)
  BY <1>1, <1>2, FS_Product
<1>4. QED
  BY <1>1, <1>2, <1>3

\* Counting them, or having none to count, takes them all away.
LEMMA UncountedCleared ==
    ASSUME TypeOK, IsFiniteSet(Uncounted), NEW t \in Task, OnlyTask(t), task'[t].done = 0
    PROVE  /\ IsFiniteSet(Uncounted')
           /\ Cardinality(Uncounted') = Cardinality(Uncounted) - task[t].done
<1> DEFINE d    == task[t].done
           mine == {t} \X (1 .. d)
<1>1. d \in Nat
  BY DEF TypeOK, TaskType
<1>2. Uncounted' = (Uncounted \ mine)
  <2> DEFINE before(u) == {u} \X (1 .. task[u].done)
             after(u)  == {u} \X (1 .. task'[u].done)
  <2>1. after(t) = {}
    OBVIOUS
  <2>2. \A u \in Task : u # t => after(u) = before(u) /\ before(u) \cap mine = {}
    BY DEF OnlyTask
  <2>3. before(t) = mine
    OBVIOUS
  <2> HIDE DEF before, after, mine
  <2>4. (UNION {after(u) : u \in Task}) = (UNION {before(u) : u \in Task}) \ mine
    <3>1. ASSUME NEW x, x \in UNION {after(u) : u \in Task}
          PROVE  x \in (UNION {before(u) : u \in Task}) \ mine
      <4>1. PICK u \in Task : x \in after(u)
        BY <3>1
      <4>2. u # t
        BY <2>1, <4>1
      <4>3. QED
        BY <2>2, <4>1, <4>2
    <3>2. ASSUME NEW x, x \in (UNION {before(u) : u \in Task}) \ mine
          PROVE  x \in UNION {after(u) : u \in Task}
      <4>1. PICK u \in Task : x \in before(u)
        BY <3>2
      <4>2. u # t
        BY <2>3, <3>2, <4>1
      <4>3. QED
        BY <2>2, <4>1, <4>2
    <3>3. QED
      BY <3>1, <3>2
  <2>5. QED
    BY <2>4 DEF Uncounted, before, after
<1>3. IsFiniteSet(mine) /\ Cardinality(mine) = d
  BY <1>1, TokensCounted
<1>4. Uncounted \cap mine = mine
  BY DEF Uncounted
<1> HIDE DEF mine
<1>5. /\ IsFiniteSet(Uncounted \ mine)
      /\ Cardinality(Uncounted \ mine) = Cardinality(Uncounted) - Cardinality(mine)
  BY <1>4, FS_Difference
<1>6. QED
  BY <1>2, <1>3, <1>5

\* The two sets of nodes that the slots are counted for.
LEMMA SlotSetsFinite ==
    ASSUME TypeOK
    PROVE  /\ IsFiniteSet(WithStatus("active")) /\ Cardinality(WithStatus("active")) \in Nat
           /\ IsFiniteSet(Arriving) /\ Cardinality(Arriving) \in Nat
<1>1. WithStatus("active") \in SUBSET Node /\ Arriving \in SUBSET Node
  BY DEF WithStatus, Arriving
<1>2. QED
  BY <1>1, NodeSetFinite

\* Losing active nodes, or handlers on their way, does no harm.
LEMMA SlotsUndisturbed ==
    ASSUME TypeOK, PromotionsCounted, ActiveSlotsCovered,
           Cardinality(Uncounted') = Cardinality(Uncounted),
           UNCHANGED activeCtr,
           WithStatus("active")' \subseteq WithStatus("active"), Arriving' \subseteq Arriving
    PROVE  ActiveSlotsCovered'
<1>1. /\ Cardinality(WithStatus("active")') <= Cardinality(WithStatus("active"))
      /\ Cardinality(Arriving') <= Cardinality(Arriving)
      /\ Cardinality(WithStatus("active")') \in Nat /\ Cardinality(Arriving') \in Nat
  BY SlotSetsFinite, FS_Subset, FS_CardinalityType
<1>2. Cardinality(Uncounted) \in Nat
  BY FS_CardinalityType DEF PromotionsCounted
<1>3. QED
  BY <1>1, <1>2, SlotSetsFinite DEF ActiveSlotsCovered, TypeOK

\* A slot is given back for each active node that goes.
LEMMA SlotsReleased ==
    ASSUME TypeOK, PromotionsCounted, ActiveSlotsCovered,
           Cardinality(Uncounted') = Cardinality(Uncounted),
           NEW S \in SUBSET Node, ReleaseSlots(S),
           WithStatus("active")' \subseteq WithStatus("active") \ S, UNCHANGED reg
    PROVE  ActiveSlotsCovered'
<1> DEFINE A == WithStatus("active")
<1>1. IsFiniteSet(A) /\ Cardinality(A) \in Nat
  BY SlotSetsFinite
<1>2. A \cap S = S \cap A
  OBVIOUS
<1>3. /\ Cardinality(A \ S) = Cardinality(A) - Cardinality(S \cap A)
      /\ IsFiniteSet(A \ S)
  <2> HIDE DEF A
  <2>1. IsFiniteSet(A \ S) /\ Cardinality(A \ S) = Cardinality(A) - Cardinality(A \cap S)
    BY <1>1, FS_Difference
  <2>2. QED
    BY <1>2, <2>1
<1>4. Cardinality(A') <= Cardinality(A \ S) /\ Cardinality(A') \in Nat
  BY <1>3, FS_Subset, FS_CardinalityType
<1>5. Cardinality(S \cap A) \in Nat
  BY NodeSetFinite
<1>6. activeCtr' = activeCtr - Cardinality(S \cap A)
  BY DEF ReleaseSlots
<1>7. Arriving' = Arriving
  BY DEF Arriving
<1>8. Cardinality(Uncounted) \in Nat
  BY FS_CardinalityType DEF PromotionsCounted
<1>9. Cardinality(A) + Cardinality(Arriving) <= activeCtr + Cardinality(Uncounted)
  BY DEF ActiveSlotsCovered
<1>r. activeCtr \in Int
  BY DEF TypeOK
<1>s. Cardinality(Arriving) \in Nat
  BY SlotSetsFinite
<1>10. Cardinality(A') + Cardinality(Arriving) <= activeCtr' + Cardinality(Uncounted)
  <2> DEFINE a1 == Cardinality(A')  a0 == Cardinality(A)  k == Cardinality(S \cap A)
             w == Cardinality(Arriving)  u == Cardinality(Uncounted)
  <2>1. a1 \in Nat /\ a0 \in Nat /\ k \in Nat /\ w \in Nat /\ u \in Nat /\ activeCtr \in Int
    BY <1>1, <1>4, <1>5, <1>8, <1>r, <1>s
  <2>2. a1 <= a0 - k /\ a0 + w <= activeCtr + u /\ activeCtr' = activeCtr - k
    BY <1>3, <1>4, <1>6, <1>9
  <2> HIDE DEF a1, a0, k, w, u
  <2>3. a1 + w <= activeCtr' + u
    BY <2>1, <2>2
  <2>4. QED
    BY <2>3 DEF a1, w, u
<1>11. QED
  BY <1>7, <1>10 DEF ActiveSlotsCovered

\* The handlers of Register and of the start.
LEMMA RegistrationSlots ==
    ASSUME TypeOK, RegistryCoherent, PromotionsCounted, ActiveSlotsCovered, RegistrationStep
    PROVE  PromotionsCounted' /\ ActiveSlotsCovered'
<1>1. UNCHANGED task
  BY DEF RegistrationStep, RegisterAdmit, RegisterLookup, RegisterReserve, RegisterSession,
         RegisterNode, RegisterCount, SendHeartbeat, StartAcquire, StartSend, StartFinish
<1>2. Uncounted' = Uncounted
  BY <1>1, UncountedSame
<1>3. PromotionsCounted'
  BY <1>1, <1>2 DEF PromotionsCounted
<1>4. ASSUME UNCHANGED activeCtr, UNCHANGED status, Arriving' \subseteq Arriving
      PROVE  ActiveSlotsCovered'
  BY <1>2, <1>4, SlotsUndisturbed DEF WithStatus
<1>5. ASSUME NEW n \in Node, RegisterReserve(n)
      PROVE  ActiveSlotsCovered'
  <2>1. n \notin Arriving /\ WithStatus("active")' = WithStatus("active")
    BY <1>5 DEF RegisterReserve, Arriving, WithStatus, registryVars
  <2>2. CASE /\ activeCtr' = activeCtr + 1
             /\ reg' = [reg EXCEPT ![n] = [pc |-> "session", as |-> "active", rank |-> activeCtr]]
    <3>1. Arriving' = Arriving \cup {n}
      BY <2>2 DEF Arriving, TypeOK
    <3>2. Cardinality(Arriving') = Cardinality(Arriving) + 1
      BY <2>1, <3>1, SlotSetsFinite, FS_AddElement
    <3>3. Cardinality(Uncounted) \in Nat
      BY FS_CardinalityType DEF PromotionsCounted
    <3>4. QED
      BY <1>2, <2>1, <2>2, <3>2, <3>3, SlotSetsFinite DEF ActiveSlotsCovered, TypeOK
  <2>3. CASE /\ UNCHANGED activeCtr
             /\ \/ reg' = [reg EXCEPT ![n] = [pc |-> "session", as |-> "standby", rank |-> -1]]
                \/ RegDone(n)
    <3>1. Arriving' \subseteq Arriving
      BY <2>1, <2>3 DEF Arriving, TypeOK, RegDone, IdleReg
    <3>2. QED
      BY <1>5, <2>3, <3>1, <1>4 DEF RegisterReserve, registryVars
  <2>4. QED
    BY <1>5, <2>2, <2>3 DEF RegisterReserve, counterVars
<1>6. ASSUME NEW n \in Node, RegisterNode(n)
      PROVE  ActiveSlotsCovered'
  <2>1. reg[n].pc = "store" /\ n \notin Registered /\ reg[n] \in RegType
    BY <1>6 DEF RegisterNode, RegistryCoherent, TypeOK
  <2>2. UNCHANGED activeCtr
    BY <1>6 DEF RegisterNode, counterVars
  <2>3. reg' = [reg EXCEPT ![n] = [reg[n] EXCEPT !.pc = "count"]]
    BY <1>6 DEF RegisterNode, RegGoto
  <2>4. Arriving' = Arriving \ {n}
    <3>1. reg'[n].pc = "count" /\ \A m \in Node : m # n => reg'[m] = reg[m]
      BY <2>1, <2>3 DEF TypeOK, RegType
    <3>2. QED
      BY <3>1 DEF Arriving
  <2>5. status' = [status EXCEPT ![n] = reg[n].as]
    BY <1>6 DEF RegisterNode
  <2>6. CASE reg[n].as = "active"
    <3>1. n \in Arriving /\ n \notin WithStatus("active")
      BY <2>1, <2>6 DEF Arriving, WithStatus, Registered
    <3>2. WithStatus("active")' = WithStatus("active") \cup {n}
      BY <2>5, <2>6 DEF WithStatus, TypeOK
    <3>3. Cardinality(WithStatus("active")') = Cardinality(WithStatus("active")) + 1
      BY <3>1, <3>2, SlotSetsFinite, FS_AddElement
    <3>4. Cardinality(Arriving') = Cardinality(Arriving) - 1
      BY <2>4, <3>1, SlotSetsFinite, FS_RemoveElement
    <3>5. QED
      BY <1>2, <2>2, <3>3, <3>4, SlotSetsFinite DEF ActiveSlotsCovered
  <2>7. CASE reg[n].as = "standby"
    <3>1. WithStatus("active")' \subseteq WithStatus("active")
      BY <2>5, <2>7 DEF WithStatus, TypeOK
    <3>2. QED
      BY <1>2, <2>2, <2>4, <3>1, SlotsUndisturbed
  <2>8. QED
    BY <2>1, <2>6, <2>7 DEF RegType
<1>7. ASSUME NEW n \in Node,
             RegisterAdmit(n) \/ RegisterSession(n) \/ RegisterCount(n) \/ RegisterLookup(n)
      PROVE  ActiveSlotsCovered'
  <2>1. Arriving' \subseteq Arriving
    <3>1. reg[n] \in RegType
      BY DEF TypeOK
    <3>2. ASSUME NEW pc, RegGoto(n, pc)
          PROVE  /\ reg'[n].pc = pc /\ reg'[n].as = reg[n].as
                 /\ \A m \in Node : m # n => reg'[m] = reg[m]
      BY <3>1, <3>2 DEF RegGoto, RegType, TypeOK
    <3>3. ASSUME RegDone(n)
          PROVE  reg'[n].pc = "idle" /\ \A m \in Node : m # n => reg'[m] = reg[m]
      BY <3>3 DEF RegDone, IdleReg, TypeOK
    <3>4. CASE RegGoto(n, "admitted") \/ RegGoto(n, "reserve")
      BY <3>2, <3>4 DEF Arriving
    <3>5. CASE reg[n].pc = "session" /\ RegGoto(n, "store")
      BY <3>2, <3>5 DEF Arriving
    <3>6. CASE RegDone(n)
      BY <3>3, <3>6 DEF Arriving
    <3>7. QED
      BY <1>7, <3>4, <3>5, <3>6
      DEF RegisterAdmit, RegisterSession, RegisterCount, RegisterLookup, Reconnect
  <2>2. UNCHANGED <<activeCtr, status>>
    BY <1>7 DEF RegisterAdmit, RegisterSession, RegisterCount, RegisterLookup,
                registryVars, counterVars
  <2>3. QED
    BY <1>4, <2>1, <2>2
<1>8. ASSUME NEW n \in Node,
             \/ SendHeartbeat(n) \/ StartAcquire(n) \/ StartFinish(n)
             \/ \E m \in Node : StartSend(n, m)
      PROVE  ActiveSlotsCovered'
  <2>1. UNCHANGED <<activeCtr, status, reg>>
    BY <1>8 DEF SendHeartbeat, StartAcquire, StartFinish, StartSend,
                registryVars, counterVars, handlerVars
  <2>2. QED
    BY <1>4, <2>1 DEF Arriving
<1>9. QED
  BY <1>3, <1>5, <1>6, <1>7, <1>8 DEF RegistrationStep

\* Failures, timeouts and cleanups.
LEMMA FailureSlots ==
    ASSUME TypeOK, PromotionsCounted, ActiveSlotsCovered, FailureStep
    PROVE  PromotionsCounted' /\ ActiveSlotsCovered'
<1>1. ASSUME \A t \in Task : /\ task'[t].done = task[t].done
                             /\ task'[t].pc \in {"promote", "count"} <=>
                                  task[t].pc \in {"promote", "count"}
      PROVE  PromotionsCounted' /\ Uncounted' = Uncounted
  BY <1>1, UncountedSame DEF PromotionsCounted
<1>2. UNCHANGED reg
  BY FailureKeepsHandlers
<1>3. Arriving' = Arriving
  BY <1>2 DEF Arriving
<1>4. ASSUME NEW c \in Notifier, HandleNodeFailure(c)
      PROVE  PromotionsCounted' /\ ActiveSlotsCovered'
  <2> DEFINE n == notifier[c].node
  <2>1. CASE UNCHANGED <<state, status, activeCtr, task>>
    BY <1>1, <1>3, <2>1, SlotsUndisturbed DEF WithStatus
  <2>2. CASE /\ n \in Registered
             /\ status' = [status EXCEPT ![n] = "failed"]
             /\ ReleaseSlots({n})
             /\ \/ UNCHANGED task
                \/ \E g \in Goroutine :
                     /\ task[g].pc = "idle" /\ OnlyTask(g)
                     /\ task'[g].pc = "begin" /\ task'[g].done = task[g].done
    <3>1. \A t \in Task : /\ task'[t].done = task[t].done
                          /\ task'[t].pc \in {"promote", "count"} <=>
                               task[t].pc \in {"promote", "count"}
      BY <2>2 DEF OnlyTask
    <3>2. WithStatus("active")' \subseteq WithStatus("active") \ {n} /\ {n} \in SUBSET Node
      BY <2>2 DEF WithStatus, Registered, TypeOK
    <3>3. QED
      BY <1>1, <1>2, <2>2, <3>1, <3>2, SlotsReleased
  <2>3. QED
    BY <1>4, <2>1, <2>2, FailureTask
<1>5. CASE CleanupDeadConnections
  <2> DEFINE dead == {n \in Node : health[n] = "dead"}
  <2>1. /\ dead \in SUBSET Node
        /\ ReleaseSlots(dead) /\ DeleteNodes(dead) /\ task' = LoseObjects(dead, task)
    BY <1>5 DEF CleanupDeadConnections
  <2> HIDE DEF dead
  <2>2. \A t \in Task : task'[t].done = task[t].done /\ task'[t].pc = task[t].pc
    BY <2>1, LoseObjectsTask
  <2>3. WithStatus("active")' \subseteq WithStatus("active") \ dead
    BY <2>1 DEF DeleteNodes, WithStatus
  <2>4. QED
    BY <1>1, <1>2, <2>1, <2>2, <2>3, SlotsReleased
<1>6. ASSUME FailureStep, ~CleanupDeadConnections, \A c \in Notifier : ~HandleNodeFailure(c)
      PROVE  PromotionsCounted' /\ ActiveSlotsCovered'
  <2>1. UNCHANGED <<task, activeCtr>> /\ (UNCHANGED status \/ HealthTimeout)
    BY <1>6 DEF FailureStep, Age, NotifySeen, NotifyMark, HealthScan, HealthTimeout,
                CleanupSessions, registryVars, counterVars
  <2>2. WithStatus("active")' \subseteq WithStatus("active")
    BY <2>1 DEF HealthTimeout, StatusAfterTimeout, WithStatus, TypeOK
  <2>3. QED
    BY <1>1, <1>3, <2>1, <2>2, SlotsUndisturbed
<1>7. QED
  BY <1>4, <1>5, <1>6 DEF FailureStep

\* Reconfigurations and removals.
LEMMA ReconfigurationSlots ==
    ASSUME TypeOK, PromotionsCounted, ActiveSlotsCovered, ReconfigurationStep
    PROVE  PromotionsCounted' /\ ActiveSlotsCovered'
<1>1. UNCHANGED reg
  BY ReconfigurationKeepsHandlers
<1>2. Arriving' = Arriving
  BY <1>1 DEF Arriving
<1>3. Cardinality(Uncounted) \in Nat
  BY FS_CardinalityType DEF PromotionsCounted
<1>4. ASSUME NEW t \in Task, NEW n \in Node, Promote(t, n)
      PROVE  PromotionsCounted' /\ ActiveSlotsCovered'
  <2>1. /\ OnlyTask(t)
        /\ task'[t].pc \in {"promote", "count"}
        /\ task'[t].done = task[t].done + 1
    BY <1>4, PromoteTask
  <2>2. IsFiniteSet(Uncounted') /\ Cardinality(Uncounted') = Cardinality(Uncounted) + 1
    BY <2>1, UncountedPromotion DEF PromotionsCounted
  <2>3. PromotionsCounted'
    BY <2>1, <2>2 DEF PromotionsCounted, OnlyTask
  <2>4. WithStatus("active")' \subseteq WithStatus("active") \cup {n}
    BY <1>4 DEF Promote, WithStatus, TypeOK
  <2>5. Cardinality(WithStatus("active")') <= Cardinality(WithStatus("active")) + 1
    <3>1. /\ IsFiniteSet(WithStatus("active") \cup {n})
          /\ Cardinality(WithStatus("active") \cup {n}) <= Cardinality(WithStatus("active")) + 1
      BY SlotSetsFinite, FS_AddElement, SMTT(30)
    <3>2. /\ Cardinality(WithStatus("active")') <= Cardinality(WithStatus("active") \cup {n})
          /\ Cardinality(WithStatus("active")') \in Nat
          /\ Cardinality(WithStatus("active") \cup {n}) \in Nat
      <4>1. IsFiniteSet(WithStatus("active")') /\ Cardinality(WithStatus("active")') <= Cardinality(WithStatus("active") \cup {n})
        BY <2>4, <3>1, FS_Subset
      <4>2. QED
        BY <3>1, <4>1, FS_CardinalityType
    <3>3. QED
      BY <3>1, <3>2, SlotSetsFinite
  <2>6. UNCHANGED activeCtr
    BY <1>4 DEF Promote, counterVars
  <2>7. Cardinality(WithStatus("active")') \in Nat
    BY <2>4, SlotSetsFinite, FS_AddElement, FS_Subset, FS_CardinalityType
  <2>8. QED
    BY <1>2, <1>3, <2>2, <2>3, <2>5, <2>6, <2>7, SlotSetsFinite DEF ActiveSlotsCovered, TypeOK
<1>5. ASSUME NEW t \in Task, Count(t)
      PROVE  PromotionsCounted' /\ ActiveSlotsCovered'
  <2>1. OnlyTask(t) /\ task'[t].done = 0
    BY <1>5, CountTask
  <2>2. /\ IsFiniteSet(Uncounted')
        /\ Cardinality(Uncounted') = Cardinality(Uncounted) - task[t].done
    BY <2>1, UncountedCleared DEF PromotionsCounted
  <2>3. PromotionsCounted'
    BY <2>1, <2>2 DEF PromotionsCounted, OnlyTask
  <2>4. activeCtr' = activeCtr + task[t].done /\ WithStatus("active")' = WithStatus("active")
    BY <1>5 DEF Count, WithStatus, registryVars
  <2>5. task[t].done \in Nat
    BY DEF TypeOK, TaskType
  <2>6. QED
    BY <1>2, <1>3, <2>2, <2>3, <2>4, <2>5, SlotSetsFinite DEF ActiveSlotsCovered, TypeOK
<1>6. ASSUME NEW t \in Task, OnlyTask(t), task'[t].done = 0, task[t].done = 0
      PROVE  PromotionsCounted' /\ Uncounted' = Uncounted
  <2>1. \A u \in Task : task'[u].done = task[u].done
    BY <1>6 DEF OnlyTask
  <2>2. QED
    BY <1>6, <2>1, UncountedSame DEF PromotionsCounted, OnlyTask
<1>7. ASSUME NEW t \in Task,
             \/ Begin(t) \/ Collect(t) \/ Sort(t) \/ AssignRank(t) \/ Settle(t)
             \/ \E n \in Node : NotifyNode(t, n)
      PROVE  PromotionsCounted' /\ ActiveSlotsCovered'
  <2>1. OnlyTask(t) /\ task[t].pc \notin {"promote", "count"}
    BY <1>7, BeginTask, CollectTask, SortTask, AssignTask, SettleTask, NotifyTask
  <2>2. task[t].done = 0
    BY <2>1 DEF PromotionsCounted
  <2>3. task'[t].done = 0
    <3>1. task'[t].done = task[t].done \/ BlankPlan(t) \/ Collect(t)
      BY <1>7, BeginTask, SortTask, AssignTask, SettleTask, NotifyTask
    <3>2. QED
      BY <2>2, <3>1, CollectTask DEF BlankPlan
  <2>4. UNCHANGED <<status, activeCtr>>
    BY <1>7, SettleTask
    DEF Begin, Collect, Sort, AssignRank, NotifyNode, registryVars, counterVars
  <2>5. QED
    BY <1>2, <1>6, <2>1, <2>2, <2>3, <2>4, SlotsUndisturbed DEF WithStatus
<1>8. ASSUME NEW t \in ApiCall, NEW n \in Node, RemoveNode(t, n)
      PROVE  PromotionsCounted' /\ ActiveSlotsCovered'
  <2>1. /\ task[t].pc = "idle" /\ ReleaseSlots({n}) /\ DeleteNodes({n})
        /\ \A u \in Task : Removal(t, n, u)
    BY <1>8, RemoveTask
  <2>2. \A u \in Task : /\ task'[u].done = task[u].done
                        /\ task'[u].pc \in {"promote", "count"} <=>
                             task[u].pc \in {"promote", "count"}
    BY <2>1 DEF Removal
  <2>3. Uncounted' = Uncounted /\ PromotionsCounted'
    BY <2>2, UncountedSame DEF PromotionsCounted
  <2>4. WithStatus("active")' \subseteq WithStatus("active") \ {n}
    BY <2>1 DEF DeleteNodes, WithStatus
  <2>5. QED
    BY <1>1, <2>1, <2>3, <2>4, SlotsReleased
<1>9. QED
  BY <1>4, <1>5, <1>7, <1>8 DEF ReconfigurationStep

\* The empty registry has all its slots.
LEMMA InitSlots == Init => PromotionsCounted /\ ActiveSlotsCovered
<1>1. SUFFICES ASSUME Init
               PROVE  PromotionsCounted /\ ActiveSlotsCovered
  OBVIOUS
<1>2. \A t \in Task : task[t].done = 0
  BY <1>1 DEF Init, IdleTask
<1>3. Uncounted = {}
  BY <1>2 DEF Uncounted
<1>4. WithStatus("active") = {} /\ Arriving = {}
  BY <1>1 DEF Init, WithStatus, Arriving, IdleReg
<1>5. QED
  BY <1>1, <1>2, <1>3, <1>4, FS_EmptySet DEF Init, PromotionsCounted, ActiveSlotsCovered

\* A step that changes no variable changes no slot.
LEMMA StutterSlots ==
    ASSUME PromotionsCounted, ActiveSlotsCovered, UNCHANGED vars
    PROVE  PromotionsCounted' /\ ActiveSlotsCovered'
<1>1. Uncounted' = Uncounted /\ WithStatus("active")' = WithStatus("active")
      /\ Arriving' = Arriving /\ UNCHANGED <<task, activeCtr>>
  BY DEF vars, registryVars, counterVars, handlerVars, Uncounted, WithStatus, Arriving
<1>2. QED
  BY <1>1 DEF PromotionsCounted, ActiveSlotsCovered

\* The server's state, as far as its registry and its slots go.
SlotInv ==
    /\ TypeInv
    /\ RegistryCoherent
    /\ PromotionsCounted
    /\ ActiveSlotsCovered

LEMMA SlotInvInductive == Spec => []SlotInv
<1>1. Init => PromotionsCounted /\ ActiveSlotsCovered
  BY InitSlots
<1>2. ASSUME TypeInv, RegistryCoherent, PromotionsCounted, ActiveSlotsCovered, [Next]_vars
      PROVE  PromotionsCounted' /\ ActiveSlotsCovered'
  BY <1>2, RegistrationSlots, FailureSlots, ReconfigurationSlots, StutterSlots
  DEF Next, TypeInv
<1>3. QED
  BY <1>1, <1>2, TypeInvInductive, RegistryStaysCoherent, PTL DEF Spec, SlotInv

\* The counter of active nodes, together with the promotions that are still to
\* be counted, never falls behind the registry and the handlers on their way to
\* it: Register, which admits by the counter alone, never admits an active node
\* for which the configuration has no slot, whatever fails, is removed, times
\* out or is promoted meanwhile.
THEOREM SlotsStayCovered == Spec => []ActiveSlotsCovered
<1>1. SlotInv => ActiveSlotsCovered
  BY DEF SlotInv
<1>2. QED
  BY <1>1, SlotInvInductive, PTL

-----------------------------------------------------------------------------
(* The start of the program *)

\* Before the start, Register reserves no slot too many.
NoSlotTooMany == state = "Initializing" => activeCtr <= ActiveNodes

\* Strengthens the list of a handler that starts the program: it lists nobody
\* twice, so that the rank it sends is the node's place.
StartersListOnce ==
    \A n \in Node : starter[n].pc = "starting" =>
        \A i, j \in DOMAIN starter[n].order :
            starter[n].order[i] = starter[n].order[j] => i = j

StartInv ==
    /\ NoReconfigurationBeforeStart
    /\ NoSlotTooMany
    /\ StartBarrier
    /\ StartersListOnce

\* While no task runs, every promotion has been counted.
LEMMA IdleCounted ==
    ASSUME PromotionsCounted, \A t \in Task : task[t].pc = "idle"
    PROVE  Cardinality(Uncounted) = 0
<1>1. \A t \in Task : task[t].done = 0
  BY DEF PromotionsCounted
<1>2. Uncounted = {}
  BY <1>1 DEF Uncounted
<1>3. QED
  BY <1>2, FS_EmptySet

\* Whoever takes cm.mu to start the program finds exactly ActiveNodes active
\* nodes: enough, because it counts them, and no more, because of the slots.
LEMMA StartsCompleteWorld ==
    ASSUME SlotInv, StartInv, NEW n \in Node, StartAcquire(n), Accepting, ~NothingToStart
    PROVE  state = "Initializing" /\ Cardinality(WithStatus("active")) = ActiveNodes
<1>1. TypeOK /\ PromotionsCounted /\ ActiveSlotsCovered
  BY DEF SlotInv, TypeInv
<1>2. state = "Initializing"
  BY <1>1 DEF Accepting, NothingToStart
<1>3. \A t \in Task : task[t].pc = "idle"
  BY <1>2 DEF StartInv, NoReconfigurationBeforeStart
<1>4. Cardinality(Uncounted) = 0
  BY <1>1, <1>3, IdleCounted
<1>5. Cardinality(WithStatus("active")) \in Nat /\ Cardinality(Arriving) \in Nat
  BY <1>1, SlotSetsFinite
<1>6. Cardinality(WithStatus("active")) <= activeCtr /\ activeCtr <= ActiveNodes
  BY <1>1, <1>2, <1>4, <1>5 DEF ActiveSlotsCovered, StartInv, NoSlotTooMany, TypeOK
<1>7. ~(Cardinality(WithStatus("active")) < ActiveNodes)
  BY DEF NothingToStart
<1>8. activeCtr \in Int /\ ActiveNodes \in Int
  BY <1>1, SizeAssumption DEF TypeOK
<1>9. QED
  BY <1>2, <1>5, <1>6, <1>7, <1>8

\* Steps that leave the starting handlers alone.
LEMMA StartUndisturbed ==
    ASSUME TypeOK, StartBarrier, StartersListOnce,
           \A n \in Node : starter'[n].pc = "starting" => starter'[n] = starter[n],
           \/ UNCHANGED <<state, cmMu>>
           \/ \A n \in Node : starter[n].pc # "starting"
    PROVE  StartBarrier' /\ StartersListOnce'
BY DEF StartBarrier, StartersListOnce

\* The lists that StartAcquire makes.
LEMMA AcquireStarts ==
    ASSUME SlotInv, StartInv, NEW n \in Node, StartAcquire(n)
    PROVE  StartBarrier' /\ StartersListOnce'
<1>1. TypeOK /\ StartBarrier /\ StartersListOnce
  BY DEF SlotInv, TypeInv, StartInv
<1>2. CASE ~Accepting \/ NothingToStart
  <2>1. starter' = [starter EXCEPT ![n] = IdleStarter] /\ UNCHANGED <<state, cmMu>>
    BY <1>2 DEF StartAcquire
  <2>2. \A m \in Node : starter'[m].pc = "starting" => starter'[m] = starter[m]
    BY <1>1, <2>1 DEF TypeOK, IdleStarter
  <2>3. QED
    BY <1>1, <2>1, <2>2, StartUndisturbed
<1>3. CASE Accepting /\ ~NothingToStart
  <2>1. state = "Initializing" /\ Cardinality(WithStatus("active")) = ActiveNodes
    BY <1>3, StartsCompleteWorld
  <2>2. PICK order \in StartOrders :
          /\ cmMu' = n
          /\ starter' = [starter EXCEPT ![n] =
                           [pc |-> "starting", order |-> order,
                            pending |-> WithStatus("active"), bad |-> {}]]
    BY <1>3 DEF StartAcquire
  <2>3. /\ starter'[n].pc = "starting" /\ starter'[n].order = order
        /\ \A m \in Node : m # n => starter'[m] = starter[m]
    BY <1>1, <2>2 DEF TypeOK
  <2>4. WithStatus("active") \in SUBSET Node
    BY DEF WithStatus
  <2>5. Len(order) = ActiveNodes
    BY <2>1, <2>4, EnumerationIsSeq DEF StartOrders
  <2>6. \A i, j \in DOMAIN order : order[i] = order[j] => i = j
    BY DEF StartOrders, Bijection, Injection, IsInjective
  <2>7. \A m \in Node : m # n => starter[m].pc # "starting"
    BY <1>1, NodeAssumption DEF StartAcquire, StartBarrier
  <2>8. UNCHANGED state
    BY DEF StartAcquire
  <2>9. QED
    BY <2>1, <2>2, <2>3, <2>5, <2>6, <2>7, <2>8 DEF StartBarrier, StartersListOnce
<1>4. QED
  BY <1>2, <1>3

\* The other steps of a handler.
LEMMA RegistrationStarts ==
    ASSUME SlotInv, StartInv, RegistrationStep
    PROVE  StartBarrier' /\ StartersListOnce' /\ NoSlotTooMany'
<1>1. TypeOK /\ StartBarrier /\ StartersListOnce /\ NoSlotTooMany
  BY DEF SlotInv, TypeInv, StartInv
<1>2. ASSUME NEW n \in Node, \E m \in Node : StartSend(n, m)
      PROVE  StartBarrier' /\ StartersListOnce'
  <2>1. PICK m \in Node : StartSend(n, m)
    BY <1>2
  <2>2. starter[n] \in StarterType
    BY <1>1 DEF TypeOK
  <2>3. PICK error \in BOOLEAN :
          starter' = [starter EXCEPT ![n].pending = @ \ {m},
                                     ![n].bad = IF error THEN @ \cup {m} ELSE @]
    BY <2>1 DEF StartSend
  <2>4. /\ starter'[n].pc = starter[n].pc /\ starter'[n].order = starter[n].order
        /\ \A k \in Node : k # n => starter'[k] = starter[k]
    BY <1>1, <2>2, <2>3 DEF TypeOK, StarterType
  <2>5. UNCHANGED <<state, cmMu>>
    BY <2>1 DEF StartSend
  <2>6. QED
    BY <1>1, <2>4, <2>5 DEF StartBarrier, StartersListOnce
<1>3. ASSUME NEW n \in Node, StartFinish(n)
      PROVE  StartBarrier' /\ StartersListOnce'
  <2>1. starter[n].pc = "starting" /\ starter' = [starter EXCEPT ![n] = IdleStarter]
    BY <1>3 DEF StartFinish
  <2>2. \A m \in Node : m # n => starter[m].pc # "starting"
    BY <1>1, <2>1 DEF StartBarrier
  <2>3. \A m \in Node : starter'[m].pc # "starting"
    BY <1>1, <2>1, <2>2 DEF TypeOK, IdleStarter
  <2>4. QED
    BY <2>3 DEF StartBarrier, StartersListOnce
<1>4. ASSUME NEW n \in Node,
             \/ RegisterAdmit(n) \/ RegisterLookup(n) \/ RegisterReserve(n)
             \/ RegisterSession(n) \/ RegisterNode(n) \/ RegisterCount(n) \/ SendHeartbeat(n)
      PROVE  StartBarrier' /\ StartersListOnce'
  <2>1. UNCHANGED <<state, cmMu>>
    BY <1>4 DEF RegisterAdmit, RegisterLookup, RegisterReserve, RegisterSession,
                RegisterNode, RegisterCount, SendHeartbeat
  <2>2. \A m \in Node : starter'[m].pc = "starting" => starter'[m] = starter[m]
    <3>1. CASE UNCHANGED starter
      BY <3>1
    <3>2. CASE RegisterCount(n) /\ starter' = [starter EXCEPT ![n].pc = "waiting"]
      <4>1. starter[n] \in StarterType
        BY <1>1 DEF TypeOK
      <4>2. starter'[n].pc = "waiting" /\ \A m \in Node : m # n => starter'[m] = starter[m]
        BY <1>1, <3>2, <4>1 DEF TypeOK, StarterType
      <4>3. QED
        BY <4>2
    <3>3. QED
      BY <1>4, <3>1, <3>2
      DEF RegisterAdmit, RegisterLookup, RegisterReserve, RegisterSession,
          RegisterNode, RegisterCount, SendHeartbeat, handlerVars
  <2>3. QED
    BY <1>1, <2>1, <2>2, StartUndisturbed
<1>5. StartBarrier' /\ StartersListOnce'
  BY <1>2, <1>3, <1>4, AcquireStarts DEF RegistrationStep
<1>6. NoSlotTooMany'
  <2>1. state' = "Initializing" => state = "Initializing"
    BY DEF RegistrationStep, RegisterAdmit, RegisterLookup, RegisterReserve, RegisterSession,
           RegisterNode, RegisterCount, SendHeartbeat, StartAcquire, StartSend, StartFinish
  <2>2. ASSUME NEW n \in Node, RegisterReserve(n)
        PROVE  activeCtr' = activeCtr \/ activeCtr' <= ActiveNodes
    BY <1>1, <2>2, SizeAssumption DEF RegisterReserve, ActiveSlotFree, TypeOK, counterVars
  <2>3. activeCtr' = activeCtr \/ activeCtr' <= ActiveNodes
    BY <2>2 DEF RegistrationStep, RegisterAdmit, RegisterLookup, RegisterSession,
           RegisterNode, RegisterCount, SendHeartbeat, StartAcquire, StartSend, StartFinish,
           counterVars
  <2>4. QED
    BY <1>1, <2>1, <2>3 DEF NoSlotTooMany
<1>7. QED
  BY <1>5, <1>6

\* No failure is handled, and nothing is removed, during the start, except that
\* dead connections may give slots back.
LEMMA FailureStarts ==
    ASSUME SlotInv, StartInv, FailureStep
    PROVE  StartBarrier' /\ StartersListOnce' /\ NoSlotTooMany'
<1>1. TypeOK /\ StartBarrier /\ StartersListOnce /\ NoSlotTooMany
  BY DEF SlotInv, TypeInv, StartInv
<1>2. UNCHANGED <<starter, cmMu>>
  BY FailureKeepsHandlers
<1>3. ASSUME NEW c \in Notifier, HandleNodeFailure(c)
      PROVE  StartBarrier' /\ StartersListOnce' /\ NoSlotTooMany'
  <2>1. CASE UNCHANGED <<state, status, activeCtr, task>>
    BY <1>1, <1>2, <2>1, StartUndisturbed DEF NoSlotTooMany
  <2>2. CASE state \in {"Running", "Reconfiguring"} /\ state' = "Reconfiguring"
    BY <1>1, <1>2, <2>2, StartUndisturbed DEF NoSlotTooMany, StartBarrier
  <2>3. QED
    BY <1>1, <1>3, <2>1, <2>2, FailureTask
<1>4. CASE CleanupDeadConnections
  <2> DEFINE dead == {n \in Node : health[n] = "dead"}
  <2>1. ReleaseSlots(dead) /\ dead \in SUBSET Node /\ UNCHANGED state
    BY <1>4 DEF CleanupDeadConnections
  <2> HIDE DEF dead
  <2>2. Cardinality(dead \cap WithStatus("active")) \in Nat
    BY <2>1, NodeSetFinite
  <2>3. activeCtr' <= activeCtr /\ activeCtr' \in Int
    BY <1>1, <2>1, <2>2 DEF ReleaseSlots, TypeOK
  <2>4. NoSlotTooMany'
    BY <1>1, <2>1, <2>3, SizeAssumption DEF NoSlotTooMany, TypeOK
  <2>5. QED
    BY <1>1, <1>2, <2>1, <2>4, StartUndisturbed
<1>5. ASSUME ~CleanupDeadConnections, \A c \in Notifier : ~HandleNodeFailure(c)
      PROVE  StartBarrier' /\ StartersListOnce' /\ NoSlotTooMany'
  <2>1. UNCHANGED <<state, activeCtr>>
    BY <1>5 DEF FailureStep, Age, NotifySeen, NotifyMark, HealthScan, HealthTimeout,
                CleanupSessions, counterVars
  <2>2. QED
    BY <1>1, <1>2, <2>1, StartUndisturbed DEF NoSlotTooMany
<1>6. QED
  BY <1>3, <1>4, <1>5

\* Nothing is reconfigured during the start.
LEMMA ReconfigurationStarts ==
    ASSUME SlotInv, StartInv, ReconfigurationStep
    PROVE  StartBarrier' /\ StartersListOnce' /\ NoSlotTooMany'
<1>1. TypeOK /\ StartBarrier /\ StartersListOnce /\ NoReconfigurationBeforeStart
  BY DEF SlotInv, TypeInv, StartInv
<1>2. UNCHANGED starter
  BY ReconfigurationKeepsHandlers
<1>3. state # "Initializing" /\ state' # "Initializing"
  <2>1. ASSUME NEW t \in ApiCall, NEW n \in Node, RemoveNode(t, n)
        PROVE  state # "Initializing" /\ state' # "Initializing"
    BY <1>1, <2>1, RemoveTask
  <2>2. ASSUME NEW t \in Task, Reconfigure(t)
        PROVE  state # "Initializing" /\ state' # "Initializing"
    <3>1. task[t].pc # "idle"
      BY <2>2 DEF Reconfigure, Begin, Collect, Promote, Count, Sort, AssignRank, NotifyNode,
                  Settle, InTask
    <3>2. state # "Initializing"
      BY <1>1, <3>1 DEF NoReconfigurationBeforeStart
    <3>3. QED
      BY <2>2, <3>2 DEF Reconfigure, Begin, Collect, Promote, Count, Sort, AssignRank,
                        NotifyNode, Settle, Succeed, Resumed, Retry
  <2>3. QED
    BY <2>1, <2>2 DEF ReconfigurationStep, Reconfigure
<1>4. \A n \in Node : starter[n].pc # "starting"
  BY <1>1, <1>3 DEF StartBarrier
<1>5. QED
  BY <1>1, <1>2, <1>3, <1>4, StartUndisturbed DEF NoSlotTooMany

\* Reconfigurations follow the start, and never meet a leaked lock.
LEMMA LeakFreeInductive == Spec => [](NoReconfigurationBeforeStart /\ NoReconfigurationUnderLeak)
<1>1. Init => NoReconfigurationBeforeStart /\ NoReconfigurationUnderLeak
  BY InitLeakFree
<1>2. TypeInv /\ NoReconfigurationBeforeStart /\ NoReconfigurationUnderLeak /\ [Next]_vars
        => NoReconfigurationBeforeStart' /\ NoReconfigurationUnderLeak'
  BY NextLeakFree DEF TypeInv
<1>3. QED
  BY <1>1, <1>2, TypeInvInductive, PTL DEF Spec

LEMMA StartInvInductive == Spec => []StartInv
<1>1. Init => NoSlotTooMany /\ StartBarrier /\ StartersListOnce
  BY SizeAssumption
  DEF Init, NoSlotTooMany, StartBarrier, StartersListOnce, IdleStarter
<1>2. ASSUME SlotInv, NoReconfigurationBeforeStart, NoSlotTooMany, StartBarrier,
             StartersListOnce, [Next]_vars
      PROVE  NoSlotTooMany' /\ StartBarrier' /\ StartersListOnce'
  <2>1. StartInv
    BY <1>2 DEF StartInv
  <2>2. CASE UNCHANGED vars
    BY <1>2, <2>2 DEF vars, handlerVars, counterVars, NoSlotTooMany, StartBarrier, StartersListOnce
  <2>3. QED
    BY <1>2, <2>1, <2>2, RegistrationStarts, FailureStarts, ReconfigurationStarts DEF Next
<1>3. QED
  BY <1>1, <1>2, SlotInvInductive, LeakFreeInductive, PTL DEF Spec, StartInv

\* The program is started by one handler at a time, before the server ever
\* runs, and with a list of exactly ActiveNodes nodes, whose length is the
\* WORLD_SIZE of the start command, however registrations, failures, timeouts
\* and cleanups interleave before it.
THEOREM StartIsComplete == Spec => []StartBarrier
<1>1. StartInv => StartBarrier
  BY DEF StartInv
<1>2. QED
  BY <1>1, StartInvInductive, PTL

-----------------------------------------------------------------------------
(* cm.mu *)

\* A reconfiguration gives cm.mu up exactly when it ends.
LEMMA ReconfigureLock ==
    ASSUME TypeOK, NEW t \in Task, Reconfigure(t)
    PROVE  /\ OnlyTask(t) /\ task[t].pc # "idle"
           /\ \/ task'[t].pc = "idle" /\ UnlockCM(t)
              \/ task'[t].pc # "idle" /\ UNCHANGED cmMu
<1>1. CASE Begin(t)
  <2>1. CASE state = "Initializing"
    <3>1. ~(state = "Reconfiguring" \/ CanTransition("Reconfiguring"))
      BY <2>1 DEF CanTransition, validTransitions, States
    <3>2. UnlockCM(t)
      BY <1>1, <3>1 DEF Begin
    <3>3. QED
      BY <1>1, <2>1, <3>2, BeginTask
  <2>2. CASE state # "Initializing"
    BY <1>1, <2>2, BeginTask
  <2>3. QED
    BY <2>1, <2>2
<1>2. CASE Settle(t)
  <2>1. CASE task[t].bad = {}
    <3>1. UnlockCM(t)
      BY <1>2, <2>1 DEF Settle, Succeed, Retry
    <3>2. task'[t].pc = "idle"
      <4>1. task' = [task EXCEPT ![t] = IdleTask]
        BY <1>2, <2>1 DEF Settle, Succeed, Retry
      <4>2. QED
        BY <4>1 DEF TypeOK, IdleTask
    <3>3. QED
      BY <1>2, <3>1, <3>2, SettleTask
  <2>2. CASE task[t].bad # {}
    BY <1>2, <2>2, SettleTask
  <2>3. QED
    BY <2>1, <2>2
<1>3. CASE Collect(t)
  BY <1>3, CollectTask DEF Collect
<1>4. CASE Count(t)
  BY <1>4, CountTask DEF Count
<1>5. CASE Sort(t)
  BY <1>5, SortTask DEF Sort
<1>6. CASE AssignRank(t)
  BY <1>6, AssignTask DEF AssignRank
<1>7. ASSUME NEW n \in Node, Promote(t, n)
      PROVE  OnlyTask(t) /\ task[t].pc # "idle" /\ task'[t].pc # "idle" /\ UNCHANGED cmMu
  BY <1>7, PromoteTask DEF Promote
<1>8. ASSUME NEW n \in Node, NotifyNode(t, n)
      PROVE  OnlyTask(t) /\ task[t].pc # "idle" /\ task'[t].pc # "idle" /\ UNCHANGED cmMu
  <2>1. UNCHANGED cmMu
    BY <1>8 DEF NotifyNode
  <2>2. QED
    BY <1>8, <2>1, NotifyTask
<1>9. QED
  BY <1>1, <1>2, <1>3, <1>4, <1>5, <1>6, <1>7, <1>8 DEF Reconfigure

\* A handler takes cm.mu when it starts the program and gives it up after.
LEMMA RegistrationLock ==
    ASSUME TypeOK, StartBarrier, RegistrationStep
    PROVE  /\ UNCHANGED task
           /\ \/ cmMu = None /\ cmMu' \in Node /\ starter'[cmMu'].pc = "starting"
              \/ cmMu \in Node /\ cmMu' = None
              \/ /\ UNCHANGED cmMu
                 /\ \A n \in Node : starter[n].pc = "starting" => starter'[n].pc = "starting"
<1>1. starter \in [Node -> StarterType]
  BY DEF TypeOK
<1>2. ASSUME NEW n \in Node, StartAcquire(n)
      PROVE  \/ cmMu = None /\ cmMu' \in Node /\ starter'[cmMu'].pc = "starting"
             \/ /\ UNCHANGED cmMu
                /\ \A m \in Node : starter[m].pc = "starting" => starter'[m].pc = "starting"
  <2>1. cmMu = None /\ starter[n].pc = "waiting"
    BY <1>2 DEF StartAcquire
  <2>2. CASE ~Accepting \/ NothingToStart
    BY <1>1, <1>2, <2>1, <2>2 DEF StartAcquire
  <2>3. CASE Accepting /\ ~NothingToStart
    <3>1. PICK order \in StartOrders :
            /\ cmMu' = n
            /\ starter' = [starter EXCEPT ![n] =
                             [pc |-> "starting", order |-> order,
                              pending |-> WithStatus("active"), bad |-> {}]]
      BY <1>2, <2>3 DEF StartAcquire
    <3>2. starter'[n].pc = "starting"
      BY <1>1, <3>1
    <3>3. QED
      BY <2>1, <3>1, <3>2
  <2>4. QED
    BY <2>2, <2>3
<1>3. ASSUME NEW n \in Node, StartFinish(n)
      PROVE  cmMu \in Node /\ cmMu' = None
  BY <1>3 DEF StartFinish, StartBarrier
<1>4. ASSUME NEW n \in Node, NEW m \in Node, StartSend(n, m)
      PROVE  /\ UNCHANGED cmMu
             /\ \A k \in Node : starter[k].pc = "starting" => starter'[k].pc = "starting"
  <2>1. UNCHANGED cmMu
    BY <1>4 DEF StartSend
  <2>2. PICK error \in BOOLEAN :
          starter' = [starter EXCEPT ![n].pending = @ \ {m},
                                     ![n].bad = IF error THEN @ \cup {m} ELSE @]
    BY <1>4 DEF StartSend
  <2>3. \A k \in Node : starter'[k].pc = starter[k].pc
    BY <1>1, <2>2 DEF StarterType
  <2>4. QED
    BY <2>1, <2>3
<1>5. ASSUME NEW n \in Node, RegisterCount(n)
      PROVE  /\ UNCHANGED cmMu
             /\ \A k \in Node : starter[k].pc = "starting" => starter'[k].pc = "starting"
  <2>1. UNCHANGED cmMu /\ starter[n].pc = "idle"
    BY <1>5 DEF RegisterCount
  <2>2. \A k \in Node : k # n => starter'[k] = starter[k]
    BY <1>1, <1>5 DEF RegisterCount
  <2>3. QED
    BY <2>1, <2>2
<1>6. ASSUME NEW n \in Node,
             \/ RegisterAdmit(n) \/ RegisterLookup(n) \/ RegisterReserve(n)
             \/ RegisterSession(n) \/ RegisterNode(n) \/ SendHeartbeat(n)
      PROVE  UNCHANGED <<starter, cmMu>>
  BY <1>6 DEF RegisterAdmit, RegisterLookup, RegisterReserve, RegisterSession,
              RegisterNode, SendHeartbeat, handlerVars
<1>7. UNCHANGED task
  BY DEF RegistrationStep, RegisterAdmit, RegisterLookup, RegisterReserve, RegisterSession,
         RegisterNode, RegisterCount, SendHeartbeat, StartAcquire, StartSend, StartFinish
<1>8. QED
  BY <1>2, <1>3, <1>4, <1>5, <1>6, <1>7 DEF RegistrationStep

\* A failure takes no step of a remove request.
LEMMA FailureSparesRemovals ==
    ASSUME TypeOK, FailureStep, NEW t \in ApiCall
    PROVE  task'[t].pc = task[t].pc /\ task'[t].bad = task[t].bad
<1>1. t \in Task
  BY DEF Task
<1>2. ASSUME NEW c \in Notifier, HandleNodeFailure(c)
      PROVE  task'[t] = task[t]
  <2>1. t \notin Goroutine
    BY TaskAssumption
  <2>2. QED
    BY <1>1, <1>2, <2>1, FailureTask DEF OnlyTask
<1>3. CASE CleanupDeadConnections
  <2> DEFINE dead == {n \in Node : health[n] = "dead"}
  <2>1. task'[t] = LoseObjects(dead, task)[t]
    BY <1>3 DEF CleanupDeadConnections
  <2> HIDE DEF dead
  <2>2. QED
    BY <1>1, <2>1, LoseObjectsTask
<1>4. CASE ~CleanupDeadConnections /\ \A c \in Notifier : ~HandleNodeFailure(c)
  BY <1>4 DEF FailureStep, Age, NotifySeen, NotifyMark, HealthScan, HealthTimeout, CleanupSessions
<1>5. QED
  BY <1>2, <1>3, <1>4

\* Every step keeps account of the lock.
LEMMA LockSteps ==
    ASSUME TypeOK, StartBarrier, LockAccountedFor, [Next]_vars
    PROVE  LockAccountedFor'
<1>1. /\ Goroutine \cap ApiCall = {} /\ Task = Goroutine \cup ApiCall
      /\ Task \cap Node = {} /\ None \notin Task /\ None \notin Node
  BY TaskAssumption, NodeAssumption DEF Task
<1>2. CASE RegistrationStep
  <2>1. UNCHANGED task
    BY <1>2, RegistrationLock
  <2>2. CASE cmMu = None /\ cmMu' \in Node /\ starter'[cmMu'].pc = "starting"
    BY <1>1, <2>1, <2>2 DEF LockAccountedFor
  <2>3. CASE cmMu \in Node /\ cmMu' = None
    BY <1>1, <2>1, <2>3 DEF LockAccountedFor
  <2>4. CASE /\ UNCHANGED cmMu
             /\ \A n \in Node : starter[n].pc = "starting" => starter'[n].pc = "starting"
    BY <2>1, <2>4 DEF LockAccountedFor
  <2>5. QED
    BY <1>2, <2>2, <2>3, <2>4, RegistrationLock
<1>3. CASE FailureStep
  <2>1. UNCHANGED <<starter, cmMu>>
    BY <1>3, FailureKeepsHandlers
  <2>2. \A t \in ApiCall : task'[t].pc = task[t].pc
    BY <1>3, FailureSparesRemovals
  <2>3. QED
    BY <2>1, <2>2 DEF LockAccountedFor
<1>4. ASSUME NEW t \in Task, Reconfigure(t)
      PROVE  LockAccountedFor'
  <2>1. UNCHANGED starter
    <3>1. ReconfigurationStep
      BY <1>4 DEF Reconfigure, ReconfigurationStep
    <3>2. QED
      BY <3>1, ReconfigurationKeepsHandlers
  <2>2. /\ \A u \in Task : u # t => task'[u] = task[u]
        /\ task[t].pc # "idle"
        /\ \/ task'[t].pc = "idle" /\ cmMu' = IF cmMu = t THEN None ELSE cmMu
           \/ task'[t].pc # "idle" /\ UNCHANGED cmMu
    BY <1>4, ReconfigureLock DEF OnlyTask, UnlockCM
  <2>3. CASE t \in ApiCall
    <3>1. cmMu = t /\ \A u \in ApiCall : u # t => task[u].pc = "idle"
      BY <2>2, <2>3 DEF LockAccountedFor
    <3>2. \A u \in ApiCall : u # t => task'[u].pc = "idle"
      BY <1>1, <2>2, <3>1
    <3>3. QED
      BY <1>1, <2>2, <2>3, <3>1, <3>2 DEF LockAccountedFor
  <2>4. CASE t \in Goroutine
    <3>1. cmMu # t
      BY <1>1, <2>4 DEF TypeOK
    <3>2. UNCHANGED cmMu /\ \A u \in ApiCall : task'[u] = task[u]
      BY <1>1, <2>2, <2>4, <3>1
    <3>3. QED
      BY <2>1, <3>2 DEF LockAccountedFor
  <2>5. QED
    BY <1>1, <2>3, <2>4
<1>5. ASSUME NEW t \in ApiCall, NEW n \in Node, RemoveNode(t, n)
      PROVE  LockAccountedFor'
  <2>1. cmMu = None /\ \A u \in ApiCall : task[u].pc = "idle"
    <3>1. cmMu = None
      BY <1>5 DEF RemoveNode
    <3>2. QED
      BY <1>1, <3>1 DEF LockAccountedFor
  <2>2. \A u \in Task : Removal(t, n, u)
    BY <1>5, RemoveTask
  <2>3. CASE status[n] = "active"
    <3>1. cmMu' = t
      BY <1>5, <2>3 DEF RemoveNode
    <3>2. task'[t].pc = "begin" /\ \A u \in ApiCall : u # t => task'[u].pc = "idle"
      BY <1>1, <2>1, <2>2, <2>3 DEF Removal
    <3>3. QED
      BY <1>1, <3>1, <3>2 DEF LockAccountedFor
  <2>4. CASE status[n] # "active"
    <3>1. cmMu' = None
      BY <1>5, <2>1, <2>4 DEF RemoveNode
    <3>2. \A u \in ApiCall : task'[u].pc = "idle"
      BY <1>1, <2>1, <2>2, <2>4 DEF Removal
    <3>3. QED
      BY <1>1, <3>1, <3>2 DEF LockAccountedFor
  <2>5. QED
    BY <2>3, <2>4
<1>6. CASE UNCHANGED vars
  BY <1>6 DEF vars, handlerVars, LockAccountedFor
<1>7. QED
  BY <1>2, <1>3, <1>4, <1>5, <1>6 DEF Next, ReconfigurationStep, Reconfigure

\* cm.mu is held while the program is started, and while a remove request
\* reconfigures, and given up on every way out; so no two remove requests
\* reconfigure at once, and none does while the program is being started.
THEOREM LockIsAccountedFor == Spec => []LockAccountedFor
<1>1. Init => LockAccountedFor
  BY TaskAssumption, NodeAssumption DEF Init, LockAccountedFor, IdleTask, Task
<1>2. SlotInv /\ StartInv => TypeOK /\ StartBarrier
  BY DEF SlotInv, TypeInv, StartInv
<1>3. TypeOK /\ StartBarrier /\ LockAccountedFor /\ [Next]_vars => LockAccountedFor'
  BY LockSteps
<1>4. QED
  BY <1>1, <1>2, <1>3, SlotInvInductive, StartInvInductive, PTL DEF Spec

\* Nothing helps a remove request that waits for the mutex it holds.
LEMMA WaitingRemovalWaits ==
    ASSUME TypeOK, StartBarrier, LockAccountedFor, [Next]_vars,
           NEW t \in ApiCall, task[t].pc = "settle", task[t].bad # {}
    PROVE  SelfDeadlocked(t)'
<1>1. /\ Goroutine \cap ApiCall = {} /\ Task = Goroutine \cup ApiCall
      /\ t \in Task /\ t \notin Node /\ t # None
  BY TaskAssumption, NodeAssumption DEF Task
<1>2. cmMu = t
  BY DEF LockAccountedFor
<1>3. CASE RegistrationStep
  BY <1>1, <1>2, <1>3, RegistrationLock DEF SelfDeadlocked
<1>4. CASE FailureStep
  <2>1. UNCHANGED cmMu
    BY <1>4, FailureKeepsHandlers
  <2>2. task'[t].pc = task[t].pc /\ task'[t].bad = task[t].bad
    BY <1>4, FailureSparesRemovals
  <2>3. QED
    BY <1>2, <2>1, <2>2 DEF SelfDeadlocked
<1>5. ~Reconfigure(t)
  <2>1. ~Settle(t)
    BY <1>1, <1>2, SettleTask
  <2>2. \A n \in Node : ~Promote(t, n) /\ ~NotifyNode(t, n)
    BY <1>1 DEF Promote, NotifyNode, InTask
  <2>3. QED
    BY <2>1, <2>2 DEF Reconfigure, Begin, Collect, Count, Sort, AssignRank, InTask
<1>6. ASSUME NEW u \in Task, u # t, Reconfigure(u)
      PROVE  SelfDeadlocked(t)'
  <2>1. task'[t] = task[t]
    BY <1>1, <1>6, ReconfigureLock DEF OnlyTask
  <2>2. UNCHANGED cmMu
    BY <1>2, <1>6, ReconfigureLock DEF UnlockCM
  <2>3. QED
    BY <1>2, <2>1, <2>2 DEF SelfDeadlocked
<1>7. ASSUME NEW u \in ApiCall, NEW n \in Node PROVE ~RemoveNode(u, n)
  BY <1>1, <1>2 DEF RemoveNode
<1>8. CASE UNCHANGED vars
  BY <1>2, <1>8 DEF vars, SelfDeadlocked
<1>9. QED
  BY <1>3, <1>4, <1>5, <1>6, <1>7, <1>8 DEF Next, ReconfigurationStep, Reconfigure

LEMMA LockInv == Spec => [](TypeOK /\ StartBarrier /\ LockAccountedFor)
<1>1. SlotInv /\ StartInv => TypeOK /\ StartBarrier
  BY DEF SlotInv, TypeInv, StartInv
<1>2. QED
  BY <1>1, SlotInvInductive, StartInvInductive, LockIsAccountedFor, PTL

\* Whatever the server does, a remove request with an unanswered restart command
\* waits for the mutex it holds and keeps it.
THEOREM RemovalDeadlocks == Spec => RemovalWaitsForItself
<1> DEFINE Waits == \A t \in ApiCall : task[t].pc = "settle" /\ task[t].bad # {}
                                         => SelfDeadlocked(t)'
<1>1. TypeOK /\ StartBarrier /\ LockAccountedFor /\ [Next]_vars => [Waits]_vars
  BY WaitingRemovalWaits
<1>2. QED
  BY <1>1, LockInv, PTL DEF Spec, RemovalWaitsForItself

\* ... and so it stays for ever: the request is never answered, cm.mu is never
\* free again, and the starts, removals and retries that need it wait.
THEOREM RemovalNeverReturns ==
    ASSUME NEW t \in ApiCall
    PROVE  Spec => [](SelfDeadlocked(t) => []SelfDeadlocked(t))
<1>1. /\ TypeOK /\ StartBarrier /\ LockAccountedFor /\ [Next]_vars /\ SelfDeadlocked(t)
        => SelfDeadlocked(t)'
  BY WaitingRemovalWaits DEF SelfDeadlocked
<1>2. QED
  BY <1>1, LockInv, PTL DEF Spec

-----------------------------------------------------------------------------
(* What the defects of the code lead to *)

\* A reconfiguration that tries again has marked nobody, since the nodes that did
\* not answer are looked up by URL.
RetryMarksNobody ==
    [][\A t \in Task : task[t].pc = "settle" /\ task'[t].pc = "collect" => UNCHANGED status]_vars

\* Nothing but its own Settle takes a reconfiguration back to Collect.
LEMMA SettlesOnly ==
    ASSUME TypeOK, Next, NEW t \in Task, task[t].pc = "settle", task'[t].pc = "collect"
    PROVE  Settle(t)
<1>1. CASE RegistrationStep
  <2>1. UNCHANGED task
    BY <1>1 DEF RegistrationStep, RegisterAdmit, RegisterLookup, RegisterReserve, RegisterSession,
         RegisterNode, RegisterCount, SendHeartbeat, StartAcquire, StartSend, StartFinish
  <2>2. QED
    BY <2>1
<1>2. CASE FailureStep
  <2>1. ASSUME NEW c \in Notifier, HandleNodeFailure(c) PROVE FALSE
    BY <2>1, FailureTask DEF OnlyTask
  <2>2. CASE CleanupDeadConnections
    <3> DEFINE dead == {n \in Node : health[n] = "dead"}
    <3>1. task'[t] = LoseObjects(dead, task)[t]
      BY <2>2 DEF CleanupDeadConnections
    <3> HIDE DEF dead
    <3>2. QED
      BY <3>1, LoseObjectsTask
  <2>3. CASE ~CleanupDeadConnections /\ \A c \in Notifier : ~HandleNodeFailure(c)
    BY <1>2, <2>3
    DEF FailureStep, Age, NotifySeen, NotifyMark, HealthScan, HealthTimeout, CleanupSessions
  <2>4. QED
    BY <2>1, <2>2, <2>3
<1>3. ASSUME NEW u \in ApiCall, NEW n \in Node, RemoveNode(u, n) PROVE FALSE
  <2>1. Removal(u, n, t) /\ task[u].pc = "idle"
    BY <1>3, RemoveTask
  <2>2. QED
    BY <2>1 DEF Removal
<1>4. ASSUME NEW u \in Task, Reconfigure(u) PROVE Settle(t)
  <2>1. u = t
    BY <1>4, ReconfigureLock DEF OnlyTask
  <2>2. \A n \in Node : ~Promote(t, n) /\ ~NotifyNode(t, n)
    BY DEF Promote, NotifyNode, InTask
  <2>3. QED
    BY <1>4, <2>1, <2>2 DEF Reconfigure, Begin, Collect, Count, Sort, AssignRank, InTask
<1>5. QED
  BY <1>1, <1>2, <1>3, <1>4 DEF Next, ReconfigurationStep, Reconfigure

\* Whatever restart commands are not answered, and however many attempts there
\* are, no attempt marks a node: the next one meets the same nodes.
THEOREM RetriesMarkNobody == Spec => RetryMarksNobody
<1> DEFINE Unmarked == \A t \in Task :
                          task[t].pc = "settle" /\ task'[t].pc = "collect" => UNCHANGED status
<1>1. TypeOK /\ [Next]_vars => [Unmarked]_vars
  BY SettlesOnly, SettleTask
<1>2. SlotInv => TypeOK
  BY DEF SlotInv, TypeInv
<1>3. QED
  BY <1>1, <1>2, SlotInvInductive, PTL DEF Spec, RetryMarksNobody

\* The registry after handleNodeFailure returned without unlocking it: the lock
\* stays, no node gains an entry or another status, and no heartbeat counts.
LeakFreezesRegistry ==
    [][registryMu = "leaked" =>
         /\ registryMu' = "leaked"
         /\ \A n \in Node : status'[n] = status[n] \/ status'[n] = "absent"
         /\ \A n \in Node : health'[n] = "fresh" => health[n] = "fresh"]_vars

\* No step of the server gets around the lock, but a removal, which ignores it.
LEMMA LeakedStep ==
    ASSUME TypeOK, Next, registryMu = "leaked"
    PROVE  /\ registryMu' = "leaked"
           /\ \A n \in Node : status'[n] = status[n] \/ status'[n] = "absent"
           /\ \A n \in Node : health'[n] = "fresh" => health[n] = "fresh"
<1>1. ~UnderRegistryMu
  BY DEF UnderRegistryMu
<1>2. CASE RegistrationStep
  <2>1. ASSUME NEW n \in Node, RegisterLookup(n) PROVE UNCHANGED <<registryMu, status, health>>
    BY <1>1, <2>1 DEF RegisterLookup
  <2>2. ASSUME NEW n \in Node PROVE ~RegisterNode(n) /\ ~SendHeartbeat(n)
    BY <1>1 DEF RegisterNode, SendHeartbeat
  <2>3. ASSUME NEW n \in Node,
               \/ RegisterAdmit(n) \/ RegisterReserve(n) \/ RegisterSession(n) \/ RegisterCount(n)
               \/ StartAcquire(n) \/ StartFinish(n) \/ \E m \in Node : StartSend(n, m)
        PROVE  UNCHANGED <<registryMu, status, health>>
    BY <2>3 DEF RegisterAdmit, RegisterReserve, RegisterSession, RegisterCount, StartAcquire,
                StartFinish, StartSend, registryVars
  <2>4. UNCHANGED <<registryMu, status, health>>
    BY <1>2, <2>1, <2>2, <2>3 DEF RegistrationStep
  <2>5. QED
    BY <2>4
<1>3. CASE FailureStep
  <2>1. ~CleanupDeadConnections /\ ~HealthTimeout
    BY <1>1 DEF CleanupDeadConnections, HealthTimeout
  <2>2. ASSUME NEW c \in Notifier PROVE ~HandleNodeFailure(c) /\ ~NotifyMark(c)
    BY <1>1 DEF HandleNodeFailure, NotifyMark
  <2>3. ASSUME NEW n \in Node
        PROVE  ~HealthScan(n) /\ \A c \in Notifier : ~NotifySeen(c, n)
    BY <1>1 DEF HealthScan, NotifySeen
  <2>4. PICK n \in Node : Age(n) \/ CleanupSessions(n)
    BY <1>3, <2>1, <2>2, <2>3 DEF FailureStep
  <2>5. CASE Age(n)
    BY <2>5 DEF Age, TypeOK
  <2>6. CASE CleanupSessions(n)
    BY <2>6 DEF CleanupSessions, registryVars
  <2>7. QED
    BY <2>4, <2>5, <2>6
<1>4. ASSUME NEW t \in Task, Reconfigure(t)
      PROVE  UNCHANGED <<registryMu, status, health>>
  <2>1. ~Collect(t) /\ \A n \in Node : ~Promote(t, n)
    BY <1>1 DEF Collect, Promote
  <2>2. CASE Begin(t) \/ Count(t) \/ Sort(t) \/ AssignRank(t)
    BY <2>2 DEF Begin, Count, Sort, AssignRank, registryVars
  <2>3. CASE Settle(t)
    <3>1. UNCHANGED status
      BY <2>3, SettleTask
    <3>2. UNCHANGED <<registryMu, health>>
      BY <2>3 DEF Settle
    <3>3. QED
      BY <3>1, <3>2
  <2>4. ASSUME NEW n \in Node, NotifyNode(t, n) PROVE UNCHANGED <<registryMu, status, health>>
    BY <2>4 DEF NotifyNode, registryVars
  <2>5. QED
    BY <1>4, <2>1, <2>2, <2>3, <2>4 DEF Reconfigure
<1>5. ASSUME NEW t \in ApiCall, NEW m \in Node, RemoveNode(t, m)
      PROVE  /\ registryMu' = "leaked"
             /\ \A n \in Node : status'[n] = status[n] \/ status'[n] = "absent"
             /\ \A n \in Node : health'[n] = "fresh" => health[n] = "fresh"
  <2>1. UNCHANGED registryMu /\ DeleteNodes({m})
    BY <1>5 DEF RemoveNode
  <2>2. QED
    BY <2>1 DEF DeleteNodes
<1>6. QED
  BY <1>2, <1>3, <1>4, <1>5 DEF Next, ReconfigurationStep, Reconfigure

\* A refused transition in handleNodeFailure leaves registry.mu locked for ever:
\* from then on no node registers, times out or is marked failed, and no
\* heartbeat is taken, whatever the clients and the administrator do.
THEOREM LeakIsForGood == Spec => LeakFreezesRegistry
<1> DEFINE Frozen == registryMu = "leaked" =>
                       /\ registryMu' = "leaked"
                       /\ \A n \in Node : status'[n] = status[n] \/ status'[n] = "absent"
                       /\ \A n \in Node : health'[n] = "fresh" => health[n] = "fresh"
<1>1. TypeOK /\ [Next]_vars => [Frozen]_vars
  BY LeakedStep
<1>2. SlotInv => TypeOK
  BY DEF SlotInv, TypeInv
<1>3. QED
  BY <1>1, <1>2, SlotInvInductive, PTL DEF Spec, LeakFreezesRegistry

=============================================================================
