-------------------------- MODULE Reconfiguration --------------------------
(***************************************************************************)
(* cluster.go's reconfigureCluster and notifyNodesInParallel, run by the   *)
(* goroutines handleNodeFailure spawns and by the remove request of the    *)
(* HTTP API (removeNode), which holds cm.mu while it reconfigures.         *)
(*                                                                         *)
(* Several reconfigurations may run at once; each holds pointers it took   *)
(* from the registry and writes status and rank through them.              *)
(***************************************************************************)
EXTENDS C4DServerBase, Functions

InTask(t, pc) == Alive /\ task[t].pc = pc

\* Mutants: the deferred call locks; there is no deferred call.
UnlockCM_Locks(t) == cmMu' = t
UnlockCM_Missing(t) == UNCHANGED cmMu

\* cm.mu when t ends: removeNode's deferred unlock.
UnlockCM(t) == cmMu' = IF cmMu = t THEN None ELSE cmMu

-----------------------------------------------------------------------------
(* removeNode *)

\* The remove request for n: under cm.mu, but without registry.mu, it drops
\* the node, and reconfigures the cluster when the node was active.  A node
\* that is unknown, or a refused transition, leaves everything as it is.
RemoveNode(t, n) ==
    /\ Alive
    /\ task[t].pc = "idle"
    /\ cmMu = None
    /\ disruptions < MaxDisruptions
    /\ n \in Registered
    /\ CanTransition("Reconfiguring")
    /\ state' = "Reconfiguring"
    /\ ReleaseSlots({n})
    /\ DeleteNodes({n})
    /\ LET tasks == LoseObjects({n}, task) IN
       IF status[n] = "active"
       THEN /\ cmMu' = t
            /\ task' = [tasks EXCEPT ![t].pc = "begin"]
       ELSE /\ task' = tasks
            /\ UNCHANGED cmMu
    /\ disruptions' = disruptions + 1
    /\ UNCHANGED <<session, registryMu, handlerVars, told>>

-----------------------------------------------------------------------------
(* reconfigureCluster *)

\* The state check.  A refused transition is an error, which ends a goroutine's
\* server and is all a remove request answers.
Begin(t) ==
    /\ InTask(t, "begin")
    /\ IF state = "Reconfiguring" \/ CanTransition("Reconfiguring")
       THEN /\ state' = "Reconfiguring"
            /\ task' = [task EXCEPT ![t].pc = "collect"]
            /\ UNCHANGED cmMu
       ELSE /\ state' = IF t \in Goroutine THEN "Failed" ELSE state
            /\ task' = [task EXCEPT ![t] = IdleTask]
            /\ UnlockCM(t)
    /\ UNCHANGED <<registryVars, session, counterVars, registryMu, handlerVars,
                   told, disruptions>>

\* numToPromote
Needed(active, standby) ==
    LET missing == ActiveNodes - Cardinality(active) IN
    IF missing <= 0 THEN 0
    ELSE IF missing < Cardinality(standby) THEN missing ELSE Cardinality(standby)

\* One read of the registry; which standbys come first is the map's choice.
Collect(t) ==
    LET active  == WithStatus("active")
        standby == WithStatus("standby")
    IN
    /\ InTask(t, "collect")
    /\ UnderRegistryMu
    /\ \E promo \in SUBSET standby :
         /\ Cardinality(promo) = Needed(active, standby)
         /\ task' = [task EXCEPT ![t] =
                       [task[t] EXCEPT !.pc = IF promo = {} THEN "sort" ELSE "promote",
                                       !.roster = active, !.promo = promo,
                                 !.lost = {}, !.done = 0]]
    /\ UNCHANGED <<state, registryVars, session, counterVars, registryMu, cmMu,
                   handlerVars, told, disruptions>>

\* Promotion through a pointer taken at Collect: whatever became of the node
\* meanwhile, its status is "active" and its rank follows the grown list.
PromotionRank(t) == Cardinality(task[t].roster) + task[t].done

Promote(t, n) ==
    /\ InTask(t, "promote")
    /\ n \in task[t].promo
    /\ UnderRegistryMu
    /\ IF n \in task[t].lost
       THEN UNCHANGED <<status, rank>>
       ELSE /\ status' = [status EXCEPT ![n] = "active"]
            /\ rank' = [rank EXCEPT ![n] = PromotionRank(t)]
    /\ task' = [task EXCEPT ![t] =
                  [task[t] EXCEPT !.pc = IF task[t].promo = {n} THEN "count" ELSE "promote",
                            !.promo = @ \ {n}, !.roster = @ \cup {n},
                            !.done = @ + 1]]
    /\ UNCHANGED <<state, health, healthFailed, session, counterVars, registryMu,
                   cmMu, handlerVars, told, disruptions>>

\* The counters follow, under metrics.mu.
Count(t) ==
    /\ InTask(t, "count")
    /\ activeCtr' = activeCtr + task[t].done
    /\ standbyCtr' = standbyCtr - task[t].done
    /\ task' = [task EXCEPT ![t].pc = "sort", ![t].done = 0]
    /\ UNCHANGED <<state, registryVars, session, registryMu, cmMu, handlerVars,
                   told, disruptions>>

\* The enumerations of the roster by ascending rank, ties in any order.
RankOrders(t) ==
    LET roster == task[t].roster IN
    {order \in Bijection(1 .. Cardinality(roster), roster) :
       \A i, j \in DOMAIN order :
         (i < j /\ {order[i], order[j]} \cap task[t].lost = {})
           => rank[order[i]] <= rank[order[j]]}

\* Mutant: any roster will do but the empty one.
Enough_AnyRoster(t) == task[t].roster # {}

\* The roster fills the world.
Enough(t) == Cardinality(task[t].roster) >= ActiveNodes

\* Too few nodes end the server; otherwise the roster is sorted by rank.
Sort(t) ==
    /\ InTask(t, "sort")
    /\ IF Enough(t)
       THEN /\ \E order \in RankOrders(t) :
                 task' = [task EXCEPT ![t] = [task[t] EXCEPT !.pc = "assign", !.order = order, !.idx = 1]]
            /\ UNCHANGED state
       ELSE /\ state' = "Failed"
            /\ UNCHANGED task
    /\ UNCHANGED <<registryVars, session, counterVars, registryMu, cmMu,
                   handlerVars, told, disruptions>>

-----------------------------------------------------------------------------
(* notifyNodesInParallel *)

\* Mutant: ranks start at one.
AssignedRank_FromOne(i) == i

\* The rank of the i-th node of the list.
AssignedRank(i) == i - 1

\* The loop that assigns ranks, without a lock, one node at a time.
AssignRank(t) ==
    LET i == task[t].idx
        n == task[t].order[i]
    IN
    /\ InTask(t, "assign")
    /\ rank' = IF n \in task[t].lost THEN rank ELSE [rank EXCEPT ![n] = AssignedRank(i)]
    /\ task' = [task EXCEPT ![t] =
                  IF i = Cardinality(task[t].roster)
                  THEN [task[t] EXCEPT !.pc = "notify", !.pending = task[t].roster, !.idx = 0]
                  ELSE [task[t] EXCEPT !.idx = i + 1]]
    /\ UNCHANGED <<state, status, health, healthFailed, session, counterVars,
                   registryMu, cmMu, handlerVars, told, disruptions>>

\* The RANK t sends to n: node.Rank when the command is built.  Nothing else
\* writes the rank of an object that has left the registry.
SentRank(t, n) ==
    IF n \in task[t].lost
    THEN (CHOOSE i \in DOMAIN task[t].order : task[t].order[i] = n) - 1
    ELSE rank[n]

\* notifyNodeOfConfig: the restart command is answered, or it fails, before or
\* after the monitor acted on it.
NotifyNode(t, n) ==
    /\ InTask(t, "notify")
    /\ n \in task[t].pending
    /\ \E delivered, error \in BOOLEAN :
         /\ delivered \/ error
         /\ error => n \in Unreachable
         /\ told' = IF delivered THEN [told EXCEPT ![n] = SentRank(t, n)] ELSE told
         /\ task' = [task EXCEPT ![t] =
                       [task[t] EXCEPT !.pending = @ \ {n},
                                 !.pc = IF task[t].pending = {n} THEN "settle" ELSE "notify",
                                 !.bad = IF error THEN @ \cup {n} ELSE @]]
    /\ UNCHANGED <<state, registryVars, session, counterVars, registryMu, cmMu,
                   handlerVars, disruptions>>

\* The registry entries found under the URLs of the nodes in bad.
FoundByUrl(bad) == {n \in Registered : \E m \in bad : n = Url(m)}

\* Mutant: the transition back is forgotten.
Resumed_Forgotten == state

\* The state after a successful reconfiguration.
Resumed == IF state = "Reconfiguring" THEN "Running" ELSE state

\* Every command succeeded: back to Running, and the reconfiguration ends.
Succeed(t) ==
    /\ task[t].bad = {}
    /\ state' = Resumed
    /\ task' = [task EXCEPT ![t] = IdleTask]
    /\ UnlockCM(t)
    /\ UNCHANGED <<status, counterVars>>

\* Mutant: the owner may lock cm.mu again.
CanLockCM_Reentrant(t) == cmMu \in {None, t}

\* cm.mu.Lock() returns to t: a Go mutex is nobody's, not even t's.
CanLockCM(t) == cmMu = None

\* Some failed: under cm.mu the nodes found by URL are marked failed, and the
\* reconfiguration starts over, or gives the server up.
Retry(t) ==
    /\ task[t].bad # {}
    /\ CanLockCM(t)
    /\ status' = [n \in Node |-> IF n \in FoundByUrl(task[t].bad) THEN "failed" ELSE status[n]]
    /\ activeCtr' = activeCtr
         - Cardinality(FoundByUrl(task[t].bad) \cap WithStatus("active"))
    /\ IF task[t].try + 1 < MaxAttempts
       THEN /\ task' = [task EXCEPT ![t] = [IdleTask EXCEPT !.pc = "collect",
                                                            !.try = task[t].try + 1]]
            /\ UNCHANGED state
       ELSE /\ state' = "Failed"
            /\ UNCHANGED task
    /\ UNCHANGED <<standbyCtr, cmMu>>

Settle(t) ==
    /\ InTask(t, "settle")
    /\ Succeed(t) \/ Retry(t)
    /\ UNCHANGED <<rank, health, healthFailed, session, registryMu, handlerVars,
                   told, disruptions>>

ReconfigurationStep ==
    \E t \in Task :
      \/ Begin(t)
      \/ Collect(t)
      \/ Count(t)
      \/ Sort(t)
      \/ AssignRank(t)
      \/ Settle(t)
      \/ \E n \in Node : Promote(t, n) \/ NotifyNode(t, n)
      \/ t \in ApiCall /\ \E n \in Node : RemoveNode(t, n)

=============================================================================
