-------------------------- MODULE FailureHandling --------------------------
(***************************************************************************)
(* How c4d-server learns that a node is gone: NotifyFailure and            *)
(* handleNodeFailure (server.go), the health monitor (monitor.go), the     *)
(* removal of dead connections (server.go) and of old sessions             *)
(* (session.go).                                                           *)
(*                                                                         *)
(* Time is abstracted to the age of the last heartbeat: "fresh", "late"    *)
(* (past HeartbeatTimeout) and "dead" (past twice that).  A node ages      *)
(* whenever it is Silent, between any two steps of the server.             *)
(***************************************************************************)
EXTENDS C4DServerBase

\* No heartbeat of n arrives for another HeartbeatTimeout.
Age(n) ==
    /\ Alive
    /\ n \in Silent
    /\ \/ health[n] = "fresh" /\ health' = [health EXCEPT ![n] = "late"]
       \/ health[n] = "late"  /\ health' = [health EXCEPT ![n] = "dead"]
    /\ UNCHANGED <<state, status, rank, healthFailed, session, counterVars,
                   registryMu, cmMu, handlerVars, task, told, disruptions>>

-----------------------------------------------------------------------------
(* NotifyFailure and handleNodeFailure *)

\* NotifyFailure's first critical section: an unknown or failed node is
\* acknowledged and forgotten.  (An absent or failed n changes nothing.)
NotifySeen(c, n) ==
    /\ Alive
    /\ n \in Crashing
    /\ disruptions < MaxDisruptions
    /\ notifier[c].pc = "idle"
    /\ UnderRegistryMu
    /\ status[n] \in {"active", "standby"}
    /\ notifier' = [notifier EXCEPT ![c] = [pc |-> "seen", node |-> n]]
    /\ disruptions' = disruptions + 1
    /\ UNCHANGED <<state, registryVars, session, counterVars, registryMu, cmMu,
                   reg, starter, hm, task, told>>

NotifierGoto(c, pc) == notifier' = [notifier EXCEPT ![c].pc = pc]

\* The error return of handleNodeFailure skips registry.mu.Unlock().
FailureRefused == registryMu' = "leaked" /\ UNCHANGED <<state, status, counterVars, task>>

\* Only the failure of an active node starts a reconfiguration.
Spawns(n) == status[n] = "active"

\* The accepted failure of n: the state, the node, its slot, and for an active
\* node the goroutine that reconfigures the cluster.
FailureAccepted(n) ==
    /\ state' = "Reconfiguring"
    /\ status' = [status EXCEPT ![n] = "failed"]
    /\ ReleaseSlots({n})
    /\ IF Spawns(n)
       THEN \E g \in Goroutine :
              /\ task[g].pc = "idle"
              /\ task' = [task EXCEPT ![g].pc = "begin"]
       ELSE UNCHANGED task
    /\ UNCHANGED registryMu

\* handleNodeFailure, one critical section under registry.mu.
HandleNodeFailure(c) ==
    LET n == notifier[c].node IN
    /\ Alive
    /\ notifier[c].pc = "seen"
    /\ UnderRegistryMu
    /\ IF n \notin Registered
       THEN UNCHANGED <<state, status, counterVars, registryMu, task>>
       ELSE IF ~CanTransition("Reconfiguring")
            THEN FailureRefused
            ELSE FailureAccepted(n)
    /\ NotifierGoto(c, "mark")
    /\ UNCHANGED <<rank, health, healthFailed, session, cmMu, reg, starter, hm,
                   told, disruptions>>

\* NotifyFailure's last critical section, on the health record found then.
NotifyMark(c) ==
    LET n == notifier[c].node IN
    /\ Alive
    /\ notifier[c].pc = "mark"
    /\ UnderRegistryMu
    /\ healthFailed' = [healthFailed EXCEPT ![n] = @ \/ health[n] # "absent"]
    /\ notifier' = [notifier EXCEPT ![c] = IdleNotifier]
    /\ UNCHANGED <<state, status, rank, health, session, counterVars, registryMu,
                   cmMu, reg, starter, hm, task, told, disruptions>>

-----------------------------------------------------------------------------
(* The health monitor *)

\* Heartbeats of n are overdue and no one has reported its failure.
Overdue(n) == health[n] \in {"late", "dead"} /\ ~healthFailed[n]

\* checkNodesHealth finds an overdue node and gives the lock up to handle it.
HealthScan(n) ==
    /\ Alive
    /\ hm = None
    /\ UnderRegistryMu
    /\ Overdue(n)
    /\ hm' = n
    /\ UNCHANGED <<state, registryVars, session, counterVars, registryMu, cmMu,
                   reg, starter, notifier, task, told, disruptions>>

\* Mutant: the update is made to the active nodes only.
StatusAfterTimeout_ActiveOnly(n) == IF status[n] = "active" THEN "failed" ELSE status[n]

\* The status of n after its timeout, if it is still in the registry.
StatusAfterTimeout(n) == IF n \in Registered THEN "failed" ELSE "absent"

\* handleNodeTimeout.  The status is overwritten before it is tested, so that
\* neither counter gives the slot back.
HealthTimeout ==
    /\ Alive
    /\ hm # None
    /\ UnderRegistryMu
    /\ status' = [status EXCEPT ![hm] = StatusAfterTimeout(hm)]
    /\ hm' = None
    /\ UNCHANGED <<state, rank, health, healthFailed, session, counterVars,
                   registryMu, cmMu, reg, starter, notifier, task, told, disruptions>>

\* The end of checkNodesHealth: a disconnected session that is old goes.
CleanupSessions(n) ==
    /\ Alive
    /\ hm = None
    /\ session[n] = "disconnected"
    /\ session' = [session EXCEPT ![n] = "none"]
    /\ UNCHANGED <<state, registryVars, counterVars, registryMu, cmMu,
                   handlerVars, task, told, disruptions>>

-----------------------------------------------------------------------------
(* cleanupDeadConnections *)

\* The sessions of the nodes of S, as DisconnectSession leaves them.
Disconnected(S) ==
    [n \in Node |-> IF n \in S /\ session[n] # "none" THEN "disconnected" ELSE session[n]]

\* One tick, under registry.mu throughout.
CleanupDeadConnections ==
    LET dead == {n \in Node : health[n] = "dead"} IN
    /\ Alive
    /\ UnderRegistryMu
    /\ dead # {}
    /\ session' = Disconnected(dead)
    /\ ReleaseSlots(dead)
    /\ DeleteNodes(dead)
    /\ task' = LoseObjects(dead, task)
    /\ UNCHANGED <<state, registryMu, cmMu, handlerVars, told, disruptions>>

FailureStep ==
    \/ \E n \in Node :
         \/ Age(n)
         \/ HealthScan(n)
         \/ CleanupSessions(n)
         \/ \E c \in Notifier : NotifySeen(c, n)
    \/ \E c \in Notifier : HandleNodeFailure(c) \/ NotifyMark(c)
    \/ HealthTimeout
    \/ CleanupDeadConnections

=============================================================================
