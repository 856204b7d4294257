----------------------------- MODULE C4DServer -----------------------------
(***************************************************************************)
(* c4d-server: the registration, failure and reconfiguration actions of    *)
(* one server process, interleaved.                                        *)
(***************************************************************************)
EXTENDS Registration, FailureHandling, Reconfiguration

Init ==
    /\ state = "Initializing"
    /\ status = [n \in Node |-> "absent"]
    /\ rank = [n \in Node |-> -1]
    /\ health = [n \in Node |-> "absent"]
    /\ healthFailed = [n \in Node |-> FALSE]
    /\ session = [n \in Node |-> "none"]
    /\ activeCtr = 0
    /\ standbyCtr = 0
    /\ registryMu = "free"
    /\ cmMu = None
    /\ reg = [n \in Node |-> IdleReg]
    /\ starter = [n \in Node |-> IdleStarter]
    /\ notifier = [c \in Notifier |-> IdleNotifier]
    /\ hm = None
    /\ task = [t \in Task |-> IdleTask]
    /\ told = [n \in Node |-> -1]
    /\ disruptions = 0

Next == RegistrationStep \/ FailureStep \/ ReconfigurationStep

Spec == Init /\ [][Next]_vars

-----------------------------------------------------------------------------
(* Fairness *)

\* Fairness: the goroutines of the server keep running, and a command is
\* answered or times out.  cm.mu is a Go mutex, which hands itself to the
\* longest waiter, so a waiter that finds it free again and again gets it.  The
\* health monitor sweeps all records at every tick, so it comes to each of them.
\* Nothing is assumed of clients, of heartbeats, or of failures.
RegisterHandler(n) ==
    \/ RegisterLookup(n) \/ RegisterReserve(n) \/ RegisterSession(n)
    \/ RegisterNode(n) \/ RegisterCount(n)

NotifierHandler(c) == HandleNodeFailure(c) \/ NotifyMark(c)

Reconfigure(t) ==
    \/ Begin(t) \/ Collect(t) \/ Count(t) \/ Sort(t) \/ AssignRank(t) \/ Settle(t)
    \/ \E n \in Node : Promote(t, n) \/ NotifyNode(t, n)

Fairness ==
    /\ \A n \in Node :
         /\ WF_vars(RegisterHandler(n))
         /\ SF_vars(StartAcquire(n))
         /\ WF_vars(StartFinish(n))
         /\ WF_vars(\E m \in Node : StartSend(n, m))
         /\ SF_vars(HealthScan(n))
    /\ \A c \in Notifier : WF_vars(NotifierHandler(c))
    /\ WF_vars(HealthTimeout)
    /\ WF_vars(CleanupDeadConnections)
    /\ \A t \in Task : SF_vars(Reconfigure(t))

FairSpec == Spec /\ Fairness

-----------------------------------------------------------------------------
(* Safety *)

\* A node has a registry entry exactly when it has a health record, a node with
\* an entry has a live session, and a handler that is about to store a node
\* finds none: every reserved slot belongs to one entry.  (GET /nodes follows
\* health[nodeID] without a check; a second entry would leak a slot.)
RegistryCoherent ==
    \A n \in Node :
        /\ n \in Registered <=> health[n] # "absent"
        /\ n \in Registered => session[n] = "connected"
        /\ reg[n].pc \in {"reserve", "session", "store"} => n \notin Registered
        /\ reg[n].pc = "store" => session[n] = "connected"

\* The slots of the active nodes are all accounted for: those in the registry
\* and those of handlers still on their way to it never outnumber the counter
\* and the promotions that have not been counted yet.  (Register admits active
\* nodes by the counter alone, while failures, removals, timeouts and
\* promotions change status and counter in separate steps.)
Arriving == {n \in Node : reg[n].pc \in {"session", "store"} /\ reg[n].as = "active"}

\* One element for each promotion that a reconfiguration has not counted yet.
Uncounted == UNION {{t} \X (1 .. task[t].done) : t \in Task}

ActiveSlotsCovered ==
    Cardinality(WithStatus("active")) + Cardinality(Arriving)
        <= activeCtr + Cardinality(Uncounted)

\* Until the program has started, no more than ActiveNodes nodes are admitted
\* as active, so that the start command's WORLD_SIZE, the length of the list,
\* is ActiveNodes, and it is sent by one handler at a time, before the server
\* ever runs.  (Several handlers may count the full cluster.)
StartBarrier ==
    \A n \in Node : starter[n].pc = "starting" =>
        /\ state = "Initializing"
        /\ Len(starter[n].order) = ActiveNodes
        /\ cmMu = n

\* cm.mu is held by the handler that starts the program or by the remove request
\* that reconfigures, as long as it does and no longer: every return, after an
\* error too, unlocks it, and goroutines reconfigure without it.
LockAccountedFor ==
    /\ cmMu \in Node => starter[cmMu].pc = "starting"
    /\ cmMu \in ApiCall => task[cmMu].pc # "idle"
    /\ \A t \in ApiCall : task[t].pc # "idle" => cmMu = t

\* A remove request whose restart commands are not all answered waits for the
\* mutex it holds: it takes no step any more, nobody takes the mutex from it,
\* and the attempts that reconfigureCluster has left are never made.
SelfDeadlocked(t) == task[t].pc = "settle" /\ task[t].bad # {} /\ cmMu = t

RemovalWaitsForItself ==
    [][\A t \in ApiCall : task[t].pc = "settle" /\ task[t].bad # {} => SelfDeadlocked(t)']_vars

\* A goroutine that reconfigures never meets the lock that handleNodeFailure
\* leaks when the transition is refused: it could not end.
NoReconfigurationUnderLeak ==
    \A g \in Goroutine : task[g].pc # "idle" => registryMu = "free"

\* Back in Running with no reconfiguration under way, and all failures
\* reported rather than timed out, the registry has ActiveNodes active nodes.
RunningIsStaffed ==
    (state = "Running" /\ \A t \in Task : task[t].pc = "idle")
        => Cardinality(WithStatus("active")) >= ActiveNodes

\* When a reconfiguration has notified its nodes without an error, each was
\* told its place in the sorted list.
RosterToldInOrder ==
    \A t \in Task : task[t].pc = "settle" /\ task[t].bad = {} =>
        \A i \in DOMAIN task[t].order : told[task[t].order[i]] = i - 1

\* Strengthens TypeOK to an inductive invariant: whatever has left the registry
\* meanwhile, a node that is still to be sent a command has a place in the
\* list its rank is taken from.
StarterEnumerated(r) == r.pending \subseteq {r.order[i] : i \in DOMAIN r.order}

TaskEnumerated(r) ==
    /\ r.pc \in {"assign", "notify", "settle"} =>
         r.order \in Bijection(1 .. Cardinality(r.roster), r.roster)
    /\ r.pc = "notify" => r.pending \subseteq r.roster

RostersEnumerated ==
    /\ \A n \in Node : StarterEnumerated(starter[n])
    /\ \A t \in Task : TaskEnumerated(task[t])

\* Strengthens RegistryCoherent: a standby that is about to be promoted through
\* a pointer still has its registry entry, unless its object has been lost.
PromotableRegistered == \A t \in Task : task[t].promo \ task[t].lost \subseteq Registered

\* Strengthens NoReconfigurationUnderLeak: reconfigurations only follow the
\* start, while the lock can only be leaked before it.
NoReconfigurationBeforeStart ==
    \A t \in Task : task[t].pc # "idle" => state # "Initializing"

-----------------------------------------------------------------------------
(* Refinement *)

Lifecycle == INSTANCE ServerLifecycle WITH
    phase <- CASE state = "Initializing"  -> "waiting"
               [] state = "Running"       -> "serving"
               [] state = "Reconfiguring" -> "recovering"
               [] state = "Failed"        -> "stopped",
    assigned <- told

\* The server implements the lifecycle it promises.
LifecycleRefinement == Lifecycle!Spec

-----------------------------------------------------------------------------
(* Liveness *)

\* A reconfiguration that handleNodeFailure spawned ends, with the server back
\* in Running or stopped: it waits for no lock for ever, and no retry repeats
\* for ever.
ReconfigurationConcludes ==
    \A g \in Goroutine :
        task[g].pc # "idle" ~> state = "Failed" \/ (task[g].pc = "idle" /\ state = "Running")

\* Once all expected nodes are registered, and if no start command fails, the
\* program starts, in whatever order the handlers reserved, stored and counted,
\* unless a node is lost first or the registry's lock has been leaked.
FullClusterStarts ==
    [](\A n \in Node : starter[n].bad = {}) =>
      ((Registered = Node) ~> \/ state \in {"Running", "Failed"}
                              \/ \E n \in Node : status[n] \in {"failed", "absent"}
                              \/ registryMu = "leaked")

\* A node that goes silent does not stay active or standby: it is marked
\* failed or removed, unless it is heard of again, its failure has been
\* reported, or the registry's lock has been leaked.
SilentNodeDetected ==
    \A n \in Node :
        (health[n] \in {"late", "dead"} /\ ~healthFailed[n])
                   ~> \/ status[n] \in {"failed", "absent"}
                      \/ health[n] = "fresh"
                      \/ healthFailed[n]
                      \/ registryMu = "leaked"
                      \/ ~Alive

-----------------------------------------------------------------------------
(* What the documentation, the comments and the tests say of the server, and *)
(* the code does not do.                                                     *)

\* cluster.go's comment on failed notifications: "mark them and trigger a
\* retry".  When a reconfiguration starts over, the nodes that did not answer
\* are not active any more.
UnreachableMarkedFailed ==
    [][\A t \in Task :
         (task[t].pc = "settle" /\ task'[t].pc = "collect")
            => \A n \in task[t].bad : status'[n] # "active"]_vars

\* monitor/README.md, actions on "Process failure reported": "Mark node as
\* failed".  A report that finds its node registered gets past
\* handleNodeFailure only with the node marked.
ReportedFailureMarked ==
    \A c \in Notifier :
        notifier[c].pc = "mark" => status[notifier[c].node] \notin {"active", "standby"}

=============================================================================
