---------------------------- MODULE Registration ----------------------------
(***************************************************************************)
(* server.go's Register and SendHeartbeat, and the start of the program    *)
(* that the registration completing the cluster triggers                   *)
(* (cluster.go's checkAndStartProgram and startProgramOnNodes).            *)
(*                                                                         *)
(* Register holds no lock from end to end: it reads the state, looks the   *)
(* node up, reserves a slot, stores a session, stores the node and counts, *)
(* each in a critical section of its own, so each is an action here.  A    *)
(* client issues its registrations one after the other; a second one may   *)
(* arrive while an earlier handler of the same node is still starting the  *)
(* program, because the client's deadline passes long before.              *)
(***************************************************************************)
EXTENDS C4DServerBase, Functions

RegGoto(n, pc) == reg' = [reg EXCEPT ![n].pc = pc]
RegDone(n) == reg' = [reg EXCEPT ![n] = IdleReg]

-----------------------------------------------------------------------------
(* Register *)

\* The states in which Register accepts a node.
Accepting == state \in {"Initializing", "Running"}

\* Register's entry: the state is checked once, here.
RegisterAdmit(n) ==
    /\ reg[n].pc = "idle"
    /\ Accepting
    /\ RegGoto(n, "admitted")
    /\ UNCHANGED <<state, registryVars, session, counterVars, registryMu, cmMu,
                   starter, notifier, hm, task, told, disruptions>>

\* A registered node reconnects: it keeps its status and rank, whatever they
\* are, and gets a fresh health record.
Reconnect(n) ==
    /\ session' = [session EXCEPT ![n] = "connected"]
    /\ health' = [health EXCEPT ![n] = "fresh"]
    /\ healthFailed' = [healthFailed EXCEPT ![n] = status[n] = "failed"]
    /\ RegDone(n)

\* The lookup of an existing session and, under registry.mu, of the node.
RegisterLookup(n) ==
    /\ Alive
    /\ reg[n].pc = "admitted"
    /\ IF session[n] = "none"
       THEN /\ RegGoto(n, "reserve")
            /\ UNCHANGED <<session, health, healthFailed>>
       ELSE /\ UnderRegistryMu
            /\ IF n \in Registered
               THEN Reconnect(n)
               ELSE /\ RegGoto(n, "reserve")
                    /\ UNCHANGED <<session, health, healthFailed>>
    /\ UNCHANGED <<state, status, rank, counterVars, registryMu, cmMu,
                   starter, notifier, hm, task, told, disruptions>>

ActiveSlotFree  == activeCtr < ActiveNodes
StandbySlotFree == standbyCtr < StandbyNodes

\* Under metrics.mu: reserve an active slot, else a standby slot, else refuse.
RegisterReserve(n) ==
    /\ Alive
    /\ reg[n].pc = "reserve"
    /\ \/ /\ ActiveSlotFree
          /\ reg' = [reg EXCEPT ![n] = [pc |-> "session", as |-> "active", rank |-> activeCtr]]
          /\ activeCtr' = activeCtr + 1
          /\ UNCHANGED standbyCtr
       \/ /\ ~ActiveSlotFree
          /\ StandbySlotFree
          /\ reg' = [reg EXCEPT ![n] = [pc |-> "session", as |-> "standby", rank |-> -1]]
          /\ standbyCtr' = standbyCtr + 1
          /\ UNCHANGED activeCtr
       \/ /\ ~ActiveSlotFree
          /\ ~StandbySlotFree
          /\ RegDone(n)
          /\ UNCHANGED counterVars
    /\ UNCHANGED <<state, registryVars, session, registryMu, cmMu,
                   starter, notifier, hm, task, told, disruptions>>

\* SessionManager.RegisterSession.
RegisterSession(n) ==
    /\ Alive
    /\ reg[n].pc = "session"
    /\ session' = [session EXCEPT ![n] = "connected"]
    /\ RegGoto(n, "store")
    /\ UNCHANGED <<state, registryVars, counterVars, registryMu, cmMu,
                   starter, notifier, hm, task, told, disruptions>>

\* NodeRegistry.RegisterNode: a new object for the node and a fresh health.
RegisterNode(n) ==
    /\ Alive
    /\ reg[n].pc = "store"
    /\ UnderRegistryMu
    /\ status' = [status EXCEPT ![n] = reg[n].as]
    /\ rank' = [rank EXCEPT ![n] = reg[n].rank]
    /\ health' = [health EXCEPT ![n] = "fresh"]
    /\ healthFailed' = [healthFailed EXCEPT ![n] = FALSE]
    /\ RegGoto(n, "count")
    /\ UNCHANGED <<state, session, counterVars, registryMu, cmMu,
                   starter, notifier, hm, task, told, disruptions>>

\* Every expected node has a slot and the program has not been started.
AllRegistered ==
    /\ activeCtr + standbyCtr = ActiveNodes + StandbyNodes
    /\ state = "Initializing"

\* The end of Register: the handler that completes the cluster goes on to
\* start the program.  (One starting handler per node is modelled.)
RegisterCount(n) ==
    /\ Alive
    /\ reg[n].pc = "count"
    /\ starter[n].pc = "idle"
    /\ starter' = IF AllRegistered THEN [starter EXCEPT ![n].pc = "waiting"] ELSE starter
    /\ RegDone(n)
    /\ UNCHANGED <<state, registryVars, session, counterVars, registryMu, cmMu,
                   notifier, hm, task, told, disruptions>>

\* SendHeartbeat, for a node that has a health record.
SendHeartbeat(n) ==
    /\ Alive
    /\ UnderRegistryMu
    /\ health[n] # "absent"
    /\ health' = [health EXCEPT ![n] = "fresh"]
    /\ UNCHANGED <<state, status, rank, healthFailed, session, counterVars,
                   registryMu, cmMu, handlerVars, task, told, disruptions>>

-----------------------------------------------------------------------------
(* checkAndStartProgram and startProgramOnNodes *)

\* Mutants: the check for a running program is dropped; the comparison is off.
NothingToStart_Restarts == Cardinality(WithStatus("active")) < ActiveNodes
NothingToStart_OffByOne ==
    Cardinality(WithStatus("active")) <= ActiveNodes \/ state = "Running"

\* Too few active nodes, or the program already runs: nothing to start.
NothingToStart == Cardinality(WithStatus("active")) < ActiveNodes \/ state = "Running"

\* The order of the URLs is not related to anything else, so it is any order.
StartOrders == Bijection(1 .. Cardinality(WithStatus("active")), WithStatus("active"))

\* checkAndStartProgram up to the sleep: it takes cm.mu, reads the registry
\* without registry.mu, and assigns ranks.
StartAcquire(n) ==
    /\ Alive
    /\ starter[n].pc = "waiting"
    /\ cmMu = None
    /\ IF ~Accepting \/ NothingToStart
       THEN /\ starter' = [starter EXCEPT ![n] = IdleStarter]
            /\ UNCHANGED <<cmMu, rank>>
       ELSE \E order \in StartOrders :
            /\ cmMu' = n
            /\ rank' = [m \in Node |->
                          IF status[m] = "active"
                          THEN (CHOOSE i \in DOMAIN order : order[i] = m) - 1
                          ELSE rank[m]]
            /\ starter' = [starter EXCEPT ![n] =
                             [pc |-> "starting", order |-> order,
                              pending |-> WithStatus("active"), bad |-> {}]]
    /\ UNCHANGED <<state, status, health, healthFailed, session, counterVars,
                   registryMu, reg, notifier, hm, task, told, disruptions>>

\* The rank a starting handler n sends to m: node.Rank of the object in its list.
StartRank(n, m) ==
    (CHOOSE i \in DOMAIN starter[n].order : starter[n].order[i] = m) - 1

\* sendStartCommand to m: it is answered, or it fails, before or after the
\* monitor acted on it.
StartSend(n, m) ==
    /\ Alive
    /\ starter[n].pc = "starting"
    /\ m \in starter[n].pending
    /\ \E delivered, error \in BOOLEAN :
         /\ delivered \/ error
         /\ error => m \in Unreachable
         /\ told' = IF delivered THEN [told EXCEPT ![m] = StartRank(n, m)] ELSE told
         /\ starter' = [starter EXCEPT
                          ![n].pending = @ \ {m},
                          ![n].bad = IF error THEN @ \cup {m} ELSE @]
    /\ UNCHANGED <<state, registryVars, session, counterVars, registryMu, cmMu,
                   reg, notifier, hm, task, disruptions>>

\* Mutant: one answer is enough.
StartSucceeded_Partly(n) == Cardinality(starter[n].bad) < Len(starter[n].order)

\* startProgramOnNodes returns no error.
StartSucceeded(n) == starter[n].bad = {}

\* All answers are in.  Any error leaves the server Initializing.
StartFinish(n) ==
    /\ Alive
    /\ starter[n].pc = "starting"
    /\ starter[n].pending = {}
    /\ cmMu' = None
    /\ state' = IF StartSucceeded(n) /\ CanTransition("Running")
                THEN "Running" ELSE state
    /\ starter' = [starter EXCEPT ![n] = IdleStarter]
    /\ UNCHANGED <<registryVars, session, counterVars, registryMu,
                   reg, notifier, hm, task, told, disruptions>>

RegistrationStep ==
    \E n \in Node :
      \/ RegisterAdmit(n)
      \/ RegisterLookup(n)
      \/ RegisterReserve(n)
      \/ RegisterSession(n)
      \/ RegisterNode(n)
      \/ RegisterCount(n)
      \/ SendHeartbeat(n)
      \/ StartAcquire(n)
      \/ StartFinish(n)
      \/ \E m \in Node : StartSend(n, m)

=============================================================================
