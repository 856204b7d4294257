------------------------------ MODULE Monitor ------------------------------
(***************************************************************************)
(* The monitor of a pod: the state machine of monitor.go, the commands it  *)
(* serves, and its goroutines, the metric senders of agent.go and the      *)
(* heartbeats.  Commands and senders call the compute engine over HTTP,    *)
(* without a timeout.                                                      *)
(*                                                                         *)
(* setState runs under stateMux and is one action with its caller's step;  *)
(* the checks that precede it have released the mutex.                     *)
(***************************************************************************)
EXTENDS ComputeEngine

CONSTANTS
    Handler,      \* concurrent requests to the monitor's HTTP server
    Sender,       \* sendMetrics goroutines that may exist (a bound)
    Heart,        \* heartbeat goroutines that may exist (a bound)
    MaxRetries,   \* registration attempts (10)
    MaxTries,     \* startAgent's attempts (5)
    MaxCommands   \* bound: commands in a behaviour

\* One command makes at most one sender and at most two heartbeats; the node
\* makes one heartbeat when it has registered.
ASSUME MonitorAssumption ==
    /\ Call = Handler \cup Sender
    /\ Handler \cap Sender = {}
    /\ {MaxRetries, MaxTries} \subseteq Nat \ {0}
    /\ MaxCommands \in Nat
    /\ IsFiniteSet(Sender) /\ Cardinality(Sender) >= MaxCommands
    /\ IsFiniteSet(Heart) /\ Cardinality(Heart) >= 2 * MaxCommands + 1

VARIABLES
    mstate,     \* Monitor.state, or "Exited" once the process is gone
    retries,    \* registration attempts so far
    lastErr,    \* lastErr # nil in Start
    ticker,     \* heartbeatTicker # nil
    handler,    \* handler[h]: handleCommand, handleRestart or handleRemove
    sender,     \* sender[s]: the sendMetrics goroutines
    heart,      \* heart[k]: the heartbeat goroutines
    commands    \* bound: commands so far

monitorVars == <<mstate, retries, lastErr, ticker, handler, sender, heart, commands>>

-----------------------------------------------------------------------------
(* Types. *)

HandlerType == [pc  : {"idle", "begin", "stop", "stopping", "launch", "starting",
                       "clearing", "rerank", "reranking"},
                op  : {"start", "stop", "restart", "rerank", "remove"},
                was : BOOLEAN,    \* currentState = Running
                try : Nat]        \* retries
IdleHandler == [pc |-> "idle", op |-> "stop", was |-> FALSE, try |-> 0]

\* closed: the channel the goroutine selects on has been closed.
LoopType == [pc     : {"idle", "loop", "select", "post", "metrics", "status", "metrics2", "sending"},
             closed : BOOLEAN]
IdleLoop == [pc |-> "idle", closed |-> FALSE]

MonitorTypeOK ==
    /\ EngineTypeOK
    /\ mstate \in {"Initializing", "Standby", "Running", "Restarting", "Failed", "Exited"}
    /\ retries \in Nat
    /\ lastErr \in BOOLEAN
    /\ ticker \in BOOLEAN
    /\ handler \in [Handler -> HandlerType]
    /\ sender \in [Sender -> LoopType]
    /\ heart \in [Heart -> LoopType]
    /\ commands \in Nat

MonitorInit ==
    /\ mstate = "Initializing"
    /\ retries = 0
    /\ lastErr = FALSE
    /\ ticker = FALSE
    /\ handler = [h \in Handler |-> IdleHandler]
    /\ sender = [s \in Sender |-> IdleLoop]
    /\ heart = [k \in Heart |-> IdleLoop]
    /\ commands = 0

\* The process runs.
Up == mstate # "Exited"

\* The HTTP server is set up once Start has returned.
Serving == mstate \notin {"Initializing", "Exited"}

-----------------------------------------------------------------------------
(* setState *)

\* close() on the channel loops select on.
Close(loops) ==
    [l \in DOMAIN loops |-> [loops[l] EXCEPT !.closed = @ \/ loops[l].pc = "select"]]

\* go func()
Spawn(loops) ==
    LET l == CHOOSE l \in DOMAIN loops : loops[l] = IdleLoop
    IN  [loops EXCEPT ![l].pc = "loop"]

\* The transitions that close stopChan, and make another.
ClosesStopChan(new) ==
    new = "Restarting" \/ (new = "Standby" /\ mstate = "Running")

\* Mutant: only a node that was on standby gets a sender.
StartsSender_FromStandby(new) == new = "Running" /\ mstate = "Standby"

\* The transitions that start a sender.
StartsSender(new) == new = "Running"

\* Mutant: a restart stops the heartbeat.
StopsHeartbeat_Restarting(new) == new \in {"Restarting", "Failed"}

\* The transitions that stop the heartbeat; the others start it.
StopsHeartbeat(new) == new = "Failed"

\* setState(new), in a step that leaves the goroutines in senders and hearts.
SetState(new, senders, hearts) ==
    LET closed == IF ClosesStopChan(new) THEN Close(senders) ELSE senders IN
    /\ mstate' = new
    /\ sender' = IF StartsSender(new) THEN Spawn(closed) ELSE closed
    /\ ticker' = ~StopsHeartbeat(new)
    /\ heart' = IF StopsHeartbeat(new)
                THEN IF ticker THEN Close(hearts) ELSE hearts
                ELSE IF ticker THEN hearts ELSE Spawn(hearts)
    /\ UNCHANGED <<retries, lastErr, commands>>

SetStateBy(h, new) ==
    /\ SetState(new, sender, heart)
    /\ handler' = [handler EXCEPT ![h] = IdleHandler]

Goto(h, pc) ==
    /\ handler' = [handler EXCEPT ![h] = IF pc = "idle" THEN IdleHandler ELSE [@ EXCEPT !.pc = pc]]
    /\ UNCHANGED <<mstate, retries, lastErr, ticker, sender, heart, commands>>

-----------------------------------------------------------------------------
(* Start *)

\* lastErr is never cleared: an attempt that succeeds after one that failed
\* counts as a failure.
RegisterRefused == lastErr

\* main exits when Start returns an error.
Exit ==
    /\ mstate' = "Exited"
    /\ UNCHANGED <<retries, lastErr, ticker, handler, sender, heart, commands>>

Register ==
    /\ mstate = "Initializing"
    /\ IF RegisterRefused
       THEN Exit
       ELSE SetState("Standby", sender, heart) /\ UNCHANGED handler
    /\ UNCHANGED engineVars

\* A deadline or a server that reconfigures is tried again, any other error is
\* returned at once.
RegisterFails ==
    /\ mstate = "Initializing"
    /\ "register" \in Events
    /\ \/ Exit
       \/ /\ retries + 1 < MaxRetries
          /\ retries' = retries + 1
          /\ lastErr' = TRUE
          /\ UNCHANGED <<mstate, ticker, handler, sender, heart, commands>>
    /\ UNCHANGED engineVars

-----------------------------------------------------------------------------
(* handleCommand, handleRestart and handleRemove.  A request that is refused *)
(* changes nothing and is not an action.                                     *)

\* gin serves the request with a goroutine of its own.
Request(op, pc) ==
    /\ Serving
    /\ \E h \in Handler : handler[h].pc = "idle"
    /\ commands < MaxCommands
    /\ commands' = commands + 1
    /\ LET h == CHOOSE h \in Handler : handler[h].pc = "idle" IN
       handler' = [handler EXCEPT ![h] = [IdleHandler EXCEPT !.pc = pc, !.op = op,
                                                             !.was = (mstate = "Running")]]
    /\ UNCHANGED <<mstate, retries, lastErr, ticker, sender, heart, engineVars>>

CommandStart   == mstate = "Standby" /\ Request("start", "launch")
CommandStop    == Request("stop", "stop")
CommandRestart == mstate # "Failed" /\ Request("restart", "begin")
HandleRestart  == mstate # "Failed" /\ Request("rerank", "begin")
HandleRemove   == mstate \notin {"Failed", "Standby"} /\ Request("remove", "stop")

InHandler(h, pc) == Up /\ handler[h].pc = pc

\* A restart enters Restarting, whatever the state has become since the check.
Begin(h) ==
    /\ InHandler(h, "begin")
    /\ SetState("Restarting", sender, heart)
    /\ handler' = [handler EXCEPT ![h].pc =
                     IF handler[h].op = "rerank" THEN "rerank"
                     ELSE IF handler[h].was THEN "stop" ELSE "launch",
                                      ![h].was = FALSE]
    /\ UNCHANGED engineVars

\* h calls the engine.
Send(h, op) == call' = [call EXCEPT ![h] = Sent(op)]

\* The engine has answered h, who goes on.
Answered(h) == call[h].pc = "answered"
Consume(h)  == call' = [call EXCEPT ![h] = NoCall]

engineRest == <<child, lastExit, mu, shell, trainer>>

\* What stopAgent returning an error does, and what its success does.
StopFailed(h) ==
    CASE handler[h].op = "stop"    -> Goto(h, "idle")
      [] handler[h].op = "restart" -> SetStateBy(h, "Failed")
      [] handler[h].op = "remove"  -> SetStateBy(h, "Standby")

StopSucceeded(h) ==
    IF handler[h].op = "restart" THEN Goto(h, "launch") ELSE SetStateBy(h, "Standby")

\* stopAgent
StopAgent(h) ==
    /\ InHandler(h, "stop")
    /\ IF mstate \in {"Running", "Restarting"}
       THEN Goto(h, "stopping") /\ Send(h, "stop")
       ELSE StopFailed(h) /\ UNCHANGED call
    /\ UNCHANGED engineRest

StopAgentEnds(h) ==
    /\ InHandler(h, "stopping")
    /\ Answered(h)
    /\ Consume(h)
    /\ IF call[h].answer = "stopped" THEN StopSucceeded(h) ELSE StopFailed(h)
    /\ UNCHANGED engineRest

\* startAgent: the state is checked before the first attempt only.
StartAgent(h) ==
    /\ InHandler(h, "launch")
    /\ IF mstate \in {"Standby", "Restarting"}
       THEN Goto(h, "starting") /\ Send(h, "start")
       ELSE SetStateBy(h, "Failed") /\ UNCHANGED call
    /\ UNCHANGED engineRest

\* The next attempt, or the end of them.
TryAgain(h) ==
    IF handler[h].try + 1 < MaxTries
    THEN /\ handler' = [handler EXCEPT ![h].pc = "starting", ![h].try = @ + 1]
         /\ Send(h, "start")
         /\ UNCHANGED <<mstate, retries, lastErr, ticker, sender, heart, commands>>
    ELSE SetStateBy(h, "Failed") /\ Consume(h)

\* A process that runs already is stopped before the next attempt.
StartAgentEnds(h) ==
    /\ InHandler(h, "starting")
    /\ Answered(h)
    /\ CASE call[h].answer = "started" -> SetStateBy(h, "Running") /\ Consume(h)
         [] call[h].answer = "already" -> Goto(h, "clearing") /\ Send(h, "stop")
         [] OTHER                      -> TryAgain(h)
    /\ UNCHANGED engineRest

ClearEnds(h) ==
    /\ InHandler(h, "clearing")
    /\ Answered(h)
    /\ IF call[h].answer = "stopped" THEN TryAgain(h) ELSE SetStateBy(h, "Failed") /\ Consume(h)
    /\ UNCHANGED engineRest

\* restartAgent takes any answer that is not an error for a success.
RestartAgent(h) ==
    /\ InHandler(h, "rerank")
    /\ Goto(h, "reranking")
    /\ Send(h, "restart")
    /\ UNCHANGED engineRest

RestartAgentEnds(h) ==
    /\ InHandler(h, "reranking")
    /\ Answered(h)
    /\ Consume(h)
    /\ SetStateBy(h, IF call[h].answer \in {"already", "error"} THEN "Failed" ELSE "Running")
    /\ UNCHANGED engineRest

-----------------------------------------------------------------------------
(* sendMetrics *)

SenderTo(s, pc) == [sender EXCEPT ![s] = [pc |-> pc, closed |-> FALSE]]

SenderGoes(s, pc) ==
    /\ sender' = SenderTo(s, pc)
    /\ UNCHANGED <<mstate, retries, lastErr, ticker, handler, heart, commands>>

InSender(s, pc) == Up /\ sender[s].pc = pc

\* The select reads m.stopChan anew, also when it is not the channel this
\* goroutine was started under.
SenderLoop(s) ==
    /\ InSender(s, "loop")
    /\ SenderGoes(s, "select")
    /\ UNCHANGED engineVars

SenderStops(s) ==
    /\ InSender(s, "select")
    /\ sender[s].closed
    /\ SenderGoes(s, "idle")
    /\ UNCHANGED engineVars

\* A node that is not running ends its sender.
SenderTicks(s) ==
    /\ InSender(s, "select")
    /\ SenderGoes(s, IF mstate = "Running" THEN "post" ELSE "idle")
    /\ UNCHANGED engineVars

\* sendMetricsToServer needs the node to run still.  Its errors are only logged.
SenderPosts(s) ==
    /\ InSender(s, "post")
    /\ IF mstate = "Running"
       THEN SenderGoes(s, "metrics") /\ Send(s, "metrics")
       ELSE SenderGoes(s, "status") /\ Send(s, "status")
    /\ UNCHANGED engineRest

MetricsSent(s) ==
    /\ InSender(s, "metrics")
    /\ Answered(s)
    /\ SenderGoes(s, "status")
    /\ Send(s, "status")
    /\ UNCHANGED engineRest

\* Mutant: the exit code is not looked at.
ReportsFailure_Never(answer) == FALSE

\* A nonzero exit code of the last execution.
ReportsFailure(answer) == answer = "failed"

StatusKnown(s) ==
    /\ InSender(s, "status")
    /\ Answered(s)
    /\ IF ReportsFailure(call[s].answer)
       THEN SetState("Failed", SenderTo(s, "idle"), heart) /\ Consume(s) /\ UNCHANGED handler
       ELSE IF mstate = "Running"
            THEN SenderGoes(s, "metrics2") /\ Send(s, "metrics")
            ELSE SenderGoes(s, "loop") /\ Consume(s)
    /\ UNCHANGED engineRest

MetricsSentAgain(s) ==
    /\ InSender(s, "metrics2")
    /\ Answered(s)
    /\ SenderGoes(s, "loop")
    /\ Consume(s)
    /\ UNCHANGED engineRest

-----------------------------------------------------------------------------
(* startHeartbeat's goroutine *)

HeartTo(k, pc) == [heart EXCEPT ![k] = [pc |-> pc, closed |-> FALSE]]

HeartGoes(k, pc) ==
    /\ heart' = HeartTo(k, pc)
    /\ UNCHANGED <<mstate, retries, lastErr, ticker, handler, sender, commands, engineVars>>

InHeart(k, pc) == Up /\ heart[k].pc = pc

\* The select reads m.heartbeatTicker.C, which panics once stopHeartbeat has
\* set the ticker to nil.
HeartLoop(k) ==
    /\ InHeart(k, "loop")
    /\ IF ticker THEN HeartGoes(k, "select") ELSE Exit /\ UNCHANGED engineVars

HeartStops(k) ==
    /\ InHeart(k, "select")
    /\ heart[k].closed
    /\ HeartGoes(k, "idle")

\* Of two channels that are ready the select may choose the ticker.
HeartTicks(k) ==
    /\ InHeart(k, "select")
    /\ HeartGoes(k, IF mstate = "Failed" THEN "loop" ELSE "sending")

HeartSent(k) ==
    /\ InHeart(k, "sending")
    /\ HeartGoes(k, "loop")

\* A refused connection fails the node, and ends the goroutine.
HeartRefused(k) ==
    /\ InHeart(k, "sending")
    /\ "server" \in Events
    /\ SetState("Failed", sender, HeartTo(k, "idle"))
    /\ UNCHANGED <<handler, engineVars>>

-----------------------------------------------------------------------------

HandlerStep(h) ==
    \/ Begin(h) \/ StopAgent(h) \/ StopAgentEnds(h) \/ StartAgent(h)
    \/ StartAgentEnds(h) \/ ClearEnds(h) \/ RestartAgent(h) \/ RestartAgentEnds(h)

SenderStep(s) ==
    \/ SenderLoop(s) \/ SenderTicks(s) \/ SenderPosts(s) \/ MetricsSent(s) \/ StatusKnown(s)
    \/ MetricsSentAgain(s)

HeartStep(k) == HeartLoop(k) \/ HeartTicks(k) \/ HeartSent(k)

=============================================================================
