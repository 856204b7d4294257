-------------------------------- MODULE Pod --------------------------------
(***************************************************************************)
(* A compute pod: the monitor and the compute engine it drives, with the   *)
(* training scripts the engine runs.  c4d-server is the environment: it    *)
(* accepts registrations and sends commands in any order, several at once. *)
(***************************************************************************)
EXTENDS Monitor

podVars == <<engineVars, monitorVars>>

PodInit == EngineInit /\ MonitorInit

\* The parts of the pod that run by themselves.
PodStep ==
    \/ \E c \in Call : EngineStep(c) /\ UNCHANGED monitorVars
    \/ \E p \in Script : SystemStep(p) /\ UNCHANGED monitorVars
    \/ Register \/ RegisterFails
    \/ \E h \in Handler : HandlerStep(h)
    \/ \E s \in Sender : SenderStep(s) \/ SenderStops(s)
    \/ \E k \in Heart : HeartStep(k) \/ HeartStops(k) \/ HeartRefused(k)

PodCommand == CommandStart \/ CommandStop \/ CommandRestart \/ HandleRestart \/ HandleRemove

PodNext == PodStep \/ PodCommand

PodSpec == PodInit /\ [][PodNext]_podVars

-----------------------------------------------------------------------------
(* Fairness: goroutines and workers run, timers fire, processes that were    *)
(* signalled end, and a thread that waits for script_process gets it if it   *)
(* is free again and again.  Scripts need not end, and commands need not     *)
(* arrive.                                                                   *)

EngineFairness ==
    /\ \A c \in Call : SF_podVars(EngineStep(c) /\ UNCHANGED monitorVars)
    /\ \A p \in Script : WF_podVars((TrainerEnds(p) \/ ShellEnds(p)) /\ UNCHANGED monitorVars)

MonitorFairness ==
    /\ \A h \in Handler : WF_podVars(HandlerStep(h))
    /\ \A s \in Sender : WF_podVars(SenderStep(s))

PodFairSpec == PodSpec /\ EngineFairness /\ MonitorFairness

-----------------------------------------------------------------------------
(* Safety *)

\* The engine never loses a script that runs: it is the one script_process
\* holds, or a stop request has taken it and is about to kill it.  (The check
\* and the spawn of start_script, the take of stop_script and the reaping of
\* get_status interleave with each other and with the script ending.)
ScriptOwned ==
    \A p \in Script :
        shell[p] = "up" => \/ child = p
                           \/ \E c \in Call : call[c].script = p /\ call[c].pc \in {"pkill", "kill"}

\* A node that runs is watched: some sender will look at the status again, and
\* has not been told to stop.  (Senders stop by a channel that every restart
\* closes and replaces, and reread the field that holds it.)
Watching(s) ==
    \/ sender[s].pc \in {"loop", "post", "metrics", "status", "metrics2"}
    \/ sender[s].pc = "select" /\ ~sender[s].closed

WatchedWhileRunning == mstate = "Running" => \E s \in Sender : Watching(s)

\* A node that has not failed has a goroutine that beats.  (A failure stops the
\* heartbeat, but a command under way may lead the node out of Failed again,
\* while the old goroutine is still on its way to the channel it selects on.)
Beating(k) ==
    \/ heart[k].pc \in {"loop", "sending"}
    \/ heart[k].pc = "select" /\ ~heart[k].closed

BeatsUnlessFailed ==
    mstate \in {"Standby", "Running", "Restarting"} => \E k \in Heart : Beating(k)

-----------------------------------------------------------------------------
(* Liveness *)

\* A worker is blocked on the mutex that a handler awaiting on it holds.
Jammed == \E c \in Call : call[c].pc \in {"pkill", "kill", "reap"} /\ Busy(call[c].worker)

\* A script that crashed does not stay unnoticed: the node leaves Running, or
\* starts the next script, unless the engine has jammed.
Crashed ==
    \/ lastExit = "nonzero"
    \/ child # None /\ shell[child] = "nonzero"

CrashNoticed == (mstate = "Running" /\ Crashed) ~> (mstate # "Running" \/ ~Crashed \/ Jammed)

\* A restart concludes, whatever the commands it runs into, unless the engine
\* has jammed.
RestartConcludesUnlessJammed ==
    mstate = "Restarting" ~> (mstate # "Restarting" \/ Jammed)

-----------------------------------------------------------------------------
(* What the documentation and the comments say of the pod, and the code does *)
(* not do.                                                                   *)

\* compute-engine/README.md on POST /stop: "Stops the currently running
\* process".  A stop request that has signalled the trainer goes on; on a
\* worker that blocks on the mutex the request itself holds it never does.
StopEnds == \A c \in Call : call[c].pc = "kill" ~> call[c].pc # "kill"

=============================================================================
