--------------------------- MODULE ComputeEngine ---------------------------
(***************************************************************************)
(* compute-engine's main.rs: the HTTP service that starts, stops and       *)
(* observes the training script of a pod.                                  *)
(*                                                                         *)
(* Every request runs on one actix worker, a single thread.  Handlers hold *)
(* script_process, a std Mutex, and stop_script keeps it across its        *)
(* awaits.  A request that finds the mutex taken blocks its whole worker,  *)
(* and an awaiting handler on that worker cannot resume.                   *)
(*                                                                         *)
(* A script is a shell running launch.sh with the trainer as its child.    *)
(***************************************************************************)
EXTENDS Naturals, FiniteSets

CONSTANTS
    Call,       \* the clients of the engine, one request each at a time
    Worker,     \* actix workers
    Script,     \* scripts that may exist at one time (a bound)
    None,       \* no script, no owner, no worker
    Events      \* what may happen to a pod, a subset of EventKinds

EventKinds == {"finish",    \* a script comes to its end
               "crash",     \* a script ends with a nonzero exit code
               "instant",   \* a script has ended by the time it is looked at
               "spawn",     \* a process cannot be spawned
               "server",    \* c4d-server refuses a connection
               "register"}  \* a registration attempt fails

ASSUME EventAssumption == Events \subseteq EventKinds
ASSUME NoneAssumption == None \notin Call \cup Worker \cup Script

VARIABLES
    child,      \* AppState.script_process
    lastExit,   \* exit_code of AppState.last_execution
    mu,         \* the call that holds script_process across an await
    shell,      \* shell[p]: the shell of script p, as its parent sees it
    trainer,    \* trainer[p]: the child of that shell
    call        \* call[c]: the request of client c

engineVars == <<child, lastExit, mu, shell, trainer, call>>

-----------------------------------------------------------------------------
(* Types. *)

Ended == {"zero", "nonzero", "signal"}

CallType == [pc     : {"idle", "sent", "lock", "pkill", "kill", "reap", "sleep", "answered"},
             op     : {"start", "stop", "restart", "status", "metrics"},
             worker : Worker \cup {None},
             script : Script \cup {None},
             answer : {"none", "started", "exited", "already", "error", "stopped",
                       "nothing", "ok", "failed"}]

NoCall   == [pc |-> "idle", op |-> "metrics", worker |-> None, script |-> None,
             answer |-> "none"]
Sent(op) == [NoCall EXCEPT !.pc = "sent", !.op = op]

EngineTypeOK ==
    /\ child \in Script \cup {None}
    /\ lastExit \in {"none", "zero", "nonzero"}
    /\ mu \in Call \cup {None}
    /\ shell \in [Script -> {"none", "up", "dying"} \cup Ended]
    /\ trainer \in [Script -> {"none", "up", "ending"}]
    /\ call \in [Call -> CallType]

EngineInit ==
    /\ child = None
    /\ lastExit = "none"
    /\ mu = None
    /\ shell = [p \in Script |-> "none"]
    /\ trainer = [p \in Script |-> "none"]
    /\ call = [c \in Call |-> NoCall]

-----------------------------------------------------------------------------
(* Requests. *)

\* Mutant: a signal is taken for an exit code.
ExitCode_Signal(p) == shell[p]

\* status.code(): a script killed by a signal has none.
ExitCode(p) == IF shell[p] = "signal" THEN "none" ELSE shell[p]

\* w is running a request, or waits for the mutex on its behalf.
Busy(w) == \E c \in Call : call[c].pc = "lock" /\ call[c].worker = w

\* The awaiting handler of c is polled again.
Resumes(c) == ~Busy(call[c].worker)

\* A worker accepts the connection and calls the handler.
Accept(c) ==
    /\ call[c].pc = "sent"
    /\ \E w \in Worker :
         /\ ~Busy(w)
         /\ call' = [call EXCEPT ![c].pc = "lock", ![c].worker = w]
    /\ UNCHANGED <<child, lastExit, mu, shell, trainer>>

\* c has script_process.lock().
HasLock(c, ops) ==
    /\ call[c].pc = "lock"
    /\ call[c].op \in ops
    /\ mu = None

Answer(c, answer) ==
    call' = [call EXCEPT ![c] = [NoCall EXCEPT !.pc = "answered", !.op = call[c].op,
                                               !.answer = answer]]

-----------------------------------------------------------------------------
(* start_script *)

\* Mutant: the script that runs already is overwritten.
ChildRuns_Ignored == FALSE

\* try_wait() is Ok(None).
ChildRuns == child # None /\ shell[child] \in {"up", "dying"}

Unused == {p \in Script : shell[p] = "none" /\ trainer[p] = "none"}

\* The child of an earlier start that has ended is reaped, and its exit code
\* forgotten.
Reaped == [p \in Script |-> IF p = child /\ shell[p] \in Ended THEN "none" ELSE shell[p]]

StartScript(c) ==
    /\ HasLock(c, {"start"})
    /\ \/ /\ ChildRuns
          /\ Answer(c, "already")
          /\ UNCHANGED <<child, lastExit, shell, trainer>>
       \/ /\ ~ChildRuns
          /\ "spawn" \in Events
          /\ child' = None
          /\ shell' = Reaped
          /\ Answer(c, "error")
          /\ UNCHANGED <<lastExit, trainer>>
       \/ /\ ~ChildRuns
          /\ "instant" \in Events
          /\ child' = None
          /\ lastExit' \in {"zero", "nonzero"}
          /\ shell' = Reaped
          /\ Answer(c, "exited")
          /\ UNCHANGED trainer
       \/ /\ ~ChildRuns
          /\ Unused # {}
          /\ LET p == CHOOSE p \in Unused : TRUE IN
             /\ child' = p
             /\ lastExit' = "none"
             /\ shell' = [Reaped EXCEPT ![p] = "up"]
             /\ trainer' = [trainer EXCEPT ![p] = "up"]
             /\ Answer(c, "started")
    /\ UNCHANGED mu

-----------------------------------------------------------------------------
(* stop_script and restart_script *)

\* What follows stop_script: restart_script ignores its answer and sleeps.
AfterStop(c, answer) ==
    IF call[c].op = "restart"
    THEN call' = [call EXCEPT ![c].pc = "sleep", ![c].script = None]
    ELSE Answer(c, answer)

\* take() empties script_process; the guard lives on.
StopScript(c) ==
    /\ HasLock(c, {"stop", "restart"})
    /\ IF child = None
       THEN AfterStop(c, "nothing") /\ UNCHANGED <<child, mu>>
       ELSE /\ mu' = c
            /\ child' = None
            /\ call' = [call EXCEPT ![c].pc = "pkill", ![c].script = child]
    /\ UNCHANGED <<lastExit, shell, trainer>>

\* kill_process_tree: pkill -P, a process of its own, sends SIGTERM to the
\* children of the shell.
KillChildren(c) ==
    LET p == call[c].script IN
    /\ call[c].pc = "pkill"
    /\ trainer' = [trainer EXCEPT ![p] = IF @ = "up" THEN "ending" ELSE @]
    /\ call' = [call EXCEPT ![c].pc = "kill"]
    /\ UNCHANGED <<child, lastExit, mu, shell>>

\* Its output awaited, the shell itself gets SIGKILL.
KillShell(c) ==
    LET p == call[c].script IN
    /\ call[c].pc = "kill"
    /\ Resumes(c)
    /\ shell' = [shell EXCEPT ![p] = IF @ = "up" THEN "dying" ELSE @]
    /\ call' = [call EXCEPT ![c].pc = "reap"]
    /\ UNCHANGED <<child, lastExit, mu, trainer>>

\* Mutant: the guard outlives a wait that timed out.
ReleasedBy_Exit(c) == IF shell[call[c].script] = "dying" THEN c ELSE None

\* script_process once stop_script has returned.
ReleasedBy(c) == None

\* The guards go, whether wait() or the timeout ended the await.
Reap(c) ==
    LET p == call[c].script IN
    /\ call[c].pc = "reap"
    /\ Resumes(c)
    /\ \/ /\ shell[p] \in Ended
          /\ lastExit' = ExitCode(p)
          /\ shell' = [shell EXCEPT ![p] = "none"]
       \/ /\ shell[p] = "dying"
          /\ UNCHANGED <<lastExit, shell>>
    /\ mu' = ReleasedBy(c)
    /\ AfterStop(c, "stopped")
    /\ UNCHANGED <<child, trainer>>

\* restart_script's two seconds are over: it goes on as start_script.
WakeUp(c) ==
    /\ call[c].pc = "sleep"
    /\ Resumes(c)
    /\ call' = [call EXCEPT ![c].pc = "lock", ![c].op = "start"]
    /\ UNCHANGED <<child, lastExit, mu, shell, trainer>>

-----------------------------------------------------------------------------
(* get_status and get_metrics *)

\* An ended child is reaped into last_execution.  The answer is "failed" when
\* last_execution has a nonzero exit code.
GetStatus(c) ==
    LET ended == child # None /\ ~ChildRuns
        code  == IF ended THEN ExitCode(child) ELSE lastExit
    IN
    /\ HasLock(c, {"status"})
    /\ lastExit' = code
    /\ shell' = IF ended THEN Reaped ELSE shell
    /\ child' = IF ended THEN None ELSE child
    /\ Answer(c, IF code = "nonzero" THEN "failed" ELSE "ok")
    /\ UNCHANGED <<mu, trainer>>

GetMetrics(c) ==
    /\ HasLock(c, {"metrics"})
    /\ Answer(c, "ok")
    /\ UNCHANGED <<child, lastExit, mu, shell, trainer>>

-----------------------------------------------------------------------------
(* The operating system. *)

\* A script ends by itself, with its trainer.
ScriptEnds(p) ==
    /\ shell[p] = "up"
    /\ trainer[p] = "up"
    /\ \/ "finish" \in Events /\ shell' = [shell EXCEPT ![p] = "zero"]
       \/ "crash" \in Events /\ shell' = [shell EXCEPT ![p] = "nonzero"]
    /\ trainer' = [trainer EXCEPT ![p] = "none"]
    /\ UNCHANGED <<child, lastExit, mu, call>>

\* A trainer that got SIGTERM ends; a shell that is still there exits with 143.
TrainerEnds(p) ==
    /\ trainer[p] = "ending"
    /\ trainer' = [trainer EXCEPT ![p] = "none"]
    /\ shell' = [shell EXCEPT ![p] = IF @ = "up" THEN "nonzero" ELSE @]
    /\ UNCHANGED <<child, lastExit, mu, call>>

\* A shell that got SIGKILL ends.  tokio reaps the children nobody waits for.
ShellEnds(p) ==
    /\ shell[p] = "dying"
    /\ shell' = [shell EXCEPT ![p] =
                   IF \E c \in Call : call[c].script = p THEN "signal" ELSE "none"]
    /\ UNCHANGED <<child, lastExit, mu, trainer, call>>

EngineStep(c) ==
    \/ Accept(c) \/ StartScript(c) \/ StopScript(c) \/ KillChildren(c)
    \/ KillShell(c) \/ Reap(c) \/ WakeUp(c) \/ GetStatus(c) \/ GetMetrics(c)

SystemStep(p) == ScriptEnds(p) \/ TrainerEnds(p) \/ ShellEnds(p)

=============================================================================
