----------------------------- MODULE PodProofs -----------------------------
(***************************************************************************)
(* Proofs about Pod: for any number of clients, workers, scripts and       *)
(* commands, and whatever fails, no script is lost by the engine, a node   *)
(* that runs is watched, and a node that has not failed beats.             *)
(***************************************************************************)
EXTENDS Pod, FiniteSetTheorems, TLAPS

-----------------------------------------------------------------------------
(* The inductive invariant *)

\* A stop request under way has the script it took.
TakenScripts ==
    \A c \in Call : call[c].pc \in {"pkill", "kill", "reap"} => call[c].script \in Script

EngineInv == EngineTypeOK /\ TakenScripts /\ ScriptOwned

\* A handler or a sender has a request under way only while it waits for the
\* answer.  (A second one would overwrite the first, and lose its script.)
HandlerWaits(h) == handler[h].pc \in {"stopping", "starting", "clearing", "reranking"}
SenderWaits(s) == sender[s].pc \in {"metrics", "status", "metrics2"}

CallsMatch ==
    /\ \A h \in Handler : ~HandlerWaits(h) => call[h].pc = "idle"
    /\ \A s \in Sender : ~SenderWaits(s) => call[s].pc = "idle"

\* Only a restart enters Restarting, only what stops the script waits for that.
OpFits(r) ==
    /\ r.pc = "begin" => r.op \in {"restart", "rerank"}
    /\ r.pc \in {"stop", "stopping"} => r.op \in {"stop", "restart", "remove"}

OpsFit == \A h \in Handler : OpFits(handler[h])

\* The goroutines that exist.
Live(loops) == {l \in DOMAIN loops : loops[l] # IdleLoop}

Serviced == {h \in Handler : handler[h].pc # "idle"}
Beginning == {h \in Handler : handler[h].pc = "begin"}

\* Each command makes at most one sender, when it ends, and at most two
\* heartbeats, one of them when it begins; the registration makes one: there is
\* always a goroutine left to make.
GoroutinesCounted ==
    /\ IsFiniteSet(Serviced)
    /\ commands <= MaxCommands
    /\ Cardinality(Live(sender)) + Cardinality(Serviced) <= commands
    /\ Cardinality(Live(heart)) + Cardinality(Serviced) + Cardinality(Beginning)
         + (IF mstate = "Initializing" THEN 1 ELSE 0) <= 2 * commands + 1

\* The heartbeat's ticker exists exactly in the states that need it, and has a
\* goroutine that waits for it.
HeartbeatsTick ==
    /\ mstate \in {"Standby", "Running", "Restarting"} => ticker
    /\ ticker => \E k \in Heart : Beating(k)

MonitorTypes ==
    /\ mstate \in {"Initializing", "Standby", "Running", "Restarting", "Failed", "Exited"}
    /\ retries \in Nat
    /\ lastErr \in BOOLEAN
    /\ ticker \in BOOLEAN
    /\ handler \in [Handler -> HandlerType]
    /\ sender \in [Sender -> LoopType]
    /\ heart \in [Heart -> LoopType]
    /\ commands \in Nat

MonitorInv == MonitorTypes /\ GoroutinesCounted /\ WatchedWhileRunning /\ HeartbeatsTick

PodInv == EngineInv /\ MonitorInv /\ CallsMatch /\ OpsFit

-----------------------------------------------------------------------------
(* The engine *)

Shells == {"none", "up", "dying"} \cup Ended

\* What a step of the engine on behalf of c leaves c with.
LEMMA CallBecomes ==
    ASSUME EngineTypeOK, NEW c \in Call, NEW r \in CallType, call' = [call EXCEPT ![c] = r]
    PROVE  /\ call' \in [Call -> CallType]
           /\ call'[c] = r
           /\ \A d \in Call \ {c} : call'[d] = call[d]
BY DEF EngineTypeOK

\* The answer of a handler, and what follows stop_script.
LEMMA AnswerEffect ==
    ASSUME EngineTypeOK, NEW c \in Call,
           NEW answer \in {"none", "started", "exited", "already", "error", "stopped",
                           "nothing", "ok", "failed"},
           Answer(c, answer) \/ AfterStop(c, answer)
    PROVE  /\ call' \in [Call -> CallType]
           /\ call'[c].pc \in {"answered", "sleep"}
           /\ \A d \in Call \ {c} : call'[d] = call[d]
<1>1. call[c] \in CallType
  BY DEF EngineTypeOK
<1>2. CASE Answer(c, answer)
  <2> DEFINE r == [NoCall EXCEPT !.pc = "answered", !.op = call[c].op, !.answer = answer]
  <2>1. r \in CallType /\ r.pc = "answered"
    BY <1>1 DEF CallType, NoCall
  <2>2. call' = [call EXCEPT ![c] = r]
    BY <1>2 DEF Answer
  <2> HIDE DEF r
  <2>3. QED
    BY <2>1, <2>2, CallBecomes
<1>3. CASE AfterStop(c, answer) /\ ~Answer(c, answer)
  <2> DEFINE r == [call[c] EXCEPT !.pc = "sleep", !.script = None]
  <2>1. r \in CallType /\ r.pc = "sleep"
    BY <1>1 DEF CallType
  <2>2. call' = [call EXCEPT ![c] = r]
    BY <1>3 DEF AfterStop
  <2> HIDE DEF r
  <2>3. QED
    BY <2>1, <2>2, CallBecomes
<1>4. QED
  BY <1>2, <1>3

\* The child that has ended is reaped, and nothing else.
LEMMA ReapedType ==
    ASSUME EngineTypeOK
    PROVE  /\ Reaped \in [Script -> Shells]
           /\ \A p \in Script : Reaped[p] = "up" <=> shell[p] = "up"
BY DEF EngineTypeOK, Reaped, Shells, Ended

\* While c does not kill a script, before or after, scripts keep their owners as
\* long as script_process keeps the one that runs.
LEMMA OwnersKept ==
    ASSUME EngineTypeOK, ScriptOwned, TakenScripts, NEW c \in Call,
           \A d \in Call \ {c} : call'[d] = call[d],
           call[c].pc \notin {"pkill", "kill"},
           call'[c].pc \notin {"pkill", "kill", "reap"},
           \A p \in Script : shell'[p] = "up" =>
               p = child' \/ (shell[p] = "up" /\ (child # p \/ child' = child))
    PROVE  ScriptOwned' /\ TakenScripts'
<1>1. ASSUME NEW p \in Script, shell'[p] = "up"
      PROVE  \/ child' = p
             \/ \E d \in Call : call'[d].script = p /\ call'[d].pc \in {"pkill", "kill"}
  <2>1. CASE child' = p
    BY <2>1
  <2>2. CASE child' # p
    <3>1. shell[p] = "up" /\ child # p
      BY <1>1, <2>2
    <3>2. PICK d \in Call : call[d].script = p /\ call[d].pc \in {"pkill", "kill"}
      BY <3>1 DEF ScriptOwned
    <3>3. QED
      BY <3>2
  <2>3. QED
    BY <2>1, <2>2
<1>2. ASSUME NEW d \in Call, call'[d].pc \in {"pkill", "kill", "reap"}
      PROVE  call'[d].script \in Script
  BY <1>2 DEF TakenScripts
<1>3. QED
  BY <1>1, <1>2 DEF ScriptOwned, TakenScripts

\* start_script replaces no script that runs: it has looked, and spawned, in one
\* critical section.
LEMMA StartScriptKeeps ==
    ASSUME EngineInv, NEW c \in Call, StartScript(c)
    PROVE  /\ EngineInv'
           /\ call[c].pc # "idle"
           /\ \A d \in Call \ {c} : call'[d] = call[d]
<1> USE DEF EngineInv
<1>1. call[c].pc = "lock" /\ mu' = mu
  BY DEF StartScript, HasLock
<1>2. PICK answer \in {"already", "error", "exited", "started"} : Answer(c, answer)
  BY DEF StartScript
<1>3. /\ call' \in [Call -> CallType]
      /\ call'[c].pc \in {"answered", "sleep"}
      /\ \A d \in Call \ {c} : call'[d] = call[d]
  BY <1>2, AnswerEffect
<1>4. /\ child' \in Script \cup {None}
      /\ lastExit' \in {"none", "zero", "nonzero"}
      /\ shell' \in [Script -> Shells]
      /\ trainer' \in [Script -> {"none", "up", "ending"}]
      /\ \A p \in Script : shell'[p] = "up" =>
            p = child' \/ (shell[p] = "up" /\ (child # p \/ child' = child))
  <2>1. CASE UNCHANGED <<child, shell, lastExit, trainer>>
    BY <2>1 DEF EngineTypeOK, Shells
  <2>2. CASE /\ ~ChildRuns
             /\ child' = None /\ shell' = Reaped /\ trainer' = trainer
             /\ lastExit' \in {"none", "zero", "nonzero"}
    BY <2>2, ReapedType DEF EngineTypeOK, ChildRuns
  <2>3. CASE /\ ~ChildRuns
             /\ Unused # {}
             /\ LET p == CHOOSE p \in Unused : TRUE IN
                /\ child' = p
                /\ lastExit' = "none"
                /\ shell' = [Reaped EXCEPT ![p] = "up"]
                /\ trainer' = [trainer EXCEPT ![p] = "up"]
    <3>1. PICK p \in Unused : /\ child' = p
                              /\ lastExit' = "none"
                              /\ shell' = [Reaped EXCEPT ![p] = "up"]
                              /\ trainer' = [trainer EXCEPT ![p] = "up"]
      BY <2>3
    <3>2. p \in Script
      BY DEF Unused
    <3>3. /\ shell' \in [Script -> Shells]
          /\ \A q \in Script \ {p} : shell'[q] = "up" => shell[q] = "up"
      BY <3>1, <3>2, ReapedType DEF Shells
    <3>4. QED
      BY <2>3, <3>1, <3>2, <3>3, NoneAssumption DEF EngineTypeOK, ChildRuns
  <2>4. QED
    BY <2>1, <2>2, <2>3 DEF StartScript, EngineTypeOK
<1>5. EngineTypeOK'
  BY <1>1, <1>3, <1>4 DEF EngineTypeOK, Shells
<1>6. ScriptOwned' /\ TakenScripts'
  BY <1>1, <1>3, <1>4, OwnersKept
<1>7. QED
  BY <1>1, <1>3, <1>5, <1>6

\* stop_script becomes the owner of the script it takes.
LEMMA StopScriptKeeps ==
    ASSUME EngineInv, NEW c \in Call, StopScript(c)
    PROVE  /\ EngineInv'
           /\ call[c].pc # "idle"
           /\ \A d \in Call \ {c} : call'[d] = call[d]
<1> USE DEF EngineInv
<1>1. call[c].pc = "lock" /\ UNCHANGED <<lastExit, shell, trainer>> /\ call[c] \in CallType
  BY DEF StopScript, HasLock, EngineTypeOK
<1>2. CASE child = None
  <2>1. AfterStop(c, "nothing") /\ UNCHANGED <<child, mu>>
    BY <1>2 DEF StopScript
  <2>2. /\ call' \in [Call -> CallType]
        /\ call'[c].pc \in {"answered", "sleep"}
        /\ \A d \in Call \ {c} : call'[d] = call[d]
    BY <2>1, AnswerEffect
  <2>3. ScriptOwned' /\ TakenScripts'
    BY <1>1, <2>1, <2>2, OwnersKept
  <2>4. QED
    BY <1>1, <2>1, <2>2, <2>3 DEF EngineTypeOK
<1>3. CASE child # None
  <2> DEFINE r == [call[c] EXCEPT !.pc = "pkill", !.script = child]
  <2>1. mu' = c /\ child' = None /\ call' = [call EXCEPT ![c] = r] /\ child \in Script
    BY <1>3 DEF StopScript, EngineTypeOK
  <2>2. r \in CallType /\ r.pc = "pkill" /\ r.script = child
    BY <1>1, <2>1 DEF CallType
  <2> HIDE DEF r
  <2>3. /\ call' \in [Call -> CallType]
        /\ call'[c] = r
        /\ \A d \in Call \ {c} : call'[d] = call[d]
    BY <2>1, <2>2, CallBecomes
  <2>4. EngineTypeOK'
    BY <1>1, <2>1, <2>3 DEF EngineTypeOK
  <2>5. ASSUME NEW p \in Script, shell'[p] = "up"
        PROVE  \E d \in Call : call'[d].script = p /\ call'[d].pc \in {"pkill", "kill"}
    <3>1. CASE child = p
      BY <3>1, <2>2, <2>3
    <3>2. CASE child # p
      <4>1. PICK d \in Call : call[d].script = p /\ call[d].pc \in {"pkill", "kill"}
        BY <1>1, <2>5, <3>2 DEF ScriptOwned
      <4>2. QED
        BY <1>1, <2>3, <4>1
    <3>3. QED
      BY <3>1, <3>2
  <2>6. TakenScripts'
    BY <2>1, <2>2, <2>3 DEF TakenScripts
  <2>7. QED
    BY <1>1, <2>3, <2>4, <2>5, <2>6 DEF ScriptOwned
<1>4. QED
  BY <1>2, <1>3

\* stop_script gives its script up once it has killed it.
LEMMA KillKeeps ==
    ASSUME EngineInv, NEW c \in Call, KillChildren(c) \/ KillShell(c)
    PROVE  /\ EngineInv'
           /\ call[c].pc # "idle"
           /\ \A d \in Call \ {c} : call'[d] = call[d]
<1> USE DEF EngineInv
<1> DEFINE p == call[c].script
<1>1. /\ call[c].pc \in {"pkill", "kill"} /\ call[c] \in CallType
      /\ p \in Script
      /\ UNCHANGED <<child, lastExit, mu>>
  BY DEF KillChildren, KillShell, EngineTypeOK, TakenScripts
<1>2. CASE KillChildren(c)
  <2> DEFINE r == [call[c] EXCEPT !.pc = "kill"]
  <2>1. /\ call' = [call EXCEPT ![c] = r]
        /\ trainer' = [trainer EXCEPT ![p] = IF @ = "up" THEN "ending" ELSE @]
        /\ shell' = shell
    BY <1>2 DEF KillChildren
  <2>2. r \in CallType /\ r.pc = "kill" /\ r.script = p
    BY <1>1 DEF CallType
  <2> HIDE DEF r
  <2>3. /\ call' \in [Call -> CallType]
        /\ call'[c] = r
        /\ \A d \in Call \ {c} : call'[d] = call[d]
    BY <2>1, <2>2, CallBecomes
  <2>4. EngineTypeOK'
    BY <1>1, <2>1, <2>3 DEF EngineTypeOK
  <2>5. TakenScripts'
    BY <1>1, <2>2, <2>3 DEF TakenScripts
  <2>6. ASSUME NEW q \in Script, shell'[q] = "up"
        PROVE  \/ child' = q
               \/ \E d \in Call : call'[d].script = q /\ call'[d].pc \in {"pkill", "kill"}
    <3>1. CASE child = q
      BY <1>1, <3>1
    <3>2. CASE child # q
      <4>1. PICK d \in Call : call[d].script = q /\ call[d].pc \in {"pkill", "kill"}
        BY <2>1, <2>6, <3>2 DEF ScriptOwned
      <4>2. QED
        BY <2>2, <2>3, <4>1
    <3>3. QED
      BY <3>1, <3>2
  <2>7. QED
    BY <1>1, <2>3, <2>4, <2>5, <2>6 DEF ScriptOwned
<1>3. CASE KillShell(c)
  <2> DEFINE r == [call[c] EXCEPT !.pc = "reap"]
  <2>1. /\ call' = [call EXCEPT ![c] = r]
        /\ shell' = [shell EXCEPT ![p] = IF @ = "up" THEN "dying" ELSE @]
        /\ trainer' = trainer
    BY <1>3 DEF KillShell
  <2>2. r \in CallType /\ r.pc = "reap" /\ r.script = p
    BY <1>1 DEF CallType
  <2> HIDE DEF r
  <2>3. /\ call' \in [Call -> CallType]
        /\ call'[c] = r
        /\ \A d \in Call \ {c} : call'[d] = call[d]
    BY <2>1, <2>2, CallBecomes
  <2>4. EngineTypeOK' /\ shell'[p] # "up" /\ \A q \in Script \ {p} : shell'[q] = shell[q]
    BY <1>1, <2>1, <2>3 DEF EngineTypeOK
  <2>5. TakenScripts'
    BY <1>1, <2>2, <2>3 DEF TakenScripts
  <2>6. ASSUME NEW q \in Script, shell'[q] = "up"
        PROVE  \/ child' = q
               \/ \E d \in Call : call'[d].script = q /\ call'[d].pc \in {"pkill", "kill"}
    <3>1. CASE child = q
      BY <1>1, <3>1
    <3>2. CASE child # q
      <4>1. q # p /\ shell[q] = "up"
        BY <2>4, <2>6
      <4>2. PICK d \in Call : call[d].script = q /\ call[d].pc \in {"pkill", "kill"}
        BY <3>2, <4>1 DEF ScriptOwned
      <4>3. QED
        BY <2>3, <4>1, <4>2
    <3>3. QED
      BY <3>1, <3>2
  <2>7. QED
    BY <1>1, <2>3, <2>4, <2>5, <2>6 DEF ScriptOwned
<1>4. QED
  BY <1>2, <1>3

\* What a shell leaves is an exit code, or none.
LEMMA ExitCodeType ==
    ASSUME EngineTypeOK, NEW p \in Script, shell[p] \in Ended \cup {"none"}
    PROVE  ExitCode(p) \in {"none", "zero", "nonzero"}
BY DEF ExitCode, Ended

\* Whoever reaps takes a shell that has ended.
LEMMA ReapKeeps ==
    ASSUME EngineInv, NEW c \in Call, Reap(c)
    PROVE  /\ EngineInv'
           /\ call[c].pc # "idle"
           /\ \A d \in Call \ {c} : call'[d] = call[d]
<1> USE DEF EngineInv
<1> DEFINE p == call[c].script
<1>1. /\ call[c].pc = "reap"
      /\ p \in Script
      /\ UNCHANGED <<child, trainer>>
      /\ mu' = None
  BY DEF Reap, ReleasedBy, TakenScripts
<1>2. /\ call' \in [Call -> CallType]
      /\ call'[c].pc \in {"answered", "sleep"}
      /\ \A d \in Call \ {c} : call'[d] = call[d]
  BY AnswerEffect DEF Reap
<1>3. /\ lastExit' \in {"none", "zero", "nonzero"}
      /\ shell' \in [Script -> Shells]
      /\ \A q \in Script : shell'[q] = "up" => shell[q] = "up"
  <2>1. CASE shell[p] \in Ended /\ lastExit' = ExitCode(p) /\ shell' = [shell EXCEPT ![p] = "none"]
    BY <1>1, <2>1, ExitCodeType DEF EngineTypeOK, Shells
  <2>2. CASE UNCHANGED <<lastExit, shell>>
    BY <2>2 DEF EngineTypeOK, Shells
  <2>3. QED
    BY <2>1, <2>2 DEF Reap
<1>4. EngineTypeOK'
  BY <1>1, <1>2, <1>3 DEF EngineTypeOK, Shells
<1>5. ScriptOwned' /\ TakenScripts'
  BY <1>1, <1>2, <1>3, OwnersKept
<1>6. QED
  BY <1>1, <1>2, <1>4, <1>5

\* get_status drops a child that has ended only.
LEMMA GetStatusKeeps ==
    ASSUME EngineInv, NEW c \in Call, GetStatus(c)
    PROVE  /\ EngineInv'
           /\ call[c].pc # "idle"
           /\ \A d \in Call \ {c} : call'[d] = call[d]
<1> USE DEF EngineInv
<1> DEFINE ended == child # None /\ ~ChildRuns
<1>1. call[c].pc = "lock" /\ UNCHANGED <<mu, trainer>>
  BY DEF GetStatus, HasLock
<1>2. /\ call' \in [Call -> CallType]
      /\ call'[c].pc \in {"answered", "sleep"}
      /\ \A d \in Call \ {c} : call'[d] = call[d]
  BY AnswerEffect DEF GetStatus
<1>3. /\ lastExit' \in {"none", "zero", "nonzero"}
      /\ shell' \in [Script -> Shells]
      /\ child' \in Script \cup {None}
      /\ \A q \in Script : shell'[q] = "up" => shell[q] = "up" /\ (child # q \/ child' = child)
  <2>1. CASE ended
    <3>1. lastExit' = ExitCode(child) /\ shell' = Reaped /\ child' = None
      BY <2>1 DEF GetStatus
    <3>2. child \in Script /\ shell[child] \in Ended \cup {"none"}
      BY <2>1 DEF ChildRuns, EngineTypeOK
    <3>3. \A q \in Script : shell'[q] = "up" => shell[q] = "up" /\ child # q
      BY <3>1, <3>2, ReapedType DEF Ended
    <3>4. QED
      BY <3>1, <3>2, <3>3, ExitCodeType, ReapedType
  <2>2. CASE ~ended
    BY <2>2 DEF GetStatus, EngineTypeOK, Shells
  <2>3. QED
    BY <2>1, <2>2
<1>4. EngineTypeOK'
  BY <1>1, <1>2, <1>3 DEF EngineTypeOK, Shells
<1>5. ScriptOwned' /\ TakenScripts'
  BY <1>1, <1>2, <1>3, OwnersKept
<1>6. QED
  BY <1>1, <1>2, <1>4, <1>5

\* A step of the engine keeps its invariant, and begins no request.
LEMMA EngineStepKeeps ==
    ASSUME EngineInv, NEW c \in Call, EngineStep(c)
    PROVE  EngineInv' /\ \A d \in Call : call[d].pc = "idle" => call'[d].pc = "idle"
<1> USE DEF EngineInv
<1>1. SUFFICES /\ EngineInv'
               /\ call[c].pc # "idle"
               /\ \A d \in Call \ {c} : call'[d] = call[d]
  OBVIOUS
<1>2. call[c] \in CallType
  BY DEF EngineTypeOK
<1>3. ASSUME NEW r \in CallType, call' = [call EXCEPT ![c] = r], r.pc = "lock",
             call[c].pc \in {"sent", "sleep"},
             UNCHANGED <<child, lastExit, mu, shell, trainer>>
      PROVE  /\ EngineInv'
             /\ call[c].pc # "idle"
             /\ \A d \in Call \ {c} : call'[d] = call[d]
  <2>1. /\ call' \in [Call -> CallType]
        /\ call'[c] = r
        /\ \A d \in Call \ {c} : call'[d] = call[d]
    BY <1>3, CallBecomes
  <2>2. EngineTypeOK'
    BY <1>3, <2>1 DEF EngineTypeOK
  <2>3. ScriptOwned' /\ TakenScripts'
    BY <1>3, <2>1, OwnersKept
  <2>4. QED
    BY <1>3, <2>1, <2>2, <2>3
<1>4. CASE Accept(c)
  <2>1. PICK w \in Worker : call' = [call EXCEPT ![c].pc = "lock", ![c].worker = w]
    BY <1>4 DEF Accept
  <2> DEFINE r == [call[c] EXCEPT !.pc = "lock", !.worker = w]
  <2>2. call' = [call EXCEPT ![c] = r] /\ r \in CallType /\ r.pc = "lock"
    BY <1>2, <2>1 DEF CallType
  <2> HIDE DEF r
  <2>3. QED
    BY <1>3, <1>4, <2>2 DEF Accept
<1>5. CASE WakeUp(c)
  <2> DEFINE r == [call[c] EXCEPT !.pc = "lock", !.op = "start"]
  <2>1. call' = [call EXCEPT ![c] = r] /\ r \in CallType /\ r.pc = "lock"
    BY <1>2, <1>5 DEF CallType, WakeUp
  <2> HIDE DEF r
  <2>2. QED
    BY <1>3, <1>5, <2>1 DEF WakeUp
<1>6. CASE GetMetrics(c)
  <2>1. /\ call' \in [Call -> CallType]
        /\ call'[c].pc \in {"answered", "sleep"}
        /\ \A d \in Call \ {c} : call'[d] = call[d]
    BY <1>6, AnswerEffect DEF GetMetrics
  <2>2. call[c].pc = "lock" /\ UNCHANGED <<child, lastExit, mu, shell, trainer>>
    BY <1>6 DEF GetMetrics, HasLock
  <2>3. EngineTypeOK'
    BY <2>1, <2>2 DEF EngineTypeOK
  <2>4. ScriptOwned' /\ TakenScripts'
    BY <2>1, <2>2, OwnersKept
  <2>5. QED
    BY <2>1, <2>2, <2>3, <2>4
<1>7. QED
  BY <1>4, <1>5, <1>6, StartScriptKeeps, StopScriptKeeps, KillKeeps, ReapKeeps, GetStatusKeeps
     DEF EngineStep

\* A script that ends needs no owner.
LEMMA SystemStepKeeps ==
    ASSUME EngineInv, NEW p \in Script, SystemStep(p)
    PROVE  EngineInv' /\ call' = call
<1> USE DEF EngineInv
<1>1. /\ UNCHANGED <<child, lastExit, mu, call>>
      /\ shell' \in [Script -> Shells]
      /\ trainer' \in [Script -> {"none", "up", "ending"}]
      /\ \A q \in Script : shell'[q] = "up" => shell[q] = "up"
  <2>1. CASE ScriptEnds(p)
    BY <2>1 DEF ScriptEnds, EngineTypeOK, Shells, Ended
  <2>2. CASE TrainerEnds(p)
    BY <2>2 DEF TrainerEnds, EngineTypeOK, Shells, Ended
  <2>3. CASE ShellEnds(p)
    BY <2>3 DEF ShellEnds, EngineTypeOK, Shells, Ended
  <2>4. QED
    BY <2>1, <2>2, <2>3 DEF SystemStep
<1>2. EngineTypeOK'
  BY <1>1 DEF EngineTypeOK, Shells
<1>3. ScriptOwned' /\ TakenScripts'
  BY <1>1 DEF ScriptOwned, TakenScripts
<1>4. QED
  BY <1>1, <1>2, <1>3

\* A client that has no request under way sends one, or takes an answer.
LEMMA ClientKeeps ==
    ASSUME EngineInv, NEW c \in Call, call[c].pc \in {"idle", "answered"},
           NEW op \in {"start", "stop", "restart", "status", "metrics"},
           call' = [call EXCEPT ![c] = Sent(op)] \/ call' = [call EXCEPT ![c] = NoCall],
           UNCHANGED <<child, lastExit, mu, shell, trainer>>
    PROVE  EngineInv' /\ \A d \in Call \ {c} : call'[d] = call[d]
<1> USE DEF EngineInv
<1>1. PICK r \in {Sent(op), NoCall} : call' = [call EXCEPT ![c] = r]
  OBVIOUS
<1>2. r \in CallType /\ r.pc \in {"idle", "sent"}
  <2>1. NoCall \in CallType /\ NoCall.pc = "idle"
    BY DEF NoCall, CallType
  <2>2. Sent(op) \in CallType /\ Sent(op).pc = "sent"
    BY <2>1 DEF Sent, CallType
  <2>3. QED
    BY <2>1, <2>2
<1>3. /\ call' \in [Call -> CallType]
      /\ call'[c] = r
      /\ \A d \in Call \ {c} : call'[d] = call[d]
  BY <1>1, <1>2, CallBecomes
<1>4. EngineTypeOK'
  BY <1>3 DEF EngineTypeOK
<1>5. ScriptOwned' /\ TakenScripts'
  BY <1>2, <1>3, OwnersKept
<1>6. QED
  BY <1>3, <1>4, <1>5

-----------------------------------------------------------------------------
(* The goroutines of the monitor *)

\* How many of finitely many goroutines exist.
LEMMA LiveCount ==
    ASSUME NEW D, IsFiniteSet(D), NEW loops \in [D -> LoopType]
    PROVE  /\ Live(loops) \subseteq D
           /\ IsFiniteSet(Live(loops))
           /\ Cardinality(Live(loops)) \in Nat
           /\ Cardinality(D) \in Nat
           /\ \A m \in [D -> LoopType] : Live(m) \subseteq Live(loops) =>
                Cardinality(Live(m)) \in Nat /\ Cardinality(Live(m)) <= Cardinality(Live(loops))
<1>1. Live(loops) \subseteq D
  BY DEF Live
<1>2. IsFiniteSet(Live(loops)) /\ Cardinality(Live(loops)) \in Nat /\ Cardinality(D) \in Nat
  BY <1>1, FS_Subset, FS_CardinalityType
<1>3. QED
  BY <1>1, <1>2, FS_Subset, FS_CardinalityType

\* The loops and the goroutine that does not exist have their type.
LEMMA LoopTypes ==
    /\ IdleLoop \in LoopType
    /\ \A pc \in {"idle", "loop", "select", "post", "metrics", "status", "metrics2", "sending"} :
         [pc |-> pc, closed |-> FALSE] \in LoopType
BY DEF LoopType, IdleLoop

\* close() ends no goroutine by itself.
LEMMA CloseFacts ==
    ASSUME NEW D, NEW loops \in [D -> LoopType]
    PROVE  /\ Close(loops) \in [D -> LoopType]
           /\ Live(Close(loops)) = Live(loops)
           /\ \A l \in D : Close(loops)[l].pc = loops[l].pc
<1>1. DOMAIN Close(loops) = D
  BY DEF Close
<1>2. ASSUME NEW l \in D
      PROVE  /\ Close(loops)[l] \in LoopType
             /\ Close(loops)[l] = IdleLoop <=> loops[l] = IdleLoop
             /\ Close(loops)[l].pc = loops[l].pc
  <2>1. /\ loops[l] \in LoopType
        /\ Close(loops)[l] = [loops[l] EXCEPT !.closed = loops[l].closed \/ loops[l].pc = "select"]
    BY DEF Close
  <2>2. loops[l].closed \in BOOLEAN
    BY <2>1 DEF LoopType
  <2>3. CASE loops[l].pc = "select"
    <3>1. Close(loops)[l] = [loops[l] EXCEPT !.closed = TRUE]
      BY <2>1, <2>3
    <3>2. Close(loops)[l] \in LoopType /\ Close(loops)[l].pc = "select"
      BY <2>1, <2>3, <3>1 DEF LoopType
    <3>3. IdleLoop.pc # "select"
      BY DEF IdleLoop
    <3>4. Close(loops)[l] # IdleLoop /\ loops[l] # IdleLoop
      BY <2>3, <3>2, <3>3
    <3>5. QED
      BY <2>3, <3>2, <3>4
  <2>4. CASE loops[l].pc # "select"
    <3>1. [loops[l] EXCEPT !.closed = loops[l].closed] = loops[l]
      BY <2>1 DEF LoopType
    <3>2. (loops[l].closed \/ loops[l].pc = "select") = loops[l].closed
      BY <2>2, <2>4
    <3>3. QED
      BY <2>1, <3>1, <3>2
  <2>5. QED
    BY <2>3, <2>4
<1>3. Close(loops) = [l \in D |-> Close(loops)[l]]
  BY <1>1 DEF Close
<1>4. QED
  BY <1>1, <1>2, <1>3 DEF Live

\* go func() makes one goroutine, if fewer exist than may.
LEMMA SpawnFacts ==
    ASSUME NEW D, IsFiniteSet(D), NEW loops \in [D -> LoopType],
           Cardinality(Live(loops)) < Cardinality(D)
    PROVE  /\ Spawn(loops) \in [D -> LoopType]
           /\ \E l \in D : Spawn(loops)[l].pc = "loop"
           /\ \A l \in D : loops[l].pc # "idle" => Spawn(loops)[l].pc = loops[l].pc
           /\ Cardinality(Live(Spawn(loops))) \in Nat
           /\ Cardinality(Live(Spawn(loops))) <= Cardinality(Live(loops)) + 1
<1>1. \E l \in D : loops[l] = IdleLoop
  <2>1. SUFFICES ASSUME \A l \in D : loops[l] # IdleLoop PROVE FALSE
    OBVIOUS
  <2>2. Live(loops) = D
    BY <2>1 DEF Live
  <2>3. QED
    BY <2>2, LiveCount
<1> DEFINE l == CHOOSE l \in DOMAIN loops : loops[l] = IdleLoop
<1>2. l \in D /\ loops[l] = IdleLoop
  BY <1>1
<1>3. Spawn(loops) = [loops EXCEPT ![l].pc = "loop"]
  BY DEF Spawn
<1> HIDE DEF l
<1>4. /\ Spawn(loops)[l].pc = "loop"
      /\ \A m \in D \ {l} : Spawn(loops)[m] = loops[m]
      /\ DOMAIN Spawn(loops) = D
  <2>1. [IdleLoop EXCEPT !.pc = "loop"].pc = "loop"
    BY DEF IdleLoop
  <2>2. Spawn(loops)[l] = [loops[l] EXCEPT !.pc = "loop"]
    BY <1>2, <1>3
  <2>3. QED
    BY <1>2, <1>3, <2>1, <2>2
<1>5. Spawn(loops) \in [D -> LoopType]
  BY <1>2, <1>3 DEF LoopType, IdleLoop
<1>6. Live(Spawn(loops)) = Live(loops) \cup {l}
  BY <1>2, <1>4 DEF Live, IdleLoop
<1>7. /\ IsFiniteSet(Live(loops))
      /\ Cardinality(Live(loops)) \in Nat
      /\ l \notin Live(loops)
  BY <1>2, LiveCount DEF Live
<1>8. Cardinality(Live(Spawn(loops))) = Cardinality(Live(loops)) + 1
  BY <1>6, <1>7, FS_AddElement
<1>9. \E m \in D : Spawn(loops)[m].pc = "loop"
  BY <1>2, <1>4
<1>10. /\ Cardinality(Live(Spawn(loops))) \in Nat
       /\ Cardinality(Live(Spawn(loops))) <= Cardinality(Live(loops)) + 1
  BY <1>7, <1>8
<1>11. \A m \in D : loops[m].pc # "idle" => Spawn(loops)[m].pc = loops[m].pc
  <2>1. IdleLoop.pc = "idle"
    BY DEF IdleLoop
  <2>2. QED
    BY <1>2, <1>4, <2>1
<1>12. QED
  BY <1>5, <1>9, <1>10, <1>11

\* What setState(new) leaves: a node that runs is watched, a node that has not
\* failed beats.
LEMMA SetStateEffect ==
    ASSUME MonitorInv,
           NEW new \in {"Standby", "Running", "Restarting", "Failed"},
           NEW senders \in [Sender -> LoopType], Live(senders) \subseteq Live(sender),
           NEW hearts \in [Heart -> LoopType], Live(hearts) \subseteq Live(heart),
           SetState(new, senders, hearts),
           new # "Failed" => hearts = heart,
           new = "Running" => Cardinality(Live(sender)) < Cardinality(Sender),
           new # "Failed" => Cardinality(Live(heart)) < Cardinality(Heart)
    PROVE  /\ mstate' = new
           /\ UNCHANGED <<retries, lastErr, commands>>
           /\ ticker' \in BOOLEAN
           /\ sender' \in [Sender -> LoopType]
           /\ \A s \in Sender : senders[s].pc # "idle" => sender'[s].pc = senders[s].pc
           /\ heart' \in [Heart -> LoopType]
           /\ Cardinality(Live(sender)) \in Nat
           /\ Cardinality(Live(heart)) \in Nat
           /\ Cardinality(Live(sender')) \in Nat
           /\ Cardinality(Live(heart')) \in Nat
           /\ Cardinality(Live(sender')) <=
                Cardinality(Live(sender)) + (IF new = "Running" THEN 1 ELSE 0)
           /\ Cardinality(Live(heart')) <=
                Cardinality(Live(heart)) + (IF new = "Failed" THEN 0 ELSE 1)
           /\ WatchedWhileRunning'
           /\ HeartbeatsTick'
<1> USE DEF MonitorInv
<1>1. /\ mstate' = new
      /\ UNCHANGED <<retries, lastErr, commands>>
      /\ ticker' = (new # "Failed")
      /\ ticker \in BOOLEAN
      /\ sender \in [Sender -> LoopType]
      /\ heart \in [Heart -> LoopType]
      /\ IsFiniteSet(Sender) /\ IsFiniteSet(Heart)
  BY MonitorAssumption DEF SetState, StopsHeartbeat, MonitorTypes
<1> DEFINE closed == IF ClosesStopChan(new) THEN Close(senders) ELSE senders
<1>2. /\ closed \in [Sender -> LoopType]
      /\ Live(closed) \subseteq Live(sender)
      /\ \A s \in Sender : closed[s].pc = senders[s].pc
      /\ sender' = IF StartsSender(new) THEN Spawn(closed) ELSE closed
  BY CloseFacts DEF SetState
<1> HIDE DEF closed
<1>3. /\ Cardinality(Live(sender)) \in Nat /\ Cardinality(Sender) \in Nat
      /\ Cardinality(Live(closed)) \in Nat
      /\ Cardinality(Live(closed)) <= Cardinality(Live(sender))
      /\ Cardinality(Live(heart)) \in Nat /\ Cardinality(Heart) \in Nat
      /\ Cardinality(Live(hearts)) \in Nat
      /\ Cardinality(Live(hearts)) <= Cardinality(Live(heart))
  BY <1>1, <1>2, LiveCount
<1>4. /\ sender' \in [Sender -> LoopType]
      /\ \A s \in Sender : senders[s].pc # "idle" => sender'[s].pc = senders[s].pc
      /\ Cardinality(Live(sender')) \in Nat
      /\ Cardinality(Live(sender')) <=
           Cardinality(Live(sender)) + (IF new = "Running" THEN 1 ELSE 0)
      /\ WatchedWhileRunning'
  <2>1. CASE new = "Running"
    <3>1. sender' = Spawn(closed)
      BY <1>2, <2>1 DEF StartsSender
    <3>2. Cardinality(Live(closed)) < Cardinality(Sender)
      BY <1>3, <2>1
    <3>3. /\ Spawn(closed) \in [Sender -> LoopType]
          /\ \E s \in Sender : Spawn(closed)[s].pc = "loop"
          /\ \A s \in Sender : closed[s].pc # "idle" => Spawn(closed)[s].pc = closed[s].pc
          /\ Cardinality(Live(Spawn(closed))) \in Nat
          /\ Cardinality(Live(Spawn(closed))) <= Cardinality(Live(closed)) + 1
      BY <1>1, <1>2, <3>2, SpawnFacts
    <3>4. WatchedWhileRunning'
      BY <3>1, <3>3 DEF WatchedWhileRunning, Watching
    <3>5. QED
      BY <1>2, <1>3, <2>1, <3>1, <3>3, <3>4
  <2>2. CASE new # "Running"
    BY <1>1, <1>2, <1>3, <2>2 DEF StartsSender, WatchedWhileRunning
  <2>3. QED
    BY <2>1, <2>2
<1>5. /\ heart' \in [Heart -> LoopType]
      /\ Cardinality(Live(heart')) \in Nat
      /\ Cardinality(Live(heart')) <=
           Cardinality(Live(heart)) + (IF new = "Failed" THEN 0 ELSE 1)
      /\ HeartbeatsTick'
  <2>1. CASE new = "Failed"
    <3>1. heart' = IF ticker THEN Close(hearts) ELSE hearts
      BY <2>1 DEF SetState, StopsHeartbeat
    <3>2. heart' \in [Heart -> LoopType] /\ Live(heart') = Live(hearts)
      BY <3>1, CloseFacts
    <3>3. HeartbeatsTick'
      BY <1>1, <2>1 DEF HeartbeatsTick
    <3>4. QED
      BY <1>3, <2>1, <3>2, <3>3
  <2>2. CASE new # "Failed" /\ ticker
    <3>1. heart' = heart
      BY <2>2 DEF SetState, StopsHeartbeat
    <3>2. HeartbeatsTick'
      BY <1>1, <2>2, <3>1 DEF HeartbeatsTick, Beating
    <3>3. QED
      BY <1>1, <1>3, <2>2, <3>1, <3>2
  <2>3. CASE new # "Failed" /\ ~ticker
    <3>1. heart' = Spawn(heart)
      BY <2>3 DEF SetState, StopsHeartbeat
    <3>2. /\ Spawn(heart) \in [Heart -> LoopType]
          /\ \E k \in Heart : Spawn(heart)[k].pc = "loop"
          /\ Cardinality(Live(Spawn(heart))) \in Nat
          /\ Cardinality(Live(Spawn(heart))) <= Cardinality(Live(heart)) + 1
      BY <1>1, <2>3, SpawnFacts
    <3>3. \E k \in Heart : heart'[k].pc = "loop"
      BY <3>1, <3>2
    <3>4. HeartbeatsTick'
      BY <1>1, <2>3, <3>3 DEF HeartbeatsTick, Beating
    <3>5. QED
      BY <2>3, <3>1, <3>2, <3>4
  <2>4. QED
    BY <2>1, <2>2, <2>3
<1>6. QED
  BY <1>1, <1>3, <1>4, <1>5

-----------------------------------------------------------------------------
(* The steps of the monitor *)

\* The handlers of hs whose pc is among these.
HandlersAt(hs, pcs) == {h \in Handler : hs[h].pc \in pcs}

\* A handler that goes on changes its own part in their number.
LEMMA CountAt ==
    ASSUME NEW pcs, NEW hs \in [Handler -> HandlerType], IsFiniteSet(HandlersAt(hs, pcs)),
           NEW new \in [Handler -> HandlerType], NEW h \in Handler,
           \A g \in Handler \ {h} : new[g] = hs[g]
    PROVE  /\ IsFiniteSet(HandlersAt(new, pcs))
           /\ Cardinality(HandlersAt(hs, pcs)) \in Nat
           /\ Cardinality(HandlersAt(new, pcs)) \in Nat
           /\ Cardinality(HandlersAt(new, pcs)) = Cardinality(HandlersAt(hs, pcs))
                + (IF new[h].pc \in pcs THEN 1 ELSE 0) - (IF hs[h].pc \in pcs THEN 1 ELSE 0)
<1> DEFINE A == HandlersAt(hs, pcs)
           B == HandlersAt(new, pcs)
<1>1. IsFiniteSet(A) /\ Cardinality(A) \in Nat
  BY FS_CardinalityType
<1>2. CASE new[h].pc \in pcs /\ hs[h].pc \notin pcs
  <2>1. B = A \cup {h} /\ h \notin A
    BY <1>2 DEF HandlersAt
  <2> HIDE DEF A, B
  <2>2. IsFiniteSet(B) /\ Cardinality(B) = Cardinality(A) + 1
    BY <1>1, <2>1, FS_AddElement
  <2>3. QED
    BY <1>1, <1>2, <2>2 DEF A, B
<1>3. CASE new[h].pc \notin pcs /\ hs[h].pc \in pcs
  <2>1. B = A \ {h} /\ h \in A
    BY <1>3 DEF HandlersAt
  <2> HIDE DEF A, B
  <2>2. IsFiniteSet(B) /\ Cardinality(B) = Cardinality(A) - 1
    BY <1>1, <2>1, FS_RemoveElement
  <2>3. Cardinality(B) \in Nat
    BY <2>2, FS_CardinalityType
  <2>4. QED
    BY <1>1, <1>3, <2>2, <2>3 DEF A, B
<1>4. CASE new[h].pc \in pcs <=> hs[h].pc \in pcs
  <2>1. B = A
    BY <1>4 DEF HandlersAt
  <2>2. QED
    BY <1>1, <1>4, <2>1
<1>5. QED
  BY <1>2, <1>3, <1>4

\* What a handler's step makes of the requests under way.
LEMMA HandlerCount ==
    ASSUME MonitorInv, NEW h \in Handler, NEW r \in HandlerType,
           handler' = [handler EXCEPT ![h] = r]
    PROVE  /\ handler' \in [Handler -> HandlerType]
           /\ IsFiniteSet(Serviced')
           /\ Cardinality(Serviced) \in Nat /\ Cardinality(Serviced') \in Nat
           /\ Cardinality(Beginning) \in Nat /\ Cardinality(Beginning') \in Nat
           /\ Cardinality(Serviced') = Cardinality(Serviced)
                + (IF r.pc # "idle" THEN 1 ELSE 0) - (IF handler[h].pc # "idle" THEN 1 ELSE 0)
           /\ Cardinality(Beginning') = Cardinality(Beginning)
                + (IF r.pc = "begin" THEN 1 ELSE 0) - (IF handler[h].pc = "begin" THEN 1 ELSE 0)
<1> USE DEF MonitorInv
<1> DEFINE busy == {"begin", "stop", "stopping", "launch", "starting", "clearing",
                    "rerank", "reranking"}
           first == {"begin"}
<1>1. handler \in [Handler -> HandlerType] /\ IsFiniteSet(Serviced)
  BY DEF MonitorTypes, GoroutinesCounted
<1>2. /\ handler' \in [Handler -> HandlerType]
      /\ handler'[h] = r
      /\ \A g \in Handler \ {h} : handler'[g] = handler[g]
  BY <1>1
<1>3. \A g \in HandlerType : g.pc # "idle" <=> g.pc \in busy
  BY DEF HandlerType
<1>4. Serviced = HandlersAt(handler, busy) /\ Serviced' = HandlersAt(handler', busy)
  <2>1. /\ \A g \in Handler : handler[g].pc # "idle" <=> handler[g].pc \in busy
        /\ \A g \in Handler : handler'[g].pc # "idle" <=> handler'[g].pc \in busy
    BY <1>1, <1>2, <1>3
  <2> HIDE DEF busy
  <2>2. QED
    BY <2>1 DEF Serviced, HandlersAt
<1>5. Beginning = HandlersAt(handler, first) /\ Beginning' = HandlersAt(handler', first)
  BY DEF Beginning, HandlersAt
<1>6. Beginning \subseteq Serviced /\ IsFiniteSet(Beginning)
  <2>1. Beginning \subseteq Serviced
    BY DEF Beginning, Serviced
  <2>2. QED
    BY <1>1, <2>1, FS_Subset
<1>7. (r.pc \in first <=> r.pc = "begin") /\ (handler[h].pc \in first <=> handler[h].pc = "begin")
  OBVIOUS
<1> HIDE DEF busy, first
<1>8. /\ IsFiniteSet(HandlersAt(handler', busy))
      /\ Cardinality(HandlersAt(handler, busy)) \in Nat /\ Cardinality(HandlersAt(handler', busy)) \in Nat
      /\ Cardinality(HandlersAt(handler', busy)) = Cardinality(HandlersAt(handler, busy))
           + (IF r.pc \in busy THEN 1 ELSE 0) - (IF handler[h].pc \in busy THEN 1 ELSE 0)
  BY <1>1, <1>2, <1>4, CountAt
<1>9. /\ Cardinality(HandlersAt(handler, first)) \in Nat
      /\ Cardinality(HandlersAt(handler', first)) \in Nat
      /\ Cardinality(HandlersAt(handler', first)) = Cardinality(HandlersAt(handler, first))
           + (IF r.pc \in first THEN 1 ELSE 0) - (IF handler[h].pc \in first THEN 1 ELSE 0)
  BY <1>1, <1>2, <1>5, <1>6, CountAt
<1>10. (r.pc \in busy <=> r.pc # "idle") /\ (handler[h].pc \in busy <=> handler[h].pc # "idle")
  BY <1>1, <1>3
<1>11. /\ IsFiniteSet(Serviced')
       /\ Cardinality(Serviced) \in Nat /\ Cardinality(Serviced') \in Nat
       /\ Cardinality(Serviced') = Cardinality(Serviced)
            + (IF r.pc # "idle" THEN 1 ELSE 0) - (IF handler[h].pc # "idle" THEN 1 ELSE 0)
  BY <1>4, <1>8, <1>10
<1>12. /\ Cardinality(Beginning) \in Nat /\ Cardinality(Beginning') \in Nat
       /\ Cardinality(Beginning') = Cardinality(Beginning)
            + (IF r.pc = "begin" THEN 1 ELSE 0) - (IF handler[h].pc = "begin" THEN 1 ELSE 0)
  BY <1>5, <1>9, <1>7
<1>13. QED
  BY <1>2, <1>11, <1>12

\* A handler that goes on without setState.
LEMMA HandlerGoes ==
    ASSUME MonitorInv, NEW h \in Handler, handler[h].pc # "idle",
           NEW r \in HandlerType, r.pc # "begin", handler' = [handler EXCEPT ![h] = r],
           UNCHANGED <<mstate, retries, lastErr, ticker, sender, heart, commands>>
    PROVE  MonitorInv'
<1> USE DEF MonitorInv
<1>1. /\ handler' \in [Handler -> HandlerType]
      /\ IsFiniteSet(Serviced')
      /\ Cardinality(Serviced) \in Nat /\ Cardinality(Serviced') \in Nat
      /\ Cardinality(Beginning) \in Nat /\ Cardinality(Beginning') \in Nat
      /\ Cardinality(Serviced') <= Cardinality(Serviced)
      /\ Cardinality(Beginning') <= Cardinality(Beginning)
  <2>1. /\ handler' \in [Handler -> HandlerType]
        /\ IsFiniteSet(Serviced')
        /\ Cardinality(Serviced) \in Nat /\ Cardinality(Serviced') \in Nat
        /\ Cardinality(Beginning) \in Nat /\ Cardinality(Beginning') \in Nat
        /\ Cardinality(Serviced') = Cardinality(Serviced)
             + (IF r.pc # "idle" THEN 1 ELSE 0) - (IF handler[h].pc # "idle" THEN 1 ELSE 0)
        /\ Cardinality(Beginning') = Cardinality(Beginning)
             + (IF r.pc = "begin" THEN 1 ELSE 0) - (IF handler[h].pc = "begin" THEN 1 ELSE 0)
    BY HandlerCount
  <2>2. QED
    BY <2>1
<1>2. Cardinality(Live(sender)) \in Nat /\ Cardinality(Live(heart)) \in Nat
  BY LiveCount, MonitorAssumption DEF MonitorTypes
<1>3. MonitorTypes' /\ WatchedWhileRunning' /\ HeartbeatsTick'
  BY <1>1 DEF MonitorTypes, WatchedWhileRunning, Watching, HeartbeatsTick, Beating
<1>4. GoroutinesCounted'
  BY <1>1, <1>2 DEF GoroutinesCounted, MonitorTypes
<1>5. QED
  BY <1>3, <1>4

\* A handler that ends with setState, or begins a restart with it.
LEMMA HandlerSetsState ==
    ASSUME MonitorInv, NEW h \in Handler, handler[h].pc # "idle",
           NEW new \in {"Standby", "Running", "Restarting", "Failed"},
           SetState(new, sender, heart),
           NEW r \in HandlerType, handler' = [handler EXCEPT ![h] = r],
           \/ r.pc = "idle"
           \/ handler[h].pc = "begin" /\ r.pc # "begin" /\ new = "Restarting"
    PROVE  /\ MonitorInv'
           /\ \A s \in Sender : sender[s].pc # "idle" => sender'[s].pc = sender[s].pc
<1> USE DEF MonitorInv
<1>1. /\ handler' \in [Handler -> HandlerType]
      /\ IsFiniteSet(Serviced')
      /\ Cardinality(Serviced) \in Nat /\ Cardinality(Serviced') \in Nat
      /\ Cardinality(Beginning) \in Nat /\ Cardinality(Beginning') \in Nat
      /\ Cardinality(Serviced') = Cardinality(Serviced)
           + (IF r.pc # "idle" THEN 1 ELSE 0) - (IF handler[h].pc # "idle" THEN 1 ELSE 0)
      /\ Cardinality(Beginning') = Cardinality(Beginning)
           + (IF r.pc = "begin" THEN 1 ELSE 0) - (IF handler[h].pc = "begin" THEN 1 ELSE 0)
  BY HandlerCount
<1> DEFINE S == Cardinality(Serviced)
           B == Cardinality(Beginning)
           L == Cardinality(Live(sender))
           K == Cardinality(Live(heart))
           S1 == Cardinality(Serviced')
           B1 == Cardinality(Beginning')
           L1 == Cardinality(Live(sender'))
           K1 == Cardinality(Live(heart'))
           first == IF mstate = "Initializing" THEN 1 ELSE 0
<1>2. /\ sender \in [Sender -> LoopType] /\ heart \in [Heart -> LoopType]
      /\ commands \in Nat /\ MaxCommands \in Nat
      /\ IsFiniteSet(Sender) /\ Cardinality(Sender) >= MaxCommands
      /\ IsFiniteSet(Heart) /\ Cardinality(Heart) >= 2 * MaxCommands + 1
  BY MonitorAssumption DEF MonitorTypes
<1>3. L \in Nat /\ K \in Nat /\ Cardinality(Sender) \in Nat /\ Cardinality(Heart) \in Nat
  BY <1>2, LiveCount
<1>4. S1 \in Nat /\ B1 \in Nat /\ S \in Nat /\ B \in Nat
  BY <1>1
<1>5. /\ r.pc = "idle" => S1 = S - 1 /\ B1 <= B
      /\ r.pc # "idle" => S1 = S /\ B1 = B - 1
  <2>1. r.pc = "idle" => r.pc # "begin"
    OBVIOUS
  <2>2. QED
    BY <1>1, <2>1
<1>6. /\ commands <= MaxCommands
      /\ L + S <= commands
      /\ K + S + B + first <= 2 * commands + 1
      /\ first \in {0, 1}
  BY DEF GoroutinesCounted
<1> HIDE DEF S, B, L, K, S1, B1, L1, K1, first
<1>7. L < Cardinality(Sender) /\ K < Cardinality(Heart)
  <2>1. S >= 1 \/ (S = 0 /\ B >= 1)
    BY <1>4, <1>5
  <2>2. S >= 1
    <3>1. CASE r.pc = "idle"
      BY <1>4, <1>5, <3>1
    <3>2. CASE r.pc # "idle"
      <4>1. Serviced # {} /\ IsFiniteSet(Serviced)
        BY DEF Serviced, GoroutinesCounted
      <4>2. QED
        BY <4>1, FS_EmptySet, FS_CardinalityType, <1>4 DEF S
    <3>3. QED
      BY <3>1, <3>2
  <2>3. QED
    BY <1>2, <1>3, <1>4, <1>6, <2>2
<1>8. /\ mstate' = new
      /\ UNCHANGED <<retries, lastErr, commands>>
      /\ ticker' \in BOOLEAN
      /\ sender' \in [Sender -> LoopType]
      /\ \A s \in Sender : sender[s].pc # "idle" => sender'[s].pc = sender[s].pc
      /\ heart' \in [Heart -> LoopType]
      /\ L1 \in Nat /\ K1 \in Nat
      /\ L1 <= L + (IF new = "Running" THEN 1 ELSE 0)
      /\ K1 <= K + (IF new = "Failed" THEN 0 ELSE 1)
      /\ WatchedWhileRunning'
      /\ HeartbeatsTick'
  BY <1>2, <1>7, SetStateEffect DEF L, K, L1, K1
<1>9. MonitorTypes'
  BY <1>1, <1>8 DEF MonitorTypes
<1>10. commands' <= MaxCommands /\ L1 + S1 <= commands' /\ K1 + S1 + B1 <= 2 * commands' + 1
  <2>1. /\ L1 + S1 <= L + S
        /\ K1 + S1 + B1 <= K + S + B
    <3>1. CASE r.pc = "idle"
      BY <1>3, <1>4, <1>5, <1>8, <3>1
    <3>2. CASE r.pc # "idle"
      <4>1. L1 <= L /\ K1 <= K + 1
        BY <1>3, <1>8, <3>2
      <4>2. QED
        BY <1>3, <1>4, <1>5, <1>8, <3>2, <4>1
    <3>3. QED
      BY <3>1, <3>2
  <2>2. K + S + B <= 2 * commands + 1
    BY <1>2, <1>3, <1>4, <1>6
  <2>3. commands' = commands
    BY <1>8
  <2>4. commands' <= MaxCommands
    BY <1>6, <2>3
  <2>5. L1 + S1 <= commands'
    BY <1>2, <1>3, <1>4, <1>6, <1>8, <2>1, <2>3
  <2>6. K1 + S1 + B1 <= 2 * commands' + 1
    BY <1>2, <1>3, <1>4, <1>8, <2>1, <2>2, <2>3
  <2>7. QED
    BY <2>4, <2>5, <2>6
<1>11. GoroutinesCounted'
  BY <1>1, <1>8, <1>10 DEF GoroutinesCounted, S1, B1, L1, K1
<1>12. QED
  BY <1>8, <1>9, <1>11

\* A request that is taken up.
LEMMA RequestKeeps ==
    ASSUME MonitorInv, NEW op \in {"start", "stop", "restart", "rerank", "remove"},
           NEW pc \in {"begin", "stop", "launch"}, Request(op, pc)
    PROVE  MonitorInv' /\ \E h \in Handler : /\ handler[h].pc = "idle"
                                             /\ handler'[h].pc = pc
                                             /\ handler'[h].op = op
                                             /\ \A g \in Handler \ {h} : handler'[g] = handler[g]
<1> USE DEF MonitorInv
<1> DEFINE h == CHOOSE h \in Handler : handler[h].pc = "idle"
           r == [IdleHandler EXCEPT !.pc = pc, !.op = op, !.was = (mstate = "Running")]
<1>1. h \in Handler /\ handler[h].pc = "idle"
  BY DEF Request
<1>2. /\ commands < MaxCommands /\ commands' = commands + 1
      /\ handler' = [handler EXCEPT ![h] = r]
      /\ UNCHANGED <<mstate, retries, lastErr, ticker, sender, heart>>
      /\ mstate # "Initializing"
  BY DEF Request, Serving
<1>3. r \in HandlerType /\ r.pc = pc /\ r.op = op
  BY DEF HandlerType, IdleHandler
<1> HIDE DEF h, r
<1>4. /\ handler' \in [Handler -> HandlerType]
      /\ IsFiniteSet(Serviced')
      /\ Cardinality(Serviced) \in Nat /\ Cardinality(Serviced') \in Nat
      /\ Cardinality(Beginning) \in Nat /\ Cardinality(Beginning') \in Nat
      /\ Cardinality(Serviced') = Cardinality(Serviced)
           + (IF r.pc # "idle" THEN 1 ELSE 0) - (IF handler[h].pc # "idle" THEN 1 ELSE 0)
      /\ Cardinality(Beginning') = Cardinality(Beginning)
           + (IF r.pc = "begin" THEN 1 ELSE 0) - (IF handler[h].pc = "begin" THEN 1 ELSE 0)
  BY <1>1, <1>2, <1>3, HandlerCount
<1>5. /\ Cardinality(Serviced') = Cardinality(Serviced) + 1
      /\ Cardinality(Beginning') <= Cardinality(Beginning) + 1
  BY <1>1, <1>3, <1>4
<1>6. Cardinality(Live(sender)) \in Nat /\ Cardinality(Live(heart)) \in Nat
  BY LiveCount, MonitorAssumption DEF MonitorTypes
<1>7. commands \in Nat /\ MaxCommands \in Nat
  BY MonitorAssumption DEF MonitorTypes
<1>8. MonitorTypes' /\ WatchedWhileRunning' /\ HeartbeatsTick'
  BY <1>2, <1>4, <1>7 DEF MonitorTypes, WatchedWhileRunning, Watching, HeartbeatsTick, Beating
<1>9. GoroutinesCounted'
  <2>1. /\ Cardinality(Live(sender)) + Cardinality(Serviced) <= commands
        /\ Cardinality(Live(heart)) + Cardinality(Serviced) + Cardinality(Beginning)
             <= 2 * commands + 1
    BY <1>2, <1>4, <1>6, <1>7 DEF GoroutinesCounted
  <2>2. /\ Cardinality(Live(sender)) + Cardinality(Serviced') <= commands'
        /\ Cardinality(Live(heart)) + Cardinality(Serviced') + Cardinality(Beginning')
             <= 2 * commands' + 1
        /\ commands' <= MaxCommands
    BY <1>2, <1>4, <1>5, <1>6, <1>7, <2>1
  <2>3. QED
    BY <1>2, <1>4, <1>6, <1>7, <2>2 DEF GoroutinesCounted
<1>10. handler \in [Handler -> HandlerType]
  BY DEF MonitorTypes
<1>11. handler'[h].pc = pc /\ handler'[h].op = op /\ \A g \in Handler \ {h} : handler'[g] = handler[g]
  BY <1>1, <1>2, <1>3, <1>10
<1>12. QED
  BY <1>1, <1>8, <1>9, <1>11

\* A sender that goes on is still watching; one that ends was not, or need not.
LEMMA SenderKeeps ==
    ASSUME MonitorInv, NEW s \in Sender, sender[s].pc # "idle",
           NEW pc \in {"idle", "loop", "select", "post", "metrics", "status", "metrics2"},
           pc = "idle" => ~Watching(s) \/ mstate # "Running",
           SenderGoes(s, pc)
    PROVE  MonitorInv' /\ sender'[s].pc = pc /\ \A r \in Sender \ {s} : sender'[r] = sender[r]
<1> USE DEF MonitorInv
<1> DEFINE new == [pc |-> pc, closed |-> FALSE]
<1>1. /\ sender' = [sender EXCEPT ![s] = new]
      /\ UNCHANGED <<mstate, retries, lastErr, ticker, handler, heart, commands>>
      /\ sender \in [Sender -> LoopType]
      /\ new \in LoopType /\ new.pc = pc /\ new.closed = FALSE
  BY DEF SenderGoes, SenderTo, MonitorTypes, LoopType
<1> HIDE DEF new
<1>2. /\ sender' \in [Sender -> LoopType]
      /\ sender'[s] = new
      /\ \A r \in Sender \ {s} : sender'[r] = sender[r]
  BY <1>1
<1>3. Live(sender') \subseteq Live(sender)
  <2>1. sender[s] # IdleLoop
    BY DEF IdleLoop
  <2>2. QED
    BY <1>1, <1>2, <2>1 DEF Live
<1>4. /\ Cardinality(Live(sender)) \in Nat /\ Cardinality(Live(sender')) \in Nat
      /\ Cardinality(Live(sender')) <= Cardinality(Live(sender))
  BY <1>1, <1>2, <1>3, LiveCount, MonitorAssumption
<1>5. ASSUME mstate' = "Running" PROVE \E r \in Sender : Watching(r)'
  <2>1. CASE pc = "idle"
    <3>1. PICK r \in Sender : Watching(r)
      BY <1>1, <1>5 DEF WatchedWhileRunning
    <3>2. r # s
      BY <1>1, <1>5, <2>1, <3>1
    <3>3. Watching(r)'
      BY <1>2, <3>1, <3>2 DEF Watching
    <3>4. QED
      BY <3>3
  <2>2. CASE pc # "idle"
    BY <1>1, <1>2, <2>2 DEF Watching
  <2>3. QED
    BY <2>1, <2>2
<1>6. WatchedWhileRunning'
  BY <1>5 DEF WatchedWhileRunning
<1>7. MonitorTypes' /\ HeartbeatsTick'
  BY <1>1, <1>2 DEF MonitorTypes, HeartbeatsTick, Beating
<1>8. GoroutinesCounted'
  <2>1. Cardinality(Serviced) \in Nat /\ commands \in Nat
    BY FS_CardinalityType DEF GoroutinesCounted, MonitorTypes
  <2>2. Cardinality(Live(sender')) + Cardinality(Serviced) <= commands
    BY <1>4, <2>1 DEF GoroutinesCounted
  <2>3. Serviced' = Serviced /\ Beginning' = Beginning
    BY <1>1 DEF Serviced, Beginning
  <2>4. QED
    BY <1>1, <2>2, <2>3 DEF GoroutinesCounted
<1>9. QED
  BY <1>1, <1>2, <1>6, <1>7, <1>8

\* A heartbeat that goes on beats; one that ends was told to.
LEMMA HeartKeeps ==
    ASSUME MonitorInv, NEW k \in Heart, heart[k].pc # "idle",
           NEW pc \in {"idle", "loop", "select", "sending"},
           pc = "idle" => ~Beating(k),
           HeartGoes(k, pc)
    PROVE  MonitorInv'
<1> USE DEF MonitorInv
<1> DEFINE new == [pc |-> pc, closed |-> FALSE]
<1>1. /\ heart' = [heart EXCEPT ![k] = new]
      /\ UNCHANGED <<mstate, retries, lastErr, ticker, handler, sender, commands>>
      /\ heart \in [Heart -> LoopType]
      /\ new \in LoopType /\ new.pc = pc /\ new.closed = FALSE
  BY DEF HeartGoes, HeartTo, MonitorTypes, LoopType
<1> HIDE DEF new
<1>2. /\ heart' \in [Heart -> LoopType]
      /\ heart'[k] = new
      /\ \A j \in Heart \ {k} : heart'[j] = heart[j]
  BY <1>1
<1>3. Live(heart') \subseteq Live(heart)
  <2>1. heart[k] # IdleLoop
    BY DEF IdleLoop
  <2>2. QED
    BY <1>1, <1>2, <2>1 DEF Live
<1>4. /\ Cardinality(Live(heart)) \in Nat /\ Cardinality(Live(heart')) \in Nat
      /\ Cardinality(Live(heart')) <= Cardinality(Live(heart))
  BY <1>1, <1>2, <1>3, LiveCount, MonitorAssumption
<1>5. ASSUME ticker' PROVE \E j \in Heart : Beating(j)'
  <2>1. CASE pc = "idle"
    <3>1. PICK j \in Heart : Beating(j)
      BY <1>1, <1>5 DEF HeartbeatsTick
    <3>2. j # k
      BY <2>1, <3>1
    <3>3. Beating(j)'
      BY <1>2, <3>1, <3>2 DEF Beating
    <3>4. QED
      BY <3>3
  <2>2. CASE pc # "idle"
    BY <1>1, <1>2, <2>2 DEF Beating
  <2>3. QED
    BY <2>1, <2>2
<1>6. HeartbeatsTick'
  BY <1>1, <1>5 DEF HeartbeatsTick
<1>7. MonitorTypes' /\ WatchedWhileRunning'
  BY <1>1, <1>2 DEF MonitorTypes, WatchedWhileRunning, Watching
<1>8. GoroutinesCounted'
  <2>1. Serviced' = Serviced /\ Beginning' = Beginning
    BY <1>1 DEF Serviced, Beginning
  <2>2. /\ Cardinality(Serviced) \in Nat /\ Cardinality(Beginning) \in Nat
        /\ commands \in Nat
    <3>1. Beginning \subseteq Serviced /\ IsFiniteSet(Serviced)
      BY DEF Beginning, Serviced, GoroutinesCounted
    <3>2. QED
      BY <3>1, FS_Subset, FS_CardinalityType DEF MonitorTypes
  <2>3. Cardinality(Live(heart')) + Cardinality(Serviced) + Cardinality(Beginning)
          + (IF mstate = "Initializing" THEN 1 ELSE 0) <= 2 * commands + 1
    BY <1>4, <2>2 DEF GoroutinesCounted
  <2>4. QED
    BY <1>1, <2>1, <2>3 DEF GoroutinesCounted
<1>9. QED
  BY <1>6, <1>7, <1>8

\* Requests to the engine stay those of clients that wait for them, if only one
\* client goes on.
LEMMA CallsKept ==
    ASSUME MonitorInv, CallsMatch, NEW c \in Call,
           \A d \in Call \ {c} : call'[d] = call[d],
           \A h \in Handler \ {c} : handler'[h] = handler[h],
           \A s \in Sender \ {c} : sender[s].pc # "idle" => sender'[s].pc = sender[s].pc,
           c \in Handler => HandlerWaits(c)' \/ call'[c].pc = "idle",
           c \in Sender => SenderWaits(c)' \/ call'[c].pc = "idle"
    PROVE  CallsMatch'
<1>1. Call = Handler \cup Sender
  BY MonitorAssumption
<1>2. ASSUME NEW h \in Handler, ~HandlerWaits(h)' PROVE call'[h].pc = "idle"
  <2>1. CASE h = c
    BY <1>2, <2>1
  <2>2. CASE h # c
    BY <1>1, <1>2, <2>2 DEF CallsMatch, HandlerWaits
  <2>3. QED
    BY <2>1, <2>2
<1>3. ASSUME NEW s \in Sender, ~SenderWaits(s)' PROVE call'[s].pc = "idle"
  <2>1. CASE s = c
    BY <1>3, <2>1
  <2>2. CASE s # c
    <3>1. ~SenderWaits(s)
      BY <1>3, <2>2 DEF SenderWaits
    <3>2. QED
      BY <1>1, <2>2, <3>1 DEF CallsMatch
  <2>3. QED
    BY <2>1, <2>2
<1>4. QED
  BY <1>2, <1>3 DEF CallsMatch

\* Whatever a handler does: it goes on or sets the state, and leaves its request
\* alone, sends one, or takes the answer.
LEMMA HandlerKeeps ==
    ASSUME PodInv, NEW h \in Handler, handler[h].pc # "idle",
           NEW r \in HandlerType, OpFits(r), handler' = [handler EXCEPT ![h] = r],
           \/ /\ r.pc # "begin"
              /\ UNCHANGED <<mstate, retries, lastErr, ticker, sender, heart, commands>>
           \/ \E new \in {"Standby", "Running", "Restarting", "Failed"} :
                /\ SetState(new, sender, heart)
                /\ \/ r.pc = "idle"
                   \/ handler[h].pc = "begin" /\ r.pc # "begin" /\ new = "Restarting",
           UNCHANGED engineRest,
           \/ call' = call /\ call[h].pc = "idle"
           \/ /\ call[h].pc \in {"idle", "answered"}
              /\ r.pc \in {"stopping", "starting", "clearing", "reranking"}
              /\ \E op \in {"start", "stop", "restart"} : call' = [call EXCEPT ![h] = Sent(op)]
           \/ /\ call[h].pc \in {"idle", "answered"}
              /\ call' = [call EXCEPT ![h] = NoCall]
    PROVE  PodInv'
<1> USE DEF PodInv
<1>1. h \in Call /\ handler \in [Handler -> HandlerType]
  BY MonitorAssumption DEF MonitorInv, MonitorTypes
<1>2. handler'[h] = r /\ \A g \in Handler \ {h} : handler'[g] = handler[g]
  BY <1>1
<1>3. MonitorInv' /\ \A s \in Sender : sender[s].pc # "idle" => sender'[s].pc = sender[s].pc
  <2>1. CASE /\ r.pc # "begin"
             /\ UNCHANGED <<mstate, retries, lastErr, ticker, sender, heart, commands>>
    BY <2>1, HandlerGoes
  <2>2. ASSUME NEW new \in {"Standby", "Running", "Restarting", "Failed"},
               SetState(new, sender, heart),
               \/ r.pc = "idle"
               \/ handler[h].pc = "begin" /\ r.pc # "begin" /\ new = "Restarting"
        PROVE  MonitorInv' /\ \A s \in Sender : sender[s].pc # "idle" => sender'[s].pc = sender[s].pc
    BY <2>2, HandlerSetsState
  <2>3. QED
    BY <2>1, <2>2
<1>4. /\ EngineInv'
      /\ \A d \in Call \ {h} : call'[d] = call[d]
      /\ call'[h].pc = "idle" \/ r.pc \in {"stopping", "starting", "clearing", "reranking"}
  <2>1. call \in [Call -> CallType] /\ UNCHANGED <<child, lastExit, mu, shell, trainer>>
    BY DEF EngineInv, EngineTypeOK, engineRest
  <2>2. CASE call' = call /\ call[h].pc = "idle"
    BY <2>1, <2>2 DEF EngineInv, EngineTypeOK, TakenScripts, ScriptOwned
  <2>3. ASSUME call[h].pc \in {"idle", "answered"},
               r.pc \in {"stopping", "starting", "clearing", "reranking"},
               NEW op \in {"start", "stop", "restart"}, call' = [call EXCEPT ![h] = Sent(op)]
        PROVE  EngineInv' /\ \A d \in Call \ {h} : call'[d] = call[d]
    BY <1>1, <2>1, <2>3, ClientKeeps
  <2>4. CASE call[h].pc \in {"idle", "answered"} /\ call' = [call EXCEPT ![h] = NoCall]
    <3>1. EngineInv' /\ \A d \in Call \ {h} : call'[d] = call[d]
      BY <1>1, <2>1, <2>4, ClientKeeps
    <3>2. call'[h].pc = "idle"
      BY <1>1, <2>1, <2>4 DEF NoCall
    <3>3. QED
      BY <3>1, <3>2
  <2>5. QED
    BY <2>2, <2>3, <2>4
<1>5. h \notin Sender
  BY MonitorAssumption
<1>6. HandlerWaits(h)' \/ call'[h].pc = "idle"
  BY <1>2, <1>4 DEF HandlerWaits
<1>7. CallsMatch'
  BY <1>1, <1>2, <1>3, <1>4, <1>5, <1>6, CallsKept
<1>8. OpsFit'
  BY <1>2 DEF OpsFit, OpFits
<1>9. QED
  BY <1>3, <1>4, <1>7, <1>8

\* The two ways in which a handler goes on.
LEMMA GotoEffect ==
    ASSUME MonitorInv, NEW h \in Handler, NEW pc \in {"idle", "launch", "stopping", "starting",
                                                      "clearing", "reranking"},
           Goto(h, pc)
    PROVE  \E r \in HandlerType :
             /\ r.pc = pc
             /\ pc # "idle" => r.op = handler[h].op
             /\ handler' = [handler EXCEPT ![h] = r]
             /\ UNCHANGED <<mstate, retries, lastErr, ticker, sender, heart, commands>>
<1>1. handler \in [Handler -> HandlerType]
  BY DEF MonitorInv, MonitorTypes
<1>2. CASE pc = "idle"
  <2>1. IdleHandler \in HandlerType /\ IdleHandler.pc = pc
    BY <1>2 DEF IdleHandler, HandlerType
  <2>2. QED
    BY <1>2, <2>1 DEF Goto
<1>3. CASE pc # "idle"
  <2> DEFINE r == [handler[h] EXCEPT !.pc = pc]
  <2>1. r \in HandlerType /\ r.pc = pc /\ r.op = handler[h].op
    BY <1>1 DEF HandlerType
  <2>2. handler' = [handler EXCEPT ![h] = r]
    BY <1>1, <1>3 DEF Goto
  <2> HIDE DEF r
  <2>3. QED
    BY <2>1, <2>2 DEF Goto
<1>4. QED
  BY <1>2, <1>3

LEMMA SetStateByEffect ==
    ASSUME NEW h \in Handler, NEW new, SetStateBy(h, new)
    PROVE  /\ IdleHandler \in HandlerType /\ IdleHandler.pc = "idle" /\ OpFits(IdleHandler)
           /\ handler' = [handler EXCEPT ![h] = IdleHandler]
           /\ SetState(new, sender, heart)
BY DEF SetStateBy, IdleHandler, HandlerType, OpFits

\* What a handler does when stopAgent has returned, or startAgent has failed.
LEMMA StopReturns ==
    ASSUME PodInv, NEW h \in Handler, handler[h].pc # "idle",
           handler[h].pc \in {"stop", "stopping"},
           StopFailed(h) \/ StopSucceeded(h),
           UNCHANGED engineRest,
           \/ call' = call /\ call[h].pc = "idle"
           \/ call[h].pc = "answered" /\ Consume(h)
    PROVE  PodInv'
<1> USE DEF PodInv
<1>1. \/ call' = call /\ call[h].pc = "idle"
      \/ call[h].pc \in {"idle", "answered"} /\ call' = [call EXCEPT ![h] = NoCall]
  BY DEF Consume
<1>2. \/ \E pc \in {"idle", "launch"} : Goto(h, pc)
      \/ \E new \in {"Standby", "Failed"} : SetStateBy(h, new)
  <2>1. handler[h].op \in {"stop", "restart", "remove"}
    BY DEF OpsFit, OpFits
  <2>2. QED
    BY <2>1 DEF StopFailed, StopSucceeded
<1>3. ASSUME NEW pc \in {"idle", "launch"}, Goto(h, pc) PROVE PodInv'
  <2>1. PICK r \in HandlerType :
          /\ r.pc = pc
          /\ handler' = [handler EXCEPT ![h] = r]
          /\ UNCHANGED <<mstate, retries, lastErr, ticker, sender, heart, commands>>
    BY <1>3, GotoEffect
  <2>2. OpFits(r)
    BY <2>1 DEF OpFits
  <2>3. QED
    BY <1>1, <2>1, <2>2, HandlerKeeps
<1>4. ASSUME NEW new \in {"Standby", "Failed"}, SetStateBy(h, new) PROVE PodInv'
  BY <1>1, <1>4, SetStateByEffect, HandlerKeeps
<1>5. QED
  BY <1>2, <1>3, <1>4

LEMMA TryAgainKeeps ==
    ASSUME PodInv, NEW h \in Handler, handler[h].pc # "idle",
           TryAgain(h), call[h].pc = "answered", UNCHANGED engineRest
    PROVE  PodInv'
<1> USE DEF PodInv
<1>1. handler \in [Handler -> HandlerType] /\ handler[h] \in HandlerType
  BY DEF MonitorInv, MonitorTypes
<1>2. CASE handler[h].try + 1 < MaxTries
  <2> DEFINE r == [handler[h] EXCEPT !.pc = "starting", !.try = @ + 1]
  <2>1. r \in HandlerType /\ r.pc = "starting" /\ OpFits(r)
    <3>1. handler[h].try + 1 \in Nat
      BY <1>1 DEF HandlerType
    <3>2. r \in HandlerType /\ r.pc = "starting"
      BY <1>1, <3>1 DEF HandlerType
    <3>3. QED
      BY <3>2 DEF OpFits
  <2>2. /\ handler' = [handler EXCEPT ![h] = r]
        /\ call' = [call EXCEPT ![h] = Sent("start")]
        /\ UNCHANGED <<mstate, retries, lastErr, ticker, sender, heart, commands>>
    BY <1>1, <1>2 DEF TryAgain, Send
  <2> HIDE DEF r
  <2>3. QED
    BY <2>1, <2>2, HandlerKeeps
<1>3. CASE ~(handler[h].try + 1 < MaxTries)
  <2>1. SetStateBy(h, "Failed") /\ call' = [call EXCEPT ![h] = NoCall]
    BY <1>3 DEF TryAgain, Consume
  <2>2. QED
    BY <2>1, SetStateByEffect, HandlerKeeps
<1>4. QED
  BY <1>2, <1>3

\* A step of a handler keeps the invariant.
LEMMA HandlerStepKeeps == ASSUME PodInv, NEW h \in Handler, HandlerStep(h) PROVE PodInv'
<1> USE DEF PodInv
<1>1. /\ handler \in [Handler -> HandlerType] /\ handler[h] \in HandlerType
      /\ h \in Call
      /\ ~HandlerWaits(h) => call[h].pc = "idle"
      /\ OpFits(handler[h])
  BY MonitorAssumption DEF MonitorInv, MonitorTypes, CallsMatch, OpsFit
<1>2. ASSUME NEW pc \in {"stopping", "starting", "clearing", "reranking"}, Goto(h, pc),
             pc = "stopping" => handler[h].pc = "stop",
             handler[h].pc # "idle",
             NEW op \in {"start", "stop", "restart"}, Send(h, op),
             call[h].pc \in {"idle", "answered"},
             UNCHANGED engineRest
      PROVE  PodInv'
  <2>1. PICK r \in HandlerType :
          /\ r.pc = pc
          /\ pc # "idle" => r.op = handler[h].op
          /\ handler' = [handler EXCEPT ![h] = r]
          /\ UNCHANGED <<mstate, retries, lastErr, ticker, sender, heart, commands>>
    BY <1>2, GotoEffect
  <2>2. OpFits(r)
    BY <1>1, <1>2, <2>1 DEF OpFits
  <2>3. call' = [call EXCEPT ![h] = Sent(op)]
    BY <1>2 DEF Send
  <2>4. QED
    BY <1>2, <2>1, <2>2, <2>3, HandlerKeeps
<1>3. ASSUME NEW new \in {"Standby", "Running", "Restarting", "Failed"}, SetStateBy(h, new),
             handler[h].pc # "idle",
             UNCHANGED engineRest,
             \/ call' = call /\ call[h].pc = "idle"
             \/ call[h].pc = "answered" /\ Consume(h)
      PROVE  PodInv'
  <2>1. /\ IdleHandler \in HandlerType /\ IdleHandler.pc = "idle" /\ OpFits(IdleHandler)
        /\ handler' = [handler EXCEPT ![h] = IdleHandler]
        /\ SetState(new, sender, heart)
    BY <1>3, SetStateByEffect
  <2>2. \/ call' = call /\ call[h].pc = "idle"
        \/ call[h].pc \in {"idle", "answered"} /\ call' = [call EXCEPT ![h] = NoCall]
    BY <1>3 DEF Consume
  <2>3. QED
    BY <1>3, <2>1, <2>2, HandlerKeeps
<1>4. CASE Begin(h)
  <2> DEFINE r == [handler[h] EXCEPT
                     !.pc = IF handler[h].op = "rerank" THEN "rerank"
                            ELSE IF handler[h].was THEN "stop" ELSE "launch",
                     !.was = FALSE]
  <2>1. /\ handler[h].pc = "begin" /\ handler[h].op \in {"restart", "rerank"}
        /\ SetState("Restarting", sender, heart)
        /\ UNCHANGED engineVars
        /\ handler' = [handler EXCEPT ![h].pc =
                         IF handler[h].op = "rerank" THEN "rerank"
                         ELSE IF handler[h].was THEN "stop" ELSE "launch",
                                      ![h].was = FALSE]
    BY <1>1, <1>4 DEF Begin, InHandler, OpFits
  <2>2. handler' = [handler EXCEPT ![h] = r]
    BY <1>1, <2>1
  <2>3. r \in HandlerType /\ r.pc \in {"rerank", "stop", "launch"} /\ r.op = handler[h].op
    BY <1>1 DEF HandlerType
  <2>4. OpFits(r)
    <3>1. handler[h].op = "rerank" => r.pc = "rerank"
      BY <1>1 DEF HandlerType
    <3> HIDE DEF r
    <3>2. QED
      BY <2>1, <2>3, <3>1 DEF OpFits
  <2> HIDE DEF r
  <2>5. UNCHANGED engineRest /\ call' = call /\ call[h].pc = "idle"
    BY <1>1, <2>1 DEF engineVars, engineRest, HandlerWaits
  <2>6. QED
    BY <2>1, <2>2, <2>3, <2>4, <2>5, HandlerKeeps
<1>5. CASE StopAgent(h)
  <2>1. handler[h].pc = "stop" /\ UNCHANGED engineRest /\ call[h].pc = "idle"
    BY <1>1, <1>5 DEF StopAgent, InHandler, HandlerWaits
  <2>2. CASE Goto(h, "stopping") /\ Send(h, "stop")
    BY <1>2, <2>1, <2>2
  <2>3. CASE StopFailed(h) /\ UNCHANGED call
    BY <2>1, <2>3, StopReturns
  <2>4. QED
    BY <1>5, <2>2, <2>3 DEF StopAgent
<1>6. CASE StopAgentEnds(h)
  <2>1. /\ handler[h].pc = "stopping" /\ UNCHANGED engineRest
        /\ call[h].pc = "answered" /\ Consume(h)
        /\ StopFailed(h) \/ StopSucceeded(h)
    BY <1>6 DEF StopAgentEnds, InHandler, Answered
  <2>2. QED
    BY <2>1, StopReturns
<1>7. CASE StartAgent(h)
  <2>1. handler[h].pc = "launch" /\ UNCHANGED engineRest /\ call[h].pc = "idle"
    BY <1>1, <1>7 DEF StartAgent, InHandler, HandlerWaits
  <2>2. CASE Goto(h, "starting") /\ Send(h, "start")
    BY <1>2, <2>1, <2>2
  <2>3. CASE SetStateBy(h, "Failed") /\ UNCHANGED call
    BY <1>3, <2>1, <2>3
  <2>4. QED
    BY <1>7, <2>2, <2>3 DEF StartAgent
<1>8. CASE StartAgentEnds(h)
  <2>1. handler[h].pc = "starting" /\ UNCHANGED engineRest /\ call[h].pc = "answered"
    BY <1>8 DEF StartAgentEnds, InHandler, Answered
  <2>2. CASE SetStateBy(h, "Running") /\ Consume(h)
    BY <1>3, <2>1, <2>2
  <2>3. CASE Goto(h, "clearing") /\ Send(h, "stop")
    BY <1>2, <2>1, <2>3
  <2>4. CASE TryAgain(h)
    BY <2>1, <2>4, TryAgainKeeps
  <2>5. QED
    BY <1>8, <2>2, <2>3, <2>4 DEF StartAgentEnds
<1>9. CASE ClearEnds(h)
  <2>1. handler[h].pc = "clearing" /\ UNCHANGED engineRest /\ call[h].pc = "answered"
    BY <1>9 DEF ClearEnds, InHandler, Answered
  <2>2. CASE TryAgain(h)
    BY <2>1, <2>2, TryAgainKeeps
  <2>3. CASE SetStateBy(h, "Failed") /\ Consume(h)
    BY <1>3, <2>1, <2>3
  <2>4. QED
    BY <1>9, <2>2, <2>3 DEF ClearEnds
<1>10. CASE RestartAgent(h)
  <2>1. /\ handler[h].pc = "rerank" /\ UNCHANGED engineRest /\ call[h].pc = "idle"
        /\ Goto(h, "reranking") /\ Send(h, "restart")
    BY <1>1, <1>10 DEF RestartAgent, InHandler, HandlerWaits
  <2>2. QED
    BY <1>2, <2>1
<1>11. CASE RestartAgentEnds(h)
  <2>1. /\ handler[h].pc = "reranking" /\ UNCHANGED engineRest /\ call[h].pc = "answered"
        /\ Consume(h)
        /\ \E new \in {"Failed", "Running"} : SetStateBy(h, new)
    BY <1>11 DEF RestartAgentEnds, InHandler, Answered
  <2>2. QED
    BY <1>3, <2>1
<1>12. QED
  BY <1>4, <1>5, <1>6, <1>7, <1>8, <1>9, <1>10, <1>11 DEF HandlerStep

\* A sender that goes on, with its request to the engine.
LEMMA SenderGoesKeeps ==
    ASSUME PodInv, NEW s \in Sender, sender[s].pc # "idle",
           NEW pc \in {"idle", "loop", "select", "post", "metrics", "status", "metrics2"},
           pc = "idle" => ~Watching(s) \/ mstate # "Running",
           SenderGoes(s, pc),
           UNCHANGED engineRest,
           \/ call' = call /\ call[s].pc = "idle"
           \/ /\ call[s].pc \in {"idle", "answered"}
              /\ pc \in {"metrics", "status", "metrics2"}
              /\ \E op \in {"metrics", "status"} : Send(s, op)
           \/ call[s].pc = "answered" /\ Consume(s)
    PROVE  PodInv'
<1> USE DEF PodInv
<1>1. s \in Call /\ s \notin Handler /\ call \in [Call -> CallType]
  BY MonitorAssumption DEF EngineInv, EngineTypeOK
<1>2. MonitorInv' /\ sender'[s].pc = pc /\ \A r \in Sender \ {s} : sender'[r] = sender[r]
  BY SenderKeeps
<1>3. /\ EngineInv'
      /\ \A d \in Call \ {s} : call'[d] = call[d]
      /\ call'[s].pc = "idle" \/ pc \in {"metrics", "status", "metrics2"}
  <2>1. UNCHANGED <<child, lastExit, mu, shell, trainer>>
    BY DEF engineRest
  <2>2. CASE call' = call /\ call[s].pc = "idle"
    BY <2>1, <2>2 DEF EngineInv, EngineTypeOK, TakenScripts, ScriptOwned
  <2>3. ASSUME call[s].pc \in {"idle", "answered"}, pc \in {"metrics", "status", "metrics2"},
               NEW op \in {"metrics", "status"}, Send(s, op)
        PROVE  EngineInv' /\ \A d \in Call \ {s} : call'[d] = call[d]
    BY <1>1, <2>1, <2>3, ClientKeeps DEF Send
  <2>4. CASE call[s].pc = "answered" /\ Consume(s)
    <3>1. call' = [call EXCEPT ![s] = NoCall]
      BY <2>4 DEF Consume
    <3>2. EngineInv' /\ \A d \in Call \ {s} : call'[d] = call[d]
      BY <1>1, <2>1, <2>4, <3>1, ClientKeeps
    <3>3. call'[s].pc = "idle"
      BY <1>1, <3>1 DEF NoCall
    <3>4. QED
      BY <3>2, <3>3
  <2>5. QED
    BY <2>2, <2>3, <2>4
<1>4. UNCHANGED handler
  BY DEF SenderGoes
<1>5. SenderWaits(s)' \/ call'[s].pc = "idle"
  BY <1>2, <1>3 DEF SenderWaits
<1>6. CallsMatch' /\ OpsFit'
  BY <1>1, <1>2, <1>3, <1>4, <1>5, CallsKept DEF OpsFit, OpFits
<1>7. QED
  BY <1>2, <1>3, <1>6

\* A failure, found by a sender or a heartbeat, which ends with it.
LEMMA FailureKeeps ==
    ASSUME MonitorInv,
           NEW senders \in [Sender -> LoopType], Live(senders) \subseteq Live(sender),
           NEW hearts \in [Heart -> LoopType], Live(hearts) \subseteq Live(heart),
           SetState("Failed", senders, hearts), UNCHANGED handler
    PROVE  MonitorInv' /\ \A s \in Sender : senders[s].pc # "idle" => sender'[s].pc = senders[s].pc
<1> USE DEF MonitorInv
<1>1. /\ mstate' = "Failed"
      /\ UNCHANGED <<retries, lastErr, commands>>
      /\ ticker' \in BOOLEAN
      /\ sender' \in [Sender -> LoopType]
      /\ \A s \in Sender : senders[s].pc # "idle" => sender'[s].pc = senders[s].pc
      /\ heart' \in [Heart -> LoopType]
      /\ Cardinality(Live(sender)) \in Nat /\ Cardinality(Live(sender')) \in Nat
      /\ Cardinality(Live(heart)) \in Nat /\ Cardinality(Live(heart')) \in Nat
      /\ Cardinality(Live(sender')) <= Cardinality(Live(sender))
      /\ Cardinality(Live(heart')) <= Cardinality(Live(heart))
      /\ WatchedWhileRunning'
      /\ HeartbeatsTick'
  <2>1. /\ mstate' = "Failed"
        /\ UNCHANGED <<retries, lastErr, commands>>
        /\ ticker' \in BOOLEAN
        /\ sender' \in [Sender -> LoopType]
        /\ \A s \in Sender : senders[s].pc # "idle" => sender'[s].pc = senders[s].pc
        /\ heart' \in [Heart -> LoopType]
        /\ Cardinality(Live(sender)) \in Nat /\ Cardinality(Live(sender')) \in Nat
        /\ Cardinality(Live(heart)) \in Nat /\ Cardinality(Live(heart')) \in Nat
        /\ Cardinality(Live(sender')) <=
             Cardinality(Live(sender)) + (IF "Failed" = "Running" THEN 1 ELSE 0)
        /\ Cardinality(Live(heart')) <=
             Cardinality(Live(heart)) + (IF "Failed" = "Failed" THEN 0 ELSE 1)
        /\ WatchedWhileRunning'
        /\ HeartbeatsTick'
    BY SetStateEffect
  <2>2. QED
    BY <2>1
<1>2. MonitorTypes'
  BY <1>1 DEF MonitorTypes
<1>3. Serviced' = Serviced /\ Beginning' = Beginning
  BY DEF Serviced, Beginning
<1>4. /\ Cardinality(Serviced) \in Nat /\ Cardinality(Beginning) \in Nat
      /\ commands \in Nat
  <2>1. Beginning \subseteq Serviced /\ IsFiniteSet(Serviced)
    BY DEF Beginning, Serviced, GoroutinesCounted
  <2>2. QED
    BY <2>1, FS_Subset, FS_CardinalityType DEF MonitorTypes
<1>5. /\ Cardinality(Live(sender')) + Cardinality(Serviced) <= commands
      /\ Cardinality(Live(heart')) + Cardinality(Serviced) + Cardinality(Beginning) + 0
           <= 2 * commands + 1
  BY <1>1, <1>4 DEF GoroutinesCounted
<1>6. GoroutinesCounted'
  BY <1>1, <1>3, <1>5 DEF GoroutinesCounted
<1>7. QED
  BY <1>1, <1>2, <1>6

\* A goroutine that ends, and the others.
LEMMA Without ==
    ASSUME NEW D, NEW loops \in [D -> LoopType], NEW l \in D
    PROVE  LET new == [loops EXCEPT ![l] = [pc |-> "idle", closed |-> FALSE]] IN
           /\ new \in [D -> LoopType]
           /\ Live(new) \subseteq Live(loops)
           /\ new[l].pc = "idle"
           /\ \A m \in D \ {l} : new[m] = loops[m]
BY DEF LoopType, Live, IdleLoop

\* A step of a sender keeps the invariant.
LEMMA SenderStepKeeps ==
    ASSUME PodInv, NEW s \in Sender, SenderStep(s) \/ SenderStops(s)
    PROVE  PodInv'
<1> USE DEF PodInv
<1>1. /\ s \in Call /\ s \notin Handler
      /\ ~SenderWaits(s) => call[s].pc = "idle"
      /\ sender \in [Sender -> LoopType] /\ heart \in [Heart -> LoopType]
  BY MonitorAssumption DEF CallsMatch, MonitorInv, MonitorTypes
<1>2. CASE SenderLoop(s)
  <2>1. /\ sender[s].pc = "loop" /\ SenderGoes(s, "select")
        /\ UNCHANGED engineRest /\ call' = call /\ call[s].pc = "idle"
    BY <1>1, <1>2 DEF SenderLoop, InSender, SenderWaits, engineVars, engineRest
  <2>2. QED
    BY <2>1, SenderGoesKeeps
<1>3. CASE SenderStops(s)
  <2>1. /\ sender[s].pc = "select" /\ SenderGoes(s, "idle") /\ ~Watching(s)
        /\ UNCHANGED engineRest /\ call' = call /\ call[s].pc = "idle"
    BY <1>1, <1>3 DEF SenderStops, InSender, SenderWaits, Watching, engineVars, engineRest
  <2>2. QED
    BY <2>1, SenderGoesKeeps
<1>4. CASE SenderTicks(s)
  <2>1. /\ sender[s].pc = "select"
        /\ SenderGoes(s, IF mstate = "Running" THEN "post" ELSE "idle")
        /\ UNCHANGED engineRest /\ call' = call /\ call[s].pc = "idle"
    BY <1>1, <1>4 DEF SenderTicks, InSender, SenderWaits, engineVars, engineRest
  <2>2. CASE mstate = "Running"
    <3>1. SenderGoes(s, "post")
      BY <2>1, <2>2
    <3>2. QED
      BY <2>1, <3>1, SenderGoesKeeps
  <2>3. CASE mstate # "Running"
    <3>1. SenderGoes(s, "idle")
      BY <2>1, <2>3
    <3>2. QED
      BY <2>1, <2>3, <3>1, SenderGoesKeeps
  <2>4. QED
    BY <2>2, <2>3
<1>5. CASE SenderPosts(s)
  <2>1. /\ sender[s].pc = "post" /\ UNCHANGED engineRest /\ call[s].pc = "idle"
        /\ \/ SenderGoes(s, "metrics") /\ Send(s, "metrics")
           \/ SenderGoes(s, "status") /\ Send(s, "status")
    BY <1>1, <1>5 DEF SenderPosts, InSender, SenderWaits
  <2>2. QED
    BY <2>1, SenderGoesKeeps
<1>6. CASE MetricsSent(s)
  <2>1. /\ sender[s].pc = "metrics" /\ UNCHANGED engineRest /\ call[s].pc = "answered"
        /\ SenderGoes(s, "status") /\ Send(s, "status")
    BY <1>6 DEF MetricsSent, InSender, Answered
  <2>2. QED
    BY <2>1, SenderGoesKeeps
<1>7. CASE MetricsSentAgain(s)
  <2>1. /\ sender[s].pc = "metrics2" /\ UNCHANGED engineRest /\ call[s].pc = "answered"
        /\ SenderGoes(s, "loop") /\ Consume(s)
    BY <1>7 DEF MetricsSentAgain, InSender, Answered
  <2>2. QED
    BY <2>1, SenderGoesKeeps
<1>8. CASE StatusKnown(s)
  <2>1. sender[s].pc = "status" /\ UNCHANGED engineRest /\ call[s].pc = "answered"
    BY <1>8 DEF StatusKnown, InSender, Answered
  <2>2. CASE SenderGoes(s, "metrics2") /\ Send(s, "metrics")
    BY <2>1, <2>2, SenderGoesKeeps
  <2>3. CASE SenderGoes(s, "loop") /\ Consume(s)
    BY <2>1, <2>3, SenderGoesKeeps
  <2>4. CASE SetState("Failed", SenderTo(s, "idle"), heart) /\ Consume(s) /\ UNCHANGED handler
    <3> DEFINE new == [sender EXCEPT ![s] = [pc |-> "idle", closed |-> FALSE]]
    <3>1. /\ new \in [Sender -> LoopType]
          /\ Live(new) \subseteq Live(sender)
          /\ \A r \in Sender \ {s} : new[r] = sender[r]
      BY <1>1, Without
    <3>2. SetState("Failed", new, heart)
      BY <2>4 DEF SenderTo
    <3> HIDE DEF new
    <3>3. MonitorInv' /\ \A r \in Sender : new[r].pc # "idle" => sender'[r].pc = new[r].pc
      BY <1>1, <2>4, <3>1, <3>2, FailureKeeps
    <3>4. \A r \in Sender \ {s} : sender[r].pc # "idle" => sender'[r].pc = sender[r].pc
      BY <3>1, <3>3
    <3>5. /\ call' = [call EXCEPT ![s] = NoCall] /\ call \in [Call -> CallType]
          /\ UNCHANGED <<child, lastExit, mu, shell, trainer>>
      BY <2>1, <2>4 DEF Consume, engineRest, EngineInv, EngineTypeOK
    <3>6. EngineInv' /\ \A d \in Call \ {s} : call'[d] = call[d]
      BY <1>1, <2>1, <3>5, ClientKeeps
    <3>7. call'[s].pc = "idle"
      BY <1>1, <3>5 DEF NoCall
    <3>8. CallsMatch' /\ OpsFit'
      BY <1>1, <2>4, <3>4, <3>6, <3>7, CallsKept DEF OpsFit, OpFits
    <3>9. QED
      BY <3>3, <3>6, <3>8
  <2>5. QED
    BY <1>8, <2>2, <2>3, <2>4 DEF StatusKnown
<1>9. QED
  BY <1>2, <1>3, <1>4, <1>5, <1>6, <1>7, <1>8 DEF SenderStep

\* A step that leaves the engine, the handlers and the senders' places alone.
LEMMA ClientsKept ==
    ASSUME EngineInv, CallsMatch, OpsFit, UNCHANGED <<handler, engineVars>>,
           MonitorInv',
           \A s \in Sender : sender[s].pc # "idle" => sender'[s].pc = sender[s].pc
    PROVE  PodInv'
<1>1. UNCHANGED <<child, lastExit, mu, shell, trainer, call>>
  BY DEF engineVars
<1>2. EngineInv' /\ OpsFit'
  BY <1>1 DEF EngineInv, EngineTypeOK, TakenScripts, ScriptOwned, OpsFit, OpFits
<1>3. CallsMatch'
  BY <1>1 DEF CallsMatch, HandlerWaits, SenderWaits
<1>4. QED
  BY <1>2, <1>3 DEF PodInv

\* The process ends; what it leaves does not change any more.
LEMMA ExitKeeps == ASSUME MonitorInv, Exit PROVE MonitorInv'
<1>1. /\ mstate' = "Exited"
      /\ UNCHANGED <<retries, lastErr, ticker, handler, sender, heart, commands>>
  BY DEF Exit
<1>2. MonitorTypes' /\ WatchedWhileRunning' /\ HeartbeatsTick'
  BY <1>1 DEF MonitorInv, MonitorTypes, WatchedWhileRunning, HeartbeatsTick, Beating
<1>3. Serviced' = Serviced /\ Beginning' = Beginning
  BY <1>1 DEF Serviced, Beginning
<1>4. /\ Cardinality(Serviced) \in Nat /\ Cardinality(Beginning) \in Nat
      /\ Cardinality(Live(heart)) \in Nat /\ commands \in Nat
  <2>1. Beginning \subseteq Serviced /\ IsFiniteSet(Serviced)
    BY DEF Beginning, Serviced, MonitorInv, GoroutinesCounted
  <2>2. QED
    BY <2>1, FS_Subset, FS_CardinalityType, LiveCount, MonitorAssumption
       DEF MonitorInv, MonitorTypes
<1>5. Cardinality(Live(heart)) + Cardinality(Serviced) + Cardinality(Beginning) + 0
        <= 2 * commands + 1
  BY <1>4 DEF MonitorInv, GoroutinesCounted
<1>6. GoroutinesCounted'
  BY <1>1, <1>3, <1>5 DEF MonitorInv, GoroutinesCounted
<1>7. QED
  BY <1>2, <1>6 DEF MonitorInv

\* Registering, or failing to, keeps the invariant.
LEMMA RegistrationKeeps == ASSUME PodInv, Register \/ RegisterFails PROVE PodInv'
<1> USE DEF PodInv
<1>1. /\ mstate = "Initializing" /\ UNCHANGED engineVars
      /\ sender \in [Sender -> LoopType] /\ heart \in [Heart -> LoopType]
      /\ handler \in [Handler -> HandlerType]
      /\ commands \in Nat /\ MaxCommands \in Nat
  BY MonitorAssumption DEF Register, RegisterFails, MonitorInv, MonitorTypes
<1>2. CASE Exit
  <2>1. MonitorInv' /\ UNCHANGED <<handler, sender>>
    BY <1>2, ExitKeeps DEF Exit
  <2>2. QED
    BY <1>1, <2>1, ClientsKept
<1>3. CASE /\ retries' = retries + 1
           /\ lastErr' = TRUE
           /\ UNCHANGED <<mstate, ticker, handler, sender, heart, commands>>
  <2>1. MonitorTypes'
    BY <1>3 DEF MonitorInv, MonitorTypes
  <2>2. GoroutinesCounted' /\ WatchedWhileRunning' /\ HeartbeatsTick'
    BY <1>3 DEF MonitorInv, GoroutinesCounted, Serviced, Beginning, WatchedWhileRunning, Watching,
                HeartbeatsTick, Beating
  <2>3. MonitorInv'
    BY <2>1, <2>2 DEF MonitorInv
  <2>4. QED
    BY <1>1, <1>3, <2>3, ClientsKept
<1>4. CASE SetState("Standby", sender, heart) /\ UNCHANGED handler
  <2> DEFINE S == Cardinality(Serviced)
             B == Cardinality(Beginning)
             L == Cardinality(Live(sender))
             K == Cardinality(Live(heart))
             L1 == Cardinality(Live(sender'))
             K1 == Cardinality(Live(heart'))
  <2>1. S \in Nat /\ B \in Nat /\ L \in Nat /\ K \in Nat
    <3>1. Beginning \subseteq Serviced /\ IsFiniteSet(Serviced)
      BY DEF Beginning, Serviced, MonitorInv, GoroutinesCounted
    <3>2. QED
      BY <1>1, <3>1, FS_Subset, FS_CardinalityType, LiveCount, MonitorAssumption
  <2>2. /\ commands <= MaxCommands
        /\ L + S <= commands
        /\ K + S + B + 1 <= 2 * commands + 1
    BY <1>1 DEF MonitorInv, GoroutinesCounted
  <2>3. Serviced' = Serviced /\ Beginning' = Beginning
    BY <1>4 DEF Serviced, Beginning
  <2>4. Cardinality(Heart) \in Nat /\ 2 * MaxCommands + 1 <= Cardinality(Heart)
    BY MonitorAssumption, FS_CardinalityType
  <2>5. IsFiniteSet(Serviced)
    BY DEF MonitorInv, GoroutinesCounted
  <2> HIDE DEF S, B, L, K, L1, K1
  <2>6. K < Cardinality(Heart)
    BY <1>1, <2>1, <2>2, <2>4
  <2>7. /\ mstate' = "Standby"
        /\ UNCHANGED <<retries, lastErr, commands>>
        /\ ticker' \in BOOLEAN
        /\ sender' \in [Sender -> LoopType]
        /\ \A s \in Sender : sender[s].pc # "idle" => sender'[s].pc = sender[s].pc
        /\ heart' \in [Heart -> LoopType]
        /\ L1 \in Nat /\ K1 \in Nat
        /\ L1 <= L + (IF "Standby" = "Running" THEN 1 ELSE 0)
        /\ K1 <= K + (IF "Standby" = "Failed" THEN 0 ELSE 1)
        /\ WatchedWhileRunning'
        /\ HeartbeatsTick'
    BY <1>1, <1>4, <2>6, SetStateEffect DEF L, K, L1, K1
  <2>8. MonitorTypes'
    BY <1>1, <1>4, <2>7 DEF MonitorInv, MonitorTypes
  <2>9. L1 + S <= commands /\ K1 + S + B + 0 <= 2 * commands + 1
    <3>1. L1 <= L /\ K1 <= K + 1
      BY <2>1, <2>7
    <3>2. QED
      BY <1>1, <2>1, <2>2, <2>7, <3>1
  <2>10. GoroutinesCounted'
    BY <2>2, <2>3, <2>5, <2>7, <2>9 DEF GoroutinesCounted, S, B, L1, K1
  <2>11. MonitorInv'
    BY <2>7, <2>8, <2>10 DEF MonitorInv
  <2>12. QED
    BY <1>1, <1>4, <2>7, <2>11, ClientsKept
<1>5. QED
  BY <1>2, <1>3, <1>4 DEF Register, RegisterFails

\* A step of a heartbeat keeps the invariant.
LEMMA HeartStepKeeps ==
    ASSUME PodInv, NEW k \in Heart, HeartStep(k) \/ HeartStops(k) \/ HeartRefused(k)
    PROVE  PodInv'
<1> USE DEF PodInv
<1>1. sender \in [Sender -> LoopType] /\ heart \in [Heart -> LoopType]
  BY DEF MonitorInv, MonitorTypes
<1>2. ASSUME heart[k].pc # "idle", NEW pc \in {"idle", "loop", "select", "sending"},
             pc = "idle" => ~Beating(k), HeartGoes(k, pc)
      PROVE  PodInv'
  <2>1. MonitorInv'
    BY <1>2, HeartKeeps
  <2>2. UNCHANGED <<handler, engineVars>> /\ sender' = sender
    BY <1>2 DEF HeartGoes
  <2>3. QED
    BY <2>1, <2>2, ClientsKept
<1>3. CASE HeartLoop(k)
  <2>1. CASE HeartGoes(k, "select")
    BY <1>2, <1>3, <2>1 DEF HeartLoop, InHeart
  <2>2. CASE Exit /\ UNCHANGED engineVars
    <3>1. MonitorInv' /\ UNCHANGED <<handler, sender>>
      BY <2>2, ExitKeeps DEF Exit
    <3>2. QED
      BY <2>2, <3>1, ClientsKept
  <2>3. QED
    BY <1>3, <2>1, <2>2 DEF HeartLoop
<1>4. CASE HeartStops(k)
  <2>1. heart[k].pc = "select" /\ ~Beating(k) /\ HeartGoes(k, "idle")
    BY <1>4 DEF HeartStops, InHeart, Beating
  <2>2. QED
    BY <1>2, <2>1
<1>5. CASE HeartTicks(k)
  <2>1. heart[k].pc = "select" /\ \E pc \in {"loop", "sending"} : HeartGoes(k, pc)
    BY <1>5 DEF HeartTicks, InHeart
  <2>2. QED
    BY <1>2, <2>1
<1>6. CASE HeartSent(k)
  <2>1. heart[k].pc = "sending" /\ HeartGoes(k, "loop")
    BY <1>6 DEF HeartSent, InHeart
  <2>2. QED
    BY <1>2, <2>1
<1>7. CASE HeartRefused(k)
  <2> DEFINE new == [heart EXCEPT ![k] = [pc |-> "idle", closed |-> FALSE]]
  <2>1. new \in [Heart -> LoopType] /\ Live(new) \subseteq Live(heart)
    BY <1>1, Without
  <2>2. SetState("Failed", sender, new) /\ UNCHANGED <<handler, engineVars>>
    BY <1>7 DEF HeartRefused, HeartTo
  <2> HIDE DEF new
  <2>3. MonitorInv' /\ \A s \in Sender : sender[s].pc # "idle" => sender'[s].pc = sender[s].pc
    BY <1>1, <2>1, <2>2, FailureKeeps
  <2>4. QED
    BY <2>2, <2>3, ClientsKept
<1>8. QED
  BY <1>3, <1>4, <1>5, <1>6, <1>7 DEF HeartStep

\* A command that arrives keeps the invariant.
LEMMA CommandKeeps == ASSUME PodInv, PodCommand PROVE PodInv'
<1> USE DEF PodInv
<1>1. PICK op \in {"start", "stop", "restart", "rerank", "remove"},
           pc \in {"begin", "stop", "launch"} :
        /\ Request(op, pc)
        /\ pc = "begin" => op \in {"restart", "rerank"}
        /\ pc = "stop" => op \in {"stop", "restart", "remove"}
  BY DEF PodCommand, CommandStart, CommandStop, CommandRestart, HandleRestart, HandleRemove
<1>2. MonitorInv' /\ \E h \in Handler : /\ handler[h].pc = "idle"
                                        /\ handler'[h].pc = pc
                                        /\ handler'[h].op = op
                                        /\ \A g \in Handler \ {h} : handler'[g] = handler[g]
  BY <1>1, RequestKeeps
<1>3. PICK h \in Handler : /\ handler[h].pc = "idle"
                           /\ handler'[h].pc = pc
                           /\ handler'[h].op = op
                           /\ \A g \in Handler \ {h} : handler'[g] = handler[g]
  BY <1>2
<1>4. UNCHANGED <<sender, child, lastExit, mu, shell, trainer, call>>
  BY <1>1 DEF Request, engineVars
<1>5. EngineInv'
  BY <1>4 DEF EngineInv, EngineTypeOK, TakenScripts, ScriptOwned
<1>6. CallsMatch'
  <2>1. ASSUME NEW g \in Handler, ~HandlerWaits(g)' PROVE call'[g].pc = "idle"
    <3>1. ~HandlerWaits(g)
      BY <1>3, <2>1 DEF HandlerWaits
    <3>2. QED
      BY <1>4, <3>1 DEF CallsMatch
  <2>2. ASSUME NEW s \in Sender, ~SenderWaits(s)' PROVE call'[s].pc = "idle"
    BY <1>4, <2>2 DEF CallsMatch, SenderWaits
  <2>3. QED
    BY <2>1, <2>2 DEF CallsMatch
<1>7. OpsFit'
  <2> SUFFICES ASSUME NEW g \in Handler PROVE OpFits(handler'[g])
    BY DEF OpsFit, OpFits
  <2>1. CASE g = h
    BY <1>1, <1>3, <2>1 DEF OpFits
  <2>2. CASE g # h
    BY <1>3, <2>2 DEF OpsFit, OpFits
  <2>3. QED
    BY <2>1, <2>2
<1>8. QED
  BY <1>2, <1>5, <1>6, <1>7

\* What the engine and the operating system do keeps the invariant.
LEMMA EngineKeeps ==
    ASSUME PodInv, UNCHANGED monitorVars,
           \/ \E c \in Call : EngineStep(c)
           \/ \E p \in Script : SystemStep(p)
    PROVE  PodInv'
<1> USE DEF PodInv
<1>1. EngineInv' /\ \A d \in Call : call[d].pc = "idle" => call'[d].pc = "idle"
  BY EngineStepKeeps, SystemStepKeeps
<1>2. UNCHANGED <<mstate, retries, lastErr, ticker, handler, sender, heart, commands>>
  BY DEF monitorVars
<1>3. MonitorTypes' /\ GoroutinesCounted' /\ WatchedWhileRunning' /\ HeartbeatsTick'
  BY <1>2 DEF MonitorInv, MonitorTypes, GoroutinesCounted, Serviced, Beginning,
              WatchedWhileRunning, Watching, HeartbeatsTick, Beating
<1>4. CallsMatch' /\ OpsFit'
  BY <1>1, <1>2, MonitorAssumption DEF CallsMatch, HandlerWaits, SenderWaits, OpsFit, OpFits
<1>5. QED
  BY <1>1, <1>3, <1>4 DEF MonitorInv

-----------------------------------------------------------------------------
(* The theorems *)

LEMMA PodInitInv == PodInit => PodInv
<1> SUFFICES ASSUME PodInit PROVE PodInv
  OBVIOUS
<1> USE DEF PodInit, EngineInit, MonitorInit
<1>1. EngineInv
  <2>1. NoCall \in CallType /\ NoCall.pc = "idle"
    BY DEF NoCall, CallType
  <2>2. EngineTypeOK
    BY <2>1 DEF EngineTypeOK
  <2>3. QED
    BY <2>1, <2>2 DEF EngineInv, TakenScripts, ScriptOwned
<1>2. MonitorTypes
  BY DEF MonitorTypes, HandlerType, IdleHandler, LoopType, IdleLoop
<1>3. Serviced = {} /\ Beginning = {} /\ Live(sender) = {} /\ Live(heart) = {}
  BY DEF Serviced, Beginning, Live, IdleHandler
<1>4. GoroutinesCounted
  BY <1>3, FS_EmptySet, MonitorAssumption DEF GoroutinesCounted
<1>5. WatchedWhileRunning /\ HeartbeatsTick
  BY DEF WatchedWhileRunning, HeartbeatsTick
<1>6. CallsMatch
  BY MonitorAssumption DEF CallsMatch, NoCall
<1>7. OpsFit
  BY DEF OpsFit, OpFits, IdleHandler
<1>8. QED
  BY <1>1, <1>2, <1>4, <1>5, <1>6, <1>7 DEF PodInv, MonitorInv

\* Every step keeps the invariant, and so does none.
LEMMA PodNextKeeps == ASSUME PodInv, [PodNext]_podVars PROVE PodInv'
<1>1. CASE UNCHANGED podVars
  BY <1>1 DEF podVars, engineVars, monitorVars, PodInv, EngineInv, EngineTypeOK, TakenScripts,
              ScriptOwned, MonitorInv, MonitorTypes, GoroutinesCounted, Serviced, Beginning,
              WatchedWhileRunning, Watching, HeartbeatsTick, Beating, CallsMatch, HandlerWaits,
              SenderWaits, OpsFit, OpFits
<1>2. CASE PodStep
  BY <1>2, EngineKeeps, RegistrationKeeps, HandlerStepKeeps, SenderStepKeeps, HeartStepKeeps
     DEF PodStep
<1>3. CASE PodCommand
  BY <1>3, CommandKeeps
<1>4. QED
  BY <1>1, <1>2, <1>3 DEF PodNext

LEMMA PodInvariance == PodSpec => []PodInv
<1>1. PodInit => PodInv
  BY PodInitInv
<1>2. PodInv /\ [PodNext]_podVars => PodInv'
  BY PodNextKeeps
<1>3. QED
  BY <1>1, <1>2, PTL DEF PodSpec

\* Every variable of the monitor and of the engine keeps its type.
THEOREM PodTypeCorrect == PodSpec => []MonitorTypeOK
<1>1. PodInv => MonitorTypeOK
  BY DEF PodInv, EngineInv, MonitorInv, MonitorTypes, MonitorTypeOK
<1>2. QED
  BY <1>1, PodInvariance, PTL

\* However start_script, stop_script, restart_script and get_status interleave,
\* with each other and with scripts that end, no script that runs is forgotten.
THEOREM ScriptsStayOwned == PodSpec => []ScriptOwned
<1>1. PodInv => ScriptOwned
  BY DEF PodInv, EngineInv
<1>2. QED
  BY <1>1, PodInvariance, PTL

\* However commands and failures close stopChan and replace it, a node in Running
\* has a sendMetrics goroutine that will look at the status of its script.
THEOREM RunningIsWatched == PodSpec => []WatchedWhileRunning
<1>1. PodInv => WatchedWhileRunning
  BY DEF PodInv, MonitorInv
<1>2. QED
  BY <1>1, PodInvariance, PTL

\* However failures stop the heartbeat and commands start it again, a node that
\* has not failed has a goroutine that beats.
THEOREM LiveNodesBeat == PodSpec => []BeatsUnlessFailed
<1>1. PodInv => BeatsUnlessFailed
  BY DEF PodInv, MonitorInv, HeartbeatsTick, BeatsUnlessFailed
<1>2. QED
  BY <1>1, PodInvariance, PTL

=============================================================================
