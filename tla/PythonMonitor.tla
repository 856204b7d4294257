--------------------------- MODULE PythonMonitor ---------------------------
(***************************************************************************)
(* The monitor written in Python: the thread that samples the host, the    *)
(* thread that sends the logs of collective operations to c4d-server, the  *)
(* Flask requests, and the simulator that logs operations.                 *)
(*                                                                         *)
(* A method that holds ccl_lock is one step.  append_metric holds no lock. *)
(* c4d-server and the network are the environment.                         *)
(***************************************************************************)
EXTENDS Integers, Sequences, FiniteSets, SequencesExt

CONSTANTS
    Client,    \* threads of the simulator
    Remover,   \* concurrent requests to /remove
    Recorder,  \* concurrent requests to /log_training_time
    MaxOps,    \* bound: operations of a client
    MaxTimes   \* bound: requests to /log_training_time

ASSUME PythonMonitorAssumption == {MaxOps, MaxTimes} \subseteq Nat

VARIABLES
    main,        \* the main thread: the module's code, app.run, shutdown_handler
    standby,     \* is_standby
    started,     \* start has made the threads
    stopEvent,   \* stop_event
    updater,     \* the thread of update_metrics
    sender,      \* the thread of send_metrics_to_server
    copy,        \* its ccl_logs
    logs,        \* Monitor.ccl_logs
    client,      \* client[c]: the next event c sends
    remover,     \* remover[r]: a request to /remove
    recorder,    \* recorder[r]: a request to /log_training_time
    list,        \* which list is metrics["training_time"], 0 for none
    times,       \* its values
    accepted,    \* history: the logs appended
    delivered,   \* history: the logs c4d-server has received
    late,        \* history: the logs appended while others were being sent
    stopped,     \* history: a call of stop has returned
    settled,     \* history: times, when no request was recording
    recorded     \* bound: requests to /log_training_time so far

logVars  == <<logs, accepted, late>>
timeVars == <<recorder, list, times, settled, recorded>>
sendVars == <<sender, copy, delivered>>
stopVars == <<main, standby, started, stopEvent, remover, stopped>>
vars == <<logVars, timeVars, sendVars, stopVars, updater, client>>

-----------------------------------------------------------------------------

Event == [client : Client, op : 1..MaxOps, finished : BOOLEAN]

Done == [op |-> MaxOps + 1, finished |-> FALSE]
IdleRecorder == [pc |-> "idle", value |-> 0, list |-> 0]

Init ==
    /\ main = "import"
    /\ standby \in BOOLEAN
    /\ started = FALSE
    /\ stopEvent = FALSE
    /\ updater = "none"
    /\ sender = "none"
    /\ copy = <<>>
    /\ logs = <<>>
    /\ client = [c \in Client |-> [op |-> 1, finished |-> FALSE]]
    /\ remover = [r \in Remover |-> "idle"]
    /\ recorder = [r \in Recorder |-> IdleRecorder]
    /\ list = 0
    /\ times = {}
    /\ accepted = {}
    /\ delivered = {}
    /\ late = {}
    /\ stopped = FALSE
    /\ settled = {}
    /\ recorded = 0

Up == main # "exited"

\* app.run accepts requests in the main thread.
Serving == main = "serving"

-----------------------------------------------------------------------------
(* Import: register_with_server, whose errors are swallowed, and start.      *)

Import ==
    /\ main = "import"
    /\ main' = "serving"
    /\ IF standby
       THEN UNCHANGED <<started, updater, sender>>
       ELSE /\ started' = TRUE
            /\ updater' = "running"
            /\ sender' = "probing"
    /\ UNCHANGED <<standby, stopEvent, remover, stopped, copy, delivered, logVars, timeVars, client>>

\* activate_node: Monitor has no attribute register, so start is not called.
Activate ==
    /\ Serving
    /\ standby
    /\ standby' = FALSE
    /\ UNCHANGED <<main, started, stopEvent, remover, stopped, sendVars, logVars, timeVars, updater, client>>

-----------------------------------------------------------------------------
(* update_metrics *)

UpdaterStops ==
    /\ Up
    /\ updater = "running"
    /\ stopEvent
    /\ updater' = "ended"
    /\ UNCHANGED <<stopVars, sendVars, logVars, timeVars, client>>

-----------------------------------------------------------------------------
(* send_metrics_to_server *)

InSender(pc) == Up /\ sender = pc

\* The first request is made outside of the try: its failure ends the thread.
Probe ==
    /\ InSender("probing")
    /\ sender' \in {"loop", "ended"}
    /\ UNCHANGED <<copy, delivered, stopVars, logVars, timeVars, updater, client>>

\* Mutant: while True.
Continues_Forever == TRUE

\* while not self.stop_event.is_set()
Continues == ~stopEvent

SenderLoop ==
    /\ InSender("loop")
    /\ sender' = IF Continues THEN "copy" ELSE "ended"
    /\ UNCHANGED <<copy, delivered, stopVars, logVars, timeVars, updater, client>>

\* get_ccl_logs
CopyLogs ==
    /\ InSender("copy")
    /\ IF logs = <<>>
       THEN sender' = "loop" /\ UNCHANGED copy
       ELSE sender' = "post" /\ copy' = logs
    /\ UNCHANGED <<delivered, stopVars, logVars, timeVars, updater, client>>

\* Mutant: the logs are cleared whatever the answer is.
AfterPost_Clear(answer) == "clear"

\* Logs that were not accepted are kept for the next round.
AfterPost(answer) == IF answer = "200" THEN "clear" ELSE "loop"

Answered(answer) ==
    /\ InSender("post")
    /\ sender' = AfterPost(answer)
    /\ copy' = <<>>
    /\ UNCHANGED <<stopVars, logVars, timeVars, updater, client>>

PostAccepted == Answered("200") /\ delivered' = delivered \cup ToSet(copy)

\* The request fails, before or after the server has received it.
PostRefused == Answered("refused") /\ UNCHANGED delivered
PostLost    == Answered("lost") /\ delivered' = delivered \cup ToSet(copy)

\* clear_ccl_logs empties the list, whatever has been appended since the copy.
ClearLogs ==
    /\ InSender("clear")
    /\ sender' = "loop"
    /\ logs' = <<>>
    /\ UNCHANGED <<copy, delivered, accepted, late, stopVars, timeVars, updater, client>>

\* Logs are on their way to the server.
Sending == sender \in {"post", "clear"}

-----------------------------------------------------------------------------
(* The simulator: a start event, then the completion of the operation.  What *)
(* goes wrong with a request is only printed.                                *)

\* Mutant: the event that is sent next is finished from the start.
AfterEvent_NoReset(e) ==
    IF ~e.finished THEN [e EXCEPT !.finished = TRUE] ELSE [e EXCEPT !.op = @ + 1]

AfterEvent(e) ==
    IF ~e.finished THEN [e EXCEPT !.finished = TRUE]
    ELSE [op |-> e.op + 1, finished |-> FALSE]

\* log_ccl appends the event.
AppendLog(event) ==
    /\ logs' = Append(logs, event)
    /\ accepted' = accepted \cup {event}
    /\ late' = IF Sending THEN late \cup {event} ELSE late

SendEvent(c) ==
    /\ client[c] # Done
    /\ client' = [client EXCEPT ![c] = AfterEvent(@)]
    /\ \/ /\ Serving
          /\ AppendLog([client |-> c, op |-> client[c].op, finished |-> client[c].finished])
       \/ UNCHANGED logVars
    /\ UNCHANGED <<stopVars, sendVars, timeVars, updater>>

-----------------------------------------------------------------------------
(* stop, called by remove_node and by shutdown_handler.                      *)

RemoverRest == <<main, standby, started, sendVars, logVars, timeVars, updater, client>>

RemoveNode(r) ==
    /\ Serving
    /\ remover[r] = "idle"
    /\ stopEvent' = TRUE
    \* Without threads join raises, after the event has been set.
    /\ remover' = [remover EXCEPT ![r] = IF started THEN "joining" ELSE "failed"]
    /\ UNCHANGED <<stopped, RemoverRest>>

\* Mutant: only the thread of update_metrics is waited for.
Joined_Updater == updater = "ended"

\* Both threads have been joined.
Joined == updater = "ended" /\ sender = "ended"

StopReturns(r) ==
    /\ Up
    /\ remover[r] = "joining"
    /\ Joined
    /\ remover' = [remover EXCEPT ![r] = "answered"]
    /\ stopped' = TRUE
    /\ UNCHANGED <<stopEvent, RemoverRest>>

\* SIGTERM: the main thread accepts no requests while it waits.
Shutdown ==
    /\ Serving
    /\ stopEvent' = TRUE
    /\ main' = IF started THEN "joining" ELSE "exited"
    /\ UNCHANGED <<standby, started, remover, stopped, sendVars, logVars, timeVars, updater, client>>

ShutdownEnds ==
    /\ main = "joining"
    /\ Joined
    /\ main' = "exited"
    /\ stopped' = TRUE
    /\ UNCHANGED <<standby, started, stopEvent, remover, sendVars, logVars, timeVars, updater, client>>

-----------------------------------------------------------------------------
(* log_training_time *)

RecordRest == <<stopVars, sendVars, logVars, updater, client>>

\* Recording is done, or goes on.
Settle ==
    settled' = IF \A r \in Recorder : recorder'[r].pc = "idle" THEN times' ELSE settled

RecorderGoes(r, pc) == recorder' = [recorder EXCEPT ![r].pc = pc]

InRecorder(r, pc) == Up /\ recorder[r].pc = pc

LogTrainingTime(r) ==
    /\ Serving
    /\ recorder[r].pc = "idle"
    /\ recorded < MaxTimes
    /\ recorded' = recorded + 1
    /\ recorder' = [recorder EXCEPT ![r] = [pc |-> "check", value |-> recorded + 1, list |-> 0]]
    /\ UNCHANGED <<list, times, settled, RecordRest>>

\* Mutant: the list is made anew for every value.
Missing_Always == TRUE

\* key not in self.metrics
Missing == list = 0

\* append_metric
CheckMetric(r) ==
    /\ InRecorder(r, "check")
    /\ RecorderGoes(r, IF Missing THEN "create" ELSE "fetch")
    /\ UNCHANGED <<list, times, settled, recorded, RecordRest>>

\* Another request may have made the list, and appended to it, since the check.
CreateMetric(r) ==
    /\ InRecorder(r, "create")
    /\ list' = list + 1
    /\ times' = {}
    /\ RecorderGoes(r, "fetch")
    /\ UNCHANGED <<settled, recorded, RecordRest>>

FetchMetric(r) ==
    /\ InRecorder(r, "fetch")
    /\ recorder' = [recorder EXCEPT ![r].pc = "append", ![r].list = list]
    /\ UNCHANGED <<list, times, settled, recorded, RecordRest>>

\* The value goes to the list that was fetched, which may have been replaced.
AppendMetric(r) ==
    /\ InRecorder(r, "append")
    /\ times' = IF recorder[r].list = list THEN times \cup {recorder[r].value} ELSE times
    /\ recorder' = [recorder EXCEPT ![r] = IdleRecorder]
    /\ Settle
    /\ UNCHANGED <<list, recorded, RecordRest>>

-----------------------------------------------------------------------------

SenderStep == Probe \/ SenderLoop \/ CopyLogs \/ PostRefused \/ PostLost \/ ClearLogs

Request ==
    \/ Activate
    \/ \E r \in Remover : RemoveNode(r)
    \/ \E r \in Recorder : LogTrainingTime(r)
    \/ \E c \in Client : SendEvent(c)
    \/ Shutdown

Recording(r) == CheckMetric(r) \/ CreateMetric(r) \/ FetchMetric(r) \/ AppendMetric(r)

Next ==
    \/ Import
    \/ UpdaterStops
    \/ SenderStep \/ PostAccepted
    \/ Request
    \/ \E r \in Remover : StopReturns(r)
    \/ ShutdownEnds
    \/ \E r \in Recorder : Recording(r)

Spec == Init /\ [][Next]_vars

\* Threads run, and a request that is sent again and again is accepted at last.
\* Requests need not come, nor c4d-server answer the first of them.
FairSpec ==
    /\ Spec
    /\ WF_vars(UpdaterStops)
    /\ WF_vars(SenderStep \/ PostAccepted)
    /\ SF_vars(PostAccepted)
    /\ \A r \in Remover : WF_vars(StopReturns(r))

-----------------------------------------------------------------------------
(* Safety *)

\* Every variable has its type.
PythonMonitorTypeOK ==
    /\ main \in {"import", "serving", "joining", "exited"}
    /\ {standby, started, stopEvent, stopped} \subseteq BOOLEAN
    /\ updater \in {"none", "running", "ended"}
    /\ sender \in {"none", "probing", "loop", "copy", "post", "clear", "ended"}
    /\ copy \in Seq(Event)
    /\ logs \in Seq(Event)
    /\ client \in [Client -> [op : 1..(MaxOps + 1), finished : BOOLEAN]]
    /\ remover \in [Remover -> {"idle", "joining", "answered", "failed"}]
    /\ recorder \in [Recorder -> [pc    : {"idle", "check", "create", "fetch", "append"},
                                  value : 0..MaxTimes,
                                  list  : Nat]]
    /\ list \in Nat
    /\ recorded \in 0..MaxTimes
    /\ {times, settled} \subseteq SUBSET (1..MaxTimes)
    /\ {accepted, delivered, late} \subseteq SUBSET Event

\* A log that was accepted is with the server, or is kept to be sent, unless it
\* came while others were being sent: the list is cleared of it unsent.
\* (A POST that fails, before or after the server has the logs, loses none.)
OnlyLateLogsLost == accepted \subseteq delivered \cup ToSet(logs) \cup late

\* Once stop has returned, nothing is sent to the server and nothing cleared, by
\* whatever thread.  (The event may be set at any step of the sender, and stop be
\* called several times at once.)
SilentOnceStopped == [][stopped => delivered' = delivered /\ IsPrefix(logs, logs')]_vars

\* Training times that were recorded when no request was recording are kept: only
\* requests that create the list at the same time lose values, their own.
SettledTimesKept == settled \subseteq times

-----------------------------------------------------------------------------
(* Liveness *)

\* A request to /remove that waits for the threads is answered, unless the
\* process exits, whatever the server does: every request has a timeout.
RemoveAnswered ==
    \A r \in Remover : remover[r] = "joining" ~> (remover[r] = "answered" \/ ~Up)

\* A log that is kept is sent, as long as the sender lives and is not told to stop.
LogsSent ==
    \A e \in Event :
        (e \in ToSet(logs) /\ sender \in {"probing", "loop", "copy", "post"}) ~>
            (e \in delivered \/ e \in late \/ sender = "ended" \/ ~Up)

=============================================================================
