------------------------ MODULE PythonMonitorProofs ------------------------
(***************************************************************************)
(* Proofs about PythonMonitor: for any number of clients, requests and     *)
(* events, only late logs are lost, recorded times are kept, and a monitor *)
(* that has stopped is silent.                                             *)
(***************************************************************************)
EXTENDS PythonMonitor, SequenceTheorems, TLAPS

-----------------------------------------------------------------------------
(* Sequences of logs *)

\* A list begins with itself, and with what it was before an append.
LEMMA PrefixFacts ==
    ASSUME NEW S, NEW s \in Seq(S)
    PROVE  IsPrefix(s, s) /\ \A e \in S : IsPrefix(s, Append(s, e))
<1>1. Len(s) \in Nat /\ \A i \in 1..Len(s) : s[i] \in S
  BY LenProperties
<1>2. IsPrefix(s, s)
  BY <1>1 DEF IsPrefix
<1>3. ASSUME NEW e \in S PROVE IsPrefix(s, Append(s, e))
  <2> DEFINE t == Append(s, e)
  <2>1. /\ t \in Seq(S)
        /\ Len(t) = Len(s) + 1
        /\ \A i \in 1..Len(s) : t[i] = s[i]
    BY <1>1, AppendProperties
  <2> HIDE DEF t
  <2>2. /\ SubSeq(s, 1, Len(s)) \in Seq(S)
        /\ Len(SubSeq(s, 1, Len(s))) = Len(s)
        /\ \A i \in 1..Len(s) : SubSeq(s, 1, Len(s))[i] = s[i]
    BY <1>1, SubSeqProperties
  <2>3. /\ SubSeq(t, 1, Len(s)) \in Seq(S)
        /\ Len(SubSeq(t, 1, Len(s))) = Len(s)
        /\ \A i \in 1..Len(s) : SubSeq(t, 1, Len(s))[i] = t[i]
    <3>1. \A i \in 1..Len(s) : t[i] \in S
      BY <1>1, <2>1
    <3>2. QED
      BY <1>1, <3>1, SubSeqProperties
  <2>4. SubSeq(s, 1, Len(s)) = SubSeq(t, 1, Len(s))
    BY <2>1, <2>2, <2>3, SeqEqual
  <2>5. QED
    BY <1>1, <2>1, <2>4 DEF IsPrefix, t
<1>4. QED
  BY <1>2, <1>3

\* The elements of a list, of the empty one, and of one with another appended.
LEMMA ElementFacts ==
    ASSUME NEW S, NEW s \in Seq(S), NEW e \in S
    PROVE  /\ ToSet(<<>>) = {}
           /\ ToSet(Append(s, e)) = ToSet(s) \cup {e}
<1>1. DOMAIN s = 1..Len(s) /\ Len(s) \in Nat
  BY LenProperties
<1>2. /\ Append(s, e) \in Seq(S)
      /\ Len(Append(s, e)) = Len(s) + 1
      /\ \A i \in 1..Len(s) : Append(s, e)[i] = s[i]
      /\ Append(s, e)[Len(s) + 1] = e
  BY <1>1, AppendProperties
<1>3. DOMAIN Append(s, e) = 1..(Len(s) + 1)
  BY <1>2, LenProperties
<1>4. ToSet(Append(s, e)) \subseteq ToSet(s) \cup {e}
  BY <1>1, <1>2, <1>3 DEF ToSet
<1>5. ToSet(s) \cup {e} \subseteq ToSet(Append(s, e))
  <2>1. \A i \in 1..Len(s) : i \in 1..(Len(s) + 1)
    BY <1>1
  <2>2. Len(s) + 1 \in 1..(Len(s) + 1)
    BY <1>1
  <2>3. QED
    BY <1>1, <1>2, <1>3, <2>1, <2>2 DEF ToSet
<1>6. ToSet(<<>>) = {}
  BY DEF ToSet
<1>7. QED
  BY <1>4, <1>5, <1>6

-----------------------------------------------------------------------------
(* Types *)

\* A client that has sent all its events is done, and a request that is recording
\* has a value.
TypeInv ==
    /\ PythonMonitorTypeOK
    /\ \A c \in Client : client[c].op = MaxOps + 1 => ~client[c].finished
    /\ \A r \in Recorder : recorder[r].pc # "idle" => recorder[r].value # 0

\* Steps of the threads and of requests to stop.
StopStep ==
    \/ Import \/ Activate \/ UpdaterStops
    \/ Probe \/ SenderLoop \/ CopyLogs \/ PostRefused \/ PostLost \/ PostAccepted \/ ClearLogs
    \/ \E r \in Remover : RemoveNode(r) \/ StopReturns(r)
    \/ Shutdown \/ ShutdownEnds

\* Steps of requests that record a time.
TimeStep == \E r \in Recorder : LogTrainingTime(r) \/ Recording(r)

\* A step is one of a client, one that records a time, or another one.
LEMMA NextCases == Next => StopStep \/ TimeStep \/ \E c \in Client : SendEvent(c)
BY DEF Next, StopStep, TimeStep, SenderStep, Request

\* The initial states have their types.
LEMMA InitType == Init => TypeInv
<1> SUFFICES ASSUME Init PROVE TypeInv
  OBVIOUS
<1>1. MaxOps \in Nat /\ MaxTimes \in Nat
  BY PythonMonitorAssumption
<1>2. client \in [Client -> [op : 1..(MaxOps + 1), finished : BOOLEAN]]
  BY <1>1 DEF Init
<1>3. <<>> \in Seq(Event)
  OBVIOUS
<1>4. recorder \in [Recorder -> [pc    : {"idle", "check", "create", "fetch", "append"},
                                 value : 0..MaxTimes,
                                 list  : Nat]]
  BY <1>1 DEF Init, IdleRecorder
<1>5. remover \in [Remover -> {"idle", "joining", "answered", "failed"}]
  BY DEF Init
<1>6. recorded \in 0..MaxTimes /\ {times, settled} \subseteq SUBSET (1..MaxTimes)
  BY <1>1 DEF Init
<1>7. {accepted, delivered, late} \subseteq SUBSET Event
  BY DEF Init
<1>8. PythonMonitorTypeOK
  BY <1>2, <1>3, <1>4, <1>5, <1>6, <1>7 DEF Init, PythonMonitorTypeOK
<1>9. \A c \in Client : client[c].op = MaxOps + 1 => ~client[c].finished
  BY DEF Init
<1>10. \A r \in Recorder : recorder[r].pc # "idle" => recorder[r].value # 0
  BY DEF Init, IdleRecorder
<1>11. QED
  BY <1>8, <1>9, <1>10 DEF TypeInv

\* The steps that stop, send and clear keep the types.
LEMMA StopStepType == ASSUME TypeInv, StopStep PROVE TypeInv'
<1> USE DEF TypeInv
<1>1. UNCHANGED <<client, accepted, late, recorder, list, times, settled, recorded>>
  BY DEF StopStep, Import, Activate, UpdaterStops, Probe, SenderLoop, CopyLogs, PostRefused,
         PostLost, PostAccepted, Answered, ClearLogs, RemoveNode, StopReturns, RemoverRest,
         Shutdown, ShutdownEnds, logVars, timeVars
<1>2. /\ main' \in {"import", "serving", "joining", "exited"}
      /\ standby' \in BOOLEAN
      /\ started' \in BOOLEAN
      /\ stopEvent' \in BOOLEAN
      /\ stopped' \in BOOLEAN
      /\ updater' \in {"none", "running", "ended"}
  BY DEF PythonMonitorTypeOK, StopStep, Import, Activate, UpdaterStops, Probe, SenderLoop,
         CopyLogs, PostRefused, PostLost, PostAccepted, Answered, ClearLogs, RemoveNode,
         StopReturns, RemoverRest, Shutdown, ShutdownEnds, stopVars
<1>3. sender' \in {"none", "probing", "loop", "copy", "post", "clear", "ended"}
  BY DEF PythonMonitorTypeOK, StopStep, Import, Activate, UpdaterStops, Probe, SenderLoop,
         CopyLogs, PostRefused, PostLost, PostAccepted, Answered, AfterPost, ClearLogs,
         RemoveNode, StopReturns, RemoverRest, Shutdown, ShutdownEnds, sendVars
<1>4. remover' \in [Remover -> {"idle", "joining", "answered", "failed"}]
  BY DEF PythonMonitorTypeOK, StopStep, Import, Activate, UpdaterStops, Probe, SenderLoop,
         CopyLogs, PostRefused, PostLost, PostAccepted, Answered, ClearLogs, RemoveNode,
         StopReturns, RemoverRest, Shutdown, ShutdownEnds, stopVars
<1>5. copy' \in Seq(Event) /\ logs' \in Seq(Event)
  <2>1. <<>> \in Seq(Event)
    OBVIOUS
  <2>2. copy' \in {copy, logs, <<>>} /\ logs' \in {logs, <<>>}
    BY DEF StopStep, Import, Activate, UpdaterStops, Probe, SenderLoop, CopyLogs, PostRefused,
           PostLost, PostAccepted, Answered, ClearLogs, RemoveNode, StopReturns, RemoverRest,
           Shutdown, ShutdownEnds, logVars, sendVars
  <2>3. QED
    BY <2>1, <2>2 DEF PythonMonitorTypeOK
<1>6. delivered' \in SUBSET Event
  <2>1. ToSet(copy) \subseteq Event
    <3>1. DOMAIN copy = 1..Len(copy) /\ \A i \in 1..Len(copy) : copy[i] \in Event
      BY LenProperties DEF PythonMonitorTypeOK
    <3>2. QED
      BY <3>1 DEF ToSet
  <2>2. delivered' \in {delivered, delivered \cup ToSet(copy)}
    BY DEF StopStep, Import, Activate, UpdaterStops, Probe, SenderLoop, CopyLogs, PostRefused,
           PostLost, PostAccepted, Answered, ClearLogs, RemoveNode, StopReturns, RemoverRest,
           Shutdown, ShutdownEnds, sendVars
  <2>3. QED
    BY <2>1, <2>2 DEF PythonMonitorTypeOK
<1>7. PythonMonitorTypeOK'
  BY <1>1, <1>2, <1>3, <1>4, <1>5, <1>6 DEF PythonMonitorTypeOK
<1>8. QED
  BY <1>1, <1>7

\* The event that a client sends next.
NextEvent(c) == [client |-> c, op |-> client[c].op, finished |-> client[c].finished]

\* A client that sends an event has one left.
LEMMA EventSent ==
    ASSUME TypeInv, NEW c \in Client, SendEvent(c)
    PROVE  /\ client[c] \in [op : 1..(MaxOps + 1), finished : BOOLEAN]
           /\ client[c].op \in 1..MaxOps
           /\ client[c].finished \in BOOLEAN
           /\ NextEvent(c) \in Event
<1> USE DEF TypeInv
<1>1. MaxOps \in Nat
  BY PythonMonitorAssumption
<1>2. client[c] \in [op : 1..(MaxOps + 1), finished : BOOLEAN] /\ client[c] # Done
  BY DEF PythonMonitorTypeOK, SendEvent
<1>3. client[c].op \in 1..(MaxOps + 1) /\ client[c].finished \in BOOLEAN
  BY <1>2
<1>4. client[c].op \in 1..MaxOps
  <2>1. CASE client[c].op = MaxOps + 1
    <3>1. ~client[c].finished
      BY <2>1
    <3>2. client[c] = [op |-> MaxOps + 1, finished |-> FALSE]
      BY <1>2, <1>3, <2>1, <3>1
    <3>3. QED
      BY <1>2, <3>2 DEF Done
  <2>2. CASE client[c].op # MaxOps + 1
    BY <1>1, <1>3, <2>2
  <2>3. QED
    BY <2>1, <2>2
<1>5. NextEvent(c) \in Event
  BY <1>3, <1>4 DEF Event, NextEvent
<1>6. QED
  BY <1>2, <1>3, <1>4, <1>5

\* An event that is sent keeps the types.
LEMMA SendEventType == ASSUME TypeInv, NEW c \in Client, SendEvent(c) PROVE TypeInv'
<1> USE DEF TypeInv
<1> DEFINE Clients == [op : 1..(MaxOps + 1), finished : BOOLEAN]
           event   == [client |-> c, op |-> client[c].op, finished |-> client[c].finished]
<1>1. MaxOps \in Nat
  BY PythonMonitorAssumption
<1>2. client[c] \in Clients
  BY EventSent
<1>3. client[c].op \in 1..(MaxOps + 1) /\ client[c].finished \in BOOLEAN
  BY <1>2
<1>4. client[c].op \in 1..MaxOps
  BY EventSent
<1>5. event \in Event
  BY EventSent DEF NextEvent
<1>6. /\ AfterEvent(client[c]) \in Clients
      /\ AfterEvent(client[c]).op = MaxOps + 1 => ~AfterEvent(client[c]).finished
  <2>1. CASE client[c].finished
    <3>1. AfterEvent(client[c]) = [op |-> client[c].op + 1, finished |-> FALSE]
      BY <2>1 DEF AfterEvent
    <3>2. client[c].op + 1 \in 1..(MaxOps + 1)
      BY <1>1, <1>4
    <3>3. QED
      BY <3>1, <3>2
  <2>2. CASE ~client[c].finished
    <3>1. AfterEvent(client[c]) = [client[c] EXCEPT !.finished = TRUE]
      BY <2>2 DEF AfterEvent
    <3>2. AfterEvent(client[c]) \in Clients /\ AfterEvent(client[c]).op = client[c].op
      BY <1>2, <3>1
    <3>3. client[c].op # MaxOps + 1
      BY <1>1, <1>4
    <3>4. QED
      BY <3>2, <3>3
  <2>3. QED
    BY <1>3, <2>1, <2>2
<1>7. client' = [client EXCEPT ![c] = AfterEvent(client[c])]
  BY DEF SendEvent
<1>8. /\ client' \in [Client -> Clients]
      /\ \A d \in Client : client'[d] = IF d = c THEN AfterEvent(client[c]) ELSE client[d]
  BY <1>6, <1>7 DEF PythonMonitorTypeOK
<1>9. /\ logs' \in Seq(Event)
      /\ accepted' \in SUBSET Event
      /\ late' \in SUBSET Event
  <2>1. CASE AppendLog(event)
    <3>1. logs \in Seq(Event) /\ accepted \in SUBSET Event /\ late \in SUBSET Event
      BY DEF PythonMonitorTypeOK
    <3>2. Append(logs, event) \in Seq(Event)
      BY <1>5, <3>1, AppendProperties
    <3>3. QED
      BY <1>5, <2>1, <3>1, <3>2 DEF AppendLog
  <2>2. CASE UNCHANGED logVars
    BY <2>2 DEF logVars, PythonMonitorTypeOK
  <2>3. QED
    BY <2>1, <2>2 DEF SendEvent
<1>10. UNCHANGED <<stopVars, sendVars, timeVars, updater>>
  BY DEF SendEvent
<1>11. PythonMonitorTypeOK'
  BY <1>8, <1>9, <1>10 DEF PythonMonitorTypeOK, stopVars, sendVars, timeVars
<1>12. \A d \in Client : client'[d].op = MaxOps + 1 => ~client'[d].finished
  BY <1>6, <1>8
<1>13. \A r \in Recorder : recorder'[r].pc # "idle" => recorder'[r].value # 0
  BY <1>10 DEF timeVars
<1>14. QED
  BY <1>11, <1>12, <1>13

\* Recording a time keeps the types.
LEMMA TimeStepType == ASSUME TypeInv, TimeStep PROVE TypeInv'
<1> USE DEF TypeInv
<1> DEFINE Recorders == [pc    : {"idle", "check", "create", "fetch", "append"},
                         value : 0..MaxTimes,
                         list  : Nat]
           Good(q) == q \in Recorders /\ (q.pc # "idle" => q.value # 0)
<1>1. PICK r \in Recorder : LogTrainingTime(r) \/ Recording(r)
  BY DEF TimeStep
<1>2. UNCHANGED <<stopVars, logVars, sendVars, updater, client>>
  BY <1>1 DEF LogTrainingTime, Recording, CheckMetric, CreateMetric, FetchMetric, AppendMetric,
              RecordRest
<1>3. MaxTimes \in Nat /\ recorded \in 0..MaxTimes /\ list \in Nat
  BY PythonMonitorAssumption DEF PythonMonitorTypeOK
<1>4. Good(recorder[r])
  BY DEF PythonMonitorTypeOK
<1>5. /\ recorded' \in 0..MaxTimes
      /\ \E q : Good(q) /\ recorder' = [recorder EXCEPT ![r] = q]
  <2>1. CASE LogTrainingTime(r)
    <3> DEFINE q == [pc |-> "check", value |-> recorded + 1, list |-> 0]
    <3>1. recorded' = recorded + 1 /\ recorded < MaxTimes
      BY <2>1 DEF LogTrainingTime
    <3>2. recorder' = [recorder EXCEPT ![r] = q]
      BY <2>1 DEF LogTrainingTime
    <3>3. recorded + 1 \in 1..MaxTimes
      BY <1>3, <3>1
    <3>4. Good(q)
      BY <3>3
    <3>5. QED
      BY <3>1, <3>2, <3>3, <3>4
  <2>2. CASE CheckMetric(r) \/ CreateMetric(r)
    <3>1. PICK pc \in {"create", "fetch"} : recorder' = [recorder EXCEPT ![r].pc = pc]
      BY <2>2 DEF CheckMetric, CreateMetric, RecorderGoes
    <3> DEFINE q == [recorder[r] EXCEPT !.pc = pc]
    <3>2. recorder' = [recorder EXCEPT ![r] = q]
      BY <3>1
    <3>3. recorder[r].pc # "idle" /\ recorded' = recorded
      BY <2>2 DEF CheckMetric, CreateMetric, InRecorder
    <3>4. Good(q)
      BY <1>4, <3>3
    <3>5. QED
      BY <1>3, <3>2, <3>3, <3>4
  <2>3. CASE FetchMetric(r)
    <3> DEFINE q == [recorder[r] EXCEPT !.pc = "append", !.list = list]
    <3>1. recorder' = [recorder EXCEPT ![r] = q]
      BY <2>3 DEF FetchMetric
    <3>2. recorder[r].pc # "idle" /\ recorded' = recorded
      BY <2>3 DEF FetchMetric, InRecorder
    <3>3. Good(q)
      BY <1>3, <1>4, <3>2
    <3>4. QED
      BY <1>3, <3>1, <3>2, <3>3
  <2>4. CASE AppendMetric(r)
    <3>1. recorder' = [recorder EXCEPT ![r] = IdleRecorder] /\ recorded' = recorded
      BY <2>4 DEF AppendMetric
    <3>2. Good(IdleRecorder)
      BY <1>3 DEF IdleRecorder
    <3>3. QED
      BY <1>3, <3>1, <3>2
  <2>5. QED
    BY <1>1, <2>1, <2>2, <2>3, <2>4 DEF Recording
<1>6. /\ recorder' \in [Recorder -> Recorders]
      /\ \A s \in Recorder : recorder'[s].pc # "idle" => recorder'[s].value # 0
  <2>1. PICK q : Good(q) /\ recorder' = [recorder EXCEPT ![r] = q]
    BY <1>5
  <2>2. recorder \in [Recorder -> Recorders]
    BY DEF PythonMonitorTypeOK
  <2>3. \A s \in Recorder : recorder'[s] = IF s = r THEN q ELSE recorder[s]
    BY <2>1, <2>2
  <2>4. QED
    BY <2>1, <2>2, <2>3
<1>7. list' \in Nat
  <2>1. list' = list \/ list' = list + 1
    BY <1>1 DEF LogTrainingTime, Recording, CheckMetric, CreateMetric, FetchMetric, AppendMetric
  <2>2. QED
    BY <1>3, <2>1
<1>8. times' \in SUBSET (1..MaxTimes)
  <2>1. times \in SUBSET (1..MaxTimes)
    BY DEF PythonMonitorTypeOK
  <2>2. times' \in {times, {}} \/ (AppendMetric(r) /\ times' = times \cup {recorder[r].value})
    BY <1>1 DEF LogTrainingTime, Recording, CheckMetric, CreateMetric, FetchMetric, AppendMetric
  <2>3. CASE AppendMetric(r) /\ times' = times \cup {recorder[r].value}
    <3>1. recorder[r].pc # "idle"
      BY <2>3 DEF AppendMetric, InRecorder
    <3>2. recorder[r].value \in 1..MaxTimes
      BY <1>3, <1>4, <3>1
    <3>3. QED
      BY <2>1, <2>3, <3>2
  <2>4. QED
    BY <2>1, <2>2, <2>3
<1>9. settled' \in SUBSET (1..MaxTimes)
  <2>1. settled' \in {settled, times'}
    BY <1>1 DEF LogTrainingTime, Recording, CheckMetric, CreateMetric, FetchMetric,
                AppendMetric, Settle
  <2>2. QED
    BY <1>8, <2>1 DEF PythonMonitorTypeOK
<1>10. PythonMonitorTypeOK'
  BY <1>2, <1>5, <1>6, <1>7, <1>8, <1>9
     DEF PythonMonitorTypeOK, stopVars, logVars, sendVars
<1>11. \A c \in Client : client'[c].op = MaxOps + 1 => ~client'[c].finished
  BY <1>2
<1>12. QED
  BY <1>6, <1>10, <1>11

\* Every step keeps the types, and so does none.
LEMMA NextType == ASSUME TypeInv, [Next]_vars PROVE TypeInv'
<1>1. CASE Next
  BY <1>1, NextCases, StopStepType, TimeStepType, SendEventType
<1>2. CASE UNCHANGED vars
  BY <1>2 DEF TypeInv, PythonMonitorTypeOK, vars, logVars, timeVars, sendVars, stopVars
<1>3. QED
  BY <1>1, <1>2

-----------------------------------------------------------------------------
(* Training times *)

\* A list that is about to be made anew holds nothing that has settled.
TimesInv ==
    /\ list = 0 => times = {} /\ settled = {}
    /\ \A r \in Recorder :
         /\ recorder[r].pc = "create" => settled = {}
         /\ recorder[r].pc \in {"fetch", "append"} => list # 0
    /\ SettledTimesKept

\* No time has been recorded.
LEMMA InitTimes == Init => TimesInv
BY DEF Init, IdleRecorder, TimesInv, SettledTimesKept

\* Every step keeps what has settled.
LEMMA NextTimes == ASSUME TypeInv, TimesInv, [Next]_vars PROVE TimesInv'
<1>1. CASE UNCHANGED timeVars
  BY <1>1 DEF timeVars, TimesInv, SettledTimesKept
<1>2. ASSUME NEW r \in Recorder, LogTrainingTime(r) \/ Recording(r)
      PROVE  TimesInv'
  <2>1. list \in Nat /\ recorder \in [Recorder -> [pc    : {"idle", "check", "create", "fetch",
                                                            "append"},
                                                   value : 0..MaxTimes,
                                                   list  : Nat]]
    BY DEF TypeInv, PythonMonitorTypeOK
  <2>2. CASE LogTrainingTime(r)
    <3>1. /\ UNCHANGED <<list, times, settled>>
          /\ \A s \in Recorder : recorder'[s].pc \in {recorder[s].pc, "check"}
      BY <2>1, <2>2 DEF LogTrainingTime
    <3>2. QED
      BY <3>1 DEF TimesInv, SettledTimesKept
  <2>3. CASE CheckMetric(r)
    <3>1. /\ UNCHANGED <<list, times, settled>>
          /\ \A s \in Recorder :
                recorder'[s].pc = IF s = r THEN (IF list = 0 THEN "create" ELSE "fetch")
                                           ELSE recorder[s].pc
      BY <2>1, <2>3 DEF CheckMetric, RecorderGoes, Missing
    <3>2. QED
      BY <3>1 DEF TimesInv, SettledTimesKept
  <2>4. CASE CreateMetric(r)
    <3>1. /\ list' = list + 1
          /\ times' = {}
          /\ settled' = settled
          /\ recorder[r].pc = "create"
          /\ \A s \in Recorder : recorder'[s].pc = IF s = r THEN "fetch" ELSE recorder[s].pc
      BY <2>1, <2>4 DEF CreateMetric, RecorderGoes, InRecorder
    <3>2. list' # 0 /\ settled = {}
      BY <2>1, <3>1 DEF TimesInv
    <3>3. QED
      BY <3>1, <3>2 DEF TimesInv, SettledTimesKept
  <2>5. CASE FetchMetric(r)
    <3>1. /\ UNCHANGED <<list, times, settled>>
          /\ recorder[r].pc = "fetch"
          /\ \A s \in Recorder : recorder'[s].pc = IF s = r THEN "append" ELSE recorder[s].pc
      BY <2>1, <2>5 DEF FetchMetric, InRecorder
    <3>2. QED
      BY <3>1 DEF TimesInv, SettledTimesKept
  <2>6. CASE AppendMetric(r)
    <3>1. /\ list' = list
          /\ times \subseteq times'
          /\ recorder[r].pc = "append"
          /\ settled' = IF \A s \in Recorder : recorder'[s].pc = "idle" THEN times' ELSE settled
      BY <2>6 DEF AppendMetric, InRecorder, Settle
    <3>2. \A s \in Recorder : recorder'[s].pc = IF s = r THEN "idle" ELSE recorder[s].pc
      BY <2>1, <2>6 DEF AppendMetric, IdleRecorder
    <3>3. list # 0
      BY <3>1 DEF TimesInv
    <3>4. \A s \in Recorder :
             /\ recorder'[s].pc = "create" => settled' = {}
             /\ recorder'[s].pc \in {"fetch", "append"} => list' # 0
      BY <3>1, <3>2, <3>3 DEF TimesInv
    <3>5. SettledTimesKept'
      BY <3>1 DEF TimesInv, SettledTimesKept
    <3>6. QED
      BY <3>1, <3>3, <3>4, <3>5 DEF TimesInv
  <2>7. QED
    BY <1>2, <2>2, <2>3, <2>4, <2>5, <2>6 DEF Recording
<1>3. CASE StopStep
  <2>1. UNCHANGED timeVars
    BY <1>3 DEF StopStep, Import, Activate, UpdaterStops, Probe, SenderLoop, CopyLogs,
                PostRefused, PostLost, PostAccepted, Answered, ClearLogs, RemoveNode,
                StopReturns, RemoverRest, Shutdown, ShutdownEnds
  <2>2. QED
    BY <1>1, <2>1
<1>4. ASSUME NEW c \in Client, SendEvent(c) PROVE TimesInv'
  BY <1>1, <1>4 DEF SendEvent
<1>5. CASE UNCHANGED vars
  BY <1>1, <1>5 DEF vars
<1>6. QED
  BY <1>2, <1>3, <1>4, <1>5, NextCases DEF TimeStep

-----------------------------------------------------------------------------
(* Logs *)

\* What is kept while logs are being sent has been copied or is late, and once
\* they were accepted it has been delivered or is late.
LogsInv ==
    /\ OnlyLateLogsLost
    /\ sender = "post" => ToSet(logs) \subseteq ToSet(copy) \cup late
    /\ sender = "clear" => ToSet(logs) \subseteq delivered \cup late

\* Nothing has been logged.
LEMMA InitLogs == Init => LogsInv
BY DEF Init, LogsInv, OnlyLateLogsLost

\* The steps that stop, send and clear lose no log that is not late.
LEMMA StopStepLogs == ASSUME LogsInv, StopStep PROVE LogsInv'
<1>1. UNCHANGED <<accepted, late>>
  BY DEF StopStep, Import, Activate, UpdaterStops, Probe, SenderLoop, CopyLogs, PostRefused,
         PostLost, PostAccepted, Answered, ClearLogs, RemoveNode, StopReturns, RemoverRest,
         Shutdown, ShutdownEnds, logVars
<1>2. CASE CopyLogs
  <2>1. UNCHANGED <<logs, delivered>> /\ (sender' = "post" => copy' = logs) /\ sender' # "clear"
    BY <1>2 DEF CopyLogs, logVars
  <2>2. QED
    BY <1>1, <2>1 DEF LogsInv, OnlyLateLogsLost
<1>3. CASE PostAccepted
  <2>1. /\ sender = "post" /\ sender' = "clear"
        /\ logs' = logs
        /\ delivered' = delivered \cup ToSet(copy)
    BY <1>3 DEF PostAccepted, Answered, AfterPost, InSender, logVars
  <2>2. QED
    BY <1>1, <2>1 DEF LogsInv, OnlyLateLogsLost
<1>4. CASE PostRefused \/ PostLost
  <2>1. sender' = "loop" /\ logs' = logs /\ delivered \subseteq delivered'
    BY <1>4 DEF PostRefused, PostLost, Answered, AfterPost, logVars
  <2>2. QED
    BY <1>1, <2>1 DEF LogsInv, OnlyLateLogsLost
<1>5. CASE ClearLogs
  <2>1. sender = "clear" /\ sender' = "loop" /\ delivered' = delivered
    BY <1>5 DEF ClearLogs, InSender
  <2>2. accepted \subseteq delivered \cup late
    BY <2>1 DEF LogsInv, OnlyLateLogsLost
  <2>3. QED
    BY <1>1, <2>1, <2>2 DEF LogsInv, OnlyLateLogsLost
<1>6. CASE Probe \/ SenderLoop \/ Import
  <2>1. UNCHANGED <<logs, delivered, copy>>
    BY <1>6 DEF Probe, SenderLoop, Import, logVars
  <2>2. sender' \in {sender, "probing", "loop", "copy", "ended"}
    BY <1>6 DEF Probe, SenderLoop, Import
  <2>3. QED
    BY <1>1, <2>1, <2>2 DEF LogsInv, OnlyLateLogsLost
<1>7. CASE \/ Activate \/ UpdaterStops \/ Shutdown \/ ShutdownEnds
           \/ \E r \in Remover : RemoveNode(r) \/ StopReturns(r)
  <2>1. UNCHANGED <<logs, sendVars>>
    BY <1>7 DEF Activate, UpdaterStops, Shutdown, ShutdownEnds, RemoveNode, StopReturns,
                RemoverRest, logVars
  <2>2. QED
    BY <1>1, <2>1 DEF LogsInv, OnlyLateLogsLost, sendVars
<1>8. QED
  BY <1>2, <1>3, <1>4, <1>5, <1>6, <1>7 DEF StopStep

\* Every step keeps what is known of the logs.
LEMMA NextLogs == ASSUME TypeInv, LogsInv, [Next]_vars PROVE LogsInv'
<1>1. CASE UNCHANGED <<logVars, sendVars>>
  BY <1>1 DEF logVars, sendVars, LogsInv, OnlyLateLogsLost
<1>2. ASSUME NEW c \in Client, SendEvent(c) PROVE LogsInv'
  <2>1. UNCHANGED sendVars /\ (UNCHANGED logVars \/ AppendLog(NextEvent(c)))
    BY <1>2 DEF SendEvent, NextEvent
  <2>2. CASE AppendLog(NextEvent(c))
    <3>1. /\ ToSet(logs') = ToSet(logs) \cup {NextEvent(c)}
          /\ accepted' = accepted \cup {NextEvent(c)}
          /\ late' = IF Sending THEN late \cup {NextEvent(c)} ELSE late
      BY <1>2, <2>2, EventSent, ElementFacts DEF AppendLog, TypeInv, PythonMonitorTypeOK
    <3>2. QED
      BY <2>1, <3>1 DEF sendVars, Sending, LogsInv, OnlyLateLogsLost
  <2>3. QED
    BY <1>1, <2>1, <2>2
<1>3. CASE TimeStep
  <2>1. UNCHANGED <<logVars, sendVars>>
    BY <1>3 DEF TimeStep, LogTrainingTime, Recording, CheckMetric, CreateMetric, FetchMetric,
                AppendMetric, RecordRest
  <2>2. QED
    BY <1>1, <2>1
<1>4. CASE UNCHANGED vars
  BY <1>1, <1>4 DEF vars
<1>5. QED
  BY <1>2, <1>3, <1>4, NextCases, StopStepLogs

-----------------------------------------------------------------------------
(* Stopping *)

\* A call of stop returns when the sender has ended, and the sender is made only
\* once, before any call.
StopInv ==
    /\ stopped => sender = "ended"
    /\ main = "import" => sender = "none" /\ ~stopped

\* Nothing has been started or stopped.
LEMMA InitStop == Init => StopInv
BY DEF Init, StopInv

\* Every step keeps what is known of stopping.
LEMMA NextStop == ASSUME StopInv, [Next]_vars PROVE StopInv'
<1>1. CASE UNCHANGED <<main, sender, stopped>>
  BY <1>1 DEF StopInv
<1>2. CASE Import
  BY <1>2 DEF Import, StopInv
<1>3. CASE Probe \/ SenderLoop \/ CopyLogs \/ PostRefused \/ PostLost \/ PostAccepted \/ ClearLogs
  <2>1. sender \notin {"none", "ended"} /\ UNCHANGED <<main, stopped>>
    BY <1>3 DEF Probe, SenderLoop, CopyLogs, PostRefused, PostLost, PostAccepted, Answered,
                ClearLogs, InSender, stopVars
  <2>2. QED
    BY <2>1 DEF StopInv
<1>4. CASE Shutdown \/ ShutdownEnds \/ \E r \in Remover : StopReturns(r)
  <2>1. sender' = sender /\ stopped' \in {stopped, TRUE} /\ (stopped' # stopped => sender = "ended")
    BY <1>4 DEF Shutdown, ShutdownEnds, StopReturns, Joined, RemoverRest, sendVars
  <2>2. main' # "import" \/ main' = main
    BY <1>4 DEF Shutdown, ShutdownEnds, StopReturns, RemoverRest
  <2>3. QED
    BY <1>4, <2>1, <2>2 DEF StopInv, Shutdown, ShutdownEnds, StopReturns, Joined, RemoverRest
<1>5. CASE \/ Activate \/ UpdaterStops \/ TimeStep
           \/ \E r \in Remover : RemoveNode(r)
           \/ \E c \in Client : SendEvent(c)
  BY <1>1, <1>5
     DEF Activate, UpdaterStops, TimeStep, LogTrainingTime, Recording, CheckMetric, CreateMetric,
         FetchMetric, AppendMetric, RecordRest, RemoveNode, RemoverRest, SendEvent,
         stopVars, sendVars
<1>6. CASE UNCHANGED vars
  BY <1>1, <1>6 DEF vars, stopVars, sendVars
<1>7. QED
  BY <1>2, <1>3, <1>4, <1>5, <1>6, NextCases DEF StopStep

\* A step after a call of stop has returned sends and clears nothing.
LEMMA StoppedStep ==
    ASSUME TypeInv, StopInv, [Next]_vars, stopped
    PROVE  delivered' = delivered /\ IsPrefix(logs, logs')
<1>1. logs \in Seq(Event)
  BY DEF TypeInv, PythonMonitorTypeOK
<1>2. IsPrefix(logs, logs)
  BY <1>1, PrefixFacts
<1>3. sender = "ended" /\ main # "import"
  BY DEF StopInv
<1>4. CASE UNCHANGED <<delivered, logs>>
  BY <1>2, <1>4
<1>5. ASSUME NEW c \in Client, SendEvent(c) PROVE delivered' = delivered /\ IsPrefix(logs, logs')
  <2>1. delivered' = delivered /\ (logs' = logs \/ logs' = Append(logs, NextEvent(c)))
    BY <1>5 DEF SendEvent, AppendLog, NextEvent, logVars, sendVars
  <2>2. IsPrefix(logs, Append(logs, NextEvent(c)))
    BY <1>1, <1>5, EventSent, PrefixFacts
  <2>3. QED
    BY <1>2, <2>1, <2>2
<1>6. CASE StopStep \/ TimeStep
  BY <1>3, <1>4, <1>6
     DEF StopStep, Import, Activate, UpdaterStops, Probe, SenderLoop, CopyLogs, PostRefused,
         PostLost, PostAccepted, Answered, ClearLogs, InSender, RemoveNode, StopReturns,
         RemoverRest, Shutdown, ShutdownEnds, TimeStep, LogTrainingTime, Recording,
         CheckMetric, CreateMetric, FetchMetric, AppendMetric, RecordRest, logVars, sendVars
<1>7. CASE UNCHANGED vars
  BY <1>4, <1>7 DEF vars, logVars, sendVars
<1>8. QED
  BY <1>5, <1>6, <1>7, NextCases

-----------------------------------------------------------------------------
(* Theorems *)

\* The inductive invariant of the monitor.
IInv == TypeInv /\ TimesInv /\ LogsInv /\ StopInv

\* The inductive invariant holds in every state.
LEMMA Invariance == Spec => []IInv
<1>1. Init => IInv
  BY InitType, InitTimes, InitLogs, InitStop DEF IInv
<1>2. IInv /\ [Next]_vars => IInv'
  BY NextType, NextTimes, NextLogs, NextStop DEF IInv
<1>3. QED
  BY <1>1, <1>2, PTL DEF Spec

\* Every variable of the monitor keeps its type, for any number of clients,
\* requests and events.
THEOREM PythonMonitorTypeCorrect == Spec => []PythonMonitorTypeOK
<1>1. IInv => PythonMonitorTypeOK
  BY DEF IInv, TypeInv
<1>2. QED
  BY <1>1, Invariance, PTL

\* A log that log_ccl has accepted is with the server or is kept, unless it came
\* between get_ccl_logs and clear_ccl_logs.
THEOREM LogsLostOnlyLate == Spec => []OnlyLateLogsLost
<1>1. IInv => OnlyLateLogsLost
  BY DEF IInv, LogsInv
<1>2. QED
  BY <1>1, Invariance, PTL

\* Times that append_metric had recorded when no request was recording are kept.
THEOREM SettledTimesStay == Spec => []SettledTimesKept
<1>1. IInv => SettledTimesKept
  BY DEF IInv, TimesInv
<1>2. QED
  BY <1>1, Invariance, PTL

\* Once a call of stop has returned, no thread sends or clears logs.
THEOREM StoppedIsSilent == Spec => SilentOnceStopped
<1>1. IInv /\ [Next]_vars => [stopped => delivered' = delivered /\ IsPrefix(logs, logs')]_vars
  BY StoppedStep DEF IInv
<1>2. QED
  BY <1>1, Invariance, PTL DEF Spec, SilentOnceStopped

=============================================================================
