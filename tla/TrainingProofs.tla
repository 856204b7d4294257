--------------------------- MODULE TrainingProofs ---------------------------
(***************************************************************************)
(* Proofs about the training scripts: the types, that the processes of a   *)
(* launch stay in lockstep from one collective to the next, and what they  *)
(* leave in the checkpoint file.                                           *)
(***************************************************************************)
EXTENDS Training, SequenceTheorems, TLAPS

-----------------------------------------------------------------------------
(* What a process may have left to do.  A script is a sequence of            *)
(* instructions, and a process inserts others: a relation between an         *)
(* instruction and the one after it says what the sequences have in common.  *)

Settings == {"rank?", "many?", "init", "barrier", "local", "agent"}

\* The fourth instruction of a body tells the scripts that look at the gradients.
Checks(s) == s.body[4] = "check"

\* A script in which x is followed by y.
Follows(s, x, y) ==
    \/ x = "rank?" /\ y = "init"
    \/ x = "many?" /\ y = "init" /\ s.setup[1] = "many?"
    \/ /\ x = "init"
       /\ y \in {"agent", "rank?", "local", "barrier", "ddp", "ddpcpu"}
       /\ \E i \in 1 .. Len(s.setup) - 1 : s.setup[i] = "init" /\ s.setup[i + 1] = y
    \/ x = "barrier" /\ y = "local"
    \/ x \in {"local", "agent"} /\ y = "ddp"
    \/ x \in {"ddp", "ddpcpu"} /\ y \in {"batch", "forward"}
    \/ x = "batch" /\ y = "forward"
    \/ x = "forward" /\ y = "backward"
    \/ x = "backward" /\ y = IF Checks(s) THEN "check" ELSE "step"
    \/ x = "check" /\ y = "step"
    \/ x = "step" /\ y \in {"evaluate", "next"}
    \/ x \in {"evaluate", "best"} /\ y = "next"
    \/ x = "val" /\ y \in {"val", "best"}
    \/ x = "open" /\ y = "write"
    \/ x = "write" /\ y \in {"next", "exit"}
    \/ x \in {"save", "destroy"} /\ y = "exit"

\* A part of what is to be done.  A model that is evaluated has no buffers.
Part(s, t) ==
    /\ t \in Seq(Instructions)
    /\ t # <<>>
    /\ \A i \in 1 .. Len(t) - 1 : Follows(s, t[i], t[i + 1])
    /\ \A i \in 1 .. Len(t) : t[i] \in {"evaluate", "val"} => ~s.buffers

\* It ends where an iteration or the process does.
Todo(s, t) == Part(s, t) /\ t[Len(t)] \in {"next", "exit"}

-----------------------------------------------------------------------------
(* The invariant *)

\* Instructions of an iteration that is still to be counted.
Early == Settings \cup {"ddp", "ddpcpu", "batch", "forward", "backward", "check"}

\* train() of workspace/compute/main.py finds a process group.
TwoGroups == script.setup[1] = "init" /\ script.setup[2] = "rank?"

\* What r, the state of process p, tells of what p has done: a process is done
\* with its settings before it is on its own, which it is without a rank; only a
\* master evaluates and saves; iterations are counted.
Settled(p, r) ==
    /\ ~r.dist => r.todo[1] \notin Settings /\ (p = 0 \/ agent[p] = "norank")
    /\ r.todo[1] \in {"val", "best", "open", "write"} => p = 0 \/ ~r.dist
    /\ TwoGroups => /\ r.todo[1] = "rank?" => r.member
                    /\ r.todo[1] = "init" /\ r.todo[2] = "local" => r.member
    /\ r.todo[1] \in Early => r.iter <= script.last
    /\ r.todo[1] \in {"open", "write", "save", "destroy", "exit"} => r.iter > 0

\* A state of process p.
Sound(p, r) == r \in ProcessType /\ Todo(script, r.todo) /\ Settled(p, r)

\* The first collective of an iteration.
First == IF script.buffers THEN "forward" ELSE "backward"

\* The collective of iteration i, if there is such an iteration.
Iteration(i, updates) == IF i > script.last THEN <<"none", 0, 0>> ELSE <<First, i, updates>>

\* The collective in which a distributed process waits next, its iteration and
\* the updates that come before.
Ahead(r) ==
    CASE r.todo[1] \in {"rank?", "many?", "init"} -> <<"init", r.iter, r.updates>>
      [] r.todo[1] = "barrier"                    -> <<"barrier", r.iter, r.updates>>
      [] r.todo[1] \in {"local", "agent", "ddp"}  -> <<"ddp", r.iter, r.updates>>
      [] r.todo[1] = "ddpcpu"                     -> <<"ddpcpu", r.iter, r.updates>>
      [] r.todo[1] \in {"batch", "forward"}       -> <<First, r.iter, r.updates>>
      [] r.todo[1] = "backward"                   -> <<"backward", r.iter, r.updates>>
      [] r.todo[1] = "check" /\ r.bad             -> <<First, r.iter, r.updates>>
      [] r.todo[1] = "check" /\ ~r.bad            -> Iteration(r.iter + 1, r.updates + 1)
      [] r.todo[1] = "step"                       -> Iteration(r.iter + 1, r.updates + 1)
      [] OTHER                                    -> Iteration(r.iter + 1, r.updates)

Joint(r) == r.state = "run" /\ r.dist

\* Distributed processes have the same collective ahead of them.
Lockstep ==
    \A p, q \in Procs : Joint(proc[p]) /\ Joint(proc[q]) => Ahead(proc[p]) = Ahead(proc[q])

\* The types of the variables but for proc.
Types ==
    /\ script \in Scripts
    /\ env \in Environments
    /\ batch \in BatchSizes
    /\ agent \in [Procs -> {"rank", "norank", "down"}]
    /\ ckpt \in [state : {"absent", "writing", "torn", "whole"}, loss : 1..NoLoss, launch : Nat]
    /\ seen \subseteq 1..MaxLoss
    /\ {hit, hitSave} \subseteq BOOLEAN
    /\ nans \in 0..MaxNaNs
    /\ launch \in 1..MaxLaunches

\* The state of every process.
ProcsSound ==
    /\ proc = [p \in Procs |-> proc[p]]
    /\ \A p \in Procs : Sound(p, proc[p])

TrainInv == Types /\ ProcsSound /\ Lockstep

AllRanked == \A p \in Procs : agent[p] = "rank"

\* Where every agent has a rank the master is process 0.  The best loss it has is
\* the least it has seen; the checkpoint of this launch has that loss, or will, or
\* the one before, and none is written in iteration 0.
BestKept ==
    /\ proc[0].state = "run" => \A loss \in seen : proc[0].best <= loss
    /\ ckpt.state = "whole" /\ ckpt.launch = launch =>
        /\ proc[0].state = "run" /\ proc[0].todo[1] # "open" =>
               ckpt.loss <= proc[0].best /\ proc[0].iter > 0
        /\ proc[0].state = "run" /\ proc[0].todo[1] = "open" =>
               \A loss \in seen \ {proc[0].best} : ckpt.loss <= loss
        /\ proc[0].state = "done" => \A loss \in seen : ckpt.loss <= loss
        /\ \A a, b \in seen : a < ckpt.loss /\ b < ckpt.loss => a = b

SaveInv ==
    /\ TornByCrashOnly
    /\ ckpt.launch <= launch
    /\ AllRanked => BestKept

-----------------------------------------------------------------------------
(* Sequences *)

\* The rest of what is to be done.
LEMMA RestIsTodo ==
    ASSUME NEW s, NEW t, Todo(s, t), t[1] \notin {"next", "exit"}
    PROVE  /\ Todo(s, Tail(t))
           /\ Follows(s, t[1], Tail(t)[1])
           /\ Tail(t)[1] = t[2]
           /\ Len(Tail(t)) >= 2 => Tail(t)[2] = t[3]
<1> DEFINE u == Tail(t)
<1>1. t \in Seq(Instructions) /\ t # <<>>
  BY DEF Todo, Part
<1>2. Len(t) \in Nat /\ Len(t) >= 1
  BY <1>1, EmptySeq, LenProperties
<1>3. Len(t) >= 2
  <2>1. Len(t) # 1
    BY DEF Todo
  <2>2. QED
    BY <1>2, <2>1
<1>4. /\ u \in Seq(Instructions)
      /\ Len(u) = Len(t) - 1
      /\ \A i \in 1 .. Len(u) : u[i] = t[i + 1]
  BY <1>1, <1>3, HeadTailProperties
<1> HIDE DEF u
<1>5. u # <<>>
  BY <1>2, <1>3, <1>4, EmptySeq
<1>6. u[Len(u)] = t[Len(t)]
  BY <1>2, <1>3, <1>4
<1>7. /\ u[1] = t[2]
      /\ Len(u) >= 2 => u[2] = t[3]
  BY <1>2, <1>3, <1>4
<1>8. ASSUME NEW i \in 1 .. Len(u) - 1 PROVE Follows(s, u[i], u[i + 1])
  <2>1. u[i] = t[i + 1] /\ u[i + 1] = t[(i + 1) + 1]
    BY <1>2, <1>4
  <2>2. i + 1 \in 1 .. Len(t) - 1
    BY <1>2, <1>4
  <2>3. Follows(s, t[i + 1], t[(i + 1) + 1])
    BY <2>2 DEF Todo, Part
  <2>4. QED
    BY <2>1, <2>3
<1>9. ASSUME NEW i \in 1 .. Len(u), u[i] \in {"evaluate", "val"} PROVE ~s.buffers
  <2>1. i + 1 \in 1 .. Len(t) /\ u[i] = t[i + 1]
    BY <1>2, <1>4
  <2>2. QED
    BY <1>9, <2>1 DEF Todo, Part
<1>10. Follows(s, t[1], t[2])
  <2>1. 1 \in 1 .. Len(t) - 1 /\ t[1 + 1] = t[2]
    BY <1>2, <1>3
  <2>2. Follows(s, t[1], t[1 + 1])
    BY <2>1 DEF Todo, Part
  <2>3. QED
    BY <2>1, <2>2
<1>11. Todo(s, u)
  BY <1>4, <1>5, <1>6, <1>8, <1>9 DEF Todo, Part
<1>12. QED
  BY <1>7, <1>10, <1>11 DEF u

\* c is a with b after it, as far as that matters.
Joins(s, a, b, c) ==
    /\ Part(s, c)
    /\ c[1] = a[1]
    /\ Len(a) >= 2 => c[2] = a[2]
    /\ c[Len(c)] = b[Len(b)]

\* A part and one that may follow it.
LEMMA Joined ==
    ASSUME NEW s, NEW a, NEW b, NEW c, c = a \o b,
           Part(s, a), Part(s, b), Follows(s, a[Len(a)], b[1])
    PROVE  Joins(s, a, b, c)
<1>1. /\ a \in Seq(Instructions) /\ a # <<>>
      /\ b \in Seq(Instructions) /\ b # <<>>
  BY DEF Part
<1>2. /\ Len(a) \in Nat /\ Len(a) >= 1
      /\ Len(b) \in Nat /\ Len(b) >= 1
  BY <1>1, EmptySeq, LenProperties
<1>3. /\ c \in Seq(Instructions)
      /\ Len(c) = Len(a) + Len(b)
      /\ \A i \in 1 .. Len(a) + Len(b) : c[i] = IF i <= Len(a) THEN a[i] ELSE b[i - Len(a)]
  BY <1>1, ConcatProperties
<1>4. c # <<>>
  BY <1>2, <1>3, EmptySeq
<1>5. /\ \A i \in 1 .. Len(a) : c[i] = a[i]
      /\ \A i \in 1 .. Len(b) : c[Len(a) + i] = b[i]
  <2>1. ASSUME NEW i \in 1 .. Len(a) PROVE c[i] = a[i]
    <3>1. i \in 1 .. Len(a) + Len(b) /\ i <= Len(a)
      BY <1>2
    <3>2. QED
      BY <1>3, <3>1
  <2>2. ASSUME NEW i \in 1 .. Len(b) PROVE c[Len(a) + i] = b[i]
    <3>1. /\ Len(a) + i \in 1 .. Len(a) + Len(b)
          /\ ~(Len(a) + i <= Len(a))
          /\ Len(a) + i - Len(a) = i
      BY <1>2
    <3>2. QED
      BY <1>3, <3>1
  <2>3. QED
    BY <2>1, <2>2
<1>6. c[1] = a[1] /\ (Len(a) >= 2 => c[2] = a[2])
  BY <1>2, <1>5
<1>7. c[Len(c)] = b[Len(b)]
  BY <1>2, <1>3, <1>5
<1>8. ASSUME NEW i \in 1 .. Len(c) - 1 PROVE Follows(s, c[i], c[i + 1])
  <2>1. CASE i < Len(a)
    <3>1. i \in 1 .. Len(a) - 1 /\ i \in 1 .. Len(a) /\ i + 1 \in 1 .. Len(a)
      BY <1>2, <2>1
    <3>2. Follows(s, a[i], a[i + 1])
      BY <3>1 DEF Part
    <3>3. QED
      BY <1>5, <3>1, <3>2
  <2>2. CASE i = Len(a)
    <3>1. Len(a) \in 1 .. Len(a) /\ 1 \in 1 .. Len(b)
      BY <1>2
    <3>2. c[i] = a[Len(a)] /\ c[i + 1] = b[1]
      BY <1>5, <2>2, <3>1
    <3>3. QED
      BY <3>2
  <2>3. CASE i > Len(a)
    <3> DEFINE j == i - Len(a)
    <3>1. /\ j \in 1 .. Len(b) - 1 /\ j \in 1 .. Len(b) /\ j + 1 \in 1 .. Len(b)
          /\ Len(a) + j = i /\ Len(a) + (j + 1) = i + 1
      BY <1>2, <1>3, <2>3
    <3> HIDE DEF j
    <3>2. c[i] = b[j] /\ c[i + 1] = b[j + 1]
      BY <1>5, <3>1
    <3>3. Follows(s, b[j], b[j + 1])
      BY <3>1 DEF Part
    <3>4. QED
      BY <3>2, <3>3
  <2>4. QED
    BY <1>2, <1>3, <2>1, <2>2, <2>3
<1>9. ASSUME NEW i \in 1 .. Len(c), c[i] \in {"evaluate", "val"} PROVE ~s.buffers
  <2>1. CASE i <= Len(a)
    <3>1. i \in 1 .. Len(a)
      BY <1>2, <2>1
    <3>2. QED
      BY <1>5, <1>9, <3>1 DEF Part
  <2>2. CASE i > Len(a)
    <3>1. i - Len(a) \in 1 .. Len(b) /\ Len(a) + (i - Len(a)) = i
      BY <1>2, <1>3, <2>2
    <3>2. c[i] = b[i - Len(a)]
      BY <1>5, <3>1
    <3>3. QED
      BY <1>9, <3>1, <3>2 DEF Part
  <2>3. QED
    BY <1>2, <1>3, <2>1, <2>2
<1>10. Part(s, c)
  BY <1>3, <1>4, <1>8, <1>9 DEF Part
<1>11. QED
  BY <1>6, <1>7, <1>10 DEF Joins

-----------------------------------------------------------------------------
(* The scripts *)

\* What main() of workspace/compute/main.py does before train().
LEMMA MainSetup ==
    <<"init">> \o <<"rank?", "init", "local", "ddp">>
        = <<"init", "rank?", "init", "local", "ddp">>
<1> DEFINE a == <<"init">>
           b == <<"rank?", "init", "local", "ddp">>
           c == <<"init", "rank?", "init", "local", "ddp">>
<1>1. /\ a \in Seq(Instructions) /\ Len(a) = 1
      /\ b \in Seq(Instructions) /\ Len(b) = 4
      /\ c \in Seq(Instructions) /\ Len(c) = 5
  BY DEF Instructions
<1>2. /\ a[1] = c[1] /\ b[1] = c[2] /\ b[2] = c[3] /\ b[3] = c[4] /\ b[4] = c[5]
  OBVIOUS
<1> HIDE DEF a, b, c
<1>3. /\ a \o b \in Seq(Instructions)
      /\ Len(a \o b) = Len(a) + Len(b)
      /\ \A i \in 1 .. Len(a) + Len(b) : (a \o b)[i] = IF i <= Len(a) THEN a[i] ELSE b[i - Len(a)]
  BY <1>1, ConcatProperties
<1>4. \A i \in 1 .. Len(c) : (a \o b)[i] = c[i]
  <2>1. ASSUME NEW i \in 1 .. 5 PROVE (a \o b)[i] = c[i]
    BY <1>1, <1>2, <1>3, SMTT(30)
  <2>2. QED
    BY <1>1, <2>1
<1>5. a \o b = c
  BY <1>1, <1>3, <1>4, SeqEqual, SMTT(30)
<1>6. QED
  BY <1>5 DEF a, b, c

\* The parts of a script.
LEMMA ScriptParts ==
    ASSUME NEW s \in Scripts
    PROVE  /\ Part(s, s.setup)
           /\ s.setup[1] \in {"rank?", "many?", "init"}
           /\ s.setup[Len(s.setup)] \in {"ddp", "ddpcpu"}
           /\ Todo(s, s.body)
           /\ s.body[1] \in {"batch", "forward"}
           /\ Todo(s, s.tail)
           /\ s.tail[1] \in {"save", "destroy"}
           /\ s.last \in Nat
           /\ s.buffers \in BOOLEAN
<1>1. MaxIters \in Nat /\ MaxIters >= 1
  BY TrainingAssumption
<1>2. CASE s = TrainPy
  BY <1>1, <1>2 DEF TrainPy, Part, Todo, Follows, Checks, Instructions
<1>3. CASE s = ComputeTrainPy
  BY <1>1, <1>3 DEF ComputeTrainPy, Part, Todo, Follows, Checks, Instructions
<1>4. CASE s = ComputeMainPy
  <2>1. s = [setup   |-> <<"init", "rank?", "init", "local", "ddp">>,
             body    |-> <<"batch", "forward", "backward", "check", "step", "evaluate", "next">>,
             tail    |-> <<"destroy", "exit">>,
             last    |-> MaxIters,
             atLeast |-> 1,
             buffers |-> FALSE]
    BY <1>4, MainSetup DEF ComputeMainPy, ComputeTrainPy
  <2>2. QED
    BY <1>1, <2>1 DEF Part, Todo, Follows, Checks, Instructions
<1>5. CASE s = TrainSinglePy
  BY <1>1, <1>5 DEF TrainSinglePy, Part, Todo, Follows, Checks, Instructions
<1>6. CASE s = TrainSamplePy
  BY <1>1, <1>6 DEF TrainSamplePy, Part, Todo, Follows, Checks, Instructions
<1>7. CASE s = DeploymentPy
  BY <1>1, <1>7 DEF DeploymentPy, Part, Todo, Follows, Checks, Instructions
<1>8. CASE s = MnistPy
  BY <1>1, <1>8 DEF MnistPy, DeploymentPy, Part, Todo, Follows, Checks, Instructions
<1>9. QED
  BY <1>2, <1>3, <1>4, <1>5, <1>6, <1>7, <1>8 DEF Scripts

\* What a process does that is launched.
LEMMA Starting ==
    ASSUME NEW s \in Scripts
    PROVE  /\ Todo(s, s.setup \o s.body)
           /\ (s.setup \o s.body)[1] = s.setup[1]
           /\ s.setup[1] = "init" /\ s.setup[2] = "rank?" => (s.setup \o s.body)[2] = "rank?"
<1>1. /\ Part(s, s.setup) /\ Part(s, s.body)
      /\ s.setup[Len(s.setup)] \in {"ddp", "ddpcpu"}
      /\ s.body[1] \in {"batch", "forward"}
      /\ s.body[Len(s.body)] \in {"next", "exit"}
  BY ScriptParts DEF Todo
<1>2. Follows(s, s.setup[Len(s.setup)], s.body[1])
  BY <1>1 DEF Follows
<1> DEFINE t == s.setup \o s.body
<1>3. /\ Part(s, t)
      /\ t[1] = s.setup[1]
      /\ Len(s.setup) >= 2 => t[2] = s.setup[2]
      /\ t[Len(t)] = s.body[Len(s.body)]
  <2>1. t = s.setup \o s.body
    OBVIOUS
  <2> HIDE DEF t
  <2>2. Joins(s, s.setup, s.body, t)
    BY <1>1, <1>2, <2>1, Joined
  <2>3. QED
    BY <2>2 DEF Joins
<1>4. s.setup[1] = "init" => Len(s.setup) >= 2
  <2>1. Len(s.setup) \in Nat /\ Len(s.setup) >= 1
    BY <1>1, EmptySeq, LenProperties DEF Part
  <2>2. QED
    BY <1>1, <2>1
<1>5. QED
  BY <1>1, <1>3, <1>4 DEF Todo

\* Only the script with two process groups goes on in two ways after
\* init_process_group.
LEMMA AfterInit ==
    ASSUME NEW s \in Scripts, NEW y, NEW z, Follows(s, "init", y), Follows(s, "init", z)
    PROVE  \/ y = z
           \/ /\ s.setup[1] = "init" /\ s.setup[2] = "rank?"
              /\ {y, z} \subseteq {"rank?", "local"}
<1>1. CASE s = TrainPy
  BY <1>1 DEF TrainPy, Follows
<1>2. CASE s = ComputeTrainPy
  BY <1>2 DEF ComputeTrainPy, Follows
<1>3. CASE s = ComputeMainPy
  <2>1. s.setup = <<"init", "rank?", "init", "local", "ddp">>
    BY <1>3, MainSetup DEF ComputeMainPy, ComputeTrainPy
  <2>2. QED
    BY <2>1 DEF Follows
<1>4. CASE s = TrainSinglePy
  BY <1>4 DEF TrainSinglePy, Follows
<1>5. CASE s = TrainSamplePy
  BY <1>5 DEF TrainSamplePy, Follows
<1>6. CASE s = DeploymentPy
  BY <1>6 DEF DeploymentPy, Follows
<1>7. CASE s = MnistPy
  BY <1>7 DEF MnistPy, DeploymentPy, Follows
<1>8. QED
  BY <1>1, <1>2, <1>3, <1>4, <1>5, <1>6, <1>7 DEF Scripts

-----------------------------------------------------------------------------
(* A step of one process *)

\* r may be the next state of p: a distributed process has the same collective
\* ahead as before.
Proper(p, r) ==
    /\ Sound(p, r)
    /\ Joint(r) => Joint(proc[p]) /\ Ahead(r) = Ahead(proc[p])

Moves(p) == \E r : Proper(p, r) /\ Become(p, r)

\* Process 0 is always there.
LEMMA ProcsFact ==
    ASSUME env \in Environments
    PROVE  /\ 0 \in Procs
           /\ Procs \subseteq Ranks
           /\ env = {} \/ N = 1 => Procs = {0}
  BY TrainingAssumption DEF Procs, Launched, Ranks, Environments

\* A step of one process keeps the processes sound and in lockstep.
LEMMA MoveKeeps ==
    ASSUME TrainInv, NEW p \in Procs, Moves(p), UNCHANGED <<script, env, agent>>
    PROVE  (ProcsSound /\ Lockstep)'
<1>1. PICK r : Proper(p, r) /\ Become(p, r)
  BY DEF Moves
<1>2. Procs' = Procs
  BY DEF Procs, Launched, Ranks
<1>3. /\ proc' = [q \in Procs |-> proc'[q]]
      /\ proc'[p] = r
      /\ \A q \in Procs \ {p} : proc'[q] = proc[q]
  <2>1. proc' = [proc EXCEPT ![p] = r]
    BY <1>1 DEF Become
  <2>2. proc = [q \in Procs |-> proc[q]]
    BY DEF TrainInv, ProcsSound
  <2>3. QED
    BY <2>1, <2>2
<1>4. \A q \in Procs : Sound(q, proc'[q])
  BY <1>1, <1>3 DEF Proper, TrainInv, ProcsSound
<1>5. \A q \in Procs : Sound(q, proc[q])' <=> Sound(q, proc'[q])
  BY DEF Sound, Settled, TwoGroups
<1>6. ProcsSound'
  BY <1>2, <1>3, <1>4, <1>5 DEF ProcsSound
<1>7. \A q \in Procs : Ahead(proc[q])' = Ahead(proc'[q])
  BY DEF Ahead, First, Iteration
<1>8. ASSUME NEW q \in Procs, Joint(proc'[q])
      PROVE  Joint(proc[q]) /\ Ahead(proc'[q]) = Ahead(proc[q])
  BY <1>1, <1>3, <1>8 DEF Proper
<1>9. Lockstep'
  BY <1>2, <1>7, <1>8 DEF Lockstep, Joint, TrainInv
<1>10. QED
  BY <1>6, <1>9

\* A process that is launched is sound, and so is one that has ended.
LEMMA LaunchedIsSound ==
    ASSUME script \in Scripts, NEW p
    PROVE  Sound(p, Process(script))
<1> DEFINE r == Process(script)
<1>1. r.todo = script.setup \o script.body /\ r.dist = TRUE /\ r.iter = 0
  BY DEF Process
<1>2. /\ Todo(script, r.todo)
      /\ r.todo[1] \in {"rank?", "many?", "init"}
      /\ TwoGroups => r.todo[1] = "init" /\ r.todo[2] = "rank?"
  <2> DEFINE u == script.setup \o script.body
  <2>1. script.setup[1] \in {"rank?", "many?", "init"}
    BY ScriptParts
  <2>2. TwoGroups => script.setup[1] = "init" /\ script.setup[2] = "rank?"
    BY DEF TwoGroups
  <2>3. /\ Todo(script, u)
        /\ u[1] = script.setup[1]
        /\ script.setup[1] = "init" /\ script.setup[2] = "rank?" => u[2] = "rank?"
    BY Starting
  <2>4. r.todo = u
    BY <1>1
  <2> HIDE DEF u, r
  <2>5. QED
    BY <2>1, <2>2, <2>3, <2>4
<1>3. NoLoss \in 1..NoLoss
  BY TrainingAssumption DEF NoLoss
<1>4. r \in ProcessType
  BY <1>1, <1>2, <1>3 DEF Process, ProcessType, Todo, Part
<1>5. script.last \in Nat
  BY ScriptParts
<1> HIDE DEF r
<1>6. Settled(p, r)
  <2>1. r.todo[1] \notin {"val", "best", "open", "write", "save", "destroy", "exit"}
    BY <1>2
  <2>2. r.iter <= script.last
    BY <1>1, <1>5
  <2>3. TwoGroups => r.todo[1] # "rank?" /\ (r.todo[1] = "init" => r.todo[2] # "local")
    BY <1>2
  <2>4. r.dist
    BY <1>1
  <2>5. QED
    BY <2>1, <2>2, <2>3, <2>4 DEF Settled
<1>7. QED
  BY <1>2, <1>4, <1>6 DEF Sound, r

\* A process that ends.
LEMMA EndMoves ==
    ASSUME script \in Scripts, NEW p, NEW how \in {"done", "failed"}, Ends(p, how)
    PROVE  Moves(p)
<1> DEFINE r == [Process(script) EXCEPT !.state = how]
<1>1. Sound(p, Process(script))
  BY LaunchedIsSound
<1>2. r.state = how /\ r.todo = Process(script).todo /\ r.dist = Process(script).dist
      /\ r.member = Process(script).member /\ r.iter = Process(script).iter
  BY DEF Process
<1>3. r \in ProcessType
  BY <1>1 DEF Sound, ProcessType
<1> HIDE DEF r
<1>4. Sound(p, r)
  BY <1>1, <1>2, <1>3 DEF Sound, Settled
<1>5. ~Joint(r)
  BY <1>2 DEF Joint
<1>6. QED
  BY <1>4, <1>5 DEF Moves, Proper, Ends, r

\* A process that goes on to its next instruction.
LEMMA RestSound ==
    ASSUME TrainInv, NEW p \in Procs, At(p) \notin {"next", "exit"},
           NEW r \in ProcessType,
           r.todo = Tail(proc[p].todo),
           r.iter = proc[p].iter,
           At(p) = "init" => r.member,
           At(p) # "destroy" /\ proc[p].member => r.member,
           r.dist => proc[p].dist,
           ~r.dist => ~proc[p].dist \/ (At(p) = "agent" /\ agent[p] = "norank")
    PROVE  Sound(p, r) /\ Follows(script, At(p), r.todo[1])
<1> DEFINE t == proc[p].todo
           x == t[1]
           y == r.todo[1]
<1>1. Sound(p, proc[p]) /\ x = At(p)
  BY DEF TrainInv, ProcsSound, At
<1>2. Todo(script, t) /\ x \notin {"next", "exit"}
  BY <1>1 DEF Sound
<1> HIDE DEF t
<1>3. r.todo = Tail(t)
  BY DEF t
<1>4. Todo(script, r.todo) /\ Follows(script, x, y) /\ y = t[2]
  BY <1>2, <1>3, RestIsTodo
<1>5. Settled(p, proc[p])
  BY <1>1 DEF Sound
<1>6. proc[p].todo[1] = x
  BY DEF t
<1> HIDE DEF x, y
<1>7. ~r.dist => y \notin Settings /\ (p = 0 \/ agent[p] = "norank")
  <2>1. x \notin Settings \/ x = "agent" => y \notin Settings
    BY <1>4 DEF Follows, Settings
  <2>2. QED
    BY <1>1, <1>5, <1>6, <2>1 DEF Settled
<1>8. y \in {"val", "best", "open", "write"} => p = 0 \/ ~r.dist
  <2>1. y \in {"val", "best", "open", "write"} => x \in {"val", "open"}
    BY <1>4 DEF Follows
  <2>2. QED
    BY <1>5, <1>6, <2>1 DEF Settled
<1>9. ASSUME TwoGroups
      PROVE  /\ y = "rank?" => r.member
             /\ y = "init" => r.member
  <2>1. y = "rank?" => x = "init"
    BY <1>4 DEF Follows
  <2>2. y = "init" => x = "rank?"
    BY <1>4, <1>9 DEF Follows, TwoGroups
  <2>3. QED
    BY <1>1, <1>5, <1>6, <1>9, <2>1, <2>2 DEF Settled
<1>10. y \in Early => r.iter <= script.last
  <2>1. y \in Early => x \in Early
    BY <1>4 DEF Follows, Early, Settings
  <2>2. QED
    BY <1>5, <1>6, <2>1 DEF Settled
<1>11. y \in {"open", "write", "save", "destroy", "exit"} => r.iter > 0
  <2>1. y \in {"open", "write", "save", "destroy", "exit"} =>
            x \in {"open", "write", "save", "destroy"}
    BY <1>4 DEF Follows
  <2>2. QED
    BY <1>5, <1>6, <2>1 DEF Settled
<1>12. Settled(p, r)
  BY <1>7, <1>8, <1>9, <1>10, <1>11 DEF Settled, y
<1>13. QED
  BY <1>1, <1>4, <1>12 DEF Sound, y

\* The rest of what a process has to do, if it is not the last of it.
LEMMA RestTyped ==
    ASSUME TrainInv, NEW p \in Procs, At(p) \notin {"next", "exit"}
    PROVE  /\ proc[p] \in ProcessType
           /\ Tail(proc[p].todo) \in Seq(Instructions)
           /\ Rest(p) = [proc[p] EXCEPT !.todo = Tail(proc[p].todo)]
           /\ Rest(p) \in ProcessType
<1> DEFINE t == proc[p].todo
<1>1. proc[p] \in ProcessType /\ Todo(script, t)
  BY DEF TrainInv, ProcsSound, Sound
<1>2. Rest(p) = [proc[p] EXCEPT !.todo = Tail(t)]
  BY DEF Rest
<1> DEFINE u == Tail(t)
<1>3. u \in Seq(Instructions)
  <2>1. t[1] \notin {"next", "exit"}
    BY DEF At
  <2> HIDE DEF t
  <2>2. Todo(script, u)
    BY <1>1, <2>1, RestIsTodo
  <2>3. QED
    BY <2>2 DEF Todo, Part
<1> HIDE DEF u
<1>4. [proc[p] EXCEPT !.todo = u] \in ProcessType
  BY <1>1, <1>3 DEF ProcessType
<1>5. QED
  BY <1>1, <1>2, <1>3, <1>4 DEF u

\* ... and the same of a process that changes nothing else.
LEMMA RestMoves ==
    ASSUME TrainInv, NEW p \in Procs, proc[p].state = "run",
           At(p) \notin {"next", "exit", "init", "barrier", "ddpcpu", "backward", "step"},
           At(p) = "ddp" => ~proc[p].dist,
           At(p) = "forward" => ~proc[p].dist \/ ~script.buffers,
           At(p) = "check" => ~proc[p].bad,
           Become(p, Rest(p))
    PROVE  Moves(p)
<1> DEFINE r == Rest(p)
<1>1. proc[p] \in ProcessType /\ r \in ProcessType
  BY RestTyped
<1>2. /\ r.state = "run" /\ r.todo = Tail(proc[p].todo) /\ r.iter = proc[p].iter
      /\ r.member = proc[p].member /\ r.dist = proc[p].dist
      /\ r.updates = proc[p].updates /\ r.bad = proc[p].bad
  BY <1>1 DEF Rest, ProcessType
<1> HIDE DEF r
<1>3. Sound(p, r) /\ Follows(script, At(p), r.todo[1])
  BY <1>1, <1>2, RestSound
<1>4. r.dist => Ahead(r) = Ahead(proc[p])
  BY <1>2, <1>3 DEF At, Follows, Ahead, First
<1>5. QED
  BY <1>2, <1>3, <1>4 DEF Moves, Proper, Joint, r

\* A process that begins an iteration.
LEMMA BodySound ==
    ASSUME script \in Scripts, NEW p,
           NEW r \in ProcessType,
           r.todo = script.body,
           r.iter <= script.last,
           ~r.dist => p = 0 \/ agent[p] = "norank"
    PROVE  /\ Sound(p, r)
           /\ Ahead(r) = <<First, r.iter, r.updates>>
<1>1. Todo(script, r.todo) /\ r.todo[1] \in {"batch", "forward"}
  BY ScriptParts
<1>2. Settled(p, r)
  BY <1>1 DEF Settled, Settings
<1>3. QED
  BY <1>1, <1>2 DEF Sound, Ahead

\* The actions of a process by itself, one by one.
LEMMA SetUpRankMoves ==
    ASSUME TrainInv, NEW p, SetUpRank(p)
    PROVE  p \in Procs /\ Moves(p)
<1>1. /\ p \in Procs /\ proc[p].state = "run"
      /\ At(p) \in {"rank?", "many?"}
  BY DEF SetUpRank, Is
<1>2. PICK alone \in BOOLEAN :
        /\ alone => env = {} \/ N = 1
        /\ Become(p, IF alone THEN [proc[p] EXCEPT !.todo = script.body, !.dist = FALSE]
                              ELSE Rest(p))
  <2>1. CASE At(p) = "rank?"
    BY <2>1 DEF SetUpRank
  <2>2. CASE At(p) = "many?"
    BY <2>2 DEF SetUpRank
  <2>3. QED
    BY <1>1, <2>1, <2>2
<1>3. CASE ~alone
  <2>1. Become(p, Rest(p))
    BY <1>2, <1>3
  <2>2. QED
    BY <1>1, <2>1, RestMoves
<1>4. CASE alone
  <2> DEFINE r == [proc[p] EXCEPT !.todo = script.body, !.dist = FALSE]
  <2>1. script \in Scripts /\ env \in Environments /\ Sound(p, proc[p])
    BY <1>1 DEF TrainInv, Types, ProcsSound
  <2>2. p = 0
    BY <1>1, <1>2, <1>4, <2>1, ProcsFact
  <2>3. script.body \in Seq(Instructions)
    BY <2>1, ScriptParts DEF Todo, Part
  <2>4. /\ r \in ProcessType
        /\ r.todo = script.body /\ r.iter = proc[p].iter /\ r.dist = FALSE
    BY <2>1, <2>3 DEF Sound, ProcessType
  <2>5. proc[p].iter <= script.last
    BY <1>1, <2>1 DEF Sound, Settled, Early, Settings, At
  <2>6. Become(p, r)
    BY <1>2, <1>4
  <2> HIDE DEF r
  <2>7. Sound(p, r)
    BY <2>1, <2>2, <2>4, <2>5, BodySound
  <2>8. QED
    BY <1>1, <2>4, <2>6, <2>7 DEF Moves, Proper, Joint
<1>5. QED
  BY <1>2, <1>3, <1>4

\* The other settings: a process goes on, alone where it has no rank, or fails.
LEMMA SetUpMoves ==
    ASSUME TrainInv, NEW p, SetUp(p)
    PROVE  p \in Procs /\ Moves(p)
<1>1. script \in Scripts
  BY DEF TrainInv, Types
<1>2. CASE SetUpRank(p)
  BY <1>2, SetUpRankMoves
<1>3. CASE InitRaises(p)
  <2>1. p \in Procs /\ Ends(p, "failed")
    BY <1>3 DEF InitRaises, Is, Fails
  <2>2. QED
    BY <1>1, <2>1, EndMoves
<1>4. CASE ReadLocalRank(p)
  <2>1. p \in Procs /\ proc[p].state = "run" /\ At(p) = "local"
    BY <1>4 DEF ReadLocalRank, Is
  <2>2. Become(p, Rest(p)) \/ Ends(p, "failed")
    BY <1>4 DEF ReadLocalRank, Fails
  <2>3. QED
    BY <1>1, <2>1, <2>2, RestMoves, EndMoves
<1>5. CASE FetchEnvVars(p)
  <2>1. p \in Procs /\ proc[p].state = "run" /\ At(p) = "agent"
    BY <1>5 DEF FetchEnvVars, Is
  <2>2. agent[p] \in {"down", "norank", "rank"}
    BY <2>1 DEF TrainInv, Types
  <2>3. CASE agent[p] = "down"
    <3>1. Ends(p, "failed")
      BY <1>5, <2>3 DEF FetchEnvVars, Fails
    <3>2. QED
      BY <1>1, <2>1, <3>1, EndMoves
  <2>4. CASE agent[p] = "rank"
    <3>1. Become(p, Rest(p))
      BY <1>5, <2>4 DEF FetchEnvVars
    <3>2. QED
      BY <2>1, <3>1, RestMoves
  <2>5. CASE agent[p] = "norank"
    <3> DEFINE r == [Rest(p) EXCEPT !.dist = FALSE]
    <3>1. Become(p, r)
      BY <1>5, <2>5 DEF FetchEnvVars
    <3>2. proc[p] \in ProcessType /\ Rest(p) \in ProcessType
      BY <2>1, RestTyped
    <3>3. /\ r \in ProcessType
          /\ r.todo = Tail(proc[p].todo) /\ r.iter = proc[p].iter
          /\ r.member = proc[p].member /\ r.dist = FALSE
      BY <3>2 DEF Rest, ProcessType
    <3> HIDE DEF r
    <3>4. Sound(p, r)
      BY <2>1, <2>5, <3>3, RestSound
    <3>5. QED
      BY <2>1, <3>1, <3>3, <3>4 DEF Moves, Proper, Joint
  <2>6. QED
    BY <2>2, <2>3, <2>4, <2>5
<1>6. CASE WrapCpu(p)
  <2>1. p \in Procs /\ Ends(p, "failed")
    BY <1>6 DEF WrapCpu, Is, Fails
  <2>2. QED
    BY <1>1, <2>1, EndMoves
<1>7. QED
  BY <1>2, <1>3, <1>4, <1>5, <1>6 DEF SetUp

\* A process that puts other instructions, a, before those it has left.
LEMMA InsteadMoves ==
    ASSUME TrainInv, NEW p \in Procs, proc[p].state = "run",
           At(p) \in {"evaluate", "best", "save"},
           NEW a, Part(script, a),
           a[1] \in {"val", "open"},
           a[Len(a)] = IF a[1] = "val" THEN "best" ELSE "write",
           a[1] = "val" => At(p) = "evaluate",
           Master(p),
           a[1] = "open" => proc[p].iter > 0,
           NEW r \in ProcessType,
           r.todo = Instead(p, a),
           r.state = "run", r.dist = proc[p].dist, r.member = proc[p].member,
           r.iter = proc[p].iter, r.updates = proc[p].updates,
           Become(p, r)
    PROVE  Moves(p)
<1> DEFINE t == proc[p].todo
           u == Tail(t)
<1>1. Sound(p, proc[p]) /\ At(p) = t[1]
  BY DEF TrainInv, ProcsSound, At
<1>2. Todo(script, t) /\ t[1] \in {"evaluate", "best", "save"}
  BY <1>1 DEF Sound
<1>3. r.todo = a \o u
  BY DEF Instead
<1> HIDE DEF t
<1>4. Todo(script, u) /\ Follows(script, t[1], u[1])
  BY <1>2, RestIsTodo
<1> HIDE DEF u
<1>5. u[1] = IF t[1] = "save" THEN "exit" ELSE "next"
  BY <1>2, <1>4 DEF Follows
<1>6. Follows(script, a[Len(a)], u[1])
  BY <1>1, <1>5 DEF Follows
<1>7. Part(script, u)
  BY <1>4 DEF Todo
<1>8. Joins(script, a, u, r.todo)
  BY <1>3, <1>6, <1>7, Joined
<1>9. Todo(script, r.todo) /\ r.todo[1] = a[1]
  BY <1>4, <1>8 DEF Joins, Todo
<1>10. Settled(p, r)
  BY <1>1, <1>9 DEF Sound, Settled, Settings, Early, Master, At
<1>11. Ahead(r) = Ahead(proc[p])
  <2>1. Ahead(r) = Iteration(r.iter + 1, r.updates)
    BY <1>9 DEF Ahead
  <2>2. Ahead(proc[p]) = Iteration(proc[p].iter + 1, proc[p].updates)
    BY DEF Ahead, At
  <2>3. QED
    BY <2>1, <2>2
<1>12. QED
  BY <1>9, <1>10, <1>11 DEF Moves, Proper, Sound, Joint

\* The evaluation: forward passes, then the comparison with the best loss.
Evaluation == [i \in 1..EvalIters |-> "val"] \o <<"best">>

\* ... is a part of a script whose model has no buffers.
LEMMA EvaluationIsPart ==
    ASSUME NEW s, ~s.buffers
    PROVE  /\ Part(s, Evaluation)
           /\ Evaluation[1] = "val"
           /\ Evaluation[Len(Evaluation)] = "best"
<1> DEFINE a == [i \in 1..EvalIters |-> "val"]
           b == <<"best">>
           c == a \o b
<1>1. EvalIters \in Nat /\ EvalIters >= 1
  BY TrainingAssumption
<1>2. /\ a \in Seq(Instructions) /\ Len(a) = EvalIters
      /\ \A i \in 1..EvalIters : a[i] = "val"
  BY <1>1 DEF Instructions
<1>3. b \in Seq(Instructions) /\ Len(b) = 1 /\ b[1] = "best" /\ b # <<>>
  BY DEF Instructions
<1>4. c = a \o b
  OBVIOUS
<1>5. c = Evaluation
  BY DEF Evaluation
<1> HIDE DEF a, b, c
<1>6. a # <<>> /\ a[1] = "val" /\ a[Len(a)] = "val"
  BY <1>1, <1>2, EmptySeq
<1>7. \A i \in 1 .. Len(a) - 1 : Follows(s, a[i], a[i + 1])
  <2>1. ASSUME NEW i \in 1 .. Len(a) - 1 PROVE a[i] = "val" /\ a[i + 1] = "val"
    BY <1>1, <1>2
  <2>2. QED
    BY <2>1 DEF Follows
<1>8. Part(s, a)
  BY <1>2, <1>6, <1>7 DEF Part
<1>9. Part(s, b)
  BY <1>3 DEF Part
<1>10. Follows(s, a[Len(a)], b[1])
  BY <1>3, <1>6 DEF Follows
<1>11. Joins(s, a, b, c)
  BY <1>4, <1>8, <1>9, <1>10, Joined
<1>12. QED
  BY <1>3, <1>5, <1>6, <1>11 DEF Joins

\* torch.save: the file is truncated, then written.
LEMMA SavingIsPart ==
    ASSUME NEW s
    PROVE  LET a == <<"open", "write">> IN
           Part(s, a) /\ a[1] = "open" /\ a[Len(a)] = "write"
  BY DEF Part, Follows, Instructions

\* The first half of an iteration, for a process that waits for no other.
LEMMA IterateMoves ==
    ASSUME TrainInv, NEW p, GetBatch(p) \/ Forward(p) \/ Backward(p)
    PROVE  p \in Procs /\ Moves(p)
<1>1. script \in Scripts
  BY DEF TrainInv, Types
<1>2. CASE GetBatch(p)
  <2>1. p \in Procs /\ proc[p].state = "run" /\ At(p) = "batch"
    BY <1>2 DEF GetBatch, Is
  <2>2. Become(p, Rest(p)) \/ Ends(p, "failed")
    BY <1>2 DEF GetBatch, Fails
  <2>3. QED
    BY <1>1, <2>1, <2>2, RestMoves, EndMoves
<1>3. CASE Forward(p)
  <2>1. /\ p \in Procs /\ proc[p].state = "run"
        /\ At(p) \in {"forward", "val", "ddp"}
        /\ ~Collective(p, At(p))
        /\ Become(p, Rest(p))
    BY <1>3 DEF Forward, Is, Waits
  <2>2. At(p) = "ddp" => ~proc[p].dist
    BY <2>1 DEF Collective
  <2>3. At(p) = "forward" => ~proc[p].dist \/ ~script.buffers
    BY <2>1 DEF Collective, HasBuffers
  <2>4. QED
    BY <2>1, <2>2, <2>3, RestMoves
<1>4. CASE Backward(p)
  <2>1. p \in Procs /\ proc[p].state = "run" /\ At(p) = "backward" /\ ~Collective(p, At(p))
    BY <1>4 DEF Backward, Is, Waits
  <2>2. ~proc[p].dist
    BY <2>1 DEF Collective
  <2>3. PICK nan : proc' = [q \in Procs |-> IF q \in {p}
                                              THEN [Rest(q) EXCEPT !.bad = Averaged(nan, q)]
                                              ELSE proc[q]]
    BY <1>4 DEF Backward, NaNs
  <2> DEFINE r == [Rest(p) EXCEPT !.bad = Averaged(nan, p)]
  <2>4. Averaged(nan, p) \in BOOLEAN
    BY DEF Averaged
  <2>5. proc[p] \in ProcessType /\ Rest(p) \in ProcessType
    BY <2>1, RestTyped
  <2>6. /\ r \in ProcessType
        /\ r.todo = Tail(proc[p].todo) /\ r.iter = proc[p].iter
        /\ r.member = proc[p].member /\ r.dist = proc[p].dist
    BY <2>4, <2>5 DEF Rest, ProcessType
  <2>7. proc' = [q \in Procs |-> IF q = p THEN r ELSE proc[q]]
    BY <2>3
  <2> HIDE DEF r
  <2>8. Become(p, r)
    <3>1. proc = [q \in Procs |-> proc[q]]
      BY DEF TrainInv, ProcsSound
    <3>2. QED
      BY <2>7, <3>1 DEF Become
  <2>9. Sound(p, r)
    BY <2>1, <2>2, <2>6, RestSound
  <2>10. QED
    BY <2>1, <2>2, <2>6, <2>8, <2>9 DEF Moves, Proper, Joint
<1>5. QED
  BY <1>2, <1>3, <1>4

\* An iteration with a NaN is begun anew; the others get their update.
LEMMA GradientsMove ==
    ASSUME TrainInv, NEW p, CheckGradients(p) \/ OptimizerStep(p)
    PROVE  p \in Procs /\ Moves(p)
<1>1. script \in Scripts
  BY DEF TrainInv, Types
<1>2. p \in Procs /\ proc[p].state = "run" /\ At(p) \in {"check", "step"}
  BY DEF CheckGradients, OptimizerStep, Is
<1>3. Sound(p, proc[p]) /\ proc[p] \in ProcessType
  BY <1>2 DEF TrainInv, ProcsSound, Sound
<1>4. CASE CheckGradients(p) /\ ~proc[p].bad
  <2>1. Become(p, Rest(p)) /\ At(p) = "check"
    BY <1>4 DEF CheckGradients, Is
  <2>2. QED
    BY <1>2, <1>4, <2>1, RestMoves
<1>5. CASE CheckGradients(p) /\ proc[p].bad
  <2> DEFINE r == [proc[p] EXCEPT !.todo = script.body, !.bad = FALSE]
  <2>1. Become(p, r) /\ At(p) = "check"
    BY <1>5 DEF CheckGradients, Is
  <2>2. script.body \in Seq(Instructions)
    BY <1>1, ScriptParts DEF Todo, Part
  <2>3. /\ r \in ProcessType
        /\ r.todo = script.body /\ r.iter = proc[p].iter /\ r.dist = proc[p].dist
        /\ r.updates = proc[p].updates
    BY <1>3, <2>2 DEF ProcessType
  <2>4. /\ proc[p].iter <= script.last
        /\ ~proc[p].dist => p = 0 \/ agent[p] = "norank"
    BY <1>3, <2>1 DEF Sound, Settled, Early, At
  <2> HIDE DEF r
  <2>5. Sound(p, r) /\ Ahead(r) = <<First, r.iter, r.updates>>
    BY <1>1, <2>3, <2>4, BodySound
  <2>6. Ahead(proc[p]) = <<First, proc[p].iter, proc[p].updates>>
    BY <1>5, <2>1 DEF Ahead, At
  <2>7. QED
    BY <1>2, <2>1, <2>3, <2>5, <2>6 DEF Moves, Proper, Joint
<1>6. CASE OptimizerStep(p)
  <2> DEFINE r == [Rest(p) EXCEPT !.updates = @ + 1, !.bad = FALSE]
  <2>1. Become(p, r) /\ At(p) = "step"
    BY <1>6 DEF OptimizerStep, Is
  <2>2. Rest(p) \in ProcessType
    BY <1>2, RestTyped
  <2>3. /\ r \in ProcessType
        /\ r.todo = Tail(proc[p].todo) /\ r.iter = proc[p].iter /\ r.dist = proc[p].dist
        /\ r.member = proc[p].member /\ r.updates = proc[p].updates + 1
    <3> DEFINE n == proc[p].updates + 1
    <3>1. n \in Nat
      BY <1>3 DEF ProcessType
    <3>2. r = [Rest(p) EXCEPT !.updates = n, !.bad = FALSE]
      BY DEF Rest
    <3> HIDE DEF n, r
    <3>3. /\ r \in ProcessType
          /\ r.todo = Tail(proc[p].todo) /\ r.iter = proc[p].iter /\ r.dist = proc[p].dist
          /\ r.member = proc[p].member /\ r.updates = n
      BY <1>3, <2>2, <3>1, <3>2 DEF Rest, ProcessType
    <3>4. QED
      BY <3>3 DEF n
  <2> HIDE DEF r
  <2>4. Sound(p, r) /\ Follows(script, "step", r.todo[1])
    BY <1>2, <2>1, <2>3, RestSound
  <2>5. r.todo[1] \in {"evaluate", "next"}
    BY <2>4 DEF Follows
  <2>6. Ahead(r) = Iteration(r.iter + 1, r.updates)
    BY <2>5 DEF Ahead
  <2>7. Ahead(proc[p]) = Iteration(proc[p].iter + 1, proc[p].updates + 1)
    BY <2>1 DEF Ahead, At
  <2>8. QED
    BY <1>2, <2>1, <2>3, <2>4, <2>6, <2>7 DEF Moves, Proper, Joint
<1>7. QED
  BY <1>4, <1>5, <1>6

\* An iteration is counted, and another begun if there is one.
LEMMA NextMoves ==
    ASSUME TrainInv, NEW p, NextIteration(p)
    PROVE  p \in Procs /\ Moves(p)
<1> DEFINE more == ~(proc[p].iter + 1 > script.last)
           todo == IF more THEN script.body ELSE script.tail
           r    == [proc[p] EXCEPT !.iter = @ + 1, !.todo = todo]
<1>1. p \in Procs /\ proc[p].state = "run" /\ At(p) = "next" /\ Become(p, r)
  BY DEF NextIteration, Is
<1>2. script \in Scripts /\ Sound(p, proc[p]) /\ proc[p] \in ProcessType
  BY <1>1 DEF TrainInv, Types, ProcsSound, Sound
<1>3. /\ Todo(script, script.body) /\ Todo(script, script.tail)
      /\ script.tail[1] \in {"save", "destroy"}
      /\ script.last \in Nat
  BY <1>2, ScriptParts
<1>4. todo \in Seq(Instructions)
  BY <1>3 DEF Todo, Part
<1>5. /\ r \in ProcessType
      /\ r.todo = todo /\ r.iter = proc[p].iter + 1 /\ r.dist = proc[p].dist
      /\ r.updates = proc[p].updates
      /\ proc[p].iter \in Nat
  <2> DEFINE n == proc[p].iter + 1
  <2>1. proc[p].iter \in Nat /\ n \in Nat
    BY <1>2 DEF ProcessType
  <2>2. r = [proc[p] EXCEPT !.iter = n, !.todo = todo]
    OBVIOUS
  <2> HIDE DEF n, r, todo
  <2>3. /\ r \in ProcessType
        /\ r.todo = todo /\ r.iter = n /\ r.dist = proc[p].dist
        /\ r.updates = proc[p].updates
    BY <1>2, <1>4, <2>1, <2>2 DEF ProcessType
  <2>4. QED
    BY <2>1, <2>3 DEF n
<1> HIDE DEF r
<1>6. ~proc[p].dist => p = 0 \/ agent[p] = "norank"
  BY <1>2 DEF Sound, Settled
<1>7. Ahead(proc[p]) = Iteration(proc[p].iter + 1, proc[p].updates)
  BY <1>1 DEF Ahead, At
<1>8. CASE more
  <2>1. Sound(p, r) /\ Ahead(r) = <<First, r.iter, r.updates>>
    <3>1. /\ r.todo = script.body
          /\ r.iter <= script.last
          /\ ~r.dist => p = 0 \/ agent[p] = "norank"
      BY <1>3, <1>5, <1>6, <1>8
    <3>2. QED
      BY <1>2, <1>5, <3>1, BodySound
  <2>2. QED
    BY <1>1, <1>3, <1>5, <1>7, <1>8, <2>1 DEF Moves, Proper, Joint, Iteration
<1>9. CASE ~more
  <2>1. r.todo = script.tail
    BY <1>5, <1>9
  <2>2. Settled(p, r)
    BY <1>3, <1>5, <1>6, <2>1 DEF Settled, Settings, Early
  <2>3. Sound(p, r)
    BY <1>3, <1>5, <2>1, <2>2 DEF Sound
  <2>4. Ahead(r) = Iteration(r.iter + 1, r.updates)
    BY <1>3, <2>1 DEF Ahead
  <2>5. Ahead(r) = Ahead(proc[p])
    BY <1>3, <1>5, <1>7, <1>9, <2>4 DEF Iteration
  <2>6. QED
    BY <1>1, <1>5, <2>3, <2>5 DEF Moves, Proper, Joint
<1>10. QED
  BY <1>8, <1>9

\* The master evaluates; its forward passes are no collectives.
LEMMA EvaluateMoves ==
    ASSUME TrainInv, NEW p, Evaluate(p)
    PROVE  p \in Procs /\ Moves(p)
<1>1. p \in Procs /\ proc[p].state = "run" /\ At(p) = "evaluate"
  BY DEF Evaluate, Is
<1>2. CASE Master(p) /\ proc[p].iter % EvalInterval = 0
  <2> DEFINE a == Evaluation
             t == Instead(p, a)
             r == [proc[p] EXCEPT !.todo = t]
  <2>1. Become(p, r)
    BY <1>2 DEF Evaluate, Goes, Evaluation
  <2>2. proc[p] \in ProcessType /\ Todo(script, proc[p].todo)
    BY <1>1 DEF TrainInv, ProcsSound, Sound
  <2>3. ~script.buffers
    <3>1. 1 \in 1 .. Len(proc[p].todo)
      BY <2>2, EmptySeq, LenProperties DEF Todo, Part
    <3>2. QED
      BY <1>1, <2>2, <3>1 DEF Todo, Part, At
  <2>4. Part(script, a) /\ a[1] = "val" /\ a[Len(a)] = "best"
    BY <2>3, EvaluationIsPart
  <2> HIDE DEF a
  <2>5. Tail(proc[p].todo) \in Seq(Instructions)
    BY <1>1, RestTyped
  <2>6. t \in Seq(Instructions)
    BY <2>4, <2>5, ConcatProperties DEF Part, Instead
  <2> HIDE DEF t
  <2>7. /\ r \in ProcessType
        /\ r.todo = t /\ r.state = "run" /\ r.dist = proc[p].dist
        /\ r.member = proc[p].member /\ r.iter = proc[p].iter /\ r.updates = proc[p].updates
    BY <1>1, <2>2, <2>6 DEF ProcessType
  <2>8. r.todo = Instead(p, a)
    BY <2>7 DEF t
  <2> HIDE DEF r
  <2>9. QED
    BY <1>1, <1>2, <2>1, <2>4, <2>7, <2>8, InsteadMoves
<1>3. CASE ~(Master(p) /\ proc[p].iter % EvalInterval = 0)
  <2>1. Become(p, Rest(p))
    BY <1>1, <1>3, RestTyped DEF Evaluate, Goes
  <2>2. QED
    BY <1>1, <2>1, RestMoves
<1>4. QED
  BY <1>2, <1>3

\* p saves the model, which has the loss given, as the master.
LEMMA SavingMoves ==
    ASSUME TrainInv, NEW p \in Procs, proc[p].state = "run", At(p) \in {"best", "save"},
           Master(p), proc[p].iter > 0,
           NEW loss \in 1..NoLoss,
           Become(p, [proc[p] EXCEPT !.best = loss, !.todo = Instead(p, <<"open", "write">>)])
    PROVE  Moves(p)
<1> DEFINE a == <<"open", "write">>
           t == Instead(p, a)
           r == [proc[p] EXCEPT !.best = loss, !.todo = t]
<1>1. proc[p] \in ProcessType
  BY DEF TrainInv, ProcsSound, Sound
<1>2. Part(script, a) /\ a[1] = "open" /\ a[Len(a)] = "write"
  BY SavingIsPart
<1> HIDE DEF a
<1>3. Tail(proc[p].todo) \in Seq(Instructions)
  BY RestTyped
<1>4. t \in Seq(Instructions)
  BY <1>2, <1>3, ConcatProperties DEF Part, Instead
<1>5. Become(p, r)
  BY DEF a
<1> HIDE DEF t
<1>6. /\ r \in ProcessType
      /\ r.todo = t /\ r.state = "run" /\ r.dist = proc[p].dist
      /\ r.member = proc[p].member /\ r.iter = proc[p].iter /\ r.updates = proc[p].updates
  BY <1>1, <1>4 DEF ProcessType
<1>7. r.todo = Instead(p, a)
  BY <1>6 DEF t
<1> HIDE DEF r
<1>8. QED
  BY <1>2, <1>5, <1>6, <1>7, InsteadMoves

\* The loss is compared with the best, and the model saved if it is less.
LEMMA BestMoves ==
    ASSUME TrainInv, NEW p, Best(p)
    PROVE  p \in Procs /\ Moves(p)
<1>1. p \in Procs /\ proc[p].state = "run" /\ At(p) = "best"
  BY DEF Best, Is
<1>2. Sound(p, proc[p]) /\ proc[p] \in ProcessType
  BY <1>1 DEF TrainInv, ProcsSound, Sound
<1>3. Master(p)
  BY <1>1, <1>2 DEF Sound, Settled, Master, At
<1>4. PICK loss \in 1..MaxLoss :
        Become(p, IF Improves(loss, proc[p].best)
                  THEN [proc[p] EXCEPT
                         !.best = loss,
                         !.todo = Instead(p, IF proc[p].iter > 0 THEN <<"open", "write">>
                                                                 ELSE <<>>)]
                  ELSE Rest(p))
  BY DEF Best
<1>5. loss \in 1..NoLoss
  BY TrainingAssumption DEF NoLoss
<1>6. CASE ~Improves(loss, proc[p].best)
  <2>1. Become(p, Rest(p))
    BY <1>4, <1>6
  <2>2. QED
    BY <1>1, <2>1, RestMoves
<1>7. CASE Improves(loss, proc[p].best) /\ proc[p].iter > 0
  <2>1. Become(p, [proc[p] EXCEPT !.best = loss, !.todo = Instead(p, <<"open", "write">>)])
    BY <1>4, <1>7
  <2>2. QED
    BY <1>1, <1>3, <1>5, <1>7, <2>1, SavingMoves
<1>8. CASE Improves(loss, proc[p].best) /\ ~(proc[p].iter > 0)
  <2> DEFINE u == Tail(proc[p].todo)
             r == [proc[p] EXCEPT !.best = loss, !.todo = u]
  <2>1. u \in Seq(Instructions)
    BY <1>1, RestTyped
  <2>2. Instead(p, <<>>) = u
    BY <2>1, ConcatEmptySeq DEF Instead
  <2>3. Become(p, r)
    BY <1>4, <1>8, <2>2
  <2> HIDE DEF u
  <2>4. /\ r \in ProcessType
        /\ r.todo = u /\ r.state = "run" /\ r.dist = proc[p].dist
        /\ r.member = proc[p].member /\ r.iter = proc[p].iter /\ r.updates = proc[p].updates
    BY <1>1, <1>2, <1>5, <2>1 DEF ProcessType
  <2>5. r.todo = Tail(proc[p].todo)
    BY <2>4 DEF u
  <2> HIDE DEF r
  <2>6. Sound(p, r) /\ Follows(script, "best", r.todo[1])
    BY <1>1, <2>4, <2>5, RestSound
  <2>7. Ahead(r) = Ahead(proc[p])
    <3>1. r.todo[1] = "next"
      BY <2>6 DEF Follows
    <3>2. Ahead(r) = Iteration(r.iter + 1, r.updates)
      BY <3>1 DEF Ahead
    <3>3. Ahead(proc[p]) = Iteration(proc[p].iter + 1, proc[p].updates)
      BY <1>1 DEF Ahead, At
    <3>4. QED
      BY <2>4, <3>2, <3>3
  <2>8. QED
    BY <1>1, <2>3, <2>4, <2>6, <2>7 DEF Moves, Proper, Joint
<1>9. QED
  BY <1>6, <1>7, <1>8

\* A script that saves once.
LEMMA SaveMoves ==
    ASSUME TrainInv, NEW p, Save(p)
    PROVE  p \in Procs /\ Moves(p)
<1>1. p \in Procs /\ proc[p].state = "run" /\ At(p) = "save"
  BY DEF Save, Is
<1>2. Sound(p, proc[p]) /\ proc[p] \in ProcessType
  BY <1>1 DEF TrainInv, ProcsSound, Sound
<1>3. CASE Master(p)
  <2> DEFINE t == Instead(p, <<"open", "write">>)
  <2>1. Become(p, [proc[p] EXCEPT !.todo = t])
    BY <1>3 DEF Save, Goes
  <2> HIDE DEF t
  <2>2. [proc[p] EXCEPT !.todo = t] = [proc[p] EXCEPT !.best = proc[p].best, !.todo = t]
    BY <1>2 DEF ProcessType
  <2>3. proc[p].best \in 1..NoLoss
    BY <1>2 DEF ProcessType
  <2>4. proc[p].iter > 0
    BY <1>1, <1>2 DEF Sound, Settled, At
  <2>5. Become(p, [proc[p] EXCEPT !.best = proc[p].best, !.todo = Instead(p, <<"open", "write">>)])
    BY <2>1, <2>2 DEF t
  <2>6. QED
    BY <1>1, <1>3, <2>3, <2>4, <2>5, SavingMoves
<1>4. CASE ~Master(p)
  <2>1. Become(p, Rest(p))
    BY <1>1, <1>4, RestTyped DEF Save, Goes
  <2>2. QED
    BY <1>1, <2>1, RestMoves
<1>5. QED
  BY <1>3, <1>4

\* torch.save and the end of a process.
LEMMA FinishMoves ==
    ASSUME TrainInv, NEW p, Finish(p)
    PROVE  p \in Procs /\ Moves(p)
<1>1. script \in Scripts
  BY DEF TrainInv, Types
<1>2. CASE Save(p)
  BY <1>2, SaveMoves
<1>3. CASE OpenCheckpoint(p) \/ WriteCheckpoint(p)
  <2>1. /\ p \in Procs /\ proc[p].state = "run" /\ At(p) \in {"open", "write"}
        /\ Become(p, Rest(p))
    BY <1>3 DEF OpenCheckpoint, WriteCheckpoint, Is
  <2>2. QED
    BY <2>1, RestMoves
<1>4. CASE Destroy(p)
  <2> DEFINE r == [Rest(p) EXCEPT !.member = FALSE]
  <2>1. p \in Procs /\ proc[p].state = "run" /\ At(p) = "destroy" /\ Become(p, r)
    BY <1>4 DEF Destroy, Is
  <2>2. Rest(p) \in ProcessType /\ proc[p] \in ProcessType
    BY <2>1, RestTyped
  <2>3. /\ r \in ProcessType
        /\ r.todo = Tail(proc[p].todo) /\ r.iter = proc[p].iter /\ r.dist = proc[p].dist
        /\ r.updates = proc[p].updates
    BY <2>2 DEF Rest, ProcessType
  <2> HIDE DEF r
  <2>4. Sound(p, r) /\ Follows(script, "destroy", r.todo[1])
    BY <2>1, <2>3, RestSound
  <2>5. Ahead(r) = Iteration(r.iter + 1, r.updates)
    BY <2>4 DEF Follows, Ahead
  <2>6. Ahead(proc[p]) = Iteration(proc[p].iter + 1, proc[p].updates)
    BY <2>1 DEF Ahead, At
  <2>7. QED
    BY <2>1, <2>3, <2>4, <2>5, <2>6 DEF Moves, Proper, Joint
<1>5. CASE Exit(p)
  <2>1. p \in Procs /\ Ends(p, "done")
    BY <1>5 DEF Exit, Is
  <2>2. QED
    BY <1>1, <2>1, EndMoves
<1>6. QED
  BY <1>2, <1>3, <1>4, <1>5 DEF Finish

\* A process alone moves properly, whatever it does.
LEMMA StepMoves ==
    ASSUME TrainInv, NEW p, SetUp(p) \/ Train(p) \/ Finish(p) \/ PeerLost(p) \/ Kill(p)
    PROVE  p \in Procs /\ Moves(p)
<1>1. CASE SetUp(p)
  BY <1>1, SetUpMoves
<1>2. CASE Train(p)
  BY <1>2, IterateMoves, GradientsMove, EvaluateMoves, BestMoves, NextMoves DEF Train
<1>3. CASE Finish(p)
  BY <1>3, FinishMoves
<1>4. CASE PeerLost(p) \/ Kill(p)
  <2>1. p \in Procs /\ Ends(p, "failed")
    BY <1>4 DEF PeerLost, Kill, Fails
  <2>2. QED
    BY <2>1, EndMoves DEF TrainInv, Types
<1>5. QED
  BY <1>1, <1>2, <1>3, <1>4

-----------------------------------------------------------------------------
(* A collective *)

\* Two distributed processes in the same collective have gone through as many
\* iterations and updates.
LEMMA MetTogether ==
    ASSUME TrainInv, NEW p \in Procs, NEW q \in Procs,
           Waits(p), Waits(q), At(p) = At(q), proc[p].dist, proc[q].dist
    PROVE  proc[p].iter = proc[q].iter /\ proc[p].updates = proc[q].updates
<1>1. Collective(p, At(p)) /\ At(p) \in {"init", "barrier", "ddp", "backward", "forward", "val"}
  BY DEF Waits, Collective
<1>2. At(p) \in {"forward", "val"} => script.buffers
  BY <1>1 DEF Collective, HasBuffers
<1>3. At(p) # "val"
  <2>1. Todo(script, proc[p].todo)
    BY DEF TrainInv, ProcsSound, Sound
  <2>2. 1 \in 1 .. Len(proc[p].todo)
    BY <2>1, EmptySeq, LenProperties DEF Todo, Part
  <2>3. QED
    BY <1>2, <2>1, <2>2 DEF Todo, Part, At
<1>4. Ahead(proc[p]) = Ahead(proc[q])
  BY DEF TrainInv, Lockstep, Joint, Waits
<1>5. ASSUME NEW r, r.todo[1] = At(p)
      PROVE  Ahead(r) = <<At(p), r.iter, r.updates>>
  BY <1>1, <1>2, <1>3, <1>5 DEF Ahead, First
<1>6. Ahead(proc[p]) = <<At(p), proc[p].iter, proc[p].updates>>
  BY <1>5 DEF At
<1>7. Ahead(proc[q]) = <<At(p), proc[q].iter, proc[q].updates>>
  BY <1>5 DEF At
<1>8. /\ Ahead(proc[p])[2] = proc[p].iter /\ Ahead(proc[p])[3] = proc[p].updates
      /\ Ahead(proc[q])[2] = proc[q].iter /\ Ahead(proc[q])[3] = proc[q].updates
  BY <1>6, <1>7
<1>9. QED
  BY <1>4, <1>8

\* ... and go on to the same one.
LEMMA GoOnTogether ==
    ASSUME TrainInv, NEW p \in Procs, NEW q \in Procs,
           Waits(p), Waits(q), At(p) = At(q), proc[p].dist, proc[q].dist,
           NEW r, r.todo = Tail(proc[p].todo),
           r.iter = proc[p].iter, r.updates = proc[p].updates,
           NEW s, s.todo = Tail(proc[q].todo),
           s.iter = proc[q].iter, s.updates = proc[q].updates,
           At(p) = "backward" => r.bad = s.bad
    PROVE  Ahead(r) = Ahead(s)
<1> DEFINE x == At(p)
           y == r.todo[1]
           z == s.todo[1]
<1>1. x \in {"init", "barrier", "ddp", "backward", "forward", "val"}
  BY DEF Waits, Collective
<1>2. r.iter = s.iter /\ r.updates = s.updates
  BY MetTogether
<1>3. Follows(script, x, y) /\ y = proc[p].todo[2]
  <2> DEFINE t == proc[p].todo
  <2>1. Todo(script, t) /\ t[1] = x
    BY DEF TrainInv, ProcsSound, Sound, At
  <2>2. r.todo = Tail(t)
    OBVIOUS
  <2>3. t[1] \notin {"next", "exit"}
    BY <1>1, <2>1
  <2> HIDE DEF t, x
  <2>4. Follows(script, t[1], Tail(t)[1]) /\ Tail(t)[1] = t[2]
    BY <2>1, <2>3, RestIsTodo
  <2>5. QED
    BY <2>1, <2>2, <2>4 DEF t
<1>4. Follows(script, x, z) /\ z = proc[q].todo[2]
  <2> DEFINE t == proc[q].todo
  <2>1. Todo(script, t) /\ t[1] = x
    BY DEF TrainInv, ProcsSound, Sound, At
  <2>2. s.todo = Tail(t)
    OBVIOUS
  <2>3. t[1] \notin {"next", "exit"}
    BY <1>1, <2>1
  <2> HIDE DEF t, x
  <2>4. Follows(script, t[1], Tail(t)[1]) /\ Tail(t)[1] = t[2]
    BY <2>1, <2>3, RestIsTodo
  <2>5. QED
    BY <2>1, <2>2, <2>4 DEF t
<1>5. script \in Scripts
  BY DEF TrainInv, Types
<1>6. CASE x = "init"
  <2>1. ~proc[p].member /\ ~proc[q].member
    BY <1>6 DEF Waits, Collective
  <2>2. TwoGroups => y # "local" /\ z # "local"
    BY <1>3, <1>4, <1>6, <2>1 DEF TrainInv, ProcsSound, Sound, Settled, At
  <2>3. y = z
    <3>1. Follows(script, "init", y) /\ Follows(script, "init", z)
      BY <1>3, <1>4, <1>6
    <3> HIDE DEF y, z
    <3>2. \/ y = z
          \/ TwoGroups /\ {y, z} \subseteq {"rank?", "local"}
      BY <1>5, <3>1, AfterInit DEF TwoGroups
    <3>3. QED
      BY <2>2, <3>2
  <2>4. y \in {"agent", "rank?", "local", "barrier", "ddp", "ddpcpu"}
    BY <1>3, <1>6 DEF Follows
  <2>5. QED
    BY <1>2, <2>3, <2>4 DEF Ahead
<1>7. CASE x = "barrier"
  <2>1. y = "local" /\ z = "local"
    BY <1>3, <1>4, <1>7 DEF Follows
  <2>2. QED
    BY <1>2, <2>1 DEF Ahead
<1>8. CASE x = "ddp"
  <2>1. y \in {"batch", "forward"} /\ z \in {"batch", "forward"}
    BY <1>3, <1>4, <1>8 DEF Follows
  <2>2. QED
    BY <1>2, <2>1 DEF Ahead
<1>9. CASE x = "forward"
  <2>1. y = "backward" /\ z = "backward"
    BY <1>3, <1>4, <1>9 DEF Follows
  <2>2. QED
    BY <1>2, <2>1 DEF Ahead
<1>10. CASE x = "backward"
  <2>1. y = z /\ y \in {"check", "step"}
    BY <1>3, <1>4, <1>10 DEF Follows
  <2>2. QED
    BY <1>2, <1>10, <2>1 DEF Ahead
<1>11. CASE x = "val"
  <2>1. y \in {"val", "best"} /\ z \in {"val", "best"}
    BY <1>3, <1>4, <1>11 DEF Follows
  <2>2. QED
    BY <1>2, <2>1 DEF Ahead
<1>12. QED
  BY <1>1, <1>6, <1>7, <1>8, <1>9, <1>10, <1>11

\* What the processes are after a collective.
LEMMA MeetGives ==
    ASSUME TrainInv, Meet
    PROVE  /\ \A p \in Procs : Waits(p) /\ At(p) = At(0)
           /\ At(0) \in {"init", "barrier", "ddp", "backward", "forward", "val"}
           /\ proc' = [p \in Procs |-> proc'[p]]
           /\ \A p \in Procs :
                /\ proc'[p] \in ProcessType
                /\ proc'[p].todo = Tail(proc[p].todo)
                /\ proc'[p].state = "run"
                /\ proc'[p].dist = proc[p].dist
                /\ proc'[p].best = proc[p].best
                /\ proc'[p].iter = proc[p].iter
                /\ proc'[p].updates = proc[p].updates
                /\ At(0) = "init" => proc'[p].member
                /\ proc[p].member => proc'[p].member
           /\ At(0) = "backward" => \A p, q \in Procs : proc'[p].bad = proc'[q].bad
<1>1. 0 \in Procs
  BY ProcsFact DEF TrainInv, Types
<1>2. \A p \in Procs : Waits(p) /\ At(p) = At(0)
  BY DEF Meet
<1>3. At(0) \in {"init", "barrier", "ddp", "backward", "forward", "val"}
  BY <1>1, <1>2 DEF Waits, Collective
<1>4. ASSUME NEW p \in Procs
      PROVE  /\ proc[p] \in ProcessType /\ Rest(p) \in ProcessType
             /\ proc[p].state = "run"
             /\ Rest(p).todo = Tail(proc[p].todo) /\ Rest(p).state = "run"
             /\ Rest(p).dist = proc[p].dist /\ Rest(p).iter = proc[p].iter
             /\ Rest(p).updates = proc[p].updates /\ Rest(p).member = proc[p].member
             /\ Rest(p).best = proc[p].best
  <2>1. proc[p] \in ProcessType /\ Rest(p) \in ProcessType
    BY <1>2, <1>3, RestTyped
  <2>2. proc[p].state = "run"
    BY <1>2 DEF Waits
  <2>3. QED
    BY <2>1, <2>2 DEF Rest, ProcessType
<1>5. CASE At(0) = "backward"
  <2>1. PICK nan \in SUBSET Procs :
          proc' = [p \in Procs |-> IF p \in Procs THEN [Rest(p) EXCEPT !.bad = Averaged(nan, p)]
                                                  ELSE proc[p]]
    BY <1>5 DEF Meet, NaNs
  <2>2. proc' = [p \in Procs |-> [Rest(p) EXCEPT !.bad = nan # {}]]
    BY <2>1 DEF Averaged
  <2>3. ASSUME NEW p \in Procs
        PROVE  /\ proc'[p] \in ProcessType
               /\ proc'[p].todo = Rest(p).todo /\ proc'[p].state = Rest(p).state
               /\ proc'[p].best = Rest(p).best
               /\ proc'[p].dist = Rest(p).dist /\ proc'[p].iter = Rest(p).iter
               /\ proc'[p].updates = Rest(p).updates /\ proc'[p].member = Rest(p).member
               /\ proc'[p].bad = (nan # {})
    <3>1. proc'[p] = [Rest(p) EXCEPT !.bad = nan # {}]
      BY <2>2
    <3>2. Rest(p) \in ProcessType
      BY <1>4
    <3>3. QED
      BY <3>1, <3>2 DEF ProcessType
  <2>4. proc' = [p \in Procs |-> proc'[p]]
    BY <2>2
  <2>5. QED
    BY <1>2, <1>3, <1>4, <1>5, <2>3, <2>4
<1>6. CASE At(0) # "backward"
  <2>1. proc' = [p \in Procs |-> [Rest(p) EXCEPT !.member = TRUE]]
    BY <1>6 DEF Meet
  <2>2. ASSUME NEW p \in Procs
        PROVE  /\ proc'[p] \in ProcessType
               /\ proc'[p].todo = Rest(p).todo /\ proc'[p].state = Rest(p).state
               /\ proc'[p].best = Rest(p).best
               /\ proc'[p].dist = Rest(p).dist /\ proc'[p].iter = Rest(p).iter
               /\ proc'[p].updates = Rest(p).updates /\ proc'[p].member
    <3>1. proc'[p] = [Rest(p) EXCEPT !.member = TRUE]
      BY <2>1
    <3>2. Rest(p) \in ProcessType
      BY <1>4
    <3>3. QED
      BY <3>1, <3>2 DEF ProcessType
  <2>3. proc' = [p \in Procs |-> proc'[p]]
    BY <2>1
  <2>4. QED
    BY <1>2, <1>3, <1>4, <1>6, <2>2, <2>3
<1>7. QED
  BY <1>5, <1>6

\* A collective keeps the processes sound and in lockstep.
LEMMA MeetKeeps ==
    ASSUME TrainInv, Meet, UNCHANGED <<script, env, agent>>
    PROVE  (ProcsSound /\ Lockstep)'
<1>1. Procs' = Procs
  BY DEF Procs, Launched, Ranks
<1>2. ASSUME NEW p \in Procs PROVE Sound(p, proc'[p])
  <2>1. /\ At(p) \notin {"next", "exit", "destroy", "agent"}
        /\ proc'[p] \in ProcessType
        /\ proc'[p].todo = Tail(proc[p].todo)
        /\ proc'[p].iter = proc[p].iter
        /\ proc'[p].dist = proc[p].dist
        /\ At(p) = "init" => proc'[p].member
        /\ proc[p].member => proc'[p].member
    BY MeetGives
  <2>2. QED
    BY <2>1, RestSound
<1>3. \A q \in Procs : Sound(q, proc[q])' <=> Sound(q, proc'[q])
  BY DEF Sound, Settled, TwoGroups
<1>4. ProcsSound'
  BY <1>1, <1>2, <1>3, MeetGives DEF ProcsSound
<1>5. ASSUME NEW p \in Procs, NEW q \in Procs, Joint(proc'[p]), Joint(proc'[q])
      PROVE  Ahead(proc'[p]) = Ahead(proc'[q])
  <2>1. /\ Waits(p) /\ Waits(q) /\ At(p) = At(q)
        /\ proc[p].dist /\ proc[q].dist
        /\ proc'[p].todo = Tail(proc[p].todo) /\ proc'[q].todo = Tail(proc[q].todo)
        /\ proc'[p].iter = proc[p].iter /\ proc'[q].iter = proc[q].iter
        /\ proc'[p].updates = proc[p].updates /\ proc'[q].updates = proc[q].updates
        /\ At(p) = "backward" => proc'[p].bad = proc'[q].bad
    BY <1>5, MeetGives DEF Joint
  <2>2. QED
    BY <2>1, GoOnTogether
<1>6. \A q \in Procs : Ahead(proc[q])' = Ahead(proc'[q])
  BY DEF Ahead, First, Iteration
<1>7. Lockstep'
  BY <1>1, <1>5, <1>6 DEF Lockstep, Joint
<1>8. QED
  BY <1>4, <1>7

-----------------------------------------------------------------------------
(* The invariant holds *)

\* What the actions of a process do to the variables that are not its own.
LEMMA StepTypes ==
    ASSUME TrainInv, NEW p, SetUp(p) \/ Train(p) \/ Finish(p) \/ PeerLost(p)
    PROVE  /\ nans' \in 0..MaxNaNs
           /\ seen' \subseteq 1..MaxLoss
           /\ ckpt' \in [state : {"absent", "writing", "torn", "whole"}, loss : 1..NoLoss,
                         launch : Nat]
<1> DEFINE File == [state : {"absent", "writing", "torn", "whole"}, loss : 1..NoLoss,
                    launch : Nat]
<1>1. nans \in 0..MaxNaNs /\ seen \subseteq 1..MaxLoss /\ ckpt \in File /\ launch \in Nat
  BY DEF TrainInv, Types
<1>2. CASE Backward(p)
  <2>1. UNCHANGED <<ckpt, seen>>
    BY <1>2 DEF Backward
  <2>2. PICK nan : /\ nan # {} => nans < MaxNaNs
                   /\ nans' = IF nan # {} THEN nans + 1 ELSE nans
    BY <1>2 DEF Backward, NaNs
  <2>3. nans' \in 0..MaxNaNs
    BY <1>1, <2>2, TrainingAssumption
  <2>4. QED
    BY <1>1, <2>1, <2>3
<1>3. CASE Best(p)
  <2>1. UNCHANGED <<ckpt, nans>>
    BY <1>3 DEF Best
  <2>2. PICK loss \in 1..MaxLoss :
          seen' = IF p = 0 /\ proc[p].iter > 0 THEN seen \cup {loss} ELSE seen
    BY <1>3 DEF Best
  <2>3. QED
    BY <1>1, <2>1, <2>2
<1>4. CASE OpenCheckpoint(p)
  <2>1. /\ UNCHANGED <<seen, nans>>
        /\ ckpt' = [ckpt EXCEPT !.state = IF Writers = {} THEN "writing" ELSE "torn"]
    BY <1>4 DEF OpenCheckpoint
  <2>2. QED
    BY <1>1, <2>1
<1>5. CASE WriteCheckpoint(p)
  <2>1. /\ UNCHANGED <<seen, nans>>
        /\ ckpt' = IF ckpt.state = "writing"
                   THEN [state |-> "whole", loss |-> proc[p].best, launch |-> launch]
                   ELSE ckpt
        /\ p \in Procs
    BY <1>5 DEF WriteCheckpoint, Is
  <2>2. proc[p].best \in 1..NoLoss
    BY <2>1 DEF TrainInv, ProcsSound, Sound, ProcessType
  <2>3. QED
    BY <1>1, <2>1, <2>2
<1>6. CASE \/ SetUp(p) \/ PeerLost(p)
           \/ GetBatch(p) \/ Forward(p) \/ CheckGradients(p) \/ OptimizerStep(p)
           \/ Evaluate(p) \/ NextIteration(p)
           \/ Save(p) \/ Destroy(p) \/ Exit(p)
  <2>1. UNCHANGED <<ckpt, seen, nans>>
    BY <1>6 DEF SetUp, SetUpRank, InitRaises, ReadLocalRank, FetchEnvVars, WrapCpu, PeerLost,
         GetBatch, Forward, CheckGradients, OptimizerStep, Evaluate, NextIteration, Save,
         Destroy, Exit
  <2>2. QED
    BY <1>1, <2>1
<1>7. QED
  BY <1>2, <1>3, <1>4, <1>5, <1>6 DEF Train, Finish

\* It holds of a launch ...
LEMMA InitInv == Init => TrainInv
<1> SUFFICES ASSUME Init PROVE TrainInv
  OBVIOUS
<1>1. script \in Scripts /\ env \in Environments
  BY DEF Init
<1>2. /\ proc = [p \in Procs |-> Process(script)]
      /\ agent \in [Procs -> {"rank", "norank", "down"}]
  BY DEF Init, Procs
<1>3. Types
  <2>1. NoLoss \in 1..NoLoss
    BY TrainingAssumption DEF NoLoss
  <2>2. 1 \in 1..MaxLaunches /\ 0 \in 0..MaxNaNs /\ 0 \in Nat
    BY TrainingAssumption
  <2>3. QED
    BY <1>1, <1>2, <2>1, <2>2 DEF Init, Types
<1>4. \A p \in Procs : proc[p] = Process(script)
  BY <1>2
<1>5. ProcsSound
  BY <1>1, <1>2, <1>4, LaunchedIsSound DEF ProcsSound
<1>6. Lockstep
  BY <1>4 DEF Lockstep
<1>7. QED
  BY <1>3, <1>5, <1>6 DEF TrainInv

\* ... and every step of a process or of all of them keeps it.
LEMMA NextKeeps ==
    ASSUME TrainInv, [Next]_vars
    PROVE  TrainInv'
<1> DEFINE File == [state : {"absent", "writing", "torn", "whole"}, loss : 1..NoLoss,
                    launch : Nat]
<1>1. CASE \E p \in Ranks : Step(p)
  <2>1. PICK p \in Ranks : Step(p)
    BY <1>1
  <2>2. /\ SetUp(p) \/ Train(p) \/ Finish(p) \/ PeerLost(p)
        /\ UNCHANGED <<script, env, batch, agent, launch, hit, hitSave>>
    BY <2>1 DEF Step, launchVars
  <2>3. (ProcsSound /\ Lockstep)'
    BY <2>2, StepMoves, MoveKeeps
  <2>4. nans' \in 0..MaxNaNs /\ seen' \subseteq 1..MaxLoss /\ ckpt' \in File
    BY <2>2, StepTypes
  <2>5. Types'
    BY <2>2, <2>4 DEF TrainInv, Types, Procs, Launched, Ranks
  <2>6. QED
    BY <2>3, <2>5 DEF TrainInv
<1>2. CASE Together
  <2>1. Meet /\ UNCHANGED <<script, env, batch, agent, launch, hit, hitSave, ckpt, seen>>
    BY <1>2 DEF Together, Meet, launchVars
  <2>2. (ProcsSound /\ Lockstep)'
    BY <2>1, MeetKeeps
  <2>3. nans' \in 0..MaxNaNs
    <3>1. nans \in 0..MaxNaNs
      BY DEF TrainInv, Types
    <3>2. CASE At(0) = "backward"
      <4>1. PICK nan : /\ nan # {} => nans < MaxNaNs
                       /\ nans' = IF nan # {} THEN nans + 1 ELSE nans
        BY <2>1, <3>2 DEF Meet, NaNs
      <4>2. QED
        BY <3>1, <4>1, TrainingAssumption
    <3>3. CASE At(0) # "backward"
      BY <2>1, <3>1, <3>3 DEF Meet
    <3>4. QED
      BY <3>2, <3>3
  <2>4. Types'
    BY <2>1, <2>3 DEF TrainInv, Types, Procs, Launched, Ranks
  <2>5. QED
    BY <2>2, <2>4 DEF TrainInv
<1>3. CASE \E p \in Ranks : (Kill(p) \/ HandleSignal(p)) /\ UNCHANGED launchVars
  <2>1. PICK p \in Ranks : Kill(p) /\ UNCHANGED <<script, env, batch, agent, launch>>
    BY <1>3 DEF HandleSignal, launchVars
  <2>2. (ProcsSound /\ Lockstep)'
    BY <2>1, StepMoves, MoveKeeps
  <2>3. /\ ckpt' = (IF p \in Writers THEN [ckpt EXCEPT !.state = "torn"] ELSE ckpt)
        /\ hit' = TRUE
        /\ hitSave' = (hitSave \/ p \in Writers)
        /\ UNCHANGED <<seen, nans>>
    BY <2>1 DEF Kill
  <2>4. ckpt' \in File /\ {hit', hitSave'} \subseteq BOOLEAN
    BY <2>3 DEF TrainInv, Types
  <2>5. Types'
    BY <2>1, <2>3, <2>4 DEF TrainInv, Types, Procs, Launched, Ranks
  <2>6. QED
    BY <2>2, <2>5 DEF TrainInv
<1>4. CASE Relaunch
  <2>1. /\ UNCHANGED <<script, env, batch, agent, ckpt, hitSave, nans>>
        /\ launch < MaxLaunches /\ launch' = launch + 1
        /\ seen' = {} /\ hit' = FALSE
        /\ proc' = [p \in Procs |-> Process(script)]
    BY <1>4 DEF Relaunch
  <2>2. Procs' = Procs
    BY <2>1 DEF Procs, Launched, Ranks
  <2>3. \A p \in Procs : proc'[p] = Process(script)
    BY <2>1
  <2>4. ProcsSound'
    <3>1. \A p \in Procs : Sound(p, proc'[p])
      BY <2>3, LaunchedIsSound DEF TrainInv, Types
    <3>2. \A p \in Procs : Sound(p, proc[p])' <=> Sound(p, proc'[p])
      BY <2>1 DEF Sound, Settled, TwoGroups
    <3>3. proc' = [p \in Procs |-> proc'[p]]
      BY <2>1
    <3>4. QED
      BY <2>2, <3>1, <3>2, <3>3 DEF ProcsSound
  <2>5. Lockstep'
    <3>1. \A p \in Procs : Ahead(proc[p])' = Ahead(proc'[p])
      BY <2>1 DEF Ahead, First, Iteration
    <3>2. QED
      BY <2>2, <2>3, <3>1 DEF Lockstep
  <2>6. launch' \in 1..MaxLaunches
    BY <2>1, TrainingAssumption DEF TrainInv, Types
  <2>7. Types'
    BY <2>1, <2>2, <2>6 DEF TrainInv, Types
  <2>8. QED
    BY <2>4, <2>5, <2>7 DEF TrainInv
<1>5. CASE UNCHANGED vars
  <2>1. Types' /\ ProcsSound'
    BY <1>5 DEF vars, TrainInv, Types, ProcsSound, Procs, Launched, Ranks, Sound, Settled,
         TwoGroups
  <2>2. Lockstep'
    <3>1. Procs' = Procs /\ proc' = proc
      BY <1>5 DEF vars, Procs, Launched, Ranks
    <3>2. \A p \in Procs : Ahead(proc[p])' = Ahead(proc[p])
      BY <1>5 DEF vars, Ahead, First, Iteration
    <3>3. QED
      BY <3>1, <3>2 DEF Lockstep, Joint, TrainInv
  <2>3. QED
    BY <2>1, <2>2 DEF TrainInv
<1>6. QED
  BY <1>1, <1>2, <1>3, <1>4, <1>5 DEF Next, Run

\* The invariant holds in every reachable state.
LEMMA Invariance == Spec => []TrainInv
<1>1. Init => TrainInv
  BY InitInv
<1>2. TrainInv /\ [Next]_vars => TrainInv'
  BY NextKeeps
<1>3. QED
  BY <1>1, <1>2, PTL DEF Spec

\* Every variable of the training scripts keeps its type, and a process always has
\* an instruction to go on with.
THEOREM TrainingTypeCorrect == Spec => []TrainingTypeOK
<1>1. TrainInv => TrainingTypeOK
  <2> SUFFICES ASSUME TrainInv PROVE TrainingTypeOK
    OBVIOUS
  <2>1. proc \in [Procs -> ProcessType] /\ \A p \in Procs : proc[p].todo # <<>>
    BY DEF TrainInv, ProcsSound, Sound, Todo, Part
  <2>2. QED
    BY <2>1 DEF TrainInv, Types, TrainingTypeOK
<1>2. QED
  BY <1>1, Invariance, PTL

\* If all processes of a launch wait in collectives they wait in the same one: no
\* rank's own evaluation, save or skipped update puts it out of step, and training
\* does not hang in a collective that not all of them enter.
THEOREM CollectivesAlwaysMatch == Spec => []CollectivesMatch
<1>1. TrainInv => CollectivesMatch
  <2> SUFFICES ASSUME TrainInv, \A p \in Procs : Waits(p), NEW p \in Procs, NEW q \in Procs
               PROVE  At(p) = At(q)
    BY DEF CollectivesMatch
  <2>1. ASSUME NEW x \in Procs
        PROVE  /\ At(x) \in {"init", "barrier", "ddp", "backward", "forward", "val"}
               /\ At(x) \in {"forward", "val"} => script.buffers
               /\ At(x) # "val"
               /\ proc[x].dist /\ proc[x].state = "run"
    <3>1. Waits(x) /\ Sound(x, proc[x])
      BY DEF TrainInv, ProcsSound
    <3>2. /\ At(x) \in {"init", "barrier", "ddp", "backward", "forward", "val"}
          /\ At(x) \in {"forward", "val"} => script.buffers
          /\ At(x) \in {"init", "barrier"} \/ proc[x].dist
          /\ proc[x].state = "run"
      BY <3>1 DEF Waits, Collective, HasBuffers
    <3>3. proc[x].dist
      BY <3>1, <3>2 DEF Sound, Settled, Settings, At
    <3>4. 1 \in 1 .. Len(proc[x].todo)
      BY <3>1, EmptySeq, LenProperties DEF Sound, Todo, Part
    <3>5. At(x) = "val" => ~script.buffers
      BY <3>1, <3>4 DEF Sound, Todo, Part, At
    <3>6. QED
      BY <3>2, <3>3, <3>5
  <2>2. Ahead(proc[p]) = Ahead(proc[q])
    BY <2>1 DEF TrainInv, Lockstep, Joint
  <2>3. ASSUME NEW x \in Procs PROVE Ahead(proc[x])[1] = At(x)
    BY <2>1 DEF Ahead, First, At
  <2>4. QED
    BY <2>2, <2>3
<1>2. QED
  BY <1>1, Invariance, PTL

\* Replicas that are to average their gradients have had the same updates in the
\* same iterations, however often an update was skipped for a NaN.
THEOREM ReplicasStayAlike == Spec => []ReplicasAgree
<1>1. TrainInv => ReplicasAgree
  <2> SUFFICES ASSUME TrainInv, NEW p \in Procs, NEW q \in Procs, Waits(p), Waits(q),
                      At(p) = "backward", At(q) = "backward"
               PROVE  proc[p].updates = proc[q].updates /\ proc[p].iter = proc[q].iter
    BY DEF ReplicasAgree
  <2>1. proc[p].dist /\ proc[q].dist
    BY DEF Waits, Collective
  <2>2. QED
    BY <2>1, MetTogether
<1>2. QED
  BY <1>1, Invariance, PTL

-----------------------------------------------------------------------------
(* The checkpoint *)

\* The new state of a process that moves, and of the others.
LEMMA BecomeGives ==
    ASSUME TrainInv, NEW p \in Procs, NEW r, Become(p, r)
    PROVE  proc'[p] = r /\ \A q \in Procs \ {p} : proc'[q] = proc[q]
<1>1. proc = [q \in Procs |-> proc[q]]
  BY DEF TrainInv, ProcsSound
<1>2. proc' = [proc EXCEPT ![p] = r]
  BY DEF Become
<1>3. QED
  BY <1>1, <1>2

\* No instruction leads to the opening of the file: it is put in.
LEMMA RestOpensNothing ==
    ASSUME TrainInv, NEW p \in Procs, At(p) \notin {"next", "exit"}
    PROVE  /\ Tail(proc[p].todo)[1] # "open"
           /\ Rest(p).todo[1] # "open" /\ Rest(p).state = proc[p].state
           /\ Rest(p).best = proc[p].best /\ Rest(p).iter = proc[p].iter
<1> DEFINE t == proc[p].todo
           u == Tail(t)
<1>1. Todo(script, t) /\ t[1] \notin {"next", "exit"}
  BY DEF TrainInv, ProcsSound, Sound, At
<1>2. /\ proc[p] \in ProcessType
      /\ Rest(p) = [proc[p] EXCEPT !.todo = u]
  BY RestTyped
<1> HIDE DEF t
<1>3. Follows(script, t[1], u[1])
  BY <1>1, RestIsTodo
<1> HIDE DEF u
<1>4. u[1] # "open"
  BY <1>3 DEF Follows
<1>5. QED
  BY <1>2, <1>4 DEF ProcessType, u, t

\* p fails, or goes on without a look at the losses or the file.
Plain(p) ==
    \/ proc'[p].state = "failed"
    \/ /\ proc'[p].state = "run"
       /\ proc'[p].best = proc[p].best
       /\ proc'[p].iter \in {proc[p].iter, proc[p].iter + 1}
       /\ proc'[p].todo[1] # "open"

\* A process that fails.
LEMMA FailsPlainly ==
    ASSUME TrainInv, NEW p \in Procs, Fails(p)
    PROVE  Plain(p)
<1>1. proc'[p] = [Process(script) EXCEPT !.state = "failed"]
  BY BecomeGives DEF Fails, Ends
<1>2. QED
  BY <1>1 DEF Plain, Process

\* A process that only goes on.
LEMMA RestsPlainly ==
    ASSUME TrainInv, NEW p \in Procs, proc[p].state = "run", At(p) \notin {"next", "exit"},
           Become(p, Rest(p))
    PROVE  Plain(p)
<1>1. proc'[p] = Rest(p)
  BY BecomeGives
<1>2. proc[p].iter \in Nat
  BY DEF TrainInv, ProcsSound, Sound, ProcessType
<1>3. QED
  BY <1>1, <1>2, RestOpensNothing DEF Plain

\* The settings do not look at the losses or the file, ...
LEMMA SetUpPlainly ==
    ASSUME TrainInv, NEW p, SetUp(p)
    PROVE  Plain(p)
<1>1. p \in Procs /\ proc[p].state = "run"
      /\ At(p) \in {"rank?", "many?", "init", "local", "agent", "ddpcpu"}
  BY DEF SetUp, SetUpRank, InitRaises, ReadLocalRank, FetchEnvVars, WrapCpu, Is
<1>2. proc[p] \in ProcessType /\ proc[p].iter \in Nat
  BY <1>1 DEF TrainInv, ProcsSound, Sound, ProcessType
<1>3. \/ Fails(p)
      \/ Become(p, Rest(p))
      \/ Become(p, [Rest(p) EXCEPT !.dist = FALSE])
      \/ Become(p, [proc[p] EXCEPT !.todo = script.body, !.dist = FALSE])
  <2>1. CASE SetUpRank(p)
    BY <2>1 DEF SetUpRank
  <2>2. CASE FetchEnvVars(p)
    <3>1. agent[p] \in {"rank", "norank", "down"}
      BY <1>1 DEF TrainInv, Types
    <3>2. QED
      BY <2>2, <3>1 DEF FetchEnvVars
  <2>3. CASE InitRaises(p) \/ ReadLocalRank(p) \/ WrapCpu(p)
    BY <2>3 DEF InitRaises, ReadLocalRank, WrapCpu
  <2>4. QED
    BY <2>1, <2>2, <2>3 DEF SetUp
<1>4. CASE Become(p, [Rest(p) EXCEPT !.dist = FALSE])
  <2>1. proc'[p] = [Rest(p) EXCEPT !.dist = FALSE]
    BY <1>1, <1>4, BecomeGives
  <2>2. Rest(p) \in ProcessType
    BY <1>1, RestTyped
  <2>3. /\ proc'[p].state = Rest(p).state /\ proc'[p].best = Rest(p).best
        /\ proc'[p].iter = Rest(p).iter /\ proc'[p].todo = Rest(p).todo
    BY <2>1, <2>2 DEF ProcessType
  <2>4. QED
    BY <1>1, <1>2, <2>3, RestOpensNothing DEF Plain
<1>5. CASE Become(p, [proc[p] EXCEPT !.todo = script.body, !.dist = FALSE])
  <2>1. proc'[p] = [proc[p] EXCEPT !.todo = script.body, !.dist = FALSE]
    BY <1>1, <1>5, BecomeGives
  <2>2. script.body[1] # "open"
    BY ScriptParts DEF TrainInv, Types
  <2>3. QED
    BY <1>1, <1>2, <2>1, <2>2 DEF Plain, ProcessType
<1>6. QED
  BY <1>1, <1>3, <1>4, <1>5, FailsPlainly, RestsPlainly

\* ... and of an iteration only the comparison of the losses does.
LEMMA TrainsPlainly ==
    ASSUME TrainInv, NEW p, Train(p), ~Best(p)
    PROVE  Plain(p)
<1>1. p \in Procs /\ proc[p].state = "run"
  BY DEF Train, GetBatch, Forward, Backward, CheckGradients, OptimizerStep, Evaluate,
         NextIteration, Is
<1>2. proc[p] \in ProcessType /\ proc[p].iter \in Nat /\ proc[p].updates \in Nat
  BY <1>1 DEF TrainInv, ProcsSound, Sound, ProcessType
<1>3. /\ script.body[1] # "open" /\ script.tail[1] # "open"
  BY ScriptParts DEF TrainInv, Types
<1>4. CASE GetBatch(p)
  <2>1. At(p) = "batch" /\ (Fails(p) \/ Become(p, Rest(p)))
    BY <1>4 DEF GetBatch, Is
  <2>2. QED
    BY <1>1, <2>1, FailsPlainly, RestsPlainly
<1>5. CASE Forward(p)
  <2>1. At(p) \in {"forward", "val", "ddp"} /\ Become(p, Rest(p))
    BY <1>5 DEF Forward, Is
  <2>2. QED
    BY <1>1, <2>1, RestsPlainly
<1>6. CASE Backward(p)
  <2>1. PICK nan : proc' = [q \in Procs |-> IF q \in {p}
                                              THEN [Rest(q) EXCEPT !.bad = Averaged(nan, q)]
                                              ELSE proc[q]]
    BY <1>6 DEF Backward, NaNs
  <2>2. proc'[p] = [Rest(p) EXCEPT !.bad = Averaged(nan, p)]
    BY <1>1, <2>1
  <2>3. At(p) = "backward"
    BY <1>6 DEF Backward, Is
  <2>4. Rest(p) \in ProcessType
    BY <1>1, <2>3, RestTyped
  <2>5. /\ proc'[p].state = Rest(p).state /\ proc'[p].best = Rest(p).best
        /\ proc'[p].iter = Rest(p).iter /\ proc'[p].todo = Rest(p).todo
    BY <2>2, <2>4 DEF ProcessType
  <2>6. QED
    BY <1>1, <1>2, <2>3, <2>5, RestOpensNothing DEF Plain
<1>7. CASE CheckGradients(p)
  <2>1. CASE proc[p].bad
    <3>1. proc'[p] = [proc[p] EXCEPT !.todo = script.body, !.bad = FALSE]
      BY <1>1, <1>7, <2>1, BecomeGives DEF CheckGradients
    <3>2. QED
      BY <1>1, <1>2, <1>3, <3>1 DEF Plain, ProcessType
  <2>2. CASE ~proc[p].bad
    <3>1. At(p) = "check" /\ Become(p, Rest(p))
      BY <1>7, <2>2 DEF CheckGradients, Is
    <3>2. QED
      BY <1>1, <3>1, RestsPlainly
  <2>3. QED
    BY <2>1, <2>2
<1>8. CASE OptimizerStep(p)
  <2> DEFINE n == Rest(p).updates + 1
  <2>1. At(p) = "step" /\ Become(p, [Rest(p) EXCEPT !.updates = n, !.bad = FALSE])
    BY <1>8 DEF OptimizerStep, Is
  <2> HIDE DEF n
  <2>2. proc'[p] = [Rest(p) EXCEPT !.updates = n, !.bad = FALSE]
    BY <1>1, <2>1, BecomeGives
  <2>3. Rest(p) \in ProcessType
    BY <1>1, <2>1, RestTyped
  <2>4. /\ proc'[p].state = Rest(p).state /\ proc'[p].best = Rest(p).best
        /\ proc'[p].iter = Rest(p).iter /\ proc'[p].todo = Rest(p).todo
    BY <2>2, <2>3 DEF ProcessType
  <2>5. QED
    BY <1>1, <1>2, <2>1, <2>4, RestOpensNothing DEF Plain
<1>9. CASE Evaluate(p)
  <2>1. At(p) = "evaluate"
    BY <1>9 DEF Evaluate, Is
  <2>2. CASE Master(p) /\ proc[p].iter % EvalInterval = 0
    <3> DEFINE t == Instead(p, Evaluation)
               u == Tail(proc[p].todo)
    <3>1. proc'[p] = [proc[p] EXCEPT !.todo = t]
      BY <1>1, <1>9, <2>2, BecomeGives DEF Evaluate, Goes, Evaluation
    <3>2. Todo(script, proc[p].todo) /\ ~script.buffers
      <4>1. Todo(script, proc[p].todo)
        BY <1>1 DEF TrainInv, ProcsSound, Sound
      <4>2. 1 \in 1 .. Len(proc[p].todo)
        BY <4>1, EmptySeq, LenProperties DEF Todo, Part
      <4>3. QED
        BY <2>1, <4>1, <4>2 DEF Todo, Part, At
    <3>3. Part(script, Evaluation) /\ Evaluation[1] = "val" /\ Evaluation[Len(Evaluation)] = "best"
      BY <3>2, EvaluationIsPart
    <3>4. Todo(script, u) /\ Follows(script, "evaluate", u[1])
      <4> DEFINE w == proc[p].todo
      <4>1. Todo(script, w) /\ w[1] = "evaluate"
        BY <2>1, <3>2 DEF At
      <4> HIDE DEF w
      <4>2. Todo(script, Tail(w)) /\ Follows(script, w[1], Tail(w)[1])
        BY <4>1, RestIsTodo
      <4>3. QED
        BY <4>1, <4>2 DEF w
    <3>5. t = Evaluation \o u
      BY DEF Instead
    <3> HIDE DEF t, u
    <3>6. Follows(script, Evaluation[Len(Evaluation)], u[1])
      BY <3>3, <3>4 DEF Follows
    <3>7. Part(script, u)
      BY <3>4 DEF Todo
    <3>8. Joins(script, Evaluation, u, t)
      BY <3>3, <3>5, <3>6, <3>7, Joined
    <3>9. t[1] = "val"
      BY <3>3, <3>8 DEF Joins
    <3>10. QED
      BY <1>1, <1>2, <3>1, <3>9 DEF Plain, ProcessType
  <2>3. CASE ~(Master(p) /\ proc[p].iter % EvalInterval = 0)
    <3>1. Become(p, Rest(p))
      BY <1>1, <1>9, <2>1, <2>3, RestTyped DEF Evaluate, Goes
    <3>2. QED
      BY <1>1, <2>1, <3>1, RestsPlainly
  <2>4. QED
    BY <2>2, <2>3
<1>10. CASE NextIteration(p)
  <2> DEFINE n == proc[p].iter + 1
             t == IF proc[p].iter + 1 > script.last THEN script.tail ELSE script.body
  <2>1. proc'[p] = [proc[p] EXCEPT !.iter = n, !.todo = t]
    BY <1>1, <1>10, BecomeGives DEF NextIteration
  <2>2. n = proc[p].iter + 1 /\ t[1] # "open"
    BY <1>2, <1>3
  <2> HIDE DEF n, t
  <2>3. QED
    BY <1>1, <1>2, <2>1, <2>2 DEF Plain, ProcessType
<1>11. QED
  BY <1>4, <1>5, <1>6, <1>7, <1>8, <1>9, <1>10 DEF Train

\* Where every agent has a rank only process 0 is a master.
LEMMA MasterIsZero ==
    ASSUME TrainInv, AllRanked, NEW p \in Procs,
           Master(p) \/ At(p) \in {"val", "best", "open", "write"}
    PROVE  p = 0
<1>1. Settled(p, proc[p])
  BY DEF TrainInv, ProcsSound, Sound
<1>2. agent[p] = "rank"
  BY DEF AllRanked
<1>3. QED
  BY <1>1, <1>2 DEF Settled, Master, At

\* The numbers are numbers.
LEMMA LossTypes ==
    ASSUME TrainInv
    PROVE  /\ 0 \in Procs
           /\ proc[0].best \in Int /\ proc[0].iter \in Int
           /\ proc[0].state \in {"run", "done", "failed"}
           /\ seen \subseteq Int
           /\ ckpt.loss \in Int /\ ckpt.launch \in Int /\ launch \in Int
<1>1. 0 \in Procs
  BY ProcsFact DEF TrainInv, Types
<1>2. NoLoss \in Int /\ MaxLoss \in Int /\ MaxLaunches \in Int
  BY TrainingAssumption DEF NoLoss
<1>3. proc[0] \in ProcessType
  BY <1>1 DEF TrainInv, ProcsSound, Sound
<1>4. proc[0].best \in 1..NoLoss /\ proc[0].iter \in Nat
      /\ proc[0].state \in {"run", "done", "failed"}
  BY <1>3 DEF ProcessType
<1>5. seen \subseteq 1..MaxLoss /\ ckpt.loss \in 1..NoLoss /\ ckpt.launch \in Nat
      /\ launch \in 1..MaxLaunches
  BY DEF TrainInv, Types
<1>6. QED
  BY <1>1, <1>2, <1>4, <1>5

\* Process 0 fails, or goes on without a look at the losses or the file.
LEMMA PlainKeepsBest ==
    ASSUME TrainInv, BestKept, UNCHANGED <<ckpt, seen, launch>>,
           proc[0].state = "run", Plain(0),
           At(0) = "open" => proc'[0].state = "failed"
    PROVE  BestKept'
<1>1. CASE proc'[0].state = "failed"
  BY <1>1 DEF BestKept
<1>2. CASE proc'[0].state # "failed"
  <2>1. /\ proc'[0].state = "run" /\ proc'[0].best = proc[0].best
        /\ proc'[0].iter \in {proc[0].iter, proc[0].iter + 1}
        /\ proc'[0].todo[1] # "open" /\ proc[0].todo[1] # "open"
    BY <1>2 DEF Plain, At
  <2>2. QED
    BY <2>1, LossTypes DEF BestKept
<1>3. QED
  BY <1>1, <1>2


\* The file is being written, or of no use.
LEMMA NotWholeKeepsBest ==
    ASSUME BestKept, UNCHANGED <<seen, launch>>, ckpt'.state # "whole",
           proc'[0].state = "run" => proc[0].state = "run" /\ proc'[0].best = proc[0].best
    PROVE  BestKept'
  BY DEF BestKept

\* The comparison: a loss that is less than the best one will be in the file next.
LEMMA BestKeepsBest ==
    ASSUME TrainInv, BestKept, AllRanked, NEW p, Best(p), UNCHANGED launch
    PROVE  BestKept'
<1>1. /\ p \in Procs /\ proc[p].state = "run" /\ At(p) = "best"
      /\ UNCHANGED ckpt
  BY DEF Best, Is
<1>2. p = 0
  BY <1>1, MasterIsZero
<1>3. proc[0] \in ProcessType
  BY <1>1, <1>2 DEF TrainInv, ProcsSound, Sound
<1> DEFINE m == proc[0]
<1>4. PICK loss \in 1..MaxLoss :
        /\ seen' = IF m.iter > 0 THEN seen \cup {loss} ELSE seen
        /\ Become(0, IF Improves(loss, m.best)
                     THEN [m EXCEPT
                            !.best = loss,
                            !.todo = Instead(0, IF m.iter > 0 THEN <<"open", "write">> ELSE <<>>)]
                     ELSE Rest(0))
  BY <1>2 DEF Best
<1>5. loss \in Int
  BY TrainingAssumption
<1>6. m.todo[1] = "best" /\ m.state = "run"
  BY <1>1, <1>2 DEF At
<1>7. CASE ~Improves(loss, m.best)
  <2>1. /\ proc'[0].best = m.best /\ proc'[0].iter = m.iter
        /\ proc'[0].state = "run" /\ proc'[0].todo[1] # "open"
    <3>1. proc'[0] = Rest(0)
      BY <1>1, <1>2, <1>4, <1>7, BecomeGives
    <3>2. QED
      BY <1>1, <1>2, <3>1, RestOpensNothing
  <2>2. m.best <= loss
    BY <1>5, <1>7, LossTypes DEF Improves
  <2>3. QED
    BY <1>1, <1>4, <1>5, <1>6, <2>1, <2>2, LossTypes DEF BestKept
<1>8. CASE Improves(loss, m.best)
  <2> DEFINE t == Instead(0, IF m.iter > 0 THEN <<"open", "write">> ELSE <<>>)
  <2>1. proc'[0] = [m EXCEPT !.best = loss, !.todo = t]
    BY <1>1, <1>2, <1>4, <1>8, BecomeGives
  <2> HIDE DEF t
  <2>2. /\ proc'[0].best = loss /\ proc'[0].iter = m.iter
        /\ proc'[0].state = "run" /\ proc'[0].todo = t
    BY <1>3, <1>6, <2>1 DEF ProcessType
  <2>3. loss < m.best
    BY <1>8 DEF Improves
  <2>4. CASE m.iter > 0
    <3>1. t[1] = "open"
      <4> DEFINE u == Tail(proc[0].todo)
                 a == <<"open", "write">>
      <4>1. Todo(script, u) /\ Follows(script, "best", u[1])
        <5> DEFINE w == proc[0].todo
        <5>1. Todo(script, w) /\ w[1] = "best"
          BY <1>1, <1>2 DEF TrainInv, ProcsSound, Sound, At
        <5> HIDE DEF w
        <5>2. Todo(script, Tail(w)) /\ Follows(script, w[1], Tail(w)[1])
          BY <5>1, RestIsTodo
        <5>3. QED
          BY <5>1, <5>2 DEF w
      <4>2. Part(script, a) /\ a[1] = "open" /\ a[Len(a)] = "write"
        BY SavingIsPart
      <4>3. t = a \o u
        BY <2>4 DEF t, Instead
      <4> HIDE DEF a, u
      <4>4. Follows(script, a[Len(a)], u[1]) /\ Part(script, u)
        BY <4>1, <4>2 DEF Follows, Todo
      <4>5. Joins(script, a, u, t)
        BY <4>2, <4>3, <4>4, Joined
      <4>6. QED
        BY <4>2, <4>5 DEF Joins
    <3>2. QED
      BY <1>1, <1>4, <1>5, <1>6, <2>2, <2>3, <2>4, <3>1, LossTypes DEF BestKept
  <2>5. CASE ~(m.iter > 0)
    BY <1>1, <1>4, <1>5, <1>6, <2>2, <2>3, <2>5, LossTypes DEF BestKept
  <2>6. QED
    BY <2>4, <2>5
<1>9. QED
  BY <1>7, <1>8

\* A script that saves once saves what it has.
LEMMA SaveKeepsBest ==
    ASSUME TrainInv, BestKept, AllRanked, Save(0), UNCHANGED launch
    PROVE  BestKept'
<1>1. /\ 0 \in Procs /\ proc[0].state = "run" /\ At(0) = "save"
      /\ UNCHANGED <<ckpt, seen>>
  BY DEF Save, Is
<1>2. proc[0].todo[1] # "open"
  BY <1>1 DEF At
<1> DEFINE t == Instead(0, <<"open", "write">>)
<1>3. proc'[0] = [proc[0] EXCEPT !.todo = t]
  <2>1. Master(0)
    BY DEF Master
  <2>2. QED
    BY <1>1, <2>1, BecomeGives DEF Save, Goes
<1> HIDE DEF t
<1>4. /\ proc'[0].best = proc[0].best /\ proc'[0].iter = proc[0].iter
      /\ proc'[0].state = "run"
  BY <1>1, <1>3 DEF TrainInv, ProcsSound, Sound, ProcessType
<1>5. QED
  BY <1>1, <1>2, <1>4, LossTypes DEF BestKept

\* Steps of other processes.
LEMMA OthersKeepBest ==
    ASSUME BestKept, UNCHANGED <<ckpt, seen, launch>>, proc'[0] = proc[0]
    PROVE  BestKept'
  BY DEF BestKept

\* What a step of process p that is neither the comparison of the losses nor in
\* torch.save leaves of the best loss and the file.
LEMMA QuietKeepsBest ==
    ASSUME TrainInv, BestKept, AllRanked, UNCHANGED launch,
           NEW p,
           \/ SetUp(p) \/ PeerLost(p) \/ (Train(p) /\ ~Best(p))
           \/ Save(p) \/ Destroy(p) \/ Exit(p)
    PROVE  UNCHANGED ckpt /\ BestKept'
<1>1. UNCHANGED <<ckpt, seen>>
  BY DEF SetUp, SetUpRank, InitRaises, ReadLocalRank, FetchEnvVars, WrapCpu, PeerLost, Train,
         GetBatch, Forward, Backward, CheckGradients, OptimizerStep, Evaluate, NextIteration,
         Save, Destroy, Exit
<1>2. p \in Procs /\ Moves(p)
  BY StepMoves DEF Finish
<1>3. CASE p # 0
  <2>1. proc'[0] = proc[0]
    <3>1. PICK r : Become(p, r)
      BY <1>2 DEF Moves
    <3>2. 0 \in Procs \ {p}
      BY <1>3, LossTypes
    <3>3. QED
      BY <1>2, <3>1, <3>2, BecomeGives
  <2>2. QED
    BY <1>1, <2>1, OthersKeepBest
<1>4. CASE p = 0 /\ (SetUp(p) \/ PeerLost(p) \/ (Train(p) /\ ~Best(p)) \/ Destroy(p))
  <2>1. Plain(0) /\ proc[0].state = "run" /\ (At(0) = "open" => proc'[0].state = "failed")
    <3>1. CASE SetUp(p)
      <4>1. proc[0].state = "run" /\ At(0) # "open"
        BY <1>4, <3>1 DEF SetUp, SetUpRank, InitRaises, ReadLocalRank, FetchEnvVars, WrapCpu, Is
      <4>2. QED
        BY <1>4, <3>1, <4>1, SetUpPlainly
    <3>2. CASE PeerLost(p)
      <4>1. proc[0].state = "run" /\ Fails(0) /\ At(0) # "open"
        BY <1>4, <3>2 DEF PeerLost, Waits, Collective
      <4>2. QED
        BY <1>2, <1>4, <4>1, FailsPlainly
    <3>3. CASE Train(p) /\ ~Best(p)
      <4>1. proc[0].state = "run" /\ At(0) # "open"
        BY <1>4, <3>3 DEF Train, GetBatch, Forward, Backward, CheckGradients, OptimizerStep,
           Evaluate, NextIteration, Is
      <4>2. QED
        BY <1>4, <3>3, <4>1, TrainsPlainly
    <3>4. CASE Destroy(p)
      <4>1. proc[0].state = "run" /\ At(0) = "destroy"
        BY <1>4, <3>4 DEF Destroy, Is
      <4>2. proc'[0] = [Rest(0) EXCEPT !.member = FALSE]
        BY <1>2, <1>4, <3>4, BecomeGives DEF Destroy
      <4>3. Rest(0) \in ProcessType
        BY <1>2, <1>4, <4>1, RestTyped
      <4>4. /\ proc'[0].state = Rest(0).state /\ proc'[0].best = Rest(0).best
            /\ proc'[0].iter = Rest(0).iter /\ proc'[0].todo = Rest(0).todo
        BY <4>2, <4>3 DEF ProcessType
      <4>5. QED
        BY <1>2, <1>4, <4>1, <4>4, RestOpensNothing DEF Plain
    <3>5. QED
      BY <1>4, <3>1, <3>2, <3>3, <3>4
  <2>2. QED
    BY <1>1, <2>1, PlainKeepsBest
<1>5. CASE p = 0 /\ Save(p)
  BY <1>1, <1>5, SaveKeepsBest
<1>6. CASE p = 0 /\ Exit(p)
  <2>1. proc'[0] = [Process(script) EXCEPT !.state = "done"]
    BY <1>2, <1>6, BecomeGives DEF Exit, Ends
  <2>2. proc'[0].state = "done"
    BY <2>1 DEF Process
  <2>3. proc[0].state = "run" /\ proc[0].todo[1] # "open"
    BY <1>6 DEF Exit, Is, At
  <2>4. QED
    BY <1>1, <2>2, <2>3, LossTypes DEF BestKept
<1>7. QED
  BY <1>1, <1>3, <1>4, <1>5, <1>6

\* torch.save leaves no whole file until the best loss is in it.
LEMMA WritingKeepsBest ==
    ASSUME TrainInv, BestKept, AllRanked, UNCHANGED launch,
           NEW p, OpenCheckpoint(p) \/ WriteCheckpoint(p)
    PROVE  BestKept'
<1>1. /\ p \in Procs /\ proc[p].state = "run" /\ At(p) \in {"open", "write"}
      /\ Become(p, Rest(p)) /\ UNCHANGED seen
  BY DEF OpenCheckpoint, WriteCheckpoint, Is
<1>2. p = 0
  BY <1>1, MasterIsZero
<1>3. proc'[0] = Rest(0)
  BY <1>1, <1>2, BecomeGives
<1>4. /\ proc'[0].best = proc[0].best /\ proc'[0].iter = proc[0].iter
      /\ proc'[0].state = "run" /\ proc'[0].todo[1] # "open"
  BY <1>1, <1>2, <1>3, RestOpensNothing
<1>5. ckpt \in [state : {"absent", "writing", "torn", "whole"}, loss : 1..NoLoss, launch : Nat]
  BY DEF TrainInv, Types
<1>6. CASE OpenCheckpoint(p)
  <2>1. ckpt' = [ckpt EXCEPT !.state = IF Writers = {} THEN "writing" ELSE "torn"]
    BY <1>6 DEF OpenCheckpoint
  <2>2. ckpt'.state # "whole"
    BY <1>5, <2>1
  <2>3. QED
    BY <1>1, <1>2, <1>4, <2>2, NotWholeKeepsBest
<1>7. CASE WriteCheckpoint(p) /\ ckpt.state = "writing"
  <2>1. ckpt' = [state |-> "whole", loss |-> proc[0].best, launch |-> launch]
    BY <1>2, <1>7 DEF WriteCheckpoint
  <2>2. ckpt'.loss = proc[0].best
    BY <2>1
  <2>3. proc[0].iter > 0
    <3>1. Settled(0, proc[0])
      BY <1>1, <1>2 DEF TrainInv, ProcsSound, Sound
    <3>2. At(0) = "write"
      BY <1>2, <1>7 DEF WriteCheckpoint, Is
    <3>3. QED
      BY <3>1, <3>2 DEF Settled, At
  <2>4. \A loss \in seen : ckpt'.loss <= loss
    BY <1>1, <1>2, <2>2 DEF BestKept
  <2>5. QED
    BY <1>1, <1>4, <2>2, <2>3, <2>4, LossTypes DEF BestKept
<1>8. CASE WriteCheckpoint(p) /\ ckpt.state # "writing"
  <2>1. UNCHANGED ckpt
    BY <1>8 DEF WriteCheckpoint
  <2>2. Plain(0)
    BY <1>4 DEF Plain
  <2>3. At(0) # "open"
    BY <1>2, <1>8 DEF WriteCheckpoint, Is
  <2>4. QED
    BY <1>1, <1>2, <2>1, <2>2, <2>3, PlainKeepsBest
<1>9. QED
  BY <1>6, <1>7, <1>8

\* Two processes write the file at once only if one of them has no rank.
LEMMA TornInSaving ==
    ASSUME TrainInv, TornByCrashOnly, NEW p, OpenCheckpoint(p) \/ WriteCheckpoint(p),
           UNCHANGED <<env, agent, hitSave>>
    PROVE  TornByCrashOnly'
<1>1. Procs' = Procs
  BY DEF Procs, Launched, Ranks
<1>2. ckpt \in [state : {"absent", "writing", "torn", "whole"}, loss : 1..NoLoss, launch : Nat]
  BY DEF TrainInv, Types
<1>3. CASE OpenCheckpoint(p) /\ Writers # {}
  <2>1. PICK q \in Procs : Is(q, "write")
    BY <1>3 DEF Writers
  <2>2. p \in Procs /\ At(p) = "open" /\ At(q) = "write"
    BY <1>3, <2>1 DEF OpenCheckpoint, Is
  <2>3. Settled(p, proc[p]) /\ Settled(q, proc[q])
    BY <2>1, <2>2 DEF TrainInv, ProcsSound, Sound
  <2>4. p # q
    BY <2>2
  <2>5. agent[p] = "norank" \/ agent[q] = "norank"
    BY <2>2, <2>3, <2>4 DEF Settled, At
  <2>6. QED
    BY <1>1, <2>1, <2>2, <2>5 DEF TornByCrashOnly
<1>4. CASE OpenCheckpoint(p) /\ Writers = {}
  <2>1. ckpt' = [ckpt EXCEPT !.state = "writing"]
    BY <1>4 DEF OpenCheckpoint
  <2>2. ckpt'.state # "torn"
    BY <1>2, <2>1
  <2>3. QED
    BY <2>2 DEF TornByCrashOnly
<1>5. CASE WriteCheckpoint(p)
  <2>1. ckpt'.state = "torn" => ckpt.state = "torn"
    BY <1>5 DEF WriteCheckpoint
  <2>2. QED
    BY <1>1, <2>1 DEF TornByCrashOnly
<1>6. QED
  BY <1>3, <1>4, <1>5

\* Before the first launch there is no file.
LEMMA SaveInit == Init => SaveInv
<1> SUFFICES ASSUME Init PROVE SaveInv
  OBVIOUS
<1>1. ckpt = [state |-> "absent", loss |-> NoLoss, launch |-> 0] /\ seen = {} /\ launch = 1
  BY DEF Init
<1>2. ckpt.state = "absent" /\ ckpt.launch = 0
  BY <1>1
<1>3. QED
  BY <1>1, <1>2 DEF SaveInv, TornByCrashOnly, BestKept

\* Every step keeps what is known of the checkpoint.
LEMMA SaveKeeps ==
    ASSUME TrainInv, SaveInv, [Next]_vars
    PROVE  SaveInv'
<1>1. CASE \E p \in Ranks : Step(p)
  <2>1. PICK p \in Ranks : Step(p)
    BY <1>1
  <2>2. UNCHANGED <<script, env, agent, launch, hitSave>>
    BY <2>1 DEF Step, launchVars
  <2>3. Procs' = Procs /\ (AllRanked' <=> AllRanked)
    BY <2>2 DEF Procs, Launched, Ranks, AllRanked
  <2>4. CASE OpenCheckpoint(p) \/ WriteCheckpoint(p)
    <3>1. TornByCrashOnly'
      BY <2>2, <2>4, TornInSaving DEF SaveInv
    <3>2. ckpt'.launch <= launch'
      <4>1. ckpt.launch <= launch /\ launch \in Int
        BY LossTypes DEF SaveInv
      <4>2. ckpt'.launch \in {ckpt.launch, launch}
        BY <2>4 DEF OpenCheckpoint, WriteCheckpoint, TrainInv, Types
      <4>3. QED
        BY <2>2, <4>1, <4>2
    <3>3. AllRanked' => BestKept'
      BY <2>2, <2>3, <2>4, WritingKeepsBest DEF SaveInv
    <3>4. QED
      BY <3>1, <3>2, <3>3 DEF SaveInv
  <2>5. CASE Best(p)
    <3>1. UNCHANGED ckpt
      BY <2>5 DEF Best
    <3>2. AllRanked' => BestKept'
      BY <2>2, <2>3, <2>5, BestKeepsBest DEF SaveInv
    <3>3. QED
      BY <2>2, <2>3, <3>1, <3>2 DEF SaveInv, TornByCrashOnly
  <2>6. CASE \/ SetUp(p) \/ PeerLost(p) \/ (Train(p) /\ ~Best(p))
             \/ Save(p) \/ Destroy(p) \/ Exit(p)
    <3>1. UNCHANGED ckpt
      BY <2>6 DEF SetUp, SetUpRank, InitRaises, ReadLocalRank, FetchEnvVars, WrapCpu, PeerLost,
         Train, GetBatch, Forward, Backward, CheckGradients, OptimizerStep, Evaluate,
         NextIteration, Save, Destroy, Exit
    <3>2. AllRanked' => BestKept'
      BY <2>2, <2>3, <2>6, QuietKeepsBest DEF SaveInv
    <3>3. QED
      BY <2>2, <2>3, <3>1, <3>2 DEF SaveInv, TornByCrashOnly
  <2>7. QED
    BY <2>1, <2>4, <2>5, <2>6 DEF Step, Finish
<1>2. CASE Together
  <2>1. Meet /\ UNCHANGED <<script, env, agent, launch, hitSave, ckpt, seen>>
    BY <1>2 DEF Together, Meet, launchVars
  <2>2. Procs' = Procs /\ (AllRanked' <=> AllRanked)
    BY <2>1 DEF Procs, Launched, Ranks, AllRanked
  <2>3. AllRanked' => BestKept'
    <3>1. 0 \in Procs
      BY LossTypes
    <3>2. /\ Waits(0) /\ At(0) \in {"init", "barrier", "ddp", "backward", "forward", "val"}
          /\ proc'[0].state = "run" /\ proc'[0].iter = proc[0].iter
          /\ proc'[0].todo = Tail(proc[0].todo)
      BY <2>1, <3>1, MeetGives
    <3>3. proc'[0].best = proc[0].best
      BY <2>1, <3>1, MeetGives
    <3>4. proc[0].state = "run" /\ Tail(proc[0].todo)[1] # "open"
      BY <3>1, <3>2, RestOpensNothing DEF Waits
    <3>5. Plain(0)
      BY <3>2, <3>3, <3>4 DEF Plain
    <3>6. QED
      BY <2>1, <2>2, <3>2, <3>4, <3>5, PlainKeepsBest DEF SaveInv
  <2>4. QED
    BY <2>1, <2>2, <2>3 DEF SaveInv, TornByCrashOnly
<1>3. CASE \E p \in Ranks : (Kill(p) \/ HandleSignal(p)) /\ UNCHANGED launchVars
  <2>1. PICK p \in Ranks : Kill(p) /\ UNCHANGED <<script, env, agent, launch>>
    BY <1>3 DEF HandleSignal, launchVars
  <2>2. Procs' = Procs /\ (AllRanked' <=> AllRanked)
    BY <2>1 DEF Procs, Launched, Ranks, AllRanked
  <2>3. /\ p \in Procs /\ proc[p].state = "run" /\ Fails(p) /\ UNCHANGED seen
        /\ ckpt' = (IF p \in Writers THEN [ckpt EXCEPT !.state = "torn"] ELSE ckpt)
        /\ hitSave' = (hitSave \/ p \in Writers)
    BY <2>1 DEF Kill
  <2>4. ckpt'.launch = ckpt.launch
    BY <2>3 DEF TrainInv, Types
  <2>5. TornByCrashOnly'
    BY <2>1, <2>2, <2>3 DEF SaveInv, TornByCrashOnly
  <2>6. AllRanked' => BestKept'
    <3>1. SUFFICES ASSUME AllRanked PROVE BestKept'
      BY <2>2
    <3>2. CASE p \in Writers
      <4>1. p = 0
        BY <2>3, <3>1, <3>2, MasterIsZero DEF Writers, Is
      <4>2. ckpt'.state = "torn"
        BY <2>3, <3>2 DEF TrainInv, Types
      <4>3. proc'[0].state = "failed"
        <5>1. proc'[0] = [Process(script) EXCEPT !.state = "failed"]
          BY <2>3, <4>1, BecomeGives DEF Fails, Ends
        <5>2. QED
          BY <5>1 DEF Process
      <4>4. QED
        BY <2>1, <2>3, <3>1, <4>2, <4>3, NotWholeKeepsBest DEF SaveInv
    <3>3. CASE p \notin Writers /\ p = 0
      <4>1. Plain(0)
        BY <2>3, <3>3, FailsPlainly
      <4>2. proc'[0].state = "failed"
        <5>1. proc'[0] = [Process(script) EXCEPT !.state = "failed"]
          BY <2>3, <3>3, BecomeGives DEF Fails, Ends
        <5>2. QED
          BY <5>1 DEF Process
      <4>3. QED
        BY <2>1, <2>3, <3>1, <3>3, <4>1, <4>2, PlainKeepsBest DEF SaveInv
    <3>4. CASE p \notin Writers /\ p # 0
      <4>1. 0 \in Procs \ {p}
        BY <3>4, LossTypes
      <4>2. proc'[0] = proc[0]
        BY <2>3, <4>1, BecomeGives DEF Fails, Ends
      <4>3. QED
        BY <2>1, <2>3, <3>1, <3>4, <4>2, OthersKeepBest DEF SaveInv
    <3>5. QED
      BY <3>2, <3>3, <3>4
  <2>7. QED
    BY <2>1, <2>4, <2>5, <2>6 DEF SaveInv
<1>4. CASE Relaunch
  <2>1. /\ UNCHANGED <<env, agent, ckpt, hitSave>>
        /\ launch' = launch + 1 /\ seen' = {}
    BY <1>4 DEF Relaunch
  <2>2. Procs' = Procs
    BY <2>1 DEF Procs, Launched, Ranks
  <2>3. ckpt'.launch < launch'
    BY <2>1, LossTypes DEF SaveInv
  <2>4. ckpt'.launch # launch' /\ ckpt'.launch <= launch'
    BY <2>1, <2>3, LossTypes
  <2>5. BestKept'
    BY <2>1, <2>4 DEF BestKept
  <2>6. QED
    BY <2>1, <2>2, <2>4, <2>5 DEF SaveInv, TornByCrashOnly
<1>5. CASE UNCHANGED vars
  BY <1>5 DEF vars, SaveInv, TornByCrashOnly, AllRanked, BestKept, Procs, Launched, Ranks
<1>6. QED
  BY <1>1, <1>2, <1>3, <1>4, <1>5 DEF Next, Run

\* What is known of the checkpoint holds in every reachable state.
LEMMA SaveInvariance == Spec => []SaveInv
<1>1. Init => SaveInv
  BY SaveInit
<1>2. TrainInv /\ SaveInv /\ [Next]_vars => SaveInv'
  BY SaveKeeps
<1>3. QED
  BY <1>1, <1>2, Invariance, PTL DEF Spec

\* A checkpoint file of no use is the work of a process that was killed in
\* torch.save, or of two masters, one of them without a rank.
THEOREM TornOnlyByCrash == Spec => []TornByCrashOnly
<1>1. SaveInv => TornByCrashOnly
  BY DEF SaveInv
<1>2. QED
  BY <1>1, SaveInvariance, PTL

\* The checkpoint of a launch is the best model its master has evaluated, or the
\* one before it while that is being saved or when the master ended there.
THEOREM BestIsSaved == Spec => []CheckpointIsBest
<1>1. TrainInv /\ SaveInv => CheckpointIsBest
  <2> SUFFICES ASSUME TrainInv, SaveInv,
                      ckpt.state = "whole", ckpt.launch = launch,
                      \A p \in Procs : agent[p] = "rank"
               PROVE  /\ ~Is(0, "open") /\ proc[0].state # "failed" =>
                             \A loss \in seen : ckpt.loss <= loss
                      /\ \A a, b \in seen : a < ckpt.loss /\ b < ckpt.loss => a = b
    BY DEF CheckpointIsBest
  <2>1. BestKept
    BY DEF SaveInv, AllRanked
  <2>2. ~Is(0, "open") => proc[0].state # "run" \/ proc[0].todo[1] # "open"
    BY LossTypes DEF Is, At
  <2>3. QED
    BY <2>1, <2>2, LossTypes DEF BestKept
<1>2. QED
  BY <1>1, Invariance, SaveInvariance, PTL

=============================================================================
