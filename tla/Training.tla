------------------------------ MODULE Training ------------------------------
(***************************************************************************)
(* The training scripts: one process per rank runs a script, a sequence of *)
(* instructions, and meets the others in the collective operations of a    *)
(* torch.distributed process group.  Processes crash, are sent signals,    *)
(* and are launched again.                                                 *)
(*                                                                         *)
(* torch.distributed (gloo) is external: a collective is one joint step of *)
(* all processes, and a process that waits for one that has ended raises.  *)
(***************************************************************************)
EXTENDS Integers, Sequences, FiniteSets

CONSTANTS
    N,             \* processes of a distributed launch: WORLD_SIZE
    BatchSizes,    \* global batch sizes
    MaxIters,      \* max_iters, or the batches of all epochs
    EvalInterval,  \* eval_interval
    EvalIters,     \* eval_iters
    MaxLoss,       \* bound: validation losses are 1..MaxLoss
    MaxNaNs,       \* bound: iterations with a NaN in a behaviour
    MaxLaunches    \* bound: launches in a behaviour

ASSUME TrainingAssumption ==
    /\ {N, MaxIters, EvalInterval, EvalIters, MaxLoss, MaxLaunches} \subseteq Nat \ {0}
    /\ BatchSizes \subseteq Nat \ {0}
    /\ MaxNaNs \in Nat

VARIABLES
    script,   \* the script the processes run
    env,      \* RANK and LOCAL_RANK, where the launcher sets them
    batch,    \* batch_size
    agent,    \* agent[p]: what GET /env of p's agent answers
    proc,     \* proc[p]: process p, of rank p where RANK is set
    ckpt,     \* the checkpoint file
    seen,     \* history: the validation losses of this launch, on rank 0
    hit,      \* history: a process of this launch was hit by a crash or a signal
    hitSave,  \* history: a process was killed in torch.save, in some launch
    nans,     \* bound: iterations with a NaN so far
    launch    \* bound: launches so far

vars == <<script, env, batch, agent, proc, ckpt, seen, hit, hitSave, nans, launch>>

-----------------------------------------------------------------------------
(* The scripts.                                                              *)
(*   rank?    a process without RANK is not distributed                      *)
(*   many?    a process with WORLD_SIZE 1 is not distributed                 *)
(*   init     init_process_group       local     os.environ['LOCAL_RANK']    *)
(*   agent    fetch_env_vars           barrier   dist.barrier                *)
(*   ddp      DDP(model)               ddpcpu    DistributedDataParallelCPU  *)
(*   batch    get_batch                forward   model(X, Y)                 *)
(*   backward loss.backward            check     the test for NaN gradients  *)
(*   step     optimizer.step           evaluate  the master's evaluation     *)
(*   next     the end of an iteration  save      torch.save by the master    *)
(* Of the models only train_sample's has buffers, those of its BatchNorm.    *)

\* user_code/train.py
TrainPy ==
    [setup   |-> <<"init", "agent", "ddp">>,
     body    |-> <<"batch", "forward", "backward", "check", "step", "evaluate", "next">>,
     tail    |-> <<"destroy", "exit">>,
     last    |-> MaxIters,
     atLeast |-> 1,
     buffers |-> FALSE]

\* workspace/compute/train.py
ComputeTrainPy ==
    [setup   |-> <<"rank?", "init", "local", "ddp">>,
     body    |-> <<"batch", "forward", "backward", "check", "step", "evaluate", "next">>,
     tail    |-> <<"destroy", "exit">>,
     last    |-> MaxIters,
     atLeast |-> 1,
     buffers |-> FALSE]

\* workspace/compute/main.py: a process group, then train() with another.
ComputeMainPy == [ComputeTrainPy EXCEPT !.setup = <<"init">> \o @]

\* workspace/train_single.py
TrainSinglePy ==
    [setup   |-> <<"rank?", "init", "local", "ddp">>,
     body    |-> <<"batch", "forward", "backward", "step", "evaluate", "next">>,
     tail    |-> <<"destroy", "exit">>,
     last    |-> MaxIters,
     atLeast |-> 0,
     buffers |-> FALSE]

\* workspace/train_sample.py
TrainSamplePy ==
    [setup   |-> <<"rank?", "init", "barrier", "local", "ddp">>,
     body    |-> <<"batch", "forward", "backward", "step", "next">>,
     tail    |-> <<"destroy", "exit">>,
     last    |-> MaxIters - 1,
     atLeast |-> 0,
     buffers |-> TRUE]

\* workspace/test_deployment/train.py: the sampler divides the data, not the batch.
DeploymentPy ==
    [setup   |-> <<"init", "ddp">>,
     body    |-> <<"forward", "backward", "step", "next">>,
     tail    |-> <<"save", "exit">>,
     last    |-> MaxIters - 1,
     atLeast |-> 1,
     buffers |-> FALSE]

\* user_code/mnist.py --no-cuda --save-model
MnistPy == [DeploymentPy EXCEPT !.setup = <<"many?", "init", "ddpcpu">>]

\* Mutant: torch has no flash attention, and GPT registers its causal mask.
HasBuffers_SlowAttention(s) == s.buffers \/ "evaluate" \in {s.body[i] : i \in DOMAIN s.body}

\* The model has buffers: DDP broadcasts them in every forward pass.
HasBuffers(s) == s.buffers

Scripts == {TrainPy, ComputeTrainPy, ComputeMainPy, TrainSinglePy, TrainSamplePy,
            DeploymentPy, MnistPy}

\* A plain shell, the compute engine, torchrun.
Environments == {{}, {"RANK"}, {"RANK", "LOCAL_RANK"}}

-----------------------------------------------------------------------------

Ranks == 0 .. N - 1

\* Without RANK there is one process.
Launched(e) == IF e = {} THEN {0} ELSE Ranks
Procs == Launched(env)

\* Mutant: the best loss starts at zero.
NoLoss_Zero == 0

NoLoss == MaxLoss + 1    \* float('inf')

Process(s) ==
    [state   |-> "run",
     todo    |-> s.setup \o s.body,
     dist    |-> TRUE,        \* is_distributed
     member  |-> FALSE,       \* of the process group
     iter    |-> 0,           \* iter_num
     updates |-> 0,           \* updates the weights have had
     bad     |-> FALSE,       \* the gradients have a NaN
     best    |-> NoLoss]      \* best_val_loss

\* p's next instruction.
At(p) == proc[p].todo[1]
Is(p, i) == p \in Procs /\ proc[p].state = "run" /\ At(p) = i

Ended(p) == proc[p].state \in {"done", "failed"}

Reads(s, i) == \E k \in DOMAIN s.setup : s.setup[k] = i

\* (A variable that the script does not read is taken as not set.)
Init ==
    /\ script \in Scripts
    /\ env \in Environments
    /\ "LOCAL_RANK" \in env => Reads(script, "local")
    /\ batch \in BatchSizes
    /\ agent \in [Launched(env) -> {"rank", "norank", "down"}]
    /\ script # TrainPy => agent = [p \in Launched(env) |-> "rank"]
    /\ proc = [p \in Launched(env) |-> Process(script)]
    /\ ckpt = [state |-> "absent", loss |-> NoLoss, launch |-> 0]
    /\ seen = {}
    /\ hit = FALSE
    /\ hitSave = FALSE
    /\ nans = 0
    /\ launch = 1

Become(p, new) == proc' = [proc EXCEPT ![p] = new]

\* p goes on to the instructions that follow.
Rest(p) == [proc[p] EXCEPT !.todo = Tail(@)]
Goes(p, todo) == Become(p, [proc[p] EXCEPT !.todo = todo])

\* Of a process that has ended only the outcome is left.
Ends(p, how) == Become(p, [Process(script) EXCEPT !.state = how])
Fails(p) == Ends(p, "failed")

Instead(p, todo) == todo \o Tail(proc[p].todo)

-----------------------------------------------------------------------------
(* Setting up *)

\* A process that is not to be distributed leaves the process group out.
SetUpRank(p) ==
    /\ Is(p, "rank?") \/ Is(p, "many?")
    /\ LET alone == IF At(p) = "rank?" THEN env = {} ELSE env = {} \/ N = 1 IN
       Become(p, IF alone THEN [proc[p] EXCEPT !.todo = script.body, !.dist = FALSE] ELSE Rest(p))
    /\ UNCHANGED <<ckpt, seen, nans>>

\* init_process_group needs RANK, and no process group yet.
InitRaises(p) ==
    /\ Is(p, "init")
    /\ env = {} \/ proc[p].member
    /\ Fails(p)
    /\ UNCHANGED <<ckpt, seen, nans>>

ReadLocalRank(p) ==
    /\ Is(p, "local")
    /\ IF "LOCAL_RANK" \in env THEN Become(p, Rest(p)) ELSE Fails(p)
    /\ UNCHANGED <<ckpt, seen, nans>>

\* fetch_env_vars raises what the request raises.  Without a rank in the answer
\* the process trains by itself, as the master.
FetchEnvVars(p) ==
    /\ Is(p, "agent")
    /\ CASE agent[p] = "down"   -> Fails(p)
         [] agent[p] = "norank" -> Become(p, [Rest(p) EXCEPT !.dist = FALSE])
         [] agent[p] = "rank"   -> Become(p, Rest(p))
    /\ UNCHANGED <<ckpt, seen, nans>>

\* Mutant: every rank evaluates and saves.
Master_All(p) == TRUE

\* is_master
Master(p) == p = 0 \/ ~proc[p].dist

\* A class torch no longer has, for a process that is distributed.
WrapCpu(p) ==
    /\ Is(p, "ddpcpu")
    /\ Fails(p)
    /\ UNCHANGED <<ckpt, seen, nans>>

-----------------------------------------------------------------------------
(* Collective operations *)

Max(a, b) == IF a > b THEN a ELSE b

\* The instruction is a collective, for p.
Collective(p, i) ==
    CASE i = "init"                  -> env # {} /\ ~proc[p].member
      [] i = "barrier"               -> TRUE
      [] i \in {"ddp", "backward"}   -> proc[p].dist
      [] i \in {"forward", "val"}    -> proc[p].dist /\ HasBuffers(script)
      [] OTHER                       -> FALSE

Waits(p) == proc[p].state = "run" /\ Collective(p, At(p))

\* Mutant: a process looks at the gradients of its own batch.
Averaged_Local(nan, p) == p \in nan

\* The gradients p holds after the all-reduce, if those of nan have a NaN.
Averaged(nan, p) == nan # {}

\* Gradients with a NaN in the batches of these processes.
NaNs(ps) ==
    \E nan \in SUBSET ps :
        /\ nan # {} => nans < MaxNaNs
        /\ nans' = IF nan # {} THEN nans + 1 ELSE nans
        /\ proc' = [p \in Procs |-> IF p \in ps THEN [Rest(p) EXCEPT !.bad = Averaged(nan, p)]
                                    ELSE proc[p]]

\* All processes have come to the same collective.
Meet ==
    /\ \A p \in Procs : Waits(p) /\ At(p) = At(0)
    /\ IF At(0) = "backward"
       THEN NaNs(Procs)
       ELSE /\ proc' = [p \in Procs |-> [Rest(p) EXCEPT !.member = TRUE]]
            /\ UNCHANGED nans
    /\ UNCHANGED <<ckpt, seen>>

\* A process that waits for one that has ended raises.
PeerLost(p) ==
    /\ p \in Procs
    /\ Waits(p)
    /\ \E q \in Procs : Ended(q)
    /\ Fails(p)
    /\ UNCHANGED <<ckpt, seen, nans>>

-----------------------------------------------------------------------------
(* The training loop *)

\* Mutant: a share of the batch that is zero stays zero.
BatchOf_NoFloor(p) == IF proc[p].dist THEN batch \div N ELSE batch

\* p's share of the batch.
BatchOf(p) == IF proc[p].dist THEN Max(batch \div N, script.atLeast) ELSE batch

\* torch.stack and view raise on no windows at all.
GetBatch(p) ==
    /\ Is(p, "batch")
    /\ IF BatchOf(p) = 0 THEN Fails(p) ELSE Become(p, Rest(p))
    /\ UNCHANGED <<ckpt, seen, nans>>

\* DDP(model) of a process that is not distributed is model itself.
Forward(p) ==
    /\ Is(p, "forward") \/ Is(p, "val") \/ Is(p, "ddp")
    /\ ~Waits(p)
    /\ Become(p, Rest(p))
    /\ UNCHANGED <<ckpt, seen, nans>>

Backward(p) ==
    /\ Is(p, "backward")
    /\ ~Waits(p)
    /\ NaNs({p})
    /\ UNCHANGED <<ckpt, seen>>

\* An iteration with a NaN is begun anew.  zero_grad drops the gradients.
CheckGradients(p) ==
    /\ Is(p, "check")
    /\ Become(p, IF proc[p].bad
                 THEN [proc[p] EXCEPT !.todo = script.body, !.bad = FALSE]
                 ELSE Rest(p))
    /\ UNCHANGED <<ckpt, seen, nans>>

OptimizerStep(p) ==
    /\ Is(p, "step")
    /\ Become(p, [Rest(p) EXCEPT !.updates = @ + 1, !.bad = FALSE])
    /\ UNCHANGED <<ckpt, seen, nans>>

NextIteration(p) ==
    /\ Is(p, "next")
    /\ Become(p, [proc[p] EXCEPT !.iter = @ + 1,
                                 !.todo = IF proc[p].iter + 1 > script.last
                                          THEN script.tail ELSE script.body])
    /\ UNCHANGED <<ckpt, seen, nans>>

-----------------------------------------------------------------------------
(* Evaluation and checkpoint *)

Evaluate(p) ==
    /\ Is(p, "evaluate")
    /\ Goes(p, IF Master(p) /\ proc[p].iter % EvalInterval = 0
               THEN Instead(p, [i \in 1..EvalIters |-> "val"] \o <<"best">>)
               ELSE Tail(proc[p].todo))
    /\ UNCHANGED <<ckpt, seen, nans>>

\* Mutant: always_save_checkpoint, which the script sets and never reads.
Improves_Always(loss, best) == TRUE

Improves(loss, best) == loss < best

\* The best loss of iteration 0 is noted, and not saved.
Best(p) ==
    /\ Is(p, "best")
    /\ \E loss \in 1..MaxLoss :
         /\ seen' = IF p = 0 /\ proc[p].iter > 0 THEN seen \cup {loss} ELSE seen
         /\ Become(p, IF Improves(loss, proc[p].best)
                      THEN [proc[p] EXCEPT
                             !.best = loss,
                             !.todo = Instead(p, IF proc[p].iter > 0 THEN <<"open", "write">>
                                                                     ELSE <<>>)]
                      ELSE Rest(p))
    /\ UNCHANGED <<ckpt, nans>>

\* The scripts that save once do it on rank 0.
Save(p) ==
    /\ Is(p, "save")
    /\ Goes(p, IF Master(p) THEN Instead(p, <<"open", "write">>) ELSE Tail(proc[p].todo))
    /\ UNCHANGED <<ckpt, seen, nans>>

\* Processes in torch.save.
Writers == {p \in Procs : Is(p, "write")}

\* torch.save truncates the file first.  The file two processes write at once
\* is of no use.
OpenCheckpoint(p) ==
    /\ Is(p, "open")
    /\ Become(p, Rest(p))
    /\ ckpt' = [ckpt EXCEPT !.state = IF Writers = {} THEN "writing" ELSE "torn"]
    /\ UNCHANGED <<seen, nans>>

WriteCheckpoint(p) ==
    /\ Is(p, "write")
    /\ Become(p, Rest(p))
    /\ ckpt' = IF ckpt.state = "writing"
               THEN [state |-> "whole", loss |-> proc[p].best, launch |-> launch]
               ELSE ckpt
    /\ UNCHANGED <<seen, nans>>

\* destroy_process_group
Destroy(p) ==
    /\ Is(p, "destroy")
    /\ Become(p, [Rest(p) EXCEPT !.member = FALSE])
    /\ UNCHANGED <<ckpt, seen, nans>>

Exit(p) ==
    /\ Is(p, "exit")
    /\ Ends(p, "done")
    /\ UNCHANGED <<ckpt, seen, nans>>

-----------------------------------------------------------------------------
(* Crashes, signals and launches *)

\* p is killed, wherever it is.
Kill(p) ==
    /\ p \in Procs
    /\ proc[p].state = "run"
    /\ Fails(p)
    /\ ckpt' = IF p \in Writers THEN [ckpt EXCEPT !.state = "torn"] ELSE ckpt
    /\ hit' = TRUE
    /\ hitSave' = (hitSave \/ p \in Writers)
    /\ UNCHANGED <<seen, nans>>

\* The handlers of user_code/train.py run in the main thread.  handle_offload_task
\* reads names the module does not define, and update_env raises what
\* fetch_env_vars does: p ends as if killed, once the call that waits returns.
HandleSignal(p) == script = TrainPy /\ p \in Procs /\ ~Waits(p) /\ Kill(p)

\* The compute engines start the script again.
Relaunch ==
    /\ \A p \in Procs : Ended(p)
    /\ launch < MaxLaunches
    /\ launch' = launch + 1
    /\ proc' = [p \in Procs |-> Process(script)]
    /\ seen' = {}
    /\ hit' = FALSE
    /\ UNCHANGED <<script, env, batch, agent, ckpt, hitSave, nans>>

-----------------------------------------------------------------------------

SetUp(p) ==
    \/ SetUpRank(p) \/ InitRaises(p) \/ ReadLocalRank(p) \/ FetchEnvVars(p) \/ WrapCpu(p)

Train(p) ==
    \/ GetBatch(p) \/ Forward(p) \/ Backward(p) \/ CheckGradients(p) \/ OptimizerStep(p)
    \/ Evaluate(p) \/ Best(p) \/ NextIteration(p)

Finish(p) ==
    \/ Save(p) \/ OpenCheckpoint(p) \/ WriteCheckpoint(p) \/ Destroy(p) \/ Exit(p)

launchVars == <<script, env, batch, agent, launch>>

Step(p) ==
    /\ SetUp(p) \/ Train(p) \/ Finish(p) \/ PeerLost(p)
    /\ UNCHANGED <<launchVars, hit, hitSave>>

Together == Meet /\ UNCHANGED <<launchVars, hit, hitSave>>

Run == (\E p \in Ranks : Step(p)) \/ Together

Next ==
    \/ Run
    \/ \E p \in Ranks : (Kill(p) \/ HandleSignal(p)) /\ UNCHANGED launchVars
    \/ Relaunch

Spec == Init /\ [][Next]_vars

\* As long as a process can go on, or a collective to which all have come can
\* complete, one does.
FairSpec == Spec /\ WF_vars(Run)

-----------------------------------------------------------------------------
(* Safety *)

Instructions ==
    {"rank?", "many?", "init", "local", "agent", "barrier", "ddp", "ddpcpu",
     "batch", "forward", "backward", "check", "step", "evaluate", "val", "best", "next",
     "save", "open", "write", "destroy", "exit"}

ProcessType ==
    [state   : {"run", "done", "failed"},
     todo    : Seq(Instructions),
     dist    : BOOLEAN,
     member  : BOOLEAN,
     iter    : Nat,
     updates : Nat,
     bad     : BOOLEAN,
     best    : 1..NoLoss]

\* Every variable has its type, and a process has an instruction to go on with.
TrainingTypeOK ==
    /\ script \in Scripts
    /\ env \in Environments
    /\ batch \in BatchSizes
    /\ agent \in [Procs -> {"rank", "norank", "down"}]
    /\ proc \in [Procs -> ProcessType]
    /\ \A p \in Procs : proc[p].todo # <<>>
    /\ ckpt \in [state : {"absent", "writing", "torn", "whole"}, loss : 1..NoLoss, launch : Nat]
    /\ seen \subseteq 1..MaxLoss
    /\ {hit, hitSave} \subseteq BOOLEAN
    /\ nans \in 0..MaxNaNs
    /\ launch \in 1..MaxLaunches

\* Processes that wait for each other wait in the same collective.  (Only the
\* master evaluates and saves: its extra forward passes must not be collectives,
\* which they are as soon as the model has a buffer.)
CollectivesMatch ==
    (\A p \in Procs : Waits(p)) => \A p, q \in Procs : At(p) = At(q)

\* Replicas that average their gradients have had the same updates, in the same
\* iterations.  (They skip an update for a NaN, each on its own: the NaN of one
\* batch must make all of them skip.)
ReplicasAgree ==
    \A p, q \in Procs :
        (Waits(p) /\ Waits(q) /\ At(p) = "backward" /\ At(q) = "backward") =>
            /\ proc[p].updates = proc[q].updates
            /\ proc[p].iter = proc[q].iter

\* A checkpoint that cannot be read is the work of a crash in the middle of
\* torch.save, in this or an earlier launch, or of several masters: agents that
\* have no rank.
TornByCrashOnly ==
    ckpt.state = "torn" => hitSave \/ \E p \in Procs : agent[p] = "norank"

\* The checkpoint of a launch is the best model its master has evaluated, once
\* there is one.  While a better one is being saved it may be the one before, and
\* it stays that when the master ends there: a crash costs one improvement.
\* (Iterations are repeated for NaNs, and iteration 0 counts but is not saved.)
CheckpointIsBest ==
    (/\ ckpt.state = "whole"
     /\ ckpt.launch = launch
     /\ \A p \in Procs : agent[p] = "rank") =>
        /\ ~Is(0, "open") /\ proc[0].state # "failed" => \A loss \in seen : ckpt.loss <= loss
        /\ \A a, b \in seen : a < ckpt.loss /\ b < ckpt.loss => a = b

-----------------------------------------------------------------------------
(* Liveness *)

\* The environment gives the script what it reads.
Suits ==
    CASE script = TrainPy       -> env # {} /\ \A p \in Procs : agent[p] = "rank"
      [] script = DeploymentPy  -> env # {}
      [] script = ComputeMainPy -> FALSE
      [] script = MnistPy       -> env = {} \/ N = 1
      [] OTHER                  -> env # {"RANK"}

\* The global batch can be divided by the script.
Divides == env # {} => Max(batch \div N, script.atLeast) > 0

Completed == \A p \in Procs : proc[p].state = "done"

\* A launch in an environment that suits the script completes on every rank,
\* unless a crash or a signal hits it.  (What suits and divides does so in every
\* launch.  NaNs stop coming; the loop that skips them has no other end.)
TrainingCompletes == []<>(Suits /\ Divides => hit \/ Completed)

\* No process is left behind: whatever happens to the others, the processes of
\* every launch, of the last one too, end.
NobodyHangs == <>[](\A p \in Procs : Ended(p))

=============================================================================
