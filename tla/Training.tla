------------------------------ MODULE Training ------------------------------
(***************************************************************************)
(* One training job of ml/training/train.py and the artifact directory it  *)
(* writes in place: epochs of micro-batches, an optimizer step for every   *)
(* accumulate_steps of them, validation passes that save a checkpoint, the *)
(* best weights restored for the final artifact, SIGTERM turned into an    *)
(* exception, kills, and restarts with and without --resume.               *)
(*                                                                         *)
(* Weights and optimizer state are the list of micro-batches that made     *)
(* them: two that differ in it are different models.  <<e, i>> is the i-th *)
(* chunk of epoch e's shuffled order, which the seed fixes.  What a        *)
(* validation pass scores is left open.                                    *)
(***************************************************************************)
EXTENDS Integers, Sequences

CONSTANTS
    Configs,       \* training configs, with the sizes of the split
    Scores,        \* what evaluate_pool may return
    None, Torn,    \* no such file; a file cut off while it was written
    MaxKills,      \* bound: processes killed
    MaxInterrupts, \* bound: SIGTERMs
    MaxStarts      \* bound: processes started

TrainingAssumption ==
    /\ Configs \subseteq [chunks : Nat \ {0}, single : BOOLEAN, accumulate : Nat \ {0},
                          epochs : Nat \ {0}, maxSteps : Nat, evalEvery : Nat,
                          checkpoint : BOOLEAN, pool : BOOLEAN]
    /\ Scores \subseteq Nat
    /\ {MaxKills, MaxInterrupts, MaxStarts} \subseteq Nat
    /\ {None, Torn} \cap [step : Nat, epoch : Nat, optimizer : Seq(Nat \X Nat)] = {}

VARIABLES
    config,   \* the job's, the same for every process
    pc,       \* where the process is in train(); "off" when there is none
    run,      \* its memory
    weights,  \* weights.pt: None, Torn or the micro-batches behind it,
    artifact, \* artifact.json,
    state,    \* and training_state.pt
    kills, interrupts, starts

files == <<weights, artifact, state>>
bounds == <<kills, interrupts, starts>>
vars == <<config, pc, run, files, bounds>>

Ceil(a, b) == (a + b - 1) \div b

StepsPerEpoch == Ceil(config.chunks, config.accumulate)

TotalSteps ==
    IF config.maxSteps > 0 THEN config.maxSteps ELSE StepsPerEpoch * config.epochs

\* The chunk that is left out: the last one, when it holds one example.
Skipped(i) == config.single /\ i = config.chunks

\* Faulty variant: steps are passed over as if each were one chunk.
FirstChunkBySteps(step, epoch) ==
    LET done == step - epoch * StepsPerEpoch
    IN  IF done > 0 THEN done + 1 ELSE 1

\* The chunk an epoch starts at: ExampleBatcher.batches passes over the
\* chunks of the optimizer steps the epoch is taken to have had.
FirstChunk(step, epoch) ==
    LET done == step - epoch * StepsPerEpoch
    IN  IF done > 0 THEN done * config.accumulate + 1 ELSE 1

Unscored == [score |-> -1, step |-> 0, weights |-> None]

FreshRun == [step |-> 0, epoch |-> 0, chunk |-> 1, grads |-> <<>>, weights |-> <<>>,
             optimizer |-> <<>>, best |-> Unscored, final |-> FALSE,
             interrupted |-> FALSE, scored |-> {}]

Init ==
    /\ config \in Configs
    /\ pc = "off"
    /\ run = FreshRun
    /\ weights = None /\ artifact = None /\ state = None
    /\ kills = 0 /\ interrupts = 0 /\ starts = 0
-----------------------------------------------------------------------------
(* The process starts.                                                     *)

StartProcess ==
    /\ pc = "off" /\ starts < MaxStarts
    /\ starts' = starts + 1
    /\ pc' = "train"
    /\ UNCHANGED <<config, files, kills, interrupts>>

\* Without --resume, or with it and no training_state.pt.
StartFresh ==
    /\ StartProcess
    /\ run' = FreshRun

\* The best checkpoint's score and weights are not part of the state.
ResumedRun ==
    [FreshRun EXCEPT !.step = state.step, !.epoch = state.epoch,
                     !.chunk = FirstChunk(state.step, state.epoch),
                     !.weights = weights, !.optimizer = state.optimizer]

\* --resume.  A torn file fails to load: no process then.
Resume ==
    /\ state \notin {None, Torn} /\ weights # Torn
    /\ StartProcess
    /\ run' = ResumedRun
-----------------------------------------------------------------------------
(* The training loop.                                                      *)

\* A chunk of one example has no in-batch negatives.
SkipChunk ==
    /\ pc = "train" /\ run.chunk <= config.chunks
    /\ Skipped(run.chunk)
    /\ run' = [run EXCEPT !.chunk = @ + 1]
    /\ UNCHANGED <<config, pc, files, bounds>>

\* The backward pass of a micro-batch; the last of a group is followed by
\* optimizer.step() and scheduler.step().
MicroBatch ==
    /\ pc = "train" /\ run.chunk <= config.chunks
    /\ ~ Skipped(run.chunk)
    /\ LET grads == Append(run.grads, <<run.epoch, run.chunk>>) IN
       IF Len(grads) < config.accumulate
       THEN /\ run' = [run EXCEPT !.chunk = @ + 1, !.grads = grads]
            /\ UNCHANGED pc
       ELSE /\ run' = [run EXCEPT !.chunk = @ + 1, !.grads = <<>>,
                                  !.weights = @ \o grads, !.optimizer = @ \o grads]
            /\ pc' = "applied"
    /\ UNCHANGED <<config, files, bounds>>

\* state["step"] is counted after the update; then a validation pass, the
\* end of the loop, or the next chunk.
Onward(step) == IF step >= TotalSteps THEN "last" ELSE "train"

CountStep ==
    /\ pc = "applied"
    /\ LET step == run.step + 1
           due == config.evalEvery > 0 /\ step % config.evalEvery = 0
                  /\ step # TotalSteps
       IN  /\ run' = [run EXCEPT !.step = step]
           /\ pc' = IF due THEN "validate" ELSE Onward(step)
    /\ UNCHANGED <<config, files, bounds>>

\* What an epoch leaves of its last group of micro-batches is dropped.
NextEpoch ==
    /\ pc = "train" /\ run.chunk > config.chunks
    /\ run.epoch + 1 < config.epochs /\ run.step < TotalSteps
    /\ run' = [run EXCEPT !.epoch = @ + 1, !.chunk = FirstChunk(run.step, run.epoch + 1),
                          !.grads = <<>>]
    /\ UNCHANGED <<config, pc, files, bounds>>

LeaveLoop ==
    /\ \/ pc = "last"
       \/ /\ pc = "train" /\ run.chunk > config.chunks
          /\ run.epoch + 1 = config.epochs \/ run.step >= TotalSteps
    /\ run' = [run EXCEPT !.final = TRUE]
    /\ pc' = "validate"
    /\ UNCHANGED <<config, files, bounds>>
-----------------------------------------------------------------------------
(* Validation and the files.                                               *)

\* Faulty variant: only the end of the run is saved.
AfterPassFinalOnly(r) == IF r.final THEN "weights" ELSE Onward(r.step)

AfterPass(r) ==
    IF r.final \/ config.checkpoint THEN "weights" ELSE Onward(r.step)

\* The final artifact has the best weights this process has seen.
Selected(r) ==
    IF r.final /\ config.pool /\ r.best.weights # None /\ r.best.step # r.step
    THEN [r EXCEPT !.weights = r.best.weights]
    ELSE r

Validate(score) ==
    /\ pc = "validate"
    /\ LET seen == [run EXCEPT !.scored = @ \cup {[step |-> run.step, score |-> score,
                                                   weights |-> run.weights]}]
           kept == IF config.pool /\ score > run.best.score
                   THEN [seen EXCEPT !.best = [score |-> score, step |-> run.step,
                                               weights |-> run.weights]]
                   ELSE seen
       IN  run' = Selected(kept)
    /\ pc' = AfterPass(run)
    /\ UNCHANGED <<config, files, bounds>>

\* save_artifact: model.save writes the weights and the metadata, torch.save
\* the state; each in place.
SaveWeights ==
    /\ pc = "weights"
    /\ weights' = run.weights
    /\ pc' = "artifact"
    /\ UNCHANGED <<config, run, artifact, state, bounds>>

SaveMetadata ==
    /\ pc = "artifact"
    /\ artifact' = [step |-> run.step, best |-> run.best.step, final |-> run.final,
                    interrupted |-> run.interrupted]
    /\ pc' = "state"
    /\ UNCHANGED <<config, run, weights, state, bounds>>

SaveState ==
    /\ pc = "state"
    /\ state' = [step |-> run.step, epoch |-> run.epoch, optimizer |-> run.optimizer]
    /\ pc' = IF run.final THEN "off" ELSE Onward(run.step)
    /\ UNCHANGED <<config, run, weights, artifact, bounds>>
-----------------------------------------------------------------------------
(* Interruptions.                                                          *)

\* KeyboardInterrupt is caught around the loop only: a final validation pass
\* and a final save follow.
Interrupt ==
    /\ interrupts < MaxInterrupts
    /\ pc # "off" /\ ~ run.final
    /\ interrupts' = interrupts + 1
    /\ run' = [run EXCEPT !.interrupted = TRUE, !.final = TRUE, !.grads = <<>>]
    /\ pc' = "validate"
    /\ \/ UNCHANGED weights
       \/ pc = "weights" /\ weights' = Torn
    /\ \/ UNCHANGED state
       \/ pc = "state" /\ state' = Torn
    /\ UNCHANGED <<config, artifact, kills, starts>>

\* SIGKILL, out of memory, a second SIGTERM: a file under write is left torn.
Kill ==
    /\ kills < MaxKills
    /\ pc # "off"
    /\ kills' = kills + 1
    /\ pc' = "off"
    /\ \/ UNCHANGED weights
       \/ pc = "weights" /\ weights' = Torn
    /\ \/ UNCHANGED state
       \/ pc = "state" /\ state' = Torn
    /\ UNCHANGED <<config, run, artifact, interrupts, starts>>

\* Nobody starts it again: it is finished, or the bound is reached.
Finished == pc = "off" /\ starts = MaxStarts /\ UNCHANGED vars

Next ==
    \/ StartFresh \/ Resume
    \/ SkipChunk \/ MicroBatch \/ CountStep \/ NextEpoch \/ LeaveLoop
    \/ \E score \in Scores : Validate(score)
    \/ SaveWeights \/ SaveMetadata \/ SaveState
    \/ Interrupt \/ Kill \/ Finished

Spec == Init /\ [][Next]_vars
-----------------------------------------------------------------------------
(* Properties.                                                             *)

Chunks == Nat \X Nat

\* Types; and no epoch is entered behind its last chunk.
TypeOK ==
    /\ config \in Configs
    /\ pc \in {"off", "train", "applied", "last", "validate", "weights", "artifact", "state"}
    /\ run.step \in 0 .. TotalSteps + starts /\ run.epoch \in 0 .. config.epochs - 1
    /\ run.chunk \in 1 .. config.chunks + 1
    /\ run.weights \in Seq(Chunks) /\ run.optimizer \in Seq(Chunks)
    /\ Len(run.grads) < config.accumulate
    /\ weights \in Seq(Chunks) \cup {None, Torn}
    /\ artifact # None => artifact.best <= artifact.step
    /\ state \notin {None, Torn} => state.step <= TotalSteps + starts

\* Every optimizer step of an epoch is made of accumulate micro-batches, and
\* no chunk is left over.
EvenEpochs ==
    ~ config.single /\ config.chunks = StepsPerEpoch * config.accumulate

\* What a process that nothing disturbs has trained on: the chunks in their
\* order, epoch by epoch.
Undisturbed(batches) ==
    \A k \in DOMAIN batches :
        LET epoch == batches[k][1]
            chunk == batches[k][2]
        IN  chunk \in 1 .. config.chunks /\ epoch * config.chunks + chunk = k

\* A killed or interrupted run that goes on from a checkpoint whose parts
\* belong together (weights and optimizer of the same steps, all counted)
\* is the run that was never disturbed: no batch is left out, trained on
\* twice or taken in another order (train() and ExampleBatcher.batches).
SameDataOrder ==
    /\ EvenEpochs
    /\ run.weights = run.optimizer
    /\ Len(run.optimizer) = run.step * config.accumulate
    => Undisturbed(run.weights)

\* With checkpoints on, a kill at any point costs at most eval_every steps,
\* as long as it tears no file (the loop of train()).
KillLosesLittle ==
    /\ config.checkpoint /\ config.evalEvery > 0
    /\ state # Torn
    => run.step <= (IF state = None THEN 0 ELSE state.step) + config.evalEvery

\* The weights of a final artifact are those this process scored highest,
\* and best_step names them, unless a step was interrupted before it was
\* counted (validate, save_artifact and the restore before the last save).
FinalIsBest ==
    /\ pc = "state" /\ run.final /\ config.pool
    /\ \A p, q \in run.scored : p.step = q.step => p.weights = q.weights
    => \E p \in run.scored : /\ p.weights = weights /\ p.step = artifact.best
                             /\ \A q \in run.scored : q.score <= p.score

\* A process that resumes has the weights its optimizer state belongs to.
ResumeContinues ==
    pc # "off" /\ ~ run.final => run.weights = run.optimizer
=============================================================================
