---------------------------- MODULE TrainingJob ----------------------------
(***************************************************************************)
(* One job directory of the training service, from POST megatron/train to  *)
(* COMPLETED or FAILED:                                                    *)
(*                                                                         *)
(*   the API process   launch_training_job, and restart_megatron_jobs every *)
(*                     megatron_refresh_period; one event loop, and neither *)
(*                     awaits anything that suspends, so never both at once *)
(*   slurm             runs what sbatch submits, and may kill it           *)
(*   the trainer       ml/cray_megatron/main.py, one process per slurm job *)
(*                     (gpus = nodes = 1, the default)                     *)
(*                                                                         *)
(* They share status.json and the checkpoints in the directory and no lock: *)
(* every update of status.json is a read, an open that truncates and a     *)
(* write, three steps between which the others run.  config.yaml is left   *)
(* out: each launch writes it before status.json, and it never changes.    *)
(***************************************************************************)
EXTENDS Integers, Sequences, FiniteSets

CONSTANTS
    MaxSteps,           \* job_config["max_steps"]
    StepsPerCheckpoint, \* job_config["steps_per_checkpoint"]
    KeepCheckpoints,    \* job_config["max_checkpoints_to_keep"]
    HistoryLength,      \* job_config["training_history_length"]
    Torn,               \* a process can be stopped between an open and its write
    Timely,             \* run_sbatch ends before the job's python starts
    MaxJobs,            \* bound: slurm jobs that are submitted
    MaxKills,           \* bound: slurm jobs that are killed or signalled
    MaxCrashes,         \* bound: deaths of the API process or the container
    MaxErrors           \* bound: slurm commands that fail

ASSUME TrainingAssumption ==
    /\ MaxSteps \in Nat \ {0}
    /\ StepsPerCheckpoint \in Nat \ {0}
    /\ KeepCheckpoints \in Nat \ {0}
    /\ HistoryLength \in Nat \ {0, 1}
    /\ Torn \in BOOLEAN /\ Timely \in BOOLEAN
    /\ MaxJobs \in Nat /\ MaxKills \in Nat
    /\ MaxCrashes \in Nat /\ MaxErrors \in Nat

VARIABLES
    file,       \* status.json
    ckpt,       \* checkpoint_<step>.pt: "none", "partial" or "saved"
    api,        \* where the API process is
    asub,       \* ... and where in write_job_status
    abuf,       \* ... the job_status that it is going to write
    listed,     \* the job is in slurm_job_names
    submitted,  \* how many times sbatch has succeeded
    slurm,      \* the state of each slurm job
    phase,      \* where the trainer of each slurm job is
    sub,        \* ... and where in update_status or torch.save
    tbuf,       \* ... the current_status that it is going to write
    step,       \* training_state.current_step
    history,    \* training_state.history: the steps of its entries
    stop,       \* training_state.should_stop_training
    kills, crashes, errors,
    swallowed   \* a signal ended in an except clause of update_status

apiVars == <<api, asub, abuf, listed>>
slurmVars == <<submitted, slurm>>
trainerVars == <<phase, sub, tbuf, step, history, stop>>
faultVars == <<kills, crashes, errors, swallowed>>
vars == <<file, ckpt, apiVars, slurmVars, trainerVars, faultVars>>

Jobs == 1 .. MaxJobs
Steps == 0 .. MaxSteps - 1

TrainingJobStatus == {"QUEUED", "TRAINING", "COMPLETED", "FAILED"}

(* What is not JSON: no file, a truncated one, the end of a longer text    *)
(* behind a shorter one.  A history that was never written is <<>>.        *)
NoJson == {"absent", "empty", "garbled"}

Blank(s) == [status |-> s, start_time |-> FALSE, job_id |-> 0, history |-> <<>>]

Readable == file.status \notin NoJson

Live(j) == slurm[j] \in {"pending", "running"}

Phases == {"off", "begin", "load", "train", "history", "checkpoint", "turn",
           "final", "completed", "done", "failed", "exit"}

Contents ==
    [status : TrainingJobStatus \cup NoJson \cup {"unknown"},
     start_time : BOOLEAN, job_id : 0 .. MaxJobs, history : Seq(Steps)]

(* Types of the directory, the API process, slurm and the trainers. *)
TypeOK ==
    /\ file \in Contents
    /\ ckpt \in [Steps -> {"none", "partial", "saved"}]
    /\ api \in {"down", "idle", "scan", "command", "queued", "sbatch",
                "refused", "record"}
    /\ asub \in {"read", "open", "write"}
    /\ abuf \in Contents
    /\ listed \in BOOLEAN
    /\ submitted \in 0 .. MaxJobs
    /\ slurm \in [Jobs -> {"none", "pending", "running", "ended"}]
    /\ phase \in [Jobs -> Phases]
    /\ sub \in [Jobs -> {"read", "open", "write", "delete"}]
    /\ tbuf \in [Jobs -> Contents]
    /\ step \in [Jobs -> Steps]
    /\ history \in [Jobs -> Seq(Steps)]
    /\ stop \in [Jobs -> BOOLEAN]
    /\ kills \in 0 .. MaxKills
    /\ crashes \in 0 .. MaxCrashes
    /\ errors \in 0 .. MaxErrors
    /\ swallowed \in BOOLEAN

Init ==
    /\ file = Blank("absent")
    /\ ckpt = [s \in Steps |-> "none"]
    /\ api = "idle" /\ asub = "read" /\ abuf = Blank("absent")
    /\ listed = FALSE
    /\ submitted = 0
    /\ slurm = [j \in Jobs |-> "none"]
    /\ phase = [j \in Jobs |-> "off"]
    /\ sub = [j \in Jobs |-> "read"]
    /\ tbuf = [j \in Jobs |-> Blank("absent")]
    /\ step = [j \in Jobs |-> 0]
    /\ history = [j \in Jobs |-> <<>>]
    /\ stop = [j \in Jobs |-> FALSE]
    /\ kills = 0 /\ crashes = 0 /\ errors = 0 /\ swallowed = FALSE

(* open(path, "w"), and the write through a handle that was opened before: *)
(* over the text that another writer left since, a shorter one leaves the  *)
(* end of the longer one.                                                  *)
OpenForWriting == file' = Blank("empty")

WriteContents(c) ==
    \/ file' = c
    \/ file.status # "empty" /\ file # c /\ file' = Blank("garbled")

-----------------------------------------------------------------------------
(* The API process: launch_training_job and restart_megatron_jobs.         *)

MutantLaunchAgain ==
    /\ api = "idle"
    /\ file.status # "COMPLETED"
    /\ api' = "command"
    /\ UNCHANGED <<file, ckpt, asub, abuf, listed, slurmVars, trainerVars, faultVars>>

(* A request for a directory that has a status.json only reads it. *)
launch_training_job ==
    /\ api = "idle"
    /\ file.status = "absent"
    /\ api' = "command"
    /\ UNCHANGED <<file, ckpt, asub, abuf, listed, slurmVars, trainerVars, faultVars>>

(* squeue comes first: get_running_jobs is a generator, which reads the    *)
(* status files only when filter_running_jobs asks for them.               *)
get_slurm_jobs ==
    /\ api = "idle"
    /\ listed' = \E j \in Jobs : Live(j)
    /\ api' = "scan"
    /\ UNCHANGED <<file, ckpt, asub, abuf, slurmVars, trainerVars, faultVars>>

MutantRestartsFinished == file.status \in TrainingJobStatus

MutantRestartsOnlyQueued == file.status = "QUEUED"

get_running_jobs == file.status \in {"TRAINING", "QUEUED"}

(* A status.json that is not JSON raises out of restart_megatron_jobs.     *)
(* MaxJobs bounds the restarts.                                            *)
filter_running_jobs ==
    /\ api = "scan"
    /\ api' = IF get_running_jobs /\ ~listed /\ submitted < MaxJobs
              THEN "command" ELSE "idle"
    /\ UNCHANGED <<file, ckpt, asub, abuf, listed, slurmVars, trainerVars, faultVars>>

(* start_slurm_job: scontrol may fail before anything is written. *)
create_slurm_run_command ==
    /\ api = "command"
    /\ api' = "queued"
    /\ UNCHANGED <<file, ckpt, asub, abuf, listed, slurmVars, trainerVars, faultVars>>

CommandRaises ==
    /\ api = "command"
    /\ errors < MaxErrors
    /\ errors' = errors + 1
    /\ api' = "idle"
    /\ UNCHANGED <<file, ckpt, asub, abuf, listed, slurmVars, trainerVars,
                   kills, crashes, swallowed>>

WritingStatus == api \in {"queued", "refused", "record"}

MutantNoMerge(f) ==
    CASE api = "queued"  -> [Blank("QUEUED") EXCEPT !.start_time = TRUE]
      [] api = "refused" -> Blank("FAILED")
      [] api = "record"  -> [Blank("QUEUED") EXCEPT !.job_id = submitted]

(* The three write_job_status calls of run_sbatch. *)
Patched(f) ==
    CASE api = "queued"  -> [f EXCEPT !.status = "QUEUED", !.start_time = TRUE]
      [] api = "refused" -> [f EXCEPT !.status = "FAILED"]
      [] api = "record"  -> [f EXCEPT !.status = "QUEUED", !.job_id = submitted]

StatusRead ==
    /\ WritingStatus /\ asub = "read"
    /\ IF file.status \in {"empty", "garbled"}
       THEN api' = "idle" /\ UNCHANGED <<asub, abuf>>
       ELSE asub' = "open" /\ abuf' = Patched(file) /\ UNCHANGED api
    /\ UNCHANGED <<file, ckpt, listed, slurmVars, trainerVars, faultVars>>

StatusOpen ==
    /\ WritingStatus /\ asub = "open"
    /\ OpenForWriting
    /\ asub' = "write"
    /\ UNCHANGED <<ckpt, api, abuf, listed, slurmVars, trainerVars, faultVars>>

(* After the FAILED of a refused sbatch there is no job id to find, and    *)
(* the handler raises.                                                     *)
StatusWrite ==
    /\ WritingStatus /\ asub = "write"
    /\ WriteContents(abuf)
    /\ asub' = "read"
    /\ abuf' = Blank("absent")
    /\ api' = IF api = "queued" THEN "sbatch" ELSE "idle"
    /\ UNCHANGED <<ckpt, listed, slurmVars, trainerVars, faultVars>>

sbatch ==
    /\ api = "sbatch"
    /\ submitted < MaxJobs
    /\ submitted' = submitted + 1
    /\ slurm' = [slurm EXCEPT ![submitted + 1] = "pending"]
    /\ api' = "record"
    /\ UNCHANGED <<file, ckpt, asub, abuf, listed, trainerVars, faultVars>>

sbatchFails ==
    /\ api = "sbatch"
    /\ errors < MaxErrors
    /\ errors' = errors + 1
    /\ api' = "refused"
    /\ UNCHANGED <<file, ckpt, asub, abuf, listed, slurmVars, trainerVars,
                   kills, crashes, swallowed>>

-----------------------------------------------------------------------------
(* The trainer of slurm job j.                                             *)

JobStarts(j) ==
    /\ slurm[j] = "pending"
    /\ Timely => api # "record"
    /\ slurm' = [slurm EXCEPT ![j] = "running"]
    /\ phase' = [phase EXCEPT ![j] = "begin"]
    /\ UNCHANGED <<file, ckpt, apiVars, submitted, sub, tbuf, step, history,
                   stop, faultVars>>

Updating(j) == phase[j] \in {"begin", "history", "completed", "failed"}

(* update_status: get_status, save_status.  What cannot be read is taken   *)
(* as {"status": "unknown"}.                                               *)
UpdateRead(j) ==
    /\ Updating(j) /\ sub[j] = "read"
    /\ tbuf' = [tbuf EXCEPT ![j] = IF Readable THEN file ELSE Blank("unknown")]
    /\ sub' = [sub EXCEPT ![j] = "open"]
    /\ UNCHANGED <<file, ckpt, apiVars, slurmVars, phase, step, history, stop,
                   faultVars>>

UpdateOpen(j) ==
    /\ Updating(j) /\ sub[j] = "open"
    /\ OpenForWriting
    /\ sub' = [sub EXCEPT ![j] = "write"]
    /\ UNCHANGED <<ckpt, apiVars, slurmVars, phase, tbuf, step, history, stop,
                   faultVars>>

UpdateWrite(j, c) ==
    /\ sub[j] = "write"
    /\ WriteContents(c)
    /\ sub' = [sub EXCEPT ![j] = "read"]
    /\ tbuf' = [tbuf EXCEPT ![j] = Blank("absent")]
    /\ UNCHANGED <<ckpt, apiVars, slurmVars, step, history, faultVars>>

(* What a trainer does after an update_status: load the model, end the     *)
(* step, return from train, or raise again.  on_step_end: the timeout may  *)
(* have passed, and a checkpoint may be due.                               *)
CheckpointDue(s) == s % StepsPerCheckpoint = 0 /\ s # 0

EndsUpdate(j, q) == phase' = [phase EXCEPT ![j] = q]

AfterUpdate(j) ==
    \/ phase[j] = "begin" /\ EndsUpdate(j, "load") /\ UNCHANGED stop
    \/ /\ phase[j] = "history"
       /\ EndsUpdate(j, IF CheckpointDue(step[j]) THEN "checkpoint" ELSE "turn")
       /\ \E timedOut \in BOOLEAN : stop' = [stop EXCEPT ![j] = timedOut]
    \/ phase[j] = "completed" /\ EndsUpdate(j, "done") /\ UNCHANGED stop
    \/ phase[j] = "failed" /\ EndsUpdate(j, "exit") /\ UNCHANGED stop

TrainingBegins(j) ==
    /\ phase[j] = "begin"
    /\ UpdateWrite(j, [tbuf[j] EXCEPT !.status = "TRAINING"])
    /\ AfterUpdate(j)

Checkpoints == {s \in Steps : ckpt[s] # "none"}

get_latest_checkpoint_path == CHOOSE s \in Checkpoints : \A t \in Checkpoints : t <= s

(* torch.load of a checkpoint that was cut off, or a status without a      *)
(* history, raises.                                                        *)
ResumeRaises ==
    \/ ckpt[get_latest_checkpoint_path] = "partial"
    \/ ~Readable
    \/ file.history = <<>>

(* train: load the model, and the latest checkpoint if there is any. *)
Load(j) ==
    /\ phase[j] = "load"
    /\ IF Checkpoints = {}
       THEN /\ step' = [step EXCEPT ![j] = 0]
            /\ history' = [history EXCEPT ![j] = <<>>]
            /\ phase' = [phase EXCEPT ![j] = "train"]
       ELSE IF ResumeRaises
       THEN phase' = [phase EXCEPT ![j] = "failed"] /\ UNCHANGED <<step, history>>
       ELSE /\ step' = [step EXCEPT ![j] = get_latest_checkpoint_path]
            /\ history' = [history EXCEPT ![j] = file.history]
            /\ phase' = [phase EXCEPT ![j] = "train"]
    /\ UNCHANGED <<file, ckpt, apiVars, slurmVars, sub, tbuf, stop, faultVars>>

(* remove_closest_entry: of the inner entries, the first one with the      *)
(* smallest gap between its neighbours.  update_history appends one entry  *)
(* at a time, so one is removed.                                           *)
Gap(h, i) == h[i + 1] - h[i - 1]

Closest(h) ==
    CHOOSE i \in 2 .. Len(h) - 1 :
        \A k \in 2 .. Len(h) - 1 :
            Gap(h, i) < Gap(h, k) \/ (Gap(h, i) = Gap(h, k) /\ i <= k)

remove_closest_entry(h) ==
    SubSeq(h, 1, Closest(h) - 1) \o SubSeq(h, Closest(h) + 1, Len(h))

(* training_step up to update_history's update_status. *)
TrainStep(j) ==
    LET h == Append(history[j], step[j]) IN
    /\ phase[j] = "train"
    /\ history' = [history EXCEPT ![j] =
                      IF Len(h) > HistoryLength THEN remove_closest_entry(h)
                                                ELSE h]
    /\ phase' = [phase EXCEPT ![j] = "history"]
    /\ UNCHANGED <<file, ckpt, apiVars, slurmVars, sub, tbuf, step, stop,
                   faultVars>>

HistoryWritten(j) ==
    /\ phase[j] = "history"
    /\ UpdateWrite(j, [tbuf[j] EXCEPT !.status = "TRAINING",
                                      !.history = history[j]])
    /\ AfterUpdate(j)

MutantNoFinalCheckpoint(j) ==
    /\ phase[j] = "turn"
    /\ IF stop[j] \/ step[j] = MaxSteps - 1
       THEN phase' = [phase EXCEPT ![j] = "completed"] /\ UNCHANGED step
       ELSE /\ phase' = [phase EXCEPT ![j] = "train"]
            /\ step' = [step EXCEPT ![j] = @ + 1]
    /\ UNCHANGED <<file, ckpt, apiVars, slurmVars, sub, tbuf, history, stop,
                   faultVars>>

(* The for loop over the steps goes on, or training ends. *)
Turn(j) ==
    /\ phase[j] = "turn"
    /\ IF stop[j] \/ step[j] = MaxSteps - 1
       THEN phase' = [phase EXCEPT ![j] = "final"] /\ UNCHANGED step
       ELSE /\ phase' = [phase EXCEPT ![j] = "train"]
            /\ step' = [step EXCEPT ![j] = @ + 1]
    /\ UNCHANGED <<file, ckpt, apiVars, slurmVars, sub, tbuf, history, stop,
                   faultVars>>

(* save_checkpoint, after a step and at the end: torch.save writes in      *)
(* place, also over a checkpoint of the same step.                         *)
SaveOpen(j) ==
    /\ phase[j] \in {"checkpoint", "final"} /\ sub[j] = "read"
    /\ ckpt' = [ckpt EXCEPT ![step[j]] = "partial"]
    /\ sub' = [sub EXCEPT ![j] = "write"]
    /\ UNCHANGED <<file, apiVars, slurmVars, phase, tbuf, step, history, stop,
                   faultVars>>

SaveWrite(j) ==
    /\ phase[j] \in {"checkpoint", "final"} /\ sub[j] = "write"
    /\ ckpt' = [ckpt EXCEPT ![step[j]] = "saved"]
    /\ sub' = [sub EXCEPT ![j] = "delete"]
    /\ UNCHANGED <<file, apiVars, slurmVars, phase, tbuf, step, history, stop,
                   faultVars>>

delete_old_checkpoints(j) ==
    /\ phase[j] \in {"checkpoint", "final"} /\ sub[j] = "delete"
    /\ ckpt' = [s \in Steps |->
                  IF Cardinality({t \in Checkpoints : t > s}) >= KeepCheckpoints
                  THEN "none" ELSE ckpt[s]]
    /\ sub' = [sub EXCEPT ![j] = "read"]
    /\ phase' = [phase EXCEPT ![j] =
                    IF phase[j] = "final" THEN "completed" ELSE "turn"]
    /\ UNCHANGED <<file, apiVars, slurmVars, tbuf, step, history, stop, faultVars>>

TrainingCompletes(j) ==
    /\ phase[j] = "completed"
    /\ UpdateWrite(j, [tbuf[j] EXCEPT !.status = "COMPLETED"])
    /\ AfterUpdate(j)

(* main: an exception of the training loop ends in FAILED. *)
TrainerRaises(j) ==
    /\ phase[j] \in {"load", "train"}
    /\ phase' = [phase EXCEPT ![j] = "failed"]
    /\ UNCHANGED <<file, ckpt, apiVars, slurmVars, sub, tbuf, step, history,
                   stop, faultVars>>

TrainingFails(j) ==
    /\ phase[j] = "failed"
    /\ UpdateWrite(j, [tbuf[j] EXCEPT !.status = "FAILED"])
    /\ AfterUpdate(j)

JobEnds(j) ==
    /\ phase[j] \in {"done", "exit"}
    /\ slurm' = [slurm EXCEPT ![j] = "ended"]
    /\ phase' = [phase EXCEPT ![j] = "off"]
    /\ step' = [step EXCEPT ![j] = 0]
    /\ history' = [history EXCEPT ![j] = <<>>]
    /\ stop' = [stop EXCEPT ![j] = FALSE]
    /\ UNCHANGED <<file, ckpt, apiVars, submitted, sub, tbuf, faultVars>>

-----------------------------------------------------------------------------
(* What fails.                                                             *)

(* SIGCONT, at any instruction of the trainer: signal_handler uses a       *)
(* logger that main.py does not define.  What the NameError does depends   *)
(* on who catches it; the rest of the directory stays as it is.            *)
Signalled ==
    /\ kills < MaxKills
    /\ kills' = kills + 1
    /\ UNCHANGED <<file, ckpt, apiVars, slurmVars, step, history, crashes, errors>>

Interrupted(j) ==
    /\ Torn \/ sub[j] # "write"
    /\ sub' = [sub EXCEPT ![j] = "read"]
    /\ tbuf' = [tbuf EXCEPT ![j] = Blank("absent")]
    /\ UNCHANGED <<stop, swallowed>>

(* ... main, like any other exception of train, also when COMPLETED has    *)
(* just been written.                                                      *)
signal_handler(j) ==
    /\ Signalled
    /\ phase[j] \notin {"off", "failed", "exit"}
    /\ Interrupted(j)
    /\ phase' = [phase EXCEPT ![j] = "failed"]

(* ... nobody, once main is in its own except clause: no FAILED. *)
SignalEscapes(j) ==
    /\ Signalled
    /\ phase[j] = "failed"
    /\ Interrupted(j)
    /\ phase' = [phase EXCEPT ![j] = "exit"]

(* ... get_status, which takes it for a status that cannot be read: the    *)
(* update goes on without what the file had.                               *)
SignalInGetStatus(j) ==
    /\ Signalled
    /\ Updating(j) /\ sub[j] = "read"
    /\ tbuf' = [tbuf EXCEPT ![j] = Blank("unknown")]
    /\ sub' = [sub EXCEPT ![j] = "open"]
    /\ swallowed' = TRUE
    /\ UNCHANGED <<phase, stop>>

(* ... save_status, around json.dumps: it returns without a write.         *)
SignalInSaveStatus(j) ==
    /\ Signalled
    /\ Updating(j) /\ sub[j] = "open"
    /\ tbuf' = [tbuf EXCEPT ![j] = Blank("absent")]
    /\ sub' = [sub EXCEPT ![j] = "read"]
    /\ swallowed' = TRUE
    /\ AfterUpdate(j)

Clear(S) ==
    /\ slurm' = [j \in Jobs |-> IF j \in S THEN "ended" ELSE slurm[j]]
    /\ phase' = [j \in Jobs |-> IF j \in S THEN "off" ELSE phase[j]]
    /\ sub' = [j \in Jobs |-> IF j \in S THEN "read" ELSE sub[j]]
    /\ tbuf' = [j \in Jobs |-> IF j \in S THEN Blank("absent") ELSE tbuf[j]]
    /\ step' = [j \in Jobs |-> IF j \in S THEN 0 ELSE step[j]]
    /\ history' = [j \in Jobs |-> IF j \in S THEN <<>> ELSE history[j]]
    /\ stop' = [j \in Jobs |-> IF j \in S THEN FALSE ELSE stop[j]]

(* The time limit, scancel, a lost node. *)
JobKilled(j) ==
    /\ kills < MaxKills
    /\ Live(j)
    /\ Torn \/ sub[j] # "write"
    /\ Clear({j})
    /\ kills' = kills + 1
    /\ UNCHANGED <<file, ckpt, apiVars, submitted, crashes, errors, swallowed>>

ApiDies ==
    /\ api # "down"
    /\ crashes < MaxCrashes
    /\ Torn \/ asub # "write"
    /\ crashes' = crashes + 1
    /\ api' = "down" /\ asub' = "read" /\ abuf' = Blank("absent")
    /\ listed' = FALSE
    /\ UNCHANGED <<file, ckpt, submitted, kills, errors, swallowed>>

(* The server process alone, as on a reload of the code. *)
ApiCrash ==
    /\ ApiDies
    /\ UNCHANGED <<slurm, trainerVars>>

(* The container, and with it slurm's jobs; slurmctld may still know those *)
(* that it had not started.                                                *)
ContainerCrash ==
    /\ ApiDies
    /\ Torn \/ \A j \in Jobs : sub[j] # "write"
    /\ \E kept \in SUBSET {j \in Jobs : slurm[j] = "pending"} :
          Clear({j \in Jobs : Live(j)} \ kept)

ApiRestart ==
    /\ api = "down"
    /\ api' = "idle"
    /\ UNCHANGED <<file, ckpt, asub, abuf, listed, slurmVars, trainerVars,
                   faultVars>>

ApiNext ==
    \/ launch_training_job \/ get_slurm_jobs \/ filter_running_jobs
    \/ create_slurm_run_command \/ CommandRaises
    \/ StatusRead \/ StatusOpen \/ StatusWrite
    \/ sbatch \/ sbatchFails
    \/ ApiRestart

TrainerNext(j) ==
    \/ UpdateRead(j) \/ UpdateOpen(j)
    \/ TrainingBegins(j) \/ Load(j) \/ TrainStep(j) \/ HistoryWritten(j)
    \/ Turn(j) \/ SaveOpen(j) \/ SaveWrite(j) \/ delete_old_checkpoints(j)
    \/ TrainingCompletes(j) \/ TrainerRaises(j) \/ TrainingFails(j)
    \/ JobEnds(j)

FaultNext ==
    \/ \E j \in Jobs :
          \/ signal_handler(j) \/ SignalEscapes(j)
          \/ SignalInGetStatus(j) \/ SignalInSaveStatus(j)
          \/ JobKilled(j)
    \/ ApiCrash \/ ContainerCrash

Next ==
    \/ ApiNext
    \/ \E j \in Jobs : JobStarts(j) \/ TrainerNext(j)
    \/ FaultNext

Spec == Init /\ [][Next]_vars

(* The API process runs and its periodic task with it, and a dead one is   *)
(* started again; slurm starts what is pending; a trainer that is not      *)
(* killed runs.                                                            *)
Fairness ==
    /\ WF_vars(ApiNext)
    /\ \A j \in Jobs : WF_vars(JobStarts(j)) /\ WF_vars(TrainerNext(j))

FairSpec == Spec /\ Fairness

-----------------------------------------------------------------------------
(* Properties.                                                             *)

(* Two trainers never work in one job directory: the launch writes         *)
(* status.json before it calls sbatch, and restart_megatron_jobs passes    *)
(* over what squeue lists, whoever died in between.                        *)
OneLiveJob == \A i, j \in Jobs : Live(i) /\ Live(j) => i = j

(* A job that reports COMPLETED has a whole final checkpoint to deploy,    *)
(* and none that was cut off is taken for it.                              *)
CompletedIsSaved ==
    file.status = "COMPLETED" =>
        /\ Checkpoints # {}
        /\ ckpt[get_latest_checkpoint_path] = "saved"

(* A history in status.json begins with the first step.  While a           *)
(* checkpoint exists, status.json has what a restarted trainer and the     *)
(* model list need of it: the start time, and a history that reaches the   *)
(* checkpoint.  The merges of the API and of the trainer keep both; a      *)
(* signal that update_status swallows loses them.                          *)
ResumeFindsHistory ==
    Readable =>
        /\ file.history # <<>> => file.history[1] = 0
        /\ Checkpoints # {} /\ ~swallowed =>
              /\ file.start_time
              /\ file.history # <<>>
              /\ file.history[Len(file.history)] >= get_latest_checkpoint_path

(* The outcome of a job is final: once its process is gone, nobody changes *)
(* status.json or submits the job again.                                   *)
OutcomeIsFinal ==
    [][(file.status \in {"COMPLETED", "FAILED"} /\ \A j \in Jobs : ~Live(j))
         => UNCHANGED <<file, submitted>>]_vars

(* A job that was accepted ends in COMPLETED or FAILED, however often it   *)
(* was killed and whenever the server died.                                *)
EveryJobEnds ==
    (file.status # "absent") ~> (file.status \in {"COMPLETED", "FAILED"})

-----------------------------------------------------------------------------
(* The inductive invariant behind OneLiveJob.                              *)

(* Slurm numbers its jobs in order, a trainer runs only while its job      *)
(* does, and the directory has one live job at most.                       *)
SlurmInv ==
    /\ submitted \in 0 .. MaxJobs
    /\ slurm \in [Jobs -> {"none", "pending", "running", "ended"}]
    /\ phase \in [Jobs -> Phases]
    /\ \A j \in Jobs : j > submitted => slurm[j] = "none"
    /\ \A j \in Jobs : phase[j] # "off" => slurm[j] = "running"
    /\ \A i, j \in Jobs : Live(i) /\ Live(j) => i = j

(* Whoever is on the way to sbatch has seen no live job, neither in squeue *)
(* nor, for a launch, behind a status.json; and none has come since.       *)
SubmitInv ==
    /\ api \in {"command", "queued", "sbatch"} => \A j \in Jobs : ~Live(j)
    /\ api = "scan" /\ ~listed => \A j \in Jobs : ~Live(j)
    /\ file.status = "absent" => submitted = 0
    /\ api = "sbatch" => file.status # "absent"

(* What is written to status.json has a status. *)
BufferInv ==
    /\ "status" \in DOMAIN file
    /\ "status" \in DOMAIN abuf
    /\ asub # "read" => WritingStatus /\ abuf.status \notin NoJson
    /\ DOMAIN tbuf = Jobs
    /\ \A j \in Jobs : "status" \in DOMAIN tbuf[j]

JobInv == SlurmInv /\ SubmitInv /\ BufferInv

\* Whatever is torn, killed and restarted, a job that says COMPLETED has
\* something to deploy, and its directory is in one of the states its readers
\* distinguish.
JobIsConsistent ==
    /\ TypeOK
    /\ CompletedIsSaved
=============================================================================
