---------------------------- MODULE TrainingRanks ---------------------------
(***************************************************************************)
(* One training job on several GPUs: one process per rank, started by      *)
(* mpirun, all running the same program.  They meet in MPI collectives;    *)
(* main_rank_only puts a barrier before and after what only rank 0 does.   *)
(* Not everything is inside such a pair: every rank writes the status at   *)
(* the beginning and at the end, and every rank asks its own clock whether *)
(* the time is up.                                                         *)
(***************************************************************************)
EXTENDS Integers, FiniteSets

CONSTANTS
    Ranks,              \* 0 .. get_size() - 1
    MaxSteps,           \* max_steps
    CheckpointEvery     \* steps_per_checkpoint

ASSUME RanksAssumption ==
    /\ Ranks \subseteq Nat /\ 0 \in Ranks
    /\ MaxSteps \in Nat \ {0}
    /\ CheckpointEvery \in Nat \ {0}

VARIABLES
    pc,         \* where each rank is
    step,       \* training_state.current_step of each rank
    stop,       \* should_stop_training of each rank
    update,     \* the status update that each rank is in
    file,       \* status.json
    saved,      \* the step of the newest checkpoint; -1: there is none
    judged,     \* what each rank found when it last asked the clock
    disagreed,  \* two ranks judged the timeout of one step differently
    mixed,      \* ranks met in a collective from different places
    raised,     \* where each rank raised an exception; "no"
    cancelled   \* Slurm has killed a rank

ranksVars == <<pc, step, stop, update, file, saved, judged, disagreed, mixed, raised, cancelled>>

(* The collectives of the program, by the place they are called from. *)
Kind ==
    [load |-> "allgather", dev_in |-> "barrier", dev_out |-> "barrier",
     forward |-> "allgather", loss |-> "allreduce", backward |-> "reduce_scatter",
     hist_in |-> "barrier", hist_out |-> "barrier",
     info_in |-> "barrier", info_out |-> "barrier",
     ckpt_gather |-> "allgather", ckpt_in |-> "barrier", ckpt_out |-> "barrier",
     last_gather |-> "allgather", last_in |-> "barrier", last_out |-> "barrier"]

Sites == DOMAIN Kind

Ended == {"end", "exited", "killed"}

Places == Sites \cup Ended
          \cup {"read", "truncate", "write", "loading", "resume", "batch",
                "judge", "loop", "save", "save_last"}

Fields == {"launch", "max_steps", "history"}

(* A status: the JSON text is whole, empty, or one text over the end of a  *)
(* longer one.                                                             *)
Statuses == [text: {"whole", "empty", "garbled"},
             status: {"QUEUED", "TRAINING", "COMPLETED", "FAILED", "unknown"},
             has: SUBSET Fields]

(* Types of the ranks and of the file. *)
RanksTypeOK ==
    /\ pc \in [Ranks -> Places]
    /\ step \in [Ranks -> 0 .. MaxSteps - 1]
    /\ stop \in [Ranks -> BOOLEAN]
    /\ update \in [Ranks -> [status: {"TRAINING", "COMPLETED", "FAILED"},
                             adds: SUBSET Fields, then: Places,
                             new: Statuses]]
    /\ file \in Statuses
    /\ saved \in -1 .. MaxSteps - 1
    /\ judged \in [Ranks -> [step: -1 .. MaxSteps - 1, late: BOOLEAN]]
    /\ disagreed \in BOOLEAN
    /\ mixed \in BOOLEAN
    /\ raised \in [Ranks -> {"no", "loading", "resume", "batch"}]
    /\ cancelled \in BOOLEAN

(* An update_status call that begins. *)
Update(status, adds, then) ==
    [status |-> status, adds |-> adds, then |-> then,
     new |-> [text |-> "whole", status |-> "unknown", has |-> {}]]

(* A first submission, or a restart of a job that has trained before. *)
RanksInit ==
    /\ pc = [r \in Ranks |-> "read"]
    /\ step = [r \in Ranks |-> 0]
    /\ stop = [r \in Ranks |-> FALSE]
    /\ update = [r \in Ranks |-> Update("TRAINING", {"max_steps"}, "loading")]
    /\ \/ /\ file = [text |-> "whole", status |-> "QUEUED", has |-> {"launch"}]
          /\ saved = -1
       \/ /\ file = [text |-> "whole", status |-> "QUEUED", has |-> Fields]
          /\ saved = 0
    /\ judged = [r \in Ranks |-> [step |-> -1, late |-> FALSE]]
    /\ disagreed = FALSE
    /\ mixed = FALSE
    /\ raised = [r \in Ranks |-> "no"]
    /\ cancelled = FALSE

Goto(r, place) == pc' = [pc EXCEPT ![r] = place]

-----------------------------------------------------------------------------
(* TrainingHarness.update_status: read the file, change the status and     *)
(* some fields, write.  open(..., "w") empties the file, the text comes    *)
(* when it is closed.                                                      *)
ReadStatus(r) ==
    /\ pc[r] = "read"
    /\ LET u == update[r]
           old == IF file.text = "whole" THEN file.has ELSE {}
       IN  update' = [update EXCEPT ![r].new =
                        [text |-> "whole", status |-> u.status, has |-> old \cup u.adds]]
    /\ Goto(r, "truncate")
    /\ UNCHANGED <<step, stop, file, saved, judged, disagreed, mixed, raised, cancelled>>

TruncateStatus(r) ==
    /\ pc[r] = "truncate"
    /\ file' = [file EXCEPT !.text = "empty"]
    /\ Goto(r, "write")
    /\ UNCHANGED <<step, stop, update, saved, judged, disagreed, mixed, raised, cancelled>>

(* Text that covers what another rank has put into the file since.  Two    *)
(* statuses with one set of fields are of one length, except that the      *)
(* error of a FAILED may be of any.                                        *)
Covers(new) == file.text = "empty" \/ file.has \subseteq new.has

MayFallShort(new) ==
    file.text # "empty" /\ (file.has \subseteq new.has => file.status = "FAILED")

(* What the old text was longer by stays.                                  *)
WriteStatus(r) ==
    /\ pc[r] = "write"
    /\ LET new == update[r].new
       IN  \/ Covers(new) /\ file' = new
           \/ MayFallShort(new) /\ file' = [new EXCEPT !.text = "garbled"]
    /\ Goto(r, update[r].then)
    /\ UNCHANGED <<step, stop, update, saved, judged, disagreed, mixed, raised, cancelled>>

BeginUpdate(r, status, adds, then) ==
    /\ update' = [update EXCEPT ![r] = Update(status, adds, then)]
    /\ Goto(r, "read")

-----------------------------------------------------------------------------
Waiting(r) == pc[r] \in Sites

AfterLoad(r) == IF saved >= 0 THEN "resume" ELSE "dev_in"

CheckpointDue(r) == step[r] % CheckpointEvery = 0 /\ step[r] # 0

MutantNoBarrierAfter(r, body, out) ==
    IF r = 0 THEN body
    ELSE IF out = "hist_out" THEN "info_in"
    ELSE IF out = "ckpt_out" THEN "loop" ELSE out

(* main_rank_only, after its first barrier: rank 0 calls the function, the *)
(* others wait in the second one.                                          *)
main_rank_only(r, body, out) == IF r = 0 THEN body ELSE out

(* Where a rank goes on when the collective it waits in is over. *)
Continue(r) ==
    CASE pc[r] = "load" -> AfterLoad(r)
      [] pc[r] = "dev_in" -> "dev_out"
      [] pc[r] = "dev_out" -> "batch"
      [] pc[r] = "forward" -> "loss"
      [] pc[r] = "loss" -> "backward"
      [] pc[r] = "backward" -> "hist_in"
      [] pc[r] = "hist_in" -> main_rank_only(r, "read", "hist_out")
      [] pc[r] = "hist_out" -> "info_in"
      [] pc[r] = "info_in" -> "info_out"
      [] pc[r] = "info_out" -> "judge"
      [] pc[r] = "ckpt_gather" -> "ckpt_in"
      [] pc[r] = "ckpt_in" -> main_rank_only(r, "save", "ckpt_out")
      [] pc[r] = "ckpt_out" -> "loop"
      [] pc[r] = "last_gather" -> "last_in"
      [] pc[r] = "last_in" -> main_rank_only(r, "save_last", "last_out")
      [] pc[r] = "last_out" -> "read"

(* What a status update after a collective writes: rank 0 the history,     *)
(* every rank COMPLETED.                                                   *)
UpdateAfter(r) ==
    IF pc[r] = "last_out" THEN Update("COMPLETED", {}, "end")
    ELSE IF pc[r] = "hist_in" /\ r = 0
         THEN Update("TRAINING", {"history"}, "hist_out")
         ELSE update[r]

(* A collective ends for all ranks when all have called it.  MPI matches   *)
(* calls by their kind, not by where they come from.                       *)
Collective ==
    /\ \A r \in Ranks : Waiting(r)
    /\ \A r, s \in Ranks : Kind[pc[r]] = Kind[pc[s]]
    /\ pc' = [r \in Ranks |-> Continue(r)]
    /\ update' = [r \in Ranks |-> UpdateAfter(r)]
    /\ mixed' = (mixed \/ \E r, s \in Ranks : pc[r] # pc[s])
    /\ UNCHANGED <<step, stop, file, saved, judged, disagreed, raised, cancelled>>

-----------------------------------------------------------------------------
(* load_model: download, wrap, shard.  Sharding gathers the metadata. *)
LoadModel(r) ==
    /\ pc[r] = "loading"
    /\ Goto(r, "load")
    /\ UNCHANGED <<step, stop, update, file, saved, judged, disagreed, mixed, raised, cancelled>>

Raise(r, where) ==
    /\ raised' = [raised EXCEPT ![r] = where]
    /\ BeginUpdate(r, "FAILED", {}, "exited")
    /\ UNCHANGED <<step, stop, file, saved, judged, disagreed, mixed, cancelled>>

(* resume_from_checkpoint; a status without "history" is a KeyError. *)
Resume(r) ==
    /\ pc[r] = "resume"
    /\ IF file.text = "whole" /\ "history" \in file.has
       THEN /\ step' = [step EXCEPT ![r] = saved]
            /\ Goto(r, "dev_in")
            /\ UNCHANGED <<stop, update, file, saved, judged, disagreed, mixed, raised, cancelled>>
       ELSE Raise(r, "resume")

(* The next batch of this rank's part of the dataset. *)
NextBatch(r) ==
    /\ pc[r] = "batch"
    /\ Goto(r, "forward")
    /\ UNCHANGED <<step, stop, update, file, saved, judged, disagreed, mixed, raised, cancelled>>

(* An exception: main() records FAILED and raises it again.  The ranks run *)
(* one program, and any number of them may raise.                          *)
RankRaises(r) ==
    /\ pc[r] \in {"loading", "batch"}
    /\ Raise(r, pc[r])

(* TimeoutCallback.on_step_end with this rank's clock, then                *)
(* CheckpointCallback.on_step_end.                                         *)
OnStepEnd(r) ==
    /\ pc[r] = "judge"
    /\ \E late \in BOOLEAN :
        /\ stop' = [stop EXCEPT ![r] = @ \/ late]
        /\ judged' = [judged EXCEPT ![r] = [step |-> step[r], late |-> late]]
        /\ disagreed' = (disagreed \/ \E s \in Ranks :
                            judged[s].step = step[r] /\ judged[s].late # late)
    /\ Goto(r, IF CheckpointDue(r) THEN "ckpt_gather" ELSE "loop")
    /\ UNCHANGED <<step, update, file, saved, mixed, raised, cancelled>>

(* The loop over the steps is left. *)
LoopEnds(r) == stop[r] \/ step[r] = MaxSteps - 1

EndOfIteration(r) ==
    /\ pc[r] = "loop"
    /\ IF LoopEnds(r)
       THEN Goto(r, "last_gather") /\ UNCHANGED step
       ELSE Goto(r, "batch") /\ step' = [step EXCEPT ![r] = @ + 1]
    /\ UNCHANGED <<stop, update, file, saved, judged, disagreed, mixed, raised, cancelled>>

MutantSavesNextStep(r) ==
    /\ pc[r] \in {"save", "save_last"}
    /\ saved' = step[r] + 1
    /\ Goto(r, IF pc[r] = "save" THEN "ckpt_out" ELSE "last_out")
    /\ UNCHANGED <<step, stop, update, file, judged, disagreed, mixed, raised, cancelled>>

(* save_checkpoint by rank 0. *)
SaveCheckpoint(r) ==
    /\ pc[r] \in {"save", "save_last"}
    /\ saved' = step[r]
    /\ Goto(r, IF pc[r] = "save" THEN "ckpt_out" ELSE "last_out")
    /\ UNCHANGED <<step, stop, update, file, judged, disagreed, mixed, raised, cancelled>>

(* A rank is killed, wherever it is: inside update_status, too. *)
Kill(r) ==
    /\ pc[r] \notin Ended
    /\ Goto(r, "killed")
    /\ UNCHANGED <<step, stop, update, file, saved, judged, disagreed, mixed, raised>>

(* mpirun kills the others, one after another, when a process has ended    *)
(* without finalize_mpi.                                                   *)
MpirunKills(r) ==
    /\ \E s \in Ranks : pc[s] \in {"exited", "killed"}
    /\ Kill(r)
    /\ UNCHANGED cancelled

(* Slurm may kill a rank at any time: scancel, a node that is lost.  It    *)
(* does when the time limit, the timeout and some seconds, is over.        *)
SlurmKills(r) == Kill(r) /\ cancelled' = TRUE

MutantNoTimeLimit == FALSE

TimeIsUp == \E r \in Ranks : judged[r].late /\ pc[r] # "end"

(* The processes have ended, and stay so. *)
AllEnded ==
    /\ \A r \in Ranks : pc[r] \in Ended
    /\ UNCHANGED ranksVars

Local(r) ==
    \/ ReadStatus(r) \/ TruncateStatus(r) \/ WriteStatus(r)
    \/ LoadModel(r) \/ Resume(r) \/ NextBatch(r) \/ OnStepEnd(r)
    \/ EndOfIteration(r) \/ SaveCheckpoint(r)

RanksNext ==
    \/ \E r \in Ranks : Local(r) \/ RankRaises(r) \/ MpirunKills(r) \/ SlurmKills(r)
    \/ Collective \/ AllEnded

RanksSpec == RanksInit /\ [][RanksNext]_ranksVars

(* The processes are scheduled; mpirun does its work, and so does Slurm    *)
(* when the time is up.                                                    *)
RanksFairness ==
    /\ \A r \in Ranks : /\ WF_ranksVars(Local(r))
                        /\ WF_ranksVars(MpirunKills(r))
                        /\ WF_ranksVars(TimeIsUp /\ SlurmKills(r))
    /\ WF_ranksVars(Collective)

-----------------------------------------------------------------------------
(* The ranks stay in step: as long as no two of them have judged the       *)
(* timeout of a step differently, no collective joins calls from different *)
(* places, and ranks that all wait do so in the same call of the same      *)
(* step, so that nobody waits for ever.                                    *)
RanksMeet ==
    ~disagreed =>
        /\ ~mixed
        /\ (\A r \in Ranks : Waiting(r)) =>
                \A r, s \in Ranks : pc[r] = pc[s] /\ step[r] = step[s]

(* The two barriers of main_rank_only keep the status file to rank 0 while *)
(* the job trains: between the first collective and the last checkpoint    *)
(* nobody else is inside update_status, unless a rank has raised.          *)
InTraining(r) == pc[r] \in (Sites \ {"load"}) \cup {"batch", "judge", "loop", "save", "save_last"}

NobodyRaised == \A r \in Ranks : raised[r] = "no"

RankZeroWrites ==
    ~disagreed /\ NobodyRaised =>
        \A r, s \in Ranks : InTraining(r) /\ pc[s] \in {"read", "truncate", "write"}
                                /\ update[s].status = "TRAINING" => s = 0

(* Ranks that raise while the job trains leave no other outcome than       *)
(* FAILED on record, unless Slurm interferes.  One that raises alone       *)
(* leaves it whole: no update of another rank is under way then, and       *)
(* mpirun waits for it.  When several raise, mpirun may kill one that has  *)
(* emptied the file, or one text may lie over the end of another.          *)
FailureIsRecorded ==
    /\ \E r \in Ranks : raised[r] = "batch"
    /\ ~disagreed /\ ~cancelled
    /\ \A r \in Ranks : pc[r] \in Ended
    => /\ file.text = "whole" => file.status = "FAILED"
       /\ (\A r, s \in Ranks : raised[r] # "no" /\ raised[s] # "no" => r = s)
              => file.text = "whole"

(* A job that has trained a step keeps the loss curve: between two steps,  *)
(* when nobody is updating it, the status has its history.                 *)
HistoryIsKept ==
    ~disagreed /\ NobodyRaised =>
        \A r \in Ranks : pc[r] \in {"info_in", "info_out", "judge", "loop", "ckpt_gather"}
            => file.text = "whole" /\ "history" \in file.has

(* A job never checkpoints a step that some rank has not finished. *)
CheckpointIsCommon ==
    [][saved' # saved /\ ~disagreed => \A r \in Ranks : step[r] = saved']_ranksVars

(* Once a rank waits in a collective, every process ends: by itself, by    *)
(* mpirun, or by the time limit when ranks wait for each other in          *)
(* different collectives.                                                  *)
EveryProcessEnds ==
    (\E r \in Ranks : Waiting(r)) ~> (\A r \in Ranks : pc[r] \in Ended)

\* As long as the ranks judge the time alike, they meet in the same collective
\* in the same step, only rank 0 updates the status while the job trains, the
\* history is there after each step, and exceptions in a step leave FAILED or,
\* when several ranks raise together, an unreadable status.
RanksAgree ==
    /\ RanksTypeOK
    /\ RanksMeet
    /\ RankZeroWrites
    /\ FailureIsRecorded
    /\ HistoryIsKept
=============================================================================
