--------------------------- MODULE ModelRegistry ----------------------------
(***************************************************************************)
(* Which trained models can be asked for.  Every megatron_refresh_period   *)
(* the API runs three tasks, one after the other: register the jobs that   *)
(* have a checkpoint with vLLM, restart jobs, clear the acked requests.    *)
(* vLLM keeps the adapters of its chat and of its completion server in     *)
(* memory; the API keeps the list that it last read from vLLM.  The two    *)
(* servers are processes of their own: vLLM can die and come back empty    *)
(* while the API lives on.                                                 *)
(***************************************************************************)
EXTENDS Integers, Sequences, SequencesExt

CONSTANTS
    Jobs,           \* names of job directories
    Base,           \* config["model"]
    MaxDeaths,      \* bound: deaths of vLLM
    MaxTorn         \* bound: times that a status is seen half written

ASSUME RegistryAssumption ==
    Base \notin Jobs /\ MaxDeaths \in Nat /\ MaxTorn \in Nat

VARIABLES
    directory,      \* what is in each job's directory
    up,             \* vLLM answers
    chat,           \* lora_requests of vLLM's chat server
    completion,     \* lora_requests of its completion server
    models,         \* VLLMModelManager._models
    stage,          \* where run_megatron_tasks is
    registered,     \* what this tick has read from vLLM
    visited,        \* the directories this tick has been through
    current,        \* vLLM has not died since models was read
    conflict,       \* vLLM has refused a registration
    deaths, torn    \* counters for the bounds

registryVars == <<directory, up, chat, completion, models, stage, registered, visited,
          current, conflict, deaths, torn>>

serving == <<chat, completion>>
counters == <<deaths, torn>>

(* A directory: none yet, made by the upload (no status.json), with a      *)
(* status, or with a status that is being written.                         *)
Statuses == {"absent", "no_status", "written", "torn"}

(* Types of the directories, of the servers and of the tick. *)
RegistryTypeOK ==
    /\ directory \in [Jobs -> [status: Statuses, history: BOOLEAN, ckpt: BOOLEAN]]
    /\ up \in BOOLEAN
    /\ chat \in Seq(Jobs) /\ completion \in Seq(Jobs)
    /\ models \in Seq(Jobs \cup {Base})
    /\ stage \in {"sleep", "models", "register", "restart", "clear"}
    /\ registered \in SUBSET (Jobs \cup {Base})
    /\ visited \in SUBSET Jobs
    /\ current \in BOOLEAN /\ conflict \in BOOLEAN
    /\ deaths \in 0 .. MaxDeaths /\ torn \in 0 .. MaxTorn

RegistryInit ==
    /\ directory = [j \in Jobs |-> [status |-> "absent", history |-> FALSE, ckpt |-> FALSE]]
    /\ up = FALSE
    /\ chat = <<>> /\ completion = <<>>
    /\ models = <<>>
    /\ stage = "sleep"
    /\ registered = {} /\ visited = {}
    /\ current = TRUE /\ conflict = FALSE
    /\ deaths = 0 /\ torn = 0

-----------------------------------------------------------------------------
(* A job's directory as the upload and the trainer leave it. *)
Directory(j, from, to) ==
    /\ directory[j].status = from
    /\ directory' = [directory EXCEPT ![j].status = to]
    /\ UNCHANGED <<up, serving, models, stage, registered, visited, current,
                   conflict, deaths>>

(* upload_training_data makes the directory before it unpacks. *)
Upload(j) == Directory(j, "absent", "no_status") /\ UNCHANGED torn

(* write_job_status, whole. *)
WriteStatus(j) == Directory(j, "no_status", "written") /\ UNCHANGED torn

(* A status file that is open for writing, until it is closed. *)
OpenStatus(j) ==
    /\ torn < MaxTorn
    /\ Directory(j, "written", "torn")
    /\ torn' = torn + 1

CloseStatus(j) == Directory(j, "torn", "written") /\ UNCHANGED torn

(* The trainer records a step, and saves a checkpoint. *)
Train(j) ==
    /\ directory[j].status = "written"
    /\ \/ ~directory[j].history /\ directory' = [directory EXCEPT ![j].history = TRUE]
       \/ directory[j].history /\ ~directory[j].ckpt
          /\ directory' = [directory EXCEPT ![j].ckpt = TRUE]
    /\ UNCHANGED <<up, serving, models, stage, registered, visited, current,
                   conflict, counters>>

-----------------------------------------------------------------------------
VllmStarts ==
    /\ ~up
    /\ up' = TRUE
    /\ UNCHANGED <<directory, serving, models, stage, registered, visited,
                   current, conflict, counters>>

(* vLLM's lists are in its memory. *)
VllmDies ==
    /\ up
    /\ deaths < MaxDeaths
    /\ up' = FALSE
    /\ chat' = <<>> /\ completion' = <<>>
    /\ current' = FALSE
    /\ deaths' = deaths + 1
    /\ UNCHANGED <<directory, models, stage, registered, visited, conflict, torn>>

-----------------------------------------------------------------------------
(* An exception ends the tick; repeat_every logs it and calls again. *)
AfterRaise == stage' = "sleep"

(* The tick begins: without a healthy vLLM there is nothing to register. *)
Tick ==
    /\ stage = "sleep"
    /\ stage' = IF up THEN "models" ELSE "restart"
    /\ UNCHANGED <<directory, up, serving, models, registered, visited, current,
                   conflict, counters>>

(* get_registered_models: GET /v1/models, the base model and the adapters  *)
(* of the completion server.                                               *)
get_registered_models ==
    /\ models' = <<Base>> \o completion
    /\ registered' = {Base} \cup ToSet(completion)
    /\ current' = TRUE

GetModels ==
    /\ stage = "models"
    /\ up
    /\ get_registered_models
    /\ visited' = {}
    /\ stage' = "register"
    /\ UNCHANGED <<directory, up, serving, conflict, counters>>

(* The directory has a .pt file, and vLLM did not list it. *)
Missing(j) == directory[j].ckpt /\ j \notin registered

MutantLoadsOnce(j) == completion' = Append(completion, j) /\ UNCHANGED chat

(* load_lora_adapter of vLLM: both servers, each refuses a name it has. *)
load_lora_adapter(j) ==
    IF j \in ToSet(chat)
    THEN UNCHANGED serving
    ELSE /\ chat' = Append(chat, j)
         /\ completion' = IF j \in ToSet(completion) THEN completion
                          ELSE Append(completion, j)

Refused(j) == j \in ToSet(chat) \cup ToSet(completion)

(* One round of the loop over the directories; the POST may find vLLM      *)
(* gone, or answer with an error, and the tick is over.                    *)
VisitDirectory(j) ==
    /\ stage = "register"
    /\ j \notin visited
    /\ visited' = visited \cup {j}
    /\ IF ~Missing(j) THEN UNCHANGED <<stage, serving, conflict>>
       ELSE IF ~up THEN AfterRaise /\ UNCHANGED <<serving, conflict>>
       ELSE /\ load_lora_adapter(j)
            /\ conflict' = (conflict \/ Refused(j))
            /\ IF Refused(j) THEN AfterRaise ELSE UNCHANGED stage
    /\ UNCHANGED <<directory, up, models, registered, current, counters>>

RegisterEnds ==
    /\ stage = "register"
    /\ visited = Jobs
    /\ stage' = "restart"
    /\ UNCHANGED <<directory, up, serving, models, registered, visited, current,
                   conflict, counters>>

(* The health check said yes, and then vLLM was gone. *)
GetModelsFails ==
    /\ stage = "models"
    /\ ~up
    /\ AfterRaise
    /\ UNCHANGED <<directory, up, serving, models, registered, visited, current,
                   conflict, counters>>

MutantRestartJobs ==
    /\ stage = "restart"
    /\ IF \E j \in Jobs : directory[j].status \in {"torn", "no_status"} THEN AfterRaise
       ELSE stage' = "clear"
    /\ UNCHANGED <<directory, up, serving, models, registered, visited, current,
                   conflict, counters>>

(* restart_megatron_jobs reads every status; json.load raises on one that  *)
(* is half written.                                                        *)
RestartJobs ==
    /\ stage = "restart"
    /\ IF \E j \in Jobs : directory[j].status = "torn" THEN AfterRaise
       ELSE stage' = "clear"
    /\ UNCHANGED <<directory, up, serving, models, registered, visited, current,
                   conflict, counters>>

ClearAcked ==
    /\ stage = "clear"
    /\ stage' = "sleep"
    /\ UNCHANGED <<directory, up, serving, models, registered, visited, current,
                   conflict, counters>>

TickStep ==
    \/ Tick \/ GetModels \/ GetModelsFails \/ RegisterEnds \/ RestartJobs \/ ClearAcked
    \/ \E j \in Jobs : VisitDirectory(j)

RegistryNext ==
    \/ TickStep \/ VllmStarts \/ VllmDies
    \/ \E j \in Jobs : Upload(j) \/ WriteStatus(j) \/ OpenStatus(j)
                        \/ CloseStatus(j) \/ Train(j)

(* The event loop runs the task, vLLM is restarted, files are closed. *)
RegistryFairness ==
    /\ WF_registryVars(TickStep)
    /\ WF_registryVars(VllmStarts)
    /\ \A j \in Jobs : WF_registryVars(CloseStatus(j))

RegistrySpec == RegistryInit /\ [][RegistryNext]_registryVars

-----------------------------------------------------------------------------
(* find_model for a full name, as generate calls it. *)
Offered(j) == j \in ToSet(models)

(* What the API offers, vLLM serves: unless vLLM has died since the list   *)
(* was read, a generate call that is accepted with a model finds it there. *)
OfferedIsServed ==
    current => \A j \in Jobs : Offered(j) => j \in ToSet(completion) /\ j \in ToSet(chat)

(* The chat and the completion server never differ, no adapter is loaded   *)
(* twice, and vLLM never answers a registration with "already loaded",     *)
(* which would end the tick: what the tick skips is what vLLM has.         *)
RegisteredOnce ==
    /\ chat = completion
    /\ \A i, k \in DOMAIN completion : completion[i] = completion[k] => i = k
    /\ ~conflict

(* A model is offered only after its job has written a checkpoint. *)
OfferedHasCheckpoint == \A j \in Jobs : Offered(j) => directory[j].ckpt

(* Every job with a checkpoint is offered again and again, for ever from   *)
(* some time on once vLLM stays: also when vLLM dies between the tasks of  *)
(* a tick or while the directories are visited, and whatever the other     *)
(* jobs' status files look like.                                           *)
EveryModelIsOffered ==
    \A j \in Jobs : directory[j].ckpt ~> [](Offered(j))

(* An exception in one task does not cost the others more than some ticks: *)
(* whenever the tasks have begun, the clearing of acked rows, the last of  *)
(* them, runs at some time, since every status file is closed at some time.*)
EveryTaskRuns == (stage # "sleep") ~> (stage = "clear")

\* Across ticks, deaths of vLLM and torn status files, a model on offer has a
\* checkpoint, the servers of this vLLM know it once each, and vLLM is not asked
\* to load it a second time.
ModelsAreServed ==
    /\ RegistryTypeOK
    /\ OfferedIsServed
    /\ RegisteredOnce
    /\ OfferedHasCheckpoint

\* Registration goes on whatever fails on the way: every job with a checkpoint
\* is offered in the end and stays so, and each tick comes to its last task.
RegistrationGoesOn == EveryModelIsOffered /\ EveryTaskRuns
=============================================================================
