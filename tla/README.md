# A TLA+ model of ScalarLM

ScalarLM serves a language model and trains it. A user's Python program calls
the SDK (`sdk/masint`); an API server (`infra/cray_infra/api`) accepts the
calls; vLLM servers (a modified copy of vLLM is in `infra/cray_infra/vllm`) fetch
prompts from it and send answers back; training jobs are submitted to slurm, run
`ml/cray_megatron`, and leave checkpoints that the server deploys. This directory
has TLA+ modules for the parts that hold state, TLC runs that check them on
small instances, and TLAPS proofs of central safety properties for every
value of the constants. Paths below are relative to the repository's root, those
of vLLM to `infra/cray_infra/vllm`; `PROJECT.json` maps every definition to its
lines.

## 1. Inventory

| Part | State | Operations | Talks to |
|---|---|---|---|
| Inference work queue `api/work_queue/inference_work_queue.py` | one SQLite row per request with an ack status; the file outlives the process, the queue object does not | put, get, get_nowait, get_id, update_and_ack, get_if_finished, clear_acked_data, resume on open | every handler below |
| Inference handlers `api/fastapi/generate/*`, `generate/metrics.py` | metrics of the process; locals of a waiting handler | generate, embed, get_results, get_work, finish_work, the periodic clearing | SDK and workers over HTTP, the queue |
| vLLM worker loop `vllm/entrypoints/openai/api_server.py` | the batch it has fetched | get_work_step: ask, run the batch, post the results; log and sleep on an exception; kill the container on a dead engine | handlers over HTTP |
| SDK `sdk/masint/engines/async_cray.py` | request ids of the call | generate/embed: submit, poll until every result is there | handlers over HTTP |
| Upload `training/upload_training_data.py` | a file in the temp directory | stream, hash, unpack, remove | SDK; then launch |
| Job launch and restart `training/launch_training_job.py`, `restart_megatron_jobs.py` | `status.json`, `config.yaml` of a job directory | launch, periodic restart of jobs that slurm does not know | slurm commands, the trainer through `status.json` |
| Slurm discovery `slurm/discovery` | `slurm.conf`, `gres.conf` | rewrite both for this machine at every start | slurm; launch reads them through scontrol |
| Trainer `ml/cray_megatron/*`, `training/training_harness.py` | step, history, checkpoints, `status.json` | resume, step, history, checkpoint, timeout, SIGCONT, FAILED/COMPLETED | other ranks over MPI, the API process through the directory |
| Collectives, FSDP, dataset loader `training/gpu_aware_mpi`, `distribution_strategy/fsdp`, `megatron/dataset` | shards, ranks, position in the data | allgather, reduce_scatter, barrier, next batch, next epoch | other ranks |
| Model registry `training/register_megatron_models.py`, `vllm_model_manager.py` | registered model names | discover checkpoints, register with vLLM, the three periodic tasks | vLLM over HTTP, job directories |
| Adapter cache `tokenformer/*`, `worker/model_runner.py` | registered and active adapters, LRU order, replaced tensors | add, activate, evict, deactivate | the scheduler's batches, checkpoints |
| Server lifecycle `one_server/*`, `api_server.py` | tasks of the server process, the engine process | start, handshake, serve, terminate, kill the container | everything |
| Scheduler and engine step `core/scheduler.py`, `engine/llm_engine.py` | waiting, running and swapped groups, budget of a step | add, abort, schedule, preempt, swap, process outputs | block manager, worker |
| Block manager `core/block_manager_v2.py`, `core/block/*` | block tables, reference counts, copies on write, prefix cache, evictor | allocate, append, fork, swap, free; promote, evict | scheduler, cache engine |
| Engine process and client `engine/multiprocessing/*` | requests and their queues; three ZeroMQ channels | generate, abort, step, heartbeat, errors | worker loop; scheduler |
| Async engine `engine/async_llm_engine.py` | streams, new and aborted requests, background loop | the same calls, in the server's own process | scheduler |
| Detokenizer, stop checker `transformers_utils/detokenizer.py`, `engine/output_processor/*` | tokens, offsets and text of a sequence | decode a token, stop, deltas of a stream | engine step |
| Broadcast `distributed/device_communicators/shm_broadcast.py` | ring of chunks with byte flags; sockets | enqueue, dequeue, handshake | driver and workers of a tensor parallel group |
| Command line, log and squeue views, OpenAI router, configuration, layers | none | formatting, one request each, arithmetic | API |

What is hard here. The API process runs all handlers on one event loop, so two
handlers rarely interleave, but every queue operation is committed on its own
and the process may die between two of them. Workers outlive the API process
they fetched from, so a request can be with two of them. `status.json` has
writers in several processes and no lock. Slurm kills trainers at any
instruction, a torch.save included. Uploads share one file name. The ranks of a
job must meet in every collective although each has its own clock, data and
exceptions. vLLM dies and comes back empty while the API lives on. Its scheduler
takes from and gives back to a cache that is full in the middle of a step; its
engine process may die with messages unsent; its workers share memory without
locks. Every one of these is listed with its line under `hazards` in
`PROJECT.json`, with the properties that are about it.

What makes each part correct. Queue and handlers: no request is lost, answered
for another prompt, or with two workers of one process; replies are in prompt
order; calls return. Jobs: one trainer per directory, an outcome that is final,
COMPLETED only with something to deploy, every accepted job ends, and it asks
for what the machine has. Upload: a job trains on what was sent with it. Ranks:
all take the same decision at every barrier; gathering undoes sharding; no token
is trained on by two ranks. Registry and cache: a model that is listed can be
served, and by its own weights. Engine: no block is free and used at once, a
slot of the cache that is read holds what its sequence computed, every request
is answered; nobody waits for a dead engine; the text is that of the tokens.

## 2. Modules

| Module | What it is |
|---|---|
| `InferenceWorkQueue` | the table and what each queue operation does to it |
| `Inference` | EXTENDS the queue: SDK calls, handlers, workers, crashes; the composed system |
| `RequestLedger` | abstract specification: what the service promises about requests |
| `TrainingJob` | one job directory: API process, slurm, trainers, `status.json`, checkpoints |
| `Upload` | concurrent `upload_training_data` calls and the temp file |
| `SlurmJobs` | slurm.conf over several starts, the arguments of sbatch |
| `TrainingRanks` | the ranks of one job, their collectives, clocks and status updates |
| `Fsdp` | a parameter sharded, gathered, updated, saved and resumed |
| `DatasetLoader` | which rank trains on which tokens in which epoch |
| `ModelRegistry` | the periodic tasks, the job directories and vLLM's adapters |
| `ServerLifecycle` | tasks of the server and its engine process, from start to end |
| `AdapterCache` | the tokenformer manager under the batches of a worker |
| `BlockAllocator` | the naive allocator, a block at a time |
| `BlockTables` | the block manager over it, as operators on a manager's state |
| `Scheduler` | uses `BlockTables` by INSTANCE: the engine step with queues, cache contents, swaps |
| `PrefixPool`, `PrefixCaching` | the prefix caching allocator as operators; the block manager with it |
| `EngineRpc` | engine process and client |
| `AsyncEngine` | the engine in the server's process |
| `OutputText` | tokens to text, stops, deltas |
| `ShmBroadcast`, `BroadcastQueue` | the ring with its store buffers; the queue it implements |
| `InferenceProofs`, `TrainingJobProofs`, `ShmBroadcastProofs`, `AdapterCacheProofs`, `EngineRpcProofs` | theorems about the module of that name |
| `EngineProofs` | theorems about `BlockAllocator` and `OutputText` |
| `TrainingRanksProofs` | theorems about `TrainingRanks`, `Fsdp` and `DatasetLoader` |
| `ContainerProofs` | theorems about `ServerLifecycle`, `SlurmJobs`, `Upload`, `ModelRegistry` and `AsyncEngine` |
| `MC...` | instances for TLC |

`Mut...` definitions are deliberate faults, each next to the definition that
it distorts; `PROJECT.json` says which property must notice it.

### Inference

*State.* `status`, `prompt`, `response`, `error`, `lastId` are the table (a
row's id is its AUTOINCREMENT key; a response is represented by the prompt it
was computed from). `opened` is the module global `inference_work_queue`:
the queue is opened, with `auto_resume`, by the first handler of a process, not
at startup. `depth`, `completed`, `epochSet` are the metrics. `wpc`, `work`,
`fetchedIn` are the workers; `cpc`, `ids`, `polled`, `got`, `reply` the SDK
calls and their handlers; `orphans` counts `get_work` handlers whose worker died.
`got[c]` is the set of the results that `poll_for_responses` holds: a request has at
most one, and the order in which they were appended is lost when they are sorted by
id. `reply[c]` is the sorted list.

*Steps.* An action is a stretch that ends in a commit to SQLite or a suspension.
`finish_work` is therefore `PostResults`, then `FinishGetId`, `FinishUpdate`,
`FinishAck` for each result; `generate` is `Enter`, then one `PutRow` per
prompt. `LoopFree` (no handler is between its writes) guards what starts a turn
of the event loop. The `asyncio` locks do not appear: they are never contended,
since nothing inside them suspends.

*What the code does that one might not expect*, all of it in the model:
`get_id` takes a row whatever its status, so a late `finish_work` un-acks an
answered row for a moment; a deleted row raises `Empty` and ends the handler
with a 500; `record_completed_request` raises after the ack when no epoch is
set, which leaves the rest of the batch unack until the API process restarts;
an exception in a worker's step forgets its batch, and no lease returns its
rows; a poll that times out reports None, and the SDK polls again.

*External.* persistqueue's SQLiteAckQueue is modelled from its use and its
documented statuses; `clear_acked_data` keeps `KeepLatest` rows and deletes at
most `MaxDelete` (1000 and 1000 in the library). `find_model` may fail.

### TrainingJob

*State.* `file` is `status.json`: absent, empty (truncated), garbled (a short
text over a longer one), or JSON with a status, a start time, a job id and the
steps of the history. `ckpt[s]` is `checkpoint_s.pt`: none, partial or saved.
`api`, `asub`, `abuf`, `listed` are the API process in `launch_training_job` or
`restart_megatron_jobs`; `slurm[j]` the j-th job that sbatch accepted; `phase`,
`sub`, `tbuf`, `step`, `history`, `stop` its trainer.

*Steps.* Every update of `status.json` is a read, an open that truncates and a
write (`StatusRead/Open/Write` in the API process, `UpdateRead/Open` and the
action of the phase in the trainer), and `torch.save` is an open and a write.
squeue is read before the status files, because `get_running_jobs` is a
generator and is run by `filter_running_jobs` only. Launch and restart never
interleave: neither awaits anything that suspends.

*Two constants describe the environment.* `Torn` allows a death between an open
and its write. `Timely` says that `run_sbatch` has returned before the job's
python starts; no lock ensures it, import time does. One run has both against
the code, one has both in its favour, since only then the stronger properties
hold (section 3).

*SIGCONT.* The handler uses a `logger` that `main.py` does not define, and what the
NameError does depends on where the trainer is. In `train` it ends the job in FAILED,
also when COMPLETED has just been written (`signal_handler`); in the except clause of
`main` itself it ends the process without FAILED (`SignalEscapes`); in `get_status` it
is caught and taken for a status that cannot be read, so that the update writes one
without start time and history, and training goes on (`SignalInGetStatus`); in
`save_status`, around `json.dumps`, it is caught and nothing is written
(`SignalInSaveStatus`). `swallowed` records the last two. While the tokenformer replaces a
layer it is caught too, without any effect on the directory
(`llama_tokenformer_model.py:32`; a stuttering step).

*What else one might not expect:* a partial newest checkpoint makes the resumed trainer fail although an older whole one
exists; a `status.json` left empty makes every later tick raise; a resumed
trainer repeats the step of its checkpoint.

*Left out here.* Several ranks (`TrainingRanks`), the sbatch arguments
(`SlurmJobs`), several directories (`ModelRegistry`), `config.yaml` (written before
`status.json`, never changed).

### Upload and SlurmJobs

`upload_training_data` suspends between two chunks of the body and nowhere
else. Inodes are kept apart from the path, since a removed file is still written
by those who have it open. The tar is not compressed whatever its name says, so
a mixture of two files can be unpacked; `UploadRaises` allows the other outcome
too.

A line of `slurm.conf` is its key, how many `=` it has and what it says, which is
what the discovery's parser tells apart. A start on another machine reads
what the last one wrote. `LaunchTrainingJob` computes nodes, GPUs, CPUs and the
time limit from what scontrol reports; the partition's limit is in minutes that
Slurm truncates, the job's is formatted from seconds. `SlurmSizes` names what this
rests on and the code does not ensure: a machine has a CPU for every GPU (a CPU's share
is otherwise 0), and `max_train_time` and the extra seconds are whole minutes, as the
defaults are.

### TrainingRanks, Fsdp and DatasetLoader

A rank's `pc` is a collective or a place between two. `Collective` joins all ranks
when each waits in one; `mixed` records that they waited in different ones.
`main_rank_only` is a barrier, the body on rank 0 and another barrier. A status
update is again a read, a truncation and a write. The ranks run one program, so any
number of them may raise an exception while loading or in a step (no memory, a bad
example, no data), and then write FAILED at the same time, without a lock
(`RankRaises`; `raised` says who did, and where). An exception in a step is raised
before its first collective: later ones differ only in the collective in which the
others wait. When a process has exited that way, or was killed, mpirun kills the
others one after another (`MpirunKills`), possibly between the open and the write of
one. Slurm kills any rank at any instruction (`SlurmKills`: scancel, a lost node, a
time limit), which `cancelled` records, and must do so when a rank has found the time over
and has not ended. `FailureIsRecorded` says what of FAILED can be relied upon: a rank
that raises alone leaves it on record; ranks that raise together leave nothing else
that can be read, but maybe an empty file or one text over the end of another.

`Fsdp` has one parameter whose elements are symbols with a count of the
correct updates they have had; a gradient is the set of contributions summed, so
a padding element, a slice of the wrong rank or a lost contribution is visible
(such an element is `Wrong`, which is none of the correct ones).
`DatasetLoader` has one symbol per token and every shuffle as a choice.

### ModelRegistry, ServerLifecycle and AdapterCache

`run_megatron_tasks` is a `stage` machine over registration (a directory at a
time, each an HTTP request), restart and clearing; an exception ends the tick.
vLLM may die at any time and starts empty; `current` says that it has not died
since the API read its list.

`ServerLifecycle` has the three tasks of `run_all_servers_async` in each of the
configurations it can be started with, and the handshake on the data socket,
whose requests may be left over from sockets that are closed.

`AdapterCache` follows where each replaceable tensor of the model comes from: the
base model, or an adapter's checkpoint.

### BlockAllocator, BlockTables, Scheduler

`BlockAllocator` is small enough to be proved about: handles (the Block objects)
on physical blocks with reference counts. `Scheduler` uses the same calls a
sequence at a time through `BlockTables`. One action is one iteration of one of
the loops of a step (`pc` says which): ignoring, skipping or scheduling a prompt,
decoding or preempting a group, swapping one in, merging, executing the model,
processing one group's outputs. `kv` is the content of every slot of the cache: a
token is written by the worker where the block table says, moved by swaps and
copies in the order of `worker.py`, and must be there when it is read.
The variable `conf` is the configuration, chosen at the start.

### PrefixPool and PrefixCaching

A content hash is the prefix itself, so hash collisions are assumed away.
The scheduler's choices are left open within the rules of `_schedule_default`: any
waiting prompt that fits, any running sequence preempted. `kv` records the prefix
that each slot was computed from, which is what skipping computed blocks relies on.

### EngineRpc, AsyncEngine, OutputText

In the first two an action is the code between two awaits, the engine gives each
request it holds one more output per step, and an output is its number, so that a
stream is right when it counts. `EngineRpc` has the channels as sequences; an
engine that dies keeps any prefix of what it had not flushed. `AsyncEngine` has no
channels, but a background loop whose death is told to those who wait by a
callback that the event loop runs later, and a step task that outlives it. The requests
that one step adds to the core are a set: in which of the orders they are added, nothing
that follows depends on.

`OutputText` has one sequence. Tokens are byte sequences with half characters
and spaces, characters are numbers; the two ways in which fast tokenizers turn
tokens to text are modelled (external), because the offsets of the decoder exist for
their sake. The assumptions on the sampling parameters are what
`SamplingParams._verify_args` lets pass, such as that no stop string is empty; a prompt
is text and does not end in half a character.

### ShmBroadcast and BroadcastQueue

Every load and store of a flag or chunk is a step, and every process has a store
buffer that drains in order (x86). A chunk that is being filled is `Torn`. The
refinement to `BroadcastQueue` says that each reader takes each object once and in
order and that the writer is at most the ring ahead.

## 3. Runs

Modules that share no variable are checked in one run: an `MC` module extends
them and a variable `moves`, chosen at the start, says which of them moves. A
behaviour of the whole is an interleaving of behaviours of the parts, and a
property that speaks of one part cannot see the others. A part that does not
move is pinned to one of its initial states.

| Run | Instance | Checks | Distinct states |
|---|---|---|---|
| `crash` | 2 calls (2 and 1 prompts, one generate, one embed), 2 workers in other containers, batches of 1 or 2, KeepLatest 1; one mishap: the API process dies at any point, a worker dies or its step raises (constraint `OneMishap`) | `TypeOK`, `HandedOutOnce`, `AckedRowsAreAnswered`, `RepliesAreAligned`, `DeletedRowsAreOld`, `ImplementsLedger` | 1,207,197 |
| `healthy` | generate calls only, no fault, answers that may be errors | `BacklogIsTold`, liveness `EveryCallReturns` | 116,752 |
| `recovery` | one container, batches of 1, 1 crash | liveness `EveryRequestIsAnswered` | 28,066 |
| `job_torn` | 3 steps, checkpoint at each, 3 slurm jobs, 1 kill, 1 crash, 1 failing command, Torn, not Timely | `JobIsConsistent`, `OneLiveJob` | 750,407 |
| `job_restart` | 6 slurm jobs, 2 kills, 1 crash, 1 failing command, not Torn, Timely | `ResumeFindsHistory`, `OutcomeIsFinal`, liveness `EveryJobEnds` | 109,068 |
| `upload_shared` | 3 uploads of 1, 2 and 3 chunks, limit 2 | `JobHasItsDataset` is violated | |
| `trainer` | 3 ranks, any of which may raise or be killed, 3 steps; parameters of 1 to 12 elements on 1 to 5 ranks; every dataset of up to 5 examples on 2 ranks | `RanksAgree`, `ShardsAreRight`, `DataIsShared`, `CheckpointIsCommon`, liveness `EveryProcessEnds` | 359,048 |
| `container` | server in its configurations; 12 machines and 72 job requests; 3 uploads; 2 models, 2 deaths of vLLM, 1 half-written status; 2 calls of an engine in the server's process with 2 outputs each and one step that raises or times out | `ServerIsConsistent`, `JobsFitMachine`, `UploadsAreKept`, `ModelsAreServed`, `AsyncIsTracked`, `OneDownAllDown`, liveness `RegistrationGoesOn`, `EveryStreamEnds` | 136,930 |
| `worker` | 3 adapters on a cache of 2; 2 blocks and 3 handles; 5 objects, 4 of them large, over 2 chunks to 2 local readers and a remote one | `AdaptersAreConsistent`, `AllocatorIsConsistent`, `ShmIsBounded`, refinement `IsQueue`, liveness `EverythingArrives` | 105,920 |
| `sched` | 3 requests, 1 abort, blocks of 2 tokens, in four configurations | `SchedulerIsConsistent`, `CacheHoldsOwnTokens`, liveness `EveryRequestIsAnswered` | 306,172 |
| `prefix` | 3 sequences with shared prompts in 4 blocks of 2, 4 steps | `PoolIsConsistent`, `CacheIsRight` | 1,664,859 |
| `rpc` | 2 requests, one guided, 2 outputs each, every fault; all outputs of up to 5 tokens from 6, with 5 sets of sampling parameters, 2 prompts and 2 tokenizers | `RequestsAreTracked`, `TextIsRight`, liveness `ClientGoesOn` | 353,934 |

Names like `RanksAgree` are conjunctions of named parts, each with its own
comment in its module: a type invariant and what is worth saying of the part. What
they show:

* *Inference.* Whatever dies, rows are handed out once per process, an answer
  stays with its prompt, and the service implements the request ledger.
* *Job.* A directory never has two live slurm jobs; COMPLETED means a whole
  checkpoint; history and start time survive every merge, unless update_status
  swallows a signal; outcomes are final.
* *Ranks.* As long as no two ranks judge the timeout of a step differently, they
  meet in the same collectives and their checkpoints are of one step; even then
  every process ends, by Slurm's limit. Exceptions of several ranks at once never
  leave a readable status other than FAILED. Gathering gives back what was sharded,
  padding stays zero and gradients fit, for sizes below, at and above
  multiples of the ranks. No token is trained on twice in an epoch.
* *Container.* The engine process does not outlive a server that has built its
  client; the end of one task ends all; job requests fit the partition; a
  model on offer is one that this vLLM serves, once; every task runs again after
  an exception.
* *Engine.* Under preemption, swapping, forking, sliding windows and aborts,
  every block is counted and every slot that is read holds its sequence's own
  token; groups keep their order; every request is answered or aborted.
  With prefix caching, what is skipped was computed, from the same prefix.
  A dead, hung or unreachable engine is noticed and callers are told.
* *Text.* Decoding by tokens gives the text of decoding at once; stop strings
  that come in pieces are found; a stream never gets what is cut off later.
* *Broadcast.* With no lock and with store buffers each object arrives once, in
  order, and no chunk is overwritten while it is read.

*Bounds.* Three rows and two workers are the least with which one worker has a
batch, another takes a row of it after a restart, and a third row pushes an
answered one out of `KeepLatest`. One crash suffices for a second delivery; a
second one repeats the first with fewer rows. Three steps let a history of two
entries overflow, and let a checkpoint be deleted. Six slurm jobs are more than
two kills, one crash and one failed command can use up. Three ranks let two of
them agree against a third. A cache of two adapters with three in use evicts
each of them. Three scheduled requests let one be preempted for another while a
third waits; the four configurations of `MCScheduler` are a cache too small for
the requests (recomputation), adapters of which one fits a batch with an
embedding, a prompt too long and a watermark, two samples of a prompt (forks,
copies on write, swaps), and a sliding window that the sequences outgrow. Four
blocks for three sequences of up to three blocks force evictions of cached
blocks in between. Two chunks make the ring wrap with five objects. One trouble of the
async engine is enough for a loop to die, another to be started and the first
one's callback to come late. `TextModelLen` is 8, so that both caps occur;
`InitialOffset` is 2 for the code's 5, so that a prompt can be longer than what is
kept of it.

*Fairness.* asyncio runs every handler that can run, so each handler step, each
loop of a client and each step of a background task is weakly fair; so are a
worker's loop and the SDK's. A dead container is started again (the chart's
deployments restart theirs, and `kill_vllm_container` relies on it), and so is
vLLM in `ModelRegistry`. Trainers, ranks, the API process, slurm's start of a
pending job and its time limit are weakly fair, and so is mpirun's killing of the
ranks that are left; Slurm's kills for other reasons are not; poll timeouts pass; store buffers
drain. Faults, callers' decisions to call, close or abort, and the clearing
of rows are not fair. In `Scheduler` weak fairness of `Step` is written out with
`StepIsEnabled`, because ENABLED of the swaps is slow to evaluate.

*What the liveness runs assume, and why.* `healthy` has no worker fault: the
code has no lease, so a batch that a worker forgets stays unack until the API
process restarts. It keeps all answers (KeepLatest = MaxId): a client that
comes later than 1000 further answers finds its row deleted and polls for ever.
`recovery` has batches of one: after a restart the metrics are empty, and
the first result of a larger batch raises. `job_restart` has Torn = FALSE: an
empty `status.json` blocks every later tick. In `rpc` liveness is for requests
without guided decoding, in `container` for streams of the tracker that is in use
(section 5 says what happens to the others).

*Deadlock* is not checked where a system may rightly stop: when all calls
have been made, all jobs have ended, or a bound is used up.

## 4. Proofs

`InferenceProofs` proves, for any finite or infinite set of clients and
workers, any batch size, any number of rows, crashes and faults, from
`QueueAssumption` and `InferenceAssumption` only:

* `TypeCorrect`: the types of the table, the metrics and everybody's position.
* `OncePerLifetime` (`HandedOutOnce`), `AnswersAreOwn` (`AckedRowsAreAnswered`),
  `ClearingKeepsLatest` (`DeletedRowsAreOld`).
* `AllTypeCorrect` (`TypeOK`) and `AlignedReplies` (`RepliesAreAligned`): what the SDK
  gets is in the order of its prompts, and it returns only with all of them answered.
* `ToldBacklog` (`BacklogIsTold`): what queue_depth and a None in a reply say.
* `Refinement`: `Spec => ImplementsLedger`. A step of the pipeline is a step of
  the ledger (`PutRow` accepts, `FinishUpdate` answers, `ClearAcked` forgets) or
  invisible to it.

None of the three invariants is inductive alone. `IInv` adds `RowsInv` (rows
exist exactly up to `lastId`), `LoopInv` (at most one handler is between its
writes, and its process is up with an open queue), `WorkInv` (a worker's rows
carry the prompts of the table; the row that is being finished is unack, and
answered before the ack) and `PutInv`. `HandedOutOnce` needs `LoopInv` and the
last part of `WorkInv`: without them a worker of this process could hold rows
while the queue is not open, and the next open would offer them again.
`Invariance` has one lemma per conjunct, each with one step per action.

`MessageInv` is about a call: its ids are ascending rows with its prompts (`CallInv`), the
API keeps one result of each (`GotInv`), a reply lists them in the order of the ids
(`ReplyInv`). A reply is chosen as a listing of the results with ascending ids;
`SortedListing` proves that there is one and, by the least position in which two
could differ, no other, so it is the list of the call's ids. `BacklogInv` counts: every
put, get and ack moves one row into or out of the set of waiting rows. What it says
ends where the code's own promise ends: the metrics with the first crash of the API
process, and "None means unfinished" with the first mishap.

`TrainingJobProofs` proves, for any number of jobs, steps, kills and crashes:

* `OneTrainerPerDirectory` (`OneLiveJob`), with Torn and Timely either way. `JobInv`
  says why: whoever is on the way to sbatch has seen no live job, in squeue or
  because no `status.json` exists (`SubmitInv`), and no other process submits; slurm
  numbers its jobs in order (`SlurmInv`); what is written always has a status, so a
  directory that was launched is never absent again (`BufferInv`).
* `JobTypes`, and `CompletedJobIsSaved` (`JobIsConsistent`), also with Torn and
  Timely either way. `LaunchInv`: a submission is prepared only for a directory
  without an outcome, and after COMPLETED a trainer writes at most FAILED. `CkptInv`: a
  trainer is behind no checkpoint of its directory, and has saved its own step before
  it says COMPLETED. That the latest checkpoint is well defined, and outlives
  `delete_old_checkpoints`, is a lemma of its own.
* `OutcomesAreFinal` (`OutcomeIsFinal`), if Timely. `TimelyInv`: no trainer works
  while the API process is between its decision to submit and its last write.
* `HistoryIsFound` (`ResumeFindsHistory`), if Timely and not Torn. The property
  itself excludes a directory in which `update_status` has swallowed a signal; what it
  then still promises is that a history begins with step 0. `FileInv`: a
  `status.json` that cannot be read is one that somebody has open. `HistoryInv`:
  not only the file but every copy that a process has read and will write back has
  the start time and a history that reaches the newest checkpoint, if no signal was
  swallowed.

The last two need their hypotheses. A job that starts before `run_sbatch` has
returned can finish before `save_job_id` writes its copy of an older status over
the outcome; a trainer that dies between its truncation and its write leaves a file
without history. Each hypothesis is a value of a constant that describes the
environment (run `job_restart` has both, `job_torn` has neither).

`EngineProofs` is about two modules. It proves `AllocatorIsSafe` (`AllocatorIsConsistent`) for any
finite sets of blocks and handles: reference counts are exactly the numbers of
handles, a block is in the free list, once, exactly when nobody holds it, and a
handle that tokens are written through is alone on its block. The invariant adds
that handles in the pool are empty and that the free list has no duplicates. The
counting is done by two lemmas about moving one handle from a block to another
(`HoldersMove`, `CountsMove`), which every action's step uses.

For `OutputText` it proves, for any prompt, tokens, stop strings and parameters:

* `StreamedTextIsFinal` (the parts `SentIsFinal` and `NoStopIsMissed`), for both
  tokenizers: it needs no more of them than that they give text. `TextInv`: a
  running stream has been given all of the text but the last `BufferLength`
  characters (`HeldBackInv`), the text holds no stop string (`NoStringInv`), and
  what a string ended is cut at the first place of it (`CutInv`). As there was no
  string before, a string that is found now ends in the new text (`NewMatch`), so
  looking back by its length is far enough to find the first place of it; and as
  `BufferLength` is one less than the longest string (`LongestStop`), the cut is
  never before what has been sent.
* `TextIsThatOfTokens` (`DecodedAsOne`) for byte-level tokenizers. `DecodeInv`: the
  bytes whose text is out do not end in half a character, nor do those that are
  looked back at; and what is pending has no text or ends in what may still become a
  character. Where no character is cut in two, the text of bytes is the text of the
  two pieces (`ByteLevelJoin`), so what a window adds is the text of what is pending.
* `TextStaysRight`: both together, `TextIsRight` for byte-level tokenizers.

The tokenizers are recursive functions and the flattening of tokens is a fold; that
each has a value of the right type, and the steps by which it grows, is shown by
extending an initial part of it by one element (`UpTo`, `Readable`, `Flattened`).

`ShmBroadcastProofs` proves, for any number of readers, chunks, objects and pending
stores, `ShmBounded` (`ShmIsBounded`) and the refinement `ShmImplementsQueue`
(`ShmSpec => IsQueue`): with no lock and with store buffers, every reader is given
every object once and in order. The stores of the writer are numbered: store x of
object n is `Op(n, x)`. `BufferInv`: what the writer's store buffer holds is the end
of this numbering, in order. Only the last MaxChunks objects (`Window`) can be
pending or unread, and each has a chunk of its own; so what memory holds of a chunk
is told by which stores of its object are `Done` (`MemInv`). A reader that found its
own flag 0 and then the written flag 1 has seen flags of one object, although each
may change between its loads (`ReaderInv`), and it is the object it has to take
next. Then each
step of the ring is a step of the queue or invisible to it: `MarkWritten` enqueues,
`MarkRead` of a small object and `Receive` dequeue.

`TrainingRanksProofs` is about three modules. For any number of ranks, steps and
checkpoints of `TrainingRanks` it proves `RanksStayInStep` (`RanksAgree`) and
`CheckpointsAreCommon` (`CheckpointIsCommon`). A collective ends for all ranks at once, so between two of them every rank is on its
way from the last one, L, in a step b (`Segment(L, b)`); `Behind` lists the places
where a rank may then be, and what its step, its `stop` flag and its judgement of
the clock are. The next collective depends on L, b and the clock alone, on which
ranks agree unless `disagreed`; whoever raises an exception or is killed never comes
to the next collective, so nobody passes it, and all that raise do it behind the same
one. `RaisedInv` adds what they leave: who has exited has written FAILED over nothing
but the FAILED of others; one that raises alone writes into the file it has emptied
itself; and without Slurm nobody is killed before one has exited.

For a parameter of any size, any number of ranks and updates of `Fsdp` it proves
`ShardsStayRight` (`ShardsAreRight`). `FsdpInv`: the shards of all ranks are those of
the parameter after the same number of updates, and so is a checkpoint. That gathering
undoes sharding is `Flattening`: the concatenation of a list of lists, by position. The
library defines it by recursion over the list, which cannot be unfolded for every length;
but it is the value of a function on 1 .. n, and the least index at which that function
could differ from the offsets leads to a contradiction. The rest is arithmetic of
ceilings: the shard size is numel / world rounded up, so the position of an element and
its rank determine each other.

For any dataset, shuffles, ranks and sizes of `DatasetLoader` it proves `DataStaysShared`
(`DataIsShared`). `DataInv`: what was trained on is exactly the batches that the loaders
have handed out (`FromTheLoaders`, `NoneLeftOut`). Three levels of the code cut a
sequence in the same way, into groups, blocks and batches, and one lemma about pieces of
one size (`PiecesAre`, `PiecesApart`) serves all of them. Shares do not overlap because all
ranks shuffle with the same seed and are dealt every World-th example (`SharesApart`); a token is in
one example of a share, at one place of one block of one batch (`NoneTwiceInEpoch`). That
few tokens are dropped is counted by an injection of the dropped ones into the pairs of a
group and a position below the block size (`NoMoreThan`, `FewDropped`).

`ContainerProofs` proves five small systems that share no variable:

* `EngineIsReapedAlways` (`ServerIsConsistent`), for every configuration of the
  server: a vLLM task that has built its client is done only after the join, and
  the main coroutine is done only after it (`ReapInv`).
* `QuietUploadsAreKept` (`UploadsAreKept`), for any number of uploads and chunks: one
  that was never overlapped is alone in receiving, and the path is its own inode with
  its chunks so far (`QuietInv`).
* `ModelsAreServedAlways` (`ModelsAreServed`), for any set of jobs: an adapter that is
  loaded while the directories are visited was listed at the begin of the tick or
  registered in it (`RegisterInv`); so no adapter is loaded twice, although vLLM
  may die and come back empty between any two requests.
* `JobsFitMachineAlways` (`JobsFitMachine`), for any machines, requests and shipped
  settings with `SlurmSizes`. `SlurmInv`: after a start every key has one line
  (`OnlyOnce`) and the lines are those for this machine (`FileFor`), because a start
  reads the settings into a dict, without the lines of nodes and partitions, and writes
  each of its keys once; a job
  has the arguments that this machine gives its request (`Asked`), and the limits follow
  from facts about quotients.
* `AsyncIsTrackedAlways` (`AsyncIsTracked`), for any calls, outputs and troubles. `TrackInv`:
  a stream that the tracker holds is not ended and not about to be aborted, and what it
  was given is what the core has made of its request; a caller who waits has an end in his
  queue or is held. `BgInv`: a loop that died without a word, and a tracker that was
  replaced, have a callback to come. `NewInv`: a request that is not taken yet has left
  no trace.

`AdapterCacheProofs` proves `AdaptersStayConsistent` (`AdaptersAreConsistent`), for any
adapters, checkpoints, tensors and capacity: a batch runs with the weights of its
own adapter or with the base model's, and the manager hits no KeyError and pops no
empty list. `WeightsInv`: every replaceable tensor comes from the active adapter, or
from the base model. `MappingInv`: a path may map to the id of an adapter that was
evicted, but never to the id of another one. `BatchInv`: how far a batch has come
with its adapters. Two lemmas carry the LRU list: a move to its end keeps its
elements and the order of the others (`MovedIsLast`), and a list without
duplicates is as long as its set is large (`ListCount`), so that eviction leaves room.

`EngineRpcProofs` proves `RequestsStayTracked` (`RequestsAreTracked`), for any
requests, guided or not, any number of outputs and heartbeats in flight, and every
set of faults. `FreshInv` and `ProcessInv`: nothing in the engine or in a channel
is about a request before it is sent; it is sent once, has no output before the
engine takes it in, and when its caller leaves a client that is not errored, an
abort follows it in the same channel. Hence `NoWorkForNobody` survives the moment
in which the engine takes the request in. `RunInv` ties the engine to the streams:
what it has made of a request is what its caller was given, or is the newest of
what waits or is under way; so the next output closes up to the stream, and the
finished one, when it is given, leaves nothing running. A stream is described by
positions (`Known` in the queue, `Sent` in the channel) and the set of their
numbers (`Unread`): delivery moves a number from one to the other (`NumberMoves`),
a step of the engine adds the next one (`StreamGrows`), and an engine that dies
cuts the stream at its end (`StreamIsCut`). `ErrorInv` gives every error in a queue
its reason, which `FailuresAreOwn` needs.

Each invariant is one lemma per conjunct or per process, with one step per action
below it, and was checked by TLC on the instances of section 3 before it was proved.

Only model-checked:

* Liveness, which is beyond the prover.
* `SchedulerIsConsistent` and `CacheHoldsOwnTokens` of `Scheduler`, `PoolIsConsistent` and
  `CacheIsRight` of `PrefixCaching`. Their block managers are folds over the blocks of a
  sequence whose accumulator is the allocator's whole state, each step of which reads what
  the one before wrote. There is no closed form to prove, as in `Fsdp` and `DatasetLoader`; an
  invariant would have to be carried through the fold of every operator by a least
  counterexample of its own, since the library's induction is out of reach.
  `EngineProofs` proves the steps of the naive allocator a block at a time, where
  no fold is in the way.
* `DecodedAsOne` of `OutputText` with the SentencePiece tokenizer. There a run of
  byte tokens is judged as a whole and the first space is dropped, so that a window
  decodes as the whole does only if what is looked back at has text. That is not so
  for every value of the constants: when all the tokens kept of a prompt are special
  and skipped, the first space of the answer is lost.

## 5. Known deviations

What the code does against its words or its purpose. Only the first is a run of
its own that must be violated; the others were met while modelling, and the models
either contain them and the properties say where they stop, or assume them away
as stated.

*Upload.* The temp file that is said to be random is one file for all uploads, so
that a job can be accepted with another request's dataset
(`upload_training_data.py:125`, run `upload_shared`).

*Inference.* On a server that has served no generate call, `finish_work` raises after
the first embedding of a batch and the others are reported as None, because
`record_new_request` is called by generate only (`generate/metrics.py:32`).

*Training.*
* The handler of SIGCONT, which is to put the job back to QUEUED, raises a NameError
  (`main.py:55`): the job ends in FAILED. Inside `update_status` it is swallowed
  (`training_harness.py:42` and `:56`): the status loses history and start time, so
  that a later resume raises a KeyError, or is not written, so that a finished job
  stays in TRAINING and is submitted again. In the handler that writes FAILED it
  escapes, and the job is submitted again, too.
* Several ranks that raise write FAILED without a lock, and mpirun kills the others
  when the first has exited (`main.py:38`, `training_harness.py:60`): `status.json` may
  stay empty, or hold one text over the end of another, and every later tick raises.
* The history, meant to be evenly spaced, goes back after a resume (`training_loop.py:96`).
* Every rank writes COMPLETED; one that reads while another has truncated writes a
  status without history (`megatron_trainer.py:30`; `HistoryIsKept` is about the time
  before).
* A checkpoint has the keys of the unsharded model; resumed on several GPUs,
  `strict=False` skips them all and training starts from the base weights
  (`training_loop.py:98`; `ResumeRestoresWeights` is stated for one rank).
* The last rank cuts its gradient to a number that has nothing to do with its part
  (`fsdp.py:422`): harmless unless a parameter has at most half as many elements as
  there are ranks (`GradientFitsShard`).
* A request without a timeout gets Slurm's limit from the server's configuration
  (15 minutes and 5 extra by default), while the trainer's own check stops and saves
  after its default of four hours: slurm kills the job first
  (`launch_training_job.py:231`).
* A `config.yaml` that `JobConfig` rejects raises again in the handler that would
  write FAILED, and the job is submitted at every tick (`main.py:38`).

*vLLM scheduler.* With no CPU blocks (ScalarLM passes `--swap-space=0`) a group
of several samples that must be swapped raises and ends the engine
(`scheduler.py:1601`; the configuration `Parallel` has CPU blocks). A group of which
one sample has finished is recomputed with two sequences and fails an assertion
(`scheduler.py:1338`; in `Parallel` the samples end together). A request that ran and
grew to the size of the cache is, once preempted, judged NEVER because of the
watermark and dropped (`block_manager_v2.py:143`); it is answered with
nothing. `can_allocate` counts blocks with the sliding window, `allocate` without
(`block_manager_v2.py:134`; `Windowed` has blocks for all). A swapped group
that is judged infeasible is dropped without freeing its CPU blocks
(`scheduler.py:726`; `FinishedIsFreed` is about the GPU's). Groups that are swapped
out go to the end of `swapped` whenever they arrived (`scheduler.py:1113`;
`ArrivalOrder` is about the others).

*vLLM prefix cache.* The evictor stops at the first block that was accessed later than
the best so far, as if blocks were inserted in the order of their access times, which
they are not always: it is then not the least recently used block that goes
(`evictor_v2.py:97`). The cache stays right.

*Engine process.* A request whose guide was being built when the output loop
returned registers after everyone was told, and waits for ever
(`client.py:655`). A `setup()` that timed out leaves its request in the engine's
socket; the engine answers that one, to a socket that is closed, and answers no
other: the server asks for ever (`api_server.py:446`). If building the client raises,
the engine process stays behind (`api_server.py:438`; `EngineIsReaped` is about servers
whose client was built).

*Async engine.* When the loop dies, requests it had not taken yet are not told; a
request that comes between the loop's end and its callback starts a new loop with a
new tracker, and the streams of the old one are never told (`strays`;
`async_llm_engine.py:787`). A caller cancelled in `queue.get` is not aborted, since
CancelledError is no GeneratorExit; his request is computed to its end. With
pipeline parallelism an abort may be taken by one virtual engine before another
adds the request.

*Text.* With `min_tokens`, the search for a stop string reaches back before the
first token that may stop: a string that ended earlier is found, and text is cut off
that was already sent (`stop_checker.py:103`; `SentIsFinal` and
`NoStopIsMissed` are for `min_tokens = 0`). Of several stop strings the first of the
list is taken, not the first in the text.

## 6. Not modelled

* The bulk of the vendored vLLM: models, layers, kernels, quantization, attention
  backends, sampling, tokenizers, multimodal inputs, the OpenAI protocol and the
  configuration. It is arithmetic, data or formatting. It makes up most of the 145,000
  lines of the repository, so the map covers few of them in all, but the
  parts of ScalarLM itself that keep state are mapped nearly completely, and of vLLM the
  ones named above.
* Of the modelled parts of vLLM: chunked prefill, the priority policy, multi-step and
  speculative decoding, asynchronous output processing, encoder-decoder models, the
  Ray and multiprocessing executors (the broadcast between their processes is
  modelled), prefix caching together with swapping or LoRA, hash collisions, slow
  tokenizers, log probabilities, beam search, several virtual engines.
* Starvation of a group whose adapter never fits while others keep coming:
  arrivals are bounded here.
* The shared memory ring on processors weaker than x86, and a remote socket at
  ZeroMQ's high-water mark.
* Numerics: floating point, gradient clipping (which takes the norm of each rank's
  shards), the optimizer state (which only rank 0 saves), the label mask.
* Reads without effect: list_models, get_latest_model, job logs, squeue, health.
* The command line tools, the OpenAI router (passes requests through), uvicorn's
  reload supervisor.

## 7. Plan

Done: everything above. What could be added:

1. Lemmas about single operators of `PrefixPool` and `BlockTables`, as far as they need no
   induction over the blocks of a sequence.
2. The multiprocessing executor over the broadcast: worker processes, their results
   and their end.
3. Chunked prefill and the priority policy in `Scheduler`.
