----------------------------- MODULE Inference -----------------------------
(***************************************************************************)
(* A generate or embed call from the SDK to the vLLM worker and back:      *)
(*                                                                         *)
(*   SDK call --POST generate/embed--> API process --> work queue          *)
(*   SDK call --POST get_results-----> API process --> work queue          *)
(*   vLLM worker --POST get_work-----> API process --> work queue          *)
(*   vLLM worker --POST finish_work--> API process --> work queue          *)
(*                                                                         *)
(* The API process runs its handlers on one asyncio event loop.  A handler *)
(* keeps the loop until it sleeps, so its queue operations are not         *)
(* interleaved with another handler's, but each is committed to SQLite on  *)
(* its own and the process can die between two of them.  Hence one action  *)
(* per commit for the handlers that write several times, and LoopFree as a *)
(* guard of whatever starts a turn of the loop.                            *)
(***************************************************************************)
EXTENDS InferenceWorkQueue, Sequences

CONSTANTS
    Clients,        \* SDK calls
    Workers,        \* vLLM servers, each running one get_work loop
    PromptsOf,      \* the prompts argument of each SDK call
    KindOf,         \* "generate" or "embed"
    BatchSize,      \* bound: largest dynamic batch size
    Outcomes,       \* what vLLM can answer: subset of {"response", "error"}
    Colocated,      \* server_list = "all": API and vLLM in one container
    MaxCrashes,     \* bound: deaths of the API process
    MaxFaults       \* bound: deaths of a worker, exceptions in get_work_step

ASSUME InferenceAssumption ==
    /\ PromptsOf \in [Clients -> Seq(Prompts) \ {<<>>}]
    /\ KindOf \in [Clients -> {"generate", "embed"}]
    /\ BatchSize \in Nat \ {0}
    /\ Outcomes \subseteq {"response", "error"}
    /\ Colocated \in BOOLEAN
    /\ MaxCrashes \in Nat
    /\ MaxFaults \in Nat

VARIABLES
    apiUp,          \* the API process runs
    gen,            \* how many API processes have died before this one
    depth,          \* Metrics.queue_depth
    completed,      \* Metrics.total_completed_requests
    epochSet,       \* Metrics.epoch_time is not None
    orphans,        \* get_work handlers whose worker is gone
    faults,         \* faults of workers so far
    wpc,            \* where each worker is in get_work_step
    work,           \* the prompts it has fetched and not yet finished, by id
    fetchedIn,      \* gen when it fetched them
    cpc,            \* where each SDK call is
    ids,            \* its request_ids
    polled,         \* poll_for_responses has made a pass over request_ids
    got,            \* what responses.results of poll_for_responses holds
    reply           \* the results that the SDK received last

apiVars == <<apiUp, gen, depth, completed, epochSet, orphans>>
workerVars == <<faults, wpc, work, fetchedIn>>
clientVars == <<cpc, ids, polled, got, reply>>
vars == <<queueVars, apiVars, workerVars, clientVars>>

Results == [id : Ids, response : Prompts \cup {None}, error : BOOLEAN]

NoWork == [i \in Ids |-> None]

Batch(w) == {i \in Ids : work[w][i] # None}

(* gather and the handler's for loop keep the order of the batch. *)
First(w) == CHOOSE i \in Batch(w) : \A j \in Batch(w) : i <= j

Finishing == {"get_id", "update", "ack"}

Holding == {"generating"} \cup Finishing

(* Types of the table, of the metrics and of where everybody is. *)
ProcessTypeOK ==
    /\ QueueTypeOK
    /\ apiUp \in BOOLEAN
    /\ gen \in 0 .. MaxCrashes
    /\ depth \in Int
    /\ completed \in Nat
    /\ epochSet \in BOOLEAN
    /\ orphans \in Nat
    /\ faults \in 0 .. MaxFaults
    /\ wpc \in [Workers -> {"idle", "asking"} \cup Holding]
    /\ work \in [Workers -> [Ids -> Prompts \cup {None}]]
    /\ fetchedIn \in [Workers -> 0 .. MaxCrashes]
    /\ cpc \in [Clients -> {"new", "putting", "polling", "replied",
                            "repost", "done", "failed"}]
    /\ polled \in [Clients -> BOOLEAN]

(* Type correctness of the composed state. *)
TypeOK ==
    /\ ProcessTypeOK
    /\ ids \in [Clients -> Seq(Ids)]
    /\ got \in [Clients -> SUBSET Results]
    /\ reply \in [Clients -> Seq(Results)]

Init ==
    /\ QueueInit
    /\ apiUp = TRUE
    /\ gen = 0
    /\ depth = 0
    /\ completed = 0
    /\ epochSet = FALSE
    /\ orphans = 0
    /\ faults = 0
    /\ wpc = [w \in Workers |-> "idle"]
    /\ work = [w \in Workers |-> NoWork]
    /\ fetchedIn = [w \in Workers |-> 0]
    /\ cpc = [c \in Clients |-> "new"]
    /\ ids = [c \in Clients |-> <<>>]
    /\ polled = [c \in Clients |-> FALSE]
    /\ got = [c \in Clients |-> {}]
    /\ reply = [c \in Clients |-> <<>>]

(* No handler is between two of its writes. *)
LoopFree ==
    /\ apiUp
    /\ \A c \in Clients : cpc[c] # "putting"
    /\ \A w \in Workers : wpc[w] \notin Finishing

-----------------------------------------------------------------------------
(* The API's generate and embed handlers.                                  *)

Enter(c) ==
    /\ cpc[c] = "new"
    /\ LoopFree
    /\ OpenQueue
    /\ cpc' = [cpc EXCEPT ![c] = "putting"]
    /\ UNCHANGED <<prompt, response, error, lastId, apiVars, workerVars,
                   ids, polled, got, reply>>

(* POST generate arrives, and find_model finds the model. *)
Generate(c) == KindOf[c] = "generate" /\ Enter(c)

(* POST embed arrives; embed takes any model name. *)
Embed(c) == KindOf[c] = "embed" /\ Enter(c)

Submit(c) == Generate(c) \/ Embed(c)

(* find_model returns None: 404, and the SDK's assertion fails.  With the  *)
(* API down, either call fails.                                            *)
SubmitFails(c) ==
    /\ cpc[c] = "new"
    /\ \/ ~apiUp
       \/ LoopFree /\ KindOf[c] = "generate"
    /\ cpc' = [cpc EXCEPT ![c] = "failed"]
    /\ UNCHANGED <<queueVars, apiVars, workerVars, ids, polled, got, reply>>

MutantEpochOnSecondRequest ==
    /\ epochSet' = (epochSet \/ depth = 1)
    /\ depth' = depth + 1
    /\ UNCHANGED completed

record_new_request ==
    /\ epochSet' = (epochSet \/ depth = 0)
    /\ depth' = depth + 1
    /\ UNCHANGED completed

PutRow(c) ==
    LET k == Len(ids[c]) + 1 IN
    /\ cpc[c] = "putting"
    /\ put(PromptsOf[c][k])
    /\ ids' = [ids EXCEPT ![c] = Append(@, lastId + 1)]
    /\ cpc' = [cpc EXCEPT ![c] = IF k = Len(PromptsOf[c]) THEN "polling"
                                                          ELSE "putting"]
    /\ UNCHANGED <<apiUp, gen, orphans, workerVars, polled, got, reply>>

(* One turn of the loop over prompts in generate, and in embed, which does *)
(* not touch the metrics.                                                  *)
PutGenerate(c) ==
    /\ KindOf[c] = "generate"
    /\ PutRow(c)
    /\ record_new_request

PutEmbed(c) ==
    /\ KindOf[c] = "embed"
    /\ PutRow(c)
    /\ UNCHANGED <<depth, completed, epochSet>>

PutPrompt(c) == PutGenerate(c) \/ PutEmbed(c)

-----------------------------------------------------------------------------
(* poll_for_responses in the API, and the SDK's loop around it.            *)

Requested(c) == {ids[c][k] : k \in 1 .. Len(ids[c])}

(* responses_so_far: no request has two results, and the order in which    *)
(* the results came is lost when they are sorted.                          *)
Seen(c) == {r.id : r \in got[c]}

Newly(c) == {i \in Requested(c) \ Seen(c) : get_if_finished(i)}

(* One pass over request_ids.  time.time() - start_time is below the       *)
(* timeout when the loop is entered, so there is at least one pass.        *)
PollPass(c) ==
    /\ cpc[c] = "polling"
    /\ LoopFree
    /\ got' = [got EXCEPT ![c] =
                  @ \cup {[id |-> i, response |-> response[i],
                           error |-> error[i]] : i \in Newly(c)}]
    /\ polled' = [polled EXCEPT ![c] = TRUE]
    /\ UNCHANGED <<queueVars, apiVars, workerVars, cpc, ids, reply>>

Unfinished(c) ==
    {[id |-> i, response |-> None, error |-> FALSE] :
        i \in Requested(c) \ Seen(c)}

Listings(results) ==
    {f \in [1 .. Cardinality(results) -> results] :
        \A r \in results : \E k \in DOMAIN f : f[k] = r}

(* As they were appended: the requests that did not finish come last. *)
MutantUnsorted(results) ==
    CHOOSE f \in Listings(results) :
        \A j, k \in DOMAIN f :
            j < k /\ f[j].response = None => f[k].response = None

SortById(results) ==
    CHOOSE f \in Listings(results) :
        \A j, k \in DOMAIN f : j < k => f[j].id < f[k].id

(* The loop ends: with every result, or on the timeout with None for the   *)
(* requests that were not seen acked.                                      *)
PollReply(c) ==
    /\ cpc[c] = "polling"
    /\ polled[c]
    /\ LoopFree
    /\ reply' = [reply EXCEPT ![c] = SortById(got[c] \cup Unfinished(c))]
    /\ got' = [got EXCEPT ![c] = {}]
    /\ polled' = [polled EXCEPT ![c] = FALSE]
    /\ cpc' = [cpc EXCEPT ![c] = "replied"]
    /\ UNCHANGED <<queueVars, apiVars, workerVars, ids>>

(* The SDK's is_finished: the first result that is an error raises, the    *)
(* first that has no response asks for another poll.                       *)
is_finished(c) ==
    LET open == {k \in 1 .. Len(reply[c]) :
                    reply[c][k].error \/ reply[c][k].response = None}
        first == CHOOSE k \in open : \A l \in open : k <= l
    IN  IF open = {} THEN "done"
        ELSE IF reply[c][first].error THEN "failed" ELSE "repost"

CheckReply(c) ==
    /\ cpc[c] = "replied"
    /\ cpc' = [cpc EXCEPT ![c] = is_finished(c)]
    /\ UNCHANGED <<queueVars, apiVars, workerVars, ids, polled, got, reply>>

(* POST get_results with the request ids of the last reply. *)
Repost(c) ==
    /\ cpc[c] = "repost"
    /\ LoopFree
    /\ OpenQueue
    /\ ids' = [ids EXCEPT ![c] = [k \in 1 .. Len(reply[c]) |-> reply[c][k].id]]
    /\ cpc' = [cpc EXCEPT ![c] = "polling"]
    /\ UNCHANGED <<prompt, response, error, lastId, apiVars, workerVars,
                   polled, got, reply>>

RepostFails(c) ==
    /\ cpc[c] = "repost"
    /\ ~apiUp
    /\ cpc' = [cpc EXCEPT ![c] = "failed"]
    /\ UNCHANGED <<queueVars, apiVars, workerVars, ids, polled, got, reply>>

-----------------------------------------------------------------------------
(* get_work: the worker's POST waits in the API for a row.                 *)

AskForWork(w) ==
    /\ wpc[w] = "idle"
    /\ LoopFree
    /\ OpenQueue
    /\ wpc' = [wpc EXCEPT ![w] = "asking"]
    /\ UNCHANGED <<prompt, response, error, lastId, apiVars,
                   faults, work, fetchedIn, clientVars>>

GetWork(w, n) ==
    LET rows == FirstReady(n) IN
    /\ wpc[w] = "asking"
    /\ LoopFree
    /\ rows # {}
    /\ get(rows)
    /\ work' = [work EXCEPT ![w] =
                   [i \in Ids |-> IF i \in rows THEN prompt[i] ELSE None]]
    /\ fetchedIn' = [fetchedIn EXCEPT ![w] = gen]
    /\ wpc' = [wpc EXCEPT ![w] = "generating"]
    /\ UNCHANGED <<apiVars, faults, clientVars>>

(* inference_work_queue_timeout: no row came, "No work to do". *)
NoWorkToDo(w) ==
    /\ wpc[w] = "asking"
    /\ LoopFree
    /\ ReadyRows(status) = {}
    /\ wpc' = [wpc EXCEPT ![w] = "idle"]
    /\ UNCHANGED <<queueVars, apiVars, faults, work, fetchedIn, clientVars>>

(* The handler of a worker that died while it waited still takes rows (or  *)
(* times out) and answers a closed connection.                             *)
OrphanGetWork(n) ==
    /\ orphans > 0
    /\ LoopFree
    /\ get(FirstReady(n))
    /\ orphans' = orphans - 1
    /\ UNCHANGED <<apiUp, gen, depth, completed, epochSet,
                   workerVars, clientVars>>

-----------------------------------------------------------------------------
(* finish_work: get_id, update, ack, metrics for each result in turn.      *)

Drop(w) == work' = [work EXCEPT ![w] = NoWork]

PostResults(w) ==
    /\ wpc[w] = "generating"
    /\ LoopFree
    /\ OpenQueue
    /\ wpc' = [wpc EXCEPT ![w] = "get_id"]
    /\ UNCHANGED <<prompt, response, error, lastId, apiVars,
                   faults, work, fetchedIn, clientVars>>

(* The POST cannot be made: get_work logs, sleeps and forgets the batch. *)
PostFails(w) ==
    /\ wpc[w] = "generating"
    /\ ~apiUp
    /\ Drop(w)
    /\ wpc' = [wpc EXCEPT ![w] = "idle"]
    /\ UNCHANGED <<queueVars, apiVars, faults, fetchedIn, clientVars>>

MutantAckWithoutUpdate(w) ==
    /\ wpc[w] = "get_id"
    /\ get_id(First(w))
    /\ wpc' = [wpc EXCEPT ![w] = "ack"]
    /\ UNCHANGED <<apiVars, faults, work, fetchedIn, clientVars>>

FinishGetId(w) ==
    /\ wpc[w] = "get_id"
    /\ get_id(First(w))
    /\ wpc' = [wpc EXCEPT ![w] = "update"]
    /\ UNCHANGED <<apiVars, faults, work, fetchedIn, clientVars>>

(* persistqueue.Empty leaves the handler: 500, the worker's assertion. *)
FinishGetIdRaises(w) ==
    /\ wpc[w] = "get_id"
    /\ get_id_raises(First(w))
    /\ Drop(w)
    /\ wpc' = [wpc EXCEPT ![w] = "idle"]
    /\ UNCHANGED <<queueVars, apiVars, faults, fetchedIn, clientVars>>

FinishUpdate(w, outcome) ==
    /\ wpc[w] = "update"
    /\ update(First(w),
              IF outcome = "response" THEN work[w][First(w)] ELSE None,
              outcome = "error")
    /\ wpc' = [wpc EXCEPT ![w] = "ack"]
    /\ UNCHANGED <<apiVars, faults, work, fetchedIn, clientVars>>

(* record_completed_request counts first; current_time - self.epoch_time   *)
(* is then a TypeError when no epoch was set.                              *)
record_completed_request ==
    /\ completed' = completed + 1
    /\ depth' = depth - 1
    /\ UNCHANGED epochSet

record_completed_raises == ~epochSet

MutantReturnsAfterFirst(w) ==
    /\ wpc[w] = "ack"
    /\ ack(First(w))
    /\ record_completed_request
    /\ Drop(w)
    /\ wpc' = [wpc EXCEPT ![w] = "idle"]
    /\ UNCHANGED <<apiUp, gen, orphans, faults, fetchedIn, clientVars>>

(* ack and metrics: on to the next result, back to get_work after the      *)
(* last, or out of the handler with a 500 and the rest of the results.     *)
FinishAck(w) ==
    LET rest == [work[w] EXCEPT ![First(w)] = None]
        over == record_completed_raises \/ rest = NoWork
    IN
    /\ wpc[w] = "ack"
    /\ ack(First(w))
    /\ record_completed_request
    /\ work' = [work EXCEPT ![w] = IF over THEN NoWork ELSE rest]
    /\ wpc' = [wpc EXCEPT ![w] = IF over THEN "idle" ELSE "get_id"]
    /\ UNCHANGED <<apiUp, gen, orphans, faults, fetchedIn, clientVars>>

-----------------------------------------------------------------------------
(* The periodic task, and what fails.                                      *)

ClearAcked ==
    /\ LoopFree
    /\ Clearable # {}
    /\ clear_acked_data
    /\ UNCHANGED <<apiVars, workerVars, clientVars>>

(* An exception of gather or of a task of it: the batch is forgotten. *)
StepRaises(w) ==
    /\ faults < MaxFaults
    /\ wpc[w] = "generating"
    /\ Drop(w)
    /\ wpc' = [wpc EXCEPT ![w] = "idle"]
    /\ faults' = faults + 1
    /\ UNCHANGED <<queueVars, apiVars, fetchedIn, clientVars>>

(* AsyncEngineDeadError: kill_vllm_container, then a new container.  In a  *)
(* container of its own the API goes on, and a waiting get_work handler    *)
(* with it.                                                                *)
KillWorker(w) ==
    /\ ~Colocated
    /\ faults < MaxFaults
    /\ wpc[w] \in {"asking", "generating"}
    /\ orphans' = IF wpc[w] = "asking" THEN orphans + 1 ELSE orphans
    /\ Drop(w)
    /\ wpc' = [wpc EXCEPT ![w] = "idle"]
    /\ faults' = faults + 1
    /\ UNCHANGED <<queueVars, apiUp, gen, depth, completed, epochSet,
                   fetchedIn, clientVars>>

(* The API process dies: the queue object, the metrics and the handlers    *)
(* are gone.  Calls that were in the API fail; a worker whose POST was in  *)
(* the API forgets its batch; one that was generating goes on, unless it   *)
(* shares the container.                                                   *)
Survives(w) == ~Colocated /\ wpc[w] = "generating"

ApiCrash ==
    /\ apiUp
    /\ gen < MaxCrashes
    /\ apiUp' = FALSE
    /\ gen' = gen + 1
    /\ opened' = FALSE
    /\ depth' = 0
    /\ completed' = 0
    /\ epochSet' = FALSE
    /\ orphans' = 0
    /\ wpc' = [w \in Workers |-> IF Survives(w) THEN wpc[w] ELSE "idle"]
    /\ work' = [w \in Workers |-> IF Survives(w) THEN work[w] ELSE NoWork]
    /\ cpc' = [c \in Clients |-> IF cpc[c] \in {"putting", "polling"}
                                 THEN "failed" ELSE cpc[c]]
    /\ polled' = [c \in Clients |-> FALSE]
    /\ got' = [c \in Clients |-> {}]
    /\ UNCHANGED <<status, prompt, response, error, lastId,
                   faults, fetchedIn, ids, reply>>

ApiRestart ==
    /\ ~apiUp
    /\ apiUp' = TRUE
    /\ UNCHANGED <<queueVars, gen, depth, completed, epochSet, orphans,
                   workerVars, clientVars>>

ClientNext(c) ==
    \/ Submit(c) \/ SubmitFails(c) \/ PutPrompt(c)
    \/ PollPass(c) \/ PollReply(c) \/ CheckReply(c)
    \/ Repost(c) \/ RepostFails(c)

WorkerNext(w) ==
    \/ AskForWork(w) \/ NoWorkToDo(w)
    \/ \E n \in 1 .. BatchSize : GetWork(w, n)
    \/ PostResults(w) \/ PostFails(w)
    \/ FinishGetId(w) \/ FinishGetIdRaises(w)
    \/ \E outcome \in Outcomes : FinishUpdate(w, outcome)
    \/ FinishAck(w)

FaultNext ==
    \/ \E w \in Workers : StepRaises(w) \/ KillWorker(w)
    \/ ApiCrash

Next ==
    \/ \E c \in Clients : ClientNext(c)
    \/ \E w \in Workers : WorkerNext(w)
    \/ \E n \in 1 .. BatchSize : OrphanGetWork(n)
    \/ ClearAcked
    \/ ApiRestart
    \/ FaultNext

Spec == Init /\ [][Next]_vars

(* The fairness of a process that is not stopped.  asyncio resumes every   *)
(* handler that can run, so each handler step is fair on its own; a worker *)
(* loops for ever in get_work and its engine answers; the SDK's loop runs; *)
(* a dead container is restarted.  Faults, lookups that fail and the       *)
(* clearing of acked rows need not happen.                                 *)
Fairness ==
    /\ \A c \in Clients :
          /\ WF_vars(PutPrompt(c))
          /\ WF_vars(PollPass(c))
          /\ WF_vars(PollReply(c))
          /\ WF_vars(CheckReply(c))
          /\ WF_vars(Repost(c))
          /\ WF_vars(RepostFails(c))
    /\ \A w \in Workers : WF_vars(WorkerNext(w))
    /\ WF_vars(ApiRestart)

FairSpec == Spec /\ Fairness

-----------------------------------------------------------------------------
(* Properties.                                                             *)

(* While one API process lives, no request is handed to two workers, and   *)
(* one that a worker got from this process is not offered again: get marks *)
(* the rows, and resume_unack_tasks runs only when the queue is opened.    *)
HandedOutOnce ==
    \A v \in Workers : fetchedIn[v] = gen =>
        /\ \A i \in Batch(v) : get_inference_work_queue[i] # "ready"
        /\ \A w \in Workers \ {v} :
              fetchedIn[w] = gen => Batch(v) \cap Batch(w) = {}

(* finish_work stores an answer before it acks, under the id of the prompt *)
(* that the worker computed it from: a row that poll_for_responses can     *)
(* return or clear_acked_data can delete has an answer, and a response is  *)
(* always the one to the row's own prompt, however often the row was       *)
(* handed out, and whoever died in between.                                *)
AckedRowsAreAnswered ==
    \A i \in Ids :
        /\ status[i] \in {"acked", "deleted"} => Answered(i)
        /\ response[i] \in {None, prompt[i]}

(* The k-th result of every reply is about the k-th prompt of the SDK call *)
(* (ids are allocated in prompt order and poll_for_responses sorts by id), *)
(* and the SDK returns only when it has the response to each prompt.       *)
RepliesAreAligned ==
    \A c \in Clients :
        /\ cpc[c] \in {"replied", "repost", "done"} =>
              /\ Len(reply[c]) = Len(PromptsOf[c])
              /\ \A k \in 1 .. Len(reply[c]) :
                    reply[c][k].response \in {None, PromptsOf[c][k]}
        /\ cpc[c] = "done" =>
              \A k \in 1 .. Len(reply[c]) : /\ reply[c][k].response # None
                                            /\ ~reply[c][k].error

(* The periodic clearing never takes an answer that is among the latest    *)
(* KeepLatest: a deleted row has that many answered rows after it.         *)
DeletedRowsAreOld ==
    \A i \in Ids : status[i] = "deleted" =>
        Cardinality({j \in Ids : j > i /\ Answered(j)}) >= KeepLatest

(* embed counts no request, and the metrics do not survive the process. *)
GenerateOnly == \A c \in Clients : KindOf[c] = "generate"

Waiting == {i \in Ids : status[i] \in {"ready", "unack"}}

(* In the first API process, and with generate calls only, queue_depth is  *)
(* the number of requests that wait for an answer, and finish_work finds   *)
(* an epoch to subtract.                                                   *)
MetricsCountBacklog ==
    (gen = 0 /\ GenerateOnly) =>
        /\ depth = Cardinality(Waiting)
        /\ \A w \in Workers : wpc[w] = "ack" => ~record_completed_raises

(* "set the response to None for any requests that did not finish"         *)
(* (poll_for_responses): a request that was reported without a response is *)
(* waiting in the queue, with a worker, or answered since.  After a mishap *)
(* it may be a row that was handed out and that nobody works on, and so it *)
(* may when finish_work has raised for want of an epoch.                   *)
NoneMeansUnfinished ==
    \A c \in Clients :
        (gen = 0 /\ faults = 0 /\ GenerateOnly
            /\ cpc[c] \in {"replied", "repost"}) =>
        \A k \in 1 .. Len(reply[c]) :
            LET i == reply[c][k].id IN
            (reply[c][k].response = None /\ ~reply[c][k].error) =>
                \/ status[i] = "ready"
                \/ \E w \in Workers : i \in Batch(w)
                \/ Answered(i)

(* What the service tells of its backlog is true: the metrics count it, and *)
(* who gets no response has a request that is still to be answered.        *)
BacklogIsTold == MetricsCountBacklog /\ NoneMeansUnfinished

(* Every SDK call that was accepted returns or raises. *)
EveryCallReturns ==
    \A c \in Clients : (cpc[c] = "putting") ~> (cpc[c] \in {"done", "failed"})

(* Every request that is in the file is answered in the end, also when the *)
(* process died while it was with a worker or half way through finish_work.*)
EveryRequestIsAnswered ==
    \A i \in Ids : (status[i] # "absent") ~> (status[i] = "acked")

(* The service keeps the promises of the request ledger: crashes, second   *)
(* deliveries and late finish_work calls are invisible steps of it.        *)
Ledger == INSTANCE RequestLedger WITH
    entry <- prompt, answer <- response, failed <- error,
    forgotten <- {i \in Ids : status[i] = "deleted"}

ImplementsLedger == Ledger!Spec

-----------------------------------------------------------------------------
(* The inductive invariant behind the safety properties.                   *)

(* Ids are allocated in order, and a row has a prompt from the start. *)
RowsInv ==
    /\ \A i \in Ids : status[i] # "absent" <=> i <= lastId
    /\ \A i \in Ids : prompt[i] # None <=> i <= lastId

(* The event loop: at most one handler is between two writes, and whoever  *)
(* is in a handler has opened the queue of a process that is up.           *)
LoopInv ==
    /\ \A w \in Workers :
          wpc[w] \in {"asking"} \cup Finishing => apiUp /\ opened
    /\ \A c \in Clients : cpc[c] = "putting" => apiUp /\ opened
    /\ \A v, w \in Workers : wpc[v] \in Finishing /\ wpc[w] \in Finishing => v = w
    /\ \A c, d \in Clients : cpc[c] = "putting" /\ cpc[d] = "putting" => c = d
    /\ \A w \in Workers, c \in Clients :
          ~(wpc[w] \in Finishing /\ cpc[c] = "putting")

(* A worker holds rows as they are in the table, from a process that is    *)
(* not younger than the current one; the row that finish_work is writing   *)
(* is unack, and answered when it is about to be acked.                    *)
WorkInv ==
    /\ \A w \in Workers : Batch(w) # {} <=> wpc[w] \in Holding
    /\ \A w \in Workers, i \in Ids : work[w][i] \in {None, prompt[i]}
    /\ \A w \in Workers : fetchedIn[w] <= gen
    /\ \A w \in Workers : wpc[w] \in Holding /\ fetchedIn[w] = gen => opened
    /\ \A w \in Workers :
          wpc[w] \in {"update", "ack"} => status[First(w)] = "unack"
    /\ \A w \in Workers : wpc[w] = "ack" => Answered(First(w))

(* The put loop is inside its list of prompts. *)
PutInv ==
    /\ DOMAIN ids = Clients
    /\ \A c \in Clients : cpc[c] \in {"new", "putting"} =>
          ids[c] \in Seq(Ids) /\ Len(ids[c]) < Len(PromptsOf[c])

(* The request ids of a call are rows with its prompts, in ascending order, *)
(* and the API keeps at most one result of each; a reply lists the request *)
(* ids in their order.                                                     *)
OwnResult(r) == r.id \in Ids /\ r.response \in {None, prompt[r.id]}

CallInv(c) ==
    /\ ids[c] \in Seq(Ids)
    /\ Len(ids[c]) <= Len(PromptsOf[c])
    /\ \A k \in 1 .. Len(ids[c]) :
          /\ ids[c][k] <= lastId
          /\ prompt[ids[c][k]] = PromptsOf[c][k]
    /\ \A j, k \in 1 .. Len(ids[c]) : j < k => ids[c][j] < ids[c][k]
    /\ cpc[c] \in {"polling", "replied", "repost", "done"} =>
          Len(ids[c]) = Len(PromptsOf[c])

GotInv(c) ==
    /\ got[c] \subseteq Results
    /\ \A r \in got[c] : r.id \in Requested(c) /\ OwnResult(r)
    /\ \A r, s \in got[c] : r.id = s.id => r = s

ReplyInv(c) ==
    /\ reply[c] \in Seq(Results)
    /\ cpc[c] \in {"replied", "repost", "done"} =>
          /\ Len(reply[c]) = Len(ids[c])
          /\ \A k \in 1 .. Len(reply[c]) :
                reply[c][k].id = ids[c][k] /\ OwnResult(reply[c][k])
    /\ cpc[c] = "done" =>
          \A k \in 1 .. Len(reply[c]) : /\ reply[c][k].response # None
                                        /\ ~reply[c][k].error

MessageInv ==
    /\ TypeOK
    /\ \A c \in Clients : CallInv(c) /\ GotInv(c) /\ ReplyInv(c)

(* Until the API process dies, a row that a worker holds waits for that    *)
(* worker alone; until anything fails, every row that was handed out is    *)
(* with a worker.                                                          *)
BacklogInv ==
    /\ gen = 0 =>
          /\ apiUp
          /\ \A w \in Workers : \A i \in Batch(w) : status[i] = "unack"
    /\ (gen = 0 /\ GenerateOnly) =>
          /\ depth = Cardinality(Waiting)
          /\ lastId > 0 => epochSet
    /\ faults = 0 => orphans = 0
    /\ (gen = 0 /\ faults = 0 /\ GenerateOnly) =>
          \A i \in Ids : status[i] = "unack" => \E w \in Workers : i \in Batch(w)

IInv ==
    /\ ProcessTypeOK
    /\ RowsInv
    /\ LoopInv
    /\ WorkInv
    /\ PutInv
    /\ HandedOutOnce
    /\ AckedRowsAreAnswered
    /\ DeletedRowsAreOld

=============================================================================
