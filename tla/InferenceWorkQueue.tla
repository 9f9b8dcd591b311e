------------------------- MODULE InferenceWorkQueue -------------------------
(***************************************************************************)
(* The persistent inference work queue: InferenceWorkQueue around          *)
(* persistqueue.SQLiteAckQueue.  One SQLite row per request; the row       *)
(* outlives the API process, the InferenceWorkQueue object does not.       *)
(*                                                                         *)
(* The module has the table and what every queue operation does to it.     *)
(* The handlers that call the operations are in module Inference.  A       *)
(* handler never suspends between two queue calls (the asyncio locks are   *)
(* never contended, no call awaits inside them), so what can come between  *)
(* two operations of a handler is only the death of the process.           *)
(***************************************************************************)
EXTENDS Integers, FiniteSets

CONSTANTS
    Prompts,        \* the prompts that clients submit
    None,           \* a field that is not set (Python's None)
    MaxId,          \* bound: the largest row id that is allocated
    KeepLatest,     \* clear_acked_data keeps this many acked rows (1000)
    MaxDelete       \* ... and deletes at most this many per call (1000)

ASSUME QueueAssumption ==
    /\ None \notin Prompts
    /\ MaxId \in Nat
    /\ KeepLatest \in Nat
    /\ MaxDelete \in Nat

VARIABLES
    status,         \* the row's AckStatus, or whether the row exists at all
    prompt,         \* row["prompt"]
    response,       \* row["response"]: the prompt that it answers
    error,          \* is row["error"] set
    lastId,         \* AUTOINCREMENT: the last id that was allocated
    opened          \* inference_work_queue is not None in this API process

queueVars == <<status, prompt, response, error, lastId, opened>>

Ids == 1 .. MaxId

AckStatus == {"absent", "ready", "unack", "acked", "deleted"}

QueueTypeOK ==
    /\ status \in [Ids -> AckStatus]
    /\ prompt \in [Ids -> Prompts \cup {None}]
    /\ response \in [Ids -> Prompts \cup {None}]
    /\ error \in [Ids -> BOOLEAN]
    /\ lastId \in 0 .. MaxId
    /\ opened \in BOOLEAN

QueueInit ==
    /\ status = [i \in Ids |-> "absent"]
    /\ prompt = [i \in Ids |-> None]
    /\ response = [i \in Ids |-> None]
    /\ error = [i \in Ids |-> FALSE]
    /\ lastId = 0
    /\ opened = FALSE

Answered(i) == response[i] # None \/ error[i]

-----------------------------------------------------------------------------
(* resume_unack_tasks: every row handed out and not acked is ready again. *)
resume_unack_tasks(st) ==
    [i \in Ids |-> IF st[i] = "unack" THEN "ready" ELSE st[i]]

MutantResumesOnEveryCall == resume_unack_tasks(status)

MutantNoAutoResume == status

(* The table as a handler finds it: the first handler of an API process    *)
(* creates the queue object with auto_resume, later ones reuse it.         *)
get_inference_work_queue ==
    IF opened THEN status ELSE resume_unack_tasks(status)

(* The handler does nothing else with the table. *)
OpenQueue ==
    /\ opened' = TRUE
    /\ status' = get_inference_work_queue

ReadyRows(st) == {i \in Ids : st[i] = "ready"}

(* put: a fresh row with the next id. *)
put(p) ==
    /\ lastId < MaxId
    /\ lastId' = lastId + 1
    /\ status' = [status EXCEPT ![lastId + 1] = "ready"]
    /\ prompt' = [prompt EXCEPT ![lastId + 1] = p]
    /\ UNCHANGED <<response, error, opened>>

(* get, followed by n - 1 times get_nowait: the n ready rows with the      *)
(* lowest ids, all of them when there are fewer.                           *)
FirstReady(n) ==
    {i \in ReadyRows(status) :
        Cardinality({j \in ReadyRows(status) : j < i}) < n}

get(rows) ==
    /\ status' = [i \in Ids |-> IF i \in rows THEN "unack" ELSE status[i]]
    /\ UNCHANGED <<prompt, response, error, lastId, opened>>

(* get_id: the row whatever its status, which becomes unack: also a row    *)
(* that somebody else has already acked.  A row that was deleted is Empty. *)
get_id_raises(i) == status[i] \in {"absent", "deleted"}

MutantRevivesDeletedRow(i) ==
    /\ status' = [status EXCEPT ![i] = "unack"]
    /\ UNCHANGED <<prompt, response, error, lastId, opened>>

get_id(i) ==
    /\ ~get_id_raises(i)
    /\ status' = [status EXCEPT ![i] = "unack"]
    /\ UNCHANGED <<prompt, response, error, lastId, opened>>

(* update: result["response"] or result["error"] is set, the other field   *)
(* keeps what an earlier worker may have stored there.                     *)
update(i, resp, err) ==
    /\ response' = IF resp # None THEN [response EXCEPT ![i] = resp]
                                  ELSE response
    /\ error' = [error EXCEPT ![i] = @ \/ err]
    /\ UNCHANGED <<status, prompt, lastId, opened>>

MutantNack(i) ==
    /\ status' = [status EXCEPT ![i] = "ack_failed"]
    /\ UNCHANGED <<prompt, response, error, lastId, opened>>

ack(i) ==
    /\ status' = [status EXCEPT ![i] = "acked"]
    /\ UNCHANGED <<prompt, response, error, lastId, opened>>

(* get_if_finished: is there something for poll_for_responses to return.   *)
get_if_finished(i) == status[i] = "acked"

(* clear_acked_data: of the acked rows by descending id, skip KeepLatest   *)
(* and delete the next MaxDelete.  The caller opens the file a second time *)
(* without auto_resume, so no row becomes ready.                           *)
AckedAfter(i) == {j \in Ids : status[j] = "acked" /\ j > i}

Clearable ==
    {i \in Ids : /\ status[i] = "acked"
                 /\ Cardinality(AckedAfter(i)) >= KeepLatest
                 /\ Cardinality(AckedAfter(i)) < KeepLatest + MaxDelete}

MutantKeepsNothing ==
    /\ status' = [i \in Ids |-> IF status[i] = "acked" THEN "deleted"
                                                        ELSE status[i]]
    /\ UNCHANGED <<prompt, response, error, lastId, opened>>

clear_acked_data ==
    /\ status' = [i \in Ids |-> IF i \in Clearable THEN "deleted"
                                                   ELSE status[i]]
    /\ UNCHANGED <<prompt, response, error, lastId, opened>>

=============================================================================
