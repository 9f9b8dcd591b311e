-------------------------- MODULE InferenceProofs --------------------------
(***************************************************************************)
(* Proofs about module Inference, for any number of workers, SDK calls,    *)
(* requests, crashes and faults.                                           *)
(***************************************************************************)
EXTENDS Inference, TLAPS, FiniteSetTheorems, WellFoundedInduction

USE QueueAssumption, InferenceAssumption

-----------------------------------------------------------------------------
(* Facts about the operators.                                              *)

(* A nonempty set of natural numbers has a least element. *)
LEMMA LeastNat ==
    ASSUME NEW T \in SUBSET Nat, T # {}
    PROVE  \E x \in T : \A y \in T : x <= y
<1> DEFINE R == {ss \in Nat \X Nat : ss[1] < ss[2]}
<1>1. IsWellFoundedOn(R, Nat)
  BY NatLessThanWellFounded, Zenon DEF OpToRel
<1> HIDE DEF R
<1>2. PICK x \in T : \A y \in T : ~(<<y, x>> \in R)
  BY <1>1, WFMin, Zenon
<1>3. \A y \in T : x <= y
  <2> SUFFICES ASSUME NEW y \in T, ~(x <= y) PROVE FALSE
    OBVIOUS
  <2>1. y < x /\ x \in Nat /\ y \in Nat
    OBVIOUS
  <2>2. <<y, x>> \in Nat \X Nat /\ <<y, x>>[1] < <<y, x>>[2]
    BY <2>1
  <2>3. <<y, x>> \in R
    BY <2>2, Zenon DEF R
  <2> QED BY <1>2, <2>3
<1> QED BY <1>3

(* finish_work writes a row of the worker's batch. *)
LEMMA FirstInBatch ==
    ASSUME NEW w \in Workers, Batch(w) # {}
    PROVE  First(w) \in Batch(w) /\ First(w) \in Ids /\ work[w][First(w)] # None
<1>1. Batch(w) \in SUBSET Nat
  BY DEF Batch, Ids
<1>2. \E x \in Batch(w) : \A y \in Batch(w) : x <= y
  BY <1>1, LeastNat
<1>3. First(w) \in Batch(w)
  BY <1>2 DEF First
<1> QED BY <1>3 DEF Batch

(* Opening the queue leaves a row's existence, acks and deletions alone. *)
LEMMA Opening ==
    ASSUME QueueTypeOK, OpenQueue
    PROVE  /\ status' \in [Ids -> AckStatus]
           /\ \A i \in Ids : /\ status'[i] # status[i] =>
                                   ~opened /\ status[i] = "unack" /\ status'[i] =
                                   "ready"
           /\ opened' = TRUE
BY DEF QueueTypeOK, OpenQueue, get_inference_work_queue, resume_unack_tasks,
       AckStatus

(* Both handlers put a row the same way. *)
LEMMA Putting ==
    ASSUME NEW c \in Clients, PutPrompt(c)
    PROVE  PutRow(c)
BY DEF PutPrompt, PutGenerate, PutEmbed

-----------------------------------------------------------------------------
(* Types.                                                                  *)

(* Every step keeps the types of the table, the metrics and the processes. *)
LEMMA TypeStep ==
    ASSUME IInv, [Next]_vars
    PROVE  ProcessTypeOK'
<1> USE DEF IInv, ProcessTypeOK, apiVars, workerVars, clientVars, queueVars,
        Finishing, Holding
<1>1. CASE UNCHANGED vars
  BY <1>1 DEF vars, QueueTypeOK
<1>2. ASSUME NEW c \in Clients, ClientNext(c) PROVE ProcessTypeOK'
  <2>1. CASE Submit(c)
    BY <2>1, Opening DEF Submit, Generate, Embed, Enter, QueueTypeOK
  <2>2. CASE SubmitFails(c)
    BY <2>2 DEF SubmitFails, QueueTypeOK
  <2>3. CASE PutPrompt(c)
    <3>1. PromptsOf[c][Len(ids[c]) + 1] \in Prompts
      BY <2>3, Putting DEF PutRow, PutInv
    <3>0. PutRow(c)
      BY <2>3, Putting
    <3>2. QueueTypeOK'
      BY <3>0, <3>1 DEF PutRow, put, QueueTypeOK, AckStatus, Ids
    <3>3. depth' \in Int /\ completed' \in Nat
      BY <2>3 DEF PutPrompt, PutGenerate, PutEmbed, PutRow, record_new_request
    <3>4. epochSet' \in BOOLEAN
      BY <2>3, Zenon
        DEF PutPrompt, PutGenerate, PutEmbed, PutRow, record_new_request
    <3> QED BY <2>3, <3>2, <3>3, <3>4, Putting DEF PutRow
  <2>4. CASE PollPass(c)
    BY <2>4 DEF PollPass, QueueTypeOK
  <2>5. CASE PollReply(c)
    BY <2>5 DEF PollReply, QueueTypeOK
  <2>6. CASE CheckReply(c)
    <3>1. is_finished(c) \in {"done", "failed", "repost"}
      BY DEF is_finished
    <3> QED BY <2>6, <3>1 DEF CheckReply, QueueTypeOK
  <2>7. CASE Repost(c)
    BY <2>7, Opening DEF Repost, QueueTypeOK
  <2>8. CASE RepostFails(c)
    BY <2>8 DEF RepostFails, QueueTypeOK
  <2> QED BY <1>2, <2>1, <2>2, <2>3, <2>4, <2>5, <2>6, <2>7, <2>8 DEF ClientNext
<1>3. ASSUME NEW w \in Workers, WorkerNext(w) PROVE ProcessTypeOK'
  <2>1. CASE AskForWork(w)
    BY <2>1, Opening DEF AskForWork, QueueTypeOK
  <2>2. CASE NoWorkToDo(w)
    BY <2>2 DEF NoWorkToDo, QueueTypeOK
  <2>3. ASSUME NEW n \in 1 .. BatchSize, GetWork(w, n) PROVE ProcessTypeOK'
    BY <2>3 DEF GetWork, get, QueueTypeOK, AckStatus
  <2>4. CASE PostResults(w)
    BY <2>4, Opening DEF PostResults, QueueTypeOK
  <2>5. CASE PostFails(w)
    BY <2>5 DEF PostFails, Drop, NoWork, QueueTypeOK
  <2>6. CASE FinishGetId(w)
    BY <2>6 DEF FinishGetId, get_id, QueueTypeOK, AckStatus
  <2>7. CASE FinishGetIdRaises(w)
    BY <2>7 DEF FinishGetIdRaises, Drop, NoWork, QueueTypeOK
  <2>8. ASSUME NEW outcome \in Outcomes, FinishUpdate(w, outcome)
        PROVE  ProcessTypeOK'
    <3>1. First(w) \in Ids /\ work[w][First(w)] \in Prompts \cup {None}
      BY <2>8, FirstInBatch DEF FinishUpdate, WorkInv
    <3>2. error' \in [Ids -> BOOLEAN]
      BY <2>8, Zenon DEF FinishUpdate, update, QueueTypeOK
    <3>3. response' \in [Ids -> Prompts \cup {None}]
      BY <2>8, <3>1 DEF FinishUpdate, update, QueueTypeOK
    <3> QED BY <2>8, <3>2, <3>3 DEF FinishUpdate, update, QueueTypeOK
  <2>9. CASE FinishAck(w)
    <3>1. work' \in [Workers -> [Ids -> Prompts \cup {None}]]
      BY <2>9 DEF FinishAck, NoWork
    <3>2. wpc' \in [Workers -> {"idle", "asking"} \cup Holding]
      BY <2>9 DEF FinishAck
    <3>3. QueueTypeOK'
      BY <2>9 DEF FinishAck, ack, QueueTypeOK, AckStatus
    <3>4. depth' \in Int /\ completed' \in Nat /\ epochSet' = epochSet
      BY <2>9 DEF FinishAck, record_completed_request
    <3> QED BY <2>9, <3>1, <3>2, <3>3, <3>4 DEF FinishAck
  <2> QED BY <1>3, <2>1, <2>2, <2>3, <2>4, <2>5, <2>6, <2>7, <2>8, <2>9
       DEF WorkerNext
<1>4. ASSUME NEW n \in 1 .. BatchSize, OrphanGetWork(n) PROVE ProcessTypeOK'
  BY <1>4 DEF OrphanGetWork, get, QueueTypeOK, AckStatus
<1>5. CASE ClearAcked
  BY <1>5 DEF ClearAcked, clear_acked_data, QueueTypeOK, AckStatus
<1>6. CASE ApiRestart
  BY <1>6 DEF ApiRestart, QueueTypeOK
<1>7. ASSUME NEW w \in Workers, StepRaises(w) PROVE ProcessTypeOK'
  BY <1>7 DEF StepRaises, Drop, NoWork, QueueTypeOK
<1>8. ASSUME NEW w \in Workers, KillWorker(w) PROVE ProcessTypeOK'
  BY <1>8 DEF KillWorker, Drop, NoWork, QueueTypeOK
<1>9. CASE ApiCrash
  <2>1. work' \in [Workers -> [Ids -> Prompts \cup {None}]]
    BY <1>9 DEF ApiCrash, NoWork
  <2>2. wpc' \in [Workers -> {"idle", "asking"} \cup Holding]
    BY <1>9 DEF ApiCrash
  <2>3. /\ cpc' \in [Clients -> {"new", "putting", "polling", "replied",
                                "repost", "done", "failed"}]
        /\ polled' \in [Clients -> BOOLEAN]
    BY <1>9 DEF ApiCrash
  <2>4. gen' \in 0 .. MaxCrashes /\ depth' \in Int /\ completed' \in Nat
    BY <1>9 DEF ApiCrash
  <2>5. orphans' \in Nat /\ QueueTypeOK'
    BY <1>9 DEF ApiCrash, QueueTypeOK
  <2>6. apiUp' \in BOOLEAN /\ epochSet' \in BOOLEAN
    BY <1>9 DEF ApiCrash
  <2>7. faults' = faults /\ fetchedIn' = fetchedIn
    BY <1>9 DEF ApiCrash
  <2> QED BY <2>1, <2>2, <2>3, <2>4, <2>5, <2>6, <2>7
<1> QED BY <1>1, <1>2, <1>3, <1>4, <1>5, <1>6, <1>7, <1>8, <1>9 DEF Next, FaultNext

-----------------------------------------------------------------------------
(* The table and the event loop.                                           *)

(* Rows stay allocated in order, each with its prompt. *)
LEMMA RowsStep ==
    ASSUME IInv, [Next]_vars
    PROVE  RowsInv'
<1> USE DEF IInv, ProcessTypeOK, QueueTypeOK, RowsInv, apiVars, workerVars,
        clientVars, queueVars
<1>1. CASE UNCHANGED <<status, prompt, lastId>>
  BY <1>1
<1>2. CASE OpenQueue /\ UNCHANGED <<prompt, lastId>>
  BY <1>2, Opening
<1>3. ASSUME NEW c \in Clients, PutPrompt(c) PROVE RowsInv'
  <2>1. PromptsOf[c][Len(ids[c]) + 1] \in Prompts
    BY <1>3, Putting DEF PutRow, PutInv
  <2> QED BY <1>3, <2>1, Putting DEF PutRow, put, Ids
<1>4. ASSUME NEW n \in 1 .. BatchSize, get(FirstReady(n)) PROVE RowsInv'
  BY <1>4 DEF get, FirstReady, ReadyRows
<1>5. ASSUME NEW w \in Workers, FinishGetId(w) PROVE RowsInv'
  BY <1>5 DEF FinishGetId, get_id, get_id_raises
<1>6. ASSUME NEW w \in Workers, FinishAck(w) PROVE RowsInv'
  BY <1>6 DEF FinishAck, ack, WorkInv
<1>7. CASE ClearAcked
  BY <1>7 DEF ClearAcked, clear_acked_data, Clearable
<1> QED
  BY <1>1, <1>2, <1>3, <1>4, <1>5, <1>6, <1>7
  DEF Next, ClientNext, WorkerNext, FaultNext, vars, Submit, Generate, Embed,
      Enter, SubmitFails,
      PollPass, PollReply, CheckReply, Repost, RepostFails, AskForWork,
      NoWorkToDo, GetWork, PostResults, PostFails, FinishGetIdRaises,
      FinishUpdate, update, OrphanGetWork, ApiRestart, StepRaises, KillWorker,
      ApiCrash

(* At most one handler is between two writes. *)
LEMMA LoopStep ==
    ASSUME IInv, [Next]_vars
    PROVE  LoopInv'
<1> USE DEF IInv, ProcessTypeOK, QueueTypeOK, LoopInv, Finishing, Holding,
        apiVars, workerVars, clientVars, queueVars
<1>1. CASE UNCHANGED <<apiUp, opened, wpc, cpc>>
  BY <1>1
<1>2. ASSUME NEW c \in Clients, ClientNext(c) PROVE LoopInv'
  <2>1. CASE Submit(c)
    BY <2>1 DEF Submit, Generate, Embed, Enter, OpenQueue, LoopFree
  <2>2. CASE PutPrompt(c)
    <3>1. PutRow(c)
      BY <2>2, Putting
    <3> QED BY <3>1 DEF PutRow, put
  <2>3. CASE Repost(c)
    BY <2>3 DEF Repost, OpenQueue, LoopFree
  <2>4. CASE CheckReply(c)
    <3>1. is_finished(c) # "putting"
      BY DEF is_finished
    <3> QED BY <2>4, <3>1 DEF CheckReply
  <2>5. CASE SubmitFails(c) \/ PollPass(c) \/ PollReply(c) \/ RepostFails(c)
    <3>1. /\ UNCHANGED <<apiUp, opened, wpc>>
          /\ \/ cpc' = cpc
             \/ \E pc \in {"failed", "replied"} : cpc' = [cpc EXCEPT ![c] = pc]
      BY <2>5 DEF SubmitFails, PollPass, PollReply, RepostFails
    <3> QED BY ZenonT(40), <3>1
  <2> QED BY <1>2, <2>1, <2>2, <2>3, <2>4, <2>5 DEF ClientNext
<1>3. ASSUME NEW w \in Workers, WorkerNext(w) PROVE LoopInv'
  <2>1. CASE AskForWork(w) \/ PostResults(w)
    BY <2>1 DEF AskForWork, PostResults, OpenQueue, LoopFree
  <2>2. CASE NoWorkToDo(w) \/ PostFails(w) \/ FinishGetIdRaises(w)
    <3>1. UNCHANGED <<apiUp, opened, cpc>> /\ wpc' = [wpc EXCEPT ![w] = "idle"]
      BY <2>2 DEF NoWorkToDo, PostFails, FinishGetIdRaises
    <3> QED BY <3>1
  <2>3. ASSUME NEW n \in 1 .. BatchSize, GetWork(w, n) PROVE LoopInv'
    <3>1. /\ UNCHANGED <<apiUp, opened, cpc>>
          /\ wpc' = [wpc EXCEPT ![w] = "generating"]
      BY <2>3 DEF GetWork, get
    <3> QED BY <3>1
  <2>4. CASE FinishGetId(w)
    BY <2>4 DEF FinishGetId, get_id
  <2>5. ASSUME NEW outcome \in Outcomes, FinishUpdate(w, outcome) PROVE LoopInv'
    BY <2>5 DEF FinishUpdate, update
  <2>6. CASE FinishAck(w)
    <3>1. /\ UNCHANGED <<apiUp, opened, cpc>>
          /\ wpc[w] = "ack"
          /\ \E pc \in {"idle", "get_id"} : wpc' = [wpc EXCEPT ![w] = pc]
      BY <2>6 DEF FinishAck, ack
    <3> QED BY <3>1
  <2> QED BY <1>3, <2>1, <2>2, <2>3, <2>4, <2>5, <2>6 DEF WorkerNext
<1>4. ASSUME NEW w \in Workers, StepRaises(w) \/ KillWorker(w) PROVE LoopInv'
  <2>1. UNCHANGED <<apiUp, opened, cpc>> /\ wpc' = [wpc EXCEPT ![w] = "idle"]
    BY <1>4 DEF StepRaises, KillWorker
  <2> QED BY <2>1
<1>5. CASE ApiRestart
  BY <1>5 DEF ApiRestart
<1>6. CASE ApiCrash
  <2>1. \A w \in Workers : wpc'[w] \in {"idle", "generating"}
    BY <1>6 DEF ApiCrash, Survives
  <2>2. \A c \in Clients : cpc'[c] # "putting"
    BY <1>6 DEF ApiCrash
  <2> QED BY <2>1, <2>2
<1> QED
  BY <1>1, <1>2, <1>3, <1>4, <1>5, <1>6
  DEF Next, FaultNext, vars, OrphanGetWork, get, ClearAcked, clear_acked_data

(* The put loop stays inside the list of prompts. *)
LEMMA PutStep ==
    ASSUME IInv, [Next]_vars
    PROVE  PutInv'
<1> USE DEF IInv, ProcessTypeOK, PutInv, apiVars, workerVars, clientVars
<1>1. CASE UNCHANGED <<cpc, ids>>
  BY <1>1
<1>2. ASSUME NEW c \in Clients, ClientNext(c) PROVE PutInv'
  <2>1. CASE Submit(c)
    BY <2>1 DEF Submit, Generate, Embed, Enter
  <2>2. CASE PutPrompt(c)
    <3>1. lastId + 1 \in Ids /\ ids[c] \in Seq(Ids) /\ PromptsOf[c] \in Seq(Prompts)
      BY <2>2, Putting DEF PutRow, put, QueueTypeOK, Ids
    <3>2. PutRow(c)
      BY <2>2, Putting
    <3> QED BY <3>1, <3>2 DEF PutRow
  <2>3. CASE Repost(c)
    BY <2>3 DEF Repost
  <2>4. CASE CheckReply(c)
    <3>1. is_finished(c) \notin {"new", "putting"}
      BY DEF is_finished
    <3> QED BY <2>4, <3>1 DEF CheckReply
  <2>5. CASE SubmitFails(c) \/ PollPass(c) \/ PollReply(c) \/ RepostFails(c)
    BY <2>5 DEF SubmitFails, PollPass, PollReply, RepostFails
  <2> QED BY <1>2, <2>1, <2>2, <2>3, <2>4, <2>5 DEF ClientNext
<1>3. CASE ApiCrash
  BY <1>3 DEF ApiCrash
<1> QED
  BY <1>1, <1>2, <1>3
  DEF Next, WorkerNext, FaultNext, vars, AskForWork, NoWorkToDo, GetWork,
      PostResults, PostFails, FinishGetId, FinishGetIdRaises, FinishUpdate,
      FinishAck, OrphanGetWork, ClearAcked, ApiRestart, StepRaises, KillWorker

-----------------------------------------------------------------------------
(* What the workers hold.                                                  *)

(* A step that leaves a worker's batch alone leaves its first row alone. *)
LEMMA SameFirst ==
    ASSUME NEW w \in Workers, work'[w] = work[w]
    PROVE  Batch(w)' = Batch(w) /\ First(w)' = First(w)
BY DEF Batch, First

(* A worker without work has an empty batch. *)
LEMMA EmptyBatch ==
    ASSUME NEW w \in Workers, work[w] = NoWork
    PROVE  Batch(w) = {}
BY DEF Batch, NoWork

(* The part of WorkInv about one worker. *)
Held(w) ==
    /\ Batch(w) # {} <=> wpc[w] \in Holding
    /\ \A i \in Ids : work[w][i] \in {None, prompt[i]}
    /\ fetchedIn[w] <= gen
    /\ wpc[w] \in Holding /\ fetchedIn[w] = gen => opened
    /\ wpc[w] \in {"update", "ack"} => status[First(w)] = "unack"
    /\ wpc[w] = "ack" => Answered(First(w))

LEMMA HeldIsWorkInv == WorkInv <=> \A w \in Workers : Held(w)
BY DEF WorkInv, Held

(* Steps that touch neither a worker's place and batch, nor the row that   *)
(* its finish_work handler is writing.                                     *)
LEMMA HeldFrame ==
    ASSUME IInv, NEW w \in Workers,
           wpc'[w] = wpc[w], work'[w] = work[w], fetchedIn'[w] = fetchedIn[w],
           gen' = gen, opened => opened',
           \A i \in Ids : prompt[i] # None => prompt'[i] = prompt[i],
           wpc[w] \in {"update", "ack"} =>
              /\ status'[First(w)] = status[First(w)]
              /\ response'[First(w)] = response[First(w)]
              /\ error'[First(w)] = error[First(w)]
    PROVE  Held(w)'
<1>1. Held(w)
  BY HeldIsWorkInv DEF IInv
<1>2. Batch(w)' = Batch(w) /\ First(w)' = First(w)
  BY SameFirst
<1>3. \A i \in Ids : work'[w][i] \in {None, prompt'[i]}
  BY <1>1 DEF Held
<1>4. wpc[w] = "ack" => Answered(First(w))'
  BY <1>1, <1>2 DEF Held, Answered
<1> QED BY <1>1, <1>2, <1>3, <1>4 DEF Held

(* What the workers hold stays in step with the table. *)
LEMMA WorkStep ==
    ASSUME IInv, [Next]_vars
    PROVE  WorkInv'
<1> SUFFICES \A w \in Workers : Held(w)'
  BY DEF WorkInv, Held
<1> USE DEF IInv, ProcessTypeOK, QueueTypeOK, Finishing, Holding,
        apiVars, workerVars, clientVars, queueVars
<1>0. \A w \in Workers : Held(w)
  BY HeldIsWorkInv
<1>1. CASE UNCHANGED <<queueVars, gen, wpc, work, fetchedIn>>
  BY <1>1, HeldFrame
<1>2. CASE /\ OpenQueue
           /\ UNCHANGED <<prompt, response, error, gen, wpc, work, fetchedIn>>
  <2>1. \A w \in Workers : wpc[w] \in {"update", "ack"} => status' = status
    BY <1>2 DEF OpenQueue, get_inference_work_queue, LoopInv
  <2> QED BY <1>2, <2>1, HeldFrame DEF OpenQueue
<1>3. ASSUME NEW c \in Clients, PutPrompt(c) PROVE \A w \in Workers : Held(w)'
  <2>1. prompt[lastId + 1] = None
    BY <1>3, Putting DEF PutRow, put, RowsInv, Ids
  <2>2. \A i \in Ids : prompt[i] # None => prompt'[i] = prompt[i]
    BY <1>3, <2>1, Putting DEF PutRow, put
  <2>3. \A w \in Workers : wpc[w] \notin {"update", "ack"}
    BY <1>3, Putting DEF PutRow, LoopInv
  <2>4. UNCHANGED <<gen, opened, wpc, work, fetchedIn>>
    BY <1>3, Putting DEF PutRow, put
  <2> QED BY <2>2, <2>3, <2>4, HeldFrame
<1>4. ASSUME NEW w \in Workers, WorkerNext(w) PROVE \A v \in Workers : Held(v)'
  <2> SUFFICES ASSUME NEW v \in Workers PROVE Held(v)'
    OBVIOUS
  <2>1. CASE AskForWork(w)
    <3>1. \A u \in Workers : wpc[u] \notin {"update", "ack"}
      BY <2>1 DEF AskForWork, LoopFree
    <3>2. v # w => Held(v)'
      BY <2>1, <3>1, HeldFrame DEF AskForWork, OpenQueue
    <3>3. Batch(w)' = Batch(w) /\ work'[w] = work[w] /\ wpc'[w] = "asking"
      BY <2>1, SameFirst DEF AskForWork
    <3>4. Held(w)'
      BY <1>0, <2>1, <3>3 DEF AskForWork, OpenQueue, Held
    <3> QED BY <3>2, <3>4
  <2>2. CASE PostResults(w)
    <3>1. \A u \in Workers : wpc[u] \notin {"update", "ack"}
      BY <2>2 DEF PostResults, LoopFree
    <3>2. v # w => Held(v)'
      BY <2>2, <3>1, HeldFrame DEF PostResults, OpenQueue
    <3>3. Held(w)'
      BY <1>0, <2>2, SameFirst DEF PostResults, OpenQueue, Held
    <3> QED BY <3>2, <3>3
  <2>3. CASE NoWorkToDo(w)
    <3>1. v # w => Held(v)'
      BY <2>3, HeldFrame DEF NoWorkToDo
    <3>2. Batch(w)' = Batch(w) /\ work'[w] = work[w] /\ wpc'[w] = "idle"
      BY <2>3, SameFirst DEF NoWorkToDo
    <3>3. Held(w)'
      BY <1>0, <2>3, <3>2 DEF NoWorkToDo, Held
    <3> QED BY <3>1, <3>3
  <2>4. ASSUME NEW n \in 1 .. BatchSize, GetWork(w, n) PROVE Held(v)'
    <3>1. \A u \in Workers : wpc[u] \notin {"update", "ack"}
      BY <2>4 DEF GetWork, LoopFree
    <3>2. v # w => Held(v)'
      BY <2>4, <3>1, HeldFrame DEF GetWork, get
    <3>3. opened
      BY <2>4 DEF GetWork, LoopInv
    <3>4. PICK i \in FirstReady(n) : TRUE
      BY <2>4 DEF GetWork
    <3>5. i \in Ids /\ prompt[i] # None
      BY <3>4 DEF FirstReady, ReadyRows, RowsInv
    <3>6. work'[w] = [j \in Ids |-> IF j \in FirstReady(n) THEN prompt[j] ELSE None]
      BY <2>4 DEF GetWork
    <3>7. i \in Batch(w)'
      BY <3>4, <3>5, <3>6 DEF Batch
    <3>8. \A j \in Ids : work'[w][j] \in {None, prompt'[j]}
      BY <2>4, <3>6 DEF GetWork, get
    <3>9. /\ wpc'[w] = "generating"
          /\ fetchedIn'[w] = gen /\ gen' = gen /\ opened' = opened
      BY <2>4 DEF GetWork, get
    <3>10. Held(w)'
      BY <3>3, <3>7, <3>8, <3>9 DEF Held
    <3> QED BY <3>2, <3>10
  <2>5. CASE PostFails(w) \/ FinishGetIdRaises(w)
    <3>1. /\ UNCHANGED <<queueVars, gen, fetchedIn>>
          /\ wpc' = [wpc EXCEPT ![w] = "idle"]
          /\ work' = [work EXCEPT ![w] = NoWork]
      BY <2>5 DEF PostFails, FinishGetIdRaises, Drop
    <3>2. v # w => Held(v)'
      BY <3>1, HeldFrame
    <3>3. work'[w] = NoWork
      BY <3>1
    <3>4. Batch(w)' = {} /\ \A i \in Ids : work'[w][i] = None
      BY <3>3 DEF Batch, NoWork
    <3>5. Held(w)'
      BY <1>0, <3>1, <3>4 DEF Held
    <3> QED BY <3>2, <3>5
  <2>6. CASE FinishGetId(w)
    <3>1. v # w => wpc[v] \notin {"update", "ack"}
      BY <2>6 DEF FinishGetId, LoopInv
    <3>2. v # w => Held(v)'
      BY <2>6, <3>1, HeldFrame DEF FinishGetId, get_id
    <3>3. First(w) \in Ids
      BY <1>0, <2>6, FirstInBatch DEF FinishGetId, Held
    <3>4. work'[w] = work[w]
      BY <2>6 DEF FinishGetId
    <3>5. Batch(w)' = Batch(w) /\ First(w)' = First(w)
      BY <3>4, SameFirst
    <3>6. Held(w)'
      BY <1>0, <2>6, <3>3, <3>5 DEF FinishGetId, get_id, Held
    <3> QED BY <3>2, <3>6
  <2>7. ASSUME NEW outcome \in Outcomes, FinishUpdate(w, outcome) PROVE Held(v)'
    <3>1. v # w => wpc[v] \notin {"update", "ack"}
      BY <2>7 DEF FinishUpdate, LoopInv
    <3>2. v # w => Held(v)'
      BY <2>7, <3>1, HeldFrame DEF FinishUpdate, update
    <3>3. First(w) \in Ids /\ work[w][First(w)] # None
      BY <1>0, <2>7, FirstInBatch DEF FinishUpdate, Held
    <3>4. work'[w] = work[w]
      BY <2>7 DEF FinishUpdate
    <3>5. Batch(w)' = Batch(w) /\ First(w)' = First(w)
      BY <3>4, SameFirst
    <3>6. response'[First(w)] # None \/ error'[First(w)]
      BY <2>7, <3>3 DEF FinishUpdate, update
    <3>7. Answered(First(w))'
      BY <3>5, <3>6 DEF Answered
    <3>8. Held(w)'
      BY <1>0, <2>7, <3>3, <3>5, <3>7 DEF FinishUpdate, update, Held
    <3> QED BY <3>2, <3>8
  <2>8. CASE FinishAck(w)
    <3>1. v # w => wpc[v] \notin {"update", "ack"}
      BY <2>8 DEF FinishAck, LoopInv
    <3>2. v # w => Held(v)'
      BY <2>8, <3>1, HeldFrame DEF FinishAck, ack
    <3> DEFINE rest == [work[w] EXCEPT ![First(w)] = None]
               over == record_completed_raises \/ rest = NoWork
    <3>3. /\ work'[w] = IF over THEN NoWork ELSE rest
          /\ wpc'[w] = IF over THEN "idle" ELSE "get_id"
          /\ UNCHANGED <<gen, fetchedIn, opened, prompt>>
      BY <2>8 DEF FinishAck, ack
    <3>4. CASE over
      <4>1. Batch(w)' = {} /\ \A i \in Ids : work'[w][i] = None
        BY <3>3, <3>4 DEF Batch, NoWork
      <4>2. Held(w)'
        BY <1>0, <3>3, <3>4, <4>1 DEF Held
      <4> QED BY <3>2, <4>2
    <3>5. CASE ~over
      <4>1. rest \in [Ids -> Prompts \cup {None}] /\ rest # NoWork
        BY <3>5
      <4>2. \E i \in Ids : rest[i] # None
        BY <4>1 DEF NoWork
      <4>3. Batch(w)' # {}
        BY <3>3, <3>5, <4>2 DEF Batch
      <4>4. \A i \in Ids : work'[w][i] \in {None, prompt'[i]}
        BY <1>0, <3>3, <3>5 DEF Held
      <4>5. wpc[w] = "ack" /\ wpc'[w] = "get_id"
        BY <2>8, <3>3, <3>5 DEF FinishAck
      <4> HIDE DEF rest, over
      <4>6. Held(w)'
        BY <1>0, <3>3, <4>3, <4>4, <4>5 DEF Held
      <4> QED BY <3>2, <4>6
    <3> QED BY <3>2, <3>4, <3>5
  <2> QED BY <1>4, <2>1, <2>2, <2>3, <2>4, <2>5, <2>6, <2>7, <2>8 DEF WorkerNext
<1>5. ASSUME NEW n \in 1 .. BatchSize, OrphanGetWork(n)
      PROVE  \A w \in Workers : Held(w)'
  <2>1. \A w \in Workers : wpc[w] \notin {"update", "ack"}
    BY <1>5 DEF OrphanGetWork, LoopFree
  <2> QED BY <1>5, <2>1, HeldFrame DEF OrphanGetWork, get
<1>6. CASE ClearAcked
  <2>1. \A w \in Workers : wpc[w] \notin {"update", "ack"}
    BY <1>6 DEF ClearAcked, LoopFree
  <2> QED BY <1>6, <2>1, HeldFrame DEF ClearAcked, clear_acked_data
<1>7. ASSUME NEW w \in Workers, StepRaises(w) \/ KillWorker(w)
      PROVE  \A v \in Workers : Held(v)'
  <2> SUFFICES ASSUME NEW v \in Workers PROVE Held(v)'
    OBVIOUS
  <2>1. /\ UNCHANGED <<queueVars, gen, fetchedIn>>
        /\ wpc' = [wpc EXCEPT ![w] = "idle"]
        /\ work' = [work EXCEPT ![w] = NoWork]
    BY <1>7 DEF StepRaises, KillWorker, Drop
  <2>2. v # w => Held(v)'
    BY <2>1, HeldFrame
  <2>3. Batch(w)' = {} /\ \A i \in Ids : work'[w][i] = None
    BY <2>1 DEF Batch, NoWork
  <2>4. Held(w)'
    BY <1>0, <2>1, <2>3 DEF Held
  <2> QED BY <2>2, <2>4
<1>8. CASE ApiCrash
  <2> SUFFICES ASSUME NEW w \in Workers PROVE Held(w)'
    OBVIOUS
  <2>1. gen' = gen + 1 /\ UNCHANGED <<prompt, status, response, error, fetchedIn>>
    BY <1>8 DEF ApiCrash
  <2>2. CASE Survives(w)
    <3>1. work'[w] = work[w] /\ wpc'[w] = wpc[w] /\ wpc[w] = "generating"
      BY <1>8, <2>2 DEF ApiCrash, Survives
    <3>2. Batch(w)' = Batch(w)
      BY <3>1, SameFirst
    <3> QED BY <1>0, <2>1, <3>1, <3>2 DEF Held
  <2>3. CASE ~Survives(w)
    <3>1. work'[w] = NoWork /\ wpc'[w] = "idle"
      BY <1>8, <2>3 DEF ApiCrash
    <3>2. Batch(w)' = {} /\ \A i \in Ids : work'[w][i] = None
      BY <3>1 DEF Batch, NoWork
    <3> QED BY <1>0, <2>1, <3>1, <3>2 DEF Held
  <2> QED BY <2>2, <2>3
<1> QED
  BY <1>1, <1>2, <1>3, <1>4, <1>5, <1>6, <1>7, <1>8
  DEF Next, ClientNext, FaultNext, vars, Submit, Generate, Embed, Enter,
      SubmitFails, PollPass,
      PollReply, CheckReply, Repost, RepostFails, ApiRestart

-----------------------------------------------------------------------------
(* The safety properties.                                                  *)

(* HandedOutOnce in terms of the status as it stands: whoever holds rows   *)
(* of the current process finds the queue open.                            *)
Unready(v) == fetchedIn[v] = gen => \A i \in Batch(v) : status[i] # "ready"

Apart(v, w) ==
    fetchedIn[v] = gen /\ fetchedIn[w] = gen => Batch(v) \cap Batch(w) = {}

HandedOut ==
    \A v \in Workers : Unready(v) /\ \A w \in Workers \ {v} : Apart(v, w)

LEMMA HandedOutStatus == WorkInv => (HandedOutOnce <=> HandedOut)
<1> SUFFICES ASSUME WorkInv PROVE HandedOutOnce <=> HandedOut
  OBVIOUS
<1>1. \A v \in Workers : fetchedIn[v] = gen /\ Batch(v) # {} => opened
  BY DEF WorkInv
<1>2. \A v \in Workers : fetchedIn[v] = gen /\ Batch(v) # {} =>
         get_inference_work_queue = status
  BY <1>1 DEF get_inference_work_queue
<1> QED BY <1>2 DEF HandedOutOnce, HandedOut, Unready, Apart

(* A request goes to one worker per API process. *)
LEMMA HandedOutStep ==
    ASSUME IInv, [Next]_vars
    PROVE  HandedOutOnce'
<1> USE DEF IInv, ProcessTypeOK, QueueTypeOK, apiVars, workerVars, clientVars,
        queueVars
<1>1. HandedOut
  BY HandedOutStatus
<1> SUFFICES HandedOut'
  BY WorkStep, HandedOutStatus, PTL
<1>2. CASE UNCHANGED <<gen, fetchedIn, work>> /\
           \A i \in Ids : status'[i] = "ready" => status[i] = "ready"
  BY <1>1, <1>2 DEF HandedOut, Unready, Apart, Batch
<1>3. CASE OpenQueue /\ UNCHANGED <<gen, fetchedIn, work>>
  <2>1. \A v \in Workers : fetchedIn[v] = gen /\ Batch(v) # {} => opened
    BY DEF WorkInv
  <2>2. \A v \in Workers : fetchedIn[v] = gen /\ Batch(v) # {} => status' = status
    BY <1>3, <2>1 DEF OpenQueue, get_inference_work_queue
  <2>3. \A v \in Workers : Batch(v)' = Batch(v)
    BY <1>3 DEF Batch
  <2> QED BY SMTT(30), <1>1, <1>3, <2>2, <2>3 DEF HandedOut, Unready, Apart
<1>4. ASSUME NEW c \in Clients, PutPrompt(c) PROVE HandedOut'
  <2>1. \A v \in Workers : Batch(v)' = Batch(v) /\ lastId + 1 \notin Batch(v)
    BY <1>4, Putting DEF PutRow, put, Batch, WorkInv, RowsInv, Ids
  <2>2. \A i \in Ids : i # lastId + 1 => status'[i] = status[i]
    BY <1>4, Putting DEF PutRow, put
  <2>3. UNCHANGED <<gen, fetchedIn>> /\ \A v \in Workers : Batch(v) \subseteq Ids
    BY <1>4, Putting DEF PutRow, Batch
  <2> QED BY <1>1, <2>1, <2>2, <2>3 DEF HandedOut, Unready, Apart
<1>5. ASSUME NEW w \in Workers, NEW n \in 1 .. BatchSize, GetWork(w, n)
      PROVE  HandedOut'
  <2>1. Batch(w)' \subseteq FirstReady(n)
    BY <1>5 DEF GetWork, Batch
  <2>2. \A v \in Workers \ {w} : Batch(v)' = Batch(v) /\ fetchedIn'[v] =
  fetchedIn[v]
    BY <1>5 DEF GetWork, Batch
  <2>3. gen' = gen /\ \A v \in Workers : Batch(v) \subseteq Ids
    BY <1>5 DEF GetWork, Batch
  <2>4. \A i \in Ids : status'[i] = IF i \in FirstReady(n) THEN "unack" ELSE
  status[i]
    BY <1>5 DEF GetWork, get
  <2>5. \A i \in FirstReady(n) : i \in Ids /\ status[i] = "ready"
    BY DEF FirstReady, ReadyRows
  <2>6. \A v \in Workers \ {w} :
           fetchedIn[v] = gen => Batch(v) \cap FirstReady(n) = {}
    BY <1>1, <2>5 DEF HandedOut, Unready
  <2>7. \A v \in Workers : Unready(v)'
    <3>1. Unready(w)'
      BY <2>1, <2>4, <2>5 DEF Unready
    <3>2. ASSUME NEW v \in Workers \ {w} PROVE Unready(v)'
      BY <1>1, <2>2, <2>3, <2>4 DEF HandedOut, Unready
    <3> QED BY <3>1, <3>2
  <2>8. \A v, u \in Workers : v # u => Apart(v, u)'
    <3> SUFFICES ASSUME NEW v \in Workers, NEW u \in Workers, v # u
                 PROVE  Apart(v, u)'
      OBVIOUS
    <3>1. CASE v # w /\ u # w
      BY <1>1, <2>2, <2>3, <3>1 DEF HandedOut, Apart
    <3>2. CASE v = w
      BY <2>1, <2>2, <2>3, <2>6, <3>2 DEF Apart
    <3>3. CASE u = w
      BY <2>1, <2>2, <2>3, <2>6, <3>3 DEF Apart
    <3> QED BY <3>1, <3>2, <3>3
  <2> QED BY <2>7, <2>8 DEF HandedOut
<1>6. ASSUME UNCHANGED <<gen, fetchedIn>>,
             \A i \in Ids : status'[i] = "ready" => status[i] = "ready",
             \A v \in Workers : Batch(v)' \subseteq Batch(v)
      PROVE  HandedOut'
  <2>1. \A v \in Workers : Batch(v) \subseteq Ids
    BY DEF Batch
  <2> QED BY <1>1, <1>6, <2>1 DEF HandedOut, Unready, Apart
<1>7. ASSUME NEW w \in Workers, FinishAck(w) PROVE HandedOut'
  <2>1. \A v \in Workers : Batch(v)' \subseteq Batch(v)
    BY <1>7 DEF FinishAck, Batch, NoWork
  <2>2. \A i \in Ids : status'[i] = "ready" => status[i] = "ready"
    BY <1>7 DEF FinishAck, ack
  <2> QED BY <1>6, <1>7, <2>1, <2>2 DEF FinishAck
<1>8. ASSUME NEW w \in Workers, Drop(w), UNCHANGED <<status, gen, fetchedIn>>
      PROVE  HandedOut'
  <2>1. \A v \in Workers : Batch(v)' \subseteq Batch(v)
    BY <1>8 DEF Drop, Batch, NoWork
  <2> QED BY <1>6, <1>8, <2>1
<1>9. CASE ApiCrash
  BY <1>9 DEF ApiCrash, HandedOut, Unready, Apart, WorkInv
<1>10. ASSUME NEW w \in Workers, FinishGetId(w) PROVE HandedOut'
  BY <1>2, <1>10 DEF FinishGetId, get_id
<1>11. ASSUME NEW n \in 1 .. BatchSize, OrphanGetWork(n) PROVE HandedOut'
  BY <1>2, <1>11 DEF OrphanGetWork, get
<1>12. CASE ClearAcked
  BY <1>2, <1>12 DEF ClearAcked, clear_acked_data
<1>13. CASE UNCHANGED <<status, gen, fetchedIn, work>>
  BY <1>2, <1>13
<1>14. ASSUME NEW c \in Clients, ClientNext(c) PROVE HandedOut'
  BY <1>3, <1>4, <1>13, <1>14
  DEF ClientNext, Submit, Generate, Embed, Enter, SubmitFails, PollPass,
      PollReply, CheckReply, Repost,
      RepostFails
<1>15. ASSUME NEW w \in Workers, WorkerNext(w) PROVE HandedOut'
  BY <1>3, <1>5, <1>7, <1>8, <1>10, <1>13, <1>15
  DEF WorkerNext, AskForWork, NoWorkToDo, PostResults, PostFails,
      FinishGetIdRaises, FinishUpdate, update
<1> QED
  BY <1>8, <1>9, <1>11, <1>12, <1>13, <1>14, <1>15
  DEF Next, FaultNext, vars, ApiRestart, StepRaises, KillWorker

(* A response or an error that is stored stays stored. *)
LEMMA AnsweredStays ==
    ASSUME IInv, [Next]_vars, NEW i \in Ids, Answered(i)
    PROVE  Answered(i)'
<1> USE DEF IInv, ProcessTypeOK, QueueTypeOK, apiVars, workerVars, clientVars,
        queueVars, Answered
<1>1. CASE UNCHANGED <<response, error>>
  BY <1>1
<1>2. ASSUME NEW w \in Workers, NEW outcome \in Outcomes, FinishUpdate(w, outcome)
      PROVE  Answered(i)'
  BY <1>2 DEF FinishUpdate, update
<1> QED
  BY <1>1, <1>2
  DEF Next, ClientNext, WorkerNext, FaultNext, vars, Submit, Generate, Embed,
      Enter, SubmitFails,
      PutPrompt, PutGenerate, PutEmbed, PutRow, put, PollPass, PollReply,
      CheckReply, Repost, RepostFails,
      AskForWork, NoWorkToDo, GetWork, get, PostResults, PostFails, FinishGetId,
      get_id, FinishGetIdRaises, FinishAck, ack, OrphanGetWork, ClearAcked,
      clear_acked_data, ApiRestart, StepRaises, KillWorker, ApiCrash

(* Acked rows have an answer, and it is the one to their prompt. *)
LEMMA AckedStep ==
    ASSUME IInv, [Next]_vars
    PROVE  AckedRowsAreAnswered'
<1> USE DEF IInv, ProcessTypeOK, QueueTypeOK, apiVars, workerVars, clientVars,
        queueVars, AckedRowsAreAnswered
<1>0. \A i \in Ids : Answered(i) => Answered(i)'
  BY AnsweredStays
<1>1. CASE /\ UNCHANGED <<prompt, response>>
           /\ \A i \in Ids : status'[i] \in {"acked", "deleted"} =>
                 status[i] \in {"acked", "deleted"}
  BY <1>0, <1>1
<1>2. CASE OpenQueue /\ UNCHANGED <<prompt, response>>
  BY <1>1, <1>2, Opening
<1>3. ASSUME NEW c \in Clients, PutPrompt(c) PROVE AckedRowsAreAnswered'
  <2>1. response[lastId + 1] = None
    BY <1>3, Putting DEF PutRow, put, RowsInv, Ids
  <2> QED BY <1>0, <1>3, <2>1, Putting DEF PutRow, put
<1>4. ASSUME NEW n \in 1 .. BatchSize, get(FirstReady(n))
      PROVE  AckedRowsAreAnswered'
  BY <1>1, <1>4 DEF get
<1>5. ASSUME NEW w \in Workers, FinishGetId(w) PROVE AckedRowsAreAnswered'
  BY <1>1, <1>5 DEF FinishGetId, get_id
<1>6. ASSUME NEW w \in Workers, NEW outcome \in Outcomes, FinishUpdate(w, outcome)
      PROVE  AckedRowsAreAnswered'
  <2>1. First(w) \in Ids /\ work[w][First(w)] = prompt[First(w)]
    BY <1>6, FirstInBatch DEF FinishUpdate, WorkInv, Holding, Finishing
  <2> QED BY <1>0, <1>6, <2>1 DEF FinishUpdate, update
<1>7. ASSUME NEW w \in Workers, FinishAck(w) PROVE AckedRowsAreAnswered'
  <2>1. Answered(First(w)) /\ First(w) \in Ids
    BY <1>7, FirstInBatch DEF FinishAck, WorkInv, Holding, Finishing
  <2> QED BY <1>0, <1>7, <2>1 DEF FinishAck, ack
<1>8. CASE ClearAcked
  BY <1>0, <1>8 DEF ClearAcked, clear_acked_data, Clearable
<1> QED
  BY <1>1, <1>2, <1>3, <1>4, <1>5, <1>6, <1>7, <1>8
  DEF Next, ClientNext, WorkerNext, FaultNext, vars, Submit, Generate, Embed,
      Enter, SubmitFails,
      PollPass, PollReply, CheckReply, Repost, RepostFails, AskForWork,
      NoWorkToDo, GetWork, PostResults, PostFails, FinishGetIdRaises,
      OrphanGetWork, ApiRestart, StepRaises, KillWorker, ApiCrash

(* Clearing keeps the latest answers. *)
LEMMA DeletedStep ==
    ASSUME IInv, [Next]_vars
    PROVE  DeletedRowsAreOld'
<1> DEFINE Later(i) == {j \in Ids : j > i /\ Answered(j)}
           Later2(i) == {j \in Ids : j > i /\ Answered(j)'}
<1> SUFFICES ASSUME NEW i \in Ids, status'[i] = "deleted"
             PROVE  Cardinality(Later2(i)) >= KeepLatest
  BY DEF DeletedRowsAreOld
<1>1. IsFiniteSet(Ids)
  BY FS_Interval DEF Ids
<1>2. Later(i) \subseteq Later2(i)
  BY AnsweredStays
<1>3. IsFiniteSet(Later2(i)) /\ IsFiniteSet(Later(i))
  BY <1>1, FS_Subset
<1>4. /\ Cardinality(Later(i)) <= Cardinality(Later2(i))
      /\ Cardinality(Later(i)) \in Nat /\ Cardinality(Later2(i)) \in Nat
  BY <1>2, <1>3, FS_Subset, FS_CardinalityType
<1>5. Cardinality(Later(i)) >= KeepLatest
  <2>1. CASE status[i] = "deleted"
    BY <2>1 DEF IInv, DeletedRowsAreOld
  <2>2. CASE ClearAcked
    <3>1. CASE status[i] = "deleted"
      BY <2>1, <3>1
    <3>2. CASE status[i] # "deleted"
      <4>1. Cardinality(AckedAfter(i)) >= KeepLatest
        BY <2>2, <3>2
        DEF ClearAcked, clear_acked_data, Clearable, IInv, ProcessTypeOK,
            QueueTypeOK
      <4>2. AckedAfter(i) \subseteq Later(i)
        BY DEF AckedAfter, IInv, AckedRowsAreAnswered
      <4>3. Cardinality(AckedAfter(i)) <= Cardinality(Later(i))
        BY <1>3, <4>2, FS_Subset
      <4>4. Cardinality(AckedAfter(i)) \in Nat
        BY <1>3, <4>2, FS_Subset, FS_CardinalityType
      <4> QED BY <1>4, <4>1, <4>3, <4>4
    <3> QED BY <3>1, <3>2
  <2>3. CASE ~ClearAcked
    <3>1. status[i] = "deleted"
      <4> USE DEF IInv, ProcessTypeOK, QueueTypeOK, apiVars, workerVars,
              clientVars, queueVars
      <4>1. CASE OpenQueue
        BY <4>1, Opening
      <4>2. ASSUME NEW c \in Clients, PutPrompt(c) PROVE status[i] = "deleted"
        BY <4>2, Putting DEF PutRow, put
      <4>3. ASSUME NEW n \in 1 .. BatchSize, get(FirstReady(n))
            PROVE  status[i] = "deleted"
        BY <4>3 DEF get
      <4>4. ASSUME NEW w \in Workers, FinishGetId(w) PROVE status[i] = "deleted"
        BY <4>4 DEF FinishGetId, get_id
      <4>5. ASSUME NEW w \in Workers, FinishAck(w) PROVE status[i] = "deleted"
        BY <4>5 DEF FinishAck, ack
      <4> QED
        BY <2>3, <4>1, <4>2, <4>3, <4>4, <4>5
        DEF Next, ClientNext, WorkerNext, FaultNext, vars, Submit, Generate,
            Embed, Enter, SubmitFails,
            PollPass, PollReply, CheckReply, Repost, RepostFails, AskForWork,
            NoWorkToDo, GetWork, PostResults, PostFails, FinishGetIdRaises,
            FinishUpdate, update, OrphanGetWork, ApiRestart, StepRaises,
            KillWorker, ApiCrash
    <3> QED BY <2>1, <3>1
  <2> QED BY <2>2, <2>3
<1> QED BY <1>4, <1>5

-----------------------------------------------------------------------------
(* The theorems.                                                           *)

(* Initially. *)
LEMMA InitIInv == Init => IInv
<1> SUFFICES ASSUME Init PROVE IInv
  OBVIOUS
<1> USE DEF Init, QueueInit
<1>1. \A w \in Workers : Batch(w) = {}
  BY DEF Batch, NoWork
<1>2. ProcessTypeOK
  <2>1. QueueTypeOK
    <3>1. error \in [Ids -> BOOLEAN] /\ opened \in BOOLEAN
      OBVIOUS
    <3> QED BY <3>1 DEF QueueTypeOK, AckStatus
  <2>2. work \in [Workers -> [Ids -> Prompts \cup {None}]]
    BY DEF NoWork
  <2>3. /\ wpc \in [Workers -> {"idle", "asking"} \cup Holding]
        /\ fetchedIn \in [Workers -> 0 .. MaxCrashes]
    BY DEF Holding, Finishing
  <2>4. gen \in 0 .. MaxCrashes /\ faults \in 0 .. MaxFaults
    OBVIOUS
  <2>5. apiUp \in BOOLEAN /\ epochSet \in BOOLEAN /\ polled \in [Clients -> BOOLEAN]
    OBVIOUS
  <2>6. depth \in Int /\ completed \in Nat /\ orphans \in Nat
    OBVIOUS
  <2> QED BY <2>1, <2>2, <2>3, <2>4, <2>5, <2>6 DEF ProcessTypeOK
<1>3. RowsInv
  BY DEF RowsInv, Ids
<1>4. LoopInv
  BY DEF LoopInv, Finishing
<1>5. WorkInv
  BY <1>1 DEF WorkInv, Holding, Finishing, NoWork
<1>6. PutInv
  <2>1. \A c \in Clients : PromptsOf[c] \in Seq(Prompts) /\ PromptsOf[c] # <<>>
    OBVIOUS
  <2>2. \A c \in Clients : Len(PromptsOf[c]) > 0
    BY <2>1
  <2> QED BY <2>2 DEF PutInv
<1>7. HandedOutOnce
  BY <1>1 DEF HandedOutOnce
<1>8. AckedRowsAreAnswered /\ DeletedRowsAreOld
  BY DEF AckedRowsAreAnswered, DeletedRowsAreOld
<1> QED BY <1>2, <1>3, <1>4, <1>5, <1>6, <1>7, <1>8 DEF IInv

(* The inductive invariant holds in every reachable state. *)
THEOREM Invariance == Spec => []IInv
<1>1. IInv /\ [Next]_vars => IInv'
  BY TypeStep, RowsStep, LoopStep, WorkStep, PutStep, HandedOutStep, AckedStep,
     DeletedStep DEF IInv
<1> QED BY <1>1, InitIInv, PTL DEF Spec

(* The table, the metrics and the places of workers and SDK calls keep     *)
(* their types.                                                            *)
THEOREM TypeCorrect == Spec => []ProcessTypeOK
<1>1. IInv => ProcessTypeOK
  BY DEF IInv
<1> QED BY <1>1, Invariance, PTL

(* However many workers ask, crash and come back: one API process hands a  *)
(* request to one worker.                                                  *)
THEOREM OncePerLifetime == Spec => []HandedOutOnce
<1>1. IInv => HandedOutOnce
  BY DEF IInv
<1> QED BY <1>1, Invariance, PTL

(* A request that poll_for_responses may report, or clear_acked_data may   *)
(* delete, was answered, and every response belongs to its row's prompt.   *)
THEOREM AnswersAreOwn == Spec => []AckedRowsAreAnswered
<1>1. IInv => AckedRowsAreAnswered
  BY DEF IInv
<1> QED BY <1>1, Invariance, PTL

(* The periodic clearing deletes only rows that KeepLatest answered ones   *)
(* came after.                                                             *)
THEOREM ClearingKeepsLatest == Spec => []DeletedRowsAreOld
<1>1. IInv => DeletedRowsAreOld
  BY DEF IInv
<1> QED BY <1>1, Invariance, PTL

-----------------------------------------------------------------------------
(* What the SDK calls are told.                                            *)

(* The listing that poll_for_responses promises. *)
InIdOrder(g, n, S) ==
    /\ g \in [1 .. n -> S]
    /\ \A r \in S : \E k \in 1 .. n : g[k] = r
    /\ \A j, k \in 1 .. n : j < k => g[j].id < g[k].id

(* Ascending ids leave one way to list the results. *)
LEMMA SortedListing ==
    ASSUME NEW S, S \subseteq Results, NEW n \in Nat, NEW g, InIdOrder(g, n, S)
    PROVE  SortById(S) = g
<1> USE DEF InIdOrder
<1> DEFINE Sorted(f) == \A j, k \in DOMAIN f : j < k => f[j].id < f[k].id
<1>1. \A j \in 1 .. n : g[j] \in S /\ g[j].id \in Int
  BY DEF Results, Ids
<1>2. ASSUME NEW j \in 1 .. n, NEW k \in 1 .. n, g[j] = g[k] PROVE j = k
  <2>1. CASE j < k
    <3>1. g[j].id < g[k].id
      BY <2>1
    <3> QED BY <1>1, <1>2, <3>1
  <2>2. CASE k < j
    <3>1. g[k].id < g[j].id
      BY <2>2
    <3> QED BY <1>1, <1>2, <3>1
  <2> QED BY <2>1, <2>2
<1>3. Cardinality(S) = n
  <2>1. g \in Bijection(1 .. n, S)
    BY <1>2 DEF Bijection, Injection, Surjection, IsInjective
  <2> QED BY <2>1, FS_CountingElements, Zenon DEF ExistsBijection
<1>4. g \in Listings(S) /\ Sorted(g)
  BY <1>3 DEF Listings
<1>5. PICK f \in Listings(S) : f = SortById(S) /\ Sorted(f)
  BY <1>4, Zenon DEF SortById
<1>6. f \in [1 .. n -> S] /\ \A r \in S : \E k \in 1 .. n : f[k] = r
  BY <1>3, <1>5 DEF Listings
<1>7. ASSUME NEW j \in 1 .. n, f[j] # g[j] PROVE FALSE
  <2> DEFINE D == {i \in 1 .. n : f[i] # g[i]}
  <2>1. D \in SUBSET Nat /\ j \in D
    BY <1>7
  <2> HIDE DEF D
  <2>2. PICK k \in D : \A i \in D : k <= i
    BY <2>1, LeastNat
  <2> USE DEF D
  <2>3. k \in 1 .. n /\ f[k] # g[k] /\ \A i \in 1 .. n : i < k => f[i] = g[i]
    BY <2>2
  <2>4. PICK l \in 1 .. n : g[l] = f[k]
    BY <1>6, <2>3
  <2>5. PICK m \in 1 .. n : f[m] = g[k]
    BY <1>1, <1>6, <2>3
  <2>6. l > k
    <3>1. CASE l < k
      <4>1. f[l].id = f[k].id /\ f[l].id < f[k].id
        BY ZenonT(60), <1>5, <1>6, <2>3, <2>4, <3>1
      <4> QED BY <1>1, <2>4, <4>1
    <3> QED BY <2>3, <2>4, <3>1
  <2>7. m > k
    <3>1. CASE m < k
      BY <1>2, <2>3, <2>5, <3>1
    <3> QED BY <2>3, <2>5, <3>1
  <2>8. g[k].id < g[l].id
    BY <2>3, <2>6
  <2>9. f[k].id < f[m].id
    BY <1>5, <1>6, <2>3, <2>7
  <2> QED BY <1>1, <2>3, <2>4, <2>5, <2>8, <2>9
<1>8. f = g
  BY <1>6, <1>7
<1> QED BY <1>5, <1>8

(* Rows are added at the end, and a row's prompt is never rewritten. *)
LEMMA PromptsStay ==
    ASSUME IInv, [Next]_vars
    PROVE  /\ lastId <= lastId'
           /\ \A i \in Ids : i <= lastId => prompt'[i] = prompt[i]
<1> USE DEF IInv, ProcessTypeOK, QueueTypeOK, apiVars, workerVars, clientVars,
        queueVars
<1>1. CASE UNCHANGED <<prompt, lastId>>
  BY <1>1
<1>2. ASSUME NEW c \in Clients, PutPrompt(c)
      PROVE  lastId' = lastId + 1 /\ \A i \in Ids : i <= lastId => prompt'[i] = prompt[i]
  BY <1>2, Putting DEF PutRow, put, Ids
<1>3. lastId <= lastId + 1 /\ lastId <= lastId
  OBVIOUS
<1>4. \/ UNCHANGED <<prompt, lastId>>
      \/ \E c \in Clients : PutPrompt(c)
  BY ZenonT(60) DEF Next, ClientNext, WorkerNext, FaultNext, vars, Submit, Generate, Embed,
      Enter, SubmitFails, OpenQueue, PollPass, PollReply, CheckReply, Repost,
      RepostFails, AskForWork, NoWorkToDo, GetWork, get, PostResults, PostFails,
      FinishGetId, get_id, FinishGetIdRaises, FinishUpdate, update, FinishAck,
      ack, OrphanGetWork, ClearAcked, clear_acked_data, ApiRestart, StepRaises,
      KillWorker, ApiCrash
<1> QED BY <1>1, <1>2, <1>3, <1>4

(* What was told about a row stays true of it. *)
LEMMA OwnResultStays ==
    ASSUME IInv, [Next]_vars, NEW r, OwnResult(r), r.id <= lastId
    PROVE  OwnResult(r)'
BY PromptsStay DEF OwnResult

(* Nothing is lost or mixed up by a step that leaves a call's ids and reply *)
(* alone and does not move it towards its reply.                           *)
LEMMA CallKept ==
    ASSUME IInv, MessageInv, [Next]_vars, NEW c \in Clients,
           ids'[c] = ids[c],
           cpc'[c] \in {"polling", "replied", "repost", "done"} =>
              cpc[c] \in {"polling", "replied", "repost", "done"}
    PROVE  /\ CallInv(c)'
           /\ Requested(c)' = Requested(c)
           /\ \A i \in Requested(c) : i \in Ids /\ i <= lastId
<1>1. CallInv(c)
  BY DEF MessageInv
<1>2. Requested(c)' = Requested(c)
  BY DEF Requested
<1>3. \A k \in 1 .. Len(ids[c]) : ids[c][k] \in Ids /\ ids[c][k] <= lastId
  BY <1>1 DEF CallInv
<1>4. lastId \in Int /\ lastId' \in Int
  BY TypeStep DEF IInv, ProcessTypeOK, QueueTypeOK
<1>5. \A k \in 1 .. Len(ids[c]) :
         ids[c][k] <= lastId' /\ prompt'[ids[c][k]] = prompt[ids[c][k]]
  BY <1>3, <1>4, PromptsStay DEF Ids
<1>6. CallInv(c)'
  BY <1>1, <1>5 DEF CallInv
<1> QED BY <1>2, <1>3, <1>6 DEF Requested

(* ... the results that are collected, *)
LEMMA GotKept ==
    ASSUME IInv, MessageInv, [Next]_vars, NEW c \in Clients,
           Requested(c)' = Requested(c),
           \A i \in Requested(c) : i \in Ids /\ i <= lastId,
           got'[c] \in {got[c], {}}
    PROVE  GotInv(c)'
<1>1. GotInv(c)
  BY DEF MessageInv
<1>2. \A r \in got[c] : OwnResult(r)'
  BY <1>1, OwnResultStays DEF GotInv
<1> QED BY <1>1, <1>2 DEF GotInv

(* ... and the reply. *)
LEMMA ReplyKept ==
    ASSUME IInv, MessageInv, [Next]_vars, NEW c \in Clients,
           ids'[c] = ids[c], reply'[c] = reply[c],
           cpc'[c] \in {"replied", "repost", "done"} =>
              cpc[c] \in {"replied", "repost", "done"},
           cpc'[c] = "done" =>
              \A k \in 1 .. Len(reply[c]) : /\ reply[c][k].response # None
                                            /\ ~reply[c][k].error
    PROVE  ReplyInv(c)'
<1>1. ReplyInv(c) /\ CallInv(c)
  BY DEF MessageInv
<1>2. CASE cpc'[c] \in {"replied", "repost", "done"}
  <2>1. /\ Len(reply[c]) = Len(ids[c])
        /\ \A k \in 1 .. Len(reply[c]) :
              reply[c][k].id = ids[c][k] /\ OwnResult(reply[c][k])
    BY <1>1, <1>2 DEF ReplyInv
  <2>2. ASSUME NEW k \in 1 .. Len(reply[c]) PROVE OwnResult(reply[c][k])'
    <3>1. k \in 1 .. Len(ids[c]) /\ reply'[c][k] = reply[c][k]
      BY <2>1
    <3>2. OwnResult(reply[c][k]) /\ reply[c][k].id <= lastId
      BY <1>1, <2>1, <3>1 DEF CallInv
    <3>3. PICK r : r = reply[c][k]
      OBVIOUS
    <3>4. OwnResult(r)'
      BY <3>2, <3>3, OwnResultStays
    <3> QED BY <3>1, <3>3, <3>4
  <2>3. \A k \in 1 .. Len(reply'[c]) :
           reply'[c][k].id = ids'[c][k] /\ OwnResult(reply[c][k])'
    BY <2>1, <2>2
  <2> QED BY <1>1, <2>1, <2>3 DEF ReplyInv
<1> QED BY <1>1, <1>2 DEF ReplyInv

(* put appends the id of a new row that has the next prompt. *)
LEMMA PutCall ==
    ASSUME IInv, MessageInv, [Next]_vars, NEW c \in Clients, PutRow(c)
    PROVE  CallInv(c)' /\ GotInv(c)' /\ ReplyInv(c)'
<1> DEFINE k == Len(ids[c]) + 1
<1>1. CallInv(c) /\ GotInv(c) /\ ids[c] \in Seq(Ids)
  BY DEF MessageInv, CallInv
<1>2. /\ cpc[c] = "putting" /\ k \in 1 .. Len(PromptsOf[c])
      /\ PromptsOf[c] \in Seq(Prompts)
  BY <1>1 DEF PutRow, IInv, PutInv
<1>3. /\ lastId' = lastId + 1 /\ lastId + 1 \in Ids /\ lastId \in Int
      /\ prompt'[lastId + 1] = PromptsOf[c][k]
  BY DEF PutRow, put, IInv, ProcessTypeOK, QueueTypeOK, Ids
<1>4. /\ ids'[c] = Append(ids[c], lastId + 1)
      /\ cpc'[c] = IF k = Len(PromptsOf[c]) THEN "polling" ELSE "putting"
      /\ got'[c] = got[c] /\ reply'[c] = reply[c]
  BY DEF PutRow, IInv, PutInv, ProcessTypeOK
<1>5. /\ ids'[c] \in Seq(Ids) /\ Len(ids'[c]) = k
      /\ ids'[c][k] = lastId + 1
      /\ \A j \in 1 .. Len(ids[c]) : ids'[c][j] = ids[c][j]
  BY <1>1, <1>3, <1>4
<1>6. \A j \in 1 .. Len(ids[c]) :
         /\ ids[c][j] \in Ids /\ ids[c][j] <= lastId
         /\ prompt'[ids[c][j]] = PromptsOf[c][j]
  BY <1>1, PromptsStay DEF CallInv
<1>7. CallInv(c)'
  <2>0. \A j \in 1 .. k : j \in 1 .. Len(ids[c]) \/ j = k
    BY <1>1
  <2>1. ASSUME NEW j \in 1 .. k
        PROVE  ids'[c][j] <= lastId' /\ prompt'[ids'[c][j]] = PromptsOf[c][j]
    <3>1. CASE j = k
      BY <1>3, <1>5, <3>1
    <3>2. CASE j \in 1 .. Len(ids[c])
      <4>1. ids'[c][j] = ids[c][j] /\ ids[c][j] \in Int
        BY <1>5, <1>6, <3>2 DEF Ids
      <4> QED BY <1>3, <1>6, <3>2, <4>1
    <3> QED BY <2>0, <3>1, <3>2
  <2>2. ASSUME NEW i \in 1 .. k, NEW j \in 1 .. k, i < j
        PROVE  ids'[c][i] < ids'[c][j]
    <3>1. i \in 1 .. Len(ids[c]) /\ ids'[c][i] = ids[c][i] /\ ids[c][i] \in Int
          /\ ids[c][i] <= lastId
      BY SMTT(30), <1>1, <1>5, <1>6, <2>2 DEF Ids
    <3>2. CASE j = k
      BY <1>3, <1>5, <3>1, <3>2
    <3>3. CASE j \in 1 .. Len(ids[c])
      <4>1. ids'[c][j] = ids[c][j] /\ ids[c][i] < ids[c][j]
        BY <1>1, <1>5, <2>2, <3>1, <3>3 DEF CallInv
      <4> QED BY <3>1, <4>1
    <3> QED BY <2>0, <3>2, <3>3
  <2>3. cpc'[c] \in {"polling", "replied", "repost", "done"} =>
           k = Len(PromptsOf[c])
    BY <1>4
  <2> HIDE DEF k
  <2> QED BY <1>2, <1>5, <2>1, <2>2, <2>3 DEF CallInv
<1>8. GotInv(c)'
  <2>1. ASSUME NEW i \in Requested(c) PROVE i \in Requested(c)'
    <3>1. PICK j \in 1 .. Len(ids[c]) : ids[c][j] = i
      BY DEF Requested
    <3>2. j \in 1 .. Len(ids'[c]) /\ ids'[c][j] = i
      BY <1>1, <1>5, <3>1
    <3> QED BY <3>2 DEF Requested
  <2>2. \A r \in got[c] : r.id <= lastId
    BY <1>1, <1>6 DEF GotInv, Requested
  <2>3. \A r \in got[c] : OwnResult(r)'
    BY <1>1, <2>2, OwnResultStays DEF GotInv
  <2> QED BY <1>1, <1>4, <2>1, <2>3 DEF GotInv
<1>9. ReplyInv(c)'
  BY <1>4 DEF ReplyInv, MessageInv
<1> QED BY <1>7, <1>8, <1>9

(* A pass of poll_for_responses collects rows that it had not seen. *)
LEMMA PollCall ==
    ASSUME IInv, MessageInv, [Next]_vars, NEW c \in Clients, PollPass(c)
    PROVE  CallInv(c)' /\ GotInv(c)' /\ ReplyInv(c)'
<1> DEFINE fresh == {[id |-> i, response |-> response[i], error |-> error[i]] :
                        i \in Newly(c)}
<1>1. CallInv(c) /\ GotInv(c)
  BY DEF MessageInv
<1>2. /\ ids'[c] = ids[c] /\ reply'[c] = reply[c] /\ cpc'[c] = cpc[c]
      /\ got'[c] = got[c] \cup fresh
      /\ UNCHANGED queueVars
  BY DEF PollPass, MessageInv, TypeOK
<1>3. CallInv(c)' /\ Requested(c)' = Requested(c)
      /\ \A i \in Requested(c) : i \in Ids /\ i <= lastId
  BY <1>2, CallKept
<1>4. \A i \in Newly(c) : i \in Requested(c) /\ i \in Ids /\ i \notin Seen(c)
  BY <1>3 DEF Newly
<1>5. ASSUME NEW r \in fresh
      PROVE  /\ r \in Results /\ r.id \in Requested(c) /\ OwnResult(r)
             /\ r.id \notin Seen(c)
  <2>1. PICK i \in Newly(c) :
           r = [id |-> i, response |-> response[i], error |-> error[i]]
    OBVIOUS
  <2>2. response[i] \in Prompts \cup {None} /\ error[i] \in BOOLEAN
    BY <1>4 DEF IInv, ProcessTypeOK, QueueTypeOK
  <2>3. response[i] \in {None, prompt[i]}
    BY <1>4 DEF IInv, AckedRowsAreAnswered
  <2>4. r \in Results
    BY <1>4, <2>1, <2>2 DEF Results
  <2> QED BY <1>4, <2>1, <2>3, <2>4 DEF OwnResult
<1>6. \A r, s \in fresh : r.id = s.id => r = s
  OBVIOUS
<1>7. \A r \in got[c] : r.id \in Seen(c)
  BY DEF Seen
<1> HIDE DEF fresh
<1>8. GotInv(c)'
  <2>1. got'[c] \subseteq Results
    BY <1>1, <1>2, <1>5 DEF GotInv
  <2>2. \A r \in got'[c] : r.id \in Requested(c) /\ OwnResult(r)
    BY <1>1, <1>2, <1>5 DEF GotInv
  <2>3. \A r, s \in got'[c] : r.id = s.id => r = s
    BY <1>1, <1>2, <1>5, <1>6, <1>7 DEF GotInv
  <2>4. \A r \in got'[c] : OwnResult(r)'
    BY <1>3, <2>2, OwnResultStays
  <2> QED BY <1>3, <2>1, <2>2, <2>3, <2>4 DEF GotInv
<1>9. ReplyInv(c)'
  BY <1>2, ReplyKept DEF MessageInv, ReplyInv
<1> QED BY <1>3, <1>8, <1>9

(* The reply lists every requested id once, in its place. *)
LEMMA ReplyCall ==
    ASSUME IInv, MessageInv, [Next]_vars, NEW c \in Clients, PollReply(c)
    PROVE  CallInv(c)' /\ GotInv(c)' /\ ReplyInv(c)'
<1> DEFINE all == got[c] \cup Unfinished(c)
           n == Len(ids[c])
           listed == [k \in 1 .. n |-> CHOOSE r \in all : r.id = ids[c][k]]
<1>1. CallInv(c) /\ GotInv(c) /\ ids[c] \in Seq(Ids)
  BY DEF MessageInv, CallInv
<1>0. n \in Nat
  BY <1>1
<1>2. /\ ids'[c] = ids[c] /\ cpc[c] = "polling" /\ cpc'[c] = "replied"
      /\ got'[c] = {} /\ reply'[c] = SortById(all)
      /\ UNCHANGED queueVars
  BY DEF PollReply, MessageInv, TypeOK, ProcessTypeOK
<1>3. CallInv(c)' /\ Requested(c)' = Requested(c)
      /\ \A i \in Requested(c) : i \in Ids /\ i <= lastId
  BY <1>2, CallKept
<1>4. ASSUME NEW r \in Unfinished(c)
      PROVE  /\ r \in Results /\ OwnResult(r)
             /\ r.id \in Requested(c) /\ r.id \notin Seen(c)
  <2>1. PICK i \in Requested(c) \ Seen(c) :
           r = [id |-> i, response |-> None, error |-> FALSE]
    BY DEF Unfinished
  <2>2. r.id = i /\ r.response = None /\ i \in Ids
    BY <1>3, <2>1
  <2>3. r \in Results
    BY <2>1, <2>2 DEF Results
  <2> QED BY <2>1, <2>2, <2>3 DEF OwnResult
<1>5. /\ all \in SUBSET Results
      /\ \A r \in all : r.id \in Requested(c) /\ OwnResult(r)
  BY <1>1, <1>4 DEF GotInv
<1>6. \A r, s \in all : r.id = s.id => r = s
  <2>1. \A r \in got[c] : r.id \in Seen(c)
    BY DEF Seen
  <2>2. ASSUME NEW r \in Unfinished(c), NEW s \in Unfinished(c), r.id = s.id
        PROVE  r = s
    <3>1. PICK i \in Ids : r = [id |-> i, response |-> None, error |-> FALSE]
      BY <1>3 DEF Unfinished
    <3>2. PICK j \in Ids : s = [id |-> j, response |-> None, error |-> FALSE]
      BY <1>3 DEF Unfinished
    <3> QED BY <2>2, <3>1, <3>2
  <2>3. \A r \in Unfinished(c) : r.id \notin Seen(c)
    BY <1>4
  <2>4. \A r, s \in got[c] : r.id = s.id => r = s
    BY <1>1 DEF GotInv
  <2> QED BY <2>1, <2>2, <2>3, <2>4
<1>7. ASSUME NEW k \in 1 .. n PROVE \E r \in all : r.id = ids[c][k]
  <2>1. ids[c][k] \in Requested(c)
    BY DEF Requested
  <2>2. CASE ids[c][k] \in Seen(c)
    BY <2>2 DEF Seen
  <2>3. CASE ids[c][k] \notin Seen(c)
    <3>1. [id |-> ids[c][k], response |-> None, error |-> FALSE] \in Unfinished(c)
      BY <2>1, <2>3 DEF Unfinished
    <3> QED BY <3>1
  <2> QED BY <2>2, <2>3
<1> HIDE DEF all
<1>8. \A k \in 1 .. n : listed[k] \in all /\ listed[k].id = ids[c][k]
  BY <1>7
<1>9. listed \in [1 .. n -> all]
  BY <1>8
<1>10. ASSUME NEW r \in all PROVE \E k \in 1 .. n : listed[k] = r
  <2>1. PICK k \in 1 .. n : ids[c][k] = r.id
    BY <1>5 DEF Requested
  <2>2. listed[k] \in all /\ listed[k].id = r.id
    BY <1>8, <2>1
  <2>3. listed[k] = r
    BY <1>6, <2>2
  <2> QED BY <2>3
<1>11. \A j, k \in 1 .. n : j < k => listed[j].id < listed[k].id
  BY <1>1, <1>8 DEF CallInv
<1> HIDE DEF listed, n
<1>12. reply'[c] = listed
  <2>1. all \in SUBSET Results
    BY <1>5
  <2>2. \A r \in all : \E k \in 1 .. n : listed[k] = r
    BY <1>10
  <2>3. InIdOrder(listed, n, all)
    BY <1>9, <1>11, <2>2, Zenon DEF InIdOrder
  <2>4. SortById(all) = listed
    BY <1>0, <2>1, <2>3, SortedListing, Zenon
  <2> QED BY <1>2, <2>4
<1>13. ReplyInv(c)'
  <2>1. listed \in [1 .. n -> Results]
    BY <1>5, <1>9
  <2>2. listed \in Seq(Results) /\ Len(listed) = n
    BY <1>0, <2>1
  <2>3. \A k \in 1 .. n : OwnResult(listed[k])
    BY <1>5, <1>8
  <2>4. \A k \in 1 .. n : OwnResult(reply[c][k])'
    BY <1>2, <1>12, <2>3 DEF OwnResult, queueVars
  <2> QED BY <1>2, <1>8, <1>12, <2>2, <2>4 DEF ReplyInv, n
<1>14. GotInv(c)'
  BY <1>2, <1>3, GotKept
<1> QED BY <1>3, <1>13, <1>14

(* The SDK returns only a reply without errors and without open requests. *)
LEMMA CheckedReply ==
    ASSUME NEW c \in Clients, is_finished(c) = "done"
    PROVE  \A k \in 1 .. Len(reply[c]) : /\ reply[c][k].response # None
                                         /\ ~reply[c][k].error
BY DEF is_finished

(* get_results is asked for the ids of the first call. *)
LEMMA RepostCall ==
    ASSUME IInv, MessageInv, [Next]_vars, NEW c \in Clients, Repost(c)
    PROVE  ids'[c] = ids[c]
<1>1. CallInv(c) /\ ReplyInv(c) /\ cpc[c] = "repost"
  BY DEF MessageInv, Repost
<1>2. ids'[c] = [k \in 1 .. Len(reply[c]) |-> reply[c][k].id]
  BY DEF Repost, IInv, PutInv
<1>3. /\ ids[c] \in Seq(Ids) /\ Len(reply[c]) = Len(ids[c])
      /\ \A k \in 1 .. Len(ids[c]) : reply[c][k].id = ids[c][k]
  BY <1>1 DEF CallInv, ReplyInv
<1>4. /\ ids'[c] = [k \in 1 .. Len(ids[c]) |-> ids[c][k]]
  BY <1>2, <1>3
<1>5. ids[c] = [k \in 1 .. Len(ids[c]) |-> ids[c][k]]
  BY <1>3
<1> QED BY <1>4, <1>5

(* Every step keeps the messages of every call. *)
LEMMA MessageStep ==
    ASSUME IInv, MessageInv, [Next]_vars
    PROVE  MessageInv'
<1> USE DEF apiVars, workerVars, clientVars
<1>0. /\ DOMAIN ids = Clients /\ DOMAIN cpc = Clients
      /\ DOMAIN got = Clients /\ DOMAIN reply = Clients
  BY DEF MessageInv, TypeOK, ProcessTypeOK
<1>1. /\ ids' = [c \in Clients |-> ids'[c]] /\ got' = [c \in Clients |-> got'[c]]
      /\ reply' = [c \in Clients |-> reply'[c]]
  BY ZenonT(60) DEF MessageInv, TypeOK, Next, ClientNext, WorkerNext, FaultNext, vars, Submit,
         Generate, Embed, Enter, SubmitFails, PutPrompt, PutGenerate, PutEmbed,
         PutRow, PollPass, PollReply, CheckReply, Repost, RepostFails,
         AskForWork, NoWorkToDo, GetWork, PostResults, PostFails, FinishGetId,
         FinishGetIdRaises, FinishUpdate, FinishAck, OrphanGetWork, ClearAcked,
         ApiRestart, StepRaises, KillWorker, ApiCrash
<1> SUFFICES ASSUME NEW c \in Clients
             PROVE  CallInv(c)' /\ GotInv(c)' /\ ReplyInv(c)'
  <2>1. ASSUME \A c \in Clients : CallInv(c)' /\ GotInv(c)' /\ ReplyInv(c)'
        PROVE  TypeOK'
    <3>1. \A c \in Clients : /\ ids'[c] \in Seq(Ids)
                              /\ got'[c] \in SUBSET Results
                              /\ reply'[c] \in Seq(Results)
      BY <2>1 DEF CallInv, GotInv, ReplyInv, Results
    <3>2. /\ ids' \in [Clients -> Seq(Ids)]
          /\ got' \in [Clients -> SUBSET Results]
          /\ reply' \in [Clients -> Seq(Results)]
      BY <1>1, <3>1
    <3> QED BY <3>2, TypeStep DEF TypeOK, Results
  <2> QED BY <2>1 DEF MessageInv
<1>2. CASE /\ ids'[c] = ids[c] /\ reply'[c] = reply[c]
           /\ got'[c] \in {got[c], {}}
           /\ cpc'[c] \in {cpc[c], "putting", "failed"}
  <2>1. cpc'[c] = "done" => cpc[c] = "done"
    BY <1>2
  <2>2. ReplyInv(c)
    BY DEF MessageInv
  <2>3. ReplyInv(c)'
    BY <1>2, <2>1, <2>2, ReplyKept DEF ReplyInv
  <2> QED BY <1>2, <2>3, CallKept, GotKept
<1>3. ASSUME NEW d \in Clients, ClientNext(d)
      PROVE  CallInv(c)' /\ GotInv(c)' /\ ReplyInv(c)'
  <2>1. CASE d # c
    <3>1. UNCHANGED <<ids[c], reply[c], got[c], cpc[c]>>
      BY <1>0, <1>3, <2>1
      DEF MessageInv, ClientNext, Submit, Generate, Embed, Enter, SubmitFails,
          PutPrompt, PutGenerate, PutEmbed, PutRow, PollPass, PollReply,
          CheckReply, Repost, RepostFails
    <3> QED BY <1>2, <3>1
  <2>2. CASE d = c
    <3>1. CASE Submit(c) \/ SubmitFails(c) \/ RepostFails(c)
      BY <1>0, <1>2, <3>1 DEF Submit, Generate, Embed, Enter, SubmitFails, RepostFails
    <3>2. CASE PutPrompt(c)
      BY <3>2, Putting, PutCall
    <3>3. CASE PollPass(c)
      BY <3>3, PollCall
    <3>4. CASE PollReply(c)
      BY <3>4, ReplyCall
    <3>5. CASE CheckReply(c)
      <4>1. /\ UNCHANGED <<ids, reply, got>> /\ cpc[c] = "replied"
            /\ cpc'[c] = is_finished(c)
        BY <1>0, <3>5 DEF CheckReply
      <4> QED BY <4>1, CheckedReply, CallKept, GotKept, ReplyKept
    <3>6. CASE Repost(c)
      <4>1. /\ UNCHANGED <<reply, got>> /\ cpc[c] = "repost"
            /\ cpc'[c] = "polling" /\ ids'[c] = ids[c]
        BY <1>0, <3>6, RepostCall DEF Repost
      <4> QED BY <4>1, CallKept, GotKept, ReplyKept
    <3> QED BY <1>3, <2>2, <3>1, <3>2, <3>3, <3>4, <3>5, <3>6 DEF ClientNext
  <2> QED BY <2>1, <2>2
<1>4. CASE ApiCrash
  <2>1. /\ UNCHANGED <<ids, reply>> /\ got'[c] = {}
        /\ cpc'[c] \in {cpc[c], "failed"}
    BY <1>4 DEF ApiCrash
  <2> QED BY <1>2, <2>1
<1>5. CASE UNCHANGED clientVars
  BY <1>2, <1>5
<1> QED
  BY <1>3, <1>4, <1>5
  DEF Next, WorkerNext, FaultNext, vars, AskForWork, NoWorkToDo, GetWork,
      PostResults, PostFails, FinishGetId, FinishGetIdRaises, FinishUpdate,
      FinishAck, OrphanGetWork, ClearAcked, ApiRestart, StepRaises, KillWorker

(* Initially no call has ids, results or a reply. *)
LEMMA InitMessages == Init => MessageInv
<1> SUFFICES ASSUME Init, NEW c \in Clients
             PROVE  CallInv(c) /\ GotInv(c) /\ ReplyInv(c)
  <2>1. Init => TypeOK
    <3>1. Init => ProcessTypeOK
      BY InitIInv DEF IInv
    <3> QED BY <3>1 DEF Init, TypeOK
  <2> QED BY <2>1 DEF MessageInv
<1>1. PromptsOf[c] \in Seq(Prompts)
  OBVIOUS
<1>2. ids[c] = <<>> /\ reply[c] = <<>> /\ got[c] = {} /\ cpc[c] = "new"
  BY DEF Init
<1> QED BY <1>1, <1>2 DEF CallInv, GotInv, ReplyInv

(* The messages of the SDK calls keep their invariant. *)
THEOREM MessagesInvariance == Spec => []MessageInv
<1>1. IInv /\ MessageInv /\ [Next]_vars => MessageInv'
  BY MessageStep
<1> QED BY <1>1, InitMessages, Invariance, PTL DEF Spec

(* Everything in the composed system keeps its type: the rows, the metrics, *)
(* the processes, and what is exchanged between them.                      *)
THEOREM AllTypeCorrect == Spec => []TypeOK
<1>1. MessageInv => TypeOK
  BY DEF MessageInv
<1> QED BY <1>1, MessagesInvariance, PTL

(* Replies are sorted back into the order of the prompts, whatever order   *)
(* the workers answered in, and the SDK returns only when every prompt has *)
(* its response.                                                           *)
THEOREM AlignedReplies == Spec => []RepliesAreAligned
<1>1. MessageInv => RepliesAreAligned
  <2> SUFFICES ASSUME MessageInv, NEW c \in Clients,
                      cpc[c] \in {"replied", "repost", "done"}
               PROVE  /\ Len(reply[c]) = Len(PromptsOf[c])
                      /\ \A k \in 1 .. Len(reply[c]) :
                            reply[c][k].response \in {None, PromptsOf[c][k]}
                      /\ cpc[c] = "done" =>
                            \A k \in 1 .. Len(reply[c]) :
                               reply[c][k].response # None /\ ~reply[c][k].error
    BY DEF RepliesAreAligned
  <2>1. CallInv(c) /\ ReplyInv(c)
    BY DEF MessageInv
  <2>2. Len(reply[c]) = Len(ids[c]) /\ Len(ids[c]) = Len(PromptsOf[c])
    BY <2>1 DEF CallInv, ReplyInv
  <2>3. \A k \in 1 .. Len(ids[c]) :
           /\ prompt[ids[c][k]] = PromptsOf[c][k]
           /\ reply[c][k].id = ids[c][k] /\ OwnResult(reply[c][k])
    BY <2>1, <2>2 DEF CallInv, ReplyInv
  <2>4. \A k \in 1 .. Len(ids[c]) :
           reply[c][k].response \in {None, PromptsOf[c][k]}
    BY <2>3 DEF OwnResult
  <2> QED BY <2>1, <2>2, <2>4 DEF ReplyInv
<1> QED BY <1>1, MessagesInvariance, PTL

-----------------------------------------------------------------------------
(* What the service tells of its backlog.                                  *)

(* Before the first crash of the API process there was no crash. *)
LEMMA NoCrashYet ==
    ASSUME IInv, [Next]_vars, gen' = 0
    PROVE  gen = 0 /\ ~ApiCrash
<1>1. gen \in Nat
  BY DEF IInv, ProcessTypeOK
<1>2. gen' = gen \/ (ApiCrash /\ gen' = gen + 1)
  BY DEF Next, ClientNext, WorkerNext, FaultNext, vars, apiVars, Submit,
         Generate, Embed, Enter, SubmitFails, PutPrompt, PutGenerate, PutEmbed,
         PutRow, PollPass, PollReply, CheckReply, Repost, RepostFails,
         AskForWork, NoWorkToDo, GetWork, PostResults, PostFails, FinishGetId,
         FinishGetIdRaises, FinishUpdate, FinishAck, OrphanGetWork, ClearAcked,
         ApiRestart, StepRaises, KillWorker, ApiCrash
<1>3. ApiCrash => gen' = gen + 1
  BY DEF ApiCrash
<1> QED BY <1>1, <1>2, <1>3

(* finish_work takes its row out of the batch, and of no other batch. *)
LEMMA AckedLeaves ==
    ASSUME IInv, NEW w \in Workers, FinishAck(w), gen = 0
    PROVE  /\ First(w) \in Ids /\ First(w) \in Batch(w)
           /\ Batch(w)' \subseteq Batch(w) \ {First(w)}
           /\ epochSet => Batch(w)' = Batch(w) \ {First(w)}
           /\ \A v \in Workers \ {w} : Batch(v)' = Batch(v) /\ First(w) \notin Batch(v)
           /\ status[First(w)] = "unack"
           /\ status' = [status EXCEPT ![First(w)] = "acked"]
<1> USE DEF IInv, ProcessTypeOK, QueueTypeOK
<1> DEFINE rest == [work[w] EXCEPT ![First(w)] = None]
           over == record_completed_raises \/ rest = NoWork
<1>1. /\ Batch(w) # {} /\ status[First(w)] = "unack" /\ wpc[w] = "ack"
      /\ status' = [status EXCEPT ![First(w)] = "acked"]
  BY DEF FinishAck, ack, WorkInv, Holding, Finishing
<1>2. First(w) \in Ids /\ First(w) \in Batch(w)
  BY <1>1, FirstInBatch
<1>3. work' = [work EXCEPT ![w] = IF over THEN NoWork ELSE rest]
  BY DEF FinishAck
<1>4. {i \in Ids : rest[i] # None} = Batch(w) \ {First(w)}
  BY <1>2 DEF Batch
<1>5. {i \in Ids : NoWork[i] # None} = {}
  BY DEF NoWork
<1>6. Batch(w)' = {i \in Ids : work'[w][i] # None}
  BY DEF Batch
<1>7. ASSUME NEW v \in Workers \ {w}
      PROVE  Batch(v)' = Batch(v) /\ First(w) \notin Batch(v)
  <2>1. work'[v] = work[v]
    BY <1>3
  <2>2. fetchedIn[v] = gen /\ fetchedIn[w] = gen
    BY DEF WorkInv
  <2>3. HandedOut
    BY HandedOutStatus
  <2> QED BY <1>2, <2>1, <2>2, <2>3 DEF HandedOut, Apart, Batch
<1>8. CASE over
  <2>1. work'[w] = NoWork
    BY <1>3, <1>8
  <2>2. Batch(w)' = {}
    BY <1>5, <1>6, <2>1
  <2>3. ASSUME epochSet PROVE Batch(w) \ {First(w)} = {}
    <3>1. rest = NoWork
      BY <1>8, <2>3 DEF record_completed_raises
    <3> HIDE DEF rest
    <3> QED BY <1>4, <1>5, <3>1
  <2>4. /\ Batch(w)' \subseteq Batch(w) \ {First(w)}
        /\ epochSet => Batch(w)' = Batch(w) \ {First(w)}
    BY <2>2, <2>3
  <2> QED BY <1>1, <1>2, <1>7, <2>4
<1>9. CASE ~over
  <2>1. work'[w] = rest
    BY <1>3, <1>9
  <2> HIDE DEF rest
  <2>2. Batch(w)' = Batch(w) \ {First(w)}
    BY <1>4, <1>6, <2>1
  <2> QED BY <1>1, <1>2, <1>7, <2>2
<1> QED BY <1>8, <1>9

(* Until the API process dies, nobody else takes or acks what a worker holds. *)
HeldUnack == \A w \in Workers : \A i \in Batch(w) : status[i] = "unack"

LEMMA HeldUnackStep ==
    ASSUME IInv, [Next]_vars, gen' = 0, HeldUnack
    PROVE  HeldUnack'
<1> USE DEF IInv, ProcessTypeOK, QueueTypeOK, apiVars, workerVars, clientVars,
        queueVars
<1>0. gen = 0 /\ ~ApiCrash
  BY NoCrashYet
<1>1. \A w \in Workers : Batch(w) \subseteq Ids
  BY DEF Batch
<1>2. ASSUME \A w \in Workers : Batch(w)' \subseteq Batch(w),
             \A i \in Ids : status[i] = "unack" => status'[i] = "unack"
      PROVE  HeldUnack'
  BY <1>1, <1>2 DEF HeldUnack
<1>3. CASE UNCHANGED work /\ \A i \in Ids : status[i] = "unack" => status'[i] = "unack"
  <2>1. \A w \in Workers : Batch(w)' = Batch(w)
    BY <1>3, SameFirst
  <2> QED BY <1>2, <1>3, <2>1
<1>4. CASE OpenQueue /\ UNCHANGED work
  <2>1. \A w \in Workers : Batch(w) # {} => opened
    BY <1>0 DEF WorkInv
  <2>2. \A w \in Workers : Batch(w) # {} => status' = status
    BY <1>4, <2>1 DEF OpenQueue, get_inference_work_queue
  <2>3. \A w \in Workers : Batch(w)' = Batch(w)
    BY <1>4, SameFirst
  <2>4. ASSUME NEW w \in Workers, NEW i \in Batch(w) PROVE status'[i] = "unack"
    BY <2>2, <2>4 DEF HeldUnack
  <2> QED BY <2>3, <2>4 DEF HeldUnack
<1>5. ASSUME NEW c \in Clients, PutPrompt(c) PROVE HeldUnack'
  <2>1. lastId + 1 \in Ids /\ status[lastId + 1] = "absent"
    BY <1>5, Putting DEF PutRow, put, RowsInv, Ids
  <2>2. \A i \in Ids : status[i] = "unack" => status'[i] = "unack"
    BY <1>5, <2>1, Putting DEF PutRow, put
  <2> QED BY <1>3, <1>5, <2>2, Putting DEF PutRow
<1>6. ASSUME NEW n \in 1 .. BatchSize, get(FirstReady(n))
      PROVE  /\ \A i \in Ids : status[i] = "unack" => status'[i] = "unack"
             /\ \A i \in FirstReady(n) : i \in Ids /\ status'[i] = "unack"
  BY <1>6 DEF get, FirstReady, ReadyRows
<1>7. ASSUME NEW w \in Workers, NEW n \in 1 .. BatchSize, GetWork(w, n)
      PROVE  HeldUnack'
  <2>1. Batch(w)' \subseteq FirstReady(n)
    BY <1>7 DEF GetWork, Batch
  <2>2. \A v \in Workers \ {w} : work'[v] = work[v]
    BY <1>7 DEF GetWork
  <2>3. \A v \in Workers \ {w} : Batch(v)' = Batch(v)
    BY <2>2, SameFirst
  <2>4. get(FirstReady(n))
    BY <1>7 DEF GetWork
  <2> QED BY ZenonT(60), <1>1, <1>6, <2>1, <2>3, <2>4 DEF HeldUnack
<1>8. ASSUME NEW w \in Workers, FinishGetId(w) PROVE HeldUnack'
  BY <1>3, <1>8 DEF FinishGetId, get_id
<1>9. ASSUME NEW w \in Workers, FinishAck(w) PROVE HeldUnack'
  <2>0. /\ Batch(w)' \subseteq Batch(w) \ {First(w)}
        /\ \A v \in Workers \ {w} : Batch(v)' = Batch(v) /\ First(w) \notin Batch(v)
        /\ status' = [status EXCEPT ![First(w)] = "acked"]
    BY <1>0, <1>9, AckedLeaves
  <2>1. \A i \in Ids : i # First(w) => status'[i] = status[i]
    BY <2>0
  <2>2. \A v \in Workers : Batch(v)' \subseteq Batch(v) \ {First(w)}
    BY <2>0
  <2>3. ASSUME NEW v \in Workers, NEW i \in Batch(v)' PROVE status'[i] = "unack"
    <3>1. i \in Batch(v) /\ i # First(w)
      BY <2>2
    <3>2. i \in Ids /\ status[i] = "unack"
      BY <1>1, <3>1 DEF HeldUnack
    <3> QED BY <2>1, <3>1, <3>2
  <2> QED BY <2>3 DEF HeldUnack
<1>10. ASSUME NEW w \in Workers, Drop(w), UNCHANGED status PROVE HeldUnack'
  <2>1. \A v \in Workers : Batch(v)' \subseteq Batch(v)
    BY <1>10 DEF Drop, Batch, NoWork
  <2> QED BY <1>2, <1>10, <2>1
<1>11. CASE ClearAcked
  BY <1>3, <1>11 DEF ClearAcked, clear_acked_data, Clearable
<1>12. ASSUME NEW c \in Clients, ClientNext(c) PROVE HeldUnack'
  BY <1>3, <1>4, <1>5, <1>12
  DEF ClientNext, Submit, Generate, Embed, Enter, SubmitFails, PollPass,
      PollReply, CheckReply, Repost, RepostFails
<1>13. ASSUME NEW w \in Workers, WorkerNext(w) PROVE HeldUnack'
  BY <1>3, <1>4, <1>7, <1>8, <1>9, <1>10, <1>13
  DEF WorkerNext, AskForWork, NoWorkToDo, PostResults, PostFails,
      FinishGetIdRaises, FinishUpdate, update
<1>14. ASSUME NEW n \in 1 .. BatchSize, OrphanGetWork(n) PROVE HeldUnack'
  BY <1>3, <1>6, <1>14 DEF OrphanGetWork
<1> QED
  BY <1>0, <1>3, <1>10, <1>11, <1>12, <1>13, <1>14
  DEF Next, FaultNext, vars, ApiRestart, StepRaises, KillWorker

(* The metrics follow the queue. *)
Counted == depth = Cardinality(Waiting) /\ (lastId > 0 => epochSet)

LEMMA CountedStep ==
    ASSUME IInv, [Next]_vars, gen' = 0, GenerateOnly, HeldUnack, Counted
    PROVE  Counted'
<1> USE DEF IInv, ProcessTypeOK, QueueTypeOK, apiVars, workerVars, clientVars,
        queueVars
<1>0. gen = 0 /\ ~ApiCrash
  BY NoCrashYet
<1>1. IsFiniteSet(Waiting) /\ Cardinality(Waiting) \in Nat
  <2>1. IsFiniteSet(Ids) /\ Waiting \subseteq Ids
    BY FS_Interval DEF Ids, Waiting
  <2> QED BY <2>1, FS_Subset, FS_CardinalityType
<1>2. CASE /\ UNCHANGED <<depth, lastId, epochSet>>
           /\ \A i \in Ids : status'[i] \in {"ready", "unack"} <=>
                             status[i] \in {"ready", "unack"}
  <2>1. Waiting' = Waiting
    BY <1>2 DEF Waiting
  <2> QED BY <1>2, <2>1 DEF Counted
<1>3. CASE OpenQueue /\ UNCHANGED <<depth, lastId, epochSet>>
  BY <1>2, <1>3, Opening
<1>4. ASSUME NEW c \in Clients, PutPrompt(c) PROVE Counted'
  <2>0. PutRow(c) /\ record_new_request
    BY <1>4 DEF PutPrompt, PutGenerate, PutEmbed, GenerateOnly
  <2>1. /\ lastId + 1 \in Ids /\ status[lastId + 1] = "absent"
        /\ status' = [status EXCEPT ![lastId + 1] = "ready"]
        /\ lastId' = lastId + 1
    BY <2>0 DEF PutRow, put, RowsInv, Ids
  <2>2. Waiting' = Waiting \cup {lastId + 1} /\ lastId + 1 \notin Waiting
    BY <2>1 DEF Waiting
  <2>3. Cardinality(Waiting') = Cardinality(Waiting) + 1
    BY <1>1, <2>2, FS_AddElement
  <2>4. depth' = Cardinality(Waiting')
    BY <2>0, <2>3 DEF record_new_request, Counted
  <2>5. CASE lastId > 0
    BY <2>0, <2>4, <2>5 DEF record_new_request, Counted
  <2>6. CASE ~(lastId > 0)
    <3>1. lastId = 0
      BY <2>6
    <3>2. Waiting = {}
      BY <3>1 DEF Waiting, RowsInv, Ids
    <3>3. depth = 0
      BY <3>2, FS_EmptySet DEF Counted
    <3> QED BY <2>0, <2>4, <3>3 DEF record_new_request, Counted
  <2> QED BY <2>5, <2>6
<1>5. ASSUME NEW w \in Workers, FinishAck(w) PROVE Counted'
  <2>1. /\ First(w) \in Ids /\ status[First(w)] = "unack"
        /\ status' = [status EXCEPT ![First(w)] = "acked"]
    BY <1>0, <1>5, AckedLeaves
  <2>2. Waiting' = Waiting \ {First(w)} /\ First(w) \in Waiting
    BY <2>1 DEF Waiting
  <2>3. Cardinality(Waiting') = Cardinality(Waiting) - 1
    BY <1>1, <2>2, FS_RemoveElement
  <2>4. depth' = depth - 1 /\ epochSet' = epochSet /\ lastId' = lastId
    BY <1>5 DEF FinishAck, ack, record_completed_request
  <2> QED BY <2>3, <2>4 DEF Counted
<1>6. ASSUME NEW w \in Workers, FinishGetId(w) PROVE Counted'
  <2>1. First(w) \in Ids /\ status[First(w)] = "unack"
    BY <1>6, FirstInBatch DEF FinishGetId, WorkInv, Holding, Finishing, HeldUnack
  <2> QED BY <1>2, <1>6, <2>1 DEF FinishGetId, get_id
<1>7. ASSUME NEW n \in 1 .. BatchSize, get(FirstReady(n)),
             UNCHANGED <<depth, epochSet>>
      PROVE  Counted'
  BY <1>2, <1>7 DEF get, FirstReady, ReadyRows
<1>8. CASE ClearAcked
  BY <1>2, <1>8 DEF ClearAcked, clear_acked_data, Clearable
<1>9. CASE UNCHANGED <<status, depth, lastId, epochSet>>
  BY <1>2, <1>9
<1>10. ASSUME NEW c \in Clients, ClientNext(c) PROVE Counted'
  BY <1>3, <1>4, <1>9, <1>10
  DEF ClientNext, Submit, Generate, Embed, Enter, SubmitFails, PollPass,
      PollReply, CheckReply, Repost, RepostFails
<1>11. ASSUME NEW w \in Workers, WorkerNext(w) PROVE Counted'
  BY <1>3, <1>5, <1>6, <1>7, <1>9, <1>11
  DEF WorkerNext, AskForWork, NoWorkToDo, GetWork, PostResults, PostFails,
      FinishGetIdRaises, FinishUpdate, update
<1>12. ASSUME NEW n \in 1 .. BatchSize, OrphanGetWork(n) PROVE Counted'
  BY <1>7, <1>12 DEF OrphanGetWork
<1> QED
  BY <1>0, <1>8, <1>9, <1>10, <1>11, <1>12
  DEF Next, FaultNext, vars, ApiRestart, StepRaises, KillWorker

(* Until something fails, a row that was handed out is with a worker. *)
Tracked ==
    \A i \in Ids : status[i] = "unack" => \E w \in Workers : i \in Batch(w)

LEMMA TrackedStep ==
    ASSUME IInv, [Next]_vars, gen' = 0, faults' = 0, GenerateOnly,
           apiUp, orphans = 0, HeldUnack, Counted, Tracked
    PROVE  Tracked'
<1> USE DEF IInv, ProcessTypeOK, QueueTypeOK, apiVars, workerVars, clientVars,
        queueVars
<1>0. gen = 0 /\ ~ApiCrash
  BY NoCrashYet
<1>1. CASE UNCHANGED work /\ \A i \in Ids : status'[i] = "unack" => status[i] = "unack"
  <2>1. \A w \in Workers : Batch(w)' = Batch(w)
    BY <1>1, SameFirst
  <2> QED BY <1>1, <2>1 DEF Tracked
<1>2. CASE OpenQueue /\ UNCHANGED work
  BY <1>1, <1>2, Opening
<1>3. ASSUME NEW c \in Clients, PutPrompt(c) PROVE Tracked'
  BY <1>1, <1>3, Putting DEF PutRow, put
<1>4. ASSUME NEW w \in Workers, NEW n \in 1 .. BatchSize, GetWork(w, n)
      PROVE  Tracked'
  <2>1. \A i \in Ids :
           status'[i] = IF i \in FirstReady(n) THEN "unack" ELSE status[i]
    BY <1>4 DEF GetWork, get
  <2>2. \A i \in FirstReady(n) : i \in Ids /\ prompt[i] # None
    BY DEF FirstReady, ReadyRows, RowsInv
  <2>3. work'[w] = [i \in Ids |-> IF i \in FirstReady(n) THEN prompt[i] ELSE None]
    BY <1>4 DEF GetWork
  <2>4. \A i \in FirstReady(n) : i \in Batch(w)'
    BY <2>2, <2>3 DEF Batch
  <2>5. Batch(w) = {}
    BY <1>4 DEF GetWork, WorkInv, Holding, Finishing
  <2>6. \A v \in Workers \ {w} : work'[v] = work[v]
    BY <1>4 DEF GetWork
  <2>7. \A v \in Workers \ {w} : Batch(v)' = Batch(v)
    BY <2>6, SameFirst
  <2>8. ASSUME NEW i \in Ids, status'[i] = "unack"
        PROVE  \E v \in Workers : i \in Batch(v)'
    <3>1. CASE i \in FirstReady(n)
      BY <2>4, <3>1
    <3>2. CASE i \notin FirstReady(n)
      <4>1. PICK v \in Workers : i \in Batch(v)
        BY <2>1, <2>8, <3>2 DEF Tracked
      <4> QED BY <2>5, <2>7, <4>1
    <3> QED BY <3>1, <3>2
  <2> QED BY <2>8 DEF Tracked
<1>5. ASSUME NEW w \in Workers, FinishGetId(w) PROVE Tracked'
  <2>1. status[First(w)] = "unack" /\ First(w) \in Ids
    BY <1>5, FirstInBatch DEF FinishGetId, WorkInv, Holding, Finishing, HeldUnack
  <2> QED BY <1>1, <1>5, <2>1 DEF FinishGetId, get_id
<1>6. ASSUME NEW w \in Workers, FinishGetIdRaises(w) PROVE FALSE
  <2>1. status[First(w)] = "unack"
    BY <1>6, FirstInBatch
    DEF FinishGetIdRaises, WorkInv, Holding, Finishing, HeldUnack
  <2> QED BY <1>6, <2>1 DEF FinishGetIdRaises, get_id_raises
<1>7. ASSUME NEW w \in Workers, FinishAck(w) PROVE Tracked'
  <2>1. First(w) \in Ids /\ First(w) \in Batch(w)
    BY <1>0, <1>7, AckedLeaves
  <2>2. epochSet
    <3>0. status[First(w)] = "unack"
      BY <1>0, <1>7, AckedLeaves
    <3>1. First(w) <= lastId /\ First(w) > 0
      BY <2>1, <3>0 DEF RowsInv, Ids
    <3> QED BY <2>1, <3>1 DEF Counted, Ids
  <2>3. /\ \A v \in Workers \ {w} : Batch(v)' = Batch(v)
        /\ Batch(w)' = Batch(w) \ {First(w)}
        /\ status' = [status EXCEPT ![First(w)] = "acked"]
    BY <1>0, <1>7, <2>2, AckedLeaves, Zenon
  <2>4. ASSUME NEW i \in Ids, status'[i] = "unack"
        PROVE  \E v \in Workers : i \in Batch(v)'
    <3>1. i # First(w) /\ status[i] = "unack"
      BY <2>1, <2>3, <2>4
    <3>2. PICK v \in Workers : i \in Batch(v)
      BY <3>1 DEF Tracked
    <3> QED BY <2>3, <3>1, <3>2
  <2> QED BY <2>4 DEF Tracked
<1>8. ASSUME NEW w \in Workers, StepRaises(w) \/ KillWorker(w) PROVE FALSE
  <2>1. faults' = faults + 1
    BY <1>8, Zenon DEF StepRaises, KillWorker
  <2>2. faults \in Nat
    OBVIOUS
  <2> QED BY <2>1, <2>2
<1>9. CASE ClearAcked
  BY <1>1, <1>9 DEF ClearAcked, clear_acked_data
<1>10. CASE UNCHANGED <<status, work>>
  BY <1>1, <1>10
<1>11. ASSUME NEW c \in Clients, ClientNext(c) PROVE Tracked'
  BY <1>2, <1>3, <1>10, <1>11
  DEF ClientNext, Submit, Generate, Embed, Enter, SubmitFails, PollPass,
      PollReply, CheckReply, Repost, RepostFails
<1>12. ASSUME NEW w \in Workers, WorkerNext(w) PROVE Tracked'
  BY <1>2, <1>4, <1>5, <1>6, <1>7, <1>10, <1>12
  DEF WorkerNext, AskForWork, NoWorkToDo, PostResults, PostFails,
      FinishUpdate, update
<1>13. ASSUME NEW n \in 1 .. BatchSize, OrphanGetWork(n) PROVE FALSE
  BY <1>13 DEF OrphanGetWork
<1> QED
  BY <1>0, <1>8, <1>9, <1>10, <1>11, <1>12, <1>13
  DEF Next, FaultNext, vars, ApiRestart

(* The API process is up until it dies, and get_work handlers are orphaned *)
(* by the death of their worker only.                                      *)
LEMMA NoMishapStep ==
    ASSUME IInv, [Next]_vars, gen = 0 => apiUp, faults = 0 => orphans = 0
    PROVE  (gen' = 0 => apiUp') /\ (faults' = 0 => orphans' = 0)
<1> USE DEF IInv, ProcessTypeOK, apiVars, workerVars, clientVars
<1>1. CASE UNCHANGED <<apiUp, gen, orphans, faults>>
  BY <1>1
<1>2. ASSUME NEW n \in 1 .. BatchSize, OrphanGetWork(n)
      PROVE  (gen' = 0 => apiUp') /\ (faults' = 0 => orphans' = 0)
  BY <1>2 DEF OrphanGetWork
<1>3. ASSUME NEW w \in Workers, StepRaises(w) \/ KillWorker(w)
      PROVE  (gen' = 0 => apiUp') /\ (faults' = 0 => orphans' = 0)
  <2>1. faults' = faults + 1 /\ faults \in Nat /\ UNCHANGED <<apiUp, gen>>
    BY <1>3 DEF StepRaises, KillWorker
  <2> QED BY <2>1
<1>4. CASE ApiRestart \/ ApiCrash
  BY <1>4 DEF ApiRestart, ApiCrash
<1>5. ASSUME NEW c \in Clients, ClientNext(c)
      PROVE  UNCHANGED <<apiUp, gen, orphans, faults>>
  BY <1>5
  DEF ClientNext, Submit, Generate, Embed, Enter, SubmitFails, PutPrompt,
      PutGenerate, PutEmbed, PutRow, PollPass, PollReply, CheckReply, Repost,
      RepostFails
<1>6. ASSUME NEW w \in Workers, WorkerNext(w)
      PROVE  UNCHANGED <<apiUp, gen, orphans, faults>>
  BY <1>6
  DEF WorkerNext, AskForWork, NoWorkToDo, GetWork, PostResults, PostFails,
      FinishGetId, FinishGetIdRaises, FinishUpdate, FinishAck
<1>7. ClearAcked \/ UNCHANGED vars => UNCHANGED <<apiUp, gen, orphans, faults>>
  BY DEF ClearAcked, vars
<1>8. \/ UNCHANGED <<apiUp, gen, orphans, faults>>
      \/ \E n \in 1 .. BatchSize : OrphanGetWork(n)
      \/ \E w \in Workers : StepRaises(w) \/ KillWorker(w)
      \/ ApiRestart \/ ApiCrash
  BY <1>5, <1>6, <1>7, Zenon DEF Next, FaultNext
<1>9. (gen' = 0 => apiUp') /\ (faults' = 0 => orphans' = 0)
  BY <1>1, <1>2, <1>3, <1>4, <1>8, Zenon
<1> QED BY <1>9, Zenon

(* The backlog stays accounted for. *)
LEMMA BacklogStep ==
    ASSUME IInv, BacklogInv, [Next]_vars
    PROVE  BacklogInv'
<1>1. faults' = 0 => faults = 0
  <2>1. faults' = faults \/ faults' = faults + 1
    BY DEF Next, ClientNext, WorkerNext, FaultNext, vars, workerVars, Submit,
           Generate, Embed, Enter, SubmitFails, PutPrompt, PutGenerate, PutEmbed,
           PutRow, PollPass, PollReply, CheckReply, Repost, RepostFails,
           AskForWork, NoWorkToDo, GetWork, PostResults, PostFails, FinishGetId,
           FinishGetIdRaises, FinishUpdate, FinishAck, OrphanGetWork, ClearAcked,
           ApiRestart, StepRaises, KillWorker, ApiCrash
  <2>2. faults \in Nat
    BY DEF IInv, ProcessTypeOK
  <2> QED BY <2>1, <2>2
<1>2. (gen' = 0 => apiUp') /\ (faults' = 0 => orphans' = 0)
  BY NoMishapStep DEF BacklogInv
<1>3. gen' = 0 => gen = 0
  BY NoCrashYet
<1>4. gen' = 0 => HeldUnack /\ HeldUnack'
  BY <1>3, HeldUnackStep DEF BacklogInv, HeldUnack
<1>5. gen' = 0 /\ GenerateOnly => Counted /\ Counted'
  BY <1>3, <1>4, CountedStep DEF BacklogInv, Counted
<1>6. gen' = 0 /\ faults' = 0 /\ GenerateOnly => Tracked'
  BY <1>1, <1>3, <1>4, <1>5, TrackedStep DEF BacklogInv, Tracked
<1> QED BY <1>2, <1>4, <1>5, <1>6
        DEF BacklogInv, HeldUnack, Counted, Tracked, GenerateOnly

(* Initially nothing waits. *)
LEMMA InitBacklog == Init => BacklogInv
<1> SUFFICES ASSUME Init PROVE BacklogInv
  OBVIOUS
<1>1. \A w \in Workers : Batch(w) = {}
  BY DEF Init, Batch, NoWork
<1>2. Waiting = {}
  BY DEF Init, QueueInit, Waiting
<1>3. Cardinality(Waiting) = 0
  BY <1>2, FS_EmptySet
<1> QED BY <1>1, <1>3 DEF Init, QueueInit, BacklogInv

(* The backlog is accounted for in every reachable state. *)
THEOREM BacklogInvariance == Spec => []BacklogInv
<1>1. IInv /\ BacklogInv /\ [Next]_vars => BacklogInv'
  BY BacklogStep
<1> QED BY <1>1, InitBacklog, Invariance, PTL DEF Spec

(* For any number of workers, calls and faults: queue_depth is the number  *)
(* of requests that wait, finish_work finds an epoch, and until something  *)
(* fails a reply without a response is about a request that is waiting,    *)
(* being worked on, or answered since.                                     *)
THEOREM ToldBacklog == Spec => []BacklogIsTold
<1>1. ASSUME IInv, MessageInv, BacklogInv PROVE BacklogIsTold
  <2>1. MetricsCountBacklog
    <3> SUFFICES ASSUME gen = 0, GenerateOnly
                 PROVE  /\ depth = Cardinality(Waiting)
                        /\ \A w \in Workers : wpc[w] = "ack" => epochSet
      BY DEF MetricsCountBacklog, record_completed_raises
    <3>1. ASSUME NEW w \in Workers, wpc[w] = "ack" PROVE epochSet
      <4>1. First(w) \in Ids /\ status[First(w)] = "unack"
        BY <1>1, <3>1, FirstInBatch DEF IInv, WorkInv, Holding, Finishing
      <4>2. First(w) <= lastId /\ First(w) > 0 /\ lastId \in Int
        BY <1>1, <4>1 DEF IInv, RowsInv, Ids, ProcessTypeOK, QueueTypeOK
      <4> QED BY <1>1, <4>1, <4>2 DEF BacklogInv, Ids
    <3> QED BY <1>1, <3>1 DEF BacklogInv
  <2>2. NoneMeansUnfinished
    <3> SUFFICES ASSUME NEW c \in Clients, gen = 0, faults = 0, GenerateOnly,
                        cpc[c] \in {"replied", "repost"},
                        NEW k \in 1 .. Len(reply[c]),
                        NEW i, i = reply[c][k].id
                 PROVE  \/ status[i] = "ready"
                        \/ \E w \in Workers : i \in Batch(w)
                        \/ Answered(i)
      BY DEF NoneMeansUnfinished
    <3>1. CallInv(c) /\ ReplyInv(c)
      BY <1>1 DEF MessageInv
    <3>2. i \in Ids /\ i <= lastId
      BY <3>1 DEF CallInv, ReplyInv, OwnResult
    <3>3. status[i] \in {"ready", "unack", "acked", "deleted"}
      BY <1>1, <3>2 DEF IInv, RowsInv, ProcessTypeOK, QueueTypeOK, AckStatus
    <3>4. status[i] \in {"acked", "deleted"} => Answered(i)
      BY <1>1, <3>2 DEF IInv, AckedRowsAreAnswered
    <3>5. status[i] = "unack" => \E w \in Workers : i \in Batch(w)
      BY <1>1, <3>2 DEF BacklogInv
    <3> QED BY <3>3, <3>4, <3>5
  <2> QED BY <2>1, <2>2 DEF BacklogIsTold
<1> QED BY <1>1, Invariance, MessagesInvariance, BacklogInvariance, PTL

-----------------------------------------------------------------------------
(* Refinement of the request ledger.                                       *)

Gone == {i \in Ids : status[i] = "deleted"}

(* A step that leaves prompts, answers and deletions alone is invisible. *)
LEMMA LedgerStutter ==
    ASSUME UNCHANGED <<prompt, response, error>>,
           \A i \in Ids : status'[i] = "deleted" <=> status[i] = "deleted"
    PROVE  UNCHANGED Ledger!ledger
<1>1. Gone' = Gone
  BY DEF Gone
<1> QED BY <1>1 DEF Ledger!ledger, Gone

(* Every step of the service is a step of the ledger, or invisible. *)
LEMMA LedgerStep ==
    ASSUME IInv, [Next]_vars
    PROVE  [Ledger!Next]_(Ledger!ledger)
<1> USE DEF IInv, ProcessTypeOK, QueueTypeOK, apiVars, workerVars, clientVars,
        queueVars
<1>1. CASE UNCHANGED <<status, prompt, response, error>>
  BY <1>1, LedgerStutter
<1>2. CASE OpenQueue /\ UNCHANGED <<prompt, response, error>>
  BY <1>2, Opening, LedgerStutter
<1>3. ASSUME NEW c \in Clients, PutPrompt(c) PROVE Ledger!Next
  <2> DEFINE p == PromptsOf[c][Len(ids[c]) + 1]
  <2>1. p \in Prompts
    BY <1>3, Putting DEF PutRow, PutInv
  <2>2. lastId + 1 \in Ids /\ status[lastId + 1] = "absent"
    BY <1>3, Putting DEF PutRow, put, RowsInv, Ids
  <2>3. prompt[lastId + 1] = None /\ \A j \in Ids : j < lastId + 1 => prompt[j] #
  None
    BY <2>2 DEF RowsInv, Ids
  <2>4. /\ prompt' = [prompt EXCEPT ![lastId + 1] = p]
        /\ UNCHANGED <<response, error>>
    BY <1>3, Putting DEF PutRow, put
  <2>5. Gone' = Gone
    BY <1>3, <2>2, Putting DEF PutRow, put, Gone
  <2>6. Ledger!Accept(lastId + 1, p)
    BY <2>2, <2>3, <2>4, <2>5 DEF Ledger!Accept, Ledger!Ids, Ids, Gone
  <2> HIDE DEF p
  <2> QED BY <2>1, <2>2, <2>6 DEF Ledger!Next, Ledger!Ids, Ids
<1>4. ASSUME NEW n \in 1 .. BatchSize, get(FirstReady(n))
      PROVE  UNCHANGED Ledger!ledger
  BY <1>4, LedgerStutter DEF get, FirstReady, ReadyRows
<1>5. ASSUME NEW w \in Workers, FinishGetId(w) PROVE UNCHANGED Ledger!ledger
  BY <1>5, LedgerStutter DEF FinishGetId, get_id, get_id_raises
<1>6. ASSUME NEW w \in Workers, NEW outcome \in Outcomes, FinishUpdate(w, outcome)
      PROVE  Ledger!Next
  <2>1. First(w) \in Ids /\ work[w][First(w)] = prompt[First(w)]
        /\ prompt[First(w)] # None
    BY <1>6, FirstInBatch DEF FinishUpdate, WorkInv, Holding, Finishing
  <2>2. First(w) \notin Gone
    BY <1>6 DEF FinishUpdate, WorkInv, Gone
  <2>3. \/ /\ response' = [response EXCEPT ![First(w)] = prompt[First(w)]]
           /\ error' = error
        \/ /\ error' = [error EXCEPT ![First(w)] = TRUE]
           /\ response' = response
    BY <1>6, <2>1 DEF FinishUpdate, update
  <2>4. Gone' = Gone /\ prompt' = prompt
    BY <1>6 DEF FinishUpdate, update, Gone
  <2>5. Ledger!Answer(First(w))
    BY <2>1, <2>2, <2>3, <2>4 DEF Ledger!Answer, Gone
  <2> QED BY <2>1, <2>5 DEF Ledger!Next, Ledger!Ids, Ids
<1>7. ASSUME NEW w \in Workers, FinishAck(w) PROVE UNCHANGED Ledger!ledger
  BY <1>7, LedgerStutter DEF FinishAck, ack, WorkInv
<1>8. CASE ClearAcked
  <2>1. Gone' = Gone \cup Clearable /\ UNCHANGED <<prompt, response, error>>
    BY <1>8 DEF ClearAcked, clear_acked_data, Gone, Clearable
  <2>2. ASSUME NEW i \in Clearable
        PROVE  /\ i \in Ids /\ i \notin Gone /\ Answered(i)
               /\ Cardinality({j \in Ids : j > i /\ Answered(j)}) >= KeepLatest
    <3>1. i \in Ids /\ status[i] = "acked" /\ Cardinality(AckedAfter(i)) >=
    KeepLatest
      BY DEF Clearable
    <3>2. i \notin Gone /\ Answered(i)
      BY <3>1 DEF Gone, AckedRowsAreAnswered
    <3> DEFINE S == {j \in Ids : j > i /\ Answered(j)}
    <3>3. IsFiniteSet(Ids)
      BY FS_Interval DEF Ids
    <3>4. IsFiniteSet(S) /\ Cardinality(S) \in Nat
      BY <3>3, FS_Subset, FS_CardinalityType
    <3>5. AckedAfter(i) \subseteq S
      BY DEF AckedAfter, AckedRowsAreAnswered
    <3>6. /\ Cardinality(AckedAfter(i)) <= Cardinality(S)
          /\ Cardinality(AckedAfter(i)) \in Nat
      BY <3>4, <3>5, FS_Subset, FS_CardinalityType
    <3> HIDE DEF S
    <3>7. Cardinality(S) >= KeepLatest
      BY <3>1, <3>4, <3>6
    <3> QED BY <3>1, <3>2, <3>7 DEF S
  <2>3. PICK S : S = Clearable
    OBVIOUS
  <2>4. \A i \in S : /\ i \notin Gone /\ Ledger!Done(i)
                    /\ Ledger!Cardinality({j \in Ledger!Ids : j > i /\
                    Ledger!Done(j)})
                          >= KeepLatest
    BY <2>2, <2>3, Zenon
    DEF Ledger!Done, Ledger!Ids, Ids, Answered, Ledger!Cardinality, Cardinality
  <2>5. Ledger!Forget(S)
    BY <2>1, <2>3, <2>4, Zenon DEF Ledger!Forget, Gone
  <2>6. S \in SUBSET Ledger!Ids
    BY <2>3 DEF Clearable, Ledger!Ids, Ids
  <2> QED BY <2>5, <2>6, Zenon DEF Ledger!Next
<1> QED
  BY <1>1, <1>2, <1>3, <1>4, <1>5, <1>6, <1>7, <1>8
  DEF Next, ClientNext, WorkerNext, FaultNext, vars, Submit, Generate, Embed,
      Enter, SubmitFails,
      PollPass, PollReply, CheckReply, Repost, RepostFails, AskForWork,
      NoWorkToDo, GetWork, PostResults, PostFails, FinishGetIdRaises,
      OrphanGetWork, ApiRestart, StepRaises, KillWorker, ApiCrash

(* The service with its crashes, second deliveries and late finish_work    *)
(* calls implements the request ledger.                                    *)
THEOREM Refinement == Spec => ImplementsLedger
<1>1. Init => Ledger!Init
  BY DEF Init, QueueInit, Ledger!Init, Ledger!Ids, Ids
<1>2. IInv /\ [Next]_vars => [Ledger!Next]_(Ledger!ledger)
  BY LedgerStep
<1> QED BY <1>1, <1>2, Invariance, PTL DEF Spec, ImplementsLedger, Ledger!Spec

=============================================================================
