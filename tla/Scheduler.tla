------------------------------ MODULE Scheduler ------------------------------
(***************************************************************************)
(* vLLM's engine loop as ScalarLM runs it: LLMEngine.step calls the        *)
(* Scheduler (_schedule_default: fcfs, no chunked prefill, no prefix       *)
(* caching, synchronous output processing), the worker moves and writes    *)
(* the KV cache, and the output processor appends, forks and frees.        *)
(* Requests are added and aborted between two steps.  One action is one    *)
(* iteration of a loop of the step; pc says which loop.                    *)
(***************************************************************************)
EXTENDS Integers, Sequences, SequencesExt, FiniteSets, FiniteSetsExt

CONSTANTS
    NumGroups,      \* bound: requests, numbered in the order of arrival
    MaxAborts,      \* bound: requests aborted
    BlockSize,      \* block_size, tokens
    MaxLoras,       \* max_loras
    Configs         \* the configurations the engine may be started with

ASSUME SchedulerAssumption ==
    /\ NumGroups \in Nat /\ MaxAborts \in Nat
    /\ BlockSize \in Nat \ {0} /\ MaxLoras \in Nat \ {0}
    /\ \A c \in Configs :
        /\ c.num_gpu_blocks \in Nat \ {0} /\ c.num_cpu_blocks \in Nat
        /\ c.watermark_blocks \in Nat /\ c.sliding_window \in Nat
        /\ c.max_model_len \in Nat \ {0} /\ c.max_num_seqs \in Nat \ {0}
        /\ c.max_num_batched_tokens >= c.max_model_len
        /\ c.max_num_batched_tokens >= c.max_num_seqs
        /\ c.max_model_len <= c.num_gpu_blocks * BlockSize
        /\ \A r \in c.requests :
            /\ r.prompt \in Nat \ {0} /\ r.max_tokens \in Nat \ {0}
            /\ r.best_of \in 1 .. 2 /\ r.best_of <= c.max_num_seqs
            /\ r.lora \in Nat /\ r.ignore_eos \in BOOLEAN /\ r.pooling \in BOOLEAN
            /\ (r.pooling \/ c.sliding_window # 0) => r.best_of = 1

Groups == 1 .. NumGroups
Seqs == Groups \X (1 .. 2)

VARIABLES
    conf,       \* the configuration, and the requests its clients send
    req,        \* the request of each group added so far, in order
    waiting,    \* Scheduler.waiting
    running,    \* Scheduler.running
    swapped,    \* Scheduler.swapped
    seq,        \* Sequence: status, tokens, computed tokens and stage
    bm,         \* BlockSpaceManagerV2
    kv,         \* what each slot of each block of the cache holds
    out,        \* the local variables of the step
    pc,         \* the loop of the step that runs, or why the engine died
    answered,   \* groups whose final output was returned
    aborted     \* groups aborted by their client

vars == <<conf, req, waiting, running, swapped, seq, bm, kv, out, pc, answered, aborted>>

NumGpu           == conf.num_gpu_blocks
NumCpu           == conf.num_cpu_blocks
Watermark        == conf.watermark_blocks
SlidingWindow    == conf.sliding_window      \* in tokens, 0 for None
MaxModelLen      == conf.max_model_len
MaxBatchedTokens == conf.max_num_batched_tokens
MaxNumSeqs       == conf.max_num_seqs

INSTANCE BlockTables

Unfinished == {"WAITING", "RUNNING", "SWAPPED"}
Empty == <<>>

(* A group's sequences in order: the parent, and the child that the first  *)
(* sampling adds when best_of is 2.                                        *)
SeqsOf(g) == SelectSeq(<<<<g, 1>>, <<g, 2>>>>, LAMBDA s : seq[s].status # "none")

get_seqs(g, status) == SelectSeq(SeqsOf(g), LAMBDA s : seq[s].status = status)

UnfinishedSeqs(g) == SelectSeq(SeqsOf(g), LAMBDA s : seq[s].status \in Unfinished)

is_finished(g) == UnfinishedSeqs(g) = <<>>

is_prefill(g) == seq[<<g, 1>>].stage = "PREFILL"

get_max_num_running_seqs(g) ==
    IF req[g].best_of > Len(SeqsOf(g)) THEN req[g].best_of ELSE Len(UnfinishedSeqs(g))

NewTokens(s) == IF seq[s].stage = "DECODE" THEN 1 ELSE seq[s].len - seq[s].computed

(* _get_num_new_tokens, which chunks nothing here. *)
get_num_new_tokens(g, status) ==
    FoldLeft(LAMBDA n, s : n + NewTokens(s), 0, get_seqs(g, status))

Lens == [s \in Seqs |-> seq[s].len]

SetStatus(ss, status) ==
    [s \in Seqs |-> IF s \in ToSet(ss) THEN [seq[s] EXCEPT !.status = status] ELSE seq[s]]

NoSeq == [status |-> "none", len |-> 0, computed |-> 0, stage |-> "PREFILL"]

(* The local variables of schedule() and of its loops.  tokens and seqs    *)
(* are the budget, with the requests that are counted in each.             *)
NoOut ==
    [tokens |-> 0, tokenIds |-> {}, seqs |-> 0, seqIds |-> {}, loras |-> {},
     leftover |-> <<>>, prefills |-> <<>>, decodes |-> <<>>, swapins |-> <<>>,
     preempted |-> <<>>, swappedOut |-> <<>>, ignored |-> <<>>, current |-> 0,
     toSwapIn |-> <<>>, toSwapOut |-> <<>>, toCopy |-> <<>>,
     batch |-> <<>>, finished |-> <<>>]

Init ==
    /\ conf \in Configs
    /\ req = <<>>
    /\ waiting = <<>> /\ running = <<>> /\ swapped = <<>>
    /\ seq = [s \in Seqs |-> NoSeq]
    /\ bm = NewManager
    /\ kv = [i \in BlockIds |-> [j \in 1 .. BlockSize |-> Empty]]
    /\ out = NoOut
    /\ pc = "idle"
    /\ answered = {} /\ aborted = {}

-----------------------------------------------------------------------------
(* add_request and add_seq_group. *)
AddRequest(r) ==
    /\ pc = "idle"
    /\ Len(req) < NumGroups
    /\ req' = Append(req, r)
    /\ waiting' = Append(waiting, Len(req'))
    /\ seq' = [seq EXCEPT ![<<Len(req'), 1>>] =
                    [NoSeq EXCEPT !.status = "WAITING", !.len = r.prompt]]
    /\ UNCHANGED <<conf, running, swapped, bm, kv, out, pc, answered, aborted>>

MutantAbortSeqGroup(g) ==
    /\ pc = "idle"
    /\ Cardinality(aborted) < MaxAborts
    /\ g \in ToSet(waiting) \cup ToSet(running) \cup ToSet(swapped)
    /\ waiting' = SelectSeq(waiting, LAMBDA x : x # g)
    /\ running' = SelectSeq(running, LAMBDA x : x # g)
    /\ swapped' = SelectSeq(swapped, LAMBDA x : x # g)
    /\ seq' = SetStatus(UnfinishedSeqs(g), "ABORTED")
    /\ aborted' = aborted \cup {g}
    /\ UNCHANGED <<conf, req, bm, kv, out, pc, answered>>

(* abort_seq_group *)
AbortSeqGroup(g) ==
    /\ pc = "idle"
    /\ Cardinality(aborted) < MaxAborts
    /\ g \in ToSet(waiting) \cup ToSet(running) \cup ToSet(swapped)
    /\ waiting' = SelectSeq(waiting, LAMBDA x : x # g)
    /\ running' = SelectSeq(running, LAMBDA x : x # g)
    /\ swapped' = SelectSeq(swapped, LAMBDA x : x # g)
    /\ seq' = SetStatus(UnfinishedSeqs(g), "ABORTED")
    /\ bm' = FoldLeft(free, bm, UnfinishedSeqs(g))
    /\ aborted' = aborted \cup {g}
    /\ UNCHANGED <<conf, req, kv, out, pc, answered>>

(* step is called while the scheduler has a group: _schedule_default       *)
(* counts the running groups in the budget, and looks at the waiting queue *)
(* only when nothing is swapped out.                                       *)
BeginStep ==
    /\ pc = "idle"
    /\ waiting \o running \o swapped # <<>>
    /\ out' = [NoOut EXCEPT
                !.seqs = FoldLeft(LAMBDA n, g : n + get_max_num_running_seqs(g), 0, running),
                !.seqIds = ToSet(running),
                !.loras = {req[g].lora : g \in ToSet(running)} \ {0}]
    /\ pc' = IF swapped = <<>> THEN "prefill" ELSE "running"
    /\ UNCHANGED <<conf, req, waiting, running, swapped, seq, bm, kv, answered, aborted>>

AddTokens(o, g, n) ==
    IF g \in o.tokenIds THEN o
    ELSE [o EXCEPT !.tokens = @ + n, !.tokenIds = @ \cup {g}]

AddSeqs(o, g, n) ==
    IF g \in o.seqIds THEN o
    ELSE [o EXCEPT !.seqs = @ + n, !.seqIds = @ \cup {g}]

SubtractTokens(o, g, n) ==
    IF g \in o.tokenIds THEN [o EXCEPT !.tokens = @ - n, !.tokenIds = @ \ {g}] ELSE o

SubtractSeqs(o, g, n) ==
    IF g \in o.seqIds THEN [o EXCEPT !.seqs = @ - n, !.seqIds = @ \ {g}] ELSE o

can_schedule(o, tokens, seqs) ==
    o.tokens + tokens <= MaxBatchedTokens /\ o.seqs + seqs <= MaxNumSeqs

NoSpaceForLora(o, g) ==
    /\ req[g].lora > 0
    /\ req[g].lora \notin o.loras
    /\ Cardinality(o.loras) >= MaxLoras

AddLora(o, g) == [o EXCEPT !.loras = @ \cup ({req[g].lora} \ {0})]

-----------------------------------------------------------------------------
(* _schedule_prefills, for the group at the head of waiting. *)
PromptTokens(g) == get_num_new_tokens(g, "WAITING")

PromptStatus(g) ==
    IF PromptTokens(g) > Least(MaxModelLen, MaxBatchedTokens) THEN "NEVER"
    ELSE can_allocate(bm, PromptTokens(g))

(* A prompt too long for the model or for the cache is dropped. *)
IgnorePrompt ==
    /\ pc = "prefill" /\ waiting # <<>>
    /\ PromptStatus(Head(waiting)) = "NEVER"
    /\ seq' = SetStatus(get_seqs(Head(waiting), "WAITING"), "IGNORED")
    /\ out' = [out EXCEPT !.ignored = Append(@, Head(waiting))]
    /\ waiting' = Tail(waiting)
    /\ UNCHANGED <<conf, req, running, swapped, bm, kv, pc, answered, aborted>>

SkipPromptOfLora ==
    /\ pc = "prefill" /\ waiting # <<>>
    /\ PromptStatus(Head(waiting)) = "OK"
    /\ NoSpaceForLora(out, Head(waiting))
    /\ out' = [out EXCEPT !.leftover = <<Head(waiting)>> \o @]
    /\ waiting' = Tail(waiting)
    /\ UNCHANGED <<conf, req, running, swapped, seq, bm, kv, pc, answered, aborted>>

CanPrefill(g) ==
    /\ PromptStatus(g) = "OK"
    /\ ~NoSpaceForLora(out, g)
    /\ can_schedule(out, PromptTokens(g), get_max_num_running_seqs(g))

(* _allocate_and_set_running; the waiting sequences are one sequence. *)
SchedulePrefill ==
    /\ pc = "prefill" /\ waiting # <<>>
    /\ CanPrefill(Head(waiting))
    /\ LET g == Head(waiting)
           ss == get_seqs(g, "WAITING")
           b == allocate(bm, ss[1], PromptTokens(g))
       IN  /\ bm' = b
           /\ seq' = SetStatus(ss, "RUNNING")
           /\ out' = [AddSeqs(AddTokens(AddLora(out, g), g, PromptTokens(g)),
                              g, get_max_num_running_seqs(g))
                        EXCEPT !.prefills = Append(@, g)]
           /\ pc' = IF Len(ss) # 1 \/ b.raised THEN "dead" ELSE pc
    /\ waiting' = Tail(waiting)
    /\ UNCHANGED <<conf, req, running, swapped, kv, answered, aborted>>

MutantEndPrefills ==
    /\ pc = "prefill"
    /\ waiting # <<>> =>
        LET g == Head(waiting)
        IN  \/ PromptStatus(g) = "LATER"
            \/ /\ PromptStatus(g) = "OK"
               /\ ~NoSpaceForLora(out, g)
               /\ ~CanPrefill(g)
    /\ out' = [out EXCEPT !.leftover = <<>>]
    /\ pc' = IF out.prefills = <<>> THEN "running" ELSE "merge"
    /\ UNCHANGED <<conf, req, waiting, running, swapped, seq, bm, kv, answered, aborted>>

(* The loop ends at the first group that must wait; the groups that were   *)
(* passed over go back to the front.                                       *)
EndPrefills ==
    /\ pc = "prefill"
    /\ waiting # <<>> =>
        LET g == Head(waiting)
        IN  \/ PromptStatus(g) = "LATER"
            \/ /\ PromptStatus(g) = "OK"
               /\ ~NoSpaceForLora(out, g)
               /\ ~CanPrefill(g)
    /\ waiting' = Reverse(out.leftover) \o waiting
    /\ out' = [out EXCEPT !.leftover = <<>>]
    /\ pc' = IF out.prefills = <<>> THEN "running" ELSE "merge"
    /\ UNCHANGED <<conf, req, running, swapped, seq, bm, kv, answered, aborted>>

-----------------------------------------------------------------------------
(* _schedule_running takes the groups from the head of running. *)
TakeRunning ==
    /\ pc = "running" /\ out.current = 0 /\ running # <<>>
    /\ out' = [out EXCEPT !.current = Head(running)]
    /\ running' = Tail(running)
    /\ UNCHANGED <<conf, req, waiting, swapped, seq, bm, kv, pc, answered, aborted>>

can_append_slots(g) ==
    FoldLeft(LAMBDA n, s : n + Touched(bm, s, seq[s].len), 0, get_seqs(g, "RUNNING"))
        <= Len(bm.gpu)

(* _append_slots, for the group's running sequences. *)
AppendSlots(b, g, status) ==
    FoldLeft(LAMBDA acc, s :
                LET r == append_slots(acc.b, s, seq[s].len, seq[s].computed)
                IN  [b |-> r.b, cows |-> acc.cows \o r.cows],
             [b |-> b, cows |-> <<>>], get_seqs(g, status))

ScheduleDecode ==
    /\ pc = "running" /\ out.current # 0
    /\ can_append_slots(out.current)
    /\ LET g == out.current
           r == AppendSlots(bm, g, "RUNNING")
       IN  /\ bm' = r.b
           /\ out' = [AddLora(AddTokens(out, g, get_num_new_tokens(g, "RUNNING")), g)
                        EXCEPT !.decodes = Append(@, g), !.current = 0,
                               !.toCopy = @ \o r.cows]
           /\ pc' = IF r.b.raised \/ is_prefill(g) THEN "dead" ELSE pc
    /\ UNCHANGED <<conf, req, waiting, running, swapped, seq, kv, answered, aborted>>

(* The lowest-priority group that still runs, or the group itself. *)
Victim == IF running = <<>> THEN out.current ELSE Last(running)

BudgetAfterPreemption(o) ==
    LET g == o.current
        t == SubtractTokens(o, g, get_num_new_tokens(g, "RUNNING"))
    IN  [SubtractSeqs(t, g, get_max_num_running_seqs(g)) EXCEPT
            !.loras = @ \ {req[g].lora},
            !.current = IF running = <<>> THEN 0 ELSE g]

Preempting ==
    /\ pc = "running" /\ out.current # 0
    /\ ~can_append_slots(out.current)
    /\ running' = IF running = <<>> THEN <<>> ELSE Front(running)
    /\ UNCHANGED <<conf, req, waiting, swapped, kv, answered, aborted>>

(* reset_state_for_recompute *)
ResetForRecompute(s) ==
    [seq EXCEPT ![s].status = "WAITING", ![s].computed = 0, ![s].stage = "PREFILL"]

PreemptByRecompute ==
    /\ Preempting
    /\ get_max_num_running_seqs(Victim) = 1
    /\ LET s == Head(get_seqs(Victim, "RUNNING"))
       IN  /\ bm' = free(bm, s)
           /\ seq' = ResetForRecompute(s)
    /\ out' = [BudgetAfterPreemption(out) EXCEPT !.preempted = Append(@, Victim)]
    /\ UNCHANGED pc

(* A group of several sequences is swapped out; without CPU blocks the     *)
(* RuntimeError ends the engine.                                           *)
PreemptBySwap ==
    /\ Preempting
    /\ get_max_num_running_seqs(Victim) > 1
    /\ LET ss == get_seqs(Victim, "RUNNING")
           r == swap(bm, ss, Cpu)
           fits == can_swap(bm, ss, Lens, Cpu) = "OK"
       IN  /\ bm' = IF fits THEN r.b ELSE bm
           /\ seq' = IF fits THEN SetStatus(ss, "SWAPPED") ELSE seq
           /\ out' = [BudgetAfterPreemption(out) EXCEPT
                        !.swappedOut = Append(@, Victim), !.toSwapOut = @ \o r.pairs]
           /\ pc' = IF fits THEN pc ELSE "dead"

EndRunning ==
    /\ pc = "running" /\ out.current = 0 /\ running = <<>>
    /\ pc' = IF out.preempted \o out.swappedOut = <<>> THEN "swapped" ELSE "merge"
    /\ UNCHANGED <<conf, req, waiting, running, swapped, seq, bm, kv, out, answered, aborted>>

-----------------------------------------------------------------------------
(* _schedule_swapped, for the group at the head of swapped. *)
SwapInStatus(g) == can_swap(bm, get_seqs(g, "SWAPPED"), Lens, Gpu)

(* A group that the GPU cannot hold fails; its CPU blocks are not freed. *)
IgnoreSwapped ==
    /\ pc = "swapped" /\ swapped # <<>>
    /\ SwapInStatus(Head(swapped)) = "NEVER"
    /\ seq' = SetStatus(SeqsOf(Head(swapped)), "IGNORED")
    /\ out' = [out EXCEPT !.ignored = Append(@, Head(swapped))]
    /\ swapped' = Tail(swapped)
    /\ UNCHANGED <<conf, req, waiting, running, bm, kv, pc, answered, aborted>>

CanSwapIn(g) ==
    can_schedule(out, get_num_new_tokens(g, "SWAPPED"), get_max_num_running_seqs(g))

(* The group is passed over when its adapter has no place, or swapped in:  *)
(* _swap_in and _append_slots.                                             *)
ScheduleSwapIn ==
    /\ pc = "swapped" /\ swapped # <<>>
    /\ SwapInStatus(Head(swapped)) = "OK"
    /\ LET g == Head(swapped)
           r == swap(bm, get_seqs(g, "SWAPPED"), Gpu)
           a == AppendSlots(r.b, g, "SWAPPED")
           n == get_num_new_tokens(g, "SWAPPED")
       IN  IF NoSpaceForLora(out, g)
           THEN /\ out' = [out EXCEPT !.leftover = <<g>> \o @]
                /\ UNCHANGED <<seq, bm, pc>>
           ELSE /\ CanSwapIn(g)
                /\ bm' = a.b
                /\ seq' = SetStatus(get_seqs(g, "SWAPPED"), "RUNNING")
                /\ out' = [AddSeqs(AddTokens(AddLora(out, g), g, n), g, get_max_num_running_seqs(g))
                             EXCEPT !.swapins = Append(@, g),
                                    !.toSwapIn = @ \o r.pairs, !.toCopy = @ \o a.cows]
                /\ pc' = IF a.b.raised \/ is_prefill(g) THEN "dead" ELSE pc
    /\ swapped' = Tail(swapped)
    /\ UNCHANGED <<conf, req, waiting, running, kv, answered, aborted>>

EndSwapped ==
    /\ pc = "swapped"
    /\ swapped # <<>> =>
        LET g == Head(swapped)
        IN  \/ SwapInStatus(g) = "LATER"
            \/ /\ SwapInStatus(g) = "OK"
               /\ ~NoSpaceForLora(out, g)
               /\ ~CanSwapIn(g)
    /\ swapped' = Reverse(out.leftover) \o swapped
    /\ out' = [out EXCEPT !.leftover = <<>>]
    /\ pc' = "merge"
    /\ UNCHANGED <<conf, req, waiting, running, seq, bm, kv, answered, aborted>>

-----------------------------------------------------------------------------
(* The batch, sorted by LoRA and request when it has a LoRA. *)
Batch ==
    LET b == out.prefills \o out.decodes \o out.swapins
    IN  IF \A i \in DOMAIN b : req[b[i]].lora = 0 THEN b
        ELSE SetToSortSeq(ToSet(b), LAMBDA g, h :
                \/ req[g].lora < req[h].lora
                \/ req[g].lora = req[h].lora /\ g < h)

(* The assertions of _schedule_default, SchedulerOutputs and schedule(). *)
AssertionsHold ==
    /\ out.tokens <= MaxBatchedTokens
    /\ out.seqs <= MaxNumSeqs
    /\ ~(out.toSwapIn # <<>> /\ out.toSwapOut # <<>>)
    /\ \A g \in ToSet(Batch) : is_prefill(g) => Len(SeqsOf(g)) = 1

(* The queues are put together again and the batch goes to the worker. *)
Merge ==
    /\ pc = "merge"
    /\ waiting' = Reverse(out.preempted) \o waiting
    /\ running' = running \o out.prefills \o out.decodes \o out.swapins
    /\ swapped' = swapped \o out.swappedOut
    /\ out' = [out EXCEPT !.batch = Batch]
    /\ pc' = IF AssertionsHold THEN "execute" ELSE "dead"
    /\ UNCHANGED <<conf, req, seq, bm, kv, answered, aborted>>

(* What identifies the key and value of the token at a position: the       *)
(* prompt is common to the group's sequences.                              *)
Token(s, p) == IF p <= req[s[1]].prompt THEN <<s[1], 1, p>> ELSE <<s[1], s[2], p>>

Slot(s, p) ==
    <<bm.table[s][((p - 1) \div BlockSize) + 1], ((p - 1) % BlockSize) + 1>>

(* The blocks of one list are moved one after the other. *)
Moved(c, pairs) == FoldLeft(LAMBDA acc, q : [acc EXCEPT ![q[2]] = acc[q[1]]], c, pairs)

MutantCacheOps(c) == Moved(Moved(c, out.toSwapIn), out.toSwapOut)

(* execute_worker: swap in, swap out, copy. *)
CacheOps(c) == Moved(Moved(Moved(c, out.toSwapIn), out.toSwapOut), out.toCopy)

(* The tokens from the computed ones to the end of the sequence. *)
WrittenBy(s) == {<<Slot(s, p), Token(s, p)>> : p \in seq[s].computed + 1 .. seq[s].len}

BatchSeqs == UNION {ToSet(get_seqs(g, "RUNNING")) : g \in ToSet(out.batch)}

Written(c) ==
    LET writes == UNION {WrittenBy(s) : s \in BatchSeqs}
    IN  [i \in BlockIds |-> [j \in 1 .. BlockSize |->
            IF \E w \in writes : w[1] = <<i, j>>
            THEN (CHOOSE w \in writes : w[1] = <<i, j>>)[2] ELSE c[i][j]]]

(* What nobody's table reaches is forgotten, to keep the states few. *)
Reachable(c, b) ==
    [i \in BlockIds |-> IF b.ref[i] = 0 THEN [j \in 1 .. BlockSize |-> Empty] ELSE c[i]]

ExecuteModel ==
    /\ pc = "execute"
    /\ kv' = Reachable(Written(CacheOps(kv)), bm)
    /\ pc' = "output"
    /\ UNCHANGED <<conf, req, waiting, running, swapped, seq, bm, out, answered, aborted>>

-----------------------------------------------------------------------------
(* update_num_computed_tokens, with the token_chunk_size of the schedule. *)
Computed(g) ==
    LET chunk == IF g \in ToSet(out.prefills) THEN get_num_new_tokens(g, "RUNNING") ELSE 1
    IN  [s \in Seqs |->
            IF s[1] = g /\ seq[s].status \in Unfinished
            THEN [seq[s] EXCEPT !.computed = @ + chunk,
                    !.stage = IF seq[s].computed + chunk = seq[s].len THEN "DECODE" ELSE @]
            ELSE seq[s]]

(* maybe_stop_sequence: eos says that the model sampled a stop token. *)
MayStop(q, g, eos) ==
    IF eos THEN [q EXCEPT !.status = "STOPPED"]
    ELSE IF q.len > MaxModelLen \/ q.len - req[g].prompt = req[g].max_tokens
    THEN [q EXCEPT !.status = "LENGTH"]
    ELSE q

Sampled(q, g, eos) == MayStop([q EXCEPT !.len = @ + 1], g, eos)

OutputDone(seq1) ==
    LET g == Head(out.batch)
        done == \A i \in 1 .. 2 : seq1[<<g, i>>].status \notin Unfinished
    IN  out' = [out EXCEPT !.batch = Tail(@),
                           !.finished = IF done THEN Append(@, g) ELSE @]

(* One token for each running sequence of the group; the finished ones are *)
(* freed.  The child of a fork shares the parent's blocks, and is forked   *)
(* before the parent is freed.                                             *)
ProcessOutput ==
    /\ pc = "output" /\ out.batch # <<>>
    /\ LET g == Head(out.batch)
           c == Computed(g)
           parent == <<g, 1>>
           child == <<g, 2>>
           forks == req[g].best_of > Len(SeqsOf(g))
           ss == ToSet(get_seqs(g, "RUNNING")) \cup (IF forks THEN {child} ELSE {})
       IN  /\ ~req[g].pooling
           /\ \E eos \in [ss -> IF req[g].ignore_eos THEN {FALSE} ELSE BOOLEAN] :
                LET new == [s \in Seqs |->
                        IF s \in ss
                        THEN Sampled(IF forks THEN c[parent] ELSE c[s], g, eos[s])
                        ELSE c[s]]
                    b == IF forks /\ new[child].status \in Unfinished
                         THEN fork(bm, parent, child) ELSE bm
                    over == SelectSeq(<<parent, child>>, LAMBDA s :
                                s \in ss /\ new[s].status \notin Unfinished)
                IN  /\ seq' = new
                    /\ bm' = FoldLeft(free, b, over)
                    /\ OutputDone(new)
    /\ UNCHANGED <<conf, req, waiting, running, swapped, kv, pc, answered, aborted>>

(* The embedding of a pooling request is the end of it. *)
ProcessEmbedding ==
    /\ pc = "output" /\ out.batch # <<>>
    /\ LET g == Head(out.batch)
           new == [Computed(g) EXCEPT ![<<g, 1>>].status = "STOPPED"]
       IN  /\ req[g].pooling
           /\ seq' = new
           /\ OutputDone(new)
    /\ UNCHANGED <<conf, req, waiting, running, swapped, bm, kv, pc, answered, aborted>>

(* free_finished_seq_groups, when a group of the batch finished, and the   *)
(* final outputs.                                                          *)
FinishStep ==
    /\ pc = "output" /\ out.batch = <<>>
    /\ LET over == SelectSeq(running, is_finished)
       IN  IF out.finished = <<>> THEN UNCHANGED <<running, bm>>
           ELSE /\ running' = SelectSeq(running, LAMBDA g : ~is_finished(g))
                /\ bm' = FoldLeft(LAMBDA b, g : FoldLeft(free, b, SeqsOf(g)), bm, over)
    /\ answered' = answered \cup ToSet(out.finished) \cup ToSet(out.ignored)
    /\ out' = NoOut
    /\ pc' = "idle"
    /\ UNCHANGED <<conf, req, waiting, swapped, seq, kv, aborted>>

Step ==
    \/ BeginStep
    \/ IgnorePrompt \/ SkipPromptOfLora \/ SchedulePrefill \/ EndPrefills
    \/ TakeRunning \/ ScheduleDecode \/ PreemptByRecompute \/ PreemptBySwap \/ EndRunning
    \/ IgnoreSwapped \/ ScheduleSwapIn \/ EndSwapped
    \/ Merge \/ ExecuteModel \/ ProcessOutput \/ ProcessEmbedding \/ FinishStep

Next ==
    \/ \E r \in conf.requests : AddRequest(r)
    \/ \E g \in Groups : AbortSeqGroup(g)
    \/ Step

(* The engine loop takes steps while it has a request.  This is            *)
(* WF_vars(Step) with what enables a step written out, which TLC evaluates *)
(* much faster than ENABLED of the swaps.                                  *)
StepIsEnabled ==
    \/ pc \notin {"idle", "dead"}
    \/ pc = "idle" /\ waiting \o running \o swapped # <<>>

Spec == Init /\ [][Next]_vars /\ ([]<>~StepIsEnabled \/ []<><<Step>>_vars)

-----------------------------------------------------------------------------
(* Types of the queues, the sequences and the blocks. *)
TypeOK ==
    /\ conf \in Configs /\ req \in Seq(conf.requests) /\ Len(req) <= NumGroups
    /\ waiting \in Seq(Groups) /\ running \in Seq(Groups) /\ swapped \in Seq(Groups)
    /\ seq \in [Seqs -> [status : Unfinished \cup {"none", "STOPPED", "LENGTH", "IGNORED", "ABORTED"},
                         len : Nat, computed : Nat, stage : {"PREFILL", "DECODE"}]]
    /\ \A s \in Seqs : seq[s].computed <= seq[s].len
    /\ bm.ref \in [BlockIds -> Nat]
    /\ \A s \in Seqs : ToSet(bm.table[s]) \subseteq BlockIds
    /\ answered \cup aborted \subseteq Groups

(* Between two steps a group that is not finished is in exactly one queue, *)
(* once, with its sequences in that queue's state, and a finished one is   *)
(* in none: what the loops pop, pass over, preempt and merge is neither    *)
(* lost nor scheduled twice.                                               *)
QueuesPartition ==
    pc = "idle" =>
        LET queue == waiting \o running \o swapped
            state == [g \in ToSet(queue) |->
                        IF g \in ToSet(waiting) THEN "WAITING"
                        ELSE IF g \in ToSet(running) THEN "RUNNING" ELSE "SWAPPED"]
        IN  /\ Len(queue) = Cardinality(ToSet(queue))
            /\ ToSet(queue) = {g \in DOMAIN req : ~is_finished(g)}
            /\ \A g \in ToSet(queue) :
                    \A s \in ToSet(UnfinishedSeqs(g)) : seq[s].status = state[g]

(* Every block is free or counted once for each table that has it, in      *)
(* every state of a step.                                                  *)
BlocksAreCounted ==
    pc # "dead" =>
        /\ \A i \in BlockIds :
            bm.ref[i] = Cardinality({s \in Seqs : i # bm.null /\ i \in ToSet(bm.table[s])})
                            + (IF i = bm.null THEN 1 ELSE 0)
        /\ ToSet(bm.gpu \o bm.cpu) = {i \in BlockIds : bm.ref[i] = 0}
        /\ Len(bm.gpu \o bm.cpu) = Cardinality(ToSet(bm.gpu \o bm.cpu))

(* A sequence that finished, was aborted, or was preempted and waits, has  *)
(* no block of the GPU when the step is over.  (A swapped group that is    *)
(* dropped does keep its CPU blocks: IgnoreSwapped.)                       *)
FinishedIsFreed ==
    pc = "idle" =>
        \A s \in Seqs : seq[s].status \notin {"RUNNING", "SWAPPED"} =>
            \A i \in ToSet(bm.table[s]) : Device(i) = Cpu

(* Between two steps each slot of a sequence's table, on the GPU or on the *)
(* CPU, holds the sequence's own token: preemption, swapping, copy on      *)
(* write and the worker's order of moves never mix up two sequences, nor   *)
(* leave a token uncomputed that the next step reads.  With a sliding      *)
(* window only the window must be there.                                   *)
InWindow(s, p) == SlidingWindow = 0 \/ p > seq[s].len - SlidingWindow

CacheHoldsOwnTokens ==
    pc = "idle" =>
        \A s \in Seqs : seq[s].status \in {"RUNNING", "SWAPPED"} =>
            \A p \in 1 .. seq[s].computed :
                InWindow(s, p) => kv[Slot(s, p)[1]][Slot(s, p)[2]] = Token(s, p)

(* No step of the scheduler raises: what can_allocate, can_append_slots    *)
(* and can_swap promised is there when the blocks are taken, no assertion  *)
(* of the scheduler fails and no group that must be swapped finds the CPU  *)
(* full.                                                                   *)
EngineSurvives == pc # "dead"

(* Requests are handled in the order of arrival: whoever runs came before  *)
(* whoever waits, and both are in order, also after preemptions; unless    *)
(* adapters make a group pass over another one or groups are swapped.      *)
ArrivalOrder ==
    pc = "idle" /\ (\A g \in DOMAIN req : req[g].lora = 0 /\ req[g].best_of = 1) =>
        LET queue == running \o waiting
        IN  \A i, j \in DOMAIN queue : i < j => queue[i] < queue[j]

(* The groups that run and those swapped out never need more adapters than *)
(* max_loras between them: a group that is swapped in again always finds   *)
(* its adapter's place, and no batch needs more adapters than the worker   *)
(* can hold.                                                               *)
AdaptersFit ==
    pc = "idle" =>
        Cardinality({req[g].lora : g \in ToSet(running) \cup ToSet(swapped)} \ {0}) <= MaxLoras

(* Every request is answered, unless its client aborts it: no group waits, *)
(* or is preempted and recomputed, for ever.                               *)
EveryRequestIsAnswered ==
    \A g \in Groups : (g \in DOMAIN req) ~> (g \in answered \cup aborted)

\* The scheduler's books agree in every state, whatever is admitted, swapped,
\* recomputed, forked, ignored, aborted and finished: every unfinished request
\* is in one queue, counts and free lists match the tables, what has ended holds
\* no block of the GPU, equal requests keep the order of their arrival, no more
\* adapters are in use than there are slots, and no assertion of the code fails.
SchedulerIsConsistent ==
    /\ TypeOK
    /\ EngineSurvives
    /\ QueuesPartition
    /\ BlocksAreCounted
    /\ FinishedIsFreed
    /\ ArrivalOrder
    /\ AdaptersFit
=============================================================================
