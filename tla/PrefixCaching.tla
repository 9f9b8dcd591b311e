----------------------------- MODULE PrefixCaching -----------------------------
(***************************************************************************)
(* BlockSpaceManagerV2 with enable_prefix_caching: the block tables of     *)
(* sequences that share cached blocks by content, the trackers of what is  *)
(* computed and when it was accessed, and the steps of the engine that     *)
(* skip what is computed.  Which sequences a step schedules, and which it  *)
(* preempts, is left open within the rules of _schedule_default; the       *)
(* Scheduler module has its choices.                                       *)
(***************************************************************************)
EXTENDS Integers, Sequences, SequencesExt, FiniteSets, TLC

CONSTANTS
    NumBlocks,      \* num_gpu_blocks
    BlockSize,
    NumSeqs,        \* bound: sequences
    Prompts,        \* token sequences that clients send
    Tokens,         \* tokens that the model samples
    MaxLen,         \* max_model_len
    MaxSteps        \* bound: steps of the engine, which are also its clock

ASSUME PrefixAssumption ==
    /\ NumBlocks \in Nat \ {0} /\ BlockSize \in Nat \ {0}
    /\ NumSeqs \in Nat /\ MaxSteps \in Nat
    /\ MaxLen \in 1 .. NumBlocks * BlockSize
    /\ \A p \in Prompts : p \in Seq(Nat) /\ Len(p) \in 1 .. MaxLen

SeqIds == 1 .. NumSeqs

INSTANCE PrefixPool

VARIABLES
    pool,       \* PrefixCachingBlockAllocator
    seq,        \* status, tokens, table, and how many tokens the table has
    tracked,    \* ComputedBlocksTracker: computed ids and gap
    access,     \* LastAccessBlocksTracker, 0 for None
    kv,         \* the prefix that each slot of each block was computed from
    batch,      \* sequences scheduled in this step, in order
    cows,       \* copies of blocks for the worker
    prefilling, \* the step schedules prompts
    now,        \* the time of the step
    pc

vars == <<pool, seq, tracked, access, kv, batch, cows, prefilling, now, pc>>

NoSeq == [status |-> "none", toks |-> <<>>, table |-> <<>>, full |-> 0]
NoTrack == [ids |-> <<>>, gap |-> FALSE]
Live == {"WAITING", "RUNNING"}

Init ==
    /\ pool = NewPool
    /\ seq = [s \in SeqIds |-> NoSeq]
    /\ tracked = [s \in SeqIds |-> NoTrack]
    /\ access = [s \in SeqIds |-> 0]
    /\ kv = [b \in Blocks |-> [j \in 1 .. BlockSize |-> NoHash]]
    /\ batch = <<>> /\ cows = <<>>
    /\ prefilling = FALSE
    /\ now = 0
    /\ pc = "idle"

(* content_hash of the i-th block of s. *)
content_hash(s, i) ==
    IF i * BlockSize <= seq[s].full THEN SubSeq(seq[s].toks, 1, i * BlockSize) ELSE NoHash

AddRequest(s, prompt) ==
    /\ pc = "idle"
    /\ seq[s].status = "none"
    /\ \A t \in 1 .. s - 1 : seq[t].status # "none"
    /\ seq' = [seq EXCEPT ![s] = [NoSeq EXCEPT !.status = "WAITING", !.toks = prompt]]
    /\ UNCHANGED <<pool, tracked, access, kv, batch, cows, prefilling, now, pc>>

-----------------------------------------------------------------------------
(* free: the blocks get the sequence's access time, and go from first to   *)
(* last.                                                                   *)
Freed(p, s) ==
    LET table == seq[s].table
        marked == IF access[s] = 0 THEN p
                  ELSE FoldLeft(LAMBDA q, b : mark_accessed(q, b, access[s]), p, table)
    IN  FoldLeft(LAMBDA q, i : free_block_id(q, table[i], content_hash(s, i)),
                 marked, [i \in DOMAIN table |-> i])

Forget(s) ==
    /\ tracked' = [tracked EXCEPT ![s] = NoTrack]
    /\ access' = [access EXCEPT ![s] = 0]

(* abort_seq_group, between two steps. *)
Abort(s) ==
    /\ pc = "idle"
    /\ seq[s].status \in Live
    /\ pool' = Freed(pool, s)
    /\ seq' = [seq EXCEPT ![s] = [NoSeq EXCEPT !.status = "FINISHED"]]
    /\ Forget(s)
    /\ UNCHANGED <<kv, batch, cows, prefilling, now, pc>>

BeginStep ==
    /\ pc = "idle"
    /\ now < MaxSteps
    /\ \E s \in SeqIds : seq[s].status \in Live
    /\ now' = now + 1
    /\ pc' = "schedule"
    /\ UNCHANGED <<pool, seq, tracked, access, kv, batch, cows, prefilling>>

(* can_allocate and allocate, of a prompt or of a sequence to recompute.   *)
BlocksOf(n) == (n + BlockSize - 1) \div BlockSize

AllocatedBlock(p, toks, n) ==
    IF n <= Len(toks) THEN allocate_immutable_block(p, SubSeq(toks, 1, n)) ELSE AllocateId(p)

InTable(a, table) == [p |-> a.p, table |-> Append(table, a.b)]

Allocated(p, toks) ==
    FoldLeft(LAMBDA acc, i : InTable(AllocatedBlock(acc.p, toks, i * BlockSize), acc.table),
             [p |-> p, table |-> <<>>], [i \in 1 .. BlocksOf(Len(toks)) |-> i])

SchedulePrefill(s) ==
    /\ pc = "schedule"
    /\ batch = <<>> \/ prefilling
    /\ seq[s].status = "WAITING"
    /\ get_num_free_blocks(pool) >= BlocksOf(Len(seq[s].toks))
    /\ \E a \in {Allocated(pool, seq[s].toks)} :
           /\ pool' = a.p
           /\ seq' = [seq EXCEPT ![s].status = "RUNNING", ![s].table = a.table,
                                 ![s].full = Len(seq[s].toks)]
    /\ batch' = Append(batch, s)
    /\ prefilling' = TRUE
    /\ UNCHANGED <<tracked, access, kv, cows, now, pc>>

(* can_append_slots: one block for the one token of a decode. *)
CanAppend == get_num_free_blocks(pool) >= 1

(* append_slots: a block for the token if the last one is full, a copy of  *)
(* it if it is shared, and the promotion of one that the token fills.      *)
TokenBlock(p, q) ==
    IF BlocksOf(Len(q.toks)) > Len(q.table) THEN AllocateId(p)
    ELSE [p |-> p, b |-> Last(q.table)]

CopyTo(b, new) == [p |-> new.p, b |-> new.b, cows |-> <<<<b, new.b>>>>]

CopyOnWrite(a) ==
    IF a.p.ref[a.b] > 1 THEN CopyTo(a.b, AllocateId(free_block_id(a.p, a.b, NoHash)))
    ELSE [p |-> a.p, b |-> a.b, cows |-> <<>>]

PromoteIfFull(a, toks) ==
    IF Len(toks) % BlockSize = 0 THEN promote(a.p, a.b, toks) @@ [cows |-> a.cows] ELSE a

Appended(p, q) == PromoteIfFull(CopyOnWrite(TokenBlock(p, q)), q.toks)

Decodable(s) ==
    /\ pc = "schedule"
    /\ ~prefilling
    /\ seq[s].status = "RUNNING"
    /\ s \notin ToSet(batch)

ScheduleDecode(s) ==
    /\ Decodable(s)
    /\ CanAppend
    /\ \E a \in {Appended(pool, seq[s])} :
           /\ pool' = a.p
           /\ cows' = cows \o a.cows
           /\ seq' = [seq EXCEPT ![s].table = SubSeq(@, 1, BlocksOf(Len(seq[s].toks)) - 1) \o <<a.b>>,
                                 ![s].full = Len(seq[s].toks)]
    /\ batch' = Append(batch, s)
    /\ UNCHANGED <<tracked, access, kv, prefilling, now, pc>>

(* _preempt_by_recompute, when a sequence finds no block for its token: of *)
(* a sequence that this step has not scheduled.                            *)
Preempt(s) ==
    /\ Decodable(s)
    /\ ~CanAppend
    /\ pool' = Freed(pool, s)
    /\ seq' = [seq EXCEPT ![s].status = "WAITING", ![s].table = <<>>, ![s].full = 0]
    /\ Forget(s)
    /\ UNCHANGED <<kv, batch, cows, prefilling, now, pc>>

-----------------------------------------------------------------------------
(* get_cached_computed_blocks_and_update: every block but the last that is *)
(* computed, whether or not the ones before it are.                        *)
UpdateComputed(p, s) ==
    LET t == tracked[s]
        n == Len(seq[s].table) - 1
        new == SelectSeq(SubSeq(seq[s].table, Len(t.ids) + 1, n), LAMBDA b : block_is_computed(p, b))
    IN  IF t.gap \/ Len(t.ids) >= n THEN t
        ELSE [ids |-> t.ids \o new, gap |-> Len(t.ids \o new) < n]

MutantEndSchedule ==
    /\ pc = "schedule"
    /\ ~prefilling => \A s \in SeqIds : ~Decodable(s)
    /\ tracked' = [s \in SeqIds |-> IF s \in ToSet(batch)
                                    THEN UpdateComputed(mark_blocks_as_computed(pool), s)
                                    ELSE tracked[s]]
    /\ access' = [s \in SeqIds |-> IF s \in ToSet(batch) THEN now ELSE access[s]]
    /\ pool' = IF batch = <<>> THEN pool ELSE mark_blocks_as_computed(pool)
    /\ pc' = "execute"
    /\ UNCHANGED <<seq, kv, batch, cows, prefilling, now>>

(* The end of schedule(): what is computed is looked up for the whole      *)
(* batch before the blocks of the batch count as computed.                 *)
EndSchedule ==
    /\ pc = "schedule"
    /\ ~prefilling => \A s \in SeqIds : ~Decodable(s)
    /\ tracked' = [s \in SeqIds |-> IF s \in ToSet(batch) THEN UpdateComputed(pool, s) ELSE tracked[s]]
    /\ access' = [s \in SeqIds |-> IF s \in ToSet(batch) THEN now ELSE access[s]]
    /\ pool' = IF batch = <<>> THEN pool ELSE mark_blocks_as_computed(pool)
    /\ pc' = "execute"
    /\ UNCHANGED <<seq, kv, batch, cows, prefilling, now>>

(* _compute_lens and _compute_for_prefix_cache_hit: the tokens that are    *)
(* not computed.                                                           *)
FirstComputed(s) ==
    IF prefilling THEN Len(tracked[s].ids) * BlockSize + 1 ELSE Len(seq[s].toks)

Slot(s, n) == <<seq[s].table[((n - 1) \div BlockSize) + 1], ((n - 1) % BlockSize) + 1>>

Copied == FoldLeft(LAMBDA c, q : [c EXCEPT ![q[2]] = c[q[1]]], kv, cows)

ExecuteModel ==
    /\ pc = "execute"
    /\ LET writes == UNION {{<<Slot(s, n), SubSeq(seq[s].toks, 1, n)>> :
                                n \in FirstComputed(s) .. Len(seq[s].toks)} : s \in ToSet(batch)}
       IN  kv' = [b \in Blocks |-> [j \in 1 .. BlockSize |->
                    IF \E w \in writes : w[1] = <<b, j>>
                    THEN (CHOOSE w \in writes : w[1] = <<b, j>>)[2] ELSE Copied[b][j]]]
    /\ cows' = <<>>
    /\ pc' = "output"
    /\ UNCHANGED <<pool, seq, tracked, access, batch, prefilling, now>>

(* One sampled token for the first of the batch, which stops or goes on.   *)
Sample(s, token) ==
    /\ pc = "output" /\ batch # <<>> /\ s = Head(batch)
    /\ Len(seq[s].toks) < MaxLen
    /\ seq' = [seq EXCEPT ![s].toks = Append(@, token)]
    /\ batch' = Tail(batch)
    /\ UNCHANGED <<pool, tracked, access, kv, cows, prefilling, now, pc>>

Finish(s) ==
    /\ pc = "output" /\ batch # <<>> /\ s = Head(batch)
    /\ pool' = Freed(pool, s)
    /\ seq' = [seq EXCEPT ![s] = [NoSeq EXCEPT !.status = "FINISHED"]]
    /\ Forget(s)
    /\ batch' = Tail(batch)
    /\ UNCHANGED <<kv, cows, prefilling, now, pc>>

Shared(p, s) ==
    [p EXCEPT !.ref = [b \in Blocks |-> IF b \in ToSet(seq[s].table) THEN @[b] + 1 ELSE @[b]]]

(* The second sample of a request: a child that shares the parent's table, *)
(* which does not have the sampled token yet.                              *)
Fork(s, child, t1, t2) ==
    /\ pc = "output" /\ batch # <<>> /\ s = Head(batch)
    /\ prefilling
    /\ seq[child].status = "none"
    /\ \A t \in 1 .. child - 1 : seq[t].status # "none"
    /\ Len(seq[s].toks) < MaxLen
    /\ seq' = [seq EXCEPT ![s].toks = Append(@, t1),
                          ![child] = [seq[s] EXCEPT !.toks = Append(@, t2)]]
    /\ pool' = Shared(pool, s)
    /\ batch' = Tail(batch)
    /\ UNCHANGED <<tracked, access, kv, cows, prefilling, now, pc>>

EndStep ==
    /\ pc = "output" /\ batch = <<>>
    /\ prefilling' = FALSE
    /\ pc' = "idle"
    /\ UNCHANGED <<pool, seq, tracked, access, kv, batch, cows, now>>

Next ==
    \/ \E s \in SeqIds : \E prompt \in Prompts : AddRequest(s, prompt)
    \/ \E s \in SeqIds : Abort(s) \/ SchedulePrefill(s) \/ ScheduleDecode(s)
                            \/ Preempt(s) \/ Finish(s)
    \/ \E s \in SeqIds : \E token \in Tokens : Sample(s, token)
    \/ \E s, child \in SeqIds : \E t1, t2 \in Tokens : Fork(s, child, t1, t2)
    \/ BeginStep \/ EndSchedule \/ ExecuteModel \/ EndStep

Spec == Init /\ [][Next]_vars

-----------------------------------------------------------------------------
(* Types of the tables, the pool's sets and the trackers. *)
TypeOK ==
    /\ ToSet(pool.free) \cup pool.touched \subseteq Blocks
    /\ \A h \in DOMAIN pool.cached : pool.cached[h] \in Blocks /\ Len(h) % BlockSize = 0
    /\ pool.ref \in [Blocks -> Nat]
    /\ \A s \in SeqIds : /\ seq[s].status \in Live \cup {"none", "FINISHED"}
                         /\ ToSet(seq[s].table) \subseteq Blocks
                         /\ Len(seq[s].toks) <= MaxLen
                         /\ access[s] \in 0 .. now
    /\ pc \in {"idle", "schedule", "execute", "output"}

(* No assertion of the allocator, the trackers or the evictor fails, and   *)
(* no allocation that can_allocate or can_append_slots allowed finds the   *)
(* pool empty, whatever is cached, shared, promoted and evicted.           *)
NothingRaises == ~pool.raised

(* Every block is free, or kept in the evictor, or in as many tables as    *)
(* its count says, and only one of them.                                   *)
BlocksPartition ==
    \A b \in Blocks :
        /\ pool.ref[b] = Cardinality({<<s, i>> \in SeqIds \X (1 .. NumBlocks) :
                                        i \in DOMAIN seq[s].table /\ seq[s].table[i] = b})
        /\ pool.active[b] = (pool.ref[b] > 0)
        /\ Cardinality({i \in DOMAIN pool.free : pool.free[i] = b})
             + Cardinality({i \in DOMAIN pool.evictor : pool.evictor[i].id = b})
             = (IF pool.ref[b] = 0 THEN 1 ELSE 0)

(* A block that is cached, in use or not, holds between two steps what its *)
(* hash says: a prompt that skips it reads what it would have computed.    *)
CachedIsComputed ==
    pc = "idle" => \A h \in DOMAIN pool.cached : \A j \in 1 .. BlockSize :
        kv[pool.cached[h]][j] = SubSeq(h, 1, Len(h) - BlockSize + j)

(* What precedes a cached block is cached: the evictor never takes a block *)
(* before the blocks that continue it, so a computed block never follows   *)
(* one that is not.                                                        *)
CacheIsPrefixClosed ==
    \A h \in DOMAIN pool.cached :
        Len(h) > BlockSize => SubSeq(h, 1, Len(h) - BlockSize) \in DOMAIN pool.cached

(* What a prefill skips was there before the step: the runner gets only    *)
(* the number of computed blocks, and skips as many from the first one,    *)
(* and no sequence skips what another of its batch is about to compute.    *)
SkippedIsComputed ==
    (pc = "execute" /\ prefilling) =>
        \A s \in ToSet(batch) : \A n \in 1 .. FirstComputed(s) - 1 :
            kv[Slot(s, n)[1]][Slot(s, n)[2]] = SubSeq(seq[s].toks, 1, n)

(* The cache holds each running sequence's own tokens, those it skipped    *)
(* included.                                                               *)
CacheHoldsOwnTokens ==
    pc = "idle" => \A s \in SeqIds : seq[s].status = "RUNNING" =>
        \A n \in 1 .. seq[s].full :
            kv[Slot(s, n)[1]][Slot(s, n)[2]] = SubSeq(seq[s].toks, 1, n)

\* The pool's books agree with the tables of the sequences: every block is in
\* use, free or evictable, and only one of these; a cached block's prefix is
\* cached too; no assertion of the allocator fails.
PoolIsConsistent ==
    /\ TypeOK
    /\ NothingRaises
    /\ BlocksPartition
    /\ CacheIsPrefixClosed

\* Nobody attends to what was not computed for his own tokens: not through a
\* block found by its hash, not through a prefix the runner skips, and not
\* through the blocks of his table.
CacheIsRight ==
    /\ CachedIsComputed
    /\ SkippedIsComputed
    /\ CacheHoldsOwnTokens
=============================================================================
