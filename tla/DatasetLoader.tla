--------------------------- MODULE DatasetLoader ----------------------------
(***************************************************************************)
(* What each rank trains on: the examples of the dataset are shuffled with *)
(* a seed that depends on the epoch, every rank keeps its share, tokenizes *)
(* it and packs the tokens of MapBatch examples at a time into blocks.     *)
(* DataLoader hands out batch_size blocks and begins the next epoch when   *)
(* this rank's blocks are used up.  The ranks take one batch per training  *)
(* step, together.                                                         *)
(***************************************************************************)
EXTENDS Integers, Sequences, FiniteSets, SequencesExt

CONSTANTS
    World,          \* get_data_parallel_world_size()
    BlockSize,      \* the smaller of max_position_embeddings and max_token_block_size
    BatchSize,      \* batch_size
    MapBatch,       \* examples in one call of a mapped function
    MaxExamples,    \* bound: lines of the dataset
    MaxTokens,      \* bound: tokens of an example, with the end token
    MaxBatches        \* max_steps

ASSUME DatasetAssumption ==
    /\ World \in Nat \ {0} /\ BlockSize \in Nat \ {0} /\ BatchSize \in Nat \ {0}
    /\ MapBatch \in Nat \ {0} /\ MaxExamples \in Nat \ {0} /\ MaxTokens \in Nat \ {0}
    /\ MaxBatches \in Nat

VARIABLES
    tokens,     \* how many tokens each example has
    order,      \* the order in which shuffle(seed=42 + epoch) puts them
    epoch,      \* epoch of each rank's DataLoader
    next,       \* the batches that each rank's iterator has handed out
    trained,    \* all batches that were trained on
    taken,      \* training steps
    failed      \* how a rank's next() has raised

dataVars == <<tokens, order, epoch, next, trained, taken, failed>>

Loaders == 0 .. World - 1
Examples == DOMAIN tokens
Epochs == 0 .. MaxBatches

Orders(n) == {p \in [1 .. n -> 1 .. n] : \A i, j \in 1 .. n : p[i] = p[j] => i = j}

-----------------------------------------------------------------------------
MutantShuffle(r, e) == order[(e + r) % 2]

(* shuffle(seed=42 + epoch): the same order on every rank.  Two orders,    *)
(* for even and odd epochs, stand for all, and the examples are numbered   *)
(* in the first of them.                                                   *)
Shuffled(r, e) == order[e % 2]

(* split_dataset_by_node: every World-th example, from the rank's number. *)
Split(s, r) ==
    LET mine == {i \in 1 .. Len(s) : (i - 1) % World = r}
    IN  [k \in 1 .. Cardinality(mine) |-> s[(k - 1) * World + r + 1]]

(* The examples are mapped MapBatch at a time. *)
Groups(s) ==
    [g \in 1 .. (Len(s) + MapBatch - 1) \div MapBatch |->
        SubSeq(s, (g - 1) * MapBatch + 1,
               IF g * MapBatch < Len(s) THEN g * MapBatch ELSE Len(s))]

(* tokenize and add_eos_token, and the concatenation of a group. *)
Tokenized(group) ==
    FlattenSeq([i \in 1 .. Len(group) |->
                    [k \in 1 .. tokens[group[i]] |-> <<group[i], k>>]])

(* The remainder is dropped when there is a full block. *)
PackedLength(n) == IF n >= BlockSize THEN (n \div BlockSize) * BlockSize ELSE n

pack(text) ==
    LET n == PackedLength(Len(text))
    IN  [b \in 1 .. (n + BlockSize - 1) \div BlockSize |->
            SubSeq(text, (b - 1) * BlockSize + 1,
                   IF b * BlockSize < n THEN b * BlockSize ELSE n)]

(* The blocks of a rank in an epoch. *)
load_dataset(r, e) ==
    LET groups == Groups(Split(Shuffled(r, e), r))
    IN  FlattenSeq([g \in 1 .. Len(groups) |-> pack(Tokenized(groups[g]))])

(* torch's DataLoader: BatchSize blocks at a time. *)
Batches(blocks) == (Len(blocks) + BatchSize - 1) \div BatchSize

Batch(blocks, k) ==
    SubSeq(blocks, (k - 1) * BatchSize + 1,
           IF k * BatchSize < Len(blocks) THEN k * BatchSize ELSE Len(blocks))

(* Blocks of different lengths cannot be stacked. *)
Collates(batch) ==
    \A i, j \in 1 .. Len(batch) : Len(batch[i]) = Len(batch[j])

-----------------------------------------------------------------------------
(* Types of the loaders. *)
DataTypeOK ==
    /\ epoch \in [Loaders -> Epochs]
    /\ next \in [Loaders -> Nat]
    /\ \A r \in Loaders : next[r] <= Batches(load_dataset(r, epoch[r]))
    /\ taken \in 0 .. MaxBatches
    /\ failed \in {"no", "stop_iteration", "collate"}
    /\ \A t \in trained : t.rank \in Loaders /\ t.epoch \in Epochs /\ t.batch # <<>>

DataInit ==
    /\ \E n \in 1 .. MaxExamples :
        /\ tokens \in [1 .. n -> 1 .. MaxTokens]
        /\ order \in {[e \in {0, 1} |-> IF e = 0 THEN [i \in 1 .. n |-> i] ELSE p]
                        : p \in Orders(n)}
    /\ epoch = [r \in Loaders |-> 0]
    /\ next = [r \in Loaders |-> 0]
    /\ trained = {}
    /\ taken = 0
    /\ failed = "no"

(* The epoch of the batch that next() returns: StopIteration begins a new  *)
(* one, once.                                                              *)
EpochOf(r) ==
    IF next[r] < Batches(load_dataset(r, epoch[r])) THEN epoch[r] ELSE epoch[r] + 1

NumberOf(r) == IF EpochOf(r) = epoch[r] THEN next[r] + 1 ELSE 1

HasBatch(r) == Batches(load_dataset(r, EpochOf(r))) > 0

BatchOf(r) == Batch(load_dataset(r, EpochOf(r)), NumberOf(r))

(* One training step: every rank takes its next batch. *)
Step ==
    /\ failed = "no" /\ taken < MaxBatches
    /\ \A r \in Loaders : HasBatch(r) /\ Collates(BatchOf(r))
    /\ trained' = trained \cup
            {[rank |-> r, epoch |-> EpochOf(r), number |-> NumberOf(r), batch |-> BatchOf(r)]
                : r \in Loaders}
    /\ epoch' = [r \in Loaders |-> EpochOf(r)]
    /\ next' = [r \in Loaders |-> NumberOf(r)]
    /\ taken' = taken + 1
    /\ UNCHANGED <<tokens, order, failed>>

(* A rank without blocks: the second next() raises StopIteration too. *)
Starve ==
    /\ failed = "no" /\ taken < MaxBatches
    /\ \E r \in Loaders : ~HasBatch(r)
    /\ failed' = "stop_iteration"
    /\ UNCHANGED <<tokens, order, epoch, next, trained, taken>>

CollateFails ==
    /\ failed = "no" /\ taken < MaxBatches
    /\ \E r \in Loaders : HasBatch(r) /\ ~Collates(BatchOf(r))
    /\ failed' = "collate"
    /\ UNCHANGED <<tokens, order, epoch, next, trained, taken>>

DataNext == Step \/ Starve \/ CollateFails

DataSpec == DataInit /\ [][DataNext]_dataVars

-----------------------------------------------------------------------------
TokensOf(batch) ==
    UNION {{batch[i][k] : k \in 1 .. Len(batch[i])} : i \in 1 .. Len(batch)}

(* Within one epoch no token is trained on twice, on whatever rank: the    *)
(* shares of the ranks do not overlap although each rank shuffles by       *)
(* itself, and neither do the blocks of a share.                           *)
NoTokenTwice ==
    \A s, t \in trained : s.epoch = t.epoch /\ s # t =>
        TokensOf(s.batch) \cap TokensOf(t.batch) = {}

(* When a rank begins another epoch, what it has left out of its share of  *)
(* the last one is less than a block per group of examples.                *)
DroppedAreFew ==
    \A r \in Loaders : \A e \in Epochs : e < epoch[r] =>
        LET share == Split(Shuffled(r, e), r)
            all == UNION {{<<share[i], k>> : k \in 1 .. tokens[share[i]]}
                            : i \in 1 .. Len(share)}
            used == UNION {TokensOf(t.batch) :
                            t \in {u \in trained : u.rank = r /\ u.epoch = e}}
        IN  Cardinality(all \ used) <= (BlockSize - 1) * Len(Groups(share))

(* With an example for every rank, no rank runs out of data: also a share  *)
(* that is shorter than a block makes one.                                 *)
EveryRankHasData == Len(tokens) >= World => failed # "stop_iteration"

\* The ranks share the dataset: in one epoch none trains on a token of another
\* or on one of its own twice, each uses all of its share but the rests of the
\* packing, and none is without a batch when there is an example for each.
DataIsShared ==
    /\ DataTypeOK
    /\ NoTokenTwice
    /\ DroppedAreFew
    /\ EveryRankHasData
=============================================================================
