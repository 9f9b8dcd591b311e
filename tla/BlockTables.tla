----------------------------- MODULE BlockTables -----------------------------
(***************************************************************************)
(* The block tables of vLLM's BlockSpaceManagerV2 over the naive block     *)
(* allocators of the GPU and of the CPU, as operators on the manager's     *)
(* state.  BlockAllocator models the allocator a block at a time; here a   *)
(* call on a whole sequence is one operator.                               *)
(***************************************************************************)
EXTENDS Integers, Sequences, SequencesExt

CONSTANTS
    Seqs,           \* sequence ids
    NumGpu,         \* num_gpu_blocks
    NumCpu,         \* num_cpu_blocks
    BlockSize,
    Watermark,      \* watermark_blocks
    SlidingWindow   \* sliding_window in tokens, 0 for None

BlockIds == 1 .. NumGpu + NumCpu

Gpu == "gpu"
Cpu == "cpu"

Device(i) == IF i <= NumGpu THEN Gpu ELSE Cpu

cdiv(a, b) == -((-a) \div b)

Least(a, b) == IF a <= b THEN a ELSE b

(* The GPU's ids come before the CPU's.  null is the null block's id, 0    *)
(* until one is allocated; raised is NoFreeBlocksError.                    *)
NewManager ==
    [gpu |-> [i \in 1 .. NumGpu |-> i],
     cpu |-> [i \in 1 .. NumCpu |-> NumGpu + i],
     ref |-> [i \in BlockIds |-> 0],
     table |-> [s \in Seqs |-> <<>>],
     full |-> [s \in Seqs |-> 0],
     null |-> 0,
     raised |-> FALSE]

(* n calls of _allocate_block_id. *)
Take(b, device, n) ==
    IF Len(b[device]) < n
    THEN [b EXCEPT !.raised = TRUE]
    ELSE LET taken == {b[device][i] : i \in 1 .. n}
         IN  [b EXCEPT ![device] = SubSeq(@, n + 1, Len(@)),
                       !.ref = [i \in BlockIds |-> IF i \in taken THEN 1 ELSE @[i]]]

Taken(b, device, n) == SubSeq(b[device], 1, Least(n, Len(b[device])))

(* free of one block: the null block is never freed. *)
Release(b, i) ==
    IF i = b.null THEN b
    ELSE IF b.ref[i] = 1
    THEN [b EXCEPT !.ref[i] = 0, ![Device(i)] = <<i>> \o @]
    ELSE [b EXCEPT !.ref[i] = @ - 1]

ReleaseAll(b, ids) == FoldLeft(Release, b, ids)

-----------------------------------------------------------------------------
(* max_block_sliding_window *)
Window == (SlidingWindow \div BlockSize) + 2

RequiredBlocks(n) ==
    IF SlidingWindow = 0 THEN cdiv(n, BlockSize)
    ELSE Least(cdiv(n, BlockSize), Window)

(* can_allocate, for a waiting sequence of n tokens. *)
can_allocate(b, n) ==
    IF NumGpu - RequiredBlocks(n) < Watermark THEN "NEVER"
    ELSE IF Len(b.gpu) - RequiredBlocks(n) >= Watermark THEN "OK" ELSE "LATER"

(* allocate: a block for every BlockSize tokens, whatever the window. *)
allocate(b, s, n) ==
    [Take(b, Gpu, cdiv(n, BlockSize)) EXCEPT
        !.table[s] = Taken(b, Gpu, cdiv(n, BlockSize)), !.full[s] = n]

(* get_num_blocks_touched_by_append_slots, for a sequence of n tokens. *)
Touched(b, s, n) ==
    1 + cdiv((n - b.full[s]) - (BlockSize - (b.full[s] % BlockSize)), BlockSize)

(* allocate_or_get_null_block, and the blocks that left the window become  *)
(* the null block.                                                         *)
NullBlock(b) ==
    IF b.null # 0 THEN b
    ELSE [Take(b, Gpu, 1) EXCEPT !.null = IF b.gpu = <<>> THEN 0 ELSE Head(b.gpu)]

DropBlocks(b, s, computed) ==
    LET m == NullBlock(b)
        dropped == Least((computed \div BlockSize) - Window, Len(b.table[s]))
        r == ReleaseAll(m, SubSeq(b.table[s], 1, dropped))
    IN  [r EXCEPT !.table[s] =
            [i \in DOMAIN @ |-> IF i <= dropped THEN m.null ELSE @[i]]]

(* ensure_num_empty_slots *)
GrowTable(b, s, n) ==
    LET missing == (n - b.full[s]) - (Len(b.table[s]) * BlockSize - b.full[s])
        k == IF missing <= 0 THEN 0 ELSE cdiv(missing, BlockSize)
    IN  [Take(b, Gpu, k) EXCEPT !.table[s] = @ \o Taken(b, Gpu, k)]

(* The block that the first new token goes to. *)
FirstTouched(b, s) == (b.full[s] \div BlockSize) + 1

IsShared(b, s) == b.ref[b.table[s][FirstTouched(b, s)]] > 1

(* append_slots of BlockSpaceManagerV2: the state after it, and the copies *)
(* it returns.  A shared block is given up and a new one taken.            *)
append_slots(b, s, n, computed) ==
    LET w == IF SlidingWindow = 0 THEN b ELSE DropBlocks(b, s, computed)
        g == GrowTable(w, s, n)
        f == FirstTouched(g, s)
        old == g.table[s][f]
        new == IF g.gpu = <<>> THEN old ELSE Head(g.gpu)
    IN  IF g.raised \/ ~IsShared(g, s)
        THEN [b |-> [g EXCEPT !.full[s] = n], cows |-> <<>>]
        ELSE [b |-> [Take(Release(g, old), Gpu, 1) EXCEPT
                        !.table[s][f] = new, !.full[s] = n],
              cows |-> <<<<old, new>>>>]

(* fork: the child's table shares every block. *)
fork(b, parent, child) ==
    IF b.table[parent] = <<>> THEN b
    ELSE [b EXCEPT !.ref = [i \in BlockIds |->
                                IF i \in ToSet(b.table[parent]) THEN @[i] + 1 ELSE @[i]],
                   !.table[child] = b.table[parent],
                   !.full[child] = b.full[parent]]

(* free, of a sequence that may have no table. *)
free(b, s) ==
    [ReleaseAll(b, b.table[s]) EXCEPT !.table[s] = <<>>, !.full[s] = 0]

(* _can_swap: the blocks touched by appending, and every full block of     *)
(* every table: the blocks that two tables share are counted twice, and a  *)
(* swap does give each table blocks of its own.  n gives the tokens.       *)
BlocksToSwap(b, ss, n) ==
    FoldLeft(LAMBDA acc, s : acc + Touched(b, s, n[s]) + (b.full[s] \div BlockSize), 0, ss)

can_swap(b, ss, n, device) ==
    LET total == IF device = Gpu THEN NumGpu ELSE NumCpu
        reserve == IF device = Gpu THEN Watermark ELSE 0
    IN  IF total < BlocksToSwap(b, ss, n) THEN "NEVER"
        ELSE IF Len(b[device]) - BlocksToSwap(b, ss, n) >= reserve THEN "OK"
        ELSE "LATER"

(* swap of one table: its blocks are freed before the others are taken.    *)
(* The pairs go to the worker.                                             *)
SwapTable(b, s, device) ==
    LET old == b.table[s]
        new == Taken(b, device, Len(old))
    IN  [b |-> [Take(ReleaseAll(b, old), device, Len(old)) EXCEPT !.table[s] = new],
         pairs |-> [i \in DOMAIN new |-> <<old[i], new[i]>>]]

swap(b, ss, device) ==
    FoldLeft(LAMBDA acc, s :
                LET r == SwapTable(acc.b, s, device)
                IN  [b |-> r.b, pairs |-> acc.pairs \o r.pairs],
             [b |-> b, pairs |-> <<>>], ss)

=============================================================================
