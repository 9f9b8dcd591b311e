--------------------------- MODULE BlockAllocator ---------------------------
(***************************************************************************)
(* The pool of physical blocks of vLLM's KV cache on one device, a block   *)
(* at a time: NaiveBlockAllocator with its RefCounter and its              *)
(* CopyOnWriteTracker.  Block objects (handles) of the tables point to     *)
(* physical blocks; handles of forked sequences share them.                *)
(***************************************************************************)
EXTENDS Integers, Sequences, FiniteSets

CONSTANTS
    Blocks,         \* _all_block_indices
    Handles,        \* the Block objects, as many as the pool has handed out
    None,           \* block_id of a handle that has no physical block
    MaxCows         \* bound: copies recorded and not yet cleared

ASSUME AllocatorAssumption ==
    /\ IsFiniteSet(Blocks) /\ IsFiniteSet(Handles)
    /\ None \notin Blocks /\ None \notin Handles
    /\ MaxCows \in Nat

VARIABLES
    free,           \* _free_block_indices
    refcount,       \* _refcounter._refcounts
    live,           \* handles that a table has
    block_id,       \* their block_id
    cows,           \* _cow_tracker._copy_on_writes
    writer,         \* the handle that tokens were just appended to
    raised          \* NoFreeBlocksError in the middle of a copy on write

vars == <<free, refcount, live, block_id, cows, writer, raised>>

IsFree(b) == \E i \in DOMAIN free : free[i] = b

Holders(b) == {h \in Handles : block_id[h] = b}

(* Types of the deque, of the counts and of the handles. *)
TypeOK ==
    /\ free \in Seq(Blocks)
    /\ refcount \in [Blocks -> Nat]
    /\ live \in SUBSET Handles
    /\ block_id \in [Handles -> Blocks \cup {None}]
    /\ cows \in Seq(Blocks \X Blocks)
    /\ writer \in Handles \cup {None}
    /\ raised \in BOOLEAN

(* The deque starts with every block once, in some order. *)
Init ==
    /\ free \in [1 .. Cardinality(Blocks) -> Blocks]
    /\ \A b \in Blocks : IsFree(b)
    /\ \A i, j \in DOMAIN free : free[i] = free[j] => i = j
    /\ refcount = [b \in Blocks |-> 0]
    /\ live = {}
    /\ block_id = [h \in Handles |-> None]
    /\ cows = <<>>
    /\ writer = None
    /\ raised = FALSE

-----------------------------------------------------------------------------
(* _allocate_block_id, for the handle h. *)
allocate_block_id(h) ==
    /\ free # <<>>
    /\ free' = Tail(free)
    /\ refcount' = [refcount EXCEPT ![Head(free)] = @ + 1]
    /\ block_id' = [block_id EXCEPT ![h] = Head(free)]

(* _free_block_id: the last reference returns the block, to the left. *)
free_block_id(h) ==
    /\ refcount' = [refcount EXCEPT ![block_id[h]] = @ - 1]
    /\ free' = IF refcount[block_id[h]] = 1 THEN <<block_id[h]>> \o free ELSE free
    /\ block_id' = [block_id EXCEPT ![h] = None]

(* allocate_mutable_block; without a free block it raises and nothing has  *)
(* changed.                                                                *)
AllocateMutableBlock(h) ==
    /\ h \notin live
    /\ allocate_block_id(h)
    /\ live' = live \cup {h}
    /\ writer' = None
    /\ UNCHANGED <<cows, raised>>

(* free: the physical block, and the handle to the pool. *)
Free(h) ==
    /\ h \in live
    /\ block_id[h] # None
    /\ free_block_id(h)
    /\ live' = live \ {h}
    /\ writer' = None
    /\ UNCHANGED <<cows, raised>>

(* fork, for one block of the source: a handle that shares it. *)
Fork(h, child) ==
    /\ h \in live /\ child \notin live
    /\ block_id[h] # None
    /\ refcount' = [refcount EXCEPT ![block_id[h]] = @ + 1]
    /\ block_id' = [block_id EXCEPT ![child] = block_id[h]]
    /\ live' = live \cup {child}
    /\ writer' = None
    /\ UNCHANGED <<free, cows, raised>>

MutantIsAppendable(h) == refcount[block_id[h]] <= 2

(* CopyOnWriteTracker.is_appendable *)
is_appendable(h) == refcount[block_id[h]] <= 1

(* append_token_ids, when the block is the handle's own. *)
AppendInPlace(h) ==
    /\ h \in live
    /\ block_id[h] # None
    /\ is_appendable(h)
    /\ writer' = h
    /\ UNCHANGED <<free, refcount, live, block_id, cows, raised>>

(* append_token_ids to a shared block: cow_block_if_not_appendable gives   *)
(* the reference back before it takes a new block.                         *)
CopyOnWrite(h) ==
    /\ h \in live
    /\ block_id[h] # None
    /\ ~is_appendable(h)
    /\ free # <<>>
    /\ Len(cows) < MaxCows
    /\ free' = Tail(free)
    /\ refcount' = [refcount EXCEPT ![block_id[h]] = @ - 1, ![Head(free)] = @ + 1]
    /\ block_id' = [block_id EXCEPT ![h] = Head(free)]
    /\ cows' = Append(cows, <<block_id[h], Head(free)>>)
    /\ writer' = h
    /\ UNCHANGED <<live, raised>>

(* The same with no block left: the reference is gone when it raises. *)
CopyOnWriteRaises(h) ==
    /\ h \in live
    /\ block_id[h] # None
    /\ ~is_appendable(h)
    /\ free = <<>>
    /\ free_block_id(h)
    /\ raised' = TRUE
    /\ writer' = None
    /\ UNCHANGED <<live, cows>>

(* swap_out: the block is given back and the handle kept. *)
SwapOut(h) ==
    /\ h \in live
    /\ block_id[h] # None
    /\ free_block_id(h)
    /\ writer' = None
    /\ UNCHANGED <<live, cows, raised>>

(* swap_in: a handle that has no block on this device gets one. *)
SwapIn(h) ==
    /\ h \in live
    /\ block_id[h] = None
    /\ allocate_block_id(h)
    /\ writer' = None
    /\ UNCHANGED <<live, cows, raised>>

ClearCopyOnWrites ==
    /\ cows # <<>>
    /\ cows' = <<>>
    /\ writer' = None
    /\ UNCHANGED <<free, refcount, live, block_id, raised>>

Step(h) ==
    \/ AllocateMutableBlock(h) \/ Free(h) \/ AppendInPlace(h)
    \/ CopyOnWrite(h) \/ CopyOnWriteRaises(h) \/ SwapOut(h) \/ SwapIn(h)

Next ==
    \/ \E h \in Handles : Step(h)
    \/ \E h, child \in Handles : Fork(h, child)
    \/ ClearCopyOnWrites

Spec == Init /\ [][Next]_vars

-----------------------------------------------------------------------------
(* Every block's count is the number of handles that point to it: no       *)
(* sequence of allocations, forks, copies, swaps and frees loses or        *)
(* invents a reference, also when a copy on write raises half way.         *)
RefcountsAreExact == \A b \in Blocks : refcount[b] = Cardinality(Holders(b))

(* A block is in the deque, once, exactly when nobody points to it: no     *)
(* block is given to two sequences, and none is lost.                      *)
FreeMeansUnused ==
    /\ \A i, j \in DOMAIN free : free[i] = free[j] => i = j
    /\ \A b \in Blocks : IsFree(b) <=> Holders(b) = {}

(* Tokens are written only to a block that one handle has: a fork's        *)
(* sequences never see each other's tokens.                                *)
WriterIsAlone ==
    writer # None => \A h \in Handles \ {writer} : block_id[h] # block_id[writer]

\* Whatever is allocated, forked, copied on write, swapped and freed: counts are
\* exact, a block is free exactly when no handle has it, and none is written
\* while another handle points to it.
AllocatorIsConsistent ==
    /\ TypeOK
    /\ RefcountsAreExact
    /\ FreeMeansUnused
    /\ WriterIsAlone
=============================================================================
