------------------------------ MODULE PrefixPool ------------------------------
(***************************************************************************)
(* PrefixCachingBlockAllocator of one device with its LRUEvictor, as       *)
(* operators on the allocator's state.  A content hash is the sequence of  *)
(* the tokens up to the end of the block, which is what hash_block_tokens  *)
(* is computed from: distinct prefixes are taken to have distinct hashes.  *)
(* No hash, of a block that is not full, is the empty sequence.            *)
(***************************************************************************)
EXTENDS Integers, Sequences, SequencesExt, TLC

CONSTANT NumBlocks

Blocks == 1 .. NumBlocks

NoHash == <<>>

(* free is the deque of the hashless allocator, cached is _cached_blocks,  *)
(* active, computed and last are the block trackers, evictor the ordered   *)
(* free_table.  raised is an assertion that failed, or NoFreeBlocksError.  *)
NewPool ==
    [free |-> [i \in Blocks |-> i],
     ref |-> [b \in Blocks |-> 0],
     cached |-> [h \in {} |-> 0],
     touched |-> {},
     active |-> [b \in Blocks |-> FALSE],
     computed |-> [b \in Blocks |-> FALSE],
     last |-> [b \in Blocks |-> -1],
     evictor |-> <<>>,
     raised |-> FALSE]

Assertion(p, holds) == [p EXCEPT !.raised = @ \/ ~holds]

InEvictor(p, b) == \E i \in DOMAIN p.evictor : p.evictor[i].id = b

get_num_free_blocks(p) == Len(p.free) + Len(p.evictor)

(* _track_block_id and _untrack_block_id *)
Track(p, b, computed) ==
    [Assertion(p, ~p.active[b]) EXCEPT
        !.active[b] = TRUE, !.computed[b] = computed, !.last[b] = -1]

Untrack(p, b) ==
    [Assertion(p, p.active[b]) EXCEPT
        !.active[b] = FALSE, !.computed[b] = FALSE, !.last[b] = -1]

(* LRUEvictor.evict: from the front, until a block was accessed later than *)
(* the best so far; of those passed, the one with the longest prefix.      *)
EvictIndex(ev) ==
    FoldLeft(LAMBDA acc, i :
                IF acc.stop THEN acc
                ELSE IF ev[acc.best].last < ev[i].last THEN [acc EXCEPT !.stop = TRUE]
                ELSE IF Len(ev[acc.best].hash) < Len(ev[i].hash) THEN [acc EXCEPT !.best = i]
                ELSE acc,
             [best |-> 1, stop |-> FALSE],
             [i \in 1 .. Len(ev) - 1 |-> i + 1]).best

(* _maybe_allocate_evicted_block_id *)
TakeEvicted(p, e) ==
    Track([Assertion(p, /\ e.hash \in DOMAIN p.cached
                        /\ p.cached[e.hash] = e.id
                        /\ p.ref[e.id] = 0) EXCEPT
            !.evictor = SelectSeq(@, LAMBDA x : x.id # e.id),
            !.cached = [h \in DOMAIN @ \ {e.hash} |-> @[h]],
            !.ref[e.id] = 1], e.id, FALSE)

TakeEvictedAt(p, e) == [b |-> e.id, p |-> TakeEvicted(p, e)]

Evict(p) == TakeEvictedAt(p, p.evictor[EvictIndex(p.evictor)])

(* _allocate_block_id: a free block, or an evicted one. *)
AllocateId(p) ==
    IF p.free # <<>>
    THEN [b |-> Head(p.free),
          p |-> Track([p EXCEPT !.free = Tail(@), !.ref[Head(p.free)] = 1], Head(p.free), FALSE)]
    ELSE IF p.evictor # <<>> THEN Evict(p)
    ELSE [b |-> 1, p |-> [p EXCEPT !.raised = TRUE]]

MutantIncrCached(p, b) ==
    IF p.ref[b] > 0 THEN [p EXCEPT !.ref[b] = @ + 1]
    ELSE Track([p EXCEPT !.ref[b] = 1], b, TRUE)

(* _incr_refcount_cached_block: out of the evictor, if it was there. *)
IncrCached(p, b) ==
    IF p.ref[b] > 0 THEN [p EXCEPT !.ref[b] = @ + 1]
    ELSE Track([p EXCEPT !.ref[b] = 1,
                         !.evictor = SelectSeq(@, LAMBDA e : e.id # b)], b, TRUE)

(* _decr_refcount_cached_block: the last reference puts it in the evictor. *)
DecrCached(p, b, hash) ==
    IF p.ref[b] > 1 THEN [p EXCEPT !.ref[b] = @ - 1]
    ELSE Untrack([Assertion(p, hash \in DOMAIN p.cached) EXCEPT
                    !.ref[b] = 0,
                    !.evictor = Append(@, [id |-> b, hash |-> hash, last |-> p.last[b]])], b)

DecrHashless(p, b) ==
    IF p.ref[b] > 1 THEN [p EXCEPT !.ref[b] = @ - 1]
    ELSE [Untrack(p, b) EXCEPT !.ref[b] = 0, !.free = <<b>> \o @]

free_block_id(p, b, hash) == IF hash = NoHash THEN DecrHashless(p, b) ELSE DecrCached(p, b, hash)

(* promote_to_immutable_block: a full block is cached, and counts as       *)
(* computed when the batch is complete; or it is given up for the block    *)
(* that has the same content.                                              *)
promote(p, b, hash) ==
    IF hash \notin DOMAIN p.cached
    THEN [b |-> b, p |-> [p EXCEPT !.cached = (hash :> b) @@ @, !.touched = @ \cup {b}]]
    ELSE [b |-> p.cached[hash], p |-> IncrCached(DecrHashless(p, b), p.cached[hash])]

PromoteNew(a, hash) == promote(a.p, a.b, hash)

allocate_immutable_block(p, hash) ==
    IF hash \in DOMAIN p.cached
    THEN [b |-> p.cached[hash], p |-> IncrCached(p, p.cached[hash])]
    ELSE PromoteNew(AllocateId(p), hash)

(* mark_blocks_as_accessed, of one block. *)
mark_accessed(p, b, now) ==
    IF p.active[b] THEN [p EXCEPT !.last[b] = now]
    ELSE [Assertion(p, InEvictor(p, b)) EXCEPT !.evictor =
            [i \in DOMAIN @ |-> IF @[i].id = b THEN [@[i] EXCEPT !.last = now] ELSE @[i]]]

mark_blocks_as_computed(p) ==
    [p EXCEPT !.computed = [b \in Blocks |-> @[b] \/ b \in p.touched], !.touched = {}]

block_is_computed(p, b) == IF p.active[b] THEN p.computed[b] ELSE InEvictor(p, b)

=============================================================================
