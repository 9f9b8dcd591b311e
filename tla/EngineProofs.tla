---------------------------- MODULE EngineProofs ----------------------------
(***************************************************************************)
(* Proofs about two parts of the vLLM engine that share no variable.       *)
(*                                                                         *)
(* BlockAllocator: the reference counts are exact and the deque holds the  *)
(* unused blocks, for any number of blocks and of handles.                 *)
(*                                                                         *)
(* OutputText: for any prompt, tokens, stop strings and parameters, the    *)
(* text is cut at the first stop string and nowhere else, a stream gets    *)
(* all of it and nothing more, and with a byte-level tokenizer it is the   *)
(* text that decoding everything at once gives.                            *)
(***************************************************************************)
EXTENDS BlockAllocator, OutputText, FiniteSetTheorems, SequenceTheorems, WellFoundedInduction,
        TLAPS

-----------------------------------------------------------------------------
(* The block allocator *)

(* A handle that no table has points to nothing. *)
PooledHandlesAreEmpty == \A h \in Handles \ live : block_id[h] = None

(* What is inductive: the three invariants need the types, and that a      *)
(* handle which leaves the pool is empty.                                  *)
IInv ==
    /\ TypeOK
    /\ PooledHandlesAreEmpty
    /\ RefcountsAreExact
    /\ FreeMeansUnused
    /\ WriterIsAlone

-----------------------------------------------------------------------------
(* A handle that moves to another block, or to none, leaves the holders of *)
(* the old one and joins those of the new one.                             *)
LEMMA HoldersMove ==
    ASSUME NEW h \in Handles, NEW c \in Blocks \cup {None}, TypeOK,
           block_id' = [block_id EXCEPT ![h] = c]
    PROVE  \A b \in Blocks :
             /\ Holders(b)' = IF b = c THEN Holders(b) \cup {h} ELSE Holders(b) \ {h}
             /\ h \in Holders(b) <=> block_id[h] = b
BY DEF TypeOK, Holders

(* The holders of a block are counted. *)
LEMMA HoldersAreFinite ==
    \A b \in Blocks :
        /\ IsFiniteSet(Holders(b))
        /\ Cardinality(Holders(b)) \in Nat
        /\ Cardinality(Holders(b)) = 0 <=> Holders(b) = {}
BY AllocatorAssumption, FS_Subset, FS_CardinalityType, FS_EmptySet DEF Holders

(* The count of the holders after a handle has moved. *)
LEMMA CountsMove ==
    ASSUME NEW h \in Handles, NEW c \in Blocks \cup {None}, TypeOK,
           block_id' = [block_id EXCEPT ![h] = c], block_id[h] # c
    PROVE  \A b \in Blocks :
             Cardinality(Holders(b)') =
               IF b = c THEN Cardinality(Holders(b)) + 1
               ELSE IF b = block_id[h] THEN Cardinality(Holders(b)) - 1
               ELSE Cardinality(Holders(b))
<1> TAKE b \in Blocks
<1>1. /\ Holders(b)' = IF b = c THEN Holders(b) \cup {h} ELSE Holders(b) \ {h}
      /\ h \in Holders(b) <=> block_id[h] = b
  BY HoldersMove
<1>2. IsFiniteSet(Holders(b))
  BY HoldersAreFinite
<1>3. CASE b = c
  BY <1>1, <1>2, <1>3, FS_AddElement
<1>4. CASE b # c
  BY <1>1, <1>2, <1>4, FS_RemoveElement
<1> QED
  BY <1>3, <1>4

(* The deque without its head. *)
LEMMA PopFree ==
    ASSUME TypeOK, FreeMeansUnused, free # <<>>, free' = Tail(free)
    PROVE  /\ free' \in Seq(Blocks)
           /\ Head(free) \in Blocks
           /\ Holders(Head(free)) = {}
           /\ \A i, j \in DOMAIN free' : free'[i] = free'[j] => i = j
           /\ \A b \in Blocks : (IsFree(b))' <=> IsFree(b) /\ b # Head(free)
<1>1. /\ Len(free) \in Nat \ {0} /\ DOMAIN free = 1 .. Len(free)
      /\ Head(free) = free[1] /\ Head(free) \in Blocks
  BY DEF TypeOK
<1>2. /\ free' \in Seq(Blocks)
      /\ DOMAIN free' = 1 .. (Len(free) - 1)
      /\ \A i \in DOMAIN free' : free'[i] = free[i + 1]
  BY <1>1 DEF TypeOK
<1>3. Holders(Head(free)) = {}
  BY <1>1 DEF FreeMeansUnused, IsFree
<1>4. \A i, j \in DOMAIN free' : free'[i] = free'[j] => i = j
  BY <1>1, <1>2 DEF FreeMeansUnused
<1>5. ASSUME NEW b \in Blocks
      PROVE  (IsFree(b))' <=> IsFree(b) /\ b # Head(free)
  <2>1. ASSUME NEW i \in DOMAIN free' PROVE i + 1 \in DOMAIN free /\ free[i + 1] # Head(free)
    BY <2>1, <1>1, <1>2 DEF FreeMeansUnused
  <2>2. ASSUME NEW i \in DOMAIN free, free[i] = b, b # Head(free)
        PROVE  i - 1 \in DOMAIN free' /\ free'[i - 1] = b
    BY <2>2, <1>1, <1>2
  <2> QED
    BY <2>1, <2>2, <1>2 DEF IsFree
<1> QED
  BY <1>1, <1>2, <1>3, <1>4, <1>5

(* The deque with a block put back. *)
LEMMA PushFree ==
    ASSUME TypeOK, FreeMeansUnused, NEW c \in Blocks, ~IsFree(c), free' = <<c>> \o free
    PROVE  /\ free' \in Seq(Blocks)
           /\ \A i, j \in DOMAIN free' : free'[i] = free'[j] => i = j
           /\ \A b \in Blocks : (IsFree(b))' <=> IsFree(b) \/ b = c
<1>1. Len(free) \in Nat /\ DOMAIN free = 1 .. Len(free)
  BY DEF TypeOK
<1>2. /\ free' \in Seq(Blocks)
      /\ DOMAIN free' = 1 .. (Len(free) + 1)
      /\ free'[1] = c
      /\ \A i \in DOMAIN free : free'[i + 1] = free[i]
  BY <1>1 DEF TypeOK
<1>3. \A i \in DOMAIN free' : i # 1 => i - 1 \in DOMAIN free /\ free'[i] = free[i - 1]
  BY <1>1, <1>2
<1>4. \A i, j \in DOMAIN free' : free'[i] = free'[j] => i = j
  BY <1>1, <1>2, <1>3 DEF FreeMeansUnused, IsFree
<1>5. ASSUME NEW b \in Blocks
      PROVE  (IsFree(b))' <=> IsFree(b) \/ b = c
  <2>1. ASSUME NEW i \in DOMAIN free, free[i] = b
        PROVE  i + 1 \in DOMAIN free' /\ free'[i + 1] = b
    BY <2>1, <1>1, <1>2
  <2>2. 1 \in DOMAIN free' /\ free'[1] = c
    BY <1>1, <1>2
  <2>3. ASSUME NEW i \in DOMAIN free', free'[i] = b, b # c
        PROVE  i - 1 \in DOMAIN free /\ free[i - 1] = b
    BY <2>3, <1>2, <1>3
  <2> QED
    BY <2>1, <2>2, <2>3 DEF IsFree
<1> QED
  BY <1>2, <1>4, <1>5

-----------------------------------------------------------------------------
(* A handle without a block takes the head of the deque. *)
LEMMA AllocateKeeps ==
    ASSUME IInv, NEW h \in Handles, block_id[h] = None, allocate_block_id(h)
    PROVE  /\ free' \in Seq(Blocks) /\ refcount' \in [Blocks -> Nat]
           /\ block_id' \in [Handles -> Blocks \cup {None}]
           /\ RefcountsAreExact' /\ FreeMeansUnused'
<1> DEFINE c == Head(free)
<1> USE DEF IInv
<1>1. /\ free' \in Seq(Blocks) /\ c \in Blocks /\ Holders(c) = {}
      /\ \A i, j \in DOMAIN free' : free'[i] = free'[j] => i = j
      /\ \A b \in Blocks : (IsFree(b))' <=> IsFree(b) /\ b # c
  BY PopFree DEF allocate_block_id
<1>2. block_id' = [block_id EXCEPT ![h] = c] /\ block_id[h] # c
  BY <1>1, AllocatorAssumption DEF allocate_block_id
<1>3. \A b \in Blocks : Holders(b)' = IF b = c THEN Holders(b) \cup {h} ELSE Holders(b) \ {h}
  BY <1>1, <1>2, HoldersMove
<1>4. \A b \in Blocks : Cardinality(Holders(b)') =
          IF b = c THEN Cardinality(Holders(b)) + 1
          ELSE IF b = block_id[h] THEN Cardinality(Holders(b)) - 1
          ELSE Cardinality(Holders(b))
  BY <1>1, <1>2, CountsMove
<1>5. /\ refcount' = [refcount EXCEPT ![c] = @ + 1]
      /\ refcount' \in [Blocks -> Nat]
  BY <1>1 DEF allocate_block_id, TypeOK
<1>6. RefcountsAreExact'
  BY <1>4, <1>5, AllocatorAssumption DEF RefcountsAreExact, TypeOK
<1>7. \A b \in Blocks : h \notin Holders(b)
  BY AllocatorAssumption DEF Holders
<1>8. \A b \in Blocks : (IsFree(b))' <=> Holders(b)' = {}
  BY <1>1, <1>3, <1>7 DEF FreeMeansUnused
<1>9. FreeMeansUnused'
  BY <1>1, <1>8 DEF FreeMeansUnused
<1> QED
  BY <1>1, <1>2, <1>5, <1>6, <1>9 DEF TypeOK

(* A handle gives its block back. *)
LEMMA FreeKeeps ==
    ASSUME IInv, NEW h \in Handles, block_id[h] # None, free_block_id(h)
    PROVE  /\ free' \in Seq(Blocks) /\ refcount' \in [Blocks -> Nat]
           /\ block_id' \in [Handles -> Blocks \cup {None}]
           /\ RefcountsAreExact' /\ FreeMeansUnused'
<1> USE DEF IInv
<1>0. PICK c \in Blocks : c = block_id[h]
  BY DEF TypeOK
<1>1. c \in Blocks /\ h \in Holders(c) /\ refcount[c] = Cardinality(Holders(c))
  BY <1>0 DEF TypeOK, Holders, RefcountsAreExact
<1>2. refcount[c] \in Nat \ {0} /\ ~IsFree(c)
  BY <1>1, HoldersAreFinite DEF FreeMeansUnused
<1>3. block_id' = [block_id EXCEPT ![h] = None] /\ block_id[h] # None
  BY DEF free_block_id
<1>4. \A b \in Blocks : Cardinality(Holders(b)') =
          IF b = c THEN Cardinality(Holders(b)) - 1 ELSE Cardinality(Holders(b))
  BY ZenonT(40), <1>0, <1>3, CountsMove, AllocatorAssumption
<1>5. \A b \in Blocks : Holders(b)' = Holders(b) \ {h} /\ (h \in Holders(b) <=> b = c)
  BY <1>0, <1>3, HoldersMove, AllocatorAssumption
<1>6. refcount' = [refcount EXCEPT ![c] = @ - 1] /\ refcount' \in [Blocks -> Nat]
  BY <1>0, <1>1, <1>2 DEF free_block_id, TypeOK
<1>7. RefcountsAreExact'
  BY <1>4, <1>6 DEF RefcountsAreExact, TypeOK
<1>8. CASE refcount[c] = 1
  <2>1. free' = <<c>> \o free
    BY <1>0, <1>8 DEF free_block_id
  <2>2. /\ free' \in Seq(Blocks)
        /\ \A i, j \in DOMAIN free' : free'[i] = free'[j] => i = j
        /\ \A b \in Blocks : (IsFree(b))' <=> IsFree(b) \/ b = c
    BY <1>1, <1>2, <2>1, PushFree
  <2>3. Holders(c)' = {}
    <3>1. Cardinality(Holders(c)) = 1 /\ IsFiniteSet(Holders(c))
      BY <1>1, <1>8, HoldersAreFinite
    <3>2. Cardinality(Holders(c) \ {h}) = 0 /\ IsFiniteSet(Holders(c) \ {h})
      BY <1>1, <3>1, FS_RemoveElement
    <3>3. Holders(c) \ {h} = {}
      BY <3>2, FS_EmptySet
    <3> QED
      BY <3>3, <1>1, <1>5
  <2>4. \A b \in Blocks : (IsFree(b))' <=> Holders(b)' = {}
    BY <2>2, <2>3, <1>5 DEF FreeMeansUnused
  <2> QED
    BY <2>2, <2>4, <1>3, <1>6, <1>7 DEF FreeMeansUnused, TypeOK
<1>9. CASE refcount[c] # 1
  <2>1. free' = free
    BY <1>0, <1>9 DEF free_block_id
  <2>2. Holders(c)' # {}
    <3>1. Cardinality(Holders(c) \ {h}) = refcount[c] - 1 /\ IsFiniteSet(Holders(c) \ {h})
      BY <1>1, HoldersAreFinite, FS_RemoveElement
    <3> QED
      BY <3>1, <1>1, <1>2, <1>5, <1>9, FS_EmptySet
  <2>3. \A b \in Blocks : (IsFree(b))' <=> Holders(b)' = {}
    BY <2>1, <2>2, <1>2, <1>5 DEF FreeMeansUnused, IsFree
  <2> QED
    BY <2>1, <2>3, <1>3, <1>6, <1>7 DEF FreeMeansUnused, TypeOK
<1> QED
  BY <1>8, <1>9

-----------------------------------------------------------------------------
(* Initially the deque has every block and no handle has one. *)
LEMMA InitIInv == Init => IInv
<1> SUFFICES ASSUME Init PROVE IInv
  OBVIOUS
<1>1. \A b \in Blocks : Holders(b) = {}
  BY AllocatorAssumption DEF Init, Holders
<1>2. RefcountsAreExact
  BY <1>1, FS_EmptySet DEF Init, RefcountsAreExact
<1>3. FreeMeansUnused
  BY <1>1 DEF Init, FreeMeansUnused
<1>4. Cardinality(Blocks) \in Nat
  BY AllocatorAssumption, FS_CardinalityType
<1>5. free \in Seq(Blocks)
  BY <1>4 DEF Init
<1>6. cows \in Seq(Blocks \X Blocks)
  BY DEF Init
<1>7. TypeOK
  BY <1>5, <1>6 DEF Init, TypeOK
<1> QED
  BY <1>2, <1>3, <1>7 DEF Init, IInv, PooledHandlesAreEmpty, WriterIsAlone

(* A fork adds one holder. *)
LEMMA ForkKeeps ==
    ASSUME IInv, NEW h \in Handles, NEW child \in Handles, Fork(h, child)
    PROVE  IInv'
<1> USE DEF IInv
<1>0. PICK c \in Blocks : c = block_id[h]
  BY DEF Fork, TypeOK
<1>1. /\ block_id[child] = None /\ h # child
      /\ block_id' = [block_id EXCEPT ![child] = c] /\ block_id[child] # c
  BY <1>0, AllocatorAssumption DEF Fork, PooledHandlesAreEmpty
<1>2. \A b \in Blocks : Cardinality(Holders(b)') =
          IF b = c THEN Cardinality(Holders(b)) + 1 ELSE Cardinality(Holders(b))
  BY ZenonT(40), <1>1, CountsMove, AllocatorAssumption
<1>3. \A b \in Blocks : /\ Holders(b)' = IF b = c THEN Holders(b) \cup {child} ELSE Holders(b) \ {child}
                        /\ child \notin Holders(b)
  BY <1>1, AllocatorAssumption DEF TypeOK, Holders
<1>4. TypeOK'
  BY <1>0, <1>1 DEF Fork, TypeOK
<1>5. RefcountsAreExact'
  BY <1>0, <1>2 DEF Fork, TypeOK, RefcountsAreExact
<1>6. h \in Holders(c)
  BY <1>0 DEF Holders
<1>7. free' = free /\ \A b \in Blocks : Holders(b)' = {} <=> Holders(b) = {}
  BY <1>3, <1>6 DEF Fork
<1>8. FreeMeansUnused'
  BY <1>7 DEF FreeMeansUnused, IsFree
<1> QED
  BY <1>1, <1>4, <1>5, <1>8 DEF Fork, PooledHandlesAreEmpty, WriterIsAlone, TypeOK

(* A copy on write moves a handle from a shared block to a free one. *)
LEMMA CopyKeeps ==
    ASSUME IInv, NEW h \in Handles, CopyOnWrite(h)
    PROVE  IInv'
<1> USE DEF IInv
<1>0. PICK c \in Blocks : c = block_id[h]
  BY DEF CopyOnWrite, TypeOK
<1>1. /\ free' \in Seq(Blocks) /\ Head(free) \in Blocks /\ Holders(Head(free)) = {}
      /\ \A i, j \in DOMAIN free' : free'[i] = free'[j] => i = j
      /\ \A b \in Blocks : (IsFree(b))' <=> IsFree(b) /\ b # Head(free)
  BY PopFree DEF CopyOnWrite
<1>2. PICK d \in Blocks : d = Head(free)
  BY <1>1
<1>3. h \in Holders(c) /\ c # d
  BY <1>0, <1>1, <1>2 DEF Holders
<1>4. block_id' = [block_id EXCEPT ![h] = d] /\ block_id[h] # d
  BY <1>0, <1>2, <1>3 DEF CopyOnWrite
<1>5. \A b \in Blocks : Cardinality(Holders(b)') =
          IF b = d THEN Cardinality(Holders(b)) + 1
          ELSE IF b = c THEN Cardinality(Holders(b)) - 1
          ELSE Cardinality(Holders(b))
  BY <1>0, <1>4, CountsMove
<1>6. \A b \in Blocks : /\ Holders(b)' = IF b = d THEN Holders(b) \cup {h} ELSE Holders(b) \ {h}
                        /\ h \in Holders(b) <=> b = c
  BY <1>0, <1>4 DEF TypeOK, Holders
<1>7. refcount[c] > 1
  BY <1>0 DEF CopyOnWrite, is_appendable, TypeOK
<1>8. refcount' = [refcount EXCEPT ![c] = @ - 1, ![d] = @ + 1] /\ refcount' \in [Blocks -> Nat]
  BY <1>0, <1>2, <1>3, <1>7 DEF CopyOnWrite, TypeOK
<1>9. TypeOK'
  <2>1. cows' \in Seq(Blocks \X Blocks)
    BY <1>0, <1>2 DEF CopyOnWrite, TypeOK
  <2>2. block_id' \in [Handles -> Blocks \cup {None}]
    BY <1>4 DEF TypeOK
  <2> QED
    BY <1>1, <1>8, <2>1, <2>2 DEF CopyOnWrite, TypeOK
<1>10. RefcountsAreExact'
  BY <1>3, <1>5, <1>8 DEF TypeOK, RefcountsAreExact
<1>11. Holders(c)' # {}
  <2>1. Cardinality(Holders(c)') = refcount[c] - 1 /\ Cardinality(Holders(c)') # 0
    BY <1>3, <1>5, <1>7 DEF RefcountsAreExact, TypeOK
  <2> QED
    BY <2>1, FS_EmptySet
<1>12. ASSUME NEW b \in Blocks PROVE (IsFree(b))' <=> Holders(b)' = {}
  <2>1. (IsFree(b))' <=> Holders(b) = {} /\ b # d
    BY <1>1, <1>2 DEF FreeMeansUnused
  <2>2. CASE b = d
    BY <2>1, <2>2, <1>6
  <2>3. CASE b = c
    BY <2>1, <2>3, <1>3, <1>11
  <2>4. CASE b # c /\ b # d
    BY <2>1, <2>4, <1>6
  <2> QED
    BY <2>2, <2>3, <2>4
<1>13. FreeMeansUnused'
  BY <1>1, <1>12 DEF FreeMeansUnused
<1>14. WriterIsAlone'
  BY <1>1, <1>2, <1>4 DEF CopyOnWrite, WriterIsAlone, Holders, TypeOK
<1> QED
  BY <1>4, <1>9, <1>10, <1>13, <1>14 DEF CopyOnWrite, PooledHandlesAreEmpty, TypeOK

(* An append in place finds the handle alone on its block. *)
LEMMA AppendKeeps ==
    ASSUME IInv, NEW h \in Handles, AppendInPlace(h)
    PROVE  IInv'
<1> USE DEF IInv
<1>0. PICK c \in Blocks : c = block_id[h]
  BY DEF AppendInPlace, TypeOK
<1>1. h \in Holders(c) /\ Cardinality(Holders(c)) <= 1 /\ IsFiniteSet(Holders(c))
  BY <1>0, HoldersAreFinite DEF AppendInPlace, is_appendable, RefcountsAreExact, Holders
<1>2. Cardinality(Holders(c)) = 1
  BY <1>1, HoldersAreFinite
<1>3. \E x : Holders(c) = {x}
  BY <1>1, <1>2, FS_Singleton
<1>4. WriterIsAlone'
  BY <1>0, <1>1, <1>3 DEF AppendInPlace, WriterIsAlone, Holders, TypeOK
<1>5. RefcountsAreExact' /\ FreeMeansUnused'
  BY DEF AppendInPlace, RefcountsAreExact, FreeMeansUnused, Holders, IsFree
<1> QED
  BY <1>4, <1>5 DEF AppendInPlace, TypeOK, PooledHandlesAreEmpty

(* Every step keeps the inductive invariant. *)
LEMMA StepIInv == IInv /\ [Next]_vars => IInv'
<1> SUFFICES ASSUME IInv, [Next]_vars PROVE IInv'
  OBVIOUS
<1> USE DEF IInv
<1>1. ASSUME NEW h \in Handles, AllocateMutableBlock(h) PROVE IInv'
  <2>1. block_id[h] = None /\ allocate_block_id(h)
    BY <1>1 DEF AllocateMutableBlock, PooledHandlesAreEmpty
  <2>2. /\ free' \in Seq(Blocks) /\ refcount' \in [Blocks -> Nat]
        /\ block_id' \in [Handles -> Blocks \cup {None}]
        /\ RefcountsAreExact' /\ FreeMeansUnused'
    BY <2>1, AllocateKeeps
  <2> QED
    BY <1>1, <2>1, <2>2 DEF AllocateMutableBlock, allocate_block_id, TypeOK,
                            PooledHandlesAreEmpty, WriterIsAlone
<1>2. ASSUME NEW h \in Handles, Free(h) PROVE IInv'
  <2>1. /\ free' \in Seq(Blocks) /\ refcount' \in [Blocks -> Nat]
        /\ block_id' \in [Handles -> Blocks \cup {None}]
        /\ RefcountsAreExact' /\ FreeMeansUnused'
    BY <1>2, FreeKeeps DEF Free
  <2> QED
    BY <1>2, <2>1 DEF Free, free_block_id, TypeOK, PooledHandlesAreEmpty, WriterIsAlone
<1>3. ASSUME NEW h \in Handles, CopyOnWriteRaises(h) PROVE IInv'
  <2>1. /\ free' \in Seq(Blocks) /\ refcount' \in [Blocks -> Nat]
        /\ block_id' \in [Handles -> Blocks \cup {None}]
        /\ RefcountsAreExact' /\ FreeMeansUnused'
    BY <1>3, FreeKeeps DEF CopyOnWriteRaises
  <2> QED
    BY <1>3, <2>1 DEF CopyOnWriteRaises, free_block_id, TypeOK, PooledHandlesAreEmpty,
                      WriterIsAlone
<1>4. ASSUME NEW h \in Handles, SwapOut(h) PROVE IInv'
  <2>1. /\ free' \in Seq(Blocks) /\ refcount' \in [Blocks -> Nat]
        /\ block_id' \in [Handles -> Blocks \cup {None}]
        /\ RefcountsAreExact' /\ FreeMeansUnused'
    BY <1>4, FreeKeeps DEF SwapOut
  <2> QED
    BY <1>4, <2>1 DEF SwapOut, free_block_id, TypeOK, PooledHandlesAreEmpty, WriterIsAlone
<1>5. ASSUME NEW h \in Handles, SwapIn(h) PROVE IInv'
  <2>1. /\ free' \in Seq(Blocks) /\ refcount' \in [Blocks -> Nat]
        /\ block_id' \in [Handles -> Blocks \cup {None}]
        /\ RefcountsAreExact' /\ FreeMeansUnused'
    BY <1>5, AllocateKeeps DEF SwapIn
  <2> QED
    BY <1>5, <2>1 DEF SwapIn, allocate_block_id, TypeOK, PooledHandlesAreEmpty, WriterIsAlone
<1>6. ASSUME ClearCopyOnWrites PROVE IInv'
  BY SMTT(30), <1>6 DEF ClearCopyOnWrites, TypeOK, PooledHandlesAreEmpty, WriterIsAlone,
              RefcountsAreExact, FreeMeansUnused, Holders, IsFree
<1>7. ASSUME UNCHANGED vars PROVE IInv'
  BY <1>7 DEF vars, TypeOK, PooledHandlesAreEmpty, WriterIsAlone,
              RefcountsAreExact, FreeMeansUnused, Holders, IsFree
<1> QED
  BY <1>1, <1>2, <1>3, <1>4, <1>5, <1>6, <1>7, ForkKeeps, CopyKeeps, AppendKeeps
     DEF Next, Step

(* Whatever is allocated, forked, written, swapped and freed, in whatever  *)
(* order and with however many blocks: counts are exact, a block is free   *)
(* exactly when no handle has it, and a write never hits a shared block.   *)
THEOREM AllocatorIsSafe == Spec => []AllocatorIsConsistent
<1>1. IInv => AllocatorIsConsistent
  BY DEF IInv, AllocatorIsConsistent
<1> QED
  BY <1>1, InitIInv, StepIInv, PTL DEF Spec

-----------------------------------------------------------------------------
(* The text: what the decoding computes *)

(* A nonempty set of natural numbers has a least element.                  *)
LEMMA LeastIndex ==
    ASSUME NEW S \in SUBSET Nat, S # {}
    PROVE  \E n \in S : \A k \in S : n <= k
<1> DEFINE Less == {ss \in Nat \X Nat : ss[1] < ss[2]}
<1>1. IsWellFoundedOn(Less, Nat)
  BY NatLessThanWellFounded, Zenon DEF OpToRel
<1> HIDE DEF Less
<1>2. PICK n \in S : \A k \in S : ~(<<k, n>> \in Less)
  BY <1>1, WFMin, Zenon
<1>3. ASSUME NEW k \in S, k < n PROVE FALSE
  <2>1. <<k, n>> \in Nat \X Nat /\ <<k, n>>[1] < <<k, n>>[2]
    BY <1>3
  <2>2. <<k, n>> \in Less
    BY <2>1, Zenon DEF Less
  <2> QED
    BY <1>2, <2>2
<1> QED
  BY <1>2, <1>3

(* Induction up to n, over a set.                                          *)
LEMMA UpTo ==
    ASSUME NEW n \in Nat, NEW S, 0 \in S, \A k \in 1 .. n : k - 1 \in S => k \in S
    PROVE  \A k \in 0 .. n : k \in S
<1> DEFINE bad == {k \in 0 .. n : k \notin S}
<1>1. bad = {}
  <2> SUFFICES ASSUME bad # {} PROVE FALSE
    OBVIOUS
  <2>1. bad \in SUBSET Nat
    OBVIOUS
  <2>2. PICK k \in bad : \A j \in bad : k <= j
    <3> HIDE DEF bad
    <3> QED
      BY <2>1, LeastIndex
  <2>3. k \in 0 .. n /\ k \notin S /\ k # 0
    BY <2>2
  <2>4. k \in 1 .. n /\ k - 1 \in 0 .. n /\ ~(k <= k - 1)
    BY <2>3
  <2>5. k - 1 \in S
    BY <2>2, <2>4
  <2> QED
    BY <2>3, <2>4, <2>5
<1> QED
  BY <1>1

\* What is read of n items, one after the other, when step[k] reads the k-th.
IsRead(f, A, base, n, step) ==
    /\ f \in [0 .. n -> A]
    /\ f[0] = base
    /\ \A k \in 1 .. n : f[k] = step[k][f[k - 1]]

(* A fold: whatever the steps do, there is a function of the items read.   *)
LEMMA Readable ==
    ASSUME NEW A, NEW base \in A, NEW n \in Nat, NEW step \in [1 .. n -> [A -> A]]
    PROVE  \E f : IsRead(f, A, base, n, step)
<1> DEFINE Solves(f, j) == /\ f \in [0 .. j -> A] /\ f[0] = base
                           /\ \A k \in 1 .. j : f[k] = step[k][f[k - 1]]
           S == {j \in 0 .. n : \E f : Solves(f, j)}
<1>1. 0 \in S
  <2>1. Solves([k \in 0 .. 0 |-> base], 0)
    OBVIOUS
  <2>2. \E f : Solves(f, 0)
    <3> HIDE DEF Solves
    <3> QED
      BY <2>1, Zenon
  <2>3. 0 \in 0 .. n
    OBVIOUS
  <2> HIDE DEF Solves
  <2> QED
    BY <2>2, <2>3
<1>2. ASSUME NEW j \in 1 .. n, j - 1 \in S PROVE j \in S
  <2>5. j \in 0 .. n /\ j \in Nat
    OBVIOUS
  <2>6. PICK f : Solves(f, j - 1)
    BY <1>2
  <2> DEFINE h == [k \in 0 .. j |-> IF k = j THEN step[j][f[j - 1]] ELSE f[k]]
  <2>12. f \in [0 .. j - 1 -> A] /\ f[0] = base
    BY <2>6
  <2>13. j - 1 \in 0 .. j - 1 /\ \A k \in 0 .. j - 1 : k # j /\ k \in 0 .. j
    BY <2>5
  <2>7. \A k \in 0 .. j - 1 : h[k] = f[k] /\ f[k] \in A
    BY <2>12, <2>13, Zenon
  <2>8. h[j] = step[j][f[j - 1]] /\ h[j] \in A
    <3>1. f[j - 1] \in A /\ step[j] \in [A -> A]
      BY <2>5, <2>12, <2>13
    <3>2. j \in 0 .. j
      BY <2>5
    <3> QED
      BY <3>1, <3>2
  <2>9. \A k \in 0 .. j : h[k] \in A
    <3>1. \A k \in 0 .. j : k = j \/ k \in 0 .. j - 1
      BY <2>5
    <3> HIDE DEF h
    <3> QED
      BY <2>7, <2>8, <3>1
  <2>10. \A k \in 1 .. j : h[k] = step[k][h[k - 1]]
    <3> SUFFICES ASSUME NEW k \in 1 .. j PROVE h[k] = step[k][h[k - 1]]
      OBVIOUS
    <3>1. k - 1 \in 0 .. j - 1 /\ h[k - 1] = f[k - 1]
      BY <2>5, <2>7
    <3>2. CASE k = j
      BY <2>8, <3>1, <3>2
    <3>3. CASE k # j
      <4>1. k \in 1 .. j - 1 /\ k \in 0 .. j - 1
        BY <2>5, <3>3
      <4> QED
        BY <2>6, <2>7, <3>1, <4>1
    <3> QED
      BY <3>2, <3>3
  <2>11. Solves(h, j)
    <3>1. h \in [0 .. j -> A]
      BY <2>9
    <3>2. h[0] = base
      BY <2>5, <2>6, <2>7
    <3> QED
      BY <2>10, <3>1, <3>2
  <2> HIDE DEF Solves
  <2> QED
    BY <2>5, <2>11
<1>3. n \in S
  <2>1. n \in 0 .. n
    OBVIOUS
  <2> HIDE DEF S
  <2> QED
    BY <1>1, <1>2, <2>1, UpTo
<1> QED
  BY <1>3 DEF IsRead

\* The recursion of FlattenSeq, for m sequences.
Flattens(g, seqs, m) ==
    g = [i \in 1 .. m |-> IF i = 1 THEN seqs[i] ELSE g[i - 1] \o seqs[i]]

\* What FlattenSeq has put together of each number of the sequences.
IsFlat(F, seqs, S) ==
    /\ FlattenSeq(seqs) = F[Len(seqs)]
    /\ \A i \in 1 .. Len(seqs) : /\ F[i] \in Seq(S)
                                 /\ F[i] = IF i = 1 THEN seqs[i] ELSE F[i - 1] \o seqs[i]

(* FlattenSeq puts sequences together.                                     *)
LEMMA FlattenSteps ==
    ASSUME NEW S, NEW seqs \in Seq(Seq(S)), Len(seqs) # 0
    PROVE  \E F : IsFlat(F, seqs, S)
<1> DEFINE m == Len(seqs)
<1>1. m \in Nat
  OBVIOUS
<1>3. m # 0
  OBVIOUS
<1>4. QED
  <2>1. m \in Nat \ {0} /\ 1 \in 1 .. m /\ m \in 1 .. m
    BY <1>1, <1>3
  <2>2. \A i \in 1 .. m : seqs[i] \in Seq(S)
    OBVIOUS
  <2> DEFINE step == [i \in 1 .. m - 1 |-> [s \in Seq(S) |-> s \o seqs[i + 1]]]
  <2>3. m - 1 \in Nat /\ \A i \in 1 .. m - 1 : i + 1 \in 1 .. m
    BY <2>1
  <2>4. step \in [1 .. m - 1 -> [Seq(S) -> Seq(S)]]
    BY <2>2, <2>3
  <2>5. PICK f \in [0 .. m - 1 -> Seq(S)] :
            f[0] = seqs[1] /\ \A k \in 1 .. m - 1 : f[k] = step[k][f[k - 1]]
    <3> DEFINE n == m - 1
               A == Seq(S)
               base == seqs[1]
    <3>1. base \in A /\ n \in Nat /\ step \in [1 .. n -> [A -> A]]
      BY <2>1, <2>2, <2>3, <2>4
    <3> HIDE DEF step, n, A, base
    <3>2. \E f : IsRead(f, A, base, n, step)
      BY <3>1, Readable, Zenon
    <3> USE DEF n, A, base
    <3> QED
      BY <3>2, Zenon DEF IsRead
  <2> DEFINE G == [i \in 1 .. m |-> f[i - 1]]
             F == CHOOSE g : Flattens(g, seqs, m)
  <2>6. \A i \in 1 .. m : i - 1 \in 0 .. m - 1 /\ (i # 1 => i - 1 \in 1 .. m - 1 /\ i - 1 \in 1 .. m
                                                    /\ i - 1 - 1 \in 0 .. m - 1 /\ i - 1 + 1 = i)
    BY <2>1
  <2>7. \A i \in 1 .. m : G[i] = IF i = 1 THEN seqs[i] ELSE G[i - 1] \o seqs[i]
    <3> SUFFICES ASSUME NEW i \in 1 .. m, i # 1 PROVE G[i] = G[i - 1] \o seqs[i]
      <4>1. G[1] = f[1 - 1] /\ 1 - 1 = 0
        BY <2>1
      <4> HIDE DEF G
      <4> QED
        BY <2>5, <4>1
    <3>1. f[i - 1] = step[i - 1][f[i - 1 - 1]] /\ f[i - 1 - 1] \in Seq(S)
      BY <2>5, <2>6
    <3>2. step[i - 1][f[i - 1 - 1]] = f[i - 1 - 1] \o seqs[i]
      BY <2>6, <3>1
    <3> QED
      BY <2>6, <3>1, <3>2
  <2>8. Flattens(G, seqs, m)
    <3> HIDE DEF m
    <3> QED
      BY <2>7 DEF Flattens
  <2>9. Flattens(F, seqs, m)
    <3> HIDE DEF G
    <3> QED
      BY <2>8
  <2>10. FlattenSeq(seqs) = F[m]
    BY <1>3, SMTT(60) DEF FlattenSeq, Flattens
  <2>11. \A i \in 1 .. m : F[i] = IF i = 1 THEN seqs[i] ELSE F[i - 1] \o seqs[i]
    <3> HIDE DEF F, m
    <3> QED
      BY <2>9, ZenonT(60) DEF Flattens
  <2> DEFINE R == {k \in 0 .. m : k = 0 \/ F[k] \in Seq(S)}
  <2>12. \A k \in 0 .. m : k \in R
    <3> HIDE DEF F
    <3>1. 0 \in R
      BY <2>1
    <3>2. ASSUME NEW k \in 1 .. m, k - 1 \in R PROVE k \in R
      <4>1. k = 1 \/ F[k - 1] \in Seq(S)
        BY <3>2
      <4>2. seqs[k] \in Seq(S) /\ F[k] = IF k = 1 THEN seqs[k] ELSE F[k - 1] \o seqs[k]
        BY <2>2, <2>11
      <4>3. F[k] \in Seq(S)
        BY <4>1, <4>2
      <4> QED
        BY <4>3
    <3> HIDE DEF R, m
    <3> QED
      BY <1>1, <3>1, <3>2, UpTo
  <2>13. \A i \in 1 .. m : F[i] \in Seq(S)
    <3> HIDE DEF F
    <3> QED
      BY <2>1, <2>12
  <2> HIDE DEF F
  <2> QED
    BY <2>10, <2>11, <2>13, Zenon DEF m, IsFlat

(* What FlattenSeq gives, and gives of no and of one sequence.             *)
LEMMA Flattened ==
    ASSUME NEW S, NEW seqs \in Seq(Seq(S))
    PROVE  /\ FlattenSeq(seqs) \in Seq(S)
           /\ Len(seqs) = 0 => FlattenSeq(seqs) = <<>>
           /\ Len(seqs) = 1 => FlattenSeq(seqs) = seqs[1]
<1>1. Len(seqs) \in Nat
  OBVIOUS
<1>2. CASE Len(seqs) = 0
  BY <1>2 DEF FlattenSeq
<1>3. CASE Len(seqs) # 0
  <2>1. PICK F : IsFlat(F, seqs, S)
    BY <1>3, FlattenSteps
  <2>2. Len(seqs) \in 1 .. Len(seqs)
    BY <1>1, <1>3
  <2> QED
    BY <1>3, <2>1, <2>2 DEF IsFlat
<1> QED
  BY <1>2, <1>3

(* What the tokenizers of the two kinds have read.                         *)
ByteLevelRead(bytes) ==
    CHOOSE read : read = [k \in 0 .. Len(bytes) |->
                              IF k = 0 THEN [text |-> <<>>, lead |-> FALSE]
                              ELSE ByteLevelStep(read[k - 1], bytes[k])]

FallbackRead(bytes) ==
    CHOOSE read : read = [k \in 0 .. Len(bytes) |->
                              IF k = 0 THEN [text |-> <<>>, run |-> <<>>]
                              ELSE ByteFallbackStep(read[k - 1], bytes[k])]

ByteLevelStates == [text : Seq(Nat), lead : BOOLEAN]
FallbackStates == [text : Seq(Nat), run : Seq(Nat)]

(* The characters that a byte completes.                                   *)
LEMMA ByteCharsAre ==
    ASSUME NEW lead, NEW x \in Nat
    PROVE  ByteChars(lead, x) \in Seq(Nat)
<1>1. Bad \in Nat /\ Wide \in Nat
  BY DEF Bad, Wide
<1>2. /\ <<>> \in Seq(Nat) /\ <<Bad>> \in Seq(Nat) /\ <<Wide>> \in Seq(Nat)
      /\ <<x>> \in Seq(Nat) /\ <<Bad, x>> \in Seq(Nat)
  BY <1>1
<1>3. CASE x = Lead
  BY <1>2, <1>3 DEF ByteChars, Lead, Cont
<1>4. CASE x = Cont
  BY <1>2, <1>4 DEF ByteChars, Lead, Cont
<1>5. CASE x # Lead /\ x # Cont
  BY <1>2, <1>5 DEF ByteChars
<1> QED
  BY <1>3, <1>4, <1>5

(* One byte.                                                               *)
LEMMA ByteLevelSteps ==
    ASSUME NEW acc \in ByteLevelStates, NEW x \in Nat
    PROVE  ByteLevelStep(acc, x) \in ByteLevelStates
<1> DEFINE chars == ByteChars(acc.lead, x)
           text == acc.text \o chars
<1>1. acc.text \in Seq(Nat) /\ chars \in Seq(Nat)
  BY ByteCharsAre DEF ByteLevelStates
<1> HIDE DEF chars
<1>2. text \in Seq(Nat)
  BY <1>1
<1> HIDE DEF text
<1>3. [text |-> text, lead |-> x = Lead] \in ByteLevelStates
  BY <1>2 DEF ByteLevelStates
<1> QED
  BY <1>3 DEF ByteLevelStep, text, chars

(* A run that is complete.                                                 *)
LEMMA FlushedRun ==
    ASSUME NEW acc, acc.text \in Seq(Nat), acc.run \in Seq(Nat)
    PROVE  FlushRun(acc) \in Seq(Nat)
<1> DEFINE run == acc.run
           half == Len(run) \div 2
<1>1. run \in Seq(Nat)
  OBVIOUS
<1> HIDE DEF run
<1>2. half \in Nat /\ Len(run) \in Nat /\ DOMAIN run = 1 .. Len(run)
  BY <1>1
<1>3. Bad \in Nat /\ Wide \in Nat
  BY DEF Bad, Wide
<1> HIDE DEF half
<1>4. [i \in 1 .. half |-> Wide] \in Seq(Nat) /\ [i \in DOMAIN run |-> Bad] \in Seq(Nat)
  BY <1>2, <1>3
<1>5. /\ acc.text \o [i \in 1 .. half |-> Wide] \in Seq(Nat)
      /\ acc.text \o [i \in DOMAIN run |-> Bad] \in Seq(Nat)
  BY <1>4
<1> QED
  BY <1>5, Zenon DEF FlushRun, run, half

(* One byte.                                                               *)
LEMMA FallbackSteps ==
    ASSUME NEW acc \in FallbackStates, NEW x \in Nat
    PROVE  ByteFallbackStep(acc, x) \in FallbackStates
<1>1. acc.text \in Seq(Nat) /\ acc.run \in Seq(Nat) /\ acc = [text |-> acc.text, run |-> acc.run]
  BY DEF FallbackStates
<1>2. FlushRun(acc) \in Seq(Nat)
  BY <1>1, FlushedRun
<1>3. Append(FlushRun(acc), x) \in Seq(Nat) /\ Append(acc.run, x) \in Seq(Nat) /\ <<>> \in Seq(Nat)
  BY <1>1, <1>2
<1>4. /\ [acc EXCEPT !.run = Append(@, x)] \in FallbackStates
      /\ [text |-> Append(FlushRun(acc), x), run |-> <<>>] \in FallbackStates
  BY <1>1, <1>3 DEF FallbackStates
<1> QED
  BY <1>4 DEF ByteFallbackStep

(* ByteLevel, by the states it goes through.                               *)
LEMMA ByteLevelIs ==
    ASSUME NEW bytes \in Seq(Nat)
    PROVE  /\ ByteLevelRead(bytes) \in [0 .. Len(bytes) -> ByteLevelStates]
           /\ ByteLevelRead(bytes)[0] = [text |-> <<>>, lead |-> FALSE]
           /\ \A k \in 1 .. Len(bytes) :
                 ByteLevelRead(bytes)[k] = ByteLevelStep(ByteLevelRead(bytes)[k - 1], bytes[k])
           /\ ByteLevel(bytes) = FlushLead(ByteLevelRead(bytes)[Len(bytes)])
<1> DEFINE n == Len(bytes)
           A == ByteLevelStates
           base == [text |-> <<>>, lead |-> FALSE]
           step == [k \in 1 .. n |-> [a \in A |-> ByteLevelStep(a, bytes[k])]]
           Solves(f) == f = [k \in 0 .. n |-> IF k = 0 THEN base
                                              ELSE ByteLevelStep(f[k - 1], bytes[k])]
           R == ByteLevelRead(bytes)
<1>1. n \in Nat /\ \A k \in 1 .. n : bytes[k] \in Nat
  OBVIOUS
<1>2. base \in A
  BY DEF ByteLevelStates
<1>3. step \in [1 .. n -> [A -> A]]
  <2> HIDE DEF n
  <2> QED
    BY <1>1, ByteLevelSteps
<1>4. \E f : IsRead(f, A, base, n, step)
  <2> HIDE DEF n, A, base, step
  <2> QED
    BY <1>1, <1>2, <1>3, Readable, Zenon
<1>5. PICK f \in [0 .. n -> A] : f[0] = base /\ \A k \in 1 .. n : f[k] = step[k][f[k - 1]]
  <2> HIDE DEF A, base, step, n
  <2> QED
    BY <1>4, Zenon DEF IsRead
<1>6. \A k \in 0 .. n : k # 0 => k \in 1 .. n /\ k - 1 \in 0 .. n
  BY <1>1
<1>7. \A k \in 1 .. n : step[k][f[k - 1]] = ByteLevelStep(f[k - 1], bytes[k])
  <2> HIDE DEF n, A
  <2>1. \A k \in 1 .. n : f[k - 1] \in A
    BY <1>1, <1>5, <1>6
  <2> QED
    BY <2>1
<1>8. Solves(f)
  <2>1. \A k \in 0 .. n : f[k] = IF k = 0 THEN base ELSE ByteLevelStep(f[k - 1], bytes[k])
    <3> HIDE DEF step, n, A, base
    <3> QED
      BY <1>5, <1>6, <1>7
  <2> HIDE DEF n, A, base
  <2> QED
    BY <1>5, <2>1
<1>9. Solves(R)
  <2>1. R = CHOOSE r : Solves(r)
    BY DEF ByteLevelRead
  <2> HIDE DEF Solves, R
  <2> QED
    BY <1>8, <2>1
<1>10. ByteLevel(bytes) = FlushLead(R[n])
  BY DEF ByteLevel, ByteLevelRead
<1> HIDE DEF R, n, step
<1>11. /\ DOMAIN R = 0 .. n
       /\ \A k \in 0 .. n : R[k] = IF k = 0 THEN base ELSE ByteLevelStep(R[k - 1], bytes[k])
       /\ R = [k \in 0 .. n |-> R[k]]
  <2> HIDE DEF base
  <2> QED
    BY <1>9, ZenonT(60)
<1> DEFINE S == {k \in 0 .. n : R[k] \in A}
<1>12. \A k \in 0 .. n : k \in S
  <2> HIDE DEF A, base
  <2>1. 0 \in S
    <3>1. 0 \in 0 .. n
      BY <1>1
    <3>2. R[0] \in A
      BY <1>2, <1>11, <3>1
    <3> QED
      BY <3>1, <3>2
  <2>2. ASSUME NEW k \in 1 .. n, k - 1 \in S PROVE k \in S
    <3>1. ByteLevelStep(R[k - 1], bytes[k]) \in A
      BY <1>1, <2>2, ByteLevelSteps DEF A
    <3>2. k \in 0 .. n /\ k # 0
      BY <1>1
    <3>3. R[k] \in A
      BY <1>11, <3>1, <3>2
    <3> QED
      BY <3>2, <3>3
  <2> HIDE DEF S
  <2> QED
    BY <1>1, <2>1, <2>2, UpTo
<1>13. R \in [0 .. n -> A]
  <2> HIDE DEF A
  <2> QED
    BY <1>11, <1>12
<1>14. R[0] = base /\ \A k \in 1 .. n : R[k] = ByteLevelStep(R[k - 1], bytes[k])
  <2>1. 0 \in 0 .. n /\ \A k \in 1 .. n : k \in 0 .. n /\ k # 0
    BY <1>1
  <2> HIDE DEF base
  <2> QED
    BY <1>11, <2>1
<1> QED
  BY <1>10, <1>13, <1>14 DEF R, n

(* SentencePiece, by the states it goes through.                           *)
LEMMA SentencePieceIs ==
    ASSUME NEW bytes \in Seq(Nat)
    PROVE  /\ FallbackRead(bytes) \in [0 .. Len(bytes) -> FallbackStates]
           /\ FallbackRead(bytes)[0] = [text |-> <<>>, run |-> <<>>]
           /\ \A k \in 1 .. Len(bytes) :
                 FallbackRead(bytes)[k] = ByteFallbackStep(FallbackRead(bytes)[k - 1], bytes[k])
           /\ SentencePiece(bytes) = WithoutFirstSpace(FlushRun(FallbackRead(bytes)[Len(bytes)]))
<1> DEFINE n == Len(bytes)
           A == FallbackStates
           base == [text |-> <<>>, run |-> <<>>]
           step == [k \in 1 .. n |-> [a \in A |-> ByteFallbackStep(a, bytes[k])]]
           Solves(f) == f = [k \in 0 .. n |-> IF k = 0 THEN base
                                              ELSE ByteFallbackStep(f[k - 1], bytes[k])]
           R == FallbackRead(bytes)
<1>1. n \in Nat /\ \A k \in 1 .. n : bytes[k] \in Nat
  OBVIOUS
<1>2. base \in A
  BY DEF FallbackStates
<1>3. step \in [1 .. n -> [A -> A]]
  <2> HIDE DEF n
  <2> QED
    BY <1>1, FallbackSteps
<1>4. \E f : IsRead(f, A, base, n, step)
  <2> HIDE DEF n, A, base, step
  <2> QED
    BY <1>1, <1>2, <1>3, Readable, Zenon
<1>5. PICK f \in [0 .. n -> A] : f[0] = base /\ \A k \in 1 .. n : f[k] = step[k][f[k - 1]]
  <2> HIDE DEF A, base, step, n
  <2> QED
    BY <1>4, Zenon DEF IsRead
<1>6. \A k \in 0 .. n : k # 0 => k \in 1 .. n /\ k - 1 \in 0 .. n
  BY <1>1
<1>7. \A k \in 1 .. n : step[k][f[k - 1]] = ByteFallbackStep(f[k - 1], bytes[k])
  <2> HIDE DEF n, A
  <2>1. \A k \in 1 .. n : f[k - 1] \in A
    BY <1>1, <1>5, <1>6
  <2> QED
    BY <2>1
<1>8. Solves(f)
  <2>1. \A k \in 0 .. n : f[k] = IF k = 0 THEN base ELSE ByteFallbackStep(f[k - 1], bytes[k])
    <3> HIDE DEF step, n, A, base
    <3> QED
      BY <1>5, <1>6, <1>7
  <2> HIDE DEF n, A, base
  <2> QED
    BY <1>5, <2>1
<1>9. Solves(R)
  <2>1. R = CHOOSE r : Solves(r)
    BY DEF FallbackRead
  <2> HIDE DEF Solves, R
  <2> QED
    BY <1>8, <2>1
<1>10. SentencePiece(bytes) = WithoutFirstSpace(FlushRun(R[n]))
  BY DEF SentencePiece, FallbackRead
<1> HIDE DEF R, n, step
<1>11. /\ DOMAIN R = 0 .. n
       /\ \A k \in 0 .. n : R[k] = IF k = 0 THEN base ELSE ByteFallbackStep(R[k - 1], bytes[k])
       /\ R = [k \in 0 .. n |-> R[k]]
  <2> HIDE DEF base
  <2> QED
    BY <1>9, ZenonT(60)
<1> DEFINE S == {k \in 0 .. n : R[k] \in A}
<1>12. \A k \in 0 .. n : k \in S
  <2> HIDE DEF A, base
  <2>1. 0 \in S
    <3>1. 0 \in 0 .. n
      BY <1>1
    <3>2. R[0] \in A
      BY <1>2, <1>11, <3>1
    <3> QED
      BY <3>1, <3>2
  <2>2. ASSUME NEW k \in 1 .. n, k - 1 \in S PROVE k \in S
    <3>1. ByteFallbackStep(R[k - 1], bytes[k]) \in A
      BY <1>1, <2>2, FallbackSteps DEF A
    <3>2. k \in 0 .. n /\ k # 0
      BY <1>1
    <3>3. R[k] \in A
      BY <1>11, <3>1, <3>2
    <3> QED
      BY <3>2, <3>3
  <2> HIDE DEF S
  <2> QED
    BY <1>1, <2>1, <2>2, UpTo
<1>13. R \in [0 .. n -> A]
  <2> HIDE DEF A
  <2> QED
    BY <1>11, <1>12
<1>14. R[0] = base /\ \A k \in 1 .. n : R[k] = ByteFallbackStep(R[k - 1], bytes[k])
  <2>1. 0 \in 0 .. n /\ \A k \in 1 .. n : k \in 0 .. n /\ k # 0
    BY <1>1
  <2> HIDE DEF base
  <2> QED
    BY <1>11, <2>1
<1> QED
  BY <1>10, <1>13, <1>14 DEF R, n

(* The text that ByteLevel gives.                                          *)
LEMMA ByteLevelText ==
    ASSUME NEW bytes \in Seq(Nat)
    PROVE  ByteLevel(bytes) \in Seq(Nat)
<1> DEFINE n == Len(bytes)
           acc == ByteLevelRead(bytes)[n]
<1>1. n \in 0 .. n
  OBVIOUS
<1>2. acc \in ByteLevelStates /\ ByteLevel(bytes) = FlushLead(acc)
  BY <1>1, ByteLevelIs
<1> HIDE DEF acc
<1>3. acc.text \in Seq(Nat) /\ Bad \in Nat
  BY <1>2 DEF ByteLevelStates, Bad
<1>4. Append(acc.text, Bad) \in Seq(Nat)
  BY <1>3
<1> QED
  BY <1>2, <1>3, <1>4 DEF FlushLead

(* Of no bytes it is empty.                                                *)
LEMMA NothingIsNoText == ByteLevel(<<>>) = <<>>
<1> DEFINE bytes == <<>>
           n == Len(bytes)
           R == ByteLevelRead(bytes)
<1>1. bytes \in Seq(Nat) /\ n = 0
  OBVIOUS
<1> HIDE DEF bytes
<1>2. R[0] = [text |-> <<>>, lead |-> FALSE] /\ ByteLevel(bytes) = FlushLead(R[n])
  BY <1>1, ByteLevelIs
<1> HIDE DEF R
<1>3. ByteLevel(bytes) = <<>>
  BY <1>1, <1>2 DEF FlushLead
<1> QED
  BY <1>3 DEF bytes

(* The text of tokens.                                                     *)
LEMMA TextOfTokens ==
    ASSUME NEW ts \in Seq(Seq(Nat))
    PROVE  convert_tokens_to_string(ts) \in Seq(Nat)
<1> DEFINE bytes == FlattenSeq(ts)
           n == Len(bytes)
<1>1. bytes \in Seq(Nat)
  BY Flattened
<1> HIDE DEF bytes
<1>2. n \in Nat /\ n \in 0 .. n
  BY <1>1
<1>3. ByteLevel(bytes) \in Seq(Nat)
  BY <1>1, ByteLevelText
<1>4. SentencePiece(bytes) \in Seq(Nat)
  <2> DEFINE acc == FallbackRead(bytes)[n]
  <2>1. acc \in FallbackStates /\ SentencePiece(bytes) = WithoutFirstSpace(FlushRun(acc))
    BY <1>1, <1>2, SentencePieceIs
  <2> HIDE DEF acc
  <2>2. acc.text \in Seq(Nat) /\ acc.run \in Seq(Nat)
    BY <2>1 DEF FallbackStates
  <2> DEFINE text == FlushRun(acc)
  <2>3. text \in Seq(Nat)
    BY <2>2, FlushedRun
  <2> HIDE DEF text
  <2>4. WithoutFirstSpace(text) \in Seq(Nat)
    BY <2>3 DEF WithoutFirstSpace
  <2> QED
    BY <2>1, <2>4 DEF text
<1> QED
  BY <1>3, <1>4 DEF convert_tokens_to_string, bytes

(* The tokens of ids.                                                      *)
LEMMA TokensOfIds ==
    ASSUME NEW ids \in Seq(TokenIds), NEW skip
    PROVE  ToTokens(ids, skip) \in Seq(Seq(Nat))
<1> DEFINE each == [k \in DOMAIN ids |-> IF skip /\ ids[k] \in SpecialIds
                                         THEN <<>> ELSE <<TokenBytes[ids[k]]>>]
<1>1. DOMAIN ids = 1 .. Len(ids) /\ Len(ids) \in Nat
  OBVIOUS
<1>2. \A k \in 1 .. Len(ids) : TokenBytes[ids[k]] \in Seq(Nat)
  BY TextAssumption
<1>3. \A k \in 1 .. Len(ids) : each[k] \in Seq(Seq(Nat))
  <2> SUFFICES ASSUME NEW k \in 1 .. Len(ids) PROVE each[k] \in Seq(Seq(Nat))
    OBVIOUS
  <2> DEFINE b == TokenBytes[ids[k]]
             S == Seq(Nat)
  <2>1. b \in S
    BY <1>2
  <2> HIDE DEF b, S
  <2>2. <<b>> \in Seq(S) /\ <<>> \in Seq(S)
    BY <2>1
  <2>3. each[k] = <<>> \/ each[k] = <<b>>
    BY <1>1 DEF b
  <2> QED
    BY <2>2, <2>3 DEF S
<1>4. each \in Seq(Seq(Seq(Nat)))
  <2> DEFINE S == Seq(Seq(Nat))
             n == Len(ids)
  <2>1. DOMAIN each = 1 .. n /\ n \in Nat /\ each = [k \in 1 .. n |-> each[k]]
    BY <1>1
  <2>2. \A k \in 1 .. n : each[k] \in S
    BY <1>3
  <2> HIDE DEF each, S, n
  <2>3. each \in [1 .. n -> S]
    BY <2>1, <2>2
  <2>4. each \in Seq(S)
    BY <2>1, <2>3
  <2> QED
    BY <2>4 DEF S
<1>5. ToTokens(ids, skip) = FlattenSeq(each)
  BY DEF ToTokens
<1> HIDE DEF each
<1> DEFINE S == Seq(Nat)
<1>6. each \in Seq(Seq(S))
  BY <1>4
<1> HIDE DEF S
<1>7. FlattenSeq(each) \in Seq(S)
  BY <1>6, Flattened
<1> QED
  BY <1>5, <1>7 DEF S

(* The text that a token adds.                                             *)
LEMMA NewTextType ==
    ASSUME NEW ts \in Seq(Seq(Nat)), prefix_offset \in Nat, read_offset \in Nat,
           read_offset <= Len(ts)
    PROVE  NewText(ts) \in Seq(Nat)
<1> DEFINE S == Seq(Nat)
           before == SubSeq(ts, prefix_offset + 1, read_offset)
           all == SubSeq(ts, prefix_offset + 1, Len(ts))
           prefix_text == convert_tokens_to_string(before)
           new_text == convert_tokens_to_string(all)
<1>1. before \in Seq(Seq(Nat)) /\ all \in Seq(Seq(Nat))
  <2>1. ts \in Seq(S)
    OBVIOUS
  <2> HIDE DEF S
  <2>2. before \in Seq(S) /\ all \in Seq(S)
    BY <2>1
  <2> QED
    BY <2>2 DEF S
<1>2. prefix_text \in Seq(Nat) /\ new_text \in Seq(Nat)
  <2> HIDE DEF before, all
  <2> QED
    BY <1>1, TextOfTokens
<1>3. NewText(ts) = <<>> \/ NewText(ts) = SubSeq(new_text, Len(prefix_text) + 1, Len(new_text))
  BY DEF NewText
<1> HIDE DEF prefix_text, new_text
<1>4. SubSeq(new_text, Len(prefix_text) + 1, Len(new_text)) \in Seq(Nat)
  BY <1>2
<1>5. <<>> \in Seq(Nat)
  OBVIOUS
<1> QED
  BY <1>3, <1>4, <1>5, Zenon

-----------------------------------------------------------------------------
(* The text: what str.find finds *)

\* str is in text, behind its first i characters.
At(text, str, i) ==
    /\ i \in Nat /\ i + Len(str) <= Len(text)
    /\ \A k \in 1 .. Len(str) : text[i + k] = str[k]

From(text, start) ==
    IF start >= 0 THEN start ELSE IF Len(text) + start < 0 THEN 0 ELSE Len(text) + start

(* A string at a place.                                                    *)
LEMMA SameThere ==
    ASSUME NEW text \in Seq(Nat), NEW str \in Seq(Nat), NEW i \in Nat, i + Len(str) <= Len(text)
    PROVE  SubSeq(text, i + 1, i + Len(str)) = str <=> At(text, str, i)
<1> DEFINE n == Len(str)
           sub == SubSeq(text, i + 1, i + n)
<1>1. n \in Nat /\ Len(text) \in Nat
  OBVIOUS
<1>2. sub \in Seq(Nat) /\ Len(sub) = n /\ \A k \in 1 .. n : sub[k] = text[i + k]
  <2> HIDE DEF n
  <2>1. i + 1 \in 1 .. Len(text) + 1 /\ i + n \in 0 .. Len(text)
    BY <1>1 DEF n
  <2>2. /\ Len(sub) = n /\ sub \in Seq(Nat)
        /\ \A k \in 1 .. n : sub[k] = text[i + 1 + k - 1]
    BY <1>1, <2>1, SMTT(60)
  <2> QED
    BY <1>1, <2>2
<1>3. (\A k \in 1 .. n : sub[k] = str[k]) => sub = str
  <2> DEFINE s == sub
  <2>1. s \in Seq(Nat) /\ Len(s) = Len(str)
    BY <1>2
  <2> HIDE DEF s
  <2>2. (\A k \in 1 .. Len(str) : s[k] = str[k]) => s = str
    BY <2>1, SeqEqual
  <2> QED
    BY <2>2 DEF s
<1> HIDE DEF sub, n
<1>4. sub = str <=> \A k \in 1 .. n : text[i + k] = str[k]
  BY <1>2, <1>3
<1> QED
  BY <1>4 DEF sub, n, At

(* The first place from start on.                                          *)
LEMMA FindIs ==
    ASSUME NEW text \in Seq(Nat), NEW str \in Seq(Nat), NEW start \in Int
    PROVE  /\ find(text, str, start) = -1 \/
                 (At(text, str, find(text, str, start)) /\ From(text, start) <= find(text, str, start))
           /\ \A i : At(text, str, i) /\ From(text, start) <= i =>
                 find(text, str, start) # -1 /\ find(text, str, start) <= i
<1> DEFINE from == From(text, start)
           at == {i \in from .. Len(text) - Len(str) : SubSeq(text, i + 1, i + Len(str)) = str}
           f == find(text, str, start)
<1>1. from \in Nat /\ Len(text) \in Nat /\ Len(str) \in Nat
  BY DEF From
<1>2. f = IF at = {} THEN -1 ELSE CHOOSE i \in at : \A j \in at : i <= j
  BY DEF find, From
<1> HIDE DEF from, f
<1>3. \A i : i \in at <=> At(text, str, i) /\ from <= i
  <2> SUFFICES ASSUME NEW i PROVE i \in at <=> At(text, str, i) /\ from <= i
    OBVIOUS
  <2>1. CASE i \in Nat /\ i + Len(str) <= Len(text) /\ from <= i
    <3>1. i \in from .. Len(text) - Len(str)
      BY <1>1, <2>1
    <3>2. SubSeq(text, i + 1, i + Len(str)) = str <=> At(text, str, i)
      BY <2>1, SameThere
    <3> QED
      BY <2>1, <3>1, <3>2
  <2>2. CASE ~(i \in Nat /\ i + Len(str) <= Len(text) /\ from <= i)
    <3>1. i \notin from .. Len(text) - Len(str)
      BY <1>1, <2>2
    <3> QED
      BY <2>2, <3>1 DEF At
  <2> QED
    BY <2>1, <2>2
<1>4. at \in SUBSET Nat
  BY <1>3 DEF At
<1> HIDE DEF at
<1>5. at # {} => f \in at /\ \A j \in at : f <= j
  BY <1>2, <1>4, LeastIndex
<1>6. at # {} => f \in Nat
  BY <1>4, <1>5
<1>7. f = -1 \/ (At(text, str, f) /\ from <= f)
  BY <1>2, <1>3, <1>5
<1>8. ASSUME NEW i, At(text, str, i), from <= i PROVE f # -1 /\ f <= i
  BY <1>3, <1>5, <1>6, <1>8
<1> QED
  BY <1>7, <1>8 DEF f, from

(* A string that was not in the text, and is with what is added, ends in   *)
(* what is added, and so begins no farther back than find goes.            *)
LEMMA NewMatch ==
    ASSUME NEW old \in Seq(Nat), NEW new \in Seq(Nat), NEW str \in Seq(Nat), str # <<>>,
           \A j : ~At(old, str, j),
           NEW i, At(old \o new, str, i)
    PROVE  /\ i + Len(str) > Len(old)
           /\ From(old \o new, -Len(new) - Len(str)) <= i
<1> DEFINE text == old \o new
<1>1. /\ text \in Seq(Nat) /\ Len(text) = Len(old) + Len(new)
      /\ Len(old) \in Nat /\ Len(new) \in Nat /\ Len(str) \in Nat \ {0} /\ i \in Nat
      /\ \A k \in 1 .. Len(old) : text[k] = old[k]
      /\ i + Len(str) <= Len(text)
  BY DEF At
<1>2. ASSUME i + Len(str) <= Len(old) PROVE FALSE
  <2>1. \A k \in 1 .. Len(str) : i + k \in 1 .. Len(old)
    BY <1>1, <1>2
  <2>2. \A k \in 1 .. Len(str) : old[i + k] = str[k]
    BY <1>1, <2>1 DEF At
  <2>3. At(old, str, i)
    BY <1>1, <1>2, <2>2 DEF At
  <2> QED
    BY <2>3
<1> HIDE DEF text
<1>3. i + Len(str) > Len(old)
  BY <1>1, <1>2
<1>4. From(text, -Len(new) - Len(str)) <= i
  BY <1>1, <1>3 DEF From
<1> QED
  BY <1>3, <1>4 DEF text

(* SamplingParams. *)
LEMMA ParamTypes ==
    ASSUME params \in TextParams
    PROVE  /\ params.min_tokens \in Nat /\ params.max_tokens \in Nat \ {0}
           /\ params.min_tokens <= params.max_tokens
           /\ params.stop \in Seq(Seq(Nat) \ {<<>>})
           /\ Len(params.stop) \in Nat /\ DOMAIN params.stop = 1 .. Len(params.stop)
           /\ \A k \in DOMAIN params.stop : /\ params.stop[k] \in Seq(Nat) /\ params.stop[k] # <<>>
                                            /\ Len(params.stop[k]) \in Nat \ {0}
<1>1. /\ params.min_tokens \in Nat /\ params.max_tokens \in Nat \ {0}
      /\ params.min_tokens <= params.max_tokens
      /\ params.stop \in Seq(Seq(Nat) \ {<<>>})
  BY TextAssumption
<1> DEFINE stop == params.stop
<1>2. stop \in Seq(Seq(Nat) \ {<<>>})
  BY <1>1
<1> HIDE DEF stop
<1>3. Len(stop) \in Nat /\ DOMAIN stop = 1 .. Len(stop)
  BY <1>2
<1>4. \A k \in 1 .. Len(stop) : stop[k] \in Seq(Nat) \ {<<>>}
  BY <1>2
<1>5. \A t \in Seq(Nat) : t # <<>> => Len(t) \in Nat \ {0}
  OBVIOUS
<1>6. \A k \in DOMAIN stop : /\ stop[k] \in Seq(Nat) /\ stop[k] # <<>>
                             /\ Len(stop[k]) \in Nat \ {0}
  BY <1>3, <1>4, <1>5
<1> QED
  BY <1>1, <1>3, <1>6 DEF stop

(* As much of the text is held back as any stop string but its last        *)
(* character can take.                                                     *)
LEMMA LongestStop ==
    ASSUME params \in TextParams
    PROVE  /\ BufferLength \in Nat
           /\ params.include_stop_str_in_output => BufferLength = 0
           /\ ~params.include_stop_str_in_output =>
                \A k \in DOMAIN params.stop : Len(params.stop[k]) - 1 <= BufferLength
<1> DEFINE stop == params.stop
           n == Len(stop)
           lengths == {Len(stop[i]) : i \in DOMAIN stop}
           S == {k \in 0 .. n : k = 0 \/ \E m \in 1 .. k : \A i \in 1 .. k : Len(stop[i]) <= Len(stop[m])}
<1>1. n \in Nat /\ DOMAIN stop = 1 .. n /\ \A i \in DOMAIN stop : Len(stop[i]) \in Nat \ {0}
  BY ParamTypes
<1> HIDE DEF n
<1>2. CASE stop = <<>> \/ params.include_stop_str_in_output
  <2>1. BufferLength = 0
    BY <1>2 DEF BufferLength, stop
  <2>2. stop = <<>> => DOMAIN stop = {}
    OBVIOUS
  <2> QED
    BY <1>2, <2>1, <2>2
<1>3. CASE ~(stop = <<>> \/ params.include_stop_str_in_output)
  <2>1. n # 0
    <3>1. n = 0 => stop = <<>>
      <4>1. stop \in Seq(Seq(Nat) \ {<<>>})
        BY ParamTypes
      <4> HIDE DEF stop
      <4> QED
        BY <4>1 DEF n
    <3> QED
      BY <1>3, <3>1
  <2>2. 0 \in S
    BY <1>1
  <2>3. ASSUME NEW k \in 1 .. n, k - 1 \in S PROVE k \in S
    <3> HIDE DEF stop
    <3>1. k \in 0 .. n /\ k \in 1 .. k /\ Len(stop[k]) \in Nat
      BY <1>1
    <3>2. CASE k = 1
      BY <3>1, <3>2
    <3>3. CASE k # 1
      <4>1. PICK m \in 1 .. k - 1 : \A i \in 1 .. k - 1 : Len(stop[i]) <= Len(stop[m])
        BY <2>3, <3>3
      <4>2. m \in 1 .. n /\ m \in 1 .. k /\ Len(stop[m]) \in Nat
        BY <1>1, <4>1
      <4>3. \A i \in 1 .. k : i = k \/ i \in 1 .. k - 1
        BY <1>1
      <4>4. CASE Len(stop[k]) <= Len(stop[m])
        <5>1. \A i \in 1 .. k : Len(stop[i]) <= Len(stop[m])
          BY <4>1, <4>3, <4>4
        <5> QED
          BY <3>1, <4>2, <5>1
      <4>5. CASE ~(Len(stop[k]) <= Len(stop[m]))
        <5>1. \A i \in 1 .. k - 1 : i \in 1 .. n /\ Len(stop[i]) \in Nat
          BY <1>1
        <5>2. \A i \in 1 .. k : Len(stop[i]) <= Len(stop[k])
          BY <3>1, <4>1, <4>2, <4>3, <4>5, <5>1
        <5> QED
          BY <3>1, <5>2
      <4> QED
        BY <4>4, <4>5
    <3> QED
      BY <3>2, <3>3
  <2>4. n \in S
    <3>1. n \in 0 .. n
      BY <1>1
    <3> HIDE DEF S
    <3> QED
      BY <1>1, <2>2, <2>3, <3>1, UpTo
  <2>5. PICK m \in 1 .. n : \A i \in 1 .. n : Len(stop[i]) <= Len(stop[m])
    BY <2>1, <2>4
  <2> DEFINE most == CHOOSE k \in lengths : \A i \in DOMAIN stop : Len(stop[i]) <= k
  <2>6. most \in lengths /\ \A i \in DOMAIN stop : Len(stop[i]) <= most
    <3>1. Len(stop[m]) \in lengths /\ \A i \in DOMAIN stop : Len(stop[i]) <= Len(stop[m])
      BY <1>1, <2>5
    <3> HIDE DEF lengths, stop
    <3> QED
      BY <3>1, Zenon
  <2>7. BufferLength = most - 1
    BY <1>3 DEF BufferLength
  <2>8. most \in Nat \ {0}
    <3> HIDE DEF most, stop
    <3> QED
      BY <1>1, <2>6
  <2> HIDE DEF most
  <2>9. BufferLength \in Nat
    BY <2>7, <2>8
  <2>10. \A k \in DOMAIN stop : Len(stop[k]) - 1 <= BufferLength
    <3> HIDE DEF stop
    <3> QED
      BY <1>1, <2>6, <2>7, <2>8
  <2> QED
    BY <1>3, <2>9, <2>10
<1> QED
  BY <1>2, <1>3

\* No stop string is anywhere in the text.
NoneIn(text) == \A k \in DOMAIN params.stop : \A i : ~At(text, params.stop[k], i)

(* A stop string that is not found where it is looked for is nowhere.      *)
LEMMA NotFound ==
    ASSUME params \in TextParams, NEW old \in Seq(Nat), NEW new \in Seq(Nat), NoneIn(old),
           Found(old \o new, Len(new)) = {}
    PROVE  NoneIn(old \o new)
<1>1. CASE new = <<>>
  <2>1. old \o new = old
    BY <1>1
  <2> QED
    BY <2>1
<1>2. CASE new # <<>>
  <2>1. Len(new) \in Nat /\ Len(new) > 0 /\ old \o new \in Seq(Nat)
    BY <1>2
  <2> SUFFICES ASSUME NEW k \in DOMAIN params.stop, NEW i, At(old \o new, params.stop[k], i)
               PROVE  FALSE
    BY DEF NoneIn
  <2> DEFINE str == params.stop[k]
             start == -Len(new) - Len(str)
             text == old \o new
  <2>2. str \in Seq(Nat) /\ str # <<>> /\ Len(str) \in Nat
    BY ParamTypes
  <2>3. \A j : ~At(old, str, j)
    BY DEF NoneIn
  <2>4. At(text, str, i)
    OBVIOUS
  <2>5. find(text, str, start) = -1
    BY <2>1 DEF Found
  <2>6. start \in Int
    <3> HIDE DEF str
    <3> QED
      BY <2>1, <2>2
  <2>7. From(text, start) <= i
    <3> HIDE DEF str
    <3> QED
      BY <2>2, <2>3, <2>4, NewMatch
  <2> HIDE DEF str, start, text
  <2>8. text \in Seq(Nat)
    BY <2>1 DEF text
  <2> QED
    BY <2>2, <2>4, <2>5, <2>6, <2>7, <2>8, FindIs
<1> QED
  BY <1>1, <1>2

(* What is found first is a stop string.  When no stop string was in the   *)
(* text before, it is found where it is first in the text, and it ends in  *)
(* the new text.                                                           *)
LEMMA FirstIsFound ==
    ASSUME params \in TextParams, NEW old \in Seq(Nat), NEW new \in Seq(Nat),
           Found(old \o new, Len(new)) # {}
    PROVE  \E k \in DOMAIN params.stop : \E i \in Nat :
              /\ FirstFound(old \o new, Len(new)) = params.stop[k]
              /\ At(old \o new, params.stop[k], i)
              /\ StopIndex(old \o new, Len(new), params.stop[k])
                    = i + (IF params.include_stop_str_in_output THEN Len(params.stop[k]) ELSE 0)
              /\ NoneIn(old) => /\ i + Len(params.stop[k]) > Len(old)
                                /\ \A j : At(old \o new, params.stop[k], j) => i <= j
<1> DEFINE text == old \o new
           F == Found(text, Len(new))
           k == CHOOSE j \in F : \A l \in F : j <= l
           str == params.stop[k]
           start == -Len(new) - Len(str)
           i == find(text, str, start)
<1>1. F \in SUBSET Nat
  <2>1. DOMAIN params.stop \subseteq Nat
    BY ParamTypes
  <2>2. F \subseteq DOMAIN params.stop
    BY DEF Found
  <2> HIDE DEF F
  <2> QED
    BY <2>1, <2>2
<1>2. k \in F
  <2>1. F # {}
    OBVIOUS
  <2> HIDE DEF F
  <2>2. \E j \in F : \A l \in F : j <= l
    BY <1>1, <2>1, LeastIndex
  <2> QED
    BY <2>2, Zenon
<1>3. FirstFound(text, Len(new)) = str
  BY DEF FirstFound
<1> HIDE DEF k
<1>4. k \in DOMAIN params.stop /\ i # -1
  BY <1>2 DEF Found
<1>5. str \in Seq(Nat) /\ str # <<>> /\ Len(str) \in Nat \ {0}
  BY <1>4, ParamTypes
<1>6. NoneIn(old) => \A j : ~At(old, str, j)
  BY <1>4 DEF NoneIn
<1> HIDE DEF str, F
<1>7. text \in Seq(Nat) /\ Len(new) \in Nat /\ Len(old) \in Nat /\ start \in Int
  BY <1>5
<1>8. ASSUME NoneIn(old), NEW j, At(text, str, j)
      PROVE  From(text, start) <= j /\ j + Len(str) > Len(old)
  BY <1>5, <1>6, <1>8, NewMatch
<1> HIDE DEF start, text
<1>9. /\ At(text, str, i)
      /\ \A j : At(text, str, j) /\ From(text, start) <= j => i <= j
  BY <1>4, <1>5, <1>7, FindIs
<1> HIDE DEF i
<1>10. i \in Nat /\ (NoneIn(old) => i + Len(str) > Len(old) /\ \A j : At(text, str, j) => i <= j)
  BY <1>8, <1>9 DEF At
<1>11. StopIndex(text, Len(new), str) = i + (IF params.include_stop_str_in_output THEN Len(str) ELSE 0)
  BY DEF StopIndex, i, start
<1> QED
  BY <1>3, <1>4, <1>9, <1>10, <1>11, Zenon DEF str, text

-----------------------------------------------------------------------------
(* The text: one token *)

(* What becomes of the text of a sequence that goes on, when n characters  *)
(* of it are new.                                                          *)
LEMMA Judged ==
    ASSUME params \in TextParams, NEW ids, NEW text, NEW n, NEW s, s = MaybeStop(ids, text, n)
    PROVE  \/ /\ s.status = "RUNNING" /\ s.text = text
              /\ \/ Len(ids) < params.min_tokens
                 \/ Found(text, n) = {} /\ Len(ids) # params.max_tokens
           \/ s.status = "LENGTH" /\ s.text = text /\ Found(text, n) = {}
           \/ s.status = "STOPPED" /\ s.text \in {text, CutEnd(text, n)}
           \/ /\ s.status = "STRING" /\ Found(text, n) # {}
              /\ s.text = SubSeq(text, 1,
                                 StopIndex(text, n, FirstFound(text, n)))
<1> DEFINE F == Found(text, n)
           cut == StopIndex(text, n, FirstFound(text, n))
<1>1. s = MaybeStop(ids, text, n)
  OBVIOUS
<1> HIDE DEF F, cut
<1>2. CASE Len(ids) < params.min_tokens
  BY <1>1, <1>2 DEF MaybeStop
<1>3. CASE /\ ~(Len(ids) < params.min_tokens)
           /\ (~params.ignore_eos /\ Last(ids) = EosId) \/ Last(ids) \in params.stop_token_ids
  <2>1. s = [text |-> IF params.include_stop_str_in_output THEN text ELSE CutEnd(text, n),
             status |-> "STOPPED"]
    BY <1>1, <1>3 DEF MaybeStop
  <2> QED
    BY <2>1
<1>4. CASE /\ ~(Len(ids) < params.min_tokens)
           /\ ~((~params.ignore_eos /\ Last(ids) = EosId) \/ Last(ids) \in params.stop_token_ids)
  <2>1. CASE F # {}
    <3> DEFINE short == SubSeq(text, 1, cut)
    <3>1. s = [text |-> short, status |-> "STRING"]
      BY <1>1, <1>4, <2>1 DEF MaybeStop, F, cut
    <3> HIDE DEF short
    <3>2. s.status = "STRING" /\ s.text = short
      BY <3>1
    <3> QED
      BY <2>1, <3>2, Zenon DEF short, F, cut
  <2>2. CASE F = {}
    <3>1. s = [text |-> text,
               status |-> IF Len(prompt_ids \o ids) > TextModelLen \/ Len(ids) = params.max_tokens
                          THEN "LENGTH" ELSE "RUNNING"]
      BY <1>1, <1>4, <2>2 DEF MaybeStop, F
    <3> QED
      BY <2>2, <3>1 DEF F
  <2> QED
    BY <2>1, <2>2
<1> QED
  BY <1>2, <1>3, <1>4

\* text begins with part.
Begins(part, text) ==
    /\ part \in Seq(Nat) /\ Len(part) <= Len(text)
    /\ \A k \in 1 .. Len(part) : text[k] = part[k]

(* The beginning of a text.                                                *)
LEMMA Cut ==
    ASSUME NEW text \in Seq(Nat), NEW cut \in 0 .. Len(text)
    PROVE  /\ SubSeq(text, 1, cut) \in Seq(Nat) /\ Len(SubSeq(text, 1, cut)) = cut
           /\ Begins(SubSeq(text, 1, cut), text)
<1> DEFINE t == SubSeq(text, 1, cut)
<1>1. t \in Seq(Nat) /\ Len(t) = cut /\ \A k \in 1 .. cut : t[k] = text[k]
  OBVIOUS
<1> HIDE DEF t
<1>2. Begins(t, text)
  BY <1>1 DEF Begins
<1> QED
  BY <1>1, <1>2 DEF t

(* A beginning is followed by the rest.                                    *)
LEMMA BeginsAndGoesOn ==
    ASSUME NEW text \in Seq(Nat), NEW part, Begins(part, text),
           NEW end \in Int, end <= Len(text), NEW n, n = Len(part)
    PROVE  /\ part \o SubSeq(text, n + 1, end) \in Seq(Nat)
           /\ Begins(part \o SubSeq(text, n + 1, end), text)
           /\ Len(part \o SubSeq(text, n + 1, end)) = IF end > n THEN end ELSE n
           /\ end = Len(text) => part \o SubSeq(text, n + 1, end) = text
<1> DEFINE rest == SubSeq(text, n + 1, end)
           all == part \o rest
<1>1. part \in Seq(Nat) /\ n \in Nat /\ n <= Len(text) /\ \A k \in 1 .. n : part[k] = text[k]
  BY DEF Begins
<1>2. CASE end > n
  <2>1. rest \in Seq(Nat) /\ Len(rest) = end - n /\ \A k \in 1 .. end - n : rest[k] = text[n + k]
    <3>1. n + 1 \in 1 .. Len(text) + 1 /\ end \in n .. Len(text)
      BY <1>1, <1>2
    <3>2. rest \in Seq(Nat) /\ Len(rest) = end - n
      BY <1>1, <3>1
    <3>3. ASSUME NEW k \in 1 .. end - n PROVE rest[k] = text[n + k]
      <4>1. rest[k] = text[n + 1 + k - 1] /\ n + 1 + k - 1 = n + k
        BY <1>1, <3>1
      <4> QED
        BY <4>1
    <3> QED
      BY <3>2, <3>3
  <2> HIDE DEF rest
  <2>2. /\ all \in Seq(Nat) /\ Len(all) = end
        /\ \A k \in 1 .. n : all[k] = part[k]
        /\ \A k \in n + 1 .. end : all[k] = rest[k - n]
    BY <1>1, <1>2, <2>1
  <2>3. ASSUME NEW k \in 1 .. end PROVE text[k] = all[k]
    <3>1. CASE k \in 1 .. n
      BY <1>1, <2>2, <3>1
    <3>2. CASE k \in n + 1 .. end
      <4>1. k - n \in 1 .. end - n /\ n + (k - n) = k
        BY <1>1, <3>2
      <4> QED
        BY <2>1, <2>2, <3>2, <4>1
    <3>3. k \in 1 .. n \/ k \in n + 1 .. end
      <4> HIDE DEF all
      <4> QED
        BY <1>1, <1>2
    <3> QED
      BY <3>1, <3>2, <3>3, Zenon
  <2> HIDE DEF all
  <2>4. Begins(all, text)
    BY <2>2, <2>3 DEF Begins
  <2>5. end = Len(text) => all = text
    <3> SUFFICES ASSUME end = Len(text) PROVE all = text
      OBVIOUS
    <3>1. Len(all) = Len(text) /\ \A k \in 1 .. Len(all) : all[k] = text[k]
      BY <2>2, <2>3
    <3> QED
      BY <2>2, <3>1, SeqEqual
  <2> QED
    BY <1>2, <2>2, <2>4, <2>5 DEF all, rest
<1>3. CASE ~(end > n)
  <2>1. rest = <<>>
    BY <1>1, <1>3
  <2> HIDE DEF rest
  <2>2. all = part
    BY <1>1, <2>1
  <2>3. end = Len(text) => part = text
    BY <1>1, <1>3
  <2> HIDE DEF all
  <2> QED
    BY <1>1, <1>3, <2>2, <2>3 DEF all, rest
<1> QED
  BY <1>2, <1>3

-----------------------------------------------------------------------------
(* The text: the inductive invariant *)

TypesInv ==
    /\ params \in TextParams /\ prompt_ids \in TextPrompts
    /\ output_ids \in Seq(TokenIds) /\ Len(output_ids) <= params.max_tokens
    /\ text_status = "RUNNING" => Len(output_ids) < params.max_tokens
    /\ tokens \in Seq(Seq(Nat))
    /\ prefix_offset \in 0 .. read_offset /\ read_offset \in 0 .. Len(tokens)
    /\ text_status \in {"RUNNING", "STOPPED", "STRING", "LENGTH"}
    /\ output_text \in Seq(Nat) /\ sent \in Seq(Nat)

\* A stream has been given all of the text but what is held back.
HeldBackInv ==
    text_status = "RUNNING" =>
        /\ Begins(sent, output_text)
        /\ Len(sent) = IF Len(output_text) > BufferLength THEN Len(output_text) - BufferLength ELSE 0

NoStringInv ==
    params.min_tokens = 0 /\ text_status \in {"RUNNING", "LENGTH"} => NoneIn(output_text)

\* What has ended with a stop string has been cut at the first place of it.
CutInv ==
    params.min_tokens = 0 /\ text_status = "STRING" =>
        \E k \in DOMAIN params.stop :
            IF params.include_stop_str_in_output
            THEN /\ At(output_text, params.stop[k], Len(output_text) - Len(params.stop[k]))
                 /\ \A j : At(output_text, params.stop[k], j) =>
                        j = Len(output_text) - Len(params.stop[k])
            ELSE \A j : ~At(output_text, params.stop[k], j)

SentInv ==
    params.min_tokens = 0 /\ text_status # "RUNNING" => sent = output_text

TextInv ==
    /\ TypesInv
    /\ HeldBackInv
    /\ NoStringInv
    /\ CutInv
    /\ SentInv

\* The text that a token adds, and what becomes of the text with it.
Adds(new, s) ==
    /\ new = NewText(tokens') /\ new \in Seq(Nat)
    /\ s = MaybeStop(output_ids', output_text \o new, Len(new))
    /\ output_text' = s.text /\ text_status' = s.status
    /\ sent' = sent \o Delta(s.text, s.status)

(* The tokens and the text they add.                                       *)
LEMMA OneToken ==
    ASSUME TypesInv, NEW id \in TokenIds, AppendToken(id)
    PROVE  /\ output_ids' \in Seq(TokenIds) /\ Len(output_ids') = Len(output_ids) + 1
           /\ tokens' \in Seq(Seq(Nat))
           /\ prefix_offset' \in 0 .. read_offset' /\ read_offset' \in 0 .. Len(tokens')
           /\ UNCHANGED <<params, prompt_ids>> /\ text_status = "RUNNING"
           /\ \E new, s : Adds(new, s)
<1> DEFINE more == ToTokens(<<id>>, params.skip_special_tokens)
           ts == tokens \o more
           new == NewText(ts)
           s == MaybeStop(output_ids', output_text \o new, Len(new))
<1>1. output_ids' = Append(output_ids, id) /\ output_ids \in Seq(TokenIds)
  BY DEF AppendToken, TypesInv
<1>2. tokens' = ts
  BY DEF AppendToken
<1>3. more \in Seq(Seq(Nat))
  <2>1. <<id>> \in Seq(TokenIds)
    OBVIOUS
  <2> QED
    BY <2>1, TokensOfIds
<1> HIDE DEF more
<1>4. ts \in Seq(Seq(Nat)) /\ Len(ts) = Len(tokens) + Len(more)
      /\ Len(more) \in Nat /\ Len(tokens) \in Nat
  BY <1>3 DEF TypesInv
<1> HIDE DEF ts
<1>5. prefix_offset \in Nat /\ read_offset \in Nat /\ prefix_offset <= read_offset
      /\ read_offset <= Len(tokens) /\ read_offset <= Len(ts) /\ Len(ts) \in Nat
  BY <1>4 DEF TypesInv
<1>6. new \in Seq(Nat)
  BY <1>4, <1>5, NewTextType
<1>7. /\ IF new = <<>> THEN UNCHANGED <<prefix_offset, read_offset>>
         ELSE prefix_offset' = read_offset /\ read_offset' = Len(tokens')
      /\ output_text' = s.text /\ text_status' = s.status
      /\ sent' = sent \o Delta(s.text, s.status)
  BY <1>2, Zenon DEF AppendToken
<1> HIDE DEF new
<1>8. prefix_offset' \in 0 .. read_offset' /\ read_offset' \in 0 .. Len(tokens')
  <2>1. CASE new = <<>>
    BY <1>2, <1>5, <1>7, <2>1
  <2>2. CASE new # <<>>
    BY <1>2, <1>5, <1>7, <2>2
  <2> QED
    BY <2>1, <2>2
<1>9. Adds(new, s)
  BY <1>2, <1>6, <1>7, Zenon DEF Adds, new
<1>10. output_ids' \in Seq(TokenIds) /\ Len(output_ids') = Len(output_ids) + 1
  BY <1>1
<1>11. UNCHANGED <<params, prompt_ids>> /\ text_status = "RUNNING"
  BY DEF AppendToken
<1>12. \E n, t : Adds(n, t)
  <2> HIDE DEF s
  <2> QED
    BY <1>9, Zenon
<1> QED
  BY <1>2, <1>4, <1>8, <1>10, <1>11, <1>12

(* The text that is cut at a stop string.                                  *)
LEMMA CutText ==
    ASSUME params \in TextParams, NEW old \in Seq(Nat), NEW new \in Seq(Nat), NEW t,
           Found(old \o new, Len(new)) # {},
           t = SubSeq(old \o new, 1, StopIndex(old \o new, Len(new), FirstFound(old \o new, Len(new))))
    PROVE  /\ t \in Seq(Nat)
           /\ NoneIn(old) => /\ Len(t) >= Len(old) - BufferLength
                             /\ \A part : Begins(part, old) /\ Len(part) <= Len(t) => Begins(part, t)
                             /\ \E k \in DOMAIN params.stop :
                                   IF params.include_stop_str_in_output
                                   THEN /\ At(t, params.stop[k], Len(t) - Len(params.stop[k]))
                                        /\ \A j : At(t, params.stop[k], j) =>
                                               j = Len(t) - Len(params.stop[k])
                                   ELSE \A j : ~At(t, params.stop[k], j)
<1> DEFINE text == old \o new
<1>1. PICK k \in DOMAIN params.stop, i \in Nat :
              /\ FirstFound(text, Len(new)) = params.stop[k]
              /\ At(text, params.stop[k], i)
              /\ StopIndex(text, Len(new), params.stop[k])
                    = i + (IF params.include_stop_str_in_output THEN Len(params.stop[k]) ELSE 0)
              /\ NoneIn(old) => /\ i + Len(params.stop[k]) > Len(old)
                                /\ \A j : At(text, params.stop[k], j) => i <= j
  BY FirstIsFound
<1> DEFINE str == params.stop[k]
           n == Len(str)
           cut == i + (IF params.include_stop_str_in_output THEN n ELSE 0)
           B == BufferLength
<1>2. /\ str \in Seq(Nat) /\ n \in Nat \ {0} /\ B \in Nat
      /\ ~params.include_stop_str_in_output => n - 1 <= B
      /\ params.include_stop_str_in_output => B = 0
  BY ParamTypes, LongestStop
<1>3. /\ text \in Seq(Nat) /\ Len(text) = Len(old) + Len(new)
      /\ Len(old) \in Nat /\ Len(new) \in Nat /\ Len(text) \in Nat
      /\ \A j \in 1 .. Len(old) : text[j] = old[j]
  OBVIOUS
<1> HIDE DEF text, B
<1>4. t = SubSeq(text, 1, cut)
  BY <1>1 DEF text
<1>5. /\ At(text, str, i)
      /\ NoneIn(old) => i + n > Len(old) /\ \A j : At(text, str, j) => i <= j
  BY <1>1
<1> HIDE DEF str
<1>6. i + n <= Len(text)
  BY <1>5 DEF At
<1> HIDE DEF n
<1>7. cut \in 0 .. Len(text) /\ cut \in Nat /\ i <= cut
  BY <1>2, <1>3, <1>6
<1>8. cut = IF params.include_stop_str_in_output THEN i + n ELSE i
  BY <1>2
<1> HIDE DEF cut
<1>9. t \in Seq(Nat) /\ Len(t) = cut /\ Begins(t, text)
  BY <1>3, <1>4, <1>7, Cut
<1>10. \A j \in 1 .. cut : t[j] = text[j]
  BY <1>9 DEF Begins
<1>11. ASSUME NEW j, At(t, str, j) PROVE At(text, str, j) /\ j + n <= cut
  <2>1. j \in Nat /\ j + n <= cut /\ \A l \in 1 .. n : t[j + l] = str[l]
    BY <1>9, <1>11 DEF At, n
  <2>2. \A l \in 1 .. n : j + l \in 1 .. cut
    BY <1>2, <1>7, <2>1
  <2>3. \A l \in 1 .. n : text[j + l] = str[l]
    BY <1>10, <2>1, <2>2
  <2>4. j + n <= Len(text)
    BY <1>2, <1>3, <1>7, <2>1
  <2> QED
    BY <2>1, <2>3, <2>4 DEF At, n
<1>12. ASSUME NoneIn(old) PROVE cut >= Len(old) - B
  BY <1>2, <1>3, <1>5, <1>8, <1>12
<1>13. ASSUME NEW part, Begins(part, old), Len(part) <= cut PROVE Begins(part, t)
  <2>1. /\ part \in Seq(Nat) /\ Len(part) \in Nat /\ Len(part) <= Len(old)
        /\ \A j \in 1 .. Len(part) : old[j] = part[j]
    BY <1>13 DEF Begins
  <2>2. \A j \in 1 .. Len(part) : j \in 1 .. Len(old) /\ j \in 1 .. cut
    BY <1>3, <1>7, <1>13, <2>1
  <2>3. \A j \in 1 .. Len(part) : t[j] = part[j]
    BY <1>3, <1>10, <2>1, <2>2
  <2> QED
    BY <1>9, <1>13, <2>1, <2>3 DEF Begins
<1>14. ASSUME NoneIn(old), params.include_stop_str_in_output
       PROVE  /\ At(t, str, cut - n)
              /\ \A j : At(t, str, j) => j = cut - n
  <2>1. cut - n = i /\ i + n <= cut
    BY <1>2, <1>8, <1>14
  <2>2. \A l \in 1 .. n : i + l \in 1 .. cut /\ text[i + l] = str[l]
    BY <1>2, <1>5, <1>8, <1>14 DEF At, n
  <2>3. At(t, str, i)
    BY <1>9, <1>10, <2>1, <2>2 DEF At, n
  <2>4. ASSUME NEW j, At(t, str, j) PROVE j = i
    <3>1. i <= j /\ j + n <= cut /\ j \in Nat
      BY <1>5, <1>11, <1>14, <2>4 DEF At
    <3> QED
      BY <1>2, <1>7, <2>1, <3>1
  <2> QED
    BY <2>1, <2>3, <2>4
<1>15. ASSUME NoneIn(old), ~params.include_stop_str_in_output, NEW j, At(t, str, j) PROVE FALSE
  <2>1. i <= j /\ j + n <= i /\ j \in Nat
    BY <1>5, <1>8, <1>11, <1>15 DEF At
  <2> QED
    BY <1>2, <2>1
<1> QED
  BY <1>9, <1>12, <1>13, <1>14, <1>15, Zenon DEF str, n, B

(* What a stream is given.                                                 *)
LEMMA StreamGets ==
    ASSUME params \in TextParams, sent \in Seq(Nat), NEW t \in Seq(Nat), NEW status
    PROVE  /\ sent \o Delta(t, status) \in Seq(Nat)
           /\ Begins(sent, t) =>
                IF status = "RUNNING"
                THEN /\ Begins(sent \o Delta(t, status), t)
                     /\ Len(sent \o Delta(t, status)) =
                            IF Len(t) - BufferLength > Len(sent) THEN Len(t) - BufferLength ELSE Len(sent)
                ELSE sent \o Delta(t, status) = t
<1> DEFINE n == Len(sent)
           B == BufferLength
           end == Len(t) - (IF status = "RUNNING" THEN B ELSE 0)
           delta == SubSeq(t, n + 1, end)
<1>1. B \in Nat /\ n \in Nat /\ Len(t) \in Nat
  BY LongestStop
<1>2. Delta(t, status) = delta
  BY Zenon DEF Delta
<1> HIDE DEF B, n
<1>3. end \in Int /\ end <= Len(t) /\ (status # "RUNNING" => end = Len(t))
      /\ (status = "RUNNING" => end = Len(t) - B)
  BY <1>1
<1> HIDE DEF end
<1>4. delta \in Seq(Nat)
  BY <1>1, <1>3
<1> HIDE DEF delta
<1>5. sent \o delta \in Seq(Nat)
  BY <1>4
<1>6. ASSUME Begins(sent, t)
      PROVE  /\ Begins(sent \o delta, t)
             /\ Len(sent \o delta) = IF end > n THEN end ELSE n
             /\ end = Len(t) => sent \o delta = t
  BY <1>1, <1>3, <1>6, BeginsAndGoesOn DEF n, delta
<1> QED
  BY <1>2, <1>3, <1>5, <1>6, Zenon DEF n, B

(* A sequence that goes on is given one more token.                        *)
LEMMA TokenStep ==
    ASSUME TextInv, NEW id \in TokenIds, AppendToken(id)
    PROVE  TextInv'
<1>1. /\ output_ids' \in Seq(TokenIds) /\ Len(output_ids') = Len(output_ids) + 1
      /\ tokens' \in Seq(Seq(Nat))
      /\ prefix_offset' \in 0 .. read_offset' /\ read_offset' \in 0 .. Len(tokens')
      /\ params' = params /\ prompt_ids' = prompt_ids /\ text_status = "RUNNING"
      /\ \E new, s : Adds(new, s)
  BY OneToken DEF TextInv
<1>2. PICK new, s : Adds(new, s)
  BY <1>1, Zenon
<1> DEFINE old == output_text
           text == old \o new
           t == s.text
           B == BufferLength
           more == sent \o Delta(t, s.status)
<1>3. /\ params \in TextParams /\ old \in Seq(Nat) /\ sent \in Seq(Nat) /\ new \in Seq(Nat)
      /\ Len(old) \in Nat /\ Len(new) \in Nat /\ B \in Nat
      /\ text \in Seq(Nat) /\ Len(text) = Len(old) + Len(new)
  BY <1>2, LongestStop DEF TextInv, TypesInv, Adds
<1>4. /\ output_text' = t /\ text_status' = s.status /\ sent' = more
  BY <1>2 DEF Adds
<1>5. \/ /\ s.status = "RUNNING" /\ t = text
         /\ \/ Len(output_ids') < params.min_tokens
            \/ Found(text, Len(new)) = {} /\ Len(output_ids') # params.max_tokens
      \/ s.status = "LENGTH" /\ t = text /\ Found(text, Len(new)) = {}
      \/ s.status = "STOPPED" /\ t \in {text, CutEnd(text, Len(new))}
      \/ /\ s.status = "STRING" /\ Found(text, Len(new)) # {}
         /\ t = SubSeq(text, 1, StopIndex(text, Len(new), FirstFound(text, Len(new))))
  <2>1. PICK ids : ids = output_ids'
    OBVIOUS
  <2> DEFINE n == Len(new)
  <2>2. s = MaybeStop(ids, text, n)
    BY <1>2, <2>1 DEF Adds
  <2> HIDE DEF text, n
  <2>3. \/ /\ s.status = "RUNNING" /\ s.text = text
           /\ \/ Len(ids) < params.min_tokens
              \/ Found(text, n) = {} /\ Len(ids) # params.max_tokens
        \/ s.status = "LENGTH" /\ s.text = text /\ Found(text, n) = {}
        \/ s.status = "STOPPED" /\ s.text \in {text, CutEnd(text, n)}
        \/ /\ s.status = "STRING" /\ Found(text, n) # {}
           /\ s.text = SubSeq(text, 1, StopIndex(text, n, FirstFound(text, n)))
    BY <1>3, <2>2, Judged
  <2> QED
    BY <2>1, <2>3, Zenon DEF n
<1>6. Begins(sent, old) /\ Len(sent) = IF Len(old) > B THEN Len(old) - B ELSE 0
  BY <1>1 DEF TextInv, HeldBackInv
<1>7. params.min_tokens = 0 => NoneIn(old)
  BY <1>1 DEF TextInv, NoStringInv
<1>8. CutEnd(text, Len(new)) = old
  <2>1. /\ CutEnd(text, Len(new)) \in Seq(Nat)
        /\ Len(CutEnd(text, Len(new))) = Len(old)
        /\ \A k \in 1 .. Len(old) : CutEnd(text, Len(new))[k] = old[k]
    <3> DEFINE m == Len(text) - Len(new)
    <3>1. m = Len(old) /\ m \in 0 .. Len(text) /\ CutEnd(text, Len(new)) = SubSeq(text, 1, m)
      BY <1>3 DEF CutEnd
    <3>2. \A k \in 1 .. Len(old) : text[k] = old[k]
      BY <1>3
    <3> HIDE DEF m, text, old
    <3>3. SubSeq(text, 1, m) \in Seq(Nat) /\ Len(SubSeq(text, 1, m)) = m
          /\ Begins(SubSeq(text, 1, m), text)
      BY <1>3, <3>1, Cut
    <3> QED
      BY <3>1, <3>2, <3>3 DEF Begins
  <2> DEFINE short == CutEnd(text, Len(new))
  <2> HIDE DEF short
  <2>2. short = old
    BY <1>3, <2>1, SeqEqual DEF short
  <2> QED
    BY <2>2 DEF short
<1> HIDE DEF B
<1>9. Begins(sent, text)
  <2>1. \A k \in 1 .. Len(old) : text[k] = old[k]
    BY <1>3
  <2>2. Len(sent) \in Nat /\ Len(sent) <= Len(old) /\ \A k \in 1 .. Len(sent) : old[k] = sent[k]
    BY <1>3, <1>6 DEF Begins
  <2> HIDE DEF text, old
  <2>3. \A k \in 1 .. Len(sent) : k \in 1 .. Len(old)
    BY <1>3, <2>2
  <2> QED
    BY <1>3, <2>1, <2>2, <2>3 DEF Begins
<1> HIDE DEF old, text, t, more
<1>10. ASSUME s.status = "STRING"
       PROVE  /\ t \in Seq(Nat)
              /\ NoneIn(old) =>
                    /\ Begins(sent, t)
                    /\ \E k \in DOMAIN params.stop :
                          IF params.include_stop_str_in_output
                          THEN /\ At(t, params.stop[k], Len(t) - Len(params.stop[k]))
                               /\ \A j : At(t, params.stop[k], j) => j = Len(t) - Len(params.stop[k])
                          ELSE \A j : ~At(t, params.stop[k], j)
  <2>1. /\ t \in Seq(Nat)
        /\ NoneIn(old) => /\ Len(t) >= Len(old) - B
                          /\ \A part : Begins(part, old) /\ Len(part) <= Len(t) => Begins(part, t)
                          /\ \E k \in DOMAIN params.stop :
                                IF params.include_stop_str_in_output
                                THEN /\ At(t, params.stop[k], Len(t) - Len(params.stop[k]))
                                     /\ \A j : At(t, params.stop[k], j) => j = Len(t) - Len(params.stop[k])
                                ELSE \A j : ~At(t, params.stop[k], j)
    BY <1>3, <1>5, <1>10, CutText DEF text, B
  <2>2. Len(t) \in Nat
    BY <2>1
  <2>3. NoneIn(old) => Len(sent) <= Len(t)
    BY <1>3, <1>6, <2>1, <2>2
  <2> QED
    BY <1>6, <2>1, <2>3
<1>11. t \in Seq(Nat)
  BY <1>3, <1>5, <1>8, <1>10
<1>12. s.status # "STRING" \/ NoneIn(old) => Begins(sent, t)
  BY <1>5, <1>6, <1>8, <1>9, <1>10
<1>13. /\ more \in Seq(Nat)
       /\ Begins(sent, t) =>
            IF s.status = "RUNNING"
            THEN /\ Begins(more, t)
                 /\ Len(more) = IF Len(t) - B > Len(sent) THEN Len(t) - B ELSE Len(sent)
            ELSE more = t
  BY <1>3, <1>11, StreamGets DEF more, B
<1>14. TypesInv'
  <2>1. Len(output_ids) < params.max_tokens /\ Len(output_ids) \in Nat
        /\ params.max_tokens \in Nat \ {0} /\ params.min_tokens <= params.max_tokens
        /\ params.min_tokens \in Nat
    BY <1>1, ParamTypes DEF TextInv, TypesInv
  <2>2. Len(output_ids') <= params.max_tokens
        /\ (s.status = "RUNNING" => Len(output_ids') < params.max_tokens)
    BY <1>1, <1>5, <2>1
  <2>3. s.status \in {"RUNNING", "STOPPED", "STRING", "LENGTH"}
    BY <1>5
  <2>4. params \in TextParams /\ prompt_ids \in TextPrompts
    BY DEF TextInv, TypesInv
  <2> QED
    BY <1>1, <1>4, <1>11, <1>13, <2>2, <2>3, <2>4 DEF TypesInv
<1>15. BufferLength' = B
  BY <1>1 DEF BufferLength, B
<1>16. HeldBackInv'
  <2> SUFFICES ASSUME s.status = "RUNNING"
               PROVE  Begins(more, t) /\ Len(more) = IF Len(t) > B THEN Len(t) - B ELSE 0
    BY <1>4, <1>15 DEF HeldBackInv
  <2>1. Begins(more, t) /\ Len(more) = IF Len(t) - B > Len(sent) THEN Len(t) - B ELSE Len(sent)
    BY <1>12, <1>13
  <2>2. t = text /\ Len(t) >= Len(old) /\ Len(t) \in Nat
    BY <1>3, <1>5
  <2> QED
    BY <1>3, <1>6, <2>1, <2>2
<1>17. NoStringInv'
  <2> SUFFICES ASSUME params.min_tokens = 0, s.status \in {"RUNNING", "LENGTH"}
               PROVE  NoneIn(t)
    BY <1>1, <1>4 DEF NoStringInv, NoneIn
  <2>1. t = text /\ (Found(text, Len(new)) = {} \/ Len(output_ids') < params.min_tokens)
    BY <1>5
  <2>2. ~(Len(output_ids') < params.min_tokens)
    BY <1>1
  <2> QED
    BY <1>3, <1>7, <2>1, <2>2, NotFound DEF text
<1>18. CutInv'
  <2> SUFFICES ASSUME params.min_tokens = 0, s.status = "STRING"
               PROVE  \E k \in DOMAIN params.stop :
                          IF params.include_stop_str_in_output
                          THEN /\ At(t, params.stop[k], Len(t) - Len(params.stop[k]))
                               /\ \A j : At(t, params.stop[k], j) => j = Len(t) - Len(params.stop[k])
                          ELSE \A j : ~At(t, params.stop[k], j)
    BY <1>1, <1>4 DEF CutInv
  <2> QED
    BY <1>7, <1>10
<1>19. SentInv'
  <2> SUFFICES ASSUME params.min_tokens = 0, s.status # "RUNNING" PROVE more = t
    BY <1>1, <1>4 DEF SentInv
  <2> QED
    BY <1>7, <1>12, <1>13
<1> QED
  BY <1>14, <1>16, <1>17, <1>18, <1>19 DEF TextInv

(* The end of a sequence.                                                  *)
LEMMA EndOf ==
    ASSUME NEW S, NEW s \in Seq(S), NEW n \in Nat
    PROVE  LastOf(s, n) \in Seq(S)
<1> DEFINE first == IF Len(s) > n THEN Len(s) - n + 1 ELSE 1
<1>1. Len(s) \in Nat /\ first \in Nat \ {0}
  OBVIOUS
<1>2. LastOf(s, n) = SubSeq(s, first, Len(s))
  BY DEF LastOf
<1> HIDE DEF first
<1>3. SubSeq(s, first, Len(s)) \in Seq(S)
  BY <1>1
<1> QED
  BY <1>2, <1>3

(* At the start nothing has been added to the prompt.                      *)
LEMMA TextInitial ==
    ASSUME TextInit
    PROVE  TextInv
<1>1. params \in TextParams /\ prompt_ids \in TextPrompts /\ prompt_ids \in Seq(TokenIds)
  BY TextAssumption DEF TextInit
<1>2. tokens \in Seq(Seq(Nat))
  <2> DEFINE end == LastOf(prompt_ids, InitialOffset + 2)
  <2>1. end \in Seq(TokenIds)
    <3> DEFINE n == InitialOffset + 2
    <3>1. n \in Nat
      BY TextAssumption
    <3> HIDE DEF n
    <3>2. LastOf(prompt_ids, n) \in Seq(TokenIds)
      BY <1>1, <3>1, EndOf
    <3> QED
      BY <3>2 DEF n
  <2> HIDE DEF end
  <2>2. ToTokens(end, params.skip_special_tokens) \in Seq(Seq(Nat))
    BY <2>1, TokensOfIds
  <2> QED
    BY <2>2 DEF TextInit, PromptTokens, end
<1>3. Len(tokens) \in Nat /\ InitialOffset \in Nat /\ Len(<<>>) = 0
      /\ <<>> \in Seq(TokenIds) /\ <<>> \in Seq(Nat)
  BY <1>2, TextAssumption
<1>4. prefix_offset \in 0 .. read_offset /\ read_offset \in 0 .. Len(tokens)
  BY <1>3 DEF TextInit
<1>5. params.max_tokens \in Nat \ {0} /\ BufferLength \in Nat
  BY <1>1, ParamTypes, LongestStop
<1>6. output_ids = <<>> /\ output_text = <<>> /\ sent = <<>> /\ text_status = "RUNNING"
  BY DEF TextInit
<1>7. TypesInv
  BY <1>1, <1>2, <1>3, <1>4, <1>5, <1>6 DEF TypesInv
<1>8. HeldBackInv
  <2>1. Begins(sent, output_text)
    BY <1>3, <1>6 DEF Begins
  <2> QED
    BY <1>3, <1>5, <1>6, <2>1 DEF HeldBackInv
<1>9. NoStringInv
  <2>1. ASSUME NEW k \in DOMAIN params.stop, NEW i, At(output_text, params.stop[k], i) PROVE FALSE
    <3>1. Len(params.stop[k]) \in Nat \ {0}
      BY <1>1, ParamTypes
    <3>2. i \in Nat /\ i + Len(params.stop[k]) <= 0
      BY <1>3, <1>6, <2>1 DEF At
    <3> QED
      BY <3>1, <3>2
  <2> QED
    BY <2>1 DEF NoStringInv, NoneIn
<1>10. CutInv /\ SentInv
  BY <1>6 DEF CutInv, SentInv
<1> QED
  BY <1>7, <1>8, <1>9, <1>10 DEF TextInv

\* Nothing happens to the text.
LEMMA TextStutter ==
    ASSUME TextInv, UNCHANGED textVars
    PROVE  TextInv'
<1>1. UNCHANGED <<tokenizer, params, prompt_ids, output_ids, tokens, prefix_offset,
                  read_offset, output_text, sent, text_status>>
  BY DEF textVars
<1>2. BufferLength' = BufferLength
  BY <1>1 DEF BufferLength
<1>3. TypesInv' /\ SentInv'
  BY <1>1 DEF TextInv, TypesInv, SentInv
<1>4. HeldBackInv'
  BY <1>1, <1>2 DEF TextInv, HeldBackInv
<1>5. NoStringInv' /\ CutInv'
  BY <1>1 DEF TextInv, NoStringInv, CutInv, NoneIn
<1> QED
  BY <1>3, <1>4, <1>5 DEF TextInv

\* The invariant of the text is inductive: a token at a time, the text and what
\* a stream has been given stay the same but for what is held back.
THEOREM TextInvariance == TextSpec => []TextInv
<1>1. TextInit => TextInv
  BY TextInitial
<1>2. TextInv /\ [TextNext]_textVars => TextInv'
  BY TokenStep, TextStutter DEF TextNext
<1> QED
  BY <1>1, <1>2, PTL DEF TextSpec

(* A string that is nowhere in the text is not found, and one that is only *)
(* at one place is found there.                                            *)
LEMMA FoundWhereItIs ==
    ASSUME NEW text \in Seq(Nat), NEW str \in Seq(Nat)
    PROVE  /\ (\A i : ~At(text, str, i)) => find(text, str, 0) = -1
           /\ \A i : At(text, str, i) /\ (\A j : At(text, str, j) => j = i) =>
                  find(text, str, 0) = i
<1>1. /\ find(text, str, 0) = -1 \/ At(text, str, find(text, str, 0))
      /\ \A i : At(text, str, i) /\ From(text, 0) <= i => find(text, str, 0) # -1
  BY FindIs
<1>2. \A i : At(text, str, i) => From(text, 0) <= i
  BY DEF At, From
<1> QED
  BY <1>1, <1>2, Zenon

\* The characters that are held back are enough for every stop string: a
\* stream is never sent what is cut off later, and in the end all of the text.
LEMMA StreamIsFinal == TextInv => SentIsFinal
<1> SUFFICES ASSUME TextInv, params.min_tokens = 0
             PROVE  /\ IsPrefix(sent, output_text)
                    /\ text_status # "RUNNING" => sent = output_text
  BY DEF SentIsFinal
<1>1. output_text \in Seq(Nat) /\ sent \in Seq(Nat)
  BY DEF TextInv, TypesInv
<1>2. CASE text_status = "RUNNING"
  <2> DEFINE n == Len(sent)
             t == SubSeq(output_text, 1, n)
  <2>1. Begins(sent, output_text)
    BY <1>2 DEF TextInv, HeldBackInv
  <2>2. n \in 0 .. Len(output_text) /\ n \in Nat /\ \A k \in 1 .. n : output_text[k] = sent[k]
    BY <1>1, <2>1 DEF Begins
  <2> HIDE DEF n
  <2>3. t \in Seq(Nat) /\ Len(t) = n /\ \A k \in 1 .. n : t[k] = output_text[k]
    BY <1>1, <2>2, Cut DEF Begins
  <2> HIDE DEF t
  <2>4. t = sent
    BY <1>1, <2>2, <2>3, SeqEqual DEF n
  <2>5. SubSeq(sent, 1, Len(sent)) = sent
    BY <1>1
  <2>6. IsPrefix(sent, output_text)
    BY <2>1, <2>4, <2>5 DEF IsPrefix, Begins, t, n
  <2> QED
    BY <1>2, <2>6
<1>3. CASE text_status # "RUNNING"
  <2>1. sent = output_text
    BY <1>3 DEF TextInv, SentInv
  <2>2. IsPrefix(sent, output_text)
    BY <1>1, <2>1 DEF IsPrefix
  <2> QED
    BY <2>1, <2>2
<1> QED
  BY <1>2, <1>3

\* A stop string is found with the token that completes it, at its first place.
LEMMA StopsAreFound == TextInv => NoStopIsMissed
<1> SUFFICES ASSUME TextInv, params.min_tokens = 0
             PROVE  /\ text_status \in {"RUNNING", "LENGTH"} =>
                            \A i \in DOMAIN params.stop : ~HasString(output_text, params.stop[i])
                    /\ text_status = "STRING" /\ Len(params.stop) = 1 =>
                            find(output_text, params.stop[1], 0) =
                                IF params.include_stop_str_in_output
                                THEN Len(output_text) - Len(params.stop[1]) ELSE -1
  BY DEF NoStopIsMissed
<1>1. output_text \in Seq(Nat) /\ params \in TextParams
  BY DEF TextInv, TypesInv
<1>2. /\ DOMAIN params.stop = 1 .. Len(params.stop)
      /\ \A k \in DOMAIN params.stop : params.stop[k] \in Seq(Nat)
  BY <1>1, ParamTypes
<1>3. ASSUME text_status \in {"RUNNING", "LENGTH"}, NEW k \in DOMAIN params.stop
      PROVE  ~HasString(output_text, params.stop[k])
  <2>1. \A i : ~At(output_text, params.stop[k], i)
    BY <1>3 DEF TextInv, NoStringInv, NoneIn
  <2> QED
    BY <1>1, <1>2, <2>1, FoundWhereItIs DEF HasString
<1>4. ASSUME text_status = "STRING", Len(params.stop) = 1
      PROVE  find(output_text, params.stop[1], 0) =
                IF params.include_stop_str_in_output
                THEN Len(output_text) - Len(params.stop[1]) ELSE -1
  <2> DEFINE str == params.stop[1]
             place == Len(output_text) - Len(str)
  <2>1. str \in Seq(Nat)
    BY <1>2, <1>4
  <2>2. IF params.include_stop_str_in_output
        THEN At(output_text, str, place) /\ \A j : At(output_text, str, j) => j = place
        ELSE \A j : ~At(output_text, str, j)
    <3>1. \A k \in DOMAIN params.stop : k = 1
      BY <1>2, <1>4
    <3> QED
      BY <1>4, <3>1, Zenon DEF TextInv, CutInv
  <2> HIDE DEF str, place
  <2>3. find(output_text, str, 0) = IF params.include_stop_str_in_output THEN place ELSE -1
    BY <1>1, <2>1, <2>2, FoundWhereItIs
  <2> QED
    BY <2>3 DEF str, place
<1> QED
  BY <1>3, <1>4

\* What a stream has been sent is never taken back, and no stop string is
\* missed, with any tokens, stop strings and prompt.
THEOREM StreamedTextIsFinal == TextSpec => [](TextTypeOK /\ SentIsFinal /\ NoStopIsMissed)
<1>1. TextInv => TextTypeOK
  BY DEF TextInv, TypesInv, TextTypeOK
<1> QED
  BY <1>1, TextInvariance, StreamIsFinal, StopsAreFound, PTL

-----------------------------------------------------------------------------
(* The text: decoding in pieces *)

(* What is put together of two sequences of sequences.                     *)
LEMMA FlattenJoin ==
    ASSUME NEW S, NEW a \in Seq(Seq(S)), NEW b \in Seq(Seq(S))
    PROVE  FlattenSeq(a \o b) = FlattenSeq(a) \o FlattenSeq(b)
<1> DEFINE m == Len(a)
           n == Len(b)
           ab == a \o b
<1>1. /\ m \in Nat /\ n \in Nat /\ ab \in Seq(Seq(S)) /\ Len(ab) = m + n
      /\ \A i \in 1 .. m : ab[i] = a[i]
      /\ \A i \in 1 .. n : ab[m + i] = b[i]
  OBVIOUS
<1>2. FlattenSeq(a) \in Seq(S) /\ FlattenSeq(b) \in Seq(S)
  BY Flattened
<1>3. CASE m = 0
  <2>1. FlattenSeq(a) = <<>> /\ a = <<>>
    <3> DEFINE A == Seq(S)
    <3>1. a \in Seq(A) /\ FlattenSeq(a) = <<>>
      BY <1>3, Flattened, Zenon
    <3> HIDE DEF A
    <3> QED
      BY <1>3, <3>1
  <2>2. a \o b = b
    BY <2>1
  <2>3. <<>> \o FlattenSeq(b) = FlattenSeq(b)
    BY <1>2
  <2> QED
    BY <2>1, <2>2, <2>3
<1>4. CASE n = 0
  <2>1. FlattenSeq(b) = <<>> /\ b = <<>>
    <3> DEFINE A == Seq(S)
    <3>1. b \in Seq(A) /\ FlattenSeq(b) = <<>>
      BY <1>4, Flattened, Zenon
    <3> HIDE DEF A
    <3> QED
      BY <1>4, <3>1
  <2>2. a \o b = a
    BY <2>1
  <2>3. FlattenSeq(a) \o <<>> = FlattenSeq(a)
    BY <1>2
  <2> QED
    BY <2>1, <2>2, <2>3
<1>5. CASE m # 0 /\ n # 0
  <2>1. PICK F : IsFlat(F, a, S)
    BY <1>5, FlattenSteps
  <2>2. PICK G : IsFlat(G, b, S)
    BY <1>5, FlattenSteps
  <2> HIDE DEF ab
  <2>12. Len(ab) # 0
    BY <1>1, <1>5
  <2>3. PICK H : IsFlat(H, ab, S)
    BY <1>1, <2>12, FlattenSteps
  <2>4. /\ FlattenSeq(a) = F[m] /\ FlattenSeq(b) = G[n] /\ FlattenSeq(ab) = H[m + n]
        /\ \A i \in 1 .. m : F[i] \in Seq(S) /\ F[i] = IF i = 1 THEN a[i] ELSE F[i - 1] \o a[i]
        /\ \A i \in 1 .. n : G[i] \in Seq(S) /\ G[i] = IF i = 1 THEN b[i] ELSE G[i - 1] \o b[i]
        /\ \A i \in 1 .. m + n : H[i] = IF i = 1 THEN ab[i] ELSE H[i - 1] \o ab[i]
    BY <1>1, <2>1, <2>2, <2>3 DEF IsFlat
  <2>5. \A i \in 1 .. n : b[i] \in Seq(S)
    OBVIOUS
  <2> HIDE DEF m, n
  <2> DEFINE P == {k \in 0 .. m : k = 0 \/ H[k] = F[k]}
             Q == {k \in 0 .. n : k = 0 \/ H[m + k] = F[m] \o G[k]}
  <2>6. \A k \in 0 .. m : k \in P
    <3>1. 0 \in P
      BY <1>1
    <3>2. ASSUME NEW k \in 1 .. m, k - 1 \in P PROVE k \in P
      <4>1. k \in 1 .. m + n /\ k \in 0 .. m /\ (k = 1 \/ H[k - 1] = F[k - 1])
        BY <1>1, <3>2
      <4>2. H[k] = F[k]
        BY <1>1, <2>4, <4>1
      <4> QED
        BY <4>1, <4>2
    <3> HIDE DEF P
    <3> QED
      BY <1>1, <3>1, <3>2, UpTo
  <2>7. m \in 1 .. m /\ n \in 1 .. n /\ m \in 0 .. m /\ n \in 0 .. n
    BY <1>1, <1>5
  <2>8. H[m] = F[m] /\ F[m] \in Seq(S)
    BY <1>5, <2>4, <2>6, <2>7
  <2>9. \A k \in 0 .. n : k \in Q
    <3>1. 0 \in Q
      BY <1>1
    <3>2. ASSUME NEW k \in 1 .. n, k - 1 \in Q PROVE k \in Q
      <4> DEFINE l == m + k
                 h == k - 1
                 lh == m + h
      <4>1. l \in 1 .. m + n /\ l # 1 /\ k \in 0 .. n /\ l - 1 = lh
            /\ (k = 1 => lh = m) /\ (k # 1 => h # 0 /\ h \in 1 .. n)
        BY <1>1, <1>5
      <4>5. h \in Q /\ ab[l] = b[k]
        BY <1>1, <3>2
      <4>6. h = 0 \/ H[lh] = F[m] \o G[h]
        BY <4>5
      <4>7. G[k] = IF k = 1 THEN b[k] ELSE G[h] \o b[k]
        BY <2>4
      <4> HIDE DEF l, h, lh
      <4>2. H[l] = H[lh] \o b[k]
        <5>1. H[l] = H[l - 1] \o ab[l]
          BY <2>4, <4>1
        <5> QED
          BY <4>1, <4>5, <5>1
      <4>8. H[l] = F[m] \o G[k]
        <5>1. CASE k = 1
          BY <2>8, <4>1, <4>2, <4>7, <5>1
        <5>2. CASE k # 1
          <6>1. G[h] \in Seq(S) /\ b[k] \in Seq(S)
            BY <2>4, <2>5, <4>1, <5>2
          <6>2. (F[m] \o G[h]) \o b[k] = F[m] \o (G[h] \o b[k])
            <7> DEFINE u == F[m]
                       v == G[h]
                       w == b[k]
            <7>1. u \in Seq(S) /\ v \in Seq(S) /\ w \in Seq(S)
              BY <2>8, <6>1
            <7> HIDE DEF u, v, w
            <7>2. (u \o v) \o w = u \o (v \o w)
              BY <7>1, ConcatAssociative, SMTT(30)
            <7> QED
              BY <7>2 DEF u, v, w
          <6> QED
            BY <4>1, <4>2, <4>6, <4>7, <5>2, <6>2
        <5> QED
          BY <5>1, <5>2
      <4> QED
        BY <4>1, <4>8 DEF l
    <3> HIDE DEF Q
    <3> QED
      BY <1>1, <3>1, <3>2, UpTo
  <2>10. H[m + n] = F[m] \o G[n]
    BY <1>5, <2>7, <2>9
  <2> QED
    BY <2>4, <2>10 DEF ab
<1> QED
  BY <1>3, <1>4, <1>5

(* The tokens of more ids.                                                 *)
LEMMA TokensJoin ==
    ASSUME NEW x \in Seq(TokenIds), NEW y \in Seq(TokenIds), NEW skip
    PROVE  ToTokens(x \o y, skip) = ToTokens(x, skip) \o ToTokens(y, skip)
<1> DEFINE tok(id) == IF skip /\ id \in SpecialIds THEN <<>> ELSE <<TokenBytes[id]>>
           each(s) == [k \in DOMAIN s |-> tok(s[k])]
           S == Seq(Nat)
           m == Len(x)
           n == Len(y)
<1>1. \A id \in TokenIds : tok(id) \in Seq(S)
  <2> SUFFICES ASSUME NEW id \in TokenIds PROVE tok(id) \in Seq(S)
    OBVIOUS
  <2>1. TokenBytes[id] \in S
    BY TextAssumption
  <2> HIDE DEF S
  <2>2. <<TokenBytes[id]>> \in Seq(S) /\ <<>> \in Seq(S)
    BY <2>1
  <2> QED
    BY <2>2
<1> HIDE DEF tok, S
<1>2. \A s \in Seq(TokenIds) : /\ each(s) \in Seq(Seq(S)) /\ Len(each(s)) = Len(s)
                               /\ \A k \in 1 .. Len(s) : each(s)[k] = tok(s[k])
  <2> SUFFICES ASSUME NEW s \in Seq(TokenIds)
               PROVE  /\ each(s) \in Seq(Seq(S)) /\ Len(each(s)) = Len(s)
                      /\ \A k \in 1 .. Len(s) : each(s)[k] = tok(s[k])
    OBVIOUS
  <2>1. DOMAIN s = 1 .. Len(s) /\ Len(s) \in Nat /\ \A k \in 1 .. Len(s) : s[k] \in TokenIds
    OBVIOUS
  <2>2. each(s) \in [1 .. Len(s) -> Seq(S)]
    BY <1>1, <2>1
  <2>3. each(s) \in Seq(Seq(S)) /\ Len(each(s)) = Len(s)
    BY <2>1, <2>2
  <2> QED
    BY <2>1, <2>3
<1>3. /\ x \o y \in Seq(TokenIds) /\ Len(x \o y) = m + n /\ m \in Nat /\ n \in Nat
      /\ \A k \in 1 .. m + n : (x \o y)[k] = IF k <= m THEN x[k] ELSE y[k - m]
  BY ConcatProperties
<1>4. each(x \o y) = each(x) \o each(y)
  <2> DEFINE ex == each(x)
             ey == each(y)
             exy == each(x \o y)
  <2>1. /\ ex \in Seq(Seq(S)) /\ Len(ex) = m /\ \A k \in 1 .. m : ex[k] = tok(x[k])
        /\ ey \in Seq(Seq(S)) /\ Len(ey) = n /\ \A k \in 1 .. n : ey[k] = tok(y[k])
        /\ exy \in Seq(Seq(S)) /\ Len(exy) = m + n
        /\ \A k \in 1 .. m + n : exy[k] = tok((x \o y)[k])
    BY <1>2, <1>3
  <2> HIDE DEF ex, ey, exy, m, n
  <2>2. /\ ex \o ey \in Seq(Seq(S)) /\ Len(ex \o ey) = m + n
        /\ \A k \in 1 .. m + n : (ex \o ey)[k] = IF k <= m THEN ex[k] ELSE ey[k - m]
    <3> DEFINE A == Seq(S)
    <3> HIDE DEF A
    <3>1. ex \in Seq(A) /\ ey \in Seq(A)
      BY <2>1 DEF A
    <3>2. /\ ex \o ey \in Seq(A) /\ Len(ex \o ey) = Len(ex) + Len(ey)
          /\ \A k \in 1 .. Len(ex) + Len(ey) :
                (ex \o ey)[k] = IF k <= Len(ex) THEN ex[k] ELSE ey[k - Len(ex)]
      BY <3>1, ConcatProperties
    <3> QED
      BY <2>1, <3>2 DEF A
  <2>3. ASSUME NEW k \in 1 .. m + n PROVE exy[k] = (ex \o ey)[k]
    <3>0. m \in Nat /\ n \in Nat
      BY <1>3
    <3>1. k <= m => k \in 1 .. m
      BY <3>0
    <3>2. ~(k <= m) => k - m \in 1 .. n
      BY <3>0
    <3>3. exy[k] = tok((x \o y)[k]) /\ (x \o y)[k] = IF k <= m THEN x[k] ELSE y[k - m]
      BY <1>3, <2>1
    <3>4. k <= m => ex[k] = tok(x[k])
      BY <2>1, <3>1
    <3>5. ~(k <= m) => ey[k - m] = tok(y[k - m])
      BY <2>1, <3>2
    <3>6. (ex \o ey)[k] = IF k <= m THEN ex[k] ELSE ey[k - m]
      BY <2>2
    <3> QED
      BY <3>3, <3>4, <3>5, <3>6, Zenon
  <2>4. exy = ex \o ey
    <3> DEFINE A == Seq(S)
               z == ex \o ey
    <3> HIDE DEF A, z
    <3>1. exy \in Seq(A) /\ z \in Seq(A) /\ Len(exy) = Len(z) /\ \A k \in 1 .. Len(exy) : exy[k] = z[k]
      BY <2>1, <2>2, <2>3 DEF A, z
    <3> QED
      BY <3>1, SeqEqual DEF z
  <2> QED
    BY <2>4 DEF ex, ey, exy
<1>5. /\ ToTokens(x, skip) = FlattenSeq(each(x)) /\ ToTokens(y, skip) = FlattenSeq(each(y))
      /\ ToTokens(x \o y, skip) = FlattenSeq(each(x \o y))
  BY Zenon DEF ToTokens, tok
<1>6. each(x) \in Seq(Seq(S)) /\ each(y) \in Seq(Seq(S))
  BY <1>2
<1> HIDE DEF each
<1>7. FlattenSeq(each(x) \o each(y)) = FlattenSeq(each(x)) \o FlattenSeq(each(y))
  BY <1>6, FlattenJoin
<1> QED
  BY <1>4, <1>5, <1>7, Zenon

(* Characters behind a text.                                               *)
LEMMA Behind ==
    ASSUME NEW before \in Seq(Nat), NEW text \in Seq(Nat)
    PROVE  /\ \A e \in Nat : Append(before \o text, e) = before \o Append(text, e)
           /\ \A s \in Seq(Nat) : (before \o text) \o s = before \o (text \o s)
<1>1. \A s \in Seq(Nat) : (before \o text) \o s = before \o (text \o s)
  BY ConcatAssociative, SMTT(30)
<1>2. ASSUME NEW e \in Nat PROVE Append(before \o text, e) = before \o Append(text, e)
  <2> DEFINE all == before \o text
             s == <<e>>
  <2>1. all \in Seq(Nat) /\ s \in Seq(Nat)
    OBVIOUS
  <2> HIDE DEF all
  <2>2. Append(all, e) = all \o s /\ Append(text, e) = text \o s
    BY <2>1, AppendIsConcat
  <2> HIDE DEF s
  <2>3. all \o s = before \o (text \o s)
    BY <1>1, <2>1 DEF all
  <2> QED
    BY <2>2, <2>3 DEF all
<1> QED
  BY <1>1, <1>2

(* Half a character is waiting when the last byte begins one; decoding     *)
(* then ends in a replacement character.                                   *)
LEMMA HalfIsBad ==
    ASSUME NEW bytes \in Seq(Nat)
    PROVE  /\ ByteLevelRead(bytes)[Len(bytes)].lead = EndsHalf(bytes)
           /\ EndsHalf(bytes) => EndsBad(ByteLevel(bytes))
<1> DEFINE n == Len(bytes)
           R == ByteLevelRead(bytes)
<1>1. /\ R \in [0 .. n -> ByteLevelStates] /\ R[0] = [text |-> <<>>, lead |-> FALSE]
      /\ \A k \in 1 .. n : R[k] = ByteLevelStep(R[k - 1], bytes[k])
      /\ ByteLevel(bytes) = FlushLead(R[n])
  BY ByteLevelIs
<1> HIDE DEF R
<1>2. n \in Nat /\ (n = 0 <=> bytes = <<>>) /\ \A k \in 1 .. n : bytes[k] \in Nat
  OBVIOUS
<1>3. EndsHalf(bytes) <=> n # 0 /\ bytes[n] = Lead
  BY <1>2 DEF EndsHalf, Last
<1> HIDE DEF n
<1>4. n \in 0 .. n /\ R[n] \in ByteLevelStates
  BY <1>1, <1>2
<1>5. R[n].lead = EndsHalf(bytes)
  <2>1. CASE n = 0
    <3>1. EndsHalf(bytes) = FALSE
      BY <1>3, <2>1 DEF EndsHalf
    <3>2. R[n].lead = FALSE
      BY <1>1, <2>1
    <3> QED
      BY <3>1, <3>2
  <2>2. CASE n # 0
    <3> DEFINE acc == R[n - 1]
               x == bytes[n]
    <3>1. R[n] = ByteLevelStep(acc, x) /\ acc \in ByteLevelStates /\ x \in Nat
      <4>1. n \in 1 .. n /\ n - 1 \in 0 .. n
        BY <1>2, <2>2
      <4> QED
        BY <1>1, <1>2, <4>1
    <3> HIDE DEF acc, x
    <3>3. ByteLevelStep(acc, x).lead = (x = Lead)
      BY DEF ByteLevelStep
    <3>4. EndsHalf(bytes) = (x = Lead)
      BY <1>3, <2>2 DEF EndsHalf, x
    <3> QED
      BY <3>1, <3>3, <3>4
  <2> QED
    BY <2>1, <2>2
<1>6. ASSUME EndsHalf(bytes) PROVE EndsBad(ByteLevel(bytes))
  <2> DEFINE text == R[n].text
             t == Append(text, Bad)
  <2>1. ByteLevel(bytes) = t
    BY <1>1, <1>5, <1>6 DEF FlushLead
  <2>2. text \in Seq(Nat)
    BY <1>4 DEF ByteLevelStates
  <2> HIDE DEF text
  <2>3. t # <<>> /\ t[Len(t)] = Bad
    BY <2>2
  <2> QED
    BY <2>1, <2>3 DEF EndsBad, Last
<1> QED
  BY <1>5, <1>6 DEF R, n

(* Bytes that do not end in half a character, and what follows them, are   *)
(* decoded alone as together.                                              *)
LEMMA ByteLevelJoin ==
    ASSUME NEW x \in Seq(Nat), NEW y \in Seq(Nat), ~EndsHalf(x)
    PROVE  ByteLevel(x \o y) = ByteLevel(x) \o ByteLevel(y)
<1> DEFINE m == Len(x)
           n == Len(y)
           xy == x \o y
           F == ByteLevelRead(x)
           G == ByteLevelRead(y)
           H == ByteLevelRead(xy)
           base == [text |-> <<>>, lead |-> FALSE]
<1>1. /\ m \in Nat /\ n \in Nat /\ xy \in Seq(Nat) /\ Len(xy) = m + n
      /\ \A i \in 1 .. m : xy[i] = x[i] /\ x[i] \in Nat
      /\ \A i \in 1 .. n : xy[m + i] = y[i] /\ y[i] \in Nat
  OBVIOUS
<1>2. /\ F \in [0 .. m -> ByteLevelStates] /\ F[0] = base
      /\ \A k \in 1 .. m : F[k] = ByteLevelStep(F[k - 1], x[k])
      /\ ByteLevel(x) = FlushLead(F[m])
  BY ByteLevelIs
<1>3. /\ G \in [0 .. n -> ByteLevelStates] /\ G[0] = base
      /\ \A k \in 1 .. n : G[k] = ByteLevelStep(G[k - 1], y[k])
      /\ ByteLevel(y) = FlushLead(G[n])
  BY ByteLevelIs
<1> HIDE DEF xy
<1>4. /\ H[0] = base
      /\ \A k \in 1 .. m + n : H[k] = ByteLevelStep(H[k - 1], xy[k])
      /\ ByteLevel(xy) = FlushLead(H[m + n])
  <2> DEFINE l == Len(xy)
  <2>1. /\ H[0] = base
        /\ \A k \in 1 .. l : H[k] = ByteLevelStep(H[k - 1], xy[k])
        /\ ByteLevel(xy) = FlushLead(H[l])
    BY <1>1, ByteLevelIs
  <2>2. l = m + n
    BY <1>1
  <2> HIDE DEF l
  <2> QED
    BY <2>1, <2>2
<1>5. F[m].lead = FALSE
  BY HalfIsBad DEF EndsHalf
<1> HIDE DEF F, G, H, m, n, base
<1> DEFINE text == F[m].text
           after(s) == [text |-> text \o s.text, lead |-> s.lead]
           P == {k \in 0 .. m : H[k] = F[k]}
           Q == {k \in 0 .. n : H[m + k] = after(G[k])}
<1>6. m \in 0 .. m /\ n \in 0 .. n /\ text \in Seq(Nat) /\ F[m] = [text |-> text, lead |-> FALSE]
  <2>1. m \in 0 .. m /\ n \in 0 .. n
    BY <1>1
  <2>2. F[m] \in ByteLevelStates
    BY <1>2, <2>1
  <2> QED
    BY <1>5, <2>1, <2>2 DEF ByteLevelStates
<1>7. \A k \in 0 .. m : k \in P
  <2>1. 0 \in P
    BY <1>1, <1>2, <1>4
  <2>2. ASSUME NEW k \in 1 .. m, k - 1 \in P PROVE k \in P
    <3>1. k \in 1 .. m + n /\ k \in 0 .. m /\ H[k - 1] = F[k - 1]
      BY <1>1, <2>2
    <3>2. H[k] = F[k]
      BY <1>1, <1>2, <1>4, <3>1
    <3> QED
      BY <3>1, <3>2
  <2> HIDE DEF P
  <2> QED
    BY <1>1, <2>1, <2>2, UpTo
<1>8. H[m] = F[m]
  BY <1>6, <1>7
<1> HIDE DEF text
<1>9. \A k \in 0 .. n : k \in Q
  <2>1. 0 \in Q
    <3>1. m + 0 = m /\ 0 \in 0 .. n
      BY <1>1
    <3>2. G[0].text = <<>> /\ G[0].lead = FALSE
      BY <1>3 DEF base
    <3>3. text \o G[0].text = text
      BY <1>6, <3>2
    <3>4. after(G[0]) = F[m]
      BY <1>6, <3>2, <3>3
    <3> QED
      BY <1>8, <3>1, <3>4
  <2>2. ASSUME NEW k \in 1 .. n, k - 1 \in Q PROVE k \in Q
    <3> DEFINE l == m + k
               h == k - 1
               lh == m + h
    <3>1. l \in 1 .. m + n /\ k \in 0 .. n /\ h \in 0 .. n /\ l - 1 = lh
      BY <1>1
    <3>2. h \in Q /\ xy[l] = y[k] /\ y[k] \in Nat
      BY <1>1, <2>2
    <3>3. H[lh] = after(G[h])
      BY <3>2
    <3>4. G[k] = ByteLevelStep(G[h], y[k]) /\ G[h] \in ByteLevelStates
      BY <1>3, <3>1
    <3> HIDE DEF l, h, lh
    <3>5. H[l] = ByteLevelStep(H[lh], y[k])
      <4>1. H[l] = ByteLevelStep(H[l - 1], xy[l])
        BY <1>4, <3>1
      <4> QED
        BY <3>1, <3>2, <4>1
    <3>6. ByteLevelStep(after(G[h]), y[k]) = after(G[k])
      <4> DEFINE acc == G[h]
                 z == y[k]
                 chars == ByteChars(acc.lead, z)
      <4>1. G[k] = ByteLevelStep(acc, z) /\ acc.text \in Seq(Nat) /\ chars \in Seq(Nat)
        BY <3>2, <3>4, ByteCharsAre DEF ByteLevelStates
      <4>2. after(acc).text = text \o acc.text /\ after(acc).lead = acc.lead
        OBVIOUS
      <4>3. (text \o acc.text) \o chars = text \o (acc.text \o chars)
        BY <1>6, <4>1, Behind
      <4>4. ByteLevelStep(after(acc), z) = [text |-> (text \o acc.text) \o chars, lead |-> z = Lead]
        BY <4>2, Zenon DEF ByteLevelStep
      <4>5. after(G[k]) = [text |-> text \o (acc.text \o chars), lead |-> z = Lead]
        BY <4>1 DEF ByteLevelStep
      <4> QED
        BY <4>3, <4>4, <4>5, Zenon
    <3>7. H[l] = after(G[k])
      BY <3>3, <3>5, <3>6, Zenon
    <3> QED
      BY <3>1, <3>7 DEF l
  <2> HIDE DEF Q
  <2> QED
    BY <1>1, <2>1, <2>2, UpTo
<1>10. H[m + n] = after(G[n])
  BY <1>6, <1>9
<1> DEFINE u == G[n].text
           lead == G[n].lead
           full == text \o u
<1>11. u \in Seq(Nat) /\ lead \in BOOLEAN
  BY <1>3, <1>6 DEF ByteLevelStates
<1>12. ByteLevel(y) = IF lead THEN Append(u, Bad) ELSE u
  BY <1>3 DEF FlushLead
<1>13. ByteLevel(xy) = IF lead THEN Append(full, Bad) ELSE full
  BY <1>4, <1>10 DEF FlushLead
<1>14. ByteLevel(x) = text
  BY <1>2, <1>6 DEF FlushLead
<1> HIDE DEF u, lead
<1>15. Append(full, Bad) = text \o Append(u, Bad)
  <2>1. Bad \in Nat
    BY DEF Bad
  <2> QED
    BY <1>6, <1>11, <2>1, Behind
<1> QED
  BY <1>12, <1>13, <1>14, <1>15 DEF xy

-----------------------------------------------------------------------------
(* The text: a token at a time and all at once *)

\* The bytes of the tokens that are looked back at, and of those whose text has
\* not been given yet.
Before == FlattenSeq(SubSeq(tokens, prefix_offset + 1, read_offset))
Pending == FlattenSeq(SubSeq(tokens, read_offset + 1, Len(tokens)))

OutputBytes == FlattenSeq(ToTokens(output_ids, params.skip_special_tokens))

\* The text is that of the bytes done, which end no half character; what is
\* pending is nothing yet or may still become a character.
DoneInv(done) ==
    /\ ~EndsHalf(done)
    /\ OutputBytes = done \o Pending
    /\ output_text = ByteLevel(done)

DecodeInv ==
    tokenizer = "ByteLevel" /\ text_status = "RUNNING" =>
        /\ ~EndsHalf(Before)
        /\ \E done \in Seq(Nat) : DoneInv(done)
        /\ ByteLevel(Pending) = <<>> \/ EndsBad(ByteLevel(Pending))

(* The end of what ends in half a character does.                          *)
LEMMA HalfAtTheEnd ==
    ASSUME NEW x \in Seq(Nat), NEW y \in Seq(Nat)
    PROVE  /\ EndsHalf(y) => EndsHalf(x \o y)
           /\ EndsHalf(x \o y) => EndsHalf(x) \/ EndsHalf(y)
<1>1. /\ Len(x \o y) = Len(x) + Len(y) /\ Len(x) \in Nat /\ Len(y) \in Nat
      /\ x \o y \in Seq(Nat)
      /\ \A i \in 1 .. Len(x) : (x \o y)[i] = x[i]
      /\ \A i \in 1 .. Len(y) : (x \o y)[Len(x) + i] = y[i]
  OBVIOUS
<1>2. \A s \in Seq(Nat) : EndsHalf(s) <=> Len(s) # 0 /\ s[Len(s)] = Lead
  <2> SUFFICES ASSUME NEW s \in Seq(Nat) PROVE EndsHalf(s) <=> Len(s) # 0 /\ s[Len(s)] = Lead
    OBVIOUS
  <2>1. s = <<>> <=> Len(s) = 0
    OBVIOUS
  <2> QED
    BY <2>1, Zenon DEF EndsHalf, Last
<1>3. CASE Len(y) = 0
  <2>1. y = <<>>
    BY <1>3
  <2>2. x \o y = x
    BY <2>1
  <2>3. ~EndsHalf(y)
    BY <1>2, <1>3
  <2> QED
    BY <2>2, <2>3
<1>4. CASE Len(y) # 0
  <2> DEFINE n == Len(y)
             l == Len(x) + Len(y)
             z == x \o y
  <2>1. n \in 1 .. n /\ z[l] = y[n] /\ Len(z) = l /\ l # 0 /\ n # 0 /\ z \in Seq(Nat)
    BY <1>1, <1>4
  <2>2. EndsHalf(y) <=> y[n] = Lead
    BY <1>2, <1>4
  <2> HIDE DEF z, l
  <2>3. EndsHalf(z) <=> z[l] = Lead
    BY <1>2, <2>1
  <2> QED
    BY <2>1, <2>2, <2>3 DEF z
<1> QED
  BY <1>3, <1>4

(* The end of a text is the end of what is put behind another text.        *)
LEMMA BadAtTheEnd ==
    ASSUME NEW x \in Seq(Nat), NEW y \in Seq(Nat), y # <<>>
    PROVE  EndsBad(x \o y) <=> EndsBad(y)
<1> DEFINE z == x \o y
           n == Len(y)
           l == Len(x) + n
<1>1. /\ z \in Seq(Nat) /\ Len(z) = l /\ n \in Nat \ {0} /\ Len(x) \in Nat
      /\ z # <<>> /\ z[l] = y[n]
  OBVIOUS
<1> HIDE DEF z, l
<1>2. EndsBad(z) <=> z[l] = Bad
  BY <1>1 DEF EndsBad, Last
<1>3. EndsBad(y) <=> y[n] = Bad
  BY DEF EndsBad, Last
<1> QED
  BY <1>1, <1>2, <1>3 DEF z

(* What comes behind a text.                                               *)
LEMMA RestIs ==
    ASSUME NEW x \in Seq(Nat), NEW y \in Seq(Nat)
    PROVE  /\ SubSeq(x \o y, Len(x) + 1, Len(x \o y)) = y
           /\ Len(x \o y) <= Len(x) <=> y = <<>>
           /\ IsPrefix(x, x \o y)
<1> DEFINE z == x \o y
           m == Len(x)
           n == Len(y)
<1>1. /\ z \in Seq(Nat) /\ Len(z) = m + n /\ m \in Nat /\ n \in Nat
      /\ \A i \in 1 .. m : z[i] = x[i]
      /\ \A i \in 1 .. n : z[m + i] = y[i]
      /\ (n = 0 <=> y = <<>>)
  OBVIOUS
<1> HIDE DEF z
<1>2. SubSeq(z, m + 1, m + n) = y
  <2> DEFINE s == SubSeq(z, m + 1, m + n)
  <2>1. s \in Seq(Nat) /\ Len(s) = n
    BY <1>1
  <2>2. ASSUME NEW i \in 1 .. n PROVE s[i] = y[i]
    <3>1. m + 1 + i - 1 = m + i /\ m + 1 <= m + n
      BY <1>1
    <3>2. s[i] = z[m + 1 + i - 1]
      BY <1>1, <3>1
    <3> QED
      BY <1>1, <3>1, <3>2
  <2> HIDE DEF s
  <2>3. s = y
    BY <2>1, <2>2, SeqEqual
  <2> QED
    BY <2>3 DEF s
<1>3. IsPrefix(x, z)
  <2> DEFINE s == SubSeq(z, 1, m)
  <2>1. m \in 0 .. Len(z)
    BY <1>1
  <2>2. s \in Seq(Nat) /\ Len(s) = m /\ \A i \in 1 .. m : s[i] = z[i]
    BY <1>1, <2>1, Cut DEF Begins
  <2> HIDE DEF s
  <2>3. s = x
    BY <1>1, <2>2, SeqEqual
  <2>4. SubSeq(x, 1, Len(x)) = x
    OBVIOUS
  <2> QED
    BY <2>1, <2>3, <2>4, <1>1 DEF IsPrefix, s
<1> QED
  BY <1>1, <1>2, <1>3 DEF z

(* Tokens, cut at two places.                                              *)
LEMMA TokensCut ==
    ASSUME NEW ts \in Seq(Seq(Nat)), NEW a \in 0 .. Len(ts), NEW b \in a .. Len(ts)
    PROVE  /\ SubSeq(ts, a + 1, b) \in Seq(Seq(Nat)) /\ SubSeq(ts, b + 1, Len(ts)) \in Seq(Seq(Nat))
           /\ SubSeq(ts, a + 1, Len(ts)) = SubSeq(ts, a + 1, b) \o SubSeq(ts, b + 1, Len(ts))
<1> DEFINE S == Seq(Nat)
           n == Len(ts)
           m == a + 1
<1>1. ts \in Seq(S) /\ n \in Nat
  <2> HIDE DEF S
  <2>1. ts \in Seq(S)
    BY DEF S
  <2> QED
    BY <2>1
<1> HIDE DEF S
<1>2. m \in 1 .. n + 1 /\ b \in m - 1 .. n /\ n \in b .. n
  BY <1>1
<1>3. SubSeq(ts, m, b) \in Seq(S) /\ SubSeq(ts, b + 1, n) \in Seq(S)
  BY <1>1, <1>2
<1> HIDE DEF m
<1>4. SubSeq(ts, m, b) \o SubSeq(ts, b + 1, n) = SubSeq(ts, m, n)
  BY <1>1, <1>2, ConcatAdjacentSubSeq
<1> QED
  BY <1>3, <1>4 DEF S, m

(* What a token adds.                                                      *)
LEMMA NewTextIs ==
    ASSUME NEW ts \in Seq(Seq(Nat)), read_offset \in 0 .. Len(ts), prefix_offset \in 0 .. read_offset,
           tokenizer = "ByteLevel", NEW before, NEW rest,
           before = FlattenSeq(SubSeq(ts, prefix_offset + 1, read_offset)), ~EndsHalf(before),
           rest = FlattenSeq(SubSeq(ts, read_offset + 1, Len(ts)))
    PROVE  /\ before \in Seq(Nat) /\ rest \in Seq(Nat)
           /\ NewText(ts) = IF ByteLevel(rest) = <<>> \/ EndsBad(ByteLevel(rest)) THEN <<>>
                            ELSE ByteLevel(rest)
<1> DEFINE A == SubSeq(ts, prefix_offset + 1, read_offset)
           B == SubSeq(ts, read_offset + 1, Len(ts))
           C == SubSeq(ts, prefix_offset + 1, Len(ts))
           x == ByteLevel(before)
           y == ByteLevel(rest)
           z == x \o y
<1>1. A \in Seq(Seq(Nat)) /\ B \in Seq(Seq(Nat)) /\ C = A \o B
  <2> DEFINE a == prefix_offset
             b == read_offset
  <2>1. a \in 0 .. Len(ts) /\ b \in a .. Len(ts)
    OBVIOUS
  <2> HIDE DEF a, b
  <2>2. /\ SubSeq(ts, a + 1, b) \in Seq(Seq(Nat)) /\ SubSeq(ts, b + 1, Len(ts)) \in Seq(Seq(Nat))
        /\ SubSeq(ts, a + 1, Len(ts)) = SubSeq(ts, a + 1, b) \o SubSeq(ts, b + 1, Len(ts))
    BY <2>1, TokensCut
  <2> QED
    BY <2>2 DEF a, b
<1>2. before = FlattenSeq(A) /\ rest = FlattenSeq(B)
  OBVIOUS
<1>3. NewText(ts) =
        IF \/ Len(convert_tokens_to_string(C)) <= Len(convert_tokens_to_string(A))
           \/ EndsBad(convert_tokens_to_string(C))
        THEN <<>>
        ELSE SubSeq(convert_tokens_to_string(C), Len(convert_tokens_to_string(A)) + 1,
                    Len(convert_tokens_to_string(C)))
  BY Zenon DEF NewText
<1> HIDE DEF A, B, C
<1>4. before \in Seq(Nat) /\ rest \in Seq(Nat)
  BY <1>1, <1>2, Flattened
<1>5. FlattenSeq(C) = before \o rest
  <2>1. FlattenSeq(A \o B) = FlattenSeq(A) \o FlattenSeq(B)
    BY <1>1, FlattenJoin
  <2> QED
    BY <1>1, <1>2, <2>1
<1>6. convert_tokens_to_string(A) = x /\ convert_tokens_to_string(C) = ByteLevel(before \o rest)
  BY <1>2, <1>5, Zenon DEF convert_tokens_to_string
<1>7. ByteLevel(before \o rest) = z
  BY <1>4, ByteLevelJoin
<1>8. x \in Seq(Nat) /\ y \in Seq(Nat)
  BY <1>4, ByteLevelText
<1> HIDE DEF x, y
<1>9. /\ SubSeq(z, Len(x) + 1, Len(z)) = y
      /\ Len(z) <= Len(x) <=> y = <<>>
      /\ y # <<>> => (EndsBad(z) <=> EndsBad(y))
  BY <1>8, RestIs, BadAtTheEnd
<1> HIDE DEF z
<1>10. NewText(ts) = IF Len(z) <= Len(x) \/ EndsBad(z) THEN <<>> ELSE SubSeq(z, Len(x) + 1, Len(z))
  BY <1>3, <1>6, <1>7, Zenon
<1>11. NewText(ts) = IF y = <<>> \/ EndsBad(y) THEN <<>> ELSE y
  <2>1. CASE y = <<>>
    BY <1>9, <1>10, <2>1, Zenon
  <2>2. CASE y # <<>>
    BY <1>9, <1>10, <2>2, Zenon
  <2> QED
    BY <2>1, <2>2
<1> QED
  BY <1>4, <1>11 DEF y

(* More tokens.                                                            *)
LEMMA TokensMore ==
    ASSUME NEW ts \in Seq(Seq(Nat)), NEW more \in Seq(Seq(Nat)),
           NEW a \in Nat, NEW b \in Nat, a <= b, b <= Len(ts)
    PROVE  /\ SubSeq(ts \o more, a + 1, b) = SubSeq(ts, a + 1, b)
           /\ SubSeq(ts \o more, b + 1, Len(ts \o more)) = SubSeq(ts, b + 1, Len(ts)) \o more
<1> DEFINE S == Seq(Nat)
           n == Len(ts)
           m == Len(more)
           all == ts \o more
<1>1. ts \in Seq(S) /\ more \in Seq(S)
  <2> HIDE DEF S
  <2> QED
    BY DEF S
<1> HIDE DEF S
<1>2. /\ all \in Seq(S) /\ Len(all) = n + m /\ n \in Nat /\ m \in Nat
      /\ \A i \in 1 .. n : all[i] = ts[i]
      /\ \A i \in 1 .. m : all[n + i] = more[i]
  BY <1>1
<1>3. SubSeq(all, a + 1, b) = SubSeq(ts, a + 1, b)
  <2> DEFINE s == SubSeq(all, a + 1, b)
             t == SubSeq(ts, a + 1, b)
  <2>1. /\ s \in Seq(S) /\ Len(s) = b - a /\ t \in Seq(S) /\ Len(t) = b - a
    <3> HIDE DEF all, n, m
    <3> QED
      BY <1>1, <1>2 DEF n
  <2>2. ASSUME NEW i \in 1 .. b - a PROVE s[i] = t[i]
    <3> HIDE DEF all
    <3>1. a + 1 + i - 1 \in 1 .. n /\ a + 1 <= b
      BY <1>2, <2>2
    <3>2. s[i] = all[a + 1 + i - 1] /\ t[i] = ts[a + 1 + i - 1]
      BY <1>1, <1>2, <3>1
    <3> QED
      BY <1>2, <3>1, <3>2
  <2> HIDE DEF s, t
  <2>3. s = t
    BY <2>1, <2>2, SeqEqual
  <2> QED
    BY <2>3 DEF s, t
<1>4. SubSeq(all, b + 1, n + m) = SubSeq(ts, b + 1, n) \o more
  <2> DEFINE s == SubSeq(all, b + 1, n + m)
             u == SubSeq(ts, b + 1, n)
             t == u \o more
             k == n - b
  <2>1. s \in Seq(S) /\ Len(s) = k + m /\ k \in Nat
    <3> HIDE DEF all
    <3> QED
      BY <1>2
  <2>2. u \in Seq(S) /\ Len(u) = k /\ \A i \in 1 .. k : u[i] = ts[b + i]
    <3>1. u \in Seq(S) /\ Len(u) = k
      BY <1>1, <1>2
    <3>2. ASSUME NEW i \in 1 .. k PROVE u[i] = ts[b + i]
      <4>1. b + 1 + i - 1 = b + i /\ b + 1 <= n
        BY <1>2, <2>1
      <4>2. u[i] = ts[b + 1 + i - 1]
        BY <1>1, <1>2, <4>1
      <4> QED
        BY <4>1, <4>2
    <3> QED
      BY <3>1, <3>2
  <2> HIDE DEF u
  <2>3. /\ t \in Seq(S) /\ Len(t) = k + m
        /\ \A i \in 1 .. k : t[i] = u[i]
        /\ \A i \in 1 .. m : t[k + i] = more[i]
    <3> HIDE DEF k, m
    <3>1. /\ t \in Seq(S) /\ Len(t) = Len(u) + Len(more)
          /\ \A i \in 1 .. Len(u) + Len(more) :
                t[i] = IF i <= Len(u) THEN u[i] ELSE more[i - Len(u)]
      BY <1>1, <2>2, ConcatProperties
    <3>2. /\ t \in Seq(S) /\ Len(t) = k + m
          /\ \A i \in 1 .. k + m : t[i] = IF i <= k THEN u[i] ELSE more[i - k]
      BY <2>2, <3>1 DEF m
    <3> HIDE DEF t
    <3>3. /\ \A i \in 1 .. k : i \in 1 .. k + m /\ i <= k
          /\ \A i \in 1 .. m : k + i \in 1 .. k + m /\ ~(k + i <= k) /\ (k + i) - k = i
      BY <1>2, <2>1
    <3> QED
      BY <3>2, <3>3
  <2>4. ASSUME NEW i \in 1 .. k + m PROVE s[i] = t[i]
    <3>1. s[i] = all[b + i]
      <4> HIDE DEF all
      <4>1. b + 1 + i - 1 = b + i /\ b + 1 <= n + m
        BY <1>2, <2>1
      <4>2. s[i] = all[b + 1 + i - 1]
        BY <1>2, <2>1, <4>1
      <4> QED
        BY <4>1, <4>2
    <3>2. CASE i <= k
      <4>1. i \in 1 .. k /\ b + i \in 1 .. n
        BY <1>2, <2>1, <3>2
      <4> QED
        BY <1>2, <2>2, <2>3, <3>1, <4>1
    <3>3. CASE ~(i <= k)
      <4> DEFINE j == i - k
      <4>1. j \in 1 .. m /\ b + i = n + j /\ i = k + j
        BY <1>2, <2>1, <3>3
      <4> HIDE DEF j, t, all
      <4> QED
        BY <1>2, <2>3, <3>1, <4>1
    <3> QED
      BY <3>2, <3>3
  <2> HIDE DEF s, t, k
  <2>5. s = t
    BY <2>1, <2>3, <2>4, SeqEqual
  <2> QED
    BY <2>5 DEF s, t, u
<1> QED
  BY <1>2, <1>3, <1>4

(* A token is done, or pending with those before it.                       *)
LEMMA DecodeStep ==
    ASSUME TypesInv, DecodeInv, NEW id \in TokenIds, AppendToken(id)
    PROVE  DecodeInv'
<1> SUFFICES ASSUME tokenizer' = "ByteLevel", text_status' = "RUNNING"
             PROVE  /\ ~EndsHalf(Before')
                    /\ \E done \in Seq(Nat) : DoneInv(done)'
                    /\ ByteLevel(Pending') = <<>> \/ EndsBad(ByteLevel(Pending'))
  BY DEF DecodeInv
<1>1. /\ output_ids' \in Seq(TokenIds) /\ tokens' \in Seq(Seq(Nat)) /\ params' = params
      /\ text_status = "RUNNING" /\ tokenizer = "ByteLevel"
      /\ \E new, s : Adds(new, s)
  BY OneToken DEF AppendToken
<1>2. PICK new, s : Adds(new, s)
  BY <1>1, Zenon
<1>3. ~EndsHalf(Before) /\ (ByteLevel(Pending) = <<>> \/ EndsBad(ByteLevel(Pending)))
  BY <1>1 DEF DecodeInv
<1>4. PICK done \in Seq(Nat) : DoneInv(done)
  BY <1>1 DEF DecodeInv
<1> DEFINE skip == params.skip_special_tokens
           more == ToTokens(<<id>>, skip)
           bytes == FlattenSeq(more)
           p == prefix_offset
           r == read_offset
           rest == FlattenSeq(SubSeq(tokens', r + 1, Len(tokens')))
<1>5. /\ p \in Nat /\ r \in Nat /\ p <= r /\ r <= Len(tokens) /\ tokens \in Seq(Seq(Nat))
      /\ output_ids \in Seq(TokenIds) /\ params \in TextParams
      /\ output_text \in Seq(Nat)
  BY DEF TypesInv
<1>6. more \in Seq(Seq(Nat)) /\ <<id>> \in Seq(TokenIds) /\ bytes \in Seq(Nat)
  <2>1. <<id>> \in Seq(TokenIds)
    OBVIOUS
  <2>2. more \in Seq(Seq(Nat))
    BY <2>1, TokensOfIds
  <2> HIDE DEF more
  <2> QED
    BY <2>1, <2>2, Flattened
<1>7. tokens' = tokens \o more /\ output_ids' = output_ids \o <<id>>
  BY <1>5, AppendIsConcat DEF AppendToken
<1> HIDE DEF more
<1>8. /\ SubSeq(tokens', p + 1, r) = SubSeq(tokens, p + 1, r)
      /\ SubSeq(tokens', r + 1, Len(tokens')) = SubSeq(tokens, r + 1, Len(tokens)) \o more
  <2> HIDE DEF p, r
  <2> QED
    BY <1>5, <1>6, <1>7, TokensMore
<1>9. SubSeq(tokens, r + 1, Len(tokens)) \in Seq(Seq(Nat)) /\ Pending \in Seq(Nat)
  <2> DEFINE pending == SubSeq(tokens, r + 1, Len(tokens))
  <2>1. r \in 0 .. Len(tokens) /\ r \in r .. Len(tokens)
    BY <1>5
  <2> HIDE DEF r
  <2>2. pending \in Seq(Seq(Nat))
    BY <1>5, <2>1, TokensCut
  <2>3. Pending = FlattenSeq(pending)
    BY DEF Pending, r
  <2> HIDE DEF pending
  <2>4. FlattenSeq(pending) \in Seq(Nat)
    BY <2>2, Flattened
  <2> QED
    BY <2>2, <2>3, <2>4 DEF pending
<1>10. rest = Pending \o bytes
  <2> DEFINE pending == SubSeq(tokens, r + 1, Len(tokens))
  <2>1. pending \in Seq(Seq(Nat)) /\ Pending = FlattenSeq(pending)
    BY <1>9 DEF Pending
  <2>2. rest = FlattenSeq(pending \o more)
    BY <1>8
  <2> HIDE DEF pending
  <2>3. FlattenSeq(pending \o more) = FlattenSeq(pending) \o FlattenSeq(more)
    BY <1>6, <2>1, FlattenJoin
  <2> QED
    BY <2>1, <2>2, <2>3
<1> HIDE DEF bytes, rest
<1>11. /\ rest \in Seq(Nat)
       /\ NewText(tokens') = IF ByteLevel(rest) = <<>> \/ EndsBad(ByteLevel(rest)) THEN <<>>
                             ELSE ByteLevel(rest)
  <2> DEFINE ts == tokens \o more
  <2>1. ts \in Seq(Seq(Nat)) /\ r \in 0 .. Len(ts) /\ p \in 0 .. r /\ tokens' = ts
    <3>1. tokens' = ts
      BY <1>7
    <3> DEFINE S == Seq(Nat)
    <3>2. tokens \in Seq(S) /\ more \in Seq(S)
      BY <1>5, <1>6
    <3> HIDE DEF S
    <3>3. ts \in Seq(S) /\ Len(ts) = Len(tokens) + Len(more) /\ Len(more) \in Nat /\ Len(tokens) \in Nat
      BY <3>2
    <3> HIDE DEF ts
    <3> QED
      BY <1>5, <3>1, <3>3 DEF S
  <2>2. Before = FlattenSeq(SubSeq(ts, p + 1, r)) /\ rest = FlattenSeq(SubSeq(ts, r + 1, Len(ts)))
    BY <1>8, <2>1 DEF Before, rest
  <2> HIDE DEF ts
  <2>3. /\ rest \in Seq(Nat)
        /\ NewText(ts) = IF ByteLevel(rest) = <<>> \/ EndsBad(ByteLevel(rest)) THEN <<>>
                         ELSE ByteLevel(rest)
    BY <1>1, <1>3, <2>1, <2>2, NewTextIs
  <2> QED
    BY <2>1, <2>3
<1>12. /\ new = IF ByteLevel(rest) = <<>> \/ EndsBad(ByteLevel(rest)) THEN <<>> ELSE ByteLevel(rest)
       /\ output_text' = output_text \o new /\ new \in Seq(Nat)
  <2>1. /\ new = NewText(tokens') /\ new \in Seq(Nat)
        /\ s = MaybeStop(output_ids', output_text \o new, Len(new))
        /\ output_text' = s.text /\ s.status = "RUNNING"
    BY <1>2 DEF Adds
  <2>2. PICK ids : ids = output_ids'
    OBVIOUS
  <2> DEFINE text == output_text \o new
             n == Len(new)
  <2>3. s = MaybeStop(ids, text, n)
    BY <2>1, <2>2
  <2> HIDE DEF text, n
  <2>4. s.text = text
    <3>1. \/ /\ s.status = "RUNNING" /\ s.text = text
             /\ \/ Len(ids) < params.min_tokens
                \/ Found(text, n) = {} /\ Len(ids) # params.max_tokens
          \/ s.status = "LENGTH" /\ s.text = text /\ Found(text, n) = {}
          \/ s.status = "STOPPED" /\ s.text \in {text, CutEnd(text, n)}
          \/ /\ s.status = "STRING" /\ Found(text, n) # {}
             /\ s.text = SubSeq(text, 1, StopIndex(text, n, FirstFound(text, n)))
      BY <1>5, <2>3, Judged
    <3> QED
      BY <2>1, <3>1
  <2> QED
    BY <1>11, <2>1, <2>4 DEF text
<1>13. OutputBytes' = done \o rest
  <2> DEFINE outs == ToTokens(output_ids, skip)
  <2>1. outs \in Seq(Seq(Nat)) /\ OutputBytes = FlattenSeq(outs)
    BY <1>5, TokensOfIds DEF OutputBytes
  <2>2. ToTokens(output_ids \o <<id>>, skip) = outs \o more
    BY <1>5, <1>6, TokensJoin DEF more
  <2>3. OutputBytes' = FlattenSeq(outs \o more)
    BY <1>1, <1>7, <2>2 DEF OutputBytes
  <2> HIDE DEF outs
  <2>4. FlattenSeq(outs \o more) = FlattenSeq(outs) \o FlattenSeq(more)
    BY <1>6, <2>1, FlattenJoin
  <2>5. OutputBytes = done \o Pending
    BY <1>4 DEF DoneInv
  <2> DEFINE pend == Pending
  <2> HIDE DEF pend
  <2>6. (done \o pend) \o bytes = done \o (pend \o bytes)
    <3>1. done \in Seq(Nat) /\ pend \in Seq(Nat) /\ bytes \in Seq(Nat)
      BY <1>6, <1>9 DEF pend
    <3> QED
      BY <3>1, ConcatAssociative, SMTT(30)
  <2> QED
    BY <1>10, <2>1, <2>3, <2>4, <2>5, <2>6 DEF bytes, pend
<1>14. IF new = <<>> THEN UNCHANGED <<prefix_offset, read_offset>>
       ELSE prefix_offset' = read_offset /\ read_offset' = Len(tokens')
  BY <1>2, Zenon DEF AppendToken, Adds
<1>15. CASE new = <<>>
  <2>1. Before' = Before
    BY <1>8, <1>14, <1>15 DEF Before
  <2>2. Pending' = rest
    BY <1>14, <1>15 DEF Pending, rest
  <2>3. output_text' = output_text
    BY <1>5, <1>12, <1>15
  <2>4. DoneInv(done)'
    BY <1>4, <1>13, <2>2, <2>3 DEF DoneInv
  <2>5. ByteLevel(rest) = <<>> \/ EndsBad(ByteLevel(rest))
    BY <1>12, <1>15
  <2> QED
    BY <1>3, <1>4, <2>1, <2>2, <2>4, <2>5
<1>16. CASE new # <<>>
  <2>1. new = ByteLevel(rest) /\ ~EndsBad(ByteLevel(rest))
    BY <1>12, <1>16
  <2>2. ~EndsHalf(rest)
    BY <1>11, <2>1, HalfIsBad
  <2>3. Before' = rest
    BY <1>14, <1>16 DEF Before, rest
  <2>4. Pending' = <<>>
    <3> DEFINE n == Len(tokens')
               S == Seq(Nat)
    <3>1. tokens' \in Seq(S)
      BY <1>1
    <3> HIDE DEF S
    <3>2. n \in Nat
      BY <3>1
    <3>3. Pending' = FlattenSeq(SubSeq(tokens', n + 1, n))
      BY <1>14, <1>16 DEF Pending
    <3> HIDE DEF n
    <3>4. SubSeq(tokens', n + 1, n) = <<>>
      BY <3>2, SubSeqEmpty
    <3>5. FlattenSeq(<<>>) = <<>>
      BY DEF FlattenSeq
    <3> QED
      BY <3>3, <3>4, <3>5
  <2>10. PICK all : all = done \o rest
    OBVIOUS
  <2>5. all \in Seq(Nat) /\ ~EndsHalf(all)
    BY <1>4, <1>11, <2>2, <2>10, HalfAtTheEnd DEF DoneInv
  <2>6. output_text' = ByteLevel(all)
    <3>1. ByteLevel(done \o rest) = ByteLevel(done) \o ByteLevel(rest)
      BY <1>4, <1>11, ByteLevelJoin DEF DoneInv
    <3> QED
      BY <1>4, <1>12, <2>1, <2>10, <3>1 DEF DoneInv
  <2>7. all \o <<>> = all
    BY <2>5
  <2>8. DoneInv(all)'
    BY <1>13, <2>4, <2>5, <2>6, <2>7, <2>10 DEF DoneInv
  <2>9. ByteLevel(<<>>) = <<>>
    BY NothingIsNoText
  <2> QED
    BY <2>2, <2>3, <2>4, <2>5, <2>8, <2>9
<1> QED
  BY <1>15, <1>16

(* The end of the prompt does not end in half a character.                 *)
LEMMA PromptIsWhole ==
    ASSUME TextInit
    PROVE  /\ ~EndsHalf(FlattenSeq(ToTokens(prompt_ids, params.skip_special_tokens)))
           /\ ~EndsHalf(FlattenSeq(tokens))
<1> DEFINE skip == params.skip_special_tokens
           n == InitialOffset + 2
           first == IF Len(prompt_ids) > n THEN Len(prompt_ids) - n + 1 ELSE 1
           front == SubSeq(prompt_ids, 1, first - 1)
           last == SubSeq(prompt_ids, first, Len(prompt_ids))
<1>1. /\ prompt_ids \in TextPrompts /\ prompt_ids \in Seq(TokenIds) /\ skip \in BOOLEAN
      /\ n \in Nat /\ Len(prompt_ids) \in Nat
  BY TextAssumption DEF TextInit
<1>2. ~EndsHalf(FlattenSeq(ToTokens(prompt_ids, skip)))
  BY <1>1, PromptAssumption
<1>3. tokens = ToTokens(last, skip)
  BY Zenon DEF TextInit, PromptTokens, LastOf
<1> HIDE DEF n
<1>4. first \in 1 .. Len(prompt_ids) + 1 /\ first - 1 \in 0 .. Len(prompt_ids) /\ first - 1 + 1 = first
  BY <1>1
<1> HIDE DEF first
<1>5. front \in Seq(TokenIds) /\ last \in Seq(TokenIds)
  BY <1>1, <1>4
<1>6. front \o last = prompt_ids
  <2> DEFINE k == first - 1
             l == Len(prompt_ids)
  <2>1. k \in 1 - 1 .. l /\ l \in k .. l /\ 1 \in 1 .. l + 1
    BY <1>1, <1>4
  <2> HIDE DEF k
  <2>2. SubSeq(prompt_ids, 1, k) \o SubSeq(prompt_ids, k + 1, l) = SubSeq(prompt_ids, 1, l)
    BY <1>1, <2>1, ConcatAdjacentSubSeq
  <2>3. SubSeq(prompt_ids, 1, l) = prompt_ids
    BY <1>1
  <2> QED
    BY <1>4, <2>2, <2>3 DEF k
<1> HIDE DEF front, last, skip
<1> DEFINE x == ToTokens(front, skip)
           y == ToTokens(last, skip)
<1>7. x \in Seq(Seq(Nat)) /\ y \in Seq(Seq(Nat)) /\ ToTokens(prompt_ids, skip) = x \o y
  BY <1>5, <1>6, TokensOfIds, TokensJoin
<1> HIDE DEF x, y
<1> DEFINE u == FlattenSeq(x)
           v == FlattenSeq(y)
<1>8. u \in Seq(Nat) /\ v \in Seq(Nat) /\ FlattenSeq(x \o y) = u \o v
  BY <1>7, Flattened, FlattenJoin
<1> HIDE DEF u, v
<1>9. ~EndsHalf(v)
  BY <1>2, <1>7, <1>8, HalfAtTheEnd
<1> QED
  BY <1>2, <1>3, <1>9 DEF y, v, skip

(* At the start nothing is done and nothing is pending.                    *)
LEMMA DecodeInitial ==
    ASSUME TextInit
    PROVE  DecodeInv
<1>1. /\ tokens \in Seq(Seq(Nat)) /\ prefix_offset \in 0 .. read_offset
      /\ read_offset = Len(tokens) /\ output_text = <<>> /\ output_ids = <<>>
  BY TextInitial DEF TextInit, TextInv, TypesInv
<1> DEFINE n == Len(tokens)
           p == prefix_offset
           A == SubSeq(tokens, 1, p)
           B == SubSeq(tokens, p + 1, n)
<1>2. n \in Nat /\ p \in 0 .. n /\ SubSeq(tokens, 1, n) = tokens
  <2> DEFINE S == Seq(Nat)
  <2>1. tokens \in Seq(S)
    BY <1>1
  <2> HIDE DEF S
  <2>2. n \in Nat /\ SubSeq(tokens, 1, n) = tokens
    BY <2>1
  <2> QED
    BY <1>1, <2>2
<1>3. A \in Seq(Seq(Nat)) /\ B \in Seq(Seq(Nat)) /\ tokens = A \o B
  <2> DEFINE z == 0
  <2>1. z \in 0 .. n /\ p \in z .. n /\ z + 1 = 1
    BY <1>2
  <2> HIDE DEF z, p
  <2>2. /\ SubSeq(tokens, z + 1, p) \in Seq(Seq(Nat)) /\ SubSeq(tokens, p + 1, Len(tokens)) \in Seq(Seq(Nat))
        /\ SubSeq(tokens, z + 1, Len(tokens))
              = SubSeq(tokens, z + 1, p) \o SubSeq(tokens, p + 1, Len(tokens))
    BY <1>1, <2>1, TokensCut
  <2> QED
    BY <1>2, <2>1, <2>2
<1>4. Before = FlattenSeq(B)
  BY <1>1 DEF Before
<1> HIDE DEF A, B
<1>5. ~EndsHalf(Before)
  <2> DEFINE u == FlattenSeq(A)
             v == FlattenSeq(B)
  <2>1. u \in Seq(Nat) /\ v \in Seq(Nat) /\ FlattenSeq(tokens) = u \o v
    BY <1>3, Flattened, FlattenJoin
  <2> HIDE DEF u, v
  <2>2. ~EndsHalf(v)
    BY <2>1, PromptIsWhole, HalfAtTheEnd
  <2> QED
    BY <1>4, <2>2 DEF v
<1>6. FlattenSeq(<<>>) = <<>>
  BY DEF FlattenSeq
<1>7. Pending = <<>>
  <2>1. Pending = FlattenSeq(SubSeq(tokens, n + 1, n))
    BY <1>1 DEF Pending
  <2> HIDE DEF n
  <2>2. SubSeq(tokens, n + 1, n) = <<>>
    BY <1>2, SubSeqEmpty
  <2> QED
    BY <1>6, <2>1, <2>2
<1>8. OutputBytes = <<>>
  <2>1. ToTokens(<<>>, params.skip_special_tokens) = <<>>
    <3> DEFINE ids == <<>>
               each == [k \in DOMAIN ids |-> IF params.skip_special_tokens /\ ids[k] \in SpecialIds
                                             THEN <<>> ELSE <<TokenBytes[ids[k]]>>]
    <3>1. each = <<>>
      OBVIOUS
    <3>2. ToTokens(ids, params.skip_special_tokens) = FlattenSeq(each)
      BY Zenon DEF ToTokens
    <3> QED
      BY <1>6, <3>1, <3>2
  <2> QED
    BY <1>1, <1>6, <2>1 DEF OutputBytes
<1>9. DoneInv(<<>>) /\ <<>> \in Seq(Nat)
  <2>1. ~EndsHalf(<<>>)
    BY DEF EndsHalf
  <2>2. <<>> \o <<>> = <<>>
    OBVIOUS
  <2> QED
    BY <1>1, <1>7, <1>8, <2>1, <2>2, NothingIsNoText DEF DoneInv
<1>10. \E done \in Seq(Nat) : DoneInv(done)
  <2> DEFINE none == <<>>
  <2>1. DoneInv(none) /\ none \in Seq(Nat)
    BY <1>9
  <2> HIDE DEF none
  <2> QED
    BY <2>1
<1> QED
  BY <1>5, <1>7, <1>10, NothingIsNoText DEF DecodeInv

(* Nothing happens to the text.                                            *)
LEMMA DecodeStutter ==
    ASSUME DecodeInv, UNCHANGED textVars
    PROVE  DecodeInv'
  BY DEF DecodeInv, textVars, DoneInv, Before, Pending, OutputBytes

(* The text is that of everything, but for what may become a character.    *)
LEMMA DecodedIs ==
    ASSUME TypesInv, DecodeInv, tokenizer = "ByteLevel",
           ~EndsHalf(FlattenSeq(ToTokens(prompt_ids, params.skip_special_tokens)))
    PROVE  DecodedAsOne
<1> SUFFICES ASSUME text_status = "RUNNING"
             PROVE  IF EndsBad(Generated) THEN IsPrefix(output_text, Generated)
                    ELSE output_text = Generated
  BY DEF DecodedAsOne
<1> DEFINE skip == params.skip_special_tokens
           a == ToTokens(prompt_ids, skip)
           b == ToTokens(output_ids, skip)
           P == FlattenSeq(a)
           x == ByteLevel(P)
           y == ByteLevel(Pending)
           z == output_text \o y
<1>1. /\ prompt_ids \in Seq(TokenIds) /\ output_ids \in Seq(TokenIds)
      /\ output_text \in Seq(Nat) /\ tokens \in Seq(Seq(Nat))
      /\ read_offset \in 0 .. Len(tokens)
  BY TextAssumption DEF TypesInv
<1>2. a \in Seq(Seq(Nat)) /\ b \in Seq(Seq(Nat)) /\ ToTokens(prompt_ids \o output_ids, skip) = a \o b
  BY <1>1, TokensOfIds, TokensJoin
<1>3. PICK done \in Seq(Nat) : DoneInv(done)
  BY DEF DecodeInv
<1>4. OutputBytes = FlattenSeq(b)
  BY DEF OutputBytes
<1> HIDE DEF a, b
<1>5. P \in Seq(Nat) /\ OutputBytes \in Seq(Nat) /\ FlattenSeq(a \o b) = P \o OutputBytes
  BY <1>2, <1>4, Flattened, FlattenJoin
<1>6. Pending \in Seq(Nat)
  <2> DEFINE r == read_offset
  <2>1. r \in 0 .. Len(tokens) /\ r \in r .. Len(tokens)
    BY <1>1
  <2> HIDE DEF r
  <2>2. SubSeq(tokens, r + 1, Len(tokens)) \in Seq(Seq(Nat))
    BY <1>1, <2>1, TokensCut
  <2> DEFINE pending == SubSeq(tokens, r + 1, Len(tokens))
  <2> HIDE DEF pending
  <2>3. FlattenSeq(pending) \in Seq(Nat)
    BY <2>2, Flattened DEF pending
  <2> QED
    BY <2>3 DEF pending, Pending, r
<1>7. /\ WholeText(prompt_ids) = x
      /\ WholeText(prompt_ids \o output_ids) = ByteLevel(P \o OutputBytes)
  BY <1>2, <1>5, Zenon DEF WholeText, convert_tokens_to_string, a
<1>8. ~EndsHalf(P)
  BY DEF a
<1> HIDE DEF P
<1>9. ByteLevel(P \o OutputBytes) = x \o ByteLevel(OutputBytes)
  BY <1>5, <1>8, ByteLevelJoin
<1>10. ByteLevel(OutputBytes) = z
  <2> DEFINE pend == Pending
  <2>1. pend \in Seq(Nat) /\ OutputBytes = done \o pend /\ ~EndsHalf(done) /\ output_text = ByteLevel(done)
    BY <1>3, <1>6 DEF DoneInv
  <2> HIDE DEF pend
  <2>2. ByteLevel(done \o pend) = ByteLevel(done) \o ByteLevel(pend)
    BY <2>1, ByteLevelJoin
  <2> QED
    BY <2>1, <2>2 DEF pend
<1>11. x \in Seq(Nat) /\ y \in Seq(Nat)
  BY <1>5, <1>6, ByteLevelText
<1>12. y = <<>> \/ EndsBad(y)
  BY DEF DecodeInv
<1> HIDE DEF x, y
<1>13. z \in Seq(Nat)
  BY <1>1, <1>11
<1>14. Generated = z
  <2> HIDE DEF z
  <2>1. SubSeq(x \o z, Len(x) + 1, Len(x \o z)) = z
    BY <1>11, <1>13, RestIs
  <2> QED
    BY <1>7, <1>9, <1>10, <2>1, Zenon DEF Generated
<1>15. IsPrefix(output_text, z)
  BY <1>1, <1>11, RestIs
<1>16. y # <<>> => EndsBad(z)
  BY <1>1, <1>11, <1>12, BadAtTheEnd
<1>17. y = <<>> => z = output_text
  BY <1>1
<1> QED
  BY <1>14, <1>15, <1>16, <1>17, Zenon

\* With a byte-level tokenizer, decoding a token at a time gives the text that
\* decoding all at once gives, whatever bytes the tokens are.
THEOREM TextIsThatOfTokens == TextSpec => [](tokenizer = "ByteLevel" => DecodedAsOne)
<1> DEFINE PromptInv == ~EndsHalf(FlattenSeq(ToTokens(prompt_ids, params.skip_special_tokens)))
<1>1. TextInit => DecodeInv /\ PromptInv
  BY DecodeInitial, PromptIsWhole
<1>2. TextInv /\ DecodeInv /\ PromptInv /\ [TextNext]_textVars => DecodeInv' /\ PromptInv'
  <2> SUFFICES ASSUME TextInv, DecodeInv, PromptInv, [TextNext]_textVars
               PROVE  DecodeInv' /\ PromptInv'
    OBVIOUS
  <2>1. CASE UNCHANGED textVars
    <3>1. params' = params /\ prompt_ids' = prompt_ids
      BY <2>1 DEF textVars
    <3> QED
      BY <2>1, <3>1, DecodeStutter
  <2>2. CASE TextNext
    <3>1. PICK id \in TokenIds : AppendToken(id)
      BY <2>2 DEF TextNext
    <3>2. params' = params /\ prompt_ids' = prompt_ids
      BY <3>1 DEF AppendToken
    <3>3. DecodeInv'
      BY <3>1, DecodeStep DEF TextInv
    <3> QED
      BY <3>2, <3>3
  <2> QED
    BY <2>1, <2>2
<1>3. TextInv /\ DecodeInv /\ PromptInv => (tokenizer = "ByteLevel" => DecodedAsOne)
  BY DecodedIs DEF TextInv
<1> QED
  BY <1>1, <1>2, <1>3, TextInvariance, PTL DEF TextSpec

\* With a byte-level tokenizer all that TextIsRight says of the text and of the
\* stream holds, for any prompts, tokens, stop strings and parameters.
THEOREM TextStaysRight == TextSpec => [](tokenizer = "ByteLevel" => TextIsRight)
<1>1. TextTypeOK /\ SentIsFinal /\ NoStopIsMissed /\ (tokenizer = "ByteLevel" => DecodedAsOne)
        => (tokenizer = "ByteLevel" => TextIsRight)
  BY DEF TextIsRight
<1> QED
  BY <1>1, StreamedTextIsFinal, TextIsThatOfTokens, PTL
=============================================================================
