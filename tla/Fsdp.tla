-------------------------------- MODULE Fsdp --------------------------------
(***************************************************************************)
(* SimpleFSDP: a parameter is flattened, padded to a multiple of the world *)
(* size and cut into one shard per rank.  A forward pass gathers the       *)
(* shards and trims the padding, a backward pass sums the gradients of the *)
(* ranks and gives each rank its part, a checkpoint gathers again.         *)
(*                                                                         *)
(* One parameter of numel elements on world ranks, both chosen at the      *)
(* start.  An element is a token that says which one it is and how many    *)
(* correct updates it has had; a gradient is the set of the ranks'         *)
(* contributions that were summed.                                         *)
(***************************************************************************)
EXTENDS Integers, Sequences, SequencesExt

CONSTANTS
    MaxWorld,       \* bound: ranks
    MaxNumel,       \* bound: elements of the parameter
    MaxUpdates,     \* bound: optimizer steps
    Wrong           \* an element that was updated with something else

ASSUME FsdpAssumption ==
    /\ MaxWorld \in Nat \ {0} /\ MaxNumel \in Nat \ {0} /\ MaxUpdates \in Nat
    /\ Wrong \notin Nat \X Nat

VARIABLES
    world,      \* get_size()
    numel,      \* the elements of the parameter
    shard,      \* shard_<name> of each rank
    updates,    \* optimizer steps taken
    phase,      \* where the ranks are, all in the same place
    grad,       \* what the backward pass gave each rank
    ckpt,       \* the checkpoint file: key, tensor and step
    error       \* autograd refused a gradient

fsdpVars == <<world, numel, shard, updates, phase, grad, ckpt, error>>

RanksOf == 0 .. world - 1

Zero == <<0, 0>>

Zeros(x, n) == [i \in 1 .. n |-> x]

(* s[:e] of Python, where a negative e counts from the end. *)
Slice(s, e) ==
    LET n == Len(s)
        stop == IF e < 0 THEN IF n + e < 0 THEN 0 ELSE n + e
                ELSE IF e > n THEN n ELSE e
    IN  SubSeq(s, 1, stop)

-----------------------------------------------------------------------------
PaddedNumel(n, w) == ((n + w - 1) \div w) * w

(* The metadata of a sharded tensor, the same on every rank. *)
Metadata(n, w) ==
    [original_numel |-> n, shard_size |-> PaddedNumel(n, w) \div w,
     padding |-> PaddedNumel(n, w) - n]

shard_tensor(tensor, w, rank) ==
    LET meta == Metadata(Len(tensor), w)
        padded == tensor \o Zeros(Zero, meta.padding)
    IN  SubSeq(padded, rank * meta.shard_size + 1, (rank + 1) * meta.shard_size)

(* all_tensors[:-fully_padded], then the rest of the padding off the last  *)
(* one that is left; or only the last one is cut.                          *)
trim_padding(all, w, meta) ==
    IF meta.padding = 0 THEN all
    ELSE IF meta.padding > meta.shard_size
    THEN LET kept == Slice(all, -(meta.padding \div meta.shard_size))
             rest == meta.padding % meta.shard_size
         IN  IF rest > 0 /\ Len(kept) > 0
             THEN [kept EXCEPT ![Len(kept)] = Slice(@, -rest)]
             ELSE kept
    ELSE [all EXCEPT ![Len(all)] =
            Slice(@, meta.original_numel - (w - 1) * meta.shard_size)]

(* What collectives_all_gather returns, the same on every rank. *)
collectives_all_gather(shards, w, meta) ==
    FlattenSeq(trim_padding([i \in 1 .. w |-> shards[i - 1]], w, meta))

(* The contributions to element i of the padded gradient: the padding is   *)
(* zero on every rank.                                                     *)
Reduced(n, w, i) == IF i <= n THEN {<<r, i>> : r \in 0 .. w - 1} ELSE {}

MutantValidElements(meta) == meta.shard_size - meta.padding

(* How much of its part the last rank keeps. *)
ValidElements(meta) == meta.original_numel - meta.padding

collectives_reduce_scatter(n, w, rank, meta) ==
    LET local == [k \in 1 .. meta.shard_size |->
                    Reduced(n, w, rank * meta.shard_size + k)]
    IN  IF rank = w - 1 THEN Slice(local, ValidElements(meta)) ELSE local

-----------------------------------------------------------------------------
Meta == Metadata(numel, world)

(* The parameter after t updates, as one process would have it. *)
Tensor(t) == [i \in 1 .. numel |-> <<i, t>>]

Gathered == collectives_all_gather(shard, world, Meta)

(* The tensors of a rank's own keys: SimpleFSDP replaces the parameters by *)
(* shard_<name> of a wrapped module, one process keeps their names.        *)
ModelKey == IF world > 1 THEN "model.module.shard_weight" ELSE "weight"

(* unwrap_model, and filter_checkpoint, save under the plain name. *)
SavedKey == "weight"

Load(t) == [r \in RanksOf |-> shard_tensor(Tensor(t), world, r)]

(* Types: what a rank holds are elements, padding, or a wrong element. *)
FsdpTypeOK ==
    /\ world \in 1 .. MaxWorld
    /\ numel \in 1 .. MaxNumel
    /\ updates \in 0 .. MaxUpdates
    /\ phase \in {"ready", "backward", "resumed", "restarted"}
    /\ error \in BOOLEAN
    /\ DOMAIN shard = RanksOf /\ DOMAIN grad = RanksOf
    /\ \A r \in RanksOf : Len(shard[r]) = Meta.shard_size
    /\ ckpt.key \in {"none", SavedKey}

FsdpInit ==
    /\ world \in 1 .. MaxWorld
    /\ numel \in 1 .. MaxNumel
    /\ shard = Load(0)
    /\ updates = 0
    /\ phase = "ready"
    /\ grad = [r \in RanksOf |-> <<>>]
    /\ ckpt = [key |-> "none", tensor |-> <<>>, updates |-> 0]
    /\ error = FALSE

(* loss.backward(): every rank runs the forward pass on its own batch with *)
(* the gathered tensor, and the gradient is reduced and scattered.         *)
Backward ==
    /\ phase \in {"ready", "resumed"} /\ ~error
    /\ updates < MaxUpdates
    /\ grad' = [r \in RanksOf |-> collectives_reduce_scatter(numel, world, r, Meta)]
    /\ error' = \E r \in RanksOf : Len(grad'[r]) # Len(shard[r])
    /\ phase' = "backward"
    /\ UNCHANGED <<world, numel, shard, updates, ckpt>>

(* An element after the optimizer has used gradient g. *)
Updated(x, g) ==
    IF g = {} THEN x
    ELSE IF x # Wrong /\ g = {<<r, x[1]>> : r \in RanksOf} THEN <<x[1], x[2] + 1>>
    ELSE Wrong

(* optimizer.step() of every rank, on its shard. *)
OptimizerStep ==
    /\ phase = "backward" /\ ~error
    /\ shard' = [r \in RanksOf |-> [k \in DOMAIN shard[r] |->
                                        Updated(shard[r][k], grad[r][k])]]
    /\ updates' = updates + 1
    /\ phase' = "ready"
    /\ UNCHANGED <<world, numel, grad, ckpt, error>>

Checkpoint ==
    /\ phase = "ready"
    /\ ckpt' = [key |-> SavedKey, tensor |-> Gathered, updates |-> updates]
    /\ UNCHANGED <<world, numel, shard, updates, phase, grad, error>>

(* The job is killed and submitted again: the pretrained weights. *)
RestartJob ==
    /\ phase # "restarted"
    /\ shard' = Load(0)
    /\ updates' = 0
    /\ phase' = IF ckpt.key = "none" THEN "ready" ELSE "restarted"
    /\ error' = FALSE
    /\ UNCHANGED <<world, numel, grad, ckpt>>

(* load_state_dict(checkpoint["model_state_dict"], strict=False): keys     *)
(* that the model does not have are passed over.                           *)
ResumeWeights ==
    /\ phase = "restarted"
    /\ shard' = IF ckpt.key = ModelKey
                THEN [r \in RanksOf |-> shard_tensor(ckpt.tensor, world, r)]
                ELSE shard
    /\ updates' = ckpt.updates
    /\ phase' = "resumed"
    /\ UNCHANGED <<world, numel, grad, ckpt, error>>

FsdpNext == Backward \/ OptimizerStep \/ Checkpoint \/ RestartJob \/ ResumeWeights

FsdpSpec == FsdpInit /\ [][FsdpNext]_fsdpVars

-----------------------------------------------------------------------------
(* Sharding is invisible to the model: at any time, after any updates, the *)
(* tensor that a forward pass or a checkpoint gathers has the elements of  *)
(* the parameter, each in its place, all with the same number of updates,  *)
(* no padding among them.                                                  *)
GatherRestores ==
    \E t \in 0 .. updates : Gathered = Tensor(t)

(* Every element gets the sum of all ranks' gradients for that element,    *)
(* and the padding never becomes anything but zero.                        *)
PaddingStaysZero ==
    \A r \in RanksOf : \A k \in DOMAIN shard[r] :
        /\ shard[r][k] # Wrong
        /\ r * Meta.shard_size + k > numel => shard[r][k] = Zero

(* A gradient has the shape of the shard it is for: on the last rank only  *)
(* because the number it is cut to is never below the shard size, which    *)
(* needs more than half as many elements as ranks.                         *)
GradientFitsShard == 2 * numel > world => ~error

(* A job on one rank resumes with the weights it saved.  With more ranks   *)
(* the keys of the checkpoint are not those of the sharded model, and it   *)
(* goes on from the pretrained weights.                                    *)
ResumeRestoresWeights ==
    phase = "resumed" =>
        Gathered = IF world = 1 THEN ckpt.tensor ELSE Tensor(0)

\* The shards of every rank are together the parameter, whatever its size and
\* the number of ranks, with padding that stays zero, gradients that fit, and
\* after a resume the weights that the code of this world size restores.
ShardsAreRight ==
    /\ FsdpTypeOK
    /\ GatherRestores
    /\ PaddingStaysZero
    /\ GradientFitsShard
    /\ ResumeRestoresWeights
=============================================================================
