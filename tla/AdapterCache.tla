---------------------------- MODULE AdapterCache ----------------------------
(***************************************************************************)
(* The adapters of the vLLM worker: TokenformerModelManager keeps the last *)
(* tokenformer_cache_capacity adapters that were used, one of them written *)
(* into the weights of the model, and manage_tokenformer_adapters brings   *)
(* the one that a batch asks for there before the forward pass.            *)
(*                                                                         *)
(* A worker runs one batch after the other.  A batch is what the scheduler *)
(* made of the requests: the adapters they name, whether some of them name *)
(* none, and whether the last one is an embedding.  With adapters in the   *)
(* batch it is sorted by adapter, and an embedding never names one: its    *)
(* last request is then a completion.                                      *)
(***************************************************************************)
EXTENDS Integers, Sequences, FiniteSets, SequencesExt

CONSTANTS
    Adapters,       \* names under which adapters are registered with vLLM
    Checkpoints,    \* the checkpoint files that a job may have
    PKeys,          \* tensors whose name contains "tokenformer_p"
    HeadKeys,       \* tensors whose name contains "lm_head"
    OtherKeys,      \* the other tokenformer tensors
    KeysOf,         \* the tensors in an adapter's checkpoints
    Capacity,       \* tokenformer_cache_capacity
    MaxLoras,       \* adapters in one batch
    MaxLoads,       \* bound: ids given out by get_lora_id
    Base            \* a tensor as in the model without adapters

\* Adapters are trained from the one base model of the deployment: all have
\* the tokenformer tensors, while lm_head may be frozen.
ASSUME AdapterCacheAssumption ==
    /\ Capacity \in Nat \ {0}
    /\ MaxLoras \in Nat
    /\ MaxLoads \in Nat
    /\ Base \notin Adapters \X Checkpoints
    /\ PKeys \cap HeadKeys = {} /\ OtherKeys \cap (PKeys \cup HeadKeys) = {}
    /\ KeysOf \in [Adapters -> SUBSET (PKeys \cup HeadKeys \cup OtherKeys)]
    /\ \A a \in Adapters : PKeys \cup OtherKeys \subseteq KeysOf[a]

Keys == PKeys \cup HeadKeys \cup OtherKeys

Tensors == Adapters \X Checkpoints

Idle == [stage |-> "idle", loras |-> {}, todo |-> {}, base |-> FALSE,
         embedding |-> FALSE]

VARIABLES
    registered,     \* _registered_adapters: id -> the adapter, its checkpoint
    lru,            \* _lru_adaptor_ids
    active,         \* _active_adapter; 0: None
    weights,        \* the model's tensors that an adapter can replace
    mapping,        \* adaptor_mapping: the id of an adapter; 0: not a key
    lora_id,        \* the last id of get_lora_id
    disk,           \* the .pt files in each adapter's job directory
    batch,          \* the batch that is run
    error           \* how the last engine died

manager == <<registered, lru, active, weights>>
adapterVars == <<registered, lru, active, weights, mapping, lora_id, disk, batch, error>>

(* Types of the manager, of the files and of the batch. *)
AdapterTypeOK ==
    /\ lora_id \in 0 .. MaxLoads
    /\ DOMAIN registered \subseteq 1 .. lora_id
    /\ registered \in [DOMAIN registered -> Tensors]
    /\ lru \in Seq(1 .. lora_id)
    /\ active \in 0 .. lora_id
    /\ weights \in [Keys -> Tensors \cup {Base}]
    /\ mapping \in [Adapters -> 0 .. lora_id]
    /\ disk \in [Adapters -> SUBSET Checkpoints]
    /\ batch \in [stage: {"idle", "manage", "run"}, loras: SUBSET Adapters,
                  todo: SUBSET Adapters, base: BOOLEAN, embedding: BOOLEAN]
    /\ error \in {"none", "load", "internal"}

AdapterInit ==
    /\ registered = <<>>
    /\ lru = <<>>
    /\ active = 0
    /\ weights = [k \in Keys |-> Base]
    /\ mapping = [a \in Adapters |-> 0]
    /\ lora_id = 0
    /\ batch = Idle
    /\ error = "none"
    /\ disk = [a \in Adapters |-> {}]

-----------------------------------------------------------------------------
(* The trainer writes a checkpoint, and later deletes it. *)
WriteCheckpoint(a) ==
    /\ \E c \in Checkpoints \ disk[a] :
        disk' = [disk EXCEPT ![a] = @ \cup {c}]
    /\ UNCHANGED <<registered, lru, active, weights, mapping, lora_id, batch, error>>

DeleteCheckpoint(a) ==
    /\ \E c \in disk[a] : disk' = [disk EXCEPT ![a] = @ \ {c}]
    /\ UNCHANGED <<registered, lru, active, weights, mapping, lora_id, batch, error>>

(* SchedulerOutputs sorts a batch with adapters by their id, so that the   *)
(* requests without one, the embeddings among them, come first.            *)
LastOfBatch(loras, embedding) == embedding => loras = {}

(* execute_model is called with a batch. *)
StartBatch ==
    /\ batch.stage = "idle"
    /\ error = "none"
    /\ \E loras \in SUBSET Adapters, base, embedding \in BOOLEAN :
        /\ Cardinality(loras) <= MaxLoras
        /\ loras = {} => base
        /\ LastOfBatch(loras, embedding)
        /\ batch' = [stage |-> "manage", loras |-> loras, todo |-> loras,
                     base |-> base, embedding |-> embedding]
    /\ UNCHANGED <<registered, lru, active, weights, mapping, lora_id, disk, error>>

-----------------------------------------------------------------------------
(* A batch whose last request is an embedding leaves the adapters alone. *)
Manages == ~batch.embedding

(* The tensors after _deactivate_adapter(id).  The tokenformer tensors     *)
(* without "_p" stay: the product with a zero tokenformer_p is zero.       *)
Deactivated(w, id) ==
    [k \in Keys |-> IF k \in (PKeys \cup HeadKeys) \cap KeysOf[registered[id][1]]
                    THEN Base ELSE w[k]]

(* The tensors after activate_adapter: lm_head as it was, then the         *)
(* adapter's tensors over it.                                              *)
Activated(w, tensor) ==
    [k \in Keys |-> IF k \in KeysOf[tensor[1]] THEN tensor
                    ELSE IF k \in HeadKeys THEN Base ELSE w[k]]

(* update_lru_position *)
MovedToEnd(s, id) == Append(RemoveFirst(s, id), id)

(* list_adapters of the worker: an id is known under the key that maps to  *)
(* it.                                                                     *)
Listed == {a \in Adapters : mapping[a] \in DOMAIN registered}

(* add_adapter removes an adapter first when the cache is full. *)
Evicts == Cardinality(DOMAIN registered) >= Capacity

Without(f, id) == [i \in DOMAIN f \ {id} |-> f[i]]

Dies(how) ==
    /\ error' = how
    /\ UNCHANGED <<registered, lru, active, weights, mapping, lora_id, disk, batch>>

Done(a) == [batch EXCEPT !.todo = @ \ {a}]

MutantAddWithoutActivate(a, c) ==
    LET id == lora_id + 1 IN
    /\ lora_id' = id
    /\ mapping' = [mapping EXCEPT ![a] = id]
    /\ registered' = [i \in (IF Evicts THEN DOMAIN registered \ {Head(lru)}
                             ELSE DOMAIN registered) \cup {id} |->
                        IF i = id THEN <<a, c>> ELSE registered[i]]
    /\ lru' = Append(IF Evicts THEN Tail(lru) ELSE lru, id)
    /\ UNCHANGED <<active, weights>>

(* add_adapter_worker for an adapter that is not in the cache: load it,    *)
(* drop the least recently used one if the cache is full, register,        *)
(* activate.  An active adapter that is dropped is taken out of the        *)
(* weights; _active_adapter then names it until the new one is active.     *)
LoadAndAdd(a, c) ==
    LET id == lora_id + 1
        oldest == Head(lru)
        kept == IF Evicts THEN Without(registered, oldest) ELSE registered
        w == IF Evicts /\ oldest = active THEN Deactivated(weights, oldest)
             ELSE weights
    IN  /\ lora_id' = id
        /\ mapping' = [mapping EXCEPT ![a] = id]
        /\ registered' = [i \in DOMAIN kept \cup {id} |->
                            IF i = id THEN <<a, c>> ELSE kept[i]]
        /\ lru' = Append(IF Evicts THEN Tail(lru) ELSE lru, id)
        /\ weights' = Activated(w, <<a, c>>)
        /\ active' = id

(* One round of the loop over lora_requests: not cached.  The checkpoint   *)
(* is the first file of the directory, in no particular order; pop(0) of   *)
(* an empty list would be an IndexError.                                   *)
AddAdapter(a) ==
    /\ error = "none"
    /\ a \in batch.todo /\ Manages
    /\ a \notin Listed
    /\ lora_id < MaxLoads
    /\ disk[a] # {}
    /\ IF Evicts /\ lru = <<>> THEN Dies("internal")
       ELSE /\ \E c \in disk[a] : LoadAndAdd(a, c)
            /\ batch' = Done(a)
            /\ UNCHANGED <<disk, error>>

(* No .pt file, or one that torch.load cannot read because the trainer is  *)
(* still writing it: the engine dies of the RuntimeError.                  *)
LoadFails(a) ==
    /\ error = "none"
    /\ a \in batch.todo /\ Manages
    /\ a \notin Listed
    /\ Dies("load")

(* activate_adapter of a registered adapter. *)
Activate(a) ==
    LET id == mapping[a] IN
    IF id = active THEN UNCHANGED <<lru, active, weights>>
    ELSE /\ lru' = MovedToEnd(lru, id)
         /\ weights' = Activated(weights, registered[id])
         /\ active' = id

(* One round of the loop: the adapter is in the cache. *)
ActivateCached(a) ==
    /\ error = "none"
    /\ a \in batch.todo /\ Manages
    /\ a \in Listed
    /\ Activate(a)
    /\ batch' = Done(a)
    /\ UNCHANGED <<registered, mapping, lora_id, disk, error>>

(* deactivate_all_adapters, when the active adapter is still registered. *)
DeactivateAll ==
    /\ weights' = IF active = 0 THEN weights ELSE Deactivated(weights, active)
    /\ active' = 0
    /\ UNCHANGED <<registered, lru, mapping, lora_id, disk, error>>

Ready == batch' = [batch EXCEPT !.stage = "run"]

(* manage_tokenformer_adapters without adapters in the batch;              *)
(* _deactivate_adapter looks the active adapter up, a KeyError if it is    *)
(* gone.                                                                   *)
ManageBase ==
    /\ error = "none"
    /\ batch.stage = "manage" /\ batch.loras = {}
    /\ Manages
    /\ IF active # 0 /\ active \notin DOMAIN registered THEN Dies("internal")
       ELSE DeactivateAll /\ Ready

(* The loop is over, or was not begun. *)
ManageEnds ==
    /\ error = "none"
    /\ batch.stage = "manage"
    /\ Manages => batch.loras # {} /\ batch.todo = {}
    /\ Ready
    /\ UNCHANGED <<registered, lru, active, weights, mapping, lora_id, disk, error>>

(* The forward pass. *)
Execute ==
    /\ batch.stage = "run"
    /\ batch' = Idle
    /\ UNCHANGED <<registered, lru, active, weights, mapping, lora_id, disk, error>>

(* The worker's death takes vLLM with it; it starts from nothing. *)
Restart ==
    /\ error # "none"
    /\ registered' = <<>>
    /\ lru' = <<>>
    /\ active' = 0
    /\ weights' = [k \in Keys |-> Base]
    /\ mapping' = [a \in Adapters |-> 0]
    /\ lora_id' = 0
    /\ batch' = Idle
    /\ error' = "none"
    /\ UNCHANGED disk

AdapterNext ==
    \/ \E a \in Adapters :
        \/ WriteCheckpoint(a) \/ DeleteCheckpoint(a)
        \/ AddAdapter(a) \/ LoadFails(a) \/ ActivateCached(a)
    \/ StartBatch \/ ManageBase \/ ManageEnds \/ Execute
    \/ Restart

AdapterSpec == AdapterInit /\ [][AdapterNext]_adapterVars

-----------------------------------------------------------------------------
(* The model computes with the tensors of checkpoint c of adapter a, every *)
(* one of them, and with no other adapter's.                               *)
Runs(a, c) ==
    /\ \A k \in KeysOf[a] : weights[k] = <<a, c>>
    /\ \A k \in HeadKeys \ KeysOf[a] : weights[k] = Base

(* The model computes as without adapters. *)
RunsBase == \A k \in PKeys \cup HeadKeys : weights[k] = Base

(* When the forward pass begins, a batch with one adapter runs with that   *)
(* adapter, all of it from one checkpoint and nothing left of the one      *)
(* before it, and a batch without adapters whose last request is a         *)
(* completion runs the base model: whatever was cached, evicted, loaded    *)
(* again or deactivated in between.                                        *)
BatchRunsItsModel ==
    batch.stage = "run" =>
        /\ \A a \in Adapters : batch.loras = {a} => \E c \in Checkpoints : Runs(a, c)
        /\ batch.loras = {} /\ ~batch.embedding => RunsBase

(* The cache's three views agree between any two operations: the LRU list  *)
(* holds every registered id once, there are no more than the capacity,    *)
(* and the active adapter is registered and the last of the list.          *)
CacheAgrees ==
    /\ {lru[i] : i \in 1 .. Len(lru)} = DOMAIN registered
    /\ \A i, j \in 1 .. Len(lru) : lru[i] = lru[j] => i = j
    /\ Len(lru) <= Capacity
    /\ active # 0 => Len(lru) > 0 /\ lru[Len(lru)] = active

(* The worker is never killed by its own bookkeeping: no KeyError for an   *)
(* active adapter that was evicted, no pop from an empty list.             *)
NoInternalError == error # "internal"

\* A batch runs with the weights of the adapter it names, or with the base
\* model's, while the cache at its capacity evicts, its LRU list and the
\* registered adapters agree, and no adapter is missing where one is expected.
AdaptersAreConsistent ==
    /\ AdapterTypeOK
    /\ BatchRunsItsModel
    /\ CacheAgrees
    /\ NoInternalError
=============================================================================
