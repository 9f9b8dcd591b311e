------------------------- MODULE AdapterCacheProofs -------------------------
(***************************************************************************)
(* Proofs about the adapters of the vLLM worker (AdapterCache): a batch    *)
(* runs with the weights it asks for, and the manager's bookkeeping never  *)
(* fails, for any adapters, checkpoints, tensors and capacity.             *)
(***************************************************************************)
EXTENDS AdapterCache, FiniteSetTheorems, SequenceTheorems, TLAPS

-----------------------------------------------------------------------------
(* The inductive invariant *)

(* The weights are those of the active adapter, or the base model's. *)
WeightsInv ==
    /\ active # 0 => Runs(registered[active][1], registered[active][2])
    /\ active = 0 => RunsBase

(* An id under which an adapter is listed is that of the adapter itself,   *)
(* though ids of adapters that were evicted stay in the mapping.           *)
MappingInv ==
    \A a \in Adapters :
        mapping[a] \in DOMAIN registered => registered[mapping[a]][1] = a

(* How far the batch is: an embedding is last only in a batch without      *)
(* adapters; the loop is over when the batch runs; a batch with one        *)
(* adapter whose loop is over has that one active, and one without has     *)
(* none active.                                                            *)
BatchInv ==
    /\ batch.embedding => batch.loras = {}
    /\ batch.todo \subseteq batch.loras
    /\ batch.stage # "manage" => batch.todo = {}
    /\ \A a \in Adapters :
          batch.loras = {a} /\ batch.todo = {} =>
              active # 0 /\ registered[active][1] = a
    /\ batch.stage = "run" /\ batch.loras = {} /\ ~batch.embedding => active = 0

AdapterInv ==
    AdapterTypeOK /\ CacheAgrees /\ WeightsInv /\ MappingInv /\ BatchInv /\ NoInternalError

-----------------------------------------------------------------------------
(* The operators of the model *)

(* A list without repetitions has as many elements as its length.          *)
LEMMA ListCount ==
    ASSUME NEW S, NEW s \in Seq(S),
           \A i, j \in 1 .. Len(s) : s[i] = s[j] => i = j
    PROVE  Cardinality({s[i] : i \in 1 .. Len(s)}) = Len(s)
<1> DEFINE T == {s[i] : i \in 1 .. Len(s)}
           f == [i \in 1 .. Len(s) |-> s[i]]
<1>1. Len(s) \in Nat
  OBVIOUS
<1>2. IsFiniteSet(1 .. Len(s)) /\ Cardinality(1 .. Len(s)) = Len(s)
  <2>1. 1 \in Int /\ Len(s) \in Int
    BY <1>1
  <2>2. /\ IsFiniteSet(1 .. Len(s))
        /\ Cardinality(1 .. Len(s)) = IF 1 > Len(s) THEN 0 ELSE Len(s) - 1 + 1
    BY <2>1, FS_Interval, Zenon
  <2>3. (IF 1 > Len(s) THEN 0 ELSE Len(s) - 1 + 1) = Len(s)
    BY <1>1
  <2> QED
    BY <2>2, <2>3
<1>3. f \in Bijection(1 .. Len(s), T)
  BY DEF Bijection, Injection, Surjection, IsInjective
<1>4. ExistsBijection(1 .. Len(s), T)
  BY <1>3 DEF ExistsBijection
<1> QED
  BY <1>2, <1>4, FS_Bijection

(* list.remove of an id that is in the list once, and append: the same     *)
(* ids, each once, this one at the end.                                    *)
LEMMA MovedIsLast ==
    ASSUME NEW S, NEW s \in Seq(S), NEW p \in 1 .. Len(s),
           \A i, j \in 1 .. Len(s) : s[i] = s[j] => i = j
    PROVE  /\ MovedToEnd(s, s[p]) \in Seq(S)
           /\ Len(MovedToEnd(s, s[p])) = Len(s)
           /\ MovedToEnd(s, s[p])[Len(s)] = s[p]
           /\ \A i \in 1 .. Len(s) - 1 :
                 MovedToEnd(s, s[p])[i] = IF i < p THEN s[i] ELSE s[i + 1]
<1>1. Len(s) \in Nat /\ p \in Nat /\ s[p] \in S
  OBVIOUS
<1>2. {i \in 1 .. Len(s) : s[i] = s[p]} = {p}
  OBVIOUS
<1>3. Min({p}) = p
  BY <1>1 DEF Min
<1>4. SelectInSeq(s, LAMBDA v : v = s[p]) = p
  BY <1>2, <1>3 DEF SelectInSeq
<1>5. RemoveFirst(s, s[p]) = SubSeq(s, 1, p - 1) \o SubSeq(s, p + 1, Len(s))
  BY <1>4 DEF RemoveFirst, RemoveAt
<1> DEFINE u == SubSeq(s, 1, p - 1)
           v == SubSeq(s, p + 1, Len(s))
<1>6. /\ u \in Seq(S) /\ Len(u) = p - 1
      /\ \A i \in 1 .. p - 1 : u[i] = s[i]
  BY <1>1
<1>7. /\ v \in Seq(S) /\ Len(v) = Len(s) - p
      /\ \A i \in 1 .. Len(s) - p : v[i] = s[i + p]
  BY <1>1
<1> HIDE DEF u, v
<1> DEFINE w == u \o v
<1>8. /\ w \in Seq(S) /\ Len(w) = Len(s) - 1
      /\ \A i \in 1 .. Len(s) - 1 : w[i] = IF i <= p - 1 THEN u[i] ELSE v[i - (p - 1)]
  <2>1. /\ w \in Seq(S) /\ Len(w) = Len(u) + Len(v)
        /\ \A i \in 1 .. Len(u) + Len(v) :
              w[i] = IF i <= Len(u) THEN u[i] ELSE v[i - Len(u)]
    <3>1. u \in Seq(S) /\ v \in Seq(S)
      BY <1>6, <1>7
    <3> QED
      BY ONLY <3>1, ConcatProperties
  <2>2. Len(u) + Len(v) = Len(s) - 1
    BY <1>1, <1>6, <1>7
  <2> HIDE DEF w
  <2> QED
    BY <1>6, <2>1, <2>2
<1> HIDE DEF w
<1>9. \A i \in 1 .. Len(s) - 1 : w[i] = IF i < p THEN s[i] ELSE s[i + 1]
  BY <1>1, <1>6, <1>7, <1>8
<1>10. MovedToEnd(s, s[p]) = Append(w, s[p])
  BY <1>5 DEF MovedToEnd, w, u, v
<1>11. /\ Append(w, s[p]) \in Seq(S) /\ Len(Append(w, s[p])) = Len(s)
       /\ Append(w, s[p])[Len(s)] = s[p]
       /\ \A i \in 1 .. Len(s) - 1 : Append(w, s[p])[i] = w[i]
  BY <1>1, <1>8
<1> QED
  BY <1>9, <1>10, <1>11

(* The weights after an activation are the adapter's, whatever was there.  *)
LEMMA ActivatedRuns ==
    ASSUME NEW w, NEW a \in Adapters, NEW c \in Checkpoints,
           weights' = Activated(w, <<a, c>>),
           active' # 0, registered'[active'] = <<a, c>>
    PROVE  WeightsInv'
<1>1. KeysOf[a] \subseteq Keys /\ HeadKeys \subseteq Keys
  BY AdapterCacheAssumption DEF Keys
<1>2. /\ \A k \in KeysOf[a] : weights'[k] = <<a, c>>
      /\ \A k \in HeadKeys \ KeysOf[a] : weights'[k] = Base
  BY <1>1 DEF Activated
<1> QED
  BY <1>2 DEF WeightsInv, Runs

(* An activation leaves tensors of the right type.                         *)
LEMMA ActivatedType ==
    ASSUME NEW w \in [Keys -> Tensors \cup {Base}], NEW t \in Tensors
    PROVE  Activated(w, t) \in [Keys -> Tensors \cup {Base}]
BY DEF Activated

-----------------------------------------------------------------------------
(* The steps *)

(* What the invariant says of the cache's three views, for the provers.    *)
LEMMA CacheFacts ==
    ASSUME AdapterInv
    PROVE  /\ lora_id \in 0 .. MaxLoads /\ MaxLoads \in Nat /\ Capacity \in Nat \ {0}
           /\ lora_id \in Nat
           /\ lru \in Seq(1 .. lora_id) /\ Len(lru) \in Nat /\ Len(lru) <= Capacity
           /\ \A i \in 1 .. Len(lru) : lru[i] \in DOMAIN registered
           /\ \A i, j \in 1 .. Len(lru) : lru[i] = lru[j] => i = j
           /\ \A x \in DOMAIN registered : \E i \in 1 .. Len(lru) : lru[i] = x
           /\ DOMAIN registered \subseteq 1 .. lora_id
           /\ Cardinality(DOMAIN registered) = Len(lru)
           /\ active # 0 => active \in DOMAIN registered
           /\ \A x \in DOMAIN registered :
                 /\ registered[x] \in Tensors
                 /\ registered[x][1] \in Adapters /\ registered[x][2] \in Checkpoints
                 /\ registered[x] = <<registered[x][1], registered[x][2]>>
<1>1. AdapterTypeOK /\ CacheAgrees
  BY DEF AdapterInv
<1>2. /\ lora_id \in 0 .. MaxLoads /\ MaxLoads \in Nat /\ Capacity \in Nat \ {0}
      /\ lru \in Seq(1 .. lora_id) /\ DOMAIN registered \subseteq 1 .. lora_id
      /\ registered \in [DOMAIN registered -> Tensors]
  BY <1>1, AdapterCacheAssumption DEF AdapterTypeOK
<1>3. {lru[i] : i \in 1 .. Len(lru)} = DOMAIN registered
      /\ (\A i, j \in 1 .. Len(lru) : lru[i] = lru[j] => i = j)
      /\ Len(lru) <= Capacity
      /\ (active # 0 => Len(lru) > 0 /\ lru[Len(lru)] = active)
  BY <1>1 DEF CacheAgrees
<1>4. Len(lru) \in Nat
  BY <1>2
<1>5. Cardinality(DOMAIN registered) = Len(lru)
  <2>1. Cardinality({lru[i] : i \in 1 .. Len(lru)}) = Len(lru)
    BY <1>2, <1>3, ListCount
  <2> QED
    BY <1>3, <2>1
<1>6. active # 0 => active \in DOMAIN registered
  BY <1>3, <1>4
<1>7. ASSUME NEW x \in DOMAIN registered
      PROVE  /\ registered[x] \in Tensors
             /\ registered[x][1] \in Adapters /\ registered[x][2] \in Checkpoints
             /\ registered[x] = <<registered[x][1], registered[x][2]>>
  BY <1>2 DEF Tensors
<1> QED
  BY <1>2, <1>3, <1>4, <1>5, <1>6, <1>7

(* What happens to the files of the jobs is seen by the next load only.    *)
LEMMA DiskStep ==
    ASSUME AdapterInv, NEW a \in Adapters, WriteCheckpoint(a) \/ DeleteCheckpoint(a)
    PROVE  AdapterInv'
<1>1. UNCHANGED <<registered, lru, active, weights, mapping, lora_id, batch, error>>
  BY DEF WriteCheckpoint, DeleteCheckpoint
<1>2. disk' \in [Adapters -> SUBSET Checkpoints]
  <2>1. disk \in [Adapters -> SUBSET Checkpoints]
    BY DEF AdapterInv, AdapterTypeOK
  <2>2. \/ \E c \in Checkpoints : disk' = [disk EXCEPT ![a] = disk[a] \cup {c}]
        \/ \E c \in disk[a] : disk' = [disk EXCEPT ![a] = disk[a] \ {c}]
    BY DEF WriteCheckpoint, DeleteCheckpoint
  <2> QED
    BY <2>1, <2>2
<1>3. AdapterTypeOK'
  BY <1>1, <1>2 DEF AdapterInv, AdapterTypeOK
<1>4. CacheAgrees' /\ NoInternalError'
  BY <1>1 DEF AdapterInv, CacheAgrees, NoInternalError
<1>5. WeightsInv'
  BY <1>1 DEF AdapterInv, WeightsInv, Runs, RunsBase
<1>6. MappingInv' /\ BatchInv'
  BY <1>1 DEF AdapterInv, MappingInv, BatchInv
<1> QED
  BY <1>3, <1>4, <1>5, <1>6 DEF AdapterInv

(* A step of the batch that leaves the manager alone.                      *)
LEMMA BatchStep ==
    ASSUME AdapterInv,
           batch' \in [stage: {"idle", "manage", "run"}, loras: SUBSET Adapters,
                       todo: SUBSET Adapters, base: BOOLEAN, embedding: BOOLEAN],
           BatchInv',
           error' \in {"none", "load"},
           UNCHANGED <<registered, lru, active, weights, mapping, lora_id, disk>>
    PROVE  AdapterInv'
<1>1. AdapterTypeOK'
  BY DEF AdapterInv, AdapterTypeOK
<1>2. CacheAgrees' /\ NoInternalError'
  BY DEF AdapterInv, CacheAgrees, NoInternalError
<1>3. WeightsInv'
  BY DEF AdapterInv, WeightsInv, Runs, RunsBase
<1>4. MappingInv'
  BY DEF AdapterInv, MappingInv
<1> QED
  BY <1>1, <1>2, <1>3, <1>4 DEF AdapterInv

(* A batch begins with all of its adapters to be brought in.               *)
LEMMA StartBatchStep == ASSUME AdapterInv, StartBatch PROVE AdapterInv'
<1>1. PICK loras \in SUBSET Adapters, base \in BOOLEAN, embedding \in BOOLEAN :
        /\ LastOfBatch(loras, embedding)
        /\ batch' = [stage |-> "manage", loras |-> loras, todo |-> loras,
                     base |-> base, embedding |-> embedding]
  BY DEF StartBatch
<1>2. /\ UNCHANGED <<registered, lru, active, weights, mapping, lora_id, disk, error>>
      /\ error = "none"
  BY DEF StartBatch
<1>3. batch'.stage = "manage" /\ batch'.loras = loras /\ batch'.todo = loras
      /\ batch'.embedding = embedding
  BY <1>1
<1>4. BatchInv'
  BY <1>1, <1>3 DEF BatchInv, LastOfBatch
<1> QED
  BY <1>1, <1>2, <1>4, BatchStep

(* The engine dies of a file it cannot read: nothing else has changed.     *)
LEMMA LoadFailsStep ==
    ASSUME AdapterInv, NEW a \in Adapters, LoadFails(a) PROVE AdapterInv'
<1>1. error' = "load" /\ UNCHANGED <<registered, lru, active, weights, mapping, lora_id, disk, batch>>
  BY DEF LoadFails, Dies
<1>2. BatchInv'
  BY <1>1 DEF AdapterInv, BatchInv
<1> QED
  BY <1>1, <1>2, BatchStep DEF AdapterInv, AdapterTypeOK

(* The batch runs once its loop is over.                                   *)
LEMMA ManageEndsStep == ASSUME AdapterInv, ManageEnds PROVE AdapterInv'
<1>1. /\ batch.stage = "manage" /\ (Manages => batch.loras # {} /\ batch.todo = {})
      /\ batch' = [batch EXCEPT !.stage = "run"] /\ error = "none"
      /\ UNCHANGED <<registered, lru, active, weights, mapping, lora_id, disk, error>>
  BY DEF ManageEnds, Ready
<1>2. batch \in [stage: {"idle", "manage", "run"}, loras: SUBSET Adapters,
                 todo: SUBSET Adapters, base: BOOLEAN, embedding: BOOLEAN]
  BY DEF AdapterInv, AdapterTypeOK
<1>3. /\ batch'.stage = "run" /\ batch'.loras = batch.loras /\ batch'.todo = batch.todo
      /\ batch'.embedding = batch.embedding
  BY <1>1, <1>2
<1>4. batch' \in [stage: {"idle", "manage", "run"}, loras: SUBSET Adapters,
                  todo: SUBSET Adapters, base: BOOLEAN, embedding: BOOLEAN]
  BY <1>1, <1>2
<1>5. BatchInv'
  BY <1>1, <1>3 DEF AdapterInv, BatchInv, Manages
<1> QED
  BY <1>1, <1>4, <1>5, BatchStep

(* The forward pass.                                                       *)
LEMMA ExecuteStep == ASSUME AdapterInv, Execute PROVE AdapterInv'
<1>1. batch' = Idle /\ UNCHANGED <<registered, lru, active, weights, mapping, lora_id, disk, error>>
  BY DEF Execute
<1>2. BatchInv'
  BY <1>1 DEF BatchInv, Idle
<1>3. error' \in {"none", "load"}
  BY <1>1 DEF AdapterInv, NoInternalError, AdapterTypeOK
<1> QED
  BY <1>1, <1>2, <1>3, BatchStep DEF Idle

(* The next worker starts from nothing.                                    *)
LEMMA RestartStep == ASSUME AdapterInv, Restart PROVE AdapterInv'
<1>1. /\ registered' = <<>> /\ lru' = <<>> /\ active' = 0
      /\ weights' = [k \in Keys |-> Base] /\ mapping' = [a \in Adapters |-> 0]
      /\ lora_id' = 0 /\ batch' = Idle /\ error' = "none" /\ disk' = disk
  BY DEF Restart
<1>2. DOMAIN registered' = {} /\ Len(lru') = 0
  BY <1>1
<1>3. AdapterTypeOK'
  <2>1. lora_id' \in 0 .. MaxLoads
    BY <1>1, AdapterCacheAssumption
  <2>2. lru' \in Seq(1 .. lora_id') /\ registered' \in [DOMAIN registered' -> Tensors]
    BY <1>1, <1>2
  <2>3. disk' \in [Adapters -> SUBSET Checkpoints]
    BY <1>1 DEF AdapterInv, AdapterTypeOK
  <2> QED
    BY <1>1, <1>2, <2>1, <2>2, <2>3 DEF AdapterTypeOK, Idle
<1>4. CacheAgrees'
  BY <1>1, <1>2, AdapterCacheAssumption DEF CacheAgrees
<1>5. WeightsInv'
  BY <1>1 DEF WeightsInv, RunsBase, Keys
<1>6. MappingInv' /\ BatchInv' /\ NoInternalError'
  BY <1>1, <1>2 DEF MappingInv, BatchInv, NoInternalError, Idle
<1> QED
  BY <1>3, <1>4, <1>5, <1>6 DEF AdapterInv

(* The tensors of the active adapter are put back: what it had replaced is *)
(* the base model's again.                                                 *)
LEMMA DeactivatedRunsBase ==
    ASSUME AdapterInv, active # 0
    PROVE  /\ Deactivated(weights, active) \in [Keys -> Tensors \cup {Base}]
           /\ \A k \in PKeys \cup HeadKeys : Deactivated(weights, active)[k] = Base
<1>1. registered[active][1] \in Adapters
  BY CacheFacts
<1>2. weights \in [Keys -> Tensors \cup {Base}]
  BY DEF AdapterInv, AdapterTypeOK
<1>3. \A k \in HeadKeys \ KeysOf[registered[active][1]] : weights[k] = Base
  BY DEF AdapterInv, WeightsInv, Runs
<1>4. PKeys \subseteq KeysOf[registered[active][1]]
  BY <1>1, AdapterCacheAssumption
<1>5. PKeys \cup HeadKeys \subseteq Keys
  BY DEF Keys
<1> QED
  BY <1>2, <1>3, <1>4, <1>5 DEF Deactivated

(* A batch without adapters runs the base model.                           *)
LEMMA ManageBaseStep == ASSUME AdapterInv, ManageBase PROVE AdapterInv'
<1>1. active # 0 => active \in DOMAIN registered
  BY CacheFacts
<1>2. /\ batch.stage = "manage" /\ batch.loras = {} /\ error = "none"
      /\ weights' = IF active = 0 THEN weights ELSE Deactivated(weights, active)
      /\ active' = 0
      /\ UNCHANGED <<registered, lru, mapping, lora_id, disk, error>>
      /\ batch' = [batch EXCEPT !.stage = "run"]
  BY <1>1 DEF ManageBase, DeactivateAll, Ready
<1>3. batch \in [stage: {"idle", "manage", "run"}, loras: SUBSET Adapters,
                 todo: SUBSET Adapters, base: BOOLEAN, embedding: BOOLEAN]
  BY DEF AdapterInv, AdapterTypeOK
<1>4. /\ batch'.stage = "run" /\ batch'.loras = {} /\ batch'.todo = batch.todo
      /\ batch'.embedding = batch.embedding
  BY <1>2, <1>3
<1>5. batch' \in [stage: {"idle", "manage", "run"}, loras: SUBSET Adapters,
                  todo: SUBSET Adapters, base: BOOLEAN, embedding: BOOLEAN]
  BY <1>2, <1>3
<1>6. BatchInv'
  <2>1. batch.todo = {}
    BY <1>2 DEF AdapterInv, BatchInv
  <2>2. \A a \in Adapters : batch'.loras # {a}
    BY <1>4
  <2> QED
    BY <1>2, <1>4, <2>1, <2>2 DEF BatchInv
<1>7. weights' \in [Keys -> Tensors \cup {Base}] /\ RunsBase'
  <2>1. CASE active = 0
    BY <1>2, <2>1 DEF AdapterInv, AdapterTypeOK, WeightsInv, RunsBase
  <2>2. CASE active # 0
    BY <1>2, <2>2, DeactivatedRunsBase DEF RunsBase
  <2> QED
    BY <2>1, <2>2
<1>8. AdapterTypeOK'
  <2>1. active' \in 0 .. lora_id'
    BY <1>2, CacheFacts
  <2> QED
    BY <1>2, <1>5, <1>7, <2>1 DEF AdapterInv, AdapterTypeOK
<1>9. CacheAgrees'
  BY <1>2 DEF AdapterInv, CacheAgrees
<1>10. WeightsInv' /\ MappingInv' /\ NoInternalError'
  BY <1>2, <1>7 DEF AdapterInv, WeightsInv, MappingInv, NoInternalError
<1> QED
  BY <1>6, <1>8, <1>9, <1>10 DEF AdapterInv

(* A round of the loop is over: the batch waits for one adapter less, and  *)
(* if it names no other, the one that is active is its own.                *)
LEMMA RoundOver ==
    ASSUME AdapterInv, NEW a \in batch.todo, Manages,
           batch' = Done(a), active' # 0, registered'[active'][1] = a
    PROVE  /\ BatchInv'
           /\ batch' \in [stage: {"idle", "manage", "run"}, loras: SUBSET Adapters,
                          todo: SUBSET Adapters, base: BOOLEAN, embedding: BOOLEAN]
<1>1. batch \in [stage: {"idle", "manage", "run"}, loras: SUBSET Adapters,
                 todo: SUBSET Adapters, base: BOOLEAN, embedding: BOOLEAN]
  BY DEF AdapterInv, AdapterTypeOK
<1>2. batch' = [batch EXCEPT !.todo = batch.todo \ {a}]
  BY DEF Done
<1>3. /\ batch'.stage = batch.stage /\ batch'.loras = batch.loras
      /\ batch'.todo = batch.todo \ {a} /\ batch'.embedding = batch.embedding
  BY <1>1, <1>2
<1>4. batch' \in [stage: {"idle", "manage", "run"}, loras: SUBSET Adapters,
                  todo: SUBSET Adapters, base: BOOLEAN, embedding: BOOLEAN]
  BY <1>1, <1>2
<1>5. a \in batch.loras /\ batch.stage = "manage"
  BY DEF AdapterInv, BatchInv
<1>6. BatchInv'
  BY <1>3, <1>5 DEF AdapterInv, BatchInv
<1> QED
  BY <1>4, <1>6

(* The adapter is in the cache: it becomes the active one, and the last of *)
(* the list.                                                               *)
LEMMA ActivateCachedStep ==
    ASSUME AdapterInv, NEW a \in Adapters, ActivateCached(a) PROVE AdapterInv'
<1>1. /\ error = "none" /\ a \in batch.todo /\ Manages /\ a \in Listed
      /\ Activate(a) /\ batch' = Done(a)
      /\ UNCHANGED <<registered, mapping, lora_id, disk, error>>
  BY DEF ActivateCached
<1> DEFINE id == mapping[a]
<1>2. id \in DOMAIN registered /\ registered[id][1] = a
  BY <1>1 DEF Listed, AdapterInv, MappingInv
<1>3. id \in 1 .. lora_id /\ id # 0
  BY <1>2, CacheFacts
<1> HIDE DEF id
<1>4. active' = id
  BY <1>1 DEF Activate, id
<1>5. BatchInv' /\ batch' \in [stage: {"idle", "manage", "run"}, loras: SUBSET Adapters,
                              todo: SUBSET Adapters, base: BOOLEAN, embedding: BOOLEAN]
  BY <1>1, <1>2, <1>3, <1>4, RoundOver
<1>6. MappingInv' /\ NoInternalError'
  BY <1>1 DEF AdapterInv, MappingInv, NoInternalError
<1>7. CASE id = active
  <2>1. lru' = lru /\ active' = active /\ weights' = weights
    BY <1>1, <1>7 DEF Activate, id
  <2> QED
    BY <1>1, <1>5, <1>6, <2>1 DEF AdapterInv, AdapterTypeOK, CacheAgrees, WeightsInv, Runs, RunsBase
<1>8. CASE id # active
  <2>1. /\ lru' = MovedToEnd(lru, id)
        /\ weights' = Activated(weights, registered[id])
    BY <1>1, <1>8 DEF Activate, id
  <2>2. PICK p \in 1 .. Len(lru) : lru[p] = id
    BY <1>2, CacheFacts
  <2>3. /\ lru \in Seq(1 .. lora_id) /\ Len(lru) \in Nat /\ Len(lru) <= Capacity
        /\ \A i, j \in 1 .. Len(lru) : lru[i] = lru[j] => i = j
        /\ \A i \in 1 .. Len(lru) : lru[i] \in DOMAIN registered
        /\ \A x \in DOMAIN registered : \E i \in 1 .. Len(lru) : lru[i] = x
    BY CacheFacts
  <2>4. /\ lru' \in Seq(1 .. lora_id) /\ Len(lru') = Len(lru) /\ lru'[Len(lru)] = id
        /\ \A i \in 1 .. Len(lru) - 1 : lru'[i] = IF i < p THEN lru[i] ELSE lru[i + 1]
    <3>1. /\ lru \in Seq(1 .. lora_id) /\ p \in 1 .. Len(lru)
          /\ \A i, j \in 1 .. Len(lru) : lru[i] = lru[j] => i = j
      BY <2>3
    <3>2. /\ MovedToEnd(lru, lru[p]) \in Seq(1 .. lora_id)
          /\ Len(MovedToEnd(lru, lru[p])) = Len(lru)
          /\ MovedToEnd(lru, lru[p])[Len(lru)] = lru[p]
          /\ \A i \in 1 .. Len(lru) - 1 :
                MovedToEnd(lru, lru[p])[i] = IF i < p THEN lru[i] ELSE lru[i + 1]
      BY ONLY <3>1, MovedIsLast
    <3>3. lru' = MovedToEnd(lru, lru[p])
      BY <2>1, <2>2
    <3> QED
      BY ONLY <2>2, <3>2, <3>3
  <2>5. CacheAgrees'
    <3>1. \A i \in 1 .. Len(lru) : lru'[i] \in DOMAIN registered
      BY <1>2, <2>2, <2>3, <2>4
    <3>2. ASSUME NEW x \in DOMAIN registered
          PROVE  \E i \in 1 .. Len(lru) : lru'[i] = x
      <4>1. PICK i \in 1 .. Len(lru) : lru[i] = x
        BY <2>3
      <4>2. CASE i < p
        <5>1. i \in 1 .. Len(lru) - 1 /\ lru'[i] = x
          BY <4>1, <4>2, <2>2, <2>3, <2>4
        <5> QED
          BY <5>1, <2>3
      <4>3. CASE i = p
        BY <4>1, <4>3, <2>2, <2>3, <2>4
      <4>4. CASE i > p
        <5>1. i - 1 \in 1 .. Len(lru) - 1 /\ ~(i - 1 < p) /\ i - 1 + 1 = i
          BY <4>4, <2>2, <2>3
        <5>2. lru'[i - 1] = x
          BY <4>1, <5>1, <2>4
        <5> QED
          BY <5>1, <5>2, <2>3
      <4> QED
        BY <2>3, <4>2, <4>3, <4>4
    <3>3. {lru'[i] : i \in 1 .. Len(lru')} = DOMAIN registered'
      BY <1>1, <2>4, <3>1, <3>2
    <3>4. ASSUME NEW i \in 1 .. Len(lru), NEW j \in 1 .. Len(lru), lru'[i] = lru'[j]
          PROVE  i = j
      <4> DEFINE q(k) == IF k = Len(lru) THEN p ELSE IF k < p THEN k ELSE k + 1
      <4>1. \A k \in 1 .. Len(lru) : q(k) \in 1 .. Len(lru) /\ lru'[k] = lru[q(k)]
        BY <2>2, <2>3, <2>4
      <4>2. q(i) \in 1 .. Len(lru) /\ q(j) \in 1 .. Len(lru) /\ lru[q(i)] = lru[q(j)]
        BY ONLY <3>4, <4>1, i \in 1 .. Len(lru), j \in 1 .. Len(lru)
      <4>3. q(i) = q(j)
        <5> HIDE DEF q
        <5> QED
          BY <2>3, <4>2
      <4>4. p \in 1 .. Len(lru) /\ Len(lru) \in Nat
        BY <2>2, <2>3
      <4> QED
        BY ONLY <4>3, <4>4, i \in 1 .. Len(lru), j \in 1 .. Len(lru)
    <3> QED
      BY <1>4, <2>2, <2>3, <2>4, <3>3, <3>4 DEF CacheAgrees
  <2>6. /\ registered[id] \in Tensors
        /\ registered[id][1] \in Adapters /\ registered[id][2] \in Checkpoints
        /\ registered[id] = <<registered[id][1], registered[id][2]>>
    BY <1>2, CacheFacts
  <2>7. weights' \in [Keys -> Tensors \cup {Base}]
    BY <2>1, <2>6, ActivatedType DEF AdapterInv, AdapterTypeOK
  <2>8. AdapterTypeOK'
    <3>1. active' \in 0 .. lora_id'
      BY <1>1, <1>3, <1>4, CacheFacts
    <3>2. lru' \in Seq(1 .. lora_id')
      BY <1>1, <2>4
    <3> QED
      BY <1>1, <1>5, <2>7, <3>1, <3>2 DEF AdapterInv, AdapterTypeOK
  <2>9. WeightsInv'
    <3>1. PICK b \in Adapters, c \in Checkpoints : registered[id] = <<b, c>>
      BY <2>6
    <3>2. weights' = Activated(weights, <<b, c>>)
      BY <2>1, <3>1
    <3>3. active' # 0 /\ registered'[active'] = <<b, c>>
      BY <1>1, <1>3, <1>4, <3>1
    <3> QED
      BY <3>2, <3>3, ActivatedRuns
  <2> QED
    BY <1>5, <1>6, <2>5, <2>8, <2>9 DEF AdapterInv
<1> QED
  BY <1>7, <1>8

(* The list and the registered adapters after the eviction, if there is    *)
(* one.                                                                    *)
Rest == IF Evicts THEN Tail(lru) ELSE lru
Kept == IF Evicts THEN Without(registered, Head(lru)) ELSE registered

(* After the eviction the list and the registered adapters still agree,    *)
(* and there is room for one more.                                         *)
LEMMA RoomForOne ==
    ASSUME AdapterInv
    PROVE  /\ Evicts => lru # <<>>
           /\ Rest \in Seq(1 .. lora_id) /\ Len(Rest) < Capacity
           /\ \A i \in 1 .. Len(Rest) : Rest[i] \in DOMAIN Kept
           /\ \A i, j \in 1 .. Len(Rest) : Rest[i] = Rest[j] => i = j
           /\ \A x \in DOMAIN Kept : \E i \in 1 .. Len(Rest) : Rest[i] = x
           /\ DOMAIN Kept \subseteq DOMAIN registered
           /\ \A x \in DOMAIN Kept : Kept[x] = registered[x]
<1>1. /\ lora_id \in Nat /\ Capacity \in Nat \ {0}
      /\ lru \in Seq(1 .. lora_id) /\ Len(lru) \in Nat /\ Len(lru) <= Capacity
      /\ \A i \in 1 .. Len(lru) : lru[i] \in DOMAIN registered
      /\ \A i, j \in 1 .. Len(lru) : lru[i] = lru[j] => i = j
      /\ \A x \in DOMAIN registered : \E i \in 1 .. Len(lru) : lru[i] = x
      /\ Cardinality(DOMAIN registered) = Len(lru)
  BY CacheFacts
<1>2. CASE ~Evicts
  <2>1. Rest = lru /\ Kept = registered /\ Len(lru) < Capacity
    BY <1>1, <1>2 DEF Evicts, Rest, Kept
  <2> QED
    BY <1>1, <1>2, <2>1
<1>3. CASE Evicts
  <2>1. Len(lru) = Capacity /\ Len(lru) > 0
    BY <1>1, <1>3 DEF Evicts
  <2>2. lru # <<>>
    BY <2>1
  <2>3. Rest = Tail(lru) /\ Kept = Without(registered, Head(lru))
    BY <1>3 DEF Rest, Kept
  <2>4. /\ Rest \in Seq(1 .. lora_id) /\ Len(Rest) = Len(lru) - 1
        /\ \A i \in 1 .. Len(Rest) : Rest[i] = lru[i + 1]
        /\ Head(lru) = lru[1]
    <3>1. lru \in Seq(1 .. lora_id) /\ lru # <<>>
      BY <1>1, <2>2
    <3>2. /\ Head(lru) = lru[1] /\ Tail(lru) \in Seq(1 .. lora_id)
          /\ Len(Tail(lru)) = Len(lru) - 1
          /\ \A i \in 1 .. Len(Tail(lru)) : Tail(lru)[i] = lru[i + 1]
      BY ONLY <3>1, HeadTailProperties
    <3> QED
      BY <2>3, <3>2
  <2>5. /\ DOMAIN Kept = DOMAIN registered \ {lru[1]}
        /\ \A x \in DOMAIN Kept : Kept[x] = registered[x]
    BY <2>3, <2>4 DEF Without
  <2>6. \A i \in 1 .. Len(Rest) : i + 1 \in 1 .. Len(lru) /\ i + 1 # 1
    BY <1>1, <2>1, <2>4
  <2>7. \A i \in 1 .. Len(Rest) : Rest[i] \in DOMAIN Kept
    <3>1. 1 \in 1 .. Len(lru)
      BY <1>1, <2>1
    <3> QED
      BY SMTT(30), <1>1, <2>4, <2>5, <2>6, <3>1
  <2>8. ASSUME NEW i \in 1 .. Len(Rest), NEW j \in 1 .. Len(Rest), Rest[i] = Rest[j]
        PROVE  i = j
    <3>1. lru[i + 1] = lru[j + 1]
      BY <2>4, <2>8
    <3>2. i + 1 = j + 1
      BY <1>1, <2>6, <3>1
    <3> QED
      BY <3>2
  <2>9. ASSUME NEW x \in DOMAIN Kept PROVE \E i \in 1 .. Len(Rest) : Rest[i] = x
    <3>1. PICK i \in 1 .. Len(lru) : lru[i] = x
      BY <1>1, <2>5
    <3>2. i # 1
      BY <2>5, <3>1
    <3>3. i - 1 \in 1 .. Len(Rest) /\ i - 1 + 1 = i
      BY <1>1, <2>4, <3>2
    <3>4. Rest[i - 1] = x
      BY <2>4, <3>1, <3>3
    <3> QED
      BY <3>3, <3>4
  <2>10. Len(Rest) < Capacity
    BY <1>1, <2>1, <2>4
  <2> QED
    BY <2>2, <2>4, <2>5, <2>7, <2>8, <2>9, <2>10
<1> QED
  BY <1>2, <1>3

(* The adapter is not in the cache: it is loaded, registered under a new   *)
(* id and active, and if the cache was full the oldest has gone.           *)
LEMMA AddAdapterStep ==
    ASSUME AdapterInv, NEW a \in Adapters, AddAdapter(a) PROVE AdapterInv'
<1> DEFINE id == lora_id + 1
           w == IF Evicts /\ Head(lru) = active THEN Deactivated(weights, Head(lru)) ELSE weights
<1>1. /\ Evicts => lru # <<>>
      /\ Rest \in Seq(1 .. lora_id) /\ Len(Rest) < Capacity
      /\ \A i \in 1 .. Len(Rest) : Rest[i] \in DOMAIN Kept
      /\ \A i, j \in 1 .. Len(Rest) : Rest[i] = Rest[j] => i = j
      /\ \A x \in DOMAIN Kept : \E i \in 1 .. Len(Rest) : Rest[i] = x
      /\ DOMAIN Kept \subseteq DOMAIN registered
      /\ \A x \in DOMAIN Kept : Kept[x] = registered[x]
  BY RoomForOne
<1>2. /\ a \in batch.todo /\ Manages /\ lora_id < MaxLoads
      /\ batch' = Done(a) /\ disk' = disk /\ error' = error /\ error = "none"
  BY <1>1 DEF AddAdapter
<1>3. PICK c \in disk[a] : LoadAndAdd(a, c)
  BY <1>1 DEF AddAdapter
<1>4. c \in Checkpoints
  BY <1>3 DEF AdapterInv, AdapterTypeOK
<1>5. /\ lora_id' = id /\ mapping' = [mapping EXCEPT ![a] = id]
      /\ registered' = [i \in DOMAIN Kept \cup {id} |-> IF i = id THEN <<a, c>> ELSE Kept[i]]
      /\ lru' = Append(Rest, id)
      /\ weights' = Activated(w, <<a, c>>)
      /\ active' = id
  BY <1>3 DEF LoadAndAdd, Rest, Kept
<1>6. /\ lora_id \in Nat /\ MaxLoads \in Nat /\ Capacity \in Nat \ {0}
      /\ DOMAIN registered \subseteq 1 .. lora_id
      /\ \A x \in DOMAIN registered : registered[x] \in Tensors
  BY CacheFacts
<1>7. w \in [Keys -> Tensors \cup {Base}]
  <2>1. CASE Evicts /\ Head(lru) = active
    <3>1. Head(lru) = lru[1] /\ Head(lru) \in 1 .. lora_id
      BY <1>1, <1>6, <2>1, CacheFacts
    <3>2. active # 0
      BY <1>6, <2>1, <3>1
    <3> QED
      BY <2>1, <3>2, DeactivatedRunsBase
  <2>2. CASE ~(Evicts /\ Head(lru) = active)
    BY <2>2 DEF AdapterInv, AdapterTypeOK
  <2> QED
    BY <2>1, <2>2
<1> HIDE DEF w
<1>8. id \notin DOMAIN Kept /\ id \in 1 .. id /\ id # 0 /\ id \in Nat
  BY <1>1, <1>6
<1>9. /\ DOMAIN registered' = DOMAIN Kept \cup {id}
      /\ registered'[id] = <<a, c>>
      /\ \A x \in DOMAIN Kept : registered'[x] = registered[x]
  BY <1>1, <1>5, <1>8
<1>10. /\ Len(Rest) \in Nat /\ Len(lru') = Len(Rest) + 1 /\ lru' \in Seq(1 .. id)
       /\ \A i \in 1 .. Len(Rest) : lru'[i] = Rest[i]
       /\ lru'[Len(Rest) + 1] = id
  <2>1. Rest \in Seq(1 .. id)
    BY <1>1, <1>6
  <2> HIDE DEF id
  <2> QED
    BY <1>5, <1>8, <2>1
<1>11. BatchInv' /\ batch' \in [stage: {"idle", "manage", "run"}, loras: SUBSET Adapters,
                                todo: SUBSET Adapters, base: BOOLEAN, embedding: BOOLEAN]
  BY <1>2, <1>5, <1>8, <1>9, RoundOver
<1>12. WeightsInv'
  BY <1>4, <1>5, <1>8, <1>9, ActivatedRuns
<1>13. <<a, c>> \in Tensors
  BY <1>4 DEF Tensors
<1>14. AdapterTypeOK'
  <2>1. lora_id' \in 0 .. MaxLoads /\ active' \in 0 .. lora_id'
    BY <1>2, <1>5, <1>6
  <2>2. DOMAIN registered' \subseteq 1 .. lora_id'
    BY <1>1, <1>5, <1>6, <1>9
  <2>3. registered' \in [DOMAIN registered' -> Tensors]
    BY <1>1, <1>5, <1>6, <1>9, <1>13
  <2>4. weights' \in [Keys -> Tensors \cup {Base}]
    BY <1>5, <1>7, <1>13, ActivatedType
  <2>5. mapping' \in [Adapters -> 0 .. lora_id']
    <3>1. mapping \in [Adapters -> 0 .. lora_id]
      BY DEF AdapterInv, AdapterTypeOK
    <3>2. mapping \in [Adapters -> 0 .. id] /\ id \in 0 .. id
      BY <1>6, <3>1
    <3> QED
      BY <1>5, <3>2
  <2>6. lru' \in Seq(1 .. lora_id')
    BY <1>5, <1>10
  <2> QED
    BY <1>2, <1>11, <2>1, <2>2, <2>3, <2>4, <2>5, <2>6 DEF AdapterInv, AdapterTypeOK
<1>15. CacheAgrees'
  <2>1. \A i \in 1 .. Len(Rest) + 1 : lru'[i] \in DOMAIN Kept \cup {id}
    BY <1>1, <1>10
  <2>2. \A x \in DOMAIN Kept \cup {id} : \E i \in 1 .. Len(Rest) + 1 : lru'[i] = x
    BY <1>1, <1>10
  <2>3. {lru'[i] : i \in 1 .. Len(lru')} = DOMAIN registered'
    BY <1>9, <1>10, <2>1, <2>2
  <2>4. ASSUME NEW i \in 1 .. Len(Rest) + 1, NEW j \in 1 .. Len(Rest) + 1, lru'[i] = lru'[j]
        PROVE  i = j
    <3>1. CASE i \in 1 .. Len(Rest) /\ j \in 1 .. Len(Rest)
      BY <1>1, <1>10, <2>4, <3>1
    <3>2. \A k \in 1 .. Len(Rest) : lru'[k] # id
      BY <1>1, <1>8, <1>10
    <3>3. CASE i = Len(Rest) + 1
      BY <1>10, <2>4, <3>2, <3>3
    <3>4. CASE j = Len(Rest) + 1
      BY <1>10, <2>4, <3>2, <3>4
    <3> QED
      BY <1>10, <3>1, <3>3, <3>4
  <2>5. Len(lru') <= Capacity /\ Len(lru') > 0 /\ lru'[Len(lru')] = active'
    BY <1>1, <1>5, <1>6, <1>10
  <2> QED
    BY <1>10, <2>3, <2>4, <2>5 DEF CacheAgrees
<1>16. MappingInv'
  <2> SUFFICES ASSUME NEW b \in Adapters, mapping'[b] \in DOMAIN registered'
               PROVE  registered'[mapping'[b]][1] = b
    BY DEF MappingInv
  <2>0. mapping \in [Adapters -> 0 .. lora_id]
    BY DEF AdapterInv, AdapterTypeOK
  <2>1. CASE b = a
    BY <1>5, <1>9, <2>0, <2>1
  <2>2. CASE b # a
    <3>1. mapping'[b] = mapping[b] /\ mapping[b] # id
      BY <1>5, <1>6, <2>0, <2>2
    <3>2. mapping[b] \in DOMAIN Kept
      BY <1>9, <3>1
    <3> QED
      BY <1>1, <1>9, <3>1, <3>2 DEF AdapterInv, MappingInv
  <2> QED
    BY <2>1, <2>2
<1> QED
  BY <1>2, <1>11, <1>12, <1>14, <1>15, <1>16 DEF AdapterInv, NoInternalError

-----------------------------------------------------------------------------
(* The theorems *)

(* Every step of the worker and of the trainers keeps the invariant.       *)
LEMMA AdapterStep == AdapterInv /\ [AdapterNext]_adapterVars => AdapterInv'
<1> SUFFICES ASSUME AdapterInv, [AdapterNext]_adapterVars PROVE AdapterInv'
  OBVIOUS
<1>1. CASE UNCHANGED adapterVars
  <2>1. UNCHANGED <<registered, lru, active, weights, mapping, lora_id, disk, batch, error>>
    BY <1>1 DEF adapterVars
  <2>2. BatchInv'
    BY <2>1 DEF AdapterInv, BatchInv
  <2>3. error' \in {"none", "load"}
    BY <2>1 DEF AdapterInv, AdapterTypeOK, NoInternalError
  <2> QED
    BY <2>1, <2>2, <2>3, BatchStep DEF AdapterInv, AdapterTypeOK
<1> QED
  BY <1>1, DiskStep, AddAdapterStep, LoadFailsStep, ActivateCachedStep, StartBatchStep,
     ManageBaseStep, ManageEndsStep, ExecuteStep, RestartStep
  DEF AdapterNext

(* The cache of adapters keeps AdapterInv, whatever is trained, asked for, *)
(* evicted, deleted from the disk and started again.                       *)
THEOREM AdapterInvariance == AdapterSpec => []AdapterInv
<1>1. ASSUME AdapterInit PROVE AdapterInv
  <2>1. /\ registered = <<>> /\ lru = <<>> /\ active = 0
        /\ weights = [k \in Keys |-> Base] /\ mapping = [a \in Adapters |-> 0]
        /\ lora_id = 0 /\ batch = Idle /\ error = "none"
        /\ disk = [a \in Adapters |-> {}]
    BY <1>1 DEF AdapterInit
  <2>2. DOMAIN registered = {} /\ Len(lru) = 0
    BY <2>1
  <2>3. lora_id \in 0 .. MaxLoads /\ Capacity \in Nat
    BY <2>1, AdapterCacheAssumption
  <2>4. lru \in Seq(1 .. lora_id) /\ registered \in [DOMAIN registered -> Tensors]
    BY <2>1, <2>2
  <2>5. AdapterTypeOK
    BY <2>1, <2>2, <2>3, <2>4 DEF AdapterTypeOK, Idle
  <2>6. CacheAgrees
    BY <2>1, <2>2, <2>3 DEF CacheAgrees
  <2>7. WeightsInv
    BY <2>1 DEF WeightsInv, RunsBase, Keys
  <2>8. MappingInv /\ BatchInv /\ NoInternalError
    BY <2>1, <2>2 DEF MappingInv, BatchInv, NoInternalError, Idle
  <2> QED
    BY <2>5, <2>6, <2>7, <2>8 DEF AdapterInv
<1> QED
  BY <1>1, AdapterStep, PTL DEF AdapterSpec

(* A batch with one adapter runs with that adapter's tensors, all from one *)
(* checkpoint, and a batch without with the base model's; the LRU list and *)
(* the registered adapters agree and stay within the capacity; and the     *)
(* manager never looks up an adapter that is gone or pops from an empty    *)
(* list (TokenformerModelManager, manage_tokenformer_adapters).            *)
THEOREM AdaptersStayConsistent == AdapterSpec => []AdaptersAreConsistent
<1>1. ASSUME AdapterInv PROVE BatchRunsItsModel
  <2> SUFFICES ASSUME batch.stage = "run"
               PROVE  /\ \A a \in Adapters : batch.loras = {a} => \E c \in Checkpoints : Runs(a, c)
                      /\ batch.loras = {} /\ ~batch.embedding => RunsBase
    BY DEF BatchRunsItsModel
  <2>1. ASSUME NEW a \in Adapters, batch.loras = {a} PROVE \E c \in Checkpoints : Runs(a, c)
    <3>1. active # 0 /\ registered[active][1] = a
      BY <1>1, <2>1 DEF AdapterInv, BatchInv
    <3>2. registered[active][2] \in Checkpoints
      BY <1>1, <3>1, CacheFacts
    <3>3. Runs(a, registered[active][2])
      BY <1>1, <3>1 DEF AdapterInv, WeightsInv
    <3> QED
      BY <3>2, <3>3
  <2>2. ASSUME batch.loras = {}, ~batch.embedding PROVE RunsBase
    BY <1>1, <2>2 DEF AdapterInv, BatchInv, WeightsInv
  <2> QED
    BY <2>1, <2>2
<1>2. AdapterInv => AdaptersAreConsistent
  BY <1>1 DEF AdapterInv, AdaptersAreConsistent
<1> QED
  BY <1>2, AdapterInvariance, PTL

=============================================================================
