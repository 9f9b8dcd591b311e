------------------------------ MODULE MCWorker ------------------------------
(***************************************************************************)
(* The vLLM workers for TLC: the adapters of a worker, the block pool of   *)
(* its cache and the broadcast from the driver to the workers.  The three  *)
(* share no variable, so a property of one of them can be told from the    *)
(* behaviours in which only it moves.                                      *)
(***************************************************************************)
EXTENDS AdapterCache, BlockAllocator, ShmBroadcast

\* Three adapters, one of which was trained with a frozen lm_head.
MCKeysOf == [a \in Adapters |-> IF a = "a" THEN {"p", "k"} ELSE {"p", "k", "lm_head"}]

MCBig == {1, 3, 4, 5}

MCFree == CHOOSE f \in [1 .. Cardinality(Blocks) -> Blocks] :
            {f[i] : i \in DOMAIN f} = Blocks

VARIABLE moves      \* the part that moves

MCVars == <<moves, adapterVars, vars, shmVars>>

MCInit ==
    /\ moves \in {"adapters", "blocks", "broadcast"}
    /\ AdapterInit
    /\ Init /\ (moves # "blocks" => free = MCFree)
    /\ ShmInit

MCNext ==
    \/ moves = "adapters" /\ AdapterNext /\ UNCHANGED <<moves, vars, shmVars>>
    \/ moves = "blocks" /\ Next /\ UNCHANGED <<moves, adapterVars, shmVars>>
    \/ moves = "broadcast" /\ ShmNext /\ UNCHANGED <<moves, adapterVars, vars>>

MCSpec == MCInit /\ [][MCNext]_MCVars /\ (moves = "broadcast" => ShmFairness)
=============================================================================
