------------------------------ MODULE MCTrainer -----------------------------
(***************************************************************************)
(* The trainer for TLC: the ranks and their collectives, the shards of a   *)
(* parameter, the dataset of every rank.  The three share no variable, so  *)
(* a behaviour of the trainer is an interleaving of one behaviour of each, *)
(* and a property of one of them can be told from the behaviours in which  *)
(* only that one moves.                                                    *)
(***************************************************************************)
EXTENDS TrainingRanks, Fsdp, DatasetLoader

VARIABLE moves      \* the part that moves

MCVars == <<moves, ranksVars, fsdpVars, dataVars>>

MCInit ==
    /\ moves \in {"ranks", "fsdp", "data"}
    /\ RanksInit /\ (moves # "ranks" => saved = -1)
    /\ FsdpInit /\ (moves # "fsdp" => world = 1 /\ numel = 1)
    /\ DataInit /\ (moves # "data" => tokens = <<1>>)

MCNext ==
    \/ moves = "ranks" /\ RanksNext /\ UNCHANGED <<moves, fsdpVars, dataVars>>
    \/ moves = "fsdp" /\ FsdpNext /\ UNCHANGED <<moves, ranksVars, dataVars>>
    \/ moves = "data" /\ DataNext /\ UNCHANGED <<moves, ranksVars, fsdpVars>>

MCSpec == MCInit /\ [][MCNext]_MCVars /\ (moves = "ranks" => RanksFairness)
=============================================================================
