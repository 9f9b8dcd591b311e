--------------------------- MODULE MCTrainingJob ---------------------------
(* Instances of TrainingJob for TLC: the constants are in the cfg files. *)
EXTENDS TrainingJob

=============================================================================
