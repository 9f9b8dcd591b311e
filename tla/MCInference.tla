---------------------------- MODULE MCInference ----------------------------
(* Instances of Inference for TLC. *)
EXTENDS Inference, TLC

\* Two calls: "a" with two prompts, "b" with one.
MCPrompts == {"a1", "a2", "b1"}
MCPromptsOf == [a |-> <<"a1", "a2">>, b |-> <<"b1">>]
MCGenerateOnly == [a |-> "generate", b |-> "generate"]
MCMixed == [a |-> "generate", b |-> "embed"]

\* One mishap, of the API process or of a worker.
OneMishap == gen + faults <= 1

WorkerSymmetry == Permutations(Workers)

=============================================================================
