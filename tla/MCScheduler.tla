---------------------------- MODULE MCScheduler ----------------------------
(* Instances of Scheduler for TLC: four configurations of the engine, each *)
(* with requests that strain it.                                           *)
EXTENDS Scheduler

Request(prompt, max_tokens, best_of, lora) ==
    [prompt |-> prompt, max_tokens |-> max_tokens, best_of |-> best_of, lora |-> lora,
     ignore_eos |-> FALSE, pooling |-> FALSE]

(* One sample, short and long prompts, in a cache for one of the long ones. *)
Single ==
    [num_gpu_blocks |-> 3, num_cpu_blocks |-> 0, watermark_blocks |-> 0, sliding_window |-> 0,
     max_model_len |-> 6, max_num_batched_tokens |-> 6, max_num_seqs |-> 3,
     requests |-> {Request(1, 3, 1, 0), Request(3, 3, 1, 0)}]

(* Two adapters, a prompt too long for the model and an embedding, with a  *)
(* watermark.                                                              *)
Mixed ==
    [Single EXCEPT !.watermark_blocks = 1,
        !.requests = {Request(1, 2, 1, 0), Request(2, 3, 1, 1), Request(2, 2, 1, 2),
                      Request(7, 2, 1, 0), [Request(2, 2, 1, 0) EXCEPT !.pooling = TRUE]}]

(* Two samples of a prompt, which end together, and adapters. *)
Parallel ==
    [Single EXCEPT !.num_gpu_blocks = 5, !.num_cpu_blocks = 12, !.max_num_seqs = 5,
        !.requests = {[Request(1, 3, 2, 1) EXCEPT !.ignore_eos = TRUE],
                      [Request(3, 3, 2, 0) EXCEPT !.ignore_eos = TRUE],
                      Request(2, 3, 1, 2)}]

(* A sliding window that the sequences outgrow, and blocks for all. *)
Windowed ==
    [Single EXCEPT !.num_gpu_blocks = 18, !.sliding_window = 2,
        !.max_model_len = 10, !.max_num_batched_tokens = 10,
        !.requests = {Request(8, 2, 1, 0), [Request(5, 5, 1, 0) EXCEPT !.ignore_eos = TRUE]}]

MCConfigs == {Single, Mixed, Parallel, Windowed}

=============================================================================
