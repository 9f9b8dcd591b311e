----------------------------- MODULE MCEngineRpc -----------------------------
(***************************************************************************)
(* The way from vLLM's engine to a caller, for TLC: the engine in a        *)
(* process of its own and its client, and the text of an answer.  The two  *)
(* share no variable, so a property of one of them can be told from the    *)
(* behaviours in which only it moves.                                      *)
(***************************************************************************)
EXTENDS EngineRpc, OutputText
CONSTANTS r1, r2

AllRequests == {r1, r2}
One         == {r1}

AllFaults   == {"reject", "frame", "step", "hang", "kill", "health", "late"}

\* </s>, "a", " a", "ba", and two tokens of one byte: the halves of a character.
MCTokenBytes == << <<5, 5>>, <<1>>, <<Space, 1>>, <<2, 1>>, <<Lead>>, <<Cont>> >>

MCSpecialIds == {1}

\* A prompt shorter and one longer than the tokens that are kept of it.
MCTextPrompts == {<<1, 3>>, <<1, 2, 2, 5, 6>>}

MCParams(stop, include, min_tokens, ignore_eos, stop_token_ids, skip) ==
    [stop |-> stop, include_stop_str_in_output |-> include, min_tokens |-> min_tokens,
     max_tokens |-> 5, ignore_eos |-> ignore_eos, stop_token_ids |-> stop_token_ids,
     skip_special_tokens |-> skip]

\* Stop strings that tokens make in pieces, two of them, one that overlaps itself,
\* one with min_tokens.
MCTextParams ==
    {MCParams(<<>>, FALSE, 0, FALSE, {}, TRUE),
     MCParams(<< <<1, 2>> >>, FALSE, 0, FALSE, {}, FALSE),
     MCParams(<< <<1, Space, 1>>, <<2>> >>, FALSE, 0, FALSE, {2}, TRUE),
     MCParams(<< <<1, 1>> >>, TRUE, 0, TRUE, {}, FALSE),
     MCParams(<< <<2, 1>> >>, FALSE, 2, FALSE, {}, TRUE)}

VARIABLE moves      \* the part that moves

MCVars == <<moves, vars, textVars>>

MCInit ==
    /\ moves \in {"process", "text"}
    /\ Init
    /\ TextInit
    /\ moves # "text" => /\ tokenizer = "ByteLevel" /\ prompt_ids = <<1, 3>>
                         /\ params.stop = <<>>

MCNext ==
    \/ moves = "process" /\ Next /\ UNCHANGED <<moves, textVars>>
    \/ moves = "text" /\ TextNext /\ UNCHANGED <<moves, vars>>

MCSpec == MCInit /\ [][MCNext]_MCVars /\ (moves = "process" => Fairness)
=============================================================================
