----------------------------- MODULE OutputText -----------------------------
(***************************************************************************)
(* From sampled tokens to text: Detokenizer.decode_sequence_inplace, which *)
(* decodes a token at a time, StopChecker.maybe_stop_sequence, and what a  *)
(* stream is sent of the text.  One sequence; its prompt, its sampling     *)
(* parameters and its tokenizer are chosen at the start.                   *)
(*                                                                         *)
(* A token is a sequence of bytes.  Text is a sequence of characters: one- *)
(* byte characters and the space are their own bytes, Lead and Cont        *)
(* together are Wide, and what is no character becomes Bad (U+FFFD).       *)
(***************************************************************************)
EXTENDS Integers, Sequences, SequencesExt

CONSTANTS
    TokenBytes,     \* the bytes of each token id
    SpecialIds,     \* ids of special tokens
    EosId,
    TextPrompts,    \* prompts, as token ids
    TextParams,     \* sampling parameters
    TextModelLen,   \* max_model_len
    InitialOffset   \* INITIAL_INCREMENTAL_DETOKENIZATION_OFFSET

Bad == 0
Wide == 3
Space == 4
Lead == 8
Cont == 9

TokenIds == DOMAIN TokenBytes

ASSUME TextAssumption ==
    /\ TokenBytes \in [TokenIds -> Seq(Nat)]
    /\ EosId \in SpecialIds /\ SpecialIds \subseteq TokenIds
    /\ TextPrompts \subseteq Seq(TokenIds)
    /\ InitialOffset \in Nat \ {0} /\ TextModelLen \in Nat
    \* SamplingParams._verify_args
    /\ \A p \in TextParams : /\ p.min_tokens \in Nat /\ p.max_tokens \in Nat \ {0}
                             /\ p.min_tokens <= p.max_tokens
                             /\ p.stop \in Seq(Seq(Nat) \ {<<>>})
                             /\ p.skip_special_tokens \in BOOLEAN

VARIABLES
    tokenizer,      \* how convert_tokens_to_string works
    params,         \* SamplingParams
    prompt_ids,     \* the prompt
    output_ids,     \* sampled so far
    tokens,         \* Sequence.tokens
    prefix_offset,
    read_offset,
    output_text,
    sent,           \* what the stream has been given: delta is from there
    text_status     \* SequenceStatus

textVars == <<tokenizer, params, prompt_ids, output_ids, tokens, prefix_offset,
              read_offset, output_text, sent, text_status>>

-----------------------------------------------------------------------------
(* convert_tokens_to_string.  ByteLevel: what is no UTF-8 is replaced,     *)
(* piece by piece.  SentencePiece: a run of byte tokens that is not valid  *)
(* as a whole is replaced byte by byte, and the first space goes.          *)
ByteChars(lead, x) ==
    CASE x = Lead -> IF lead THEN <<Bad>> ELSE <<>>
      [] x = Cont -> IF lead THEN <<Wide>> ELSE <<Bad>>
      [] OTHER    -> IF lead THEN <<Bad, x>> ELSE <<x>>

ByteLevelStep(acc, x) ==
    [text |-> acc.text \o ByteChars(acc.lead, x), lead |-> x = Lead]

FlushLead(acc) == IF acc.lead THEN Append(acc.text, Bad) ELSE acc.text

ByteLevel(bytes) ==
    LET read[k \in 0 .. Len(bytes)] == IF k = 0 THEN [text |-> <<>>, lead |-> FALSE]
                                       ELSE ByteLevelStep(read[k - 1], bytes[k])
    IN  FlushLead(read[Len(bytes)])

IsUtf8(run) ==
    /\ Len(run) % 2 = 0
    /\ \A i \in DOMAIN run : run[i] = IF i % 2 = 1 THEN Lead ELSE Cont

FlushRun(acc) ==
    acc.text \o (IF IsUtf8(acc.run) THEN [i \in 1 .. Len(acc.run) \div 2 |-> Wide]
                 ELSE [i \in DOMAIN acc.run |-> Bad])

ByteFallbackStep(acc, x) ==
    IF x \in {Lead, Cont} THEN [acc EXCEPT !.run = Append(@, x)]
    ELSE [text |-> Append(FlushRun(acc), x), run |-> <<>>]

WithoutFirstSpace(text) == IF text # <<>> /\ Head(text) = Space THEN Tail(text) ELSE text

SentencePiece(bytes) ==
    LET read[k \in 0 .. Len(bytes)] == IF k = 0 THEN [text |-> <<>>, run |-> <<>>]
                                       ELSE ByteFallbackStep(read[k - 1], bytes[k])
    IN  WithoutFirstSpace(FlushRun(read[Len(bytes)]))

convert_tokens_to_string(ts) ==
    IF tokenizer = "ByteLevel" THEN ByteLevel(FlattenSeq(ts)) ELSE SentencePiece(FlattenSeq(ts))

(* convert_ids_to_tokens *)
ToTokens(ids, skip_special_tokens) ==
    FlattenSeq([k \in DOMAIN ids |-> IF skip_special_tokens /\ ids[k] \in SpecialIds
                                     THEN <<>> ELSE <<TokenBytes[ids[k]]>>])

\* A prompt is text: it does not end in half a character.
EndsHalf(bytes) == bytes # <<>> /\ Last(bytes) = Lead

ASSUME PromptAssumption ==
    \A ids \in TextPrompts, skip \in BOOLEAN : ~EndsHalf(FlattenSeq(ToTokens(ids, skip)))

LastOf(s, n) == SubSeq(s, IF Len(s) > n THEN Len(s) - n + 1 ELSE 1, Len(s))

(* convert_prompt_ids_to_tokens: only the end of the prompt. *)
PromptTokens(ids, skip) == ToTokens(LastOf(ids, InitialOffset + 2), skip)

TextInit ==
    /\ tokenizer \in {"ByteLevel", "SentencePiece"}
    /\ params \in TextParams
    /\ prompt_ids \in TextPrompts
    /\ output_ids = <<>>
    /\ tokens = PromptTokens(prompt_ids, params.skip_special_tokens)
    /\ read_offset = Len(tokens)
    /\ prefix_offset = IF Len(tokens) > InitialOffset THEN Len(tokens) - InitialOffset ELSE 0
    /\ output_text = <<>> /\ sent = <<>>
    /\ text_status = "RUNNING"

-----------------------------------------------------------------------------
EndsBad(text) == text # <<>> /\ Last(text) = Bad

MutantNewText(ts) ==
    LET prefix_text == convert_tokens_to_string(SubSeq(ts, prefix_offset + 1, read_offset))
        new_text == convert_tokens_to_string(SubSeq(ts, prefix_offset + 1, Len(ts)))
    IN  IF Len(new_text) <= Len(prefix_text) THEN <<>>
        ELSE SubSeq(new_text, Len(prefix_text) + 1, Len(new_text))

(* detokenize_incrementally: the text that the tokens after read_offset    *)
(* add to those before, nothing while it may end in half a character.      *)
NewText(ts) ==
    LET prefix_text == convert_tokens_to_string(SubSeq(ts, prefix_offset + 1, read_offset))
        new_text == convert_tokens_to_string(SubSeq(ts, prefix_offset + 1, Len(ts)))
    IN  IF Len(new_text) <= Len(prefix_text) \/ EndsBad(new_text) THEN <<>>
        ELSE SubSeq(new_text, Len(prefix_text) + 1, Len(new_text))

(* str.find from start on, as an index from 0; -1 for none.  A negative    *)
(* start counts from the end.                                              *)
find(text, str, start) ==
    LET from == IF start >= 0 THEN start ELSE IF Len(text) + start < 0 THEN 0 ELSE Len(text) + start
        at == {i \in from .. Len(text) - Len(str) : SubSeq(text, i + 1, i + Len(str)) = str}
    IN  IF at = {} THEN -1 ELSE CHOOSE i \in at : \A j \in at : i <= j

(* _check_stop_strings: the first string of the list that is found in what *)
(* is new, or in as much before it as the string is long.                  *)
Found(text, new_chars) ==
    {k \in DOMAIN params.stop :
        new_chars > 0 /\ find(text, params.stop[k], -new_chars - Len(params.stop[k])) # -1}

FirstFound(text, new_chars) ==
    params.stop[CHOOSE k \in Found(text, new_chars) : \A j \in Found(text, new_chars) : k <= j]

StopIndex(text, new_chars, str) ==
    find(text, str, -new_chars - Len(str))
        + (IF params.include_stop_str_in_output THEN Len(str) ELSE 0)

CutEnd(text, n) == SubSeq(text, 1, Len(text) - n)

(* maybe_stop_sequence: the text and the status afterwards. *)
MaybeStop(ids, text, new_chars) ==
    IF Len(ids) < params.min_tokens THEN [text |-> text, status |-> "RUNNING"]
    ELSE IF (~params.ignore_eos /\ Last(ids) = EosId) \/ Last(ids) \in params.stop_token_ids
    THEN [text |-> IF params.include_stop_str_in_output THEN text ELSE CutEnd(text, new_chars),
          status |-> "STOPPED"]
    ELSE IF Found(text, new_chars) # {}
    THEN [text |-> SubSeq(text, 1, StopIndex(text, new_chars, FirstFound(text, new_chars))),
          status |-> "STRING"]
    ELSE [text |-> text,
          status |-> IF Len(prompt_ids \o ids) > TextModelLen \/ Len(ids) = params.max_tokens
                     THEN "LENGTH" ELSE "RUNNING"]

(* output_text_buffer_length: held back while a stop string may come. *)
BufferLength ==
    IF params.stop = <<>> \/ params.include_stop_str_in_output THEN 0
    ELSE (CHOOSE n \in {Len(params.stop[i]) : i \in DOMAIN params.stop} :
            \A i \in DOMAIN params.stop : Len(params.stop[i]) <= n) - 1

(* get_output_text_to_return with delta: what goes out, after what went    *)
(* out before.                                                             *)
Delta(text, status) ==
    SubSeq(text, Len(sent) + 1, Len(text) - (IF status = "RUNNING" THEN BufferLength ELSE 0))

(* One sampled token.  The sampler gives no end of sequence before         *)
(* min_tokens.                                                             *)
AppendToken(id) ==
    /\ text_status = "RUNNING"
    /\ Len(output_ids) < params.min_tokens => id \notin {EosId} \cup params.stop_token_ids
    /\ output_ids' = Append(output_ids, id)
    /\ tokens' = tokens \o ToTokens(<<id>>, params.skip_special_tokens)
    /\ \E new \in {NewText(tokens')} :
        /\ IF new = <<>> THEN UNCHANGED <<prefix_offset, read_offset>>
           ELSE prefix_offset' = read_offset /\ read_offset' = Len(tokens')
        /\ \E s \in {MaybeStop(output_ids', output_text \o new, Len(new))} :
            /\ output_text' = s.text
            /\ text_status' = s.status
            /\ sent' = sent \o Delta(s.text, s.status)
    /\ UNCHANGED <<tokenizer, params, prompt_ids>>

TextNext == \E id \in TokenIds : AppendToken(id)

TextSpec == TextInit /\ [][TextNext]_textVars

-----------------------------------------------------------------------------
(* Types of the offsets, the tokens and the text. *)
TextTypeOK ==
    /\ output_ids \in Seq(TokenIds) /\ Len(output_ids) <= params.max_tokens
    /\ prefix_offset \in 0 .. read_offset /\ read_offset \in 0 .. Len(tokens)
    /\ text_status \in {"RUNNING", "STOPPED", "STRING", "LENGTH"}

(* The text of the output as one decoding of everything gives it. *)
WholeText(ids) == convert_tokens_to_string(ToTokens(ids, params.skip_special_tokens))

Generated == SubSeq(WholeText(prompt_ids \o output_ids), Len(WholeText(prompt_ids)) + 1,
                    Len(WholeText(prompt_ids \o output_ids)))

(* Decoding a token at a time gives the text that decoding all at once     *)
(* gives: no space is lost where two tokens meet, no character is cut in   *)
(* two, and nothing is held back but what may still become a character.    *)
(* With SentencePiece, for outputs without invalid bytes.                  *)
Decodable == tokenizer = "ByteLevel" \/ \A i \in 1 .. Len(Generated) - 1 : Generated[i] # Bad

DecodedAsOne ==
    text_status = "RUNNING" /\ Decodable =>
        IF EndsBad(Generated) THEN IsPrefix(output_text, Generated) ELSE output_text = Generated

(* A stream is never sent what is cut off later, and in the end has been   *)
(* sent all: the characters held back are enough for every stop string.    *)
(* (With min_tokens they are not.)                                         *)
SentIsFinal ==
    params.min_tokens = 0 =>
        /\ IsPrefix(sent, output_text)
        /\ text_status # "RUNNING" => sent = output_text

HasString(text, str) == find(text, str, 0) # -1

(* No stop string is missed, also one that comes in pieces: it is not in   *)
(* the text of a sequence that goes on, and the text that it ended, is cut *)
(* at its first occurrence.                                                *)
NoStopIsMissed ==
    params.min_tokens = 0 =>
        /\ text_status \in {"RUNNING", "LENGTH"} =>
                \A i \in DOMAIN params.stop : ~HasString(output_text, params.stop[i])
        /\ text_status = "STRING" /\ Len(params.stop) = 1 =>
                LET str == params.stop[1]
                IN  find(output_text, str, 0) = IF params.include_stop_str_in_output
                                                THEN Len(output_text) - Len(str) ELSE -1

\* The text is that of the tokens, cut at the first stop string and nowhere else,
\* and a stream gets all of it and nothing more.
TextIsRight ==
    /\ TextTypeOK
    /\ DecodedAsOne
    /\ SentIsFinal
    /\ NoStopIsMissed
=============================================================================
