-------------------------------- MODULE RunFa --------------------------------
(***************************************************************************)
(* The inference programs inference/native/run_fa.c and run.c from their   *)
(* entry point to the report: load the model, build the prompt, feed it    *)
(* token by token, sample, stop.  Three entry points share the code:       *)
(*   main                  prompt in C, chat() with the clamped steps      *)
(*   with_encode_decode    the same for Python, chat() with max_steps      *)
(*   without_encode_decode tokens from Python, chat_without_encode_decode  *)
(* forward() is Transformer, the tokenizer and the sampler are Tokenizer   *)
(* and Sampler, the model file is Checkpoint.  Time is counted in calls of *)
(* forward(); 0 is the "not set" of the C code, so the clock starts at 1.  *)
(***************************************************************************)
EXTENDS Transformer, Checkpoint, Tokenizer, Sampler

CONSTANTS
  Headers,        (* headers of model files                                *)
  Requests,       (* <<entry, steps or max_steps, temperature, topp>>      *)
  SystemText, UserTexts, TokenPrompts,
  IM_START, IM_END, SYSTEM, USER, ASSISTANT, NL,
  Dist(_)         (* context -> probabilities of the next token            *)

(* topp 0 and TOTAL turn the nucleus off; below a token's even share of     *)
(* TOTAL its cutoff could drop every token.                                 *)
ASSUME RequestsAssumption ==
  \A request \in Requests :
    /\ request[1] \in {"main", "with_encode_decode", "without_encode_decode"}
    /\ request[2] \in Int
    /\ request[4] \in 0 .. TOTAL
    /\ request[4] \in {0, TOTAL} \/ request[4] * Cardinality(Tokens) >= TOTAL

(* The cache is allocated for the layers and positions of the header.       *)
ASSUME HeadersAssumption ==
  \A p \in Headers : WellFormed(p) /\ p.n_layers = N_LAYERS /\ p.seq_len = SEQ_LEN

(* Tokens are 0 .. vocab_size - 1; the byte fallback is among them.         *)
ASSUME TokensAssumption ==
  /\ IsFiniteSet(Tokens) /\ Tokens = 0 .. Cardinality(Tokens) - 1
  /\ DOMAIN Vocab \subseteq Tokens
  /\ {IM_START, IM_END, SYSTEM, USER, ASSISTANT, NL} \subseteq Tokens
  /\ TokenPrompts \subseteq Seq(Tokens) \ {<< >>}
  /\ \A str \in UserTexts \cup {SystemText, BLANK} :
       str \in Seq(0 .. Cardinality(Tokens) - 4)

VARIABLES
  pc, entry, header, weights,
  max_steps,      (* the argument                                          *)
  steps,          (* the limit of the loop that runs                       *)
  temperature, topp,
  text,           (* user_prompt                                           *)
  toks,           (* tokens of the text encode() is working on             *)
  prompt_tokens, pos, token, next,
  start, prefill, (* clock readings, 0 if not set                          *)
  shown,          (* tokens printed or put into gen                        *)
  report          (* tokens and times the throughputs are computed from    *)

settings == <<entry, header, max_steps, temperature, topp, text>>
chatVars == <<prompt_tokens, pos, token, next, start, prefill, shown>>
vars == <<pc, settings, weights, steps, toks, chatVars, report, modelVars>>

Encodes == entry # "without_encode_decode"
n == Len(prompt_tokens)
Now == Len(fed) + 1

NoReport == [prefill |-> 0, decode |-> 0, prefill_time |-> 0, decode_time |-> 0]

ProgramInit ==
  /\ pc = "setup"
  /\ \E request \in Requests :
       /\ entry = request[1] /\ max_steps = request[2]
       /\ temperature = request[3] /\ topp = request[4]
  /\ header \in Headers
  /\ text \in IF Encodes THEN UserTexts ELSE {<< >>}
  /\ weights = << >> /\ steps = 0 /\ toks = << >>
  /\ prompt_tokens = << >> /\ pos = 0 /\ token = 0 /\ next = 0
  /\ start = 0 /\ prefill = 0 /\ shown = << >>
  /\ report = NoReport
  /\ Init
-----------------------------------------------------------------------------
(* mutant: the override is missing. *)
NotClamped(arg, seq_len) == IF arg < 0 THEN 0 ELSE arg

(* "parameter validation/overrides" and "override to ~max length" *)
Clamped(arg, seq_len) ==
  LET s == IF arg < 0 THEN 0 ELSE arg
  IN IF s = 0 \/ s > seq_len THEN seq_len ELSE s

(* run_with_encode_decode computes steps too, and passes max_steps on. *)
Budget ==
  IF entry = "with_encode_decode" THEN max_steps
  ELSE Clamped(max_steps, header.seq_len)

(* build_transformer, build_tokenizer, build_sampler; chat begins: its text *)
(* is spelled, the system prompt first.                                     *)
SetupText ==
  /\ pc = "setup" /\ Encodes
  /\ weights' = read_checkpoint(header).weights
  /\ steps' = Budget
  /\ toks' = Spelled(replace_spaces_with_G(SystemText))
  /\ pc' = "system"
  /\ UNCHANGED <<settings, chatVars, report, modelVars>>

(* The same without a tokenizer; the prompt is the caller's. *)
SetupTokens ==
  /\ pc = "setup" /\ ~Encodes
  /\ weights' = read_checkpoint(header).weights
  /\ steps' = Budget
  /\ prompt_tokens' \in TokenPrompts
  /\ token' = prompt_tokens'[1]
  /\ pc' = "loop"
  /\ UNCHANGED <<settings, toks, pos, next, start, prefill, shown, report, modelVars>>

(* A round of the merge loop of encode. *)
Merge ==
  /\ pc \in {"system", "user"}
  /\ CanMerge(toks)
  /\ toks' = MergeBest(toks)
  /\ UNCHANGED <<pc, settings, weights, steps, chatVars, report, modelVars>>

(* promote_to_token: the template around the two texts. *)
Opening == <<IM_START, SYSTEM, NL>>
Between == <<IM_END, NL, IM_START, USER, NL>>
Closing == <<IM_END, NL, IM_START, ASSISTANT, NL>>

PromoteSystem ==
  /\ pc = "system"
  /\ ~CanMerge(toks)
  /\ prompt_tokens' = Opening \o toks \o Between
  /\ toks' = Spelled(replace_spaces_with_G(text))
  /\ pc' = "user"
  /\ UNCHANGED <<settings, weights, steps, pos, token, next, start, prefill,
                 shown, report, modelVars>>

PromoteUser ==
  /\ pc = "user"
  /\ ~CanMerge(toks)
  /\ prompt_tokens' = prompt_tokens \o toks \o Closing
  /\ token' = prompt_tokens[1]
  /\ pc' = "loop"
  /\ UNCHANGED <<settings, weights, steps, toks, pos, next, start, prefill,
                 shown, report, modelVars>>
-----------------------------------------------------------------------------
(* The head of the loop, to the call of forward. *)
LoopHead ==
  /\ pc = "loop"
  /\ pos < steps
  /\ start' = IF start = 0 THEN Now ELSE start
  /\ Embed(token, pos)
  /\ pc' = "forward"
  /\ UNCHANGED <<settings, weights, steps, toks, prompt_tokens, pos, token,
                 next, prefill, shown, report>>

Forward ==
  /\ pc = "forward"
  /\ \/ Layer /\ UNCHANGED pc
     \/ Classify /\ pc' = "next"
  /\ UNCHANGED <<settings, weights, steps, toks, chatVars, report>>

(* The rest of the prompt is forced, the answer is sampled. *)
NextTokens ==
  IF pos < n - 1 THEN {prompt_tokens[pos + 2]}
  ELSE LET prob == Dist(logits)
       IN UNION {sample(prob, temperature, topp, coin) : coin \in Coins}

(* Mutant of PrefillEnd: the clock runs on into the decode phase.           *)
PrefillEndClockRuns ==
  IF pos + 1 = n THEN prefill' = Now - start /\ start' = start
  ELSE UNCHANGED <<prefill, start>>

PrefillEnd ==
  IF pos + 1 = n THEN prefill' = Now - start /\ start' = 0
  ELSE UNCHANGED <<prefill, start>>

(* chat: the end token is not shown, the last token of the budget is. *)
ChatStop(nxt) ==
  /\ pos + 1 >= n
  /\ nxt = IM_END
  /\ prefill' = IF start # 0 /\ prefill = 0 THEN Now - start ELSE prefill
  /\ pc' = "report"
  /\ UNCHANGED <<start, shown, token>>

ChatGoOn(nxt) ==
  /\ pos + 1 < n \/ nxt # IM_END
  /\ shown' = IF pos + 1 >= n THEN Append(shown, nxt) ELSE shown
  /\ PrefillEnd
  /\ token' = nxt
  /\ pc' = "loop"

(* chat_without_encode_decode: the budget is tested before the token is     *)
(* kept, and the end token is kept.                                         *)
GenStop(nxt) ==
  /\ \/ pos + 1 >= steps /\ UNCHANGED shown
     \/ /\ pos + 1 < steps /\ pos + 1 >= n /\ nxt = IM_END
        /\ shown' = Append(shown, nxt)
  /\ pc' = "report"
  /\ UNCHANGED <<start, prefill, token>>

GenGoOn(nxt) ==
  /\ pos + 1 < steps
  /\ ChatGoOn(nxt)

NextToken ==
  /\ pc = "next"
  /\ \E nxt \in NextTokens :
       /\ next' = nxt
       /\ IF Encodes THEN ChatStop(nxt) \/ ChatGoOn(nxt)
          ELSE GenStop(nxt) \/ GenGoOn(nxt)
  /\ pos' = pos + 1
  /\ UNCHANGED <<settings, weights, steps, toks, prompt_tokens, report, modelVars>>

(* Mutant of LoopEnd: the limit is off by one. *)
LoopEndPastSteps ==
  /\ pc = "loop"
  /\ pos > steps
  /\ pc' = "report"
  /\ UNCHANGED <<settings, weights, steps, toks, chatVars, report, modelVars>>

LoopEnd ==
  /\ pc = "loop"
  /\ pos >= steps
  /\ pc' = "report"
  /\ UNCHANGED <<settings, weights, steps, toks, chatVars, report, modelVars>>

(* The throughputs are prefill/prefill_time and decode/decode_time.  *)
Reported(decode_time) ==
  report' = IF pos > 1
            THEN [prefill |-> n, decode |-> pos - n,
                  prefill_time |-> prefill, decode_time |-> decode_time]
            ELSE NoReport

(* chat guards against a clock that is not running. *)
ChatReport ==
  /\ pc = "report" /\ Encodes
  /\ Reported(IF start = 0 THEN 1 ELSE Now - start)
  /\ pc' = "done"
  /\ UNCHANGED <<settings, weights, steps, toks, chatVars, modelVars>>

GenReport ==
  /\ pc = "report" /\ ~Encodes
  /\ Reported(Now - start)
  /\ pc' = "done"
  /\ UNCHANGED <<settings, weights, steps, toks, chatVars, modelVars>>

ProgramNext ==
  SetupText \/ SetupTokens \/ Merge \/ PromoteSystem \/ PromoteUser
    \/ LoopHead \/ Forward \/ NextToken \/ LoopEnd \/ ChatReport \/ GenReport

(* A single thread that nothing blocks.  The second conjunct is the weak    *)
(* fairness of the statements that are possible whenever it is at them.     *)
Fairness ==
  /\ WF_vars(LoopHead \/ LoopEnd \/ ChatReport \/ GenReport)
  /\ \/ []<>(pc \notin {"setup", "system", "user", "forward", "next"})
     \/ []<><<ProgramNext>>_vars

ProgramSpec == ProgramInit /\ [][ProgramNext]_vars /\ Fairness
-----------------------------------------------------------------------------
(* Every tensor is read from where the exporter wrote it, for shared and    *)
(* separate classifiers, with biases, whatever the dimensions.              *)
WeightsInPlace ==
  pc # "setup" =>
    LET written == Placed(ExportedPieces(header))
    IN /\ \A name \in DOMAIN written : weights[name] = written[name]
       /\ SharedWeights(header) =>
            weights["wcls"] = written["token_embedding_table"]

(* A text that is encoded, through code points, merged pairs and triples,   *)
(* and the blank's two bytes, decodes to itself at every round of merging,  *)
(* when the vocabulary spells it.                                           *)
RoundTrip ==
  pc \notin {"setup", "system"} /\ Encodes /\ Spellable(text) =>
    FlattenSeq([k \in DOMAIN toks |-> decode(toks[k])]) = text

(* A sampled token is one of the nucleus the comment of sample_topp defines *)
(* (the smallest set of tokens that exceeds topp), though tokens below the  *)
(* cutoff are cropped before the sort and equal ones may come in any order. *)
NucleusOnly ==
  [][pc = "next" /\ pos >= n - 1 /\ temperature # 0 /\ topp \notin {0, TOTAL}
       => next' \in Nucleus(Dist(logits), topp)]_vars

(* The program calls forward() the way Transformer relies on: positions in  *)
(* order, as many as the cache has rows.                                    *)
CallsInOrder == [][Next]_modelVars

(* The times of the report are those of its tokens: the prefill throughput  *)
(* is over the calls that fed the prompt and the decode throughput over the *)
(* calls that fed the answer.                                               *)
ThroughputOfItsPhase ==
  pc = "done" /\ report.decode > 0 =>
    /\ report.prefill_time = report.prefill
    /\ report.decode_time = report.decode

Likely(context) == {t \in DOMAIN Dist(context) : Dist(context)[t] > 0}

Answer == INSTANCE Generation WITH
  EndToken <- IM_END,
  prompt <- IF pc \in {"setup", "system", "user"} THEN << >> ELSE prompt_tokens,
  room <- IF pc \in {"setup", "system", "user"} THEN 0 ELSE steps,
  answer <- shown,
  over <- pc \in {"report", "done"}

(* The programs implement Generation: every token shown is a continuation   *)
(* of the prompt and all that was shown before, and the answer ends only at *)
(* the end token or at the limit.                                           *)
ImplementsGeneration == Answer!Spec

(* Every run comes to its report. *)
ProgramEnds == <>(pc = "done")
=============================================================================
