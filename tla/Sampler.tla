------------------------------ MODULE Sampler ------------------------------
(***************************************************************************)
(* The sampler of run_fa.c: from the probabilities of all tokens to the    *)
(* next token.  A probability is a number of TOTAL-ths, topp likewise, the *)
(* coin a number of COINS-ths; the sums are exact, where the C code adds   *)
(* floats.  Tokens are 0 .. n-1, the domain of prob.                       *)
(***************************************************************************)
EXTENDS Naturals, Sequences, FiniteSets, FiniteSetsExt, Functions, SequencesExt

CONSTANTS TOTAL, COINS

ASSUME SamplerAssumption == TOTAL \in Nat \ {0} /\ COINS \in Nat \ {0}

(* The running sums over the tokens of order. *)
Cdf(prob, order) ==
  LET cdf[k \in 0 .. Len(order)] ==
        IF k = 0 THEN 0 ELSE cdf[k - 1] + prob[order[k]]
  IN cdf

(* The first position of order at which the running sum exceeds a bound,    *)
(* which is given times COINS; the last one if there is none.               *)
FirstAbove(prob, order, bound) ==
  LET cdf == Cdf(prob, order)
      above == {k \in DOMAIN order : cdf[k] * COINS > bound}
  IN IF above = {} THEN Len(order) ELSE Min(above)

(* random_f32 *)
Coins == 0 .. COINS - 1

InOrder(prob) == [k \in 1 .. Cardinality(DOMAIN prob) |-> k - 1]
-----------------------------------------------------------------------------
(* The most probable token, the first of several. *)
sample_argmax(prob) ==
  CHOOSE i \in DOMAIN prob : \A j \in DOMAIN prob :
    prob[j] < prob[i] \/ (prob[j] = prob[i] /\ i <= j)

(* Mutant of sample_mult: coin <= cdf for coin < cdf. *)
sample_mult_at(prob, coin) ==
  LET cdf == Cdf(prob, InOrder(prob))
  IN Min({k \in DOMAIN prob : cdf[k + 1] * COINS >= coin * TOTAL})

sample_mult(prob, coin) ==
  LET order == InOrder(prob)
  IN order[FirstAbove(prob, order, coin * TOTAL)]

(* The candidates: (1 - topp) / (n - 1) and above. *)
Candidates(prob, topp) ==
  {i \in DOMAIN prob :
     prob[i] * (Cardinality(DOMAIN prob) - 1) >= TOTAL - topp}

(* qsort may leave equal probabilities in any order. *)
Descending(prob, S) ==
  {order \in SetToSeqs(S) :
     \A k \in 1 .. Len(order) - 1 : prob[order[k]] >= prob[order[k + 1]]}

(* Mutant of Truncated: the list is not cut where it exceeds topp. *)
NotTruncated(prob, order, topp) == order

Truncated(prob, order, topp) ==
  SubSeq(order, 1, FirstAbove(prob, order, topp * COINS))

(* The tokens sample_topp may return: one for each order of the sort. *)
sample_topp(prob, topp, coin) ==
  {LET kept == Truncated(prob, order, topp)
       r == coin * Cdf(prob, kept)[Len(kept)]
   IN kept[FirstAbove(prob, kept, r)]
     : order \in Descending(prob, Candidates(prob, topp))}

(* temperature: 0 is greedy; another one flattens or sharpens prob, which   *)
(* the model takes as given by softmax.                                     *)
sample(prob, temperature, topp, coin) ==
  IF temperature = 0 THEN {sample_argmax(prob)}
  ELSE IF topp = 0 \/ topp = TOTAL THEN {sample_mult(prob, coin)}
  ELSE sample_topp(prob, topp, coin)
-----------------------------------------------------------------------------
(* What the comment of sample_topp promises: a token of the smallest set of *)
(* tokens, taken from the most probable down, that exceeds topp.            *)
Nucleus(prob, topp) ==
  {i \in DOMAIN prob :
     FoldFunctionOnSet(+, 0, prob, {j \in DOMAIN prob : prob[j] > prob[i]})
       <= topp}
=============================================================================
