------------------------------ MODULE Attention ------------------------------
(***************************************************************************)
(* The attention of one layer at one position, all heads in parallel       *)
(* (omp parallel for), in the two programs that compute it differently:    *)
(*                                                                         *)
(*   run_fa   flash_attention_forward: every head makes one pass over the  *)
(*            keys in buffers of its own (fa_core_q8_8, flash_attn.c)      *)
(*   runperf  every head scores all keys into its slice of the shared      *)
(*            buffer att, turns it into weights, adds up the values        *)
(*                                                                         *)
(* Arithmetic is symbolic: a sum of terms exp(e) * v is the function from  *)
(* v (or its key) to e, multiplying the sum by exp(f) adds f to every e.   *)
(* Scores are integers, quantisation is left out.                          *)
(***************************************************************************)
EXTENDS Integers

CONSTANTS N_HEADS, KV_MUL, SEQ_LEN, Scores, Programs

ASSUME AttentionAssumption ==
  /\ N_HEADS \in Nat \ {0} /\ KV_MUL \in Nat \ {0} /\ SEQ_LEN \in Nat \ {0}
  /\ Scores \subseteq Int /\ Scores # {}
  /\ Programs \subseteq {"run_fa", "runperf"}

Heads == 0 .. N_HEADS - 1

VARIABLES
  program, pos,
  score,     (* head -> key position -> the dot product of q and k, scaled *)
  pc,        (* head -> where its iteration of the parallel loop is        *)
  t,         (* head -> loop variable                                      *)
  m_prev,    (* head -> largest score so far                               *)
  l_prev,    (* head -> the denominator                                    *)
  O,         (* head -> the numerator: O_float, or the slice of xb         *)
  att,       (* cell of the shared buffer -> score or weight               *)
  xb         (* head -> what the layer goes on with                        *)

vars == <<program, pos, score, pc, t, m_prev, l_prev, O, att, xb>>

Unset == << >>
Nothing == [v \in {} |-> 0]

(* The value vector at position k that head h reads. *)
Row(h, k) == <<k, h \div KV_MUL>>

(* Mutant of Cell: slices as long as the sequence is now, less one. *)
CellShort(h, k) == h * pos + k

(* att + h * seq_len, indexed by the position. *)
Cell(h, k) == h * SEQ_LEN + k

Init ==
  /\ program \in Programs
  /\ pos \in 0 .. SEQ_LEN - 1
  /\ score \in [Heads -> [0 .. pos -> Scores]]
  /\ pc = [h \in Heads |-> IF program = "run_fa" THEN "fold" ELSE "score"]
  /\ t = [h \in Heads |-> 0]
  /\ m_prev = [h \in Heads |-> 0]
  /\ l_prev = [h \in Heads |-> Nothing]
  /\ O = [h \in Heads |-> Nothing]
  /\ att = [c \in 0 .. N_HEADS * SEQ_LEN - 1 |-> 0]
  /\ xb = [h \in Heads |-> Unset]
-----------------------------------------------------------------------------
(* A sum times exp(f), plus the term exp(e) * v. *)
Rescaled(sum, f, v, e) ==
  [w \in DOMAIN sum \cup {v} |-> IF w = v THEN e ELSE sum[w] + f]

(* -1e20 is below every score; there is nothing to rescale then. *)
m_curr(h) ==
  IF t[h] = 0 \/ score[h][t[h]] > m_prev[h] THEN score[h][t[h]] ELSE m_prev[h]

(* Mutant of Fold: the denominator is not rescaled. *)
FoldNumeratorOnly(h) ==
  /\ pc[h] = "fold" /\ t[h] <= pos
  /\ LET factor == m_prev[h] - m_curr(h)
         exp_val == score[h][t[h]] - m_curr(h)
     IN /\ l_prev' = [l_prev EXCEPT ![h] = Rescaled(@, 0, t[h], exp_val)]
        /\ O' = [O EXCEPT ![h] = Rescaled(@, factor, Row(h, t[h]), exp_val)]
  /\ m_prev' = [m_prev EXCEPT ![h] = m_curr(h)]
  /\ t' = [t EXCEPT ![h] = @ + 1]
  /\ UNCHANGED <<program, pos, score, pc, att, xb>>

(* One key in the loop of fa_core_q8_8. *)
Fold(h) ==
  /\ pc[h] = "fold" /\ t[h] <= pos
  /\ LET factor == m_prev[h] - m_curr(h)
         exp_val == score[h][t[h]] - m_curr(h)
     IN /\ l_prev' = [l_prev EXCEPT ![h] = Rescaled(@, factor, t[h], exp_val)]
        /\ O' = [O EXCEPT ![h] = Rescaled(@, factor, Row(h, t[h]), exp_val)]
  /\ m_prev' = [m_prev EXCEPT ![h] = m_curr(h)]
  /\ t' = [t EXCEPT ![h] = @ + 1]
  /\ UNCHANGED <<program, pos, score, pc, att, xb>>

(* Mutant of FoldEnd: the loop is over only at the end of the cache. *)
FoldEndOfCache(h) ==
  /\ pc[h] = "fold" /\ t[h] > SEQ_LEN - 1
  /\ pc' = [pc EXCEPT ![h] = "join"]
  /\ UNCHANGED <<program, pos, score, t, m_prev, l_prev, O, att, xb>>

(* Final normalize: the head's iteration ends. *)
FoldEnd(h) ==
  /\ pc[h] = "fold" /\ t[h] > pos
  /\ pc' = [pc EXCEPT ![h] = "join"]
  /\ UNCHANGED <<program, pos, score, t, m_prev, l_prev, O, att, xb>>
-----------------------------------------------------------------------------
(* runperf: one score into the buffer. *)
Score(h) ==
  /\ pc[h] = "score" /\ t[h] <= pos
  /\ att' = [att EXCEPT ![Cell(h, t[h])] = score[h][t[h]]]
  /\ t' = [t EXCEPT ![h] = @ + 1]
  /\ UNCHANGED <<program, pos, score, pc, m_prev, l_prev, O, xb>>

(* softmax(att, pos + 1): the largest, exp and sum, divide. *)
Softmax(h) ==
  /\ pc[h] = "score" /\ t[h] > pos
  /\ \E k \in 0 .. pos :
       /\ \A j \in 0 .. pos : att[Cell(h, j)] <= att[Cell(h, k)]
       /\ m_prev' = [m_prev EXCEPT ![h] = att[Cell(h, k)]]
  /\ l_prev' = [l_prev EXCEPT ![h] =
                  [j \in 0 .. pos |-> att[Cell(h, j)] - m_prev'[h]]]
  /\ att' = [c \in DOMAIN att |->
               IF \E j \in 0 .. pos : c = Cell(h, j) THEN att[c] - m_prev'[h]
               ELSE att[c]]
  /\ t' = [t EXCEPT ![h] = 0]
  /\ pc' = [pc EXCEPT ![h] = "sum"]
  /\ UNCHANGED <<program, pos, score, O, xb>>

(* One value into the weighted sum. *)
Sum(h) ==
  /\ pc[h] = "sum" /\ t[h] <= pos
  /\ O' = [O EXCEPT ![h] = Rescaled(@, 0, Row(h, t[h]), att[Cell(h, t[h])])]
  /\ t' = [t EXCEPT ![h] = @ + 1]
  /\ UNCHANGED <<program, pos, score, pc, m_prev, l_prev, att, xb>>

SumEnd(h) ==
  /\ pc[h] = "sum" /\ t[h] > pos
  /\ pc' = [pc EXCEPT ![h] = "join"]
  /\ UNCHANGED <<program, pos, score, t, m_prev, l_prev, O, att, xb>>
-----------------------------------------------------------------------------
(* The end of the parallel loop waits for all heads. *)
Join ==
  /\ \A h \in Heads : pc[h] = "join"
  /\ xb' = [h \in Heads |-> [num |-> O[h], den |-> l_prev[h]]]
  /\ pc' = [h \in Heads |-> "done"]
  /\ UNCHANGED <<program, pos, score, t, m_prev, l_prev, O, att>>

Head(h) == Fold(h) \/ FoldEnd(h) \/ Score(h) \/ Softmax(h) \/ Sum(h) \/ SumEnd(h)

Next == Join \/ \E h \in Heads : Head(h)

(* Every thread of the team runs. *)
Spec ==
  /\ Init /\ [][Next]_vars
  /\ WF_vars(Join) /\ \A h \in Heads : WF_vars(Head(h))
-----------------------------------------------------------------------------
(* The weights of a softmax over scores s: exponents taken from the largest.*)
IsSoftmax(w, s) ==
  \E k \in DOMAIN s :
    /\ \A j \in DOMAIN s : s[j] <= s[k]
    /\ w = [j \in DOMAIN s |-> s[j] - s[k]]

(* Both programs compute softmax attention for every head: the weights of   *)
(* the numerator and of the denominator are those of the scores of this     *)
(* head, over all positions up to pos, and the values are those of the key  *)
(* and value head its group shares.  One pass over the keys and three       *)
(* passes over a shared buffer agree.                                       *)
AttentionIsSoftmax ==
  \A h \in Heads : xb[h] # Unset =>
    /\ IsSoftmax(xb[h].den, score[h])
    /\ xb[h].num = [r \in {Row(h, k) : k \in 0 .. pos} |-> xb[h].den[r[1]]]

(* What a head keeps in the shared buffer stays while it does not move: no  *)
(* other head touches it.                                                   *)
SlicesApart ==
  [][\A h \in Heads : t'[h] = t[h] /\ pc'[h] = pc[h] =>
       \A k \in 0 .. pos : att'[h * SEQ_LEN + k] = att[h * SEQ_LEN + k]]_vars

(* The layer goes on. *)
AttentionEnds == <>(\A h \in Heads : xb[h] # Unset)
=============================================================================
