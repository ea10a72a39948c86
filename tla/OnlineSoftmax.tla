---------------------------- MODULE OnlineSoftmax ----------------------------
(***************************************************************************)
(* online_rtl_like of the C++ reference model                              *)
(* (cmodel/csrc/attention_kernels.cpp): attention tile by tile, one key at *)
(* a time into the state of its row, in the integer modes; and the copy of *)
(* that loop in run_stage_decomposition (attention_experiment.cpp), mode   *)
(* "STAGE" here.  The modes that compute in float are left out.            *)
(***************************************************************************)
EXTENDS FixedPoint

CONSTANT D

ASSUME OnlineSoftmaxAssumption == D \in Nat \ {0}

VARIABLES
  cfg,             (* the settings: S, TQ, TK, causal, hard_mask, neg_large *)
  mats,            (* Q, K, V: row -> column -> Q8.8, from 0                *)
  mode,
  kpc,             (* "idle", or where in the function                      *)
  qt, kt, qi, kj,
  row,             (* row of the tile -> [m, l, acc]                        *)
  O

loopVars == <<qt, kt, qi, kj>>
kernelVars == <<mode, kpc, loopVars, row, O>>

Columns == 0 .. D - 1
CtxModes == {"RTL_CTX_STEP", "RTL_CTX_STEP_ACC24", "RTL_CTX_INTERP",
             "RTL_CTX_PWL", "RTL_CTX_REAL_EXP"}
HiAccModes == {"FIXED_HIACC_QOUT", "FIXED_HIACC_REAL_EXP_QOUT"}
PwlModes == {"RTL_STRICT", "RTL_CTX_PWL", "RTL_EXACT", "FIXED_HIACC_QOUT"}
-----------------------------------------------------------------------------
(* 256/sqrt(D), to the nearest. *)
scale_q8_8 ==
  CHOOSE s \in 1 .. 256 :
    (2 * s - 1) * (2 * s - 1) * D < 4 * 65536 /\ 4 * 65536 <= (2 * s + 1) * (2 * s + 1) * D

(* Bits 8 to 23 of the dot product, as a signed number, times the scale.    *)
ScoreOf(m, i, j) ==
  q8_8_mul_sat(
    Wrap16(FoldFunction(+, 0, [d \in Columns |-> m.Q[i][d] * m.K[j][d]]) \div 256),
    scale_q8_8)

ExpOf(md, x) ==
  CASE md \in PwlModes -> exp_pwl_q1_15(x)
    [] md \in {"RTL_CTX_STEP", "RTL_CTX_STEP_ACC24"} -> exp2_ctx_step_q1_15(x)
    [] md = "RTL_CTX_INTERP" -> exp2_ctx_interp_q1_15(x)
    [] OTHER -> exp_real_q1_15(x)

(* (x * e) >> 15 *)
Scaled(x, e) == (x \div 32768) * e + ((x % 32768) * e) \div 32768

(* The value with its weight: a 64-bit sum of e * v << 1, or a 32-bit sum   *)
(* of e * v >> 7.  Neither overflows: a key adds at most 2^31 or 2^23.      *)
Term(md, e, v) ==
  IF md \in {"RTL_STRICT"} \cup HiAccModes THEN e * v * 2 ELSE (e * v) \div 128

(* Mutant of Folded: the sum of the values is not rescaled. *)
FoldedUnscaled(md, r, score, v) ==
  LET m_new == IF score > r.m THEN score ELSE r.m
      exp_old == ExpOf(md, Wrap16(r.m - m_new))
      exp_new == ExpOf(md, Wrap16(score - m_new))
  IN [m |-> m_new, l |-> Scaled(r.l, exp_old) + 2 * exp_new,
      acc |-> [d \in Columns |-> r.acc[d] + Term(md, exp_new, v[d])]]

(* One key into the state of a row. *)
Folded(md, r, score, v) ==
  LET m_new == IF score > r.m THEN score ELSE r.m
      exp_old == ExpOf(md, Wrap16(r.m - m_new))
      exp_new == ExpOf(md, Wrap16(score - m_new))
  IN [m |-> m_new, l |-> Scaled(r.l, exp_old) + 2 * exp_new,
      acc |-> [d \in Columns |-> Scaled(r.acc[d], exp_old) + Term(md, exp_new, v[d])]]

(* The output of a row.  In the mode ACC24 acc is shifted left by 8.        *)
Normalized(md, r) ==
  LET Out(acc) ==
        CASE md \in HiAccModes -> div_round_sat_s16(acc, r.l)
          [] md = "RTL_CTX_STEP_ACC24" ->
               RoundedProduct(acc \div 128, (acc % 128) * 256, recip_nr_rtl_q16_16(r.l))
          [] md \in {"RTL_STRICT"} \cup CtxModes ->
               RoundedProduct(acc \div 32768, acc % 32768, recip_nr_rtl_q16_16(r.l))
          [] OTHER ->
               TruncatedProduct(acc \div 32768, acc % 32768, recip_q16_16(r.l))
  IN [d \in Columns |-> Out(r.acc[d])]

NewRow == [m |-> cfg.neg_large, l |-> 0, acc |-> [d \in Columns |-> 0]]

(* Mutant of StageFolded: the older sum is rounded towards zero. *)
StageFoldedTowardsZero(r, score, v) ==
  LET m_new == IF score > r.m THEN score ELSE r.m
      exp_old == exp_pwl_q1_15(Wrap16(r.m - m_new))
      exp_new == exp_pwl_q1_15(Wrap16(score - m_new))
      Kept(x) == IF x >= 0 THEN Scaled(x, exp_old) ELSE -Scaled(-x, exp_old)
  IN [m |-> m_new, l |-> Scaled(r.l, exp_old) + 2 * exp_new,
      acc |-> [d \in Columns |-> Kept(r.acc[d]) + (exp_new * v[d]) \div 128]]

(* The integer side of the loop of run_stage_decomposition. *)
StageFolded(r, score, v) ==
  LET m_new == IF score > r.m THEN score ELSE r.m
      exp_old == exp_pwl_q1_15(Wrap16(r.m - m_new))
      exp_new == exp_pwl_q1_15(Wrap16(score - m_new))
  IN [m |-> m_new, l |-> Scaled(r.l, exp_old) + 2 * exp_new,
      acc |-> [d \in Columns |->
                 Scaled(r.acc[d], exp_old) + (exp_new * v[d]) \div 128]]

StageNormalized(r) ==
  [d \in Columns |->
     TruncatedProduct(r.acc[d] \div 32768, r.acc[d] % 32768, recip_q16_16(r.l))]
-----------------------------------------------------------------------------
KernelInit ==
  /\ mode = "none" /\ kpc = "idle"
  /\ qt = 0 /\ kt = 0 /\ qi = 0 /\ kj = 0
  /\ row = << >> /\ O = << >>

Call(md) ==
  /\ mode' = md /\ kpc' = "qtile"
  /\ qt' = 0 /\ kt' = 0 /\ qi' = 0 /\ kj' = 0
  /\ row' = << >>
  /\ O' = [i \in 0 .. cfg.S - 1 |-> [d \in Columns |-> 0]]

(* Mutant of QTile: the rows keep the state of the tile before. *)
QTileKeepsRows ==
  /\ kpc = "qtile"
  /\ qt < cfg.S \div cfg.TQ
  /\ row' = IF qt = 0 THEN [r \in 0 .. cfg.TQ - 1 |-> NewRow] ELSE row
  /\ kt' = 0 /\ qi' = 0 /\ kj' = 0
  /\ kpc' = "key"
  /\ UNCHANGED <<mode, qt, O>>

(* The head of the loop over query tiles. *)
QTile ==
  /\ kpc = "qtile"
  /\ qt < cfg.S \div cfg.TQ
  /\ row' = [r \in 0 .. cfg.TQ - 1 |-> NewRow]
  /\ kt' = 0 /\ qi' = 0 /\ kj' = 0
  /\ kpc' = "key"
  /\ UNCHANGED <<mode, qt, O>>

QTilesDone ==
  /\ kpc = "qtile"
  /\ qt >= cfg.S \div cfg.TQ
  /\ kpc' = "ret"
  /\ UNCHANGED <<mode, loopVars, row, O>>

global_i == qt * cfg.TQ + qi
global_j == kt * cfg.TK + kj
Masked(i, j) == cfg.causal /\ j > i

(* The three inner loops: kj, qi, kt. *)
Advance ==
  /\ UNCHANGED qt
  /\ kj' = (kj + 1) % cfg.TK
  /\ qi' = IF kj + 1 < cfg.TK THEN qi ELSE (qi + 1) % cfg.TQ
  /\ kt' = IF kj + 1 < cfg.TK \/ qi + 1 < cfg.TQ THEN kt ELSE kt + 1
  /\ kpc' = IF kt' < cfg.S \div cfg.TK THEN "key" ELSE "norm"

Key ==
  /\ kpc = "key"
  /\ LET score == IF Masked(global_i, global_j) THEN cfg.neg_large
                  ELSE ScoreOf(mats, global_i, global_j)
     IN row' = IF Masked(global_i, global_j) /\ cfg.hard_mask THEN row
               ELSE [row EXCEPT ![qi] =
                       IF mode = "STAGE" THEN StageFolded(@, score, mats.V[global_j])
                       ELSE Folded(mode, @, score, mats.V[global_j])]
  /\ Advance
  /\ UNCHANGED <<mode, O>>

(* The rows of the tile are written out. *)
Norm ==
  /\ kpc = "norm"
  /\ O' = [i \in DOMAIN O |->
             IF i \in qt * cfg.TQ .. qt * cfg.TQ + cfg.TQ - 1
             THEN IF mode = "STAGE" THEN StageNormalized(row[i - qt * cfg.TQ])
                  ELSE Normalized(mode, row[i - qt * cfg.TQ])
             ELSE O[i]]
  /\ qt' = qt + 1
  /\ kpc' = "qtile"
  /\ UNCHANGED <<mode, kt, qi, kj, row>>

KernelStep == QTile \/ QTilesDone \/ Key \/ Norm
-----------------------------------------------------------------------------
(* A row by itself, without tiles: the keys it may see, first to last.      *)
RowAlone(md, i) ==
  LET upto[n \in 0 .. cfg.S] ==
        IF n = 0 THEN NewRow
        ELSE IF Masked(i, n - 1) /\ cfg.hard_mask THEN upto[n - 1]
        ELSE Folded(md, upto[n - 1],
                    IF Masked(i, n - 1) THEN cfg.neg_large ELSE ScoreOf(mats, i, n - 1),
                    mats.V[n - 1])
  IN Normalized(md, upto[cfg.S])
-----------------------------------------------------------------------------
(* reference_fixed_like of the core's testbench                             *)
(* (dv/verilator_cpp/fa_attention_core_tb.cpp), a second copy of the        *)
(* function: a row of it, exp by md.  Unlike the model it divides exactly   *)
(* and starts from -32.                                                     *)
tb_neg_large == -8192

(* Mutant of ReferenceNormalized: the sum is not shifted left by 8 before   *)
(* it meets the reciprocal, as in the mode RTL_CTX_STEP.                    *)
ReferenceNormalizedUnshifted(r) ==
  [d \in Columns |->
     RoundedProduct(r.acc[d] \div 32768, r.acc[d] % 32768, recip_q16_16(r.l))]

ReferenceNormalized(r) ==
  [d \in Columns |->
     RoundedProduct(r.acc[d] \div 128, (r.acc[d] % 128) * 256, recip_q16_16(r.l))]

reference_fixed_like(md, causal, i) ==
  LET masked(j) == causal /\ i < j
      upto[n \in 0 .. cfg.S] ==
        IF n = 0 THEN [NewRow EXCEPT !.m = tb_neg_large]
        ELSE Folded(md, upto[n - 1],
                    IF masked(n - 1) THEN tb_neg_large ELSE ScoreOf(mats, i, n - 1),
                    mats.V[n - 1])
  IN ReferenceNormalized(upto[cfg.S])
=============================================================================
