------------------------------- MODULE CModel -------------------------------
(***************************************************************************)
(* The program around it: run_cmodel (cmodel/csrc/attention_lib.cpp) with  *)
(* run_one_seed, calc_metrics, the stage decomposition and the cycle       *)
(* models (attention_experiment.cpp).                                      *)
(*                                                                         *)
(* External: the matrices the random generator makes of a seed and the     *)
(* exact attention (direct_sdpa_fp32), given as Q16.16.  Errors are in     *)
(* 1/65536ths too.                                                         *)
(***************************************************************************)
EXTENDS OnlineSoftmax, SequencesExt

CONSTANTS Args,            (* parsed command lines                          *)
          Slack,           (* Q8.8 units between the golden models           *)
          Matrices(_, _),  (* input mode, seed -> Q, K, V                   *)
          Exact(_, _, _)   (* input mode, seed, causal -> the exact output  *)

(* run_cmodel divides S by both sizes of a tile. *)
ASSUME ArgsAssumption ==
  \A args \in Args : args.S \in Nat /\ {args.TQ, args.TK} \subseteq Nat \ {0}

VARIABLES pc, k, results, aggs, exit, cycles

driverVars == <<pc, k, results, aggs, exit, cycles>>
vars == <<cfg, mats, kernelVars, driverVars>>

Modes == <<"RTL_STRICT", "RTL_CTX_STEP", "RTL_CTX_STEP_ACC24", "RTL_CTX_INTERP",
           "RTL_CTX_PWL", "RTL_CTX_REAL_EXP", "RTL_EXACT", "RTL_REAL_EXP",
           "FIXED_HIACC_QOUT", "FIXED_HIACC_REAL_EXP_QOUT">>

NoAgg == [sum |-> 0, maxe_max |-> 0, cnt |-> 0, worst_seed |-> 0, worst_at |-> <<-1, -1>>]

CModelInit ==
  /\ cfg \in Args
  /\ mats = << >> /\ KernelInit
  /\ pc = "start" /\ k = 0 /\ results = << >>
  /\ aggs = [i \in DOMAIN Modes |-> NoAgg]
  /\ exit = -1 /\ cycles = << >>

Exit(code) == pc' = "exit" /\ exit' = code
-----------------------------------------------------------------------------
(* parse_args refuses a mask mode; run_cmodel refuses tiles. *)
Start ==
  /\ pc = "start"
  /\ IF cfg.mask_mode \notin {"neg", "hard"} THEN Exit(1)
     ELSE IF cfg.S % cfg.TQ # 0 \/ cfg.S % cfg.TK # 0 THEN Exit(2)
     ELSE pc' = "seeds" /\ UNCHANGED exit
  /\ UNCHANGED <<cfg, mats, kernelVars, k, results, aggs, cycles>>

Seed == cfg.seed + k

(* run_one_seed makes the matrices, or throws. *)
SeedStart ==
  /\ pc = "seeds" /\ k < cfg.n_seeds
  /\ IF cfg.input_mode \notin {"small-int", "gaussian"}
     THEN Exit(1) /\ UNCHANGED <<mats, kernelVars>>
     ELSE /\ mats' = Matrices(cfg.input_mode, Seed)
          /\ Call(Modes[1])
          /\ pc' = "modes" /\ UNCHANGED exit
  /\ UNCHANGED <<cfg, k, results, aggs, cycles>>

Compute ==
  /\ pc \in {"modes", "stage"}
  /\ KernelStep
  /\ UNCHANGED <<cfg, mats, driverVars>>

(* The error of every element, the largest with the first place it is at.   *)
calc_metrics(out, ref) ==
  LET At == {<<i, d>> : i \in DOMAIN out, d \in Columns}
      e == [at \in At |->
              LET diff == out[at[1]][at[2]] * 256 - ref[at[1]][at[2]]
              IN IF diff < 0 THEN -diff ELSE diff]
      maxe == Max({e[at] : at \in At})
      First(at) == \A b \in At : e[b] = maxe =>
                     at[1] < b[1] \/ (at[1] = b[1] /\ at[2] <= b[2])
  IN [sum |-> FoldFunction(+, 0, e), maxe |-> maxe,
      at |-> IF maxe = 0 THEN <<-1, -1>>
             ELSE CHOOSE at \in At : e[at] = maxe /\ First(at)]

ModeEnd ==
  /\ pc = "modes" /\ kpc = "ret"
  /\ results' = Append(results, calc_metrics(O, Exact(cfg.input_mode, Seed, cfg.causal)))
  /\ IF Len(results') < Len(Modes)
     THEN Call(Modes[Len(results') + 1]) /\ UNCHANGED pc
     ELSE pc' = "aggregate" /\ kpc' = "idle" /\ UNCHANGED <<mode, loopVars, row, O>>
  /\ UNCHANGED <<cfg, mats, k, aggs, exit, cycles>>

Aggregated(agg, r) ==
  LET worse == r.maxe > agg.maxe_max
  IN [sum |-> agg.sum + r.sum, cnt |-> agg.cnt + 1,
      maxe_max |-> IF worse THEN r.maxe ELSE agg.maxe_max,
      worst_seed |-> IF worse THEN Seed ELSE agg.worst_seed,
      worst_at |-> IF worse THEN r.at ELSE agg.worst_at]

Aggregate ==
  /\ pc = "aggregate"
  /\ aggs' = [i \in DOMAIN Modes |-> Aggregated(aggs[i], results[i])]
  /\ results' = << >>
  /\ k' = k + 1
  /\ pc' = "seeds"
  /\ UNCHANGED <<cfg, mats, kernelVars, exit, cycles>>

StageSeed == IF cfg.stage_seed >= 0 THEN cfg.stage_seed ELSE cfg.seed

SeedsDone ==
  /\ pc = "seeds" /\ k >= cfg.n_seeds
  /\ IF cfg.run_stage_decomp /\ cfg.input_mode \in {"small-int", "gaussian"}
     THEN /\ mats' = Matrices(cfg.input_mode, StageSeed)
          /\ Call("STAGE")
          /\ pc' = "stage" /\ UNCHANGED exit
     ELSE /\ IF cfg.run_stage_decomp THEN Exit(1) ELSE pc' = "cycles" /\ UNCHANGED exit
          /\ UNCHANGED <<mats, kernelVars>>
  /\ UNCHANGED <<cfg, k, results, aggs, cycles>>

StageEnd ==
  /\ pc = "stage" /\ kpc = "ret"
  /\ kpc' = "idle"
  /\ pc' = "cycles"
  /\ UNCHANGED <<cfg, mats, mode, loopVars, row, O, k, results, aggs, exit, cycles>>
-----------------------------------------------------------------------------
(* The machines whose cycles are estimated: lanes of the dot product, post- *)
(* processing cycles, whether the two overlap, rows at a time, normaliser   *)
(* lanes, and the network's cycles per key and per row.                     *)
Machine(lanes, post, overlap, rows, norm, perK, sync) ==
  [lanes |-> lanes, post |-> post, overlap |-> overlap, rows |-> rows,
   norm |-> norm, perK |-> perK, sync |-> sync]
Machines ==
  <<Machine(4, 3, FALSE, 1, 1, 0, 0), Machine(4, 2, FALSE, 1, 1, 0, 0),
    Machine(4, 3, TRUE, 1, 1, 0, 0), Machine(8, 3, TRUE, 1, 1, 0, 0),
    Machine(16, 3, TRUE, 1, 1, 0, 0), Machine(16, 3, TRUE, 1, 4, 0, 0),
    Machine(16, 3, TRUE, 2, 4, 0, 0), Machine(32, 3, TRUE, 2, 8, 0, 0),
    Machine(32, 3, TRUE, 4, 8, 0, 0), Machine(16, 3, TRUE, 4, 4, 1, 64),
    Machine(32, 3, TRUE, 4, 8, 1, 64)>>

Larger(a, b) == IF a > b THEN a ELSE b
CeilDiv(a, b) == (a + b - 1) \div b
DotCycles(m) == 1 + CeilDiv(D, m.lanes)

RowGroups(S, m) == CeilDiv(S, m.rows)

simulate_compute_cycles(S, m) ==
  LET steady == IF m.overlap THEN Larger(DotCycles(m), m.post) ELSE DotCycles(m) + m.post
      startup == DotCycles(m) + m.post - (IF m.overlap THEN 1 ELSE 0)
  IN RowGroups(S, m) * (startup + (S - 1) * steady)
       + CeilDiv(S * D, m.norm)
       + RowGroups(S, m) * (S * m.perK + m.sync)

Cycles ==
  /\ pc = "cycles"
  /\ cycles' = IF cfg.run_compute_cycle_model
               THEN [i \in DOMAIN Machines |-> simulate_compute_cycles(cfg.S, Machines[i])]
               ELSE << >>
  /\ Exit(0)
  /\ UNCHANGED <<cfg, mats, kernelVars, k, results, aggs>>

CModelNext ==
  Start \/ SeedStart \/ Compute \/ ModeEnd \/ Aggregate \/ SeedsDone \/ StageEnd \/ Cycles

CModelSpec == CModelInit /\ [][CModelNext]_vars
-----------------------------------------------------------------------------
(* Whatever the tiles, in every mode and for both masks, each row of the    *)
(* output is the row computed by itself from the keys it may see.           *)
ResultIsUntiled ==
  pc = "modes" /\ kpc = "ret" =>
    O = [i \in 0 .. cfg.S - 1 |-> RowAlone(mode, i)]

(* run_stage_decomposition has its own copy of the loop; it still is the    *)
(* mode RTL_EXACT whose error it takes apart.                               *)
StageSameAsKernel ==
  pc = "stage" /\ kpc = "ret" =>
    O = [i \in 0 .. cfg.S - 1 |-> RowAlone("RTL_EXACT", i)]

(* The verdicts: MAE <= 0.03, MaxAE <= 0.10. *)
MaeOK(agg) == 100 * agg.sum <= 3 * 65536 * agg.cnt * cfg.S * D
MaxOK(agg) == 10 * agg.maxe_max <= 65536

Accurate == {i \in DOMAIN Modes :
  Modes[i] \in {"RTL_CTX_STEP_ACC24", "FIXED_HIACC_REAL_EXP_QOUT"}}

(* The modes the documents report as within the limits are, over all seeds  *)
(* of a run, and no single element of any of them is off by more than the   *)
(* limit.                                                                   *)
WithinLimits ==
  exit = 0 => \A i \in Accurate : MaeOK(aggs[i]) /\ MaxOK(aggs[i])

(* The two golden models there are agree: the mode that stands for the RTL  *)
(* and the reference the testbench of the RTL compares with are at most     *)
(* Slack apart in every element, although one approximates the reciprocal   *)
(* and masks with a smaller number.                                         *)
GoldenModelsAgree ==
  pc = "modes" /\ kpc = "ret" /\ mode = "RTL_CTX_STEP_ACC24" =>
    \A i \in DOMAIN O, d \in Columns :
      LET ref == reference_fixed_like("RTL_CTX_STEP", cfg.causal, i)[d]
      IN O[i][d] - ref \in -Slack .. Slack
=============================================================================
