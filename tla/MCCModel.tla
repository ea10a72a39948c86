------------------------------ MODULE MCCModel ------------------------------
(***************************************************************************)
(* The reference model at S = 4, D = 2: the matrices are the ones the      *)
(* program's own generator makes of its default seed and the two after it, *)
(* the exact outputs and the values of exp are the ones it computes.       *)
(***************************************************************************)
EXTENDS CModel

FromZero(s) == [i \in 0 .. Len(s) - 1 |-> s[i + 1]]
Matrix(rows) == FromZero([i \in DOMAIN rows |-> FromZero(rows[i])])
QKV(q, k_, v) == [Q |-> Matrix(q), K |-> Matrix(k_), V |-> Matrix(v)]

MCMatrices(input_mode, seed) ==
  CASE input_mode = "gaussian" /\ seed = 20260303 ->
         QKV(<<<<138, -12>>, <<-102, 36>>, <<-99, -440>>, <<-11, -177>>>>,
             <<<<-233, 622>>, <<-157, 598>>, <<356, 54>>, <<-126, -127>>>>,
             <<<<-70, 104>>, <<97, 438>>, <<323, -443>>, <<-181, 462>>>>)
    [] input_mode = "gaussian" /\ seed = 20260304 ->
         QKV(<<<<262, 23>>, <<101, 354>>, <<-48, 77>>, <<257, -110>>>>,
             <<<<505, 204>>, <<-281, 86>>, <<16, -184>>, <<-114, -162>>>>,
             <<<<207, -117>>, <<-311, 152>>, <<-164, -237>>, <<50, 143>>>>)
    [] input_mode = "gaussian" /\ seed = 20260305 ->
         QKV(<<<<-151, 332>>, <<-336, 79>>, <<289, 18>>, <<439, -104>>>>,
             <<<<-119, -34>>, <<263, 552>>, <<143, -202>>, <<-280, 160>>>>,
             <<<<163, -280>>, <<459, -29>>, <<-55, -75>>, <<-546, -255>>>>)
    [] input_mode = "small-int" /\ seed = 20260303 ->
         QKV(<<<<-3, 29>>, <<10, -29>>, <<-31, 24>>, <<-15, -4>>>>,
             <<<<-29, -2>>, <<5, -3>>, <<7, -2>>, <<2, 19>>>>,
             <<<<-21, -20>>, <<25, -17>>, <<14, 3>>, <<-9, 5>>>>)

MCExact(input_mode, seed, causal) ==
  Matrix(
    CASE input_mode = "gaussian" /\ seed = 20260303 /\ ~causal ->
           <<<<27326, 1999>>, <<2871, 53361>>, <<-19090, 71414>>, <<5010, 35663>>>>
      [] input_mode = "gaussian" /\ seed = 20260303 /\ causal ->
           <<<<-17920, 26624>>, <<2463, 67390>>, <<66548, -75865>>, <<5010, 35663>>>>
      [] input_mode = "gaussian" /\ seed = 20260304 /\ ~causal ->
           <<<<24848, -22706>>, <<17953, -14973>>, <<-18929, 846>>, <<15991, -21758>>>>
      [] input_mode = "gaussian" /\ seed = 20260304 /\ causal ->
           <<<<52992, -29952>>, <<24753, -15288>>, <<-28718, -10187>>, <<15991, -21758>>>>
      [] input_mode = "gaussian" /\ seed = 20260305 /\ ~causal ->
           <<<<22441, -33699>>, <<-54401, -56759>>, <<47465, -24264>>, <<34679, -22930>>>>
      [] input_mode = "gaussian" /\ seed = 20260305 /\ causal ->
           <<<<41728, -71680>>, <<63860, -52913>>, <<64575, -20517>>, <<34679, -22930>>>>
      [] input_mode = "small-int" /\ seed = 20260303 /\ ~causal ->
           <<<<569, -1852>>, <<587, -1858>>, <<554, -1861>>, <<568, -1861>>>>
      [] input_mode = "small-int" /\ seed = 20260303 /\ causal ->
           <<<<-5376, -5120>>, <<524, -4735>>, <<1509, -2910>>, <<568, -1861>>>>)

(* exp at the arguments that occur. *)
ExpPairs ==
  {<<-2426, 3>>, <<-2388, 3>>, <<-2344, 3>>, <<-2285, 4>>, <<-2175, 7>>,
   <<-2151, 7>>, <<-2103, 9>>, <<-2066, 10>>, <<-2050, 11>>, <<-2049, 11>>,
   <<-2048, 11>>, <<-2046, 11>>, <<-2023, 12>>, <<-1950, 16>>, <<-1937, 17>>,
   <<-1912, 19>>, <<-1884, 21>>, <<-1749, 35>>, <<-1355, 165>>,
   <<-642, 2669>>, <<-618, 2931>>, <<-577, 3440>>, <<-531, 4117>>,
   <<-523, 4248>>, <<-521, 4281>>, <<-517, 4349>>, <<-472, 5185>>,
   <<-454, 5562>>, <<-380, 7427>>, <<-378, 7485>>, <<-353, 8253>>,
   <<-335, 8854>>, <<-334, 8889>>, <<-329, 9064>>, <<-296, 10311>>,
   <<-281, 10933>>, <<-251, 12292>>, <<-229, 13396>>, <<-228, 13448>>,
   <<-223, 13713>>, <<-215, 14149>>, <<-191, 15539>>, <<-179, 16285>>,
   <<-133, 19490>>, <<-104, 21828>>, <<-98, 22346>>, <<-80, 23974>>,
   <<-76, 24351>>, <<-71, 24831>>, <<-30, 29144>>, <<-24, 29836>>,
   <<-10, 31513>>, <<-8, 31760>>, <<-4, 32260>>, <<-3, 32386>>,
   <<-2, 32513>>, <<-1, 32640>>, <<0, 32768>>}

MCRealExp == [x \in {p[1] : p \in ExpPairs} |-> (CHOOSE p \in ExpPairs : p[1] = x)[2]]

(* The defaults, but for the size. *)
Default ==
  [S |-> 4, TQ |-> 2, TK |-> 2, seed |-> 20260303, n_seeds |-> 3, causal |-> TRUE,
   input_mode |-> "gaussian", neg_large |-> -2048, mask_mode |-> "neg",
   hard_mask |-> FALSE, run_stage_decomp |-> FALSE, stage_seed |-> -1,
   run_compute_cycle_model |-> FALSE]
Hard(args) == [args EXCEPT !.mask_mode = "hard", !.hard_mask = TRUE]

MCArgs ==
  {Default, Hard(Default), [Default EXCEPT !.causal = FALSE],
   [Default EXCEPT !.TQ = 4, !.TK = 1, !.n_seeds = 1, !.run_stage_decomp = TRUE],
   Hard([Default EXCEPT !.TQ = 1, !.TK = 4, !.n_seeds = 1, !.run_stage_decomp = TRUE,
                        !.stage_seed = 20260304]),
   [Default EXCEPT !.TQ = 1, !.n_seeds = 1, !.input_mode = "small-int",
                   !.run_stage_decomp = TRUE, !.run_compute_cycle_model = TRUE],
   (* 6 rows: groups of 4 rows at a time do not come out even *)
   [Default EXCEPT !.S = 6, !.TQ = 3, !.TK = 2, !.n_seeds = 0,
                   !.run_compute_cycle_model = TRUE],
   (* refused *)
   [Default EXCEPT !.TQ = 3], [Default EXCEPT !.TK = 8], [Default EXCEPT !.TK = 3],
   [Default EXCEPT !.mask_mode = "soft"], [Default EXCEPT !.input_mode = "uniform"],
   [Default EXCEPT !.input_mode = "uniform", !.n_seeds = 0, !.run_stage_decomp = TRUE]}
=============================================================================
