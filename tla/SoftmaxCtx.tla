----------------------------- MODULE SoftmaxCtx -----------------------------
(***************************************************************************)
(* rtl/core/fa_online_softmax_ctx.sv: a pipeline of five registers that    *)
(* folds one score and value per cycle into the context (m, l, acc) of a   *)
(* row, for CTX_COUNT rows whose scores come interleaved.                  *)
(*                                                                         *)
(* A context is the sequence of terms folded into it.  What a stage adds   *)
(* to its numbers depends on nothing but the context it read on entry and  *)
(* its own term, so a stage keeps the pair; the sum appears in s3 (as the  *)
(* expression the forwarding uses) and in s4 (as a register).              *)
(***************************************************************************)
EXTENDS Naturals, Sequences

VARIABLES
  stage,      (* s0 .. s4 as stage[1] .. stage[5]                           *)
  ctx_state,  (* m_state, l_state, acc_state                                *)
  sm_out      (* o_valid, o_row_done, o_ctx_id and the context put out      *)

softmaxVars == <<stage, ctx_state, sm_out>>

CTX_COUNT == 4
Slots == 0 .. CTX_COUNT - 1

(* The content of a register whose valid bit is low: it is of no row.       *)
Nothing == [ctx |-> CTX_COUNT]

SoftmaxInit ==
  /\ stage = [i \in 1 .. 5 |-> Nothing]
  /\ ctx_state = [c \in Slots |-> <<>>]
  /\ sm_out = Nothing

Holds(i, c) == stage[i].ctx = c
Sum(s) == Append(s.prev, s.term)

(* Mutant of Forwarded: s3 is not looked at. *)
ForwardedS4(c) == IF Holds(5, c) THEN Sum(stage[5]) ELSE ctx_state[c]

(* The context a new score of row c starts from: s4 before s3 before the    *)
(* stored one.  A score of the row that is still in s0 .. s2 is not seen.   *)
Forwarded(c) ==
  IF Holds(5, c) THEN Sum(stage[5])
  ELSE IF Holds(4, c) THEN Sum(stage[4])
  ELSE ctx_state[c]

(* in: Nothing, or [ctx, start, last, init, term]; the first score of a     *)
(* tile (i_row_start) starts from the row context the core keeps.           *)
Previous(in) == IF in.start THEN in.init ELSE Forwarded(in.ctx)
Entered(in) ==
  IF in.ctx = CTX_COUNT THEN Nothing
  ELSE [ctx |-> in.ctx, last |-> in.last, term |-> in.term, prev |-> Previous(in)]

SoftmaxTick(in) ==
  /\ stage' = [i \in 1 .. 5 |-> IF i = 1 THEN Entered(in) ELSE stage[i - 1]]
  /\ IF stage[5].ctx = CTX_COUNT
     THEN sm_out' = Nothing /\ UNCHANGED ctx_state
     ELSE /\ sm_out' = [ctx |-> stage[5].ctx, done |-> stage[5].last,
                        sum |-> Sum(stage[5])]
          /\ ctx_state' = [ctx_state EXCEPT ![stage[5].ctx] = Sum(stage[5])]

(* No score of row c is where Forwarded does not see it.                    *)
Apart(c) == \A i \in 1 .. 3 : ~Holds(i, c)
=============================================================================
