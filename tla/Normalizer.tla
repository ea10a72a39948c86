----------------------------- MODULE Normalizer -----------------------------
(***************************************************************************)
(* The state S_NORMALIZE of fa_attention_core.sv with the two pipelines it *)
(* drives: the reciprocal (softmax/fa_recip_nr_q16_16.sv) and the output   *)
(* rounding (core/fa_o_normalize_block.sv).  Rows are taken one after the  *)
(* other: one reciprocal of the denominator, then the accumulator in       *)
(* chunks of NORM_LANES elements.                                          *)
(*                                                                         *)
(* A denominator or accumulator is the row it is of and the context it is  *)
(* part of; a quotient is [row, d, ctx] when chunk d was divided by the    *)
(* denominator of its own row and context, and Wrong otherwise.            *)
(***************************************************************************)
EXTENDS Integers, Sequences

VARIABLES
  norm_row,             (* norm_qi                                          *)
  norm_d, norm_recv_d,  (* next chunk to issue, next to come back           *)
  norm_recip_in_valid, norm_recip_pending,
  norm_row_ready, norm_row_den_zero, norm_row_recip, norm_issue_done,
  recip_pipe,           (* the registers of the reciprocal                  *)
  norm_pipe,            (* those of the rounding                            *)
  o_row                 (* o_buf by rows and chunks: the context whose      *)
                        (* quotient is in its place, or Misplaced           *)

normRowVars == <<norm_recip_pending, norm_row_ready, norm_row_den_zero,
                 norm_row_recip, norm_issue_done, norm_d, norm_recv_d>>
normVars == <<norm_row, normRowVars, norm_recip_in_valid, recip_pipe, norm_pipe, o_row>>

RECIP_LAT == 10
NORM_LAT == 3

(* A register whose valid bit is low, and the reciprocal 0; a chunk that is *)
(* no quotient.                                                             *)
Empty == [row |-> -1, ctx |-> <<>>]
Wrong == [row |-> -1, d |-> 0, ctx |-> <<>>]
Misplaced == <<<<-1, -1>>>>

NormInit(rows, chunks) ==
  /\ norm_row = 0 /\ norm_recip_in_valid = FALSE
  /\ norm_recip_pending = FALSE /\ norm_row_ready = FALSE
  /\ norm_row_den_zero = FALSE /\ norm_row_recip = Empty
  /\ norm_issue_done = FALSE /\ norm_d = 0 /\ norm_recv_d = 0
  /\ recip_pipe = [i \in 1 .. RECIP_LAT |-> Empty]
  /\ norm_pipe = [i \in 1 .. NORM_LAT |-> Empty]
  /\ o_row = [r \in rows |-> [d \in chunks |-> Misplaced]]
-----------------------------------------------------------------------------
(* ---- The pipelines; ctx: the context row norm_row is part of ---- *)

RecipTick(ctx) ==
  recip_pipe' =
    <<IF norm_recip_in_valid THEN [row |-> norm_row, ctx |-> ctx] ELSE Empty>>
      \o SubSeq(recip_pipe, 1, RECIP_LAT - 1)
norm_recip_out == recip_pipe[RECIP_LAT]

(* The chunk norm_d of the row, times the reciprocal kept for it; without   *)
(* a denominator it is saturated.                                           *)
Quotient(ctx) ==
  IF norm_row_den_zero \/ norm_row_recip = [row |-> norm_row, ctx |-> ctx]
  THEN [row |-> norm_row, d |-> norm_d, ctx |-> ctx]
  ELSE Wrong
ChunkTick(ctx, valid) ==
  norm_pipe' =
    <<IF valid /\ norm_row_ready /\ ~norm_issue_done THEN Quotient(ctx) ELSE Empty>>
      \o SubSeq(norm_pipe, 1, NORM_LAT - 1)
norm_chunk == norm_pipe[NORM_LAT]
-----------------------------------------------------------------------------
(* ---- S_NORMALIZE: one action per branch ---- *)

(* The row has no denominator, or its reciprocal is asked for.              *)
Request(ctx) ==
  /\ ~norm_row_ready /\ ~norm_recip_pending
  /\ LET den_zero == ctx = <<>>
     IN  /\ norm_row_den_zero' = den_zero
         /\ norm_row_ready' = den_zero
         /\ norm_recip_in_valid' = ~den_zero
         /\ norm_recip_pending' = ~den_zero
         /\ IF den_zero
            THEN /\ norm_row_recip' = Empty /\ norm_issue_done' = FALSE
                 /\ norm_d' = 0 /\ norm_recv_d' = 0
            ELSE UNCHANGED <<norm_row_recip, norm_issue_done, norm_d, norm_recv_d>>
  /\ UNCHANGED <<norm_row, o_row>>

AwaitReciprocal ==
  /\ ~norm_row_ready /\ norm_recip_pending /\ norm_recip_out = Empty
  /\ norm_recip_in_valid' = FALSE
  /\ UNCHANGED <<norm_row, normRowVars, o_row>>

(* Mutant of TakeReciprocal: the request stays pending.                     *)
TakeReciprocalPending ==
  /\ ~norm_row_ready /\ norm_recip_pending /\ norm_recip_out # Empty
  /\ norm_row_ready' = TRUE
  /\ norm_row_recip' = norm_recip_out
  /\ norm_d' = 0 /\ norm_recv_d' = 0 /\ norm_issue_done' = FALSE
  /\ norm_recip_in_valid' = FALSE
  /\ UNCHANGED <<norm_row, norm_recip_pending, norm_row_den_zero, o_row>>

TakeReciprocal ==
  /\ ~norm_row_ready /\ norm_recip_pending /\ norm_recip_out # Empty
  /\ norm_recip_pending' = FALSE /\ norm_row_ready' = TRUE
  /\ norm_row_recip' = norm_recip_out
  /\ norm_d' = 0 /\ norm_recv_d' = 0 /\ norm_issue_done' = FALSE
  /\ norm_recip_in_valid' = FALSE
  /\ UNCHANGED <<norm_row, norm_row_den_zero, o_row>>

(* Chunks go out one per cycle; last is the number of the last one.         *)
IssueChunk(last) ==
  IF norm_issue_done \/ norm_d = last
  THEN norm_issue_done' = TRUE /\ UNCHANGED norm_d
  ELSE norm_d' = norm_d + 1 /\ UNCHANGED norm_issue_done
Store ==
  o_row' = [o_row EXCEPT ![norm_row][norm_recv_d] =
              IF norm_chunk.row = norm_row /\ norm_chunk.d = norm_recv_d
              THEN norm_chunk.ctx ELSE Misplaced]

AwaitChunk(last) ==
  /\ norm_row_ready /\ norm_chunk = Empty
  /\ IssueChunk(last)
  /\ norm_recip_in_valid' = FALSE
  /\ UNCHANGED <<norm_row, norm_recv_d, norm_recip_pending, norm_row_ready,
                 norm_row_den_zero, norm_row_recip, o_row>>

StoreChunk(last) ==
  /\ norm_row_ready /\ norm_chunk # Empty /\ norm_recv_d # last
  /\ Store
  /\ norm_recv_d' = norm_recv_d + 1
  /\ IssueChunk(last)
  /\ norm_recip_in_valid' = FALSE
  /\ UNCHANGED <<norm_row, norm_recip_pending, norm_row_ready, norm_row_den_zero,
                 norm_row_recip>>

(* The next row starts from scratch; after the last one norm_qi stays.      *)
StoreLastChunk(last, last_row) ==
  /\ norm_row_ready /\ norm_chunk # Empty /\ norm_recv_d = last
  /\ Store
  /\ norm_d' = 0 /\ norm_recv_d' = 0 /\ norm_issue_done' = FALSE
  /\ norm_row_ready' = FALSE /\ norm_row_den_zero' = FALSE /\ norm_row_recip' = Empty
  /\ norm_row' = IF norm_row = last_row THEN norm_row ELSE norm_row + 1
  /\ norm_recip_in_valid' = FALSE
  /\ UNCHANGED norm_recip_pending

LastStored(last, last_row) ==
  /\ norm_row_ready /\ norm_chunk # Empty /\ norm_recv_d = last /\ norm_row = last_row

NormalizeStep(ctx, last, last_row) ==
  \/ Request(ctx) \/ AwaitReciprocal \/ TakeReciprocal
  \/ AwaitChunk(last) \/ StoreChunk(last) \/ StoreLastChunk(last, last_row)

(* Entering S_NORMALIZE. *)
NormalizeStart ==
  /\ norm_row' = 0 /\ norm_d' = 0 /\ norm_recv_d' = 0
  /\ norm_recip_pending' = FALSE /\ norm_row_ready' = FALSE
  /\ norm_row_den_zero' = FALSE /\ norm_row_recip' = Empty
  /\ norm_issue_done' = FALSE /\ norm_recip_in_valid' = FALSE
  /\ UNCHANGED o_row

(* In the other states nothing is asked of the reciprocal.                  *)
NormalizeOff ==
  /\ norm_recip_in_valid' = FALSE
  /\ UNCHANGED <<norm_row, normRowVars, o_row>>
=============================================================================
