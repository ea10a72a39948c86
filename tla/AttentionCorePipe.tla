------------------------- MODULE AttentionCorePipe -------------------------
(***************************************************************************)
(* AttentionCore with the inside of a batch: the issue counters of the     *)
(* compute FSM (fa_attention_core.sv), the tags that travel beside the dot *)
(* product pipeline (fa_qk_dotprod_slice.sv), the pairing of the two       *)
(* halves of a dot product, the softmax contexts (SoftmaxCtx), and the     *)
(* inside of S_NORMALIZE (Normalizer).  The other states of the master     *)
(* FSM, prefetch and the two DMA engines are those of AttentionCore.       *)
(*                                                                         *)
(* Data.  A bus word stands for one row of a K or V tile and for one pair  *)
(* of rows of a Q tile (ROW_PAR = 2: the two rows of a pair share all      *)
(* control and differ in the causal mask only).  A pair of rows has as its *)
(* context the sequence of terms folded into it; a term is the dot product *)
(* as the sequence of its chunks [q, k, c], the V row it weighs, and       *)
(* whether the score of either row is masked when i_causal_en is set.      *)
(*                                                                         *)
(* dp_chunks (DP_CHUNKS = D / 32) is a parameter of the build: chosen at   *)
(* the start and never changed.  comp_t, ctx0 and operand of AttentionCore *)
(* are history here and steer nothing; row_ctx is what the contexts of the *)
(* pairs amount to.                                                        *)
(***************************************************************************)
EXTENDS AttentionCore, SoftmaxCtx, Normalizer

CONSTANT ChunkCounts   (* the values of DP_CHUNKS to be looked at *)

SOFTMAX_CTXS == CTX_COUNT
QK_LAT == 8
TK == BEATS_PER_TILE_KV
TQ == 2 * BEATS_PER_TILE_Q

(* TQ is a multiple of QPAIR_BATCH_ROWS; a dot product has one chunk or two *)
(* (a third would be taken for the first chunk of the next one).            *)
ASSUME PipeAssumption ==
  /\ BEATS_PER_TILE_Q = SOFTMAX_CTXS * NUM_BATCHES
  /\ ChunkCounts \subseteq {1, 2}

VARIABLES
  dp_chunks,
  qk_issue_slot, qk_issue_kj, qk_issue_chunk, qk_issue_done,
  qk_tag,          (* the tag shift register: [slot, kj, last]              *)
  dot_pipe,        (* the chunk each stage of the dot product works on      *)
  ret_first,       (* the first half of a dot product: [slot, kj, dot]      *)
  score_issue,     (* the score handed to the softmax contexts              *)
  batch_done_mask, (* the slots of the batch that are finished              *)
  pair_ctx         (* row_m, row_l, row_acc of a pair of rows               *)

issueVars == <<qk_issue_slot, qk_issue_kj, qk_issue_chunk, qk_issue_done>>
returnVars == <<ret_first, score_issue>>
pipeVars == <<issueVars, qk_tag, dot_pipe, returnVars, batch_done_mask, pair_ctx,
              softmaxVars, normVars, dp_chunks>>
allVars == <<vars, pipeVars>>

Pairs == 0 .. BEATS_PER_TILE_Q - 1
PairOf(b, slot) == b * SOFTMAX_CTXS + slot
LastChunkOfRow == 4 * dp_chunks - 1   (* D / NORM_LANES chunks              *)
NoTag == [slot |-> 0, kj |-> 0, last |-> FALSE]

PipeInit ==
  /\ Init /\ SoftmaxInit
  /\ dp_chunks \in ChunkCounts
  /\ qk_issue_slot = 0 /\ qk_issue_kj = 0 /\ qk_issue_chunk = 0
  /\ qk_issue_done = FALSE
  /\ qk_tag = [i \in 1 .. QK_LAT |-> NoTag]
  /\ dot_pipe = [i \in 1 .. QK_LAT |-> Nothing]
  /\ ret_first = Nothing /\ score_issue = Nothing
  /\ batch_done_mask = {}
  /\ pair_ctx = [p \in Pairs |-> <<>>]
  /\ NormInit(0 .. TQ - 1, 0 .. LastChunkOfRow)
-----------------------------------------------------------------------------
(* ---- Datapath: moves on every clock, whatever the compute FSM does ---- *)

qk_issue_valid == cs = "C_DP_RUN" /\ ~qk_issue_done
LastChunk == qk_issue_chunk = dp_chunks - 1

(* The operands are read from the buffers in the cycle of the issue; the    *)
(* result comes out QK_LAT cycles later, with no back pressure.             *)
IssuedChunk ==
  [q |-> q_buf[PairOf(batch, qk_issue_slot) + 1],
   k |-> k_buf[active_bank][qk_issue_kj + 1],
   c |-> qk_issue_chunk]
DotTick ==
  dot_pipe' = <<IF qk_issue_valid THEN IssuedChunk ELSE Nothing>>
                \o SubSeq(dot_pipe, 1, QK_LAT - 1)
dp_partial == dot_pipe[QK_LAT]

(* Mutant of Masked: the key is the one being issued. *)
MaskedIssue(r) ==
  q_tile_idx * TQ + 2 * PairOf(batch, score_issue.slot) + r
    < k_tile_idx * TK + qk_issue_kj

(* Row r of the pair may not attend to the key (score_issue_q8_8). *)
Masked(r) ==
  q_tile_idx * TQ + 2 * PairOf(batch, score_issue.slot) + r
    < k_tile_idx * TK + score_issue.kj

(* The V row and the mask are read when the score is issued, and the row    *)
(* context when it is the first of a tile (sm_row_start).                   *)
SoftmaxInput ==
  IF score_issue = Nothing THEN Nothing
  ELSE [ctx |-> score_issue.slot,
        start |-> score_issue.kj = 0,
        last |-> score_issue.kj = TK - 1,
        init |-> pair_ctx[PairOf(batch, score_issue.slot)],
        term |-> [dot |-> score_issue.dot,
                  v |-> v_buf[active_bank][score_issue.kj + 1],
                  masked |-> <<Masked(0), Masked(1)>>]]
-----------------------------------------------------------------------------
(* ---- Inner compute FSM ---- *)

IssueReset ==
  /\ qk_issue_slot' = 0 /\ qk_issue_kj' = 0 /\ qk_issue_chunk' = 0
  /\ qk_issue_done' = FALSE

(* Mutant of IssueTick: all keys of a slot before the next slot.            *)
IssueKeysFirst ==
  IF qk_issue_done THEN UNCHANGED issueVars
  ELSE /\ qk_issue_chunk' = IF LastChunk THEN 0 ELSE qk_issue_chunk + 1
       /\ qk_issue_kj' = IF LastChunk THEN (qk_issue_kj + 1) % TK ELSE qk_issue_kj
       /\ LET key_end == LastChunk /\ qk_issue_kj = TK - 1
          IN  /\ qk_issue_done' = (key_end /\ qk_issue_slot = SOFTMAX_CTXS - 1)
              /\ qk_issue_slot' = IF key_end /\ qk_issue_slot # SOFTMAX_CTXS - 1
                                  THEN qk_issue_slot + 1 ELSE qk_issue_slot

(* Chunk by chunk, slot by slot, key by key. *)
IssueTick ==
  IF qk_issue_done THEN UNCHANGED issueVars
  ELSE /\ qk_issue_chunk' = IF LastChunk THEN 0 ELSE qk_issue_chunk + 1
       /\ qk_issue_slot' = IF LastChunk THEN (qk_issue_slot + 1) % SOFTMAX_CTXS
                           ELSE qk_issue_slot
       /\ LET row_end == LastChunk /\ qk_issue_slot = SOFTMAX_CTXS - 1
          IN  /\ qk_issue_done' = (row_end /\ qk_issue_kj = TK - 1)
              /\ qk_issue_kj' = IF row_end /\ qk_issue_kj # TK - 1
                                THEN qk_issue_kj + 1 ELSE qk_issue_kj

(* Mutant of TagTick: one register too few. *)
TagShort ==
  LET tag == [slot |-> qk_issue_slot, kj |-> qk_issue_kj, last |-> LastChunk]
  IN  qk_tag' = <<tag, tag>> \o SubSeq(qk_tag, 2, QK_LAT - 1)

(* qk_tag_valid is left out: only a performance counter reads it.           *)
TagTick ==
  LET tag == [slot |-> qk_issue_slot, kj |-> qk_issue_kj, last |-> LastChunk]
  IN  qk_tag' = <<tag>> \o SubSeq(qk_tag, 1, QK_LAT - 1)

(* A partial sum comes back: a whole dot product, its first half, or its    *)
(* second half, whose tag is not looked at.                                 *)
ReturnTick ==
  LET tag == qk_tag[QK_LAT]
      back == [slot |-> tag.slot, kj |-> tag.kj, dot |-> <<dp_partial>>]
  IN  CASE dp_partial = Nothing ->
             ret_first' = ret_first /\ score_issue' = Nothing
        [] dp_partial # Nothing /\ ret_first = Nothing /\ tag.last ->
             ret_first' = Nothing /\ score_issue' = back
        [] dp_partial # Nothing /\ ret_first = Nothing /\ ~tag.last ->
             ret_first' = back /\ score_issue' = Nothing
        [] dp_partial # Nothing /\ ret_first # Nothing ->
             /\ ret_first' = Nothing
             /\ score_issue' = [ret_first EXCEPT !.dot = Append(@, dp_partial)]

RowDone == sm_out # Nothing /\ sm_out.done
batch_done_next ==
  IF RowDone THEN batch_done_mask \cup {sm_out.ctx} ELSE batch_done_mask
BatchDone == batch_done_next = Slots

PipeIdle ==
  /\ cs = "C_IDLE"
  /\ comp_done' = FALSE /\ score_issue' = Nothing
  /\ IF comp_start
     THEN /\ cs' = "C_DP_RUN" /\ batch' = 0
          /\ IssueReset
          /\ batch_done_mask' = {} /\ ret_first' = Nothing
     ELSE UNCHANGED <<cs, batch, issueVars, batch_done_mask, ret_first>>
  /\ UNCHANGED qk_tag

PipeRun ==
  /\ cs = "C_DP_RUN" /\ ~BatchDone
  /\ IssueTick /\ TagTick /\ ReturnTick
  /\ batch_done_mask' = batch_done_next
  /\ comp_done' = FALSE
  /\ UNCHANGED <<cs, batch>>

(* The last row of the batch is finished.  The next batch drops what the    *)
(* return side holds; the dot product and softmax pipelines are not         *)
(* emptied, and after the last batch the return side is not either.         *)
PipeBatchEnd ==
  /\ cs = "C_DP_RUN" /\ BatchDone
  /\ IF batch = NUM_BATCHES - 1
     THEN /\ cs' = "C_DONE" /\ UNCHANGED batch
          /\ IssueTick /\ ReturnTick
          /\ batch_done_mask' = batch_done_next
     ELSE /\ batch' = batch + 1 /\ UNCHANGED cs
          /\ IssueReset
          /\ ret_first' = Nothing /\ score_issue' = Nothing
          /\ batch_done_mask' = {}
  /\ TagTick
  /\ comp_done' = FALSE

PipeDone ==
  /\ cs = "C_DONE"
  /\ cs' = "C_IDLE" /\ comp_done' = TRUE /\ score_issue' = Nothing
  /\ UNCHANGED <<batch, issueVars, qk_tag, ret_first, batch_done_mask>>

PipeTick == PipeIdle \/ PipeRun \/ PipeBatchEnd \/ PipeDone

(* The write-back of a finished row, and S_INIT_CONTEXT. *)
PairTick(init) ==
  pair_ctx' =
    IF init THEN [p \in Pairs |-> <<>>]
    ELSE IF cs = "C_DP_RUN" /\ RowDone
    THEN [pair_ctx EXCEPT ![PairOf(batch, sm_out.ctx)] = sm_out.sum]
    ELSE pair_ctx
-----------------------------------------------------------------------------
(* ---- What the contexts amount to ---- *)

(* Key kj of tile k folded into pair p of tile q with all that belongs to   *)
(* it: every chunk once, in order, of this pair and this key, and the value *)
(* of the same key.                                                         *)
RightTerm(term, q, p, k, kj) ==
  /\ term.dot = [i \in 1 .. dp_chunks |->
                   [q |-> QAddr(q) + p, k |-> KAddr(k) + kj, c |-> i - 1]]
  /\ term.v = VAddr(k) + kj

(* Context h of pair p is exactly the keys of the tiles, in order. *)
Amounts(h, p, tiles) ==
  /\ Len(h) = Len(tiles) * TK
  /\ \A i \in DOMAIN h :
       LET tile == tiles[(i - 1) \div TK + 1]
       IN  RightTerm(h[i], tile[1], p, tile[2], (i - 1) % TK)

(* The tiles context h claims to be made of, by the first chunk of each.    *)
Claimed(h) ==
  [n \in 1 .. Len(h) \div TK |->
     LET chunk == h[(n - 1) * TK + 1].dot[1]
     IN  <<(chunk.q - QBase) \div BEATS_PER_TILE_Q, (chunk.k - KBase) \div TK>>]

(* One of the sequences of tiles, or Torn when the pairs of the group       *)
(* disagree (as they do while a batch is being written back).               *)
GroupContext(b, ctx) ==
  LET tiles == Claimed(ctx[PairOf(b, 0)])
  IN  IF \A slot \in Slots : Amounts(ctx[PairOf(b, slot)], PairOf(b, slot), tiles)
      THEN tiles ELSE <<Torn>>

(* comp_t counts the cycles of the batch; ctx0 and operand are kept as      *)
(* AttentionCore keeps them.                                                *)
HistoryTick ==
  /\ comp_t' = IF cs = "C_DP_RUN" /\ ~BatchDone THEN comp_t + 1 ELSE 0
  /\ IF cs = "C_DP_RUN" /\ ~BatchDone
     THEN /\ ctx0' = IF comp_t = 0 THEN row_ctx[batch] ELSE ctx0
          /\ operand' = IF comp_t = 0 \/ operand = TileInUse THEN TileInUse ELSE Torn
     ELSE UNCHANGED <<ctx0, operand>>

(* ---- S_NORMALIZE ---- *)

(* What row norm_row and its group have folded.                             *)
RowContext == row_ctx[norm_row \div (2 * SOFTMAX_CTXS)]

(* The pair of rows p of the output, all chunks of it, is of one context.   *)
OutWord(p, rows) ==
  LET parts == {rows[r][d] : r \in {2 * p, 2 * p + 1}, d \in 0 .. LastChunkOfRow}
  IN  IF \E c \in parts : parts = {c} /\ c # Misplaced
      THEN rows[2 * p][0] ELSE <<Torn>>

PipeNormalize ==
  /\ ms = "S_NORMALIZE"
  /\ Quiet
  /\ NormalizeStep(RowContext, LastChunkOfRow, TQ - 1)
  /\ norm_qi' = norm_row' \div (2 * SOFTMAX_CTXS)
  /\ IF o_row' = o_row THEN UNCHANGED o_buf
     ELSE o_buf' = [o_buf EXCEPT ![norm_row \div 2 + 1] = OutWord(norm_row \div 2, o_row')]
  /\ IF LastStored(LastChunkOfRow, TQ - 1)
     THEN GoTo("S_WRITE_O") /\ o_write_cnt' = 0
     ELSE UNCHANGED <<fsmVars, o_write_cnt>>
  /\ UNCHANGED <<fillVars, bankVars, pfVars, q_buf, k_buf, v_buf>>

PipeMasterTick(start, rdv, taken) ==
  /\ \/ PipeNormalize
     \/ /\ ms # "S_NORMALIZE"
        /\ MasterTick(start, rdv, taken)
        /\ IF ms' = "S_NORMALIZE" THEN NormalizeStart ELSE NormalizeOff
  /\ RecipTick(RowContext)
  /\ ChunkTick(RowContext, ms = "S_NORMALIZE")
-----------------------------------------------------------------------------
PipeClock ==
  \E start, rdv, taken \in BOOLEAN :
    /\ ReadTick(rdv) /\ WriteTick(taken)
    /\ PipeMasterTick(start, rdv, taken)
    /\ DotTick /\ SoftmaxTick(SoftmaxInput) /\ PipeTick
    /\ PairTick(ms = "S_INIT_CONTEXT")
    /\ IF pair_ctx' = pair_ctx THEN UNCHANGED row_ctx
       ELSE row_ctx' = [b \in Batches |-> GroupContext(b, pair_ctx')]
    /\ HistoryTick
    /\ OMemTick(taken)
    /\ UNCHANGED dp_chunks

PipeSpec == PipeInit /\ [][PipeClock]_allVars /\ WF_allVars(PipeClock)
-----------------------------------------------------------------------------
(* ---- Properties ---- *)

(* A batch of AttentionCore, with the cycles a batch takes in this build:   *)
(* the issue, the way through the dot product and score registers, the      *)
(* softmax contexts, the write-back.                                        *)
CyclesOf(chunks) == chunks * SOFTMAX_CTXS * TK + QK_LAT + 7
Batch(chunks) == INSTANCE AttentionCore WITH BatchCycles <- CyclesOf(chunks)

(* Whatever travels through the pipelines, compute FSM and row contexts do  *)
(* on every edge what AttentionCore says: every batch takes the same number *)
(* of cycles, and at its end each of its rows has every key of the tile     *)
(* folded once, in order, into the context it had at the start: chunks of   *)
(* one dot product are not paired with others, no score starts from a stale *)
(* context, and nothing of a batch is left in a pipeline when the next one  *)
(* begins.                                                                  *)
BatchStep ==
  \A chunks \in ChunkCounts : dp_chunks = chunks =>
    /\ Batch(chunks)!CompTick
    /\ Batch(chunks)!WritesBack => row_ctx'[batch] = Folded
    /\ cs = "C_DP_RUN" => \A b \in Batches \ {batch} : row_ctx'[b] = row_ctx[b]
ImplementsBatch == [][BatchStep]_allVars

(* The causal mask, which is worked out from tile, batch, slot and key      *)
(* counters when a score is issued, belongs to the row and the key whose    *)
(* product is folded with it.                                               *)
MaskOfItsKey ==
  \A p \in Pairs : \A i \in DOMAIN pair_ctx[p] :
    LET term == pair_ctx[p][i]
    IN  \A r \in {0, 1} :
          term.masked[r + 1] <=>
            2 * (term.dot[1].q - QBase) + r < term.dot[1].k - KBase

(* Two scores of one row never follow one another so closely that the later *)
(* one would start from a context without the earlier: the order of issue   *)
(* (slots inside keys) keeps them CTX_COUNT chunks apart, which is just     *)
(* enough when a dot product is one chunk.                                  *)
ScoresApart == score_issue # Nothing => Apart(score_issue.slot)
=============================================================================
