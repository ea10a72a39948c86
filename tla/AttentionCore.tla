---------------------------- MODULE AttentionCore ----------------------------
(***************************************************************************)
(* rtl/core/fa_attention_core.sv: the master FSM with its K/V prefetch     *)
(* FSM, and the inner compute FSM, running side by side on one clock.      *)
(*                                                                         *)
(* A step is one clock edge: every register takes its next value, the two  *)
(* DMA engines (ReadStream, WriteStream: what fa_dma_reader and            *)
(* fa_dma_writer implement) do at most one handshake each, and the host    *)
(* may raise i_start or i_soft_reset.                                      *)
(*                                                                         *)
(* Data.  A bus word is its address in memory, so a buffer tells which     *)
(* word of which tile it holds.  The rows one batch of the compute FSM     *)
(* works on (QPAIR_BATCH_ROWS of them) are one row group; the context of a *)
(* row group (m, l, acc) is the sequence of tile pairs <<q, k>> folded     *)
(* into it, or Torn where the operands were not one whole tile.            *)
(* cycle_counter is left to the performance counters.                      *)
(***************************************************************************)
EXTENDS Naturals, Sequences

CONSTANTS
  NUM_Q_TILES, NUM_K_TILES,
  BEATS_PER_TILE_Q,    (* bus words of a Q tile and of an O tile            *)
  BEATS_PER_TILE_KV,   (* bus words of a K tile and of a V tile             *)
  NUM_BATCHES,         (* row groups of a Q tile: TQ / QPAIR_BATCH_ROWS     *)
  BatchCycles,         (* clock cycles the compute FSM spends on a batch    *)
  QBase, KBase, VBase, OBase,  (* word addresses of the four matrices       *)
  MaxRdStall,          (* idle cycles the read side may put into a command  *)
  MaxWrStall           (* the same for the write side                       *)

ASSUME CoreAssumption ==
  /\ NUM_Q_TILES \in Nat \ {0}
  /\ NUM_K_TILES \in Nat \ {0}
  /\ BEATS_PER_TILE_Q \in Nat \ {0}
  /\ BEATS_PER_TILE_KV \in Nat \ {0}
  /\ NUM_BATCHES \in Nat \ {0}
  /\ BatchCycles \in Nat \ {0, 1}
  /\ QBase \in Nat /\ KBase \in Nat /\ VBase \in Nat /\ OBase \in Nat
  /\ MaxRdStall \in Nat /\ MaxWrStall \in Nat

VARIABLES
  ms, q_tile_idx, k_tile_idx,
  busy, done,              (* o_busy and the one-cycle o_done               *)
  q_fill_cnt, kv_fill_cnt,
  active_bank, pref_target_bank, pf_state, pf_fill_cnt,
  norm_qi, o_write_cnt,
  rd_cmd, wr_cmd,          (* command registers: NoCmd when valid is low    *)
  comp_start, comp_done,   (* one-cycle pulses between the two FSMs         *)
  q_buf, k_buf, v_buf, o_buf,
  row_ctx,
  cs, batch, comp_t,       (* compute FSM, its batch, cycles into the batch *)
  ctx0, operand,           (* context and tile pair the batch started from  *)
  req, sent, beat,         (* read engine: see ReadStream                   *)
  rd_stall,
  wreq, wsent, wresp, stored, (* write engine: see WriteStream              *)
  wr_stall,
  o_mem                    (* O words stored since the last start           *)

fsmVars    == <<ms, q_tile_idx, k_tile_idx, busy>>
fillVars   == <<q_fill_cnt, kv_fill_cnt>>
bankVars   == <<active_bank, pref_target_bank>>
pfVars     == <<pf_state, pf_fill_cnt>>
outVars    == <<norm_qi, o_write_cnt>>
pulseVars  == <<done, comp_start, rd_cmd, wr_cmd>>
bufVars    == <<q_buf, k_buf, v_buf, o_buf>>
masterVars == <<fsmVars, fillVars, bankVars, pfVars, outVars, pulseVars, bufVars>>
compVars   == <<cs, batch, comp_t, comp_done, ctx0, operand>>
readVars   == <<req, sent, beat, rd_stall>>
storeVars  == <<wreq, wsent, wresp, stored, wr_stall>>
vars       == <<masterVars, row_ctx, compVars, readVars, storeVars, o_mem>>

MasterStates == {"S_IDLE", "S_LOAD_Q", "S_INIT_CONTEXT", "S_LOAD_K", "S_LOAD_V",
                 "S_COMPUTE", "S_NORMALIZE", "S_WRITE_O", "S_NEXT_Q", "S_DONE"}
PrefetchStates == {"PF_IDLE", "PF_CMD_K", "PF_DATA_K", "PF_CMD_V", "PF_DATA_V",
                   "PF_DONE"}
CompStates == {"C_IDLE", "C_DP_RUN", "C_DONE"}

QTiles == 0 .. NUM_Q_TILES - 1
KTiles == 0 .. NUM_K_TILES - 1
QWords == 1 .. BEATS_PER_TILE_Q
KVWords == 1 .. BEATS_PER_TILE_KV
Batches == 0 .. NUM_BATCHES - 1
Banks == {0, 1}

(* STRIDE_BYTES at its default, the size of a row. *)
QAddr(t) == QBase + t * BEATS_PER_TILE_Q
OAddr(t) == OBase + t * BEATS_PER_TILE_Q
KAddr(t) == KBase + t * BEATS_PER_TILE_KV
VAddr(t) == VBase + t * BEATS_PER_TILE_KV
QCmd(t) == [addr |-> QAddr(t), n |-> BEATS_PER_TILE_Q]
OCmd(t) == [addr |-> OAddr(t), n |-> BEATS_PER_TILE_Q]
KCmd(t) == [addr |-> KAddr(t), n |-> BEATS_PER_TILE_KV]
VCmd(t) == [addr |-> VAddr(t), n |-> BEATS_PER_TILE_KV]
NoCmd == [addr |-> 0, n |-> 0]

(* No tile has these indices: what a fold over mixed operands leaves. *)
Torn == <<NUM_Q_TILES, NUM_K_TILES>>
TilePairs == (0 .. NUM_Q_TILES) \X (0 .. NUM_K_TILES)
Context == Seq(TilePairs)
OWords == {OAddr(t) + w - 1 : t \in QTiles, w \in QWords}

(* The row group a word of a Q or O tile belongs to. *)
GroupOf(w) == ((w - 1) * NUM_BATCHES) \div BEATS_PER_TILE_Q

Read == INSTANCE ReadStream WITH
          Addrs <- {QAddr(t) : t \in QTiles} \cup
                   {KAddr(t) : t \in KTiles} \cup {VAddr(t) : t \in KTiles},
          MaxLen <- BEATS_PER_TILE_Q + BEATS_PER_TILE_KV
Write == INSTANCE WriteStream WITH
          Addrs <- {OAddr(t) : t \in QTiles}, MaxLen <- BEATS_PER_TILE_Q,
          Words <- Context

Init ==
  /\ ms = "S_IDLE" /\ q_tile_idx = 0 /\ k_tile_idx = 0
  /\ busy = FALSE /\ done = FALSE
  /\ q_fill_cnt = 0 /\ kv_fill_cnt = 0
  /\ active_bank = 0 /\ pref_target_bank = 1
  /\ pf_state = "PF_IDLE" /\ pf_fill_cnt = 0
  /\ norm_qi = 0 /\ o_write_cnt = 0
  /\ rd_cmd = NoCmd /\ wr_cmd = NoCmd
  /\ comp_start = FALSE /\ comp_done = FALSE
  /\ q_buf = [w \in QWords |-> 0]
  /\ k_buf = [b \in Banks |-> [w \in KVWords |-> 0]]
  /\ v_buf = [b \in Banks |-> [w \in KVWords |-> 0]]
  /\ o_buf = [w \in QWords |-> <<>>]
  /\ row_ctx = [b \in Batches |-> <<>>]
  /\ cs = "C_IDLE" /\ batch = 0 /\ comp_t = 0
  /\ ctx0 = <<>> /\ operand = Torn
  /\ Read!Init /\ rd_stall = 0
  /\ Write!Init /\ wr_stall = 0
  /\ o_mem = [a \in OWords |-> <<>>]
-----------------------------------------------------------------------------
(* ---- Read and write engines as the core sees them ---- *)

rd_ready == sent = req.n
wr_ready == ~wresp

dma_rd_data_ready ==
  \/ ms \in {"S_LOAD_Q", "S_LOAD_K", "S_LOAD_V"}
  \/ ms = "S_COMPUTE" /\ pf_state \in {"PF_DATA_K", "PF_DATA_V"}

dma_wr_data_valid == ms = "S_WRITE_O" /\ o_write_cnt \in QWords

(* One clock edge of the read engine; valid: a word is handed over, and it  *)
(* is beat'.  At most MaxRdStall idle cycles per command.                   *)
ReadTick(valid) ==
  \/ /\ ~valid /\ rd_ready /\ rd_cmd # NoCmd
     /\ Read!Accept(rd_cmd.addr, rd_cmd.n - 1)
     /\ rd_stall' = 0
  \/ /\ ~valid /\ rd_ready /\ rd_cmd = NoCmd
     /\ UNCHANGED readVars
  \/ /\ valid /\ dma_rd_data_ready
     /\ Read!Deliver
     /\ UNCHANGED rd_stall
  \/ /\ ~valid /\ ~rd_ready /\ ~dma_rd_data_ready
     /\ UNCHANGED readVars
  \/ /\ ~valid /\ ~rd_ready /\ dma_rd_data_ready
     /\ rd_stall < MaxRdStall
     /\ rd_stall' = rd_stall + 1
     /\ UNCHANGED <<req, sent, beat>>

(* One clock edge of the write engine; taken: it stores the word the core   *)
(* drives.  Its address handshake and the response take idle cycles too.    *)
WriteTick(taken) ==
  \/ /\ ~taken /\ wr_ready /\ wr_cmd # NoCmd
     /\ Write!Accept(wr_cmd.addr, wr_cmd.n - 1)
     /\ wr_stall' = 0
  \/ /\ ~taken /\ wr_ready /\ wr_cmd = NoCmd
     /\ UNCHANGED storeVars
  \/ /\ taken /\ dma_wr_data_valid /\ wresp
     /\ Write!Store(o_buf[o_write_cnt])
     /\ UNCHANGED wr_stall
  \/ /\ ~taken
     /\ Write!Respond
     /\ UNCHANGED wr_stall
  \/ /\ ~taken /\ wresp /\ (wsent = wreq.n \/ dma_wr_data_valid)
     /\ wr_stall < MaxWrStall
     /\ wr_stall' = wr_stall + 1
     /\ UNCHANGED <<wreq, wsent, wresp, stored>>
  \/ /\ ~taken /\ wresp /\ wsent # wreq.n /\ ~dma_wr_data_valid
     /\ UNCHANGED storeVars
-----------------------------------------------------------------------------
(* ---- Inner compute FSM ---- *)

(* Every operand the compute FSM can read in this cycle belongs to the      *)
(* tiles the indices name.                                                  *)
HoldsTile(buf, addr) == \A w \in DOMAIN buf : buf[w] = addr + w - 1

OperandsWhole ==
  /\ HoldsTile(q_buf, QAddr(q_tile_idx))
  /\ HoldsTile(k_buf[active_bank], KAddr(k_tile_idx))
  /\ HoldsTile(v_buf[active_bank], VAddr(k_tile_idx))
TileInUse == IF OperandsWhole THEN <<q_tile_idx, k_tile_idx>> ELSE Torn

CompIdle ==
  /\ cs = "C_IDLE"
  /\ comp_done' = FALSE
  /\ IF comp_start
     THEN cs' = "C_DP_RUN" /\ batch' = 0 /\ comp_t' = 0
     ELSE UNCHANGED <<cs, batch, comp_t>>
  /\ UNCHANGED <<ctx0, operand>>

(* The row context is read when the first scores of the batch come through  *)
(* (sm_row_start), K, Q and V rows in every cycle of it.                    *)
CompRun ==
  /\ cs = "C_DP_RUN"
  /\ comp_t < BatchCycles - 1
  /\ comp_t' = comp_t + 1
  /\ ctx0' = IF comp_t = 0 THEN row_ctx[batch] ELSE ctx0
  /\ operand' = IF comp_t = 0 \/ operand = TileInUse THEN TileInUse ELSE Torn
  /\ comp_done' = FALSE
  /\ UNCHANGED <<cs, batch>>

(* &batch_done_next: the last score of every row of the batch is folded.    *)
BatchEnd ==
  /\ cs = "C_DP_RUN"
  /\ comp_t = BatchCycles - 1
  /\ comp_t' = 0
  /\ IF batch = NUM_BATCHES - 1
     THEN cs' = "C_DONE" /\ UNCHANGED batch
     ELSE batch' = batch + 1 /\ UNCHANGED cs
  /\ comp_done' = FALSE
  /\ UNCHANGED <<ctx0, operand>>

CompDone ==
  /\ cs = "C_DONE"
  /\ cs' = "C_IDLE"
  /\ comp_done' = TRUE
  /\ UNCHANGED <<batch, comp_t, ctx0, operand>>

CompTick == CompIdle \/ CompRun \/ BatchEnd \/ CompDone

WritesBack == cs = "C_DP_RUN" /\ comp_t = BatchCycles - 1
Folded ==
  Append(ctx0, IF operand = TileInUse THEN operand ELSE Torn)

(* row_ctx has two writers: the batch write-back and S_INIT_CONTEXT.  When  *)
(* both hit one row group in one cycle, either may win.                     *)
RowCtxTick(init) ==
  LET written == IF WritesBack THEN [row_ctx EXCEPT ![batch] = Folded] ELSE row_ctx
      cleared == [b \in Batches |-> <<>>]
  IN  IF ~init THEN row_ctx' = written
      ELSE \/ row_ctx' = cleared
           \/ WritesBack /\ row_ctx' = [cleared EXCEPT ![batch] = Folded]
-----------------------------------------------------------------------------
(* ---- Master FSM: one action per state ---- *)

(* The one-cycle outputs; every state that does not drive one clears it.    *)
Pulses(d, start, rd, wr) ==
  /\ done' = d /\ comp_start' = start /\ rd_cmd' = rd /\ wr_cmd' = wr
Quiet == Pulses(FALSE, FALSE, NoCmd, NoCmd)
GoTo(s) == ms' = s /\ UNCHANGED <<q_tile_idx, k_tile_idx, busy>>

SoftReset ==
  /\ ms' = "S_IDLE" /\ busy' = FALSE
  /\ Quiet
  /\ UNCHANGED <<q_tile_idx, k_tile_idx, fillVars, bankVars, pfVars, outVars, bufVars>>

Idle(start) ==
  /\ ms = "S_IDLE"
  /\ Quiet
  /\ IF start /\ ~busy
     THEN /\ ms' = "S_LOAD_Q" /\ busy' = TRUE
          /\ q_tile_idx' = 0 /\ k_tile_idx' = 0
          /\ active_bank' = 0 /\ pref_target_bank' = 1
          /\ pf_state' = "PF_IDLE" /\ pf_fill_cnt' = 0
          /\ q_fill_cnt' = 0
     ELSE UNCHANGED <<fsmVars, bankVars, pfVars, q_fill_cnt>>
  /\ UNCHANGED <<kv_fill_cnt, outVars, bufVars>>

(* Mutant of Issued: the counter starts without waiting for the engine.     *)
IssuedAtOnce(cnt) == cnt + 1

(* A fill counter: 0 while the command waits for dma_rd_cmd_ready, then the *)
(* number of the word expected next.                                        *)
Issued(cnt) == IF rd_ready THEN cnt + 1 ELSE cnt
LastWord(cnt, n) == beat'.last \/ cnt = n

LoadQ(rdv) ==
  /\ ms = "S_LOAD_Q"
  /\ \/ /\ q_fill_cnt = 0
        /\ Pulses(FALSE, FALSE, QCmd(q_tile_idx), NoCmd)
        /\ q_fill_cnt' = Issued(q_fill_cnt)
        /\ UNCHANGED <<fsmVars, q_buf>>
     \/ /\ q_fill_cnt \in QWords
        /\ Quiet
        /\ IF rdv
           THEN /\ q_buf' = [q_buf EXCEPT ![q_fill_cnt] = beat'.addr]
                /\ q_fill_cnt' = q_fill_cnt + 1
                /\ GoTo(IF LastWord(q_fill_cnt, BEATS_PER_TILE_Q)
                        THEN "S_INIT_CONTEXT" ELSE ms)
           ELSE UNCHANGED <<fsmVars, q_fill_cnt, q_buf>>
  /\ UNCHANGED <<kv_fill_cnt, bankVars, pfVars, outVars, k_buf, v_buf, o_buf>>

InitContext ==
  /\ ms = "S_INIT_CONTEXT"
  /\ Quiet
  /\ ms' = "S_LOAD_K" /\ k_tile_idx' = 0 /\ kv_fill_cnt' = 0
  /\ active_bank' = 0 /\ pref_target_bank' = 1
  /\ pf_state' = "PF_IDLE" /\ pf_fill_cnt' = 0
  /\ UNCHANGED <<q_tile_idx, busy, q_fill_cnt, outVars, bufVars>>

LoadK(rdv) ==
  /\ ms = "S_LOAD_K"
  /\ \/ /\ kv_fill_cnt = 0
        /\ Pulses(FALSE, FALSE, KCmd(k_tile_idx), NoCmd)
        /\ kv_fill_cnt' = Issued(kv_fill_cnt)
        /\ UNCHANGED <<fsmVars, k_buf>>
     \/ /\ kv_fill_cnt \in KVWords
        /\ Quiet
        /\ IF ~rdv
           THEN UNCHANGED <<fsmVars, kv_fill_cnt, k_buf>>
           ELSE /\ k_buf' = [k_buf EXCEPT ![active_bank][kv_fill_cnt] = beat'.addr]
                /\ IF LastWord(kv_fill_cnt, BEATS_PER_TILE_KV)
                   THEN kv_fill_cnt' = 0 /\ GoTo("S_LOAD_V")
                   ELSE kv_fill_cnt' = kv_fill_cnt + 1 /\ UNCHANGED fsmVars
  /\ UNCHANGED <<q_fill_cnt, bankVars, pfVars, outVars, q_buf, v_buf, o_buf>>

(* The last word of V leaves kv_fill_cnt alone: S_INIT_CONTEXT clears it.   *)
LoadV(rdv) ==
  /\ ms = "S_LOAD_V"
  /\ \/ /\ kv_fill_cnt = 0
        /\ Pulses(FALSE, FALSE, VCmd(k_tile_idx), NoCmd)
        /\ kv_fill_cnt' = Issued(kv_fill_cnt)
        /\ UNCHANGED <<fsmVars, v_buf>>
     \/ /\ kv_fill_cnt \in KVWords
        /\ Quiet
        /\ IF ~rdv
           THEN UNCHANGED <<fsmVars, kv_fill_cnt, v_buf>>
           ELSE /\ v_buf' = [v_buf EXCEPT ![active_bank][kv_fill_cnt] = beat'.addr]
                /\ kv_fill_cnt' = kv_fill_cnt + 1
                /\ GoTo(IF LastWord(kv_fill_cnt, BEATS_PER_TILE_KV)
                        THEN "S_COMPUTE" ELSE ms)
  /\ UNCHANGED <<q_fill_cnt, bankVars, pfVars, outVars, q_buf, k_buf, o_buf>>
-----------------------------------------------------------------------------
(* ---- S_COMPUTE: the prefetch FSM beside the hand-over of tiles ---- *)

(* Mutant of LastTile: one tile too many. *)
LastTileOffByOne == k_tile_idx = NUM_K_TILES

LastTile == k_tile_idx = NUM_K_TILES - 1

(* What the prefetch FSM drives and stores in this cycle.  Nothing that     *)
(* happens to the master FSM in the same cycle takes it back.               *)
PrefetchCmd ==
  CASE pf_state = "PF_CMD_K" -> KCmd(k_tile_idx + 1)
    [] pf_state = "PF_CMD_V" -> VCmd(k_tile_idx + 1)
    [] OTHER -> NoCmd
PrefetchStore(rdv) ==
  /\ k_buf' = IF pf_state = "PF_DATA_K" /\ rdv
              THEN [k_buf EXCEPT ![pref_target_bank][pf_fill_cnt] = beat'.addr]
              ELSE k_buf
  /\ v_buf' = IF pf_state = "PF_DATA_V" /\ rdv
              THEN [v_buf EXCEPT ![pref_target_bank][pf_fill_cnt] = beat'.addr]
              ELSE v_buf

(* Mutant of PrefetchIdle: the bank in compute is the one to be filled.     *)
PrefetchSameBank ==
  /\ pf_state = "PF_IDLE"
  /\ IF LastTile
     THEN UNCHANGED <<pfVars, pref_target_bank>>
     ELSE /\ pref_target_bank' = active_bank
          /\ pf_fill_cnt' = 0
          /\ pf_state' = "PF_CMD_K"

PrefetchIdle ==
  /\ pf_state = "PF_IDLE"
  /\ IF LastTile
     THEN UNCHANGED <<pfVars, pref_target_bank>>
     ELSE /\ pref_target_bank' = 1 - active_bank
          /\ pf_fill_cnt' = 0
          /\ pf_state' = "PF_CMD_K"
PrefetchIssue ==
  /\ pf_state \in {"PF_CMD_K", "PF_CMD_V"}
  /\ IF rd_ready
     THEN /\ pf_fill_cnt' = 1
          /\ pf_state' = IF pf_state = "PF_CMD_K" THEN "PF_DATA_K" ELSE "PF_DATA_V"
     ELSE UNCHANGED pfVars
  /\ UNCHANGED pref_target_bank
PrefetchWordK(rdv) ==
  /\ pf_state = "PF_DATA_K"
  /\ IF ~rdv
     THEN UNCHANGED pfVars
     ELSE IF LastWord(pf_fill_cnt, BEATS_PER_TILE_KV)
          THEN pf_fill_cnt' = 0 /\ pf_state' = "PF_CMD_V"
          ELSE pf_fill_cnt' = pf_fill_cnt + 1 /\ UNCHANGED pf_state
  /\ UNCHANGED pref_target_bank
PrefetchWordV(rdv) ==
  /\ pf_state = "PF_DATA_V"
  /\ IF ~rdv
     THEN UNCHANGED pfVars
     ELSE /\ pf_fill_cnt' = pf_fill_cnt + 1
          /\ pf_state' = IF LastWord(pf_fill_cnt, BEATS_PER_TILE_KV)
                         THEN "PF_DONE" ELSE pf_state
  /\ UNCHANGED pref_target_bank
PrefetchDone ==
  /\ pf_state = "PF_DONE"
  /\ UNCHANGED <<pfVars, pref_target_bank>>
PrefetchStep(rdv) ==
  \/ PrefetchIdle \/ PrefetchIssue \/ PrefetchDone
  \/ PrefetchWordK(rdv) \/ PrefetchWordV(rdv)

(* The tile in compute is not finished in this cycle.                       *)
Computing(rdv) ==
  /\ ~comp_done
  /\ PrefetchStep(rdv)
  /\ UNCHANGED <<fsmVars, active_bank, norm_qi>>

(* comp_done for the last tile of the row of tiles.                         *)
ToNormalize ==
  /\ comp_done /\ LastTile
  /\ GoTo("S_NORMALIZE")
  /\ pf_state' = "PF_IDLE" /\ pf_fill_cnt' = 0
  /\ norm_qi' = 0
  /\ UNCHANGED bankVars

(* Mutant of NextTile: the banks flip on every comp_done. *)
NextTileAlways ==
  /\ comp_done /\ ~LastTile
  /\ k_tile_idx' = k_tile_idx + 1
  /\ active_bank' = pref_target_bank
  /\ pf_fill_cnt' = 0
  /\ IF k_tile_idx + 1 = NUM_K_TILES - 1
     THEN pf_state' = "PF_IDLE" /\ UNCHANGED pref_target_bank
     ELSE pf_state' = "PF_CMD_K" /\ pref_target_bank' = 1 - pref_target_bank
  /\ UNCHANGED <<ms, q_tile_idx, busy, norm_qi>>

(* comp_done with the next tile complete in the other bank.                 *)
NextTile ==
  /\ comp_done /\ ~LastTile /\ pf_state = "PF_DONE"
  /\ k_tile_idx' = k_tile_idx + 1
  /\ active_bank' = pref_target_bank
  /\ pf_fill_cnt' = 0
  /\ IF k_tile_idx + 1 = NUM_K_TILES - 1
     THEN pf_state' = "PF_IDLE" /\ UNCHANGED pref_target_bank
     ELSE pf_state' = "PF_CMD_K" /\ pref_target_bank' = 1 - pref_target_bank
  /\ UNCHANGED <<ms, q_tile_idx, busy, norm_qi>>

(* comp_done with the next tile still on its way: nothing records the pulse.*)
PulseLost(rdv) ==
  /\ comp_done /\ ~LastTile /\ pf_state # "PF_DONE"
  /\ PrefetchStep(rdv)
  /\ UNCHANGED <<fsmVars, active_bank, norm_qi>>

Compute(rdv) ==
  /\ ms = "S_COMPUTE"
  /\ Pulses(FALSE, ~comp_done /\ cs = "C_IDLE", PrefetchCmd, NoCmd)
  /\ PrefetchStore(rdv)
  /\ Computing(rdv) \/ ToNormalize \/ NextTile \/ PulseLost(rdv)
  /\ UNCHANGED <<fillVars, o_write_cnt, q_buf, o_buf>>
-----------------------------------------------------------------------------
(* ---- Output states ---- *)

(* The pipelines behind a row (reciprocal, rounding) take a fixed number of *)
(* cycles during which nothing else of the master FSM moves: one step here. *)
NormalizeRows ==
  /\ ms = "S_NORMALIZE"
  /\ Quiet
  /\ o_buf' = [w \in QWords |->
                 IF GroupOf(w) = norm_qi THEN row_ctx[norm_qi] ELSE o_buf[w]]
  /\ IF norm_qi = NUM_BATCHES - 1
     THEN GoTo("S_WRITE_O") /\ o_write_cnt' = 0 /\ UNCHANGED norm_qi
     ELSE norm_qi' = norm_qi + 1 /\ UNCHANGED <<fsmVars, o_write_cnt>>
  /\ UNCHANGED <<fillVars, bankVars, pfVars, q_buf, k_buf, v_buf>>

(* Mutant of WriteO: a word counts as written when it is offered. *)
WriteONoHandshake(taken) ==
  /\ ms = "S_WRITE_O"
  /\ \/ /\ o_write_cnt = 0
        /\ Pulses(FALSE, FALSE, NoCmd, OCmd(q_tile_idx))
        /\ o_write_cnt' = IF wr_ready THEN 1 ELSE 0
        /\ UNCHANGED fsmVars
     \/ /\ o_write_cnt \in QWords
        /\ Quiet
        /\ o_write_cnt' = o_write_cnt + 1
        /\ GoTo(IF o_write_cnt = BEATS_PER_TILE_Q THEN "S_NEXT_Q" ELSE ms)
  /\ UNCHANGED <<fillVars, bankVars, pfVars, norm_qi, bufVars>>

WriteO(taken) ==
  /\ ms = "S_WRITE_O"
  /\ \/ /\ o_write_cnt = 0
        /\ Pulses(FALSE, FALSE, NoCmd, OCmd(q_tile_idx))
        /\ o_write_cnt' = IF wr_ready THEN 1 ELSE 0
        /\ UNCHANGED fsmVars
     \/ /\ o_write_cnt \in QWords
        /\ Quiet
        /\ IF taken
           THEN /\ o_write_cnt' = o_write_cnt + 1
                /\ GoTo(IF o_write_cnt = BEATS_PER_TILE_Q THEN "S_NEXT_Q" ELSE ms)
           ELSE UNCHANGED <<fsmVars, o_write_cnt>>
  /\ UNCHANGED <<fillVars, bankVars, pfVars, norm_qi, bufVars>>

NextQ ==
  /\ ms = "S_NEXT_Q"
  /\ Quiet
  /\ IF q_tile_idx = NUM_Q_TILES - 1
     THEN GoTo("S_DONE") /\ UNCHANGED q_fill_cnt
     ELSE /\ ms' = "S_LOAD_Q" /\ q_tile_idx' = q_tile_idx + 1 /\ q_fill_cnt' = 0
          /\ UNCHANGED <<k_tile_idx, busy>>
  /\ UNCHANGED <<kv_fill_cnt, bankVars, pfVars, outVars, bufVars>>

Done ==
  /\ ms = "S_DONE"
  /\ Pulses(TRUE, FALSE, NoCmd, NoCmd)
  /\ ms' = "S_IDLE" /\ busy' = FALSE
  /\ UNCHANGED <<q_tile_idx, k_tile_idx, fillVars, bankVars, pfVars, outVars, bufVars>>

MasterTick(start, rdv, taken) ==
  \/ Idle(start) \/ LoadQ(rdv) \/ InitContext \/ LoadK(rdv) \/ LoadV(rdv)
  \/ Compute(rdv) \/ NormalizeRows \/ WriteO(taken) \/ NextQ \/ Done
-----------------------------------------------------------------------------
(* What memory has received since the run began.                            *)
OMemTick(taken) ==
  o_mem' = IF ms = "S_IDLE" /\ ms' = "S_LOAD_Q" THEN [a \in OWords |-> <<>>]
           ELSE IF taken THEN [o_mem EXCEPT ![stored'.addr] = stored'.word]
           ELSE o_mem

(* A clock edge; sr: i_soft_reset is high.                                  *)
Clock(sr) ==
  \E start, rdv, taken \in BOOLEAN :
    /\ ReadTick(rdv)
    /\ WriteTick(taken)
    /\ IF sr THEN SoftReset ELSE MasterTick(start, rdv, taken)
    /\ CompTick
    /\ RowCtxTick(ms = "S_INIT_CONTEXT" /\ ~sr)
    /\ OMemTick(taken)

Next == Clock(FALSE) \/ Clock(TRUE)

(* The clock never stops; the stall bounds make the memory answer.          *)
Spec == Init /\ [][Next]_vars /\ WF_vars(Clock(FALSE))

(* Runs the host does not interrupt.                                        *)
UninterruptedSpec == Init /\ [][Clock(FALSE)]_vars /\ WF_vars(Clock(FALSE))
-----------------------------------------------------------------------------
(* ---- Properties ---- *)

MasterTypeOK ==
  /\ ms \in MasterStates /\ q_tile_idx \in QTiles /\ k_tile_idx \in KTiles
  /\ q_fill_cnt \in 0 .. BEATS_PER_TILE_Q + 1
  /\ kv_fill_cnt \in 0 .. BEATS_PER_TILE_KV + 1
  /\ active_bank \in Banks /\ pref_target_bank \in Banks
  /\ pf_state \in PrefetchStates /\ pf_fill_cnt \in 0 .. BEATS_PER_TILE_KV + 1
  /\ pf_state \in {"PF_DATA_K", "PF_DATA_V"} => pf_fill_cnt \in KVWords
  /\ norm_qi \in Batches /\ o_write_cnt \in 0 .. BEATS_PER_TILE_Q + 1

FlagTypeOK ==
  /\ busy \in BOOLEAN /\ done \in BOOLEAN
  /\ comp_start \in BOOLEAN /\ comp_done \in BOOLEAN
  /\ wresp \in BOOLEAN

BufferTypeOK ==
  /\ q_buf \in [QWords -> Nat]
  /\ k_buf \in [Banks -> [KVWords -> Nat]] /\ v_buf \in [Banks -> [KVWords -> Nat]]
  /\ o_buf \in [QWords -> Context]

ComputeTypeOK ==
  /\ cs \in CompStates /\ batch \in Batches /\ comp_t \in 0 .. BatchCycles - 1
  /\ ctx0 \in Context /\ operand \in TilePairs
  /\ row_ctx \in [Batches -> Context]

StreamTypeOK ==
  /\ rd_cmd \in [addr : Nat, n : Nat] /\ wr_cmd \in [addr : Nat, n : Nat]
  /\ req \in [addr : Nat, n : Nat] /\ sent \in 0 .. req.n
  /\ beat \in [addr : Nat, last : BOOLEAN] /\ rd_stall \in 0 .. MaxRdStall
  /\ wreq \in [addr : Nat, n : Nat] /\ wsent \in 0 .. wreq.n
  /\ stored \in [addr : Nat, word : Context] /\ wr_stall \in 0 .. MaxWrStall
  /\ o_mem \in [OWords -> Context]

(* Every register keeps to its range: in particular no fill counter runs    *)
(* past its buffer and no prefetch goes past the last tile.                 *)
TypeOK == MasterTypeOK /\ FlagTypeOK /\ BufferTypeOK /\ ComputeTypeOK /\ StreamTypeOK

(* S_COMPUTE only ever sees the tiles its indices name, and the prefetch    *)
(* leaves exactly the next tile in the other bank: a read that a soft reset *)
(* abandoned never ends up in a buffer, at any speed of the memory.         *)
LoadedTiles ==
  /\ ms \in {"S_INIT_CONTEXT", "S_LOAD_K", "S_LOAD_V", "S_COMPUTE"}
       => HoldsTile(q_buf, QAddr(q_tile_idx))
  /\ ms \in {"S_LOAD_V", "S_COMPUTE"}
       => HoldsTile(k_buf[active_bank], KAddr(k_tile_idx))
  /\ ms = "S_COMPUTE" => HoldsTile(v_buf[active_bank], VAddr(k_tile_idx))
  /\ ms = "S_COMPUTE" /\ pf_state \in {"PF_CMD_V", "PF_DATA_V", "PF_DONE"}
       => HoldsTile(k_buf[pref_target_bank], KAddr(k_tile_idx + 1))
  /\ ms = "S_COMPUTE" /\ pf_state = "PF_DONE"
       => HoldsTile(v_buf[pref_target_bank], VAddr(k_tile_idx + 1))

(* Without a soft reset the compute FSM never works on a buffer that is     *)
(* being filled, nor on two tiles at once.                                  *)
ComputeOnWholeTiles == cs = "C_DP_RUN" => OperandsWhole

(* With a memory fast enough to prefetch a tile pair within one tile's      *)
(* compute time, a run delivers what TiledAttention says.                   *)
Tiled == INSTANCE TiledAttention WITH
           WORDS <- BEATS_PER_TILE_Q,
           o <- [p \in QTiles \X QWords |-> o_mem[OAddr(p[1]) + p[2] - 1]]
ImplementsTiledAttention == Tiled!Spec

(* At any speed of the memory, no K/V tile is skipped and none is folded    *)
(* out of order into an output word (it may be folded again: see            *)
(* TilesFoldedOnce).                                                        *)
NoTileSkipped ==
  done => \A t \in QTiles, w \in QWords :
            LET c == o_mem[OAddr(t) + w - 1]
            IN  /\ c # <<>> /\ c[1] = <<t, 0>> /\ c[Len(c)] = <<t, NUM_K_TILES - 1>>
                /\ \A i \in 1 .. Len(c) - 1 :
                     c[i + 1] \in {c[i], <<t, c[i][2] + 1>>}

(* No K/V tile is folded twice into a row.                                  *)
TilesFoldedOnce ==
  \A b \in Batches : \A i, j \in DOMAIN row_ctx[b] :
    i # j => row_ctx[b][i] # row_ctx[b][j]

(* A run that is not interrupted comes to its end.                          *)
RunCompletes == busy ~> done

(* done is only raised when the memory has answered the last write.         *)
DoneAfterLastResponse == done => ~wresp

(* What a soft reset leaves behind does not reach the output of a later run.*)
NothingTornStored ==
  \A a \in OWords : \A i \in DOMAIN o_mem[a] : o_mem[a][i] # Torn
=============================================================================
