------------------------- MODULE AttentionCoreProofs -------------------------
(***************************************************************************)
(* Proofs about AttentionCore, for every number and size of tiles, every   *)
(* speed of the memory and every use of i_soft_reset; and, in the second   *)
(* half, about AttentionCorePipe, for one or two chunks per dot product:   *)
(* first the softmax contexts on their own, then the core with its         *)
(* pipelines.                                                              *)
(*                                                                         *)
(* The second argument has four storeys.  FeedInv: the buffers hold the   *)
(* tiles in use whenever the compute FSM runs (FillInv of the first half,  *)
(* carried over).  FlowInv: where every issue of a batch is, cycle by      *)
(* cycle, and what it carries; so everything of a batch has been put out   *)
(* when its last row is.  HistInv: which tiles the row contexts hold, and  *)
(* the rows of the batch while they are written back one by one.           *)
(* PipeRunInv: with a fast memory these are the tiles so far, each once;   *)
(* where a row is in S_NORMALIZE, cycle by cycle; so each word of the      *)
(* output is whole when it is offered to the write engine.                 *)
(***************************************************************************)
EXTENDS AttentionCorePipe, SequenceTheorems, TLAPS

(* cnt is the number of the next word of cmd: cmd is with the read engine,  *)
(* or about to be taken by it.                                              *)
Owed(cmd, cnt) ==
  /\ cnt \in 1 .. cmd.n
  /\ \/ cnt = 1 /\ rd_ready /\ rd_cmd = cmd
     \/ req = cmd /\ sent = cnt - 1

(* The words of a tile that have arrived when cnt is expected next. *)
Prefix(buf, addr, cnt) ==
  \A w \in DOMAIN buf : w < cnt => buf[w] = addr + w - 1

(* The only command a state can have in the command register. *)
CmdInv ==
  /\ ms \notin {"S_LOAD_Q", "S_LOAD_K", "S_LOAD_V", "S_COMPUTE"} => rd_cmd = NoCmd
  /\ ms = "S_LOAD_Q" => rd_cmd \in {NoCmd, QCmd(q_tile_idx)}
  /\ ms = "S_LOAD_K" => rd_cmd \in {NoCmd, KCmd(k_tile_idx)}
  /\ ms = "S_LOAD_V" => rd_cmd \in {NoCmd, VCmd(k_tile_idx)}
  /\ ms = "S_COMPUTE" =>
       rd_cmd \in CASE pf_state \in {"PF_CMD_K", "PF_DATA_K"} -> {NoCmd, KCmd(k_tile_idx + 1)}
                    [] pf_state \in {"PF_CMD_V", "PF_DATA_V"} -> {NoCmd, VCmd(k_tile_idx + 1)}
                    [] OTHER -> {NoCmd}

FillQInv ==
  ms = "S_LOAD_Q" /\ q_fill_cnt # 0 =>
    Owed(QCmd(q_tile_idx), q_fill_cnt) /\ Prefix(q_buf, QAddr(q_tile_idx), q_fill_cnt)
FillKInv ==
  ms = "S_LOAD_K" /\ kv_fill_cnt # 0 =>
    /\ Owed(KCmd(k_tile_idx), kv_fill_cnt)
    /\ Prefix(k_buf[active_bank], KAddr(k_tile_idx), kv_fill_cnt)
FillVInv ==
  ms = "S_LOAD_V" /\ kv_fill_cnt # 0 =>
    /\ Owed(VCmd(k_tile_idx), kv_fill_cnt)
    /\ Prefix(v_buf[active_bank], VAddr(k_tile_idx), kv_fill_cnt)
PrefetchInv ==
  /\ ms \in {"S_LOAD_K", "S_LOAD_V"} => pf_state = "PF_IDLE"
  /\ ms = "S_COMPUTE" =>
       /\ LastTile => pf_state = "PF_IDLE"
       /\ pf_state # "PF_IDLE" => pref_target_bank # active_bank
       /\ pf_state = "PF_DATA_K" =>
            /\ Owed(KCmd(k_tile_idx + 1), pf_fill_cnt)
            /\ Prefix(k_buf[pref_target_bank], KAddr(k_tile_idx + 1), pf_fill_cnt)
       /\ pf_state = "PF_DATA_V" =>
            /\ Owed(VCmd(k_tile_idx + 1), pf_fill_cnt)
            /\ Prefix(v_buf[pref_target_bank], VAddr(k_tile_idx + 1), pf_fill_cnt)

LoadInv ==
  CmdInv /\ FillQInv /\ FillKInv /\ FillVInv /\ PrefetchInv /\ LoadedTiles

(* What loading a tile touches: the state of the master FSM, the buffers it *)
(* loads, and the commands and the engine that bring the words.             *)
InputTypeOK ==
  /\ q_buf \in [QWords -> Nat]
  /\ k_buf \in [Banks -> [KVWords -> Nat]] /\ v_buf \in [Banks -> [KVWords -> Nat]]
ReadTypeOK ==
  /\ rd_cmd \in [addr : Nat, n : Nat] /\ wr_cmd \in [addr : Nat, n : Nat]
  /\ req \in [addr : Nat, n : Nat] /\ sent \in 0 .. req.n
  /\ beat \in [addr : Nat, last : BOOLEAN] /\ rd_stall \in 0 .. MaxRdStall
LoadTypeOK == MasterTypeOK /\ InputTypeOK /\ ReadTypeOK

FillInv == LoadTypeOK /\ LoadInv
IInv == TypeOK /\ LoadInv

LEMMA LoadTypes == TypeOK => LoadTypeOK
BY DEF TypeOK, BufferTypeOK, StreamTypeOK, LoadTypeOK, InputTypeOK, ReadTypeOK

LEMMA IsFillInv == IInv => FillInv
BY LoadTypes DEF IInv, FillInv
-----------------------------------------------------------------------------
USE CoreAssumption

Commands == [addr : Nat, n : Nat]

(* Addresses are natural numbers and every command asks for whole tiles. *)
LEMMA CommandTypes ==
  ASSUME NEW t \in Nat
  PROVE  /\ QAddr(t) \in Nat /\ OAddr(t) \in Nat /\ KAddr(t) \in Nat /\ VAddr(t) \in Nat
         /\ QCmd(t) \in Commands /\ OCmd(t) \in Commands
         /\ KCmd(t) \in Commands /\ VCmd(t) \in Commands
<1>1. t * BEATS_PER_TILE_Q \in Nat /\ t * BEATS_PER_TILE_KV \in Nat
  OBVIOUS
<1>2. /\ QAddr(t) \in Nat /\ OAddr(t) \in Nat
      /\ KAddr(t) \in Nat /\ VAddr(t) \in Nat
  BY <1>1 DEF QAddr, OAddr, KAddr, VAddr
<1> QED
  BY <1>2 DEF QCmd, OCmd, KCmd, VCmd, Commands

LEMMA InitType == Init => TypeOK
<1> SUFFICES ASSUME Init PROVE TypeOK
  OBVIOUS
<1>1. <<>> \in Context
  BY DEF Context
<1>2. MasterTypeOK
  BY DEF Init, MasterTypeOK, MasterStates, QTiles, KTiles, Banks, PrefetchStates, Batches
<1>3. BufferTypeOK
  BY <1>1 DEF Init, BufferTypeOK
<1>4. ComputeTypeOK
  BY <1>1 DEF Init, ComputeTypeOK, CompStates, Batches, Torn, TilePairs
<1>5. StreamTypeOK
  <2>1. req \in Commands /\ wreq \in Commands /\ sent \in 0 .. req.n /\ wsent \in 0 .. wreq.n
    BY DEF Init, Read!Init, Write!Init, Commands
  <2>2. beat \in [addr : Nat, last : BOOLEAN]
    BY DEF Init, Read!Init, Read!NoBeat
  <2>3. stored \in [addr : Nat, word : Context]
    BY <1>1 DEF Init, Write!Init, Write!NoStore
  <2>4. rd_stall \in 0 .. MaxRdStall /\ wr_stall \in 0 .. MaxWrStall
    BY DEF Init
  <2>5. rd_cmd \in Commands /\ wr_cmd \in Commands
    BY DEF Init, NoCmd, Commands
  <2>6. o_mem \in [OWords -> Context]
    BY <1>1 DEF Init
  <2> QED
    BY <2>1, <2>2, <2>3, <2>4, <2>5, <2>6 DEF StreamTypeOK, Commands
<1>6. FlagTypeOK
  <2>1. busy \in BOOLEAN /\ done \in BOOLEAN /\ comp_start \in BOOLEAN
    BY DEF Init
  <2>2. comp_done \in BOOLEAN
    BY DEF Init
  <2>3. wresp \in BOOLEAN
    BY DEF Init, Write!Init
  <2> QED
    BY <2>1, <2>2, <2>3 DEF FlagTypeOK
<1> QED
  BY <1>2, <1>3, <1>4, <1>5, <1>6 DEF TypeOK

LEMMA InitIInv == Init => IInv
<1> SUFFICES ASSUME Init PROVE IInv
  OBVIOUS
<1>1. TypeOK
  BY InitType
<1>2. LoadInv
  BY DEF Init, LoadInv, CmdInv, FillQInv, FillKInv, FillVInv, PrefetchInv, LoadedTiles
<1> QED
  BY <1>1, <1>2 DEF IInv
-----------------------------------------------------------------------------
(* ---- Types ---- *)

(* The read engine keeps its types and hands over natural addresses. *)
LEMMA ReadType ==
  ASSUME ReadTypeOK, NEW rdv \in BOOLEAN, ReadTick(rdv)
  PROVE  /\ req' \in Commands /\ sent' \in 0 .. req'.n
         /\ beat' \in [addr : Nat, last : BOOLEAN] /\ rd_stall' \in 0 .. MaxRdStall
<1> USE DEF ReadTypeOK, Commands
<1>1. CASE ~rdv /\ rd_ready /\ rd_cmd # NoCmd /\ Read!Accept(rd_cmd.addr, rd_cmd.n - 1) /\ rd_stall' = 0
  BY <1>1 DEF Read!Accept
<1>2. CASE UNCHANGED readVars
  BY <1>2 DEF readVars
<1>3. CASE Read!Deliver /\ UNCHANGED rd_stall
  BY <1>3 DEF Read!Deliver
<1>4. CASE rd_stall < MaxRdStall /\ rd_stall' = rd_stall + 1 /\ UNCHANGED <<req, sent, beat>>
  BY <1>4
<1> QED
  BY <1>1, <1>2, <1>3, <1>4 DEF ReadTick

LEMMA WriteType ==
  ASSUME TypeOK, NEW taken \in BOOLEAN, WriteTick(taken)
  PROVE  /\ wreq' \in Commands /\ wsent' \in 0 .. wreq'.n
         /\ stored' \in [addr : Nat, word : Context] /\ wr_stall' \in 0 .. MaxWrStall
<1> USE DEF StreamTypeOK, Commands, TypeOK
<1>1. CASE Write!Accept(wr_cmd.addr, wr_cmd.n - 1) /\ wr_stall' = 0
  BY <1>1 DEF Write!Accept
<1>2. CASE UNCHANGED storeVars
  BY <1>2 DEF storeVars
<1>3. CASE dma_wr_data_valid /\ Write!Store(o_buf[o_write_cnt]) /\ UNCHANGED wr_stall
  <2>1. o_buf[o_write_cnt] \in Context
    BY <1>3 DEF dma_wr_data_valid, MasterTypeOK, BufferTypeOK, QWords
  <2> QED
    BY <1>3, <2>1 DEF Write!Store
<1>4. CASE Write!Respond /\ UNCHANGED wr_stall
  BY <1>4 DEF Write!Respond
<1>5. CASE wr_stall < MaxWrStall /\ wr_stall' = wr_stall + 1 /\ UNCHANGED <<wreq, wsent, wresp, stored>>
  BY <1>5
<1> QED
  BY <1>1, <1>2, <1>3, <1>4, <1>5 DEF WriteTick

(* What MasterTick has to keep. *)
MasterTypes == MasterTypeOK /\ InputTypeOK /\ rd_cmd \in Commands /\ wr_cmd \in Commands

LEMMA PulsesType ==
  ASSUME NEW d, NEW start, NEW rd \in Commands, NEW wr \in Commands, Pulses(d, start, rd, wr)
  PROVE  rd_cmd' \in Commands /\ wr_cmd' \in Commands
BY DEF Pulses

LEMMA QuietType == Quiet => rd_cmd' \in Commands /\ wr_cmd' \in Commands
BY DEF Quiet, Pulses, NoCmd, Commands

LEMMA NoCmdType == NoCmd \in Commands
BY DEF NoCmd, Commands

LEMMA ResetType ==
  ASSUME LoadTypeOK, SoftReset PROVE MasterTypes'
<1> USE DEF LoadTypeOK, SoftReset
<1>1. MasterTypeOK'
  BY DEF MasterTypeOK, MasterStates, fillVars, bankVars, pfVars, outVars
<1>2. InputTypeOK'
  BY DEF InputTypeOK, bufVars
<1> QED
  BY <1>1, <1>2, QuietType DEF MasterTypes

LEMMA IdleType ==
  ASSUME LoadTypeOK, NEW start \in BOOLEAN, Idle(start) PROVE MasterTypes'
<1> USE DEF LoadTypeOK, Idle
<1>1. MasterTypeOK'
  BY DEF MasterTypeOK, MasterStates, PrefetchStates, Banks, QTiles, KTiles, KVWords,
         fsmVars, bankVars, pfVars, outVars
<1>2. InputTypeOK'
  BY DEF InputTypeOK, bufVars
<1> QED
  BY <1>1, <1>2, QuietType DEF MasterTypes

LEMMA LoadQType ==
  ASSUME LoadTypeOK, NEW rdv \in BOOLEAN, beat' \in [addr : Nat, last : BOOLEAN], LoadQ(rdv)
  PROVE  MasterTypes'
<1> USE DEF LoadTypeOK, LoadQ
<1>1. rd_cmd' \in Commands /\ wr_cmd' \in Commands
  <2>1. q_tile_idx \in Nat
    BY DEF MasterTypeOK, QTiles
  <2>2. Pulses(FALSE, FALSE, QCmd(q_tile_idx), NoCmd) \/ Quiet
    OBVIOUS
  <2> QED
    BY <2>1, <2>2, CommandTypes, PulsesType, QuietType, NoCmdType
<1>2. MasterTypeOK'
  <2> USE DEF MasterTypeOK, fsmVars, bankVars, pfVars, outVars
  <2>1. /\ k_tile_idx' = k_tile_idx /\ q_tile_idx' = q_tile_idx
        /\ UNCHANGED <<kv_fill_cnt, bankVars, pfVars, outVars>>
    BY DEF GoTo
  <2>2. ms' \in MasterStates
    BY DEF GoTo, MasterStates
  <2>3. q_fill_cnt' \in 0 .. BEATS_PER_TILE_Q + 1
    <3>1. CASE q_fill_cnt' = Issued(q_fill_cnt) /\ q_fill_cnt = 0
      BY <3>1 DEF Issued
    <3>2. CASE q_fill_cnt' \in {q_fill_cnt, q_fill_cnt + 1} /\ q_fill_cnt \in QWords
      BY <3>2 DEF QWords
    <3> QED
      BY <3>1, <3>2
  <2> QED
    BY <2>1, <2>2, <2>3
<1>3. InputTypeOK'
  BY DEF InputTypeOK
<1> QED
  BY <1>1, <1>2, <1>3 DEF MasterTypes

(* Storing a word in a bank keeps the banks' type. *)
LEMMA StoreType ==
  ASSUME NEW buf \in [Banks -> [KVWords -> Nat]], NEW b \in Banks, NEW w, NEW a \in Nat
  PROVE  [buf EXCEPT ![b][w] = a] \in [Banks -> [KVWords -> Nat]]
OBVIOUS

LEMMA InitContextType ==
  ASSUME LoadTypeOK, InitContext PROVE MasterTypes'
<1> USE DEF LoadTypeOK, InitContext
<1>1. MasterTypeOK'
  BY DEF MasterTypeOK, MasterStates, PrefetchStates, Banks, QTiles, KTiles, KVWords, outVars
<1>2. InputTypeOK'
  BY DEF InputTypeOK, bufVars
<1> QED
  BY <1>1, <1>2, QuietType DEF MasterTypes

LEMMA LoadKType ==
  ASSUME LoadTypeOK, NEW rdv \in BOOLEAN, beat' \in [addr : Nat, last : BOOLEAN], LoadK(rdv)
  PROVE  MasterTypes'
<1> USE DEF LoadTypeOK, LoadK
<1>1. rd_cmd' \in Commands /\ wr_cmd' \in Commands
  <2>1. k_tile_idx \in Nat
    BY DEF MasterTypeOK, KTiles
  <2>2. Pulses(FALSE, FALSE, KCmd(k_tile_idx), NoCmd) \/ Quiet
    OBVIOUS
  <2> QED
    BY <2>1, <2>2, CommandTypes, PulsesType, QuietType, NoCmdType
<1>2. MasterTypeOK'
  <2> USE DEF MasterTypeOK, fsmVars, bankVars, pfVars, outVars
  <2>1. /\ k_tile_idx' = k_tile_idx /\ q_tile_idx' = q_tile_idx
        /\ UNCHANGED <<q_fill_cnt, bankVars, pfVars, outVars>>
    BY DEF GoTo
  <2>2. ms' \in MasterStates
    BY DEF GoTo, MasterStates
  <2>3. kv_fill_cnt' \in 0 .. BEATS_PER_TILE_KV + 1
    <3>1. CASE kv_fill_cnt' = Issued(kv_fill_cnt) /\ kv_fill_cnt = 0
      BY <3>1 DEF Issued
    <3>2. CASE kv_fill_cnt' \in {0, kv_fill_cnt, kv_fill_cnt + 1} /\ kv_fill_cnt \in KVWords
      BY <3>2 DEF KVWords
    <3> QED
      BY <3>1, <3>2
  <2> QED
    BY <2>1, <2>2, <2>3
<1>3. InputTypeOK'
  <2>1. beat'.addr \in Nat /\ active_bank \in Banks /\ k_buf \in [Banks -> [KVWords -> Nat]]
    BY DEF MasterTypeOK, InputTypeOK
  <2>2. k_buf' = k_buf \/ k_buf' = [k_buf EXCEPT ![active_bank][kv_fill_cnt] = beat'.addr]
    OBVIOUS
  <2>3. k_buf' \in [Banks -> [KVWords -> Nat]]
    BY <2>1, <2>2, StoreType
  <2> QED
    BY <2>3 DEF InputTypeOK
<1> QED
  BY <1>1, <1>2, <1>3 DEF MasterTypes

LEMMA LoadVType ==
  ASSUME LoadTypeOK, NEW rdv \in BOOLEAN, beat' \in [addr : Nat, last : BOOLEAN], LoadV(rdv)
  PROVE  MasterTypes'
<1> USE DEF LoadTypeOK, LoadV
<1>1. rd_cmd' \in Commands /\ wr_cmd' \in Commands
  <2>1. k_tile_idx \in Nat
    BY DEF MasterTypeOK, KTiles
  <2>2. Pulses(FALSE, FALSE, VCmd(k_tile_idx), NoCmd) \/ Quiet
    OBVIOUS
  <2> QED
    BY <2>1, <2>2, CommandTypes, PulsesType, QuietType, NoCmdType
<1>2. MasterTypeOK'
  <2> USE DEF MasterTypeOK, fsmVars, bankVars, pfVars, outVars
  <2>1. /\ k_tile_idx' = k_tile_idx /\ q_tile_idx' = q_tile_idx
        /\ UNCHANGED <<q_fill_cnt, bankVars, pfVars, outVars>>
    BY DEF GoTo
  <2>2. ms' \in MasterStates
    BY DEF GoTo, MasterStates
  <2>3. kv_fill_cnt' \in 0 .. BEATS_PER_TILE_KV + 1
    <3>1. CASE kv_fill_cnt' = Issued(kv_fill_cnt) /\ kv_fill_cnt = 0
      BY <3>1 DEF Issued
    <3>2. CASE kv_fill_cnt' \in {kv_fill_cnt, kv_fill_cnt + 1} /\ kv_fill_cnt \in KVWords
      BY <3>2 DEF KVWords
    <3> QED
      BY <3>1, <3>2
  <2> QED
    BY <2>1, <2>2, <2>3
<1>3. InputTypeOK'
  <2>1. beat'.addr \in Nat /\ active_bank \in Banks /\ v_buf \in [Banks -> [KVWords -> Nat]]
    BY DEF MasterTypeOK, InputTypeOK
  <2>2. v_buf' = v_buf \/ v_buf' = [v_buf EXCEPT ![active_bank][kv_fill_cnt] = beat'.addr]
    OBVIOUS
  <2>3. v_buf' \in [Banks -> [KVWords -> Nat]]
    BY <2>1, <2>2, StoreType
  <2> QED
    BY <2>3 DEF InputTypeOK
<1> QED
  BY <1>1, <1>2, <1>3 DEF MasterTypes

LEMMA PrefetchStepType ==
  ASSUME MasterTypeOK, NEW rdv \in BOOLEAN, PrefetchStep(rdv)
  PROVE  /\ pref_target_bank' \in Banks /\ pf_state' \in PrefetchStates
         /\ pf_fill_cnt' \in 0 .. BEATS_PER_TILE_KV + 1
         /\ pf_state' \in {"PF_DATA_K", "PF_DATA_V"} => pf_fill_cnt' \in KVWords
<1> USE DEF MasterTypeOK, PrefetchStates, Banks, KVWords, pfVars
<1>1. CASE PrefetchIdle
  BY <1>1 DEF PrefetchIdle
<1>2. CASE PrefetchIssue
  BY <1>2 DEF PrefetchIssue
<1>3. CASE PrefetchWordK(rdv)
  BY <1>3 DEF PrefetchWordK, LastWord
<1>4. CASE PrefetchWordV(rdv)
  BY <1>4 DEF PrefetchWordV, LastWord
<1>5. CASE PrefetchDone
  BY <1>5 DEF PrefetchDone
<1> QED
  BY <1>1, <1>2, <1>3, <1>4, <1>5 DEF PrefetchStep

LEMMA ComputeType ==
  ASSUME LoadTypeOK, NEW rdv \in BOOLEAN, beat' \in [addr : Nat, last : BOOLEAN], Compute(rdv)
  PROVE  MasterTypes'
<1> USE DEF LoadTypeOK, Compute
<1>1. rd_cmd' \in Commands /\ wr_cmd' \in Commands
  <2>1. k_tile_idx + 1 \in Nat
    BY DEF MasterTypeOK, KTiles
  <2>2. PrefetchCmd \in Commands
    BY <2>1, CommandTypes, NoCmdType DEF PrefetchCmd
  <2> QED
    BY <2>2, NoCmdType, PulsesType
<1>2. MasterTypeOK'
  <2> USE DEF MasterTypeOK, fsmVars, bankVars, fillVars
  <2>1. CASE PrefetchStep(rdv) /\ UNCHANGED <<fsmVars, active_bank, norm_qi>>
    BY <2>1, PrefetchStepType
  <2>2. CASE ToNormalize
    BY <2>2 DEF ToNormalize, GoTo, MasterStates, PrefetchStates, Batches
  <2>3. CASE NextTile
    BY <2>3 DEF NextTile, LastTile, KTiles, Banks, PrefetchStates
  <2> QED
    BY <2>1, <2>2, <2>3 DEF Computing, PulseLost
<1>3. InputTypeOK'
  BY DEF InputTypeOK, MasterTypeOK, PrefetchStore
<1> QED
  BY <1>1, <1>2, <1>3 DEF MasterTypes

LEMMA NormalizeType ==
  ASSUME LoadTypeOK, NormalizeRows PROVE MasterTypes'
<1> USE DEF LoadTypeOK, NormalizeRows
<1>1. MasterTypeOK'
  BY DEF MasterTypeOK, MasterStates, Batches, GoTo, fsmVars, fillVars, bankVars, pfVars
<1>2. InputTypeOK'
  BY DEF InputTypeOK
<1> QED
  BY <1>1, <1>2, QuietType DEF MasterTypes

LEMMA WriteOType ==
  ASSUME LoadTypeOK, NEW taken \in BOOLEAN, WriteO(taken) PROVE MasterTypes'
<1> USE DEF LoadTypeOK, WriteO
<1>1. rd_cmd' \in Commands /\ wr_cmd' \in Commands
  <2>1. q_tile_idx \in Nat
    BY DEF MasterTypeOK, QTiles
  <2>2. Pulses(FALSE, FALSE, NoCmd, OCmd(q_tile_idx)) \/ Quiet
    OBVIOUS
  <2> QED
    BY <2>1, <2>2, CommandTypes, PulsesType, QuietType, NoCmdType
<1>2. MasterTypeOK'
  <2> USE DEF MasterTypeOK, fsmVars, fillVars, bankVars, pfVars
  <2>1. ms' \in MasterStates /\ k_tile_idx' = k_tile_idx /\ q_tile_idx' = q_tile_idx
    BY DEF GoTo, MasterStates
  <2>2. o_write_cnt' \in 0 .. BEATS_PER_TILE_Q + 1
    <3>1. CASE o_write_cnt' \in {0, 1}
      BY <3>1
    <3>2. CASE o_write_cnt' \in {o_write_cnt, o_write_cnt + 1} /\ o_write_cnt \in QWords
      BY <3>2 DEF QWords
    <3> QED
      BY <3>1, <3>2
  <2> QED
    BY <2>1, <2>2
<1>3. InputTypeOK'
  BY DEF InputTypeOK, bufVars
<1> QED
  BY <1>1, <1>2, <1>3 DEF MasterTypes

LEMMA NextQType ==
  ASSUME LoadTypeOK, NextQ PROVE MasterTypes'
<1> USE DEF LoadTypeOK, NextQ
<1>1. MasterTypeOK'
  BY DEF MasterTypeOK, MasterStates, QTiles, GoTo, bankVars, pfVars, outVars
<1>2. InputTypeOK'
  BY DEF InputTypeOK, bufVars
<1> QED
  BY <1>1, <1>2, QuietType DEF MasterTypes

LEMMA DoneType ==
  ASSUME LoadTypeOK, Done PROVE MasterTypes'
<1> USE DEF LoadTypeOK, Done
<1>1. MasterTypeOK'
  BY DEF MasterTypeOK, MasterStates, fillVars, bankVars, pfVars, outVars
<1>2. InputTypeOK'
  BY DEF InputTypeOK, bufVars
<1> QED
  BY <1>1, <1>2, PulsesType, NoCmdType DEF MasterTypes

LEMMA MasterTickType ==
  ASSUME LoadTypeOK, NEW start \in BOOLEAN, NEW rdv \in BOOLEAN, NEW taken \in BOOLEAN,
         beat' \in [addr : Nat, last : BOOLEAN],
         SoftReset \/ MasterTick(start, rdv, taken)
  PROVE  MasterTypes'
BY ResetType, IdleType, LoadQType, InitContextType, LoadKType, LoadVType, ComputeType,
   NormalizeType, WriteOType, NextQType, DoneType DEF MasterTick

LEMMA OutputType ==
  ASSUME TypeOK, NEW start \in BOOLEAN, NEW rdv \in BOOLEAN, NEW taken \in BOOLEAN,
         SoftReset \/ MasterTick(start, rdv, taken)
  PROVE  o_buf' \in [QWords -> Context]
<1>1. o_buf \in [QWords -> Context]
  BY DEF TypeOK, BufferTypeOK
<1>2. CASE NormalizeRows
  <2>1. row_ctx[norm_qi] \in Context
    BY DEF TypeOK, MasterTypeOK, ComputeTypeOK
  <2> QED
    BY <1>1, <1>2, <2>1 DEF NormalizeRows
<1>3. CASE ~NormalizeRows
  <2>1. o_buf' = o_buf
    BY <1>3 DEF SoftReset, MasterTick, Idle, LoadQ, InitContext, LoadK, LoadV, Compute,
                WriteO, NextQ, Done, bufVars
  <2> QED
    BY <1>1, <2>1
<1> QED
  BY <1>2, <1>3

LEMMA ComputeEngineType ==
  ASSUME TypeOK, CompTick, NEW init, RowCtxTick(init)
  PROVE  ComputeTypeOK'
<1> USE DEF TypeOK, ComputeTypeOK
<1>1. Torn \in TilePairs /\ TileInUse \in TilePairs
  BY DEF MasterTypeOK, QTiles, KTiles, Torn, TilePairs, TileInUse
<1>2. /\ cs' \in CompStates /\ batch' \in Batches /\ comp_t' \in 0 .. BatchCycles - 1
      /\ ctx0' \in Context /\ operand' \in TilePairs
  <2> USE DEF CompStates, Batches
  <2>1. CASE CompIdle
    BY <2>1 DEF CompIdle
  <2>2. CASE CompRun
    BY <1>1, <2>2 DEF CompRun
  <2>3. CASE BatchEnd
    BY <2>3 DEF BatchEnd
  <2>4. CASE CompDone
    BY <2>4 DEF CompDone
  <2> QED
    BY <2>1, <2>2, <2>3, <2>4 DEF CompTick
<1>3. Folded \in Context
  BY <1>1 DEF Folded, Context
<1>4. <<>> \in Context
  BY DEF Context
<1>5. row_ctx' \in [Batches -> Context]
  BY <1>3, <1>4 DEF RowCtxTick
<1> QED
  BY <1>2, <1>5

LEMMA StoredType ==
  ASSUME TypeOK, NEW taken, stored' \in [addr : Nat, word : Context], OMemTick(taken)
  PROVE  o_mem' \in [OWords -> Context]
<1>1. <<>> \in Context
  BY DEF Context
<1> QED
  BY <1>1 DEF TypeOK, StreamTypeOK, OMemTick

LEMMA FlagType ==
  ASSUME TypeOK, NEW start \in BOOLEAN, NEW rdv \in BOOLEAN, NEW taken \in BOOLEAN,
         WriteTick(taken), SoftReset \/ MasterTick(start, rdv, taken), CompTick
  PROVE  FlagTypeOK'
<1> USE DEF TypeOK, FlagTypeOK
<1>1. wresp' \in BOOLEAN
  BY DEF WriteTick, Write!Accept, Write!Store, Write!Respond, storeVars
<1>2. comp_done' \in BOOLEAN
  BY DEF CompTick, CompIdle, CompRun, BatchEnd, CompDone
<1>4. busy' \in BOOLEAN
  BY DEF SoftReset, MasterTick, Idle, LoadQ, InitContext, LoadK, LoadV, Compute, Computing,
         ToNormalize, NextTile, PulseLost, NormalizeRows, WriteO, NextQ, Done, GoTo, fsmVars
<1>5. \E rd, wr : \E d \in BOOLEAN, st \in BOOLEAN : Pulses(d, st, rd, wr)
  BY DEF SoftReset, MasterTick, Idle, LoadQ, InitContext, LoadK, LoadV, Compute,
         NormalizeRows, WriteO, NextQ, Done, Quiet
<1>6. done' \in BOOLEAN /\ comp_start' \in BOOLEAN
  BY <1>5 DEF Pulses
<1> QED
  BY <1>1, <1>2, <1>4, <1>6

LEMMA ClockType ==
  ASSUME TypeOK, NEW sr \in BOOLEAN, Clock(sr) PROVE TypeOK'
<1>1. PICK start \in BOOLEAN, rdv \in BOOLEAN, taken \in BOOLEAN :
        /\ ReadTick(rdv)
        /\ WriteTick(taken)
        /\ SoftReset \/ MasterTick(start, rdv, taken)
        /\ CompTick
        /\ RowCtxTick(ms = "S_INIT_CONTEXT" /\ ~sr)
        /\ OMemTick(taken)
  BY DEF Clock
<1>2. /\ req' \in Commands /\ sent' \in 0 .. req'.n
      /\ beat' \in [addr : Nat, last : BOOLEAN] /\ rd_stall' \in 0 .. MaxRdStall
  BY <1>1, ReadType, LoadTypes DEF LoadTypeOK
<1>3. /\ wreq' \in Commands /\ wsent' \in 0 .. wreq'.n
      /\ stored' \in [addr : Nat, word : Context] /\ wr_stall' \in 0 .. MaxWrStall
  BY <1>1, WriteType
<1>4. MasterTypes' /\ BufferTypeOK'
  BY <1>1, <1>2, MasterTickType, OutputType, LoadTypes
     DEF MasterTypes, InputTypeOK, BufferTypeOK
<1>5. ComputeTypeOK'
  BY <1>1, ComputeEngineType
<1>6. o_mem' \in [OWords -> Context]
  BY <1>1, <1>3, StoredType
<1>7. FlagTypeOK'
  BY <1>1, FlagType
<1>8. StreamTypeOK'
  BY <1>2, <1>3, <1>4, <1>6 DEF StreamTypeOK, MasterTypes, Commands
<1> QED
  BY <1>4, <1>5, <1>7, <1>8 DEF TypeOK, MasterTypes

LEMMA NextType == TypeOK /\ [Next]_vars => TypeOK'
<1> SUFFICES ASSUME TypeOK, [Next]_vars PROVE TypeOK'
  OBVIOUS
<1>1. CASE Next
  BY <1>1, ClockType DEF Next
<1>2. CASE UNCHANGED vars
  BY <1>2 DEF vars, masterVars, fsmVars, fillVars, bankVars, pfVars, outVars, pulseVars,
              bufVars, compVars, readVars, storeVars, TypeOK, MasterTypeOK, FlagTypeOK,
              BufferTypeOK, ComputeTypeOK, StreamTypeOK
<1> QED
  BY <1>1, <1>2

(* Every register keeps to its range whatever the memory and the host do.   *)
THEOREM TypeInvariance == Spec => []TypeOK
<1>1. Init => TypeOK
  BY InitType
<1>2. TypeOK /\ [Next]_vars => TypeOK'
  BY NextType
<1> QED
  BY <1>1, <1>2, PTL DEF Spec
-----------------------------------------------------------------------------
(* ---- Tiles arrive whole ---- *)

(* A command that is owed words hands over the next one, or keeps owing it. *)
LEMMA WordArrives ==
  ASSUME ReadTypeOK, NEW cmd \in Commands, NEW cnt \in Nat, Owed(cmd, cnt),
         NEW rdv \in BOOLEAN, ReadTick(rdv)
  PROVE  /\ req' = cmd
         /\ rdv => /\ sent' = cnt
                   /\ beat'.addr = cmd.addr + cnt - 1
                   /\ beat'.last => cnt = cmd.n
         /\ ~rdv => sent' = cnt - 1
<1> USE DEF ReadTypeOK, Commands, Owed, rd_ready
<1>1. CASE rdv
  <2>1. Read!Deliver
    BY <1>1 DEF ReadTick
  <2>2. req = cmd /\ sent = cnt - 1
    BY <2>1 DEF Read!Deliver
  <2>3. sent' = cnt /\ beat'.addr = cmd.addr + cnt - 1 /\ req' = cmd
    BY <2>1, <2>2 DEF Read!Deliver
  <2>4. beat'.last = (sent + 1 = req.n)
    BY <2>1 DEF Read!Deliver
  <2>5. (sent + 1 = req.n) => cnt = cmd.n
    BY <2>2
  <2>6. beat'.last => cnt = cmd.n
    BY <2>4, <2>5
  <2> QED
    BY <1>1, <2>3, <2>6
<1>2. CASE ~rdv /\ rd_ready
  <2>1. rd_cmd = cmd /\ cnt = 1 /\ cmd.n # 0
    BY <1>2
  <2>2. Read!Accept(cmd.addr, cmd.n - 1)
    BY <1>2, <2>1 DEF ReadTick, NoCmd
  <2>3. req' = [addr |-> cmd.addr, n |-> cmd.n] /\ sent' = 0
    BY <2>2 DEF Read!Accept
  <2> QED
    BY <1>2, <2>1, <2>3
<1>3. CASE ~rdv /\ ~rd_ready
  <2>1. UNCHANGED <<req, sent>>
    BY <1>3 DEF ReadTick, readVars
  <2> QED
    BY <1>3, <2>1
<1> QED
  BY <1>1, <1>2, <1>3

(* A command put into a ready read engine's register is owed its first word.*)
LEMMA CommandIssued ==
  ASSUME ReadTypeOK, NEW cmd \in Commands, cmd.n # 0, rd_cmd \in {NoCmd, cmd},
         NEW rdv \in BOOLEAN, ReadTick(rdv), rd_ready, rd_cmd' = cmd
  PROVE  (rd_ready' /\ rd_cmd' = cmd) \/ (req' = cmd /\ sent' = 0)
<1> USE DEF ReadTypeOK, Commands, rd_ready
<1>1. ~rdv
  BY DEF ReadTick, Read!Deliver
<1>2. CASE rd_cmd = NoCmd
  BY <1>1, <1>2 DEF ReadTick, readVars
<1>3. CASE rd_cmd = cmd /\ rd_cmd # NoCmd
  <2>1. Read!Accept(cmd.addr, cmd.n - 1)
    BY <1>1, <1>3 DEF ReadTick
  <2> QED
    BY <2>1 DEF Read!Accept
<1> QED
  BY <1>2, <1>3

(* Storing the word expected next extends the prefix; the last completes it.*)
LEMMA PrefixGrows ==
  ASSUME NEW n \in Nat, NEW buf \in [1 .. n -> Nat], NEW addr \in Nat,
         NEW cnt \in 1 .. n, Prefix(buf, addr, cnt)
  PROVE  LET filled == [buf EXCEPT ![cnt] = addr + cnt - 1]
         IN  Prefix(filled, addr, cnt + 1) /\ (cnt = n => HoldsTile(filled, addr))
BY DEF Prefix, HoldsTile

(* The same in a bank of a K/V buffer, and the other bank is left alone.    *)
LEMMA WordStored ==
  ASSUME NEW buf \in [Banks -> [KVWords -> Nat]], NEW b \in Banks, NEW addr \in Nat,
         NEW cnt \in KVWords, Prefix(buf[b], addr, cnt)
  PROVE  LET new == [buf EXCEPT ![b][cnt] = addr + cnt - 1]
         IN  /\ Prefix(new[b], addr, cnt + 1)
             /\ cnt = BEATS_PER_TILE_KV => HoldsTile(new[b], addr)
             /\ \A c \in Banks : c # b => new[c] = buf[c]
<1> DEFINE new == [buf EXCEPT ![b][cnt] = addr + cnt - 1]
<1>1. new[b] = [buf[b] EXCEPT ![cnt] = addr + cnt - 1]
  OBVIOUS
<1>2. \A c \in Banks : c # b => new[c] = buf[c]
  OBVIOUS
<1>3. buf[b] \in [1 .. BEATS_PER_TILE_KV -> Nat] /\ cnt \in 1 .. BEATS_PER_TILE_KV
  BY DEF KVWords
<1> HIDE DEF new
<1>4. Prefix(new[b], addr, cnt + 1)
  BY <1>1, <1>3 DEF Prefix
<1>5. cnt = BEATS_PER_TILE_KV => HoldsTile(new[b], addr)
  BY <1>1, <1>3 DEF Prefix, HoldsTile
<1>6. /\ Prefix(new[b], addr, cnt + 1)
      /\ cnt = BEATS_PER_TILE_KV => HoldsTile(new[b], addr)
      /\ \A c \in Banks : c # b => new[c] = buf[c]
  BY <1>2, <1>4, <1>5
<1> QED
  BY <1>6 DEF new

(* States in which nothing has been loaded yet, or is loaded no more. *)
LEMMA NothingLoading ==
  ASSUME rd_cmd' = NoCmd,
         \/ ms' \in {"S_IDLE", "S_NORMALIZE", "S_WRITE_O", "S_NEXT_Q", "S_DONE"}
         \/ ms' = "S_LOAD_Q" /\ q_fill_cnt' = 0
  PROVE  LoadInv'
BY DEF LoadInv, CmdInv, FillQInv, FillKInv, FillVInv, PrefetchInv, LoadedTiles

LEMMA OtherStates ==
  ASSUME FillInv, NEW start \in BOOLEAN, NEW taken \in BOOLEAN,
         SoftReset \/ Idle(start) \/ NormalizeRows \/ WriteO(taken) \/ NextQ \/ Done
  PROVE  LoadInv'
<1>1. rd_cmd' = NoCmd
  BY DEF SoftReset, Idle, NormalizeRows, WriteO, NextQ, Done, Quiet, Pulses
<1>2. \/ ms' \in {"S_IDLE", "S_NORMALIZE", "S_WRITE_O", "S_NEXT_Q", "S_DONE"}
      \/ ms' = "S_LOAD_Q" /\ q_fill_cnt' = 0
  BY DEF SoftReset, Idle, NormalizeRows, WriteO, NextQ, Done, GoTo, fsmVars
<1> QED
  BY <1>1, <1>2, NothingLoading

LEMMA InitContextLoads ==
  ASSUME FillInv, InitContext PROVE LoadInv'
BY DEF FillInv, InitContext, Quiet, Pulses, bufVars,
       LoadInv, CmdInv, FillQInv, FillKInv, FillVInv, PrefetchInv, LoadedTiles

LEMMA LoadQLoads ==
  ASSUME FillInv, NEW rdv \in BOOLEAN, ReadTick(rdv), LoadQ(rdv)
  PROVE  LoadInv'
<1> DEFINE cmd == QCmd(q_tile_idx)
<1>1. /\ cmd \in Commands /\ cmd.n = BEATS_PER_TILE_Q /\ cmd.addr = QAddr(q_tile_idx)
      /\ QAddr(q_tile_idx) \in Nat
  BY CommandTypes DEF FillInv, LoadTypeOK, MasterTypeOK, QTiles, QCmd
<1>2. /\ ms = "S_LOAD_Q" /\ q_tile_idx' = q_tile_idx
      /\ rd_cmd \in {NoCmd, cmd} /\ ReadTypeOK /\ q_buf \in [QWords -> Nat]
  BY DEF FillInv, LoadTypeOK, InputTypeOK, LoadInv, CmdInv, LoadQ, GoTo, fsmVars
<1>3. CASE q_fill_cnt = 0
  <2>1. ms' = ms /\ rd_cmd' = cmd /\ q_buf' = q_buf /\ q_fill_cnt' = Issued(0)
    BY <1>3 DEF LoadQ, Pulses, fsmVars, QWords
  <2>2. rd_ready => (rd_ready' /\ rd_cmd' = cmd) \/ (req' = cmd /\ sent' = 0)
    BY <1>1, <1>2, <2>1, CommandIssued
  <2>3. FillQInv'
    <3>1. SUFFICES ASSUME q_fill_cnt' # 0
                   PROVE  (Owed(cmd, 1) /\ Prefix(q_buf, QAddr(q_tile_idx), 1))'
      BY <2>1 DEF FillQInv, Issued
    <3>2. rd_ready
      BY <2>1, <3>1 DEF Issued
    <3> QED
      BY <1>1, <1>2, <2>1, <2>2, <3>2 DEF Owed, Prefix, QWords, QCmd, QAddr
  <2> QED
    BY <1>2, <2>1, <2>3
       DEF LoadInv, CmdInv, FillKInv, FillVInv, PrefetchInv, LoadedTiles, QCmd, QAddr
<1>4. CASE q_fill_cnt # 0
  <2>1. q_fill_cnt \in QWords /\ Quiet
    BY <1>4 DEF LoadQ
  <2>2. rd_cmd' = NoCmd
    BY <2>1 DEF Quiet, Pulses
  <2>3. Owed(cmd, q_fill_cnt) /\ Prefix(q_buf, QAddr(q_tile_idx), q_fill_cnt)
    BY <1>2, <1>4 DEF FillInv, LoadInv, FillQInv
  <2>4. /\ req' = cmd
        /\ rdv => /\ sent' = q_fill_cnt
                  /\ beat'.addr = cmd.addr + q_fill_cnt - 1
                  /\ beat'.last => q_fill_cnt = cmd.n
        /\ ~rdv => sent' = q_fill_cnt - 1
    BY <1>1, <1>2, <2>1, <2>3, WordArrives DEF QWords
  <2>5. CASE ~rdv
    <3>1. UNCHANGED <<ms, q_fill_cnt, q_buf>>
      BY <2>1, <1>4, <2>5 DEF LoadQ, fsmVars
    <3>2. FillQInv'
      BY <1>2, <2>1, <2>3, <2>4, <2>5, <3>1 DEF FillQInv, Owed, Prefix, QCmd, QAddr
    <3> QED
      BY <1>2, <2>2, <3>1, <3>2
         DEF LoadInv, CmdInv, FillKInv, FillVInv, PrefetchInv, LoadedTiles
  <2>6. CASE rdv
    <3>1. /\ q_buf' = [q_buf EXCEPT ![q_fill_cnt] = QAddr(q_tile_idx) + q_fill_cnt - 1]
          /\ q_fill_cnt' = q_fill_cnt + 1
          /\ ms' = IF q_fill_cnt = BEATS_PER_TILE_Q THEN "S_INIT_CONTEXT" ELSE ms
      BY <1>1, <1>4, <2>1, <2>4, <2>6 DEF LoadQ, GoTo, LastWord
    <3>2. /\ Prefix(q_buf', QAddr(q_tile_idx), q_fill_cnt + 1)
          /\ q_fill_cnt = BEATS_PER_TILE_Q => HoldsTile(q_buf', QAddr(q_tile_idx))
      BY <1>1, <1>2, <2>1, <2>3, <3>1, PrefixGrows DEF QWords
    <3>3. FillQInv'
      BY <1>1, <1>2, <2>1, <2>4, <2>6, <3>1, <3>2
         DEF FillQInv, Owed, Prefix, QCmd, QAddr, QWords
    <3>4. LoadedTiles'
      BY <1>2, <3>1, <3>2 DEF LoadedTiles, HoldsTile, QAddr
    <3> QED
      BY <1>2, <2>2, <3>1, <3>3, <3>4 DEF LoadInv, CmdInv, FillKInv, FillVInv, PrefetchInv
  <2> QED
    BY <2>5, <2>6
<1> QED
  BY <1>3, <1>4

LEMMA LoadKLoads ==
  ASSUME FillInv, NEW rdv \in BOOLEAN, ReadTick(rdv), LoadK(rdv)
  PROVE  LoadInv'
<1> DEFINE cmd == KCmd(k_tile_idx)
<1>1. /\ cmd \in Commands /\ cmd.n = BEATS_PER_TILE_KV /\ cmd.addr = KAddr(k_tile_idx)
      /\ KAddr(k_tile_idx) \in Nat
  BY CommandTypes DEF FillInv, LoadTypeOK, MasterTypeOK, KTiles, KCmd
<1>2. /\ ms = "S_LOAD_K" /\ UNCHANGED <<q_tile_idx, k_tile_idx, active_bank, pf_state, q_buf, v_buf>>
      /\ rd_cmd \in {NoCmd, cmd} /\ ReadTypeOK /\ k_buf \in [Banks -> [KVWords -> Nat]]
      /\ active_bank \in Banks /\ pf_state = "PF_IDLE"
  BY DEF FillInv, LoadTypeOK, MasterTypeOK, InputTypeOK, LoadInv, CmdInv, PrefetchInv, LoadK, GoTo,
         fsmVars, bankVars, pfVars
<1>3. HoldsTile(q_buf, QAddr(q_tile_idx))
  BY <1>2 DEF FillInv, LoadInv, LoadedTiles
<1>4. CASE kv_fill_cnt = 0
  <2>1. ms' = ms /\ rd_cmd' = cmd /\ k_buf' = k_buf /\ kv_fill_cnt' = Issued(0)
    BY <1>4 DEF LoadK, Pulses, fsmVars, KVWords
  <2>2. rd_ready => (rd_ready' /\ rd_cmd' = cmd) \/ (req' = cmd /\ sent' = 0)
    BY <1>1, <1>2, <2>1, CommandIssued
  <2>3. FillKInv'
    <3>1. SUFFICES ASSUME kv_fill_cnt' # 0
                   PROVE  (/\ Owed(KCmd(k_tile_idx), 1)
                           /\ Prefix(k_buf[active_bank], KAddr(k_tile_idx), 1))'
      BY <2>1 DEF FillKInv, Issued
    <3>2. rd_ready
      BY <2>1, <3>1 DEF Issued
    <3> QED
      BY <1>1, <1>2, <2>1, <2>2, <3>2 DEF Owed, Prefix, KVWords, KCmd, KAddr
  <2> QED
    BY <1>2, <1>3, <2>1, <2>3
       DEF LoadInv, CmdInv, FillQInv, FillVInv, PrefetchInv, LoadedTiles, HoldsTile,
           KCmd, KAddr, QAddr, KAddr
<1>5. CASE kv_fill_cnt # 0
  <2>1. kv_fill_cnt \in KVWords /\ Quiet
    BY <1>5 DEF LoadK
  <2>2. rd_cmd' = NoCmd
    BY <2>1 DEF Quiet, Pulses
  <2>3. /\ Owed(cmd, kv_fill_cnt)
        /\ Prefix(k_buf[active_bank], KAddr(k_tile_idx), kv_fill_cnt)
    BY <1>2, <1>5 DEF FillInv, LoadInv, FillKInv
  <2>4. /\ req' = cmd
        /\ rdv => /\ sent' = kv_fill_cnt
                  /\ beat'.addr = cmd.addr + kv_fill_cnt - 1
                  /\ beat'.last => kv_fill_cnt = cmd.n
        /\ ~rdv => sent' = kv_fill_cnt - 1
    BY <1>1, <1>2, <2>1, <2>3, WordArrives DEF KVWords
  <2>5. CASE ~rdv
    <3>1. UNCHANGED <<ms, kv_fill_cnt, k_buf>>
      BY <2>1, <1>5, <2>5 DEF LoadK, fsmVars
    <3>2. FillKInv'
      BY <1>2, <2>1, <2>3, <2>4, <2>5, <3>1 DEF FillKInv, Owed, Prefix, KCmd, KAddr
    <3> QED
      BY <1>2, <1>3, <2>2, <3>1, <3>2
         DEF LoadInv, CmdInv, FillQInv, FillVInv, PrefetchInv, LoadedTiles, HoldsTile,
             QAddr, KAddr
  <2>6. CASE rdv
    <3>1. /\ k_buf' = [k_buf EXCEPT ![active_bank][kv_fill_cnt] = KAddr(k_tile_idx) + kv_fill_cnt - 1]
          /\ IF kv_fill_cnt = BEATS_PER_TILE_KV
             THEN ms' = "S_LOAD_V" /\ kv_fill_cnt' = 0
             ELSE ms' = ms /\ kv_fill_cnt' = kv_fill_cnt + 1
      BY <1>1, <1>5, <2>1, <2>4, <2>6 DEF LoadK, GoTo, LastWord, fsmVars
    <3>3. /\ Prefix(k_buf'[active_bank], KAddr(k_tile_idx), kv_fill_cnt + 1)
          /\ kv_fill_cnt = BEATS_PER_TILE_KV => HoldsTile(k_buf'[active_bank], KAddr(k_tile_idx))
      BY <1>1, <1>2, <2>1, <2>3, <3>1, WordStored
    <3>4. FillKInv'
      BY <1>1, <1>2, <2>1, <2>4, <2>6, <3>1, <3>3
         DEF FillKInv, Owed, Prefix, KCmd, KAddr, KVWords
    <3>5. LoadedTiles'
      BY <1>2, <1>3, <3>1, <3>3 DEF LoadedTiles, HoldsTile, QAddr, KAddr, VAddr
    <3> QED
      BY <1>2, <2>2, <3>1, <3>4, <3>5 DEF LoadInv, CmdInv, FillQInv, FillVInv, PrefetchInv
  <2> QED
    BY <2>5, <2>6
<1> QED
  BY <1>4, <1>5

LEMMA LoadVLoads ==
  ASSUME FillInv, NEW rdv \in BOOLEAN, ReadTick(rdv), LoadV(rdv)
  PROVE  LoadInv'
<1> DEFINE cmd == VCmd(k_tile_idx)
<1>1. /\ cmd \in Commands /\ cmd.n = BEATS_PER_TILE_KV /\ cmd.addr = VAddr(k_tile_idx)
      /\ VAddr(k_tile_idx) \in Nat
  BY CommandTypes DEF FillInv, LoadTypeOK, MasterTypeOK, KTiles, VCmd
<1>2. /\ ms = "S_LOAD_V" /\ UNCHANGED <<q_tile_idx, k_tile_idx, active_bank, pf_state, q_buf, k_buf>>
      /\ rd_cmd \in {NoCmd, cmd} /\ ReadTypeOK /\ v_buf \in [Banks -> [KVWords -> Nat]]
      /\ active_bank \in Banks /\ pf_state = "PF_IDLE"
  BY DEF FillInv, LoadTypeOK, MasterTypeOK, InputTypeOK, LoadInv, CmdInv, PrefetchInv, LoadV, GoTo,
         fsmVars, bankVars, pfVars
<1>3. HoldsTile(q_buf, QAddr(q_tile_idx)) /\ HoldsTile(k_buf[active_bank], KAddr(k_tile_idx))
  BY <1>2 DEF FillInv, LoadInv, LoadedTiles
<1>4. CASE kv_fill_cnt = 0
  <2>1. ms' = ms /\ rd_cmd' = cmd /\ v_buf' = v_buf /\ kv_fill_cnt' = Issued(0)
    BY <1>4 DEF LoadV, Pulses, fsmVars, KVWords
  <2>2. rd_ready => (rd_ready' /\ rd_cmd' = cmd) \/ (req' = cmd /\ sent' = 0)
    BY <1>1, <1>2, <2>1, CommandIssued
  <2>3. FillVInv'
    <3>1. SUFFICES ASSUME kv_fill_cnt' # 0
                   PROVE  (/\ Owed(VCmd(k_tile_idx), 1)
                           /\ Prefix(v_buf[active_bank], VAddr(k_tile_idx), 1))'
      BY <2>1 DEF FillVInv, Issued
    <3>2. rd_ready
      BY <2>1, <3>1 DEF Issued
    <3> QED
      BY <1>1, <1>2, <2>1, <2>2, <3>2 DEF Owed, Prefix, KVWords, VCmd, VAddr
  <2> QED
    BY <1>2, <1>3, <2>1, <2>3
       DEF LoadInv, CmdInv, FillQInv, FillKInv, PrefetchInv, LoadedTiles, HoldsTile,
           VCmd, VAddr, QAddr, KAddr
<1>5. CASE kv_fill_cnt # 0
  <2>1. kv_fill_cnt \in KVWords /\ Quiet
    BY <1>5 DEF LoadV
  <2>2. rd_cmd' = NoCmd
    BY <2>1 DEF Quiet, Pulses
  <2>3. /\ Owed(cmd, kv_fill_cnt)
        /\ Prefix(v_buf[active_bank], VAddr(k_tile_idx), kv_fill_cnt)
    BY <1>2, <1>5 DEF FillInv, LoadInv, FillVInv
  <2>4. /\ req' = cmd
        /\ rdv => /\ sent' = kv_fill_cnt
                  /\ beat'.addr = cmd.addr + kv_fill_cnt - 1
                  /\ beat'.last => kv_fill_cnt = cmd.n
        /\ ~rdv => sent' = kv_fill_cnt - 1
    BY <1>1, <1>2, <2>1, <2>3, WordArrives DEF KVWords
  <2>5. CASE ~rdv
    <3>1. UNCHANGED <<ms, kv_fill_cnt, v_buf>>
      BY <2>1, <1>5, <2>5 DEF LoadV, fsmVars
    <3>2. FillVInv'
      BY <1>2, <2>1, <2>3, <2>4, <2>5, <3>1 DEF FillVInv, Owed, Prefix, VCmd, VAddr
    <3> QED
      BY <1>2, <1>3, <2>2, <3>1, <3>2
         DEF LoadInv, CmdInv, FillQInv, FillKInv, PrefetchInv, LoadedTiles, HoldsTile,
             QAddr, KAddr
  <2>6. CASE rdv
    <3>1. /\ v_buf' = [v_buf EXCEPT ![active_bank][kv_fill_cnt] = VAddr(k_tile_idx) + kv_fill_cnt - 1]
          /\ IF kv_fill_cnt = BEATS_PER_TILE_KV
             THEN ms' = "S_COMPUTE"
             ELSE ms' = ms /\ kv_fill_cnt' = kv_fill_cnt + 1
      BY <1>1, <1>5, <2>1, <2>4, <2>6 DEF LoadV, GoTo, LastWord, fsmVars
    <3>3. /\ Prefix(v_buf'[active_bank], VAddr(k_tile_idx), kv_fill_cnt + 1)
          /\ kv_fill_cnt = BEATS_PER_TILE_KV => HoldsTile(v_buf'[active_bank], VAddr(k_tile_idx))
      BY <1>1, <1>2, <2>1, <2>3, <3>1, WordStored
    <3>4. FillVInv'
      BY <1>1, <1>2, <2>1, <2>4, <2>6, <3>1, <3>3
         DEF FillVInv, Owed, Prefix, VCmd, VAddr, KVWords
    <3>5. LoadedTiles'
      BY <1>2, <1>3, <3>1, <3>3 DEF LoadedTiles, HoldsTile, QAddr, KAddr, VAddr
    <3> QED
      BY <1>2, <2>2, <3>1, <3>4, <3>5 DEF LoadInv, CmdInv, FillQInv, FillKInv, PrefetchInv
  <2> QED
    BY <2>5, <2>6
<1> QED
  BY <1>4, <1>5

(* What the prefetch FSM does in one cycle of a tile's compute.             *)
LEMMA PrefetchLoads ==
  ASSUME FillInv, NEW rdv \in BOOLEAN, ReadTick(rdv), Compute(rdv),
         PrefetchStep(rdv), UNCHANGED <<fsmVars, active_bank>>
  PROVE  LoadInv'
<1> DEFINE kcmd == KCmd(k_tile_idx + 1)
           vcmd == VCmd(k_tile_idx + 1)
           tiles == /\ HoldsTile(q_buf, QAddr(q_tile_idx))
                    /\ HoldsTile(k_buf[active_bank], KAddr(k_tile_idx))
                    /\ HoldsTile(v_buf[active_bank], VAddr(k_tile_idx))
           nextK == HoldsTile(k_buf[pref_target_bank], KAddr(k_tile_idx + 1))
           nextV == HoldsTile(v_buf[pref_target_bank], VAddr(k_tile_idx + 1))
<1>1. /\ kcmd \in Commands /\ kcmd.n = BEATS_PER_TILE_KV /\ kcmd.addr = KAddr(k_tile_idx + 1)
      /\ vcmd \in Commands /\ vcmd.n = BEATS_PER_TILE_KV /\ vcmd.addr = VAddr(k_tile_idx + 1)
      /\ KAddr(k_tile_idx + 1) \in Nat /\ VAddr(k_tile_idx + 1) \in Nat
  <2>1. k_tile_idx + 1 \in Nat
    BY DEF FillInv, LoadTypeOK, MasterTypeOK, KTiles
  <2> QED
    BY <2>1, CommandTypes DEF KCmd, VCmd
<1>2. /\ ms = "S_COMPUTE" /\ ms' = ms /\ UNCHANGED <<q_tile_idx, k_tile_idx, active_bank, q_buf>>
      /\ rd_cmd' = PrefetchCmd /\ PrefetchStore(rdv)
  BY DEF Compute, Pulses, fsmVars
<1>3. /\ ReadTypeOK /\ active_bank \in Banks /\ pref_target_bank \in Banks
      /\ k_buf \in [Banks -> [KVWords -> Nat]] /\ v_buf \in [Banks -> [KVWords -> Nat]]
      /\ pf_state \in {"PF_DATA_K", "PF_DATA_V"} => pf_fill_cnt \in KVWords
  BY DEF FillInv, LoadTypeOK, MasterTypeOK, InputTypeOK
<1>4. /\ tiles /\ PrefetchInv /\ CmdInv
      /\ pf_state \in {"PF_CMD_V", "PF_DATA_V", "PF_DONE"} => nextK
      /\ pf_state = "PF_DONE" => nextV
  BY <1>2 DEF FillInv, LoadInv, LoadedTiles
<1>5. SUFFICES CmdInv' /\ PrefetchInv' /\ LoadedTiles'
  BY <1>2 DEF LoadInv, FillQInv, FillKInv, FillVInv
<1>6. CASE PrefetchIdle \/ PrefetchDone
  <2>1. UNCHANGED <<k_buf, v_buf>> /\ rd_cmd' = NoCmd
    BY <1>2, <1>6 DEF PrefetchStore, PrefetchCmd, PrefetchIdle, PrefetchDone
  <2>2. CASE PrefetchDone \/ (PrefetchIdle /\ LastTile)
    <3>1. UNCHANGED <<pf_state, pref_target_bank>> /\ pf_state \in {"PF_IDLE", "PF_DONE"}
      BY <2>2 DEF PrefetchDone, PrefetchIdle, pfVars
    <3> QED
      BY <1>2, <1>4, <2>1, <3>1
         DEF CmdInv, PrefetchInv, LoadedTiles, LastTile, HoldsTile, QAddr, KAddr, VAddr
  <2>3. CASE PrefetchIdle /\ ~LastTile
    <3>1. pref_target_bank' # active_bank /\ pf_state' = "PF_CMD_K"
      BY <1>3, <2>3 DEF PrefetchIdle, Banks
    <3> QED
      BY <1>2, <1>4, <2>1, <2>3, <3>1
         DEF CmdInv, PrefetchInv, LoadedTiles, LastTile, HoldsTile, QAddr, KAddr, VAddr
  <2> QED
    BY <1>6, <2>2, <2>3
<1>7. CASE PrefetchIssue /\ pf_state = "PF_CMD_K"
  <2>1. UNCHANGED <<k_buf, v_buf, pref_target_bank>> /\ rd_cmd' = kcmd
    BY <1>2, <1>7 DEF PrefetchStore, PrefetchCmd, PrefetchIssue
  <2>2. IF rd_ready THEN pf_state' = "PF_DATA_K" /\ pf_fill_cnt' = 1 ELSE pf_state' = "PF_CMD_K"
    BY <1>7 DEF PrefetchIssue, pfVars
  <2>3. rd_ready => (rd_ready' /\ rd_cmd' = kcmd) \/ (req' = kcmd /\ sent' = 0)
    BY <1>1, <1>2, <1>3, <1>4, <1>7, <2>1, CommandIssued DEF CmdInv
  <2>4. CmdInv'
    BY <1>2, <2>1, <2>2 DEF CmdInv, KCmd, KAddr
  <2>5. LoadedTiles'
    BY <1>2, <1>4, <2>1, <2>2 DEF LoadedTiles, HoldsTile, QAddr, KAddr, VAddr
  <2>6. PrefetchInv'
    <3>1. ~LastTile /\ pref_target_bank # active_bank
      BY <1>2, <1>4, <1>7 DEF PrefetchInv
    <3>2. pf_state' = "PF_DATA_K" =>
            (Owed(KCmd(k_tile_idx + 1), 1) /\ Prefix(k_buf[pref_target_bank], KAddr(k_tile_idx + 1), 1))'
      BY <1>1, <1>2, <1>3, <2>1, <2>2, <2>3 DEF Owed, Prefix, KCmd, KAddr, KVWords
    <3> QED
      BY <1>2, <2>1, <2>2, <3>1, <3>2 DEF PrefetchInv, LastTile
  <2> QED
    BY <2>4, <2>5, <2>6
<1>8. CASE PrefetchIssue /\ pf_state = "PF_CMD_V"
  <2>1. UNCHANGED <<k_buf, v_buf, pref_target_bank>> /\ rd_cmd' = vcmd
    BY <1>2, <1>8 DEF PrefetchStore, PrefetchCmd, PrefetchIssue
  <2>2. IF rd_ready THEN pf_state' = "PF_DATA_V" /\ pf_fill_cnt' = 1 ELSE pf_state' = "PF_CMD_V"
    BY <1>8 DEF PrefetchIssue, pfVars
  <2>3. rd_ready => (rd_ready' /\ rd_cmd' = vcmd) \/ (req' = vcmd /\ sent' = 0)
    BY <1>1, <1>2, <1>3, <1>4, <1>8, <2>1, CommandIssued DEF CmdInv
  <2>4. CmdInv'
    BY <1>2, <2>1, <2>2 DEF CmdInv, VCmd, VAddr
  <2>5. LoadedTiles'
    BY <1>2, <1>4, <1>8, <2>1, <2>2 DEF LoadedTiles, HoldsTile, QAddr, KAddr, VAddr
  <2>6. PrefetchInv'
    <3>1. ~LastTile /\ pref_target_bank # active_bank
      BY <1>2, <1>4, <1>8 DEF PrefetchInv
    <3>2. pf_state' = "PF_DATA_V" =>
            (Owed(VCmd(k_tile_idx + 1), 1) /\ Prefix(v_buf[pref_target_bank], VAddr(k_tile_idx + 1), 1))'
      BY <1>1, <1>2, <1>3, <2>1, <2>2, <2>3 DEF Owed, Prefix, VCmd, VAddr, KVWords
    <3> QED
      BY <1>2, <2>1, <2>2, <3>1, <3>2 DEF PrefetchInv, LastTile
  <2> QED
    BY <2>4, <2>5, <2>6
<1>9. CASE PrefetchWordK(rdv)
  <2>1. /\ pf_state = "PF_DATA_K" /\ pf_fill_cnt \in KVWords
        /\ rd_cmd' = NoCmd /\ v_buf' = v_buf /\ pref_target_bank' = pref_target_bank
    BY <1>2, <1>3, <1>9 DEF PrefetchStore, PrefetchCmd, PrefetchWordK
  <2>2. /\ ~LastTile /\ pref_target_bank # active_bank
        /\ Owed(kcmd, pf_fill_cnt)
        /\ Prefix(k_buf[pref_target_bank], KAddr(k_tile_idx + 1), pf_fill_cnt)
    BY <1>2, <1>4, <2>1 DEF PrefetchInv
  <2>3. /\ req' = kcmd
        /\ rdv => /\ sent' = pf_fill_cnt
                  /\ beat'.addr = kcmd.addr + pf_fill_cnt - 1
                  /\ beat'.last => pf_fill_cnt = kcmd.n
        /\ ~rdv => sent' = pf_fill_cnt - 1
    BY <1>1, <1>3, <2>1, <2>2, WordArrives DEF KVWords
  <2>4. CASE ~rdv
    <3>1. UNCHANGED <<pf_state, pf_fill_cnt, k_buf>>
      BY <1>2, <1>9, <2>4 DEF PrefetchStore, PrefetchWordK, pfVars
    <3>2. Owed(KCmd(k_tile_idx + 1), pf_fill_cnt)'
      BY <1>2, <2>2, <2>3, <2>4, <3>1 DEF Owed, KCmd, KAddr
    <3>3. PrefetchInv'
      BY <1>2, <2>1, <2>2, <3>1, <3>2 DEF PrefetchInv, LastTile, Prefix, KAddr
    <3>4. CmdInv'
      BY <1>2, <2>1, <3>1 DEF CmdInv
    <3>5. LoadedTiles'
      BY <1>2, <1>4, <2>1, <3>1 DEF LoadedTiles, HoldsTile, QAddr, KAddr, VAddr
    <3> QED
      BY <3>3, <3>4, <3>5
  <2>5. CASE rdv
    <3>1. k_buf' = [k_buf EXCEPT ![pref_target_bank][pf_fill_cnt] = KAddr(k_tile_idx + 1) + pf_fill_cnt - 1]
      BY <1>1, <1>2, <2>1, <2>3, <2>5 DEF PrefetchStore
    <3>2. IF pf_fill_cnt = BEATS_PER_TILE_KV
          THEN pf_state' = "PF_CMD_V"
          ELSE pf_state' = pf_state /\ pf_fill_cnt' = pf_fill_cnt + 1
      BY <1>1, <1>9, <2>3, <2>5 DEF PrefetchWordK, LastWord
    <3>3. /\ Prefix(k_buf'[pref_target_bank], KAddr(k_tile_idx + 1), pf_fill_cnt + 1)
          /\ pf_fill_cnt = BEATS_PER_TILE_KV
               => HoldsTile(k_buf'[pref_target_bank], KAddr(k_tile_idx + 1))
          /\ k_buf'[active_bank] = k_buf[active_bank]
      BY <1>1, <1>3, <2>1, <2>2, <3>1, WordStored
    <3>4. pf_fill_cnt # BEATS_PER_TILE_KV => Owed(KCmd(k_tile_idx + 1), pf_fill_cnt)'
      BY <1>1, <1>2, <2>1, <2>3, <2>5, <3>2 DEF Owed, KCmd, KAddr, KVWords
    <3>5. PrefetchInv'
      BY <1>2, <2>1, <2>2, <3>2, <3>3, <3>4 DEF PrefetchInv, LastTile, Prefix, KAddr
    <3>6. CmdInv'
      BY <1>2, <2>1, <3>2 DEF CmdInv
    <3>7. LoadedTiles'
      BY <1>2, <1>4, <2>1, <3>2, <3>3 DEF LoadedTiles, HoldsTile, QAddr, KAddr, VAddr
    <3> QED
      BY <3>5, <3>6, <3>7
  <2> QED
    BY <2>4, <2>5
<1>10. CASE PrefetchWordV(rdv)
  <2>1. /\ pf_state = "PF_DATA_V" /\ pf_fill_cnt \in KVWords
        /\ rd_cmd' = NoCmd /\ k_buf' = k_buf /\ pref_target_bank' = pref_target_bank
    BY <1>2, <1>3, <1>10 DEF PrefetchStore, PrefetchCmd, PrefetchWordV
  <2>2. /\ ~LastTile /\ pref_target_bank # active_bank
        /\ Owed(vcmd, pf_fill_cnt)
        /\ Prefix(v_buf[pref_target_bank], VAddr(k_tile_idx + 1), pf_fill_cnt)
    BY <1>2, <1>4, <2>1 DEF PrefetchInv
  <2>3. /\ req' = vcmd
        /\ rdv => /\ sent' = pf_fill_cnt
                  /\ beat'.addr = vcmd.addr + pf_fill_cnt - 1
                  /\ beat'.last => pf_fill_cnt = vcmd.n
        /\ ~rdv => sent' = pf_fill_cnt - 1
    BY <1>1, <1>3, <2>1, <2>2, WordArrives DEF KVWords
  <2>4. CASE ~rdv
    <3>1. UNCHANGED <<pf_state, pf_fill_cnt, v_buf>>
      BY <1>2, <1>10, <2>4 DEF PrefetchStore, PrefetchWordV, pfVars
    <3>2. Owed(VCmd(k_tile_idx + 1), pf_fill_cnt)'
      BY <1>2, <2>2, <2>3, <2>4, <3>1 DEF Owed, VCmd, VAddr
    <3>3. PrefetchInv'
      BY <1>2, <2>1, <2>2, <3>1, <3>2 DEF PrefetchInv, LastTile, Prefix, VAddr
    <3>4. CmdInv'
      BY <1>2, <2>1, <3>1 DEF CmdInv
    <3>5. LoadedTiles'
      BY <1>2, <1>4, <2>1, <3>1 DEF LoadedTiles, HoldsTile, QAddr, KAddr, VAddr
    <3> QED
      BY <3>3, <3>4, <3>5
  <2>5. CASE rdv
    <3>1. v_buf' = [v_buf EXCEPT ![pref_target_bank][pf_fill_cnt] = VAddr(k_tile_idx + 1) + pf_fill_cnt - 1]
      BY <1>1, <1>2, <2>1, <2>3, <2>5 DEF PrefetchStore
    <3>2. IF pf_fill_cnt = BEATS_PER_TILE_KV
          THEN pf_state' = "PF_DONE"
          ELSE pf_state' = pf_state /\ pf_fill_cnt' = pf_fill_cnt + 1
      BY <1>1, <1>10, <2>3, <2>5 DEF PrefetchWordV, LastWord
    <3>3. /\ Prefix(v_buf'[pref_target_bank], VAddr(k_tile_idx + 1), pf_fill_cnt + 1)
          /\ pf_fill_cnt = BEATS_PER_TILE_KV
               => HoldsTile(v_buf'[pref_target_bank], VAddr(k_tile_idx + 1))
          /\ v_buf'[active_bank] = v_buf[active_bank]
      BY <1>1, <1>3, <2>1, <2>2, <3>1, WordStored
    <3>4. pf_fill_cnt # BEATS_PER_TILE_KV => Owed(VCmd(k_tile_idx + 1), pf_fill_cnt)'
      BY <1>1, <1>2, <2>1, <2>3, <2>5, <3>2 DEF Owed, VCmd, VAddr, KVWords
    <3>5. PrefetchInv'
      BY <1>2, <2>1, <2>2, <3>2, <3>3, <3>4 DEF PrefetchInv, LastTile, Prefix, VAddr
    <3>6. CmdInv'
      BY <1>2, <2>1, <3>2 DEF CmdInv
    <3>7. LoadedTiles'
      BY <1>2, <1>4, <2>1, <3>2, <3>3 DEF LoadedTiles, HoldsTile, QAddr, KAddr, VAddr
    <3> QED
      BY <3>5, <3>6, <3>7
  <2> QED
    BY <2>4, <2>5
<1> QED
  BY <1>6, <1>7, <1>8, <1>9, <1>10 DEF PrefetchStep, PrefetchIssue

LEMMA ComputeLoads ==
  ASSUME FillInv, NEW rdv \in BOOLEAN, ReadTick(rdv), Compute(rdv)
  PROVE  LoadInv'
<1>1. ms = "S_COMPUTE" /\ rd_cmd' = PrefetchCmd /\ PrefetchStore(rdv) /\ q_buf' = q_buf
  BY DEF Compute, Pulses
<1>2. CASE Computing(rdv) \/ PulseLost(rdv)
  BY <1>2, PrefetchLoads DEF Computing, PulseLost
<1>3. CASE ToNormalize
  <2>1. pf_state = "PF_IDLE" /\ ms' = "S_NORMALIZE"
    BY <1>1, <1>3 DEF FillInv, LoadInv, PrefetchInv, ToNormalize, GoTo
  <2> QED
    BY <1>1, <2>1, NothingLoading DEF PrefetchCmd
<1>4. CASE NextTile
  <2>1. /\ pf_state = "PF_DONE" /\ ~LastTile
        /\ ms' = ms /\ q_tile_idx' = q_tile_idx /\ k_tile_idx' = k_tile_idx + 1
        /\ active_bank' = pref_target_bank
    BY <1>4 DEF NextTile
  <2>2. UNCHANGED <<k_buf, v_buf>> /\ rd_cmd' = NoCmd
    BY <1>1, <2>1 DEF PrefetchStore, PrefetchCmd
  <2>3. \/ k_tile_idx + 1 = NUM_K_TILES - 1 /\ pf_state' = "PF_IDLE"
        \/ /\ k_tile_idx + 1 # NUM_K_TILES - 1 /\ pf_state' = "PF_CMD_K"
           /\ pref_target_bank' = 1 - pref_target_bank
    BY <1>4 DEF NextTile
  <2>4. CmdInv'
    BY <1>1, <2>1, <2>2, <2>3 DEF CmdInv
  <2>5. PrefetchInv'
    BY <1>1, <2>1, <2>3 DEF PrefetchInv, LastTile, FillInv, LoadTypeOK, MasterTypeOK, Banks
  <2>6. LoadedTiles'
    BY <1>1, <2>1, <2>2, <2>3 DEF FillInv, LoadInv, LoadedTiles, HoldsTile, QAddr, KAddr, VAddr
  <2> QED
    BY <1>1, <2>1, <2>4, <2>5, <2>6 DEF LoadInv, FillQInv, FillKInv, FillVInv
<1> QED
  BY <1>2, <1>3, <1>4 DEF Compute

(* A clock edge of the read engine and of the master FSM.                   *)
LEMMA TickLoads ==
  ASSUME FillInv, NEW start \in BOOLEAN, NEW rdv \in BOOLEAN, NEW taken \in BOOLEAN,
         ReadTick(rdv), SoftReset \/ MasterTick(start, rdv, taken)
  PROVE  FillInv'
<1>1. LoadInv'
  BY OtherStates, LoadQLoads, InitContextLoads, LoadKLoads, LoadVLoads, ComputeLoads
     DEF MasterTick
<1>2. /\ req' \in Commands /\ sent' \in 0 .. req'.n
      /\ beat' \in [addr : Nat, last : BOOLEAN] /\ rd_stall' \in 0 .. MaxRdStall
  BY ReadType DEF FillInv, LoadTypeOK
<1>3. MasterTypes'
  BY <1>2, MasterTickType DEF FillInv
<1> QED
  BY <1>1, <1>2, <1>3 DEF FillInv, LoadTypeOK, ReadTypeOK, MasterTypes, Commands

LEMMA ClockLoads ==
  ASSUME IInv, NEW sr \in BOOLEAN, Clock(sr) PROVE LoadInv'
BY IsFillInv, TickLoads DEF Clock, FillInv

LEMMA NextIInv == IInv /\ [Next]_vars => IInv'
<1> SUFFICES ASSUME IInv, [Next]_vars PROVE IInv'
  OBVIOUS
<1>1. TypeOK'
  BY NextType DEF IInv
<1>2. LoadInv'
  <2>1. CASE Next
    BY <2>1, ClockLoads DEF Next
  <2>2. CASE UNCHANGED vars
    BY <2>2 DEF vars, masterVars, fsmVars, fillVars, bankVars, pfVars, pulseVars, bufVars,
                readVars, IInv, LoadInv, CmdInv, FillQInv, FillKInv, FillVInv, PrefetchInv,
                LoadedTiles, LastTile, Owed, Prefix, HoldsTile, rd_ready,
                QCmd, KCmd, VCmd, QAddr, KAddr, VAddr
  <2> QED
    BY <2>1, <2>2
<1> QED
  BY <1>1, <1>2 DEF IInv

(* Whatever the memory's speed and whenever the host resets, S_COMPUTE sees *)
(* the tiles it asked for and no other word.                                *)
THEOREM TilesLoaded == Spec => []LoadedTiles
<1>1. Init => IInv
  BY InitIInv
<1>2. IInv /\ [Next]_vars => IInv'
  BY NextIInv
<1>3. IInv => LoadedTiles
  BY DEF IInv, LoadInv
<1> QED
  BY <1>1, <1>2, <1>3, PTL DEF Spec
-----------------------------------------------------------------------------
(* ---- Runs without a soft reset ---- *)

(* The compute FSM works, and announces its end, only in S_COMPUTE.         *)
CompInv ==
  /\ cs # "C_IDLE" \/ comp_start \/ comp_done => ms = "S_COMPUTE"
  /\ comp_done => cs = "C_IDLE" /\ ~comp_start

LEMMA ClockComp ==
  ASSUME CompInv, TypeOK, Clock(FALSE) PROVE CompInv'
<1>1. PICK start \in BOOLEAN, rdv \in BOOLEAN, taken \in BOOLEAN :
        MasterTick(start, rdv, taken) /\ CompTick
  BY DEF Clock
<1>2. CASE ms = "S_COMPUTE"
  <2>1. Compute(rdv)
    BY <1>1, <1>2 DEF MasterTick, Idle, LoadQ, InitContext, LoadK, LoadV, NormalizeRows,
                      WriteO, NextQ, Done
  <2>2. comp_start' <=> ~comp_done /\ cs = "C_IDLE"
    BY <2>1 DEF Compute, Pulses
  <2>3. ~comp_done => ms' = "S_COMPUTE"
    BY <1>2, <2>1 DEF Compute, Computing, ToNormalize, NextTile, PulseLost, fsmVars
  <2>4. cs' # "C_IDLE" => (cs # "C_IDLE" \/ comp_start)
    BY <1>1 DEF CompTick, CompIdle, CompRun, BatchEnd, CompDone
  <2>5. comp_done' => cs = "C_DONE" /\ cs' = "C_IDLE"
    BY <1>1 DEF CompTick, CompIdle, CompRun, BatchEnd, CompDone
  <2> QED
    BY <2>2, <2>3, <2>4, <2>5 DEF CompInv
<1>3. CASE ms # "S_COMPUTE"
  <2>1. ~comp_start'
    BY <1>1, <1>3 DEF MasterTick, Idle, LoadQ, InitContext, LoadK, LoadV, Compute,
                      NormalizeRows, WriteO, NextQ, Done, Quiet, Pulses
  <2>2. cs = "C_IDLE" /\ ~comp_start
    BY <1>3 DEF CompInv
  <2>3. cs' = "C_IDLE" /\ ~comp_done'
    BY <1>1, <2>2 DEF CompTick, CompIdle, CompRun, BatchEnd, CompDone
  <2> QED
    BY <2>1, <2>3 DEF CompInv
<1> QED
  BY <1>2, <1>3

LEMMA StutterComp == CompInv /\ UNCHANGED vars => CompInv'
BY DEF CompInv, vars, masterVars, fsmVars, pulseVars, compVars

(* Without a soft reset the compute FSM never reads a buffer that is being  *)
(* filled, at any speed of the memory.                                      *)
THEOREM WholeTilesOnly == UninterruptedSpec => []ComputeOnWholeTiles
<1>1. Init => IInv /\ CompInv
  <2>1. Init => CompInv
    BY DEF Init, CompInv
  <2> QED
    BY <2>1, InitIInv
<1>2. IInv /\ CompInv /\ [Clock(FALSE)]_vars => IInv' /\ CompInv'
  <2>1. IInv /\ [Clock(FALSE)]_vars => IInv'
    BY NextIInv DEF Next
  <2>2. IInv /\ CompInv /\ Clock(FALSE) => CompInv'
    BY ClockComp DEF IInv
  <2> QED
    BY <2>1, <2>2, StutterComp
<1>3. IInv /\ CompInv => ComputeOnWholeTiles
  BY DEF IInv, LoadInv, LoadedTiles, CompInv, ComputeOnWholeTiles, OperandsWhole
<1> QED
  BY <1>1, <1>2, <1>3, PTL DEF UninterruptedSpec
-----------------------------------------------------------------------------
(* ---- A memory fast enough ---- *)

(* Both commands of a tile pair, each with all the idle cycles it may have, *)
(* fit into the compute time of one tile, when a batch takes n cycles.      *)
Fast(n) == 2 * (BEATS_PER_TILE_KV + MaxRdStall + 1) <= NUM_BATCHES * n
FastMemory == Fast(BatchCycles)

(* Compute time of the batches from b on.                                   *)
BatchesLeft(n, b) == (NUM_BATCHES - b) * n

(* Clock cycles until comp_done.                                            *)
ComputeLeft(n) ==
  IF comp_done THEN 0
  ELSE CASE cs = "C_DONE" -> 1
         [] cs = "C_DP_RUN" -> BatchesLeft(n, batch) - comp_t + 1
         [] OTHER -> IF comp_start THEN BatchesLeft(n, 0) + 2 ELSE BatchesLeft(n, 0) + 3

(* What a cycle of the compute FSM does to its state when a batch takes n.  *)
CompRange(n) == cs \in CompStates /\ batch \in Batches /\ comp_t \in 0 .. n - 1
CompStep(n) ==
  \/ /\ cs = "C_IDLE" /\ ~comp_done'
     /\ IF comp_start THEN cs' = "C_DP_RUN" /\ batch' = 0 /\ comp_t' = 0
        ELSE cs' = "C_IDLE"
  \/ /\ cs = "C_DP_RUN" /\ comp_t < n - 1 /\ ~comp_done'
     /\ cs' = cs /\ batch' = batch /\ comp_t' = comp_t + 1
  \/ /\ cs = "C_DP_RUN" /\ comp_t = n - 1 /\ ~comp_done'
     /\ IF batch = NUM_BATCHES - 1 THEN cs' = "C_DONE"
        ELSE cs' = "C_DP_RUN" /\ batch' = batch + 1 /\ comp_t' = 0
  \/ cs = "C_DONE" /\ cs' = "C_IDLE" /\ comp_done'

(* Clock cycles a command takes at most, from its first cycle, and what is  *)
(* left of them while its words come.                                       *)
CommandTime == 2 + BEATS_PER_TILE_KV + MaxRdStall
WordsLeft ==
  IF rd_cmd # NoCmd THEN 1 + BEATS_PER_TILE_KV + MaxRdStall
  ELSE (BEATS_PER_TILE_KV - pf_fill_cnt + 1) + (MaxRdStall - rd_stall)

(* Clock cycles until PF_DONE at most, when there is a tile to prefetch.    *)
PrefetchLeft ==
  CASE pf_state = "PF_IDLE" -> 2 * CommandTime + 1
    [] pf_state = "PF_CMD_K" -> 2 * CommandTime
    [] pf_state = "PF_DATA_K" -> WordsLeft + CommandTime
    [] pf_state = "PF_CMD_V" -> CommandTime
    [] pf_state = "PF_DATA_V" -> WordsLeft
    [] OTHER -> 0

(* While a tile is in compute the read engine works for the prefetch only.  *)
EngineInv ==
  ms = "S_COMPUTE" =>
    IF pf_state \in {"PF_DATA_K", "PF_DATA_V"}
    THEN rd_cmd # NoCmd => rd_ready /\ pf_fill_cnt = 1
    ELSE rd_ready /\ rd_cmd = NoCmd
PaceInv(n) ==
  ms = "S_COMPUTE" /\ ~LastTile /\ Fast(n) => PrefetchLeft <= ComputeLeft(n)

LEMMA TickSteps == CompTick => CompStep(BatchCycles)
BY DEF CompTick, CompIdle, CompRun, BatchEnd, CompDone, CompStep

LEMMA BatchTime ==
  ASSUME NEW n \in Nat \ {0}
  PROVE  /\ BatchesLeft(n, 0) = NUM_BATCHES * n
         /\ BatchesLeft(n, NUM_BATCHES - 1) = n
         /\ \A b \in Batches : /\ BatchesLeft(n, b) \in Nat /\ BatchesLeft(n, b) >= n
                               /\ BatchesLeft(n, b + 1) = BatchesLeft(n, b) - n
<1>1. ASSUME NEW b \in Batches
      PROVE  /\ BatchesLeft(n, b) \in Nat /\ BatchesLeft(n, b) >= n
             /\ BatchesLeft(n, b + 1) = BatchesLeft(n, b) - n
  <2>1. NUM_BATCHES - b \in Nat /\ NUM_BATCHES - b >= 1
    BY DEF Batches
  <2>2. BatchesLeft(n, b) \in Nat /\ BatchesLeft(n, b) >= n
    BY <2>1 DEF BatchesLeft
  <2>3. NUM_BATCHES - (b + 1) = (NUM_BATCHES - b) - 1
    BY DEF Batches
  <2>4. \A m \in Nat : (m - 1) * n = m * n - n
    OBVIOUS
  <2> QED
    BY <2>1, <2>2, <2>3, <2>4 DEF BatchesLeft
<1>2. NUM_BATCHES - (NUM_BATCHES - 1) = 1 /\ NUM_BATCHES - 0 = NUM_BATCHES
  OBVIOUS
<1> QED
  BY <1>1, <1>2 DEF BatchesLeft

LEMMA PrefetchLeftType ==
  ASSUME LoadTypeOK
  PROVE  PrefetchLeft \in Nat /\ (pf_state # "PF_DONE" => PrefetchLeft # 0)
<1>1. /\ rd_stall \in 0 .. MaxRdStall /\ pf_state \in PrefetchStates
      /\ pf_state \in {"PF_DATA_K", "PF_DATA_V"} => pf_fill_cnt \in 1 .. BEATS_PER_TILE_KV
      /\ CommandTime \in Nat \ {0}
  BY DEF LoadTypeOK, MasterTypeOK, ReadTypeOK, KVWords, CommandTime
<1>2. pf_state \in {"PF_DATA_K", "PF_DATA_V"} => WordsLeft \in Nat \ {0}
  BY <1>1 DEF WordsLeft
<1> QED
  BY <1>1, <1>2 DEF PrefetchLeft, PrefetchStates

LEMMA PrefetchLeftNext == LoadTypeOK' => (PrefetchLeft \in Nat)'
<1>1. LoadTypeOK => PrefetchLeft \in Nat
  BY PrefetchLeftType
<1> QED
  BY <1>1, PTL

LEMMA ComputeLeftType ==
  ASSUME NEW n \in Nat \ {0}, CompRange(n) PROVE ComputeLeft(n) \in Nat
<1>1. BatchesLeft(n, 0) \in Nat /\ BatchesLeft(n, batch) \in Nat /\ BatchesLeft(n, batch) >= n
  BY BatchTime DEF Batches, CompRange
<1> QED
  BY <1>1 DEF ComputeLeft, CompRange

(* Every cycle in S_COMPUTE brings the end of the tile one cycle closer.    *)
LEMMA ComputeAdvances ==
  ASSUME NEW n \in Nat \ {0, 1}, CompRange(n), CompStep(n),
         ~comp_done, comp_start' = (cs = "C_IDLE")
  PROVE  ComputeLeft(n)' = ComputeLeft(n) - 1 /\ ComputeLeft(n)' \in Nat
<1>1. cs \in CompStates /\ batch \in Batches /\ comp_t \in 0 .. n - 1
  BY DEF CompRange
<1>2. /\ BatchesLeft(n, 0) \in Nat /\ BatchesLeft(n, batch) \in Nat
      /\ BatchesLeft(n, batch + 1) = BatchesLeft(n, batch) - n
      /\ BatchesLeft(n, NUM_BATCHES - 1) = n /\ BatchesLeft(n, batch) >= n
  <2>1. n \in Nat \ {0} /\ 0 \in Batches
    BY DEF Batches
  <2>2. /\ BatchesLeft(n, NUM_BATCHES - 1) = n
        /\ \A b \in Batches : /\ BatchesLeft(n, b) \in Nat /\ BatchesLeft(n, b) >= n
                              /\ BatchesLeft(n, b + 1) = BatchesLeft(n, b) - n
    BY <2>1, BatchTime
  <2> QED
    BY <1>1, <2>1, <2>2
<1>4. CASE cs = "C_IDLE"
  <2>2. CASE comp_start
    <3>1. cs' = "C_DP_RUN" /\ batch' = 0 /\ comp_t' = 0 /\ ~comp_done'
      BY <1>4, <2>2 DEF CompStep
    <3>2. ComputeLeft(n)' = BatchesLeft(n, 0) - 0 + 1
      BY <3>1 DEF ComputeLeft, BatchesLeft
    <3>3. ComputeLeft(n) = BatchesLeft(n, 0) + 2
      BY <1>4, <2>2 DEF ComputeLeft
    <3> QED
      BY <1>2, <3>2, <3>3
  <2>3. CASE ~comp_start
    <3>1. cs' = "C_IDLE" /\ ~comp_done' /\ comp_start'
      BY <1>4, <2>3 DEF CompStep
    <3>2. ComputeLeft(n)' = BatchesLeft(n, 0) + 2
      BY <3>1 DEF ComputeLeft, BatchesLeft
    <3>3. ComputeLeft(n) = BatchesLeft(n, 0) + 3
      BY <1>4, <2>3 DEF ComputeLeft
    <3> QED
      BY <1>2, <3>2, <3>3
  <2> QED
    BY <2>2, <2>3
<1>5. CASE cs = "C_DP_RUN" /\ comp_t < n - 1
  <2>2. cs' = cs /\ batch' = batch /\ comp_t' = comp_t + 1 /\ ~comp_done'
    BY <1>1, <1>5 DEF CompStep
  <2>3. ComputeLeft(n)' = BatchesLeft(n, batch) - (comp_t + 1) + 1
    BY <1>5, <2>2 DEF ComputeLeft, BatchesLeft
  <2>4. ComputeLeft(n) = BatchesLeft(n, batch) - comp_t + 1
    BY <1>5 DEF ComputeLeft
  <2> QED
    BY <1>1, <1>2, <2>3, <2>4
<1>6. CASE cs = "C_DP_RUN" /\ comp_t = n - 1
  <2>2. ComputeLeft(n) = BatchesLeft(n, batch) - (n - 1) + 1
    BY <1>6 DEF ComputeLeft
  <2>3. CASE batch = NUM_BATCHES - 1
    <3>1. cs' = "C_DONE" /\ ~comp_done'
      BY <1>6, <2>3 DEF CompStep
    <3>2. ComputeLeft(n)' = 1
      BY <3>1 DEF ComputeLeft
    <3> QED
      BY <1>2, <2>2, <2>3, <3>2
  <2>4. CASE batch # NUM_BATCHES - 1
    <3>1. cs' = "C_DP_RUN" /\ batch' = batch + 1 /\ comp_t' = 0 /\ ~comp_done'
      BY <1>6, <2>4 DEF CompStep
    <3>2. ComputeLeft(n)' = BatchesLeft(n, batch + 1) - 0 + 1
      BY <3>1 DEF ComputeLeft, BatchesLeft
    <3> QED
      BY <1>2, <2>2, <3>2
  <2> QED
    BY <2>3, <2>4
<1>7. CASE cs = "C_DONE"
  <2>1. comp_done'
    BY <1>7 DEF CompStep
  <2> QED
    BY <1>7, <2>1 DEF ComputeLeft
<1> QED
  BY <1>1, <1>4, <1>5, <1>6, <1>7 DEF CompStates

(* An idle read engine without a command stays as it is.                    *)
LEMMA EngineIdle ==
  ASSUME ReadTypeOK, NEW rdv \in BOOLEAN, ReadTick(rdv), rd_ready, rd_cmd = NoCmd
  PROVE  rd_ready'
BY DEF ReadTick, readVars, rd_ready, Read!Deliver, ReadTypeOK

(* A cycle of the prefetch FSM: its end comes closer, or it is there.       *)
LEMMA PrefetchAdvances ==
  ASSUME FillInv, EngineInv, NEW rdv \in BOOLEAN, ReadTick(rdv), Compute(rdv),
         PrefetchStep(rdv), UNCHANGED fsmVars
  PROVE  /\ EngineInv'
         /\ ~LastTile => PrefetchLeft' <= PrefetchLeft - 1 \/ PrefetchLeft' = 0
<1> DEFINE kcmd == KCmd(k_tile_idx + 1)
           vcmd == VCmd(k_tile_idx + 1)
           n == BEATS_PER_TILE_KV
<1>1. /\ kcmd \in Commands /\ kcmd.n = n /\ vcmd \in Commands /\ vcmd.n = n
      /\ kcmd # NoCmd /\ vcmd # NoCmd
  <2>1. k_tile_idx + 1 \in Nat
    BY DEF FillInv, LoadTypeOK, MasterTypeOK, KTiles
  <2>2. kcmd.n # NoCmd.n /\ vcmd.n # NoCmd.n
    BY DEF KCmd, VCmd, NoCmd
  <2> QED
    BY <2>1, <2>2, CommandTypes DEF KCmd, VCmd
<1>2. /\ ms = "S_COMPUTE" /\ ms' = ms /\ k_tile_idx' = k_tile_idx
      /\ rd_cmd' = PrefetchCmd
  BY DEF Compute, Pulses, fsmVars
<1>3. /\ ReadTypeOK /\ rd_stall \in 0 .. MaxRdStall /\ pf_state \in PrefetchStates
      /\ pf_state \in {"PF_DATA_K", "PF_DATA_V"} => pf_fill_cnt \in 1 .. n
      /\ CommandTime \in Nat
  BY DEF FillInv, LoadTypeOK, MasterTypeOK, ReadTypeOK, KVWords, CommandTime
<1>4. rd_ready /\ rd_cmd = NoCmd => rd_ready'
  BY <1>3, EngineIdle
<1>5. CASE PrefetchDone \/ PrefetchIdle
  <2>1. rd_ready /\ rd_cmd = NoCmd /\ rd_cmd' = NoCmd
    BY <1>2, <1>5 DEF EngineInv, PrefetchCmd, PrefetchDone, PrefetchIdle
  <2>2. pf_state' \in {"PF_IDLE", "PF_CMD_K", "PF_DONE"}
    BY <1>5 DEF PrefetchDone, PrefetchIdle, pfVars
  <2>3. EngineInv'
    BY <1>4, <2>1, <2>2 DEF EngineInv
  <2>4. ~LastTile => PrefetchLeft' <= PrefetchLeft - 1 \/ PrefetchLeft' = 0
    <3>1. CASE PrefetchDone
      BY <3>1 DEF PrefetchDone, pfVars, PrefetchLeft
    <3>2. CASE PrefetchIdle /\ ~LastTile
      <4>1. pf_state = "PF_IDLE" /\ pf_state' = "PF_CMD_K"
        BY <3>2 DEF PrefetchIdle
      <4>2. PrefetchLeft = 2 * CommandTime + 1 /\ PrefetchLeft' = 2 * CommandTime
        BY <4>1 DEF PrefetchLeft, CommandTime
      <4> QED
        BY <1>3, <4>2
    <3> QED
      BY <1>5, <3>1, <3>2
  <2> QED
    BY <2>3, <2>4
<1>6. CASE PrefetchIssue
  <2>1. rd_ready /\ rd_cmd = NoCmd /\ rd_ready'
    BY <1>2, <1>4, <1>6 DEF EngineInv, PrefetchIssue
  <2>2. pf_fill_cnt' = 1 /\ rd_cmd' # NoCmd
    BY <1>1, <1>2, <1>6, <2>1 DEF PrefetchIssue, PrefetchCmd
  <2>3. \/ pf_state = "PF_CMD_K" /\ pf_state' = "PF_DATA_K"
        \/ pf_state = "PF_CMD_V" /\ pf_state' = "PF_DATA_V"
    BY <1>6, <2>1 DEF PrefetchIssue
  <2>4. EngineInv'
    BY <2>1, <2>2, <2>3 DEF EngineInv
  <2>5. WordsLeft' = CommandTime - 1 /\ WordsLeft' \in Nat
    BY <2>2 DEF WordsLeft, CommandTime, NoCmd
  <2>6. \/ PrefetchLeft = 2 * CommandTime /\ PrefetchLeft' = WordsLeft' + CommandTime
        \/ PrefetchLeft = CommandTime /\ PrefetchLeft' = WordsLeft'
    BY <2>3 DEF PrefetchLeft, CommandTime
  <2> QED
    BY <1>3, <2>4, <2>5, <2>6
<1>7. ASSUME pf_state \in {"PF_DATA_K", "PF_DATA_V"}
      PROVE  /\ WordsLeft \in Nat \ {0} /\ rd_cmd' = NoCmd
             /\ rdv /\ LastWord(pf_fill_cnt, n) => rd_ready'
             /\ rdv => /\ LastWord(pf_fill_cnt, n) => pf_fill_cnt = n
                       /\ ~LastWord(pf_fill_cnt, n) /\ pf_fill_cnt' = pf_fill_cnt + 1
                            => WordsLeft' = WordsLeft - 1 /\ WordsLeft' \in Nat
             /\ ~rdv /\ pf_fill_cnt' = pf_fill_cnt
                  => WordsLeft' = WordsLeft - 1 /\ WordsLeft' \in Nat
  <2> DEFINE cmd == IF pf_state = "PF_DATA_K" THEN kcmd ELSE vcmd
  <2>1. cmd \in Commands /\ cmd.n = n /\ cmd # NoCmd /\ Owed(cmd, pf_fill_cnt) /\ pf_fill_cnt \in 1 .. n
    BY <1>1, <1>2, <1>3, <1>7 DEF FillInv, LoadInv, PrefetchInv
  <2> HIDE DEF cmd
  <2>2. rd_cmd' = NoCmd
    BY <1>2, <1>7 DEF PrefetchCmd
  <2>3. /\ req' = cmd
        /\ rdv => sent' = pf_fill_cnt /\ (beat'.last => pf_fill_cnt = n)
        /\ ~rdv => sent' = pf_fill_cnt - 1
    BY <2>1, WordArrives DEF FillInv, LoadTypeOK
  <2>4. rdv /\ LastWord(pf_fill_cnt, n) => pf_fill_cnt = n /\ rd_ready'
    BY <2>1, <2>3 DEF LastWord, rd_ready
  <2>5. CASE rd_cmd # NoCmd
    <3>1. rd_ready /\ pf_fill_cnt = 1
      BY <1>2, <1>7, <2>5 DEF EngineInv
    <3>2. ~rdv /\ rd_stall' = 0
      BY <1>3, <2>5, <3>1 DEF ReadTick, rd_ready, Read!Deliver, ReadTypeOK
    <3>3. WordsLeft = 1 + n + MaxRdStall
      BY <2>5 DEF WordsLeft
    <3>4. pf_fill_cnt' = pf_fill_cnt => WordsLeft' = (n - 1 + 1) + (MaxRdStall - 0)
      BY <2>2, <3>1, <3>2 DEF WordsLeft
    <3> QED
      BY <2>2, <2>4, <3>2, <3>3, <3>4
  <2>6. CASE rd_cmd = NoCmd
    <3>1. req = cmd /\ sent = pf_fill_cnt - 1
      BY <2>1, <2>6 DEF Owed
    <3>2. ~rd_ready /\ dma_rd_data_ready
      BY <1>2, <1>7, <2>1, <3>1 DEF rd_ready, dma_rd_data_ready
    <3>3. IF rdv THEN rd_stall' = rd_stall ELSE rd_stall < MaxRdStall /\ rd_stall' = rd_stall + 1
      BY <3>2 DEF ReadTick
    <3>4. WordsLeft = (n - pf_fill_cnt + 1) + (MaxRdStall - rd_stall)
      BY <2>6 DEF WordsLeft
    <3>5. WordsLeft' = (n - pf_fill_cnt' + 1) + (MaxRdStall - rd_stall')
      BY <2>2 DEF WordsLeft, NoCmd
    <3>6. ~LastWord(pf_fill_cnt, n) => pf_fill_cnt # n
      BY DEF LastWord
    <3> QED
      BY <1>3, <2>1, <2>2, <2>4, <3>3, <3>4, <3>5, <3>6
  <2> QED
    BY <2>5, <2>6
<1>8. CASE PrefetchWordK(rdv) \/ PrefetchWordV(rdv)
  <2>1. pf_state \in {"PF_DATA_K", "PF_DATA_V"}
    BY <1>8 DEF PrefetchWordK, PrefetchWordV
  <2> DEFINE rest == IF pf_state = "PF_DATA_K" THEN CommandTime ELSE 0
  <2>2. PrefetchLeft = WordsLeft + rest /\ rest \in Nat
    BY <1>3, <1>7, <2>1 DEF PrefetchLeft
  <2>3. CASE rdv /\ LastWord(pf_fill_cnt, n)
    <3>1. IF pf_state = "PF_DATA_K" THEN pf_state' = "PF_CMD_V" ELSE pf_state' = "PF_DONE"
      BY <1>8, <2>3 DEF PrefetchWordK, PrefetchWordV
    <3>2. PrefetchLeft' = rest
      BY <2>1, <3>1 DEF PrefetchLeft, CommandTime
    <3>3. EngineInv'
      BY <1>7, <2>1, <2>3, <3>1 DEF EngineInv
    <3> QED
      BY <1>7, <2>1, <2>2, <3>2, <3>3
  <2>4. CASE ~(rdv /\ LastWord(pf_fill_cnt, n))
    <3>1. /\ pf_state' = pf_state
          /\ pf_fill_cnt' = IF rdv THEN pf_fill_cnt + 1 ELSE pf_fill_cnt
      BY <1>8, <2>4 DEF PrefetchWordK, PrefetchWordV, pfVars
    <3>2. WordsLeft' = WordsLeft - 1 /\ WordsLeft' \in Nat
      BY <1>7, <2>1, <2>4, <3>1
    <3>3. PrefetchLeft' = WordsLeft' + rest
      <4>1. CASE pf_state = "PF_DATA_K"
        BY <3>1, <4>1 DEF PrefetchLeft, CommandTime
      <4>2. CASE pf_state = "PF_DATA_V"
        <5>1. PrefetchLeft' = WordsLeft' /\ rest = 0
          BY <3>1, <4>2 DEF PrefetchLeft
        <5> QED
          BY <3>2, <5>1
      <4> QED
        BY <2>1, <4>1, <4>2
    <3>4. EngineInv'
      BY <1>7, <2>1, <3>1 DEF EngineInv
    <3> QED
      BY <1>7, <2>1, <2>2, <3>2, <3>3, <3>4
  <2> QED
    BY <2>3, <2>4
<1> QED
  BY <1>5, <1>6, <1>8 DEF PrefetchStep

(* Entering S_COMPUTE: neither FSM has begun.                               *)
LEMMA ComputeEntered ==
  ASSUME NEW n, FillInv, CompInv, NEW start \in BOOLEAN, NEW rdv \in BOOLEAN, NEW taken \in BOOLEAN,
         ReadTick(rdv), MasterTick(start, rdv, taken), CompStep(n),
         ms # "S_COMPUTE", ms' = "S_COMPUTE"
  PROVE  /\ pf_state' = "PF_IDLE" /\ rd_ready' /\ rd_cmd' = NoCmd
         /\ cs' = "C_IDLE" /\ ~comp_start' /\ ~comp_done'
<1>1. LoadV(rdv)
  BY DEF MasterTick, Idle, LoadQ, InitContext, LoadK, Compute, NormalizeRows, WriteO, NextQ,
         Done, GoTo, fsmVars
<1>2. cs' = "C_IDLE" /\ ~comp_done'
  BY DEF CompInv, CompStep
<1>3. /\ rd_cmd' = NoCmd /\ ~comp_start' /\ pf_state' = "PF_IDLE"
      /\ kv_fill_cnt \in KVWords /\ rdv /\ LastWord(kv_fill_cnt, BEATS_PER_TILE_KV)
  <2>1. pf_state = "PF_IDLE" /\ pf_state' = pf_state
    BY <1>1 DEF LoadV, pfVars, FillInv, LoadInv, PrefetchInv
  <2> QED
    BY <1>1, <2>1 DEF LoadV, fsmVars, GoTo, Quiet, Pulses
<1>4. rd_ready'
  <2> DEFINE cmd == VCmd(k_tile_idx)
  <2>1. cmd \in Commands /\ cmd.n = BEATS_PER_TILE_KV
    BY CommandTypes DEF FillInv, LoadTypeOK, MasterTypeOK, KTiles, VCmd
  <2>2. Owed(cmd, kv_fill_cnt) /\ kv_fill_cnt \in Nat
    BY <1>1, <1>3 DEF LoadV, KVWords, FillInv, LoadInv, FillVInv
  <2> HIDE DEF cmd
  <2>3. req' = cmd /\ sent' = kv_fill_cnt /\ (beat'.last => kv_fill_cnt = cmd.n)
    BY <1>3, <2>1, <2>2, WordArrives DEF FillInv, LoadTypeOK
  <2> QED
    BY <1>3, <2>1, <2>3 DEF LastWord, rd_ready
<1> QED
  BY <1>2, <1>3, <1>4

(* So the next tile is there when comp_done comes.                          *)
LEMMA PrefetchIsDone ==
  ASSUME NEW n, LoadTypeOK, PaceInv(n), Fast(n), ms = "S_COMPUTE", comp_done, ~LastTile
  PROVE  pf_state = "PF_DONE"
<1>1. PrefetchLeft <= 0
  BY DEF PaceInv, ComputeLeft
<1> QED
  BY <1>1, PrefetchLeftType

(* The prefetch keeps ahead of compute.                                     *)
LEMMA TickPace ==
  ASSUME NEW n \in Nat \ {0, 1}, FillInv, FillInv', CompRange(n), CompInv, EngineInv, PaceInv(n),
         NEW start \in BOOLEAN, NEW rdv \in BOOLEAN, NEW taken \in BOOLEAN,
         ReadTick(rdv), MasterTick(start, rdv, taken), CompStep(n)
  PROVE  EngineInv' /\ PaceInv(n)'
<1>2. BatchesLeft(n, 0) \in Nat /\ (Fast(n) => 2 * CommandTime + 1 <= BatchesLeft(n, 0) + 3)
  BY BatchTime DEF Fast, CommandTime, Batches
<1>3. CASE ms # "S_COMPUTE" /\ ms' = "S_COMPUTE"
  <2>1. /\ pf_state' = "PF_IDLE" /\ rd_ready' /\ rd_cmd' = NoCmd
        /\ cs' = "C_IDLE" /\ ~comp_start' /\ ~comp_done'
    BY <1>3, ComputeEntered
  <2>2. PrefetchLeft' = 2 * CommandTime + 1 /\ ComputeLeft(n)' = BatchesLeft(n, 0) + 3
    BY <2>1 DEF PrefetchLeft, ComputeLeft, CommandTime, BatchesLeft
  <2> QED
    BY <1>2, <2>1, <2>2 DEF EngineInv, PaceInv
<1>4. CASE ms = "S_COMPUTE"
  <2>1. Compute(rdv)
    BY <1>4 DEF MasterTick, Idle, LoadQ, InitContext, LoadK, LoadV, NormalizeRows,
                      WriteO, NextQ, Done
  <2>2. CASE Computing(rdv)
    <3>1. EngineInv' /\ (~LastTile => PrefetchLeft' <= PrefetchLeft - 1 \/ PrefetchLeft' = 0)
      BY <2>1, <2>2, PrefetchAdvances DEF Computing
    <3>2. ComputeLeft(n)' = ComputeLeft(n) - 1 /\ ComputeLeft(n)' \in Nat
      <4>1. ~comp_done /\ comp_start' = (cs = "C_IDLE")
        BY <2>1, <2>2 DEF Compute, Computing, Pulses
      <4> QED
        BY <4>1, ComputeAdvances
    <3>3. LastTile' <=> LastTile
      BY <2>2 DEF Computing, fsmVars, LastTile
    <3>4. PrefetchLeft' \in Nat
      BY PrefetchLeftNext DEF FillInv
    <3>5. /\ PrefetchLeft \in Nat /\ ComputeLeft(n) \in Nat
          /\ PrefetchLeft' <= PrefetchLeft - 1 /\ PrefetchLeft <= ComputeLeft(n)
               => PrefetchLeft' <= ComputeLeft(n)'
      BY <3>2, <3>4, PrefetchLeftType, ComputeLeftType DEF FillInv
    <3> QED
      BY <1>4, <3>1, <3>2, <3>3, <3>5 DEF PaceInv
  <2>3. CASE PulseLost(rdv)
    <3>1. EngineInv'
      BY <2>1, <2>3, PrefetchAdvances DEF PulseLost
    <3>2. ~Fast(n)
      BY <1>4, <2>3, PrefetchIsDone DEF PulseLost, FillInv
    <3> QED
      BY <3>1, <3>2 DEF PaceInv
  <2>4. CASE ToNormalize
    BY <2>4 DEF ToNormalize, GoTo, EngineInv, PaceInv
  <2>5. CASE NextTile
    <3>1. /\ cs' = "C_IDLE" /\ ~comp_start' /\ ~comp_done'
      BY <2>1, <2>5 DEF NextTile, CompInv, Compute, Pulses, CompStep
    <3>2. rd_ready' /\ rd_cmd' = NoCmd
      <4>1. rd_ready /\ rd_cmd = NoCmd
        BY <1>4, <2>5 DEF EngineInv, NextTile
      <4> QED
        BY <2>1, <2>5, <4>1, EngineIdle
           DEF FillInv, LoadTypeOK, NextTile, Compute, Pulses, PrefetchCmd
    <3>3. (pf_state' = "PF_IDLE" /\ LastTile') \/ pf_state' = "PF_CMD_K"
      BY <2>5 DEF NextTile, LastTile
    <3>4. ComputeLeft(n)' = BatchesLeft(n, 0) + 3
      BY <3>1 DEF ComputeLeft, BatchesLeft
    <3>5. pf_state' = "PF_CMD_K" => PrefetchLeft' = 2 * CommandTime
      BY DEF PrefetchLeft, CommandTime
    <3>6. CommandTime \in Nat
      BY DEF CommandTime
    <3> QED
      BY <1>2, <3>2, <3>3, <3>4, <3>5, <3>6 DEF EngineInv, PaceInv
  <2> QED
    BY <2>1, <2>2, <2>3, <2>4, <2>5 DEF Compute
<1>5. CASE ms' # "S_COMPUTE"
  BY <1>5 DEF EngineInv, PaceInv
<1> QED
  BY <1>3, <1>4, <1>5

LEMMA ClockPace ==
  ASSUME IInv, IInv', CompInv, EngineInv, PaceInv(BatchCycles), Clock(FALSE)
  PROVE  EngineInv' /\ PaceInv(BatchCycles)'
<1>1. PICK start \in BOOLEAN, rdv \in BOOLEAN, taken \in BOOLEAN :
        ReadTick(rdv) /\ MasterTick(start, rdv, taken) /\ CompStep(BatchCycles)
  BY TickSteps DEF Clock
<1>2. FillInv /\ FillInv' /\ CompRange(BatchCycles)
  <2>1. IInv' => FillInv'
    BY IsFillInv, PTL
  <2> QED
    BY <2>1, IsFillInv DEF IInv, TypeOK, ComputeTypeOK, CompRange
<1> QED
  BY <1>1, <1>2, TickPace
-----------------------------------------------------------------------------
(* ---- No tile is skipped ---- *)

(* c was folded from the K/V tiles 0, 1, .., k of Q tile t, in this order,  *)
(* some of them perhaps more than once.                                     *)
Climbs(c, t, k) ==
  /\ c # <<>> /\ c[1] = <<t, 0>> /\ c[Len(c)] = <<t, k>>
  /\ \A i \in 1 .. Len(c) - 1 : c[i + 1] \in {c[i], <<t, c[i][2] + 1>>}
(* Each of them once. *)
Once(c, t, k) == Len(c) = k + 1 /\ \A i \in 1 .. k + 1 : c[i] = <<t, i - 1>>

Folds(c, t, k) == Climbs(c, t, k) /\ (FastMemory => Once(c, t, k))
Final(c, t) == Folds(c, t, NUM_K_TILES - 1)

(* A row before and after the tile pair in compute is folded into it.       *)
Before(c, q, k) == IF k = 0 THEN c = <<>> ELSE Folds(c, q, k - 1)
After(c, q, k) == Folds(c, q, k)

(* The compute FSM has not come to row group b with this tile pair yet.     *)
Unfolded(b) == ~comp_done /\ (cs = "C_IDLE" \/ (cs = "C_DP_RUN" /\ batch <= b))

ContextInv ==
  /\ ms \in {"S_LOAD_K", "S_LOAD_V"} => k_tile_idx = 0 /\ \A b \in Batches : row_ctx[b] = <<>>
  /\ ms = "S_COMPUTE" =>
       \A b \in Batches : \/ Before(row_ctx[b], q_tile_idx, k_tile_idx)
                          \/ After(row_ctx[b], q_tile_idx, k_tile_idx)
  /\ ms = "S_COMPUTE" /\ FastMemory =>
       \A b \in Batches : Unfolded(b) => Before(row_ctx[b], q_tile_idx, k_tile_idx)
  /\ cs = "C_DP_RUN" =>
       \A b \in Batches : b < batch => After(row_ctx[b], q_tile_idx, k_tile_idx)
  /\ cs = "C_DP_RUN" /\ comp_t > 0 =>
       ctx0 = row_ctx[batch] /\ operand = <<q_tile_idx, k_tile_idx>>
  /\ cs = "C_DONE" \/ comp_done =>
       \A b \in Batches : After(row_ctx[b], q_tile_idx, k_tile_idx)

(* The rows being normalized are complete, and so are the words made of     *)
(* them.                                                                    *)
OutputInv ==
  /\ ms = "S_NORMALIZE" =>
       /\ \A b \in Batches : Final(row_ctx[b], q_tile_idx)
       /\ \A w \in QWords : GroupOf(w) < norm_qi => Final(o_buf[w], q_tile_idx)
  /\ ms = "S_WRITE_O" => \A w \in QWords : Final(o_buf[w], q_tile_idx)

(* The word offered is the one the write engine stores next.                *)
StoreInv ==
  /\ wr_cmd # NoCmd => ms = "S_WRITE_O" /\ wr_cmd = OCmd(q_tile_idx)
  /\ ms = "S_WRITE_O" /\ o_write_cnt # 0 =>
       /\ o_write_cnt \in QWords
       /\ \/ o_write_cnt = 1 /\ wr_ready /\ wr_cmd = OCmd(q_tile_idx)
          \/ wresp /\ wreq = OCmd(q_tile_idx) /\ wsent = o_write_cnt - 1

Kept(t, w) == Final(o_mem[OAddr(t) + w - 1], t)
MemoryInv ==
  /\ ms # "S_IDLE" => \A t \in QTiles, w \in QWords : t < q_tile_idx => Kept(t, w)
  /\ ms = "S_WRITE_O" => \A w \in QWords : w < o_write_cnt => Kept(q_tile_idx, w)
  /\ ms = "S_NEXT_Q" => \A w \in QWords : Kept(q_tile_idx, w)
  /\ ms = "S_DONE" \/ done => \A t \in QTiles, w \in QWords : Kept(t, w)
  /\ done => ms = "S_IDLE"

OrderInv == ContextInv /\ OutputInv /\ StoreInv /\ MemoryInv

LEMMA InitOrder == Init => OrderInv
BY DEF Init, OrderInv, ContextInv, OutputInv, StoreInv, MemoryInv

(* Folding a tile pair into a row. *)
LEMMA FoldFirst ==
  ASSUME NEW t, NEW k, k = 0 PROVE Climbs(Append(<<>>, <<t, k>>), t, k)
BY DEF Climbs

LEMMA FoldOn ==
  ASSUME NEW c \in Context, NEW t, NEW k, NEW n, Climbs(c, t, k), n \in {k, k + 1}
  PROVE  Climbs(Append(c, <<t, n>>), t, n)
<1> DEFINE d == Append(c, <<t, n>>)
<1>1. Len(c) \in Nat \ {0} /\ Len(d) = Len(c) + 1 /\ d # <<>>
  BY DEF Climbs, Context
<1>2. (\A i \in 1 .. Len(c) : d[i] = c[i]) /\ d[Len(c) + 1] = <<t, n>>
  BY DEF Context
<1>3. d[1] = <<t, 0>> /\ d[Len(d)] = <<t, n>>
  BY <1>1, <1>2 DEF Climbs
<1>4. ASSUME NEW i \in 1 .. Len(d) - 1
      PROVE  d[i + 1] \in {d[i], <<t, d[i][2] + 1>>}
  <2>1. CASE i < Len(c)
    <3>1. i \in 1 .. Len(c) - 1 /\ i + 1 \in 1 .. Len(c) /\ i \in 1 .. Len(c)
      BY <1>1, <2>1
    <3>2. c[i + 1] \in {c[i], <<t, c[i][2] + 1>>}
      BY <3>1 DEF Climbs
    <3> QED
      BY <1>2, <3>1, <3>2
  <2>2. CASE i = Len(c)
    <3>1. d[i] = <<t, k>> /\ d[i + 1] = <<t, n>>
      BY <1>1, <1>2, <2>2 DEF Climbs
    <3>2. d[i][2] = k
      BY <3>1
    <3> QED
      BY <3>1, <3>2
  <2> QED
    BY <1>1, <2>1, <2>2
<1> QED
  BY <1>1, <1>3, <1>4 DEF Climbs

LEMMA FoldOnce ==
  ASSUME NEW c \in Context, NEW t, NEW k \in Nat,
         IF k = 0 THEN c = <<>> ELSE Once(c, t, k - 1)
  PROVE  Once(Append(c, <<t, k>>), t, k)
<1> DEFINE d == Append(c, <<t, k>>)
<1>1. Len(c) = k /\ \A i \in 1 .. k : c[i] = <<t, i - 1>>
  BY DEF Once
<1>2. Len(d) = k + 1 /\ (\A i \in 1 .. k : d[i] = c[i]) /\ d[k + 1] = <<t, k>>
  BY <1>1 DEF Context
<1>3. \A i \in 1 .. k + 1 : i \in 1 .. k \/ (i = k + 1 /\ i - 1 = k)
  OBVIOUS
<1> QED
  BY <1>1, <1>2, <1>3 DEF Once

LEMMA FoldTile ==
  ASSUME NEW c \in Context, NEW q, NEW k \in Nat,
         Before(c, q, k) \/ (After(c, q, k) /\ ~FastMemory)
  PROVE  After(Append(c, <<q, k>>), q, k)
<1>1. CASE After(c, q, k) /\ ~FastMemory
  BY <1>1, FoldOn DEF After, Folds
<1>2. CASE Before(c, q, k)
  <2>1. FastMemory => Once(Append(c, <<q, k>>), q, k)
    BY <1>2, FoldOnce DEF Before, Folds
  <2>2. Climbs(Append(c, <<q, k>>), q, k)
    <3>1. CASE k = 0 /\ c = <<>>
      BY <3>1, FoldFirst
    <3>2. CASE k # 0 /\ Climbs(c, q, k - 1)
      <4>1. k \in {k - 1, (k - 1) + 1}
        OBVIOUS
      <4> QED
        BY <3>2, <4>1, FoldOn
    <3> QED
      BY <1>2, <3>1, <3>2 DEF Before, Folds
  <2> QED
    BY <2>1, <2>2 DEF After, Folds
<1> QED
  BY <1>1, <1>2

(* The group a word is normalized with. *)
LEMMA GroupBounds == \A w \in QWords : GroupOf(w) \in Batches
<1> SUFFICES ASSUME NEW w \in QWords PROVE GroupOf(w) \in Batches
  OBVIOUS
<1>1. \A a \in Nat, b \in Nat \ {0}, n \in Nat : a < n * b => a \div b \in 0 .. n - 1
  <2>1. SUFFICES ASSUME NEW a \in Nat, NEW b \in Nat \ {0}, NEW n \in Nat, a < n * b
                 PROVE  a \div b \in 0 .. n - 1
    OBVIOUS
  <2>2. a \div b \in Nat /\ b * (a \div b) <= a
    BY <2>1
  <2>3. ASSUME n <= a \div b PROVE FALSE
    <3>1. n * b <= (a \div b) * b
      BY <2>2, <2>3
    <3> QED
      BY <2>1, <2>2, <3>1
  <2> QED
    BY <2>2, <2>3
<1>2. (w - 1) * NUM_BATCHES \in Nat /\ (w - 1) * NUM_BATCHES < NUM_BATCHES * BEATS_PER_TILE_Q
  <2>1. (w - 1) * NUM_BATCHES <= (BEATS_PER_TILE_Q - 1) * NUM_BATCHES
    BY DEF QWords
  <2>2. (BEATS_PER_TILE_Q - 1) * NUM_BATCHES = NUM_BATCHES * BEATS_PER_TILE_Q - NUM_BATCHES
    OBVIOUS
  <2>3. (w - 1) * NUM_BATCHES \in Nat /\ NUM_BATCHES * BEATS_PER_TILE_Q \in Nat
    BY DEF QWords
  <2> QED
    BY <2>1, <2>2, <2>3
<1> QED
  BY <1>1, <1>2 DEF GroupOf, Batches

(* Two words of the output never share an address. *)
LEMMA OAddrApart ==
  ASSUME NEW t \in QTiles, NEW q \in QTiles, NEW v \in QWords, NEW w \in QWords,
         OAddr(t) + v - 1 = OAddr(q) + w - 1
  PROVE  t = q /\ v = w
<1>1. \A a, b \in Nat : a < b => a * BEATS_PER_TILE_Q + BEATS_PER_TILE_Q <= b * BEATS_PER_TILE_Q
  <2>1. SUFFICES ASSUME NEW a \in Nat, NEW b \in Nat, a < b
                 PROVE  a * BEATS_PER_TILE_Q + BEATS_PER_TILE_Q <= b * BEATS_PER_TILE_Q
    OBVIOUS
  <2>2. a * BEATS_PER_TILE_Q + BEATS_PER_TILE_Q = (a + 1) * BEATS_PER_TILE_Q
    OBVIOUS
  <2>3. (a + 1) * BEATS_PER_TILE_Q <= b * BEATS_PER_TILE_Q
    BY <2>1
  <2> QED
    BY <2>2, <2>3
<1>2. t \in Nat /\ q \in Nat /\ t * BEATS_PER_TILE_Q \in Nat /\ q * BEATS_PER_TILE_Q \in Nat
  BY DEF QTiles
<1>3. t * BEATS_PER_TILE_Q + v = q * BEATS_PER_TILE_Q + w
  BY <1>2 DEF OAddr, QWords
<1>4. ~(t < q) /\ ~(q < t)
  BY <1>1, <1>2, <1>3 DEF QWords
<1> QED
  BY <1>2, <1>3, <1>4 DEF QWords
-----------------------------------------------------------------------------
(* One cycle of the compute FSM on the tile pair <<q, k>>: whatever rows it *)
(* has not come to stay as they are, those it has finished stay finished.   *)
LEMMA ComputeOrder ==
  ASSUME TypeOK, CompInv, ContextInv, ComputeOnWholeTiles, ms = "S_COMPUTE",
         CompTick, RowCtxTick(FALSE), NEW q, NEW k, q = q_tile_idx, k = k_tile_idx
  PROVE  /\ \A b \in Batches : Before(row_ctx'[b], q, k) \/ After(row_ctx'[b], q, k)
         /\ FastMemory /\ ~comp_done =>
              \A b \in Batches : Unfolded(b)' => Before(row_ctx'[b], q, k)
         /\ cs' = "C_DP_RUN" => \A b \in Batches : b < batch' => After(row_ctx'[b], q, k)
         /\ cs' = "C_DP_RUN" /\ comp_t' > 0 => ctx0' = row_ctx'[batch'] /\ operand' = <<q, k>>
         /\ cs' = "C_DONE" \/ comp_done' => \A b \in Batches : After(row_ctx'[b], q, k)
<1>1. /\ cs \in CompStates /\ batch \in Batches /\ comp_t \in 0 .. BatchCycles - 1
      /\ row_ctx \in [Batches -> Context] /\ k \in Nat
  BY DEF TypeOK, ComputeTypeOK, MasterTypeOK, KTiles
<1>2. /\ \A b \in Batches : Before(row_ctx[b], q, k) \/ After(row_ctx[b], q, k)
      /\ FastMemory => \A b \in Batches : Unfolded(b) => Before(row_ctx[b], q, k)
  BY DEF ContextInv
<1>3. CASE cs = "C_IDLE"
  <2>1. row_ctx' = row_ctx
    BY <1>3 DEF RowCtxTick, WritesBack
  <2>2. \/ cs' = "C_IDLE"
        \/ cs' = "C_DP_RUN" /\ batch' = 0 /\ comp_t' = 0
    BY <1>3 DEF CompTick, CompIdle, CompRun, BatchEnd, CompDone
  <2>3. ~comp_done'
    BY <1>3 DEF CompTick, CompIdle, CompRun, BatchEnd, CompDone
  <2>4. ~comp_done => \A b \in Batches : Unfolded(b)
    BY <1>3 DEF Unfolded
  <2> QED
    BY <1>2, <2>1, <2>2, <2>3, <2>4 DEF Batches
<1>4. CASE cs = "C_DP_RUN" /\ comp_t < BatchCycles - 1
  <2>1. /\ row_ctx' = row_ctx /\ CompRun
    BY <1>1, <1>4 DEF RowCtxTick, WritesBack, CompTick, CompIdle, CompRun, BatchEnd, CompDone
  <2>2. TileInUse = <<q, k>>
    BY <1>4 DEF TileInUse, ComputeOnWholeTiles
  <2>3. ctx0' = row_ctx[batch] /\ operand' = <<q, k>>
    BY <1>1, <1>4, <2>1, <2>2 DEF CompRun, ContextInv
  <2>4. cs' = cs /\ batch' = batch /\ ~comp_done'
    BY <2>1 DEF CompRun
  <2>5. ~comp_done => \A b \in Batches : Unfolded(b)' => Unfolded(b)
    BY <1>4, <2>4 DEF Unfolded
  <2> QED
    BY <1>2, <1>4, <2>1, <2>3, <2>4, <2>5 DEF ContextInv
<1>5. CASE cs = "C_DP_RUN" /\ comp_t = BatchCycles - 1
  <2>1. /\ row_ctx' = [row_ctx EXCEPT ![batch] = Folded] /\ BatchEnd
    BY <1>1, <1>5 DEF RowCtxTick, WritesBack, CompTick, CompIdle, CompRun, BatchEnd, CompDone
  <2>2. Folded = Append(row_ctx[batch], <<q, k>>)
    <3>1. comp_t > 0
      BY <1>5
    <3> QED
      BY <1>5, <3>1 DEF Folded, TileInUse, ComputeOnWholeTiles, ContextInv
  <2>3. After(row_ctx'[batch], q, k) /\ \A b \in Batches : b # batch => row_ctx'[b] = row_ctx[b]
    <3>1. Unfolded(batch)
      BY <1>1, <1>5 DEF Unfolded, CompInv, Batches
    <3>2. Before(row_ctx[batch], q, k) \/ (After(row_ctx[batch], q, k) /\ ~FastMemory)
      BY <1>1, <1>2, <3>1
    <3>3. After(Append(row_ctx[batch], <<q, k>>), q, k)
      BY <1>1, <3>2, FoldTile
    <3> QED
      BY <1>1, <2>1, <2>2, <3>3
  <2>4. \A b \in Batches : b < batch + 1 => After(row_ctx'[b], q, k)
    <3>1. \A b \in Batches : b < batch => After(row_ctx[b], q, k)
      BY <1>5 DEF ContextInv
    <3>2. \A b \in Batches : b < batch + 1 => b < batch \/ b = batch
      BY <1>1 DEF Batches
    <3> QED
      BY <1>1, <2>3, <3>1, <3>2 DEF Batches
  <2>5. /\ comp_t' = 0 /\ ~comp_done'
        /\ \/ batch = NUM_BATCHES - 1 /\ cs' = "C_DONE"
           \/ batch' = batch + 1 /\ cs' = "C_DP_RUN"
    BY <1>5, <2>1 DEF BatchEnd
  <2>6. batch = NUM_BATCHES - 1 => \A b \in Batches : b < batch + 1
    BY DEF Batches
  <2>7. \A b \in Batches : Before(row_ctx'[b], q, k) \/ After(row_ctx'[b], q, k)
    BY <1>2, <2>3
  <2>8. FastMemory => \A b \in Batches : Unfolded(b)' => Before(row_ctx'[b], q, k)
    <3>1. ~comp_done
      BY <1>5 DEF CompInv
    <3>2. \A b \in Batches : batch + 1 <= b => batch <= b /\ b # batch
      BY <1>1 DEF Batches
    <3>3. \A b \in Batches : Unfolded(b)' => Unfolded(b) /\ b # batch
      BY <1>5, <2>5, <3>1, <3>2 DEF Unfolded
    <3> QED
      BY <1>2, <2>3, <3>3
  <2> QED
    BY <2>4, <2>5, <2>6, <2>7, <2>8
<1>6. CASE cs = "C_DONE"
  <2>1. row_ctx' = row_ctx /\ cs' = "C_IDLE" /\ comp_done'
    BY <1>6 DEF RowCtxTick, WritesBack, CompTick, CompIdle, CompRun, BatchEnd, CompDone
  <2> QED
    BY <1>2, <1>6, <2>1 DEF ContextInv, Unfolded
<1> QED
  BY <1>1, <1>3, <1>4, <1>5, <1>6 DEF CompStates

(* What the invariant asks of the row contexts, with the tile pair named.   *)
LEMMA InCompute ==
  ASSUME TypeOK, CompInv, ContextInv, PaceInv(BatchCycles), ComputeOnWholeTiles, ms = "S_COMPUTE",
         NEW rdv \in BOOLEAN, Compute(rdv), CompTick, RowCtxTick(FALSE)
  PROVE  /\ ContextInv'
         /\ ms' \in {"S_COMPUTE", "S_NORMALIZE"} /\ q_tile_idx' = q_tile_idx
         /\ ms' = "S_NORMALIZE" =>
              norm_qi' = 0 /\ \A b \in Batches : Final(row_ctx'[b], q_tile_idx)
<1>1. CASE Computing(rdv) \/ PulseLost(rdv)
  <2>1. ms' = ms /\ q_tile_idx' = q_tile_idx /\ k_tile_idx' = k_tile_idx
    BY <1>1 DEF Computing, PulseLost, fsmVars
  <2>2. FastMemory => ~comp_done
    BY <1>1, PrefetchIsDone, LoadTypes DEF Computing, PulseLost, FastMemory
  <2> QED
    BY <2>1, <2>2, ComputeOrder DEF ContextInv
<1>2. CASE comp_done
  <2>1. cs = "C_IDLE" /\ ~comp_start
    BY <1>2 DEF CompInv
  <2>2. row_ctx' = row_ctx /\ cs' = "C_IDLE" /\ ~comp_done'
    BY <2>1 DEF RowCtxTick, WritesBack, CompTick, CompIdle, CompRun, BatchEnd, CompDone
  <2>3. \A b \in Batches : After(row_ctx[b], q_tile_idx, k_tile_idx)
    BY <1>2 DEF ContextInv
  <2>4. CASE ToNormalize
    <3>1. ms' = "S_NORMALIZE" /\ q_tile_idx' = q_tile_idx /\ norm_qi' = 0
      BY <2>4 DEF ToNormalize, GoTo
    <3>2. \A b \in Batches : Final(row_ctx'[b], q_tile_idx)
      BY <2>2, <2>3, <2>4 DEF ToNormalize, LastTile, After, Final
    <3> QED
      BY <2>2, <3>1, <3>2 DEF ContextInv
  <2>5. CASE NextTile
    <3>1. ms' = ms /\ q_tile_idx' = q_tile_idx /\ k_tile_idx' = k_tile_idx + 1
      BY <2>5 DEF NextTile
    <3>2. k_tile_idx' # 0 /\ k_tile_idx' - 1 = k_tile_idx
      BY <3>1 DEF TypeOK, MasterTypeOK, KTiles
    <3>3. \A b \in Batches : Before(row_ctx'[b], q_tile_idx', k_tile_idx')
      BY <2>2, <2>3, <3>1, <3>2 DEF Before, After
    <3> QED
      BY <2>2, <3>1, <3>3 DEF ContextInv
  <2> QED
    BY <1>1, <1>2, <2>4, <2>5 DEF Compute
<1> QED
  BY <1>1, <1>2 DEF Compute, ToNormalize, NextTile

LEMMA OutsideCompute ==
  ASSUME TypeOK, CompInv, ContextInv, ms # "S_COMPUTE",
         NEW start \in BOOLEAN, NEW rdv \in BOOLEAN, NEW taken \in BOOLEAN,
         MasterTick(start, rdv, taken), CompTick, RowCtxTick(ms = "S_INIT_CONTEXT")
  PROVE  /\ ContextInv'
         /\ row_ctx' = IF ms = "S_INIT_CONTEXT" THEN [b \in Batches |-> <<>>] ELSE row_ctx
<1>1. cs' = "C_IDLE" /\ ~comp_done' /\ ~WritesBack
  BY DEF CompInv, CompTick, CompIdle, CompRun, BatchEnd, CompDone, WritesBack
<1>2. row_ctx' = IF ms = "S_INIT_CONTEXT" THEN [b \in Batches |-> <<>>] ELSE row_ctx
  BY <1>1 DEF RowCtxTick
<1>3. /\ ms' = "S_LOAD_K" => \/ ms = "S_INIT_CONTEXT" /\ k_tile_idx' = 0
                             \/ ms = "S_LOAD_K" /\ k_tile_idx' = k_tile_idx
      /\ ms' = "S_LOAD_V" => ms \in {"S_LOAD_K", "S_LOAD_V"} /\ k_tile_idx' = k_tile_idx
      /\ ms' = "S_COMPUTE" => ms = "S_LOAD_V" /\ k_tile_idx' = k_tile_idx
  BY DEF MasterTick, Idle, LoadQ, InitContext, LoadK, LoadV, Compute, NormalizeRows,
         WriteO, NextQ, Done, GoTo, fsmVars
<1>4. ms' \in {"S_LOAD_K", "S_LOAD_V", "S_COMPUTE"} =>
        k_tile_idx' = 0 /\ \A b \in Batches : row_ctx'[b] = <<>>
  BY <1>2, <1>3 DEF ContextInv
<1> QED
  BY <1>1, <1>2, <1>4 DEF ContextInv, Before

(* Which states follow which, and what most of them leave alone. *)
LEMMA Successors ==
  ASSUME NEW start \in BOOLEAN, NEW rdv \in BOOLEAN, NEW taken \in BOOLEAN,
         MasterTick(start, rdv, taken)
  PROVE  /\ ms \notin {"S_COMPUTE", "S_NORMALIZE"} => ms' # "S_NORMALIZE"
         /\ ms \notin {"S_NORMALIZE", "S_WRITE_O"} => ms' # "S_WRITE_O"
         /\ ms # "S_WRITE_O" => ms' # "S_NEXT_Q" /\ wr_cmd' = NoCmd
         /\ ms # "S_NEXT_Q" => ms' # "S_DONE"
         /\ ms \notin {"S_IDLE", "S_DONE"} => ms' # "S_IDLE"
         /\ ms # "S_DONE" => ~done'
         /\ ms \notin {"S_IDLE", "S_NEXT_Q"} => q_tile_idx' = q_tile_idx
         /\ ms \notin {"S_IDLE", "S_DONE"} => busy' = busy
<1>1. /\ ms # "S_WRITE_O" => wr_cmd' = NoCmd
      /\ ms # "S_DONE" => ~done'
  BY DEF MasterTick, Idle, LoadQ, InitContext, LoadK, LoadV, Compute, NormalizeRows,
         WriteO, NextQ, Done, Quiet, Pulses
<1>2. /\ ms \notin {"S_COMPUTE", "S_NORMALIZE"} => ms' # "S_NORMALIZE"
      /\ ms \notin {"S_NORMALIZE", "S_WRITE_O"} => ms' # "S_WRITE_O"
      /\ ms # "S_WRITE_O" => ms' # "S_NEXT_Q"
      /\ ms # "S_NEXT_Q" => ms' # "S_DONE"
      /\ ms \notin {"S_IDLE", "S_DONE"} => ms' # "S_IDLE"
  BY DEF MasterTick, Idle, LoadQ, InitContext, LoadK, LoadV, Compute, Computing, ToNormalize,
         NextTile, PulseLost, NormalizeRows, WriteO, NextQ, Done, GoTo, fsmVars
<1>3. /\ ms \notin {"S_IDLE", "S_NEXT_Q"} => q_tile_idx' = q_tile_idx
      /\ ms \notin {"S_IDLE", "S_DONE"} => busy' = busy
  BY DEF MasterTick, Idle, LoadQ, InitContext, LoadK, LoadV, Compute, Computing, ToNormalize,
         NextTile, PulseLost, NormalizeRows, WriteO, NextQ, Done, GoTo, fsmVars
<1> QED
  BY <1>1, <1>2, <1>3

LEMMA Normalizing ==
  ASSUME TypeOK, OutputInv, NormalizeRows, row_ctx' = row_ctx
  PROVE  OutputInv'
<1>1. /\ ms = "S_NORMALIZE" /\ q_tile_idx' = q_tile_idx /\ norm_qi \in Batches
      /\ \A w \in QWords :
           o_buf'[w] = IF GroupOf(w) = norm_qi THEN row_ctx[norm_qi] ELSE o_buf[w]
      /\ \/ norm_qi = NUM_BATCHES - 1 /\ ms' = "S_WRITE_O"
         \/ norm_qi' = norm_qi + 1 /\ ms' = "S_NORMALIZE"
  BY DEF TypeOK, MasterTypeOK, NormalizeRows, GoTo, fsmVars
<1>2. \A w \in QWords : GroupOf(w) < norm_qi + 1 => Final(o_buf'[w], q_tile_idx)
  <2>1. \A w \in QWords : GroupOf(w) < norm_qi + 1 => GroupOf(w) < norm_qi \/ GroupOf(w) = norm_qi
    BY <1>1, GroupBounds DEF Batches
  <2>2. \A w \in QWords : GroupOf(w) < norm_qi => GroupOf(w) # norm_qi
    BY <1>1, GroupBounds DEF Batches
  <2> QED
    BY <1>1, <2>1, <2>2 DEF OutputInv
<1>3. norm_qi = NUM_BATCHES - 1 => \A w \in QWords : GroupOf(w) < norm_qi + 1
  BY GroupBounds DEF Batches
<1> QED
  BY <1>1, <1>2, <1>3 DEF OutputInv

LEMMA OutputOrder ==
  ASSUME TypeOK, CompInv, ContextInv, PaceInv(BatchCycles), ComputeOnWholeTiles, OutputInv,
         NEW start \in BOOLEAN, NEW rdv \in BOOLEAN, NEW taken \in BOOLEAN,
         MasterTick(start, rdv, taken), CompTick, RowCtxTick(ms = "S_INIT_CONTEXT")
  PROVE  ContextInv' /\ OutputInv'
<1>1. CASE ms = "S_COMPUTE"
  <2>1. Compute(rdv) /\ RowCtxTick(FALSE)
    BY <1>1 DEF MasterTick, Idle, LoadQ, InitContext, LoadK, LoadV, NormalizeRows,
                WriteO, NextQ, Done
  <2>2. /\ ContextInv'
        /\ ms' \in {"S_COMPUTE", "S_NORMALIZE"} /\ q_tile_idx' = q_tile_idx
        /\ ms' = "S_NORMALIZE" =>
             norm_qi' = 0 /\ \A b \in Batches : Final(row_ctx'[b], q_tile_idx)
    BY <1>1, <2>1, InCompute
  <2>3. \A w \in QWords : ~(GroupOf(w) < 0)
    BY GroupBounds DEF Batches
  <2> QED
    BY <2>2, <2>3 DEF OutputInv
<1>2. CASE ms # "S_COMPUTE"
  <2>1. ContextInv' /\ (ms # "S_INIT_CONTEXT" => row_ctx' = row_ctx)
    BY <1>2, OutsideCompute
  <2>2. CASE ms = "S_NORMALIZE"
    <3>1. NormalizeRows
      BY <2>2 DEF MasterTick, Idle, LoadQ, InitContext, LoadK, LoadV, Compute, WriteO, NextQ, Done
    <3> QED
      BY <2>1, <2>2, <3>1, Normalizing
  <2>3. CASE ms = "S_WRITE_O"
    <3>1. WriteO(taken)
      BY <2>3 DEF MasterTick, Idle, LoadQ, InitContext, LoadK, LoadV, Compute, NormalizeRows,
                  NextQ, Done
    <3>2. o_buf' = o_buf /\ q_tile_idx' = q_tile_idx /\ ms' # "S_NORMALIZE"
      BY <2>3, <3>1, Successors DEF WriteO, bufVars
    <3> QED
      BY <2>1, <2>3, <3>2 DEF OutputInv
  <2>4. CASE ms \notin {"S_NORMALIZE", "S_WRITE_O"}
    BY <1>2, <2>1, <2>4, Successors DEF OutputInv
  <2> QED
    BY <2>2, <2>3, <2>4
<1> QED
  BY <1>1, <1>2
-----------------------------------------------------------------------------
(* ---- The words reach the memory ---- *)

LEMMA NothingStored ==
  ASSUME MasterTypeOK, StoreInv, MemoryInv, ms # "S_WRITE_O",
         NEW start \in BOOLEAN, NEW rdv \in BOOLEAN, NEW taken \in BOOLEAN,
         MasterTick(start, rdv, taken), WriteTick(taken), OMemTick(taken)
  PROVE  StoreInv' /\ MemoryInv'
<1>1. ~taken
  BY DEF WriteTick, dma_wr_data_valid
<1>2. wr_cmd' = NoCmd
  BY Successors
<1>3. ms' = "S_WRITE_O" => o_write_cnt' = 0
  <2>1. CASE ms = "S_NORMALIZE"
    <3>1. NormalizeRows
      BY <2>1 DEF MasterTick, Idle, LoadQ, InitContext, LoadK, LoadV, Compute, WriteO, NextQ, Done
    <3> QED
      BY <2>1, <3>1 DEF NormalizeRows, GoTo, fsmVars
  <2> QED
    BY <2>1, Successors
<1>4. StoreInv'
  BY <1>2, <1>3 DEF StoreInv
<1>5. ms # "S_IDLE" => o_mem' = o_mem
  BY <1>1 DEF OMemTick
<1>6. \A w \in QWords : ~(w < 0)
  BY DEF QWords
<1>7. CASE ms = "S_IDLE"
  <2>1. Idle(start)
    BY <1>7 DEF MasterTick, LoadQ, InitContext, LoadK, LoadV, Compute, NormalizeRows,
                WriteO, NextQ, Done
  <2>2. ~done' /\ (ms' = "S_IDLE" \/ (ms' = "S_LOAD_Q" /\ q_tile_idx' = 0))
    BY <1>7, <2>1 DEF Idle, Quiet, Pulses, fsmVars
  <2>3. \A t \in QTiles : ~(t < 0)
    BY DEF QTiles
  <2> QED
    BY <1>4, <2>2, <2>3 DEF MemoryInv
<1>8. CASE ms = "S_NEXT_Q"
  <2>1. NextQ
    BY <1>8 DEF MasterTick, Idle, LoadQ, InitContext, LoadK, LoadV, Compute, NormalizeRows,
                WriteO, Done
  <2>2. \A t \in QTiles, w \in QWords : t < q_tile_idx + 1 => Kept(t, w)
    <3>1. \A t \in QTiles : t < q_tile_idx + 1 => t < q_tile_idx \/ t = q_tile_idx
      BY DEF MasterTypeOK, QTiles
    <3> QED
      BY <1>8, <3>1 DEF MemoryInv
  <2>3. \A t \in QTiles : t < NUM_Q_TILES
    BY DEF QTiles
  <2>4. \/ ms' = "S_DONE" /\ q_tile_idx' = q_tile_idx /\ q_tile_idx + 1 = NUM_Q_TILES
        \/ ms' = "S_LOAD_Q" /\ q_tile_idx' = q_tile_idx + 1
    BY <2>1 DEF NextQ, GoTo
  <2>5. ~done'
    BY <1>8, Successors
  <2>6. \A t \in QTiles : t < q_tile_idx => t < q_tile_idx + 1
    BY DEF MasterTypeOK, QTiles
  <2> QED
    BY <1>4, <1>5, <1>8, <2>2, <2>3, <2>4, <2>5, <2>6 DEF MemoryInv, Kept
<1>9. CASE ms = "S_DONE"
  <2>1. ms' = "S_IDLE"
    BY <1>9 DEF MasterTick, Idle, LoadQ, InitContext, LoadK, LoadV, Compute, NormalizeRows,
                WriteO, NextQ, Done
  <2> QED
    BY <1>4, <1>5, <1>9, <2>1 DEF MemoryInv, Kept
<1>10. CASE ms \notin {"S_IDLE", "S_NEXT_Q", "S_DONE"}
  <2>1. /\ ms' \notin {"S_NEXT_Q", "S_DONE", "S_IDLE"} /\ ~done'
        /\ q_tile_idx' = q_tile_idx
    BY <1>10, Successors
  <2> QED
    BY <1>3, <1>4, <1>5, <1>6, <1>10, <2>1 DEF MemoryInv, Kept
<1> QED
  BY <1>7, <1>8, <1>9, <1>10

(* The word taken is the one the core counts, and goes to its place.        *)
LEMMA WordTaken ==
  ASSUME MasterTypeOK, StoreInv, ms = "S_WRITE_O", WriteTick(TRUE), OMemTick(TRUE)
  PROVE  /\ o_write_cnt \in QWords
         /\ wsent' = o_write_cnt /\ wresp' /\ wreq' = OCmd(q_tile_idx)
         /\ o_mem' = [o_mem EXCEPT ![OAddr(q_tile_idx) + o_write_cnt - 1] = o_buf[o_write_cnt]]
<1>1. o_write_cnt \in QWords /\ wresp /\ Write!Store(o_buf[o_write_cnt])
  BY DEF WriteTick, dma_wr_data_valid
<1>2. wreq = OCmd(q_tile_idx) /\ wsent = o_write_cnt - 1
  <2>1. o_write_cnt # 0
    BY <1>1 DEF QWords
  <2> QED
    BY <1>1, <2>1 DEF StoreInv, wr_ready
<1>3. /\ stored' = [addr |-> OAddr(q_tile_idx) + o_write_cnt - 1, word |-> o_buf[o_write_cnt]]
      /\ wsent' = o_write_cnt /\ wresp' /\ wreq' = OCmd(q_tile_idx)
  <2>1. OAddr(q_tile_idx) + (o_write_cnt - 1) = OAddr(q_tile_idx) + o_write_cnt - 1
    <3>1. OAddr(q_tile_idx) \in Nat
      BY CommandTypes DEF MasterTypeOK, QTiles
    <3> QED
      BY <1>1, <3>1 DEF QWords
  <2> QED
    BY <1>1, <1>2, <2>1 DEF Write!Store, OCmd, QWords
<1>4. o_mem' = [o_mem EXCEPT ![OAddr(q_tile_idx) + o_write_cnt - 1] = o_buf[o_write_cnt]]
  BY <1>3 DEF OMemTick
<1> QED
  BY <1>1, <1>3, <1>4

LEMMA WordsStored ==
  ASSUME MasterTypeOK, DOMAIN o_mem = OWords, StoreInv, MemoryInv, ms = "S_WRITE_O",
         \A w \in QWords : Final(o_buf[w], q_tile_idx),
         NEW start \in BOOLEAN, NEW rdv \in BOOLEAN, NEW taken \in BOOLEAN,
         MasterTick(start, rdv, taken), WriteTick(taken), OMemTick(taken)
  PROVE  StoreInv' /\ MemoryInv'
<1>1. WriteO(taken)
  BY DEF MasterTick, Idle, LoadQ, InitContext, LoadK, LoadV, Compute, NormalizeRows, NextQ, Done
<1>2. /\ q_tile_idx' = q_tile_idx /\ ~done' /\ q_tile_idx \in QTiles
      /\ o_write_cnt \in 0 .. BEATS_PER_TILE_Q + 1
      /\ wr_cmd \in {NoCmd, OCmd(q_tile_idx)} /\ OCmd(q_tile_idx) # NoCmd
  <2>1. OCmd(q_tile_idx).n # NoCmd.n
    BY DEF OCmd, NoCmd
  <2> QED
    BY <2>1, Successors DEF MasterTypeOK, StoreInv
<1>3. CASE o_write_cnt = 0
  <2>1. /\ ~taken /\ o_mem' = o_mem /\ ms' = ms /\ wr_cmd' = OCmd(q_tile_idx)
        /\ o_write_cnt' = IF wr_ready THEN 1 ELSE 0
    BY <1>1, <1>3 DEF WriteTick, dma_wr_data_valid, QWords, OMemTick, WriteO, Pulses, fsmVars
  <2>2. wr_ready => \/ wr_ready'
                    \/ wresp' /\ wreq' = OCmd(q_tile_idx) /\ wsent' = 0
    <3>1. SUFFICES ASSUME wr_ready PROVE \/ wr_ready'
                                         \/ wresp' /\ wreq' = OCmd(q_tile_idx) /\ wsent' = 0
      OBVIOUS
    <3>2. CASE wr_cmd = NoCmd
      <4>1. UNCHANGED storeVars
        BY <2>1, <3>1, <3>2 DEF WriteTick, wr_ready, Write!Respond
      <4> QED
        BY <3>1, <4>1 DEF storeVars, wr_ready
    <3>3. CASE wr_cmd = OCmd(q_tile_idx)
      <4>1. Write!Accept(wr_cmd.addr, wr_cmd.n - 1)
        BY <1>2, <2>1, <3>1, <3>3 DEF WriteTick, wr_ready, Write!Respond
      <4>2. wreq' = [addr |-> wr_cmd.addr, n |-> wr_cmd.n - 1 + 1] /\ wsent' = 0 /\ wresp' = TRUE
        BY <4>1 DEF Write!Accept
      <4> QED
        BY <3>3, <4>2 DEF OCmd
    <3> QED
      BY <1>2, <3>2, <3>3
  <2>3. /\ 1 \in QWords /\ 1 - 1 = 0 /\ 1 # 0
        /\ \A w \in QWords : ~(w < 1) /\ ~(w < 0)
    BY DEF QWords
  <2>4. StoreInv'
    BY <1>2, <2>1, <2>2, <2>3 DEF StoreInv, OCmd, OAddr
  <2>5. MemoryInv'
    BY <1>2, <2>1, <2>3 DEF MemoryInv, Kept
  <2> QED
    BY <2>4, <2>5
<1>4. CASE o_write_cnt # 0
  <2>1. /\ o_write_cnt \in QWords /\ wr_cmd' = NoCmd
        /\ \/ o_write_cnt = 1 /\ wr_ready /\ wr_cmd = OCmd(q_tile_idx)
           \/ wresp /\ wreq = OCmd(q_tile_idx) /\ wsent = o_write_cnt - 1
    BY <1>1, <1>4 DEF StoreInv, WriteO, Quiet, Pulses
  <2>2. CASE ~taken
    <3>1. o_mem' = o_mem /\ ms' = ms /\ o_write_cnt' = o_write_cnt
      BY <1>1, <1>4, <2>2 DEF OMemTick, WriteO, fsmVars
    <3>2. wresp' /\ wreq' = OCmd(q_tile_idx) /\ wsent' = o_write_cnt - 1
      <4>1. CASE o_write_cnt = 1 /\ wr_ready /\ wr_cmd = OCmd(q_tile_idx)
        <5>1. Write!Accept(wr_cmd.addr, wr_cmd.n - 1)
          BY <1>2, <2>2, <4>1 DEF WriteTick, wr_ready, Write!Respond
        <5>2. wreq' = [addr |-> wr_cmd.addr, n |-> wr_cmd.n - 1 + 1] /\ wsent' = 0 /\ wresp' = TRUE
          BY <5>1 DEF Write!Accept
        <5> QED
          BY <4>1, <5>2 DEF OCmd
      <4>2. CASE wresp /\ wreq = OCmd(q_tile_idx) /\ wsent = o_write_cnt - 1
        <5>1. wsent # wreq.n
          BY <2>1, <4>2 DEF OCmd, QWords
        <5> QED
          BY <2>2, <4>2, <5>1 DEF WriteTick, wr_ready, Write!Respond, storeVars
      <4> QED
        BY <2>1, <4>1, <4>2
    <3>3. StoreInv'
      BY <1>2, <2>1, <3>1, <3>2 DEF StoreInv, OCmd, OAddr
    <3>4. MemoryInv'
      BY <1>2, <3>1 DEF MemoryInv, Kept
    <3> QED
      BY <3>3, <3>4
  <2>3. CASE taken
    <3>1. WriteTick(TRUE) /\ OMemTick(TRUE)
      BY <2>3
    <3>2. wsent' = o_write_cnt /\ wresp' /\ wreq' = OCmd(q_tile_idx)
      BY <3>1, WordTaken
    <3>3. o_mem' = [o_mem EXCEPT ![OAddr(q_tile_idx) + o_write_cnt - 1] = o_buf[o_write_cnt]]
      BY <3>1, WordTaken
    <3>4. \A t \in QTiles, w \in QWords :
            (t = q_tile_idx /\ w = o_write_cnt) \/ Kept(t, w) => Kept(t, w)'
      <4>1. Final(o_buf[o_write_cnt], q_tile_idx)
        BY <2>1
      <4>2. \A t \in QTiles, w \in QWords : OAddr(t) + w - 1 \in OWords
        BY DEF OWords
      <4> SUFFICES ASSUME NEW t \in QTiles, NEW w \in QWords,
                          (t = q_tile_idx /\ w = o_write_cnt) \/ Kept(t, w)
                   PROVE  Final(o_mem'[OAddr(t) + w - 1], t)
        BY DEF Kept, OAddr, Final
      <4>4. CASE t = q_tile_idx /\ w = o_write_cnt
        BY <3>3, <4>1, <4>2, <4>4
      <4>5. CASE ~(t = q_tile_idx /\ w = o_write_cnt)
        <5>1. OAddr(t) + w - 1 # OAddr(q_tile_idx) + o_write_cnt - 1
          BY <1>2, <2>1, <4>5, OAddrApart
        <5> QED
          BY <3>3, <4>2, <4>5, <5>1 DEF Kept
      <4> QED
        BY <4>4, <4>5
    <3>5. /\ o_write_cnt' = o_write_cnt + 1
          /\ ms' = IF o_write_cnt = BEATS_PER_TILE_Q THEN "S_NEXT_Q" ELSE ms
      BY <1>1, <1>4, <2>3 DEF WriteO, GoTo
    <3>6. StoreInv'
      <4>1. o_write_cnt # BEATS_PER_TILE_Q => o_write_cnt + 1 \in QWords
        BY <2>1 DEF QWords
      <4>2. (o_write_cnt + 1) - 1 = o_write_cnt
        BY <2>1 DEF QWords
      <4> QED
        BY <1>2, <2>1, <3>2, <3>5, <4>1, <4>2 DEF StoreInv, OCmd, OAddr
    <3>7. \A w \in QWords : w < o_write_cnt + 1 => Kept(q_tile_idx, w)'
      <4>1. \A w \in QWords : w < o_write_cnt + 1 => w < o_write_cnt \/ w = o_write_cnt
        BY <2>1 DEF QWords
      <4> QED
        BY <1>2, <3>4, <4>1 DEF MemoryInv
    <3>8. o_write_cnt = BEATS_PER_TILE_Q => \A w \in QWords : w < o_write_cnt + 1
      BY DEF QWords
    <3>9. MemoryInv'
      BY <1>2, <3>4, <3>5, <3>7, <3>8 DEF MemoryInv, Kept
    <3> QED
      BY <3>6, <3>9
  <2> QED
    BY <2>2, <2>3
<1> QED
  BY <1>3, <1>4
-----------------------------------------------------------------------------
LEMMA NextOrder ==
  ASSUME IInv, CompInv, PaceInv(BatchCycles), OrderInv, [Clock(FALSE)]_vars
  PROVE  OrderInv'
<1>1. CASE UNCHANGED vars
  BY <1>1 DEF vars, masterVars, fsmVars, outVars, pulseVars, bufVars, compVars, storeVars,
              OrderInv, ContextInv, Unfolded, OutputInv, StoreInv, MemoryInv, Kept, wr_ready,
              OCmd, OAddr
<1>2. CASE Clock(FALSE)
  <2>1. PICK start \in BOOLEAN, rdv \in BOOLEAN, taken \in BOOLEAN :
          /\ MasterTick(start, rdv, taken) /\ WriteTick(taken) /\ CompTick
          /\ RowCtxTick(ms = "S_INIT_CONTEXT") /\ OMemTick(taken)
    BY <1>2 DEF Clock
  <2>2. TypeOK /\ ComputeOnWholeTiles
    BY DEF IInv, LoadInv, LoadedTiles, CompInv, ComputeOnWholeTiles, OperandsWhole
  <2>3. ContextInv' /\ OutputInv'
    BY <2>1, <2>2, OutputOrder DEF OrderInv
  <2>4. StoreInv' /\ MemoryInv'
    <3>1. MasterTypeOK /\ DOMAIN o_mem = OWords
      BY <2>2 DEF TypeOK, StreamTypeOK
    <3> QED
      BY <2>1, <3>1, NothingStored, WordsStored DEF OrderInv, OutputInv
  <2> QED
    BY <2>3, <2>4 DEF OrderInv
<1> QED
  BY <1>1, <1>2

(* What is true of a run without a soft reset.                              *)
RunInv == IInv /\ CompInv /\ EngineInv /\ PaceInv(BatchCycles) /\ OrderInv

LEMMA InitRun == Init => RunInv
<1>1. Init => CompInv /\ EngineInv /\ PaceInv(BatchCycles)
  BY DEF Init, CompInv, EngineInv, PaceInv
<1> QED
  BY <1>1, InitIInv, InitOrder DEF RunInv

LEMMA NextRun == RunInv /\ [Clock(FALSE)]_vars => RunInv'
<1> SUFFICES ASSUME RunInv, [Clock(FALSE)]_vars PROVE RunInv'
  OBVIOUS
<1>1. IInv'
  BY NextIInv DEF RunInv, Next
<1>2. CompInv'
  BY ClockComp, StutterComp DEF RunInv, IInv
<1>3. EngineInv' /\ PaceInv(BatchCycles)'
  <2>1. CASE UNCHANGED vars
    BY <2>1 DEF vars, masterVars, fsmVars, pfVars, pulseVars, compVars, readVars, RunInv,
                EngineInv, PaceInv, LastTile, rd_ready, PrefetchLeft, WordsLeft, ComputeLeft,
                CommandTime, BatchesLeft
  <2> QED
    BY <1>1, <2>1, ClockPace DEF RunInv
<1>4. OrderInv'
  BY NextOrder DEF RunInv
<1> QED
  BY <1>1, <1>2, <1>3, <1>4 DEF RunInv

(* At any speed of the memory: when a run without a soft reset ends, every  *)
(* word of the output has been folded from every K/V tile, in their order.  *)
(* A slow memory can make a tile count twice, never be left out.            *)
THEOREM EveryTileFolded == UninterruptedSpec => []NoTileSkipped
<1>1. RunInv => NoTileSkipped
  BY DEF RunInv, OrderInv, MemoryInv, Kept, Final, Folds, Climbs, NoTileSkipped
<1> QED
  BY <1>1, InitRun, NextRun, PTL DEF UninterruptedSpec
-----------------------------------------------------------------------------
(* ---- With a fast memory each tile is folded once ---- *)

LEMMA OnceDistinct ==
  ASSUME NEW c, NEW t, NEW k \in Nat, Once(c, t, k), NEW i \in 1 .. Len(c), NEW j \in 1 .. Len(c),
         i # j
  PROVE  c[i] # c[j]
<1>1. c[i] = <<t, i - 1>> /\ c[j] = <<t, j - 1>>
  BY DEF Once
<1>2. i - 1 # j - 1
  OBVIOUS
<1> QED
  BY <1>1, <1>2

LEMMA RowsOnce ==
  ASSUME RunInv, RunInv', FastMemory, TilesFoldedOnce, [Clock(FALSE)]_vars
  PROVE  TilesFoldedOnce'
<1>1. CASE UNCHANGED vars
  BY <1>1 DEF vars, TilesFoldedOnce
<1>2. CASE Clock(FALSE)
  <2>1. PICK start \in BOOLEAN, rdv \in BOOLEAN, taken \in BOOLEAN :
          /\ MasterTick(start, rdv, taken) /\ CompTick /\ RowCtxTick(ms = "S_INIT_CONTEXT")
    BY <1>2 DEF Clock
  <2>2. ASSUME NEW b \in Batches
        PROVE  \/ row_ctx'[b] = row_ctx[b] \/ row_ctx'[b] = <<>>
               \/ \E t \in QTiles, k \in Nat : Once(row_ctx'[b], t, k)
    <3>1. CASE ms # "S_COMPUTE"
      BY <2>1, <3>1, OutsideCompute DEF RunInv, IInv, OrderInv
    <3>2. CASE ms = "S_COMPUTE"
      <4>1. Compute(rdv)
        BY <2>1, <3>2 DEF MasterTick, Idle, LoadQ, InitContext, LoadK, LoadV, NormalizeRows,
                          WriteO, NextQ, Done
      <4>2. ms' \in {"S_COMPUTE", "S_NORMALIZE"}
        BY <3>2, <4>1 DEF Compute, Computing, ToNormalize, NextTile, PulseLost, GoTo, fsmVars
      <4>3. q_tile_idx' \in QTiles /\ k_tile_idx' \in Nat
        BY DEF RunInv, IInv, TypeOK, MasterTypeOK, QTiles, KTiles
      <4>4. CASE ms' = "S_COMPUTE"
        <5>1. Before(row_ctx'[b], q_tile_idx', k_tile_idx') \/ After(row_ctx'[b], q_tile_idx', k_tile_idx')
          BY <4>4 DEF RunInv, OrderInv, ContextInv
        <5>2. \A k \in Nat : k # 0 => k - 1 \in Nat
          OBVIOUS
        <5> QED
          BY <4>3, <5>1, <5>2 DEF Before, After, Folds
      <4>5. CASE ms' = "S_NORMALIZE"
        BY <4>3, <4>5 DEF RunInv, OrderInv, OutputInv, Final, Folds
      <4> QED
        BY <4>2, <4>4, <4>5
    <3> QED
      BY <3>1, <3>2
  <2>3. row_ctx \in [Batches -> Context] /\ row_ctx' \in [Batches -> Context]
    BY DEF RunInv, IInv, TypeOK, ComputeTypeOK
  <2>4. \A c \in Context : DOMAIN c = 1 .. Len(c)
    BY DEF Context
  <2>5. ASSUME NEW b \in Batches, NEW i \in DOMAIN row_ctx'[b], NEW j \in DOMAIN row_ctx'[b], i # j
        PROVE  row_ctx'[b][i] # row_ctx'[b][j]
    <3>1. i \in 1 .. Len(row_ctx'[b]) /\ j \in 1 .. Len(row_ctx'[b])
      BY <2>3, <2>4
    <3>2. CASE row_ctx'[b] = row_ctx[b]
      BY <2>5, <3>2 DEF TilesFoldedOnce
    <3>3. CASE row_ctx'[b] = <<>>
      BY <3>1, <3>3
    <3> QED
      BY <2>2, <2>5, <3>1, <3>2, <3>3, OnceDistinct
  <2> QED
    BY <2>5 DEF TilesFoldedOnce
<1> QED
  BY <1>1, <1>2

(* With a fast memory no tile is folded twice into a row: the pulse that     *)
(* comp_done is comes when the next tile is there.                          *)
THEOREM FoldedOnce == ASSUME FastMemory PROVE UninterruptedSpec => []TilesFoldedOnce
<1>1. Init => TilesFoldedOnce
  BY DEF Init, TilesFoldedOnce
<1> QED
  BY <1>1, InitRun, NextRun, RowsOnce, PTL DEF UninterruptedSpec
-----------------------------------------------------------------------------
(* ---- The core implements TiledAttention ---- *)

(* The words of the output that the run has still to write. *)
Later(t, w) ==
  \/ t > q_tile_idx
  \/ t = q_tile_idx /\ ms \notin {"S_WRITE_O", "S_NEXT_Q", "S_DONE"}
  \/ t = q_tile_idx /\ ms = "S_WRITE_O" /\ w >= o_write_cnt
UntouchedInv ==
  /\ busy <=> ms # "S_IDLE"
  /\ ms # "S_IDLE" =>
       \A t \in QTiles, w \in QWords : Later(t, w) => o_mem[OAddr(t) + w - 1] = <<>>

(* What the two lemmas on a cycle need to know of the types.                *)
OutTypeOK == MasterTypeOK /\ busy \in BOOLEAN /\ done \in BOOLEAN /\ DOMAIN o_mem = OWords

LEMMA TickUntouched ==
  ASSUME OutTypeOK, StoreInv, UntouchedInv,
         NEW start \in BOOLEAN, NEW rdv \in BOOLEAN, NEW taken \in BOOLEAN,
         MasterTick(start, rdv, taken), WriteTick(taken), OMemTick(taken)
  PROVE  UntouchedInv'
<1>1. /\ MasterTypeOK /\ q_tile_idx \in QTiles
      /\ o_write_cnt \in 0 .. BEATS_PER_TILE_Q + 1
  BY DEF OutTypeOK, MasterTypeOK
<1>2. CASE ms = "S_IDLE"
  <2>1. Idle(start) /\ ~taken
    BY <1>2 DEF MasterTick, LoadQ, InitContext, LoadK, LoadV, Compute, NormalizeRows,
                      WriteO, NextQ, Done, WriteTick, dma_wr_data_valid
  <2>2. \/ ms' = "S_IDLE" /\ busy' = busy
        \/ ms' = "S_LOAD_Q" /\ busy' = TRUE
    BY <1>2, <2>1 DEF Idle, fsmVars
  <2>3. ms' = "S_LOAD_Q" => o_mem' = [a \in OWords |-> <<>>]
    BY <1>2 DEF OMemTick
  <2>4. \A t \in QTiles, w \in QWords : OAddr(t) + w - 1 \in OWords
    BY DEF OWords
  <2> QED
    BY <1>2, <2>2, <2>3, <2>4 DEF UntouchedInv, OAddr
<1>3. CASE ms # "S_IDLE" /\ ~taken
  <2>1. o_mem' = o_mem
    BY <1>3 DEF OMemTick
  <2>2. busy' <=> ms' # "S_IDLE"
    <3>1. CASE ms = "S_DONE"
      BY <3>1 DEF MasterTick, Idle, LoadQ, InitContext, LoadK, LoadV, Compute,
                        NormalizeRows, WriteO, NextQ, Done
    <3>2. CASE ms # "S_DONE"
      BY <1>3, <3>2, Successors DEF UntouchedInv
    <3> QED
      BY <3>1, <3>2
  <2>3. ASSUME NEW t \in QTiles, NEW w \in QWords, Later(t, w)', ms' # "S_IDLE"
        PROVE  Later(t, w)
    <3>1. CASE ms = "S_NEXT_Q"
      <4>1. \/ ms' = "S_DONE" /\ q_tile_idx' = q_tile_idx
            \/ ms' = "S_LOAD_Q" /\ q_tile_idx' = q_tile_idx + 1
        BY <3>1 DEF MasterTick, Idle, LoadQ, InitContext, LoadK, LoadV, Compute,
                          NormalizeRows, WriteO, NextQ, Done, GoTo
      <4> QED
        BY <1>1, <2>3, <4>1 DEF Later, QTiles
    <3>2. CASE ms = "S_WRITE_O"
      <4>1. /\ q_tile_idx' = q_tile_idx /\ ms' = "S_WRITE_O"
            /\ \/ o_write_cnt = 0
               \/ o_write_cnt' = o_write_cnt
        BY <1>3, <3>2 DEF MasterTick, Idle, LoadQ, InitContext, LoadK, LoadV, Compute,
                                NormalizeRows, WriteO, NextQ, Done, fsmVars
      <4>2. w >= 0
        BY DEF QWords
      <4> QED
        BY <2>3, <3>2, <4>1, <4>2 DEF Later
    <3>3. CASE ms \notin {"S_NEXT_Q", "S_WRITE_O", "S_DONE"}
      <4>1. q_tile_idx' = q_tile_idx
        BY <1>3, <3>3, Successors
      <4> QED
        BY <2>3, <3>3, <4>1 DEF Later
    <3>4. CASE ms = "S_DONE"
      BY <2>3, <3>4 DEF MasterTick, Idle, LoadQ, InitContext, LoadK, LoadV, Compute,
                        NormalizeRows, WriteO, NextQ, Done
    <3> QED
      BY <3>1, <3>2, <3>3, <3>4
  <2> QED
    BY <1>3, <2>1, <2>2, <2>3 DEF UntouchedInv, OAddr
<1>4. CASE taken
  <2>1. ms = "S_WRITE_O" /\ WriteO(taken)
    BY <1>4 DEF WriteTick, dma_wr_data_valid, MasterTick, Idle, LoadQ, InitContext, LoadK,
                      LoadV, Compute, NormalizeRows, NextQ, Done
  <2>2. /\ o_write_cnt \in QWords
        /\ o_mem' = [o_mem EXCEPT ![OAddr(q_tile_idx) + o_write_cnt - 1] = o_buf[o_write_cnt]]
    <3>1. WriteTick(TRUE) /\ OMemTick(TRUE)
      BY <1>4
    <3> QED
      BY <1>1, <2>1, <3>1, WordTaken
  <2>3. /\ q_tile_idx' = q_tile_idx /\ busy' = busy /\ o_write_cnt' = o_write_cnt + 1
        /\ ms' \in {"S_WRITE_O", "S_NEXT_Q"}
    <3>1. q_tile_idx' = q_tile_idx /\ busy' = busy
      BY <2>1, Successors
    <3>2. o_write_cnt # 0
      BY <2>2 DEF QWords
    <3>3. /\ o_write_cnt' = o_write_cnt + 1
          /\ ms' = IF o_write_cnt = BEATS_PER_TILE_Q THEN "S_NEXT_Q" ELSE ms
      BY <1>4, <2>1, <3>2 DEF WriteO, GoTo
    <3> QED
      BY <2>1, <3>1, <3>3
  <2>4. ASSUME NEW t \in QTiles, NEW w \in QWords, Later(t, w)'
        PROVE  o_mem'[OAddr(t) + w - 1] = <<>>
    <3>1. Later(t, w) /\ ~(t = q_tile_idx /\ w = o_write_cnt)
      BY <1>1, <2>1, <2>2, <2>3, <2>4 DEF Later, QWords, QTiles
    <3>2. OAddr(t) + w - 1 # OAddr(q_tile_idx) + o_write_cnt - 1
      BY <1>1, <2>2, <3>1, OAddrApart
    <3>3. OAddr(t) + w - 1 \in OWords /\ DOMAIN o_mem = OWords
      BY <1>1 DEF OWords, OutTypeOK
    <3> QED
      BY <2>1, <2>2, <3>1, <3>2, <3>3 DEF UntouchedInv
  <2> QED
    BY <2>1, <2>3, <2>4 DEF UntouchedInv, OAddr
<1> QED
  BY <1>2, <1>3, <1>4

LEMMA NextUntouched ==
  ASSUME RunInv, UntouchedInv, [Clock(FALSE)]_vars
  PROVE  UntouchedInv'
<1>1. CASE UNCHANGED vars
  BY <1>1 DEF vars, masterVars, fsmVars, outVars, UntouchedInv, Later, OAddr
<1>2. CASE Clock(FALSE)
  <2>1. PICK start \in BOOLEAN, rdv \in BOOLEAN, taken \in BOOLEAN :
          MasterTick(start, rdv, taken) /\ WriteTick(taken) /\ OMemTick(taken)
    BY <1>2 DEF Clock
  <2>2. OutTypeOK /\ StoreInv
    BY DEF RunInv, OrderInv, IInv, TypeOK, FlagTypeOK, StreamTypeOK, OutTypeOK
  <2> QED
    BY <2>1, <2>2, TickUntouched
<1> QED
  BY <1>1, <1>2

(* A row into which each tile was folded once is what the specification     *)
(* calls attended.                                                          *)
LEMMA AttendedOnce ==
  ASSUME NEW c \in Context, NEW t, Once(c, t, NUM_K_TILES - 1)
  PROVE  c = Tiled!Attended(t)
<1>1. c = [i \in 1 .. Len(c) |-> c[i]]
  BY DEF Context
<1>2. Len(c) = NUM_K_TILES /\ \A i \in 1 .. NUM_K_TILES : c[i] = <<t, i - 1>>
  BY DEF Once
<1> QED
  BY <1>1, <1>2 DEF Tiled!Attended

(* The output as TiledAttention sees it. *)
Output == [p \in QTiles \X QWords |-> o_mem[OAddr(p[1]) + p[2] - 1]]

LEMMA TickRefines ==
  ASSUME OutTypeOK, OutTypeOK', StoreInv, MemoryInv, UntouchedInv,
         ms = "S_WRITE_O" => \A w \in QWords : o_buf[w] = Tiled!Attended(q_tile_idx),
         NEW start \in BOOLEAN, NEW rdv \in BOOLEAN, NEW taken \in BOOLEAN,
         MasterTick(start, rdv, taken), WriteTick(taken), OMemTick(taken)
  PROVE  [Tiled!Next]_(Tiled!tiledVars)
<1>1. /\ MasterTypeOK /\ DOMAIN o_mem = OWords
      /\ q_tile_idx \in QTiles /\ done \in BOOLEAN /\ busy \in BOOLEAN
  BY DEF OutTypeOK, MasterTypeOK
<1>2. \A t \in QTiles, w \in QWords : OAddr(t) + w - 1 \in OWords
  BY DEF OWords
<1>3. Tiled!Places = QTiles \X QWords
  BY DEF Tiled!Places, QTiles, QWords
<1>4. CASE ms = "S_IDLE"
  <2>1. Idle(start) /\ ~taken
    BY <1>4 DEF MasterTick, LoadQ, InitContext, LoadK, LoadV, Compute, NormalizeRows,
                      WriteO, NextQ, Done, WriteTick, dma_wr_data_valid
  <2>2. done' = FALSE
    BY <2>1 DEF Idle, Quiet, Pulses
  <2>3. CASE start /\ ~busy
    <3>1. busy' = TRUE /\ ms' = "S_LOAD_Q"
      BY <2>1, <2>3 DEF Idle
    <3>2. o_mem' = [a \in OWords |-> <<>>]
      BY <1>4, <3>1 DEF OMemTick
    <3>3. Output' = [p \in QTiles \X QWords |-> <<>>]
      BY <1>2, <3>2 DEF Output, OAddr
    <3>4. Tiled!Start
      BY <1>3, <2>2, <2>3, <3>1, <3>3 DEF Tiled!Start, Output
    <3> QED
      BY <3>4 DEF Tiled!Next
  <2>4. CASE ~(start /\ ~busy)
    <3>1. busy' = busy /\ ms' = ms
      BY <2>1, <2>4 DEF Idle, fsmVars
    <3>2. Output' = Output
      BY <1>4, <2>1, <3>1 DEF OMemTick, Output, OAddr
    <3>3. Tiled!Lower \/ UNCHANGED Tiled!tiledVars
      BY <1>1, <2>2, <3>1, <3>2 DEF Tiled!Lower, Tiled!tiledVars, Output
    <3> QED
      BY <3>3 DEF Tiled!Next
  <2> QED
    BY <2>3, <2>4
<1>5. CASE ms = "S_DONE"
  <2>1. Done /\ ~taken
    BY <1>5 DEF MasterTick, Idle, LoadQ, InitContext, LoadK, LoadV, Compute,
                      NormalizeRows, WriteO, NextQ, WriteTick, dma_wr_data_valid
  <2>2. busy' = FALSE /\ done' = TRUE /\ busy
    BY <1>5, <2>1 DEF Done, Pulses, UntouchedInv
  <2>3. Output' = Output
    BY <1>5, <2>1 DEF OMemTick, Output, OAddr
  <2>4. \A p \in QTiles \X QWords : Output[p] # <<>>
    BY <1>1, <1>5 DEF MemoryInv, Kept, Final, Folds, Climbs, Output
  <2>5. Tiled!Finish
    BY <1>3, <2>2, <2>3, <2>4 DEF Tiled!Finish, Output
  <2> QED
    BY <2>5 DEF Tiled!Next
<1>6. CASE ms \notin {"S_IDLE", "S_DONE"}
  <2>1. busy' = busy /\ done = FALSE /\ done' = FALSE /\ busy
    <3>1. busy' = busy /\ ~done'
      BY <1>6, Successors
    <3>2. ~done /\ done' \in BOOLEAN
      BY <1>6 DEF MemoryInv, OutTypeOK
    <3> QED
      BY <1>1, <1>6, <3>1, <3>2 DEF UntouchedInv
  <2>2. CASE ~taken
    <3>1. Output' = Output
      BY <1>6, <2>2 DEF OMemTick, Output, OAddr
    <3> QED
      BY <2>1, <3>1 DEF Tiled!tiledVars, Output
  <2>3. CASE taken
    <3> DEFINE word == o_buf[o_write_cnt]
    <3>1. ms = "S_WRITE_O"
      BY <2>3 DEF WriteTick, dma_wr_data_valid
    <3>2. o_write_cnt \in QWords /\ o_mem' = [o_mem EXCEPT ![OAddr(q_tile_idx) + o_write_cnt - 1] = word]
      <4>1. WriteTick(TRUE) /\ OMemTick(TRUE)
        BY <2>3
      <4> QED
        BY <1>1, <3>1, <4>1, WordTaken
    <3>3. word = Tiled!Attended(q_tile_idx)
      BY <3>1, <3>2
    <3>4. PICK p \in QTiles \X QWords : p = <<q_tile_idx, o_write_cnt>>
      BY <1>1, <3>2
    <3>5. Output' = [Output EXCEPT ![p] = word]
      <4>1. ASSUME NEW r \in QTiles \X QWords
            PROVE  Output'[r] = IF r = p THEN word ELSE Output[r]
        <5>1. PICK t \in QTiles, w \in QWords : r = <<t, w>>
          OBVIOUS
        <5>2. OAddr(t) + w - 1 \in OWords /\ DOMAIN o_mem = OWords
          BY <1>1, <1>2
        <5>3. <<t, w>> # p => OAddr(t) + w - 1 # OAddr(q_tile_idx) + o_write_cnt - 1
          BY <1>1, <3>2, <3>4, OAddrApart
        <5>4. o_mem'[OAddr(t) + w - 1] =
                IF <<t, w>> = p THEN word ELSE o_mem[OAddr(t) + w - 1]
          BY <3>2, <3>4, <5>2, <5>3
        <5>5. /\ Output[r] = o_mem[OAddr(t) + w - 1]
              /\ Output'[r] = o_mem'[OAddr(t) + w - 1]
          BY <5>1 DEF Output, OAddr
        <5> QED
          BY <5>1, <5>4, <5>5
      <4>2. /\ Output = [r \in QTiles \X QWords |-> Output[r]]
            /\ Output' = [r \in QTiles \X QWords |-> Output'[r]]
        BY DEF Output
      <4> HIDE DEF word
      <4> QED
        BY <4>1, <4>2
    <3>6. Output[p] = <<>>
      BY <1>1, <3>1, <3>2, <3>4 DEF Output, UntouchedInv, Later, QWords
    <3>7. ASSUME NEW r \in QTiles \X QWords, Tiled!Before(r, p)
          PROVE  Output[r] # <<>>
      <4>1. Kept(r[1], r[2])
        BY <1>1, <3>1, <3>4, <3>7 DEF Tiled!Before, MemoryInv
      <4> QED
        BY <4>1 DEF Kept, Final, Folds, Climbs, Output
    <3>8. Tiled!Store(p)
      BY <1>3, <2>1, <3>3, <3>4, <3>5, <3>6, <3>7 DEF Tiled!Store, Output
    <3> QED
      BY <1>3, <3>8 DEF Tiled!Next
  <2> QED
    BY <2>2, <2>3
<1> QED
  BY <1>4, <1>5, <1>6

LEMMA StepRefines ==
  ASSUME FastMemory, RunInv, RunInv', UntouchedInv, [Clock(FALSE)]_vars
  PROVE  [Tiled!Next]_(Tiled!tiledVars)
<1>1. CASE UNCHANGED vars
  BY <1>1 DEF vars, masterVars, fsmVars, pulseVars, Tiled!tiledVars, OAddr
<1>2. CASE Clock(FALSE)
  <2>1. PICK start \in BOOLEAN, rdv \in BOOLEAN, taken \in BOOLEAN :
          MasterTick(start, rdv, taken) /\ WriteTick(taken) /\ OMemTick(taken)
    BY <1>2 DEF Clock
  <2>2. OutTypeOK /\ OutTypeOK' /\ StoreInv /\ MemoryInv
    BY DEF RunInv, OrderInv, IInv, TypeOK, FlagTypeOK, StreamTypeOK, OutTypeOK
  <2>3. ASSUME ms = "S_WRITE_O", NEW w \in QWords PROVE o_buf[w] = Tiled!Attended(q_tile_idx)
    <3>1. Once(o_buf[w], q_tile_idx, NUM_K_TILES - 1)
      BY <2>3 DEF RunInv, OrderInv, OutputInv, Final, Folds
    <3>2. o_buf[w] \in Context
      BY DEF RunInv, IInv, TypeOK, BufferTypeOK
    <3> QED
      BY <3>1, <3>2, AttendedOnce
  <2> QED
    BY <2>1, <2>2, <2>3, TickRefines
<1> QED
  BY <1>1, <1>2

(* With a memory fast enough to prefetch a tile pair in the time one tile   *)
(* takes to compute, a run without a soft reset delivers what               *)
(* TiledAttention says: every word once, in order, complete, then done.     *)
THEOREM Refinement == ASSUME FastMemory PROVE UninterruptedSpec => ImplementsTiledAttention
<1>1. Init => UntouchedInv /\ Tiled!Init
  <2>1. Init => UntouchedInv
    BY DEF Init, UntouchedInv
  <2>2. \A t \in QTiles, w \in QWords : OAddr(t) + w - 1 \in OWords
    BY DEF OWords
  <2>3. Init => Tiled!Init
    BY <2>2 DEF Init, Tiled!Init, Tiled!Places, QTiles, QWords
  <2> QED
    BY <2>1, <2>3
<1>2. RunInv /\ UntouchedInv /\ [Clock(FALSE)]_vars => UntouchedInv'
  BY NextUntouched
<1>3. RunInv /\ RunInv' /\ UntouchedInv /\ [Clock(FALSE)]_vars => [Tiled!Next]_(Tiled!tiledVars)
  BY StepRefines
<1> QED
  BY <1>1, <1>2, <1>3, InitRun, NextRun, PTL
     DEF UninterruptedSpec, ImplementsTiledAttention, Tiled!Spec

-----------------------------------------------------------------------------
HIDE CoreAssumption

(* ---- The softmax contexts, fed by any environment ---- *)

(***************************************************************************)
(* The environment keeps the scores of one row apart as the compute FSM    *)
(* does (ScoresApart, proved below): scores of the rows come in any order  *)
(* otherwise, a tile may start at any score, and from any row context.     *)
(*                                                                         *)
(* folded[c] is history: the context row c would have if every score were  *)
(* folded in the cycle it comes.  The pipeline is right if whatever it     *)
(* hands on, back to itself or out, is that.                               *)
(***************************************************************************)
-----------------------------------------------------------------------------
CONSTANTS Terms, Contexts

VARIABLE folded

feedVars == <<softmaxVars, folded>>

FeedInit == SoftmaxInit /\ folded = [c \in Slots |-> <<>>]

Bubble == SoftmaxTick(Nothing) /\ UNCHANGED folded

Feed(c) ==
  /\ Apart(c)
  /\ \E start, last \in BOOLEAN, term \in Terms, init \in Contexts :
       /\ SoftmaxTick([ctx |-> c, start |-> start, last |-> last, init |-> init,
                       term |-> term])
       /\ folded' = [folded EXCEPT ![c] = Append(IF start THEN init ELSE folded[c], term)]

FeedNext == Bubble \/ \E c \in Slots : Feed(c)
FeedSpec == FeedInit /\ [][FeedNext]_feedVars
-----------------------------------------------------------------------------
(* A score of row c that came now would start from every score of the row   *)
(* before it, as long as it keeps its distance.                             *)
NothingMissed == \A c \in Slots : Apart(c) => Forwarded(c) = folded[c]

(* A context that is put out is complete once no score of its row is under  *)
(* way: the write-back of a finished row stores all of it.                  *)
CompleteAtOutput ==
  \A c \in Slots :
    sm_out.ctx = c /\ (\A i \in 1 .. 5 : ~Holds(i, c)) => sm_out.sum = folded[c]

(* The inductive invariant: the youngest stage that holds a row has its     *)
(* context, two scores of one row are four stages apart, and what is put    *)
(* out is what was stored.                                                  *)
ContextsShape ==
  /\ stage = [i \in 1 .. 5 |-> stage[i]]
  /\ \A i \in 1 .. 5 : stage[i].ctx \in 0 .. CTX_COUNT
  /\ ctx_state = [c \in Slots |-> ctx_state[c]]
  /\ folded = [c \in Slots |-> folded[c]]
FourApart == \A c \in Slots : \A i, j \in 1 .. 5 :
  Holds(i, c) /\ Holds(j, c) /\ i < j => j - i >= 4
YoungestIsCurrent == \A c \in Slots : \A i \in 1 .. 4 :
  Holds(i, c) => Sum(stage[i]) = folded[c]
LastIsCurrent == \A c \in Slots :
  (\A i \in 1 .. 4 : ~Holds(i, c)) /\ Holds(5, c) => Sum(stage[5]) = folded[c]
StoredIsCurrent == \A c \in Slots :
  (\A i \in 1 .. 5 : ~Holds(i, c)) => ctx_state[c] = folded[c]
OutIsStored == \A c \in Slots : sm_out.ctx = c => sm_out.sum = ctx_state[c]

ContextsInv ==
  /\ ContextsShape /\ FourApart /\ YoungestIsCurrent
  /\ LastIsCurrent /\ StoredIsCurrent /\ OutIsStored
-----------------------------------------------------------------------------
(* Where a clock edge with input in takes the stages of the pipeline.       *)
LEMMA StagesShift ==
  ASSUME NEW in, ContextsShape, SoftmaxTick(in), in.ctx \in 0 .. CTX_COUNT
  PROVE  /\ stage' = [i \in 1 .. 5 |-> stage'[i]]
         /\ stage'[1] = Entered(in)
         /\ \A i \in 2 .. 5 : stage'[i] = stage[i - 1]
         /\ stage'[1].ctx = in.ctx
         /\ \A i \in 1 .. 5 : stage'[i].ctx \in 0 .. CTX_COUNT
<1>1. /\ stage' = [i \in 1 .. 5 |-> stage'[i]]
      /\ stage'[1] = Entered(in)
      /\ \A i \in 2 .. 5 : stage'[i] = stage[i - 1]
  BY DEF SoftmaxTick
<1>2. Entered(in).ctx = in.ctx
  BY DEF Entered, Nothing
<1>3. \A i \in 1 .. 5 : stage'[i].ctx \in 0 .. CTX_COUNT
  <2>1. \A i \in 2 .. 5 : i - 1 \in 1 .. 5
    OBVIOUS
  <2> QED BY <1>1, <1>2, <2>1 DEF ContextsShape
<1> QED BY <1>1, <1>2, <1>3

(* What an edge stores and puts out: the context that leaves s4, if any.    *)
LEMMA ContextLeaves ==
  ASSUME NEW in, ContextsShape, SoftmaxTick(in), NEW c \in Slots
  PROVE  /\ ctx_state' = [d \in Slots |-> ctx_state'[d]]
         /\ Holds(5, c) => ctx_state'[c] = Sum(stage[5])
         /\ ~Holds(5, c) => ctx_state'[c] = ctx_state[c]
         /\ sm_out'.ctx = c => Holds(5, c) /\ sm_out'.sum = Sum(stage[5])
<1>1. c # CTX_COUNT /\ c \in Slots
  BY DEF Slots, CTX_COUNT
<1>2. CASE stage[5].ctx = CTX_COUNT
  BY <1>1, <1>2 DEF SoftmaxTick, ContextsShape, Holds, Nothing
<1>3. CASE stage[5].ctx # CTX_COUNT
  <2>1. stage[5].ctx \in Slots
    BY <1>3 DEF ContextsShape, Slots, CTX_COUNT
  <2>2. /\ ctx_state' = [ctx_state EXCEPT ![stage[5].ctx] = Sum(stage[5])]
        /\ sm_out' = [ctx |-> stage[5].ctx, done |-> stage[5].last, sum |-> Sum(stage[5])]
    BY <1>3 DEF SoftmaxTick
  <2> QED BY <1>1, <2>1, <2>2 DEF ContextsShape, Holds
<1> QED BY <1>2, <1>3

(* An edge with or without a score keeps the invariant, if the score keeps  *)
(* its distance and folded follows it.                                      *)
LEMMA ContextsStep ==
  ASSUME ContextsInv, NEW in, in.ctx \in 0 .. CTX_COUNT, SoftmaxTick(in),
         folded' = [d \in Slots |-> folded'[d]],
         \A d \in Slots : d # in.ctx => folded'[d] = folded[d],
         in.ctx \in Slots =>
           /\ Apart(in.ctx)
           /\ Append(Previous(in), in.term) = folded'[in.ctx]
  PROVE  ContextsInv'
<1>s. /\ stage' = [i \in 1 .. 5 |-> stage'[i]]
      /\ stage'[1] = Entered(in) /\ stage'[1].ctx = in.ctx
      /\ stage'[2] = stage[1] /\ stage'[3] = stage[2]
      /\ stage'[4] = stage[3] /\ stage'[5] = stage[4]
      /\ \A i \in 1 .. 5 : stage'[i].ctx \in 0 .. CTX_COUNT
  BY StagesShift DEF ContextsInv
<1>l. \A c \in Slots :
        /\ Holds(5, c) => ctx_state'[c] = Sum(stage[5])
        /\ ~Holds(5, c) => ctx_state'[c] = ctx_state[c]
        /\ sm_out'.ctx = c => Holds(5, c) /\ sm_out'.sum = Sum(stage[5])
  BY ContextLeaves DEF ContextsInv
<1>1. ContextsShape'
  <2>1. ctx_state' = [c \in Slots |-> ctx_state'[c]]
    <3>1. 0 \in Slots
      BY DEF Slots, CTX_COUNT
    <3> QED BY <3>1, ContextLeaves DEF ContextsInv
  <2> QED BY <1>s, <2>1 DEF ContextsShape
<1>2. FourApart'
  <2> SUFFICES ASSUME NEW c \in Slots, NEW i \in 1 .. 5, NEW j \in 1 .. 5,
                      stage'[i].ctx = c, stage'[j].ctx = c, i < j
               PROVE  j - i >= 4
    BY DEF FourApart, Holds
  <2>1. stage[j - 1].ctx = c /\ j - 1 \in 1 .. 4
    BY <1>s
  <2>2. CASE i = 1
    <3>1. Apart(c)
      BY <1>s, <2>2
    <3> QED BY <2>1, <2>2, <3>1 DEF Apart, Holds
  <2>3. CASE i # 1
    <3>1. stage[i - 1].ctx = c /\ i - 1 \in 1 .. 4
      BY <1>s, <2>3
    <3>2. (j - 1) - (i - 1) >= 4
      BY <2>1, <3>1 DEF ContextsInv, FourApart, Holds
    <3> QED BY <3>2
  <2> QED BY <2>2, <2>3
<1>3. YoungestIsCurrent'
  <2> SUFFICES ASSUME NEW c \in Slots, NEW i \in 1 .. 4, stage'[i].ctx = c
               PROVE  Sum(stage'[i]) = folded'[c]
    BY DEF YoungestIsCurrent, Holds, Sum
  <2>1. CASE i = 1
    <3>1. in.ctx = c
      BY <1>s, <2>1
    <3>2. in.ctx # CTX_COUNT
      BY <3>1 DEF Slots, CTX_COUNT
    <3>3. Entered(in).prev = Previous(in) /\ Entered(in).term = in.term
      BY <3>2 DEF Entered
    <3> QED BY <1>s, <2>1, <3>1, <3>3 DEF Sum
  <2>2. CASE i # 1
    <3>1. i - 1 \in 1 .. 3 /\ stage'[i] = stage[i - 1]
      BY <1>s, <2>2
    <3>2. in.ctx # c
      BY <3>1 DEF Apart, Holds
    <3>3. Sum(stage[i - 1]) = folded[c]
      BY <3>1 DEF ContextsInv, YoungestIsCurrent, Holds
    <3> QED BY <3>1, <3>2, <3>3
  <2> QED BY <2>1, <2>2
<1>4. LastIsCurrent'
  <2> SUFFICES ASSUME NEW c \in Slots, stage'[1].ctx # c, stage'[5].ctx = c
               PROVE  Sum(stage'[5]) = folded'[c]
    BY DEF LastIsCurrent, Holds, Sum
  <2>1. in.ctx # c /\ stage[4].ctx = c
    BY <1>s
  <2>2. Sum(stage[4]) = folded[c]
    BY <2>1 DEF ContextsInv, YoungestIsCurrent, Holds
  <2> QED BY <1>s, <2>1, <2>2
<1>5. StoredIsCurrent'
  <2> SUFFICES ASSUME NEW c \in Slots, \A i \in 1 .. 5 : stage'[i].ctx # c
               PROVE  ctx_state'[c] = folded'[c]
    BY DEF StoredIsCurrent, Holds
  <2>1. in.ctx # c /\ \A i \in 1 .. 4 : ~Holds(i, c)
    BY <1>s DEF Holds
  <2>2. CASE Holds(5, c)
    BY <1>l, <2>1, <2>2 DEF ContextsInv, LastIsCurrent
  <2>3. CASE ~Holds(5, c)
    <3>1. \A i \in 1 .. 5 : ~Holds(i, c)
      BY <2>1, <2>3
    <3> QED BY <1>l, <2>1, <2>3, <3>1 DEF ContextsInv, StoredIsCurrent
  <2> QED BY <2>2, <2>3
<1>6. OutIsStored'
  BY <1>l DEF OutIsStored
<1> QED BY <1>1, <1>2, <1>3, <1>4, <1>5, <1>6 DEF ContextsInv

(* Under the invariant, what a score of row c reads is current.             *)
LEMMA ReadsCurrent ==
  ASSUME ContextsInv
  PROVE  NothingMissed
<1> SUFFICES ASSUME NEW c \in Slots, Apart(c)
             PROVE  Forwarded(c) = folded[c]
  BY DEF NothingMissed
<1>1. CASE Holds(4, c)
  <2>1. ~Holds(5, c)
    BY <1>1 DEF ContextsInv, FourApart
  <2> QED BY <1>1, <2>1 DEF ContextsInv, YoungestIsCurrent, Forwarded
<1>2. CASE ~Holds(4, c)
  <2>1. \A i \in 1 .. 4 : ~Holds(i, c)
    BY <1>2 DEF Apart
  <2>2. CASE Holds(5, c)
    BY <2>1, <2>2 DEF ContextsInv, LastIsCurrent, Forwarded
  <2>3. CASE ~Holds(5, c)
    <3>1. \A i \in 1 .. 5 : ~Holds(i, c)
      BY <2>1, <2>3
    <3> QED BY <1>2, <2>3, <3>1 DEF ContextsInv, StoredIsCurrent, Forwarded
  <2> QED BY <2>2, <2>3
<1> QED BY <1>1, <1>2

LEMMA ContextsInvariance == FeedSpec => []ContextsInv
<1>1. FeedInit => ContextsInv
  <2> SUFFICES ASSUME FeedInit PROVE ContextsInv
    OBVIOUS
  <2>1. \A i \in 1 .. 5 : stage[i].ctx = CTX_COUNT
    BY DEF FeedInit, SoftmaxInit, Nothing
  <2>2. \A c \in Slots : c # CTX_COUNT
    BY DEF Slots, CTX_COUNT
  <2>3. \A c \in Slots : \A i \in 1 .. 5 : ~Holds(i, c)
    BY <2>1, <2>2 DEF Holds
  <2>4. \A c \in Slots : sm_out.ctx # c
    BY <2>2 DEF FeedInit, SoftmaxInit, Nothing
  <2>5. ContextsShape
    BY <2>1 DEF FeedInit, SoftmaxInit, ContextsShape, CTX_COUNT
  <2>6. StoredIsCurrent
    BY DEF FeedInit, SoftmaxInit, StoredIsCurrent
  <2> QED BY <2>3, <2>4, <2>5, <2>6
          DEF ContextsInv, FourApart, YoungestIsCurrent, LastIsCurrent, OutIsStored
<1>2. ContextsInv /\ [FeedNext]_feedVars => ContextsInv'
  <2> SUFFICES ASSUME ContextsInv, [FeedNext]_feedVars PROVE ContextsInv'
    OBVIOUS
  <2>1. CASE Bubble
    <3>1. Nothing.ctx \in 0 .. CTX_COUNT /\ Nothing.ctx \notin Slots
      BY DEF Nothing, Slots, CTX_COUNT
    <3>2. folded' = [d \in Slots |-> folded'[d]]
      BY <2>1 DEF Bubble, ContextsInv, ContextsShape
    <3> QED BY <2>1, <3>1, <3>2, ContextsStep DEF Bubble
  <2>2. ASSUME NEW c \in Slots, Feed(c) PROVE ContextsInv'
    <3>1. PICK start \in BOOLEAN, last \in BOOLEAN, term \in Terms, init \in Contexts :
            /\ SoftmaxTick([ctx |-> c, start |-> start, last |-> last, init |-> init,
                            term |-> term])
            /\ folded' = [folded EXCEPT ![c] =
                            Append(IF start THEN init ELSE folded[c], term)]
      BY <2>2 DEF Feed
    <3> DEFINE in == [ctx |-> c, start |-> start, last |-> last, init |-> init,
                      term |-> term]
    <3>2. in.ctx = c /\ in.start = start /\ in.init = init /\ in.term = term
      OBVIOUS
    <3>3. c \in 0 .. CTX_COUNT
      BY DEF Slots, CTX_COUNT
    <3>4. folded' = [d \in Slots |-> folded'[d]]
      BY <3>1 DEF ContextsInv, ContextsShape
    <3>5. \A d \in Slots : d # c => folded'[d] = folded[d]
      BY <3>1 DEF ContextsInv, ContextsShape
    <3>6. folded'[c] = Append(IF start THEN init ELSE folded[c], term)
      BY <3>1 DEF ContextsInv, ContextsShape
    <3>7. Forwarded(c) = folded[c]
      BY <2>2, ReadsCurrent DEF NothingMissed, Feed
    <3>8. Append(Previous(in), in.term) = folded'[c]
      BY <3>2, <3>6, <3>7 DEF Previous
    <3>9. Apart(c)
      BY <2>2 DEF Feed
    <3>10. SoftmaxTick(in)
      BY <3>1
    <3> HIDE DEF in
    <3> QED BY <3>2, <3>3, <3>4, <3>5, <3>8, <3>9, <3>10, ContextsStep
  <2>3. CASE UNCHANGED feedVars
    BY <2>3 DEF feedVars, softmaxVars, ContextsInv, ContextsShape, FourApart, YoungestIsCurrent,
                LastIsCurrent, StoredIsCurrent, OutIsStored, Holds, Sum
  <2> QED BY <2>1, <2>2, <2>3 DEF FeedNext
<1> QED BY <1>1, <1>2, PTL DEF FeedSpec

(* Forwarding (fa_online_softmax_ctx.sv, s4 before s3 before the stored     *)
(* context) is enough: for every set of terms, every order of rows and      *)
(* every start context, no score starts from a stale context, and a context *)
(* that is put out with no score of its row under way is complete.          *)
THEOREM ForwardingSuffices == FeedSpec => [](NothingMissed /\ CompleteAtOutput)
<1>1. ContextsInv => CompleteAtOutput
  BY DEF ContextsInv, OutIsStored, StoredIsCurrent, CompleteAtOutput
<1>2. ContextsInv => NothingMissed /\ CompleteAtOutput
  BY <1>1, ReadsCurrent
<1> QED BY <1>2, ContextsInvariance, PTL
-----------------------------------------------------------------------------
(* ---- The order of issue, for a dot product of c chunks ---- *)

IssuesOf(c) == c * SOFTMAX_CTXS * TK
SlotOf(c, n) == (n \div c) % SOFTMAX_CTXS
KeyOf(c, n) == n \div (c * SOFTMAX_CTXS)
ChunkOf(c, n) == n % c
Ends(c, n) == ChunkOf(c, n) = c - 1
LastOf(c, s) == IssuesOf(c) - 1 - (SOFTMAX_CTXS - 1 - s) * c

LEMMA TKType == TK \in Nat \ {0}
BY CoreAssumption DEF TK

LEMMA FourSlots == SOFTMAX_CTXS = 4 /\ CTX_COUNT = 4 /\ Slots = 0 .. 3
BY DEF SOFTMAX_CTXS, CTX_COUNT, Slots

LEMMA IssueCounts ==
  /\ IssuesOf(1) = 4 * TK /\ IssuesOf(2) = 8 * TK
  /\ \A s \in Slots : LastOf(1, s) = 4 * TK - 4 + s
  /\ \A s \in Slots : LastOf(2, s) = 8 * TK - 7 + 2 * s
<1>1. IssuesOf(1) = 4 * TK /\ IssuesOf(2) = 8 * TK
  BY TKType, FourSlots DEF IssuesOf
<1>2. \A s \in Slots : LastOf(1, s) = 4 * TK - 4 + s
  BY <1>1, TKType, FourSlots DEF LastOf
<1>3. \A s \in Slots : LastOf(2, s) = 8 * TK - 7 + 2 * s
  BY <1>1, TKType, FourSlots DEF LastOf
<1> QED
  BY <1>1, <1>2, <1>3

LEMMA OneChunk ==
  ASSUME NEW n \in Nat
  PROVE  SlotOf(1, n) = n % 4 /\ KeyOf(1, n) = n \div 4 /\ ChunkOf(1, n) = 0 /\ Ends(1, n)
<1>1. n \div 1 = n /\ n % 1 = 0
  OBVIOUS
<1> QED
  BY <1>1, FourSlots DEF SlotOf, KeyOf, ChunkOf, Ends

LEMMA TwoChunks ==
  ASSUME NEW n \in Nat
  PROVE  /\ SlotOf(2, n) = (n \div 2) % 4 /\ KeyOf(2, n) = n \div 8 /\ ChunkOf(2, n) = n % 2
         /\ Ends(2, n) <=> n % 2 = 1
BY FourSlots DEF SlotOf, KeyOf, ChunkOf, Ends

(* The issues of a batch are chunks of the keys of the tile for its rows.   *)
LEMMA IssueRange ==
  ASSUME NEW c \in {1, 2}
  PROVE  /\ IssuesOf(c) \in Nat \ {0}
         /\ \A n \in 0 .. IssuesOf(c) - 1 :
              /\ SlotOf(c, n) \in Slots /\ KeyOf(c, n) \in 0 .. TK - 1
              /\ ChunkOf(c, n) \in 0 .. c - 1
<1>1. IssuesOf(c) = 4 * c * TK /\ 4 * c * TK \in Nat \ {0}
  BY TKType, IssueCounts
<1>2. ASSUME NEW n \in 0 .. IssuesOf(c) - 1
      PROVE  /\ SlotOf(c, n) \in Slots /\ KeyOf(c, n) \in 0 .. TK - 1
             /\ ChunkOf(c, n) \in 0 .. c - 1
  <2>0. n \in Nat /\ n < 4 * c * TK
    BY <1>1
  <2>1. CASE c = 1
    <3>1. n < 4 * TK
      BY <2>0, <2>1, TKType
    <3>2. n % 4 \in 0 .. 3 /\ n \div 4 \in 0 .. TK - 1
      BY <2>0, <3>1, TKType
    <3>3. SlotOf(1, n) = n % 4 /\ KeyOf(1, n) = n \div 4 /\ ChunkOf(1, n) = 0
      BY <2>0, OneChunk
    <3> QED
      BY <2>1, <3>2, <3>3, FourSlots
  <2>2. CASE c = 2
    <3>1. n < 8 * TK
      BY <2>0, <2>2, TKType
    <3>2. (n \div 2) % 4 \in 0 .. 3 /\ n \div 8 \in 0 .. TK - 1 /\ n % 2 \in 0 .. 1
      BY <2>0, <3>1, TKType
    <3>3. SlotOf(2, n) = (n \div 2) % 4 /\ KeyOf(2, n) = n \div 8 /\ ChunkOf(2, n) = n % 2
      BY <2>0, TwoChunks
    <3> QED
      BY <2>2, <3>2, <3>3, FourSlots
  <2> QED
    BY <2>1, <2>2
<1> QED
  BY <1>1, <1>2

LEMMA FirstIssue ==
  ASSUME NEW c \in {1, 2}
  PROVE  SlotOf(c, 0) = 0 /\ KeyOf(c, 0) = 0 /\ ChunkOf(c, 0) = 0
<1>1. CASE c = 1
  BY <1>1, OneChunk
<1>2. CASE c = 2
  BY <1>2, TwoChunks
<1> QED
  BY <1>1, <1>2

(* What IssueTick does to the counters is the step from n to n + 1.         *)
LEMMA NextIssue ==
  ASSUME NEW c \in {1, 2}, NEW n \in 0 .. IssuesOf(c) - 1
  PROVE  LET slot == SlotOf(c, n)
             kj == KeyOf(c, n)
             row_end == Ends(c, n) /\ slot = SOFTMAX_CTXS - 1
         IN  /\ ChunkOf(c, n + 1) = IF Ends(c, n) THEN 0 ELSE ChunkOf(c, n) + 1
             /\ SlotOf(c, n + 1) = IF Ends(c, n) THEN (slot + 1) % SOFTMAX_CTXS ELSE slot
             /\ n + 1 = IssuesOf(c) <=> row_end /\ kj = TK - 1
             /\ n + 1 # IssuesOf(c) =>
                  KeyOf(c, n + 1) = IF row_end /\ kj # TK - 1 THEN kj + 1 ELSE kj
<1>s. SOFTMAX_CTXS = 4 /\ n \in Nat /\ n + 1 \in Nat
  BY IssueRange, FourSlots
<1>1. CASE c = 1
  <2>1. n < 4 * TK /\ IssuesOf(1) = 4 * TK
    BY <1>1, <1>s, IssueCounts, TKType
  <2>2. /\ SlotOf(1, n) = n % 4 /\ SlotOf(1, n + 1) = (n + 1) % 4
        /\ KeyOf(1, n) = n \div 4 /\ KeyOf(1, n + 1) = (n + 1) \div 4
        /\ ChunkOf(1, n) = 0 /\ ChunkOf(1, n + 1) = 0 /\ Ends(1, n)
    BY <1>s, OneChunk
  <2>3. (n + 1) % 4 = ((n % 4) + 1) % 4
    BY <1>s
  <2>4. n + 1 = 4 * TK <=> n % 4 = 3 /\ n \div 4 = TK - 1
    BY <1>s, <2>1, TKType
  <2>5. n + 1 # 4 * TK =>
          (n + 1) \div 4 = IF n % 4 = 3 /\ n \div 4 # TK - 1 THEN n \div 4 + 1 ELSE n \div 4
    BY <1>s, <2>1, TKType
  <2> QED
    BY <1>1, <1>s, <2>1, <2>2, <2>3, <2>4, <2>5
<1>2. CASE c = 2
  <2>1. n < 8 * TK /\ IssuesOf(2) = 8 * TK
    BY <1>2, <1>s, IssueCounts, TKType
  <2>2. /\ SlotOf(2, n) = (n \div 2) % 4 /\ SlotOf(2, n + 1) = ((n + 1) \div 2) % 4
        /\ KeyOf(2, n) = n \div 8 /\ KeyOf(2, n + 1) = (n + 1) \div 8
        /\ ChunkOf(2, n) = n % 2 /\ ChunkOf(2, n + 1) = (n + 1) % 2 /\ (Ends(2, n) <=> n % 2 = 1)
    BY <1>s, TwoChunks
  <2>3. /\ (n + 1) % 2 = IF n % 2 = 1 THEN 0 ELSE (n % 2) + 1
        /\ ((n + 1) \div 2) % 4 = IF n % 2 = 1 THEN (((n \div 2) % 4) + 1) % 4 ELSE (n \div 2) % 4
    BY <1>s
  <2>4. n + 1 = 8 * TK <=> n % 2 = 1 /\ (n \div 2) % 4 = 3 /\ n \div 8 = TK - 1
    BY <1>s, <2>1, TKType
  <2>5. n + 1 # 8 * TK =>
          (n + 1) \div 8 = IF n % 2 = 1 /\ (n \div 2) % 4 = 3 /\ n \div 8 # TK - 1
                           THEN n \div 8 + 1 ELSE n \div 8
    BY <1>s, <2>1, TKType
  <2> QED
    BY <1>2, <1>s, <2>1, <2>2, <2>3, <2>4, <2>5
<1> QED
  BY <1>1, <1>2

(* The two chunks of a dot product follow one another.                      *)
LEMMA HalvesMeet ==
  ASSUME NEW c \in {1, 2}, NEW n \in Nat
  PROVE  /\ ~Ends(c, n) => /\ c = 2 /\ ChunkOf(c, n) = 0
                           /\ Ends(c, n + 1) /\ SlotOf(c, n + 1) = SlotOf(c, n)
                           /\ KeyOf(c, n + 1) = KeyOf(c, n)
         /\ Ends(c, n) => ChunkOf(c, n) = c - 1
         /\ Ends(c, n) /\ c = 2 => n # 0 /\ ~Ends(c, n - 1)
<1>1. CASE c = 1
  <2>1. Ends(1, n) /\ ChunkOf(1, n) = 0
    BY OneChunk
  <2> QED
    BY <1>1, <2>1
<1>2. CASE c = 2
  <2>1. /\ SlotOf(2, n) = (n \div 2) % 4 /\ SlotOf(2, n + 1) = ((n + 1) \div 2) % 4
        /\ KeyOf(2, n) = n \div 8 /\ KeyOf(2, n + 1) = (n + 1) \div 8
        /\ ChunkOf(2, n) = n % 2 /\ (Ends(2, n) <=> n % 2 = 1)
        /\ (Ends(2, n + 1) <=> (n + 1) % 2 = 1)
    BY TwoChunks
  <2>2. n % 2 # 1 => /\ n % 2 = 0 /\ (n + 1) % 2 = 1
                     /\ ((n + 1) \div 2) % 4 = (n \div 2) % 4 /\ (n + 1) \div 8 = n \div 8
    OBVIOUS
  <2>3. n % 2 = 1 => n # 0 /\ n - 1 \in Nat /\ (n - 1) % 2 # 1
    OBVIOUS
  <2>4. n - 1 \in Nat => (Ends(2, n - 1) <=> (n - 1) % 2 = 1)
    BY TwoChunks
  <2> QED
    BY <1>2, <2>1, <2>2, <2>3, <2>4
<1> QED
  BY <1>1, <1>2

(* Scores of one row are 4 * c issues apart, and of neighbouring keys.      *)
LEMMA SlotsApart ==
  ASSUME NEW c \in {1, 2}, NEW n \in Nat, NEW d \in 1 .. 7,
         Ends(c, n), Ends(c, n + d), SlotOf(c, n) = SlotOf(c, n + d)
  PROVE  c = 1 /\ d = 4 /\ KeyOf(c, n + d) = KeyOf(c, n) + 1
<1>1. CASE c = 1
  <2>1. /\ SlotOf(1, n) = n % 4 /\ SlotOf(1, n + d) = (n + d) % 4
        /\ KeyOf(1, n) = n \div 4 /\ KeyOf(1, n + d) = (n + d) \div 4
    BY OneChunk
  <2>2. n % 4 = (n + d) % 4 => d = 4 /\ (n + d) \div 4 = n \div 4 + 1
    OBVIOUS
  <2> QED
    BY <1>1, <2>1, <2>2
<1>2. CASE c = 2
  <2>1. /\ SlotOf(2, n) = (n \div 2) % 4 /\ SlotOf(2, n + d) = ((n + d) \div 2) % 4
        /\ (Ends(2, n) <=> n % 2 = 1) /\ (Ends(2, n + d) <=> (n + d) % 2 = 1)
    BY TwoChunks
  <2>2. n % 2 = 1 /\ (n + d) % 2 = 1 => (n \div 2) % 4 # ((n + d) \div 2) % 4
    OBVIOUS
  <2> QED
    BY <1>2, <2>1, <2>2
<1> QED
  BY <1>1, <1>2

LEMMA KeyBefore ==
  ASSUME NEW c \in {1, 2}, NEW n \in Nat, Ends(c, n), KeyOf(c, n) # 0
  PROVE  /\ n - 4 * c \in Nat /\ Ends(c, n - 4 * c)
         /\ SlotOf(c, n - 4 * c) = SlotOf(c, n) /\ KeyOf(c, n - 4 * c) = KeyOf(c, n) - 1
<1>1. CASE c = 1
  <2>1. SlotOf(1, n) = n % 4 /\ KeyOf(1, n) = n \div 4
    BY OneChunk
  <2>2. n \div 4 # 0 => n - 4 \in Nat /\ (n - 4) % 4 = n % 4 /\ (n - 4) \div 4 = n \div 4 - 1
    OBVIOUS
  <2>3. n - 4 \in Nat =>
          SlotOf(1, n - 4) = (n - 4) % 4 /\ KeyOf(1, n - 4) = (n - 4) \div 4 /\ Ends(1, n - 4)
    BY OneChunk
  <2> QED
    BY <1>1, <2>1, <2>2, <2>3
<1>2. CASE c = 2
  <2>1. SlotOf(2, n) = (n \div 2) % 4 /\ KeyOf(2, n) = n \div 8 /\ (Ends(2, n) <=> n % 2 = 1)
    BY TwoChunks
  <2>2. n \div 8 # 0 => /\ n - 8 \in Nat /\ ((n - 8) \div 2) % 4 = (n \div 2) % 4
                        /\ (n - 8) \div 8 = n \div 8 - 1 /\ (n - 8) % 2 = n % 2
    OBVIOUS
  <2>3. n - 8 \in Nat =>
          /\ SlotOf(2, n - 8) = ((n - 8) \div 2) % 4 /\ KeyOf(2, n - 8) = (n - 8) \div 8
          /\ (Ends(2, n - 8) <=> (n - 8) % 2 = 1)
    BY TwoChunks
  <2> QED
    BY <1>2, <2>1, <2>2, <2>3
<1> QED
  BY <1>1, <1>2

(* The last score of a row.                                                 *)
LEMMA LastScores ==
  ASSUME NEW c \in {1, 2}, NEW s \in Slots
  PROVE  /\ \A n \in 0 .. IssuesOf(c) - 1 :
              (Ends(c, n) /\ SlotOf(c, n) = s /\ KeyOf(c, n) = TK - 1) <=> n = LastOf(c, s)
         /\ LastOf(c, s) \in 0 .. IssuesOf(c) - 1
         /\ LastOf(c, s) = IssuesOf(c) - 1 <=> s = 3
<1>s. s \in 0 .. 3
  BY FourSlots
<1>1. CASE c = 1
  <2>1. LastOf(1, s) = 4 * TK - 4 + s /\ IssuesOf(1) = 4 * TK
    BY IssueCounts
  <2>2. ASSUME NEW n \in 0 .. 4 * TK - 1
        PROVE  (Ends(1, n) /\ SlotOf(1, n) = s /\ KeyOf(1, n) = TK - 1) <=> n = 4 * TK - 4 + s
    <3>0. n \in Nat
      BY TKType
    <3>1. Ends(1, n) /\ SlotOf(1, n) = n % 4 /\ KeyOf(1, n) = n \div 4
      BY <3>0, OneChunk
    <3>2. n % 4 = s /\ n \div 4 = TK - 1 <=> n = 4 * TK - 4 + s
      BY <1>s, <3>0, TKType
    <3> QED
      BY <3>1, <3>2
  <2> QED
    BY <1>1, <1>s, <2>1, <2>2, TKType
<1>2. CASE c = 2
  <2>1. LastOf(2, s) = 8 * TK - 7 + 2 * s /\ IssuesOf(2) = 8 * TK
    BY IssueCounts
  <2>2. ASSUME NEW n \in 0 .. 8 * TK - 1
        PROVE  (Ends(2, n) /\ SlotOf(2, n) = s /\ KeyOf(2, n) = TK - 1) <=> n = 8 * TK - 7 + 2 * s
    <3>0. n \in Nat
      BY TKType
    <3>1. (Ends(2, n) <=> n % 2 = 1) /\ SlotOf(2, n) = (n \div 2) % 4 /\ KeyOf(2, n) = n \div 8
      BY <3>0, TwoChunks
    <3>2. n % 2 = 1 /\ (n \div 2) % 4 = s /\ n \div 8 = TK - 1 <=> n = 8 * TK - 7 + 2 * s
      BY <1>s, <3>0, TKType
    <3> QED
      BY <3>1, <3>2
  <2> QED
    BY <1>2, <1>s, <2>1, <2>2, TKType
<1> QED
  BY <1>1, <1>2
-----------------------------------------------------------------------------
(* ---- What one batch works on ---- *)

(* A job is a pair of tiles, a batch of the Q tile and the chunks of a dot  *)
(* product; below, what belongs to key k and slot s of it.                  *)
Jobs == [q : QTiles, k : KTiles, b : Batches, c : {1, 2}]
ChunkAt(j, s, k, i) == [q |-> QAddr(j.q) + PairOf(j.b, s), k |-> KAddr(j.k) + k, c |-> i]
Product(j, s, k, n) == [i \in 1 .. n |-> ChunkAt(j, s, k, i - 1)]
MaskedAt(j, s, k, r) == j.q * TQ + 2 * PairOf(j.b, s) + r < j.k * TK + k
TermOf(j, s, k) ==
  [dot |-> Product(j, s, k, j.c), v |-> VAddr(j.k) + k,
   masked |-> <<MaskedAt(j, s, k, 0), MaskedAt(j, s, k, 1)>>]
AllTerms == {TermOf(j, s, k) : j \in Jobs, s \in Slots, k \in 0 .. TK - 1}

(* Context h with the first k keys folded into it.                          *)
Upto(j, h, s, k) == h \o [i \in 1 .. k |-> TermOf(j, s, i - 1)]

(* A shift register of eight.                                               *)
ShiftedIn(x, p) == <<x>> \o SubSeq(p, 1, QK_LAT - 1)

(* What shifting a register in front of n - 1 others leaves in each.        *)
LEMMA ShiftInto ==
  ASSUME NEW n \in Nat \ {0, 1}, NEW p, NEW x, NEW q, q = <<x>> \o SubSeq(p, 1, n - 1)
  PROVE  /\ q = [i \in 1 .. n |-> q[i]]
         /\ q[1] = x
         /\ \A i \in 1 .. n - 1 : q[i + 1] = p[i]
<1> DEFINE m == n - 1
           S == {x} \cup {p[i] : i \in 1 .. m}
           u == SubSeq(p, 1, m)
<1>0. m \in Nat /\ 1 <= m /\ q = <<x>> \o u /\ n = m + 1 /\ m \in Int /\ m - 1 + 1 = m
  OBVIOUS
<1>1. \A i \in 1 .. m : p[i] \in S
  OBVIOUS
<1>2. u \in Seq(S) /\ Len(u) = m /\ \A i \in 1 .. m : u[i] = p[i]
  <2> HIDE DEF S, m
  <2>1. /\ SubSeq(p, 1, m) \in Seq(S)
        /\ Len(SubSeq(p, 1, m)) = IF 1 <= m THEN m - 1 + 1 ELSE 0
        /\ \A i \in 1 .. m - 1 + 1 : SubSeq(p, 1, m)[i] = p[1 + i - 1]
    BY <1>0, <1>1, SubSeqProperties, 1 \in Int
  <2> QED
    BY <1>0, <2>1
<1>3. <<x>> \in Seq(S) /\ Len(<<x>>) = 1 /\ <<x>>[1] = x
  OBVIOUS
<1>4. /\ q \in Seq(S) /\ Len(q) = n
      /\ \A i \in 1 .. n : q[i] = IF i <= 1 THEN <<x>>[i] ELSE u[i - 1]
  <2> HIDE DEF S, u, m
  <2>1. /\ <<x>> \o u \in Seq(S)
        /\ Len(<<x>> \o u) = Len(<<x>>) + Len(u)
        /\ \A i \in 1 .. Len(<<x>>) + Len(u) : (<<x>> \o u)[i] =
                     IF i <= Len(<<x>>) THEN <<x>>[i] ELSE u[i - Len(<<x>>)]
    BY <1>2, <1>3, ConcatProperties
  <2> QED
    BY <2>1, <1>0, <1>2, <1>3
<1>5. q = [i \in 1 .. n |-> q[i]]
  <2> HIDE DEF S, m
  <2> QED
    BY <1>4, LenProperties
<1>6. q[1] = x
  <2> HIDE DEF u
  <2> QED
    BY <1>3, <1>4
<1>7. \A i \in 1 .. n - 1 : q[i + 1] = p[i]
  <2> HIDE DEF u
  <2> QED
    BY <1>0, <1>2, <1>4
<1> QED
  BY <1>5, <1>6, <1>7

LEMMA ShiftIn ==
  ASSUME NEW p, NEW x, NEW q, q = ShiftedIn(x, p)
  PROVE  /\ q = [i \in 1 .. QK_LAT |-> q[i]]
         /\ q[1] = x
         /\ \A i \in 1 .. QK_LAT - 1 : q[i + 1] = p[i]
<1>1. QK_LAT \in Nat \ {0, 1}
  BY DEF QK_LAT
<1> QED
  BY <1>1, ShiftInto DEF ShiftedIn

LEMMA UptoTerms ==
  ASSUME NEW j \in Jobs, NEW s \in Slots, NEW h \in Seq(AllTerms), NEW k \in 0 .. TK
  PROVE  /\ Upto(j, h, s, k) \in Seq(AllTerms)
         /\ Len(Upto(j, h, s, k)) = Len(h) + k
         /\ \A i \in 1 .. Len(h) + k :
              Upto(j, h, s, k)[i] = IF i <= Len(h) THEN h[i] ELSE TermOf(j, s, i - Len(h) - 1)
<1> DEFINE t == [i \in 1 .. k |-> TermOf(j, s, i - 1)]
<1>0. k \in Nat /\ \A i \in 1 .. k : i - 1 \in 0 .. TK - 1
  BY TKType
<1>1. \A i \in 1 .. k : TermOf(j, s, i - 1) \in AllTerms
  BY <1>0 DEF AllTerms
<1>2. t \in Seq(AllTerms) /\ Len(t) = k
  <2>1. t \in [1 .. k -> AllTerms]
    BY <1>1
  <2> HIDE DEF t
  <2> QED
    BY <1>0, <2>1
<1>3. \A i \in 1 .. k : t[i] = TermOf(j, s, i - 1)
  OBVIOUS
<1>4. Upto(j, h, s, k) = h \o t
  BY DEF Upto
<1>5. Len(h) \in Nat
  BY LenProperties
<1> HIDE DEF t
<1>6. /\ h \o t \in Seq(AllTerms) /\ Len(h \o t) = Len(h) + k
      /\ \A i \in 1 .. Len(h) + k : (h \o t)[i] = IF i <= Len(h) THEN h[i] ELSE t[i - Len(h)]
  BY <1>2, ConcatProperties
<1>7. \A i \in 1 .. Len(h) + k : i <= Len(h) \/ i - Len(h) \in 1 .. k
  BY <1>0, <1>5
<1> QED
  BY <1>3, <1>4, <1>6, <1>7

LEMMA UptoFirst ==
  ASSUME NEW j \in Jobs, NEW s \in Slots, NEW h \in Seq(AllTerms)
  PROVE  Upto(j, h, s, 0) = h
<1>1. /\ Upto(j, h, s, 0) \in Seq(AllTerms) /\ Len(Upto(j, h, s, 0)) = Len(h) + 0
      /\ \A i \in 1 .. Len(h) + 0 :
              Upto(j, h, s, 0)[i] = IF i <= Len(h) THEN h[i] ELSE TermOf(j, s, i - Len(h) - 1)
  BY UptoTerms, TKType
<1>2. Len(h) \in Nat
  BY LenProperties
<1>3. \A i \in 1 .. Len(h) : Upto(j, h, s, 0)[i] = h[i]
  BY <1>1, <1>2
<1> QED
  BY <1>1, <1>2, <1>3, SeqEqual

LEMMA UptoNext ==
  ASSUME NEW j \in Jobs, NEW s \in Slots, NEW h \in Seq(AllTerms), NEW k \in 0 .. TK - 1
  PROVE  Append(Upto(j, h, s, k), TermOf(j, s, k)) = Upto(j, h, s, k + 1)
<1> DEFINE a == Upto(j, h, s, k)
           t == TermOf(j, s, k)
           z == Upto(j, h, s, k + 1)
<1>0. k \in 0 .. TK /\ k + 1 \in 0 .. TK /\ k \in Nat /\ Len(h) \in Nat
  BY TKType, LenProperties
<1>1. /\ a \in Seq(AllTerms) /\ Len(a) = Len(h) + k
      /\ \A i \in 1 .. Len(h) + k : a[i] = IF i <= Len(h) THEN h[i] ELSE TermOf(j, s, i - Len(h) - 1)
  BY <1>0, UptoTerms
<1>2. /\ z \in Seq(AllTerms) /\ Len(z) = Len(h) + (k + 1)
      /\ \A i \in 1 .. Len(h) + (k + 1) :
           z[i] = IF i <= Len(h) THEN h[i] ELSE TermOf(j, s, i - Len(h) - 1)
  BY <1>0, UptoTerms
<1>3. t \in AllTerms
  BY DEF AllTerms
<1> HIDE DEF a, z
<1>4. /\ Append(a, t) \in Seq(AllTerms) /\ Len(Append(a, t)) = Len(a) + 1
      /\ \A i \in 1 .. Len(a) : Append(a, t)[i] = a[i]
      /\ Append(a, t)[Len(a) + 1] = t
  <2> HIDE DEF t
  <2>1. a \in Seq(AllTerms)
    BY <1>1
  <2> QED
    BY <1>3, <2>1, AppendProperties
<1>5. \A i \in 1 .. Len(h) + k : Append(a, t)[i] = z[i]
  <2> SUFFICES ASSUME NEW i \in 1 .. Len(h) + k
               PROVE  Append(a, t)[i] = z[i]
    OBVIOUS
  <2>1. i \in 1 .. Len(h) + (k + 1) /\ i \in 1 .. Len(a)
    BY <1>0, <1>1
  <2> QED
    BY <1>1, <1>2, <1>4, <2>1
<1>6. Append(a, t)[Len(h) + k + 1] = z[Len(h) + k + 1]
  <2>1. Len(h) + k + 1 \in 1 .. Len(h) + (k + 1) /\ ~(Len(h) + k + 1 <= Len(h))
        /\ Len(h) + k + 1 - Len(h) - 1 = k
    BY <1>0
  <2>2. z[Len(h) + k + 1] = TermOf(j, s, k)
    BY <1>2, <2>1
  <2> QED
    BY <1>1, <1>4, <2>2
<1>7. \A i \in 1 .. Len(h) + (k + 1) : i \in 1 .. Len(h) + k \/ i = Len(h) + k + 1
  BY <1>0
<1>8. Len(Append(a, t)) = Len(h) + (k + 1)
  BY <1>0, <1>1, <1>4
<1>9. \A i \in 1 .. Len(h) + (k + 1) : Append(a, t)[i] = z[i]
  BY <1>5, <1>6, <1>7
<1>10. Append(a, t) = z
  BY <1>2, <1>4, <1>8, <1>9, SeqEqual
<1> QED
  BY <1>10 DEF a, z

(* Pairs of rows lie in their tile, and no two slots share one.             *)
LEMMA PairsOfBatch ==
  /\ \A b \in Batches, s \in Slots : PairOf(b, s) \in Pairs
  /\ \A b, d \in Batches, s, t \in Slots : PairOf(b, s) = PairOf(d, t) => b = d /\ s = t
<1>1. BEATS_PER_TILE_Q = 4 * NUM_BATCHES /\ NUM_BATCHES \in Nat
  BY FourSlots, CoreAssumption, PipeAssumption
<1>2. \A b, s : PairOf(b, s) = b * 4 + s
  BY FourSlots DEF PairOf
<1>3. \A b \in 0 .. NUM_BATCHES - 1, s \in 0 .. 3 : b * 4 + s \in 0 .. BEATS_PER_TILE_Q - 1
  BY <1>1
<1>4. \A b, d \in 0 .. NUM_BATCHES - 1, s, t \in 0 .. 3 : b * 4 + s = d * 4 + t => b = d /\ s = t
  OBVIOUS
<1> QED
  BY <1>2, <1>3, <1>4, FourSlots DEF Batches, Pairs

(* The causal mask of a term is that of the row and key of its product.     *)
LEMMA MasksOfTerms ==
  ASSUME NEW t \in AllTerms, NEW r \in {0, 1}
  PROVE  t.masked[r + 1] <=> 2 * (t.dot[1].q - QBase) + r < t.dot[1].k - KBase
<1>1. PICK j \in Jobs, s \in Slots, k \in 0 .. TK - 1 : t = TermOf(j, s, k)
  BY DEF AllTerms
<1>0. QBase \in Nat /\ KBase \in Nat /\ BEATS_PER_TILE_Q \in Nat /\ TK \in Nat
  BY CoreAssumption, TKType
<1>2. j.q \in Nat /\ j.k \in Nat /\ j.b \in Batches /\ j.c \in {1, 2} /\ k \in Nat
  BY CoreAssumption, TKType DEF Jobs, QTiles, KTiles
<1>3. PairOf(j.b, s) \in Nat
  BY <1>2, PairsOfBatch DEF Pairs
<1>4. 1 \in 1 .. j.c /\ 1 - 1 = 0
  BY <1>2
<1>5. t.dot = Product(j, s, k, j.c)
  BY <1>1 DEF TermOf
<1>6. t.dot[1] = ChunkAt(j, s, k, 0)
  BY <1>4, <1>5 DEF Product
<1>7. t.dot[1].q = QAddr(j.q) + PairOf(j.b, s) /\ t.dot[1].k = KAddr(j.k) + k
  BY <1>6 DEF ChunkAt
<1>8. t.masked = <<MaskedAt(j, s, k, 0), MaskedAt(j, s, k, 1)>>
  BY <1>1 DEF TermOf
<1>9. t.masked[r + 1] <=> MaskedAt(j, s, k, r)
  BY <1>8
<1>10. t.dot[1].q - QBase = j.q * BEATS_PER_TILE_Q + PairOf(j.b, s)
  <2>1. j.q * BEATS_PER_TILE_Q \in Nat
    BY <1>0, <1>2
  <2> QED
    BY <1>0, <1>3, <1>7, <2>1 DEF QAddr
<1>11. t.dot[1].k - KBase = j.k * TK + k
  <2>1. j.k * TK \in Nat
    BY <1>0, <1>2
  <2> QED
    BY <1>0, <1>2, <1>7, <2>1 DEF KAddr, TK
<1>12. j.q * TQ = 2 * (j.q * BEATS_PER_TILE_Q) /\ j.q * BEATS_PER_TILE_Q \in Nat
  BY <1>0, <1>2 DEF TQ
<1>13. MaskedAt(j, s, k, r) <=> j.q * TQ + 2 * PairOf(j.b, s) + r < j.k * TK + k
  BY DEF MaskedAt
<1>14. j.q * TQ + 2 * PairOf(j.b, s) + r = 2 * (j.q * BEATS_PER_TILE_Q + PairOf(j.b, s)) + r
  BY <1>3, <1>12
<1> QED
  BY <1>9, <1>10, <1>11, <1>13, <1>14
-----------------------------------------------------------------------------
(* ---- Tiles are loaded as in AttentionCore ---- *)

(* FillInv of AttentionCoreProofs is about the master FSM, prefetch and the *)
(* read engine.  All states but S_NORMALIZE are those of AttentionCore, and *)
(* S_NORMALIZE leaves alone what FillInv speaks of.                         *)

FsmTypeOK ==
  /\ cs \in CompStates /\ batch \in Batches
  /\ comp_done \in BOOLEAN /\ comp_start \in BOOLEAN
  /\ dp_chunks \in {1, 2}
  /\ norm_row \in 0 .. TQ - 1

(* CompInv: the compute FSM works in S_COMPUTE only.                        *)
FeedInv == FillInv /\ CompInv /\ FsmTypeOK

LEMMA GroupsOfRows ==
  /\ TQ = 8 * NUM_BATCHES
  /\ \A r \in 0 .. TQ - 1 : r \div (2 * SOFTMAX_CTXS) \in Batches
BY CoreAssumption, PipeAssumption DEF TQ, SOFTMAX_CTXS, CTX_COUNT, Batches

LEMMA InitFeed == PipeInit => FeedInv
<1> SUFFICES ASSUME PipeInit PROVE FeedInv
  OBVIOUS
<1>1. Init
  BY DEF PipeInit
<1>2. FillInv
  BY <1>1, InitIInv, IsFillInv
<1>3. CompInv
  BY <1>1 DEF Init, CompInv
<1>4. /\ norm_row = 0 /\ dp_chunks \in ChunkCounts
      /\ cs = "C_IDLE" /\ batch = 0 /\ comp_done = FALSE /\ comp_start = FALSE
  BY <1>1 DEF PipeInit, NormInit, Init
<1>5. 0 \in 0 .. TQ - 1 /\ 0 \in Batches
  BY GroupsOfRows, CoreAssumption DEF Batches
<1> QED
  BY <1>2, <1>3, <1>4, <1>5, PipeAssumption DEF FeedInv, FsmTypeOK, CompStates

(* S_NORMALIZE goes through the rows and leaves for S_WRITE_O.              *)
LEMMA NormalizerStep ==
  ASSUME FeedInv, PipeNormalize
  PROVE  /\ norm_row' \in 0 .. TQ - 1 /\ norm_qi' \in Batches
         /\ ms' \in {"S_NORMALIZE", "S_WRITE_O"} /\ rd_cmd' = NoCmd /\ wr_cmd' = NoCmd
         /\ UNCHANGED <<q_tile_idx, k_tile_idx, fillVars, bankVars, pfVars, q_buf, k_buf, v_buf>>
         /\ o_write_cnt' \in {0, o_write_cnt}
         /\ comp_start' = FALSE
<1>1. norm_row' \in 0 .. TQ - 1
  <2>1. norm_row \in 0 .. TQ - 1
    BY DEF FeedInv, FsmTypeOK
  <2>2. norm_row' = norm_row \/ (norm_row # TQ - 1 /\ norm_row' = norm_row + 1)
    BY DEF PipeNormalize, NormalizeStep, Request, AwaitReciprocal, TakeReciprocal, AwaitChunk,
           StoreChunk, StoreLastChunk
  <2> QED
    BY <2>1, <2>2, GroupsOfRows
<1>2. norm_qi' \in Batches
  BY <1>1, GroupsOfRows DEF PipeNormalize
<1> QED
  BY <1>1, <1>2 DEF PipeNormalize, Quiet, Pulses, GoTo, fsmVars

(* The other states are those of AttentionCore.                             *)
LEMMA OtherStatesStep ==
  ASSUME FeedInv, NEW start \in BOOLEAN, NEW rdv \in BOOLEAN, NEW taken \in BOOLEAN,
         PipeMasterTick(start, rdv, taken), ~PipeNormalize
  PROVE  ms # "S_NORMALIZE" /\ MasterTick(start, rdv, taken) /\ norm_row' \in 0 .. TQ - 1
<1>1. norm_row \in 0 .. TQ - 1 /\ 0 \in 0 .. TQ - 1
  BY GroupsOfRows DEF FeedInv, FsmTypeOK
<1> QED
  BY <1>1 DEF PipeMasterTick, NormalizeStart, NormalizeOff

LEMMA NextFill ==
  ASSUME FeedInv, NEW start \in BOOLEAN, NEW rdv \in BOOLEAN, NEW taken \in BOOLEAN,
         ReadTick(rdv), PipeMasterTick(start, rdv, taken)
  PROVE  FillInv'
<1>1. CASE PipeNormalize
  <2>1. LoadInv'
    BY <1>1, NormalizerStep, NothingLoading
  <2>2. /\ req' \in Commands /\ sent' \in 0 .. req'.n
        /\ beat' \in [addr : Nat, last : BOOLEAN] /\ rd_stall' \in 0 .. MaxRdStall
    BY ReadType DEF FeedInv, FillInv, LoadTypeOK
  <2>3. rd_cmd' \in Commands /\ wr_cmd' \in Commands
    BY <1>1, NormalizerStep, NoCmdType
  <2>4. MasterTypeOK'
    <3>1. /\ MasterTypeOK
          /\ norm_qi' \in Batches /\ ms' \in {"S_NORMALIZE", "S_WRITE_O"}
          /\ UNCHANGED <<q_tile_idx, k_tile_idx, fillVars, bankVars, pfVars>>
          /\ o_write_cnt' \in {0, o_write_cnt}
      BY <1>1, NormalizerStep DEF FeedInv, FillInv, LoadTypeOK
    <3>2. ms' \in MasterStates /\ o_write_cnt' \in 0 .. BEATS_PER_TILE_Q + 1
      BY <3>1, CoreAssumption DEF MasterTypeOK, MasterStates
    <3> QED
      BY <3>1, <3>2 DEF MasterTypeOK, fillVars, bankVars, pfVars
  <2>5. InputTypeOK'
    BY <1>1, NormalizerStep DEF FeedInv, FillInv, LoadTypeOK, InputTypeOK
  <2> QED
    BY <2>1, <2>2, <2>3, <2>4, <2>5 DEF FillInv, LoadTypeOK, ReadTypeOK, Commands
<1>2. CASE ~PipeNormalize
  BY <1>2, OtherStatesStep, TickLoads DEF FeedInv
<1> QED
  BY <1>1, <1>2

(* comp_start and comp_done as AttentionCore!ClockComp has them.            *)
LEMMA NextComp ==
  ASSUME FeedInv, NEW start \in BOOLEAN, NEW rdv \in BOOLEAN, NEW taken \in BOOLEAN,
         PipeMasterTick(start, rdv, taken), PipeTick
  PROVE  /\ CompInv' /\ comp_start' \in BOOLEAN /\ comp_done' \in BOOLEAN
         /\ cs = "C_DP_RUN" => UNCHANGED <<q_tile_idx, k_tile_idx>>
<1>p. CompInv /\ comp_done \in BOOLEAN
  BY DEF FeedInv, FsmTypeOK
<1>1. CASE ms = "S_COMPUTE"
  <2>1. Compute(rdv)
    BY <1>1, OtherStatesStep DEF PipeNormalize, MasterTick, Idle, LoadQ, InitContext, LoadK, LoadV,
                      NormalizeRows, WriteO, NextQ, Done
  <2>2. comp_start' = (~comp_done /\ cs = "C_IDLE")
    BY <2>1 DEF Compute, Pulses
  <2>3. ~comp_done => ms' = "S_COMPUTE" /\ UNCHANGED <<q_tile_idx, k_tile_idx>>
    BY <1>1, <2>1 DEF Compute, Computing, ToNormalize, NextTile, PulseLost, fsmVars
  <2>4. cs' # "C_IDLE" => (cs # "C_IDLE" \/ comp_start)
    BY DEF PipeTick, PipeIdle, PipeRun, PipeBatchEnd, PipeDone
  <2>5. comp_done' \in BOOLEAN /\ (comp_done' => cs = "C_DONE" /\ cs' = "C_IDLE")
    BY DEF PipeTick, PipeIdle, PipeRun, PipeBatchEnd, PipeDone
  <2> QED
    BY <1>p, <2>2, <2>3, <2>4, <2>5 DEF CompInv
<1>2. CASE ms # "S_COMPUTE"
  <2>1. comp_start' = FALSE
    <3>1. CASE PipeNormalize
      BY <3>1, NormalizerStep
    <3>2. CASE ~PipeNormalize
      BY <1>2, <3>2, OtherStatesStep
         DEF MasterTick, Idle, LoadQ, InitContext, LoadK, LoadV, Compute,
             NormalizeRows, WriteO, NextQ, Done, Quiet, Pulses
    <3> QED
      BY <3>1, <3>2
  <2>2. cs = "C_IDLE" /\ ~comp_start
    BY <1>p, <1>2 DEF CompInv
  <2>3. cs' = "C_IDLE" /\ comp_done' = FALSE
    BY <2>2 DEF PipeTick, PipeIdle, PipeRun, PipeBatchEnd, PipeDone
  <2> QED
    BY <2>1, <2>2, <2>3 DEF CompInv
<1> QED
  BY <1>1, <1>2

LEMMA NextFeed == FeedInv /\ [PipeClock]_allVars => FeedInv'
<1> SUFFICES ASSUME FeedInv, [PipeClock]_allVars PROVE FeedInv'
  OBVIOUS
<1>1. CASE UNCHANGED allVars
  <2>1. UNCHANGED vars
    BY <1>1 DEF allVars
  <2>2. FillInv'
    BY <2>1 DEF vars, masterVars, fsmVars, fillVars, bankVars, pfVars, outVars, pulseVars, bufVars,
                readVars, FeedInv, FillInv, LoadTypeOK, MasterTypeOK, InputTypeOK, ReadTypeOK,
                LoadInv, CmdInv, FillQInv, FillKInv, FillVInv, PrefetchInv,
                LoadedTiles, LastTile, Owed, Prefix, HoldsTile, rd_ready,
                QCmd, KCmd, VCmd, QAddr, KAddr, VAddr
  <2>3. CompInv'
    BY <2>1, StutterComp DEF FeedInv
  <2>4. FsmTypeOK'
    BY <1>1 DEF FeedInv, FsmTypeOK, allVars, vars, masterVars, compVars, pulseVars, pipeVars, normVars
  <2> QED
    BY <2>2, <2>3, <2>4 DEF FeedInv
<1>2. CASE PipeClock
  <2>1. PICK start \in BOOLEAN, rdv \in BOOLEAN, taken \in BOOLEAN :
          /\ ReadTick(rdv) /\ PipeMasterTick(start, rdv, taken) /\ PipeTick
          /\ UNCHANGED dp_chunks
    BY <1>2 DEF PipeClock
  <2>2. FillInv'
    BY <2>1, NextFill
  <2>3. CompInv' /\ comp_start' \in BOOLEAN /\ comp_done' \in BOOLEAN
    BY <2>1, NextComp
  <2>4. norm_row' \in 0 .. TQ - 1
    BY <2>1, NormalizerStep, OtherStatesStep
  <2>5. cs' \in CompStates /\ batch' \in Batches
    BY <2>1, CoreAssumption DEF FeedInv, FsmTypeOK, CompStates, Batches,
                PipeTick, PipeIdle, PipeRun, PipeBatchEnd, PipeDone
  <2> QED
    BY <2>1, <2>2, <2>3, <2>4, <2>5 DEF FeedInv, FsmTypeOK
<1> QED
  BY <1>1, <1>2

(* Whenever the compute FSM runs, Q, K and V buffers hold the whole tiles   *)
(* the tile indices name, so that no chunk, value or mask is of a mixture   *)
(* of tiles: for every speed of the memory, and with a reciprocal, rounding *)
(* and dot product of many cycles in the loop.                              *)
THEOREM WholeTilesInPipes == PipeSpec => []ComputeOnWholeTiles
<1>1. FeedInv => ComputeOnWholeTiles
  BY DEF FeedInv, FillInv, LoadInv, LoadedTiles, CompInv, ComputeOnWholeTiles, OperandsWhole
<1> QED
  BY <1>1, InitFeed, NextFeed, PTL DEF PipeSpec
-----------------------------------------------------------------------------
(* ---- Where everything of a batch is, cycle by cycle ---- *)

(* A batch runs like a clock: comp_t, the cycles since it started, tells    *)
(* for every register which issue of the batch it holds, if any.  Issue n   *)
(* is made in cycle n.  r cycles later it is in stage r of the dot product  *)
(* (r up to 8), at the return side (9), in stage r - 9 of the softmax       *)
(* contexts (10 to 14), put out (15).                                       *)

(* The tiles and the batch at work; slot, key and chunk of the issue r      *)
(* cycles ago; whether there was one, and whether it ended a dot product.   *)
Job == [q |-> q_tile_idx, k |-> k_tile_idx, b |-> batch, c |-> dp_chunks]
Slot(r) == SlotOf(dp_chunks, comp_t - r)
Key(r) == KeyOf(dp_chunks, comp_t - r)
Chunk(r) == ChunkOf(dp_chunks, comp_t - r)
UnderWay(r) == cs = "C_DP_RUN" /\ comp_t - r \in 0 .. IssuesOf(dp_chunks) - 1
Scored(r) == UnderWay(r) /\ Ends(dp_chunks, comp_t - r)
PairCtx(s) == pair_ctx[PairOf(batch, s)]

(* The cycles of a batch; the issue counters; what each stage of the dot    *)
(* product works on, and its tag; the half of a dot product that waits for  *)
(* the other one; the score that comes of it.                               *)
ClockInv ==
  IF cs = "C_DP_RUN" THEN comp_t \in 0 .. IssuesOf(dp_chunks) + 14 ELSE comp_t = 0
IssueInv ==
  cs = "C_DP_RUN" =>
    /\ qk_issue_done <=> comp_t >= IssuesOf(dp_chunks)
    /\ UnderWay(0) =>
         qk_issue_slot = Slot(0) /\ qk_issue_kj = Key(0) /\ qk_issue_chunk = Chunk(0)
DotInv ==
  dot_pipe = [i \in 1 .. QK_LAT |->
                IF UnderWay(i) THEN ChunkAt(Job, Slot(i), Key(i), Chunk(i)) ELSE Nothing]
TagInv ==
  \A i \in 1 .. QK_LAT : UnderWay(i) =>
    qk_tag[i] = [slot |-> Slot(i), kj |-> Key(i), last |-> Ends(dp_chunks, comp_t - i)]
FirstInv ==
  cs = "C_DP_RUN" =>
    ret_first = IF UnderWay(9) /\ ~Scored(9)
                THEN [slot |-> Slot(9), kj |-> Key(9), dot |-> Product(Job, Slot(9), Key(9), 1)]
                ELSE Nothing
ScoreInv ==
  score_issue =
    IF Scored(9)
    THEN [slot |-> Slot(9), kj |-> Key(9), dot |-> Product(Job, Slot(9), Key(9), dp_chunks)]
    ELSE Nothing

(* The softmax contexts.  What the score of r cycles ago starts from, and   *)
(* what it makes of it: the context the pair of rows had when the batch     *)
(* started with the earlier keys of the tile, and with this one.            *)
Prior(r) == Upto(Job, PairCtx(Slot(r)), Slot(r), Key(r))
Including(r) == Upto(Job, PairCtx(Slot(r)), Slot(r), Key(r) + 1)
StageOf(r) ==
  [ctx |-> Slot(r), last |-> Key(r) = TK - 1, term |-> TermOf(Job, Slot(r), Key(r)),
   prev |-> Prior(r)]
(* Stage i works on the score of 9 + i cycles ago; what is put out; what    *)
(* was stored too recently for the next score of the row to have come by;   *)
(* the slots that are finished; and that contexts are made of terms.        *)
StageInv ==
  stage = [i \in 1 .. 5 |-> IF Scored(9 + i) THEN StageOf(9 + i) ELSE Nothing]
OutInv ==
  sm_out = IF Scored(15)
           THEN [ctx |-> Slot(15), done |-> Key(15) = TK - 1, sum |-> Including(15)]
           ELSE Nothing
StoredInv ==
  /\ ctx_state = [s \in Slots |-> ctx_state[s]]
  /\ \A r \in 15 .. 17 : Scored(r) /\ Key(r) # TK - 1 => ctx_state[Slot(r)] = Including(r)
MaskInv ==
  cs = "C_DP_RUN" =>
    batch_done_mask = {s \in Slots : comp_t > LastOf(dp_chunks, s) + 15}
CtxInv == pair_ctx \in [Pairs -> Seq(AllTerms)]

FlowInv ==
  /\ FeedInv /\ ClockInv /\ IssueInv /\ DotInv /\ TagInv /\ FirstInv /\ ScoreInv
  /\ StageInv /\ OutInv /\ StoredInv /\ MaskInv /\ CtxInv
-----------------------------------------------------------------------------
LEMMA ClockEdge ==
  ASSUME FeedInv, PipeClock
  PROVE  /\ DotTick /\ SoftmaxTick(SoftmaxInput) /\ PipeTick
         /\ PairTick(ms = "S_INIT_CONTEXT") /\ HistoryTick
         /\ IF pair_ctx' = pair_ctx THEN UNCHANGED row_ctx
            ELSE row_ctx' = [b \in Batches |-> GroupContext(b, pair_ctx')]
         /\ dp_chunks' = dp_chunks
         /\ cs = "C_DP_RUN" => /\ UNCHANGED <<q_tile_idx, k_tile_idx>>
                               /\ OperandsWhole /\ ms # "S_INIT_CONTEXT"
<1>1. PICK start \in BOOLEAN, rdv \in BOOLEAN, taken \in BOOLEAN :
        /\ PipeMasterTick(start, rdv, taken)
        /\ DotTick /\ SoftmaxTick(SoftmaxInput) /\ PipeTick
        /\ PairTick(ms = "S_INIT_CONTEXT") /\ HistoryTick
        /\ IF pair_ctx' = pair_ctx THEN UNCHANGED row_ctx
            ELSE row_ctx' = [b \in Batches |-> GroupContext(b, pair_ctx')]
        /\ dp_chunks' = dp_chunks
  BY DEF PipeClock
<1>2. cs = "C_DP_RUN" => UNCHANGED <<q_tile_idx, k_tile_idx>>
  BY <1>1, NextComp
<1>3. cs = "C_DP_RUN" => OperandsWhole /\ ms # "S_INIT_CONTEXT"
  BY DEF FeedInv, FillInv, LoadInv, LoadedTiles, CompInv, OperandsWhole
<1> QED
  BY <1>1, <1>2, <1>3

LEMMA Parameters ==
  ASSUME FeedInv
  PROVE  dp_chunks \in {1, 2} /\ Job \in Jobs /\ IssuesOf(dp_chunks) \in Nat \ {0}
<1>1. dp_chunks \in {1, 2} /\ batch \in Batches
  BY DEF FeedInv, FsmTypeOK
<1>2. q_tile_idx \in QTiles /\ k_tile_idx \in KTiles
  BY DEF FeedInv, FillInv, LoadTypeOK, MasterTypeOK
<1> QED
  BY <1>1, <1>2, IssueRange DEF Job, Jobs

LEMMA IssueType ==
  ASSUME FeedInv, NEW r \in Nat, UnderWay(r)
  PROVE  /\ cs = "C_DP_RUN" /\ comp_t - r \in Nat
         /\ Slot(r) \in Slots /\ Key(r) \in 0 .. TK - 1 /\ Chunk(r) \in 0 .. dp_chunks - 1
         /\ Slot(r) # CTX_COUNT
<1>1. comp_t - r \in 0 .. IssuesOf(dp_chunks) - 1 /\ cs = "C_DP_RUN"
  BY DEF UnderWay
<1>2. /\ SlotOf(dp_chunks, comp_t - r) \in Slots
      /\ KeyOf(dp_chunks, comp_t - r) \in 0 .. TK - 1
      /\ ChunkOf(dp_chunks, comp_t - r) \in 0 .. dp_chunks - 1
  BY <1>1, Parameters, IssueRange
<1>3. comp_t - r \in Nat
  BY <1>1, Parameters
<1> QED
  BY <1>1, <1>2, <1>3, FourSlots DEF Slot, Key, Chunk

(* When the slots of the batch are found to be finished.                    *)
LEMMA FinishedSlots ==
  ASSUME FlowInv, cs = "C_DP_RUN"
  PROVE  /\ batch_done_next = {s \in Slots : comp_t + 1 > LastOf(dp_chunks, s) + 15}
         /\ BatchDone <=> comp_t = IssuesOf(dp_chunks) + 14
         /\ RowDone <=> Scored(15) /\ Key(15) = TK - 1
         /\ RowDone => sm_out.ctx = Slot(15) /\ sm_out.sum = Including(15)
<1>i. FeedInv /\ ClockInv /\ OutInv /\ MaskInv /\ dp_chunks \in {1, 2}
  BY Parameters DEF FlowInv
<1>t. comp_t \in 0 .. IssuesOf(dp_chunks) + 14 /\ comp_t \in Nat /\ IssuesOf(dp_chunks) \in Nat \ {0}
  BY <1>i, Parameters DEF ClockInv
<1>1. RowDone <=> Scored(15) /\ Key(15) = TK - 1
  <2>1. CASE Scored(15)
    <3>1. sm_out = [ctx |-> Slot(15), done |-> Key(15) = TK - 1, sum |-> Including(15)]
      BY <1>i, <2>1 DEF OutInv
    <3>2. Slot(15) # CTX_COUNT
      BY <1>i, <2>1, IssueType DEF Scored
    <3>3. sm_out.ctx = Slot(15) /\ Nothing.ctx = CTX_COUNT
      BY <3>1 DEF Nothing
    <3>4. sm_out # Nothing
      BY <3>2, <3>3
    <3>5. sm_out.done <=> Key(15) = TK - 1
      BY <3>1
    <3> QED
      BY <2>1, <3>4, <3>5 DEF RowDone
  <2>2. CASE ~Scored(15)
    BY <1>i, <2>2 DEF OutInv, RowDone
  <2> QED
    BY <2>1, <2>2
<1>2. RowDone => sm_out.ctx = Slot(15) /\ sm_out.sum = Including(15)
  BY <1>i, <1>1 DEF OutInv
<1>3. \A s \in Slots : LastOf(dp_chunks, s) \in 0 .. IssuesOf(dp_chunks) - 1
  BY <1>i, LastScores
<1>4. \A s \in Slots : (RowDone /\ Slot(15) = s) <=> comp_t = LastOf(dp_chunks, s) + 15
  <2> SUFFICES ASSUME NEW s \in Slots
               PROVE  (RowDone /\ Slot(15) = s) <=> comp_t = LastOf(dp_chunks, s) + 15
    OBVIOUS
  <2>1. (RowDone /\ Slot(15) = s) <=>
          /\ comp_t - 15 \in 0 .. IssuesOf(dp_chunks) - 1
          /\ Ends(dp_chunks, comp_t - 15)
          /\ SlotOf(dp_chunks, comp_t - 15) = s /\ KeyOf(dp_chunks, comp_t - 15) = TK - 1
    BY <1>1 DEF Scored, UnderWay, Slot, Key
  <2>2. \A n \in 0 .. IssuesOf(dp_chunks) - 1 :
              (Ends(dp_chunks, n) /\ SlotOf(dp_chunks, n) = s /\ KeyOf(dp_chunks, n) = TK - 1)
                <=> n = LastOf(dp_chunks, s)
    BY <1>i, LastScores
  <2>3. (RowDone /\ Slot(15) = s) <=>
          comp_t - 15 \in 0 .. IssuesOf(dp_chunks) - 1 /\ comp_t - 15 = LastOf(dp_chunks, s)
    BY <2>1, <2>2
  <2> QED
    BY <1>3, <1>t, <2>3
<1>5. batch_done_mask = {s \in Slots : comp_t > LastOf(dp_chunks, s) + 15}
  BY <1>i DEF MaskInv
<1>6. \A s \in Slots : comp_t + 1 > LastOf(dp_chunks, s) + 15 <=>
                         (comp_t > LastOf(dp_chunks, s) + 15 \/ comp_t = LastOf(dp_chunks, s) + 15)
  BY <1>3, <1>t
<1>7. batch_done_next = {s \in Slots : comp_t + 1 > LastOf(dp_chunks, s) + 15}
  <2>1. CASE RowDone
    <3>1. Slot(15) \in Slots
      BY <1>i, <1>1, <2>1, IssueType DEF Scored
    <3>2. batch_done_next = batch_done_mask \cup {Slot(15)}
      BY <1>2, <2>1 DEF batch_done_next
    <3> QED
      BY <1>4, <1>5, <1>6, <2>1, <3>1, <3>2
  <2>2. CASE ~RowDone
    BY <1>4, <1>5, <1>6, <2>2 DEF batch_done_next
  <2> QED
    BY <2>1, <2>2
<1>8. BatchDone <=> comp_t = IssuesOf(dp_chunks) + 14
  <2>1. BatchDone <=> \A s \in Slots : comp_t + 1 > LastOf(dp_chunks, s) + 15
    BY <1>7 DEF BatchDone
  <2>2. 3 \in Slots /\ LastOf(dp_chunks, 3) = IssuesOf(dp_chunks) - 1
    BY <1>i, FourSlots, LastScores
  <2> QED
    BY <1>3, <1>t, <2>1, <2>2
<1> QED
  BY <1>1, <1>2, <1>7, <1>8
-----------------------------------------------------------------------------
(* ---- A clock edge moves every issue on by one ---- *)

LEMMA EdgeKinds ==
  ASSUME FlowInv, PipeClock
  PROVE  /\ \/ /\ cs = "C_DP_RUN" /\ cs' = "C_DP_RUN" /\ PipeRun
               /\ comp_t' = comp_t + 1 /\ comp_t < IssuesOf(dp_chunks) + 14 /\ Job' = Job
            \/ /\ cs = "C_DP_RUN" /\ PipeBatchEnd /\ comp_t = IssuesOf(dp_chunks) + 14
               /\ comp_t' = 0
            \/ /\ cs # "C_DP_RUN" /\ (PipeIdle \/ PipeDone) /\ comp_t = 0 /\ comp_t' = 0
         /\ dp_chunks' = dp_chunks
<1>1. PipeTick /\ HistoryTick /\ dp_chunks' = dp_chunks
      /\ (cs = "C_DP_RUN" => UNCHANGED <<q_tile_idx, k_tile_idx>>)
  BY ClockEdge DEF FlowInv
<1>2. CASE PipeRun
  <2>1. cs = "C_DP_RUN" /\ cs' = "C_DP_RUN" /\ batch' = batch /\ ~BatchDone
    BY <1>2 DEF PipeRun
  <2>2. comp_t' = comp_t + 1
    BY <1>1, <2>1 DEF HistoryTick
  <2>3. comp_t # IssuesOf(dp_chunks) + 14
    BY <2>1, FinishedSlots
  <2>4. comp_t < IssuesOf(dp_chunks) + 14
    BY <2>1, <2>3, Parameters DEF FlowInv, ClockInv
  <2>5. Job' = Job
    BY <1>1, <2>1 DEF Job
  <2> QED
    BY <1>1, <1>2, <2>1, <2>2, <2>4, <2>5
<1>3. CASE PipeBatchEnd
  <2>1. cs = "C_DP_RUN" /\ BatchDone
    BY <1>3 DEF PipeBatchEnd
  <2>2. comp_t' = 0
    BY <1>1, <2>1 DEF HistoryTick
  <2>3. comp_t = IssuesOf(dp_chunks) + 14
    BY <2>1, FinishedSlots
  <2> QED
    BY <1>1, <1>3, <2>1, <2>2, <2>3
<1>4. CASE PipeIdle \/ PipeDone
  <2>1. cs # "C_DP_RUN"
    BY <1>4 DEF PipeIdle, PipeDone
  <2>2. comp_t' = 0
    BY <1>1, <2>1 DEF HistoryTick
  <2>3. comp_t = 0
    BY <2>1 DEF FlowInv, ClockInv
  <2> QED
    BY <1>1, <1>4, <2>1, <2>2, <2>3
<1> QED
  BY <1>1, <1>2, <1>3, <1>4 DEF PipeTick

LEMMA EdgeMoves ==
  ASSUME FlowInv, PipeClock
  PROVE  /\ ClockInv'
         /\ \A r \in Nat : UnderWay(r + 1)' =>
              /\ UnderWay(r) /\ PipeRun /\ cs' = "C_DP_RUN"
              /\ comp_t' - (r + 1) = comp_t - r
         /\ \A r \in Nat : UnderWay(r + 1)' => Job' = Job
         /\ \A r \in 0 .. 14 : UnderWay(r) => UnderWay(r + 1)'
<1> DEFINE N == IssuesOf(dp_chunks)
<1>n. N \in Nat \ {0} /\ dp_chunks' = dp_chunks
  BY Parameters, EdgeKinds DEF FlowInv
<1>t. comp_t \in 0 .. N + 14
  BY <1>n DEF FlowInv, ClockInv
<1>u. /\ \A r : UnderWay(r) <=> cs = "C_DP_RUN" /\ comp_t - r \in 0 .. N - 1
      /\ \A r : UnderWay(r)' <=> cs' = "C_DP_RUN" /\ comp_t' - r \in 0 .. N - 1
  BY <1>n DEF UnderWay
<1>c. ClockInv' <=> IF cs' = "C_DP_RUN" THEN comp_t' \in 0 .. N + 14 ELSE comp_t' = 0
  BY <1>n DEF ClockInv
<1> HIDE DEF N
<1>1. CASE /\ cs = "C_DP_RUN" /\ cs' = "C_DP_RUN" /\ PipeRun
           /\ comp_t' = comp_t + 1 /\ comp_t < N + 14 /\ Job' = Job
  <2>1. ClockInv'
    BY <1>c, <1>n, <1>t, <1>1
  <2>2. \A r \in Nat : comp_t' - (r + 1) = comp_t - r
    BY <1>t, <1>n, <1>1
  <2>3. \A r \in Nat : UnderWay(r + 1)' <=> UnderWay(r)
    BY <1>u, <1>1, <2>2
  <2> QED
    BY <1>1, <2>1, <2>2, <2>3
<1>2. CASE cs = "C_DP_RUN" /\ PipeBatchEnd /\ comp_t = N + 14 /\ comp_t' = 0
  <2>1. \A r \in Nat : ~(comp_t' - (r + 1) \in 0 .. N - 1)
    BY <1>n, <1>2
  <2>2. \A r \in 0 .. 14 : ~(comp_t - r \in 0 .. N - 1)
    BY <1>n, <1>2
  <2>3. ClockInv'
    BY <1>c, <1>n, <1>2
  <2> QED
    BY <1>u, <2>1, <2>2, <2>3
<1>3. CASE cs # "C_DP_RUN" /\ comp_t' = 0
  <2>1. \A r \in Nat : ~(comp_t' - (r + 1) \in 0 .. N - 1)
    BY <1>n, <1>3
  <2>2. ClockInv'
    BY <1>c, <1>n, <1>3
  <2> QED
    BY <1>u, <1>3, <2>1, <2>2
<1> QED
  BY <1>1, <1>2, <1>3, EdgeKinds DEF N

(* What an issue stands for does not change on its way.                     *)
LEMMA SameIssue ==
  ASSUME FlowInv, PipeClock, NEW r \in Nat, UnderWay(r + 1)'
  PROVE  /\ UnderWay(r) /\ PipeRun /\ cs' = "C_DP_RUN" /\ Job' = Job /\ dp_chunks' = dp_chunks
         /\ comp_t' - (r + 1) = comp_t - r
         /\ Slot(r + 1)' = Slot(r) /\ Key(r + 1)' = Key(r) /\ Chunk(r + 1)' = Chunk(r)
         /\ Scored(r + 1)' <=> Scored(r)
<1>1. /\ UnderWay(r) /\ PipeRun /\ cs' = "C_DP_RUN"
      /\ comp_t' - (r + 1) = comp_t - r /\ Job' = Job
  BY EdgeMoves
<1>2. dp_chunks' = dp_chunks
  BY EdgeKinds
<1>3. Slot(r + 1)' = Slot(r) /\ Key(r + 1)' = Key(r) /\ Chunk(r + 1)' = Chunk(r)
  BY <1>1, <1>2 DEF Slot, Key, Chunk
<1>4. Scored(r + 1)' <=> Scored(r)
  BY <1>1, <1>2 DEF Scored
<1> QED
  BY <1>1, <1>2, <1>3, <1>4
-----------------------------------------------------------------------------
(* ---- Each register in turn ---- *)

LEMMA NewBatch ==
  ASSUME FlowInv, PipeClock, cs' = "C_DP_RUN", ~PipeRun
  PROVE  /\ comp_t' = 0
         /\ IssueReset /\ batch_done_mask' = {} /\ ret_first' = Nothing
<1>1. PipeIdle \/ PipeBatchEnd
  BY EdgeKinds DEF PipeDone
<1>2. comp_t' = 0
  BY EdgeKinds
<1> QED
  BY <1>1, <1>2 DEF PipeIdle, PipeBatchEnd

LEMMA KeepIssue ==
  ASSUME FlowInv, PipeClock
  PROVE  IssueInv'
<1> SUFFICES ASSUME cs' = "C_DP_RUN"
             PROVE  /\ qk_issue_done' <=> comp_t' >= IssuesOf(dp_chunks)
                    /\ UnderWay(0)' => /\ qk_issue_slot' = Slot(0)' /\ qk_issue_kj' = Key(0)'
                                       /\ qk_issue_chunk' = Chunk(0)'
  BY EdgeKinds DEF IssueInv
<1>p. /\ dp_chunks' = dp_chunks /\ dp_chunks \in {1, 2} /\ IssuesOf(dp_chunks) \in Nat \ {0}
  BY EdgeKinds, Parameters DEF FlowInv
<1>v. \A n \in Nat : n - 0 = n
  OBVIOUS
<1>1. CASE PipeRun
  <2>1. cs = "C_DP_RUN" /\ comp_t' = comp_t + 1 /\ IssueTick
    BY <1>1, EdgeKinds DEF PipeRun, PipeBatchEnd, PipeIdle, PipeDone
  <2>2. comp_t \in Nat /\ comp_t' \in Nat
    BY <1>p, <2>1 DEF FlowInv, ClockInv
  <2>3. qk_issue_done <=> comp_t >= IssuesOf(dp_chunks)
    BY <2>1 DEF FlowInv, IssueInv
  <2>u. UnderWay(0)' => comp_t' < IssuesOf(dp_chunks)
    BY <1>p, <2>2 DEF UnderWay
  <2>4. CASE qk_issue_done
    <3>1. UNCHANGED issueVars
      BY <2>1, <2>4 DEF IssueTick
    <3>2. comp_t' >= IssuesOf(dp_chunks)
      BY <1>p, <2>1, <2>2, <2>3, <2>4
    <3>3. ~UnderWay(0)'
      BY <1>p, <2>2, <2>u, <3>2
    <3> QED
      BY <2>4, <3>1, <3>2, <3>3 DEF issueVars
  <2>5. CASE ~qk_issue_done
    <3> DEFINE n == comp_t
               c == dp_chunks
               slot == SlotOf(c, n)
               kj == KeyOf(c, n)
               row_end == Ends(c, n) /\ slot = SOFTMAX_CTXS - 1
    <3>1. n \in 0 .. IssuesOf(c) - 1
      BY <1>p, <2>2, <2>3, <2>5
    <3>2. UnderWay(0)
      BY <1>v, <2>1, <2>2, <3>1 DEF UnderWay
    <3>3. qk_issue_slot = slot /\ qk_issue_kj = kj /\ qk_issue_chunk = ChunkOf(c, n)
      BY <1>v, <2>1, <2>2, <3>2 DEF FlowInv, IssueInv, Slot, Key, Chunk
    <3>4. LastChunk <=> Ends(c, n)
      BY <3>3 DEF LastChunk, Ends
    <3>5. /\ qk_issue_chunk' = IF Ends(c, n) THEN 0 ELSE ChunkOf(c, n) + 1
          /\ qk_issue_slot' = IF Ends(c, n) THEN (slot + 1) % SOFTMAX_CTXS ELSE slot
          /\ qk_issue_done' <=> row_end /\ kj = TK - 1
          /\ qk_issue_kj' = IF row_end /\ kj # TK - 1 THEN kj + 1 ELSE kj
      BY <2>1, <2>5, <3>3, <3>4 DEF IssueTick
    <3>6. /\ ChunkOf(c, n + 1) = IF Ends(c, n) THEN 0 ELSE ChunkOf(c, n) + 1
          /\ SlotOf(c, n + 1) = IF Ends(c, n) THEN (slot + 1) % SOFTMAX_CTXS ELSE slot
          /\ n + 1 = IssuesOf(c) <=> row_end /\ kj = TK - 1
          /\ n + 1 # IssuesOf(c) =>
               KeyOf(c, n + 1) = IF row_end /\ kj # TK - 1 THEN kj + 1 ELSE kj
      BY <1>p, <3>1, NextIssue
    <3>7. n + 1 = IssuesOf(c) <=> comp_t' >= IssuesOf(c)
      BY <1>p, <2>1, <2>2, <3>1
    <3>8. Slot(0)' = SlotOf(c, n + 1) /\ Key(0)' = KeyOf(c, n + 1) /\ Chunk(0)' = ChunkOf(c, n + 1)
      BY <1>p, <1>v, <2>1, <2>2 DEF Slot, Key, Chunk
    <3>9. UnderWay(0)' => n + 1 # IssuesOf(c)
      BY <1>p, <2>1, <2>2, <2>u
    <3> QED
      BY <3>5, <3>6, <3>7, <3>8, <3>9
  <2> QED
    BY <2>4, <2>5
<1>2. CASE ~PipeRun
  <2>1. comp_t' = 0 /\ IssueReset
    BY <1>2, NewBatch
  <2>2. Slot(0)' = 0 /\ Key(0)' = 0 /\ Chunk(0)' = 0
    BY <1>p, <1>v, <2>1, FirstIssue DEF Slot, Key, Chunk
  <2> QED
    BY <1>p, <2>1, <2>2 DEF IssueReset
<1> QED
  BY <1>1, <1>2

(* The chunk issued now is the one of the counters.                         *)
LEMMA IssuedNow ==
  ASSUME FlowInv, PipeClock
  PROVE  /\ qk_issue_valid <=> UnderWay(0)
         /\ UnderWay(0) => IssuedChunk = ChunkAt(Job, Slot(0), Key(0), Chunk(0))
<1>p. FeedInv /\ ClockInv /\ IssueInv /\ IssuesOf(dp_chunks) \in Nat \ {0}
  BY Parameters DEF FlowInv
<1>1. qk_issue_valid <=> UnderWay(0)
  <2>1. cs = "C_DP_RUN" => comp_t \in Nat /\ comp_t - 0 = comp_t
    BY <1>p DEF ClockInv
  <2> QED
    BY <1>p, <2>1 DEF IssueInv, UnderWay, qk_issue_valid
<1>2. ASSUME UnderWay(0) PROVE IssuedChunk = ChunkAt(Job, Slot(0), Key(0), Chunk(0))
  <2>1. cs = "C_DP_RUN" /\ Slot(0) \in Slots /\ Key(0) \in 0 .. TK - 1
    BY <1>p, <1>2, IssueType
  <2>2. /\ qk_issue_slot = Slot(0) /\ qk_issue_kj = Key(0) /\ qk_issue_chunk = Chunk(0)
    BY <1>p, <1>2, <2>1 DEF IssueInv
  <2>3. HoldsTile(q_buf, QAddr(q_tile_idx)) /\ HoldsTile(k_buf[active_bank], KAddr(k_tile_idx))
    BY <1>p, <2>1, ClockEdge DEF OperandsWhole
  <2>4. /\ DOMAIN q_buf = QWords /\ DOMAIN k_buf[active_bank] = KVWords
        /\ batch \in Batches /\ q_tile_idx \in QTiles /\ k_tile_idx \in KTiles
    BY <1>p DEF FeedInv, FsmTypeOK, FillInv, LoadTypeOK, MasterTypeOK, InputTypeOK
  <2>5. PairOf(batch, Slot(0)) + 1 \in QWords /\ PairOf(batch, Slot(0)) \in Nat
    BY <2>1, <2>4, PairsOfBatch, CoreAssumption DEF Pairs, QWords
  <2>6. Key(0) + 1 \in KVWords /\ Key(0) \in Nat
    BY <2>1, TKType DEF TK, KVWords
  <2>7. QAddr(q_tile_idx) \in Nat /\ KAddr(k_tile_idx) \in Nat
    BY <2>4, CoreAssumption DEF QAddr, KAddr, QTiles, KTiles
  <2>8. q_buf[PairOf(batch, Slot(0)) + 1] = QAddr(q_tile_idx) + PairOf(batch, Slot(0))
    BY <2>3, <2>4, <2>5, <2>7 DEF HoldsTile
  <2>9. k_buf[active_bank][Key(0) + 1] = KAddr(k_tile_idx) + Key(0)
    BY <2>3, <2>4, <2>6, <2>7 DEF HoldsTile
  <2>10. /\ Job.q = q_tile_idx /\ Job.k = k_tile_idx /\ Job.b = batch
    BY DEF Job
  <2> QED
    BY <2>2, <2>8, <2>9, <2>10 DEF IssuedChunk, ChunkAt
<1> QED
  BY <1>1, <1>2

LEMMA KeepDot ==
  ASSUME FlowInv, PipeClock
  PROVE  DotInv'
<1> DEFINE D(i) == IF UnderWay(i) THEN ChunkAt(Job, Slot(i), Key(i), Chunk(i)) ELSE Nothing
           x == IF qk_issue_valid THEN IssuedChunk ELSE Nothing
<1>1. dot_pipe' = ShiftedIn(x, dot_pipe)
  BY ClockEdge DEF FlowInv, DotTick, ShiftedIn
<1>2. x = D(0)
  BY IssuedNow
<1>3. \A i \in 0 .. QK_LAT - 1 : D(i + 1)' = D(i)
  <2> SUFFICES ASSUME NEW i \in 0 .. QK_LAT - 1
               PROVE  (IF UnderWay(i + 1)' THEN ChunkAt(Job', Slot(i + 1)', Key(i + 1)', Chunk(i + 1)')
                       ELSE Nothing) = D(i)
    BY DEF ChunkAt
  <2>1. i \in Nat /\ i \in 0 .. 14
    BY DEF QK_LAT
  <2>2. CASE UnderWay(i + 1)'
    BY <2>1, <2>2, SameIssue
  <2>3. CASE ~UnderWay(i + 1)'
    BY <2>1, <2>3, EdgeMoves
  <2> QED
    BY <2>2, <2>3
<1>4. dot_pipe = [i \in 1 .. QK_LAT |-> D(i)]
  BY DEF FlowInv, DotInv
<1> HIDE DEF x
<1>5. /\ dot_pipe' = [i \in 1 .. QK_LAT |-> dot_pipe'[i]]
      /\ dot_pipe'[1] = x
      /\ \A i \in 1 .. QK_LAT - 1 : dot_pipe'[i + 1] = dot_pipe[i]
  BY <1>1, ShiftIn
<1>6. \A i \in 1 .. QK_LAT - 1 : dot_pipe[i] = D(i)
  BY <1>4 DEF QK_LAT
<1>7. \A i \in 0 .. QK_LAT - 1 : dot_pipe'[i + 1] = D(i)
  BY <1>2, <1>5, <1>6 DEF QK_LAT
<1>8. \A i \in 1 .. QK_LAT : dot_pipe'[i] = D(i)'
  <2> SUFFICES ASSUME NEW i \in 1 .. QK_LAT PROVE dot_pipe'[i] = D(i)'
    OBVIOUS
  <2>1. i - 1 \in 0 .. QK_LAT - 1 /\ (i - 1) + 1 = i
    BY DEF QK_LAT
  <2>2. dot_pipe'[i] = D(i - 1)
    BY <1>7, <2>1
  <2>3. D((i - 1) + 1)' = D(i - 1)
    BY <1>3, <2>1
  <2> QED
    BY <2>1, <2>2, <2>3
<1>9. dot_pipe' = [i \in 1 .. QK_LAT |-> D(i)']
  BY <1>5, <1>8
<1> QED
  BY <1>9 DEF DotInv
-----------------------------------------------------------------------------
LEMMA KeepTag ==
  ASSUME FlowInv, PipeClock
  PROVE  TagInv'
<1> SUFFICES ASSUME NEW i \in 1 .. QK_LAT, UnderWay(i)'
             PROVE  qk_tag'[i] = [slot |-> Slot(i)', kj |-> Key(i)',
                                  last |-> Ends(dp_chunks', comp_t' - i)]
  BY DEF TagInv, Ends, ChunkOf
<1> DEFINE r == i - 1
           tag == [slot |-> qk_issue_slot, kj |-> qk_issue_kj, last |-> LastChunk]
<1>1. r \in Nat /\ r \in 0 .. 7 /\ i = r + 1
  BY DEF QK_LAT
<1> HIDE DEF r
<1>2. /\ UnderWay(r) /\ PipeRun /\ dp_chunks' = dp_chunks /\ comp_t' - i = comp_t - r
      /\ Slot(i)' = Slot(r) /\ Key(i)' = Key(r)
  BY <1>1, SameIssue
<1>3. qk_tag' = ShiftedIn(tag, qk_tag)
  BY <1>2 DEF PipeRun, TagTick, ShiftedIn
<1>4. qk_tag'[1] = tag /\ \A n \in 1 .. QK_LAT - 1 : qk_tag'[n + 1] = qk_tag[n]
  <2> HIDE DEF tag
  <2> QED
    BY <1>3, ShiftIn
<1>5. CASE r = 0
  <2>1. cs = "C_DP_RUN" /\ UnderWay(0) /\ qk_tag'[i] = tag
    BY <1>1, <1>2, <1>4, <1>5 DEF PipeRun
  <2>2. qk_issue_slot = Slot(0) /\ qk_issue_kj = Key(0) /\ qk_issue_chunk = Chunk(0)
    BY <2>1 DEF FlowInv, IssueInv
  <2>3. LastChunk = Ends(dp_chunks, comp_t - 0)
    BY <2>2 DEF LastChunk, Ends, Chunk
  <2> QED
    BY <1>2, <1>5, <2>1, <2>2, <2>3
<1>6. CASE r # 0
  <2>1. r \in 1 .. QK_LAT - 1 /\ r \in 1 .. QK_LAT
    BY <1>1, <1>6 DEF QK_LAT
  <2>2. qk_tag[r] = [slot |-> Slot(r), kj |-> Key(r), last |-> Ends(dp_chunks, comp_t - r)]
    BY <1>2, <2>1 DEF FlowInv, TagInv
  <2>3. qk_tag'[i] = qk_tag[r]
    BY <1>1, <1>4, <2>1
  <2> QED
    BY <1>2, <2>2, <2>3
<1> QED
  BY <1>5, <1>6

(* Chunks that leave the dot product, in pairs where there are two.         *)
LEMMA OneProduct ==
  ASSUME NEW j, NEW s, NEW k
  PROVE  Product(j, s, k, 1) = <<ChunkAt(j, s, k, 0)>>
<1>1. \A i \in 1 .. 1 : i = 1 /\ i - 1 = 0
  OBVIOUS
<1> QED
  BY <1>1 DEF Product

LEMMA AppendTwo ==
  ASSUME NEW a, NEW b
  PROVE  Append(<<a>>, b) = <<a, b>>
<1>1. /\ <<a, b>> \in Seq({a, b}) /\ Len(<<a, b>>) = 2
      /\ Append(<<a>>, b) \in Seq({a, b}) /\ Len(Append(<<a>>, b)) = 2
      /\ Append(<<a>>, b)[1] = a /\ Append(<<a>>, b)[2] = b
  OBVIOUS
<1>2. \A i \in 1 .. 2 : Append(<<a>>, b)[i] = <<a, b>>[i]
  BY <1>1
<1> QED
  BY <1>1, <1>2, SeqEqual

Score(s, k, d) == [slot |-> s, kj |-> k, dot |-> d]
WithHalf(score, x) == [score EXCEPT !.dot = Append(@, x)]

LEMMA SecondHalf ==
  ASSUME NEW s, NEW k, NEW d, NEW x
  PROVE  WithHalf(Score(s, k, d), x) = Score(s, k, Append(d, x))
BY DEF WithHalf, Score

LEMMA TwoProducts ==
  ASSUME NEW j, NEW s, NEW k
  PROVE  Product(j, s, k, 2) = Append(Product(j, s, k, 1), ChunkAt(j, s, k, 1))
<1>1. Product(j, s, k, 1) = <<ChunkAt(j, s, k, 0)>>
  BY OneProduct
<1>2. Append(<<ChunkAt(j, s, k, 0)>>, ChunkAt(j, s, k, 1))
        = <<ChunkAt(j, s, k, 0), ChunkAt(j, s, k, 1)>>
  BY AppendTwo
<1>3. Product(j, s, k, 2) = <<ChunkAt(j, s, k, 0), ChunkAt(j, s, k, 1)>>
  <2>1. \A i \in 1 .. 2 : (i = 1 /\ i - 1 = 0) \/ (i = 2 /\ i - 1 = 1)
    OBVIOUS
  <2> QED
    BY <2>1 DEF Product
<1> QED
  BY <1>1, <1>2, <1>3

LEMMA NotNothing ==
  /\ \A j, s, k, i : ChunkAt(j, s, k, i) # Nothing
  /\ \A s, k, d : [slot |-> s, kj |-> k, dot |-> d] # Nothing
BY DEF ChunkAt, Nothing

(* What comes out of the dot product, and what waits for it.                *)
LEMMA Returning ==
  ASSUME FlowInv
  PROVE  /\ UnderWay(8) => /\ dp_partial = ChunkAt(Job, Slot(8), Key(8), Chunk(8))
                           /\ qk_tag[8].slot = Slot(8) /\ qk_tag[8].kj = Key(8)
                           /\ qk_tag[8].last <=> Scored(8)
         /\ ~UnderWay(8) => dp_partial = Nothing
         /\ ~UnderWay(8) => ~(UnderWay(9) /\ ~Scored(9))
         /\ UnderWay(8) /\ UnderWay(9) /\ ~Scored(9) =>
              /\ dp_chunks = 2 /\ Scored(8)
              /\ Slot(8) = Slot(9) /\ Key(8) = Key(9) /\ Chunk(8) = 1
         /\ UnderWay(8) /\ ~(UnderWay(9) /\ ~Scored(9)) /\ Scored(8) =>
              dp_chunks = 1 /\ Chunk(8) = 0
         /\ UnderWay(8) /\ ~Scored(8) => Chunk(8) = 0 /\ ~(UnderWay(9) /\ ~Scored(9))
<1> DEFINE c == dp_chunks
           n == comp_t - 9
           N == IssuesOf(dp_chunks)
<1>p. c \in {1, 2} /\ N \in Nat \ {0} /\ (cs = "C_DP_RUN" => comp_t \in 0 .. N + 14)
  BY Parameters DEF FlowInv, ClockInv
<1>1. dp_partial = IF UnderWay(8) THEN ChunkAt(Job, Slot(8), Key(8), Chunk(8)) ELSE Nothing
  BY DEF FlowInv, DotInv, dp_partial, QK_LAT
<1>2. UnderWay(8) => /\ qk_tag[8].slot = Slot(8) /\ qk_tag[8].kj = Key(8)
                     /\ qk_tag[8].last <=> Scored(8)
  BY DEF FlowInv, TagInv, QK_LAT, Scored
<1>3. ~UnderWay(8) => ~(UnderWay(9) /\ ~Scored(9))
  <2> SUFFICES ASSUME ~UnderWay(8), UnderWay(9) PROVE Scored(9)
    OBVIOUS
  <2>1. n = N - 1
    BY <1>p DEF UnderWay
  <2>2. 3 \in Slots /\ n \in 0 .. N - 1
    BY <1>p, <2>1, FourSlots
  <2>3. n = LastOf(c, 3)
    BY <1>p, <2>1, <2>2, LastScores
  <2>4. Ends(c, n)
    BY <1>p, <2>2, <2>3, LastScores
  <2> QED
    BY <2>4 DEF Scored
<1>4. ASSUME UnderWay(8), UnderWay(9), ~Scored(9)
      PROVE  /\ dp_chunks = 2 /\ Scored(8)
             /\ Slot(8) = Slot(9) /\ Key(8) = Key(9) /\ Chunk(8) = 1
  <2>1. n \in Nat /\ comp_t - 8 = n + 1 /\ ~Ends(c, n)
    BY <1>p, <1>4 DEF UnderWay, Scored
  <2>2. /\ c = 2 /\ Ends(c, n + 1) /\ SlotOf(c, n + 1) = SlotOf(c, n)
        /\ KeyOf(c, n + 1) = KeyOf(c, n)
    BY <1>p, <2>1, HalvesMeet
  <2>3. ChunkOf(c, n + 1) = 1
    BY <2>2 DEF Ends
  <2> QED
    BY <1>4, <2>1, <2>2, <2>3 DEF Scored, Slot, Key, Chunk
<1>5. ASSUME UnderWay(8), ~(UnderWay(9) /\ ~Scored(9)), Scored(8)
      PROVE  dp_chunks = 1 /\ Chunk(8) = 0
  <2>1. comp_t - 8 \in Nat /\ Ends(c, comp_t - 8) /\ (comp_t - 8) - 1 = n
    BY <1>p, <1>5 DEF UnderWay, Scored
  <2>2. c = 2 => comp_t - 8 # 0 /\ ~Ends(c, n)
    BY <1>p, <2>1, HalvesMeet
  <2>3. c # 2
    BY <1>p, <1>5, <2>1, <2>2 DEF UnderWay, Scored
  <2>4. ChunkOf(c, comp_t - 8) = c - 1
    BY <2>1 DEF Ends
  <2> QED
    BY <1>p, <2>3, <2>4 DEF Chunk
<1>6. ASSUME UnderWay(8), ~Scored(8)
      PROVE  Chunk(8) = 0 /\ ~(UnderWay(9) /\ ~Scored(9))
  <2>1. comp_t - 8 \in Nat /\ ~Ends(c, comp_t - 8)
    BY <1>p, <1>6 DEF UnderWay, Scored
  <2>2. ChunkOf(c, comp_t - 8) = 0
    BY <1>p, <2>1, HalvesMeet
  <2> QED
    BY <1>4, <1>6, <2>2 DEF Chunk
<1> QED
  BY <1>1, <1>2, <1>3, <1>4, <1>5, <1>6

LEMMA KeepReturn ==
  ASSUME FlowInv, PipeClock
  PROVE  FirstInv' /\ ScoreInv'
<1> DEFINE Half == UnderWay(9) /\ ~Scored(9)
<1>1. CASE PipeRun
  <2>1. /\ cs = "C_DP_RUN" /\ cs' = "C_DP_RUN" /\ ReturnTick /\ Job' = Job /\ dp_chunks' = dp_chunks
    BY <1>1, EdgeKinds DEF PipeRun, PipeBatchEnd, PipeIdle, PipeDone
  <2>2. /\ UnderWay(9)' <=> UnderWay(8)
        /\ UnderWay(9)' => /\ Slot(9)' = Slot(8) /\ Key(9)' = Key(8)
                           /\ Scored(9)' <=> Scored(8)
    <3>1. 8 \in Nat /\ 8 \in 0 .. 14 /\ 8 + 1 = 9
      OBVIOUS
    <3>2. UnderWay(8) => UnderWay(8 + 1)'
      BY <3>1, EdgeMoves
    <3>3. UnderWay(8 + 1)' => /\ UnderWay(8) /\ Slot(8 + 1)' = Slot(8) /\ Key(8 + 1)' = Key(8)
                              /\ Scored(8 + 1)' <=> Scored(8)
      BY <3>1, SameIssue
    <3> QED
      BY <3>1, <3>2, <3>3
  <2>3. ret_first = IF Half
                    THEN [slot |-> Slot(9), kj |-> Key(9), dot |-> Product(Job, Slot(9), Key(9), 1)]
                    ELSE Nothing
    BY <2>1 DEF FlowInv, FirstInv
  <2>4. ret_first # Nothing <=> Half
    BY <2>3, NotNothing
  <2> SUFFICES
        /\ ret_first' = IF UnderWay(8) /\ ~Scored(8)
                        THEN [slot |-> Slot(8), kj |-> Key(8), dot |-> Product(Job, Slot(8), Key(8), 1)]
                        ELSE Nothing
        /\ score_issue' =
             IF UnderWay(8) /\ Scored(8)
             THEN [slot |-> Slot(8), kj |-> Key(8),
                   dot |-> Product(Job, Slot(8), Key(8), dp_chunks)]
             ELSE Nothing
    <3>1. Scored(9)' => UnderWay(9)'
      BY DEF Scored
    <3> QED
      BY <2>1, <2>2, <3>1 DEF FirstInv, ScoreInv, Product, ChunkAt
  <2>5. CASE ~UnderWay(8)
    BY <2>1, <2>4, <2>5, Returning, <2>3 DEF ReturnTick
  <2>6. CASE UnderWay(8) /\ Half
    <3>1. /\ dp_partial = ChunkAt(Job, Slot(8), Key(8), 1) /\ dp_partial # Nothing
          /\ dp_chunks = 2 /\ Scored(8) /\ Slot(8) = Slot(9) /\ Key(8) = Key(9)
      BY <2>6, Returning, NotNothing
    <3>2. /\ ret_first # Nothing
          /\ ret_first = [slot |-> Slot(8), kj |-> Key(8), dot |-> Product(Job, Slot(8), Key(8), 1)]
      BY <2>3, <2>4, <2>6, <3>1
    <3>3. /\ ret_first' = Nothing
          /\ score_issue' = [ret_first EXCEPT !.dot = Append(@, dp_partial)]
      BY <2>1, <3>1, <3>2 DEF ReturnTick
    <3>4. ret_first = Score(Slot(8), Key(8), Product(Job, Slot(8), Key(8), 1))
      BY <3>2 DEF Score
    <3>5. score_issue' = WithHalf(ret_first, dp_partial)
      BY <3>3 DEF WithHalf
    <3>6. score_issue' = Score(Slot(8), Key(8), Append(Product(Job, Slot(8), Key(8), 1), dp_partial))
      BY <3>4, <3>5, SecondHalf
    <3> QED
      BY <2>6, <3>1, <3>3, <3>6, TwoProducts DEF Score
  <2>7. CASE UnderWay(8) /\ ~Half /\ Scored(8)
    <3>1. /\ dp_partial = ChunkAt(Job, Slot(8), Key(8), 0) /\ dp_partial # Nothing
          /\ dp_chunks = 1 /\ ret_first = Nothing /\ qk_tag[QK_LAT].last
          /\ qk_tag[QK_LAT].slot = Slot(8) /\ qk_tag[QK_LAT].kj = Key(8)
      BY <2>3, <2>7, Returning, NotNothing DEF QK_LAT
    <3>2. /\ ret_first' = Nothing
          /\ score_issue' = [slot |-> Slot(8), kj |-> Key(8), dot |-> <<dp_partial>>]
      BY <2>1, <3>1 DEF ReturnTick
    <3> QED
      BY <2>7, <3>1, <3>2, OneProduct
  <2>8. CASE UnderWay(8) /\ ~Scored(8)
    <3>1. /\ dp_partial = ChunkAt(Job, Slot(8), Key(8), 0) /\ dp_partial # Nothing
          /\ ret_first = Nothing /\ ~qk_tag[QK_LAT].last
          /\ qk_tag[QK_LAT].slot = Slot(8) /\ qk_tag[QK_LAT].kj = Key(8)
      BY <2>3, <2>8, Returning, NotNothing DEF QK_LAT
    <3>2. /\ ret_first' = [slot |-> Slot(8), kj |-> Key(8), dot |-> <<dp_partial>>]
          /\ score_issue' = Nothing
      BY <2>1, <3>1 DEF ReturnTick
    <3> QED
      BY <2>8, <3>1, <3>2, OneProduct
  <2> QED
    BY <2>5, <2>6, <2>7, <2>8
<1>2. CASE ~PipeRun
  <2>1. ~UnderWay(9)' /\ ~Scored(9)'
    <3>1. 8 \in Nat /\ 8 + 1 = 9
      OBVIOUS
    <3> QED
      BY <1>2, <3>1, EdgeMoves DEF Scored
  <2>2. cs' = "C_DP_RUN" => ret_first' = Nothing
    BY <1>2, NewBatch
  <2>3. score_issue' = Nothing
    <3>1. CASE PipeBatchEnd
      <4>1. comp_t = IssuesOf(dp_chunks) + 14 /\ IssuesOf(dp_chunks) \in Nat
        BY <3>1, EdgeKinds, Parameters DEF FlowInv, PipeBatchEnd, PipeRun, PipeIdle, PipeDone
      <4>2. ~UnderWay(8)
        BY <4>1 DEF UnderWay
      <4>3. dp_partial = Nothing
        BY <4>2, Returning
      <4> QED
        BY <3>1, <4>3 DEF PipeBatchEnd, ReturnTick
    <3>2. CASE PipeIdle \/ PipeDone
      BY <3>2 DEF PipeIdle, PipeDone
    <3> QED
      BY <1>2, <3>1, <3>2, EdgeKinds
  <2> QED
    BY <2>1, <2>2, <2>3 DEF FirstInv, ScoreInv
<1> QED
  BY <1>1, <1>2
-----------------------------------------------------------------------------
(* ---- The softmax contexts ---- *)

LEMMA ContextType ==
  ASSUME FlowInv, NEW s \in Slots
  PROVE  /\ PairOf(batch, s) \in Pairs /\ PairCtx(s) \in Seq(AllTerms)
         /\ Job \in Jobs /\ Job.b = batch /\ Job.q = q_tile_idx /\ Job.k = k_tile_idx
         /\ Job.c = dp_chunks
<1>1. batch \in Batches
  BY DEF FlowInv, FeedInv, FsmTypeOK
<1>2. PairOf(batch, s) \in Pairs
  BY <1>1, PairsOfBatch
<1>3. PairCtx(s) \in Seq(AllTerms)
  BY <1>2 DEF FlowInv, CtxInv, PairCtx
<1>4. Job \in Jobs
  BY Parameters DEF FlowInv
<1> QED
  BY <1>2, <1>3, <1>4 DEF Job

(* While a row of the batch is written back, no score of it is under way.   *)
LEMMA OthersUnderWay ==
  ASSUME FlowInv, RowDone, cs = "C_DP_RUN", NEW r \in 9 .. 17, Scored(r),
         r = 15 => Key(r) # TK - 1
  PROVE  sm_out.ctx # Slot(r)
<1> DEFINE c == dp_chunks
<1>p. FeedInv /\ c \in {1, 2} /\ IssuesOf(c) \in Nat /\ comp_t \in Int
  BY Parameters DEF FlowInv, ClockInv
<1>1. Scored(15) /\ Key(15) = TK - 1 /\ sm_out.ctx = Slot(15)
  BY FinishedSlots
<1> SUFFICES ASSUME Slot(15) = Slot(r) PROVE FALSE
  BY <1>1
<1>2. /\ comp_t - r \in Nat /\ comp_t - 15 \in Nat /\ Key(r) \in 0 .. TK - 1
      /\ Ends(c, comp_t - r) /\ Ends(c, comp_t - 15)
  BY <1>p, <1>1, IssueType DEF Scored
<1>3. SlotOf(c, comp_t - r) = SlotOf(c, comp_t - 15)
  BY DEF Slot
<1>4. CASE r < 15
  <2>1. 15 - r \in 1 .. 7 /\ comp_t - r = (comp_t - 15) + (15 - r)
    BY <1>p, <1>4
  <2>2. KeyOf(c, (comp_t - 15) + (15 - r)) = KeyOf(c, comp_t - 15) + 1
    BY <1>p, <1>2, <1>3, <2>1, SlotsApart
  <2>3. Key(r) = TK
    BY <1>1, <2>1, <2>2, TKType DEF Key
  <2> QED
    BY <1>2, <2>3, TKType
<1>5. CASE r > 15
  <2>1. r - 15 \in 1 .. 7 /\ comp_t - 15 = (comp_t - r) + (r - 15) /\ r - 15 # 4
    BY <1>p, <1>5
  <2>2. r - 15 = 4
    BY <1>p, <1>2, <1>3, <2>1, SlotsApart
  <2> QED
    BY <2>1, <2>2
<1>6. CASE r = 15
  BY <1>1, <1>6
<1> QED
  BY <1>4, <1>5, <1>6

(* The contexts the scores under way go into keep still.                    *)
LEMMA ContextKept ==
  ASSUME FlowInv, PipeClock, NEW r \in 9 .. 17, Scored(r), UnderWay(r + 1)',
         r = 15 => Key(r) # TK - 1
  PROVE  Prior(r + 1)' = Prior(r) /\ Including(r + 1)' = Including(r)
<1>1. /\ PipeRun /\ Job' = Job /\ cs = "C_DP_RUN" /\ batch' = batch
  <2>1. r \in Nat
    OBVIOUS
  <2> QED
    BY <2>1, SameIssue DEF PipeRun
<1>2. Slot(r) \in Slots
  BY IssueType DEF FlowInv, Scored
<1>3. PairOf(batch, Slot(r)) \in Pairs
  BY <1>2, ContextType
<1>4. /\ PairTick(FALSE) /\ pair_ctx \in [Pairs -> Seq(AllTerms)]
  BY <1>1, ClockEdge DEF FlowInv, CtxInv
<1>5. pair_ctx'[PairOf(batch, Slot(r))] = pair_ctx[PairOf(batch, Slot(r))]
  <2>1. CASE RowDone
    <3>1. sm_out.ctx # Slot(r) /\ sm_out.ctx \in Slots
      BY <1>1, <2>1, OthersUnderWay, FinishedSlots, IssueType DEF FlowInv, Scored
    <3>2. PairOf(batch, sm_out.ctx) # PairOf(batch, Slot(r))
      BY <1>2, <3>1, PairsOfBatch DEF FlowInv, FeedInv, FsmTypeOK
    <3> QED
      BY <1>1, <1>3, <1>4, <2>1, <3>2 DEF PairTick
  <2>2. CASE ~RowDone
    BY <1>4, <2>2 DEF PairTick
  <2> QED
    BY <2>1, <2>2
<1>6. Slot(r + 1)' = Slot(r) /\ Key(r + 1)' = Key(r)
  <2>1. r \in Nat
    OBVIOUS
  <2> QED
    BY <2>1, SameIssue
<1>7. PairCtx(Slot(r + 1))' = PairCtx(Slot(r))
  BY <1>1, <1>5, <1>6 DEF PairCtx, PairOf
<1> QED
  BY <1>1, <1>6, <1>7 DEF Prior, Including, Upto, TermOf, Product, ChunkAt, MaskedAt
-----------------------------------------------------------------------------
LEMMA StageContent ==
  ASSUME FlowInv, NEW i \in 1 .. 5
  PROVE  /\ Scored(9 + i) => stage[i] = StageOf(9 + i) /\ stage[i].ctx = Slot(9 + i)
         /\ ~Scored(9 + i) => stage[i] = Nothing /\ stage[i].ctx = CTX_COUNT
<1>1. stage[i] = IF Scored(9 + i) THEN StageOf(9 + i) ELSE Nothing
  BY DEF FlowInv, StageInv
<1> QED
  BY <1>1 DEF StageOf, Nothing

LEMMA SumOfStage ==
  ASSUME FlowInv, NEW r \in Nat, Scored(r)
  PROVE  Sum(StageOf(r)) = Including(r) /\ Including(r) \in Seq(AllTerms)
<1>1. Slot(r) \in Slots /\ Key(r) \in 0 .. TK - 1
  BY IssueType DEF FlowInv, Scored
<1>2. PairCtx(Slot(r)) \in Seq(AllTerms) /\ Job \in Jobs
  BY <1>1, ContextType
<1>3. Append(Prior(r), TermOf(Job, Slot(r), Key(r))) = Including(r)
  BY <1>1, <1>2, UptoNext DEF Prior, Including
<1>4. Key(r) + 1 \in 0 .. TK
  BY <1>1, TKType
<1>5. Including(r) \in Seq(AllTerms)
  BY <1>1, <1>2, <1>4, UptoTerms DEF Including
<1> QED
  BY <1>3, <1>5 DEF Sum, StageOf

(* A score of the same row more than four issues ago is not in s3 or s4,    *)
(* and none at all is in s0 .. s2.                                          *)
LEMMA RowsInStages ==
  ASSUME FlowInv, Scored(9), NEW i \in 1 .. 5, stage[i].ctx = Slot(9)
  PROVE  i = 4 /\ dp_chunks = 1
<1> DEFINE c == dp_chunks
<1>p. FeedInv /\ c \in {1, 2} /\ IssuesOf(c) \in Nat /\ comp_t \in Int
  BY Parameters DEF FlowInv, ClockInv
<1>1. Slot(9) # CTX_COUNT
  BY <1>p, IssueType DEF Scored
<1>2. Scored(9 + i) /\ Slot(9 + i) = Slot(9)
  BY <1>1, StageContent
<1>3. /\ comp_t - (9 + i) \in Nat /\ Ends(c, comp_t - (9 + i)) /\ Ends(c, comp_t - 9)
      /\ SlotOf(c, comp_t - (9 + i)) = SlotOf(c, comp_t - 9)
  BY <1>p, <1>2, IssueType DEF Scored, Slot
<1>4. comp_t - 9 = (comp_t - (9 + i)) + i /\ i \in 1 .. 7
  BY <1>p
<1> QED
  BY <1>p, <1>3, <1>4, SlotsApart

(* A score starts from its predecessor: out of s3 when a dot product is one *)
(* chunk, out of the stored context when it is two.                         *)
LEMMA ForwardedIsPrior ==
  ASSUME FlowInv, Scored(9), Key(9) # 0
  PROVE  Forwarded(Slot(9)) = Prior(9)
<1> DEFINE c == dp_chunks
           n == comp_t - 9
           r == 9 + 4 * c
<1>p. FeedInv /\ c \in {1, 2} /\ IssuesOf(c) \in Nat /\ comp_t \in Int /\ cs = "C_DP_RUN"
  BY Parameters DEF FlowInv, ClockInv, Scored, UnderWay
<1>1. /\ n \in Nat /\ n \in 0 .. IssuesOf(c) - 1 /\ Ends(c, n) /\ KeyOf(c, n) # 0
      /\ Slot(9) \in Slots /\ Key(9) \in 0 .. TK - 1
  BY <1>p, IssueType DEF Scored, UnderWay, Key
<1>2. /\ n - 4 * c \in Nat /\ Ends(c, n - 4 * c)
      /\ SlotOf(c, n - 4 * c) = SlotOf(c, n) /\ KeyOf(c, n - 4 * c) = KeyOf(c, n) - 1
  BY <1>p, <1>1, KeyBefore
<1>3. r \in Nat /\ comp_t - r = n - 4 * c
  BY <1>p
<1>4. Scored(r) /\ Slot(r) = Slot(9) /\ Key(r) = Key(9) - 1
  BY <1>p, <1>1, <1>2, <1>3 DEF Scored, UnderWay, Slot, Key
<1>5. Including(r) = Prior(9)
  <2>1. Key(r) + 1 = Key(9)
    BY <1>1, <1>4, TKType
  <2> QED
    BY <1>4, <2>1 DEF Including, Prior
<1>6. ~Holds(5, Slot(9))
  BY RowsInStages DEF Holds
<1>7. CASE c = 1
  <2>1. r = 9 + 4 /\ 4 \in 1 .. 5
    BY <1>7
  <2>2. stage[4] = StageOf(r) /\ stage[4].ctx = Slot(9)
    BY <1>4, <2>1, StageContent
  <2>3. Forwarded(Slot(9)) = Sum(stage[4])
    BY <1>6, <2>2 DEF Forwarded, Holds
  <2>4. Sum(StageOf(r)) = Including(r)
    BY <1>3, <1>4, SumOfStage
  <2> QED
    BY <1>5, <2>2, <2>3, <2>4
<1>8. CASE c = 2
  <2>1. ~Holds(4, Slot(9))
    BY <1>8, RowsInStages DEF Holds
  <2>2. r \in 15 .. 17 /\ Key(r) # TK - 1
    BY <1>1, <1>4, <1>8, TKType
  <2>3. ctx_state[Slot(r)] = Including(r)
    BY <1>4, <2>2 DEF FlowInv, StoredInv
  <2> QED
    BY <1>4, <1>5, <1>6, <2>1, <2>3 DEF Forwarded
<1> QED
  BY <1>p, <1>7, <1>8

LEMMA ScoreEnters ==
  ASSUME FlowInv, PipeClock
  PROVE  Entered(SoftmaxInput) = IF Scored(9) THEN StageOf(9) ELSE Nothing
<1> DEFINE in == SoftmaxInput
<1>1. CASE ~Scored(9)
  <2>1. in = Nothing
    BY <1>1 DEF FlowInv, ScoreInv, SoftmaxInput
  <2> QED
    BY <1>1, <2>1 DEF Entered, Nothing
<1>2. CASE Scored(9)
  <2>p. FeedInv /\ cs = "C_DP_RUN"
    BY <1>2 DEF FlowInv, Scored, UnderWay
  <2>1. Slot(9) \in Slots /\ Key(9) \in 0 .. TK - 1 /\ Slot(9) # CTX_COUNT
    BY <1>2, <2>p, IssueType DEF Scored
  <2>2. /\ score_issue = [slot |-> Slot(9), kj |-> Key(9),
                          dot |-> Product(Job, Slot(9), Key(9), dp_chunks)]
        /\ score_issue # Nothing
    BY <1>2, NotNothing DEF FlowInv, ScoreInv
  <2>3. /\ score_issue.slot = Slot(9) /\ score_issue.kj = Key(9)
        /\ score_issue.dot = Product(Job, Slot(9), Key(9), dp_chunks)
    BY <2>2
  <2>c. /\ PairCtx(Slot(9)) \in Seq(AllTerms)
        /\ Job \in Jobs /\ Job.b = batch /\ Job.q = q_tile_idx /\ Job.k = k_tile_idx
        /\ Job.c = dp_chunks
    BY <2>1, ContextType
  <2>4. v_buf[active_bank][Key(9) + 1] = VAddr(k_tile_idx) + Key(9)
    <3>1. HoldsTile(v_buf[active_bank], VAddr(k_tile_idx))
      BY <2>p, ClockEdge DEF OperandsWhole
    <3>2. DOMAIN v_buf[active_bank] = KVWords /\ k_tile_idx \in KTiles
      BY <2>p DEF FeedInv, FillInv, LoadTypeOK, MasterTypeOK, InputTypeOK
    <3>3. Key(9) + 1 \in KVWords /\ Key(9) \in Nat
      BY <2>1, TKType DEF TK, KVWords
    <3>4. VAddr(k_tile_idx) \in Nat
      BY <3>2, CoreAssumption DEF VAddr, KTiles
    <3> QED
      BY <3>1, <3>2, <3>3, <3>4 DEF HoldsTile
  <2>5. Masked(0) = MaskedAt(Job, Slot(9), Key(9), 0) /\ Masked(1) = MaskedAt(Job, Slot(9), Key(9), 1)
    BY <2>3, <2>c DEF Masked, MaskedAt
  <2>6. in = [ctx |-> Slot(9), start |-> Key(9) = 0, last |-> Key(9) = TK - 1,
              init |-> PairCtx(Slot(9)), term |-> TermOf(Job, Slot(9), Key(9))]
    <3>1. TermOf(Job, Slot(9), Key(9)) =
            [dot |-> score_issue.dot, v |-> v_buf[active_bank][score_issue.kj + 1],
             masked |-> <<Masked(0), Masked(1)>>]
      BY <2>3, <2>4, <2>5, <2>c DEF TermOf
    <3> QED
      BY <2>2, <2>3, <3>1 DEF SoftmaxInput, PairCtx
  <2>7. /\ in.ctx = Slot(9) /\ in.last = (Key(9) = TK - 1) /\ in.init = PairCtx(Slot(9))
        /\ in.term = TermOf(Job, Slot(9), Key(9)) /\ (in.start <=> Key(9) = 0)
    BY <2>6
  <2> HIDE DEF in
  <2>8. Previous(in) = Prior(9)
    <3>1. CASE Key(9) = 0
      BY <2>1, <2>7, <2>c, <3>1, UptoFirst DEF Previous, Prior
    <3>2. CASE Key(9) # 0
      BY <1>2, <2>7, <3>2, ForwardedIsPrior DEF Previous
    <3> QED
      BY <3>1, <3>2
  <2>9. Entered(in) = [ctx |-> in.ctx, last |-> in.last, term |-> in.term, prev |-> Previous(in)]
    BY <2>1, <2>7 DEF Entered
  <2> QED
    BY <1>2, <2>7, <2>8, <2>9 DEF StageOf, in
<1> QED
  BY <1>1, <1>2
-----------------------------------------------------------------------------
(* A score on its way from distance r to r + 1.                             *)
LEMMA ScoreMoves ==
  ASSUME FlowInv, PipeClock, NEW r \in Nat
  PROVE  /\ Scored(r + 1)' => Scored(r) /\ UnderWay(r + 1)'
         /\ r \in 0 .. 14 /\ Scored(r) => Scored(r + 1)' /\ UnderWay(r + 1)'
<1>1. Scored(r + 1)' => UnderWay(r + 1)'
  BY DEF Scored
<1>2. UnderWay(r + 1)' => (Scored(r + 1)' <=> Scored(r))
  BY SameIssue
<1>3. r \in 0 .. 14 /\ Scored(r) => UnderWay(r + 1)'
  BY EdgeMoves DEF Scored
<1> QED
  BY <1>1, <1>2, <1>3

LEMMA StageMoves ==
  ASSUME FlowInv, PipeClock, NEW r \in 9 .. 13
  PROVE  (IF Scored(r) THEN StageOf(r) ELSE Nothing)
           = (IF Scored(r + 1)' THEN StageOf(r + 1)' ELSE Nothing)
<1>1. r \in Nat /\ r \in 0 .. 14 /\ r \in 9 .. 17 /\ r # 15
  OBVIOUS
<1>2. CASE Scored(r)
  <2>1. Scored(r + 1)' /\ UnderWay(r + 1)'
    BY <1>1, <1>2, ScoreMoves
  <2>2. Slot(r + 1)' = Slot(r) /\ Key(r + 1)' = Key(r) /\ Job' = Job
    BY <1>1, <2>1, SameIssue
  <2>3. Prior(r + 1)' = Prior(r)
    BY <1>1, <1>2, <2>1, ContextKept
  <2>4. TermOf(Job, Slot(r + 1), Key(r + 1))' = TermOf(Job, Slot(r), Key(r))
    BY <2>2 DEF TermOf, Product, ChunkAt, MaskedAt
  <2>5. StageOf(r + 1)' = StageOf(r)
    BY <2>2, <2>3, <2>4 DEF StageOf
  <2> QED
    BY <1>2, <2>1, <2>5
<1>3. CASE ~Scored(r)
  BY <1>1, <1>3, ScoreMoves
<1> QED
  BY <1>2, <1>3

LEMMA KeepStage ==
  ASSUME FlowInv, PipeClock
  PROVE  StageInv'
<1> DEFINE L(i) == IF Scored(9 + i) THEN StageOf(9 + i) ELSE Nothing
<1>1. stage' = [i \in 1 .. 5 |-> IF i = 1 THEN Entered(SoftmaxInput) ELSE stage[i - 1]]
  BY ClockEdge DEF FlowInv, SoftmaxTick
<1>2. ASSUME NEW i \in 1 .. 5
      PROVE  stage'[i] = L(i)'
  <2>1. CASE i = 1
    <3>1. stage'[1] = IF Scored(9) THEN StageOf(9) ELSE Nothing
      BY <1>1, ScoreEnters
    <3>2. (IF Scored(9) THEN StageOf(9) ELSE Nothing)
            = IF Scored(9 + 1)' THEN StageOf(9 + 1)' ELSE Nothing
      BY StageMoves, 9 \in 9 .. 13
    <3> QED
      BY <2>1, <3>1, <3>2
  <2>2. CASE i # 1
    <3>1. i - 1 \in 1 .. 5 /\ 9 + (i - 1) \in 9 .. 13 /\ (9 + (i - 1)) + 1 = 9 + i
      BY <2>2
    <3>2. stage'[i] = stage[i - 1]
      BY <1>1, <2>2
    <3>3. stage[i - 1] = IF Scored(9 + (i - 1)) THEN StageOf(9 + (i - 1)) ELSE Nothing
      BY <3>1, StageContent
    <3>4. (IF Scored(9 + (i - 1)) THEN StageOf(9 + (i - 1)) ELSE Nothing)
            = IF Scored((9 + (i - 1)) + 1)' THEN StageOf((9 + (i - 1)) + 1)' ELSE Nothing
      BY <3>1, StageMoves
    <3> QED
      BY <3>1, <3>2, <3>3, <3>4
  <2> QED
    BY <2>1, <2>2
<1>3. stage' = [i \in 1 .. 5 |-> stage'[i]]
  BY <1>1
<1>4. stage' = [i \in 1 .. 5 |-> L(i)']
  BY <1>2, <1>3
<1> QED
  BY <1>4 DEF StageInv

(* What leaves the last stage.                                              *)
LEMMA Leaving ==
  ASSUME FlowInv, PipeClock
  PROVE  IF Scored(14)
         THEN /\ Scored(15)' /\ UnderWay(15)' /\ Slot(14) \in Slots
              /\ sm_out' = [ctx |-> Slot(14), done |-> Key(14) = TK - 1, sum |-> Including(14)]
              /\ ctx_state' = [ctx_state EXCEPT ![Slot(14)] = Including(14)]
              /\ Including(15)' = Including(14) /\ Slot(15)' = Slot(14) /\ Key(15)' = Key(14)
         ELSE ~Scored(15)' /\ sm_out' = Nothing /\ ctx_state' = ctx_state
<1>0. 14 \in Nat /\ 14 \in 0 .. 14 /\ 14 + 1 = 15 /\ 14 \in 9 .. 17 /\ 5 \in 1 .. 5 /\ 9 + 5 = 14
  OBVIOUS
<1>t. SoftmaxTick(SoftmaxInput)
  BY ClockEdge DEF FlowInv
<1>1. CASE Scored(14)
  <2>1. stage[5] = StageOf(14) /\ stage[5].ctx = Slot(14)
    BY <1>0, <1>1, StageContent
  <2>2. Slot(14) \in Slots /\ Slot(14) # CTX_COUNT
    BY <1>0, <1>1, IssueType DEF FlowInv, Scored
  <2>3. stage[5].last = (Key(14) = TK - 1)
    BY <2>1 DEF StageOf
  <2>4. Sum(stage[5]) = Including(14)
    BY <1>0, <1>1, <2>1, SumOfStage
  <2>5. Scored(14 + 1)' /\ UnderWay(14 + 1)'
    BY <1>0, <1>1, ScoreMoves
  <2>6. Including(14 + 1)' = Including(14) /\ Slot(14 + 1)' = Slot(14) /\ Key(14 + 1)' = Key(14)
    BY <1>0, <1>1, <2>5, ContextKept, SameIssue
  <2>7. /\ sm_out' = [ctx |-> stage[5].ctx, done |-> stage[5].last, sum |-> Sum(stage[5])]
        /\ ctx_state' = [ctx_state EXCEPT ![stage[5].ctx] = Sum(stage[5])]
    BY <1>t, <2>1, <2>2 DEF SoftmaxTick
  <2> QED
    BY <1>0, <1>1, <2>1, <2>2, <2>3, <2>4, <2>5, <2>6, <2>7
<1>2. CASE ~Scored(14)
  <2>1. stage[5].ctx = CTX_COUNT
    BY <1>0, <1>2, StageContent
  <2>2. ~Scored(14 + 1)'
    BY <1>0, <1>2, ScoreMoves
  <2>3. sm_out' = Nothing /\ ctx_state' = ctx_state
    BY <1>t, <2>1 DEF SoftmaxTick
  <2> QED
    BY <1>0, <1>2, <2>2, <2>3
<1> QED
  BY <1>1, <1>2

LEMMA KeepOut ==
  ASSUME FlowInv, PipeClock
  PROVE  OutInv'
BY Leaving DEF OutInv

LEMMA KeepStored ==
  ASSUME FlowInv, PipeClock
  PROVE  StoredInv'
<1>0. ctx_state = [s \in Slots |-> ctx_state[s]]
  BY DEF FlowInv, StoredInv
<1>1. ctx_state' = [s \in Slots |-> ctx_state'[s]]
  <2>1. CASE Scored(14)
    <3>1. ctx_state' = [ctx_state EXCEPT ![Slot(14)] = Including(14)] /\ Slot(14) \in Slots
      BY <2>1, Leaving
    <3> QED
      BY <1>0, <3>1
  <2>2. CASE ~Scored(14)
    BY <1>0, <2>2, Leaving
  <2> QED
    BY <2>1, <2>2
<1>2. ASSUME NEW d \in 15 .. 17, Scored(d)', Key(d)' # TK - 1
      PROVE  ctx_state'[Slot(d)'] = Including(d)'
  <2>1. CASE d = 15
    <3>1. Scored(14)
      BY <1>2, <2>1, Leaving
    <3> QED
      BY <1>0, <2>1, <3>1, Leaving
  <2>2. CASE d # 15
    <3> DEFINE r == d - 1
    <3>1. r \in Nat /\ r \in 15 .. 17 /\ r \in 9 .. 17 /\ d = r + 1
      BY <2>2
    <3> HIDE DEF r
    <3>2. Scored(r) /\ UnderWay(r + 1)'
      BY <1>2, <3>1, ScoreMoves
    <3>3. Slot(r + 1)' = Slot(r) /\ Key(r + 1)' = Key(r)
      BY <3>1, <3>2, SameIssue
    <3>4. Key(r) # TK - 1
      BY <1>2, <3>1, <3>3
    <3>5. Including(r + 1)' = Including(r)
      BY <3>1, <3>2, <3>4, ContextKept
    <3>6. ctx_state[Slot(r)] = Including(r)
      BY <3>1, <3>2, <3>4 DEF FlowInv, StoredInv
    <3>7. Slot(r) \in Slots
      BY <3>1, <3>2, IssueType DEF FlowInv, Scored
    <3>8. Scored(14) => Slot(14) # Slot(r)
      <4> SUFFICES ASSUME Scored(14), Slot(14) = Slot(r) PROVE FALSE
        OBVIOUS
      <4> DEFINE c == dp_chunks
      <4>p. FeedInv /\ c \in {1, 2} /\ IssuesOf(c) \in Nat /\ comp_t \in Int
        BY <3>2, Parameters DEF FlowInv, ClockInv, Scored, UnderWay
      <4>1. /\ comp_t - r \in Nat /\ Ends(c, comp_t - r) /\ Ends(c, comp_t - 14)
            /\ SlotOf(c, comp_t - r) = SlotOf(c, comp_t - 14)
        BY <4>p, <3>1, <3>2, IssueType DEF Scored, Slot
      <4>2. r \in {15, 16} /\ r - 14 \in 1 .. 7 /\ comp_t - 14 = (comp_t - r) + (r - 14)
        BY <3>1, <4>p
      <4>3. r - 14 = 4
        BY <4>p, <4>1, <4>2, SlotsApart
      <4> QED
        BY <4>2, <4>3
    <3>9. ctx_state'[Slot(r)] = ctx_state[Slot(r)]
      <4>1. CASE Scored(14)
        <5>1. ctx_state' = [ctx_state EXCEPT ![Slot(14)] = Including(14)]
          BY <4>1, Leaving
        <5> QED
          BY <1>0, <3>7, <3>8, <4>1, <5>1
      <4>2. CASE ~Scored(14)
        BY <4>2, Leaving
      <4> QED
        BY <4>1, <4>2
    <3> QED
      BY <3>1, <3>3, <3>5, <3>6, <3>9
  <2> QED
    BY <2>1, <2>2
<1> QED
  BY <1>1, <1>2 DEF StoredInv

LEMMA KeepMask ==
  ASSUME FlowInv, PipeClock
  PROVE  MaskInv'
<1> SUFFICES ASSUME cs' = "C_DP_RUN"
             PROVE  batch_done_mask' = {s \in Slots : comp_t' > LastOf(dp_chunks, s) + 15}
  BY EdgeKinds DEF MaskInv
<1>1. CASE PipeRun
  <2>1. cs = "C_DP_RUN" /\ comp_t' = comp_t + 1 /\ batch_done_mask' = batch_done_next
    BY <1>1, EdgeKinds DEF PipeRun, PipeBatchEnd, PipeIdle, PipeDone
  <2>2. batch_done_next = {s \in Slots : comp_t + 1 > LastOf(dp_chunks, s) + 15}
    BY <2>1, FinishedSlots
  <2> QED
    BY <2>1, <2>2
<1>2. CASE ~PipeRun
  <2>1. comp_t' = 0 /\ batch_done_mask' = {}
    BY <1>2, NewBatch
  <2>2. \A s \in Slots : LastOf(dp_chunks, s) \in Nat
    BY Parameters, LastScores DEF FlowInv
  <2>3. \A s \in Slots : ~(0 > LastOf(dp_chunks, s) + 15)
    BY <2>2
  <2> QED
    BY <2>1, <2>3
<1> QED
  BY <1>1, <1>2

LEMMA KeepCtx ==
  ASSUME FlowInv, PipeClock
  PROVE  CtxInv'
<1>1. PairTick(ms = "S_INIT_CONTEXT") /\ pair_ctx \in [Pairs -> Seq(AllTerms)]
  BY ClockEdge DEF FlowInv, CtxInv
<1>2. [p \in Pairs |-> <<>>] \in [Pairs -> Seq(AllTerms)]
  OBVIOUS
<1>3. ASSUME cs = "C_DP_RUN", RowDone
      PROVE  sm_out.sum \in Seq(AllTerms)
  <2>1. Scored(15) /\ sm_out.sum = Including(15)
    BY <1>3, FinishedSlots
  <2> QED
    BY <2>1, SumOfStage
<1>4. pair_ctx' \in [Pairs -> Seq(AllTerms)]
  BY <1>1, <1>2, <1>3 DEF PairTick
<1> QED
  BY <1>4 DEF CtxInv
-----------------------------------------------------------------------------
(* ---- The flow through a batch is an invariant ---- *)

LEMMA InitFlow == PipeInit => FlowInv
<1> SUFFICES ASSUME PipeInit PROVE FlowInv
  OBVIOUS
<1>1. cs = "C_IDLE" /\ comp_t = 0 /\ FeedInv
  BY InitFeed DEF PipeInit, Init
<1>2. \A r : ~UnderWay(r) /\ ~Scored(r)
  BY <1>1 DEF UnderWay, Scored
<1>3. ClockInv /\ IssueInv /\ TagInv /\ FirstInv /\ MaskInv
  BY <1>1, <1>2 DEF ClockInv, IssueInv, TagInv, FirstInv, MaskInv
<1>4. DotInv
  BY <1>2 DEF DotInv, PipeInit
<1>5. ScoreInv
  BY <1>2 DEF ScoreInv, PipeInit
<1>6. StageInv /\ OutInv /\ StoredInv
  BY <1>2 DEF StageInv, OutInv, StoredInv, PipeInit, SoftmaxInit
<1>7. CtxInv
  BY DEF CtxInv, PipeInit
<1> QED
  BY <1>1, <1>3, <1>4, <1>5, <1>6, <1>7 DEF FlowInv

LEMMA NextFlow == FlowInv /\ [PipeClock]_allVars => FlowInv'
<1> SUFFICES ASSUME FlowInv, [PipeClock]_allVars PROVE FlowInv'
  OBVIOUS
<1>1. FeedInv'
  BY NextFeed DEF FlowInv
<1>2. CASE PipeClock
  <2>1. ClockInv'
    BY <1>2, EdgeMoves
  <2>2. IssueInv' /\ DotInv' /\ TagInv'
    BY <1>2, KeepIssue, KeepDot, KeepTag
  <2>3. FirstInv' /\ ScoreInv'
    BY <1>2, KeepReturn
  <2>4. StageInv' /\ OutInv' /\ StoredInv'
    BY <1>2, KeepStage, KeepOut, KeepStored
  <2>5. MaskInv' /\ CtxInv'
    BY <1>2, KeepMask, KeepCtx
  <2> QED
    BY <1>1, <2>1, <2>2, <2>3, <2>4, <2>5 DEF FlowInv
<1>3. CASE UNCHANGED allVars
  <2>1. /\ UNCHANGED <<cs, comp_t, batch, q_tile_idx, k_tile_idx, dp_chunks, pair_ctx>>
        /\ UNCHANGED <<qk_issue_slot, qk_issue_kj, qk_issue_chunk, qk_issue_done>>
        /\ UNCHANGED <<qk_tag, dot_pipe, ret_first, score_issue, batch_done_mask>>
        /\ UNCHANGED <<stage, ctx_state, sm_out>>
    BY <1>3 DEF allVars, vars, masterVars, fsmVars, compVars, pipeVars, issueVars, returnVars,
                softmaxVars, fillVars, bankVars, pfVars, outVars, pulseVars, bufVars, readVars
  <2>2. Job' = Job
    BY <2>1 DEF Job
  <2>3. \A r : /\ Slot(r)' = Slot(r) /\ Key(r)' = Key(r) /\ Chunk(r)' = Chunk(r)
               /\ UnderWay(r)' = UnderWay(r) /\ Scored(r)' = Scored(r)
    BY <2>1 DEF Slot, Key, Chunk, UnderWay, Scored
  <2>4. ClockInv' /\ IssueInv' /\ TagInv' /\ MaskInv' /\ CtxInv'
    BY <2>1, <2>3 DEF FlowInv, ClockInv, IssueInv, TagInv, MaskInv, CtxInv
  <2>5. DotInv'
    BY <2>1 DEF FlowInv, DotInv, UnderWay, ChunkAt, Job, Slot, Key, Chunk
  <2>6. FirstInv' /\ ScoreInv'
    BY <2>1 DEF FlowInv, FirstInv, ScoreInv, Product, ChunkAt, Job, Slot, Key, Scored, UnderWay
  <2>7. StageInv' /\ OutInv' /\ StoredInv'
    BY <2>1 DEF FlowInv, StageInv, OutInv, StoredInv, StageOf, Prior, Including, PairCtx,
                Job, Slot, Key, Scored, UnderWay
  <2> QED
    BY <1>1, <2>4, <2>5, <2>6, <2>7 DEF FlowInv
<1> QED
  BY <1>2, <1>3

(* Two scores of one row never come closer than the forwarding of the       *)
(* softmax contexts allows: the issue order (slots inside keys) and the     *)
(* latencies of the dot product and of the return side put the earlier one  *)
(* in s3 or later when the next one is issued.                              *)
THEOREM ScoresKeepApart == PipeSpec => []ScoresApart
<1>1. FlowInv => ScoresApart
  <2> SUFFICES ASSUME FlowInv, score_issue # Nothing PROVE Apart(score_issue.slot)
    BY DEF ScoresApart
  <2>1. Scored(9) /\ score_issue.slot = Slot(9)
    BY DEF FlowInv, ScoreInv
  <2>2. \A i \in 1 .. 5 : stage[i].ctx = Slot(9) => i = 4
    BY <2>1, RowsInStages
  <2> QED
    BY <2>1, <2>2 DEF Apart, Holds
<1> QED
  BY <1>1, InitFlow, NextFlow, PTL DEF PipeSpec

(* The causal mask, worked out from counters when a score is issued, is the *)
(* mask of the row and key whose product is folded with it, in every term   *)
(* of every row context.                                                    *)
THEOREM MasksAreOfTheirKeys == PipeSpec => []MaskOfItsKey
<1>1. FlowInv => MaskOfItsKey
  <2> SUFFICES ASSUME FlowInv, NEW p \in Pairs, NEW i \in DOMAIN pair_ctx[p]
               PROVE  \A r \in {0, 1} :
                        pair_ctx[p][i].masked[r + 1] <=>
                          2 * (pair_ctx[p][i].dot[1].q - QBase) + r
                            < pair_ctx[p][i].dot[1].k - KBase
    BY DEF MaskOfItsKey
  <2>1. pair_ctx[p] \in Seq(AllTerms)
    BY DEF FlowInv, CtxInv
  <2>2. pair_ctx[p][i] \in AllTerms
    BY <2>1
  <2> QED
    BY <2>2, MasksOfTerms
<1> QED
  BY <1>1, InitFlow, NextFlow, PTL DEF PipeSpec
-----------------------------------------------------------------------------
(* ---- What the contexts amount to, tile by tile ---- *)

TileSeq == Seq(QTiles \X KTiles)

LEMMA Quotients ==
  ASSUME NEW n \in Nat, NEW K \in Nat \ {0}
  PROVE  /\ n * K \in Nat /\ (n + 1) * K = n * K + K
         /\ (n * K) \div K = n /\ (n * K) % K = 0
OBVIOUS

LEMMA QuotientAt ==
  ASSUME NEW n \in Nat, NEW K \in Nat \ {0}, NEW i \in 0 .. K - 1
  PROVE  (n * K + i) \div K = n /\ (n * K + i) % K = i
OBVIOUS

LEMMA QuotientBelow ==
  ASSUME NEW n \in Nat, NEW K \in Nat \ {0}, NEW m \in 0 .. n * K - 1
  PROVE  m \div K \in 0 .. n - 1
OBVIOUS

(* A term is the right one for its job.                                     *)
LEMMA RightTerms ==
  ASSUME NEW j \in Jobs, j.c = dp_chunks, NEW s, NEW k
  PROVE  RightTerm(TermOf(j, s, k), j.q, PairOf(j.b, s), j.k, k)
BY DEF RightTerm, TermOf, Product, ChunkAt

(* A context with all keys of a tile more amounts to a tile more.           *)
LEMMA AmountsMore ==
  ASSUME NEW j \in Jobs, j.c = dp_chunks, NEW s \in Slots, NEW h \in Seq(AllTerms),
         NEW tiles \in TileSeq, Amounts(h, PairOf(j.b, s), tiles)
  PROVE  /\ Amounts(Upto(j, h, s, TK), PairOf(j.b, s), Append(tiles, <<j.q, j.k>>))
         /\ Append(tiles, <<j.q, j.k>>) \in TileSeq
<1> DEFINE L == Len(tiles)
           p == PairOf(j.b, s)
           more == Append(tiles, <<j.q, j.k>>)
           z == Upto(j, h, s, TK)
<1>1. /\ L \in Nat /\ Len(more) = L + 1 /\ more[L + 1] = <<j.q, j.k>>
      /\ \A n \in 1 .. L : more[n] = tiles[n]
      /\ more \in TileSeq
  <2>1. <<j.q, j.k>> \in QTiles \X KTiles
    BY DEF Jobs
  <2> HIDE DEF L, more
  <2>2. tiles \in Seq(QTiles \X KTiles)
    BY DEF TileSeq
  <2> QED
    BY <2>1, <2>2, AppendProperties, LenProperties DEF L, more, TileSeq
<1>2. TK \in Nat \ {0} /\ Len(h) = L * TK /\ TK \in 0 .. TK
  BY TKType DEF Amounts
<1>3. L * TK \in Nat /\ (L + 1) * TK = L * TK + TK
  BY <1>1, <1>2, Quotients
<1>4. /\ z \in Seq(AllTerms) /\ Len(z) = L * TK + TK
      /\ \A i \in 1 .. L * TK + TK :
              z[i] = IF i <= L * TK THEN h[i] ELSE TermOf(j, s, i - L * TK - 1)
  <2>1. /\ z \in Seq(AllTerms) /\ Len(z) = Len(h) + TK
        /\ \A i \in 1 .. Len(h) + TK :
              z[i] = IF i <= Len(h) THEN h[i] ELSE TermOf(j, s, i - Len(h) - 1)
    BY <1>2, UptoTerms
  <2> HIDE DEF z
  <2> QED
    BY <1>2, <2>1
<1> HIDE DEF L, more, z
<1>5. DOMAIN z = 1 .. L * TK + TK /\ DOMAIN h = 1 .. L * TK
  BY <1>2, <1>4
<1>6. ASSUME NEW i \in 1 .. L * TK + TK
      PROVE  RightTerm(z[i], more[(i - 1) \div TK + 1][1], p, more[(i - 1) \div TK + 1][2],
                       (i - 1) % TK)
  <2>1. CASE i <= L * TK
    <3>1. i \in 1 .. L * TK /\ i - 1 \in 0 .. L * TK - 1
      BY <1>3, <2>1
    <3>2. (i - 1) \div TK \in 0 .. L - 1
      BY <1>1, <1>2, <3>1, QuotientBelow
    <3>3. (i - 1) \div TK + 1 \in 1 .. L
      BY <1>1, <3>2
    <3>4. more[(i - 1) \div TK + 1] = tiles[(i - 1) \div TK + 1] /\ z[i] = h[i]
      BY <1>1, <1>4, <2>1, <3>3
    <3>5. RightTerm(h[i], tiles[(i - 1) \div TK + 1][1], p, tiles[(i - 1) \div TK + 1][2],
                    (i - 1) % TK)
      BY <1>5, <3>1 DEF Amounts
    <3> QED
      BY <3>4, <3>5
  <2>2. CASE ~(i <= L * TK)
    <3> DEFINE k == i - L * TK - 1
    <3>1. k \in 0 .. TK - 1 /\ i - 1 = L * TK + k
      BY <1>2, <1>3, <2>2
    <3>2. (i - 1) \div TK = L /\ (i - 1) % TK = k
      <4> HIDE DEF k
      <4>1. (L * TK + k) \div TK = L /\ (L * TK + k) % TK = k
        BY <1>1, <1>2, <3>1, QuotientAt
      <4> QED
        BY <3>1, <4>1
    <3>3. more[(i - 1) \div TK + 1] = <<j.q, j.k>>
      BY <1>1, <3>2
    <3>4. z[i] = TermOf(j, s, k)
      BY <1>4, <2>2
    <3>5. RightTerm(TermOf(j, s, k), j.q, p, j.k, k)
      BY RightTerms
    <3> HIDE DEF k
    <3> QED
      BY <3>2, <3>3, <3>4, <3>5
  <2> QED
    BY <2>1, <2>2
<1>7. Amounts(z, p, more)
  BY <1>1, <1>3, <1>4, <1>5, <1>6 DEF Amounts
<1> QED
  BY <1>1, <1>7 DEF z, more

(* The first chunk of each tile tells which tiles a context is made of.     *)
LEMMA ClaimedTiles ==
  ASSUME dp_chunks \in {1, 2}, NEW p \in Pairs, NEW h, NEW tiles \in TileSeq,
         Amounts(h, p, tiles)
  PROVE  Claimed(h) = tiles
<1> DEFINE L == Len(tiles)
           B == BEATS_PER_TILE_Q
           First(n) == h[(n - 1) * TK + 1].dot[1]
           Tile(n) == <<(First(n).q - QBase) \div B, (First(n).k - KBase) \div TK>>
<1>0. TK \in Nat \ {0} /\ B \in Nat \ {0} /\ QBase \in Nat /\ KBase \in Nat /\ p \in 0 .. B - 1
  BY TKType, CoreAssumption DEF Pairs
<1>1. L \in Nat /\ \A n \in 1 .. L : tiles[n] \in QTiles \X KTiles
  BY DEF TileSeq
<1>2. Len(h) = L * TK /\ Len(h) \div TK = L
  <2>1. Len(h) = L * TK
    BY DEF Amounts
  <2> HIDE DEF L
  <2> QED
    BY <1>0, <1>1, <2>1, Quotients
<1>3. ASSUME NEW n \in 1 .. L
      PROVE  Tile(n) = tiles[n]
  <2> DEFINE i == (n - 1) * TK + 1
             q == tiles[n][1]
             k == tiles[n][2]
  <2>1. q \in Nat /\ k \in Nat /\ tiles[n] = <<q, k>>
    <3>1. tiles[n] \in QTiles \X KTiles
      BY <1>1
    <3> QED
      BY <3>1, CoreAssumption DEF QTiles, KTiles
  <2>2. n - 1 \in Nat /\ 0 \in 0 .. TK - 1
    BY <1>0, <1>1
  <2>3. (n - 1) * TK \in Nat /\ (n - 1) * TK + TK <= L * TK
    <3>1. (n - 1) * TK \in Nat /\ (n - 1) * TK + TK = n * TK
      <4>1. (n - 1) * TK \in Nat /\ ((n - 1) + 1) * TK = (n - 1) * TK + TK
        BY <1>0, <2>2, Quotients
      <4>2. (n - 1) + 1 = n
        OBVIOUS
      <4> QED
        BY <4>1, <4>2
    <3>2. n <= L /\ n \in Nat
      BY <1>1
    <3>3. n * TK <= L * TK
      <4> HIDE DEF L
      <4> QED
        BY <1>0, <1>1, <3>2
    <3> QED
      BY <3>1, <3>3
  <2>4. (i - 1) \div TK = n - 1 /\ (i - 1) % TK = 0
    <3>1. i - 1 = (n - 1) * TK
      BY <2>3
    <3>2. ((n - 1) * TK) \div TK = n - 1 /\ ((n - 1) * TK) % TK = 0
      BY <1>0, <2>2, Quotients
    <3> QED
      BY <3>1, <3>2
  <2>5. i \in DOMAIN h
    <3>1. i \in 1 .. Len(h)
      BY <1>0, <1>2, <2>3
    <3> QED
      BY <3>1 DEF Amounts
  <2>6. RightTerm(h[i], q, p, k, 0)
    <3>1. (i - 1) \div TK + 1 = n
      BY <2>4
    <3> HIDE DEF i
    <3> QED
      BY <2>4, <2>5, <3>1 DEF Amounts
  <2>7. h[i].dot[1] = [q |-> QAddr(q) + p, k |-> KAddr(k) + 0, c |-> 0]
    <3>1. 1 \in 1 .. dp_chunks /\ 1 - 1 = 0
      OBVIOUS
    <3> HIDE DEF i, q, k
    <3> QED
      BY <2>6, <3>1 DEF RightTerm
  <2>8. First(n).q = QAddr(q) + p /\ First(n).k = KAddr(k) + 0
    BY <2>7
  <2> HIDE DEF First, q, k
  <2>9. First(n).q - QBase = q * B + p /\ First(n).k - KBase = k * TK
    <3>1. q * B \in Nat /\ k * TK \in Nat
      BY <1>0, <2>1
    <3> QED
      BY <1>0, <2>8, <3>1 DEF QAddr, KAddr, TK
  <2>10. (q * B + p) \div B = q
    BY <1>0, <2>1, QuotientAt
  <2>11. (k * TK) \div TK = k
    BY <1>0, <2>1, Quotients
  <2> QED
    BY <2>1, <2>9, <2>10, <2>11
<1>4. tiles = [n \in 1 .. L |-> tiles[n]]
  BY DEF TileSeq
<1>5. Claimed(h) = [n \in 1 .. L |-> Tile(n)]
  BY <1>2 DEF Claimed
<1> HIDE DEF Tile, L
<1> QED
  BY <1>3, <1>4, <1>5
-----------------------------------------------------------------------------
(* ---- What the row contexts are while batches write them back ---- *)

(* The context the batch started from; the tiles that pair s of the batch   *)
(* has, with those slots finished that mask says; the tiles pair s of any   *)
(* group b has: those of its row context, or what the batch has made of it. *)
StartCtx == IF comp_t = 0 THEN row_ctx[batch] ELSE ctx0
Tile == <<q_tile_idx, k_tile_idx>>
With(mask, s) == IF s \in mask THEN Append(StartCtx, Tile) ELSE StartCtx
Tiles(b, s) == IF cs = "C_DP_RUN" /\ b = batch THEN With(batch_done_mask, s) ELSE row_ctx[b]
AmountsTo(ctx, b, s, tiles) == tiles \in TileSeq /\ Amounts(ctx[PairOf(b, s)], PairOf(b, s), tiles)

(* The row context says what the pairs amount to; the batch started from    *)
(* whole tiles, and works on the tile pair it began with; every pair holds  *)
(* exactly the tiles it should.                                             *)
RowInv == row_ctx = [b \in Batches |-> GroupContext(b, pair_ctx)]
StartInv == cs = "C_DP_RUN" => StartCtx \in TileSeq
OperandInv == cs = "C_DP_RUN" /\ comp_t # 0 => operand = Tile
GroupInv == \A b \in Batches, s \in Slots : AmountsTo(pair_ctx, b, s, Tiles(b, s))
HistInv == FlowInv /\ RowInv /\ StartInv /\ OperandInv /\ GroupInv

LEMMA GroupOfTiles ==
  ASSUME FlowInv, NEW b \in Batches, NEW ctx, NEW tiles,
         \A s \in Slots : AmountsTo(ctx, b, s, tiles)
  PROVE  GroupContext(b, ctx) = tiles
<1>1. 0 \in Slots /\ PairOf(b, 0) \in Pairs
  BY FourSlots, PairsOfBatch
<1>2. tiles \in TileSeq /\ Amounts(ctx[PairOf(b, 0)], PairOf(b, 0), tiles)
  BY <1>1 DEF AmountsTo
<1>3. Claimed(ctx[PairOf(b, 0)]) = tiles
  BY <1>1, <1>2, Parameters, ClaimedTiles DEF FlowInv
<1> QED
  BY <1>3 DEF GroupContext, AmountsTo

LEMMA RowsFollow ==
  ASSUME HistInv, PipeClock
  PROVE  /\ RowInv'
         /\ \A b \in Batches : row_ctx'[b] = GroupContext(b, pair_ctx')
         /\ \A b \in Batches : row_ctx[b] = GroupContext(b, pair_ctx)
         /\ dp_chunks' = dp_chunks
         /\ GroupInv' <=> \A b \in Batches, s \in Slots :
                            AmountsTo(pair_ctx', b, s, Tiles(b, s)')
<1>1. /\ IF pair_ctx' = pair_ctx THEN UNCHANGED row_ctx
         ELSE row_ctx' = [b \in Batches |-> GroupContext(b, pair_ctx')]
      /\ dp_chunks' = dp_chunks
  BY ClockEdge DEF HistInv, FlowInv
<1>2. row_ctx = [b \in Batches |-> GroupContext(b, pair_ctx)]
  BY DEF HistInv, RowInv
<1>3. row_ctx' = [b \in Batches |-> GroupContext(b, pair_ctx')]
  BY <1>1, <1>2
<1>4. RowInv' <=> row_ctx' = [b \in Batches |-> GroupContext(b, pair_ctx')]
  <2>0. \A h, p, tiles : Amounts(h, p, tiles)' <=> Amounts(h, p, tiles)
    BY <1>1 DEF Amounts, RightTerm
  <2>1. \A b : GroupContext(b, pair_ctx)' = GroupContext(b, pair_ctx')
    BY <2>0 DEF GroupContext, Claimed
  <2> QED
    BY <2>1 DEF RowInv
<1>5. GroupInv' <=> \A b \in Batches, s \in Slots : AmountsTo(pair_ctx', b, s, Tiles(b, s)')
  <2>1. \A h, p, tiles : Amounts(h, p, tiles)' <=> Amounts(h, p, tiles)
    BY <1>1 DEF Amounts, RightTerm
  <2> QED
    BY <2>1 DEF GroupInv, AmountsTo
<1> QED
  BY <1>1, <1>2, <1>3, <1>4, <1>5

(* The write-back of a batch, pair by pair.                                 *)
LEMMA PairsWritten ==
  ASSUME HistInv, PipeClock, cs = "C_DP_RUN"
  PROVE  /\ \A b \in Batches, s \in Slots :
              AmountsTo(pair_ctx', b, s, IF b = batch THEN With(batch_done_next, s) ELSE row_ctx[b])
         /\ \A b \in Batches : b # batch => row_ctx'[b] = row_ctx[b]
<1>f. FlowInv /\ FeedInv /\ pair_ctx \in [Pairs -> Seq(AllTerms)] /\ batch \in Batches
  BY DEF HistInv, FlowInv, CtxInv, FeedInv, FsmTypeOK
<1>t. PairTick(FALSE)
  BY <1>f, ClockEdge
<1>0. \A b \in Batches, s \in Slots : PairOf(b, s) \in Pairs
  BY PairsOfBatch
<1>g. \A b \in Batches, s \in Slots : AmountsTo(pair_ctx, b, s, Tiles(b, s))
  BY DEF HistInv, GroupInv
<1>1. ASSUME NEW b \in Batches, NEW s \in Slots, ~(RowDone /\ b = batch /\ s = Slot(15))
      PROVE  pair_ctx'[PairOf(b, s)] = pair_ctx[PairOf(b, s)]
  <2>1. CASE RowDone
    <3>1. sm_out.ctx = Slot(15) /\ Slot(15) \in Slots
      BY <1>f, <2>1, FinishedSlots, IssueType DEF Scored
    <3>2. PairOf(batch, Slot(15)) # PairOf(b, s)
      BY <1>1, <1>f, <2>1, <3>1, PairsOfBatch
    <3>3. pair_ctx' = [pair_ctx EXCEPT ![PairOf(batch, Slot(15))] = sm_out.sum]
      BY <1>t, <2>1, <3>1 DEF PairTick
    <3> QED
      BY <1>0, <1>f, <3>1, <3>2, <3>3
  <2>2. CASE ~RowDone
    BY <1>t, <2>2 DEF PairTick
  <2> QED
    BY <2>1, <2>2
<1>2. ASSUME NEW b \in Batches, NEW s \in Slots, b # batch
      PROVE  AmountsTo(pair_ctx', b, s, row_ctx[b])
  <2>1. AmountsTo(pair_ctx, b, s, row_ctx[b])
    BY <1>2, <1>g DEF Tiles
  <2> QED
    BY <1>1, <1>2, <2>1 DEF AmountsTo
<1>3. ASSUME NEW s \in Slots
      PROVE  AmountsTo(pair_ctx', batch, s, With(batch_done_next, s))
  <2>1. AmountsTo(pair_ctx, batch, s, With(batch_done_mask, s))
    BY <1>f, <1>g DEF Tiles
  <2>2. CASE RowDone /\ s = Slot(15)
    <3>1. /\ sm_out.ctx = s /\ sm_out.sum = Including(15) /\ Scored(15) /\ Key(15) = TK - 1
      BY <1>f, <2>2, FinishedSlots
    <3>2. s \in batch_done_next /\ s \notin batch_done_mask
      <4>1. s \in batch_done_next
        BY <2>2, <3>1 DEF batch_done_next
      <4>2. comp_t = LastOf(dp_chunks, s) + 15
        <5>1. comp_t - 15 \in 0 .. IssuesOf(dp_chunks) - 1 /\ Ends(dp_chunks, comp_t - 15)
          BY <3>1 DEF Scored, UnderWay
        <5>2. SlotOf(dp_chunks, comp_t - 15) = s /\ KeyOf(dp_chunks, comp_t - 15) = TK - 1
          BY <2>2, <3>1 DEF Slot, Key
        <5>3. \A n \in 0 .. IssuesOf(dp_chunks) - 1 :
                (Ends(dp_chunks, n) /\ SlotOf(dp_chunks, n) = s /\ KeyOf(dp_chunks, n) = TK - 1)
                  <=> n = LastOf(dp_chunks, s)
          BY <1>f, Parameters, LastScores
        <5>4. comp_t - 15 = LastOf(dp_chunks, s)
          BY <5>1, <5>2, <5>3
        <5>5. comp_t \in Nat
          BY <1>f, Parameters DEF FlowInv, ClockInv
        <5> QED
          BY <5>4, <5>5
      <4>3. batch_done_mask = {t \in Slots : comp_t > LastOf(dp_chunks, t) + 15}
        BY <1>f DEF FlowInv, MaskInv
      <4>4. LastOf(dp_chunks, s) \in Nat
        BY <1>f, Parameters, LastScores
      <4> QED
        BY <4>1, <4>2, <4>3, <4>4
    <3>3. AmountsTo(pair_ctx, batch, s, StartCtx)
      BY <2>1, <3>2 DEF With
    <3>4. /\ PairCtx(s) \in Seq(AllTerms) /\ Job \in Jobs /\ Job.b = batch /\ Job.c = dp_chunks
          /\ <<Job.q, Job.k>> = Tile
      BY <1>f, ContextType DEF Tile
    <3>5. /\ StartCtx \in TileSeq
          /\ Amounts(PairCtx(s), PairOf(batch, s), StartCtx)
      BY <3>3 DEF AmountsTo, PairCtx
    <3>6. /\ Amounts(Upto(Job, PairCtx(s), s, TK), PairOf(batch, s), Append(StartCtx, Tile))
          /\ Append(StartCtx, Tile) \in TileSeq
      BY <3>4, <3>5, AmountsMore
    <3>7. TK - 1 + 1 = TK
      BY TKType
    <3>8. Including(15) = Upto(Job, PairCtx(s), s, TK)
      BY <2>2, <3>1, <3>7 DEF Including
    <3>9. pair_ctx'[PairOf(batch, s)] = Including(15)
      BY <1>0, <1>f, <1>t, <2>2, <3>1 DEF PairTick
    <3> QED
      BY <3>2, <3>6, <3>8, <3>9 DEF AmountsTo, With
  <2>3. CASE ~(RowDone /\ s = Slot(15))
    <3>1. pair_ctx'[PairOf(batch, s)] = pair_ctx[PairOf(batch, s)]
      BY <1>1, <1>f, <2>3
    <3>2. s \in batch_done_next <=> s \in batch_done_mask
      BY <1>f, <2>3, FinishedSlots DEF batch_done_next
    <3> QED
      BY <2>1, <3>1, <3>2 DEF AmountsTo, With
  <2> QED
    BY <2>2, <2>3
<1>4. ASSUME NEW b \in Batches, b # batch
      PROVE  row_ctx'[b] = row_ctx[b]
  <2>1. GroupContext(b, pair_ctx') = row_ctx[b]
    BY <1>2, <1>4, <1>f, GroupOfTiles
  <2> QED
    BY <2>1, RowsFollow
<1> QED
  BY <1>2, <1>3, <1>4

(* The last cycle of a batch.                                               *)
LEMMA BatchFolded ==
  ASSUME HistInv, PipeClock, cs = "C_DP_RUN", comp_t = IssuesOf(dp_chunks) + 14
  PROVE  row_ctx'[batch] = Append(ctx0, Tile) /\ operand = Tile
<1>f. FlowInv /\ batch \in Batches /\ IssuesOf(dp_chunks) \in Nat
  BY Parameters DEF HistInv, FlowInv, FeedInv, FsmTypeOK
<1>1. batch_done_next = Slots
  BY <1>f, FinishedSlots DEF BatchDone
<1>2. comp_t # 0 /\ StartCtx = ctx0
  BY <1>f DEF StartCtx
<1>3. \A s \in Slots : AmountsTo(pair_ctx', batch, s, Append(ctx0, Tile))
  BY <1>1, <1>2, <1>f, PairsWritten DEF With
<1>4. GroupContext(batch, pair_ctx') = Append(ctx0, Tile)
  BY <1>3, <1>f, GroupOfTiles
<1>5. operand = Tile
  BY <1>2 DEF HistInv, OperandInv
<1> QED
  BY <1>4, <1>5, <1>f, RowsFollow

(* The start of a batch, and the time in which the compute FSM rests.       *)
LEMMA RowsAtRest ==
  ASSUME HistInv, PipeClock, cs # "C_DP_RUN"
  PROVE  \A b \in Batches, s \in Slots : AmountsTo(pair_ctx', b, s, row_ctx'[b])
<1>f. FlowInv
  BY DEF HistInv
<1>g. \A b \in Batches, s \in Slots : AmountsTo(pair_ctx, b, s, row_ctx[b])
  BY DEF HistInv, GroupInv, Tiles
<1>0. \A b \in Batches, s \in Slots : PairOf(b, s) \in Pairs
  BY PairsOfBatch
<1>1. CASE pair_ctx' = [p \in Pairs |-> <<>>]
  <2>1. ASSUME NEW p PROVE Amounts(<<>>, p, <<>>)
    <3>1. Len(<<>>) = 0 /\ DOMAIN <<>> = {} /\ 0 * TK = 0
      BY TKType
    <3> QED
      BY <3>1 DEF Amounts
  <2>2. \A b \in Batches, s \in Slots : AmountsTo(pair_ctx', b, s, <<>>)
    BY <1>0, <1>1, <2>1 DEF AmountsTo, TileSeq
  <2>3. \A b \in Batches : GroupContext(b, pair_ctx') = <<>>
    BY <1>f, <2>2, GroupOfTiles
  <2> QED
    BY <2>2, <2>3, RowsFollow
<1>2. CASE pair_ctx' = pair_ctx
  <2>1. \A b \in Batches : row_ctx'[b] = row_ctx[b]
    BY <1>2, RowsFollow
  <2> QED
    BY <1>2, <1>g, <2>1
<1> QED
  BY <1>1, <1>2, <1>f, ClockEdge DEF PairTick, FlowInv

LEMMA HistMoves ==
  ASSUME HistInv, PipeClock
  PROVE  StartInv' /\ OperandInv' /\ GroupInv'
<1>f. /\ FlowInv /\ HistoryTick /\ ClockInv /\ IssuesOf(dp_chunks) \in Nat
      /\ batch \in Batches /\ batch' \in Batches
  BY Parameters, ClockEdge, NextFeed DEF HistInv, FlowInv, FeedInv, FsmTypeOK
<1>s. \A b \in Batches, s \in Slots : 0 \in Slots
  BY FourSlots
<1>1. CASE PipeRun
  <2>1. /\ cs = "C_DP_RUN" /\ cs' = "C_DP_RUN" /\ ~BatchDone /\ batch' = batch
        /\ batch_done_mask' = batch_done_next
    BY <1>1 DEF PipeRun
  <2>2. /\ comp_t' = comp_t + 1 /\ comp_t \in Nat /\ comp_t' # 0 /\ Tile' = Tile
    BY <1>f, <2>1, ClockEdge DEF ClockInv, HistoryTick, Tile, FlowInv
  <2>3. StartCtx' = StartCtx
    BY <1>f, <2>1, <2>2 DEF HistoryTick, StartCtx
  <2>4. StartInv'
    BY <2>1, <2>3 DEF HistInv, StartInv
  <2>5. TileInUse = Tile
    BY <1>f, <2>1, ClockEdge DEF TileInUse, Tile, FlowInv
  <2>6. OperandInv'
    BY <1>f, <2>1, <2>2, <2>5 DEF HistInv, OperandInv, HistoryTick
  <2>7. \A b \in Batches, s \in Slots :
          Tiles(b, s)' = IF b = batch THEN With(batch_done_next, s) ELSE row_ctx'[b]
    BY <2>1, <2>2, <2>3 DEF Tiles, With
  <2>8. GroupInv'
    BY <2>1, <2>7, PairsWritten, RowsFollow
  <2> QED
    BY <2>4, <2>6, <2>8
<1>2. CASE ~PipeRun
  <2>1. comp_t' = 0 /\ (cs' = "C_DP_RUN" => batch_done_mask' = {})
    BY <1>2, <1>f, EdgeKinds, NewBatch
  <2>2. \A b \in Batches, s \in Slots : Tiles(b, s)' = row_ctx'[b]
    BY <2>1 DEF Tiles, With, StartCtx
  <2>3. \A b \in Batches, s \in Slots : AmountsTo(pair_ctx', b, s, row_ctx'[b])
    <3>1. CASE cs = "C_DP_RUN"
      <4>1. comp_t = IssuesOf(dp_chunks) + 14 /\ comp_t # 0
        BY <1>2, <1>f, <3>1, EdgeKinds
      <4>2. row_ctx'[batch] = Append(ctx0, Tile) /\ batch_done_next = Slots /\ StartCtx = ctx0
        BY <1>f, <3>1, <4>1, BatchFolded, FinishedSlots DEF BatchDone, StartCtx
      <4>3. \A s \in Slots : With(batch_done_next, s) = row_ctx'[batch]
        BY <4>2 DEF With
      <4> QED
        BY <3>1, <4>3, PairsWritten
    <3>2. CASE cs # "C_DP_RUN"
      BY <3>2, RowsAtRest
    <3> QED
      BY <3>1, <3>2
  <2>4. GroupInv'
    BY <2>2, <2>3, RowsFollow
  <2>5. StartInv'
    <3>1. StartCtx' = row_ctx'[batch']
      BY <2>1 DEF StartCtx
    <3>2. 0 \in Slots
      BY FourSlots
    <3> QED
      BY <1>f, <2>3, <3>1, <3>2 DEF StartInv, AmountsTo
  <2>6. OperandInv'
    BY <2>1 DEF OperandInv
  <2> QED
    BY <2>4, <2>5, <2>6
<1> QED
  BY <1>1, <1>2

LEMMA InitHist == PipeInit => HistInv
<1> SUFFICES ASSUME PipeInit PROVE HistInv
  OBVIOUS
<1>1. FlowInv
  BY InitFlow
<1>2. /\ cs = "C_IDLE" /\ pair_ctx = [p \in Pairs |-> <<>>]
      /\ row_ctx = [b \in Batches |-> <<>>]
  BY DEF PipeInit, Init
<1>3. ASSUME NEW p PROVE Amounts(<<>>, p, <<>>)
  <2>1. Len(<<>>) = 0 /\ DOMAIN <<>> = {} /\ 0 * TK = 0
    BY TKType
  <2> QED
    BY <2>1 DEF Amounts
<1>4. \A b \in Batches, s \in Slots : AmountsTo(pair_ctx, b, s, <<>>)
  BY <1>2, <1>3, PairsOfBatch DEF AmountsTo, TileSeq
<1>5. \A b \in Batches : GroupContext(b, pair_ctx) = <<>>
  BY <1>1, <1>4, GroupOfTiles
<1>6. RowInv
  BY <1>2, <1>5 DEF RowInv
<1>7. GroupInv
  BY <1>2, <1>4 DEF GroupInv, Tiles
<1> QED
  BY <1>1, <1>2, <1>6, <1>7 DEF HistInv, StartInv, OperandInv

LEMMA NextHist == HistInv /\ [PipeClock]_allVars => HistInv'
<1> SUFFICES ASSUME HistInv, [PipeClock]_allVars PROVE HistInv'
  OBVIOUS
<1>1. FlowInv'
  BY NextFlow DEF HistInv
<1>2. CASE PipeClock
  BY <1>1, <1>2, HistMoves, RowsFollow DEF HistInv
<1>3. CASE UNCHANGED allVars
  <2>1. /\ UNCHANGED <<cs, comp_t, batch, q_tile_idx, k_tile_idx, dp_chunks, pair_ctx>>
        /\ UNCHANGED <<row_ctx, ctx0, operand, batch_done_mask>>
    BY <1>3 DEF allVars, vars, masterVars, fsmVars, compVars, pipeVars
  <2>2. \A h, p, tiles : Amounts(h, p, tiles)' <=> Amounts(h, p, tiles)
    BY <2>1 DEF Amounts, RightTerm
  <2>3. StartCtx' = StartCtx /\ Tile' = Tile
    BY <2>1 DEF StartCtx, Tile
  <2>4. StartInv' /\ OperandInv'
    BY <2>1, <2>3 DEF HistInv, StartInv, OperandInv
  <2>5. RowInv'
    BY <2>1, <2>2 DEF HistInv, RowInv, GroupContext, Claimed
  <2>6. GroupInv'
    BY <2>1, <2>2, <2>3 DEF HistInv, GroupInv, AmountsTo, Tiles, With
  <2> QED
    BY <1>1, <2>4, <2>5, <2>6 DEF HistInv
<1> QED
  BY <1>2, <1>3
-----------------------------------------------------------------------------
(* ---- A batch is a batch of AttentionCore ---- *)

LEMMA BatchOfBuild ==
  ASSUME NEW c \in {1, 2}
  PROVE  /\ CyclesOf(c) = IssuesOf(c) + 15
         /\ Batch(c)!TileInUse = TileInUse
         /\ Batch(c)!WritesBack <=> cs = "C_DP_RUN" /\ comp_t = IssuesOf(c) + 14
<1>1. IssuesOf(c) \in Nat
  BY IssueRange
<1>2. CyclesOf(c) = IssuesOf(c) + 15
  <2>1. CyclesOf(c) = IssuesOf(c) + 8 + 7
    BY DEF CyclesOf, IssuesOf, QK_LAT
  <2> QED
    BY <1>1, <2>1
<1>3. Batch(c)!TileInUse = TileInUse
  BY DEF Batch!TileInUse, TileInUse, Batch!OperandsWhole, OperandsWhole, Batch!HoldsTile, HoldsTile,
         Batch!QAddr, QAddr, Batch!KAddr, KAddr, Batch!VAddr, VAddr, Batch!Torn, Torn
<1>4. CyclesOf(c) - 1 = IssuesOf(c) + 14
  BY <1>1, <1>2
<1>5. Batch(c)!WritesBack <=> cs = "C_DP_RUN" /\ comp_t = CyclesOf(c) - 1
  BY DEF Batch!WritesBack
<1> QED
  BY <1>2, <1>3, <1>4, <1>5

LEMMA StepOfBatch ==
  ASSUME HistInv, PipeClock
  PROVE  /\ Batch(dp_chunks)!CompTick
         /\ Batch(dp_chunks)!WritesBack => row_ctx'[batch] = Folded
         /\ cs = "C_DP_RUN" => \A b \in Batches \ {batch} : row_ctx'[b] = row_ctx[b]
<1> DEFINE c == dp_chunks
           N == IssuesOf(dp_chunks)
<1>f. FlowInv /\ HistoryTick /\ c \in {1, 2} /\ N \in Nat /\ ClockInv
  BY Parameters, ClockEdge DEF HistInv, FlowInv
<1>b. /\ CyclesOf(c) = N + 15 /\ Batch(c)!TileInUse = TileInUse
      /\ Batch(c)!WritesBack <=> cs = "C_DP_RUN" /\ comp_t = N + 14
  BY <1>f, BatchOfBuild
<1>1. Batch(c)!CompTick
  <2>1. CASE PipeRun
    <3>1. /\ cs = "C_DP_RUN" /\ ~BatchDone /\ comp_done' = FALSE /\ UNCHANGED <<cs, batch>>
          /\ comp_t < N + 14
      BY <1>f, <2>1, EdgeKinds DEF PipeRun, PipeBatchEnd, PipeIdle, PipeDone
    <3>2. comp_t < CyclesOf(c) - 1
      BY <1>b, <1>f, <3>1 DEF ClockInv
    <3>3. Batch(c)!CompRun
      BY <1>b, <1>f, <3>1, <3>2 DEF Batch!CompRun, HistoryTick, Batch!Torn, Torn
    <3> QED
      BY <3>3 DEF Batch!CompTick
  <2>2. CASE PipeBatchEnd
    <3>1. /\ cs = "C_DP_RUN" /\ BatchDone /\ comp_done' = FALSE /\ comp_t = N + 14 /\ comp_t' = 0
          /\ UNCHANGED <<ctx0, operand>>
      BY <1>f, <2>2, EdgeKinds DEF PipeRun, PipeBatchEnd, PipeIdle, PipeDone, HistoryTick
    <3>2. comp_t = CyclesOf(c) - 1
      BY <1>b, <1>f, <3>1
    <3>3. Batch(c)!BatchEnd
      BY <2>2, <3>1, <3>2 DEF Batch!BatchEnd, PipeBatchEnd
    <3> QED
      BY <3>3 DEF Batch!CompTick
  <2>3. CASE PipeIdle
    <3>1. cs = "C_IDLE" /\ comp_t = 0 /\ comp_t' = 0 /\ UNCHANGED <<ctx0, operand>>
      BY <1>f, <2>3, EdgeKinds DEF PipeRun, PipeBatchEnd, PipeIdle, HistoryTick
    <3>2. Batch(c)!CompIdle
      BY <2>3, <3>1 DEF Batch!CompIdle, PipeIdle
    <3> QED
      BY <3>2 DEF Batch!CompTick
  <2>4. CASE PipeDone
    <3>1. cs = "C_DONE" /\ comp_t = 0 /\ comp_t' = 0 /\ UNCHANGED <<ctx0, operand>>
      BY <1>f, <2>4, EdgeKinds DEF PipeRun, PipeBatchEnd, PipeDone, HistoryTick
    <3>2. Batch(c)!CompDone
      BY <2>4, <3>1 DEF Batch!CompDone, PipeDone
    <3> QED
      BY <3>2 DEF Batch!CompTick
  <2> QED
    BY <1>f, <2>1, <2>2, <2>3, <2>4, ClockEdge DEF PipeTick, FlowInv
<1>2. ASSUME cs = "C_DP_RUN", comp_t = N + 14
      PROVE  row_ctx'[batch] = Folded
  <2>1. row_ctx'[batch] = Append(ctx0, Tile) /\ operand = Tile
    BY <1>2, BatchFolded
  <2>2. TileInUse = Tile
    BY <1>2, <1>f, ClockEdge DEF TileInUse, Tile, FlowInv
  <2> QED
    BY <2>1, <2>2 DEF Folded
<1>3. cs = "C_DP_RUN" => \A b \in Batches \ {batch} : row_ctx'[b] = row_ctx[b]
  BY PairsWritten
<1> QED
  BY <1>b, <1>1, <1>2, <1>3

(* Issue counters, tags, dot product, softmax contexts and write-back       *)
(* together do what the one-step batch of AttentionCore says: a batch takes *)
(* CyclesOf(chunks) cycles, and at its end every row of it has every key of *)
(* the tile folded once, in order, into the context it started from, while  *)
(* the rows of the other batches keep theirs.                               *)
THEOREM PipelinesImplementBatch == PipeSpec => ImplementsBatch
<1>1. HistInv /\ [PipeClock]_allVars => [BatchStep]_allVars
  BY StepOfBatch DEF BatchStep
<1> QED
  BY <1>1, InitHist, NextHist, PTL DEF PipeSpec, ImplementsBatch
-----------------------------------------------------------------------------
(* ---- The rows a run works on ---- *)

(* The tiles 0 .. n - 1 of Q tile q, each once.                             *)
TilesUpto(q, n) == [i \in 1 .. n |-> <<q, i - 1>>]

(* The context of a row group, apart from what the batch at work has        *)
(* written back of it so far; the tiles folded into it.                     *)
Settled(b) == IF cs = "C_DP_RUN" /\ b = batch THEN StartCtx ELSE row_ctx[b]
Counted(b) ==
  CASE ms = "S_COMPUTE" ->
         IF comp_done \/ cs = "C_DONE" \/ (cs = "C_DP_RUN" /\ b < batch)
         THEN k_tile_idx + 1 ELSE k_tile_idx
    [] ms = "S_NORMALIZE" -> NUM_K_TILES
    [] OTHER -> 0
SettledInv ==
  /\ ms \in {"S_LOAD_K", "S_LOAD_V"} => k_tile_idx = 0
  /\ ms \in {"S_LOAD_K", "S_LOAD_V", "S_COMPUTE", "S_NORMALIZE"} =>
       \A b \in Batches : Settled(b) = TilesUpto(q_tile_idx, Counted(b))

(* The next tile makes one tile more.                                       *)
LEMMA TilesMore ==
  ASSUME NEW q, NEW n \in Nat
  PROVE  /\ Append(TilesUpto(q, n), <<q, n>>) = TilesUpto(q, n + 1)
         /\ TilesUpto(q, 0) = <<>>
         /\ Len(TilesUpto(q, n)) = n
<1>1. TilesUpto(q, n) \in Seq({q} \X Nat) /\ Len(TilesUpto(q, n)) = n
  BY DEF TilesUpto
<1>2. <<q, n>> \in {q} \X Nat
  OBVIOUS
<1> DEFINE s == TilesUpto(q, n)
           t == Append(s, <<q, n>>)
<1>3. /\ t \in Seq({q} \X Nat) /\ Len(t) = n + 1
      /\ \A i \in 1 .. n : t[i] = s[i]
      /\ t[n + 1] = <<q, n>>
  BY <1>1, <1>2, AppendProperties
<1>4. \A i \in 1 .. n + 1 : t[i] = <<q, i - 1>>
  <2>1. \A i \in 1 .. n : s[i] = <<q, i - 1>>
    BY DEF TilesUpto
  <2>2. \A i \in 1 .. n + 1 : i \in 1 .. n \/ (i = n + 1 /\ i - 1 = n)
    OBVIOUS
  <2> HIDE DEF s, t
  <2> QED
    BY <1>3, <2>1, <2>2
<1>5. t = TilesUpto(q, n + 1)
  <2> HIDE DEF s, t
  <2>1. t = [i \in 1 .. n + 1 |-> t[i]]
    BY <1>3, LenProperties
  <2> QED
    BY <1>4, <2>1 DEF TilesUpto
<1>6. TilesUpto(q, 0) = <<>>
  BY DEF TilesUpto
<1> QED
  BY <1>1, <1>5, <1>6

(* What a clock edge does to the row contexts.                              *)
LEMMA RowsMove ==
  ASSUME HistInv, PipeClock
  PROVE  \A b \in Batches :
           Settled(b)' = IF ms = "S_INIT_CONTEXT" THEN <<>>
                         ELSE IF cs = "C_DP_RUN" /\ PipeBatchEnd /\ b = batch
                         THEN Append(Settled(b), Tile) ELSE Settled(b)
<1>f. FlowInv /\ FeedInv /\ HistoryTick /\ PairTick(ms = "S_INIT_CONTEXT")
      /\ IssuesOf(dp_chunks) \in Nat \ {0}
      /\ (cs = "C_DP_RUN" => ms # "S_INIT_CONTEXT")
  BY ClockEdge, Parameters DEF HistInv, FlowInv
<1>1. CASE cs = "C_DP_RUN" /\ cs' = "C_DP_RUN" /\ PipeRun
  <2>1. ~BatchDone /\ batch' = batch /\ comp_t \in Nat
    BY <1>1, <1>f DEF PipeRun, FlowInv, ClockInv
  <2>2. comp_t' = comp_t + 1 /\ comp_t' # 0 /\ ctx0' = IF comp_t = 0 THEN row_ctx[batch] ELSE ctx0
    BY <1>1, <1>f, <2>1 DEF HistoryTick
  <2>3. StartCtx' = StartCtx
    BY <2>2 DEF StartCtx
  <2>4. \A b \in Batches : b # batch => row_ctx'[b] = row_ctx[b]
    BY <1>1, PairsWritten
  <2>5. ~PipeBatchEnd
    BY <2>1 DEF PipeBatchEnd
  <2> QED
    BY <1>1, <1>f, <2>1, <2>3, <2>4, <2>5 DEF Settled
<1>2. CASE cs = "C_DP_RUN" /\ PipeBatchEnd /\ comp_t = IssuesOf(dp_chunks) + 14 /\ comp_t' = 0
  <2>1. \A b \in Batches : Settled(b)' = row_ctx'[b]
    BY <1>2 DEF Settled, StartCtx
  <2>2. row_ctx'[batch] = Append(ctx0, Tile)
    BY <1>2, BatchFolded
  <2>3. \A b \in Batches : b # batch => row_ctx'[b] = row_ctx[b]
    BY <1>2, PairsWritten
  <2>4. comp_t # 0
    BY <1>2, <1>f
  <2>5. Settled(batch) = ctx0 /\ \A b \in Batches : b # batch => Settled(b) = row_ctx[b]
    BY <1>2, <2>4 DEF Settled, StartCtx
  <2> QED
    BY <1>2, <1>f, <2>1, <2>2, <2>3, <2>5
<1>3. CASE cs # "C_DP_RUN" /\ comp_t' = 0
  <2>1. \A b \in Batches : Settled(b)' = row_ctx'[b] /\ Settled(b) = row_ctx[b]
    BY <1>3 DEF Settled, StartCtx
  <2>2. CASE ms = "S_INIT_CONTEXT"
    <3>1. pair_ctx' = [p \in Pairs |-> <<>>]
      BY <1>f, <2>2 DEF PairTick
    <3>2. ASSUME NEW p PROVE Amounts(<<>>, p, <<>>)
      <4>1. Len(<<>>) = 0 /\ DOMAIN <<>> = {} /\ 0 * TK = 0
        BY TKType
      <4> QED
        BY <4>1 DEF Amounts
    <3>3. \A b \in Batches, s \in Slots : AmountsTo(pair_ctx', b, s, <<>>)
      BY <3>1, <3>2, PairsOfBatch DEF AmountsTo, TileSeq
    <3>4. \A b \in Batches : row_ctx'[b] = <<>>
      BY <1>f, <3>3, GroupOfTiles, RowsFollow
    <3> QED
      BY <2>1, <2>2, <3>4
  <2>3. CASE ms # "S_INIT_CONTEXT"
    <3>1. pair_ctx' = pair_ctx
      BY <1>3, <1>f, <2>3 DEF PairTick
    <3>2. \A b \in Batches : row_ctx'[b] = row_ctx[b]
      BY <3>1, RowsFollow
    <3> QED
      BY <1>3, <2>1, <2>3, <3>2
  <2> QED
    BY <2>2, <2>3
<1> QED
  BY <1>1, <1>2, <1>3, <1>f, EdgeKinds
-----------------------------------------------------------------------------
(* ---- The prefetch keeps ahead of the batches ---- *)

(* The memory is fast enough for every number of chunks looked at.          *)
FastPipes == \A c \in ChunkCounts : Fast(CyclesOf(c))

PipePace == EngineInv /\ \A c \in {1, 2} : dp_chunks = c => PaceInv(CyclesOf(c))

(* Whatever the pipelines hold, the compute FSM moves as PaceInv counts it. *)
LEMMA PipeStep ==
  ASSUME HistInv, PipeClock, NEW c \in {1, 2}, dp_chunks = c
  PROVE  CyclesOf(c) \in Nat \ {0, 1} /\ CompRange(CyclesOf(c)) /\ CompStep(CyclesOf(c))
<1>1. CyclesOf(c) = IssuesOf(c) + 15 /\ IssuesOf(c) \in Nat
  BY BatchOfBuild, IssueRange
<1>2. CyclesOf(c) \in Nat \ {0, 1}
  BY <1>1
<1>3. CompRange(CyclesOf(c))
  <2>1. cs \in CompStates /\ batch \in Batches /\ ClockInv
    BY DEF HistInv, FlowInv, FeedInv, FsmTypeOK
  <2>2. comp_t \in 0 .. CyclesOf(c) - 1
    <3> HIDE DEF CyclesOf
    <3> QED
      BY <1>1, <2>1 DEF ClockInv
  <2> QED
    BY <2>1, <2>2 DEF CompRange
<1>4. CompStep(CyclesOf(c))
  <2>1. Batch(c)!CompTick
    BY StepOfBatch
  <2> QED
    BY <2>1 DEF Batch!CompTick, Batch!CompIdle, Batch!CompRun, Batch!BatchEnd, Batch!CompDone, CompStep
<1> QED
  BY <1>2, <1>3, <1>4

(* So the prefetch is done before the tile in compute is.                   *)
LEMMA NextPipePace ==
  ASSUME HistInv, HistInv', PipePace, PipeClock
  PROVE  PipePace'
<1>1. PICK c \in {1, 2} : dp_chunks = c
  BY DEF HistInv, FlowInv, FeedInv, FsmTypeOK
<1>2. dp_chunks' = c
  BY <1>1, RowsFollow
<1>3. EngineInv /\ PaceInv(CyclesOf(c)) /\ FeedInv /\ FillInv /\ CompInv /\ FillInv'
  BY <1>1 DEF PipePace, HistInv, FlowInv, FeedInv
<1>4. CyclesOf(c) \in Nat \ {0, 1} /\ CompRange(CyclesOf(c)) /\ CompStep(CyclesOf(c))
  BY <1>1, PipeStep
<1>5. PICK start \in BOOLEAN, rdv \in BOOLEAN, taken \in BOOLEAN :
        ReadTick(rdv) /\ PipeMasterTick(start, rdv, taken)
  BY DEF PipeClock
<1>6. EngineInv' /\ PaceInv(CyclesOf(c))'
  <2>1. CASE PipeNormalize
    <3>1. ms' # "S_COMPUTE"
      BY <1>3, <2>1, NormalizerStep
    <3> QED
      BY <3>1 DEF EngineInv, PaceInv
  <2>2. CASE ~PipeNormalize
    <3>1. MasterTick(start, rdv, taken)
      BY <1>3, <1>5, <2>2, OtherStatesStep
    <3> QED
      BY <1>3, <1>4, <1>5, <3>1, TickPace
  <2> QED
    BY <2>1, <2>2
<1> QED
  BY <1>2, <1>6 DEF PipePace
-----------------------------------------------------------------------------
(* Into S_INIT_CONTEXT and out of it the rows are empty, while a tile is in *)
(* compute they have one tile more, batch by batch.                         *)
LEMMA SettledInCompute ==
  ASSUME HistInv, SettledInv, PipePace, FastPipes, PipeClock, dp_chunks \in ChunkCounts,
         NEW rdv \in BOOLEAN, Compute(rdv)
  PROVE  SettledInv'
<1> DEFINE k == k_tile_idx
           q == q_tile_idx
<1>f. /\ FlowInv /\ CompInv /\ batch \in Batches /\ cs \in CompStates /\ comp_done \in BOOLEAN
      /\ k \in 0 .. NUM_K_TILES - 1 /\ PipeTick /\ LoadTypeOK
      /\ NUM_K_TILES \in Nat /\ NUM_BATCHES \in Nat /\ NUM_BATCHES # 0
      /\ ms = "S_COMPUTE"
  BY ClockEdge, CoreAssumption
     DEF HistInv, FlowInv, FeedInv, FsmTypeOK, FillInv, LoadTypeOK, MasterTypeOK, KTiles, Compute
<1>s. \A b \in Batches : Settled(b) = TilesUpto(q, Counted(b))
  BY <1>f DEF SettledInv
<1>m. \A b \in Batches : Settled(b)' = IF cs = "C_DP_RUN" /\ PipeBatchEnd /\ b = batch
                                       THEN Append(Settled(b), Tile) ELSE Settled(b)
  BY <1>f, RowsMove
<1>1. CASE comp_done
  <2>1. cs = "C_IDLE" /\ ~comp_start
    BY <1>1, <1>f DEF CompInv
  <2>2. cs' = "C_IDLE" /\ ~comp_done'
    BY <1>f, <2>1 DEF PipeTick, PipeIdle, PipeRun, PipeBatchEnd, PipeDone
  <2>3. \A b \in Batches : Settled(b)' = TilesUpto(q, k + 1)
    BY <1>1, <1>f, <1>m, <1>s, <2>1 DEF Counted
  <2>4. ~PulseLost(rdv)
    <3>1. PICK c \in {1, 2} : dp_chunks = c
      BY DEF HistInv, FlowInv, FeedInv, FsmTypeOK
    <3>2. PaceInv(CyclesOf(c)) /\ Fast(CyclesOf(c))
      BY <3>1 DEF PipePace, FastPipes
    <3> QED
      BY <1>1, <1>f, <3>2, PrefetchIsDone DEF PulseLost
  <2>5. CASE ToNormalize
    <3>1. ms' = "S_NORMALIZE" /\ q_tile_idx' = q /\ k + 1 = NUM_K_TILES
      BY <1>f, <2>5 DEF ToNormalize, LastTile, GoTo
    <3>2. \A b \in Batches : Counted(b)' = NUM_K_TILES
      BY <3>1 DEF Counted
    <3> QED
      BY <2>3, <3>1, <3>2 DEF SettledInv
  <2>6. CASE NextTile
    <3>1. ms' = "S_COMPUTE" /\ q_tile_idx' = q /\ k_tile_idx' = k + 1
      BY <1>f, <2>6 DEF NextTile
    <3>2. \A b \in Batches : Counted(b)' = k + 1
      BY <2>2, <3>1 DEF Counted
    <3> QED
      BY <2>3, <3>1, <3>2 DEF SettledInv
  <2> QED
    BY <1>1, <2>4, <2>5, <2>6 DEF Compute, Computing
<1>2. CASE ~comp_done
  <2>1. ms' = "S_COMPUTE" /\ q_tile_idx' = q /\ k_tile_idx' = k
    BY <1>2, <1>f DEF Compute, Computing, ToNormalize, NextTile, PulseLost, fsmVars
  <2>2. \A b \in Batches : Counted(b) = IF cs = "C_DONE" \/ (cs = "C_DP_RUN" /\ b < batch)
                                        THEN k + 1 ELSE k
    BY <1>2, <1>f DEF Counted
  <2>3. \A b \in Batches : Counted(b)' = IF comp_done' \/ cs' = "C_DONE" \/ (cs' = "C_DP_RUN" /\ b < batch')
                                        THEN k + 1 ELSE k
    BY <2>1 DEF Counted
  <2>4. SUFFICES \A b \in Batches : Settled(b)' = TilesUpto(q, Counted(b)')
    BY <2>1 DEF SettledInv
  <2>5. CASE PipeBatchEnd
    <3>1. cs = "C_DP_RUN" /\ ~comp_done'
      BY <2>5 DEF PipeBatchEnd
    <3>2. \/ batch = NUM_BATCHES - 1 /\ cs' = "C_DONE"
          \/ batch' = batch + 1 /\ cs' = "C_DP_RUN"
      BY <2>5, <3>1 DEF PipeBatchEnd
    <3>3. Append(TilesUpto(q, k), Tile) = TilesUpto(q, k + 1)
      <4>1. k \in Nat /\ Tile = <<q, k>>
        BY <1>f DEF Tile
      <4> HIDE DEF q, k
      <4> QED
        BY <4>1, TilesMore
    <3>4. \A b \in Batches : Settled(b)' = TilesUpto(q, IF b <= batch THEN k + 1 ELSE k)
      <4> SUFFICES ASSUME NEW b \in Batches
                   PROVE  Settled(b)' = TilesUpto(q, IF b <= batch THEN k + 1 ELSE k)
        OBVIOUS
      <4>1. Settled(b) = TilesUpto(q, IF b < batch THEN k + 1 ELSE k)
        BY <1>s, <2>2, <3>1
      <4>2. Settled(b)' = IF b = batch THEN Append(Settled(b), Tile) ELSE Settled(b)
        BY <1>m, <2>5, <3>1
      <4>3. b \in Int /\ batch \in Int
        BY <1>f DEF Batches
      <4>4. CASE b = batch
        <5>1. Settled(b) = TilesUpto(q, k) /\ b <= batch
          BY <4>1, <4>3, <4>4
        <5> QED
          BY <3>3, <4>2, <4>4, <5>1
      <4>5. CASE b # batch
        <5>1. b < batch <=> b <= batch
          BY <4>3, <4>5
        <5> QED
          BY <4>1, <4>2, <4>5, <5>1
      <4> QED
        BY <4>4, <4>5
    <3>5. ASSUME NEW b \in Batches PROVE Counted(b)' = IF b <= batch THEN k + 1 ELSE k
      <4>1. b <= NUM_BATCHES - 1 /\ (b < batch + 1 <=> b <= batch)
        BY <1>f DEF Batches
      <4>2. Counted(b)' = IF comp_done' \/ cs' = "C_DONE" \/ (cs' = "C_DP_RUN" /\ b < batch')
                          THEN k + 1 ELSE k
        BY <2>3
      <4>3. CASE batch = NUM_BATCHES - 1 /\ cs' = "C_DONE"
        BY <4>1, <4>2, <4>3
      <4>4. CASE batch' = batch + 1 /\ cs' = "C_DP_RUN"
        BY <3>1, <4>1, <4>2, <4>4
      <4> QED
        BY <3>2, <4>3, <4>4
    <3> QED
      BY <3>4, <3>5
  <2>6. CASE ~PipeBatchEnd
    <3>1. \A b \in Batches : Settled(b)' = TilesUpto(q, Counted(b))
      BY <1>m, <1>s, <2>6
    <3>2. \A b \in Batches : Counted(b)' = Counted(b)
      <4>1. CASE PipeRun
        BY <1>f, <2>2, <2>3, <4>1 DEF PipeRun
      <4>2. CASE PipeDone
        BY <1>f, <2>2, <2>3, <4>2 DEF PipeDone
      <4>3. CASE PipeIdle
        <5>1. ~comp_done' /\ (cs' = "C_IDLE" \/ (cs' = "C_DP_RUN" /\ batch' = 0)) /\ cs = "C_IDLE"
          BY <4>3 DEF PipeIdle
        <5>2. \A b \in Batches : ~(b < 0)
          BY <1>f DEF Batches
        <5>3. \A b \in Batches : Counted(b) = k
          BY <2>2, <5>1
        <5>4. \A b \in Batches : ~(cs' = "C_DP_RUN" /\ b < batch')
          BY <5>1, <5>2
        <5>5. \A b \in Batches : Counted(b)' = k
          BY <2>3, <5>1, <5>4
        <5> QED
          BY <5>3, <5>5
      <4> QED
        BY <1>f, <2>6, <4>1, <4>2, <4>3 DEF PipeTick
    <3> QED
      BY <3>1, <3>2
  <2> QED
    BY <2>5, <2>6
<1> QED
  BY <1>1, <1>2

(* The other states hand the rows on as they are.                           *)
LEMMA NextSettled ==
  ASSUME HistInv, SettledInv, PipePace, FastPipes, PipeClock, dp_chunks \in ChunkCounts
  PROVE  SettledInv'
<1>1. PICK start \in BOOLEAN, rdv \in BOOLEAN, taken \in BOOLEAN :
        PipeMasterTick(start, rdv, taken)
  BY DEF PipeClock
<1>2. CASE ms = "S_COMPUTE"
  <2>1. Compute(rdv)
    BY <1>1, <1>2 DEF PipeMasterTick, PipeNormalize, MasterTick, Idle, LoadQ, InitContext, LoadK,
                      LoadV, NormalizeRows, WriteO, NextQ, Done
  <2> QED
    BY <2>1, SettledInCompute
<1>3. CASE ms # "S_COMPUTE"
  <2>1. /\ FeedInv /\ PipeTick
        /\ \A b \in Batches : Settled(b)' = IF ms = "S_INIT_CONTEXT" THEN <<>> ELSE Settled(b)
        /\ cs' = "C_IDLE" /\ ~comp_done'
    <3>1. FeedInv /\ cs = "C_IDLE" /\ ~comp_start
      BY <1>3 DEF HistInv, FlowInv, FeedInv, CompInv
    <3>2. PipeTick
      BY <3>1, ClockEdge
    <3>3. cs' = "C_IDLE" /\ ~comp_done'
      BY <3>1, <3>2 DEF PipeTick, PipeIdle, PipeRun, PipeBatchEnd, PipeDone
    <3> QED
      BY <3>1, <3>2, <3>3, RowsMove
  <2>2. CASE PipeNormalize
    <3>1. ms = "S_NORMALIZE" /\ ms' \in {"S_NORMALIZE", "S_WRITE_O"} /\ q_tile_idx' = q_tile_idx
      BY <2>1, <2>2, NormalizerStep DEF PipeNormalize
    <3>2. ms' = "S_NORMALIZE" => \A b \in Batches : Counted(b)' = Counted(b)
      BY <3>1 DEF Counted
    <3> QED
      BY <2>1, <3>1, <3>2 DEF SettledInv
  <2>3. CASE ~PipeNormalize
    <3>1. ms # "S_NORMALIZE" /\ MasterTick(start, rdv, taken)
      BY <1>1, <2>1, <2>3, OtherStatesStep
    <3>2. /\ ms' = "S_LOAD_K" => \/ ms = "S_INIT_CONTEXT" /\ k_tile_idx' = 0
                                 \/ ms = "S_LOAD_K" /\ k_tile_idx' = k_tile_idx /\ q_tile_idx' = q_tile_idx
          /\ ms' = "S_LOAD_V" => ms \in {"S_LOAD_K", "S_LOAD_V"} /\ UNCHANGED <<k_tile_idx, q_tile_idx>>
          /\ ms' = "S_COMPUTE" => ms = "S_LOAD_V" /\ UNCHANGED <<k_tile_idx, q_tile_idx>>
          /\ ms' # "S_NORMALIZE"
      BY <1>3, <3>1 DEF MasterTick, Idle, LoadQ, InitContext, LoadK, LoadV, Compute, NormalizeRows,
             WriteO, NextQ, Done, GoTo, fsmVars
    <3>3. ASSUME ms' \in {"S_LOAD_K", "S_LOAD_V", "S_COMPUTE"}
          PROVE  /\ k_tile_idx' = 0 /\ \A b \in Batches : Settled(b)' = <<>>
      <4>1. CASE ms = "S_INIT_CONTEXT"
        BY <2>1, <3>2, <3>3, <4>1
      <4>2. CASE ms # "S_INIT_CONTEXT"
        <5>1. ms \in {"S_LOAD_K", "S_LOAD_V"} /\ k_tile_idx' = k_tile_idx
          BY <3>2, <3>3, <4>2
        <5>2. k_tile_idx = 0 /\ \A b \in Batches : Settled(b) = TilesUpto(q_tile_idx, Counted(b))
          BY <5>1 DEF SettledInv
        <5>3. \A b \in Batches : Counted(b) = 0
          BY <5>1 DEF Counted
        <5>4. TilesUpto(q_tile_idx, 0) = <<>>
          BY TilesMore
        <5> QED
          BY <2>1, <4>2, <5>1, <5>2, <5>3, <5>4
      <4> QED
        BY <4>1, <4>2
    <3>4. ms' \in {"S_LOAD_K", "S_LOAD_V", "S_COMPUTE"} => \A b \in Batches : Counted(b)' = 0
      BY <2>1, <3>3 DEF Counted
    <3>5. TilesUpto(q_tile_idx', 0) = <<>>
      BY DEF TilesUpto
    <3> QED
      BY <3>2, <3>3, <3>4, <3>5 DEF SettledInv
  <2> QED
    BY <2>2, <2>3
<1> QED
  BY <1>2, <1>3
-----------------------------------------------------------------------------
(* ---- S_NORMALIZE, cycle by cycle ---- *)

(* What every row has folded by then; the denominator of the row being      *)
(* divided, and its chunk d divided by it.                                  *)
Whole == TilesUpto(q_tile_idx, NUM_K_TILES)
Asked == [row |-> norm_row, ctx |-> Whole]
QuotientOf(d) == [row |-> norm_row, d |-> d, ctx |-> Whole]

(* Nothing in the reciprocal, nothing in the rounding.                      *)
NoRecip == recip_pipe = [i \in 1 .. RECIP_LAT |-> Empty]
NoChunk == norm_pipe = [i \in 1 .. NORM_LAT |-> Empty]

(* Before a row is begun; its denominator in register j of the reciprocal;  *)
(* u cycles after the reciprocal was taken.                                 *)
Resting ==
  /\ ~norm_recip_pending /\ ~norm_row_ready /\ ~norm_recip_in_valid
  /\ NoRecip /\ NoChunk
Inverting(j) ==
  /\ norm_recip_pending /\ ~norm_row_ready /\ norm_recip_in_valid = (j = 0)
  /\ recip_pipe = [i \in 1 .. RECIP_LAT |-> IF i = j THEN Asked ELSE Empty]
  /\ NoChunk
Dividing(u) ==
  /\ ~norm_recip_pending /\ norm_row_ready /\ ~norm_recip_in_valid
  /\ NoRecip /\ norm_row_recip = Asked
  /\ norm_issue_done = (u > LastChunkOfRow)
  /\ norm_d = IF u > LastChunkOfRow THEN LastChunkOfRow ELSE u
  /\ norm_recv_d = IF u < NORM_LAT THEN 0 ELSE u - NORM_LAT
  /\ norm_pipe = [i \in 1 .. NORM_LAT |->
                    IF u - i \in 0 .. LastChunkOfRow THEN QuotientOf(u - i) ELSE Empty]
DivideInv ==
  IF ms = "S_NORMALIZE"
  THEN \/ Resting
       \/ \E j \in 0 .. RECIP_LAT : Inverting(j)
       \/ \E u \in 0 .. LastChunkOfRow + NORM_LAT : Dividing(u)
  ELSE ~norm_recip_in_valid /\ NoRecip /\ NoChunk

(* In S_NORMALIZE every row has all tiles.                                  *)
LEMMA RowsDone ==
  ASSUME HistInv, SettledInv, ms = "S_NORMALIZE"
  PROVE  RowContext = Whole /\ Whole # <<>>
<1>1. /\ cs = "C_IDLE" /\ norm_row \div (2 * SOFTMAX_CTXS) \in Batches
  BY GroupsOfRows DEF HistInv, FlowInv, FeedInv, FsmTypeOK, CompInv
<1>2. Settled(norm_row \div (2 * SOFTMAX_CTXS)) = TilesUpto(q_tile_idx, NUM_K_TILES)
  BY <1>1 DEF SettledInv, Counted
<1>3. RowContext = Whole
  BY <1>1, <1>2 DEF Settled, RowContext, Whole
<1>4. Len(Whole) # 0
  BY CoreAssumption, TilesMore DEF Whole
<1> QED
  BY <1>3, <1>4


(* Asked and QuotientOf are not the empty register.                         *)
LEMMA NotEmpty ==
  ASSUME HistInv
  PROVE  Asked # Empty /\ \A d : QuotientOf(d) # Empty
<1>1. norm_row # -1
  BY GroupsOfRows DEF HistInv, FlowInv, FeedInv, FsmTypeOK
<1>2. Asked.row # Empty.row /\ \A d : QuotientOf(d).row # Empty.row
  BY <1>1 DEF Asked, QuotientOf, Empty
<1> QED
  BY <1>2

(* Reciprocal and rounding take one operand and shift, on every edge.       *)
LEMMA PipesShift ==
  ASSUME HistInv, PipeClock
  PROVE  /\ recip_pipe' = [i \in 1 .. RECIP_LAT |-> recip_pipe'[i]]
         /\ recip_pipe'[1] = IF norm_recip_in_valid
                             THEN [row |-> norm_row, ctx |-> RowContext] ELSE Empty
         /\ \A i \in 1 .. RECIP_LAT - 1 : recip_pipe'[i + 1] = recip_pipe[i]
         /\ norm_pipe' = [i \in 1 .. NORM_LAT |-> norm_pipe'[i]]
         /\ norm_pipe'[1] = IF ms = "S_NORMALIZE" /\ norm_row_ready /\ ~norm_issue_done
                            THEN Quotient(RowContext) ELSE Empty
         /\ \A i \in 1 .. NORM_LAT - 1 : norm_pipe'[i + 1] = norm_pipe[i]
<1>1. RecipTick(RowContext) /\ ChunkTick(RowContext, ms = "S_NORMALIZE")
  BY DEF PipeClock, PipeMasterTick
<1>2. RECIP_LAT \in Nat \ {0, 1} /\ NORM_LAT \in Nat \ {0, 1}
  BY DEF RECIP_LAT, NORM_LAT
<1> DEFINE x == IF norm_recip_in_valid THEN [row |-> norm_row, ctx |-> RowContext] ELSE Empty
           y == IF ms = "S_NORMALIZE" /\ norm_row_ready /\ ~norm_issue_done
                THEN Quotient(RowContext) ELSE Empty
<1>3. recip_pipe' = <<x>> \o SubSeq(recip_pipe, 1, RECIP_LAT - 1)
  BY <1>1 DEF RecipTick
<1>4. norm_pipe' = <<y>> \o SubSeq(norm_pipe, 1, NORM_LAT - 1)
  BY <1>1 DEF ChunkTick
<1> HIDE DEF x, y
<1>5. /\ recip_pipe' = [i \in 1 .. RECIP_LAT |-> recip_pipe'[i]] /\ recip_pipe'[1] = x
      /\ \A i \in 1 .. RECIP_LAT - 1 : recip_pipe'[i + 1] = recip_pipe[i]
  BY <1>2, <1>3, ShiftInto
<1>6. /\ norm_pipe' = [i \in 1 .. NORM_LAT |-> norm_pipe'[i]] /\ norm_pipe'[1] = y
      /\ \A i \in 1 .. NORM_LAT - 1 : norm_pipe'[i + 1] = norm_pipe[i]
  BY <1>2, <1>4, ShiftInto
<1> QED
  BY <1>5, <1>6 DEF x, y

(* A denominator moves on by one register, and out of the last one; an      *)
(* empty pipeline stays empty.                                              *)
LEMMA RecipMoves ==
  ASSUME HistInv, PipeClock, NEW j \in 0 .. RECIP_LAT + 1,
         RowContext = Whole, norm_recip_in_valid = (j = 0),
         recip_pipe = [i \in 1 .. RECIP_LAT |-> IF i = j THEN Asked ELSE Empty]
  PROVE  recip_pipe' = [i \in 1 .. RECIP_LAT |-> IF i = j + 1 THEN Asked ELSE Empty]
<1>1. RECIP_LAT \in Nat
  BY DEF RECIP_LAT
<1>2. ASSUME NEW i \in 1 .. RECIP_LAT
      PROVE  recip_pipe'[i] = IF i = j + 1 THEN Asked ELSE Empty
  <2>1. CASE i = 1
    <3>1. recip_pipe'[1] = IF j = 0 THEN Asked ELSE Empty
      BY PipesShift DEF Asked
    <3>2. 1 = j + 1 <=> j = 0
      BY <1>1
    <3> QED
      BY <2>1, <3>1, <3>2
  <2>2. CASE i # 1
    <3>1. i - 1 \in 1 .. RECIP_LAT - 1 /\ i - 1 \in 1 .. RECIP_LAT /\ i - 1 + 1 = i
          /\ (i - 1 = j <=> i = j + 1)
      BY <1>1, <2>2
    <3>2. recip_pipe'[i] = recip_pipe[i - 1]
      BY <3>1, PipesShift
    <3> QED
      BY <3>1, <3>2
  <2> QED
    BY <2>1, <2>2
<1>3. recip_pipe' = [i \in 1 .. RECIP_LAT |-> recip_pipe'[i]]
  BY PipesShift
<1> QED
  BY <1>2, <1>3

(* What is empty and given nothing stays empty.                             *)
LEMMA RecipEmpty ==
  ASSUME HistInv, PipeClock, NoRecip, ~norm_recip_in_valid
  PROVE  NoRecip'
<1>1. RECIP_LAT \in Nat
  BY DEF RECIP_LAT
<1>2. ASSUME NEW i \in 1 .. RECIP_LAT PROVE recip_pipe'[i] = Empty
  <2>1. CASE i = 1
    BY <2>1, PipesShift
  <2>2. CASE i # 1
    <3>1. i - 1 \in 1 .. RECIP_LAT - 1 /\ i - 1 \in 1 .. RECIP_LAT /\ i - 1 + 1 = i
      BY <1>1, <2>2
    <3> QED
      BY <3>1, PipesShift DEF NoRecip
  <2> QED
    BY <2>1, <2>2
<1>3. recip_pipe' = [i \in 1 .. RECIP_LAT |-> recip_pipe'[i]]
  BY PipesShift
<1> QED
  BY <1>2, <1>3 DEF NoRecip, Empty

LEMMA ChunksEmpty ==
  ASSUME HistInv, PipeClock, NoChunk, ms # "S_NORMALIZE" \/ ~norm_row_ready
  PROVE  NoChunk'
<1>1. NORM_LAT \in Nat
  BY DEF NORM_LAT
<1>2. ASSUME NEW i \in 1 .. NORM_LAT PROVE norm_pipe'[i] = Empty
  <2>1. CASE i = 1
    BY <2>1, PipesShift
  <2>2. CASE i # 1
    <3>1. i - 1 \in 1 .. NORM_LAT - 1 /\ i - 1 \in 1 .. NORM_LAT /\ i - 1 + 1 = i
      BY <1>1, <2>2
    <3> QED
      BY <3>1, PipesShift DEF NoChunk
  <2> QED
    BY <2>1, <2>2
<1>3. norm_pipe' = [i \in 1 .. NORM_LAT |-> norm_pipe'[i]]
  BY PipesShift
<1> QED
  BY <1>2, <1>3 DEF NoChunk, Empty

(* The edge of S_NORMALIZE; row and tile are the same until the row is done.*)
LEMMA NormalizeEdge ==
  ASSUME HistInv, PipeClock, ms = "S_NORMALIZE"
  PROVE  PipeNormalize /\ dp_chunks' = dp_chunks /\ q_tile_idx' = q_tile_idx
<1>1. PipeNormalize
  BY DEF PipeClock, PipeMasterTick
<1>2. FeedInv
  BY DEF HistInv, FlowInv
<1> QED
  BY <1>1, <1>2, NormalizerStep, RowsFollow

(* A row has at least as many chunks as the rounding has registers, and one. *)
LEMMA LastChunks ==
  ASSUME HistInv
  PROVE  LastChunkOfRow \in Nat /\ LastChunkOfRow >= NORM_LAT /\ NORM_LAT = 3 /\ RECIP_LAT = 10
<1>1. dp_chunks \in {1, 2}
  BY DEF HistInv, FlowInv, FeedInv, FsmTypeOK
<1> QED
  BY <1>1 DEF LastChunkOfRow, NORM_LAT, RECIP_LAT

(* The chunks move on by one register.                                      *)
LEMMA ChunksMove ==
  ASSUME HistInv, PipeClock, ms = "S_NORMALIZE", RowContext = Whole,
         NEW u \in 0 .. LastChunkOfRow + NORM_LAT, Dividing(u)
  PROVE  norm_pipe' = [i \in 1 .. NORM_LAT |->
                         IF u + 1 - i \in 0 .. LastChunkOfRow THEN QuotientOf(u + 1 - i) ELSE Empty]
<1>f. LastChunkOfRow \in Nat /\ NORM_LAT = 3
  BY LastChunks
<1> DEFINE last == LastChunkOfRow
<1> HIDE DEF last
<1>1. ASSUME NEW i \in 1 .. NORM_LAT
      PROVE  norm_pipe'[i] = IF u + 1 - i \in 0 .. last THEN QuotientOf(u + 1 - i) ELSE Empty
  <2>1. CASE i = 1
    <3>1. /\ norm_row_ready /\ norm_issue_done = (u > last) /\ norm_row_recip = Asked
          /\ norm_d = IF u > last THEN last ELSE u
      BY DEF Dividing, last
    <3>2. norm_pipe'[1] = IF u > last THEN Empty ELSE Quotient(Whole)
      BY <3>1, PipesShift
    <3>3. u + 1 - 1 = u /\ (u > last <=> ~(u \in 0 .. last)) /\ u \in Nat
      BY <1>f DEF last
    <3>4. ~(u > last) => Quotient(Whole) = QuotientOf(u)
      BY <3>1 DEF Quotient, QuotientOf, Asked
    <3> QED
      BY <2>1, <3>2, <3>3, <3>4
  <2>2. CASE i # 1
    <3>1. i - 1 \in 1 .. NORM_LAT - 1 /\ i - 1 \in 1 .. NORM_LAT /\ i - 1 + 1 = i
          /\ u - (i - 1) = u + 1 - i
      BY <1>f, <2>2
    <3>2. norm_pipe'[i] = norm_pipe[i - 1]
      BY <3>1, PipesShift
    <3>3. norm_pipe[i - 1] = IF u - (i - 1) \in 0 .. last THEN QuotientOf(u - (i - 1)) ELSE Empty
      BY <3>1 DEF Dividing, last
    <3> QED
      BY <3>1, <3>2, <3>3
  <2> QED
    BY <2>1, <2>2
<1>2. norm_pipe' = [i \in 1 .. NORM_LAT |-> norm_pipe'[i]]
  BY PipesShift
<1> QED
  BY <1>1, <1>2 DEF last

(* Asking for the reciprocal, waiting for it, taking it.                    *)
LEMMA NextInverting ==
  ASSUME HistInv, PipeClock, ms = "S_NORMALIZE", RowContext = Whole, Whole # <<>>,
         Resting \/ \E j \in 0 .. RECIP_LAT : Inverting(j)
  PROVE  /\ \/ \E j \in 0 .. RECIP_LAT : Inverting(j)'
            \/ Dividing(0)'
         /\ ms' = "S_NORMALIZE" /\ UNCHANGED <<norm_row, o_row, o_buf>>
<1>f. /\ PipeNormalize /\ dp_chunks' = dp_chunks /\ q_tile_idx' = q_tile_idx
      /\ NormalizeStep(Whole, LastChunkOfRow, TQ - 1)
  BY NormalizeEdge DEF PipeNormalize
<1>g. NORM_LAT = 3 /\ RECIP_LAT = 10 /\ LastChunkOfRow \in Nat
  BY LastChunks
<1>h. norm_row' = norm_row => Asked' = Asked
  BY <1>f DEF Asked, Whole, TilesUpto
<1>n. ~norm_row_ready => ~LastStored(LastChunkOfRow, TQ - 1)
  BY DEF LastStored
<1>o. o_row' = o_row /\ ~norm_row_ready => ms' = "S_NORMALIZE" /\ o_buf' = o_buf
  BY <1>f, <1>n DEF PipeNormalize, fsmVars
<1>1. CASE Resting
  <2>1. Request(Whole)
    BY <1>f, <1>1 DEF NormalizeStep, Resting, AwaitReciprocal, TakeReciprocal, AwaitChunk, StoreChunk,
                      StoreLastChunk
  <2>2. /\ norm_recip_pending' /\ ~norm_row_ready' /\ norm_recip_in_valid' = TRUE
        /\ UNCHANGED <<norm_row, o_row>>
    BY <2>1 DEF Request
  <2>3. NoRecip' /\ NoChunk'
    BY <1>1, RecipEmpty, ChunksEmpty DEF Resting
  <2>4. recip_pipe' = [i \in 1 .. RECIP_LAT |-> IF i = 0 THEN Asked' ELSE Empty]
    <3>1. recip_pipe' = [i \in 1 .. RECIP_LAT |-> Empty]
      BY <2>3 DEF NoRecip, Empty
    <3>2. \A i \in 1 .. RECIP_LAT : i # 0
      BY <1>g
    <3> QED
      BY <3>1, <3>2
  <2>5. Inverting(0)'
    BY <2>2, <2>3, <2>4 DEF Inverting, Empty
  <2>6. 0 \in 0 .. RECIP_LAT
    BY <1>g
  <2> QED
    BY <1>1, <1>o, <2>2, <2>5, <2>6 DEF Resting
<1>2. ASSUME NEW j \in 0 .. RECIP_LAT, Inverting(j)
      PROVE  /\ j # RECIP_LAT => Inverting(j + 1)'
             /\ j = RECIP_LAT => Dividing(0)'
             /\ ms' = "S_NORMALIZE" /\ UNCHANGED <<norm_row, o_row, o_buf>>
  <2>1. /\ norm_recip_pending /\ ~norm_row_ready /\ norm_recip_in_valid = (j = 0)
        /\ recip_pipe = [i \in 1 .. RECIP_LAT |-> IF i = j THEN Asked ELSE Empty]
        /\ NoChunk
    BY <1>2 DEF Inverting
  <2>2. norm_recip_out = IF j = RECIP_LAT THEN Asked ELSE Empty
    <3>1. RECIP_LAT \in 1 .. RECIP_LAT /\ (RECIP_LAT = j <=> j = RECIP_LAT)
      BY <1>g
    <3> QED
      BY <2>1, <3>1 DEF norm_recip_out
  <2>3. recip_pipe' = [i \in 1 .. RECIP_LAT |-> IF i = j + 1 THEN Asked ELSE Empty]
    <3>1. j \in 0 .. RECIP_LAT + 1
      BY <1>g
    <3> QED
      BY <2>1, <3>1, RecipMoves
  <2>4. NoChunk'
    BY <2>1, ChunksEmpty
  <2>5. IF j = RECIP_LAT THEN TakeReciprocal ELSE AwaitReciprocal
    BY <1>f, <2>1, <2>2, NotEmpty
       DEF NormalizeStep, AwaitReciprocal, TakeReciprocal, AwaitChunk, StoreChunk, StoreLastChunk, Request
  <2>6. UNCHANGED <<norm_row, o_row>> /\ norm_recip_in_valid' = FALSE
    BY <2>5 DEF AwaitReciprocal, TakeReciprocal
  <2>7. Asked' = Asked
    BY <1>h, <2>6
  <2>8. CASE j # RECIP_LAT
    <3>1. j + 1 # 0
      BY <1>g
    <3>2. norm_recip_pending' /\ ~norm_row_ready'
      BY <2>1, <2>5, <2>8 DEF AwaitReciprocal, normRowVars
    <3>3. recip_pipe' = [i \in 1 .. RECIP_LAT |-> IF i = j + 1 THEN Asked' ELSE Empty]
      BY <2>3, <2>7
    <3> QED
      BY <1>o, <2>1, <2>4, <2>6, <2>8, <3>1, <3>2, <3>3 DEF Inverting, Empty
  <2>9. CASE j = RECIP_LAT
    <3>1. /\ ~norm_recip_pending' /\ norm_row_ready' /\ norm_row_recip' = Asked
          /\ norm_d' = 0 /\ norm_recv_d' = 0 /\ norm_issue_done' = FALSE
      BY <2>2, <2>5, <2>9 DEF TakeReciprocal
    <3>2. recip_pipe' = [i \in 1 .. RECIP_LAT |-> Empty]
      <4>1. \A i \in 1 .. RECIP_LAT : i # j + 1
        BY <1>g, <2>9
      <4> QED
        BY <2>3, <4>1
    <3>3. NoRecip'
      BY <3>2 DEF NoRecip, Empty
    <3>4. norm_pipe' = [i \in 1 .. NORM_LAT |->
                   IF 0 - i \in 0 .. LastChunkOfRow' THEN QuotientOf(0 - i)' ELSE Empty]
      <4>1. \A i \in 1 .. NORM_LAT : ~(0 - i \in 0 .. LastChunkOfRow')
        BY <1>g
      <4>2. norm_pipe' = [i \in 1 .. NORM_LAT |-> Empty]
        BY <2>4 DEF NoChunk, Empty
      <4> QED
        BY <4>1, <4>2
    <3>5. LastChunkOfRow' \in Nat
      BY <1>f, <1>g DEF LastChunkOfRow
    <3>6. (0 > LastChunkOfRow') = FALSE /\ 0 < NORM_LAT
      <4> HIDE DEF LastChunkOfRow
      <4> QED
        BY <1>g, <3>5
    <3>7. /\ norm_issue_done' = (0 > LastChunkOfRow')
          /\ norm_d' = IF 0 > LastChunkOfRow' THEN LastChunkOfRow' ELSE 0
          /\ norm_recv_d' = IF 0 < NORM_LAT THEN 0 ELSE 0 - NORM_LAT
      BY <3>1, <3>6
    <3>8. norm_row_recip' = Asked'
      BY <2>7, <3>1
    <3>9. Dividing(0)'
      BY <2>6, <3>1, <3>3, <3>4, <3>7, <3>8 DEF Dividing, Empty
    <3> QED
      BY <1>o, <2>1, <2>6, <2>9, <3>9
  <2> QED
    BY <1>o, <2>1, <2>6, <2>8, <2>9
<1>3. CASE \E j \in 0 .. RECIP_LAT : Inverting(j)
  <2>1. PICK j \in 0 .. RECIP_LAT : Inverting(j)
    BY <1>3
  <2>2. j # RECIP_LAT => j + 1 \in 0 .. RECIP_LAT
    BY <1>g
  <2> QED
    BY <1>2, <2>1, <2>2
<1> QED
  BY <1>1, <1>3

(* A chunk goes in every cycle, and NORM_LAT cycles later it is stored in   *)
(* its place; with the last one the row is done.                            *)
LEMMA NextDividing ==
  ASSUME HistInv, PipeClock, ms = "S_NORMALIZE", RowContext = Whole, Whole # <<>>,
         NEW u \in 0 .. LastChunkOfRow + NORM_LAT, Dividing(u)
  PROVE  /\ u < NORM_LAT => o_row' = o_row /\ o_buf' = o_buf
         /\ u >= NORM_LAT => o_row' = [o_row EXCEPT ![norm_row][u - NORM_LAT] = Whole]
         /\ u # LastChunkOfRow + NORM_LAT =>
              /\ Dividing(u + 1)' /\ ms' = "S_NORMALIZE" /\ norm_row' = norm_row
         /\ u = LastChunkOfRow + NORM_LAT =>
              /\ Resting'
              /\ norm_row' = IF norm_row = TQ - 1 THEN norm_row ELSE norm_row + 1
              /\ ms' = IF norm_row = TQ - 1 THEN "S_WRITE_O" ELSE "S_NORMALIZE"
<1> DEFINE last == LastChunkOfRow
<1>f. /\ PipeNormalize /\ dp_chunks' = dp_chunks /\ q_tile_idx' = q_tile_idx
      /\ NormalizeStep(Whole, last, TQ - 1)
  BY NormalizeEdge DEF PipeNormalize
<1>l. LastChunkOfRow' = last
  BY <1>f DEF LastChunkOfRow
<1>g. NORM_LAT = 3 /\ RECIP_LAT = 10 /\ last \in Nat /\ last >= 3
  BY LastChunks
<1>m. /\ ms' = IF LastStored(last, TQ - 1) THEN "S_WRITE_O" ELSE "S_NORMALIZE"
      /\ o_row' = o_row => o_buf' = o_buf
  BY <1>f DEF PipeNormalize, fsmVars, GoTo
<1> HIDE DEF last
<1>u. u \in Nat /\ u <= last + 3
  BY <1>g DEF last
<1>d. /\ ~norm_recip_pending /\ norm_row_ready /\ ~norm_recip_in_valid
      /\ NoRecip /\ norm_row_recip = Asked
      /\ norm_issue_done = (u > last)
      /\ norm_d = IF u > last THEN last ELSE u
      /\ norm_recv_d = IF u < 3 THEN 0 ELSE u - 3
      /\ norm_pipe = [i \in 1 .. 3 |->
                        IF u - i \in 0 .. last THEN QuotientOf(u - i) ELSE Empty]
  BY <1>g DEF Dividing, last
<1>c. norm_chunk = IF u < 3 THEN Empty ELSE QuotientOf(u - 3)
  <2>1. norm_chunk = IF u - 3 \in 0 .. last THEN QuotientOf(u - 3) ELSE Empty
    BY <1>d, <1>g DEF norm_chunk
  <2>2. u - 3 \in 0 .. last <=> ~(u < 3)
    BY <1>g, <1>u
  <2> QED
    BY <2>1, <2>2
<1>r. NoRecip'
  BY <1>d, RecipEmpty
<1>p. norm_pipe' = [i \in 1 .. 3 |->
                      IF u + 1 - i \in 0 .. last THEN QuotientOf(u + 1 - i) ELSE Empty]
  BY <1>g, ChunksMove DEF last
<1>a. IF u < 3 THEN AwaitChunk(last)
      ELSE IF u = last + 3 THEN StoreLastChunk(last, TQ - 1) ELSE StoreChunk(last)
  <2>1. u < 3 => norm_chunk = Empty
    BY <1>c
  <2>2. ~(u < 3) => norm_chunk # Empty /\ (norm_recv_d = last <=> u = last + 3)
    BY <1>c, <1>d, <1>g, <1>u, NotEmpty
  <2>3. AwaitChunk(last) \/ StoreChunk(last) \/ StoreLastChunk(last, TQ - 1)
    BY <1>d, <1>f DEF NormalizeStep, AwaitReciprocal, TakeReciprocal, Request
  <2> QED
    BY <2>1, <2>2, <2>3 DEF AwaitChunk, StoreChunk, StoreLastChunk
<1>s. ~(u < 3) => o_row' = [o_row EXCEPT ![norm_row][u - 3] = Whole]
  <2>1. ASSUME ~(u < 3) PROVE Store
    BY <1>a, <2>1 DEF StoreChunk, StoreLastChunk
  <2>2. ASSUME ~(u < 3)
        PROVE  norm_recv_d = u - 3 /\ norm_chunk.row = norm_row /\ norm_chunk.d = u - 3
               /\ norm_chunk.ctx = Whole
    BY <1>c, <1>d, <2>2 DEF QuotientOf
  <2> QED
    BY <2>1, <2>2 DEF Store
<1>i. norm_recip_in_valid' = FALSE /\ ~norm_recip_pending'
  BY <1>a, <1>d DEF AwaitChunk, StoreChunk, StoreLastChunk
<1>1. CASE u = last + 3
  <2>1. StoreLastChunk(last, TQ - 1) /\ ~(u < 3) /\ u >= 3
    BY <1>1, <1>a, <1>g, <1>u
  <2>2. ~norm_row_ready' /\ norm_row' = IF norm_row = TQ - 1 THEN norm_row ELSE norm_row + 1
    BY <2>1 DEF StoreLastChunk
  <2>3. NoChunk'
    <3>1. \A i \in 1 .. 3 : ~(u + 1 - i \in 0 .. last)
      BY <1>1, <1>g
    <3>2. norm_pipe' = [i \in 1 .. 3 |-> Empty]
      BY <1>p, <3>1
    <3> QED
      BY <1>g, <3>2 DEF NoChunk, Empty
  <2>4. LastStored(last, TQ - 1) <=> norm_row = TQ - 1
    BY <2>1 DEF StoreLastChunk, LastStored
  <2>5. ms' = IF norm_row = TQ - 1 THEN "S_WRITE_O" ELSE "S_NORMALIZE"
    BY <1>m, <2>4
  <2>6. Resting'
    BY <1>i, <1>r, <2>2, <2>3 DEF Resting
  <2> QED
    BY <1>1, <1>g, <1>s, <2>1, <2>2, <2>5, <2>6 DEF last
<1>2. CASE u # last + 3
  <2>1. IF u < 3 THEN AwaitChunk(last) ELSE StoreChunk(last)
    BY <1>2, <1>a
  <2>2. /\ norm_row' = norm_row /\ norm_row_ready' /\ norm_row_recip' = norm_row_recip
        /\ IssueChunk(last)
    BY <1>d, <2>1 DEF AwaitChunk, StoreChunk
  <2>3. norm_recv_d' = IF u + 1 < 3 THEN 0 ELSE u + 1 - 3
    <3>1. CASE u < 3
      <4>1. norm_recv_d' = 0
        BY <1>d, <2>1, <3>1 DEF AwaitChunk
      <4> QED
        BY <1>u, <3>1, <4>1
    <3>2. CASE ~(u < 3)
      <4>1. norm_recv_d' = u - 3 + 1
        BY <1>d, <2>1, <3>2 DEF StoreChunk
      <4> QED
        BY <1>u, <3>2, <4>1
    <3> QED
      BY <3>1, <3>2
  <2>4. /\ norm_issue_done' = (u + 1 > last)
        /\ norm_d' = IF u + 1 > last THEN last ELSE u + 1
    <3>1. CASE u > last
      <4>0. (u > last) = TRUE /\ (u + 1 > last) = TRUE
        BY <1>g, <1>u, <3>1
      <4>1. norm_issue_done = TRUE /\ norm_d = last /\ (u + 1 > last) = TRUE
        BY <1>d, <4>0
      <4>2. norm_issue_done' = TRUE /\ norm_d' = last
        BY <2>2, <4>1 DEF IssueChunk
      <4> QED
        BY <4>1, <4>2
    <3>2. CASE u = last
      <4>1. norm_d = last /\ (u + 1 > last) = TRUE
        BY <1>d, <1>g, <1>u, <3>2
      <4>2. norm_issue_done' = TRUE /\ norm_d' = last
        BY <2>2, <4>1 DEF IssueChunk
      <4> QED
        BY <4>1, <4>2
    <3>3. CASE u < last
      <4>0. (u > last) = FALSE /\ (u + 1 > last) = FALSE /\ u # last
        BY <1>g, <1>u, <3>3
      <4>1. norm_d = u /\ norm_issue_done = FALSE /\ (u + 1 > last) = FALSE /\ u # last
        BY <1>d, <4>0
      <4>2. norm_issue_done' = FALSE /\ norm_d' = u + 1
        BY <2>2, <4>1 DEF IssueChunk
      <4> QED
        BY <4>1, <4>2
    <3> QED
      BY <1>g, <1>u, <3>1, <3>2, <3>3
  <2>5. Asked' = Asked /\ \A d : QuotientOf(d)' = QuotientOf(d)
    BY <1>f, <2>2 DEF Asked, QuotientOf, Whole, TilesUpto
  <2>6. norm_pipe' = [i \in 1 .. 3 |->
                        IF u + 1 - i \in 0 .. last THEN QuotientOf(u + 1 - i)' ELSE Empty]
    BY <1>p, <2>5
  <2>7. norm_row_recip' = Asked'
    BY <1>d, <2>2, <2>5
  <2>8. Dividing(u + 1)'
    <3> DEFINE v == u + 1
    <3>1. /\ norm_issue_done' = (v > LastChunkOfRow')
          /\ norm_d' = IF v > LastChunkOfRow' THEN LastChunkOfRow' ELSE v
          /\ norm_pipe' = [i \in 1 .. NORM_LAT |->
                        IF v - i \in 0 .. LastChunkOfRow' THEN QuotientOf(v - i)' ELSE Empty]
          /\ norm_recv_d' = IF v < NORM_LAT THEN 0 ELSE v - NORM_LAT
      BY <1>g, <1>l, <2>3, <2>4, <2>6
    <3>2. ~norm_recip_pending' /\ norm_row_ready' /\ ~norm_recip_in_valid'
      BY <1>i, <2>2
    <3> HIDE DEF v
    <3>3. Dividing(v)'
      BY <1>r, <2>7, <3>1, <3>2 DEF Dividing, Empty
    <3> QED
      BY <3>3 DEF v
  <2>9. ~LastStored(last, TQ - 1)
    BY <2>1 DEF AwaitChunk, StoreChunk, LastStored
  <2>10. u < 3 => o_row' = o_row
    BY <2>1 DEF AwaitChunk
  <2>11. u >= 3 <=> ~(u < 3)
    BY <1>u
  <2> QED
    BY <1>2, <1>g, <1>m, <1>s, <2>2, <2>8, <2>9, <2>10, <2>11 DEF last
<1> QED
  BY <1>1, <1>2

(* A reciprocal or a chunk never outlives its row, and none is left when    *)
(* S_NORMALIZE is.                                                          *)
LEMMA NextDivide ==
  ASSUME HistInv, SettledInv, DivideInv, PipeClock
  PROVE  DivideInv'
<1>l. dp_chunks' = dp_chunks /\ LastChunkOfRow' = LastChunkOfRow
  BY RowsFollow DEF LastChunkOfRow
<1>1. CASE ms # "S_NORMALIZE"
  <2>1. ~norm_recip_in_valid /\ NoRecip /\ NoChunk
    BY <1>1 DEF DivideInv
  <2>2. NoRecip' /\ NoChunk'
    BY <1>1, <2>1, RecipEmpty, ChunksEmpty
  <2>3. /\ ~norm_recip_in_valid'
        /\ ms' = "S_NORMALIZE" => ~norm_recip_pending' /\ ~norm_row_ready'
    BY <1>1 DEF PipeClock, PipeMasterTick, PipeNormalize, NormalizeStart, NormalizeOff
  <2> QED
    BY <2>2, <2>3 DEF DivideInv, Resting
<1>2. CASE ms = "S_NORMALIZE"
  <2>1. RowContext = Whole /\ Whole # <<>>
    BY <1>2, RowsDone
  <2>2. CASE Resting \/ \E j \in 0 .. RECIP_LAT : Inverting(j)
    <3>1. /\ \/ \E j \in 0 .. RECIP_LAT : Inverting(j)'
             \/ Dividing(0)'
          /\ ms' = "S_NORMALIZE"
      BY <1>2, <2>1, <2>2, NextInverting
    <3>2. 0 \in 0 .. LastChunkOfRow' + NORM_LAT
      <4> HIDE DEF LastChunkOfRow
      <4> QED
        BY <1>l, LastChunks
    <3> QED
      BY <3>1, <3>2 DEF DivideInv
  <2>3. CASE \E u \in 0 .. LastChunkOfRow + NORM_LAT : Dividing(u)
    <3>1. PICK u \in 0 .. LastChunkOfRow + NORM_LAT : Dividing(u)
      BY <2>3
    <3>2. /\ u # LastChunkOfRow + NORM_LAT => Dividing(u + 1)' /\ ms' = "S_NORMALIZE"
          /\ u = LastChunkOfRow + NORM_LAT => Resting'
      BY <1>2, <2>1, <3>1, NextDividing
    <3>3. CASE u = LastChunkOfRow + NORM_LAT
      BY <3>2, <3>3 DEF DivideInv, Resting
    <3>4. CASE u # LastChunkOfRow + NORM_LAT
      <4>1. u + 1 \in 0 .. LastChunkOfRow' + NORM_LAT
        <5> HIDE DEF LastChunkOfRow
        <5> QED
          BY <1>l, <3>1, <3>4, LastChunks
      <4> QED
        BY <3>2, <3>4, <4>1 DEF DivideInv
    <3> QED
      BY <3>3, <3>4
  <2> QED
    BY <1>2, <2>2, <2>3 DEF DivideInv
<1> QED
  BY <1>1, <1>2
-----------------------------------------------------------------------------
(* ---- The output rows and words ---- *)

(* The rows finished, and of the row at work the chunks that have come      *)
(* back, hold the whole context.                                            *)
OutRows == 0 .. TQ - 1
OutChunks == 0 .. LastChunkOfRow
RowsOutInv ==
  /\ o_row = [r \in OutRows |-> [d \in OutChunks |-> o_row[r][d]]]
  /\ ms = "S_NORMALIZE" =>
       /\ \A r \in OutRows, d \in OutChunks : r < norm_row => o_row[r][d] = Whole
       /\ norm_row_ready =>
            \A d \in OutChunks : d < norm_recv_d => o_row[norm_row][d] = Whole

(* A word that is of one context is what its two rows hold.                 *)
WordsOutInv ==
  /\ o_buf = [w \in QWords |-> o_buf[w]]
  /\ \A w \in QWords : OutWord(w - 1, o_row) \in {<<Torn>>, o_buf[w]}
  /\ ms = "S_WRITE_O" => \A w \in QWords : o_buf[w] = Whole

(* With the last chunk of the last row all of the output is whole.          *)
LEMMA NextRowsOut ==
  ASSUME HistInv, SettledInv, DivideInv, RowsOutInv, PipeClock
  PROVE  /\ RowsOutInv'
         /\ ms = "S_NORMALIZE" /\ ms' = "S_WRITE_O" =>
              \A r \in OutRows, d \in OutChunks : o_row'[r][d] = Whole
<1>l. dp_chunks' = dp_chunks /\ LastChunkOfRow' = LastChunkOfRow /\ OutChunks' = OutChunks
  BY RowsFollow DEF LastChunkOfRow, OutChunks
<1>r. norm_row \in OutRows /\ TQ \in Nat
  BY GroupsOfRows, CoreAssumption DEF HistInv, FlowInv, FeedInv, FsmTypeOK, OutRows
<1>s. o_row = [r \in OutRows |-> [d \in OutChunks |-> o_row[r][d]]]
  BY DEF RowsOutInv
<1>n. \A d \in OutChunks : ~(d < 0)
  BY LastChunks DEF OutChunks
<1>1. CASE ms # "S_NORMALIZE"
  <2>1. o_row' = o_row /\ (ms' = "S_NORMALIZE" => norm_row' = 0 /\ ~norm_row_ready')
    BY <1>1 DEF PipeClock, PipeMasterTick, PipeNormalize, NormalizeStart, NormalizeOff
  <2>2. \A r \in OutRows : ~(r < 0)
    BY DEF OutRows
  <2> QED
    BY <1>1, <1>l, <1>s, <2>1, <2>2 DEF RowsOutInv
<1>2. CASE ms = "S_NORMALIZE"
  <2>1. RowContext = Whole /\ Whole # <<>> /\ q_tile_idx' = q_tile_idx
    BY <1>2, RowsDone, NormalizeEdge
  <2>w. Whole' = Whole
    BY <2>1 DEF Whole, TilesUpto
  <2>2. /\ \A r \in OutRows, d \in OutChunks : r < norm_row => o_row[r][d] = Whole
        /\ norm_row_ready =>
            \A d \in OutChunks : d < norm_recv_d => o_row[norm_row][d] = Whole
    BY <1>2 DEF RowsOutInv
  <2>3. CASE Resting \/ \E j \in 0 .. RECIP_LAT : Inverting(j)
    <3>1. /\ \/ \E j \in 0 .. RECIP_LAT : Inverting(j)'
             \/ Dividing(0)'
          /\ ms' = "S_NORMALIZE" /\ UNCHANGED <<norm_row, o_row>>
      BY <1>2, <2>1, <2>3, NextInverting
    <3>2. norm_row_ready' => norm_recv_d' = 0
      <4>1. ASSUME NEW j \in 0 .. RECIP_LAT, Inverting(j)' PROVE ~norm_row_ready'
        BY <4>1 DEF Inverting
      <4>2. ASSUME Dividing(0)' PROVE norm_recv_d' = 0
        BY <4>2 DEF Dividing, NORM_LAT
      <4> QED
        BY <3>1, <4>1, <4>2
    <3> QED
      BY <1>l, <1>n, <1>s, <2>2, <2>w, <3>1, <3>2 DEF RowsOutInv
  <2>4. CASE \E u \in 0 .. LastChunkOfRow + NORM_LAT : Dividing(u)
    <3>1. PICK u \in 0 .. LastChunkOfRow + NORM_LAT : Dividing(u)
      BY <2>4
    <3> DEFINE last == LastChunkOfRow
    <3>g. NORM_LAT = 3 /\ last \in Nat
      BY LastChunks
    <3>2. /\ u < 3 => o_row' = o_row
          /\ u >= 3 => o_row' = [o_row EXCEPT ![norm_row][u - 3] = Whole]
          /\ u # last + 3 => /\ Dividing(u + 1)' /\ ms' = "S_NORMALIZE" /\ norm_row' = norm_row
          /\ u = last + 3 =>
              /\ Resting'
              /\ norm_row' = IF norm_row = TQ - 1 THEN norm_row ELSE norm_row + 1
              /\ ms' = IF norm_row = TQ - 1 THEN "S_WRITE_O" ELSE "S_NORMALIZE"
      BY <1>2, <2>1, <3>1, <3>g, NextDividing
    <3>3. norm_row_ready /\ norm_recv_d = IF u < 3 THEN 0 ELSE u - 3
      BY <3>1, <3>g DEF Dividing
    <3>4. OutChunks = 0 .. last
      BY DEF OutChunks
    <3> HIDE DEF last
    <3>u. u \in Nat /\ u <= last + 3
      BY <3>1, <3>g DEF last
    (* What has been stored of the row after this cycle.                     *)
    <3>5. /\ o_row' = [r \in OutRows |-> [d \in OutChunks |-> o_row'[r][d]]]
          /\ \A r \in OutRows, d \in OutChunks :
               o_row'[r][d] = IF r = norm_row /\ d = u - 3 THEN Whole ELSE o_row[r][d]
      <4>1. CASE u < 3
        <5>1. \A d \in OutChunks : d # u - 3
          BY <3>g, <3>u, <3>4, <4>1
        <5> QED
          BY <1>s, <3>2, <4>1, <5>1
      <4>2. CASE u >= 3
        <5>1. u - 3 \in OutChunks
          BY <3>g, <3>u, <3>4, <4>2
        <5>2. o_row' = [o_row EXCEPT ![norm_row][u - 3] = Whole]
          BY <3>2, <4>2
        <5> QED
          BY <1>r, <1>s, <5>1, <5>2
      <4> QED
        BY <3>g, <3>u, <4>1, <4>2
    <3>6. \A r \in OutRows, d \in OutChunks : r < norm_row => o_row'[r][d] = Whole
      BY <1>r, <2>2, <3>5 DEF OutRows
    <3>7. \A d \in OutChunks : d < u + 1 - 3 => o_row'[norm_row][d] = Whole
      <4> SUFFICES ASSUME NEW d \in OutChunks, d < u + 1 - 3 PROVE o_row'[norm_row][d] = Whole
        OBVIOUS
      <4>1. d \in Nat /\ (d = u - 3 \/ (d < u - 3 /\ ~(u < 3)))
        BY <3>4, <3>g, <3>u
      <4> QED
        BY <1>r, <2>2, <3>3, <3>5, <4>1
    <3>8. CASE u # last + 3
      <4>1. norm_recv_d' = IF u + 1 < 3 THEN 0 ELSE u + 1 - 3
        <5> DEFINE v == u + 1
        <5>1. Dividing(v)'
          BY <3>2, <3>8
        <5> HIDE DEF v
        <5>2. norm_recv_d' = IF v < NORM_LAT THEN 0 ELSE v - NORM_LAT
          BY <5>1 DEF Dividing
        <5> QED
          BY <3>g, <5>2 DEF v
      <4>2. ms' = "S_NORMALIZE" /\ norm_row' = norm_row
        BY <3>2, <3>8
      <4>3. \A d \in OutChunks : d < norm_recv_d' => o_row'[norm_row][d] = Whole
        <5>1. CASE u + 1 < 3
          BY <1>n, <4>1, <5>1
        <5>2. CASE ~(u + 1 < 3)
          BY <3>7, <4>1, <5>2
        <5> QED
          BY <5>1, <5>2
      <4> QED
        BY <1>l, <2>w, <3>5, <3>6, <4>2, <4>3 DEF RowsOutInv
    <3>9. CASE u = last + 3
      <4>1. \A d \in OutChunks : o_row'[norm_row][d] = Whole
        <5>1. \A d \in OutChunks : d < u + 1 - 3
          BY <3>4, <3>9, <3>g
        <5> QED
          BY <3>7, <5>1
      <4>2. ~norm_row_ready'
        BY <3>2, <3>9 DEF Resting
      <4>3. norm_row' = IF norm_row = TQ - 1 THEN norm_row ELSE norm_row + 1
        BY <3>2, <3>9
      <4>4. \A r \in OutRows, d \in OutChunks : r < norm_row' => o_row'[r][d] = Whole
        <5> SUFFICES ASSUME NEW r \in OutRows, NEW d \in OutChunks, r < norm_row'
                     PROVE  o_row'[r][d] = Whole
          OBVIOUS
        <5>1. r < norm_row \/ r = norm_row
          BY <1>r, <4>3 DEF OutRows
        <5> QED
          BY <3>6, <4>1, <5>1
      <4>5. norm_row = TQ - 1 => \A r \in OutRows, d \in OutChunks : o_row'[r][d] = Whole
        <5>1. \A r \in OutRows : norm_row = TQ - 1 => r < norm_row \/ r = norm_row
          BY <1>r DEF OutRows
        <5> QED
          BY <3>6, <4>1, <5>1
      <4>6. ms' = "S_WRITE_O" => norm_row = TQ - 1
        BY <3>2, <3>9
      <4> QED
        BY <1>l, <2>w, <3>5, <4>2, <4>4, <4>5, <4>6 DEF RowsOutInv
    <3> QED
      BY <3>8, <3>9
  <2> QED
    BY <1>2, <2>3, <2>4 DEF DivideInv
<1> QED
  BY <1>1, <1>2

(* A word depends on its two rows only, and is the context all their chunks *)
(* hold.                                                                    *)
LEMMA WordOfRows ==
  ASSUME NEW p, NEW rows, NEW other
  PROVE  /\ (\A r \in {2 * p, 2 * p + 1} : rows[r] = other[r]) =>
              OutWord(p, rows) = OutWord(p, other)
         /\ \A c : /\ LastChunkOfRow \in Nat /\ c # Misplaced
                   /\ \A r \in {2 * p, 2 * p + 1}, d \in OutChunks : rows[r][d] = c
                   => OutWord(p, rows) = c
<1>1. ASSUME \A r \in {2 * p, 2 * p + 1} : rows[r] = other[r]
      PROVE  OutWord(p, rows) = OutWord(p, other)
  <2> DEFINE S(x) == {x[r][d] : r \in {2 * p, 2 * p + 1}, d \in 0 .. LastChunkOfRow}
             W(T, x) == IF \E c \in T : T = {c} /\ c # Misplaced THEN x ELSE <<Torn>>
  <2>1. S(rows) = S(other) /\ rows[2 * p][0] = other[2 * p][0]
    BY <1>1
  <2>2. /\ OutWord(p, rows) = W(S(rows), rows[2 * p][0])
        /\ OutWord(p, other) = W(S(other), other[2 * p][0])
    BY DEF OutWord
  <2> HIDE DEF S, W
  <2> QED
    BY <2>1, <2>2
<1>2. ASSUME NEW c, LastChunkOfRow \in Nat, c # Misplaced,
             \A r \in {2 * p, 2 * p + 1}, d \in OutChunks : rows[r][d] = c
      PROVE  OutWord(p, rows) = c
  <2>1. 0 \in OutChunks
    <3> HIDE DEF LastChunkOfRow
    <3> QED
      BY <1>2 DEF OutChunks
  <2>2. {rows[r][d] : r \in {2 * p, 2 * p + 1}, d \in OutChunks} = {c}
    BY <1>2, <2>1
  <2>3. rows[2 * p][0] = c
    BY <1>2, <2>1
  <2> QED
    BY <1>2, <2>2, <2>3 DEF OutWord, OutChunks
<1> QED
  BY <1>1, <1>2

(* A row with all tiles is neither of the two marks for what went wrong.    *)
LEMMA WholeIsNoMark ==
  ASSUME HistInv
  PROVE  Whole # Misplaced /\ Whole # <<Torn>>
<1>1. q_tile_idx \in 0 .. NUM_Q_TILES - 1 /\ NUM_Q_TILES \in Nat /\ NUM_K_TILES \in Nat \ {0}
  BY CoreAssumption DEF HistInv, FlowInv, FeedInv, FillInv, LoadTypeOK, MasterTypeOK, QTiles
<1>2. Whole[1] = <<q_tile_idx, 0>>
  BY <1>1 DEF Whole, TilesUpto
<1>3. Whole[1][1] = q_tile_idx /\ Misplaced[1][1] = -1 /\ <<Torn>>[1][1] = NUM_Q_TILES
  BY <1>2 DEF Misplaced, Torn
<1>4. q_tile_idx # -1 /\ q_tile_idx # NUM_Q_TILES
  BY <1>1
<1> QED
  BY <1>3, <1>4

LEMMA RowsOfWord ==
  ASSUME NEW w \in QWords
  PROVE  /\ 2 * (w - 1) \in OutRows /\ 2 * (w - 1) + 1 \in OutRows
         /\ \A r \in OutRows : w # r \div 2 + 1 => r \notin {2 * (w - 1), 2 * (w - 1) + 1}
<1>1. w \in Nat /\ w >= 1 /\ w <= BEATS_PER_TILE_Q /\ BEATS_PER_TILE_Q \in Nat
  BY CoreAssumption DEF QWords
<1>2. 2 * (w - 1) \in OutRows /\ 2 * (w - 1) + 1 \in OutRows
  BY <1>1 DEF OutRows, TQ
<1>3. (2 * (w - 1)) \div 2 = w - 1 /\ (2 * (w - 1) + 1) \div 2 = w - 1
  BY <1>1
<1> QED
  BY <1>1, <1>2, <1>3

(* So every word of o_buf is whole when S_WRITE_O begins, and stays so.     *)
LEMMA NextWordsOut ==
  ASSUME HistInv, SettledInv, DivideInv, RowsOutInv, WordsOutInv, PipeClock
  PROVE  WordsOutInv'
<1>l. LastChunkOfRow' = LastChunkOfRow /\ LastChunkOfRow \in Nat
  BY RowsFollow, LastChunks DEF LastChunkOfRow
<1>o. \A p : OutWord(p, o_row)' = OutWord(p, o_row')
  BY <1>l DEF OutWord
<1>w. /\ o_buf = [w \in QWords |-> o_buf[w]]
      /\ \A w \in QWords : OutWord(w - 1, o_row) \in {<<Torn>>, o_buf[w]}
  BY DEF WordsOutInv
<1>1. CASE ms # "S_NORMALIZE"
  <2>1. PICK start \in BOOLEAN, rdv \in BOOLEAN, taken \in BOOLEAN :
          MasterTick(start, rdv, taken) /\ o_row' = o_row
    BY <1>1 DEF PipeClock, PipeMasterTick, PipeNormalize, NormalizeStart, NormalizeOff
  <2>2. o_buf' = o_buf
    BY <1>1, <2>1 DEF MasterTick, Idle, LoadQ, InitContext, LoadK, LoadV, Compute, NormalizeRows,
                      WriteO, NextQ, Done, bufVars
  <2>3. ms' = "S_WRITE_O" => ms = "S_WRITE_O" /\ q_tile_idx' = q_tile_idx
    BY <1>1, <2>1, Successors
  <2>4. ms' = "S_WRITE_O" => Whole' = Whole
    BY <2>3 DEF Whole, TilesUpto
  <2>5. \A w \in QWords : OutWord(w - 1, o_row)' = OutWord(w - 1, o_row)
    BY <1>o, <2>1
  <2> QED
    BY <1>w, <2>2, <2>3, <2>4, <2>5 DEF WordsOutInv
<1>2. CASE ms = "S_NORMALIZE"
  <2>1. PipeNormalize /\ q_tile_idx' = q_tile_idx
    BY <1>2, NormalizeEdge
  <2>2. Whole' = Whole
    BY <2>1 DEF Whole, TilesUpto
  <2>3. norm_row \in OutRows
    BY GroupsOfRows DEF HistInv, FlowInv, FeedInv, FsmTypeOK, OutRows
  <2>4. \A r \in OutRows : r # norm_row => o_row'[r] = o_row[r]
    <3>1. o_row' = o_row \/ Store
      BY <2>1 DEF PipeNormalize, NormalizeStep, Request, AwaitReciprocal, TakeReciprocal,
                  AwaitChunk, StoreChunk, StoreLastChunk
    <3>2. o_row = [r \in OutRows |-> [d \in OutChunks |-> o_row[r][d]]]
      BY DEF RowsOutInv
    <3>3. ASSUME NEW r \in OutRows, r # norm_row, Store PROVE o_row'[r] = o_row[r]
      <4>1. r \in DOMAIN o_row
        BY <3>2
      <4> QED
        BY <3>3, <4>1 DEF Store
    <3> QED
      BY <3>1, <3>3
  <2>5. IF o_row' = o_row THEN o_buf' = o_buf
        ELSE o_buf' = [o_buf EXCEPT ![norm_row \div 2 + 1] = OutWord(norm_row \div 2, o_row')]
    BY <2>1 DEF PipeNormalize
  <2>6. norm_row \div 2 + 1 \in QWords /\ norm_row \div 2 \in Int
    BY <2>3, CoreAssumption DEF OutRows, TQ, QWords
  <2>7. o_buf' = [w \in QWords |-> o_buf'[w]]
    BY <1>w, <2>5, <2>6
  <2>8. ASSUME NEW w \in QWords
        PROVE  OutWord(w - 1, o_row') \in {<<Torn>>, o_buf'[w]}
    <3>1. CASE o_row' = o_row
      BY <1>w, <2>5, <3>1
    <3>2. CASE o_row' # o_row /\ w = norm_row \div 2 + 1
      <4>1. w - 1 = norm_row \div 2
        BY <2>6, <3>2
      <4>2. o_buf'[w] = OutWord(norm_row \div 2, o_row')
        BY <1>w, <2>5, <3>2
      <4> QED
        BY <4>1, <4>2
    <3>3. CASE o_row' # o_row /\ w # norm_row \div 2 + 1
      <4>1. \A r \in {2 * (w - 1), 2 * (w - 1) + 1} : o_row'[r] = o_row[r]
        BY <2>3, <2>4, <3>3, RowsOfWord
      <4>2. OutWord(w - 1, o_row') = OutWord(w - 1, o_row)
        BY <4>1, WordOfRows
      <4>3. o_buf'[w] = o_buf[w]
        BY <1>w, <2>5, <3>3
      <4> QED
        BY <1>w, <4>2, <4>3
    <3> QED
      BY <3>1, <3>2, <3>3
  <2>9. ASSUME ms' = "S_WRITE_O", NEW w \in QWords PROVE o_buf'[w] = Whole
    <3>1. \A r \in OutRows, d \in OutChunks : o_row'[r][d] = Whole
      BY <1>2, <2>9, NextRowsOut
    <3>2. \A r \in {2 * (w - 1), 2 * (w - 1) + 1}, d \in OutChunks : o_row'[r][d] = Whole
      BY <3>1, RowsOfWord
    <3>3. OutWord(w - 1, o_row') = Whole
      BY <1>l, <3>2, WholeIsNoMark, WordOfRows
    <3> QED
      BY <2>8, <3>3, WholeIsNoMark
  <2> QED
    BY <1>o, <2>2, <2>7, <2>8, <2>9 DEF WordsOutInv
<1> QED
  BY <1>1, <1>2
-----------------------------------------------------------------------------
(* ---- The output in memory ---- *)

LEMMA WholeIsFinal ==
  ASSUME HistInv
  PROVE  Final(Whole, q_tile_idx) /\ Whole = Tiled!Attended(q_tile_idx)
<1> DEFINE q == q_tile_idx
           n == NUM_K_TILES
<1>1. n \in Nat /\ n >= 1 /\ Len(Whole) = n /\ \A i \in 1 .. n : Whole[i] = <<q, i - 1>>
  BY CoreAssumption DEF Whole, TilesUpto
<1>2. Whole # <<>>
  <2>1. Len(Whole) # 0
    BY <1>1
  <2> QED
    BY <2>1
<1> HIDE DEF q, n
<1>3. Whole[1] = <<q, 0>> /\ Whole[Len(Whole)] = <<q, n - 1>>
  BY <1>1
<1>4. \A i \in 1 .. Len(Whole) - 1 : Whole[i + 1] = <<q, Whole[i][2] + 1>>
  <2>1. ASSUME NEW i \in 1 .. n - 1
        PROVE  Whole[i + 1] = <<q, Whole[i][2] + 1>>
    <3>1. i \in 1 .. n /\ i + 1 \in 1 .. n
      BY <1>1
    <3>2. Whole[i] = <<q, i - 1>> /\ Whole[i + 1] = <<q, i + 1 - 1>> /\ i - 1 + 1 = i + 1 - 1
      BY <1>1, <3>1
    <3> QED
      BY <3>2
  <2> QED
    BY <1>1, <2>1
<1>5. Climbs(Whole, q, n - 1)
  BY <1>2, <1>3, <1>4 DEF Climbs
<1>6. Once(Whole, q, n - 1)
  <2>1. n - 1 + 1 = n
    BY <1>1
  <2> QED
    BY <1>1, <2>1 DEF Once
<1>7. Final(Whole, q)
  BY <1>5, <1>6 DEF Final, Folds, n
<1> QED
  BY <1>7 DEF q, Whole, TilesUpto, Tiled!Attended

PipeMemInv == OutTypeOK /\ StoreInv /\ MemoryInv /\ UntouchedInv

(* While the rows are divided nothing is stored and nothing is signalled.   *)
LEMMA NormalizeStoresNothing ==
  ASSUME HistInv, PipeMemInv, NEW taken \in BOOLEAN, PipeNormalize, WriteTick(taken), OMemTick(taken)
  PROVE  /\ o_mem' = o_mem /\ busy' = busy /\ done = FALSE /\ done' = FALSE
         /\ q_tile_idx' = q_tile_idx /\ wr_cmd' = NoCmd
         /\ ms = "S_NORMALIZE" /\ ms' \in {"S_NORMALIZE", "S_WRITE_O"}
         /\ ms' = "S_WRITE_O" => o_write_cnt' = 0
<1>1. FeedInv
  BY DEF HistInv, FlowInv
<1>2. /\ ms = "S_NORMALIZE" /\ ms' \in {"S_NORMALIZE", "S_WRITE_O"}
      /\ q_tile_idx' = q_tile_idx /\ wr_cmd' = NoCmd
  BY <1>1, NormalizerStep DEF PipeNormalize
<1>3. ~taken
  BY <1>2 DEF WriteTick, dma_wr_data_valid
<1>4. o_mem' = o_mem
  BY <1>2, <1>3 DEF OMemTick
<1>5. busy' = busy /\ done' = FALSE /\ (ms' = "S_WRITE_O" => o_write_cnt' = 0)
  BY <1>2 DEF PipeNormalize, Quiet, Pulses, GoTo, fsmVars
<1>6. done = FALSE
  BY <1>2 DEF PipeMemInv, MemoryInv, OutTypeOK
<1> QED
  BY <1>2, <1>4, <1>5, <1>6

(* The words are stored in order, each in its place, and none twice.        *)
LEMMA NextPipeMem ==
  ASSUME HistInv, HistInv', WordsOutInv, PipeMemInv, PipeClock
  PROVE  PipeMemInv'
<1>1. PICK start \in BOOLEAN, rdv \in BOOLEAN, taken \in BOOLEAN :
        PipeMasterTick(start, rdv, taken) /\ WriteTick(taken) /\ OMemTick(taken)
  BY DEF PipeClock
<1>2. FeedInv /\ MasterTypeOK /\ MasterTypeOK' /\ OutTypeOK /\ StoreInv /\ MemoryInv /\ UntouchedInv
  BY DEF HistInv, FlowInv, FeedInv, FillInv, LoadTypeOK, PipeMemInv
<1>3. (DOMAIN o_mem)' = OWords
  BY <1>1, <1>2 DEF OMemTick, OutTypeOK
<1>4. CASE PipeNormalize
  <2>1. /\ o_mem' = o_mem /\ busy' = busy /\ done = FALSE /\ done' = FALSE
        /\ q_tile_idx' = q_tile_idx /\ wr_cmd' = NoCmd
        /\ ms = "S_NORMALIZE" /\ ms' \in {"S_NORMALIZE", "S_WRITE_O"}
        /\ ms' = "S_WRITE_O" => o_write_cnt' = 0
    BY <1>1, <1>4, NormalizeStoresNothing
  <2>2. OutTypeOK'
    BY <1>2, <1>3, <2>1 DEF OutTypeOK
  <2>3. StoreInv'
    BY <2>1 DEF StoreInv
  <2>4. \A w \in QWords : ~(w < 0)
    BY DEF QWords
  <2>5. MemoryInv'
    BY <1>2, <2>1, <2>4 DEF MemoryInv, Kept
  <2>6. UntouchedInv'
    BY <1>2, <2>1 DEF UntouchedInv, Later, OAddr
  <2> QED
    BY <2>2, <2>3, <2>5, <2>6 DEF PipeMemInv
<1>5. CASE ~PipeNormalize
  <2>1. ms # "S_NORMALIZE" /\ MasterTick(start, rdv, taken)
    BY <1>1, <1>2, <1>5, OtherStatesStep
  <2>2. busy' \in BOOLEAN /\ done' \in BOOLEAN
    <3>1. busy \in BOOLEAN
      BY <1>2 DEF OutTypeOK
    <3> QED
      BY <2>1, <3>1 DEF MasterTick, Idle, LoadQ, InitContext, LoadK, LoadV, Compute, Computing,
                        ToNormalize, NextTile, PulseLost, NormalizeRows, WriteO, NextQ, Done, GoTo,
                        Quiet, Pulses, fsmVars
  <2>3. OutTypeOK'
    BY <1>2, <1>3, <2>2 DEF OutTypeOK
  <2>4. StoreInv' /\ MemoryInv'
    <3>1. DOMAIN o_mem = OWords
      BY <1>2 DEF OutTypeOK
    <3>2. CASE ms # "S_WRITE_O"
      BY <1>1, <1>2, <2>1, <3>2, NothingStored
    <3>3. CASE ms = "S_WRITE_O"
      <4>1. \A w \in QWords : Final(o_buf[w], q_tile_idx)
        BY <3>3, WholeIsFinal DEF WordsOutInv
      <4> QED
        BY <1>1, <1>2, <2>1, <3>1, <3>3, <4>1, WordsStored
    <3> QED
      BY <3>2, <3>3
  <2>5. UntouchedInv'
    BY <1>1, <1>2, <2>1, TickUntouched
  <2> QED
    BY <2>3, <2>4, <2>5 DEF PipeMemInv
<1> QED
  BY <1>4, <1>5

(* Every edge is a step of TiledAttention or none.                          *)
LEMMA PipeStepRefines ==
  ASSUME HistInv, HistInv', WordsOutInv, PipeMemInv, PipeMemInv', PipeClock
  PROVE  [Tiled!Next]_(Tiled!tiledVars)
<1>1. PICK start \in BOOLEAN, rdv \in BOOLEAN, taken \in BOOLEAN :
        PipeMasterTick(start, rdv, taken) /\ WriteTick(taken) /\ OMemTick(taken)
  BY DEF PipeClock
<1>2. FeedInv /\ OutTypeOK /\ OutTypeOK' /\ StoreInv /\ MemoryInv /\ UntouchedInv
  BY DEF HistInv, FlowInv, PipeMemInv
<1>3. CASE PipeNormalize
  <2>1. o_mem' = o_mem /\ busy' = busy /\ done' = done
    BY <1>1, <1>3, NormalizeStoresNothing
  <2> QED
    BY <2>1 DEF Tiled!tiledVars, OAddr
<1>4. CASE ~PipeNormalize
  <2>1. MasterTick(start, rdv, taken)
    BY <1>1, <1>2, <1>4, OtherStatesStep
  <2>2. ms = "S_WRITE_O" => \A w \in QWords : o_buf[w] = Tiled!Attended(q_tile_idx)
    BY WholeIsFinal DEF WordsOutInv
  <2> QED
    BY <1>1, <1>2, <2>1, <2>2, TickRefines
<1> QED
  BY <1>3, <1>4
-----------------------------------------------------------------------------
(* ---- The run as a whole ---- *)

PipeRunInv ==
  /\ HistInv /\ dp_chunks \in ChunkCounts /\ PipePace /\ SettledInv
  /\ DivideInv /\ RowsOutInv /\ WordsOutInv /\ PipeMemInv

LEMMA InitPipeRun == PipeInit => PipeRunInv /\ Tiled!Init
<1> SUFFICES ASSUME PipeInit PROVE PipeRunInv /\ Tiled!Init
  OBVIOUS
<1>1. HistInv /\ Init /\ dp_chunks \in ChunkCounts /\ NormInit(OutRows, OutChunks)
  BY InitHist DEF PipeInit, OutRows, OutChunks
<1>2. RunInv /\ ms = "S_IDLE" /\ wr_cmd = NoCmd
  BY <1>1, InitRun DEF Init
<1>3. PipePace
  BY <1>2 DEF PipePace, RunInv, PaceInv
<1>4. SettledInv /\ DivideInv
  BY <1>1, <1>2 DEF SettledInv, DivideInv, NormInit, NoRecip, NoChunk, Empty
<1>5. o_row = [r \in OutRows |-> [d \in OutChunks |-> Misplaced]]
  BY <1>1 DEF NormInit
<1>6. RowsOutInv
  BY <1>2, <1>5 DEF RowsOutInv
<1>7. WordsOutInv
  <2>1. o_buf = [w \in QWords |-> <<>>]
    BY <1>1 DEF Init
  <2>2. ASSUME NEW w \in QWords PROVE OutWord(w - 1, o_row) = <<Torn>>
    <3>1. \A r \in {2 * (w - 1), 2 * (w - 1) + 1}, d \in OutChunks : o_row[r][d] = Misplaced
      BY <1>5, RowsOfWord
    <3>2. \A c \in {o_row[r][d] : r \in {2 * (w - 1), 2 * (w - 1) + 1}, d \in OutChunks} :
            c = Misplaced
      BY <3>1
    <3> QED
      BY <3>2 DEF OutWord, OutChunks
  <2> QED
    BY <1>2, <2>1, <2>2 DEF WordsOutInv
<1>8. OutTypeOK
  BY <1>2 DEF RunInv, IInv, TypeOK, FlagTypeOK, StreamTypeOK, OutTypeOK
<1>9. PipeMemInv
  <2>1. StoreInv /\ MemoryInv
    BY <1>2 DEF RunInv, OrderInv
  <2>2. UntouchedInv
    BY <1>1 DEF Init, UntouchedInv
  <2> QED
    BY <1>8, <2>1, <2>2 DEF PipeMemInv
<1>10. Tiled!Init
  <2>1. \A t \in QTiles, w \in QWords : OAddr(t) + w - 1 \in OWords
    BY DEF OWords
  <2> QED
    BY <1>1, <2>1 DEF Init, Tiled!Init, Tiled!Places, QTiles, QWords
<1> QED
  BY <1>1, <1>3, <1>4, <1>6, <1>7, <1>9, <1>10 DEF PipeRunInv

LEMMA StutterPipeRun == PipeRunInv /\ UNCHANGED allVars => PipeRunInv'
<1> SUFFICES ASSUME PipeRunInv, UNCHANGED allVars PROVE PipeRunInv'
  OBVIOUS
<1>1. UNCHANGED vars /\ UNCHANGED pipeVars /\ dp_chunks' = dp_chunks /\ UNCHANGED normVars
  BY DEF allVars, pipeVars
<1>2. HistInv'
  BY NextHist DEF PipeRunInv
<1>3. PipePace'
  BY <1>1 DEF vars, masterVars, fsmVars, pfVars, pulseVars, compVars, readVars, PipeRunInv, PipePace,
              EngineInv, PaceInv, LastTile, rd_ready, PrefetchLeft, WordsLeft, ComputeLeft,
              CommandTime, BatchesLeft
<1>4. SettledInv'
  BY <1>1 DEF vars, masterVars, fsmVars, compVars, PipeRunInv, SettledInv, Settled, Counted,
              StartCtx, TilesUpto
<1>5. UNCHANGED <<ms, q_tile_idx, norm_row, norm_recip_pending, norm_row_ready, norm_row_recip,
                  norm_issue_done, norm_d, norm_recv_d, norm_recip_in_valid, recip_pipe, norm_pipe,
                  o_row, o_buf>>
  BY <1>1 DEF vars, masterVars, fsmVars, bufVars, normVars, normRowVars
<1>6. DivideInv'
  BY <1>1, <1>5 DEF PipeRunInv, DivideInv, Resting, Inverting, Dividing, NoRecip, NoChunk, Asked,
              QuotientOf, Whole, TilesUpto, LastChunkOfRow, Empty
<1>7. RowsOutInv'
  BY <1>1, <1>5 DEF PipeRunInv, RowsOutInv, Whole, TilesUpto, OutChunks, LastChunkOfRow
<1>8. WordsOutInv'
  <2>1. \A p : OutWord(p, o_row)' = OutWord(p, o_row)
    BY <1>1, <1>5 DEF OutWord, LastChunkOfRow
  <2>2. Whole' = Whole
    BY <1>5 DEF Whole, TilesUpto
  <2> QED
    BY <1>5, <2>1, <2>2 DEF PipeRunInv, WordsOutInv
<1>9. PipeMemInv'
  BY <1>1 DEF vars, masterVars, fsmVars, fillVars, bankVars, pfVars, outVars, pulseVars, bufVars,
              storeVars, PipeRunInv, PipeMemInv, OutTypeOK, MasterTypeOK, StoreInv, MemoryInv, Kept,
              wr_ready, OCmd, OAddr, UntouchedInv, Later
<1> QED
  BY <1>1, <1>2, <1>3, <1>4, <1>6, <1>7, <1>8, <1>9 DEF PipeRunInv

LEMMA NextPipeRun ==
  ASSUME FastPipes
  PROVE  PipeRunInv /\ [PipeClock]_allVars => PipeRunInv' /\ [Tiled!Next]_(Tiled!tiledVars)
<1> SUFFICES ASSUME PipeRunInv, [PipeClock]_allVars
             PROVE  PipeRunInv' /\ [Tiled!Next]_(Tiled!tiledVars)
  OBVIOUS
<1>1. CASE UNCHANGED allVars
  <2>1. PipeRunInv'
    BY <1>1, StutterPipeRun
  <2>2. UNCHANGED <<busy, done, o_mem>>
    BY <1>1 DEF allVars, vars, masterVars, fsmVars, pulseVars
  <2> QED
    BY <2>1, <2>2 DEF Tiled!tiledVars, OAddr
<1>2. CASE PipeClock
  <2>1. /\ HistInv /\ dp_chunks \in ChunkCounts /\ PipePace /\ SettledInv
        /\ DivideInv /\ RowsOutInv /\ WordsOutInv /\ PipeMemInv
    BY DEF PipeRunInv
  <2>2. HistInv' /\ dp_chunks' = dp_chunks
    BY <1>2, <2>1, NextHist, RowsFollow
  <2>3. PipePace' /\ SettledInv' /\ DivideInv' /\ RowsOutInv' /\ WordsOutInv' /\ PipeMemInv'
    BY <1>2, <2>1, <2>2, NextPipePace, NextSettled, NextDivide, NextRowsOut, NextWordsOut,
       NextPipeMem
  <2>4. PipeRunInv'
    BY <2>1, <2>2, <2>3 DEF PipeRunInv
  <2>5. [Tiled!Next]_(Tiled!tiledVars)
    BY <1>2, <2>1, <2>2, <2>3, PipeStepRefines
  <2> QED
    BY <2>4, <2>5
<1> QED
  BY <1>1, <1>2

LEMMA AtLeastOnce ==
  ASSUME NEW b \in Nat \ {0}, NEW n \in Nat
  PROVE  n <= b * n
<1>1. PICK k \in Nat : b = k + 1
  <2>1. b - 1 \in Nat /\ b = b - 1 + 1
    OBVIOUS
  <2> QED
    BY <2>1
<1>2. b * n = k * n + n /\ k * n \in Nat
  BY <1>1
<1> QED
  BY <1>2

(* The memory is fast enough for every Q tile, however small, if it stalls  *)
(* no longer than a read of a K or V tile and six cycles.                   *)
LEMMA ShortStalls ==
  MaxRdStall <= BEATS_PER_TILE_KV + 6 => FastPipes
<1> SUFFICES ASSUME MaxRdStall <= BEATS_PER_TILE_KV + 6, NEW c \in ChunkCounts
             PROVE  Fast(CyclesOf(c))
  BY DEF FastPipes
<1> DEFINE n == CyclesOf(c)
<1>1. /\ c \in {1, 2} /\ MaxRdStall \in Nat /\ BEATS_PER_TILE_KV \in Nat
      /\ NUM_BATCHES \in Nat \ {0}
  BY CoreAssumption, PipeAssumption
<1>2. n \in Nat /\ n >= 4 * BEATS_PER_TILE_KV + 15
  <2>1. CASE c = 1
    BY <1>1, <2>1 DEF CyclesOf, SOFTMAX_CTXS, CTX_COUNT, TK, QK_LAT
  <2>2. CASE c = 2
    BY <1>1, <2>2 DEF CyclesOf, SOFTMAX_CTXS, CTX_COUNT, TK, QK_LAT
  <2> QED
    BY <1>1, <2>1, <2>2
<1> HIDE DEF n
<1>3. n <= NUM_BATCHES * n /\ NUM_BATCHES * n \in Nat
  <2>1. n <= NUM_BATCHES * n
    BY <1>1, <1>2, AtLeastOnce
  <2>2. NUM_BATCHES * n \in Nat
    BY <1>1, <1>2
  <2> QED
    BY <2>1, <2>2
<1>4. 2 * (BEATS_PER_TILE_KV + MaxRdStall + 1) <= n
  BY <1>1, <1>2
<1>5. 2 * (BEATS_PER_TILE_KV + MaxRdStall + 1) <= NUM_BATCHES * n
  BY <1>1, <1>2, <1>3, <1>4
<1> QED
  BY <1>5 DEF n, Fast

(* The core with all its pipelines does what TiledAttention says, when the  *)
(* memory delivers a tile pair in the time one tile takes to compute: the   *)
(* dot product, the softmax contexts, the reciprocal and the rounding,      *)
(* which run without back pressure between the FSMs, lose nothing, mix      *)
(* nothing and store every output word once, in order, whole, before done.  *)
THEOREM PipelinesRefine == ASSUME FastPipes PROVE PipeSpec => ImplementsTiledAttention
<1> QED
  BY InitPipeRun, NextPipeRun, PTL DEF PipeSpec, ImplementsTiledAttention, Tiled!Spec
=============================================================================
