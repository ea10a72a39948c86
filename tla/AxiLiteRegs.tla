----------------------------- MODULE AxiLiteRegs -----------------------------
(***************************************************************************)
(* rtl/bus/fa_axi_lite_regs.sv: the register file behind AXI4-Lite, with   *)
(* an AXI-Lite master that may hand over the address and the data of its   *)
(* writes at different times and may have several writes on their way.     *)
(*                                                                         *)
(* A step is one clock edge.  A register word is the set of its bits that  *)
(* are 1; only its low bits are told apart.  REG_CFG stands for all the    *)
(* plain read/write registers (bases, stride, scale, ...).                 *)
(***************************************************************************)
EXTENDS Naturals, Sequences

CONSTANTS
  MaxOutstanding,  (* writes the master has unanswered at most             *)
  DataWords        (* the words it writes                                  *)

ASSUME AxiLiteRegsAssumption ==
  /\ MaxOutstanding \in Nat \ {0}
  /\ DataWords \subseteq SUBSET {0, 1}

VARIABLES
  aw_seen, awaddr_latched, w_seen, wdata_latched,  (* the write accepted   *)
  bvalid, rvalid,
  reg_ctrl, reg_cfg,
  done_sticky, o_start_pulse,
  aw_q, w_q,      (* external master: halves of writes not handed over yet *)
  araddr,         (* the address of its read, NoRead when there is none    *)
  unanswered,     (* responses it waits for                                *)
  issued          (* its writes that have not taken effect, in order       *)

channelVars == <<aw_seen, awaddr_latched, w_seen, wdata_latched, bvalid, rvalid>>
regVars     == <<reg_ctrl, reg_cfg, done_sticky, o_start_pulse>>
masterVars  == <<aw_q, w_q, araddr, unanswered, issued>>
vars        == <<channelVars, regVars, masterVars>>

Registers == {"REG_CTRL", "REG_STATUS", "REG_CFG"}
NoRead == "none"
Writes == [reg : Registers, data : DataWords]

(* Bit numbers of CTRL and STATUS. *)
START == 0
SOFT_RESET == 1
BUSY == 0
DONE == 1

Init ==
  /\ aw_seen = FALSE /\ awaddr_latched = "REG_CTRL"
  /\ w_seen = FALSE /\ wdata_latched = {}
  /\ bvalid = FALSE /\ rvalid = FALSE
  /\ reg_ctrl = {} /\ reg_cfg = {}
  /\ done_sticky = FALSE /\ o_start_pulse = FALSE
  /\ aw_q = <<>> /\ w_q = <<>> /\ araddr = NoRead
  /\ unanswered = 0 /\ issued = <<>>
-----------------------------------------------------------------------------
(* Mutant of s_axil_awready: the latched address may be overwritten.        *)
AlwaysReady == TRUE

s_axil_awready == ~aw_seen
s_axil_wready == ~w_seen

(* Mutant of write_fire: does not wait for the response of the last write.  *)
FireWhileResponding == aw_seen /\ w_seen

(* Mutant of write_fire: the wrong polarity of bvalid.                      *)
FireOnResponse == aw_seen /\ w_seen /\ bvalid

write_fire == aw_seen /\ w_seen /\ ~bvalid

(* The write that takes effect now carries a 1 for this bit of reg.         *)
Sets(reg, bit) == write_fire /\ awaddr_latched = reg /\ bit \in wdata_latched

(* new: the write the master issues in this cycle, as a sequence of at most *)
(* one; valid: it offers an address.                                        *)
AddressTick(valid, new) ==
  LET taken == valid /\ aw_q # <<>> /\ s_axil_awready
  IN  /\ aw_q' = (IF taken THEN Tail(aw_q) ELSE aw_q) \o new
      /\ aw_seen' = (~write_fire /\ (aw_seen \/ taken))
      /\ awaddr_latched' = IF taken THEN Head(aw_q).reg ELSE awaddr_latched

DataTick(valid, new) ==
  LET taken == valid /\ w_q # <<>> /\ s_axil_wready
  IN  /\ w_q' = (IF taken THEN Tail(w_q) ELSE w_q) \o new
      /\ w_seen' = (~write_fire /\ (w_seen \/ taken))
      /\ wdata_latched' = IF taken THEN Head(w_q).data ELSE wdata_latched

ResponseTick(bready, new) ==
  /\ bvalid' = ((bvalid \/ write_fire) /\ ~(bvalid /\ bready))
  /\ unanswered' = unanswered + Len(new) - (IF bvalid /\ bready THEN 1 ELSE 0)
  /\ issued' = (IF write_fire THEN Tail(issued) ELSE issued) \o new

(* The read address is not latched: the master holds it until it has the    *)
(* data, as the drivers under dv/ do.  next: the read it begins.            *)
ReadTick(rready, next) ==
  /\ rvalid' = IF rvalid THEN ~rready ELSE araddr # NoRead
  /\ araddr' = IF araddr = NoRead THEN next
               ELSE IF rvalid /\ rready THEN NoRead
               ELSE araddr

(* i_error, STATUS bit 2, is left out: the core only ever drives it low.    *)
s_axil_rdata(i_busy) ==
  CASE araddr = "REG_CTRL" -> reg_ctrl
    [] araddr = "REG_STATUS" ->
         {b \in {BUSY, DONE} : (b = BUSY /\ i_busy) \/ (b = DONE /\ done_sticky)}
    [] araddr = "REG_CFG" -> reg_cfg
    [] OTHER -> {}

(* Mutant of RegisterTick: START leaves the DONE of the last run.           *)
StartKeepsDone(i_done) ==
  /\ o_start_pulse' = Sets("REG_CTRL", START)
  /\ reg_ctrl' = IF write_fire /\ awaddr_latched = "REG_CTRL"
                 THEN wdata_latched \ {START} ELSE reg_ctrl
  /\ reg_cfg' = IF write_fire /\ awaddr_latched = "REG_CFG"
                THEN wdata_latched ELSE reg_cfg
  /\ done_sticky' = (i_done \/ (done_sticky /\ ~Sets("REG_STATUS", DONE)))

(* Mutant of RegisterTick: SOFT_RESET can be set and never cleared.         *)
ResetSticks(i_done) ==
  /\ o_start_pulse' = Sets("REG_CTRL", START)
  /\ reg_ctrl' = IF write_fire /\ awaddr_latched = "REG_CTRL"
                 THEN reg_ctrl \cup (wdata_latched \ {START}) ELSE reg_ctrl
  /\ reg_cfg' = IF write_fire /\ awaddr_latched = "REG_CFG"
                THEN wdata_latched ELSE reg_cfg
  /\ done_sticky' = (i_done \/ (done_sticky /\ ~Sets("REG_CTRL", START)
                                            /\ ~Sets("REG_STATUS", DONE)))

(* The registers; START and the write-1-to-clear of DONE lose to i_done.    *)
RegisterTick(i_done) ==
  /\ o_start_pulse' = Sets("REG_CTRL", START)
  /\ reg_ctrl' = IF write_fire /\ awaddr_latched = "REG_CTRL"
                 THEN wdata_latched \ {START} ELSE reg_ctrl
  /\ reg_cfg' = IF write_fire /\ awaddr_latched = "REG_CFG"
                THEN wdata_latched ELSE reg_cfg
  /\ done_sticky' = (i_done \/ (done_sticky /\ ~Sets("REG_CTRL", START)
                                            /\ ~Sets("REG_STATUS", DONE)))

o_soft_reset == SOFT_RESET \in reg_ctrl

(* One clock edge, given what the master and the core drive.                *)
Tick(new, next, awv, wv, bready, rready, i_done) ==
  /\ AddressTick(awv, new)
  /\ DataTick(wv, new)
  /\ ResponseTick(bready, new)
  /\ ReadTick(rready, next)
  /\ RegisterTick(i_done)
-----------------------------------------------------------------------------
(* A handshake the master may make in this cycle, or put off.               *)
MayPutOff(possible) == {possible, FALSE}

NewWrites == {<<>>} \cup {<<w>> : w \in Writes}

NewReads == IF araddr = NoRead THEN {NoRead} \cup Registers ELSE {NoRead}

ClockWith(awv, wv, bready, rready) ==
  \E new \in NewWrites, next \in NewReads, i_done \in BOOLEAN :
    /\ unanswered + Len(new) <= MaxOutstanding
    /\ Tick(new, next, awv, wv, bready, rready, i_done)

Clock ==
  \E awv \in MayPutOff(aw_q # <<>>), wv \in MayPutOff(w_q # <<>>),
     bready \in MayPutOff(bvalid), rready \in MayPutOff(rvalid) :
    ClockWith(awv, wv, bready, rready)

EagerClock == ClockWith(aw_q # <<>>, w_q # <<>>, bvalid, rvalid)

(* The master never puts off its handshakes for ever. *)
Spec == Init /\ [][Clock]_vars /\ WF_vars(EagerClock)
-----------------------------------------------------------------------------
TypeOK ==
  /\ aw_seen \in BOOLEAN /\ awaddr_latched \in Registers
  /\ w_seen \in BOOLEAN /\ wdata_latched \in DataWords \cup {{}}
  /\ bvalid \in BOOLEAN /\ rvalid \in BOOLEAN
  /\ reg_ctrl \subseteq {SOFT_RESET} /\ reg_cfg \in DataWords \cup {{}}
  /\ done_sticky \in BOOLEAN /\ o_start_pulse \in BOOLEAN
  /\ aw_q \in Seq(Writes) /\ w_q \in Seq(Writes) /\ issued \in Seq(Writes)
  /\ araddr \in Registers \cup {NoRead}
  /\ unanswered \in 0 .. MaxOutstanding

(* Writes take effect one by one in the order they were issued, each        *)
(* address with its own data, however the two channels run ahead of one     *)
(* another.                                                                 *)
WritesInOrder ==
  write_fire => issued # <<>> /\ Head(issued) = [reg |-> awaddr_latched, data |-> wdata_latched]

(* Every write has taken effect exactly once when it is answered, and is    *)
(* answered once: no response is merged with the next one.                  *)
OneResponsePerWrite == unanswered = Len(issued) + (IF bvalid THEN 1 ELSE 0)

(* No order of the handshakes blocks the write channels. *)
WriteTakesEffect == issued # <<>> ~> write_fire
=============================================================================
