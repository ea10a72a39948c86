---------------------------- MODULE ControlPlane -----------------------------
(***************************************************************************)
(* The host's view of the IP: software polling STATUS over AXI4-Lite, the  *)
(* register file (AxiLiteRegs), the performance counters (PerfCounters)    *)
(* and the life cycle of a run of fa_attention_core, wired as in           *)
(* rtl/top/fa_attention_ip_top.sv.  A step is one clock edge.              *)
(*                                                                         *)
(* The software does one access at a time, as the drivers under dv/ do: it *)
(* starts a run when none is under way, polls until it sees DONE, and may  *)
(* give a run up with a soft reset.  With Retries it may also write START  *)
(* again when it is tired of polling.                                      *)
(***************************************************************************)
EXTENDS Naturals, Sequences

CONSTANTS
  MaxRun,     (* clock cycles a run takes at most                          *)
  CountWrap,  (* performance counters wrap here                            *)
  Retries

ASSUME ControlPlaneAssumption ==
  /\ MaxRun \in Nat \ {0}
  /\ CountWrap \in Nat /\ CountWrap > MaxRun
  /\ Retries \in BOOLEAN

VARIABLES
  aw_seen, awaddr_latched, w_seen, wdata_latched, bvalid, rvalid,
  reg_ctrl, reg_cfg, done_sticky, o_start_pulse,
  aw_q, w_q, araddr, unanswered, issued,       (* see AxiLiteRegs          *)
  o_run_count, o_busy_cycles,                  (* see PerfCounters         *)
  ms, busy, done, cycle_counter,               (* the core                 *)
  sw                                           (* what the software does   *)

channelVars == <<aw_seen, awaddr_latched, w_seen, wdata_latched, bvalid, rvalid>>
regVars     == <<reg_ctrl, reg_cfg, done_sticky, o_start_pulse>>
masterVars  == <<aw_q, w_q, araddr, unanswered, issued>>
coreVars    == <<ms, busy, done, cycle_counter>>
vars == <<channelVars, regVars, masterVars, o_run_count, o_busy_cycles, coreVars, sw>>

SoftwareStates == {"ready", "starting", "polling", "finished", "aborting", "clearing"}
CoreStates == {"S_IDLE", "RUNNING", "S_DONE"}  (* RUNNING: S_LOAD_Q .. S_NEXT_Q *)

Regs == INSTANCE AxiLiteRegs WITH MaxOutstanding <- 1, DataWords <- SUBSET {0, 1}
Perf == INSTANCE PerfCounters

CtrlWrite(bits) == <<[reg |-> "REG_CTRL", data |-> bits]>>
DoneWrite == <<[reg |-> "REG_STATUS", data |-> {Regs!DONE}]>>

Init ==
  /\ Regs!Init /\ Perf!Init
  /\ ms = "S_IDLE" /\ busy = FALSE /\ done = FALSE
  /\ cycle_counter = 0
  /\ sw = "ready"
-----------------------------------------------------------------------------
(* ---- The core ---- *)

(* Mutant of CoreReset: busy survives a soft reset. *)
CoreResetKeepsBusy ==
  /\ ms' = "S_IDLE" /\ done' = FALSE
  /\ UNCHANGED <<busy, cycle_counter>>

CoreReset ==
  /\ ms' = "S_IDLE" /\ busy' = FALSE /\ done' = FALSE
  /\ UNCHANGED cycle_counter

CoreIdle ==
  /\ ms = "S_IDLE"
  /\ done' = FALSE
  /\ IF o_start_pulse /\ ~busy
     THEN ms' = "RUNNING" /\ busy' = TRUE /\ cycle_counter' = 0
     ELSE UNCHANGED <<ms, busy, cycle_counter>>

CoreRuns ==
  /\ ms = "RUNNING"
  /\ done' = FALSE
  /\ cycle_counter' = cycle_counter + 1
  /\ \/ ms' = "S_DONE"
     \/ ms' = ms /\ cycle_counter' < MaxRun
  /\ UNCHANGED busy

CoreDone ==
  /\ ms = "S_DONE"
  /\ ms' = "S_IDLE" /\ busy' = FALSE /\ done' = TRUE
  /\ UNCHANGED cycle_counter

CoreTick ==
  IF Regs!o_soft_reset THEN CoreReset ELSE CoreIdle \/ CoreRuns \/ CoreDone
-----------------------------------------------------------------------------
(* ---- The software: what it issues in this cycle ---- *)

Issues(write, read, s) == [write |-> write, read |-> read, sw |-> s]
NoAccess(s) == Issues(<<>>, Regs!NoRead, s)

(* What it may do next; read_done: its read completes with this value.      *)
Choices(read_done, value) ==
  CASE sw = "ready" -> {NoAccess(sw), Issues(CtrlWrite({Regs!START}), Regs!NoRead, "starting")}
    [] sw = "starting" -> {NoAccess(IF unanswered = 0 THEN "polling" ELSE sw)}
    [] sw = "polling" /\ araddr # Regs!NoRead ->
         {NoAccess(IF read_done /\ Regs!DONE \in value THEN "finished" ELSE sw)}
    [] sw = "polling" /\ araddr = Regs!NoRead ->
         {Issues(<<>>, "REG_STATUS", sw),
          Issues(CtrlWrite({Regs!SOFT_RESET}), Regs!NoRead, "aborting")}
         \cup (IF Retries THEN {Issues(CtrlWrite({Regs!START}), Regs!NoRead, "starting")} ELSE {})
    [] sw = "finished" -> {NoAccess(sw), NoAccess("ready"), Issues(DoneWrite, Regs!NoRead, "clearing")}
    [] sw = "aborting" ->
         IF unanswered # 0 THEN {NoAccess(sw)}
         ELSE {Issues(CtrlWrite({}), Regs!NoRead, "clearing"),
               Issues(CtrlWrite({Regs!START}), Regs!NoRead, "starting")}
    [] sw = "clearing" -> {NoAccess(IF unanswered = 0 THEN "ready" ELSE sw)}

ClockWith(awv, wv, bready, rready) ==
  \E c \in Choices(rvalid /\ rready, Regs!s_axil_rdata(busy)) :
    /\ sw' = c.sw
    /\ Regs!Tick(c.write, c.read, awv, wv, bready, rready, done)
    /\ Perf!Tick(Regs!o_soft_reset, o_start_pulse, ms = "RUNNING")
    /\ CoreTick

Clock ==
  \E awv \in Regs!MayPutOff(aw_q # <<>>), wv \in Regs!MayPutOff(w_q # <<>>),
     bready \in Regs!MayPutOff(bvalid), rready \in Regs!MayPutOff(rvalid) :
    ClockWith(awv, wv, bready, rready)

EagerClock == ClockWith(aw_q # <<>>, w_q # <<>>, bvalid, rvalid)

Spec == Init /\ [][Clock]_vars /\ WF_vars(EagerClock)
-----------------------------------------------------------------------------
(* busy is up exactly while a run is under way, resets included.            *)
TypeOK ==
  /\ ms \in CoreStates /\ done \in BOOLEAN /\ busy = (ms # "S_IDLE")
  /\ cycle_counter \in 0 .. MaxRun
  /\ o_run_count \in 0 .. CountWrap - 1 /\ o_busy_cycles \in 0 .. CountWrap - 1
  /\ sw \in SoftwareStates
  /\ Regs!TypeOK

(* Software that has read DONE = 1 since its last START finds the run over: *)
(* the flag is never left from an earlier run.                              *)
DoneMeansFinished == sw = "finished" => ms = "S_IDLE"

(* What the software then reads from the counters is of the run that ended: *)
(* the busy cycles counted outside the core are the cycles it counted.      *)
CountersOfLastRun == sw = "finished" => o_busy_cycles = cycle_counter

(* A run that is not given up is seen to end; a START after a soft reset is *)
(* not lost.                                                                *)
SoftwareSeesDone == sw = "starting" ~> sw \in {"finished", "aborting"}
=============================================================================
