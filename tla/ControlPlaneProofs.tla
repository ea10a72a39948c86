------------------------- MODULE ControlPlaneProofs -------------------------
(***************************************************************************)
(* Proofs about ControlPlane, for every length of a run and every width of *)
(* the counters.                                                           *)
(***************************************************************************)
EXTENDS ControlPlane, TLAPS

(* ---- The one write of the software ---- *)

NoWrite ==
  /\ unanswered = 0 /\ issued = <<>> /\ bvalid = FALSE
  /\ aw_q = <<>> /\ w_q = <<>> /\ aw_seen = FALSE /\ w_seen = FALSE
UnderWay(w) ==
  /\ unanswered = 1 /\ issued = <<w>> /\ bvalid = FALSE
  /\ IF aw_seen THEN aw_q = <<>> /\ awaddr_latched = w.reg ELSE aw_q = <<w>>
  /\ IF w_seen THEN w_q = <<>> /\ wdata_latched = w.data ELSE w_q = <<w>>
InEffect ==
  /\ unanswered = 1 /\ issued = <<>> /\ bvalid = TRUE
  /\ aw_q = <<>> /\ w_q = <<>> /\ aw_seen = FALSE /\ w_seen = FALSE

(* The software has one access at a time. *)
AccessInv ==
  /\ NoWrite \/ InEffect \/ \E w \in Regs!Writes : UnderWay(w)
  /\ sw \in {"ready", "polling", "finished"} => NoWrite
  /\ araddr # Regs!NoRead => sw = "polling"
  /\ rvalid => araddr # Regs!NoRead
  /\ araddr \in {Regs!NoRead, "REG_STATUS"}

CoreInv == ms = "RUNNING" => cycle_counter < MaxRun

(* ---- Where a run is while the software is where it is ---- *)

StartWrite == [reg |-> "REG_CTRL", data |-> {Regs!START}]
AbortWrite == [reg |-> "REG_CTRL", data |-> {Regs!SOFT_RESET}]
ClearWrite == [reg |-> "REG_CTRL", data |-> {}]
StatusWrite == [reg |-> "REG_STATUS", data |-> {Regs!DONE}]

AtRest == ms = "S_IDLE" /\ ~done /\ ~o_start_pulse

(* The run of the last START is under way or over; DONE, when it is up, is  *)
(* the DONE of that run.                                                    *)
RunOfLastStart ==
  /\ ~o_start_pulse /\ reg_ctrl = {}
  /\ o_busy_cycles = cycle_counter
  /\ done => ms = "S_IDLE"
  /\ done_sticky => AtRest

RunInv ==
  CASE sw = "ready" -> AtRest /\ reg_ctrl = {}
    [] sw = "starting" ->
         \/ UnderWay(StartWrite) /\ AtRest
         \/ /\ InEffect /\ o_start_pulse /\ reg_ctrl = {}
            /\ ms = "S_IDLE" /\ ~done /\ ~done_sticky
         \/ (InEffect \/ NoWrite) /\ RunOfLastStart
    [] sw = "polling" -> RunOfLastStart
    [] sw = "finished" -> AtRest /\ reg_ctrl = {} /\ o_busy_cycles = cycle_counter
    [] sw = "aborting" ->
         /\ ~o_start_pulse
         /\ \/ UnderWay(AbortWrite) /\ reg_ctrl = {}
            \/ InEffect /\ reg_ctrl = {Regs!SOFT_RESET}
            \/ NoWrite /\ reg_ctrl = {Regs!SOFT_RESET} /\ AtRest
    [] sw = "clearing" ->
         /\ AtRest
         /\ \/ UnderWay(ClearWrite)
            \/ UnderWay(StatusWrite) /\ reg_ctrl = {}
            \/ (InEffect \/ NoWrite) /\ reg_ctrl = {}

IInv == TypeOK /\ AccessInv /\ CoreInv
-----------------------------------------------------------------------------
USE ControlPlaneAssumption

LEMMA InitIInv == Init => IInv /\ RunInv
<1> SUFFICES ASSUME Init PROVE IInv /\ RunInv
  OBVIOUS
<1> USE DEF Init, Regs!Init, Perf!Init
<1>1. AccessInv
  BY DEF AccessInv, NoWrite, Regs!NoRead
<1>2. CoreInv /\ RunInv
  BY DEF CoreInv, RunInv, AtRest
<1>3. Regs!TypeOK
  <2>1. <<>> \in Seq(Regs!Writes)
    OBVIOUS
  <2>2. aw_q \in Seq(Regs!Writes) /\ w_q \in Seq(Regs!Writes) /\ issued \in Seq(Regs!Writes)
    BY <2>1
  <2>3. awaddr_latched \in Regs!Registers /\ araddr \in Regs!Registers \cup {Regs!NoRead}
    BY DEF Regs!Registers
  <2>4. /\ wdata_latched \in (SUBSET {0, 1}) \cup {{}} /\ reg_cfg \in (SUBSET {0, 1}) \cup {{}}
        /\ reg_ctrl \subseteq {Regs!SOFT_RESET} /\ unanswered \in 0 .. 1
    OBVIOUS
  <2>5. /\ aw_seen \in BOOLEAN /\ w_seen \in BOOLEAN /\ bvalid \in BOOLEAN
        /\ rvalid \in BOOLEAN /\ done_sticky \in BOOLEAN /\ o_start_pulse \in BOOLEAN
    OBVIOUS
  <2> QED
    BY <2>2, <2>3, <2>4, <2>5 DEF Regs!TypeOK
<1>4. TypeOK
  <2>1. cycle_counter \in 0 .. MaxRun /\ o_run_count \in 0 .. CountWrap - 1
        /\ o_busy_cycles \in 0 .. CountWrap - 1
    OBVIOUS
  <2>2. ms \in CoreStates /\ done \in BOOLEAN /\ busy = (ms # "S_IDLE") /\ sw \in SoftwareStates
    BY DEF CoreStates, SoftwareStates
  <2> QED
    BY <1>3, <2>1, <2>2 DEF TypeOK
<1> QED
  BY <1>1, <1>2, <1>4 DEF IInv
-----------------------------------------------------------------------------
(* ---- One edge of the register file ---- *)

LEMMA OneElement ==
  ASSUME NEW w
  PROVE  /\ <<w>> # <<>> /\ Head(<<w>>) = w /\ Tail(<<w>>) = <<>>
         /\ <<>> \o <<w>> = <<w>> /\ <<w>> \o <<>> = <<w>> /\ <<>> \o <<>> = <<>>
         /\ Len(<<w>>) = 1 /\ Len(<<>>) = 0
OBVIOUS

(* The edges a master that keeps to the protocol can see.                   *)
Edge(new, next, awv, wv, bready, rready) ==
  /\ awv \in BOOLEAN /\ wv \in BOOLEAN /\ bready \in {bvalid, FALSE} /\ rready \in {rvalid, FALSE}
  /\ Regs!Tick(new, next, awv, wv, bready, rready, done)

LEMMA NoWriteStep ==
  ASSUME NoWrite, NEW new, NEW next, NEW awv, NEW wv, NEW bready, NEW rready,
         Edge(new, next, awv, wv, bready, rready)
  PROVE  /\ ~Regs!write_fire
         /\ new = <<>> => NoWrite'
         /\ \A w : new = <<w>> => UnderWay(w)'
<1>1. ~Regs!write_fire
  BY DEF NoWrite, Regs!write_fire
<1>2. /\ aw_q' = <<>> \o new /\ aw_seen' = FALSE /\ w_q' = <<>> \o new /\ w_seen' = FALSE
      /\ bvalid' = FALSE /\ unanswered' = Len(new) /\ issued' = <<>> \o new
  <2>1. aw_q' = <<>> \o new /\ aw_seen' = FALSE
    BY <1>1 DEF NoWrite, Edge, Regs!Tick, Regs!AddressTick
  <2>2. w_q' = <<>> \o new /\ w_seen' = FALSE
    BY <1>1 DEF NoWrite, Edge, Regs!Tick, Regs!DataTick
  <2>3. bvalid' = FALSE /\ unanswered' = 0 + Len(new) - 0 /\ issued' = <<>> \o new
    BY <1>1 DEF NoWrite, Edge, Regs!Tick, Regs!ResponseTick
  <2> QED
    BY <2>1, <2>2, <2>3
<1> QED
  BY <1>1, <1>2, OneElement DEF NoWrite, UnderWay
LEMMA UnderWayStep ==
  ASSUME NEW w, UnderWay(w), NEW new, NEW next, NEW awv, NEW wv, NEW bready, NEW rready,
         Edge(new, next, awv, wv, bready, rready), new = <<>>
  PROVE  \/ ~Regs!write_fire /\ UnderWay(w)'
         \/ /\ Regs!write_fire /\ awaddr_latched = w.reg /\ wdata_latched = w.data
            /\ InEffect'
<1>1. CASE Regs!write_fire
  <2>1. /\ aw_seen = TRUE /\ w_seen = TRUE /\ aw_q = <<>> /\ w_q = <<>>
        /\ awaddr_latched = w.reg /\ wdata_latched = w.data
    BY <1>1 DEF UnderWay, Regs!write_fire
  <2>2. aw_q' = <<>> \o <<>> /\ aw_seen' = FALSE
    BY <1>1, <2>1 DEF Edge, Regs!Tick, Regs!AddressTick
  <2>3. w_q' = <<>> \o <<>> /\ w_seen' = FALSE
    BY <1>1, <2>1 DEF Edge, Regs!Tick, Regs!DataTick
  <2>4. bvalid' = TRUE /\ issued' = Tail(<<w>>) \o <<>>
    BY <1>1 DEF UnderWay, Edge, Regs!Tick, Regs!ResponseTick
  <2>5. unanswered' = 1 + Len(<<>>) - 0
    BY DEF UnderWay, Edge, Regs!Tick, Regs!ResponseTick
  <2>6. unanswered' = 1 /\ aw_q' = <<>> /\ w_q' = <<>> /\ issued' = <<>>
    BY <2>2, <2>3, <2>4, <2>5, OneElement
  <2> QED
    BY <1>1, <2>1, <2>2, <2>3, <2>4, <2>6 DEF InEffect
<1>2. CASE ~Regs!write_fire
  <2>1. bvalid' = FALSE /\ unanswered' = 1 /\ issued' = <<w>>
    <3>1. bvalid' = FALSE /\ issued' = <<w>> \o <<>>
      BY <1>2 DEF UnderWay, Edge, Regs!Tick, Regs!ResponseTick
    <3>2. unanswered' = 1 + Len(<<>>) - 0
      BY DEF UnderWay, Edge, Regs!Tick, Regs!ResponseTick
    <3> QED
      BY <3>1, <3>2, OneElement
  <2>2. \/ aw_seen' = FALSE /\ aw_q' = <<w>>
        \/ aw_seen' = TRUE /\ aw_q' = <<>> /\ awaddr_latched' = w.reg
    BY <1>2, OneElement
       DEF UnderWay, Edge, Regs!Tick, Regs!AddressTick, Regs!s_axil_awready
  <2>3. \/ w_seen' = FALSE /\ w_q' = <<w>>
        \/ w_seen' = TRUE /\ w_q' = <<>> /\ wdata_latched' = w.data
    BY <1>2, OneElement
       DEF UnderWay, Edge, Regs!Tick, Regs!DataTick, Regs!s_axil_wready
  <2> QED
    BY <1>2, <2>1, <2>2, <2>3 DEF UnderWay
<1> QED
  BY <1>1, <1>2

LEMMA InEffectStep ==
  ASSUME InEffect, NEW new, NEW next, NEW awv, NEW wv, NEW bready, NEW rready,
         Edge(new, next, awv, wv, bready, rready), new = <<>>
  PROVE  ~Regs!write_fire /\ (InEffect' \/ NoWrite')
<1>1. ~Regs!write_fire
  BY DEF InEffect, Regs!write_fire
<1>2. aw_q' = <<>> /\ aw_seen' = FALSE
  BY <1>1, OneElement DEF InEffect, Edge, Regs!Tick, Regs!AddressTick
<1>3. w_q' = <<>> /\ w_seen' = FALSE
  BY <1>1, OneElement DEF InEffect, Edge, Regs!Tick, Regs!DataTick
<1>4. issued' = <<>> /\ \/ bvalid' = TRUE /\ unanswered' = 1
                        \/ bvalid' = FALSE /\ unanswered' = 0
  <2>1. issued' = <<>> \o <<>>
    BY <1>1 DEF InEffect, Edge, Regs!Tick, Regs!ResponseTick
  <2>2. \/ bvalid' = TRUE /\ unanswered' = 1 + Len(<<>>) - 0
        \/ bvalid' = FALSE /\ unanswered' = 1 + Len(<<>>) - 1
    <3>1. bready = TRUE \/ bready = FALSE
      BY DEF InEffect, Edge
    <3>2. CASE bready = TRUE
      BY <3>2 DEF InEffect, Edge, Regs!Tick, Regs!ResponseTick
    <3>3. CASE bready = FALSE
      BY <3>3 DEF InEffect, Edge, Regs!Tick, Regs!ResponseTick
    <3> QED
      BY <3>1, <3>2, <3>3
  <2> QED
    BY <2>1, <2>2, OneElement
<1> QED
  BY <1>1, <1>2, <1>3, <1>4 DEF InEffect, NoWrite

(* What an edge does to the registers the core sees.                        *)
LEMMA RegistersKept ==
  ASSUME NEW new, NEW next, NEW awv, NEW wv, NEW bready, NEW rready,
         Edge(new, next, awv, wv, bready, rready), ~Regs!write_fire
  PROVE  o_start_pulse' = FALSE /\ reg_ctrl' = reg_ctrl /\ done_sticky' = (done \/ done_sticky)
BY DEF Edge, Regs!Tick, Regs!RegisterTick, Regs!Sets

LEMMA RegistersWritten ==
  ASSUME NEW new, NEW next, NEW awv, NEW wv, NEW bready, NEW rready,
         Edge(new, next, awv, wv, bready, rready), Regs!write_fire, done \in BOOLEAN,
         NEW w, awaddr_latched = w.reg, wdata_latched = w.data
  PROVE  /\ w = StartWrite => o_start_pulse' = TRUE /\ reg_ctrl' = {} /\ done_sticky' = done
         /\ w = AbortWrite => o_start_pulse' = FALSE /\ reg_ctrl' = {Regs!SOFT_RESET}
         /\ w = ClearWrite => o_start_pulse' = FALSE /\ reg_ctrl' = {}
         /\ w = StatusWrite => o_start_pulse' = FALSE /\ reg_ctrl' = reg_ctrl
<1> USE DEF Regs!START, Regs!SOFT_RESET, Regs!DONE, StartWrite, AbortWrite, ClearWrite, StatusWrite
<1>1. /\ o_start_pulse' = Regs!Sets("REG_CTRL", 0)
      /\ reg_ctrl' = IF Regs!write_fire /\ awaddr_latched = "REG_CTRL"
                     THEN wdata_latched \ {0} ELSE reg_ctrl
      /\ done_sticky' = (done \/ (done_sticky /\ ~Regs!Sets("REG_CTRL", 0)
                                             /\ ~Regs!Sets("REG_STATUS", 1)))
  BY DEF Edge, Regs!Tick, Regs!RegisterTick
<1>2. CASE w = StartWrite
  <2>1. awaddr_latched = "REG_CTRL" /\ wdata_latched = {0}
    BY <1>2
  <2>2. Regs!Sets("REG_CTRL", 0) = TRUE
    BY <2>1 DEF Regs!Sets
  <2>3. done_sticky' = (done \/ (done_sticky /\ ~TRUE /\ ~Regs!Sets("REG_STATUS", 1)))
    BY <1>1, <2>2
  <2>4. done_sticky' = done
    BY <2>3
  <2>5. o_start_pulse' = TRUE /\ reg_ctrl' = {}
    BY <1>1, <2>1, <2>2
  <2> QED
    BY <1>2, <2>4, <2>5
<1>3. CASE w = AbortWrite
  <2>1. awaddr_latched = "REG_CTRL" /\ wdata_latched = {1}
    BY <1>3
  <2>2. Regs!Sets("REG_CTRL", 0) = FALSE /\ reg_ctrl' = {1} \ {0}
    BY <1>1, <2>1 DEF Regs!Sets
  <2> QED
    BY <1>1, <1>3, <2>2
<1>4. CASE w = ClearWrite
  <2>1. awaddr_latched = "REG_CTRL" /\ wdata_latched = {}
    BY <1>4
  <2>2. Regs!Sets("REG_CTRL", 0) = FALSE /\ reg_ctrl' = {} \ {0}
    BY <1>1, <2>1 DEF Regs!Sets
  <2> QED
    BY <1>1, <1>4, <2>2
<1>5. CASE w = StatusWrite
  <2>1. awaddr_latched = "REG_STATUS"
    BY <1>5
  <2>2. Regs!Sets("REG_CTRL", 0) = FALSE /\ reg_ctrl' = reg_ctrl
    BY <1>1, <2>1 DEF Regs!Sets
  <2> QED
    BY <1>1, <1>5, <2>2
<1> QED
  BY <1>2, <1>3, <1>4, <1>5
-----------------------------------------------------------------------------
(* ---- Types, and one access at a time ---- *)

Commands == {StartWrite, AbortWrite, ClearWrite, StatusWrite}

LEMMA CommandsAreWrites == Commands \subseteq Regs!Writes
BY DEF Commands, StartWrite, AbortWrite, ClearWrite, StatusWrite, Regs!Writes,
       Regs!Registers, Regs!START, Regs!SOFT_RESET, Regs!DONE

(* What the software may issue next. *)
Quiet(c, s) == c.write = <<>> /\ c.read = Regs!NoRead /\ c.sw = s
Sends(c, w, s) == c.write = <<w>> /\ c.read = Regs!NoRead /\ c.sw = s
Polls(c) == c.write = <<>> /\ c.read = "REG_STATUS" /\ c.sw = "polling"

LEMMA Choosing ==
  ASSUME NEW read_done, NEW value, NEW c \in Choices(read_done, value)
  PROVE  /\ sw = "ready" => Quiet(c, "ready") \/ Sends(c, StartWrite, "starting")
         /\ sw = "starting" => \/ Quiet(c, "starting")
                               \/ Quiet(c, "polling") /\ unanswered = 0
         /\ sw = "polling" /\ araddr # Regs!NoRead =>
              \/ Quiet(c, "polling")
              \/ Quiet(c, "finished") /\ read_done /\ Regs!DONE \in value
         /\ sw = "polling" /\ araddr = Regs!NoRead =>
              \/ Polls(c) \/ Sends(c, AbortWrite, "aborting")
              \/ Retries /\ Sends(c, StartWrite, "starting")
         /\ sw = "finished" => \/ Quiet(c, "finished") \/ Quiet(c, "ready")
                               \/ Sends(c, StatusWrite, "clearing")
         /\ sw = "aborting" =>
              \/ Quiet(c, "aborting") /\ unanswered # 0
              \/ unanswered = 0 /\ Sends(c, ClearWrite, "clearing")
              \/ unanswered = 0 /\ Sends(c, StartWrite, "starting")
         /\ sw = "clearing" => \/ Quiet(c, "clearing")
                               \/ Quiet(c, "ready") /\ unanswered = 0
<1>1. /\ CtrlWrite({Regs!START}) = <<StartWrite>> /\ CtrlWrite({Regs!SOFT_RESET}) = <<AbortWrite>>
      /\ CtrlWrite({}) = <<ClearWrite>> /\ DoneWrite = <<StatusWrite>>
  BY DEF CtrlWrite, DoneWrite, StartWrite, AbortWrite, ClearWrite, StatusWrite
<1>2. /\ \A s : c = NoAccess(s) => Quiet(c, s)
      /\ \A w, s : c = Issues(<<w>>, Regs!NoRead, s) => Sends(c, w, s)
      /\ c = Issues(<<>>, "REG_STATUS", "polling") => Polls(c)
  BY DEF NoAccess, Issues, Quiet, Sends, Polls
<1>3. CASE sw = "ready"
  BY <1>1, <1>2, <1>3 DEF Choices
<1>4. CASE sw = "starting"
  BY <1>2, <1>4 DEF Choices
<1>5. CASE sw = "polling" /\ araddr # Regs!NoRead
  <2>1. c = NoAccess(IF read_done /\ Regs!DONE \in value THEN "finished" ELSE "polling")
    BY <1>5 DEF Choices
  <2> QED
    BY <1>2, <1>5, <2>1
<1>6. CASE sw = "polling" /\ araddr = Regs!NoRead
  <2>1. c \in {Issues(<<>>, "REG_STATUS", sw), Issues(<<AbortWrite>>, Regs!NoRead, "aborting")}
               \cup (IF Retries THEN {Issues(<<StartWrite>>, Regs!NoRead, "starting")} ELSE {})
    BY <1>1, <1>6 DEF Choices
  <2>2. \/ c = Issues(<<>>, "REG_STATUS", sw)
        \/ c = Issues(<<AbortWrite>>, Regs!NoRead, "aborting")
        \/ Retries /\ c = Issues(<<StartWrite>>, Regs!NoRead, "starting")
    BY <2>1, Zenon
  <2> QED
    BY <1>2, <1>6, <2>2
<1>7. CASE sw = "finished"
  BY <1>1, <1>2, <1>7 DEF Choices
<1>8. CASE sw = "aborting"
  BY <1>1, <1>2, <1>8 DEF Choices
<1>9. CASE sw = "clearing"
  BY <1>2, <1>9 DEF Choices
<1> QED
  BY <1>3, <1>4, <1>5, <1>6, <1>7, <1>8, <1>9

LEMMA WhatIsIssued ==
  ASSUME AccessInv, sw \in SoftwareStates, NEW read_done \in BOOLEAN, NEW value,
         NEW c \in Choices(read_done, value)
  PROVE  /\ c.sw \in SoftwareStates
         /\ \/ c.write = <<>>
            \/ NoWrite /\ araddr = Regs!NoRead /\ \E w \in Commands : c.write = <<w>>
         /\ c.read = Regs!NoRead \/ Polls(c)
         /\ c.sw \in {"ready", "polling", "finished"} => NoWrite /\ c.write = <<>>
         /\ araddr # Regs!NoRead => c.read = Regs!NoRead
         /\ araddr # Regs!NoRead /\ ~read_done => c.sw = "polling"
<1>1. unanswered = 0 => NoWrite
  BY DEF AccessInv, InEffect, UnderWay
<1>2. StartWrite \in Commands /\ AbortWrite \in Commands
      /\ ClearWrite \in Commands /\ StatusWrite \in Commands
  BY DEF Commands
<1>3. CASE sw = "ready"
  BY <1>2, <1>3, Choosing DEF AccessInv, SoftwareStates, Quiet, Sends
<1>4. CASE sw = "starting"
  BY <1>1, <1>4, Choosing DEF AccessInv, SoftwareStates, Quiet
<1>5. CASE sw = "polling" /\ araddr # Regs!NoRead
  BY <1>5, Choosing DEF AccessInv, SoftwareStates, Quiet
<1>6. CASE sw = "polling" /\ araddr = Regs!NoRead
  BY <1>2, <1>6, Choosing DEF AccessInv, SoftwareStates, Sends, Polls
<1>7. CASE sw = "finished"
  BY <1>2, <1>7, Choosing DEF AccessInv, SoftwareStates, Quiet, Sends
<1>8. CASE sw = "aborting"
  BY <1>1, <1>2, <1>8, Choosing DEF AccessInv, SoftwareStates, Quiet, Sends
<1>9. CASE sw = "clearing"
  BY <1>1, <1>9, Choosing DEF AccessInv, SoftwareStates, Quiet
<1> QED
  BY <1>3, <1>4, <1>5, <1>6, <1>7, <1>8, <1>9 DEF SoftwareStates

LEMMA AccessStep ==
  ASSUME AccessInv, sw \in SoftwareStates, rvalid \in BOOLEAN,
         NEW awv, NEW wv, NEW bready, NEW rready,
         NEW c \in Choices(rvalid /\ rready, Regs!s_axil_rdata(busy)),
         Edge(c.write, c.read, awv, wv, bready, rready), sw' = c.sw
  PROVE  AccessInv'
<1>1. rready \in BOOLEAN /\ (rvalid /\ rready) \in BOOLEAN
  BY DEF Edge
<1>2. /\ c.sw \in SoftwareStates
      /\ \/ c.write = <<>>
         \/ NoWrite /\ araddr = Regs!NoRead /\ \E w \in Commands : c.write = <<w>>
      /\ c.read = Regs!NoRead \/ Polls(c)
      /\ c.sw \in {"ready", "polling", "finished"} => NoWrite /\ c.write = <<>>
      /\ araddr # Regs!NoRead => c.read = Regs!NoRead
      /\ araddr # Regs!NoRead /\ ~(rvalid /\ rready) => c.sw = "polling"
  BY <1>1, WhatIsIssued
<1>3. NoWrite' \/ InEffect' \/ \E w \in Regs!Writes : UnderWay(w)'
  <2>1. CASE c.write = <<>>
    BY <2>1, NoWriteStep, UnderWayStep, InEffectStep DEF AccessInv
  <2>2. CASE c.write # <<>>
    <3>1. PICK w \in Commands : NoWrite /\ c.write = <<w>>
      BY <1>2, <2>2
    <3> QED
      BY <3>1, NoWriteStep, CommandsAreWrites
  <2> QED
    BY <2>1, <2>2
<1>4. sw' \in {"ready", "polling", "finished"} => NoWrite'
  BY <1>2, NoWriteStep
<1>5. /\ rvalid' = IF rvalid THEN ~rready ELSE araddr # Regs!NoRead
      /\ araddr' = IF araddr = Regs!NoRead THEN c.read
                   ELSE IF rvalid /\ rready THEN Regs!NoRead ELSE araddr
  BY DEF Edge, Regs!Tick, Regs!ReadTick, Regs!NoRead
<1>6. /\ araddr' \in {Regs!NoRead, "REG_STATUS"}
      /\ araddr' # Regs!NoRead => sw' = "polling"
  BY <1>2, <1>5 DEF AccessInv, Polls
<1>7. rvalid' => araddr' # Regs!NoRead
  BY <1>1, <1>5 DEF AccessInv
<1> QED
  BY <1>3, <1>4, <1>6, <1>7 DEF AccessInv
LEMMA RegisterTypes ==
  ASSUME Regs!TypeOK, AccessInv, AccessInv', done \in BOOLEAN,
         NEW new, NEW next, NEW awv, NEW wv, NEW bready, NEW rready,
         Edge(new, next, awv, wv, bready, rready)
  PROVE  Regs!TypeOK'
<1>1. /\ Regs!AddressTick(awv, new) /\ Regs!DataTick(wv, new) /\ Regs!ResponseTick(bready, new)
      /\ Regs!ReadTick(rready, next) /\ Regs!RegisterTick(done)
      /\ bready \in BOOLEAN /\ rready \in BOOLEAN
  BY DEF Edge, Regs!Tick, Regs!TypeOK
<1>2. /\ aw_q' \in Seq(Regs!Writes) /\ w_q' \in Seq(Regs!Writes) /\ issued' \in Seq(Regs!Writes)
  <2>1. <<>> \in Seq(Regs!Writes) /\ \A w \in Regs!Writes : <<w>> \in Seq(Regs!Writes)
    OBVIOUS
  <2> QED
    BY <2>1 DEF AccessInv, NoWrite, InEffect, UnderWay
<1>3. /\ unanswered' \in 0 .. 1 /\ bvalid' \in BOOLEAN
      /\ araddr' \in Regs!Registers \cup {Regs!NoRead}
  <2>1. unanswered' \in 0 .. 1 /\ bvalid' \in BOOLEAN
    <3>1. (NoWrite \/ InEffect \/ \E w \in Regs!Writes : UnderWay(w))'
      BY DEF AccessInv
    <3>2. unanswered' = 0 \/ unanswered' = 1
      BY <3>1 DEF NoWrite, InEffect, UnderWay
    <3>3. bvalid' = FALSE \/ bvalid' = TRUE
      BY <3>1 DEF NoWrite, InEffect, UnderWay
    <3>4. unanswered' \in 0 .. 1
      BY <3>2
    <3> QED
      BY <3>3, <3>4
  <2>2. araddr' \in {Regs!NoRead, "REG_STATUS"}
    BY DEF AccessInv
  <2> QED
    BY <2>1, <2>2 DEF Regs!Registers
<1>4. /\ aw_q # <<>> => Head(aw_q).reg \in Regs!Registers
      /\ w_q # <<>> => Head(w_q).data \in SUBSET {0, 1}
  BY OneElement DEF AccessInv, NoWrite, InEffect, UnderWay, Regs!Writes
<1>5. aw_seen' \in BOOLEAN /\ awaddr_latched' \in Regs!Registers
  BY <1>1, <1>4 DEF Regs!AddressTick, Regs!TypeOK
<1>6. w_seen' \in BOOLEAN /\ wdata_latched' \in (SUBSET {0, 1}) \cup {{}}
  BY <1>1, <1>4 DEF Regs!DataTick, Regs!TypeOK
<1>7. rvalid' \in BOOLEAN
  BY <1>1 DEF Regs!ReadTick, Regs!TypeOK
<1>8. reg_cfg' \in (SUBSET {0, 1}) \cup {{}} /\ reg_ctrl' \subseteq {Regs!SOFT_RESET}
  BY <1>1 DEF Regs!RegisterTick, Regs!TypeOK, Regs!START, Regs!SOFT_RESET
<1>9. done_sticky' \in BOOLEAN /\ o_start_pulse' \in BOOLEAN
  BY <1>1 DEF Regs!RegisterTick, Regs!TypeOK, Regs!Sets
<1>10. /\ aw_seen' \in BOOLEAN /\ awaddr_latched' \in Regs!Registers
       /\ w_seen' \in BOOLEAN /\ wdata_latched' \in (SUBSET {0, 1}) \cup {{}}
       /\ bvalid' \in BOOLEAN /\ rvalid' \in BOOLEAN
       /\ reg_ctrl' \subseteq {Regs!SOFT_RESET} /\ reg_cfg' \in (SUBSET {0, 1}) \cup {{}}
       /\ done_sticky' \in BOOLEAN /\ o_start_pulse' \in BOOLEAN
  BY <1>3, <1>5, <1>6, <1>7, <1>8, <1>9
<1> QED
  BY <1>2, <1>3, <1>10 DEF Regs!TypeOK

(* The core: busy is up exactly between the start and the end of a run.     *)
LEMMA CoreTypes ==
  ASSUME TypeOK, CoreInv, CoreTick
  PROVE  /\ ms' \in CoreStates /\ done' \in BOOLEAN /\ busy' = (ms' # "S_IDLE")
         /\ cycle_counter' \in 0 .. MaxRun /\ CoreInv'
<1>1. /\ ms \in CoreStates /\ done \in BOOLEAN /\ cycle_counter \in 0 .. MaxRun
      /\ ms = "S_IDLE" => busy = FALSE
      /\ ms # "S_IDLE" => busy = TRUE
      /\ ms = "RUNNING" => cycle_counter < MaxRun
  BY DEF TypeOK, CoreInv
<1>2. /\ ms' \in CoreStates /\ done' \in BOOLEAN /\ cycle_counter' \in 0 .. MaxRun
      /\ ms' = "S_IDLE" => busy' = FALSE
      /\ ms' # "S_IDLE" => busy' = TRUE
      /\ ms' = "RUNNING" => cycle_counter' < MaxRun
  <2> USE DEF CoreStates
  <2>1. CASE CoreReset
    BY <1>1, <2>1 DEF CoreReset
  <2>2. CASE CoreIdle
    <3>1. MaxRun \in Nat /\ 0 \in 0 .. MaxRun /\ 0 < MaxRun
      OBVIOUS
    <3>2. cycle_counter' \in 0 .. MaxRun
      BY <1>1, <2>2, <3>1 DEF CoreIdle
    <3> QED
      BY <1>1, <2>2, <3>1, <3>2 DEF CoreIdle
  <2>3. CASE CoreRuns
    <3>1. cycle_counter' = cycle_counter + 1 /\ cycle_counter < MaxRun /\ MaxRun \in Nat
      BY <1>1, <2>3 DEF CoreRuns
    <3>2. cycle_counter' \in 0 .. MaxRun
      BY <1>1, <3>1
    <3> QED
      BY <1>1, <2>3, <3>2 DEF CoreRuns
  <2>4. CASE CoreDone
    BY <1>1, <2>4 DEF CoreDone
  <2> QED
    BY <2>1, <2>2, <2>3, <2>4 DEF CoreTick
<1>3. busy' = (ms' # "S_IDLE")
  BY <1>2
<1> QED
  BY <1>2, <1>3 DEF CoreInv

LEMMA CounterTypes ==
  ASSUME TypeOK, NEW r, NEW s, NEW a, Perf!Tick(r, s, a)
  PROVE  /\ o_run_count' \in 0 .. CountWrap - 1 /\ o_busy_cycles' \in 0 .. CountWrap - 1
<1>1. \A n \in Nat : n % CountWrap \in 0 .. CountWrap - 1
  OBVIOUS
<1> QED
  BY <1>1 DEF TypeOK, Perf!Tick, Perf!Count

(* One edge, as the software, the register file, the counters and the core  *)
(* see it.                                                                  *)
Step(c, awv, wv, bready, rready) ==
  /\ c \in Choices(rvalid /\ rready, Regs!s_axil_rdata(busy)) /\ sw' = c.sw
  /\ Edge(c.write, c.read, awv, wv, bready, rready)
  /\ Perf!Tick(Regs!o_soft_reset, o_start_pulse, ms = "RUNNING")
  /\ CoreTick

(* What one clock edge is made of. *)
LEMMA ClockIsEdge ==
  ASSUME TypeOK, Clock
  PROVE  \E c, awv, wv, bready, rready : Step(c, awv, wv, bready, rready)
<1>1. PICK awv \in BOOLEAN, wv \in BOOLEAN, bready \in {bvalid, FALSE}, rready \in {rvalid, FALSE} :
        ClockWith(awv, wv, bready, rready)
  BY DEF Clock, Regs!MayPutOff, TypeOK, Regs!TypeOK
<1>2. PICK c \in Choices(rvalid /\ rready, Regs!s_axil_rdata(busy)) :
        /\ sw' = c.sw
        /\ Regs!Tick(c.write, c.read, awv, wv, bready, rready, done)
        /\ Perf!Tick(Regs!o_soft_reset, o_start_pulse, ms = "RUNNING")
        /\ CoreTick
  BY <1>1 DEF ClockWith
<1>3. Edge(c.write, c.read, awv, wv, bready, rready)
  BY <1>2 DEF Edge
<1>4. Step(c, awv, wv, bready, rready)
  BY <1>2, <1>3 DEF Step
<1> QED
  BY <1>4

LEMMA NextIInv == IInv /\ [Clock]_vars => IInv'
<1> SUFFICES ASSUME IInv, [Clock]_vars PROVE IInv'
  OBVIOUS
<1>1. CASE UNCHANGED vars
  BY <1>1 DEF vars, channelVars, regVars, masterVars, coreVars, IInv, TypeOK, Regs!TypeOK,
              AccessInv, NoWrite, InEffect, UnderWay, CoreInv
<1>2. CASE Clock
  <2>1. PICK c, awv, wv, bready, rready : Step(c, awv, wv, bready, rready)
    BY <1>2, ClockIsEdge DEF IInv
  <2>2. /\ c \in Choices(rvalid /\ rready, Regs!s_axil_rdata(busy)) /\ sw' = c.sw
        /\ Edge(c.write, c.read, awv, wv, bready, rready)
        /\ Perf!Tick(Regs!o_soft_reset, o_start_pulse, ms = "RUNNING")
        /\ CoreTick
    BY <2>1 DEF Step
  <2>3. sw \in SoftwareStates /\ rvalid \in BOOLEAN /\ done \in BOOLEAN /\ Regs!TypeOK
    BY DEF IInv, TypeOK, Regs!TypeOK
  <2>4. AccessInv'
    BY <2>2, <2>3, AccessStep DEF IInv
  <2>5. Regs!TypeOK'
    BY <2>2, <2>3, <2>4, RegisterTypes DEF IInv
  <2>6. sw' \in SoftwareStates
    BY <2>2, <2>3, WhatIsIssued DEF IInv, Edge
  <2>7. TypeOK' /\ CoreInv'
    BY <2>2, <2>5, <2>6, CoreTypes, CounterTypes DEF IInv, TypeOK
  <2> QED
    BY <2>4, <2>7 DEF IInv
<1> QED
  BY <1>1, <1>2

-----------------------------------------------------------------------------
(* ---- The run of the last START ---- *)

(* A core that is at rest stays at rest until a start is latched.           *)
LEMMA RestStep ==
  ASSUME AtRest, CoreTick, o_start_pulse' = FALSE
  PROVE  AtRest' /\ cycle_counter' = cycle_counter
BY DEF AtRest, CoreTick, CoreReset, CoreIdle, CoreRuns, CoreDone

(* The counters outside the core count with it: a run is too short for them *)
(* to wrap.                                                                 *)
LEMMA CountStep ==
  ASSUME TypeOK, CoreInv, CoreTick, reg_ctrl = {}, ~o_start_pulse,
         Perf!Tick(Regs!o_soft_reset, o_start_pulse, ms = "RUNNING"),
         o_busy_cycles = cycle_counter
  PROVE  o_busy_cycles' = cycle_counter'
<1>1. /\ CoreIdle \/ CoreRuns \/ CoreDone
      /\ o_busy_cycles' = Perf!Count(o_busy_cycles, ms = "RUNNING")
  BY DEF CoreTick, Regs!o_soft_reset, Perf!Tick
<1>2. \A n \in 0 .. CountWrap - 1 : n % CountWrap = n
  OBVIOUS
<1>3. cycle_counter \in Nat /\ cycle_counter < CountWrap /\ cycle_counter + 0 = cycle_counter
  BY DEF TypeOK
<1>4. CASE ms = "RUNNING"
  <2>1. cycle_counter + 1 \in 0 .. CountWrap - 1
    BY <1>3, <1>4 DEF TypeOK, CoreInv
  <2>2. o_busy_cycles' = (cycle_counter + 1) % CountWrap
    BY <1>1, <1>4 DEF Perf!Count
  <2>3. cycle_counter' = cycle_counter + 1
    BY <1>1, <1>4 DEF CoreIdle, CoreRuns, CoreDone
  <2> QED
    BY <1>2, <2>1, <2>2, <2>3
<1>5. CASE ms # "RUNNING"
  <2>1. o_busy_cycles' = cycle_counter % CountWrap
    BY <1>1, <1>3, <1>5 DEF Perf!Count
  <2>2. cycle_counter' = cycle_counter
    BY <1>1, <1>5 DEF CoreIdle, CoreRuns, CoreDone
  <2>3. cycle_counter \in 0 .. CountWrap - 1
    BY <1>3
  <2> QED
    BY <1>2, <2>1, <2>2, <2>3
<1> QED
  BY <1>4, <1>5

LEMMA RunStep ==
  ASSUME TypeOK, CoreInv, RunOfLastStart, CoreTick,
         Perf!Tick(Regs!o_soft_reset, o_start_pulse, ms = "RUNNING"),
         o_start_pulse' = FALSE, reg_ctrl' = {}, done_sticky' = (done \/ done_sticky)
  PROVE  RunOfLastStart' /\ (done_sticky => AtRest')
<1>1. CoreIdle \/ CoreRuns \/ CoreDone
  BY DEF RunOfLastStart, CoreTick, Regs!o_soft_reset
<1>2. o_busy_cycles' = cycle_counter'
  BY CountStep DEF RunOfLastStart
<1>3. done' => ms' = "S_IDLE"
  BY <1>1 DEF CoreIdle, CoreRuns, CoreDone
<1>4. done \/ done_sticky => AtRest'
  BY <1>1 DEF RunOfLastStart, AtRest, CoreIdle, CoreRuns, CoreDone
<1> QED
  BY <1>2, <1>3, <1>4 DEF RunOfLastStart

(* The start takes: the core leaves rest as the DONE of the last run goes.  *)
LEMMA StartStep ==
  ASSUME TypeOK, CoreTick, ms = "S_IDLE", o_start_pulse, reg_ctrl = {}, ~done, ~done_sticky,
         Perf!Tick(Regs!o_soft_reset, o_start_pulse, ms = "RUNNING"),
         o_start_pulse' = FALSE, reg_ctrl' = {}, done_sticky' = (done \/ done_sticky)
  PROVE  RunOfLastStart'
<1>1. CoreIdle /\ o_busy_cycles' = 0
  BY DEF CoreTick, CoreRuns, CoreDone, Regs!o_soft_reset, Perf!Tick
<1>2. busy = FALSE
  BY DEF TypeOK
<1>3. done' = FALSE /\ cycle_counter' = 0
  BY <1>1, <1>2 DEF CoreIdle
<1>4. ~done_sticky'
  OBVIOUS
<1> QED
  BY <1>1, <1>3, <1>4 DEF RunOfLastStart
-----------------------------------------------------------------------------
(* ---- The software's side of it, one lemma for each of its states ---- *)

LEMMA StepAtRest ==
  ASSUME IInv, AtRest, NEW c, NEW awv, NEW wv, NEW bready, NEW rready,
         Step(c, awv, wv, bready, rready), ~Regs!write_fire
  PROVE  AtRest' /\ reg_ctrl' = reg_ctrl
<1>1. o_start_pulse' = FALSE /\ reg_ctrl' = reg_ctrl
  BY RegistersKept DEF Step
<1> QED
  BY <1>1, RestStep DEF Step

LEMMA StepOfRun ==
  ASSUME IInv, RunOfLastStart, NEW c, NEW awv, NEW wv, NEW bready, NEW rready,
         Step(c, awv, wv, bready, rready), ~Regs!write_fire
  PROVE  RunOfLastStart' /\ (done_sticky => AtRest')
<1>1. o_start_pulse' = FALSE /\ reg_ctrl' = {} /\ done_sticky' = (done \/ done_sticky)
  BY RegistersKept DEF RunOfLastStart, Step
<1> QED
  BY <1>1, RunStep DEF Step, IInv

LEMMA FromReady ==
  ASSUME IInv, RunInv, sw = "ready", NEW c, NEW awv, NEW wv, NEW bready, NEW rready,
         Step(c, awv, wv, bready, rready)
  PROVE  RunInv'
<1>1. NoWrite /\ AtRest /\ reg_ctrl = {}
  BY DEF IInv, AccessInv, RunInv
<1>2. ~Regs!write_fire
  BY <1>1, NoWriteStep DEF Step
<1>3. AtRest' /\ reg_ctrl' = {}
  BY <1>1, <1>2, StepAtRest
<1>4. Quiet(c, "ready") \/ Sends(c, StartWrite, "starting")
  BY Choosing DEF Step
<1>5. CASE Quiet(c, "ready")
  BY <1>3, <1>5 DEF Quiet, Step, RunInv
<1>6. CASE Sends(c, StartWrite, "starting")
  <2>1. UnderWay(StartWrite)'
    BY <1>1, <1>6, NoWriteStep DEF Sends, Step
  <2> QED
    BY <1>3, <1>6, <2>1 DEF Sends, Step, RunInv
<1> QED
  BY <1>4, <1>5, <1>6
LEMMA FromStarting ==
  ASSUME IInv, RunInv, sw = "starting", NEW c, NEW awv, NEW wv, NEW bready, NEW rready,
         Step(c, awv, wv, bready, rready)
  PROVE  RunInv'
<1>1. \/ Quiet(c, "starting")
      \/ Quiet(c, "polling") /\ unanswered = 0
  BY Choosing DEF Step
<1>2. c.write = <<>> /\ sw' = c.sw
  BY <1>1 DEF Quiet, Step
<1>3. CASE UnderWay(StartWrite) /\ AtRest
  <2>1. Quiet(c, "starting")
    BY <1>1, <1>3 DEF UnderWay
  <2>2. CASE ~Regs!write_fire /\ UnderWay(StartWrite)'
    <3>1. AtRest'
      BY <1>3, <2>2, StepAtRest
    <3> QED
      BY <1>2, <2>1, <2>2, <3>1 DEF Quiet, RunInv
  <2>3. CASE /\ Regs!write_fire /\ awaddr_latched = StartWrite.reg
             /\ wdata_latched = StartWrite.data /\ InEffect'
    <3>1. o_start_pulse' = TRUE /\ reg_ctrl' = {} /\ done_sticky' = done
      BY <2>3, RegistersWritten DEF Step, IInv, TypeOK
    <3>2. ms' = "S_IDLE" /\ done' = FALSE
      BY <1>3 DEF Step, AtRest, CoreTick, CoreReset, CoreIdle, CoreRuns, CoreDone
    <3> QED
      BY <1>2, <1>3, <2>1, <2>3, <3>1, <3>2 DEF Quiet, RunInv, AtRest
  <2> QED
    BY <1>2, <1>3, <2>2, <2>3, UnderWayStep DEF Step
<1>4. CASE /\ InEffect /\ o_start_pulse /\ reg_ctrl = {}
           /\ ms = "S_IDLE" /\ ~done /\ ~done_sticky
  <2>1. Quiet(c, "starting")
    BY <1>1, <1>4 DEF InEffect
  <2>2. ~Regs!write_fire /\ (InEffect' \/ NoWrite')
    BY <1>2, <1>4, InEffectStep DEF Step
  <2>3. RunOfLastStart'
    BY <1>4, <2>2, RegistersKept, StartStep DEF Step, IInv
  <2> QED
    BY <1>2, <2>1, <2>2, <2>3 DEF Quiet, RunInv
<1>5. CASE InEffect /\ RunOfLastStart
  <2>1. Quiet(c, "starting")
    BY <1>1, <1>5 DEF InEffect
  <2>2. ~Regs!write_fire /\ (InEffect' \/ NoWrite')
    BY <1>2, <1>5, InEffectStep DEF Step
  <2>3. RunOfLastStart'
    BY <1>5, <2>2, StepOfRun
  <2> QED
    BY <1>2, <2>1, <2>2, <2>3 DEF Quiet, RunInv
<1>6. CASE NoWrite /\ RunOfLastStart
  <2>1. ~Regs!write_fire /\ NoWrite'
    BY <1>2, <1>6, NoWriteStep DEF Step
  <2>2. RunOfLastStart'
    BY <1>6, <2>1, StepOfRun
  <2> QED
    BY <1>1, <1>2, <2>1, <2>2 DEF Quiet, RunInv
<1> QED
  BY <1>3, <1>4, <1>5, <1>6 DEF RunInv

LEMMA FromPolling ==
  ASSUME IInv, RunInv, sw = "polling", ~Retries, NEW c, NEW awv, NEW wv, NEW bready, NEW rready,
         Step(c, awv, wv, bready, rready)
  PROVE  RunInv'
<1>1. NoWrite /\ RunOfLastStart
  BY DEF IInv, AccessInv, RunInv
<1>2. ~Regs!write_fire
  BY <1>1, NoWriteStep DEF Step
<1>3. RunOfLastStart' /\ (done_sticky => AtRest')
  BY <1>1, <1>2, StepOfRun
<1>4. CASE araddr # Regs!NoRead
  <2>1. \/ Quiet(c, "polling")
        \/ Quiet(c, "finished") /\ Regs!DONE \in Regs!s_axil_rdata(busy)
    BY <1>4, Choosing DEF Step
  <2>2. Regs!DONE \in Regs!s_axil_rdata(busy) => done_sticky
    <3>1. araddr = "REG_STATUS"
      BY <1>4 DEF IInv, AccessInv
    <3> QED
      BY <3>1 DEF Regs!s_axil_rdata, Regs!DONE, Regs!BUSY
  <2>3. CASE Quiet(c, "polling")
    BY <1>3, <2>3 DEF Quiet, Step, RunInv
  <2>4. CASE Quiet(c, "finished") /\ done_sticky
    BY <1>3, <2>4 DEF Quiet, Step, RunInv, RunOfLastStart
  <2> QED
    BY <2>1, <2>2, <2>3, <2>4
<1>5. CASE araddr = Regs!NoRead
  <2>1. Polls(c) \/ Sends(c, AbortWrite, "aborting")
    BY <1>5, Choosing DEF Step
  <2>2. CASE Polls(c)
    BY <1>3, <2>2 DEF Polls, Step, RunInv
  <2>3. CASE Sends(c, AbortWrite, "aborting")
    <3>1. UnderWay(AbortWrite)'
      BY <1>1, <2>3, NoWriteStep DEF Sends, Step
    <3> QED
      BY <1>3, <2>3, <3>1 DEF Sends, Step, RunInv, RunOfLastStart
  <2> QED
    BY <2>1, <2>2, <2>3
<1> QED
  BY <1>4, <1>5

LEMMA FromFinished ==
  ASSUME IInv, RunInv, sw = "finished", NEW c, NEW awv, NEW wv, NEW bready, NEW rready,
         Step(c, awv, wv, bready, rready)
  PROVE  RunInv'
<1>1. NoWrite /\ AtRest /\ reg_ctrl = {} /\ o_busy_cycles = cycle_counter
  BY DEF IInv, AccessInv, RunInv
<1>2. ~Regs!write_fire
  BY <1>1, NoWriteStep DEF Step
<1>3. AtRest' /\ reg_ctrl' = {}
  BY <1>1, <1>2, StepAtRest
<1>4. o_busy_cycles' = cycle_counter'
  BY <1>1, CountStep DEF AtRest, Step, IInv
<1>5. \/ Quiet(c, "finished") \/ Quiet(c, "ready") \/ Sends(c, StatusWrite, "clearing")
  BY Choosing DEF Step
<1>6. CASE Quiet(c, "finished") \/ Quiet(c, "ready")
  BY <1>3, <1>4, <1>6 DEF Quiet, Step, RunInv
<1>7. CASE Sends(c, StatusWrite, "clearing")
  <2>1. UnderWay(StatusWrite)'
    BY <1>1, <1>7, NoWriteStep DEF Sends, Step
  <2> QED
    BY <1>3, <1>7, <2>1 DEF Sends, Step, RunInv
<1> QED
  BY <1>5, <1>6, <1>7

LEMMA FromAborting ==
  ASSUME IInv, RunInv, sw = "aborting", NEW c, NEW awv, NEW wv, NEW bready, NEW rready,
         Step(c, awv, wv, bready, rready)
  PROVE  RunInv'
<1>1. \/ Quiet(c, "aborting") /\ unanswered # 0
      \/ unanswered = 0 /\ Sends(c, ClearWrite, "clearing")
      \/ unanswered = 0 /\ Sends(c, StartWrite, "starting")
  BY Choosing DEF Step
<1>2. CASE UnderWay(AbortWrite) /\ reg_ctrl = {}
  <2>1. c.write = <<>> /\ sw' = "aborting"
    BY <1>1, <1>2 DEF UnderWay, Quiet, Step
  <2>2. CASE ~Regs!write_fire /\ UnderWay(AbortWrite)'
    BY <1>2, <2>1, <2>2, RegistersKept DEF Step, RunInv
  <2>3. CASE /\ Regs!write_fire /\ awaddr_latched = AbortWrite.reg
             /\ wdata_latched = AbortWrite.data /\ InEffect'
    <3>1. o_start_pulse' = FALSE /\ reg_ctrl' = {Regs!SOFT_RESET}
      BY <2>3, RegistersWritten DEF Step, IInv, TypeOK
    <3> QED
      BY <2>1, <2>3, <3>1 DEF RunInv
  <2> QED
    BY <1>2, <2>1, <2>2, <2>3, UnderWayStep DEF Step
<1>3. CASE InEffect /\ reg_ctrl = {Regs!SOFT_RESET}
  <2>1. c.write = <<>> /\ sw' = "aborting"
    BY <1>1, <1>3 DEF InEffect, Quiet, Step
  <2>2. ~Regs!write_fire /\ (InEffect' \/ NoWrite')
    BY <1>3, <2>1, InEffectStep DEF Step
  <2>3. o_start_pulse' = FALSE /\ reg_ctrl' = reg_ctrl
    BY <2>2, RegistersKept DEF Step
  <2>4. ms' = "S_IDLE" /\ done' = FALSE
    BY <1>3 DEF Step, CoreTick, CoreReset, Regs!o_soft_reset
  <2> QED
    BY <1>3, <2>1, <2>2, <2>3, <2>4 DEF RunInv, AtRest
<1>4. CASE NoWrite /\ reg_ctrl = {Regs!SOFT_RESET} /\ AtRest
  <2>1. ~Regs!write_fire
    BY <1>4, NoWriteStep DEF Step
  <2>2. AtRest'
    BY <1>4, <2>1, StepAtRest
  <2>3. CASE Sends(c, ClearWrite, "clearing")
    <3>1. UnderWay(ClearWrite)' /\ sw' = "clearing"
      BY <1>4, <2>3, NoWriteStep DEF Sends, Step
    <3> QED
      BY <2>2, <3>1 DEF RunInv
  <2>4. CASE Sends(c, StartWrite, "starting")
    <3>1. UnderWay(StartWrite)' /\ sw' = "starting"
      BY <1>4, <2>4, NoWriteStep DEF Sends, Step
    <3> QED
      BY <2>2, <3>1 DEF RunInv
  <2> QED
    BY <1>1, <1>4, <2>3, <2>4 DEF NoWrite
<1> QED
  BY <1>2, <1>3, <1>4 DEF RunInv

LEMMA FromClearing ==
  ASSUME IInv, RunInv, sw = "clearing", NEW c, NEW awv, NEW wv, NEW bready, NEW rready,
         Step(c, awv, wv, bready, rready)
  PROVE  RunInv'
<1>1. \/ Quiet(c, "clearing")
      \/ Quiet(c, "ready") /\ unanswered = 0
  BY Choosing DEF Step
<1>2. c.write = <<>> /\ sw' = c.sw
  BY <1>1 DEF Quiet, Step
<1>3. AtRest
  BY DEF RunInv
<1>4. ASSUME NEW w \in {ClearWrite, StatusWrite}, UnderWay(w),
             w = StatusWrite => reg_ctrl = {}
      PROVE  RunInv'
  <2>1. sw' = "clearing"
    BY <1>1, <1>4 DEF UnderWay, Quiet, Step
  <2>2. CASE ~Regs!write_fire /\ UnderWay(w)'
    BY <1>3, <1>4, <2>1, <2>2, StepAtRest DEF RunInv
  <2>3. CASE /\ Regs!write_fire /\ awaddr_latched = w.reg /\ wdata_latched = w.data
             /\ InEffect'
    <3>1. o_start_pulse' = FALSE /\ reg_ctrl' = {}
      BY <1>4, <2>3, RegistersWritten DEF Step, IInv, TypeOK
    <3>2. AtRest'
      BY <1>3, <3>1, RestStep DEF Step
    <3> QED
      BY <2>1, <2>3, <3>1, <3>2 DEF RunInv
  <2> QED
    BY <1>2, <1>4, <2>2, <2>3, UnderWayStep DEF Step
<1>5. CASE (InEffect \/ NoWrite) /\ reg_ctrl = {}
  <2>1. ~Regs!write_fire /\ (InEffect' \/ NoWrite') /\ (NoWrite => NoWrite')
    BY <1>2, <1>5, InEffectStep, NoWriteStep DEF Step
  <2>2. AtRest' /\ reg_ctrl' = {}
    BY <1>3, <1>5, <2>1, StepAtRest
  <2> QED
    BY <1>1, <1>2, <2>1, <2>2 DEF Quiet, RunInv
<1>6. ClearWrite # StatusWrite
  BY DEF ClearWrite, StatusWrite
<1>7. \/ UnderWay(ClearWrite)
      \/ UnderWay(StatusWrite) /\ reg_ctrl = {}
      \/ (InEffect \/ NoWrite) /\ reg_ctrl = {}
  BY DEF RunInv
<1> QED
  BY <1>4, <1>5, <1>6, <1>7

LEMMA NextRunInv ==
  ASSUME ~Retries, IInv, RunInv, [Clock]_vars
  PROVE  RunInv'
<1>1. CASE UNCHANGED vars
  BY <1>1 DEF vars, channelVars, regVars, masterVars, coreVars, RunInv, AtRest, RunOfLastStart,
              NoWrite, InEffect, UnderWay
<1>2. CASE Clock
  <2>1. PICK c, awv, wv, bready, rready : Step(c, awv, wv, bready, rready)
    BY <1>2, ClockIsEdge DEF IInv
  <2>3. sw \in SoftwareStates
    BY DEF IInv, TypeOK
  <2> QED
    BY <2>1, <2>3, FromReady, FromStarting, FromPolling, FromFinished, FromAborting,
       FromClearing DEF SoftwareStates
<1> QED
  BY <1>1, <1>2
-----------------------------------------------------------------------------
(* busy is up exactly while a run is under way, soft resets included; no    *)
(* register or counter leaves its range, whatever the software retries.     *)
THEOREM TypeInvariance == Spec => []TypeOK
<1>1. IInv => TypeOK
  BY DEF IInv
<1> QED
  BY <1>1, InitIInv, NextIInv, PTL DEF Spec

(* Software that never starts a run that is under way: DONE read as 1 since *)
(* the last START means that run is over, whatever runs were given up.      *)
THEOREM DoneIsOfLastStart ==
  ASSUME ~Retries
  PROVE  Spec => []DoneMeansFinished
<1>1. IInv /\ RunInv => DoneMeansFinished
  BY DEF RunInv, AtRest, DoneMeansFinished
<1>2. IInv /\ RunInv /\ [Clock]_vars => IInv' /\ RunInv'
  BY NextIInv, NextRunInv
<1> QED
  BY <1>1, <1>2, InitIInv, PTL DEF Spec

(* And the counters it then reads are those of that run: nothing of a run   *)
(* that was given up is left in them, and they have not wrapped.            *)
THEOREM CountersAreOfLastRun ==
  ASSUME ~Retries
  PROVE  Spec => []CountersOfLastRun
<1>1. IInv /\ RunInv => CountersOfLastRun
  BY DEF RunInv, CountersOfLastRun
<1>2. IInv /\ RunInv /\ [Clock]_vars => IInv' /\ RunInv'
  BY NextIInv, NextRunInv
<1> QED
  BY <1>1, <1>2, InitIInv, PTL DEF Spec
=============================================================================
