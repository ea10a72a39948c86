-------------------------- MODULE AxiLiteRegsProofs --------------------------
(***************************************************************************)
(* Proofs about AxiLiteRegs, for every number of writes the master may     *)
(* have under way and every set of words it writes.                        *)
(***************************************************************************)
EXTENDS AxiLiteRegs, SequenceTheorems, TLAPS

(* The half of the issued writes a channel has not handed over: all of      *)
(* them, or all but the one whose half is latched.                          *)
Lags(queue, seen) == queue = IF seen THEN Tail(issued) ELSE issued

(* The latch of a channel belongs to the oldest write that has not taken    *)
(* effect, whichever channel runs ahead.                                    *)
LatchInv ==
  /\ Lags(aw_q, aw_seen) /\ Lags(w_q, w_seen)
  /\ aw_seen => issued # <<>> /\ Head(issued).reg = awaddr_latched
  /\ w_seen => issued # <<>> /\ Head(issued).data = wdata_latched

IInv == TypeOK /\ LatchInv /\ OneResponsePerWrite
-----------------------------------------------------------------------------
USE AxiLiteRegsAssumption

LEMMA InitIInv == Init => IInv
<1> SUFFICES ASSUME Init PROVE IInv
  OBVIOUS
<1>1. TypeOK
  <2>1. <<>> \in Seq(Writes)
    OBVIOUS
  <2>2. aw_q \in Seq(Writes) /\ w_q \in Seq(Writes) /\ issued \in Seq(Writes)
    BY <2>1 DEF Init
  <2>3. /\ awaddr_latched \in Registers /\ araddr \in Registers \cup {NoRead}
        /\ wdata_latched \in DataWords \cup {{}} /\ reg_cfg \in DataWords \cup {{}}
        /\ reg_ctrl \subseteq {SOFT_RESET}
    BY DEF Init, Registers
  <2>4. unanswered \in 0 .. MaxOutstanding
    BY DEF Init
  <2>5. /\ aw_seen \in BOOLEAN /\ w_seen \in BOOLEAN /\ bvalid \in BOOLEAN
        /\ rvalid \in BOOLEAN /\ done_sticky \in BOOLEAN /\ o_start_pulse \in BOOLEAN
    BY DEF Init
  <2> QED
    BY <2>2, <2>3, <2>4, <2>5 DEF TypeOK
<1>2. LatchInv /\ OneResponsePerWrite
  BY DEF Init, LatchInv, Lags, OneResponsePerWrite
<1> QED
  BY <1>1, <1>2 DEF IInv

(* At most one write is issued on an edge: either end of a queue moves      *)
(* without the other noticing.                                              *)
LEMMA QueueStep ==
  ASSUME NEW S, NEW q \in Seq(S), NEW new \in {<<>>} \cup {<<w>> : w \in S}
  PROVE  /\ new \in Seq(S) /\ Len(new) \in {0, 1}
         /\ q \o new \in Seq(S) /\ Len(q \o new) = Len(q) + Len(new)
         /\ q # <<>> => /\ Head(q) \in S /\ Tail(q) \in Seq(S)
                        /\ Len(Tail(q)) = Len(q) - 1
                        /\ q \o new # <<>> /\ Head(q \o new) = Head(q)
                        /\ Tail(q \o new) = Tail(q) \o new
<1>1. new \in Seq(S) /\ Len(new) \in {0, 1}
  <2>1. CASE new = <<>>
    BY <2>1
  <2>2. CASE new \in {<<w>> : w \in S}
    <3>1. PICK w \in S : new = <<w>>
      BY <2>2
    <3> QED
      BY <3>1
  <2> QED
    BY <2>1, <2>2
<1>2. /\ q \o new \in Seq(S) /\ Len(q \o new) = Len(q) + Len(new)
      /\ \A i \in 1 .. Len(q) + Len(new) :
           (q \o new)[i] = IF i <= Len(q) THEN q[i] ELSE new[i - Len(q)]
  BY <1>1, ConcatProperties
<1>3. ASSUME q # <<>>
      PROVE  /\ Head(q) \in S /\ Tail(q) \in Seq(S) /\ Len(Tail(q)) = Len(q) - 1
             /\ q \o new # <<>> /\ Head(q \o new) = Head(q)
             /\ Tail(q \o new) = Tail(q) \o new
  <2>1. /\ Head(q) \in S /\ Tail(q) \in Seq(S) /\ Len(Tail(q)) = Len(q) - 1
        /\ \A i \in 1 .. Len(Tail(q)) : Tail(q)[i] = q[i + 1]
    BY <1>3, HeadTailProperties
  <2>2. Len(q) \in Nat \ {0}
    BY <1>3
  <2>3. q \o new # <<>> /\ Head(q \o new) = Head(q)
    BY <1>1, <1>2, <2>2
  <2>4. /\ Tail(q \o new) \in Seq(S) /\ Len(Tail(q \o new)) = Len(q) + Len(new) - 1
        /\ \A i \in 1 .. Len(q) + Len(new) - 1 : Tail(q \o new)[i] = (q \o new)[i + 1]
    BY <1>1, <1>2, <2>3, HeadTailProperties
  <2>5. /\ Tail(q) \o new \in Seq(S) /\ Len(Tail(q) \o new) = Len(q) + Len(new) - 1
        /\ \A i \in 1 .. Len(q) + Len(new) - 1 :
             (Tail(q) \o new)[i] = IF i <= Len(q) - 1 THEN q[i + 1] ELSE new[i - (Len(q) - 1)]
    BY <1>1, <2>1, <2>2, ConcatProperties
  <2>6. \A i \in 1 .. Len(q) + Len(new) - 1 : Tail(q \o new)[i] = (Tail(q) \o new)[i]
    BY <1>1, <1>2, <2>2, <2>4, <2>5
  <2> QED
    BY <1>1, <2>1, <2>3, <2>4, <2>5, <2>6
<1> QED
  BY <1>1, <1>2, <1>3

(* The write address channel. *)
LEMMA AddressStep ==
  ASSUME IInv, NEW valid \in BOOLEAN, NEW new \in NewWrites,
         AddressTick(valid, new),
         issued' = (IF write_fire THEN Tail(issued) ELSE issued) \o new
  PROVE  /\ aw_seen' \in BOOLEAN /\ awaddr_latched' \in Registers
         /\ aw_q' \in Seq(Writes)
         /\ Lags(aw_q, aw_seen)'
         /\ aw_seen' => issued' # <<>> /\ Head(issued').reg = awaddr_latched'
<1> USE DEF IInv, LatchInv, TypeOK, Lags
<1>0. /\ issued \in Seq(Writes) /\ issued \o new \in Seq(Writes)
      /\ issued # <<>> => /\ Head(issued) \in Writes /\ Tail(issued) \in Seq(Writes)
                           /\ Tail(issued) \o new \in Seq(Writes)
                           /\ issued \o new # <<>>
                           /\ Head(issued \o new) = Head(issued)
                           /\ Tail(issued \o new) = Tail(issued) \o new
  <2>1. issued \in Seq(Writes) /\ new \in {<<>>} \cup {<<w>> : w \in Writes}
    BY DEF NewWrites
  <2>2. issued # <<>> => Tail(issued) \in Seq(Writes)
    BY <2>1, QueueStep
  <2>3. issued # <<>> => Tail(issued) \o new \in Seq(Writes)
    BY <2>1, <2>2, QueueStep
  <2> QED
    BY <2>1, <2>2, <2>3, QueueStep
<1>2. CASE write_fire
  <2>1. /\ aw_seen /\ aw_q = Tail(issued) /\ issued # <<>>
        /\ aw_q' = aw_q \o new /\ aw_seen' = FALSE /\ awaddr_latched' = awaddr_latched
    BY <1>2 DEF write_fire, AddressTick, s_axil_awready
  <2> QED
    BY <1>0, <1>2, <2>1
<1>3. CASE ~write_fire /\ valid /\ aw_q # <<>> /\ ~aw_seen
  <2>1. /\ aw_q = issued /\ aw_q' = Tail(aw_q) \o new /\ aw_seen' = TRUE
        /\ awaddr_latched' = Head(aw_q).reg /\ issued' = issued \o new
    BY <1>3 DEF AddressTick, s_axil_awready
  <2>2. Head(issued).reg \in Registers
    BY <1>0, <1>3, <2>1 DEF Writes
  <2> QED
    BY <1>0, <1>3, <2>1, <2>2
<1>4. CASE ~write_fire /\ ~(valid /\ aw_q # <<>> /\ ~aw_seen)
  <2>1. /\ aw_q' = aw_q \o new /\ aw_seen' = aw_seen
        /\ awaddr_latched' = awaddr_latched /\ issued' = issued \o new
    BY <1>4 DEF AddressTick, s_axil_awready
  <2> QED
    BY <1>0, <1>4, <2>1
<1> QED
  BY <1>2, <1>3, <1>4

(* The write data channel. *)
LEMMA DataStep ==
  ASSUME IInv, NEW valid \in BOOLEAN, NEW new \in NewWrites,
         DataTick(valid, new),
         issued' = (IF write_fire THEN Tail(issued) ELSE issued) \o new
  PROVE  /\ w_seen' \in BOOLEAN /\ wdata_latched' \in DataWords \cup {{}}
         /\ w_q' \in Seq(Writes)
         /\ Lags(w_q, w_seen)'
         /\ w_seen' => issued' # <<>> /\ Head(issued').data = wdata_latched'
<1> USE DEF IInv, LatchInv, TypeOK, Lags
<1>0. /\ issued \in Seq(Writes) /\ issued \o new \in Seq(Writes)
      /\ issued # <<>> => /\ Head(issued) \in Writes /\ Tail(issued) \in Seq(Writes)
                           /\ Tail(issued) \o new \in Seq(Writes)
                           /\ issued \o new # <<>>
                           /\ Head(issued \o new) = Head(issued)
                           /\ Tail(issued \o new) = Tail(issued) \o new
  <2>1. issued \in Seq(Writes) /\ new \in {<<>>} \cup {<<w>> : w \in Writes}
    BY DEF NewWrites
  <2>2. issued # <<>> => Tail(issued) \in Seq(Writes)
    BY <2>1, QueueStep
  <2>3. issued # <<>> => Tail(issued) \o new \in Seq(Writes)
    BY <2>1, <2>2, QueueStep
  <2> QED
    BY <2>1, <2>2, <2>3, QueueStep
<1>2. CASE write_fire
  <2>1. /\ w_seen /\ w_q = Tail(issued) /\ issued # <<>>
        /\ w_q' = w_q \o new /\ w_seen' = FALSE /\ wdata_latched' = wdata_latched
    BY <1>2 DEF write_fire, DataTick, s_axil_wready
  <2> QED
    BY <1>0, <1>2, <2>1
<1>3. CASE ~write_fire /\ valid /\ w_q # <<>> /\ ~w_seen
  <2>1. /\ w_q = issued /\ w_q' = Tail(w_q) \o new /\ w_seen' = TRUE
        /\ wdata_latched' = Head(w_q).data /\ issued' = issued \o new
    BY <1>3 DEF DataTick, s_axil_wready
  <2>2. Head(issued).data \in DataWords
    BY <1>0, <1>3, <2>1 DEF Writes
  <2> QED
    BY <1>0, <1>3, <2>1, <2>2
<1>4. CASE ~write_fire /\ ~(valid /\ w_q # <<>> /\ ~w_seen)
  <2>1. /\ w_q' = w_q \o new /\ w_seen' = w_seen
        /\ wdata_latched' = wdata_latched /\ issued' = issued \o new
    BY <1>4 DEF DataTick, s_axil_wready
  <2> QED
    BY <1>0, <1>4, <2>1
<1> QED
  BY <1>2, <1>3, <1>4


(* Responses and the accounting of writes. *)
LEMMA ResponseStep ==
  ASSUME IInv, NEW bready \in BOOLEAN, NEW new \in NewWrites, bready => bvalid,
         ResponseTick(bready, new), unanswered + Len(new) <= MaxOutstanding
  PROVE  /\ bvalid' \in BOOLEAN /\ issued' \in Seq(Writes)
         /\ unanswered' \in 0 .. MaxOutstanding /\ OneResponsePerWrite'
<1> USE DEF IInv, TypeOK, OneResponsePerWrite
<1>1. issued \in Seq(Writes) /\ new \in {<<>>} \cup {<<w>> : w \in Writes}
  BY DEF NewWrites
<1>2. new \in Seq(Writes) /\ Len(new) \in {0, 1} /\ Len(issued) \in Nat
  BY <1>1, QueueStep
<1>3. /\ unanswered' = unanswered + Len(new) - (IF bvalid /\ bready THEN 1 ELSE 0)
      /\ bvalid' = ((bvalid \/ write_fire) /\ ~(bvalid /\ bready))
      /\ issued' = (IF write_fire THEN Tail(issued) ELSE issued) \o new
  BY DEF ResponseTick
<1>4. CASE write_fire
  <2>1. issued # <<>> /\ ~bvalid
    BY <1>4 DEF write_fire, LatchInv
  <2>2. Tail(issued) \in Seq(Writes) /\ Len(Tail(issued)) = Len(issued) - 1
    BY <1>1, <2>1, QueueStep
  <2>3. issued' \in Seq(Writes) /\ Len(issued') = Len(issued) - 1 + Len(new)
    <3>1. issued' = Tail(issued) \o new
      BY <1>3, <1>4
    <3>2. PICK rest \in Seq(Writes) : rest = Tail(issued)
      BY <2>2
    <3>3. rest \o new \in Seq(Writes) /\ Len(rest \o new) = Len(rest) + Len(new)
      BY <1>2, ConcatProperties
    <3> QED
      BY <2>2, <3>1, <3>2, <3>3
  <2>4. bvalid' = TRUE
    BY <1>3, <1>4, <2>1
  <2>5. unanswered' = unanswered + Len(new)
    BY <1>2, <1>3, <2>1
  <2> QED
    BY <1>2, <2>1, <2>3, <2>4, <2>5
<1>5. CASE ~write_fire
  <2>1. issued' \in Seq(Writes) /\ Len(issued') = Len(issued) + Len(new)
    BY <1>1, <1>3, <1>5, QueueStep
  <2>2. CASE bvalid /\ bready
    <3>1. unanswered' = unanswered + Len(new) - 1
      BY <1>3, <2>2
    <3>2. bvalid' = FALSE
      BY <1>3, <2>2
    <3> QED
      <4>1. unanswered' = Len(issued') + 0 /\ unanswered' \in 0 .. MaxOutstanding
        BY <1>2, <2>1, <2>2, <3>1
      <4> QED
        BY <2>1, <3>2, <4>1
  <2>3. CASE ~bready
    <3>1. unanswered' = unanswered + Len(new)
      BY <1>2, <1>3, <2>3
    <3>2. bvalid' = bvalid
      BY <1>3, <1>5, <2>3
    <3> QED
      <4>1. unanswered' \in 0 .. MaxOutstanding
        BY <1>2, <3>1
      <4>2. unanswered' = Len(issued') + (IF bvalid THEN 1 ELSE 0)
        <5>1. CASE bvalid
          BY <1>2, <2>1, <3>1, <5>1
        <5>2. CASE ~bvalid
          BY <1>2, <2>1, <3>1, <5>2
        <5> QED
          BY <5>1, <5>2
      <4> QED
        BY <2>1, <3>2, <4>1, <4>2
  <2> QED
    BY <2>2, <2>3
<1> QED
  BY <1>4, <1>5

(* The registers, and the read channel. *)
LEMMA RegisterStep ==
  ASSUME TypeOK, NEW i_done \in BOOLEAN, RegisterTick(i_done)
  PROVE  /\ reg_ctrl' \subseteq {SOFT_RESET} /\ reg_cfg' \in DataWords \cup {{}}
         /\ done_sticky' \in BOOLEAN /\ o_start_pulse' \in BOOLEAN
<1>1. wdata_latched \subseteq {START, SOFT_RESET}
  BY DEF TypeOK, START, SOFT_RESET
<1>2. reg_ctrl' \subseteq {SOFT_RESET}
  BY <1>1 DEF TypeOK, RegisterTick
<1>3. reg_cfg' \in DataWords \cup {{}}
  BY DEF TypeOK, RegisterTick
<1>4. done_sticky' \in BOOLEAN /\ o_start_pulse' \in BOOLEAN
  BY DEF RegisterTick, Sets
<1> QED
  BY <1>2, <1>3, <1>4

LEMMA ReadStep ==
  ASSUME TypeOK, NEW rready \in BOOLEAN, NEW next \in Registers \cup {NoRead},
         ReadTick(rready, next)
  PROVE  rvalid' \in BOOLEAN /\ araddr' \in Registers \cup {NoRead}
BY DEF TypeOK, ReadTick

(* One edge, whatever the master issues and the core drives. *)
LEMMA TickIInv ==
  ASSUME IInv, NEW new \in NewWrites, NEW next \in Registers \cup {NoRead},
         NEW awv \in BOOLEAN, NEW wv \in BOOLEAN,
         NEW bready \in BOOLEAN, NEW rready \in BOOLEAN, NEW i_done \in BOOLEAN,
         bready => bvalid, unanswered + Len(new) <= MaxOutstanding,
         Tick(new, next, awv, wv, bready, rready, i_done)
  PROVE  IInv'
<1>1. /\ AddressTick(awv, new) /\ DataTick(wv, new) /\ ResponseTick(bready, new)
      /\ ReadTick(rready, next) /\ RegisterTick(i_done)
      /\ issued' = (IF write_fire THEN Tail(issued) ELSE issued) \o new
  BY DEF Tick, ResponseTick
<1>2. /\ bvalid' \in BOOLEAN /\ issued' \in Seq(Writes)
      /\ unanswered' \in 0 .. MaxOutstanding /\ OneResponsePerWrite'
  BY <1>1, ResponseStep
<1>3. TypeOK'
  BY <1>1, <1>2, AddressStep, DataStep, RegisterStep, ReadStep DEF IInv, TypeOK
<1>4. LatchInv'
  BY <1>1, AddressStep, DataStep DEF LatchInv
<1> QED
  BY <1>2, <1>3, <1>4 DEF IInv

LEMMA NextIInv == IInv /\ [Clock]_vars => IInv'
<1> SUFFICES ASSUME IInv, [Clock]_vars PROVE IInv'
  OBVIOUS
<1>1. CASE UNCHANGED vars
  BY <1>1 DEF vars, channelVars, regVars, masterVars, IInv, TypeOK, LatchInv, Lags,
              OneResponsePerWrite
<1>2. CASE Clock
  <2>1. PICK awv \in BOOLEAN, wv \in BOOLEAN, bready \in BOOLEAN, rready \in BOOLEAN :
          (bready => bvalid) /\ ClockWith(awv, wv, bready, rready)
    BY <1>2 DEF Clock, MayPutOff, IInv, TypeOK
  <2>2. PICK new \in NewWrites, next \in NewReads, i_done \in BOOLEAN :
          /\ unanswered + Len(new) <= MaxOutstanding
          /\ Tick(new, next, awv, wv, bready, rready, i_done)
    BY <2>1 DEF ClockWith
  <2>3. next \in Registers \cup {NoRead}
    BY DEF NewReads
  <2> QED
    BY <2>1, <2>2, <2>3, TickIInv
<1> QED
  BY <1>1, <1>2

(* What holds in every state of a master that keeps to the protocol. *)
LEMMA Invariance == Spec => []IInv
BY InitIInv, NextIInv, PTL DEF Spec

LEMMA InOrder == IInv => WritesInOrder
<1> SUFFICES ASSUME IInv, write_fire
             PROVE  issued # <<>> /\ Head(issued) = [reg |-> awaddr_latched, data |-> wdata_latched]
  BY DEF WritesInOrder
<1>1. issued # <<>> /\ Head(issued).reg = awaddr_latched /\ Head(issued).data = wdata_latched
  BY DEF IInv, LatchInv, write_fire
<1>2. Head(issued) \in Writes
  BY <1>1, HeadTailProperties DEF IInv, TypeOK
<1> QED
  BY <1>1, <1>2 DEF Writes

(* However the two write channels run ahead of one another and however many *)
(* writes are under way, they take effect one by one in the order of issue, *)
(* each address with its own data.                                          *)
THEOREM EffectsInOrder == Spec => []WritesInOrder
BY Invariance, InOrder, PTL

(* Every write is answered once, after it has taken effect: the number of   *)
(* responses the master waits for is the number of writes under way.        *)
THEOREM AnsweredOnce == Spec => []OneResponsePerWrite
<1>1. IInv => OneResponsePerWrite
  BY DEF IInv
<1> QED
  BY <1>1, Invariance, PTL
=============================================================================
