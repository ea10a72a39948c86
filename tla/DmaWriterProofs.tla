--------------------------- MODULE DmaWriterProofs ---------------------------
(***************************************************************************)
(* For every length field width, command length and address: beat_cnt, the *)
(* AXI slave and the core agree on the progress of a write (TypeOK /\      *)
(* Accounting is inductive), and the engine implements WriteStream.        *)
(***************************************************************************)
EXTENDS DmaWriter, TLAPS

IInv == TypeOK /\ Accounting

LEMMA InitIInv == Init => IInv
<1> SUFFICES ASSUME Init PROVE IInv
  OBVIOUS
<1>1. wreq = [addr |-> 0, n |-> 0] /\ wsent = 0 /\ wresp = FALSE
  BY DEF Init, Stream!Init
<1>2. TypeOK
  <2>1. wreq \in [addr : Nat, n : 0 .. MaxLen + 1]
    BY <1>1, DmaWriterAssumption
  <2>2. error \in BOOLEAN /\ wresp \in BOOLEAN
    BY <1>1 DEF Init
  <2> QED
    BY <1>1, <2>1, <2>2, DmaWriterAssumption DEF Init, TypeOK, WStates
<1>3. Accounting
  BY <1>1 DEF Init, Accounting
<1> QED BY <1>2, <1>3 DEF IInv

LEMMA NextIInv == IInv /\ [Next]_vars => IInv'
<1> SUFFICES ASSUME IInv, [Next]_vars PROVE IInv'
  OBVIOUS
<1> USE DmaWriterAssumption DEF IInv, WStates
<1>1. ASSUME NEW a \in Addrs, NEW l \in 0 .. MaxLen, AcceptCommand(a, l)
      PROVE  IInv'
  <2> USE <1>1 DEF AcceptCommand, slaveVars
  <2>1. a \in Nat /\ l % LenMod = l
    OBVIOUS
  <2>2. wresp' = TRUE /\ error' = error
    OBVIOUS
  <2>3. TypeOK'
    BY <2>1, <2>2 DEF TypeOK
  <2>4. slave_left = 0
    BY DEF Accounting
  <2>5. Accounting'
    BY <2>1, <2>4 DEF TypeOK, Accounting
  <2> QED BY <2>3, <2>5
<1>2. CASE SendAddress
  <2> USE <1>2 DEF SendAddress, awVars, coreVars
  <2>1. TypeOK'
    BY DEF TypeOK
  <2>2. Accounting'
    BY DEF TypeOK, Accounting
  <2> QED BY <2>1, <2>2
<1>3. ASSUME NEW d \in Words, WriteBeat(d)
      PROVE  IInv'
  <2> USE <1>3 DEF WriteBeat, m_axi_wlast, awVars
  <2>1. /\ wsent = beat_cnt /\ beat_cnt <= aw_len_r
        /\ wreq = [addr |-> aw_addr_r, n |-> aw_len_r + 1]
        /\ slave_left + wsent = wreq.n /\ slave_addr = wreq.addr + wsent
    BY DEF Accounting
  <2>2. /\ beat_cnt' \in 0 .. LenMod - 1 /\ wr_bytes' \in 0 .. ByteWrap - 1
        /\ beat_cnt # aw_len_r => beat_cnt' = beat_cnt + 1
    BY <2>1 DEF TypeOK
  <2>3. error' = error /\ wresp' = wresp /\ (wresp <=> w_state # "W_IDLE")
    BY DEF Accounting
  <2>4. TypeOK'
    BY <2>1, <2>2, <2>3 DEF TypeOK
  <2>5. Accounting'
    <3>1. CASE beat_cnt = aw_len_r
      BY <2>1, <2>2, <2>3, <3>1 DEF TypeOK, Accounting
    <3>2. CASE beat_cnt # aw_len_r
      BY <2>1, <2>2, <2>3, <3>2 DEF TypeOK, Accounting
    <3> QED BY <3>1, <3>2
  <2> QED BY <2>4, <2>5
<1>4. ASSUME NEW resp \in Responses, TakeResponse(resp)
      PROVE  IInv'
  <2> USE <1>4 DEF TakeResponse, awVars, slaveVars
  <2>1. error' \in BOOLEAN /\ wresp' = FALSE
    OBVIOUS
  <2>2. TypeOK'
    BY <2>1 DEF TypeOK
  <2>3. Accounting'
    BY <2>1 DEF Accounting
  <2> QED BY <2>2, <2>3
<1>5. CASE UNCHANGED vars
  BY <1>5 DEF vars, awVars, slaveVars, coreVars, TypeOK, Accounting
<1> QED BY <1>1, <1>2, <1>3, <1>4, <1>5 DEF Next

(* The burst length register, beat_cnt, the AXI slave and the core never    *)
(* disagree about how many words of a write are left.                       *)
THEOREM Invariance == Spec => [](TypeOK /\ Accounting)
<1>1. Spec => []IInv
  BY InitIInv, NextIInv, PTL DEF Spec
<1> QED BY <1>1, PTL DEF IInv

LEMMA StepRefines == IInv /\ [Next]_vars => [Stream!Next]_(Stream!writeVars)
<1> SUFFICES ASSUME IInv, [Next]_vars
             PROVE  [Stream!Next]_(Stream!writeVars)
  OBVIOUS
<1> USE DEF IInv
<1>1. ASSUME NEW a \in Addrs, NEW l \in 0 .. MaxLen, AcceptCommand(a, l)
      PROVE  Stream!Accept(a, l)
  BY <1>1 DEF AcceptCommand, Accounting, Stream!Accept
<1>2. CASE SendAddress
  BY <1>2 DEF SendAddress, coreVars, Stream!writeVars
<1>3. ASSUME NEW d \in Words, WriteBeat(d)
      PROVE  Stream!Store(d)
  <2>1. wsent < wreq.n /\ slave_addr = wreq.addr + wsent
    BY <1>3 DEF WriteBeat, TypeOK, Accounting
  <2> QED BY <1>3, <2>1 DEF WriteBeat, Stream!Store
<1>4. ASSUME NEW resp \in Responses, TakeResponse(resp)
      PROVE  Stream!Respond
  BY <1>4 DEF TakeResponse, Accounting, Stream!Respond
<1>5. CASE UNCHANGED vars
  BY <1>5 DEF vars, coreVars, Stream!writeVars
<1> QED BY <1>1, <1>2, <1>3, <1>4, <1>5 DEF Next, Stream!Next

(* The write engine implements WriteStream: a command's words reach memory  *)
(* in order, each once, and the next command waits for the response.        *)
THEOREM Refinement == Spec => ImplementsWriteStream
<1>1. Init => Stream!Init
  BY DEF Init
<1> QED
  BY <1>1, InitIInv, NextIInv, StepRefines, PTL
     DEF Spec, ImplementsWriteStream, Stream!Spec
=============================================================================
