--------------------------- MODULE DmaReaderProofs ---------------------------
(***************************************************************************)
(* For every burst limit, command length and address: the counters of the  *)
(* read engine stay in step with the AXI slave (TypeOK /\ Accounting is    *)
(* inductive), and the engine implements ReadStream.                       *)
(***************************************************************************)
EXTENDS DmaReader, TLAPS

(* The clipped burst length: never zero, never over either limit. *)
LEMMA ClipBounds ==
  ASSUME NEW n \in Nat \ {0}
  PROVE  /\ clip_burst_beats(n) \in 1 .. MaxBurst
         /\ clip_burst_beats(n) \in 1 .. n
  BY DmaReaderAssumption DEF clip_burst_beats

IInv == TypeOK /\ Accounting

LEMMA InitIInv == Init => IInv
<1> SUFFICES ASSUME Init PROVE IInv
  OBVIOUS
<1>1. req = [addr |-> 0, n |-> 0] /\ sent = 0 /\ beat = [addr |-> 0, last |-> FALSE]
  BY DEF Init, Stream!Init, Stream!NoBeat
<1>2. TypeOK
  <2>1. req \in [addr : Nat, n : 0 .. MaxLen + 1] /\ beat \in [addr : Nat, last : BOOLEAN]
    BY <1>1, DmaReaderAssumption
  <2>2. error \in BOOLEAN
    BY DEF Init
  <2> QED
    BY <1>1, <2>1, <2>2, DmaReaderAssumption DEF Init, TypeOK, ArStates
<1>3. Accounting
  BY <1>1 DEF Init, Accounting
<1> QED BY <1>2, <1>3 DEF IInv

LEMMA NextIInv == IInv /\ [Next]_vars => IInv'
<1> SUFFICES ASSUME IInv, [Next]_vars PROVE IInv'
  OBVIOUS
<1> USE DmaReaderAssumption DEF IInv, TypeOK, Accounting, ArStates
<1>1. ASSUME NEW a \in Addrs, NEW l \in 0 .. MaxLen, AcceptCommand(a, l)
      PROVE  IInv'
  <2>1. clip_burst_beats(l + 1) \in 1 .. MaxBurst /\ clip_burst_beats(l + 1) <= l + 1
    BY ClipBounds
  <2>2. TypeOK'
    BY <1>1, <2>1 DEF AcceptCommand, StartBurst, slaveVars
  <2>3. Accounting'
    BY <1>1, <2>1 DEF AcceptCommand, StartBurst, slaveVars
  <2> QED BY <2>2, <2>3
<1>2. CASE SendAddress
  BY <1>2 DEF SendAddress
<1>3. ASSUME NEW resp \in Responses, StreamBeat(resp)
      PROVE  IInv'
  <2> USE <1>3 DEF StreamBeat, PassWord
  <2>1. rd_bytes' \in 0 .. ByteWrap - 1
    OBVIOUS
  <2>2. CASE LastBeat
    BY <2>1, <2>2 DEF LastBeat
  <2>3. CASE LastBeatOfBurst
    <3> DEFINE rest == total_beats_left_r - 1
    <3>1. rest \in Nat \ {0}
      BY <2>3 DEF LastBeatOfBurst
    <3>2. clip_burst_beats(rest) \in 1 .. MaxBurst /\ clip_burst_beats(rest) <= rest
      BY <3>1, ClipBounds
    <3> HIDE DEF rest
    <3>3. /\ burst_beats_r' = clip_burst_beats(rest)
          /\ ar_len_r' = clip_burst_beats(rest) - 1
          /\ total_beats_left_r' = rest
      BY <2>3 DEF LastBeatOfBurst, StartBurst, rest
    <3> QED
      BY <2>1, <2>3, <3>1, <3>2, <3>3 DEF LastBeatOfBurst, StartBurst
  <2>4. CASE MiddleBeat
    BY <2>1, <2>4 DEF MiddleBeat
  <2> QED BY <2>2, <2>3, <2>4
<1>4. CASE UNCHANGED vars
  BY <1>4 DEF vars, arVars, slaveVars
<1> QED BY <1>1, <1>2, <1>3, <1>4 DEF Next

(* The counters of fa_dma_reader, the position of the AXI slave and the     *)
(* words the core has received add up in every reachable state.             *)
THEOREM Invariance == Spec => [](TypeOK /\ Accounting)
<1>1. Spec => []IInv
  BY InitIInv, NextIInv, PTL DEF Spec
<1> QED BY <1>1, PTL DEF IInv

LEMMA StepRefines == IInv /\ [Next]_vars => [Stream!Next]_(Stream!streamVars)
<1> SUFFICES ASSUME IInv, [Next]_vars
             PROVE  [Stream!Next]_(Stream!streamVars)
  OBVIOUS
<1> USE DmaReaderAssumption DEF IInv, TypeOK, Accounting, ArStates
<1>1. ASSUME NEW a \in Addrs, NEW l \in 0 .. MaxLen, AcceptCommand(a, l)
      PROVE  Stream!Accept(a, l)
  BY <1>1 DEF AcceptCommand, Stream!Accept
<1>2. CASE SendAddress
  BY <1>2 DEF SendAddress, Stream!streamVars
<1>3. ASSUME NEW resp \in Responses, StreamBeat(resp)
      PROVE  Stream!Deliver
  <2>1. sent < req.n /\ (total_beats_left_r = 1 <=> sent + 1 = req.n)
    BY <1>3 DEF StreamBeat
  <2> QED BY <1>3, <2>1 DEF StreamBeat, PassWord, Stream!Deliver
<1>4. CASE UNCHANGED vars
  BY <1>4 DEF vars, Stream!streamVars
<1> QED BY <1>1, <1>2, <1>3, <1>4 DEF Next, Stream!Next

(* The read engine implements ReadStream: words in order, each once, the    *)
(* final one flagged, for every way of cutting a command into bursts.       *)
THEOREM Refinement == Spec => ImplementsReadStream
<1>1. Init => Stream!Init
  BY DEF Init
<1> QED
  BY <1>1, InitIInv, NextIInv, StepRefines, PTL
     DEF Spec, ImplementsReadStream, Stream!Spec
=============================================================================
