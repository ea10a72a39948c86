------------------------------ MODULE DmaWriter ------------------------------
(***************************************************************************)
(* rtl/bus/fa_dma_writer.sv: one AXI4 INCR burst per command, its words    *)
(* taken from the core, then the write response.                           *)
(*                                                                         *)
(* A step is one clock edge at which a handshake of this module completes. *)
(* Addresses and wr_bytes are counted in bus words.  in_last is ignored by *)
(* the RTL, and so here.  The AXI slave stores the words of the burst in   *)
(* order and answers, with any response, when it has them all.             *)
(***************************************************************************)
EXTENDS Integers

CONSTANTS
  Addrs,     (* the word addresses a command may start at                  *)
  MaxLen,    (* the largest cmd_len (words minus one) the core issues      *)
  LenMod,    (* 2^AXI_LEN_W: aw_len_r and beat_cnt wrap here               *)
  ByteWrap,  (* wr_bytes wraps here: 2^32 bytes, in words                  *)
  Words      (* the data a word may carry                                  *)

(* MaxLen: the core's 16-bit length is cut to AXI_LEN_W bits at the port.   *)
ASSUME DmaWriterAssumption ==
  /\ Addrs \subseteq Nat
  /\ LenMod \in Nat \ {0}
  /\ MaxLen \in 0 .. LenMod - 1
  /\ ByteWrap \in Nat \ {0}

VARIABLES
  w_state,     (* W_IDLE, W_ADDR, W_DATA, W_RESP                           *)
  aw_addr_r, aw_len_r,
  beat_cnt,
  error,       (* sticky: some response was not OKAY                       *)
  wr_bytes,
  slave_addr,  (* external AXI slave: where the next word goes             *)
  slave_left,  (* words it still expects                                   *)
  wreq, wsent, wresp, stored   (* what the core observes; see WriteStream  *)

awVars    == <<aw_addr_r, aw_len_r>>
slaveVars == <<slave_addr, slave_left>>
coreVars  == <<wreq, wsent, wresp, stored>>
vars      == <<w_state, awVars, beat_cnt, error, wr_bytes, slaveVars, coreVars>>

Stream == INSTANCE WriteStream

WStates == {"W_IDLE", "W_ADDR", "W_DATA", "W_RESP"}
Okay == "OKAY"
Responses == {Okay, "SLVERR"}

Init ==
  /\ w_state = "W_IDLE"
  /\ aw_addr_r = 0 /\ aw_len_r = 0 /\ beat_cnt = 0
  /\ error = FALSE /\ wr_bytes = 0
  /\ slave_addr = 0 /\ slave_left = 0
  /\ Stream!Init
-----------------------------------------------------------------------------
(* Mutant of AcceptCommand: beat_cnt keeps the count of the last command.   *)
AcceptKeepsCount(a, l) ==
  /\ w_state = "W_IDLE"
  /\ w_state' = "W_ADDR"
  /\ aw_addr_r' = a /\ aw_len_r' = l % LenMod
  /\ wreq' = [addr |-> a, n |-> l + 1] /\ wsent' = 0 /\ wresp' = TRUE
  /\ UNCHANGED <<beat_cnt, error, wr_bytes, slaveVars, stored>>

(* cmd_valid && cmd_ready *)
AcceptCommand(a, l) ==
  /\ w_state = "W_IDLE"
  /\ w_state' = "W_ADDR"
  /\ aw_addr_r' = a /\ aw_len_r' = l % LenMod
  /\ beat_cnt' = 0
  /\ wreq' = [addr |-> a, n |-> l + 1] /\ wsent' = 0 /\ wresp' = TRUE
  /\ UNCHANGED <<error, wr_bytes, slaveVars, stored>>

(* Mutant of SendAddress: the handshake does not end W_ADDR. *)
SendAddressStuck ==
  /\ w_state = "W_ADDR"
  /\ slave_addr' = aw_addr_r
  /\ slave_left' = aw_len_r + 1
  /\ UNCHANGED <<w_state, awVars, beat_cnt, error, wr_bytes, coreVars>>

(* m_axi_awvalid && m_axi_awready *)
SendAddress ==
  /\ w_state = "W_ADDR"
  /\ w_state' = "W_DATA"
  /\ slave_addr' = aw_addr_r
  /\ slave_left' = aw_len_r + 1
  /\ UNCHANGED <<awVars, beat_cnt, error, wr_bytes, coreVars>>

m_axi_wlast == beat_cnt = aw_len_r

(* Mutant of WriteBeat: idle again without waiting for the response. *)
WriteBeatNoResponse(d) ==
  /\ w_state = "W_DATA"
  /\ beat_cnt' = (beat_cnt + 1) % LenMod
  /\ w_state' = IF m_axi_wlast THEN "W_IDLE" ELSE w_state
  /\ wr_bytes' = (wr_bytes + 1) % ByteWrap
  /\ slave_addr' = slave_addr + 1 /\ slave_left' = slave_left - 1
  /\ stored' = [addr |-> slave_addr, word |-> d]
  /\ wsent' = wsent + 1
  /\ UNCHANGED <<awVars, error, wreq, wresp>>

(* m_axi_wvalid && m_axi_wready: a word of the core goes to memory. *)
WriteBeat(d) ==
  /\ w_state = "W_DATA"
  /\ beat_cnt' = (beat_cnt + 1) % LenMod
  /\ w_state' = IF m_axi_wlast THEN "W_RESP" ELSE w_state
  /\ wr_bytes' = (wr_bytes + 1) % ByteWrap
  /\ slave_addr' = slave_addr + 1 /\ slave_left' = slave_left - 1
  /\ stored' = [addr |-> slave_addr, word |-> d]
  /\ wsent' = wsent + 1
  /\ UNCHANGED <<awVars, error, wreq, wresp>>

(* m_axi_bvalid && m_axi_bready *)
TakeResponse(resp) ==
  /\ w_state = "W_RESP" /\ slave_left = 0
  /\ w_state' = "W_IDLE"
  /\ wresp' = FALSE
  /\ error' = (error \/ resp # Okay)
  /\ UNCHANGED <<awVars, beat_cnt, wr_bytes, slaveVars, wreq, wsent, stored>>

Next ==
  \/ \E a \in Addrs, l \in 0 .. MaxLen : AcceptCommand(a, l)
  \/ SendAddress
  \/ \E d \in Words : WriteBeat(d)
  \/ \E resp \in Responses : TakeResponse(resp)

(* The slave takes the address and every word and answers; the core offers  *)
(* every word of its command (it stays in S_WRITE_O).                       *)
Fairness ==
  /\ WF_vars(SendAddress)
  /\ WF_vars(\E d \in Words : WriteBeat(d))
  /\ WF_vars(\E resp \in Responses : TakeResponse(resp))

Spec == Init /\ [][Next]_vars /\ Fairness
-----------------------------------------------------------------------------
TypeOK ==
  /\ w_state \in WStates
  /\ aw_addr_r \in Nat
  /\ aw_len_r \in 0 .. LenMod - 1 /\ beat_cnt \in 0 .. LenMod - 1
  /\ error \in BOOLEAN
  /\ wr_bytes \in 0 .. ByteWrap - 1
  /\ slave_addr \in Nat /\ slave_left \in 0 .. LenMod
  /\ wreq \in [addr : Nat, n : 0 .. MaxLen + 1] /\ wsent \in 0 .. MaxLen + 1
  /\ wresp \in BOOLEAN

(* The FSM, the AXI slave and the core agree on the progress of a command:  *)
(* W_RESP is entered with the last word, not before and not after, also     *)
(* when beat_cnt wraps on a burst of the full 2^AXI_LEN_W words.            *)
Accounting ==
  /\ wresp <=> w_state # "W_IDLE"
  /\ w_state = "W_IDLE" => slave_left = 0
  /\ w_state \in {"W_ADDR", "W_DATA"} => wreq = [addr |-> aw_addr_r, n |-> aw_len_r + 1]
  /\ w_state = "W_ADDR" => wsent = 0 /\ beat_cnt = 0 /\ slave_left = 0
  /\ w_state = "W_DATA" =>
       /\ wsent = beat_cnt /\ beat_cnt <= aw_len_r
       /\ slave_left + wsent = wreq.n
       /\ slave_addr = wreq.addr + wsent
  /\ w_state = "W_RESP" => wsent = wreq.n /\ slave_left = 0

(* The engine implements WriteStream: the words of a command reach memory   *)
(* in order at consecutive addresses, and cmd_ready comes back only with    *)
(* the response.                                                            *)
ImplementsWriteStream == Stream!Spec

(* Every accepted command is answered, whatever the response says. *)
CommandCompletes == wresp ~> ~wresp
=============================================================================
