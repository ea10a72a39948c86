------------------------------ MODULE DmaReader ------------------------------
(***************************************************************************)
(* rtl/bus/fa_dma_reader.sv: splits a read command into AXI4 INCR bursts   *)
(* of at most MaxBurst words and passes the words through to the core.     *)
(*                                                                         *)
(* A step is one clock edge at which a handshake of this module completes; *)
(* every other clock edge leaves its registers alone and is a stutter.     *)
(* Addresses are counted in bus words (the RTL multiplies by               *)
(* BYTES_PER_BEAT), rd_bytes likewise.  The AXI slave serves the bursts    *)
(* one at a time, in order, after any delay, with any response.            *)
(***************************************************************************)
EXTENDS Naturals

CONSTANTS
  Addrs,      (* the word addresses a command may start at                 *)
  MaxLen,     (* the largest cmd_len (words minus one) the core issues     *)
  MaxBurst,   (* MAX_BURST_BEATS = 2^AXI_LEN_W                             *)
  ByteWrap    (* rd_bytes wraps here: 2^32 bytes, in words                 *)

ASSUME DmaReaderAssumption ==
  /\ Addrs \subseteq Nat
  /\ MaxLen \in Nat
  /\ MaxBurst \in Nat \ {0}
  /\ ByteWrap \in Nat \ {0}

VARIABLES
  ar_state,      (* AR_IDLE, AR_SEND, AR_STREAM                            *)
  ar_addr_r,     (* address of the burst being sent or streamed            *)
  ar_len_r,      (* its AXI length: words minus one                        *)
  total_beats_left_r,
  burst_beats_r,
  error,         (* sticky: some word came with a response that is not OKAY *)
  rd_bytes,
  slave_addr,    (* external AXI slave: next word of the burst it serves   *)
  slave_left,    (* words of that burst it still owes                      *)
  req, sent, beat (* what the core observes; see ReadStream                *)

arVars    == <<ar_state, ar_addr_r, ar_len_r, total_beats_left_r, burst_beats_r>>
slaveVars == <<slave_addr, slave_left>>
vars      == <<arVars, error, rd_bytes, slaveVars, req, sent, beat>>

Stream == INSTANCE ReadStream

ArStates == {"AR_IDLE", "AR_SEND", "AR_STREAM"}
Okay == "OKAY"
Responses == {Okay, "SLVERR"}
-----------------------------------------------------------------------------
clip_burst_beats(n) == IF n > MaxBurst THEN MaxBurst ELSE n

Init ==
  /\ ar_state = "AR_IDLE"
  /\ ar_addr_r = 0
  /\ ar_len_r = 0
  /\ total_beats_left_r = 0
  /\ burst_beats_r = 0
  /\ error = FALSE
  /\ rd_bytes = 0
  /\ slave_addr = 0
  /\ slave_left = 0
  /\ Stream!Init

(* mutant: AXI length written as a word count. *)
StartBurstLenOffByOne(a, n) ==
  /\ ar_addr_r' = a
  /\ burst_beats_r' = clip_burst_beats(n)
  /\ ar_len_r' = clip_burst_beats(n)
  /\ ar_state' = "AR_SEND"

(* The next burst: its first word, and n words of the command still to read. *)
StartBurst(a, n) ==
  /\ ar_addr_r' = a
  /\ burst_beats_r' = clip_burst_beats(n)
  /\ ar_len_r' = clip_burst_beats(n) - 1
  /\ ar_state' = "AR_SEND"

(* cmd_valid && cmd_ready *)
AcceptCommand(a, l) ==
  /\ ar_state = "AR_IDLE"
  /\ total_beats_left_r' = l + 1
  /\ StartBurst(a, l + 1)
  /\ req' = [addr |-> a, n |-> l + 1]
  /\ sent' = 0
  /\ UNCHANGED <<error, rd_bytes, slaveVars, beat>>

(* mutant: the FSM does not leave AR_SEND. *)
SendAddressStuck ==
  /\ ar_state = "AR_SEND"
  /\ slave_addr' = ar_addr_r
  /\ slave_left' = ar_len_r + 1
  /\ UNCHANGED <<arVars, error, rd_bytes, req, sent, beat>>

(* m_axi_arvalid && m_axi_arready: the slave takes the burst over. *)
SendAddress ==
  /\ ar_state = "AR_SEND"
  /\ ar_state' = "AR_STREAM"
  /\ slave_addr' = ar_addr_r
  /\ slave_left' = ar_len_r + 1
  /\ UNCHANGED <<ar_addr_r, ar_len_r, total_beats_left_r, burst_beats_r,
                 error, rd_bytes, req, sent, beat>>

(* m_axi_rvalid && m_axi_rready: one word passes through to the core. The   *)
(* core sees the data the slave reads at slave_addr, and out_last.          *)
PassWord(resp) ==
  /\ slave_left > 0
  /\ slave_left' = slave_left - 1
  /\ slave_addr' = slave_addr + 1
  /\ beat' = [addr |-> slave_addr, last |-> total_beats_left_r = 1]
  /\ sent' = sent + 1
  /\ error' = (error \/ resp # Okay)
  /\ rd_bytes' = (rd_bytes + 1) % ByteWrap
  /\ UNCHANGED req

LastBeat ==
  /\ total_beats_left_r = 1
  /\ burst_beats_r' = 0
  /\ ar_state' = "AR_IDLE"
  /\ UNCHANGED <<ar_addr_r, ar_len_r>>

(* mutant: the next burst starts at the last word of this one. *)
NextBurstOverlaps ==
  /\ total_beats_left_r # 1
  /\ burst_beats_r = 1
  /\ StartBurst(ar_addr_r + ar_len_r, total_beats_left_r - 1)

LastBeatOfBurst ==
  /\ total_beats_left_r # 1
  /\ burst_beats_r = 1
  /\ StartBurst(ar_addr_r + ar_len_r + 1, total_beats_left_r - 1)

MiddleBeat ==
  /\ total_beats_left_r # 1
  /\ burst_beats_r # 1
  /\ burst_beats_r' = burst_beats_r - 1
  /\ UNCHANGED <<ar_state, ar_addr_r, ar_len_r>>

StreamBeat(resp) ==
  /\ ar_state = "AR_STREAM"
  /\ PassWord(resp)
  /\ total_beats_left_r' = total_beats_left_r - 1
  /\ LastBeat \/ LastBeatOfBurst \/ MiddleBeat

Next ==
  \/ \E a \in Addrs, l \in 0 .. MaxLen : AcceptCommand(a, l)
  \/ SendAddress
  \/ \E resp \in Responses : StreamBeat(resp)

(* The slave answers every address and hands over every word it owes, and  *)
(* the core keeps out_ready high while a word it asked for is outstanding. *)
Fairness ==
  /\ WF_vars(SendAddress)
  /\ WF_vars(\E resp \in Responses : StreamBeat(resp))

Spec == Init /\ [][Next]_vars /\ Fairness
-----------------------------------------------------------------------------
TypeOK ==
  /\ ar_state \in ArStates
  /\ ar_addr_r \in Nat
  /\ ar_len_r \in 0 .. MaxBurst - 1
  /\ total_beats_left_r \in 0 .. MaxLen + 1
  /\ burst_beats_r \in 0 .. MaxBurst
  /\ error \in BOOLEAN
  /\ rd_bytes \in 0 .. ByteWrap - 1
  /\ slave_addr \in Nat
  /\ slave_left \in 0 .. MaxBurst
  /\ req \in [addr : Nat, n : 0 .. MaxLen + 1]
  /\ sent \in 0 .. MaxLen + 1
  /\ beat \in [addr : Nat, last : BOOLEAN]

(* The reader's two counters, the AXI slave's position and the words the    *)
(* core has received always add up: the burst being streamed is the next    *)
(* piece of the command, and the slave owes nothing outside AR_STREAM, so   *)
(* no word can arrive in a state in which the FSM would not count it.       *)
Accounting ==
  /\ sent + total_beats_left_r = req.n
  /\ ar_state = "AR_IDLE" => total_beats_left_r = 0 /\ slave_left = 0
  /\ ar_state = "AR_SEND" =>
       /\ slave_left = 0
       /\ burst_beats_r = ar_len_r + 1
       /\ burst_beats_r <= total_beats_left_r
       /\ ar_addr_r = req.addr + sent
  /\ ar_state = "AR_STREAM" =>
       /\ slave_left = burst_beats_r
       /\ burst_beats_r \in 1 .. total_beats_left_r
       /\ burst_beats_r <= ar_len_r + 1
       /\ slave_addr = req.addr + sent
       /\ ar_addr_r + ar_len_r + 1 = slave_addr + burst_beats_r

(* The engine implements ReadStream: the core receives the words of its     *)
(* command in order, each once, with out_last on the final one only,        *)
(* wherever the command is cut into bursts.                                 *)
ImplementsReadStream == Stream!Spec

(* Every accepted command runs to its end, so that cmd_ready comes back.    *)
CommandCompletes == ar_state # "AR_IDLE" ~> ar_state = "AR_IDLE"
=============================================================================
