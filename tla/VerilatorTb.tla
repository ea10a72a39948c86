------------------------------ MODULE VerilatorTb ------------------------------
(***************************************************************************)
(* run_sim of dv/verilator_cpp/fa_attention_core_tb.cpp: the program that  *)
(* clocks the attention core and plays both DMA engines for it, with every *)
(* ready held high.                                                        *)
(*                                                                         *)
(* A step is one call of the clock: drive_before_posedge, the edge (the    *)
(* core of AttentionCore), update_after_posedge.  What the program calls   *)
(* accepted it reads after the edge, when the core has moved on.           *)
(*                                                                         *)
(* A word the core writes is its address and the context it was made of;   *)
(* the numbers compared at the end are left out, so the verdict is open.   *)
(***************************************************************************)
EXTENDS AttentionCore, Integers

CONSTANTS Limits,        (* values of max_cycles, after which the loop      *)
                         (* gives up                                        *)
          Enough,        (* cycles a run needs at most                      *)
          ResetCycles    (* clock cycles with rst_n low                     *)

ASSUME TbAssumption ==
  Limits \subseteq Nat /\ Enough \in Nat /\ ResetCycles \in Nat \ {0}

VARIABLES
  rd, wr,                  (* ReadTxn, WriteTxn                             *)
  mem,                     (* the O words of DmaMemory                      *)
  max_cycles,
  phase, cycles, exit

tbVars == <<rd, wr, mem, max_cycles, phase, cycles, exit>>

NoTxn == [addr |-> 0, beats |-> 0, idx |-> 0, active |-> FALSE]
Empty == [place |-> 0, ctx |-> <<>>]
Running == -1

TbInit ==
  /\ Init
  /\ rd = NoTxn /\ wr = NoTxn
  /\ mem = [a \in OWords |-> Empty]
  /\ max_cycles \in Limits
  /\ phase = "reset" /\ cycles = 0 /\ exit = Running
-----------------------------------------------------------------------------
(* ---- drive_before_posedge ---- *)

NewTxn(cmd) == [addr |-> cmd.addr, beats |-> cmd.n, idx |-> 0, active |-> TRUE]

(* A command that comes while a transaction is active is not seen. *)
Accepted(txn, cmd) == IF ~txn.active /\ cmd # NoCmd THEN NewTxn(cmd) ELSE txn

(* Mutant of Driven: the last word is flagged one word early. *)
DrivenLastEarly(txn) == [addr |-> txn.addr + txn.idx, last |-> txn.idx + 2 >= txn.beats]

(* The word on the read bus during the edge. *)
Driven(txn) == [addr |-> txn.addr + txn.idx, last |-> txn.idx + 1 = txn.beats]
-----------------------------------------------------------------------------
(* ---- update_after_posedge ---- *)

(* Mutant of Moved: a transaction ends one word early. *)
MovedShort(txn) == [txn EXCEPT !.idx = @ + 1, !.active = txn.idx + 2 < txn.beats]

(* A word of the transaction is through. *)
Moved(txn) == [txn EXCEPT !.idx = @ + 1, !.active = txn.idx + 1 < txn.beats]

ReadUpdate(txn) == IF txn.active /\ dma_rd_data_ready' THEN Moved(txn) ELSE txn

(* The word the core offers. *)
Offered == [place |-> OAddr(q_tile_idx) + o_write_cnt - 1, ctx |-> o_buf[o_write_cnt]]

WriteUpdate(txn) ==
  IF txn.active /\ dma_wr_data_valid'
  THEN mem' = [mem EXCEPT ![txn.addr + txn.idx] = Offered'] /\ wr' = Moved(txn)
  ELSE wr' = txn /\ UNCHANGED mem
-----------------------------------------------------------------------------
(* An edge of the core: no DMA engine stands between it and the bus.        *)
Posedge(start, rdv) ==
  /\ MasterTick(start, rdv, dma_wr_data_valid)
  /\ CompTick
  /\ RowCtxTick(ms = "S_INIT_CONTEXT")
  /\ UNCHANGED <<req, sent, rd_stall, storeVars, o_mem>>

Cycle(start) ==
  LET txn == Accepted(rd, rd_cmd)
  IN /\ beat' = IF txn.active THEN Driven(txn) ELSE Read!NoBeat
     /\ Posedge(start, txn.active /\ dma_rd_data_ready)
     /\ rd' = ReadUpdate(txn)
     /\ WriteUpdate(Accepted(wr, wr_cmd))

(* rst_n is low: every register of the core stays at its initial value.     *)
Reset ==
  /\ phase = "reset"
  /\ cycles' = IF cycles + 1 < ResetCycles THEN cycles + 1 ELSE 0
  /\ phase' = IF cycles + 1 < ResetCycles THEN "reset" ELSE "start"
  /\ UNCHANGED <<vars, rd, wr, mem, max_cycles, exit>>

StartHigh ==
  /\ phase = "start"
  /\ Cycle(TRUE)
  /\ phase' = "start_low"
  /\ UNCHANGED <<max_cycles, cycles, exit>>

StartLow ==
  /\ phase = "start_low"
  /\ Cycle(FALSE)
  /\ phase' = "main"
  /\ UNCHANGED <<max_cycles, cycles, exit>>

MainLoop ==
  /\ phase = "main"
  /\ cycles < max_cycles
  /\ Cycle(FALSE)
  /\ cycles' = cycles + 1
  /\ phase' = IF done' THEN "compare" ELSE "main"
  /\ UNCHANGED <<max_cycles, exit>>

Timeout ==
  /\ phase = "main"
  /\ cycles >= max_cycles
  /\ phase' = "exit" /\ exit' = 2
  /\ UNCHANGED <<vars, rd, wr, mem, max_cycles, cycles>>

(* O is read back and compared with the references. *)
Compare ==
  /\ phase = "compare"
  /\ phase' = "exit"
  /\ exit' \in {0, 1}
  /\ UNCHANGED <<vars, rd, wr, mem, max_cycles, cycles>>

TbNext == Reset \/ StartHigh \/ StartLow \/ MainLoop \/ Timeout \/ Compare

TbSpec == TbInit /\ [][TbNext]_<<vars, tbVars>> /\ WF_<<vars, tbVars>>(TbNext)
-----------------------------------------------------------------------------
(* ---- Properties ---- *)

(* The program stops, and if it gives the core enough cycles it stops with  *)
(* a verdict: no handshake is missed that the core would wait for.          *)
RunsToVerdict ==
  /\ <>(exit # Running)
  /\ max_cycles >= Enough => <>(exit \in {0, 1})

(* Although a word read counts as taken one edge late, so that a finished   *)
(* transaction stays on the bus, and one written is sampled one edge late,  *)
(* every word of O is in the memory that is compared, once, and made of all *)
(* tiles in order; except the first word.                                   *)
AllButFirstStored ==
  exit \in {0, 1} =>
    \A t \in QTiles, w \in QWords :
      LET word == [place |-> OAddr(t) + w - 1,
                   ctx |-> [k \in 1 .. NUM_K_TILES |-> <<t, k - 1>>]]
          holders == {a \in OWords : mem[a] = word}
      IN IF <<t, w>> = <<0, 1>> THEN holders = {}
         ELSE \E a \in OWords : holders = {a}

(* The memory that is compared holds each word at its own address: "Write   *)
(* beat accepted" is the word that was taken.                               *)
StoredInPlace ==
  exit \in {0, 1} => \A a \in OWords : mem[a].place = a
=============================================================================
