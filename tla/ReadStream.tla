----------------------------- MODULE ReadStream -----------------------------
(***************************************************************************)
(* What the read DMA engine promises the core, with no AXI in it: an       *)
(* accepted command (addr, n) yields the n bus words addr, addr + 1, ...,  *)
(* addr + n - 1, in that order, each exactly once, the last one (and only  *)
(* it) flagged; no command is accepted while words of another are owed.    *)
(*                                                                         *)
(* Addresses are counted in bus words of AXI_DATA_W bits.                  *)
(***************************************************************************)
EXTENDS Naturals

CONSTANTS
  Addrs,   (* the word addresses a command may start at     *)
  MaxLen   (* the largest cmd_len, a count of words minus 1 *)

VARIABLES
  req,     (* the last command accepted: [addr, n]          *)
  sent,    (* words of it handed over so far                *)
  beat     (* the last word handed over: [addr, last]       *)

streamVars == <<req, sent, beat>>

NoBeat == [addr |-> 0, last |-> FALSE]

Init ==
  /\ req = [addr |-> 0, n |-> 0]
  /\ sent = 0
  /\ beat = NoBeat

(* A command starts only when every word of the previous one is out. *)
Accept(a, l) ==
  /\ sent = req.n
  /\ req' = [addr |-> a, n |-> l + 1]
  /\ sent' = 0
  /\ UNCHANGED beat

Deliver ==
  /\ sent < req.n
  /\ beat' = [addr |-> req.addr + sent, last |-> sent + 1 = req.n]
  /\ sent' = sent + 1
  /\ UNCHANGED req

Next ==
  \/ \E a \in Addrs, l \in 0 .. MaxLen : Accept(a, l)
  \/ Deliver

Spec == Init /\ [][Next]_streamVars
=============================================================================
