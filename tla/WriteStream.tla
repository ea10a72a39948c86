----------------------------- MODULE WriteStream -----------------------------
(***************************************************************************)
(* What the write DMA engine promises the core, with no AXI in it: an      *)
(* accepted command (addr, n) takes n bus words and stores them at addr,   *)
(* addr + 1, ..., addr + n - 1 in the order they are handed over; then the *)
(* memory answers once; no command is accepted before that answer.         *)
(*                                                                         *)
(* Addresses are counted in bus words of AXI_DATA_W bits.                  *)
(***************************************************************************)
EXTENDS Naturals

CONSTANTS
  Addrs,   (* the word addresses a command may start at     *)
  MaxLen,  (* the largest cmd_len, a count of words minus 1 *)
  Words    (* the data a word may carry                     *)

VARIABLES
  wreq,    (* the last command accepted: [addr, n]          *)
  wsent,   (* words of it stored so far                     *)
  wresp,   (* the response to it is still outstanding       *)
  stored   (* the last word stored: [addr, word]            *)

writeVars == <<wreq, wsent, wresp, stored>>

NoStore == [addr |-> 0, word |-> <<>>]

Init ==
  /\ wreq = [addr |-> 0, n |-> 0]
  /\ wsent = 0
  /\ wresp = FALSE
  /\ stored = NoStore

Accept(a, l) ==
  /\ ~wresp
  /\ wreq' = [addr |-> a, n |-> l + 1]
  /\ wsent' = 0
  /\ wresp' = TRUE
  /\ UNCHANGED stored

Store(d) ==
  /\ wsent < wreq.n
  /\ stored' = [addr |-> wreq.addr + wsent, word |-> d]
  /\ wsent' = wsent + 1
  /\ UNCHANGED <<wreq, wresp>>

Respond ==
  /\ wresp
  /\ wsent = wreq.n
  /\ wresp' = FALSE
  /\ UNCHANGED <<wreq, wsent, stored>>

Next ==
  \/ \E a \in Addrs, l \in 0 .. MaxLen : Accept(a, l)
  \/ \E d \in Words : Store(d)
  \/ Respond

Spec == Init /\ [][Next]_writeVars
=============================================================================
