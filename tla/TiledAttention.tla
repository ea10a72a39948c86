--------------------------- MODULE TiledAttention ---------------------------
(***************************************************************************)
(* What one run of the attention core promises the host: after a start,    *)
(* every word of the output is stored once, in memory order, and holds the *)
(* result of folding every K/V tile once, in order, into its Q tile; done  *)
(* is signalled when the output is complete, and not before.               *)
(*                                                                         *)
(* A result is the sequence of tile pairs <<q, k>> folded into it.         *)
(***************************************************************************)
EXTENDS Naturals, Sequences

CONSTANTS NUM_Q_TILES, NUM_K_TILES, WORDS   (* WORDS: per output tile *)

VARIABLES busy, done, o

tiledVars == <<busy, done, o>>

Places == (0 .. NUM_Q_TILES - 1) \X (1 .. WORDS)
Attended(q) == [k \in 1 .. NUM_K_TILES |-> <<q, k - 1>>]
Before(p, r) == p[1] < r[1] \/ (p[1] = r[1] /\ p[2] < r[2])

Init == busy = FALSE /\ done = FALSE /\ o = [p \in Places |-> <<>>]

Start ==
  /\ ~busy
  /\ busy' = TRUE /\ done' = FALSE
  /\ o' = [p \in Places |-> <<>>]

Store(p) ==
  /\ busy
  /\ o[p] = <<>>
  /\ \A r \in Places : Before(r, p) => o[r] # <<>>
  /\ o' = [o EXCEPT ![p] = Attended(p[1])]
  /\ UNCHANGED <<busy, done>>

Finish ==
  /\ busy
  /\ \A p \in Places : o[p] # <<>>
  /\ busy' = FALSE /\ done' = TRUE
  /\ UNCHANGED o

(* done is a pulse. *)
Lower == done /\ done' = FALSE /\ UNCHANGED <<busy, o>>

Next == Start \/ (\E p \in Places : Store(p)) \/ Finish \/ Lower

Spec == Init /\ [][Next]_tiledVars
=============================================================================
