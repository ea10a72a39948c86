---------------------------- MODULE Transformer ----------------------------
(***************************************************************************)
(* forward() of run_fa.c: one token through all layers, and the KV cache   *)
(* that carries the earlier tokens to it.                                  *)
(*                                                                         *)
(* An activation vector is the sequence of the tokens it was computed      *)
(* from: an embedding is its own token, attention adds what the cache rows *)
(* hold.  A row of the cache (kv_dim floats) is the activation its K and V *)
(* were projected from; both caches are indexed alike and are one here.    *)
(* The matrix products, rmsnorm, RoPE, bias and FFN of a layer keep the    *)
(* tokens a vector depends on and are not visible.                         *)
(***************************************************************************)
EXTENDS Integers, Sequences

CONSTANTS N_LAYERS, SEQ_LEN, Tokens,
          Zero,    (* a row as calloc leaves it                            *)
          Torn     (* computed from rows that are not one history          *)

ASSUME TransformerAssumption ==
  /\ N_LAYERS \in Nat \ {0}
  /\ SEQ_LEN \in Nat \ {0}
  /\ <<Zero>> \notin Seq(Tokens)

VARIABLES
  layer,      (* the layer to do next; -1 between two calls                *)
  at,         (* its argument pos                                          *)
  x,          (* activation                                                *)
  kv_cache,   (* row number -> activation                                  *)
  logits,     (* what the classifier was computed from                     *)
  fed         (* history: the tokens of all calls                          *)

modelVars == <<layer, at, x, kv_cache, logits, fed>>

Rows == 0 .. N_LAYERS * SEQ_LEN - 1

(* malloc_run_state *)
Init ==
  /\ layer = -1
  /\ at = 0
  /\ x = << >>
  /\ kv_cache = [r \in Rows |-> <<Zero>>]
  /\ logits = << >>
  /\ fed = << >>

(* mutant: the offset of a layer is one row short. *)
LoffShort(l) == IF l = 0 THEN 0 ELSE l * SEQ_LEN - 1

(* loff: where the rows of a layer start. *)
loff(l) == l * SEQ_LEN

Newest(row) == row[Len(row)]

(* The history a row of layer l must hold to fit the tokens h. *)
RowOf(l, h) == IF l = 0 THEN <<Newest(h)>> ELSE h

(* Attention over the rows 0 .. p of layer l: flash_attention_forward reads *)
(* all of them, whatever they hold.                                         *)
Attend(cache, l, p) ==
  LET row(t) == IF loff(l) + t \in Rows THEN cache[loff(l) + t] ELSE <<Torn>>
      h == [t \in 1 .. p + 1 |-> Newest(row(t - 1))]
  IN IF \A t \in 1 .. p + 1 : row(t - 1) = RowOf(l, SubSeq(h, 1, t))
     THEN h ELSE <<Torn>>

(* The call: the row of the embedding table. *)
Embed(token, p) ==
  /\ layer = -1
  /\ layer' = 0
  /\ at' = p
  /\ x' = <<token>>
  /\ fed' = Append(fed, token)
  /\ UNCHANGED <<kv_cache, logits>>

(* One pass of the layer loop.  A row past the end of the cache is memory   *)
(* of something else: the write changes no row.                             *)
Layer ==
  /\ layer \in 0 .. N_LAYERS - 1
  /\ kv_cache' = IF loff(layer) + at \in Rows
                 THEN [kv_cache EXCEPT ![loff(layer) + at] = x]
                 ELSE kv_cache
  /\ x' = Attend(kv_cache', layer, at)
  /\ layer' = layer + 1
  /\ UNCHANGED <<at, logits, fed>>

(* final rmsnorm and classifier; the call returns. *)
Classify ==
  /\ layer = N_LAYERS
  /\ logits' = x
  /\ layer' = -1
  /\ UNCHANGED <<at, x, kv_cache, fed>>

(* What forward() relies on and none of it checks: it is called for the     *)
(* positions 0, 1, ... in order, and for no more than the cache holds.      *)
CallInOrder ==
  \E token \in Tokens :
    /\ Len(fed) < SEQ_LEN
    /\ Embed(token, Len(fed))

Next == CallInOrder \/ Layer \/ Classify

Spec == Init /\ [][Next]_modelVars
-----------------------------------------------------------------------------
(* Every logits are computed from all tokens fed so far, each once, in      *)
(* order, and from nothing else: no layer reads a row of another layer, a   *)
(* row not written yet, or one left from elsewhere.                         *)
ContextIsHistory == layer = -1 => logits = fed
=============================================================================
