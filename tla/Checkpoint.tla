----------------------------- MODULE Checkpoint -----------------------------
(***************************************************************************)
(* The model file: which tensor the exporter writes where                  *)
(* (inference/native/export/export_qwen2_bin.py) and where the C programs  *)
(* look for it (read_checkpoint and memory_map_weights of run_fa.c).       *)
(*                                                                         *)
(* A header p is a record with the fields of Config; offsets and sizes     *)
(* count floats after the header.  A tensor is named as in                 *)
(* TransformerWeights; "freqs" are the two tables that only skip space.    *)
(***************************************************************************)
EXTENDS Integers, Sequences

Magnitude(n) == IF n < 0 THEN -n ELSE n

HeadSize(p) == p.dim \div p.n_heads
KvDim(p) == (p.dim * p.n_kv_heads) \div p.n_heads

(* negative vocab size is the sign of a classifier of its own. *)
SharedWeights(p) == p.vocab_size > 0

(* What exporter and loader take for granted of a model: the heads share    *)
(* its width evenly, and RoPE turns pairs of elements.                      *)
WellFormed(p) ==
  /\ p \in [dim : Nat, hidden_dim : Nat, n_layers : Nat, n_heads : Nat \ {0},
            n_kv_heads : Nat, vocab_size : Int, seq_len : Nat]
  /\ HeadSize(p) \in Nat /\ p.dim = p.n_heads * HeadSize(p)
  /\ HeadSize(p) % 2 = 0

(* How many floats the first k pieces of a list of <<name, size>> take.     *)
Floats(pieces) ==
  LET sum[k \in 0 .. Len(pieces)] ==
        IF k = 0 THEN 0 ELSE sum[k - 1] + pieces[k][2]
  IN sum

(* Where each tensor of a list starts. *)
Placed(pieces) ==
  LET sum == Floats(pieces)
      index == [name \in {pieces[k][1] : k \in DOMAIN pieces} |->
                  CHOOSE k \in DOMAIN pieces : pieces[k][1] = name]
  IN [name \in DOMAIN index |-> sum[index[name] - 1]]
-----------------------------------------------------------------------------
(* legacy_export: one loop over the layers per tensor, so each piece holds  *)
(* all layers; the sizes are the shapes of the model's parameters.          *)
ExportedPieces(p) ==
  LET L == p.n_layers
      V == Magnitude(p.vocab_size)
  IN << <<"token_embedding_table", V * p.dim>>,
        <<"rms_att_weight", L * p.dim>>,
        <<"wq", L * p.dim * p.dim>>, <<"bq", L * p.dim>>,
        <<"wk", L * KvDim(p) * p.dim>>, <<"bk", L * KvDim(p)>>,
        <<"wv", L * KvDim(p) * p.dim>>, <<"bv", L * KvDim(p)>>,
        <<"wo", L * p.dim * p.dim>>,
        <<"rms_ffn_weight", L * p.dim>>,
        <<"w1", L * p.hidden_dim * p.dim>>,
        <<"w2", L * p.dim * p.hidden_dim>>,
        <<"w3", L * p.hidden_dim * p.dim>>,
        <<"rms_final_weight", p.dim>>,
        <<"freqs", p.seq_len * (HeadSize(p) \div 2)>>,
        <<"freqs_sin", p.seq_len * (HeadSize(p) \div 2)>> >>
     \o (IF SharedWeights(p) THEN << >> ELSE << <<"wcls", V * p.dim>> >>)

(* Mutant of MappedPieces: all biases after all matrices. *)
MappedPiecesBiasLast(p, bias) ==
  LET L == p.n_layers
      h == HeadSize(p)
  IN << <<"token_embedding_table", p.vocab_size * p.dim>>,
        <<"rms_att_weight", L * p.dim>>,
        <<"wq", L * p.dim * (p.n_heads * h)>>,
        <<"wk", L * p.dim * (p.n_kv_heads * h)>>,
        <<"wv", L * p.dim * (p.n_kv_heads * h)>>,
        <<"bq", L * (p.n_heads * h)>>, <<"bk", L * (p.n_kv_heads * h)>>,
        <<"bv", L * (p.n_kv_heads * h)>>,
        <<"wo", L * (p.n_heads * h) * p.dim>>,
        <<"rms_ffn_weight", L * p.dim>>,
        <<"w1", L * p.dim * p.hidden_dim>>,
        <<"w2", L * p.hidden_dim * p.dim>>,
        <<"w3", L * p.dim * p.hidden_dim>>,
        <<"rms_final_weight", p.dim>>,
        <<"freqs", (p.seq_len * h) \div 2>>,
        <<"freqs_sin", (p.seq_len * h) \div 2>> >>

(* memory_map_weights: the pointer is advanced tensor by tensor.  Its p     *)
(* has the sign of vocab_size already removed.                              *)
MappedPieces(p, bias) ==
  LET L == p.n_layers
      h == HeadSize(p)
      Bias(name, n) == IF bias THEN << <<name, n>> >> ELSE << >>
  IN << <<"token_embedding_table", p.vocab_size * p.dim>>,
        <<"rms_att_weight", L * p.dim>>,
        <<"wq", L * p.dim * (p.n_heads * h)>> >>
     \o Bias("bq", L * (p.n_heads * h))
     \o << <<"wk", L * p.dim * (p.n_kv_heads * h)>> >>
     \o Bias("bk", L * (p.n_kv_heads * h))
     \o << <<"wv", L * p.dim * (p.n_kv_heads * h)>> >>
     \o Bias("bv", L * (p.n_kv_heads * h))
     \o << <<"wo", L * (p.n_heads * h) * p.dim>>,
           <<"rms_ffn_weight", L * p.dim>>,
           <<"w1", L * p.dim * p.hidden_dim>>,
           <<"w2", L * p.hidden_dim * p.dim>>,
           <<"w3", L * p.dim * p.hidden_dim>>,
           <<"rms_final_weight", p.dim>>,
           <<"freqs", (p.seq_len * h) \div 2>>,
           <<"freqs_sin", (p.seq_len * h) \div 2>> >>

memory_map_weights(p, shared, bias) ==
  LET pieces == MappedPieces(p, bias)
      w == Placed(pieces)
  IN [name \in DOMAIN w \cup {"wcls"} |->
        IF name # "wcls" THEN w[name]
        ELSE IF shared THEN w["token_embedding_table"] ELSE Floats(pieces)[Len(pieces)]]

(* read_checkpoint: config and weights from the header of the file. *)
read_checkpoint(header) ==
  LET config == [header EXCEPT !.vocab_size = Magnitude(header.vocab_size)]
  IN [config |-> config,
      weights |-> memory_map_weights(config, SharedWeights(header), TRUE)]
=============================================================================
