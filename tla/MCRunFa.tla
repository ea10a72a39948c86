------------------------------- MODULE MCRunFa -------------------------------
(***************************************************************************)
(* Constants for TLC.  Bytes: 1 and 2 are letters, 3 the space, 4 the new  *)
(* line, 5 6 and 5 7 the two-byte signs for blank and new line, 8 6 a code *)
(* point the vocabulary does not have, 9 a full stop.                      *)
(***************************************************************************)
EXTENDS RunFa

MCVocab == 0 :> <<9>> @@ 1 :> <<1>> @@ 2 :> <<2>> @@ 3 :> <<5, 6>>
             @@ 4 :> <<1, 2>> @@ 5 :> <<5, 6, 1>> @@ 6 :> <<5, 6, 1, 2>>
             @@ 7 :> <<5, 7>> @@ 8 :> <<2, 2, 2>> @@ 9 :> <<2, 5, 6>>
             @@ 10 :> <<1, 1>> @@ 11 :> <<8>> @@ 12 :> <<6>>
(* the exporter's scores: the id *)
MCScore == [id \in DOMAIN MCVocab |-> id]
MCBlank == <<5, 6>>

MCTokens == 0 .. 17

MCHeader(vocab, heads, kv_heads) ==
  [dim |-> 8, hidden_dim |-> 5, n_layers |-> N_LAYERS, n_heads |-> heads,
   n_kv_heads |-> kv_heads, vocab_size |-> vocab, seq_len |-> SEQ_LEN]
MCHeaders == {MCHeader(18, 2, 1), MCHeader(-18, 4, 4)}

MCSystemText == <<1, 3, 2, 1, 2>>
MCUserTexts ==
  {<<1, 2, 3, 1, 2>>, <<2, 2, 2, 2, 1>>, <<3, 3, 1>>, <<1, 8, 6, 4>>, << >>}
Repeated(t, k) == [i \in 1 .. k |-> t]
MCTokenPrompts == {Repeated(1, 17), Append(Repeated(2, 19), 14)}

MCSamplings == {<<0, 50>>, <<1, 50>>, <<1, 100>>}
MCRequests ==
  {<<r[1], r[2], s[1], s[2]>> : s \in MCSamplings,
     r \in {<<"main", 5>>, <<"main", 19>>, <<"main", 0>>, <<"main", 30>>,
            <<"with_encode_decode", 19>>, <<"with_encode_decode", 22>>,
            <<"without_encode_decode", 1>>, <<"without_encode_decode", 21>>,
            <<"without_encode_decode", 30>>}}
(* The limits of the benchmark script, longer than the cache. *)
MCLongRequests == {<<"with_encode_decode", 24, 1, 100>>}

Sparse(some) == [t \in MCTokens |-> IF t \in DOMAIN some THEN some[t] ELSE 0]
MCDist(context) ==
  LET c == (Len(context) + context[Len(context)]) % 3
  IN Sparse(CASE c = 0 -> 1 :> 30 @@ 2 :> 30 @@ 14 :> 37 @@ 4 :> 3
              [] c = 1 -> 14 :> 60 @@ 1 :> 40
              [] c = 2 -> 2 :> 45 @@ 4 :> 45 @@ 14 :> 10)
=============================================================================
