----------------------------- MODULE RunFaProofs -----------------------------
(***************************************************************************)
(* Theorems about the inference programs, for every model file, vocabulary *)
(* and text: the model file (WeightsSafe), the tokenizer (TextSafe), the   *)
(* clock (ThroughputSafe), the sampler (ToppNucleus, NucleusSafe),         *)
(* forward() and its cache (ContextSafe), and the programs that put them   *)
(* together (CallsSafe, GenerationImplemented).                            *)
(*                                                                         *)
(* The definitions the model is built from are recursive functions and     *)
(* folds.  NatSetInduction, which rests on the pigeonhole principle of the *)
(* library, is the induction they need; Iterated and BackwardRecursion     *)
(* show from it that a recursive function satisfies its own equations.     *)
(***************************************************************************)
EXTENDS RunFa, FunctionTheorems, FiniteSetTheorems, SequenceTheorems, TLAPS

(* ---- Induction ---- *)

(* Induction over the natural numbers, for a set T.  If a number N were not *)
(* in T, the map below would be an injection of N + 1 numbers into N.       *)
LEMMA NatSetInduction ==
  ASSUME NEW T, 0 \in T, \A i \in Nat : i \in T => i + 1 \in T
  PROVE  Nat \subseteq T
<1> SUFFICES ASSUME NEW N \in Nat, N \notin T PROVE FALSE
  OBVIOUS
<1> DEFINE F == [i \in 1 .. N + 1 |-> IF i - 1 \in T THEN i ELSE i - 1]
<1>1. ASSUME NEW i \in 1 .. N + 1 PROVE F[i] \in 1 .. N
  <2>1. i - 1 \in 0 .. N
    OBVIOUS
  <2>2. CASE i - 1 \in T
    BY <2>1, <2>2
  <2>3. CASE i - 1 \notin T
    BY <2>1, <2>3
  <2> QED BY <2>2, <2>3
<1>2. ASSUME NEW i \in 1 .. N + 1, NEW j \in 1 .. N + 1, F[i] = F[j]
      PROVE  i = j
  <2>1. /\ i - 1 \in Nat /\ (i - 1 # 0 => i - 2 \in Nat) /\ (i - 2) + 1 = i - 1
        /\ j - 1 \in Nat /\ (j - 1 # 0 => j - 2 \in Nat) /\ (j - 2) + 1 = j - 1
    OBVIOUS
  <2>2. i - 1 \notin T => i - 2 \in Nat /\ i - 2 \notin T
    BY <2>1
  <2>3. j - 1 \notin T => j - 2 \in Nat /\ j - 2 \notin T
    BY <2>1
  <2>4. CASE i - 1 \in T /\ j - 1 \notin T
    <3>1. i = j - 1
      BY <1>2, <2>4
    <3>2. i - 1 = j - 2
      BY <3>1
    <3> QED BY <2>3, <2>4, <3>2
  <2>5. CASE j - 1 \in T /\ i - 1 \notin T
    <3>1. j = i - 1
      BY <1>2, <2>5
    <3>2. j - 1 = i - 2
      BY <3>1
    <3> QED BY <2>2, <2>5, <3>2
  <2>6. CASE (i - 1 \in T) = (j - 1 \in T)
    BY <1>2, <2>6
  <2> QED BY <2>4, <2>5, <2>6
<1>3. F \in [1 .. N + 1 -> 1 .. N]
  BY <1>1
<1> HIDE DEF F
<1>4. F \in Injection(1 .. N + 1, 1 .. N)
  BY <1>2, <1>3, Fun_IsInj
<1>5. ExistsInjection(1 .. N + 1, 1 .. N)
  BY <1>4 DEF ExistsInjection
<1>6. N + 1 <= N
  BY <1>5, Fun_NatInjLeq
<1> QED BY <1>6

(* The same up to a bound. *)
LEMMA UpToInduction ==
  ASSUME NEW N \in Nat, NEW T, 0 \in T,
         \A i \in 0 .. N - 1 : i \in T => i + 1 \in T
  PROVE  \A i \in 0 .. N : i \in T
<1> DEFINE U == T \cup {i \in Nat : i > N}
<1>1. ASSUME NEW i \in Nat, i \in U PROVE i + 1 \in U
  <2>1. CASE i >= N
    BY <2>1
  <2>2. CASE i < N
    <3>1. i \in 0 .. N - 1 /\ i \in T
      BY <1>1, <2>2
    <3> QED BY <3>1
  <2> QED BY <2>1, <2>2
<1>2. 0 \in U
  OBVIOUS
<1>3. Nat \subseteq U
  <2> HIDE DEF U
  <2> QED BY <1>1, <1>2, NatSetInduction
<1> QED BY <1>3

(* A function over 0 .. N defined by its first value and by its steps: step *)
(* i takes a value to h[i] of it.                                           *)
Iterates(g, N, S, a, h) ==
  g \in [0 .. N -> S] /\ g[0] = a /\ \A i \in 1 .. N : g[i] = h[i][g[i - 1]]

(* Primitive recursion: applying h[1], h[2], ... to a has a table of        *)
(* results.                                                                 *)
LEMMA Iterated ==
  ASSUME NEW N \in Nat, NEW S, NEW a \in S, NEW h, h \in [1 .. N -> [S -> S]]
  PROVE  \E g : Iterates(g, N, S, a, h)
<1> DEFINE Good(M, g) == /\ g \in [0 .. M -> S] /\ g[0] = a
                         /\ \A i \in 1 .. M : g[i] = h[i][g[i - 1]]
           T == {M \in 0 .. N : \E g \in [0 .. M -> S] : Good(M, g)}
<1>1. 0 \in T
  <2> DEFINE g == [i \in 0 .. 0 |-> a]
  <2>1. g \in [0 .. 0 -> S] /\ g[0] = a
    OBVIOUS
  <2>2. 1 .. 0 = {}
    OBVIOUS
  <2> HIDE DEF g
  <2>3. Good(0, g)
    BY <2>1, <2>2
  <2> QED BY <2>1, <2>3
<1>2. ASSUME NEW M \in 0 .. N - 1, M \in T PROVE M + 1 \in T
  <2>1. PICK f \in [0 .. M -> S] : Good(M, f)
    BY <1>2
  <2> DEFINE g == [i \in 0 .. M + 1 |-> IF i <= M THEN f[i] ELSE h[i][f[M]]]
  <2>2. M + 1 \in 1 .. N /\ M \in 0 .. M
    OBVIOUS
  <2>3. h[M + 1][f[M]] \in S
    BY <2>2
  <2>4. ASSUME NEW i \in 0 .. M + 1 PROVE (IF i <= M THEN f[i] ELSE h[i][f[M]]) \in S
    <3>1. CASE i <= M
      BY <3>1
    <3>2. CASE ~(i <= M)
      <4>1. i = M + 1
        BY <3>2
      <4> QED BY <2>3, <3>2, <4>1
    <3> QED BY <3>1, <3>2
  <2>5. g \in [0 .. M + 1 -> S]
    BY <2>4
  <2>6. g[0] = a
    BY <2>1
  <2>7. ASSUME NEW i \in 1 .. M + 1 PROVE g[i] = h[i][g[i - 1]]
    <3>1. CASE i <= M
      <4>1. i \in 1 .. M /\ i - 1 \in 0 .. M + 1 /\ i \in 0 .. M + 1 /\ i - 1 <= M
        BY <3>1
      <4>2. g[i] = f[i] /\ g[i - 1] = f[i - 1]
        BY <3>1, <4>1
      <4> QED BY <2>1, <4>1, <4>2
    <3>2. CASE ~(i <= M)
      <4>1. i = M + 1 /\ i - 1 = M /\ M \in 0 .. M + 1 /\ M + 1 \in 0 .. M + 1
        BY <3>2
      <4>2. g[i] = h[i][f[M]] /\ g[i - 1] = f[M]
        BY <3>2, <4>1
      <4> QED BY <4>2
    <3> QED BY <3>1, <3>2
  <2> HIDE DEF g
  <2>8. Good(M + 1, g)
    BY <2>5, <2>6, <2>7
  <2>9. M + 1 \in 0 .. N
    OBVIOUS
  <2> QED BY <2>5, <2>8, <2>9
<1>3. \A M \in 0 .. N : M \in T
  <2> HIDE DEF T
  <2> QED BY <1>1, <1>2, UpToInduction
<1>4. N \in T
  BY <1>3
<1> QED BY <1>4 DEF Iterates
-----------------------------------------------------------------------------
(* ---- The model file ---- *)

(* The widths of the heads add up to that of the model.                     *)
LEMMA HeadShapes ==
  ASSUME NEW p, WellFormed(p)
  PROVE  /\ HeadSize(p) \in Nat
         /\ p.n_heads * HeadSize(p) = p.dim
         /\ p.n_kv_heads * HeadSize(p) = KvDim(p)
         /\ KvDim(p) \in Nat
         /\ (p.seq_len * HeadSize(p)) \div 2 = p.seq_len * (HeadSize(p) \div 2)
         /\ HeadSize(p) \div 2 \in Nat
<1>1. PICK half \in Nat : p.dim = p.n_heads * (2 * half)
  <2>1. \A c \in Nat : c % 2 = 0 => c \div 2 \in Nat /\ c = 2 * (c \div 2)
    OBVIOUS
  <2> QED BY <2>1 DEF WellFormed
<1> DEFINE a == p.n_heads
           h == 2 * half
           b == p.n_kv_heads
           s == p.seq_len
<1>2. a \in Nat /\ a > 0 /\ h \in Nat /\ b \in Nat /\ s \in Nat /\ p.dim = a * h
  BY <1>1 DEF WellFormed
<1>3. \A c \in Nat : (a * c) \div a = c
  BY <1>2
<1>4. HeadSize(p) = h
  BY <1>2, <1>3 DEF HeadSize
<1>5. p.dim * b = a * (h * b) /\ h * b \in Nat /\ h * b = b * h
  BY <1>2
<1>6. KvDim(p) = b * h
  BY <1>3, <1>5 DEF KvDim
<1>7. \A c \in Nat : (2 * c) \div 2 = c
  OBVIOUS
<1>8. s * h = 2 * (s * half) /\ s * half \in Nat
  BY <1>1, <1>2
<1>9. (s * h) \div 2 = s * half /\ h \div 2 = half
  BY <1>7, <1>8
<1> QED BY <1>1, <1>2, <1>4, <1>5, <1>6, <1>9

(* The running sums of a list of pieces satisfy their recursion.            *)
LEMMA FloatsOf ==
  ASSUME NEW pieces, Len(pieces) \in Nat,
         \A i \in 1 .. Len(pieces) : pieces[i][2] \in Int
  PROVE  /\ Floats(pieces) \in [0 .. Len(pieces) -> Int]
         /\ Floats(pieces)[0] = 0
         /\ \A i \in 1 .. Len(pieces) :
              Floats(pieces)[i] = Floats(pieces)[i - 1] + pieces[i][2]
<1> DEFINE N == Len(pieces)
           h == [i \in 1 .. N |-> [v \in Int |-> v + pieces[i][2]]]
           Rec(f) == [k \in 0 .. N |-> IF k = 0 THEN 0 ELSE f[k - 1] + pieces[k][2]]
           sum == CHOOSE f : f = Rec(f)
<1>1. h \in [1 .. N -> [Int -> Int]]
  OBVIOUS
<1>2. PICK g \in [0 .. N -> Int] : g[0] = 0 /\ \A i \in 1 .. N : g[i] = h[i][g[i - 1]]
  <2>1. N \in Nat /\ 0 \in Int
    OBVIOUS
  <2>2. \E g : Iterates(g, N, Int, 0, h)
    <3> HIDE DEF h, N
    <3> QED BY <1>1, <2>1, Iterated
  <2> HIDE DEF h, N
  <2> QED BY <2>2 DEF Iterates
<1>3. g = Rec(g)
  <2>1. ASSUME NEW k \in 0 .. N
        PROVE  g[k] = IF k = 0 THEN 0 ELSE g[k - 1] + pieces[k][2]
    <3>1. CASE k = 0
      BY <1>2, <3>1
    <3>2. CASE k # 0
      <4>1. k \in 1 .. N /\ k - 1 \in 0 .. N
        BY <3>2
      <4>2. g[k] = h[k][g[k - 1]] /\ g[k - 1] \in Int
        BY <1>2, <4>1
      <4> QED BY <3>2, <4>1, <4>2
    <3> QED BY <3>1, <3>2
  <2> QED BY <2>1, <1>2
<1>4. sum = Rec(sum)
  <2>1. \E f : f = Rec(f)
    BY <1>3
  <2> HIDE DEF Rec
  <2> QED BY <2>1
<1>5. Floats(pieces) = sum
  BY DEF Floats
<1>6. /\ Floats(pieces)[0] = 0
      /\ \A i \in 1 .. N : Floats(pieces)[i] = Floats(pieces)[i - 1] + pieces[i][2]
      /\ Floats(pieces) = [k \in 0 .. N |-> Floats(pieces)[k]]
  <2> DEFINE F == Floats(pieces)
  <2>1. F = [k \in 0 .. N |-> IF k = 0 THEN 0 ELSE F[k - 1] + pieces[k][2]]
    BY <1>4, <1>5
  <2> HIDE DEF F
  <2>2. F[0] = 0 /\ F = [k \in 0 .. N |-> F[k]]
    BY <2>1
  <2>3. \A i \in 1 .. N : F[i] = F[i - 1] + pieces[i][2]
    BY <2>1
  <2> QED BY <2>2, <2>3 DEF F
<1> DEFINE T == {i \in 0 .. N : Floats(pieces)[i] \in Int}
<1>7. \A i \in 0 .. N : i \in T
  <2>1. 0 \in T
    BY <1>6
  <2>2. ASSUME NEW i \in 0 .. N - 1, i \in T PROVE i + 1 \in T
    <3>1. i + 1 \in 1 .. N /\ (i + 1) - 1 = i
      OBVIOUS
    <3>2. Floats(pieces)[i + 1] = Floats(pieces)[i] + pieces[i + 1][2]
      BY <1>6, <3>1
    <3> QED BY <2>2, <3>1, <3>2
  <2> HIDE DEF T
  <2> QED BY <2>1, <2>2, UpToInduction
<1> QED BY <1>6, <1>7
-----------------------------------------------------------------------------
(* The lists of pieces, written out. *)
Shape(p) ==
  << <<"token_embedding_table", Magnitude(p.vocab_size) * p.dim>>,
     <<"rms_att_weight", p.n_layers * p.dim>>,
     <<"wq", p.n_layers * p.dim * p.dim>>, <<"bq", p.n_layers * p.dim>>,
     <<"wk", p.n_layers * KvDim(p) * p.dim>>, <<"bk", p.n_layers * KvDim(p)>>,
     <<"wv", p.n_layers * KvDim(p) * p.dim>>, <<"bv", p.n_layers * KvDim(p)>>,
     <<"wo", p.n_layers * p.dim * p.dim>>,
     <<"rms_ffn_weight", p.n_layers * p.dim>>,
     <<"w1", p.n_layers * p.hidden_dim * p.dim>>,
     <<"w2", p.n_layers * p.dim * p.hidden_dim>>,
     <<"w3", p.n_layers * p.hidden_dim * p.dim>>,
     <<"rms_final_weight", p.dim>>,
     <<"freqs", p.seq_len * (HeadSize(p) \div 2)>>,
     <<"freqs_sin", p.seq_len * (HeadSize(p) \div 2)>> >>

(* When a sequence is the concatenation of two. *)
LEMMA ConcatIs ==
  ASSUME NEW S, NEW s \in Seq(S), NEW t \in Seq(S), NEW u \in Seq(S),
         Len(u) = Len(s) + Len(t),
         \A i \in 1 .. Len(s) : u[i] = s[i],
         \A i \in 1 .. Len(t) : u[Len(s) + i] = t[i]
  PROVE  s \o t = u
<1>1. s \o t \in Seq(S) /\ Len(s \o t) = Len(s) + Len(t)
  OBVIOUS
<1>2. \A i \in 1 .. Len(u) : (s \o t)[i] = u[i]
  <2> SUFFICES ASSUME NEW i \in 1 .. Len(u) PROVE (s \o t)[i] = u[i]
    OBVIOUS
  <2>1. CASE i <= Len(s)
    BY <2>1
  <2>2. CASE i > Len(s)
    <3>1. i - Len(s) \in 1 .. Len(t) /\ Len(s) + (i - Len(s)) = i
      BY <2>2
    <3> QED BY <2>2, <3>1
  <2> QED BY <2>1, <2>2
<1> QED BY <1>1, <1>2, SeqEqual

(* The exporter writes the list, and a classifier of its own at its end.    *)
LEMMA ExportedShape ==
  ASSUME NEW p
  PROVE  /\ SharedWeights(p) => ExportedPieces(p) = Shape(p)
         /\ ~SharedWeights(p) =>
              ExportedPieces(p) =
                Shape(p) \o << <<"wcls", Magnitude(p.vocab_size) * p.dim>> >>
         /\ Len(Shape(p)) = 16
<1>1. ExportedPieces(p) =
        Shape(p) \o (IF SharedWeights(p) THEN << >>
                     ELSE << <<"wcls", Magnitude(p.vocab_size) * p.dim>> >>)
  BY Zenon DEF ExportedPieces, Shape
<1>2. Shape(p) \o << >> = Shape(p) /\ Len(Shape(p)) = 16
  BY DEF Shape
<1> QED BY <1>1, <1>2, Zenon

(* The loader finds the same list. *)
LEMMA MappedShape ==
  ASSUME NEW p, WellFormed(p), p.vocab_size \in Nat
  PROVE  MappedPieces(p, TRUE) = Shape(p)
<1> DEFINE L == p.n_layers
           h == HeadSize(p)
           Bias(name, size) == IF TRUE THEN << <<name, size>> >> ELSE << >>
<1>1. /\ L * p.dim * (p.n_heads * h) = L * p.dim * p.dim
      /\ L * (p.n_heads * h) = L * p.dim
      /\ L * (p.n_heads * h) * p.dim = L * p.dim * p.dim
      /\ (p.seq_len * h) \div 2 = p.seq_len * (h \div 2)
      /\ Magnitude(p.vocab_size) = p.vocab_size
  BY HeadShapes DEF Magnitude
<1>2. L * (p.n_kv_heads * h) = L * KvDim(p)
  BY HeadShapes
<1>3. L * p.dim * (p.n_kv_heads * h) = L * KvDim(p) * p.dim
  <2>1. L \in Nat /\ p.dim \in Nat /\ KvDim(p) \in Nat
    BY HeadShapes DEF WellFormed
  <2>2. \A u, v, w \in Nat : u * v * w = u * w * v
    OBVIOUS
  <2> QED BY <2>1, <2>2, HeadShapes
<1>4. L * p.dim * p.hidden_dim = L * p.hidden_dim * p.dim
  <2>1. L \in Nat /\ p.dim \in Nat /\ p.hidden_dim \in Nat
    BY DEF WellFormed
  <2>2. \A u, v, w \in Nat : u * v * w = u * w * v
    OBVIOUS
  <2> QED BY <2>1, <2>2
<1>5. MappedPieces(p, TRUE) =
        << <<"token_embedding_table", p.vocab_size * p.dim>>,
           <<"rms_att_weight", L * p.dim>>,
           <<"wq", L * p.dim * (p.n_heads * h)>> >>
        \o << <<"bq", L * (p.n_heads * h)>> >>
        \o << <<"wk", L * p.dim * (p.n_kv_heads * h)>> >>
        \o << <<"bk", L * (p.n_kv_heads * h)>> >>
        \o << <<"wv", L * p.dim * (p.n_kv_heads * h)>> >>
        \o << <<"bv", L * (p.n_kv_heads * h)>> >>
        \o << <<"wo", L * (p.n_heads * h) * p.dim>>,
              <<"rms_ffn_weight", L * p.dim>>,
              <<"w1", L * p.dim * p.hidden_dim>>,
              <<"w2", L * p.hidden_dim * p.dim>>,
              <<"w3", L * p.dim * p.hidden_dim>>,
              <<"rms_final_weight", p.dim>>,
              <<"freqs", (p.seq_len * h) \div 2>>,
              <<"freqs_sin", (p.seq_len * h) \div 2>> >>
  BY Zenon DEF MappedPieces
<1> HIDE DEF L, h
<1>6. MappedPieces(p, TRUE) =
        << <<"token_embedding_table", p.vocab_size * p.dim>>,
           <<"rms_att_weight", L * p.dim>>,
           <<"wq", L * p.dim * (p.n_heads * h)>>, <<"bq", L * (p.n_heads * h)>>,
           <<"wk", L * p.dim * (p.n_kv_heads * h)>>,
           <<"bk", L * (p.n_kv_heads * h)>>,
           <<"wv", L * p.dim * (p.n_kv_heads * h)>>,
           <<"bv", L * (p.n_kv_heads * h)>>,
           <<"wo", L * (p.n_heads * h) * p.dim>>,
           <<"rms_ffn_weight", L * p.dim>>,
           <<"w1", L * p.dim * p.hidden_dim>>,
           <<"w2", L * p.hidden_dim * p.dim>>,
           <<"w3", L * p.dim * p.hidden_dim>>,
           <<"rms_final_weight", p.dim>>,
           <<"freqs", (p.seq_len * h) \div 2>>,
           <<"freqs_sin", (p.seq_len * h) \div 2>> >>
  <2> DEFINE a1 == <<"token_embedding_table", p.vocab_size * p.dim>>
             a2 == <<"rms_att_weight", L * p.dim>>
             a3 == <<"wq", L * p.dim * (p.n_heads * h)>>
             a4 == <<"bq", L * (p.n_heads * h)>>
             a5 == <<"wk", L * p.dim * (p.n_kv_heads * h)>>
             a6 == <<"bk", L * (p.n_kv_heads * h)>>
             a7 == <<"wv", L * p.dim * (p.n_kv_heads * h)>>
             a8 == <<"bv", L * (p.n_kv_heads * h)>>
             a9 == <<"wo", L * (p.n_heads * h) * p.dim>>
             a10 == <<"rms_ffn_weight", L * p.dim>>
             a11 == <<"w1", L * p.dim * p.hidden_dim>>
             a12 == <<"w2", L * p.hidden_dim * p.dim>>
             a13 == <<"w3", L * p.dim * p.hidden_dim>>
             a14 == <<"rms_final_weight", p.dim>>
             a15 == <<"freqs", (p.seq_len * h) \div 2>>
             a16 == <<"freqs_sin", (p.seq_len * h) \div 2>>
             S == {a1, a2, a3, a4, a5, a6, a7, a8, a9, a10, a11, a12, a13,
                   a14, a15, a16}
  <2>1. /\ a1 \in S /\ a2 \in S /\ a3 \in S /\ a4 \in S /\ a5 \in S /\ a6 \in S
        /\ a7 \in S /\ a8 \in S /\ a9 \in S /\ a10 \in S /\ a11 \in S
        /\ a12 \in S /\ a13 \in S /\ a14 \in S /\ a15 \in S /\ a16 \in S
    OBVIOUS
  <2> DEFINE
        s3 == <<a1, a2, a3>>
        s4 == <<a1, a2, a3, a4>>
        s5 == <<a1, a2, a3, a4, a5>>
        s6 == <<a1, a2, a3, a4, a5, a6>>
        s7 == <<a1, a2, a3, a4, a5, a6, a7>>
        s8 == <<a1, a2, a3, a4, a5, a6, a7, a8>>
        t4 == <<a4>>
        t5 == <<a5>>
        t6 == <<a6>>
        t7 == <<a7>>
        t8 == <<a8>>
        t == <<a9, a10, a11, a12, a13, a14, a15, a16>>
        u == <<a1, a2, a3, a4, a5, a6, a7, a8, a9, a10,
               a11, a12, a13, a14, a15, a16>>
  <2> HIDE DEF a1, a2, a3, a4, a5, a6, a7, a8, a9, a10, a11, a12, a13, a14,
               a15, a16, S
  <2>3. s3 \o t4 = s4
    <3>1. /\ s3 \in Seq(S) /\ t4 \in Seq(S) /\ s4 \in Seq(S)
          /\ Len(s3) = 3 /\ Len(t4) = 1 /\ Len(s4) = 4
      BY <2>1
    <3>2. \A i \in 1 .. 3 : s4[i] = s3[i]
      OBVIOUS
    <3>3. \A i \in 1 .. 1 : s4[3 + i] = t4[i]
      OBVIOUS
    <3> HIDE DEF s3, t4, s4
    <3>4. Len(s4) = Len(s3) + Len(t4)
      BY <3>1
    <3>5. /\ \A i \in 1 .. Len(s3) : s4[i] = s3[i]
          /\ \A i \in 1 .. Len(t4) : s4[Len(s3) + i] = t4[i]
      BY <3>1, <3>2, <3>3
    <3> QED BY <3>1, <3>4, <3>5, ConcatIs, Zenon
  <2>4. s4 \o t5 = s5
    <3>1. /\ s4 \in Seq(S) /\ t5 \in Seq(S) /\ s5 \in Seq(S)
          /\ Len(s4) = 4 /\ Len(t5) = 1 /\ Len(s5) = 5
      BY <2>1
    <3>2. \A i \in 1 .. 4 : s5[i] = s4[i]
      OBVIOUS
    <3>3. \A i \in 1 .. 1 : s5[4 + i] = t5[i]
      OBVIOUS
    <3> HIDE DEF s4, t5, s5
    <3>4. Len(s5) = Len(s4) + Len(t5)
      BY <3>1
    <3>5. /\ \A i \in 1 .. Len(s4) : s5[i] = s4[i]
          /\ \A i \in 1 .. Len(t5) : s5[Len(s4) + i] = t5[i]
      BY <3>1, <3>2, <3>3
    <3> QED BY <3>1, <3>4, <3>5, ConcatIs, Zenon
  <2>5. s5 \o t6 = s6
    <3>1. /\ s5 \in Seq(S) /\ t6 \in Seq(S) /\ s6 \in Seq(S)
          /\ Len(s5) = 5 /\ Len(t6) = 1 /\ Len(s6) = 6
      BY <2>1
    <3>2. \A i \in 1 .. 5 : s6[i] = s5[i]
      OBVIOUS
    <3>3. \A i \in 1 .. 1 : s6[5 + i] = t6[i]
      OBVIOUS
    <3> HIDE DEF s5, t6, s6
    <3>4. Len(s6) = Len(s5) + Len(t6)
      BY <3>1
    <3>5. /\ \A i \in 1 .. Len(s5) : s6[i] = s5[i]
          /\ \A i \in 1 .. Len(t6) : s6[Len(s5) + i] = t6[i]
      BY <3>1, <3>2, <3>3
    <3> QED BY <3>1, <3>4, <3>5, ConcatIs, Zenon
  <2>6. s6 \o t7 = s7
    <3>1. /\ s6 \in Seq(S) /\ t7 \in Seq(S) /\ s7 \in Seq(S)
          /\ Len(s6) = 6 /\ Len(t7) = 1 /\ Len(s7) = 7
      BY <2>1
    <3>2. \A i \in 1 .. 6 : s7[i] = s6[i]
      OBVIOUS
    <3>3. \A i \in 1 .. 1 : s7[6 + i] = t7[i]
      OBVIOUS
    <3> HIDE DEF s6, t7, s7
    <3>4. Len(s7) = Len(s6) + Len(t7)
      BY <3>1
    <3>5. /\ \A i \in 1 .. Len(s6) : s7[i] = s6[i]
          /\ \A i \in 1 .. Len(t7) : s7[Len(s6) + i] = t7[i]
      BY <3>1, <3>2, <3>3
    <3> QED BY <3>1, <3>4, <3>5, ConcatIs, Zenon
  <2>7. s7 \o t8 = s8
    <3>1. /\ s7 \in Seq(S) /\ t8 \in Seq(S) /\ s8 \in Seq(S)
          /\ Len(s7) = 7 /\ Len(t8) = 1 /\ Len(s8) = 8
      BY <2>1
    <3>2. \A i \in 1 .. 7 : s8[i] = s7[i]
      OBVIOUS
    <3>3. \A i \in 1 .. 1 : s8[7 + i] = t8[i]
      OBVIOUS
    <3> HIDE DEF s7, t8, s8
    <3>4. Len(s8) = Len(s7) + Len(t8)
      BY <3>1
    <3>5. /\ \A i \in 1 .. Len(s7) : s8[i] = s7[i]
          /\ \A i \in 1 .. Len(t8) : s8[Len(s7) + i] = t8[i]
      BY <3>1, <3>2, <3>3
    <3> QED BY <3>1, <3>4, <3>5, ConcatIs, Zenon
  <2>8. s8 \o t = u
    <3>1. /\ s8 \in Seq(S) /\ t \in Seq(S) /\ u \in Seq(S)
          /\ Len(s8) = 8 /\ Len(t) = 8 /\ Len(u) = 16
      BY <2>1
    <3>2. \A i \in 1 .. 8 : u[i] = s8[i]
      OBVIOUS
    <3>3. \A i \in 1 .. 8 : u[8 + i] = t[i]
      OBVIOUS
    <3> HIDE DEF s8, t, u
    <3>4. Len(u) = Len(s8) + Len(t)
      BY <3>1
    <3>5. /\ \A i \in 1 .. Len(s8) : u[i] = s8[i]
          /\ \A i \in 1 .. Len(t) : u[Len(s8) + i] = t[i]
      BY <3>1, <3>2, <3>3
    <3> QED BY <3>1, <3>4, <3>5, ConcatIs, Zenon
  <2>9. s3 \o t4 \o t5 \o t6 \o t7 \o t8 \o t = u
    <3> HIDE DEF s3, s4, s5, s6, s7, s8, t4, t5, t6, t7, t8, t, u
    <3> QED BY <2>3, <2>4, <2>5, <2>6, <2>7, <2>8, Zenon
  <2> QED BY <1>5, <2>9, Zenon DEF a1, a2, a3, a4, a5, a6, a7, a8, a9, a10, a11,
           a12, a13, a14, a15, a16
<1>7. MappedPieces(p, TRUE) =
        << <<"token_embedding_table", Magnitude(p.vocab_size) * p.dim>>,
           <<"rms_att_weight", L * p.dim>>,
           <<"wq", L * p.dim * p.dim>>, <<"bq", L * p.dim>>,
           <<"wk", L * KvDim(p) * p.dim>>, <<"bk", L * KvDim(p)>>,
           <<"wv", L * KvDim(p) * p.dim>>, <<"bv", L * KvDim(p)>>,
           <<"wo", L * p.dim * p.dim>>,
           <<"rms_ffn_weight", L * p.dim>>,
           <<"w1", L * p.hidden_dim * p.dim>>,
           <<"w2", L * p.hidden_dim * p.dim>>,
           <<"w3", L * p.dim * p.hidden_dim>>,
           <<"rms_final_weight", p.dim>>,
           <<"freqs", p.seq_len * (h \div 2)>>,
           <<"freqs_sin", p.seq_len * (h \div 2)>> >>
  BY <1>1, <1>2, <1>3, <1>4, <1>6, Zenon
<1> QED BY <1>4, <1>7, Zenon DEF Shape, L, h
-----------------------------------------------------------------------------
(* Where a list of differently named pieces places its k-th one.            *)
LEMMA PlacedAt ==
  ASSUME NEW S, NEW pieces \in Seq(S),
         \A i, j \in 1 .. Len(pieces) : pieces[i][1] = pieces[j][1] => i = j
  PROVE  /\ DOMAIN Placed(pieces) = {pieces[k][1] : k \in 1 .. Len(pieces)}
         /\ \A k \in 1 .. Len(pieces) :
              Placed(pieces)[pieces[k][1]] = Floats(pieces)[k - 1]
<1>1. DOMAIN pieces = 1 .. Len(pieces)
  OBVIOUS
<1> DEFINE names == {pieces[k][1] : k \in DOMAIN pieces}
           index == [name \in names |->
                       CHOOSE k \in DOMAIN pieces : pieces[k][1] = name]
<1>2. Placed(pieces) = [name \in DOMAIN index |-> Floats(pieces)[index[name] - 1]]
  BY DEF Placed
<1>3. DOMAIN index = names /\ names = {pieces[k][1] : k \in 1 .. Len(pieces)}
  BY <1>1
<1>4. ASSUME NEW k \in 1 .. Len(pieces)
      PROVE  Placed(pieces)[pieces[k][1]] = Floats(pieces)[k - 1]
  <2>1. pieces[k][1] \in names
    BY <1>1
  <2>2. index[pieces[k][1]] = CHOOSE i \in DOMAIN pieces : pieces[i][1] = pieces[k][1]
    BY <2>1
  <2> HIDE DEF index, names
  <2>3. index[pieces[k][1]] \in DOMAIN pieces
        /\ pieces[index[pieces[k][1]]][1] = pieces[k][1]
    BY <1>1, <2>2
  <2>4. index[pieces[k][1]] = k
    BY <1>1, <2>3
  <2> QED BY <1>2, <1>3, <2>1, <2>4
<1> HIDE DEF index
<1> QED BY <1>2, <1>3, <1>4

(* A piece at the end of a list moves none of the pieces before it.         *)
LEMMA FloatsOfPrefix ==
  ASSUME NEW S, NEW s \in Seq(S), NEW piece \in S,
         piece[2] \in Int, \A i \in 1 .. Len(s) : s[i][2] \in Int
  PROVE  /\ \A k \in 0 .. Len(s) : Floats(s \o <<piece>>)[k] = Floats(s)[k]
         /\ Floats(s)[Len(s)] = Floats(s \o <<piece>>)[Len(s)]
<1> DEFINE longer == s \o <<piece>>
           T == {k \in 0 .. Len(s) : Floats(longer)[k] = Floats(s)[k]}
<1>1. /\ Len(s) \in Nat /\ Len(longer) = Len(s) + 1
      /\ \A i \in 1 .. Len(s) : longer[i] = s[i]
      /\ longer[Len(s) + 1] = piece
  OBVIOUS
<1> HIDE DEF longer
<1>2. \A i \in 1 .. Len(longer) : longer[i][2] \in Int
  <2> SUFFICES ASSUME NEW i \in 1 .. Len(longer) PROVE longer[i][2] \in Int
    OBVIOUS
  <2>1. i \in 1 .. Len(s) \/ i = Len(s) + 1
    BY <1>1
  <2> QED BY <1>1, <2>1
<1>3. /\ Floats(s)[0] = 0 /\ Floats(longer)[0] = 0
      /\ \A i \in 1 .. Len(s) : Floats(s)[i] = Floats(s)[i - 1] + s[i][2]
      /\ \A i \in 1 .. Len(s) :
           Floats(longer)[i] = Floats(longer)[i - 1] + longer[i][2]
  <2>1. /\ Floats(s)[0] = 0
        /\ \A i \in 1 .. Len(s) : Floats(s)[i] = Floats(s)[i - 1] + s[i][2]
    BY <1>1, FloatsOf
  <2>2. /\ Floats(longer)[0] = 0
        /\ \A i \in 1 .. Len(longer) :
             Floats(longer)[i] = Floats(longer)[i - 1] + longer[i][2]
    <3>1. Len(longer) \in Nat
      BY <1>1
    <3> QED BY <1>2, <3>1, FloatsOf
  <2> QED BY <1>1, <2>1, <2>2
<1>4. 0 \in T
  BY <1>1, <1>3
<1>5. ASSUME NEW k \in 0 .. Len(s) - 1, k \in T PROVE k + 1 \in T
  <2>1. k + 1 \in 1 .. Len(s) /\ (k + 1) - 1 = k
    BY <1>1
  <2> QED BY <1>1, <1>3, <1>5, <2>1
<1>6. \A k \in 0 .. Len(s) : k \in T
  <2> HIDE DEF T
  <2> QED BY <1>1, <1>4, <1>5, UpToInduction
<1> QED BY <1>1, <1>6 DEF longer

(* Nor does it change where they are placed; it is placed after them.       *)
LEMMA PlacedLonger ==
  ASSUME NEW S, NEW s \in Seq(S), NEW piece \in S,
         piece[2] \in Int, \A i \in 1 .. Len(s) : s[i][2] \in Int,
         \A i \in 1 .. Len(s) : s[i][1] # piece[1],
         \A i, j \in 1 .. Len(s) : s[i][1] = s[j][1] => i = j
  PROVE  /\ DOMAIN Placed(s \o <<piece>>) = DOMAIN Placed(s) \cup {piece[1]}
         /\ \A name \in DOMAIN Placed(s) :
              Placed(s \o <<piece>>)[name] = Placed(s)[name]
         /\ Placed(s \o <<piece>>)[piece[1]] = Floats(s)[Len(s)]
<1> DEFINE longer == s \o <<piece>>
           N == Len(s)
<1>1. /\ N \in Nat /\ longer \in Seq(S) /\ Len(longer) = N + 1
      /\ \A i \in 1 .. N : longer[i] = s[i]
      /\ longer[N + 1] = piece
  OBVIOUS
<1>2. \A k \in 0 .. N : Floats(longer)[k] = Floats(s)[k]
  BY FloatsOfPrefix
<1>3. /\ DOMAIN Placed(s) = {s[k][1] : k \in 1 .. N}
      /\ \A k \in 1 .. N : Placed(s)[s[k][1]] = Floats(s)[k - 1]
  BY PlacedAt
<1> HIDE DEF longer, N
<1>4. \A i, j \in 1 .. Len(longer) : longer[i][1] = longer[j][1] => i = j
  <2> SUFFICES ASSUME NEW i \in 1 .. Len(longer), NEW j \in 1 .. Len(longer),
                      longer[i][1] = longer[j][1]
               PROVE  i = j
    OBVIOUS
  <2>1. (i \in 1 .. N \/ i = N + 1) /\ (j \in 1 .. N \/ j = N + 1)
    BY <1>1
  <2>2. CASE i \in 1 .. N /\ j \in 1 .. N
    <3>1. s[i][1] = s[j][1]
      BY <1>1, <2>2
    <3> QED BY <2>2, <3>1 DEF N
  <2>3. CASE i = N + 1 \/ j = N + 1
    BY <1>1, <2>1, <2>3 DEF N
  <2> QED BY <2>1, <2>2, <2>3
<1>5. /\ DOMAIN Placed(longer) = {longer[k][1] : k \in 1 .. Len(longer)}
      /\ \A k \in 1 .. Len(longer) :
           Placed(longer)[longer[k][1]] = Floats(longer)[k - 1]
  BY <1>1, <1>4, PlacedAt
<1>6. DOMAIN Placed(longer) = DOMAIN Placed(s) \cup {piece[1]}
  <2>1. \A k : k \in 1 .. Len(longer) <=> k \in 1 .. N \/ k = N + 1
    BY <1>1
  <2>2. ASSUME NEW name
        PROVE  name \in DOMAIN Placed(longer)
                 <=> name \in DOMAIN Placed(s) \cup {piece[1]}
    <3>1. name \in DOMAIN Placed(longer)
            <=> \E k \in 1 .. Len(longer) : name = longer[k][1]
      BY <1>5
    <3>2. name \in DOMAIN Placed(s) <=> \E k \in 1 .. N : name = s[k][1]
      BY <1>3
    <3> QED BY <1>1, <2>1, <3>1, <3>2
  <2> QED BY <2>2
<1>7. ASSUME NEW name \in DOMAIN Placed(s)
      PROVE  Placed(longer)[name] = Placed(s)[name]
  <2>1. PICK k \in 1 .. N : name = s[k][1]
    BY <1>3
  <2>2. k \in 1 .. Len(longer) /\ k - 1 \in 0 .. N /\ longer[k][1] = name
    BY <1>1, <2>1
  <2>3. Placed(longer)[longer[k][1]] = Floats(longer)[k - 1]
    BY <1>5, <2>2
  <2>4. Placed(s)[s[k][1]] = Floats(s)[k - 1]
    BY <1>3, <2>1
  <2>5. Floats(longer)[k - 1] = Floats(s)[k - 1]
    BY <1>2, <2>2
  <2> QED BY <2>1, <2>2, <2>3, <2>4, <2>5
<1>8. Placed(longer)[piece[1]] = Floats(s)[N]
  <2>1. N + 1 \in 1 .. Len(longer) /\ (N + 1) - 1 = N /\ N \in 0 .. N
    BY <1>1
  <2> QED BY <1>1, <1>2, <1>5, <2>1
<1> QED BY <1>6, <1>7, <1>8 DEF longer, N

Names ==
  {"token_embedding_table", "rms_att_weight", "wq", "bq", "wk", "bk", "wv", "bv",
   "wo", "rms_ffn_weight", "w1", "w2", "w3", "rms_final_weight", "freqs",
   "freqs_sin", "wcls"}

(* The names and the sizes of the exporter's list.                          *)
LEMMA ShapeProperties ==
  ASSUME NEW p, WellFormed(p)
  PROVE  /\ Shape(p) \in Seq(Names \X Int) /\ Len(Shape(p)) = 16
         /\ Shape(p)[1][1] = "token_embedding_table"
         /\ \A i \in 1 .. 16 : Shape(p)[i][1] # "wcls" /\ Shape(p)[i][2] \in Int
         /\ \A i, j \in 1 .. 16 : Shape(p)[i][1] = Shape(p)[j][1] => i = j
<1>1. /\ p.n_layers \in Nat /\ p.dim \in Nat /\ p.hidden_dim \in Nat
      /\ p.seq_len \in Nat /\ KvDim(p) \in Nat /\ HeadSize(p) \div 2 \in Nat
      /\ Magnitude(p.vocab_size) \in Int
  BY HeadShapes DEF WellFormed, Magnitude
<1>2. \A a, b \in Int : a * b \in Int
  OBVIOUS
<1>3. /\ p.n_layers * p.dim \in Int /\ p.n_layers * KvDim(p) \in Int
      /\ p.n_layers * p.hidden_dim \in Int
      /\ p.n_layers * p.dim * p.dim \in Int
      /\ p.n_layers * KvDim(p) * p.dim \in Int
      /\ p.n_layers * p.hidden_dim * p.dim \in Int
      /\ p.n_layers * p.dim * p.hidden_dim \in Int
      /\ Magnitude(p.vocab_size) * p.dim \in Int /\ p.dim \in Int
      /\ p.seq_len * (HeadSize(p) \div 2) \in Int
  BY <1>1, <1>2
<1>4. Shape(p) \in Seq(Names \X Int) /\ Len(Shape(p)) = 16
  <2> DEFINE n1 == Magnitude(p.vocab_size) * p.dim
             n2 == p.n_layers * p.dim
             n3 == p.n_layers * p.dim * p.dim
             n4 == p.n_layers * KvDim(p) * p.dim
             n5 == p.n_layers * KvDim(p)
             n6 == p.n_layers * p.hidden_dim * p.dim
             n7 == p.n_layers * p.dim * p.hidden_dim
             n8 == p.dim
             n9 == p.seq_len * (HeadSize(p) \div 2)
  <2>1. /\ n1 \in Int /\ n2 \in Int /\ n3 \in Int
        /\ n4 \in Int /\ n5 \in Int /\ n6 \in Int
        /\ n7 \in Int /\ n8 \in Int /\ n9 \in Int
    BY <1>3
  <2> DEFINE P == Names \X Int
             e1 == <<"token_embedding_table", n1>>
             e2 == <<"rms_att_weight", n2>>
             e3 == <<"wq", n3>>
             e4 == <<"bq", n2>>
             e5 == <<"wk", n4>>
             e6 == <<"bk", n5>>
             e7 == <<"wv", n4>>
             e8 == <<"bv", n5>>
             e9 == <<"wo", n3>>
             e10 == <<"rms_ffn_weight", n2>>
             e11 == <<"w1", n6>>
             e12 == <<"w2", n7>>
             e13 == <<"w3", n6>>
             e14 == <<"rms_final_weight", n8>>
             e15 == <<"freqs", n9>>
             e16 == <<"freqs_sin", n9>>
             s == <<e1, e2, e3, e4, e5, e6, e7, e8, e9, e10, e11, e12, e13,
                    e14, e15, e16>>
  <2>2. Shape(p) = s
    BY Zenon DEF Shape
  <2> HIDE DEF n1, n2, n3, n4, n5, n6, n7, n8, n9
  <2>3. /\ e1 \in P /\ e2 \in P /\ e3 \in P /\ e4 \in P
        /\ e5 \in P /\ e6 \in P /\ e7 \in P /\ e8 \in P
        /\ e9 \in P /\ e10 \in P /\ e11 \in P /\ e12 \in P
        /\ e13 \in P /\ e14 \in P /\ e15 \in P /\ e16 \in P
    BY <2>1 DEF Names
  <2> HIDE DEF e1, e2, e3, e4, e5, e6, e7, e8, e9, e10, e11, e12, e13, e14, e15,
               e16, P
  <2>4. s \in Seq(P) /\ Len(s) = 16
    BY <2>3
  <2> HIDE DEF s
  <2> QED BY <2>2, <2>4, Zenon DEF P
<1>5. \A i \in 1 .. 16 : Shape(p)[i][1] # "wcls"
  BY DEF Shape
<1>6. \A i, j \in 1 .. 16 : Shape(p)[i][1] = Shape(p)[j][1] => i = j
  BY DEF Shape
<1>7. Shape(p)[1][1] = "token_embedding_table"
  BY DEF Shape
<1>8. \A i \in 1 .. 16 : Shape(p)[i][2] \in Int
  <2>1. \A i \in 1 .. 16 : Shape(p)[i] \in Names \X Int
    BY <1>4, ElementOfSeq
  <2> QED BY <2>1
<1> QED BY <1>4, <1>5, <1>6, <1>7, <1>8
-----------------------------------------------------------------------------
(* The loader's sizes come from the header with the sign removed.           *)
LEMMA ConfigShape ==
  ASSUME NEW p, WellFormed(p)
  PROVE  LET config == [p EXCEPT !.vocab_size = Magnitude(p.vocab_size)]
         IN /\ WellFormed(config) /\ config.vocab_size \in Nat
            /\ Shape(config) = Shape(p)
<1> DEFINE config == [p EXCEPT !.vocab_size = Magnitude(p.vocab_size)]
<1>1. /\ config.dim = p.dim /\ config.hidden_dim = p.hidden_dim
      /\ config.n_layers = p.n_layers /\ config.n_heads = p.n_heads
      /\ config.n_kv_heads = p.n_kv_heads /\ config.seq_len = p.seq_len
      /\ config.vocab_size = Magnitude(p.vocab_size)
  BY DEF WellFormed
<1>2. Magnitude(p.vocab_size) \in Nat
  BY DEF WellFormed, Magnitude
<1>3. Magnitude(config.vocab_size) = Magnitude(p.vocab_size)
  BY <1>1, <1>2 DEF Magnitude
<1>4. config \in [dim : Nat, hidden_dim : Nat, n_layers : Nat,
                  n_heads : Nat \ {0}, n_kv_heads : Nat, vocab_size : Int,
                  seq_len : Nat]
  BY <1>1, <1>2 DEF WellFormed
<1> HIDE DEF config
<1>5. HeadSize(config) = HeadSize(p) /\ KvDim(config) = KvDim(p)
  BY <1>1 DEF HeadSize, KvDim
<1>7. WellFormed(config)
  BY <1>1, <1>4, <1>5 DEF WellFormed
<1>6. Shape(config) = Shape(p)
  BY <1>1, <1>3, <1>5, Zenon DEF Shape
<1> QED BY <1>1, <1>2, <1>6, <1>7 DEF config

(* Every tensor of the file is found where the exporter wrote it.           *)
LEMMA EveryTensorInPlace ==
  ASSUME NEW p, WellFormed(p)
  PROVE  LET written == Placed(ExportedPieces(p))
             weightsRead == read_checkpoint(p).weights
         IN /\ \A name \in DOMAIN written : weightsRead[name] = written[name]
            /\ SharedWeights(p) =>
                 weightsRead["wcls"] = written["token_embedding_table"]
<1> DEFINE config == [p EXCEPT !.vocab_size = Magnitude(p.vocab_size)]
           w == Placed(Shape(p))
           written == Placed(ExportedPieces(p))
           size == Magnitude(p.vocab_size) * p.dim
           r == [name \in DOMAIN w \cup {"wcls"} |->
                   IF name # "wcls" THEN w[name]
                   ELSE IF SharedWeights(p) THEN w["token_embedding_table"]
                        ELSE Floats(Shape(p))[Len(Shape(p))]]
<1>1. MappedPieces(config, TRUE) = Shape(p)
  BY ConfigShape, MappedShape
<1>2. read_checkpoint(p).weights = memory_map_weights(config, SharedWeights(p), TRUE)
  BY DEF read_checkpoint
<1>3. read_checkpoint(p).weights = r
  <2> HIDE DEF config
  <2> QED BY <1>1, <1>2, Zenon DEF memory_map_weights
<1>4. /\ Shape(p) \in Seq(Names \X Int) /\ Len(Shape(p)) = 16
      /\ Shape(p)[1][1] = "token_embedding_table"
      /\ \A i \in 1 .. 16 : Shape(p)[i][1] # "wcls" /\ Shape(p)[i][2] \in Int
      /\ \A i, j \in 1 .. 16 : Shape(p)[i][1] = Shape(p)[j][1] => i = j
  BY ShapeProperties
<1>5. /\ DOMAIN w = {Shape(p)[k][1] : k \in 1 .. 16}
      /\ \A k \in 1 .. 16 : w[Shape(p)[k][1]] = Floats(Shape(p))[k - 1]
  <2> DEFINE s == Shape(p)
  <2>1. /\ s \in Seq(Names \X Int)
        /\ \A i, j \in 1 .. Len(s) : s[i][1] = s[j][1] => i = j
    BY <1>4
  <2> HIDE DEF s
  <2>2. /\ DOMAIN Placed(s) = {s[k][1] : k \in 1 .. Len(s)}
        /\ \A k \in 1 .. Len(s) : Placed(s)[s[k][1]] = Floats(s)[k - 1]
    BY <2>1, PlacedAt
  <2> QED BY <1>4, <2>2 DEF s
<1>6. "token_embedding_table" \in DOMAIN w /\ "wcls" \notin DOMAIN w
  <2> HIDE DEF w
  <2>1. 1 \in 1 .. 16
    OBVIOUS
  <2> QED BY <1>4, <1>5, <2>1
<1>7. CASE SharedWeights(p)
  <2>1. written = w
    BY <1>7, ExportedShape
  <2> HIDE DEF w, written
  <2> QED BY <1>3, <1>6, <1>7, <2>1 DEF written
<1>8. CASE ~SharedWeights(p)
  <2> DEFINE piece == <<"wcls", size>>
             T == Names \X Int
             s == Shape(p)
  <2>1. size \in Int /\ piece \in T /\ piece[1] = "wcls" /\ piece[2] = size
    <3>1. Magnitude(p.vocab_size) \in Int /\ p.dim \in Int
      BY DEF WellFormed, Magnitude
    <3>2. size \in Int
      BY <3>1
    <3> HIDE DEF size
    <3> QED BY <3>2 DEF Names
  <2>2. written = Placed(s \o <<piece>>)
    BY <1>8, ExportedShape
  <2>3. /\ s \in Seq(T)
        /\ \A i \in 1 .. Len(s) : s[i][2] \in Int
        /\ \A i \in 1 .. Len(s) : s[i][1] # piece[1]
        /\ \A i, j \in 1 .. Len(s) : s[i][1] = s[j][1] => i = j
    BY <1>4, <2>1
  <2>4. w = Placed(s)
    OBVIOUS
  <2>5. ~SharedWeights(p) => r = [name \in DOMAIN w \cup {"wcls"} |->
          IF name # "wcls" THEN w[name] ELSE Floats(s)[Len(s)]]
    BY Zenon
  <2> HIDE DEF piece, size, T, s, w, written, r
  <2>6. /\ DOMAIN written = DOMAIN w \cup {"wcls"}
        /\ \A name \in DOMAIN w : written[name] = w[name]
        /\ written["wcls"] = Floats(s)[Len(s)]
    <3>1. /\ DOMAIN Placed(s \o <<piece>>) = DOMAIN Placed(s) \cup {piece[1]}
          /\ \A name \in DOMAIN Placed(s) :
               Placed(s \o <<piece>>)[name] = Placed(s)[name]
          /\ Placed(s \o <<piece>>)[piece[1]] = Floats(s)[Len(s)]
      BY <2>1, <2>3, PlacedLonger
    <3> QED BY <2>1, <2>2, <2>4, <3>1, Zenon
  <2>7. ASSUME NEW name \in DOMAIN w \cup {"wcls"}
        PROVE  r[name] = written[name]
    <3>1. CASE name = "wcls"
      BY <1>8, <2>5, <2>6, <3>1
    <3>2. CASE name # "wcls"
      BY <1>8, <2>5, <2>6, <3>2
    <3> QED BY <3>1, <3>2
  <2> QED BY <1>3, <1>8, <2>6, <2>7 DEF written
<1> QED BY <1>7, <1>8
-----------------------------------------------------------------------------
(* A function over 1 .. N defined from its last value down: value k is h[k] *)
(* of the function, and depends on the later values only.                   *)
Solves(g, N, S, h) == g \in [1 .. N -> S] /\ \A k \in 1 .. N : g[k] = h[k][g]

(* A function whose value at k depends on its values above k exists.        *)
LEMMA BackwardRecursion ==
  ASSUME NEW N \in Nat, NEW S, NEW a \in S,
         NEW h, h \in [1 .. N -> [[1 .. N -> S] -> S]],
         \A k \in 1 .. N : \A f, g \in [1 .. N -> S] :
           (\A j \in k + 1 .. N : f[j] = g[j]) => h[k][f] = h[k][g]
  PROVE  \E g : Solves(g, N, S, h)
<1> DEFINE F == [1 .. N -> S]
           start0 == [k \in 1 .. N |-> a]
           step == [i \in 1 .. N |-> [f \in F |->
                      [f EXCEPT ![N + 1 - i] = h[N + 1 - i][f]]]]
<1>1. start0 \in F
  OBVIOUS
<1>2. step \in [1 .. N -> [F -> F]]
  <2> SUFFICES ASSUME NEW i \in 1 .. N, NEW f \in F
               PROVE  [f EXCEPT ![N + 1 - i] = h[N + 1 - i][f]] \in F
    BY Zenon
  <2>1. N + 1 - i \in 1 .. N
    OBVIOUS
  <2>2. h[N + 1 - i][f] \in S
    BY <2>1
  <2> QED BY <2>1, <2>2
<1>3. PICK c : Iterates(c, N, F, start0, step)
  <2> HIDE DEF F, start0, step
  <2> QED BY <1>1, <1>2, Iterated
<1>4. /\ c \in [0 .. N -> F]
      /\ \A i \in 1 .. N : c[i] = [c[i - 1] EXCEPT ![N + 1 - i] =
                                     h[N + 1 - i][c[i - 1]]]
  <2>1. c \in [0 .. N -> F] /\ \A i \in 1 .. N : c[i] = step[i][c[i - 1]]
    BY <1>3 DEF Iterates
  <2> SUFFICES ASSUME NEW i \in 1 .. N
               PROVE  c[i] = [c[i - 1] EXCEPT ![N + 1 - i] =
                                h[N + 1 - i][c[i - 1]]]
    BY <2>1
  <2>2. c[i - 1] \in F
    <3>1. i - 1 \in 0 .. N
      OBVIOUS
    <3> HIDE DEF F
    <3> QED BY <2>1, <3>1
  <2> HIDE DEF F
  <2> QED BY <2>1, <2>2
(* A value stays as it was set, and its step sees the later values.         *)
<1> DEFINE T == {i \in 0 .. N : \A k \in N + 1 - i .. N :
                   c[i][k] = h[k][c[i]]}
<1>5. 0 \in T
  OBVIOUS
<1>6. ASSUME NEW i \in 0 .. N - 1, i \in T PROVE i + 1 \in T
  <2> DEFINE m == N - i
  <2>1. /\ i + 1 \in 1 .. N /\ (i + 1) - 1 = i /\ i \in 0 .. N
        /\ N + 1 - (i + 1) = m /\ m \in 1 .. N /\ i + 1 \in 0 .. N
    OBVIOUS
  <2> HIDE DEF m
  <2>2. c[i + 1] = [c[i] EXCEPT ![m] = h[m][c[i]]]
    BY <1>4, <2>1
  <2>3. c[i] \in F /\ c[i + 1] \in F
    <3> HIDE DEF F
    <3> QED BY <1>4, <2>1
  <2>4. /\ c[i + 1][m] = h[m][c[i]]
        /\ \A k \in 1 .. N : k # m => c[i + 1][k] = c[i][k]
    BY <2>1, <2>2, <2>3
  <2>5. ASSUME NEW k \in m .. N PROVE c[i + 1][k] = h[k][c[i + 1]]
    <3>1. k \in 1 .. N
      BY <2>1
    <3>2. \A j \in k + 1 .. N : c[i + 1][j] = c[i][j]
      <4> SUFFICES ASSUME NEW j \in k + 1 .. N PROVE c[i + 1][j] = c[i][j]
        OBVIOUS
      <4>1. j \in 1 .. N /\ j # m
        BY <2>1, <3>1
      <4> QED BY <2>4, <4>1
    <3>3. h[k][c[i + 1]] = h[k][c[i]]
      BY <2>3, <3>1, <3>2
    <3>4. CASE k = m
      BY <2>4, <3>3, <3>4
    <3>5. CASE k # m
      <4>1. k \in N + 1 - i .. N
        BY <2>1, <3>5 DEF m
      <4>2. c[i][k] = h[k][c[i]]
        BY <1>6, <4>1
      <4> QED BY <2>4, <3>1, <3>3, <3>5, <4>2
    <3> QED BY <3>4, <3>5
  <2> QED BY <2>1, <2>5
<1>7. \A i \in 0 .. N : i \in T
  <2> HIDE DEF T
  <2> QED BY <1>5, <1>6, UpToInduction
<1>8. N \in T /\ N \in 0 .. N
  BY <1>7
<1>9. Solves(c[N], N, S, h)
  <2>1. \A k \in 1 .. N : c[N][k] = h[k][c[N]]
    BY <1>8
  <2>2. c[N] \in F
    <3> HIDE DEF F
    <3> QED BY <1>4, <1>8
  <2> QED BY <2>1, <2>2 DEF Solves
<1> QED BY <1>9
-----------------------------------------------------------------------------
(* Induction from the last value down.                                      *)
LEMMA BackwardInduction ==
  ASSUME NEW N \in Nat, NEW T,
         \A k \in 1 .. N : (\A j \in k + 1 .. N : j \in T) => k \in T
  PROVE  \A k \in 1 .. N : k \in T
<1> DEFINE U == {i \in 0 .. N : \A k \in N + 1 - i .. N : k \in T}
<1>1. 0 \in U
  OBVIOUS
<1>2. ASSUME NEW i \in 0 .. N - 1, i \in U PROVE i + 1 \in U
  <2>1. N - i \in 1 .. N /\ \A j \in N - i + 1 .. N : j \in N + 1 - i .. N
    OBVIOUS
  <2>2. N - i \in T
    BY <1>2, <2>1
  <2>3. ASSUME NEW k \in N - i .. N PROVE k \in T
    BY <1>2, <2>2
  <2>4. N + 1 - (i + 1) = N - i
    OBVIOUS
  <2> QED BY <2>3, <2>4
<1>3. \A i \in 0 .. N : i \in U
  <2> HIDE DEF U
  <2> QED BY <1>1, <1>2, UpToInduction
<1>4. N \in U
  BY <1>3
<1> QED BY <1>4
-----------------------------------------------------------------------------
(* ---- The tokenizer ---- *)

Byte == 0 .. Cardinality(Tokens) - 4

(* Bytes are natural numbers, and the byte fallback of encode is a token.   *)
LEMMA TokensAre ==
  /\ Cardinality(Tokens) \in Nat /\ Tokens \subseteq Nat
  /\ \A b \in Byte : b \in Nat /\ b + 3 \in Tokens
<1>1. Cardinality(Tokens) \in Nat
  BY TokensAssumption, FS_CardinalityType
<1> QED BY <1>1, TokensAssumption DEF Byte

(* Where the first code point of a text ends.                               *)
LEMMA CodePointEndIs ==
  ASSUME NEW str, Len(str) \in Nat \ {0}
  PROVE  /\ CodePointEnd(str) \in 1 .. 4 /\ CodePointEnd(str) <= Len(str)
         /\ \/ CodePointEnd(str) = 4 \/ CodePointEnd(str) = Len(str)
            \/ str[CodePointEnd(str) + 1] \notin Continuation
         /\ \A j \in 1 .. CodePointEnd(str) - 1 : str[j + 1] \in Continuation
<1> DEFINE P(k) == /\ k = 4 \/ k = Len(str) \/ str[k + 1] \notin Continuation
                   /\ \A j \in 1 .. k - 1 : j < Len(str) /\ str[j + 1] \in Continuation
<1>1. \E k \in 1 .. 4 : P(k)
  <2> DEFINE more(j) == j < Len(str) /\ str[j + 1] \in Continuation
  <2>1. /\ ~(\E j \in 1 .. 1 - 1 : TRUE)
        /\ \A j \in 1 .. 2 - 1 : j = 1
        /\ \A j \in 1 .. 3 - 1 : j = 1 \/ j = 2
        /\ \A j \in 1 .. 4 - 1 : j = 1 \/ j = 2 \/ j = 3
    OBVIOUS
  <2>2. \A k \in 1 .. 3 : ~more(k) => k = Len(str) \/ k > Len(str) \/ str[k + 1] \notin Continuation
    OBVIOUS
  <2> HIDE DEF more
  <2>3. ASSUME NEW k \in 1 .. 4, k <= Len(str), k = 4 \/ ~more(k),
               \A j \in 1 .. k - 1 : more(j)
        PROVE  P(k)
    <3>1. \A j \in 1 .. k - 1 : j < Len(str) /\ str[j + 1] \in Continuation
      BY <2>3 DEF more
    <3>2. k = 4 \/ k = Len(str) \/ str[k + 1] \notin Continuation
      BY <2>2, <2>3
    <3> QED BY <3>1, <3>2
  <2>4. more(1) => 2 <= Len(str)
    BY DEF more
  <2>5. more(2) => 3 <= Len(str)
    BY DEF more
  <2>6. more(3) => 4 <= Len(str)
    BY DEF more
  <2>7. 1 <= Len(str)
    OBVIOUS
  <2> HIDE DEF P
  <2>8. CASE ~more(1)
    BY <2>1, <2>3, <2>7, <2>8
  <2>9. CASE more(1) /\ ~more(2)
    BY <2>1, <2>3, <2>4, <2>9
  <2>10. CASE more(1) /\ more(2) /\ ~more(3)
    BY <2>1, <2>3, <2>5, <2>10
  <2>11. CASE more(1) /\ more(2) /\ more(3)
    BY <2>1, <2>3, <2>6, <2>11
  <2> QED BY <2>8, <2>9, <2>10, <2>11
<1>2. CodePointEnd(str) = CHOOSE k \in 1 .. 4 : P(k)
  BY DEF CodePointEnd
<1>3. CodePointEnd(str) \in 1 .. 4 /\ P(CodePointEnd(str))
  <2> HIDE DEF P
  <2> QED BY <1>1, <1>2
<1>4. CodePointEnd(str) <= Len(str)
  <2>1. CASE CodePointEnd(str) = 1
    BY <2>1
  <2>2. CASE CodePointEnd(str) # 1
    <3>1. CodePointEnd(str) - 1 \in 1 .. CodePointEnd(str) - 1
      BY <1>3, <2>2
    <3>2. CodePointEnd(str) - 1 < Len(str)
      BY <1>3, <3>1
    <3> QED BY <1>3, <3>2
  <2> QED BY <2>1, <2>2
<1> QED BY <1>3, <1>4

(* The tokens of a code point.                                              *)
LEMMA CodePointTokens ==
  ASSUME NEW str \in Seq(Byte) PROVE CodePoint(str) \in Seq(Tokens)
<1>1. CASE Known(str)
  <2>1. str_lookup(str) \in DOMAIN Vocab
    BY <1>1 DEF Known, str_lookup
  <2>2. str_lookup(str) \in Tokens
    BY <2>1, TokensAssumption
  <2> QED BY <1>1, <2>2 DEF CodePoint
<1>2. CASE ~Known(str)
  <2>1. /\ Len(str) \in Nat /\ DOMAIN str = 1 .. Len(str)
        /\ \A k \in 1 .. Len(str) : str[k] + 3 \in Tokens
    BY TokensAre, ElementOfSeq, LenProperties
  <2>2. [k \in DOMAIN str |-> str[k] + 3] \in [1 .. Len(str) -> Tokens]
    BY <2>1
  <2> QED BY <1>2, <2>1, <2>2, SeqDef DEF CodePoint
<1> QED BY <1>1, <1>2

(* The first loop of encode, as the function its definition solves.         *)
SpellingStep(str, from, k) ==
  LET e == CodePointEnd(SubSeq(str, k, Len(str)))
  IN /\ e \in 1 .. 4 /\ k + e <= Len(str) + 1
     /\ from[k] = CodePoint(SubSeq(str, k, k + e - 1)) \o from[k + e]

Spells(str, from) ==
  /\ from \in [1 .. Len(str) + 1 -> Seq(Tokens)]
  /\ Spelled(str) = from[1] /\ from[Len(str) + 1] = << >>
  /\ \A k \in 1 .. Len(str) : SpellingStep(str, from, k)

(* The recursive function Spelled is built from satisfies its equations.    *)
LEMMA SpelledIs ==
  ASSUME NEW text0 \in Seq(Byte)
  PROVE  \E from : Spells(text0, from)
<1> DEFINE L == Len(text0)
           N == L + 1
           S == Seq(Tokens)
           rest(k) == SubSeq(text0, k, L)
           e(k) == CodePointEnd(rest(k))
           body(k, f) == IF k > L THEN << >>
                         ELSE CodePoint(SubSeq(rest(k), 1, e(k))) \o f[k + e(k)]
           h == [k \in 1 .. N |-> [f \in [1 .. N -> S] |-> body(k, f)]]
<1>1. L \in Nat /\ N \in Nat /\ << >> \in S
  BY LenProperties, EmptySeq
<1>2. ASSUME NEW k \in 1 .. L
      PROVE  /\ e(k) \in 1 .. 4 /\ k + e(k) \in k + 1 .. N
             /\ SubSeq(rest(k), 1, e(k)) = SubSeq(text0, k, k + e(k) - 1)
             /\ SubSeq(rest(k), 1, e(k)) \in Seq(Byte)
             /\ CodePoint(SubSeq(rest(k), 1, e(k))) \in S
  <2>1. rest(k) \in Seq(Byte) /\ Len(rest(k)) = L - k + 1
    <3>1. \A i \in k .. L : text0[i] \in Byte
      BY ElementOfSeq, <1>1
    <3> QED BY <1>1, <3>1, SubSeqProperties
  <2>2. Len(rest(k)) \in Nat \ {0}
    BY <1>1, <2>1
  <2> DEFINE r == rest(k)
  <2> HIDE DEF r
  <2>3. CodePointEnd(r) \in 1 .. 4 /\ CodePointEnd(r) <= Len(r)
    BY <2>2, CodePointEndIs DEF r
  <2>4. e(k) \in 1 .. 4 /\ e(k) <= L - k + 1
    BY <2>1, <2>3 DEF r
  <2> HIDE DEF e
  <2>5. SubSeq(rest(k), 1, e(k)) = SubSeq(text0, k, k + e(k) - 1)
    <3>1. \A i \in 1 .. e(k) : rest(k)[i] \in Byte
      BY <2>1, <2>4, ElementOfSeq
    <3>2. /\ SubSeq(rest(k), 1, e(k)) \in Seq(Byte)
          /\ Len(SubSeq(rest(k), 1, e(k))) = e(k)
          /\ \A i \in 1 .. e(k) : SubSeq(rest(k), 1, e(k))[i] = rest(k)[i]
      BY <2>1, <2>4, <3>1, SubSeqProperties
    <3>3. \A i \in k .. k + e(k) - 1 : text0[i] \in Byte
      BY <1>1, <2>4, ElementOfSeq
    <3>4. /\ SubSeq(text0, k, k + e(k) - 1) \in Seq(Byte)
          /\ Len(SubSeq(text0, k, k + e(k) - 1)) = e(k)
          /\ \A i \in 1 .. e(k) : SubSeq(text0, k, k + e(k) - 1)[i] = text0[k + i - 1]
      BY <2>4, <3>3, SubSeqProperties
    <3>5. \A i \in k .. L : text0[i] \in Byte
      BY ElementOfSeq, <1>1
    <3>6. \A i \in 1 .. L - k + 1 : rest(k)[i] = text0[k + i - 1]
      BY <1>1, <3>5, SubSeqProperties
    <3>7. \A i \in 1 .. e(k) :
            SubSeq(rest(k), 1, e(k))[i] = SubSeq(text0, k, k + e(k) - 1)[i]
      BY <2>4, <3>2, <3>4, <3>6
    <3> QED BY <3>2, <3>4, <3>7, SeqEqual
  <2>6. SubSeq(rest(k), 1, e(k)) \in Seq(Byte)
    <3>1. \A i \in 1 .. e(k) : rest(k)[i] \in Byte
      BY <2>1, <2>4, ElementOfSeq
    <3> QED BY <2>1, <2>4, <3>1, SubSeqProperties
  <2>7. CodePoint(SubSeq(rest(k), 1, e(k))) \in S
    BY <2>6, CodePointTokens
  <2>8. k + e(k) \in k + 1 .. N
    BY <1>1, <2>4
  <2> QED BY <2>4, <2>5, <2>6, <2>7, <2>8
<1> HIDE DEF e, rest
<1>3. ASSUME NEW k \in 1 .. N, NEW f \in [1 .. N -> S] PROVE body(k, f) \in S
  <2>1. CASE k > L
    BY <1>1, <2>1
  <2>2. CASE ~(k > L)
    <3>1. k \in 1 .. L
      BY <1>1, <2>2
    <3>2. f[k + e(k)] \in S
      BY <1>1, <1>2, <3>1
    <3>3. CodePoint(SubSeq(rest(k), 1, e(k))) \in S
      BY <1>2, <3>1
    <3> QED BY <2>2, <3>2, <3>3, ConcatProperties
  <2> QED BY <2>1, <2>2
<1>4. h \in [1 .. N -> [[1 .. N -> S] -> S]]
  <2> HIDE DEF body, N, S
  <2> QED BY <1>3
<1>5. ASSUME NEW k \in 1 .. N, NEW f \in [1 .. N -> S], NEW g \in [1 .. N -> S],
             \A j \in k + 1 .. N : f[j] = g[j]
      PROVE  h[k][f] = h[k][g]
  <2>1. h[k][f] = body(k, f) /\ h[k][g] = body(k, g)
    <3> HIDE DEF body, N, S
    <3> QED OBVIOUS
  <2>2. body(k, f) = body(k, g)
    <3>1. CASE k > L
      BY <3>1
    <3>2. CASE ~(k > L)
      <4>1. k \in 1 .. L
        BY <1>1, <3>2
      <4>2. f[k + e(k)] = g[k + e(k)]
        BY <1>2, <1>5, <4>1
      <4> QED BY <4>2
    <3> QED BY <3>1, <3>2
  <2> QED BY <2>1, <2>2
<1>6. PICK from : Solves(from, N, S, h)
  <2> HIDE DEF h, N, S
  <2> QED BY <1>1, <1>4, <1>5, BackwardRecursion
<1>7. from \in [1 .. N -> S] /\ \A k \in 1 .. N : from[k] = body(k, from)
  <2>1. from \in [1 .. N -> S] /\ \A k \in 1 .. N : from[k] = h[k][from]
    BY <1>6 DEF Solves
  <2> HIDE DEF body, N, S
  <2> QED BY <2>1
<1> DEFINE Rec(f) == [k \in 1 .. N |-> body(k, f)]
           sol == CHOOSE f : f = Rec(f)
<1>8. sol = Rec(sol)
  <2>1. from = Rec(from)
    <3> HIDE DEF body, N, S
    <3> QED BY <1>7
  <2> HIDE DEF Rec
  <2> QED BY <2>1
<1>9. Spelled(text0) = sol[1]
  BY DEF Spelled, rest, e
<1>10. sol \in [1 .. N -> S] /\ \A k \in 1 .. N : sol[k] = body(k, sol)
  <2> HIDE DEF sol, N
  <2>1. /\ DOMAIN sol = 1 .. N /\ \A k \in 1 .. N : sol[k] = body(k, sol)
    <3> HIDE DEF body
    <3> QED BY <1>8
  <2> DEFINE T == {k \in 1 .. N : sol[k] \in S}
  <2>2. ASSUME NEW k \in 1 .. N, \A j \in k + 1 .. N : j \in T PROVE k \in T
    <3>1. CASE k > L
      BY <1>1, <2>1, <3>1
    <3>2. CASE ~(k > L)
      <4>1. k \in 1 .. L
        BY <1>1, <3>2 DEF N
      <4>2. sol[k + e(k)] \in S
        BY <1>2, <2>2, <4>1
      <4>3. CodePoint(SubSeq(rest(k), 1, e(k))) \in S
        BY <1>2, <4>1
      <4> QED BY <2>1, <3>2, <4>2, <4>3, ConcatProperties
    <3> QED BY <3>1, <3>2
  <2>3. \A k \in 1 .. N : k \in T
    <3> HIDE DEF T
    <3> QED BY <1>1, <2>2, BackwardInduction
  <2>4. sol = [k \in 1 .. N |-> sol[k]]
    <3> HIDE DEF body
    <3> QED BY <1>8
  <2> QED BY <2>1, <2>3, <2>4
<1> HIDE DEF sol, Rec, h
<1>11. \A k \in 1 .. L : SpellingStep(text0, sol, k)
  <2> SUFFICES ASSUME NEW k \in 1 .. L PROVE SpellingStep(text0, sol, k)
    OBVIOUS
  <2>1. sol[k] = CodePoint(SubSeq(rest(k), 1, e(k))) \o sol[k + e(k)]
    <3>1. k \in 1 .. N /\ ~(k > L)
      BY <1>1
    <3>2. sol[k] = body(k, sol)
      BY <1>10, <3>1
    <3> HIDE DEF L
    <3> QED BY <3>1, <3>2, Zenon
  <2>2. /\ e(k) \in 1 .. 4 /\ k + e(k) <= L + 1
        /\ SubSeq(rest(k), 1, e(k)) = SubSeq(text0, k, k + e(k) - 1)
    BY <1>1, <1>2
  <2> QED BY <2>1, <2>2 DEF SpellingStep, e, rest
<1>12. sol[L + 1] = << >>
  <2>1. L + 1 \in 1 .. N /\ L + 1 > L
    BY <1>1
  <2>2. sol[L + 1] = body(L + 1, sol)
    BY <1>10, <2>1
  <2> HIDE DEF L
  <2> QED BY <2>1, <2>2, Zenon
<1> QED BY <1>9, <1>10, <1>11, <1>12 DEF Spells
-----------------------------------------------------------------------------
(* The running concatenations of a sequence of sequences.                   *)
Flattens(seqs, S, flat) ==
  /\ flat \in [0 .. Len(seqs) -> Seq(S)]
  /\ flat[0] = << >>
  /\ \A i \in 1 .. Len(seqs) : flat[i] = flat[i - 1] \o seqs[i]
  /\ FlattenSeq(seqs) = flat[Len(seqs)]

(* The fold FlattenSeq is built from satisfies its equations.               *)
LEMMA FlattenIs ==
  ASSUME NEW S, NEW seqs \in Seq(Seq(S))
  PROVE  /\ \E flat : Flattens(seqs, S, flat)
         /\ FlattenSeq(seqs) \in Seq(S)
<1> DEFINE N == Len(seqs)
           Q == Seq(S)
           h == [i \in 1 .. N |-> [s \in Q |-> s \o seqs[i]]]
<1>1. N \in Nat /\ << >> \in Q /\ \A i \in 1 .. N : seqs[i] \in Q
  BY LenProperties, EmptySeq, ElementOfSeq
<1>2. h \in [1 .. N -> [Q -> Q]]
  <2> SUFFICES ASSUME NEW i \in 1 .. N, NEW s \in Q PROVE s \o seqs[i] \in Q
    BY Zenon
  <2> QED BY <1>1, ConcatProperties
<1>3. PICK g : Iterates(g, N, Q, << >>, h)
  <2> HIDE DEF h, N, Q
  <2> QED BY <1>1, <1>2, Iterated
<1>4. /\ g \in [0 .. N -> Q] /\ g[0] = << >>
      /\ \A i \in 1 .. N : g[i] = g[i - 1] \o seqs[i]
  <2>1. /\ g \in [0 .. N -> Q] /\ g[0] = << >>
        /\ \A i \in 1 .. N : g[i] = h[i][g[i - 1]]
    BY <1>3 DEF Iterates
  <2> SUFFICES ASSUME NEW i \in 1 .. N PROVE g[i] = g[i - 1] \o seqs[i]
    BY <2>1
  <2>2. i - 1 \in 0 .. N
    BY <1>1
  <2>3. g[i - 1] \in Q
    BY <2>1, <2>2
  <2> HIDE DEF Q, N
  <2>4. h[i][g[i - 1]] = g[i - 1] \o seqs[i]
    BY <2>3
  <2> HIDE DEF h
  <2> QED BY <2>1, <2>4
<1> DEFINE Rec(f) == [i \in 1 .. N |->
                        IF i = 1 THEN seqs[i] ELSE f[i - 1] \o seqs[i]]
           sol == CHOOSE f : f = Rec(f)
           r == [i \in 1 .. N |-> g[i]]
<1>5. r = Rec(r)
  <2> SUFFICES ASSUME NEW i \in 1 .. N
               PROVE  g[i] = IF i = 1 THEN seqs[i] ELSE r[i - 1] \o seqs[i]
    BY Zenon
  <2> HIDE DEF Q
  <2>1. CASE i = 1
    <3>1. i - 1 = 0
      BY <2>1
    <3>2. g[i] = << >> \o seqs[i]
      BY <1>4, <3>1
    <3>3. << >> \o seqs[i] = seqs[i]
      BY <1>1, ConcatEmptySeq DEF Q
    <3> QED BY <2>1, <3>2, <3>3
  <2>2. CASE i # 1
    <3>1. i - 1 \in 1 .. N
      BY <1>1, <2>2
    <3>2. r[i - 1] = g[i - 1]
      BY <3>1
    <3> HIDE DEF r
    <3> QED BY <1>4, <2>2, <3>2
  <2> QED BY <2>1, <2>2
<1>6. sol = Rec(sol)
  <2> HIDE DEF Rec, r
  <2> QED BY <1>5
<1>7. CASE N = 0
  <2>1. FlattenSeq(seqs) = seqs
    BY <1>7, Zenon DEF FlattenSeq
  <2>2. seqs = << >>
    BY <1>7, EmptySeq
  <2>3. FlattenSeq(seqs) = g[N]
    BY <1>4, <1>7, <2>1, <2>2
  <2>4. N \in 0 .. N
    BY <1>1
  <2> QED BY <1>4, <2>3, <2>4 DEF Flattens
<1>8. CASE N # 0
  <2>1. FlattenSeq(seqs) = sol[N]
    BY <1>8, Zenon DEF FlattenSeq
  <2> HIDE DEF sol
  <2>2. \A i \in 1 .. N : sol[i] = IF i = 1 THEN seqs[i] ELSE sol[i - 1] \o seqs[i]
    <3> HIDE DEF N
    <3>1. sol = [i \in 1 .. N |-> IF i = 1 THEN seqs[i] ELSE sol[i - 1] \o seqs[i]]
      BY <1>6, Zenon
    <3> QED BY <3>1
  <2> DEFINE T == {i \in 0 .. N : i # 0 => sol[i] = g[i]}
  <2>3. 0 \in T
    BY <1>1
  <2>4. ASSUME NEW i \in 0 .. N - 1, i \in T PROVE i + 1 \in T
    <3>1. i + 1 \in 1 .. N /\ (i + 1) - 1 = i
      BY <1>1
    <3>2. g[i + 1] = g[i] \o seqs[i + 1]
      BY <1>4, <3>1
    <3>3. CASE i = 0
      <4>1. sol[1] = seqs[1] /\ seqs[1] \in Q
        BY <1>1, <2>2, <3>1, <3>3
      <4> HIDE DEF Q
      <4>2. << >> \o seqs[1] = seqs[1]
        BY <4>1, ConcatEmptySeq DEF Q
      <4>3. g[1] = << >> \o seqs[1]
        <5>1. i + 1 = 1
          BY <3>3
        <5> QED BY <1>4, <3>2, <3>3, <5>1, Zenon
      <4> QED BY <3>1, <3>3, <4>1, <4>2, <4>3
    <3>4. CASE i # 0
      <4>1. i + 1 # 1
        BY <3>4
      <4>2. sol[i + 1] = sol[i] \o seqs[i + 1]
        BY <2>2, <3>1, <4>1
      <4>3. sol[i] = g[i]
        BY <2>4, <3>4
      <4>4. sol[i + 1] = g[i + 1]
        BY <3>2, <4>2, <4>3, Zenon
      <4> QED BY <3>1, <4>4
    <3> QED BY <3>3, <3>4
  <2>5. \A i \in 0 .. N : i \in T
    <3> HIDE DEF T
    <3> QED BY <1>1, <2>3, <2>4, UpToInduction
  <2>6. N \in 0 .. N /\ sol[N] = g[N]
    BY <1>1, <1>8, <2>5
  <2> QED BY <1>4, <2>1, <2>6 DEF Flattens
<1> QED BY <1>7, <1>8

(* Concatenation, by a name the provers leave alone.                        *)
Cat(s, t) == s \o t

(* Length and elements of a concatenation.                                  *)
LEMMA CatIs ==
  ASSUME NEW S, NEW s \in Seq(S), NEW t \in Seq(S)
  PROVE  /\ Cat(s, t) \in Seq(S) /\ Len(Cat(s, t)) = Len(s) + Len(t)
         /\ \A i \in 1 .. Len(s) : Cat(s, t)[i] = s[i]
         /\ \A i \in 1 .. Len(t) : Cat(s, t)[Len(s) + i] = t[i]
<1>1. Cat(s, t) \in Seq(S) /\ Len(Cat(s, t)) = Len(s) + Len(t)
  BY DEF Cat
<1>2. \A i \in 1 .. Len(s) : Cat(s, t)[i] = s[i]
  BY DEF Cat
<1>3. \A i \in 1 .. Len(t) : Cat(s, t)[Len(s) + i] = t[i]
  BY DEF Cat
<1> QED BY <1>1, <1>2, <1>3

(* Concatenation is associative.                                            *)
LEMMA CatAssociative ==
  ASSUME NEW S, NEW s \in Seq(S), NEW t \in Seq(S), NEW u \in Seq(S)
  PROVE  Cat(Cat(s, t), u) = Cat(s, Cat(t, u))
BY SMT DEF Cat

(* The empty sequence is neutral.                                           *)
LEMMA CatEmpty ==
  ASSUME NEW S, NEW s \in Seq(S)
  PROVE  Cat(s, << >>) = s /\ Cat(<< >>, s) = s
BY ConcatEmptySeq DEF Cat

(* The concatenation of two lists of sequences.                             *)
LEMMA FlattenConcat ==
  ASSUME NEW S, NEW a \in Seq(Seq(S)), NEW b \in Seq(Seq(S))
  PROVE  FlattenSeq(a \o b) = FlattenSeq(a) \o FlattenSeq(b)
<1> DEFINE Q == Seq(S)
           A == Len(a)
           B == Len(b)
           c == a \o b
<1>1. /\ A \in Nat /\ B \in Nat /\ c \in Seq(Q) /\ Len(c) = A + B
      /\ \A i \in 1 .. A : c[i] = a[i] /\ a[i] \in Q
      /\ \A i \in 1 .. B : c[A + i] = b[i] /\ b[i] \in Q
  <2>1. A \in Nat /\ B \in Nat /\ c \in Seq(Q) /\ Len(c) = A + B
    BY LenProperties, ConcatProperties
  <2>2. \A i \in 1 .. A + B : c[i] = IF i <= A THEN a[i] ELSE b[i - A]
    BY ConcatProperties
  <2>3. \A i \in 1 .. A : i \in 1 .. A + B /\ i <= A
    BY <2>1
  <2>4. \A i \in 1 .. B : A + i \in 1 .. A + B /\ ~(A + i <= A) /\ (A + i) - A = i
    BY <2>1
  <2> HIDE DEF c, A, B
  <2> QED BY <2>1, <2>2, <2>3, <2>4, ElementOfSeq DEF A, B
<1> HIDE DEF c
<1>2. PICK f : Flattens(a, S, f)
  BY FlattenIs
<1>3. PICK g : Flattens(b, S, g)
  BY FlattenIs
<1>4. PICK k : Flattens(c, S, k)
  BY <1>1, FlattenIs
<1> DEFINE T == {i \in 0 .. A : k[i] = f[i]}
<1>5. 0 \in T
  BY <1>1, <1>2, <1>4 DEF Flattens
<1>6. ASSUME NEW i \in 0 .. A - 1, i \in T PROVE i + 1 \in T
  <2>1. i + 1 \in 1 .. A /\ i + 1 \in 1 .. Len(c) /\ (i + 1) - 1 = i
    BY <1>1
  <2>2. f[i + 1] = f[i] \o a[i + 1]
    BY <1>2, <2>1 DEF Flattens
  <2>3. k[i + 1] = k[i] \o c[i + 1]
    BY <1>4, <2>1 DEF Flattens
  <2>4. k[i] = f[i] /\ c[i + 1] = a[i + 1]
    BY <1>1, <1>6, <2>1
  <2>5. k[i + 1] = f[i + 1]
    BY <2>2, <2>3, <2>4, Zenon
  <2> QED BY <2>1, <2>5
<1>7. \A i \in 0 .. A : i \in T
  <2> HIDE DEF T, A
  <2> QED BY <1>1, <1>5, <1>6, UpToInduction
<1>8. k[A] = f[A] /\ f[A] \in Q
  <2>1. A \in 0 .. A
    BY <1>1
  <2> QED BY <1>2, <1>7, <2>1 DEF Flattens
<1> DEFINE U == {i \in 0 .. B : k[A + i] = f[A] \o g[i]}
<1>9. 0 \in U
  <2>1. A + 0 = A /\ g[0] = << >> /\ 0 \in 0 .. B
    BY <1>1, <1>3 DEF Flattens
  <2>2. f[A] \o << >> = f[A]
    BY <1>8, ConcatEmptySeq
  <2> QED BY <1>8, <2>1, <2>2
<1>10. ASSUME NEW i \in 0 .. B - 1, i \in U PROVE i + 1 \in U
  <2>1. /\ i + 1 \in 1 .. B /\ i + 1 \in 0 .. B /\ (i + 1) - 1 = i /\ i \in 0 .. B
        /\ A + (i + 1) \in 1 .. Len(c) /\ (A + (i + 1)) - 1 = A + i
    BY <1>1
  <2>2. g[i + 1] = g[i] \o b[i + 1] /\ g[i] \in Q
    BY <1>3, <2>1 DEF Flattens
  <2>3. k[A + (i + 1)] = k[A + i] \o c[A + (i + 1)]
    BY <1>4, <2>1 DEF Flattens
  <2>4. (f[A] \o g[i]) \o b[i + 1] = f[A] \o (g[i] \o b[i + 1])
    <3>1. f[A] \in Seq(S) /\ g[i] \in Seq(S) /\ b[i + 1] \in Seq(S)
      BY <1>1, <1>8, <2>1, <2>2
    <3> HIDE DEF A, B, Q
    <3>2. Cat(Cat(f[A], g[i]), b[i + 1]) = Cat(f[A], Cat(g[i], b[i + 1]))
      BY <3>1, CatAssociative
    <3> QED BY <3>2, Zenon DEF Cat
  <2>5. k[A + (i + 1)] = f[A] \o g[i + 1]
    <3>1. k[A + i] = f[A] \o g[i] /\ c[A + (i + 1)] = b[i + 1]
      BY <1>1, <1>10, <2>1
    <3> QED BY <2>2, <2>3, <2>4, <3>1, Zenon
  <2> QED BY <2>1, <2>5
<1>11. \A i \in 0 .. B : i \in U
  <2> HIDE DEF U, B
  <2> QED BY <1>1, <1>9, <1>10, UpToInduction
<1>12. k[A + B] = f[A] \o g[B]
  <2>1. B \in 0 .. B
    BY <1>1
  <2> QED BY <1>11, <2>1
<1> QED BY <1>1, <1>2, <1>3, <1>4, <1>12 DEF Flattens, c

(* Flattening a list of one sequence, or of none.                           *)
LEMMA FlattenOne ==
  ASSUME NEW S, NEW s \in Seq(S)
  PROVE  FlattenSeq(<<s>>) = s /\ FlattenSeq(<< >>) = << >>
<1>1. FlattenSeq(<< >>) = << >>
  <2>1. Len(<< >>) = 0
    OBVIOUS
  <2> QED BY <2>1, Zenon DEF FlattenSeq
<1>2. <<s>> \in Seq(Seq(S)) /\ Len(<<s>>) = 1 /\ <<s>>[1] = s
  OBVIOUS
<1> DEFINE q == <<s>>
<1> HIDE DEF q
<1>3. PICK f : Flattens(q, S, f)
  BY <1>2, FlattenIs DEF q
<1>4. f[1] = f[0] \o q[1] /\ f[0] = << >> /\ FlattenSeq(q) = f[1]
  <2>1. 1 \in 1 .. Len(q) /\ 1 - 1 = 0
    BY <1>2 DEF q
  <2> QED BY <1>2, <1>3, <2>1 DEF Flattens, q
<1>5. << >> \o s = s
  BY ConcatEmptySeq
<1> QED BY <1>1, <1>2, <1>4, <1>5 DEF q
-----------------------------------------------------------------------------
(* Of finitely many scored numbers one is the first of the best.            *)
LEMMA FirstBest ==
  ASSUME NEW N \in Nat, NEW I \in SUBSET (0 .. N), I # {},
         NEW sc, \A i \in I : sc[i] \in Int
  PROVE  \E i \in I : \A j \in I : sc[j] < sc[i] \/ (sc[j] = sc[i] /\ i <= j)
<1> DEFINE Best(i, M) == /\ i \in I /\ i <= M
                         /\ \A j \in I : j <= M =>
                              sc[j] < sc[i] \/ (sc[j] = sc[i] /\ i <= j)
           T == {M \in 0 .. N : (\E i \in I : i <= M) => \E i \in I : Best(i, M)}
<1>1. 0 \in T
  <2>1. ASSUME NEW i \in I, i <= 0 PROVE Best(i, 0)
    <3>1. i = 0 /\ \A j \in I : j <= 0 => j = 0
      BY <2>1
    <3> QED BY <3>1
  <2> QED BY <2>1
<1>2. ASSUME NEW M \in 0 .. N - 1, M \in T PROVE M + 1 \in T
  <2>0. \A j \in I : j \in Int /\ (j <= M + 1 <=> j <= M \/ j = M + 1)
    OBVIOUS
  <2>1. CASE M + 1 \notin I
    <3>1. \A j \in I : j <= M + 1 <=> j <= M
      BY <2>0, <2>1
    <3>2. \A i \in I : Best(i, M) => Best(i, M + 1)
      BY <3>1
    <3> HIDE DEF Best
    <3> QED BY <1>2, <3>1, <3>2
  <2>2. CASE M + 1 \in I /\ ~(\E i \in I : i <= M)
    <3>1. Best(M + 1, M + 1)
      BY <2>0, <2>2
    <3> HIDE DEF Best
    <3> QED BY <2>2, <3>1
  <2>3. CASE M + 1 \in I /\ \E i \in I : i <= M
    <3>1. PICK i \in I : Best(i, M)
      <4> HIDE DEF Best
      <4> QED BY <1>2, <2>3
    <3>2. CASE sc[M + 1] <= sc[i]
      <4>1. Best(i, M + 1)
        BY <2>0, <2>3, <3>1, <3>2
      <4> HIDE DEF Best
      <4> QED BY <4>1
    <3>3. CASE sc[M + 1] > sc[i]
      <4>1. Best(M + 1, M + 1)
        BY <2>0, <2>3, <3>1, <3>3
      <4> HIDE DEF Best
      <4> QED BY <2>3, <4>1
    <3> QED BY <2>3, <3>2, <3>3
  <2> QED BY <2>1, <2>2, <2>3
<1>3. \A M \in 0 .. N : M \in T
  <2> HIDE DEF T
  <2> QED BY <1>1, <1>2, UpToInduction
<1>4. PICK i \in I : Best(i, N)
  <2>1. N \in T
    <3> HIDE DEF T
    <3> QED BY <1>3
  <2>2. \E i \in I : i <= N
    <3>1. PICK i \in I : TRUE
      OBVIOUS
    <3>2. i \in 0 .. N
      OBVIOUS
    <3> QED BY <3>2
  <2> HIDE DEF Best
  <2> QED BY <2>1, <2>2
<1> QED BY <1>4

Ids == DOMAIN Vocab

(* str_lookup finds the token that spells str (run_fa.c).                   *)
LEMMA LookupIs ==
  ASSUME NEW str, Known(str)
  PROVE  str_lookup(str) \in Ids /\ Vocab[str_lookup(str)] = str
BY DEF Known, str_lookup, Ids

(* A round of the merge loop replaces two or three tokens by one, whose     *)
(* string is theirs.                                                        *)
IsMerge(toksOld, toksNew) ==
  \E size \in 2 .. 3 : \E i \in 1 .. Len(toksOld) - size + 1 : \E m \in Ids :
    /\ Vocab[m] = Join(SubSeq(toksOld, i, i + size - 1))
    /\ toksNew = Cat(Cat(SubSeq(toksOld, 1, i - 1), <<m>>),
                     SubSeq(toksOld, i + size, Len(toksOld)))

(* What a round of the merge loop of encode does to the tokens.             *)
LEMMA MergeIs ==
  ASSUME NEW s, Len(s) \in Nat, CanMerge(s)
  PROVE  IsMerge(s, MergeBest(s))
<1> DEFINE size == IF Mergeable(s, 2) # {} THEN 2 ELSE 3
           I == Mergeable(s, size)
           sc == [i \in I |-> Score[Merged(s, i, size)]]
<1>1. size \in 2 .. 3 /\ I # {}
  BY DEF CanMerge
<1>2. \A i \in I : /\ i \in 1 .. Len(s) - size + 1
                   /\ Known(Join(SubSeq(s, i, i + size - 1)))
  BY DEF Mergeable
<1>3. MergeBest(s) = MergeAt(s, BestOf(s, size), size)
  BY Zenon DEF MergeBest
<1> HIDE DEF size
<1>4. \A i \in I : /\ Merged(s, i, size) \in Ids
                   /\ Vocab[Merged(s, i, size)] = Join(SubSeq(s, i, i + size - 1))
  BY <1>2, LookupIs DEF Merged
<1>5. \A i \in I : sc[i] = Score[Merged(s, i, size)] /\ sc[i] \in Int
  BY <1>4, TokenizerAssumption DEF Ids
<1>6. PICK i \in I : \A j \in I : sc[j] < sc[i] \/ (sc[j] = sc[i] /\ i <= j)
  <2>1. I \in SUBSET (0 .. Len(s))
    BY <1>1, <1>2
  <2> HIDE DEF sc, I
  <2> QED BY <1>1, <1>5, <2>1, FirstBest
<1>7. BestOf(s, size) \in I
  <2>1. \A j \in I : \/ Score[Merged(s, j, size)] < Score[Merged(s, i, size)]
                     \/ /\ Score[Merged(s, j, size)] = Score[Merged(s, i, size)]
                        /\ i <= j
    <3> HIDE DEF sc, I
    <3> QED BY <1>5, <1>6
  <2> QED BY <2>1 DEF BestOf
<1> DEFINE b == BestOf(s, size)
<1>8. MergeAt(s, b, size) =
        Cat(Cat(SubSeq(s, 1, b - 1), <<Merged(s, b, size)>>),
            SubSeq(s, b + size, Len(s)))
  BY Zenon DEF MergeAt, Cat
<1> HIDE DEF b, I
<1>9. b \in I /\ MergeBest(s) = MergeAt(s, b, size)
  BY <1>3, <1>7 DEF b
<1> QED BY <1>1, <1>2, <1>4, <1>8, <1>9 DEF IsMerge

(* A merged token is one of the vocabulary.                                 *)
LEMMA MergeTyped ==
  ASSUME NEW S, NEW s \in Seq(S), Ids \subseteq S, NEW t, IsMerge(s, t)
  PROVE  t \in Seq(S)
<1>0. PICK size \in 2 .. 3 : \E i \in 1 .. Len(s) - size + 1 : \E m \in Ids :
        t = Cat(Cat(SubSeq(s, 1, i - 1), <<m>>), SubSeq(s, i + size, Len(s)))
  BY DEF IsMerge
<1>1. PICK i \in 1 .. Len(s) - size + 1, m \in Ids :
        t = Cat(Cat(SubSeq(s, 1, i - 1), <<m>>), SubSeq(s, i + size, Len(s)))
  BY <1>0
<1>2. Len(s) \in Nat /\ \A k \in 1 .. Len(s) : s[k] \in S
  BY LenProperties, ElementOfSeq
<1>3. SubSeq(s, 1, i - 1) \in Seq(S)
  <2>1. \A k \in 1 .. i - 1 : s[k] \in S
    BY <1>2
  <2> QED BY <2>1, SubSeqProperties
<1>4. SubSeq(s, i + size, Len(s)) \in Seq(S)
  <2>1. \A k \in i + size .. Len(s) : s[k] \in S
    BY <1>2
  <2> QED BY <1>2, <2>1, SubSeqProperties
<1>5. <<m>> \in Seq(S)
  BY <1>1
<1> QED BY <1>1, <1>3, <1>4, <1>5, CatIs
-----------------------------------------------------------------------------
(* ---- decode ---- *)

(* decode, as the function its definition solves.                           *)
Blank(piece, k) ==
  IF k < Len(piece) /\ piece[k + 1] = BLANK[2] THEN SPACE ELSE NEWLINE

Decodes(piece, from) ==
  /\ from \in [1 .. Len(piece) + 2 -> Seq(Nat)]
  /\ Decoded(piece) = from[1]
  /\ from[Len(piece) + 1] = << >> /\ from[Len(piece) + 2] = << >>
  /\ \A k \in 1 .. Len(piece) :
       from[k] = IF piece[k] # BLANK[1] THEN Cat(<<piece[k]>>, from[k + 1])
                 ELSE Cat(<<Blank(piece, k)>>, from[k + 2])

(* The recursive function Decoded is built from satisfies its equations.    *)
LEMMA DecodedIs ==
  ASSUME NEW piece \in Seq(Nat)
  PROVE  /\ \E from : Decodes(piece, from)
         /\ Decoded(piece) \in Seq(Nat)
<1> DEFINE L == Len(piece)
           N == L + 2
           S == Seq(Nat)
           body(k, f) == IF k > L THEN << >>
                         ELSE IF piece[k] # BLANK[1] THEN Cat(<<piece[k]>>, f[k + 1])
                         ELSE Cat(<<Blank(piece, k)>>, f[k + 2])
           h == [k \in 1 .. N |-> [f \in [1 .. N -> S] |-> body(k, f)]]
<1>1. L \in Nat /\ N \in Nat /\ << >> \in S
  BY LenProperties, EmptySeq
<1>2. ASSUME NEW k \in 1 .. L
      PROVE  /\ k + 1 \in k + 1 .. N /\ k + 2 \in k + 1 .. N
             /\ k + 1 \in 1 .. N /\ k + 2 \in 1 .. N
             /\ <<piece[k]>> \in S /\ <<Blank(piece, k)>> \in S
  <2>1. piece[k] \in Nat
    BY ElementOfSeq
  <2>2. Blank(piece, k) \in Nat
    BY TokenizerAssumption DEF Blank
  <2> QED BY <1>1, <2>1, <2>2
<1>3. ASSUME NEW k \in 1 .. N, NEW f \in [1 .. N -> S] PROVE body(k, f) \in S
  <2>1. CASE k > L
    BY <1>1, <2>1
  <2>2. CASE ~(k > L)
    <3>1. k \in 1 .. L
      BY <1>1, <2>2
    <3>2. f[k + 1] \in S /\ f[k + 2] \in S
      BY <1>2, <3>1
    <3>3. Cat(<<piece[k]>>, f[k + 1]) \in S
      BY <1>2, <3>1, <3>2, CatIs
    <3>4. Cat(<<Blank(piece, k)>>, f[k + 2]) \in S
      BY <1>2, <3>1, <3>2, CatIs
    <3> QED BY <2>2, <3>3, <3>4
  <2> QED BY <2>1, <2>2
<1>4. h \in [1 .. N -> [[1 .. N -> S] -> S]]
  <2> HIDE DEF body, N, S
  <2> QED BY <1>3
<1>5. ASSUME NEW k \in 1 .. N, NEW f \in [1 .. N -> S], NEW g \in [1 .. N -> S],
             \A j \in k + 1 .. N : f[j] = g[j]
      PROVE  h[k][f] = h[k][g]
  <2>1. h[k][f] = body(k, f) /\ h[k][g] = body(k, g)
    <3> HIDE DEF body, N, S
    <3> QED OBVIOUS
  <2>2. body(k, f) = body(k, g)
    <3>1. CASE k > L
      BY <3>1
    <3>2. CASE ~(k > L)
      <4>1. k \in 1 .. L
        BY <1>1, <3>2
      <4>2. f[k + 1] = g[k + 1] /\ f[k + 2] = g[k + 2]
        BY <1>2, <1>5, <4>1
      <4> QED BY <4>2, Zenon
    <3> QED BY <3>1, <3>2
  <2> QED BY <2>1, <2>2
<1>6. PICK g : Solves(g, N, S, h)
  <2> HIDE DEF h, N, S
  <2> QED BY <1>1, <1>4, <1>5, BackwardRecursion
<1>7. g \in [1 .. N -> S] /\ \A k \in 1 .. N : g[k] = body(k, g)
  <2>1. g \in [1 .. N -> S] /\ \A k \in 1 .. N : g[k] = h[k][g]
    BY <1>6 DEF Solves
  <2> HIDE DEF body, N, S
  <2> QED BY <2>1
<1> DEFINE Rec(f) == [k \in 1 .. N |-> body(k, f)]
           sol == CHOOSE f : f = Rec(f)
<1>8. sol = Rec(sol)
  <2>1. g = Rec(g)
    <3> HIDE DEF body, N, S
    <3> QED BY <1>7
  <2> HIDE DEF Rec
  <2> QED BY <2>1
<1>9. Decoded(piece) = sol[1]
  BY Zenon DEF Decoded, Cat, Blank
<1>10. sol \in [1 .. N -> S] /\ \A k \in 1 .. N : sol[k] = body(k, sol)
  <2> HIDE DEF sol, N
  <2>1. /\ DOMAIN sol = 1 .. N /\ \A k \in 1 .. N : sol[k] = body(k, sol)
    <3> HIDE DEF body
    <3> QED BY <1>8
  <2> DEFINE T == {k \in 1 .. N : sol[k] \in S}
  <2>2. ASSUME NEW k \in 1 .. N, \A j \in k + 1 .. N : j \in T PROVE k \in T
    <3>1. CASE k > L
      BY <1>1, <2>1, <3>1
    <3>2. CASE ~(k > L)
      <4>1. k \in 1 .. L
        BY <1>1, <3>2 DEF N
      <4>2. sol[k + 1] \in S /\ sol[k + 2] \in S
        BY <1>2, <2>2, <4>1
      <4>3. Cat(<<piece[k]>>, sol[k + 1]) \in S
        BY <1>2, <4>1, <4>2, CatIs
      <4>4. Cat(<<Blank(piece, k)>>, sol[k + 2]) \in S
        BY <1>2, <4>1, <4>2, CatIs
      <4> QED BY <2>1, <3>2, <4>3, <4>4
    <3> QED BY <3>1, <3>2
  <2>3. \A k \in 1 .. N : k \in T
    <3> HIDE DEF T
    <3> QED BY <1>1, <2>2, BackwardInduction
  <2>4. sol = [k \in 1 .. N |-> sol[k]]
    <3> HIDE DEF body
    <3> QED BY <1>8
  <2> QED BY <2>1, <2>3, <2>4
<1> HIDE DEF sol, Rec, h
<1>11. sol[L + 1] = << >> /\ sol[L + 2] = << >> /\ sol[1] \in S
  <2>1. /\ L + 1 \in 1 .. N /\ L + 1 > L /\ L + 2 \in 1 .. N /\ L + 2 > L
        /\ 1 \in 1 .. N
    BY <1>1
  <2>2. sol[L + 1] = body(L + 1, sol) /\ sol[L + 2] = body(L + 2, sol)
    BY <1>10, <2>1
  <2>3. sol[1] \in S
    <3> HIDE DEF N, S
    <3> QED BY <1>10, <2>1
  <2> HIDE DEF L
  <2> QED BY <2>1, <2>2, <2>3, Zenon
<1>12. ASSUME NEW k \in 1 .. L
       PROVE  sol[k] = IF piece[k] # BLANK[1] THEN Cat(<<piece[k]>>, sol[k + 1])
                       ELSE Cat(<<Blank(piece, k)>>, sol[k + 2])
  <2>1. k \in 1 .. N /\ ~(k > L)
    BY <1>1
  <2>2. sol[k] = body(k, sol)
    BY <1>10, <2>1
  <2> HIDE DEF L
  <2> QED BY <2>1, <2>2, Zenon
<1> QED BY <1>9, <1>10, <1>11, <1>12 DEF Decodes

(* No code point of a string is cut at its end where decode would look on.  *)
EndsWell(str) == str = << >> \/ str[Len(str)] # BLANK[1]

(* A text that ends well followed by another ends well.                     *)
LEMMA CatEndsWell ==
  ASSUME NEW S, NEW u \in Seq(S), NEW v \in Seq(S), EndsWell(u), EndsWell(v)
  PROVE  EndsWell(Cat(u, v))
<1>1. CASE v = << >>
  BY <1>1, CatEmpty
<1>2. CASE v # << >>
  <2>1. Len(v) \in Nat \ {0} /\ Len(u) \in Nat
    BY <1>2, LenProperties, EmptySeq
  <2>2. Len(v) \in 1 .. Len(v) /\ Len(Cat(u, v)) = Len(u) + Len(v)
    BY <2>1, CatIs
  <2>3. Cat(u, v)[Len(u) + Len(v)] = v[Len(v)]
    BY <2>2, CatIs
  <2> QED BY <1>2, <2>2, <2>3 DEF EndsWell
<1> QED BY <1>1, <1>2

(* decode takes two strings one after the other.                            *)
LEMMA DecodedCat ==
  ASSUME NEW u \in Seq(Nat), NEW v \in Seq(Nat), EndsWell(u)
  PROVE  Decoded(Cat(u, v)) = Cat(Decoded(u), Decoded(v))
<1> DEFINE c == Cat(u, v)
           U == Len(u)
           V == Len(v)
<1>1. /\ U \in Nat /\ V \in Nat /\ c \in Seq(Nat) /\ Len(c) = U + V
      /\ \A k \in 1 .. U : c[k] = u[k] /\ u[k] \in Nat
      /\ \A k \in 1 .. V : c[U + k] = v[k]
  <2>1. U \in Nat /\ V \in Nat
    BY LenProperties
  <2>2. \A k \in 1 .. U : u[k] \in Nat
    BY ElementOfSeq
  <2> HIDE DEF c
  <2>3. c = Cat(u, v)
    BY Zenon DEF c
  <2>4. c \in Seq(Nat) /\ Len(c) = Len(u) + Len(v)
    BY <2>3, CatIs
  <2>5. \A k \in 1 .. Len(u) : c[k] = u[k]
    BY <2>3, CatIs
  <2>6. ASSUME NEW k \in 1 .. Len(v) PROVE c[Len(u) + k] = v[k]
    <3>1. Cat(u, v)[Len(u) + k] = v[k]
      BY CatIs
    <3> QED BY <2>3, <3>1, Zenon
  <2> QED BY <2>1, <2>2, <2>4, <2>5, <2>6
<1> HIDE DEF c
<1>2. PICK fu : Decodes(u, fu)
  BY DecodedIs
<1>3. PICK fv : Decodes(v, fv)
  BY DecodedIs
<1>4. PICK fc : Decodes(c, fc)
  BY <1>1, DecodedIs
<1> DEFINE T == {k \in 1 .. V + 2 : fc[U + k] = fv[k]}
<1>5. ASSUME NEW k \in 1 .. V + 2, \A j \in k + 1 .. V + 2 : j \in T PROVE k \in T
  <2>1. CASE k > V
    <3>1. \/ U + k = Len(c) + 1 /\ k = V + 1
          \/ U + k = Len(c) + 2 /\ k = V + 2
      <4> HIDE DEF U, V
      <4> QED BY <1>1, <2>1
    <3> QED BY <1>3, <1>4, <3>1 DEF Decodes
  <2>2. CASE ~(k > V)
    <3>1. /\ k \in 1 .. V /\ U + k \in 1 .. Len(c) /\ c[U + k] = v[k]
          /\ k + 1 \in k + 1 .. V + 2 /\ k + 2 \in k + 1 .. V + 2
          /\ (U + k) + 1 = U + (k + 1) /\ (U + k) + 2 = U + (k + 2)
          /\ (U + k < Len(c) <=> k < V)
      <4> HIDE DEF U, V
      <4>1. k \in 1 .. V /\ U + k \in 1 .. Len(c)
        BY <1>1, <2>2
      <4>2. k + 1 \in k + 1 .. V + 2 /\ k + 2 \in k + 1 .. V + 2
        BY <1>1, <2>2
      <4>3. (U + k) + 1 = U + (k + 1) /\ (U + k) + 2 = U + (k + 2)
        BY <1>1
      <4>4. U + k < Len(c) <=> k < V
        BY <1>1
      <4> QED BY <1>1, <4>1, <4>2, <4>3, <4>4
    <3>2. fc[(U + k) + 1] = fv[k + 1] /\ fc[(U + k) + 2] = fv[k + 2]
      <4> HIDE DEF U, V
      <4>1. fc[U + (k + 1)] = fv[k + 1] /\ fc[U + (k + 2)] = fv[k + 2]
        BY <1>5, <3>1
      <4> QED BY <3>1, <4>1
    <3>3. Blank(c, U + k) = Blank(v, k)
      <4>1. k < V => c[(U + k) + 1] = v[k + 1]
        <5> HIDE DEF U, V
        <5>1. k < V => k + 1 \in 1 .. V
          BY <1>1, <3>1
        <5>2. k < V => c[U + (k + 1)] = v[k + 1]
          BY <1>1, <5>1
        <5> QED BY <3>1, <5>2
      <4> QED BY <3>1, <4>1 DEF Blank
    <3>4. fc[U + k] = IF c[U + k] # BLANK[1] THEN Cat(<<c[U + k]>>, fc[(U + k) + 1])
                      ELSE Cat(<<Blank(c, U + k)>>, fc[(U + k) + 2])
      BY <1>4, <3>1 DEF Decodes
    <3>5. fv[k] = IF v[k] # BLANK[1] THEN Cat(<<v[k]>>, fv[k + 1])
                  ELSE Cat(<<Blank(v, k)>>, fv[k + 2])
      BY <1>3, <3>1 DEF Decodes
    <3>6. fc[U + k] = fv[k]
      BY <3>1, <3>2, <3>3, <3>4, <3>5, Zenon
    <3> QED BY <3>6
  <2> QED BY <2>1, <2>2
<1>6. \A k \in 1 .. V + 2 : k \in T
  <2>1. V + 2 \in Nat
    BY <1>1
  <2> HIDE DEF T, V
  <2> QED BY <1>5, <2>1, BackwardInduction
<1>7. fc[U + 1] = fv[1] /\ fv[1] \in Seq(Nat)
  <2>1. 1 \in 1 .. V + 2
    BY <1>1
  <2>2. fv[1] \in Seq(Nat)
    BY <1>3, DecodedIs DEF Decodes
  <2> QED BY <1>6, <2>1, <2>2
<1> DEFINE W == {k \in 1 .. U + 1 : fc[k] = Cat(fu[k], fv[1])}
<1>8. ASSUME NEW k \in 1 .. U + 1, \A j \in k + 1 .. U + 1 : j \in W PROVE k \in W
  <2>1. CASE k = U + 1
    <3>1. fu[k] = << >> /\ Cat(<< >>, fv[1]) = fv[1]
      BY <1>2, <1>7, <2>1, CatEmpty DEF Decodes
    <3> QED BY <1>7, <2>1, <3>1
  <2>2. CASE k # U + 1
    <3>1. /\ k \in 1 .. U /\ k \in 1 .. Len(c) /\ c[k] = u[k] /\ u[k] \in Nat
          /\ k + 1 \in k + 1 .. U + 1 /\ k + 1 \in 1 .. U + 2 /\ k + 2 \in 1 .. U + 2
      <4> HIDE DEF U, V
      <4>1. k \in 1 .. U /\ k \in 1 .. Len(c)
        BY <1>1, <2>2
      <4>2. k + 1 \in k + 1 .. U + 1 /\ k + 1 \in 1 .. U + 2 /\ k + 2 \in 1 .. U + 2
        BY <1>1, <2>2
      <4> QED BY <1>1, <4>1, <4>2
    <3>2. fc[k] = IF c[k] # BLANK[1] THEN Cat(<<c[k]>>, fc[k + 1])
                  ELSE Cat(<<Blank(c, k)>>, fc[k + 2])
      BY <1>4, <3>1 DEF Decodes
    <3>3. fu[k] = IF u[k] # BLANK[1] THEN Cat(<<u[k]>>, fu[k + 1])
                  ELSE Cat(<<Blank(u, k)>>, fu[k + 2])
      BY <1>2, <3>1 DEF Decodes
    <3>4. fu[k + 1] \in Seq(Nat) /\ fu[k + 2] \in Seq(Nat)
      BY <1>2, <3>1 DEF Decodes
    <3>5. CASE u[k] # BLANK[1]
      <4>1. fc[k + 1] = Cat(fu[k + 1], fv[1])
        BY <1>8, <3>1
      <4> DEFINE one == <<u[k]>>
      <4>2. one \in Seq(Nat)
        BY <3>1
      <4>3. fu[k] = Cat(one, fu[k + 1]) /\ fc[k] = Cat(one, fc[k + 1])
        BY <3>1, <3>2, <3>3, <3>5, Zenon
      <4> HIDE DEF one
      <4>4. Cat(Cat(one, fu[k + 1]), fv[1]) = Cat(one, Cat(fu[k + 1], fv[1]))
        BY <1>7, <3>4, <4>2, CatAssociative
      <4>5. fc[k] = Cat(fu[k], fv[1])
        BY <4>1, <4>3, <4>4, Zenon
      <4> QED BY <4>5
    <3>6. CASE u[k] = BLANK[1]
      <4>1. k # U
        <5>1. u # << >>
          BY <3>1, <1>1, EmptySeq
        <5> QED BY <3>6, <5>1 DEF EndsWell
      <4>2. k + 2 \in k + 1 .. U + 1 /\ k + 1 \in 1 .. U /\ k < U /\ k < Len(c)
        <5> HIDE DEF U, V
        <5>1. k < U /\ k + 1 \in 1 .. U
          BY <1>1, <3>1, <4>1
        <5> QED BY <1>1, <5>1
      <4>3. fc[k + 2] = Cat(fu[k + 2], fv[1])
        BY <1>8, <4>2
      <4>4. Blank(c, k) = Blank(u, k)
        BY <1>1, <4>2 DEF Blank
      <4> DEFINE one == <<Blank(u, k)>>
      <4>5. one \in Seq(Nat)
        BY TokenizerAssumption DEF Blank
      <4>6. fu[k] = Cat(one, fu[k + 2]) /\ fc[k] = Cat(one, fc[k + 2])
        BY <3>1, <3>2, <3>3, <3>6, <4>4, Zenon
      <4> HIDE DEF one
      <4>8. Cat(Cat(one, fu[k + 2]), fv[1]) = Cat(one, Cat(fu[k + 2], fv[1]))
        BY <1>7, <3>4, <4>5, CatAssociative
      <4>7. fc[k] = Cat(fu[k], fv[1])
        BY <4>3, <4>6, <4>8, Zenon
      <4> QED BY <4>7
    <3> QED BY <3>5, <3>6
  <2> QED BY <2>1, <2>2
<1>9. \A k \in 1 .. U + 1 : k \in W
  <2>1. U + 1 \in Nat
    BY <1>1
  <2> HIDE DEF W, U
  <2> QED BY <1>8, <2>1, BackwardInduction
<1>10. fc[1] = Cat(fu[1], fv[1])
  <2>1. 1 \in 1 .. U + 1
    BY <1>1
  <2> QED BY <1>9, <2>1
<1> QED BY <1>2, <1>3, <1>4, <1>10, Zenon DEF Decodes, c
-----------------------------------------------------------------------------
(* ---- token lists and the text they spell ---- *)

(* The strings of a list of tokens, one after the other.                    *)
Images(f, list) == [k \in DOMAIN list |-> f[list[k]]]
MapsInto(f, I, S) == \A i \in I : f[i] \in S

(* Mapping a function over a list.                                          *)
LEMMA ImagesOf ==
  ASSUME NEW S, NEW I, NEW f, MapsInto(f, I, S), NEW list \in Seq(I)
  PROVE  /\ Images(f, list) \in Seq(S) /\ Len(Images(f, list)) = Len(list)
         /\ \A k \in 1 .. Len(list) : Images(f, list)[k] = f[list[k]]
<1>1. Len(list) \in Nat /\ DOMAIN list = 1 .. Len(list) /\ \A k \in 1 .. Len(list) : list[k] \in I
  BY LenProperties, ElementOfSeq
<1>2. Images(f, list) \in [1 .. Len(list) -> S]
  BY <1>1 DEF Images, MapsInto
<1>3. Images(f, list) \in Seq(S)
  BY <1>1, <1>2, SeqDef
<1>4. DOMAIN Images(f, list) = 1 .. Len(list)
  BY <1>1 DEF Images
<1>5. Len(Images(f, list)) = Len(list)
  BY <1>1, <1>3, <1>4, LenProperties
<1> QED BY <1>1, <1>3, <1>5 DEF Images

(* Mapping a function over a concatenation.                                 *)
LEMMA ImagesCat ==
  ASSUME NEW S, NEW I, NEW f, MapsInto(f, I, S),
         NEW a \in Seq(I), NEW b \in Seq(I)
  PROVE  Images(f, Cat(a, b)) = Cat(Images(f, a), Images(f, b))
<1> DEFINE A == Len(a)
           B == Len(b)
           c == Cat(a, b)
           l == Images(f, c)
           fa == Images(f, a)
           fb == Images(f, b)
           r == Cat(fa, fb)
<1>1. A \in Nat /\ B \in Nat
  BY LenProperties
<1>2. c \in Seq(I) /\ Len(c) = A + B
  BY CatIs
<1>3. \A k \in 1 .. A : c[k] = a[k]
  BY CatIs
<1>4. ASSUME NEW k \in 1 .. B PROVE c[A + k] = b[k]
  BY CatIs
<1> HIDE DEF c
<1>5. /\ l \in Seq(S) /\ Len(l) = Len(c)
      /\ \A k \in 1 .. Len(c) : l[k] = f[c[k]]
  <2>1. l \in Seq(S)
    BY <1>2, ImagesOf
  <2>2. Len(l) = Len(c)
    BY <1>2, ImagesOf
  <2>3. \A k \in 1 .. Len(c) : l[k] = f[c[k]]
    BY <1>2, ImagesOf
  <2> HIDE DEF l
  <2> QED BY <2>1, <2>2, <2>3
<1>6. fa \in Seq(S) /\ Len(fa) = A /\ \A k \in 1 .. A : fa[k] = f[a[k]]
  <2>1. fa \in Seq(S)
    BY ImagesOf
  <2>2. Len(fa) = A
    BY ImagesOf
  <2>3. \A k \in 1 .. A : fa[k] = f[a[k]]
    BY ImagesOf
  <2> HIDE DEF fa, A
  <2> QED BY <2>1, <2>2, <2>3
<1>7. fb \in Seq(S) /\ Len(fb) = B /\ \A k \in 1 .. B : fb[k] = f[b[k]]
  <2>1. fb \in Seq(S)
    BY ImagesOf
  <2>2. Len(fb) = B
    BY ImagesOf
  <2>3. \A k \in 1 .. B : fb[k] = f[b[k]]
    BY ImagesOf
  <2> HIDE DEF fb, B
  <2> QED BY <2>1, <2>2, <2>3
<1> HIDE DEF l, fa, fb
<1>8. r \in Seq(S) /\ Len(r) = A + B
  <2>1. r \in Seq(S)
    BY <1>6, <1>7, CatIs
  <2>2. Len(r) = Len(fa) + Len(fb)
    BY <1>6, <1>7, CatIs
  <2> HIDE DEF r, A, B
  <2> QED BY <1>6, <1>7, <2>1, <2>2
<1>9. \A k \in 1 .. A : r[k] = fa[k]
  <2>1. \A k \in 1 .. Len(fa) : r[k] = fa[k]
    BY <1>6, <1>7, CatIs
  <2> QED BY <1>6, <2>1
<1>10. ASSUME NEW k \in 1 .. B PROVE r[A + k] = fb[k]
  <2>1. k \in 1 .. Len(fb)
    BY <1>7
  <2> HIDE DEF A, B
  <2>3. fa \in Seq(S) /\ fb \in Seq(S)
    BY <1>6, <1>7
  <2>2. Cat(fa, fb)[Len(fa) + k] = fb[k]
    BY <2>1, <2>3, CatIs
  <2> QED BY <1>6, <2>2
<1> HIDE DEF r, A, B
<1>11. ASSUME NEW k \in 1 .. A + B PROVE l[k] = r[k]
  <2>1. CASE k <= A
    <3>1. k \in 1 .. A /\ k \in 1 .. Len(c)
      BY <1>1, <1>2, <2>1
    <3> QED BY <1>3, <1>5, <1>6, <1>9, <3>1
  <2>2. CASE ~(k <= A)
    <3>1. k - A \in 1 .. B /\ A + (k - A) = k /\ k \in 1 .. Len(c)
      BY <1>1, <1>2, <2>2
    <3>2. c[k] = b[k - A] /\ r[k] = fb[k - A]
      BY <1>4, <1>10, <3>1
    <3> QED BY <1>5, <1>7, <3>1, <3>2
  <2> QED BY <2>1, <2>2
<1>12. l = r
  BY <1>2, <1>5, <1>8, <1>11, SeqEqual
<1> QED BY <1>12 DEF l, r, c, fa, fb

(* The text a list of tokens spells, before decode.                         *)
LEMMA JoinIs ==
  ASSUME NEW list \in Seq(Ids)
  PROVE  /\ Join(list) = FlattenSeq(Images(Vocab, list))
         /\ Images(Vocab, list) \in Seq(Seq(Nat)) /\ Join(list) \in Seq(Nat)
<1>1. Join(list) = FlattenSeq(Images(Vocab, list))
  BY Zenon DEF Join, Images
<1>2. MapsInto(Vocab, Ids, Seq(Nat))
  BY TokenizerAssumption DEF Ids, MapsInto
<1> DEFINE S == Seq(Nat)
<1> HIDE DEF S
<1>3. Images(Vocab, list) \in Seq(S)
  BY <1>2, ImagesOf DEF S
<1> QED BY <1>1, <1>3, FlattenIs DEF S

(* The text of two lists is that of the first, then that of the second.     *)
LEMMA JoinCat ==
  ASSUME NEW a \in Seq(Ids), NEW b \in Seq(Ids)
  PROVE  Join(Cat(a, b)) = Cat(Join(a), Join(b))
<1> DEFINE c == Cat(a, b)
           fa == Images(Vocab, a)
           fb == Images(Vocab, b)
<1>1. c \in Seq(Ids)
  BY CatIs
<1>2. Images(Vocab, c) = Cat(fa, fb)
  <2> DEFINE S == Seq(Nat)
  <2>1. MapsInto(Vocab, Ids, S)
    BY TokenizerAssumption DEF Ids, MapsInto
  <2> HIDE DEF S
  <2>2. Images(Vocab, Cat(a, b)) = Cat(Images(Vocab, a), Images(Vocab, b))
    BY <2>1, ImagesCat
  <2> QED BY <2>2, Zenon
<1>3. Images(Vocab, c) = fa \o fb
  BY <1>2, Zenon DEF Cat
<1> HIDE DEF c
<1>4. Join(c) = FlattenSeq(Images(Vocab, c)) /\ Join(a) = FlattenSeq(fa) /\ Join(b) = FlattenSeq(fb)
  BY <1>1, JoinIs
<1>5. fa \in Seq(Seq(Nat)) /\ fb \in Seq(Seq(Nat))
  BY JoinIs
<1> HIDE DEF fa, fb
<1>6. FlattenSeq(fa \o fb) = FlattenSeq(fa) \o FlattenSeq(fb)
  BY <1>5, FlattenConcat, Zenon
<1>7. Join(c) = Join(a) \o Join(b)
  BY <1>3, <1>4, <1>6, Zenon
<1> QED BY <1>7, Zenon DEF Cat, c

(* The text of one token, and of none.                                      *)
LEMMA JoinOne ==
  /\ \A id \in Ids : Join(<<id>>) = Vocab[id]
  /\ Join(<< >>) = << >>
<1>1. ASSUME NEW id \in Ids PROVE Join(<<id>>) = Vocab[id]
  <2>1. Images(Vocab, <<id>>) = <<Vocab[id]>>
    BY DEF Images
  <2>2. Join(<<id>>) = FlattenSeq(<<Vocab[id]>>)
    BY <2>1, Zenon DEF Join, Images
  <2> DEFINE v == Vocab[id]
  <2>3. v \in Seq(Nat)
    BY TokenizerAssumption DEF Ids
  <2> HIDE DEF v
  <2>4. FlattenSeq(<<v>>) = v
    BY <2>3, FlattenOne, Zenon
  <2> QED BY <2>2, <2>4, Zenon DEF v
<1>2. Join(<< >>) = << >>
  <2>1. Images(Vocab, << >>) = << >>
    BY DEF Images
  <2>2. FlattenSeq(<< >>) = << >>
    <3>1. << >> \in Seq(Nat)
      OBVIOUS
    <3> QED BY <3>1, FlattenOne, Zenon
  <2> QED BY <2>1, <2>2, Zenon DEF Join, Images
<1> QED BY <1>1, <1>2

(* decode takes pieces one after the other.                                 *)
LEMMA DecodedEach ==
  ASSUME NEW pieces \in Seq(Seq(Nat)), NEW parts \in Seq(Seq(Nat)),
         Len(parts) = Len(pieces),
         \A k \in 1 .. Len(pieces) : EndsWell(pieces[k]) /\ parts[k] = Decoded(pieces[k])
  PROVE  /\ FlattenSeq(parts) = Decoded(FlattenSeq(pieces))
         /\ EndsWell(FlattenSeq(pieces))
<1> DEFINE N == Len(pieces)
<1>1. PICK p : Flattens(pieces, Nat, p)
  BY FlattenIs
<1>2. PICK q : Flattens(parts, Nat, q)
  BY FlattenIs
<1> DEFINE T == {i \in 0 .. N : q[i] = Decoded(p[i]) /\ EndsWell(p[i])}
<1>3. N \in Nat
  BY LenProperties
<1>4. 0 \in T
  <2>1. p[0] = << >> /\ q[0] = << >>
    BY <1>1, <1>2 DEF Flattens
  <2> DEFINE em == << >>
  <2>2. em \in Seq(Nat) /\ Len(em) = 0
    OBVIOUS
  <2> HIDE DEF em
  <2>3. PICK from : Decodes(em, from)
    BY <2>2, DecodedIs
  <2>4. Decoded(em) = from[1] /\ from[Len(em) + 1] = << >> /\ Len(em) + 1 = 1
    BY <2>2, <2>3 DEF Decodes
  <2>5. Decoded(em) = << >>
    BY <2>4
  <2>6. EndsWell(p[0])
    BY <2>1 DEF EndsWell
  <2>7. q[0] = Decoded(p[0])
    BY <2>1, <2>5, Zenon DEF em
  <2> QED BY <1>3, <2>6, <2>7
<1>5. ASSUME NEW i \in 0 .. N - 1, i \in T PROVE i + 1 \in T
  <2>1. i + 1 \in 1 .. N /\ (i + 1) - 1 = i /\ i \in 0 .. N
    BY <1>3
  <2>2. p[i + 1] = p[i] \o pieces[i + 1] /\ p[i] \in Seq(Nat)
    BY <1>1, <2>1 DEF Flattens
  <2>3. q[i + 1] = q[i] \o parts[i + 1]
    BY <1>2, <2>1 DEF Flattens
  <2>4. /\ pieces[i + 1] \in Seq(Nat) /\ EndsWell(pieces[i + 1])
        /\ parts[i + 1] = Decoded(pieces[i + 1])
    BY <2>1, ElementOfSeq
  <2>5. EndsWell(p[i]) /\ q[i] = Decoded(p[i])
    BY <1>5
  <2>6. Decoded(Cat(p[i], pieces[i + 1])) = Cat(Decoded(p[i]), Decoded(pieces[i + 1]))
    BY <2>2, <2>4, <2>5, DecodedCat
  <2>7. EndsWell(Cat(p[i], pieces[i + 1]))
    BY <2>2, <2>4, <2>5, CatEndsWell
  <2>8. p[i + 1] = Cat(p[i], pieces[i + 1]) /\ q[i + 1] = Cat(q[i], parts[i + 1])
    BY <2>2, <2>3, Zenon DEF Cat
  <2>9. q[i + 1] = Decoded(p[i + 1]) /\ EndsWell(p[i + 1])
    BY <2>4, <2>5, <2>6, <2>7, <2>8, Zenon
  <2> QED BY <2>1, <2>9
<1>6. \A i \in 0 .. N : i \in T
  <2> HIDE DEF T, N
  <2> QED BY <1>3, <1>4, <1>5, UpToInduction
<1>7. N \in T
  BY <1>3, <1>6
<1>8. FlattenSeq(pieces) = p[N] /\ FlattenSeq(parts) = q[N]
  BY <1>1, <1>2, Zenon DEF Flattens
<1> QED BY <1>7, <1>8
-----------------------------------------------------------------------------
(* ---- the text and its spelling ---- *)

(* A sequence of one byte.                                                  *)
LEMMA BytesOf ==
  ASSUME NEW b \in Nat
  PROVE  <<b>> \in Seq(Nat) /\ Len(<<b>>) = 1 /\ <<b>>[1] = b
OBVIOUS

(* decode of a single byte, and of the blank.                               *)
LEMMA DecodedByte ==
  ASSUME NEW b \in Nat, b # BLANK[1] PROVE Decoded(<<b>>) = <<b>>
<1> DEFINE s == <<b>>
<1>1. s \in Seq(Nat) /\ Len(s) = 1 /\ s[1] = b
  BY BytesOf
<1> HIDE DEF s
<1>2. PICK f : Decodes(s, f)
  BY <1>1, DecodedIs
<1>3. Decoded(s) = f[1] /\ f[2] = << >>
  BY <1>1, <1>2 DEF Decodes
<1>4. f[1] = Cat(<<s[1]>>, f[2])
  <2>1. 1 \in 1 .. Len(s) /\ 1 + 1 = 2 /\ s[1] # BLANK[1]
    BY <1>1
  <2>2. f[1] = Cat(<<s[1]>>, f[1 + 1])
    BY <1>2, <2>1 DEF Decodes
  <2> QED BY <2>1, <2>2
<1>5. Decoded(s) = Cat(s, << >>)
  BY <1>1, <1>3, <1>4, Zenon DEF s
<1>6. Cat(s, << >>) = s
  BY <1>1, CatEmpty
<1> QED BY <1>5, <1>6, Zenon DEF s

(* decode of the blank's two bytes is the space.                            *)
LEMMA DecodedBlank == Decoded(BLANK) = <<SPACE>>
<1>1. BLANK \in Seq(Nat) /\ Len(BLANK) = 2 /\ SPACE \in Nat
  BY TokenizerAssumption
<1>2. PICK f : Decodes(BLANK, f)
  BY <1>1, DecodedIs
<1>3. Decoded(BLANK) = f[1] /\ f[3] = << >>
  BY <1>1, <1>2 DEF Decodes
<1>4. f[1] = Cat(<<Blank(BLANK, 1)>>, f[3])
  <2>1. 1 \in 1 .. Len(BLANK) /\ 1 + 2 = 3
    BY <1>1
  <2>2. f[1] = Cat(<<Blank(BLANK, 1)>>, f[1 + 2])
    BY <1>2, <2>1 DEF Decodes
  <2> QED BY <2>1, <2>2
<1>5. Blank(BLANK, 1) = SPACE
  BY <1>1 DEF Blank
<1> DEFINE s == <<SPACE>>
<1>6. Decoded(BLANK) = Cat(s, << >>) /\ s \in Seq(Nat)
  BY <1>1, <1>3, <1>4, <1>5
<1> HIDE DEF s
<1>7. Cat(s, << >>) = s
  BY <1>6, CatEmpty
<1> QED BY <1>6, <1>7, Zenon DEF s

(* The pieces replace_spaces_with_G strings together.                       *)
Pieces(str) == [k \in DOMAIN str |-> IF str[k] = SPACE THEN BLANK ELSE <<str[k]>>]

(* What replace_spaces_with_G puts in place of every byte (run_fa.c).       *)
LEMMA PiecesAre ==
  ASSUME NEW B \in SUBSET Nat, BLANK \in Seq(B), NEW str \in Seq(B)
  PROVE  /\ Pieces(str) \in Seq(Seq(B)) /\ Len(Pieces(str)) = Len(str)
         /\ \A k \in 1 .. Len(str) :
              Pieces(str)[k] = IF str[k] = SPACE THEN BLANK ELSE <<str[k]>>
         /\ replace_spaces_with_G(str) = FlattenSeq(Pieces(str))
         /\ replace_spaces_with_G(str) \in Seq(B)
<1>1. Len(str) \in Nat /\ DOMAIN str = 1 .. Len(str) /\ \A k \in 1 .. Len(str) : str[k] \in B
  BY LenProperties, ElementOfSeq
<1>2. \A k \in 1 .. Len(str) : <<str[k]>> \in Seq(B)
  BY <1>1
<1>3. Pieces(str) \in [1 .. Len(str) -> Seq(B)]
  BY <1>1, <1>2 DEF Pieces
<1>4. Pieces(str) \in Seq(Seq(B))
  BY <1>1, <1>3, SeqDef
<1>5. Len(Pieces(str)) = Len(str)
  <2>1. DOMAIN Pieces(str) = 1 .. Len(str)
    BY <1>1 DEF Pieces
  <2> QED BY <1>1, <1>4, <2>1, LenProperties
<1>6. \A k \in 1 .. Len(str) :
         Pieces(str)[k] = IF str[k] = SPACE THEN BLANK ELSE <<str[k]>>
  BY <1>1 DEF Pieces
<1>7. replace_spaces_with_G(str) = FlattenSeq(Pieces(str))
  BY Zenon DEF replace_spaces_with_G, Pieces
<1>8. FlattenSeq(Pieces(str)) \in Seq(B)
  BY <1>4, FlattenIs
<1>9. replace_spaces_with_G(str) \in Seq(B)
  BY <1>7, <1>8, Zenon
<1> QED BY <1>4, <1>5, <1>6, <1>7, <1>9, Zenon

(* A list of single bytes, strung together.                                 *)
LEMMA FlattenSingles ==
  ASSUME NEW str \in Seq(Nat), NEW parts \in Seq(Seq(Nat)), Len(parts) = Len(str),
         \A k \in 1 .. Len(str) : parts[k] = <<str[k]>>
  PROVE  FlattenSeq(parts) = str
<1> DEFINE N == Len(str)
           Upto(i, v) == Len(v) = i /\ \A j \in 1 .. i : v[j] = str[j]
<1>1. PICK f : Flattens(parts, Nat, f)
  BY FlattenIs
<1>2. N \in Nat /\ \A k \in 1 .. N : str[k] \in Nat
  BY LenProperties, ElementOfSeq
<1> DEFINE T == {i \in 0 .. N : Upto(i, f[i])}
<1>3. 0 \in T
  BY <1>1, <1>2 DEF Flattens
<1>4. ASSUME NEW i \in 0 .. N - 1, i \in T PROVE i + 1 \in T
  <2>1. i + 1 \in 1 .. N /\ (i + 1) - 1 = i /\ i \in 0 .. N
    BY <1>2
  <2>2. f[i + 1] = f[i] \o parts[i + 1] /\ f[i] \in Seq(Nat) /\ f[i + 1] \in Seq(Nat)
    <3>1. i + 1 \in 1 .. Len(parts) /\ i \in 0 .. Len(parts) /\ i + 1 \in 0 .. Len(parts)
      BY <1>2, <2>1
    <3>2. f[i + 1] = f[(i + 1) - 1] \o parts[i + 1]
      BY <1>1, <3>1 DEF Flattens
    <3>3. f[i] \in Seq(Nat) /\ f[i + 1] \in Seq(Nat)
      BY <1>1, <3>1 DEF Flattens
    <3> QED BY <2>1, <3>2, <3>3
  <2> DEFINE v == f[i]
             w == f[i + 1]
             one == <<str[i + 1]>>
  <2>3. w = Cat(v, one)
    <3>1. parts[i + 1] = one
      BY <2>1
    <3> QED BY <2>2, <3>1, Zenon DEF Cat
  <2>4. one \in Seq(Nat) /\ Len(one) = 1 /\ one[1] = str[i + 1] /\ 1 \in 1 .. Len(one)
    BY <1>2, <2>1
  <2>5. Upto(i, v)
    BY <1>4
  <2> HIDE DEF one
  <2>6. Len(w) = i + 1
    <3>1. Len(Cat(v, one)) = Len(v) + Len(one)
      BY <2>2, <2>4, CatIs
    <3> QED BY <2>3, <2>4, <2>5, <3>1
  <2>7. w[i + 1] = str[i + 1]
    <3>1. v \in Seq(Nat) /\ Len(one) \in 1 .. Len(one)
      BY <2>2, <2>4
    <3> HIDE DEF v
    <3>2. Cat(v, one)[Len(v) + Len(one)] = one[Len(one)]
      BY <2>4, <3>1, CatIs
    <3> QED BY <2>3, <2>4, <2>5, <3>2
  <2>8. ASSUME NEW j \in 1 .. i PROVE w[j] = str[j]
    <3>1. j \in 1 .. Len(v)
      BY <2>5
    <3>2. Cat(v, one)[j] = v[j]
      BY <2>2, <2>4, <3>1, CatIs
    <3> QED BY <2>3, <2>5, <3>2
  <2>9. \A j \in 1 .. i + 1 : j = i + 1 \/ j \in 1 .. i
    BY <2>1
  <2> HIDE DEF v, w
  <2>10. Upto(i + 1, w)
    BY <2>6, <2>7, <2>8, <2>9
  <2> HIDE DEF Upto
  <2> QED BY <1>2, <2>1, <2>10 DEF w
<1>5. \A i \in 0 .. N : i \in T
  <2> HIDE DEF T, N
  <2> QED BY <1>2, <1>3, <1>4, UpToInduction
<1>6. Upto(N, f[N]) /\ f[N] \in Seq(Nat) /\ FlattenSeq(parts) = f[N]
  <2>1. N \in 0 .. N
    BY <1>2
  <2>2. f[N] \in Seq(Nat) /\ FlattenSeq(parts) = f[N]
    BY <1>1, <2>1 DEF Flattens
  <2> QED BY <1>5, <2>1, <2>2
<1>7. f[N] = str
  <2> HIDE DEF N
  <2> QED BY <1>6, SeqEqual DEF N
<1> QED BY <1>6, <1>7

(* decode gives the blanks back.                                            *)
LEMMA BlanksBack ==
  ASSUME NEW str \in Seq(Nat), \A k \in DOMAIN str : str[k] # BLANK[1]
  PROVE  /\ Decoded(replace_spaces_with_G(str)) = str
         /\ EndsWell(replace_spaces_with_G(str))
<1> DEFINE pieces == Pieces(str)
           parts == [k \in DOMAIN str |-> <<str[k]>>]
<1>1. Len(str) \in Nat /\ DOMAIN str = 1 .. Len(str) /\ \A k \in 1 .. Len(str) : str[k] \in Nat
  BY LenProperties, ElementOfSeq
<1>2. /\ pieces \in Seq(Seq(Nat)) /\ Len(pieces) = Len(str)
      /\ \A k \in 1 .. Len(str) : pieces[k] = IF str[k] = SPACE THEN BLANK ELSE <<str[k]>>
      /\ replace_spaces_with_G(str) = FlattenSeq(pieces)
  <2>1. Nat \in SUBSET Nat /\ BLANK \in Seq(Nat)
    BY TokenizerAssumption
  <2> QED BY <2>1, PiecesAre
<1>3. \A k \in 1 .. Len(str) : <<str[k]>> \in Seq(Nat)
  BY <1>1
<1>4. parts \in Seq(Seq(Nat)) /\ Len(parts) = Len(str)
      /\ \A k \in 1 .. Len(str) : parts[k] = <<str[k]>>
  <2>1. parts \in [1 .. Len(str) -> Seq(Nat)]
    BY <1>1, <1>3
  <2>2. parts \in Seq(Seq(Nat))
    BY <1>1, <2>1, SeqDef
  <2>3. DOMAIN parts = 1 .. Len(str)
    BY <1>1
  <2>4. Len(parts) = Len(str)
    BY <1>1, <2>2, <2>3, LenProperties
  <2>5. \A k \in 1 .. Len(str) : parts[k] = <<str[k]>>
    BY <1>1
  <2> QED BY <2>2, <2>4, <2>5, Zenon
<1> HIDE DEF pieces, parts
<1>5. ASSUME NEW k \in 1 .. Len(pieces)
      PROVE  EndsWell(pieces[k]) /\ parts[k] = Decoded(pieces[k])
  <2>0. k \in 1 .. Len(str) /\ str[k] # BLANK[1] /\ str[k] \in Nat
    BY <1>1, <1>2
  <2>1. CASE str[k] = SPACE
    <3>1. pieces[k] = BLANK /\ parts[k] = <<SPACE>>
      BY <1>2, <1>4, <2>0, <2>1
    <3>2. EndsWell(BLANK)
      BY TokenizerAssumption DEF EndsWell
    <3> QED BY <3>1, <3>2, DecodedBlank, Zenon
  <2>2. CASE str[k] # SPACE
    <3>1. pieces[k] = <<str[k]>> /\ parts[k] = <<str[k]>>
      BY <1>2, <1>4, <2>0, <2>2
    <3>2. EndsWell(<<str[k]>>)
      BY <2>0 DEF EndsWell
    <3>3. Decoded(<<str[k]>>) = <<str[k]>>
      BY <2>0, DecodedByte
    <3> QED BY <3>1, <3>2, <3>3, Zenon
  <2> QED BY <2>1, <2>2
<1>6. FlattenSeq(parts) = Decoded(FlattenSeq(pieces)) /\ EndsWell(FlattenSeq(pieces))
  <2>1. Len(parts) = Len(pieces)
    BY <1>2, <1>4
  <2> QED BY <1>2, <1>4, <1>5, <2>1, DecodedEach
<1>7. FlattenSeq(parts) = str
  BY <1>4, FlattenSingles
<1> QED BY <1>2, <1>6, <1>7, Zenon
-----------------------------------------------------------------------------
(* A sequence over a set is one over every larger set.                      *)
LEMMA SeqMonotone ==
  ASSUME NEW A, NEW B, A \subseteq B, NEW s \in Seq(A)
  PROVE  s \in Seq(B)
<1>1. Len(s) \in Nat /\ s \in [1 .. Len(s) -> A]
  BY LenProperties
<1>2. s \in [1 .. Len(s) -> B]
  BY <1>1
<1> QED BY <1>1, <1>2, SeqDef
-----------------------------------------------------------------------------
(* Tokens whose string does not end where decode would look on.             *)
Clean == {id \in Ids : EndsWell(Vocab[id])}

(* The text of such tokens, decoded one by one, is their string decoded.    *)
LEMMA CleanDecodes ==
  ASSUME NEW list \in Seq(Clean)
  PROVE  /\ FlattenSeq([k \in DOMAIN list |-> decode(list[k])]) = Decoded(Join(list))
         /\ EndsWell(Join(list)) /\ Join(list) \in Seq(Nat)
<1> DEFINE pieces == Images(Vocab, list)
           parts == [k \in DOMAIN list |-> decode(list[k])]
<1>1. /\ Len(list) \in Nat /\ DOMAIN list = 1 .. Len(list)
      /\ \A k \in 1 .. Len(list) : list[k] \in Clean
  BY LenProperties, ElementOfSeq
<1>2. list \in Seq(Ids)
  <2>1. list \in [1 .. Len(list) -> Clean]
    BY <1>1
  <2>2. list \in [1 .. Len(list) -> Ids]
    BY <2>1 DEF Clean
  <2> QED BY <1>1, <2>2, SeqDef
<1>3. Join(list) = FlattenSeq(pieces) /\ pieces \in Seq(Seq(Nat)) /\ Join(list) \in Seq(Nat)
  BY <1>2, JoinIs
<1>4. Len(pieces) = Len(list) /\ \A k \in 1 .. Len(list) : pieces[k] = Vocab[list[k]]
  <2> DEFINE S == Seq(Nat)
  <2>1. MapsInto(Vocab, Ids, S)
    BY TokenizerAssumption DEF Ids, MapsInto
  <2> HIDE DEF S
  <2>2. Len(pieces) = Len(list)
    BY <1>2, <2>1, ImagesOf
  <2>3. \A k \in 1 .. Len(list) : pieces[k] = Vocab[list[k]]
    BY <1>2, <2>1, ImagesOf
  <2> HIDE DEF pieces
  <2> QED BY <2>2, <2>3
<1> HIDE DEF pieces
<1>5. \A k \in 1 .. Len(list) : /\ pieces[k] \in Seq(Nat) /\ EndsWell(pieces[k])
                                /\ decode(list[k]) = Decoded(pieces[k])
                                /\ Decoded(pieces[k]) \in Seq(Nat)
  <2> SUFFICES ASSUME NEW k \in 1 .. Len(list)
               PROVE  /\ pieces[k] \in Seq(Nat) /\ EndsWell(pieces[k])
                      /\ decode(list[k]) = Decoded(pieces[k])
                      /\ Decoded(pieces[k]) \in Seq(Nat)
    OBVIOUS
  <2>1. pieces[k] = Vocab[list[k]] /\ list[k] \in Clean
    BY <1>1, <1>4
  <2>2. pieces[k] \in Seq(Nat) /\ EndsWell(pieces[k])
    BY <2>1, TokenizerAssumption DEF Clean, Ids
  <2>3. decode(list[k]) = Decoded(pieces[k])
    BY <2>1, Zenon DEF decode
  <2> QED BY <2>2, <2>3, DecodedIs
<1>6. /\ parts \in Seq(Seq(Nat)) /\ Len(parts) = Len(pieces)
      /\ \A k \in 1 .. Len(pieces) : parts[k] = Decoded(pieces[k])
  <2>1. parts \in [1 .. Len(list) -> Seq(Nat)]
    BY <1>1, <1>5
  <2>2. parts \in Seq(Seq(Nat))
    BY <1>1, <2>1, SeqDef
  <2>3. DOMAIN parts = 1 .. Len(list)
    BY <1>1
  <2>4. Len(parts) = Len(list)
    BY <1>1, <2>2, <2>3, LenProperties
  <2>5. \A k \in 1 .. Len(list) : parts[k] = Decoded(pieces[k])
    BY <1>1, <1>5
  <2> HIDE DEF parts
  <2> QED BY <1>4, <2>2, <2>4, <2>5
<1>7. FlattenSeq(parts) = Decoded(FlattenSeq(pieces)) /\ EndsWell(FlattenSeq(pieces))
  <2>1. \A k \in 1 .. Len(pieces) : EndsWell(pieces[k]) /\ parts[k] = Decoded(pieces[k])
    BY <1>4, <1>5, <1>6
  <2> HIDE DEF parts
  <2> QED BY <1>3, <1>6, <2>1, DecodedEach
<1> QED BY <1>3, <1>7, Zenon

(* A round of merging keeps the string.                                     *)
LEMMA MergeKeeps ==
  ASSUME NEW s \in Seq(Clean), NEW t, IsMerge(s, t)
  PROVE  t \in Seq(Clean) /\ Join(t) = Join(s)
<1>1. PICK size \in 2 .. 3 : \E i \in 1 .. Len(s) - size + 1 : \E m \in Ids :
        /\ Vocab[m] = Join(SubSeq(s, i, i + size - 1))
        /\ t = Cat(Cat(SubSeq(s, 1, i - 1), <<m>>), SubSeq(s, i + size, Len(s)))
  BY DEF IsMerge
<1>2. PICK i \in 1 .. Len(s) - size + 1, m \in Ids :
        /\ Vocab[m] = Join(SubSeq(s, i, i + size - 1))
        /\ t = Cat(Cat(SubSeq(s, 1, i - 1), <<m>>), SubSeq(s, i + size, Len(s)))
  BY <1>1
<1> DEFINE a == SubSeq(s, 1, i - 1)
           b == SubSeq(s, i, i + size - 1)
           c == SubSeq(s, i + size, Len(s))
           one == <<m>>
<1>3. Len(s) \in Nat /\ \A k \in 1 .. Len(s) : s[k] \in Clean
  BY LenProperties, ElementOfSeq
<1>4. a \in Seq(Clean) /\ Len(a) = i - 1 /\ \A k \in 1 .. i - 1 : a[k] = s[k]
  <2>1. \A k \in 1 .. i - 1 : s[k] \in Clean
    BY <1>3
  <2> QED BY <2>1, SubSeqProperties
<1>5. b \in Seq(Clean) /\ Len(b) = size /\ \A k \in 1 .. size : b[k] = s[i + k - 1]
  <2>1. \A k \in i .. i + size - 1 : s[k] \in Clean
    BY <1>3
  <2> QED BY <2>1, SubSeqProperties
<1>6. /\ c \in Seq(Clean) /\ Len(c) = Len(s) - (i + size) + 1
      /\ \A k \in 1 .. Len(c) : c[k] = s[i + size + k - 1]
  <2>1. \A k \in i + size .. Len(s) : s[k] \in Clean
    BY <1>3
  <2> QED BY <1>3, <2>1, SubSeqProperties
<1> HIDE DEF a, b, c
<1> DEFINE ab == Cat(a, b)
           abc == Cat(ab, c)
<1>7. /\ ab \in Seq(Clean) /\ Len(ab) = Len(a) + Len(b)
      /\ \A k \in 1 .. Len(a) : ab[k] = a[k]
      /\ \A k \in 1 .. Len(b) : ab[Len(a) + k] = b[k]
  <2>1. ab = Cat(a, b)
    OBVIOUS
  <2>2. ab \in Seq(Clean) /\ Len(ab) = Len(a) + Len(b)
    BY <1>4, <1>5, CatIs
  <2>3. \A k \in 1 .. Len(a) : ab[k] = a[k]
    BY <1>4, <1>5, CatIs
  <2>4. ASSUME NEW k \in 1 .. Len(b) PROVE ab[Len(a) + k] = b[k]
    <3>1. a \in Seq(Clean) /\ b \in Seq(Clean)
      BY <1>4, <1>5
    <3>2. Cat(a, b)[Len(a) + k] = b[k]
      BY <3>1, CatIs
    <3> QED BY <3>2
  <2> QED BY <2>2, <2>3, <2>4
<1> HIDE DEF ab
<1>8. /\ abc \in Seq(Clean) /\ Len(abc) = Len(ab) + Len(c)
      /\ \A k \in 1 .. Len(ab) : abc[k] = ab[k]
      /\ \A k \in 1 .. Len(c) : abc[Len(ab) + k] = c[k]
  <2>2. abc \in Seq(Clean) /\ Len(abc) = Len(ab) + Len(c)
    BY <1>7, <1>6, CatIs
  <2>3. \A k \in 1 .. Len(ab) : abc[k] = ab[k]
    <3>1. ab \in Seq(Clean) /\ c \in Seq(Clean)
      BY <1>6, <1>7
    <3> QED BY <3>1, CatIs
  <2>4. ASSUME NEW k \in 1 .. Len(c) PROVE abc[Len(ab) + k] = c[k]
    <3>1. ab \in Seq(Clean) /\ c \in Seq(Clean)
      BY <1>6, <1>7
    <3>2. Cat(ab, c)[Len(ab) + k] = c[k]
      BY <3>1, CatIs
    <3> QED BY <3>2
  <2> QED BY <2>2, <2>3, <2>4
<1> HIDE DEF abc
<1>9. abc = s
  <2>1. Len(abc) = Len(s)
    BY <1>3, <1>4, <1>5, <1>6, <1>7, <1>8
  <2>2. ASSUME NEW k \in 1 .. Len(s) PROVE abc[k] = s[k]
    <3>1. CASE k <= i - 1
      <4>1. k \in 1 .. Len(ab) /\ k \in 1 .. Len(a) /\ k \in 1 .. i - 1
        BY <1>3, <1>4, <1>5, <1>7, <3>1
      <4> QED BY <1>4, <1>7, <1>8, <4>1
    <3>2. CASE k > i - 1 /\ k <= i + size - 1
      <4>1. /\ k \in 1 .. Len(ab) /\ k - (i - 1) \in 1 .. Len(b)
            /\ Len(a) + (k - (i - 1)) = k /\ i + (k - (i - 1)) - 1 = k
            /\ k - (i - 1) \in 1 .. size
        BY <1>3, <1>4, <1>5, <1>7, <3>2
      <4>2. abc[k] = ab[k]
        BY <1>8, <4>1
      <4>3. ab[k] = b[k - (i - 1)]
        BY <1>7, <4>1
      <4>4. b[k - (i - 1)] = s[k]
        BY <1>5, <4>1
      <4> QED BY <4>2, <4>3, <4>4
    <3>3. CASE k > i + size - 1
      <4>1. /\ k - (i + size - 1) \in 1 .. Len(c)
            /\ Len(ab) + (k - (i + size - 1)) = k
            /\ i + size + (k - (i + size - 1)) - 1 = k
        BY <1>3, <1>4, <1>5, <1>6, <1>7, <3>3
      <4>2. abc[k] = c[k - (i + size - 1)]
        BY <1>8, <4>1
      <4>3. c[k - (i + size - 1)] = s[k]
        BY <1>6, <4>1
      <4> QED BY <4>2, <4>3
    <3> QED BY <3>1, <3>2, <3>3
  <2> QED BY <1>8, <2>1, <2>2, SeqEqual
<1>10. m \in Clean /\ Vocab[m] = Join(b)
  <2>1. Vocab[m] = Join(b)
    BY <1>2 DEF b
  <2>2. EndsWell(Join(b))
    BY <1>5, CleanDecodes
  <2> QED BY <2>1, <2>2 DEF Clean
<1>11. one \in Seq(Clean) /\ Join(one) = Vocab[m]
  BY <1>10, JoinOne
<1>12. t = Cat(Cat(a, one), c)
  BY <1>2, Zenon DEF a, c
<1> HIDE DEF one
<1>13. Cat(a, one) \in Seq(Clean)
  BY <1>4, <1>11, CatIs
<1>14. t \in Seq(Clean)
  <2>1. Cat(Cat(a, one), c) \in Seq(Clean)
    BY <1>6, <1>13, CatIs
  <2> QED BY <1>12, <2>1
<1>15. Clean \subseteq Ids
  BY DEF Clean
<1>16. /\ a \in Seq(Ids) /\ b \in Seq(Ids) /\ c \in Seq(Ids) /\ one \in Seq(Ids)
       /\ ab \in Seq(Ids) /\ Cat(a, one) \in Seq(Ids)
  BY <1>4, <1>5, <1>6, <1>7, <1>11, <1>13, <1>15, SeqMonotone
<1>17. Join(Cat(Cat(a, one), c)) = Cat(Cat(Join(a), Join(one)), Join(c))
  <2>1. Join(Cat(Cat(a, one), c)) = Cat(Join(Cat(a, one)), Join(c))
    BY <1>16, JoinCat
  <2>2. Join(Cat(a, one)) = Cat(Join(a), Join(one))
    BY <1>16, JoinCat
  <2> QED BY <2>1, <2>2, Zenon
<1>18. Join(abc) = Cat(Cat(Join(a), Join(b)), Join(c))
  <2>1. Join(Cat(ab, c)) = Cat(Join(ab), Join(c))
    BY <1>16, JoinCat
  <2>2. Join(Cat(a, b)) = Cat(Join(a), Join(b))
    BY <1>16, JoinCat
  <2> QED BY <2>1, <2>2, Zenon DEF ab, abc
<1>19. Join(t) = Join(s)
  BY <1>9, <1>10, <1>11, <1>12, <1>17, <1>18, Zenon
<1> QED BY <1>14, <1>19
-----------------------------------------------------------------------------
(* In a text with the blanks replaced, the first byte of a blank is always  *)
(* followed by its second.                                                  *)
WholeBlanks(s) ==
  \A k \in 1 .. Len(s) : s[k] = BLANK[1] => k < Len(s) /\ s[k + 1] = BLANK[2]

(* Whole blanks stay whole when texts are joined.                           *)
LEMMA WholeBlanksCat ==
  ASSUME NEW u \in Seq(Nat), NEW v \in Seq(Nat), WholeBlanks(u), WholeBlanks(v)
  PROVE  WholeBlanks(Cat(u, v))
<1> DEFINE c == Cat(u, v)
<1>1. Len(u) \in Nat /\ Len(v) \in Nat
  BY LenProperties
<1>2. c \in Seq(Nat) /\ Len(c) = Len(u) + Len(v)
  BY CatIs
<1>3. \A k \in 1 .. Len(u) : c[k] = u[k]
  BY CatIs
<1>4. ASSUME NEW k \in 1 .. Len(v) PROVE c[Len(u) + k] = v[k]
  BY CatIs
<1> HIDE DEF c
<1>5. ASSUME NEW k \in 1 .. Len(c), c[k] = BLANK[1]
      PROVE  k < Len(c) /\ c[k + 1] = BLANK[2]
  <2>1. CASE k <= Len(u)
    <3>1. k \in 1 .. Len(u) /\ u[k] = BLANK[1]
      BY <1>1, <1>3, <1>5, <2>1
    <3>2. k < Len(u) /\ u[k + 1] = BLANK[2]
      BY <3>1 DEF WholeBlanks
    <3>3. k + 1 \in 1 .. Len(u)
      BY <1>1, <3>2
    <3> QED BY <1>1, <1>2, <1>3, <3>2, <3>3
  <2>2. CASE k > Len(u)
    <3>1. k - Len(u) \in 1 .. Len(v) /\ Len(u) + (k - Len(u)) = k
      BY <1>1, <1>2, <2>2
    <3>2. v[k - Len(u)] = BLANK[1]
      BY <1>4, <1>5, <3>1
    <3>3. k - Len(u) < Len(v) /\ v[(k - Len(u)) + 1] = BLANK[2]
      BY <3>1, <3>2 DEF WholeBlanks
    <3>4. (k - Len(u)) + 1 \in 1 .. Len(v) /\ Len(u) + ((k - Len(u)) + 1) = k + 1
      BY <1>1, <3>1, <3>3
    <3>5. c[k + 1] = BLANK[2]
      BY <1>4, <3>3, <3>4
    <3> QED BY <1>1, <1>2, <3>3, <3>5
  <2> QED BY <1>1, <1>2, <2>1, <2>2
<1> QED BY <1>5 DEF WholeBlanks, c

(* replace_spaces_with_G writes only whole blanks.                          *)
LEMMA BlanksAreWhole ==
  ASSUME NEW str \in Seq(Nat), \A k \in DOMAIN str : str[k] # BLANK[1]
  PROVE  WholeBlanks(replace_spaces_with_G(str))
<1> DEFINE pieces == Pieces(str)
           N == Len(str)
<1>1. N \in Nat /\ DOMAIN str = 1 .. N /\ \A k \in 1 .. N : str[k] \in Nat
  BY LenProperties, ElementOfSeq
<1>2. /\ pieces \in Seq(Seq(Nat)) /\ Len(pieces) = N
      /\ \A k \in 1 .. N : pieces[k] = IF str[k] = SPACE THEN BLANK ELSE <<str[k]>>
      /\ replace_spaces_with_G(str) = FlattenSeq(pieces)
  <2>1. Nat \in SUBSET Nat /\ BLANK \in Seq(Nat)
    BY TokenizerAssumption
  <2> QED BY <2>1, PiecesAre
<1> HIDE DEF pieces
<1>3. PICK f : Flattens(pieces, Nat, f)
  BY <1>2, FlattenIs
<1> DEFINE T == {i \in 0 .. N : WholeBlanks(f[i])}
<1>4. 0 \in T
  BY <1>1, <1>3 DEF Flattens, WholeBlanks
<1>5. ASSUME NEW i \in 0 .. N - 1, i \in T PROVE i + 1 \in T
  <2>1. i + 1 \in 1 .. N /\ (i + 1) - 1 = i /\ i \in 0 .. N
    BY <1>1
  <2>2. f[i + 1] = f[i] \o pieces[i + 1] /\ f[i] \in Seq(Nat)
    <3>1. i + 1 \in 1 .. Len(pieces) /\ i \in 0 .. Len(pieces)
      BY <1>2, <2>1
    <3>2. f[i + 1] = f[(i + 1) - 1] \o pieces[i + 1]
      BY <1>3, <3>1 DEF Flattens
    <3>3. f[i] \in Seq(Nat)
      BY <1>3, <3>1 DEF Flattens
    <3> QED BY <2>1, <3>2, <3>3
  <2>3. pieces[i + 1] \in Seq(Nat) /\ WholeBlanks(pieces[i + 1])
    <3>1. CASE str[i + 1] = SPACE
      <4>1. pieces[i + 1] = BLANK
        BY <1>2, <2>1, <3>1
      <4>2. BLANK \in Seq(Nat) /\ WholeBlanks(BLANK)
        BY TokenizerAssumption DEF WholeBlanks
      <4> QED BY <4>1, <4>2
    <3>2. CASE str[i + 1] # SPACE
      <4>1. pieces[i + 1] = <<str[i + 1]>>
        BY <1>2, <2>1, <3>2
      <4>2. str[i + 1] # BLANK[1] /\ str[i + 1] \in Nat
        BY <1>1, <2>1
      <4>3. WholeBlanks(<<str[i + 1]>>) /\ <<str[i + 1]>> \in Seq(Nat)
        BY <4>2 DEF WholeBlanks
      <4> QED BY <4>1, <4>3
    <3> QED BY <3>1, <3>2
  <2>4. WholeBlanks(Cat(f[i], pieces[i + 1]))
    BY <1>5, <2>2, <2>3, WholeBlanksCat
  <2>5. WholeBlanks(f[i + 1])
    BY <2>2, <2>4, Zenon DEF Cat
  <2> QED BY <2>1, <2>5
<1>6. \A i \in 0 .. N : i \in T
  <2> HIDE DEF T, N
  <2> QED BY <1>1, <1>4, <1>5, UpToInduction
<1>7. N \in T
  BY <1>1, <1>6
<1> QED BY <1>2, <1>3, <1>7 DEF Flattens

(* The first loop of encode spells a spellable text with whole code points. *)
LEMMA SpelledKeeps ==
  ASSUME NEW str \in Seq(Byte), BLANK \in Seq(Byte), Spellable(str)
  PROVE  /\ Spelled(replace_spaces_with_G(str)) \in Seq(Clean)
         /\ Join(Spelled(replace_spaces_with_G(str))) = replace_spaces_with_G(str)
<1> DEFINE s == replace_spaces_with_G(str)
           L == Len(s)
           end(k) == CodePointEnd(SubSeq(s, k, L))
           point(k) == SubSeq(s, k, k + end(k) - 1)
<1>1. \A b \in Byte : b \in Nat
  BY TokensAre
<1>2. s \in Seq(Byte)
  BY <1>1, PiecesAre
<1>3. L \in Nat /\ DOMAIN s = 1 .. L /\ \A k \in 1 .. L : s[k] \in Byte
  BY <1>2, LenProperties, ElementOfSeq
<1>4. WholeBlanks(s)
  <2>1. str \in Seq(Nat)
    BY <1>1, SeqMonotone
  <2>2. \A k \in DOMAIN str : str[k] # BLANK[1]
    BY DEF Spellable
  <2> QED BY <2>1, <2>2, BlanksAreWhole
<1>5. ASSUME NEW k \in 1 .. L
      PROVE  IF s[k] \in Continuation
             THEN \E j \in 1 .. 3 : j < k /\ s[k - j] \notin Continuation
             ELSE Known(point(k))
  BY <1>3 DEF Spellable
<1> HIDE DEF s
<1>6. PICK from : Spells(s, from)
  BY <1>2, SpelledIs
<1> DEFINE Start(k) == k = L + 1 \/ s[k] \notin Continuation
           Good(k) == from[k] \in Seq(Clean) /\ Join(from[k]) = SubSeq(s, k, L)
           T == {k \in 1 .. L + 1 : Start(k) => Good(k)}
<1>7. ASSUME NEW k \in 1 .. L + 1, \A j \in k + 1 .. L + 1 : j \in T PROVE k \in T
  <2>1. CASE k = L + 1
    <3>1. from[k] = << >>
      BY <1>6, <2>1 DEF Spells
    <3>2. << >> \in Seq(Clean) /\ SubSeq(s, k, L) = << >>
      BY <1>2, <1>3, <2>1
    <3> QED BY <3>1, <3>2, JoinOne, Zenon
  <2>2. CASE k # L + 1 /\ s[k] \notin Continuation
    <3> DEFINE e == end(k)
               p == point(k)
               one == <<str_lookup(p)>>
    <3>1. k \in 1 .. L
      BY <1>3, <2>2
    <3>2. /\ e \in 1 .. 4 /\ k + e <= L + 1
          /\ from[k] = CodePoint(p) \o from[k + e]
      BY <1>6, <3>1 DEF Spells, SpellingStep
    <3>3. Known(p)
      BY <1>5, <2>2, <3>1
    <3>4. str_lookup(p) \in Ids /\ Vocab[str_lookup(p)] = p
      <4> HIDE DEF p
      <4> QED BY <3>3, LookupIs
    <3>5. /\ Len(SubSeq(s, k, L)) = L - k + 1
          /\ \A j \in 1 .. L - k + 1 : SubSeq(s, k, L)[j] = s[k + j - 1]
      <4>1. \A j \in k .. L : s[j] \in Byte
        BY <1>3, <3>1
      <4> QED BY <1>3, <3>1, <4>1, SubSeqProperties
    <3>6. /\ e = 4 \/ k + e = L + 1 \/ s[k + e] \notin Continuation
          /\ \A j \in 1 .. e - 1 : s[k + j] \in Continuation
      <4> DEFINE r == SubSeq(s, k, L)
      <4>1. Len(r) \in Nat \ {0}
        BY <1>3, <3>1, <3>5
      <4> HIDE DEF r
      <4>2. /\ \/ e = 4 \/ e = Len(r) \/ r[e + 1] \notin Continuation
            /\ \A j \in 1 .. e - 1 : r[j + 1] \in Continuation
        BY <4>1, CodePointEndIs DEF r
      <4> HIDE DEF e, L
      <4>3. ASSUME e # 4, k + e # L + 1 PROVE s[k + e] \notin Continuation
        <5>1. e # Len(r) /\ e + 1 \in 1 .. L - k + 1 /\ k + (e + 1) - 1 = k + e
          BY <1>3, <3>1, <3>2, <3>5, <4>3 DEF r
        <5> QED BY <3>5, <4>2, <4>3, <5>1 DEF r
      <4>4. ASSUME NEW j \in 1 .. e - 1 PROVE s[k + j] \in Continuation
        <5>1. j + 1 \in 1 .. L - k + 1 /\ k + (j + 1) - 1 = k + j
          BY <1>3, <3>1, <3>2
        <5> QED BY <3>5, <4>2, <4>4, <5>1 DEF r
      <4> QED BY <4>3, <4>4
    <3> HIDE DEF e
    <3>7. p \in Seq(Nat) /\ Len(p) = e /\ \A j \in 1 .. e : p[j] = s[k + j - 1]
      <4>1. \A j \in k .. k + e - 1 : s[j] \in Nat
        BY <1>1, <1>3, <3>1, <3>2
      <4>2. p = SubSeq(s, k, k + e - 1)
        BY DEF e
      <4> HIDE DEF p
      <4> QED BY <3>1, <3>2, <4>1, <4>2, SubSeqProperties
    <3> HIDE DEF p
    <3>8. EndsWell(p)
      <4>1. SUFFICES ASSUME p[e] = BLANK[1] PROVE FALSE
        BY <3>2, <3>7 DEF EndsWell
      <4>2. p[e] = s[k + e - 1] /\ k + e - 1 \in 1 .. L /\ (k + e - 1) + 1 = k + e
        <5>1. e \in 1 .. e /\ k + e - 1 \in 1 .. L /\ (k + e - 1) + 1 = k + e
          BY <1>3, <3>1, <3>2
        <5> QED BY <3>7, <5>1
      <4>3. k + e - 1 < L /\ s[k + e] = BLANK[2]
        BY <1>4, <4>1, <4>2 DEF WholeBlanks
      <4>4. e = 4
        BY <1>3, <3>1, <3>2, <3>6, <4>3, TokenizerAssumption
      <4>5. 3 \in 1 .. e - 1 /\ k + 3 = k + e - 1
        BY <3>1, <4>4
      <4>6. s[k + e - 1] \in Continuation
        BY <3>6, <4>5
      <4> QED BY <4>1, <4>2, <4>6, TokenizerAssumption
    <3>9. Start(k + e)
      <4>1. SUFFICES ASSUME k + e # L + 1, s[k + e] \in Continuation PROVE FALSE
        OBVIOUS
      <4>2. e = 4 /\ k + e \in 1 .. L
        BY <1>3, <3>1, <3>2, <3>6, <4>1
      <4>3. PICK j \in 1 .. 3 : s[(k + e) - j] \notin Continuation
        BY <1>5, <4>1, <4>2
      <4>4. 4 - j \in 1 .. e - 1 /\ (k + e) - j = k + (4 - j)
        BY <3>1, <4>2
      <4> QED BY <3>6, <4>3, <4>4
    <3>10. Good(k + e)
      <4>1. k + e \in k + 1 .. L + 1
        BY <1>3, <3>1, <3>2
      <4> QED BY <1>7, <3>9, <4>1
    <3>11. one \in Seq(Clean) /\ Join(one) = p /\ CodePoint(p) = one
      <4>1. str_lookup(p) \in Clean
        BY <3>4, <3>8 DEF Clean
      <4>2. Join(one) = p
        BY <3>4, JoinOne
      <4>3. CodePoint(p) = one
        BY <3>3, Zenon DEF CodePoint
      <4> QED BY <4>1, <4>2, <4>3
    <3> HIDE DEF one
    <3>12. from[k] = Cat(one, from[k + e])
      BY <3>2, <3>11, Zenon DEF Cat, p, e
    <3>13. from[k + e] \in Seq(Clean) /\ Join(from[k + e]) = SubSeq(s, k + e, L)
      BY <3>10
    <3>14. Cat(one, from[k + e]) \in Seq(Clean)
      BY <3>11, <3>13, CatIs
    <3>15. Join(Cat(one, from[k + e])) = Cat(p, SubSeq(s, k + e, L))
      <4>1. Clean \subseteq Ids
        BY DEF Clean
      <4>2. one \in Seq(Ids) /\ from[k + e] \in Seq(Ids)
        BY <3>11, <3>13, <4>1, SeqMonotone
      <4>3. Join(Cat(one, from[k + e])) = Cat(Join(one), Join(from[k + e]))
        BY <4>2, JoinCat
      <4> QED BY <3>11, <3>13, <4>3, Zenon
    <3>16. Cat(p, SubSeq(s, k + e, L)) = SubSeq(s, k, L)
      <4> DEFINE w == SubSeq(s, k + e, L)
                 v == SubSeq(s, k, L)
                 c == Cat(p, w)
      <4>1. w \in Seq(Nat) /\ Len(w) = L - (k + e) + 1
            /\ \A j \in 1 .. L - (k + e) + 1 : w[j] = s[(k + e) + j - 1]
        <5>1. \A j \in k + e .. L : s[j] \in Nat
          BY <1>1, <1>3, <3>1, <3>2
        <5>2. k + e \in Nat /\ k + e <= L + 1
          BY <3>1, <3>2
        <5> HIDE DEF L
        <5> QED BY <1>3, <3>1, <3>2, <5>1, <5>2, SubSeqProperties
      <4>2. v \in Seq(Nat)
        <5>1. \A j \in k .. L : s[j] \in Nat
          BY <1>1, <1>3, <3>1
        <5> QED BY <1>3, <3>1, <5>1, SubSeqProperties
      <4>3. Len(v) = L - k + 1 /\ \A j \in 1 .. L - k + 1 : v[j] = s[k + j - 1]
        BY <3>5
      <4> HIDE DEF v, w
      <4>4. c \in Seq(Nat) /\ Len(c) = Len(p) + Len(w)
        BY <3>7, <4>1, CatIs
      <4>5. \A j \in 1 .. Len(p) : c[j] = p[j]
        <5>1. p \in Seq(Nat) /\ w \in Seq(Nat)
          BY <3>7, <4>1
        <5> QED BY <5>1, CatIs
      <4>6. ASSUME NEW j \in 1 .. Len(w) PROVE c[Len(p) + j] = w[j]
        <5>1. p \in Seq(Nat) /\ w \in Seq(Nat)
          BY <3>7, <4>1
        <5>2. Cat(p, w)[Len(p) + j] = w[j]
          BY <5>1, CatIs
        <5> QED BY <5>2
      <4> HIDE DEF c, L
      <4>7. Len(c) = Len(v)
        BY <1>3, <3>1, <3>2, <3>7, <4>1, <4>3, <4>4
      <4>8. ASSUME NEW j \in 1 .. Len(v) PROVE c[j] = v[j]
        <5>1. CASE j <= e
          <6>1. j \in 1 .. e /\ j \in 1 .. Len(p)
            BY <3>2, <3>7, <5>1
          <6> QED BY <3>7, <4>3, <4>5, <6>1
        <5>2. CASE j > e
          <6>1. /\ j - e \in 1 .. Len(w) /\ j - e \in 1 .. L - (k + e) + 1
                /\ Len(p) + (j - e) = j /\ (k + e) + (j - e) - 1 = k + j - 1
            BY <1>3, <3>1, <3>2, <3>7, <4>1, <4>3, <5>2
          <6>2. c[j] = w[j - e]
            BY <4>6, <6>1
          <6>3. w[j - e] = s[k + j - 1]
            BY <4>1, <6>1
          <6> QED BY <4>3, <6>2, <6>3
        <5> QED BY <3>2, <4>3, <5>1, <5>2
      <4>9. c = v
        BY <4>2, <4>4, <4>7, <4>8, SeqEqual
      <4> QED BY <4>9 DEF c, v, w
    <3>17. Good(k)
      BY <3>12, <3>14, <3>15, <3>16
    <3> QED BY <3>17
  <2>3. CASE k # L + 1 /\ s[k] \in Continuation
    BY <2>3
  <2> QED BY <2>1, <2>2, <2>3
<1>8. \A k \in 1 .. L + 1 : k \in T
  <2>1. L + 1 \in Nat
    BY <1>3
  <2> HIDE DEF T, L
  <2> QED BY <1>7, <2>1, BackwardInduction
<1>9. Start(1)
  <2>1. CASE L = 0
    BY <2>1
  <2>2. CASE L # 0
    <3>1. 1 \in 1 .. L
      BY <1>3, <2>2
    <3>2. ~(\E j \in 1 .. 3 : j < 1 /\ s[1 - j] \notin Continuation)
      OBVIOUS
    <3> QED BY <1>5, <3>1, <3>2
  <2> QED BY <2>1, <2>2
<1>10. Good(1)
  <2>1. 1 \in 1 .. L + 1
    BY <1>3
  <2> QED BY <1>8, <1>9, <2>1
<1>11. SubSeq(s, 1, L) = s
  BY <1>2, <1>3
<1>12. Spelled(s) = from[1]
  BY <1>6 DEF Spells
<1> QED BY <1>10, <1>11, <1>12 DEF s
-----------------------------------------------------------------------------
(* ---- the programs ---- *)
Preparing == {"setup", "system", "user"}

ProgramTypeOK ==
  /\ pc \in {"setup", "system", "user", "loop", "forward", "next", "report", "done"}
  /\ header \in Headers /\ text \in Seq(Byte)
  /\ \E request \in Requests :
       /\ entry = request[1] /\ max_steps = request[2]
       /\ temperature = request[3] /\ topp = request[4]
  /\ toks \in Seq(Tokens) /\ prompt_tokens \in Seq(Tokens)
  /\ pc \in {"system", "user"} => Encodes
  /\ pc \notin {"setup", "system"} => prompt_tokens # << >>

TextsAreBytes ==
  /\ \A str \in UserTexts : str \in Seq(Byte)
  /\ SystemText \in Seq(Byte) /\ BLANK \in Seq(Byte) /\ << >> \in Seq(Byte)

(* The texts of the prompt are bytes.                                       *)
LEMMA Texts == TextsAreBytes
BY TokensAssumption, EmptySeq DEF TextsAreBytes, Byte

(* encode spells a text with tokens of the vocabulary.                      *)
LEMMA SpelledTyped ==
  ASSUME NEW str \in Seq(Byte)
  PROVE  Spelled(replace_spaces_with_G(str)) \in Seq(Tokens)
<1> DEFINE s == replace_spaces_with_G(str)
<1>1. s \in Seq(Byte)
  <2>1. Byte \in SUBSET Nat /\ BLANK \in Seq(Byte)
    BY TokensAre, Texts DEF TextsAreBytes
  <2> QED BY <2>1, PiecesAre
<1> HIDE DEF s
<1>2. PICK f : Spells(s, f)
  BY <1>1, SpelledIs
<1>3. Len(s) \in Nat
  BY <1>1, LenProperties
<1>4. f[1] \in Seq(Tokens) /\ Spelled(s) = f[1]
  BY <1>2, <1>3 DEF Spells
<1> QED BY <1>4 DEF s

(* The template around tokens is a prompt of tokens that is not empty.      *)
LEMMA TemplateTyped ==
  ASSUME NEW list \in Seq(Tokens), NEW before \in Seq(Tokens)
  PROVE  /\ Opening \o list \o Between \in Seq(Tokens) \ {<< >>}
         /\ before \o list \o Closing \in Seq(Tokens) \ {<< >>}
<1>1. /\ IM_START \in Tokens /\ IM_END \in Tokens /\ SYSTEM \in Tokens
      /\ USER \in Tokens /\ ASSISTANT \in Tokens /\ NL \in Tokens
  BY TokensAssumption
<1>2. Opening \in Seq(Tokens) /\ Len(Opening) = 3
  BY <1>1 DEF Opening
<1>3. Between \in Seq(Tokens) /\ Len(Between) = 5
  BY <1>1 DEF Between
<1>4. Closing \in Seq(Tokens) /\ Len(Closing) = 5
  BY <1>1 DEF Closing
<1>5. ASSUME NEW a \in Seq(Tokens), NEW b \in Seq(Tokens), Len(b) = 5
      PROVE  a \o list \o b \in Seq(Tokens) \ {<< >>}
  <2>1. /\ a \o list \in Seq(Tokens) /\ Len(a) \in Nat /\ Len(list) \in Nat
        /\ Len(a \o list) = Len(a) + Len(list)
    BY LenProperties, ConcatProperties
  <2> DEFINE q == a \o list
  <2>2. q \in Seq(Tokens) /\ Len(q) \in Nat
    BY <2>1
  <2> HIDE DEF q
  <2>3. q \o b \in Seq(Tokens) /\ Len(q \o b) = Len(q) + 5
    <3>1. Cat(q, b) \in Seq(Tokens) /\ Len(Cat(q, b)) = Len(q) + Len(b)
      BY <2>2, CatIs
    <3>2. Len(Cat(q, b)) = Len(q) + 5
      BY <1>5, <3>1
    <3> QED BY <3>1, <3>2, Zenon DEF Cat
  <2>4. Len(q \o b) # 0
    BY <2>2, <2>3
  <2> QED BY <2>3, <2>4, EmptySeq DEF q
<1> QED BY <1>2, <1>3, <1>4, <1>5

(* The programs start well typed.                                           *)
LEMMA InitTypeOK == ProgramInit => ProgramTypeOK
<1> SUFFICES ASSUME ProgramInit PROVE ProgramTypeOK
  OBVIOUS
<1>1. text \in Seq(Byte)
  BY Texts DEF ProgramInit, TextsAreBytes
<1>2. toks \in Seq(Tokens) /\ prompt_tokens \in Seq(Tokens)
  BY EmptySeq DEF ProgramInit
<1>3. pc = "setup"
  BY DEF ProgramInit
<1> QED BY <1>1, <1>2, <1>3 DEF ProgramInit, ProgramTypeOK

(* Every step keeps the types.                                              *)
LEMMA NextTypeOK == ProgramTypeOK /\ [ProgramNext]_vars => ProgramTypeOK'
<1> SUFFICES ASSUME ProgramTypeOK, [ProgramNext]_vars PROVE ProgramTypeOK'
  OBVIOUS
<1> USE DEF ProgramTypeOK, settings, Encodes
<1>1. CASE SetupText
  <2>1. toks' \in Seq(Tokens)
    BY <1>1, Texts, SpelledTyped DEF SetupText, TextsAreBytes
  <2> QED BY <1>1, <2>1 DEF SetupText, chatVars
<1>2. CASE SetupTokens
  <2>1. prompt_tokens' \in Seq(Tokens) \ {<< >>}
    BY <1>2, TokensAssumption DEF SetupTokens
  <2> QED BY <1>2, <2>1 DEF SetupTokens
<1>3. CASE Merge
  <2>1. toks' \in Seq(Tokens)
    <3>1. CanMerge(toks) /\ toks' = MergeBest(toks) /\ Len(toks) \in Nat
      BY <1>3, LenProperties DEF Merge
    <3>2. IsMerge(toks, toks')
      BY <3>1, MergeIs
    <3>3. Ids \subseteq Tokens
      BY TokensAssumption DEF Ids
    <3> QED BY <3>2, <3>3, MergeTyped
  <2> QED BY <1>3, <2>1 DEF Merge, chatVars
<1>4. CASE PromoteSystem
  <2>1. toks' \in Seq(Tokens)
    BY <1>4, SpelledTyped DEF PromoteSystem
  <2>2. prompt_tokens' \in Seq(Tokens) \ {<< >>}
    BY <1>4, TemplateTyped DEF PromoteSystem
  <2> QED BY <1>4, <2>1, <2>2 DEF PromoteSystem
<1>5. CASE PromoteUser
  <2>1. prompt_tokens' \in Seq(Tokens) \ {<< >>}
    BY <1>5, TemplateTyped DEF PromoteUser
  <2> QED BY <1>5, <2>1 DEF PromoteUser
<1>6. CASE LoopHead
  BY <1>6 DEF LoopHead
<1>7. CASE Forward
  BY <1>7 DEF Forward, chatVars
<1>8. CASE NextToken
  BY <1>8 DEF NextToken, ChatStop, ChatGoOn, GenStop, GenGoOn
<1>9. CASE LoopEnd
  BY <1>9 DEF LoopEnd, chatVars
<1>10. CASE ChatReport \/ GenReport
  BY <1>10 DEF ChatReport, GenReport, chatVars
<1>11. CASE UNCHANGED vars
  BY <1>11 DEF vars, chatVars
<1> QED
  BY <1>1, <1>2, <1>3, <1>4, <1>5, <1>6, <1>7, <1>8, <1>9, <1>10, <1>11
     DEF ProgramNext
-----------------------------------------------------------------------------
WeightsInv == pc # "setup" => weights = read_checkpoint(header).weights

(* Whatever the dimensions, shared or separate classifier, every tensor is  *)
(* read from where the exporter wrote it (memory_map_weights, run_fa.c).    *)
THEOREM WeightsSafe == ProgramSpec => []WeightsInPlace
<1>1. ProgramInit => WeightsInv
  BY DEF ProgramInit, WeightsInv
<1>2. WeightsInv /\ [ProgramNext]_vars => WeightsInv'
  <2> SUFFICES ASSUME WeightsInv, [ProgramNext]_vars PROVE WeightsInv'
    OBVIOUS
  <2>1. header' = header
    BY DEF ProgramNext, vars, settings, SetupText, SetupTokens, Merge, PromoteSystem,
           PromoteUser, LoopHead, Forward, NextToken, LoopEnd, ChatReport, GenReport
  <2>2. CASE SetupText \/ SetupTokens
    BY <2>1, <2>2 DEF SetupText, SetupTokens, WeightsInv
  <2>3. CASE ~(SetupText \/ SetupTokens)
    <3>1. weights' = weights /\ (pc' # "setup" => pc # "setup")
      BY <2>3 DEF ProgramNext, vars, Merge, PromoteSystem, PromoteUser, LoopHead,
                  Forward, NextToken, LoopEnd, ChatReport, GenReport
    <3> QED BY <2>1, <3>1 DEF WeightsInv
  <2> QED BY <2>2, <2>3
<1>3. ProgramTypeOK /\ WeightsInv => WeightsInPlace
  <2> SUFFICES ASSUME header \in Headers, pc # "setup",
                      weights = read_checkpoint(header).weights
               PROVE  WeightsInPlace
    BY DEF ProgramTypeOK, WeightsInv, WeightsInPlace
  <2>1. WellFormed(header)
    BY HeadersAssumption
  <2> QED BY <2>1, EveryTensorInPlace DEF WeightsInPlace
<1> QED BY <1>1, <1>2, <1>3, InitTypeOK, NextTypeOK, PTL DEF ProgramSpec
-----------------------------------------------------------------------------
(* What the tokens of the user's text spell at every round of merging.      *)
TextInv ==
  pc \notin {"setup", "system"} /\ Encodes /\ Spellable(text) =>
    toks \in Seq(Clean) /\ Join(toks) = replace_spaces_with_G(text)

(* A text the vocabulary spells decodes to itself at every round of merging *)
(* (encode and decode, run_fa.c).                                           *)
THEOREM TextSafe == ProgramSpec => []RoundTrip
<1>1. ProgramInit => TextInv
  BY DEF ProgramInit, TextInv
<1>2. ProgramTypeOK /\ TextInv /\ [ProgramNext]_vars => TextInv'
  <2> SUFFICES ASSUME ProgramTypeOK, TextInv, [ProgramNext]_vars,
                      pc' \notin {"setup", "system"}, Encodes', Spellable(text)'
               PROVE  toks' \in Seq(Clean) /\ Join(toks') = replace_spaces_with_G(text')
    BY DEF TextInv
  <2>1. text' = text /\ entry' = entry
    BY DEF ProgramNext, vars, settings, SetupText, SetupTokens, Merge, PromoteSystem,
           PromoteUser, LoopHead, Forward, NextToken, LoopEnd, ChatReport, GenReport
  <2>2. Spellable(text) /\ Encodes
    BY <2>1 DEF Encodes
  <2>3. CASE SetupText
    BY <2>3 DEF SetupText
  <2>4. CASE SetupTokens
    BY <2>2, <2>4 DEF SetupTokens
  <2>5. CASE Merge
    <3>1. toks \in Seq(Clean) /\ Join(toks) = replace_spaces_with_G(text)
      BY <2>2, <2>5 DEF Merge, TextInv
    <3>2. IsMerge(toks, toks')
      BY <2>5, <3>1, LenProperties, MergeIs DEF Merge
    <3> QED BY <2>1, <3>1, <3>2, MergeKeeps
  <2>6. CASE PromoteSystem
    <3>1. toks' = Spelled(replace_spaces_with_G(text)) /\ text \in Seq(Byte)
      BY <2>6 DEF PromoteSystem, ProgramTypeOK
    <3> QED BY <2>1, <2>2, <3>1, Texts, SpelledKeeps DEF TextsAreBytes
  <2>7. CASE ~(SetupText \/ SetupTokens \/ Merge \/ PromoteSystem)
    <3>1. toks' = toks /\ pc \notin {"setup", "system"}
      BY <2>7 DEF ProgramNext, vars, PromoteUser, LoopHead,
                  Forward, NextToken, LoopEnd, ChatReport, GenReport
    <3> QED BY <2>1, <2>2, <3>1 DEF TextInv
  <2> QED BY <2>3, <2>4, <2>5, <2>6, <2>7
<1>3. ProgramTypeOK /\ TextInv => RoundTrip
  <2> SUFFICES ASSUME text \in Seq(Byte), toks \in Seq(Clean), Spellable(text),
                      Join(toks) = replace_spaces_with_G(text)
               PROVE  FlattenSeq([k \in DOMAIN toks |-> decode(toks[k])]) = text
    BY DEF ProgramTypeOK, TextInv, RoundTrip
  <2>1. FlattenSeq([k \in DOMAIN toks |-> decode(toks[k])]) = Decoded(Join(toks))
    BY CleanDecodes, Zenon
  <2>2. text \in Seq(Nat)
    <3>1. Byte \subseteq Nat
      BY TokensAre
    <3> QED BY <3>1, SeqMonotone
  <2>3. \A k \in DOMAIN text : text[k] # BLANK[1]
    BY DEF Spellable
  <2>4. Decoded(replace_spaces_with_G(text)) = text
    BY <2>2, <2>3, BlanksBack
  <2> QED BY <2>1, <2>4, Zenon
<1> QED BY <1>1, <1>2, <1>3, InitTypeOK, NextTypeOK, PTL DEF ProgramSpec
-----------------------------------------------------------------------------
(* ---- the clock ---- *)
Elements(s) == {s[k] : k \in 1 .. Len(s)}

(* Append, for a sequence whose elements may be anything.                   *)
LEMMA AppendAny ==
  ASSUME NEW s, s \in Seq(Elements(s)), NEW e
  PROVE  /\ Append(s, e) \in Seq(Elements(Append(s, e)))
         /\ Len(Append(s, e)) = Len(s) + 1 /\ Len(s) \in Nat
<1> DEFINE S == Elements(s) \cup {e}
           r == Append(s, e)
<1>1. s \in Seq(S)
  <2> HIDE DEF S
  <2>1. Elements(s) \subseteq S
    BY DEF S
  <2> QED BY <2>1, SeqMonotone
<1> HIDE DEF S
<1>2. r \in Seq(S) /\ Len(r) = Len(s) + 1 /\ Len(s) \in Nat
  <2>1. e \in S
    BY DEF S
  <2> QED BY <1>1, <2>1, AppendProperties, LenProperties
<1> HIDE DEF r
<1>3. r \in Seq(Elements(r))
  <2>1. Len(r) \in Nat /\ r \in [1 .. Len(r) -> S]
    BY <1>2, LenProperties
  <2>2. r \in [1 .. Len(r) -> Elements(r)]
    BY <2>1 DEF Elements
  <2> QED BY <2>1, <2>2, SeqDef
<1> QED BY <1>2, <1>3 DEF r

(* The clock starts at 1 with the first call, is stopped after the last     *)
(* call of the prompt, and starts again with the next one.                  *)
Started == IF pos < n THEN 1 ELSE n + 1
Filled_in == IF pos < n THEN 0 ELSE n

ClockInv ==
  /\ fed \in Seq(Elements(fed)) /\ pos \in Nat
  /\ pc \in Preparing => pos = 0 /\ fed = << >> /\ start = 0 /\ prefill = 0
  /\ pc = "loop" => /\ Len(fed) = pos /\ prefill = Filled_in
                    /\ start = IF pos \in {0, n} THEN 0 ELSE Started
  /\ pc \in {"forward", "next"} =>
       Len(fed) = pos + 1 /\ prefill = Filled_in /\ start = Started
  /\ pc \in {"report", "done"} =>
       Len(fed) = pos /\ (pos > n => start = n + 1 /\ prefill = n)
  /\ pc = "done" /\ report.decode > 0 =>
       report.prefill_time = report.prefill /\ report.decode_time = report.decode

(* The clock invariant holds at the start.                                  *)
LEMMA InitClockInv == ProgramInit => ClockInv
<1> SUFFICES ASSUME ProgramInit PROVE ClockInv
  OBVIOUS
<1>1. fed = << >> /\ fed \in Seq(Elements(fed))
  BY EmptySeq DEF ProgramInit, Init
<1> QED BY <1>1 DEF ProgramInit, ClockInv, Preparing

(* Every step keeps the clock invariant.                                    *)
LEMMA NextClockInv == ProgramTypeOK /\ ClockInv /\ [ProgramNext]_vars => ClockInv'
<1> SUFFICES ASSUME ProgramTypeOK, ClockInv, [ProgramNext]_vars PROVE ClockInv'
  OBVIOUS
<1>0. n \in Nat /\ (pc \notin {"setup", "system"} => n > 0)
  BY LenProperties, EmptySeq DEF ProgramTypeOK, n
<1>1. CASE SetupText
  BY <1>1 DEF SetupText, ClockInv, Preparing, chatVars, modelVars
<1>2. CASE SetupTokens
  <2>1. prompt_tokens' \in Seq(Tokens) \ {<< >>}
    BY <1>2, TokensAssumption DEF SetupTokens
  <2>2. n' \in Nat /\ n' > 0
    BY <2>1, LenProperties, EmptySeq DEF n
  <2>3. Len(fed') = 0 /\ pos' = 0 /\ start' = 0 /\ prefill' = 0 /\ fed' = fed /\ pc' = "loop"
    BY <1>2 DEF SetupTokens, ClockInv, Preparing, modelVars
  <2> QED BY <2>2, <2>3 DEF ClockInv, Preparing, Started, Filled_in
<1>3. CASE Merge
  BY <1>3 DEF Merge, ClockInv, Preparing, chatVars, modelVars
<1>4. CASE PromoteSystem
  BY <1>4 DEF PromoteSystem, ClockInv, Preparing, modelVars
<1>5. CASE PromoteUser
  <2>1. prompt_tokens' \in Seq(Tokens) \ {<< >>}
    BY <1>5, TemplateTyped DEF PromoteUser, ProgramTypeOK
  <2>2. n' \in Nat /\ n' > 0
    BY <2>1, LenProperties, EmptySeq DEF n
  <2>3. Len(fed') = 0 /\ pos' = 0 /\ start' = 0 /\ prefill' = 0 /\ fed' = fed /\ pc' = "loop"
    BY <1>5 DEF PromoteUser, ClockInv, Preparing, modelVars
  <2> QED BY <2>2, <2>3 DEF ClockInv, Preparing, Started, Filled_in
<1>6. CASE LoopHead
  <2>1. /\ pc = "loop" /\ pc' = "forward" /\ pos' = pos /\ n' = n /\ prefill' = prefill
        /\ start' = IF start = 0 THEN Now ELSE start
        /\ fed' = Append(fed, token)
    BY <1>6 DEF LoopHead, Embed, n
  <2>2. Len(fed') = Len(fed) + 1 /\ fed' \in Seq(Elements(fed')) /\ Len(fed) \in Nat
    BY <2>1, AppendAny DEF ClockInv
  <2>3. Now = pos + 1 /\ pos \in Nat /\ n > 0
    BY <1>0, <2>1 DEF ClockInv, Now
  <2>4. start' = Started
    <3>1. start = IF pos \in {0, n} THEN 0 ELSE Started
      BY <2>1 DEF ClockInv
    <3>2. Started \in Nat \ {0} /\ (pos \in {0, n} => Started = pos + 1)
      BY <1>0, <2>3 DEF Started
    <3> QED BY <2>1, <2>3, <3>1, <3>2
  <2> QED BY <1>0, <2>1, <2>2, <2>3, <2>4 DEF ClockInv, Preparing, Started, Filled_in
<1>7. CASE Forward
  <2>1. /\ pc = "forward" /\ pc' \in {"forward", "next"} /\ fed' = fed
        /\ pos' = pos /\ n' = n /\ prefill' = prefill /\ start' = start
    BY <1>7 DEF Forward, Layer, Classify, chatVars, n
  <2> QED BY <2>1 DEF ClockInv, Preparing, Started, Filled_in
<1>8. CASE NextToken
  <2>1. /\ pc = "next" /\ pos' = pos + 1 /\ n' = n /\ fed' = fed
        /\ pc' \in {"loop", "report"} /\ pos \in Nat /\ n > 0
        /\ Len(fed) = pos + 1 /\ prefill = Filled_in /\ start = Started
    BY <1>0, <1>8 DEF NextToken, modelVars, n, ChatStop, ChatGoOn, GenStop, GenGoOn, ClockInv
  <2>2. Now = pos + 2
    BY <2>1 DEF Now
  <2>3. PICK nxt : ChatStop(nxt) \/ ChatGoOn(nxt) \/ GenStop(nxt) \/ GenGoOn(nxt)
    BY <1>8 DEF NextToken
  <2>4. CASE ChatStop(nxt)
    <3>1. pc' = "report" /\ start' = start /\ (pos >= n => prefill' = prefill)
      BY <1>0, <2>1, <2>4 DEF ChatStop, Started, Filled_in
    <3> QED BY <1>0, <2>1, <3>1 DEF ClockInv, Preparing, Started, Filled_in
  <2>5. CASE ChatGoOn(nxt) \/ GenGoOn(nxt)
    <3>1. /\ pc' = "loop"
          /\ IF pos + 1 = n THEN prefill' = Now - start /\ start' = 0
             ELSE prefill' = prefill /\ start' = start
      BY <2>5 DEF ChatGoOn, GenGoOn, PrefillEnd
    <3>2. CASE pos + 1 = n
      BY <1>0, <2>1, <2>2, <3>1, <3>2 DEF ClockInv, Preparing, Started, Filled_in
    <3>3. CASE pos + 1 # n
      BY <1>0, <2>1, <3>1, <3>3 DEF ClockInv, Preparing, Started, Filled_in
    <3> QED BY <3>2, <3>3
  <2>6. CASE GenStop(nxt)
    <3>1. pc' = "report" /\ start' = start /\ prefill' = prefill
      BY <2>6 DEF GenStop
    <3> QED BY <1>0, <2>1, <3>1 DEF ClockInv, Preparing, Started, Filled_in
  <2> QED BY <2>3, <2>4, <2>5, <2>6
<1>9. CASE LoopEnd
  <2>1. /\ pc = "loop" /\ pc' = "report" /\ fed' = fed
        /\ pos' = pos /\ n' = n /\ prefill' = prefill /\ start' = start
    BY <1>9 DEF LoopEnd, chatVars, modelVars, n
  <2> QED BY <1>0, <2>1 DEF ClockInv, Preparing, Started, Filled_in
<1>10. CASE ChatReport \/ GenReport
  <2>1. /\ pc = "report" /\ pc' = "done" /\ fed' = fed
        /\ pos' = pos /\ n' = n /\ prefill' = prefill /\ start' = start
    BY <1>10 DEF ChatReport, GenReport, chatVars, modelVars, n
  <2>2. Len(fed) = pos /\ pos \in Nat /\ (pos > n => start = n + 1 /\ prefill = n) /\ n > 0
    BY <1>0, <2>1 DEF ClockInv
  <2>3. \/ Reported(IF start = 0 THEN 1 ELSE Now - start)
        \/ Reported(Now - start)
    BY <1>10 DEF ChatReport, GenReport
  <2>4. ASSUME report'.decode > 0
        PROVE  report'.prefill_time = report'.prefill /\ report'.decode_time = report'.decode
    <3>1. CASE pos > n
      <4>1. pos > 1 /\ start = n + 1 /\ start # 0 /\ prefill = n /\ Now - start = pos - n
        BY <1>0, <2>2, <3>1 DEF Now
      <4>2. report' = [prefill |-> n, decode |-> pos - n,
                       prefill_time |-> n, decode_time |-> pos - n]
        BY <2>3, <4>1 DEF Reported
      <4> QED BY <4>2
    <3>2. CASE ~(pos > n)
      <4>1. report'.decode = pos - n \/ report'.decode = 0
        BY <2>3 DEF Reported, NoReport
      <4> QED BY <1>0, <2>2, <2>4, <3>2, <4>1
    <3> QED BY <3>1, <3>2
  <2> QED BY <1>0, <2>1, <2>2, <2>4 DEF ClockInv, Preparing
<1>11. CASE UNCHANGED vars
  BY <1>11 DEF vars, chatVars, modelVars, ClockInv, Preparing, Started, Filled_in, n
<1> QED
  BY <1>1, <1>2, <1>3, <1>4, <1>5, <1>6, <1>7, <1>8, <1>9, <1>10, <1>11
     DEF ProgramNext

(* The prefill throughput is over the calls that fed the prompt and the     *)
(* decode throughput over those that fed the answer (chat, run_fa.c).       *)
THEOREM ThroughputSafe == ProgramSpec => []ThroughputOfItsPhase
<1>1. ClockInv => ThroughputOfItsPhase
  BY DEF ClockInv, ThroughputOfItsPhase
<1> QED
  BY <1>1, InitTypeOK, NextTypeOK, InitClockInv, NextClockInv, PTL DEF ProgramSpec
-----------------------------------------------------------------------------
(* ---- the sampler ---- *)

(* The running sums over a list of tokens.                                  *)
LEMMA CdfIs ==
  ASSUME NEW prob, NEW order, Len(order) \in Nat,
         \A i \in 1 .. Len(order) : prob[order[i]] \in Nat
  PROVE  /\ Cdf(prob, order) \in [0 .. Len(order) -> Nat]
         /\ Cdf(prob, order)[0] = 0
         /\ \A i \in 1 .. Len(order) :
              Cdf(prob, order)[i] = Cdf(prob, order)[i - 1] + prob[order[i]]
<1> DEFINE N == Len(order)
           h == [i \in 1 .. N |-> [v \in Nat |-> v + prob[order[i]]]]
           Rec(f) == [k \in 0 .. N |-> IF k = 0 THEN 0 ELSE f[k - 1] + prob[order[k]]]
           sum == CHOOSE f : f = Rec(f)
<1>1. h \in [1 .. N -> [Nat -> Nat]]
  OBVIOUS
<1>2. PICK g \in [0 .. N -> Nat] : g[0] = 0 /\ \A i \in 1 .. N : g[i] = h[i][g[i - 1]]
  <2>1. N \in Nat /\ 0 \in Nat
    OBVIOUS
  <2>2. \E g : Iterates(g, N, Nat, 0, h)
    <3> HIDE DEF h, N
    <3> QED BY <1>1, <2>1, Iterated
  <2> HIDE DEF h, N
  <2> QED BY <2>2 DEF Iterates
<1>3. g = Rec(g)
  <2>1. ASSUME NEW k \in 0 .. N
        PROVE  g[k] = IF k = 0 THEN 0 ELSE g[k - 1] + prob[order[k]]
    <3>1. CASE k = 0
      BY <1>2, <3>1
    <3>2. CASE k # 0
      <4>1. k \in 1 .. N /\ k - 1 \in 0 .. N
        BY <3>2
      <4>2. g[k] = h[k][g[k - 1]] /\ g[k - 1] \in Nat
        BY <1>2, <4>1
      <4> QED BY <3>2, <4>1, <4>2
    <3> QED BY <3>1, <3>2
  <2> QED BY <2>1, <1>2
<1>4. sum = Rec(sum)
  <2>1. \E f : f = Rec(f)
    BY <1>3
  <2> HIDE DEF Rec
  <2> QED BY <2>1
<1>5. Cdf(prob, order) = sum
  BY DEF Cdf
<1>6. /\ Cdf(prob, order)[0] = 0
      /\ \A i \in 1 .. N : Cdf(prob, order)[i] = Cdf(prob, order)[i - 1] + prob[order[i]]
      /\ Cdf(prob, order) = [k \in 0 .. N |-> Cdf(prob, order)[k]]
  <2> DEFINE F == Cdf(prob, order)
  <2>1. F = [k \in 0 .. N |-> IF k = 0 THEN 0 ELSE F[k - 1] + prob[order[k]]]
    BY <1>4, <1>5
  <2> HIDE DEF F
  <2>2. F[0] = 0 /\ F = [k \in 0 .. N |-> F[k]]
    BY <2>1
  <2>3. \A i \in 1 .. N : F[i] = F[i - 1] + prob[order[i]]
    BY <2>1
  <2> QED BY <2>2, <2>3 DEF F
<1> DEFINE T == {i \in 0 .. N : Cdf(prob, order)[i] \in Nat}
<1>7. \A i \in 0 .. N : i \in T
  <2>1. 0 \in T
    BY <1>6
  <2>2. ASSUME NEW i \in 0 .. N - 1, i \in T PROVE i + 1 \in T
    <3>1. i + 1 \in 1 .. N /\ (i + 1) - 1 = i
      OBVIOUS
    <3>2. Cdf(prob, order)[i + 1] = Cdf(prob, order)[i] + prob[order[i + 1]]
      BY <1>6, <3>1
    <3> QED BY <2>2, <3>1, <3>2
  <2> HIDE DEF T
  <2> QED BY <2>1, <2>2, UpToInduction
<1> QED BY <1>6, <1>7
-----------------------------------------------------------------------------
(* Min of a set of numbers that is not empty.                               *)
LEMMA LeastIs ==
  ASSUME NEW N \in Nat, NEW I \in SUBSET (0 .. N), I # {}
  PROVE  Min(I) \in I /\ \A j \in I : Min(I) <= j
<1> DEFINE sc == [i \in I |-> 0]
<1>1. \A i \in I : sc[i] = 0 /\ sc[i] \in Int
  OBVIOUS
<1>2. PICK i \in I : \A j \in I : sc[j] < sc[i] \/ (sc[j] = sc[i] /\ i <= j)
  <2>1. \A i \in I : sc[i] \in Int
    BY <1>1
  <2> HIDE DEF sc
  <2> QED BY <2>1, FirstBest
<1>3. \A j \in I : i <= j
  <2> HIDE DEF sc
  <2> QED BY <1>1, <1>2
<1> QED BY <1>2, <1>3 DEF Min

(* Where the running sum first exceeds a bound.                             *)
LEMMA FirstAboveIs ==
  ASSUME NEW prob, NEW order, Len(order) \in Nat \ {0}, DOMAIN order = 1 .. Len(order),
         \A i \in 1 .. Len(order) : prob[order[i]] \in Nat,
         NEW bound \in Nat
  PROVE  /\ FirstAbove(prob, order, bound) \in 1 .. Len(order)
         /\ Cdf(prob, order)[FirstAbove(prob, order, bound) - 1] * COINS <= bound
         /\ Cdf(prob, order)[Len(order)] * COINS > bound =>
              Cdf(prob, order)[FirstAbove(prob, order, bound)] * COINS > bound
<1> DEFINE N == Len(order)
           cdf == Cdf(prob, order)
           above == {k \in DOMAIN order : cdf[k] * COINS > bound}
           at0 == FirstAbove(prob, order, bound)
<1>1. cdf \in [0 .. N -> Nat] /\ cdf[0] = 0
  BY CdfIs
<1>2. at0 = IF above = {} THEN N ELSE Min(above)
  BY DEF FirstAbove
<1>3. above \in SUBSET (0 .. N) /\ \A k \in above : k \in 1 .. N /\ cdf[k] * COINS > bound
  OBVIOUS
<1>4. \A k \in 1 .. N : k \notin above => ~(cdf[k] * COINS > bound)
  OBVIOUS
<1>5. COINS \in Nat \ {0}
  BY SamplerAssumption
<1> HIDE DEF cdf, above, at0, N
<1>6. N \in Nat \ {0}
  BY DEF N
<1>7. /\ at0 \in 1 .. N /\ \A k \in 1 .. N : k < at0 => k \notin above
      /\ above # {} => at0 \in above
  <2>1. CASE above = {}
    BY <1>2, <1>6, <2>1
  <2>2. CASE above # {}
    <3>1. at0 \in above /\ \A j \in above : at0 <= j
      BY <1>2, <1>3, <1>6, <2>2, LeastIs
    <3> QED BY <1>3, <1>6, <3>1
  <2> QED BY <2>1, <2>2
<1>8. cdf[at0 - 1] * COINS <= bound
  <2>1. CASE at0 = 1
    <3>1. at0 - 1 = 0 /\ 0 * COINS = 0
      BY <1>5, <2>1
    <3> QED BY <1>1, <3>1
  <2>2. CASE at0 # 1
    <3>1. at0 - 1 \in 1 .. N /\ at0 - 1 < at0 /\ at0 - 1 \in 0 .. N
      BY <1>6, <1>7, <2>2
    <3>2. ~(cdf[at0 - 1] * COINS > bound) /\ cdf[at0 - 1] \in Nat
      BY <1>1, <1>4, <1>7, <3>1
    <3>3. cdf[at0 - 1] * COINS \in Nat
      BY <1>5, <3>2
    <3> QED BY <3>2, <3>3
  <2> QED BY <2>1, <2>2
<1>9. ASSUME cdf[N] * COINS > bound PROVE cdf[at0] * COINS > bound
  <2>1. N \in above
    BY <1>4, <1>6, <1>9
  <2>2. at0 \in above
    BY <1>7, <2>1
  <2> QED BY <1>3, <2>2
<1> QED BY <1>7, <1>8, <1>9 DEF N, cdf, at0

(* What softmax leaves: every token has its share, and the shares are all.  *)
Softmax(prob) ==
  /\ prob \in [Tokens -> Nat]
  /\ Cdf(prob, InOrder(prob))[Cardinality(Tokens)] = TOTAL

(* The tokens in the order of their numbers.                                *)
LEMMA InOrderIs ==
  ASSUME NEW prob, Softmax(prob)
  PROVE  /\ DOMAIN prob = Tokens /\ Cardinality(Tokens) \in Nat \ {0}
         /\ InOrder(prob) \in Seq(Tokens) /\ Len(InOrder(prob)) = Cardinality(Tokens)
         /\ \A k \in 1 .. Cardinality(Tokens) :
              InOrder(prob)[k] = k - 1 /\ k - 1 \in Tokens /\ prob[k - 1] \in Nat
         /\ Cdf(prob, InOrder(prob)) \in [0 .. Cardinality(Tokens) -> Nat]
         /\ Cdf(prob, InOrder(prob))[0] = 0
         /\ \A k \in 1 .. Cardinality(Tokens) :
              Cdf(prob, InOrder(prob))[k] = Cdf(prob, InOrder(prob))[k - 1] + prob[k - 1]
<1> DEFINE N == Cardinality(Tokens)
           o == InOrder(prob)
           cdf == Cdf(prob, o)
<1>1. DOMAIN prob = Tokens /\ N \in Nat /\ Tokens = 0 .. N - 1
  BY TokensAre, TokensAssumption DEF Softmax
<1>2. \A k \in 1 .. N : k - 1 \in Tokens /\ prob[k - 1] \in Nat
  BY <1>1 DEF Softmax
<1>3. o = [k \in 1 .. N |-> k - 1]
  BY <1>1 DEF InOrder
<1> HIDE DEF o, N
<1>4. o \in Seq(Tokens) /\ Len(o) = N /\ \A k \in 1 .. N : o[k] = k - 1
  <2>1. o \in [1 .. N -> Tokens] /\ DOMAIN o = 1 .. N
    BY <1>2, <1>3
  <2>2. o \in Seq(Tokens)
    BY <1>1, <2>1, SeqDef
  <2>3. Len(o) = N
    BY <1>1, <2>1, <2>2, LenProperties
  <2> QED BY <1>3, <2>2, <2>3
<1>5. \A k \in 1 .. Len(o) : prob[o[k]] \in Nat
  BY <1>2, <1>4
<1>6. /\ cdf \in [0 .. N -> Nat] /\ cdf[0] = 0
      /\ \A k \in 1 .. N : cdf[k] = cdf[k - 1] + prob[o[k]]
  <2>1. Len(o) \in Nat
    BY <1>1, <1>4
  <2>2. /\ cdf \in [0 .. Len(o) -> Nat] /\ cdf[0] = 0
        /\ \A k \in 1 .. Len(o) : cdf[k] = cdf[k - 1] + prob[o[k]]
    BY <1>5, <2>1, CdfIs
  <2> HIDE DEF cdf
  <2> QED BY <1>4, <2>2
<1>7. N # 0
  <2>1. cdf[N] = TOTAL
    BY DEF Softmax, o, N
  <2> HIDE DEF cdf
  <2> QED BY <1>6, <2>1, SamplerAssumption
<1> HIDE DEF cdf
<1> QED BY <1>1, <1>2, <1>4, <1>6, <1>7 DEF cdf, o, N

(* Some token has a share.                                                  *)
LEMMA SomeShare ==
  ASSUME NEW prob, Softmax(prob)
  PROVE  \E i \in Tokens : prob[i] > 0
<1> DEFINE N == Cardinality(Tokens)
           cdf == Cdf(prob, InOrder(prob))
<1>1. /\ N \in Nat /\ cdf[0] = 0
      /\ \A k \in 1 .. N : /\ cdf[k] = cdf[k - 1] + prob[k - 1]
                           /\ k - 1 \in Tokens /\ prob[k - 1] \in Nat
  BY InOrderIs
<1>2. cdf[N] = TOTAL
  BY DEF Softmax
<1> HIDE DEF cdf, N
<1>3. SUFFICES ASSUME \A i \in Tokens : ~(prob[i] > 0) PROVE FALSE
  OBVIOUS
<1> DEFINE T == {k \in 0 .. N : cdf[k] = 0}
<1>4. \A k \in 0 .. N : k \in T
  <2>1. 0 \in T
    BY <1>1
  <2>2. ASSUME NEW k \in 0 .. N - 1, k \in T PROVE k + 1 \in T
    <3>1. k + 1 \in 1 .. N /\ (k + 1) - 1 = k
      BY <1>1
    <3>2. cdf[k + 1] = cdf[k] + prob[k] /\ prob[k] \in Nat /\ k \in Tokens
      BY <1>1, <3>1
    <3>3. prob[k] = 0
      BY <1>3, <3>2
    <3> QED BY <2>2, <3>1, <3>2, <3>3
  <2> HIDE DEF T
  <2> QED BY <1>1, <2>1, <2>2, UpToInduction
<1>5. cdf[N] = 0
  BY <1>1, <1>4
<1> QED BY <1>2, <1>5, SamplerAssumption

(* sample_argmax returns a token with a positive share (run_fa.c).          *)
LEMMA ArgmaxIs ==
  ASSUME NEW prob, Softmax(prob)
  PROVE  sample_argmax(prob) \in Tokens /\ prob[sample_argmax(prob)] > 0
<1> DEFINE N == Cardinality(Tokens)
<1>1. DOMAIN prob = Tokens /\ N \in Nat \ {0} /\ Tokens = 0 .. N - 1
  BY InOrderIs, TokensAssumption
<1>2. \A i \in Tokens : prob[i] \in Nat /\ prob[i] \in Int
  BY DEF Softmax
<1>3. PICK i \in Tokens : \A j \in Tokens : prob[j] < prob[i] \/ (prob[j] = prob[i] /\ i <= j)
  <2>1. Tokens \in SUBSET (0 .. N) /\ Tokens # {}
    BY <1>1
  <2> HIDE DEF N
  <2> QED BY <1>1, <1>2, <2>1, FirstBest
<1>4. /\ sample_argmax(prob) \in Tokens
      /\ \A j \in Tokens : prob[j] <= prob[sample_argmax(prob)]
  <2> DEFINE b == sample_argmax(prob)
  <2>1. b \in Tokens /\ \A j \in Tokens : prob[j] < prob[b] \/ (prob[j] = prob[b] /\ b <= j)
    BY <1>1, <1>3 DEF sample_argmax
  <2> HIDE DEF b
  <2>2. \A j \in Tokens : prob[j] <= prob[b]
    BY <1>2, <2>1
  <2> QED BY <2>1, <2>2 DEF b
<1>5. PICK k \in Tokens : prob[k] > 0
  BY SomeShare
<1> DEFINE b == sample_argmax(prob)
<1> HIDE DEF b
<1>6. b \in Tokens /\ prob[k] <= prob[b] /\ prob[b] \in Nat /\ prob[k] \in Nat
  BY <1>2, <1>4 DEF b
<1>7. b \in Tokens /\ prob[b] > 0
  BY <1>5, <1>6
<1> QED BY <1>7 DEF b

(* sample_mult returns a token with a positive share (run_fa.c).            *)
LEMMA MultIs ==
  ASSUME NEW prob, Softmax(prob), NEW coin \in Coins
  PROVE  sample_mult(prob, coin) \in Tokens /\ prob[sample_mult(prob, coin)] > 0
<1> DEFINE N == Cardinality(Tokens)
           o == InOrder(prob)
           cdf == Cdf(prob, o)
           a == FirstAbove(prob, o, coin * TOTAL)
<1>1. /\ N \in Nat \ {0} /\ o \in Seq(Tokens) /\ Len(o) = N
      /\ \A k \in 1 .. N : o[k] = k - 1 /\ k - 1 \in Tokens /\ prob[k - 1] \in Nat
      /\ cdf \in [0 .. N -> Nat]
      /\ \A k \in 1 .. N : cdf[k] = cdf[k - 1] + prob[k - 1]
  BY InOrderIs
<1>2. cdf[N] = TOTAL
  BY DEF Softmax
<1>3. coin \in Nat /\ coin < COINS /\ TOTAL \in Nat \ {0} /\ COINS \in Nat \ {0}
  BY SamplerAssumption DEF Coins
<1>4. coin * TOTAL \in Nat /\ TOTAL * COINS > coin * TOTAL
  BY <1>3
<1>5. DOMAIN o = 1 .. Len(o)
  BY <1>1, LenProperties
<1> HIDE DEF o, N
<1>6. /\ a \in 1 .. N /\ cdf[a - 1] * COINS <= coin * TOTAL
      /\ cdf[N] * COINS > coin * TOTAL => cdf[a] * COINS > coin * TOTAL
  <2>1. Len(o) \in Nat \ {0} /\ \A k \in 1 .. Len(o) : prob[o[k]] \in Nat
    BY <1>1
  <2> DEFINE bound == coin * TOTAL
  <2>2. bound \in Nat
    BY <1>4
  <2> HIDE DEF bound
  <2>3. /\ FirstAbove(prob, o, bound) \in 1 .. Len(o)
        /\ Cdf(prob, o)[FirstAbove(prob, o, bound) - 1] * COINS <= bound
        /\ Cdf(prob, o)[Len(o)] * COINS > bound =>
             Cdf(prob, o)[FirstAbove(prob, o, bound)] * COINS > bound
    BY <1>5, <2>1, <2>2, FirstAboveIs
  <2> QED BY <1>1, <2>3 DEF bound
<1>7. sample_mult(prob, coin) = o[a]
  BY DEF sample_mult, o
<1> HIDE DEF a, cdf
<1>8. o[a] \in Tokens /\ o[a] = a - 1 /\ prob[a - 1] \in Nat /\ cdf[a] = cdf[a - 1] + prob[a - 1]
  BY <1>1, <1>6
<1>9. prob[a - 1] # 0
  <2> SUFFICES ASSUME prob[a - 1] = 0 PROVE FALSE
    OBVIOUS
  <2>1. a - 1 \in 0 .. N /\ cdf[a - 1] \in Nat
    BY <1>1, <1>6
  <2>2. cdf[a] = cdf[a - 1]
    BY <1>8, <2>1
  <2>3. cdf[a] * COINS > coin * TOTAL
    BY <1>2, <1>4, <1>6
  <2>4. cdf[a - 1] * COINS \in Nat
    BY <1>3, <2>1
  <2> QED BY <1>4, <1>6, <2>2, <2>3, <2>4
<1> QED BY <1>7, <1>8, <1>9
-----------------------------------------------------------------------------
(* The sum of the shares of a set of tokens, token by token.                *)
Within(prob, S) == [t \in Tokens |-> IF t \in S THEN prob[t] ELSE 0]
Share(prob, S) == Cdf(Within(prob, S), InOrder(prob))[Cardinality(Tokens)]

(* The running sums of the share of a set of tokens.                        *)
LEMMA WithinIs ==
  ASSUME NEW prob, Softmax(prob), NEW S
  PROVE  LET cdf == Cdf(Within(prob, S), InOrder(prob))
         IN /\ cdf \in [0 .. Cardinality(Tokens) -> Nat] /\ cdf[0] = 0
            /\ \A k \in 1 .. Cardinality(Tokens) :
                 cdf[k] = cdf[k - 1] + (IF k - 1 \in S THEN prob[k - 1] ELSE 0)
<1> DEFINE N == Cardinality(Tokens)
           o == InOrder(prob)
           w == Within(prob, S)
           cdf == Cdf(w, o)
<1>1. /\ N \in Nat /\ Len(o) = N
      /\ \A k \in 1 .. N : o[k] = k - 1 /\ k - 1 \in Tokens /\ prob[k - 1] \in Nat
  BY InOrderIs
<1> HIDE DEF o, N
<1>2. \A k \in 1 .. N : /\ w[o[k]] = IF k - 1 \in S THEN prob[k - 1] ELSE 0
                        /\ w[o[k]] \in Nat
  BY <1>1 DEF Within
<1> HIDE DEF w
<1>3. /\ cdf \in [0 .. N -> Nat] /\ cdf[0] = 0
      /\ \A k \in 1 .. N : cdf[k] = cdf[k - 1] + w[o[k]]
  <2>1. Len(o) \in Nat /\ \A k \in 1 .. Len(o) : w[o[k]] \in Nat
    BY <1>1, <1>2
  <2>2. /\ cdf \in [0 .. Len(o) -> Nat] /\ cdf[0] = 0
        /\ \A k \in 1 .. Len(o) : cdf[k] = cdf[k - 1] + w[o[k]]
    BY <2>1, CdfIs
  <2> HIDE DEF cdf
  <2> QED BY <1>1, <2>2
<1> HIDE DEF cdf
<1>4. \A k \in 1 .. N : cdf[k] = cdf[k - 1] + (IF k - 1 \in S THEN prob[k - 1] ELSE 0)
  BY <1>2, <1>3
<1> QED BY <1>3, <1>4 DEF cdf, w, o, N

(* The share of a set of tokens grows by that of a token put into it.       *)
LEMMA ShareIs ==
  ASSUME NEW prob, Softmax(prob)
  PROVE  /\ \A S : Share(prob, S) \in Nat
         /\ Share(prob, {}) = 0
         /\ \A S : \A e \in Tokens :
              e \notin S => Share(prob, S \cup {e}) = Share(prob, S) + prob[e]
<1> DEFINE N == Cardinality(Tokens)
           sum(S) == Cdf(Within(prob, S), InOrder(prob))
<1>1. N \in Nat \ {0} /\ Tokens = 0 .. N - 1 /\ \A t \in Tokens : prob[t] \in Nat
  BY InOrderIs, TokensAssumption DEF Softmax
<1>2. ASSUME NEW S
      PROVE  /\ sum(S) \in [0 .. N -> Nat] /\ sum(S)[0] = 0
             /\ \A k \in 1 .. N : sum(S)[k] = sum(S)[k - 1] + (IF k - 1 \in S THEN prob[k - 1] ELSE 0)
  BY WithinIs
<1>3. \A S : Share(prob, S) = sum(S)[N]
  BY Zenon DEF Share
<1> HIDE DEF sum, N
<1>4. N \in 0 .. N
  BY <1>1
<1>5. \A S : Share(prob, S) \in Nat
  BY <1>2, <1>3, <1>4
<1>6. Share(prob, {}) = 0
  <2> DEFINE T == {k \in 0 .. N : sum({})[k] = 0}
  <2>1. 0 \in T
    BY <1>1, <1>2
  <2>2. ASSUME NEW k \in 0 .. N - 1, k \in T PROVE k + 1 \in T
    <3>1. k + 1 \in 1 .. N /\ (k + 1) - 1 = k
      BY <1>1
    <3>2. sum({})[k + 1] = sum({})[k] + 0
      BY <1>2, <3>1
    <3> QED BY <2>2, <3>1, <3>2
  <2>3. \A k \in 0 .. N : k \in T
    <3> HIDE DEF T
    <3> QED BY <1>1, <2>1, <2>2, UpToInduction
  <2> QED BY <1>3, <1>4, <2>3
<1>7. ASSUME NEW S, NEW e \in Tokens, e \notin S
      PROVE  Share(prob, S \cup {e}) = Share(prob, S) + prob[e]
  <2> DEFINE R == S \cup {e}
             f == sum(S)
             g == sum(R)
             T == {k \in 0 .. N : g[k] = f[k] + (IF e < k THEN prob[e] ELSE 0)}
  <2>1. /\ f \in [0 .. N -> Nat] /\ f[0] = 0 /\ g \in [0 .. N -> Nat] /\ g[0] = 0
        /\ \A k \in 1 .. N : f[k] = f[k - 1] + (IF k - 1 \in S THEN prob[k - 1] ELSE 0)
        /\ \A k \in 1 .. N : g[k] = g[k - 1] + (IF k - 1 \in R THEN prob[k - 1] ELSE 0)
    <3> HIDE DEF R
    <3> QED BY <1>2
  <2>2. \A t : t # e => (t \in R <=> t \in S)
    OBVIOUS
  <2>3. e \in R /\ e \in 0 .. N - 1 /\ prob[e] \in Nat
    BY <1>1
  <2> HIDE DEF f, g, R
  <2>4. 0 \in T
    BY <1>1, <2>1, <2>3
  <2>5. ASSUME NEW k \in 0 .. N - 1, k \in T PROVE k + 1 \in T
    <3>1. /\ k + 1 \in 1 .. N /\ (k + 1) - 1 = k /\ k + 1 \in 0 .. N /\ k \in 0 .. N
          /\ f[k] \in Nat /\ prob[k] \in Nat
      BY <1>1, <2>1
    <3>2. /\ f[k + 1] = f[k] + (IF k \in S THEN prob[k] ELSE 0)
          /\ g[k + 1] = g[k] + (IF k \in R THEN prob[k] ELSE 0)
      BY <2>1, <3>1
    <3>3. g[k] = f[k] + (IF e < k THEN prob[e] ELSE 0)
      BY <2>5
    <3>4. CASE k = e
      <4>1. e < k + 1 /\ ~(e < k) /\ k \notin S /\ k \in R
        BY <1>7, <2>3, <3>4
      <4> QED BY <3>1, <3>2, <3>3, <3>4, <4>1
    <3>5. CASE k # e
      <4>1. (e < k + 1 <=> e < k) /\ (k \in R <=> k \in S)
        BY <2>2, <2>3, <3>5
      <4> QED BY <2>3, <3>1, <3>2, <3>3, <4>1
    <3> QED BY <3>4, <3>5
  <2>6. \A k \in 0 .. N : k \in T
    <3> HIDE DEF T
    <3> QED BY <1>1, <2>4, <2>5, UpToInduction
  <2>7. g[N] = f[N] + prob[e]
    <3>1. e < N
      BY <1>1, <2>3
    <3> QED BY <1>4, <2>6, <3>1
  <2> QED BY <1>3, <2>7 DEF f, g, R
<1> QED BY <1>5, <1>6, <1>7

(* The fold over a set of tokens adds up their shares.                      *)
LEMMA FoldIs ==
  ASSUME NEW prob, Softmax(prob), NEW S \in SUBSET Tokens
  PROVE  FoldFunctionOnSet(+, 0, prob, S) = Share(prob, S)
<1> DEFINE one(s) == CHOOSE t \in s : TRUE
           body(s, f) == IF s = {} THEN 0 ELSE prob[one(s)] + f[s \ {one(s)}]
           Rec(f) == [s \in SUBSET S |-> body(s, f)]
           sol == CHOOSE f : f = Rec(f)
           g == [s \in SUBSET S |-> Share(prob, s)]
<1>1. FoldFunctionOnSet(+, 0, prob, S) = sol[S]
  BY Zenon DEF FoldFunctionOnSet, MapThenFoldSet
<1>2. ASSUME NEW s \in SUBSET S, s # {}
      PROVE  /\ one(s) \in s /\ one(s) \in Tokens /\ s \ {one(s)} \in SUBSET S
             /\ Share(prob, s) = prob[one(s)] + Share(prob, s \ {one(s)})
             /\ prob[one(s)] \in Nat
  <2>1. one(s) \in s
    BY <1>2
  <2> HIDE DEF one
  <2>2. one(s) \in Tokens /\ s \ {one(s)} \in SUBSET S
    BY <2>1
  <2>3. prob[one(s)] \in Nat
    BY <2>2 DEF Softmax
  <2> DEFINE r == s \ {one(s)}
  <2>4. s = r \cup {one(s)} /\ one(s) \notin r
    BY <2>1
  <2> HIDE DEF r
  <2>5. Share(prob, r \cup {one(s)}) = Share(prob, r) + prob[one(s)]
    BY <2>2, <2>4, ShareIs
  <2>6. Share(prob, r) \in Nat
    BY ShareIs
  <2>7. Share(prob, s) = prob[one(s)] + Share(prob, r)
    <3>1. Share(prob, s) = Share(prob, r) + prob[one(s)]
      BY <2>4, <2>5, Zenon
    <3> QED BY <2>3, <2>6, <3>1
  <2> QED BY <2>1, <2>2, <2>3, <2>7 DEF r
<1> HIDE DEF one
<1>3. g = Rec(g)
  <2>1. ASSUME NEW s \in SUBSET S PROVE g[s] = body(s, g)
    <3>1. CASE s = {}
      BY <3>1, ShareIs
    <3>2. CASE s # {}
      <4>1. /\ g[s] = Share(prob, s)
            /\ g[s \ {one(s)}] = Share(prob, s \ {one(s)})
        BY <1>2, <3>2
      <4> HIDE DEF g
      <4> QED BY <1>2, <3>2, <4>1
    <3> QED BY <3>1, <3>2
  <2>2. g = [s \in SUBSET S |-> g[s]]
    OBVIOUS
  <2> HIDE DEF g, body
  <2> QED BY <2>1, <2>2
<1>4. sol = Rec(sol)
  <2> HIDE DEF Rec, g
  <2> QED BY <1>3
<1> HIDE DEF sol, g
<1>5. ASSUME NEW s \in SUBSET S PROVE sol[s] = body(s, sol)
  <2> HIDE DEF body
  <2> QED BY <1>4
<1>6. IsFiniteSet(S) /\ Cardinality(S) \in Nat
  BY TokensAssumption, FS_Subset, FS_CardinalityType
<1> DEFINE T == {m \in 0 .. Cardinality(S) :
                   \A s \in SUBSET S : Cardinality(s) = m => sol[s] = Share(prob, s)}
<1>7. 0 \in T
  <2> SUFFICES ASSUME NEW s \in SUBSET S, Cardinality(s) = 0
               PROVE  sol[s] = Share(prob, s)
    BY <1>6
  <2>1. s = {}
    BY <1>6, FS_Subset, FS_EmptySet
  <2>2. sol[s] = 0
    BY <1>5, <2>1
  <2> QED BY <2>1, <2>2, ShareIs
<1>8. ASSUME NEW m \in 0 .. Cardinality(S) - 1, m \in T PROVE m + 1 \in T
  <2> SUFFICES ASSUME NEW s \in SUBSET S, Cardinality(s) = m + 1
               PROVE  sol[s] = Share(prob, s)
    BY <1>6
  <2>1. IsFiniteSet(s)
    BY <1>6, FS_Subset
  <2>2. s # {}
    BY <2>1, FS_EmptySet
  <2>3. Cardinality(s \ {one(s)}) = m
    <3>1. one(s) \in s
      BY <1>2, <2>2
    <3>2. Cardinality(s \ {one(s)}) = Cardinality(s) - 1
      BY <2>1, <3>1, FS_RemoveElement
    <3> QED BY <3>2
  <2>4. sol[s \ {one(s)}] = Share(prob, s \ {one(s)})
    BY <1>2, <1>8, <2>2, <2>3
  <2>5. sol[s] = prob[one(s)] + sol[s \ {one(s)}]
    BY <1>5, <2>2
  <2>6. Share(prob, s) = prob[one(s)] + Share(prob, s \ {one(s)})
    BY <1>2, <2>2
  <2> QED BY <2>4, <2>5, <2>6
<1>9. \A m \in 0 .. Cardinality(S) : m \in T
  <2> HIDE DEF T
  <2> QED BY <1>6, <1>7, <1>8, UpToInduction
<1>10. sol[S] = Share(prob, S)
  <2>1. Cardinality(S) \in T
    BY <1>6, <1>9
  <2> QED BY <2>1
<1> QED BY <1>1, <1>10
-----------------------------------------------------------------------------
(* A sorted list of a set: every element once, no share after a smaller one. *)
Sorted(prob, S, order) ==
  /\ order \in Seq(S) /\ Len(order) = Cardinality(S) /\ DOMAIN order = 1 .. Len(order)
  /\ \A e \in S : \E k \in 1 .. Len(order) : order[k] = e
  /\ \A j, k \in 1 .. Len(order) : order[j] = order[k] => j = k
  /\ \A j, k \in 1 .. Len(order) : j <= k => prob[order[j]] >= prob[order[k]]

(* qsort yields the candidates, each once, in descending order.             *)
LEMMA DescendingIs ==
  ASSUME NEW prob, NEW S, IsFiniteSet(S), \A e \in S : prob[e] \in Nat,
         NEW order \in Descending(prob, S)
  PROVE  Sorted(prob, S, order)
<1> DEFINE N == Cardinality(S)
<1>1. N \in Nat
  BY FS_CardinalityType
<1>2. /\ order \in [1 .. N -> S]
      /\ \A i, j \in 1 .. N : i # j => order[i] # order[j]
      /\ \A k \in 1 .. Len(order) - 1 : prob[order[k]] >= prob[order[k + 1]]
  BY DEF Descending, SetToSeqs
<1> HIDE DEF N
<1>3. order \in Seq(S) /\ Len(order) = N /\ DOMAIN order = 1 .. N
  <2>1. order \in Seq(S) /\ DOMAIN order = 1 .. N
    BY <1>1, <1>2, SeqDef
  <2> QED BY <1>1, <2>1, LenProperties
<1>4. \A e \in S : \E k \in 1 .. N : order[k] = e
  <2>1. order \in Injection(1 .. N, S)
    BY <1>2, Fun_IsInj
  <2>2. Cardinality(1 .. N) = N
    BY <1>1, FS_Interval
  <2>3. order \in Surjection(1 .. N, S)
    BY <2>1, <2>2, FS_Injection DEF N
  <2> QED BY <2>3 DEF Surjection
<1>5. \A k \in 1 .. N : prob[order[k]] \in Nat
  BY <1>2
<1>6. ASSUME NEW j \in 1 .. N, NEW k \in 1 .. N, j <= k
      PROVE  prob[order[j]] >= prob[order[k]]
  <2> DEFINE T == {i \in 0 .. k - j : prob[order[j]] >= prob[order[j + i]]}
  <2>1. k - j \in Nat /\ 0 \in 0 .. k - j
    BY <1>6
  <2>2. 0 \in T
    <3>1. j + 0 = j
      OBVIOUS
    <3> QED BY <1>5, <2>1, <3>1
  <2>3. ASSUME NEW i \in 0 .. k - j - 1, i \in T PROVE i + 1 \in T
    <3>1. j + i \in 1 .. Len(order) - 1 /\ j + i \in 1 .. N /\ (j + i) + 1 \in 1 .. N
          /\ (j + i) + 1 = j + (i + 1) /\ i + 1 \in 0 .. k - j
      BY <1>1, <1>3
    <3>2. prob[order[j + i]] >= prob[order[(j + i) + 1]]
      BY <1>2, <3>1
    <3>3. prob[order[j]] >= prob[order[j + i]]
      BY <2>3
    <3>4. /\ prob[order[j]] \in Nat /\ prob[order[j + i]] \in Nat
          /\ prob[order[(j + i) + 1]] \in Nat
      BY <1>5, <3>1
    <3>5. prob[order[j]] >= prob[order[(j + i) + 1]]
      BY <3>2, <3>3, <3>4
    <3> QED BY <3>1, <3>5
  <2>4. \A i \in 0 .. k - j : i \in T
    <3> HIDE DEF T
    <3> QED BY <2>1, <2>2, <2>3, UpToInduction
  <2>5. k - j \in 0 .. k - j /\ j + (k - j) = k
    BY <2>1
  <2> QED BY <2>4, <2>5
<1> QED BY <1>2, <1>3, <1>4, <1>6 DEF Sorted, N

(* With a topp of at least an even share some token survives the crop.      *)
LEMMA SomeCandidate ==
  ASSUME NEW prob, Softmax(prob), NEW bound \in 1 .. TOTAL - 1,
         bound * Cardinality(Tokens) >= TOTAL
  PROVE  /\ Candidates(prob, bound) # {}
         /\ Candidates(prob, bound) \subseteq Tokens
         /\ \A i \in Candidates(prob, bound) : prob[i] > 0
<1> DEFINE N == Cardinality(Tokens)
           A == N - 1
           B == TOTAL - bound - 1
           C == Candidates(prob, bound)
           cdf == Cdf(prob, InOrder(prob))
<1>1. /\ DOMAIN prob = Tokens /\ N \in Nat \ {0} /\ cdf \in [0 .. N -> Nat] /\ cdf[0] = 0
      /\ \A k \in 1 .. N : /\ cdf[k] = cdf[k - 1] + prob[k - 1]
                           /\ k - 1 \in Tokens /\ prob[k - 1] \in Nat
  BY InOrderIs
<1>2. cdf[N] = TOTAL /\ \A t \in Tokens : prob[t] \in Nat
  BY DEF Softmax
<1>3. C = {i \in Tokens : prob[i] * A >= TOTAL - bound}
  BY <1>1 DEF Candidates
<1>4. TOTAL \in Nat /\ bound \in Nat /\ 1 <= bound /\ bound <= TOTAL - 1
  BY SamplerAssumption
<1> HIDE DEF cdf, C, N
<1>5. A \in Nat /\ B \in Nat
  BY <1>1, <1>4
<1> HIDE DEF A
<1>6. \A i \in C : prob[i] > 0
  <2> SUFFICES ASSUME NEW i \in C, ~(prob[i] > 0) PROVE FALSE
    OBVIOUS
  <2>1. prob[i] = 0 /\ prob[i] * A >= TOTAL - bound
    BY <1>2, <1>3
  <2>2. 0 * A = 0
    BY <1>5
  <2> QED BY <1>4, <2>1, <2>2
<1>7. C # {}
  <2> SUFFICES ASSUME C = {} PROVE FALSE
    OBVIOUS
  <2>1. ASSUME NEW t \in Tokens PROVE A * prob[t] <= B
    <3>1. ~(prob[t] * A >= TOTAL - bound) /\ prob[t] \in Nat
      BY <1>2, <1>3
    <3>2. prob[t] * A = A * prob[t] /\ A * prob[t] \in Nat
      BY <1>5, <3>1
    <3> QED BY <1>4, <3>1, <3>2
  <2> HIDE DEF B
  <2> DEFINE T == {k \in 0 .. N : A * cdf[k] <= k * B}
  <2>2. 0 \in T
    BY <1>1, <1>5
  <2>3. ASSUME NEW k \in 0 .. N - 1, k \in T PROVE k + 1 \in T
    <3>1. k + 1 \in 1 .. N /\ (k + 1) - 1 = k /\ k \in 0 .. N /\ k \in Nat
      BY <1>1
    <3>2. cdf[k + 1] = cdf[k] + prob[k] /\ k \in Tokens /\ prob[k] \in Nat /\ cdf[k] \in Nat
      BY <1>1, <3>1
    <3>3. A * (cdf[k] + prob[k]) = A * cdf[k] + A * prob[k]
      BY <1>5, <3>2
    <3>4. (k + 1) * B = k * B + B /\ k * B \in Nat
      BY <1>5, <3>1
    <3>5. A * prob[k] <= B /\ A * cdf[k] <= k * B
      BY <2>1, <2>3, <3>2
    <3>6. A * cdf[k] \in Nat /\ A * prob[k] \in Nat
      BY <1>5, <3>2
    <3>7. A * cdf[k + 1] <= (k + 1) * B
      <4> DEFINE u == A * cdf[k]
                 v == A * prob[k]
                 z == k * B
      <4> HIDE DEF u, v, z
      <4>1. A * cdf[k + 1] = u + v /\ (k + 1) * B = z + B
        BY <3>2, <3>3, <3>4 DEF u, v, z
      <4>2. u <= z /\ v <= B /\ u \in Nat /\ v \in Nat /\ z \in Nat
        BY <3>4, <3>5, <3>6 DEF u, v, z
      <4> QED BY <1>5, <4>1, <4>2
    <3> QED BY <3>1, <3>7
  <2>4. \A k \in 0 .. N : k \in T
    <3> HIDE DEF T
    <3> QED BY <1>1, <2>2, <2>3, UpToInduction
  <2>5. A * TOTAL <= N * B
    <3>1. N \in T
      BY <1>1, <2>4
    <3> QED BY <1>2, <3>1
  <2>6. A * TOTAL = N * TOTAL - TOTAL
    BY <1>1, <1>4 DEF A
  <2>7. N * B = N * TOTAL - N * bound - N
    BY <1>1, <1>4 DEF B
  <2>8. N * bound >= TOTAL
    <3>1. bound * N = N * bound
      BY <1>1, <1>4
    <3> QED BY <3>1 DEF N
  <2>9. N * TOTAL \in Nat /\ N * bound \in Nat
    BY <1>1, <1>4
  <2> QED BY <1>1, <1>4, <2>5, <2>6, <2>7, <2>8, <2>9
<1> QED BY <1>3, <1>6, <1>7 DEF C

(* The running sums grow.                                                   *)
LEMMA CdfGrows ==
  ASSUME NEW prob, NEW order, Len(order) \in Nat,
         \A i \in 1 .. Len(order) : prob[order[i]] \in Nat,
         NEW j \in 0 .. Len(order), NEW k \in j .. Len(order)
  PROVE  Cdf(prob, order)[j] <= Cdf(prob, order)[k]
<1> DEFINE N == Len(order)
           cdf == Cdf(prob, order)
           T == {i \in 0 .. k - j : cdf[j] <= cdf[j + i]}
<1>1. /\ cdf \in [0 .. N -> Nat]
      /\ \A i \in 1 .. N : cdf[i] = cdf[i - 1] + prob[order[i]] /\ prob[order[i]] \in Nat
  BY CdfIs
<1> HIDE DEF cdf
<1>2. 0 \in T
  BY <1>1
<1>3. ASSUME NEW i \in 0 .. k - j - 1, i \in T PROVE i + 1 \in T
  <2>1. /\ (j + i) + 1 \in 1 .. N /\ ((j + i) + 1) - 1 = j + i /\ j + i \in 0 .. N
        /\ (j + i) + 1 = j + (i + 1) /\ i + 1 \in 0 .. k - j
    OBVIOUS
  <2>2. /\ cdf[(j + i) + 1] = cdf[j + i] + prob[order[(j + i) + 1]]
        /\ prob[order[(j + i) + 1]] \in Nat /\ cdf[j + i] \in Nat /\ cdf[j] \in Nat
    BY <1>1, <2>1
  <2>3. cdf[j] <= cdf[(j + i) + 1]
    BY <1>3, <2>2
  <2> QED BY <2>1, <2>3
<1>4. \A i \in 0 .. k - j : i \in T
  <2>1. k - j \in Nat
    OBVIOUS
  <2> HIDE DEF T
  <2> QED BY <1>2, <1>3, <2>1, UpToInduction
<1>5. k - j \in 0 .. k - j /\ j + (k - j) = k
  OBVIOUS
<1> QED BY <1>4, <1>5 DEF cdf

(* What sample_topp returns: a place of the sorted candidates that more     *)
(* than topp does not precede.                                              *)
LEMMA ToppIs ==
  ASSUME NEW prob, Softmax(prob), NEW bound \in 1 .. TOTAL - 1,
         bound * Cardinality(Tokens) >= TOTAL, NEW coin \in Coins,
         NEW i \in sample_topp(prob, bound, coin)
  PROVE  \E order : \E k \in 1 .. Len(order) :
           /\ Sorted(prob, Candidates(prob, bound), order)
           /\ i = order[k] /\ Cdf(prob, order)[k - 1] <= bound
<1> DEFINE C == Candidates(prob, bound)
<1>1. PICK order \in Descending(prob, C) :
        LET kept == Truncated(prob, order, bound)
            r == coin * Cdf(prob, kept)[Len(kept)]
        IN  i = kept[FirstAbove(prob, kept, r)]
  BY DEF sample_topp
<1>2. C # {} /\ C \subseteq Tokens /\ IsFiniteSet(C) /\ \A e \in C : prob[e] \in Nat
  <2>1. C # {} /\ C \subseteq Tokens
    BY SomeCandidate
  <2> HIDE DEF C
  <2>2. IsFiniteSet(C)
    BY <2>1, TokensAssumption, FS_Subset
  <2> QED BY <2>1, <2>2 DEF Softmax
<1> HIDE DEF C
<1>3. Sorted(prob, C, order)
  BY <1>2, DescendingIs
<1> DEFINE L == Len(order)
           cut == FirstAbove(prob, order, bound * COINS)
           kept == Truncated(prob, order, bound)
           r == coin * Cdf(prob, kept)[Len(kept)]
           k == FirstAbove(prob, kept, r)
<1>4. /\ order \in Seq(C) /\ L \in Nat \ {0} /\ DOMAIN order = 1 .. L
      /\ \A j \in 1 .. L : order[j] \in C /\ prob[order[j]] \in Nat
  <2>1. order \in Seq(C) /\ DOMAIN order = 1 .. L /\ L = Cardinality(C) /\ L \in Nat
    BY <1>3, LenProperties DEF Sorted
  <2>2. L # 0
    BY <1>2, <2>1, FS_EmptySet
  <2> HIDE DEF L
  <2>3. \A j \in 1 .. L : order[j] \in C
    BY <2>1, ElementOfSeq DEF L
  <2> QED BY <1>2, <2>1, <2>2, <2>3
<1>5. bound \in Nat /\ COINS \in Nat \ {0} /\ bound * COINS \in Nat /\ coin \in Nat
  BY SamplerAssumption DEF Coins
<1>6. cut \in 1 .. L /\ Cdf(prob, order)[cut - 1] * COINS <= bound * COINS
  <2> DEFINE b == bound * COINS
  <2>1. b \in Nat
    BY <1>5
  <2> HIDE DEF b
  <2>2. /\ FirstAbove(prob, order, b) \in 1 .. Len(order)
        /\ Cdf(prob, order)[FirstAbove(prob, order, b) - 1] * COINS <= b
    BY <1>4, <2>1, FirstAboveIs
  <2> QED BY <2>2 DEF b
<1>7. kept = SubSeq(order, 1, cut)
  BY DEF Truncated
<1> HIDE DEF cut
<1>8. /\ kept \in Seq(C) /\ Len(kept) = cut /\ DOMAIN kept = 1 .. cut
      /\ \A j \in 1 .. cut : kept[j] = order[j] /\ prob[kept[j]] \in Nat
  <2>1. \A j \in 1 .. cut : order[j] \in C
    BY <1>4, <1>6
  <2>2. SubSeq(order, 1, cut) \in Seq(C) /\ Len(SubSeq(order, 1, cut)) = cut - 1 + 1
        /\ \A j \in 1 .. cut - 1 + 1 : SubSeq(order, 1, cut)[j] = order[1 + j - 1]
    BY <1>6, <2>1, SubSeqProperties
  <2>3. cut \in Nat /\ cut - 1 + 1 = cut /\ \A j \in 1 .. cut : 1 + j - 1 = j
    BY <1>6
  <2> HIDE DEF kept
  <2>4. kept \in Seq(C) /\ Len(kept) = cut /\ \A j \in 1 .. cut : kept[j] = order[j]
    BY <1>7, <2>2, <2>3
  <2>5. DOMAIN kept = 1 .. cut
    BY <2>4, LenProperties
  <2> QED BY <1>2, <2>1, <2>4, <2>5
<1> HIDE DEF kept
<1>9. r \in Nat
  <2>1. Len(kept) \in Nat /\ \A j \in 1 .. Len(kept) : prob[kept[j]] \in Nat
    BY <1>6, <1>8
  <2>2. Cdf(prob, kept) \in [0 .. Len(kept) -> Nat]
    BY <2>1, CdfIs
  <2>3. Cdf(prob, kept)[Len(kept)] \in Nat
    BY <2>1, <2>2
  <2> QED BY <1>5, <2>3
<1> HIDE DEF r
<1>10. k \in 1 .. cut
  <2>1. Len(kept) \in Nat \ {0} /\ DOMAIN kept = 1 .. Len(kept)
        /\ \A j \in 1 .. Len(kept) : prob[kept[j]] \in Nat
    BY <1>6, <1>8
  <2>2. FirstAbove(prob, kept, r) \in 1 .. Len(kept)
    BY <1>9, <2>1, FirstAboveIs
  <2> QED BY <1>8, <2>2
<1>11. i = kept[k]
  BY <1>1 DEF kept, r
<1> HIDE DEF k
<1>12. k \in 1 .. L /\ i = order[k]
  BY <1>6, <1>8, <1>10, <1>11
<1>13. Cdf(prob, order)[k - 1] <= bound
  <2> DEFINE cdf == Cdf(prob, order)
  <2>1. k - 1 \in 0 .. L /\ cut - 1 \in k - 1 .. L /\ cut - 1 \in 0 .. L
    BY <1>6, <1>10
  <2>2. cdf[k - 1] <= cdf[cut - 1]
    BY <1>4, <2>1, CdfGrows
  <2>3. cdf \in [0 .. L -> Nat]
    BY <1>4, CdfIs
  <2> HIDE DEF cdf, L
  <2>4. cdf[k - 1] \in Nat /\ cdf[cut - 1] \in Nat
    BY <2>1, <2>3
  <2>5. cdf[cut - 1] <= bound
    <3>1. cdf[cut - 1] * COINS <= bound * COINS
      BY <1>6 DEF cdf
    <3>2. ASSUME NEW a \in Nat, NEW b \in Nat, NEW c \in Nat \ {0}, a * c <= b * c
          PROVE  a <= b
      <4>1. SUFFICES ASSUME a >= b + 1 PROVE FALSE
        OBVIOUS
      <4> DEFINE d == a - (b + 1)
      <4>2. d \in Nat /\ a = b + 1 + d
        BY <4>1
      <4>3. (b + 1 + d) * c = b * c + c + d * c
        BY <4>2
      <4>4. d * c \in Nat /\ b * c \in Nat
        BY <4>2
      <4> QED BY <3>2, <4>2, <4>3, <4>4
    <3> QED BY <1>5, <2>4, <3>1, <3>2
  <2>6. cdf[k - 1] <= bound
    BY <1>5, <2>2, <2>4, <2>5
  <2> QED BY <2>6 DEF cdf
<1> QED BY <1>3, <1>12, <1>13 DEF C

(* It is a token of the nucleus that the comment of sample_topp defines.    *)
LEMMA ToppNucleus ==
  ASSUME NEW prob, Softmax(prob), NEW bound \in 1 .. TOTAL - 1,
         bound * Cardinality(Tokens) >= TOTAL, NEW coin \in Coins,
         NEW i \in sample_topp(prob, bound, coin)
  PROVE  i \in Tokens /\ prob[i] > 0 /\ i \in Nucleus(prob, bound)
<1> DEFINE C == Candidates(prob, bound)
           U == {j \in Tokens : prob[j] > prob[i]}
           A == Cardinality(Tokens) - 1
<1>1. PICK order : \E k \in 1 .. Len(order) :
         /\ Sorted(prob, C, order)
         /\ i = order[k] /\ Cdf(prob, order)[k - 1] <= bound
  BY ToppIs
<1>2. PICK k \in 1 .. Len(order) :
         /\ Sorted(prob, C, order)
         /\ i = order[k] /\ Cdf(prob, order)[k - 1] <= bound
  BY <1>1
<1>3. C \subseteq Tokens /\ \A e \in C : prob[e] > 0
  BY SomeCandidate
<1>4. DOMAIN prob = Tokens /\ Cardinality(Tokens) \in Nat \ {0}
      /\ \A e \in Tokens : prob[e] \in Nat
  BY InOrderIs DEF Softmax
<1>5. C = {e \in Tokens : prob[e] * A >= TOTAL - bound}
  BY <1>4 DEF Candidates
<1> HIDE DEF C
<1> DEFINE L == Len(order)
           cdf == Cdf(prob, order)
<1>6. L \in Nat /\ \A j \in 1 .. L : order[j] \in C /\ order[j] \in Tokens
  <2>1. order \in Seq(C)
    BY <1>2 DEF Sorted
  <2> QED BY <1>3, <2>1, LenProperties, ElementOfSeq
<1>7. i \in C /\ i \in Tokens /\ prob[i] > 0
  BY <1>2, <1>3, <1>6
<1>8. /\ cdf \in [0 .. L -> Nat] /\ cdf[0] = 0
      /\ \A j \in 1 .. L : cdf[j] = cdf[j - 1] + prob[order[j]]
  BY <1>4, <1>6, CdfIs
<1> DEFINE first(m) == {j \in U : \E p \in 1 .. m : order[p] = j}
<1>9. ASSUME NEW j \in U PROVE j \in first(k - 1)
  <2>1. j \in C
    <3>1. prob[j] \in Nat /\ prob[i] \in Nat /\ prob[j] > prob[i] /\ A \in Nat
      BY <1>4, <1>7
    <3>2. prob[i] * A >= TOTAL - bound
      BY <1>5, <1>7
    <3>3. prob[j] * A >= prob[i] * A
      <4> DEFINE d == prob[j] - prob[i]
      <4> HIDE DEF A
      <4>1. d \in Nat /\ prob[j] = prob[i] + d
        BY <3>1
      <4>2. (prob[i] + d) * A = prob[i] * A + d * A
        BY <3>1, <4>1
      <4>3. d * A \in Nat /\ prob[i] * A \in Nat
        BY <3>1, <4>1
      <4> QED BY <4>1, <4>2, <4>3
    <3>4. prob[j] * A \in Nat /\ prob[i] * A \in Nat /\ TOTAL - bound \in Int
      BY <3>1, SamplerAssumption
    <3> QED BY <1>5, <3>2, <3>3, <3>4
  <2>2. PICK p \in 1 .. L : order[p] = j
    BY <1>2, <2>1 DEF Sorted
  <2>3. ~(k <= p)
    <3> SUFFICES ASSUME k <= p PROVE FALSE
      OBVIOUS
    <3>1. prob[i] >= prob[j]
      BY <1>2, <2>2 DEF Sorted
    <3> QED BY <1>4, <1>7, <3>1
  <2>4. p \in 1 .. k - 1
    BY <1>6, <2>3
  <2> QED BY <2>2, <2>4
<1>10. U = first(k - 1)
  BY <1>9
<1>11. \A m \in 0 .. L : first(m) \in SUBSET Tokens
  OBVIOUS
<1> HIDE DEF cdf, U
<1> DEFINE T == {m \in 0 .. L : Share(prob, first(m)) <= cdf[m]}
<1>12. 0 \in T
  <2>1. first(0) = {}
    OBVIOUS
  <2> HIDE DEF first
  <2>2. Share(prob, first(0)) = 0
    BY <2>1, ShareIs
  <2> QED BY <1>6, <1>8, <2>2
<1>13. ASSUME NEW m \in 0 .. L - 1, m \in T PROVE m + 1 \in T
  <2>1. m + 1 \in 1 .. L /\ (m + 1) - 1 = m /\ m \in 0 .. L
    BY <1>6
  <2>2. /\ cdf[m + 1] = cdf[m] + prob[order[m + 1]] /\ cdf[m] \in Nat
        /\ prob[order[m + 1]] \in Nat /\ order[m + 1] \in Tokens
    BY <1>4, <1>6, <1>8, <2>1
  <2>3. \A p : p \in 1 .. m + 1 <=> p \in 1 .. m \/ p = m + 1
    BY <2>1
  <2>4. CASE order[m + 1] \notin U
    <3>1. first(m + 1) = first(m)
      BY <2>3, <2>4
    <3>2. Share(prob, first(m)) \in Nat
      BY ShareIs
    <3>3. Share(prob, first(m)) <= cdf[m]
      BY <1>13
    <3> HIDE DEF first
    <3> QED BY <2>1, <2>2, <3>1, <3>2, <3>3
  <2>5. CASE order[m + 1] \in U
    <3>1. first(m + 1) = first(m) \cup {order[m + 1]}
      BY <2>3, <2>5
    <3>2. order[m + 1] \notin first(m)
      <4> SUFFICES ASSUME NEW p \in 1 .. m, order[p] = order[m + 1] PROVE FALSE
        OBVIOUS
      <4>1. p \in 1 .. L /\ p # m + 1
        BY <1>6
      <4> QED BY <1>2, <2>1, <4>1 DEF Sorted
    <3> HIDE DEF first
    <3>3. Share(prob, first(m + 1)) = Share(prob, first(m)) + prob[order[m + 1]]
      BY <2>2, <3>1, <3>2, ShareIs
    <3>4. Share(prob, first(m)) \in Nat
      BY ShareIs
    <3>5. Share(prob, first(m)) <= cdf[m]
      BY <1>13
    <3> QED BY <2>1, <2>2, <3>3, <3>4, <3>5
  <2> QED BY <2>4, <2>5
<1>14. \A m \in 0 .. L : m \in T
  <2> HIDE DEF T, L
  <2> QED BY <1>6, <1>12, <1>13, UpToInduction
<1>15. Share(prob, U) <= bound
  <2>1. k - 1 \in 0 .. L /\ Share(prob, first(k - 1)) <= cdf[k - 1]
    BY <1>6, <1>14
  <2>2. cdf[k - 1] <= bound /\ cdf[k - 1] \in Nat
    BY <1>2, <1>8, <2>1 DEF cdf
  <2>3. Share(prob, first(k - 1)) \in Nat
    BY ShareIs
  <2>4. Share(prob, first(k - 1)) <= bound
    <3> HIDE DEF first
    <3> QED BY <2>1, <2>2, <2>3, SamplerAssumption
  <2> HIDE DEF first
  <2> QED BY <1>10, <2>4
<1>16. FoldFunctionOnSet(+, 0, prob, U) = Share(prob, U)
  <2>1. U \in SUBSET Tokens
    BY DEF U
  <2> QED BY <2>1, FoldIs
<1>17. i \in Nucleus(prob, bound)
  BY <1>4, <1>7, <1>15, <1>16 DEF Nucleus, U
<1> QED BY <1>7, <1>17
-----------------------------------------------------------------------------
(* ---- forward() and the cache ---- *)

(* Rows of different layers, and of different positions, are different rows *)
(* and lie inside the allocation.                                           *)
LEMMA LayersApart ==
  ASSUME NEW a \in Nat, NEW b \in Nat, a < b
  PROVE  loff(a) + SEQ_LEN <= loff(b)
<1> DEFINE d == b - (a + 1)
<1>1. d \in Nat /\ b = a + 1 + d
  OBVIOUS
<1>2. (a + 1 + d) * SEQ_LEN = a * SEQ_LEN + SEQ_LEN + d * SEQ_LEN
  BY <1>1, TransformerAssumption
<1>3. d * SEQ_LEN \in Nat /\ a * SEQ_LEN \in Nat
  BY <1>1, TransformerAssumption
<1> QED
  BY <1>1, <1>2, <1>3, TransformerAssumption DEF loff

(* Rows of different layers or positions are different rows.                *)
LEMMA RowsApart ==
  ASSUME NEW l \in 0 .. N_LAYERS - 1, NEW t \in 0 .. SEQ_LEN - 1
  PROVE  /\ loff(l) + t \in Rows
         /\ \A k \in 0 .. N_LAYERS - 1 : \A s \in 0 .. SEQ_LEN - 1 :
              loff(k) + s = loff(l) + t => k = l /\ s = t
<1> USE TransformerAssumption
<1>1. \A k \in Nat : loff(k) \in Nat
  BY DEF loff
<1>2. loff(l) + SEQ_LEN <= N_LAYERS * SEQ_LEN
  BY LayersApart DEF loff
<1>3. N_LAYERS * SEQ_LEN \in Nat
  OBVIOUS
<1>4. loff(l) + t \in Rows
  BY <1>1, <1>2, <1>3 DEF Rows
<1>5. ASSUME NEW k \in 0 .. N_LAYERS - 1, NEW s \in 0 .. SEQ_LEN - 1,
             loff(k) + s = loff(l) + t
      PROVE  k = l /\ s = t
  <2>1. ~(k < l)
    BY <1>1, <1>5, LayersApart
  <2>2. ~(l < k)
    BY <1>1, <1>5, LayersApart
  <2>3. k = l
    BY <2>1, <2>2
  <2> QED BY <1>1, <1>5, <2>3
<1> QED BY <1>4, <1>5
-----------------------------------------------------------------------------
(* How many rows of layer l hold the history. *)
Filled(l) == IF layer = -1 \/ l < layer THEN Len(fed) ELSE Len(fed) - 1

TransformerInv ==
  /\ fed \in Seq(Tokens) /\ Len(fed) <= SEQ_LEN
  /\ layer \in -1 .. N_LAYERS
  /\ DOMAIN kv_cache = Rows
  /\ layer = -1 => logits = fed
  /\ layer # -1 =>
       /\ fed # << >> /\ at = Len(fed) - 1
       /\ x = RowOf(layer, fed)
  /\ \A l \in 0 .. N_LAYERS - 1 : \A t \in 1 .. Filled(l) :
       kv_cache[loff(l) + t - 1] = RowOf(l, SubSeq(fed, 1, t))

(* The newest token of a row of layer l.                                    *)
LEMMA NewestOfRow ==
  ASSUME NEW h \in Seq(Tokens), NEW t \in 1 .. Len(h), NEW l \in Nat
  PROVE  Newest(RowOf(l, SubSeq(h, 1, t))) = h[t]
<1>1. Len(SubSeq(h, 1, t)) = t /\ SubSeq(h, 1, t)[t] = h[t]
  BY SubSeqProperties, LenProperties, ElementOfSeq
<1>2. Newest(SubSeq(h, 1, t)) = h[t]
  BY <1>1 DEF Newest
<1> QED BY <1>2 DEF RowOf, Newest

(* Attention over rows that fit a history yields that history. *)
LEMMA AttendHistory ==
  ASSUME NEW cache, NEW h \in Seq(Tokens), h # << >>, Len(h) <= SEQ_LEN,
         NEW l \in 0 .. N_LAYERS - 1,
         \A t \in 1 .. Len(h) :
           cache[loff(l) + t - 1] = RowOf(l, SubSeq(h, 1, t))
  PROVE  Attend(cache, l, Len(h) - 1) = h
<1> USE TransformerAssumption
<1> DEFINE row(t) == IF loff(l) + t \in Rows THEN cache[loff(l) + t] ELSE <<Torn>>
           g == [t \in 1 .. Len(h) - 1 + 1 |-> Newest(row(t - 1))]
<1>1. Len(h) \in Nat /\ h \in [1 .. Len(h) -> Tokens]
  BY LenProperties
<1>2. \A t \in 1 .. Len(h) : row(t - 1) = RowOf(l, SubSeq(h, 1, t))
  <2> SUFFICES ASSUME NEW t \in 1 .. Len(h)
               PROVE  row(t - 1) = RowOf(l, SubSeq(h, 1, t))
    OBVIOUS
  <2>1. t - 1 \in 0 .. SEQ_LEN - 1
    BY <1>1
  <2>2. loff(l) + (t - 1) \in Rows
    BY <2>1, RowsApart
  <2>3. loff(l) \in Int
    BY DEF loff
  <2>4. loff(l) + (t - 1) = loff(l) + t - 1
    BY <2>3
  <2> QED BY <2>2, <2>4
<1>3. \A t \in 1 .. Len(h) : Newest(row(t - 1)) = h[t]
  BY <1>2, NewestOfRow
<1>4. g = h
  <2>1. 1 .. Len(h) - 1 + 1 = 1 .. Len(h)
    BY <1>1
  <2> HIDE DEF row
  <2> QED BY <1>1, <1>3, <2>1
<1>5. \A t \in 1 .. Len(h) - 1 + 1 : row(t - 1) = RowOf(l, SubSeq(g, 1, t))
  <2> HIDE DEF row, g
  <2> QED BY <1>1, <1>2, <1>4
<1>6. Attend(cache, l, Len(h) - 1) =
        IF \A t \in 1 .. Len(h) - 1 + 1 : row(t - 1) = RowOf(l, SubSeq(g, 1, t))
        THEN g ELSE <<Torn>>
  BY DEF Attend
<1> HIDE DEF row, g
<1> QED BY <1>4, <1>5, <1>6
-----------------------------------------------------------------------------
(* An allocated model fits its empty history.                               *)
LEMMA InitTransformerInv == Init => TransformerInv
<1> SUFFICES ASSUME Init PROVE TransformerInv
  OBVIOUS
<1>1. fed = << >> /\ Len(fed) = 0 /\ fed \in Seq(Tokens)
  BY EmptySeq DEF Init
<1>2. \A l \in 0 .. N_LAYERS - 1 : 1 .. Filled(l) = {}
  BY <1>1 DEF Init, Filled
<1> QED
  BY <1>1, <1>2, TransformerAssumption DEF Init, TransformerInv

(* The call's embedding keeps the invariant of the cache.                   *)
LEMMA EmbedTransformerInv ==
  ASSUME TransformerInv, CallInOrder PROVE TransformerInv'
<1> USE TransformerAssumption
<1>1. PICK tok \in Tokens : Len(fed) < SEQ_LEN /\ Embed(tok, Len(fed))
  BY DEF CallInOrder
<1>2. fed \in Seq(Tokens) /\ Len(fed) \in Nat
  BY LenProperties DEF TransformerInv
<1>3. /\ fed' \in Seq(Tokens) /\ Len(fed') = Len(fed) + 1 /\ fed' # << >>
      /\ fed'[Len(fed) + 1] = tok
  BY <1>1, <1>2, AppendProperties DEF Embed
<1>4. layer' = 0 /\ layer = -1 /\ at' = Len(fed') - 1 /\ x' = <<tok>>
  BY <1>1, <1>2, <1>3 DEF Embed
<1>5. x' = RowOf(0, fed')
  BY <1>3, <1>4 DEF RowOf, Newest
<1>6. ASSUME NEW t \in 1 .. Len(fed)
      PROVE  SubSeq(fed', 1, t) = SubSeq(fed, 1, t)
  <2>1. \A i \in 1 .. t : fed'[i] = fed[i] /\ fed[i] \in Tokens
    BY <1>1, <1>2, AppendProperties, ElementOfSeq DEF Embed
  <2>2. /\ SubSeq(fed', 1, t) \in Seq(Tokens) /\ Len(SubSeq(fed', 1, t)) = t
        /\ \A i \in 1 .. t : SubSeq(fed', 1, t)[i] = fed'[i]
    BY <2>1, SubSeqProperties
  <2>3. /\ SubSeq(fed, 1, t) \in Seq(Tokens) /\ Len(SubSeq(fed, 1, t)) = t
        /\ \A i \in 1 .. t : SubSeq(fed, 1, t)[i] = fed[i]
    BY <2>1, SubSeqProperties
  <2> QED BY <2>1, <2>2, <2>3, SeqEqual
<1>7. \A l \in 0 .. N_LAYERS - 1 : Filled(l) = Len(fed) /\ Filled(l)' = Len(fed)
  BY <1>2, <1>3, <1>4 DEF Filled
<1>8. ASSUME NEW l \in 0 .. N_LAYERS - 1, NEW t \in 1 .. Filled(l)'
      PROVE  kv_cache'[loff(l) + t - 1] = RowOf(l, SubSeq(fed', 1, t))
  <2>1. t \in 1 .. Filled(l) /\ t \in 1 .. Len(fed)
    BY <1>7
  <2>2. kv_cache[loff(l) + t - 1] = RowOf(l, SubSeq(fed, 1, t))
    BY <2>1 DEF TransformerInv
  <2> QED BY <1>1, <1>6, <2>1, <2>2 DEF Embed
<1> QED
  BY <1>1, <1>3, <1>4, <1>5, <1>8 DEF TransformerInv, Embed

(* A pass of the layer loop keeps it.                                       *)
LEMMA LayerTransformerInv ==
  ASSUME TransformerInv, Layer PROVE TransformerInv'
<1> USE TransformerAssumption
<1>1. /\ fed \in Seq(Tokens) /\ Len(fed) \in Nat \ {0} /\ Len(fed) <= SEQ_LEN
      /\ fed # << >> /\ at = Len(fed) - 1 /\ x = RowOf(layer, fed)
      /\ layer \in 0 .. N_LAYERS - 1 /\ DOMAIN kv_cache = Rows
  BY LenProperties, EmptySeq DEF TransformerInv, Layer
<1>2. /\ loff(layer) + at \in Rows /\ at \in 0 .. SEQ_LEN - 1
      /\ kv_cache' = [kv_cache EXCEPT ![loff(layer) + at] = x]
  BY <1>1, RowsApart DEF Layer
<1>3. ASSUME NEW l \in 0 .. N_LAYERS - 1, NEW t \in 1 .. Len(fed),
             (l = layer /\ t = Len(fed)) \/ t \in 1 .. Filled(l)
      PROVE  kv_cache'[loff(l) + t - 1] = RowOf(l, SubSeq(fed, 1, t))
  <2>1. loff(l) \in Int
    BY DEF loff
  <2>2. CASE l = layer /\ t = Len(fed)
    <3>1. loff(l) + t - 1 = loff(layer) + at
      BY <1>1, <2>1, <2>2
    <3>2. SubSeq(fed, 1, t) = fed
      BY <1>1, <2>2, SubSeqFull
    <3> QED BY <1>1, <1>2, <2>2, <3>1, <3>2
  <2>3. CASE ~(l = layer /\ t = Len(fed))
    <3>1. t - 1 \in 0 .. SEQ_LEN - 1 /\ loff(l) + (t - 1) = loff(l) + t - 1
      BY <1>1, <2>1
    <3>2. loff(l) + (t - 1) # loff(layer) + at
      BY <1>1, <1>2, <2>3, <3>1, RowsApart
    <3>3. kv_cache'[loff(l) + t - 1] = kv_cache[loff(l) + t - 1]
      BY <1>1, <1>2, <3>1, <3>2, RowsApart
    <3> QED BY <1>3, <2>3, <3>3 DEF TransformerInv
  <2> QED BY <2>2, <2>3
<1>4. \A t \in 1 .. Len(fed) :
        kv_cache'[loff(layer) + t - 1] = RowOf(layer, SubSeq(fed, 1, t))
  <2> SUFFICES ASSUME NEW t \in 1 .. Len(fed)
               PROVE  t = Len(fed) \/ t \in 1 .. Filled(layer)
    BY <1>1, <1>3
  <2> QED BY <1>1 DEF Filled
<1>5. x' = fed
  BY <1>1, <1>4, AttendHistory DEF Layer
<1>6. fed' = fed /\ layer' = layer + 1 /\ at' = at /\ logits' = logits
  BY DEF Layer
<1>7. x' = RowOf(layer', fed')
  BY <1>1, <1>5, <1>6 DEF RowOf
<1>8. ASSUME NEW l \in 0 .. N_LAYERS - 1, NEW t \in 1 .. Filled(l)'
      PROVE  kv_cache'[loff(l) + t - 1] = RowOf(l, SubSeq(fed', 1, t))
  <2>1. t \in 1 .. Len(fed)
    BY <1>1, <1>6 DEF Filled
  <2>2. (l = layer /\ t = Len(fed)) \/ t \in 1 .. Filled(l)
    BY <1>1, <1>6, <2>1 DEF Filled
  <2> QED BY <1>3, <1>6, <2>1, <2>2
<1>9. DOMAIN kv_cache' = Rows /\ layer' \in 0 .. N_LAYERS
  BY <1>1, <1>2, <1>6
<1> QED
  BY <1>1, <1>6, <1>7, <1>8, <1>9 DEF TransformerInv

(* The classifier keeps it.                                                 *)
LEMMA ClassifyTransformerInv ==
  ASSUME TransformerInv, Classify PROVE TransformerInv'
<1> USE TransformerAssumption DEF Classify
<1>1. layer = N_LAYERS /\ x = fed /\ layer' = -1 /\ fed' = fed
  BY DEF TransformerInv, RowOf
<1>2. \A l \in 0 .. N_LAYERS - 1 : Filled(l)' = Filled(l)
  BY <1>1 DEF Filled
<1> QED
  BY <1>1, <1>2 DEF TransformerInv

(* Every step of forward() keeps it.                                        *)
LEMMA NextTransformerInv == TransformerInv /\ [Next]_modelVars => TransformerInv'
<1> SUFFICES ASSUME TransformerInv, [Next]_modelVars PROVE TransformerInv'
  OBVIOUS
<1>1. CASE UNCHANGED modelVars
  BY <1>1 DEF modelVars, TransformerInv, Filled
<1> QED
  BY <1>1, EmbedTransformerInv, LayerTransformerInv, ClassifyTransformerInv
     DEF Next

(* Whatever the number of layers and the length of the cache, logits come   *)
(* from the whole history and from nothing else (forward, run_fa.c).        *)
THEOREM ContextSafe == Spec => []ContextIsHistory
<1>1. TransformerInv => ContextIsHistory
  BY DEF TransformerInv, ContextIsHistory
<1> QED
  BY <1>1, InitTransformerInv, NextTransformerInv, PTL DEF Spec
-----------------------------------------------------------------------------
(* ---- what is fed, sampled and said ---- *)

(* sample returns a token with a positive share, one of the nucleus when a  *)
(* nucleus is asked for (run_fa.c).                                         *)
LEMMA SampleIs ==
  ASSUME NEW prob, Softmax(prob), NEW bound \in 0 .. TOTAL,
         bound \in {0, TOTAL} \/ bound * Cardinality(Tokens) >= TOTAL,
         NEW coin \in Coins, NEW heat, NEW i \in sample(prob, heat, bound, coin)
  PROVE  /\ i \in Tokens /\ prob[i] > 0
         /\ heat # 0 /\ bound \notin {0, TOTAL} => i \in Nucleus(prob, bound)
<1>1. CASE heat = 0
  <2>1. i = sample_argmax(prob)
    BY <1>1 DEF sample
  <2> QED BY <1>1, <2>1, ArgmaxIs
<1>2. CASE heat # 0 /\ bound \in {0, TOTAL}
  <2>1. i = sample_mult(prob, coin)
    BY <1>2 DEF sample
  <2> QED BY <1>2, <2>1, MultIs
<1>3. CASE heat # 0 /\ bound \notin {0, TOTAL}
  <2>1. i \in sample_topp(prob, bound, coin)
    BY <1>3 DEF sample
  <2>2. bound \in 1 .. TOTAL - 1 /\ bound * Cardinality(Tokens) >= TOTAL
    BY <1>3, SamplerAssumption
  <2> QED BY <2>1, <2>2, ToppNucleus
<1> QED BY <1>1, <1>2, <1>3

(* What the theorems below suppose: limits given to with_encode_decode,     *)
(* which nothing clamps, lie inside the cache, and the model answers every  *)
(* context with a softmax.                                                  *)
LimitsFit ==
  \A request \in Requests :
    request[1] = "with_encode_decode" => request[2] <= SEQ_LEN
AllSoftmax == \A context \in Seq(Tokens) \ {<< >>} : Softmax(Dist(context))

(* The k-th token of prompt and answer.                                     *)
Story(k) == IF k <= n THEN prompt_tokens[k] ELSE shown[k - n]

SayInv ==
  /\ shown \in Seq(Tokens)
  /\ pc \in Preparing => shown = << >>
  /\ pc # "setup" => steps \in Int /\ steps <= SEQ_LEN
  /\ pc # "forward" => layer = -1
  /\ pc \in {"loop", "forward", "next"} =>
       /\ Len(shown) = IF pos + 1 < n THEN 0 ELSE pos + 1 - n
       /\ \A k \in 1 .. Len(fed) : fed[k] = Story(k)
  /\ pc = "loop" => token = Story(pos + 1)

ProgramInv == ProgramTypeOK /\ ClockInv /\ SayInv /\ TransformerInv

(* The invariant of the programs holds at the start.                        *)
LEMMA InitProgramInv == ProgramInit => ProgramInv
<1> SUFFICES ASSUME ProgramInit PROVE SayInv /\ TransformerInv
  BY InitTypeOK, InitClockInv DEF ProgramInv
<1>1. SayInv
  BY EmptySeq DEF ProgramInit, SayInv, Preparing, Init
<1>2. TransformerInv
  BY InitTransformerInv DEF ProgramInit
<1> QED BY <1>1, <1>2

(* The limit of the loop lies inside the cache.                             *)
LEMMA BudgetIs ==
  ASSUME LimitsFit, ProgramTypeOK PROVE Budget \in Int /\ Budget <= SEQ_LEN
<1>1. header.seq_len = SEQ_LEN /\ SEQ_LEN \in Nat
  BY HeadersAssumption, TransformerAssumption DEF ProgramTypeOK
<1>2. max_steps \in Int /\ (entry = "with_encode_decode" => max_steps <= SEQ_LEN)
  BY RequestsAssumption DEF ProgramTypeOK, LimitsFit
<1> QED BY <1>1, <1>2 DEF Budget, Clamped

(* The token the loop feeds next is one of the vocabulary.                  *)
LEMMA TokenInPlay ==
  ASSUME ProgramInv, pc = "loop" PROVE token \in Tokens
<1>1. token = Story(pos + 1) /\ shown \in Seq(Tokens) /\ prompt_tokens \in Seq(Tokens)
      /\ pos \in Nat /\ Len(shown) = IF pos + 1 < n THEN 0 ELSE pos + 1 - n
  BY DEF ProgramInv, SayInv, ProgramTypeOK, ClockInv
<1>2. n \in Nat /\ n = Len(prompt_tokens)
  BY <1>1, LenProperties DEF n
<1>3. CASE pos + 1 <= n
  <2>1. pos + 1 \in 1 .. Len(prompt_tokens)
    BY <1>1, <1>2, <1>3
  <2> QED BY <1>1, <1>3, <2>1, ElementOfSeq DEF Story
<1>4. CASE ~(pos + 1 <= n)
  <2>1. (pos + 1) - n \in 1 .. Len(shown)
    BY <1>1, <1>2, <1>4
  <2>2. token = shown[(pos + 1) - n]
    BY <1>1, <1>4 DEF Story
  <2>3. shown[(pos + 1) - n] \in Tokens
    BY <1>1, <2>1, ElementOfSeq
  <2> QED BY <2>2, <2>3
<1> QED BY <1>3, <1>4

(* The program's calls of forward() are those Transformer relies on.        *)
LEMMA StepCalls ==
  ASSUME ProgramInv, [ProgramNext]_vars PROVE [Next]_modelVars
<1>1. CASE LoopHead
  <2>1. /\ pc = "loop" /\ pos < steps /\ Embed(token, pos)
    BY <1>1 DEF LoopHead
  <2>2. pos = Len(fed) /\ pos \in Nat /\ pos < SEQ_LEN
    BY <2>1, TransformerAssumption DEF ProgramInv, ClockInv, SayInv, Preparing
  <2>3. token \in Tokens
    BY <2>1, TokenInPlay
  <2> QED BY <2>1, <2>2, <2>3 DEF Next, CallInOrder
<1>2. CASE Forward
  BY <1>2 DEF Forward, Next
<1>3. CASE ~(LoopHead \/ Forward)
  BY <1>3 DEF ProgramNext, vars, modelVars, SetupText, SetupTokens, Merge, PromoteSystem,
              PromoteUser, NextToken, LoopEnd, ChatReport, GenReport
<1> QED BY <1>1, <1>2, <1>3

(* Which tokens may be next, and that a sampled one has a share in the      *)
(* distribution over what follows the prompt and the answer so far.         *)
LEMMA NextTokensAre ==
  ASSUME ProgramInv, AllSoftmax, pc = "next", NEW nxt \in NextTokens
  PROVE  /\ nxt \in Tokens
         /\ pos + 1 < n => nxt = prompt_tokens[pos + 2]
         /\ pos + 1 >= n =>
              /\ nxt \in Likely(logits) /\ logits = prompt_tokens \o shown
              /\ temperature # 0 /\ topp \notin {0, TOTAL} => nxt \in Nucleus(Dist(logits), topp)
<1>1. /\ prompt_tokens \in Seq(Tokens) /\ shown \in Seq(Tokens) /\ fed \in Seq(Tokens)
      /\ n \in Nat /\ pos \in Nat /\ Len(fed) = pos + 1 /\ logits = fed
      /\ Len(shown) = IF pos + 1 < n THEN 0 ELSE pos + 1 - n
      /\ \A k \in 1 .. Len(fed) : fed[k] = Story(k)
  BY LenProperties DEF ProgramInv, ProgramTypeOK, ClockInv, SayInv, TransformerInv, n
<1>2. CASE pos + 1 < n
  <2>1. pos < n - 1
    BY <1>1, <1>2
  <2>2. nxt = prompt_tokens[pos + 2]
    BY <2>1 DEF NextTokens
  <2>3. pos + 2 \in 1 .. Len(prompt_tokens)
    BY <1>1, <1>2 DEF n
  <2>4. nxt \in Tokens
    BY <1>1, <2>2, <2>3, ElementOfSeq
  <2> QED BY <1>1, <1>2, <2>2, <2>4
<1>3. CASE ~(pos + 1 < n)
  <2>1. ~(pos < n - 1) /\ pos + 1 >= n
    BY <1>1, <1>3
  <2>2. PICK coin \in Coins : nxt \in sample(Dist(logits), temperature, topp, coin)
    BY <2>1 DEF NextTokens
  <2>3. logits \in Seq(Tokens) \ {<< >>}
    BY <1>1, LenProperties, EmptySeq
  <2>4. Softmax(Dist(logits))
    BY <2>3 DEF AllSoftmax
  <2>5. topp \in 0 .. TOTAL /\ (topp \in {0, TOTAL} \/ topp * Cardinality(Tokens) >= TOTAL)
    BY RequestsAssumption DEF ProgramInv, ProgramTypeOK
  <2>6. /\ nxt \in Tokens /\ Dist(logits)[nxt] > 0
        /\ temperature # 0 /\ topp \notin {0, TOTAL} => nxt \in Nucleus(Dist(logits), topp)
    BY <2>2, <2>4, <2>5, SampleIs
  <2>7. nxt \in Likely(logits)
    BY <2>4, <2>6 DEF Likely, Softmax
  <2>8. logits = prompt_tokens \o shown
    <3> DEFINE c == Cat(prompt_tokens, shown)
    <3>1. c \in Seq(Tokens) /\ Len(c) = Len(prompt_tokens) + Len(shown)
      BY <1>1, CatIs
    <3>2. \A k \in 1 .. Len(prompt_tokens) : c[k] = prompt_tokens[k]
      <4>1. prompt_tokens \in Seq(Tokens) /\ shown \in Seq(Tokens)
        BY <1>1
      <4> QED BY <4>1, CatIs
    <3>3. ASSUME NEW k \in 1 .. Len(shown) PROVE c[Len(prompt_tokens) + k] = shown[k]
      <4>1. prompt_tokens \in Seq(Tokens) /\ shown \in Seq(Tokens)
        BY <1>1
      <4>2. Cat(prompt_tokens, shown)[Len(prompt_tokens) + k] = shown[k]
        BY <4>1, CatIs
      <4> QED BY <4>2
    <3>4. n = Len(prompt_tokens)
      BY DEF n
    <3> HIDE DEF c
    <3>5. Len(c) = Len(logits)
      BY <1>1, <2>1, <3>1, <3>4
    <3>6. ASSUME NEW k \in 1 .. Len(c) PROVE c[k] = logits[k]
      <4>1. k \in 1 .. Len(fed) /\ logits[k] = Story(k)
        BY <1>1, <3>5
      <4>2. CASE k <= n
        <5>1. k \in 1 .. Len(prompt_tokens)
          BY <1>1, <3>4, <4>1, <4>2
        <5> QED BY <3>2, <4>1, <4>2, <5>1 DEF Story
      <4>3. CASE ~(k <= n)
        <5>1. k - n \in 1 .. Len(shown) /\ Len(prompt_tokens) + (k - n) = k
          BY <1>1, <2>1, <3>4, <4>1, <4>3
        <5>2. c[k] = shown[k - n]
          BY <3>3, <5>1
        <5> QED BY <4>1, <4>3, <5>2 DEF Story
      <4> QED BY <4>2, <4>3
    <3>7. logits \in Seq(Tokens)
      BY <2>3
    <3>8. c = logits
      BY <3>1, <3>5, <3>6, <3>7, SeqEqual
    <3> QED BY <3>8, Zenon DEF c, Cat
  <2> QED BY <1>3, <2>6, <2>7, <2>8
<1> QED BY <1>2, <1>3
-----------------------------------------------------------------------------
(* The first token of the template stays the first. *)
LEMMA FirstStays ==
  ASSUME NEW before \in Seq(Tokens), before # << >>, NEW list \in Seq(Tokens)
  PROVE  (before \o list \o Closing)[1] = before[1]
<1>1. Closing \in Seq(Tokens)
  <2>1. /\ IM_END \in Tokens /\ NL \in Tokens /\ IM_START \in Tokens /\ ASSISTANT \in Tokens
    BY TokensAssumption
  <2> QED BY <2>1 DEF Closing
<1> DEFINE a == Cat(before, list)
           b == Cat(a, Closing)
<1>2. 1 \in 1 .. Len(before) /\ Len(before) \in Nat /\ Len(list) \in Nat
  BY LenProperties, EmptySeq
<1>3. a \in Seq(Tokens) /\ Len(a) = Len(before) + Len(list) /\ a[1] = before[1]
  BY <1>2, CatIs
<1>4. 1 \in 1 .. Len(a)
  BY <1>2, <1>3
<1> HIDE DEF a
<1>5. b[1] = a[1]
  <2>1. a \in Seq(Tokens)
    BY <1>3
  <2>2. Cat(a, Closing)[1] = a[1]
    BY <1>1, <1>4, <2>1, CatIs
  <2> QED BY <2>2
<1> QED BY <1>3, <1>5, Zenon DEF a, b, Cat

(* Every step keeps what is fed and shown in accord.                        *)
LEMMA NextSayInv ==
  ASSUME LimitsFit, AllSoftmax, ProgramInv, [ProgramNext]_vars PROVE SayInv'
<1>0. /\ ProgramTypeOK /\ ClockInv /\ SayInv /\ TransformerInv
      /\ prompt_tokens \in Seq(Tokens) /\ shown \in Seq(Tokens) /\ fed \in Seq(Tokens)
      /\ n \in Nat /\ pos \in Nat /\ Len(fed) \in Nat /\ n = Len(prompt_tokens)
      /\ pc \in Preparing => shown = << >> /\ fed = << >> /\ pos = 0
      /\ pc # "setup" => steps \in Int /\ steps <= SEQ_LEN
  BY LenProperties DEF ProgramInv, ProgramTypeOK, ClockInv, SayInv, TransformerInv, n
<1>1. CASE SetupText
  <2>1. Budget \in Int /\ Budget <= SEQ_LEN
    BY <1>0, BudgetIs
  <2> QED BY <1>0, <1>1, <2>1 DEF SetupText, SayInv, Preparing, chatVars, modelVars
<1>2. CASE SetupTokens
  <2>1. Budget \in Int /\ Budget <= SEQ_LEN
    BY <1>0, BudgetIs
  <2>2. prompt_tokens' \in Seq(Tokens) \ {<< >>} /\ n' = Len(prompt_tokens')
    BY <1>2, TokensAssumption DEF SetupTokens, n
  <2>3. n' \in Nat /\ n' > 0
    BY <2>2, LenProperties, EmptySeq
  <2>4. /\ pc = "setup" /\ pc' = "loop" /\ shown' = << >> /\ fed' = << >> /\ pos' = 0
        /\ steps' = Budget /\ token' = prompt_tokens'[1] /\ layer' = layer /\ layer = -1
    BY <1>0, <1>2 DEF SetupTokens, Preparing, modelVars, SayInv
  <2>5. Len(shown') = 0 /\ Len(fed') = 0 /\ shown' \in Seq(Tokens)
    BY <2>4, EmptySeq
  <2>6. token' = Story(pos + 1)'
    BY <2>3, <2>4 DEF Story
  <2>7. /\ Len(shown') = IF pos' + 1 < n' THEN 0 ELSE pos' + 1 - n'
        /\ \A k \in 1 .. Len(fed') : fed'[k] = Story(k)'
    <3>1. Len(shown') = 0 /\ Len(fed') = 0 /\ pos' = 0
      BY <2>4, <2>5, <2>6
    <3>2. Len(shown') = IF pos' + 1 < n' THEN 0 ELSE pos' + 1 - n'
      <4>1. 0 + 1 < n' \/ n' = 1
        BY <2>3
      <4>2. CASE n' = 1
        <5>1. 0 + 1 - n' = 0
          BY <4>2
        <5> QED BY <3>1, <5>1
      <4> QED BY <3>1, <4>1, <4>2
    <3>3. ASSUME NEW k \in 1 .. Len(fed') PROVE fed'[k] = Story(k)'
      BY <3>1
    <3> QED BY <3>2, <3>3
  <2>8. steps' \in Int /\ steps' <= SEQ_LEN /\ pc' = "loop" /\ layer' = -1
    BY <2>1, <2>4
  <2> QED BY <2>5, <2>6, <2>7, <2>8 DEF SayInv, Preparing
<1>3. CASE Merge
  BY <1>0, <1>3 DEF Merge, SayInv, Preparing, chatVars, modelVars
<1>4. CASE PromoteSystem
  BY <1>0, <1>4 DEF PromoteSystem, SayInv, Preparing, modelVars
<1>5. CASE PromoteUser
  <2>1. toks \in Seq(Tokens) /\ prompt_tokens # << >> /\ pc = "user"
    BY <1>0, <1>5 DEF PromoteUser, ProgramTypeOK
  <2>2. prompt_tokens' \in Seq(Tokens) \ {<< >>} /\ n' = Len(prompt_tokens')
    BY <1>0, <1>5, <2>1, TemplateTyped DEF PromoteUser, n
  <2>3. n' \in Nat /\ n' > 0
    BY <2>2, LenProperties, EmptySeq
  <2>4. token' = prompt_tokens'[1]
    BY <1>0, <1>5, <2>1, FirstStays DEF PromoteUser
  <2>5. /\ pc' = "loop" /\ shown' = << >> /\ fed' = << >> /\ pos' = 0
        /\ steps' = steps /\ layer' = layer /\ layer = -1
    BY <1>0, <1>5, <2>1 DEF PromoteUser, Preparing, modelVars, SayInv
  <2>6. Len(shown') = 0 /\ Len(fed') = 0 /\ shown' \in Seq(Tokens)
    BY <2>5, EmptySeq
  <2>7. token' = Story(pos + 1)'
    BY <2>3, <2>4, <2>5 DEF Story
  <2>8. /\ Len(shown') = IF pos' + 1 < n' THEN 0 ELSE pos' + 1 - n'
        /\ \A k \in 1 .. Len(fed') : fed'[k] = Story(k)'
    <3>1. Len(shown') = 0 /\ Len(fed') = 0 /\ pos' = 0
      BY <2>4, <2>5, <2>6
    <3>2. Len(shown') = IF pos' + 1 < n' THEN 0 ELSE pos' + 1 - n'
      <4>1. 0 + 1 < n' \/ n' = 1
        BY <2>3
      <4>2. CASE n' = 1
        <5>1. 0 + 1 - n' = 0
          BY <4>2
        <5> QED BY <3>1, <5>1
      <4> QED BY <3>1, <4>1, <4>2
    <3>3. ASSUME NEW k \in 1 .. Len(fed') PROVE fed'[k] = Story(k)'
      BY <3>1
    <3> QED BY <3>2, <3>3
  <2>9. steps' \in Int /\ steps' <= SEQ_LEN /\ pc' = "loop" /\ layer' = -1
    BY <1>0, <2>1, <2>5
  <2> QED BY <2>6, <2>7, <2>8, <2>9 DEF SayInv, Preparing
<1>6. CASE LoopHead
  <2>1. /\ pc = "loop" /\ pc' = "forward" /\ shown' = shown /\ pos' = pos /\ n' = n
        /\ prompt_tokens' = prompt_tokens /\ steps' = steps /\ fed' = Append(fed, token)
        /\ Len(fed) = pos
    BY <1>0, <1>6 DEF LoopHead, Embed, n, ClockInv
  <2>2. token \in Tokens /\ token = Story(pos + 1)
        /\ \A k \in 1 .. Len(fed) : fed[k] = Story(k)
    BY <1>0, <2>1, TokenInPlay DEF SayInv
  <2>3. Len(fed') = pos + 1
    BY <1>0, <2>1, <2>2, AppendProperties
  <2>4. ASSUME NEW k \in 1 .. Len(fed') PROVE fed'[k] = Story(k)'
    <3>1. Story(k)' = Story(k)
      BY <2>1 DEF Story
    <3>2. CASE k = pos + 1
      <4>1. fed'[k] = token
        BY <1>0, <2>1, <2>2, <3>2, AppendProperties
      <4> QED BY <2>2, <3>1, <3>2, <4>1
    <3>3. CASE k # pos + 1
      <4>1. k \in 1 .. Len(fed)
        BY <1>0, <2>1, <2>3, <3>3
      <4>2. fed'[k] = fed[k]
        BY <1>0, <2>1, <2>2, <4>1, AppendProperties
      <4> QED BY <2>2, <3>1, <4>1, <4>2
    <3> QED BY <3>2, <3>3
  <2> QED BY <1>0, <2>1, <2>4 DEF SayInv, Preparing
<1>7. CASE Forward
  <2>1. /\ pc = "forward" /\ shown' = shown /\ pos' = pos /\ n' = n /\ fed' = fed
        /\ prompt_tokens' = prompt_tokens /\ steps' = steps
        /\ \/ pc' = "forward"
           \/ pc' = "next" /\ layer' = -1
    BY <1>7 DEF Forward, Layer, Classify, chatVars, n
  <2> QED BY <1>0, <2>1 DEF SayInv, Preparing, Story
<1>8. CASE NextToken
  <2>1. PICK nxt \in NextTokens : ChatStop(nxt) \/ ChatGoOn(nxt) \/ GenStop(nxt) \/ GenGoOn(nxt)
    BY <1>8 DEF NextToken
  <2>2. /\ pc = "next" /\ pos' = pos + 1 /\ prompt_tokens' = prompt_tokens /\ n' = n
        /\ steps' = steps /\ fed' = fed /\ layer' = layer /\ layer = -1
        /\ Len(fed) = pos + 1 /\ steps \in Int /\ steps <= SEQ_LEN
        /\ Len(shown) = IF pos + 1 < n THEN 0 ELSE pos + 1 - n
        /\ \A k \in 1 .. Len(fed) : fed[k] = Story(k)
    BY <1>0, <1>8 DEF NextToken, modelVars, n, ClockInv, SayInv
  <2>3. /\ nxt \in Tokens
        /\ pos + 1 < n => nxt = prompt_tokens[pos + 2]
    BY <2>2, NextTokensAre
  <2>4. /\ Append(shown, nxt) \in Seq(Tokens) /\ Len(Append(shown, nxt)) = Len(shown) + 1
        /\ Append(shown, nxt)[Len(shown) + 1] = nxt
        /\ \A k \in 1 .. Len(shown) : Append(shown, nxt)[k] = shown[k]
    BY <1>0, <2>3, AppendProperties
  <2>5. CASE ChatStop(nxt) \/ GenStop(nxt)
    <3>1. pc' = "report" /\ shown' \in Seq(Tokens)
      BY <1>0, <2>4, <2>5 DEF ChatStop, GenStop
    <3> QED BY <2>2, <3>1 DEF SayInv, Preparing
  <2>6. CASE ChatGoOn(nxt) \/ GenGoOn(nxt)
    <3>1. /\ pc' = "loop" /\ token' = nxt
          /\ shown' = IF pos + 1 >= n THEN Append(shown, nxt) ELSE shown
      BY <2>6 DEF ChatGoOn, GenGoOn
    <3>2. CASE pos + 1 < n
      <4>1. shown' = shown /\ Len(shown) = 0
        BY <1>0, <2>2, <3>1, <3>2
      <4>2. Len(shown') = IF pos' + 1 < n' THEN 0 ELSE pos' + 1 - n'
        BY <1>0, <2>2, <3>2, <4>1
      <4>3. \A k \in 1 .. Len(fed) : fed[k] = Story(k)'
        BY <2>2, <4>1 DEF Story
      <4>4. token' = Story(pos + 1)'
        <5>1. pos' + 1 = pos + 2 /\ pos' + 1 <= n'
          BY <1>0, <2>2, <3>2
        <5> QED BY <2>2, <2>3, <3>1, <3>2, <5>1 DEF Story
      <4> QED BY <1>0, <2>2, <3>1, <4>1, <4>2, <4>3, <4>4 DEF SayInv, Preparing
    <3>3. CASE ~(pos + 1 < n)
      <4>1. shown' = Append(shown, nxt) /\ Len(shown) = pos + 1 - n /\ Len(shown') = pos + 2 - n
        BY <1>0, <2>2, <2>4, <3>1, <3>3
      <4>2. Len(shown') = IF pos' + 1 < n' THEN 0 ELSE pos' + 1 - n'
        BY <1>0, <2>2, <3>3, <4>1
      <4>3. ASSUME NEW k \in 1 .. Len(fed) PROVE fed[k] = Story(k)'
        <5>1. CASE k <= n
          BY <2>2, <5>1 DEF Story
        <5>2. CASE ~(k <= n)
          <6>1. k - n \in 1 .. Len(shown)
            BY <1>0, <2>2, <4>1, <5>2
          <6>2. shown'[k - n] = shown[k - n]
            BY <2>4, <4>1, <6>1
          <6> QED BY <2>2, <5>2, <6>2 DEF Story
        <5> QED BY <5>1, <5>2
      <4>4. token' = Story(pos + 1)'
        <5>1. ~(pos' + 1 <= n') /\ (pos' + 1) - n' = Len(shown) + 1
          BY <1>0, <2>2, <3>3, <4>1
        <5>2. Story(pos + 1)' = shown'[Len(shown) + 1]
          BY <5>1 DEF Story
        <5> QED BY <2>4, <3>1, <4>1, <5>2
      <4> QED BY <2>2, <2>4, <3>1, <4>1, <4>2, <4>3, <4>4 DEF SayInv, Preparing
    <3> QED BY <3>2, <3>3
  <2> QED BY <2>1, <2>5, <2>6
<1>9. CASE LoopEnd
  BY <1>0, <1>9 DEF LoopEnd, chatVars, modelVars, SayInv, Preparing
<1>10. CASE ChatReport \/ GenReport
  BY <1>0, <1>10 DEF ChatReport, GenReport, chatVars, modelVars, SayInv, Preparing
<1>11. CASE UNCHANGED vars
  BY <1>0, <1>11 DEF vars, chatVars, modelVars, SayInv, Preparing, Story, n
<1> QED
  BY <1>1, <1>2, <1>3, <1>4, <1>5, <1>6, <1>7, <1>8, <1>9, <1>10, <1>11
     DEF ProgramNext

(* The invariant of the programs.                                           *)
LEMMA NextProgramInv ==
  ASSUME LimitsFit, AllSoftmax, ProgramInv, [ProgramNext]_vars PROVE ProgramInv'
<1>1. ProgramTypeOK' /\ ClockInv'
  BY NextTypeOK, NextClockInv DEF ProgramInv
<1>2. TransformerInv'
  BY StepCalls, NextTransformerInv DEF ProgramInv
<1> QED BY <1>1, <1>2, NextSayInv DEF ProgramInv
-----------------------------------------------------------------------------
(* The program calls forward() for the positions 0, 1, ... in order and for *)
(* no more of them than the cache has rows (generate, chat, run_fa.c).      *)
THEOREM CallsSafe ==
  ASSUME LimitsFit, AllSoftmax PROVE ProgramSpec => CallsInOrder
<1>1. ProgramInv /\ [ProgramNext]_vars => ProgramInv' /\ [Next]_modelVars
  BY NextProgramInv, StepCalls
<1> QED
  BY <1>1, InitProgramInv, PTL DEF ProgramSpec, CallsInOrder

(* So what ContextSafe says of forward() holds of the programs: every       *)
(* distribution is over what was fed, all of it and nothing else.           *)
THEOREM ProgramContextSafe ==
  ASSUME LimitsFit, AllSoftmax PROVE ProgramSpec => []ContextIsHistory
<1>1. ProgramInv => ContextIsHistory
  BY DEF ProgramInv, TransformerInv, ContextIsHistory
<1>2. ProgramInv /\ [ProgramNext]_vars => ProgramInv'
  BY NextProgramInv
<1> QED
  BY <1>1, <1>2, InitProgramInv, PTL DEF ProgramSpec

(* A sampled token is one of the nucleus of the distribution over the       *)
(* context, whatever the vocabulary, the distribution, the coin and the     *)
(* order of equal probabilities (sample_topp, run_fa.c).                    *)
THEOREM NucleusSafe ==
  ASSUME LimitsFit, AllSoftmax PROVE ProgramSpec => NucleusOnly
<1> DEFINE InNucleus ==
      pc = "next" /\ pos >= n - 1 /\ temperature # 0 /\ topp \notin {0, TOTAL}
        => next' \in Nucleus(Dist(logits), topp)
<1>1. ASSUME ProgramInv, [ProgramNext]_vars PROVE [InNucleus]_vars
  <2> SUFFICES ASSUME ProgramNext, pc = "next", pos >= n - 1,
                      temperature # 0, topp \notin {0, TOTAL}
               PROVE  next' \in Nucleus(Dist(logits), topp)
    BY <1>1
  <2>1. NextToken
    BY DEF ProgramNext, SetupText, SetupTokens, Merge, PromoteSystem, PromoteUser, LoopHead,
           Forward, LoopEnd, ChatReport, GenReport
  <2>2. next' \in NextTokens
    BY <2>1 DEF NextToken
  <2>3. pos + 1 >= n
    BY <1>1, LenProperties DEF ProgramInv, ProgramTypeOK, ClockInv, n
  <2> QED BY <1>1, <2>2, <2>3, NextTokensAre
<1>2. ProgramInv /\ [ProgramNext]_vars => ProgramInv'
  BY NextProgramInv
<1> QED
  BY <1>1, <1>2, InitProgramInv, PTL DEF ProgramSpec, NucleusOnly

(* Every step of the programs is one of Generation, or none of it.          *)
LEMMA StepGenerates ==
  ASSUME AllSoftmax, ProgramInv, [ProgramNext]_vars
  PROVE  [Answer!Next]_(Answer!generationVars)
<1> DEFINE asked == IF pc \in {"setup", "system", "user"} THEN << >> ELSE prompt_tokens
           space == IF pc \in {"setup", "system", "user"} THEN 0 ELSE steps
           ended == pc \in {"report", "done"}
           Still == asked' = asked /\ space' = space /\ shown' = shown /\ ended' = ended
<1>0. /\ ProgramTypeOK /\ ClockInv /\ SayInv /\ TransformerInv
      /\ prompt_tokens \in Seq(Tokens) /\ shown \in Seq(Tokens)
      /\ n \in Nat /\ pos \in Nat /\ n = Len(prompt_tokens) /\ Len(shown) \in Nat
      /\ pc \notin {"setup", "system"} => prompt_tokens # << >>
      /\ pc # "setup" => steps \in Int
  BY LenProperties DEF ProgramInv, ProgramTypeOK, ClockInv, SayInv, TransformerInv, n
<1>1. ASSUME Still PROVE [Answer!Next]_(Answer!generationVars)
  BY <1>1 DEF Answer!generationVars
<1>2. CASE SetupText
  BY <1>1, <1>2 DEF SetupText, chatVars
<1>3. CASE SetupTokens
  <2>1. prompt_tokens' # << >>
    BY <1>3, TokensAssumption DEF SetupTokens
  <2>2. asked = << >> /\ asked' # << >> /\ shown' = shown /\ ended' = ended
    BY <1>3, <2>1 DEF SetupTokens
  <2> QED BY <2>2 DEF Answer!Next, Answer!Ask
<1>4. CASE Merge
  BY <1>1, <1>4 DEF Merge, chatVars
<1>5. CASE PromoteSystem
  BY <1>1, <1>5 DEF PromoteSystem
<1>6. CASE PromoteUser
  <2>1. prompt_tokens' # << >>
    BY <1>0, <1>6, TemplateTyped DEF PromoteUser, ProgramTypeOK
  <2>2. asked = << >> /\ asked' # << >> /\ shown' = shown /\ ended' = ended
    BY <1>6, <2>1 DEF PromoteUser
  <2> QED BY <2>2 DEF Answer!Next, Answer!Ask
<1>7. CASE LoopHead
  BY <1>1, <1>7 DEF LoopHead
<1>8. CASE Forward
  BY <1>1, <1>8 DEF Forward, chatVars
<1>9. CASE NextToken
  <2>1. PICK nxt \in NextTokens : ChatStop(nxt) \/ ChatGoOn(nxt) \/ GenStop(nxt) \/ GenGoOn(nxt)
    BY <1>9 DEF NextToken
  <2>2. /\ pc = "next" /\ prompt_tokens' = prompt_tokens /\ steps' = steps
        /\ prompt_tokens # << >> /\ steps \in Int
        /\ Len(shown) = IF pos + 1 < n THEN 0 ELSE pos + 1 - n
    BY <1>0, <1>9 DEF NextToken, SayInv
  <2>3. pos + 1 >= n => nxt \in Likely(prompt_tokens \o shown)
    BY <2>2, NextTokensAre
  <2>4. asked = prompt_tokens /\ space = steps /\ ~ended
    BY <2>2
  <2>5. CASE ChatStop(nxt)
    <3>1. /\ asked' = asked /\ space' = space /\ shown' = shown /\ ended'
          /\ IM_END \in Likely(asked \o shown)
      BY <2>2, <2>3, <2>4, <2>5 DEF ChatStop
    <3> QED BY <2>2, <2>4, <3>1 DEF Answer!Next, Answer!Stop
  <2>6. CASE ChatGoOn(nxt) \/ GenGoOn(nxt)
    <3>1. /\ pc' = "loop" /\ asked' = asked /\ space' = space /\ ~ended'
          /\ shown' = IF pos + 1 >= n THEN Append(shown, nxt) ELSE shown
          /\ pos + 1 < n \/ nxt # IM_END
      BY <2>2, <2>6 DEF ChatGoOn, GenGoOn
    <3>2. CASE pos + 1 >= n
      <4>1. nxt # IM_END /\ shown' = Append(shown, nxt) /\ nxt \in Likely(asked \o shown)
        BY <1>0, <2>3, <2>4, <3>1, <3>2
      <4> QED BY <2>2, <2>4, <3>1, <4>1 DEF Answer!Next, Answer!Say
    <3>3. CASE ~(pos + 1 >= n)
      BY <1>1, <2>4, <3>1, <3>3
    <3> QED BY <3>2, <3>3
  <2>7. CASE GenStop(nxt)
    <3>1. asked' = asked /\ space' = space /\ ended'
      BY <2>2, <2>7 DEF GenStop
    <3>2. CASE pos + 1 >= steps /\ shown' = shown
      <4>1. Len(asked) + Len(shown) >= space
        BY <1>0, <2>2, <2>4, <3>2
      <4> QED BY <2>2, <2>4, <3>1, <3>2, <4>1 DEF Answer!Next, Answer!Stop
    <3>3. CASE pos + 1 >= n /\ nxt = IM_END /\ shown' = Append(shown, nxt)
      <4>1. nxt \in Likely(asked \o shown)
        BY <2>3, <2>4, <3>3
      <4> QED BY <2>2, <2>4, <3>1, <3>3, <4>1 DEF Answer!Next, Answer!Say
    <3> QED BY <2>7, <3>2, <3>3 DEF GenStop
  <2> QED BY <2>1, <2>5, <2>6, <2>7
<1>10. CASE LoopEnd
  <2>1. /\ pc = "loop" /\ asked' = asked /\ space' = space /\ shown' = shown
        /\ ended' /\ ~ended /\ asked = prompt_tokens /\ space = steps /\ pos >= steps
    BY <1>10 DEF LoopEnd, chatVars
  <2>2. Len(shown) = (IF pos + 1 < n THEN 0 ELSE pos + 1 - n) /\ steps \in Int
    BY <1>0, <2>1 DEF SayInv
  <2>3. Len(asked) + Len(shown) >= space
    BY <1>0, <2>1, <2>2
  <2> QED BY <1>0, <2>1, <2>3 DEF Answer!Next, Answer!Stop
<1>11. CASE ChatReport \/ GenReport
  BY <1>1, <1>11 DEF ChatReport, GenReport, chatVars
<1>12. CASE UNCHANGED vars
  BY <1>1, <1>12 DEF vars, chatVars
<1> QED
  BY <1>2, <1>3, <1>4, <1>5, <1>6, <1>7, <1>8, <1>9, <1>10, <1>11, <1>12 DEF ProgramNext

(* The programs implement Generation: every token shown is one the model    *)
(* gives a chance after the prompt and all that was shown before, and the   *)
(* answer ends only at the end token or at the limit.                       *)
THEOREM GenerationImplemented ==
  ASSUME LimitsFit, AllSoftmax PROVE ProgramSpec => ImplementsGeneration
<1>1. ProgramInit => Answer!Init
  BY DEF ProgramInit, Answer!Init
<1>2. ProgramInv /\ [ProgramNext]_vars => ProgramInv' /\ [Answer!Next]_(Answer!generationVars)
  BY NextProgramInv, StepGenerates
<1> QED
  BY <1>1, <1>2, InitProgramInv, PTL DEF ProgramSpec, ImplementsGeneration, Answer!Spec
=============================================================================
