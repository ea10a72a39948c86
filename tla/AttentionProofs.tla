--------------------------- MODULE AttentionProofs ---------------------------
(***************************************************************************)
(* For every number of heads, group size, length of the cache, position    *)
(* and integer scores, and every interleaving of the heads: the one pass   *)
(* of fa_core_q8_8 and the three passes of runperf compute softmax         *)
(* attention.                                                              *)
(***************************************************************************)
EXTENDS Attention, TLAPS

(* Cells of different heads, and of different positions, differ. *)
LEMMA CellsApart ==
  ASSUME NEW h \in Heads, NEW k \in 0 .. SEQ_LEN - 1
  PROVE  /\ Cell(h, k) \in 0 .. N_HEADS * SEQ_LEN - 1
         /\ \A g \in Heads : \A j \in 0 .. SEQ_LEN - 1 :
              Cell(g, j) = Cell(h, k) => g = h /\ j = k
<1> USE AttentionAssumption DEF Heads, Cell
<1>1. ASSUME NEW a \in Nat, NEW b \in Nat, a < b
      PROVE  a * SEQ_LEN + SEQ_LEN <= b * SEQ_LEN
  <2> DEFINE d == b - (a + 1)
  <2>1. d \in Nat /\ b = a + 1 + d
    BY <1>1
  <2>2. (a + 1 + d) * SEQ_LEN = a * SEQ_LEN + SEQ_LEN + d * SEQ_LEN
    BY <2>1
  <2>3. d * SEQ_LEN \in Nat /\ a * SEQ_LEN \in Nat
    BY <2>1
  <2> QED BY <2>1, <2>2, <2>3
<1>2. \A g \in Nat : g * SEQ_LEN \in Nat
  OBVIOUS
<1>3. h * SEQ_LEN + SEQ_LEN <= N_HEADS * SEQ_LEN
  BY <1>1
<1>4. Cell(h, k) \in 0 .. N_HEADS * SEQ_LEN - 1
  BY <1>2, <1>3
<1>5. ASSUME NEW g \in Heads, NEW j \in 0 .. SEQ_LEN - 1, Cell(g, j) = Cell(h, k)
      PROVE  g = h /\ j = k
  <2>1. ~(g < h) /\ ~(h < g)
    BY <1>1, <1>2, <1>5
  <2>2. g = h
    BY <2>1
  <2> QED BY <1>2, <1>5, <2>2
<1> QED BY <1>4, <1>5
(* The exponents of the first n keys of scores s, taken from m, by key and  *)
(* by value vector.                                                         *)
ExponentsOf(s, m, n) == [k \in 0 .. n - 1 |-> s[k] - m]
Rows(h, n) == {Row(h, k) : k \in 0 .. n - 1}
WeightedOf(h, s, m, n) == [r \in Rows(h, n) |-> s[r[1]] - m]

LEMMA ExponentsByValue ==
  ASSUME NEW s, NEW m, NEW n, NEW f \in [0 .. n - 1 -> Int],
         \A k \in 0 .. n - 1 : f[k] = s[k] - m
  PROVE  f = ExponentsOf(s, m, n)
BY DEF ExponentsOf

LEMMA WeightedByValue ==
  ASSUME NEW h, NEW s, NEW m, NEW n, NEW f \in [Rows(h, n) -> Int],
         \A r \in Rows(h, n) : f[r] = s[r[1]] - m
  PROVE  f = WeightedOf(h, s, m, n)
BY DEF WeightedOf

Exponents(h, n) == ExponentsOf(score[h], m_prev[h], n)
Weighted(h, n) == WeightedOf(h, score[h], m_prev[h], n)

(* m_prev is the largest of the first n scores. *)
Largest(h, n) ==
  /\ \A k \in 0 .. n - 1 : score[h][k] <= m_prev[h]
  /\ n > 0 => \E k \in 0 .. n - 1 : score[h][k] = m_prev[h]

AttentionTypeOK ==
  /\ pos \in 0 .. SEQ_LEN - 1
  /\ score \in [Heads -> [0 .. pos -> Int]]
  /\ pc \in [Heads -> {"fold", "score", "sum", "join", "done"}]
  /\ t \in [Heads -> 0 .. pos + 1]
  /\ m_prev \in [Heads -> Int]
  /\ DOMAIN l_prev = Heads /\ DOMAIN O = Heads /\ DOMAIN xb = Heads
  /\ att \in [0 .. N_HEADS * SEQ_LEN - 1 -> Int]

HeadInv(h) ==
  /\ pc[h] = "fold" =>
       /\ Largest(h, t[h])
       /\ l_prev[h] = Exponents(h, t[h]) /\ O[h] = Weighted(h, t[h])
  /\ pc[h] = "score" =>
       /\ O[h] = Nothing
       /\ \A k \in 0 .. t[h] - 1 : att[Cell(h, k)] = score[h][k]
  /\ pc[h] = "sum" =>
       /\ Largest(h, pos + 1)
       /\ l_prev[h] = Exponents(h, pos + 1) /\ O[h] = Weighted(h, t[h])
       /\ \A k \in 0 .. pos : att[Cell(h, k)] = score[h][k] - m_prev[h]
  /\ pc[h] \in {"join", "done"} =>
       /\ Largest(h, pos + 1)
       /\ l_prev[h] = Exponents(h, pos + 1) /\ O[h] = Weighted(h, pos + 1)
  /\ xb[h] # Unset => pc[h] = "done" /\ xb[h] = [num |-> O[h], den |-> l_prev[h]]

AttentionInv == AttentionTypeOK /\ \A h \in Heads : HeadInv(h)

LEMMA InitAttention == Init => AttentionInv
<1> SUFFICES ASSUME Init PROVE AttentionInv
  OBVIOUS
<1> USE AttentionAssumption
<1>1. AttentionTypeOK
  <2>1. \A c \in Heads : pc[c] \in {"fold", "score", "sum", "join", "done"}
    BY DEF Init
  <2>2. score \in [Heads -> [0 .. pos -> Int]] /\ pos \in 0 .. SEQ_LEN - 1
    BY DEF Init
  <2>3. att \in [0 .. N_HEADS * SEQ_LEN - 1 -> Int]
    BY DEF Init
  <2>4. pc \in [Heads -> {"fold", "score", "sum", "join", "done"}]
    BY <2>1 DEF Init
  <2>5. t \in [Heads -> 0 .. pos + 1] /\ m_prev \in [Heads -> Int]
    BY <2>2 DEF Init
  <2>6. DOMAIN l_prev = Heads /\ DOMAIN O = Heads /\ DOMAIN xb = Heads
    BY DEF Init
  <2> QED BY <2>2, <2>3, <2>4, <2>5, <2>6 DEF AttentionTypeOK
<1>2. ASSUME NEW h \in Heads PROVE HeadInv(h)
  <2>1. t[h] = 0 /\ l_prev[h] = Nothing /\ O[h] = Nothing /\ xb[h] = Unset
        /\ pc[h] \in {"fold", "score"}
    BY DEF Init
  <2>2. 0 .. t[h] - 1 = {} /\ {Row(h, k) : k \in 0 .. t[h] - 1} = {}
    BY <2>1
  <2>3. Exponents(h, t[h]) = Nothing /\ Weighted(h, t[h]) = Nothing
    BY <2>2 DEF Exponents, Weighted, ExponentsOf, WeightedOf, Rows, Nothing
  <2> QED BY <2>1, <2>2, <2>3 DEF HeadInv, Largest
<1> QED BY <1>1, <1>2 DEF AttentionInv

(* A head that does not move, and whose cells stay, keeps its invariant.    *)
LEMMA HeadStays ==
  ASSUME AttentionInv, NEW h \in Heads,
         pos' = pos, score' = score,
         pc'[h] = pc[h], t'[h] = t[h], m_prev'[h] = m_prev[h],
         l_prev'[h] = l_prev[h], O'[h] = O[h], xb' = xb,
         \A k \in 0 .. pos : att'[Cell(h, k)] = att[Cell(h, k)]
  PROVE  HeadInv(h)'
<1>1. t[h] \in 0 .. pos + 1 /\ pos \in Nat
  BY AttentionAssumption DEF AttentionInv, AttentionTypeOK
<1>2. HeadInv(h)
  BY DEF AttentionInv
<1> QED
  BY <1>1, <1>2 DEF HeadInv, Largest, Exponents, Weighted, Cell, Row

LEMMA ScoresAreNumbers ==
  ASSUME AttentionTypeOK, NEW h \in Heads
  PROVE  \A k \in 0 .. pos : score[h][k] \in Int
<1>1. score \in [Heads -> [0 .. pos -> Int]]
  BY DEF AttentionTypeOK
<1>2. score[h] \in [0 .. pos -> Int]
  BY <1>1
<1> QED BY <1>2

LEMMA FoldAttention ==
  ASSUME AttentionInv, NEW h \in Heads, Fold(h) PROVE AttentionInv'
<1> USE AttentionAssumption
<1>1. /\ AttentionTypeOK /\ HeadInv(h) /\ pc[h] = "fold" /\ t[h] \in 0 .. pos
      /\ pos \in Nat /\ score[h][t[h]] \in Int /\ m_prev[h] \in Int
      /\ m_curr(h) \in Int /\ xb[h] = Unset
  BY DEF AttentionInv, Fold, m_curr, AttentionTypeOK, HeadInv
<1>2. AttentionTypeOK'
  <2>1. /\ m_prev' = [m_prev EXCEPT ![h] = m_curr(h)]
        /\ t' = [t EXCEPT ![h] = t[h] + 1]
        /\ DOMAIN l_prev' = DOMAIN l_prev /\ DOMAIN O' = DOMAIN O
        /\ pos' = pos /\ score' = score /\ pc' = pc /\ att' = att /\ xb' = xb
    BY DEF Fold
  <2>2. m_prev' \in [Heads -> Int]
    BY <1>1, <2>1 DEF AttentionTypeOK
  <2>3. t' \in [Heads -> 0 .. pos + 1]
    <3>1. t \in [Heads -> 0 .. pos + 1] /\ t[h] + 1 \in 0 .. pos + 1
      BY <1>1 DEF AttentionTypeOK
    <3> QED BY <2>1, <3>1
  <2> QED BY <1>1, <2>1, <2>2, <2>3 DEF AttentionTypeOK
<1>3. /\ m_prev'[h] = m_curr(h) /\ t'[h] = t[h] + 1 /\ pc' = pc /\ xb' = xb
      /\ score' = score /\ pos' = pos /\ att' = att
      /\ l_prev'[h] = Rescaled(l_prev[h], m_prev[h] - m_curr(h), t[h],
                               score[h][t[h]] - m_curr(h))
      /\ O'[h] = Rescaled(O[h], m_prev[h] - m_curr(h), Row(h, t[h]),
                          score[h][t[h]] - m_curr(h))
  BY <1>1 DEF Fold, AttentionTypeOK
<1>4. Largest(h, t[h])'
  <2>1. m_curr(h) >= score[h][t[h]] /\ (t[h] > 0 => m_curr(h) >= m_prev[h])
    BY <1>1 DEF m_curr
  <2>2. \A k \in 0 .. t[h] - 1 : score[h][k] <= m_prev[h] /\ score[h][k] \in Int
    <3>1. \A k \in 0 .. t[h] - 1 : score[h][k] <= m_prev[h]
      BY <1>1 DEF HeadInv, Largest
    <3> QED BY <1>1, <3>1, ScoresAreNumbers
  <2>3. \A k \in 0 .. t[h] : score[h][k] <= m_curr(h)
    BY <1>1, <2>1, <2>2
  <2>4. \E k \in 0 .. t[h] : score[h][k] = m_curr(h)
    BY <1>1 DEF m_curr, HeadInv, Largest
  <2> QED BY <1>1, <1>3, <2>3, <2>4 DEF Largest
<1>5. l_prev'[h] = Exponents(h, t[h])'
  <2>1. l_prev[h] = [k \in 0 .. t[h] - 1 |-> score[h][k] - m_prev[h]]
    BY <1>1 DEF HeadInv, Exponents, ExponentsOf
  <2>2. \A k \in 0 .. t[h] - 1 :
          score[h][k] - m_prev[h] + (m_prev[h] - m_curr(h)) = score[h][k] - m_curr(h)
    BY <1>1 DEF AttentionTypeOK
  <2>3. DOMAIN l_prev[h] \cup {t[h]} = 0 .. (t[h] + 1) - 1
    BY <1>1, <2>1
  <2>4. \A k \in 0 .. (t[h] + 1) - 1 : l_prev'[h][k] = score[h][k] - m_curr(h)
    BY <1>1, <1>3, <2>1, <2>2, <2>3 DEF Rescaled
  <2>5. l_prev'[h] \in [0 .. (t[h] + 1) - 1 -> Int]
    <3>1. \A k \in 0 .. (t[h] + 1) - 1 : score[h][k] - m_curr(h) \in Int
      BY <1>1 DEF AttentionTypeOK
    <3>2. l_prev'[h] = [k \in 0 .. (t[h] + 1) - 1 |-> l_prev'[h][k]]
      BY <1>3, <2>3 DEF Rescaled
    <3> QED BY <2>4, <3>1, <3>2
  <2>6. l_prev'[h] = ExponentsOf(score[h], m_curr(h), t[h] + 1)
    <3> DEFINE f == l_prev'[h]  s == score[h]  m == m_curr(h)  n == t[h] + 1
    <3>1. f \in [0 .. n - 1 -> Int] /\ \A k \in 0 .. n - 1 : f[k] = s[k] - m
      BY <2>4, <2>5
    <3> HIDE DEF f, s, m, n
    <3>2. f = ExponentsOf(s, m, n)
      BY <3>1, ExponentsByValue
    <3> QED BY <3>2 DEF f, s, m, n
  <2>7. Exponents(h, t[h])' = ExponentsOf(score'[h], m_prev'[h], t'[h])
    BY DEF Exponents
  <2> QED BY <1>3, <2>6, <2>7
<1>6. O'[h] = Weighted(h, t[h])'
  <2> DEFINE Old == Rows(h, t[h])
             New == Rows(h, t[h] + 1)
  <2>1. O[h] = [r \in Old |-> score[h][r[1]] - m_prev[h]]
    BY <1>1 DEF HeadInv, Weighted, WeightedOf
  <2>2. Old \cup {Row(h, t[h])} = New /\ Row(h, t[h])[1] = t[h]
    BY <1>1 DEF Row, Rows
  <2>3. \A r \in New : r # Row(h, t[h]) => r \in Old /\ r[1] \in 0 .. t[h] - 1
    BY <1>1, <2>2 DEF Row, Rows
  <2>4. \A k \in 0 .. t[h] - 1 :
          score[h][k] - m_prev[h] + (m_prev[h] - m_curr(h)) = score[h][k] - m_curr(h)
    BY <1>1 DEF AttentionTypeOK
  <2>5. O'[h] = [r \in New |-> O'[h][r]]
    BY <1>3, <2>1, <2>2 DEF Rescaled
  <2>6. \A r \in New : O'[h][r] = score[h][r[1]] - m_curr(h)
    BY <1>3, <2>1, <2>2, <2>3, <2>4 DEF Rescaled
  <2>7. O'[h] = WeightedOf(h, score[h], m_curr(h), t[h] + 1)
    <3>1. \A r \in New : score[h][r[1]] - m_curr(h) \in Int
      <4>1. \A r \in New : r[1] \in 0 .. pos
        BY <1>1, <2>2, <2>3
      <4>2. \A k \in 0 .. pos : score[h][k] \in Int
        BY <1>1, ScoresAreNumbers
      <4> QED BY <1>1, <4>1, <4>2
    <3>2. O'[h] \in [New -> Int]
      BY <2>5, <2>6, <3>1
    <3> DEFINE f == O'[h]  s == score[h]  m == m_curr(h)  n == t[h] + 1
    <3>3. f \in [Rows(h, n) -> Int] /\ \A r \in Rows(h, n) : f[r] = s[r[1]] - m
      BY <2>6, <3>2
    <3> HIDE DEF f, s, m, n
    <3>4. f = WeightedOf(h, s, m, n)
      BY <3>3, WeightedByValue
    <3> QED BY <3>4 DEF f, s, m, n
  <2>8. Weighted(h, t[h])' = WeightedOf(h, score'[h], m_prev'[h], t'[h])
    BY DEF Weighted
  <2> QED BY <1>3, <2>7, <2>8
<1>7. HeadInv(h)'
  BY <1>1, <1>3, <1>4, <1>5, <1>6 DEF HeadInv
<1>8. ASSUME NEW g \in Heads, g # h PROVE HeadInv(g)'
  <2>1. /\ pc'[g] = pc[g] /\ t'[g] = t[g] /\ m_prev'[g] = m_prev[g]
        /\ l_prev'[g] = l_prev[g] /\ O'[g] = O[g]
    BY <1>1, <1>8 DEF Fold, AttentionTypeOK
  <2> QED BY <1>3, <2>1, HeadStays
<1> QED BY <1>2, <1>7, <1>8 DEF AttentionInv

LEMMA EndAttention ==
  ASSUME AttentionInv, NEW h \in Heads, FoldEnd(h) \/ SumEnd(h)
  PROVE  AttentionInv'
<1> USE AttentionAssumption
<1>1. /\ AttentionTypeOK /\ HeadInv(h) /\ t[h] = pos + 1
      /\ pc' = [pc EXCEPT ![h] = "join"]
      /\ UNCHANGED <<program, pos, score, t, m_prev, l_prev, O, att, xb>>
      /\ pc[h] \in {"fold", "sum"}
  BY DEF AttentionInv, FoldEnd, SumEnd, AttentionTypeOK
<1>2. AttentionTypeOK'
  BY <1>1 DEF AttentionTypeOK
<1>3. pc'[h] = "join" /\ \A g \in Heads : g # h => pc'[g] = pc[g]
  BY <1>1 DEF AttentionTypeOK
<1>4. HeadInv(h)'
  BY <1>1, <1>3 DEF HeadInv, Largest, Exponents, Weighted, Row
<1>5. ASSUME NEW g \in Heads, g # h PROVE HeadInv(g)'
  BY <1>1, <1>3, <1>5, HeadStays
<1> QED BY <1>2, <1>4, <1>5 DEF AttentionInv

LEMMA ScoreAttention ==
  ASSUME AttentionInv, NEW h \in Heads, Score(h) PROVE AttentionInv'
<1> USE AttentionAssumption
<1>1. /\ AttentionTypeOK /\ HeadInv(h) /\ pc[h] = "score" /\ t[h] \in 0 .. pos
      /\ pos \in 0 .. SEQ_LEN - 1 /\ score[h][t[h]] \in Int /\ xb[h] = Unset
  BY DEF AttentionInv, Score, AttentionTypeOK, HeadInv
<1>2. \A g \in Heads : \A k \in 0 .. pos :
        /\ Cell(g, k) \in DOMAIN att
        /\ Cell(g, k) = Cell(h, t[h]) => g = h /\ k = t[h]
  <2>1. 0 .. pos \subseteq 0 .. SEQ_LEN - 1 /\ t[h] \in 0 .. SEQ_LEN - 1
    BY <1>1
  <2>2. DOMAIN att = 0 .. N_HEADS * SEQ_LEN - 1
    BY <1>1 DEF AttentionTypeOK
  <2> HIDE DEF Cell
  <2> QED BY <2>1, <2>2, CellsApart
<1>3. AttentionTypeOK'
  <2>1. att' \in [0 .. N_HEADS * SEQ_LEN - 1 -> Int]
    <3> HIDE DEF Cell
    <3> QED BY <1>1 DEF Score, AttentionTypeOK
  <2>2. t' \in [Heads -> 0 .. pos + 1]
    BY <1>1 DEF Score, AttentionTypeOK
  <2> QED BY <1>1, <2>1, <2>2 DEF Score, AttentionTypeOK
<1>4. \A g \in Heads : \A k \in 0 .. pos :
        att'[Cell(g, k)] = IF g = h /\ k = t[h] THEN score[h][t[h]] ELSE att[Cell(g, k)]
  <2>1. att' = [att EXCEPT ![Cell(h, t[h])] = score[h][t[h]]]
    BY DEF Score
  <2> HIDE DEF Cell
  <2> QED BY <1>2, <2>1
<1>5. /\ pc'[h] = "score" /\ t'[h] = t[h] + 1 /\ O'[h] = O[h] /\ score' = score
      /\ xb'[h] = xb[h] /\ pos' = pos /\ (t[h] + 1) - 1 = t[h]
  BY <1>1 DEF Score, AttentionTypeOK
<1>6. \A k \in 0 .. t'[h] - 1 : att'[Cell(h, k)] = score'[h][k]
  <2> SUFFICES ASSUME NEW k \in 0 .. t[h]
               PROVE  att'[Cell(h, k)] = score[h][k]
    <3>1. t'[h] - 1 = t[h] /\ score' = score
      BY <1>1, <1>5
    <3> QED BY <3>1
  <2>1. k \in 0 .. pos
    BY <1>1
  <2>2. k # t[h] => k \in 0 .. t[h] - 1
    BY <1>1
  <2>3. k # t[h] => att[Cell(h, k)] = score[h][k]
    BY <1>1, <2>2 DEF HeadInv
  <2> QED BY <1>4, <2>1, <2>3
<1>7. HeadInv(h)'
  BY <1>1, <1>5, <1>6 DEF HeadInv, Cell
<1>8. ASSUME NEW g \in Heads, g # h PROVE HeadInv(g)'
  <2>1. /\ pc'[g] = pc[g] /\ t'[g] = t[g] /\ m_prev'[g] = m_prev[g]
        /\ l_prev'[g] = l_prev[g] /\ O'[g] = O[g] /\ pos' = pos /\ score' = score
        /\ xb' = xb
    BY <1>1, <1>8 DEF Score, AttentionTypeOK
  <2>2. \A k \in 0 .. pos : att'[Cell(g, k)] = att[Cell(g, k)]
    BY <1>4, <1>8
  <2> QED BY <2>1, <2>2, HeadStays
<1> QED BY <1>3, <1>7, <1>8 DEF AttentionInv

LEMMA SoftmaxAttention ==
  ASSUME AttentionInv, NEW h \in Heads, Softmax(h) PROVE AttentionInv'
<1> USE AttentionAssumption
<1>1. /\ AttentionTypeOK /\ HeadInv(h) /\ pc[h] = "score" /\ t[h] = pos + 1
      /\ pos \in 0 .. SEQ_LEN - 1 /\ xb[h] = Unset /\ O[h] = Nothing
      /\ \A k \in 0 .. pos : att[Cell(h, k)] = score[h][k] /\ score[h][k] \in Int
  BY DEF AttentionInv, Softmax, AttentionTypeOK, HeadInv
<1>2. PICK top \in 0 .. pos :
        /\ \A j \in 0 .. pos : att[Cell(h, j)] <= att[Cell(h, top)]
        /\ m_prev' = [m_prev EXCEPT ![h] = att[Cell(h, top)]]
  BY DEF Softmax
<1>3. /\ m_prev'[h] = score[h][top] /\ m_prev'[h] \in Int
      /\ \A k \in 0 .. pos : score[h][k] <= m_prev'[h]
      /\ m_prev' \in [Heads -> Int]
  BY <1>1, <1>2 DEF AttentionTypeOK
<1>4. /\ l_prev'[h] = [j \in 0 .. pos |-> att[Cell(h, j)] - m_prev'[h]]
      /\ att' = [c \in DOMAIN att |->
                   IF \E j \in 0 .. pos : c = Cell(h, j) THEN att[c] - m_prev'[h]
                   ELSE att[c]]
      /\ t'[h] = 0 /\ pc'[h] = "sum" /\ O' = O /\ xb' = xb /\ score' = score
      /\ pos' = pos /\ DOMAIN l_prev' = Heads
      /\ t' \in [Heads -> 0 .. pos + 1]
      /\ pc' \in [Heads -> {"fold", "score", "sum", "join", "done"}]
  BY <1>1 DEF Softmax, AttentionTypeOK
<1>5. att' \in [0 .. N_HEADS * SEQ_LEN - 1 -> Int]
  <2> HIDE DEF Cell
  <2> QED BY <1>3, <1>4, <1>1 DEF AttentionTypeOK
<1>6. AttentionTypeOK'
  BY <1>1, <1>3, <1>4, <1>5 DEF AttentionTypeOK
<1>7. \A g \in Heads : \A k \in 0 .. pos :
        att'[Cell(g, k)] = IF g = h THEN score[h][k] - m_prev'[h] ELSE att[Cell(g, k)]
  <2> SUFFICES ASSUME NEW g \in Heads, NEW k \in 0 .. pos
               PROVE  att'[Cell(g, k)] =
                        IF g = h THEN score[h][k] - m_prev'[h] ELSE att[Cell(g, k)]
    OBVIOUS
  <2>1. Cell(g, k) \in DOMAIN att
    BY <1>1, CellsApart DEF AttentionTypeOK
  <2>2. (\E j \in 0 .. pos : Cell(g, k) = Cell(h, j)) <=> g = h
    BY <1>1, CellsApart
  <2> HIDE DEF Cell
  <2> QED BY <1>1, <1>4, <2>1, <2>2
<1>8. HeadInv(h)'
  <2>1. Largest(h, pos + 1)'
    BY <1>1, <1>3, <1>4 DEF Largest
  <2>2. l_prev'[h] = Exponents(h, pos + 1)'
    <3>1. 0 .. (pos + 1) - 1 = 0 .. pos
      BY <1>1
    <3>2. \A j \in 0 .. pos : att[Cell(h, j)] - m_prev'[h] = score[h][j] - m_prev'[h]
      BY <1>1
    <3> HIDE DEF Cell
    <3>3. l_prev'[h] = ExponentsOf(score[h], m_prev'[h], pos + 1)
      <4> DEFINE f == l_prev'[h]  s == score[h]  m == m_prev'[h]  n == pos + 1
      <4>1. f \in [0 .. n - 1 -> Int]
        <5>1. \A k \in 0 .. pos : score[h][k] - m_prev'[h] \in Int
          BY <1>1, <1>3
        <5>2. l_prev'[h] \in [0 .. pos -> Int]
          BY <1>4, <3>2, <5>1
        <5> QED BY <3>1, <5>2
      <4>2. \A k \in 0 .. n - 1 : f[k] = s[k] - m
        <5>1. \A k \in 0 .. pos : l_prev'[h][k] = score[h][k] - m_prev'[h]
          BY <1>4, <3>2
        <5> QED BY <3>1, <5>1
      <4> HIDE DEF f, s, m, n
      <4>3. f = ExponentsOf(s, m, n)
        BY <4>1, <4>2, ExponentsByValue
      <4> QED BY <4>3 DEF f, s, m, n
    <3>4. Exponents(h, pos + 1)' = ExponentsOf(score'[h], m_prev'[h], pos' + 1)
      BY DEF Exponents
    <3> QED BY <1>4, <3>3, <3>4
  <2>3. O'[h] = Weighted(h, t[h])'
    <3>1. {Row(h, k) : k \in 0 .. t'[h] - 1} = {}
      BY <1>4
    <3> QED BY <1>1, <1>4, <3>1 DEF Weighted, WeightedOf, Rows, Nothing, Row
  <2> HIDE DEF Cell
  <2>4. \A k \in 0 .. pos : att'[Cell(h, k)] = score[h][k] - m_prev'[h]
    BY <1>7
  <2> QED BY <1>1, <1>4, <2>1, <2>2, <2>3, <2>4 DEF HeadInv, Cell
<1>9. ASSUME NEW g \in Heads, g # h PROVE HeadInv(g)'
  <2>1. /\ pc'[g] = pc[g] /\ t'[g] = t[g] /\ m_prev'[g] = m_prev[g]
        /\ l_prev'[g] = l_prev[g]
    BY <1>1, <1>2, <1>9 DEF Softmax, AttentionTypeOK
  <2>2. \A k \in 0 .. pos : att'[Cell(g, k)] = att[Cell(g, k)]
    BY <1>7, <1>9
  <2> QED BY <1>4, <2>1, <2>2, HeadStays
<1> QED BY <1>6, <1>8, <1>9 DEF AttentionInv

LEMMA SumAttention ==
  ASSUME AttentionInv, NEW h \in Heads, Sum(h) PROVE AttentionInv'
<1> USE AttentionAssumption
<1>1. /\ AttentionTypeOK /\ HeadInv(h) /\ pc[h] = "sum" /\ t[h] \in 0 .. pos
      /\ pos \in Nat /\ xb[h] = Unset /\ m_prev[h] \in Int
      /\ \A k \in 0 .. pos : score[h][k] \in Int
  BY DEF AttentionInv, Sum, AttentionTypeOK, HeadInv
<1>2. AttentionTypeOK'
  BY <1>1 DEF Sum, AttentionTypeOK
<1>3. /\ t'[h] = t[h] + 1 /\ pc' = pc /\ xb' = xb /\ score' = score
      /\ pos' = pos /\ att' = att /\ m_prev' = m_prev /\ l_prev' = l_prev
      /\ O'[h] = Rescaled(O[h], 0, Row(h, t[h]), att[Cell(h, t[h])])
      /\ att[Cell(h, t[h])] = score[h][t[h]] - m_prev[h]
  BY <1>1 DEF Sum, AttentionTypeOK, HeadInv
<1>4. O'[h] = Weighted(h, t[h])'
  <2> DEFINE Old == Rows(h, t[h])
             New == Rows(h, t[h] + 1)
  <2>1. O[h] = [r \in Old |-> score[h][r[1]] - m_prev[h]]
    BY <1>1 DEF HeadInv, Weighted, WeightedOf
  <2>2. Old \cup {Row(h, t[h])} = New /\ Row(h, t[h])[1] = t[h]
    BY <1>1 DEF Row, Rows
  <2>3. \A r \in New : r # Row(h, t[h]) => r \in Old /\ r[1] \in 0 .. pos
    BY <1>1, <2>2 DEF Row, Rows
  <2>4. \A r \in New : O'[h][r] = score[h][r[1]] - m_prev[h]
    BY <1>1, <1>3, <2>1, <2>2, <2>3 DEF Rescaled
  <2>5. O'[h] = [r \in New |-> O'[h][r]]
    BY <1>3, <2>1, <2>2 DEF Rescaled
  <2>6. O'[h] = WeightedOf(h, score[h], m_prev[h], t[h] + 1)
    <3>1. \A r \in New : score[h][r[1]] - m_prev[h] \in Int
      BY <1>1, <2>2, <2>3
    <3>2. O'[h] \in [New -> Int]
      BY <2>4, <2>5, <3>1
    <3> QED BY <2>4, <3>2, WeightedByValue
  <2>7. Weighted(h, t[h])' = WeightedOf(h, score'[h], m_prev'[h], t'[h])
    BY DEF Weighted
  <2> QED BY <1>3, <2>6, <2>7
<1>5. HeadInv(h)'
  BY <1>1, <1>3, <1>4 DEF HeadInv, Largest, Exponents, Cell
<1>6. ASSUME NEW g \in Heads, g # h PROVE HeadInv(g)'
  <2>1. t'[g] = t[g] /\ O'[g] = O[g]
    BY <1>1, <1>6 DEF Sum, AttentionTypeOK
  <2> QED BY <1>3, <2>1, HeadStays
<1> QED BY <1>2, <1>5, <1>6 DEF AttentionInv

LEMMA JoinAttention ==
  ASSUME AttentionInv, Join PROVE AttentionInv'
<1> USE AttentionAssumption
<1>1. AttentionTypeOK /\ \A h \in Heads : HeadInv(h) /\ pc[h] = "join"
  BY DEF AttentionInv, Join
<1>2. AttentionTypeOK'
  BY <1>1 DEF Join, AttentionTypeOK
<1>3. ASSUME NEW h \in Heads PROVE HeadInv(h)'
  <2>1. /\ pc'[h] = "done" /\ xb'[h] = [num |-> O[h], den |-> l_prev[h]]
        /\ UNCHANGED <<pos, score, m_prev, l_prev, O>>
        /\ Largest(h, pos + 1)
        /\ l_prev[h] = Exponents(h, pos + 1) /\ O[h] = Weighted(h, pos + 1)
    BY <1>1 DEF Join, HeadInv
  <2> QED BY <2>1 DEF HeadInv, Largest, Exponents, Weighted, Row
<1> QED BY <1>2, <1>3 DEF AttentionInv

LEMMA NextAttention == AttentionInv /\ [Next]_vars => AttentionInv'
<1> SUFFICES ASSUME AttentionInv, [Next]_vars PROVE AttentionInv'
  OBVIOUS
<1>1. CASE UNCHANGED vars
  <2>1. AttentionTypeOK' /\ \A h \in Heads : HeadInv(h)'
    BY <1>1, HeadStays DEF vars, AttentionInv, AttentionTypeOK
  <2> QED BY <2>1 DEF AttentionInv
<1>2. CASE Join
  BY <1>2, JoinAttention
<1>3. ASSUME NEW h \in Heads, Head(h) PROVE AttentionInv'
  BY <1>3, FoldAttention, EndAttention, ScoreAttention, SoftmaxAttention,
     SumAttention DEF Head
<1> QED BY <1>1, <1>2, <1>3 DEF Next

(* What every head leaves for the layer is softmax attention over its own   *)
(* scores and its group's values, in both programs (flash_attn.c,           *)
(* runperf.c), however the heads interleave.                                *)
THEOREM AttentionSafe == Spec => []AttentionIsSoftmax
<1>1. AttentionInv => AttentionIsSoftmax
  <2> SUFFICES ASSUME AttentionInv, NEW h \in Heads, xb[h] # Unset
               PROVE  /\ IsSoftmax(xb[h].den, score[h])
                      /\ xb[h].num = [r \in {Row(h, k) : k \in 0 .. pos} |-> xb[h].den[r[1]]]
    BY DEF AttentionIsSoftmax
  <2>1. /\ Largest(h, pos + 1) /\ xb[h].den = Exponents(h, pos + 1)
        /\ xb[h].num = Weighted(h, pos + 1)
        /\ pos \in Nat /\ DOMAIN score[h] = 0 .. pos
    BY AttentionAssumption DEF AttentionInv, AttentionTypeOK, HeadInv
  <2>2. 0 .. (pos + 1) - 1 = 0 .. pos /\ pos + 1 > 0
    BY <2>1
  <2>3. PICK k \in 0 .. pos : score[h][k] = m_prev[h]
    BY <2>1, <2>2 DEF Largest
  <2>4. IsSoftmax(xb[h].den, score[h])
    BY <2>1, <2>2, <2>3 DEF IsSoftmax, Exponents, ExponentsOf, Largest
  <2>5. \A r \in {Row(h, j) : j \in 0 .. pos} : r[1] \in 0 .. pos
    BY DEF Row
  <2>6. xb[h].num = [r \in {Row(h, j) : j \in 0 .. pos} |-> xb[h].den[r[1]]]
    <3> DEFINE D == {Row(h, j) : j \in 0 .. pos}
    <3>1. \A r \in D : xb[h].den[r[1]] = score[h][r[1]] - m_prev[h]
      BY <2>1, <2>2, <2>5 DEF Exponents, ExponentsOf
    <3>2. xb[h].num = [r \in D |-> score[h][r[1]] - m_prev[h]]
      BY <2>1, <2>2 DEF Weighted, WeightedOf, Rows
    <3> HIDE DEF D
    <3>3. xb[h].num = [r \in D |-> xb[h].den[r[1]]]
      BY <3>1, <3>2
    <3> QED BY <3>3 DEF D
  <2> QED BY <2>4, <2>6
<1> QED
  BY <1>1, InitAttention, NextAttention, PTL DEF Spec
=============================================================================
