---------------------------- MODULE CModelProofs ----------------------------
(***************************************************************************)
(* Proofs about CModel: the loop of the reference model and its copy,      *)
(* for every matrix, size and mask.                                        *)
(*                                                                         *)
(* Keys(md, i)[n] is the state of row i after its first n keys, without    *)
(* tiles.  The invariant: row r of the tile in work is                     *)
(* Keys(md, qt * TQ + r)[Seen(r)], where Seen follows from the counters of *)
(* the loops, and the rows of the tiles before are written out.            *)
(***************************************************************************)
EXTENDS CModel, FunctionTheorems, SequenceTheorems, TLAPS

(* ---- Induction ---- *)

(* Induction over the natural numbers, for a set T.  If a number N were not *)
(* in T, the map below would be an injection of N + 1 numbers into N.       *)
LEMMA NatSetInduction ==
  ASSUME NEW T, 0 \in T, \A i \in Nat : i \in T => i + 1 \in T
  PROVE  Nat \subseteq T
<1> SUFFICES ASSUME NEW N \in Nat, N \notin T PROVE FALSE
  OBVIOUS
<1> DEFINE F == [i \in 1 .. N + 1 |-> IF i - 1 \in T THEN i ELSE i - 1]
<1>1. ASSUME NEW i \in 1 .. N + 1 PROVE F[i] \in 1 .. N
  <2>1. i - 1 \in 0 .. N
    OBVIOUS
  <2>2. CASE i - 1 \in T
    BY <2>1, <2>2
  <2>3. CASE i - 1 \notin T
    BY <2>1, <2>3
  <2> QED BY <2>2, <2>3
<1>2. ASSUME NEW i \in 1 .. N + 1, NEW j \in 1 .. N + 1, F[i] = F[j]
      PROVE  i = j
  <2>1. /\ i - 1 \in Nat /\ (i - 1 # 0 => i - 2 \in Nat) /\ (i - 2) + 1 = i - 1
        /\ j - 1 \in Nat /\ (j - 1 # 0 => j - 2 \in Nat) /\ (j - 2) + 1 = j - 1
    OBVIOUS
  <2>2. i - 1 \notin T => i - 2 \in Nat /\ i - 2 \notin T
    BY <2>1
  <2>3. j - 1 \notin T => j - 2 \in Nat /\ j - 2 \notin T
    BY <2>1
  <2>4. CASE i - 1 \in T /\ j - 1 \notin T
    <3>1. i = j - 1
      BY <1>2, <2>4
    <3>2. i - 1 = j - 2
      BY <3>1
    <3> QED BY <2>3, <2>4, <3>2
  <2>5. CASE j - 1 \in T /\ i - 1 \notin T
    <3>1. j = i - 1
      BY <1>2, <2>5
    <3>2. j - 1 = i - 2
      BY <3>1
    <3> QED BY <2>2, <2>5, <3>2
  <2>6. CASE (i - 1 \in T) = (j - 1 \in T)
    BY <1>2, <2>6
  <2> QED BY <2>4, <2>5, <2>6
<1>3. F \in [1 .. N + 1 -> 1 .. N]
  BY <1>1
<1> HIDE DEF F
<1>4. F \in Injection(1 .. N + 1, 1 .. N)
  BY <1>2, <1>3, Fun_IsInj
<1>5. ExistsInjection(1 .. N + 1, 1 .. N)
  BY <1>4 DEF ExistsInjection
<1>6. N + 1 <= N
  BY <1>5, Fun_NatInjLeq
<1> QED BY <1>6

(* The same up to a bound. *)
LEMMA UpToInduction ==
  ASSUME NEW N \in Nat, NEW T, 0 \in T,
         \A i \in 0 .. N - 1 : i \in T => i + 1 \in T
  PROVE  \A i \in 0 .. N : i \in T
<1> DEFINE U == T \cup {i \in Nat : i > N}
<1>1. ASSUME NEW i \in Nat, i \in U PROVE i + 1 \in U
  <2>1. CASE i >= N
    BY <2>1
  <2>2. CASE i < N
    <3>1. i \in 0 .. N - 1 /\ i \in T
      BY <1>1, <2>2
    <3> QED BY <3>1
  <2> QED BY <2>1, <2>2
<1>2. 0 \in U
  OBVIOUS
<1>3. Nat \subseteq U
  <2> HIDE DEF U
  <2> QED BY <1>1, <1>2, NatSetInduction
<1> QED BY <1>3

-----------------------------------------------------------------------------
(* A sequence over a set is one over every larger set.                      *)
LEMMA SeqMonotone ==
  ASSUME NEW A, NEW B, A \subseteq B, NEW s \in Seq(A)
  PROVE  s \in Seq(B)
<1>1. Len(s) \in Nat /\ s \in [1 .. Len(s) -> A]
  BY LenProperties
<1>2. s \in [1 .. Len(s) -> B]
  BY <1>1
<1> QED BY <1>1, <1>2, SeqDef

(* ---- the recursion of a row ---- *)

(* Key number m (from 1) into the state r of row i.                         *)
Step(md, i, m, r) ==
  IF Masked(i, m - 1) /\ cfg.hard_mask THEN r
  ELSE Folded(md, r, IF Masked(i, m - 1) THEN cfg.neg_large ELSE ScoreOf(mats, i, m - 1),
              mats.V[m - 1])

(* The states of row i alone, after each number of keys.                    *)
Keys(md, i) ==
  LET upto[n \in 0 .. cfg.S] ==
        IF n = 0 THEN NewRow
        ELSE IF Masked(i, n - 1) /\ cfg.hard_mask THEN upto[n - 1]
        ELSE Folded(md, upto[n - 1],
                    IF Masked(i, n - 1) THEN cfg.neg_large ELSE ScoreOf(mats, i, n - 1),
                    mats.V[n - 1])
  IN upto

LEMMA RowAloneIs ==
  ASSUME NEW md, NEW i PROVE RowAlone(md, i) = Normalized(md, Keys(md, i)[cfg.S])
BY DEF RowAlone, Keys

(* The definition of RowAlone has a solution: the states exist up to any    *)
(* number of keys.                                                          *)
LEMMA KeysIs ==
  ASSUME NEW md, NEW i, cfg.S \in Nat
  PROVE  /\ Keys(md, i)[0] = NewRow
         /\ \A m \in 1 .. cfg.S : Keys(md, i)[m] = Step(md, i, m, Keys(md, i)[m - 1])
<1> DEFINE N == cfg.S
           Val(f, m) == IF m = 0 THEN NewRow ELSE Step(md, i, m, f[m - 1])
           Fn(f, M) == f = [m \in 0 .. M |-> Val(f, m)]
           T == {M \in 0 .. N : \E f : Fn(f, M)}
<1>1. 0 \in T
  <2> DEFINE g == [m \in 0 .. 0 |-> NewRow]
  <2>1. Fn(g, 0)
    OBVIOUS
  <2> HIDE DEF Fn, g
  <2> QED BY <2>1
<1>2. ASSUME NEW M \in 0 .. N - 1, M \in T PROVE M + 1 \in T
  <2>1. PICK f : Fn(f, M)
    BY <1>2
  <2> DEFINE g == [m \in 0 .. M + 1 |-> IF m <= M THEN f[m] ELSE Step(md, i, m, f[M])]
  <2>2. ASSUME NEW m \in 0 .. M + 1 PROVE g[m] = Val(g, m)
    <3>1. CASE m = 0
      BY <2>1, <3>1
    <3>2. CASE m # 0 /\ m <= M
      <4>1. m \in 0 .. M /\ m - 1 \in 0 .. M /\ m - 1 \in 0 .. M + 1
        BY <3>2
      <4>2. g[m] = f[m] /\ g[m - 1] = f[m - 1]
        BY <3>2, <4>1
      <4>3. f[m] = Step(md, i, m, f[m - 1])
        BY <2>1, <3>2, <4>1
      <4> QED BY <3>2, <4>2, <4>3
    <3>3. CASE ~(m <= M)
      <4>1. m = M + 1 /\ m - 1 = M /\ M \in 0 .. M + 1 /\ m # 0
        BY <3>3
      <4>2. g[m] = Step(md, i, m, f[M]) /\ g[m - 1] = f[M]
        BY <3>3, <4>1
      <4> QED BY <4>1, <4>2
    <3> QED BY <3>1, <3>2, <3>3
  <2>3. Fn(g, M + 1)
    <3>1. g = [m \in 0 .. M + 1 |-> g[m]]
      OBVIOUS
    <3> HIDE DEF g
    <3> QED BY <2>2, <3>1
  <2>4. M + 1 \in 0 .. N
    OBVIOUS
  <2> HIDE DEF g, Fn
  <2> QED BY <2>3, <2>4
<1>3. \A M \in 0 .. N : M \in T
  <2> HIDE DEF T
  <2> QED BY <1>1, <1>2, UpToInduction
<1>4. PICK f : Fn(f, N)
  BY <1>3
<1>5. Keys(md, i) = CHOOSE sol : Fn(sol, N)
  BY Zenon DEF Keys, Step
<1> HIDE DEF Fn
<1>6. Fn(Keys(md, i), N)
  BY <1>4, <1>5
<1> DEFINE u == Keys(md, i)
<1> HIDE DEF u
<1>7. \A m \in 0 .. N : u[m] = Val(u, m)
  BY <1>6 DEF Fn, u
<1>8. u[0] = NewRow
  BY <1>7
<1>9. ASSUME NEW m \in 1 .. N PROVE u[m] = Step(md, i, m, u[m - 1])
  BY <1>7
<1> QED BY <1>8, <1>9 DEF u
-----------------------------------------------------------------------------
(* ---- a step of the loops ---- *)

(* The mode whose arithmetic a call uses. *)
KernelMode(md) == IF md = "STAGE" THEN "RTL_EXACT" ELSE md

(* The copy of the loop folds a key as the mode RTL_EXACT does.             *)
LEMMA StageFoldedIs ==
  ASSUME NEW r, NEW s, NEW v
  PROVE  StageFolded(r, s, v) = Folded("RTL_EXACT", r, s, v)
<1>1. \A x_ : ExpOf("RTL_EXACT", x_) = exp_pwl_q1_15(x_)
  BY DEF ExpOf, PwlModes
<1>2. \A e_, v_ : Term("RTL_EXACT", e_, v_) = (e_ * v_) \div 128
  BY DEF Term, HiAccModes
<1> DEFINE top == IF s > r.m THEN s ELSE r.m
           old == exp_pwl_q1_15(Wrap16(r.m - top))
           new == exp_pwl_q1_15(Wrap16(s - top))
           Acc(d) == Scaled(r.acc[d], old) + (new * v[d]) \div 128
           Fold(acc_) == [m |-> top, l |-> Scaled(r.l, old) + 2 * new, acc |-> acc_]
<1>3. Folded("RTL_EXACT", r, s, v)
        = Fold([d \in Columns |-> Scaled(r.acc[d], old) + Term("RTL_EXACT", new, v[d])])
  BY <1>1 DEF Folded
<1>4. \A d \in Columns : Scaled(r.acc[d], old) + Term("RTL_EXACT", new, v[d]) = Acc(d)
  <2> HIDE DEF old, new
  <2> QED BY <1>2
<1>5. [d \in Columns |-> Scaled(r.acc[d], old) + Term("RTL_EXACT", new, v[d])]
        = [d \in Columns |-> Acc(d)]
  <2> HIDE DEF old, new, Acc
  <2> QED BY <1>4
<1>6. StageFolded(r, s, v) = Fold([d \in Columns |-> Acc(d)])
  BY Zenon DEF StageFolded
<1> HIDE DEF Acc, Fold
<1> QED BY <1>3, <1>5, <1>6

(* And it writes a row out as that mode does.                               *)
LEMMA StageNormalizedIs ==
  ASSUME NEW r PROVE StageNormalized(r) = Normalized("RTL_EXACT", r)
BY DEF StageNormalized, Normalized, HiAccModes, CtxModes

(* An exact division. *)
LEMMA ExactDivision ==
  ASSUME NEW a \in Nat, NEW b \in Nat \ {0}, a % b = 0
  PROVE  a \div b \in Nat /\ a = (a \div b) * b
OBVIOUS

(* A loop counter wraps at its bound only.                                  *)
LEMMA Wraps ==
  ASSUME NEW b \in Nat \ {0}, NEW a \in 0 .. b - 1
  PROVE  (a + 1) % b = IF a + 1 < b THEN a + 1 ELSE 0
OBVIOUS

(* What lies within a tile lies within the matrix.                          *)
LEMMA WithinTiles ==
  ASSUME NEW n \in Nat, NEW w \in Nat \ {0}, NEW t \in 0 .. n - 1
  PROVE  /\ t * w \in Nat /\ (t + 1) * w = t * w + w /\ n * w \in Nat
         /\ t * w + w <= n * w
<1>1. PICK rest \in Nat : n = t + 1 + rest
  <2> WITNESS n - t - 1 \in Nat
  <2> QED OBVIOUS
<1>2. rest * w \in Nat /\ t * w \in Nat
  OBVIOUS
<1>3. n * w = (t + 1) * w + rest * w /\ (t + 1) * w = t * w + w
  BY <1>1
<1> QED BY <1>2, <1>3
-----------------------------------------------------------------------------
(* ---- the invariant ---- *)

QTiles == cfg.S \div cfg.TQ
KTiles == cfg.S \div cfg.TK
Running == pc \in {"modes", "stage"}

(* The tiles divide the matrices, once run_cmodel has seen to it.           *)
SizesInv ==
  /\ cfg \in Args
  /\ pc \notin {"start", "exit"} =>
       /\ QTiles \in Nat /\ cfg.S = QTiles * cfg.TQ
       /\ KTiles \in Nat /\ cfg.S = KTiles * cfg.TK

(* The list of results is one; the copied loop runs when it is called.      *)
CallInv ==
  /\ \E all : results \in Seq(all)
  /\ pc = "modes" => mode # "STAGE"
  /\ pc = "stage" => mode = "STAGE"

(* Where the loops are.                                                     *)
LoopInv ==
  /\ kpc \in {"qtile", "key", "norm", "ret"}
  /\ qt \in 0 .. QTiles
  /\ kpc \in {"key", "norm"} => qt < QTiles
  /\ kpc = "ret" => qt = QTiles
  /\ kpc = "key" => /\ kt \in 0 .. KTiles - 1
                    /\ qi \in 0 .. cfg.TQ - 1
                    /\ kj \in 0 .. cfg.TK - 1

(* The rows of the tiles that are done are written out.                     *)
OutInv ==
  /\ O = [i \in 0 .. cfg.S - 1 |-> O[i]]
  /\ \A i \in 0 .. cfg.S - 1 :
       i < qt * cfg.TQ => O[i] = RowAlone(KernelMode(mode), i)

(* The keys a row of the tile has seen: the whole of the tile of keys if    *)
(* the loop has passed the row, none of it if it has not come to it.        *)
Seen(r) == kt * cfg.TK + (IF r < qi THEN cfg.TK ELSE IF r = qi THEN kj ELSE 0)

RowsInv ==
  /\ kpc \in {"key", "norm"} => row = [r \in 0 .. cfg.TQ - 1 |-> row[r]]
  /\ kpc = "key" =>
       \A r \in 0 .. cfg.TQ - 1 :
         row[r] = Keys(KernelMode(mode), qt * cfg.TQ + r)[Seen(r)]
  /\ kpc = "norm" =>
       \A r \in 0 .. cfg.TQ - 1 :
         row[r] = Keys(KernelMode(mode), qt * cfg.TQ + r)[cfg.S]

KernelInv == Running => LoopInv /\ OutInv /\ RowsInv

CModelInv == SizesInv /\ CallInv /\ KernelInv
-----------------------------------------------------------------------------
(* Rows do not change as long as the matrices and the mode do not.          *)
LEMMA RowsStay ==
  ASSUME cfg' = cfg, mats' = mats, mode' = mode
  PROVE  \A i : /\ Keys(KernelMode(mode), i)' = Keys(KernelMode(mode), i)
                /\ RowAlone(KernelMode(mode), i)' = RowAlone(KernelMode(mode), i)
<1>1. KernelMode(mode)' = KernelMode(mode)
  BY DEF KernelMode
<1>2. ASSUME NEW i, NEW md
      PROVE  /\ Keys(md, i)' = Keys(md, i)
             /\ RowAlone(md, i)' = RowAlone(md, i)
  <2>1. Keys(md, i)' = Keys(md, i)
    BY SMT DEF Keys, NewRow, Masked
  <2>2. RowAlone(md, i)' = RowAlone(md, i)
    BY SMT DEF RowAlone, NewRow, Masked
  <2> QED BY <2>1, <2>2
<1> QED BY <1>1, <1>2

(* ---- steps that start a call, or are not within one ---- *)

LEMMA CModelInitInv == CModelInit => CModelInv
<1> SUFFICES ASSUME CModelInit PROVE CModelInv
  OBVIOUS
<1>1. SizesInv
  BY DEF CModelInit, SizesInv
<1>2. CallInv
  <2>1. results \in Seq({})
    BY EmptySeq DEF CModelInit
  <2> QED BY <2>1 DEF CModelInit, CallInv
<1>3. KernelInv
  BY DEF CModelInit, KernelInv, Running
<1> QED BY <1>1, <1>2, <1>3 DEF CModelInv

(* A call begins with no row written.                                       *)
LEMMA CallStarts ==
  ASSUME NEW md, SizesInv, pc \notin {"start", "exit"}, Call(md), cfg' = cfg
  PROVE  (LoopInv /\ OutInv /\ RowsInv)'
<1>1. cfg.TQ \in Nat /\ QTiles \in Nat /\ QTiles' = QTiles
  BY ArgsAssumption DEF SizesInv, QTiles
<1>2. LoopInv'
  BY <1>1 DEF Call, LoopInv
<1>3. OutInv'
  BY <1>1 DEF Call, OutInv
<1>4. RowsInv'
  BY DEF Call, RowsInv
<1> QED BY <1>2, <1>3, <1>4

(* run_cmodel refuses sizes that do not divide; no step changes the sizes.  *)
LEMMA SizesStep ==
  ASSUME CModelInv, [CModelNext]_vars
  PROVE  SizesInv' /\ cfg' = cfg
<1>1. cfg' = cfg
  BY DEF CModelNext, Start, SeedStart, Compute, ModeEnd, Aggregate, SeedsDone, StageEnd,
         Cycles, vars
<1>2. cfg.S \in Nat /\ cfg.TQ \in Nat \ {0} /\ cfg.TK \in Nat \ {0}
  BY ArgsAssumption DEF CModelInv, SizesInv
<1>3. CASE Start
  <2>1. CASE pc' \notin {"start", "exit"}
    <3>1. cfg.S % cfg.TQ = 0 /\ cfg.S % cfg.TK = 0
      BY <1>3, <2>1 DEF Start, Exit
    <3>2. /\ QTiles \in Nat /\ cfg.S = QTiles * cfg.TQ
          /\ KTiles \in Nat /\ cfg.S = KTiles * cfg.TK
      BY <1>2, <3>1, ExactDivision DEF QTiles, KTiles
    <3> QED BY <1>1, <3>2 DEF CModelInv, SizesInv, QTiles, KTiles
  <2>2. CASE pc' \in {"start", "exit"}
    BY <1>1, <2>2 DEF CModelInv, SizesInv
  <2> QED BY <2>1, <2>2
<1>4. CASE ~Start
  <2>1. pc' \notin {"start", "exit"} => pc \notin {"start", "exit"}
    BY <1>4 DEF CModelNext, SeedStart, Compute, ModeEnd, Aggregate, SeedsDone, StageEnd,
                Cycles, vars, driverVars
  <2> QED BY <1>1, <2>1 DEF CModelInv, SizesInv, QTiles, KTiles
<1> QED BY <1>1, <1>3, <1>4

(* run_one_seed calls online_rtl_like for every mode of its list, none of   *)
(* which is the copied loop; the stage decomposition calls that.            *)
LEMMA CallsStep ==
  ASSUME CModelInv, [CModelNext]_vars
  PROVE  CallInv'
<1>1. PICK all : results \in Seq(all)
  BY DEF CModelInv, CallInv
<1>2. (pc = "modes" => mode # "STAGE") /\ (pc = "stage" => mode = "STAGE")
  BY DEF CModelInv, CallInv
<1>3. CASE ModeEnd
  <2> DEFINE metrics == calc_metrics(O, Exact(cfg.input_mode, Seed, cfg.causal))
             larger == all \cup {metrics}
  <2> HIDE DEF metrics
  <2>1. results \in Seq(larger) /\ metrics \in larger
    BY <1>1, SeqMonotone
  <2> HIDE DEF larger
  <2>2. results' = Append(results, metrics)
    BY <1>3 DEF ModeEnd, metrics
  <2>3. results' \in Seq(larger) /\ Len(results') = Len(results) + 1 /\ Len(results) \in Nat
    BY <2>1, <2>2, AppendProperties, LenProperties
  <2>4. CASE Len(results') < Len(Modes)
    <3>1. Len(Modes) = 10
      BY DEF Modes
    <3>2. Len(results') + 1 \in 1 .. 10
      BY <2>3, <2>4, <3>1
    <3>3. \A n \in 1 .. 10 : Modes[n] # "STAGE"
      BY DEF Modes
    <3>4. pc' = "modes" /\ mode' = Modes[Len(results') + 1]
      BY <1>3, <2>4 DEF ModeEnd, Call
    <3> HIDE DEF Modes
    <3>5. mode' # "STAGE"
      BY <3>2, <3>3, <3>4
    <3> QED BY <2>3, <3>4, <3>5 DEF CallInv
  <2>5. CASE ~(Len(results') < Len(Modes))
    <3>1. pc' = "aggregate"
      BY <1>3, <2>5 DEF ModeEnd
    <3> QED BY <2>3, <3>1 DEF CallInv
  <2> QED BY <2>4, <2>5
<1>4. CASE Aggregate
  <2>1. results' \in Seq({})
    BY <1>4, EmptySeq DEF Aggregate
  <2> QED BY <1>4, <2>1 DEF Aggregate, CallInv
<1>5. CASE ~ModeEnd /\ ~Aggregate
  <2>1. results' = results
    BY <1>5 DEF CModelNext, Start, SeedStart, Compute, SeedsDone, StageEnd, Cycles, vars,
                driverVars
  <2>2. (pc' = "modes" => mode' # "STAGE") /\ (pc' = "stage" => mode' = "STAGE")
    <3>1. CASE Compute
      BY <1>2, <3>1 DEF Compute, KernelStep, QTile, QTilesDone, Key, Norm, driverVars
    <3>2. CASE SeedStart
      BY <3>2 DEF SeedStart, Call, Modes, Exit
    <3>3. CASE SeedsDone
      BY <3>3 DEF SeedsDone, Call, Exit
    <3>4. CASE UNCHANGED vars
      BY <1>2, <3>4 DEF vars, kernelVars, driverVars
    <3>5. CASE Start \/ StageEnd \/ Cycles
      BY <3>5 DEF Start, StageEnd, Cycles, Exit
    <3> QED BY <1>5, <3>1, <3>2, <3>3, <3>4, <3>5 DEF CModelNext
  <2> QED BY <1>1, <2>1, <2>2 DEF CallInv
<1> QED BY <1>3, <1>4, <1>5
-----------------------------------------------------------------------------
(* ---- the steps of the loops ---- *)

(* What the loops keep apart from their own variables.                      *)
LEMMA LoopFacts ==
  ASSUME CModelInv, Running
  PROVE  /\ LoopInv /\ OutInv /\ RowsInv
         /\ cfg.S \in Nat /\ cfg.TQ \in Nat \ {0} /\ cfg.TK \in Nat \ {0}
         /\ QTiles \in Nat /\ cfg.S = QTiles * cfg.TQ
         /\ KTiles \in Nat /\ cfg.S = KTiles * cfg.TK
BY ArgsAssumption DEF CModelInv, KernelInv, SizesInv, Running

LEMMA QTileInv ==
  ASSUME CModelInv, Running, QTile, cfg' = cfg, mats' = mats
  PROVE  (LoopInv /\ OutInv /\ RowsInv)'
<1>1. /\ LoopInv /\ OutInv /\ RowsInv
      /\ cfg.S \in Nat /\ cfg.TQ \in Nat \ {0} /\ cfg.TK \in Nat \ {0}
      /\ QTiles \in Nat /\ cfg.S = QTiles * cfg.TQ
      /\ KTiles \in Nat /\ cfg.S = KTiles * cfg.TK
  BY LoopFacts
<1>2. QTiles' = QTiles /\ KTiles' = KTiles /\ NewRow' = NewRow
  BY DEF QTiles, KTiles, NewRow
<1>3. /\ kpc' = "key" /\ qt' = qt /\ kt' = 0 /\ qi' = 0 /\ kj' = 0
      /\ mode' = mode /\ O' = O /\ row' = [r \in 0 .. cfg.TQ - 1 |-> NewRow]
      /\ qt < QTiles
  BY DEF QTile, QTiles
<1>4. 0 < KTiles
  <2>1. qt \in Nat
    BY <1>1 DEF LoopInv
  <2>2. cfg.S # 0
    <3>1. QTiles \in Nat \ {0}
      BY <1>1, <1>3, <2>1
    <3>2. QTiles * cfg.TQ # 0
      <4> HIDE DEF QTiles
      <4> QED BY <1>1, <3>1
    <3> QED BY <1>1, <3>2
  <2>3. KTiles # 0
    <3> HIDE DEF KTiles
    <3>1. 0 * cfg.TK = 0
      BY <1>1
    <3> QED BY <1>1, <2>2, <3>1
  <2> QED BY <1>1, <2>3
<1>5. LoopInv'
  <2> HIDE DEF QTiles, KTiles
  <2> QED BY <1>1, <1>2, <1>3, <1>4 DEF LoopInv
<1>6. OutInv'
  BY <1>1, <1>3, RowsStay DEF OutInv
<1>7. RowsInv'
  <2>1. \A r \in 0 .. cfg.TQ - 1 :
          row'[r] = NewRow /\ Seen(r)' = 0
    <3>1. 0 * cfg.TK = 0
      BY <1>1
    <3> QED BY <1>3, <3>1 DEF Seen
  <2>2. \A i : Keys(KernelMode(mode), i)[0] = NewRow
    BY <1>1, KeysIs
  <2>3. \A r \in 0 .. cfg.TQ - 1 :
          row'[r] = (Keys(KernelMode(mode), qt * cfg.TQ + r)[Seen(r)])'
    BY <1>3, <2>1, <2>2, RowsStay
  <2> QED BY <1>3, <2>3 DEF RowsInv
<1> QED BY <1>5, <1>6, <1>7

LEMMA QTilesDoneInv ==
  ASSUME CModelInv, Running, QTilesDone, cfg' = cfg, mats' = mats
  PROVE  (LoopInv /\ OutInv /\ RowsInv)'
<1>1. /\ LoopInv /\ OutInv /\ RowsInv /\ QTiles \in Nat
  BY LoopFacts
<1>2. QTiles' = QTiles
  BY DEF QTiles
<1>3. kpc' = "ret" /\ qt' = qt /\ mode' = mode /\ O' = O /\ qt >= QTiles
  BY DEF QTilesDone, QTiles, loopVars
<1>4. LoopInv'
  <2> HIDE DEF QTiles
  <2> QED BY <1>1, <1>2, <1>3 DEF LoopInv
<1>5. OutInv'
  BY <1>1, <1>3, RowsStay DEF OutInv
<1>6. RowsInv'
  BY <1>3 DEF RowsInv
<1> QED BY <1>4, <1>5, <1>6

(* The rows of a tile are written out after all keys.                       *)
LEMMA NormInv ==
  ASSUME CModelInv, Running, Norm, cfg' = cfg, mats' = mats
  PROVE  (LoopInv /\ OutInv /\ RowsInv)'
<1> DEFINE S == cfg.S
           TQ == cfg.TQ
           md == KernelMode(mode)
<1>1. /\ LoopInv /\ OutInv /\ RowsInv
      /\ S \in Nat /\ TQ \in Nat \ {0} /\ QTiles \in Nat /\ S = QTiles * TQ
  BY LoopFacts
<1>2. QTiles' = QTiles
  BY DEF QTiles
<1>3. /\ kpc = "norm" /\ kpc' = "qtile" /\ qt' = qt + 1 /\ mode' = mode
      /\ O' = [i \in DOMAIN O |->
                 IF i \in qt * TQ .. qt * TQ + TQ - 1
                 THEN IF mode = "STAGE" THEN StageNormalized(row[i - qt * TQ])
                      ELSE Normalized(mode, row[i - qt * TQ])
                 ELSE O[i]]
  BY DEF Norm
<1>4. qt \in 0 .. QTiles - 1
  <2> HIDE DEF QTiles
  <2> QED BY <1>1, <1>3 DEF LoopInv
<1>5. /\ qt * TQ \in Nat /\ (qt + 1) * TQ = qt * TQ + TQ /\ qt * TQ + TQ <= S
  <2> HIDE DEF QTiles
  <2> QED BY <1>1, <1>4, WithinTiles
<1>6. LoopInv'
  <2> HIDE DEF QTiles
  <2> QED BY <1>1, <1>2, <1>3, <1>4 DEF LoopInv
<1>7. RowsInv'
  BY <1>3 DEF RowsInv
<1>8. DOMAIN O = 0 .. S - 1
  BY <1>1 DEF OutInv
<1>9. ASSUME NEW i \in 0 .. S - 1, i < qt * TQ + TQ
      PROVE  O'[i] = RowAlone(md, i)
  <2>1. CASE i < qt * TQ
    <3>1. O[i] = RowAlone(md, i)
      BY <1>1, <2>1 DEF OutInv
    <3>2. i \notin qt * TQ .. qt * TQ + TQ - 1
      BY <1>5, <2>1
    <3> QED BY <1>3, <1>8, <3>1, <3>2
  <2>2. CASE ~(i < qt * TQ)
    <3> DEFINE base == qt * TQ
               r == i - base
    <3>1. base \in Nat /\ i < base + TQ /\ ~(i < base)
      BY <1>5, <1>9, <2>2
    <3> HIDE DEF base
    <3>2. i \in base .. base + TQ - 1 /\ r \in 0 .. TQ - 1 /\ base + r = i
      BY <1>1, <3>1
    <3> HIDE DEF r
    <3>3. row[r] = Keys(md, i)[S]
      <4>1. \A r_ \in 0 .. TQ - 1 : row[r_] = Keys(md, base + r_)[S]
        BY <1>1, <1>3 DEF RowsInv, base
      <4> QED BY <3>2, <4>1
    <3>4. O'[i] = IF mode = "STAGE" THEN StageNormalized(row[r]) ELSE Normalized(mode, row[r])
      BY <1>3, <1>8, <3>2 DEF base, r
    <3>5. O'[i] = Normalized(md, row[r])
      BY <3>4, StageNormalizedIs DEF KernelMode
    <3> QED BY <3>3, <3>5, RowAloneIs
  <2> QED BY <2>1, <2>2
<1>10. OutInv'
  <2>1. O' = [i \in 0 .. S - 1 |-> O'[i]]
    BY <1>3, <1>8
  <2>2. (qt + 1) * TQ = qt * TQ + TQ
    BY <1>5
  <2>3. \A i \in 0 .. S - 1 : i < qt' * TQ => O'[i] = RowAlone(md, i)
    BY <1>3, <1>9, <2>2
  <2>4. \A i : RowAlone(md, i)' = RowAlone(md, i)
    BY <1>3, RowsStay
  <2> QED BY <2>1, <2>3, <2>4 DEF OutInv
<1> QED BY <1>6, <1>7, <1>10
-----------------------------------------------------------------------------
(* One key into a row is one step of the row by itself.                     *)
LEMMA KeyFolds ==
  ASSUME CModelInv, Running, Key
  PROVE  /\ global_i = qt * cfg.TQ + qi /\ global_j \in 0 .. cfg.S - 1
         /\ global_j = kt * cfg.TK + kj
         /\ row' = [row EXCEPT ![qi] = Keys(KernelMode(mode), global_i)[global_j + 1]]
<1> DEFINE S == cfg.S
           TQ == cfg.TQ
           TK == cfg.TK
           md == KernelMode(mode)
           gi == global_i
           gj == global_j
           score == IF Masked(gi, gj) THEN cfg.neg_large ELSE ScoreOf(mats, gi, gj)
<1>1. /\ LoopInv /\ OutInv /\ RowsInv
      /\ S \in Nat /\ TQ \in Nat \ {0} /\ TK \in Nat \ {0}
      /\ KTiles \in Nat /\ S = KTiles * TK
  BY LoopFacts
<1>2. kpc = "key"
  BY DEF Key
<1>3. kt \in 0 .. KTiles - 1 /\ qi \in 0 .. TQ - 1 /\ kj \in 0 .. TK - 1
  BY <1>1, <1>2 DEF LoopInv
<1>4. gi = qt * TQ + qi /\ gj = kt * TK + kj
  BY DEF global_i, global_j
<1>5. gj \in 0 .. S - 1
  <2> DEFINE base == kt * TK
  <2>1. base \in Nat /\ base + TK <= S
    <3> HIDE DEF KTiles
    <3> QED BY <1>1, <1>3, WithinTiles
  <2> HIDE DEF base
  <2>2. base + kj \in 0 .. S - 1
    BY <1>1, <1>3, <2>1
  <2> QED BY <1>4, <2>2 DEF base
<1>6. row[qi] = Keys(md, gi)[gj]
  <2>1. Seen(qi) = gj
    <3>1. ~(qi < qi)
      BY <1>3
    <3> QED BY <1>4, <3>1 DEF Seen
  <2>2. row[qi] = Keys(md, qt * TQ + qi)[Seen(qi)]
    BY <1>1, <1>2, <1>3 DEF RowsInv
  <2> QED BY <1>4, <2>1, <2>2
<1> HIDE DEF gi, gj
<1>7. Keys(md, gi)[gj + 1] = Step(md, gi, gj + 1, Keys(md, gi)[gj])
  <2>1. gj + 1 \in 1 .. S /\ (gj + 1) - 1 = gj
    BY <1>1, <1>5
  <2> HIDE DEF md
  <2>2. \A m \in 1 .. S : Keys(md, gi)[m] = Step(md, gi, m, Keys(md, gi)[m - 1])
    BY <1>1, KeysIs
  <2> QED BY <2>1, <2>2
<1>8. Step(md, gi, gj + 1, row[qi])
        = IF Masked(gi, gj) /\ cfg.hard_mask THEN row[qi]
          ELSE Folded(md, row[qi], score, mats.V[gj])
  <2>1. (gj + 1) - 1 = gj
    BY <1>1, <1>5
  <2> HIDE DEF md
  <2> QED BY <2>1 DEF Step
<1>9. row' = IF Masked(gi, gj) /\ cfg.hard_mask THEN row
             ELSE [row EXCEPT ![qi] =
                     IF mode = "STAGE" THEN StageFolded(row[qi], score, mats.V[gj])
                     ELSE Folded(mode, row[qi], score, mats.V[gj])]
  <2>1. row = [r \in 0 .. TQ - 1 |-> row[r]]
    BY <1>1, <1>2 DEF RowsInv
  <2> QED BY <1>3, <2>1 DEF Key, gi, gj
<1>10. (IF mode = "STAGE" THEN StageFolded(row[qi], score, mats.V[gj])
        ELSE Folded(mode, row[qi], score, mats.V[gj]))
         = Folded(md, row[qi], score, mats.V[gj])
  <2> HIDE DEF score
  <2>1. StageFolded(row[qi], score, mats.V[gj])
          = Folded("RTL_EXACT", row[qi], score, mats.V[gj])
    BY StageFoldedIs
  <2> QED BY <2>1 DEF KernelMode
<1>11. row' = [row EXCEPT ![qi] = Step(md, gi, gj + 1, row[qi])]
  <2> HIDE DEF score, md
  <2>1. CASE Masked(gi, gj) /\ cfg.hard_mask
    <3>1. row = [r \in 0 .. TQ - 1 |-> row[r]]
      BY <1>1, <1>2 DEF RowsInv
    <3>2. row = [row EXCEPT ![qi] = row[qi]]
      BY <3>1
    <3> QED BY <1>8, <1>9, <2>1, <3>2
  <2>2. CASE ~(Masked(gi, gj) /\ cfg.hard_mask)
    BY <1>8, <1>9, <1>10, <2>2
  <2> QED BY <2>1, <2>2
<1>12. row' = [row EXCEPT ![qi] = Keys(md, gi)[gj + 1]]
  <2> HIDE DEF md
  <2> QED BY <1>6, <1>7, <1>11
<1> QED BY <1>4, <1>5, <1>12 DEF gi, gj

(* The counters of the inner loops name the next key; the rows have seen    *)
(* the same keys, but row qi one more.                                      *)
LEMMA SeenAdvances ==
  ASSUME CModelInv, Running, Key, cfg' = cfg
  PROVE  /\ LoopInv'
         /\ kpc' \in {"key", "norm"}
         /\ \A r \in 0 .. cfg.TQ - 1 :
              LET now == IF r = qi THEN global_j + 1 ELSE Seen(r)
              IN IF kpc' = "key" THEN Seen(r)' = now ELSE cfg.S = now
<1> DEFINE S == cfg.S
           TQ == cfg.TQ
           TK == cfg.TK
           now(r) == IF r = qi THEN global_j + 1 ELSE Seen(r)
           base == kt * TK
<1>1. /\ LoopInv
      /\ S \in Nat /\ TQ \in Nat \ {0} /\ TK \in Nat \ {0} /\ QTiles \in Nat
      /\ KTiles \in Nat /\ S = KTiles * TK
  BY LoopFacts
<1>2. QTiles' = QTiles /\ KTiles' = KTiles
  BY DEF QTiles, KTiles
<1> HIDE DEF QTiles, KTiles
<1>3. kpc = "key"
  BY DEF Key
<1>4. /\ kt \in 0 .. KTiles - 1 /\ qi \in 0 .. TQ - 1 /\ kj \in 0 .. TK - 1
      /\ qt \in 0 .. QTiles /\ qt < QTiles
  BY <1>1, <1>3 DEF LoopInv
<1>5. base \in Nat /\ (kt + 1) * TK = base + TK
  BY <1>1, <1>4, WithinTiles
<1>6. /\ qt' = qt
      /\ kj' = IF kj + 1 < TK THEN kj + 1 ELSE 0
      /\ qi' = IF kj + 1 < TK THEN qi ELSE IF qi + 1 < TQ THEN qi + 1 ELSE 0
      /\ kt' = IF kj + 1 < TK \/ qi + 1 < TQ THEN kt ELSE kt + 1
      /\ kpc' = IF kt' < KTiles THEN "key" ELSE "norm"
  BY <1>1, <1>4, Wraps DEF Key, Advance, KTiles
<1>7. global_j = base + kj
  BY DEF global_j
<1>8. \A r : Seen(r) = base + (IF r < qi THEN TK ELSE IF r = qi THEN kj ELSE 0)
  BY DEF Seen
<1>9. \A r : Seen(r)' = kt' * TK + (IF r < qi' THEN TK ELSE IF r = qi' THEN kj' ELSE 0)
  BY DEF Seen
<1> HIDE DEF base
<1>10. LoopInv'
  <2>1. kt' \in 0 .. KTiles /\ qi' \in 0 .. TQ - 1 /\ kj' \in 0 .. TK - 1
    BY <1>1, <1>4, <1>6
  <2>2. kpc' = "key" => kt' \in 0 .. KTiles - 1
    BY <1>1, <1>6, <2>1
  <2>3. kpc' \in {"key", "norm"}
    BY <1>6
  <2> QED BY <1>1, <1>2, <1>4, <1>6, <2>1, <2>2, <2>3 DEF LoopInv
<1>11. ASSUME NEW r \in 0 .. TQ - 1
       PROVE  IF kpc' = "key" THEN Seen(r)' = now(r) ELSE S = now(r)
  <2>1. now(r) = base + (IF r < qi THEN TK ELSE IF r = qi THEN kj + 1 ELSE 0)
    <3>1. r = qi => ~(r < qi)
      BY <1>4
    <3>2. base + kj + 1 = base + (kj + 1)
      BY <1>4, <1>5
    <3> QED BY <1>7, <1>8, <3>1, <3>2
  <2> HIDE DEF now
  <2>2. CASE kj + 1 < TK
    <3>1. kt' = kt /\ qi' = qi /\ kj' = kj + 1 /\ kpc' = "key"
      BY <1>1, <1>4, <1>6, <2>2
    <3>2. Seen(r)' = base + (IF r < qi THEN TK ELSE IF r = qi THEN kj + 1 ELSE 0)
      BY <1>9, <3>1 DEF base
    <3> QED BY <2>1, <3>1, <3>2
  <2>3. CASE ~(kj + 1 < TK) /\ qi + 1 < TQ
    <3>1. kt' = kt /\ qi' = qi + 1 /\ kj' = 0 /\ kpc' = "key" /\ kj + 1 = TK
      BY <1>1, <1>4, <1>6, <2>3
    <3>2. Seen(r)' = base + (IF r < qi + 1 THEN TK ELSE IF r = qi + 1 THEN 0 ELSE 0)
      BY <1>9, <3>1 DEF base
    <3>3. r < qi + 1 <=> (r < qi \/ r = qi)
      BY <1>4
    <3> QED BY <2>1, <3>1, <3>2, <3>3
  <2>4. CASE ~(kj + 1 < TK) /\ ~(qi + 1 < TQ)
    <3>1. kt' = kt + 1 /\ qi' = 0 /\ kj' = 0 /\ kj + 1 = TK /\ qi + 1 = TQ
      BY <1>1, <1>4, <1>6, <2>4
    <3>2. now(r) = (kt + 1) * TK
      <4>1. r < qi \/ r = qi
        BY <1>4, <3>1
      <4> QED BY <1>5, <2>1, <3>1, <4>1
    <3>3. CASE kt + 1 < KTiles
      <4>1. Seen(r)' = kt' * TK + (IF r < 0 THEN TK ELSE IF r = 0 THEN 0 ELSE 0)
        BY <1>9, <3>1
      <4>2. ~(r < 0)
        OBVIOUS
      <4>3. Seen(r)' = kt' * TK + 0
        BY <4>1, <4>2
      <4>4. (kt + 1) * TK + 0 = (kt + 1) * TK
        BY <1>1, <1>5
      <4> QED BY <1>6, <3>1, <3>2, <3>3, <4>3, <4>4
    <3>4. CASE ~(kt + 1 < KTiles)
      <4>1. kt + 1 = KTiles /\ kpc' = "norm"
        BY <1>1, <1>4, <1>6, <3>1, <3>4
      <4> QED BY <1>1, <3>2, <4>1
    <3> QED BY <3>3, <3>4
  <2> QED BY <2>2, <2>3, <2>4
<1>12. kpc' \in {"key", "norm"}
  BY <1>6
<1> QED BY <1>10, <1>11, <1>12

LEMMA KeyInv ==
  ASSUME CModelInv, Running, Key, cfg' = cfg, mats' = mats
  PROVE  (LoopInv /\ OutInv /\ RowsInv)'
<1> DEFINE S == cfg.S
           TQ == cfg.TQ
           md == KernelMode(mode)
           now(r) == IF r = qi THEN global_j + 1 ELSE Seen(r)
<1>1. /\ LoopInv /\ OutInv /\ RowsInv
      /\ cfg.TQ \in Nat \ {0}
  BY LoopFacts
<1>2. kpc = "key" /\ qt' = qt /\ mode' = mode /\ O' = O
  BY DEF Key, Advance
<1>3. qi \in 0 .. TQ - 1
  BY <1>1, <1>2 DEF LoopInv
<1>4. \A i : /\ Keys(md, i)' = Keys(md, i)
             /\ RowAlone(md, i)' = RowAlone(md, i)
  BY <1>2, RowsStay
<1>5. /\ LoopInv' /\ kpc' \in {"key", "norm"}
      /\ \A r \in 0 .. TQ - 1 :
           IF kpc' = "key" THEN Seen(r)' = now(r) ELSE S = now(r)
  BY SeenAdvances
<1>6. OutInv'
  BY <1>1, <1>2, <1>4 DEF OutInv
<1>7. row' = [row EXCEPT ![qi] = Keys(md, qt * TQ + qi)[global_j + 1]]
  BY KeyFolds
<1>8. row = [r \in 0 .. TQ - 1 |-> row[r]]
  BY <1>1, <1>2 DEF RowsInv
<1>9. \A r \in 0 .. TQ - 1 : row[r] = Keys(md, qt * TQ + r)[Seen(r)]
  BY <1>1, <1>2 DEF RowsInv
<1>10. ASSUME NEW r \in 0 .. TQ - 1 PROVE row'[r] = Keys(md, qt * TQ + r)[now(r)]
  <2> HIDE DEF md
  <2>1. CASE r = qi
    <3>1. row'[qi] = Keys(md, qt * TQ + qi)[global_j + 1]
      BY <1>3, <1>7, <1>8
    <3> QED BY <2>1, <3>1
  <2>2. CASE r # qi
    <3>1. row'[r] = row[r]
      BY <1>7, <1>8, <2>2
    <3> QED BY <1>9, <2>2, <3>1
  <2> QED BY <2>1, <2>2
<1>11. RowsInv'
  <2>1. row' = [r \in 0 .. TQ - 1 |-> row'[r]]
    BY <1>7, <1>8
  <2> HIDE DEF now
  <2>2. ASSUME kpc' = "key", NEW r \in 0 .. TQ - 1
        PROVE  row'[r] = (Keys(KernelMode(mode), qt * cfg.TQ + r)[Seen(r)])'
    <3>1. Seen(r)' = now(r)
      BY <1>5, <2>2
    <3> QED BY <1>2, <1>4, <1>10, <3>1
  <2>3. ASSUME kpc' = "norm", NEW r \in 0 .. TQ - 1
        PROVE  row'[r] = (Keys(KernelMode(mode), qt * cfg.TQ + r)[cfg.S])'
    <3>1. S = now(r)
      BY <1>5, <2>3
    <3> QED BY <1>2, <1>4, <1>10, <3>1
  <2> QED BY <2>1, <2>2, <2>3 DEF RowsInv
<1> QED BY <1>5, <1>6, <1>11
-----------------------------------------------------------------------------
(* ---- the theorems ---- *)

LEMMA ComputeInv ==
  ASSUME CModelInv, Compute
  PROVE  KernelInv'
<1>1. Running /\ pc' = pc /\ cfg' = cfg /\ mats' = mats
  BY DEF Compute, Running, driverVars
<1>2. (LoopInv /\ OutInv /\ RowsInv)'
  <2>1. KernelStep
    BY DEF Compute
  <2> QED BY <1>1, <2>1, QTileInv, QTilesDoneInv, KeyInv, NormInv DEF KernelStep
<1> QED BY <1>2 DEF KernelInv

LEMMA CModelStepInv ==
  ASSUME CModelInv, [CModelNext]_vars
  PROVE  CModelInv'
<1>1. SizesInv' /\ cfg' = cfg
  BY SizesStep
<1>2. CallInv'
  BY CallsStep
<1>3. SizesInv
  BY DEF CModelInv
<1>4. KernelInv'
  <2>1. CASE Compute
    BY <2>1, ComputeInv
  <2>2. CASE SeedStart
    <3>1. CASE pc' = "modes"
      <4>1. pc = "seeds" /\ Call(Modes[1])
        BY <2>2, <3>1 DEF SeedStart, Exit
      <4>2. (LoopInv /\ OutInv /\ RowsInv)'
        BY <1>1, <1>3, <4>1, CallStarts
      <4> QED BY <4>2 DEF KernelInv
    <3>2. CASE pc' # "modes"
      <4>1. ~Running'
        BY <2>2, <3>2 DEF SeedStart, Exit, Running
      <4> QED BY <4>1 DEF KernelInv
    <3> QED BY <3>1, <3>2
  <2>3. CASE ModeEnd
    <3>1. CASE Len(results') < Len(Modes)
      <4>1. pc = "modes" /\ Call(Modes[Len(results') + 1])
        BY <2>3, <3>1 DEF ModeEnd
      <4>2. (LoopInv /\ OutInv /\ RowsInv)'
        BY <1>1, <1>3, <4>1, CallStarts
      <4> QED BY <4>2 DEF KernelInv
    <3>2. CASE ~(Len(results') < Len(Modes))
      <4>1. pc' = "aggregate"
        BY <2>3, <3>2 DEF ModeEnd
      <4> QED BY <4>1 DEF KernelInv, Running
    <3> QED BY <3>1, <3>2
  <2>4. CASE SeedsDone
    <3>1. CASE pc' = "stage"
      <4>1. pc = "seeds" /\ Call("STAGE")
        BY <2>4, <3>1 DEF SeedsDone, Exit
      <4>2. (LoopInv /\ OutInv /\ RowsInv)'
        BY <1>1, <1>3, <4>1, CallStarts
      <4> QED BY <4>2 DEF KernelInv
    <3>2. CASE pc' # "stage"
      <4>1. ~Running'
        BY <2>4, <3>2 DEF SeedsDone, Exit, Running
      <4> QED BY <4>1 DEF KernelInv
    <3> QED BY <3>1, <3>2
  <2>5. CASE Start \/ Aggregate \/ StageEnd \/ Cycles
    <3>1. ~Running'
      BY <2>5 DEF Start, Aggregate, StageEnd, Cycles, Exit, Running
    <3> QED BY <3>1 DEF KernelInv
  <2>6. CASE UNCHANGED vars
    <3>1. /\ pc' = pc /\ cfg' = cfg /\ mats' = mats /\ mode' = mode /\ kpc' = kpc
          /\ qt' = qt /\ kt' = kt /\ qi' = qi /\ kj' = kj /\ row' = row /\ O' = O
      BY <2>6 DEF vars, kernelVars, loopVars, driverVars
    <3>2. CASE ~Running
      BY <3>1, <3>2 DEF KernelInv, Running
    <3>3. CASE Running
      <4>1. LoopInv /\ OutInv /\ RowsInv
        BY <3>3, LoopFacts
      <4>2. \A i : /\ Keys(KernelMode(mode), i)' = Keys(KernelMode(mode), i)
                   /\ RowAlone(KernelMode(mode), i)' = RowAlone(KernelMode(mode), i)
        BY <3>1, RowsStay
      <4>3. LoopInv'
        BY <3>1, <4>1 DEF LoopInv, QTiles, KTiles
      <4>4. OutInv'
        BY <3>1, <4>1, <4>2 DEF OutInv
      <4>5. RowsInv'
        <5>1. \A r : Seen(r)' = Seen(r)
          BY <3>1 DEF Seen
        <5> QED BY <3>1, <4>1, <4>2, <5>1 DEF RowsInv
      <4> QED BY <4>3, <4>4, <4>5 DEF KernelInv
    <3> QED BY <3>2, <3>3
  <2> QED BY <2>1, <2>2, <2>3, <2>4, <2>5, <2>6 DEF CModelNext
<1> QED BY <1>1, <1>2, <1>4 DEF CModelInv

(* The invariant of the program.                                            *)
THEOREM CModelInvariant == CModelSpec => []CModelInv
<1>1. CModelInit => CModelInv
  BY CModelInitInv
<1>2. CModelInv /\ [CModelNext]_vars => CModelInv'
  BY CModelStepInv
<1> QED BY <1>1, <1>2, PTL DEF CModelSpec

(* What a finished call has put out, in either loop.                        *)
LEMMA WhenReturned ==
  ASSUME CModelInv, Running, kpc = "ret"
  PROVE  O = [i \in 0 .. cfg.S - 1 |-> RowAlone(KernelMode(mode), i)]
<1>1. /\ LoopInv /\ OutInv /\ cfg.S \in Nat
      /\ QTiles \in Nat /\ cfg.S = QTiles * cfg.TQ
  BY LoopFacts
<1>2. qt = QTiles
  BY <1>1 DEF LoopInv
<1>3. \A i \in 0 .. cfg.S - 1 : i < qt * cfg.TQ
  <2>1. qt * cfg.TQ = cfg.S
    BY <1>1, <1>2
  <2> HIDE DEF QTiles
  <2> QED BY <1>1, <2>1
<1>4. \A i \in 0 .. cfg.S - 1 : O[i] = RowAlone(KernelMode(mode), i)
  BY <1>1, <1>3 DEF OutInv
<1> QED BY <1>1, <1>4 DEF OutInv

(* Tiling does not change the result: for every matrix, size of a tile,     *)
(* mode and mask, online_rtl_like puts out the rows computed by themselves. *)
THEOREM UntiledSafe == CModelSpec => []ResultIsUntiled
<1>1. CModelInv => ResultIsUntiled
  <2> SUFFICES ASSUME CModelInv, pc = "modes", kpc = "ret"
               PROVE  O = [i \in 0 .. cfg.S - 1 |-> RowAlone(mode, i)]
    BY DEF ResultIsUntiled
  <2>1. KernelMode(mode) = mode
    BY DEF CModelInv, CallInv, KernelMode
  <2> QED BY <2>1, WhenReturned DEF Running
<1> QED BY <1>1, CModelInvariant, PTL

(* The loop that run_stage_decomposition has copied computes what the mode  *)
(* RTL_EXACT does, on every matrix.                                         *)
THEOREM StageSafe == CModelSpec => []StageSameAsKernel
<1>1. CModelInv => StageSameAsKernel
  <2> SUFFICES ASSUME CModelInv, pc = "stage", kpc = "ret"
               PROVE  O = [i \in 0 .. cfg.S - 1 |-> RowAlone("RTL_EXACT", i)]
    BY DEF StageSameAsKernel
  <2>1. KernelMode(mode) = "RTL_EXACT"
    BY DEF CModelInv, CallInv, KernelMode
  <2> QED BY <2>1, WhenReturned DEF Running
<1> QED BY <1>1, CModelInvariant, PTL
=============================================================================
