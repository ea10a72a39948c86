----------------------------- MODULE FixedPoint -----------------------------
(***************************************************************************)
(* The fixed point arithmetic of the C++ reference model                   *)
(* (cmodel/csrc/attention_math.cpp, and the normalisation at the end of    *)
(* attention_kernels.cpp).  Q8.8 is an integer of 1/256ths, Q1.15 of       *)
(* 1/32768ths, Q16.16 of 1/65536ths.                                       *)
(*                                                                         *)
(* TLC's integers have 32 bits.  The 32-bit words of the reciprocal are    *)
(* sequences of four bytes, the lowest first; products of more than 31     *)
(* bits are put together from their parts.  x \div 2^k rounds down, as the *)
(* arithmetic shift does.                                                  *)
(***************************************************************************)
EXTENDS Integers, Sequences, FiniteSets, FiniteSetsExt, Functions

CONSTANT RealExp     (* Q8.8 -> the library's exp() as Q1.15 *)

Wrap16(x) == ((x + 32768) % 65536) - 32768

sat_s16(v) == IF v > 32767 THEN 32767 ELSE IF v < -32768 THEN -32768 ELSE v

(* A half is taken off a negative product before the shift rounds it down:  *)
(* minus one times one is -257/256.                                         *)
q8_8_mul_sat(a, b) ==
  sat_s16((IF a * b >= 0 THEN a * b + 128 ELSE a * b - 128) \div 256)

Clip(x, low) == IF x > 0 THEN 0 ELSE IF x < low THEN low ELSE x
-----------------------------------------------------------------------------
(* exp(0), exp(-1), ... exp(-8) as Q1.15; the lines between them.           *)
PwlNode == <<32767, 12055, 4431, 1631, 600, 221, 81, 30, 11>>

exp_pwl_q1_15(x) ==
  LET u == -Clip(x, -2048)
      seg == IF u >= 2048 THEN 7 ELSE u \div 256
      frac == IF u >= 2048 THEN 255 ELSE u % 256
      y0 == PwlNode[seg + 1]
  IN y0 - ((y0 - PwlNode[seg + 2]) * frac) \div 256

(* 2^(-i/32) as Q1.15 *)
kCtxExp2Table ==
  <<32768, 32066, 31379, 30706, 30048, 29405, 28774, 28158,
    27554, 26964, 26386, 25821, 25268, 24726, 24196, 23678,
    23170, 22674, 22188, 21713, 21247, 20792, 20347, 19911,
    19484, 19066, 18658, 18258, 17867, 17484, 17109, 16743>>

(* -x * log2(e) as Q8.8; 369/256 stands for log2(e). *)
Log2Magnitude(x) == ((-Clip(x, -4096)) * 369 + 128) \div 256

exp2_ctx_step_q1_15(x) ==
  LET z == Log2Magnitude(x)
  IN IF z \div 256 >= 16 THEN 0
     ELSE kCtxExp2Table[(z % 256) \div 8 + 1] \div 2^(z \div 256)

(* After the last entry of the table the line goes to 0, not to a half.     *)
exp2_ctx_interp_q1_15(x) ==
  LET z == Log2Magnitude(x)
      idx == (z % 256) \div 8
      y0 == kCtxExp2Table[idx + 1]
      y1 == IF idx >= 31 THEN 0 ELSE kCtxExp2Table[idx + 2]
      interp == y0 - ((y0 - y1) * (z % 8) + 4) \div 8
  IN IF z \div 256 >= 16 THEN 0
     ELSE (IF interp < 0 THEN 0 ELSE interp) \div 2^(z \div 256)

exp_real_q1_15(x) == RealExp[Clip(x, -4096)]
-----------------------------------------------------------------------------
(* Bytes of numbers, the lowest first.                                      *)
Carried(column, n) ==
  LET sum[k \in 0 .. n] ==
        IF k = 0 THEN 0 ELSE column[k] + sum[k - 1] \div 256
  IN [k \in 1 .. n |-> sum[k] % 256]

Product(a, b) ==
  Carried([k \in 1 .. 8 |->
             FoldFunction(+, 0, [i \in {i \in 1 .. 4 : k + 1 - i \in 1 .. 4} |->
                                   a[i] * b[k + 1 - i]])], 8)

IsZero(word) == \A k \in DOMAIN word : word[k] = 0

(* 2^32 - word, without the bit that a word of 0 sets above it.             *)
Negated(word) ==
  Carried([k \in 1 .. 4 |-> 255 - word[k] + (IF k = 1 THEN 1 ELSE 0)], 4)

(* acc >> 32 and acc >> 31 of the 64-bit product. *)
mul_q1_31(a, b) == SubSeq(Product(a, b), 5, 8)
mul_q1_31_corr(a, b, corr_ov) ==
  IF corr_ov THEN a
  ELSE SubSeq(Carried([k \in 1 .. 8 |-> 2 * Product(a, b)[k]], 8), 5, 8)

(* For 2 <= x < 2^31. *)
clz32_cpp(x) == CHOOSE n \in 1 .. 30 : x \div 2^(31 - n) = 1

(* x << lz *)
ShiftLeft(x, lz) ==
  [k \in 1 .. 4 |->
     LET low == 8 * (k - 1)
     IN IF low >= lz THEN (x \div 2^(low - lz)) % 256
        ELSE IF lz - low >= 8 THEN 0
        ELSE ((x % 256) * 2^(lz - low)) % 256]

(* word >> s for s > 0 *)
ShiftRight(word, s) ==
  LET top == word[4] * 65536 + word[3] * 256 + word[2]
  IN IF s >= 8 THEN top \div 2^(s - 8)
     ELSE top * 2^(8 - s) + word[1] \div 2^s

(* lut[i]: 64/(65 + 2i), the reciprocal of the middle of the i-th of 32     *)
(* intervals, to the nearest 2^-32.                                         *)
lut(i) ==
  LET d == 65 + 2 * i
      rest[k \in 1 .. 4] ==
        LET above == IF k = 4 THEN 64 ELSE rest[k + 1] % d
        IN above * 256 + (IF k = 1 THEN d \div 2 ELSE 0)
  IN [k \in 1 .. 4 |-> rest[k] \div d]

(* A step of Newton's iteration: r * (2 - d * r). *)
Newton(d, r) ==
  LET dr == mul_q1_31(d, r)
  IN mul_q1_31_corr(r, Negated(dr), IsZero(dr))

(* The reciprocals, as normalisation reads them: as a signed word.          *)
recip_nr_rtl_q16_16(x) ==
  IF x <= 1 THEN -1
  ELSE LET lz == clz32_cpp(x)
           d_norm == ShiftLeft(x, lz)
           r0 == lut((d_norm[4] % 128) \div 4)
           r1 == Newton(d_norm, r0)
           r2 == Newton(d_norm, r1)
       IN ShiftRight(r2, 31 - lz)

recip_q16_16(x) ==
  IF x <= 1 THEN -1
  ELSE IF x = 2 THEN -2147483647 - 1
  ELSE 4 * (2^30 \div x) + (4 * (2^30 % x)) \div x
-----------------------------------------------------------------------------
(* The product of a 40-bit number, given as high * 2^15 + low, and a        *)
(* reciprocal is High * 2^30 + Rest * 2^15 and less than 2^15.              *)
Middle(high, low, recip) ==
  high * (recip % 32768) + low * (recip \div 32768)
    + (low * (recip % 32768)) \div 32768
High(high, low, recip) ==
  high * (recip \div 32768) + Middle(high, low, recip) \div 32768

(* Add or subtract 2^31, shift by 32, saturate. *)
RoundedProduct(high, low, recip) ==
  LET h == High(high, low, recip)
  IN sat_s16((IF h >= 0 THEN h + 2 ELSE h - 2) \div 4)

(* Shift by 16, saturate. *)
TruncatedProduct(high, low, recip) ==
  sat_s16(High(high, low, recip) * 16384
            + (Middle(high, low, recip) % 32768) \div 2)

div_round_sat_s16(num, den) ==
  IF den = 0 THEN IF num >= 0 THEN 32767 ELSE -32768
  ELSE sat_s16(IF num >= 0 THEN (num + den \div 2) \div den
               ELSE -((den \div 2 - num) \div den))
=============================================================================
