----------------------------- MODULE Tokenizer -----------------------------
(***************************************************************************)
(* The byte pair tokenizer of run_fa.c.  Strings are sequences of bytes, a *)
(* byte is a small number; which bytes continue a UTF-8 code point, and    *)
(* which stand for the blank, are constants.                               *)
(***************************************************************************)
EXTENDS Integers, Sequences, FiniteSets, SequencesExt

CONSTANTS
  Vocab,         (* token id -> its string: vocab[id]                     *)
  Score,         (* token id -> vocab_scores[id]                          *)
  Continuation,  (* the bytes 10xxxxxx                                    *)
  SPACE, NEWLINE,
  BLANK          (* the two bytes of blank_char                           *)

ASSUME TokenizerAssumption ==
  /\ \A id \in DOMAIN Vocab : Vocab[id] \in Seq(Nat)
  /\ \A i, j \in DOMAIN Vocab : Vocab[i] = Vocab[j] => i = j
  /\ Score \in [DOMAIN Vocab -> Int]
  /\ SPACE \in Nat /\ NEWLINE \in Nat
  /\ BLANK \in Seq(Nat) /\ Len(BLANK) = 2
  /\ BLANK[1] \notin Continuation /\ BLANK[2] \in Continuation

Known(str) == \E id \in DOMAIN Vocab : Vocab[id] = str
str_lookup(str) == CHOOSE id \in DOMAIN Vocab : Vocab[id] = str

Join(toks) == FlattenSeq([k \in DOMAIN toks |-> Vocab[toks[k]]])
-----------------------------------------------------------------------------
replace_spaces_with_G(text) ==
  FlattenSeq([k \in DOMAIN text |->
                IF text[k] = SPACE THEN BLANK ELSE <<text[k]>>])

(* The tokens of one code point: its own, or one for each byte.             *)
CodePoint(str) ==
  IF Known(str) THEN <<str_lookup(str)>>
  ELSE [k \in DOMAIN str |-> str[k] + 3]

(* The bytes of the first code point: up to three that continue it.         *)
CodePointEnd(text) ==
  CHOOSE k \in 1 .. 4 :
    /\ k = 4 \/ k = Len(text) \/ text[k + 1] \notin Continuation
    /\ \A j \in 1 .. k - 1 : j < Len(text) /\ text[j + 1] \in Continuation

(* The first loop of encode: one code point after the other; the tokens of  *)
(* the bytes from the k-th on.                                              *)
Spelled(text) ==
  LET from[k \in 1 .. Len(text) + 1] ==
        IF k > Len(text) THEN << >>
        ELSE LET rest == SubSeq(text, k, Len(text))
                 e == CodePointEnd(rest)
             IN CodePoint(SubSeq(rest, 1, e)) \o from[k + e]
  IN from[1]

(* The positions at which n consecutive tokens are together a token. *)
Mergeable(toks, n) ==
  {i \in 1 .. Len(toks) - n + 1 : Known(Join(SubSeq(toks, i, i + n - 1)))}

Merged(toks, i, n) == str_lookup(Join(SubSeq(toks, i, i + n - 1)))

(* the highest score; the first of several *)
BestOf(toks, n) ==
  LET score(i) == Score[Merged(toks, i, n)]
  IN CHOOSE i \in Mergeable(toks, n) : \A j \in Mergeable(toks, n) :
       score(j) < score(i) \/ (score(j) = score(i) /\ i <= j)

(* Mutant of MergeAt: the tail is moved by one place after a triple, too.   *)
MergeAtShiftByOne(toks, i, n) ==
  SubSeq(toks, 1, i - 1) \o <<Merged(toks, i, n)>>
    \o SubSeq(toks, i + 2, Len(toks) - n + 2)

(* Tokens i .. i+n-1 become one. *)
MergeAt(toks, i, n) ==
  SubSeq(toks, 1, i - 1) \o <<Merged(toks, i, n)>>
    \o SubSeq(toks, i + n, Len(toks))

(* One round of the merge loop of encode: the best pair, and a triple only  *)
(* if there is no pair.                                                     *)
CanMerge(toks) == Mergeable(toks, 2) # {} \/ Mergeable(toks, 3) # {}
MergeBest(toks) ==
  LET n == IF Mergeable(toks, 2) # {} THEN 2 ELSE 3
  IN MergeAt(toks, BestOf(toks, n), n)

(* decode: the blank's first byte starts a blank or, whatever follows it, a *)
(* new line; the byte after it is skipped.  The text of the bytes from the  *)
(* k-th on.                                                                 *)
Decoded(piece) ==
  LET from[k \in 1 .. Len(piece) + 2] ==
        IF k > Len(piece) THEN << >>
        ELSE IF piece[k] # BLANK[1] THEN <<piece[k]>> \o from[k + 1]
        ELSE <<IF k < Len(piece) /\ piece[k + 1] = BLANK[2] THEN SPACE ELSE NEWLINE>>
               \o from[k + 2]
  IN from[1]

decode(id) == Decoded(Vocab[id])

(* The texts the vocabulary spells: every byte that continues a code point  *)
(* has its start up to three bytes before it, every code point is known,    *)
(* and none begins like the blank.  The first loop of encode never needs    *)
(* the byte fallback on such a text.                                        *)
Spellable(text) ==
  LET s == replace_spaces_with_G(text)
      codePoint(k) == SubSeq(s, k, k + CodePointEnd(SubSeq(s, k, Len(s))) - 1)
  IN /\ \A k \in DOMAIN text : text[k] # BLANK[1]
     /\ \A k \in DOMAIN s :
          IF s[k] \in Continuation
          THEN \E j \in 1 .. 3 : j < k /\ s[k - j] \notin Continuation
          ELSE Known(codePoint(k))
=============================================================================
