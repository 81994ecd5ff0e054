------------------------------- MODULE Word32 -------------------------------
(***************************************************************************)
(* 32-bit machine words. A word is the set of its one bits, 0 the lowest.  *)
(***************************************************************************)
EXTENDS Integers, FiniteSets, SequencesExt

XLEN == 32
BitIds == 0 .. XLEN - 1
Word == SUBSET BitIds

\* The two's complement word of an integer.
WordOf(n) == {i \in 0 .. XLEN - 2 : (n \div 2 ^ i) % 2 = 1} \cup (IF n < 0 THEN {XLEN - 1} ELSE {})

\* Bits lo to hi - 1 of a word, moved to position `at`: shifts and masks.
Place(w, lo, hi, at) == {i - lo + at : i \in w \cap lo .. hi - 1}

shl(w, n) == Place(w, 0, XLEN - n, n)
shr(w, n) == Place(w, n, XLEN, 0)
sar(w, n) == shr(w, n) \cup IF XLEN - 1 \in w THEN XLEN - n .. XLEN - 1 ELSE {}

\* The number in bits lo to hi - 1, fewer than 31 of them.
Number(w, lo, hi) == MapThenSumSet(LAMBDA i : 2 ^ (i - lo), w \cap lo .. hi - 1)

HalfBits == XLEN \div 2
Half == 2 ^ HalfBits
Low(w) == Number(w, 0, HalfBits)
High(w) == Number(w, HalfBits, XLEN)
FromHalves(high, low) == WordOf(low % Half) \cup shl(WordOf(high % Half), HalfBits)

wrapping_add(v, w) ==
  LET low == Low(v) + Low(w) IN FromHalves(High(v) + High(w) + low \div Half, low)
wrapping_sub(v, w) ==
  LET low == Low(v) - Low(w) IN FromHalves(High(v) - High(w) + low \div Half, low)

Below(v, w) == High(v) < High(w) \/ (High(v) = High(w) /\ Low(v) < Low(w))

\* as i32: the sign bit counts the other way.
SignedBelow(v, w) ==
  LET negative(u) == XLEN - 1 \in u
  IN  IF negative(v) # negative(w) THEN negative(v) ELSE Below(v, w)
=============================================================================
