------------------------------- MODULE Digits -------------------------------
(***************************************************************************)
(* slh-dsa-hw/src/util.rs: from bytes to the numbers the trees are indexed *)
(* with.  Loops are recursive functions over the loop state.               *)
(***************************************************************************)
EXTENDS Integers, Sequences

CONSTANT WordBits   \* width of the word that holds idx_tree (u64 in the code)

ASSUME DigitsAssumption == WordBits \in Nat \ {0}

DivCeil(a, b) == (a + b - 1) \div b

\* x & mask, for a mask of ones.
And(x, mask) == x % (mask + 1)

\* 1u64.checked_shl(k).unwrap_or(0)
CheckedShl(k) == IF k < WordBits THEN 2^k ELSE 0

from_be_bytes(bytes) ==
  LET upTo[i \in 0..Len(bytes)] == IF i = 0 THEN 0 ELSE 256 * upTo[i - 1] + bytes[i]
  IN  upTo[Len(bytes)]

\* The inner loop of base_2b: a byte at a time until there are B bits.  Each
\* pass brings eight, so B of them are more than enough.
loaded(x, B, s) ==
  LET pass[k \in 0..B] ==
        IF k = 0 THEN s
        ELSE LET t == pass[k - 1]
             IN  IF t.bits >= B THEN t
                 ELSE [t EXCEPT !.bits = @ + 8, !.i = @ + 1, !.total = @ * 256 + x[t.i + 1]]
  IN  pass[B]

\* The B bits on top leave the total for the output.
unloaded(B, s) ==
  LET bits == s.bits - B
  IN  [bits  |-> bits, i |-> s.i, total |-> And(s.total, 2^bits - 1),
       out   |-> Append(s.out, And(s.total \div 2^bits, 2^B - 1))]

\* OutLen digits of B bits each, most significant first.  total keeps fewer
\* than B + 8 bits, so it fits usize for every B the function admits.
base_2b(x, OutLen, B) ==
  LET after[n \in 0..OutLen] ==
        IF n = 0 THEN [bits |-> 0, i |-> 0, total |-> 0, out |-> <<>>]
        ELSE unloaded(B, loaded(x, B, after[n - 1]))
  IN  after[OutLen].out

\* As it would be with saturating_sub in place of wrapping_sub.
tree_mask_saturating(p) ==
  IF CheckedShl(p.H - p.HPrime) = 0 THEN 0 ELSE CheckedShl(p.H - p.HPrime) - 1

\* All ones when H - HPrime is the width of the word: 0.wrapping_sub(1).
tree_mask(p) == (CheckedShl(p.H - p.HPrime) - 1) % 2^WordBits

split_digest(p, digest) ==
  LET treeSize == DivCeil(p.H - p.HPrime, 8)
      leafSize == DivCeil(p.HPrime, 8)
      number(from, size) == from_be_bytes(SubSeq(digest, from + 1, from + size))
  IN  [md       |-> SubSeq(digest, 1, p.MD),
       idx_tree |-> And(number(p.MD, treeSize), tree_mask(p)),
       idx_leaf |-> And(number(p.MD + treeSize, leafSize), 2^p.HPrime - 1)]

=============================================================================
