----------------------------- MODULE HashSuite -----------------------------
(***************************************************************************)
(* The component hash functions (slh-dsa-hw/src/hashes/sha2.rs) as a       *)
(* symbolic hash: a value records the compressed address and the values it *)
(* was computed from, so two values are equal only if all of that is.  val *)
(* is the number its N bytes make, which WOTS+ cuts into digits.  There is *)
(* one key pair: the seeds, which prefix every hash, are left out.         *)
(***************************************************************************)
EXTENDS Address

CONSTANT P   \* the parameter set: a record of the associated types of the traits

\* A prime just below the numbers of N bytes, for N = 2.
Modulus == 2^(8 * P.N) - 15

\* Any function that spreads its arguments over N bytes would do.
Mix(numbers, values) ==
  LET overNumbers[i \in 0..Len(numbers)] ==
        IF i = 0 THEN 1 ELSE (overNumbers[i - 1] * 131 + numbers[i] + 7) % Modulus
      overValues[i \in 0..Len(values)] ==
        IF i = 0 THEN overNumbers[Len(numbers)]
        ELSE (overValues[i - 1] * 257 + values[i].val + 11) % Modulus
  IN  (overValues[Len(values)] * 2711 + 5) % Modulus

\* cached_hasher (the prefix), adrs.compressed(), then the parts.
Hash(adrs, parts) ==
  LET a == compressed(adrs) IN [adrs |-> a, of |-> parts, val |-> Mix(a, parts)]

\* As it would be if only the first of the nodes were hashed.
h_first(adrs, m1, m2) == Hash(adrs, <<m1>>)

prf_sk(adrs)       == Hash(adrs, <<>>)
f(adrs, m)         == Hash(adrs, <<m>>)
h(adrs, m1, m2)    == Hash(adrs, <<m1, m2>>)
t(adrs, m)         == Hash(adrs, m)
prf_msg(msg)       == [adrs |-> <<>>, of |-> <<>>, val |-> Mix(msg, <<>>)]

as_slice(value) == [i \in 1..P.N |-> (value.val \div 2^(8 * (P.N - i))) % 256]

=============================================================================
