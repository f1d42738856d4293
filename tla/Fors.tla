-------------------------------- MODULE Fors --------------------------------
(* slh-dsa-hw/src/fors.rs: few-time signatures, K trees of 2^A leaves.     *)
EXTENDS Hypertree

ForsSize(p) == p.K * (p.A + 1) * p.N

AtNode(adrs, height, index) == [adrs EXCEPT !.tree_height = height, !.tree_index = index]

fors_sk_gen(adrs, idx) == prf_sk([fors_prf_adrs(adrs) EXCEPT !.tree_index = idx])

fors_node(index, height, adrs) ==
  LET row[z \in Nat] ==
        IF z = 0 THEN [i \in Nat |-> f(AtNode(adrs, 0, i), fors_sk_gen(adrs, i))]
        ELSE [i \in Nat |-> h(AtNode(adrs, z, i), row[z - 1][2 * i], row[z - 1][2 * i + 1])]
  IN  row[height][index]

\* Tree i (counted from 0) starts at index i * 2^(A - z) of height z.
fors_sign(md, adrs) ==
  LET indices == base_2b(md, P.K, P.A)
  IN  [i \in 1..P.K |->
        [sk   |-> fors_sk_gen(adrs, (i - 1) * 2^P.A + indices[i]),
         auth |-> [j \in 1..P.A |->
                    fors_node((i - 1) * 2^(P.A - j + 1) + Sibling(indices[i] \div 2^(j - 1)),
                              j - 1, adrs)]]]

\* The root that the part of a signature for tree i (counted from 0) leads to.
fors_root(part, index, i, adrs) ==
  LET leaf == i * 2^P.A + index
      climb[j \in 0..P.A] ==
        IF j = 0 THEN f(AtNode(adrs, 0, leaf), part.sk)
        ELSE LET at == AtNode(adrs, j, leaf \div 2^j)
             IN  IF (index \div 2^(j - 1)) % 2 = 0
                 THEN h(at, climb[j - 1], part.auth[j])
                 ELSE h(at, part.auth[j], climb[j - 1])
  IN  climb[P.A]

fors_pk_from_sig(sig, md, adrs) ==
  LET indices == base_2b(md, P.K, P.A)
  IN  t(fors_roots(adrs), [i \in 1..P.K |-> fors_root(sig[i], indices[i], i - 1, adrs)])

\* write_to and try_from, in chunks of N bytes.
ForsMTChunks(sig) == <<sig.sk>> \o sig.auth
ForsSignature(chunks) ==
  [i \in 1..P.K |-> LET at == (i - 1) * (P.A + 1)
                    IN  [sk |-> chunks[at + 1], auth |-> SubSeq(chunks, at + 2, at + P.A + 1)]]

=============================================================================
