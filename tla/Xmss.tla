-------------------------------- MODULE Xmss --------------------------------
(* slh-dsa-hw/src/xmss.rs: a Merkle tree over WOTS+ keys.                  *)
EXTENDS Wots

XmssSize(p) == WotsSize(p) + p.HPrime * p.N

\* As it would be if siblings were always to the right.
Sibling_right(idx) == idx + 1

\* idx ^ 1
Sibling(idx) == IF idx % 2 = 0 THEN idx + 1 ELSE idx - 1

xmss_node(node, height, adrs) ==
  LET row[z \in Nat] ==
        IF z = 0 THEN [i \in Nat |-> wots_pk_gen([adrs EXCEPT !.key_pair_adrs = i])]
        ELSE [i \in Nat |-> h([tree_adrs(adrs) EXCEPT !.tree_height = z, !.tree_index = i],
                              row[z - 1][2 * i], row[z - 1][2 * i + 1])]
  IN  row[height][node]

xmss_sign(m, idx, adrs) ==
  LET own == [adrs EXCEPT !.key_pair_adrs = idx]
  IN  [sig  |-> wots_sign(m, own),
       auth |-> [j \in 1..P.HPrime |-> xmss_node(Sibling(idx \div 2^(j - 1)), j - 1, own)]]

xmss_pk_from_sig(idx, sig, m, adrs) ==
  LET own == [adrs EXCEPT !.key_pair_adrs = idx]
      climb[j \in 0..P.HPrime] ==
        IF j = 0 THEN wots_pk_from_sig(sig.sig, m, own)
        ELSE LET at == [tree_adrs(own) EXCEPT !.tree_height = j, !.tree_index = idx \div 2^j]
             IN  IF (idx \div 2^(j - 1)) % 2 = 0
                 THEN h(at, climb[j - 1], sig.auth[j])
                 ELSE h(at, sig.auth[j], climb[j - 1])
  IN  climb[P.HPrime]

\* write_to and try_from, in chunks of N bytes.
XmssChunks(sig) == sig.sig \o sig.auth
XmssSig(chunks) == [sig  |-> SubSeq(chunks, 1, P.WotsSigLen),
                    auth |-> SubSeq(chunks, P.WotsSigLen + 1, Len(chunks))]

=============================================================================
