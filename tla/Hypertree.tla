----------------------------- MODULE Hypertree -----------------------------
(* slh-dsa-hw/src/hypertree.rs: D layers of XMSS trees.                    *)
EXTENDS Xmss

HypertreeSize(p) == XmssSize(p) * p.D

\* As it would be if idx_tree were not shifted.
next_tree_unshifted(idx_tree) == idx_tree

\* Where layer j + 1 is entered from tree idx_tree of layer j.
next_leaf(idx_tree) == And(idx_tree, 2^P.HPrime - 1)
next_tree(idx_tree) == idx_tree \div 2^P.HPrime

AtLayer(j, tree) == [DefaultWotsHash EXCEPT !.layer_adrs = j, !.tree_adrs_low = tree]

\* What xmss_sign is called with on layer j, and what it returns.
SignedLayer(j, tree, leaf, m) ==
  [tree |-> tree, leaf |-> leaf, m |-> m, sig |-> xmss_sign(m, leaf, AtLayer(j, tree))]

\* The passes of the loop of ht_sign: each signs the root the one below yields.
ht_layers(m, idx_tree, idx_leaf) ==
  LET at[j \in 0..(P.D - 1)] ==
        IF j = 0 THEN SignedLayer(0, idx_tree, idx_leaf, m)
        ELSE LET below == at[j - 1]
                 root  == xmss_pk_from_sig(below.leaf, below.sig, below.m, AtLayer(j - 1, below.tree))
             IN  SignedLayer(j, next_tree(below.tree), next_leaf(below.tree), root)
  IN  [j \in 1..P.D |-> at[j - 1]]

ht_sign(m, idx_tree, idx_leaf) ==
  LET layers == ht_layers(m, idx_tree, idx_leaf) IN [j \in 1..P.D |-> layers[j].sig]

ht_verify(m, sig, idx_tree, idx_leaf, pk_root) ==
  LET upTo[j \in 0..(P.D - 1)] ==
        IF j = 0 THEN [tree |-> idx_tree,
                       root |-> xmss_pk_from_sig(idx_leaf, sig[1], m, AtLayer(0, idx_tree))]
        ELSE LET below == upTo[j - 1]
                 tree  == next_tree(below.tree)
             IN  [tree |-> tree,
                  root |-> xmss_pk_from_sig(next_leaf(below.tree), sig[j + 1], below.root,
                                            AtLayer(j, tree))]
  IN  upTo[P.D - 1].root = pk_root

XmssLen == P.WotsSigLen + P.HPrime
HypertreeSig(chunks) ==
  [j \in 1..P.D |-> XmssSig(SubSeq(chunks, (j - 1) * XmssLen + 1, j * XmssLen))]

=============================================================================
