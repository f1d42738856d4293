------------------------------ MODULE Address ------------------------------
(***************************************************************************)
(* slh-dsa-hw/src/address.rs: where in the trees a hash is computed.       *)
(* tree_adrs_high is zero in every parameter set and left out.             *)
(***************************************************************************)
EXTENDS Integers, Sequences

WotsHash  == 0
WotsPk    == 1
HashTree  == 2
ForsTree  == 3
ForsRoots == 4
WotsPrf   == 5
ForsPrf   == 6

DefaultWotsHash ==
  [layer_adrs |-> 0, tree_adrs_low |-> 0, type_const |-> WotsHash,
   key_pair_adrs |-> 0, chain_adrs |-> 0, hash_adrs |-> 0]

NewForsTree(tree, keyPair) ==
  [layer_adrs |-> 0, tree_adrs_low |-> tree, type_const |-> ForsTree,
   key_pair_adrs |-> keyPair, tree_height |-> 0, tree_index |-> 0]

\* The transitions of a WotsHash address.
prf_adrs(a) == [a EXCEPT !.type_const = WotsPrf, !.chain_adrs = 0, !.hash_adrs = 0]
pk_adrs(a)  == [layer_adrs |-> a.layer_adrs, tree_adrs_low |-> a.tree_adrs_low,
                type_const |-> WotsPk, key_pair_adrs |-> a.key_pair_adrs]
tree_adrs(a) == [layer_adrs |-> a.layer_adrs, tree_adrs_low |-> a.tree_adrs_low,
                 type_const |-> HashTree, tree_height |-> 0, tree_index |-> 0]

\* The transitions of a ForsTree address.
fors_prf_adrs(a) == [a EXCEPT !.type_const = ForsPrf, !.tree_height = 0]

\* As it would be if fors_roots kept the type of the nodes.
fors_roots_untyped(a) == [a EXCEPT !.tree_height = 0, !.tree_index = 0]

fors_roots(a)    == [layer_adrs |-> 0, tree_adrs_low |-> a.tree_adrs_low,
                     type_const |-> ForsRoots, key_pair_adrs |-> a.key_pair_adrs]

\* The last twelve bytes, as the struct of each type lays them out.
LastWords(a) ==
  CASE a.type_const \in {WotsHash, WotsPrf} -> <<a.key_pair_adrs, a.chain_adrs, a.hash_adrs>>
    [] a.type_const \in {WotsPk, ForsRoots} -> <<a.key_pair_adrs, 0, 0>>
    [] a.type_const = HashTree              -> <<0, a.tree_height, a.tree_index>>
    [] a.type_const \in {ForsTree, ForsPrf} -> <<a.key_pair_adrs, a.tree_height, a.tree_index>>

\* Layer and type keep their lowest byte only.
compressed(a) == <<a.layer_adrs % 256, a.tree_adrs_low, a.type_const % 256>> \o LastWords(a)

=============================================================================
