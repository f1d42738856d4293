------------------------------ MODULE MCSlhDsa ------------------------------
(* Three layers of trees of four leaves, two FORS trees of four leaves.    *)
EXTENDS SlhDsa

Small == [N |-> 2, M |-> 3, WotsMsgLen |-> 4, WotsSigLen |-> 7, HPrime |-> 2, D |-> 3,
          H |-> 6, K |-> 2, A |-> 2, MD |-> 1]

\* Trees 1 and 5 are entered by the same leaf of different trees one layer up,
\* 22 has bits above those of a tree index, and so has leaf 7.
SomeDigests == {<<27, 228>>[i] : i \in 1..2} \X {1, 5, 22} \X {0, 7}

=============================================================================
