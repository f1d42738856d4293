---------------------------- MODULE MCObjectSearch --------------------------
(* ObjectSearch on small instances.                                        *)
EXTENDS ObjectSearch, TLC

CONSTANTS p1, p2, t1, t2, k1, k2, k3, m1, m2, big, c1, c2, c3

\* Two threads of one process.
OneProcess == t1 :> p1 @@ t2 :> p1

\* The length of the public key; a label that does not fit, then the public key.
SomeReads == {<<Attr("CKA_VALUE", None)>>, <<Attr("CKA_LABEL", 4), Attr("CKA_VALUE", 48)>>}

\* Keys, connections and the threads of one process are interchangeable.
Symmetry == Permutations(Keys) \cup Permutations(Conns) \cup Permutations(Threads)
=============================================================================
