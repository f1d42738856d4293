---------------------------- MODULE MCNanoSystem ----------------------------
(* NanoSystem on small instances.                                          *)
EXTENDS NanoSystem, ProviderInvariant, TLC

CONSTANTS p1, p2, t1, t2, k1, k2, k3, m1, m2, big, c1, c2

\* One thread; two threads of one process.
OneThread  == t1 :> p1
OneProcess == t1 :> p1 @@ t2 :> p1

\* Keys and connections are interchangeable.
Symmetry == Permutations(Keys) \cup Permutations(Conns)
=============================================================================
