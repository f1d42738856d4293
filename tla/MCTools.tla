------------------------------- MODULE MCTools -------------------------------
(* Tools, with what it implements, on small instances.                     *)
EXTENDS Tools, DevRefinement, ProviderInvariant, TLC

CONSTANTS p1, p2, t1, t2, k1, k2, k3, m1, m2, big, c1, c2, c3

TwoProcesses == t1 :> p1 @@ t2 :> p2

\* One user signs and looks at the public key, the other one replaces the key.
UserAndOfficer == t1 :> {"sign", "get_pubkey"} @@ t2 :> {"generate_keypair"}

\* The length of the public key, and a buffer of that length.
Reads == {<<Attr("CKA_VALUE", None)>>, <<Attr("CKA_VALUE", 48)>>}
=============================================================================
