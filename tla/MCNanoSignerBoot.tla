--------------------------- MODULE MCNanoSignerBoot ---------------------------
(* NanoSignerBoot on small instances. *)
EXTENDS NanoSignerBoot

CONSTANTS k1, k2, k3
=============================================================================
