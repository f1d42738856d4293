-------------------------------- MODULE MCCli --------------------------------
(* Cli, and with it DevSignerBoot, on small instances.                     *)
EXTENDS Cli, TLC

CONSTANTS k1, k2, m1, m2

Symmetry == Permutations(Keys) \cup Permutations(Msgs)
=============================================================================
