--------------------------- MODULE ParameterSets ---------------------------
(***************************************************************************)
(* The parameter sets of slh-dsa-hw (hashes/sha2.rs, hashes/shake.rs) and  *)
(* the lengths that other files state of them.                             *)
(***************************************************************************)
EXTENDS Fors

Names == {"128s", "128f", "192s", "192f", "256s", "256f"}

Set(n, m, msgLen, sigLen, hPrime, d, hh, k, a, md) ==
  [N |-> n, M |-> m, WotsMsgLen |-> msgLen, WotsSigLen |-> sigLen,
   HPrime |-> hPrime, D |-> d, H |-> hh, K |-> k, A |-> a, MD |-> md]

\* As it would be with a message digest that does not hold K * A bits.
Sha2L1_shortMD(name) ==
  CASE name = "128s" -> Set(16, 30, 32, 35, 9, 7, 63, 14, 12, DivCeil(12 * 14, 8))
    [] name = "128f" -> Set(16, 34, 32, 35, 3, 22, 66, 33, 6, 24)

Sha2L1(name) ==
  CASE name = "128s" -> Set(16, 30, 32, 35, 9, 7, 63, 14, 12, DivCeil(12 * 14, 8))
    [] name = "128f" -> Set(16, 34, 32, 35, 3, 22, 66, 33, 6, 25)

Sha2L35(name) ==
  CASE name = "192s" -> Set(24, 39, 24 * 2, 24 * 2 + 3, 9, 7, 63, 17, 14, DivCeil(14 * 17, 8))
    [] name = "192f" -> Set(24, 42, 24 * 2, 24 * 2 + 3, 3, 22, 66, 33, 8, DivCeil(33 * 8, 8))
    [] name = "256s" -> Set(32, 47, 32 * 2, 32 * 2 + 3, 8, 8, 64, 22, 14, DivCeil(14 * 22, 8))
    [] name = "256f" -> Set(32, 49, 32 * 2, 32 * 2 + 3, 4, 17, 68, 35, 9, DivCeil(35 * 9, 8))

Sha2(name) == IF name \in {"128s", "128f"} THEN Sha2L1(name) ELSE Sha2L35(name)

Shake(name) ==
  CASE name = "128s" -> Set(16, 30, 32, 35, 9, 7, 63, 14, 12, DivCeil(12 * 14, 8))
    [] name = "128f" -> Set(16, 34, 32, 35, 3, 22, 66, 33, 6, 25)
    [] name = "192s" -> Set(24, 39, 24 * 2, 24 * 2 + 3, 9, 7, 63, 17, 14, DivCeil(14 * 17, 8))
    [] name = "192f" -> Set(24, 42, 24 * 2, 24 * 2 + 3, 3, 22, 66, 33, 8, DivCeil(33 * 8, 8))
    [] name = "256s" -> Set(32, 47, 32 * 2, 32 * 2 + 3, 8, 8, 64, 22, 14, DivCeil(14 * 22, 8))
    [] name = "256f" -> Set(32, 49, 32 * 2, 32 * 2 + 3, 4, 17, 68, 35, 9, DivCeil(35 * 9, 8))

\* The sets of a name, one per family of hash functions.
ParameterSet(name) == {Sha2(name), Shake(name)}

\* Both families state their lengths by N.
SkLen(n) == 4 * n
VkLen(n) == CASE n = 16 -> 32 [] n = 24 -> 48 [] n = 32 -> 64

SigLen(name) ==
  CASE name = "128s" -> 7856  [] name = "128f" -> 17088
    [] name = "192s" -> 16224 [] name = "192f" -> 35664
    [] name = "256s" -> 29792 [] name = "256f" -> 49856

\* What the numbers of a set must satisfy for the indices to fit the words they
\* are kept in and for the parts of a digest and a signature to fill them.
Fits(p) ==
  /\ p.WotsMsgLen * LOG_W = 8 * p.N /\ p.WotsSigLen = p.WotsMsgLen + CK_LEN
  /\ p.WotsMsgLen * (W - 1) < 2^(CK_LEN * LOG_W)
  /\ p.H = p.D * p.HPrime /\ p.HPrime < 32 /\ p.H - p.HPrime <= 64 /\ p.D <= 256
  /\ p.A <= 16 /\ p.MD = DivCeil(p.K * p.A, 8)
  /\ p.M = p.MD + DivCeil(p.H - p.HPrime, 8) + DivCeil(p.HPrime, 8)

\* What the provider believes of the token's signatures, and the token's keys.
Token == INSTANCE TokenCore WITH
  Keys <- {}, Msgs <- {}, BigMsgs <- {}, ResponseBufLen <- 0, TrngMayFail <- FALSE, None <- 0

\* The randomizer, the FORS signature, the hypertree signature.
SignatureSize(p) == p.N + ForsSize(p) + HypertreeSize(p)

=============================================================================
