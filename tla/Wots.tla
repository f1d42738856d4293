-------------------------------- MODULE Wots --------------------------------
(***************************************************************************)
(* slh-dsa-hw/src/wots.rs: one-time signatures.  A signature is the        *)
(* sequence of its chunks, so its serialisation is itself.                 *)
(***************************************************************************)
EXTENDS Digits, HashSuite

LOG_W  == 4
W      == 16
CK_LEN == 3

WotsSize(p) == p.N * p.WotsSigLen

wots_chain(x, i, s, adrs) ==
  LET at[j \in i..(i + s)] ==
        IF j = i THEN x ELSE f([adrs EXCEPT !.hash_adrs = j - 1], at[j - 1])
  IN  at[i + s]

Chains == 1..P.WotsSigLen
OnChain(adrs, i) == [adrs EXCEPT !.chain_adrs = i - 1]

\* The sum over the digits of what is left of their chains.
steps_left(msg) ==
  LET upTo[i \in 0..Len(msg)] == IF i = 0 THEN 0 ELSE upTo[i - 1] + W - 1 - msg[i]
  IN  upTo[Len(msg)]

\* As it would be if the checksum stayed in the low bits.
checksum_unshifted(msg) == steps_left(msg) % 2^16

\* A u16, moved up so that base_2b finds its three digits on top.
checksum(msg) == (steps_left(msg) * 2^4) % 2^16

\* The digits of a message of N bytes followed by those of its checksum.
msg_csum(m) ==
  LET msg  == base_2b(m, P.WotsMsgLen, LOG_W)
      csum == checksum(msg)
  IN  msg \o base_2b(<<csum \div 256, csum % 256>>, CK_LEN, LOG_W)

wots_sk(adrs, i) == prf_sk(OnChain(prf_adrs(adrs), i))

wots_pk_gen(adrs) ==
  t(pk_adrs(adrs), [i \in Chains |-> wots_chain(wots_sk(adrs, i), 0, W - 1, OnChain(adrs, i))])

wots_sign(m, adrs) ==
  LET digits == msg_csum(as_slice(m))
  IN  [i \in Chains |-> wots_chain(wots_sk(adrs, i), 0, digits[i], OnChain(adrs, i))]

wots_pk_from_sig(sig, m, adrs) ==
  LET digits == msg_csum(as_slice(m))
  IN  t(pk_adrs(adrs),
        [i \in Chains |-> wots_chain(sig[i], digits[i], W - 1 - digits[i], OnChain(adrs, i))])

=============================================================================
