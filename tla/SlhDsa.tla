------------------------------- MODULE SlhDsa -------------------------------
(***************************************************************************)
(* slh-dsa-hw: a signer signs a message, the bytes travel, a verifier      *)
(* checks them against a message of its own (signing_key.rs,               *)
(* verifying_key.rs, signature_encoding.rs).                               *)
(*                                                                         *)
(* A message is known by the digest h_msg makes of it.  The randomizer     *)
(* only enters h_msg, so a verifier with another message, or with a        *)
(* damaged randomizer, is one with another digest.                         *)
(***************************************************************************)
EXTENDS ParameterSets, FiniteSets

CONSTANTS
  Digests,   \* what h_msg returns: sequences of P.M bytes
  CtxBound,  \* a context string is shorter than this (256)
  None       \* absence of a value

VARIABLES
  digest,     \* the digest of the signed message
  sent,       \* the signature, in chunks of N bytes, as the signer wrote it
  received,   \* the same as the verifier reads it
  presented,  \* the digest of the message it is checked against
  verdict     \* what verify returned: "ok" or "err"

vars == <<digest, sent, received, presented, verdict>>

ASSUME SlhDsaAssumption ==
  /\ \A d \in Digests : d \in Seq(0..255) /\ Len(d) = P.M
  /\ {P.N, P.HPrime, P.D, P.K, P.A, P.WotsMsgLen} \subseteq Nat \ {0}
  /\ P.N <= P.M       \* by far, in every set
  /\ Fits(P) /\ P.H - P.HPrime <= WordBits
  /\ None \notin Digests /\ CtxBound \in Nat

-----------------------------------------------------------------------------
(* Keys, signatures and their bytes.                                       *)

\* The seeds are values that no hash of a message or a node has.
Seed(n) == [adrs |-> <<>>, of |-> <<>>, val |-> -n]

pk_root == xmss_node(0, P.HPrime, [DefaultWotsHash EXCEPT !.layer_adrs = P.D - 1])

\* SigningKey::from_seed
from_seed(sk_seed, sk_prf, pk_seed) ==
  [sk_seed |-> sk_seed, sk_prf |-> sk_prf,
   verifying_key |-> [pk_seed |-> pk_seed, pk_root |-> pk_root]]

new == from_seed(Seed(1), Seed(2), Seed(3))

\* The bytes of the keys, in chunks of N, and the keys read from them.
vk_to_bytes(vk) == <<vk.pk_seed, vk.pk_root>>
sk_to_bytes(sk) == <<sk.sk_seed, sk.sk_prf>> \o vk_to_bytes(sk.verifying_key)

vk_try_from(chunks) ==
  IF Len(chunks) # 2 THEN None ELSE [pk_seed |-> chunks[1], pk_root |-> chunks[2]]

sk_try_from(chunks) ==
  IF Len(chunks) # 4 THEN None
  ELSE [sk_seed |-> chunks[1], sk_prf |-> chunks[2],
        verifying_key |-> vk_try_from(SubSeq(chunks, 3, 4))]

\* The keys as the two ends have read them back from their bytes.
SigningKey   == sk_try_from(sk_to_bytes(new))
VerifyingKey == vk_try_from(vk_to_bytes(SigningKey.verifying_key))

\* As it would be if the length were cut to a byte.
with_context_cut(ctx, msg) == <<0, Len(ctx) % CtxBound>> \o ctx \o msg

\* What is signed: the message after its context string, None if that is too long.
with_context(ctx, msg) == IF Len(ctx) >= CtxBound THEN None ELSE <<0, Len(ctx)>> \o ctx \o msg

slh_sign(d) ==
  LET s       == split_digest(P, d)
      adrs    == NewForsTree(s.idx_tree, s.idx_leaf)
      fors    == fors_sign(s.md, adrs)
      fors_pk == fors_pk_from_sig(fors, s.md, adrs)
  IN  [randomizer |-> prf_msg(d),
       fors_sig   |-> fors,
       ht_sig     |-> ht_sign(fors_pk, s.idx_tree, s.idx_leaf)]

slh_verify(d, signature) ==
  LET s       == split_digest(P, d)
      fors_pk == fors_pk_from_sig(signature.fors_sig, s.md,
                                  NewForsTree(s.idx_tree, s.idx_leaf))
  IN  ht_verify(fors_pk, signature.ht_sig, s.idx_tree, s.idx_leaf, VerifyingKey.pk_root)

Flattened(parts) ==
  LET upTo[i \in 0..Len(parts)] == IF i = 0 THEN <<>> ELSE upTo[i - 1] \o parts[i]
  IN  upTo[Len(parts)]

to_bytes(signature) ==
  <<signature.randomizer>>
    \o Flattened([i \in 1..P.K |-> ForsMTChunks(signature.fors_sig[i])])
    \o Flattened([j \in 1..P.D |-> XmssChunks(signature.ht_sig[j])])

\* Whole chunks are damaged or lost below, so the length in chunks tells what
\* the length in bytes does.
Parses(chunks) == Len(chunks) * P.N = SignatureSize(P)

\* TryFrom<&[u8]> for Signature, once the length is right.
from_bytes(chunks) ==
  LET forsEnd == 1 + P.K * (P.A + 1)
  IN  [randomizer |-> chunks[1],
       fors_sig   |-> ForsSignature(SubSeq(chunks, 2, forsEnd)),
       ht_sig     |-> HypertreeSig(SubSeq(chunks, forsEnd + 1, Len(chunks)))]

-----------------------------------------------------------------------------
(* The life of a signature.                                                *)

Init ==
  /\ digest = None /\ sent = None /\ received = None
  /\ presented = None /\ verdict = None

TrySign(d) ==
  /\ sent = None
  /\ digest' = d
  /\ sent' = to_bytes(slh_sign(d))
  /\ UNCHANGED <<received, presented, verdict>>

Arrives(chunks) ==
  /\ sent # None /\ received = None
  /\ received' = chunks
  /\ UNCHANGED <<digest, sent, presented, verdict>>

Deliver == Arrives(sent)

\* A chunk arrives as the one that follows it.  (For the randomizer see above.)
Damage(i) ==
  /\ sent # None /\ i \in 2..(Len(sent) - 1)
  /\ Arrives([sent EXCEPT ![i] = sent[i + 1]])

Truncate == /\ sent # None
            /\ Arrives(SubSeq(sent, 1, Len(sent) - 1))

TryVerify(d) ==
  /\ received # None /\ verdict = None
  /\ presented' = d
  /\ verdict' = IF Parses(received) /\ slh_verify(d, from_bytes(received)) THEN "ok" ELSE "err"
  /\ UNCHANGED <<digest, sent, received>>

\* The next message.
Again ==
  /\ verdict # None
  /\ digest' = None /\ sent' = None /\ received' = None
  /\ presented' = None /\ verdict' = None

Next ==
  \/ \E d \in Digests : TrySign(d) \/ TryVerify(d)
  \/ Deliver
  \/ \E i \in 1..(SignatureSize(P) \div P.N) : Damage(i)
  \/ Truncate
  \/ Again

Spec == Init /\ [][Next]_vars

-----------------------------------------------------------------------------
(* Properties.                                                             *)

\* Where a digest leads: the FORS leaves, the tree and the leaf.
Path(d) == LET s == split_digest(P, d)
           IN  <<base_2b(s.md, P.K, P.A), s.idx_tree, s.idx_leaf>>

\* A signature that arrives as it was sent is accepted for every message that
\* leads to the same leaves, the one it was made for first of all
\* (signing_key.rs:150 makes it, signature_encoding.rs writes and reads it,
\* verifying_key.rs:74 checks it).
HonestVerifies ==
  (verdict # None /\ received = sent /\ Path(presented) = Path(digest)) => verdict = "ok"

\* No other one is: no chunk of a signature goes unused, and neither does a bit
\* of a digest.
OnlyHonestVerifies ==
  verdict = "ok" => (received = sent /\ Path(presented) = Path(digest))

\* Of two different messages of a one-time key, neither signature holds all
\* that is needed for the other: some chain of it starts further up.  This is
\* what the checksum of wots.rs:110 is for.
ChecksumGuards ==
  presented # None =>
    LET m1 == SubSeq(digest, 1, P.N)
        m2 == SubSeq(presented, 1, P.N)
    IN  m1 # m2 => \E i \in Chains : msg_csum(m2)[i] < msg_csum(m1)[i]

\* A one-time key signs one message only, whatever is signed with the whole
\* key: two messages that meet in a leaf of some layer have that leaf sign
\* the same value (hypertree.rs:64-101 signs public keys below the top).
LayersOf(d) == LET s    == split_digest(P, d)
                   adrs == NewForsTree(s.idx_tree, s.idx_leaf)
               IN  ht_layers(fors_pk_from_sig(fors_sign(s.md, adrs), s.md, adrs),
                             s.idx_tree, s.idx_leaf)

OneTimeKeysSignOnce ==
  (presented # None /\ received = sent) =>
    LET a == LayersOf(digest)
        b == LayersOf(presented)
    IN  \A j \in 1..P.D :
          (a[j].tree = b[j].tree /\ a[j].leaf = b[j].leaf) => a[j].m = b[j].m

\* No address serves two different hash computations (address.rs:3-8), among
\* all that the public key and a signature rest on: the chunks that are sent, what
\* each layer signs (the FORS public key, the roots below the top), and all that
\* those were hashed from.
RestsOn(values) ==
  LET deep[n \in 0..(W + P.HPrime + P.A + 2)] ==
        IF n = 0 THEN values ELSE UNION {{v.of[i] : i \in DOMAIN v.of} : v \in deep[n - 1]}
  IN  UNION {deep[n] : n \in DOMAIN deep}

SignedValues(d) == LET layers == LayersOf(d) IN {layers[j].m : j \in 1..P.D}

AddressesSeparate ==
  (sent # None /\ received = None) =>
    LET chunks   == {sent[i] : i \in 2..Len(sent)}
        computed == RestsOn({pk_root} \cup SignedValues(digest) \cup chunks)
    IN  Cardinality({v.adrs : v \in computed}) = Cardinality(computed)

\* base_2b and split_digest read their bytes as big-endian numbers
\* (util.rs:5-50).  The digits are the leading bits of the bytes.  The digest as
\* one number is the message digest, then the tree in whole bytes, then the leaf in
\* whole bytes, of which the trailing bits count, also where the tree takes the
\* whole word.
WholeWord == [MD |-> P.MD, H |-> WordBits + P.HPrime, HPrime |-> P.HPrime]

TreeBytes(p) == DivCeil(p.H - p.HPrime, 8)
LeafBytes(p) == DivCeil(p.HPrime, 8)

\* Those of the two whose parts make a digest of M bytes.
SplitSets == {p \in {P, WholeWord} : p.MD + TreeBytes(p) + LeafBytes(p) = P.M}

DigitsExact ==
  digest # None =>
    LET number == from_be_bytes(digest)
    IN  /\ \A B \in 1..16 :
             LET OutLen == (8 * Len(digest)) \div B
             IN  LET digits == base_2b(digest, OutLen, B)
                     value[i \in 0..OutLen] ==
                       IF i = 0 THEN 0 ELSE value[i - 1] * 2^B + digits[i]
                 IN  /\ \A i \in 1..OutLen : digits[i] \in 0..(2^B - 1)
                     /\ value[OutLen] = number \div 2^(8 * Len(digest) - OutLen * B)
        /\ \A p \in SplitSets :
             LET s == split_digest(p, digest)
             IN  /\ s.idx_leaf = number % 2^p.HPrime
                 /\ s.idx_tree = (number \div 2^(8 * LeafBytes(p))) % 2^(p.H - p.HPrime)
                 /\ Len(s.md) = p.MD
                 /\ from_be_bytes(s.md) = number \div 2^(8 * (TreeBytes(p) + LeafBytes(p)))

\* In every parameter set of both families the numbers fit together, the
\* indices fit the words they are kept in (util.rs:5-50, hypertree.rs:62,
\* address.rs `compressed`), and keys and signatures have the lengths that
\* signing_key.rs, verifying_key.rs, signature_encoding.rs and the provider's
\* state.rs say.
ParametersFit ==
  digest # None =>
    \A name \in Names : \A p \in ParameterSet(name) :
          /\ SignatureSize(p) = SigLen(name)
          /\ SigLen(name) = Token!signature_len_for[name]
          /\ VkLen(p.N) = Token!public_key_len[name]
          /\ VkLen(p.N) = Len(vk_to_bytes(VerifyingKey)) * p.N
          /\ SkLen(p.N) = Len(sk_to_bytes(SigningKey)) * p.N
          /\ Fits(p)

\* A message under a context string is signed as no other message under any other
\* context string is, and as no string of one of the two moved to the other
\* (signing_key.rs:190-201, verifying_key.rs:108-119).
Strings == UNION {[1..n -> {0, 1}] : n \in 0..(CtxBound + 1)}

ContextsSeparate ==
  digest # None =>
    LET allowed == {c \in Strings : Len(c) < CtxBound}
    IN  /\ \A c \in Strings \ allowed : with_context(c, <<>>) = None
        /\ Cardinality({with_context(c, m) : c \in allowed, m \in Strings})
             = Cardinality(allowed) * Cardinality(Strings)

=============================================================================
