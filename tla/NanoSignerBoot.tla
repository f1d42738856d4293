---------------------------- MODULE NanoSignerBoot --------------------------
(***************************************************************************)
(* How nano-signer comes by its key pair (load_or_generate_keys of         *)
(* nano-signer/src/bin/main.rs): one record in flash, written front to     *)
(* back, a magic byte first; power may fail at any moment.                 *)
(***************************************************************************)
EXTENDS TokenCore

CONSTANTS
  PARAM_SETS,  \* the parameter sets the firmware is built for, one after another
  CutsAt       \* the points where the power may fail

ASSUME NanoBootAssumption == PARAM_SETS \subseteq ParamSets

VARIABLES
  pc,       \* "off", "boot", "write" (a pair in memory), "running" or "panicked"
  build,    \* the parameter set of the firmware on the device
  record,   \* the keys partition: how much of a record it holds, and of which pair
  backend,  \* the pair in memory: the signing key, the public key bytes
  served    \* the secret key this token last came up with, None before that

bootVars == <<pc, build, record, backend, served>>

\* How far a record has been written: nothing, the magic byte and not all the lengths,
\* the lengths too, part of the secret key, the secret key too, part of the public
\* key, all of it.
Written == {"erased", "magic", "header", "in_sec", "sec", "in_pub", "all"}

Erased == [bytes |-> "0xFF"]       \* what a key reads as where nothing was written
Cut    == [bytes |-> "then 0xFF"]  \* where the first of its bytes were
Pairs  == [param : ParamSets, key : Keys]
Bytes  == Pairs \cup {Erased, Cut}

TypeOK ==
  /\ pc \in {"off", "boot", "write", "running", "panicked"}
  /\ build \in PARAM_SETS
  /\ record \in [written : Written, pair : Pairs \cup {None}]
  /\ record.written # "erased" => record.pair \in Pairs
  /\ backend \in [signing : Bytes, public : Bytes] \cup {None}
  /\ served \in Bytes \cup {None}

Init ==
  /\ pc = "off" /\ build \in PARAM_SETS
  /\ record = [written |-> "erased", pair |-> None]
  /\ backend = None /\ served = None

PowerOn == /\ pc = "off" /\ pc' = "boot"
           /\ UNCHANGED <<build, record, backend, served>>

\* The bytes a record holds where the keys are to be, and the keys it yields:
\* SigningKey::try_from and copy_from_slice check nothing but lengths.
SecBytes == CASE record.written = "header" -> Erased
              [] record.written = "in_sec" -> Cut
              [] OTHER -> record.pair
SecOf == IF SecBytes \in Pairs THEN [SecBytes EXCEPT !.param = build] ELSE SecBytes
PubOf == CASE record.written \in {"header", "in_sec", "sec"} -> Erased
           [] record.written = "in_pub" -> Cut
           [] OTHER -> record.pair

\* The record's lengths: one whose high byte is erased is 0xFF00 or more and runs past
\* the buffer, those of another key size fail the copy or try_from.
LengthsUnchecked == record.written # "magic"   \* as it would be without expect()

LengthsFit == /\ record.written # "magic"
              /\ public_key_len[record.pair.param] = public_key_len[build]

\* The magic byte is there: take the record for a key pair.
LoadRecord ==
  /\ pc = "boot" /\ record.written # "erased"
  /\ \/ /\ LengthsFit
        /\ backend' = [signing |-> SecOf, public |-> PubOf]
        /\ pc' = "running"
        /\ served' = SecBytes
     \/ /\ ~LengthsFit
        /\ pc' = "panicked"
        /\ UNCHANGED <<backend, served>>
  /\ UNCHANGED <<build, record>>

\* As it would be if the magic byte were not looked at.
GenerateAlways ==
  /\ pc = "boot"
  /\ \E k \in Keys :
       LET pair == [param |-> build, key |-> k] IN
       /\ backend' = [signing |-> pair, public |-> pair]
       /\ record' = [record EXCEPT !.written = "erased", !.pair = pair]
  /\ pc' = "write"
  /\ UNCHANGED <<build, served>>

GenerateRecord ==
  /\ pc = "boot" /\ record.written = "erased"
  /\ \E k \in Keys :
       LET pair == [param |-> build, key |-> k] IN
       /\ backend' = [signing |-> pair, public |-> pair]
       /\ record' = [record EXCEPT !.pair = pair]
  /\ pc' = "write"
  /\ UNCHANGED <<build, served>>

\* region.write: the flash is programmed from the first byte on.
WriteRecord ==
  /\ pc = "write"
  /\ \/ record.written = "erased" /\ record' = [record EXCEPT !.written = "magic"]
     \/ record.written = "magic"  /\ record' = [record EXCEPT !.written = "header"]
     \/ record.written = "header" /\ record' = [record EXCEPT !.written = "in_sec"]
     \/ record.written = "in_sec" /\ record' = [record EXCEPT !.written = "sec"]
     \/ record.written = "sec"    /\ record' = [record EXCEPT !.written = "in_pub"]
     \/ record.written = "in_pub" /\ record' = [record EXCEPT !.written = "all"]
  /\ IF record'.written = "all"
     THEN pc' = "running" /\ served' = backend.signing
     ELSE UNCHANGED <<pc, served>>
  /\ UNCHANGED <<build, backend>>

\* A running token is asked for another pair: it is in memory only.  Where the
\* generator of random numbers fails nothing changes.
GenerateKeypair ==
  /\ pc = "running"
  /\ \E k \in Keys :
       LET pair == [param |-> build, key |-> k] IN
       backend' = [signing |-> pair, public |-> pair]
  /\ UNCHANGED <<pc, build, record, served>>

PowerOff ==
  /\ pc \in CutsAt
  /\ pc' = "off" /\ backend' = None
  /\ UNCHANGED <<build, record, served>>

\* As it would be if flashing destroyed what the record says.
ReflashDestroys(p) ==
  /\ pc = "off" /\ p # build /\ build' = p
  /\ record' = [record EXCEPT !.pair = None]
  /\ UNCHANGED <<pc, backend, served>>

\* Flashing another firmware leaves the keys partition alone.
Reflash(p) ==
  /\ pc = "off" /\ p # build /\ build' = p
  /\ UNCHANGED <<pc, record, backend, served>>

Next == \/ PowerOn \/ LoadRecord \/ GenerateRecord \/ WriteRecord
        \/ GenerateKeypair \/ PowerOff
        \/ \E p \in PARAM_SETS : Reflash(p)

Spec == Init /\ [][Next]_bootVars

-----------------------------------------------------------------------------
\* The public key a running token reports is the one its signatures verify
\* under (load_or_generate_keys returns the two together); of keys that were not
\* written to the end it is not.
PublicKeyMatches == pc = "running" => /\ backend.public = backend.signing
                                      /\ backend.public \in Pairs

\* It does so whenever the public key it reports was written to the end.
WholeKeyMatches == pc = "running" /\ backend.public \notin {Erased, Cut}
                   => backend.public = backend.signing

\* The bytes of the secret key that a start of the token loads or provisions are those
\* it comes up with ever after, or it does not come up.  A pair of generate_keypair
\* does not come back.
KeyStable == [][served # None => served' = served]_bootVars
=============================================================================
