-------------------------- MODULE NanoSignerBootProofs ------------------------
(***************************************************************************)
(* What holds of nano-signer's keys partition for any keys, whatever the   *)
(* firmware is built for and wherever the power fails.                     *)
(***************************************************************************)
EXTENDS NanoSignerBoot, TLAPS

\* A record is written on the first boot only, from the pair in memory.
WritesOwnPair == pc = "write" => /\ served = None
                                 /\ record.written # "all"
                                 /\ record.pair \in Pairs
                                 /\ backend = [signing |-> record.pair, public |-> record.pair]

\* What the token has come up with is what the record reads as.
Provisioned == served # None => record.written \notin {"erased", "magic"} /\ served = SecBytes

BootInv == TypeOK /\ WritesOwnPair /\ Provisioned

\* What the start-up keeps holds before the first start.
LEMMA BootInvInit == Init => BootInv
  BY DEF Init, BootInv, TypeOK, Written, WritesOwnPair, Provisioned

\* Every step of the start-up keeps it.
LEMMA BootInvNext == BootInv /\ [Next]_bootVars => BootInv'
<1> SUFFICES ASSUME BootInv, [Next]_bootVars PROVE BootInv'
  OBVIOUS
<1> USE DEF BootInv, TypeOK, WritesOwnPair, Provisioned, Written, SecBytes, Bytes
<1>0. build \in ParamSets
  BY NanoBootAssumption
<1>1. CASE PowerOn
  BY <1>1 DEF PowerOn
<1>2. CASE LoadRecord
  <2>1. record.written # "erased" /\ record.pair \in Pairs
    BY <1>2 DEF LoadRecord
  <2>2. \A pair \in Pairs : [pair EXCEPT !.param = build] \in Pairs
    BY <1>0 DEF Pairs
  <2>3. SecOf \in Bytes /\ PubOf \in Bytes /\ SecBytes \in Bytes
    BY <2>1, <2>2 DEF SecOf, PubOf
  <2>4. CASE LengthsFit
    BY <1>2, <2>1, <2>3, <2>4 DEF LoadRecord, LengthsFit
  <2>5. CASE ~LengthsFit
    BY <1>2, <2>5 DEF LoadRecord
  <2> QED
    BY <2>4, <2>5
<1>3. CASE GenerateRecord
  <2>1. PICK k \in Keys :
          /\ backend' = [signing |-> [param |-> build, key |-> k],
                         public  |-> [param |-> build, key |-> k]]
          /\ record' = [record EXCEPT !.pair = [param |-> build, key |-> k]]
    BY <1>3 DEF GenerateRecord
  <2>2. [param |-> build, key |-> k] \in Pairs
    BY <1>0 DEF Pairs
  <2> QED
    BY <1>3, <2>1, <2>2 DEF GenerateRecord
<1>4. CASE WriteRecord
  BY <1>4 DEF WriteRecord
<1>5. CASE PowerOff
  BY <1>5 DEF PowerOff
<1>6. ASSUME NEW p \in PARAM_SETS, Reflash(p) PROVE BootInv'
  BY <1>6 DEF Reflash
<1>7. CASE GenerateKeypair
  <2>1. PICK k \in Keys : backend' = [signing |-> [param |-> build, key |-> k],
                                      public  |-> [param |-> build, key |-> k]]
    BY <1>7 DEF GenerateKeypair
  <2>2. [param |-> build, key |-> k] \in Pairs
    BY <1>0 DEF Pairs
  <2> QED
    BY <1>7, <2>1, <2>2 DEF GenerateKeypair
<1>8. CASE UNCHANGED bootVars
  BY <1>8 DEF bootVars
<1> QED
  BY <1>1, <1>2, <1>3, <1>4, <1>5, <1>6, <1>7, <1>8 DEF Next

\* Every state of a start-up is of its type (nano-signer/src/bin/main.rs,
\* load_or_generate_keys).
THEOREM BootTypeCorrect == Spec => []TypeOK
<1>1. BootInv => TypeOK
  BY DEF BootInv
<1> QED
  BY <1>1, BootInvInit, BootInvNext, PTL DEF Spec

\* The key that a start of the token loads or provisions is the one every later start
\* comes up with, wherever the power failed and whatever is flashed in between
\* (nano-signer/src/bin/main.rs, load_or_generate_keys).
THEOREM KeyNeverChanges == Spec => KeyStable
<1>1. BootInv /\ [Next]_bootVars => [served # None => served' = served]_bootVars
  <2> SUFFICES ASSUME BootInv, Next, served # None PROVE served' = served
    BY DEF bootVars
  <2> USE DEF BootInv, TypeOK, WritesOwnPair, Provisioned, Written, SecBytes
  <2>1. CASE LoadRecord
    BY <2>1 DEF LoadRecord
  <2>2. CASE WriteRecord
    BY <2>2 DEF WriteRecord
  <2>3. CASE \/ PowerOn \/ GenerateRecord \/ GenerateKeypair \/ PowerOff
             \/ \E p \in PARAM_SETS : Reflash(p)
    BY <2>3 DEF PowerOn, GenerateRecord, GenerateKeypair, PowerOff, Reflash
  <2> QED
    BY <2>1, <2>2, <2>3 DEF Next
<1> QED
  BY <1>1, BootInvInit, BootInvNext, PTL DEF Spec, KeyStable

-----------------------------------------------------------------------------
(* The public key.  One that was written to the end is the right one,      *)
(* unless the firmware is replaced by one for another parameter set of the *)
(* same key size, which the lengths in the record cannot tell.             *)

KnownSizes == \A p, q \in PARAM_SETS : public_key_len[p] = public_key_len[q] => p = q

\* What the partition holds is of a parameter set that some firmware was built for.
OneRecord ==
  record.written # "erased" \/ pc = "write" => record.pair.param \in PARAM_SETS

RecordInv == BootInv /\ OneRecord /\ WholeKeyMatches

\* Every step keeps the record that of one pair, wherever the power fails.
LEMMA RecordInvNext ==
  ASSUME KnownSizes
  PROVE  RecordInv /\ [Next]_bootVars => RecordInv'
<1> SUFFICES ASSUME RecordInv, [Next]_bootVars PROVE OneRecord' /\ WholeKeyMatches'
  BY BootInvNext DEF RecordInv
<1> USE DEF RecordInv, OneRecord, WholeKeyMatches
<1>0. build \in PARAM_SETS /\ record.written \in Written
  BY DEF BootInv, TypeOK
<1>1. CASE LoadRecord
  <2>1. record.written # "erased" /\ record.pair \in Pairs
    BY <1>1 DEF LoadRecord, BootInv, TypeOK
  <2>2. CASE LengthsFit
    <3>1. record.pair.param = build
      BY <1>0, <2>1, <2>2 DEF LengthsFit, KnownSizes
    <3>2. [record.pair EXCEPT !.param = build] = record.pair
      BY <2>1, <3>1 DEF Pairs
    <3>3. PubOf \notin {Erased, Cut} => SecOf = PubOf
      BY <2>1, <3>2 DEF SecOf, SecBytes, PubOf
    <3> QED
      BY <1>1, <2>1, <2>2, <3>3 DEF LoadRecord
  <2>3. CASE ~LengthsFit
    BY <1>1, <2>3 DEF LoadRecord
  <2> QED
    BY <2>2, <2>3
<1>2. CASE GenerateRecord
  BY <1>0, <1>2 DEF GenerateRecord, BootInv, TypeOK
<1>3. CASE WriteRecord
  BY <1>3 DEF WriteRecord, BootInv, TypeOK, WritesOwnPair
<1>4. CASE PowerOn \/ GenerateKeypair \/ PowerOff
  BY <1>4 DEF PowerOn, GenerateKeypair, PowerOff
<1>5. ASSUME NEW p \in PARAM_SETS, Reflash(p) PROVE OneRecord' /\ WholeKeyMatches'
  BY <1>5 DEF Reflash
<1>6. CASE UNCHANGED bootVars
  BY <1>6 DEF bootVars
<1> QED
  BY <1>1, <1>2, <1>3, <1>4, <1>5, <1>6 DEF Next

\* With parameter sets told apart by their key sizes, a running token whose public key
\* was written to the end reports the one its signatures verify under, wherever the power
\* failed before (nano-signer/src/bin/main.rs, load_or_generate_keys).
THEOREM WholeKeyAlwaysMatches ==
  ASSUME KnownSizes
  PROVE  Spec => []WholeKeyMatches
<1>1. Init => RecordInv
  BY BootInvInit DEF RecordInv, Init, OneRecord, WholeKeyMatches
<1>2. RecordInv /\ [Next]_bootVars => RecordInv'
  BY RecordInvNext
<1>3. RecordInv => WholeKeyMatches
  BY DEF RecordInv
<1> QED
  BY <1>1, <1>2, <1>3, PTL DEF Spec
=============================================================================
