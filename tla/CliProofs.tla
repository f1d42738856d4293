------------------------------ MODULE CliProofs ------------------------------
(***************************************************************************)
(* What holds of dev-signer's key files, and of the verdicts of the        *)
(* desktop tool on them, for any set of parameter sets and keys, whatever  *)
(* the points where a process or a command is killed.                      *)
(***************************************************************************)
EXTENDS Cli, FiniteSetTheorems, SequenceTheorems, TLAPS

-----------------------------------------------------------------------------
(* dev-signer's own steps.                                                 *)

WritingAt == {"write_sec", "writing_sec", "write_pub", "writing_pub"}

\* A first boot, and only that, writes key files: a whole pair it has in memory.
WritesOwnPair == pc \in WritingAt => /\ served = None
                                   /\ backend \in [signing : Pairs, public : Pairs]

\* main writes the sec file whole before it turns to the pub file.
SecFirst == pc \in {"write_pub", "writing_pub"} => files.sec = backend.signing

\* Once the token has listened both files are there, and sec is what it signs with.
Provisioned == served # None => files.sec = served /\ files.pub # Absent

BootInv == TypeOK /\ WritesOwnPair /\ SecFirst /\ Provisioned

\* What the start-up keeps holds before the first start.
LEMMA BootInvInit == Init => BootInv
  BY DEF Init, BootInv, TypeOK, Contents, WritesOwnPair, SecFirst, Provisioned, WritingAt

\* Every step of the start-up keeps it.
LEMMA BootInvNext == BootInv /\ [Next]_bootVars => BootInv'
<1> SUFFICES ASSUME BootInv, [Next]_bootVars PROVE BootInv'
  OBVIOUS
<1> USE DEF BootInv, WritesOwnPair, SecFirst, Provisioned, WritingAt, InMemory
<1>1. ASSUME NEW p \in PARAM_SETS, Load(p) PROVE BootInv'
  <2>1. p \in ParamSets
    BY BootAssumption
  <2>2. CASE Loadable(p)
    <3>1. files.sec \in Pairs /\ files.pub \in Pairs \cup {Torn}
      BY <1>1, <2>2 DEF Load, Loadable, Exist, Contents, TypeOK
    <3>2. [files.sec EXCEPT !.param = p] \in Pairs
      BY <2>1, <3>1 DEF Pairs
    <3>3. TypeOK'
      BY <1>1, <2>2, <3>1, <3>2 DEF Load, Loadable, Exist, TypeOK
    <3> QED
      BY <1>1, <2>2, <3>3 DEF Load, Loadable, Exist
  <2>3. CASE ~Loadable(p)
    BY <1>1, <2>3 DEF Load, TypeOK
  <2> QED
    BY <2>2, <2>3
<1>2. ASSUME NEW p \in PARAM_SETS, Generate(p) PROVE BootInv'
  <2>1. p \in ParamSets /\ served = None
    BY <1>2, BootAssumption DEF Generate, Exist, TypeOK, Contents, Pairs, Absent
  <2>2. PICK k \in Keys : backend' = [signing |-> [param |-> p, key |-> k],
                                      public  |-> [param |-> p, key |-> k]]
    BY <1>2 DEF Generate
  <2>3. [param |-> p, key |-> k] \in Pairs
    BY <2>1 DEF Pairs
  <2> QED
    BY <1>2, <2>1, <2>2, <2>3 DEF Generate, TypeOK
<1>3. CASE WriteSec
  BY <1>3 DEF WriteSec, TypeOK, Contents
<1>4. CASE WritePub
  <2>1. CASE pc = "write_pub"
    BY <1>4, <2>1 DEF WritePub, TypeOK, Contents
  <2>2. CASE pc = "writing_pub"
    <3>1. backend \in [signing : Pairs, public : Pairs]
      BY <2>2
    <3>2. backend.public # Absent
      BY <3>1 DEF Pairs, Absent
    <3> QED
      BY <1>4, <2>2, <3>1, <3>2 DEF WritePub, TypeOK, Contents
  <2> QED
    BY <1>4, <2>1, <2>2 DEF WritePub
<1>5. CASE Kill
  BY <1>5 DEF Kill, TypeOK
<1>6. CASE UNCHANGED bootVars
  BY <1>6 DEF bootVars, TypeOK
<1>7. CASE GenerateKeypair
  <2>1. PICK k \in Keys : backend' = [signing |-> [param |-> param, key |-> k],
                                      public  |-> [param |-> param, key |-> k]]
    BY <1>7 DEF GenerateKeypair
  <2>2. [param |-> param, key |-> k] \in Pairs
    BY BootAssumption DEF TypeOK, Pairs
  <2> QED
    BY <1>7, <2>1, <2>2 DEF GenerateKeypair, TypeOK
<1> QED
  BY <1>1, <1>2, <1>3, <1>4, <1>5, <1>6, <1>7 DEF Next

\* A step of dev-signer keeps the key that it has once come up with.
LEMMA ServedNext == BootInv /\ [Next]_bootVars => [served # None => served' = served]_bootVars
<1> SUFFICES ASSUME BootInv, Next, served # None PROVE served' = served
  BY DEF bootVars
<1> USE DEF BootInv, WritesOwnPair, SecFirst, Provisioned, WritingAt, InMemory
<1>1. ASSUME NEW p \in PARAM_SETS, Load(p) \/ Generate(p) PROVE served' = served
  BY <1>1 DEF Load, Generate
<1>2. CASE WriteSec \/ WritePub \/ GenerateKeypair \/ Kill
  BY <1>2 DEF WriteSec, WritePub, GenerateKeypair, Kill
<1> QED
  BY <1>1, <1>2 DEF Next

-----------------------------------------------------------------------------
(* The public key.  A whole one is the right one, unless the process comes *)
(* back with another parameter set of the same key size, which the length  *)
(* check of from_key_files cannot tell.                                    *)

KnownSizes == \A p, q \in PARAM_SETS : public_key_len[p] = public_key_len[q] => p = q

\* The files hold one pair, of a parameter set that a command or a start was given, or
\* the pub file is not there yet.
OnePair ==
  /\ files.sec \in Pairs => files.sec.param \in PARAM_SETS
  /\ files.pub # Absent => files.sec \in Pairs
  /\ files.pub \in Pairs => files.pub = files.sec
  /\ pc \in WritingAt => /\ backend.public = backend.signing
                         /\ backend.signing.param \in PARAM_SETS
                         /\ pc # "writing_pub" => files.pub = Absent

\* A listening token reports the public key of the pair that it signs with, or a pub file
\* that was cut short.
Serves == pc = "listening" => backend.public \in {backend.signing, Torn}

\* Contents of a file are of one kind.
LEMMA ContentsApart == Torn \notin Pairs /\ Absent \notin Pairs /\ Torn # Absent
  BY DEF Torn, Absent, Pairs

\* dev-signer keeps one pair in the files.
LEMMA OnePairNext == BootInv /\ OnePair /\ [Next]_bootVars => OnePair'
<1> SUFFICES ASSUME BootInv, OnePair, [Next]_bootVars PROVE OnePair'
  OBVIOUS
<1> USE ContentsApart DEF OnePair, WritingAt
<1>0. files \in [sec : Contents, pub : Contents]
  BY DEF BootInv, TypeOK
<1>1. ASSUME NEW p \in PARAM_SETS, Load(p) PROVE OnePair'
  BY <1>1 DEF Load
<1>2. ASSUME NEW p \in PARAM_SETS, Generate(p) PROVE OnePair'
  <2>1. files.pub = Absent
    BY <1>2 DEF Generate, Exist
  <2> QED
    BY <1>2, <2>1 DEF Generate
<1>3. CASE WriteSec
  <2>1. backend.signing \in Pairs
    BY <1>3 DEF WriteSec, BootInv, WritesOwnPair
  <2> QED
    BY <1>0, <1>3, <2>1 DEF WriteSec
<1>4. CASE WritePub
  <2>1. backend.signing \in Pairs /\ files.sec = backend.signing
    BY <1>4 DEF WritePub, BootInv, WritesOwnPair, SecFirst
  <2>2. CASE pc = "write_pub"
    BY <1>0, <1>4, <2>1, <2>2 DEF WritePub
  <2>3. CASE pc = "writing_pub"
    <3>1. pc' = "listening" /\ files'.sec = files.sec /\ files'.pub = files.sec
      BY <1>0, <1>4, <2>1, <2>3 DEF WritePub
    <3> QED
      BY <2>1, <2>3, <3>1
  <2> QED
    BY <1>4, <2>2, <2>3 DEF WritePub
<1>5. CASE GenerateKeypair \/ Kill
  BY <1>5 DEF GenerateKeypair, Kill
<1>6. CASE UNCHANGED bootVars
  BY <1>6 DEF bootVars
<1> QED
  BY <1>1, <1>2, <1>3, <1>4, <1>5, <1>6 DEF Next

\* It comes up with the pair in the files, where the length of a key tells its parameter
\* set.
LEMMA StartsFromFiles ==
  ASSUME KnownSizes, BootInv, OnePair, Next, pc # "listening", pc' = "listening"
  PROVE  /\ backend'.signing = files'.sec
         /\ backend'.public \in {files'.sec, Torn}
<1> USE ContentsApart DEF OnePair, WritingAt
<1>0. files \in [sec : Contents, pub : Contents]
  BY DEF BootInv, TypeOK
<1> DEFINE Goal == backend'.signing = files'.sec /\ backend'.public \in {files'.sec, Torn}
<1>1. ASSUME NEW p \in PARAM_SETS, Load(p) PROVE Goal
  <2>1. files.pub # Absent /\ files.sec \in Pairs /\ pc = "off"
    BY <1>1 DEF Load, Exist
  <2>2. files.pub = Torn \/ files.pub = files.sec
    BY <1>0, <2>1 DEF Contents
  <2>3. CASE Loadable(p)
    <3>1. files.sec.param = p
      BY <2>1, <2>3 DEF KnownSizes, Loadable
    <3>2. [files.sec EXCEPT !.param = p] = files.sec
      BY <2>1, <3>1 DEF Pairs
    <3> QED
      BY <1>1, <2>1, <2>2, <2>3, <3>2 DEF Load
  <2>4. CASE ~Loadable(p)
    BY <1>1, <2>4 DEF Load
  <2> QED
    BY <2>3, <2>4
<1>2. ~(\/ \E p \in PARAM_SETS : Generate(p)
        \/ WriteSec \/ GenerateKeypair \/ Kill)
  BY DEF Generate, WriteSec, GenerateKeypair, Kill
<1>3. CASE WritePub
  <2>1. CASE pc = "write_pub"
    BY <1>3, <2>1 DEF WritePub
  <2>2. CASE pc = "writing_pub"
    <3>1. files'.sec = files.sec /\ UNCHANGED backend
      BY <1>0, <1>3, <2>2 DEF WritePub
    <3>2. backend.signing = files.sec /\ backend.public = files.sec
      BY <1>3, <2>2 DEF BootInv, SecFirst
    <3> QED
      BY <3>1, <3>2
  <2> QED
    BY <1>3, <2>1, <2>2 DEF WritePub
<1> QED
  BY <1>1, <1>2, <1>3 DEF Next

\* A pair that it generates later is of one piece too.
LEMMA ServesNext ==
  ASSUME KnownSizes, BootInv, OnePair, Serves, [Next]_bootVars
  PROVE  Serves'
<1>1. CASE Next /\ pc # "listening" /\ pc' = "listening"
  BY <1>1, StartsFromFiles DEF Serves
<1>2. CASE GenerateKeypair
  BY <1>2 DEF GenerateKeypair, Serves
<1>3. CASE Next /\ ~GenerateKeypair /\ pc = "listening"
  BY <1>3 DEF Next, Load, Generate, WriteSec, WritePub, Kill, Serves
<1>4. CASE UNCHANGED bootVars
  BY <1>4 DEF bootVars, Serves
<1> QED
  BY <1>1, <1>2, <1>3, <1>4 DEF Serves

\* Once the pub file holds a public key dev-signer changes neither file.
LEMMA FilesKept ==
  ASSUME BootInv, OnePair, Next, files.pub \in Pairs
  PROVE  UNCHANGED files
<1> USE ContentsApart DEF OnePair, WritingAt
<1>1. Exist /\ files.sec \in Pairs /\ files.pub = files.sec
  BY DEF Exist
<1>2. pc \notin {"write_sec", "writing_sec", "write_pub"}
  OBVIOUS
<1>3. CASE WritePub
  <2>1. /\ pc = "writing_pub" /\ files' = [files EXCEPT !.pub = backend.public]
        /\ backend.public = backend.signing /\ files.sec = backend.signing
    BY <1>2, <1>3 DEF WritePub, BootInv, SecFirst
  <2> QED
    BY <1>1, <2>1 DEF BootInv, TypeOK
<1> QED
  BY <1>1, <1>2, <1>3 DEF Next, Load, Generate, WriteSec, GenerateKeypair, Kill

-----------------------------------------------------------------------------
(* The desktop tool's commands.                                            *)

Half(file) == [file |-> file, bytes |-> Torn]
All(file, bytes) == [file |-> file, bytes |-> bytes]

\* Every pair that is about has been made, and dev-signer holds one.
MadeInv ==
  /\ IsFiniteSet(made) /\ made \subseteq Pairs
  /\ files.sec \in Pairs => files.sec \in made
  /\ files.pub \in Pairs => files.pub \in made
  /\ backend # None => backend.signing \in made /\ backend.public \in made \cup {Torn}

\* Signatures of messages by the pairs made.
Signed == [param : used, by : made, msg : Msgs]

SigInv == sig \in Signed \cup {Absent, Torn}

\* A keygen under way has the files for itself, and its writes make one pair of them.
KeygenRuns(pair) ==
  /\ pair.param \in PARAM_SETS /\ pc = "off" /\ served = None
  /\ \/ /\ files.sec = Absent /\ files.pub = Absent
        /\ \/ cmd = Writing(<<Half("sec"), All("sec", pair)>>)
           \/ cmd = Writing(<<Half("sec"), All("sec", pair), Half("pub"), All("pub", pair)>>)
     \/ /\ files.sec = Torn /\ files.pub = Absent
        /\ \/ cmd = Writing(<<All("sec", pair)>>)
           \/ cmd = Writing(<<All("sec", pair), Half("pub"), All("pub", pair)>>)
     \/ /\ files.sec = pair /\ files.pub = Absent
        /\ cmd = Writing(<<Half("pub"), All("pub", pair)>>)
     \/ /\ files.sec = pair /\ files.pub = Torn
        /\ cmd = Writing(<<All("pub", pair)>>)

SignRuns(s) == \/ cmd = Writing(<<Half("sig"), All("sig", s)>>)
               \/ cmd = Writing(<<All("sig", s)>>)

\* A verify holds the public key of the file, which does not change any more.
VerifyRuns ==
  /\ files.pub \in Pairs
  /\ \E m \in Msgs, p \in used : cmd = [writes |-> <<>>, pub |-> files.pub, msg |-> m, param |-> p]

CmdInv == cmd # None => \/ \E pair \in made : KeygenRuns(pair)
                        \/ \E s \in Signed : SignRuns(s)
                        \/ VerifyRuns

\* A signature found valid is by the pair of the files.
ValidInv == verdict # None /\ verdict.says = "valid" =>
              files.pub \in Pairs /\ verdict.by.by = files.pub

\* One found invalid is by another pair, under another parameter set, or of another
\* message.
InvalidInv ==
  verdict # None /\ verdict.says = "invalid" =>
    /\ verdict.by \in Signed
    /\ \E pub \in made, p \in used :
         ~(/\ pub = verdict.by.by /\ p = pub.param /\ p = verdict.by.param
           /\ verdict.msg = verdict.by.msg)

CliInv == /\ BootInv /\ OnePair /\ MadeInv /\ SigInv /\ CmdInv /\ ValidInv /\ InvalidInv
          /\ used \subseteq PARAM_SETS

\* The invariant holds before anything has been made.
LEMMA CliStart == CliInit => CliInv
<1> SUFFICES ASSUME CliInit PROVE CliInv
  OBVIOUS
<1>1. BootInv /\ OnePair
  BY BootInvInit, ContentsApart DEF CliInit, Init, OnePair, WritingAt
<1>2. MadeInv
  BY FS_EmptySet, ContentsApart DEF CliInit, Init, MadeInv
<1> QED
  BY <1>1, <1>2 DEF CliInit, CliInv, SigInv, CmdInv, ValidInv, InvalidInv

\* What was said of a signature goes on while the pub file keeps a whole key.
LEMMA VerdictStays ==
  ASSUME ValidInv, InvalidInv, UNCHANGED verdict, made \subseteq made', used \subseteq used',
         files.pub \in Pairs => files'.pub = files.pub
  PROVE  ValidInv' /\ InvalidInv' /\ Signed \subseteq Signed'
<1>1. Signed \subseteq Signed'
  BY DEF Signed
<1>2. ValidInv'
  BY DEF ValidInv
<1>3. InvalidInv'
  BY <1>1 DEF InvalidInv
<1> QED
  BY <1>1, <1>2, <1>3

\* A command that only begins changes nothing else.
LEMMA BeginsKeeps ==
  ASSUME CliInv, UNCHANGED <<bootVars, sig, verdict>>, NEW p \in PARAM_SETS, Begins(p),
         made \subseteq made', made' \subseteq Pairs, IsFiniteSet(made')
  PROVE  /\ BootInv' /\ OnePair' /\ MadeInv' /\ SigInv' /\ ValidInv' /\ InvalidInv'
         /\ used' \subseteq PARAM_SETS /\ p \in used' /\ Signed \subseteq Signed'
<1>1. BootInv' /\ OnePair'
  BY BootInvNext, OnePairNext DEF CliInv
<1>2. MadeInv'
  BY DEF CliInv, MadeInv, bootVars
<1>3. used' = used \cup {p}
  BY DEF Begins
<1>4. ValidInv' /\ InvalidInv' /\ Signed \subseteq Signed'
  BY <1>3, VerdictStays DEF CliInv, bootVars
<1>5. SigInv'
  BY <1>4 DEF CliInv, SigInv
<1> QED
  BY <1>1, <1>2, <1>3, <1>4, <1>5 DEF CliInv

\* Two sequences of two.
LEMMA TwoAndTwo ==
  ASSUME NEW a, NEW b, NEW d, NEW e
  PROVE  <<a, b>> \o <<d, e>> = <<a, b, d, e>>
<1> DEFINE S == {a, b, d, e}
           lhs == <<a, b>> \o <<d, e>>
           rhs == <<a, b, d, e>>
<1>1. <<a, b>> \in Seq(S) /\ <<d, e>> \in Seq(S) /\ rhs \in Seq(S)
  OBVIOUS
<1>2. lhs \in Seq(S) /\ Len(lhs) = 4 /\ \A i \in 1 .. 4 :
         lhs[i] = IF i <= 2 THEN <<a, b>>[i] ELSE <<d, e>>[i - 2]
  BY <1>1
<1>3. lhs[1] = a /\ lhs[2] = b /\ lhs[3] = d /\ lhs[4] = e
  BY <1>2
<1>4. Len(rhs) = 4 /\ rhs[1] = a /\ rhs[2] = b /\ rhs[3] = d /\ rhs[4] = e
  OBVIOUS
<1> HIDE DEF lhs, rhs, S
<1>5. \A i \in 1 .. 4 : lhs[i] = rhs[i]
  BY <1>3, <1>4
<1>6. lhs = rhs
  BY <1>1, <1>2, <1>4, <1>5, SeqEqual
<1> QED
  BY <1>6 DEF lhs, rhs

\* keygen starts where there are no files, and no token has listened.
LEMMA KeygenKeeps ==
  ASSUME CliInv, NEW p \in PARAM_SETS, Keygen(p)
  PROVE  CliInv'
<1>1. PICK k \in Keys : LET pair == [param |-> p, key |-> k] IN
        /\ made' = made \cup {pair}
        /\ \/ cmd' = Writing(WriteFile("sec", pair))
           \/ cmd' = Writing(WriteFile("sec", pair) \o WriteFile("pub", pair))
  BY DEF Keygen
<1> DEFINE pair == [param |-> p, key |-> k]
<1>2. pair \in Pairs /\ pair \in made' /\ pair.param = p
  BY <1>1, BootAssumption DEF Pairs
<1>3. IsFiniteSet(made') /\ made \subseteq made' /\ made' \subseteq Pairs
  BY <1>1, <1>2, FS_AddElement DEF CliInv, MadeInv
<1>4. /\ files.sec = Absent /\ pc = "off" /\ UNCHANGED <<bootVars, sig, verdict>> /\ Begins(p)
  BY DEF Keygen
<1>5. served = None /\ files.pub = Absent
  BY <1>4, ContentsApart DEF CliInv, BootInv, Provisioned, OnePair, TypeOK
<1> HIDE DEF pair
<1>6. \/ cmd' = Writing(<<Half("sec"), All("sec", pair)>>)
      \/ cmd' = Writing(<<Half("sec"), All("sec", pair), Half("pub"), All("pub", pair)>>)
  <2>1. WriteFile("sec", pair) = <<Half("sec"), All("sec", pair)>>
        /\ WriteFile("pub", pair) = <<Half("pub"), All("pub", pair)>>
    BY DEF WriteFile, Half, All
  <2> QED
    BY <1>1, <2>1, TwoAndTwo DEF pair
<1>7. KeygenRuns(pair)'
  BY <1>2, <1>4, <1>5, <1>6 DEF KeygenRuns, bootVars
<1> QED
  BY <1>2, <1>3, <1>4, <1>7, BeginsKeeps DEF CliInv, CmdInv

\* sign takes the pair that the sec file holds.
LEMMA SignKeeps ==
  ASSUME CliInv, NEW p \in PARAM_SETS, NEW m \in Msgs, SignMessage(p, m)
  PROVE  CliInv'
<1>0. PICK s : s = [param |-> p, by |-> files.sec, msg |-> m]
  OBVIOUS
<1>1. /\ UNCHANGED <<bootVars, sig, verdict, made>> /\ Begins(p)
      /\ cmd' = Writing(WriteFile("sig", s))
  BY <1>0 DEF SignMessage
<1>2. files.sec \in made
  BY DEF SignMessage, KeyFits, CliInv, BootInv, TypeOK, Contents, MadeInv
<1>3. IsFiniteSet(made) /\ made \subseteq Pairs
  BY DEF CliInv, MadeInv
<1>4. /\ BootInv' /\ OnePair' /\ MadeInv' /\ SigInv' /\ ValidInv' /\ InvalidInv'
      /\ used' \subseteq PARAM_SETS /\ p \in used'
  BY <1>1, <1>3, BeginsKeeps
<1>5. s \in Signed'
  BY <1>0, <1>1, <1>2, <1>4 DEF Signed
<1>6. SignRuns(s)'
  BY <1>1 DEF SignRuns, WriteFile, Half, All
<1> QED
  BY <1>4, <1>5, <1>6 DEF CliInv, CmdInv

\* verify reads the public key, or fails.
LEMMA VerifyKeeps ==
  ASSUME CliInv, NEW p \in PARAM_SETS, NEW m \in Msgs, VerifyMessage(p, m)
  PROVE  CliInv'
<1>1. UNCHANGED <<bootVars, sig, made>> /\ Begins(p) /\ used' = used \cup {p}
  BY DEF VerifyMessage, Begins
<1>2. CASE KeyFits(files.pub, p)
  <2>1. /\ UNCHANGED verdict
        /\ cmd' = [writes |-> <<>>, pub |-> files.pub, msg |-> m, param |-> p]
    BY <1>2 DEF VerifyMessage
  <2>2. IsFiniteSet(made) /\ made \subseteq Pairs
    BY DEF CliInv, MadeInv
  <2>3. /\ BootInv' /\ OnePair' /\ MadeInv' /\ SigInv' /\ ValidInv' /\ InvalidInv'
        /\ used' \subseteq PARAM_SETS /\ p \in used'
    BY <1>1, <2>1, <2>2, BeginsKeeps
  <2>4. files.pub \in Pairs
    BY <1>2 DEF KeyFits, CliInv, BootInv, TypeOK, Contents
  <2>5. VerifyRuns'
    BY <1>1, <2>1, <2>3, <2>4 DEF VerifyRuns, bootVars
  <2> QED
    BY <2>3, <2>5 DEF CliInv, CmdInv
<1>3. CASE ~KeyFits(files.pub, p)
  <2>1. verdict' = [says |-> "error", by |-> None, msg |-> m] /\ cmd' = None
    BY <1>3 DEF VerifyMessage, Says
  <2>2. BootInv' /\ OnePair'
    BY <1>1, BootInvNext, OnePairNext DEF CliInv
  <2>3. MadeInv' /\ SigInv' /\ used' \subseteq PARAM_SETS
    BY <1>1 DEF CliInv, MadeInv, SigInv, Signed, bootVars
  <2> QED
    BY <2>1, <2>2, <2>3 DEF CliInv, CmdInv, ValidInv, InvalidInv
<1> QED
  BY <1>2, <1>3

\* Its verdict is of the public key that it has read.
LEMMA VerdictKeeps ==
  ASSUME CliInv, VerifySignature
  PROVE  CliInv'
<1>1. /\ cmd # None /\ cmd.pub # None /\ UNCHANGED <<bootVars, sig, made, used>>
      /\ \/ ~SigFits(sig, cmd.param) /\ Says("error", None, cmd.msg)
         \/ /\ SigFits(sig, cmd.param) /\ Verified(cmd.param, cmd.pub)
            /\ Says("valid", sig, cmd.msg)
         \/ /\ SigFits(sig, cmd.param) /\ ~Verified(cmd.param, cmd.pub)
            /\ Says("invalid", sig, cmd.msg)
  BY DEF VerifySignature
<1>2. BootInv' /\ OnePair'
  BY <1>1, BootInvNext, OnePairNext DEF CliInv
<1>3. MadeInv' /\ SigInv' /\ used' \subseteq PARAM_SETS /\ CmdInv' /\ Signed' = Signed
  BY <1>1 DEF CliInv, MadeInv, SigInv, Signed, CmdInv, Says, bootVars
<1>4. /\ files.pub \in Pairs /\ files.pub \in made
      /\ \E m \in Msgs, p \in used : cmd = [writes |-> <<>>, pub |-> files.pub, msg |-> m, param |-> p]
  BY <1>1 DEF CliInv, CmdInv, KeygenRuns, SignRuns, Writing, VerifyRuns, MadeInv
<1>5. PICK p \in used : cmd.pub = files.pub /\ cmd.param = p
  BY <1>4
<1>6. SigFits(sig, cmd.param) => sig \in Signed
  BY DEF SigFits, CliInv, SigInv
<1>7. ValidInv' /\ InvalidInv'
  <2>1. CASE Says("error", None, cmd.msg)
    BY <2>1 DEF Says, ValidInv, InvalidInv
  <2>2. CASE /\ SigFits(sig, cmd.param) /\ Verified(cmd.param, cmd.pub)
             /\ Says("valid", sig, cmd.msg)
    <3>1. sig.by = files.pub
      BY <1>5, <2>2 DEF Verified
    <3> QED
      BY <1>1, <1>4, <2>2, <3>1 DEF Says, ValidInv, InvalidInv, bootVars
  <2>3. CASE /\ SigFits(sig, cmd.param) /\ ~Verified(cmd.param, cmd.pub)
             /\ Says("invalid", sig, cmd.msg)
    <3>1. sig \in Signed /\ verdict' = [says |-> "invalid", by |-> sig, msg |-> cmd.msg]
      BY <1>6, <2>3 DEF Says
    <3>2. ~(/\ files.pub = sig.by /\ p = files.pub.param /\ p = sig.param /\ cmd.msg = sig.msg)
      <4> SUFFICES ASSUME files.pub = sig.by, p = files.pub.param, p = sig.param, cmd.msg = sig.msg
                   PROVE  FALSE
        OBVIOUS
      <4>1. files.pub.key \in Keys /\ files.pub = [param |-> p, key |-> files.pub.key]
        BY <1>4 DEF Pairs
      <4>2. sig = [param |-> p, by |-> files.pub, msg |-> cmd.msg]
        BY <3>1 DEF Signed
      <4> QED
        BY <1>5, <2>3, <4>1, <4>2 DEF Verified
    <3> QED
      BY <1>1, <1>3, <1>4, <3>1, <3>2 DEF ValidInv, InvalidInv
  <2> QED
    BY <1>1, <2>1, <2>2, <2>3
<1> QED
  BY <1>1, <1>2, <1>3, <1>7 DEF CliInv

\* What a write of half a file, or of all of it, does to the two key files.
LEMMA FileWritten ==
  ASSUME NEW v \in Contents, files \in [sec : Contents, pub : Contents], NEW f
  PROVE  LET new == [files EXCEPT ![f] = v] IN
         /\ f = "sec" => new \in [sec : Contents, pub : Contents] /\ new.sec = v /\ new.pub = files.pub
         /\ f = "pub" => new \in [sec : Contents, pub : Contents] /\ new.sec = files.sec /\ new.pub = v
<1>1. CASE f = "sec"
  <2>1. [files EXCEPT ![f] = v] = [files EXCEPT !["sec"] = v]
    BY <1>1, Zenon
  <2>2. [files EXCEPT !["sec"] = v] = [files EXCEPT !.sec = v]
    OBVIOUS
  <2> QED
    BY <1>1, <2>1, <2>2
<1>2. CASE f = "pub"
  <2>1. [files EXCEPT ![f] = v] = [files EXCEPT !["pub"] = v]
    BY <1>2, Zenon
  <2>2. [files EXCEPT !["pub"] = v] = [files EXCEPT !.pub = v]
    OBVIOUS
  <2> QED
    BY <1>2, <2>1, <2>2
<1> QED
  BY <1>1, <1>2

\* What the write of a command does.
LEMMA WriteFields ==
  ASSUME NEW w, w # <<>>, cmd = Writing(w), Write
  PROVE  LET next == Head(w) IN
         /\ next.file = "sig" => sig' = next.bytes /\ UNCHANGED files
         /\ next.file # "sig" => UNCHANGED sig
         /\ next.file # "sig" /\ next.bytes \in Contents /\ files \in [sec : Contents, pub : Contents]
            => /\ next.file = "sec" => /\ files' \in [sec : Contents, pub : Contents]
                                       /\ files'.sec = next.bytes /\ files'.pub = files.pub
               /\ next.file = "pub" => /\ files' \in [sec : Contents, pub : Contents]
                                       /\ files'.sec = files.sec /\ files'.pub = next.bytes
         /\ cmd' = IF Tail(w) = <<>> THEN None ELSE Writing(Tail(w))
         /\ UNCHANGED <<pc, param, backend, served, verdict, made, used>>
<1> DEFINE next == Head(w)
<1>1. cmd.writes = w /\ \A rest : [cmd EXCEPT !.writes = rest] = Writing(rest)
  BY DEF Writing
<1>2. ASSUME next.file # "sig", next.bytes \in Contents, files \in [sec : Contents, pub : Contents]
      PROVE  /\ next.file = "sec" => /\ files' \in [sec : Contents, pub : Contents]
                                     /\ files'.sec = next.bytes /\ files'.pub = files.pub
             /\ next.file = "pub" => /\ files' \in [sec : Contents, pub : Contents]
                                     /\ files'.sec = files.sec /\ files'.pub = next.bytes
  <2>1. files' = [files EXCEPT ![next.file] = next.bytes]
    BY <1>1, <1>2 DEF Write
  <2> QED
    BY <1>2, <2>1, FileWritten
<1> QED
  BY <1>1, <1>2 DEF Write

\* A keygen makes the pair's files one after the other.
LEMMA WritePairKeeps ==
  ASSUME CliInv, NEW pair \in made, KeygenRuns(pair), Write
  PROVE  CliInv'
<1>0. /\ files \in [sec : Contents, pub : Contents] /\ pair \in Pairs /\ pc = "off" /\ served = None
      /\ pair.param \in PARAM_SETS /\ Torn \in Contents /\ pair \in Contents
  BY DEF CliInv, BootInv, TypeOK, MadeInv, KeygenRuns, Contents
<1> DEFINE Hs == Half("sec")
           As == All("sec", pair)
           Hp == Half("pub")
           Ap == All("pub", pair)
           Same == UNCHANGED <<pc, param, backend, served, verdict, made, used, sig>>
<1>1. /\ Hs.file = "sec" /\ Hs.bytes = Torn /\ As.file = "sec" /\ As.bytes = pair
      /\ Hp.file = "pub" /\ Hp.bytes = Torn /\ Ap.file = "pub" /\ Ap.bytes = pair
  BY DEF Half, All
<1> HIDE DEF Hs, As, Hp, Ap
<1> DEFINE W1 == <<Hs, As>>
           W2 == <<Hs, As, Hp, Ap>>
           W3 == <<As>>
           W4 == <<As, Hp, Ap>>
           W5 == <<Hp, Ap>>
           W6 == <<Ap>>
<1>2. /\ Head(W1) = Hs /\ Tail(W1) = W3 /\ W1 # <<>> /\ Head(W2) = Hs /\ Tail(W2) = W4 /\ W2 # <<>>
      /\ Head(W3) = As /\ Tail(W3) = <<>> /\ W3 # <<>> /\ Head(W4) = As /\ Tail(W4) = W5 /\ W4 # <<>>
      /\ Head(W5) = Hp /\ Tail(W5) = W6 /\ W5 # <<>> /\ Head(W6) = Ap /\ Tail(W6) = <<>> /\ W6 # <<>>
  OBVIOUS
<1> HIDE DEF W1, W2, W3, W4, W5, W6
<1>3. /\ Same /\ files' \in [sec : Contents, pub : Contents]
      /\ files.pub \in {Absent, Torn}
      /\ \/ /\ files'.sec = Torn /\ files'.pub = Absent
            /\ cmd' \in {Writing(W3), Writing(W4)}
         \/ /\ files'.sec = pair /\ files'.pub = Absent
            /\ cmd' \in {None, Writing(W5)}
         \/ /\ files'.sec = pair /\ files'.pub = Torn
            /\ cmd' = Writing(W6)
         \/ /\ files'.sec = pair /\ files'.pub = pair
            /\ cmd' = None
  <2>1. CASE files.sec = Absent /\ files.pub = Absent /\ cmd = Writing(W1)
    <3>1. cmd' = IF Tail(W1) = <<>> THEN None ELSE Writing(Tail(W1))
      BY <1>2, <2>1, WriteFields
    <3>2. cmd' = Writing(W3)
      BY <1>2, <3>1
    <3> QED
      BY <1>0, <1>1, <1>2, <2>1, <3>2, WriteFields
  <2>2. CASE files.sec = Absent /\ files.pub = Absent /\ cmd = Writing(W2)
    <3>1. cmd' = IF Tail(W2) = <<>> THEN None ELSE Writing(Tail(W2))
      BY <1>2, <2>2, WriteFields
    <3>2. cmd' = Writing(W4)
      BY <1>2, <3>1
    <3> QED
      BY <1>0, <1>1, <1>2, <2>2, <3>2, WriteFields
  <2>3. CASE files.sec = Torn /\ files.pub = Absent /\ cmd = Writing(W3)
    BY <1>0, <1>1, <1>2, <2>3, WriteFields
  <2>4. CASE files.sec = Torn /\ files.pub = Absent /\ cmd = Writing(W4)
    <3>1. cmd' = IF Tail(W4) = <<>> THEN None ELSE Writing(Tail(W4))
      BY <1>2, <2>4, WriteFields
    <3>2. cmd' = Writing(W5)
      BY <1>2, <3>1
    <3> QED
      BY <1>0, <1>1, <1>2, <2>4, <3>2, WriteFields, SMTT(60)
  <2>5. CASE files.sec = pair /\ files.pub = Absent /\ cmd = Writing(W5)
    <3>1. cmd' = IF Tail(W5) = <<>> THEN None ELSE Writing(Tail(W5))
      BY <1>2, <2>5, WriteFields
    <3>2. cmd' = Writing(W6)
      BY <1>2, <3>1
    <3> QED
      BY <1>0, <1>1, <1>2, <2>5, <3>2, WriteFields
  <2>6. CASE files.sec = pair /\ files.pub = Torn /\ cmd = Writing(W6)
    BY <1>0, <1>1, <1>2, <2>6, WriteFields
  <2> QED
    BY <2>1, <2>2, <2>3, <2>4, <2>5, <2>6
       DEF KeygenRuns, Hs, As, Hp, Ap, W1, W2, W3, W4, W5, W6
<1>4. files.pub \notin Pairs /\ (cmd' = None \/ KeygenRuns(pair)')
  BY <1>0, <1>3, ContentsApart DEF KeygenRuns, W3, W4, W5, W6, As, Hp, Ap
<1>5. BootInv'
  BY <1>0, <1>3, <1>4
     DEF CliInv, BootInv, TypeOK, WritesOwnPair, SecFirst, Provisioned, WritingAt
<1>6. OnePair' /\ MadeInv'
  BY <1>0, <1>3, <1>4, ContentsApart DEF CliInv, OnePair, MadeInv, WritingAt
<1>7. ValidInv' /\ InvalidInv' /\ SigInv' /\ used' \subseteq PARAM_SETS
  BY <1>3, <1>4, VerdictStays DEF CliInv, SigInv
<1>8. CmdInv'
  BY <1>3, <1>4 DEF CmdInv
<1> QED
  BY <1>5, <1>6, <1>7, <1>8 DEF CliInv

\* sign writes the signature.
LEMMA WriteSigKeeps ==
  ASSUME CliInv, NEW s \in Signed, SignRuns(s), Write
  PROVE  CliInv'
<1> DEFINE H == Half("sig")
           A == All("sig", s)
<1>1. H.file = "sig" /\ H.bytes = Torn /\ A.file = "sig" /\ A.bytes = s
  BY DEF Half, All
<1> HIDE DEF H, A
<1>2. /\ UNCHANGED <<bootVars, verdict, made, used>> /\ sig' \in {Torn, s}
      /\ cmd' = None \/ cmd' = Writing(<<A>>)
  <2>1. CASE cmd = Writing(<<H, A>>)
    <3>1. Head(<<H, A>>) = H /\ Tail(<<H, A>>) = <<A>> /\ <<A>> # <<>> /\ <<H, A>> # <<>>
      OBVIOUS
    <3> QED
      BY <1>1, <2>1, <3>1, WriteFields DEF bootVars
  <2>2. CASE cmd = Writing(<<A>>)
    <3>1. Head(<<A>>) = A /\ Tail(<<A>>) = <<>> /\ <<A>> # <<>>
      OBVIOUS
    <3> QED
      BY <1>1, <2>2, <3>1, WriteFields DEF bootVars
  <2> QED
    BY <2>1, <2>2 DEF SignRuns, H, A
<1>3. BootInv' /\ OnePair'
  BY <1>2, BootInvNext, OnePairNext DEF CliInv
<1>4. MadeInv' /\ used' \subseteq PARAM_SETS /\ Signed' = Signed
  BY <1>2 DEF CliInv, MadeInv, Signed, bootVars
<1>5. ValidInv' /\ InvalidInv'
  BY <1>2, VerdictStays DEF CliInv, bootVars
<1>6. SigInv' /\ CmdInv'
  BY <1>2, <1>4 DEF CliInv, SigInv, CmdInv, SignRuns, A
<1> QED
  BY <1>3, <1>4, <1>5, <1>6 DEF CliInv

\* A command that is killed leaves what it has written.
LEMMA KillKeeps ==
  ASSUME CliInv, KillCommand
  PROVE  CliInv'
<1>1. cmd' = None /\ UNCHANGED <<bootVars, sig, verdict, made, used>>
  BY DEF KillCommand
<1>2. BootInv' /\ OnePair'
  BY <1>1, BootInvNext, OnePairNext DEF CliInv
<1>3. /\ MadeInv' /\ SigInv' /\ CmdInv' /\ Signed' = Signed /\ used' \subseteq PARAM_SETS
  BY <1>1 DEF CliInv, MadeInv, SigInv, Signed, CmdInv, bootVars
<1>4. ValidInv' /\ InvalidInv'
  BY <1>1, VerdictStays DEF CliInv, bootVars
<1> QED
  BY <1>2, <1>3, <1>4 DEF CliInv

\* dev-signer holds pairs that it has made, or that the files hold.
LEMMA DevSignerMakes ==
  ASSUME CliInv, DevSignerStep, BootInv'
  PROVE  MadeInv' /\ made \subseteq made'
<1> USE ContentsApart
<1>1. Next /\ made' = IF backend' = None THEN made ELSE made \cup {backend'.signing}
  BY DEF DevSignerStep
<1>2. /\ IsFiniteSet(made) /\ made \subseteq Pairs /\ files \in [sec : Contents, pub : Contents]
      /\ backend' \in InMemory \cup {None} /\ BootInv
  BY DEF CliInv, MadeInv, BootInv, TypeOK
<1>3. made \subseteq made' /\ (backend' # None => backend'.signing \in made')
  BY <1>1
<1>4. IsFiniteSet(made') /\ made' \subseteq Pairs
  <2>1. CASE backend' = None
    BY <1>1, <1>2, <2>1
  <2>2. CASE backend' # None
    BY <1>1, <1>2, <2>2, FS_AddElement DEF InMemory
  <2> QED
    BY <2>1, <2>2
<1>5. /\ files'.sec \in Pairs => files'.sec \in made'
      /\ files'.pub \in Pairs => files'.pub \in made'
      /\ backend' # None => backend'.public \in made' \cup {Torn}
  <2>1. ASSUME NEW p \in PARAM_SETS, Load(p) PROVE <1>5
    <3>1. CASE Loadable(p)
      <4>1. backend'.public = files.pub /\ UNCHANGED files /\ files.pub # Absent
        BY <2>1, <3>1 DEF Load, Exist
      <4> QED
        BY <1>2, <1>3, <4>1 DEF CliInv, MadeInv, Contents
    <3>2. CASE ~Loadable(p)
      BY <1>3, <2>1, <3>2 DEF Load, CliInv, MadeInv
    <3> QED
      BY <3>1, <3>2
  <2>2. ASSUME NEW p \in PARAM_SETS, Generate(p) PROVE <1>5
    <3>1. backend'.public = backend'.signing /\ UNCHANGED files
      BY <2>2 DEF Generate
    <3> QED
      BY <1>3, <3>1 DEF CliInv, MadeInv
  <2>3. CASE WriteSec \/ WritePub
    <3>1. /\ pc \in WritingAt /\ UNCHANGED backend
          /\ files'.sec \in {files.sec, Torn, backend.signing}
          /\ files'.pub \in {files.pub, Torn, backend.public}
      BY <1>2, <2>3 DEF WriteSec, WritePub, WritingAt
    <3>2. backend # None
      BY <1>2, <3>1, NoneIsNoPair DEF BootInv, WritesOwnPair, InMemory
    <3> QED
      BY <1>3, <3>1, <3>2 DEF CliInv, MadeInv
  <2>4. CASE Kill
    BY <1>3, <2>4 DEF Kill, CliInv, MadeInv
  <2>5. CASE GenerateKeypair
    <3>1. backend'.public = backend'.signing /\ UNCHANGED files
      BY <2>5 DEF GenerateKeypair
    <3> QED
      BY <1>3, <3>1 DEF CliInv, MadeInv
  <2> QED
    BY <1>1, <2>1, <2>2, <2>3, <2>4, <2>5 DEF Next
<1> QED
  BY <1>3, <1>4, <1>5 DEF MadeInv

\* dev-signer runs beside a sign or a verify, and does not touch the files they need.
LEMMA DevSignerStepKeeps ==
  ASSUME CliInv, DevSignerStep
  PROVE  CliInv'
<1>1. Next /\ UNCHANGED <<cmd, sig, verdict, used>> /\ ~Keygens
  BY DEF DevSignerStep
<1>2. BootInv' /\ OnePair'
  BY <1>1, BootInvNext, OnePairNext DEF CliInv
<1>3. MadeInv' /\ made \subseteq made'
  BY <1>2, DevSignerMakes
<1>4. files.pub \in Pairs => UNCHANGED files
  BY <1>1, FilesKept DEF CliInv
<1>5. ValidInv' /\ InvalidInv' /\ Signed \subseteq Signed'
  BY <1>1, <1>3, <1>4, VerdictStays DEF CliInv
<1>6. SigInv'
  BY <1>1, <1>5 DEF CliInv, SigInv
<1>7. CmdInv'
  <2>1. SUFFICES ASSUME cmd # None
                 PROVE  (\E s \in Signed : SignRuns(s)') \/ VerifyRuns'
    BY <1>1, <1>5 DEF CmdInv
  <2>2. \A pair \in made : ~KeygenRuns(pair)
    <3> SUFFICES ASSUME NEW pair \in made, KeygenRuns(pair) PROVE FALSE
      OBVIOUS
    <3>1. PICK w : cmd = Writing(w) /\ w # <<>> /\ Head(w).file \in {"sec", "pub"}
      BY DEF KeygenRuns, Half, All
    <3> QED
      BY <1>1, <2>1, <3>1 DEF Keygens, Writing
  <2>3. CASE \E s \in Signed : SignRuns(s)
    BY <1>1, <2>3 DEF SignRuns
  <2>4. CASE VerifyRuns
    BY <1>1, <1>4, <2>4 DEF VerifyRuns
  <2> QED
    BY <2>1, <2>2, <2>3, <2>4 DEF CliInv, CmdInv
<1> QED
  BY <1>1, <1>2, <1>3, <1>5, <1>6, <1>7 DEF CliInv

-----------------------------------------------------------------------------
(* The two programs together.                                              *)

\* Every step of either keeps the invariant.
LEMMA CliNextKeeps == CliInv /\ [CliNext]_cliVars => CliInv'
<1> SUFFICES ASSUME CliInv, [CliNext]_cliVars PROVE CliInv'
  OBVIOUS
<1>1. CASE DevSignerStep
  BY <1>1, DevSignerStepKeeps
<1>2. CASE VerifySignature
  BY <1>2, VerdictKeeps
<1>3. CASE Write
  <2>1. cmd # None /\ cmd.writes # <<>>
    BY <1>3 DEF Write
  <2>2. CASE \E pair \in made : KeygenRuns(pair)
    BY <1>3, <2>2, WritePairKeeps
  <2>3. CASE \E s \in Signed : SignRuns(s)
    BY <1>3, <2>3, WriteSigKeeps
  <2>4. ~VerifyRuns
    BY <2>1 DEF VerifyRuns
  <2> QED
    BY <2>1, <2>2, <2>3, <2>4 DEF CliInv, CmdInv
<1>4. CASE KillCommand
  BY <1>4, KillKeeps
<1>5. CASE \E p \in PARAM_SETS : Keygen(p)
  BY <1>5, KeygenKeeps
<1>6. CASE \E p \in PARAM_SETS, m \in Msgs : SignMessage(p, m) \/ VerifyMessage(p, m)
  BY <1>6, SignKeeps, VerifyKeeps
<1>7. CASE UNCHANGED cliVars
  <2>1. UNCHANGED <<bootVars, sig, verdict, made, used, cmd>>
    BY <1>7 DEF cliVars
  <2>2. BootInv' /\ OnePair'
    BY <2>1, BootInvNext, OnePairNext DEF CliInv
  <2>3. MadeInv' /\ SigInv' /\ used' \subseteq PARAM_SETS /\ Signed' = Signed
    BY <2>1 DEF CliInv, MadeInv, SigInv, Signed, bootVars
  <2>4. ValidInv' /\ InvalidInv'
    BY <2>1, VerdictStays DEF CliInv, bootVars
  <2>5. CmdInv'
    <3>1. /\ \A pair \in made : KeygenRuns(pair) => KeygenRuns(pair)'
          /\ \A s \in Signed : SignRuns(s) => SignRuns(s)'
          /\ VerifyRuns => VerifyRuns'
      BY <2>1 DEF KeygenRuns, SignRuns, VerifyRuns, bootVars
    <3> QED
      BY <2>1, <2>3, <3>1 DEF CliInv, CmdInv
  <2> QED
    BY <2>2, <2>3, <2>4, <2>5 DEF CliInv
<1> QED
  BY <1>1, <1>2, <1>3, <1>4, <1>5, <1>6, <1>7 DEF CliNext

\* A command leaves the token alone, and changes key files only where none listens.
LEMMA CommandsLeaveToken ==
  ASSUME CliInv, [CliNext]_cliVars
  PROVE  [Next]_bootVars \/ (UNCHANGED <<served, pc>> /\ pc = "off")
<1>1. CASE Write
  <2>1. UNCHANGED <<pc, param, backend, served>>
    BY <1>1 DEF Write
  <2>2. cmd # None /\ cmd.writes # <<>>
    BY <1>1 DEF Write
  <2>3. CASE \E pair \in made : KeygenRuns(pair)
    BY <2>1, <2>3 DEF KeygenRuns
  <2>4. CASE \E s \in Signed : SignRuns(s)
    <3>1. PICK w : cmd = Writing(w) /\ w # <<>> /\ Head(w).file = "sig"
      BY <2>4 DEF SignRuns, Half, All
    <3>2. UNCHANGED files
      BY <1>1, <3>1, WriteFields
    <3> QED
      BY <2>1, <3>2 DEF bootVars
  <2>5. ~VerifyRuns
    BY <2>2 DEF VerifyRuns
  <2> QED
    BY <2>2, <2>3, <2>4, <2>5 DEF CliInv, CmdInv
<1>2. CASE UNCHANGED bootVars
  BY <1>2
<1> QED
  BY <1>1, <1>2 DEF CliNext, DevSignerStep, VerifySignature, KillCommand, Keygen, SignMessage,
                    VerifyMessage, cliVars

\* What the token reports fits what it signs with, whatever the commands do.
LEMMA ServesKept ==
  ASSUME KnownSizes, CliInv, Serves, [CliNext]_cliVars
  PROVE  Serves'
<1>1. CASE [Next]_bootVars
  BY <1>1, ServesNext DEF CliInv
<1>2. CASE UNCHANGED <<served, pc>> /\ pc = "off"
  BY <1>2 DEF Serves
<1> QED
  BY <1>1, <1>2, CommandsLeaveToken

\* The invariant of the two programs.
LEMMA CliAlways == CliSpec => []CliInv
  BY CliStart, CliNextKeeps, PTL DEF CliSpec

\* And with it, where sizes tell parameter sets apart, what the token serves.
LEMMA ServesAlways == ASSUME KnownSizes PROVE CliSpec => []Serves
<1>1. CliInit => Serves
  BY DEF CliInit, Init, Serves
<1>2. CliInv /\ Serves /\ [CliNext]_cliVars => Serves'
  BY ServesKept
<1> QED
  BY <1>1, <1>2, CliAlways, PTL DEF CliSpec

\* The start-up and its files have their types, also where the desktop tool has written
\* the files (main of dev-signer, keygen of cli).
THEOREM BootTypeCorrect == CliSpec => []TypeOK
  BY CliAlways, PTL DEF CliInv, BootInv

\* The secret key that a start of the token loads or provisions is the one every later
\* start comes up with, wherever it or a command of the desktop tool was killed.
THEOREM KeyNeverChanges == CliSpec => KeyStable
<1>1. CliInv /\ [CliNext]_cliVars => [served # None => served' = served]_bootVars
  <2> SUFFICES ASSUME CliInv, [CliNext]_cliVars
               PROVE  [served # None => served' = served]_bootVars
    OBVIOUS
  <2>1. CASE [Next]_bootVars
    BY <2>1, ServedNext DEF CliInv
  <2>2. CASE UNCHANGED <<served, pc>> /\ pc = "off"
    BY <2>2
  <2> QED
    BY <2>1, <2>2, CommandsLeaveToken
<1> QED
  BY <1>1, CliAlways, PTL DEF CliSpec, KeyStable

\* A listening token reports the public key that its signatures verify under, or a file
\* that was cut short, if no two parameter sets it is started with share a key size.
THEOREM WholeKeyAlwaysMatches == ASSUME KnownSizes PROVE CliSpec => []WholeKeyMatches
<1>1. CliInv /\ Serves => WholeKeyMatches
  BY DEF Serves, WholeKeyMatches
<1> QED
  BY <1>1, CliAlways, ServesAlways, PTL

\* Where sizes tell parameter sets apart, the pair by which verify has found a signature
\* valid is the one that every start of the token comes up with, before the verify or
\* after it, however commands and token were killed.
THEOREM VerifiedPairIsServed == ASSUME KnownSizes PROVE CliSpec => VerifiedPairServes
<1>1. CliInv /\ [CliNext]_cliVars =>
        [verdict' # None /\ verdict'.says = "valid" =>
           /\ served' # None => served' = verdict'.by.by
           /\ pc # "listening" /\ pc' = "listening" => backend'.signing = verdict'.by.by]_cliVars
  <2> DEFINE Starts == pc # "listening" /\ pc' = "listening"
  <2> SUFFICES ASSUME CliInv, CliNext, verdict' # None, verdict'.says = "valid"
               PROVE  /\ served' # None => served' = verdict'.by.by
                      /\ Starts => backend'.signing = verdict'.by.by
    OBVIOUS
  <2>1. CliInv'
    BY CliNextKeeps
  <2>2. files'.sec = verdict'.by.by
    BY <2>1, ContentsApart DEF CliInv, ValidInv, OnePair
  <2>3. served' # None => served' = verdict'.by.by
    BY <2>1, <2>2 DEF CliInv, BootInv, Provisioned
  <2>4. ASSUME Starts PROVE backend'.signing = files'.sec
    <3>1. Next
      BY <2>4, CommandsLeaveToken DEF bootVars
    <3> QED
      BY <2>4, <3>1, StartsFromFiles DEF CliInv
  <2> QED
    BY <2>2, <2>3, <2>4
<1> QED
  BY <1>1, CliAlways, PTL DEF CliSpec, VerifiedPairServes

\* While one pair has been made, and every command was given its --param, a signature is
\* called invalid only for another message.
THEOREM InvalidHasAReason == CliSpec => []InvalidForAReason
<1>1. CliInv => InvalidForAReason
  <2> SUFFICES ASSUME CliInv, verdict # None, verdict.says = "invalid", Cardinality(made) = 1,
                      used = {pair.param : pair \in made}
               PROVE  verdict.msg # verdict.by.msg
    BY DEF InvalidForAReason
  <2>1. PICK pair : made = {pair}
    BY FS_Singleton DEF CliInv, MadeInv
  <2>2. used = {pair.param}
    BY <2>1
  <2>3. verdict.by.by = pair /\ verdict.by.param = pair.param
    BY <2>1, <2>2 DEF CliInv, InvalidInv, Signed
  <2> QED
    BY <2>1, <2>2, <2>3 DEF CliInv, InvalidInv
<1> QED
  BY <1>1, CliAlways, PTL
=============================================================================
