--------------------------------- MODULE Cli ---------------------------------
(***************************************************************************)
(* The desktop tool (cli/src/lib.rs and main.rs) at the key files that a   *)
(* dev-signer starts from: keygen writes them, sign and verify read them,  *)
(* each with a --param of its own.  A command may be killed between any    *)
(* two writes, and dev-signer starts, runs and is killed meanwhile.        *)
(***************************************************************************)
EXTENDS DevSignerBoot, Sequences, FiniteSets

VARIABLES
  cmd,      \* the command that runs: the writes it has still to make, and for a
            \* verify what it has read; None if none runs
  sig,      \* contents of the signature file
  verdict,  \* what the last verify said, and of which files
  made,     \* every key pair made so far
  used      \* every --param a command was given so far

cliVars == <<bootVars, cmd, sig, verdict, made, used>>

Writing(writes) == [writes |-> writes, pub |-> None, msg |-> None, param |-> None]

\* fs::write creates or truncates the file, then fills it.
WriteFile(file, bytes) == <<[file |-> file, bytes |-> Torn], [file |-> file, bytes |-> bytes]>>

\* As it would be if the length of a key were not looked at.
KeyFits_unchecked(file, p) == file # Absent

\* try_from of the keys and of a signature look at the length of the bytes only.
KeyFits(file, p) == file \notin {Absent, Torn} /\ public_key_len[file.param] = public_key_len[p]
SigFits(file, p) == file \notin {Absent, Torn} /\ signature_len_for[file.param] = signature_len_for[p]

Begins(p) == cmd = None /\ used' = used \cup {p}

-----------------------------------------------------------------------------
\* keygen, with --pub-key or without, onto paths without keys, while no dev-signer runs.
Keygen(p) ==
  /\ Begins(p) /\ pc = "off" /\ files.sec = Absent
  /\ \E k \in Keys : LET pair == [param |-> p, key |-> k] IN
       /\ made' = made \cup {pair}
       /\ \/ cmd' = Writing(WriteFile("sec", pair))
          \/ cmd' = Writing(WriteFile("sec", pair) \o WriteFile("pub", pair))
  /\ UNCHANGED <<bootVars, sig, verdict>>

\* The signature is the one that the bytes of the secret key yield under p.
SignMessage(p, m) ==
  /\ Begins(p) /\ KeyFits(files.sec, p)
  /\ cmd' = Writing(WriteFile("sig", [param |-> p, by |-> files.sec, msg |-> m]))
  /\ UNCHANGED <<bootVars, sig, verdict, made>>

Says(answer, by, m) == verdict' = [says |-> answer, by |-> by, msg |-> m] /\ cmd' = None

\* verify_message reads the public key, then the signature.
VerifyMessage(p, m) ==
  /\ Begins(p)
  /\ IF KeyFits(files.pub, p)
     THEN /\ cmd' = [writes |-> <<>>, pub |-> files.pub, msg |-> m, param |-> p]
          /\ UNCHANGED verdict
     ELSE Says("error", None, m)
  /\ UNCHANGED <<bootVars, sig, made>>

Verified(p, pub) ==
  \E k \in Keys : LET pair == [param |-> p, key |-> k] IN
    pub = pair /\ sig = [param |-> p, by |-> pair, msg |-> cmd.msg]

VerifySignature ==
  /\ cmd # None /\ cmd.pub # None
  /\ CASE ~SigFits(sig, cmd.param) -> Says("error", None, cmd.msg)
       [] SigFits(sig, cmd.param) /\ Verified(cmd.param, cmd.pub) -> Says("valid", sig, cmd.msg)
       [] OTHER -> Says("invalid", sig, cmd.msg)
  /\ UNCHANGED <<bootVars, sig, made, used>>

\* The next write of the command that runs.
Write ==
  /\ cmd # None /\ cmd.writes # <<>>
  /\ LET next == Head(cmd.writes) rest == Tail(cmd.writes) IN
       /\ IF next.file = "sig" THEN sig' = next.bytes /\ UNCHANGED files
          ELSE files' = [files EXCEPT ![next.file] = next.bytes] /\ UNCHANGED sig
       /\ cmd' = IF rest = <<>> THEN None ELSE [cmd EXCEPT !.writes = rest]
  /\ UNCHANGED <<pc, param, backend, served, verdict, made, used>>

KillCommand == cmd # None /\ cmd' = None /\ UNCHANGED <<bootVars, sig, verdict, made, used>>

\* dev-signer; it is not started in the middle of a keygen onto its files.
Keygens == cmd # None /\ cmd.writes # <<>> /\ Head(cmd.writes).file # "sig"
DevSignerStep ==
  /\ ~Keygens /\ Next
  /\ made' = IF backend' = None THEN made ELSE made \cup {backend'.signing}
  /\ UNCHANGED <<cmd, sig, verdict, used>>

CliInit == Init /\ cmd = None /\ sig = Absent /\ verdict = None /\ made = {} /\ used = {}

CliNext ==
  \/ DevSignerStep \/ VerifySignature \/ Write \/ KillCommand
  \/ \E p \in PARAM_SETS : \/ Keygen(p)
                           \/ \E m \in Msgs : SignMessage(p, m) \/ VerifyMessage(p, m)

CliSpec == CliInit /\ [][CliNext]_cliVars

-----------------------------------------------------------------------------
\* The pair whose signature verify has found valid is the one that every start of
\* dev-signer comes up with, before that verify or after it, and signs with, under
\* whichever PARAM_SET it is started, however it or keygen was killed (cli/src/lib.rs,
\* generate_keypair_for and verify_message_for; main of dev-signer).  Until it is asked
\* to generate another pair, that is: such a pair reaches no file.
VerifiedPairServes ==
  [][verdict' # None /\ verdict'.says = "valid" =>
       /\ served' # None => served' = verdict'.by.by
       /\ pc # "listening" /\ pc' = "listening" => backend'.signing = verdict'.by.by]_cliVars

\* Where one pair has been made, and every command was given the --param of it, verify
\* never calls a signature of the message invalid: files that are missing or half
\* written are an error, not a verdict (cli/src/lib.rs and its round-trip tests).
InvalidForAReason ==
  verdict # None /\ verdict.says = "invalid" /\ Cardinality(made) = 1
    /\ used = {pair.param : pair \in made}
    => verdict.msg # verdict.by.msg
=============================================================================
