---------------------------- MODULE DevSignerBoot ---------------------------
(***************************************************************************)
(* How dev-signer comes by its key pair (main of dev-signer/src/main.rs):  *)
(* two key files, each written in place, and a process that may be killed  *)
(* or restarted with another PARAM_SET between any two steps.              *)
(***************************************************************************)
EXTENDS TokenCore

CONSTANTS
  PARAM_SETS,  \* the parameter sets it may be started with
  KillsAt      \* the points where the process may be killed

ASSUME BootAssumption == PARAM_SETS \subseteq ParamSets

VARIABLES
  pc,       \* how far main has come; "off": no process
  param,    \* PARAM_SET of this start
  files,    \* contents of the key files: sec and pub
  backend,  \* the pair in memory: the signing key, the public key bytes
  served    \* the secret key this token last came up with, None before that

bootVars == <<pc, param, files, backend, served>>

Absent == [file |-> "absent"]
Torn   == [file |-> "torn"]     \* created or truncated, and not all written

Pairs     == [param : ParamSets, key : Keys]
Contents  == Pairs \cup {Absent, Torn}
InMemory  == [signing : Pairs, public : Pairs \cup {Torn}]

ASSUME NoneIsNoPair == None \notin InMemory

TypeOK ==
  /\ pc \in {"off", "write_sec", "writing_sec", "write_pub", "writing_pub", "listening"}
  /\ param \in PARAM_SETS
  /\ files \in [sec : Contents, pub : Contents]
  /\ backend \in InMemory \cup {None}
  /\ served \in Pairs \cup {None}

Init ==
  /\ pc = "off" /\ param \in PARAM_SETS
  /\ files = [sec |-> Absent, pub |-> Absent]
  /\ backend = None /\ served = None

\* As it would be if one file were enough.
ExistEither == files.sec # Absent \/ files.pub # Absent

Exist == files.sec # Absent /\ files.pub # Absent

\* SigningKey::try_from looks at the length of the bytes only, which some
\* parameter sets share; the public key bytes are not looked at.
Loadable(p) == files.sec # Torn /\ public_key_len[files.sec.param] = public_key_len[p]

\* Both files are there: from_key_files, or a panic.
Load(p) ==
  /\ pc = "off" /\ Exist
  /\ param' = p
  /\ \/ /\ Loadable(p)
        /\ backend' = [signing |-> [files.sec EXCEPT !.param = p], public |-> files.pub]
        /\ pc' = "listening"
        /\ served' = files.sec
     \/ /\ ~Loadable(p)
        /\ UNCHANGED <<pc, backend, served>>
  /\ UNCHANGED files

\* As it would be if each start made a new key pair.
GenerateAlways(p) ==
  /\ pc = "off"
  /\ param' = p
  /\ \E k \in Keys : LET pair == [param |-> p, key |-> k] IN
       backend' = [signing |-> pair, public |-> pair]
  /\ pc' = "write_sec"
  /\ UNCHANGED <<files, served>>

\* One of them is missing: generate, whatever the other one holds.
Generate(p) ==
  /\ pc = "off" /\ ~Exist
  /\ param' = p
  /\ \E k \in Keys : LET pair == [param |-> p, key |-> k] IN
       backend' = [signing |-> pair, public |-> pair]
  /\ pc' = "write_sec"
  /\ UNCHANGED <<files, served>>

\* fs::write creates or truncates the file, then fills it.
WriteSec ==
  \/ /\ pc = "write_sec"
     /\ files' = [files EXCEPT !.sec = Torn]
     /\ pc' = "writing_sec"
     /\ UNCHANGED <<param, backend, served>>
  \/ /\ pc = "writing_sec"
     /\ files' = [files EXCEPT !.sec = backend.signing]
     /\ pc' = "write_pub"
     /\ UNCHANGED <<param, backend, served>>

WritePub ==
  \/ /\ pc = "write_pub"
     /\ files' = [files EXCEPT !.pub = Torn]
     /\ pc' = "writing_pub"
     /\ UNCHANGED <<param, backend, served>>
  \/ /\ pc = "writing_pub"
     /\ files' = [files EXCEPT !.pub = backend.public]
     /\ pc' = "listening"
     /\ served' = backend.signing
     /\ UNCHANGED <<param, backend>>

\* A listening token is asked for another pair: it is in memory only, of the
\* parameter set of this start.
GenerateKeypair ==
  /\ pc = "listening"
  /\ \E k \in Keys : LET pair == [param |-> param, key |-> k] IN
       backend' = [signing |-> pair, public |-> pair]
  /\ UNCHANGED <<pc, param, files, served>>

Kill ==
  /\ pc \in KillsAt
  /\ pc' = "off" /\ backend' = None
  /\ UNCHANGED <<param, files, served>>

Next == \/ WriteSec \/ WritePub \/ GenerateKeypair \/ Kill
        \/ \E p \in PARAM_SETS : Load(p) \/ Generate(p)

Spec == Init /\ [][Next]_bootVars

-----------------------------------------------------------------------------
\* Whoever asks a listening token for its public key gets the one its
\* signatures verify under, or bytes that a kill within the write of pub.key has
\* cut short (the pair loaded or generated in main, or by generate_keypair since).
WholeKeyMatches == pc = "listening" /\ backend.public # Torn
                   => backend.public = backend.signing

\* The secret key that a start of the token loads or provisions is the one it comes up
\* with ever after, wherever the process was killed in between (README: it
\* self-provisions on first boot).  A pair of generate_keypair does not come back.
KeyStable == [][served # None => served' = served]_bootVars
=============================================================================
