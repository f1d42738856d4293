---------------------------- MODULE DevRefinement ---------------------------
(***************************************************************************)
(* The provider and dev-signer, seen by the threads that call C_Sign and   *)
(* C_GenerateKeyPair, implement Hsm: however the threads, the mutex, the   *)
(* sessions and a crash of the server interleave.                          *)
(***************************************************************************)
EXTENDS DevSystem

\* An answer to a signature or a key generation.
BearsKey(rsp) == rsp.status = "Ok" /\ rsp.body.kind \in {"sig", "pk"}

\* The operation a thread waits for, and what has come back for it.
OpOf(t) ==
  LET p == ProcOf[t]
      down == IF Uninitialized(p) THEN <<>> ELSE link[state[p].conn].down
      answer == IF down = <<>> \/ ~BearsKey(Head(down)) THEN None ELSE Head(down).body.key
  IN CASE call[t].at = "sign_wait" ->
            [req |-> [cmd |-> "sign", msg |-> call[t].msg], answer |-> answer]
       [] call[t].at = "gen_wait" -> [req |-> [cmd |-> "generate"], answer |-> answer]
       [] OTHER -> None

\* What a return that succeeds hands over: the key of the signature, or the key
\* whose public half the provider reports from now on.
Returned ==
  IF Signed
  THEN [by |-> ret.by, req |-> [cmd |-> "sign", msg |-> ret.out.msg],
        key |-> ret.out.sig.key]
  ELSE IF ret # None /\ ret.op = "C_GenerateKeyPair" /\ ret.rv = "OK"
  THEN [by |-> ret.by, req |-> [cmd |-> "generate"], key |-> state[ProcOf[ret.by]].pk.key]
  ELSE None

\* Connections that a process has left with a key generation nobody has read yet.
Abandoned == {c \in Conns : ~link[c].host /\ \E i \in DOMAIN link[c].up :
                                                link[c].up[i].cmd = "GenerateKeypair"}

Token == INSTANCE Hsm WITH
  Clients <- Threads, Messages <- AllMsgs, Orphans <- Conns,
  key <- IF backend = None THEN None ELSE backend.signing,
  op  <- [t \in Threads |-> OpOf(t)],
  orphans <- Abandoned,
  out <- Returned

\* None is neither an operation nor what an operation returns.
ASSUME NoneIsNoOperation ==
  /\ None \notin [req : Token!Operations, answer : Keys \cup {None}]
  /\ None \notin [by : Threads, op : {"C_Sign"}, rv : {"OK"},
                  out : [s : Sessions, msg : AllMsgs, room : Nat, sig : Signatures]]
  /\ None \notin [by : Threads, op : {"C_GenerateKeyPair"}, rv : {"OK"}, out : {None}]

\* The whole system is one token with one key, used one operation at a time
\* (STATE in pkcs11-provider/src/lib.rs, the accept loop of dev-signer).
ImplementsHsm == Token!Spec
=============================================================================
