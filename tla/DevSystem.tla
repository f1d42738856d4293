------------------------------ MODULE DevSystem -----------------------------
(***************************************************************************)
(* Applications that sign through pkcs11-provider with a dev-signer token  *)
(* over TCP: the provider, the server and the connections between them.    *)
(***************************************************************************)
EXTENDS Provider, DevSigner

ASSUME OverTcp == Serial = FALSE

vars == <<linkVars, providerVars, devVars>>

Init ==
  /\ link = [c \in Conns |-> Unused]
  /\ backlog = <<>>
  /\ listening = FALSE
  /\ ProviderInit
  /\ DevInit

ProviderStep == ProviderNext /\ UNCHANGED devVars

\* A step in which no C_ function moves.
Quietly == ret' = None /\ UNCHANGED <<state, holder, call, panicked>>

DevStep == (Crash \/ DevServes \/ \E p \in PARAM_SETS : Boot(p)) /\ Quietly

Next == ProviderStep \/ DevStep

Spec == Init /\ [][Next]_vars

TypeOK == LinkTypeOK /\ ProviderTypeOK /\ DevTypeOK

-----------------------------------------------------------------------------
(* Safety.                                                                 *)

\* While the server serves a process and none of its threads is waiting for an
\* answer, the public key and parameter set cached in STATE are the token's own
\* (c_get_attribute_value answers from the cache alone).
CacheCoherent ==
  \A p \in Procs :
    /\ ~Uninitialized(p) /\ MutexFree(p)
    /\ link[state[p].conn].dev = "serving"
    => /\ state[p].param = backend.param
       /\ state[p].pk = KeyBytes(backend.param, backend.signing)

\* C_GenerateKeyPair that returns CKR_OK has replaced the key: the cached public
\* key is a new one, and it is the one the token signs with from now on.
KeyReplaced ==
  [][ret' # None /\ ret'.op = "C_GenerateKeyPair" /\ ret'.rv = "OK"
     => LET p == ProcOf[ret'.by] IN
        /\ state'[p].pk # state[p].pk
        /\ link[state[p].conn].dev = "serving" =>
             state'[p].pk = KeyBytes(backend.param, backend.signing)]_vars

=============================================================================
