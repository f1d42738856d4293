------------------------------ MODULE NanoSystem ----------------------------
(***************************************************************************)
(* Applications that sign through pkcs11-provider with a nano-signer token *)
(* over the serial port, whose reads time out.                             *)
(***************************************************************************)
EXTENDS Provider, NanoSigner

ASSUME OverSerial == Serial = TRUE

vars == <<linkVars, providerVars, nanoVars>>

Init ==
  /\ link = [c \in Conns |-> Unused]
  /\ backlog = <<>>
  /\ listening = FALSE
  /\ ProviderInit
  /\ NanoInit

ProviderStep == ProviderNext /\ UNCHANGED nanoVars

Quietly == ret' = None /\ UNCHANGED <<state, holder, call, panicked>>

NanoStep == (Boot \/ Reset \/ \E c \in Conns : Handle(c)) /\ Quietly

Next == ProviderStep \/ NanoStep

Spec == Init /\ [][Next]_vars

TypeOK == LinkTypeOK /\ ProviderTypeOK /\ NanoTypeOK

-----------------------------------------------------------------------------
\* While the port carries nothing and no thread waits for an answer, the public
\* key cached in STATE is the token's own (c_get_attribute_value answers from
\* the cache alone).
CacheCoherent ==
  \A p \in Procs :
    ~Uninitialized(p) /\ MutexFree(p) =>
      LET ch == link[state[p].conn] IN
      ch.dev = "serving" /\ ch.up = <<>> /\ ch.down = <<>> /\ backend # None
      => state[p].pk = KeyBytes(backend.param, backend.signing)

-----------------------------------------------------------------------------
(* Liveness.  The firmware's loop and the threads inside a C_ function run *)
(* whenever they can; a token that is switched off may stay off.           *)

FairSpec ==
  /\ Spec
  /\ WF_vars((\E c \in Conns : Handle(c)) /\ Quietly)
  /\ \A t \in Threads : WF_vars(Continues(t) /\ UNCHANGED nanoVars)

\* A thread that waits for the token stops waiting, and gives the mutex back if
\* it holds it, whatever the token does: it drops the frame, is reset or stays
\* off (the serial port's timeout, device.rs, connect).
EveryWaitEnds == \A t \in Threads : AwaitingToken(t) ~> ~AwaitingToken(t)
=============================================================================
