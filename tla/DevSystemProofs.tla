--------------------------- MODULE DevSystemProofs --------------------------
(***************************************************************************)
(* DevSystem, the provider over TCP with dev-signer, keeps the pairing of  *)
(* requests with answers and of caches with keys, and what follows of it.  *)
(*                                                                         *)
(* It implements Hsm, for any number of processes, threads, connections    *)
(* and keys: every step of the provider and of dev-signer is a step of the *)
(* token with one key, or no step of it.                                   *)
(*                                                                         *)
(* Its applications: ObjectSearch gets of the objects what it asks for,    *)
(* and the files of Tools are as current as what the clients knew of the   *)
(* token's key when they wrote them.                                       *)
(***************************************************************************)
EXTENDS DevRefinement, ObjectSearch, Tools, ProviderProofs

\* Over TCP no read times out.
LEMMA PromptOverTcp == Prompt
  BY OverTcp DEF Prompt

-----------------------------------------------------------------------------
(* The types.                                                              *)

\* At the start everything is typed, and nothing is under way.
LEMMA DevStart == Init => TypeOK /\ IndInv
<1> SUFFICES ASSUME Init PROVE TypeOK /\ IndInv
  OBVIOUS
<1>1. AtRest
  BY DEF Init, DevInit, AtRest
<1>2. DevTypeOK
  BY DEF Init, DevInit, DevTypeOK
<1> QED
  BY <1>1, <1>2, RestPairing DEF TypeOK, Typed

\* A start of dev-signer loads a key pair of the parameter set, or makes one.
LEMMA BootBackend ==
  ASSUME TypeOK, NEW p \in PARAM_SETS, Boot(p)
  PROVE  /\ backend = None /\ backend' \in Backends /\ backend'.signing = backend'.public
         /\ disk' \in [PARAM_SETS -> Keys \cup {None}]
         /\ listening' = TRUE /\ UNCHANGED <<link, backlog>>
<1>1. disk \in [PARAM_SETS -> Keys \cup {None}]
  BY DEF TypeOK, DevTypeOK
<1>2. PICK k \in Keys : /\ disk' = [disk EXCEPT ![p] = k]
                       /\ backend' = [param |-> p, signing |-> k, public |-> k]
  BY <1>1, TokenAssumption DEF Boot
<1>3. p \in ParamSets
  BY DevSignerAssumption
<1> QED
  BY <1>1, <1>2, <1>3 DEF Boot, Backends

\* The accept loop takes the connection that has waited longest.
LEMMA AcceptFields ==
  ASSUME Typed, ServerInv, Accept
  PROVE  LET c == Head(backlog) IN
         /\ c \in Conns /\ backlog # <<>> /\ c = backlog[1]
         /\ link[c].dev = "queued" /\ link[c].down = <<>> /\ link[c] \in Channels
         /\ link'[c] = [link[c] EXCEPT !.dev = "serving"]
         /\ \A d \in Conns : d # c => link'[d] = link[d]
         /\ link' \in [Conns -> Channels] /\ backlog' = Tail(backlog)
         /\ backlog' \in Seq(Conns)
         /\ UNCHANGED <<listening, backend, disk>> /\ backend # None
<1> DEFINE c == Head(backlog)
<1>1. /\ link \in [Conns -> Channels] /\ backlog \in Seq(Conns) /\ backlog # <<>>
      /\ link' = [link EXCEPT ![c].dev = "serving"] /\ backlog' = Tail(backlog)
      /\ UNCHANGED <<listening, backend, disk>> /\ backend # None
  BY DEF Accept, Typed, LinkTypeOK, devVars
<1>2. c = backlog[1] /\ c \in Conns /\ 1 \in 1 .. Len(backlog) /\ Tail(backlog) \in Seq(Conns)
  BY <1>1
<1>3. link[c].dev = "queued" /\ link[c].down = <<>>
  BY <1>2 DEF ServerInv
<1>4. [link[c] EXCEPT !.dev = "serving"] \in Channels
  BY <1>1, <1>2, ChannelTypes
<1> QED
  BY <1>1, <1>2, <1>3, <1>4

\* The end of a connection whose client has gone.
LEMMA HangupFields ==
  ASSUME Typed, NEW c \in Conns, Hangup(c)
  PROVE  /\ link' = [link EXCEPT ![c] = [link[c] EXCEPT !.dev = "closed"]]
         /\ link' \in [Conns -> Channels] /\ link[c].dev = "serving"
         /\ link'[c].dev = "closed" /\ link'[c].up = <<>> /\ link[c].up = <<>>
         /\ link'[c].down = link[c].down /\ link'[c].host = link[c].host
         /\ \A d \in Conns : d # c => link'[d] = link[d]
         /\ UNCHANGED <<backlog, listening, backend, disk>>
<1>1. link \in [Conns -> Channels] /\ link[c] \in Channels
      /\ [link[c] EXCEPT !.dev = "closed"] \in Channels
  BY ChannelTypes DEF Typed, LinkTypeOK
<1>2. /\ link' = [link EXCEPT ![c] = [link[c] EXCEPT !.dev = "closed"]]
      /\ UNCHANGED <<backlog, listening, backend, disk>>
      /\ link[c].dev = "serving" /\ link[c].up = <<>>
  BY DEF Hangup, devVars
<1> QED
  BY <1>1, <1>2 DEF Channels

\* A crash closes every connection and loses the requests nobody has read.
LEMMA CrashFields ==
  ASSUME Typed, Crash
  PROVE  /\ link' \in [Conns -> Channels] /\ backlog' = <<>> /\ backlog' \in Seq(Conns)
         /\ listening' = FALSE /\ backend' = None /\ UNCHANGED disk
         /\ \A d \in Conns : /\ link'[d].dev = "closed" /\ link'[d].up = <<>>
                             /\ link'[d].down \in {link[d].down, <<>>}
                             /\ link'[d].host = link[d].host
<1>1. link \in [Conns -> Channels]
  BY DEF Typed, LinkTypeOK
<1>2. PICK keep \in BOOLEAN : link' = [d \in Conns |-> TokenDies(link[d], keep)]
  BY DEF Crash
<1>3. \A d \in Conns : TokenDies(link[d], keep) \in Channels
  BY <1>1, ChannelTypes
<1>4. <<>> \in Seq(Conns)
  OBVIOUS
<1> QED
  BY <1>1, <1>2, <1>3, <1>4, DieFields DEF Crash

\* The steps of dev-signer that take no turn of handle_connection.
ServerMoves == Crash \/ Accept \/ (\E p \in PARAM_SETS : Boot(p)) \/ \E c \in Conns : Hangup(c)

\* They keep the types.
LEMMA ServerMovesType ==
  ASSUME TypeOK, ServerInv, ServerMoves, Quietly
  PROVE  TypeOK'
<1>0. Typed /\ disk \in [PARAM_SETS -> Keys \cup {None}] /\ backend \in Backends \cup {None}
      /\ link \in [Conns -> Channels] /\ backlog \in Seq(Conns) /\ listening \in BOOLEAN
  BY DEF TypeOK, Typed, LinkTypeOK, DevTypeOK
<1>1. ProviderTypeOK'
  BY DEF Quietly, TypeOK, ProviderTypeOK
<1>2. SUFFICES /\ link' \in [Conns -> Channels] /\ backlog' \in Seq(Conns) /\ listening' \in BOOLEAN
               /\ backend' \in Backends \cup {None} /\ disk' \in [PARAM_SETS -> Keys \cup {None}]
  BY <1>1 DEF TypeOK, LinkTypeOK, DevTypeOK
<1> QED
  BY <1>0, BootBackend, AcceptFields, HangupFields, CrashFields DEF ServerMoves

-----------------------------------------------------------------------------
(* The server's own part of the invariant.                                 *)

\* The accept loop keeps it.
LEMMA ServerAccept ==
  ASSUME Typed, ServerInv, Accept
  PROVE  ServerInv'
<1> USE DEF ServerInv, Serving
<1> DEFINE c == Head(backlog)
<1>0. /\ backlog \in Seq(Conns) /\ backlog # <<>> /\ backlog' = Tail(backlog)
      /\ \A d \in Conns : link[d].dev # "serving"
      /\ UNCHANGED <<listening, backend>> /\ backend # None
  BY DEF Accept, Typed, LinkTypeOK, ServingNow, devVars
<1>1. /\ c = backlog[1] /\ c \in Conns /\ Len(backlog) \in Nat /\ Len(backlog) >= 1
      /\ Len(Tail(backlog)) = Len(backlog) - 1
      /\ \A i \in 1 .. Len(Tail(backlog)) : Tail(backlog)[i] = backlog[i + 1]
      /\ \A i \in 1 .. Len(backlog) : backlog[i] \in Conns
  BY <1>0
<1>2. /\ link'[c].dev = "serving" /\ link'[c].up = link[c].up
      /\ \A d \in Conns : d # c => link'[d] = link[d]
  BY AcceptFields DEF Channels
<1>3. \A i \in 1 .. Len(backlog') : /\ backlog'[i] = backlog[i + 1] /\ i + 1 \in 1 .. Len(backlog)
                                   /\ backlog'[i] # c
  BY <1>0, <1>1
<1>4. \A i \in 1 .. Len(backlog') : link'[backlog'[i]].dev = "queued"
  BY <1>1, <1>2, <1>3
<1>5. \A i, j \in 1 .. Len(backlog') : backlog'[i] = backlog'[j] => i = j
  <2>1. \A i, j \in 1 .. Len(backlog') : backlog'[i] = backlog'[j] => i + 1 = j + 1
    BY <1>3
  <2> QED
    BY <2>1
<1> HIDE DEF c
<1> QED
  BY <1>0, <1>1, <1>2, <1>4, <1>5

\* So do a start, a crash and a hang-up.
LEMMA ServerRest ==
  ASSUME TypeOK, ServerInv, Crash \/ (\E p \in PARAM_SETS : Boot(p)) \/ \E c \in Conns : Hangup(c)
  PROVE  ServerInv'
<1> USE DEF ServerInv, Serving
<1>0. Typed /\ \A i \in 1 .. Len(backlog) : backlog[i] \in Conns
  BY DEF TypeOK, Typed, LinkTypeOK
<1>1. CASE Crash
  <2>1. Len(backlog') = 0
    BY <1>0, <1>1, CrashFields
  <2> QED
    BY <1>0, <1>1, <2>1, CrashFields
<1>2. ASSUME NEW p \in PARAM_SETS, Boot(p) PROVE ServerInv'
  BY <1>0, <1>2, BootBackend, NoneIsNoBackend
<1>3. ASSUME NEW c \in Conns, Hangup(c) PROVE ServerInv'
  BY <1>0, <1>3, HangupFields
<1> QED
  BY <1>1, <1>2, <1>3

\* These steps at most take frames away, and open or close no client's end.
LEMMA ServerSteady ==
  ASSUME TypeOK, ServerInv, ServerMoves
  PROVE  \A d \in Conns : Steady(d) /\ link'[d].host = link[d].host
<1>0. Typed
  BY DEF TypeOK, Typed
<1>1. CASE Crash
  BY <1>0, <1>1, CrashFields DEF Steady
<1>2. CASE Accept
  <2> DEFINE c == Head(backlog)
  <2>1. /\ c \in Conns /\ link[c].dev = "queued" /\ link[c].down = <<>> /\ UNCHANGED backend
        /\ link'[c].up = link[c].up /\ link'[c].down = link[c].down /\ link'[c].dev = "serving"
        /\ link'[c].host = link[c].host
        /\ \A d \in Conns : d # c => link'[d] = link[d]
    BY <1>0, <1>2, AcceptFields DEF Channels
  <2> HIDE DEF c
  <2> QED
    BY <2>1 DEF Steady, Serving
<1>3. ASSUME NEW p \in PARAM_SETS, Boot(p)
      PROVE  \A d \in Conns : Steady(d) /\ link'[d].host = link[d].host
  BY <1>3 DEF Boot, Steady, ServerInv
<1>4. ASSUME NEW c \in Conns, Hangup(c)
      PROVE  \A d \in Conns : Steady(d) /\ link'[d].host = link[d].host
  BY <1>0, <1>4, HangupFields DEF Steady, Serving
<1> QED
  BY <1>1, <1>2, <1>3, <1>4 DEF ServerMoves

-----------------------------------------------------------------------------
(* The invariant is inductive.                                             *)

\* Every step keeps the types and the invariant.
LEMMA PairingNext == TypeOK /\ IndInv /\ [Next]_vars => TypeOK' /\ IndInv'
<1> SUFFICES ASSUME TypeOK, IndInv, [Next]_vars PROVE TypeOK' /\ IndInv'
  OBVIOUS
<1>0. Typed /\ DevTypeOK /\ (Typed' /\ DevTypeOK' => TypeOK')
  BY DEF TypeOK, Typed
<1>1. CASE ProviderStep
  <2>1. UNCHANGED backend /\ DevTypeOK'
    BY <1>0, <1>1 DEF ProviderStep, devVars, DevTypeOK
  <2> QED
    BY <1>0, <1>1, <2>1, ProviderPairing, PromptOverTcp DEF ProviderStep
<1>2. ASSUME NEW c \in Conns, Handle(c), Quietly PROVE TypeOK' /\ IndInv'
  <2>1. DevTypeOK' /\ TakesTurn(c) /\ UNCHANGED <<state, holder, call, panicked>>
    BY <1>0, <1>2 DEF Handle, Quietly, DevTypeOK
  <2> QED
    BY <1>0, <2>1, TurnPairing, DevSignerAssumption
<1>3. CASE ServerMoves /\ Quietly
  <2>1. TypeOK'
    BY <1>3, ServerMovesType DEF IndInv
  <2>2. ServerInv'
    BY <1>0, <1>3, ServerAccept, ServerRest DEF IndInv, ServerMoves
  <2>3. PortInv'
    BY OverTcp DEF PortInv
  <2>4. UNCHANGED <<state, holder, call>>
    BY <1>3 DEF Quietly
  <2>5. \A d \in Conns : Steady(d) /\ link'[d].host = link[d].host
    BY <1>3, ServerSteady DEF IndInv
  <2> QED
    BY <1>0, <2>1, <2>2, <2>3, <2>4, <2>5, SteadyPairing
<1>4. CASE UNCHANGED vars
  BY <1>0, <1>4, StutterPairing DEF vars, linkVars, providerVars, devVars, DevTypeOK
<1> QED
  BY <1>1, <1>2, <1>3, <1>4 DEF Next, DevStep, DevServes, ServerMoves

\* Requests and answers stay paired, and caches agree with keys, in every reachable
\* state (request in pkcs11-provider/src/device.rs, the accept loop of
\* dev-signer/src/main.rs).
THEOREM PairingHolds == Spec => []IndInv
<1> QED
  BY DevStart, PairingNext, PTL DEF Spec

\* Every reachable state is well typed (Provider, Link and DevSigner together).
THEOREM TypeCorrect == Spec => []TypeOK
<1> QED
  BY DevStart, PairingNext, PTL DEF Spec

\* No connection ever carries two frames at once (device.rs, request).
THEOREM OneRequestAtATime == Spec => []OneOutstanding
<1>1. IndInv => OneOutstanding
  BY DEF IndInv
<1> QED
  BY <1>1, PairingHolds, PTL

\* While dev-signer serves a process that waits for nothing, the public key that
\* C_GetAttributeValue reports is the token's (attributes.rs, lib.rs).
THEOREM CacheIsCoherent == Spec => []CacheCoherent
<1>1. IndInv => CacheCoherent
  <2> SUFFICES ASSUME IndInv, NEW p \in Procs, ~Uninitialized(p), MutexFree(p),
                      link[state[p].conn].dev = "serving"
               PROVE  /\ state[p].param = backend.param
                      /\ state[p].pk = KeyBytes(backend.param, backend.signing)
    BY DEF CacheCoherent
  <2>1. Caches(p) /\ ~NewKeyUnderWay(p)
    BY DEF IndInv, KnowledgeInv, NewKeyUnderWay, MutexFree
  <2> QED
    BY <2>1 DEF Caches, Uninitialized, Serving, TokenKey, KeyBytes
<1> QED
  BY <1>1, PairingHolds, PTL

-----------------------------------------------------------------------------
(* What C_Sign hands out.                                                  *)

\* Every signature that C_Sign returns verifies under the public key the provider
\* reports (c_sign in pkcs11-provider/src/lib.rs).
THEOREM EverySignatureVerifies == Spec => []SignatureVerifies
<1>1. Init => SignatureVerifies
  BY DEF Init, ProviderInit, SignatureVerifies, Signed
<1>2. TypeOK /\ IndInv /\ SignatureVerifies /\ [Next]_vars => SignatureVerifies'
  <2> SUFFICES ASSUME TypeOK, IndInv, SignatureVerifies, [Next]_vars PROVE SignatureVerifies'
    OBVIOUS
  <2>1. CASE ProviderStep
    BY <2>1, SignatureProvider DEF ProviderStep, TypeOK, Typed
  <2>2. CASE DevStep
    BY <2>2 DEF DevStep, Quietly, SignatureVerifies, Signed
  <2>3. CASE UNCHANGED vars
    BY <2>3 DEF vars, providerVars, SignatureVerifies, Signed
  <2> QED
    BY <2>1, <2>2, <2>3 DEF Next
<1> QED
  BY <1>1, <1>2, TypeCorrect, PairingHolds, PTL DEF Spec

\* C_Sign never writes past the caller's buffer (c_sign, the length check and the
\* copy in pkcs11-provider/src/lib.rs).
THEOREM BufferIsNeverOverrun == Spec => []NeverOverrunsBuffer
<1>1. Init => RoomInv /\ NeverOverrunsBuffer
  BY DEF Init, ProviderInit, RoomInv, Idle, NeverOverrunsBuffer, Signed
<1>2. TypeOK /\ RoomInv /\ NeverOverrunsBuffer /\ [Next]_vars => RoomInv' /\ NeverOverrunsBuffer'
  <2> SUFFICES ASSUME TypeOK, RoomInv, NeverOverrunsBuffer, [Next]_vars
               PROVE  RoomInv' /\ NeverOverrunsBuffer'
    OBVIOUS
  <2>1. CASE ProviderStep
    BY <2>1, RoomProvider, BufferProvider DEF ProviderStep, TypeOK, Typed
  <2>2. CASE DevStep
    BY <2>2 DEF DevStep, Quietly, RoomInv, NeverOverrunsBuffer, Signed
  <2>3. CASE UNCHANGED vars
    BY <2>3 DEF vars, providerVars, RoomInv, NeverOverrunsBuffer, Signed
  <2> QED
    BY <2>1, <2>2, <2>3 DEF Next
<1> QED
  BY <1>1, <1>2, TypeCorrect, PTL DEF Spec

-----------------------------------------------------------------------------
(* Applications that keep to the rules of PKCS#11.                         *)

\* The sessions of a careful application stay what C_Sign has seen them to be.
LEMMA SessionsHold ==
  ASSUME Careful
  PROVE  TypeOK /\ IndInv /\ SessionInv /\ [Next]_vars => SessionInv' /\ UNCHANGED panicked
<1> SUFFICES ASSUME TypeOK, IndInv, SessionInv, [Next]_vars
             PROVE  SessionInv' /\ UNCHANGED panicked
  OBVIOUS
<1>1. CASE ProviderStep
  <2>1. ExchangeTypeOK /\ ProviderTypeOK
    BY ExchangesTyped DEF IndInv, TypeOK, Typed
  <2> QED
    BY <1>1, <2>1, SessionNext DEF ProviderStep
<1>2. CASE UNCHANGED <<state, holder, call, panicked>>
  BY <1>2 DEF SessionInv, ApartInv, SigningInv, StartInv, NumbersInv, Signs, Uses, Uninitialized,
              HasSession, Handshaking, Peers
<1> QED
  BY <1>1, <1>2 DEF Next, DevStep, Quietly, vars, providerVars

\* No panic aborts an application that calls on a session from one thread at a time
\* (the expect of c_sign, pkcs11-provider/src/lib.rs).
THEOREM CarefulNeverPanics == Careful => (Spec => []NoPanic)
<1> SUFFICES ASSUME Careful PROVE Spec => []NoPanic
  OBVIOUS
<1>1. Init => SessionInv /\ NoPanic
  BY SessionStart DEF Init, ProviderInit, NoPanic
<1>2. TypeOK /\ IndInv /\ SessionInv /\ NoPanic /\ [Next]_vars => SessionInv' /\ NoPanic'
  BY SessionsHold DEF NoPanic
<1> QED
  BY <1>1, <1>2, TypeCorrect, PairingHolds, PTL DEF Spec

\* And its sessions sign once for each C_SignInit (sign_active in c_sign).
THEOREM CarefulSignsOnce == Careful => (Spec => OneSignaturePerInit)
<1> SUFFICES ASSUME Careful PROVE Spec => OneSignaturePerInit
  OBVIOUS
<1>1. Init => SessionInv
  BY SessionStart DEF Init
<1>2. TypeOK /\ IndInv /\ SessionInv /\ [Next]_vars => SessionInv'
  BY SessionsHold
<1>3. TypeOK /\ IndInv /\ SessionInv /\ [Next]_vars => [OneSignature]_providerVars
  <2> SUFFICES ASSUME TypeOK, IndInv, SessionInv, [Next]_vars
               PROVE  OneSignature \/ UNCHANGED providerVars
    OBVIOUS
  <2>1. CASE ProviderStep
    BY <2>1, OneSignatureProvider DEF ProviderStep, IndInv, TypeOK, Typed
  <2>2. CASE DevStep
    BY <2>2 DEF DevStep, Quietly, OneSignature, Signed
  <2>3. CASE UNCHANGED vars
    BY <2>3 DEF vars, providerVars
  <2> QED
    BY <2>1, <2>2, <2>3 DEF Next
<1> QED
  BY <1>1, <1>2, <1>3, TypeCorrect, PairingHolds, PTL DEF Spec, OneSignaturePerInit, OneSignature

-----------------------------------------------------------------------------
(* The token with one key.                                                 *)

\* The token's key, as Hsm has it.
KeyNow == IF backend = None THEN None ELSE backend.signing

HasGenerate(ch) == \E i \in DOMAIN ch.up : ch.up[i].cmd = "GenerateKeypair"

-----------------------------------------------------------------------------
(* The steps of Hsm in the terms of DevSystem.                             *)

\* A step that Hsm does not see, but for the return that is over.
LEMMA MapForget ==
  ASSUME Returned' = None, KeyNow' = KeyNow, \A t \in Threads : OpOf(t)' = OpOf(t),
         Abandoned' = Abandoned
  PROVE  Token!Next
  BY DEF Token!Next, Token!Forget, KeyNow

\* An operation is asked for.
LEMMA MapAsk ==
  ASSUME NEW t \in Threads, NEW o \in Token!Operations,
         OpOf(t) = None, OpOf(t)' = [req |-> o, answer |-> None],
         \A u \in Threads : u # t => OpOf(u)' = OpOf(u),
         Returned' = None, KeyNow' = KeyNow, Abandoned' = Abandoned
  PROVE  Token!Next
<1>1. Token!Ask(t)
  BY DEF Token!Ask, Token!Asked, KeyNow
<1> QED
  BY <1>1 DEF Token!Next

\* An operation takes effect.
LEMMA MapServe ==
  ASSUME NEW t \in Threads, OpOf(t) # None, OpOf(t).answer = None,
         KeyNow # None,
         \/ OpOf(t).req # Token!GenerateOp /\ KeyNow' = KeyNow
         \/ OpOf(t).req = Token!GenerateOp /\ KeyNow' \in Keys \ {KeyNow},
         OpOf(t)' = [req |-> OpOf(t).req, answer |-> KeyNow'],
         \A u \in Threads : u # t => OpOf(u)' = OpOf(u),
         Returned' = None, Abandoned' = Abandoned
  PROVE  Token!Next
<1>1. Token!Serve(t)
  BY DEF Token!Serve, Token!Answered, KeyNow
<1> QED
  BY <1>1 DEF Token!Next

\* An operation returns what it did.
LEMMA MapReturn ==
  ASSUME NEW t \in Threads, OpOf(t) # None, OpOf(t).answer # None, OpOf(t)' = None,
         Returned' = [by |-> t, req |-> OpOf(t).req, key |-> OpOf(t).answer],
         \A u \in Threads : u # t => OpOf(u)' = OpOf(u),
         KeyNow' = KeyNow, Abandoned' = Abandoned
  PROVE  Token!Next
<1>1. Token!Return(t)
  BY DEF Token!Return, KeyNow
<1> QED
  BY <1>1 DEF Token!Next

\* An operation fails.
LEMMA MapFail ==
  ASSUME NEW t \in Threads, OpOf(t) # None, OpOf(t)' = None, Returned' = None,
         \A u \in Threads : u # t => OpOf(u)' = OpOf(u),
         KeyNow' = KeyNow, Abandoned' = Abandoned
  PROVE  Token!Next
<1>1. Token!Fail(t)
  BY DEF Token!Fail, KeyNow
<1> QED
  BY <1>1 DEF Token!Next

\* A client goes and leaves its key generation on connection c.
LEMMA MapAbandon ==
  ASSUME NEW t \in Threads, NEW c \in Conns, OpOf(t) = [req |-> Token!GenerateOp, answer |-> None],
         OpOf(t)' = None, \A u \in Threads : u # t => OpOf(u)' = OpOf(u),
         c \notin Abandoned, Abandoned' = Abandoned \cup {c},
         Returned' = None, KeyNow' = KeyNow
  PROVE  Token!Next
<1>1. Token!Abandon(t)
  BY DEF Token!Abandon, Token!Asked, KeyNow
<1> QED
  BY <1>1 DEF Token!Next

\* The token takes up the key generation of a client that has gone.
LEMMA MapServeOrphan ==
  ASSUME NEW c \in Abandoned, Abandoned' = Abandoned \ {c},
         KeyNow # None, KeyNow' \in Keys \ {KeyNow},
         \A u \in Threads : OpOf(u)' = OpOf(u), Returned' = None
  PROVE  Token!Next
<1>1. Token!ServeOrphan
  BY DEF Token!ServeOrphan, KeyNow
<1> QED
  BY <1>1 DEF Token!Next

\* The token starts or stops.
LEMMA MapRestart ==
  ASSUME (KeyNow = None) # (KeyNow' = None), KeyNow' \in Keys \cup {None},
         NEW lost \in SUBSET Threads,
         \A t \in Threads : OpOf(t)' = IF t \in lost /\ OpOf(t) # None
                                       THEN [req |-> OpOf(t).req, answer |-> None] ELSE OpOf(t),
         Abandoned' = {}, Returned' = None
  PROVE  Token!Next
<1>1. Token!Restart
  BY DEF Token!Restart, Token!Asked, KeyNow
<1> QED
  BY <1>1 DEF Token!Next

-----------------------------------------------------------------------------
(* What IndInv leaves out, for it does not matter to the provider: whose   *)
(* an open connection is, what a closed one may still carry, and that a    *)
(* generated key is another one.                                           *)

Owned(c) == \/ \E p \in Procs : state[p] # None /\ state[p].conn = c
            \/ \E t \in Threads : Handshaking(t) /\ call[t].conn = c

Renewed(t) == LET p == ProcOf[t]
                  c == state[p].conn
              IN call[t].at = "gen_wait" /\ link[c].down # <<>> /\ Response(c).status = "Ok"
                 => Response(c).body # state[p].pk

OwnedInv   == \A c \in Conns : link[c].host => Owned(c)
ShortInv   == \A c \in Conns : Len(link[c].up) <= 1
RenewedInv == \A t \in Threads : Renewed(t)

\* A step that leaves the call of thread u alone, and what it waits for.
Undisturbed(u) ==
  /\ call'[u] = call[u]
  /\ InExchange(u) => SameCore(ProcOf[u]) /\ link'[ConnOf(u)].down = link[ConnOf(u)].down

\* A step that leaves the answer that thread u waits for, in C_Initialize as well.
KeepsAnswer(u) == Placed(u) => link'[ConnOf(u)].down = link[ConnOf(u)].down

\* A step that leaves a closed connection alone, and closes one only if it carries no
\* key generation.
Tidy(c) ==
  /\ link'[c].host => Owned(c)' /\ (link[c].host \/ link[c].up = <<>>)
  /\ ~link'[c].host => link'[c].up = link[c].up /\ (link[c].host => ~HasGenerate(link[c]))

-----------------------------------------------------------------------------
(* What a step leaves of the operations.                                   *)

\* A thread that waits for nothing has no operation.
LEMMA NoOp ==
  ASSUME NEW t
  PROVE  /\ ~InExchange(t) => OpOf(t) = None /\ Renewed(t)
         /\ ~InExchange(t)' => OpOf(t)' = None /\ Renewed(t)'
  BY DEF InExchange, OpOf, Renewed

\* A thread left alone has the operation it had.
LEMMA UndisturbedOp ==
  ASSUME NEW u, Undisturbed(u)
  PROVE  OpOf(u)' = OpOf(u) /\ (Renewed(u) => Renewed(u)')
<1>1. CASE ~InExchange(u)
  <2>1. ~InExchange(u)'
    BY <1>1 DEF Undisturbed, InExchange
  <2> QED
    BY <1>1, <2>1, NoOp
<1>2. CASE InExchange(u)
  <2> DEFINE p == ProcOf[u]
             c == state[p].conn
  <2>1. /\ call'[u] = call[u] /\ state'[p].conn = c /\ state'[p].pk = state[p].pk
        /\ state[p] # None /\ state'[p] # None /\ ConnOf(u) = c
        /\ link'[c].down = link[c].down
    BY <1>2 DEF Undisturbed, SameCore, ConnOf, InExchange, Handshaking
  <2> HIDE DEF c
  <2>2. OpOf(u)' = OpOf(u)
    BY <2>1 DEF OpOf, Uninitialized, c
  <2>3. Renewed(u) => Renewed(u)'
    BY <2>1 DEF Renewed, Response, c
  <2> QED
    BY <2>2, <2>3
<1> QED
  BY <1>1, <1>2

\* A step elsewhere leaves a thread alone.
LEMMA ElsewhereUndisturbed ==
  ASSUME Typed, MutexInv, OwnerInv, NEW t \in Threads, NEW P, NEW c,
         Elsewhere(t, P, c), Alone(t, P, c)
  PROVE  \A u \in Threads : u # t => Undisturbed(u) /\ KeepsAnswer(u)
<1> SUFFICES ASSUME NEW u \in Threads, u # t PROVE Undisturbed(u) /\ KeepsAnswer(u)
  OBVIOUS
<1>1. call'[u] = call[u]
  BY DEF Elsewhere
<1>2. ASSUME Placed(u) PROVE link'[ConnOf(u)] = link[ConnOf(u)]
  <2>1. ConnOf(u) \in Conns /\ ConnOf(u) # c
    BY <1>2, ConnsApart DEF Alone
  <2> QED
    BY <2>1 DEF Elsewhere
<1>3. ASSUME InExchange(u) PROVE SameCore(ProcOf[u])
  <2>1. ProcOf[u] \in Procs /\ state[ProcOf[u]] # None /\ ProcOf[u] \notin P
    BY <1>3, ExchangeFields DEF Alone, Uninitialized
  <2> QED
    BY <2>1 DEF Elsewhere, KeepsCore
<1> QED
  BY <1>1, <1>2, <1>3 DEF Undisturbed, KeepsAnswer, Placed

\* So does a C_ function that returns at once.
LEMMA LooksUndisturbed ==
  ASSUME Typed, MutexInv, Looks
  PROVE  \A u \in Threads : Undisturbed(u) /\ KeepsAnswer(u)
<1> SUFFICES ASSUME NEW u \in Threads PROVE Undisturbed(u) /\ KeepsAnswer(u)
  OBVIOUS
<1>1. InExchange(u) => ProcOf[u] \in Procs /\ state[ProcOf[u]] # None
  BY ExchangeFields DEF Uninitialized
<1> QED
  BY <1>1 DEF Looks, SameCores, SameCore, Undisturbed, KeepsAnswer, linkVars

\* A step of one thread leaves the others alone.
LEMMA OthersUndisturbed ==
  ASSUME Typed, MutexInv, OwnerInv, NEW t \in Threads, ThreadKinds(t)
  PROVE  \A u \in Threads : u # t => Undisturbed(u) /\ KeepsAnswer(u)
<1> DEFINE p == ProcOf[t]
<1>0. /\ call \in [Threads -> Places] /\ link \in [Conns -> Channels] /\ p \in Procs
      /\ state \in [Procs -> ProviderState \cup {None}] /\ holder \in [Procs -> Threads \cup {None}]
  BY ProviderAssumption DEF Typed, ProviderTypeOK, LinkTypeOK
<1>1. CASE Turns(t)
  <2>1. \A u \in Threads : u # t => call'[u] = call[u]
    BY <1>0, <1>1 DEF Turns
  <2>2. \A u \in Threads : InExchange(u) => state[ProcOf[u]] # None
    BY ExchangeFields DEF Uninitialized
  <2> QED
    BY <1>1, <2>1, <2>2 DEF Turns, Undisturbed, KeepsAnswer, SameCore, linkVars
<1>2. CASE Dials(t)
  <2>1. PICK c \in Conns : Fresh(t, c)
    BY <1>2, DialFields
  <2>2. ~link[c].host /\ ~Placed(t) /\ \A q \in Procs : holder[q] # t
    BY <1>2, <2>1, ProviderAssumption
       DEF Fresh, Dials, Placed, Handshaking, InExchange, MutexInv
  <2>3. Alone(t, {}, c)
    BY <2>2, ConnsApart DEF Alone, OwnerInv
  <2>4. Elsewhere(t, {}, c)
    BY <1>0, <1>2, <2>1 DEF Dials, Fresh, Elsewhere, KeepsCore, SameCore
  <2> QED
    BY <2>3, <2>4, ElsewhereUndisturbed
<1>3. CASE Sends(t) \/ Finishes(t) \/ GenerateReply(t)
  <2>1. state[p] # None /\ (InExchange(t) \/ (holder[p] = None /\ ~Placed(t)))
    BY <1>3, ExchangeFields
       DEF Sends, Finishes, GenerateReply, InExchange, Placed, Handshaking, Uninitialized
  <2>2. Alone(t, {p}, state[p].conn)
    BY <2>1, StateAlone
  <2>3. Elsewhere(t, {p}, state[p].conn)
    <3>1. CASE Sends(t)
      BY <1>0, <3>1 DEF Sends, Elsewhere, KeepsCore, SameCore
    <3>2. CASE Finishes(t)
      BY <1>0, <3>2 DEF Finishes, TakeFrom, SameCores, Elsewhere, KeepsCore, SameCore
    <3>3. CASE GenerateReply(t)
      BY <1>0, <3>3 DEF GenerateReply, TakeFrom, Goes, Release, Elsewhere, KeepsCore, SameCore
    <3> QED
      BY <1>3, <3>1, <3>2, <3>3
  <2> QED
    BY <2>2, <2>3, ElsewhereUndisturbed
<1>4. CASE InfoReply(t) \/ PublicKeyReply(t) \/ HandshakeFails(t)
  <2>1. Handshaking(t)
    BY <1>4 DEF InfoReply, PublicKeyReply, HandshakeFails, Handshaking
  <2>2. Alone(t, {}, call[t].conn)
    BY <2>1, HandshakeAlone
  <2>3. Elsewhere(t, {}, call[t].conn)
    BY <1>0, <1>4 DEF InfoReply, PublicKeyReply, HandshakeFails, Goes, TakeFrom, Elsewhere,
                      KeepsCore, SameCore
  <2> QED
    BY <2>2, <2>3, ElsewhereUndisturbed
<1>5. CASE Store(t) \/ Finalize(t)
  <2>1. ~InExchange(t) /\ holder[p] = None /\ DropState(p) /\ UNCHANGED holder
    BY <1>5 DEF Store, Finalize, Enters, InExchange, Idle, MutexFree
  <2>2. /\ \A u \in Threads : u # t => call'[u] = call[u]
        /\ \A q \in Procs : q # p => state'[q] = state[q]
    BY <1>0, <1>5 DEF Store, Finalize, Goes
  <2>3. ASSUME NEW u \in Threads, u # t, InExchange(u) PROVE SameCore(ProcOf[u])
    <3>1. ProcOf[u] # p /\ ProcOf[u] \in Procs /\ state[ProcOf[u]] # None
      BY <2>1, <2>3, ExchangeFields, ProviderAssumption DEF Uninitialized
    <3> QED
      BY <2>2, <3>1 DEF SameCore
  <2>4. ASSUME NEW u \in Threads, u # t, Placed(u) PROVE link'[ConnOf(u)] = link[ConnOf(u)]
    <3>1. ConnOf(u) \in Conns
      BY <2>4, ConnsApart
    <3>2. CASE state[p] = None
      BY <2>1, <3>2 DEF DropState, Uninitialized
    <3>3. CASE state[p] # None
      BY <2>1, <2>4, <3>1, <3>3, DroppedAlone
    <3> QED
      BY <3>2, <3>3
  <2> QED
    BY <2>2, <2>3, <2>4 DEF Undisturbed, KeepsAnswer, Placed
<1> QED
  BY <1>1, <1>2, <1>3, <1>4, <1>5 DEF ThreadKinds

\* The end of a process leaves the threads of the others alone.
LEMMA LeavingUndisturbed ==
  ASSUME Typed, MutexInv, OwnerInv, NEW p \in Procs, Leaving(p)
  PROVE  \A u \in Threads : ProcOf[u] # p => Undisturbed(u) /\ KeepsAnswer(u)
<1> SUFFICES ASSUME NEW u \in Threads, ProcOf[u] # p PROVE Undisturbed(u) /\ KeepsAnswer(u)
  OBVIOUS
<1>0. state \in [Procs -> ProviderState \cup {None}]
  BY DEF Typed, ProviderTypeOK
<1>1. call'[u] = call[u]
  BY DEF Leaving
<1>2. ASSUME InExchange(u) PROVE SameCore(ProcOf[u])
  <2>1. ProcOf[u] \in Procs /\ state[ProcOf[u]] # None
    BY <1>2, ExchangeFields DEF Uninitialized
  <2> QED
    BY <1>0, <2>1 DEF Leaving, SameCore
<1>3. ASSUME Placed(u) PROVE link'[ConnOf(u)] = link[ConnOf(u)]
  <2>1. ConnOf(u) \in Conns
    BY <1>3, ConnsApart
  <2>2. state[p] # None => ConnOf(u) # state[p].conn
    BY <1>3, ConnsApart
  <2>3. \A w \in Threads : ProcOf[w] = p /\ Handshaking(w) => ConnOf(u) # call[w].conn
    BY <1>3, ConnsApart DEF Placed, ConnOf
  <2>4. ConnOf(u) \notin Mine(p)
    BY <2>2, <2>3 DEF Mine
  <2> QED
    BY <2>1, <2>4, LeaveFields
<1> QED
  BY <1>1, <1>2, <1>3 DEF Undisturbed, KeepsAnswer, Placed

-----------------------------------------------------------------------------
(* What a step of a thread leaves of the connections.                      *)

\* Whoever owns a connection goes on owning it.
OwnersStay ==
  /\ \A p \in Procs : state[p] # None => state'[p] # None /\ state'[p].conn = state[p].conn
  /\ \A u \in Threads : Handshaking(u) => Handshaking(u)' /\ call'[u].conn = call[u].conn

\* A connection that is as open as it was is tidy while it has an owner.
LEMMA KeptTidy ==
  ASSUME OwnedInv, NEW d \in Conns, link'[d].host = link[d].host,
         link[d].host \/ link'[d].up = link[d].up,
         Owned(d) => Owned(d)'
  PROVE  Tidy(d)
  BY DEF Tidy, OwnedInv

\* Owners that stay keep their connections.
LEMMA StayingOwns ==
  ASSUME OwnersStay, NEW d, Owned(d)
  PROVE  Owned(d)'
<1>1. CASE \E p \in Procs : state[p] # None /\ state[p].conn = d
  BY <1>1 DEF OwnersStay, Owned
<1>2. CASE \E t \in Threads : Handshaking(t) /\ call[t].conn = d
  BY <1>2 DEF OwnersStay, Owned
<1> QED
  BY <1>1, <1>2 DEF Owned

\* Most steps leave every owner what it has.
LEMMA MostStay ==
  ASSUME Typed, MutexInv, NEW t \in Threads,
         \/ Turns(t) \/ Dials(t) \/ Sends(t) \/ Finishes(t)
         \/ InfoReply(t) \/ PublicKeyReply(t) \/ GenerateReply(t)
  PROVE  OwnersStay
<1>0. call \in [Threads -> Places] /\ state \in [Procs -> ProviderState \cup {None}]
  BY DEF Typed, ProviderTypeOK
<1>1. CASE Turns(t) \/ Dials(t) \/ Sends(t) \/ Finishes(t)
  <2>1. ~Handshaking(t) /\ \A u \in Threads : u # t => call'[u] = call[u]
    BY <1>0, <1>1 DEF Turns, Dials, Sends, Finishes, Handshaking, InExchange
  <2>2. SameCores
    BY <1>1, SameStateCores DEF Turns, Dials, Sends, Finishes
  <2> QED
    BY <2>1, <2>2 DEF OwnersStay, SameCores, Handshaking
<1>2. CASE InfoReply(t) \/ PublicKeyReply(t)
  <2>1. /\ UNCHANGED state /\ \A u \in Threads : u # t => call'[u] = call[u]
        /\ call'[t].at \in {"get_public_key", "store"} /\ call'[t].conn = call[t].conn
    BY <1>0, <1>2 DEF InfoReply, PublicKeyReply, Goes
  <2> QED
    BY <2>1 DEF OwnersStay, Handshaking
<1>3. CASE GenerateReply(t)
  <2> DEFINE p == ProcOf[t]
             body == Response(state[p].conn).body
  <2>1. /\ InExchange(t) /\ Arrived(state[p].conn)
        /\ state' = [state EXCEPT ![p] = [@ EXCEPT !.pk = body]]
        /\ call' = [call EXCEPT ![t] = Idle]
    BY <1>3 DEF GenerateReply, InExchange, Goes
  <2>2. p \in Procs /\ state[p] \in ProviderState /\ body \in Payloads
    BY <1>0, <2>1, ExchangeFields DEF Uninitialized, Responses
  <2>3. ~Handshaking(t)
    BY <2>1 DEF InExchange, Handshaking
  <2> HIDE DEF body
  <2>4. [state[p] EXCEPT !.pk = body] \in ProviderState
        /\ [state[p] EXCEPT !.pk = body].conn = state[p].conn
    BY <2>2 DEF ProviderState
  <2>5. state'[p] # None /\ state'[p].conn = state[p].conn
    BY <1>0, <2>1, <2>2, <2>4, NoneIsNoState
  <2> QED
    BY <1>0, <2>1, <2>3, <2>5 DEF OwnersStay, Handshaking
<1> QED
  BY <1>1, <1>2, <1>3

\* The server's end of a request or an answer is not the host's: a channel that is
\* written or read stays as open as it was.
LEMMA OpenStays ==
  ASSUME Typed, NEW c \in Conns, link[c].host, NEW ch \in Channels, ch.host = TRUE,
         link' = [link EXCEPT ![c] = ch]
  PROVE  \A d \in Conns : link'[d].host = link[d].host /\ (link[d].host \/ link'[d].up = link[d].up)
  BY DEF Typed, LinkTypeOK, Channels

\* Steps on a connection that stays open are tidy.
LEMMA OpenTidy ==
  ASSUME Typed, MutexInv, OwnerInv, ServerInv, OwnedInv, NEW t \in Threads,
         \/ Turns(t) \/ Dials(t) \/ Sends(t) \/ Finishes(t)
         \/ InfoReply(t) \/ PublicKeyReply(t) \/ GenerateReply(t)
  PROVE  \A d \in Conns : Tidy(d)
<1>0. link \in [Conns -> Channels] /\ OwnersStay /\ \A d : Owned(d) => Owned(d)'
  BY MostStay, StayingOwns DEF Typed, LinkTypeOK
<1>1. ASSUME UNCHANGED link PROVE \A d \in Conns : Tidy(d)
  BY <1>0, <1>1, KeptTidy
<1>2. ASSUME NEW c \in Conns, link[c].host, NEW ch \in Channels, ch.host = link[c].host,
             link' = [link EXCEPT ![c] = ch]
      PROVE  \A d \in Conns : Tidy(d)
  <2>1. link[c].host = TRUE
    BY <1>0, <1>2 DEF Channels
  <2> QED
    BY <1>0, <1>2, <2>1, OpenStays, KeptTidy
<1>3. CASE Turns(t)
  BY <1>1, <1>3 DEF Turns, linkVars
<1>4. CASE Dials(t)
  <2>1. PICK c \in Conns : Fresh(t, c)
    BY <1>4, DialFields
  <2>2. link'[c].host /\ link[c].up = <<>> /\ \A d \in Conns : d # c => link'[d] = link[d]
    BY <2>1, OverTcp DEF Fresh, ServerInv
  <2>3. call'[t].at = "get_info" /\ call'[t].conn = c
    BY <2>1 DEF Fresh, Typed, ProviderTypeOK
  <2>4. Owned(c)'
    BY <2>3 DEF Owned, Handshaking
  <2>5. Tidy(c)
    BY <2>2, <2>4 DEF Tidy
  <2>6. \A d \in Conns : d # c => Tidy(d)
    BY <1>0, <2>2, KeptTidy
  <2> QED
    BY <2>5, <2>6
<1>5. CASE Sends(t)
  <2> DEFINE c == state[ProcOf[t]].conn
  <2>1. c \in Conns /\ link[c] \in Channels /\ link[c].host
    BY <1>0, <1>5, ProviderAssumption DEF Sends, OwnerInv, Typed, ProviderTypeOK, ProviderState
  <2>2. PICK req \in Requests : link' = [link EXCEPT ![c] = HostSends(link[c], req)]
    BY <1>5 DEF Sends
  <2> HIDE DEF c
  <2>3. HostSends(link[c], req) \in Channels /\ HostSends(link[c], req).host = link[c].host
    BY <2>1, ChannelTypes, SendFields
  <2> QED
    BY <1>2, <2>1, <2>2, <2>3
<1>6. CASE Finishes(t) \/ GenerateReply(t)
  <2> DEFINE c == state[ProcOf[t]].conn
  <2>1. InExchange(t)
    BY <1>6 DEF Finishes, GenerateReply, InExchange
  <2>2. c \in Conns /\ link[c] \in Channels /\ link[c].host
        /\ (Arrived(c) => HostReads(link[c]) \in Channels)
    BY <2>1, ExchangeFields DEF Uninitialized, OwnerInv
  <2>3. UNCHANGED link \/ (Arrived(c) /\ link' = [link EXCEPT ![c] = HostReads(link[c])])
    BY <1>6 DEF Finishes, GenerateReply, TakeFrom
  <2> HIDE DEF c
  <2> QED
    BY <1>1, <1>2, <2>2, <2>3, ReadFields
<1>7. CASE InfoReply(t) \/ PublicKeyReply(t)
  <2> DEFINE c == call[t].conn
  <2>1. Handshaking(t) /\ Arrived(c)
    BY <1>7 DEF InfoReply, PublicKeyReply, Handshaking
  <2>2. c \in Conns /\ link[c] \in Channels /\ link[c].host /\ HostReads(link[c]) \in Channels
    BY <1>0, <2>1, HandshakeAlone, ChannelTypes DEF OwnerInv, Arrived
  <2>3. \/ link' = [link EXCEPT ![c] = HostReads(link[c])]
        \/ link' = [link EXCEPT ![c] = HostSends(HostReads(link[c]), GetPublicKeyReq)]
    BY <1>7 DEF InfoReply, PublicKeyReply, TakeFrom
  <2> HIDE DEF c
  <2>4. HostReads(link[c]).host = link[c].host
    BY <2>2, ReadFields
  <2>5. GetPublicKeyReq \in Requests
    BY RequestTypes
  <2>6. /\ HostSends(HostReads(link[c]), GetPublicKeyReq) \in Channels
        /\ HostSends(HostReads(link[c]), GetPublicKeyReq).host = link[c].host
    <3> DEFINE ch == HostReads(link[c])
    <3> HIDE DEF ch
    <3>1. ch \in Channels /\ ch.host = link[c].host
      BY <2>2, <2>4 DEF ch
    <3>2. HostSends(ch, GetPublicKeyReq) \in Channels /\ HostSends(ch, GetPublicKeyReq).host = ch.host
      BY <2>5, <3>1, SendFields, ChannelTypes
    <3> QED
      BY <3>1, <3>2 DEF ch
  <2> QED
    BY <1>2, <2>2, <2>3, <2>4, <2>6
<1> QED
  BY <1>3, <1>4, <1>5, <1>6, <1>7

\* The requests of a handshake generate no key.
LEMMA HandshakeAsks ==
  ASSUME Typed, MutexInv, OwnerInv, TrafficInv, NEW t \in Threads,
         call[t].at \in {"get_info", "get_public_key"}
  PROVE  ~HasGenerate(link[call[t].conn])
<1> DEFINE ch == link[call[t].conn]
<1>1. ConnOf(t) = call[t].conn /\ Waits(t) /\ AwaitingToken(t)
  BY DEF ConnOf, Handshaking, TrafficInv, AwaitingToken
<1>2. ch.up = <<>> \/ ch.up = <<GetInfoReq>> \/ ch.up = <<GetPublicKeyReq>>
  BY <1>1 DEF Waits, Asked
<1>3. GetInfoReq.cmd # "GenerateKeypair" /\ GetPublicKeyReq.cmd # "GenerateKeypair"
  BY DEF GetInfoReq, GetPublicKeyReq, Request
<1> HIDE DEF ch
<1>4. \A i \in DOMAIN ch.up : ch.up[i].cmd # "GenerateKeypair"
  BY <1>2, <1>3
<1> QED
  BY <1>4 DEF HasGenerate, ch

\* A handshake that fails is tidy.
LEMMA FailTidy ==
  ASSUME Typed, MutexInv, OwnerInv, TrafficInv, OwnedInv, NEW t \in Threads, HandshakeFails(t)
  PROVE  \A d \in Conns : Tidy(d)
<1> DEFINE c == call[t].conn
           read == IF Arrived(c) THEN HostReads(link[c]) ELSE link[c]
<1>0. /\ link \in [Conns -> Channels] /\ call \in [Threads -> Places] /\ UNCHANGED state
      /\ Handshaking(t) /\ call[t].at \in {"get_info", "get_public_key"}
      /\ link' = [link EXCEPT ![c] = HostCloses(read)] /\ call' = [call EXCEPT ![t] = Idle]
  BY DEF HandshakeFails, Typed, LinkTypeOK, ProviderTypeOK, Handshaking, Goes
<1>1. c \in Conns /\ link[c] \in Channels
  BY <1>0, HandshakeAlone
<1>2. read \in Channels /\ read.up = link[c].up
  BY <1>1, ChannelTypes, ReadFields DEF Arrived
<1>3. ~HasGenerate(link[c])
  BY <1>0, HandshakeAsks
<1> HIDE DEF c, read
<1>4. link'[c].host = FALSE /\ link'[c].up = link[c].up
  <2>1. link'[c] = HostCloses(read)
    BY <1>0, <1>1
  <2> QED
    BY <1>2, <2>1, CloseFields
<1>5. ASSUME NEW d \in Conns, d # c PROVE Tidy(d)
  <2>1. link'[d] = link[d]
    BY <1>0, <1>5
  <2>2. \A u \in Threads : Handshaking(u) /\ call[u].conn = d => u # t /\ call'[u] = call[u]
    BY <1>0, <1>5 DEF c
  <2>3. Owned(d) => Owned(d)'
    BY <1>0, <2>2 DEF Owned, Handshaking
  <2> QED
    BY <2>1, <2>3, KeptTidy
<1> QED
  BY <1>3, <1>4, <1>5 DEF Tidy

\* Replacing or clearing STATE is tidy.
LEMMA DropTidy ==
  ASSUME Typed, Typed', MutexInv, OwnerInv, KnowledgeInv, OwnedInv, NEW t \in Threads,
         Store(t) \/ Finalize(t)
  PROVE  \A d \in Conns : Tidy(d)
<1> DEFINE p == ProcOf[t]
           e == state[p].conn
<1>0. /\ link \in [Conns -> Channels] /\ call \in [Threads -> Places] /\ p \in Procs
      /\ state \in [Procs -> ProviderState \cup {None}]
      /\ holder[p] = None /\ DropState(p) /\ ~InExchange(t)
      /\ \A q \in Procs : q # p => state'[q] = state[q]
      /\ \A u \in Threads : u # t => call'[u] = call[u]
  BY ProviderAssumption
     DEF Store, Finalize, Typed, LinkTypeOK, ProviderTypeOK, MutexFree, Enters, InExchange, Idle,
         Goes
<1>1. ASSUME Handshaking(t) PROVE state'[p] # None /\ state'[p].conn = call[t].conn
  <2>1. Store(t)
    BY <1>1 DEF Finalize, Enters, Idle, Handshaking
  <2>2. /\ state'[p] = NewState(call[t].conn, call[t].param, call[t].pk)
        /\ call[t].conn \in Conns /\ call[t].param \in ParamSets /\ call[t].pk \in Payloads
    BY <1>0, <2>1, PlaceFields DEF Store
  <2>3. state'[p] \in ProviderState
    BY <2>2, ProviderAssumption DEF NewState, ProviderState, Sessions
  <2> QED
    BY <2>2, <2>3, NoneIsNoState DEF NewState
<1>2. ASSUME NEW d \in Conns, Owned(d), state[p] # None => d # e PROVE Owned(d)'
  <2>1. CASE \E q \in Procs : state[q] # None /\ state[q].conn = d
    BY <1>0, <1>2, <2>1 DEF Owned
  <2>2. CASE \E u \in Threads : Handshaking(u) /\ call[u].conn = d
    BY <1>0, <1>1, <2>2 DEF Owned, Handshaking
  <2> QED
    BY <1>2, <2>1, <2>2 DEF Owned
<1>3. CASE state[p] = None
  <2>1. UNCHANGED link
    BY <1>0, <1>3 DEF DropState, Uninitialized
  <2> QED
    BY <1>2, <1>3, <2>1, KeptTidy
<1>4. CASE state[p] # None
  <2>1. e \in Conns /\ link[e] \in Channels /\ link' = [link EXCEPT ![e] = HostCloses(@)]
    BY <1>0, <1>4 DEF DropState, Uninitialized, ProviderState
  <2>2. link[e].up = <<>>
    BY <1>0, <1>4 DEF KnowledgeInv, Caches, Quiet
  <2> HIDE DEF e
  <2>3. link'[e].host = FALSE /\ link'[e].up = link[e].up
    BY <1>0, <2>1, CloseFields
  <2>4. ~HasGenerate(link[e])
    BY <2>2 DEF HasGenerate
  <2>5. Tidy(e)
    BY <2>3, <2>4 DEF Tidy
  <2>6. \A d \in Conns : d # e => Tidy(d)
    BY <1>0, <1>2, <2>1, KeptTidy
  <2> QED
    BY <2>5, <2>6
<1> QED
  BY <1>3, <1>4

\* So is every step of a thread, and a call that returns at once.
LEMMA ThreadTidy ==
  ASSUME Typed, Typed', IndInv, OwnedInv, Looks \/ \E t \in Threads : ThreadKinds(t)
  PROVE  \A d \in Conns : Tidy(d)
<1>0. MutexInv /\ OwnerInv /\ ServerInv /\ TrafficInv /\ KnowledgeInv
  BY DEF IndInv
<1>1. CASE Looks
  <2>1. OwnersStay /\ UNCHANGED link
    BY <1>1 DEF Looks, SameCores, OwnersStay, Handshaking, linkVars
  <2>2. \A d : Owned(d) => Owned(d)'
    BY <2>1, StayingOwns
  <2> QED
    BY <2>1, <2>2, KeptTidy
<1>2. CASE \E t \in Threads : ThreadKinds(t)
  BY <1>0, <1>2, OpenTidy, FailTidy, DropTidy DEF ThreadKinds
<1> QED
  BY <1>1, <1>2

\* A tidy step leaves the key generations of clients that have gone, and what they
\* rest on.
LEMMA TidyStep ==
  ASSUME \A d \in Conns : Tidy(d)
  PROVE  /\ Abandoned' = Abandoned /\ OwnedInv'
         /\ ShortInv /\ OneOutstanding' /\ Typed' => ShortInv'
<1>1. OwnedInv'
  BY DEF Tidy, OwnedInv
<1>2. ASSUME NEW d \in Conns
      PROVE  ~link'[d].host /\ HasGenerate(link[d])' <=> ~link[d].host /\ HasGenerate(link[d])
  <2>1. CASE link'[d].host
    <3>1. link[d].host \/ ~HasGenerate(link[d])
      BY <2>1 DEF Tidy, HasGenerate
    <3> QED
      BY <2>1, <3>1
  <2>2. CASE ~link'[d].host
    BY <2>2 DEF Tidy, HasGenerate
  <2> QED
    BY <2>1, <2>2
<1>3. Abandoned' = Abandoned
  BY <1>2 DEF Abandoned, HasGenerate
<1>4. ASSUME ShortInv, OneOutstanding', Typed', NEW d \in Conns PROVE Len(link'[d].up) <= 1
  <2>1. Len(link'[d].up) \in Nat /\ Len(link'[d].down) \in Nat
    BY <1>4 DEF Typed, LinkTypeOK, Channels
  <2>2. CASE link'[d].host
    <3>1. Len(link'[d].up) + Len(link'[d].down) <= 1
      BY <1>4, <2>2 DEF OneOutstanding
    <3>2. \A a, b \in Nat : a + b <= 1 => a <= 1
      OBVIOUS
    <3> QED
      BY <2>1, <3>1, <3>2
  <2>3. CASE ~link'[d].host
    BY <1>4, <2>3 DEF Tidy, ShortInv
  <2> QED
    BY <2>2, <2>3
<1> QED
  BY <1>1, <1>3, <1>4 DEF ShortInv

-----------------------------------------------------------------------------
(* The steps of the provider are steps of the token.                       *)

\* What the answer to an operation bears.
LEMMA KeysBorne ==
  /\ \A p, k, m : BearsKey([status |-> "Ok", body |-> SigBytes(p, k, m)])
  /\ \A p, k, m : SigBytes(p, k, m).key = k /\ SigBytes(p, k, m).kind = "sig"
  /\ \A pk \in PublicKeys : pk.key \in Keys /\ pk.kind = "pk" /\ pk.key # None
<1>1. \A p, k, m : /\ BearsKey([status |-> "Ok", body |-> SigBytes(p, k, m)])
                   /\ SigBytes(p, k, m).key = k /\ SigBytes(p, k, m).kind = "sig"
  BY DEF BearsKey, SigBytes
<1>2. ASSUME NEW pk \in PublicKeys PROVE pk.key \in Keys /\ pk.kind = "pk" /\ pk.key # None
  <2>1. PICK p \in ParamSets, k \in Keys : pk = KeyBytes(p, k)
    BY DEF PublicKeys
  <2> QED
    BY <2>1, TokenAssumption DEF KeyBytes
<1> QED
  BY <1>1, <1>2

\* A thread that waits for a signature or a new key has an operation.
LEMMA OpOfWaiting ==
  ASSUME Typed, MutexInv, NEW t \in Threads, InExchange(t)
  PROVE  OpOf(t) # None
<1> DEFINE c == state[ProcOf[t]].conn
           answer == IF link[c].down = <<>> \/ ~BearsKey(Head(link[c].down)) THEN None
                     ELSE Head(link[c].down).body.key
<1>1. /\ ~Uninitialized(ProcOf[t]) /\ link[c] \in Channels
      /\ link[c].down # <<>> => Head(link[c].down) \in Responses
  BY ExchangeFields DEF Arrived, Response
<1>2. \A b \in Payloads : b.kind \in {"sig", "pk"} => b.key \in Keys
  BY DEF Payloads, InfoBytes, ListBytes, NoBytes, PublicKeys, Signatures, KeyBytes, SigBytes
<1>3. answer \in Keys \cup {None}
  BY <1>1, <1>2 DEF BearsKey, Responses
<1> HIDE DEF answer
<1>4. CASE call[t].at = "sign_wait"
  <2>1. OpOf(t) = [req |-> Token!SignOp(call[t].msg), answer |-> answer]
    BY <1>1, <1>4 DEF OpOf, answer, Token!SignOp
  <2>2. call[t].msg \in AllMsgs
    BY <1>4, PlaceFields DEF Typed, ProviderTypeOK
  <2> QED
    BY <1>3, <2>1, <2>2, NoneIsNoOperation DEF Token!Operations
<1>5. CASE call[t].at = "gen_wait"
  <2>1. OpOf(t) = [req |-> Token!GenerateOp, answer |-> answer]
    BY <1>1, <1>5 DEF OpOf, answer, Token!GenerateOp
  <2> QED
    BY <1>3, <2>1, NoneIsNoOperation DEF Token!Operations
<1> QED
  BY <1>4, <1>5 DEF InExchange

\* Only the answer to GENERATE_KEYPAIR makes C_GenerateKeyPair return CKR_OK.
LEMMA OnlyGenerateReplies ==
  ASSUME ProviderNext, ret' # None, ret'.op = "C_GenerateKeyPair", ret'.rv = "OK"
  PROVE  \E t \in Threads : GenerateReply(t)
<1> USE DEF Returns
<1>1. ASSUME NEW t \in Threads,
             \/ Initialize(t) \/ ConnectRefused(t) \/ Finalize(t) \/ OpenSession(t)
             \/ GetTokenInfo(t) \/ \E object \in ObjectHandles, template \in Templates :
                  GetAttributeValue(t, object, template)
      PROVE  FALSE
  BY <1>1 DEF Initialize, ConnectRefused, Finalize, OpenSession, GetTokenInfo,
                    GetAttributeValue
<1>2. ASSUME NEW t \in Threads, Continues(t), ~GenerateReply(t) PROVE FALSE
  <2>1. CASE InfoReply(t) \/ PublicKeyReply(t) \/ HandshakeFails(t) \/ Store(t)
    BY <2>1 DEF InfoReply, PublicKeyReply, HandshakeFails, Store
  <2>2. CASE SignReply(t)
    BY <2>2 DEF SignReply
  <2>3. CASE SignDispatch(t) \/ SignPanics(t)
    BY <2>3 DEF SignDispatch, SignPanics, Ends
  <2>4. CASE SignFails(t) \/ GenerateFails(t)
    BY <2>4 DEF SignFails, GenerateFails
  <2> QED
    BY <1>2, <2>1, <2>2, <2>3, <2>4 DEF Continues
<1>3. ASSUME NEW t \in Threads, NEW s \in Sessions,
             \/ CloseSession(t, s) \/ Login(t, s) \/ FindObjectsFinal(t, s) \/ SignInit(t, s)
             \/ \E class \in Classes : FindObjectsInit(t, s, class)
      PROVE  FALSE
  <2>1. CASE CloseSession(t, s) \/ Login(t, s) \/ FindObjectsFinal(t, s) \/ SignInit(t, s)
    BY <2>1 DEF CloseSession, Login, FindObjectsFinal, SignInit
  <2>2. ASSUME NEW class \in Classes, FindObjectsInit(t, s, class) PROVE FALSE
    BY <2>2 DEF FindObjectsInit
  <2> QED
    BY <1>3, <2>1, <2>2
<1>4. ASSUME NEW t \in Threads, NEW s \in Sessions, GenerateKeyPair(t, s) PROVE FALSE
  BY <1>4 DEF GenerateKeyPair
<1>5. ASSUME NEW t \in Threads, NEW s \in Sessions, NEW room \in 0 .. 3, FindObjects(t, s, room)
      PROVE  FALSE
  <2>1. \E rv, out : Returns(t, "C_FindObjects", rv, out)
    BY <1>5 DEF FindObjects
  <2> QED
    BY <2>1
<1>6. ASSUME NEW t \in Threads, NEW s \in Sessions, NEW m \in AllMsgs, NEW room \in Rooms,
             Sign(t, s, m, room)
      PROVE  FALSE
  BY <1>6 DEF Sign
<1>7. ASSUME NEW p \in Procs, Exit(p) PROVE FALSE
  BY <1>7 DEF Exit, Ends
<1> QED
  BY <1>1, <1>2, <1>3, <1>4, <1>5, <1>6, <1>7 DEF ProviderNext

\* Only the replies of the token make a C_ function return what it did.
LEMMA OnlyReplies ==
  ASSUME ProviderNext, Returned' # None
  PROVE  \E t \in Threads : SignReply(t) \/ GenerateReply(t)
<1>1. CASE Signed'
  BY <1>1, OnlySignReplySigns
<1>2. CASE ~Signed'
  BY <1>2, OnlyGenerateReplies DEF Returned
<1> QED
  BY <1>1, <1>2

\* A signature that arrives ends the operation with its key.
LEMMA SignReplyMaps ==
  ASSUME Typed, Typed', IndInv, OwnedInv, UNCHANGED devVars, NEW t \in Threads, SignReply(t)
  PROVE  Token!Next
<1> DEFINE p == ProcOf[t]
           c == state[p].conn
           rsp == Response(c)
<1>0. MutexInv /\ OwnerInv /\ ServerInv /\ Waits(t)
  BY DEF IndInv, TrafficInv
<1>1. /\ InExchange(t) /\ AwaitingToken(t) /\ ConnOf(t) = c /\ Arrived(c)
      /\ call[t].at = "sign_wait" /\ rsp.status = "Ok" /\ call' = [call EXCEPT ![t] = Idle]
  BY DEF SignReply, Fits, InExchange, AwaitingToken, ConnOf, Handshaking, Goes
<1>2. p \in Procs /\ state[p] # None /\ c \in Conns
  BY <1>0, <1>1, ExchangeFields DEF Uninitialized
<1>3. ThreadKinds(t)
  BY <1>0, <1>2, FinishKinds DEF ThreadKinds
<1>4. Abandoned' = Abandoned /\ \A u \in Threads : u # t => OpOf(u)' = OpOf(u)
  BY <1>0, <1>3, ThreadTidy, TidyStep, OthersUndisturbed, UndisturbedOp
<1>5. rsp.body = SigBytes(state[p].pk.param, state[p].pk.key, call[t].msg)
  <2>1. Answers(t, rsp)
    BY <1>0, <1>1, <1>2, AnswerRead
  <2> QED
    BY <1>1, <2>1 DEF Answers
<1>6. state[p].pk.key # None
  <2>1. state[p].pk \in PublicKeys
    BY <1>2 DEF IndInv, KnowledgeInv, Caches
  <2> QED
    BY <2>1, KeysBorne
<1>7. rsp.body.key = state[p].pk.key /\ BearsKey(rsp)
  BY <1>1, <1>5, KeysBorne DEF BearsKey
<1>8. OpOf(t) = [req |-> [cmd |-> "sign", msg |-> call[t].msg], answer |-> rsp.body.key]
  BY <1>1, <1>2, <1>7 DEF OpOf, Uninitialized, Arrived, Response
<1>9. Returned' = [by |-> t, req |-> [cmd |-> "sign", msg |-> call[t].msg], key |-> rsp.body.key]
  <2>1. Signed' /\ ret'.by = t /\ ret'.out.msg = call[t].msg /\ ret'.out.sig = rsp.body
    <3>1. ret' = [by |-> t, op |-> "C_Sign", rv |-> "OK",
                  out |-> [s |-> call[t].s, msg |-> call[t].msg, room |-> call[t].room,
                           sig |-> rsp.body]]
      BY DEF SignReply, Returns
    <3>2. /\ call[t].s \in Sessions /\ call[t].msg \in AllMsgs /\ call[t].room \in Nat
          /\ rsp.body \in Signatures
      <4>1. call[t].s \in Sessions /\ call[t].msg \in AllMsgs /\ call[t].room \in Nat
        BY <1>1, PlaceFields DEF Typed, ProviderTypeOK
      <4>2. state[p].pk \in PublicKeys
        BY <1>2 DEF IndInv, KnowledgeInv, Caches
      <4>3. PICK q \in ParamSets, k \in Keys : state[p].pk = KeyBytes(q, k)
        BY <4>2 DEF PublicKeys
      <4> QED
        BY <1>5, <4>1, <4>3 DEF KeyBytes, Signatures, AllMsgs
    <3>3. ret' # None
      <4> HIDE DEF rsp
      <4> QED
        BY <3>1, <3>2, NoneIsNoOperation
    <3> QED
      BY <3>1, <3>3 DEF Signed
  <2> QED
    BY <2>1 DEF Returned
<1>10. OpOf(t)' = None
  BY <1>1 DEF OpOf, Typed, ProviderTypeOK, Idle
<1>11. KeyNow' = KeyNow
  BY DEF KeyNow, devVars
<1>12. OpOf(t) # None
  BY <1>0, <1>1, OpOfWaiting
<1>13. OpOf(t).req = [cmd |-> "sign", msg |-> call[t].msg] /\ OpOf(t).answer = rsp.body.key
  BY <1>8
<1>14. OpOf(t).answer # None
  BY <1>6, <1>7, <1>13
<1> HIDE DEF rsp, c
<1>15. Returned' = [by |-> t, req |-> OpOf(t).req, key |-> OpOf(t).answer]
  BY <1>9, <1>13
<1> QED
  BY <1>4, <1>10, <1>11, <1>12, <1>14, <1>15, MapReturn

\* So does a new public key that arrives.
LEMMA GenerateReplyMaps ==
  ASSUME Typed, Typed', IndInv, OwnedInv, UNCHANGED devVars, NEW t \in Threads,
         GenerateReply(t)
  PROVE  Token!Next
<1> DEFINE p == ProcOf[t]
           c == state[p].conn
           rsp == Response(c)
<1>0. MutexInv /\ OwnerInv /\ ServerInv /\ Waits(t)
  BY DEF IndInv, TrafficInv
<1>1. /\ InExchange(t) /\ AwaitingToken(t) /\ ConnOf(t) = c /\ Arrived(c)
      /\ call[t].at = "gen_wait" /\ rsp.status = "Ok" /\ call' = [call EXCEPT ![t] = Idle]
  BY DEF GenerateReply, InExchange, AwaitingToken, ConnOf, Handshaking, Goes
<1>2. p \in Procs /\ state[p] \in ProviderState /\ state[p] # None /\ c \in Conns
  BY <1>0, <1>1, ExchangeFields, StateFields DEF Uninitialized
<1>3. ThreadKinds(t)
  BY DEF ThreadKinds
<1>4. Abandoned' = Abandoned /\ \A u \in Threads : u # t => OpOf(u)' = OpOf(u)
  BY <1>0, <1>3, ThreadTidy, TidyStep, OthersUndisturbed, UndisturbedOp
<1>5. rsp.body \in PublicKeys
  <2>1. Answers(t, rsp)
    BY <1>0, <1>1, <1>2, AnswerRead
  <2> QED
    BY <1>1, <2>1 DEF Answers
<1>6. rsp.body.key # None /\ BearsKey(rsp)
  BY <1>1, <1>5, KeysBorne DEF BearsKey
<1>7. OpOf(t) = [req |-> [cmd |-> "generate"], answer |-> rsp.body.key]
  BY <1>1, <1>2, <1>6 DEF OpOf, Uninitialized, Arrived, Response
<1>8. Returned' = [by |-> t, req |-> [cmd |-> "generate"], key |-> rsp.body.key]
  <2>1. ret' = [by |-> t, op |-> "C_GenerateKeyPair", rv |-> "OK", out |-> None]
    BY DEF GenerateReply, Returns
  <2>2. ret' # None
    BY <2>1, NoneIsNoOperation
  <2>3. state'[p].pk = rsp.body
    <3>1. state'[p] = [state[p] EXCEPT !.pk = rsp.body]
      BY <1>2 DEF GenerateReply, Typed, ProviderTypeOK
    <3> HIDE DEF rsp
    <3> QED
      BY <1>2, <3>1 DEF ProviderState
  <2> QED
    BY <2>1, <2>2, <2>3 DEF Returned, Signed
<1>9. OpOf(t)' = None
  BY <1>1 DEF OpOf, Typed, ProviderTypeOK, Idle
<1>10. KeyNow' = KeyNow
  BY DEF KeyNow, devVars
<1>11. OpOf(t) # None
  BY <1>0, <1>1, OpOfWaiting
<1>12. OpOf(t).answer # None /\ Returned' = [by |-> t, req |-> OpOf(t).req, key |-> OpOf(t).answer]
  BY <1>6, <1>7, <1>8
<1> HIDE DEF rsp, c
<1> QED
  BY <1>4, <1>9, <1>10, <1>11, <1>12, MapReturn

\* Any other step of a thread asks for an operation, fails one, or is none of the
\* token's.
LEMMA ThreadMaps ==
  ASSUME Typed, Typed', IndInv, OwnedInv, UNCHANGED devVars, Returned' = None,
         NEW t \in Threads, ThreadKinds(t), ~GenerateReply(t)
  PROVE  Token!Next
<1> DEFINE p == ProcOf[t]
<1>0. /\ MutexInv /\ OwnerInv /\ call \in [Threads -> Places] /\ KeyNow' = KeyNow
      /\ state \in [Procs -> ProviderState \cup {None}] /\ link \in [Conns -> Channels]
      /\ p \in Procs
  BY ProviderAssumption DEF IndInv, Typed, ProviderTypeOK, LinkTypeOK, KeyNow, devVars
<1>1. Abandoned' = Abandoned /\ \A u \in Threads : u # t => OpOf(u)' = OpOf(u)
  BY <1>0, ThreadTidy, TidyStep, OthersUndisturbed, UndisturbedOp
<1>2. CASE ~InExchange(t) /\ ~InExchange(t)'
  <2>1. OpOf(t)' = OpOf(t)
    BY <1>2, NoOp
  <2> QED
    BY <1>0, <1>1, <2>1, MapForget
<1>3. CASE Finishes(t)
  <2>1. OpOf(t) # None
    BY <1>0, <1>3, OpOfWaiting DEF Finishes
  <2>2. ~InExchange(t)'
    BY <1>0, <1>3 DEF Finishes, InExchange, Idle
  <2>3. OpOf(t)' = None
    BY <2>2, NoOp
  <2> QED
    BY <1>0, <1>1, <2>1, <2>3, MapFail
<1>4. CASE Sends(t)
  <2> DEFINE c == state[p].conn
  <2>1. PICK place \in Places, req \in Requests :
             /\ \/ place.at = "sign_wait" /\ req = SignReq(place.msg)
                \/ place.at = "gen_wait" /\ req = GenerateReq
             /\ call' = [call EXCEPT ![t] = place]
             /\ link' = [link EXCEPT ![c] = HostSends(@, req)]
    BY <1>4 DEF Sends
  <2>2. c \in Conns /\ link[c] \in Channels /\ link[c].down = <<>> /\ state[p] # None
        /\ UNCHANGED state
    BY <1>0, <1>4 DEF Sends, ProviderState, IndInv, KnowledgeInv, Caches, Quiet
  <2>3. link'[c].down = <<>>
    <3>1. link'[c] = HostSends(link[c], req)
      BY <1>0, <2>1, <2>2
    <3> HIDE DEF c
    <3> QED
      BY <2>2, <3>1, SendFields
  <2>4. OpOf(t) = None
    <3>1. ~InExchange(t)
      BY <1>4 DEF Sends, InExchange
    <3> QED
      BY <3>1, NoOp
  <2>5. call'[t] = place
    BY <1>0, <2>1
  <2>6. CASE place.at = "sign_wait"
    <3>1. OpOf(t)' = [req |-> Token!SignOp(place.msg), answer |-> None]
      BY <2>2, <2>3, <2>5, <2>6 DEF OpOf, Token!SignOp, Uninitialized
    <3>2. Token!SignOp(place.msg) \in Token!Operations
      BY <2>6, PlaceFields DEF Token!Operations
    <3> QED
      BY <1>0, <1>1, <2>4, <3>1, <3>2, MapAsk
  <2>7. CASE place.at = "gen_wait"
    <3>1. OpOf(t)' = [req |-> Token!GenerateOp, answer |-> None]
      BY <2>2, <2>3, <2>5, <2>7 DEF OpOf, Token!GenerateOp, Uninitialized
    <3>2. Token!GenerateOp \in Token!Operations
      BY DEF Token!Operations
    <3> QED
      BY <1>0, <1>1, <2>4, <3>1, <3>2, MapAsk
  <2> QED
    BY <2>1, <2>6, <2>7
<1>5. CASE \/ Turns(t) \/ Dials(t) \/ InfoReply(t) \/ PublicKeyReply(t) \/ HandshakeFails(t)
           \/ Store(t) \/ Finalize(t)
  <2>1. ~InExchange(t)
    BY <1>5 DEF Turns, Dials, InfoReply, PublicKeyReply, HandshakeFails, Store, Finalize, Enters,
                Idle, InExchange
  <2>2. call'[t].at \in {"idle", "sign", "get_info", "get_public_key", "store"}
    BY <1>0, <1>5 DEF Turns, Dials, InfoReply, PublicKeyReply, HandshakeFails, Store, Finalize,
                      Enters, Goes, Idle
  <2> QED
    BY <1>2, <2>1, <2>2 DEF InExchange
<1> QED
  BY <1>3, <1>4, <1>5 DEF ThreadKinds

\* What a process that ends leaves of its connections.
LEMMA LeavingConns ==
  ASSUME Typed, Typed', IndInv, OwnedInv, NEW p \in Procs, Leaving(p)
  PROVE  /\ OwnedInv' /\ (ShortInv => ShortInv')
         /\ Abandoned' = Abandoned \cup {d \in Mine(p) : HasGenerate(link[d])}
<1>0. /\ link \in [Conns -> Channels] /\ call \in [Threads -> Places] /\ OwnerInv
      /\ state \in [Procs -> ProviderState \cup {None}]
      /\ Mine(p) \subseteq Conns
  BY DEF Typed, LinkTypeOK, ProviderTypeOK, IndInv, Mine
<1>1. /\ \A d \in Conns : d \in Mine(p) => link'[d].host = FALSE /\ link'[d].up = link[d].up
      /\ \A d \in Conns : d \notin Mine(p) => link'[d] = link[d]
  <2>1. MutexInv /\ \A d \in Conns : link'[d].host \in BOOLEAN
    BY DEF IndInv, Typed, LinkTypeOK, Channels
  <2> QED
    BY <2>1, LeaveFields
<1>2. \A d \in Mine(p) : link[d].host
  BY <1>0 DEF Mine, OwnerInv
<1>3. Abandoned' = Abandoned \cup {d \in Mine(p) : HasGenerate(link[d])}
  <2>1. ASSUME NEW d \in Conns
        PROVE  ~link'[d].host /\ HasGenerate(link'[d])
               <=> (~link[d].host /\ HasGenerate(link[d])) \/ (d \in Mine(p) /\ HasGenerate(link[d]))
    <3>1. CASE d \in Mine(p)
      BY <1>1, <1>2, <3>1 DEF HasGenerate
    <3>2. CASE d \notin Mine(p)
      BY <1>1, <3>2
    <3> QED
      BY <3>1, <3>2
  <2> QED
    BY <1>0, <2>1 DEF Abandoned, HasGenerate
<1>4. ASSUME NEW d \in Conns, link'[d].host PROVE Owned(d)'
  <2>1. d \notin Mine(p) /\ link[d].host
    BY <1>1, <1>4
  <2>2. CASE \E q \in Procs : state[q] # None /\ state[q].conn = d
    <3>1. PICK q \in Procs : state[q] # None /\ state[q].conn = d
      BY <2>2
    <3>2. q # p
      BY <1>4, <2>1, <3>1 DEF Mine
    <3>3. state'[q] = state[q]
      BY <1>0, <3>2 DEF Leaving
    <3> QED
      BY <3>1, <3>3 DEF Owned
  <2>3. CASE \E u \in Threads : Handshaking(u) /\ call[u].conn = d
    <3>1. PICK u \in Threads : Handshaking(u) /\ call[u].conn = d
      BY <2>3
    <3>2. ProcOf[u] # p /\ call'[u] = call[u]
      BY <2>1, <3>1, <1>4 DEF Mine, Leaving
    <3> QED
      BY <3>1, <3>2 DEF Owned, Handshaking
  <2> QED
    BY <2>1, <2>2, <2>3 DEF OwnedInv, Owned
<1>5. \A d \in Conns : link'[d].up = link[d].up
  BY <1>1
<1> QED
  BY <1>3, <1>4, <1>5 DEF OwnedInv, ShortInv

\* A process that ends leaves a key generation only on the connection of its STATE,
\* while one of its threads waits for the new key.
LEMMA LeavesGenerate ==
  ASSUME Typed, IndInv, NEW p \in Procs, NEW d \in Mine(p), HasGenerate(link[d])
  PROVE  /\ holder[p] \in Threads /\ ProcOf[holder[p]] = p /\ InExchange(holder[p])
         /\ state[p] # None /\ d = state[p].conn
         /\ OpOf(holder[p]) = [req |-> Token!GenerateOp, answer |-> None]
<1>0. /\ MutexInv /\ OwnerInv /\ TrafficInv /\ KnowledgeInv
  BY DEF IndInv
<1>1. ASSUME NEW w \in Threads, Handshaking(w), call[w].conn = d PROVE FALSE
  <2>1. CASE call[w].at = "store"
    BY <1>0, <1>1, <2>1 DEF KnowledgeInv, Learns, Quiet, HasGenerate
  <2>2. CASE call[w].at \in {"get_info", "get_public_key"}
    BY <1>0, <1>1, <2>2, HandshakeAsks
  <2> QED
    BY <1>1, <2>1, <2>2 DEF Handshaking
<1>2. state[p] # None /\ d = state[p].conn
  BY <1>1 DEF Mine
<1>3. holder[p] # None
  BY <1>0, <1>2 DEF KnowledgeInv, Caches, Quiet, HasGenerate
<1>4. PICK t \in Threads : t = holder[p] /\ ProcOf[t] = p /\ InExchange(t)
  BY <1>0, <1>3 DEF MutexInv
<1>5. Waits(t) /\ AwaitingToken(t) /\ ConnOf(t) = d
  BY <1>0, <1>2, <1>4 DEF TrafficInv, AwaitingToken, InExchange, ConnOf, Handshaking
<1>6. link[d].up = <<Asked(t)>> /\ link[d].down = <<>>
  BY <1>5 DEF Waits, HasGenerate
<1>7. call[t].at = "gen_wait"
  <2>1. ASSUME call[t].at = "sign_wait" PROVE FALSE
    <3>1. Asked(t).cmd = "Sign"
      BY <2>1 DEF Asked, SignReq, Request
    <3>2. \A i \in DOMAIN link[d].up : link[d].up[i].cmd = "Sign"
      BY <1>6, <3>1
    <3> QED
      BY <3>2 DEF HasGenerate
  <2> QED
    BY <1>4, <2>1 DEF InExchange
<1>8. OpOf(t) = [req |-> Token!GenerateOp, answer |-> None]
  BY <1>2, <1>4, <1>6, <1>7 DEF OpOf, Token!GenerateOp, Uninitialized
<1> QED
  BY <1>2, <1>4, <1>8

\* The end of a process fails what it waited for, or leaves its key generation behind.
LEMMA LeavingMaps ==
  ASSUME Typed, Typed', IndInv, OwnedInv, UNCHANGED devVars, Returned' = None,
         NEW p \in Procs, Leaving(p)
  PROVE  Token!Next
<1>0. MutexInv /\ OwnerInv /\ KeyNow' = KeyNow
  BY DEF IndInv, KeyNow, devVars
<1>1. \A u \in Threads : ProcOf[u] # p => OpOf(u)' = OpOf(u)
  BY <1>0, LeavingUndisturbed, UndisturbedOp
<1>2. \A u \in Threads : ProcOf[u] = p => OpOf(u)' = None
  <2>1. \A u \in Threads : ProcOf[u] = p => ~InExchange(u)'
    BY DEF Leaving, InExchange, Idle
  <2> QED
    BY <2>1, NoOp
<1>3. \A u \in Threads : ProcOf[u] = p /\ u # holder[p] => OpOf(u) = None
  <2>1. \A u \in Threads : ProcOf[u] = p /\ u # holder[p] => ~InExchange(u)
    BY <1>0 DEF MutexInv
  <2> QED
    BY <2>1, NoOp
<1> DEFINE left == {d \in Mine(p) : HasGenerate(link[d])}
<1>4. Abandoned' = Abandoned \cup left
  BY LeavingConns
<1>5. CASE left = {} /\ holder[p] = None
  <2>1. \A u \in Threads : OpOf(u)' = OpOf(u)
    BY <1>1, <1>2, <1>3, <1>5, ProviderAssumption
  <2>2. Abandoned' = Abandoned
    BY <1>4, <1>5
  <2> QED
    BY <1>0, <2>1, <2>2, MapForget
<1>6. CASE holder[p] # None
  <2>1. PICK t \in Threads : t = holder[p] /\ ProcOf[t] = p /\ InExchange(t)
    BY <1>0, <1>6 DEF MutexInv
  <2>2. OpOf(t) # None /\ OpOf(t)' = None
    BY <1>0, <1>2, <2>1, OpOfWaiting
  <2>3. \A u \in Threads : u # t => OpOf(u)' = OpOf(u)
    BY <1>1, <1>2, <1>3, <2>1
  <2>4. CASE left = {}
    <3>1. Abandoned' = Abandoned
      BY <1>4, <2>4
    <3> QED
      BY <1>0, <2>1, <2>2, <2>3, <3>1, MapFail
  <2>5. CASE left # {}
    <3>1. PICK d \in left : TRUE
      BY <2>5
    <3>2. /\ state[p] # None /\ \A e \in left : e = state[p].conn
          /\ OpOf(t) = [req |-> Token!GenerateOp, answer |-> None]
      BY <2>1, <3>1, LeavesGenerate
    <3>3. left = {d} /\ d \in Conns /\ link[d].host
      BY <1>0, <3>1, <3>2 DEF Mine, OwnerInv
    <3>4. d \notin Abandoned /\ Abandoned' = Abandoned \cup {d}
      BY <1>4, <3>3 DEF Abandoned
    <3> QED
      BY <1>0, <2>1, <2>2, <2>3, <3>2, <3>3, <3>4, MapAbandon
  <2> QED
    BY <2>4, <2>5
<1>7. left # {} => holder[p] # None
  <2>1. ASSUME NEW d \in left PROVE holder[p] # None
    BY <2>1, LeavesGenerate, ProviderAssumption
  <2> QED
    BY <2>1
<1> QED
  BY <1>5, <1>6, <1>7

\* A thread that takes a step waits for no answer afterwards, or for one that has not
\* come.
LEMMA ThreadRenewed ==
  ASSUME Typed, IndInv, NEW t \in Threads, ThreadKinds(t)
  PROVE  Renewed(t)'
<1> DEFINE p == ProcOf[t]
<1>0. /\ call \in [Threads -> Places] /\ link \in [Conns -> Channels] /\ p \in Procs
      /\ state \in [Procs -> ProviderState \cup {None}] /\ MutexInv
  BY ProviderAssumption DEF IndInv, Typed, ProviderTypeOK, LinkTypeOK
<1>1. CASE Sends(t)
  <2> DEFINE c == state[p].conn
  <2>1. c \in Conns /\ link[c] \in Channels /\ link[c].down = <<>> /\ UNCHANGED state
    BY <1>0, <1>1 DEF Sends, ProviderState, IndInv, KnowledgeInv, Caches, Quiet
  <2>2. PICK req \in Requests : link' = [link EXCEPT ![c] = HostSends(link[c], req)]
    BY <1>1 DEF Sends
  <2>3. link'[c].down = <<>>
    <3>1. link'[c] = HostSends(link[c], req)
      BY <1>0, <2>1, <2>2
    <3> HIDE DEF c
    <3> QED
      BY <2>1, <3>1, SendFields
  <2> QED
    BY <2>1, <2>3 DEF Renewed
<1>2. CASE ~Sends(t)
  <2>1. call'[t].at \in {"idle", "sign", "get_info", "get_public_key", "store"}
    BY <1>0, <1>2 DEF ThreadKinds, Turns, Dials, Finishes, InfoReply, PublicKeyReply,
                      HandshakeFails, Store, Finalize, GenerateReply, Enters, Goes, Idle
  <2>2. ~InExchange(t)'
    BY <2>1 DEF InExchange
  <2> QED
    BY <2>2, NoOp
<1> QED
  BY <1>1, <1>2

\* The invariants above, in one.
ExtraInv == OwnedInv /\ ShortInv /\ RenewedInv

\* Every step of the provider keeps them, and is a step of the token.
LEMMA ProviderMaps ==
  ASSUME Typed, Typed', IndInv, IndInv', ExtraInv, ProviderStep
  PROVE  Token!Next /\ ExtraInv'
<1>0. /\ MutexInv /\ OwnerInv /\ OwnedInv /\ ShortInv /\ RenewedInv /\ OneOutstanding'
      /\ ProviderNext /\ UNCHANGED devVars /\ KeyNow' = KeyNow
  BY DEF IndInv, ExtraInv, ProviderStep, KeyNow, devVars
<1>1. ProviderKinds
  BY <1>0, ProviderStepKinds
<1>2. Token!Next
  <2>1. CASE \E t \in Threads : SignReply(t) \/ GenerateReply(t)
    BY <1>0, <2>1, SignReplyMaps, GenerateReplyMaps
  <2>2. CASE ~\E t \in Threads : SignReply(t) \/ GenerateReply(t)
    <3>1. Returned' = None
      BY <1>0, <2>2, OnlyReplies
    <3>2. CASE Looks
      <4>1. /\ Abandoned' = Abandoned /\ \A u \in Threads : OpOf(u)' = OpOf(u)
        BY <1>0, <3>2, ThreadTidy, TidyStep, LooksUndisturbed, UndisturbedOp
      <4> QED
        BY <1>0, <3>1, <4>1, MapForget
    <3> QED
      BY <1>0, <1>1, <2>2, <3>1, <3>2, ThreadMaps, LeavingMaps DEF ProviderKinds
  <2> QED
    BY <2>1, <2>2
<1>3. OwnedInv' /\ ShortInv'
  <2>1. CASE Looks \/ \E t \in Threads : ThreadKinds(t)
    BY <1>0, <2>1, ThreadTidy, TidyStep
  <2>2. CASE \E p \in Procs : Leaving(p)
    BY <1>0, <2>2, LeavingConns
  <2> QED
    BY <1>1, <2>1, <2>2 DEF ProviderKinds
<1>4. RenewedInv'
  <2>1. CASE Looks
    BY <1>0, <2>1, LooksUndisturbed, UndisturbedOp DEF RenewedInv
  <2>2. ASSUME NEW p \in Procs, Leaving(p) PROVE RenewedInv'
    <3>1. ASSUME NEW u \in Threads PROVE Renewed(u)'
      <4>1. CASE ProcOf[u] # p
        BY <1>0, <2>2, <4>1, LeavingUndisturbed, UndisturbedOp DEF RenewedInv
      <4>2. CASE ProcOf[u] = p
        <5>1. ~InExchange(u)'
          BY <2>2, <4>2 DEF Leaving, InExchange, Idle
        <5> QED
          BY <5>1, NoOp
      <4> QED
        BY <4>1, <4>2
    <3> QED
      BY <3>1 DEF RenewedInv
  <2>3. ASSUME NEW t \in Threads, ThreadKinds(t) PROVE RenewedInv'
    <3>1. \A u \in Threads : u # t => Renewed(u)'
      BY <1>0, <2>3, OthersUndisturbed, UndisturbedOp DEF RenewedInv
    <3>2. Renewed(t)'
      BY <1>0, <2>3, ThreadRenewed
    <3> QED
      BY <3>1, <3>2 DEF RenewedInv
  <2> QED
    BY <1>1, <2>1, <2>2, <2>3 DEF ProviderKinds
<1> QED
  BY <1>2, <1>3, <1>4 DEF ExtraInv

-----------------------------------------------------------------------------
(* The steps of the server are steps of the token.                         *)

\* A step of the server leaves the provider, and who has which connection.
LEMMA ServerLeaves ==
  ASSUME TypeOK, ServerInv, DevStep, OwnedInv
  PROVE  /\ UNCHANGED <<state, holder, call>> /\ Returned' = None /\ OwnedInv'
         /\ \A d \in Conns : link'[d].host = link[d].host
<1>1. UNCHANGED <<state, holder, call>> /\ ret' = None
  BY DEF DevStep, Quietly
<1>2. Returned' = None
  BY <1>1 DEF Returned, Signed
<1>3. \A d \in Conns : link'[d].host = link[d].host
  <2>1. CASE ServerMoves
    BY <2>1, ServerSteady
  <2>2. ASSUME NEW c \in Conns, Handle(c)
        PROVE  \A d \in Conns : link'[d].host = link[d].host
    BY <2>2, TurnFields DEF Handle, TypeOK, Typed
  <2> QED
    BY <2>1, <2>2 DEF DevStep, DevServes, ServerMoves
<1>4. \A d : Owned(d) => Owned(d)'
  BY <1>1 DEF Owned, Handshaking
<1> QED
  BY <1>1, <1>2, <1>3, <1>4 DEF OwnedInv

\* A thread whose connection keeps its answers is left alone by the server.
LEMMA ServerUndisturbed ==
  ASSUME Typed, MutexInv, UNCHANGED <<state, holder, call>>, NEW u \in Threads,
         InExchange(u) => link'[ConnOf(u)].down = link[ConnOf(u)].down
  PROVE  OpOf(u)' = OpOf(u) /\ (Renewed(u) => Renewed(u)')
<1>1. InExchange(u) => state[ProcOf[u]] # None
  BY ExchangeFields DEF Uninitialized
<1>2. Undisturbed(u)
  BY <1>1 DEF Undisturbed, SameCore
<1> QED
  BY <1>2, UndisturbedOp

\* The token takes up the next connection, or leaves one.
LEMMA AcceptMaps ==
  ASSUME TypeOK, IndInv, ExtraInv, DevStep, Accept \/ \E c \in Conns : Hangup(c)
  PROVE  Token!Next /\ ExtraInv'
<1>0. Typed /\ MutexInv /\ OwnerInv /\ ServerInv /\ UNCHANGED devVars
  BY DEF TypeOK, Typed, IndInv, Accept, Hangup
<1>1. UNCHANGED <<state, holder, call>> /\ Returned' = None /\ OwnedInv' /\ KeyNow' = KeyNow
  BY <1>0, ServerLeaves DEF ExtraInv, KeyNow, devVars
<1>2. \A d \in Conns : /\ link'[d].host = link[d].host /\ link'[d].up = link[d].up
                       /\ link'[d].down = link[d].down
  <2>1. CASE Accept
    BY <1>0, <2>1, AcceptFields, ZenonT(30) DEF Channels
  <2>2. ASSUME NEW c \in Conns, Hangup(c)
        PROVE  \A d \in Conns : /\ link'[d].host = link[d].host /\ link'[d].up = link[d].up
                                /\ link'[d].down = link[d].down
    BY <1>0, <2>2, HangupFields
  <2> QED
    BY <2>1, <2>2
<1>3. Abandoned' = Abandoned /\ ShortInv'
  BY <1>2 DEF Abandoned, ShortInv, ExtraInv
<1>4. ASSUME NEW u \in Threads PROVE OpOf(u)' = OpOf(u) /\ (Renewed(u) => Renewed(u)')
  <2>1. InExchange(u) => ConnOf(u) \in Conns
    BY <1>0, ConnsApart DEF IndInv, Placed
  <2> QED
    BY <1>0, <1>1, <1>2, <2>1, ServerUndisturbed
<1> QED
  BY <1>1, <1>3, <1>4, MapForget DEF ExtraInv, RenewedInv

\* The start of the server.
LEMMA BootMaps ==
  ASSUME TypeOK, IndInv, ExtraInv, DevStep, NEW p \in PARAM_SETS, Boot(p)
  PROVE  Token!Next /\ ExtraInv'
<1>0. /\ Typed /\ MutexInv /\ ServerInv /\ UNCHANGED link
      /\ backend = None /\ backend' \in Backends
  BY BootBackend DEF IndInv, TypeOK, Typed
<1>1. UNCHANGED <<state, holder, call>> /\ Returned' = None /\ OwnedInv'
  BY <1>0, ServerLeaves DEF ExtraInv
<1>4. KeyNow = None /\ KeyNow' \in Keys /\ KeyNow' # None
  BY <1>0, NoneIsNoBackend, TokenAssumption DEF KeyNow, Backends
<1>5. ASSUME NEW u \in Threads PROVE OpOf(u)' = OpOf(u) /\ (Renewed(u) => Renewed(u)')
  BY <1>0, <1>1, ServerUndisturbed
<1>6. Abandoned' = {}
  <2>1. \A d \in Conns : link'[d].up = <<>>
    BY <1>0 DEF ServerInv
  <2> QED
    BY <2>1 DEF Abandoned
<1>7. ShortInv'
  BY <1>0 DEF ExtraInv, ShortInv
<1>8. Token!Next
  <2>1. \A t \in Threads : OpOf(t)' = IF t \in {} /\ OpOf(t) # None
                                       THEN [req |-> OpOf(t).req, answer |-> None] ELSE OpOf(t)
    BY <1>5
  <2>2. {} \in SUBSET Threads
    OBVIOUS
  <2> QED
    BY <1>1, <1>4, <1>6, <2>1, <2>2, MapRestart
<1> QED
  BY <1>1, <1>5, <1>7, <1>8 DEF ExtraInv, RenewedInv

\* Its end, which may take the answers on their way with it.
LEMMA CrashMaps ==
  ASSUME TypeOK, IndInv, ExtraInv, DevStep, Crash
  PROVE  Token!Next /\ ExtraInv'
<1>0. /\ Typed /\ link \in [Conns -> Channels] /\ backend \in Backends /\ backend' = None
      /\ MutexInv /\ OwnerInv /\ ServerInv
  BY DEF TypeOK, Typed, LinkTypeOK, IndInv, Crash
<1>1. UNCHANGED <<state, holder, call>> /\ Returned' = None /\ OwnedInv'
  BY <1>0, ServerLeaves DEF ExtraInv
<1>2. PICK keep \in BOOLEAN : link' = [c \in Conns |-> TokenDies(link[c], keep)]
  BY DEF Crash
<1>3. \A d \in Conns : /\ link'[d].up = <<>>
                       /\ link'[d].down = IF keep THEN link[d].down ELSE <<>>
  BY <1>0, <1>2 DEF TokenDies, Channels
<1>4. KeyNow \in Keys /\ KeyNow # None /\ KeyNow' = None
  BY <1>0, NoneIsNoBackend, TokenAssumption DEF KeyNow, Backends
<1>5. Abandoned' = {} /\ ShortInv'
  <2>1. Len(<<>>) <= 1
    OBVIOUS
  <2> QED
    BY <1>3, <2>1 DEF Abandoned, ShortInv
<1>6. \A u \in Threads : InExchange(u) =>
        /\ ConnOf(u) \in Conns /\ state[ProcOf[u]] # None
        /\ ConnOf(u) = state[ProcOf[u]].conn
  BY <1>0, ConnsApart, ExchangeFields
     DEF IndInv, Placed, Uninitialized, ConnOf, Handshaking, InExchange
<1>7. CASE keep
  <2>1. ASSUME NEW u \in Threads PROVE OpOf(u)' = OpOf(u) /\ (Renewed(u) => Renewed(u)')
    BY <1>0, <1>1, <1>3, <1>6, <1>7, ServerUndisturbed
  <2>2. \A t \in Threads : OpOf(t)' = IF t \in {} /\ OpOf(t) # None
                                       THEN [req |-> OpOf(t).req, answer |-> None] ELSE OpOf(t)
    BY <2>1
  <2>3. {} \in SUBSET Threads
    OBVIOUS
  <2>4. Token!Next
    BY <1>1, <1>4, <1>5, <2>2, <2>3, MapRestart
  <2> QED
    BY <1>1, <1>5, <2>1, <2>4 DEF ExtraInv, RenewedInv
<1>8. CASE ~keep
  <2>1. ASSUME NEW u \in Threads
        PROVE  /\ Renewed(u)'
               /\ OpOf(u)' = IF u \in Threads /\ OpOf(u) # None
                             THEN [req |-> OpOf(u).req, answer |-> None] ELSE OpOf(u)
    <3>1. CASE ~InExchange(u)
      <4>1. ~InExchange(u)'
        BY <1>1, <3>1 DEF InExchange
      <4> QED
        BY <3>1, <4>1, NoOp
    <3>2. CASE InExchange(u)
      <4> DEFINE c == state[ProcOf[u]].conn
      <4>1. /\ call'[u] = call[u] /\ state[ProcOf[u]] # None /\ UNCHANGED state
            /\ link'[c].down = <<>>
        BY <1>1, <1>3, <1>6, <1>8, <3>2
      <4>2. Renewed(u)'
        BY <4>1 DEF Renewed
      <4>3. OpOf(u) # None
        BY <1>0, <3>2, OpOfWaiting
      <4>4. OpOf(u)' = [req |-> OpOf(u).req, answer |-> None]
        BY <3>2, <4>1 DEF OpOf, InExchange, Uninitialized
      <4> QED
        BY <4>2, <4>3, <4>4
    <3> QED
      BY <3>1, <3>2
  <2>2. Token!Next
    BY <1>1, <1>4, <1>5, <2>1, MapRestart
  <2> QED
    BY <1>1, <1>5, <2>1, <2>2 DEF ExtraInv, RenewedInv
<1> QED
  BY <1>7, <1>8

\* GENERATE_KEYPAIR always succeeds on dev-signer, and its key is another one.
LEMMA GenerateSays ==
  ASSUME NEW req, req.cmd = "GenerateKeypair", NEW be \in Backends, NEW o \in dispatch(req, be)
  PROVE  /\ o.rsp.status = "Ok" /\ o.rsp.body = KeyBytes(be.param, o.be.signing)
         /\ o.be.signing \in Keys \ {be.signing} /\ o.be \in Backends
<1>1. PICK k \in Keys \ {be.signing} :
           o = Fitted(KeyBytes(be.param, k), [be EXCEPT !.signing = k, !.public = k])
  BY DevSignerAssumption DEF dispatch, generate_keypair
<1> DEFINE new == [be EXCEPT !.signing = k, !.public = k]
<1>2. new \in Backends /\ new.signing = k
  BY DEF Backends
<1>3. ByteLen(KeyBytes(be.param, k)) <= ResponseBufLen
  <2>1. ByteLen(KeyBytes(be.param, k)) = public_key_len[be.param]
    BY DEF ByteLen, KeyBytes
  <2>2. public_key_len[be.param] \in {32, 48, 64}
    BY DEF public_key_len, ParamSets, Backends
  <2> QED
    BY <2>1, <2>2, DevSignerAssumption, TokenAssumption
<1> HIDE DEF new
<1> QED
  BY <1>1, <1>2, <1>3 DEF Fitted, Answer, new

\* What a turn of handle_connection leaves alone.
LEMMA HandleLeaves ==
  ASSUME TypeOK, IndInv, OwnedInv, DevStep, NEW c \in Conns, Handle(c)
  PROVE  /\ \A u \in Threads : ~InExchange(u) \/ ConnOf(u) # c =>
               OpOf(u)' = OpOf(u) /\ (Renewed(u) => Renewed(u)')
         /\ \A d \in Conns : d # c => link'[d] = link[d]
         /\ link'[c].up = Tail(link[c].up)
         /\ ShortInv => ShortInv'
<1>0. /\ Typed /\ MutexInv /\ OwnerInv /\ ServerInv /\ TakesTurn(c)
      /\ link[c].up \in Seq(Requests) /\ link[c].up # <<>>
  <2>1. Typed /\ TakesTurn(c)
    BY DEF Handle, TypeOK, Typed
  <2>2. link[c] \in Channels /\ link[c].up # <<>>
    BY <2>1, TurnFields
  <2> QED
    BY <2>1, <2>2 DEF IndInv, Channels
<1>1. /\ link'[c].up = Tail(link[c].up)
      /\ \A d \in Conns : d # c => link'[d] = link[d]
  BY <1>0, TurnFields
<1>2. ASSUME NEW u \in Threads, ~InExchange(u) \/ ConnOf(u) # c
      PROVE  OpOf(u)' = OpOf(u) /\ (Renewed(u) => Renewed(u)')
  <2>1. InExchange(u) => ConnOf(u) \in Conns
    BY <1>0, ConnsApart DEF Placed
  <2>2. UNCHANGED <<state, holder, call>>
    BY <1>0, ServerLeaves
  <2> QED
    BY <1>0, <1>1, <1>2, <2>1, <2>2, ServerUndisturbed
<1>3. ASSUME ShortInv, NEW d \in Conns PROVE Len(link'[d].up) <= 1
  <2>1. CASE d # c
    BY <1>1, <1>3, <2>1 DEF ShortInv
  <2>2. CASE d = c
    <3>1. Len(Tail(link[c].up)) = Len(link[c].up) - 1 /\ Len(link[c].up) \in Nat
      BY <1>0
    <3>2. Len(link[c].up) <= 1
      BY <1>3 DEF ShortInv
    <3>3. Len(link'[d].up) = Len(link[c].up) - 1
      BY <1>1, <2>2, <3>1
    <3>4. \A n \in Nat : n <= 1 => n - 1 <= 1
      OBVIOUS
    <3> QED
      BY <3>1, <3>2, <3>3, <3>4
  <2> QED
    BY <2>1, <2>2
<1> QED
  BY <1>1, <1>2, <1>3 DEF ShortInv

\* An open connection that carries a request has a thread that waits for its answer.
LEMMA OpenHasOwner ==
  ASSUME Typed, IndInv, OwnedInv, NEW c \in Conns, link[c].host, link[c].up # <<>>
  PROVE  \E t \in Threads : Placed(t) /\ ConnOf(t) = c
<1>1. CASE \E p \in Procs : state[p] # None /\ state[p].conn = c
  <2>1. PICK p \in Procs : state[p] # None /\ state[p].conn = c
    BY <1>1
  <2>2. holder[p] # None
    BY <2>1 DEF IndInv, KnowledgeInv, Caches, Quiet
  <2>3. holder[p] \in Threads /\ ProcOf[holder[p]] = p /\ InExchange(holder[p])
    BY <2>2 DEF IndInv, MutexInv
  <2> QED
    BY <2>1, <2>3 DEF Placed, ConnOf, Handshaking, InExchange
<1>2. CASE \E t \in Threads : Handshaking(t) /\ call[t].conn = c
  BY <1>2 DEF Placed, ConnOf
<1> QED
  BY <1>1, <1>2 DEF OwnedInv, Owned

\* The token answers a thread: the operation it waits for takes effect, if it is one.
LEMMA HandleMaps ==
  ASSUME TypeOK, IndInv, ExtraInv, DevStep, NEW c \in Conns, Handle(c),
         NEW t \in Threads, Placed(t), ConnOf(t) = c
  PROVE  Token!Next /\ ExtraInv'
<1>0. /\ MutexInv /\ OwnerInv /\ ServerInv /\ TrafficInv /\ KnowledgeInv
      /\ OwnedInv /\ ShortInv /\ RenewedInv /\ Typed /\ TakesTurn(c)
  BY DEF IndInv, ExtraInv, TypeOK, Typed, Handle
<1>1. /\ UNCHANGED <<state, holder, call>> /\ Returned' = None /\ OwnedInv' /\ ShortInv'
      /\ \A d \in Conns : link'[d].host = link[d].host
      /\ \A d \in Conns : d # c => link'[d] = link[d]
  BY <1>0, ServerLeaves, HandleLeaves
<1>2. \A u \in Threads : u # t => OpOf(u)' = OpOf(u) /\ Renewed(u)'
  <2>1. \A u \in Threads : u # t => ~InExchange(u) \/ ConnOf(u) # c
    BY <1>0, ConnsApart DEF Placed
  <2> QED
    BY <1>0, <2>1, HandleLeaves DEF RenewedInv
<1>3. /\ AwaitingToken(t) /\ link[c].up = <<Asked(t)>> /\ link[c].down = <<>>
      /\ link'[c].up = <<>> /\ Serving(c)
      /\ backend \in Backends /\ backend.signing = backend.public /\ Asked(t) \in Requests
      /\ \/ link'[c].down = <<>> /\ UNCHANGED backend
         \/ \E o \in dispatch(Asked(t), backend) :
              /\ link'[c].down = <<o.rsp>> /\ o.rsp \in Responses
              /\ backend' = o.be /\ o.be \in Backends
  BY <1>0, TurnOwner
<1>4. Abandoned' = Abandoned
  <2>1. link[c].host
    BY <1>0, ConnsApart
  <2> QED
    BY <1>1, <2>1 DEF Abandoned
<1>5. backend # None /\ KeyNow = backend.signing /\ KeyNow \in Keys /\ KeyNow # None
  BY <1>3, NoneIsNoBackend, TokenAssumption DEF KeyNow, Backends
<1>6. CASE ~InExchange(t)
  <2>1. OpOf(t)' = OpOf(t) /\ Renewed(t)'
    BY <1>0, <1>6, HandleLeaves DEF RenewedInv
  <2>2. KeyNow' = KeyNow
    <3>1. Asked(t).cmd # "GenerateKeypair"
      BY <1>3, <1>6 DEF Asked, AwaitingToken, InExchange, GetInfoReq, GetPublicKeyReq, Request
    <3>2. UNCHANGED backend
      BY <1>3, <3>1, DispatchSays, DevSignerAssumption
    <3> QED
      BY <3>2 DEF KeyNow
  <2>3. \A u \in Threads : OpOf(u)' = OpOf(u)
    BY <1>2, <2>1
  <2> QED
    BY <1>1, <1>2, <1>4, <2>1, <2>2, <2>3, MapForget DEF ExtraInv, RenewedInv
<1>7. CASE InExchange(t)
  <2> DEFINE p == ProcOf[t]
  <2>1. p \in Procs /\ state[p] # None /\ c = state[p].conn /\ OpOf(t) # None
        /\ OpOf(t).answer = None
    <3>1. p \in Procs /\ state[p] # None /\ c = state[p].conn /\ OpOf(t) # None
      BY <1>0, <1>7, ExchangeFields, OpOfWaiting DEF ConnOf, Handshaking, InExchange, Uninitialized
    <3> QED
      BY <1>3, <1>7, <3>1 DEF OpOf, InExchange, Uninitialized
  <2>2. CASE link'[c].down = <<>> /\ UNCHANGED backend
    <3>1. OpOf(t)' = OpOf(t) /\ Renewed(t)' /\ KeyNow' = KeyNow
      BY <1>1, <1>3, <2>1, <2>2 DEF OpOf, Renewed, KeyNow, Uninitialized
    <3>2. \A u \in Threads : OpOf(u)' = OpOf(u)
      BY <1>2, <3>1
    <3> QED
      BY <1>1, <1>2, <1>4, <3>1, <3>2, MapForget DEF ExtraInv, RenewedInv
  <2>3. ASSUME NEW o \in dispatch(Asked(t), backend),
               link'[c].down = <<o.rsp>>, o.rsp \in Responses, backend' = o.be, o.be \in Backends
        PROVE  Token!Next /\ Renewed(t)'
    <3>0. /\ Head(link'[c].down) = o.rsp /\ link'[c].down # <<>>
          /\ UNCHANGED call /\ UNCHANGED state
      BY <1>1, <2>3
    <3>1. CASE call[t].at = "sign_wait"
      <4>1. Asked(t).cmd = "Sign" /\ Asked(t).msg = call[t].msg
        BY <3>1 DEF Asked, SignReq, Request
      <4>2. UNCHANGED backend /\ KeyNow' = KeyNow
        <5>1. UNCHANGED backend
          BY <1>3, <2>3, <4>1, DispatchSays, DevSignerAssumption
        <5> QED
          BY <5>1 DEF KeyNow
      <4>3. Renewed(t)'
        BY <3>0, <3>1 DEF Renewed
      <4>4. CASE o.rsp.status = "Ok"
        <5>1. o.rsp.body = SigBytes(backend.param, backend.signing, call[t].msg)
          BY <1>3, <2>3, <4>1, <4>4, DispatchSays, DevSignerAssumption
        <5>2. BearsKey(o.rsp) /\ o.rsp.body.key = KeyNow
          BY <1>5, <4>4, <5>1, KeysBorne DEF BearsKey
        <5>3. OpOf(t)' = [req |-> OpOf(t).req, answer |-> KeyNow']
          BY <2>1, <3>0, <3>1, <4>2, <5>2 DEF OpOf, Uninitialized
        <5>4. OpOf(t).req # Token!GenerateOp
          <6>1. OpOf(t).req = Token!SignOp(call[t].msg)
            BY <3>1 DEF OpOf, Token!SignOp
          <6> QED
            BY <6>1 DEF Token!SignOp, Token!GenerateOp
        <5> QED
          BY <1>1, <1>2, <1>4, <1>5, <2>1, <4>2, <4>3, <5>3, <5>4, MapServe
      <4>5. CASE o.rsp.status # "Ok"
        <5>1. OpOf(t)' = OpOf(t)
          BY <1>3, <2>1, <3>0, <3>1, <4>5 DEF OpOf, BearsKey, Uninitialized
        <5>2. \A u \in Threads : OpOf(u)' = OpOf(u)
          BY <1>2, <5>1
        <5> QED
          BY <1>1, <1>4, <4>2, <4>3, <5>2, MapForget
      <4> QED
        BY <4>4, <4>5
    <3>2. CASE call[t].at = "gen_wait"
      <4>1. Asked(t).cmd = "GenerateKeypair"
        BY <3>2 DEF Asked, GenerateReq, Request
      <4>2. /\ o.rsp.status = "Ok" /\ o.rsp.body = KeyBytes(backend.param, o.be.signing)
            /\ o.be.signing \in Keys \ {backend.signing}
        BY <1>3, <2>3, <4>1, GenerateSays
      <4>3. KeyNow' = o.be.signing /\ KeyNow' \in Keys \ {KeyNow}
        BY <1>5, <2>3, <4>2, NoneIsNoBackend DEF KeyNow
      <4>4. BearsKey(o.rsp) /\ o.rsp.body.key = KeyNow'
        BY <4>2, <4>3 DEF BearsKey, KeyBytes
      <4>5. OpOf(t)' = [req |-> OpOf(t).req, answer |-> KeyNow']
        BY <2>1, <3>0, <3>2, <4>4 DEF OpOf, Uninitialized
      <4>6. OpOf(t).req = Token!GenerateOp
        BY <3>2 DEF OpOf, Token!GenerateOp
      <4>7. Token!Next
        BY <1>1, <1>2, <1>4, <1>5, <2>1, <4>3, <4>5, <4>6, MapServe
      <4>8. state[p].pk = TokenKey
        BY <1>0, <1>3, <2>1 DEF KnowledgeInv, Caches, NewKeyUnderWay
      <4>9. Renewed(t)'
        BY <2>1, <3>0, <4>2, <4>8, SMTT(60) DEF Renewed, Response, TokenKey, KeyBytes
      <4> QED
        BY <4>7, <4>9
    <3> QED
      BY <1>7, <3>1, <3>2 DEF InExchange
  <2> QED
    BY <1>1, <1>2, <1>3, <2>2, <2>3 DEF ExtraInv, RenewedInv
<1> QED
  BY <1>6, <1>7

\* The token reads a request of a client that has gone: a key generation takes effect
\* all the same.
LEMMA OrphanMaps ==
  ASSUME TypeOK, IndInv, ExtraInv, DevStep, NEW c \in Conns, Handle(c), ~link[c].host
  PROVE  Token!Next /\ ExtraInv'
<1> DEFINE req == Head(link[c].up)
<1>0. /\ MutexInv /\ OwnerInv /\ ServerInv /\ OwnedInv /\ ShortInv /\ RenewedInv
      /\ link[c].up \in Seq(Requests) /\ link[c].up # <<>> /\ req \in Requests
      /\ backend \in Backends /\ backend.signing = backend.public
      /\ Typed /\ TakesTurn(c)
  <2>1. Typed /\ TakesTurn(c)
    BY DEF TypeOK, Typed, Handle
  <2>2. backend \in Backends /\ link[c].up \in Seq(Requests) /\ link[c].up # <<>>
    BY <2>1, TurnFields DEF Channels
  <2> QED
    BY <2>1, <2>2, NoneIsNoBackend DEF IndInv, ExtraInv, ServerInv
<1>1. /\ Returned' = None /\ OwnedInv' /\ ShortInv'
      /\ \A d \in Conns : link'[d].host = link[d].host
      /\ \A d \in Conns : d # c => link'[d] = link[d]
      /\ link'[c].up = Tail(link[c].up)
  BY <1>0, ServerLeaves, HandleLeaves
<1>2. \A u \in Threads : OpOf(u)' = OpOf(u) /\ Renewed(u)'
  <2>1. \A u \in Threads : InExchange(u) => ConnOf(u) # c
    BY <1>0, ConnsApart DEF Placed
  <2> QED
    BY <1>0, <2>1, HandleLeaves DEF RenewedInv
<1>3. link[c].up = <<req>> /\ link'[c].up = <<>>
  <2>1. Len(link[c].up) <= 1
    BY <1>0 DEF ShortInv
  <2> QED
    BY <1>0, <1>1, <2>1
<1>4. KeyNow = backend.signing /\ KeyNow # None
  BY <1>0, NoneIsNoBackend, TokenAssumption DEF KeyNow, Backends
<1> HIDE DEF req
<1>5. CASE req.cmd # "GenerateKeypair"
  <2>1. UNCHANGED backend
    BY <1>0, <1>5, DispatchSays, DevSignerAssumption DEF TakesTurn, req
  <2>2. KeyNow' = KeyNow
    BY <2>1 DEF KeyNow
  <2>3. Abandoned' = Abandoned
    <3>1. ~HasGenerate(link[c]) /\ ~HasGenerate(link'[c])
      BY <1>3, <1>5 DEF HasGenerate
    <3> QED
      BY <1>1, <3>1 DEF Abandoned, HasGenerate
  <2> QED
    BY <1>1, <1>2, <2>2, <2>3, MapForget DEF ExtraInv, RenewedInv
<1>6. CASE req.cmd = "GenerateKeypair"
  <2>1. ~Oversize(req)
    BY <1>0, <1>6, TokenAssumption DEF Oversize, Requests
  <2>2. PICK o \in dispatch(req, backend) : backend' = o.be
    BY <1>0, <2>1 DEF TakesTurn, req
  <2>3. KeyNow' \in Keys \ {KeyNow}
    BY <1>0, <1>4, <1>6, <2>2, GenerateSays, NoneIsNoBackend DEF KeyNow
  <2>4. c \in Abandoned /\ Abandoned' = Abandoned \ {c}
    <3>1. HasGenerate(link[c]) /\ ~HasGenerate(link'[c])
      BY <1>3, <1>6 DEF HasGenerate
    <3> QED
      BY <1>1, <3>1, ZenonT(30) DEF Abandoned, HasGenerate
  <2> QED
    BY <1>1, <1>2, <1>4, <2>3, <2>4, MapServeOrphan DEF ExtraInv, RenewedInv
<1> QED
  BY <1>5, <1>6

-----------------------------------------------------------------------------
(* The theorems.                                                           *)

\* Every step keeps the invariants and is a step of the token, or none.
LEMMA MapNext ==
  TypeOK /\ IndInv /\ ExtraInv /\ [Next]_vars
  => ExtraInv' /\ [Token!Next]_(Token!hsmVars)
<1> SUFFICES ASSUME TypeOK, IndInv, ExtraInv, [Next]_vars
             PROVE  ExtraInv' /\ [Token!Next]_(Token!hsmVars)
  OBVIOUS
<1>0. TypeOK' /\ IndInv' /\ Typed /\ Typed'
  BY PairingNext DEF TypeOK, Typed
<1>1. CASE ProviderStep
  BY <1>0, <1>1, ProviderMaps
<1>2. CASE DevStep
  <2>1. ASSUME NEW c \in Conns, Handle(c) PROVE Token!Next /\ ExtraInv'
    <3>1. CASE link[c].host
      <4>1. PICK t \in Threads : Placed(t) /\ ConnOf(t) = c
        BY <1>0, <2>1, <3>1, OpenHasOwner DEF Handle, TakesTurn, ExtraInv
      <4> QED
        BY <1>2, <2>1, <4>1, HandleMaps
    <3>2. CASE ~link[c].host
      BY <1>2, <2>1, <3>2, OrphanMaps
    <3> QED
      BY <3>1, <3>2
  <2> QED
    BY <1>2, <2>1, AcceptMaps, BootMaps, CrashMaps DEF DevStep, DevServes
<1>3. CASE UNCHANGED vars
  <2>1. UNCHANGED <<link, state, call, ret, backend>>
    BY <1>3 DEF vars, linkVars, providerVars, devVars
  <2>2. ExtraInv'
    BY <2>1 DEF ExtraInv, OwnedInv, ShortInv, RenewedInv, Owned, Renewed, Handshaking, Response
  <2>3. UNCHANGED Token!hsmVars
    BY <2>1 DEF Token!hsmVars, OpOf, Abandoned, Returned, Signed, Uninitialized, BearsKey
  <2> QED
    BY <2>2, <2>3
<1> QED
  BY <1>1, <1>2, <1>3 DEF Next

\* The system starts as the token starts, with the invariants true.
LEMMA MapInit == Init => ExtraInv /\ Token!Init
<1> SUFFICES ASSUME Init PROVE ExtraInv /\ Token!Init
  OBVIOUS
<1>1. /\ \A c \in Conns : link[c] = Unused
      /\ \A t \in Threads : call[t] = Idle
      /\ ret = None /\ backend = None
  BY DEF Init, ProviderInit, DevInit
<1>2. \A t \in Threads : OpOf(t) = None /\ Renewed(t)
  <2>1. \A t \in Threads : ~InExchange(t)
    BY <1>1 DEF InExchange, Idle
  <2> QED
    BY <2>1, NoOp
<1>3. OwnedInv /\ ShortInv
  <2>1. Len(<<>>) <= 1
    OBVIOUS
  <2> QED
    BY <1>1, <2>1 DEF OwnedInv, ShortInv, Unused
<1>4. Abandoned = {} /\ Returned = None
  BY <1>1 DEF Abandoned, Returned, Signed, Unused
<1> QED
  BY <1>1, <1>2, <1>3, <1>4 DEF ExtraInv, RenewedInv, Token!Init

\* The provider and dev-signer together are one token with one key, used one operation
\* at a time (STATE in pkcs11-provider/src/lib.rs, the accept loop of
\* dev-signer/src/main.rs): each C_Sign and C_GenerateKeyPair takes effect at one
\* instant, whatever the threads, the processes, kills and restarts.
THEOREM Implements == Spec => ImplementsHsm
<1> DEFINE Inv == TypeOK /\ IndInv /\ ExtraInv
<1>1. Init => Inv /\ Token!Init
  BY DevStart, MapInit
<1>2. Inv /\ [Next]_vars => Inv' /\ [Token!Next]_(Token!hsmVars)
  BY PairingNext, MapNext
<1> HIDE DEF Inv
<1> QED
  BY <1>1, <1>2, PTL DEF Spec, ImplementsHsm, Token!Spec

\* C_GenerateKeyPair that returns CKR_OK has cached another public key than before, the
\* one the token signs with (c_generate_key_pair in pkcs11-provider/src/lib.rs).
THEOREM GenerateReplaces == Spec => KeyReplaced
<1> DEFINE Inv == TypeOK /\ IndInv /\ ExtraInv
           Replaced == ret' # None /\ ret'.op = "C_GenerateKeyPair" /\ ret'.rv = "OK"
             => LET p == ProcOf[ret'.by] IN
                /\ state'[p].pk # state[p].pk
                /\ link[state[p].conn].dev = "serving" =>
                     state'[p].pk = KeyBytes(backend.param, backend.signing)
<1>1. Init => Inv
  BY DevStart, MapInit
<1>2. Inv /\ [Next]_vars => Inv'
  BY PairingNext, MapNext
<1>3. Inv /\ Next => Replaced
  <2> SUFFICES ASSUME Inv, Next, ret' # None, ret'.op = "C_GenerateKeyPair", ret'.rv = "OK"
               PROVE  LET p == ProcOf[ret'.by] IN
                      /\ state'[p].pk # state[p].pk
                      /\ link[state[p].conn].dev = "serving" =>
                           state'[p].pk = KeyBytes(backend.param, backend.signing)
    OBVIOUS
  <2>1. ProviderNext /\ Typed /\ IndInv
    BY DEF Next, DevStep, Quietly, ProviderStep, TypeOK, Typed
  <2>2. PICK t \in Threads : GenerateReply(t)
    BY <2>1, OnlyGenerateReplies
  <2> DEFINE p == ProcOf[t]
             c == state[p].conn
             rsp == Response(c)
  <2>3. /\ InExchange(t) /\ AwaitingToken(t) /\ ConnOf(t) = c /\ Arrived(c)
        /\ call[t].at = "gen_wait" /\ rsp.status = "Ok" /\ ret'.by = t
    BY <2>2 DEF GenerateReply, Returns, InExchange, AwaitingToken, ConnOf, Handshaking
  <2>4. p \in Procs /\ state[p] \in ProviderState /\ state[p] # None /\ c \in Conns
    BY <2>1, <2>3, ExchangeFields, StateFields DEF Uninitialized, IndInv
  <2>5. Answers(t, rsp)
    BY <2>1, <2>3, <2>4, AnswerRead DEF IndInv, TrafficInv
  <2>6. rsp.body \in PublicKeys /\ (Serving(c) => rsp.body = TokenKey)
    BY <2>3, <2>5 DEF Answers
  <2>7. rsp.body # state[p].pk
    BY <2>3 DEF ExtraInv, RenewedInv, Renewed, Arrived
  <2>8. state'[p].pk = rsp.body
    <3>1. state'[p] = [state[p] EXCEPT !.pk = rsp.body]
      BY <2>2, <2>4 DEF GenerateReply, TypeOK, ProviderTypeOK
    <3> HIDE DEF rsp
    <3> QED
      BY <2>4, <3>1 DEF ProviderState
  <2> HIDE DEF rsp
  <2> QED
    BY <2>3, <2>6, <2>7, <2>8 DEF Serving, TokenKey
<1>4. Inv /\ [Next]_vars => [Replaced]_vars
  BY <1>3
<1>5. KeyReplaced <=> [][Replaced]_vars
  BY DEF KeyReplaced
<1> HIDE DEF Inv, Replaced
<1> QED
  BY <1>1, <1>2, <1>4, <1>5, PTL DEF Spec

-----------------------------------------------------------------------------
(* The object searches.                                                    *)

\* What the search of a session has still to hand out, None without a search.
Pending(p, s) == IF HasSession(p, s) THEN state[p].sessions[s].pending_find ELSE None

Exact(p) == \A s \in Sessions :
  LET open == search[p][s] IN
  /\ open # None <=> Pending(p, s) # None
  /\ open # None => open.handles \o Pending(p, s) = Matching(open.class)

Numbered(p) == ~Uninitialized(p) =>
                 \A s \in Sessions : s >= state[p].next => ~HasSession(p, s)

SearchInv == /\ search \in [Procs -> [Sessions -> Searches \cup {None}]]
             /\ \A p \in Procs : Exact(p) /\ Numbered(p)

\* A call of process p that the observer takes note of.
Tells(p, ops) == ret' # None /\ ret'.rv = "OK" /\ ProcOf[ret'.by] = p /\ ret'.op \in ops

StartsOver  == {"C_Initialize", "C_Finalize"}
FindCalls   == {"C_FindObjectsInit", "C_FindObjects", "C_FindObjectsFinal", "C_CloseSession"}

\* The searches of p go on as they are.
SameFinds(p) ==
  /\ ~Uninitialized(p) /\ ~Uninitialized(p)'
  /\ state[p].next \in Nat /\ state'[p].next \in Nat /\ state'[p].next >= state[p].next
  /\ \A s \in Sessions : /\ Pending(p, s)' = Pending(p, s)
                         /\ HasSession(p, s)' => HasSession(p, s) \/ s < state'[p].next

SilentAt(p) == /\ ~Tells(p, StartsOver \cup FindCalls)
               /\ state'[p] \in {state[p], None} \/ SameFinds(p)

ResetAt(p) == /\ Tells(p, StartsOver)
              /\ state'[p] # None => state'[p].sessions = [s \in Sessions |-> None]

\* A call on session s moves its search on.
FindsAt(p) == \E s \in Sessions :
  /\ Tells(p, FindCalls) /\ ret'.out.s = s
  /\ ~Uninitialized(p) /\ ~Uninitialized(p)' /\ state'[p].next = state[p].next
  /\ \A r \in Sessions : HasSession(p, r)' => HasSession(p, r)
  /\ \A r \in Sessions \ {s} : Pending(p, r)' = Pending(p, r)
  /\ \/ /\ ret'.op = "C_FindObjectsInit" /\ ret'.out.class \in Classes
        /\ Pending(p, s)' = Matching(ret'.out.class)
     \/ /\ ret'.op = "C_FindObjects" /\ Pending(p, s) \in Seq(ObjectHandles)
        /\ ret'.out.found \in Seq(ObjectHandles) /\ Pending(p, s)' \in Seq(ObjectHandles)
        /\ ret'.out.found \o Pending(p, s)' = Pending(p, s)
     \/ /\ ret'.op \in {"C_FindObjectsFinal", "C_CloseSession"}
        /\ Pending(p, s)' = None

FindKind(p) == SilentAt(p) \/ ResetAt(p) \/ FindsAt(p)

\* Where the observer hears nothing of a process, its note stays or is dropped.
LEMMA SilentFinds ==
  ASSUME SearchInv, NEW p \in Procs, SilentAt(p), search'[p] = Observed(p)
  PROVE  search'[p] \in [Sessions -> Searches \cup {None}] /\ Exact(p)' /\ Numbered(p)'
<1>1. search'[p] = IF Uninitialized(p)' THEN NoSearch ELSE search[p]
  BY DEF Observed, SilentAt, Tells, StartsOver, FindCalls
<1>2. search[p] \in [Sessions -> Searches \cup {None}] /\ Exact(p) /\ Numbered(p)
  BY DEF SearchInv
<1>3. CASE Uninitialized(p)'
  <2>1. \A s \in Sessions : ~HasSession(p, s)' /\ search'[p][s] = None
    BY <1>1, <1>3 DEF Uninitialized, HasSession, NoSearch
  <2> QED
    BY <1>1, <1>3, <2>1 DEF Exact, Numbered, Pending, NoSearch
<1>4. CASE ~Uninitialized(p)' /\ state'[p] = state[p]
  BY <1>1, <1>2, <1>4 DEF Exact, Numbered, Pending, HasSession, Uninitialized
<1>5. CASE ~Uninitialized(p)' /\ SameFinds(p)
  <2>1. Exact(p)'
    BY <1>1, <1>2, <1>5 DEF Exact, SameFinds
  <2>2. Numbered(p)'
    BY <1>2, <1>5 DEF Numbered, SameFinds, Sessions, Uninitialized
  <2> QED
    BY <1>1, <1>2, <1>5, <2>1, <2>2
<1> QED
  BY <1>3, <1>4, <1>5 DEF SilentAt, Uninitialized

\* A STATE that is new, or gone, has no searches.
LEMMA ResetFinds ==
  ASSUME SearchInv, NEW p \in Procs, ResetAt(p), search'[p] = Observed(p)
  PROVE  search'[p] \in [Sessions -> Searches \cup {None}] /\ Exact(p)' /\ Numbered(p)'
<1>1. search'[p] = NoSearch
  BY DEF Observed, ResetAt, Tells, StartsOver
<1>2. \A s \in Sessions : ~HasSession(p, s)'
  BY DEF ResetAt, HasSession
<1> QED
  BY <1>1, <1>2 DEF Exact, Numbered, Pending, NoSearch

\* What has been handed out and what is still pending, when some of it moves over.
LEMMA HandedOut ==
  ASSUME NEW before \in Seq(ObjectHandles), NEW found \in Seq(ObjectHandles),
         NEW rest \in Seq(ObjectHandles)
  PROVE  (before \o found) \o rest = before \o (found \o rest)
  BY ConcatAssociative

\* A call on a session moves the note of its search on with it.
LEMMA FindsKeeps ==
  ASSUME SearchInv, NEW p \in Procs, FindsAt(p), search'[p] = Observed(p)
  PROVE  search'[p] \in [Sessions -> Searches \cup {None}] /\ Exact(p)' /\ Numbered(p)'
<1>1. PICK s \in Sessions :
        /\ Tells(p, FindCalls) /\ ret'.out.s = s
        /\ ~Uninitialized(p) /\ ~Uninitialized(p)' /\ state'[p].next = state[p].next
        /\ \A r \in Sessions : HasSession(p, r)' => HasSession(p, r)
        /\ \A r \in Sessions \ {s} : Pending(p, r)' = Pending(p, r)
        /\ \/ /\ ret'.op = "C_FindObjectsInit" /\ ret'.out.class \in Classes
              /\ Pending(p, s)' = Matching(ret'.out.class)
           \/ /\ ret'.op = "C_FindObjects" /\ Pending(p, s) \in Seq(ObjectHandles)
              /\ ret'.out.found \in Seq(ObjectHandles) /\ Pending(p, s)' \in Seq(ObjectHandles)
              /\ ret'.out.found \o Pending(p, s)' = Pending(p, s)
           \/ /\ ret'.op \in {"C_FindObjectsFinal", "C_CloseSession"}
              /\ Pending(p, s)' = None
  BY DEF FindsAt
<1>2. search[p] \in [Sessions -> Searches \cup {None}] /\ Exact(p) /\ Numbered(p)
  BY DEF SearchInv
<1>3. Numbered(p)'
  BY <1>1, <1>2 DEF Numbered
<1>4. ASSUME NEW new \in Searches \cup {None}, search'[p] = [search[p] EXCEPT ![s] = new],
             /\ new # None <=> Pending(p, s)' # None
             /\ new # None => new.handles \o Pending(p, s)' = Matching(new.class)
      PROVE  search'[p] \in [Sessions -> Searches \cup {None}] /\ Exact(p)'
  <2>1. search'[p] \in [Sessions -> Searches \cup {None}]
    BY <1>2, <1>4
  <2>2. /\ search'[p][s] = new
        /\ \A r \in Sessions \ {s} : search'[p][r] = search[p][r]
    BY <1>2, <1>4
  <2>3. ASSUME NEW r \in Sessions \ {s}
        PROVE  LET open == search'[p][r] IN
               /\ open # None <=> Pending(p, r)' # None
               /\ open # None => open.handles \o Pending(p, r)' = Matching(open.class)
    <3>1. search'[p][r] = search[p][r] /\ Pending(p, r)' = Pending(p, r)
      BY <1>1, <2>2
    <3> QED
      BY <1>2, <3>1 DEF Exact
  <2> QED
    BY <1>4, <2>1, <2>2, <2>3 DEF Exact
<1>5. CASE ret'.op = "C_FindObjectsInit"
  <2> DEFINE new == [class |-> ret'.out.class, handles |-> <<>>]
  <2>1. search'[p] = [search[p] EXCEPT ![s] = new]
    BY <1>1, <1>5 DEF Observed, Tells
  <2>2. Matching(ret'.out.class) \in Seq(ObjectHandles) /\ ret'.out.class \in Classes
    BY <1>1, <1>5, MatchingType
  <2>3. new \in Searches /\ new # None /\ Pending(p, s)' # None
    <3>1. <<>> \in Seq(ObjectHandles)
      OBVIOUS
    <3>2. new \in Searches
      BY <2>2, <3>1 DEF Searches
    <3> HIDE DEF new
    <3> QED
      BY <1>1, <1>5, <2>2, <3>2, NoneIsNoSearch
  <2>4. new.handles \o Pending(p, s)' = Matching(new.class)
    BY <1>1, <1>5, <2>2
  <2> HIDE DEF new
  <2> QED
    BY <1>3, <1>4, <2>1, <2>3, <2>4
<1>6. CASE ret'.op = "C_FindObjects"
  <2> DEFINE old == search[p][s]
             found == ret'.out.found
             new == [old EXCEPT !.handles = @ \o found]
  <2>1. search'[p] = [search[p] EXCEPT ![s].handles = @ \o found]
    BY <1>1, <1>6 DEF Observed, Tells
  <2>2. old # None /\ old \in Searches
    BY <1>1, <1>2, <1>6, NoneIsNoSearch DEF Exact
  <2>3. /\ new \in Searches /\ new.handles = old.handles \o found /\ new.class = old.class
        /\ old.handles \in Seq(ObjectHandles) /\ found \in Seq(ObjectHandles)
    <3>1. old.handles \in Seq(ObjectHandles) /\ found \in Seq(ObjectHandles) /\ old.class \in Classes
      BY <1>1, <1>6, <2>2 DEF Searches
    <3>2. old.handles \o found \in Seq(ObjectHandles)
      BY <3>1, ConcatProperties
    <3> HIDE DEF found
    <3> QED
      BY <2>2, <3>1, <3>2 DEF Searches
  <2>4. search'[p] = [search[p] EXCEPT ![s] = new]
    BY <2>1
  <2>5. old.handles \o Pending(p, s) = Matching(old.class)
    BY <1>2, <2>2 DEF Exact
  <2>6. new.handles \o Pending(p, s)' = Matching(new.class)
    <3>1. Pending(p, s)' \in Seq(ObjectHandles) /\ found \o Pending(p, s)' = Pending(p, s)
      BY <1>1, <1>6
    <3> DEFINE before == old.handles
               rest == Pending(p, s)'
    <3>2. before \in Seq(ObjectHandles) /\ found \in Seq(ObjectHandles) /\ rest \in Seq(ObjectHandles)
      BY <2>3, <3>1
    <3>3. (before \o found) \o rest = before \o (found \o rest)
      <4> HIDE DEF before, found, rest
      <4> QED
        BY <3>2, HandedOut
    <3> QED
      BY <2>3, <2>5, <3>1, <3>3
  <2>7. new # None /\ Pending(p, s)' # None
    BY <1>1, <1>6, <2>3, NoneIsNoSearch
  <2> HIDE DEF new, old, found
  <2> QED
    BY <1>3, <1>4, <2>3, <2>4, <2>6, <2>7
<1>7. CASE ret'.op \in {"C_FindObjectsFinal", "C_CloseSession"}
  <2>1. search'[p] = [search[p] EXCEPT ![s] = None]
    BY <1>1, <1>7 DEF Observed, Tells
  <2>2. Pending(p, s)' = None
    BY <1>1, <1>7
  <2> QED
    BY <1>3, <1>4, <2>1, <2>2
<1> QED
  BY <1>1, <1>5, <1>6, <1>7 DEF Tells, FindCalls

\* A step of a thread of process p moves searches of p only.
LEMMA ElsewhereSilent ==
  ASSUME NEW p \in Procs, NEW q \in Procs, q # p, state'[q] = state[q],
         ret' = None \/ ProcOf[ret'.by] = p
  PROVE  SilentAt(q)
  BY DEF SilentAt, Tells

\* A step that leaves every STATE alone and answers no search.
LEMMA NothingFound ==
  ASSUME UNCHANGED state,
         ret' = None \/ ret'.rv # "OK" \/ ret'.op \notin StartsOver \cup FindCalls
  PROVE  \A q \in Procs : FindKind(q)
  BY DEF FindKind, SilentAt, Tells

\* What SetSession changes.
LEMMA SessionSet ==
  ASSUME Typed, NEW p \in Procs, NEW s \in Sessions, HasSession(p, s),
         NEW new \in SessionState \cup {None}, SetSession(p, s, new)
  PROVE  /\ ~Uninitialized(p) /\ ~Uninitialized(p)'
         /\ state[p].next \in Nat /\ state'[p].next = state[p].next
         /\ state'[p].sessions[s] = new
         /\ \A r \in Sessions \ {s} : state'[p].sessions[r] = state[p].sessions[r]
         /\ \A r \in Sessions \ {s} : /\ Pending(p, r)' = Pending(p, r)
                                      /\ HasSession(p, r)' <=> HasSession(p, r)
         /\ Pending(p, s)' = IF new = None THEN None ELSE new.pending_find
         /\ \A q \in Procs \ {p} : state'[q] = state[q]
<1> DEFINE st == [state[p] EXCEPT !.sessions[s] = new]
<1>1. /\ state[p] \in ProviderState /\ state \in [Procs -> ProviderState \cup {None}]
      /\ ~Uninitialized(p)
  BY DEF Typed, ProviderTypeOK, HasSession, Uninitialized
<1>2. /\ st \in ProviderState /\ st.next = state[p].next /\ st.next \in Nat
      /\ st.sessions[s] = new
      /\ \A r \in Sessions \ {s} : st.sessions[r] = state[p].sessions[r]
  BY <1>1, ProviderAssumption DEF ProviderState
<1>3. state' = [state EXCEPT ![p] = st]
  BY DEF SetSession
<1> HIDE DEF st
<1>4. state'[p] = st /\ st # None /\ \A q \in Procs \ {p} : state'[q] = state[q]
  BY <1>1, <1>2, <1>3, NoneIsNoState
<1> QED
  BY <1>1, <1>2, <1>4 DEF Pending, HasSession, Uninitialized

\* A call on a session that is no search, and leaves its search alone.
LEMMA SessionSilent ==
  ASSUME Typed, NEW p \in Procs, NEW s \in Sessions, HasSession(p, s), NEW b \in BOOLEAN,
         SetSession(p, s, [state[p].sessions[s] EXCEPT !.sign_active = b]),
         ret' = None \/ (ProcOf[ret'.by] = p /\ ret'.op \notin StartsOver \cup FindCalls)
  PROVE  \A q \in Procs : FindKind(q)
<1> DEFINE old == state[p].sessions[s]
           new == [old EXCEPT !.sign_active = b]
<1>1. old \in SessionState
  BY StateFields DEF HasSession, Uninitialized
<1>2. new \in SessionState /\ new.pending_find = old.pending_find
  BY <1>1 DEF SessionState
<1>3. SetSession(p, s, new)
  OBVIOUS
<1>4. Pending(p, s) = old.pending_find
  BY DEF Pending
<1> HIDE DEF new, old
<1>5. new # None
  BY <1>2, NoneIsNoSearch
<1>6. SameFinds(p)
  BY <1>2, <1>3, <1>4, <1>5, SessionSet DEF SameFinds
<1>7. SilentAt(p)
  BY <1>6 DEF SilentAt, Tells
<1>8. \A q \in Procs \ {p} : SilentAt(q)
  BY <1>2, <1>3, SessionSet, ElsewhereSilent
<1> QED
  BY <1>7, <1>8 DEF FindKind

\* c_open_session gives a number that no session has had.
LEMMA OpenFinds ==
  ASSUME Typed, SearchInv, NEW t \in Threads, OpenSession(t)
  PROVE  \A q \in Procs : FindKind(q)
<1> DEFINE p == ProcOf[t]
<1>0. p \in Procs
  BY ProviderAssumption
<1>1. ret' # None => ret'.by = t /\ ret'.op = "C_OpenSession"
  BY DEF OpenSession, Returns
<1>2. CASE UNCHANGED state
  BY <1>1, <1>2, NothingFound DEF StartsOver, FindCalls
<1>3. CASE ~Uninitialized(p) /\ state[p].next <= MaxSessions
  <2>0. PICK n : n = state[p].next
    OBVIOUS
  <2> DEFINE st == [state[p] EXCEPT !.sessions[n] = NewSession, !.next = n + 1]
  <2>1. /\ state[p] \in ProviderState /\ state \in [Procs -> ProviderState \cup {None}]
        /\ n \in Sessions /\ n \in Nat /\ n + 1 \in 1 .. MaxSessions + 1
    BY <1>0, <1>3, <2>0, StateFields, ProviderAssumption
       DEF Typed, ProviderTypeOK, ProviderState, Sessions
  <2>2. NewSession \in SessionState /\ NewSession.pending_find = None
    BY DEF NewSession, SessionState
  <2>3. /\ st \in ProviderState
        /\ st.sessions[n] = NewSession /\ st.next = n + 1
        /\ \A r \in Sessions \ {n} : st.sessions[r] = state[p].sessions[r]
    BY <2>1, <2>2 DEF ProviderState
  <2>4. state' = [state EXCEPT ![p] = st]
    BY <1>3, <2>0 DEF OpenSession
  <2> HIDE DEF st
  <2>5. state'[p] = st /\ st # None /\ \A q \in Procs \ {p} : state'[q] = state[q]
    BY <1>0, <2>1, <2>3, <2>4, NoneIsNoState
  <2>6. ~HasSession(p, n)
    BY <1>0, <1>3, <2>0, <2>1 DEF SearchInv, Numbered
  <2>7. SameFinds(p)
    <3>1. \A r \in Sessions \ {n} : /\ Pending(p, r)' = Pending(p, r)
                                    /\ HasSession(p, r)' => HasSession(p, r)
      BY <1>3, <2>3, <2>5 DEF Pending, HasSession, Uninitialized
    <3>2. Pending(p, n)' = Pending(p, n) /\ n < state'[p].next
      BY <2>1, <2>2, <2>3, <2>5, <2>6 DEF Pending, HasSession, Uninitialized
    <3> QED
      BY <1>3, <2>0, <2>1, <2>3, <2>5, <3>1, <3>2 DEF SameFinds, Uninitialized
  <2>8. SilentAt(p)
    BY <1>1, <2>7 DEF SilentAt, Tells, StartsOver, FindCalls
  <2>9. \A q \in Procs \ {p} : SilentAt(q)
    BY <1>0, <1>1, <2>5, ElsewhereSilent
  <2> QED
    BY <2>8, <2>9 DEF FindKind
<1> QED
  BY <1>2, <1>3 DEF OpenSession

\* c_initialize and c_finalize leave no search open.
LEMMA StartFinds ==
  ASSUME Typed, NEW t \in Threads,
         \/ Initialize(t) \/ ConnectRefused(t) \/ InfoReply(t) \/ PublicKeyReply(t)
         \/ HandshakeFails(t) \/ Store(t) \/ Finalize(t)
  PROVE  \A q \in Procs : FindKind(q)
<1> DEFINE p == ProcOf[t]
<1>0. p \in Procs /\ state \in [Procs -> ProviderState \cup {None}]
  BY ProviderAssumption DEF Typed, ProviderTypeOK
<1>1. CASE Store(t) \/ Finalize(t)
  <2>1. Tells(p, StartsOver)
    <3>1. ret' \in Results /\ ret'.by = t /\ ret'.rv = "OK" /\ ret'.op \in StartsOver
      BY <1>1 DEF Store, Finalize, Returns, Results, StartsOver
    <3> QED
      BY <3>1, NoneIsNoSearch DEF Tells
  <2>2. state'[p] # None => state'[p].sessions = [s \in Sessions |-> None]
    BY <1>0, <1>1 DEF Store, Finalize, NewState
  <2>3. \A q \in Procs \ {p} : state'[q] = state[q]
    BY <1>0, <1>1 DEF Store, Finalize
  <2>4. ret' = None \/ ProcOf[ret'.by] = p
    BY <1>1 DEF Store, Finalize, Returns
  <2>5. \A q \in Procs \ {p} : SilentAt(q)
    BY <1>0, <2>3, <2>4, ElsewhereSilent
  <2> QED
    BY <2>1, <2>2, <2>5 DEF FindKind, ResetAt
<1>2. CASE Initialize(t) \/ InfoReply(t) \/ PublicKeyReply(t)
  BY <1>2, NothingFound DEF Initialize, InfoReply, PublicKeyReply
<1>3. CASE ConnectRefused(t) \/ HandshakeFails(t)
  BY <1>3, NothingFound DEF ConnectRefused, HandshakeFails, Returns
<1> QED
  BY <1>1, <1>2, <1>3

\* What C_ functions return that sign, or ask for the token or for an attribute.
LEMMA OthersSay ==
  ASSUME NEW t \in Threads,
         \/ GetTokenInfo(t) \/ SignDispatch(t) \/ SignFails(t) \/ GenerateFails(t)
         \/ \E object \in ObjectHandles, template \in Templates :
              GetAttributeValue(t, object, template)
  PROVE  /\ UNCHANGED state
         /\ ret' = None \/ ret'.op \in {"C_GetTokenInfo", "C_Sign", "C_GenerateKeyPair",
                                       "C_GetAttributeValue"}
<1>1. CASE SignDispatch(t)
  BY <1>1 DEF SignDispatch, Returns
<1> QED
  BY <1>1 DEF GetTokenInfo, SignFails, GenerateFails, GetAttributeValue, Returns

\* Neither do calls that sign, log in or ask for the key answer a search.
LEMMA OtherFinds ==
  ASSUME NEW t \in Threads, NEW s \in Sessions,
         \/ Login(t, s) \/ GenerateKeyPair(t, s)
         \/ \E m \in AllMsgs, room \in Rooms : Sign(t, s, m, room)
  PROVE  \A q \in Procs : FindKind(q)
<1>1. UNCHANGED state /\ (ret' = None \/ ret'.op \in {"C_Sign", "C_GenerateKeyPair", "C_Login"})
  <2>1. \A m \in AllMsgs, room \in Rooms : Sign(t, s, m, room) => ret' = None \/ ret'.op = "C_Sign"
    BY SMTT(60) DEF Sign, Returns
  <2>2. CASE Login(t, s)
    BY <2>2 DEF Login, Returns
  <2>3. CASE GenerateKeyPair(t, s)
    BY <2>3 DEF GenerateKeyPair, Returns
  <2>4. ASSUME NEW m \in AllMsgs, NEW room \in Rooms, Sign(t, s, m, room)
        PROVE  UNCHANGED state
    BY <2>4 DEF Sign, Returns
  <2> QED
    BY <2>1, <2>2, <2>3, <2>4
<1> QED
  BY <1>1, NothingFound DEF StartsOver, FindCalls

\* Nor does what changes a STATE elsewhere.
LEMMA SigningFinds ==
  ASSUME Typed, MutexInv, NEW t \in Threads,
         \/ \E s \in Sessions : SignInit(t, s)
         \/ SignReply(t) \/ GenerateReply(t)
  PROVE  \A q \in Procs : FindKind(q)
<1> DEFINE p == ProcOf[t]
<1>0. p \in Procs /\ state \in [Procs -> ProviderState \cup {None}]
  BY ProviderAssumption DEF Typed, ProviderTypeOK
<1>1. ASSUME NEW s \in Sessions, SignInit(t, s) PROVE \A q \in Procs : FindKind(q)
  <2>1. /\ ret'.by = t /\ ret'.op = "C_SignInit"
    BY <1>1 DEF SignInit, Returns
  <2>2. CASE SessionRv(p, s) = "OK"
    <3>1. SetSession(p, s, [state[p].sessions[s] EXCEPT !.sign_active = TRUE])
      BY <1>1, <2>2 DEF SignInit
    <3> QED
      BY <1>0, <2>1, <2>2, <3>1, SessionRvOk, SessionSilent DEF StartsOver, FindCalls
  <2>3. CASE SessionRv(p, s) # "OK"
    BY <1>1, <2>1, <2>3, NothingFound DEF SignInit, StartsOver, FindCalls
  <2> QED
    BY <2>2, <2>3
<1>2. CASE SignReply(t)
  <2>1. /\ call[t].s \in Sessions /\ HasSession(p, call[t].s)
        /\ SetSession(p, call[t].s, [state[p].sessions[call[t].s] EXCEPT !.sign_active = FALSE])
        /\ ret'.by = t /\ ret'.op = "C_Sign"
    <3>1. call[t].at = "sign_wait" /\ call[t] \in Places
      BY <1>2 DEF SignReply, Typed, ProviderTypeOK
    <3>2. call[t].s \in Sessions
      BY <3>1, PlaceFields
    <3> QED
      BY <1>2, <3>2 DEF SignReply, Returns
  <2> QED
    BY <1>0, <2>1, SessionSilent DEF StartsOver, FindCalls
<1>3. CASE GenerateReply(t)
  <2>1. InExchange(t)
    BY <1>3 DEF GenerateReply, InExchange
  <2>2. state[p] # None /\ state[p] \in ProviderState
    BY <1>0, <2>1, ExchangeFields DEF Uninitialized
  <2>3. /\ state'[p] = [state[p] EXCEPT !.pk = Response(state[p].conn).body]
        /\ \A q \in Procs \ {p} : state'[q] = state[q]
        /\ ret'.by = t /\ ret'.op = "C_GenerateKeyPair"
    BY <1>0, <1>3 DEF GenerateReply, Returns
  <2>4. /\ state'[p].sessions = state[p].sessions /\ state'[p].next = state[p].next
        /\ state[p].next \in Nat
    BY <2>2, <2>3, ProviderAssumption DEF ProviderState
  <2>5. SilentAt(p)
    <3>1. CASE state'[p] = None
      BY <2>3, <3>1 DEF SilentAt, Tells, StartsOver, FindCalls
    <3>2. CASE state'[p] # None
      <4>1. SameFinds(p)
        BY <2>2, <2>4, <3>2 DEF SameFinds, Pending, HasSession, Uninitialized
      <4> QED
        BY <2>3, <4>1 DEF SilentAt, Tells, StartsOver, FindCalls
    <3> QED
      BY <3>1, <3>2
  <2>6. \A q \in Procs \ {p} : SilentAt(q)
    BY <1>0, <2>3, ElsewhereSilent
  <2> QED
    BY <2>5, <2>6 DEF FindKind
<1> QED
  BY <1>1, <1>2, <1>3

\* A process that ends has no searches.
LEMMA EndFinds ==
  ASSUME Typed, NEW p \in Procs,
         Exit(p) \/ \E t \in Threads : ProcOf[t] = p /\ SignPanics(t)
  PROVE  \A q \in Procs : FindKind(q)
<1>1. ret' = None /\ state' = [state EXCEPT ![p] = None]
  BY DEF Exit, SignPanics, Ends
<1>2. \A q \in Procs : state'[q] \in {state[q], None}
  BY <1>1 DEF Typed, ProviderTypeOK
<1> QED
  BY <1>1, <1>2 DEF FindKind, SilentAt, Tells

\* The handles that fit the caller's array, and those that are left, are the pending ones.
LEMMA SplitPending ==
  ASSUME NEW pending \in Seq(ObjectHandles), NEW room \in 0 .. 3
  PROVE  LET n     == IF room < Len(pending) THEN room ELSE Len(pending)
             found == SubSeq(pending, 1, n)
             rest  == SubSeq(pending, n + 1, Len(pending))
         IN /\ found \in Seq(ObjectHandles) /\ rest \in Seq(ObjectHandles)
            /\ found \o rest = pending
            /\ Len(found) <= room /\ (Len(found) < room => rest = <<>>)
<1> DEFINE n == IF room < Len(pending) THEN room ELSE Len(pending)
           found == SubSeq(pending, 1, n)
           rest  == SubSeq(pending, n + 1, Len(pending))
<1>1. Len(pending) \in Nat /\ n \in 0 .. Len(pending) /\ n <= room
      /\ (n < room => n = Len(pending))
  OBVIOUS
<1>2. rest \in Seq(ObjectHandles)
  BY RestType
<1> HIDE DEF n
<1>3. found \in Seq(ObjectHandles) /\ Len(found) = n
  <2>1. \A i \in 1 .. n : pending[i] \in ObjectHandles
    BY <1>1
  <2> QED
    BY <1>1, <2>1, SubSeqProperties
<1>4. found \o rest = pending
  <2>1. found \o rest = SubSeq(pending, 1, Len(pending))
    <3>1. 1 \in 1 .. Len(pending) + 1 /\ n \in 1 - 1 .. Len(pending) /\ Len(pending) \in n .. Len(pending)
      BY <1>1
    <3> QED
      BY <3>1, ConcatAdjacentSubSeq
  <2> QED
    BY <2>1, SubSeqFull
<1>5. n < room => rest = <<>>
  BY <1>1, SubSeqEmpty
<1> HIDE DEF found, rest
<1>6. Len(found) <= room /\ (Len(found) < room => rest = <<>>)
  BY <1>1, <1>3, <1>5
<1> QED
  BY <1>2, <1>3, <1>4, <1>6 DEF n, found, rest

\* What c_find_objects does, by what it returns.
LEMMA FindObjectsSays ==
  ASSUME NEW t \in Threads, NEW s \in Sessions, NEW room \in 0 .. 3, FindObjects(t, s, room)
  PROVE  LET p == ProcOf[t]
             pending == state[p].sessions[s].pending_find
             n == IF room < Len(pending) THEN room ELSE Len(pending)
             found == SubSeq(pending, 1, n)
             rest == SubSeq(pending, n + 1, Len(pending))
         IN /\ ret'.by = t /\ ret'.op = "C_FindObjects"
            /\ ret'.rv # "OK" => UNCHANGED state
            /\ ret'.rv = "OK" =>
                 /\ SessionRv(p, s) = "OK" /\ pending # None
                 /\ SetSession(p, s, [state[p].sessions[s] EXCEPT !.pending_find = rest])
                 /\ ret' = [by |-> t, op |-> "C_FindObjects", rv |-> "OK",
                            out |-> [s |-> s, room |-> room, found |-> found]]
<1> DEFINE p == ProcOf[t]
           rv == SessionRv(p, s)
           pending == state[p].sessions[s].pending_find
           n == IF room < Len(pending) THEN room ELSE Len(pending)
           found == SubSeq(pending, 1, n)
           rest == SubSeq(pending, n + 1, Len(pending))
           Sets == SetSession(p, s, [state[p].sessions[s] EXCEPT !.pending_find = rest])
<1>1. \/ rv # "OK" /\ Returns(t, "C_FindObjects", rv, None) /\ UNCHANGED state
      \/ /\ Returns(t, "C_FindObjects", "OPERATION_NOT_INITIALIZED", None)
         /\ UNCHANGED state
      \/ /\ rv = "OK" /\ pending # None /\ Sets
         /\ Returns(t, "C_FindObjects", "OK", [s |-> s, room |-> room, found |-> found])
  BY DEF FindObjects
<1> HIDE DEF p, rv, pending, n, found, rest, Sets
<1>2. /\ ret'.by = t /\ ret'.op = "C_FindObjects"
      /\ ret'.rv # "OK" => UNCHANGED state
      /\ ret'.rv = "OK" =>
           /\ rv = "OK" /\ pending # None /\ Sets
           /\ ret' = [by |-> t, op |-> "C_FindObjects", rv |-> "OK",
                      out |-> [s |-> s, room |-> room, found |-> found]]
  BY <1>1 DEF Returns
<1> QED
  BY <1>2 DEF p, rv, pending, n, found, rest, Sets

\* A search of a session, one call after the other (c_find_objects_init,
\* c_find_objects, c_find_objects_final), until the session is closed.
LEMMA CallFinds ==
  ASSUME Typed, NEW t \in Threads, NEW s \in Sessions,
         \/ \E class \in Classes : FindObjectsInit(t, s, class)
         \/ \E room \in 0 .. 3 : FindObjects(t, s, room)
         \/ FindObjectsFinal(t, s) \/ CloseSession(t, s)
  PROVE  \A q \in Procs : FindKind(q)
<1> DEFINE p == ProcOf[t]
           old == state[p].sessions[s]
<1>0. p \in Procs /\ state \in [Procs -> ProviderState \cup {None}]
  BY ProviderAssumption DEF Typed, ProviderTypeOK
<1>1. /\ ret'.by = t /\ ret'.op \in FindCalls
      /\ ret'.rv # "OK" => UNCHANGED state
      /\ ret'.rv = "OK" => SessionRv(p, s) = "OK"
  <2>1. CASE \E room \in 0 .. 3 : FindObjects(t, s, room)
    BY <2>1, FindObjectsSays DEF FindCalls
  <2>2. CASE \E class \in Classes : FindObjectsInit(t, s, class)
    BY <2>2 DEF FindObjectsInit, Returns, FindCalls
  <2>3. CASE FindObjectsFinal(t, s)
    BY <2>3 DEF FindObjectsFinal, Returns, FindCalls
  <2>4. CASE CloseSession(t, s)
    BY <2>4 DEF CloseSession, Returns, FindCalls
  <2> QED
    BY <2>1, <2>2, <2>3, <2>4
<1>2. CASE ret'.rv # "OK"
  BY <1>1, <1>2, NothingFound
<1>3. CASE ret'.rv = "OK"
  <2>1. HasSession(p, s) /\ old \in SessionState
    BY <1>0, <1>1, <1>3, SessionRvOk, StateFields DEF HasSession, Uninitialized
  <2>2. Pending(p, s) = old.pending_find
    BY <2>1 DEF Pending
  <2>3. ASSUME NEW new \in SessionState \cup {None}, SetSession(p, s, new), ret' \in Results,
               ret'.out.s = s,
               LET after == IF new = None THEN None ELSE new.pending_find IN
               \/ /\ ret'.op = "C_FindObjectsInit" /\ ret'.out.class \in Classes
                  /\ after = Matching(ret'.out.class)
               \/ /\ ret'.op = "C_FindObjects" /\ old.pending_find \in Seq(ObjectHandles)
                  /\ ret'.out.found \in Seq(ObjectHandles) /\ after \in Seq(ObjectHandles)
                  /\ ret'.out.found \o after = old.pending_find
               \/ /\ ret'.op \in {"C_FindObjectsFinal", "C_CloseSession"}
                  /\ after = None
        PROVE  \A q \in Procs : FindKind(q)
    <3>1. Tells(p, FindCalls)
      BY <1>1, <1>3, <2>3, NoneIsNoSearch DEF Tells
    <3>0. SetSession(p, s, new) /\ new \in SessionState \cup {None}
      BY <2>3
    <3>2. Pending(p, s)' = IF new = None THEN None ELSE new.pending_find
      BY <1>0, <2>1, <3>0, SessionSet
    <3>3. /\ ~Uninitialized(p) /\ ~Uninitialized(p)' /\ state'[p].next = state[p].next
          /\ \A r \in Sessions \ {s} : /\ Pending(p, r)' = Pending(p, r)
                                       /\ HasSession(p, r)' => HasSession(p, r)
          /\ \A q \in Procs \ {p} : state'[q] = state[q]
      BY <1>0, <2>1, <3>0, SessionSet
    <3>4. \A r \in Sessions : HasSession(p, r)' => HasSession(p, r)
      BY <2>1, <3>3
    <3>5. FindsAt(p)
      BY <2>2, <2>3, <3>1, <3>2, <3>3, <3>4 DEF FindsAt
    <3>6. \A q \in Procs \ {p} : SilentAt(q)
      BY <1>0, <1>1, <3>3, ElsewhereSilent
    <3> QED
      BY <3>5, <3>6 DEF FindKind
  <2>4. CASE CloseSession(t, s)
    <3>1. /\ SetSession(p, s, None) /\ ret' = [by |-> t, op |-> "C_CloseSession", rv |-> "OK",
                                              out |-> [s |-> s]]
      BY <1>3, <2>4 DEF CloseSession, Returns
    <3>2. ret' \in Results
      BY <3>1 DEF Results
    <3> QED
      BY <2>3, <3>1, <3>2
  <2>5. ASSUME NEW find \in Seq(ObjectHandles) \cup {None}
        PROVE  LET new == [old EXCEPT !.pending_find = find] IN
               new \in SessionState /\ new # None /\ new.pending_find = find
    BY <2>1, NoneIsNoSearch DEF SessionState
  <2>6. CASE FindObjectsFinal(t, s)
    <3>1. /\ SetSession(p, s, [old EXCEPT !.pending_find = None])
          /\ ret' = [by |-> t, op |-> "C_FindObjectsFinal", rv |-> "OK", out |-> [s |-> s]]
      BY <1>3, <2>6 DEF FindObjectsFinal, Returns
    <3>2. ret' \in Results
      BY <3>1 DEF Results
    <3> QED
      BY <2>3, <2>5, <3>1, <3>2
  <2>7. ASSUME NEW class \in Classes, FindObjectsInit(t, s, class)
        PROVE  \A q \in Procs : FindKind(q)
    <3>1. /\ SetSession(p, s, [old EXCEPT !.pending_find = Matching(class)])
          /\ ret' = [by |-> t, op |-> "C_FindObjectsInit", rv |-> "OK",
                     out |-> [s |-> s, class |-> class]]
      BY <1>3, <2>7 DEF FindObjectsInit, Returns
    <3>2. ret' \in Results
      BY <3>1 DEF Results
    <3>3. Matching(class) \in Seq(ObjectHandles)
      BY MatchingType
    <3> QED
      BY <2>3, <2>5, <3>1, <3>2, <3>3
  <2>8. ASSUME NEW room \in 0 .. 3, FindObjects(t, s, room)
        PROVE  \A q \in Procs : FindKind(q)
    <3> DEFINE pending == old.pending_find
               n == IF room < Len(pending) THEN room ELSE Len(pending)
               found == SubSeq(pending, 1, n)
               rest == SubSeq(pending, n + 1, Len(pending))
    <3>1. /\ pending # None /\ SetSession(p, s, [old EXCEPT !.pending_find = rest])
          /\ ret' = [by |-> t, op |-> "C_FindObjects", rv |-> "OK",
                     out |-> [s |-> s, room |-> room, found |-> found]]
      BY <1>3, <2>8, FindObjectsSays
    <3>2. pending \in Seq(ObjectHandles)
      BY <2>1, <3>1 DEF SessionState
    <3>3. /\ found \in Seq(ObjectHandles) /\ rest \in Seq(ObjectHandles)
          /\ found \o rest = pending
      BY <3>2, SplitPending
    <3> HIDE DEF found, rest, pending
    <3>4. ret' \in Results
      BY <3>1, <3>3 DEF Results
    <3> QED
      BY <2>3, <2>5, <3>1, <3>2, <3>3, <3>4 DEF pending
  <2> QED
    BY <2>4, <2>6, <2>7, <2>8
<1> QED
  BY <1>2, <1>3

\* Every step of the provider keeps, drops or moves on the searches of a process.
LEMMA FindStep ==
  ASSUME Typed, MutexInv, SearchInv, ProviderNext
  PROVE  \A q \in Procs : FindKind(q)
<1>1. ASSUME NEW t \in Threads,
             \/ Initialize(t) \/ ConnectRefused(t) \/ InfoReply(t) \/ PublicKeyReply(t)
             \/ HandshakeFails(t) \/ Store(t) \/ Finalize(t)
      PROVE  \A q \in Procs : FindKind(q)
  BY <1>1, StartFinds
<1>2. ASSUME NEW t \in Threads, NEW s \in Sessions,
             \/ Login(t, s) \/ GenerateKeyPair(t, s) \/ SignInit(t, s)
             \/ \E m \in AllMsgs, room \in Rooms : Sign(t, s, m, room)
             \/ \E class \in Classes : FindObjectsInit(t, s, class)
             \/ \E room \in 0 .. 3 : FindObjects(t, s, room)
             \/ FindObjectsFinal(t, s) \/ CloseSession(t, s)
      PROVE  \A q \in Procs : FindKind(q)
  BY <1>2, OtherFinds, SigningFinds, CallFinds
<1>3. ASSUME NEW t \in Threads,
             \/ GetTokenInfo(t) \/ SignDispatch(t) \/ SignFails(t) \/ GenerateFails(t)
             \/ \E object \in ObjectHandles, template \in Templates :
                  GetAttributeValue(t, object, template)
      PROVE  \A q \in Procs : FindKind(q)
  <2>1. /\ UNCHANGED state
        /\ ret' = None \/ ret'.op \in {"C_GetTokenInfo", "C_Sign", "C_GenerateKeyPair",
                                      "C_GetAttributeValue"}
    BY <1>3, OthersSay
  <2> QED
    BY <2>1, NothingFound DEF StartsOver, FindCalls
<1>4. ASSUME NEW t \in Threads, SignReply(t) \/ GenerateReply(t) \/ OpenSession(t)
      PROVE  \A q \in Procs : FindKind(q)
  BY <1>4, SigningFinds, OpenFinds
<1>5. ASSUME NEW p \in Procs, Exit(p) \/ \E t \in Threads : ProcOf[t] = p /\ SignPanics(t)
      PROVE  \A q \in Procs : FindKind(q)
  BY <1>5, EndFinds
<1>6. ASSUME NEW t \in Threads, SignPanics(t) PROVE \A q \in Procs : FindKind(q)
  BY <1>5, <1>6, ProviderAssumption
<1> QED
  BY <1>1, <1>2, <1>3, <1>4, <1>5, <1>6 DEF ProviderNext, Continues

\* Only c_find_objects answers with handles, and it ends with a short answer.
LEMMA ShortProvider ==
  ASSUME Typed, ProviderNext
  PROVE  ShortAnswerIsLast'
<1>1. ASSUME NEW t \in Threads, NEW s \in Sessions, NEW room \in 0 .. 3, FindObjects(t, s, room),
             ret'.rv = "OK"
      PROVE  ShortAnswerIsLast'
  <2> DEFINE p == ProcOf[t]
             old == state[p].sessions[s]
             pending == old.pending_find
             n == IF room < Len(pending) THEN room ELSE Len(pending)
             found == SubSeq(pending, 1, n)
             rest == SubSeq(pending, n + 1, Len(pending))
             new == [old EXCEPT !.pending_find = rest]
  <2>1. /\ SessionRv(p, s) = "OK" /\ pending # None /\ SetSession(p, s, new)
        /\ ret' = [by |-> t, op |-> "C_FindObjects", rv |-> "OK",
                   out |-> [s |-> s, room |-> room, found |-> found]]
    BY <1>1, FindObjectsSays
  <2>2. p \in Procs /\ HasSession(p, s) /\ old \in SessionState
    BY <2>1, SessionRvOk, StateFields, ProviderAssumption, SMTT(60)
       DEF HasSession, Uninitialized
  <2>3. pending \in Seq(ObjectHandles)
    BY <2>1, <2>2 DEF SessionState
  <2>4. /\ found \in Seq(ObjectHandles) /\ rest \in Seq(ObjectHandles)
        /\ Len(found) <= room /\ (Len(found) < room => rest = <<>>)
    BY <2>3, SplitPending
  <2> HIDE DEF found, rest, pending
  <2>5. new \in SessionState /\ new.pending_find = rest
    BY <2>2, <2>4 DEF SessionState
  <2> HIDE DEF new
  <2>6. state'[p].sessions[s] = new
    BY <2>1, <2>2, <2>5, SessionSet
  <2> QED
    BY <2>1, <2>4, <2>5, <2>6 DEF ShortAnswerIsLast
<1>2. CASE ret' = None \/ ret'.op # "C_FindObjects" \/ ret'.rv # "OK"
  BY <1>2 DEF ShortAnswerIsLast
<1>3. CASE \E t \in Threads, s \in Sessions, room \in 0 .. 3 : FindObjects(t, s, room)
  BY <1>1, <1>2, <1>3
<1>4. ASSUME NEW t \in Threads, NEW s \in Sessions,
             \/ CloseSession(t, s) \/ Login(t, s) \/ FindObjectsFinal(t, s)
             \/ \E class \in Classes : FindObjectsInit(t, s, class)
             \/ SignInit(t, s) \/ GenerateKeyPair(t, s)
      PROVE  ShortAnswerIsLast'
  <2>1. CASE CloseSession(t, s)
    BY <1>2, <2>1 DEF CloseSession, Returns
  <2>2. CASE Login(t, s)
    BY <1>2, <2>2 DEF Login, Returns
  <2>3. CASE FindObjectsFinal(t, s)
    BY <1>2, <2>3 DEF FindObjectsFinal, Returns
  <2>4. ASSUME NEW class \in Classes, FindObjectsInit(t, s, class)
        PROVE  ShortAnswerIsLast'
    BY <1>2, <2>4 DEF FindObjectsInit, Returns
  <2>5. CASE SignInit(t, s)
    BY <1>2, <2>5 DEF SignInit, Returns
  <2>6. CASE GenerateKeyPair(t, s)
    BY <1>2, <2>6 DEF GenerateKeyPair, Returns
  <2> QED
    BY <1>4, <2>1, <2>2, <2>3, <2>4, <2>5, <2>6
<1>5. ASSUME NEW t \in Threads, NEW s \in Sessions, NEW m \in AllMsgs, NEW room \in Rooms,
             Sign(t, s, m, room)
      PROVE  ShortAnswerIsLast'
  BY <1>2, <1>5 DEF Sign, Returns
<1>6. ASSUME NEW t \in Threads,
             \/ Initialize(t) \/ InfoReply(t) \/ PublicKeyReply(t) \/ SignPanics(t)
             \/ \E p \in Procs : Exit(p)
      PROVE  ShortAnswerIsLast'
  BY <1>2, <1>6 DEF Initialize, InfoReply, PublicKeyReply, SignPanics, Exit, Ends
<1>7. ASSUME NEW t \in Threads,
             \/ ConnectRefused(t) \/ HandshakeFails(t) \/ Store(t) \/ Finalize(t)
             \/ OpenSession(t) \/ SignReply(t) \/ GenerateReply(t)
      PROVE  ShortAnswerIsLast'
  <2>1. ret'.op # "C_FindObjects"
    BY <1>7, SMTT(60)
       DEF ConnectRefused, HandshakeFails, Store, Finalize, OpenSession, SignReply,
                GenerateReply, Returns
  <2> QED
    BY <1>2, <2>1
<1>8. ASSUME NEW t \in Threads,
             \/ GetTokenInfo(t) \/ SignDispatch(t) \/ SignFails(t) \/ GenerateFails(t)
             \/ \E object \in ObjectHandles, template \in Templates :
                  GetAttributeValue(t, object, template)
      PROVE  ShortAnswerIsLast'
  BY <1>2, <1>8, OthersSay
<1>9. CASE \E p \in Procs : Exit(p)
  BY <1>2, <1>9 DEF Exit, Ends
<1> QED
  BY <1>3, <1>4, <1>5, <1>6, <1>7, <1>8, <1>9 DEF ProviderNext, Continues

\* What the observer has noted stays what the sessions still hold, step by step.
LEMMA SearchInvNext ==
  TypeOK /\ IndInv /\ SearchInv /\ [SearchNext]_<<vars, search, told>> => SearchInv'
<1> SUFFICES ASSUME TypeOK, IndInv, SearchInv, [SearchNext]_<<vars, search, told>>
             PROVE  SearchInv'
  OBVIOUS
<1>1. CASE SearchNext
  <2>1. \A q \in Procs : FindKind(q)
    <3>1. CASE ProviderStep
      BY <1>1, <3>1, FindStep DEF ProviderStep, TypeOK, IndInv, Typed
    <3>2. CASE DevStep
      BY <3>2, NothingFound DEF DevStep, Quietly
    <3> QED
      BY <1>1, <3>1, <3>2 DEF SearchNext, Next
  <2>2. search' = [p \in Procs |-> Observed(p)]
    BY <1>1 DEF SearchNext
  <2>3. ASSUME NEW p \in Procs
        PROVE  search'[p] \in [Sessions -> Searches \cup {None}] /\ Exact(p)' /\ Numbered(p)'
    <3>1. search'[p] = Observed(p)
      BY <2>2
    <3> QED
      BY <2>1, <3>1, SilentFinds, ResetFinds, FindsKeeps DEF FindKind
  <2>4. search' \in [Procs -> [Sessions -> Searches \cup {None}]]
    <3>1. \A p \in Procs : Observed(p) \in [Sessions -> Searches \cup {None}]
      BY <2>2, <2>3
    <3> QED
      BY <2>2, <3>1
  <2> QED
    BY <2>3, <2>4 DEF SearchInv
<1>2. CASE UNCHANGED <<vars, search, told>>
  BY <1>2 DEF vars, providerVars, SearchInv, Exact, Numbered, Pending, HasSession, Uninitialized
<1> QED
  BY <1>1, <1>2

\* The observer leaves the system as it is.
LEMMA ObserverOnly == SearchSpec => Spec
<1>1. SearchInit => Init
  BY DEF SearchInit
<1>2. [SearchNext]_<<vars, search, told>> => [Next]_vars
  BY DEF SearchNext
<1> QED
  BY <1>1, <1>2, PTL DEF SearchSpec, Spec

\* A search hands out the objects of the class it was asked for, each once and in order,
\* whatever the other sessions and threads do (c_find_objects_init, c_find_objects and
\* c_find_objects_final of pkcs11-provider/src/lib.rs).
THEOREM EnumerationIsExact == SearchSpec => []EnumerationExact
<1>1. SearchInit => SearchInv
  BY DEF SearchInit, Init, ProviderInit, SearchInv, Exact, Numbered, Pending, HasSession,
         Uninitialized, NoSearch
<1>2. SearchInv => EnumerationExact
  <2> SUFFICES ASSUME SearchInv, NEW p \in Procs, NEW s \in Sessions
               PROVE  LET open == search[p][s] IN
                      /\ open # None <=> HasSession(p, s) /\ state[p].sessions[s].pending_find # None
                      /\ open # None =>
                           open.handles \o state[p].sessions[s].pending_find = Matching(open.class)
    BY DEF EnumerationExact
  <2> QED
    BY DEF SearchInv, Exact, Pending
<1> QED
  BY <1>1, <1>2, SearchInvNext, ObserverOnly, TypeCorrect, PairingHolds, PTL DEF SearchSpec

\* An answer with fewer handles than the caller's array has room for is the last one.
THEOREM ShortAnswerEndsSearch == Spec => []ShortAnswerIsLast
<1>1. Init => ShortAnswerIsLast
  BY DEF Init, ProviderInit, ShortAnswerIsLast
<1>2. TypeOK /\ ShortAnswerIsLast /\ [Next]_vars => ShortAnswerIsLast'
  <2> SUFFICES ASSUME TypeOK, ShortAnswerIsLast, [Next]_vars PROVE ShortAnswerIsLast'
    OBVIOUS
  <2>1. CASE ProviderStep
    BY <2>1, ShortProvider DEF ProviderStep, TypeOK, Typed
  <2>2. CASE DevStep
    BY <2>2 DEF DevStep, Quietly, ShortAnswerIsLast
  <2>3. CASE UNCHANGED vars
    BY <2>3 DEF vars, providerVars, ShortAnswerIsLast
  <2> QED
    BY <2>1, <2>2, <2>3 DEF Next
<1> QED
  BY <1>1, <1>2, TypeCorrect, PTL DEF Spec

-----------------------------------------------------------------------------
(* What a process is told of the token's public key.                       *)

\* Who answers a C_GetAttributeValue or a C_Initialize.
LEMMA OnlyTheseTell ==
  ASSUME ProviderNext, ret' # None, ret'.op \in {"C_GetAttributeValue", "C_Initialize"}
  PROVE  \/ ret'.op = "C_Initialize" /\ ret'.rv = "DEVICE_ERROR"
         \/ \E t \in Threads : Store(t)
         \/ \E t \in Threads, object \in ObjectHandles, template \in Templates :
              GetAttributeValue(t, object, template)
<1>1. ASSUME NEW t \in Threads, ConnectRefused(t) \/ HandshakeFails(t)
      PROVE  ret'.op = "C_Initialize" /\ ret'.rv = "DEVICE_ERROR"
  BY <1>1 DEF ConnectRefused, HandshakeFails, Returns
<1>2. ASSUME NEW t \in Threads, Initialize(t) \/ InfoReply(t) \/ PublicKeyReply(t) \/ SignPanics(t)
      PROVE  FALSE
  BY <1>2 DEF Initialize, InfoReply, PublicKeyReply, SignPanics, Ends
<1>3. ASSUME NEW p \in Procs, Exit(p) PROVE FALSE
  BY <1>3 DEF Exit, Ends
<1>4. ASSUME NEW t \in Threads,
             Finalize(t) \/ OpenSession(t) \/ GetTokenInfo(t)
      PROVE  FALSE
  BY <1>4 DEF Finalize, OpenSession, GetTokenInfo, Returns
<1>5. ASSUME NEW t \in Threads,
             SignDispatch(t) \/ SignReply(t) \/ SignFails(t) \/ GenerateReply(t) \/ GenerateFails(t)
      PROVE  FALSE
  <2>1. CASE SignDispatch(t)
    BY <2>1 DEF SignDispatch, Returns
  <2>2. CASE SignReply(t)
    BY <2>2 DEF SignReply, Returns
  <2>3. CASE SignFails(t)
    BY <2>3 DEF SignFails, Returns
  <2>4. CASE GenerateReply(t) \/ GenerateFails(t)
    BY <2>4 DEF GenerateReply, GenerateFails, Returns
  <2> QED
    BY <1>5, <2>1, <2>2, <2>3, <2>4
<1>6. ASSUME NEW t \in Threads, NEW s \in Sessions,
             \/ CloseSession(t, s) \/ Login(t, s) \/ FindObjectsFinal(t, s)
             \/ SignInit(t, s) \/ GenerateKeyPair(t, s)
      PROVE  FALSE
  <2>1. CASE CloseSession(t, s)
    BY <2>1 DEF CloseSession, Returns
  <2>2. CASE Login(t, s)
    BY <2>2 DEF Login, Returns
  <2>3. CASE FindObjectsFinal(t, s)
    BY <2>3 DEF FindObjectsFinal, Returns
  <2>4. CASE SignInit(t, s)
    BY <2>4 DEF SignInit, Returns
  <2>5. CASE GenerateKeyPair(t, s)
    BY <2>5 DEF GenerateKeyPair, Returns
  <2> QED
    BY <1>6, <2>1, <2>2, <2>3, <2>4, <2>5
<1>7. ASSUME NEW t \in Threads, NEW s \in Sessions,
             \/ \E class \in Classes : FindObjectsInit(t, s, class)
             \/ \E room \in 0 .. 3 : FindObjects(t, s, room)
      PROVE  FALSE
  <2>1. ASSUME NEW class \in Classes, FindObjectsInit(t, s, class) PROVE FALSE
    BY <2>1 DEF FindObjectsInit, Returns
  <2>2. ASSUME NEW room \in 0 .. 3, FindObjects(t, s, room) PROVE FALSE
    BY <2>2, FindObjectsSays
  <2> QED
    BY <1>7, <2>1, <2>2
<1>8. ASSUME NEW t \in Threads, NEW s \in Sessions, NEW m \in AllMsgs, NEW room \in Rooms,
             Sign(t, s, m, room)
      PROVE  FALSE
  BY <1>8, SMTT(60) DEF Sign, Returns
<1> QED
  BY <1>1, <1>2, <1>3, <1>4, <1>5, <1>6, <1>7, <1>8 DEF ProviderNext, Continues

\* Every attribute of every template is answered by itself, whatever key the process
\* has learnt, and the two calls of cryptoki's get_attributes succeed (attributes.rs).
THEOREM AttributesAreIndependent == Spec => []AttributesIndependent
<1>1. Init => AttributesIndependent
  BY DEF Init, ProviderInit, AttributesIndependent
<1>2. TypeOK /\ AttributesIndependent /\ [Next]_vars => AttributesIndependent'
  <2> SUFFICES ASSUME TypeOK, AttributesIndependent, [Next]_vars PROVE AttributesIndependent'
    OBVIOUS
  <2>1. CASE ProviderStep
    <3> SUFFICES ASSUME ret' # None, ret'.op = "C_Initialize", ret'.rv = "OK"
                 PROVE  IndependentWith(state'[ProcOf[ret'.by]].pk)
      BY DEF AttributesIndependent
    <3>1. ASSUME NEW t \in Threads, NEW object \in ObjectHandles, NEW template \in Templates,
                 GetAttributeValue(t, object, template)
          PROVE  FALSE
      BY <3>1 DEF GetAttributeValue, Returns
    <3>2. PICK t \in Threads : Store(t)
      BY <2>1, <3>1, OnlyTheseTell DEF ProviderStep
    <3>3. /\ call[t] \in Places /\ call[t].at = "store" /\ ret'.by = t /\ ProcOf[t] \in Procs
          /\ state' = [state EXCEPT ![ProcOf[t]]
                         = NewState(call[t].conn, call[t].param, call[t].pk)]
          /\ state \in [Procs -> ProviderState \cup {None}]
      BY <3>2, ProviderAssumption DEF TypeOK, ProviderTypeOK, Store, Returns
    <3>4. call[t].pk \in Payloads
      BY <3>3, PlaceFields
    <3>5. state'[ProcOf[ret'.by]].pk = call[t].pk
      BY <3>3 DEF NewState
    <3> QED
      BY <3>4, <3>5, PayloadLength, EveryKeyIndependent
  <2>2. CASE DevStep
    BY <2>2 DEF DevStep, Quietly, AttributesIndependent
  <2>3. CASE UNCHANGED vars
    BY <2>3 DEF vars, providerVars, AttributesIndependent
  <2> QED
    BY <2>1, <2>2, <2>3 DEF Next
<1> QED
  BY <1>1, <1>2, TypeCorrect, PTL DEF Spec

\* What a process was told is the length of the key it has.
ToldRight(p) == told[p] # None => /\ ~Uninitialized(p)
                                  /\ told[p] = ByteLen(state[p].pk)

\* The process has not begun anew.
Persists(p) == /\ ~Uninitialized(p) /\ ~Uninitialized(p)'
               /\ ~ (/\ ret' # None /\ ret'.op = "C_Initialize" /\ ret'.rv = "OK"
                     /\ ProcOf[ret'.by] = p)

\* The key of a process that goes on keeps its length.
LEMMA KeyLengthKept ==
  ASSUME Typed, IndInv, KnowledgeInv', ProviderNext, NEW p \in Procs, Persists(p)
  PROVE  ByteLen(state'[p].pk) = ByteLen(state[p].pk)
<1>1. /\ state[p].pk \in PublicKeys /\ state[p].pk.param = state[p].param
      /\ state'[p].pk \in PublicKeys /\ state'[p].pk.param = state'[p].param
  BY DEF IndInv, KnowledgeInv, Caches, Persists, Uninitialized
<1>2. state[p].pk.kind = "pk" /\ state'[p].pk.kind = "pk"
  BY <1>1, PublicKeyKind
<1>3. SUFFICES state'[p].pk = state[p].pk \/ state'[p].param = state[p].param
  BY <1>1, <1>2 DEF ByteLen
<1>4. ProviderKinds
  BY ProviderStepKinds DEF IndInv
<1>5. CASE Looks
  BY <1>5 DEF Looks, SameCores, Persists, Uninitialized
<1>6. ASSUME NEW q \in Procs, Leaving(q) PROVE state'[p] = state[p]
  BY <1>6 DEF Leaving, Persists, Uninitialized, Typed, ProviderTypeOK
<1>7. ASSUME NEW t \in Threads, ThreadKinds(t)
      PROVE  state'[p].pk = state[p].pk \/ state'[p].param = state[p].param
  <2>1. CASE Turns(t) \/ Dials(t) \/ Sends(t) \/ InfoReply(t) \/ PublicKeyReply(t) \/ HandshakeFails(t)
    BY <2>1 DEF Turns, Dials, Sends, InfoReply, PublicKeyReply, HandshakeFails
  <2>2. CASE Finishes(t)
    BY <2>2 DEF Finishes, SameCores, Persists, Uninitialized
  <2>3. CASE Store(t)
    <3>1. ProcOf[t] # p
      <4>1. ret' = [by |-> t, op |-> "C_Initialize", rv |-> "OK", out |-> None]
        BY <2>3 DEF Store, Returns
      <4>2. ret' # None
        BY <4>1, NoneIsNoSearch DEF Results
      <4> QED
        BY <4>1, <4>2 DEF Persists
    <3> QED
      BY <2>3, <3>1 DEF Store, Typed, ProviderTypeOK
  <2>4. CASE Finalize(t)
    BY <2>4 DEF Finalize, Typed, ProviderTypeOK, Persists, Uninitialized
  <2>5. CASE GenerateReply(t)
    <3>1. state' = [state EXCEPT ![ProcOf[t]] = [@ EXCEPT !.pk = Response(state[ProcOf[t]].conn).body]]
      BY <2>5 DEF GenerateReply
    <3>2. state[p] \in ProviderState
      BY StateFields DEF Persists
    <3>3. CASE ProcOf[t] = p
      BY <3>1, <3>2, <3>3 DEF ProviderState, Typed, ProviderTypeOK
    <3>4. CASE ProcOf[t] # p
      BY <3>1, <3>4 DEF Typed, ProviderTypeOK
    <3> QED
      BY <3>3, <3>4
  <2> QED
    BY <1>7, <2>1, <2>2, <2>3, <2>4, <2>5 DEF ThreadKinds
<1> QED
  BY <1>4, <1>5, <1>6, <1>7 DEF ProviderKinds

\* The lengths of the key that the step has told.
LengthsTold == {a.got.len : a \in {b \in Answered(ret)' : b.asked.room = None}}

\* An answer about the public key is taken from the cached one.
LEMMA AnsweredFromCache ==
  ASSUME ProviderNext, Answered(ret)' # {}
  PROVE  /\ UNCHANGED state /\ ret' # None /\ ProcOf[ret'.by] \in Procs
         /\ state[ProcOf[ret'.by]] # None
         /\ \A a \in Answered(ret)' :
              /\ a.asked \in SomeAttrs
              /\ a.got = Copied(a.asked, Bytes(ByteLen(state[ProcOf[ret'.by]].pk),
                                               state[ProcOf[ret'.by]].pk))
<1>1. /\ ret' # None /\ ret'.op = "C_GetAttributeValue" /\ ret'.rv # "CRYPTOKI_NOT_INITIALIZED"
      /\ Answered(ret)' = {[asked |-> ret'.out.template[i], got |-> ret'.out.attrs[i]] :
                              i \in {j \in DOMAIN ret'.out.template :
                                       ret'.out.object = PUBLIC_KEY_HANDLE
                                         /\ ret'.out.template[j].type = "CKA_VALUE"}}
  BY DEF Answered
<1>2. \A t \in Threads : ~Store(t)
  BY <1>1 DEF Store, Returns
<1>3. PICK t \in Threads, object \in ObjectHandles, template \in Templates :
        GetAttributeValue(t, object, template)
  BY <1>1, <1>2, OnlyTheseTell
<1> DEFINE p == ProcOf[t]
           done == get_attribute_values(object, state[p].pk, template)
<1>4. /\ UNCHANGED state /\ ~Uninitialized(p)
      /\ ret' = [by |-> t, op |-> "C_GetAttributeValue", rv |-> done.rv,
                 out |-> [object |-> object, template |-> template, attrs |-> done.attrs]]
  BY <1>1, <1>3 DEF GetAttributeValue, Returns
<1>5. template \in Seq(SomeAttrs) /\ Len(template) \in Nat /\ DOMAIN template = 1 .. Len(template)
  <2>1. template \in Seq(SomeAttrs)
    BY TemplatesAssumption DEF SomeAttrs
  <2> QED
    BY <2>1
<1>6. \A i \in DOMAIN template : /\ template[i] \in SomeAttrs
                                 /\ done.attrs[i] = ServedAttr(template[i], object, state[p].pk)
  <2>1. done = AnsweredUpTo(EachServed(object, state[p].pk, template), Len(template))
    BY <1>5, TemplateAnswers
  <2> HIDE DEF done
  <2> QED
    BY <1>5, <2>1 DEF AnsweredUpTo, EachServed
<1> HIDE DEF done
<1>7. ASSUME NEW a \in Answered(ret)'
      PROVE  /\ a.asked \in SomeAttrs
             /\ a.got = Copied(a.asked, Bytes(ByteLen(state[p].pk), state[p].pk))
  <2>1. PICK i \in DOMAIN template : /\ object = PUBLIC_KEY_HANDLE
                                     /\ template[i].type = "CKA_VALUE"
                                     /\ a = [asked |-> template[i], got |-> done.attrs[i]]
    BY <1>1, <1>4
  <2>2. a.asked = template[i] /\ a.got = ServedAttr(template[i], object, state[p].pk)
    BY <1>6, <2>1
  <2>3. ServedAttr(template[i], object, state[p].pk)
          = Copied(template[i], Bytes(ByteLen(state[p].pk), state[p].pk))
    BY <2>1 DEF ServedAttr, ValueOf
  <2> QED
    BY <1>6, <2>2, <2>3
<1> QED
  BY <1>1, <1>4, <1>7, ProviderAssumption DEF Uninitialized

LEMMA ToldStep ==
  ASSUME Typed, IndInv, KnowledgeInv', ProviderNext, NEW p \in Procs, ToldRight(p),
         told'[p] = Told(p)
  PROVE  ToldRight(p)'
<1> DEFINE tells == ret' # None /\ ProcOf[ret'.by] = p /\ LengthsTold # {}
<1>1. Told(p) = CASE Uninitialized(p)' \/ (ret' # None /\ ret'.op = "C_Initialize" /\ ret'.rv = "OK"
                                           /\ ProcOf[ret'.by] = p) -> None
                  [] tells -> CHOOSE n \in LengthsTold : TRUE
                  [] OTHER -> told[p]
  BY DEF Told, LengthsTold, Answered
<1>2. CASE ~Uninitialized(p)' /\ tells
  <2>1. /\ UNCHANGED state
        /\ \A a \in Answered(ret)' : a.got = Copied(a.asked, Bytes(ByteLen(state[p].pk), state[p].pk))
    BY <1>2, AnsweredFromCache DEF LengthsTold
  <2>2. LengthsTold = {ByteLen(state[p].pk)}
    BY <1>2, <2>1 DEF LengthsTold, Copied, Served, Bytes
  <2>3. ret'.op # "C_Initialize"
    BY <1>2 DEF LengthsTold, Answered
  <2> HIDE DEF LengthsTold
  <2>4. told'[p] = ByteLen(state[p].pk)
    BY <1>1, <1>2, <2>2, <2>3
  <2> QED
    BY <1>2, <2>1, <2>4 DEF ToldRight, Uninitialized
<1>3. CASE ~Uninitialized(p)' /\ ~tells
  <2>1. CASE told'[p] = None
    BY <2>1 DEF ToldRight
  <2>2. CASE told'[p] # None
    <3> HIDE DEF tells
    <3>1. told'[p] = told[p] /\ ~ (/\ ret' # None /\ ret'.op = "C_Initialize" /\ ret'.rv = "OK"
                                   /\ ProcOf[ret'.by] = p)
      BY <1>1, <1>3, <2>2
    <3>2. Persists(p) /\ told[p] = ByteLen(state[p].pk)
      BY <1>3, <2>2, <3>1 DEF ToldRight, Persists
    <3> QED
      BY <1>3, <3>1, <3>2, KeyLengthKept DEF ToldRight
  <2> QED
    BY <2>1, <2>2
<1>4. CASE Uninitialized(p)'
  <2>1. ~tells
    BY <1>4, AnsweredFromCache DEF LengthsTold, Uninitialized
  <2> HIDE DEF tells
  <2> QED
    BY <1>1, <1>4, <2>1 DEF ToldRight
<1> QED
  BY <1>2, <1>3, <1>4

ToldInv == /\ told \in [Procs -> Nat \cup {None}]
           /\ \A p \in Procs : ToldRight(p)

\* What a step tells is the length of the key, and enough for the whole of it.
LEMMA ToldNext ==
  ASSUME Typed, IndInv, KnowledgeInv', ProviderNext, ToldInv, told' = [p \in Procs |-> Told(p)]
  PROVE  ToldInv' /\ QueryThenRead'
<1>1. \A p \in Procs : told'[p] = Told(p)
  OBVIOUS
<1>2. \A p \in Procs : ToldRight(p)'
  BY <1>1, ToldStep DEF ToldInv
<1>3. \A p \in Procs : told'[p] \in Nat \cup {None}
  <2> TAKE p \in Procs
  <2>1. CASE told'[p] # None
    <3>1. state'[p].pk \in Payloads /\ told'[p] = ByteLen(state'[p].pk)
      BY <1>2, <2>1 DEF ToldRight, KnowledgeInv, Caches, Uninitialized, Payloads
    <3> QED
      BY <3>1, PayloadLength
  <2> QED
    BY <2>1
<1>4. ToldInv'
  BY <1>2, <1>3 DEF ToldInv
<1>5. QueryThenRead'
  <2> DEFINE p == ProcOf[ret'.by]
  <2> SUFFICES ASSUME NEW a \in Answered(ret)', told'[p] # None, a.asked.room # None,
                      a.asked.room >= told'[p]
               PROVE  a.got = Served("OK", told'[p], state'[p].pk)
    BY DEF QueryThenRead
  <2>1. /\ UNCHANGED state /\ p \in Procs /\ a.asked \in SomeAttrs
        /\ a.got = Copied(a.asked, Bytes(ByteLen(state[p].pk), state[p].pk))
    BY AnsweredFromCache
  <2>2. told'[p] = ByteLen(state[p].pk) /\ told'[p] \in Nat
    BY <1>2, <1>3, <2>1 DEF ToldRight
  <2>3. a.asked.room \in Nat /\ ~(a.asked.room < told'[p])
    BY <2>1, <2>2 DEF SomeAttrs
  <2> HIDE DEF p
  <2> QED
    BY <2>1, <2>2, <2>3, Zenon DEF Copied, Bytes
<1> QED
  BY <1>4, <1>5

\* The length that a process was told is the length of the key it reads, whatever its
\* threads generate in between (c_get_attribute_value in pkcs11-provider/src/lib.rs).
THEOREM QueryThenReadSucceeds == SearchSpec => []QueryThenRead
<1>1. SearchInit => ToldInv /\ QueryThenRead
  <2> SUFFICES ASSUME SearchInit PROVE ToldInv /\ QueryThenRead
    OBVIOUS
  <2>1. told = [p \in Procs |-> None] /\ ret = None
    BY DEF SearchInit, Init, ProviderInit
  <2> QED
    BY <2>1 DEF ToldInv, ToldRight, QueryThenRead, Answered
<1>2. TypeOK /\ IndInv /\ IndInv' /\ ToldInv /\ QueryThenRead
        /\ [SearchNext]_<<vars, search, told>> => ToldInv' /\ QueryThenRead'
  <2> SUFFICES ASSUME TypeOK, IndInv, IndInv', ToldInv, QueryThenRead,
                      [SearchNext]_<<vars, search, told>>
               PROVE  ToldInv' /\ QueryThenRead'
    OBVIOUS
  <2>1. ASSUME SearchNext, ProviderStep PROVE ToldInv' /\ QueryThenRead'
    BY <2>1, ToldNext DEF SearchNext, ProviderStep, TypeOK, Typed, IndInv
  <2>2. ASSUME SearchNext, DevStep PROVE ToldInv' /\ QueryThenRead'
    <3>1. ret' = None /\ UNCHANGED state /\ told' = [p \in Procs |-> Told(p)]
      BY <2>2 DEF SearchNext, DevStep, Quietly
    <3>2. \A p \in Procs : told'[p] = IF Uninitialized(p) THEN None ELSE told[p]
      BY <3>1 DEF Told, Answered, Uninitialized
    <3>3. ToldInv'
      BY <3>1, <3>2 DEF ToldInv, ToldRight, Uninitialized
    <3> QED
      BY <3>1, <3>3 DEF QueryThenRead, Answered
  <2>3. CASE UNCHANGED <<vars, search, told>>
    BY <2>3 DEF vars, providerVars, ToldInv, ToldRight, Uninitialized, QueryThenRead, Answered
  <2> QED
    BY <2>1, <2>2, <2>3 DEF SearchNext, Next
<1> QED
  BY <1>1, <1>2, ObserverOnly, TypeCorrect, PairingHolds, PTL DEF SearchSpec

-----------------------------------------------------------------------------
(* The files of the command-line clients: the inductive invariant.         *)

TheParam == CHOOSE p \in PARAM_SETS : TRUE

\* The public key of the key pair that the token has, or will start with.
TrueKey == KeyBytes(TheParam, IF backend = None THEN DemoKey ELSE backend.signing)

\* No generated key gets into a file, and the token has one parameter set.
ShippedInv == /\ disk = [p \in PARAM_SETS |-> DemoKey]
              /\ backend # None => backend.param = TheParam

IsPlace(x) == x \in [cmd : {x.cmd}, step : {x.step}, object : {x.object}, room : {x.room},
                      bytes : {x.bytes}, current : {x.current}]

\* The step of a command at which its thread waits.
CallOf == [get_info |-> "initialize", get_public_key |-> "initialize", store |-> "initialize",
           sign |-> "sign", sign_wait |-> "sign", gen_wait |-> "generate"]

\* A command is at a step of its script, in the call of that step or in none, and has
\* what it is going to write when it comes to write it.
InScript(t) ==
  /\ tool[t] # Rest =>
       /\ IsPlace(tool[t]) /\ tool[t].cmd \in DOMAIN Script
       /\ tool[t].step \in 1 .. Len(Script[tool[t].cmd])
       /\ tool[t].bytes # None => At(t, "truncate") \/ At(t, "fill")
  /\ call[t] # Idle => At(t, CallOf[call[t].at])

\* The answer to t's request has arrived, and is a good one.
AnswersCurrent(t) == Arrived(ConnOf(t)) /\ Response(ConnOf(t)).status = "Ok"

\* What a command whose knowledge is current knows of the token's key, wherever that
\* is written: in an answer, in its hands or in its STATE.
Knows(t) ==
  tool[t] # Rest /\ tool[t].current =>
    /\ call[t].at \in {"get_public_key", "gen_wait"} /\ AnswersCurrent(t)
       => Response(ConnOf(t)).body = TrueKey
    /\ call[t].at = "store" => call[t].pk = TrueKey
    /\ ~Handshaking(t) /\ call[t].at # "gen_wait" /\ state[ProcOf[t]] # None
       => state[ProcOf[t]].pk = TrueKey

\* Bytes for a file that agree with the token's key.
Agree(out, bytes) ==
  bytes # None => IF out = "pub" THEN bytes = TrueKey
                  ELSE bytes = SigBytes(TrueKey.param, TrueKey.key, bytes.msg)

HasCurrent(t) == tool[t] # Rest => Agree(Output[tool[t].cmd], tool[t].bytes)

FilesInv == /\ files = [pub |-> files.pub, sig |-> files.sig]
            /\ Agree("pub", files.pub) /\ Agree("sig", files.sig)

ToolsInv == /\ ShippedInv /\ FilesInv
            /\ DOMAIN tool = Threads
            /\ \A t \in Threads : InScript(t) /\ Knows(t) /\ HasCurrent(t)

-----------------------------------------------------------------------------
(* The scripts.                                                            *)

\* Where a step of a script leads.
LEMMA ScriptOrder ==
  ASSUME NEW cmd \in DOMAIN Script, NEW i \in 1 .. Len(Script[cmd])
  PROVE  /\ Script[cmd][i] # "exit" => i + 1 \in 1 .. Len(Script[cmd])
         /\ Script[cmd][i] \in {"value", "sign"} => Script[cmd][i + 1] = "truncate"
         /\ Script[cmd][i] = "truncate" => Script[cmd][i + 1] = "fill"
         /\ Script[cmd][i] \in {"length", "value"} => Output[cmd] = "pub"
         /\ Script[cmd][i] = "sign" => Output[cmd] = "sig"
         /\ Len(Script[cmd]) \in 1 .. Len(Script[cmd])
         /\ Output[cmd] \in {"pub", "sig"}
<1>1. CASE cmd = "get_pubkey"
  <2>1. /\ Script[cmd] = <<"initialize", "open", "find_init", "find", "find_final",
                           "length", "value", "truncate", "fill", "exit">>
        /\ Output[cmd] = "pub"
    BY <1>1 DEF Script, Output
  <2>2. Len(Script[cmd]) = 10
    BY <2>1
  <2> QED
    BY <2>1, <2>2
<1>2. CASE cmd = "generate_keypair"
  <2>1. /\ Script[cmd] = <<"initialize", "open", "generate",
                           "length", "value", "truncate", "fill", "exit">>
        /\ Output[cmd] = "pub"
    BY <1>2 DEF Script, Output
  <2>2. Len(Script[cmd]) = 8
    BY <2>1
  <2> QED
    BY <2>1, <2>2
<1>3. CASE cmd = "sign"
  <2>1. /\ Script[cmd] = <<"initialize", "open", "sign_init", "sign", "truncate", "fill", "exit">>
        /\ Output[cmd] = "sig"
    BY <1>3 DEF Script, Output
  <2>2. Len(Script[cmd]) = 7
    BY <2>1
  <2> QED
    BY <2>1, <2>2
<1> QED
  BY <1>1, <1>2, <1>3 DEF Script

\* A thread at a step of a script runs a command.
LEMMA AtIs ==
  ASSUME NEW t, NEW label, At(t, label)
  PROVE  tool[t] # Rest /\ Script[tool[t].cmd][tool[t].step] = label
  BY DEF At, Rest

\* From x to y, a command goes on to its next step or to its exit, and takes over what
\* it has read if it still knows the key.
MovesOn(x, y, r) ==
  /\ IsPlace(y) /\ y.cmd = x.cmd
  /\ y.step \in {x.step, x.step + 1, Len(Script[x.cmd])}
  /\ y.current => x.current /\ r.rv = "OK"
  /\ \/ y.bytes \in {None, x.bytes}
     \/ /\ r.rv = "OK" /\ x.current /\ y.step = x.step + 1
        /\ \/ r.op = "C_GetAttributeValue" /\ y.bytes = r.out.attrs[1].value
           \/ r.op = "C_Sign" /\ y.bytes = r.out.sig

\* That is what a command makes of the result of a call.
LEMMA ContinuedIs ==
  ASSUME NEW x, IsPlace(x), NEW r
  PROVE  MovesOn(x, Continued(x, r), r)
<1>1. MovesOn(x, ToExit(x.cmd), r)
  BY DEF MovesOn, ToExit, Started, IsPlace
<1>2. ASSUME r.rv = "OK" PROVE MovesOn(x, Onward(x), r)
  BY <1>2 DEF MovesOn, Onward, IsPlace
<1>3. ASSUME r.rv = "OK", NEW o PROVE MovesOn(x, [x EXCEPT !.object = o], r)
  BY <1>3 DEF MovesOn, IsPlace
<1>4. ASSUME r.rv = "OK", NEW o PROVE MovesOn(x, Onward([x EXCEPT !.object = o]), r)
  BY <1>4 DEF MovesOn, Onward, IsPlace
<1>5. ASSUME r.rv = "OK", NEW n PROVE MovesOn(x, Onward([x EXCEPT !.room = n]), r)
  BY <1>5 DEF MovesOn, Onward, IsPlace
<1>6. ASSUME r.rv = "OK",
             NEW bytes, \/ r.op = "C_GetAttributeValue" /\ bytes = r.out.attrs[1].value
                        \/ r.op = "C_Sign" /\ bytes = r.out.sig
      PROVE  MovesOn(x, Has(x, bytes), r)
  <2> DEFINE y == Has(x, bytes)
  <2>1. /\ IsPlace(y) /\ y.cmd = x.cmd /\ y.step = x.step + 1 /\ y.current = x.current
        /\ y.bytes = IF x.current THEN bytes ELSE None
    BY DEF Has, Started, IsPlace
  <2> HIDE DEF y
  <2>2. \/ y.bytes \in {None, x.bytes}
        \/ /\ r.rv = "OK" /\ x.current /\ y.step = x.step + 1
           /\ \/ r.op = "C_GetAttributeValue" /\ y.bytes = r.out.attrs[1].value
              \/ r.op = "C_Sign" /\ y.bytes = r.out.sig
    BY <1>6, <2>1
  <2>3. MovesOn(x, y, r)
    BY <1>6, <2>1, <2>2 DEF MovesOn
  <2> QED
    BY <2>3 DEF y
<1>7. CASE r.rv # "OK"
  <2>1. Continued(x, r) = ToExit(x.cmd)
    BY <1>7 DEF Continued
  <2> QED
    BY <1>1, <2>1, Zenon
<1>8. CASE r.rv = "OK" /\ r.op = "C_FindObjects"
  <2>1. Continued(x, r) = IF r.out.found # <<>> THEN [x EXCEPT !.object = Head(r.out.found)]
                          ELSE IF x.object = None THEN ToExit(x.cmd) ELSE Onward(x)
    BY <1>8 DEF Continued
  <2> QED
    BY <1>1, <1>2, <1>3, <1>8, <2>1, Zenon
<1>9. CASE r.rv = "OK" /\ r.op = "C_GenerateKeyPair"
  <2>1. Continued(x, r) = Onward([x EXCEPT !.object = PUBLIC_KEY_HANDLE])
    BY <1>9 DEF Continued
  <2> QED
    BY <1>4, <1>9, <2>1, Zenon
<1>10. CASE r.rv = "OK" /\ r.op = "C_GetAttributeValue"
  <2>1. Continued(x, r) = IF x.room = None THEN Onward([x EXCEPT !.room = r.out.attrs[1].len])
                          ELSE Has(x, r.out.attrs[1].value)
    BY <1>10 DEF Continued
  <2> QED
    BY <1>5, <1>6, <1>10, <2>1, Zenon
<1>11. CASE r.rv = "OK" /\ r.op = "C_Sign"
  <2>1. Continued(x, r) = Has(x, r.out.sig)
    BY <1>11 DEF Continued
  <2> QED
    BY <1>6, <1>11, <2>1, Zenon
<1>12. CASE r.rv = "OK" /\ r.op \notin {"C_FindObjects", "C_GenerateKeyPair",
                                       "C_GetAttributeValue", "C_Sign"}
  <2>1. Continued(x, r) = Onward(x)
    BY <1>12 DEF Continued
  <2> QED
    BY <1>2, <1>12, <2>1, Zenon
<1> QED
  BY <1>7, <1>8, <1>9, <1>10, <1>11, <1>12

-----------------------------------------------------------------------------
(* The calls.                                                              *)

\* A thread makes calls at some steps of its script only.
Calling == {"initialize", "open", "find_init", "find", "find_final", "generate", "length",
            "value", "sign_init", "sign"}

\* Reading an attribute leaves everything alone.
LEMMA ReadsAside ==
  ASSUME NEW t, NEW object, NEW template, GetAttributeValue(t, object, template)
  PROVE  UNCHANGED <<linkVars, state, holder, call, panicked>> /\ call[t] = Idle
  BY DEF GetAttributeValue, Untouched, AtOnce, Enters

\* The reading calls of a script.
ReadsNow(t) ==
  \E room : /\ GetAttributeValue(t, tool[t].object, <<Attr("CKA_VALUE", room)>>)
            /\ (At(t, "length") /\ room = None) \/ At(t, "value")

\* The calls of a script that return at once.
ReturnsNow(t) ==
  \/ ReadsNow(t) \/ ConnectRefused(t) \/ OpenSession(t)
  \/ FindObjectsInit(t, TheSession, "public") \/ FindObjects(t, TheSession, 3)
  \/ FindObjectsFinal(t, TheSession) \/ SignInit(t, TheSession)

\* The others wait for the token, at their step of the script.
LEMMA CallsAre ==
  ASSUME NEW t \in Threads, CallsNow(t)
  PROVE  \/ ReturnsNow(t) \/ Continues(t)
         \/ At(t, "initialize") /\ Initialize(t)
         \/ At(t, "generate") /\ GenerateKeyPair(t, TheSession)
         \/ At(t, "sign") /\ \E m \in Msgs, room \in Rooms : Sign(t, TheSession, m, room)
  BY Zenon DEF CallsNow, ReturnsNow, ReadsNow, FirstDials

\* Those are calls of the provider, or read the public key.
LEMMA CallsProvider ==
  ASSUME NEW t \in Threads, CallsNow(t), ~ReadsNow(t)
  PROVE  ProviderNext
<1>1. TheSession \in Sessions /\ 3 \in 0 .. 3 /\ "public" \in Classes
  BY ToolsAssumption, ProviderAssumption DEF TheSession, Sessions, Classes
<1>2. \A m \in Msgs : m \in AllMsgs
  BY DEF AllMsgs
<1> QED
  BY <1>1, <1>2, CallsAre, Zenon DEF ProviderNext, ReturnsNow

\* A call that returns at once, as a kind of step.
LEMMA ReturnsLook ==
  ASSUME Typed, NEW t \in Threads, ReturnsNow(t)
  PROVE  Looks /\ call[t] = Idle
<1>1. TheSession \in Sessions /\ 3 \in 0 .. 3 /\ "public" \in Classes
  BY ToolsAssumption, ProviderAssumption DEF TheSession, Sessions, Classes
<1>2. CASE ReadsNow(t)
  BY <1>2, ReadsAside, SameStateCores DEF ReadsNow, Looks, GetAttributeValue
<1>3. CASE ConnectRefused(t) \/ OpenSession(t)
  BY <1>3, LookKinds DEF ConnectRefused, OpenSession, AtOnce, Enters
<1>4. CASE \/ FindObjectsInit(t, TheSession, "public") \/ FindObjects(t, TheSession, 3)
  BY <1>1, <1>4, FindKinds DEF FindObjectsInit, FindObjects, AtOnce, Enters
<1>5. CASE FindObjectsFinal(t, TheSession) \/ SignInit(t, TheSession)
  BY <1>1, <1>5, SessionKinds DEF FindObjectsFinal, SignInit, AtOnce, Enters
<1> QED
  BY <1>2, <1>3, <1>4, <1>5 DEF ReturnsNow

\* The first half of C_Sign, as kinds of step.
LEMMA SignLooks ==
  ASSUME Typed, NEW t \in Threads, NEW m \in Msgs, NEW room \in Rooms, Sign(t, TheSession, m, room)
  PROVE  Looks \/ Turns(t)
<1>1. TheSession \in Sessions /\ m \in AllMsgs
  BY ToolsAssumption, ProviderAssumption DEF TheSession, Sessions, AllMsgs
<1> QED
  BY <1>1, SignKinds

\* The kind of step that any call is.
LEMMA CallKinds ==
  ASSUME Typed, MutexInv, NEW t \in Threads, CallsNow(t)
  PROVE  Looks \/ ThreadKinds(t) \/ Leaving(ProcOf[t])
<1>1. CASE ReturnsNow(t)
  BY <1>1, ReturnsLook
<1>2. CASE Initialize(t)
  BY <1>2, DialKinds DEF ThreadKinds
<1>3. ASSUME NEW m \in Msgs, NEW room \in Rooms, Sign(t, TheSession, m, room)
      PROVE  Looks \/ Turns(t)
  BY <1>3, SignLooks
<1>4. CASE GenerateKeyPair(t, TheSession)
  <2>1. TheSession \in Sessions
    BY ToolsAssumption, ProviderAssumption DEF TheSession, Sessions
  <2> QED
    BY <1>4, <2>1, GenerateKinds DEF ThreadKinds
<1>5. CASE Continues(t)
  <2>1. ProcOf[t] \in Procs
    BY ProviderAssumption
  <2> QED
    BY <1>5, <2>1, DispatchKinds, FinishKinds, LeaveKinds DEF Continues, ThreadKinds
<1> QED
  BY <1>1, <1>2, <1>3, <1>4, <1>5, CallsAre, Zenon DEF ThreadKinds

-----------------------------------------------------------------------------
(* What a step leaves of what the commands know.                           *)

\* A step of one process keeps the STATEs of the others.
LEMMA OtherCores ==
  ASSUME Typed, MutexInv, NEW t \in Threads, Looks \/ ThreadKinds(t) \/ Leaving(ProcOf[t])
  PROVE  \A q \in Procs : q # ProcOf[t] => KeepsCore(q)
<1>0. state \in [Procs -> ProviderState \cup {None}]
  BY DEF Typed, ProviderTypeOK
<1>1. CASE Looks \/ Finishes(t)
  BY <1>1 DEF Looks, Finishes, SameCores, KeepsCore, SameCore
<1>2. CASE Turns(t) \/ Dials(t) \/ Sends(t) \/ InfoReply(t) \/ PublicKeyReply(t) \/ HandshakeFails(t)
  <2>1. UNCHANGED state
    BY <1>2 DEF Turns, Dials, Sends, InfoReply, PublicKeyReply, HandshakeFails
  <2> QED
    BY <2>1 DEF KeepsCore, SameCore
<1>3. CASE Store(t) \/ Finalize(t) \/ GenerateReply(t) \/ Leaving(ProcOf[t])
  <2>1. \E st : state' = [state EXCEPT ![ProcOf[t]] = st]
    BY <1>3 DEF Store, Finalize, GenerateReply, Leaving
  <2> QED
    BY <1>0, <2>1 DEF KeepsCore, SameCore
<1> QED
  BY <1>1, <1>2, <1>3 DEF ThreadKinds

\* A call of one process leaves the others alone.
LEMMA OthersLeftAlone ==
  ASSUME Typed, MutexInv, OwnerInv, NEW t \in Threads, NEW u \in Threads, u # t,
         Looks \/ ThreadKinds(t) \/ Leaving(ProcOf[t])
  PROVE  Undisturbed(u) /\ KeepsAnswer(u) /\ KeepsCore(ProcOf[u])
<1>1. ProcOf[u] \in Procs /\ ProcOf[t] \in Procs /\ ProcOf[u] # ProcOf[t]
  BY ProviderAssumption, ToolsAssumption
<1>2. KeepsCore(ProcOf[u])
  BY <1>1, OtherCores
<1>3. Undisturbed(u) /\ KeepsAnswer(u)
  BY <1>1, LooksUndisturbed, OthersUndisturbed, LeavingUndisturbed
<1> QED
  BY <1>2, <1>3

\* What is left alone goes on knowing what it knows.
LEMMA LeftAloneKnows ==
  ASSUME NEW u, Knows(u), Undisturbed(u), KeepsAnswer(u), KeepsCore(ProcOf[u]),
         TrueKey' = TrueKey,
         tool'[u] # Rest /\ tool'[u].current => tool[u] # Rest /\ tool[u].current
  PROVE  Knows(u)'
<1> SUFFICES ASSUME tool'[u] # Rest /\ tool'[u].current, tool[u] # Rest /\ tool[u].current
             PROVE  Knows(u)'
  BY DEF Knows
<1>1. call'[u] = call[u]
  BY DEF Undisturbed
<1>2. call[u].at = "store" => call[u].pk = TrueKey
  BY DEF Knows
<1>3. ASSUME call[u].at \in {"get_public_key", "gen_wait"}, AnswersCurrent(u)'
      PROVE  Response(ConnOf(u))'.body = TrueKey
  <2>1. ConnOf(u)' = ConnOf(u)
    BY <1>1, <1>3 DEF ConnOf, Handshaking, InExchange, Undisturbed, SameCore
  <2>2. link'[ConnOf(u)].down = link[ConnOf(u)].down
    BY <1>3 DEF KeepsAnswer, Placed, Handshaking, InExchange
  <2>3. AnswersCurrent(u) /\ Response(ConnOf(u))' = Response(ConnOf(u))
    BY <1>3, <2>1, <2>2 DEF AnswersCurrent, Arrived, Response
  <2> QED
    BY <1>3, <2>3 DEF Knows
<1>4. ASSUME ~Handshaking(u), call[u].at # "gen_wait", state'[ProcOf[u]] # None
      PROVE  state'[ProcOf[u]].pk = TrueKey
  BY <1>4 DEF KeepsCore, SameCore, Knows
<1> QED
  BY <1>1, <1>2, <1>3, <1>4 DEF Knows, Handshaking

-----------------------------------------------------------------------------
(* The step of a command that makes a call or goes on with one.            *)

\* A command that makes a call has nothing to write yet.
LEMMA CallSites ==
  ASSUME Typed, NEW t \in Threads, InScript(t), CallsNow(t)
  PROVE  /\ tool[t] # Rest /\ tool[t].bytes = None
         /\ \E label \in Calling : At(t, label)
         /\ Script[tool[t].cmd][tool[t].step] # "exit"
<1>1. Continues(t) => call[t] # Idle
  <2>1. InfoReply(t) \/ PublicKeyReply(t) \/ HandshakeFails(t) \/ Store(t) => call[t].at # "idle"
    BY DEF InfoReply, PublicKeyReply, HandshakeFails, Store
  <2>2. SignDispatch(t) \/ SignReply(t) \/ SignPanics(t) \/ SignFails(t) => call[t].at # "idle"
    BY DEF SignDispatch, SignReply, SignPanics, SignFails
  <2>3. GenerateReply(t) \/ GenerateFails(t) => call[t].at # "idle"
    BY DEF GenerateReply, GenerateFails
  <2>4. Idle.at = "idle"
    BY DEF Idle
  <2> QED
    BY <2>1, <2>2, <2>3, <2>4 DEF Continues
<1>2. call[t] # Idle => CallOf[call[t].at] \in Calling
  <2>1. call[t] \in Places
    BY DEF Typed, ProviderTypeOK
  <2>2. call[t] # Idle => call[t].at \in {"get_info", "get_public_key", "store", "sign",
                                         "sign_wait", "gen_wait"}
    BY <2>1, PlaceFields
  <2> QED
    BY <2>2 DEF CallOf, Calling
<1>3. PICK label \in Calling : At(t, label)
  <2>1. CASE Continues(t)
    BY <1>1, <1>2, <2>1 DEF InScript
  <2>2. CASE ~Continues(t)
    <3>1. \/ At(t, "initialize") \/ At(t, "open") \/ At(t, "find_init") \/ At(t, "find")
          \/ At(t, "find_final") \/ At(t, "generate") \/ At(t, "length") \/ At(t, "value")
          \/ At(t, "sign_init") \/ At(t, "sign")
      BY <2>2, Zenon DEF CallsNow
    <3> QED
      BY <3>1, Zenon DEF Calling
  <2> QED
    BY <2>1, <2>2
<1>4. tool[t] # Rest /\ Script[tool[t].cmd][tool[t].step] = label
  BY <1>3, AtIs, Zenon
<1>5. label \notin {"exit", "truncate", "fill"}
  BY DEF Calling
<1> QED
  BY <1>3, <1>4, <1>5 DEF InScript, At

\* Where the command is after the step.
LEMMA OwnMoves ==
  ASSUME Typed, NEW t \in Threads, InScript(t), CallsNow(t), DOMAIN tool = Threads,
         tool' = [tool EXCEPT ![t] = Learnt(t, IF ret' = None THEN @ ELSE Continued(@, ret'))]
  PROVE  LET x == tool[t]
             y == tool'[t]
         IN /\ IsPlace(y) /\ y.cmd = x.cmd /\ y.step \in 1 .. Len(Script[y.cmd]) /\ y # Rest
            /\ y.current /\ call'[t].at # "get_public_key" =>
                 x.current /\ (ret' = None \/ ret'.rv = "OK")
            /\ ret' = None => y.step = x.step /\ y.bytes = None
            /\ y.bytes # None =>
                 /\ ret'.rv = "OK" /\ x.current /\ y.step = x.step + 1
                 /\ \/ ret'.op = "C_GetAttributeValue" /\ y.bytes = ret'.out.attrs[1].value
                    \/ ret'.op = "C_Sign" /\ y.bytes = ret'.out.sig
<1> DEFINE x == tool[t]
           z == IF ret' = None THEN x ELSE Continued(x, ret')
           y == tool'[t]
<1>1. /\ IsPlace(x) /\ x.cmd \in DOMAIN Script /\ x.step \in 1 .. Len(Script[x.cmd])
      /\ x.bytes = None /\ Script[x.cmd][x.step] # "exit"
  BY CallSites DEF InScript
<1>2. y = IF call'[t].at = "get_public_key" THEN [z EXCEPT !.current = TRUE] ELSE z
  BY DEF Learnt
<1>3. /\ x.step + 1 \in 1 .. Len(Script[x.cmd])
      /\ Len(Script[x.cmd]) \in 1 .. Len(Script[x.cmd])
  BY <1>1, ScriptOrder
<1> HIDE DEF x
<1>4. ASSUME ret' # None PROVE MovesOn(x, z, ret')
  BY <1>1, <1>4, ContinuedIs
<1>5. ASSUME ret' = None PROVE z = x
  BY <1>5
<1> HIDE DEF z
<1>6. /\ IsPlace(z) /\ z.cmd = x.cmd /\ z.step \in 1 .. Len(Script[z.cmd])
      /\ z.current => x.current /\ (ret' = None \/ ret'.rv = "OK")
      /\ ret' = None => z.step = x.step /\ z.bytes = None
      /\ z.bytes # None =>
           /\ ret'.rv = "OK" /\ x.current /\ z.step = x.step + 1
           /\ \/ ret'.op = "C_GetAttributeValue" /\ z.bytes = ret'.out.attrs[1].value
              \/ ret'.op = "C_Sign" /\ z.bytes = ret'.out.sig
  BY <1>1, <1>3, <1>4, <1>5 DEF MovesOn
<1>7. /\ IsPlace(y) /\ y.cmd = z.cmd /\ y.step = z.step /\ y.bytes = z.bytes
      /\ call'[t].at # "get_public_key" => y.current = z.current
  BY <1>2, <1>6 DEF IsPlace
<1> HIDE DEF y
<1>8. y # Rest
  BY <1>1, <1>6, <1>7, ToolsAssumption DEF Rest
<1> QED
  BY <1>6, <1>7, <1>8 DEF x, y

\* The thread waits for nothing that could tell of the key, and its STATE stays.
Settles(t) == /\ call[t].at \in {"idle", "sign", "sign_wait"}
              /\ call'[t].at \in {"idle", "sign", "sign_wait"}
              /\ KeepsCore(ProcOf[t])

Fails(t) == ret' # None /\ ret'.rv # "OK" /\ call'[t] = Idle

\* What the step is for what the thread knows.
LEMMA OwnKinds ==
  ASSUME Typed, MutexInv, NEW t \in Threads, CallsNow(t)
  PROVE  \/ Settles(t) \/ Fails(t) \/ call'[t].at = "get_info"
         \/ call'[t].at = "gen_wait" /\ Sends(t)
         \/ InfoReply(t) \/ PublicKeyReply(t) \/ Store(t) \/ GenerateReply(t)
         \/ state'[ProcOf[t]] = None /\ call'[t] = Idle
<1>0. /\ call \in [Threads -> Places] /\ state \in [Procs -> ProviderState \cup {None}]
      /\ ProcOf[t] \in Procs /\ Idle.at = "idle"
  BY ProviderAssumption DEF Typed, ProviderTypeOK, Idle
<1>1. SameCores => KeepsCore(ProcOf[t])
  BY <1>0 DEF SameCores, KeepsCore, SameCore
<1>2. CASE ReturnsNow(t)
  BY <1>0, <1>1, <1>2, ReturnsLook DEF Settles, Looks
<1>3. CASE Initialize(t)
  <2>1. \E c : call' = [call EXCEPT ![t] = [at |-> "get_info", conn |-> c]]
    BY <1>3 DEF Initialize, Goes
  <2> QED
    BY <1>0, <2>1
<1>4. ASSUME NEW m \in Msgs, NEW room \in Rooms, Sign(t, TheSession, m, room)
      PROVE  Settles(t)
  <2>1. CASE Looks
    BY <1>0, <1>1, <1>4, <2>1 DEF Settles, Looks, Sign, AtOnce, Enters
  <2>2. CASE Turns(t)
    BY <1>0, <1>1, <2>2, SameStateCores DEF Settles, Turns
  <2> QED
    BY <1>4, <2>1, <2>2, SignLooks
<1>5. CASE Turns(t)
  BY <1>0, <1>1, <1>5, SameStateCores DEF Settles, Turns
<1>6. CASE Sends(t)
  <2>1. /\ call[t].at \in {"idle", "sign"} /\ UNCHANGED state
        /\ \E place : call' = [call EXCEPT ![t] = place] /\ place.at \in {"sign_wait", "gen_wait"}
    BY <1>6 DEF Sends
  <2> QED
    BY <1>0, <1>1, <1>6, <2>1, SameStateCores DEF Settles
<1>7. CASE SignReply(t) \/ SignFails(t)
  <2>1. call[t].at = "sign_wait"
    BY <1>7 DEF SignReply, SignFails
  <2> QED
    BY <1>0, <1>1, <1>7, <2>1, FinishKinds DEF Settles, Finishes
<1>8. CASE HandshakeFails(t) \/ GenerateFails(t)
  <2>1. /\ call' = [call EXCEPT ![t] = Idle]
        /\ ret' \in [by : Threads, op : {"C_Initialize", "C_GenerateKeyPair"},
                     rv : {"DEVICE_ERROR"}, out : {None}]
    BY <1>8 DEF HandshakeFails, GenerateFails, Goes, Returns
  <2> QED
    BY <1>0, <2>1, NoneIsNoFailure DEF Fails
<1>9. CASE SignPanics(t)
  BY <1>0, <1>9 DEF SignPanics, Ends
<1>10. CASE GenerateKeyPair(t, TheSession)
  <2>1. TheSession \in Sessions
    BY ToolsAssumption, ProviderAssumption DEF TheSession, Sessions
  <2>2. CASE Looks
    BY <1>0, <1>1, <1>10, <2>2 DEF Settles, Looks, GenerateKeyPair, AtOnce, Enters
  <2> QED
    BY <1>6, <1>10, <2>1, <2>2, GenerateKinds
<1> QED
  BY <1>2, <1>3, <1>4, <1>5, <1>6, <1>7, <1>8, <1>9, <1>10, CallsAre, DispatchKinds, Zenon DEF Continues

\* A call under way is that of the step at which the command is.
LEMMA OwnCall ==
  ASSUME Typed, NEW t \in Threads, InScript(t), CallsNow(t), call'[t] # Idle
  PROVE  ret' = None /\ At(t, CallOf[call'[t].at])
<1>0. call \in [Threads -> Places]
  BY DEF Typed, ProviderTypeOK
<1>1. CASE ReturnsNow(t)
  BY <1>1, ReturnsLook DEF Looks
<1>2. CASE At(t, "initialize") /\ Initialize(t)
  <2>1. ret' = None /\ \E c : call' = [call EXCEPT ![t] = [at |-> "get_info", conn |-> c]]
    BY <1>2 DEF Initialize, Goes
  <2>2. call'[t].at = "get_info"
    BY <1>0, <2>1
  <2> QED
    BY <1>2, <2>1, <2>2 DEF CallOf
<1>3. CASE At(t, "generate") /\ GenerateKeyPair(t, TheSession)
  <2>1. call[t] = Idle
    BY <1>3 DEF GenerateKeyPair, AtOnce, Enters
  <2>2. ret' = None /\ call' = [call EXCEPT ![t] = [at |-> "gen_wait", s |-> TheSession]]
    BY <1>3, <2>1 DEF GenerateKeyPair, Goes
  <2>3. call'[t].at = "gen_wait"
    BY <1>0, <2>2
  <2> QED
    BY <1>3, <2>2, <2>3 DEF CallOf
<1>4. ASSUME At(t, "sign"), NEW m \in Msgs, NEW room \in Rooms, Sign(t, TheSession, m, room)
      PROVE  ret' = None /\ At(t, CallOf[call'[t].at])
  <2>1. call[t] = Idle
    BY <1>4 DEF Sign, AtOnce, Enters
  <2>2. PICK exp : /\ ret' = None
                   /\ call' = [call EXCEPT ![t] = [at |-> "sign", s |-> TheSession, msg |-> m,
                                                   room |-> room, exp |-> exp]]
    BY <1>4, <2>1 DEF Sign, Goes
  <2>3. call'[t].at = "sign"
    BY <1>0, <2>2
  <2> QED
    BY <1>4, <2>2, <2>3 DEF CallOf
<1>5. CASE Continues(t)
  <2>1. CASE \/ HandshakeFails(t) \/ Store(t) \/ SignReply(t) \/ SignFails(t)
             \/ GenerateReply(t) \/ GenerateFails(t) \/ SignPanics(t)
    <3>1. call'[t] = Idle
      BY <1>0, <2>1
         DEF HandshakeFails, Store, SignReply, SignFails, GenerateReply, GenerateFails,
             SignPanics, Ends, Goes
    <3> QED
      BY <3>1
  <2>2. CASE InfoReply(t) \/ PublicKeyReply(t)
    <3>1. call[t] # Idle /\ CallOf[call[t].at] = "initialize" /\ ret' = None
      BY <2>2 DEF InfoReply, PublicKeyReply, CallOf, Idle
    <3>2. \E place : Goes(t, place) /\ place.at \in {"get_public_key", "store"}
      BY <2>2 DEF InfoReply, PublicKeyReply
    <3>3. CallOf[call'[t].at] = "initialize"
      BY <1>0, <3>2 DEF CallOf, Goes
    <3> QED
      BY <3>1, <3>3 DEF InScript
  <2>3. CASE SignDispatch(t)
    <3>1. call[t] # Idle /\ call[t].at = "sign" /\ CallOf[call[t].at] = "sign"
      BY <2>3 DEF SignDispatch, CallOf, Idle
    <3>2. ret' = None /\ call' = [call EXCEPT ![t] = [call[t] EXCEPT !.at = "sign_wait"]]
      <4>1. ~Goes(t, Idle)
        BY <1>0 DEF Goes
      <4> QED
        BY <2>3, <4>1, Zenon DEF SignDispatch, Goes
    <3>3. call'[t].at = "sign_wait"
      BY <1>0, <3>1, <3>2 DEF Places, Idle
    <3> QED
      BY <3>1, <3>2, <3>3 DEF InScript, CallOf
  <2> QED
    BY <1>5, <2>1, <2>2, <2>3 DEF Continues
<1> QED
  BY <1>1, <1>2, <1>3, <1>4, <1>5, CallsAre

\* What thread t does to its command when it takes a step of a call.
Advances(t) ==
  /\ CallsNow(t) /\ DOMAIN tool = Threads
  /\ tool' = [tool EXCEPT ![t] = Learnt(t, IF ret' = None THEN @ ELSE Continued(@, ret'))]

\* A reading call answers with the public key of the STATE, or with its length alone.
LEMMA ReadsKey ==
  ASSUME NEW t \in Threads, ReadsNow(t), ret'.rv = "OK"
  PROVE  /\ state[ProcOf[t]] # None
         /\ LET value == ret'.out.attrs[1].value IN
            value = None \/ (value = state[ProcOf[t]].pk /\ At(t, "value"))
<1> DEFINE pk == state[ProcOf[t]].pk
           object == tool[t].object
<1>1. PICK room : /\ GetAttributeValue(t, object, <<Attr("CKA_VALUE", room)>>)
                  /\ (At(t, "length") /\ room = None) \/ At(t, "value")
  BY DEF ReadsNow
<1> DEFINE attr == Attr("CKA_VALUE", room)
           done == get_attribute_values(object, pk, <<attr>>)
<1>2. /\ state[ProcOf[t]] # None
      /\ ret'.rv = done.rv /\ ret'.out.attrs = done.attrs
  <2>1. CASE state[ProcOf[t]] = None
    <3>1. ret' = [by |-> t, op |-> "C_GetAttributeValue", rv |-> "CRYPTOKI_NOT_INITIALIZED",
                  out |-> None]
      BY <1>1, <2>1, Zenon DEF GetAttributeValue, Returns, Uninitialized
    <3> QED
      BY <3>1
  <2>2. CASE state[ProcOf[t]] # None
    <3>1. ret' = [by |-> t, op |-> "C_GetAttributeValue", rv |-> done.rv,
                  out |-> [object |-> object, template |-> <<attr>>, attrs |-> done.attrs]]
      BY <1>1, <2>2, Zenon DEF GetAttributeValue, Returns, Uninitialized
    <3> HIDE DEF done, attr
    <3> QED
      BY <2>2, <3>1
  <2> QED
    BY <2>1, <2>2
<1>3. done.attrs[1] = ServedAttr(attr, object, pk) /\ done.rv = ServedAttr(attr, object, pk).rv
  BY AnsweredAlone DEF ByItself
<1>4. attr.type = "CKA_VALUE" /\ attr.room = room
  BY DEF Attr
<1> HIDE DEF done, attr
<1>5. ServedAttr(attr, object, pk).rv = "OK"
  BY <1>2, <1>3
<1>6. CASE object # PUBLIC_KEY_HANDLE
  <2>1. ServedAttr(attr, object, pk) = Refused("ATTRIBUTE_SENSITIVE")
    BY <1>4, <1>6 DEF ServedAttr
  <2> QED
    BY <1>5, <2>1 DEF Refused, Served
<1>7. CASE object = PUBLIC_KEY_HANDLE
  <2>1. ServedAttr(attr, object, pk) = Copied(attr, Bytes(ByteLen(pk), pk))
    BY <1>4, <1>7 DEF ServedAttr, ValueOf
  <2>2. CASE room = None
    BY <1>2, <1>3, <1>4, <2>1, <2>2 DEF Copied, Served
  <2>3. CASE room # None
    <3>1. ServedAttr(attr, object, pk).value \in {None, pk}
      BY <1>4, <2>1, <2>3 DEF Copied, Served, Refused, Bytes
    <3> QED
      BY <1>1, <1>2, <1>3, <2>3, <3>1
  <2> QED
    BY <2>2, <2>3
<1> QED
  BY <1>6, <1>7

\* Only the reading calls and the end of C_Sign hand out something to write.
LEMMA OwnResult ==
  ASSUME NEW t \in Threads, CallsNow(t), ret' # None, ret'.rv = "OK"
  PROVE  /\ ret'.op = "C_GetAttributeValue" => ReadsNow(t)
         /\ ret'.op = "C_Sign" => SignReply(t)
<1> USE DEF Returns
<1>1. CASE ConnectRefused(t) \/ OpenSession(t) \/ FindObjectsInit(t, TheSession, "public")
  BY <1>1 DEF ConnectRefused, OpenSession, FindObjectsInit
<1>2. CASE FindObjects(t, TheSession, 3)
  <2>1. \E rv, out : ret' = [by |-> t, op |-> "C_FindObjects", rv |-> rv, out |-> out]
    BY <1>2, Zenon DEF FindObjects
  <2> QED
    BY <2>1
<1>3. CASE FindObjectsFinal(t, TheSession) \/ SignInit(t, TheSession)
  BY <1>3 DEF FindObjectsFinal, SignInit
<1>4. CASE ReadsNow(t)
  <2>1. \E rv, out : ret' = [by |-> t, op |-> "C_GetAttributeValue", rv |-> rv, out |-> out]
    BY <1>4, Zenon DEF ReadsNow, GetAttributeValue
  <2> QED
    BY <1>4, <2>1
<1>5. CASE Initialize(t) \/ InfoReply(t) \/ PublicKeyReply(t) \/ SignPanics(t)
  BY <1>5 DEF Initialize, InfoReply, PublicKeyReply, SignPanics, Ends
<1>6. CASE GenerateKeyPair(t, TheSession)
  <2>1. \E rv : ret' = [by |-> t, op |-> "C_GenerateKeyPair", rv |-> rv, out |-> None]
    BY <1>6, Zenon DEF GenerateKeyPair
  <2> QED
    BY <2>1
<1>7. ASSUME NEW m \in Msgs, NEW room \in Rooms, Sign(t, TheSession, m, room) PROVE FALSE
  <2>1. room # None
    BY ToolsAssumption
  <2>2. SessionRv(ProcOf[t], TheSession) \in {"CRYPTOKI_NOT_INITIALIZED", "OK",
                                              "SESSION_HANDLE_INVALID"}
    BY DEF SessionRv
  <2>3. \E rv, out : /\ ret' = [by |-> t, op |-> "C_Sign", rv |-> rv, out |-> out]
                     /\ rv # "OK"
    BY <1>7, <2>1, <2>2 DEF Sign
  <2> QED
    BY <2>3
<1>8. CASE HandshakeFails(t) \/ Store(t)
  BY <1>8 DEF HandshakeFails, Store
<1>9. CASE GenerateReply(t) \/ GenerateFails(t)
  BY <1>9 DEF GenerateReply, GenerateFails
<1>10. CASE SignDispatch(t) \/ SignFails(t)
  <2>1. \E rv : ret' = [by |-> t, op |-> "C_Sign", rv |-> rv, out |-> None] /\ rv # "OK"
    BY <1>10 DEF SignDispatch, SignFails
  <2> QED
    BY <2>1
<1>11. CASE SignReply(t)
  <2>1. \E out : ret' = [by |-> t, op |-> "C_Sign", rv |-> "OK", out |-> out]
    BY <1>11, Zenon DEF SignReply
  <2> QED
    BY <1>11, <2>1
<1> QED
  BY <1>1, <1>2, <1>3, <1>4, <1>5, <1>6, <1>7, <1>8, <1>9, <1>10, <1>11, CallsAre, Zenon
     DEF ReturnsNow, Continues

\* The command is again at a step of its script.
LEMMA OwnScript ==
  ASSUME Typed, NEW t \in Threads, InScript(t), Advances(t)
  PROVE  InScript(t)'
<1> DEFINE x == tool[t]
           y == tool'[t]
<1>1. /\ IsPlace(y) /\ y.cmd = x.cmd /\ y.step \in 1 .. Len(Script[y.cmd]) /\ y # Rest
      /\ x # Rest /\ x.cmd \in DOMAIN Script /\ x.cmd # None
      /\ x.step \in 1 .. Len(Script[x.cmd])
  BY OwnMoves, CallSites, ToolsAssumption DEF Advances, InScript
<1>2. \A label : At(t, label)' <=> Script[y.cmd][y.step] = label
  BY <1>1 DEF At
<1>3. ASSUME y.bytes # None PROVE At(t, "truncate")' \/ At(t, "fill")'
  <2>1. /\ ret' # None /\ ret'.rv = "OK" /\ y.step = x.step + 1
        /\ \/ ret'.op = "C_GetAttributeValue" /\ y.bytes = ret'.out.attrs[1].value
           \/ ret'.op = "C_Sign"
    BY <1>3, OwnMoves DEF Advances
  <2>2. \/ ReadsNow(t) /\ y.bytes = ret'.out.attrs[1].value
        \/ SignReply(t)
    BY <2>1, OwnResult DEF Advances
  <2>3. At(t, "value") \/ At(t, "sign")
    <3>0. SignReply(t) => call[t].at = "sign_wait"
      BY Zenon DEF SignReply
    <3>1. SignReply(t) => call[t].at = "sign_wait" /\ call[t] # Idle /\ CallOf["sign_wait"] = "sign"
      BY <3>0 DEF Idle, CallOf
    <3> QED
      BY <1>3, <2>1, <2>2, <3>1, ReadsKey DEF InScript
  <2>4. Script[x.cmd][x.step] \in {"value", "sign"}
    BY <2>3 DEF At
  <2> QED
    BY <1>1, <1>2, <2>1, <2>4, ScriptOrder
<1>4. ASSUME call'[t] # Idle PROVE y.cmd # None /\ Script[y.cmd][y.step] = CallOf[call'[t].at]
  <2>1. ret' = None /\ At(t, CallOf[call'[t].at])
    BY <1>4, OwnCall DEF Advances
  <2>2. y.step = x.step
    BY <2>1, OwnMoves DEF Advances
  <2>3. Script[x.cmd][x.step] = CallOf[call'[t].at]
    BY <2>1, AtIs, Zenon
  <2> QED
    BY <1>1, <2>2, <2>3
<1>5. (call[t] # Idle => At(t, CallOf[call[t].at]))'
  BY <1>4 DEF At
<1> QED
  BY <1>1, <1>3, <1>5, Zenon DEF InScript

\* What it is going to write agrees with the token's key.
LEMMA OwnBytes ==
  ASSUME Typed, IndInv, NEW t \in Threads, InScript(t), Knows(t), Advances(t), TrueKey' = TrueKey
  PROVE  HasCurrent(t)'
<1> DEFINE x == tool[t]
           y == tool'[t]
           pk == state[ProcOf[t]].pk
<1> SUFFICES ASSUME y # Rest, y.bytes # None
             PROVE  Agree(Output[y.cmd], y.bytes)
  BY DEF HasCurrent, Agree
<1>0. \A cmd \in DOMAIN Script : \A i \in 1 .. Len(Script[cmd]) :
        /\ Script[cmd][i] = "value" => Output[cmd] = "pub"
        /\ Script[cmd][i] = "sign" => Output[cmd] = "sig"
  BY ScriptOrder
<1>1. /\ y.cmd = x.cmd /\ x # Rest /\ x.cmd \in DOMAIN Script /\ x.step \in 1 .. Len(Script[x.cmd])
      /\ x.current /\ ret' # None /\ ret'.rv = "OK"
      /\ \/ ret'.op = "C_GetAttributeValue" /\ y.bytes = ret'.out.attrs[1].value
         \/ ret'.op = "C_Sign" /\ y.bytes = ret'.out.sig
  BY OwnMoves, CallSites DEF Advances, InScript
<1>2. ASSUME ReadsNow(t), y.bytes = ret'.out.attrs[1].value
      PROVE  Agree(Output[y.cmd], y.bytes)
  <2>1. y.bytes = pk /\ At(t, "value") /\ state[ProcOf[t]] # None
    BY <1>1, <1>2, ReadsKey
  <2>2. Script[x.cmd][x.step] = "value"
    BY <2>1, AtIs, Zenon
  <2>3. Output[y.cmd] = "pub"
    BY <1>1, <1>0, <2>2, Zenon
  <2>4. call[t].at = "idle"
    BY <1>2, ReadsAside DEF ReadsNow, Idle
  <2>5. pk = TrueKey
    BY <1>1, <2>1, <2>4 DEF Knows, Handshaking
  <2> QED
    BY <2>1, <2>3, <2>5 DEF Agree
<1>3. ASSUME SignReply(t), y.bytes = ret'.out.sig
      PROVE  Agree(Output[y.cmd], y.bytes)
  <2> DEFINE c == state[ProcOf[t]].conn
  <2>0. /\ call[t].at = "sign_wait" /\ Arrived(c) /\ Response(c).status = "Ok"
        /\ ret'.out.sig = Response(c).body
    <3>1. /\ call[t].at = "sign_wait" /\ Arrived(c) /\ Response(c).status = "Ok"
          /\ Returns(t, "C_Sign", "OK", [s |-> call[t].s, msg |-> call[t].msg,
                                         room |-> call[t].room, sig |-> Response(c).body])
      BY <1>3, Zenon DEF SignReply, Fits
    <3> QED
      BY <3>1 DEF Returns
  <2>1. InExchange(t) /\ AwaitingToken(t) /\ ConnOf(t) = c /\ call[t] # Idle
    BY <2>0 DEF InExchange, AwaitingToken, ConnOf, Handshaking, Idle
  <2>2. state[ProcOf[t]] # None /\ c \in Conns
    BY <2>1, ExchangeFields DEF IndInv, Uninitialized
  <2>3. Answers(t, Response(c))
    BY <2>0, <2>1, <2>2, AnswerRead DEF IndInv, TrafficInv
  <2>4. y.bytes = SigBytes(pk.param, pk.key, call[t].msg)
    BY <1>3, <2>0, <2>3 DEF Answers
  <2>5. pk = TrueKey
    BY <1>1, <2>0, <2>2 DEF Knows, Handshaking
  <2>6. At(t, "sign")
    BY <2>0, <2>1 DEF InScript, CallOf
  <2>7. Script[x.cmd][x.step] = "sign"
    BY <2>6, AtIs, Zenon
  <2>8. Output[y.cmd] = "sig"
    BY <1>1, <1>0, <2>7, Zenon
  <2>9. y.bytes.msg = call[t].msg
    BY <2>4 DEF SigBytes
  <2> HIDE DEF pk, c, y
  <2>10. y.bytes = SigBytes(TrueKey.param, TrueKey.key, y.bytes.msg)
    BY <2>4, <2>5, <2>9
  <2>11. Agree("sig", y.bytes)
    BY <2>10 DEF Agree
  <2> QED
    BY <2>8, <2>11
<1> QED
  BY <1>1, <1>2, <1>3, OwnResult DEF Advances

\* What the command knows of the token's key after its step is true.
LEMMA OwnKnows ==
  ASSUME Typed, IndInv, NEW t \in Threads, InScript(t), Knows(t), Advances(t), TrueKey' = TrueKey
  PROVE  Knows(t)'
<1> DEFINE p == ProcOf[t]
<1> SUFFICES ASSUME tool'[t] # Rest, tool'[t].current
             PROVE  Knows(t)'
  BY DEF Knows
<1>0. /\ call \in [Threads -> Places] /\ state \in [Procs -> ProviderState \cup {None}]
      /\ link \in [Conns -> Channels] /\ p \in Procs /\ Idle.at = "idle" /\ CallsNow(t)
  BY ProviderAssumption DEF Typed, ProviderTypeOK, LinkTypeOK, Idle, Advances
<1>1. /\ tool[t] # Rest
      /\ call'[t].at # "get_public_key" => tool[t].current /\ (ret' = None \/ ret'.rv = "OK")
  BY OwnMoves, CallSites DEF Advances
<1>2. CASE Settles(t)
  <2>1. tool[t].current
    BY <1>1, <1>2 DEF Settles
  <2>2. state[p] # None => state[p].pk = TrueKey
    BY <1>1, <1>2, <2>1 DEF Settles, Knows, Handshaking
  <2>3. state'[p] # None => state'[p].pk = TrueKey'
    BY <1>2, <2>2 DEF Settles, KeepsCore, SameCore
  <2>4. call'[t].at \notin {"get_public_key", "gen_wait", "store"}
    BY <1>2 DEF Settles
  <2> QED
    BY <2>3, <2>4 DEF Knows
<1>3. CASE Fails(t)
  BY <1>0, <1>1, <1>3 DEF Fails
<1>4. CASE call'[t].at = "get_info"
  BY <1>4 DEF Knows, Handshaking
<1>5. CASE call'[t].at = "gen_wait" /\ Sends(t)
  <2> DEFINE c == state[p].conn
  <2>1. /\ holder[p] = None /\ state[p] # None /\ UNCHANGED state
        /\ \E req \in Requests : link' = [link EXCEPT ![c] = HostSends(@, req)]
    BY <1>5 DEF Sends
  <2>2. c \in Conns /\ Quiet(link[c]) /\ link[c] \in Channels
    <3>1. c \in Conns /\ link[c] \in Channels
      BY <1>0, <2>1, StateFields DEF Uninitialized
    <3>2. Quiet(link[c])
      BY <1>0, <2>1 DEF IndInv, KnowledgeInv, Caches
    <3> QED
      BY <3>1, <3>2
  <2>3. link'[c].down = <<>>
    BY <1>0, <2>1, <2>2, SendFields DEF Quiet
  <2>4. ConnOf(t)' = c
    BY <1>5, <2>1 DEF ConnOf, Handshaking
  <2> QED
    BY <1>5, <2>3, <2>4 DEF Knows, AnswersCurrent, Arrived
<1>6. CASE InfoReply(t)
  <2> DEFINE c == call[t].conn
  <2>1. /\ call[t].at = "get_info" /\ Arrived(c) /\ ConnOf(t) = c /\ AwaitingToken(t)
        /\ link' = [link EXCEPT ![c] = HostSends(HostReads(@), GetPublicKeyReq)]
    BY <1>6 DEF InfoReply, ConnOf, Handshaking, AwaitingToken
  <2>2. c \in Conns
    BY <1>0, <2>1, PlaceFields
  <2>3. link[c] \in Channels /\ Tail(link[c].down) = <<>>
    BY <2>1, <2>2, AnswerRead DEF IndInv, TrafficInv
  <2>4. HostReads(link[c]) \in Channels /\ GetPublicKeyReq \in Requests
    <3>1. link[c].down # <<>>
      BY <2>1 DEF Arrived
    <3>2. HostReads(link[c]) \in Channels
      BY <2>3, <3>1, ChannelTypes, Zenon
    <3> QED
      BY <3>2, RequestTypes
  <2>5. link'[c].down = <<>>
    <3>1. link'[c] = HostSends(HostReads(link[c]), GetPublicKeyReq)
      BY <1>0, <2>1, <2>2
    <3>2. HostReads(link[c]).down = <<>>
      BY <2>3, ReadFields
    <3> QED
      BY <2>4, <3>1, <3>2, SendFields
  <2>6. call'[t].at = "get_public_key" /\ call'[t].conn = c
    <3>1. \E param : call' = [call EXCEPT ![t] = [at |-> "get_public_key", conn |-> c, param |-> param]]
      BY <1>6 DEF InfoReply, Goes
    <3> QED
      BY <1>0, <3>1
  <2>7. ConnOf(t)' = c
    BY <2>6 DEF ConnOf, Handshaking
  <2> QED
    BY <2>5, <2>6, <2>7 DEF Knows, AnswersCurrent, Arrived, Handshaking
<1>7. CASE PublicKeyReply(t)
  <2> DEFINE c == call[t].conn
  <2>1. /\ call[t].at = "get_public_key" /\ Arrived(c) /\ ConnOf(t) = c
        /\ Response(c).status = "Ok"
        /\ call' = [call EXCEPT ![t] = [at |-> "store", conn |-> c, param |-> call[t].param,
                                        pk |-> Response(c).body]]
    BY <1>7 DEF PublicKeyReply, ConnOf, Handshaking, Goes
  <2>2. call'[t].at = "store" /\ call'[t].pk = Response(c).body
    BY <1>0, <2>1
  <2>3. tool[t].current
    BY <1>1, <2>2
  <2>4. Response(c).body = TrueKey
    BY <1>1, <2>1, <2>3 DEF Knows, AnswersCurrent
  <2> QED
    BY <2>2, <2>4 DEF Knows, Handshaking
<1>8. CASE Store(t)
  <2>1. /\ call[t].at = "store" /\ call' = [call EXCEPT ![t] = Idle]
        /\ state' = [state EXCEPT ![p] = NewState(call[t].conn, call[t].param, call[t].pk)]
    BY <1>8 DEF Store, Goes
  <2>2. call'[t].at = "idle" /\ state'[p].pk = call[t].pk
    BY <1>0, <2>1 DEF NewState
  <2>3. call[t].pk = TrueKey
    BY <1>1, <2>1, <2>2 DEF Knows
  <2> QED
    BY <2>2, <2>3 DEF Knows
<1>9. CASE GenerateReply(t)
  <2> DEFINE c == state[p].conn
  <2>1. /\ call[t].at = "gen_wait" /\ Arrived(c) /\ ConnOf(t) = c
        /\ Response(c).status = "Ok" /\ call' = [call EXCEPT ![t] = Idle]
        /\ state' = [state EXCEPT ![p] = [@ EXCEPT !.pk = Response(c).body]]
        /\ InExchange(t)
    BY <1>9 DEF GenerateReply, Fits, ConnOf, Handshaking, Goes, InExchange
  <2>2. state[p] # None /\ state[p] \in ProviderState
    BY <1>0, <2>1, ExchangeFields DEF IndInv, Uninitialized
  <2>3. call'[t].at = "idle" /\ state'[p].pk = Response(c).body
    <3>1. state'[p] = [state[p] EXCEPT !.pk = Response(c).body]
      BY <1>0, <2>1
    <3> QED
      BY <1>0, <2>1, <2>2, <3>1 DEF ProviderState
  <2>4. Response(c).body = TrueKey
    BY <1>1, <2>1, <2>3 DEF Knows, AnswersCurrent
  <2> QED
    BY <2>3, <2>4 DEF Knows
<1>10. CASE state'[p] = None /\ call'[t] = Idle
  BY <1>0, <1>10 DEF Knows
<1> QED
  BY <1>0, <1>2, <1>3, <1>4, <1>5, <1>6, <1>7, <1>8, <1>9, <1>10, OwnKinds DEF IndInv

-----------------------------------------------------------------------------
(* The steps of the commands.                                              *)

\* What holds of a thread and its command.
CommandInv(t) == InScript(t) /\ Knows(t) /\ HasCurrent(t)

\* A thread that a step leaves alone, with the command that it runs.
LEMMA LeftAlone ==
  ASSUME NEW u, CommandInv(u), Undisturbed(u), KeepsAnswer(u), KeepsCore(ProcOf[u]),
         TrueKey' = TrueKey, tool'[u] = tool[u]
  PROVE  CommandInv(u)'
<1>1. call'[u] = call[u]
  BY DEF Undisturbed
<1>2. InScript(u)' /\ HasCurrent(u)'
  BY <1>1 DEF CommandInv, InScript, HasCurrent, At, Agree
<1> QED
  BY <1>2, LeftAloneKnows DEF CommandInv

\* A command that goes on with a call goes on knowing what it knew, and so do the others.
LEMMA AdvanceKeeps ==
  ASSUME Typed, IndInv, ToolsInv, NEW t \in Threads, Advance(t)
  PROVE  ToolsInv'
<1>0. /\ CallsNow(t) /\ UNCHANGED devVars /\ UNCHANGED files /\ Advances(t)
      /\ MutexInv /\ OwnerInv
  BY DEF Advance, Advances, ToolsInv, IndInv
<1>1. TrueKey' = TrueKey /\ ShippedInv' /\ FilesInv'
  BY <1>0 DEF TrueKey, ToolsInv, ShippedInv, FilesInv, Agree, devVars
<1>2. DOMAIN tool' = Threads /\ \A u \in Threads : u # t => tool'[u] = tool[u]
  BY <1>0 DEF Advances
<1>3. CommandInv(t)'
  <2>1. InScript(t) /\ Knows(t) /\ HasCurrent(t)
    BY DEF ToolsInv
  <2> QED
    BY <1>0, <1>1, <2>1, OwnScript, OwnKnows, OwnBytes, Zenon DEF CommandInv
<1>4. ASSUME NEW u \in Threads, u # t PROVE CommandInv(u)'
  <2>1. Undisturbed(u) /\ KeepsAnswer(u) /\ KeepsCore(ProcOf[u])
    BY <1>0, <1>4, CallKinds, OthersLeftAlone
  <2>2. CommandInv(u)
    BY DEF ToolsInv, CommandInv
  <2> QED
    BY <1>1, <1>2, <1>4, <2>1, <2>2, LeftAlone
<1> QED
  BY <1>1, <1>2, <1>3, <1>4 DEF ToolsInv, CommandInv

\* A step of a command that is none of the system disturbs nobody.
LEMMA AsideUndisturbed ==
  ASSUME Typed, MutexInv, Aside
  PROVE  /\ TrueKey' = TrueKey /\ (ShippedInv => ShippedInv')
         /\ \A u \in Threads : Undisturbed(u) /\ KeepsAnswer(u) /\ KeepsCore(ProcOf[u])
<1>1. Looks
  BY SameStateCores DEF Aside, Looks
<1>2. \A u \in Threads : KeepsCore(ProcOf[u])
  BY DEF Aside, KeepsCore, SameCore
<1> QED
  BY <1>1, <1>2, LooksUndisturbed DEF Aside, TrueKey, ShippedInv, devVars

\* A command that is at none of its calls, in none, and claims nothing of the key.
LEMMA Unclaimed ==
  ASSUME NEW t, call'[t] = Idle,
         tool'[t] = Rest
         \/ (/\ IsPlace(tool'[t]) /\ tool'[t].cmd \in DOMAIN Script
             /\ tool'[t].step \in 1 .. Len(Script[tool'[t].cmd])
             /\ tool'[t].bytes = None /\ ~tool'[t].current)
  PROVE  CommandInv(t)'
  BY DEF CommandInv, InScript, Knows, HasCurrent, Agree

\* No script is empty.
LEMMA ScriptStarts ==
  ASSUME NEW cmd \in DOMAIN Script
  PROVE  1 \in 1 .. Len(Script[cmd])
<1>1. CASE cmd = "get_pubkey"
  <2>1. Script[cmd] = <<"initialize", "open", "find_init", "find", "find_final",
                        "length", "value", "truncate", "fill", "exit">>
    BY <1>1 DEF Script
  <2> QED
    BY <2>1
<1>2. CASE cmd = "generate_keypair"
  <2>1. Script[cmd] = <<"initialize", "open", "generate",
                        "length", "value", "truncate", "fill", "exit">>
    BY <1>2 DEF Script
  <2> QED
    BY <2>1
<1>3. CASE cmd = "sign"
  <2>1. Script[cmd] = <<"initialize", "open", "sign_init", "sign", "truncate", "fill", "exit">>
    BY <1>3 DEF Script
  <2> QED
    BY <2>1
<1> QED
  BY <1>1, <1>2, <1>3 DEF Script

\* A thread is in a call only at a step of its script that is one.
LEMMA InNoCall ==
  ASSUME Typed, NEW t \in Threads, InScript(t),
         tool[t] = Rest \/ At(t, "truncate") \/ At(t, "fill")
  PROVE  call[t] = Idle
<1>1. call[t] \in Places
  BY DEF Typed, ProviderTypeOK
<1>2. call[t] # Idle => call[t].at \in {"get_info", "get_public_key", "store", "sign",
                                       "sign_wait", "gen_wait"}
  BY <1>1, PlaceFields
<1>3. call[t] # Idle => CallOf[call[t].at] \in {"initialize", "sign", "generate"}
  BY <1>2 DEF CallOf
<1>4. \A label : At(t, label) => tool[t] # Rest /\ Script[tool[t].cmd][tool[t].step] = label
  BY AtIs, Zenon
<1>5. call[t] # Idle => At(t, CallOf[call[t].at])
  BY DEF InScript
<1> QED
  BY <1>3, <1>4, <1>5

\* A command starts.
LEMMA LaunchKeeps ==
  ASSUME Typed, IndInv, ToolsInv, NEW t \in Threads, Launch(t)
  PROVE  ToolsInv'
<1>0. MutexInv /\ Aside /\ UNCHANGED files /\ tool[t] = Rest /\ InScript(t)
  BY DEF Launch, IndInv, ToolsInv
<1>1. PICK cmd \in CommandsOf[t] : tool' = [tool EXCEPT ![t] = Started(cmd)]
  BY DEF Launch
<1>2. cmd \in DOMAIN Script
  BY ToolsAssumption
<1>3. /\ DOMAIN tool' = Threads /\ tool'[t] = Started(cmd)
      /\ \A u \in Threads : u # t => tool'[u] = tool[u]
  BY <1>1 DEF ToolsInv
<1>4. call'[t] = Idle
  BY <1>0, InNoCall DEF Aside
<1>5. CommandInv(t)'
  <2>1. /\ IsPlace(tool'[t]) /\ tool'[t].cmd = cmd /\ tool'[t].step = 1
        /\ tool'[t].bytes = None /\ tool'[t].current = FALSE
    BY <1>3 DEF Started, IsPlace
  <2>2. /\ tool'[t].cmd \in DOMAIN Script
        /\ tool'[t].step \in 1 .. Len(Script[tool'[t].cmd]) /\ ~tool'[t].current
    <3>1. 1 \in 1 .. Len(Script[cmd])
      BY <1>2, ScriptStarts, Zenon
    <3> QED
      BY <1>2, <2>1, <3>1, Zenon
  <2> QED
    BY <1>4, <2>1, <2>2, Unclaimed, Zenon
<1>6. ASSUME NEW u \in Threads, u # t PROVE CommandInv(u)'
  BY <1>0, <1>3, <1>6, AsideUndisturbed, LeftAlone DEF ToolsInv, CommandInv
<1>7. ShippedInv' /\ FilesInv'
  BY <1>0, AsideUndisturbed DEF ToolsInv, FilesInv, Agree
<1> QED
  BY <1>3, <1>5, <1>6, <1>7 DEF ToolsInv, CommandInv

\* A command writes its file.
LEMMA WriteKeeps ==
  ASSUME Typed, IndInv, ToolsInv, NEW t \in Threads, WriteOutput(t)
  PROVE  ToolsInv'
<1> DEFINE x == tool[t]
           y == tool'[t]
           out == Output[x.cmd]
<1>0. MutexInv /\ Aside /\ InScript(t) /\ Knows(t) /\ HasCurrent(t)
  BY DEF WriteOutput, IndInv, ToolsInv
<1>1. At(t, "truncate") \/ At(t, "fill")
  BY DEF WriteOutput
<1>2. /\ x # Rest /\ IsPlace(x) /\ x.cmd \in DOMAIN Script /\ x.step \in 1 .. Len(Script[x.cmd])
  BY <1>0, <1>1, AtIs DEF InScript
<1>3. out \in {"pub", "sig"} /\ Len(Script[x.cmd]) \in 1 .. Len(Script[x.cmd])
  BY <1>2, ScriptOrder
<1>4. call'[t] = Idle
  BY <1>0, <1>1, InNoCall DEF Aside
<1>5. TrueKey' = TrueKey /\ ShippedInv'
  BY <1>0, AsideUndisturbed DEF ToolsInv
<1>6. /\ DOMAIN tool' = Threads
      /\ \A u \in Threads : u # t => tool'[u] = tool[u]
  BY DEF WriteOutput, ToolsInv
<1>7. ASSUME NEW u \in Threads, u # t PROVE CommandInv(u)'
  BY <1>0, <1>5, <1>6, <1>7, AsideUndisturbed, LeftAlone DEF ToolsInv, CommandInv
<1>8. ASSUME NEW bytes, files' = [files EXCEPT ![out] = bytes], Agree(out, bytes)
      PROVE  FilesInv'
  <2>1. files = [pub |-> files.pub, sig |-> files.sig] /\ Agree("pub", files.pub)
        /\ Agree("sig", files.sig)
    BY DEF ToolsInv, FilesInv
  <2> HIDE DEF out
  <2>2. CASE out = "pub"
    <3>1. files' = [pub |-> bytes, sig |-> files.sig]
      BY <1>8, <2>1, <2>2
    <3> QED
      BY <1>5, <1>8, <2>1, <2>2, <3>1 DEF FilesInv, Agree
  <2>3. CASE out = "sig"
    <3>1. files' = [pub |-> files.pub, sig |-> bytes]
      BY <1>8, <2>1, <2>3
    <3> QED
      BY <1>5, <1>8, <2>1, <2>3, <3>1 DEF FilesInv, Agree
  <2> QED
    BY <1>3, <2>2, <2>3 DEF out
<1>9. CommandInv(t)' /\ FilesInv'
  <2>1. CASE At(t, "truncate") /\ files' = [files EXCEPT ![out] = None] /\ y = Onward(x)
    <3>1. /\ IsPlace(y) /\ y.cmd = x.cmd /\ y.step = x.step + 1 /\ y.bytes = x.bytes
          /\ y.current = x.current
      BY <1>2, <2>1 DEF Onward, IsPlace
    <3>2. Script[x.cmd][x.step] = "truncate"
      BY <2>1, AtIs, Zenon
    <3>3. x.step + 1 \in 1 .. Len(Script[x.cmd]) /\ Script[x.cmd][x.step + 1] = "fill"
      BY <1>2, <3>2, ScriptOrder
    <3>4. x.cmd # None
      BY <1>2, ToolsAssumption
    <3> HIDE DEF x, y
    <3>5. y.cmd # None /\ Script[y.cmd][y.step] = "fill" /\ y.cmd \in DOMAIN Script
          /\ y.step \in 1 .. Len(Script[y.cmd])
      BY <1>2, <3>1, <3>3, <3>4
    <3>6. InScript(t)'
      BY <1>4, <3>1, <3>5 DEF InScript, At, y
    <3>7. Knows(t)'
      <4>1. y # Rest /\ y.current => x # Rest /\ x.current
        BY <1>2, <3>1
      <4>2. Undisturbed(t) /\ KeepsAnswer(t) /\ KeepsCore(ProcOf[t])
        BY <1>0, AsideUndisturbed
      <4> QED
        BY <1>0, <1>5, <4>1, <4>2, LeftAloneKnows, Zenon DEF x, y
    <3>8. HasCurrent(t)'
      BY <1>0, <1>2, <1>5, <3>1 DEF HasCurrent, Agree, x, y
    <3>9. Agree(out, None)
      BY DEF Agree
    <3> QED
      BY <1>8, <2>1, <3>6, <3>7, <3>8, <3>9 DEF CommandInv
  <2>2. CASE /\ At(t, "fill") /\ files' = [files EXCEPT ![out] = x.bytes]
             /\ y = ToExit(x.cmd)
    <3>1. IsPlace(y) /\ y.cmd = x.cmd /\ y.step = Len(Script[x.cmd])
          /\ y.bytes = None /\ y.current = FALSE
      BY <2>2 DEF ToExit, Started, IsPlace
    <3>2. Agree(out, x.bytes)
      BY <1>0, <1>2 DEF HasCurrent
    <3> HIDE DEF x
    <3>3. y.cmd \in DOMAIN Script /\ y.step \in 1 .. Len(Script[y.cmd]) /\ ~y.current
      BY <1>2, <1>3, <3>1
    <3>4. CommandInv(t)'
      BY <1>4, <3>1, <3>3, Unclaimed, Zenon
    <3> QED
      BY <1>8, <2>2, <3>2, <3>4
  <2> QED
    BY <2>1, <2>2 DEF WriteOutput, ToolsInv
<1> QED
  BY <1>5, <1>6, <1>7, <1>9 DEF ToolsInv, CommandInv

\* A command ends, or is killed.
LEMMA EndKeeps ==
  ASSUME Typed, IndInv, ToolsInv, NEW t \in Threads, EndOf(t)
  PROVE  ToolsInv'
<1>0. /\ MutexInv /\ OwnerInv /\ UNCHANGED files /\ tool' = [tool EXCEPT ![t] = Rest]
      /\ ProcOf[t] \in Procs /\ call \in [Threads -> Places]
  BY ProviderAssumption DEF EndOf, IndInv, Typed, ProviderTypeOK
<1>1. /\ DOMAIN tool' = Threads /\ tool'[t] = Rest
      /\ \A u \in Threads : u # t => tool'[u] = tool[u]
  BY <1>0 DEF ToolsInv
<1>2. /\ call'[t] = Idle /\ TrueKey' = TrueKey /\ ShippedInv'
      /\ \A u \in Threads : u # t => Undisturbed(u) /\ KeepsAnswer(u) /\ KeepsCore(ProcOf[u])
  <2>1. CASE Aside /\ call[t] = Idle
    BY <1>0, <2>1, AsideUndisturbed DEF Aside, ToolsInv
  <2>2. CASE Exit(ProcOf[t]) /\ UNCHANGED devVars
    <3>1. Leaving(ProcOf[t])
      BY <1>0, <2>2, LeaveKinds
    <3>2. call'[t] = Idle
      BY <3>1 DEF Leaving
    <3>3. TrueKey' = TrueKey /\ ShippedInv'
      BY <2>2 DEF TrueKey, ShippedInv, ToolsInv, devVars
    <3> QED
      BY <1>0, <3>1, <3>2, <3>3, OthersLeftAlone
  <2> QED
    BY <2>1, <2>2 DEF EndOf
<1>3. CommandInv(t)'
  BY <1>1, <1>2, Unclaimed
<1>4. ASSUME NEW u \in Threads, u # t PROVE CommandInv(u)'
  BY <1>1, <1>2, <1>4, LeftAlone DEF ToolsInv, CommandInv
<1>5. FilesInv'
  BY <1>0, <1>2 DEF ToolsInv, FilesInv, Agree
<1> QED
  BY <1>1, <1>2, <1>3, <1>4, <1>5 DEF ToolsInv, CommandInv

-----------------------------------------------------------------------------
(* The steps of the token.                                                 *)

\* The parameter set and the key of the demo key pair.
LEMMA Demo ==
  /\ TheParam \in PARAM_SETS /\ \A p \in PARAM_SETS : p = TheParam
  /\ DemoKey \in Keys /\ DemoKey # None
  BY ToolsAssumption, DevSignerAssumption, TokenAssumption DEF TheParam, DemoKey

\* The token has, or will start with, the same key unless its key changes.
LEMMA TrueKeyKept ==
  ASSUME TypeOK, ServerInv, ShippedInv, DevStep
  PROVE  ShippedInv' /\ (~KeyChanges => TrueKey' = TrueKey)
<1>0. Typed /\ disk = [p \in PARAM_SETS |-> DemoKey]
  BY DEF TypeOK, Typed, ShippedInv
<1>1. CASE UNCHANGED devVars
  BY <1>1 DEF devVars, ShippedInv, TrueKey
<1>2. CASE Crash
  <2>1. backend # None /\ backend' = None /\ UNCHANGED disk /\ backend.param \in PARAM_SETS
    BY <1>2, Demo DEF Crash, ShippedInv
  <2>2. disk[backend.param] = DemoKey
    BY <1>0, <2>1
  <2> QED
    BY <2>1, <2>2 DEF ShippedInv, TrueKey, KeyChanges
<1>3. ASSUME NEW p \in PARAM_SETS, Boot(p)
      PROVE  ShippedInv' /\ TrueKey' = TrueKey
  <2>1. disk[p] = DemoKey /\ disk[p] # None /\ p = TheParam
    BY <1>0, Demo
  <2>2. /\ backend = None /\ disk' = [disk EXCEPT ![p] = DemoKey]
        /\ backend' = [param |-> p, signing |-> DemoKey, public |-> DemoKey]
    BY <1>3, <2>1 DEF Boot
  <2>3. disk' = disk
    BY <1>0, <2>2
  <2>4. backend'.param = p /\ backend'.signing = DemoKey /\ backend' # None
    BY <1>3, <2>2, BootBackend, NoneIsNoBackend
  <2> QED
    BY <2>1, <2>2, <2>3, <2>4 DEF ShippedInv, TrueKey
<1>4. ASSUME NEW c \in Conns, Handle(c)
      PROVE  ShippedInv' /\ (~KeyChanges => TrueKey' = TrueKey)
  <2>1. TakesTurn(c) /\ UNCHANGED disk /\ backend # None /\ backend.signing = backend.public
    BY <1>4 DEF Handle, TakesTurn, ServerInv
  <2>2. /\ backend \in Backends /\ Head(link[c].up) \in Requests /\ backend' # None
        /\ \/ UNCHANGED backend
           \/ \E o \in dispatch(Head(link[c].up), backend) : backend' = o.be
    BY <1>0, <2>1, TurnFields, NoneIsNoBackend
  <2>3. backend'.param = backend.param
    BY <2>1, <2>2, DispatchSays, DevSignerAssumption
  <2> QED
    BY <2>1, <2>2, <2>3 DEF ShippedInv, TrueKey, KeyChanges
<1> QED
  BY <1>1, <1>2, <1>3, <1>4 DEF DevStep, DevServes, Accept, Hangup

\* An answer appears only on the connection that is served, and requests elsewhere at
\* most get lost.
LEMMA ServerDown ==
  ASSUME TypeOK, IndInv, DevStep, NEW c \in Conns
  PROVE  \/ link'[c].dev = "serving"
         \/ link'[c].down \in {link[c].down, <<>>} /\ link'[c].up \in {link[c].up, <<>>}
<1>1. ASSUME NEW d \in Conns, Handle(d)
      PROVE  link'[c].dev = "serving" \/ link'[c] = link[c]
  BY <1>1, TurnFields DEF Handle, TypeOK, Typed
<1>2. CASE ServerMoves
  BY <1>2, ServerSteady DEF Steady, IndInv
<1> QED
  BY <1>1, <1>2 DEF DevStep, DevServes, ServerMoves

\* An answer on a connection that is served tells of the token's own key.
LEMMA AnswerTrue ==
  ASSUME IndInv', ShippedInv', NEW u \in Threads, NEW c \in Conns, ConnOf(u)' = c,
         call'[u].at \in {"get_public_key", "gen_wait"}, AnswersCurrent(u)', link'[c].dev = "serving"
  PROVE  Response(c)'.body = TrueKey'
<1>1. Waits(u)' /\ ServerInv' /\ AwaitingToken(u)' /\ Serving(c)'
  BY DEF IndInv, TrafficInv, AwaitingToken, Serving
<1>2. link'[c].down # <<>> /\ Response(c)'.status = "Ok"
  BY DEF AnswersCurrent, Arrived, Response
<1>3. PICK rsp \in Responses : link'[c].down = <<rsp>> /\ Answers(u, rsp)'
  BY <1>1, <1>2 DEF Waits
<1>4. Response(c)' = rsp
  BY <1>3 DEF Response
<1>5. rsp.body = TokenKey'
  BY <1>1, <1>2, <1>3, <1>4 DEF Answers
<1>6. backend' # None
  BY <1>1 DEF ServerInv, Serving
<1>7. TokenKey' = TrueKey'
  BY <1>6 DEF ShippedInv, TokenKey, TrueKey
<1> QED
  BY <1>4, <1>5, <1>7

\* What is known of a token whose key stays is still true after a step of the token.
LEMMA SameKeyKnown ==
  ASSUME TypeOK, IndInv, DevStep, Typed', IndInv', ShippedInv', TrueKey' = TrueKey,
         NEW u \in Threads, CommandInv(u), tool'[u] = tool[u]
  PROVE  CommandInv(u)'
<1> DEFINE c == ConnOf(u)
<1>1. UNCHANGED <<state, holder, call>> /\ ConnOf(u)' = c
  BY DEF DevStep, Quietly, ConnOf, Handshaking
<1>2. KeepsCore(ProcOf[u])
  BY <1>1 DEF KeepsCore, SameCore
<1>3. InScript(u)' /\ HasCurrent(u)'
  BY <1>1 DEF CommandInv, InScript, HasCurrent, At, Agree
<1>4. ASSUME tool[u] # Rest, tool[u].current
      PROVE  Knows(u)'
  <2>1. ASSUME call[u].at \in {"get_public_key", "gen_wait"}, AnswersCurrent(u)'
        PROVE  Response(c)'.body = TrueKey
    <3>1. c \in Conns
      BY <2>1, ConnsApart DEF IndInv, TypeOK, Typed, Placed, Handshaking, InExchange
    <3>2. CASE link'[c].dev = "serving"
      BY <1>1, <2>1, <3>1, <3>2, AnswerTrue
    <3>3. CASE link'[c].down = link[c].down
      <4>1. AnswersCurrent(u) /\ Response(c)' = Response(c)
        BY <1>1, <2>1, <3>3 DEF AnswersCurrent, Arrived, Response
      <4> QED
        BY <1>4, <2>1, <4>1 DEF CommandInv, Knows
    <3>4. CASE link'[c].down = <<>>
      BY <1>1, <2>1, <3>4 DEF AnswersCurrent, Arrived
    <3> QED
      BY <3>1, <3>2, <3>3, <3>4, ServerDown
  <2>2. call[u].at = "store" => call[u].pk = TrueKey
    BY <1>4 DEF CommandInv, Knows
  <2>3. ~Handshaking(u) /\ call[u].at # "gen_wait" /\ state[ProcOf[u]] # None
          => state[ProcOf[u]].pk = TrueKey
    BY <1>4 DEF CommandInv, Knows
  <2> QED
    BY <1>1, <2>1, <2>2, <2>3 DEF Knows, Handshaking
<1> QED
  BY <1>3, <1>4 DEF CommandInv, Knows

\* When the key changes, only the command whose request changed it still knows it.
LEMMA NewKeyKnown ==
  ASSUME TypeOK, IndInv, DevStep, IndInv', ShippedInv', NEW u \in Threads, CommandInv(u),
         tool'[u] = IF tool[u] = Rest \/ ServesOwn(u) THEN tool[u]
                    ELSE [tool[u] EXCEPT !.current = FALSE, !.bytes = None]
  PROVE  CommandInv(u)'
<1>0. UNCHANGED <<state, holder, call>> /\ InScript(u) /\ Typed
  BY DEF DevStep, Quietly, CommandInv, TypeOK, Typed
<1>1. CASE tool[u] = Rest
  <2>1. call'[u] = Idle
    BY <1>0, <1>1, InNoCall
  <2> QED
    BY <1>1, <2>1, Unclaimed
<1>2. CASE tool[u] # Rest /\ ServesOwn(u)
  <2> DEFINE c == state[ProcOf[u]].conn
  <2>1. /\ tool'[u] = tool[u] /\ call[u].at = "gen_wait" /\ link'[c].up # link[c].up
        /\ ConnOf(u) = c /\ ConnOf(u)' = c /\ AwaitingToken(u) /\ InExchange(u)
    BY <1>0, <1>2 DEF ServesOwn, ConnOf, Handshaking, AwaitingToken, InExchange
  <2>2. c \in Conns
    BY <1>0, <2>1, ExchangeFields DEF IndInv
  <2>3. tool[u].bytes = None
    <3>1. call[u] # Idle
      BY <2>1 DEF Idle
    <3> QED
      BY <1>0, <1>2, <3>1, InNoCall DEF InScript
  <2>4. ASSUME AnswersCurrent(u)' PROVE Response(c)'.body = TrueKey'
    <3>1. link'[c].down # <<>>
      BY <2>1, <2>4 DEF AnswersCurrent, Arrived
    <3>2. CASE link'[c].dev = "serving"
      BY <1>0, <2>1, <2>2, <2>4, <3>2, AnswerTrue
    <3>3. CASE link'[c].down \in {link[c].down, <<>>} /\ link'[c].up \in {link[c].up, <<>>}
      <4>1. link[c].up # <<>> /\ link[c].down # <<>>
        BY <2>1, <3>1, <3>3
      <4> QED
        BY <2>1, <4>1 DEF IndInv, TrafficInv, Waits
    <3> QED
      BY <2>2, <3>2, <3>3, ServerDown
  <2>5. InScript(u)'
    BY <1>0, <2>1 DEF InScript, At
  <2>6. HasCurrent(u)'
    BY <2>1, <2>3 DEF HasCurrent, Agree
  <2>7. Knows(u)'
    BY <1>0, <2>1, <2>4 DEF Knows
  <2> QED
    BY <2>5, <2>6, <2>7 DEF CommandInv
<1>3. CASE tool[u] # Rest /\ ~ServesOwn(u)
  <2> DEFINE x == tool[u]
             y == tool'[u]
  <2>1. /\ y = [x EXCEPT !.current = FALSE, !.bytes = None]
        /\ IsPlace(x) /\ x.cmd \in DOMAIN Script /\ x.step \in 1 .. Len(Script[x.cmd])
    BY <1>0, <1>3 DEF InScript
  <2> HIDE DEF x, y
  <2>2. /\ IsPlace(y) /\ y.cmd = x.cmd /\ y.step = x.step /\ y.bytes = None /\ y.current = FALSE
    BY <2>1 DEF IsPlace
  <2>3. y.cmd \in DOMAIN Script /\ y.step \in 1 .. Len(Script[y.cmd])
    BY <2>1, <2>2
  <2>4. call[u] # Idle => y.cmd # None /\ Script[y.cmd][y.step] = CallOf[call[u].at]
    BY <1>0, <2>2 DEF InScript, At, x
  <2>5. InScript(u)'
    BY <1>0, <2>2, <2>3, <2>4 DEF InScript, At, y
  <2>6. HasCurrent(u)' /\ Knows(u)'
    BY <2>2 DEF HasCurrent, Agree, Knows, y
  <2> QED
    BY <2>5, <2>6 DEF CommandInv
<1> QED
  BY <1>1, <1>2, <1>3

\* The steps of the token keep what the commands know, and what is in the files.
LEMMA TokenKeeps ==
  ASSUME TypeOK, IndInv, TypeOK', IndInv', ToolsInv, TokenMoves
  PROVE  ToolsInv'
<1>1. /\ DevStep /\ ShippedInv' /\ (~KeyChanges => TrueKey' = TrueKey) /\ Typed'
  BY TrueKeyKept DEF TokenMoves, ToolsInv, IndInv, TypeOK, Typed
<1>2. CASE KeyChanges
  <2>1. /\ tool' = [t \in Threads |-> IF tool[t] = Rest \/ ServesOwn(t) THEN tool[t]
                                      ELSE [tool[t] EXCEPT !.current = FALSE, !.bytes = None]]
        /\ files' = [f \in DOMAIN files |-> None]
    BY <1>2 DEF TokenMoves
  <2>2. ASSUME NEW u \in Threads PROVE CommandInv(u)'
    <3>1. tool'[u] = IF tool[u] = Rest \/ ServesOwn(u) THEN tool[u]
                     ELSE [tool[u] EXCEPT !.current = FALSE, !.bytes = None]
      BY <2>1
    <3>2. CommandInv(u)
      BY DEF ToolsInv, CommandInv
    <3> QED
      BY <1>1, <3>1, <3>2, NewKeyKnown
  <2>3. FilesInv'
    <3>1. files = [pub |-> files.pub, sig |-> files.sig]
      BY DEF ToolsInv, FilesInv
    <3>2. DOMAIN files = {"pub", "sig"}
      BY <3>1
    <3>3. files' = [pub |-> None, sig |-> None]
      BY <2>1, <3>2
    <3> QED
      BY <3>3 DEF FilesInv, Agree
  <2>4. DOMAIN tool' = Threads
    BY <2>1
  <2> QED
    BY <1>1, <2>2, <2>3, <2>4 DEF ToolsInv, CommandInv
<1>3. CASE ~KeyChanges
  <2>1. UNCHANGED <<tool, files>>
    BY <1>3 DEF TokenMoves
  <2>2. ASSUME NEW u \in Threads PROVE CommandInv(u)'
    <3>1. CommandInv(u) /\ tool'[u] = tool[u]
      BY <2>1 DEF ToolsInv, CommandInv
    <3> QED
      BY <1>1, <1>3, <3>1, SameKeyKnown
  <2>3. FilesInv'
    BY <1>1, <1>3, <2>1 DEF ToolsInv, FilesInv, Agree
  <2> QED
    BY <1>1, <2>1, <2>2, <2>3 DEF ToolsInv, CommandInv
<1> QED
  BY <1>2, <1>3

-----------------------------------------------------------------------------
(* The files.                                                              *)

\* The commands keep the pairing of requests with answers and of caches with keys: what
\* they do is what any application may do.
LEMMA ToolsPairing == TypeOK /\ IndInv /\ [ToolsNext]_toolsVars => TypeOK' /\ IndInv'
<1> SUFFICES ASSUME TypeOK, IndInv, [ToolsNext]_toolsVars PROVE TypeOK' /\ IndInv'
  OBVIOUS
<1>1. CASE UNCHANGED <<linkVars, state, holder, call, panicked, devVars>>
  <2>1. Typed' /\ IndInv'
    BY <1>1, StutterPairing DEF TypeOK, Typed, devVars
  <2> QED
    BY <1>1, <2>1 DEF TypeOK, Typed, DevTypeOK, devVars
<1>2. CASE Next
  BY <1>2, PairingNext
<1>3. ASSUME NEW t \in Threads, Advance(t) PROVE TypeOK' /\ IndInv'
  <2>1. CASE ReadsNow(t)
    BY <1>1, <1>3, <2>1, ReadsAside DEF ReadsNow, Advance
  <2>2. CASE ~ReadsNow(t)
    BY <1>2, <1>3, <2>2, CallsProvider DEF Advance, Next, ProviderStep
  <2> QED
    BY <2>1, <2>2
<1>4. ASSUME NEW t \in Threads, EndOf(t) PROVE TypeOK' /\ IndInv'
  <2>1. ProcOf[t] \in Procs
    BY ProviderAssumption
  <2> QED
    BY <1>1, <1>2, <1>4, <2>1, Zenon DEF EndOf, Aside, Next, ProviderStep, ProviderNext
<1>5. ASSUME NEW t \in Threads, Launch(t) \/ WriteOutput(t) PROVE TypeOK' /\ IndInv'
  BY <1>1, <1>5 DEF Launch, WriteOutput, Aside
<1>6. CASE TokenMoves
  BY <1>2, <1>6 DEF TokenMoves, Next
<1>7. CASE UNCHANGED toolsVars
  BY <1>1, <1>7 DEF toolsVars, vars, providerVars
<1> QED
  BY <1>3, <1>4, <1>5, <1>6, <1>7, Zenon DEF ToolsNext, Runs, Leave, Killed

\* What the commands know of the token's key stays true.
LEMMA ToolsKeep ==
  TypeOK /\ IndInv /\ ToolsInv /\ [ToolsNext]_toolsVars => TypeOK' /\ IndInv' /\ ToolsInv'
<1> SUFFICES ASSUME TypeOK, IndInv, ToolsInv, [ToolsNext]_toolsVars
             PROVE  TypeOK' /\ IndInv' /\ ToolsInv'
  OBVIOUS
<1>0. TypeOK' /\ IndInv' /\ Typed
  BY ToolsPairing DEF TypeOK, Typed
<1>1. CASE TokenMoves
  BY <1>0, <1>1, TokenKeeps
<1>2. ASSUME NEW t \in Threads, Launch(t) \/ Advance(t) \/ WriteOutput(t) \/ EndOf(t)
      PROVE  ToolsInv'
  BY <1>0, <1>2, LaunchKeeps, AdvanceKeeps, WriteKeeps, EndKeeps
<1>3. CASE UNCHANGED toolsVars
  <2>1. TrueKey' = TrueKey /\ ShippedInv' /\ FilesInv' /\ UNCHANGED <<tool, state, call, link>>
    BY <1>3 DEF TrueKey, ToolsInv, ShippedInv, FilesInv, Agree, toolsVars, vars, devVars,
                linkVars, providerVars
  <2>2. \A u \in Threads : Undisturbed(u) /\ KeepsAnswer(u) /\ KeepsCore(ProcOf[u])
    <3>1. Looks
      BY <1>3, SameStateCores DEF Looks, toolsVars, vars, linkVars, providerVars
    <3>2. \A u \in Threads : KeepsCore(ProcOf[u])
      BY <2>1 DEF KeepsCore, SameCore
    <3>3. Typed /\ MutexInv
      BY <1>0 DEF IndInv
    <3> QED
      BY <3>1, <3>2, <3>3, LooksUndisturbed
  <2>3. ASSUME NEW u \in Threads PROVE CommandInv(u)'
    <3>1. CommandInv(u) /\ tool'[u] = tool[u]
      BY <2>1 DEF ToolsInv, CommandInv
    <3>2. Undisturbed(u) /\ KeepsAnswer(u) /\ KeepsCore(ProcOf[u]) /\ TrueKey' = TrueKey
      BY <2>1, <2>2
    <3> QED
      BY <3>1, <3>2, LeftAlone
  <2>4. ShippedInv' /\ FilesInv' /\ DOMAIN tool' = Threads
    BY <2>1 DEF ToolsInv
  <2>5. ToolsInv'
    BY <2>3, <2>4 DEF ToolsInv, CommandInv
  <2> QED
    BY <1>0, <2>5
<1> QED
  BY <1>0, <1>1, <1>2, <1>3, Zenon DEF ToolsNext, Runs, Leave, Killed

\* At the start no command runs, and the token has the demo key pair.
LEMMA ToolsStart == ToolsInit => TypeOK /\ IndInv /\ ToolsInv
<1> SUFFICES ASSUME ToolsInit PROVE TypeOK /\ IndInv /\ ToolsInv
  OBVIOUS
<1>1. /\ Init /\ disk = [p \in PARAM_SETS |-> DemoKey] /\ backend = None
      /\ tool = [t \in Threads |-> Rest] /\ files = [pub |-> None, sig |-> None]
      /\ \A t \in Threads : call[t] = Idle
  BY DEF ToolsInit, Init, DevInit, ProviderInit
<1>2. \A t \in Threads : InScript(t) /\ Knows(t) /\ HasCurrent(t)
  BY <1>1 DEF InScript, Knows, HasCurrent
<1>3. FilesInv
  BY <1>1 DEF FilesInv, Agree
<1> QED
  BY <1>1, <1>2, <1>3, DevStart DEF ToolsInv, ShippedInv

\* A public key file that a command has written since the token last changed its key
\* is the token's own, and the signature file verifies under it, whichever commands
\* ran, waited or were killed meanwhile (pkcs11-cli/src/main.rs, get_pubkey and
\* generate_keypair; the accept loop of dev-signer/src/main.rs).
THEOREM FilesStayCurrent == ToolsSpec => []FilesAreCurrent
<1>1. ToolsInv => FilesAreCurrent
  <2> SUFFICES ASSUME ToolsInv, files.pub # None
               PROVE  /\ backend # None => files.pub = KeyBytes(backend.param, backend.signing)
                      /\ files.sig # None => Verifies(files.pub, files.sig.msg, files.sig)
    BY DEF FilesAreCurrent
  <2>1. files.pub = TrueKey
    BY DEF ToolsInv, FilesInv, Agree
  <2>2. backend # None => files.pub = KeyBytes(backend.param, backend.signing)
    BY <2>1 DEF ToolsInv, ShippedInv, TrueKey
  <2>3. files.sig # None => files.sig = SigBytes(TrueKey.param, TrueKey.key, files.sig.msg)
    BY DEF ToolsInv, FilesInv, Agree
  <2>4. TrueKey.kind = "pk"
    BY DEF TrueKey, KeyBytes
  <2> QED
    BY <2>1, <2>2, <2>3, <2>4 DEF Verifies
<1> QED
  BY <1>1, ToolsStart, ToolsKeep, PTL DEF ToolsSpec

=============================================================================
