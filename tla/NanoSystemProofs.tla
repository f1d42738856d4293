-------------------------- MODULE NanoSystemProofs --------------------------
(***************************************************************************)
(* NanoSystem, the provider over a serial port with nano-signer: its types *)
(* always, and the pairing of requests with answers as long as the token   *)
(* answers in time, no process ends in an exchange, and the host notices   *)
(* every reset.                                                            *)
(***************************************************************************)
EXTENDS NanoSystem, ProviderProofs

\* No answer outlives the wait for it.
InTime == /\ SlowCommands = {} /\ "exit" \notin Calls
          /\ Resets \subseteq {"lost"}

\* RESPONSE_BUF_LEN holds any public key.
LEMMA RoomForKeys == ResponseBufLen >= 64
<1>1. signature_len_for[PARAM_SET_NAME] \in {7856, 17088, 16224, 35664, 29792, 49856}
  BY NanoAssumption DEF signature_len_for, ParamSets
<1> QED
  BY <1>1, NanoAssumption

-----------------------------------------------------------------------------
(* The types.                                                              *)

\* At the start everything is typed, and nothing is under way.
LEMMA NanoStart == Init => TypeOK /\ IndInv
<1> SUFFICES ASSUME Init PROVE TypeOK /\ IndInv
  OBVIOUS
<1>1. AtRest
  BY DEF Init, NanoInit, AtRest
<1>2. NanoTypeOK
  BY DEF Init, NanoInit, NanoTypeOK
<1> QED
  BY <1>1, <1>2, RestPairing DEF TypeOK, Typed

\* The firmware starts: it loads its key pair or makes one, and the port that the
\* reset took off the bus comes back as a new one.
LEMMA BootFields ==
  ASSUME TypeOK, Boot
  PROVE  /\ backend = None /\ backend' \in Backends /\ backend'.signing = backend'.public
         /\ record' \in Keys /\ listening' = TRUE /\ UNCHANGED backlog
         /\ link' \in [Conns -> Channels]
         /\ \/ Port # {} /\ UNCHANGED link
            \/ \E c \in Conns : /\ Port = {} /\ link[c] = Unused
                                /\ link'[c] = [Unused EXCEPT !.dev = "serving"]
                                /\ \A d \in Conns : d # c => link'[d] = link[d]
<1>0. record \in Keys \cup {None} /\ link \in [Conns -> Channels]
  BY DEF TypeOK, NanoTypeOK, LinkTypeOK
<1>1. PICK k \in Keys :
        /\ record' = k
        /\ backend' = [param |-> PARAM_SET_NAME, signing |-> k, public |-> k]
  BY <1>0 DEF Boot
<1>2. /\ backend = None /\ backend' \in Backends /\ backend'.signing = backend'.public
      /\ record' \in Keys /\ listening' = TRUE /\ UNCHANGED backlog
  BY <1>1, NanoAssumption DEF Boot, Backends
<1>3. CASE Port # {} /\ UNCHANGED link
  BY <1>0, <1>2, <1>3
<1>4. ASSUME Port = {}, NEW c \in Conns, link[c] = Unused,
             link' = [link EXCEPT ![c].dev = "serving"]
      PROVE  /\ link' \in [Conns -> Channels]
             /\ link'[c] = [Unused EXCEPT !.dev = "serving"]
             /\ \A d \in Conns : d # c => link'[d] = link[d]
  <2>1. [Unused EXCEPT !.dev = "serving"] \in Channels
    <3>1. \A ch \in Channels : Unused \in Channels /\ [ch EXCEPT !.dev = "serving"] \in Channels
      BY ChannelTypes
    <3>2. link[c] \in Channels
      BY <1>0
    <3> QED
      BY <1>4, <3>1, <3>2
  <2> QED
    BY <1>0, <1>4, <2>1
<1> QED
  BY <1>2, <1>3, <1>4 DEF Boot

\* A reset loses the token's memory and what was written to it.
LEMMA ResetFields ==
  ASSUME TypeOK, Reset
  PROVE  /\ backend \in Backends /\ backend' = None /\ listening' = FALSE
         /\ UNCHANGED <<backlog, record>>
         /\ \E r \in Resets, c \in Conns :
              /\ link[c].dev = "serving"
              /\ link' = [link EXCEPT ![c] = link'[c]] /\ link'[c] \in Channels
              /\ link'[c].up = <<>> /\ link'[c].host = link[c].host
              /\ r # "kept" => link'[c].dev = "closed" /\ link'[c].down = <<>>
<1>0. link \in [Conns -> Channels] /\ backend \in Backends \cup {None}
  BY DEF TypeOK, LinkTypeOK
<1>1. PICK r \in Resets, c \in Port :
        link' = [link EXCEPT ![c] = IF r = "kept" THEN [@ EXCEPT !.up = <<>>]
                                    ELSE IF @.host THEN TokenDies(@, FALSE) ELSE Unused]
  BY DEF Reset
<1>2. c \in Conns /\ link[c].dev = "serving" /\ link[c] \in Channels
  BY <1>0, <1>1 DEF Port
<1> DEFINE ch == IF r = "kept" THEN [link[c] EXCEPT !.up = <<>>]
                 ELSE IF link[c].host THEN TokenDies(link[c], FALSE) ELSE Unused
<1>3. link' = [link EXCEPT ![c] = ch]
  BY <1>1
<1>4. /\ ch \in Channels /\ ch.up = <<>> /\ ch.host = link[c].host
      /\ r # "kept" => ch.dev = "closed" /\ ch.down = <<>>
  <2>1. CASE r = "kept"
    <3>1. <<>> \in Seq(Requests)
      OBVIOUS
    <3> QED
      BY <1>2, <2>1, <3>1 DEF Channels
  <2>2. CASE r # "kept" /\ link[c].host
    <3>1. ch = TokenDies(link[c], FALSE)
      BY <2>2
    <3>2. ch = [link[c] EXCEPT !.dev = "closed", !.up = <<>>, !.down = <<>>]
      BY <3>1 DEF TokenDies
    <3>3. ch \in Channels
      BY <1>2, <3>1, ChannelTypes
    <3> QED
      BY <1>2, <3>2, <3>3 DEF Channels
  <2>3. CASE r # "kept" /\ ~link[c].host
    <3>1. Unused \in Channels
      BY <1>2, ChannelTypes
    <3> QED
      BY <1>2, <2>3, <3>1 DEF Unused, Channels
  <2> QED
    BY <2>1, <2>2, <2>3
<1>5. link'[c] = ch
  BY <1>0, <1>2, <1>3
<1> HIDE DEF ch
<1>6. /\ link[c].dev = "serving"
      /\ link' = [link EXCEPT ![c] = link'[c]] /\ link'[c] \in Channels
      /\ link'[c].up = <<>> /\ link'[c].host = link[c].host
      /\ r # "kept" => link'[c].dev = "closed" /\ link'[c].down = <<>>
  BY <1>2, <1>3, <1>4, <1>5
<1> QED
  BY <1>0, <1>2, <1>6 DEF Reset

\* Every step of the firmware keeps the types.
LEMMA NanoStepType == TypeOK /\ NanoStep => TypeOK'
<1> SUFFICES ASSUME TypeOK, NanoStep PROVE TypeOK'
  OBVIOUS
<1>0. /\ Typed /\ record \in Keys \cup {None} /\ link \in [Conns -> Channels]
      /\ backlog \in Seq(Conns) /\ (Typed' /\ NanoTypeOK' => TypeOK')
  BY DEF TypeOK, Typed, LinkTypeOK, NanoTypeOK
<1>1. UNCHANGED <<state, holder, call, panicked>>
  BY DEF NanoStep, Quietly
<1>2. ASSUME link' \in [Conns -> Channels], UNCHANGED backlog, listening' \in BOOLEAN,
             backend' \in Backends \cup {None}, record' \in Keys \cup {None}
      PROVE  TypeOK'
  <2>1. ProviderTypeOK'
    BY <1>0, <1>1 DEF Typed, ProviderTypeOK
  <2> QED
    BY <1>0, <1>2, <2>1 DEF Typed, LinkTypeOK, NanoTypeOK
<1>3. CASE Boot
  BY <1>2, <1>3, BootFields
<1>4. CASE Reset
  BY <1>0, <1>2, <1>4, ResetFields
<1>5. ASSUME NEW c \in Conns, Handle(c) PROVE TypeOK'
  BY <1>0, <1>1, <1>5, TurnTyped DEF Handle, NanoTypeOK
<1> QED
  BY <1>3, <1>4, <1>5 DEF NanoStep

\* Every step keeps the types and the mutexes.
LEMMA NanoTypeNext == TypeOK /\ MutexInv /\ [Next]_vars => TypeOK' /\ MutexInv'
<1> SUFFICES ASSUME TypeOK, MutexInv, [Next]_vars PROVE TypeOK' /\ MutexInv'
  OBVIOUS
<1>1. CASE ProviderStep
  <2>1. Typed /\ UNCHANGED backend /\ NanoTypeOK'
    BY <1>1 DEF ProviderStep, nanoVars, NanoTypeOK, TypeOK, Typed
  <2> QED
    BY <1>1, <2>1, ProviderTyped DEF ProviderStep, TypeOK, Typed
<1>2. CASE NanoStep
  BY <1>2, NanoStepType DEF NanoStep, Quietly, MutexInv, InExchange
<1>3. CASE UNCHANGED vars
  BY <1>3 DEF vars, linkVars, providerVars, nanoVars, TypeOK, LinkTypeOK, ProviderTypeOK, NanoTypeOK,
              MutexInv, InExchange
<1> QED
  BY <1>1, <1>2, <1>3 DEF Next

\* Every reachable state is well typed, whatever the port loses, keeps or delays
\* (Provider, Link and NanoSigner together).
THEOREM NanoTypeCorrect == Spec => []TypeOK
<1>1. Init => TypeOK /\ MutexInv
  BY NanoStart DEF IndInv
<1> QED
  BY <1>1, NanoTypeNext, PTL DEF Spec

-----------------------------------------------------------------------------
(* The invariant is inductive while the token answers in time.             *)

\* A start on a bus without the old port, and a reset that takes the port off it,
\* keep the token's own part of the invariant, and take no answer to its reader.
LEMMA NanoMoves ==
  ASSUME InTime, TypeOK, ServerInv, PortInv, Boot \/ Reset
  PROVE  /\ ServerInv' /\ PortInv'
         /\ \A d \in Conns : link'[d].host = link[d].host
         /\ \A d \in Conns : link[d].host => Steady(d)
<1> USE DEF Serving, Quiet
<1>0. /\ link \in [Conns -> Channels] /\ backlog = <<>> /\ Len(backlog) = 0
      /\ \A d \in Conns : link[d].dev # "queued"
  BY OverSerial DEF TypeOK, LinkTypeOK, PortInv
<1>1. CASE Boot
  <2>1. \A d \in Conns : link[d].dev = "closed"
    BY <1>1, BootFields DEF ServerInv
  <2>2. Port = {}
    BY <2>1 DEF Port
  <2>3. PICK c \in Conns : /\ link[c] = Unused
                          /\ link'[c] = [Unused EXCEPT !.dev = "serving"]
                          /\ \A d \in Conns : d # c => link'[d] = link[d]
    BY <1>1, <2>2, BootFields
  <2>4. /\ link'[c].dev = "serving" /\ link'[c].up = <<>> /\ link'[c].down = <<>>
        /\ link'[c].host = FALSE /\ link[c].host = FALSE
    BY <2>3 DEF Unused
  <2>5. /\ backend' # None /\ backend'.signing = backend'.public /\ listening' = TRUE
        /\ backlog' = <<>> /\ Len(backlog') = 0
    BY <1>0, <1>1, BootFields, NoneIsNoBackend
  <2>6. \A d \in Conns : d # c =>
          /\ link'[d].dev = "closed" /\ link'[d].up = <<>> /\ link'[d].down = <<>>
    BY <2>1, <2>3, OverSerial DEF ServerInv, PortInv
  <2>7. ServerInv'
    BY <2>4, <2>5, <2>6 DEF ServerInv
  <2>8. PortInv'
    BY <2>4, <2>5, <2>6 DEF PortInv
  <2>9. \A d \in Conns : link[d].host => link'[d] = link[d] /\ link[d].dev = "closed"
    BY <2>1, <2>3, <2>4
  <2> QED
    BY <2>3, <2>4, <2>7, <2>8, <2>9 DEF Steady
<1>2. CASE Reset
  <2>1. PICK c \in Conns :
          /\ link[c].dev = "serving" /\ link' = [link EXCEPT ![c] = link'[c]]
          /\ link'[c].up = <<>> /\ link'[c].host = link[c].host
          /\ link'[c].dev = "closed" /\ link'[c].down = <<>>
    BY <1>2, ResetFields DEF InTime
  <2>2. \A d \in Conns : d # c => link'[d] = link[d] /\ link[d].dev = "closed"
    BY <1>0, <2>1 DEF ServerInv, Channels
  <2>3. backend' = None /\ listening' = FALSE /\ backlog' = <<>> /\ Len(backlog') = 0
    BY <1>0, <1>2, ResetFields
  <2>4. \A d \in Conns : link'[d].dev = "closed"
    BY <2>1, <2>2
  <2>5. ServerInv'
    BY <1>0, <2>1, <2>2, <2>3, <2>4 DEF ServerInv
  <2>6. PortInv'
    BY <1>0, <2>1, <2>2, <2>3, <2>4 DEF PortInv
  <2> QED
    BY <2>1, <2>2, <2>4, <2>5, <2>6 DEF Steady
<1> QED
  BY <1>1, <1>2

\* Every step keeps the invariant.
LEMMA NanoPairing ==
  ASSUME InTime
  PROVE  TypeOK /\ IndInv /\ [Next]_vars => IndInv'
<1> SUFFICES ASSUME TypeOK, IndInv, [Next]_vars PROVE IndInv'
  OBVIOUS
<1>0. Typed /\ Prompt
  BY DEF TypeOK, Typed, Prompt, InTime
<1>1. CASE ProviderStep
  BY <1>0, <1>1, ProviderPairing DEF ProviderStep, nanoVars
<1>2. ASSUME NEW c \in Conns, Handle(c), Quietly PROVE IndInv'
  <2>1. TakesTurn(c) /\ UNCHANGED <<state, holder, call, panicked>>
    BY <1>2 DEF Handle, Quietly
  <2> QED
    BY <1>0, <2>1, TurnPairing, RoomForKeys
<1>3. CASE (Boot \/ Reset) /\ Quietly
  <2>1. UNCHANGED <<state, holder, call>>
    BY <1>3 DEF Quietly
  <2> QED
    BY <1>0, <1>3, <2>1, NanoMoves, SteadyPairing DEF IndInv
<1>4. CASE UNCHANGED vars
  BY <1>0, <1>4, StutterPairing DEF vars, linkVars, providerVars, nanoVars
<1> QED
  BY <1>1, <1>2, <1>3, <1>4 DEF Next, NanoStep

\* Requests and answers stay paired in every reachable state of a token that answers
\* in time (request in pkcs11-provider/src/device.rs, the loop of main in
\* nano-signer/src/bin/main.rs).
THEOREM NanoPairingHolds == InTime => (Spec => []IndInv)
<1> SUFFICES ASSUME InTime PROVE Spec => []IndInv
  OBVIOUS
<1> QED
  BY NanoStart, NanoPairing, NanoTypeCorrect, PTL DEF Spec

\* While the port is quiet, the public key that C_GetAttributeValue reports is the
\* token's (attributes.rs, lib.rs).
THEOREM NanoCacheIsCoherent == InTime => (Spec => []CacheCoherent)
<1> SUFFICES ASSUME InTime PROVE Spec => []CacheCoherent
  OBVIOUS
<1>1. IndInv => CacheCoherent
  <2> SUFFICES ASSUME IndInv, NEW p \in Procs, ~Uninitialized(p), MutexFree(p),
                      link[state[p].conn].dev = "serving"
               PROVE  state[p].pk = KeyBytes(backend.param, backend.signing)
    BY DEF CacheCoherent
  <2>1. Caches(p) /\ ~NewKeyUnderWay(p)
    BY DEF IndInv, KnowledgeInv, NewKeyUnderWay, MutexFree
  <2> QED
    BY <2>1 DEF Caches, Uninitialized, Serving, TokenKey
<1> QED
  BY <1>1, NanoPairingHolds, PTL

\* Every signature that C_Sign returns verifies under the public key the provider
\* reports (c_sign in pkcs11-provider/src/lib.rs).
THEOREM NanoSignatureVerifies == InTime => (Spec => []SignatureVerifies)
<1> SUFFICES ASSUME InTime PROVE Spec => []SignatureVerifies
  OBVIOUS
<1>1. Init => SignatureVerifies
  BY DEF Init, ProviderInit, SignatureVerifies, Signed
<1>2. TypeOK /\ IndInv /\ SignatureVerifies /\ [Next]_vars => SignatureVerifies'
  <2> SUFFICES ASSUME TypeOK, IndInv, SignatureVerifies, [Next]_vars PROVE SignatureVerifies'
    OBVIOUS
  <2>1. CASE ProviderStep
    BY <2>1, SignatureProvider DEF ProviderStep, TypeOK, Typed
  <2>2. CASE NanoStep
    BY <2>2 DEF NanoStep, Quietly, SignatureVerifies, Signed
  <2>3. CASE UNCHANGED vars
    BY <2>3 DEF vars, providerVars, SignatureVerifies, Signed
  <2> QED
    BY <2>1, <2>2, <2>3 DEF Next
<1> QED
  BY <1>1, <1>2, NanoTypeCorrect, NanoPairingHolds, PTL DEF Spec

\* C_Sign never writes past the caller's buffer, although a late answer may be one to
\* another message (c_sign, the length check in pkcs11-provider/src/lib.rs).
THEOREM NanoBufferIsNeverOverrun == Spec => []NeverOverrunsBuffer
<1>1. Init => RoomInv /\ NeverOverrunsBuffer
  BY DEF Init, ProviderInit, RoomInv, Idle, NeverOverrunsBuffer, Signed
<1>2. TypeOK /\ RoomInv /\ NeverOverrunsBuffer /\ [Next]_vars => RoomInv' /\ NeverOverrunsBuffer'
  <2> SUFFICES ASSUME TypeOK, RoomInv, NeverOverrunsBuffer, [Next]_vars
               PROVE  RoomInv' /\ NeverOverrunsBuffer'
    OBVIOUS
  <2>1. CASE ProviderStep
    BY <2>1, RoomProvider, BufferProvider DEF ProviderStep, TypeOK, Typed
  <2>2. CASE NanoStep
    BY <2>2 DEF NanoStep, Quietly, RoomInv, NeverOverrunsBuffer, Signed
  <2>3. CASE UNCHANGED vars
    BY <2>3 DEF vars, providerVars, RoomInv, NeverOverrunsBuffer, Signed
  <2> QED
    BY <2>1, <2>2, <2>3 DEF Next
<1> QED
  BY <1>1, <1>2, NanoTypeCorrect, PTL DEF Spec
=============================================================================
