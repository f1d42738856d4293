-------------------------- MODULE ProviderInvariant -------------------------
(***************************************************************************)
(* Why the provider and a token are right together: an inductive invariant *)
(* of DevSystem and, where the token answers in time, of NanoSystem.  It   *)
(* says who owns a connection, what a connection carries while its owner   *)
(* waits, and what an owner knows of the token's key.                      *)
(***************************************************************************)
EXTENDS Provider

\* The connection, the token's backend and the provider have their types.
Typed == LinkTypeOK /\ ProviderTypeOK

InExchange(t) == call[t].at \in {"sign_wait", "gen_wait"}

\* The connection of thread t, and the request whose answer it waits for.
ConnOf(t) == IF Handshaking(t) THEN call[t].conn ELSE state[ProcOf[t]].conn

Asked(t) == CASE call[t].at = "get_info"       -> GetInfoReq
              [] call[t].at = "get_public_key" -> GetPublicKeyReq
              [] call[t].at = "sign_wait"      -> SignReq(call[t].msg)
              [] call[t].at = "gen_wait"       -> GenerateReq

Quiet(ch) == ch.up = <<>> /\ ch.down = <<>>

Serving(c) == link[c].dev = "serving"
TokenKey   == KeyBytes(backend.param, backend.signing)

\* A mutex held across a step is held by a thread in an exchange, on a state.
MutexInv ==
  /\ \A t \in Threads : InExchange(t) <=> holder[ProcOf[t]] = t
  /\ \A p \in Procs : holder[p] # None =>
       holder[p] \in Threads /\ ProcOf[holder[p]] = p /\ state[p] # None

\* Each connection in use has one owner: a STATE, or a thread in C_Initialize.
OwnerInv ==
  /\ \A p \in Procs : state[p] # None => link[state[p].conn].host
  /\ \A t \in Threads : Handshaking(t) => link[call[t].conn].host
  /\ \A p, q \in Procs :
       state[p] # None /\ state[q] # None /\ state[p].conn = state[q].conn => p = q
  /\ \A t \in Threads, p \in Procs :
       Handshaking(t) /\ state[p] # None => call[t].conn # state[p].conn
  /\ \A t, u \in Threads :
       Handshaking(t) /\ Handshaking(u) /\ call[t].conn = call[u].conn => t = u

\* The token works on one connection, and the ones in the backlog wait for it.
ServerInv ==
  /\ backend # None => backend.signing = backend.public
  /\ backend = None => \A c \in Conns : link[c].dev = "closed"
  /\ \A c \in Conns : link[c].dev = "closed" => link[c].up = <<>>
  /\ \A c \in Conns : link[c].dev = "queued" => link[c].down = <<>>
  /\ \A c, d \in Conns : Serving(c) /\ Serving(d) => c = d
  /\ \A i \in 1 .. Len(backlog) : link[backlog[i]].dev = "queued"
  /\ \A i, j \in 1 .. Len(backlog) : backlog[i] = backlog[j] => i = j
  /\ listening => backend # None

\* What an answer that thread t accepts says.
Answers(t, rsp) ==
  rsp.status = "Ok" =>
    LET now == Serving(ConnOf(t)) IN
    /\ call[t].at = "get_info" =>
         rsp.body.kind = "info" /\ (now => rsp.body = InfoBytes(backend.param))
    /\ call[t].at = "get_public_key" =>
         /\ rsp.body \in PublicKeys /\ rsp.body.param = call[t].param
         /\ now => rsp.body = TokenKey
    /\ call[t].at = "sign_wait" =>
         LET pk == state[ProcOf[t]].pk IN rsp.body = SigBytes(pk.param, pk.key, call[t].msg)
    /\ call[t].at = "gen_wait" =>
         /\ rsp.body \in PublicKeys /\ rsp.body.param = state[ProcOf[t]].param
         /\ now => rsp.body = TokenKey

\* A connection carries the request of the thread that waits on it, or the answer
\* to that request, or nothing.
Waits(t) ==
  AwaitingToken(t) =>
    LET ch == link[ConnOf(t)] IN
    /\ ch.up = <<>> \/ (ch.up = <<Asked(t)>> /\ ch.down = <<>>)
    /\ ch.down = <<>> \/ \E rsp \in Responses : ch.down = <<rsp>> /\ Answers(t, rsp)

\* What a thread in C_Initialize has learnt is a public key of the parameter set
\* learnt with it, and the token's own as long as it serves us.
Learns(t) ==
  /\ call[t].at = "store" =>
       /\ Quiet(link[call[t].conn]) /\ link[call[t].conn].dev # "queued"
       /\ call[t].pk \in PublicKeys /\ call[t].pk.param = call[t].param
       /\ Serving(call[t].conn) => call[t].pk = TokenKey
  /\ call[t].at = "get_public_key" =>
       /\ call[t].param \in ParamSets
       /\ link[call[t].conn].dev # "queued"
       /\ Serving(call[t].conn) => call[t].param = backend.param

\* The new public key is on its way to process p.
NewKeyUnderWay(p) ==
  /\ holder[p] # None /\ call[holder[p]].at = "gen_wait"
  /\ link[state[p].conn].down # <<>> /\ Response(state[p].conn).status = "Ok"

\* So is what STATE has cached; and its connection is quiet while nobody waits.
Caches(p) ==
  state[p] # None =>
    /\ holder[p] = None => Quiet(link[state[p].conn])
    /\ link[state[p].conn].dev # "queued"
    /\ state[p].pk \in PublicKeys /\ state[p].pk.param = state[p].param
    /\ Serving(state[p].conn) /\ ~NewKeyUnderWay(p) => state[p].pk = TokenKey

\* Nothing is under way on the serial port while no host has it open, and nothing
\* comes out of a port that is gone.
PortInv ==
  Serial =>
    /\ backlog = <<>>
    /\ backend # None => listening
    /\ \A c \in Conns : link[c].dev # "queued"
    /\ \A c \in Conns : link[c].dev = "closed" => link[c].down = <<>>
    /\ \A c \in Conns : ~link[c].host => Quiet(link[c])

TrafficInv   == \A t \in Threads : Waits(t)
KnowledgeInv == (\A t \in Threads : Learns(t)) /\ (\A p \in Procs : Caches(p))

\* The pairing of requests with answers, and of caches with keys, that
\* SignatureVerifies, CacheCoherent and OneOutstanding rest on (request in
\* pkcs11-provider/src/device.rs, STATE in pkcs11-provider/src/lib.rs, the accept
\* loop of dev-signer/src/main.rs, the loop of nano-signer/src/bin/main.rs).
IndInv == /\ MutexInv /\ OwnerInv /\ ServerInv /\ PortInv
          /\ TrafficInv /\ KnowledgeInv /\ OneOutstanding

\* No serial read ends before the token has answered, and no process ends with a
\* request under way on the serial port.
Prompt == Serial => SlowCommands = {} /\ "exit" \notin Calls
=============================================================================
