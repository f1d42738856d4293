---------------------------- MODULE ProviderProofs ---------------------------
(***************************************************************************)
(* The provider, whatever token it talks to, whatever carries the frames,  *)
(* and for any processes, threads, connections, keys and messages.         *)
(*                                                                         *)
(* First its type correctness, its steps sorted by what they do (the       *)
(* twenty-odd actions fall into ten kinds), and what it guarantees a       *)
(* careful application by itself: the session that a C_Sign in progress    *)
(* has checked stays open and keeps its operation until the signature is   *)
(* handed out.                                                             *)
(*                                                                         *)
(* Then why the provider and a token stay right together: each part of     *)
(* IndInv is kept by the provider's steps and by a turn of the token's     *)
(* loop.  DevSystemProofs and NanoSystemProofs add the steps of their      *)
(* token.                                                                  *)
(*                                                                         *)
(* Last what C_GetAttributeValue answers to a template.                    *)
(***************************************************************************)
EXTENDS ProviderInvariant, SequenceTheorems, WellFoundedInduction, TLAPS

-----------------------------------------------------------------------------
(* What the operators of a connection and of the token return.             *)

\* The payload constructors of token-core build payloads.
LEMMA PayloadTypes ==
  ASSUME NEW p \in ParamSets, NEW k \in Keys, NEW m \in Msgs \cup BigMsgs
  PROVE  /\ InfoBytes(p) \in Payloads /\ ListBytes \in Payloads /\ NoBytes \in Payloads
         /\ KeyBytes(p, k) \in PublicKeys /\ KeyBytes(p, k) \in Payloads
         /\ SigBytes(p, k, m) \in Signatures /\ SigBytes(p, k, m) \in Payloads
  BY DEF Payloads, PublicKeys, Signatures

\* A payload of the GET_INFO kind names a parameter set.
LEMMA InfoPayload ==
  ASSUME NEW b \in Payloads, b.kind = "info"
  PROVE  b.param \in ParamSets /\ b = InfoBytes(b.param)
  BY DEF Payloads, PublicKeys, Signatures, InfoBytes, KeyBytes, SigBytes, ListBytes, NoBytes

\* An answer measured against the response buffer (dispatch) is a response, and
\* leaves the backend alone.
LEMMA FittedType ==
  ASSUME NEW b \in Payloads, NEW be \in Backends
  PROVE  /\ Fitted(b, be).rsp \in Responses /\ Fitted(b, be).be = be
         /\ Fitted(b, be).rsp.status = "Ok" => Fitted(b, be).rsp.body = b
<1>1. NoBytes \in Payloads
  BY DEF Payloads
<1> QED
  BY <1>1 DEF Fitted, Answer, Responses, Status

\* SIGN answers with a response and leaves the backend alone (dispatch).
LEMMA SignType ==
  ASSUME NEW be \in Backends, NEW m \in Msgs \cup BigMsgs
  PROVE  sign(be, m).rsp \in Responses /\ sign(be, m).be = be
<1> DEFINE sig == SigBytes(be.param, be.signing, m)
<1>1. sig \in Payloads /\ NoBytes \in Payloads
  BY PayloadTypes DEF Backends, Payloads
<1>2. sign(be, m) = IF ByteLen(sig) <= ResponseBufLen
                    THEN Answer("Ok", sig, be) ELSE Answer("SigningFailed", NoBytes, be)
  BY DEF sign
<1> HIDE DEF sig
<1> QED
  BY <1>1, <1>2 DEF Answer, Responses, Status

\* GENERATE_KEYPAIR answers with a response and leaves a backend of the same
\* parameter set (dispatch).
LEMMA GenerateType ==
  ASSUME NEW be \in Backends, NEW o \in generate_keypair(be)
  PROVE  o.rsp \in Responses /\ o.be \in Backends /\ o.be.param = be.param
<1>1. CASE o = Answer("NotImplemented", NoBytes, be)
  <2>1. NoBytes \in Payloads
    BY DEF Payloads
  <2> QED
    BY <1>1, <2>1 DEF Answer, Responses, Status
<1>2. ASSUME NEW k \in Keys,
             o = Fitted(KeyBytes(be.param, k), [be EXCEPT !.signing = k, !.public = k])
      PROVE  o.rsp \in Responses /\ o.be \in Backends /\ o.be.param = be.param
  <2> DEFINE new == [be EXCEPT !.signing = k, !.public = k]
  <2>1. new \in Backends /\ new.param = be.param
    BY DEF Backends
  <2>2. KeyBytes(be.param, k) \in Payloads
    BY DEF Payloads, PublicKeys, Backends
  <2> HIDE DEF new
  <2> QED
    BY <1>2, <2>1, <2>2, FittedType DEF new
<1> QED
  BY <1>1, <1>2 DEF generate_keypair

\* Whatever is requested, dispatch answers with a response and leaves a backend of
\* the same parameter set.
LEMMA DispatchType ==
  ASSUME NEW req \in Requests, NEW be \in Backends, NEW o \in dispatch(req, be)
  PROVE  o.rsp \in Responses /\ o.be \in Backends /\ o.be.param = be.param
<1>0. be.param \in ParamSets /\ be.signing \in Keys /\ be.public \in Keys
  BY DEF Backends
<1>1. /\ InfoBytes(be.param) \in Payloads /\ ListBytes \in Payloads /\ NoBytes \in Payloads
      /\ KeyBytes(be.param, be.public) \in Payloads
  BY <1>0 DEF Payloads, PublicKeys
<1>2. ASSUME NEW status \in Status
      PROVE  /\ Answer(status, NoBytes, be).rsp \in Responses
             /\ Answer(status, NoBytes, be).be = be
  BY <1>1 DEF Answer, Responses
<1>3. CASE req.cmd = "GetInfo"
  BY <1>1, <1>3, FittedType DEF dispatch
<1>4. CASE req.cmd = "ListObjects"
  BY <1>1, <1>4, FittedType DEF dispatch
<1>5. CASE req.cmd = "GetPublicKey"
  <2>1. o = WithHandle(req, Fitted(KeyBytes(be.param, be.public), be), be)
    BY <1>5 DEF dispatch
  <2> QED
    BY <1>1, <1>2, <2>1, FittedType DEF WithHandle, Status
<1>6. CASE req.cmd = "Sign"
  <2>1. req.msg \in Msgs \cup BigMsgs
    BY <1>6 DEF Requests
  <2>2. o = WithHandle(req, sign(be, req.msg), be)
    BY <1>6 DEF dispatch
  <2> QED
    BY <1>2, <2>1, <2>2, SignType DEF WithHandle, Status
<1>7. CASE req.cmd = "GenerateKeypair"
  BY <1>7, GenerateType DEF dispatch
<1>8. CASE req.cmd \in {"DeleteObject", "Unknown"}
  BY <1>2, <1>8 DEF dispatch, Status
<1> QED
  BY <1>3, <1>4, <1>5, <1>6, <1>7, <1>8 DEF Requests, Command

\* The four requests of device.rs are requests.
LEMMA RequestTypes ==
  /\ GetInfoReq \in Requests /\ GetPublicKeyReq \in Requests /\ GenerateReq \in Requests
  /\ \A m \in AllMsgs : SignReq(m) \in Requests
  BY DEF GetInfoReq, GetPublicKeyReq, GenerateReq, SignReq, AllMsgs, Request, Requests,
         Handles, FIXED_OBJECT_HANDLE, Command

\* Every operation of either end of a connection leaves a connection.
LEMMA ChannelTypes ==
  ASSUME NEW ch \in Channels
  PROVE  /\ Unused \in Channels /\ Dialled \in Channels
         /\ Opened(ch) \subseteq Channels /\ HostCloses(ch) \in Channels
         /\ \A req \in Requests : HostSends(ch, req) \in Channels
         /\ \A req \in Requests : HostSends(Dialled, req) \in Channels
         /\ ch.down # <<>> => HostReads(ch) \in Channels /\ Head(ch.down) \in Responses
         /\ ch.up # <<>> => TokenReads(ch) \in Channels /\ Head(ch.up) \in Requests
         /\ \A rsp \in Responses : TokenWrites(ch, rsp) \in Channels
         /\ \A keep \in BOOLEAN : TokenDies(ch, keep) \in Channels
         /\ [ch EXCEPT !.dev = "serving"] \in Channels
         /\ [ch EXCEPT !.dev = "closed"] \in Channels
<1>1. Unused \in Channels /\ Dialled \in Channels
  BY DEF Channels, Unused, Dialled
<1>2. ASSUME NEW c2 \in Channels, NEW req \in Requests PROVE HostSends(c2, req) \in Channels
  <2>1. Append(c2.up, req) \in Seq(Requests)
    BY DEF Channels
  <2> QED
    BY <2>1 DEF HostSends, Channels
<1>0. <<>> \in Seq(Requests) /\ <<>> \in Seq(Responses)
  OBVIOUS
<1>9. Opened(ch) \subseteq Channels
  <2>1. /\ [ch EXCEPT !.host = TRUE, !.down = <<>>] \in Channels
        /\ [ch EXCEPT !.host = TRUE] \in Channels
    BY <1>0 DEF Channels
  <2> QED
    BY <2>1 DEF Opened
<1>3. HostCloses(ch) \in Channels
  <2>1. /\ [ch EXCEPT !.host = FALSE, !.down = <<>>] \in Channels
        /\ [ch EXCEPT !.host = FALSE] \in Channels
    BY <1>0 DEF Channels
  <2> QED
    BY <2>1 DEF HostCloses
<1>4. ch.down # <<>> => HostReads(ch) \in Channels /\ Head(ch.down) \in Responses
  <2> SUFFICES ASSUME ch.down # <<>> PROVE HostReads(ch) \in Channels /\ Head(ch.down) \in Responses
    OBVIOUS
  <2>1. ch.down \in Seq(Responses)
    BY DEF Channels
  <2>2. Head(ch.down) \in Responses /\ Tail(ch.down) \in Seq(Responses)
    BY <2>1
  <2> QED
    BY <2>2 DEF HostReads, Channels
<1>5. ch.up # <<>> => TokenReads(ch) \in Channels /\ Head(ch.up) \in Requests
  BY SMTT(60) DEF TokenReads, Channels
<1>6. ASSUME NEW rsp \in Responses PROVE TokenWrites(ch, rsp) \in Channels
  <2>1. Append(ch.down, rsp) \in Seq(Responses)
    BY DEF Channels
  <2> QED
    BY <2>1 DEF TokenWrites, Channels
<1>7. \A keep \in BOOLEAN : TokenDies(ch, keep) \in Channels
  <2>1. /\ [ch EXCEPT !.dev = "closed", !.up = <<>>, !.down = <<>>] \in Channels
        /\ [ch EXCEPT !.dev = "closed", !.up = <<>>, !.down = ch.down] \in Channels
    BY <1>0 DEF Channels
  <2> QED
    BY <2>1 DEF TokenDies
<1>8. [ch EXCEPT !.dev = "serving"] \in Channels /\ [ch EXCEPT !.dev = "closed"] \in Channels
  BY DEF Channels
<1> QED
  BY <1>1, <1>2, <1>3, <1>4, <1>5, <1>6, <1>7, <1>8, <1>9

-----------------------------------------------------------------------------
(* The steps.                                                              *)

\* Changing one session of a STATE leaves a STATE (sessions.get_mut).
LEMMA SetSessionType ==
  ASSUME Typed, NEW p \in Procs, NEW s \in Sessions, ~Uninitialized(p),
         NEW new \in SessionState \cup {None}, SetSession(p, s, new)
  PROVE  state' \in [Procs -> ProviderState \cup {None}]
<1>1. state[p] \in ProviderState
  BY DEF Typed, ProviderTypeOK, Uninitialized
<1>2. [state[p] EXCEPT !.sessions[s] = new] \in ProviderState
  BY <1>1 DEF ProviderState
<1> QED
  BY <1>2 DEF SetSession, Typed, ProviderTypeOK

\* Changing one connection leaves the connections typed.
LEMMA UpdateType ==
  ASSUME LinkTypeOK, NEW c \in Conns, NEW ch \in Channels, link' = [link EXCEPT ![c] = ch]
  PROVE  link' \in [Conns -> Channels]
  BY DEF LinkTypeOK

\* Dropping a ProviderState leaves the connections typed (c_finalize).
LEMMA DropStateType ==
  ASSUME Typed, NEW p \in Procs, DropState(p)
  PROVE  link' \in [Conns -> Channels]
<1>1. CASE Uninitialized(p)
  BY <1>1 DEF DropState, Typed, LinkTypeOK
<1>2. CASE ~Uninitialized(p)
  <2>1. state[p].conn \in Conns
    BY <1>2 DEF Uninitialized, Typed, ProviderTypeOK, ProviderState
  <2>2. link[state[p].conn] \in Channels /\ LinkTypeOK
    BY <2>1 DEF Typed, LinkTypeOK
  <2>3. HostCloses(link[state[p].conn]) \in Channels
    BY <2>2, ChannelTypes
  <2> QED
    BY <1>2, <2>1, <2>2, <2>3, UpdateType DEF DropState
<1> QED
  BY <1>1, <1>2

\* The end of a process leaves everything typed.
LEMMA EndsType ==
  ASSUME Typed, NEW p \in Procs, NEW last \in [Conns -> Channels], Ends(p, last)
  PROVE  /\ link' \in [Conns -> Channels]
         /\ state' \in [Procs -> ProviderState \cup {None}]
         /\ holder' \in [Procs -> Threads \cup {None}]
         /\ call' \in [Threads -> Places]
<1>1. \A c \in Conns : last[c] \in Channels /\ HostCloses(last[c]) \in Channels
  BY ChannelTypes
<1>2. link' \in [Conns -> Channels]
  BY <1>1 DEF Ends
<1>3. Idle \in Places
  BY DEF Places
<1> QED
  BY <1>2, <1>3 DEF Ends, Typed, LinkTypeOK, ProviderTypeOK

\* What a place that is not idle says, and what it takes to get there.
LEMMA PlaceFields ==
  ASSUME NEW x \in Places
  PROVE  /\ x.at \in {"get_info", "get_public_key", "store"} => x.conn \in Conns
         /\ x.at = "get_public_key" => x.param \in ParamSets \cup {Garbled}
         /\ x.at = "store" => x.param \in ParamSets /\ x.pk \in Payloads
         /\ x.at \in {"sign", "sign_wait"} => /\ x.s \in Sessions /\ x.msg \in AllMsgs
                                             /\ x.room \in Nat /\ x.exp \in Nat
                                             /\ [x EXCEPT !.at = "sign_wait"] \in Places
         /\ x.at = "gen_wait" => x.s \in Sessions
         /\ x.at \in {"idle", "get_info", "get_public_key", "store", "sign", "sign_wait",
                      "gen_wait"}
         /\ x.at = "idle" => x = Idle
  BY DEF Places, Idle

\* What a STATE that is not None holds.
LEMMA StateFields ==
  ASSUME Typed, NEW p \in Procs, ~Uninitialized(p)
  PROVE  /\ state[p] \in ProviderState
         /\ state[p].conn \in Conns /\ link[state[p].conn] \in Channels
         /\ state[p].param \in ParamSets /\ state[p].pk \in Payloads
         /\ \A s \in Sessions : state[p].sessions[s] \in SessionState \cup {None}
  BY DEF Typed, ProviderTypeOK, LinkTypeOK, ProviderState, Uninitialized

-----------------------------------------------------------------------------
(* Each group of actions keeps the types.                                  *)

Shape == link' \in [Conns -> Channels] /\ ProviderTypeOK'

\* c_initialize keeps the types until it stores its state.
LEMMA ConnectType ==
  ASSUME Typed, NEW t \in Threads,
         Initialize(t) \/ ConnectRefused(t) \/ InfoReply(t) \/ PublicKeyReply(t) \/ HandshakeFails(t)
  PROVE  Shape
<1> USE DEF Typed, LinkTypeOK, ProviderTypeOK, Shape
<1>0. call[t] \in Places
  OBVIOUS
<1>1. CASE Initialize(t)
  <2>1. PICK c \in Conns : \E ch \in Opened(link[c]) \cup {Dialled} :
          /\ link' = [link EXCEPT ![c] = HostSends(ch, GetInfoReq)]
          /\ Goes(t, [at |-> "get_info", conn |-> c])
    BY <1>1 DEF Initialize
  <2>0. PICK ch \in Opened(link[c]) \cup {Dialled} :
          /\ link' = [link EXCEPT ![c] = HostSends(ch, GetInfoReq)]
          /\ Goes(t, [at |-> "get_info", conn |-> c])
    BY <2>1
  <2>2. HostSends(ch, GetInfoReq) \in Channels
    <3>1. ch \in Channels
      BY ChannelTypes DEF Opened
    <3> QED
      BY <3>1, RequestTypes, ChannelTypes
  <2>3. [at |-> "get_info", conn |-> c] \in Places
    BY DEF Places
  <2> QED
    BY <1>1, <2>0, <2>1, <2>2, <2>3, UpdateType DEF Goes, Initialize
<1>2. CASE ConnectRefused(t)
  BY <1>2 DEF ConnectRefused, linkVars
<1>3. CASE InfoReply(t)
  <2> DEFINE c == call[t].conn
             rsp == Response(c)
             q == IF rsp.body.kind = "info" THEN rsp.body.param ELSE Garbled
  <2>1. c \in Conns /\ link[c] \in Channels /\ link[c].down # <<>>
    BY <1>0, <1>3, PlaceFields DEF InfoReply, Arrived
  <2>2. rsp \in Responses
    BY <2>1, ChannelTypes DEF Response
  <2>3. q \in ParamSets \cup {Garbled}
    BY <2>2, InfoPayload DEF Responses
  <2>4. HostSends(HostReads(link[c]), GetPublicKeyReq) \in Channels
    BY <2>1, ChannelTypes, RequestTypes
  <2>5. link' = [link EXCEPT ![c] = HostSends(HostReads(link[c]), GetPublicKeyReq)]
    BY <1>3 DEF InfoReply
  <2>6. call' = [call EXCEPT ![t] = [at |-> "get_public_key", conn |-> c, param |-> q]]
    BY <1>3 DEF InfoReply, Goes
  <2>7. [at |-> "get_public_key", conn |-> c, param |-> q] \in Places
    BY <2>1, <2>3 DEF Places
  <2> HIDE DEF c, rsp, q
  <2> QED
    BY <1>3, <2>1, <2>4, <2>5, <2>6, <2>7, UpdateType DEF InfoReply
<1>4. CASE PublicKeyReply(t)
  <2> DEFINE c == call[t].conn
             place == [at |-> "store", conn |-> c, param |-> call[t].param,
                       pk |-> Response(c).body]
  <2>1. c \in Conns /\ link[c] \in Channels /\ link[c].down # <<>> /\ call[t].param \in ParamSets
    BY <1>0, <1>4, PlaceFields DEF PublicKeyReply, Arrived
  <2>2. Response(c) \in Responses /\ HostReads(link[c]) \in Channels
    BY <2>1, ChannelTypes DEF Response
  <2>3. place \in Places
    BY <2>1, <2>2 DEF Places, Responses
  <2>4. link' = [link EXCEPT ![c] = HostReads(link[c])] /\ call' = [call EXCEPT ![t] = place]
    BY <1>4 DEF PublicKeyReply, TakeFrom, Goes
  <2> HIDE DEF c, place
  <2> QED
    BY <1>4, <2>1, <2>2, <2>3, <2>4, UpdateType DEF PublicKeyReply
<1>5. CASE HandshakeFails(t)
  <2> DEFINE c == call[t].conn
             ch == HostCloses(IF Arrived(c) THEN HostReads(link[c]) ELSE link[c])
  <2>1. c \in Conns /\ link[c] \in Channels
    BY <1>0, <1>5, PlaceFields DEF HandshakeFails
  <2>2. ch \in Channels
    BY <2>1, ChannelTypes DEF Arrived
  <2>3. link' = [link EXCEPT ![c] = ch] /\ call' = [call EXCEPT ![t] = Idle]
    BY <1>5 DEF HandshakeFails, Goes
  <2>4. Idle \in Places
    BY DEF Places
  <2> HIDE DEF c, ch
  <2> QED
    BY <1>5, <2>1, <2>2, <2>3, <2>4, UpdateType DEF HandshakeFails
<1> QED
  BY <1>1, <1>2, <1>3, <1>4, <1>5

\* The store of c_initialize, and c_finalize, keep the types.
LEMMA StoreType ==
  ASSUME Typed, NEW t \in Threads, Store(t) \/ Finalize(t)
  PROVE  Shape
<1> USE DEF Typed, ProviderTypeOK, Shape
<1>0. ProcOf[t] \in Procs /\ call[t] \in Places /\ Idle \in Places
  BY ProviderAssumption DEF Places
<1>1. DropState(ProcOf[t])
  BY DEF Store, Finalize
<1>2. link' \in [Conns -> Channels]
  BY <1>0, <1>1, DropStateType
<1>3. CASE Store(t)
  <2> DEFINE new == NewState(call[t].conn, call[t].param, call[t].pk)
  <2>1. call[t].conn \in Conns /\ call[t].param \in ParamSets /\ call[t].pk \in Payloads
    BY <1>0, <1>3, PlaceFields DEF Store
  <2>2. 1 \in 1 .. MaxSessions + 1
    BY ProviderAssumption
  <2>3. new \in ProviderState
    BY <2>1, <2>2 DEF NewState, ProviderState
  <2>4. state' = [state EXCEPT ![ProcOf[t]] = new] /\ call' = [call EXCEPT ![t] = Idle]
    BY <1>3 DEF Store, Goes
  <2> HIDE DEF new
  <2> QED
    BY <1>0, <1>2, <1>3, <2>3, <2>4 DEF Store
<1>4. CASE Finalize(t)
  BY <1>0, <1>2, <1>4 DEF Finalize
<1> QED
  BY <1>3, <1>4

\* The C_ functions without a session argument that return at once keep the types.
LEMMA LookType ==
  ASSUME Typed, NEW t \in Threads,
         \/ OpenSession(t) \/ GetTokenInfo(t)
         \/ \E object \in ObjectHandles, template \in Templates :
                  GetAttributeValue(t, object, template)
  PROVE  Shape
<1> DEFINE p == ProcOf[t]
<1>0. p \in Procs /\ link \in [Conns -> Channels] /\ ProviderTypeOK
  BY ProviderAssumption DEF Typed, LinkTypeOK
<1>1. UNCHANGED <<link, holder, call, panicked>>
  BY DEF OpenSession, GetTokenInfo, GetAttributeValue, Untouched, linkVars
<1>2. SUFFICES state' \in [Procs -> ProviderState \cup {None}]
  BY <1>0, <1>1 DEF Shape, ProviderTypeOK
<1>3. CASE UNCHANGED state
  BY <1>0, <1>3 DEF ProviderTypeOK
<1>4. CASE OpenSession(t) /\ ~Uninitialized(p)
  <2> DEFINE new == [state[p] EXCEPT !.sessions[state[p].next] = NewSession,
                                     !.next = state[p].next + 1]
  <2>1. state[p] \in ProviderState /\ state[p].next <= MaxSessions
    BY <1>0, <1>4, StateFields DEF OpenSession
  <2>2. NewSession \in SessionState
    BY DEF NewSession, SessionState
  <2>3. state[p].next \in Sessions /\ state[p].next + 1 \in 1 .. MaxSessions + 1
    BY <2>1, ProviderAssumption DEF ProviderState, Sessions
  <2>4. new \in ProviderState
    BY <2>1, <2>2, <2>3 DEF ProviderState
  <2>5. state' = [state EXCEPT ![p] = new]
    BY <1>4 DEF OpenSession
  <2> HIDE DEF new
  <2> QED
    BY <1>0, <2>4, <2>5 DEF ProviderTypeOK
<1> QED
  BY <1>3, <1>4 DEF OpenSession, GetTokenInfo, GetAttributeValue

\* c_close_session, c_login and c_sign_init keep the types.
LEMMA SessionType ==
  ASSUME Typed, NEW t \in Threads, NEW s \in Sessions,
         CloseSession(t, s) \/ Login(t, s) \/ SignInit(t, s)
  PROVE  Shape
<1> DEFINE p == ProcOf[t]
<1>0. p \in Procs /\ link \in [Conns -> Channels] /\ ProviderTypeOK
  BY ProviderAssumption DEF Typed, LinkTypeOK
<1>1. UNCHANGED <<link, holder, call, panicked>>
  BY DEF CloseSession, Login, SignInit, Untouched, linkVars
<1>2. SUFFICES state' \in [Procs -> ProviderState \cup {None}]
  BY <1>0, <1>1 DEF Shape, ProviderTypeOK
<1>3. CASE UNCHANGED state
  BY <1>0, <1>3 DEF ProviderTypeOK
<1>4. CASE HasSession(p, s) /\ (CloseSession(t, s) \/ SignInit(t, s))
  <2>1. state[p].sessions[s] \in SessionState /\ ~Uninitialized(p)
    BY <1>0, <1>4, StateFields DEF HasSession, Uninitialized
  <2>2. [state[p].sessions[s] EXCEPT !.sign_active = TRUE] \in SessionState
    BY <2>1 DEF SessionState
  <2>3. UNCHANGED state \/ \E new \in SessionState \cup {None} : SetSession(p, s, new)
    BY <1>4, <2>2 DEF CloseSession, SignInit
  <2> QED
    BY <1>0, <1>3, <2>1, <2>3, SetSessionType
<1> QED
  BY <1>3, <1>4 DEF CloseSession, Login, SignInit, SessionRv

\* A search finds a sequence of object handles (c_find_objects_init).
LEMMA MatchingType ==
  ASSUME NEW class \in Classes
  PROVE  Matching(class) \in Seq(ObjectHandles)
<1>1. /\ <<>> \in Seq(ObjectHandles)
      /\ <<PRIVATE_KEY_HANDLE>> \in Seq(ObjectHandles)
      /\ <<PUBLIC_KEY_HANDLE>> \in Seq(ObjectHandles)
      /\ <<PRIVATE_KEY_HANDLE, PUBLIC_KEY_HANDLE>> \in Seq(ObjectHandles)
  BY DEF ObjectHandles
<1> QED
  BY <1>1 DEF Matching

\* What C_FindObjects leaves of the handles it has found.
LEMMA RestType ==
  ASSUME NEW pending \in Seq(ObjectHandles), NEW room \in 0 .. 3
  PROVE  LET n == IF room < Len(pending) THEN room ELSE Len(pending)
         IN SubSeq(pending, n + 1, Len(pending)) \in Seq(ObjectHandles)
<1> DEFINE n == IF room < Len(pending) THEN room ELSE Len(pending)
<1>1. Len(pending) \in Nat
  OBVIOUS
<1>2. n \in Nat
  BY <1>1
<1> HIDE DEF n
<1>3. \A i \in n + 1 .. Len(pending) : pending[i] \in ObjectHandles
  BY <1>1, <1>2
<1>4. SubSeq(pending, n + 1, Len(pending)) \in Seq(ObjectHandles)
  BY <1>1, <1>2, <1>3, SubSeqProperties
<1> QED
  BY <1>4 DEF n

\* The three search functions keep the types.
LEMMA FindType ==
  ASSUME Typed, NEW t \in Threads, NEW s \in Sessions,
         \/ \E class \in Classes : FindObjectsInit(t, s, class)
         \/ \E room \in 0 .. 3 : FindObjects(t, s, room)
         \/ FindObjectsFinal(t, s)
  PROVE  Shape
<1> DEFINE p == ProcOf[t]
<1>0. p \in Procs /\ link \in [Conns -> Channels] /\ ProviderTypeOK
  BY ProviderAssumption DEF Typed, LinkTypeOK
<1>1. UNCHANGED <<link, holder, call, panicked>>
  BY DEF FindObjectsInit, FindObjects, FindObjectsFinal, Untouched, linkVars
<1>2. SUFFICES state' \in [Procs -> ProviderState \cup {None}]
  BY <1>0, <1>1 DEF Shape, ProviderTypeOK
<1>3. CASE UNCHANGED state
  BY <1>0, <1>3 DEF ProviderTypeOK
<1>4. CASE HasSession(p, s) /\ \E new \in Seq(ObjectHandles) \cup {None} :
             SetSession(p, s, [state[p].sessions[s] EXCEPT !.pending_find = new])
  <2>1. state[p].sessions[s] \in SessionState /\ ~Uninitialized(p)
    BY <1>0, <1>4, StateFields DEF HasSession, Uninitialized
  <2>2. PICK new \in Seq(ObjectHandles) \cup {None} :
          SetSession(p, s, [state[p].sessions[s] EXCEPT !.pending_find = new])
    BY <1>4
  <2>3. [state[p].sessions[s] EXCEPT !.pending_find = new] \in SessionState
    BY <2>1 DEF SessionState
  <2> QED
    BY <1>0, <2>1, <2>2, <2>3, SetSessionType
<1>5. ASSUME NEW class \in Classes, FindObjectsInit(t, s, class), state' # state
      PROVE  state' \in [Procs -> ProviderState \cup {None}]
  <2>1. Matching(class) \in Seq(ObjectHandles)
    BY MatchingType
  <2> QED
    BY <1>4, <1>5, <2>1 DEF FindObjectsInit, SessionRv
<1>6. ASSUME NEW room \in 0 .. 3, FindObjects(t, s, room), state' # state
      PROVE  state' \in [Procs -> ProviderState \cup {None}]
  <2> DEFINE pending == state[p].sessions[s].pending_find
             n == IF room < Len(pending) THEN room ELSE Len(pending)
  <2>1. HasSession(p, s) /\ pending # None
    BY <1>6 DEF FindObjects, SessionRv
  <2>2. pending \in Seq(ObjectHandles)
    BY <1>0, <2>1, StateFields DEF HasSession, Uninitialized, SessionState
  <2>3. SubSeq(pending, n + 1, Len(pending)) \in Seq(ObjectHandles)
    BY <2>2, RestType
  <2> QED
    BY <1>4, <1>6, <2>1, <2>3 DEF FindObjects
<1>7. CASE FindObjectsFinal(t, s) /\ state' # state
  BY <1>4, <1>7 DEF FindObjectsFinal, SessionRv
<1> QED
  BY <1>3, <1>5, <1>6, <1>7

\* A thread in an exchange works on the STATE whose mutex it holds.
LEMMA ExchangeFields ==
  ASSUME Typed, MutexInv, NEW t \in Threads, InExchange(t)
  PROVE  LET p == ProcOf[t]
             c == state[p].conn
         IN /\ p \in Procs /\ ~Uninitialized(p) /\ holder[p] = t
            /\ c \in Conns /\ link[c] \in Channels
            /\ Arrived(c) => HostReads(link[c]) \in Channels /\ Response(c) \in Responses
<1>1. ProcOf[t] \in Procs
  BY ProviderAssumption
<1>2. ~Uninitialized(ProcOf[t]) /\ holder[ProcOf[t]] = t
  BY <1>1, ProviderAssumption DEF MutexInv, Uninitialized
<1> QED
  BY <1>1, <1>2, StateFields, ChannelTypes DEF Arrived, Response

\* c_sign keeps the types, in all its parts.
LEMMA SignGroupType ==
  ASSUME Typed, MutexInv, NEW t \in Threads,
         \/ \E s \in Sessions, m \in AllMsgs, room \in Rooms : Sign(t, s, m, room)
         \/ SignDispatch(t) \/ SignReply(t) \/ SignPanics(t) \/ SignFails(t)
  PROVE  Shape
<1> USE DEF Typed, LinkTypeOK, ProviderTypeOK, Shape
<1> DEFINE p == ProcOf[t]
           c == state[p].conn
<1>0. p \in Procs /\ call[t] \in Places /\ Idle \in Places
  BY ProviderAssumption DEF Places
<1>1. ASSUME NEW s \in Sessions, NEW m \in AllMsgs, NEW room \in Rooms, Sign(t, s, m, room)
      PROVE  Shape
  <2>1. CASE UNCHANGED call
    BY <1>1, <2>1 DEF Sign, linkVars
  <2>2. CASE call' # call
    <3> DEFINE place == [at |-> "sign", s |-> s, msg |-> m, room |-> room,
                         exp |-> signature_len_for[state[p].param]]
    <3>1. room # None /\ ~Uninitialized(p) /\ call' = [call EXCEPT ![t] = place]
      <4>1. SessionRv(p, s) = "OK" /\ room # None /\ Goes(t, place)
        BY <1>1, <2>2 DEF Sign
      <4>2. ~Uninitialized(p)
        BY <4>1 DEF SessionRv, HasSession, Uninitialized
      <4>3. call' = [call EXCEPT ![t] = place]
        BY <4>1 DEF Goes
      <4> QED
        BY <4>1, <4>2, <4>3
    <3>2. signature_len_for[state[p].param] \in Nat /\ room \in Nat
      BY <1>0, <3>1, StateFields, ProviderAssumption DEF signature_len_for, ParamSets
    <3>3. place \in Places
      BY <3>2 DEF Places
    <3> HIDE DEF place
    <3> QED
      BY <1>1, <3>1, <3>3 DEF Sign, linkVars
  <2> QED
    BY <2>1, <2>2
<1>2. CASE SignDispatch(t)
  <2>1. CASE UNCHANGED <<link, holder>> /\ Goes(t, Idle)
    BY <1>0, <1>2, <2>1 DEF SignDispatch, Goes
  <2>2. CASE ~Uninitialized(p) /\ SendOn(c, SignReq(call[t].msg)) /\ Acquire(t)
             /\ Goes(t, [call[t] EXCEPT !.at = "sign_wait"])
    <3> DEFINE ch == HostSends(link[c], SignReq(call[t].msg))
               place == [call[t] EXCEPT !.at = "sign_wait"]
    <3>1. c \in Conns /\ link[c] \in Channels
      BY <1>0, <2>2, StateFields
    <3>2. call[t].msg \in AllMsgs /\ place \in Places
      BY <1>0, <1>2, PlaceFields DEF SignDispatch
    <3>3. ch \in Channels
      BY <3>1, <3>2, ChannelTypes, RequestTypes
    <3>4. link' = [link EXCEPT ![c] = ch] /\ call' = [call EXCEPT ![t] = place]
      BY <2>2 DEF SendOn, Goes
    <3> HIDE DEF ch, place
    <3> QED
      BY <1>0, <1>2, <2>2, <3>1, <3>2, <3>3, <3>4, UpdateType DEF SignDispatch, Acquire
  <2> QED
    BY <1>2, <2>1, <2>2 DEF SignDispatch
<1>3. ASSUME call[t].at = "sign_wait"
      PROVE  /\ ~Uninitialized(p) /\ c \in Conns /\ link[c] \in Channels
             /\ Arrived(c) => [link EXCEPT ![c] = HostReads(@)] \in [Conns -> Channels]
  BY <1>0, <1>3, ExchangeFields DEF InExchange
<1>4. CASE SignReply(t)
  <2> DEFINE s == call[t].s
             new == [state[p].sessions[s] EXCEPT !.sign_active = FALSE]
  <2>1. s \in Sessions /\ HasSession(p, s) /\ ~Uninitialized(p)
    BY <1>0, <1>3, <1>4, PlaceFields DEF SignReply
  <2>2. new \in SessionState
    BY <1>0, <2>1, StateFields, ZenonT(30) DEF HasSession, SessionState
  <2>3. state' \in [Procs -> ProviderState \cup {None}]
    BY <1>0, <1>4, <2>1, <2>2, SetSessionType DEF SignReply
  <2>4. link' \in [Conns -> Channels]
    BY <1>3, <1>4 DEF SignReply, TakeFrom
  <2> QED
    BY <1>0, <1>4, <2>3, <2>4 DEF SignReply, Goes, Release
<1>5. CASE SignPanics(t)
  <2> DEFINE last == [link EXCEPT ![c] = HostReads(@)]
  <2>1. last \in [Conns -> Channels]
    BY <1>3, <1>5 DEF SignPanics
  <2>2. Ends(p, last) /\ panicked' = panicked \cup {p}
    BY <1>5 DEF SignPanics
  <2> HIDE DEF last
  <2> QED
    BY <1>0, <2>1, <2>2, EndsType
<1>6. CASE SignFails(t)
  <2>1. link' \in [Conns -> Channels]
    BY <1>3, <1>6 DEF SignFails, TakeFrom
  <2> QED
    BY <1>0, <1>6, <2>1 DEF SignFails, Goes, Release
<1> QED
  BY <1>1, <1>2, <1>4, <1>5, <1>6

\* c_generate_key_pair keeps the types, in all its parts.
LEMMA GenerateGroupType ==
  ASSUME Typed, MutexInv, NEW t \in Threads,
         \/ \E s \in Sessions : GenerateKeyPair(t, s)
         \/ GenerateReply(t) \/ GenerateFails(t)
  PROVE  Shape
<1> USE DEF Typed, LinkTypeOK, ProviderTypeOK, Shape
<1> DEFINE p == ProcOf[t]
           c == state[p].conn
<1>0. p \in Procs /\ call[t] \in Places /\ Idle \in Places
  BY ProviderAssumption DEF Places
<1>1. ASSUME NEW s \in Sessions, GenerateKeyPair(t, s) PROVE Shape
  <2>1. CASE UNCHANGED <<link, holder, call>>
    BY <1>1, <2>1 DEF GenerateKeyPair
  <2>2. CASE HasSession(p, s) /\ SendOn(c, GenerateReq) /\ Acquire(t)
             /\ Goes(t, [at |-> "gen_wait", s |-> s])
    <3>1. c \in Conns /\ link[c] \in Channels
      BY <1>0, <2>2, StateFields DEF HasSession, Uninitialized
    <3>2. HostSends(link[c], GenerateReq) \in Channels
      BY <3>1, ChannelTypes, RequestTypes
    <3>3. [at |-> "gen_wait", s |-> s] \in Places
      BY DEF Places
    <3> QED
      BY <1>0, <1>1, <2>2, <3>1, <3>2, <3>3, UpdateType
         DEF GenerateKeyPair, SendOn, Acquire, Goes
  <2> QED
    BY <1>1, <2>1, <2>2 DEF GenerateKeyPair, SessionRv
<1>2. ASSUME call[t].at = "gen_wait"
      PROVE  /\ ~Uninitialized(p) /\ c \in Conns /\ link[c] \in Channels
             /\ Arrived(c) => [link EXCEPT ![c] = HostReads(@)] \in [Conns -> Channels]
             /\ Arrived(c) => Response(c) \in Responses
  BY <1>0, <1>2, ExchangeFields DEF InExchange
<1>3. CASE GenerateReply(t)
  <2> DEFINE new == [state[p] EXCEPT !.pk = Response(c).body]
  <2>1. state[p] \in ProviderState /\ Response(c).body \in Payloads
    BY <1>0, <1>2, <1>3, StateFields DEF GenerateReply, Responses
  <2>2. new \in ProviderState
    BY <2>1 DEF ProviderState
  <2>3. state' = [state EXCEPT ![p] = new]
    BY <1>3 DEF GenerateReply
  <2>4. link' \in [Conns -> Channels]
    BY <1>2, <1>3 DEF GenerateReply, TakeFrom
  <2> HIDE DEF new
  <2> QED
    BY <1>0, <1>3, <2>2, <2>3, <2>4 DEF GenerateReply, Goes, Release
<1>4. CASE GenerateFails(t)
  <2>1. link' \in [Conns -> Channels]
    BY <1>2, <1>4 DEF GenerateFails, TakeFrom
  <2> QED
    BY <1>0, <1>4, <2>1 DEF GenerateFails, Goes, Release
<1> QED
  BY <1>1, <1>3, <1>4

\* The exit of a process keeps the types.
LEMMA ExitType ==
  ASSUME Typed, NEW p \in Procs, Exit(p)
  PROVE  Shape
<1>1. Ends(p, link) /\ UNCHANGED panicked /\ link \in [Conns -> Channels]
  BY DEF Exit, Typed, LinkTypeOK
<1> QED
  BY <1>1, EndsType DEF Shape, Typed, LinkTypeOK, ProviderTypeOK

\* Every step of the provider keeps the types.
LEMMA ProviderType == Typed /\ MutexInv /\ ProviderNext => Shape
<1> SUFFICES ASSUME Typed, MutexInv, ProviderNext PROVE Shape
  OBVIOUS
<1>1. CASE \E p \in Procs : Exit(p)
  BY <1>1, ExitType
<1>2. ASSUME NEW t \in Threads,
             Initialize(t) \/ ConnectRefused(t) \/ Finalize(t) \/ Continues(t)
      PROVE  Shape
  BY <1>2, ConnectType, StoreType, SignGroupType, GenerateGroupType DEF Continues
<1>3. ASSUME NEW t \in Threads,
             \/ OpenSession(t) \/ GetTokenInfo(t)
             \/ \E object \in ObjectHandles, template \in Templates :
                  GetAttributeValue(t, object, template)
      PROVE  Shape
  BY <1>3, LookType
<1>4. ASSUME NEW t \in Threads, NEW s \in Sessions,
             CloseSession(t, s) \/ Login(t, s) \/ SignInit(t, s) \/ GenerateKeyPair(t, s)
      PROVE  Shape
  BY <1>4, SessionType, GenerateGroupType
<1>5. ASSUME NEW t \in Threads, NEW s \in Sessions,
             \/ \E class \in Classes : FindObjectsInit(t, s, class)
             \/ \E room \in 0 .. 3 : FindObjects(t, s, room)
             \/ FindObjectsFinal(t, s)
      PROVE  Shape
  BY <1>5, FindType
<1>6. ASSUME NEW t \in Threads, NEW s \in Sessions,
             \E m \in AllMsgs, room \in Rooms : Sign(t, s, m, room)
      PROVE  Shape
  BY <1>6, SignGroupType
<1> QED
  BY <1>1, <1>2, <1>3, <1>4, <1>5, <1>6 DEF ProviderNext

\* Of the listener's side a provider only ever extends the backlog.
LEMMA ProviderBacklog ==
  ASSUME Typed, ProviderNext
  PROVE  /\ listening' = listening
         /\ backlog' \in Seq(Conns)
<1>1. backlog \in Seq(Conns)
  BY DEF Typed, LinkTypeOK
<1>2. ASSUME NEW t \in Threads, Initialize(t)
      PROVE  listening' = listening /\ backlog' \in Seq(Conns)
  <2>1. PICK c \in Conns : backlog' \in {backlog, Append(backlog, c)}
    BY <1>2 DEF Initialize
  <2>2. Append(backlog, c) \in Seq(Conns)
    BY <1>1
  <2> QED
    BY <1>1, <1>2, <2>1, <2>2 DEF Initialize
<1>3. ASSUME NEW p \in Procs, Exit(p) PROVE UNCHANGED <<backlog, listening>>
  BY <1>3 DEF Exit, Ends
<1>4. ASSUME NEW t \in Threads, Continues(t) PROVE UNCHANGED <<backlog, listening>>
  BY <1>4 DEF Continues, InfoReply, PublicKeyReply, HandshakeFails, Store, SignDispatch,
     SignReply, SignPanics, SignFails, GenerateReply, GenerateFails, Ends
<1>5. ASSUME NEW t \in Threads,
             \/ ConnectRefused(t) \/ Finalize(t) \/ OpenSession(t) \/ GetTokenInfo(t)
             \/ \E object \in ObjectHandles, template \in Templates :
                  GetAttributeValue(t, object, template)
      PROVE  UNCHANGED <<backlog, listening>>
  BY <1>5 DEF ConnectRefused, Finalize, OpenSession, GetTokenInfo, GetAttributeValue, Untouched,
     linkVars
<1>6. ASSUME NEW t \in Threads, NEW s \in Sessions,
             \/ CloseSession(t, s) \/ Login(t, s) \/ FindObjectsFinal(t, s)
             \/ \E class \in Classes : FindObjectsInit(t, s, class)
             \/ \E room \in 0 .. 3 : FindObjects(t, s, room)
             \/ SignInit(t, s) \/ GenerateKeyPair(t, s)
             \/ \E m \in AllMsgs, room \in Rooms : Sign(t, s, m, room)
      PROVE  UNCHANGED <<backlog, listening>>
  BY <1>6 DEF CloseSession, Login, FindObjectsInit, FindObjects, FindObjectsFinal, SignInit,
     GenerateKeyPair, Sign, Untouched, linkVars
<1> QED
  BY <1>1, <1>2, <1>3, <1>4, <1>5, <1>6 DEF ProviderNext


-----------------------------------------------------------------------------
(* The kinds of step.                                                      *)

\* Every STATE stays, with its connection and what it knows of the token.
SameCores ==
  \A p \in Procs : /\ state'[p] = None <=> state[p] = None
                   /\ state[p] # None => /\ state'[p].conn = state[p].conn
                                         /\ state'[p].param = state[p].param
                                         /\ state'[p].pk = state[p].pk

\* A C_ function that returns at once.
Looks == UNCHANGED <<linkVars, holder, call>> /\ SameCores

\* A thread goes in or out of C_Sign's gap between its two critical sections.
Turns(t) ==
  /\ call[t].at \in {"idle", "sign"}
  /\ \E place \in Places : /\ place.at \in {"idle", "sign"}
                           /\ call' = [call EXCEPT ![t] = place]
  /\ UNCHANGED <<linkVars, holder, state>>

\* C_Initialize connects.
Dials(t) ==
  /\ call[t].at = "idle" /\ listening
  /\ \E c \in Conns :
       /\ CanOpen(c)
       /\ \E ch \in IF Serial THEN Opened(link[c]) ELSE {Dialled} :
            link' = [link EXCEPT ![c] = HostSends(ch, GetInfoReq)]
       /\ backlog' = IF Serial THEN backlog ELSE Append(backlog, c)
       /\ call' = [call EXCEPT ![t] = [at |-> "get_info", conn |-> c]]
  /\ UNCHANGED <<listening, holder, state>>

\* A thread takes the mutex and sends a request.
Sends(t) ==
  LET p == ProcOf[t] IN
  /\ call[t].at \in {"idle", "sign"} /\ holder[p] = None /\ state[p] # None
  /\ \E place \in Places, req \in Requests :
       /\ \/ place.at = "sign_wait" /\ req = SignReq(place.msg)
          \/ place.at = "gen_wait" /\ req = GenerateReq
       /\ call' = [call EXCEPT ![t] = place]
       /\ link' = [link EXCEPT ![state[p].conn] = HostSends(@, req)]
  /\ holder' = [holder EXCEPT ![p] = t]
  /\ UNCHANGED <<backlog, listening, state>>

\* An exchange ends without news of the token's key.
Finishes(t) ==
  LET p == ProcOf[t]
      c == state[p].conn
  IN /\ InExchange(t)
     /\ \/ ReadFails(link[c]) /\ UNCHANGED link
        \/ /\ Arrived(c) /\ TakeFrom(c)
           /\ call[t].at = "gen_wait" => Response(c).status # "Ok"
     /\ call' = [call EXCEPT ![t] = Idle]
     /\ holder' = [holder EXCEPT ![p] = None]
     /\ UNCHANGED <<backlog, listening>> /\ SameCores

\* A process ends.
Mine(p) == {c \in Conns : \/ state[p] # None /\ state[p].conn = c
                          \/ \E t \in Threads : /\ ProcOf[t] = p /\ Handshaking(t)
                                                /\ call[t].conn = c}
\* A process leaves its connections as they are, or has just read from one.
LastRead(p, last) ==
  \/ "exit" \in Calls /\ last = link
  \/ \E t \in Threads : LET own == state[p].conn IN
       /\ ProcOf[t] = p /\ InExchange(t) /\ Arrived(own)
       /\ last = [link EXCEPT ![own] = HostReads(@)]

Leaving(p) ==
  /\ \E last \in [Conns -> Channels] :
       /\ LastRead(p, last)
       /\ link' = [c \in Conns |-> IF c \in Mine(p) THEN HostCloses(last[c]) ELSE last[c]]
  /\ state' = [state EXCEPT ![p] = None]
  /\ holder' = [holder EXCEPT ![p] = None]
  /\ call' = [t \in Threads |-> IF ProcOf[t] = p THEN Idle ELSE call[t]]
  /\ UNCHANGED <<backlog, listening>>

ThreadKinds(t) ==
  \/ Turns(t) \/ Dials(t) \/ Sends(t) \/ Finishes(t)
  \/ InfoReply(t) \/ PublicKeyReply(t) \/ HandshakeFails(t) \/ Store(t) \/ Finalize(t)
  \/ GenerateReply(t)

ProviderKinds ==
  \/ Looks
  \/ \E t \in Threads : ThreadKinds(t)
  \/ \E p \in Procs : Leaving(p)

-----------------------------------------------------------------------------
\* Changing a session leaves a STATE's connection, parameter set and public key.
LEMMA SameSessionCores ==
  ASSUME Typed, NEW p \in Procs, NEW s \in Sessions, ~Uninitialized(p),
         NEW new \in SessionState \cup {None}, SetSession(p, s, new)
  PROVE  SameCores
<1> DEFINE st == [state[p] EXCEPT !.sessions[s] = new]
<1>1. state[p] \in ProviderState /\ state \in [Procs -> ProviderState \cup {None}]
  BY DEF Typed, ProviderTypeOK, Uninitialized
<1>2. /\ st \in ProviderState
      /\ st.conn = state[p].conn /\ st.param = state[p].param /\ st.pk = state[p].pk
  BY <1>1 DEF ProviderState
<1>3. state' = [state EXCEPT ![p] = st]
  BY DEF SetSession
<1> HIDE DEF st
<1> QED
  BY <1>1, <1>2, <1>3, NoneIsNoState DEF SameCores

\* So does changing nothing.
LEMMA SameStateCores == UNCHANGED state => SameCores
  BY DEF SameCores

\* A C_ function goes on past its guards only with a STATE and the session in it.
LEMMA SessionRvOk ==
  ASSUME NEW p, NEW s, SessionRv(p, s) = "OK"
  PROVE  HasSession(p, s) /\ ~Uninitialized(p) /\ state[p] # None
  BY DEF SessionRv, HasSession, Uninitialized

\* The session that a call touches changes nothing else of STATE.
LEMMA TouchCores ==
  ASSUME Typed, NEW p \in Procs, NEW s \in Sessions, HasSession(p, s),
         \/ SetSession(p, s, None)
         \/ \E b \in BOOLEAN : SetSession(p, s, [state[p].sessions[s] EXCEPT !.sign_active = b])
         \/ \E f \in Seq(ObjectHandles) \cup {None} :
               SetSession(p, s, [state[p].sessions[s] EXCEPT !.pending_find = f])
  PROVE  SameCores
<1>1. ~Uninitialized(p)
  BY DEF HasSession, Uninitialized
<1>2. state[p].sessions[s] \in SessionState
  BY <1>1, StateFields DEF HasSession
<1>3. /\ \A b \in BOOLEAN : [state[p].sessions[s] EXCEPT !.sign_active = b] \in SessionState
      /\ \A f \in Seq(ObjectHandles) \cup {None} :
           [state[p].sessions[s] EXCEPT !.pending_find = f] \in SessionState
  BY <1>2 DEF SessionState
<1>4. PICK new \in SessionState \cup {None} : SetSession(p, s, new)
  BY <1>3
<1> QED
  BY <1>1, <1>4, SameSessionCores
-----------------------------------------------------------------------------
(* Each action is of one of the kinds.                                     *)

\* Calls that return at once without a session, as a kind of step.
LEMMA LookKinds ==
  ASSUME Typed, NEW t \in Threads,
         \/ ConnectRefused(t) \/ OpenSession(t) \/ GetTokenInfo(t)
         \/ \E object \in ObjectHandles, template \in Templates :
                  GetAttributeValue(t, object, template)
  PROVE  Looks
<1> DEFINE p == ProcOf[t]
<1>0. p \in Procs
  BY ProviderAssumption
<1>1. UNCHANGED <<linkVars, holder, call>>
  BY DEF ConnectRefused, OpenSession, GetTokenInfo, GetAttributeValue, Untouched
<1>2. CASE UNCHANGED state
  BY <1>1, <1>2, SameStateCores DEF Looks
<1>3. CASE OpenSession(t) /\ ~Uninitialized(p)
  <2> DEFINE new == [state[p] EXCEPT !.sessions[state[p].next] = NewSession,
                                     !.next = state[p].next + 1]
  <2>1. state[p] \in ProviderState /\ state[p].next <= MaxSessions
    BY <1>0, <1>3, StateFields DEF OpenSession
  <2>2. NewSession \in SessionState
    BY DEF NewSession, SessionState
  <2>3. state[p].next \in Sessions /\ state[p].next + 1 \in 1 .. MaxSessions + 1
    BY <2>1, ProviderAssumption DEF ProviderState, Sessions
  <2>4. /\ new \in ProviderState
        /\ new.conn = state[p].conn /\ new.param = state[p].param /\ new.pk = state[p].pk
    BY <2>1, <2>2, <2>3 DEF ProviderState
  <2>5. state' = [state EXCEPT ![p] = new]
    BY <1>3 DEF OpenSession
  <2>6. state \in [Procs -> ProviderState \cup {None}]
    BY DEF Typed, ProviderTypeOK
  <2> HIDE DEF new
  <2> QED
    BY <1>0, <1>1, <2>1, <2>4, <2>5, <2>6, NoneIsNoState DEF SameCores, Looks
<1> QED
  BY <1>2, <1>3 DEF ConnectRefused, OpenSession, GetTokenInfo, GetAttributeValue

\* Calls that return at once on a session, as a kind of step.
LEMMA SessionKinds ==
  ASSUME Typed, NEW t \in Threads, NEW s \in Sessions,
         CloseSession(t, s) \/ Login(t, s) \/ SignInit(t, s) \/ FindObjectsFinal(t, s)
  PROVE  Looks
<1> DEFINE p == ProcOf[t]
<1>0. p \in Procs
  BY ProviderAssumption
<1>1. UNCHANGED <<linkVars, holder, call>>
  BY DEF CloseSession, Login, SignInit, FindObjectsFinal, Untouched
<1>2. CASE UNCHANGED state
  BY <1>1, <1>2, SameStateCores DEF Looks
<1>3. CASE HasSession(p, s) /\ (CloseSession(t, s) \/ SignInit(t, s) \/ FindObjectsFinal(t, s))
  <2>1. \/ UNCHANGED state \/ SetSession(p, s, None)
        \/ SetSession(p, s, [state[p].sessions[s] EXCEPT !.sign_active = TRUE])
        \/ SetSession(p, s, [state[p].sessions[s] EXCEPT !.pending_find = None])
    BY <1>3 DEF CloseSession, SignInit, FindObjectsFinal
  <2> QED
    BY <1>0, <1>1, <1>2, <1>3, <2>1, TouchCores DEF Looks
<1> QED
  BY <1>2, <1>3, SessionRvOk DEF CloseSession, Login, SignInit, FindObjectsFinal

\* c_find_objects_init and c_find_objects, as a kind of step.
LEMMA FindKinds ==
  ASSUME Typed, NEW t \in Threads, NEW s \in Sessions,
         \/ \E class \in Classes : FindObjectsInit(t, s, class)
         \/ \E room \in 0 .. 3 : FindObjects(t, s, room)
  PROVE  Looks
<1> DEFINE p == ProcOf[t]
<1>0. p \in Procs
  BY ProviderAssumption
<1>1. UNCHANGED <<linkVars, holder, call>>
  BY DEF FindObjectsInit, FindObjects, Untouched
<1>2. CASE UNCHANGED state
  BY <1>1, <1>2, SameStateCores DEF Looks
<1>3. ASSUME NEW class \in Classes, FindObjectsInit(t, s, class), state' # state
      PROVE  Looks
  <2>1. /\ SessionRv(p, s) = "OK"
        /\ SetSession(p, s, [state[p].sessions[s] EXCEPT !.pending_find = Matching(class)])
    BY <1>3 DEF FindObjectsInit
  <2>2. Matching(class) \in Seq(ObjectHandles)
    BY MatchingType
  <2> QED
    BY <1>0, <1>1, <2>1, <2>2, SessionRvOk, TouchCores DEF Looks
<1>4. ASSUME NEW room \in 0 .. 3, FindObjects(t, s, room), state' # state
      PROVE  Looks
  <2> DEFINE pending == state[p].sessions[s].pending_find
             n == IF room < Len(pending) THEN room ELSE Len(pending)
  <2>1. HasSession(p, s) /\ pending # None
    BY <1>4, SessionRvOk DEF FindObjects
  <2>2. pending \in Seq(ObjectHandles)
    BY <1>0, <2>1, StateFields DEF HasSession, Uninitialized, SessionState
  <2>3. SubSeq(pending, n + 1, Len(pending)) \in Seq(ObjectHandles)
    BY <2>2, RestType
  <2>4. SetSession(p, s, [state[p].sessions[s] EXCEPT
                            !.pending_find = SubSeq(pending, n + 1, Len(pending))])
    BY <1>4 DEF FindObjects
  <2> HIDE DEF pending, n
  <2> QED
    BY <1>0, <1>1, <2>1, <2>3, <2>4, TouchCores DEF Looks
<1> QED
  BY <1>2, <1>3, <1>4

\* The connect of c_initialize, as a kind of step.
LEMMA DialKinds ==
  ASSUME Typed, NEW t \in Threads, Initialize(t)
  PROVE  Dials(t)
<1>1. call[t].at = "idle" /\ listening
  BY DEF Initialize, Enters, Idle
<1> QED
  BY <1>1 DEF Initialize, Dials, Goes

\* The first critical section of c_sign, as kinds of step.
LEMMA SignKinds ==
  ASSUME Typed, NEW t \in Threads, NEW s \in Sessions, NEW m \in AllMsgs, NEW room \in Rooms,
         Sign(t, s, m, room)
  PROVE  Looks \/ Turns(t)
<1> DEFINE p == ProcOf[t]
<1>0. p \in Procs
  BY ProviderAssumption
<1>1. call[t].at = "idle" /\ UNCHANGED <<linkVars, state, holder>>
  BY DEF Sign, AtOnce, Enters, Idle
<1>2. CASE UNCHANGED call
  BY <1>1, <1>2, SameStateCores DEF Looks
<1>3. CASE call' # call
  <2> DEFINE place == [at |-> "sign", s |-> s, msg |-> m, room |-> room,
                       exp |-> signature_len_for[state[p].param]]
  <2>1. SessionRv(p, s) = "OK" /\ room # None /\ Goes(t, place)
    BY <1>3 DEF Sign
  <2>2. ~Uninitialized(p)
    BY <2>1, SessionRvOk
  <2>3. signature_len_for[state[p].param] \in Nat /\ room \in Nat
    BY <1>0, <2>1, <2>2, StateFields, ProviderAssumption, SMTT(60)
       DEF signature_len_for, ParamSets
  <2>4. place \in Places /\ place.at = "sign"
    BY <2>3 DEF Places
  <2> HIDE DEF place
  <2> QED
    BY <1>1, <2>1, <2>4 DEF Turns, Goes
<1> QED
  BY <1>2, <1>3

\* The second critical section of c_sign up to its request, as kinds of step.
LEMMA DispatchKinds ==
  ASSUME Typed, NEW t \in Threads, SignDispatch(t)
  PROVE  Turns(t) \/ Sends(t)
<1> DEFINE p == ProcOf[t]
           c == state[p].conn
<1>0. /\ p \in Procs /\ call[t] \in Places /\ Idle \in Places /\ Idle.at = "idle"
      /\ call[t].at = "sign" /\ UNCHANGED <<backlog, listening, state>> /\ holder[p] = None
  BY ProviderAssumption DEF Typed, ProviderTypeOK, Places, Idle, SignDispatch, MutexFree
<1>1. CASE UNCHANGED <<link, holder>> /\ Goes(t, Idle)
  BY <1>0, <1>1 DEF Turns, Goes, linkVars
<1>2. CASE ~Uninitialized(p) /\ SendOn(c, SignReq(call[t].msg)) /\ Acquire(t)
           /\ Goes(t, [call[t] EXCEPT !.at = "sign_wait"])
  <2> DEFINE place == [call[t] EXCEPT !.at = "sign_wait"]
             req == SignReq(call[t].msg)
  <2>1. call[t].msg \in AllMsgs /\ place \in Places
    BY <1>0, PlaceFields
  <2>2. place.at = "sign_wait" /\ place.msg = call[t].msg
    BY <1>0 DEF Places, Idle
  <2>3. req \in Requests
    BY <2>1, RequestTypes
  <2>4. /\ call' = [call EXCEPT ![t] = place] /\ link' = [link EXCEPT ![c] = HostSends(@, req)]
        /\ holder' = [holder EXCEPT ![p] = t] /\ state[p] # None
    BY <1>2 DEF Goes, SendOn, Acquire, Uninitialized
  <2>5. req = SignReq(place.msg)
    BY <2>2
  <2> HIDE DEF place, req
  <2> QED
    BY <1>0, <2>1, <2>2, <2>3, <2>4, <2>5 DEF Sends
<1> QED
  BY <1>1, <1>2 DEF SignDispatch

\* An exchange that ends without news of the key, as a kind of step.
LEMMA FinishKinds ==
  ASSUME Typed, MutexInv, NEW t \in Threads, SignReply(t) \/ SignFails(t) \/ GenerateFails(t)
  PROVE  Finishes(t)
<1> DEFINE p == ProcOf[t]
           c == state[p].conn
<1>1. InExchange(t)
  BY DEF SignReply, SignFails, GenerateFails, InExchange
<1>2. p \in Procs /\ state[p] # None
  BY <1>1, ExchangeFields DEF Uninitialized
<1>3. SameCores
  <2>1. CASE SignReply(t)
    <3>1. call[t].s \in Sessions
      BY <1>1, PlaceFields DEF Typed, ProviderTypeOK, InExchange
    <3> QED
      BY <1>2, <2>1, <3>1, TouchCores DEF SignReply
  <2> QED
    BY <2>1, SameStateCores DEF SignFails, GenerateFails
<1>4. \/ ReadFails(link[c]) /\ UNCHANGED link
      \/ /\ Arrived(c) /\ TakeFrom(c)
         /\ call[t].at = "gen_wait" => Response(c).status # "Ok"
  BY DEF SignReply, SignFails, GenerateFails
<1> QED
  BY <1>1, <1>3, <1>4 DEF Finishes, SignReply, SignFails, GenerateFails, Goes, Release

\* c_generate_key_pair up to its request, as kinds of step.
LEMMA GenerateKinds ==
  ASSUME Typed, NEW t \in Threads, NEW s \in Sessions, GenerateKeyPair(t, s)
  PROVE  Looks \/ Sends(t)
<1> DEFINE p == ProcOf[t]
           c == state[p].conn
<1>0. /\ call[t].at = "idle" /\ holder[p] = None /\ UNCHANGED <<backlog, listening, state>>
  BY DEF GenerateKeyPair, AtOnce, Enters, Idle, MutexFree
<1>1. CASE UNCHANGED <<link, holder, call>>
  BY <1>0, <1>1, SameStateCores DEF Looks, linkVars
<1>2. CASE SessionRv(p, s) = "OK" /\ SendOn(c, GenerateReq) /\ Acquire(t)
           /\ Goes(t, [at |-> "gen_wait", s |-> s])
  <2> DEFINE place == [at |-> "gen_wait", s |-> s]
  <2>1. place \in Places /\ place.at = "gen_wait"
    BY DEF Places
  <2>2. /\ call' = [call EXCEPT ![t] = place]
        /\ link' = [link EXCEPT ![c] = HostSends(@, GenerateReq)]
        /\ holder' = [holder EXCEPT ![p] = t] /\ state[p] # None
    BY <1>2, SessionRvOk DEF Goes, SendOn, Acquire
  <2> HIDE DEF place
  <2> QED
    BY <1>0, <2>1, <2>2, RequestTypes DEF Sends
<1> QED
  BY <1>1, <1>2 DEF GenerateKeyPair

\* The exit and the panic of a process, as a kind of step.
LEMMA LeaveKinds ==
  ASSUME Typed, MutexInv, NEW p \in Procs,
         Exit(p) \/ \E t \in Threads : ProcOf[t] = p /\ SignPanics(t)
  PROVE  Leaving(p)
<1> DEFINE mine == {c \in Conns : \/ ~Uninitialized(p) /\ state[p].conn = c
                                 \/ \E t \in Threads : /\ ProcOf[t] = p /\ Handshaking(t)
                                                       /\ call[t].conn = c}
<1>1. mine = Mine(p)
  BY DEF Mine, Uninitialized
<1>2. link \in [Conns -> Channels]
  BY DEF Typed, LinkTypeOK
<1>3. ASSUME NEW last \in [Conns -> Channels], Ends(p, last), LastRead(p, last)
      PROVE  Leaving(p)
  <2>1. link' = [c \in Conns |-> IF c \in mine THEN HostCloses(last[c]) ELSE last[c]]
    BY <1>3 DEF Ends
  <2> QED
    BY <1>1, <1>3, <2>1 DEF Ends, Leaving
<1>4. CASE Exit(p)
  BY <1>2, <1>3, <1>4 DEF Exit, LastRead
<1>5. ASSUME NEW t \in Threads, ProcOf[t] = p, SignPanics(t) PROVE Leaving(p)
  <2> DEFINE own == state[p].conn
             last == [link EXCEPT ![own] = HostReads(@)]
  <2>1. InExchange(t) /\ Arrived(own)
    BY <1>5 DEF SignPanics, InExchange
  <2>2. own \in Conns /\ HostReads(link[own]) \in Channels
    BY <1>5, <2>1, ExchangeFields
  <2>3. last \in [Conns -> Channels]
    BY <1>2, <2>2
  <2>4. Ends(p, last) /\ LastRead(p, last)
    BY <1>5, <2>1 DEF SignPanics, LastRead
  <2> HIDE DEF last
  <2> QED
    BY <1>3, <2>3, <2>4
<1> QED
  BY <1>4, <1>5

\* Every step of the provider is of one of the kinds.
LEMMA ProviderStepKinds == Typed /\ MutexInv /\ ProviderNext => ProviderKinds
<1> SUFFICES ASSUME Typed, MutexInv, ProviderNext PROVE ProviderKinds
  OBVIOUS
<1> USE DEF ProviderKinds, ThreadKinds
<1>1. CASE \E p \in Procs : Exit(p)
  BY <1>1, LeaveKinds
<1>2. ASSUME NEW t \in Threads, Continues(t) PROVE ProviderKinds
  <2>1. ProcOf[t] \in Procs
    BY ProviderAssumption
  <2> QED
    BY <1>2, <2>1, DispatchKinds, FinishKinds, LeaveKinds DEF Continues
<1>3. ASSUME NEW t \in Threads, Initialize(t) \/ Finalize(t) PROVE ProviderKinds
  BY <1>3, DialKinds
<1>4. ASSUME NEW t \in Threads,
             \/ ConnectRefused(t) \/ OpenSession(t) \/ GetTokenInfo(t)
             \/ \E object \in ObjectHandles, template \in Templates :
                  GetAttributeValue(t, object, template)
      PROVE  ProviderKinds
  BY <1>4, LookKinds
<1>5. ASSUME NEW t \in Threads, NEW s \in Sessions,
             CloseSession(t, s) \/ Login(t, s) \/ SignInit(t, s) \/ FindObjectsFinal(t, s)
      PROVE  ProviderKinds
  BY <1>5, SessionKinds
<1>6. ASSUME NEW t \in Threads, NEW s \in Sessions,
             \/ \E class \in Classes : FindObjectsInit(t, s, class)
             \/ \E room \in 0 .. 3 : FindObjects(t, s, room)
      PROVE  ProviderKinds
  BY <1>6, FindKinds
<1>7. ASSUME NEW t \in Threads, NEW s \in Sessions,
             \/ GenerateKeyPair(t, s)
             \/ \E m \in AllMsgs, room \in Rooms : Sign(t, s, m, room)
      PROVE  ProviderKinds
  BY <1>7, SignKinds, GenerateKinds
<1> QED
  BY <1>1, <1>2, <1>3, <1>4, <1>5, <1>6, <1>7 DEF ProviderNext

-----------------------------------------------------------------------------
(* The sessions of a careful application.                                  *)

Signs(t) == call[t].at \in {"sign", "sign_wait"}

\* No two threads of a process are in calls on one session.
ApartInv == \A t \in Threads, s \in Sessions : Uses(t, s) => \A u \in Peers(t) : ~Uses(u, s)

\* A thread inside C_Sign has its session, with a signature under way.
SigningInv == \A t \in Threads : Signs(t) =>
                /\ HasSession(ProcOf[t], call[t].s)
                /\ state[ProcOf[t]].sessions[call[t].s].sign_active

\* At most one thread of a process is in C_Initialize, and its STATE is empty.
StartInv == \A t \in Threads : Handshaking(t) =>
              Uninitialized(ProcOf[t]) /\ \A u \in Peers(t) : ~Handshaking(u)

\* No session has a number that is still to be given.
NumbersInv == \A p \in Procs : ~Uninitialized(p) =>
                \A s \in Sessions : s >= state[p].next => ~HasSession(p, s)

\* What a careful application may rely on from one C_ function to the next.
SessionInv == ApartInv /\ SigningInv /\ StartInv /\ NumbersInv

-----------------------------------------------------------------------------
\* A step of thread t that leaves every STATE alone keeps SessionInv if t has a right
\* to the place it goes to.
LEMMA GoesKeeps ==
  ASSUME ProviderTypeOK, SessionInv, NEW t \in Threads, NEW place, Goes(t, place),
         UNCHANGED state,
         place.at \in {"sign", "sign_wait"} =>
           /\ HasSession(ProcOf[t], place.s)
           /\ state[ProcOf[t]].sessions[place.s].sign_active,
         place.at \in {"sign", "sign_wait", "gen_wait"} =>
           \A u \in Peers(t) : ~Uses(u, place.s),
         place.at \in {"get_info", "get_public_key", "store"} =>
           Uninitialized(ProcOf[t]) /\ \A u \in Peers(t) : ~Handshaking(u)
  PROVE  SessionInv'
<1>1. \A u \in Threads : call'[u] = IF u = t THEN place ELSE call[u]
  BY DEF Goes, ProviderTypeOK
<1>2. ApartInv'
  BY <1>1 DEF SessionInv, ApartInv, Uses, Peers
<1>3. SigningInv'
  BY <1>1 DEF SessionInv, SigningInv, Signs, HasSession
<1>4. StartInv'
  BY <1>1 DEF SessionInv, StartInv, Handshaking, Uninitialized, Peers
<1>5. NumbersInv'
  BY DEF SessionInv, NumbersInv, Uninitialized, HasSession
<1> QED
  BY <1>2, <1>3, <1>4, <1>5 DEF SessionInv

\* So does one that changes a session which no other thread uses, and ends idle.
LEMMA SetKeeps ==
  ASSUME ProviderTypeOK, SessionInv, NEW t \in Threads, NEW s \in Sessions,
         HasSession(ProcOf[t], s), NEW new \in SessionState \cup {None},
         SetSession(ProcOf[t], s, new),
         call' = [call EXCEPT ![t] = Idle],
         \A u \in Peers(t) : ~Uses(u, s)
  PROVE  SessionInv'
<1> DEFINE p == ProcOf[t]
<1>0. p \in Procs
  BY ProviderAssumption
<1>1. \A u \in Threads : call'[u] = IF u = t THEN Idle ELSE call[u]
  BY DEF ProviderTypeOK
<1>2. state[p] \in ProviderState /\ state[p].sessions \in [Sessions -> SessionState \cup {None}]
  BY <1>0 DEF ProviderTypeOK, HasSession, ProviderState
<1>3. /\ state'[p].next = state[p].next /\ state'[p] # None
      /\ \A r \in Sessions : state'[p].sessions[r] = IF r = s THEN new ELSE state[p].sessions[r]
  <2> DEFINE st == [state[p] EXCEPT !.sessions[s] = new]
  <2>1. st \in ProviderState /\ st.next = state[p].next
        /\ \A r \in Sessions : st.sessions[r] = IF r = s THEN new ELSE state[p].sessions[r]
    BY <1>2 DEF ProviderState
  <2>2. state'[p] = st
    BY <1>0 DEF SetSession, ProviderTypeOK
  <2> HIDE DEF st
  <2> QED
    BY <2>1, <2>2, NoneIsNoState
<1>4. \A q \in Procs \ {p} : state'[q] = state[q]
  BY DEF SetSession, ProviderTypeOK
<1>5. \A u \in Threads : ProcOf[u] \in Procs
  BY ProviderAssumption
<1> HIDE DEF p
<1>6. ApartInv'
  BY <1>1 DEF SessionInv, ApartInv, Uses, Peers, Idle
<1>7. SigningInv'
  <2> SUFFICES ASSUME NEW u \in Threads, Signs(u)'
               PROVE  /\ HasSession(ProcOf[u], call[u].s)'
                      /\ state'[ProcOf[u]].sessions[call'[u].s].sign_active
    BY DEF SigningInv
  <2>1. u # t /\ Signs(u) /\ call'[u] = call[u] /\ call[u].s \in Sessions
    BY <1>1, PlaceFields DEF Signs, Idle, ProviderTypeOK
  <2>2. HasSession(ProcOf[u], call[u].s) /\ state[ProcOf[u]].sessions[call[u].s].sign_active
    BY <2>1 DEF SessionInv, SigningInv
  <2>3. CASE ProcOf[u] # p
    BY <1>4, <1>5, <2>1, <2>2, <2>3 DEF HasSession
  <2>4. CASE ProcOf[u] = p
    <3>1. call[u].s # s
      BY <2>1, <2>4 DEF Peers, Uses, Signs, p
    <3> QED
      BY <1>3, <2>1, <2>2, <2>4, <3>1 DEF HasSession
  <2> QED
    BY <2>3, <2>4
<1>8. StartInv'
  <2> SUFFICES ASSUME NEW u \in Threads, Handshaking(u)'
               PROVE  Uninitialized(ProcOf[u])' /\ \A v \in Peers(u) : ~Handshaking(v)'
    BY DEF StartInv, Peers
  <2>1. u # t /\ Handshaking(u)
    BY <1>1 DEF Handshaking, Idle
  <2>2. Uninitialized(ProcOf[u]) /\ \A v \in Peers(u) : ~Handshaking(v)
    BY <2>1 DEF SessionInv, StartInv
  <2>3. ProcOf[u] # p
    BY <2>2 DEF HasSession, Uninitialized, p
  <2> QED
    BY <1>1, <1>4, <1>5, <2>2, <2>3 DEF Uninitialized, Handshaking, Idle, Peers
<1>9. NumbersInv'
  BY <1>0, <1>3, <1>4 DEF SessionInv, NumbersInv, Uninitialized, HasSession, p
<1> QED
  BY <1>6, <1>7, <1>8, <1>9 DEF SessionInv

\* So does one that gives its STATE another session or another public key.
LEMMA GrowsKeeps ==
  ASSUME ProviderTypeOK, SessionInv, NEW t \in Threads, call' = [call EXCEPT ![t] = Idle],
         ~Uninitialized(ProcOf[t]), NEW st \in ProviderState,
         state' = [state EXCEPT ![ProcOf[t]] = st],
         \A s \in Sessions : HasSession(ProcOf[t], s) =>
           st.sessions[s] = state[ProcOf[t]].sessions[s],
         \A s \in Sessions : s >= st.next => st.sessions[s] = None
  PROVE  SessionInv'
<1>1. \A u \in Threads : call'[u] = IF u = t THEN Idle ELSE call[u]
  BY DEF ProviderTypeOK
<1>2. \A u \in Threads : ProcOf[u] \in Procs
  BY ProviderAssumption
<1>3. \A q \in Procs : state'[q] = IF q = ProcOf[t] THEN st ELSE state[q]
  BY DEF ProviderTypeOK
<1>4. st # None
  BY NoneIsNoState
<1>5. ApartInv'
  BY <1>1 DEF SessionInv, ApartInv, Uses, Peers, Idle
<1>6. SigningInv'
  <2> SUFFICES ASSUME NEW u \in Threads, Signs(u)'
               PROVE  /\ HasSession(ProcOf[u], call[u].s)'
                      /\ state'[ProcOf[u]].sessions[call'[u].s].sign_active
    BY DEF SigningInv
  <2>1. u # t /\ Signs(u) /\ call'[u] = call[u] /\ call[u].s \in Sessions
    BY <1>1, PlaceFields DEF Signs, Idle, ProviderTypeOK
  <2>2. HasSession(ProcOf[u], call[u].s) /\ state[ProcOf[u]].sessions[call[u].s].sign_active
    BY <2>1 DEF SessionInv, SigningInv
  <2> QED
    BY <1>2, <1>3, <1>4, <2>1, <2>2 DEF HasSession
<1>7. StartInv'
  <2> SUFFICES ASSUME NEW u \in Threads, Handshaking(u)'
               PROVE  Uninitialized(ProcOf[u])' /\ \A v \in Peers(u) : ~Handshaking(v)'
    BY DEF StartInv, Peers
  <2>1. u # t /\ Handshaking(u)
    BY <1>1 DEF Handshaking, Idle
  <2>2. Uninitialized(ProcOf[u]) /\ \A v \in Peers(u) : ~Handshaking(v)
    BY <2>1 DEF SessionInv, StartInv
  <2>3. ProcOf[u] # ProcOf[t]
    BY <2>2
  <2> QED
    BY <1>1, <1>2, <1>3, <2>2, <2>3 DEF Uninitialized, Handshaking, Idle, Peers
<1>8. NumbersInv'
  BY <1>3 DEF SessionInv, NumbersInv, Uninitialized, HasSession
<1> QED
  BY <1>5, <1>6, <1>7, <1>8 DEF SessionInv

\* So does one that replaces the whole STATE of a process no other thread of which is
\* inside C_Initialize or C_Sign.
LEMMA ResetKeeps ==
  ASSUME ProviderTypeOK, SessionInv, NEW p \in Procs,
         NEW st \in ProviderState \cup {None}, state' = [state EXCEPT ![p] = st],
         st # None => \A s \in Sessions : st.sessions[s] = None,
         \A u \in Threads : ProcOf[u] # p => call'[u] = call[u],
         \A u \in Threads : ProcOf[u] = p => call'[u] = Idle \/ call'[u] = call[u],
         \A u \in Threads : ProcOf[u] = p => ~Signs(u)' /\ ~Handshaking(u)'
  PROVE  SessionInv'
<1>1. \A q \in Procs : state'[q] = IF q = p THEN st ELSE state[q]
  BY DEF ProviderTypeOK
<1>2. \A u \in Threads : ProcOf[u] \in Procs
  BY ProviderAssumption
<1>3. ApartInv'
  <2> SUFFICES ASSUME NEW u \in Threads, NEW s \in Sessions, Uses(u, s)', NEW v \in Peers(u)
               PROVE  ~Uses(v, s)'
    BY DEF ApartInv, Peers
  <2>1. call'[u] = call[u] /\ v \in Threads /\ (call'[v] = call[v] \/ call'[v] = Idle)
    BY DEF Uses, Idle, Peers
  <2> QED
    BY <2>1 DEF SessionInv, ApartInv, Uses, Idle
<1>4. SigningInv'
  BY <1>1, <1>2 DEF SessionInv, SigningInv, Signs, HasSession
<1>5. StartInv'
  <2> SUFFICES ASSUME NEW u \in Threads, Handshaking(u)'
               PROVE  Uninitialized(ProcOf[u])' /\ \A v \in Peers(u) : ~Handshaking(v)'
    BY DEF StartInv, Peers
  <2>1. ProcOf[u] # p /\ call'[u] = call[u]
    OBVIOUS
  <2>2. \A v \in Peers(u) : v \in Threads /\ ProcOf[v] # p
    BY <2>1 DEF Peers
  <2>3. \A v \in Peers(u) : call'[v] = call[v]
    BY <2>2
  <2> QED
    BY <1>1, <1>2, <2>1, <2>3 DEF SessionInv, StartInv, Handshaking, Uninitialized
<1>6. NumbersInv'
  BY <1>1 DEF SessionInv, NumbersInv, Uninitialized, HasSession
<1> QED
  BY <1>3, <1>4, <1>5, <1>6 DEF SessionInv

-----------------------------------------------------------------------------
(* The actions.                                                            *)

\* A thread in no call may be said to go idle.
LEMMA IdleStays ==
  ASSUME ProviderTypeOK, NEW t \in Threads, call[t] = Idle
  PROVE  /\ call = [call EXCEPT ![t] = Idle]
         /\ UNCHANGED call => Goes(t, Idle)
  BY DEF ProviderTypeOK, Goes

\* The calls that leave every STATE as it is.
LEMMA LookSessions ==
  ASSUME Careful, ProviderTypeOK, SessionInv, NEW t \in Threads,
         \/ ConnectRefused(t) \/ GetTokenInfo(t)
         \/ \E object \in ObjectHandles, template \in Templates :
              GetAttributeValue(t, object, template)
         \/ \E s \in Sessions : Login(t, s)
  PROVE  SessionInv' /\ UNCHANGED panicked
<1>1. UNCHANGED <<state, call, panicked>>
  BY DEF ConnectRefused, GetTokenInfo, GetAttributeValue, Login, AtOnce, Enters, Untouched
<1>2. call[t] = Idle
  BY DEF ConnectRefused, GetTokenInfo, GetAttributeValue, Login, AtOnce, Enters
<1>3. Goes(t, Idle)
  BY <1>1, <1>2, IdleStays
<1>4. Idle.at = "idle"
  BY DEF Idle
<1> QED
  BY <1>1, <1>3, <1>4, GoesKeeps

\* c_initialize.
LEMMA StartSessions ==
  ASSUME Careful, ProviderTypeOK, SessionInv, NEW t \in Threads,
         Initialize(t) \/ InfoReply(t) \/ PublicKeyReply(t) \/ HandshakeFails(t)
  PROVE  SessionInv' /\ UNCHANGED panicked
<1>1. UNCHANGED <<state, panicked>>
  BY DEF Initialize, InfoReply, PublicKeyReply, HandshakeFails
<1>2. CASE Initialize(t)
  <2>1. PICK c \in Conns : Goes(t, [at |-> "get_info", conn |-> c])
    BY <1>2 DEF Initialize
  <2>2. Uninitialized(ProcOf[t]) /\ \A u \in Peers(t) : call[u] = Idle
    BY <1>2 DEF Initialize, MayInitialize, MayReset
  <2> QED
    BY <1>1, <2>1, <2>2, GoesKeeps DEF Handshaking, Idle
<1>3. CASE InfoReply(t) \/ PublicKeyReply(t)
  <2>1. Handshaking(t)
    BY <1>3 DEF InfoReply, PublicKeyReply, Handshaking
  <2>2. \E place : Goes(t, place) /\ place.at \in {"get_public_key", "store"}
    BY <1>3 DEF InfoReply, PublicKeyReply
  <2> QED
    BY <1>1, <2>1, <2>2, GoesKeeps DEF SessionInv, StartInv
<1>4. CASE HandshakeFails(t)
  BY <1>1, <1>4, GoesKeeps DEF HandshakeFails, Idle
<1> QED
  BY <1>2, <1>3, <1>4, <1>1

\* The end of c_initialize, and c_finalize.
LEMMA ResetSessions ==
  ASSUME Careful, ProviderTypeOK, SessionInv, NEW t \in Threads, Store(t) \/ Finalize(t)
  PROVE  SessionInv' /\ UNCHANGED panicked
<1> DEFINE p == ProcOf[t]
<1>1. p \in Procs
  BY ProviderAssumption
<1>2. CASE Store(t)
  <2> DEFINE st == NewState(call[t].conn, call[t].param, call[t].pk)
  <2>1. /\ state' = [state EXCEPT ![p] = st]
        /\ \A u \in Threads : call'[u] = IF u = t THEN Idle ELSE call[u]
        /\ UNCHANGED panicked
    BY <1>2 DEF Store, Goes, ProviderTypeOK
  <2>2. Uninitialized(p) /\ \A u \in Peers(t) : ~Handshaking(u)
    BY <1>2 DEF Store, SessionInv, StartInv, Handshaking
  <2>3. st \in ProviderState
    <3>1. call[t].conn \in Conns /\ call[t].param \in ParamSets /\ call[t].pk \in Payloads
      BY <1>2 DEF Store, ProviderTypeOK, Places, Idle
    <3>2. 1 \in 1 .. MaxSessions + 1
      BY ProviderAssumption
    <3> QED
      BY <3>1, <3>2 DEF NewState, ProviderState
  <2>4. \A s \in Sessions : st.sessions[s] = None
    BY DEF NewState
  <2>5. \A u \in Threads : ProcOf[u] = p /\ u # t => ~Signs(u) /\ ~Handshaking(u)
    BY <2>2 DEF SessionInv, SigningInv, HasSession, Uninitialized, Peers
  <2>6. \A u \in Threads : ProcOf[u] = p => ~Signs(u)' /\ ~Handshaking(u)'
    BY <2>1, <2>5 DEF Signs, Handshaking, Idle
  <2> HIDE DEF st, p
  <2> QED
    BY <1>1, <2>1, <2>3, <2>4, <2>6, ResetKeeps DEF p
<1>3. CASE Finalize(t)
  <2>1. /\ state' = [state EXCEPT ![p] = None] /\ UNCHANGED <<call, panicked>>
        /\ \A u \in Threads : ProcOf[u] = p => call[u] = Idle
    BY <1>3 DEF Finalize, Enters, MayReset, Peers
  <2>2. \A u \in Threads : ProcOf[u] = p => ~Signs(u)' /\ ~Handshaking(u)'
    BY <2>1 DEF Signs, Handshaking, Idle
  <2> HIDE DEF p
  <2> QED
    BY <1>1, <2>1, <2>2, ResetKeeps
<1> QED
  BY <1>2, <1>3

\* c_open_session.
LEMMA OpenSessions ==
  ASSUME Careful, ProviderTypeOK, SessionInv, NEW t \in Threads, OpenSession(t)
  PROVE  SessionInv' /\ UNCHANGED panicked
<1> DEFINE p == ProcOf[t]
<1>1. p \in Procs /\ MaxSessions \in Nat
  BY ProviderAssumption
<1>2. call[t] = Idle /\ UNCHANGED <<call, panicked>>
  BY DEF OpenSession, AtOnce, Enters, Untouched
<1>3. Goes(t, Idle) /\ call' = [call EXCEPT ![t] = Idle]
  BY <1>2, IdleStays DEF Goes
<1>4. CASE UNCHANGED state
  <2>1. Idle.at = "idle"
    BY DEF Idle
  <2> QED
    BY <1>2, <1>3, <1>4, <2>1, GoesKeeps
<1>5. CASE /\ ~Uninitialized(p) /\ state[p].next <= MaxSessions
           /\ state' = [state EXCEPT ![p] = [@ EXCEPT !.sessions[state[p].next] = NewSession,
                                                    !.next = state[p].next + 1]]
  <2> DEFINE n  == state[p].next
             st == [state[p] EXCEPT !.sessions[n] = NewSession, !.next = n + 1]
  <2>1. /\ state[p] \in ProviderState /\ n \in Sessions
        /\ state[p].sessions \in [Sessions -> SessionState \cup {None}]
    BY <1>1, <1>5 DEF ProviderTypeOK, Uninitialized, ProviderState, Sessions
  <2>2. NewSession \in SessionState
    BY DEF NewSession, SessionState
  <2>3. /\ st \in ProviderState /\ st.next = n + 1
        /\ \A s \in Sessions : st.sessions[s] = IF s = n THEN NewSession ELSE state[p].sessions[s]
    <3>1. n + 1 \in 1 .. MaxSessions + 1
      BY <1>1, <1>5, <2>1 DEF Sessions
    <3> HIDE DEF n
    <3>2. [state[p].sessions EXCEPT ![n] = NewSession] \in [Sessions -> SessionState \cup {None}]
      BY <2>1, <2>2
    <3> QED
      BY <2>1, <3>1, <3>2 DEF ProviderState
  <2>4. \A s \in Sessions : s >= n => ~HasSession(p, s)
    BY <1>1, <1>5 DEF SessionInv, NumbersInv
  <2>5. state' = [state EXCEPT ![p] = st]
    BY <1>1, <1>5 DEF ProviderTypeOK
  <2>6. \A s \in Sessions : s >= st.next => st.sessions[s] = None
    BY <1>5, <2>1, <2>3, <2>4 DEF HasSession, Sessions, Uninitialized
  <2>7. \A s \in Sessions : HasSession(p, s) => st.sessions[s] = state[p].sessions[s]
    BY <2>1, <2>3, <2>4 DEF Sessions
  <2> HIDE DEF st, n
  <2> QED
    BY <1>2, <1>3, <1>5, <2>3, <2>5, <2>6, <2>7, GrowsKeeps, ZenonT(30)
<1> QED
  BY <1>4, <1>5, <1>2 DEF OpenSession

\* The C_ functions that change one session.
LEMMA SetSessions ==
  ASSUME Careful, ProviderTypeOK, SessionInv, NEW t \in Threads, NEW s \in Sessions,
         \/ CloseSession(t, s) \/ FindObjectsFinal(t, s) \/ SignInit(t, s)
         \/ \E class \in Classes : FindObjectsInit(t, s, class)
         \/ \E room \in 0 .. 3 : FindObjects(t, s, room)
  PROVE  SessionInv' /\ UNCHANGED panicked
<1> DEFINE p == ProcOf[t]
<1>1. p \in Procs
  BY ProviderAssumption
<1>2. /\ call[t] = Idle /\ UNCHANGED <<call, panicked>> /\ \A u \in Peers(t) : ~Uses(u, s)
      /\ Goes(t, Idle) /\ call' = [call EXCEPT ![t] = Idle]
  <2>1. call[t] = Idle /\ UNCHANGED <<call, panicked>> /\ MayCallOn(t, s)
    BY DEF CloseSession, FindObjectsFinal, SignInit, FindObjectsInit, FindObjects, AtOnce,
           Enters, Untouched
  <2> QED
    BY <2>1, IdleStays DEF MayCallOn, Goes
<1>3. CASE UNCHANGED state
  <2>1. Idle.at = "idle"
    BY DEF Idle
  <2> QED
    BY <1>2, <1>3, <2>1, GoesKeeps
<1>4. ASSUME HasSession(p, s)
      PROVE  /\ state[p].sessions[s] \in SessionState
             /\ \A b \in BOOLEAN : [state[p].sessions[s] EXCEPT !.sign_active = b] \in SessionState
             /\ \A f \in Seq(ObjectHandles) \cup {None} :
                  [state[p].sessions[s] EXCEPT !.pending_find = f] \in SessionState
  <2>1. state[p].sessions[s] \in SessionState
    BY <1>1, <1>4 DEF HasSession, ProviderTypeOK, ProviderState
  <2> QED
    BY <2>1 DEF SessionState
<1>5. ASSUME HasSession(p, s), NEW new \in SessionState \cup {None}, SetSession(p, s, new)
      PROVE  SessionInv'
  BY <1>2, <1>5, SetKeeps
<1>6. CASE CloseSession(t, s) \/ SignInit(t, s) \/ FindObjectsFinal(t, s)
  BY <1>2, <1>3, <1>4, <1>5, <1>6, SessionRvOk DEF CloseSession, SignInit, FindObjectsFinal
<1>7. ASSUME NEW class \in Classes, FindObjectsInit(t, s, class) PROVE SessionInv'
  BY <1>2, <1>3, <1>4, <1>5, <1>7, MatchingType, SessionRvOk DEF FindObjectsInit
<1>8. ASSUME NEW room \in 0 .. 3, FindObjects(t, s, room) PROVE SessionInv'
  <2> DEFINE pending == state[p].sessions[s].pending_find
             n == IF room < Len(pending) THEN room ELSE Len(pending)
  <2>1. CASE /\ SessionRv(p, s) = "OK" /\ pending # None
             /\ SetSession(p, s, [state[p].sessions[s] EXCEPT
                                    !.pending_find = SubSeq(pending, n + 1, Len(pending))])
    <3>1. HasSession(p, s)
      BY <2>1, SessionRvOk
    <3>2. pending \in Seq(ObjectHandles)
      BY <1>4, <2>1, <3>1 DEF SessionState
    <3>3. SubSeq(pending, n + 1, Len(pending)) \in Seq(ObjectHandles)
      BY <3>2
    <3> QED
      BY <1>4, <1>5, <2>1, <3>1, <3>3
  <2> QED
    BY <1>3, <1>8, <2>1 DEF FindObjects
<1> QED
  BY <1>2, <1>6, <1>7, <1>8

\* c_sign: its session is there, with an operation active, from the first critical
\* section to the second and on to the answer.
LEMMA SignSessions ==
  ASSUME Careful, ProviderTypeOK, SessionInv, NEW t \in Threads,
         \/ SignDispatch(t) \/ SignFails(t)
         \/ \E s \in Sessions, m \in AllMsgs, room \in Rooms : Sign(t, s, m, room)
  PROVE  SessionInv' /\ UNCHANGED panicked
<1>0. UNCHANGED <<state, panicked>>
  BY DEF SignDispatch, SignFails, Sign
<1>1. ASSUME Goes(t, Idle) PROVE SessionInv'
  BY <1>0, <1>1, GoesKeeps DEF Idle
<1>2. CASE SignDispatch(t)
  <2>1. CASE Goes(t, [call[t] EXCEPT !.at = "sign_wait"])
    <3> DEFINE place == [call[t] EXCEPT !.at = "sign_wait"]
    <3>1. place.at = "sign_wait" /\ place.s = call[t].s /\ call[t].s \in Sessions
      BY <1>2, PlaceFields DEF SignDispatch, ProviderTypeOK, Places, Idle
    <3>2. Signs(t) /\ Uses(t, call[t].s)
      BY <1>2 DEF SignDispatch, Signs, Uses
    <3> HIDE DEF place
    <3> QED
      BY <1>0, <2>1, <3>1, <3>2, GoesKeeps DEF SessionInv, SigningInv, ApartInv, place
  <2> QED
    BY <1>1, <1>2, <2>1 DEF SignDispatch
<1>3. CASE SignFails(t)
  BY <1>1, <1>3 DEF SignFails
<1>4. ASSUME NEW s \in Sessions, NEW m \in AllMsgs, NEW room \in Rooms, Sign(t, s, m, room)
      PROVE  SessionInv'
  <2>1. \A u \in Peers(t) : ~Uses(u, s)
    BY <1>4 DEF Sign, MayCallOn
  <2>2. CASE UNCHANGED call
    BY <1>1, <1>4, <2>2, IdleStays DEF Sign, AtOnce, Enters
  <2>3. CASE ~UNCHANGED call
    <3>1. /\ SessionRv(ProcOf[t], s) = "OK" /\ state[ProcOf[t]].sessions[s].sign_active
          /\ \E exp : Goes(t, [at |-> "sign", s |-> s, msg |-> m, room |-> room, exp |-> exp])
      BY <1>4, <2>3 DEF Sign
    <3> QED
      BY <1>0, <2>1, <3>1, SessionRvOk, GoesKeeps
  <2> QED
    BY <2>2, <2>3
<1> QED
  BY <1>0, <1>2, <1>3, <1>4

\* c_generate_key_pair.
LEMMA GenerateSessions ==
  ASSUME Careful, ProviderTypeOK, SessionInv, NEW t \in Threads,
         GenerateReply(t) => /\ ~Uninitialized(ProcOf[t])
                             /\ Response(state[ProcOf[t]].conn) \in Responses,
         \/ GenerateReply(t) \/ GenerateFails(t) \/ \E s \in Sessions : GenerateKeyPair(t, s)
  PROVE  SessionInv' /\ UNCHANGED panicked
<1>1. ASSUME Goes(t, Idle), UNCHANGED state PROVE SessionInv'
  BY <1>1, GoesKeeps DEF Idle
<1>2. CASE GenerateReply(t)
  <2> DEFINE p == ProcOf[t]
             rsp == Response(state[p].conn)
             st == [state[p] EXCEPT !.pk = rsp.body]
  <2>1. /\ p \in Procs /\ ~Uninitialized(p) /\ state[p] \in ProviderState
    BY <1>2, ProviderAssumption DEF ProviderTypeOK, Uninitialized
  <2>2. rsp.body \in Payloads
    BY <1>2 DEF Responses
  <2> HIDE DEF rsp
  <2>3. st \in ProviderState /\ st.sessions = state[p].sessions /\ st.next = state[p].next
    BY <2>1, <2>2 DEF ProviderState
  <2>4. /\ state' = [state EXCEPT ![p] = st] /\ call' = [call EXCEPT ![t] = Idle]
        /\ UNCHANGED panicked
    BY <1>2 DEF GenerateReply, Goes, rsp
  <2>5. \A s \in Sessions : s >= st.next => st.sessions[s] = None
    BY <2>1, <2>3 DEF SessionInv, NumbersInv, HasSession, Uninitialized
  <2> HIDE DEF st
  <2> QED
    BY <2>1, <2>3, <2>4, <2>5, GrowsKeeps
<1>3. CASE GenerateFails(t)
  BY <1>1, <1>3 DEF GenerateFails
<1>4. ASSUME NEW s \in Sessions, GenerateKeyPair(t, s) PROVE SessionInv' /\ UNCHANGED panicked
  <2>1. UNCHANGED <<state, panicked>> /\ call[t] = Idle /\ \A u \in Peers(t) : ~Uses(u, s)
    BY <1>4 DEF GenerateKeyPair, AtOnce, Enters, MayCallOn
  <2>2. CASE UNCHANGED call
    BY <1>1, <2>1, <2>2, IdleStays
  <2>3. CASE Goes(t, [at |-> "gen_wait", s |-> s])
    BY <2>1, <2>3, GoesKeeps
  <2> QED
    BY <1>4, <2>1, <2>2, <2>3 DEF GenerateKeyPair
<1> QED
  BY <1>2, <1>3, <1>4

\* The answer that C_Sign waited for finds its session there: the signature is handed
\* out, and the operation is over (the second critical section of c_sign).
LEMMA SignReplySessions ==
  ASSUME Careful, ProviderTypeOK, SessionInv, NEW t \in Threads, SignReply(t)
  PROVE  SessionInv' /\ UNCHANGED panicked
<1> DEFINE p   == ProcOf[t]
           s   == call[t].s
           new == [state[p].sessions[s] EXCEPT !.sign_active = FALSE]
<1>1. p \in Procs /\ s \in Sessions /\ HasSession(p, s) /\ Uses(t, s)
  BY ProviderAssumption, PlaceFields DEF SignReply, ProviderTypeOK, Uses
<1>2. \A u \in Peers(t) : ~Uses(u, s)
  BY <1>1 DEF SessionInv, ApartInv
<1>3. new \in SessionState
  <2>1. state[p].sessions[s] \in SessionState
    BY <1>1 DEF HasSession, ProviderTypeOK, ProviderState
  <2> QED
    BY <2>1 DEF SessionState
<1>4. SetSession(p, s, new) /\ call' = [call EXCEPT ![t] = Idle] /\ UNCHANGED panicked
  BY DEF SignReply, Goes
<1> HIDE DEF s, new
<1> QED
  BY <1>1, <1>2, <1>3, <1>4, SetKeeps

\* expect("checked above") in c_sign never panics.
LEMMA NeverPanics ==
  ASSUME SessionInv, NEW t \in Threads
  PROVE  ~SignPanics(t)
  BY DEF SessionInv, SigningInv, Signs, SignPanics

\* The end of a process.
LEMMA ExitSessions ==
  ASSUME ProviderTypeOK, SessionInv, NEW p \in Procs, Exit(p)
  PROVE  SessionInv' /\ UNCHANGED panicked
<1>1. /\ state' = [state EXCEPT ![p] = None] /\ UNCHANGED panicked
      /\ call' = [t \in Threads |-> IF ProcOf[t] = p THEN Idle ELSE call[t]]
  BY DEF Exit, Ends
<1>2. \A u \in Threads : ProcOf[u] = p => ~Signs(u)' /\ ~Handshaking(u)'
  BY <1>1 DEF Signs, Handshaking, Idle
<1>3. \A u \in Threads : call'[u] = IF ProcOf[u] = p THEN Idle ELSE call[u]
  BY <1>1
<1> QED
  BY <1>1, <1>2, <1>3, ResetKeeps

\* What a thread that waits in C_GenerateKeyPair needs of the connection: its state is
\* there, and what has arrived is a response.
ExchangeTypeOK ==
  \A t \in Threads : call[t].at = "gen_wait" =>
    /\ ~Uninitialized(ProcOf[t])
    /\ Arrived(state[ProcOf[t]].conn) => Response(state[ProcOf[t]].conn) \in Responses

\* No step of a careful application's provider loses the session that a C_Sign in
\* progress has checked, and none panics.
LEMMA SessionNext ==
  ASSUME Careful, ProviderTypeOK, ExchangeTypeOK, SessionInv, ProviderNext
  PROVE  SessionInv' /\ UNCHANGED panicked
<1>1. ASSUME NEW t \in Threads, Continues(t) PROVE SessionInv' /\ UNCHANGED panicked
  <2>1. CASE GenerateReply(t) \/ GenerateFails(t)
    <3>1. GenerateReply(t) => /\ ~Uninitialized(ProcOf[t])
                              /\ Response(state[ProcOf[t]].conn) \in Responses
      BY DEF ExchangeTypeOK, GenerateReply
    <3> QED
      BY <2>1, <3>1, GenerateSessions
  <2> QED
    BY <1>1, <2>1, StartSessions, ResetSessions, SignSessions, SignReplySessions, NeverPanics
    DEF Continues
<1>2. ASSUME NEW t \in Threads, NEW s \in Sessions, GenerateKeyPair(t, s)
      PROVE  SessionInv' /\ UNCHANGED panicked
  <2>1. call[t].at = "idle"
    BY <1>2 DEF GenerateKeyPair, AtOnce, Enters, Idle
  <2> QED
    BY <1>2, <2>1, GenerateSessions DEF GenerateReply
<1>3. ASSUME NEW t \in Threads, NEW s \in Sessions,
             \/ CloseSession(t, s) \/ Login(t, s) \/ FindObjectsFinal(t, s) \/ SignInit(t, s)
             \/ \E class \in Classes : FindObjectsInit(t, s, class)
             \/ \E room \in 0 .. 3 : FindObjects(t, s, room)
             \/ \E m \in AllMsgs, room \in Rooms : Sign(t, s, m, room)
      PROVE  SessionInv' /\ UNCHANGED panicked
  BY <1>3, SetSessions, LookSessions, SignSessions
<1>4. ASSUME NEW t \in Threads,
             \/ Initialize(t) \/ ConnectRefused(t) \/ Finalize(t) \/ OpenSession(t)
             \/ GetTokenInfo(t)
             \/ \E object \in ObjectHandles, template \in Templates :
                  GetAttributeValue(t, object, template)
      PROVE  SessionInv' /\ UNCHANGED panicked
  BY <1>4, StartSessions, LookSessions, ResetSessions, OpenSessions
<1> QED
  BY <1>1, <1>2, <1>3, <1>4, ExitSessions DEF ProviderNext

\* Nobody is anywhere at the start.
LEMMA SessionStart == ProviderInit => SessionInv
  BY ProviderAssumption DEF ProviderInit, SessionInv, ApartInv, SigningInv, StartInv, NumbersInv, Idle, Uses,
         Signs, Handshaking, Uninitialized

-----------------------------------------------------------------------------
(* MutexInv.                                                               *)

\* The provider's steps keep the STATE mutexes in order (with_state).
LEMMA MutexProvider ==
  ASSUME Typed, MutexInv, ProviderKinds
  PROVE  MutexInv'
<1> USE DEF MutexInv, InExchange
<1>0. /\ ProcOf \in [Threads -> Procs] /\ None \notin Threads
      /\ call \in [Threads -> Places] /\ holder \in [Procs -> Threads \cup {None}]
      /\ state \in [Procs -> ProviderState \cup {None}]
      /\ Idle.at = "idle"
  BY ProviderAssumption DEF Typed, ProviderTypeOK, Idle
<1>1. CASE Looks
  BY <1>0, <1>1 DEF Looks, SameCores
<1>2. ASSUME NEW t \in Threads, Turns(t) PROVE MutexInv'
  BY <1>0, <1>2 DEF Turns
<1>3. ASSUME NEW t \in Threads, Dials(t) PROVE MutexInv'
  BY <1>0, <1>3 DEF Dials
<1>4. ASSUME NEW t \in Threads, Sends(t) PROVE MutexInv'
  BY <1>0, <1>4 DEF Sends
<1>5. ASSUME NEW t \in Threads, Finishes(t) PROVE MutexInv'
  BY <1>0, <1>5 DEF Finishes, SameCores
<1>6. ASSUME NEW t \in Threads, InfoReply(t) \/ PublicKeyReply(t) \/ HandshakeFails(t)
      PROVE  MutexInv'
  BY <1>0, <1>6 DEF InfoReply, PublicKeyReply, HandshakeFails, Goes
<1>7. ASSUME NEW t \in Threads, Store(t) PROVE MutexInv'
  BY <1>0, <1>7 DEF Store, Goes, MutexFree
<1>8. ASSUME NEW t \in Threads, Finalize(t) PROVE MutexInv'
  BY <1>0, <1>8 DEF Finalize, MutexFree
<1>9. ASSUME NEW t \in Threads, GenerateReply(t) PROVE MutexInv'
  BY <1>0, <1>9 DEF GenerateReply, Goes, Release
<1>10. ASSUME NEW p \in Procs, Leaving(p) PROVE MutexInv'
  BY <1>0, <1>10 DEF Leaving
<1> QED
  BY <1>1, <1>2, <1>3, <1>4, <1>5, <1>6, <1>7, <1>8, <1>9, <1>10 DEF ProviderKinds, ThreadKinds

-----------------------------------------------------------------------------
(* What the operations on a connection do to its fields.                   *)

\* What write_frame by the host changes of a connection.
LEMMA SendFields ==
  ASSUME NEW ch \in Channels, NEW req \in Requests
  PROVE  /\ HostSends(ch, req).host = ch.host /\ HostSends(ch, req).dev = ch.dev
         /\ HostSends(ch, req).down = ch.down
         /\ ch.dev = "closed" => HostSends(ch, req).up = ch.up
         /\ ch.dev # "closed" => HostSends(ch, req).up = Append(ch.up, req)
<1>1. CASE ch.dev = "closed"
  BY <1>1 DEF HostSends
<1>2. CASE ch.dev # "closed"
  <2>1. HostSends(ch, req) = [ch EXCEPT !.up = Append(ch.up, req)]
    BY <1>2 DEF HostSends
  <2> QED
    BY <1>2, <2>1 DEF Channels
<1> QED
  BY <1>1, <1>2

\* A new connection carries the request written to it.
LEMMA DialledFields ==
  ASSUME NEW req \in Requests
  PROVE  HostSends(Dialled, req) = [host |-> TRUE, dev |-> "queued", up |-> <<req>>, down |-> <<>>]
<1>1. Append(<<>>, req) = <<req>>
  OBVIOUS
<1>2. HostSends(Dialled, req) = [Dialled EXCEPT !.up = Append(<<>>, req)]
  BY DEF HostSends, Dialled
<1>3. HostSends(Dialled, req) = [Dialled EXCEPT !.up = <<req>>]
  BY <1>1, <1>2
<1> QED
  BY <1>3 DEF Dialled

\* What read_frame by the host changes of a connection.
LEMMA ReadFields ==
  ASSUME NEW ch \in Channels
  PROVE  /\ HostReads(ch).host = ch.host /\ HostReads(ch).dev = ch.dev
         /\ HostReads(ch).up = ch.up /\ HostReads(ch).down = Tail(ch.down)
  BY DEF HostReads, Channels

\* What dropping the Connection changes: what the token has sent stays on a serial
\* port that is still there.
LEMMA CloseFields ==
  ASSUME NEW ch \in Channels
  PROVE  /\ HostCloses(ch).host = FALSE /\ HostCloses(ch).dev = ch.dev
         /\ HostCloses(ch).up = ch.up /\ HostCloses(ch).down \in {ch.down, <<>>}
         /\ ch.dev = "closed" => HostCloses(ch).down = <<>>
  BY DEF HostCloses, Channels

\* What opening the serial port changes.
LEMMA OpenFields ==
  ASSUME NEW ch \in Channels, NEW x \in Opened(ch)
  PROVE  /\ x \in Channels /\ x.host = TRUE /\ x.dev = ch.dev
         /\ x.up = ch.up /\ x.down \in {ch.down, <<>>}
<1>1. x \in Channels
  BY ChannelTypes
<1> QED
  BY <1>1 DEF Opened, Channels

\* What read_frame by the token changes of a connection.
LEMMA TokenReadFields ==
  ASSUME NEW ch \in Channels
  PROVE  /\ TokenReads(ch).host = ch.host /\ TokenReads(ch).dev = ch.dev
         /\ TokenReads(ch).up = Tail(ch.up) /\ TokenReads(ch).down = ch.down
  BY DEF TokenReads, Channels

\* What write_frame by the token changes of a connection.
LEMMA WriteFields ==
  ASSUME NEW ch \in Channels, NEW rsp \in Responses
  PROVE  /\ TokenWrites(ch, rsp).host = ch.host /\ TokenWrites(ch, rsp).dev = ch.dev
         /\ TokenWrites(ch, rsp).up = ch.up
         /\ TokenWrites(ch, rsp).down \in {ch.down, Append(ch.down, rsp)}
         /\ ch.host => TokenWrites(ch, rsp).down = Append(ch.down, rsp)
<1>1. CASE ch.host \/ Serial
  <2>1. TokenWrites(ch, rsp) = [ch EXCEPT !.down = Append(ch.down, rsp)]
    BY <1>1 DEF TokenWrites
  <2> QED
    BY <1>1, <2>1 DEF Channels
<1>2. CASE ~(ch.host \/ Serial)
  BY <1>2 DEF TokenWrites
<1> QED
  BY <1>1, <1>2

\* What the end of the server changes of a connection.
LEMMA DieFields ==
  ASSUME NEW ch \in Channels, NEW keep \in BOOLEAN
  PROVE  /\ TokenDies(ch, keep).host = ch.host /\ TokenDies(ch, keep).dev = "closed"
         /\ TokenDies(ch, keep).up = <<>>
         /\ TokenDies(ch, keep).down \in {ch.down, <<>>}
  BY DEF TokenDies, Channels

\* A step on one connection that leaves its host's end leaves every host's end.
LEMMA HostsKept ==
  ASSUME link \in [Conns -> Channels], NEW c \in Conns, NEW ch, ch.host = link[c].host,
         link' = [link EXCEPT ![c] = ch]
  PROVE  \A d \in Conns : link'[d].host = link[d].host
  OBVIOUS

\* The connection that c_initialize opens.
Fresh(t, c) ==
  /\ ~link[c].host /\ link'[c].host
  /\ \A d \in Conns : d # c => link'[d] = link[d]
  /\ call' = [call EXCEPT ![t] = [at |-> "get_info", conn |-> c]]
  /\ \/ /\ Serial /\ link[c].dev = "serving" /\ link'[c].dev = "serving" /\ UNCHANGED backlog
        /\ link[c].up = <<>> => link'[c].up = <<GetInfoReq>>
        /\ link'[c].down \in {link[c].down, <<>>}
     \/ /\ ~Serial /\ link[c].dev = "closed" /\ link'[c].dev = "queued"
        /\ backlog' = Append(backlog, c)
        /\ link'[c].up = <<GetInfoReq>> /\ link'[c].down = <<>>

\* device::connect and the first request take a connection that nobody has open.
LEMMA DialFields ==
  ASSUME Typed, NEW t \in Threads, Dials(t)
  PROVE  \E c \in Conns : Fresh(t, c)
<1>0. link \in [Conns -> Channels] /\ call \in [Threads -> Places]
  BY DEF Typed, LinkTypeOK, ProviderTypeOK
<1>1. PICK c \in Conns :
        /\ CanOpen(c)
        /\ \E ch \in IF Serial THEN Opened(link[c]) ELSE {Dialled} :
             link' = [link EXCEPT ![c] = HostSends(ch, GetInfoReq)]
        /\ backlog' = IF Serial THEN backlog ELSE Append(backlog, c)
        /\ call' = [call EXCEPT ![t] = [at |-> "get_info", conn |-> c]]
  BY DEF Dials
<1>2. PICK ch \in IF Serial THEN Opened(link[c]) ELSE {Dialled} :
        link' = [link EXCEPT ![c] = HostSends(ch, GetInfoReq)]
  BY <1>1
<1>3. link'[c] = HostSends(ch, GetInfoReq) /\ \A d \in Conns : d # c => link'[d] = link[d]
  BY <1>0, <1>1, <1>2
<1>4. ASSUME Serial PROVE Fresh(t, c)
  <2>1. ch \in Opened(link[c]) /\ link[c] \in Channels
    BY <1>0, <1>1, <1>2, <1>4
  <2>2. /\ ch \in Channels /\ ch.host = TRUE /\ ch.dev = link[c].dev
        /\ ch.up = link[c].up /\ ch.down \in {link[c].down, <<>>}
    BY <2>1, OpenFields
  <2>3. ~link[c].host /\ link[c].dev = "serving"
    BY <1>1, <1>4 DEF CanOpen
  <2>4. /\ link'[c].host /\ link'[c].dev = "serving" /\ link'[c].down = ch.down
        /\ link'[c].up = Append(link[c].up, GetInfoReq)
    BY <1>3, <2>2, <2>3, SendFields, RequestTypes
  <2>5. Append(<<>>, GetInfoReq) = <<GetInfoReq>>
    OBVIOUS
  <2> QED
    BY <1>1, <1>3, <1>4, <2>2, <2>3, <2>4, <2>5 DEF Fresh
<1>5. ASSUME ~Serial PROVE Fresh(t, c)
  <2>1. ch = Dialled /\ link[c] = Unused
    BY <1>1, <1>2, <1>5 DEF CanOpen
  <2>2. link'[c] = [host |-> TRUE, dev |-> "queued", up |-> <<GetInfoReq>>, down |-> <<>>]
    BY <1>3, <2>1, DialledFields, RequestTypes
  <2>3. ~link[c].host /\ link[c].dev = "closed"
    BY <2>1 DEF Unused
  <2>4. /\ link'[c].host = TRUE /\ link'[c].dev = "queued" /\ link'[c].up = <<GetInfoReq>>
        /\ link'[c].down = <<>>
    BY <2>2
  <2>5. backlog' = Append(backlog, c)
    BY <1>1, <1>5
  <2> QED
    BY <1>1, <1>3, <1>5, <2>3, <2>4, <2>5 DEF Fresh
<1> QED
  BY <1>4, <1>5

\* A process that ends closes the connections it has open, and no others.
LEMMA LeaveFields ==
  ASSUME Typed, MutexInv, NEW p \in Procs, Leaving(p), NEW d \in Conns
  PROVE  /\ d \notin Mine(p) => link'[d] = link[d]
         /\ d \in Mine(p) => ~link'[d].host
         /\ link'[d].dev = link[d].dev /\ link'[d].up = link[d].up
         /\ link[d].down = <<>> => link'[d].down = <<>>
<1>0. link \in [Conns -> Channels] /\ link[d] \in Channels
  BY DEF Typed, LinkTypeOK
<1>1. PICK last \in [Conns -> Channels] :
        /\ LastRead(p, last)
        /\ link' = [c \in Conns |-> IF c \in Mine(p) THEN HostCloses(last[c]) ELSE last[c]]
  BY DEF Leaving
<1>2. /\ last[d].dev = link[d].dev /\ last[d].up = link[d].up
      /\ link[d].down = <<>> => last[d].down = <<>>
      /\ d \notin Mine(p) => last[d] = link[d]
  <2>1. CASE last = link
    BY <2>1
  <2>2. ASSUME NEW t \in Threads, ProcOf[t] = p, InExchange(t), Arrived(state[p].conn),
               last = [link EXCEPT ![state[p].conn] = HostReads(@)]
        PROVE  /\ last[d].dev = link[d].dev /\ last[d].up = link[d].up
               /\ link[d].down = <<>> => last[d].down = <<>>
               /\ d \notin Mine(p) => last[d] = link[d]
    <3>1. state[p] # None /\ state[p].conn \in Conns
      BY <2>2, ExchangeFields DEF Uninitialized
    <3>2. CASE d # state[p].conn
      BY <1>0, <2>2, <3>2
    <3>3. CASE d = state[p].conn
      <4>1. last[d] = HostReads(link[d]) /\ link[d].down # <<>> /\ d \in Mine(p)
        BY <1>0, <2>2, <3>1, <3>3 DEF Arrived, Mine
      <4> QED
        BY <1>0, <4>1, ReadFields
    <3> QED
      BY <3>2, <3>3
  <2> QED
    BY <1>1, <2>1, <2>2 DEF LastRead
<1>3. last[d] \in Channels
  OBVIOUS
<1>4. link'[d] = IF d \in Mine(p) THEN HostCloses(last[d]) ELSE last[d]
  BY <1>1
<1> QED
  BY <1>2, <1>3, <1>4, CloseFields

-----------------------------------------------------------------------------
(* OwnerInv.                                                               *)

\* The provider's steps keep one owner per connection.
LEMMA OwnerProvider ==
  ASSUME Typed, MutexInv, OwnerInv, ProviderKinds
  PROVE  OwnerInv'
<1> USE DEF OwnerInv, Handshaking
<1>0. /\ ProcOf \in [Threads -> Procs]
      /\ call \in [Threads -> Places] /\ holder \in [Procs -> Threads \cup {None}]
      /\ state \in [Procs -> ProviderState \cup {None}] /\ link \in [Conns -> Channels]
      /\ \A p \in Procs : state[p] # None => state[p].conn \in Conns
      /\ \A t \in Threads : Handshaking(t) => call[t].conn \in Conns
      /\ Idle.at = "idle"
  BY ProviderAssumption, PlaceFields
     DEF Typed, LinkTypeOK, ProviderTypeOK, ProviderState, Idle
<1>1. CASE Looks
  BY <1>0, <1>1 DEF Looks, SameCores, linkVars
<1>2. ASSUME NEW t \in Threads, Turns(t) PROVE OwnerInv'
  BY <1>0, <1>2 DEF Turns, linkVars
<1>3. ASSUME NEW t \in Threads, Dials(t) PROVE OwnerInv'
  <2>1. PICK c \in Conns : Fresh(t, c)
    BY <1>3, DialFields
  <2>2. UNCHANGED state
    BY <1>3 DEF Dials
  <2> QED
    BY <1>0, <2>1, <2>2 DEF Fresh
<1>4. ASSUME NEW t \in Threads, Sends(t) PROVE OwnerInv'
  <2> DEFINE c == state[ProcOf[t]].conn
  <2>1. PICK place \in Places, req \in Requests :
          /\ place.at \in {"sign_wait", "gen_wait"} /\ call' = [call EXCEPT ![t] = place]
          /\ link' = [link EXCEPT ![c] = HostSends(@, req)]
    BY <1>4 DEF Sends
  <2>2. c \in Conns
    BY <1>0, <1>4 DEF Sends
  <2>3. \A d \in Conns : link'[d].host = link[d].host
    BY <1>0, <2>1, <2>2, SendFields, HostsKept
  <2> QED
    BY <1>0, <1>4, <2>1, <2>2, <2>3 DEF Sends
<1>5. ASSUME NEW t \in Threads, Finishes(t) PROVE OwnerInv'
  <2>1. \A d \in Conns : link'[d].host = link[d].host
    <3>1. state[ProcOf[t]].conn \in Conns
      BY <1>5, ExchangeFields DEF Finishes
    <3> QED
      BY <1>0, <1>5, <3>1, ReadFields, HostsKept DEF Finishes, TakeFrom
  <2> QED
    BY <1>0, <1>5, <2>1 DEF Finishes, SameCores
<1>6. ASSUME NEW t \in Threads, InfoReply(t) PROVE OwnerInv'
  <2> DEFINE c == call[t].conn
  <2>1. c \in Conns /\ link[c] \in Channels /\ HostReads(link[c]) \in Channels
    BY <1>0, <1>6, ChannelTypes DEF InfoReply, Arrived
  <2>2. link' = [link EXCEPT ![c] = HostSends(HostReads(@), GetPublicKeyReq)]
    BY <1>6 DEF InfoReply
  <2>3. \A d \in Conns : link'[d].host = link[d].host
    BY <1>0, <2>1, <2>2, ReadFields, SendFields, RequestTypes, HostsKept
  <2>4. call'[t].at = "get_public_key" /\ call'[t].conn = c
        /\ \A u \in Threads : u # t => call'[u] = call[u]
    BY <1>0, <1>6 DEF InfoReply, Goes
  <2> QED
    BY <1>0, <1>6, <2>3, <2>4, SMTT(60) DEF InfoReply
<1>7. ASSUME NEW t \in Threads, PublicKeyReply(t) PROVE OwnerInv'
  <2> DEFINE c == call[t].conn
  <2>1. c \in Conns /\ link' = [link EXCEPT ![c] = HostReads(@)]
    BY <1>0, <1>7 DEF PublicKeyReply, TakeFrom
  <2>2. \A d \in Conns : link'[d].host = link[d].host
    BY <1>0, <2>1, ReadFields, HostsKept
  <2>3. call'[t].at = "store" /\ call'[t].conn = c
        /\ \A u \in Threads : u # t => call'[u] = call[u]
    BY <1>0, <1>7 DEF PublicKeyReply, Goes
  <2> QED
    BY <1>0, <1>7, <2>2, <2>3, SMTT(60) DEF PublicKeyReply
<1>8. ASSUME NEW t \in Threads, HandshakeFails(t) PROVE OwnerInv'
  <2> DEFINE c == call[t].conn
  <2>1. \A d \in Conns : d # c => link'[d] = link[d]
    BY <1>0, <1>8 DEF HandshakeFails
  <2>2. call' = [call EXCEPT ![t] = Idle] /\ UNCHANGED state /\ Handshaking(t)
    BY <1>8 DEF HandshakeFails, Goes
  <2> QED
    BY <1>0, <2>1, <2>2
<1>9. ASSUME NEW t \in Threads, Store(t) PROVE OwnerInv'
  <2> DEFINE p == ProcOf[t]
             c == call[t].conn
  <2>1. state' = [state EXCEPT ![p] = NewState(c, call[t].param, call[t].pk)]
        /\ call' = [call EXCEPT ![t] = Idle] /\ Handshaking(t) /\ c \in Conns
    BY <1>0, <1>9 DEF Store, Goes
  <2>2. state'[p].conn = c
    BY <1>0, <2>1 DEF NewState
  <2>3. \A d \in Conns : (state[p] = None \/ d # state[p].conn) => link'[d] = link[d]
    BY <1>0, <1>9 DEF Store, DropState, Uninitialized
  <2> QED
    BY <1>0, <2>1, <2>2, <2>3
<1>10. ASSUME NEW t \in Threads, Finalize(t) PROVE OwnerInv'
  <2> DEFINE p == ProcOf[t]
  <2>1. state' = [state EXCEPT ![p] = None] /\ UNCHANGED call
    BY <1>10 DEF Finalize
  <2>2. \A d \in Conns : (state[p] = None \/ d # state[p].conn) => link'[d] = link[d]
    BY <1>0, <1>10 DEF Finalize, DropState, Uninitialized
  <2> QED
    BY <1>0, <2>1, <2>2
<1>11. ASSUME NEW t \in Threads, GenerateReply(t) PROVE OwnerInv'
  <2> DEFINE p == ProcOf[t]
             c == state[p].conn
  <2>1. /\ state' = [state EXCEPT ![p] = [@ EXCEPT !.pk = Response(c).body]]
        /\ call' = [call EXCEPT ![t] = Idle] /\ link' = [link EXCEPT ![c] = HostReads(@)]
    BY <1>11 DEF GenerateReply, Goes, TakeFrom
  <2>2. state[p] # None /\ state[p] \in ProviderState
    BY <1>0, <1>11, ExchangeFields, StateFields DEF GenerateReply, InExchange, Uninitialized
  <2>3. state'[p].conn = c
    BY <1>0, <2>1, <2>2 DEF ProviderState
  <2>4. \A d \in Conns : link'[d].host = link[d].host
    BY <1>0, <2>1, <2>2, ReadFields, HostsKept
  <2> QED
    BY <1>0, <2>1, <2>2, <2>3, <2>4, SMTT(60)
<1>12. ASSUME NEW p \in Procs, Leaving(p) PROVE OwnerInv'
  <2>1. \A d \in Conns : d \notin Mine(p) => link'[d] = link[d]
    BY <1>12, LeaveFields
  <2>2. \A q \in Procs : state'[q] # None => q # p /\ state'[q] = state[q]
    BY <1>0, <1>12 DEF Leaving
  <2>3. \A t \in Threads : Handshaking(t)' => ProcOf[t] # p /\ call'[t] = call[t]
    BY <1>0, <1>12 DEF Leaving
  <2>4. \A q \in Procs : state'[q] # None => state[q].conn \notin Mine(p)
    BY <1>0, <2>2 DEF Mine
  <2>5. \A t \in Threads : Handshaking(t)' => call[t].conn \notin Mine(p)
    BY <1>0, <2>3 DEF Mine
  <2> QED
    BY <1>0, <2>1, <2>2, <2>3, <2>4, <2>5
<1> QED
  BY <1>1, <1>2, <1>3, <1>4, <1>5, <1>6, <1>7, <1>8, <1>9, <1>10, <1>11, <1>12
     DEF ProviderKinds, ThreadKinds

-----------------------------------------------------------------------------
(* ServerInv.                                                              *)

\* What no step of a provider but the dialling of a connection changes.
KeepsServer ==
  /\ UNCHANGED <<backlog, listening>>
  /\ \A d \in Conns : /\ link'[d].dev = link[d].dev
                      /\ link[d].dev = "closed" => link'[d].up = link[d].up
                      /\ link[d].down = <<>> => link'[d].down = <<>>

\* A step on one connection that leaves the token's end alone leaves the server's
\* view alone.
LEMMA OneLinkKeepsServer ==
  ASSUME link \in [Conns -> Channels], NEW c \in Conns, NEW ch, link' = [link EXCEPT ![c] = ch],
         ch.dev = link[c].dev, link[c].dev = "closed" => ch.up = link[c].up,
         link[c].down = <<>> => ch.down = <<>>, UNCHANGED <<backlog, listening>>
  PROVE  KeepsServer
  BY DEF KeepsServer

\* The provider leaves the server's view alone, unless it connects.
LEMMA ProviderKeepsServer ==
  ASSUME Typed, MutexInv, ProviderKinds
  PROVE  KeepsServer \/ \E t \in Threads : Dials(t)
<1>0. /\ ProcOf \in [Threads -> Procs]
      /\ link \in [Conns -> Channels]
      /\ \A p \in Procs : state[p] # None => state[p].conn \in Conns
      /\ \A t \in Threads : Handshaking(t) => call[t].conn \in Conns
  BY ProviderAssumption, PlaceFields
     DEF Typed, LinkTypeOK, ProviderTypeOK, ProviderState, Handshaking
<1>1. ASSUME UNCHANGED link, UNCHANGED <<backlog, listening>> PROVE KeepsServer
  BY <1>1 DEF KeepsServer
<1>2. ASSUME NEW t \in Threads, Sends(t) PROVE KeepsServer
  <2> DEFINE c == state[ProcOf[t]].conn
  <2>1. PICK req \in Requests : link' = [link EXCEPT ![c] = HostSends(@, req)]
    BY <1>2 DEF Sends
  <2>2. c \in Conns /\ UNCHANGED <<backlog, listening>>
    BY <1>0, <1>2 DEF Sends
  <2> QED
    BY <1>0, <2>1, <2>2, SendFields, OneLinkKeepsServer, ZenonT(30)
<1>3. ASSUME NEW c \in Conns, link[c].down # <<>>, link' = [link EXCEPT ![c] = HostReads(@)],
             UNCHANGED <<backlog, listening>>
      PROVE  KeepsServer
  BY <1>0, <1>3, ReadFields, OneLinkKeepsServer
<1>4. ASSUME NEW t \in Threads, Finishes(t) PROVE KeepsServer
  <2>1. state[ProcOf[t]].conn \in Conns
    BY <1>4, ExchangeFields DEF Finishes
  <2>2. UNCHANGED <<backlog, listening>>
    BY <1>4 DEF Finishes
  <2>3. \/ UNCHANGED link
        \/ LET c == state[ProcOf[t]].conn IN
           link[c].down # <<>> /\ link' = [link EXCEPT ![c] = HostReads(@)]
    BY <1>4 DEF Finishes, TakeFrom, Arrived
  <2> QED
    BY <1>1, <1>3, <2>1, <2>2, <2>3
<1>5. ASSUME NEW t \in Threads, InfoReply(t) PROVE KeepsServer
  <2> DEFINE c == call[t].conn
  <2>1. c \in Conns /\ link[c].down # <<>>
    BY <1>0, <1>5 DEF InfoReply, Arrived, Handshaking
  <2>2. HostReads(link[c]) \in Channels /\ link[c] \in Channels
    BY <1>0, <2>1, ChannelTypes
  <2>3. link' = [link EXCEPT ![c] = HostSends(HostReads(@), GetPublicKeyReq)]
        /\ UNCHANGED <<backlog, listening>>
    BY <1>5 DEF InfoReply
  <2>4. /\ HostSends(HostReads(link[c]), GetPublicKeyReq).dev = link[c].dev
        /\ link[c].dev = "closed" =>
             HostSends(HostReads(link[c]), GetPublicKeyReq).up = link[c].up
    BY <2>2, ReadFields, SendFields, RequestTypes
  <2> QED
    BY <1>0, <2>1, <2>3, <2>4, OneLinkKeepsServer
<1>6. ASSUME NEW t \in Threads, PublicKeyReply(t) PROVE KeepsServer
  BY <1>0, <1>3, <1>6 DEF PublicKeyReply, TakeFrom, Arrived, Handshaking
<1>7. ASSUME NEW t \in Threads, HandshakeFails(t) PROVE KeepsServer
  <2> DEFINE c == call[t].conn
             read == IF Arrived(c) THEN HostReads(link[c]) ELSE link[c]
  <2>1. c \in Conns /\ link[c] \in Channels
    BY <1>0, <1>7 DEF HandshakeFails, Handshaking
  <2>2. read \in Channels /\ read.dev = link[c].dev /\ read.up = link[c].up
    BY <2>1, ChannelTypes, ReadFields DEF Arrived
  <2>3. link' = [link EXCEPT ![c] = HostCloses(read)] /\ UNCHANGED <<backlog, listening>>
    BY <1>7 DEF HandshakeFails
  <2> HIDE DEF read
  <2> QED
    <3>1. link[c].down = <<>> => HostCloses(read).down = <<>>
      BY <2>2, CloseFields DEF read, Arrived
    <3> QED
      BY <1>0, <2>1, <2>2, <2>3, <3>1, CloseFields, OneLinkKeepsServer
<1>8. ASSUME NEW t \in Threads, Store(t) \/ Finalize(t) PROVE KeepsServer
  <2> DEFINE p == ProcOf[t]
             c == state[p].conn
  <2>1. DropState(p) /\ UNCHANGED <<backlog, listening>>
    BY <1>8 DEF Store, Finalize
  <2>2. CASE state[p] = None
    <3>1. UNCHANGED link
      BY <2>1, <2>2 DEF DropState, Uninitialized
    <3> QED
      BY <1>1, <2>1, <3>1
  <2>3. CASE state[p] # None
    <3>1. c \in Conns /\ link' = [link EXCEPT ![c] = HostCloses(@)]
      BY <1>0, <2>1, <2>3 DEF DropState, Uninitialized
    <3> QED
      BY <1>0, <2>1, <3>1, CloseFields, OneLinkKeepsServer
  <2> QED
    BY <2>2, <2>3
<1>9. ASSUME NEW t \in Threads, GenerateReply(t) PROVE KeepsServer
  <2>1. state[ProcOf[t]].conn \in Conns
    BY <1>9, ExchangeFields DEF GenerateReply, InExchange
  <2> QED
    BY <1>3, <1>9, <2>1 DEF GenerateReply, TakeFrom, Arrived
<1>10. ASSUME NEW p \in Procs, Leaving(p) PROVE KeepsServer
  <2>1. UNCHANGED <<backlog, listening>>
    BY <1>10 DEF Leaving
  <2> QED
    BY <1>10, <2>1, LeaveFields DEF KeepsServer
<1> QED
  BY <1>1, <1>2, <1>4, <1>5, <1>6, <1>7, <1>8, <1>9, <1>10
     DEF ProviderKinds, ThreadKinds, Looks, Turns, linkVars

\* The provider's steps keep the server's invariant.
LEMMA ServerProvider ==
  ASSUME Typed, MutexInv, ServerInv, ProviderKinds, UNCHANGED backend
  PROVE  ServerInv'
<1> USE DEF ServerInv, Serving
<1>0. link \in [Conns -> Channels] /\ backlog \in Seq(Conns)
  BY DEF Typed, LinkTypeOK
<1>1. CASE KeepsServer
  <2>1. \A i \in 1 .. Len(backlog) : backlog[i] \in Conns
    BY <1>0
  <2> QED
    BY <1>1, <2>1 DEF KeepsServer
<1>2. ASSUME NEW t \in Threads, Dials(t) PROVE ServerInv'
  <2>1. PICK c \in Conns : Fresh(t, c)
    BY <1>2, DialFields
  <2>3. backend' # None /\ listening' = listening
    BY <1>2 DEF Dials
  <2>0. CASE Serial
    <3>1. /\ UNCHANGED backlog
          /\ \A d \in Conns : link'[d].dev = link[d].dev /\ (d # c => link'[d] = link[d])
          /\ link[c].dev = "serving"
      BY <2>0, <2>1 DEF Fresh
    <3>2. \A i \in 1 .. Len(backlog) : backlog[i] \in Conns
      BY <1>0
    <3> QED
      BY <2>3, <3>1, <3>2
  <2>2. CASE ~Serial
   <3>2. /\ link[c].dev = "closed" /\ link'[c].dev = "queued" /\ link'[c].down = <<>>
         /\ backlog' = Append(backlog, c)
         /\ \A d \in Conns : d # c => link'[d] = link[d]
     BY <2>1, <2>2 DEF Fresh
   <3>4. /\ Len(backlog') = Len(backlog) + 1 /\ Len(backlog) \in Nat
         /\ backlog'[Len(backlog) + 1] = c
         /\ \A i \in 1 .. Len(backlog) : backlog'[i] = backlog[i] /\ backlog[i] \in Conns
     BY <1>0, <3>2
   <3>5. \A i \in 1 .. Len(backlog) : backlog[i] # c
     BY <3>2
   <3>6. \A i \in 1 .. Len(backlog') : link'[backlog'[i]].dev = "queued"
     BY <3>2, <3>4, <3>5
   <3>7. \A i, j \in 1 .. Len(backlog') : backlog'[i] = backlog'[j] => i = j
     BY <3>4, <3>5
   <3> QED
     BY <3>2, <2>3, <3>6, <3>7
  <2> QED
    BY <2>0, <2>2
<1> QED
  BY <1>1, <1>2, ProviderKeepsServer

\* What a token's answer says, and what becomes of the key.
LEMMA DispatchSays ==
  ASSUME NEW req \in Requests, NEW be \in Backends, be.signing = be.public,
         ResponseBufLen >= 64,
         NEW o \in dispatch(req, be)
  PROVE  /\ o.be.signing = o.be.public /\ o.be.param = be.param
         /\ req.cmd # "GenerateKeypair" \/ o.rsp.status # "Ok" => o.be = be
         /\ o.rsp.status = "Ok" =>
              /\ req.cmd = "GetInfo" => o.rsp.body = InfoBytes(be.param)
              /\ req.cmd = "GetPublicKey" => o.rsp.body = KeyBytes(be.param, be.signing)
              /\ req.cmd = "Sign" => o.rsp.body = SigBytes(be.param, be.signing, req.msg)
              /\ req.cmd = "GenerateKeypair" => o.rsp.body = KeyBytes(be.param, o.be.signing)
<1>0. be.param \in ParamSets /\ be.signing \in Keys /\ be.public \in Keys
  BY DEF Backends
<1>1. /\ InfoBytes(be.param) \in Payloads /\ KeyBytes(be.param, be.public) \in Payloads
      /\ ListBytes \in Payloads
  BY <1>0, PayloadTypes DEF Payloads, PublicKeys
<1>2. ASSUME NEW b \in Payloads, NEW a, a = WithHandle(req, Fitted(b, be), be) \/ a = Fitted(b, be)
      PROVE  a.be = be /\ (a.rsp.status = "Ok" => a.rsp.body = b)
  BY <1>2, FittedType DEF WithHandle, Answer
<1>3. CASE req.cmd = "GetInfo"
  BY <1>1, <1>2, <1>3 DEF dispatch
<1>4. CASE req.cmd = "ListObjects"
  BY <1>1, <1>2, <1>4 DEF dispatch
<1>5. CASE req.cmd = "GetPublicKey"
  <2>1. o = WithHandle(req, Fitted(KeyBytes(be.param, be.public), be), be)
    BY <1>5 DEF dispatch
  <2> QED
    BY <1>1, <1>2, <1>5, <2>1
<1>6. CASE req.cmd = "Sign"
  <2>1. o = WithHandle(req, sign(be, req.msg), be)
    BY <1>6 DEF dispatch
  <2>2. sign(be, req.msg).be = be
        /\ (sign(be, req.msg).rsp.status = "Ok" =>
              sign(be, req.msg).rsp.body = SigBytes(be.param, be.signing, req.msg))
    BY DEF sign, Answer
  <2>3. o.be = be /\ (o.rsp.status = "Ok" => o.rsp.body = SigBytes(be.param, be.signing, req.msg))
    BY <2>1, <2>2 DEF WithHandle, Answer
  <2> QED
    BY <1>6, <2>3
<1>7. CASE req.cmd = "GenerateKeypair"
  <2>1. o \in generate_keypair(be)
    BY <1>7 DEF dispatch
  <2>2. CASE o = Answer("NotImplemented", NoBytes, be)
    BY <1>7, <2>2 DEF Answer
  <2>3. ASSUME NEW k \in Keys,
               o = Fitted(KeyBytes(be.param, k), [be EXCEPT !.signing = k, !.public = k])
        PROVE  /\ o.rsp.status = "Ok" /\ o.rsp.body = KeyBytes(be.param, k)
               /\ o.be = [be EXCEPT !.signing = k, !.public = k]
    <3>1. ByteLen(KeyBytes(be.param, k)) <= ResponseBufLen
      <4>1. ByteLen(KeyBytes(be.param, k)) = public_key_len[be.param]
        BY DEF ByteLen, KeyBytes
      <4>2. public_key_len[be.param] \in {32, 48, 64}
        BY <1>0 DEF public_key_len, ParamSets
      <4> QED
        BY <4>1, <4>2, TokenAssumption
    <3> QED
      BY <2>3, <3>1 DEF Fitted, Answer
  <2>4. ASSUME NEW k \in Keys, o.be = [be EXCEPT !.signing = k, !.public = k]
        PROVE  o.be.signing = k /\ o.be.public = k /\ o.be.param = be.param
    BY <2>4 DEF Backends
  <2> QED
    BY <1>7, <2>1, <2>2, <2>3, <2>4 DEF generate_keypair
<1>8. CASE req.cmd \in {"DeleteObject", "Unknown"}
  BY <1>8 DEF dispatch, Answer
<1> QED
  BY <1>3, <1>4, <1>5, <1>6, <1>7, <1>8 DEF Requests, Command

\* What a turn of the token's loop does.
LEMMA TurnFields ==
  ASSUME Typed, NEW c \in Conns, TakesTurn(c)
  PROVE  /\ backend \in Backends /\ link[c] \in Channels /\ link[c].up # <<>>
         /\ Head(link[c].up) \in Requests /\ TokenReads(link[c]) \in Channels
         /\ Serving(c) /\ UNCHANGED <<backlog, listening>> /\ backend' \in Backends
         /\ \A d \in Conns : d # c => link'[d] = link[d]
         /\ link'[c] \in Channels /\ link'[c].dev = "serving" /\ link'[c].host = link[c].host
         /\ link'[c].up = Tail(link[c].up)
         /\ \/ link'[c].down = link[c].down /\ UNCHANGED backend
            \/ \E o \in dispatch(Head(link[c].up), backend) :
                 /\ backend' = o.be /\ o.rsp \in Responses
                 /\ link'[c].down \in {link[c].down, Append(link[c].down, o.rsp)}
                 /\ link[c].host => link'[c].down = Append(link[c].down, o.rsp)
<1>0. /\ link \in [Conns -> Channels] /\ link[c] \in Channels
      /\ link[c].dev = "serving" /\ link[c].up # <<>> /\ backend \in Backends
      /\ Head(link[c].up) \in Requests /\ TokenReads(link[c]) \in Channels
      /\ UNCHANGED <<backlog, listening>>
  BY ChannelTypes DEF TakesTurn, Typed, LinkTypeOK
<1>1. CASE link' = [link EXCEPT ![c] = TokenReads(@)] /\ UNCHANGED backend
  <2>1. link'[c] = TokenReads(link[c]) /\ \A d \in Conns : d # c => link'[d] = link[d]
    BY <1>0, <1>1
  <2> QED
    BY <1>0, <1>1, <2>1, TokenReadFields DEF Serving
<1>2. ASSUME NEW o \in dispatch(Head(link[c].up), backend), backend' = o.be,
             link' = [link EXCEPT ![c] = TokenWrites(TokenReads(@), o.rsp)]
      PROVE  /\ o.rsp \in Responses /\ backend' \in Backends
             /\ \A d \in Conns : d # c => link'[d] = link[d]
             /\ link'[c] \in Channels /\ link'[c].dev = "serving" /\ link'[c].host = link[c].host
             /\ link'[c].up = Tail(link[c].up)
             /\ link'[c].down \in {link[c].down, Append(link[c].down, o.rsp)}
             /\ link[c].host => link'[c].down = Append(link[c].down, o.rsp)
  <2>1. o.rsp \in Responses /\ o.be \in Backends
    BY <1>0, DispatchType
  <2>2. link'[c] = TokenWrites(TokenReads(link[c]), o.rsp)
        /\ \A d \in Conns : d # c => link'[d] = link[d]
    BY <1>0, <1>2
  <2>3. TokenWrites(TokenReads(link[c]), o.rsp) \in Channels
    BY <1>0, <2>1, ChannelTypes
  <2> QED
    BY <1>0, <1>2, <2>1, <2>2, <2>3, TokenReadFields, WriteFields
<1> QED
  BY <1>0, <1>1, <1>2 DEF TakesTurn, Serving

\* A turn keeps the server's invariant.
LEMMA ServerTurn ==
  ASSUME Typed, ServerInv, ResponseBufLen >= 64, NEW c \in Conns, TakesTurn(c)
  PROVE  ServerInv'
<1> USE DEF ServerInv, Serving
<1>0. /\ link \in [Conns -> Channels] /\ backlog \in Seq(Conns)
      /\ backend \in Backends /\ backend' \in Backends /\ Head(link[c].up) \in Requests
      /\ \A d \in Conns : link'[d].dev = link[d].dev /\ (d # c => link'[d] = link[d])
      /\ link[c].dev = "serving" /\ UNCHANGED <<backlog, listening>>
  BY TurnFields DEF Typed, LinkTypeOK
<1>1. backend' # None /\ backend # None
  BY <1>0, NoneIsNoBackend
<1>2. backend'.signing = backend'.public
  BY <1>0, <1>1, TurnFields, DispatchSays
<1>3. \A i \in 1 .. Len(backlog) : backlog[i] \in Conns
  BY <1>0
<1> QED
  BY <1>0, <1>1, <1>2, <1>3

-----------------------------------------------------------------------------
(* What a step leaves alone.                                               *)

Placed(t) == Handshaking(t) \/ InExchange(t)

\* A step at most takes frames away from connection c, and the server does not
\* begin to serve it between an answer and its reader.
Steady(c) ==
  /\ link'[c].up \in {link[c].up, <<>>} /\ link'[c].down \in {link[c].down, <<>>}
  /\ link'[c].dev = "queued" => link[c].dev = "queued"
  /\ link'[c].dev = "serving" =>
       /\ UNCHANGED backend /\ link'[c].down = link[c].down
       /\ Serving(c) \/ (link[c].dev = "queued" /\ link[c].down = <<>>)

SameCore(p) ==
  /\ state[p] # None /\ state'[p] # None
  /\ state'[p].conn = state[p].conn /\ state'[p].param = state[p].param
  /\ state'[p].pk = state[p].pk

\* A connection that does not change is steady while the backend does not.
LEMMA SameIsSteady ==
  ASSUME NEW c, link'[c] = link[c], UNCHANGED backend
  PROVE  Steady(c)
  BY DEF Steady, Serving

\* Threads in an exchange or a handshake, and the STATEs of others, are on different
\* connections.
LEMMA ConnsApart ==
  ASSUME Typed, MutexInv, OwnerInv, NEW t \in Threads
  PROVE  /\ Placed(t) => ConnOf(t) \in Conns /\ link[ConnOf(t)].host
         /\ \A u \in Threads : Placed(t) /\ Placed(u) /\ u # t => ConnOf(u) # ConnOf(t)
         /\ \A p \in Procs : Placed(t) /\ state[p] # None /\ (InExchange(t) => p # ProcOf[t])
              => state[p].conn # ConnOf(t)
<1>0. /\ ProcOf \in [Threads -> Procs] /\ None \notin Threads
      /\ call \in [Threads -> Places]
      /\ \A p \in Procs : state[p] # None => state[p].conn \in Conns
  BY ProviderAssumption DEF Typed, ProviderTypeOK, ProviderState
<1>1. \A u \in Threads : Handshaking(u) => call[u].conn \in Conns /\ ~InExchange(u)
  BY <1>0, PlaceFields DEF Handshaking, InExchange
<1>2. \A u \in Threads : InExchange(u) => holder[ProcOf[u]] = u /\ state[ProcOf[u]] # None
  BY <1>0 DEF MutexInv
<1> QED
  BY <1>0, <1>1, <1>2 DEF OwnerInv, Placed, ConnOf

\* Where a thread is that has a connection of its own.
LEMMA PlacedIs ==
  ASSUME NEW t
  PROVE  Placed(t) <=> call[t].at \in {"get_info", "get_public_key", "store", "sign_wait", "gen_wait"}
  BY DEF Placed, Handshaking, InExchange

\* Nothing is claimed of a thread without a connection.
LEMMA UnplacedThread ==
  ASSUME NEW t, ~Placed(t)'
  PROVE  Waits(t)' /\ Learns(t)'
  BY DEF Waits, Learns, AwaitingToken, Placed, Handshaking, InExchange

\* What holds of a thread goes on while its connection is steady.
LEMMA ThreadStable ==
  ASSUME ServerInv, NEW t, Waits(t), Learns(t), call'[t] = call[t],
         InExchange(t) => SameCore(ProcOf[t]),
         Placed(t) => Steady(ConnOf(t)) /\ ConnOf(t) \in Conns
  PROVE  Waits(t)' /\ Learns(t)'
<1>1. CASE ~Placed(t)
  <2>1. ~Placed(t)'
    BY <1>1 DEF Placed, Handshaking, InExchange
  <2> QED
    BY <2>1, UnplacedThread
<1>2. CASE Placed(t)
  <2> DEFINE c == ConnOf(t)
  <2>1. ConnOf(t)' = c /\ Asked(t)' = Asked(t) /\ AwaitingToken(t)' = AwaitingToken(t)
    BY <1>2 DEF ConnOf, Asked, AwaitingToken, SameCore, Placed, Handshaking, InExchange,
                SignReq, GenerateReq, GetInfoReq, GetPublicKeyReq
  <2>2. Steady(c) /\ c \in Conns
    BY <1>2
  <2>3. ASSUME NEW rsp, Answers(t, rsp), link'[c].down = <<rsp>>
        PROVE  Answers(t, rsp)'
    <3>1. link'[c].dev = "serving" => Serving(c) /\ UNCHANGED backend
      BY <2>2, <2>3 DEF Steady
    <3>2. link'[c].dev = "serving" => /\ TokenKey' = TokenKey
                                     /\ InfoBytes(backend.param)' = InfoBytes(backend.param)
      BY <3>1 DEF TokenKey
    <3>3. InExchange(t) => state'[ProcOf[t]].pk = state[ProcOf[t]].pk
                           /\ state'[ProcOf[t]].param = state[ProcOf[t]].param
      BY DEF SameCore
    <3>4. Serving(ConnOf(t))' => link'[c].dev = "serving"
      BY <2>1 DEF Serving
    <3> QED
      BY <2>1, <2>3, <3>1, <3>2, <3>3, <3>4 DEF Answers, InExchange
  <2>4. Waits(t)'
    <3> SUFFICES ASSUME AwaitingToken(t)'
                 PROVE  /\ link'[c].up = <<>> \/ (link'[c].up = <<Asked(t)>> /\ link'[c].down = <<>>)
                        /\ \/ link'[c].down = <<>>
                           \/ \E rsp \in Responses : link'[c].down = <<rsp>> /\ Answers(t, rsp)'
      BY <2>1 DEF Waits
    <3>1. /\ link[c].up = <<>> \/ (link[c].up = <<Asked(t)>> /\ link[c].down = <<>>)
          /\ \/ link[c].down = <<>>
             \/ \E rsp \in Responses : link[c].down = <<rsp>> /\ Answers(t, rsp)
      BY <2>1 DEF Waits
    <3>2. link'[c].up \in {link[c].up, <<>>} /\ link'[c].down \in {link[c].down, <<>>}
      BY <2>2 DEF Steady
    <3> HIDE DEF c
    <3> QED
      BY <2>3, <3>1, <3>2
  <2>5. Learns(t)'
    <3>1. ASSUME call[t].at \in {"store", "get_public_key"}
          PROVE  c = call[t].conn
      BY <3>1 DEF ConnOf, Handshaking
    <3>2. ASSUME link[c].dev # "queued", link'[c].dev = "serving"
          PROVE  Serving(c) /\ UNCHANGED backend /\ TokenKey' = TokenKey
      BY <2>2, <3>2 DEF Steady, TokenKey
    <3>3. link'[c].dev = "queued" => link[c].dev = "queued"
      BY <2>2 DEF Steady
    <3>4. Quiet(link[c]) => Quiet(link'[c])
      BY <2>2 DEF Steady, Quiet
    <3> HIDE DEF c
    <3> QED
      BY <3>1, <3>2, <3>3, <3>4 DEF Learns, Serving
  <2> QED
    BY <2>4, <2>5
<1> QED
  BY <1>1, <1>2

\* What holds of a STATE goes on while its connection is steady.
LEMMA ProcStable ==
  ASSUME NEW p, Caches(p), SameCore(p), Steady(state[p].conn),
         holder'[p] = holder[p],
         holder[p] # None => call'[holder[p]] = call[holder[p]]
  PROVE  Caches(p)'
<1> DEFINE c == state[p].conn
<1>1. /\ state'[p].conn = c /\ state'[p] # None /\ state[p] # None
      /\ state'[p].param = state[p].param /\ state'[p].pk = state[p].pk
  BY DEF SameCore
<1>2. /\ link[c].dev # "queued"
      /\ holder[p] = None => Quiet(link[c])
      /\ Serving(c) /\ ~NewKeyUnderWay(p) => state[p].pk = TokenKey
      /\ state[p].pk \in PublicKeys /\ state[p].pk.param = state[p].param
  BY <1>1 DEF Caches
<1>3. link'[c].dev # "queued" /\ (holder[p] = None => Quiet(link'[c]))
  BY <1>2 DEF Steady, Quiet
<1>4. ASSUME link'[c].dev = "serving", ~NewKeyUnderWay(p)' PROVE state[p].pk = TokenKey'
  <2>1. Serving(c) /\ UNCHANGED backend /\ link'[c].down = link[c].down
    BY <1>2, <1>4 DEF Steady
  <2>2. ~NewKeyUnderWay(p)
    BY <1>1, <1>4, <2>1 DEF NewKeyUnderWay, Response
  <2> QED
    BY <1>2, <2>1, <2>2 DEF TokenKey
<1> HIDE DEF c
<1> QED
  BY <1>1, <1>2, <1>3, <1>4 DEF Caches, Serving

-----------------------------------------------------------------------------
(* The steps of the provider.                                              *)

\* A request written to an empty connection is alone on it.
LEMMA SendEmpty ==
  ASSUME NEW ch \in Channels, NEW req \in Requests, ch.up = <<>>, ch.down = <<>>
  PROVE  /\ HostSends(ch, req).up \in {<<>>, <<req>>} /\ HostSends(ch, req).down = <<>>
         /\ HostSends(ch, req).dev = ch.dev
<1>1. Append(<<>>, req) = <<req>>
  OBVIOUS
<1> QED
  BY <1>1, SendFields

KeepsCore(p) ==
  /\ state'[p] = None <=> state[p] = None
  /\ state[p] # None => SameCore(p)

\* All but thread t, the processes in P and connection c are as they were.
Elsewhere(t, P, c) ==
  /\ \A d \in Conns : d # c => link'[d] = link[d]
  /\ \A u \in Threads : u # t => call'[u] = call[u]
  /\ \A q \in Procs : q \notin P => KeepsCore(q) /\ holder'[q] = holder[q]

\* Nobody else uses them.
Alone(t, P, c) ==
  /\ \A u \in Threads : u # t /\ Placed(u) => ConnOf(u) # c
  /\ \A u \in Threads : u # t /\ InExchange(u) => ProcOf[u] \notin P
  /\ \A q \in Procs : q \notin P => holder[q] # t /\ (state[q] # None => state[q].conn # c)

\* Whoever keeps its place, its STATE and its connection keeps what it knows.
LEMMA ElsewhereKept ==
  ASSUME Typed, MutexInv, OwnerInv, ServerInv, TrafficInv, KnowledgeInv, UNCHANGED backend,
         NEW t \in Threads, NEW P, NEW c \in Conns, Elsewhere(t, P, c), Alone(t, P, c)
  PROVE  /\ \A u \in Threads : u # t => Waits(u)' /\ Learns(u)'
         /\ \A q \in Procs : q \notin P => Caches(q)'
<1>0. /\ ProcOf \in [Threads -> Procs]
      /\ \A q \in Procs : state[q] # None => state[q].conn \in Conns
      /\ \A q \in Procs : holder[q] # None => holder[q] \in Threads /\ ProcOf[holder[q]] = q
      /\ \A u \in Threads : InExchange(u) => state[ProcOf[u]] # None
  BY ProviderAssumption DEF Typed, ProviderTypeOK, ProviderState, MutexInv
<1>1. \A d \in Conns : d # c => Steady(d)
  BY SameIsSteady DEF Elsewhere
<1>2. ASSUME NEW u \in Threads, u # t PROVE Waits(u)' /\ Learns(u)'
  <2>1. Placed(u) => ConnOf(u) \in Conns /\ Steady(ConnOf(u))
    BY <1>1, <1>2, ConnsApart DEF Alone
  <2>2. InExchange(u) => SameCore(ProcOf[u])
    BY <1>0, <1>2 DEF KeepsCore, Elsewhere, Alone
  <2>3. Waits(u) /\ Learns(u) /\ call'[u] = call[u]
    BY <1>2 DEF TrafficInv, KnowledgeInv, Elsewhere
  <2> QED
    BY <2>1, <2>2, <2>3, ThreadStable
<1>3. ASSUME NEW q \in Procs, q \notin P PROVE Caches(q)'
  <2>1. CASE state[q] = None
    BY <1>3, <2>1 DEF Caches, Elsewhere, KeepsCore
  <2>2. CASE state[q] # None
    <3>1. SameCore(q) /\ holder'[q] = holder[q] /\ Caches(q)
      BY <1>3, <2>2 DEF KeepsCore, Elsewhere, KnowledgeInv
    <3>2. Steady(state[q].conn)
      BY <1>0, <1>1, <1>3, <2>2 DEF Alone
    <3>3. holder[q] # None => call'[holder[q]] = call[holder[q]]
      BY <1>0, <1>3 DEF Elsewhere, Alone
    <3> QED
      BY <3>1, <3>2, <3>3, ProcStable
  <2> QED
    BY <2>1, <2>2
<1> QED
  BY <1>2, <1>3

\* A thread in c_initialize is alone on its connection.
LEMMA HandshakeAlone ==
  ASSUME Typed, MutexInv, OwnerInv, NEW t \in Threads, Handshaking(t)
  PROVE  /\ call[t].conn \in Conns /\ ConnOf(t) = call[t].conn /\ ~InExchange(t)
         /\ Alone(t, {}, call[t].conn)
<1>1. Placed(t) /\ ~InExchange(t) /\ ConnOf(t) = call[t].conn
  BY DEF Placed, Handshaking, InExchange, ConnOf
<1>2. ConnOf(t) \in Conns
  BY <1>1, ConnsApart
<1>3. \A q \in Procs : holder[q] # t
  BY <1>1, ProviderAssumption DEF MutexInv
<1> QED
  BY <1>1, <1>2, <1>3, ConnsApart DEF Alone

\* A thread that holds the mutex, or finds it free, is alone with its STATE.
LEMMA StateAlone ==
  ASSUME Typed, MutexInv, OwnerInv, NEW t \in Threads, NEW p, p = ProcOf[t], state[p] # None,
         InExchange(t) \/ (holder[p] = None /\ ~Placed(t))
  PROVE  /\ p \in Procs /\ state[p] \in ProviderState /\ state[p].conn \in Conns
         /\ Alone(t, {p}, state[p].conn)
<1>0. /\ ProcOf \in [Threads -> Procs] /\ None \notin Threads
      /\ p \in Procs /\ state[p] \in ProviderState /\ state[p].conn \in Conns
  BY ProviderAssumption DEF Typed, ProviderTypeOK, ProviderState
<1>1. \A u \in Threads : u # t /\ InExchange(u) => ProcOf[u] # p
  BY <1>0 DEF MutexInv
<1>2. \A q \in Procs : q # p => holder[q] # t /\ (state[q] # None => state[q].conn # state[p].conn)
  BY <1>0 DEF MutexInv, OwnerInv
<1>3. \A u \in Threads : u # t /\ Placed(u) => ConnOf(u) # state[p].conn
  <2>1. ASSUME NEW u \in Threads, u # t, Handshaking(u) PROVE ConnOf(u) # state[p].conn
    BY <1>0, <2>1 DEF OwnerInv, ConnOf
  <2>2. ASSUME NEW u \in Threads, u # t, InExchange(u) PROVE ConnOf(u) # state[p].conn
    <3>1. ProcOf[u] # p /\ ProcOf[u] \in Procs /\ state[ProcOf[u]] # None
      BY <1>0, <1>1, <2>2 DEF MutexInv
    <3>2. ConnOf(u) = state[ProcOf[u]].conn
      BY <2>2 DEF ConnOf, Handshaking, InExchange
    <3> QED
      BY <1>2, <3>1, <3>2
  <2> QED
    BY <2>1, <2>2 DEF Placed
<1> QED
  BY <1>0, <1>1, <1>2, <1>3 DEF Alone

\* A step that leaves the connections alone, in which at most thread t moves,
\* into or out of a place where it waits for the mutex.
LEMMA QuietStep ==
  ASSUME Typed, MutexInv, OwnerInv, ServerInv, TrafficInv, KnowledgeInv,
         UNCHANGED <<link, holder, backend>>, SameCores,
         \A u \in Threads : call'[u] = call[u] \/ (~Placed(u) /\ ~Placed(u)')
  PROVE  TrafficInv' /\ KnowledgeInv'
<1>0. /\ ProcOf \in [Threads -> Procs]
      /\ \A q \in Procs : state[q] # None => state[q].conn \in Conns
      /\ \A q \in Procs : holder[q] # None => holder[q] \in Threads /\ InExchange(holder[q])
      /\ \A u \in Threads : InExchange(u) => state[ProcOf[u]] # None
  BY ProviderAssumption DEF Typed, ProviderTypeOK, ProviderState, MutexInv
<1>1. \A d \in Conns : Steady(d)
  BY SameIsSteady
<1>2. \A p \in Procs : state[p] # None => SameCore(p)
  BY DEF SameCores, SameCore
<1>3. ASSUME NEW u \in Threads PROVE Waits(u)' /\ Learns(u)'
  <2>1. CASE ~Placed(u)'
    BY <2>1, UnplacedThread
  <2>2. CASE call'[u] = call[u]
    <3>1. Placed(u) => ConnOf(u) \in Conns /\ Steady(ConnOf(u))
      BY <1>1, ConnsApart
    <3>2. InExchange(u) => SameCore(ProcOf[u])
      BY <1>0, <1>2
    <3>3. Waits(u) /\ Learns(u)
      BY DEF TrafficInv, KnowledgeInv
    <3> QED
      BY <2>2, <3>1, <3>2, <3>3, ThreadStable
  <2> QED
    BY <2>1, <2>2
<1>4. ASSUME NEW q \in Procs PROVE Caches(q)'
  <2>1. CASE state[q] = None
    BY <2>1 DEF Caches, SameCores
  <2>2. CASE state[q] # None
    <3>1. Steady(state[q].conn) /\ SameCore(q) /\ Caches(q) /\ holder'[q] = holder[q]
      BY <1>0, <1>1, <1>2, <2>2 DEF KnowledgeInv
    <3>2. holder[q] # None => call'[holder[q]] = call[holder[q]]
      BY <1>0 DEF Placed
    <3> QED
      BY <3>1, <3>2, ProcStable
  <2> QED
    BY <2>1, <2>2
<1> QED
  BY <1>3, <1>4 DEF TrafficInv, KnowledgeInv

\* So do the calls that return at once and the gap of c_sign.
LEMMA LooksTurnsKeep ==
  ASSUME Typed, MutexInv, OwnerInv, ServerInv, TrafficInv, KnowledgeInv, UNCHANGED backend,
         Looks \/ \E t \in Threads : Turns(t)
  PROVE  TrafficInv' /\ KnowledgeInv'
<1>1. CASE Looks
  BY <1>1, QuietStep DEF Looks, linkVars
<1>2. ASSUME NEW t \in Threads, Turns(t) PROVE TrafficInv' /\ KnowledgeInv'
  <2>1. call \in [Threads -> Places] /\ UNCHANGED <<link, holder, state>>
    BY <1>2 DEF Turns, Typed, ProviderTypeOK, linkVars
  <2>2. SameCores
    BY <2>1, SameStateCores
  <2>3. \A u \in Threads : call'[u] = call[u] \/ (~Placed(u) /\ ~Placed(u)')
    BY <1>2, <2>1 DEF Turns, Placed, Handshaking, InExchange
  <2> QED
    BY <2>1, <2>2, <2>3, QuietStep
<1> QED
  BY <1>1, <1>2

\* The request or the answer of a thread that waits.
LEMMA AnswerRead ==
  ASSUME Typed, ServerInv, NEW t, NEW c \in Conns, ConnOf(t) = c, Waits(t), AwaitingToken(t),
         Arrived(c)
  PROVE  /\ link[c] \in Channels /\ Response(c) \in Responses /\ Answers(t, Response(c))
         /\ link[c].up = <<>> /\ Tail(link[c].down) = <<>> /\ link[c].dev # "queued"
<1>1. link[c] \in Channels
  BY DEF Typed, LinkTypeOK
<1>2. link[c].up = <<>> /\ \E rsp \in Responses : link[c].down = <<rsp>> /\ Answers(t, rsp)
  BY DEF Waits, Arrived
<1>3. PICK rsp \in Responses : link[c].down = <<rsp>> /\ Answers(t, rsp)
  BY <1>2
<1>4. Head(link[c].down) = rsp /\ Tail(link[c].down) = <<>>
  BY <1>3
<1>5. link[c].dev # "queued"
  BY DEF ServerInv, Arrived
<1> QED
  BY <1>1, <1>2, <1>3, <1>4, <1>5 DEF Response

\* A read that fails leaves a connection with nothing under way: no answer can
\* come late.
LEMMA SilentReads ==
  ASSUME Prompt, Typed, ServerInv, PortInv, NEW c \in Conns, ReadFails(link[c])
  PROVE  Quiet(link[c])
<1>1. link[c].down = <<>>
  BY DEF ReadFails
<1>2. CASE link[c].dev = "closed"
  BY <1>1, <1>2 DEF ServerInv, Quiet
<1>3. CASE Serial /\ (link[c].up = <<>> \/ ~listening)
  <2>1. ~listening => link[c].dev = "closed"
    BY <1>3 DEF PortInv, ServerInv
  <2> QED
    BY <1>1, <1>2, <1>3, <2>1 DEF Quiet
<1> QED
  BY <1>2, <1>3 DEF ReadFails, Prompt

\* A connection that has just been opened carries the first request alone.
LEMMA FreshIsEmpty ==
  ASSUME PortInv, NEW t, NEW c \in Conns, Fresh(t, c)
  PROVE  link'[c].up = <<GetInfoReq>> /\ link'[c].down = <<>>
  BY DEF PortInv, Fresh, Quiet

\* The connect of c_initialize keeps traffic and knowledge.
LEMMA DialsKeeps ==
  ASSUME Typed, MutexInv, OwnerInv, ServerInv, PortInv, TrafficInv, KnowledgeInv,
         UNCHANGED backend, NEW t \in Threads, Dials(t)
  PROVE  TrafficInv' /\ KnowledgeInv'
<1>0. call \in [Threads -> Places] /\ link \in [Conns -> Channels] /\ ~Placed(t)
      /\ UNCHANGED <<holder, state>>
  BY DEF Dials, Typed, ProviderTypeOK, LinkTypeOK, Placed, Handshaking, InExchange
<1>1. PICK c \in Conns : Fresh(t, c)
  BY DialFields
<1>2. link'[c].up = <<GetInfoReq>> /\ link'[c].down = <<>>
  BY <1>1, FreshIsEmpty
<1>3. Elsewhere(t, {}, c)
  BY <1>0, <1>1 DEF Fresh, Elsewhere, KeepsCore, SameCore
<1>4. Alone(t, {}, c)
  <2>1. ~link[c].host
    BY <1>1 DEF Fresh
  <2>2. \A q \in Procs : holder[q] # t
    BY <1>0, ProviderAssumption DEF MutexInv, Placed
  <2> QED
    BY <2>1, <2>2, ConnsApart DEF Alone, OwnerInv
<1>5. call'[t].at = "get_info" /\ call'[t].conn = c
  BY <1>0, <1>1 DEF Fresh
<1>6. Waits(t)' /\ Learns(t)'
  <2>1. ConnOf(t)' = c /\ Asked(t)' = GetInfoReq
    BY <1>5 DEF ConnOf, Handshaking, Asked, GetInfoReq
  <2> QED
    BY <1>2, <1>5, <2>1 DEF Waits, Learns
<1> QED
  BY <1>3, <1>4, <1>6, ElsewhereKept DEF TrafficInv, KnowledgeInv

\* A request written under the mutex keeps traffic and knowledge.
LEMMA SendsKeeps ==
  ASSUME Typed, MutexInv, OwnerInv, ServerInv, TrafficInv, KnowledgeInv, UNCHANGED backend,
         NEW t \in Threads, Sends(t)
  PROVE  TrafficInv' /\ KnowledgeInv'
<1> DEFINE p == ProcOf[t]
           c == state[p].conn
<1>0. /\ call \in [Threads -> Places] /\ link \in [Conns -> Channels]
      /\ holder \in [Procs -> Threads \cup {None}] /\ None \notin Threads
      /\ holder[p] = None /\ state[p] # None /\ ~Placed(t) /\ UNCHANGED state
  BY ProviderAssumption
     DEF Sends, Typed, ProviderTypeOK, LinkTypeOK, Placed, Handshaking, InExchange
<1>1. p \in Procs /\ c \in Conns /\ link[c] \in Channels /\ Alone(t, {p}, c)
  BY <1>0, StateAlone
<1>2. PICK place \in Places, req \in Requests :
        /\ \/ place.at = "sign_wait" /\ req = SignReq(place.msg)
           \/ place.at = "gen_wait" /\ req = GenerateReq
        /\ call' = [call EXCEPT ![t] = place]
        /\ link' = [link EXCEPT ![c] = HostSends(@, req)]
        /\ holder' = [holder EXCEPT ![p] = t]
  BY DEF Sends
<1>3. Elsewhere(t, {p}, c)
  BY <1>0, <1>2 DEF Elsewhere, KeepsCore, SameCore
<1>4. Caches(p) /\ Quiet(link[c])
  BY <1>0, <1>1 DEF KnowledgeInv, Caches
<1>6. link'[c].up \in {<<>>, <<req>>} /\ link'[c].down = <<>> /\ link'[c].dev = link[c].dev
  <2>1. link'[c] = HostSends(link[c], req)
    BY <1>0, <1>1, <1>2
  <2> HIDE DEF c
  <2> QED
    BY <1>1, <1>4, <2>1, SendEmpty DEF Quiet
<1>7. call'[t] = place /\ holder'[p] = t
  BY <1>0, <1>1, <1>2
<1>8. Waits(t)' /\ Learns(t)'
  <2>1. ConnOf(t)' = c /\ Asked(t)' = req
    BY <1>0, <1>2, <1>7 DEF ConnOf, Handshaking, Asked, SignReq, GenerateReq
  <2> HIDE DEF c
  <2> QED
    BY <1>2, <1>6, <1>7, <2>1 DEF Waits, Learns
<1>9. Caches(p)'
  <2>1. ~NewKeyUnderWay(p)
    BY <1>0 DEF NewKeyUnderWay
  <2> QED
    BY <1>0, <1>1, <1>4, <1>6, <1>7, <2>1 DEF Caches, Serving, TokenKey
<1> QED
  BY <1>1, <1>3, <1>8, <1>9, ElsewhereKept DEF TrafficInv, KnowledgeInv

\* Reading the GET_INFO answer keeps traffic and knowledge (get_info).
LEMMA InfoReplyKeeps ==
  ASSUME Typed, MutexInv, OwnerInv, ServerInv, TrafficInv, KnowledgeInv, UNCHANGED backend,
         NEW t \in Threads, InfoReply(t)
  PROVE  TrafficInv' /\ KnowledgeInv'
<1> DEFINE c == call[t].conn
           rsp == Response(c)
<1>0. /\ call \in [Threads -> Places] /\ link \in [Conns -> Channels]
      /\ Handshaking(t) /\ AwaitingToken(t) /\ Arrived(c) /\ rsp.status = "Ok"
      /\ call[t].at = "get_info" /\ UNCHANGED <<holder, state>>
  BY DEF InfoReply, Typed, ProviderTypeOK, LinkTypeOK, Handshaking, AwaitingToken
<1>1. c \in Conns /\ ConnOf(t) = c /\ Alone(t, {}, c)
  BY <1>0, HandshakeAlone
<1>2. /\ link[c] \in Channels /\ rsp \in Responses /\ Answers(t, rsp) /\ link[c].up = <<>>
      /\ Tail(link[c].down) = <<>> /\ link[c].dev # "queued"
  BY <1>0, <1>1, AnswerRead DEF TrafficInv
<1>3. rsp.body.kind = "info" /\ (Serving(c) => rsp.body = InfoBytes(backend.param))
  BY <1>0, <1>1, <1>2 DEF Answers
<1>4. rsp.body \in Payloads /\ rsp.body.param \in ParamSets
  BY <1>2, <1>3, InfoPayload DEF Responses
<1>5. Serving(c) => rsp.body.param = backend.param
  BY <1>3 DEF InfoBytes
<1>6. /\ call' = [call EXCEPT ![t] = [at |-> "get_public_key", conn |-> c,
                                      param |-> rsp.body.param]]
      /\ link' = [link EXCEPT ![c] = HostSends(HostReads(@), GetPublicKeyReq)]
  BY <1>3 DEF InfoReply, Goes
<1>7. Elsewhere(t, {}, c)
  BY <1>0, <1>6 DEF Elsewhere, KeepsCore, SameCore
<1> HIDE DEF c, rsp
<1>9. /\ link'[c].up \in {<<>>, <<GetPublicKeyReq>>} /\ link'[c].down = <<>>
      /\ link'[c].dev = link[c].dev
  <2>1. link'[c] = HostSends(HostReads(link[c]), GetPublicKeyReq)
    BY <1>0, <1>1, <1>6
  <2>2. HostReads(link[c]) \in Channels
    BY <1>0, <1>2, ChannelTypes DEF Arrived
  <2>3. /\ HostReads(link[c]).up = <<>> /\ HostReads(link[c]).down = <<>>
        /\ HostReads(link[c]).dev = link[c].dev
    BY <1>2, ReadFields
  <2> QED
    BY <2>1, <2>2, <2>3, SendEmpty, RequestTypes
<1>10. /\ call'[t].at = "get_public_key" /\ call'[t].conn = c
       /\ call'[t].param = rsp.body.param
  BY <1>0, <1>6
<1>11. Waits(t)' /\ Learns(t)'
  <2>1. ConnOf(t)' = c /\ Asked(t)' = GetPublicKeyReq
    BY <1>10 DEF ConnOf, Handshaking, Asked, GetPublicKeyReq
  <2> QED
    BY <1>2, <1>4, <1>5, <1>9, <1>10, <2>1 DEF Waits, Learns, Serving
<1> QED
  BY <1>1, <1>7, <1>11, ElsewhereKept DEF TrafficInv, KnowledgeInv

\* Reading the GET_PUBLIC_KEY answer keeps traffic and knowledge (get_public_key).
LEMMA PublicKeyReplyKeeps ==
  ASSUME Typed, MutexInv, OwnerInv, ServerInv, TrafficInv, KnowledgeInv, UNCHANGED backend,
         NEW t \in Threads, PublicKeyReply(t)
  PROVE  TrafficInv' /\ KnowledgeInv'
<1> DEFINE c == call[t].conn
           rsp == Response(c)
<1>0. /\ call \in [Threads -> Places] /\ link \in [Conns -> Channels]
      /\ Handshaking(t) /\ AwaitingToken(t) /\ Arrived(c) /\ rsp.status = "Ok"
      /\ call[t].at = "get_public_key" /\ UNCHANGED <<holder, state>>
      /\ call' = [call EXCEPT ![t] = [at |-> "store", conn |-> c, param |-> call[t].param,
                                      pk |-> rsp.body]]
      /\ link' = [link EXCEPT ![c] = HostReads(@)]
  BY DEF PublicKeyReply, Typed, ProviderTypeOK, LinkTypeOK, Handshaking, AwaitingToken,
         Goes, TakeFrom
<1>1. c \in Conns /\ ConnOf(t) = c /\ Alone(t, {}, c)
  BY <1>0, HandshakeAlone
<1>2. /\ link[c] \in Channels /\ rsp \in Responses /\ Answers(t, rsp) /\ link[c].up = <<>>
      /\ Tail(link[c].down) = <<>> /\ link[c].dev # "queued"
  BY <1>0, <1>1, AnswerRead DEF TrafficInv
<1>3. /\ rsp.body \in PublicKeys /\ rsp.body.param = call[t].param
      /\ Serving(c) => rsp.body = TokenKey
  BY <1>0, <1>1, <1>2 DEF Answers
<1>4. Elsewhere(t, {}, c)
  BY <1>0 DEF Elsewhere, KeepsCore, SameCore
<1> HIDE DEF c, rsp
<1>5. link'[c].up = <<>> /\ link'[c].down = <<>> /\ link'[c].dev = link[c].dev
  <2>1. link'[c] = HostReads(link[c])
    BY <1>0, <1>1
  <2> QED
    BY <1>2, <2>1, ReadFields
<1>6. /\ call'[t].at = "store" /\ call'[t].conn = c
      /\ call'[t].param = call[t].param /\ call'[t].pk = rsp.body
  BY <1>0
<1>7. Waits(t)' /\ Learns(t)'
  BY <1>2, <1>3, <1>5, <1>6 DEF Waits, AwaitingToken, Learns, Serving, Quiet, TokenKey
<1> QED
  BY <1>1, <1>4, <1>7, ElsewhereKept DEF TrafficInv, KnowledgeInv

\* A handshake that fails keeps traffic and knowledge (c_initialize).
LEMMA HandshakeFailsKeeps ==
  ASSUME Typed, MutexInv, OwnerInv, ServerInv, TrafficInv, KnowledgeInv, UNCHANGED backend,
         NEW t \in Threads, HandshakeFails(t)
  PROVE  TrafficInv' /\ KnowledgeInv'
<1> DEFINE c == call[t].conn
<1>0. /\ call \in [Threads -> Places] /\ link \in [Conns -> Channels] /\ Handshaking(t)
      /\ UNCHANGED <<holder, state>> /\ call' = [call EXCEPT ![t] = Idle]
  BY DEF HandshakeFails, Typed, ProviderTypeOK, LinkTypeOK, Handshaking, Goes
<1>1. c \in Conns /\ Alone(t, {}, c)
  BY <1>0, HandshakeAlone
<1>2. Elsewhere(t, {}, c)
  BY <1>0 DEF Elsewhere, KeepsCore, SameCore, HandshakeFails
<1>3. ~Placed(t)'
  BY <1>0 DEF Placed, Handshaking, InExchange, Idle
<1> QED
  BY <1>1, <1>2, <1>3, UnplacedThread, ElsewhereKept DEF TrafficInv, KnowledgeInv

\* A thread gives the mutex back on a connection that is quiet again.
LEMMA LeavesExchange ==
  ASSUME Typed, MutexInv, OwnerInv, ServerInv, TrafficInv, KnowledgeInv, UNCHANGED backend,
         NEW t \in Threads, InExchange(t), NEW c, c = state[ProcOf[t]].conn,
         Elsewhere(t, {ProcOf[t]}, c), call'[t] = Idle, holder'[ProcOf[t]] = None,
         state'[ProcOf[t]] # None, state'[ProcOf[t]].conn = c,
         Quiet(link'[c]), link'[c].dev = link[c].dev, link[c].dev # "queued",
         state'[ProcOf[t]].pk \in PublicKeys,
         state'[ProcOf[t]].pk.param = state'[ProcOf[t]].param,
         Serving(c) => state'[ProcOf[t]].pk = TokenKey
  PROVE  TrafficInv' /\ KnowledgeInv'
<1> DEFINE p == ProcOf[t]
<1>1. p \in Procs /\ c \in Conns /\ Alone(t, {p}, c)
  BY ExchangeFields, StateAlone DEF Uninitialized
<1>2. Waits(t)' /\ Learns(t)'
  <2>1. ~Placed(t)'
    BY DEF Placed, Handshaking, InExchange, Idle
  <2> QED
    BY <2>1, UnplacedThread
<1>3. Caches(p)'
  BY DEF Caches, Serving, TokenKey
<1> QED
  BY <1>1, <1>2, <1>3, ElsewhereKept DEF TrafficInv, KnowledgeInv

\* An exchange that ends without news of the key keeps traffic and knowledge.
LEMMA FinishesKeeps ==
  ASSUME Prompt, Typed, MutexInv, OwnerInv, ServerInv, PortInv, TrafficInv, KnowledgeInv,
         UNCHANGED backend, NEW t \in Threads, Finishes(t)
  PROVE  TrafficInv' /\ KnowledgeInv'
<1> DEFINE p == ProcOf[t]
           c == state[p].conn
<1>0. /\ call \in [Threads -> Places] /\ link \in [Conns -> Channels] /\ InExchange(t)
      /\ AwaitingToken(t) /\ ConnOf(t) = c
      /\ holder \in [Procs -> Threads \cup {None}] /\ state \in [Procs -> ProviderState \cup {None}]
      /\ call' = [call EXCEPT ![t] = Idle] /\ holder' = [holder EXCEPT ![p] = None]
      /\ SameCores
  BY DEF Finishes, Typed, ProviderTypeOK, LinkTypeOK, InExchange, AwaitingToken, ConnOf, Handshaking
<1>1. /\ p \in Procs /\ state[p] # None /\ holder[p] = t /\ c \in Conns /\ link[c] \in Channels
      /\ t # None
  BY <1>0, ExchangeFields, ProviderAssumption DEF Uninitialized
<1>2. /\ state'[p] # None /\ state'[p].conn = c
      /\ state'[p].pk = state[p].pk /\ state'[p].param = state[p].param
  BY <1>0, <1>1 DEF SameCores
<1>3. Caches(p) /\ Waits(t)
  BY <1>1 DEF KnowledgeInv, TrafficInv
<1>4. ASSUME ReadFails(link[c]), UNCHANGED link
      PROVE  Quiet(link'[c]) /\ link'[c].dev = link[c].dev
  BY <1>1, <1>4, SilentReads
<1>5. ASSUME Arrived(c), link' = [link EXCEPT ![c] = HostReads(@)]
      PROVE  Quiet(link'[c]) /\ link'[c].dev = link[c].dev
  <2>1. link[c].up = <<>> /\ Tail(link[c].down) = <<>>
    BY <1>0, <1>1, <1>3, <1>5, AnswerRead
  <2>2. link'[c] = HostReads(link[c])
    BY <1>0, <1>1, <1>5
  <2> HIDE DEF c
  <2> QED
    BY <1>1, <2>1, <2>2, ReadFields DEF Quiet
<1>6. Quiet(link'[c]) /\ link'[c].dev = link[c].dev
  BY <1>4, <1>5 DEF Finishes, TakeFrom
<1>7. Serving(c) => ~NewKeyUnderWay(p)
  BY <1>1 DEF Finishes, NewKeyUnderWay, Serving, ReadFails
<1>8. Serving(c) => state'[p].pk = TokenKey
  BY <1>1, <1>2, <1>3, <1>7 DEF Caches
<1>9. /\ state'[p].pk \in PublicKeys /\ state'[p].pk.param = state'[p].param
      /\ link[c].dev # "queued"
  BY <1>1, <1>2, <1>3 DEF Caches
<1>10. Elsewhere(t, {p}, c)
  <2>1. \A q \in Procs : KeepsCore(q)
    BY <1>0 DEF SameCores, KeepsCore, SameCore
  <2>2. \A d \in Conns : d # c => link'[d] = link[d]
    BY <1>0 DEF Finishes, TakeFrom
  <2> QED
    BY <1>0, <2>1, <2>2 DEF Elsewhere, KeepsCore, SameCore
<1>11. call'[t] = Idle /\ holder'[p] = None
  BY <1>0, <1>1
<1> QED
  BY <1>0, <1>2, <1>6, <1>8, <1>9, <1>10, <1>11, LeavesExchange

\* Caching the new public key keeps traffic and knowledge (c_generate_key_pair).
LEMMA GenerateReplyKeeps ==
  ASSUME Typed, MutexInv, OwnerInv, ServerInv, TrafficInv, KnowledgeInv, UNCHANGED backend,
         NEW t \in Threads, GenerateReply(t)
  PROVE  TrafficInv' /\ KnowledgeInv'
<1> DEFINE p == ProcOf[t]
           c == state[p].conn
           rsp == Response(c)
<1>0. /\ call \in [Threads -> Places] /\ link \in [Conns -> Channels] /\ InExchange(t)
      /\ AwaitingToken(t) /\ ConnOf(t) = c /\ call[t].at = "gen_wait"
      /\ holder \in [Procs -> Threads \cup {None}] /\ state \in [Procs -> ProviderState \cup {None}]
      /\ call' = [call EXCEPT ![t] = Idle] /\ holder' = [holder EXCEPT ![p] = None]
      /\ Arrived(c) /\ rsp.status = "Ok" /\ link' = [link EXCEPT ![c] = HostReads(@)]
      /\ state' = [state EXCEPT ![p] = [@ EXCEPT !.pk = rsp.body]]
  BY DEF GenerateReply, Typed, ProviderTypeOK, LinkTypeOK, InExchange, AwaitingToken, ConnOf,
         Handshaking, Goes, Release, TakeFrom
<1>1. /\ p \in Procs /\ state[p] # None /\ holder[p] = t /\ c \in Conns /\ link[c] \in Channels
      /\ state[p] \in ProviderState
  BY <1>0, ExchangeFields DEF Uninitialized
<1>2. /\ Response(c) \in Responses /\ Answers(t, Response(c)) /\ link[c].up = <<>>
      /\ Tail(link[c].down) = <<>> /\ link[c].dev # "queued"
  BY <1>0, <1>1, AnswerRead DEF TrafficInv
<1>3. /\ rsp.body \in PublicKeys /\ rsp.body.param = state[p].param
      /\ Serving(c) => rsp.body = TokenKey
  BY <1>0, <1>2 DEF Answers
<1> HIDE DEF rsp
<1>4. [state[p] EXCEPT !.pk = rsp.body] \in ProviderState
  BY <1>1, <1>3 DEF ProviderState, Payloads
<1>5. /\ state'[p].conn = c /\ state'[p].param = state[p].param /\ state'[p].pk = rsp.body
      /\ state'[p] # None
  <2>1. state'[p] = [state[p] EXCEPT !.pk = rsp.body]
    BY <1>0, <1>1
  <2> QED
    BY <1>1, <1>4, <2>1, NoneIsNoState DEF ProviderState
<1>6. Elsewhere(t, {p}, c)
  BY <1>0 DEF Elsewhere, KeepsCore, SameCore
<1>7. call'[t] = Idle /\ holder'[p] = None
  BY <1>0, <1>1
<1>8. Quiet(link'[c]) /\ link'[c].dev = link[c].dev
  <2>1. link'[c] = HostReads(link[c])
    BY <1>0, <1>1
  <2> HIDE DEF c
  <2> QED
    BY <1>1, <1>2, <2>1, ReadFields DEF Quiet
<1> QED
  BY <1>0, <1>2, <1>3, <1>5, <1>6, <1>7, <1>8, LeavesExchange

\* The connection of the STATE that is replaced or cleared closes.
LEMMA DroppedAlone ==
  ASSUME Typed, MutexInv, OwnerInv, NEW t \in Threads, ~InExchange(t), NEW p, p = ProcOf[t],
         holder[p] = None, DropState(p), state[p] # None
  PROVE  /\ p \in Procs /\ state[p].conn \in Conns
         /\ \A d \in Conns : d # state[p].conn => link'[d] = link[d]
         /\ \A u \in Threads : u # t /\ Placed(u) => ConnOf(u) # state[p].conn
         /\ \A u \in Threads : InExchange(u) => ProcOf[u] # p
         /\ \A q \in Procs : q # p /\ state[q] # None => state[q].conn # state[p].conn
         /\ \A q \in Procs : holder[q] # t
         /\ Handshaking(t) => call[t].conn # state[p].conn
<1>0. /\ ProcOf \in [Threads -> Procs] /\ None \notin Threads /\ link \in [Conns -> Channels]
      /\ p \in Procs /\ state[p].conn \in Conns
  BY ProviderAssumption DEF Typed, ProviderTypeOK, LinkTypeOK, ProviderState
<1>1. /\ \A u \in Threads : InExchange(u) => ProcOf[u] # p
      /\ \A q \in Procs : holder[q] # t
  BY <1>0 DEF MutexInv
<1>2. \A d \in Conns : d # state[p].conn => link'[d] = link[d]
  BY <1>0 DEF DropState, Uninitialized
<1>3. \A u \in Threads : Handshaking(u) => call[u].conn # state[p].conn
  BY <1>0 DEF OwnerInv
<1>4. \A u \in Threads : u # t /\ Placed(u) => ConnOf(u) # state[p].conn
  <2>1. ASSUME NEW u \in Threads, InExchange(u) PROVE ConnOf(u) # state[p].conn
    BY <1>0, <1>1, <2>1, ConnsApart DEF Placed
  <2> QED
    BY <1>3, <2>1 DEF Placed, ConnOf
<1> QED
  BY <1>0, <1>1, <1>2, <1>3, <1>4 DEF OwnerInv

\* The store of c_initialize keeps traffic and knowledge.
LEMMA StoreKeeps ==
  ASSUME Typed, MutexInv, OwnerInv, ServerInv, TrafficInv, KnowledgeInv,
         UNCHANGED backend, NEW t \in Threads, Store(t)
  PROVE  TrafficInv' /\ KnowledgeInv'
<1> DEFINE p == ProcOf[t]
           c == call[t].conn
           e == IF state[p] = None THEN c ELSE state[p].conn
<1>0. /\ call \in [Threads -> Places] /\ link \in [Conns -> Channels] /\ Handshaking(t)
      /\ call[t].at = "store" /\ holder[p] = None /\ p \in Procs
      /\ state \in [Procs -> ProviderState \cup {None}]
      /\ UNCHANGED holder /\ call' = [call EXCEPT ![t] = Idle] /\ DropState(p)
      /\ state' = [state EXCEPT ![p] = NewState(c, call[t].param, call[t].pk)]
  BY ProviderAssumption
     DEF Store, Typed, ProviderTypeOK, LinkTypeOK, Handshaking, Goes, MutexFree
<1>1. c \in Conns /\ ~InExchange(t) /\ Alone(t, {}, c)
  BY <1>0, HandshakeAlone
<1>2. /\ state'[p] # None /\ state'[p].conn = c
      /\ state'[p].param = call[t].param /\ state'[p].pk = call[t].pk
  <2>1. /\ state'[p] = NewState(c, call[t].param, call[t].pk)
    BY <1>0
  <2>2. /\ NewState(c, call[t].param, call[t].pk).conn = c
        /\ NewState(c, call[t].param, call[t].pk).param = call[t].param
        /\ NewState(c, call[t].param, call[t].pk).pk = call[t].pk
    BY DEF NewState
  <2>3. state'[p] # None
    <3>1. call[t].param \in ParamSets /\ call[t].pk \in Payloads
      BY <1>0, PlaceFields
    <3>2. NewState(c, call[t].param, call[t].pk) \in ProviderState
      BY <1>1, <3>1, ProviderAssumption DEF NewState, ProviderState, Sessions
    <3> QED
      BY <2>1, <3>2, NoneIsNoState
  <2> QED
    BY <2>1, <2>2, <2>3
<1>3. /\ \A d \in Conns : d # e => link'[d] = link[d]
      /\ link'[c] = link[c] /\ Alone(t, {p}, e) /\ e \in Conns
  <2>1. CASE state[p] = None
    <3>1. \A u \in Threads : InExchange(u) => ProcOf[u] # p
      BY <1>0, ProviderAssumption DEF MutexInv
    <3>2. UNCHANGED link
      BY <1>0, <2>1 DEF DropState, Uninitialized
    <3> QED
      BY <1>1, <2>1, <3>1, <3>2 DEF Alone
  <2>2. CASE state[p] # None
    BY <1>0, <1>1, <2>2, DroppedAlone DEF Alone
  <2> QED
    BY <2>1, <2>2
<1>4. Elsewhere(t, {p}, e)
  BY <1>0, <1>3 DEF Elsewhere, KeepsCore, SameCore
<1>5. Learns(t)
  BY DEF KnowledgeInv
<1> HIDE DEF c, e
<1>6. Caches(p)'
  BY <1>0, <1>2, <1>3, <1>5 DEF c, Learns, Caches, Serving, TokenKey
<1>7. ~Placed(t)'
  BY <1>0 DEF Placed, Handshaking, InExchange, Idle
<1> QED
  BY <1>0, <1>3, <1>4, <1>6, <1>7, UnplacedThread, ElsewhereKept DEF TrafficInv, KnowledgeInv

\* c_finalize keeps traffic and knowledge.
LEMMA FinalizeKeeps ==
  ASSUME Typed, MutexInv, OwnerInv, ServerInv, TrafficInv, KnowledgeInv, UNCHANGED backend,
         NEW t \in Threads, Finalize(t)
  PROVE  TrafficInv' /\ KnowledgeInv'
<1> DEFINE p == ProcOf[t]
<1>0. /\ call[t] = Idle /\ holder[p] = None /\ p \in Procs
      /\ UNCHANGED <<holder, call>> /\ DropState(p) /\ state' = [state EXCEPT ![p] = None]
      /\ state \in [Procs -> ProviderState \cup {None}]
  BY ProviderAssumption
     DEF Finalize, Enters, Typed, ProviderTypeOK, MutexFree
<1>1. ~Placed(t) /\ ~Placed(t)'
  BY <1>0 DEF Placed, Handshaking, InExchange, Idle
<1>2. CASE state[p] = None
  <2>1. UNCHANGED link /\ UNCHANGED state
    BY <1>0, <1>2 DEF DropState, Uninitialized
  <2> QED
    BY <1>0, <2>1, SameStateCores, QuietStep
<1>3. CASE state[p] # None
  <2>1. /\ state[p].conn \in Conns /\ Alone(t, {p}, state[p].conn)
        /\ \A d \in Conns : d # state[p].conn => link'[d] = link[d]
    BY <1>0, <1>1, <1>3, DroppedAlone DEF Alone, Placed
  <2>2. Elsewhere(t, {p}, state[p].conn)
    BY <1>0, <2>1 DEF Elsewhere, KeepsCore, SameCore
  <2>3. Caches(p)'
    BY <1>0 DEF Caches
  <2> QED
    BY <1>1, <2>1, <2>2, <2>3, UnplacedThread, ElsewhereKept DEF TrafficInv, KnowledgeInv
<1> QED
  BY <1>2, <1>3

\* The end of a process keeps traffic and knowledge.
LEMMA LeavingKeeps ==
  ASSUME Typed, MutexInv, OwnerInv, ServerInv, TrafficInv, KnowledgeInv, UNCHANGED backend,
         NEW p \in Procs, Leaving(p)
  PROVE  TrafficInv' /\ KnowledgeInv'
<1>0. /\ ProcOf \in [Threads -> Procs] /\ state \in [Procs -> ProviderState \cup {None}]
      /\ \A q \in Procs : state[q] # None => state[q].conn \in Conns
      /\ \A q \in Procs : holder[q] # None => holder[q] \in Threads /\ ProcOf[holder[q]] = q
      /\ \A u \in Threads : InExchange(u) => state[ProcOf[u]] # None
      /\ state' = [state EXCEPT ![p] = None]
      /\ holder \in [Procs -> Threads \cup {None}] /\ holder' = [holder EXCEPT ![p] = None]
      /\ call' = [t \in Threads |-> IF ProcOf[t] = p THEN Idle ELSE call[t]]
  BY ProviderAssumption DEF Typed, ProviderTypeOK, ProviderState, MutexInv, Leaving
<1>1. \A d \in Conns : d \notin Mine(p) => Steady(d)
  BY LeaveFields, SameIsSteady
<1>2. ASSUME NEW u \in Threads PROVE Waits(u)' /\ Learns(u)'
  <2>1. CASE ProcOf[u] = p
    <3>1. ~Placed(u)'
      BY <1>0, <2>1 DEF Placed, Handshaking, InExchange, Idle
    <3> QED
      BY <3>1, UnplacedThread
  <2>2. CASE ProcOf[u] # p
    <3>1. Placed(u) => ConnOf(u) \in Conns /\ ConnOf(u) \notin Mine(p)
      <4>1. ASSUME Placed(u), state[p] # None PROVE ConnOf(u) # state[p].conn
        BY <2>2, <4>1, ConnsApart
      <4>2. ASSUME Placed(u), NEW w \in Threads, ProcOf[w] = p, Handshaking(w)
            PROVE  ConnOf(u) # call[w].conn
        BY <2>2, <4>2, ConnsApart DEF Placed, ConnOf
      <4> QED
        BY <4>1, <4>2, ConnsApart DEF Mine
    <3>2. InExchange(u) => SameCore(ProcOf[u])
      BY <1>0, <2>2 DEF SameCore
    <3>3. Waits(u) /\ Learns(u) /\ call'[u] = call[u]
      BY <1>0, <2>2 DEF TrafficInv, KnowledgeInv
    <3> QED
      BY <1>1, <3>1, <3>2, <3>3, ThreadStable
  <2> QED
    BY <2>1, <2>2
<1>3. ASSUME NEW q \in Procs PROVE Caches(q)'
  <2>1. CASE q = p \/ state[q] = None
    BY <1>0, <2>1 DEF Caches
  <2>2. CASE q # p /\ state[q] # None
    <3>1. SameCore(q) /\ holder'[q] = holder[q] /\ Caches(q)
      BY <1>0, <2>2 DEF SameCore, KnowledgeInv
    <3>2. state[q].conn \notin Mine(p)
      BY <2>2 DEF Mine, OwnerInv
    <3>3. holder[q] # None => call'[holder[q]] = call[holder[q]]
      BY <1>0, <2>2
    <3> QED
      BY <1>0, <1>1, <2>2, <3>1, <3>2, <3>3, ProcStable
  <2> QED
    BY <2>1, <2>2
<1> QED
  BY <1>2, <1>3 DEF TrafficInv, KnowledgeInv

\* Every step of the provider keeps traffic and knowledge.
LEMMA ProviderKeeps ==
  ASSUME Prompt, Typed, MutexInv, OwnerInv, ServerInv, PortInv, TrafficInv, KnowledgeInv,
         UNCHANGED backend, ProviderKinds
  PROVE  TrafficInv' /\ KnowledgeInv'
  BY LooksTurnsKeep, DialsKeeps, SendsKeeps, FinishesKeeps, InfoReplyKeeps, PublicKeyReplyKeeps,
     HandshakeFailsKeeps, StoreKeeps, FinalizeKeeps, GenerateReplyKeeps, LeavingKeeps
     DEF ProviderKinds, ThreadKinds

-----------------------------------------------------------------------------
(* The steps of the token.                                                 *)

\* A step of the token that leaves every connection in use steady keeps traffic and
\* knowledge.
LEMMA SteadyStep ==
  ASSUME Typed, MutexInv, OwnerInv, ServerInv, TrafficInv, KnowledgeInv,
         UNCHANGED <<state, holder, call>>, \A d \in Conns : link[d].host => Steady(d)
  PROVE  TrafficInv' /\ KnowledgeInv'
<1>0. /\ ProcOf \in [Threads -> Procs]
      /\ \A q \in Procs : state[q] # None => state[q].conn \in Conns
      /\ \A u \in Threads : InExchange(u) => state[ProcOf[u]] # None
  BY ProviderAssumption DEF Typed, ProviderTypeOK, ProviderState, MutexInv
<1>1. ASSUME NEW u \in Threads PROVE Waits(u)' /\ Learns(u)'
  <2>1. Placed(u) => ConnOf(u) \in Conns /\ Steady(ConnOf(u))
    BY ConnsApart
  <2>2. InExchange(u) => SameCore(ProcOf[u])
    BY <1>0 DEF SameCore
  <2>3. Waits(u) /\ Learns(u) /\ call'[u] = call[u]
    BY DEF TrafficInv, KnowledgeInv
  <2> QED
    BY <2>1, <2>2, <2>3, ThreadStable
<1>2. ASSUME NEW q \in Procs PROVE Caches(q)'
  <2>1. CASE state[q] = None
    BY <2>1 DEF Caches
  <2>2. CASE state[q] # None
    <3>1. Steady(state[q].conn) /\ SameCore(q) /\ Caches(q)
      BY <1>0, <2>2 DEF KnowledgeInv, SameCore, OwnerInv
    <3> QED
      BY <3>1, ProcStable
  <2> QED
    BY <2>1, <2>2
<1> QED
  BY <1>1, <1>2 DEF TrafficInv, KnowledgeInv

\* The token takes up the request of thread t, which waits on c.
LEMMA TurnOwner ==
  ASSUME Typed, MutexInv, OwnerInv, ServerInv, TrafficInv, KnowledgeInv,
         NEW c \in Conns, TakesTurn(c), NEW t \in Threads, Placed(t), ConnOf(t) = c
  PROVE  /\ AwaitingToken(t) /\ link[c].up = <<Asked(t)>> /\ link[c].down = <<>>
         /\ link'[c].up = <<>> /\ link'[c].dev = "serving" /\ Serving(c)
         /\ backend \in Backends /\ backend.signing = backend.public /\ Asked(t) \in Requests
         /\ \/ link'[c].down = <<>> /\ UNCHANGED backend
            \/ \E o \in dispatch(Asked(t), backend) :
                 /\ link'[c].down = <<o.rsp>> /\ o.rsp \in Responses
                 /\ backend' = o.be /\ o.be \in Backends
<1>0. /\ backend \in Backends /\ link[c].up # <<>> /\ Head(link[c].up) \in Requests
      /\ Serving(c) /\ backend' \in Backends
  BY TurnFields
<1>1. AwaitingToken(t)
  <2>1. ASSUME call[t].at = "store" PROVE FALSE
    <3>1. call[t].conn = c
      BY <2>1 DEF ConnOf, Handshaking
    <3> QED
      BY <1>0, <2>1, <3>1 DEF KnowledgeInv, Learns, Quiet
  <2> QED
    BY <2>1, PlacedIs DEF AwaitingToken
<1>2. Waits(t)
  BY DEF TrafficInv
<1>3. link[c].up = <<Asked(t)>> /\ link[c].down = <<>>
  BY <1>0, <1>1, <1>2 DEF Waits
<1>4. Head(link[c].up) = Asked(t) /\ Tail(link[c].up) = <<>>
  BY <1>3
<1>5. link[c].host
  BY ConnsApart
<1>6. /\ link'[c].dev = "serving" /\ link'[c].up = <<>>
      /\ \/ link'[c].down = <<>> /\ UNCHANGED backend
         \/ \E o \in dispatch(Asked(t), backend) :
              /\ link'[c].down = <<o.rsp>> /\ o.rsp \in Responses
              /\ backend' = o.be /\ o.be \in Backends
  <2>1. link'[c].dev = "serving" /\ link'[c].up = <<>>
    BY <1>4, TurnFields
  <2>2. CASE link'[c].down = link[c].down /\ UNCHANGED backend
    BY <1>3, <2>1, <2>2
  <2>3. ASSUME NEW o \in dispatch(Asked(t), backend), backend' = o.be, o.rsp \in Responses,
               link'[c].down = Append(link[c].down, o.rsp)
        PROVE  link'[c].down = <<o.rsp>> /\ o.rsp \in Responses /\ backend' = o.be /\ o.be \in Backends
    <3>1. Append(<<>>, o.rsp) = <<o.rsp>>
      OBVIOUS
    <3> QED
      BY <1>0, <1>3, <2>3, <3>1
  <2>4. \/ link'[c].down = link[c].down /\ UNCHANGED backend
        \/ \E o \in dispatch(Asked(t), backend) :
             /\ backend' = o.be /\ o.rsp \in Responses
             /\ link'[c].down = Append(link[c].down, o.rsp)
    BY <1>4, <1>5, TurnFields
  <2> QED
    BY <2>1, <2>2, <2>3, <2>4
<1>7. backend.signing = backend.public
  BY <1>0, NoneIsNoBackend DEF ServerInv
<1> QED
  BY <1>0, <1>1, <1>3, <1>4, <1>6, <1>7

\* The answer is the one thread t waits for.
LEMMA TurnAnswers ==
  ASSUME Typed, MutexInv, OwnerInv, ServerInv, TrafficInv, KnowledgeInv,
         ResponseBufLen >= 64,
         UNCHANGED <<state, holder, call>>,
         NEW c \in Conns, TakesTurn(c), NEW t \in Threads, Placed(t), ConnOf(t) = c,
         link[c].down = <<>>, Serving(c), AwaitingToken(t), Asked(t) \in Requests,
         backend \in Backends, backend.signing = backend.public,
         NEW o \in dispatch(Asked(t), backend), backend' = o.be, o.be \in Backends
  PROVE  Answers(t, o.rsp)'
<1> DEFINE p == ProcOf[t]
<1>0. /\ o.be.signing = o.be.public /\ o.be.param = backend.param
      /\ backend.param \in ParamSets /\ backend.signing \in Keys /\ o.be.signing \in Keys
  BY DispatchSays DEF Backends
<1>1. Learns(t) /\ (InExchange(t) => p \in Procs /\ state[p] # None /\ Caches(p) /\ c = state[p].conn)
  BY ExchangeFields DEF KnowledgeInv, ConnOf, Uninitialized, InExchange, Handshaking
<1>2. InExchange(t) => /\ state[p].pk = KeyBytes(backend.param, backend.signing)
                       /\ state[p].pk.param = state[p].param
  BY <1>1 DEF Caches, NewKeyUnderWay, TokenKey
<1>3. CASE o.rsp.status # "Ok"
  BY <1>3 DEF Answers
<1>4. CASE o.rsp.status = "Ok" /\ call[t].at = "get_info"
  <2>1. Asked(t) = GetInfoReq /\ GetInfoReq.cmd = "GetInfo"
    BY <1>4 DEF Asked, GetInfoReq, Request
  <2>2. o.rsp.body = InfoBytes(backend.param) /\ InfoBytes(backend.param).kind = "info"
    BY <1>4, <2>1, DispatchSays DEF InfoBytes
  <2> QED
    BY <1>0, <1>4, <2>2 DEF Answers, InfoBytes
<1>5. CASE o.rsp.status = "Ok" /\ call[t].at = "get_public_key"
  <2>1. Asked(t) = GetPublicKeyReq /\ GetPublicKeyReq.cmd = "GetPublicKey"
    BY <1>5 DEF Asked, GetPublicKeyReq, Request
  <2>2. o.rsp.body = KeyBytes(backend.param, backend.signing) /\ o.be = backend
    BY <1>5, <2>1, DispatchSays
  <2>3. call[t].param = backend.param
    BY <1>1, <1>5 DEF Learns, ConnOf, Handshaking
  <2>4. o.rsp.body \in PublicKeys /\ o.rsp.body.param = call[t].param
    BY <1>0, <2>2, <2>3, PayloadTypes DEF KeyBytes, PublicKeys
  <2> QED
    BY <1>5, <2>2, <2>4 DEF Answers, TokenKey
<1>6. CASE o.rsp.status = "Ok" /\ call[t].at = "sign_wait"
  <2>1. Asked(t) = SignReq(call[t].msg) /\ SignReq(call[t].msg).cmd = "Sign"
        /\ SignReq(call[t].msg).msg = call[t].msg
    BY <1>6 DEF Asked, SignReq, Request
  <2>2. o.rsp.body = SigBytes(backend.param, backend.signing, call[t].msg)
    BY <1>6, <2>1, DispatchSays
  <2>3. state[p].pk.param = backend.param /\ state[p].pk.key = backend.signing
    BY <1>2, <1>6 DEF InExchange, KeyBytes
  <2> QED
    BY <1>6, <2>2, <2>3 DEF Answers
<1>7. CASE o.rsp.status = "Ok" /\ call[t].at = "gen_wait"
  <2>1. Asked(t) = GenerateReq /\ GenerateReq.cmd = "GenerateKeypair"
    BY <1>7 DEF Asked, GenerateReq, Request
  <2>2. o.rsp.body = KeyBytes(backend.param, o.be.signing)
    BY <1>7, <2>1, DispatchSays
  <2>3. state[p].param = backend.param
    BY <1>2, <1>7 DEF InExchange, KeyBytes
  <2>4. o.rsp.body \in PublicKeys /\ o.rsp.body.param = state[p].param
    BY <1>0, <2>2, <2>3 DEF KeyBytes, PublicKeys
  <2> QED
    BY <1>0, <1>7, <2>2, <2>4 DEF Answers, TokenKey
<1> QED
  BY <1>3, <1>4, <1>5, <1>6, <1>7 DEF AwaitingToken

\* A turn of the token's loop keeps traffic and knowledge.
LEMMA TurnKeeps ==
  ASSUME Typed, MutexInv, OwnerInv, ServerInv, TrafficInv, KnowledgeInv,
         ResponseBufLen >= 64,
         UNCHANGED <<state, holder, call>>, NEW c \in Conns, TakesTurn(c)
  PROVE  TrafficInv' /\ KnowledgeInv'
<1>0. /\ ProcOf \in [Threads -> Procs] /\ link \in [Conns -> Channels]
      /\ \A q \in Procs : state[q] # None => state[q].conn \in Conns
      /\ \A u \in Threads : InExchange(u) => state[ProcOf[u]] # None
      /\ \A q \in Procs : holder[q] # None => /\ holder[q] \in Threads /\ ProcOf[holder[q]] = q
                                             /\ InExchange(holder[q])
      /\ Serving(c) /\ link[c].up # <<>>
  BY ProviderAssumption
     DEF Typed, LinkTypeOK, ProviderTypeOK, ProviderState, MutexInv, TakesTurn, Serving
<1>1. \A d \in Conns : d # c => link'[d] = link[d] /\ link[d].dev # "serving"
  BY <1>0, TurnFields DEF ServerInv, Serving
<1>2. \A d \in Conns : d # c => Steady(d)
  BY <1>1 DEF Steady
<1>3. ASSUME NEW u \in Threads PROVE Waits(u)' /\ Learns(u)'
  <2>1. CASE ~Placed(u)
    <3>1. ~Placed(u)'
      BY <2>1 DEF Placed, Handshaking, InExchange
    <3> QED
      BY <3>1, UnplacedThread
  <2>2. CASE Placed(u) /\ ConnOf(u) # c
    <3>1. ConnOf(u) \in Conns /\ Steady(ConnOf(u))
      BY <1>2, <2>2, ConnsApart
    <3>2. InExchange(u) => SameCore(ProcOf[u])
      BY <1>0 DEF SameCore
    <3>3. Waits(u) /\ Learns(u) /\ call'[u] = call[u]
      BY DEF TrafficInv, KnowledgeInv
    <3> QED
      BY <3>1, <3>2, <3>3, ThreadStable
  <2>3. CASE Placed(u) /\ ConnOf(u) = c
    <3>1. /\ AwaitingToken(u) /\ link'[c].up = <<>> /\ link'[c].dev = "serving"
          /\ backend \in Backends /\ backend.signing = backend.public /\ Asked(u) \in Requests
          /\ link[c].down = <<>>
      BY <2>3, TurnOwner
    <3>2. ConnOf(u)' = c /\ AwaitingToken(u)' /\ Asked(u)' = Asked(u)
      BY <2>3, <3>1 DEF ConnOf, Handshaking, AwaitingToken, Asked, SignReq, GenerateReq,
                        GetInfoReq, GetPublicKeyReq
    <3>3. link'[c].down = <<>> \/ \E rsp \in Responses : link'[c].down = <<rsp>> /\ Answers(u, rsp)'
      BY <1>0, <2>3, <3>1, TurnOwner, TurnAnswers
    <3>4. Waits(u)'
      BY <3>1, <3>2, <3>3 DEF Waits
    <3>5. backend'.param = backend.param
      BY <2>3, <3>1, TurnOwner, DispatchSays
    <3>6. Learns(u)'
      <4>1. call[u].at # "store" /\ (call[u].at = "get_public_key" => call[u].conn = c)
        BY <2>3, <3>1 DEF AwaitingToken, ConnOf, Handshaking
      <4>2. Learns(u)
        BY DEF KnowledgeInv
      <4> QED
        BY <1>0, <3>1, <3>5, <4>1, <4>2 DEF Learns, Serving
    <3> QED
      BY <3>4, <3>6
  <2> QED
    BY <2>1, <2>2, <2>3
<1>4. ASSUME NEW q \in Procs PROVE Caches(q)'
  <2>1. CASE state[q] = None
    BY <2>1 DEF Caches
  <2>2. CASE state[q] # None /\ state[q].conn # c
    <3>1. Steady(state[q].conn) /\ SameCore(q) /\ Caches(q)
      BY <1>0, <1>2, <2>2 DEF KnowledgeInv, SameCore
    <3> QED
      BY <3>1, ProcStable
  <2>3. CASE state[q] # None /\ state[q].conn = c
    <3>1. Caches(q)
      BY DEF KnowledgeInv
    <3>2. holder[q] # None
      BY <1>0, <2>3, <3>1 DEF Caches, Quiet
    <3> DEFINE u == holder[q]
    <3>3. u \in Threads /\ Placed(u) /\ ConnOf(u) = c /\ InExchange(u)
      BY <1>0, <2>3, <3>2 DEF Placed, ConnOf, Handshaking, InExchange
    <3>4. /\ link'[c].dev = "serving" /\ link[c].down = <<>>
          /\ backend \in Backends /\ backend.signing = backend.public /\ Asked(u) \in Requests
      BY <3>3, TurnOwner
    <3>5. state[q].pk = TokenKey
      BY <1>0, <2>3, <3>1, <3>4 DEF Caches, NewKeyUnderWay
    <3>6. TokenKey' = TokenKey \/ NewKeyUnderWay(q)'
      <4>1. CASE UNCHANGED backend
        BY <4>1 DEF TokenKey
      <4>2. ASSUME NEW o \in dispatch(Asked(u), backend), backend' = o.be,
                   link'[c].down = <<o.rsp>>, backend' # backend
            PROVE  NewKeyUnderWay(q)'
        <5>1. Asked(u).cmd = "GenerateKeypair" /\ o.rsp.status = "Ok"
          BY <3>4, <4>2, DispatchSays
        <5>2. call[u].at = "gen_wait"
          BY <3>3, <5>1 DEF Asked, InExchange, SignReq, Request
        <5>3. Head(link'[c].down) = o.rsp /\ link'[c].down # <<>>
          BY <4>2
        <5> QED
          BY <2>3, <3>2, <5>1, <5>2, <5>3 DEF NewKeyUnderWay, Response
      <4> QED
        BY <3>3, <4>1, <4>2, TurnOwner
    <3> QED
      BY <2>3, <3>1, <3>2, <3>4, <3>5, <3>6 DEF Caches
  <2> QED
    BY <2>1, <2>2, <2>3
<1> QED
  BY <1>3, <1>4 DEF TrafficInv, KnowledgeInv

-----------------------------------------------------------------------------
(* OneOutstanding.                                                         *)

\* No frame, or one, is at most one.
LEMMA OneFrame ==
  /\ Len(<<>>) + Len(<<>>) <= 1
  /\ \A x : Len(<<x>>) + Len(<<>>) <= 1
  OBVIOUS

\* Taking a frame away, or moving it to the other direction, adds none.
LEMMA Counts ==
  ASSUME NEW a \in Nat, NEW b \in Nat, a + b <= 1
  PROVE  /\ \A x \in {a, 0}, y \in {b, 0} : x + y <= 1
         /\ (a - 1) + b <= 1 /\ (a - 1) + (b + 1) <= 1
  OBVIOUS

\* A step on one connection that leaves at most one frame there keeps OneOutstanding.
LEMMA OneAtATime ==
  ASSUME Typed, NEW c \in Conns, OneOutstanding,
         \A d \in Conns : d # c => link'[d] = link[d],
         link'[c].host => Len(link'[c].up) + Len(link'[c].down) <= 1
  PROVE  OneOutstanding'
  BY DEF OneOutstanding

\* No frame more on any connection, and none opened.
LEMMA NoMore ==
  ASSUME Typed, OneOutstanding,
         \A d \in Conns : /\ link'[d].host => link[d].host
                          /\ link'[d].up \in {link[d].up, <<>>}
                          /\ link'[d].down \in {link[d].down, <<>>}
  PROVE  OneOutstanding'
<1> SUFFICES ASSUME NEW d \in Conns, link'[d].host
             PROVE  Len(link'[d].up) + Len(link'[d].down) <= 1
  BY DEF OneOutstanding
<1>1. link[d].up \in Seq(Requests) /\ link[d].down \in Seq(Responses)
  BY DEF Typed, LinkTypeOK, Channels
<1>2. Len(link[d].up) \in Nat /\ Len(link[d].down) \in Nat
  BY <1>1, LenProperties
<1>3. Len(link[d].up) + Len(link[d].down) <= 1
  BY DEF OneOutstanding
<1>4. Len(<<>>) = 0
  OBVIOUS
<1>5. /\ Len(link'[d].up) \in {Len(link[d].up), 0}
      /\ Len(link'[d].down) \in {Len(link[d].down), 0}
  BY <1>4
<1> QED
  BY <1>2, <1>3, <1>5, Counts

\* The provider writes a request only to a connection that carries nothing.
LEMMA OneProvider ==
  ASSUME Typed, MutexInv, OwnerInv, ServerInv, PortInv, TrafficInv, KnowledgeInv,
         OneOutstanding, ProviderKinds
  PROVE  OneOutstanding'
<1>0. /\ link \in [Conns -> Channels] /\ ProcOf \in [Threads -> Procs]
      /\ \A p \in Procs : state[p] # None => state[p].conn \in Conns
  BY ProviderAssumption DEF Typed, LinkTypeOK, ProviderTypeOK, ProviderState
<1>1. ASSUME UNCHANGED link PROVE OneOutstanding'
  BY <1>1 DEF OneOutstanding
<1>2. ASSUME NEW t \in Threads, Dials(t) PROVE OneOutstanding'
  <2>1. PICK c \in Conns : Fresh(t, c)
    BY <1>2, DialFields
  <2>2. link'[c].up = <<GetInfoReq>> /\ link'[c].down = <<>>
    BY <2>1, FreshIsEmpty
  <2>3. Len(link'[c].up) + Len(link'[c].down) <= 1
    BY <2>2, OneFrame
  <2>4. \A d \in Conns : d # c => link'[d] = link[d]
    BY <2>1 DEF Fresh
  <2> QED
    BY <2>3, <2>4, OneAtATime
<1>3. ASSUME NEW c \in Conns, NEW ch \in Channels, NEW req \in Requests,
             ch.up = <<>>, ch.down = <<>>, link' = [link EXCEPT ![c] = HostSends(ch, req)]
      PROVE  OneOutstanding'
  <2>1. link'[c].up \in {<<>>, <<req>>} /\ link'[c].down = <<>>
    BY <1>0, <1>3, SendEmpty
  <2>2. Len(link'[c].up) + Len(link'[c].down) <= 1
    BY <2>1, OneFrame
  <2>3. \A d \in Conns : d # c => link'[d] = link[d]
    BY <1>0, <1>3
  <2> QED
    BY <2>2, <2>3, OneAtATime
<1>4. ASSUME NEW t \in Threads, Sends(t) PROVE OneOutstanding'
  <2> DEFINE c == state[ProcOf[t]].conn
  <2>1. c \in Conns /\ link[c] \in Channels /\ Quiet(link[c])
    BY <1>0, <1>4 DEF Sends, KnowledgeInv, Caches
  <2>2. \E req \in Requests : link' = [link EXCEPT ![c] = HostSends(link[c], req)]
    BY <1>4 DEF Sends
  <2> HIDE DEF c
  <2> QED
    BY <1>3, <2>1, <2>2 DEF Quiet
<1>5. ASSUME NEW t \in Threads, AwaitingToken(t), NEW c \in Conns, c = ConnOf(t), Arrived(c)
      PROVE  /\ link[c] \in Channels /\ HostReads(link[c]) \in Channels
             /\ HostReads(link[c]).up = <<>> /\ HostReads(link[c]).down = <<>>
             /\ link[c].up = <<>>
  <2>1. link[c] \in Channels /\ link[c].up = <<>> /\ Tail(link[c].down) = <<>>
    BY <1>5, AnswerRead DEF TrafficInv
  <2> QED
    BY <1>5, <2>1, ReadFields, ChannelTypes DEF Arrived
<1>6. ASSUME NEW t \in Threads, AwaitingToken(t), NEW c \in Conns, c = ConnOf(t), Arrived(c),
             link' = [link EXCEPT ![c] = HostReads(@)]
      PROVE  OneOutstanding'
  <2>1. link'[c] = HostReads(link[c]) /\ \A d \in Conns : d # c => link'[d] = link[d]
    BY <1>0, <1>6
  <2>2. link'[c].up = <<>> /\ link'[c].down = <<>>
    BY <1>5, <1>6, <2>1
  <2>3. Len(link'[c].up) + Len(link'[c].down) <= 1
    BY <2>2, OneFrame
  <2> QED
    BY <2>1, <2>3, OneAtATime
<1>7. ASSUME NEW t \in Threads, Finishes(t) \/ GenerateReply(t) PROVE OneOutstanding'
  <2> DEFINE c == state[ProcOf[t]].conn
  <2>1. AwaitingToken(t) /\ c = ConnOf(t) /\ InExchange(t)
    BY <1>7 DEF Finishes, GenerateReply, InExchange, AwaitingToken, ConnOf, Handshaking
  <2>2. c \in Conns
    BY <2>1, ExchangeFields
  <2>3. UNCHANGED link \/ (Arrived(c) /\ link' = [link EXCEPT ![c] = HostReads(@)])
    BY <1>7 DEF Finishes, GenerateReply, TakeFrom
  <2> HIDE DEF c
  <2> QED
    BY <1>1, <1>6, <2>1, <2>2, <2>3
<1>8. ASSUME NEW t \in Threads, InfoReply(t) \/ PublicKeyReply(t) PROVE OneOutstanding'
  <2> DEFINE c == call[t].conn
  <2>1. AwaitingToken(t) /\ Handshaking(t) /\ Arrived(c)
    BY <1>8 DEF InfoReply, PublicKeyReply, AwaitingToken, Handshaking
  <2>2. c = ConnOf(t) /\ c \in Conns
    BY <2>1, HandshakeAlone
  <2>3. \/ link' = [link EXCEPT ![c] = HostReads(@)]
        \/ link' = [link EXCEPT ![c] = HostSends(HostReads(link[c]), GetPublicKeyReq)]
    BY <1>8 DEF InfoReply, PublicKeyReply, TakeFrom
  <2> HIDE DEF c
  <2> QED
    BY <1>3, <1>5, <1>6, <2>1, <2>2, <2>3, RequestTypes
<1>9. ASSUME NEW c \in Conns, \A d \in Conns : d # c => link'[d] = link[d], ~link'[c].host
      PROVE  OneOutstanding'
  BY <1>9, OneAtATime
<1>10. ASSUME NEW t \in Threads, HandshakeFails(t) PROVE OneOutstanding'
  <2> DEFINE c == call[t].conn
             read == IF Arrived(c) THEN HostReads(link[c]) ELSE link[c]
  <2>1. Handshaking(t) /\ link' = [link EXCEPT ![c] = HostCloses(read)]
    BY <1>10 DEF HandshakeFails, Handshaking
  <2>2. c \in Conns /\ link[c] \in Channels
    BY <1>0, <2>1, HandshakeAlone
  <2>3. read \in Channels
    BY <2>2, ChannelTypes DEF Arrived
  <2> HIDE DEF c, read
  <2>4. link'[c] = HostCloses(read)
    BY <1>0, <2>1, <2>2
  <2> QED
    BY <1>0, <1>9, <2>1, <2>2, <2>3, <2>4, CloseFields
<1>11. ASSUME NEW t \in Threads, Store(t) \/ Finalize(t) PROVE OneOutstanding'
  <2> DEFINE p == ProcOf[t]
             c == state[p].conn
  <2>1. DropState(p)
    BY <1>11 DEF Store, Finalize
  <2>2. CASE state[p] = None
    BY <1>1, <2>1, <2>2 DEF DropState, Uninitialized
  <2>3. CASE state[p] # None
    <3>1. c \in Conns /\ link[c] \in Channels /\ link' = [link EXCEPT ![c] = HostCloses(@)]
      BY <1>0, <2>1, <2>3 DEF DropState, Uninitialized
    <3> HIDE DEF c
    <3> QED
      BY <1>0, <1>9, <3>1, CloseFields
  <2> QED
    BY <2>2, <2>3
<1>12. ASSUME NEW p \in Procs, Leaving(p) PROVE OneOutstanding'
  <2>1. \A d \in Conns : link'[d] = link[d] \/ ~link'[d].host
    BY <1>12, LeaveFields
  <2> QED
    BY <2>1 DEF OneOutstanding
<1> QED
  BY <1>1, <1>2, <1>4, <1>7, <1>8, <1>10, <1>11, <1>12
     DEF ProviderKinds, ThreadKinds, Looks, Turns, linkVars

\* The token writes an answer only for a request that it has read.
LEMMA OneTurn ==
  ASSUME Typed, OneOutstanding, NEW c \in Conns, TakesTurn(c)
  PROVE  OneOutstanding'
<1>0. /\ \A d \in Conns : d # c => link'[d] = link[d]
      /\ link'[c].host = link[c].host /\ link'[c].up = Tail(link[c].up) /\ link[c].up # <<>>
      /\ link[c].up \in Seq(Requests) /\ link[c].down \in Seq(Responses)
      /\ link[c].host => \/ link'[c].down = link[c].down
                         \/ \E rsp \in Responses : link'[c].down = Append(link[c].down, rsp)
  BY TurnFields DEF Channels
<1>1. /\ Len(link[c].up) \in Nat /\ Len(link[c].up) >= 1 /\ Len(link[c].down) \in Nat
      /\ Len(Tail(link[c].up)) = Len(link[c].up) - 1
      /\ \A x : Len(Append(link[c].down, x)) = Len(link[c].down) + 1
  BY <1>0
<1>2. link[c].host => Len(link[c].up) + Len(link[c].down) <= 1
  BY DEF OneOutstanding
<1>3. link'[c].host => Len(link'[c].up) + Len(link'[c].down) <= 1
  <2>1. Len(link'[c].up) = Len(link[c].up) - 1
    BY <1>0, <1>1
  <2>2. link[c].host => Len(link'[c].down) \in {Len(link[c].down), Len(link[c].down) + 1}
    BY <1>0, <1>1
  <2> QED
    BY <1>0, <1>1, <1>2, <2>1, <2>2, Counts
<1> QED
  BY <1>0, <1>3, OneAtATime

-----------------------------------------------------------------------------
(* PortInv.                                                                *)

\* What a step of the provider must leave on the serial port: nothing, when nobody
\* has it open.
LEMMA PortKept ==
  ASSUME PortInv, Serial, KeepsServer, UNCHANGED backend,
         \A d \in Conns : link'[d] = link[d] \/ link'[d].host \/ Quiet(link'[d])
  PROVE  PortInv'
  BY DEF PortInv, KeepsServer, Quiet

\* On the serial port every process but the one at work has a port that is gone.
LEMMA GoneIsQuiet ==
  ASSUME Serial, ServerInv, PortInv, NEW c \in Conns, NEW d \in Conns, Serving(c), c # d,
         link[d].dev \in {"closed", "queued", "serving"}
  PROVE  link[d].dev = "closed" /\ Quiet(link[d])
  BY DEF ServerInv, PortInv, Quiet, Serving

\* A panic leaves nothing on the serial port: the answer has just been read.
LEMMA LeavingQuiet ==
  ASSUME Prompt, Serial, Typed, MutexInv, OwnerInv, ServerInv, PortInv, TrafficInv,
         NEW p \in Procs, Leaving(p), NEW d \in Mine(p)
  PROVE  Quiet(link'[d])
<1>0. link \in [Conns -> Channels] /\ d \in Conns
  BY DEF Typed, LinkTypeOK, Mine
<1>1. PICK last \in [Conns -> Channels] :
        /\ LastRead(p, last)
        /\ link' = [c \in Conns |-> IF c \in Mine(p) THEN HostCloses(last[c]) ELSE last[c]]
  BY DEF Leaving
<1>2. PICK t \in Threads :
        /\ ProcOf[t] = p /\ InExchange(t) /\ Arrived(state[p].conn)
        /\ last = [link EXCEPT ![state[p].conn] = HostReads(@)]
  BY <1>1 DEF LastRead, Prompt
<1> DEFINE own == state[p].conn
<1>3. own \in Conns /\ AwaitingToken(t) /\ ConnOf(t) = own /\ Waits(t)
  BY <1>2, ExchangeFields DEF InExchange, AwaitingToken, ConnOf, Handshaking, TrafficInv
<1>4. /\ link[own] \in Channels /\ link[own].up = <<>> /\ Tail(link[own].down) = <<>>
      /\ link[own].dev = "serving"
  <2>1. /\ link[own] \in Channels /\ link[own].up = <<>> /\ Tail(link[own].down) = <<>>
        /\ link[own].down # <<>>
    BY <1>2, <1>3, AnswerRead DEF Arrived
  <2>2. link[own].dev \in {"closed", "queued", "serving"}
    BY <2>1 DEF Channels
  <2> HIDE DEF own
  <2> QED
    BY <1>3, <2>1, <2>2 DEF PortInv
<1>5. last[d].up = <<>> /\ last[d].down = <<>>
  <2>1. CASE d = own
    <3>1. last[d] = HostReads(link[own])
      BY <1>0, <1>2, <2>1
    <3> HIDE DEF own
    <3> QED
      BY <1>4, <3>1, ReadFields
  <2>2. CASE d # own
    <3>1. last[d] = link[d]
      BY <1>0, <1>2, <2>2
    <3>2. link[d].dev \in {"closed", "queued", "serving"}
      BY <1>0 DEF Channels
    <3> HIDE DEF own
    <3> QED
      BY <1>0, <1>3, <1>4, <2>2, <3>1, <3>2, GoneIsQuiet DEF Serving, Quiet
  <2> QED
    BY <2>1, <2>2
<1>6. link'[d] = HostCloses(last[d]) /\ last[d] \in Channels
  BY <1>0, <1>1
<1> QED
  BY <1>5, <1>6, CloseFields DEF Quiet

\* The provider leaves nothing on a serial port that it closes.
LEMMA PortProvider ==
  ASSUME Prompt, Typed, MutexInv, OwnerInv, ServerInv, PortInv, TrafficInv, KnowledgeInv,
         UNCHANGED backend, ProviderKinds
  PROVE  PortInv'
<1> SUFFICES ASSUME Serial PROVE PortInv'
  BY DEF PortInv
<1>0. /\ link \in [Conns -> Channels] /\ ProcOf \in [Threads -> Procs]
      /\ \A p \in Procs : state[p] # None => state[p].conn \in Conns
      /\ \A p \in Procs : state[p] # None => link[state[p].conn].host
      /\ \A t \in Threads : Handshaking(t) => link[call[t].conn].host
  BY ProviderAssumption DEF Typed, LinkTypeOK, ProviderTypeOK, ProviderState, OwnerInv
<1>1. ASSUME KeepsServer, UNCHANGED link PROVE PortInv'
  BY <1>1, PortKept
<1>2. ASSUME NEW t \in Threads, Dials(t) PROVE PortInv'
  <2>1. PICK c \in Conns : Fresh(t, c)
    BY <1>2, DialFields
  <2>2. /\ link'[c].host /\ link'[c].dev = "serving" /\ UNCHANGED backlog
        /\ \A d \in Conns : d # c => link'[d] = link[d]
    BY <2>1 DEF Fresh
  <2>3. UNCHANGED listening
    BY <1>2 DEF Dials
  <2> QED
    BY <2>2, <2>3 DEF PortInv
<1>3. ASSUME NEW c \in Conns, NEW ch, ch.host = link[c].host, link[c].host,
             link' = [link EXCEPT ![c] = ch], KeepsServer
      PROVE  PortInv'
  <2>1. \A d \in Conns : link'[d] = link[d] \/ link'[d].host
    BY <1>0, <1>3
  <2> QED
    BY <1>3, <2>1, PortKept
<1>4. ASSUME NEW t \in Threads, Sends(t), KeepsServer PROVE PortInv'
  <2> DEFINE c == state[ProcOf[t]].conn
  <2>1. PICK req \in Requests : link' = [link EXCEPT ![c] = HostSends(link[c], req)]
    BY <1>4 DEF Sends
  <2>2. c \in Conns /\ link[c].host /\ link[c] \in Channels
    BY <1>0, <1>4 DEF Sends
  <2>3. HostSends(link[c], req).host = link[c].host
    BY <2>2, SendFields
  <2> HIDE DEF c
  <2> QED
    BY <1>3, <1>4, <2>1, <2>2, <2>3
<1>5. ASSUME NEW t \in Threads, Finishes(t) \/ GenerateReply(t), KeepsServer PROVE PortInv'
  <2> DEFINE c == state[ProcOf[t]].conn
  <2>1. c \in Conns /\ state[ProcOf[t]] # None /\ ProcOf[t] \in Procs /\ link[c] \in Channels
    BY <1>5, ExchangeFields DEF Finishes, GenerateReply, InExchange, Uninitialized
  <2>2. UNCHANGED link \/ link' = [link EXCEPT ![c] = HostReads(link[c])]
    BY <1>5 DEF Finishes, GenerateReply, TakeFrom
  <2>3. HostReads(link[c]).host = link[c].host /\ link[c].host
    BY <1>0, <2>1, ReadFields
  <2> HIDE DEF c
  <2> QED
    BY <1>1, <1>3, <1>5, <2>1, <2>2, <2>3
<1>6. ASSUME NEW t \in Threads, InfoReply(t) \/ PublicKeyReply(t), KeepsServer PROVE PortInv'
  <2> DEFINE c == call[t].conn
  <2>1. Handshaking(t) /\ Arrived(c)
    BY <1>6 DEF InfoReply, PublicKeyReply, Handshaking
  <2>2. c \in Conns /\ link[c].host /\ link[c] \in Channels
    BY <1>0, <2>1, HandshakeAlone
  <2>3. HostReads(link[c]) \in Channels
    BY <2>1, <2>2, ChannelTypes DEF Arrived
  <2>4. \/ link' = [link EXCEPT ![c] = HostReads(link[c])]
        \/ link' = [link EXCEPT ![c] = HostSends(HostReads(link[c]), GetPublicKeyReq)]
    BY <1>6 DEF InfoReply, PublicKeyReply, TakeFrom
  <2>5. /\ HostReads(link[c]).host = link[c].host
        /\ HostSends(HostReads(link[c]), GetPublicKeyReq).host = link[c].host
    BY <2>2, <2>3, ReadFields, SendFields, RequestTypes
  <2> HIDE DEF c
  <2> QED
    BY <1>3, <1>6, <2>2, <2>4, <2>5
<1>7. ASSUME NEW c \in Conns, NEW ch \in Channels, Quiet(ch), KeepsServer,
             link' = [link EXCEPT ![c] = HostCloses(ch)]
      PROVE  PortInv'
  <2>1. HostCloses(ch).up = <<>> /\ HostCloses(ch).down = <<>>
    BY <1>7, CloseFields DEF Quiet
  <2>2. link'[c] = HostCloses(ch) /\ \A d \in Conns : d # c => link'[d] = link[d]
    BY <1>0, <1>7
  <2>3. Quiet(link'[c])
    BY <2>1, <2>2 DEF Quiet
  <2> QED
    BY <1>7, <2>2, <2>3, PortKept
<1>8. ASSUME NEW t \in Threads, HandshakeFails(t), KeepsServer PROVE PortInv'
  <2> DEFINE c == call[t].conn
             read == IF Arrived(c) THEN HostReads(link[c]) ELSE link[c]
  <2>1. Handshaking(t) /\ AwaitingToken(t) /\ link' = [link EXCEPT ![c] = HostCloses(read)]
    BY <1>8 DEF HandshakeFails, Handshaking, AwaitingToken
  <2>2. c \in Conns /\ link[c] \in Channels /\ ConnOf(t) = c /\ Waits(t)
    BY <1>0, <2>1, HandshakeAlone DEF TrafficInv
  <2>3. read \in Channels /\ Quiet(read)
    <3>1. CASE Arrived(c)
      <4>1. link[c].up = <<>> /\ Tail(link[c].down) = <<>> /\ HostReads(link[c]) \in Channels
        BY <2>1, <2>2, <3>1, AnswerRead, ChannelTypes DEF Arrived
      <4> HIDE DEF c
      <4> QED
        BY <2>2, <3>1, <4>1, ReadFields DEF Quiet
    <3>2. CASE ~Arrived(c)
      <4>1. ReadFails(link[c])
        BY <1>8, <3>2 DEF HandshakeFails, HandshakeBroken
      <4> QED
        BY <2>2, <3>2, <4>1, SilentReads
    <3> QED
      BY <3>1, <3>2
  <2> HIDE DEF c, read
  <2> QED
    BY <1>7, <1>8, <2>1, <2>2, <2>3
<1>9. ASSUME NEW t \in Threads, Store(t) \/ Finalize(t), KeepsServer PROVE PortInv'
  <2> DEFINE p == ProcOf[t]
             c == state[p].conn
  <2>1. DropState(p) /\ p \in Procs /\ holder[p] = None
    BY <1>0, <1>9 DEF Store, Finalize, MutexFree
  <2>2. CASE state[p] = None
    BY <1>1, <1>9, <2>1, <2>2 DEF DropState, Uninitialized
  <2>3. CASE state[p] # None
    <3>1. c \in Conns /\ link[c] \in Channels /\ link' = [link EXCEPT ![c] = HostCloses(link[c])]
      BY <1>0, <2>1, <2>3 DEF DropState, Uninitialized
    <3>2. Quiet(link[c])
      BY <2>1, <2>3 DEF KnowledgeInv, Caches
    <3> HIDE DEF c
    <3> QED
      BY <1>7, <1>9, <3>1, <3>2
  <2> QED
    BY <2>2, <2>3
<1>10. ASSUME NEW p \in Procs, Leaving(p), KeepsServer PROVE PortInv'
  <2>1. \A d \in Conns : link'[d] = link[d] \/ Quiet(link'[d])
    BY <1>10, LeaveFields, LeavingQuiet
  <2> QED
    BY <1>10, <2>1, PortKept
<1>11. CASE KeepsServer
  BY <1>1, <1>2, <1>4, <1>5, <1>6, <1>8, <1>9, <1>10, <1>11
     DEF ProviderKinds, ThreadKinds, Looks, Turns, linkVars
<1> QED
  BY <1>2, <1>11, ProviderKeepsServer

\* A turn answers whoever has the port open.
LEMMA PortTurn ==
  ASSUME Typed, PortInv, NEW c \in Conns, TakesTurn(c)
  PROVE  PortInv'
<1> SUFFICES ASSUME Serial PROVE PortInv'
  BY DEF PortInv
<1>1. /\ \A d \in Conns : d # c => link'[d] = link[d]
      /\ link'[c].host = link[c].host /\ link'[c].dev = "serving" /\ link[c].up # <<>>
      /\ UNCHANGED <<backlog, listening>> /\ backend \in Backends
  BY TurnFields
<1>2. listening
  BY <1>1, NoneIsNoBackend DEF PortInv
<1>3. link[c].host
  BY <1>1 DEF PortInv, Quiet
<1> QED
  BY <1>1, <1>2, <1>3 DEF PortInv

-----------------------------------------------------------------------------
(* The invariant as a whole.                                               *)

\* What the three parts of a system must be at the start.
AtRest == /\ link = [c \in Conns |-> Unused] /\ backlog = <<>> /\ listening = FALSE /\ backend = None
          /\ ProviderInit

\* At the start everything is typed, and nothing is under way.
LEMMA RestPairing ==
  ASSUME AtRest
  PROVE  Typed /\ IndInv
<1>1. /\ link = [c \in Conns |-> Unused] /\ backlog = <<>> /\ listening = FALSE /\ backend = None
      /\ state = [p \in Procs |-> None] /\ call = [t \in Threads |-> Idle]
      /\ holder = [p \in Procs |-> None] /\ panicked = {}
  BY DEF AtRest, ProviderInit
<1>2. \A c \in Conns : link[c] = Unused
  BY <1>1
<1>3. Typed
  <2>1. Unused \in Channels /\ Idle \in Places
    BY DEF Channels, Unused, Places
  <2>2. backlog \in Seq(Conns) /\ listening \in BOOLEAN
    <3>1. <<>> \in Seq(Conns)
      OBVIOUS
    <3> QED
      BY <1>1, <3>1
  <2> QED
    BY <1>1, <2>1, <2>2 DEF Typed, LinkTypeOK, ProviderTypeOK
<1>4. \A t \in Threads : ~Placed(t) /\ ~Handshaking(t) /\ ~AwaitingToken(t) /\ call[t].at = "idle"
  BY <1>1 DEF Placed, Handshaking, InExchange, AwaitingToken, Idle
<1>5. MutexInv /\ OwnerInv
  BY <1>1, <1>4, ProviderAssumption DEF OwnerInv, MutexInv, Placed
<1>6. ServerInv /\ PortInv
  <2>1. Len(backlog) = 0
    BY <1>1
  <2> QED
    BY <1>1, <1>2, <2>1 DEF ServerInv, PortInv, Serving, Unused, Quiet
<1>7. TrafficInv /\ KnowledgeInv
  BY <1>1, <1>4 DEF TrafficInv, KnowledgeInv, Waits, Learns, Caches
<1>8. OneOutstanding
  BY <1>2 DEF OneOutstanding, Unused
<1> QED
  BY <1>3, <1>5, <1>6, <1>7, <1>8 DEF IndInv

\* A step of the token that opens and closes no host's end leaves the owners.
LEMMA OwnerKept ==
  ASSUME Typed, OwnerInv, UNCHANGED <<state, call>>,
         \A c \in Conns : link'[c].host = link[c].host
  PROVE  OwnerInv'
<1>1. /\ \A p \in Procs : state[p] # None => state[p].conn \in Conns
      /\ \A t \in Threads : Handshaking(t) => call[t].conn \in Conns
  BY PlaceFields DEF Typed, ProviderTypeOK, ProviderState, Handshaking
<1> QED
  BY <1>1 DEF OwnerInv, Handshaking

\* Every step of the provider keeps the types and the mutexes.
LEMMA ProviderTyped ==
  ASSUME Typed, MutexInv, ProviderNext, UNCHANGED backend
  PROVE  Typed' /\ MutexInv'
<1>1. Shape /\ backlog' \in Seq(Conns) /\ listening' \in BOOLEAN
  BY ProviderType, ProviderBacklog DEF Typed, LinkTypeOK
<1>2. Typed'
  BY <1>1 DEF Shape, Typed, LinkTypeOK
<1> QED
  BY <1>2, ProviderStepKinds, MutexProvider

\* Every step of the provider keeps the whole invariant.
LEMMA ProviderPairing ==
  ASSUME Prompt, Typed, IndInv, ProviderNext, UNCHANGED backend
  PROVE  Typed' /\ IndInv'
<1>1. ProviderKinds /\ Typed' /\ MutexInv'
  BY ProviderStepKinds, ProviderTyped DEF IndInv
<1>2. OwnerInv' /\ ServerInv'
  BY <1>1, OwnerProvider, ServerProvider DEF IndInv
<1>3. PortInv' /\ OneOutstanding'
  BY <1>1, PortProvider, OneProvider DEF IndInv
<1>4. TrafficInv' /\ KnowledgeInv'
  BY <1>1, ProviderKeeps DEF IndInv
<1> QED
  BY <1>1, <1>2, <1>3, <1>4 DEF IndInv

\* Every turn of the token's loop keeps the types.
LEMMA TurnTyped ==
  ASSUME Typed, NEW c \in Conns, TakesTurn(c), UNCHANGED <<state, holder, call, panicked>>
  PROVE  Typed'
<1>1. link' \in [Conns -> Channels]
  <2>1. /\ link \in [Conns -> Channels] /\ backend \in Backends
        /\ Head(link[c].up) \in Requests /\ TokenReads(link[c]) \in Channels
    BY TurnFields DEF Typed, LinkTypeOK
  <2>2. CASE link' = [link EXCEPT ![c] = TokenReads(@)]
    BY <2>1, <2>2
  <2>3. ASSUME NEW o \in dispatch(Head(link[c].up), backend),
               link' = [link EXCEPT ![c] = TokenWrites(TokenReads(@), o.rsp)]
        PROVE  link' \in [Conns -> Channels]
    <3>1. TokenWrites(TokenReads(link[c]), o.rsp) \in Channels
      BY <2>1, DispatchType, ChannelTypes
    <3> QED
      BY <2>1, <2>3, <3>1
  <2> QED
    BY <2>2, <2>3 DEF TakesTurn
<1> QED
  BY <1>1, TurnFields DEF Typed, LinkTypeOK, ProviderTypeOK

\* Every turn of the token's loop keeps the whole invariant.
LEMMA TurnPairing ==
  ASSUME Typed, IndInv, ResponseBufLen >= 64, NEW c \in Conns, TakesTurn(c),
         UNCHANGED <<state, holder, call, panicked>>
  PROVE  Typed' /\ IndInv'
<1>1. Typed'
  BY TurnTyped
<1>2. MutexInv'
  BY DEF IndInv, MutexInv, InExchange
<1>3. OwnerInv'
  BY TurnFields, OwnerKept DEF IndInv
<1>4. ServerInv' /\ PortInv' /\ OneOutstanding'
  BY ServerTurn, PortTurn, OneTurn DEF IndInv
<1>5. TrafficInv' /\ KnowledgeInv'
  BY TurnKeeps DEF IndInv
<1> QED
  BY <1>1, <1>2, <1>3, <1>4, <1>5 DEF IndInv

\* A step of the token that at most takes frames away keeps the whole invariant, if
\* it keeps the token's own part of it.
LEMMA SteadyPairing ==
  ASSUME Typed, IndInv, UNCHANGED <<state, holder, call>>, ServerInv', PortInv',
         \A d \in Conns : link'[d].host = link[d].host,
         \A d \in Conns : link[d].host => Steady(d)
  PROVE  IndInv'
<1>1. MutexInv'
  BY DEF IndInv, MutexInv, InExchange
<1>2. OwnerInv'
  BY OwnerKept DEF IndInv
<1>3. TrafficInv' /\ KnowledgeInv'
  BY SteadyStep DEF IndInv
<1>4. OneOutstanding'
  <2> SUFFICES ASSUME NEW d \in Conns, link'[d].host
               PROVE  Len(link'[d].up) + Len(link'[d].down) <= 1
    BY DEF OneOutstanding
  <2>1. /\ link[d].host /\ Len(link[d].up) + Len(link[d].down) <= 1 /\ link[d] \in Channels
        /\ link'[d].up \in {link[d].up, <<>>} /\ link'[d].down \in {link[d].down, <<>>}
    BY DEF IndInv, OneOutstanding, Steady, Typed, LinkTypeOK
  <2>2. Len(link[d].up) \in Nat /\ Len(link[d].down) \in Nat /\ Len(<<>>) = 0
    BY <2>1 DEF Channels
  <2>3. Len(link'[d].up) \in {Len(link[d].up), 0} /\ Len(link'[d].down) \in {Len(link[d].down), 0}
    BY <2>1, <2>2
  <2> QED
    BY <2>1, <2>2, <2>3, Counts
<1> QED
  BY <1>1, <1>2, <1>3, <1>4 DEF IndInv

\* A step that changes neither a connection, nor the token, nor the provider keeps
\* the whole invariant.
LEMMA StutterPairing ==
  ASSUME Typed, IndInv, UNCHANGED <<linkVars, backend, state, holder, call, panicked>>
  PROVE  Typed' /\ IndInv'
<1>1. Typed' /\ ServerInv' /\ PortInv'
  BY DEF Typed, LinkTypeOK, ProviderTypeOK, IndInv, ServerInv, PortInv, Serving, Quiet, linkVars
<1>2. \A d \in Conns : link'[d].host = link[d].host /\ Steady(d)
  BY SameIsSteady DEF linkVars
<1> QED
  BY <1>1, <1>2, SteadyPairing

-----------------------------------------------------------------------------
(* What C_Sign hands out.                                                  *)

\* Only SignReply hands out a signature.
LEMMA OnlySignReplySigns ==
  ASSUME ProviderNext, Signed'
  PROVE  \E t \in Threads : SignReply(t)
<1> USE DEF Signed, Returns
<1>1. ASSUME NEW t \in Threads,
             \/ Initialize(t) \/ ConnectRefused(t) \/ Finalize(t) \/ OpenSession(t)
             \/ GetTokenInfo(t) \/ \E object \in ObjectHandles, template \in Templates :
                  GetAttributeValue(t, object, template)
      PROVE  FALSE
  BY <1>1 DEF Initialize, ConnectRefused, Finalize, OpenSession, GetTokenInfo, GetAttributeValue
<1>2. ASSUME NEW t \in Threads, Continues(t), ~SignReply(t) PROVE FALSE
  BY <1>2, SMTT(60)
     DEF Continues, InfoReply, PublicKeyReply, HandshakeFails, Store, SignDispatch,
              SignPanics, Ends, SignFails, GenerateReply, GenerateFails
<1>3. ASSUME NEW t \in Threads, NEW s \in Sessions,
             \/ CloseSession(t, s) \/ Login(t, s) \/ FindObjectsFinal(t, s) \/ SignInit(t, s)
             \/ GenerateKeyPair(t, s)
             \/ \E class \in Classes : FindObjectsInit(t, s, class)
             \/ \E room \in 0 .. 3 : FindObjects(t, s, room)
      PROVE  FALSE
  <2>1. CASE CloseSession(t, s) \/ Login(t, s) \/ FindObjectsFinal(t, s) \/ SignInit(t, s)
    BY <2>1 DEF CloseSession, Login, FindObjectsFinal, SignInit
  <2>2. CASE GenerateKeyPair(t, s)
    BY <2>2 DEF GenerateKeyPair
  <2>3. ASSUME NEW class \in Classes, FindObjectsInit(t, s, class)
        PROVE  FALSE
    BY <2>3 DEF FindObjectsInit
  <2>4. ASSUME NEW room \in 0 .. 3, FindObjects(t, s, room) PROVE FALSE
    <3>1. \E rv, out : Returns(t, "C_FindObjects", rv, out)
      BY <2>4 DEF FindObjects
    <3> QED
      BY <3>1
  <2> QED
    BY <1>3, <2>1, <2>2, <2>3, <2>4
<1>4. ASSUME NEW t \in Threads, NEW s \in Sessions, NEW m \in AllMsgs, NEW room \in Rooms,
             Sign(t, s, m, room)
      PROVE  FALSE
  BY <1>4 DEF Sign
<1>5. ASSUME NEW p \in Procs, Exit(p) PROVE FALSE
  BY <1>5 DEF Exit, Ends
<1> QED
  BY <1>1, <1>2, <1>3, <1>4, <1>5 DEF ProviderNext

\* A public key is of the public key kind.
LEMMA PublicKeyKind ==
  ASSUME NEW pk \in PublicKeys
  PROVE  pk.kind = "pk"
<1>1. PICK p \in ParamSets, k \in Keys : pk = KeyBytes(p, k)
  BY DEF PublicKeys
<1> QED
  BY <1>1 DEF KeyBytes

\* The signature that the provider hands out verifies, given the invariant.
LEMMA SignatureProvider ==
  ASSUME Typed, IndInv, ProviderNext
  PROVE  SignatureVerifies'
<1>1. ASSUME NEW t \in Threads, SignReply(t) PROVE SignatureVerifies'
  <2> DEFINE p == ProcOf[t]
             c == state[p].conn
  <2>1. /\ InExchange(t) /\ AwaitingToken(t) /\ ConnOf(t) = c /\ Arrived(c)
        /\ call[t].at = "sign_wait" /\ Response(c).status = "Ok"
    BY <1>1 DEF SignReply, Fits, InExchange, AwaitingToken, ConnOf, Handshaking
  <2>2. p \in Procs /\ state[p] # None /\ c \in Conns
    BY <2>1, ExchangeFields DEF IndInv, Uninitialized
  <2>3. Waits(t) /\ Caches(p) /\ ServerInv /\ MutexInv
    BY <2>2 DEF IndInv, TrafficInv, KnowledgeInv
  <2>4. Answers(t, Response(c))
    BY <2>1, <2>2, <2>3, AnswerRead
  <2>5. Response(c).body = SigBytes(state[p].pk.param, state[p].pk.key, call[t].msg)
    BY <2>1, <2>4 DEF Answers
  <2>6. state[p].pk.kind = "pk"
    <3>1. state[p].pk \in PublicKeys
      BY <2>2, <2>3 DEF Caches
    <3> QED
      BY <3>1, PublicKeyKind
  <2>7. state'[p].pk = state[p].pk
    BY <1>1, <2>2, <2>3, FinishKinds DEF Finishes, SameCores
  <2>8. ret'.by = t /\ ret'.out.msg = call[t].msg /\ ret'.out.sig = Response(c).body
    BY <1>1 DEF SignReply, Returns
  <2> HIDE DEF c
  <2> QED
    BY <2>5, <2>6, <2>7, <2>8 DEF SignatureVerifies, Verifies
<1> QED
  BY <1>1, OnlySignReplySigns DEF SignatureVerifies

\* The caller's buffer holds the bytes the first critical section promised.
RoomInv == \A t \in Threads :
             call[t].at \in {"sign", "sign_wait"} => call[t].exp <= call[t].room

\* Every step of the provider keeps the promise of the first critical section of c_sign.
LEMMA RoomProvider ==
  ASSUME Typed, RoomInv, ProviderNext
  PROVE  RoomInv'
<1>0. call \in [Threads -> Places] /\ ProcOf \in [Threads -> Procs] /\ Idle.at = "idle"
  BY ProviderAssumption DEF Typed, ProviderTypeOK, Idle
<1>1. ASSUME UNCHANGED call PROVE RoomInv'
  BY <1>1 DEF RoomInv
<1>2. ASSUME NEW t \in Threads, NEW place, Goes(t, place),
             place.at \in {"sign", "sign_wait"} => place.exp <= place.room
      PROVE  RoomInv'
  BY <1>0, <1>2 DEF Goes, RoomInv
<1>3. ASSUME NEW p, NEW last, Ends(p, last) PROVE RoomInv'
  BY <1>0, <1>3 DEF Ends, RoomInv
<1>4. ASSUME NEW t \in Threads, Continues(t) \/ Initialize(t) PROVE RoomInv'
  <2>1. CASE \E place : place.at \notin {"sign", "sign_wait"} /\ Goes(t, place)
    BY <1>2, <2>1
  <2>2. CASE SignDispatch(t)
    <3>1. CASE Goes(t, Idle)
      BY <1>0, <1>2, <3>1
    <3>2. CASE Goes(t, [call[t] EXCEPT !.at = "sign_wait"]) /\ call[t].at = "sign"
      <4>1. /\ [call[t] EXCEPT !.at = "sign_wait"].exp = call[t].exp
            /\ [call[t] EXCEPT !.at = "sign_wait"].room = call[t].room
        BY <1>0, <3>2 DEF Places, Idle
      <4> QED
        BY <1>2, <3>2, <4>1 DEF RoomInv
    <3> QED
      BY <2>2, <3>1, <3>2 DEF SignDispatch
  <2>3. CASE SignPanics(t)
    BY <1>3, <2>3 DEF SignPanics
  <2>4. CASE InfoReply(t) \/ PublicKeyReply(t) \/ Initialize(t)
    BY <1>2, <2>4 DEF InfoReply, PublicKeyReply, Initialize
  <2>5. CASE HandshakeFails(t) \/ Store(t) \/ SignReply(t) \/ SignFails(t) \/ GenerateReply(t)
             \/ GenerateFails(t)
    <3>1. Goes(t, Idle)
      BY <2>5 DEF HandshakeFails, Store, SignReply, SignFails, GenerateReply, GenerateFails
    <3> QED
      BY <1>0, <1>2, <3>1
  <2> QED
    BY <1>4, <2>2, <2>3, <2>4, <2>5 DEF Continues
<1>5. ASSUME NEW t \in Threads, NEW s \in Sessions,
             \/ CloseSession(t, s) \/ Login(t, s) \/ FindObjectsFinal(t, s) \/ SignInit(t, s)
             \/ \E class \in Classes : FindObjectsInit(t, s, class)
             \/ \E room \in 0 .. 3 : FindObjects(t, s, room)
      PROVE  RoomInv'
  BY <1>1, <1>5 DEF CloseSession, Login, FindObjectsFinal, SignInit, FindObjectsInit, FindObjects,
                    Untouched
<1>6. ASSUME NEW t \in Threads, NEW s \in Sessions, GenerateKeyPair(t, s) PROVE RoomInv'
  BY <1>1, <1>2, <1>6 DEF GenerateKeyPair
<1>7. ASSUME NEW t \in Threads, NEW s \in Sessions, NEW m \in AllMsgs, NEW room \in Rooms,
             Sign(t, s, m, room)
      PROVE  RoomInv'
  <2> DEFINE exp == signature_len_for[state[ProcOf[t]].param]
             place == [at |-> "sign", s |-> s, msg |-> m, room |-> room, exp |-> exp]
  <2>1. CASE UNCHANGED call
    BY <1>1, <2>1
  <2>2. CASE ~UNCHANGED call
    <3>1. Goes(t, place) /\ room # None /\ ~(room < exp) /\ SessionRv(ProcOf[t], s) = "OK"
      BY <1>7, <2>2 DEF Sign
    <3>2. exp \in Nat /\ room \in Nat
      BY <1>0, <3>1, SessionRvOk, StateFields, ProviderAssumption, SMTT(60)
         DEF signature_len_for, ParamSets
    <3>3. exp <= room
      BY <3>1, <3>2
    <3> HIDE DEF exp
    <3> QED
      BY <1>2, <3>1, <3>3
  <2> QED
    BY <2>1, <2>2
<1>8. ASSUME NEW t \in Threads,
             \/ ConnectRefused(t) \/ Finalize(t) \/ OpenSession(t) \/ GetTokenInfo(t)
             \/ \E object \in ObjectHandles, template \in Templates :
                  GetAttributeValue(t, object, template)
      PROVE  RoomInv'
  BY <1>1, <1>8 DEF ConnectRefused, Finalize, OpenSession, GetTokenInfo, GetAttributeValue, Untouched
<1> QED
  BY <1>3, <1>4, <1>5, <1>6, <1>7, <1>8 DEF ProviderNext, Exit

\* The provider hands out no signature longer than the caller's buffer.
LEMMA BufferProvider ==
  ASSUME RoomInv, ProviderNext
  PROVE  NeverOverrunsBuffer'
<1>1. ASSUME NEW t \in Threads, SignReply(t) PROVE NeverOverrunsBuffer'
  <2>1. call[t].exp <= call[t].room
    BY <1>1 DEF SignReply, RoomInv
  <2>2. \E c : Fits(t, Response(c)) /\ ret'.out.room = call[t].room
               /\ ret'.out.sig = Response(c).body
    BY <1>1 DEF SignReply, Returns
  <2> QED
    BY <2>1, <2>2 DEF Fits, NeverOverrunsBuffer
<1> QED
  BY <1>1, OnlySignReplySigns DEF NeverOverrunsBuffer

\* What OneSignaturePerInit says of a step.
OneSignature ==
  Signed' => LET p == ProcOf[ret'.by]
                 s == ret'.out.s
             IN /\ HasSession(p, s) /\ state[p].sessions[s].sign_active
                /\ ~state'[p].sessions[s].sign_active

\* The session of a careful application that gets a signature had one under way, and
\* has none afterwards (c_sign in pkcs11-provider/src/lib.rs).
LEMMA OneSignatureProvider ==
  ASSUME Typed, MutexInv, SessionInv, ProviderNext
  PROVE  OneSignature
<1>1. ASSUME NEW t \in Threads, SignReply(t) PROVE OneSignature
  <2> DEFINE p == ProcOf[t]
             s == call[t].s
             new == [state[p].sessions[s] EXCEPT !.sign_active = FALSE]
  <2>1. ret'.by = t /\ ret'.out.s = s /\ SetSession(p, s, new)
    BY <1>1 DEF SignReply, Returns
  <2>2. HasSession(p, s) /\ state[p].sessions[s].sign_active
    BY <1>1 DEF SignReply, SessionInv, SigningInv, Signs
  <2>3. p \in Procs /\ s \in Sessions /\ ~Uninitialized(p)
    <3>1. call[t] \in Places /\ call[t].at = "sign_wait" /\ p \in Procs
      BY <1>1, ProviderAssumption DEF SignReply, Typed, ProviderTypeOK
    <3> QED
      BY <2>2, <3>1, PlaceFields DEF HasSession, Uninitialized
  <2>4. state[p].sessions[s] \in SessionState /\ state[p] \in ProviderState
    BY <2>2, <2>3, StateFields DEF HasSession
  <2>5. ~new.sign_active
    BY <2>4 DEF SessionState
  <2>6. state'[p].sessions[s] = new
    <3>1. state'[p] = [state[p] EXCEPT !.sessions[s] = new]
      BY <2>1, <2>3 DEF SetSession, Typed, ProviderTypeOK
    <3> HIDE DEF new
    <3> QED
      BY <2>3, <2>4, <3>1 DEF ProviderState
  <2> HIDE DEF new
  <2> QED
    BY <2>1, <2>2, <2>5, <2>6 DEF OneSignature
<1> QED
  BY <1>1, OnlySignReplySigns DEF OneSignature

\* The requests under way are those of threads that hold the mutex and a STATE.
LEMMA ExchangesTyped == Typed /\ MutexInv => ExchangeTypeOK
<1> SUFFICES ASSUME Typed, MutexInv, NEW t \in Threads, call[t].at = "gen_wait"
             PROVE  /\ ~Uninitialized(ProcOf[t])
                    /\ Arrived(state[ProcOf[t]].conn) =>
                         Response(state[ProcOf[t]].conn) \in Responses
  BY DEF ExchangeTypeOK
<1>1. ProcOf[t] \in Procs /\ holder[ProcOf[t]] = t /\ t # None
  BY ProviderAssumption DEF MutexInv, InExchange
<1>2. ~Uninitialized(ProcOf[t])
  BY <1>1 DEF MutexInv, Uninitialized
<1>3. link[state[ProcOf[t]].conn] \in Channels
  BY <1>1, <1>2, StateFields
<1> QED
  BY <1>2, <1>3, ChannelTypes DEF Arrived, Response

-----------------------------------------------------------------------------
(* The answer to a template.                                               *)

LEMMA LessIsRelated == \A m, n \in Nat : m < n => <<m, n>> \in OpToRel(<, Nat)
  BY DEF OpToRel

\* A set of natural numbers that is not empty has a least one.
LEMMA LeastNumber ==
  ASSUME NEW S \in SUBSET Nat, S # {}
  PROVE  \E n \in S : \A m \in S : n <= m
<1>1. PICK n \in S : \A m \in S : <<m, n>> \notin OpToRel(<, Nat)
  BY NatLessThanWellFounded, WFMin
<1>2. \A m \in S : ~(m < n)
  BY <1>1, LessIsRelated
<1> QED
  BY <1>2

\* The first of the first i attributes that fails.
FirstFailing(each, i, j) == /\ j \in 1 .. i /\ each[j].rv # "OK"
                            /\ \A k \in 1 .. j - 1 : each[k].rv = "OK"

\* What is noted of the first i attributes.
Noted(each, i) == IF \A j \in 1 .. i : each[j].rv = "OK" THEN "OK"
                  ELSE each[CHOOSE j : FirstFailing(each, i, j)].rv

LEMMA NotedIs ==
  ASSUME NEW each, NEW i \in Nat
  PROVE  /\ (\A j \in 1 .. i : each[j].rv = "OK") => Noted(each, i) = "OK"
         /\ \A j : FirstFailing(each, i, j) => Noted(each, i) = each[j].rv
         /\ (\E j \in 1 .. i : each[j].rv # "OK") =>
              \E j : FirstFailing(each, i, j) /\ \A k \in 1 .. i : each[k].rv # "OK" => j <= k
<1>1. \A j, k : FirstFailing(each, i, j) /\ FirstFailing(each, i, k) => j = k
  <2> SUFFICES ASSUME NEW j, NEW k, FirstFailing(each, i, j), FirstFailing(each, i, k)
               PROVE  j = k
    OBVIOUS
  <2>1. j \in 1 .. i /\ k \in 1 .. i /\ ~(k \in 1 .. j - 1) /\ ~(j \in 1 .. k - 1)
    BY DEF FirstFailing
  <2> QED
    BY <2>1
<1>2. \A j : FirstFailing(each, i, j) => Noted(each, i) = each[j].rv
  <2> TAKE j
  <2> HAVE FirstFailing(each, i, j)
  <2>1. ~ \A k \in 1 .. i : each[k].rv = "OK"
    BY DEF FirstFailing
  <2>2. (CHOOSE k : FirstFailing(each, i, k)) = j
    BY <1>1
  <2> QED
    BY <2>1, <2>2 DEF Noted
<1>3. ASSUME \E j \in 1 .. i : each[j].rv # "OK"
      PROVE  \E j : FirstFailing(each, i, j) /\ \A k \in 1 .. i : each[k].rv # "OK" => j <= k
  <2> DEFINE failing == {j \in 1 .. i : each[j].rv # "OK"}
  <2>1. failing \in SUBSET Nat /\ failing # {}
    BY <1>3
  <2>2. PICK j \in failing : \A k \in failing : j <= k
    <3> HIDE DEF failing
    <3> QED
      BY <2>1, LeastNumber
  <2>3. FirstFailing(each, i, j)
    BY <2>2 DEF FirstFailing
  <2> QED
    BY <2>2, <2>3
<1> QED
  BY <1>2, <1>3 DEF Noted

\* The answer after the first i of the attributes that are answered as `each` says.
AnsweredUpTo(each, i) == [rv |-> Noted(each, i), attrs |-> [j \in 1 .. i |-> each[j]]]

\* One turn of the loop.
OneMore(done, served) == [rv    |-> IF done.rv = "OK" THEN served.rv ELSE done.rv,
                          attrs |-> Append(done.attrs, served)]

LEMMA NothingAnswered == \A each : AnsweredUpTo(each, 0) = NothingDone
<1> TAKE each
<1>1. Noted(each, 0) = "OK"
  BY NotedIs
<1>2. [j \in 1 .. 0 |-> each[j]] = <<>>
  OBVIOUS
<1> QED
  BY <1>1, <1>2 DEF NothingDone, AnsweredUpTo

LEMMA OneMoreAnswered ==
  ASSUME NEW each, NEW i \in Nat, i # 0
  PROVE  AnsweredUpTo(each, i) = OneMore(AnsweredUpTo(each, i - 1), each[i])
<1>1. i - 1 \in Nat
  OBVIOUS
<1>2. Append([j \in 1 .. i - 1 |-> each[j]], each[i]) = [j \in 1 .. i |-> each[j]]
  OBVIOUS
<1>3. Noted(each, i) = IF Noted(each, i - 1) = "OK" THEN each[i].rv ELSE Noted(each, i - 1)
  <2>1. CASE \E j \in 1 .. i - 1 : each[j].rv # "OK"
    <3>1. PICK j : FirstFailing(each, i - 1, j)
      BY <1>1, <2>1, NotedIs
    <3>2. FirstFailing(each, i, j) /\ each[j].rv # "OK"
      BY <3>1 DEF FirstFailing
    <3>3. Noted(each, i - 1) = each[j].rv /\ Noted(each, i) = each[j].rv
      BY <1>1, <3>1, <3>2, NotedIs
    <3> QED
      BY <3>2, <3>3
  <2>2. CASE \A j \in 1 .. i - 1 : each[j].rv = "OK"
    <3>1. Noted(each, i - 1) = "OK"
      BY <1>1, <2>2, NotedIs
    <3>2. CASE each[i].rv = "OK"
      <4>1. \A j \in 1 .. i : each[j].rv = "OK"
        BY <2>2, <3>2
      <4> QED
        BY <3>1, <3>2, <4>1, NotedIs
    <3>3. CASE each[i].rv # "OK"
      <4>1. FirstFailing(each, i, i)
        BY <2>2, <3>3 DEF FirstFailing
      <4> QED
        BY <3>1, <4>1, NotedIs
    <3> QED
      BY <3>2, <3>3
  <2> QED
    BY <2>1, <2>2
<1> QED
  BY <1>2, <1>3 DEF AnsweredUpTo, OneMore

\* The loop of get_attribute_values, answering as `each` says.
Loop(each, n, after) ==
  after = [i \in 0 .. n |-> IF i = 0 THEN NothingDone ELSE OneMore(after[i - 1], each[i])]

LEMMA LoopAnswers ==
  ASSUME NEW n \in Nat, NEW each, NEW after, Loop(each, n, after)
  PROVE  after[n] = AnsweredUpTo(each, n)
<1>1. after[0] = NothingDone /\ \A i \in 1 .. n : after[i] = OneMore(after[i - 1], each[i])
  BY DEF Loop
<1> DEFINE wrong == {i \in 0 .. n : after[i] # AnsweredUpTo(each, i)}
<1>2. SUFFICES ASSUME wrong # {} PROVE FALSE
  OBVIOUS
<1>3. wrong \in SUBSET Nat
  OBVIOUS
<1>4. PICK i \in wrong : \A j \in wrong : i <= j
  <2> HIDE DEF wrong
  <2> QED
    BY <1>2, <1>3, LeastNumber
<1>5. i \in 1 .. n
  BY <1>1, <1>4, NothingAnswered
<1>6. after[i - 1] = AnsweredUpTo(each, i - 1)
  BY <1>4, <1>5
<1>7. after[i] = AnsweredUpTo(each, i)
  BY <1>1, <1>5, <1>6, OneMoreAnswered
<1> QED
  BY <1>4, <1>7

LEMMA LoopEnds == \A n \in Nat : \A each : \E after : Loop(each, n, after)
<1> TAKE n \in Nat
<1> TAKE each
<1> DEFINE after == [i \in 0 .. n |-> AnsweredUpTo(each, i)]
<1>1. \A i \in 0 .. n :
        after[i] = IF i = 0 THEN NothingDone ELSE OneMore(after[i - 1], each[i])
  <2> TAKE i \in 0 .. n
  <2>1. CASE i = 0
    BY <2>1, NothingAnswered
  <2>2. CASE i # 0
    <3>1. i - 1 \in 0 .. n
      BY <2>2
    <3>2. after[i] = AnsweredUpTo(each, i) /\ after[i - 1] = AnsweredUpTo(each, i - 1)
      BY <3>1
    <3> HIDE DEF after
    <3> QED
      BY <2>2, <3>2, OneMoreAnswered
  <2> QED
    BY <2>1, <2>2
<1>2. after = [i \in 0 .. n |-> after[i]]
  OBVIOUS
<1> HIDE DEF after
<1>3. after = [i \in 0 .. n |-> IF i = 0 THEN NothingDone ELSE OneMore(after[i - 1], each[i])]
  BY <1>1, <1>2, Zenon
<1> QED
  BY <1>3 DEF Loop

\* How each attribute of a template is answered when the others are left aside.
EachServed(object, pk, template) ==
  [i \in 1 .. Len(template) |-> ServedAttr(template[i], object, pk)]

\* Every attribute is answered as it is, and the call returns the first error
\* (get_attribute_values).
LEMMA TemplateAnswers ==
  ASSUME NEW object, NEW pk, NEW template, Len(template) \in Nat
  PROVE  get_attribute_values(object, pk, template)
           = AnsweredUpTo(EachServed(object, pk, template), Len(template))
<1> DEFINE each == EachServed(object, pk, template)
           n == Len(template)
<1>1. \A i \in 1 .. n : each[i] = ServedAttr(template[i], object, pk)
  BY DEF EachServed
<1> DEFINE body(a) == [i \in 0 .. n |->
                        IF i = 0 THEN NothingDone
                        ELSE [rv    |-> IF a[i - 1].rv = "OK"
                                        THEN ServedAttr(template[i], object, pk).rv
                                        ELSE a[i - 1].rv,
                              attrs |-> Append(a[i - 1].attrs,
                                               ServedAttr(template[i], object, pk))]]
           after == CHOOSE a : a = body(a)
<1>2. \A a : Loop(each, n, a) <=> a = body(a)
  <2> TAKE a
  <2>1. \A i \in 0 .. n : i = 0 \/ i \in 1 .. n
    OBVIOUS
  <2> HIDE DEF n, each
  <2> QED
    BY <1>1, <2>1, Zenon DEF Loop, OneMore
<1>3. get_attribute_values(object, pk, template) = after[n]
  BY Zenon DEF get_attribute_values
<1>4. n \in Nat
  OBVIOUS
<1> HIDE DEF each, n, body
<1>5. \E a : a = body(a)
  BY <1>2, <1>4, LoopEnds
<1>6. after = body(after)
  BY <1>5, Zenon
<1> HIDE DEF after
<1>7. after[n] = AnsweredUpTo(each, n)
  BY <1>2, <1>4, <1>6, LoopAnswers
<1> QED
  BY <1>3, <1>7 DEF each, n

SomeAttrs == [type : AttributeTypes, room : Nat \cup {None}]

LEMMA PayloadLength == \A b \in Payloads : ByteLen(b) \in Nat
<1>1. \A p \in ParamSets : public_key_len[p] \in Nat
  BY DEF public_key_len, ParamSets
<1>2. \A p \in ParamSets : signature_len_for[p] \in Nat
  BY DEF signature_len_for, ParamSets
<1>3. \A b \in PublicKeys : b.kind = "pk" /\ b.param \in ParamSets
  BY DEF PublicKeys, KeyBytes
<1>4. \A b \in Signatures : b.kind = "sig" /\ b.param \in ParamSets
  BY DEF Signatures, SigBytes
<1>5. \A b \in {InfoBytes(p) : p \in ParamSets} \cup {ListBytes, NoBytes} :
        b.kind \in {"info", "list", "none"}
  BY DEF InfoBytes, ListBytes, NoBytes
<1> QED
  BY <1>1, <1>2, <1>3, <1>4, <1>5 DEF Payloads, ByteLen

LEMMA ServedFields ==
  \A rv, len, value : /\ Served(rv, len, value).rv = rv
                      /\ Served(rv, len, value).value = value
  BY DEF Served

\* An attribute whose length is told is shown, whole, in a buffer of that length.
LEMMA ToldThenShown ==
  ASSUME NEW type \in AttributeTypes, NEW object, NEW pk, ByteLen(pk) \in Nat
  PROVE  LET asked == ServedAttr(Attr(type, None), object, pk)
         IN asked.len # CK_UNAVAILABLE_INFORMATION =>
              ServedAttr(Attr(type, asked.len), object, pk)
                = Served("OK", asked.len, ValueOf(type, object, pk).value)
<1> DEFINE asked == ServedAttr(Attr(type, None), object, pk)
           bytes == ValueOf(type, object, pk)
<1>1. \A room : Attr(type, room).type = type /\ Attr(type, room).room = room
  BY DEF Attr
<1>2. CASE (type = "CKA_VALUE" /\ object # PUBLIC_KEY_HANDLE) \/ type = "CKA_MODULUS"
  BY <1>1, <1>2 DEF ServedAttr, Refused, Served
<1>3. CASE ~(type = "CKA_VALUE" /\ object # PUBLIC_KEY_HANDLE) /\ type # "CKA_MODULUS"
  <2>1. \A room : ServedAttr(Attr(type, room), object, pk) = Copied(Attr(type, room), bytes)
    BY <1>1, <1>3, Zenon DEF ServedAttr
  <2>2. bytes.len \in Nat
    BY <1>3 DEF ValueOf, Bytes, AttributeTypes
  <2> HIDE DEF bytes
  <2>3. asked = Served("OK", bytes.len, None)
    BY <1>1, <2>1 DEF Copied
  <2>4. bytes.len # None /\ ~(bytes.len < bytes.len)
    BY <2>2, NoneIsNoLength
  <2>5. Copied(Attr(type, bytes.len), bytes) = Served("OK", bytes.len, bytes.value)
    BY <1>1, <2>4, Zenon DEF Copied
  <2>6. asked.len = bytes.len
    BY <2>3 DEF Served
  <2> QED
    BY <2>1, <2>5, <2>6 DEF bytes
<1> QED
  BY <1>2, <1>3

\* What an attribute is answered with when it is asked for alone.
LEMMA AnsweredAlone ==
  ASSUME NEW attr, NEW object, NEW pk
  PROVE  LET alone == ByItself(attr, object, pk)
         IN /\ alone.rv = ServedAttr(attr, object, pk).rv
            /\ alone.attrs[1] = ServedAttr(attr, object, pk)
<1> DEFINE each == EachServed(object, pk, <<attr>>)
<1>1. Len(<<attr>>) = 1 /\ <<attr>>[1] = attr
  OBVIOUS
<1>2. ByItself(attr, object, pk) = AnsweredUpTo(each, 1)
  BY <1>1, TemplateAnswers DEF ByItself
<1>3. each[1] = ServedAttr(attr, object, pk)
  BY <1>1 DEF EachServed
<1> HIDE DEF each
<1>4. Noted(each, 1) = each[1].rv
  <2>1. CASE each[1].rv = "OK"
    <3>1. \A j \in 1 .. 1 : each[j].rv = "OK"
      BY <2>1
    <3> QED
      BY <2>1, <3>1, NotedIs
  <2>2. CASE each[1].rv # "OK"
    <3>1. FirstFailing(each, 1, 1)
      BY <2>2 DEF FirstFailing
    <3> QED
      BY <3>1, NotedIs
  <2> QED
    BY <2>1, <2>2
<1> QED
  BY <1>2, <1>3, <1>4 DEF AnsweredUpTo

\* The whole of a template, and the two calls of cryptoki's get_attributes.
LEMMA TemplateIndependent ==
  ASSUME NEW object, NEW pk, ByteLen(pk) \in Nat, NEW template \in Seq(SomeAttrs)
  PROVE  AnswersEach(template, object, pk)
<1> DEFINE done == get_attribute_values(object, pk, template)
           each == [i \in DOMAIN template |-> ByItself(template[i], object, pk)]
           failing == {i \in DOMAIN template : each[i].rv # "OK"}
           asked == [i \in DOMAIN template |-> Attr(template[i].type, None)]
           lengths == get_attribute_values(object, pk, asked).attrs
           known == {i \in DOMAIN template : lengths[i].len # CK_UNAVAILABLE_INFORMATION}
           served == EachServed(object, pk, template)
           m == Len(template)
<1>1. m \in Nat /\ DOMAIN template = 1 .. m
  OBVIOUS
<1>2. \A i \in 1 .. m : template[i].type \in AttributeTypes
  <2> HIDE DEF m
  <2>1. \A i \in 1 .. m : template[i] \in SomeAttrs
    BY <1>1
  <2> QED
    BY <2>1 DEF SomeAttrs
<1>3. done = AnsweredUpTo(served, m)
  BY <1>1, TemplateAnswers
<1>4. \A i \in 1 .. m : /\ served[i] = ServedAttr(template[i], object, pk)
                        /\ each[i].rv = served[i].rv
                        /\ each[i].attrs[1] = served[i]
  BY <1>1, AnsweredAlone DEF EachServed
<1>5. done.attrs = [i \in DOMAIN template |-> each[i].attrs[1]]
  <2> HIDE DEF served, each, done
  <2> QED
    BY <1>1, <1>3, <1>4 DEF AnsweredUpTo
<1>6. IF failing = {} THEN done.rv = "OK"
      ELSE \E i \in failing : /\ \A j \in failing : i <= j
                              /\ done.rv = each[i].rv
  <2> HIDE DEF served, each, done, m
  <2>1. done.rv = Noted(served, m)
    BY <1>3 DEF AnsweredUpTo
  <2>2. \A i \in 1 .. m : i \in failing <=> served[i].rv # "OK"
    BY <1>1, <1>4
  <2>3. failing \subseteq 1 .. m
    BY <1>1
  <2> HIDE DEF failing
  <2>4. CASE failing = {}
    <3>1. \A i \in 1 .. m : served[i].rv = "OK"
      BY <2>2, <2>4
    <3> QED
      BY <1>1, <2>1, <2>4, <3>1, NotedIs
  <2>5. CASE failing # {}
    <3>1. \E i \in 1 .. m : served[i].rv # "OK"
      BY <2>2, <2>3, <2>5
    <3>2. PICK i : FirstFailing(served, m, i) /\ \A k \in 1 .. m : served[k].rv # "OK" => i <= k
      BY <1>1, <3>1, NotedIs
    <3>3. i \in 1 .. m /\ served[i].rv # "OK"
      BY <3>2 DEF FirstFailing
    <3>4. i \in failing /\ \A k \in failing : i <= k
      BY <2>2, <2>3, <3>2, <3>3
    <3>5. done.rv = each[i].rv
      BY <1>1, <1>4, <2>1, <3>2, <3>3, NotedIs
    <3> QED
      BY <2>5, <3>4, <3>5
  <2> QED
    BY <2>4, <2>5
<1>7. ASSUME NEW n \in 0 .. m, NEW picks \in [1 .. n -> known]
      PROVE  LET second == get_attribute_values(object, pk, Refilled(template, lengths, picks))
             IN  /\ second.rv = "OK"
                 /\ \A j \in DOMAIN picks :
                      second.attrs[j].value = ValueOf(template[picks[j]].type, object, pk).value
  <2> DEFINE refilled == Refilled(template, lengths, picks)
             filled == EachServed(object, pk, refilled)
             second == get_attribute_values(object, pk, refilled)
  <2>1. n \in Nat /\ DOMAIN picks = 1 .. n
    BY <1>1
  <2>2. Len(asked) = m /\ \A i \in 1 .. m : asked[i] = Attr(template[i].type, None)
    BY <1>1
  <2>3. \A i \in 1 .. m : lengths[i] = ServedAttr(Attr(template[i].type, None), object, pk)
    <3> HIDE DEF asked, m
    <3>1. get_attribute_values(object, pk, asked) = AnsweredUpTo(EachServed(object, pk, asked), m)
      BY <1>1, <2>2, TemplateAnswers
    <3> QED
      BY <2>2, <3>1 DEF AnsweredUpTo, EachServed
  <2> HIDE DEF lengths
  <2>4. Len(refilled) = n
        /\ \A j \in 1 .. n : refilled[j] = Attr(template[picks[j]].type, lengths[picks[j]].len)
    BY <2>1 DEF Refilled
  <2>5. second = AnsweredUpTo(filled, n)
    BY <2>1, <2>4, TemplateAnswers
  <2>6. \A j \in 1 .. n : picks[j] \in 1 .. m
                          /\ lengths[picks[j]].len # CK_UNAVAILABLE_INFORMATION
    BY <1>1
  <2>7. \A j \in 1 .. n :
          filled[j] = Served("OK", lengths[picks[j]].len,
                             ValueOf(template[picks[j]].type, object, pk).value)
    <3> TAKE j \in 1 .. n
    <3>1. filled[j] = ServedAttr(refilled[j], object, pk)
      BY <2>4 DEF EachServed
    <3> QED
      BY <1>2, <2>3, <2>4, <2>6, <3>1, ToldThenShown
  <2> HIDE DEF filled, second
  <2>8. second.rv = Noted(filled, n) /\ \A j \in 1 .. n : second.attrs[j] = filled[j]
    BY <2>5 DEF AnsweredUpTo
  <2>9. \A j \in 1 .. n : filled[j].rv = "OK"
    BY <2>7, ServedFields
  <2>10. second.rv = "OK"
    BY <2>1, <2>8, <2>9, NotedIs
  <2>11. \A j \in 1 .. n :
           second.attrs[j].value = ValueOf(template[picks[j]].type, object, pk).value
    BY <2>7, <2>8, ServedFields
  <2> QED
    BY <2>1, <2>10, <2>11 DEF second
<1> HIDE DEF done, each, lengths
<1> QED
  BY <1>5, <1>6, <1>7 DEF AnswersEach, done, each, lengths

LEMMA SomeTemplatesAre == SomeTemplates \subseteq Seq(SomeAttrs)
<1>1. SomeRooms \subseteq Nat \cup {None}
  BY DEF SomeRooms
<1>2. \A a \in AttributeTypes, r \in SomeRooms : Attr(a, r) \in SomeAttrs
  BY <1>1 DEF SomeAttrs, Attr
<1>3. <<>> \in Seq(SomeAttrs)
  OBVIOUS
<1>4. \A x, y \in SomeAttrs : <<x>> \in Seq(SomeAttrs) /\ <<x, y>> \in Seq(SomeAttrs)
  OBVIOUS
<1> SUFFICES ASSUME NEW template \in SomeTemplates PROVE template \in Seq(SomeAttrs)
  OBVIOUS
<1>5. \/ template = <<>>
      \/ \E a \in AttributeTypes, r \in SomeRooms : template = <<Attr(a, r)>>
      \/ \E a, b \in AttributeTypes, r, q \in SomeRooms : template = <<Attr(a, r), Attr(b, q)>>
  BY DEF SomeTemplates
<1>6. CASE \E a \in AttributeTypes, r \in SomeRooms : template = <<Attr(a, r)>>
  BY <1>2, <1>4, <1>6
<1>7. CASE \E a, b \in AttributeTypes, r, q \in SomeRooms :
             template = <<Attr(a, r), Attr(b, q)>>
  <2>1. PICK a \in AttributeTypes, b \in AttributeTypes, r \in SomeRooms, q \in SomeRooms :
          template = <<Attr(a, r), Attr(b, q)>>
    BY <1>7
  <2>2. Attr(a, r) \in SomeAttrs /\ Attr(b, q) \in SomeAttrs
    BY <1>2
  <2> QED
    BY <1>4, <2>1, <2>2
<1> QED
  BY <1>3, <1>5, <1>6, <1>7

LEMMA EveryKeyIndependent == \A pk : ByteLen(pk) \in Nat => IndependentWith(pk)
<1> TAKE pk
<1> HAVE ByteLen(pk) \in Nat
<1> QED
  BY SomeTemplatesAre, TemplateIndependent DEF IndependentWith
=============================================================================
