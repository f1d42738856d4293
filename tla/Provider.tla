------------------------------ MODULE Provider ------------------------------
(***************************************************************************)
(* pkcs11-provider: the PKCS#11 module an application loads.  Each process *)
(* has one STATE behind a mutex (pkcs11-provider/src/lib.rs), and several  *)
(* of its threads may be inside C_ functions at once.  A C_ function that  *)
(* takes the mutex once and touches no device is one action; the others    *)
(* are cut where they wait, for the mutex or for the token.                *)
(***************************************************************************)
EXTENDS Link, Attributes

CONSTANTS
  Procs,        \* processes that load the provider
  Threads,      \* application threads, over all processes
  ProcOf,       \* the process of each thread
  MaxSessions,  \* bound on the sessions opened in the life of one STATE
  Rooms,        \* lengths of the signature buffers callers pass; None: a null one
  Templates,    \* the attribute templates they pass
  Calls,        \* the C_ functions the application uses
  Careful       \* whether the application keeps to the rules of MayCallOn and MayReset

ASSUME ProviderAssumption ==
  /\ ProcOf \in [Threads -> Procs]
  /\ MaxSessions \in Nat
  /\ Rooms \subseteq Nat \cup {None}
  /\ Careful \in BOOLEAN
  /\ None \notin Threads

ASSUME TemplatesAssumption ==
  Templates \subseteq Seq([type : AttributeTypes, room : Nat \cup {None}])

VARIABLES
  state,     \* STATE of each process: a ProviderState or None
  holder,    \* the thread inside each process's STATE mutex, across a device wait
  call,      \* where each thread is
  ret,       \* what the C_ function that returned in the last step gave its caller
  panicked   \* processes that a panic has aborted

providerVars == <<state, holder, call, ret, panicked>>

-----------------------------------------------------------------------------
(* ProviderState, and the points where a thread waits.                     *)

Sessions     == 1 .. MaxSessions
SessionState == [sign_active : BOOLEAN, pending_find : Seq(ObjectHandles) \cup {None}]
NewSession   == [sign_active |-> FALSE, pending_find |-> None]

ProviderState == [conn : Conns, param : ParamSets, pk : Payloads,
                  sessions : [Sessions -> SessionState \cup {None}],
                  next : 1 .. MaxSessions + 1]

ASSUME NoneIsNoState == None \notin ProviderState

NewState(c, p, pk) == [conn |-> c, param |-> p, pk |-> pk,
                       sessions |-> [s \in Sessions |-> None], next |-> 1]

Garbled == "garbled"   \* a parameter set name signature_len_for does not know

Idle == [at |-> "idle"]

AllMsgs == Msgs \cup BigMsgs
Places ==
  {Idle}
  \cup [at : {"get_info"}, conn : Conns]
  \cup [at : {"get_public_key"}, conn : Conns, param : ParamSets \cup {Garbled}]
  \cup [at : {"store"}, conn : Conns, param : ParamSets, pk : Payloads]
  \cup [at : {"sign", "sign_wait"}, s : Sessions, msg : AllMsgs, room : Nat, exp : Nat]
  \cup [at : {"gen_wait"}, s : Sessions]

Handshaking(t) == call[t].at \in {"get_info", "get_public_key", "store"}
AwaitingToken(t) == call[t].at \in {"get_info", "get_public_key", "sign_wait", "gen_wait"}

Peers(t) == {u \in Threads \ {t} : ProcOf[u] = ProcOf[t]}

ProviderTypeOK ==
  /\ state \in [Procs -> ProviderState \cup {None}]
  /\ holder \in [Procs -> Threads \cup {None}]
  /\ call \in [Threads -> Places]
  /\ panicked \subseteq Procs

ProviderInit ==
  /\ state = [p \in Procs |-> None]
  /\ holder = [p \in Procs |-> None]
  /\ call = [t \in Threads |-> Idle]
  /\ ret = None
  /\ panicked = {}

-----------------------------------------------------------------------------
(* Helpers of the actions.                                                 *)

\* As it would be if nobody waited for the mutex.
MutexIgnored(p) == p \in Procs

MutexFree(p) == holder[p] = None
Acquire(t)   == holder' = [holder EXCEPT ![ProcOf[t]] = t]
Release(t)   == holder' = [holder EXCEPT ![ProcOf[t]] = None]

\* The application calls `op` from a thread that is in no other call.
Enters(t, op) == op \in Calls /\ call[t] = Idle
Goes(t, place) == call' = [call EXCEPT ![t] = place]

\* The C_ function `op` of thread t returns rv and hands over `out`.
Returns(t, op, rv, out) ==
  ret' = [by |-> t, op |-> op, rv |-> rv, out |-> out]

\* with_state: nothing to work on, or a ProviderState.
Uninitialized(p) == state[p] = None
HasSession(p, s) == state[p] # None /\ state[p].sessions[s] # None

\* The guards of every C_ function that needs a session, with_state first.
SessionRv(p, s) == CASE Uninitialized(p)   -> "CRYPTOKI_NOT_INITIALIZED"
                     [] HasSession(p, s)   -> "OK"
                     [] OTHER              -> "SESSION_HANDLE_INVALID"

SetSession(p, s, new) ==
  state' = [state EXCEPT ![p] = [@ EXCEPT !.sessions[s] = new]]

\* A careful application keeps to the rules PKCS#11 gives it: it calls on a
\* session only while no other thread is in a call on that session,
Uses(u, s) == call[u].at \in {"sign", "sign_wait", "gen_wait"} /\ call[u].s = s
MayCallOn(t, s) == Careful => \A u \in Peers(t) : ~Uses(u, s)

\* finalizes while no other thread is in a call at all, and initializes once.
MayReset(t)      == Careful => \A u \in Peers(t) : call[u] = Idle
MayInitialize(t) == MayReset(t) /\ (Careful => Uninitialized(ProcOf[t]))

\* Writing a request on connection c and waiting for its answer.
SendOn(c, req) == link' = [link EXCEPT ![c] = HostSends(@, req)]

Arrived(c)  == link[c].down # <<>>
Response(c) == Head(link[c].down)
TakeFrom(c) == link' = [link EXCEPT ![c] = HostReads(@)]

-----------------------------------------------------------------------------
(* C_Initialize: connect, GET_INFO, GET_PUBLIC_KEY, then store the state.  *)
(* Only the store takes the mutex.                                         *)

GetInfoReq      == Request("GetInfo", None, None)
GetPublicKeyReq == Request("GetPublicKey", FIXED_OBJECT_HANDLE, None)
SignReq(m)      == Request("Sign", FIXED_OBJECT_HANDLE, m)
GenerateReq     == Request("GenerateKeypair", None, None)

\* The serial port opens for one host at a time; a TCP connection is a new one.
CanOpen(c) == IF Serial THEN ~link[c].host /\ link[c].dev = "serving"
              ELSE link[c] = Unused

Initialize(t) ==
  /\ Enters(t, "C_Initialize") /\ MayInitialize(t)
  /\ listening
  /\ \E c \in Conns :
       /\ CanOpen(c) /\ HasRoom(link[c])
       /\ \E ch \in IF Serial THEN Opened(link[c]) ELSE {Dialled} :
            link' = [link EXCEPT ![c] = HostSends(ch, GetInfoReq)]
       /\ backlog' = IF Serial THEN backlog ELSE Append(backlog, c)
       /\ Goes(t, [at |-> "get_info", conn |-> c])
  /\ ret' = None
  /\ UNCHANGED <<listening, state, holder, panicked>>

\* connect fails, for nobody listens or the port is open already; or the first
\* write does.
ConnectRefused(t) ==
  /\ Enters(t, "C_Initialize") /\ MayInitialize(t)
  /\ ~listening \/ (Serial /\ \A c \in Conns : ~(CanOpen(c) /\ HasRoom(link[c])))
  /\ Returns(t, "C_Initialize", "DEVICE_ERROR", None)
  /\ UNCHANGED <<linkVars, state, holder, call, panicked>>

\* GET_INFO answered.  Bytes that are no GET_INFO answer may still pass for a
\* name, an unknown one, which is noticed only after GET_PUBLIC_KEY.
InfoReply(t) ==
  /\ call[t].at = "get_info" /\ Arrived(call[t].conn)
  /\ LET c == call[t].conn
         rsp == Response(c)
     IN /\ rsp.status = "Ok"
        /\ link' = [link EXCEPT ![c] = HostSends(HostReads(@), GetPublicKeyReq)]
        /\ Goes(t, [at |-> "get_public_key", conn |-> c,
                    param |-> IF rsp.body.kind = "info" THEN rsp.body.param ELSE Garbled])
  /\ ret' = None
  /\ UNCHANGED <<backlog, listening, state, holder, panicked>>

PublicKeyReply(t) ==
  /\ call[t].at = "get_public_key" /\ Arrived(call[t].conn)
  /\ LET c == call[t].conn
         rsp == Response(c)
     IN /\ rsp.status = "Ok" /\ call[t].param # Garbled
        /\ TakeFrom(c)
        /\ Goes(t, [at |-> "store", conn |-> c, param |-> call[t].param, pk |-> rsp.body])
  /\ ret' = None
  /\ UNCHANGED <<backlog, listening, state, holder, panicked>>

\* What makes ProviderState::new give up.
HandshakeBroken(t) ==
  LET c == call[t].conn IN
  \/ ReadFails(link[c])
  \/ Arrived(c) /\ Response(c).status # "Ok"
  \/ call[t].at = "get_info" /\ Arrived(c) /\ Response(c).body.kind # "info"
  \/ call[t].at = "get_public_key" /\ Arrived(c) /\ call[t].param = Garbled

HandshakeFails(t) ==
  /\ call[t].at \in {"get_info", "get_public_key"}
  /\ HandshakeBroken(t)
  /\ LET c == call[t].conn IN
       link' = [link EXCEPT ![c] = HostCloses(IF Arrived(c) THEN HostReads(@) ELSE @)]
  /\ Goes(t, Idle)
  /\ Returns(t, "C_Initialize", "DEVICE_ERROR", None)
  /\ UNCHANGED <<backlog, listening, state, holder, panicked>>

\* Dropping the ProviderState that STATE held closes its connection.
DropState(p) ==
  link' = IF Uninitialized(p) THEN link
          ELSE [link EXCEPT ![state[p].conn] = HostCloses(@)]

Store(t) ==
  LET p == ProcOf[t] IN
  /\ call[t].at = "store" /\ MutexFree(p)
  /\ DropState(p)
  /\ state' = [state EXCEPT ![p] = NewState(call[t].conn, call[t].param, call[t].pk)]
  /\ Goes(t, Idle)
  /\ Returns(t, "C_Initialize", "OK", None)
  /\ UNCHANGED <<backlog, listening, holder, panicked>>

Finalize(t) ==
  LET p == ProcOf[t] IN
  /\ Enters(t, "C_Finalize") /\ MayReset(t) /\ MutexFree(p)
  /\ DropState(p)
  /\ state' = [state EXCEPT ![p] = None]
  /\ Returns(t, "C_Finalize", "OK", None)
  /\ UNCHANGED <<backlog, listening, holder, call, panicked>>

-----------------------------------------------------------------------------
(* Sessions, and the calls that only look at the state.                    *)

\* A C_ function that takes the mutex once and leaves the device alone.
AtOnce(t, op) == Enters(t, op) /\ MutexFree(ProcOf[t])
Untouched     == UNCHANGED <<linkVars, holder, call, panicked>>

OpenSession(t) ==
  LET p == ProcOf[t] IN
  /\ AtOnce(t, "C_OpenSession")
  /\ \/ /\ Uninitialized(p)
        /\ Returns(t, "C_OpenSession", "CRYPTOKI_NOT_INITIALIZED", None)
        /\ UNCHANGED state
     \/ /\ ~Uninitialized(p) /\ state[p].next <= MaxSessions
        /\ state' = [state EXCEPT ![p] = [@ EXCEPT !.sessions[state[p].next] = NewSession,
                                                   !.next = state[p].next + 1]]
        /\ Returns(t, "C_OpenSession", "OK", [s |-> state[p].next])
  /\ Untouched

CloseSession(t, s) ==
  LET p == ProcOf[t]
      rv == SessionRv(p, s) IN
  /\ AtOnce(t, "C_CloseSession") /\ MayCallOn(t, s)
  /\ IF rv = "OK" THEN SetSession(p, s, None) ELSE UNCHANGED state
  /\ Returns(t, "C_CloseSession", rv, [s |-> s])
  /\ Untouched

\* C_Login and C_Logout: any PIN will do, the session only has to exist.
Login(t, s) ==
  /\ AtOnce(t, "C_Login")
  /\ Returns(t, "C_Login", SessionRv(ProcOf[t], s), [s |-> s])
  /\ UNCHANGED state
  /\ Untouched

\* C_GetTokenInfo reports the parameter set of the handshake.
GetTokenInfo(t) ==
  LET p == ProcOf[t] IN
  /\ AtOnce(t, "C_GetTokenInfo")
  /\ IF Uninitialized(p)
     THEN Returns(t, "C_GetTokenInfo", "CRYPTOKI_NOT_INITIALIZED", None)
     ELSE Returns(t, "C_GetTokenInfo", "OK", [param |-> state[p].param])
  /\ UNCHANGED state
  /\ Untouched

\* The attributes of an object: the public key is the one cached in the state.  The
\* session is not looked at.
GetAttributeValue(t, object, template) ==
  LET p == ProcOf[t] IN
  /\ AtOnce(t, "C_GetAttributeValue")
  /\ IF Uninitialized(p)
     THEN Returns(t, "C_GetAttributeValue", "CRYPTOKI_NOT_INITIALIZED", None)
     ELSE LET done == get_attribute_values(object, state[p].pk, template) IN
          Returns(t, "C_GetAttributeValue", done.rv,
                  [object |-> object, template |-> template, attrs |-> done.attrs])
  /\ UNCHANGED state
  /\ Untouched

-----------------------------------------------------------------------------
(* Searching for objects, by a template that may name a class.             *)

\* find_class_filter: the class the template asks for, and nothing else of it
\* (a CKA_ID it names is not looked at).
Matching(class) == CASE class = None      -> <<PRIVATE_KEY_HANDLE, PUBLIC_KEY_HANDLE>>
                     [] class = "private" -> <<PRIVATE_KEY_HANDLE>>
                     [] class = "public"  -> <<PUBLIC_KEY_HANDLE>>
                     [] OTHER             -> <<>>

Classes == {None, "private", "public", "other"}

FindObjectsInit(t, s, class) ==
  LET p == ProcOf[t]
      rv == SessionRv(p, s) IN
  /\ AtOnce(t, "C_FindObjectsInit") /\ MayCallOn(t, s)
  /\ IF rv = "OK"
     THEN SetSession(p, s, [state[p].sessions[s] EXCEPT !.pending_find = Matching(class)])
     ELSE UNCHANGED state
  /\ Returns(t, "C_FindObjectsInit", rv, [s |-> s, class |-> class])
  /\ Untouched

\* As it would be if each answer lost the handle after it.
FindObjectsDrops(t, s, room) ==
  LET p == ProcOf[t] IN
  /\ AtOnce(t, "C_FindObjects") /\ HasSession(p, s)
  /\ state[p].sessions[s].pending_find # None
  /\ LET pending == state[p].sessions[s].pending_find
         n == IF room < Len(pending) THEN room ELSE Len(pending)
     IN /\ SetSession(p, s, [state[p].sessions[s] EXCEPT
                               !.pending_find = SubSeq(pending, n + 2, Len(pending))])
        /\ Returns(t, "C_FindObjects", "OK",
                   [s |-> s, room |-> room, found |-> SubSeq(pending, 1, n)])
  /\ Untouched

\* As it would be with one element of the caller's array left unused.
FindObjectsShort(t, s, room) ==
  LET p == ProcOf[t] IN
  /\ AtOnce(t, "C_FindObjects") /\ HasSession(p, s)
  /\ state[p].sessions[s].pending_find # None
  /\ LET pending == state[p].sessions[s].pending_find
         used == IF room = 0 THEN 0 ELSE room - 1
         n == IF used < Len(pending) THEN used ELSE Len(pending)
     IN /\ SetSession(p, s, [state[p].sessions[s] EXCEPT
                               !.pending_find = SubSeq(pending, n + 1, Len(pending))])
        /\ Returns(t, "C_FindObjects", "OK",
                   [s |-> s, room |-> room, found |-> SubSeq(pending, 1, n)])
  /\ Untouched

\* The prefix of the pending handles that fits the caller's array of `room`.
FindObjects(t, s, room) ==
  LET p == ProcOf[t]
      rv == SessionRv(p, s) IN
  /\ AtOnce(t, "C_FindObjects") /\ MayCallOn(t, s)
  /\ \/ /\ rv # "OK"
        /\ Returns(t, "C_FindObjects", rv, None)
        /\ UNCHANGED state
     \/ /\ rv = "OK" /\ state[p].sessions[s].pending_find = None
        /\ Returns(t, "C_FindObjects", "OPERATION_NOT_INITIALIZED", None)
        /\ UNCHANGED state
     \/ /\ rv = "OK" /\ state[p].sessions[s].pending_find # None
        /\ LET pending == state[p].sessions[s].pending_find
               n == IF room < Len(pending) THEN room ELSE Len(pending)
           IN /\ SetSession(p, s, [state[p].sessions[s] EXCEPT
                                     !.pending_find = SubSeq(pending, n + 1, Len(pending))])
              /\ Returns(t, "C_FindObjects", "OK",
                         [s |-> s, room |-> room, found |-> SubSeq(pending, 1, n)])
  /\ Untouched

FindObjectsFinal(t, s) ==
  LET p == ProcOf[t]
      rv == SessionRv(p, s) IN
  /\ AtOnce(t, "C_FindObjectsFinal") /\ MayCallOn(t, s)
  /\ IF rv = "OK"
     THEN SetSession(p, s, [state[p].sessions[s] EXCEPT !.pending_find = None])
     ELSE UNCHANGED state
  /\ Returns(t, "C_FindObjectsFinal", rv, [s |-> s])
  /\ Untouched

-----------------------------------------------------------------------------
(* C_SignInit and C_Sign.  C_Sign takes the mutex twice: once to check the *)
(* session and learn the length of a signature, once to sign.              *)

SignInit(t, s) ==
  LET p == ProcOf[t]
      rv == SessionRv(p, s) IN
  /\ AtOnce(t, "C_SignInit") /\ MayCallOn(t, s)
  /\ IF rv = "OK"
     THEN SetSession(p, s, [state[p].sessions[s] EXCEPT !.sign_active = TRUE])
     ELSE UNCHANGED state
  /\ Returns(t, "C_SignInit", rv, [s |-> s])
  /\ Untouched

\* As it would be if the session were not looked up first.
SignUnchecked(t, s, m, room) ==
  /\ AtOnce(t, "C_Sign") /\ MayCallOn(t, s)
  /\ ~Uninitialized(ProcOf[t]) /\ room # None
  /\ Goes(t, [at |-> "sign", s |-> s, msg |-> m, room |-> room,
              exp |-> signature_len_for[state[ProcOf[t]].param]])
  /\ ret' = None
  /\ UNCHANGED <<linkVars, state, holder, panicked>>

\* The first critical section and the checks of the caller's buffer after it.
Sign(t, s, m, room) ==
  LET p == ProcOf[t]
      rv == SessionRv(p, s) IN
  /\ AtOnce(t, "C_Sign") /\ MayCallOn(t, s)
  /\ \/ /\ rv # "OK"
        /\ Returns(t, "C_Sign", rv, None) /\ UNCHANGED call
     \/ /\ rv = "OK" /\ ~state[p].sessions[s].sign_active
        /\ Returns(t, "C_Sign", "OPERATION_NOT_INITIALIZED", None) /\ UNCHANGED call
     \/ /\ rv = "OK" /\ state[p].sessions[s].sign_active
        /\ LET exp == signature_len_for[state[p].param] IN
           CASE room = None -> Returns(t, "C_Sign", "OK", [len |-> exp]) /\ UNCHANGED call
             [] room # None /\ room < exp ->
                  Returns(t, "C_Sign", "BUFFER_TOO_SMALL", [len |-> exp]) /\ UNCHANGED call
             [] OTHER -> /\ Goes(t, [at |-> "sign", s |-> s, msg |-> m,
                                     room |-> room, exp |-> exp])
                         /\ ret' = None
  /\ UNCHANGED <<linkVars, state, holder, panicked>>

\* The second critical section: the mutex is held until the token answers.
SignDispatch(t) ==
  LET p == ProcOf[t] IN
  /\ call[t].at = "sign" /\ MutexFree(p)
  /\ \/ /\ Uninitialized(p)
        /\ Goes(t, Idle)
        /\ Returns(t, "C_Sign", "CRYPTOKI_NOT_INITIALIZED", None)
        /\ UNCHANGED <<link, holder>>
     \/ /\ ~Uninitialized(p) /\ ~HasRoom(link[state[p].conn])
        /\ Goes(t, Idle)
        /\ Returns(t, "C_Sign", "DEVICE_ERROR", None)
        /\ UNCHANGED <<link, holder>>
     \/ /\ ~Uninitialized(p) /\ HasRoom(link[state[p].conn])
        /\ SendOn(state[p].conn, SignReq(call[t].msg))
        /\ Acquire(t)
        /\ Goes(t, [call[t] EXCEPT !.at = "sign_wait"])
        /\ ret' = None
  /\ UNCHANGED <<backlog, listening, state, panicked>>

\* A process ends, by exit, by a kill or by an abort: its connections, which it
\* leaves as `last` has them, close.
Ends(p, last) ==
  LET mine == {c \in Conns : \/ ~Uninitialized(p) /\ state[p].conn = c
                             \/ \E t \in Threads : /\ ProcOf[t] = p /\ Handshaking(t)
                                                   /\ call[t].conn = c}
  IN /\ link' = [c \in Conns |-> IF c \in mine THEN HostCloses(last[c]) ELSE last[c]]
     /\ state' = [state EXCEPT ![p] = None]
     /\ holder' = [holder EXCEPT ![p] = None]
     /\ call' = [t \in Threads |-> IF ProcOf[t] = p THEN Idle ELSE call[t]]
     /\ ret' = None
     /\ UNCHANGED <<backlog, listening>>

\* As it would be without the length check.
FitsUnchecked(t, rsp) == t \in Threads /\ rsp.status = "Ok"

\* The answer that the length check lets through.
Fits(t, rsp) == rsp.status = "Ok" /\ ByteLen(rsp.body) = call[t].exp

\* As it would be if the operation stayed active after a signature.
SignReplyStaysActive(t) ==
  LET p == ProcOf[t]
      c == state[p].conn
  IN /\ call[t].at = "sign_wait" /\ Arrived(c)
     /\ Fits(t, Response(c)) /\ HasSession(p, call[t].s)
     /\ TakeFrom(c)
     /\ Release(t)
     /\ Goes(t, Idle)
     /\ Returns(t, "C_Sign", "OK", [s |-> call[t].s, msg |-> call[t].msg,
                                    room |-> call[t].room, sig |-> Response(c).body])
     /\ UNCHANGED <<backlog, listening, state, panicked>>

SignReply(t) ==
  LET p == ProcOf[t]
      s == call[t].s
      c == state[p].conn
      rsp == Response(c)
  IN /\ call[t].at = "sign_wait" /\ Arrived(c)
     /\ Fits(t, rsp) /\ HasSession(p, s)
     /\ TakeFrom(c)
     /\ SetSession(p, s, [state[p].sessions[s] EXCEPT !.sign_active = FALSE])
     /\ Release(t)
     /\ Goes(t, Idle)
     /\ Returns(t, "C_Sign", "OK", [s |-> s, msg |-> call[t].msg, room |-> call[t].room,
                                    sig |-> rsp.body])
     /\ UNCHANGED <<backlog, listening, panicked>>

\* The session was closed meanwhile: expect("checked above") panics, and a
\* panic that would leave an extern "C" function aborts the process.
SignPanics(t) ==
  LET p == ProcOf[t]
      c == state[p].conn
  IN /\ call[t].at = "sign_wait" /\ Arrived(c)
     /\ Fits(t, Response(c)) /\ ~HasSession(p, call[t].s)
     /\ Ends(p, [link EXCEPT ![c] = HostReads(@)])
     /\ panicked' = panicked \cup {p}

SignFails(t) ==
  LET c == state[ProcOf[t]].conn IN
  /\ call[t].at = "sign_wait"
  /\ \/ ReadFails(link[c]) /\ UNCHANGED link
     \/ Arrived(c) /\ ~Fits(t, Response(c)) /\ TakeFrom(c)
  /\ Release(t)
  /\ Goes(t, Idle)
  /\ Returns(t, "C_Sign", "DEVICE_ERROR", None)
  /\ UNCHANGED <<backlog, listening, state, panicked>>

-----------------------------------------------------------------------------
(* C_GenerateKeyPair: one critical section around the whole exchange.      *)

GenerateKeyPair(t, s) ==
  LET p == ProcOf[t]
      rv == SessionRv(p, s) IN
  /\ AtOnce(t, "C_GenerateKeyPair") /\ MayCallOn(t, s)
  /\ \/ /\ rv # "OK"
        /\ Returns(t, "C_GenerateKeyPair", rv, None)
        /\ UNCHANGED <<link, holder, call>>
     \/ /\ rv = "OK" /\ ~HasRoom(link[state[p].conn])
        /\ Returns(t, "C_GenerateKeyPair", "DEVICE_ERROR", None)
        /\ UNCHANGED <<link, holder, call>>
     \/ /\ rv = "OK" /\ HasRoom(link[state[p].conn])
        /\ SendOn(state[p].conn, GenerateReq)
        /\ Acquire(t)
        /\ Goes(t, [at |-> "gen_wait", s |-> s])
        /\ ret' = None
  /\ UNCHANGED <<backlog, listening, state, panicked>>

\* As it would be if the provider kept the public key it had.
GenerateReplyForgets(t) ==
  LET c == state[ProcOf[t]].conn
  IN /\ call[t].at = "gen_wait" /\ Arrived(c) /\ Response(c).status = "Ok"
     /\ TakeFrom(c)
     /\ Release(t)
     /\ Goes(t, Idle)
     /\ Returns(t, "C_GenerateKeyPair", "OK", None)
     /\ UNCHANGED <<backlog, listening, state, panicked>>

\* As it would be if it cached the whole frame, the status byte included.
GenerateReplyKeepsFrame(t) ==
  LET p == ProcOf[t]
      c == state[p].conn
  IN /\ call[t].at = "gen_wait" /\ Arrived(c) /\ Response(c).status = "Ok"
     /\ TakeFrom(c)
     /\ state' = [state EXCEPT ![p] = [@ EXCEPT !.pk = Response(c)]]
     /\ Release(t)
     /\ Goes(t, Idle)
     /\ Returns(t, "C_GenerateKeyPair", "OK", None)
     /\ UNCHANGED <<backlog, listening, panicked>>

GenerateReply(t) ==
  LET p == ProcOf[t]
      c == state[p].conn
      rsp == Response(c)
  IN /\ call[t].at = "gen_wait" /\ Arrived(c) /\ rsp.status = "Ok"
     /\ TakeFrom(c)
     /\ state' = [state EXCEPT ![p] = [@ EXCEPT !.pk = rsp.body]]
     /\ Release(t)
     /\ Goes(t, Idle)
     /\ Returns(t, "C_GenerateKeyPair", "OK", None)
     /\ UNCHANGED <<backlog, listening, panicked>>

GenerateFails(t) ==
  LET c == state[ProcOf[t]].conn IN
  /\ call[t].at = "gen_wait"
  /\ \/ ReadFails(link[c]) /\ UNCHANGED link
     \/ Arrived(c) /\ Response(c).status # "Ok" /\ TakeFrom(c)
  /\ Release(t)
  /\ Goes(t, Idle)
  /\ Returns(t, "C_GenerateKeyPair", "DEVICE_ERROR", None)
  /\ UNCHANGED <<backlog, listening, state, panicked>>

-----------------------------------------------------------------------------
\* The process exits or is killed, at any point; the next life starts afresh.
Exit(p) ==
  /\ "exit" \in Calls
  /\ ~Uninitialized(p) \/ \E t \in Threads : ProcOf[t] = p /\ call[t] # Idle
  /\ Ends(p, link)
  /\ UNCHANGED panicked

\* The step a thread inside a C_ function takes when it can.
Continues(t) ==
  \/ InfoReply(t) \/ PublicKeyReply(t) \/ HandshakeFails(t) \/ Store(t)
  \/ SignDispatch(t) \/ SignReply(t) \/ SignPanics(t) \/ SignFails(t)
  \/ GenerateReply(t) \/ GenerateFails(t)

ProviderNext ==
  \/ \E t \in Threads :
       \/ Initialize(t) \/ ConnectRefused(t) \/ Finalize(t)
       \/ OpenSession(t) \/ GetTokenInfo(t)
       \/ \E object \in ObjectHandles, template \in Templates :
            GetAttributeValue(t, object, template)
       \/ Continues(t)
       \/ \E s \in Sessions :
            \/ CloseSession(t, s) \/ Login(t, s) \/ FindObjectsFinal(t, s)
            \/ \E class \in Classes : FindObjectsInit(t, s, class)
            \/ \E room \in 0 .. 3 : FindObjects(t, s, room)
            \/ SignInit(t, s) \/ GenerateKeyPair(t, s)
            \/ \E m \in AllMsgs, room \in Rooms : Sign(t, s, m, room)
  \/ \E p \in Procs : Exit(p)

-----------------------------------------------------------------------------
(* What the provider owes its callers.  Which of these hold depends on the *)
(* token and the connection it is composed with, and on the application.   *)

\* C_Sign has just handed a signature to its caller.
Signed == ret # None /\ ret.op = "C_Sign" /\ ret.rv = "OK" /\ "sig" \in DOMAIN ret.out

\* A signature that C_Sign returns verifies, for the message of that very call,
\* under the public key the provider reports at that moment
\* (pkcs11-provider/src/lib.rs, c_sign; tests/pkcs11_sign.rs checks it for one
\* thread and one process).
SignatureVerifies ==
  Signed => Verifies(state[ProcOf[ret.by]].pk, ret.out.msg, ret.out.sig)

\* A connection never carries two frames at once: one request, or its answer.
\* Responses bear no number, so pairing them with requests rests on this
\* (device.rs, request, called under the STATE mutex).
OneOutstanding ==
  \A c \in Conns : link[c].host => Len(link[c].up) + Len(link[c].down) <= 1

\* C_Sign writes no more bytes than the caller's buffer holds, although the
\* length was checked in another critical section, maybe against another token.
NeverOverrunsBuffer ==
  Signed => ByteLen(ret.out.sig) <= ret.out.room

\* No panic aborts the application: the session checked when C_Sign starts is
\* there when the signature arrives.
NoPanic == panicked = {}

\* A session signs once for each C_SignInit: the operation is active when the
\* signature is handed out, and no longer active afterwards.
OneSignaturePerInit ==
  [][Signed' => LET p == ProcOf[ret'.by]
                    s == ret'.out.s
                IN /\ HasSession(p, s) /\ state[p].sessions[s].sign_active
                   /\ ~state'[p].sessions[s].sign_active]_providerVars
=============================================================================
