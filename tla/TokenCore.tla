----------------------------- MODULE TokenCore -----------------------------
(***************************************************************************)
(* token-core: the commands a token understands and what it answers        *)
(* (token-core/src/lib.rs).  Frames are whole here: a request is a record, *)
(* a response is a record, and the bytes that matter are told apart by     *)
(* what they encode (a public key, a signature by a key over a message).   *)
(***************************************************************************)
EXTENDS Integers

CONSTANTS
  Keys,            \* key pairs the random generators may produce
  Msgs,            \* messages whose SIGN frame fits the token's request buffer
  BigMsgs,         \* messages whose SIGN frame does not
  ResponseBufLen,  \* bytes of the token's response buffer
  TrngMayFail,     \* whether the token's generator may refuse to start
  None             \* absence of a value

ASSUME TokenAssumption ==
  /\ ResponseBufLen \in Nat
  /\ TrngMayFail \in BOOLEAN
  /\ Msgs \cap BigMsgs = {}
  /\ None \notin Keys \cup Msgs \cup BigMsgs

ParamSets == {"128s", "128f", "192s", "192f", "256s", "256f"}

\* Bytes of a signature, and of a public key, under each parameter set.
signature_len_for ==
  [p \in ParamSets |->
     CASE p = "128s" -> 7856  [] p = "128f" -> 17088
       [] p = "192s" -> 16224 [] p = "192f" -> 35664
       [] p = "256s" -> 29792 [] p = "256f" -> 49856]

public_key_len ==
  [p \in ParamSets |-> CASE p \in {"128s", "128f"} -> 32
                         [] p \in {"192s", "192f"} -> 48
                         [] p \in {"256s", "256f"} -> 64]

-----------------------------------------------------------------------------
(* What the bytes of a payload encode.                                     *)

FIXED_OBJECT_HANDLE == 1

InfoBytes(p)      == [kind |-> "info", param |-> p]
ListBytes         == [kind |-> "list"]
KeyBytes(p, k)    == [kind |-> "pk", param |-> p, key |-> k]
SigBytes(p, k, m) == [kind |-> "sig", param |-> p, key |-> k, msg |-> m]
NoBytes           == [kind |-> "none"]

PublicKeys == {KeyBytes(p, k) : p \in ParamSets, k \in Keys}
Signatures == {SigBytes(p, k, m) : p \in ParamSets, k \in Keys, m \in Msgs \cup BigMsgs}
Payloads   == {InfoBytes(p) : p \in ParamSets} \cup PublicKeys \cup Signatures
                \cup {ListBytes, NoBytes}

ByteLen(b) == CASE b.kind = "info" -> 2 + 4
                [] b.kind = "list" -> 5
                [] b.kind = "pk"   -> public_key_len[b.param]
                [] b.kind = "sig"  -> signature_len_for[b.param]
                [] OTHER           -> 0

\* The signature `sig` over `m` verifies under the public key bytes `pk`.
Verifies(pk, m, sig) == /\ pk.kind = "pk"
                        /\ sig = SigBytes(pk.param, pk.key, m)

-----------------------------------------------------------------------------
(* Requests, responses and the signing backend.                            *)

Command == {"GetInfo", "ListObjects", "GetPublicKey", "Sign", "GenerateKeypair",
            "DeleteObject", "Unknown"}

\* `handle` is None when the payload is too short to hold one (read_handle).
Request(cmd, handle, m) == [cmd |-> cmd, handle |-> handle, msg |-> m]
Handles  == {None, FIXED_OBJECT_HANDLE, 2}
Requests == [cmd : Command \ {"Sign"}, handle : Handles, msg : {None}]
              \cup [cmd : {"Sign"}, handle : Handles, msg : Msgs \cup BigMsgs]

Status == {"Ok", "UnknownCommand", "BadRequest", "NotFound", "SigningFailed",
           "NotImplemented", "BufferTooSmall"}
Responses == [status : Status, body : Payloads]

\* The signing key and the public key bytes a backend holds side by side.
Backends == [param : ParamSets, signing : Keys, public : Keys]

ASSUME NoneIsNoBackend == None \notin Backends

Oversize(req) == req.msg \in BigMsgs

-----------------------------------------------------------------------------
(* dispatch: the set of [rsp, be] it may end with.                         *)

Answer(status, body, be) == [rsp |-> [status |-> status, body |-> body], be |-> be]

\* An answer that only fits a response buffer of its own length.
Fitted(body, be) == IF ByteLen(body) <= ResponseBufLen
                    THEN Answer("Ok", body, be)
                    ELSE Answer("BufferTooSmall", NoBytes, be)

\* The key that a GET_PUBLIC_KEY or SIGN names, checked before it is used.
WithHandle(req, answer, be) ==
  CASE req.handle = None                -> Answer("BadRequest", NoBytes, be)
    [] req.handle = FIXED_OBJECT_HANDLE -> answer
    [] OTHER                            -> Answer("NotFound", NoBytes, be)

sign(be, m) == LET sig == SigBytes(be.param, be.signing, m) IN
               IF ByteLen(sig) <= ResponseBufLen
               THEN Answer("Ok", sig, be)
               ELSE Answer("SigningFailed", NoBytes, be)

\* As it would be if the new signing key were not kept.
generate_keypair_keeps_signing(be) ==
  {Fitted(KeyBytes(be.param, k), [be EXCEPT !.public = k]) : k \in Keys \ {be.signing}}

generate_keypair(be) ==
  {Fitted(KeyBytes(be.param, k), [be EXCEPT !.signing = k, !.public = k]) :
     k \in Keys \ {be.signing}}
  \cup (IF TrngMayFail THEN {Answer("NotImplemented", NoBytes, be)} ELSE {})

dispatch(req, be) ==
  CASE req.cmd = "GetInfo"         -> {Fitted(InfoBytes(be.param), be)}
    [] req.cmd = "ListObjects"     -> {Fitted(ListBytes, be)}
    [] req.cmd = "GetPublicKey"    ->
         {WithHandle(req, Fitted(KeyBytes(be.param, be.public), be), be)}
    [] req.cmd = "Sign"            -> {WithHandle(req, sign(be, req.msg), be)}
    [] req.cmd = "GenerateKeypair" -> generate_keypair(be)
    [] req.cmd = "DeleteObject"    -> {Answer("NotImplemented", NoBytes, be)}
    [] OTHER                       -> {Answer("UnknownCommand", NoBytes, be)}
=============================================================================
