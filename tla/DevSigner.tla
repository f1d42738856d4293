------------------------------ MODULE DevSigner -----------------------------
(***************************************************************************)
(* dev-signer: a token as a TCP server (dev-signer/src/main.rs).  It       *)
(* serves one connection at a time, in the order the kernel accepted them, *)
(* and answers frame by frame until the client hangs up.                   *)
(***************************************************************************)
EXTENDS Link

CONSTANTS
  PARAM_SETS   \* the parameter sets it may be started with

\* Its response buffer of MAX_MESSAGE_LEN bytes has room for any public key, and its
\* generate_keypair never fails.
ASSUME DevSignerAssumption ==
  /\ PARAM_SETS \subseteq ParamSets /\ PARAM_SETS # {}
  /\ ResponseBufLen >= 64
  /\ ~TrngMayFail

VARIABLE
  disk       \* the key pair in the key files, one pair of files per parameter set

devVars == <<backend, disk>>

DevTypeOK == disk \in [PARAM_SETS -> Keys \cup {None}]

DevInit == /\ backend = None
           /\ disk \in [PARAM_SETS -> Keys \cup {None}]

ServingNow == {c \in Conns : link[c].dev = "serving"}

-----------------------------------------------------------------------------
\* main up to the listener: load the key files or make and write a key pair.
Boot(p) ==
  /\ backend = None
  /\ \E k \in IF disk[p] = None THEN Keys ELSE {disk[p]} :
       /\ disk' = [disk EXCEPT ![p] = k]
       /\ backend' = [param |-> p, signing |-> k, public |-> k]
  /\ listening' = TRUE
  /\ UNCHANGED <<link, backlog>>

\* As it would be if each connection were served by a thread of its own.
AcceptAtOnce ==
  /\ backend # None /\ backlog # <<>>
  /\ link' = [link EXCEPT ![Head(backlog)].dev = "serving"]
  /\ backlog' = Tail(backlog)
  /\ UNCHANGED <<listening, devVars>>

\* listener.incoming(): the next connection, once handle_connection returned.
Accept ==
  /\ backend # None /\ ServingNow = {} /\ backlog # <<>>
  /\ link' = [link EXCEPT ![Head(backlog)].dev = "serving"]
  /\ backlog' = Tail(backlog)
  /\ UNCHANGED <<listening, devVars>>

\* One turn of the loop of handle_connection.
Handle(c) == TakesTurn(c) /\ UNCHANGED disk

\* As it would be if the loop went on reading after an error.
HangupIgnored(c) ==
  /\ backend # None /\ link[c].dev = "serving" /\ ~link[c].host /\ link[c].up = <<>>
  /\ UNCHANGED <<linkVars, devVars>>

\* read_frame meets the end of the stream: handle_connection returns.
Hangup(c) ==
  /\ backend # None /\ link[c].dev = "serving" /\ ~link[c].host /\ link[c].up = <<>>
  /\ link' = [link EXCEPT ![c] = [@ EXCEPT !.dev = "closed"]]
  /\ UNCHANGED <<backlog, listening, devVars>>

\* The process is killed: memory is lost, the key files stay.
Crash ==
  /\ backend # None
  /\ backend' = None /\ listening' = FALSE /\ backlog' = <<>>
  /\ \E keep \in BOOLEAN : link' = [c \in Conns |-> TokenDies(link[c], keep)]
  /\ UNCHANGED disk

DevServes == Accept \/ \E c \in Conns : Handle(c) \/ Hangup(c)
=============================================================================
