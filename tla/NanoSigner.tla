----------------------------- MODULE NanoSigner -----------------------------
(***************************************************************************)
(* nano-signer: the token on an Arduino Nano ESP32, behind its USB serial  *)
(* port (nano-signer/src/bin/main.rs).  It reads one frame after the other *)
(* whoever has the port open, and keeps in flash the key of its first boot.*)
(***************************************************************************)
EXTENDS Link

CONSTANTS
  PARAM_SET_NAME,  \* the parameter set the firmware is built for
  Resets           \* what a reset may do to the port: "kept", "lost"

\* RESPONSE_BUF_LEN is the length of a signature (main).
ASSUME NanoAssumption ==
  /\ PARAM_SET_NAME \in ParamSets
  /\ ResponseBufLen = signature_len_for[PARAM_SET_NAME]
  /\ Resets \subseteq {"kept", "lost"}

VARIABLE
  record     \* the key pair in the keys partition, None while it is erased

nanoVars == <<backend, record>>

NanoTypeOK == record \in Keys \cup {None}

NanoInit == backend = None /\ record = None

Port == {c \in Conns : link[c].dev = "serving"}

-----------------------------------------------------------------------------
\* NanoBackend::from_flash_or_generate, after a reset.  If the reset took the
\* port off the bus it comes back as a new one.
Boot ==
  /\ backend = None
  /\ \E k \in IF record = None THEN Keys ELSE {record} :
       /\ record' = k
       /\ backend' = [param |-> PARAM_SET_NAME, signing |-> k, public |-> k]
  /\ listening' = TRUE
  /\ \/ Port # {} /\ UNCHANGED link
     \/ /\ Port = {}
        /\ \E c \in Conns : /\ link[c] = Unused
                            /\ link' = [link EXCEPT ![c].dev = "serving"]
  /\ UNCHANGED backlog

\* One turn of the loop of main.
Handle(c) == TakesTurn(c) /\ UNCHANGED record

\* A reset or a power cut: memory is lost and so are the frames not yet read.
\* The host may not notice (the USB controller keeps running) or lose the port.
Reset ==
  /\ backend # None
  /\ backend' = None /\ listening' = FALSE
  /\ \E r \in Resets, c \in Port :
       link' = [link EXCEPT ![c] =
                  IF r = "kept" THEN [@ EXCEPT !.up = <<>>]
                  ELSE IF @.host THEN TokenDies(@, FALSE) ELSE Unused]
  /\ UNCHANGED <<backlog, record>>
=============================================================================
