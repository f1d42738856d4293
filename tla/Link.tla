------------------------------- MODULE Link --------------------------------
(***************************************************************************)
(* The connection between a provider and a token: a TCP stream to          *)
(* dev-signer (pkcs11-provider/src/device.rs, the listener of              *)
(* dev-signer/src/main.rs) or the USB serial port of nano-signer.  Neither *)
(* the kernel's TCP nor the serialport crate is part of the repository:    *)
(* this module is how the code uses them.                                  *)
(***************************************************************************)
EXTENDS TokenCore, Sequences

CONSTANTS
  Conns,        \* connection identifiers; one is used again once both ends closed it
  Serial,       \* TRUE: a connection is the serial port; FALSE: a TCP stream
  SlowCommands, \* commands that keep the token busy past the serial port's timeout
  MaxFrames     \* bound on the frames that the buffers of a connection hold

ASSUME LinkAssumption ==
  /\ Serial \in BOOLEAN
  /\ None \notin Conns
  /\ SlowCommands \subseteq Command
  /\ MaxFrames \in Nat \ {0}

VARIABLES
  backend,   \* the SigningBackend of the token, None while the token does not run
  link,      \* per connection, its two ends and the frames under way
  backlog,   \* connections the kernel has accepted and the server has not
  listening  \* the endpoint can be reached: the server listens, the port exists

linkVars == <<link, backlog, listening>>

\* host: the provider's end is open.  dev: the token's end.
\* up: requests the token has not read.  down: responses not read by the host.
Channels == [host : BOOLEAN, dev : {"closed", "queued", "serving"},
             up : Seq(Requests), down : Seq(Responses)]

Unused == [host |-> FALSE, dev |-> "closed", up |-> <<>>, down |-> <<>>]

LinkTypeOK == /\ link \in [Conns -> Channels]
              /\ backlog \in Seq(Conns)
              /\ listening \in BOOLEAN
              /\ backend \in Backends \cup {None}

-----------------------------------------------------------------------------
(* The host's end.                                                         *)

\* device::connect over TCP: the kernel completes it as soon as the server listens.
Dialled == [host |-> TRUE, dev |-> "queued", up |-> <<>>, down |-> <<>>]

\* device::connect to the serial port, which one host at a time can open.  What
\* the token has sent since the last close is still in the driver, or is gone.
Opened(ch) == {[ch EXCEPT !.host = TRUE], [ch EXCEPT !.host = TRUE, !.down = <<>>]}

\* token_core::write_frame by the host: it fails on buffers that stay full, and
\* a peer that is gone swallows the frame.
HasRoom(ch) == Len(ch.up) + Len(ch.down) < MaxFrames
HostSends(ch, req) == IF ch.dev = "closed" THEN ch
                      ELSE [ch EXCEPT !.up = Append(@, req)]

\* token_core::read_frame by the host, once a response has arrived.
HostReads(ch) == [ch EXCEPT !.down = Tail(@)]

\* As it would be without a timeout.
ReadWithoutTimeout(ch) == ch.down = <<>> /\ ch.dev = "closed"

\* The read fails.  TCP: the token's end is closed and nothing is left to read;
\* there is no timeout.  Serial: five seconds of silence, because the token is
\* busy with a slow command or because no answer is coming.
ReadFails(ch) ==
  /\ ch.down = <<>>
  /\ \/ ch.dev = "closed"
     \/ /\ Serial
        /\ \/ ch.up = <<>> \/ ~listening
           \/ \E i \in DOMAIN ch.up : ch.up[i].cmd \in SlowCommands

\* Dropping the Connection.  Frames already written still reach the token; on
\* the serial port, what the token sends stays for the next host to open it.
HostCloses(ch) == IF Serial /\ ch.dev # "closed"
                  THEN [ch EXCEPT !.host = FALSE]
                  ELSE [ch EXCEPT !.host = FALSE, !.down = <<>>]

-----------------------------------------------------------------------------
(* The token's end.                                                        *)

TokenReads(ch) == [ch EXCEPT !.up = Tail(@)]

\* A response to a TCP peer that is gone is lost.
TokenWrites(ch, rsp) == IF ch.host \/ Serial THEN [ch EXCEPT !.down = Append(@, rsp)]
                        ELSE ch

\* One turn of a token's loop with a frame to read: an oversized one is dropped
\* without an answer, any other one is dispatched.
TakesTurn(c) ==
  /\ backend # None /\ link[c].dev = "serving" /\ link[c].up # <<>>
  /\ LET req == Head(link[c].up) IN
     \/ /\ Oversize(req)
        /\ link' = [link EXCEPT ![c] = TokenReads(@)]
        /\ UNCHANGED backend
     \/ /\ ~Oversize(req)
        /\ \E o \in dispatch(req, backend) :
             /\ backend' = o.be
             /\ link' = [link EXCEPT ![c] = TokenWrites(TokenReads(@), o.rsp)]
  /\ UNCHANGED <<backlog, listening>>

\* The token's process is gone: unread requests with it, and perhaps the
\* responses the host has not read (a reset discards them).
TokenDies(ch, keep) == [ch EXCEPT !.dev = "closed", !.up = <<>>,
                                  !.down = IF keep THEN @ ELSE <<>>]
=============================================================================
