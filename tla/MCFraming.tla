------------------------------ MODULE MCFraming -----------------------------
(* Framing with bytes of two bits and lengths of two bytes.                                        *)
EXTENDS Framing

\* Of 0, 2 and 5 bytes of payload: the last one is too large for the buffer, and both
\* bytes of its length count.
SmallFrames == {[kind |-> 1, payload |-> <<>>], [kind |-> 0, payload |-> <<3, 1>>],
                [kind |-> 2, payload |-> <<1, 0, 1, 0, 1>>]}
=============================================================================
