------------------------------- MODULE Framing ------------------------------
(***************************************************************************)
(* token-core's frames as bytes (write_frame and read_frame of             *)
(* token-core/src/lib.rs), one direction of a connection: a writer whose   *)
(* bytes arrive in pieces of any size, a reader that finds the frames in   *)
(* them, and a buffer of limited size between the two.                     *)
(***************************************************************************)
EXTENDS Integers, Sequences, SequencesExt

CONSTANTS
  Base,       \* values of a byte (256)
  LenBytes,   \* bytes of the length in front of a frame (4)
  Frames,     \* the frames that the writer may send, as [kind, payload]
  BufLen,     \* bytes of the reader's buffer
  MaxWire,    \* bytes that the kernel or the driver holds between the two ends
  MaxDue,     \* bound on the frames under way
  Media,      \* which of the connections below
  None

Byte      == 0 .. Base - 1
FrameType == [kind : Byte, payload : Seq(Byte)]

\* What a one counts for in each byte of a length, the smallest first, and after them.
Weight[i \in 0 .. LenBytes] == IF i = 0 THEN 1 ELSE Base * Weight[i - 1]

\* The length fits its field: no caller sends 4 GiB at once.
ASSUME FramingAssumption ==
  /\ Base \in Nat /\ Base > 1 /\ {LenBytes, BufLen, MaxWire} \subseteq Nat \ {0}
  /\ Frames \subseteq FrameType
  /\ \A f \in Frames : 1 + Len(f.payload) < Weight[LenBytes]
  /\ Media \subseteq {"tcp", "to_host", "to_nano"}

VARIABLES
  medium,  \* "tcp": it ends when the writer does; "to_host": the serial port, read
           \* with a timeout; "to_nano": the serial port, read without one
  rest,    \* what write_frame has still to write
  wire,    \* bytes under way
  open,    \* the writer is still there
  reader,  \* where read_frame is, how many bytes it waits for and those it has
  got,     \* what read_frame returned in the last step, None if it did not return
  due,     \* the frames handed to write_frame that read_frame has not accounted for
  inStep   \* no frame was cut off, or there has been a pause since

framingVars == <<medium, rest, wire, open, reader, got, due, inStep>>

TooLarge == [err |-> "FrameTooLarge"]
Io       == [err |-> "Io"]

-----------------------------------------------------------------------------
(* write_frame.                                                            *)

\* As it would be if a length were not cut into bytes, or in the other order.
to_le_uncut(n) == [i \in 1 .. LenBytes |-> n \div Weight[i - 1]]
to_be_bytes(n) == [i \in 1 .. LenBytes |-> (n \div Weight[LenBytes - i]) % Base]

to_le_bytes(n) == [i \in 1 .. LenBytes |-> (n \div Weight[i - 1]) % Base]

from_le_bytes(bytes) ==
  LET sum[i \in 0 .. LenBytes] == IF i = 0 THEN 0 ELSE sum[i - 1] + bytes[i] * Weight[i - 1]
  IN sum[LenBytes]

\* The length counts the kind; `as u32` cuts it to its field.
Encoded(f) == to_le_bytes((1 + Len(f.payload)) % Weight[LenBytes])
                \o <<f.kind>> \o f.payload

Reading(at, need) == [at |-> at, need |-> need, bytes |-> <<>>]
AtLength == Reading("length", LenBytes)

\* Out of step, a reader finds its step again where no byte is under way.
Regain(cutOff) ==
  LET pause == rest' = <<>> /\ wire' = <<>> /\ reader' = AtLength IN
  inStep' = (pause \/ (inStep /\ ~cutOff))

\* Nothing is said of the frames that are written or read out of step.
Account(frames) == due' = IF inStep' THEN frames ELSE <<>>

WriteFrame ==
  /\ open /\ rest = <<>> /\ Len(due) < MaxDue
  /\ got' = None
  /\ UNCHANGED <<medium, wire, open, reader, inStep>>
  /\ \E f \in Frames : rest' = Encoded(f) /\ Account(Append(due, f))

\* write_all: as much as there is room for at the moment.
WriteAll ==
  /\ \E n \in 1 .. Len(rest) :
       /\ Len(wire) + n <= MaxWire
       /\ wire' = wire \o SubSeq(rest, 1, n)
       /\ rest' = SubSeq(rest, n + 1, Len(rest))
  /\ got' = None
  /\ UNCHANGED <<medium, open, reader, due, inStep>>

\* The writer hangs up or dies, perhaps in the middle of a frame.
Close ==
  /\ medium = "tcp" /\ open
  /\ open' = FALSE /\ rest' = <<>> /\ got' = None
  /\ UNCHANGED <<medium, wire, reader, due, inStep>>

\* The writer is reset or killed in the middle of a frame; it comes back to the
\* same port, where the reader has noticed nothing.
CutOff ==
  /\ medium # "tcp" /\ rest # <<>>
  /\ inStep => rest # Encoded(due[Len(due)])
  /\ rest' = <<>> /\ got' = None
  /\ UNCHANGED <<medium, wire, open, reader>>
  /\ Regain(TRUE) /\ Account(due)

-----------------------------------------------------------------------------
(* read_frame.  Its callers call it again for the next frame.              *)

\* As it would be if a read waited until all it asks for has arrived.
ArrivingWhole(at) ==
  IF reader.at # at \/ Len(reader.bytes) + Len(wire) < reader.need THEN {}
  ELSE {SubSeq(wire, 1, reader.need - Len(reader.bytes))}

\* The next bytes that arrive for read_exact, if it is at `at`.
Arriving(at) ==
  IF reader.at # at THEN {}
  ELSE {SubSeq(wire, 1, n) : n \in {i \in 1 .. Len(wire) :
                                      Len(reader.bytes) + i <= reader.need}}

Takes(some) == wire' = SubSeq(wire, Len(some) + 1, Len(wire))
               /\ UNCHANGED <<medium, rest, open>>

GoesOn(place)    == got' = None /\ reader' = place /\ Regain(FALSE) /\ Account(due)
Returns(result) == /\ got' = result /\ reader' = AtLength /\ Regain(FALSE)
                    /\ Account(IF inStep THEN Tail(due) ELSE due)

ReadLength ==
  \E some \in Arriving("length") :
    LET bytes == reader.bytes \o some
        len == from_le_bytes(bytes)
    IN /\ Takes(some)
       /\ CASE Len(bytes) < LenBytes -> GoesOn([reader EXCEPT !.bytes = bytes])
            [] Len(bytes) = LenBytes /\ len = 0 -> Returns(TooLarge)
            [] Len(bytes) = LenBytes /\ len > BufLen -> GoesOn(Reading("drain", len))
            [] Len(bytes) = LenBytes /\ len \in 1 .. BufLen -> GoesOn(Reading("body", len))

ReadBody ==
  \E some \in Arriving("body") :
    LET bytes == reader.bytes \o some
    IN /\ Takes(some)
       /\ IF Len(bytes) < reader.need
          THEN GoesOn([reader EXCEPT !.bytes = bytes])
          ELSE Returns([ok |-> [kind |-> bytes[1], payload |-> Tail(bytes)]])

\* As it would be if only as much were skipped as fits the buffer.
DrainOnce ==
  \E some \in Arriving("drain") :
    LET remaining == reader.need - Len(some)
    IN /\ Takes(some)
       /\ IF Len(some) < BufLen THEN GoesOn(Reading("drain", remaining)) ELSE Returns(TooLarge)

\* The loop that skips a frame too large for the buffer; `need` is `remaining`.
Drain ==
  \E some \in Arriving("drain") :
    LET remaining == reader.need - Len(some)
    IN /\ Takes(some)
       /\ IF remaining > 0 THEN GoesOn(Reading("drain", remaining)) ELSE Returns(TooLarge)

\* What read_frame returns when read_exact fails: an error met while skipping is
\* not passed on.
Failure == IF reader.at = "drain" THEN TooLarge ELSE Io

\* The end of the stream.
ReadEnds ==
  /\ ~open /\ wire = <<>>
  /\ got' = Failure /\ reader' = AtLength /\ due' = <<>>
  /\ UNCHANGED <<medium, rest, wire, open, inStep>>

\* Five seconds without a byte: nothing of an answer has come, or it stops short.
ReadTimesOut ==
  /\ medium = "to_host" /\ wire = <<>>
  /\ got' = Failure /\ reader' = AtLength
  /\ UNCHANGED <<medium, rest, wire, open>>
  /\ Regain(reader # AtLength) /\ Account(due)

-----------------------------------------------------------------------------
Init ==
  /\ medium \in Media
  /\ rest = <<>> /\ wire = <<>> /\ open = TRUE
  /\ reader = AtLength /\ got = None /\ due = <<>> /\ inStep = TRUE

ReadFrame == ReadLength \/ ReadBody \/ Drain \/ ReadEnds

Next == WriteFrame \/ WriteAll \/ Close \/ CutOff \/ ReadFrame \/ ReadTimesOut

Spec == Init /\ [][Next]_framingVars

TypeOK ==
  /\ medium \in Media /\ open \in BOOLEAN /\ inStep \in BOOLEAN
  /\ rest \in Seq(Byte) /\ wire \in Seq(Byte) /\ Len(wire) <= MaxWire
  /\ reader \in [at : {"length", "body", "drain"}, need : Nat, bytes : Seq(Byte)]
  /\ due \in Seq(Frames)

-----------------------------------------------------------------------------
\* The bytes of the oldest frame due that read_frame has not read.
LeftOfFirst ==
  LET frame == Encoded(due[1])
      read == CASE reader.at = "length" -> Len(reader.bytes)
                [] reader.at = "body"   -> LenBytes + Len(reader.bytes)
                [] reader.at = "drain"  -> Len(frame) - reader.need
  IN SubSeq(frame, read + 1, Len(frame))

\* In step, the bytes under way and still to be written are those of the frames
\* due that are not read yet, one frame after the other, the last one cut short if
\* the writer has closed the stream: what is read next begins where a frame begins
\* (token-core/src/lib.rs, read_frame and its test of resynchronisation).
InStep ==
  inStep =>
    IF due = <<>>
    THEN wire = <<>> /\ rest = <<>> /\ reader = AtLength
    ELSE LET left == LeftOfFirst \o FlattenSeq([i \in 1 .. Len(due) - 1 |-> Encoded(due[i + 1])])
         IN IF open THEN wire \o rest = left ELSE IsPrefix(wire, left)

Fitting == {f \in Frames : 1 + Len(f.payload) <= BufLen}

Whole == INSTANCE FrameQueue WITH queue <- due

\* The bytes carry whole frames, as Link has them: each read_frame returns the
\* oldest one, says that it was too large, or fails and loses none but one that
\* its writer did not finish (write_frame, read_frame).
ImplementsFrameQueue == Whole!Spec

\* A reader that loops, as both tokens do, keeps the writer writing: a frame
\* larger than the buffers of both ends and of the wire gets through
\* (the loop that skips it in read_frame).
FairSpec == Spec /\ WF_framingVars(ReadFrame) /\ WF_framingVars(WriteAll)

WriterNeverStuck == medium # "to_host" => (rest # <<>> ~> rest = <<>>)
=============================================================================
