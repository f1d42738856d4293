----------------------------- MODULE FrameQueue -----------------------------
(***************************************************************************)
(* What the two ends of a connection may assume of token-core's frames:    *)
(* while they are in step, each read_frame hands over the oldest frame not *)
(* read yet, whole, or says that it was too large, or fails and leaves the *)
(* frames where they are.  A frame cut off in the middle may lose the two  *)
(* ends their step, and they find it again on a connection without frames. *)
(***************************************************************************)
EXTENDS Sequences, Naturals

CONSTANTS
  Frames,
  Fitting,  \* the frames the reader has room for
  None

VARIABLES
  queue,    \* the frames written and not yet read
  open,     \* the writer can still write
  inStep,   \* the reader knows where frames begin
  got       \* what read_frame returned in the last step, None if it did not return

queueVars == <<queue, open, inStep, got>>

TooLarge == [err |-> "FrameTooLarge"]
Io       == [err |-> "Io"]

Init == queue = <<>> /\ open = TRUE /\ inStep = TRUE /\ got = None

Send == /\ open
        /\ \E f \in Frames : queue' = Append(queue, f)
        /\ got' = None
        /\ UNCHANGED <<open, inStep>>

Receive == /\ inStep /\ queue # <<>>
           /\ got' = IF Head(queue) \in Fitting THEN [ok |-> Head(queue)] ELSE TooLarge
           /\ queue' = Tail(queue)
           /\ UNCHANGED <<open, inStep>>

Fail == inStep /\ got' = Io /\ UNCHANGED <<queue, open, inStep>>

\* The writer closes the stream; the frame it was writing, the last one, may be lost.
Close == open' = FALSE /\ got' = None /\ UNCHANGED <<queue, inStep>>
Lose  == /\ ~open /\ Len(queue) = 1
         /\ queue' = <<>> /\ got' = Io
         /\ UNCHANGED <<open, inStep>>

\* Out of step, anything may be read, and nothing is promised of the frames.
Derail  == inStep /\ queue # <<>> /\ inStep' = FALSE /\ queue' = <<>> /\ UNCHANGED open
Stray   == ~inStep /\ UNCHANGED <<queue, open, inStep>>
Realign == ~inStep /\ inStep' = TRUE /\ UNCHANGED <<queue, open>>

Wait == got' = None /\ UNCHANGED <<queue, open, inStep>>

Next == Send \/ Receive \/ Fail \/ Close \/ Lose \/ Derail \/ Stray \/ Realign
        \/ Wait

Spec == Init /\ [][Next]_queueVars
=============================================================================
