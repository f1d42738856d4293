-------------------------------- MODULE Hsm ---------------------------------
(***************************************************************************)
(* What a client may assume of a token with one key pair: each operation   *)
(* takes effect at one instant between its call and its return, on the key *)
(* pair of that instant, and an operation that fails has taken effect once *)
(* or not at all.  The request of a client that has gone may still take    *)
(* effect later.                                                           *)
(***************************************************************************)
CONSTANTS
  Clients,
  Keys,
  Messages,
  Orphans,   \* names for the requests of clients that have gone
  None

VARIABLES
  key,     \* the key pair, None while the token is off
  op,      \* per client, its operation and the answer it has got so far, or None
  orphans, \* key generations asked for by clients that have gone
  out      \* what the last step returned to a client, None if it returned nothing

hsmVars == <<key, op, orphans, out>>

SignOp(m)     == [cmd |-> "sign", msg |-> m]
GenerateOp    == [cmd |-> "generate"]
Operations    == {SignOp(m) : m \in Messages} \cup {GenerateOp}
Asked(o)      == [req |-> o, answer |-> None]
Answered(o, k) == [req |-> o, answer |-> k]

Init == /\ key = None
        /\ op = [c \in Clients |-> None]
        /\ orphans = {} /\ out = None

Ask(c) == /\ op[c] = None
          /\ \E o \in Operations : op' = [op EXCEPT ![c] = Asked(o)]
          /\ out' = None
          /\ UNCHANGED <<key, orphans>>

\* The instant: a signature is made with the key, a generation replaces it.
Serve(c) ==
  /\ key # None /\ op[c] # None /\ op[c].answer = None
  /\ \/ op[c].req # GenerateOp /\ UNCHANGED key
     \/ op[c].req = GenerateOp /\ key' \in Keys \ {key}
  /\ op' = [op EXCEPT ![c] = Answered(@.req, key')]
  /\ out' = None
  /\ UNCHANGED orphans

\* The client gets a signature of its own message, or the new public key.
Return(c) == /\ op[c] # None /\ op[c].answer # None
             /\ out' = [by |-> c, req |-> op[c].req, key |-> op[c].answer]
             /\ op' = [op EXCEPT ![c] = None]
             /\ UNCHANGED <<key, orphans>>

Fail(c) == /\ op[c] # None
           /\ op' = [op EXCEPT ![c] = None]
           /\ out' = None
           /\ UNCHANGED <<key, orphans>>

\* The client goes while the token has not taken up its key generation yet.
Abandon(c) == /\ op[c] = Asked(GenerateOp)
              /\ op' = [op EXCEPT ![c] = None]
              /\ \E o \in Orphans \ orphans : orphans' = orphans \cup {o}
              /\ out' = None
              /\ UNCHANGED key

\* The token takes it up all the same.
ServeOrphan == /\ key # None
               /\ key' \in Keys \ {key}
               /\ \E o \in orphans : orphans' = orphans \ {o}
               /\ out' = None
               /\ UNCHANGED op

\* The token stops or starts, with whatever key it then has; answers not yet
\* returned may be lost.
Restart == /\ (key = None) # (key' = None)
           /\ key' \in Keys \cup {None}
           /\ \E lost \in SUBSET Clients :
                op' = [c \in Clients |-> IF c \in lost /\ op[c] # None
                                         THEN Asked(op[c].req) ELSE op[c]]
           /\ orphans' = {} /\ out' = None

\* The clients move on.
Forget == out' = None /\ UNCHANGED <<key, op, orphans>>

Next == \/ Restart \/ Forget \/ ServeOrphan
        \/ \E c \in Clients : Ask(c) \/ Serve(c) \/ Return(c) \/ Fail(c) \/ Abandon(c)

Spec == Init /\ [][Next]_hsmVars
=============================================================================
