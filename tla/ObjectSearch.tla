----------------------------- MODULE ObjectSearch ---------------------------
(***************************************************************************)
(* DevSystem with a record of what the object searches of each session     *)
(* have handed to the application, and of the length it was told for the   *)
(* public key.                                                             *)
(***************************************************************************)
EXTENDS DevSystem

VARIABLES
  search,  \* per process and session: the class asked for and the handles
           \* handed out since C_FindObjectsInit; None when no search is open
  told     \* per process: the length of CKA_VALUE that a call without a buffer
           \* left, None if there was no such call since C_Initialize

NoSearch == [s \in Sessions |-> None]

Searches == [class : Classes, handles : Seq(ObjectHandles)]

\* What C_ functions that begin, continue or end a search return.
Results == [by : Threads, rv : {"OK"},
            op : {"C_Initialize", "C_Finalize", "C_CloseSession",
                  "C_FindObjectsInit", "C_FindObjects", "C_FindObjectsFinal"},
            out : {None} \cup [s : Sessions] \cup [s : Sessions, class : Classes]
                  \cup [s : Sessions, room : 0 .. 3, found : Seq(ObjectHandles)]]

ASSUME NoneIsNoSearch ==
  None \notin Searches \cup Results \cup SessionState \cup Seq(ObjectHandles)

\* What the return of a C_ function tells the observer about process p.
Observed(p) ==
  LET mine == ret' # None /\ ret'.rv = "OK" /\ ProcOf[ret'.by] = p
      s == ret'.out.s
  IN CASE mine /\ ret'.op = "C_FindObjectsInit" ->
            [search[p] EXCEPT ![s] = [class |-> ret'.out.class, handles |-> <<>>]]
       [] mine /\ ret'.op = "C_FindObjects" ->
            [search[p] EXCEPT ![s].handles = @ \o ret'.out.found]
       [] mine /\ ret'.op \in {"C_FindObjectsFinal", "C_CloseSession"} ->
            [search[p] EXCEPT ![s] = None]
       [] mine /\ ret'.op \in {"C_Initialize", "C_Finalize"} -> NoSearch
       [] Uninitialized(p)' -> NoSearch
       [] OTHER -> search[p]

\* The attributes of the public key that the step has answered, and those asked for.
Answered(r) == IF r = None \/ r.op # "C_GetAttributeValue" \/ r.rv = "CRYPTOKI_NOT_INITIALIZED"
               THEN {}
               ELSE {[asked |-> r.out.template[i], got |-> r.out.attrs[i]] :
                       i \in {j \in DOMAIN r.out.template :
                                r.out.object = PUBLIC_KEY_HANDLE
                                  /\ r.out.template[j].type = "CKA_VALUE"}}

Told(p) ==
  LET lengths == {a.got.len : a \in {b \in Answered(ret') : b.asked.room = None}}
  IN CASE Uninitialized(p)' \/ (ret' # None /\ ret'.op = "C_Initialize" /\ ret'.rv = "OK"
                                 /\ ProcOf[ret'.by] = p) -> None
       [] ret' # None /\ ProcOf[ret'.by] = p /\ lengths # {} -> CHOOSE n \in lengths : TRUE
       [] OTHER -> told[p]

SearchInit == Init /\ search = [p \in Procs |-> NoSearch] /\ told = [p \in Procs |-> None]
SearchNext == /\ Next
              /\ search' = [p \in Procs |-> Observed(p)]
              /\ told' = [p \in Procs |-> Told(p)]
SearchSpec == SearchInit /\ [][SearchNext]_<<vars, search, told>>

\* A search enumerates the objects of the class it asked for, each once: what
\* it has handed out and what it still holds are exactly those, in order, while
\* other sessions search, sign and close (pkcs11-provider/src/lib.rs,
\* c_find_objects_init, c_find_objects, c_find_objects_final).
EnumerationExact ==
  \A p \in Procs, s \in Sessions :
    LET open == search[p][s] IN
    /\ open # None <=> HasSession(p, s) /\ state[p].sessions[s].pending_find # None
    /\ open # None =>
         open.handles \o state[p].sessions[s].pending_find = Matching(open.class)

\* A session gets as many handles as its array holds as long as there are any:
\* an answer shorter than the array ends the search, as PKCS#11 clients assume.
ShortAnswerIsLast ==
  ret # None /\ ret.op = "C_FindObjects" /\ ret.rv = "OK"
  => /\ Len(ret.out.found) <= ret.out.room
     /\ Len(ret.out.found) < ret.out.room =>
          state[ProcOf[ret.by]].sessions[ret.out.s].pending_find = <<>>

\* The length of the public key that an application is told is enough for the whole
\* of it until it initializes again, whatever keys its threads generate in between
\* (c_get_attribute_value, attributes.rs; cryptoki's get_attributes asks twice).
QueryThenRead ==
  \A a \in Answered(ret) :
    LET p == ProcOf[ret.by] IN
    told[p] # None /\ a.asked.room # None /\ a.asked.room >= told[p]
    => a.got = Served("OK", told[p], state[p].pk)

\* With every public key that a process has just learnt, C_GetAttributeValue answers
\* each attribute as if it were asked for alone, and the second of the two calls that
\* cryptoki's get_attributes makes succeeds (attributes.rs, get_attribute_values).
AttributesIndependent ==
  ret # None /\ ret.op = "C_Initialize" /\ ret.rv = "OK"
  => IndependentWith(state[ProcOf[ret.by]].pk)
=============================================================================
