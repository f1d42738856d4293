----------------------------- MODULE Attributes -----------------------------
(***************************************************************************)
(* The objects of the token and what C_GetAttributeValue says of them      *)
(* (pkcs11-provider/src/attributes.rs).  A template is a sequence of       *)
(* attributes, each with a buffer; the call answers every one of them and  *)
(* returns one CK_RV for all.                                              *)
(***************************************************************************)
EXTENDS TokenCore, Sequences

ASSUME NoneIsNoLength == None \notin Nat

PRIVATE_KEY_HANDLE == 1
PUBLIC_KEY_HANDLE  == 2
ObjectHandles      == {PRIVATE_KEY_HANDLE, PUBLIC_KEY_HANDLE}

CK_UNAVAILABLE_INFORMATION == -1

\* CKA_MODULUS stands for all the types that get_attribute_values does not know.
AttributeTypes == {"CKA_CLASS", "CKA_KEY_TYPE", "CKA_TOKEN", "CKA_SIGN", "CKA_VERIFY",
                   "CKA_LABEL", "CKA_ID", "CKA_VALUE", "CKA_MODULUS"}

\* The caller's buffer holds `room` bytes; None: a null one, which asks for the length.
Attr(type, room) == [type |-> type, room |-> room]

Bytes(len, value) == [len |-> len, value |-> value]

\* The bytes of an attribute that the object has and shows.
ValueOf(type, object, pk) ==
  CASE type = "CKA_CLASS"    -> Bytes(8, IF object = PRIVATE_KEY_HANDLE THEN "private" ELSE "public")
    [] type = "CKA_KEY_TYPE" -> Bytes(8, "vendor defined")
    [] type = "CKA_TOKEN"    -> Bytes(1, TRUE)
    [] type = "CKA_SIGN"     -> Bytes(1, object = PRIVATE_KEY_HANDLE)
    [] type = "CKA_VERIFY"   -> Bytes(1, object = PUBLIC_KEY_HANDLE)
    [] type = "CKA_LABEL"    -> Bytes(15, "pqc-dev-hsm-key")
    [] type = "CKA_ID"       -> Bytes(1, "01")
    [] type = "CKA_VALUE"    -> Bytes(ByteLen(pk), pk)

\* What an attribute is answered with: its CK_RV, the length left in the template and
\* the bytes written to the buffer, None if none were.
Served(rv, len, value) == [rv |-> rv, len |-> len, value |-> value]
Refused(rv)            == Served(rv, CK_UNAVAILABLE_INFORMATION, None)

\* As it would be if a buffer of the very length were refused.
Copied_exclusive(attr, bytes) ==
  CASE attr.room = None -> Served("OK", bytes.len, None)
    [] attr.room # None /\ attr.room <= bytes.len -> Refused("BUFFER_TOO_SMALL")
    [] OTHER -> Served("OK", bytes.len, bytes.value)

Copied(attr, bytes) ==
  CASE attr.room = None -> Served("OK", bytes.len, None)
    [] attr.room # None /\ attr.room < bytes.len -> Refused("BUFFER_TOO_SMALL")
    [] OTHER -> Served("OK", bytes.len, bytes.value)

ServedAttr(attr, object, pk) ==
  CASE attr.type = "CKA_VALUE" /\ object # PUBLIC_KEY_HANDLE -> Refused("ATTRIBUTE_SENSITIVE")
    [] attr.type = "CKA_MODULUS" -> Refused("ATTRIBUTE_TYPE_INVALID")
    [] OTHER -> Copied(attr, ValueOf(attr.type, object, pk))

\* What the loop has done before the first attribute.
NothingDone == [rv |-> "OK", attrs |-> <<>>]

\* As it would be if the loop ended at the first error.
get_attribute_values_until_error(object, pk, template) ==
  LET after[i \in 0 .. Len(template)] ==
        IF i = 0 THEN NothingDone
        ELSE LET done   == after[i - 1]
                 served == IF done.rv # "OK" THEN Served(done.rv, template[i].room, None)
                           ELSE ServedAttr(template[i], object, pk)
             IN  [rv |-> served.rv, attrs |-> Append(done.attrs, served)]
  IN  after[Len(template)]

\* Every attribute is answered; `note` keeps the first error.
get_attribute_values(object, pk, template) ==
  LET after[i \in 0 .. Len(template)] ==
        IF i = 0 THEN NothingDone
        ELSE LET done   == after[i - 1]
                 served == ServedAttr(template[i], object, pk)
             IN  [rv    |-> IF done.rv = "OK" THEN served.rv ELSE done.rv,
                  attrs |-> Append(done.attrs, served)]
  IN  after[Len(template)]

-----------------------------------------------------------------------------
\* Buffers null, too short for some attribute, as long as one, and longer than all.
SomeRooms     == {None, 0, 1, 15, 48}
SomeTemplates == {<<>>} \cup {<<Attr(a, r)>> : a \in AttributeTypes, r \in SomeRooms}
  \cup {<<Attr(a, r), Attr(b, q)>> : a, b \in AttributeTypes, r, q \in SomeRooms}

\* The result for one attribute when it is asked for alone.
ByItself(attr, object, pk) == get_attribute_values(object, pk, <<attr>>)

\* A template of some attributes of another, with the lengths that were left in it.
Refilled(template, lengths, picks) ==
  [j \in DOMAIN picks |-> Attr(template[picks[j]].type, lengths[picks[j]].len)]

\* One attribute that fails takes nothing from the others, and the call fails as its
\* first failing attribute does; a template filled in with the lengths that a first
\* call left in it gets every value that the object shows, whole.
AnswersEach(template, object, pk) ==
  LET done == get_attribute_values(object, pk, template)
      each == [i \in DOMAIN template |-> ByItself(template[i], object, pk)]
      failing == {i \in DOMAIN template : each[i].rv # "OK"}
      lengths == get_attribute_values(object, pk,
                   [i \in DOMAIN template |-> Attr(template[i].type, None)]).attrs
      known == {i \in DOMAIN template : lengths[i].len # CK_UNAVAILABLE_INFORMATION}
  IN /\ done.attrs = [i \in DOMAIN template |-> each[i].attrs[1]]
     /\ IF failing = {} THEN done.rv = "OK"
        ELSE \E i \in failing : /\ \A j \in failing : i <= j
                                /\ done.rv = each[i].rv
     /\ \A n \in 0 .. Len(template) : \A picks \in [1 .. n -> known] :
          LET second == get_attribute_values(object, pk, Refilled(template, lengths, picks))
          IN  /\ second.rv = "OK"
              /\ \A j \in DOMAIN picks :
                   second.attrs[j].value = ValueOf(template[picks[j]].type, object, pk).value

IndependentWith(pk) ==
  \A object \in ObjectHandles, template \in SomeTemplates : AnswersEach(template, object, pk)
=============================================================================
