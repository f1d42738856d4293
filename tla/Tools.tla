------------------------------- MODULE Tools --------------------------------
(***************************************************************************)
(* The command-line clients of the README at one dev-signer: pkcs11-cli's  *)
(* get-pubkey and generate-keypair (pkcs11-cli/src/main.rs), and           *)
(* pkcs11-tool's --sign.  Each run is a process of its own with one        *)
(* thread, which makes its calls one after the other, writes a file and    *)
(* exits; several run at a time, and each may be killed anywhere.          *)
(***************************************************************************)
EXTENDS DevSystem

CONSTANTS
  CommandsOf   \* the commands that each thread may run

VARIABLES
  tool,   \* per thread, where its command is
  files   \* pub.key and sig.bin: what a command has written that the token's key
          \* still agrees with as far as it must, None if nothing such is there

toolsVars == <<vars, tool, files>>

\* The calls of each command in order.  cryptoki's find_objects calls C_FindObjects
\* until it gets nothing, its get_attributes asks for a length before it reads.
Script == [
  get_pubkey       |-> <<"initialize", "open", "find_init", "find", "find_final",
                         "length", "value", "truncate", "fill", "exit">>,
  generate_keypair |-> <<"initialize", "open", "generate",
                         "length", "value", "truncate", "fill", "exit">>,
  sign             |-> <<"initialize", "open", "sign_init", "sign", "truncate", "fill", "exit">>]

Output == [get_pubkey |-> "pub", generate_keypair |-> "pub", sign |-> "sig"]

\* A process has one thread, opens a session and signs into a buffer; the files that
\* the commands write are of one PARAM_SET, of which there is a key pair.
ASSUME ToolsAssumption ==
  /\ \A t, u \in Threads : ProcOf[t] = ProcOf[u] => t = u
  /\ \A t \in Threads : CommandsOf[t] \subseteq DOMAIN Script
  /\ MaxSessions >= 1 /\ None \notin Rooms
  /\ \A p, q \in PARAM_SETS : p = q
  /\ Keys # {} /\ None \notin DOMAIN Script

ASSUME NoneIsNoFailure ==
  None \notin [by : Threads, op : {"C_Initialize", "C_GenerateKeyPair"}, rv : {"DEVICE_ERROR"},
               out : {None}]

\* No command runs.  `current`: the token's key has not changed since the command
\* learnt it, or by its own request only.
Rest == [cmd |-> None]
Started(cmd) == [cmd |-> cmd, step |-> 1, object |-> None, room |-> None,
                 bytes |-> None, current |-> FALSE]

At(t, step) == tool[t].cmd # None /\ Script[tool[t].cmd][tool[t].step] = step

-----------------------------------------------------------------------------
(* The calls, as the provider answers them.                                *)

TheSession == 1   \* the first session of a process has this handle

\* Which unused name the new connection gets makes no difference.
FirstDials(t) == /\ Initialize(t)
            /\ call'[t].conn = CHOOSE c \in Conns : link[c] = Unused

CallsNow(t) ==
  \/ At(t, "initialize") /\ (FirstDials(t) \/ ConnectRefused(t))
  \/ At(t, "open")       /\ OpenSession(t)
  \/ At(t, "find_init")  /\ FindObjectsInit(t, TheSession, "public")
  \/ At(t, "find")       /\ FindObjects(t, TheSession, 3)
  \/ At(t, "find_final") /\ FindObjectsFinal(t, TheSession)
  \/ At(t, "generate")   /\ GenerateKeyPair(t, TheSession)
  \/ At(t, "length")     /\ GetAttributeValue(t, tool[t].object, <<Attr("CKA_VALUE", None)>>)
  \/ At(t, "value")      /\ GetAttributeValue(t, tool[t].object,
                                              <<Attr("CKA_VALUE", tool[t].room)>>)
  \/ At(t, "sign_init")  /\ SignInit(t, TheSession)
  \/ At(t, "sign")       /\ \E m \in Msgs, room \in Rooms : Sign(t, TheSession, m, room)
  \/ Continues(t)

Onward(place) == [place EXCEPT !.step = @ + 1]
ToExit(cmd)   == [Started(cmd) EXCEPT !.step = Len(Script[cmd])]

\* The command has what it is going to write.
Has(place, bytes) == [Started(place.cmd) EXCEPT
                        !.step = place.step + 1, !.current = place.current,
                        !.bytes = IF place.current THEN bytes ELSE None]

\* What a command does with the result of a call: an error ends it.
Continued(place, r) ==
  CASE r.rv # "OK" -> ToExit(place.cmd)
    [] r.op = "C_FindObjects" /\ r.rv = "OK" ->
         IF r.out.found # <<>> THEN [place EXCEPT !.object = Head(r.out.found)]
         ELSE IF place.object = None THEN ToExit(place.cmd) ELSE Onward(place)
    [] r.op = "C_GenerateKeyPair" /\ r.rv = "OK" ->
         Onward([place EXCEPT !.object = PUBLIC_KEY_HANDLE])
    [] r.op = "C_GetAttributeValue" /\ r.rv = "OK" ->
         IF place.room = None THEN Onward([place EXCEPT !.room = r.out.attrs[1].len])
         ELSE Has(place, r.out.attrs[1].value)
    [] r.op = "C_Sign" /\ r.rv = "OK" -> Has(place, r.out.sig)
    [] OTHER -> Onward(place)

\* What the command knows of the token's key is not older than its GET_PUBLIC_KEY.
Learnt(t, place) ==
  IF call'[t].at = "get_public_key" THEN [place EXCEPT !.current = TRUE] ELSE place

Advance(t) ==
  /\ CallsNow(t) /\ UNCHANGED devVars
  /\ tool' = [tool EXCEPT ![t] = Learnt(t, IF ret' = None THEN @ ELSE Continued(@, ret'))]
  /\ UNCHANGED files

-----------------------------------------------------------------------------
(* What a command does besides its calls.                                  *)

\* The system as a step outside the provider and the token leaves it.
Aside == ret' = None /\ UNCHANGED <<linkVars, state, holder, call, panicked, devVars>>

Launch(t) ==
  /\ tool[t] = Rest
  /\ \E cmd \in CommandsOf[t] : tool' = [tool EXCEPT ![t] = Started(cmd)]
  /\ Aside /\ UNCHANGED files

\* fs::write: the file is cut to nothing, then filled.
WriteOutput(t) ==
  LET out == Output[tool[t].cmd] IN
  /\ \/ /\ At(t, "truncate")
        /\ files' = [files EXCEPT ![out] = None]
        /\ tool' = [tool EXCEPT ![t] = Onward(@)]
     \/ /\ At(t, "fill")
        /\ files' = [files EXCEPT ![out] = tool[t].bytes]
        /\ tool' = [tool EXCEPT ![t] = ToExit(@.cmd)]
  /\ Aside

\* The end of a process, whatever it has left open.
EndOf(t) ==
  /\ IF Uninitialized(ProcOf[t]) /\ call[t] = Idle THEN Aside
     ELSE Exit(ProcOf[t]) /\ UNCHANGED devVars
  /\ tool' = [tool EXCEPT ![t] = Rest]
  /\ UNCHANGED files

Leave(t) == At(t, "exit") /\ EndOf(t)
Killed(t) == (call[t] # Idle \/ At(t, "fill")) /\ EndOf(t)

-----------------------------------------------------------------------------
(* The token's steps, and what they make of what is known of its key.      *)

\* The key becomes another one; a crash loses a key that no file has.
KeyChanges ==
  /\ backend # None
  /\ IF backend' # None THEN backend'.signing # backend.signing
     ELSE disk[backend.param] # backend.signing

\* The step takes up the key generation that t waits for.
ServesOwn(t) == /\ call[t].at = "gen_wait"
                /\ LET c == state[ProcOf[t]].conn IN link'[c].up # link[c].up

TokenMoves ==
  /\ DevStep
  /\ IF KeyChanges
     THEN /\ tool' = [t \in Threads |-> IF tool[t] = Rest \/ ServesOwn(t) THEN tool[t]
                                        ELSE [tool[t] EXCEPT !.current = FALSE, !.bytes = None]]
          /\ files' = [f \in DOMAIN files |-> None]
     ELSE UNCHANGED <<tool, files>>

\* The demo key pair that dev-signer is shipped with.
DemoKey == CHOOSE k \in Keys : TRUE

ToolsInit == /\ Init
             /\ disk = [p \in PARAM_SETS |-> DemoKey]
             /\ tool = [t \in Threads |-> Rest]
             /\ files = [pub |-> None, sig |-> None]

Runs(t) == Advance(t) \/ WriteOutput(t) \/ Leave(t)

ToolsNext == TokenMoves \/ \E t \in Threads : Launch(t) \/ Runs(t) \/ Killed(t)

ToolsSpec == ToolsInit /\ [][ToolsNext]_toolsVars

-----------------------------------------------------------------------------
\* A key file written by a command that learnt the key after the token last changed
\* it holds the key that the token signs with, and a signature file written so
\* verifies under it, as the README has it done with `cli verify`: whichever commands
\* ran, waited or were killed meanwhile (pkcs11-cli/src/main.rs, get_pubkey and
\* generate_keypair; the accept loop of dev-signer).
FilesAreCurrent ==
  /\ files.pub # None /\ backend # None =>
       files.pub = KeyBytes(backend.param, backend.signing)
  /\ files.pub # None /\ files.sig # None =>
       Verifies(files.pub, files.sig.msg, files.sig)

-----------------------------------------------------------------------------
(* Liveness.  Commands and the server's loop run whenever they can; nobody *)
(* has to launch or kill a command, and the server may stay down.          *)

\* A listening kernel always takes one more connection; here their names may be used
\* up for a moment.
Connects(t) == At(t, "initialize") /\ Advance(t)

ToolsFairness == /\ WF_toolsVars(DevServes /\ TokenMoves)
                 /\ \A t \in Threads : WF_toolsVars(Runs(t)) /\ SF_toolsVars(Connects(t))

FairToolsSpec == ToolsSpec /\ ToolsFairness

\* Every command comes to its end: the server comes round to every connection in its
\* backlog, those of killed commands included, and a crash of it fails the calls
\* under way (the accept loop of dev-signer, request of device.rs without a timeout).
EveryCommandEnds == \A t \in Threads : tool[t] # Rest ~> tool[t] = Rest
=============================================================================
