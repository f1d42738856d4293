# Verification of pqc-dev-hsm

TLA+ models of the development HSM in this repository, the TLC runs that check
them on small instances, and TLAPS proofs of the results that matter most for
instances of any size. Source lines are quoted as `file:line` of the repository.

## 1. The system

| Component | State it keeps | Operations |
|---|---|---|
| `token-core` | none; `read_frame` keeps what it has read of a frame until it returns | frames (`write_frame`, `read_frame`), `dispatch` of six commands to a signing backend |
| `pkcs11-provider` | per process: `STATE`, a mutex around an optional `ProviderState` (connection, parameter set, cached public key, signature length, sessions) | the `C_` functions of PKCS#11 |
| device connection (`device.rs`) | a TCP stream or a serial port | one request, one answer; 5 s timeout over serial, none over TCP |
| `dev-signer` | the key pair in memory; two key files | start (load or generate), accept loop, connection loop |
| `nano-signer` | the key pair in memory; one record in flash | boot (load or generate), frame loop |
| `pkcs11-cli` | none | `get-pubkey`, `generate-keypair`: a short-lived client of the provider |
| `cli` | key and signature files | local keygen, sign, verify |
| `slh-dsa-hw` | the hardware SHA engine | key generation, signing, verification |

An application loads the provider and calls `C_` functions from its threads.
The provider turns them into requests on its one connection to the token. While
a thread waits for the token it holds the `STATE` mutex, except in
`C_Initialize`, which does its handshake before it takes the mutex, and in
`C_Sign`, which takes the mutex twice: once to check the session and learn the
length of a signature, once to sign. dev-signer serves one connection at a time
in the order the kernel accepted them; nano-signer answers whoever has the port
open. Frames carry no number: that an answer belongs to a request rests on there
being one request at a time on a connection, and on the connection having one
user.

What is hard here:

* threads of one process meet in the gap of `C_Sign`, and `C_Initialize`,
  `C_Finalize` and `C_CloseSession` may run in it;
* answers get lost or come late (crash, reset, timeout, a killed client), while
  the provider answers `CKA_VALUE` from a cache;
* a generated key lives in the token's memory only;
* the key files and the flash record are written without an atomic step, and `cli`
  reads and writes the files that `dev-signer` starts from;
* a frame comes in pieces, may be too large for its reader's buffer, and may stop short;
* waits for the mutex, the accept loop and the token form chains.

The complete list, line by line, is `hazards` in `PROJECT.json`. Those without a property there
say why: either the code does what the hazard says, or the runs leave its case out.

What makes the components correct:

* provider and token together: a signature verifies under the public key the
  provider reports, for the caller's message; the cache agrees with the token;
  an operation takes effect once, at one instant, on one key;
* provider: no panic, no write beyond the caller's buffer, one signature per
  `C_SignInit`, searches that enumerate each object once, calls that return;
* start-up of both tokens: the key that a start came up with comes back, with its own
  public key;
* attributes: one that fails takes nothing from the others, and what a first call told
  the length of, a second one reads whole;
* frames: a reader never takes the middle of a frame for its beginning;
* `cli` and `pkcs11-cli`: the files they write agree with the token that runs;
* `slh-dsa-hw`: what is signed verifies, and nothing else does; no one-time key signs two
  values; no two hash calls share an address, no two contexts a message.

## 2. The modules

| Module | Models | State | Actions and the code behind them |
|---|---|---|---|
| `TokenCore` | `token-core/src/lib.rs` | none | `dispatch`: the set of answers and backends a request may end with |
| `Link` | `device.rs`, the kernel's TCP, the USB serial driver | `link`: per connection its two ends and the frames in both directions; `backlog`; `listening`; `backend`: the key pair in the token's memory | operators for connecting, writing, reading, failing, closing, dying; `TakesTurn`, the turn of a token's loop that both tokens share |
| `Framing` | frames as bytes: `write_frame`, `read_frame` | `medium`, `rest` (not written yet), `wire`, `open`, `reader` (where `read_frame` is), `got`, `due`, `inStep` | `WriteFrame`, `WriteAll`, `Close`, `CutOff`; `ReadLength`, `ReadBody`, `Drain`, `ReadEnds`, `ReadTimesOut` |
| `FrameQueue` | what `Link` takes frames to be: a queue of whole ones | `queue`, `open`, `inStep`, `got` | `Send`, `Receive`, `Fail`, `Close`, `Lose`, `Derail`, `Stray`, `Realign`, `Wait` |
| `Attributes` | `pkcs11-provider/src/attributes.rs` | none | `get_attribute_values`: the answer to every attribute of a template |
| `Provider` | `pkcs11-provider/src/lib.rs`, `state.rs` | `state` (STATE), `holder` (who is inside the mutex across a wait), `call` (where each thread is), `ret` (what the last `C_` function returned), `panicked` | one action per `C_` function that returns at once; `C_Initialize` is `Initialize`/`ConnectRefused`, `InfoReply`, `PublicKeyReply`, `HandshakeFails`, `Store`; `C_Sign` is `Sign`, `SignDispatch`, then `SignReply`, `SignPanics` or `SignFails`; `C_GenerateKeyPair` is `GenerateKeyPair`, then `GenerateReply` or `GenerateFails`; `Exit` ends a process |
| `DevSigner` | `dev-signer/src/main.rs` | `disk` | `Boot`, `Accept`, `Handle`, `Hangup`, `Crash` |
| `DevSystem` | provider and dev-signer over TCP | all of the above | composition, safety and liveness properties |
| `NanoSigner` | `nano-signer/src/bin/main.rs` | `record` | `Boot`, `Handle`, `Reset` |
| `NanoSystem` | provider and nano-signer over serial | all of the above | composition and properties |
| `ObjectSearch` | the searches and reads of `DevSystem`, observed | `search`: what each session was handed; `told`: the length of the public key each process was told | `DevSystem`'s |
| `Tools` | `pkcs11-cli/src/main.rs` and `pkcs11-tool --sign`, on `DevSystem` | `tool` (where each command is), `files` (what was written) | `Launch`, `Advance` (the next call of its script), `WriteOutput`, `Leave`, `Killed`; the token's steps |
| `Hsm` | what a client may assume of a token with one key | `key`, `op`, `orphans`, `out` | `Ask`, `Serve`, `Return`, `Fail`, `Abandon`, `ServeOrphan`, `Restart`, `Forget` |
| `DevRefinement` | `DevSystem` implements `Hsm` | | the refinement mapping |
| `DevSignerBoot` | the key files of `dev-signer` (lines 115-152) | `pc`, `param`, `files`, `backend`, `served` | `Load`, `Generate`, `WriteSec`, `WritePub`, `GenerateKeypair`, `Kill` |
| `Cli` | `cli/src/lib.rs` and `main.rs`, on the files of `DevSignerBoot` | `cmd`, `sig`, `verdict`, `made`, `used` | `Keygen`, `SignMessage`, `VerifyMessage`, `VerifySignature`, `Write`, `KillCommand`; `DevSignerBoot`'s |
| `NanoSignerBoot` | the flash record of `nano-signer` (lines 98-198) | `pc`, `build`, `record`, `backend`, `served` | `PowerOn`, `LoadRecord`, `GenerateRecord`, `WriteRecord`, `GenerateKeypair`, `PowerOff`, `Reflash` |
| `Digits`, `Address` | `slh-dsa-hw`: `util.rs`, `address.rs` | none | `base_2b`, `split_digest`; address types and their transitions |
| `HashSuite` | `slh-dsa-hw/src/hashes/sha2.rs` as a symbolic hash | none | `prf_sk`, `f`, `h`, `t` |
| `Wots`, `Xmss`, `Hypertree`, `Fors` | the files of these names | none | key generation, signing, recovery of the public key, encoding |
| `ParameterSets` | the twelve parameter sets and the tables of lengths | none | |
| `SlhDsa` | keys, contexts, and a signature from signer to verifier | `digest`, `sent`, `received`, `presented`, `verdict` | `TrySign`, `Deliver`, `Damage`, `Truncate`, `TryVerify`, `Again` |
| `ProviderInvariant` | the inductive invariant of the provider with either token | | |
| `*Proofs` | theorems, see section 5 | | |
| `MC*` | constants and symmetry for TLC | | |

Abstractions. A payload is what it encodes: `SigBytes(p, k, m)` is a signature by
key `k` under parameter set `p` over message `m`, and its length is that of the
parameter set, because the provider checks lengths. A message either fits the
token's request buffer (`Msgs`) or does not (`BigMsgs`). In `Link` a
frame is whole: it is written, read, dropped or lost as one, which `Framing` justifies
as long as no writer dies in the middle of a frame on the serial port. A `C_` function that takes the mutex once
and does not wait for the token is one action; the argument checks that come
before any state is looked at (null pointers, mechanisms, slot numbers) are left
out, because they neither read nor change the state. Panics on a poisoned mutex
cannot occur: the one panic inside a critical section leaves an `extern "C"`
function, which aborts the process (`SignPanics`). Over serial a connection is
the port itself; whether bytes already sent by the token survive a close, or the
port survives a reset, depends on the driver and the board, so both outcomes are
allowed (`Opened`, `Resets`). Memory that `dev-signer` loses in a crash and the
key files it keeps are `backend` and `disk`: the files hold the key of the first
start, since `generate_keypair` writes none.

In `SlhDsa` a hash value records the address and the values it was computed from, so
that two are equal only if these are, and carries a number of N bytes (`val`, any mixing
function) for WOTS+ to cut into digits. A message is known by the digest `h_msg` makes
of it: the choice of a message, and damage to the randomizer, is the choice of a
digest. There is one key pair, so the seeds, which prefix every hash, are left out. The
modules of the algorithm take the parameter set as the constant `P`, a record of the
associated types of the Rust traits; recursion is in recursive functions, so that lemmas
may be proved about them. `u64` is `WordBits` wide, which brings the case of a tree index
as wide as its word (the 256-bit sets) within reach of small digests.

In `Framing` a byte has `Base` values and a length `LenBytes` bytes. `due` and `inStep`
are observations: the frames that `read_frame` has yet to account for, and whether the two
ends agree on where frames begin. They do until a writer is cut off on the serial port
(`CutOff`), and again once nothing is under way, which is what the test of
resynchronisation in `token-core` promises and no more.

`Tools` gives each thread a process of its own. A command is the sequence of calls that it
makes through `cryptoki` or `pkcs11-tool` (`Script`), and goes on with the result of each
as `pkcs11-cli` does. The two output files stand for all that commands write: a file counts
(is not `None`) only if its command learnt the key after the token last changed it. A
`generate-keypair` has its `--output` (without one it ends before its last two reads). The
name of a new connection makes no difference, so `FirstDials` takes one of the unused ones.

The two boot models write a file or the record in steps: truncated or begun, then whole.
The flash is programmed from the first byte on, so that a power cut leaves the magic byte,
part of the lengths, part of the secret key or part of the public key, and what was not
written reads as `0xFF` (`Written`, `Erased`, `Cut`). A running token may be asked for another
pair (`GenerateKeypair`), which changes what it has in memory and nothing that a later start
reads. `served` is the secret key that the last start came up with.

In `Cli` one command runs at a time, and `keygen` writes to paths without keys while no
`dev-signer` runs on them: two writers of one file are a misuse that neither program
guards against. `made` and `used` record which pairs and which `--param` there have been,
since a verdict of "invalid" is only worth something against them.

`Careful` says whether the application keeps to the rules that PKCS#11 gives it
(one call at a time on a session, no finalisation under running calls,
one initialisation). Most runs do without it; `MayCallOn`, `MayReset` and
`MayInitialize` name the places where it matters.

The operators commented "As it would be ..." are not part of any specification:
each is a plausible mistake, and `PROJECT.json` lists under `mutants` which property
notices it.

## 3. The runs

Passing runs:

| Run | Instance | Shows |
|---|---|---|
| `dev_shared` | 1 process, 2 threads, 2 connections, 2 keys, an oversized message, parameter sets 192f and 128f, buffers null, of 17088 and 35664 bytes | signatures verify, caches are coherent, no buffer is overrun, although sessions, finalisation and initialisation interleave and the server restarts with another parameter set; the threads see the token of `Hsm`; `IndInv` of the proofs |
| `dev_clients` | 2 users with a process each, one who signs and reads the public key, one who replaces it; 2 connections; kills anywhere | files written with a current key stay in agreement with the token and with each other; a generated key has replaced the old one when `C_GenerateKeyPair` returns `CKR_OK`; every command ends |
| `dev_careful` | 2 threads and 2 sessions of a careful application, arrays of 0 to 3 handles, templates with null, short and fitting buffers | no panic, one signature per `C_SignInit`; searches enumerate the objects of their class once, and a short answer is the last; a length that was asked for is enough to read the value; attributes are served independently |
| `nano_sign` | 1 process, 2 threads, a token that answers within the timeout, a failing TRNG, oversized messages, resets that take the port off the bus | signatures verify and answers pair with requests over serial too; `IndInv` of the proofs; a wait for the token ends |
| `framing` | frames of 0, 2 and 5 bytes, a buffer of 3 bytes, a wire of 3, over TCP and both directions of the serial port | frames arrive whole and in order or are reported as too large; a reader keeps its step through closes and timeouts and finds it again after a cut-off frame; a writer is never stuck on a frame larger than every buffer |
| `dev_boot` | 2 keys, parameter sets of 3 key sizes, `cli` on the same files, new pairs in memory, kills anywhere | each start comes up with the same secret key, and with its public key unless `pub.key` was cut short; the pair that `verify` found valid is the one that every start comes up with; "invalid" has a reason |
| `nano_boot` | the same for flash, power cuts anywhere, within a key too | each start comes up with the same key or panics; a public key that was written to the end fits |
| `slh_dsa` | 3 layers of trees of 4 one-time keys, 2 FORS trees of 4 leaves, N = 2, 12 digests, damage to any chunk after the randomizer, a lost last chunk, contexts up to one byte too long | what `sign` makes, `verify` accepts (`HonestVerifies`), for the signed path and unchanged bytes only (`OnlyHonestVerifies`); one-time keys sign one value; addresses keep apart all hash calls that the public key and a signature rest on, contexts keep messages apart; digits, both indices, the message digest and the twelve-bit checksum are right at their edges; the twelve real parameter sets fit together and have the lengths that the encodings and the provider state |

Runs that find a disagreement between the code and what the repository says of
it (details under `findings` in `PROJECT.json`):

| Run | Shows |
|---|---|
| `dev_panic` | `expect("checked above")` in `c_sign` panics when another thread closes the session in between |
| `nano_late_answer` | after a timeout the late signature is handed to the next `C_Sign`, for another message |
| `nano_kept` | a reset brings back the key that `generate-keypair` replaced, and the provider does not notice |
| `nano_boot_torn` | a torn flash record counts as valid |

More was met while modelling, and the properties above are stated so as
not to promise it: a kill in the write of `pub.key` leaves a truncated public key that
later starts load (`dev-signer/src/main.rs:123`, hence `WholeKeyMatches`); key files made
for 128s load as 128f, since only their length is looked at (hence the parameter sets of
distinct key sizes); a client killed while it waits over serial leaves its answer in the
port, where the next client may take it for one of its own handshake (no client is killed
in `nano_sign`); a search by `CKA_ID` finds objects with another one
(`find_class_filter`), where `pkcs11-cli/src/main.rs:70` expects none; the README says
(line 89) that `sign` and `verify` have the default of `keygen`, 128s, where they have 128f
(`cli/src/main.rs:101-102`, `152-153`), so that the three commands without `--param` end in
"invalid", which `InvalidForAReason` excludes by asking for one `--param`; a `keygen`
without `--pub-key` leaves a secret key that the next start of `dev-signer` replaces, saying
that it has found no key (`dev-signer/src/main.rs:123`, `148`), which is why `KeyStable` speaks
of keys that a start came up with; a pair of `generate_keypair` is lost with the process or the
power (`KeyStable` again, and `nano_kept`), and until then a `dev-signer` serves it in place of
the pair of its files that `cli verify` knows, so `VerifiedPairServes` speaks of the pair that
a start comes up with; a host killed in the middle of a frame leaves `nano-signer`, which
reads without a timeout, out of step (`inStep` in `Framing`).

Bounds. Two threads are enough for every race on one `STATE`: an interference
needs one thread in the gap or in the exchange and one that does something else
meanwhile. Two processes are needed for the accept loop, and a killed command leaves its
connection in the backlog for the next one to wait behind. Two keys tell an old key from a new one; a second parameter set with
longer signatures makes a stale length matter. `MaxSessions` bounds the sessions
opened in the life of one `STATE` (their numbers are never used again),
`MaxFrames` the frames buffered on a connection; it is never reached over TCP
(`OneOutstanding`), and over serial it stands for a full buffer, on which
`write_all` fails. Symmetry is used for keys, connections, messages and threads of one process, in runs without
liveness properties only.

In `framing` a frame of five bytes is larger than the buffer and than the wire, the length
of a frame takes both bytes of its field, and one frame may follow another while it is read
(`MaxDue` = 2). In `dev_clients` the two users' commands are all those that touch the key or a
file; a third user would only lengthen the backlog. `CtxBound` = 4 stands for the 256 values
of the byte that carries the length of a context; templates of `AttributesIndependent` have up to two attributes of every type,
with buffers null, empty, and around each length.

The digests of `slh_dsa` meet where it matters: pairs that differ in the FORS digits only
(they share all one-time keys), pairs that enter different trees by the same leaf, and bytes
with bits above those of an index. Three layers are the fewest with one that is neither
bottom nor top. Two bytes per value keep the checksum's three digits and their
carries.

Deadlock is checked in every run; none switches it off.

Fairness. `ToolsFairness`: the server's loop, and a command between its launch and its exit,
go on whenever they can: both are running processes of an operating system, and neither
waits for anything the model does not show. The one strong fairness, of `Connects`, makes up
for the bounded names of connections: a listening kernel always takes one more. Nobody has
to launch or kill a command, and a crashed server may stay down. A client that kept its
connection for ever would make all others wait, by design of the accept loop; `pkcs11-cli`
exits, so none does here. `Framing!FairSpec` assumes that the reader loops, as both tokens do, and that a
writer writes while there is room; nothing is assumed of timeouts, and `WriterNeverStuck`
leaves out the direction to the host, where a provider stops reading after an error.
`NanoSystem!FairSpec` assumes the firmware's loop and the threads, not that the
token is switched on again. Two threads of one process may starve each other of the
mutex, which is not fair, so `EveryWaitEnds` speaks of the wait for the token and
not of the whole call.

## 4. What the refinements say

`Hsm` is a token with one key: an operation is asked for, takes effect at one
instant, and returns what it did then, or fails, having taken effect once or not
at all. A client that exits while it waits may leave a key generation behind
(`orphans`) that the token takes up later. The mapping reads the key from `backend`, the operation of a thread from
where it waits, and the answer from the frame on its connection. A crash of the
server is `Restart`, which may lose answers. So an application may think of its
threads, and of the processes that share a dev-signer, as clients of one token.

`FrameQueue` is a queue of frames: while the two ends are in step, each `read_frame`
returns the oldest frame, says that it was too large, or fails and leaves the frames where
they are. `Framing` implements it with `due` as the queue. That is the step from bytes to
the whole frames of `Link`.

## 5. What is proved

For all processes, threads, connections, keys, messages, parameter sets and bounds:

| Theorem | Module | States |
|---|---|---|
| `TypeCorrect`, `NanoTypeCorrect` | `DevSystemProofs`, `NanoSystemProofs` | `TypeOK` of `DevSystem` and of `NanoSystem` |
| `PairingHolds`, `NanoPairingHolds` | the same | the inductive invariant `IndInv` |
| `OneRequestAtATime` | `DevSystemProofs` | at most one frame on a connection in use |
| `CacheIsCoherent`, `NanoCacheIsCoherent` | both | the cached public key is the serving token's |
| `EverySignatureVerifies`, `NanoSignatureVerifies` | both | `C_Sign` returns signatures that verify |
| `BufferIsNeverOverrun`, `NanoBufferIsNeverOverrun` | both | `C_Sign` writes no more than the caller's buffer holds |
| `CarefulNeverPanics` | `DevSystemProofs` | a careful application does not meet the panic of `c_sign` |
| `CarefulSignsOnce` | `DevSystemProofs` | for a careful application, one signature per `C_SignInit` (an action property) |
| `EnumerationIsExact`, `ShortAnswerEndsSearch` | `DevSystemProofs` | searches enumerate the objects of their class once; a short answer is the last |
| `AttributesAreIndependent` | `DevSystemProofs` | an attribute of a template is answered as if it were asked for alone |
| `QueryThenReadSucceeds` | `DevSystemProofs` | asking for a length and then for the value gets the whole key, until `C_Initialize`, whatever keys are generated in between |
| `FilesStayCurrent` | `DevSystemProofs` | the files of the command-line clients agree with the token's key and with each other |
| `Implements` | `DevSystemProofs` | `ImplementsHsm`: the threads and processes see the token of `Hsm` |
| `GenerateReplaces` | `DevSystemProofs` | `KeyReplaced`: `C_GenerateKeyPair` that returns `CKR_OK` has replaced the key |
| `BootTypeCorrect`, `KeyNeverChanges`, `WholeKeyAlwaysMatches` | `CliProofs`, `NanoSignerBootProofs` | the start-up of both tokens, `dev-signer` with `cli` at its files: their types, that each start comes up with the same secret key, and that a whole public key fits |
| `VerifiedPairIsServed`, `InvalidHasAReason` | `CliProofs` | the pair that `cli verify` found valid is the one that every start of `dev-signer` comes up with, until it is asked to generate another; "invalid" has a reason |
| `FramesTypeCorrect`, `ReaderInStep` | `FramingProofs` | the reader's place in the stream of bytes |
| `FramesArriveWhole` | `FramingProofs` | `Framing` implements `FrameQueue` |
| `SlhVerifies`, `HonestAccepted` | `SlhDsaProofs` | a signature verifies for every message that leads to the same leaves; so does one that arrives as it was sent |
| `SignatureBytes` | `SlhDsaProofs` | a signature has the length its parameter set says and is read as it was written |
| `KeysSignOnce`, `ChecksumHolds` | `SlhDsaProofs` | a one-time key signs one value; of two values neither signature is enough for the other |
| `AddressesAreSeparate` | `SlhDsaProofs` | no address serves two of the hash computations that the public key and a signature rest on: chains, nodes of trees, FORS leaves, nodes and roots, and the public keys and roots that the layers sign |
| `DigitsAreExact` | `SlhDsaProofs` | digits are the leading bits of their bytes; `split_digest` takes the leading bytes, and the trailing bits of the tree's and the leaf's bytes |
| `ParametersDoFit` | `SlhDsaProofs` | the twelve parameter sets and the lengths stated elsewhere |
| `ContextsAreSeparate` | `SlhDsaProofs` | what is signed determines context string and message |
| `RecursionExists`, `RecursionUnique` | `Recursion` | for any step there is one recursive function on an interval that follows it |

### What is assumed

Of the constants: the assumptions named in the modules, which TLC evaluates in the runs.
Those with some weight:

* `DevSignerAssumption`: the response buffer holds any public key (dev-signer has 65536
  bytes), without which a generation could replace the key and answer `BufferTooSmall`, and
  the cache would be stale; and `generate_keypair` of `dev-signer` does not fail, as its code
  has no error path (only the TRNG of `nano-signer` does).
* `NanoAssumption`: the response buffer of `nano-signer` is as long as a signature of the
  parameter set it is built for (`RESPONSE_BUF_LEN`), from which the proofs derive that a
  public key fits.
* `FramingAssumption`: a frame's length fits its field (nobody sends 4 GiB at once).
* `OverTcp` and `OverSerial` say which of the two systems a module is about; the others whose
  names begin with `NoneIsNo` say that `None` is no value of the set in question.
* `ToolsAssumption`: a run of `pkcs11-cli` or `pkcs11-tool` is a process of its own with one
  thread, which signs into a buffer; and the files are of one `PARAM_SET`, of which dev-signer
  has a key pair, since a dev-signer restarted with another set serves another pair of files
  and leaves what was written before to the old one.
* `SlhDsaAssumption`: the numbers of the parameter set fit together (`Fits`: the checksum of a
  message has room in its digits, a layer in its byte, an index in its word, the parts of a
  digest in the digest). `ParametersDoFit` proves `Fits` of the twelve sets of the code, whose
  tree index has at most 64 bits, the code's `WordBits`, and whose digests are longer than a
  hash value (`P.N <= P.M`, which lets `ChecksumGuards` take the head of a digest for a message
  of a one-time key). So the theorems hold for the twelve sets as well as for the small one
  of the run: N, the layers, trees, leaves, FORS trees and widths of indices are any that fit.
* `TemplatesAssumption`: the templates that callers use are sequences of attributes, each with a
  null buffer or one of some length.

Of the situation, as a hypothesis of the theorem where it is needed:

* `InTime`, for the four theorems over serial about pairing, caches and signatures: the token answers every
  command within the timeout, no client exits while it waits, and a reset takes the port off
  the bus. None of the three can go: `nano_late_answer` breaks the first, `nano_kept` the last,
  and a client killed in its wait leaves an answer in the port
  (`pkcs11-provider/src/device.rs:78`). `NanoTypeCorrect` and `NanoBufferIsNeverOverrun` hold without
  them: a late or foreign answer is still an answer, and its length is checked.
* `Careful`, for `CarefulNeverPanics` and `CarefulSignsOnce`; without it `dev_panic` finds the panic.
* `KnownSizes`, for `WholeKeyAlwaysMatches` and `VerifiedPairIsServed`: no two parameter sets in
  use have public keys of one length. Where they have, a file of one loads as the other, and
  both statements are false (section 3). The other theorems on key files do without.

### The provider with either token

`SignatureVerifies` and `CacheCoherent` say nothing about the states in which a thread is
waiting, so they are not inductive. `IndInv` (module `ProviderInvariant`) adds what they rest on:

* `MutexInv`: exactly the threads in an exchange hold a mutex, on a `STATE` that
  is there;
* `OwnerInv`: a connection in use belongs to one `STATE` or to one thread in
  `C_Initialize`;
* `ServerInv`: one connection is served, the backlog holds those that wait, and
  the backend's signing key and public key are one pair;
* `PortInv`: over serial there is no backlog, and nothing is under way while no host has the
  port open;
* `TrafficInv`: a connection whose owner waits carries that owner's request, or
  an answer that fits it, or nothing;
* `KnowledgeInv`: what `STATE` and threads in the handshake have learnt of the key
  is true as long as the server serves that connection, and a connection nobody
  waits on is quiet;
* `OneOutstanding`: one frame at most.

The provider does not know which token it talks to, and neither do its proofs.
`ProviderProofs` proves its types, sorts its actions into ten kinds by what they do
to mutexes, connections and caches, so that the invariants need one case per kind, and proves
what it guarantees a careful application by itself: the session that a `C_Sign` in progress has
checked stays open (`SessionInv`). It also proves that each part of `IndInv` is kept by
every kind of step and by `TakesTurn`, the turn of a token's loop. It rests on one lemma,
`ElsewhereKept`: a step of one thread on its own connection disturbs nothing said of any other
thread or process; what is left per kind is the thread itself. `DispatchSays` gives the answer
to a request. `DevSystemProofs` and `NanoSystemProofs` add what is the token's own: accepting,
hanging up and crashing, or resets of the board.

A crash needs no case of its own in the argument about caches: a dead server serves
no connection, and a new one serves none that had an owner before it accepts it, when
no handshake has begun to learn anything. Over serial the same holds of a reset, because
`lost` ends the port for its owner.

`EnumerationIsExact` rests on `SearchInv`: what each open search has handed out, followed by
`pending_find`, is what the class has. It is
proved of the observer, for which every provider step either leaves a session's search alone or is
one of the six functions that begin, continue or end one.

The answer to a template is computed by a loop, in the model a recursive function `after` on
`0 .. Len(template)`. The last section of `ProviderProofs` proves what it has done after `i`
attributes (`LoopAnswers`, by way of the least `i` that would differ), hence what it returns
(`TemplateAnswers`); `AttributesAreIndependent` follows for every public key a process may hold.
`QueryThenReadSucceeds` needs an invariant of the observer as well (`ToldInv`): the length that a
process was told since it initialised is the length of the public key it has now. A key
generation keeps it because the token's parameter set, which settles the length, is the one
learnt in `C_Initialize` (`KeyLengthKept`, from `IndInv`).

`DevSystemProofs` also proves that every step of `DevSystem` is a step of `Hsm` or a
stutter. One lemma per action of `Hsm` says what a step must do to the key, the operations,
the orphans and the return to be that action; then each kind of provider action, and each
server step, is shown to be one of them:

* a thread that starts to wait in `C_Sign` or `C_GenerateKeyPair` is `Ask`;
* `handle_connection` is `Serve` for the owner of the connection, `ServeOrphan` for a
  connection whose client is gone, and nothing for a request of a handshake;
* a good answer is `Return`, an error is `Fail`, and so is a client's exit while it waits,
  or `Abandon` if its key generation is still on the wire;
* `Boot` and `Crash` are `Restart`; all the rest is `Forget`, or no step at all.

Three invariants beside `IndInv` are needed for it: every open connection has an owner
(`OwnedInv`), without which an answer could be nobody's; a connection that its client has
closed carries at most one request (`ShortInv`), so that the key generation of a client that
is gone takes effect once; and the public key in an answer to a key generation is another
one than the cached one (`RenewedInv`), from which `KeyReplaced` follows.

### The files of the clients

`ToolsInv` follows the token's public key (`TrueKey`: the one in memory, or the one that the
next start loads) to a file. `Knows` says where a command has it that learnt it since the token
last changed it: in the answer on its connection, in the hands of `C_Initialize`, or in its
`STATE`; `HasCurrent`, that what such a command is about to write agrees with it; `FilesInv`,
that what is written does; and `InScript`, that a thread is in the call of the step at which its
command is. Three kinds of step have to keep it. A command's own step may only read the key
where `Knows` places it (`OwnKinds`, `OwnKnows`, `OwnBytes`). The steps of other
commands disturb none of these places (`OthersLeftAlone`, from the same lemmas as the
refinement of `Hsm`), killed ones included. When the token moves, an answer that appears is
on the connection that it serves, where `IndInv` says what it holds (`ServerDown`, `AnswerTrue`);
so the command whose `generate-keypair` replaces the key learns the new one, and a crash
takes away its answer rather than leave a wrong one. `ToolsPairing` shows that commands do
nothing to the provider that `DevSystem` does not do already, so `IndInv` is at hand.

### Frames

The invariant of `FramingProofs` is an equation: while the ends are in step, what the reader has
read, the bytes on the wire, those still to be written, and those that a cut-off lost, one
after the other, are the bytes of the frames due (`Aligned`). `InStep` follows, and each
action of `Framing` is shown to keep the equation and to be one of `FrameQueue`: taking the
last byte of a frame is `Receive`, and so on. Two definitions it rests on are
recursive, the digits of a length and the bytes of a row of frames. The
module proves induction and recursion on an interval of numbers for recursive functions, which
are sets of pairs, from the well-foundedness of `<` (`RecursionExists`, `RecursionUnique`,
`IntervalInduction`). `LengthRoundTrip` is one result: a length that fits its field survives the
trip through its bytes, whatever their number and base.

### The key files

`BootInv` says that only a first start writes, and what it has in memory while it does; that the secret key is
whole before the public key is begun; and that both are there once the token has listened.
`CliProofs` adds that the files hold one pair, or a public key that was cut short (`OnePair`);
which writes a command that runs has still to make (`CmdInv`); and that a verdict of "valid"
names the pair of the files, and one of "invalid" a pair, parameter set or message that differs
(`ValidInv`, `InvalidInv`).

### The signature algorithm

Nearly everything here is a loop, in the model a recursive function: the bytes of a number, the
digits, a chain, a tree, the path to its root, the layers, the chunks of a signature. `Recursion`
proves that such a function exists and is unique, and induction over it, for a step that is a
constant of the module; `SlhDsaProofs` takes it once per loop (`INSTANCE Recursion WITH
Step <- ...`). Powers of two have no lemma in the library beyond the number of subsets of a set
(`FS_SUBSET`); `PowerNext` and `PowerSum` follow from that.

The one invariant of the behaviours is `SignedInv`: what was sent is the signature of the digest,
and a verdict is what `slh_verify` says of what was received. The rest is about the operators:

* digits: what `loaded` and `unloaded` keep in the accumulator is the number in the bytes read so
  far, but for the bits that went into digits (`ReadTo`), from which `DigitsAre` gives each digit
  as a quotient and a remainder. The argument for the checksum is an induction over the digits:
  if none of a message got smaller, no more steps are left, and just as many only if all are
  equal (`StepsLeftOrder`); the checksum's digits make the number of steps left
  (`ChecksumDigits`, `NibblesMake`), which has not got smaller either; and digits that are equal
  come from the same bytes (`MessageDigits`, `BytesNumber`), so `NoneBelow`;
* verification: a chain walked in two parts is the chain (`ChainComposes`), so WOTS+ gives the
  verifier the leaf (`WotsOpens`). A step up a tree takes the two children of one parent,
  whichever side the sibling is on (`Siblings`), so XMSS and FORS give it the root (`XmssOpens`,
  `ForsOpens`). `GoodLayer` says what holds of a layer of a signature, the bound on the index of
  its tree included, which leaves one tree at the top (`LayersOpen`, `HypertreeOpens`);
* one-time keys: above the bottom, what a layer signs is the root of a tree that the leaf
  determines (`MeetSame`); at the bottom it is the FORS public key of that leaf, which `ForsOpens`
  shows to be independent of the message;
* bytes: a row of parts of one length is cut where it was joined (`FlattenedIs`);
* the parts of a digest: the bytes up to the end of a part are those before it, then the part
  (`PartFollows`), so a part is a quotient and a remainder of the number that the digest is
  (`PartNumber`, `SplitNumbers`);
* addresses: every value that is hashed for a signature is a link of a chain, a node, a
  secret or a node of a FORS tree, or a FORS public key (`Placed`), and so is what it is computed from
  (`PlacedBelow`). Its address, whose type tells which words mean what, determines which one
  (`PlacedAt`);
* contexts: the length in front tells where the context string ends (`ContextRead`), and
  strings are finitely many, so that counting pairs says the same.

### Only model-checked

The liveness properties `EveryCommandEnds`, `EveryWaitEnds` and `WriterNeverStuck`, since
fairness and ENABLED are out of the prover's reach. And `OnlyHonestVerifies`, which does not
follow from the assumptions: two values that differ may have the same `val`, which has only
N bytes, so that WOTS+ may cut the same digits from both. With the digests of the run none
do; in the code it is the strength of the hash that makes it unlikely. What is proved of it
is what does not rest on that: `ChecksumHolds`, `KeysSignOnce`, `AddressesAreSeparate`,
`SignatureBytes`.

## 6. Not modelled, and what could follow

Not modelled: randomized signing, the PKCS#8 wrapping of keys and the SHAKE suite of
`slh-dsa-hw`, which no program of the repository uses (their parameter sets are in
`ParameterSets`); the hash functions themselves, which are libraries or the hardware's,
hence symbolic; the reading of flags and the printing of hex in the programs; LEDs, clock and
linker set-up, which carry no behaviour of the HSM; build files, benches and examples.

Modelled, with a case left out: no client is killed in `nano_sign`, since the answer it
leaves in the port reaches the next client by design of the driver (the hazard at
`pkcs11-provider/src/device.rs:78`); `Cli` runs one command at
a time.

What could follow: the algorithm with values of `N` bytes in place of two, for which
`WotsDigits` and `ChecksumDigits` would sum over any number of digits; and an account of
`OnlyHonestVerifies` under the assumption that the hash has no collisions.
