# Verification of the RethinkDB Python driver's connection layer

This directory holds TLA+ models of the blocking connection path of the
driver under `src/rethinkdb/`: TLC configurations that check them on small
instances, and TLAPS proofs of their main safety properties for every value
of the constants.

## The system

`connections.new_connection` builds four objects and calls
`Connection.reconnect`:

- **Connection** (`core/net/connection.py`). The user-facing object. Its
  operations are `reconnect`, `close`, `noreply_wait`, `server`, `start`,
  `resume` and `stop`. It owns the **TokenGenerator** (`core/net/token.py`,
  which is not in the sources and is modelled from the spec, §4.1).
- **DefaultTransport** (`net/default_net/transport.py`).
  - `connect` opens the socket and drives the handshake generator with
    `IterableGenerator` (`core/utilities.py`).
  - `run_query` sends a frame, and unless the frame is noreply it reads
    frames until it gets a response.
  - `close` closes the client.
- **DefaultClient** (`net/default_net/_client.py`). The socket wrapper. It
  provides `connect`, `close`, `readuntil`, `recvall` and `sendall`, and
  translates socket errors into driver errors (`ErrProc`).
- **RdbProtocol** (`core/net/protocol.py`). It frames queries
  (`build_query`) and routes responses (`read_response`).
  - Routing uses the table `_waiting_respose` of tokens awaiting a response.
  - It also keeps the cursor cache.
  - A stream response becomes a **Cursor** (`core/net/cursor.py`).
- **HandshakeV1_0** (`core/net/handshake.py`). A generator with three steps:
  1. the init message;
  2. the server's version reply, then its SCRAM first message, which yields
     the authentication request;
  3. the SCRAM final message.

Nothing in the blocking path takes a lock. Every caller thread does its own
socket reads inside `run_query`.

## Modules

| Module | Models |
|---|---|
| `DriverConn` | Connection + DefaultTransport + DefaultClient + RdbProtocol + HandshakeV1_0 + TokenGenerator, with the server and the TCP stream as the environment |
| `MC_DriverConn` | TLC instance: small sets of server replies, and symmetry of callers |
| `DriverConn_proofs` | TLAPS: type correctness and token uniqueness |
| `DriverConn_hs_proofs` | TLAPS: handshake agreement for one caller thread |
| `DriverConn_route_proofs` | TLAPS: response routing for one caller thread |
| `DriverConn_close_proofs` | TLAPS: close with NOREPLY_WAIT tears the socket down only after WAIT_COMPLETE, for one caller thread |
| `ScramHandshake` | HandshakeV1_0's SCRAM exchange as `DefaultTransport.connect` drives it, with nonces, salts, passwords and signatures as symbolic data, over successive connects against any server |
| `MC_ScramHandshake` | TLC instance: two passwords, three nonces, two salts, error codes at the 10..20 boundary |
| `ConnectAuth` | Abstract: what a connect promises about authentication (each connect raises, or returns to a peer that knows the password) |
| `ScramHandshake_proofs` | TLAPS: type correctness, server authentication, replay protection, and refinement of `ConnectAuth` |
| `FrameStream` | Abstract: the peer writes frames and the client takes them in order |
| `FrameCodec` | The byte level: `Query.serialize`'s `<QL`, `readuntil`, `recvall`'s chunk loop and `read_response`'s `<qL` unpack, at a scaled width; refines `FrameStream` |
| `MC_FrameCodec` | TLC instance: tokens 0, 1 and 5 (all below the sign bit of the scaled width), bodies of one and two bytes |
| `Cursor` | One `Cursor` object and every call on it, with its `Context` as the environment |
| `Cursor_proofs` | TLAPS: the cursor never asks for another batch |
| `PseudoTypes` | `ReqlDecoder`'s pseudo-type conversion and `make_hashable` on bounded JSON values |
| `MC_PseudoTypes` | TLC instance: GROUPED_DATA objects with two distinct group keys |

### State of `DriverConn`

| Variable | Code |
|---|---|
| `sock` | `DefaultClient.__socket` (None or open) |
| `link`, `c2s`, `s2c` | The TCP stream: whether it is up, closed by the server (`fin`) or reset (`rst`), and the messages in flight each way. A server frame is two elements (header, body) because `read_response` calls `recvall` twice. |
| `srv` | The server's session: `hs1`, `hs3` or `ready` |
| `token` | `TokenGenerator`'s next value |
| `waiting` | `RdbProtocol._waiting_respose` (its keys) |
| `pc`, `after`, `qtok`, `htok`, `res` | Per caller thread:<br>- where it is blocked;<br>- what it does once a query returns (`close` and `reconnect` run a NOREPLY_WAIT first);<br>- its query's token;<br>- the token in the header it read;<br>- the outcome of its last operation (a return or the exception). |
| `out` | Per caller thread: the query `build_query` serialized and not yet passed to `sendall` |
| `issued`, `hsDone` | Ghosts: the tokens of the queries written on the current socket, and whether the client completed the handshake on it |
| `conns`, `fails` | Bounds: successful `DefaultClient.connect` calls, and injected network failures |

### Actions

Each is one blocking step of a thread, and all of its state changes happen
in that step.

- **Operations:**
  - `Start`, `NoreplyWait` and `ServerInfo` go through `Query`:
    `__check_open`, then `Draw` (`token.new()` and `build_query`). The
    caller is then at `send`, and `Send` is `run_query`'s `sendall`
    followed by its return (noreply) or its first read. These are two
    steps because `Connection` holds no lock: another thread may close,
    reset the token generator and reconnect between them.
  - `Close` and `Reconnect` go through `CloseOp`:
    - `close` is a no-op when the connection is not open;
    - otherwise it runs the optional NOREPLY_WAIT (a `Draw`, then `Send`);
    - then the transport close and the token reset (`FinishClose`);
    - then, for `reconnect`, `Connect`.
- **Socket steps:**
  - `Connect` is `new_socket` + `DefaultClient.connect`, which can fail.
  - `HsRead` is one `readuntil(b"\0")` of `DefaultTransport.connect`. The
    handshake's checks are abstracted to the reply's verdict (`HsStepOK`).
    The order of the steps comes from `HsNext`.
  - `ReadHeader` and `ReadBody` are the two `recvall` calls of
    `read_response`. `Dispatch` is its token pop and its classification.
  - `Garbled` is a thread waiting on a body length that came from a
    misaligned header.
- **Error helpers:** `SendRaises`, `RecvEOF`, `RecvReset` and `RecvClosed` (a read on a client another thread closed) are the error
  paths of `sendall` and `recvall`: EOF closes the socket, and ECONNRESET
  does not.
- **Environment:**
  - `ServerStep` is the server reading one message and answering it. It
    rejects query bytes during the handshake.
  - `NetFail` is the stream being closed or reset.

## Runs

All use `MC_DriverConn`. Deadlock checking is off in every run. Once the
operations a user chooses stop and the network stops failing, the model has
nothing left to do. That quiescence is allowed in the code. A caller
blocked forever in `recvall` is a real hang, and `CallerReturns` reports it.

| Run (cfg) | Result | What it shows |
|---|---|---|
| safety_one_caller (`_safety`) | pass | With one thread, every reply type and one network failure:<br>- `TypeOK`;<br>- `TokensUniqueOnSocket`: no token is handed out twice while one socket is open;<br>- `HandshakeAgreement`: a completed client handshake on a live stream always faces a ready server session;<br>- `ResponseToOwnQuery`: every frame header the thread reads carries its own query's token;<br>- `CloseAfterNoreplyWait` (action property): the step of `close` or `reconnect` that closes the socket follows a read of the WAIT_COMPLETE body, with nothing the client sent still unread by the server. With two callers TLC finds it violated: one thread closes after another's query and reads that query's frame. |
| token_reuse_across_reconnect (`_reuse`) | violation | `TokensUniqueOnSocket` with two threads. One thread's `start` draws token 0. Before it sends, the other thread's `reconnect` closes the client, resets the generator and opens a new socket. The first thread sends 0 on the new socket and then draws 0 again, so the same token is written twice on one socket. Spec 4.1 says the reset prevents exactly this, and 8.1 asks for distinct tokens across concurrent `start` calls. |
| query_returns (`_live`) | pass | Under fairness, a query sent after a completed handshake returns or raises. |
| handshake_failure_leaves_open (`_hsfail`) | violation | A failed handshake leaves the socket open, and `start` then sends a query before any handshake completed. |
| stream_reply_crashes (`_stream`) | violation | A START answered with a stream ends in `AttributeError`. `read_response` prints the Cursor, and `_fmt_cursor` reads `Cursor.error`, which is never assigned. |
| late_handshake_reply_hangs (`_hang`) | violation | A handshake read times out. The late reply is then read as a frame header, and the body read waits forever. |
| concurrent_misroute (`_misroute`) | violation | Two threads read each other's responses off the shared socket. |
| stale_table_entry (`_stale`) | violation | `PendingIsAwaited`: a query whose send or response read fails leaves its token in `_waiting_respose` after its caller returned. Nothing removes it: `close` and `reconnect` never touch the table (the only cleanup in `DefaultTransport.close`, a loop that fails the cached cursors, is commented out, and it would not clear the table either). |

### Bounds

- **Tokens:** `MaxToken` = 3, or 2 with two callers. That is enough for
  close's NOREPLY_WAIT to reuse a token if the reset were in the wrong
  place.
- **Connects:** `MaxConnects` = 2. That gives one reconnect after a failure,
  which is when tokens restart.
- **Failures:** `MaxFailures` = 1. That covers an EOF or a reset in any
  step.
- **Callers:** 1 or 2. Two callers are needed for the interleaving
  findings.

Every hazard in `PROJECT.json` that a property covers is reached within
these bounds. Each property has a mutant of the code it depends on that TLC
catches under the same bounds.

### Fairness

- Every running thread keeps getting scheduled: `WF` of `Proceed(c)`.
- The server keeps reading its input: `WF` of `ServerStep`.
- The user, and the network failures, are not fair.

In the code, `run_query` has no deadline, so a reply is owed only by the
server.

## Proofs (`DriverConn_proofs`, `DriverConn_hs_proofs`, `DriverConn_route_proofs`, `DriverConn_close_proofs`, TLAPS)

- **`TypeCorrect`:** `Spec => []TypeOK` for every set of callers and every
  bound.
  - There is one lemma per action.
  - Sequence facts are cited as lemmas: `EmptySeq`, `AppendType`,
    `ConcatType` and `HeadTailType`.
- **`TokensUnique`:** `Spec => []TokensUniqueOnSocket` under the hypothesis
  `OneCaller` (every two callers are the same thread), for every bound.
  With two threads the property is false (run `token_reuse_across_reconnect`).
  - The invariant is not inductive alone. `TokenInv` says every token in
    `issued` is below the generator's counter. `DrawnInv` says a caller at
    `send` holds a token below the counter and above every token in
    `issued`.
  - `IInv == TypeOK /\ TokensUniqueOnSocket /\ TokenInv /\ DrawnInv`.
  - Every step has one of four shapes (lemma `NextTokenShape`):
    - it leaves `token`, `issued` and `out` alone;
    - it draws (`Draw` after `NewToken`);
    - it sends, appending the drawn token to `issued`;
    - it empties `issued` and leaves no caller at `send` (`FinishClose`,
      `Connect`, `RecvEOF`).
    The last shape needs `OneCaller`: the thread that resets is not at
    `send`, and with one thread no other caller can be (lemma `NoSendLeft`).

The assumptions used are `MaxTokenAssumption`, `MaxConnectsAssumption` and
`MaxFailuresAssumption` (natural numbers) and `StartRepliesAssumption`.

- **`HandshakeAgreed`** (`DriverConn_hs_proofs`): `Spec => []HandshakeAgreement`
  under the hypothesis `OneCaller` (every two callers are the same thread),
  for every bound.
  - `HandshakeAgreement` is not inductive: the step that sets `hsDone` is the
    third handshake read, and what it reads is the head of `s2c`. So the
    invariant `HsStream` says, while the stream `Connect` opened is up:
    - `hsDone` implies a ready session;
    - a caller at a handshake read has not completed a handshake;
    - at each read, the server's session and the exact contents of `c2s`
      and `s2c` are known. At the first read either the initial message is
      unread, or the server is at `hs3` and the version reply and its first
      SCRAM message are in flight. At the second read only the SCRAM
      message is left. At the third read either the authentication request
      is unread, or the server is `ready` and its final reply is in flight.
  - `HsIInv == TypeOK /\ HsStream`. TLC checked it as an invariant of the
    safety instance, and of one with three connects and two failures,
    before the proof.
  - There is one lemma per action. `HsQuiet` covers the steps that leave the
    only caller outside the handshake with the stream, the session and
    `hsDone` unchanged. `HsDown` covers the steps that take the stream down.
    `HsReadShape` gives the three shapes of a handshake read.
  - The hypothesis is needed. With two callers, TLC finds `HandshakeAgreement`
    violated: one thread is at its third handshake read while the other's
    reconnect opens a new socket, and the first thread reads the new
    version reply as the server's final message. Nothing in `connect` or
    `reconnect` serialises threads. `PROJECT.json` lists this under hazards.

- **`ResponseRouted`** (`DriverConn_route_proofs`): `Spec => []ResponseToOwnQuery`
  under `OneCaller`, for every bound.
  - The header a caller reads is the head of `s2c` when it reads it, so the
    invariant has to say what is on both streams. `RouteInv` is
    `StreamsInv` (no socket means empty streams; a reset stream is empty; a
    frame on `s2c` means a ready session) and `RouteAt(c)`:
    - outside a response read, `c2s` holds no query that expects a reply
      and `s2c` holds no frame;
    - at the header read (or swallowing a misaligned stream), either the
      caller's query is the last message of `c2s`, every earlier query is a
      noreply one, and `s2c` has no frame (`QueryLast`), or the server has
      read it and the only frame is the one at the end of `s2c`, whose
      header carries the caller's token (`FrameTail`);
    - at the body read, `htok = qtok` and the body, if any, is first.
  - `RIInv == TypeOK /\ RouteInv`. TLC checked it as an invariant, with two
    failures, before the proof. There is one lemma per action, and lemmas
    on the stream predicates (`FrameSend`, `FrameTailRead`,
    `BodyFirstRead`, `NoFrameHsReplies`...). `ServerShape` says what one
    server step writes.
  - With two callers the property is false: the run `concurrent_misroute`.
- **`CloseAwaitsWaitComplete`** (`DriverConn_close_proofs`):
  `Spec => CloseAfterNoreplyWait` under `OneCaller`, for every bound.
  - The step is a dispatch of a body (lemma `CloseIsDispatch`), so what
    must be known is the body at the head of `s2c` and `c2s` at that time.
    `CloseInv` adds to `RouteInv`, for the caller:
    - at the header read, a frame on `s2c` means `c2s` is empty: the
      server wrote it on reading the caller's query, the last message;
    - at the body read, `c2s` is empty;
    - while the caller is closing (`after # "return"`), every body on `s2c`
      is WAIT_COMPLETE, and a last message of `c2s` that awaits a reply is
      a NOREPLY_WAIT.
  - `CIInv == RIInv /\ CloseInv`, TLC-checked before the proof. The proof
    of the server step uses `Replies("NOREPLY_WAIT") = {"wait_complete"}`.
    The action property follows from `CIInv` and `[Next]_vars` by PTL.
  - The mutant `Garbled_deadline` (a misaligned read that gives up and
    leaves the stream) breaks it: the close's body read then finds the
    frame of an earlier START. The code's `Garbled` never gives up, and
    that is what the proof relies on.

**Checked only by TLC:** the liveness properties `QueryAfterHandshakeReturns`
and `CallerReturns`, because they need fairness and ENABLED, which the
prover cannot handle.

## The other modules

### `ScramHandshake` (SCRAM checks kept as data)

`DriverConn` abstracts each handshake check to a verdict. `ScramHandshake` keeps them:

- `InitializeConnection` draws a nonce SystemRandom has not produced before and builds the client-first message on it.
- `ReadResponse` is `__read_response`: an error reply, or the protocol version range check.
- `PrepareAuthRequest` is `__prepare_auth_request`: the nonce prefix check, then the server signature to expect, `ServerSig(ClientPassword, salt, AuthMsg(first, serverFirst))`.
- `ReadAuthResponse` is `__read_auth_response`: the server sends a signature computed with the password it knows, or replays any signature an earlier session exposed (`seen`); `compare_digest` accepts only the expected one.
- `Fail` is connect's `except ReqlAuthError: raise ReqlDriverError`.

Hashes are records of their inputs (equal exactly when their inputs are), the usual symbolic abstraction of collision resistance. The server (`spw`) is any peer.

| Run (cfg) | Result | What it shows |
|---|---|---|
| scram_auth (`_auth`) | pass | Across reconnects and replays:<br>- `TypeOK`;<br>- `ServerAuthenticated`: a connect returns only when its server knows the client's password;<br>- `NoReplayAccepted` (an action property): the step that lets connect return never accepts a signature already on the wire. |

`ScramHandshake` also defines `AuthRefined`, which is `ConnectAuth!Spec` under `busy <- step # "idle"`, `peer <- spw` and `outcome <- AbstractOutcome`. `AbstractOutcome` keeps `"none"` and `"ok"` and maps either exception to `"raised"`. The abstract spec leaves the exception class open, because the code raises `ReqlDriverError` where spec 4.2 asks for an authentication error (see below). The run does not check it, because on top of `ServerAuthenticated` it adds only the shape of the steps. The theorem `ConnectRefinement` proves it for every value of the constants.

`hsErr` records the generator's classification and `res` what connect raises. An authentication failure always reaches the caller as `ReqlDriverError`, which `connect` wraps on purpose with `raise ... from e`. Spec 4.2 and 7 treat auth errors as a class of their own, so the caller must look at `__cause__` to tell the two apart.

Bounds: two passwords (right and wrong), three nonces (enough for three connects, so a replay from an earlier session is possible), one server nonce, two salts, error codes 9, 10, 20, 21 (both sides of both ends of 10..20), a version range containing 0 and one not.

### `FrameCodec` refines `FrameStream` (byte layout)

`FrameCodec` runs at a scaled width: a byte holds `ByteBase` = 4 values, a token `TokenBytes` = 2 bytes, a length `LengthBytes` = 1. `PackUnsigned` and `UnpackSigned`/`UnpackUnsigned` are struct's little-endian arithmetic, so what `<QL` packs and `<qL` unpacks is kept. The peer writes the handshake reply and then frames. Each `Recv` returns between one byte and what the current `recvall` still asks for, so every chunk boundary happens. `ReadUntilByte` is `readuntil`'s one-byte reads, and `UnpackHeader` and `ReadBody` are the two halves of `read_response`.

A token with its top bit set (8 of 16 at this width) would come back as -8, because the pack is unsigned and the unpack signed. The token generator would need 2^63 queries on one socket to reach such a token, so no run includes one.

`StreamRefined` is `FrameStream!Spec` under the identity mapping of `sent` and `got`: every frame read is the next one written, and under fairness of the reads (a caller keeps reading while bytes are in flight, as `run_query` does) every frame written is read.

| Run (cfg) | Result | What it shows |
|---|---|---|
| codec_stream (`_stream`) | pass | `TypeOK` and `StreamRefined` with tokens 0, 1, 5 (below the sign bit), bodies of one and two bytes, three frames. |

### `Cursor`

The attributes `Cursor.__init__` leaves commented out (`outstanding_requests`, `threshold`, `error`) are the value `Unset`, and the first read of one raises `AttributeError`, as in Python. `New` is the constructor as `read_response` calls it. `Extend` is `extend` with `_maybe_fetch_batch` and `_extend_internal` in the code's order. `RaiseError`, `Close`, `Next_` and `Str` are the user's calls, each with the exception it ends in. `delivered` is a ghost: the items of the batches handed to the cursor before it completed.

| Run (cfg) | Result | What it shows |
|---|---|---|
| cursor_extend (`MC_Cursor_extend`) | violation | `ItemsDelivered`: a second batch handed to `extend` is lost, because `extend` raises on `outstanding_requests` before it buffers anything (spec 4.5, 8.4, 8.7). |

`Cursor_proofs` proves **`NeverResumes`**: `Spec => [](resumes = 0)` for every bound.
- The inductive invariant `NeverAssigned` says that `outstanding_requests` and `error` stay unassigned and `resumes` stays 0.
- `extend` stops at the decrement of the unassigned counter, `raise_error` at its read of the unassigned error, and no other call touches them.
- So the prefetch of spec 4.5 and the single CONTINUE of the spec's scenario 7 never happen.

No cursor reaches a caller in this code (see `stream_reply_crashes`), so the module models the class as a library component; the run shows that even a cursor that escaped could not receive a second batch. `next` always raises `NotImplementedError` (its subclasses are commented out), so spec 8.5 cannot hold either.

### `PseudoTypes`

`Decode` applies the object hook bottom-up, as `json.JSONDecoder` does. `ConvertPseudoType` dispatches on `$reql_type$` under the `*_format` options. `MakeHashable` is `make_hashable`. `PyKey` is the class of a hashable under Python's `==` (where `True == 1`), which is what decides the keys of the converted dict.

| Run (cfg) | Result | What it shows |
|---|---|---|
| grouped_data_keys (`_groups`) | violation | `GroupsPreserved`: GROUPED_DATA whose group keys are `0` and `false` decodes to one group, and the earlier group's value is lost. |

## Proofs (`ScramHandshake_proofs`, TLAPS)

- **`ServerAuthentication`:** `Spec => []ServerAuthenticated` for every set of passwords, nonces, salts, error codes and version ranges.
  - `ServerAuthenticated` is not inductive, so it is strengthened by `RunInv`:
    - every signature on the wire covers a nonce already drawn;
    - while a connect runs, its nonce is drawn, its first message is built on it, and no signature on the wire covers it;
    - once the server-first message is accepted, the expected signature is the one `ClientPassword` gives over this exchange.
  - `IInv == TypeOK /\ RunInv /\ ServerAuthenticated`.
  - There is one lemma per action (`StartIInv`, `ReadResponseIInv`, `PrepareAuthRequestIInv`, `ReadAuthResponseIInv`), and `NextIInv` combines them.
  - The key step is `ReadAuthResponseIInv`. A replayed signature covers an older nonce, so it differs from the expected one. The server's own signature equals it only if its password is `ClientPassword`.
- **`HandshakeTypeCorrect`:** `Spec => []TypeOK`, from the same invariant.
- **`ReplayProtection`:** `Spec => NoReplayAccepted`, an action property.
  - While the last read waits, the expected signature covers the connect's own nonce (`RunInv`), and no signature on the wire covers it. This is lemma `ExpectedSigFresh`.
  - So every step of `[Next]_vars` from a state of `IInv` satisfies the action, and PTL lifts this to `[][...]_vars`.
- **`ConnectRefinement`:** `Spec => AuthRefined`, proved step by step.
  - `Init` maps to `ConnectAuth!Init`.
  - `Start` is `Begin`.
  - The version reply and the server-first message are a stutter when their checks pass, and a `Raise` otherwise (lemmas `InnerIsStutter` and `FailIsRaise`).
  - The final reply is a `Raise`, or a `Return`. For a `Return`, `ServerAuthenticated` in the next state (from `IInv'`) gives the abstract guard `peer = ClientPassword`.

The only assumptions are `ClientPasswordAssumption` (the client's password is one of `Passwords`), `ErrorCodesAssumption` and `VersionRangesAssumption`.

## What is checked by TLC only

- **`FrameCodec`'s `TypeOK` and `StreamRefined`.** `FrameCodec` uses `SequencesExt`, whose operators are recursive, and the prover loses its SMT backend in any module that reaches a RECURSIVE operator. Its packing arithmetic is also a statement about every byte sequence, which needs induction over data.
- **`PseudoTypes`.** `MakeHashable`, `PyKey` and `Decode` are recursive over JSON values.
- **The liveness properties `QueryAfterHandshakeReturns` and `CallerReturns`, and the fairness part of `StreamRefined`.** They need fairness and ENABLED, which the prover cannot handle.
- **`TokensUniqueOnSocket`, `HandshakeAgreement`, `ResponseToOwnQuery` and `CloseAfterNoreplyWait` with several callers.** They are false there (see the proofs above).
- **Every violation run.** It is a counterexample that TLC produces on a small instance.

## Not modelled

- **The asyncio transport** (`net/asyncio_net/`). `new_connection` never selects it, and it cannot be constructed. `AsyncTransport.__init__` passes its mapper positionally as `RdbProtocol`'s `decoder_type` and then passes `decoder_type` again by keyword, which raises `TypeError`.
- **`___net_asyncio.py`.** It is dead: it imports names that no longer exist, and nothing imports it.
- **`Connection.resume` and `Connection.stop`.** They take a `Cursor`, and no caller can obtain one. They are the `Context` of the `Cursor` module.
- **The cursor cache's weak references.** A cursor is never returned, so its cache entry lives only as long as the `AttributeError` traceback does.
- **The query builder** (`r.py`, `query.py`, `r__.py`). It is out of scope per the spec (§1), and a query is an opaque START payload in the models.
- **The JSON encoder, the exception classes, the options and the printer.** They hold no state. The models keep only which exception an operation ends with.
- **The `rebirthdb` CLI utilities.** They are option parsing.

These parts make up most of the source's 6022 lines. `query.py`, `r.py`, `r__.py` and `___net_asyncio.py` alone are 2,800 lines. The spec puts the protocol core at about 1,800 to 2,200 lines. The map covers the core's state-changing code: the connection, transport, client, router, handshake, frame codec, cursor and pseudo-type decoder.

`PROJECT.json` lists each of these parts with its reason, and lists the hazards they leave uncovered.

## Plan

1. An abstract RPC specification (each query gets its own response, at most once), with `DriverConn` shown to refine it where the code allows. The misroute finding is expected to block refinement for two callers. `RouteInv` and `CloseInv` are the invariant half of that refinement for one caller.
