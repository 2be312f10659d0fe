--------------------------- MODULE ScramHandshake ---------------------------
(***************************************************************************)
(* The SCRAM-SHA-256 exchange of HandshakeV1_0 (core/net/handshake.py) as  *)
(* DefaultTransport.connect (net/default_net/transport.py) drives it, one  *)
(* connect after another on the same handshake object.  The server of each *)
(* connect is any peer: it knows some password (the right one or not), it  *)
(* may answer with an error at every step, and it may replay any server    *)
(* signature that earlier sessions put on the wire.                        *)
(*                                                                         *)
(* Data is symbolic.  A nonce, a salt and a password are model values; the *)
(* SCRAM messages are records of what they are built from; the HMAC and    *)
(* PBKDF2 values are records of their inputs, so two of them are equal     *)
(* exactly when their inputs are (collision resistance).  The JSON and     *)
(* base64 layout of the messages is left out.                              *)
(***************************************************************************)
EXTENDS Naturals, FiniteSets

CONSTANTS
    Passwords,       \* passwords a peer may know
    ClientPassword,  \* the password the HandshakeV1_0 was built with
    Nonces,          \* values SystemRandom may give _random_nonce
    ServerNonces,    \* nonce parts a server appends
    Salts,           \* salts (with their iteration count) a server sends
    ErrorCodes,      \* error_code values a server may report
    VersionRanges    \* <<min, max>> protocol versions a server may offer

ASSUME ClientPasswordAssumption == ClientPassword \in Passwords
ASSUME ErrorCodesAssumption == ErrorCodes \subseteq Nat
ASSUME VersionRangesAssumption == VersionRanges \subseteq Nat \X Nat

\* HandshakeV1_0.protocol_version.
ProtocolVersion == 0

NoValue == "none"

\* client-first-message-bare "n=<user>,r=<nonce>" (the user is fixed).
FirstBare(n) == [r |-> n]

\* server-first-message "r=<client nonce><server nonce>,s=<salt>,i=<iter>":
\* cn is the prefix the client checks with startswith.
ServerFirsts == [cn : Nonces, sn : ServerNonces, s : Salts]

\* auth_message: client-first-bare, server-first and the client-final
\* message without proof, whose nonce is the server-first's.
AuthMsg(fb, sf) == [fb |-> fb, sf |-> sf]

\* HMAC(HMAC(PBKDF2(password, salt, i), "Server Key"), auth_message).
ServerSig(pw, s, am) == [pw |-> pw, s |-> s, am |-> am]

\* The empty bytes() that reset() leaves in each field.
EmptyFirst == FirstBare(NoValue)

EmptyServerFirst == [cn |-> NoValue, sn |-> NoValue, s |-> NoValue]

EmptySig == ServerSig(NoValue, NoValue, AuthMsg(EmptyFirst, EmptyServerFirst))

\* Every server signature a run can compute or receive.
Sigs == [pw : Passwords, s : Salts,
         am : [fb : {FirstBare(n) : n \in Nonces}, sf : ServerFirsts]]

\* What the transport's connect returns or raises.

Results == {"none", "ok", "auth_error", "driver_error"}

Steps == {"idle", "read1", "read2", "read3"}

VARIABLES
    step,    \* the generator's position: the readuntil connect waits on
    nonce,   \* HandshakeV1_0._random_nonce
    first,   \* HandshakeV1_0._first_client_message
    ssig,    \* HandshakeV1_0._server_signature
    sfirst,  \* the server-first message of the current connect
    spw,     \* the password the current connect's server knows
    used,    \* nonces SystemRandom has produced so far
    seen,    \* server signatures sent on the wire so far
    hsErr,   \* the exception the generator raised: "none", "auth", "driver"
    res      \* the outcome of the last connect

vars == <<step, nonce, first, ssig, sfirst, spw, used, seen, hsErr, res>>

-----------------------------------------------------------------------------
(* HandshakeV1_0.                                                          *)

\* __decode_json_response: a reply without "success" raises ReqlAuthError
\* when its error_code is in 10..20, ReqlDriverError otherwise.
DecodeError(code) == IF 10 <= code /\ code <= 20 THEN "auth" ELSE "driver"

\* DefaultTransport.connect: the ReqlAuthError of the generator is re-raised
\* as ReqlDriverError; any other exception goes through as it is.
ConnectRaises == [auth |-> "driver_error", driver |-> "driver_error"]

\* Mutant: connect passes on the generator's classification unconverted.
Fail_unconverted(e) ==
    /\ step' = "idle"
    /\ hsErr' = e
    /\ res' = e

\* The generator raised e: the connect ends with it.
Fail(e) ==
    /\ step' = "idle"
    /\ hsErr' = e
    /\ res' = ConnectRaises[e]

\* Mutant: _random_nonce drawn without regard to the nonces drawn before.
InitializeConnection_reusedNonce ==
    \E n \in Nonces :
        /\ nonce' = n
        /\ first' = FirstBare(n)
        /\ used' = used \cup {n}

\* __initialize_connection: 18 random bytes, base64-encoded, become the
\* nonce, which enters the client-first message.  A nonce SystemRandom has
\* produced before is not produced again.
InitializeConnection ==
    \E n \in Nonces \ used :
        /\ nonce' = n
        /\ first' = FirstBare(n)
        /\ used' = used \cup {n}

\* connect: a new socket to a server that knows the password p; run()
\* calls reset(), whose empty nonce and first message are overwritten at
\* once by __initialize_connection, and yields the initial message, which
\* is sent.
Start ==
    /\ step = "idle"
    /\ \E p \in Passwords : spw' = p
    /\ ssig' = EmptySig
    /\ InitializeConnection
    /\ step' = "read1"
    /\ hsErr' = "none"
    /\ res' = "none"
    /\ UNCHANGED <<sfirst, seen>>

\* First readuntil, fed to __read_response: an error reply raises; the
\* protocol version must lie in the server's range; otherwise the
\* generator yields b"", which connect does not send.
ReadResponse ==
    /\ step = "read1"
    /\ \/ \E code \in ErrorCodes : Fail(DecodeError(code))
       \/ \E v \in VersionRanges :
            IF v[1] <= ProtocolVersion /\ ProtocolVersion <= v[2]
              THEN step' = "read2" /\ UNCHANGED <<hsErr, res>>
              ELSE Fail("driver")
    /\ UNCHANGED <<nonce, first, ssig, sfirst, spw, used, seen>>

\* Second readuntil, fed to __prepare_auth_request: an error reply raises;
\* the server's nonce must start with _random_nonce; the server signature
\* to expect is computed from ClientPassword and the auth message, and the
\* client-final message with its proof is sent.
PrepareAuthRequest ==
    /\ step = "read2"
    /\ \/ \E code \in ErrorCodes :
            Fail(DecodeError(code)) /\ UNCHANGED <<ssig, sfirst>>
       \/ \E sf \in ServerFirsts :
            /\ sfirst' = sf
            /\ IF sf.cn = nonce
                 THEN /\ ssig' = ServerSig(ClientPassword, sf.s,
                                           AuthMsg(first, sf))
                      /\ step' = "read3"
                      /\ UNCHANGED <<hsErr, res>>
                 ELSE Fail("auth") /\ UNCHANGED ssig
    /\ UNCHANGED <<nonce, first, spw, used, seen>>

\* Mutant: the server signature is not compared.
ReadAuthResponse_noCompare ==
    /\ step = "read3"
    /\ \E v \in {ServerSig(spw, sfirst.s, AuthMsg(first, sfirst))} \cup seen :
         /\ seen' = seen \cup {v}
         /\ step' = "idle" /\ hsErr' = "none" /\ res' = "ok"
    /\ UNCHANGED <<nonce, first, ssig, sfirst, spw, used>>

\* Third readuntil, fed to __read_auth_response: an error reply raises
\* (the server rejected the proof, or chose to); the signature v the
\* server sends must equal _server_signature (compare_digest).  The server
\* computes v with the password it knows over the auth message it saw, or
\* replays a signature seen on the wire.  On success the generator ends and
\* connect returns.
ReadAuthResponse ==
    /\ step = "read3"
    /\ \/ \E code \in ErrorCodes :
            Fail(DecodeError(code)) /\ UNCHANGED seen
       \/ \E v \in {ServerSig(spw, sfirst.s, AuthMsg(first, sfirst))} \cup seen :
            /\ seen' = seen \cup {v}
            /\ IF v = ssig
                 THEN step' = "idle" /\ hsErr' = "none" /\ res' = "ok"
                 ELSE Fail("auth")
    /\ UNCHANGED <<nonce, first, ssig, sfirst, spw, used>>

-----------------------------------------------------------------------------

Init ==
    /\ step = "idle"
    /\ nonce = NoValue
    /\ first = EmptyFirst
    /\ ssig = EmptySig
    /\ sfirst = EmptyServerFirst
    /\ spw = NoValue
    /\ used = {}
    /\ seen = {}
    /\ hsErr = "none"
    /\ res = "none"

Next == Start \/ ReadResponse \/ PrepareAuthRequest \/ ReadAuthResponse

Spec == Init /\ [][Next]_vars

-----------------------------------------------------------------------------
(* Properties.                                                             *)

TypeOK ==
    /\ step \in Steps
    /\ nonce \in Nonces \cup {NoValue}
    /\ first \in {FirstBare(n) : n \in Nonces} \cup {EmptyFirst}
    /\ ssig \in Sigs \cup {EmptySig}
    /\ sfirst \in ServerFirsts \cup {EmptyServerFirst}
    /\ spw \in Passwords \cup {NoValue}
    /\ used \subseteq Nonces
    /\ seen \subseteq Sigs
    /\ hsErr \in {"none", "auth", "driver"}
    /\ res \in Results

\* Server authentication (the nonce and signature checks of
\* __prepare_auth_request and __read_auth_response): a connect returns only
\* when the server it talked to knows the client's password, whatever
\* signatures earlier sessions exposed for replay.
ServerAuthenticated == res = "ok" => spw = ClientPassword


\* Replay protection (the fresh _random_nonce of __initialize_connection,
\* bound into the auth message __prepare_auth_request signs): the step of
\* __read_auth_response that lets connect return never accepts a server
\* signature that was already on the wire.
NoReplayAccepted ==
    [][step = "read3" /\ res' = "ok" => ssig \notin seen]_vars


\* The abstract connect: running while the generator is past its start,
\* talking to the peer of this connect, and "raised" for either exception
\* connect lets through.
AbstractOutcome ==
    IF res \in {"none", "ok"} THEN res ELSE "raised"

Auth == INSTANCE ConnectAuth
            WITH busy <- step # "idle", peer <- spw, outcome <- AbstractOutcome

\* DefaultTransport.connect driving HandshakeV1_0 implements the promise of
\* a connect: every sequence of generator steps is a sequence of connects
\* that raise, or return only to a peer knowing ClientPassword.
AuthRefined == Auth!Spec

=============================================================================
