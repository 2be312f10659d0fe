----------------------- MODULE ScramHandshake_proofs -----------------------
(***************************************************************************)
(* Proofs about ScramHandshake for every set of passwords, nonces, salts,  *)
(* error codes and version ranges: a connect returns only when its server  *)
(* knows the client's password.                                            *)
(***************************************************************************)
EXTENDS ScramHandshake, TLAPS

\* What holds of the exchange in progress and of the wire.
\*  - Every signature on the wire was computed over the client-first
\*    message of a nonce already drawn.
\*  - While a connect runs, its server is a peer with a password, its
\*    nonce has been drawn, its first message is
\*    built on it, and no signature on the wire covers that nonce.
\*  - Once the server-first message is accepted, _server_signature is the
\*    one ClientPassword gives for this exchange.
RunInv ==
    /\ \A v \in seen : v.am.fb.r \in used
    /\ step # "idle" =>
          /\ spw \in Passwords
          /\ nonce \in used
          /\ first = FirstBare(nonce)
          /\ \A v \in seen : v.am.fb.r # nonce
    /\ step = "read3" =>
          /\ sfirst \in ServerFirsts
          /\ ssig = ServerSig(ClientPassword, sfirst.s, AuthMsg(first, sfirst))

IInv == TypeOK /\ RunInv /\ ServerAuthenticated

-----------------------------------------------------------------------------

LEMMA InitIInv == Init => IInv
BY DEF Init, IInv, TypeOK, RunInv, ServerAuthenticated, EmptyFirst, EmptySig,
       EmptyServerFirst, Results, Steps

\* connect starts an exchange with a nonce not drawn before.
LEMMA StartIInv ==
    ASSUME IInv, Start
    PROVE  IInv'
<1> USE DEF IInv
<1>1. PICK n \in Nonces \ used : nonce' = n /\ first' = FirstBare(n)
                                 /\ used' = used \cup {n}
  BY DEF Start, InitializeConnection
<1>2. TypeOK'
  BY <1>1, ClientPasswordAssumption
     DEF Start, TypeOK, Steps, Results, EmptySig, EmptyFirst, EmptyServerFirst
<1>3. \A v \in seen' : v.am.fb.r \in used'
  BY <1>1 DEF Start, RunInv
<1>4. \A v \in seen' : v.am.fb.r # nonce'
  BY <1>1 DEF Start, RunInv
<1>5. RunInv'
  BY <1>1, <1>3, <1>4 DEF Start, RunInv
<1>6. ServerAuthenticated'
  BY DEF Start, ServerAuthenticated
<1>7. QED
  BY <1>2, <1>5, <1>6

\* The version reply changes nothing the invariant speaks of but the step.
LEMMA ReadResponseIInv ==
    ASSUME IInv, ReadResponse
    PROVE  IInv'
<1> USE DEF IInv
<1>1. CASE \E code \in ErrorCodes : Fail(DecodeError(code))
  <2>1. PICK code \in ErrorCodes : Fail(DecodeError(code))
    BY <1>1
  <2>2. DecodeError(code) \in {"auth", "driver"}
    BY DEF DecodeError
  <2>3. step' = "idle" /\ hsErr' \in {"auth", "driver"}
        /\ res' = "driver_error"
    BY <2>1, <2>2 DEF Fail, ConnectRaises
  <2>4. QED
    BY <2>3 DEF ReadResponse, TypeOK, RunInv, ServerAuthenticated, Steps,
                Results
<1>2. CASE \E v \in VersionRanges :
              IF v[1] <= ProtocolVersion /\ ProtocolVersion <= v[2]
                THEN step' = "read2" /\ UNCHANGED <<hsErr, res>>
                ELSE Fail("driver")
  <2>1. \/ step' = "read2" /\ UNCHANGED <<hsErr, res>>
        \/ step' = "idle" /\ hsErr' = "driver" /\ res' = "driver_error"
    BY <1>2 DEF Fail, ConnectRaises
  <2>2. QED
    BY <2>1 DEF ReadResponse, TypeOK, RunInv, ServerAuthenticated, Steps,
                Results
<1>3. QED
  BY <1>1, <1>2 DEF ReadResponse

\* The server-first message: the nonce check, then the signature to expect.
LEMMA PrepareAuthRequestIInv ==
    ASSUME IInv, PrepareAuthRequest
    PROVE  IInv'
<1> USE DEF IInv
<1>1. CASE \E code \in ErrorCodes :
              Fail(DecodeError(code)) /\ UNCHANGED <<ssig, sfirst>>
  <2>1. PICK code \in ErrorCodes :
              Fail(DecodeError(code)) /\ UNCHANGED <<ssig, sfirst>>
    BY <1>1
  <2>2. DecodeError(code) \in {"auth", "driver"}
    BY DEF DecodeError
  <2>3. step' = "idle" /\ hsErr' \in {"auth", "driver"}
        /\ res' = "driver_error"
    BY <2>1, <2>2 DEF Fail, ConnectRaises
  <2>4. QED
    BY <2>1, <2>3 DEF PrepareAuthRequest, TypeOK, RunInv,
                      ServerAuthenticated, Steps, Results
<1>2. CASE \E sf \in ServerFirsts :
              /\ sfirst' = sf
              /\ IF sf.cn = nonce
                   THEN /\ ssig' = ServerSig(ClientPassword, sf.s,
                                             AuthMsg(first, sf))
                        /\ step' = "read3"
                        /\ UNCHANGED <<hsErr, res>>
                   ELSE Fail("auth") /\ UNCHANGED ssig
  <2>1. PICK sf \in ServerFirsts :
              /\ sfirst' = sf
              /\ IF sf.cn = nonce
                   THEN /\ ssig' = ServerSig(ClientPassword, sf.s,
                                             AuthMsg(first, sf))
                        /\ step' = "read3"
                        /\ UNCHANGED <<hsErr, res>>
                   ELSE Fail("auth") /\ UNCHANGED ssig
    BY <1>2
  <2>2. CASE sf.cn = nonce
    <3>1. ssig' \in Sigs
      <4>1. nonce \in Nonces /\ first = FirstBare(nonce)
        BY DEF PrepareAuthRequest, RunInv, TypeOK
      <4>2. QED
        BY <2>1, <2>2, <4>1, ClientPasswordAssumption
           DEF Sigs, ServerSig, AuthMsg, ServerFirsts
    <3>2. QED
      BY <2>1, <2>2, <3>1 DEF PrepareAuthRequest, TypeOK, RunInv,
                              ServerAuthenticated, Steps
  <2>3. CASE sf.cn # nonce
    BY <2>1, <2>3 DEF PrepareAuthRequest, TypeOK, RunInv, ServerAuthenticated,
                      Steps, Results, Fail, ConnectRaises
  <2>4. QED
    BY <2>2, <2>3
<1>3. QED
  BY <1>1, <1>2 DEF PrepareAuthRequest

\* The server's final message: a connect returns only on the signature that
\* ClientPassword gives over this exchange, which neither a server with
\* another password can compute nor an earlier session has exposed.
LEMMA ReadAuthResponseIInv ==
    ASSUME IInv, ReadAuthResponse
    PROVE  IInv'
<1> USE DEF IInv
<1> DEFINE own == ServerSig(spw, sfirst.s, AuthMsg(first, sfirst))
<1>1. /\ step = "read3"
      /\ nonce \in used
      /\ first = FirstBare(nonce)
      /\ \A v \in seen : v.am.fb.r # nonce
      /\ sfirst \in ServerFirsts
      /\ ssig = ServerSig(ClientPassword, sfirst.s, AuthMsg(first, sfirst))
  BY DEF ReadAuthResponse, RunInv
<1>2. CASE \E code \in ErrorCodes : Fail(DecodeError(code)) /\ UNCHANGED seen
  <2>1. PICK code \in ErrorCodes : Fail(DecodeError(code)) /\ UNCHANGED seen
    BY <1>2
  <2>2. DecodeError(code) \in {"auth", "driver"}
    BY DEF DecodeError
  <2>3. step' = "idle" /\ hsErr' \in {"auth", "driver"}
        /\ res' = "driver_error"
    BY <2>1, <2>2 DEF Fail, ConnectRaises
  <2>4. QED
    BY <2>1, <2>3 DEF ReadAuthResponse, TypeOK, RunInv,
                      ServerAuthenticated, Steps, Results
<1>3. CASE \E v \in {own} \cup seen :
              /\ seen' = seen \cup {v}
              /\ IF v = ssig
                   THEN step' = "idle" /\ hsErr' = "none" /\ res' = "ok"
                   ELSE Fail("auth")
  <2>1. PICK v \in {own} \cup seen :
              /\ seen' = seen \cup {v}
              /\ IF v = ssig
                   THEN step' = "idle" /\ hsErr' = "none" /\ res' = "ok"
                   ELSE Fail("auth")
    BY <1>3
  <2>2. spw \in Passwords
    BY DEF ReadAuthResponse, RunInv
  <2>3. v \in Sigs /\ v.am.fb.r \in used
    <3>1. CASE v = own
      <4>1. nonce \in Nonces
        BY <1>1 DEF TypeOK
      <4>2. sfirst.s \in Salts /\ sfirst \in ServerFirsts
        BY <1>1 DEF ServerFirsts
      <4>3. own \in Sigs
        BY <1>1, <2>2, <4>1, <4>2 DEF Sigs, ServerSig, AuthMsg
      <4>4. own.am.fb.r = nonce
        BY <1>1 DEF ServerSig, AuthMsg, FirstBare
      <4>5. QED
        BY <1>1, <3>1, <4>3, <4>4
    <3>2. CASE v \in seen
      BY <3>2 DEF TypeOK, RunInv
    <3>3. QED
      BY <2>1, <3>1, <3>2
  <2>4. v = ssig => spw = ClientPassword
    <3>1. v \notin seen \/ v # ssig
      BY <1>1 DEF ServerSig, AuthMsg, FirstBare
    <3>2. v = own \/ v # ssig
      BY <2>1, <3>1
    <3>3. QED
      BY <1>1, <3>2 DEF ServerSig
  <2>5. TypeOK'
    BY <2>1, <2>3 DEF ReadAuthResponse, TypeOK, Steps, Results, Fail,
                      ConnectRaises
  <2>6. RunInv'
    BY <2>1, <2>3 DEF ReadAuthResponse, RunInv, Fail
  <2>7. ServerAuthenticated'
    BY <2>1, <2>4 DEF ReadAuthResponse, ServerAuthenticated, Fail,
                      ConnectRaises
  <2>8. QED
    BY <2>5, <2>6, <2>7
<1>4. QED
  BY <1>2, <1>3 DEF ReadAuthResponse

\* Every step keeps the inductive invariant.
LEMMA NextIInv == IInv /\ [Next]_vars => IInv'
<1> SUFFICES ASSUME IInv, [Next]_vars PROVE IInv'
  OBVIOUS
<1>1. CASE Start
  BY <1>1, StartIInv
<1>2. CASE ReadResponse
  BY <1>2, ReadResponseIInv
<1>3. CASE PrepareAuthRequest
  BY <1>3, PrepareAuthRequestIInv
<1>4. CASE ReadAuthResponse
  BY <1>4, ReadAuthResponseIInv
<1>5. CASE UNCHANGED vars
  BY <1>5 DEF vars, IInv, TypeOK, RunInv, ServerAuthenticated
<1>6. QED
  BY <1>1, <1>2, <1>3, <1>4, <1>5 DEF Next

\* Type correctness of the handshake object and the transport's outcome.
THEOREM HandshakeTypeCorrect == Spec => []TypeOK
<1>1. IInv => TypeOK
  BY DEF IInv
<1>2. QED
  BY <1>1, InitIInv, NextIInv, PTL DEF Spec

\* Server authentication (HandshakeV1_0's nonce and signature checks under
\* DefaultTransport.connect): in every behaviour, a connect that returned
\* talked to a server that knows ClientPassword, although earlier sessions
\* exposed their server signatures for replay.
THEOREM ServerAuthentication == Spec => []ServerAuthenticated
<1>1. IInv => ServerAuthenticated
  BY DEF IInv
<1>2. QED
  BY <1>1, InitIInv, NextIInv, PTL DEF Spec


\* While the last read waits, the signature the client expects covers its
\* own nonce, which no signature on the wire covers.
LEMMA ExpectedSigFresh ==
    ASSUME IInv, step = "read3"
    PROVE  ssig \notin seen
<1>1. ssig.am.fb.r = nonce
  BY DEF IInv, RunInv, ServerSig, AuthMsg, FirstBare
<1>2. \A v \in seen : v.am.fb.r # nonce
  BY DEF IInv, RunInv
<1>3. QED
  BY <1>1, <1>2

\* Replay protection (the fresh nonce of __initialize_connection, bound into
\* the auth message): in every behaviour, the step that lets connect return
\* accepts a server signature no earlier session put on the wire.
THEOREM ReplayProtection == Spec => NoReplayAccepted
<1>1. IInv /\ [Next]_vars => [step = "read3" /\ res' = "ok" => ssig \notin seen]_vars
  BY ExpectedSigFresh
<1>2. QED
  BY <1>1, InitIInv, NextIInv, PTL DEF Spec, NoReplayAccepted


-----------------------------------------------------------------------------
(* Refinement of ConnectAuth under the mapping busy <- step # "idle",      *)
(* peer <- spw, outcome <- AbstractOutcome.                                 *)

\* A generator exception ends the running connect with a raise.
LEMMA FailIsRaise ==
    ASSUME step # "idle", NEW e \in {"auth", "driver"}, Fail(e), UNCHANGED spw
    PROVE  Auth!Raise
BY DEF Fail, ConnectRaises, AbstractOutcome, Auth!Raise

\* A step inside a connect that neither ends it nor changes its outcome is
\* a stutter of the abstract connect.
LEMMA InnerIsStutter ==
    ASSUME step # "idle", step' # "idle", UNCHANGED <<spw, res>>
    PROVE  UNCHANGED Auth!vars
BY DEF Auth!vars, AbstractOutcome

\* connect opens a socket to some peer: the abstract connect begins.
LEMMA StartRefines ==
    ASSUME IInv, Start
    PROVE  Auth!Begin
BY DEF IInv, Start, Auth!Begin, AbstractOutcome

\* The version reply: a raise, or a stutter.
LEMMA ReadResponseRefines ==
    ASSUME IInv, ReadResponse
    PROVE  [Auth!Next]_Auth!vars
<1>1. CASE \E code \in ErrorCodes : Fail(DecodeError(code))
  <2>1. PICK code \in ErrorCodes : Fail(DecodeError(code))
    BY <1>1
  <2>2. DecodeError(code) \in {"auth", "driver"}
    BY DEF DecodeError
  <2>3. QED
    BY <2>1, <2>2, FailIsRaise DEF ReadResponse, Auth!Next
<1>2. CASE \E v \in VersionRanges :
             IF v[1] <= ProtocolVersion /\ ProtocolVersion <= v[2]
               THEN step' = "read2" /\ UNCHANGED <<hsErr, res>>
               ELSE Fail("driver")
  <2>1. PICK v \in VersionRanges :
             IF v[1] <= ProtocolVersion /\ ProtocolVersion <= v[2]
               THEN step' = "read2" /\ UNCHANGED <<hsErr, res>>
               ELSE Fail("driver")
    BY <1>2
  <2>2. CASE v[1] <= ProtocolVersion /\ ProtocolVersion <= v[2]
    BY <2>1, <2>2, InnerIsStutter DEF ReadResponse
  <2>3. CASE ~(v[1] <= ProtocolVersion /\ ProtocolVersion <= v[2])
    BY <2>1, <2>3, FailIsRaise DEF ReadResponse, Auth!Next
  <2>4. QED
    BY <2>2, <2>3
<1>3. QED
  BY <1>1, <1>2 DEF ReadResponse

\* The server-first message: a raise, or a stutter.
LEMMA PrepareAuthRequestRefines ==
    ASSUME IInv, PrepareAuthRequest
    PROVE  [Auth!Next]_Auth!vars
<1>1. CASE \E code \in ErrorCodes :
              Fail(DecodeError(code)) /\ UNCHANGED <<ssig, sfirst>>
  <2>1. PICK code \in ErrorCodes : Fail(DecodeError(code))
    BY <1>1
  <2>2. DecodeError(code) \in {"auth", "driver"}
    BY DEF DecodeError
  <2>3. QED
    BY <2>1, <2>2, FailIsRaise DEF PrepareAuthRequest, Auth!Next
<1>2. CASE \E sf \in ServerFirsts :
              /\ sfirst' = sf
              /\ IF sf.cn = nonce
                   THEN /\ ssig' = ServerSig(ClientPassword, sf.s,
                                             AuthMsg(first, sf))
                        /\ step' = "read3"
                        /\ UNCHANGED <<hsErr, res>>
                   ELSE Fail("auth") /\ UNCHANGED ssig
  <2>1. PICK sf \in ServerFirsts :
              /\ sfirst' = sf
              /\ IF sf.cn = nonce
                   THEN /\ ssig' = ServerSig(ClientPassword, sf.s,
                                             AuthMsg(first, sf))
                        /\ step' = "read3"
                        /\ UNCHANGED <<hsErr, res>>
                   ELSE Fail("auth") /\ UNCHANGED ssig
    BY <1>2
  <2>2. CASE sf.cn = nonce
    BY <2>1, <2>2, InnerIsStutter DEF PrepareAuthRequest
  <2>3. CASE sf.cn # nonce
    BY <2>1, <2>3, FailIsRaise DEF PrepareAuthRequest, Auth!Next
  <2>4. QED
    BY <2>2, <2>3
<1>3. QED
  BY <1>1, <1>2 DEF PrepareAuthRequest

\* The server's final message: a raise, or a return, which the inductive
\* invariant shows is to a peer that knows ClientPassword.
LEMMA ReadAuthResponseRefines ==
    ASSUME IInv, IInv', ReadAuthResponse
    PROVE  [Auth!Next]_Auth!vars
<1>1. CASE \E code \in ErrorCodes : Fail(DecodeError(code)) /\ UNCHANGED seen
  <2>1. PICK code \in ErrorCodes : Fail(DecodeError(code))
    BY <1>1
  <2>2. DecodeError(code) \in {"auth", "driver"}
    BY DEF DecodeError
  <2>3. QED
    BY <2>1, <2>2, FailIsRaise DEF ReadAuthResponse, Auth!Next
<1>2. CASE res' = "ok"
  <2>1. spw' = ClientPassword
    BY <1>2 DEF IInv, ServerAuthenticated
  <2>2. step = "read3" /\ step' = "idle" /\ UNCHANGED spw
    BY DEF ReadAuthResponse, Fail
  <2>3. QED
    BY <1>2, <2>1, <2>2 DEF Auth!Next, Auth!Return, AbstractOutcome
<1>3. CASE ~(\E code \in ErrorCodes : Fail(DecodeError(code)) /\ UNCHANGED seen)
           /\ res' # "ok"
  <2>1. Fail("auth")
    BY <1>3 DEF ReadAuthResponse
  <2>2. QED
    BY <2>1, FailIsRaise DEF ReadAuthResponse, Auth!Next
<1>4. QED
  BY <1>1, <1>2, <1>3

\* Authentication refinement (DefaultTransport.connect driving
\* HandshakeV1_0): every behaviour of the handshake is a behaviour of
\* ConnectAuth, a sequence of connects each of which raises or returns,
\* and returns only to a peer that knows the client's password.
THEOREM ConnectRefinement == Spec => AuthRefined
<1>1. Init => Auth!Init
  BY DEF Init, Auth!Init, AbstractOutcome, Auth!NoPeer, NoValue
<1>2. IInv /\ IInv' /\ [Next]_vars => [Auth!Next]_Auth!vars
  <2> SUFFICES ASSUME IInv, IInv', [Next]_vars PROVE [Auth!Next]_Auth!vars
    OBVIOUS
  <2>1. CASE Start
    BY <2>1, StartRefines DEF Auth!Next
  <2>2. CASE ReadResponse
    BY <2>2, ReadResponseRefines
  <2>3. CASE PrepareAuthRequest
    BY <2>3, PrepareAuthRequestRefines
  <2>4. CASE ReadAuthResponse
    BY <2>4, ReadAuthResponseRefines
  <2>5. CASE UNCHANGED vars
    BY <2>5 DEF vars, Auth!vars, AbstractOutcome
  <2>6. QED
    BY <2>1, <2>2, <2>3, <2>4, <2>5 DEF Next
<1>3. QED
  BY <1>1, <1>2, InitIInv, NextIInv, PTL DEF Spec, AuthRefined, Auth!Spec

=============================================================================
