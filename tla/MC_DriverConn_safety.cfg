\* One caller: tokens, the handshake, response routing and the typing of
\* every state.
CONSTANTS
    Callers = {c1}
    MaxToken = 3
    MaxConnects = 2
    MaxFailures = 1
    StartReplies <- MC_AllReplies
SPECIFICATION Spec
INVARIANTS
    TypeOK
    TokensUniqueOnSocket
    HandshakeAgreement
    ResponseToOwnQuery
PROPERTY CloseAfterNoreplyWait
\* A caller whose header read was misaligned by a late handshake reply
\* waits forever once the network stops failing: a real hang of the code.
CHECK_DEADLOCK FALSE
