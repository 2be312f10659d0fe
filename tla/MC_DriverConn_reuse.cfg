\* Two threads share one connection: one draws a token for start while the
\* other reconnects, which resets the token generator under it.
CONSTANTS
    Callers = {c1, c2}
    MaxToken = 2
    MaxConnects = 2
    MaxFailures = 0
    StartReplies <- MC_ScalarReplies
SPECIFICATION Spec
INVARIANTS
    TokensUniqueOnSocket
CHECK_DEADLOCK FALSE
