\* A failed or timed-out handshake leaves the socket open for queries.
CONSTANTS
    Callers = {c1}
    MaxToken = 3
    MaxConnects = 2
    MaxFailures = 1
    StartReplies <- MC_AllReplies
SPECIFICATION Spec
INVARIANT QueryOnlyAfterHandshake
CHECK_DEADLOCK FALSE
