\* A caller whose handshake timed out and who then sends a query.
CONSTANTS
    Callers = {c1}
    MaxToken = 3
    MaxConnects = 2
    MaxFailures = 1
    StartReplies <- MC_ScalarReplies
SPECIFICATION FairSpec
PROPERTY CallerReturns
CHECK_DEADLOCK FALSE
