\* One caller under weak fairness of its steps and of the server.
CONSTANTS
    Callers = {c1}
    MaxToken = 3
    MaxConnects = 2
    MaxFailures = 1
    StartReplies <- MC_ScalarReplies
SPECIFICATION FairSpec
PROPERTIES
    QueryAfterHandshakeReturns
CHECK_DEADLOCK FALSE
