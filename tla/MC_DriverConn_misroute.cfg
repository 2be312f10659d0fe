\* Two threads each read the next frame off the shared socket.
CONSTANTS
    Callers = {c1, c2}
    MaxToken = 2
    MaxConnects = 1
    MaxFailures = 0
    StartReplies <- MC_ScalarReplies
SPECIFICATION Spec
INVARIANT ResponseToOwnQuery
CHECK_DEADLOCK FALSE
