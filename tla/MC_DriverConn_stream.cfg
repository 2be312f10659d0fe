\* The server answers a START with a stream.
CONSTANTS
    Callers = {c1}
    MaxToken = 3
    MaxConnects = 2
    MaxFailures = 1
    StartReplies <- MC_AllReplies
SPECIFICATION Spec
INVARIANT StreamReplyReturns
CHECK_DEADLOCK FALSE
