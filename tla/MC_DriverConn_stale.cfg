\* One caller whose response read fails: its table entry outlives it.
CONSTANTS
    Callers = {c1}
    MaxToken = 3
    MaxConnects = 2
    MaxFailures = 1
    StartReplies <- MC_ScalarReplies
SPECIFICATION Spec
INVARIANT PendingIsAwaited
CHECK_DEADLOCK FALSE
