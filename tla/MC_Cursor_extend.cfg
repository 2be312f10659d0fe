\* A stream cursor handed its next batch by the router.
CONSTANTS
    MaxBatch = 2
    MaxCalls = 3
INIT Init
NEXT Next
INVARIANT ItemsDelivered
CHECK_DEADLOCK FALSE
