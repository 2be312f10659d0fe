\* Frames with tokens below half the range, over a stream split anywhere.
CONSTANTS
    ByteBase = 4
    TokenBytes = 2
    LengthBytes = 1
    TokenValues <- MC_LowTokens
    Bodies <- MC_Bodies
    HsReply <- MC_HsReply
    MaxFrames = 3
SPECIFICATION Spec
INVARIANT TypeOK
PROPERTY StreamRefined
\* Once the peer has written its last frame and the reader has taken it,
\* the reader waits for a header that never comes, as run_query would.
CHECK_DEADLOCK FALSE
