--------------------------- MODULE MC_FrameCodec ---------------------------
(* Small instances of FrameCodec for TLC.                                  *)
EXTENDS FrameCodec, TLC

\* Tokens the generator hands out on a fresh connection, below half the
\* token range.
MC_LowTokens == {0, 1, 5}

\* A one-byte body, and a two-byte body that splits across recvs.
MC_Bodies == {<<1>>, <<2, 3>>}

\* A handshake reply of two bytes.
MC_HsReply == <<1, 2>>

=============================================================================
