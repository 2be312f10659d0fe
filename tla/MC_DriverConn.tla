--------------------------- MODULE MC_DriverConn ---------------------------
(* Small instances of DriverConn for TLC.                                  *)
EXTENDS DriverConn, TLC

\* The responses a START may get that complete without a stream: an atom
\* and a runtime error.
MC_ScalarReplies == {"atom", "runtime_error"}

\* Every response a START may get, streams included.
MC_AllReplies == {"atom", "partial", "sequence", "runtime_error"}

=============================================================================
