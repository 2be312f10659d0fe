-------------------------- MODULE MC_ScramHandshake --------------------------
(* Small instances of ScramHandshake for TLC.                              *)
EXTENDS ScramHandshake, TLC

CONSTANTS p1, p2, n1, n2, n3, sn1, salt1, salt2

\* The right password and one other.
MC_Passwords == {p1, p2}

\* Three connects, each with its own nonce.
MC_Nonces == {n1, n2, n3}

\* Error codes at both ends of the authentication range and just outside.
MC_ErrorCodes == {9, 10, 20, 21}

\* A range that contains version 0 and one that does not.
MC_VersionRanges == {<<0, 0>>, <<1, 2>>}

=============================================================================
