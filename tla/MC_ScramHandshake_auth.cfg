\* Three connects against any peer, with replay of earlier signatures.
CONSTANTS
    p1 = p1
    p2 = p2
    n1 = n1
    n2 = n2
    n3 = n3
    sn1 = sn1
    salt1 = salt1
    salt2 = salt2
    Passwords <- MC_Passwords
    ClientPassword = p1
    Nonces <- MC_Nonces
    ServerNonces = {sn1}
    Salts = {salt1, salt2}
    ErrorCodes <- MC_ErrorCodes
    VersionRanges <- MC_VersionRanges
SPECIFICATION Spec
INVARIANTS
    TypeOK
    ServerAuthenticated
PROPERTIES
    NoReplayAccepted
\* After the last connect the object stays idle, as a program that does
\* not reconnect leaves it.
CHECK_DEADLOCK FALSE
