---------------------------- MODULE ConnectAuth ----------------------------
(***************************************************************************)
(* What a connect promises about authentication (spec 4.2): each connect   *)
(* talks to some peer and either raises or returns; it returns only when   *)
(* the peer knows the client's password, and a connect that ended leaves   *)
(* nothing for the next one.  Which exception a failure raises is left     *)
(* open here.                                                              *)
(***************************************************************************)
CONSTANTS
    Passwords,       \* passwords a peer may know
    ClientPassword   \* the password the client authenticates with

VARIABLES
    busy,      \* a connect is running
    peer,      \* the password the peer of the last connect knows
    outcome    \* "none" while running, then "ok" or "raised"

vars == <<busy, peer, outcome>>

NoPeer == "none"

Init == busy = FALSE /\ peer = NoPeer /\ outcome = "none"

\* A connect starts, to a peer that knows some password.
Begin ==
    /\ ~busy
    /\ busy' = TRUE
    /\ peer' \in Passwords
    /\ outcome' = "none"

\* The connect raises.
Raise ==
    /\ busy
    /\ busy' = FALSE
    /\ outcome' = "raised"
    /\ UNCHANGED peer

\* The connect returns: only to a peer that knows the client's password.
Return ==
    /\ busy
    /\ peer = ClientPassword
    /\ busy' = FALSE
    /\ outcome' = "ok"
    /\ UNCHANGED peer

Next == Begin \/ Raise \/ Return

Spec == Init /\ [][Next]_vars

=============================================================================
