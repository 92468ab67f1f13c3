------------------------------ MODULE Handshake ------------------------------
(***************************************************************************)
(* What the gateway promises about its start-up handshake with FCS, with   *)
(* the threads, the message queues and the retries left out.  Each of the  *)
(* requested functions is accepted by FCS at some time, is then confirmed  *)
(* to the gateway, and only when all of them are confirmed is the          *)
(* handshake complete and pushed data let through.  A restart of the       *)
(* gateway forgets what was confirmed, never what FCS has accepted.        *)
(***************************************************************************)
CONSTANT Functions   \* the requests the gateway makes of FCS

VARIABLES accepted,  \* functions FCS has accepted at some time
          confirmed, \* functions confirmed to the running gateway
          complete   \* the running gateway lets pushed data through

hsVars == <<accepted, confirmed, complete>>

Init ==
    /\ accepted = {}
    /\ confirmed = {}
    /\ complete = FALSE

Accept(f) ==
    /\ accepted' = accepted \union {f}
    /\ UNCHANGED <<confirmed, complete>>

Confirm(f) ==
    /\ f \in accepted
    /\ confirmed' = confirmed \union {f}
    /\ UNCHANGED <<accepted, complete>>

Complete ==
    /\ confirmed = Functions
    /\ complete' = TRUE
    /\ UNCHANGED <<accepted, confirmed>>

Restart ==
    /\ confirmed' = {}
    /\ complete' = FALSE
    /\ UNCHANGED accepted

Next ==
    \/ \E f \in Functions : Accept(f) \/ Confirm(f)
    \/ Complete
    \/ Restart

Spec == Init /\ [][Next]_hsVars
=============================================================================
