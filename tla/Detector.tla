------------------------------ MODULE Detector ------------------------------
(* The Detector protocol of blocksnoop/core.py: what the session may rely on, *)
(* whichever backend it drives.  start either brings the backend up or leaves *)
(* nothing behind; events and losses come from a backend that is up; a health *)
(* check condemns only a backend that has failed; once stop has returned the  *)
(* callback is never entered again.                                           *)
EXTENDS Naturals

VARIABLES
    status,     \* "off", "starting", "on", "condemned", "stopping"
    delivered,  \* events handed to the callback since start was called
    losses,     \* the sum of loss_counts
    failed      \* the backend can no longer deliver events

vars == <<status, delivered, losses, failed>>

Init ==
    /\ status = "off"
    /\ delivered = 0 /\ losses = 0
    /\ failed = FALSE

Start ==
    /\ status = "off"
    /\ status' = "starting"
    /\ delivered' = 0 /\ losses' = 0
    /\ failed' = FALSE

\* start returns, or raises with nothing left running
StartReturns ==
    /\ status = "starting"
    /\ status' \in {"on", "off"}
    /\ UNCHANGED <<delivered, losses, failed>>

CheckHealth ==
    /\ status = "on"
    /\ failed
    /\ status' = "condemned"
    /\ UNCHANGED <<delivered, losses, failed>>

\* stop may be called at any time, also by a handler on top of start
Stop ==
    /\ status' = "stopping"
    /\ UNCHANGED <<delivered, losses, failed>>

StopReturns ==
    /\ status = "stopping"
    /\ status' = "off"
    /\ UNCHANGED <<delivered, losses, failed>>

Deliver ==
    /\ status # "off"
    /\ delivered' = delivered + 1
    /\ UNCHANGED <<status, losses, failed>>

Lose ==
    /\ status # "off"
    /\ losses' \in Nat /\ losses' > losses
    /\ UNCHANGED <<status, delivered, failed>>

Fail ==
    /\ status # "off"
    /\ failed' = TRUE
    /\ UNCHANGED <<status, delivered, losses>>

Next ==
    Start \/ StartReturns \/ CheckHealth \/ Stop \/ StopReturns \/ Deliver \/ Lose \/ Fail

Spec == Init /\ [][Next]_vars
=============================================================================
