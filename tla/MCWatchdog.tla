------------------------------ MODULE MCWatchdog ------------------------------
\* A modem create_connect.sh dials with one that netifd dials, or two without a
\* comm port.
EXTENDS Watchdog, TLC

MCOutfits == {(1 :> "script") @@ (2 :> "netifd"), [m \in {1, 2} |-> "noport"]}
===============================================================================
