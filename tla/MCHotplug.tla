------------------------------- MODULE MCHotplug -------------------------------
\* The hotplug handlers with few USB ports.
EXTENDS Hotplug, TLC

CONSTANTS d1, d2, d3, d4, d5, d6

OneModem == d1 :> "wdm"
TwoModems == (d1 :> "wdm") @@ (d2 :> "net")
AllKinds == (d1 :> "wdm") @@ (d2 :> "camera") @@ (d3 :> "hub") @@ (d4 :> "storage")
              @@ (d5 :> "other") @@ (d6 :> "printer")
===============================================================================
