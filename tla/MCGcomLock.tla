------------------------------ MODULE MCGcomLock ------------------------------
\* gcom-locked with three processes, all on one modem or on two.
EXTENDS GcomLock, TLC

CONSTANTS c1, c2, c3, m1, m2

MCPort == (c1 :> m1) @@ (c2 :> m1) @@ (c3 :> m1)
MCPortTwo == (c1 :> m1) @@ (c2 :> m1) @@ (c3 :> m2)
===============================================================================
