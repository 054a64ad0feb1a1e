----------------------------- MODULE MCWanChoice -----------------------------
\* Two modems whose profiles ask for one of a few interfaces.
EXTENDS WanChoice
==============================================================================
