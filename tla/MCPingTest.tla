------------------------------ MODULE MCPingTest ------------------------------
\* The 3 and 9 looks of the script.
EXTENDS PingTest, TLC

ScriptTries == (1 :> 3) @@ (2 :> 9)
===============================================================================
