---------------------------- MODULE MCConnMonitor ----------------------------
\* The connection monitor with the constants of its configuration files.
EXTENDS ConnMonitor
===============================================================================
