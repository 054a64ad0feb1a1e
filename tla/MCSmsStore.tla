------------------------------ MODULE MCSmsStore ------------------------------
\* One SIM, one modem memory and a script that deletes.
EXTENDS SmsStore
===============================================================================
