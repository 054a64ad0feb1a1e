------------------------------- MODULE MCCwmp -------------------------------
(***************************************************************************)
(* Instances of Cwmp for TLC; the cfg files fix every constant.            *)
(***************************************************************************)
EXTENDS Cwmp

=============================================================================
