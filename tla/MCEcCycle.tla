----------------------------- MODULE MCEcCycle -----------------------------
(* Instances of EcCycle for TLC: the numbers of slaves stand in the cfgs.  *)
EXTENDS EcCycle
=============================================================================
