---------------------------- MODULE MCSessionAnomaly ----------------------------
(* Instances of SessionAnomaly for TLC. *)
EXTENDS SessionAnomaly
================================================================================
