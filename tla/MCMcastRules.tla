---------------------------- MODULE MCMcastRules ----------------------------
(* Values of the constants of McastRules for TLC.                          *)
EXTENDS McastRules

CONSTANTS v1
=============================================================================
