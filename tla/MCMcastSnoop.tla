---------------------------- MODULE MCMcastSnoop ----------------------------
(* Values of the constants of McastSnoop for TLC.                          *)
EXTENDS McastSnoop

CONSTANTS v1, g1, p1

OnePort == {p1}
(* A request may name a port twice.                                        *)
Lists == {<<p1>>, <<p1, p1>>}
=============================================================================
