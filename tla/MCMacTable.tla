----------------------------- MODULE MCMacTable -----------------------------
(***************************************************************************)
(* MacTable for TLC: an entry and the ports it moves between.              *)
(***************************************************************************)
EXTENDS MacTable

TwoPorts == {1, 2}
=============================================================================
