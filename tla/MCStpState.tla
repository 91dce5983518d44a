----------------------------- MODULE MCStpState -----------------------------
(***************************************************************************)
(* StpState for TLC: two ports, two states and one that is neither.        *)
(***************************************************************************)
EXTENDS StpState

TwoPorts == {1, 2}
ThreeStates == {"disabled", "blocking", "forwarding"}
=============================================================================
