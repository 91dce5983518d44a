------------------------------ MODULE MCIpv6Dad ------------------------------
(***************************************************************************)
(* Ipv6Dad for TLC: an address of the user and a link-local one.           *)
(***************************************************************************)
EXTENDS Ipv6Dad

AllModes == {{}, {"again"}, {"fail"}, {"raise"}}
=============================================================================
