--------------------------- MODULE MCIdGenerator ---------------------------
(***************************************************************************)
(* IdGenerator for TLC: a range of five ids, which runs out, and requests  *)
(* for ids just outside of it.                                             *)
(***************************************************************************)
EXTENDS IdGenerator
=============================================================================
