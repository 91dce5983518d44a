------------------------------ MODULE MCVrfIntf ------------------------------
(***************************************************************************)
(* VrfIntf for TLC: two interfaces, two VRFs with macvlan links and the    *)
(* management VRF.                                                         *)
(***************************************************************************)
EXTENDS VrfIntf, Functions, TLC

CONSTANT MaxDrop

AllModes ==
  {{}, {"fail"}, {"again"}, {"wrong"}, {"absent"}, {"early"},
   {"fail", "again", "wrong", "absent", "early"}}

(* DROP rules are never deleted: MaxDrop of them, whichever they are. *)
InBounds == SumFunction(drop') <= MaxDrop

MCSpec == Init /\ [][Next /\ InBounds]_vars

Symmetry == Permutations(Ifs) \cup Permutations(Data)
=============================================================================
