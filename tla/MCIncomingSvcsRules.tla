------------------------ MODULE MCIncomingSvcsRules ------------------------
(***************************************************************************)
(* IncomingSvcsRules for TLC: two chains, of the default VRF and of vrf1,  *)
(* ids up to IdBound, which also bounds the length of the lists, and at    *)
(* most ChainBound rules in a kernel chain, and at most VrfListBound rules *)
(* in the list of vrf1, whose rules are not negated; at most one chain is  *)
(* marred.                                                                 *)
(***************************************************************************)
EXTENDS IncomingSvcsRules

CONSTANTS default_chain, vrf_chain, vrf1, IdBound, ChainBound, VrfListBound

MCVrfOf == (default_chain :> None) @@ (vrf_chain :> vrf1)

InsertsOrAllFail == {{"insert"}, {"insert", "delete", "show"}}

(* Where everything may fail two kinds of rules suffice, a chain of two,   *)
(* and one rule of vrf1.                                                   *)
SmallLists ==
  /\ \A c \in Chains : Len(chain'[c]) < ChainBound
  /\ Len(lists'[vrf_chain].rules) < VrfListBound
  /\ LET rules == UNION {Range(lists'[c].rules) : c \in Chains}
     IN  /\ \A r \in rules : ~r.neg
         /\ Cardinality({r.key : r \in rules}) <= 2

MCNext ==
  /\ Next
  /\ \A i \in resved_ids' : i <= IdBound
  /\ \A c \in Chains : Len(chain'[c]) <= ChainBound
  /\ Len(lists'[vrf_chain].rules) <= VrfListBound
  /\ \A r \in Range(lists'[vrf_chain].rules) : ~r.neg
  /\ Cardinality(marred') <= 1
  /\ "delete" \in may_fail => SmallLists

MCSpec == Init /\ [][MCNext]_vars

Symmetry == Permutations(Threads) \cup Permutations(Keys)
=============================================================================
