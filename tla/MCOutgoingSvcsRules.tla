------------------------ MODULE MCOutgoingSvcsRules ------------------------
(***************************************************************************)
(* OutgoingSvcsRules for TLC: the service bindings of two VRFs and the     *)
(* source address rules of one of them, at most IdBound rules at a time    *)
(* and ForeignBound rules of others in a chain.                            *)
(***************************************************************************)
EXTENDS OutgoingSvcsRules

CONSTANTS out1, out2, snat1, vrf1, vrf2, tcp, IdBound, ForeignBound

MCVrfOf == (out1 :> vrf1) @@ (out2 :> vrf2) @@ (snat1 :> vrf1)

AllModes ==
  {{"insert", "setup"}, {"insert", "delete", "show"}, {"setup", "vrf", "teardown"},
   {"update", "insert"}}

ForeignIn(ch) == Cardinality({k \in DOMAIN ch : ch[k] = Foreign})

(* The protocol is told apart only by updates, which are looked at in the  *)
(* chain out1; where deletes fail or VRFs go away, which puts the cache    *)
(* out of step, two rules are enough and others' rules are left out.       *)
OutOfStep == modes \cap {"delete", "show", "vrf"} # {}

InBounds ==
  /\ LET bound == IF OutOfStep THEN IdBound - 1 ELSE IdBound
     IN  /\ \A i \in rule_ids' : i <= bound
         /\ \A c \in Chains : Len(chain'[c]) <= bound
  /\ \A c \in Chains : ForeignIn(chain'[c]) <= ForeignBound
  /\ OutOfStep \/ "update" \in modes => ForeignIn(chain'[out1] \o chain'[out2]) = 0
  /\ modes \cap {"update", "delete"} # {} => netns' \subseteq {vrf1}
  /\ "update" \in modes => Len(lists'[snat1].rules) = 0
  /\ "update" \notin modes =>
       \A c \in Chains : \A r \in Range(lists'[c].rules) : r.key[2] = tcp

MCNext == Next /\ InBounds

MCSpec == Init /\ [][MCNext]_vars

Symmetry == Permutations(Dsts)
=============================================================================
