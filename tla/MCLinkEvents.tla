---------------------------- MODULE MCLinkEvents ----------------------------
(***************************************************************************)
(* LinkEvents for TLC: scenarios with a few links each.                    *)
(***************************************************************************)
EXTENDS LinkEvents

Scenario(kinds, parents, boot, activities, flapping) ==
  [kind |-> kinds, parent |-> parents, boot |-> boot, activities |-> activities,
   flapping |-> flapping, garbage |-> {0, Len(kinds)},
   bond_dummy |-> {l \in DOMAIN kinds : kinds[l] = "dummy"}]

NoParents(kinds) == [l \in DOMAIN kinds |-> 0]
NoLinks(kinds) == [l \in DOMAIN kinds |-> [st |-> "none", up |-> FALSE, master |-> 0]]

FromNothing(kinds, activities, flapping) ==
  Scenario(kinds, NoParents(kinds), NoLinks(kinds), activities, flapping)

(* A port with a vlan link on it, two bridges. *)
Bridges ==
  LET kinds == <<"tun", "vlan", "bridge", "bridge">>
  IN  Scenario(kinds, <<0, 1, 0, 0>>, NoLinks(kinds), {}, {1})

(* A port that moves between two bonds, a bridge for the bonds. *)
Bonds == FromNothing(<<"tun", "bond", "bond", "bridge">>, {}, {1})

(* A port, a bond and its dummy, the management port. *)
Mixed == FromNothing(<<"tun", "bond", "dummy", "eth">>, {}, {1, 4})

(* CPS requests that query links, that add ports to a bond and remove them. *)
Gets == FromNothing(<<"tun", "bridge">>, {"get"}, {1})
BondGets == FromNothing(<<"tun", "bond">>, {"get"}, {})
VlanGets ==
  LET kinds == <<"tun", "vlan", "bridge">>
  IN  Scenario(kinds, <<0, 1, 0>>, NoLinks(kinds), {"get"}, {})
Lags == FromNothing(<<"tun", "bond">>, {"lag", "fail"}, {1})

(* nas-linux restarts while a port is a member of a bridge. *)
MemberAtBoot ==
  Scenario(<<"tun", "bridge">>, <<0, 0>>,
           <<[st |-> "live", up |-> TRUE, master |-> 2], [st |-> "live", up |-> TRUE, master |-> 0]>>,
           {}, {1})

LinkScenarios == {Bridges, Bonds, Mixed, Gets, BondGets, VlanGets, Lags}
RestartScenarios == {MemberAtBoot}
=============================================================================
