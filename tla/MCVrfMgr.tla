------------------------------ MODULE MCVrfMgr ------------------------------
(***************************************************************************)
(* VrfMgr for TLC: two VRFs and two subnets, so that a third pair finds    *)
(* none free.                                                              *)
(***************************************************************************)
EXTENDS VrfMgr

CONSTANTS v1, v2, a1, MaxLeaks, MaxNat

AllModes ==
  {{"fail", "vrf", "leak"}, {"fail", "vrf", "rule"}, {"fail", "vrf", "addr"},
   {"raise", "vrf", "addr"}, {"raise", "leak"},
   {"vrf", "late", "leak"}, {"vrf", "leak", "src"}, {"vrf", "again", "rule"},
   {"vrf", "race", "addr"}, {"leak", "addr"}, {"addr"}, {"race", "addr"}}

(* v2 is the management VRF.  In v1 the address a1 is on a macvlan         *)
(* interface, any other one on the loopback.                               *)
V1Macvlan == {<<v1, a1>>}

(* Where nothing but addresses is looked at, all of both VRFs come and go; *)
(* elsewhere only that one.                                                *)
Changing == IF modes \subseteq {"race", "addr"} THEN Vrfs \X Addrs ELSE V1Macvlan

(* One leaked route waits while another one is dealt with; v1 is one of    *)
(* its VRFs, the one that gets it where commands fail, and the other one   *)
(* is the default VRF where addresses change.  Where there are leaked      *)
(* routes, v2 is there first and only v1 is deleted.  v2 has no source     *)
(* address.  Where rules are looked at there are no pairs, and with        *)
(* failures at most one rule of a user; elsewhere default rules do not     *)
(* fail.                                                                   *)
InBounds ==
  /\ Len(leak_events') <= MaxLeaks
  /\ \A k \in DOMAIN leak_events' :
       LET e == leak_events'[k]
       IN  /\ v1 \in {e.vrf, e.src}
           /\ CanFail => e.vrf = v1
           /\ "addr" \in modes => Default \in {e.vrf, e.src}
  /\ \A x \in src_ip_map' : x[1] # v2
  /\ "leak" \in modes => op'.vrf # v2 /\ (netns' # {} => v2 \in netns')
  /\ \A k \in DOMAIN ip_events' : ip_events'[k].at \in Changing
  /\ "leak" \in modes => Len(ip_events') <= MaxLeaks
  /\ "rule" \in modes => op'.kind # "setup"
  /\ "rule" \notin modes =>
       /\ \A v \in DOMAIN default_rule' : default_rule'[v] # {}
       /\ \A i \in DOMAIN cache' : cache'[i][1] \in DOMAIN default_rule'
  /\ CanFail => Cardinality({i \in DOMAIN cache' : cache'[i][2] = "user"}) <= 1
  /\ \A x \in DOMAIN nat' : nat'[x] <= MaxNat

MCSpec == Init /\ [][Next /\ InBounds]_vars /\ Fairness
=============================================================================
