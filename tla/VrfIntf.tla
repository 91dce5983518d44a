------------------------------- MODULE VrfIntf -------------------------------
(***************************************************************************)
(* Interfaces of VRFs (set_vrf_intf_cb of scripts/bin/base_vrf.py and      *)
(* process_vrf_intf_config of scripts/lib/python/dn_base_vrf_tool.py).  An *)
(* interface is bound to a VRF by a macvlan link v-<name> on it, which is  *)
(* made in the default namespace and moved to that of the VRF; the         *)
(* management VRF gets the interface itself.  A request runs its commands  *)
(* one after the other under _vrf_mutex and returns at the first one that  *)
(* fails, without undoing the others.                                      *)
(***************************************************************************)
EXTENDS Integers, FiniteSets

CONSTANTS
  Ifs,      \* interfaces
  Data,     \* VRFs that get macvlan links
  Mgmt,     \* the management VRF
  Default,  \* the default VRF
  Modes,    \* what may happen in a behaviour, see modes
  None

Vrfs == Data \cup {Mgmt}

ASSUME NamesAssumption == Mgmt \notin Data /\ Default \notin Vrfs /\ None \notin Vrfs \cup {Default}
ASSUME IntfModesAssumption == Modes \subseteq SUBSET {"fail", "again", "wrong", "absent", "early"}

VARIABLES
  modes,     \* "fail": commands fail; "again": a bind of an interface that is bound;
             \* "wrong": an unbind from another VRF; "absent": a bind to a VRF that does
             \* not exist; "early": a VRF is deleted while it has interfaces
  netns,     \* the VRFs that exist
  at,        \* where an interface is: Default or, moved, Mgmt
  macvlan,   \* <<interface, namespace>>: the link v-<interface> is there
  ipv6_off,  \* interfaces on which IPv6 is disabled
  drop,      \* <<VRF, interface>> -> its DROP rules in OUTPUT
  masq,      \* <<VRF, interface>> -> its MASQUERADE rules in POSTROUTING
  bound      \* what the requester was told: interface -> VRF or None

kernel == <<at, macvlan, ipv6_off, drop, masq>>
vars == <<modes, netns, kernel, bound>>

Places == Vrfs \X Ifs

Init ==
  /\ modes \in Modes
  /\ netns = {}
  /\ at = [i \in Ifs |-> Default]
  /\ macvlan = {} /\ ipv6_off = {}
  /\ drop = [x \in Places |-> 0] /\ masq = [x \in Places |-> 0]
  /\ bound = [i \in Ifs |-> None]

(* A request's commands lead from one of these records to the next.        *)
Now == [at |-> at, macvlan |-> macvlan, off |-> ipv6_off, drop |-> drop, masq |-> masq]

Becomes(s) ==
  /\ at' = s.at /\ macvlan' = s.macvlan /\ ipv6_off' = s.off
  /\ drop' = s.drop /\ masq' = s.masq

(* The command that comes next may fail. *)
Stops(s) == {t \in {s} : "fail" \in modes}

Outcome(s, ok) == [s |-> s, ok |-> ok]

Outcomes(done, failed) ==
  {Outcome(s, TRUE) : s \in done} \cup {Outcome(s, FALSE) : s \in failed}
-----------------------------------------------------------------------------
(* The rules that every bind ends with; that the MASQUERADE rule cannot be *)
(* added is ignored.                                                       *)
Dropping(s, i, v) == [s EXCEPT !.drop[<<v, i>>] = @ + 1]

Masquerading(s, i, v) == [s EXCEPT !.masq[<<v, i>>] = @ + 1]

RulesAdded(s, i, v) ==
  LET d == Dropping(s, i, v)
  IN  Outcomes({Masquerading(d, i, v)} \cup Stops(d), Stops(s))

(* Mutant: the link is left in the default namespace. *)
NotMoved(s, i, v) == s

Moved(s, i, v) == [s EXCEPT !.macvlan = (@ \ {<<i, Default>>}) \cup {<<i, v>>}]

(* Mutant: IPv6 stays on. *)
Ipv6Kept(s, i) == s

Ipv6Disabled(s, i) == [s EXCEPT !.off = @ \cup {i}]

(* The link is made in the default namespace, where its name must be free, *)
(* and moved, which fails if the VRF does not exist or has such a link;    *)
(* then IPv6 is disabled on the interface under it.                        *)
BindData(s, i, v) ==
  LET made == [s EXCEPT !.macvlan = @ \cup {<<i, Default>>}]
      moved == Moved(made, i, v)
  IN  IF s.at[i] # Default \/ <<i, Default>> \in s.macvlan
        THEN Outcomes({}, {s})
      ELSE IF v \notin netns \/ <<i, v>> \in s.macvlan
        THEN Outcomes({}, {made} \cup Stops(s))
        ELSE RulesAdded(Ipv6Disabled(moved, i), i, v)
             \cup Outcomes({}, Stops(s) \cup Stops(made) \cup Stops(moved))

(* The interface itself is moved. *)
BindMgmt(s, i) ==
  IF s.at[i] # Default \/ Mgmt \notin netns
    THEN Outcomes({}, {s})
    ELSE RulesAdded([s EXCEPT !.at[i] = Mgmt], i, Mgmt) \cup Outcomes({}, Stops(s))

BindOutcomes(i, v) == IF v = Mgmt THEN BindMgmt(Now, i) ELSE BindData(Now, i, v)

(* Mutant: the MASQUERADE rule stays. *)
MasqueradeKept(s, i, v) == Outcomes({s}, {})

(* That the MASQUERADE rule cannot be deleted is ignored; the DROP rule is *)
(* not deleted.                                                            *)
MasqueradeRemoved(s, i, v) ==
  LET n == s.masq[<<v, i>>]
  IN  Outcomes({[s EXCEPT !.masq[<<v, i>>] = IF n > 0 THEN n - 1 ELSE n]} \cup Stops(s), {})

(* Mutant: the link is deleted before IPv6 is enabled. *)
UnbindLinkFirst(s, i, v) ==
  LET gone == [s EXCEPT !.macvlan = @ \ {<<i, v>>}]
      on == [gone EXCEPT !.off = @ \ {i}]
  IN  IF s.at[i] # Default \/ <<i, v>> \notin s.macvlan
        THEN Outcomes({}, {s})
        ELSE MasqueradeRemoved(on, i, v) \cup Outcomes({}, Stops(s) \cup Stops(gone))

(* IPv6 is enabled again before the link is deleted. *)
UnbindData(s, i, v) ==
  LET on == [s EXCEPT !.off = @ \ {i}]
      gone == [on EXCEPT !.macvlan = @ \ {<<i, v>>}]
  IN  IF s.at[i] # Default
        THEN Outcomes({}, {s})
      ELSE IF <<i, v>> \notin s.macvlan
        THEN Outcomes({}, {on} \cup Stops(s))
        ELSE MasqueradeRemoved(gone, i, v) \cup Outcomes({}, Stops(s) \cup Stops(on))

UnbindMgmt(s, i) ==
  LET back == [s EXCEPT !.at[i] = Default]
  IN  IF s.at[i] # Mgmt
        THEN Outcomes({}, {s})
        ELSE MasqueradeRemoved(back, i, Mgmt) \cup Outcomes({}, Stops(s) \cup Stops(back))

UnbindOutcomes(i, v) == IF v = Mgmt THEN UnbindMgmt(Now, i) ELSE UnbindData(Now, i, v)
-----------------------------------------------------------------------------
(* set_vrf_intf_cb.  A request that names the default VRF changes nothing. *)
Bind(i, v) ==
  /\ bound[i] # None => "again" \in modes
  /\ v \notin netns => "absent" \in modes
  /\ \E o \in BindOutcomes(i, v) :
       Becomes(o.s) /\ bound' = IF o.ok THEN [bound EXCEPT ![i] = v] ELSE bound
  /\ UNCHANGED netns

Unbind(i, v) ==
  /\ bound[i] # v => "wrong" \in modes
  /\ \E o \in UnbindOutcomes(i, v) :
       Becomes(o.s) /\ bound' = IF o.ok /\ bound[i] = v THEN [bound EXCEPT ![i] = None] ELSE bound
  /\ UNCHANGED netns

CreateVrf(v) ==
  /\ v \notin netns
  /\ netns' = netns \cup {v}
  /\ UNCHANGED <<kernel, bound>>

(* With a namespace its links and rules go; an interface that was moved    *)
(* there comes back.                                                       *)
DeleteVrf(v) ==
  /\ v \in netns
  /\ (\E i \in Ifs : bound[i] = v) => "early" \in modes
  /\ netns' = netns \ {v}
  /\ macvlan' = {x \in macvlan : x[2] # v}
  /\ at' = [i \in Ifs |-> IF at[i] = v THEN Default ELSE at[i]]
  /\ drop' = [x \in Places |-> IF x[1] = v THEN 0 ELSE drop[x]]
  /\ masq' = [x \in Places |-> IF x[1] = v THEN 0 ELSE masq[x]]
  /\ bound' = [i \in Ifs |-> IF bound[i] = v THEN None ELSE bound[i]]
  /\ UNCHANGED ipv6_off

Request ==
  \/ \E i \in Ifs, v \in Vrfs : Bind(i, v) \/ Unbind(i, v)
  \/ \E v \in Vrfs : CreateVrf(v) \/ DeleteVrf(v)

Next == Request /\ UNCHANGED modes

Spec == Init /\ [][Next]_vars
-----------------------------------------------------------------------------
(* The state has its shape, and where there are links there are namespaces *)
TypeOK ==
  /\ netns \subseteq Vrfs
  /\ at \in [Ifs -> {Default, Mgmt}] /\ \A i \in Ifs : at[i] \in netns \cup {Default}
  /\ macvlan \subseteq Ifs \X (Data \cup {Default}) /\ \A x \in macvlan : x[2] \in netns \cup {Default}
  /\ ipv6_off \subseteq Ifs
  /\ drop \in [Places -> Nat] /\ masq \in [Places -> Nat]
  /\ bound \in [Ifs -> Vrfs \cup {None}]

Carrier(i) == {v \in Data : <<i, v>> \in macvlan} \cup ({at[i]} \ {Default})

(* An interface is in the VRF that the requester was told, and in no other *)
(* one.  (A bind that fails after the link was moved leaves it there, and  *)
(* the next one goes to another VRF.)                                      *)
InPlace == \A i \in Ifs : Carrier(i) = {bound[i]} \ {None}

(* Binding is possible again: no link is left over in the default          *)
(* namespace, where its name is in the way of every later bind.            *)
Rebindable == \A i \in Ifs : <<i, Default>> \notin macvlan

(* Both hold unless commands fail or interfaces are bound twice, the       *)
(* latter only if VRFs are created before interfaces are bound to them.    *)
InPlaceUnlessPartial ==
  \/ modes \cap {"fail", "again"} # {}
  \/ InPlace /\ ("absent" \in modes \/ Rebindable)

(* What the requester was told was bound to a VRF by a link has that link, *)
(* whatever fails and whatever is asked for: a request that fails never    *)
(* takes a link away, so that it can be repeated.  (That is not so of the  *)
(* management VRF: an unbind that fails at its last command has moved the  *)
(* interface, and every repetition fails at the first.)                    *)
BoundHasLink == \A i \in Ifs : bound[i] \in Data => <<i, bound[i]>> \in macvlan

(* Beside that, the kernel's tables and the binding keep their types: what *)
(* is in a namespace goes with it when the VRF is deleted.                 *)
WellFormed == TypeOK /\ BoundHasLink

(* IPv6 is disabled on exactly the interfaces that have a link in a VRF,   *)
(* so that an address is not answered for in two VRFs, where the requests  *)
(* fit and no command fails.                                               *)
Ipv6Separated == ipv6_off = {i \in Ifs : \E v \in Data : <<i, v>> \in macvlan}

Ipv6SeparatedUnlessMisused == modes \cap {"fail", "again", "wrong", "early"} # {} \/ Ipv6Separated

(* Rules of an interface: one MASQUERADE rule while it is in the VRF, none *)
(* otherwise, and a DROP rule at least while it is there.                  *)
RulesInPlace ==
  \A x \in Places :
    LET there == x[1] \in Carrier(x[2])
    IN  /\ masq[x] = IF there THEN 1 ELSE 0
        /\ there => drop[x] > 0

RulesInPlaceUnlessFail == "fail" \in modes \/ RulesInPlace
=============================================================================
