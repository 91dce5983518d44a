------------------------------- MODULE VrfMgr -------------------------------
(***************************************************************************)
(* The VRF manager (scripts/bin/base_vrf.py and                            *)
(* scripts/lib/python/dn_base_vrf_tool.py): network namespaces, the veth   *)
(* pairs that are set up between two VRFs the first time a service or a    *)
(* leaked route needs them, the source addresses on those pairs, the       *)
(* default rules of every VRF, leaked routes and the nat rule of every     *)
(* address of a VRF that has services.                                     *)
(*                                                                         *)
(* Three threads: CPS callbacks and the thread of leaked routes use the    *)
(* maps under _vrf_mutex (op is what its holder is doing); the thread of   *)
(* address events only takes _vrf_ipsvcs_mutex, and so runs between the    *)
(* steps of a setup.  A leaked route is programmed after the mutex is      *)
(* released.                                                               *)
(***************************************************************************)
EXTENDS Integers, FiniteSets, Sequences

CONSTANTS
  Vrfs,      \* the VRFs other than the default one
  Default,   \* the default VRF
  Vals,      \* _start_vrf_sub_net_val .. _end_vrf_sub_net_val - 1
  Addrs,     \* addresses of interfaces in a VRF
  Mgmt,      \* the management VRF, which gets interfaces as they are
  OnMacvlan, \* <<VRF, address>> on the macvlan interfaces other VRFs get;
             \* what is not there is on the loopback, say
  SrcIps,    \* source addresses for the pairs of a VRF
  Prefixes,  \* prefixes of leaked routes
  MaxQueue,  \* how many events may wait for a thread
  MaxRules,  \* how many rules the cache of incoming rules may have
  Modes,     \* what may happen in a behaviour, see modes
  None

Names == Vrfs \cup {Default}

ASSUME DefaultAssumption == Default \notin Vrfs
ASSUME ValsAssumption == Vals \subseteq Nat
ASSUME MacvlanAssumption == OnMacvlan \subseteq Vrfs \X Addrs
ASSUME BoundsAssumption == MaxQueue \in Nat /\ MaxRules \in Nat
ASSUME VrfModesAssumption ==
  Modes \subseteq SUBSET {"fail", "raise", "vrf", "again", "late", "race",
                          "addr", "leak", "src", "rule"}

VARIABLES
  modes,        \* "fail": commands fail; "raise": they raise exceptions too; "vrf":
                \* VRFs are deleted; "again": a create of a VRF that exists; "late":
                \* leaked routes of VRFs that do not exist; "race": address events
                \* while the other threads work; the rest: which inputs there are
  netns,        \* the namespaces of VRFs in the kernel
  known,        \* _vrf_name_to_id
  default_rule, \* _vrf_default_rule: name -> the ids of its default rules
  cache,        \* the cache of incoming rules: id -> <<VRF, "default" or "user">>
  taken,        \* names whose default rule went in another way than with the VRF
  sub_net_map,  \* _vrf_sub_net_map: <<VRF, VRF>> -> subnet
  veth,         \* the pairs in the kernel: {VRF, VRF} -> <<first VRF, subnet>>
  src_ip_map,   \* _vrf_src_ip_map: <<VRF, address>>
  veth_ip,      \* <<VRF, other VRF, address>>: source addresses on the pairs' ends
  op,           \* what the holder of _vrf_mutex is doing
  ipsvcs_lost,  \* _vrf_ipsvcs_mutex is held by nobody who would release it
  leak,         \* what the thread of leaked routes does after that
  leak_events, routes,    \* leaked routes: <<VRF, prefix>> -> [src, via, hop]
  addr, ip_events,        \* addresses in the kernel and their events
  ip_addr_map,  \* _vrf_ip_service_ip_addr: <<VRF, address>> with a nat rule
  nat,          \* the nat rules in the kernel: <<VRF, address>> -> how many
  missed        \* addresses that a setup has not listed, until an event comes

rules == <<default_rule, cache, taken>>
maps == <<known, rules, sub_net_map, src_ip_map>>
pairs == <<veth, veth_ip>>
leaks == <<leak, leak_events, routes>>
ips == <<addr, ip_events, ip_addr_map, nat, missed, ipsvcs_lost>>
vars == <<modes, netns, maps, pairs, op, leaks, ips>>

NoOp == [by |-> None, kind |-> "none", vrf |-> None, key |-> <<None, None>>,
         step |-> "none", listed |-> {}]
NoLeak == [ev |-> None, hop |-> None, runs |-> TRUE]
Dead == [NoOp EXCEPT !.kind = "dead"]
NoThread == [NoLeak EXCEPT !.runs = FALSE]

Empty == [x \in {} |-> None]

Init ==
  /\ modes \in Modes
  /\ netns = {} /\ known = {}
  /\ default_rule = Empty /\ cache = Empty /\ taken = {}
  /\ sub_net_map = Empty /\ veth = Empty
  /\ src_ip_map = {} /\ veth_ip = {}
  /\ op = NoOp /\ ipsvcs_lost = FALSE
  /\ leak = NoLeak /\ leak_events = <<>> /\ routes = Empty
  /\ addr = {} /\ ip_events = <<>> /\ ip_addr_map = {}
  /\ nat = [x \in Vrfs \X Addrs |-> 0] /\ missed = {}

CanFail == modes \cap {"fail", "raise"} # {}

(* A command that cannot be started raises an exception.  The callbacks of *)
(* services catch it; the handler of set_vrf_cb_int raises another one and *)
(* the thread of leaked routes has none: _vrf_mutex stays taken.           *)
RaisedIn(o) ==
  {p \in {IF o.kind = "setup" /\ o.by = "cps" THEN NoOp ELSE Dead} : "raise" \in modes}

(* A map with one more key, or with fewer keys.                            *)
With(f, key, val) ==
  [k \in DOMAIN f \cup {key} |-> IF k \in DOMAIN f THEN f[k] ELSE val]

Keep(f, keys) == [k \in DOMAIN f \cap keys |-> f[k]]

Drop(f, keys) == [k \in DOMAIN f \ keys |-> f[k]]
-----------------------------------------------------------------------------
(* Mutant: ids are counted. *)
CountId(c) == Cardinality(DOMAIN c) + 1

(* The cache of incoming rules, as far as its ids matter here: the lowest  *)
(* free id, deletes by id and by VRF.                                      *)
FreeId(c) == CHOOSE i \in 1 .. (Cardinality(DOMAIN c) + 1) :
               i \notin DOMAIN c /\ \A j \in 1 .. (i - 1) : j \in DOMAIN c

RulesOf(c, v) == {i \in DOMAIN c : c[i][1] = v}

(* The names whose default rules are among the rules ids.                  *)
OwnersOf(ids) ==
  {v \in Names : \E i \in ids \cap DOMAIN cache : cache[i] = <<v, "default">>}

(* config_incoming_ip_svcs_int adds a rule with the id that is asked for,  *)
(* or the lowest one, and deletes any rule by its id or by what it         *)
(* matches, a default rule too.  ("set" keeps a rule's id and VRF, or, if  *)
(* iptables refuses the new rule and the old one, is a delete.)            *)
AddRule(v) ==
  /\ "rule" \in modes /\ op = NoOp
  /\ v \in netns \cup {Default}
  /\ \E i \in (1 .. MaxRules) \ DOMAIN cache : cache' = With(cache, i, <<v, "user">>)
  /\ UNCHANGED <<netns, known, default_rule, taken, sub_net_map, src_ip_map, pairs, op,
                 leaks, ips>>

DelRule(i) ==
  /\ "rule" \in modes /\ op = NoOp
  /\ i \in DOMAIN cache
  /\ cache' = Drop(cache, {i})
  /\ taken' = taken \cup OwnersOf({i})
  /\ UNCHANGED <<netns, known, default_rule, sub_net_map, src_ip_map, pairs, op, leaks, ips>>

(* create_vrf_default_rules for a name that has no list: [map, cache].     *)
(* The list stays empty if the rule cannot be made.                        *)
WithDefaultRule(s, v, made) ==
  IF v \in DOMAIN s.map THEN s
  ELSE IF v \notin made THEN [map |-> With(s.map, v, {}), cache |-> s.cache]
  ELSE LET i == FreeId(s.cache)
       IN  [map |-> With(s.map, v, {i}), cache |-> With(s.cache, i, <<v, "default">>)]

(* It cannot if a command fails, or if there is an equal rule, which is    *)
(* one of a default rule that could not be deleted or one of a user.       *)
MayMake(c, v, made) ==
  /\ v \in made => \A i \in RulesOf(c, v) : c[i][2] = "user"
  /\ v \notin made => CanFail \/ RulesOf(c, v) # {}
-----------------------------------------------------------------------------
(* set_vrf_cb creates a VRF: the incoming rules of that name are cleared,  *)
(* then the namespace is made, and with the first one the link to the      *)
(* default namespace, then the default rules.                              *)
VrfCreate(v) ==
  /\ op = NoOp
  /\ v \notin netns
  /\ netns' = netns \cup {v}
  /\ known' = known \cup {v} \cup (IF known = {} THEN {Default} ELSE {})
  /\ \E made \in SUBSET {v, Default} :
       LET cleared == [map |-> default_rule, cache |-> Drop(cache, RulesOf(cache, v))]
           s == WithDefaultRule(WithDefaultRule(cleared, v, made), Default, made)
       IN  /\ \A w \in {v, Default} : MayMake(cleared.cache, w, made)
           /\ default_rule' = s.map /\ cache' = s.cache
  /\ UNCHANGED <<taken, sub_net_map, src_ip_map, pairs, op, leaks, ips>>

(* A create that fails: the namespace exists already, or some command      *)
(* fails on the way, which undoes nothing.                                 *)
VrfCreateFails(v) ==
  /\ op = NoOp
  /\ v \in netns => "again" \in modes
  /\ cache' = Drop(cache, RulesOf(cache, v))
  /\ taken' = taken \cup OwnersOf(RulesOf(cache, v))
  /\ \/ v \in netns /\ UNCHANGED <<netns, known, op>>
     \/ /\ v \notin netns /\ CanFail
        /\ op' \in {NoOp} \cup RaisedIn(NoOp)
        /\ \/ UNCHANGED <<netns, known>>
           \/ /\ netns' = netns \cup {v}
              /\ known' \in {known, known \cup {v} \cup (IF known = {} THEN {Default} ELSE {})}
  /\ UNCHANGED <<default_rule, sub_net_map, src_ip_map, pairs, leaks, ips>>

(* Mutant: only the pairs that the VRF asked for. *)
KeysOfFirst(v) == {k \in DOMAIN sub_net_map : k[1] = v}

KeysOf(v) == {k \in DOMAIN sub_net_map : v \in {k[1], k[2]}}

(* The ids that are kept for the names.                                    *)
IdsOf(names) == UNION {default_rule[w] : w \in names}

(* A delete starts with the default rules, by the ids that were kept; the  *)
(* last VRF takes those of the default VRF with it.  A rule may refuse to  *)
(* go, which is ignored.  Where the default rule of a name has been taken, *)
(* its id may be that of another rule by now.                              *)
VrfDelete(v) ==
  /\ "vrf" \in modes
  /\ op = NoOp
  /\ v \in netns
  /\ "late" \in modes \/ (leak_events = <<>> /\ leak \in {NoLeak, NoThread})
  /\ LET rest == DOMAIN default_rule \ {v}
         gone == (DOMAIN default_rule \cap {v}) \cup (IF rest = {Default} THEN rest ELSE {})
     IN  /\ \E ids \in SUBSET IdsOf(gone) :
              /\ CanFail \/ ids = IdsOf(gone)
              /\ cache' = Drop(cache, ids)
              /\ taken' = (taken \cup OwnersOf(ids \cap IdsOf(gone \cap taken))) \ gone
         /\ default_rule' = Drop(default_rule, gone)
  /\ op' \in {[NoOp EXCEPT !.by = "cps", !.kind = "delete", !.vrf = v]} \cup RaisedIn(NoOp)
  /\ UNCHANGED <<netns, known, sub_net_map, src_ip_map, pairs, leaks, ips>>

(* The ids without that of v; the default VRF's goes with the last one.    *)
Forget(v) == IF v \in known /\ known \ {v} = {Default} THEN {} ELSE known \ {v}

(* Once its pairs are gone a VRF is forgotten and its namespace deleted,   *)
(* with all there is in it.                                                *)
VrfDeleteEnds ==
  LET v == op.vrf
  IN  /\ op.kind = "delete" /\ op.step = "none" /\ KeysOf(v) = {}
      /\ known' = Forget(v)
      /\ \/ /\ v \in known
            /\ op' = NoOp
            /\ netns' = netns \ {v}
            /\ veth' = Keep(veth, {p \in DOMAIN veth : v \notin p})
            /\ veth_ip' = {x \in veth_ip : v \notin {x[1], x[2]}}
            /\ routes' = Keep(routes, {x \in DOMAIN routes : v \notin {x[1], routes[x].via}})
            /\ addr' = {x \in addr : x[1] # v}
            /\ nat' = [x \in DOMAIN nat |-> IF x[1] = v THEN 0 ELSE nat[x]]
         \/ /\ v \notin known \/ CanFail
            /\ op' \in {NoOp} \cup RaisedIn(op)
            /\ UNCHANGED <<netns, pairs, routes, addr, nat>>
      /\ UNCHANGED <<rules, sub_net_map, src_ip_map, leak, leak_events,
                     ip_events, ip_addr_map, missed, ipsvcs_lost>>
-----------------------------------------------------------------------------
(* The VRF whose addresses get a nat rule with the pair key: the one that  *)
(* is paired with the default VRF.                                         *)
ServiceVrf(key) == {key[1], key[2]} \cap (IF Default \in {key[1], key[2]} THEN Vrfs ELSE {})

(* ip_svcs_iptable_rule_setup reads the addresses before it takes          *)
(* _vrf_ipsvcs_mutex, and leaves out those of interfaces that are not      *)
(* macvlan, so all of the management VRF.  To read them does not fail.     *)
Listed(key) == {x \in addr : x[1] \in ServiceVrf(key) /\ x \in OnMacvlan}

Recorded(v, w) == \/ <<v, w>> \in DOMAIN sub_net_map
                  \/ <<w, v>> \in DOMAIN sub_net_map

(* _veth_ip_get for a pair that is not recorded goes to                    *)
(* ip_svcs_subnet_setup, which needs the id of the first VRF.              *)
SetupStarts(by, v, w) ==
  /\ ~Recorded(v, w) /\ v \in known
  /\ LET o == [NoOp EXCEPT !.by = by, !.kind = "setup", !.key = <<v, w>>,
                          !.step = "install", !.listed = Listed(<<v, w>>)]
     IN  op' \in {o} \cup RaisedIn(o)

(* A service of a VRF asks for the address of its pair.                    *)
Service(v) ==
  /\ op = NoOp
  /\ SetupStarts("cps", v, Default)
  /\ UNCHANGED <<netns, maps, pairs, leaks, ips>>

(* The nat rules of the addresses todo are changed one after the other.    *)
(* The first command that fails ends the loop, and its address counts as   *)
(* marked; the caller goes on with step next.  An exception ends all, with *)
(* _vrf_ipsvcs_mutex taken.                                                *)
NatRules(todo, done, failed, next) ==
  /\ done \subseteq todo \ failed
  /\ IF failed = {} THEN done = todo ELSE CanFail /\ \E x \in todo : failed = {x}
  /\ \/ op' = [op EXCEPT !.step = next] /\ UNCHANGED ipsvcs_lost
     \/ failed # {} /\ op' \in RaisedIn(op) /\ ipsvcs_lost' = TRUE

(* An address is marked before its rule is added. *)
Install ==
  /\ ~ipsvcs_lost
  /\ op.kind = "setup" /\ op.step = "install"
  /\ LET todo == op.listed \ ip_addr_map
     IN  \E done \in SUBSET todo : \E failed \in SUBSET todo :
           /\ NatRules(todo, done, failed, "setup")
           /\ ip_addr_map' = ip_addr_map \cup done \cup failed
           /\ nat' = [x \in DOMAIN nat |-> IF x \in done THEN nat[x] + 1 ELSE nat[x]]
  /\ missed' = missed \cup {x \in addr \ op.listed : x[1] \in ServiceVrf(op.key)}
  /\ UNCHANGED <<netns, maps, pairs, leaks, addr, ip_events>>

UsedVals == {sub_net_map[k] : k \in DOMAIN sub_net_map}

(* Mutant: the lowest value, in use or not. *)
LowestVal == {n \in Vals : \A m \in Vals : n <= m}

(* The lowest value that no pair has. *)
FreeVal == {n \in Vals \ UsedVals : \A m \in Vals \ UsedVals : n <= m}

(* The address of the other end: the first VRF of a key has 1, the second  *)
(* has 2.                                                                  *)
PeerHop(v, w, map) ==
  IF <<v, w>> \in DOMAIN map THEN <<map[<<v, w>>], 2>> ELSE <<map[<<w, v>>], 1>>

(* Mutant: an early return keeps the mutex. *)
ReleaseIfOk(ok, map) ==
  /\ op' = IF ok THEN NoOp ELSE [op EXCEPT !.step = "returned"]
  /\ leak' = IF ok /\ op.by = "leak"
               THEN [leak EXCEPT !.hop = PeerHop(op.key[1], op.key[2], map)] ELSE leak

(* The holder of _vrf_mutex lets go of it; the thread of leaked routes     *)
(* goes on with the address it has got.                                    *)
Release(ok, map) ==
  /\ op' = NoOp
  /\ leak' = IF op.by # "leak" THEN leak
             ELSE IF ok THEN [leak EXCEPT !.hop = PeerHop(op.key[1], op.key[2], map)]
             ELSE NoLeak

(* A command has failed. *)
Failed ==
  \/ Release(FALSE, Empty)
  \/ op' \in RaisedIn(op) /\ leak' = IF op.by = "leak" THEN NoThread ELSE leak

SrcIpsOf(key) ==
  {x \in Names \X Names \X SrcIps :
     {x[1], x[2]} = {key[1], key[2]} /\ x[1] # x[2] /\ <<x[1], x[3]>> \in src_ip_map}

(* process_veth_config: the links, their state and their addresses, the    *)
(* first VRF's ending in 1, the second one's in 2.                         *)
WithPair(key, val) == With(veth, {key[1], key[2]}, [first |-> key[1], val |-> val])

(* The value is recorded first, then the pair is made, which fails if the  *)
(* second VRF has no id; the record stays.                                 *)
SetupPair ==
  /\ op.kind = "setup" /\ op.step = "setup"
  /\ \/ FreeVal = {} /\ Release(FALSE, Empty) /\ UNCHANGED <<sub_net_map, pairs>>
     \/ \E val \in FreeVal :
          /\ sub_net_map' = With(sub_net_map, op.key, val)
          /\ LET made == WithPair(op.key, val)
             IN  \/ /\ op.key[2] \notin known
                    /\ Release(FALSE, Empty) /\ UNCHANGED pairs
                 \/ /\ op.key[2] \in known
                    /\ veth' = made
                    /\ veth_ip' = veth_ip \cup SrcIpsOf(op.key)
                    /\ \/ Release(TRUE, sub_net_map')
                       \/ CanFail /\ op.key[2] = Default /\ Failed
                 \/ /\ op.key[2] \in known /\ CanFail
                    /\ veth' \in {veth, made}
                    /\ veth_ip' = veth_ip
                    /\ Failed
  /\ UNCHANGED <<netns, known, rules, src_ip_map, leak_events, routes, ips>>

(* A delete takes down the pairs of its VRF one by one; the first one that *)
(* fails ends it.                                                          *)
TeardownStarts(key) ==
  /\ op.kind = "delete" /\ op.step = "none"
  /\ key \in KeysOf(op.vrf)
  /\ \/ key[1] \notin known /\ op' = NoOp
     \/ /\ key[1] \in known
        /\ \/ op' = [op EXCEPT !.key = key, !.step = "uninstall", !.listed = Listed(key)]
           \/ op' \in RaisedIn(op)
  /\ UNCHANGED <<netns, maps, pairs, leaks, ips>>

Uninstall ==
  /\ ~ipsvcs_lost
  /\ op.kind = "delete" /\ op.step = "uninstall"
  /\ LET todo == op.listed \cap ip_addr_map
     IN  \E done \in SUBSET todo : \E failed \in SUBSET todo :
           /\ NatRules(todo, done, failed, "teardown")
           /\ ip_addr_map' = ip_addr_map \ (done \cup failed)
           /\ nat' = [x \in DOMAIN nat |-> IF x \in done /\ nat[x] > 0 THEN nat[x] - 1
                                                                     ELSE nat[x]]
  /\ UNCHANGED <<netns, maps, pairs, leaks, addr, ip_events, missed>>

(* The pair goes, the record after it, then the nat table of the first VRF *)
(* is flushed if the second one is the default VRF.                        *)
Teardown ==
  LET key == op.key
      ends == {key[1], key[2]}
      Gone ==
        /\ veth' = Drop(veth, {ends})
        /\ veth_ip' = {x \in veth_ip : {x[1], x[2]} # ends}
        /\ routes' = Keep(routes, {x \in DOMAIN routes : {x[1], routes[x].via} # ends})
        /\ sub_net_map' = Drop(sub_net_map, {key})
  IN  /\ op.kind = "delete" /\ op.step = "teardown"
      /\ \/ /\ ends \subseteq known /\ ends \in DOMAIN veth
            /\ Gone
            /\ nat' = [x \in DOMAIN nat |-> IF key[2] = Default /\ x[1] = key[1] THEN 0
                                                                              ELSE nat[x]]
            /\ op' = [op EXCEPT !.step = "none"]
         \/ /\ ends \subseteq known /\ ends \in DOMAIN veth /\ CanFail
            /\ key[2] = Default
            /\ Gone /\ nat' = nat /\ op' \in {NoOp} \cup RaisedIn(op)
         \/ /\ ~(ends \subseteq known) \/ ends \notin DOMAIN veth \/ CanFail
            /\ op' \in {NoOp} \cup RaisedIn(op)
            /\ UNCHANGED <<pairs, routes, sub_net_map, nat>>
      /\ UNCHANGED <<netns, known, rules, src_ip_map, leak, leak_events, addr, ip_events,
                     ip_addr_map, missed, ipsvcs_lost>>
-----------------------------------------------------------------------------
(* The ends in v of the pairs there are. *)
OnPairsOf(v, s) == {<<v, w, s>> : w \in {w \in known : Recorded(v, w) /\ {v, w} \in DOMAIN veth}}

(* process_src_ip_config keeps the address for the pairs to come and puts  *)
(* it on those there are.                                                  *)
SrcIpConfig(v, s) ==
  /\ "src" \in modes
  /\ op = NoOp
  /\ \/ /\ <<v, s>> \notin src_ip_map
        /\ src_ip_map' = src_ip_map \cup {<<v, s>>}
        /\ veth_ip' = veth_ip \cup OnPairsOf(v, s)
     \/ /\ <<v, s>> \in src_ip_map
        /\ src_ip_map' = src_ip_map \ {<<v, s>>}
        /\ veth_ip' = veth_ip \ OnPairsOf(v, s)
  /\ UNCHANGED <<netns, known, rules, sub_net_map, veth, op, leaks, ips>>
-----------------------------------------------------------------------------
(* An event asks to add or delete a route of VRF v that leads into src.    *)
PostLeak(e) ==
  /\ "leak" \in modes
  /\ Len(leak_events) < MaxQueue
  /\ "late" \in modes \/ ({e.vrf, e.src} \subseteq known /\ op.kind # "delete")
  /\ leak_events' = Append(leak_events, e)
  /\ UNCHANGED <<netns, maps, pairs, op, leak, routes, ips>>

(* handle_leaked_rt_event asks for the next hop under _vrf_mutex, for a    *)
(* delete too.                                                             *)
LeakStarts ==
  /\ op = NoOp /\ leak = NoLeak /\ leak_events # <<>>
  /\ LET e == Head(leak_events)
     IN  \/ /\ Recorded(e.vrf, e.src)
            /\ leak' = [NoLeak EXCEPT !.ev = e, !.hop = PeerHop(e.vrf, e.src, sub_net_map)]
            /\ op' = NoOp
         \/ SetupStarts("leak", e.vrf, e.src) /\ leak' = [NoLeak EXCEPT !.ev = e]
         \/ ~Recorded(e.vrf, e.src) /\ e.vrf \notin known /\ UNCHANGED <<op, leak>>
  /\ leak_events' = Tail(leak_events)
  /\ UNCHANGED <<netns, maps, pairs, routes, ips>>

(* The VRF on the other end of v's pair that has the address hop.          *)
Via(v, hop) ==
  {w \in Names : /\ {v, w} \in DOMAIN veth /\ v # w
                 /\ veth[{v, w}].val = hop[1]
                 /\ hop[2] = IF veth[{v, w}].first = w THEN 1 ELSE 2}

(* process_leaked_rt_config runs without the mutex.  The kernel refuses a  *)
(* next hop that is not on a link, and a second route to the prefix.       *)
LeakRoute ==
  /\ leak.hop # None
  /\ LET e == leak.ev
         to == <<e.vrf, e.prefix>>
         over == Via(e.vrf, leak.hop)
         there == to \in DOMAIN routes /\ routes[to].hop = leak.hop
         fits == IF e.add THEN to \notin DOMAIN routes /\ over # {} ELSE there
     IN  \/ /\ fits /\ e.add
            /\ \E w \in over :
                 routes' = With(routes, to, [src |-> e.src, via |-> w, hop |-> leak.hop])
         \/ fits /\ ~e.add /\ routes' = Drop(routes, {to})
         \/ (~fits \/ CanFail) /\ UNCHANGED routes
  /\ leak' \in {NoLeak} \cup {t \in {NoThread} : "raise" \in modes}
  /\ UNCHANGED <<netns, maps, pairs, op, leak_events, ips>>
-----------------------------------------------------------------------------
(* The kernel's addresses change and events tell of it.                    *)
AddrChange(x) ==
  /\ "addr" \in modes
  /\ x[1] \in netns /\ Len(ip_events) < MaxQueue
  /\ ip_events' = Append(ip_events, [add |-> x \notin addr, at |-> x])
  /\ addr' = IF x \in addr THEN addr \ {x} ELSE addr \cup {x}
  /\ UNCHANGED <<netns, maps, pairs, op, leaks, ip_addr_map, nat, missed, ipsvcs_lost>>

(* ipv4_rule_programming and ipv6_rule_programming: nothing to do for a    *)
(* VRF without services, for an address that is marked already or, for a   *)
(* delete, is not marked.  The mark changes before the command runs.       *)
RuleProgramming(x, add) ==
  LET CommandFails == nat' = nat /\ ipsvcs_lost' \in {FALSE, "raise" \in modes}
  IN  \/ /\ add /\ Recorded(x[1], Default) /\ x \notin ip_addr_map
         /\ ip_addr_map' = ip_addr_map \cup {x}
         /\ \/ x[1] \in netns /\ nat' = [nat EXCEPT ![x] = @ + 1] /\ UNCHANGED ipsvcs_lost
            \/ (CanFail \/ x[1] \notin netns) /\ CommandFails
      \/ /\ ~add /\ Recorded(x[1], Default) /\ x \in ip_addr_map
         /\ ip_addr_map' = ip_addr_map \ {x}
         /\ \/ nat[x] > 0 /\ nat' = [nat EXCEPT ![x] = @ - 1] /\ UNCHANGED ipsvcs_lost
            \/ (CanFail \/ nat[x] = 0) /\ CommandFails
      \/ /\ ~Recorded(x[1], Default) \/ add = (x \in ip_addr_map)
         /\ UNCHANGED <<ip_addr_map, nat, ipsvcs_lost>>

(* Mutant: the management VRF is no exception. *)
LookedAtAll(x) == x \notin OnMacvlan

(* In all but the management VRF an event is ignored if its interface is   *)
(* no macvlan.                                                             *)
LookedAt(x) == x[1] # Mgmt /\ x \notin OnMacvlan

(* The thread of address events takes the next one.  It is not ignored     *)
(* either if the interface is gone, or cannot be looked at; to look at it  *)
(* may raise an exception.                                                 *)
IpEvent ==
  /\ ip_events # <<>> /\ ~ipsvcs_lost
  /\ "race" \in modes \/ op = NoOp
  /\ ip_events' = Tail(ip_events)
  /\ LET x == Head(ip_events).at
     IN  /\ \/ /\ LookedAt(x) => x \notin addr \/ CanFail
               /\ RuleProgramming(x, Head(ip_events).add)
            \/ LookedAt(x) /\ UNCHANGED <<ip_addr_map, nat, ipsvcs_lost>>
            \/ /\ x[1] # Mgmt /\ Recorded(x[1], Default) /\ "raise" \in modes
               /\ ipsvcs_lost' = TRUE /\ UNCHANGED <<ip_addr_map, nat>>
         /\ missed' = missed \ {x}
  /\ UNCHANGED <<netns, maps, pairs, op, leaks, addr>>
-----------------------------------------------------------------------------
LeakEvents == {e \in [add : BOOLEAN, vrf : Names, src : Names, prefix : Prefixes] :
                 e.vrf # e.src}

(* The steps of the threads, once something is under way.                  *)
HolderStep ==
  \/ Install \/ SetupPair
  \/ \E key \in DOMAIN sub_net_map : TeardownStarts(key)
  \/ Uninstall \/ Teardown \/ VrfDeleteEnds

LeakStep == LeakStarts \/ LeakRoute

Request ==
  \/ \E v \in Vrfs : VrfCreate(v) \/ VrfCreateFails(v) \/ VrfDelete(v) \/ Service(v)
  \/ \E v \in Names : AddRule(v)
  \/ \E i \in DOMAIN cache : DelRule(i)
  \/ \E v \in Names, s \in SrcIps : SrcIpConfig(v, s)
  \/ \E e \in LeakEvents : PostLeak(e)
  \/ \E x \in Vrfs \X Addrs : AddrChange(x)

Next == (HolderStep \/ LeakStep \/ IpEvent \/ Request) /\ UNCHANGED modes

Spec == Init /\ [][Next]_vars

(* A thread that has _vrf_mutex runs on; nothing obliges anyone to make a  *)
(* request, and a command need not fail.                                   *)
Fairness == WF_vars(HolderStep /\ UNCHANGED modes)
-----------------------------------------------------------------------------
(* The state has its shape. *)
TypeOK ==
  /\ netns \subseteq Vrfs /\ known \subseteq netns \cup {Default}
  /\ DOMAIN default_rule \subseteq Names /\ taken \subseteq Names
  /\ \A v \in DOMAIN default_rule : default_rule[v] \subseteq Nat
  /\ DOMAIN cache \subseteq Nat /\ \A i \in DOMAIN cache : cache[i] \in Names \X {"default", "user"}
  /\ sub_net_map \in [DOMAIN sub_net_map -> Vals] /\ DOMAIN sub_net_map \subseteq Names \X Names
  /\ src_ip_map \subseteq Names \X SrcIps
  /\ op.kind \in {"none", "setup", "delete", "dead"}
  /\ ipsvcs_lost \in BOOLEAN
  /\ nat \in [Vrfs \X Addrs -> Nat] /\ ip_addr_map \subseteq Vrfs \X Addrs

(* Two pairs never have one subnet, and a pair is recorded in one          *)
(* direction only, so that an address leads to one VRF.                    *)
SubnetsDistinct ==
  \A k, l \in DOMAIN sub_net_map :
    /\ sub_net_map[k] = sub_net_map[l] => k = l
    /\ k[1] # k[2] /\ (l = <<k[2], k[1]>> => k = l)

(* Beside that, the maps keep their types: no VRF has an id of its own     *)
(* once its namespace is gone, and every pair has a value of the range.    *)
WellFormed == TypeOK /\ SubnetsDistinct

(* A pair that is recorded exists with its subnet and joins two VRFs that  *)
(* exist: _veth_ip_get hands out its addresses without a look.             *)
PairsReal ==
  \A k \in DOMAIN sub_net_map :
    /\ {k[1], k[2]} \subseteq known
    /\ {k[1], k[2]} \in DOMAIN veth
    /\ veth[{k[1], k[2]}] = [first |-> k[1], val |-> sub_net_map[k]]

(* The ends of every pair have exactly the source addresses configured for *)
(* their VRF, whether they were configured before or after the pair.       *)
SrcIpsOnPairs ==
  \A k \in DOMAIN sub_net_map :
    {x \in veth_ip : {x[1], x[2]} = {k[1], k[2]}} = SrcIpsOf(k)

(* Both hold unless a command fails or a leaked route comes late.          *)
PairsRealUnlessLate == CanFail \/ "late" \in modes \/ (PairsReal /\ SrcIpsOnPairs)

(* A leaked route leads into the VRF it was meant for, although its next   *)
(* hop is used after the mutex is released, unless VRFs go away meanwhile. *)
RoutesRight == \A x \in DOMAIN routes : routes[x].via = routes[x].src

RoutesRightUnlessLate == {"vrf", "late"} \subseteq modes \/ RoutesRight

(* An address has at most one nat rule, and one only if it is marked: what *)
(* keeps the two threads from adding it twice or leaving it behind.        *)
NatMarked ==
  ~CanFail => \A x \in DOMAIN nat : nat[x] <= IF x \in ip_addr_map THEN 1 ELSE 0

(* Once a VRF has services and all events are handled, an address on a     *)
(* macvlan interface has its rule exactly while it is there; and so has    *)
(* one of the management VRF that came after the services.                 *)
Quiet == op = NoOp /\ ip_events = <<>>

AddrsCovered ==
  Quiet => \A x \in Vrfs \X Addrs :
             Recorded(x[1], Default) /\ (x \in OnMacvlan \/ (x[1] = Mgmt /\ x \notin missed))
               => (x \in addr <=> nat[x] > 0)

(* The latter holds if the events wait for a setup to end and VRFs stay,   *)
(* the former always, unless a command fails.                              *)
NatRulesRight ==
  /\ NatMarked
  /\ CanFail \/ modes \cap {"race", "vrf", "late"} # {} \/ AddrsCovered

(* The ids kept for the default rules of a name are the ids of its default *)
(* rules, so that to delete a VRF deletes no rule of another one; unless a *)
(* request deleted a default rule itself, by its id or with all rules of a *)
(* name that is created again, or the deletion of such a VRF has then      *)
(* deleted the rule that had got its id.                                   *)
DefaultRulesOwnedUnlessTaken ==
  \A v \in DOMAIN default_rule \ taken :
    \A i \in default_rule[v] : i \in DOMAIN cache /\ cache[i] = <<v, "default">>

(* Whatever fails, a request or an event that has begun comes to its end   *)
(* and gives _vrf_mutex back: the two mutexes never wait for each other,   *)
(* and only an exception loses one of them.                                *)
OpsEnd == (op # NoOp) ~> (op \in {NoOp, Dead} \/ ipsvcs_lost)
=============================================================================
