---------------------------- MODULE VrfMgrProofs ----------------------------
(***************************************************************************)
(* VrfMgr for any VRFs, subnets, addresses, bounds and mixtures of faults  *)
(* and inputs. The invariants are proved one after the other, each from    *)
(* those before it: the holder of the mutex and the names, ids and default *)
(* rules (BaseInv); the pairs that are recorded and those of the kernel    *)
(* (PairsInv); the nat rules and their marks (NatInv); leaked routes       *)
(* (LeaksInv); that the pairs are real (RealInv); and the addresses that   *)
(* nat rules cover (CoverInv).                                             *)
(***************************************************************************)
EXTENDS VrfMgr, FiniteSetTheorems, WellFoundedInduction, TLAPS

(* Maps with one more key, and with fewer.                                 *)
LEMMA WithIs ==
  ASSUME NEW f, NEW key, NEW val
  PROVE  /\ DOMAIN With(f, key, val) = DOMAIN f \cup {key}
         /\ key \notin DOMAIN f => With(f, key, val)[key] = val
         /\ \A k \in DOMAIN f : With(f, key, val)[k] = f[k]
BY DEF With

(* Restricted to some keys, a map keeps their values.                      *)
LEMMA KeepIs ==
  ASSUME NEW f, NEW keys
  PROVE  /\ DOMAIN Keep(f, keys) = DOMAIN f \cap keys
         /\ \A k \in DOMAIN f \cap keys : Keep(f, keys)[k] = f[k]
BY DEF Keep

(* Without some keys, a map keeps the values of the others.                *)
LEMMA DropIs ==
  ASSUME NEW f, NEW keys
  PROVE  /\ DOMAIN Drop(f, keys) = DOMAIN f \ keys
         /\ \A k \in DOMAIN f \ keys : Drop(f, keys)[k] = f[k]
BY DEF Drop

(* A non-empty set of naturals has a least element.                        *)
LEMMA LeastExists ==
  ASSUME NEW S, S \subseteq Nat, S # {}
  PROVE  \E m \in S : \A k \in S : m <= k
<1> DEFINE R == OpToRel(<, Nat)
<1>1. IsWellFoundedOn(R, Nat)
  BY NatLessThanWellFounded
<1> HIDE DEF R
<1>2. PICK m \in S : \A k \in S : ~(<<k, m>> \in R)
  BY <1>1, WFMin
<1>3. ASSUME NEW k \in S PROVE m <= k
  <2>1. k < m => <<k, m>> \in R
    BY DEF R, OpToRel
  <2> QED
    BY <1>2, <2>1
<1> QED
  BY <1>3

(* The cache always has a free id, and FreeId finds one: there are more    *)
(* numbers from 1 to one more than its size than it has ids.               *)
LEMMA FreeIdIsFree ==
  ASSUME NEW c, IsFiniteSet(DOMAIN c)
  PROVE  FreeId(c) \in Nat /\ FreeId(c) \notin DOMAIN c
<1> DEFINE n == Cardinality(DOMAIN c) + 1
           F == {i \in 1 .. n : i \notin DOMAIN c}
<1>1. n \in Nat /\ 1 .. n \subseteq Nat
  BY FS_CardinalityType
<1>2. F # {}
  <2>1. SUFFICES ASSUME 1 .. n \subseteq DOMAIN c PROVE FALSE
    OBVIOUS
  <2>2. Cardinality(1 .. n) <= Cardinality(DOMAIN c)
    BY <2>1, FS_Subset
  <2>3. Cardinality(1 .. n) = n
    BY <1>1, FS_Interval
  <2> QED
    BY <2>2, <2>3, FS_CardinalityType
<1>3. F \subseteq Nat
  BY <1>1
<1>4. PICK i \in F : \A j \in F : i <= j
  BY <1>2, <1>3, LeastExists
<1>5. \A j \in 1 .. (i - 1) : j \in DOMAIN c
  <2>1. SUFFICES ASSUME NEW j \in 1 .. (i - 1), j \notin DOMAIN c PROVE FALSE
    OBVIOUS
  <2>2. j \in F /\ j < i
    BY <1>1, <1>4, <2>1
  <2> QED
    BY <1>1, <1>4, <2>2
<1>6. \E k \in 1 .. (Cardinality(DOMAIN c) + 1) :
        k \notin DOMAIN c /\ \A j \in 1 .. (k - 1) : j \in DOMAIN c
  BY <1>4, <1>5
<1>7. FreeId(c) \in 1 .. n /\ FreeId(c) \notin DOMAIN c
  BY <1>6 DEF FreeId
<1> QED
  BY <1>1, <1>7

(* FreeVal is empty only if every value is in use.                         *)
LEMMA FreeValIs ==
  /\ FreeVal \subseteq Vals \ UsedVals
  /\ Vals \ UsedVals # {} => FreeVal # {}
<1>1. Vals \ UsedVals \subseteq Nat
  BY ValsAssumption
<1>2. ASSUME Vals \ UsedVals # {} PROVE FreeVal # {}
  BY <1>1, <1>2, LeastExists DEF FreeVal
<1> QED
  BY <1>2 DEF FreeVal

-----------------------------------------------------------------------------
(* What the holder of _vrf_mutex does next.  Its record keeps its shape; a *)
(* setup is of two VRFs, a delete of one where VRFs are deleted.           *)
OpShape ==
  /\ op = [by |-> op.by, kind |-> op.kind, vrf |-> op.vrf, key |-> op.key,
           step |-> op.step, listed |-> op.listed]
  /\ op.kind \in {"none", "setup", "delete", "dead"}
  /\ op.kind = "setup" => /\ op.by \in {"cps", "leak"}
                          /\ op.key \in Names \X Names /\ op.key[1] # op.key[2]
                          /\ op.step \in {"install", "setup"}
  /\ op.kind = "delete" => /\ op.vrf \in Vrfs /\ "vrf" \in modes
                           /\ op.step \in {"none", "uninstall", "teardown"}

EventsOK == leak_events \in Seq(LeakEvents)

OpInv == OpShape /\ EventsOK

SetupOp(by, v, w) ==
  [NoOp EXCEPT !.by = by, !.kind = "setup", !.key = <<v, w>>,
               !.step = "install", !.listed = Listed(<<v, w>>)]

DeleteOp(v) == [NoOp EXCEPT !.by = "cps", !.kind = "delete", !.vrf = v]

(* The default VRF is none of the others.                                  *)
LEMMA NamesDiffer == Default \notin Vrfs /\ Vrfs \subseteq Names /\ Default \in Names
BY DefaultAssumption DEF Names

(* Whatever raises, the mutex is let go of or lost.                        *)
LEMMA RaisedInIs == ASSUME NEW o PROVE RaisedIn(o) \subseteq {NoOp, Dead}
BY DEF RaisedIn

(* What op is when nobody works, or its holder was lost.                   *)
LEMMA IdleOps ==
  /\ NoOp.kind = "none" /\ Dead.kind = "dead"
  /\ NoOp.listed = {} /\ Dead.listed = {}
  /\ \A o \in {NoOp, Dead} :
       o = [by |-> o.by, kind |-> o.kind, vrf |-> o.vrf, key |-> o.key,
            step |-> o.step, listed |-> o.listed]
BY DEF NoOp, Dead

(* A setup and a delete as they begin, field by field.                     *)
LEMMA NewOps ==
  ASSUME NEW by, NEW v, NEW w
  PROVE  /\ SetupOp(by, v, w) = [by |-> by, kind |-> "setup", vrf |-> None, key |-> <<v, w>>,
                                 step |-> "install", listed |-> Listed(<<v, w>>)]
         /\ DeleteOp(v) = [by |-> "cps", kind |-> "delete", vrf |-> v, key |-> <<None, None>>,
                           step |-> "none", listed |-> {}]
<1> DEFINE r1 == [NoOp EXCEPT !.by = by]
           r2 == [r1 EXCEPT !.kind = "setup"]
           r3 == [r2 EXCEPT !.key = <<v, w>>]
           r4 == [r3 EXCEPT !.step = "install"]
           r5 == [r4 EXCEPT !.listed = Listed(<<v, w>>)]
           d1 == [NoOp EXCEPT !.by = "cps"]
           d2 == [d1 EXCEPT !.kind = "delete"]
           d3 == [d2 EXCEPT !.vrf = v]
<1>1. SetupOp(by, v, w) = r5 /\ DeleteOp(v) = d3
  BY DEF SetupOp, DeleteOp
<1>2. r1 = [by |-> by, kind |-> "none", vrf |-> None, key |-> <<None, None>>,
            step |-> "none", listed |-> {}]
  BY DEF NoOp
<1> HIDE DEF r1
<1>3. r2 = [by |-> by, kind |-> "setup", vrf |-> None, key |-> <<None, None>>,
            step |-> "none", listed |-> {}]
  BY <1>2
<1> HIDE DEF r2
<1>4. r3 = [by |-> by, kind |-> "setup", vrf |-> None, key |-> <<v, w>>,
            step |-> "none", listed |-> {}]
  BY <1>3
<1> HIDE DEF r3
<1>5. r4 = [by |-> by, kind |-> "setup", vrf |-> None, key |-> <<v, w>>,
            step |-> "install", listed |-> {}]
  BY <1>4
<1> HIDE DEF r4
<1>6. r5 = [by |-> by, kind |-> "setup", vrf |-> None, key |-> <<v, w>>,
            step |-> "install", listed |-> Listed(<<v, w>>)]
  BY <1>5
<1> HIDE DEF r5
<1>7. d1 = [by |-> "cps", kind |-> "none", vrf |-> None, key |-> <<None, None>>,
            step |-> "none", listed |-> {}]
  BY DEF NoOp
<1> HIDE DEF d1
<1>8. d2 = [by |-> "cps", kind |-> "delete", vrf |-> None, key |-> <<None, None>>,
            step |-> "none", listed |-> {}]
  BY <1>7
<1> HIDE DEF d2
<1>9. d3 = [by |-> "cps", kind |-> "delete", vrf |-> v, key |-> <<None, None>>,
            step |-> "none", listed |-> {}]
  BY <1>8
<1> HIDE DEF d3
<1> QED
  BY <1>1, <1>6, <1>9

(* The fields of a setup that begins.                                      *)
LEMMA SetupOpIs ==
  ASSUME NEW by, NEW v, NEW w
  PROVE  /\ SetupOp(by, v, w).by = by /\ SetupOp(by, v, w).kind = "setup"
         /\ SetupOp(by, v, w).key = <<v, w>> /\ SetupOp(by, v, w).step = "install"
         /\ SetupOp(by, v, w).listed = Listed(<<v, w>>)
<1> DEFINE k == <<v, w>>
           l == Listed(k)
<1>1. SetupOp(by, v, w) = [by |-> by, kind |-> "setup", vrf |-> None, key |-> k,
                           step |-> "install", listed |-> l]
  BY NewOps
<1> HIDE DEF k, l
<1>2. /\ SetupOp(by, v, w).by = by /\ SetupOp(by, v, w).kind = "setup"
      /\ SetupOp(by, v, w).key = k /\ SetupOp(by, v, w).step = "install"
      /\ SetupOp(by, v, w).listed = l
  BY <1>1
<1> QED
  BY <1>2 DEF k, l

(* The fields of a delete that begins.                                     *)
LEMMA DeleteOpIs ==
  ASSUME NEW v
  PROVE  /\ DeleteOp(v).by = "cps" /\ DeleteOp(v).kind = "delete" /\ DeleteOp(v).vrf = v
         /\ DeleteOp(v).step = "none" /\ DeleteOp(v).listed = {}
<1> DEFINE n == <<None, None>>
<1>1. DeleteOp(v) = [by |-> "cps", kind |-> "delete", vrf |-> v, key |-> n,
                     step |-> "none", listed |-> {}]
  BY NewOps
<1> HIDE DEF n
<1> QED
  BY <1>1

(* The next step of every action, with what it is done to.                 *)
SetupBegins(by, v, w) ==
  /\ op = NoOp /\ v \in known /\ ~Recorded(v, w)
  /\ op' = SetupOp(by, v, w)
  /\ UNCHANGED <<netns, maps, pairs, routes, ips>>

(* A service begins a setup, or ends where it began.                       *)
LEMMA ServiceIs ==
  ASSUME NEW v \in Vrfs, Service(v)
  PROVE  /\ op = NoOp /\ UNCHANGED <<netns, maps, pairs, leaks, ips>>
         /\ SetupBegins("cps", v, Default) \/ op' \in {NoOp, Dead}
BY RaisedInIs DEF Service, SetupStarts, SetupBegins, SetupOp, leaks

(* The thread of leaked routes takes the first event.                      *)
LEMMA LeakStartsIs ==
  ASSUME LeakStarts, EventsOK
  PROVE  LET e == Head(leak_events)
         IN  /\ op = NoOp /\ leak = NoLeak /\ leak_events # <<>>
             /\ e \in LeakEvents /\ leak_events' = Tail(leak_events)
             /\ UNCHANGED <<netns, maps, pairs, routes, ips>>
             /\ \/ /\ Recorded(e.vrf, e.src) /\ op' = NoOp
                   /\ leak' = [NoLeak EXCEPT !.ev = e, !.hop = PeerHop(e.vrf, e.src, sub_net_map)]
                \/ /\ SetupBegins("leak", e.vrf, e.src) \/ op' \in {NoOp, Dead}
                   /\ leak' = [NoLeak EXCEPT !.ev = e]
                \/ op' = NoOp /\ leak' = NoLeak
<1> DEFINE e == Head(leak_events)
<1>1. e \in LeakEvents
  BY DEF LeakStarts, EventsOK
<1>2. /\ op = NoOp /\ leak = NoLeak /\ leak_events # <<>> /\ leak_events' = Tail(leak_events)
      /\ UNCHANGED <<netns, maps, pairs, routes, ips>>
  BY DEF LeakStarts
<1>3. \/ /\ Recorded(e.vrf, e.src) /\ op' = NoOp
         /\ leak' = [NoLeak EXCEPT !.ev = e, !.hop = PeerHop(e.vrf, e.src, sub_net_map)]
      \/ SetupStarts("leak", e.vrf, e.src) /\ leak' = [NoLeak EXCEPT !.ev = e]
      \/ op' = op /\ leak' = leak
  BY DEF LeakStarts
<1>4. SetupStarts("leak", e.vrf, e.src) => SetupBegins("leak", e.vrf, e.src) \/ op' \in {NoOp, Dead}
  BY <1>2, RaisedInIs DEF SetupStarts, SetupBegins, SetupOp
<1> QED
  BY <1>1, <1>2, <1>3, <1>4

(* Setting one field of what the holder does leaves the others.            *)
LEMMA StepIs ==
  ASSUME OpShape, NEW st
  PROVE  /\ [op EXCEPT !.step = st].by = op.by /\ [op EXCEPT !.step = st].kind = op.kind
         /\ [op EXCEPT !.step = st].vrf = op.vrf /\ [op EXCEPT !.step = st].key = op.key
         /\ [op EXCEPT !.step = st].step = st /\ [op EXCEPT !.step = st].listed = op.listed
         /\ [op EXCEPT !.step = st] =
              [by |-> op.by, kind |-> op.kind, vrf |-> op.vrf, key |-> op.key,
               step |-> st, listed |-> op.listed]
BY DEF OpShape

(* A pair whose rules go: what the delete of a VRF takes up next.          *)
NextPair(key) == [op EXCEPT !.key = key, !.step = "uninstall", !.listed = Listed(key)]

(* The fields of a delete that takes up a pair.                            *)
LEMMA NextPairIs ==
  ASSUME OpShape, NEW key
  PROVE  NextPair(key) = [by |-> op.by, kind |-> op.kind, vrf |-> op.vrf, key |-> key,
                          step |-> "uninstall", listed |-> Listed(key)]
<1> DEFINE k1 == [op EXCEPT !.key = key]
           k2 == [k1 EXCEPT !.step = "uninstall"]
           k3 == [k2 EXCEPT !.listed = Listed(key)]
<1>1. NextPair(key) = k3
  BY DEF NextPair
<1>2. k1 = [by |-> op.by, kind |-> op.kind, vrf |-> op.vrf, key |-> key,
            step |-> op.step, listed |-> op.listed]
  BY DEF OpShape
<1> HIDE DEF k1
<1>3. k2 = [by |-> op.by, kind |-> op.kind, vrf |-> op.vrf, key |-> key,
            step |-> "uninstall", listed |-> op.listed]
  BY <1>2
<1> HIDE DEF k2
<1>4. k3 = [by |-> op.by, kind |-> op.kind, vrf |-> op.vrf, key |-> key,
            step |-> "uninstall", listed |-> Listed(key)]
  BY <1>3
<1> QED
  BY <1>1, <1>4

(* The steps of the nat rules end with the step that follows, or raise.    *)
LEMMA InstallIs ==
  ASSUME Install
  PROVE  /\ op.kind = "setup" /\ op.step = "install"
         /\ UNCHANGED <<netns, maps, pairs, leaks, addr, ip_events>>
         /\ op' = [op EXCEPT !.step = "setup"] \/ op' \in {NoOp, Dead}
BY RaisedInIs DEF Install, NatRules

(* Deleting the nat rules leads to the teardown, or ends the delete.       *)
LEMMA UninstallIs ==
  ASSUME Uninstall
  PROVE  /\ op.kind = "delete" /\ op.step = "uninstall"
         /\ UNCHANGED <<netns, maps, pairs, leaks, addr, ip_events>>
         /\ op' = [op EXCEPT !.step = "teardown"] \/ op' \in {NoOp, Dead}
BY RaisedInIs DEF Uninstall, NatRules

(* A delete takes up one of its pairs, or ends.                            *)
LEMMA TeardownStartsIs ==
  ASSUME NEW key, TeardownStarts(key)
  PROVE  /\ op.kind = "delete" /\ op.step = "none" /\ key \in KeysOf(op.vrf)
         /\ UNCHANGED <<netns, maps, pairs, leaks, ips>>
         /\ op' = NextPair(key) \/ op' \in {NoOp, Dead}
BY RaisedInIs DEF TeardownStarts, NextPair

(* A teardown removes the pair, its record and its routes, or fails and    *)
(* leaves all.                                                             *)
LEMMA TeardownIs ==
  ASSUME Teardown
  PROVE  LET ends == {op.key[1], op.key[2]}
         IN  /\ op.kind = "delete" /\ op.step = "teardown"
             /\ UNCHANGED <<netns, known, rules, src_ip_map, leak, leak_events,
                            addr, ip_events, ip_addr_map, missed, ipsvcs_lost>>
             /\ op' = [op EXCEPT !.step = "none"] \/ op' \in {NoOp, Dead}
             /\ \/ /\ veth' = Drop(veth, {ends})
                   /\ veth_ip' = {x \in veth_ip : {x[1], x[2]} # ends}
                   /\ routes' = Keep(routes, {x \in DOMAIN routes : {x[1], routes[x].via} # ends})
                   /\ sub_net_map' = Drop(sub_net_map, {op.key})
                \/ UNCHANGED <<veth, veth_ip, routes, sub_net_map>>
BY RaisedInIs DEF Teardown, pairs

(* A setup records the value before it makes the pair; it lets go of the   *)
(* mutex in any case, and only the thread of leaked routes goes on.        *)
LEMMA SetupPairIs ==
  ASSUME SetupPair
  PROVE  /\ op.kind = "setup" /\ op.step = "setup"
         /\ UNCHANGED <<netns, known, rules, src_ip_map, leak_events, routes, ips>>
         /\ op' \in {NoOp, Dead}
         /\ \/ FreeVal = {} /\ UNCHANGED <<sub_net_map, pairs>> /\ Release(FALSE, Empty)
            \/ \E val \in FreeVal :
                 /\ sub_net_map' = With(sub_net_map, op.key, val)
                 /\ \/ op.key[2] \notin known /\ Release(FALSE, Empty) /\ UNCHANGED pairs
                    \/ /\ op.key[2] \in known
                       /\ veth' = WithPair(op.key, val)
                       /\ veth_ip' = veth_ip \cup SrcIpsOf(op.key)
                       /\ Release(TRUE, sub_net_map') \/ (CanFail /\ Failed)
                    \/ /\ op.key[2] \in known /\ CanFail /\ Failed
                       /\ veth' \in {veth, WithPair(op.key, val)}
                       /\ veth_ip' = veth_ip
<1>1. Failed => op' \in {NoOp, Dead}
  BY RaisedInIs DEF Failed, Release
<1>2. ASSUME NEW ok, NEW map, Release(ok, map) PROVE op' = NoOp
  BY <1>2 DEF Release
<1>3. /\ op.kind = "setup" /\ op.step = "setup"
      /\ UNCHANGED <<netns, known, rules, src_ip_map, leak_events, routes, ips>>
  BY DEF SetupPair
<1>4. CASE FreeVal = {} /\ Release(FALSE, Empty) /\ UNCHANGED <<sub_net_map, pairs>>
  BY <1>2, <1>3, <1>4
<1>5. ASSUME NEW val \in FreeVal,
             sub_net_map' = With(sub_net_map, op.key, val),
             \/ op.key[2] \notin known /\ Release(FALSE, Empty) /\ UNCHANGED pairs
             \/ /\ op.key[2] \in known
                /\ veth' = WithPair(op.key, val)
                /\ veth_ip' = veth_ip \cup SrcIpsOf(op.key)
                /\ Release(TRUE, sub_net_map') \/ (CanFail /\ op.key[2] = Default /\ Failed)
             \/ /\ op.key[2] \in known /\ CanFail /\ Failed
                /\ veth' \in {veth, WithPair(op.key, val)}
                /\ veth_ip' = veth_ip
      PROVE  /\ op' \in {NoOp, Dead}
             /\ \/ op.key[2] \notin known /\ Release(FALSE, Empty) /\ UNCHANGED pairs
                \/ /\ op.key[2] \in known
                   /\ veth' = WithPair(op.key, val)
                   /\ veth_ip' = veth_ip \cup SrcIpsOf(op.key)
                   /\ Release(TRUE, sub_net_map') \/ (CanFail /\ Failed)
                \/ /\ op.key[2] \in known /\ CanFail /\ Failed
                   /\ veth' \in {veth, WithPair(op.key, val)}
                   /\ veth_ip' = veth_ip
  BY <1>1, <1>2, <1>5
<1> QED
  BY <1>3, <1>4, <1>5 DEF SetupPair

-----------------------------------------------------------------------------
(* The VRFs there are: a name is known only while its namespace is there,  *)
(* and the default VRF with the first one.                                 *)
NamesOK ==
  /\ netns \subseteq Vrfs /\ known \subseteq netns \cup {Default}
  /\ known # {} => Default \in known

(* The default rules m and the cache c of incoming rules.                  *)
RulesTyped(m, c) ==
  /\ IsFiniteSet(DOMAIN c) /\ DOMAIN c \subseteq Nat
  /\ \A i \in DOMAIN c : c[i] \in Names \X {"default", "user"}
  /\ DOMAIN m \subseteq Names /\ \A v \in DOMAIN m : m[v] \subseteq Nat

(* The ids in m are those of default rules, but for the names in t.        *)
Owned(m, c, t) ==
  \A v \in DOMAIN m \ t : \A i \in m[v] : i \in DOMAIN c /\ c[i] = <<v, "default">>

(* A VRF has default rules only while it exists, and has lost them when    *)
(* its delete is under way.                                                *)
OwnedOK ==
  /\ Owned(default_rule, cache, taken) /\ taken \subseteq Names
  /\ DOMAIN default_rule \subseteq netns \cup {Default}
  /\ op.kind = "delete" => op.vrf \notin DOMAIN default_rule

NamesInv == NamesOK /\ RulesTyped(default_rule, cache) /\ OwnedOK

(* A list of names with their ids, and the cache they are in.              *)
RulesRight(s, t) ==
  /\ s = [map |-> s.map, cache |-> s.cache]
  /\ RulesTyped(s.map, s.cache) /\ Owned(s.map, s.cache, t)

(* create_vrf_default_rules keeps the ids right: a new id is free.         *)
LEMMA WithDefaultRuleIs ==
  ASSUME NEW s0, NEW t, RulesRight(s0, t), NEW v \in Names, NEW made
  PROVE  /\ RulesRight(WithDefaultRule(s0, v, made), t)
         /\ DOMAIN WithDefaultRule(s0, v, made).map = DOMAIN s0.map \cup {v}
<1> DEFINE m == s0.map
           c == s0.cache
           i == FreeId(c)
           none == {}
           some == {i}
           e == With(m, v, none)
           w == With(m, v, some)
           d == With(c, i, <<v, "default">>)
           s == WithDefaultRule(s0, v, made)
<1>0. s0 = [map |-> m, cache |-> c] /\ RulesTyped(m, c) /\ Owned(m, c, t)
  BY DEF RulesRight
<1> HIDE DEF m, c
<1>1. CASE v \in DOMAIN m
  <2>1. s = s0 /\ DOMAIN m = DOMAIN m \cup {v}
    BY <1>1 DEF WithDefaultRule, m
  <2> HIDE DEF s
  <2>2. RulesRight(s, t) /\ DOMAIN s.map = DOMAIN s0.map \cup {v}
    BY <2>1 DEF m
  <2> QED
    BY <2>2 DEF s
<1>2. CASE v \notin DOMAIN m /\ v \notin made
  <2>1. s = [map |-> e, cache |-> c]
    BY <1>2 DEF WithDefaultRule, m, c
  <2> HIDE DEF none
  <2>2. DOMAIN e = DOMAIN m \cup {v} /\ e[v] = none /\ \A x \in DOMAIN m : e[x] = m[x]
    BY <1>2, WithIs
  <2> HIDE DEF e, s
  <2>3. RulesTyped(e, c)
    BY <1>0, <2>2 DEF RulesTyped, none
  <2>4. Owned(e, c, t)
    BY <1>0, <2>2 DEF Owned, none
  <2>5. RulesRight(s, t) /\ DOMAIN s.map = DOMAIN s0.map \cup {v}
    BY <2>1, <2>2, <2>3, <2>4 DEF RulesRight, m
  <2> QED
    BY <2>5 DEF s
<1>3. CASE v \notin DOMAIN m /\ v \in made
  <2>1. s = [map |-> w, cache |-> d]
    BY <1>3 DEF WithDefaultRule, m, c
  <2>2. i \in Nat /\ i \notin DOMAIN c
    BY <1>0, FreeIdIsFree DEF RulesTyped
  <2> HIDE DEF i, some
  <2>3. DOMAIN w = DOMAIN m \cup {v} /\ w[v] = some /\ \A x \in DOMAIN m : w[x] = m[x]
    BY <1>3, WithIs
  <2>4. DOMAIN d = DOMAIN c \cup {i} /\ d[i] = <<v, "default">> /\ \A x \in DOMAIN c : d[x] = c[x]
    BY <2>2, WithIs
  <2> HIDE DEF w, d, s
  <2>5. IsFiniteSet(DOMAIN d)
    BY <1>0, <2>4, FS_AddElement DEF RulesTyped
  <2>6. RulesTyped(w, d)
    BY <1>0, <2>2, <2>3, <2>4, <2>5 DEF RulesTyped, some
  <2>7. Owned(w, d, t)
    BY <1>0, <2>2, <2>3, <2>4 DEF Owned, some
  <2>8. RulesRight(s, t) /\ DOMAIN s.map = DOMAIN s0.map \cup {v}
    BY <2>1, <2>3, <2>6, <2>7 DEF RulesRight, m
  <2> QED
    BY <2>8 DEF s
<1> QED
  BY <1>1, <1>2, <1>3

(* Rules that go from the cache.                                           *)
LEMMA DropTyped ==
  ASSUME NEW m, NEW c, RulesTyped(m, c), NEW gone, NEW ids
  PROVE  RulesTyped(Drop(m, gone), Drop(c, ids)) /\ RulesTyped(m, Drop(c, ids))
<1>1. /\ DOMAIN Drop(m, gone) = DOMAIN m \ gone
      /\ \A v \in DOMAIN m \ gone : Drop(m, gone)[v] = m[v]
      /\ DOMAIN Drop(c, ids) = DOMAIN c \ ids
      /\ \A i \in DOMAIN c \ ids : Drop(c, ids)[i] = c[i]
  BY DropIs
<1>2. IsFiniteSet(DOMAIN Drop(c, ids))
  BY <1>1, FS_Subset DEF RulesTyped
<1> QED
  BY <1>1, <1>2 DEF RulesTyped

(* Deleting rules takes the default rules of those that are named as taken *)
(* only.                                                                   *)
LEMMA ClearKeepsOwned ==
  ASSUME NEW m, NEW c, NEW t, Owned(m, c, t), NEW ids, NEW t2,
         \A v \in DOMAIN m \ t2 : v \notin t /\ m[v] \cap ids = {}
  PROVE  Owned(m, Drop(c, ids), t2)
<1>1. /\ DOMAIN Drop(c, ids) = DOMAIN c \ ids
      /\ \A i \in DOMAIN c \ ids : Drop(c, ids)[i] = c[i]
  BY DropIs
<1> QED
  BY <1>1 DEF Owned

(* A create gives the VRF, and the default one, rules of their own.        *)
LEMMA VrfCreateKeepsNames ==
  ASSUME NamesInv, NEW v \in Vrfs, VrfCreate(v), modes' = modes
  PROVE  NamesInv'
<1> DEFINE c0 == Drop(cache, RulesOf(cache, v))
           s0 == [map |-> default_rule, cache |-> c0]
<1>1. /\ op = NoOp /\ op' = op /\ v \notin netns /\ netns' = netns \cup {v}
      /\ known' = known \cup {v} \cup (IF known = {} THEN {Default} ELSE {})
      /\ taken' = taken
  BY DEF VrfCreate
<1>2. PICK made \in SUBSET {v, Default} :
        /\ default_rule' = WithDefaultRule(WithDefaultRule(s0, v, made), Default, made).map
        /\ cache' = WithDefaultRule(WithDefaultRule(s0, v, made), Default, made).cache
  BY DEF VrfCreate
<1> DEFINE s1 == WithDefaultRule(s0, v, made)
           s2 == WithDefaultRule(s1, Default, made)
<1>3. default_rule' = s2.map /\ cache' = s2.cache
  BY <1>2
<1>4. RulesTyped(default_rule, c0)
  BY DropTyped DEF NamesInv
<1>5. Owned(default_rule, c0, taken)
  <2>1. v \notin DOMAIN default_rule
    BY <1>1, DefaultAssumption DEF NamesInv, OwnedOK
  <2>2. \A w \in DOMAIN default_rule \ taken :
          w \notin taken /\ default_rule[w] \cap RulesOf(cache, v) = {}
    BY <2>1 DEF NamesInv, OwnedOK, Owned, RulesOf
  <2> QED
    BY <2>2, ClearKeepsOwned DEF NamesInv, OwnedOK
<1> HIDE DEF c0
<1>6. RulesRight(s0, taken) /\ s0.map = default_rule
  BY <1>4, <1>5 DEF RulesRight
<1> HIDE DEF s0
<1>7. RulesRight(s1, taken) /\ DOMAIN s1.map = DOMAIN default_rule \cup {v}
  BY <1>6, WithDefaultRuleIs, NamesDiffer
<1> HIDE DEF s1
<1>8. RulesRight(s2, taken) /\ DOMAIN s2.map = DOMAIN s1.map \cup {Default}
  BY <1>7, WithDefaultRuleIs, NamesDiffer
<1> HIDE DEF s2
<1>9. NamesOK'
  BY <1>1 DEF NamesInv, NamesOK
<1>10. op'.kind # "delete"
  BY <1>1 DEF NoOp
<1>11. OwnedOK'
  BY <1>1, <1>3, <1>7, <1>8, <1>10 DEF NamesInv, OwnedOK, RulesRight
<1> QED
  BY <1>3, <1>8, <1>9, <1>11 DEF NamesInv, RulesRight

(* A create that fails clears the rules of its VRF, its default rules too  *)
(* if it is created again.                                                 *)
LEMMA VrfCreateFailsKeepsNames ==
  ASSUME NamesInv, NEW v \in Vrfs, VrfCreateFails(v), modes' = modes
  PROVE  NamesInv'
<1> DEFINE ids == RulesOf(cache, v)
<1>1. /\ op = NoOp
      /\ cache' = Drop(cache, ids) /\ default_rule' = default_rule
      /\ taken' = taken \cup OwnersOf(ids)
      /\ op' \in {NoOp, Dead}
      /\ \/ UNCHANGED <<netns, known>>
         \/ /\ netns' = netns \cup {v}
            /\ known' \in {known, known \cup {v} \cup (IF known = {} THEN {Default} ELSE {})}
  BY RaisedInIs DEF VrfCreateFails
<1> HIDE DEF ids
<1>2. RulesTyped(default_rule', cache')
  BY <1>1, DropTyped DEF NamesInv
<1>3. Owned(default_rule', cache', taken')
  <2>1. \A w \in DOMAIN default_rule \ taken' :
          w \notin taken /\ default_rule[w] \cap ids = {}
    BY <1>1 DEF NamesInv, OwnedOK, Owned, OwnersOf, RulesTyped
  <2> QED
    BY <1>1, <2>1, ClearKeepsOwned DEF NamesInv, OwnedOK
<1>4. NamesOK'
  BY <1>1 DEF NamesInv, NamesOK
<1>5. op'.kind # "delete"
  BY <1>1, IdleOps
<1>6. netns \subseteq netns' /\ taken' \subseteq Names
  BY <1>1 DEF NamesInv, OwnedOK, OwnersOf
<1>7. OwnedOK'
  BY <1>1, <1>3, <1>5, <1>6 DEF NamesInv, OwnedOK
<1> QED
  BY <1>2, <1>4, <1>7 DEF NamesInv

(* A delete takes the default rules along, and op is the delete or idle.   *)
LEMMA VrfDeleteIs ==
  ASSUME NEW v \in Vrfs, VrfDelete(v)
  PROVE  LET rest == DOMAIN default_rule \ {v}
             gone == (DOMAIN default_rule \cap {v}) \cup (IF rest = {Default} THEN rest ELSE {})
         IN  /\ "vrf" \in modes /\ op = NoOp /\ v \in netns
             /\ "late" \in modes \/ (leak_events = <<>> /\ leak \in {NoLeak, NoThread})
             /\ \E ids \in SUBSET IdsOf(gone) :
                  /\ cache' = Drop(cache, ids)
                  /\ taken' = (taken \cup OwnersOf(ids \cap IdsOf(gone \cap taken))) \ gone
             /\ default_rule' = Drop(default_rule, gone)
             /\ op' = DeleteOp(v) \/ op' \in {NoOp, Dead}
             /\ UNCHANGED <<netns, known, sub_net_map, src_ip_map, pairs, leaks, ips>>
BY RaisedInIs DEF VrfDelete, DeleteOp

(* The ids of the default rules that stay are among those that go only     *)
(* where the default rule of a VRF that goes had been taken.               *)
LEMMA VrfDeleteKeepsNames ==
  ASSUME NamesInv, NEW v \in Vrfs, VrfDelete(v), modes' = modes
  PROVE  NamesInv'
<1> DEFINE rest == DOMAIN default_rule \ {v}
           gone == (DOMAIN default_rule \cap {v}) \cup (IF rest = {Default} THEN rest ELSE {})
<1>1. /\ default_rule' = Drop(default_rule, gone)
      /\ UNCHANGED <<netns, known>>
      /\ op' = DeleteOp(v) \/ op' \in {NoOp, Dead}
  BY VrfDeleteIs
<1>2. PICK ids \in SUBSET IdsOf(gone) :
        /\ cache' = Drop(cache, ids)
        /\ taken' = (taken \cup OwnersOf(ids \cap IdsOf(gone \cap taken))) \ gone
  BY VrfDeleteIs
<1>3. gone \subseteq DOMAIN default_rule /\ (v \in DOMAIN default_rule => v \in gone)
  OBVIOUS
<1> HIDE DEF gone
<1>4. RulesTyped(default_rule', cache')
  BY <1>1, <1>2, DropTyped DEF NamesInv
<1>5. /\ DOMAIN default_rule' = DOMAIN default_rule \ gone
      /\ \A u \in DOMAIN default_rule \ gone : default_rule'[u] = default_rule[u]
  BY <1>1, DropIs
<1>6. Owned(default_rule', cache', taken')
  <2>1. Owned(default_rule, cache, taken) /\ DOMAIN default_rule \subseteq Names
    BY DEF NamesInv, OwnedOK, RulesTyped
  <2>2. ASSUME NEW u \in DOMAIN default_rule \ gone, u \notin taken',
               NEW i \in default_rule[u], i \in ids
        PROVE  FALSE
    <3>1. u \notin taken /\ i \in DOMAIN cache /\ cache[i] = <<u, "default">>
      BY <1>2, <2>1, <2>2 DEF Owned
    <3>2. PICK w \in gone : i \in default_rule[w]
      BY <1>2, <2>2 DEF IdsOf
    <3>3. CASE w \in taken
      <4>1. i \in ids \cap IdsOf(gone \cap taken)
        BY <2>2, <3>2, <3>3 DEF IdsOf
      <4>2. u \in OwnersOf(ids \cap IdsOf(gone \cap taken))
        BY <2>1, <3>1, <4>1 DEF OwnersOf
      <4> QED
        BY <1>2, <2>2, <4>2
    <3>4. CASE w \notin taken
      BY <1>3, <2>1, <2>2, <3>1, <3>2, <3>4 DEF Owned
    <3> QED
      BY <3>3, <3>4
  <2>3. \A u \in DOMAIN default_rule' \ taken' : u \notin taken /\ default_rule'[u] \cap ids = {}
    BY <1>2, <1>5, <2>2
  <2>4. Owned(default_rule', cache, taken)
    BY <1>5, <2>1 DEF Owned
  <2> QED
    BY <1>2, <2>3, <2>4, ClearKeepsOwned
<1>7. op'.kind = "delete" => op'.vrf = v
  BY <1>1, IdleOps, DeleteOpIs
<1>8. /\ v \notin DOMAIN default_rule' /\ DOMAIN default_rule' \subseteq DOMAIN default_rule
      /\ taken' \subseteq Names
  BY <1>2, <1>3, <1>5 DEF OwnersOf, NamesInv, OwnedOK
<1>9. OwnedOK'
  BY <1>1, <1>6, <1>7, <1>8 DEF NamesInv, OwnedOK
<1>10. NamesOK'
  BY <1>1 DEF NamesInv, NamesOK
<1> QED
  BY <1>4, <1>9, <1>10 DEF NamesInv

(* The end of a delete empties the namespace, or leaves all but the id.    *)
LEMMA VrfDeleteEndsIs ==
  ASSUME VrfDeleteEnds
  PROVE  LET v == op.vrf
         IN  /\ op.kind = "delete" /\ op.step = "none" /\ KeysOf(v) = {}
             /\ known' = Forget(v)
             /\ UNCHANGED <<rules, sub_net_map, src_ip_map, leak, leak_events,
                            ip_events, ip_addr_map, missed, ipsvcs_lost>>
             /\ op' \in {NoOp, Dead}
             /\ \/ /\ v \in known /\ op' = NoOp /\ netns' = netns \ {v}
                   /\ veth' = Keep(veth, {p \in DOMAIN veth : v \notin p})
                   /\ veth_ip' = {x \in veth_ip : v \notin {x[1], x[2]}}
                   /\ routes' = Keep(routes, {x \in DOMAIN routes : v \notin {x[1], routes[x].via}})
                   /\ addr' = {x \in addr : x[1] # v}
                   /\ nat' = [x \in DOMAIN nat |-> IF x[1] = v THEN 0 ELSE nat[x]]
                \/ /\ v \notin known \/ CanFail
                   /\ UNCHANGED <<netns, veth, veth_ip, routes, addr, nat>>
BY RaisedInIs DEF VrfDeleteEnds, pairs

(* The default VRF stays known as long as any other one is.                *)
LEMMA ForgetIs ==
  ASSUME NamesOK, NEW v \in Vrfs
  PROVE  /\ Forget(v) \subseteq known \ {v}
         /\ Forget(v) # {} => Default \in Forget(v)
         /\ Forget(v) = known \ {v} \/ (v \in known /\ known \ {v} = {Default} /\ Forget(v) = {})
<1>1. Default # v
  BY DefaultAssumption
<1> QED
  BY <1>1 DEF Forget, NamesOK

(* A delete that ends takes the id along with the namespace.               *)
LEMMA VrfDeleteEndsKeepsNames ==
  ASSUME NamesInv, OpShape, VrfDeleteEnds, modes' = modes
  PROVE  NamesInv'
<1> DEFINE v == op.vrf
<1>1. /\ op.kind = "delete" /\ known' = Forget(v) /\ UNCHANGED rules
      /\ op' \in {NoOp, Dead}
      /\ netns' = netns \/ (v \in known /\ netns' = netns \ {v})
  BY VrfDeleteEndsIs
<1>2. v \in Vrfs
  BY <1>1 DEF OpShape
<1> HIDE DEF v
<1>3. Forget(v) \subseteq known \ {v} /\ (Forget(v) # {} => Default \in Forget(v))
  BY <1>2, ForgetIs DEF NamesInv
<1>4. NamesOK'
  BY <1>1, <1>3 DEF NamesInv, NamesOK
<1>5. op'.kind # "delete"
  BY <1>1, IdleOps
<1>6. OwnedOK'
  BY <1>1, <1>5 DEF NamesInv, OwnedOK, v, rules
<1> QED
  BY <1>1, <1>4, <1>6 DEF NamesInv, rules

(* A rule of a user gets an id that no default rule has.                   *)
LEMMA AddRuleKeepsNames ==
  ASSUME NamesInv, NEW v \in Names, AddRule(v), modes' = modes
  PROVE  NamesInv'
<1>1. op' = op /\ UNCHANGED <<netns, known, default_rule, taken>>
  BY DEF AddRule
<1>2. PICK i \in (1 .. MaxRules) \ DOMAIN cache : cache' = With(cache, i, <<v, "user">>)
  BY DEF AddRule
<1>3. i \in Nat /\ i \notin DOMAIN cache
  BY BoundsAssumption
<1>4. /\ DOMAIN cache' = DOMAIN cache \cup {i} /\ cache'[i] = <<v, "user">>
      /\ \A x \in DOMAIN cache : cache'[x] = cache[x]
  <2> DEFINE r == <<v, "user">>
  <2>1. cache' = With(cache, i, r)
    BY <1>2
  <2> HIDE DEF r
  <2> DEFINE d == With(cache, i, r)
  <2>2. DOMAIN d = DOMAIN cache \cup {i} /\ d[i] = r /\ \A x \in DOMAIN cache : d[x] = cache[x]
    BY <1>3, WithIs
  <2> HIDE DEF d
  <2> QED
    BY <2>1, <2>2 DEF r, d
<1>5. IsFiniteSet(DOMAIN cache')
  BY <1>4, FS_AddElement DEF NamesInv, RulesTyped
<1>6. RulesTyped(default_rule', cache')
  BY <1>1, <1>3, <1>4, <1>5 DEF NamesInv, RulesTyped
<1>7. Owned(default_rule, cache, taken) => Owned(default_rule', cache', taken')
  BY <1>1, <1>4 DEF Owned
<1>8. OwnedOK'
  BY <1>1, <1>7 DEF NamesInv, OwnedOK
<1>9. NamesOK'
  BY <1>1 DEF NamesInv, NamesOK
<1> QED
  BY <1>6, <1>8, <1>9 DEF NamesInv

(* The name whose default rule is deleted counts as taken.                 *)
LEMMA DelRuleKeepsNames ==
  ASSUME NamesInv, NEW i \in DOMAIN cache, DelRule(i), modes' = modes
  PROVE  NamesInv'
<1> DEFINE ids == {i}
<1>1. /\ op' = op /\ UNCHANGED <<netns, known, default_rule>>
      /\ cache' = Drop(cache, ids) /\ taken' = taken \cup OwnersOf(ids)
  BY DEF DelRule
<1> HIDE DEF ids
<1>2. RulesTyped(default_rule', cache')
  BY <1>1, DropTyped DEF NamesInv
<1>3. Owned(default_rule', cache', taken')
  <2>1. \A w \in DOMAIN default_rule \ taken' :
          w \notin taken /\ default_rule[w] \cap ids = {}
    BY <1>1 DEF NamesInv, OwnedOK, Owned, OwnersOf, RulesTyped
  <2> QED
    BY <1>1, <2>1, ClearKeepsOwned DEF NamesInv, OwnedOK
<1>4. OwnedOK'
  BY <1>1, <1>3 DEF NamesInv, OwnedOK, OwnersOf
<1>5. NamesOK'
  BY <1>1 DEF NamesInv, NamesOK
<1> QED
  BY <1>2, <1>4, <1>5 DEF NamesInv

-----------------------------------------------------------------------------
(* The records of the holder's next steps have the shape.                  *)
LEMMA IdleShape ==
  ASSUME op' \in {NoOp, Dead}
  PROVE  OpShape' /\ op'.kind \notin {"setup", "delete"}
BY IdleOps DEF OpShape

(* A setup that begins has the shape of one.                               *)
LEMMA SetupShape ==
  ASSUME NEW by \in {"cps", "leak"}, NEW v \in Names, NEW w \in Names, v # w,
         op' = SetupOp(by, v, w)
  PROVE  OpShape' /\ op'.kind = "setup"
<1> DEFINE o == SetupOp(by, v, w)
<1>1. /\ o.by = by /\ o.kind = "setup" /\ o.key = <<v, w>> /\ o.step = "install"
      /\ o.listed = Listed(<<v, w>>)
  BY SetupOpIs
<1>2. o.key \in Names \X Names /\ o.key[1] # o.key[2]
  BY <1>1
<1>3. o = [by |-> o.by, kind |-> o.kind, vrf |-> o.vrf, key |-> o.key,
           step |-> o.step, listed |-> o.listed]
  <2> DEFINE k == <<v, w>>
             l == Listed(k)
  <2>1. o = [by |-> by, kind |-> "setup", vrf |-> None, key |-> k,
             step |-> "install", listed |-> l]
    BY NewOps
  <2> HIDE DEF k, l, o
  <2> QED
    BY <2>1
<1>4. op' = o
  BY DEF o
<1> HIDE DEF o
<1> QED
  BY <1>1, <1>2, <1>3, <1>4 DEF OpShape

(* A delete that begins has the shape of one.                              *)
LEMMA DeleteShape ==
  ASSUME NEW v \in Vrfs, "vrf" \in modes', op' = DeleteOp(v)
  PROVE  OpShape' /\ op'.kind = "delete" /\ op'.vrf = v
<1> DEFINE o == DeleteOp(v)
<1>1. o.kind = "delete" /\ o.vrf = v /\ o.step = "none"
  BY DeleteOpIs
<1>2. o = [by |-> o.by, kind |-> o.kind, vrf |-> o.vrf, key |-> o.key,
           step |-> o.step, listed |-> o.listed]
  <2> DEFINE n == <<None, None>>
  <2>1. o = [by |-> "cps", kind |-> "delete", vrf |-> v, key |-> n, step |-> "none",
             listed |-> {}]
    BY NewOps
  <2> HIDE DEF n, o
  <2> QED
    BY <2>1
<1>3. op' = o
  BY DEF o
<1> HIDE DEF o
<1> QED
  BY <1>1, <1>2, <1>3 DEF OpShape

(* A next step changes the step only.                                      *)
LEMMA StepShape ==
  ASSUME OpShape, UNCHANGED modes, NEW st, op' = [op EXCEPT !.step = st],
         \/ op.kind = "setup" /\ st = "setup"
         \/ op.kind = "delete" /\ st \in {"teardown", "none"}
  PROVE  /\ OpShape' /\ op'.kind = op.kind /\ op'.vrf = op.vrf /\ op'.key = op.key
         /\ op'.by = op.by /\ op'.step = st /\ op'.listed = op.listed
<1> DEFINE o == [op EXCEPT !.step = st]
<1>1. /\ o.by = op.by /\ o.kind = op.kind /\ o.vrf = op.vrf /\ o.key = op.key
      /\ o.step = st /\ o.listed = op.listed
      /\ o = [by |-> op.by, kind |-> op.kind, vrf |-> op.vrf, key |-> op.key,
              step |-> st, listed |-> op.listed]
  BY StepIs
<1> HIDE DEF o
<1>2. o = [by |-> o.by, kind |-> o.kind, vrf |-> o.vrf, key |-> o.key,
           step |-> o.step, listed |-> o.listed]
  BY <1>1
<1>3. op' = o
  BY DEF o
<1> QED
  BY <1>1, <1>2, <1>3 DEF OpShape

(* A delete that takes up a pair stays the delete of its VRF.              *)
LEMMA NextPairShape ==
  ASSUME OpShape, UNCHANGED modes, NEW key, op.kind = "delete", op' = NextPair(key)
  PROVE  /\ OpShape' /\ op'.kind = "delete" /\ op'.vrf = op.vrf /\ op'.key = key
         /\ op'.by = op.by /\ op'.step = "uninstall" /\ op'.listed = Listed(key)
<1> DEFINE o == NextPair(key)
           l == Listed(key)
<1>1. o = [by |-> op.by, kind |-> op.kind, vrf |-> op.vrf, key |-> key,
           step |-> "uninstall", listed |-> l]
  BY NextPairIs
<1> HIDE DEF o, l
<1>2. /\ o.by = op.by /\ o.kind = op.kind /\ o.vrf = op.vrf /\ o.key = key
      /\ o.step = "uninstall" /\ o.listed = l
      /\ o = [by |-> o.by, kind |-> o.kind, vrf |-> o.vrf, key |-> o.key,
              step |-> o.step, listed |-> o.listed]
  BY <1>1
<1>3. op' = o
  BY DEF o
<1> QED
  BY <1>2, <1>3 DEF OpShape, l

(* The events that wait are events of leaked routes.                       *)
LEMMA EventsKept ==
  ASSUME EventsOK, UNCHANGED leak_events PROVE EventsOK'
BY DEF EventsOK

(* Whoever does something, the holder's record keeps its shape, and only   *)
(* VrfDelete begins a delete.                                              *)
OpMoves ==
  /\ OpInv'
  /\ op'.kind = "delete" => op.kind = "delete" /\ op'.vrf = op.vrf

(* A step of the holder keeps its shape and begins no delete.              *)
LEMMA HolderMoves ==
  ASSUME OpInv, HolderStep, UNCHANGED modes
  PROVE  OpMoves
<1>1. CASE Install
  BY <1>1, InstallIs, IdleShape, StepShape, EventsKept DEF OpInv, OpMoves, leaks
<1>2. CASE SetupPair
  BY <1>2, SetupPairIs, IdleShape, EventsKept DEF OpInv, OpMoves
<1>3. ASSUME NEW key \in DOMAIN sub_net_map, TeardownStarts(key) PROVE OpMoves
  <2>1. /\ op.kind = "delete" /\ UNCHANGED leak_events
        /\ op' = NextPair(key) \/ op' \in {NoOp, Dead}
    BY <1>3, TeardownStartsIs DEF leaks
  <2> QED
    BY <2>1, IdleShape, NextPairShape, EventsKept DEF OpInv, OpMoves
<1>4. CASE Uninstall
  BY <1>4, UninstallIs, IdleShape, StepShape, EventsKept DEF OpInv, OpMoves, leaks
<1>5. CASE Teardown
  BY <1>5, TeardownIs, IdleShape, StepShape, EventsKept DEF OpInv, OpMoves
<1>6. CASE VrfDeleteEnds
  BY <1>6, VrfDeleteEndsIs, IdleShape, EventsKept DEF OpInv, OpMoves
<1> QED
  BY <1>1, <1>2, <1>3, <1>4, <1>5, <1>6 DEF HolderStep

(* A step that leaves op and the events alone begins no delete.            *)
LEMMA EventStaysPut ==
  ASSUME OpInv, UNCHANGED <<op, leak_events, modes>> PROVE OpMoves
BY DEF OpInv, OpMoves, OpShape, EventsOK

(* The other threads begin no delete.                                      *)
LEMMA ThreadsMove ==
  ASSUME OpInv, NamesOK, LeakStep \/ IpEvent, UNCHANGED modes
  PROVE  OpMoves
<1>1. CASE LeakStarts
  <2> DEFINE e == Head(leak_events)
  <2>1. /\ op = NoOp /\ leak_events # <<>> /\ e \in LeakEvents /\ leak_events' = Tail(leak_events)
        /\ op' \in {NoOp, Dead} \/ SetupBegins("leak", e.vrf, e.src)
    BY <1>1, LeakStartsIs DEF OpInv
  <2>2. e.vrf \in Names /\ e.src \in Names /\ e.vrf # e.src
    BY <2>1 DEF LeakEvents
  <2> HIDE DEF e
  <2>3. op' \in {NoOp, Dead} \/ op' = SetupOp("leak", e.vrf, e.src)
    BY <2>1 DEF SetupBegins
  <2>4. OpShape' /\ op'.kind # "delete"
    BY <2>2, <2>3, IdleShape, SetupShape
  <2>5. EventsOK'
    BY <2>1 DEF OpInv, EventsOK
  <2> QED
    BY <2>4, <2>5 DEF OpInv, OpMoves
<1>2. CASE LeakRoute \/ IpEvent
  BY <1>2, EventStaysPut DEF LeakRoute, IpEvent, leaks
<1> QED
  BY <1>1, <1>2 DEF LeakStep

(* No request but the delete of a VRF begins one.                          *)
LEMMA RequestMoves ==
  ASSUME OpInv, Request, UNCHANGED modes, \A v \in Vrfs : ~VrfDelete(v)
  PROVE  OpMoves
<1>1. ASSUME (\E v \in Vrfs : VrfCreate(v)) \/ (\E v \in Names : AddRule(v)) PROVE OpMoves
  BY <1>1, EventStaysPut DEF VrfCreate, AddRule, leaks
<1>2. ASSUME NEW v \in Vrfs, VrfCreateFails(v) PROVE OpMoves
  <2>1. UNCHANGED leak_events /\ op' \in {NoOp, Dead}
    BY <1>2, RaisedInIs DEF VrfCreateFails, leaks
  <2> QED
    BY <2>1, IdleShape, EventsKept DEF OpInv, OpMoves
<1>3. ASSUME NEW v \in Vrfs, Service(v) PROVE OpMoves
  <2>1. UNCHANGED leak_events /\ (op' \in {NoOp, Dead} \/ op' = SetupOp("cps", v, Default))
    BY <1>3, ServiceIs DEF leaks, SetupBegins
  <2>2. OpShape' /\ op'.kind # "delete"
    BY <2>1, IdleShape, SetupShape, NamesDiffer
  <2> QED
    BY <2>1, <2>2, EventsKept DEF OpInv, OpMoves
<1>4. ASSUME NEW i \in DOMAIN cache, DelRule(i) PROVE OpMoves
  BY <1>4, EventStaysPut DEF DelRule, leaks
<1>5. ASSUME NEW v \in Names, NEW s \in SrcIps, SrcIpConfig(v, s) PROVE OpMoves
  BY <1>5, EventStaysPut DEF SrcIpConfig, leaks
<1>6. ASSUME NEW e \in LeakEvents, PostLeak(e) PROVE OpMoves
  <2>1. UNCHANGED op /\ leak_events' = Append(leak_events, e)
    BY <1>6 DEF PostLeak
  <2>2. EventsOK'
    BY <2>1 DEF OpInv, EventsOK
  <2> QED
    BY <2>1, <2>2 DEF OpInv, OpMoves, OpShape
<1>7. ASSUME NEW x \in Vrfs \X Addrs, AddrChange(x) PROVE OpMoves
  BY <1>7, EventStaysPut DEF AddrChange, leaks
<1> QED
  BY <1>1, <1>2, <1>3, <1>4, <1>5, <1>6, <1>7 DEF Request

(* A step that leaves the names and the rules keeps what they are.         *)
LEMMA OthersKeepNames ==
  ASSUME NamesInv, OpMoves, UNCHANGED <<modes, netns, known, rules>>
  PROVE  NamesInv'
<1>1. NamesOK' /\ RulesTyped(default_rule', cache')
  BY DEF NamesInv, NamesOK, rules
<1>2. OwnedOK'
  BY DEF NamesInv, OwnedOK, OpMoves, rules
<1> QED
  BY <1>1, <1>2 DEF NamesInv

BaseInv == OpInv /\ NamesInv

(* At the start nothing is known and nobody works.                         *)
LEMMA BaseInit == Init => BaseInv
<1> SUFFICES ASSUME Init PROVE BaseInv
  OBVIOUS
<1>1. /\ netns = {} /\ known = {} /\ DOMAIN default_rule = {} /\ DOMAIN cache = {} /\ taken = {}
      /\ op = NoOp /\ leak_events = <<>>
  BY DEF Init, Empty
<1>2. OpInv
  BY <1>1, IdleOps DEF OpInv, OpShape, EventsOK
<1>3. IsFiniteSet(DOMAIN cache)
  BY <1>1, FS_EmptySet
<1>4. NamesOK /\ RulesTyped(default_rule, cache) /\ OwnedOK
  BY <1>1, <1>3, IdleOps DEF NamesOK, RulesTyped, OwnedOK, Owned
<1> QED
  BY <1>2, <1>4 DEF BaseInv, NamesInv

(* Every step keeps the names, ids and default rules.                      *)
LEMMA BaseStep == BaseInv /\ [Next]_vars => BaseInv'
<1> SUFFICES ASSUME BaseInv, [Next]_vars PROVE BaseInv'
  OBVIOUS
<1>1. OpInv /\ NamesInv /\ NamesOK
  BY DEF BaseInv, NamesInv
<1>2. CASE UNCHANGED vars
  <2>1. UNCHANGED <<modes, netns, known, rules, op, leak_events>>
    BY <1>2 DEF vars, maps, leaks
  <2>2. OpMoves
    BY <1>1, <2>1, EventStaysPut
  <2> QED
    BY <1>1, <2>1, <2>2, OthersKeepNames DEF BaseInv, OpMoves
<1>3. CASE HolderStep /\ UNCHANGED modes
  <2>1. OpMoves
    BY <1>1, <1>3, HolderMoves
  <2>2. CASE VrfDeleteEnds
    BY <1>1, <1>3, <2>1, <2>2, VrfDeleteEndsKeepsNames DEF OpInv, OpMoves, BaseInv
  <2>3. CASE ~VrfDeleteEnds
    <3>1. \/ Install \/ SetupPair \/ Uninstall \/ Teardown
          \/ \E key \in DOMAIN sub_net_map : TeardownStarts(key)
      BY <1>3, <2>3 DEF HolderStep
    <3>2. UNCHANGED <<netns, known, rules>>
      BY <3>1 DEF Install, SetupPair, Uninstall, Teardown, TeardownStarts, maps
    <3> QED
      BY <1>1, <1>3, <2>1, <3>2, OthersKeepNames DEF BaseInv, OpMoves
  <2> QED
    BY <2>2, <2>3
<1>4. CASE (LeakStep \/ IpEvent) /\ UNCHANGED modes
  <2>1. OpMoves
    BY <1>1, <1>4, ThreadsMove
  <2>2. UNCHANGED <<netns, known, rules>>
    BY <1>4 DEF LeakStep, LeakStarts, LeakRoute, IpEvent, maps
  <2> QED
    BY <1>1, <1>4, <2>1, <2>2, OthersKeepNames DEF BaseInv, OpMoves
<1>5. CASE Request /\ UNCHANGED modes
  <2>1. ASSUME NEW v \in Vrfs, VrfDelete(v) PROVE BaseInv'
    <3>1. "vrf" \in modes' /\ UNCHANGED leak_events /\ (op' = DeleteOp(v) \/ op' \in {NoOp, Dead})
      BY <1>5, <2>1, VrfDeleteIs DEF leaks
    <3>2. OpShape'
      BY <3>1, IdleShape, DeleteShape
    <3>3. OpInv'
      BY <1>1, <3>1, <3>2, EventsKept DEF OpInv
    <3> QED
      BY <1>1, <1>5, <2>1, <3>3, VrfDeleteKeepsNames DEF BaseInv
  <2>2. CASE \A v \in Vrfs : ~VrfDelete(v)
    <3>1. OpMoves
      BY <1>1, <1>5, <2>2, RequestMoves
    <3>2. ASSUME \/ \E v \in Vrfs : VrfCreate(v) \/ VrfCreateFails(v)
                 \/ \E v \in Names : AddRule(v)
          PROVE  NamesInv'
      BY <1>1, <1>5, <3>2, VrfCreateKeepsNames, VrfCreateFailsKeepsNames, AddRuleKeepsNames
    <3>3. ASSUME NEW i \in DOMAIN cache, DelRule(i) PROVE NamesInv'
      BY <1>1, <1>5, <3>3, DelRuleKeepsNames
    <3>4. ASSUME \/ \E v \in Vrfs : Service(v)
                 \/ \E v \in Names, s \in SrcIps : SrcIpConfig(v, s)
                 \/ \E e \in LeakEvents : PostLeak(e)
                 \/ \E x \in Vrfs \X Addrs : AddrChange(x)
          PROVE  NamesInv'
      <4>1. UNCHANGED <<netns, known, rules>>
        BY <3>4 DEF Service, SrcIpConfig, PostLeak, AddrChange, maps
      <4> QED
        BY <1>1, <1>5, <3>1, <4>1, OthersKeepNames
    <3>5. NamesInv'
      BY <1>5, <2>2, <3>2, <3>3, <3>4 DEF Request
    <3> QED
      BY <3>1, <3>5 DEF BaseInv, OpMoves
  <2> QED
    BY <2>1, <2>2
<1> QED
  BY <1>2, <1>3, <1>4, <1>5 DEF Next

(* Names, ids and default rules are in order, always.                      *)
LEMMA BaseAlways == Spec => []BaseInv
<1>1. Init => BaseInv
  BY BaseInit
<1>2. BaseInv /\ [Next]_vars => BaseInv'
  BY BaseStep
<1> QED
  BY <1>1, <1>2, PTL DEF Spec

(* base_vrf.py deletes the default rules of a VRF by the ids it kept.      *)
(* These are ids of default rules of that very VRF, whatever fails and     *)
(* whoever else adds and deletes rules, until a request deletes a default  *)
(* rule itself, by its id or with all the rules of a name; from then on    *)
(* the deletion of that VRF may take the default rule of another one.      *)
THEOREM DefaultRulesOwnedAlways == Spec => []DefaultRulesOwnedUnlessTaken
<1>1. BaseInv => DefaultRulesOwnedUnlessTaken
  BY DEF BaseInv, NamesInv, OwnedOK, Owned, DefaultRulesOwnedUnlessTaken
<1> QED
  BY <1>1, BaseAlways, PTL

-----------------------------------------------------------------------------
(* The recorded pairs.                                                     *)
PairsOK ==
  /\ DOMAIN sub_net_map \subseteq Names \X Names
  /\ sub_net_map \in [DOMAIN sub_net_map -> Vals]
  /\ SubnetsDistinct

(* Every pair of the kernel is the one of a record.                        *)
VethOK ==
  \A p \in DOMAIN veth : \E k \in DOMAIN sub_net_map :
    p = {k[1], k[2]} /\ veth[p] = [first |-> k[1], val |-> sub_net_map[k]]

(* The holder of the mutex sets up a pair that is not recorded, and takes  *)
(* down one of its VRF that is.                                            *)
OpPairsOK ==
  /\ op.kind = "setup" => ~Recorded(op.key[1], op.key[2])
  /\ op.kind = "delete" /\ op.step # "none" =>
       op.key \in DOMAIN sub_net_map /\ op.vrf \in {op.key[1], op.key[2]}

PairsInv == PairsOK /\ VethOK /\ OpPairsOK /\ src_ip_map \subseteq Names \X SrcIps

(* Two records are of the same two VRFs if they are one, or one turned     *)
(* round.                                                                  *)
LEMMA EndsEqual ==
  ASSUME NEW k \in Names \X Names, NEW l \in Names \X Names, {k[1], k[2]} = {l[1], l[2]}
  PROVE  k = l \/ k = <<l[2], l[1]>>
<1>1. \/ k[1] = l[1] /\ k[2] = l[2]
      \/ k[1] = l[2] /\ k[2] = l[1]
  OBVIOUS
<1>2. k = <<k[1], k[2]>> /\ l = <<l[1], l[2]>>
  OBVIOUS
<1> QED
  BY <1>1, <1>2

(* The records of two VRFs are one.                                        *)
LEMMA OneRecord ==
  ASSUME PairsOK, NEW k \in DOMAIN sub_net_map, NEW l \in DOMAIN sub_net_map,
         {k[1], k[2]} = {l[1], l[2]}
  PROVE  k = l
<1>1. k \in Names \X Names /\ l \in Names \X Names
  BY DEF PairsOK
<1>2. k = l \/ k = <<l[2], l[1]>>
  BY <1>1, EndsEqual
<1>3. k = <<l[2], l[1]>> => l = k
  BY DEF PairsOK, SubnetsDistinct
<1> QED
  BY <1>2, <1>3

(* A pair that is not recorded is not in the kernel.                       *)
LEMMA NoVethUnrecorded ==
  ASSUME PairsOK, VethOK, NEW k \in Names \X Names, ~Recorded(k[1], k[2])
  PROVE  {k[1], k[2]} \notin DOMAIN veth
<1>1. SUFFICES ASSUME {k[1], k[2]} \in DOMAIN veth PROVE FALSE
  OBVIOUS
<1>2. PICK l \in DOMAIN sub_net_map : {k[1], k[2]} = {l[1], l[2]}
  BY <1>1 DEF VethOK
<1>3. l \in Names \X Names
  BY DEF PairsOK
<1>4. l = k \/ l = <<k[2], k[1]>>
  BY <1>2, <1>3, EndsEqual
<1>5. k = <<k[1], k[2]>>
  OBVIOUS
<1> QED
  BY <1>4, <1>5 DEF Recorded

(* Recording a value that no pair has.                                     *)
LEMMA RecordKeepsPairs ==
  ASSUME PairsOK, NEW pair, pair \in Names \X Names, pair[1] # pair[2],
         ~Recorded(pair[1], pair[2]), NEW net, net \in FreeVal,
         sub_net_map' = With(sub_net_map, pair, net)
  PROVE  /\ PairsOK'
         /\ DOMAIN sub_net_map' = DOMAIN sub_net_map \cup {pair} /\ pair \notin DOMAIN sub_net_map
         /\ sub_net_map'[pair] = net
         /\ \A k \in DOMAIN sub_net_map : sub_net_map'[k] = sub_net_map[k]
<1> DEFINE d == With(sub_net_map, pair, net)
<1>1. pair = <<pair[1], pair[2]>>
  OBVIOUS
<1>2. pair \notin DOMAIN sub_net_map /\ <<pair[2], pair[1]>> \notin DOMAIN sub_net_map
  BY <1>1 DEF Recorded
<1>3. /\ DOMAIN d = DOMAIN sub_net_map \cup {pair} /\ d[pair] = net
      /\ \A k \in DOMAIN sub_net_map : d[k] = sub_net_map[k]
  <2>1. pair \notin DOMAIN sub_net_map
    BY <1>2
  <2> QED
    BY ONLY <2>1, WithIs
<1>4. net \in Vals /\ \A k \in DOMAIN sub_net_map : sub_net_map[k] # net
  BY FreeValIs DEF UsedVals
<1>5. d \in [DOMAIN d -> Vals]
  BY <1>3, <1>4 DEF With, PairsOK
<1> HIDE DEF d
<1>6. DOMAIN d \subseteq Names \X Names
  BY <1>3 DEF PairsOK
<1>7. ASSUME NEW k \in DOMAIN d, NEW l \in DOMAIN d
      PROVE  /\ d[k] = d[l] => k = l
             /\ k[1] # k[2] /\ (l = <<k[2], k[1]>> => k = l)
  <2>1. CASE k \in DOMAIN sub_net_map /\ l \in DOMAIN sub_net_map
    BY <1>3, <2>1 DEF PairsOK, SubnetsDistinct
  <2>2. CASE k = pair /\ l \in DOMAIN sub_net_map
    BY <1>2, <1>3, <1>4, <2>2
  <2>3. CASE l = pair /\ k \in DOMAIN sub_net_map
    <3>1. k[1] # k[2] /\ d[k] # d[l]
      BY <1>3, <1>4, <2>3 DEF PairsOK, SubnetsDistinct
    <3>2. k = <<k[1], k[2]>>
      BY <2>3 DEF PairsOK
    <3>3. l # <<k[2], k[1]>>
      BY <1>2, <2>3, <3>2
    <3> QED
      BY <3>1, <3>3
  <2>4. CASE k = pair /\ l = pair
    BY <2>4
  <2> QED
    BY <1>3, <2>1, <2>2, <2>3, <2>4
<1>8. sub_net_map' = d
  BY DEF d
<1>9. PairsOK'
  BY <1>5, <1>6, <1>7, <1>8 DEF PairsOK, SubnetsDistinct
<1> QED
  BY <1>2, <1>3, <1>8, <1>9

(* Dropping a record.                                                      *)
LEMMA DropKeepsPairs ==
  ASSUME PairsOK, NEW key, sub_net_map' = Drop(sub_net_map, {key})
  PROVE  /\ PairsOK' /\ DOMAIN sub_net_map' = DOMAIN sub_net_map \ {key}
         /\ \A k \in DOMAIN sub_net_map' : sub_net_map'[k] = sub_net_map[k]
<1> DEFINE d == Drop(sub_net_map, {key})
<1>1. /\ DOMAIN d = DOMAIN sub_net_map \ {key}
      /\ \A k \in DOMAIN sub_net_map \ {key} : d[k] = sub_net_map[k]
  BY DropIs
<1>2. d \in [DOMAIN d -> Vals]
  BY <1>1 DEF Drop, PairsOK
<1>3. sub_net_map' = d
  BY DEF d
<1> HIDE DEF d
<1>4. DOMAIN d \subseteq Names \X Names
  BY <1>1 DEF PairsOK
<1>5. \A k, l \in DOMAIN d :
        /\ d[k] = d[l] => k = l
        /\ k[1] # k[2] /\ (l = <<k[2], k[1]>> => k = l)
  BY <1>1 DEF PairsOK, SubnetsDistinct
<1>6. PairsOK'
  BY <1>2, <1>3, <1>4, <1>5 DEF PairsOK, SubnetsDistinct
<1> QED
  BY <1>1, <1>3, <1>6

(* Nothing else touches the records or the pairs of the kernel.            *)
LEMMA OthersKeepPairs ==
  ASSUME PairsInv, UNCHANGED <<sub_net_map, veth, src_ip_map>>, OpPairsOK'
  PROVE  PairsInv'
BY DEF PairsInv, PairsOK, VethOK, SubnetsDistinct

(* A work that goes on with its key, or ends, fits the records as before.  *)
LEMMA OpPairsKept ==
  ASSUME OpPairsOK, UNCHANGED sub_net_map,
         \/ op' \in {NoOp, Dead}
         \/ /\ op'.kind = op.kind /\ op'.key = op.key /\ op'.vrf = op.vrf
            /\ op'.step # "none" => op.step # "none"
  PROVE  OpPairsOK'
<1>1. CASE op' \in {NoOp, Dead}
  BY <1>1, IdleShape DEF OpPairsOK
<1>2. CASE /\ op'.kind = op.kind /\ op'.key = op.key /\ op'.vrf = op.vrf
           /\ op'.step # "none" => op.step # "none"
  BY <1>2 DEF OpPairsOK, Recorded
<1> QED
  BY <1>1, <1>2

(* A setup begins only for a pair that is not recorded.                    *)
LEMMA SetupBeginsPairs ==
  ASSUME NEW by, NEW v, NEW w, SetupBegins(by, v, w)
  PROVE  OpPairsOK' /\ UNCHANGED <<sub_net_map, veth, src_ip_map>>
<1>1. op' = SetupOp(by, v, w) /\ ~Recorded(v, w) /\ UNCHANGED <<sub_net_map, veth, src_ip_map>>
  BY DEF SetupBegins, maps, pairs
<1>2. op'.kind = "setup" /\ op'.key = <<v, w>>
  <2> DEFINE o == SetupOp(by, v, w)
  <2>1. /\ o.by = by /\ o.kind = "setup" /\ o.key = <<v, w>> /\ o.step = "install"
        /\ o.listed = Listed(<<v, w>>)
    BY ONLY SetupOpIs
  <2>2. op' = o
    BY <1>1
  <2> HIDE DEF o
  <2> QED
    BY <2>1, <2>2
<1>3. op'.key[1] = v /\ op'.key[2] = w
  BY <1>2
<1> QED
  BY <1>1, <1>2, <1>3 DEF OpPairsOK, Recorded

(* A pair is recorded with a value that no other pair has.                 *)
LEMMA SetupPairKeepsPairs ==
  ASSUME OpShape, PairsInv, SetupPair
  PROVE  PairsInv'
<1>1. /\ op.kind = "setup" /\ UNCHANGED src_ip_map /\ op' \in {NoOp, Dead}
      /\ \/ UNCHANGED <<sub_net_map, pairs>>
         \/ \E val \in FreeVal :
              /\ sub_net_map' = With(sub_net_map, op.key, val)
              /\ veth' \in {veth, WithPair(op.key, val)}
  BY SetupPairIs DEF pairs
<1>2. OpPairsOK'
  BY <1>1, IdleShape DEF OpPairsOK
<1>3. CASE UNCHANGED <<sub_net_map, pairs>>
  BY <1>1, <1>2, <1>3, OthersKeepPairs DEF pairs
<1>4. ASSUME NEW val, val \in FreeVal, sub_net_map' = With(sub_net_map, op.key, val),
             veth' \in {veth, WithPair(op.key, val)}
      PROVE  PairsInv'
  <2> DEFINE key == op.key
             ends == {key[1], key[2]}
             mk == [first |-> key[1], val |-> val]
             w == With(veth, ends, mk)
  <2>1. key \in Names \X Names /\ key[1] # key[2] /\ ~Recorded(key[1], key[2])
    BY <1>1 DEF OpShape, PairsInv, OpPairsOK
  <2>2. veth' \in {veth, w}
    BY <1>4 DEF WithPair
  <2>3. sub_net_map' = With(sub_net_map, key, val)
    BY <1>4
  <2> HIDE DEF key
  <2>4. /\ PairsOK'
        /\ DOMAIN sub_net_map' = DOMAIN sub_net_map \cup {key} /\ sub_net_map'[key] = val
        /\ \A k \in DOMAIN sub_net_map : sub_net_map'[k] = sub_net_map[k]
    BY <1>4, <2>1, <2>3, RecordKeepsPairs DEF PairsInv
  <2>5. ends \notin DOMAIN veth
    BY <2>1, NoVethUnrecorded DEF PairsInv
  <2> DEFINE At(p, k, r) == p = {k[1], k[2]} /\ r = [first |-> k[1], val |-> sub_net_map'[k]]
  <2>6. ASSUME NEW p \in DOMAIN veth PROVE \E k \in DOMAIN sub_net_map' : At(p, k, veth[p])
    <3>1. PICK k \in DOMAIN sub_net_map :
            p = {k[1], k[2]} /\ veth[p] = [first |-> k[1], val |-> sub_net_map[k]]
      BY <2>6 DEF PairsInv, VethOK
    <3>2. k \in DOMAIN sub_net_map' /\ sub_net_map'[k] = sub_net_map[k]
      BY <2>4
    <3> QED
      BY <3>1, <3>2
  <2>7. DOMAIN w = DOMAIN veth \cup {ends} /\ w[ends] = mk /\ \A p \in DOMAIN veth : w[p] = veth[p]
    <3> HIDE DEF mk, ends
    <3> QED
      BY ONLY <2>5, WithIs
  <2>8. ASSUME veth' = w PROVE \A p \in DOMAIN veth' : \E k \in DOMAIN sub_net_map' : At(p, k, veth'[p])
    <3>1. SUFFICES ASSUME NEW p \in DOMAIN veth'
                   PROVE  \E k \in DOMAIN sub_net_map' : At(p, k, veth'[p])
      OBVIOUS
    <3> HIDE DEF w
    <3>2. CASE p = ends
      <4>1. veth'[p] = mk
        BY <2>7, <2>8, <3>2
      <4>2. At(p, key, veth'[p])
        BY <2>4, <3>2, <4>1
      <4> QED
        BY <2>4, <4>2
    <3>3. CASE p \in DOMAIN veth
      BY <2>6, <2>7, <2>8, <3>3
    <3> QED
      BY <2>7, <2>8, <3>1, <3>2, <3>3
  <2>9. VethOK'
    BY <2>2, <2>6, <2>8 DEF VethOK
  <2> QED
    BY <1>1, <1>2, <2>4, <2>9 DEF PairsInv
<1> QED
  BY <1>1, <1>3, <1>4

(* A teardown removes the pair and its record together.                    *)
LEMMA TeardownKeepsPairs ==
  ASSUME OpShape, PairsInv, Teardown, UNCHANGED modes
  PROVE  PairsInv'
<1> DEFINE key == op.key
           ends == {key[1], key[2]}
<1>1. /\ op.kind = "delete" /\ op.step = "teardown" /\ UNCHANGED src_ip_map
      /\ op' = [op EXCEPT !.step = "none"] \/ op' \in {NoOp, Dead}
      /\ \/ veth' = Drop(veth, {ends}) /\ sub_net_map' = Drop(sub_net_map, {key})
         \/ UNCHANGED <<veth, sub_net_map>>
  BY TeardownIs
<1>2. op'.kind \notin {"setup", "delete"} \/ (op'.kind = "delete" /\ op'.step = "none")
  BY <1>1, IdleShape, StepShape
<1>3. OpPairsOK'
  BY <1>2 DEF OpPairsOK
<1>4. CASE UNCHANGED <<veth, sub_net_map>>
  BY <1>1, <1>3, <1>4, OthersKeepPairs
<1>5. CASE veth' = Drop(veth, {ends}) /\ sub_net_map' = Drop(sub_net_map, {key})
  <2> HIDE DEF key
  <2>1. /\ PairsOK' /\ DOMAIN sub_net_map' = DOMAIN sub_net_map \ {key}
        /\ \A k \in DOMAIN sub_net_map' : sub_net_map'[k] = sub_net_map[k]
    BY <1>5, DropKeepsPairs DEF PairsInv
  <2>2. DOMAIN veth' = DOMAIN veth \ {ends} /\ \A p \in DOMAIN veth' : veth'[p] = veth[p]
    <3> HIDE DEF ends
    <3> DEFINE d == Drop(veth, {ends})
    <3>1. DOMAIN d = DOMAIN veth \ {ends} /\ \A p \in DOMAIN veth \ {ends} : d[p] = veth[p]
      BY ONLY DropIs
    <3>2. veth' = d
      BY <1>5
    <3> HIDE DEF d
    <3> QED
      BY <3>1, <3>2
  <2>3. ASSUME NEW p \in DOMAIN veth'
        PROVE  \E k \in DOMAIN sub_net_map' :
                 p = {k[1], k[2]} /\ veth'[p] = [first |-> k[1], val |-> sub_net_map'[k]]
    <3>1. PICK k \in DOMAIN sub_net_map :
            p = {k[1], k[2]} /\ veth[p] = [first |-> k[1], val |-> sub_net_map[k]]
      BY <2>2 DEF PairsInv, VethOK
    <3>2. k # key
      BY <2>2, <3>1
    <3> QED
      BY <2>1, <2>2, <3>1, <3>2
  <2>4. VethOK'
    BY <2>3 DEF VethOK
  <2> QED
    BY <1>1, <1>3, <2>1, <2>4 DEF PairsInv
<1> QED
  BY <1>1, <1>4, <1>5

(* Pairs of the kernel that go with a namespace leave the others as they   *)
(* are.                                                                    *)
LEMMA VrfDeleteEndsKeepsPairs ==
  ASSUME PairsInv, VrfDeleteEnds
  PROVE  PairsInv'
<1>1. /\ UNCHANGED <<sub_net_map, src_ip_map>> /\ op' \in {NoOp, Dead}
      /\ veth' = veth \/ \E ps : veth' = Keep(veth, ps)
  BY VrfDeleteEndsIs
<1>2. DOMAIN veth' \subseteq DOMAIN veth /\ \A p \in DOMAIN veth' : veth'[p] = veth[p]
  <2>1. CASE veth' = veth
    BY <2>1
  <2>2. ASSUME NEW ps, veth' = Keep(veth, ps)
        PROVE  DOMAIN veth' \subseteq DOMAIN veth /\ \A p \in DOMAIN veth' : veth'[p] = veth[p]
    <3> DEFINE d == Keep(veth, ps)
    <3>1. DOMAIN d = DOMAIN veth \cap ps /\ \A p \in DOMAIN veth \cap ps : d[p] = veth[p]
      BY ONLY KeepIs
    <3>2. veth' = d
      BY <2>2
    <3> HIDE DEF d
    <3> QED
      BY <3>1, <3>2
  <2> QED
    BY <1>1, <2>1, <2>2
<1>3. OpPairsOK'
  BY <1>1, IdleShape DEF OpPairsOK
<1>4. VethOK'
  BY <1>1, <1>2 DEF PairsInv, VethOK
<1> QED
  BY <1>1, <1>3, <1>4 DEF PairsInv, PairsOK, SubnetsDistinct

(* Source addresses do not concern the pairs themselves.                   *)
LEMMA SrcIpConfigKeepsPairs ==
  ASSUME PairsInv, NEW v \in Names, NEW s \in SrcIps, SrcIpConfig(v, s)
  PROVE  PairsInv'
<1>1. /\ UNCHANGED <<sub_net_map, veth, op>>
      /\ src_ip_map' = src_ip_map \cup {<<v, s>>} \/ src_ip_map' = src_ip_map \ {<<v, s>>}
  BY DEF SrcIpConfig
<1>2. src_ip_map' \subseteq Names \X SrcIps
  BY <1>1 DEF PairsInv
<1>3. OpPairsOK'
  BY <1>1 DEF PairsInv, OpPairsOK, Recorded
<1> QED
  BY <1>1, <1>2, <1>3 DEF PairsInv, PairsOK, VethOK, SubnetsDistinct

(* Every step of the holder of the mutex keeps the pairs in order.         *)
LEMMA HolderKeepsPairs ==
  ASSUME BaseInv, PairsInv, HolderStep, UNCHANGED modes
  PROVE  PairsInv'
<1>0. OpShape /\ OpPairsOK
  BY DEF BaseInv, OpInv, PairsInv
<1>1. CASE Install
  <2>1. /\ op.kind = "setup" /\ UNCHANGED <<sub_net_map, veth, src_ip_map>>
        /\ op' = [op EXCEPT !.step = "setup"] \/ op' \in {NoOp, Dead}
    BY <1>1, InstallIs DEF maps, pairs
  <2>2. op' \in {NoOp, Dead} \/ (op'.kind = op.kind /\ op'.key = op.key /\ op'.vrf = op.vrf)
    BY <1>0, <2>1, StepShape
  <2>3. op'.kind # "delete"
    BY <2>1, <2>2, IdleShape
  <2>4. OpPairsOK'
    BY <1>0, <2>1, <2>2, <2>3, IdleShape DEF OpPairsOK, Recorded
  <2> QED
    BY <2>1, <2>4, OthersKeepPairs
<1>2. CASE SetupPair
  BY <1>0, <1>2, SetupPairKeepsPairs
<1>3. ASSUME NEW key \in DOMAIN sub_net_map, TeardownStarts(key) PROVE PairsInv'
  <2>1. /\ op.kind = "delete" /\ UNCHANGED <<sub_net_map, veth, src_ip_map>>
        /\ key \in KeysOf(op.vrf)
        /\ op' = NextPair(key) \/ op' \in {NoOp, Dead}
    BY <1>3, TeardownStartsIs DEF maps, pairs
  <2>2. key \in DOMAIN sub_net_map /\ op.vrf \in {key[1], key[2]}
    BY <2>1 DEF KeysOf
  <2>3. \/ op'.kind \notin {"setup", "delete"}
        \/ op'.kind = "delete" /\ op'.vrf = op.vrf /\ op'.key = key
    BY <1>0, <2>1, IdleShape, NextPairShape
  <2>4. OpPairsOK'
    BY <2>1, <2>2, <2>3 DEF OpPairsOK
  <2> QED
    BY <2>1, <2>4, OthersKeepPairs
<1>4. CASE Uninstall
  <2>1. /\ op.kind = "delete" /\ op.step = "uninstall"
        /\ UNCHANGED <<sub_net_map, veth, src_ip_map>>
        /\ op' = [op EXCEPT !.step = "teardown"] \/ op' \in {NoOp, Dead}
    BY <1>4, UninstallIs DEF maps, pairs
  <2>2. op' \in {NoOp, Dead} \/ (op'.kind = op.kind /\ op'.key = op.key /\ op'.vrf = op.vrf)
    BY <1>0, <2>1, StepShape
  <2>3. OpPairsOK'
    BY <1>0, <2>1, <2>2, OpPairsKept
  <2> QED
    BY <2>1, <2>3, OthersKeepPairs
<1>5. CASE Teardown
  BY <1>0, <1>5, TeardownKeepsPairs
<1>6. CASE VrfDeleteEnds
  BY <1>6, VrfDeleteEndsKeepsPairs
<1> QED
  BY <1>1, <1>2, <1>3, <1>4, <1>5, <1>6 DEF HolderStep

(* So does a step that concerns no pair.                                   *)
LEMMA OpStaysPairs ==
  ASSUME PairsInv, UNCHANGED <<op, sub_net_map, veth, src_ip_map>>
  PROVE  PairsInv'
<1>1. OpPairsOK'
  BY DEF PairsInv, OpPairsOK, Recorded
<1> QED
  BY <1>1, OthersKeepPairs

(* Every step keeps the pairs in order.                                    *)
LEMMA PairsStep ==
  ASSUME BaseInv, PairsInv, [Next]_vars
  PROVE  PairsInv'
<1>1. CASE UNCHANGED vars
  <2>1. UNCHANGED <<op, sub_net_map, veth, src_ip_map>>
    BY <1>1 DEF vars, maps, pairs
  <2> QED
    BY <2>1, OpStaysPairs
<1>2. CASE HolderStep /\ UNCHANGED modes
  BY <1>2, HolderKeepsPairs
<1>3. CASE LeakStarts
  <2>1. EventsOK
    BY DEF BaseInv, OpInv
  <2>2. PICK e : /\ UNCHANGED <<maps, pairs>>
                 /\ op' \in {NoOp, Dead} \/ SetupBegins("leak", e.vrf, e.src)
    BY <1>3, <2>1, LeakStartsIs
  <2>3. CASE op' \in {NoOp, Dead}
    BY <2>2, <2>3, OpPairsKept, OthersKeepPairs DEF PairsInv, maps, pairs
  <2>4. CASE SetupBegins("leak", e.vrf, e.src)
    BY <2>4, SetupBeginsPairs, OthersKeepPairs
  <2> QED
    BY <2>2, <2>3, <2>4
<1>4. CASE LeakRoute \/ IpEvent
  <2>1. UNCHANGED <<op, sub_net_map, veth, src_ip_map>>
    BY <1>4 DEF LeakRoute, IpEvent, maps, pairs
  <2> QED
    BY <2>1, OpStaysPairs
<1>5. ASSUME NEW v \in Vrfs, Service(v) PROVE PairsInv'
  <2>1. /\ UNCHANGED <<maps, pairs>>
        /\ op' \in {NoOp, Dead} \/ SetupBegins("cps", v, Default)
    BY <1>5, ServiceIs
  <2>2. CASE op' \in {NoOp, Dead}
    BY <2>1, <2>2, OpPairsKept, OthersKeepPairs DEF PairsInv, maps, pairs
  <2>3. CASE SetupBegins("cps", v, Default)
    BY <2>3, SetupBeginsPairs, OthersKeepPairs
  <2> QED
    BY <2>1, <2>2, <2>3
<1>6. ASSUME NEW v \in Vrfs, VrfDelete(v) PROVE PairsInv'
  <2>1. /\ UNCHANGED <<sub_net_map, veth, src_ip_map>>
        /\ op' = DeleteOp(v) \/ op' \in {NoOp, Dead}
    BY <1>6, VrfDeleteIs DEF pairs
  <2>2. op'.kind \notin {"setup", "delete"} \/ (op'.kind = "delete" /\ op'.step = "none")
    BY <2>1, IdleShape, DeleteOpIs
  <2>3. OpPairsOK'
    BY <2>2 DEF OpPairsOK
  <2> QED
    BY <2>1, <2>3, OthersKeepPairs
<1>7. ASSUME NEW v \in Vrfs, VrfCreateFails(v) PROVE PairsInv'
  <2>1. UNCHANGED <<sub_net_map, veth, src_ip_map>> /\ op' \in {NoOp, Dead}
    BY <1>7, RaisedInIs DEF VrfCreateFails, pairs
  <2> QED
    BY <2>1, OpPairsKept, OthersKeepPairs DEF PairsInv
<1>8. ASSUME (\E v \in Vrfs : VrfCreate(v)) \/ (\E v \in Names : AddRule(v)) PROVE PairsInv'
  <2>1. UNCHANGED <<op, sub_net_map, veth, src_ip_map>>
    BY <1>8 DEF VrfCreate, AddRule, pairs
  <2> QED
    BY <2>1, OpStaysPairs
<1>9. ASSUME NEW v \in Names, NEW s \in SrcIps, SrcIpConfig(v, s) PROVE PairsInv'
  BY <1>9, SrcIpConfigKeepsPairs
<1>10. ASSUME \/ \E i \in DOMAIN cache : DelRule(i)
              \/ \E e \in LeakEvents : PostLeak(e)
              \/ \E x \in Vrfs \X Addrs : AddrChange(x)
       PROVE  PairsInv'
  <2>1. UNCHANGED <<op, sub_net_map, veth, src_ip_map>>
    BY <1>10 DEF DelRule, PostLeak, AddrChange, maps, pairs
  <2> QED
    BY <2>1, OpStaysPairs
<1> QED
  BY <1>1, <1>2, <1>3, <1>4, <1>5, <1>6, <1>7, <1>8, <1>9, <1>10 DEF Next, LeakStep, Request

(* The pairs are in order, always.                                         *)
LEMMA PairsAlways == Spec => [](BaseInv /\ PairsInv)
<1>1. Init => PairsInv
  <2> SUFFICES ASSUME Init PROVE PairsInv
    OBVIOUS
  <2>1. DOMAIN sub_net_map = {} /\ DOMAIN veth = {} /\ src_ip_map = {} /\ op = NoOp
    BY DEF Init, Empty
  <2>2. sub_net_map \in [DOMAIN sub_net_map -> Vals]
    BY <2>1 DEF Init, Empty
  <2> QED
    BY <2>1, <2>2, IdleOps DEF PairsInv, PairsOK, VethOK, OpPairsOK, SubnetsDistinct
<1>2. BaseInv /\ PairsInv /\ [Next]_vars => PairsInv'
  BY PairsStep
<1> QED
  BY <1>1, <1>2, BaseAlways, PTL DEF Spec

-----------------------------------------------------------------------------
(* The addresses, their events and their nat rules; what the holder of the *)
(* mutex has read of them are addresses.                                   *)
IpEvents == [add : BOOLEAN, at : Vrfs \X Addrs]

NatTypes ==
  /\ addr \subseteq Vrfs \X Addrs /\ ip_addr_map \subseteq Vrfs \X Addrs
  /\ ip_events \in Seq(IpEvents)
  /\ nat \in [Vrfs \X Addrs -> Nat] /\ ipsvcs_lost \in BOOLEAN

NatInv == NatTypes /\ op.listed \subseteq Vrfs \X Addrs /\ NatMarked

(* Nothing but the listing of a new setup or teardown changes here.        *)
LEMMA OthersKeepNat ==
  ASSUME NatInv, UNCHANGED <<modes, ips>>, op'.listed \subseteq op.listed \cup addr
  PROVE  NatInv'
<1>1. UNCHANGED <<addr, ip_events, ip_addr_map, nat, ipsvcs_lost>>
  BY DEF ips
<1>2. NatTypes'
  BY <1>1 DEF NatInv, NatTypes
<1>3. NatMarked'
  BY <1>1 DEF NatInv, NatMarked, CanFail
<1> QED
  BY <1>2, <1>3 DEF NatInv, NatTypes

(* Work that ends has no addresses listed.                                 *)
LEMMA IdleListed ==
  ASSUME op' \in {NoOp, Dead} PROVE op'.listed \subseteq op.listed \cup addr
BY IdleOps

(* A setup lists addresses that are there.                                 *)
LEMMA SetupListed ==
  ASSUME NEW by, NEW v, NEW w, op' = SetupOp(by, v, w)
  PROVE  op'.listed \subseteq op.listed \cup addr
<1> DEFINE o == SetupOp(by, v, w)
<1>1. /\ o.by = by /\ o.kind = "setup" /\ o.key = <<v, w>> /\ o.step = "install"
      /\ o.listed = Listed(<<v, w>>)
  BY ONLY SetupOpIs
<1>2. Listed(<<v, w>>) \subseteq addr
  BY DEF Listed
<1>3. op' = o
  OBVIOUS
<1> HIDE DEF o
<1> QED
  BY <1>1, <1>2, <1>3

(* A setup adds rules only for addresses it then marks.                    *)
LEMMA InstallKeepsNat ==
  ASSUME OpShape, NatInv, Install, UNCHANGED modes
  PROVE  NatInv'
<1> DEFINE todo == op.listed \ ip_addr_map
<1>1. PICK done \in SUBSET todo, failed \in SUBSET todo :
        /\ NatRules(todo, done, failed, "setup")
        /\ ip_addr_map' = ip_addr_map \cup done \cup failed
        /\ nat' = [x \in DOMAIN nat |-> IF x \in done THEN nat[x] + 1 ELSE nat[x]]
  BY DEF Install
<1>2. /\ UNCHANGED <<addr, ip_events>> /\ op.kind = "setup"
      /\ op' = [op EXCEPT !.step = "setup"] \/ op' \in {NoOp, Dead}
  BY InstallIs
<1>3. op'.listed \subseteq Vrfs \X Addrs
  BY <1>2, StepShape, IdleListed DEF NatInv, NatTypes
<1>4. todo \subseteq Vrfs \X Addrs
  BY DEF NatInv
<1>5. ip_addr_map' \subseteq Vrfs \X Addrs
  BY <1>1, <1>4 DEF NatInv, NatTypes
<1>6. nat' \in [Vrfs \X Addrs -> Nat]
  BY <1>1 DEF NatInv, NatTypes
<1>7. ipsvcs_lost' \in BOOLEAN
  BY <1>1 DEF NatRules, NatInv, NatTypes
<1>8. NatTypes'
  BY <1>2, <1>5, <1>6, <1>7 DEF NatInv, NatTypes
<1>9. ASSUME ~CanFail PROVE \A x \in DOMAIN nat' : nat'[x] <= IF x \in ip_addr_map' THEN 1 ELSE 0
  <2>1. SUFFICES ASSUME NEW x \in Vrfs \X Addrs
                 PROVE  nat'[x] <= IF x \in ip_addr_map' THEN 1 ELSE 0
    BY <1>6
  <2>2. nat[x] <= (IF x \in ip_addr_map THEN 1 ELSE 0) /\ nat[x] \in Nat /\ nat'[x] \in Nat
    BY <1>6, <1>9, <2>1 DEF NatInv, NatTypes, NatMarked
  <2>3. nat'[x] = IF x \in done THEN nat[x] + 1 ELSE nat[x]
    BY <1>1, <2>1 DEF NatInv, NatTypes
  <2>4. /\ x \in done => x \notin ip_addr_map /\ x \in ip_addr_map'
        /\ x \in ip_addr_map => x \in ip_addr_map'
    BY <1>1
  <2> QED
    BY <2>2, <2>3, <2>4
<1>10. NatMarked'
  BY <1>9 DEF NatMarked, CanFail
<1> QED
  BY <1>3, <1>8, <1>10 DEF NatInv

(* A delete takes the rules of the addresses it unmarks along, unless a    *)
(* command fails.                                                          *)
LEMMA UninstallKeepsNat ==
  ASSUME OpShape, NatInv, Uninstall, UNCHANGED modes
  PROVE  NatInv'
<1> DEFINE todo == op.listed \cap ip_addr_map
<1>1. PICK done \in SUBSET todo, failed \in SUBSET todo :
        /\ NatRules(todo, done, failed, "teardown")
        /\ ip_addr_map' = ip_addr_map \ (done \cup failed)
        /\ nat' = [x \in DOMAIN nat |-> IF x \in done /\ nat[x] > 0 THEN nat[x] - 1 ELSE nat[x]]
  BY DEF Uninstall
<1>2. /\ UNCHANGED <<addr, ip_events>> /\ op.kind = "delete"
      /\ op' = [op EXCEPT !.step = "teardown"] \/ op' \in {NoOp, Dead}
  BY UninstallIs
<1>3. op'.listed \subseteq Vrfs \X Addrs
  BY <1>2, StepShape, IdleListed DEF NatInv, NatTypes
<1>4. ip_addr_map' \subseteq Vrfs \X Addrs
  BY <1>1 DEF NatInv, NatTypes
<1>5. ASSUME NEW x \in Vrfs \X Addrs
      PROVE  /\ nat[x] \in Nat /\ nat'[x] \in Nat
             /\ nat'[x] = IF x \in done /\ nat[x] > 0 THEN nat[x] - 1 ELSE nat[x]
  <2>1. nat[x] \in Nat
    BY <1>5 DEF NatInv, NatTypes
  <2>2. nat'[x] = IF x \in done /\ nat[x] > 0 THEN nat[x] - 1 ELSE nat[x]
    BY <1>1, <1>5 DEF NatInv, NatTypes
  <2> QED
    BY <2>1, <2>2
<1>6. nat' \in [Vrfs \X Addrs -> Nat]
  BY <1>1, <1>5 DEF NatInv, NatTypes
<1>7. ipsvcs_lost' \in BOOLEAN
  BY <1>1 DEF NatRules, NatInv, NatTypes
<1>8. NatTypes'
  BY <1>2, <1>4, <1>6, <1>7 DEF NatInv, NatTypes
<1>9. ASSUME ~CanFail PROVE \A x \in DOMAIN nat' : nat'[x] <= IF x \in ip_addr_map' THEN 1 ELSE 0
  <2>1. SUFFICES ASSUME NEW x \in Vrfs \X Addrs
                 PROVE  nat'[x] <= IF x \in ip_addr_map' THEN 1 ELSE 0
    BY <1>6
  <2>2. nat[x] <= (IF x \in ip_addr_map THEN 1 ELSE 0)
    BY <1>9, <2>1 DEF NatInv, NatTypes, NatMarked
  <2>3. failed = {}
    BY <1>1, <1>9 DEF NatRules
  <2>4. /\ x \in done => x \in ip_addr_map
        /\ x \notin done /\ x \in ip_addr_map => x \in ip_addr_map'
    BY <1>1, <2>3
  <2> QED
    BY <1>5, <2>2, <2>4
<1>10. NatMarked'
  BY <1>9 DEF NatMarked, CanFail
<1> QED
  BY <1>3, <1>8, <1>10 DEF NatInv

(* The nat tables that are flushed.                                        *)
LEMMA FlushKeepsNat ==
  ASSUME NatInv, UNCHANGED <<modes, ip_addr_map>>, NEW flushed,
         nat' = [x \in DOMAIN nat |-> IF x \in flushed THEN 0 ELSE nat[x]]
  PROVE  nat' \in [Vrfs \X Addrs -> Nat] /\ NatMarked'
<1>1. nat' \in [Vrfs \X Addrs -> Nat]
  BY DEF NatInv, NatTypes
<1>2. ASSUME ~CanFail, NEW x \in Vrfs \X Addrs PROVE nat'[x] <= IF x \in ip_addr_map' THEN 1 ELSE 0
  <2>1. nat[x] <= (IF x \in ip_addr_map THEN 1 ELSE 0) /\ nat[x] \in Nat
    BY <1>2 DEF NatInv, NatTypes, NatMarked
  <2>2. nat'[x] = 0 \/ nat'[x] = nat[x]
    BY <1>2 DEF NatInv, NatTypes
  <2> QED
    BY <2>1, <2>2
<1>3. NatMarked'
  BY <1>1, <1>2 DEF NatMarked, CanFail
<1> QED
  BY <1>1, <1>3

(* A teardown flushes rules.                                               *)
LEMMA TeardownKeepsNat ==
  ASSUME OpShape, NatInv, Teardown, UNCHANGED modes
  PROVE  NatInv'
<1> DEFINE flushed == {x \in Vrfs \X Addrs : op.key[2] = Default /\ x[1] = op.key[1]}
<1>1. /\ op.kind = "delete" /\ UNCHANGED <<addr, ip_events, ip_addr_map, ipsvcs_lost>>
      /\ op' = [op EXCEPT !.step = "none"] \/ op' \in {NoOp, Dead}
  BY TeardownIs
<1>2. \/ nat' = nat
      \/ nat' = [x \in DOMAIN nat |-> IF op.key[2] = Default /\ x[1] = op.key[1] THEN 0 ELSE nat[x]]
  BY DEF Teardown
<1>3. DOMAIN nat = Vrfs \X Addrs
  BY DEF NatInv, NatTypes
<1>4. nat' = nat \/ nat' = [x \in DOMAIN nat |-> IF x \in flushed THEN 0 ELSE nat[x]]
  BY <1>2, <1>3
<1> HIDE DEF flushed
<1>5. nat' \in [Vrfs \X Addrs -> Nat] /\ NatMarked'
  <2>1. CASE nat' = nat
    BY <1>1, <2>1 DEF NatInv, NatTypes, NatMarked, CanFail
  <2>2. CASE nat' = [x \in DOMAIN nat |-> IF x \in flushed THEN 0 ELSE nat[x]]
    BY <1>1, <2>2, FlushKeepsNat
  <2> QED
    BY <1>4, <2>1, <2>2
<1>6. op'.listed \subseteq Vrfs \X Addrs
  BY <1>1, StepShape, IdleListed DEF NatInv, NatTypes
<1> QED
  BY <1>1, <1>5, <1>6 DEF NatInv, NatTypes

(* Rules go with the namespace they are in.                                *)
LEMMA VrfDeleteEndsKeepsNat ==
  ASSUME NatInv, VrfDeleteEnds, UNCHANGED modes
  PROVE  NatInv'
<1> DEFINE v == op.vrf
           flushed == {x \in Vrfs \X Addrs : x[1] = v}
<1>1. /\ UNCHANGED <<ip_events, ip_addr_map, ipsvcs_lost>> /\ op' \in {NoOp, Dead}
      /\ \/ /\ addr' = {x \in addr : x[1] # v}
            /\ nat' = [x \in DOMAIN nat |-> IF x[1] = v THEN 0 ELSE nat[x]]
         \/ UNCHANGED <<addr, nat>>
  BY VrfDeleteEndsIs
<1>2. DOMAIN nat = Vrfs \X Addrs
  BY DEF NatInv, NatTypes
<1>3. nat' = nat \/ nat' = [x \in DOMAIN nat |-> IF x \in flushed THEN 0 ELSE nat[x]]
  BY <1>1, <1>2
<1>4. addr' \subseteq addr
  BY <1>1
<1> HIDE DEF flushed
<1>5. nat' \in [Vrfs \X Addrs -> Nat] /\ NatMarked'
  <2>1. CASE nat' = nat
    BY <1>1, <2>1 DEF NatInv, NatTypes, NatMarked, CanFail
  <2>2. CASE nat' = [x \in DOMAIN nat |-> IF x \in flushed THEN 0 ELSE nat[x]]
    BY <1>1, <2>2, FlushKeepsNat
  <2> QED
    BY <1>3, <2>1, <2>2
<1>6. op'.listed \subseteq Vrfs \X Addrs
  BY <1>1, IdleListed DEF NatInv, NatTypes
<1> QED
  BY <1>1, <1>4, <1>5, <1>6 DEF NatInv, NatTypes

(* An address comes or goes, and its event waits.                          *)
LEMMA AddrChangeKeepsNat ==
  ASSUME NatInv, NEW x \in Vrfs \X Addrs, AddrChange(x), UNCHANGED modes
  PROVE  NatInv'
<1>1. /\ UNCHANGED <<op, ip_addr_map, nat, ipsvcs_lost>>
      /\ ip_events' = Append(ip_events, [add |-> x \notin addr, at |-> x])
      /\ addr' = IF x \in addr THEN addr \ {x} ELSE addr \cup {x}
  BY DEF AddrChange
<1>2. [add |-> x \notin addr, at |-> x] \in IpEvents
  BY DEF IpEvents
<1>3. ip_events' \in Seq(IpEvents)
  <2> DEFINE e == [add |-> x \notin addr, at |-> x]
  <2>1. ip_events' = Append(ip_events, e) /\ e \in IpEvents /\ ip_events \in Seq(IpEvents)
    BY <1>1, <1>2 DEF NatInv, NatTypes
  <2> HIDE DEF e
  <2> QED
    BY <2>1
<1>4. addr' \subseteq Vrfs \X Addrs
  BY <1>1 DEF NatInv, NatTypes
<1> QED
  BY <1>1, <1>3, <1>4 DEF NatInv, NatTypes, NatMarked, CanFail

(* What an event does that changes no rule: its interface does not count,  *)
(* or cannot be looked at.                                                 *)
Ignored(x) ==
  /\ LookedAt(x) \/ "raise" \in modes
  /\ UNCHANGED <<ip_addr_map, nat>> /\ ipsvcs_lost' \in BOOLEAN

(* The event that comes first is one of an address.                        *)
LEMMA IpEventIs ==
  ASSUME NatTypes, IpEvent
  PROVE  \E x \in Vrfs \X Addrs, add \in BOOLEAN :
           /\ ip_events # <<>> /\ Head(ip_events) = [add |-> add, at |-> x]
           /\ ip_events' = Tail(ip_events) /\ ip_events' \in Seq(IpEvents)
           /\ "race" \in modes \/ op = NoOp
           /\ UNCHANGED <<netns, maps, pairs, op, leaks, addr>> /\ missed' = missed \ {x}
           /\ RuleProgramming(x, add) \/ Ignored(x)
<1> DEFINE e == Head(ip_events)
<1>1. /\ ip_events # <<>> /\ ip_events' = Tail(ip_events)
      /\ "race" \in modes \/ op = NoOp
      /\ UNCHANGED <<netns, maps, pairs, op, leaks, addr>> /\ missed' = missed \ {e.at}
      /\ RuleProgramming(e.at, e.add) \/ Ignored(e.at)
  BY DEF IpEvent, Ignored, NatTypes
<1>2. e \in IpEvents /\ ip_events' \in Seq(IpEvents)
  BY <1>1 DEF NatTypes
<1>3. e = [add |-> e.add, at |-> e.at] /\ e.add \in BOOLEAN /\ e.at \in Vrfs \X Addrs
  BY <1>2 DEF IpEvents
<1> QED
  BY <1>1, <1>2, <1>3

(* What one event does to the table, in one of four ways.                  *)
LEMMA RuleProgrammingIs ==
  ASSUME NatTypes, NEW x \in Vrfs \X Addrs, NEW add \in BOOLEAN, RuleProgramming(x, add)
  PROVE  /\ ipsvcs_lost' \in BOOLEAN
         /\ \/ /\ add /\ Recorded(x[1], Default) /\ x \notin ip_addr_map
               /\ ip_addr_map' = ip_addr_map \cup {x}
               /\ \/ nat' = [nat EXCEPT ![x] = nat[x] + 1]
                  \/ nat' = nat /\ (CanFail \/ x[1] \notin netns)
            \/ /\ ~add /\ Recorded(x[1], Default) /\ x \in ip_addr_map
               /\ ip_addr_map' = ip_addr_map \ {x}
               /\ \/ nat[x] > 0 /\ nat' = [nat EXCEPT ![x] = nat[x] - 1]
                  \/ nat' = nat /\ (CanFail \/ nat[x] = 0)
            \/ /\ ~Recorded(x[1], Default) \/ add = (x \in ip_addr_map)
               /\ UNCHANGED <<ip_addr_map, nat>>
<1> DEFINE Fails == nat' = nat /\ ipsvcs_lost' \in {FALSE, "raise" \in modes}
<1>0. (Fails => nat' = nat /\ ipsvcs_lost' \in BOOLEAN) /\ ipsvcs_lost \in BOOLEAN
  <2> DEFINE r == "raise" \in modes
  <2>1. r \in BOOLEAN
    OBVIOUS
  <2>2. ipsvcs_lost' \in {FALSE, r} => ipsvcs_lost' \in BOOLEAN
    <3> HIDE DEF r
    <3> QED
      BY <2>1
  <2> QED
    BY <2>2 DEF NatTypes
<1> HIDE DEF Fails
<1>1. CASE /\ add /\ Recorded(x[1], Default) /\ x \notin ip_addr_map
           /\ ip_addr_map' = ip_addr_map \cup {x}
           /\ \/ x[1] \in netns /\ nat' = [nat EXCEPT ![x] = @ + 1] /\ UNCHANGED ipsvcs_lost
              \/ (CanFail \/ x[1] \notin netns) /\ Fails
  BY <1>0, <1>1
<1>2. CASE /\ ~add /\ Recorded(x[1], Default) /\ x \in ip_addr_map
           /\ ip_addr_map' = ip_addr_map \ {x}
           /\ \/ nat[x] > 0 /\ nat' = [nat EXCEPT ![x] = @ - 1] /\ UNCHANGED ipsvcs_lost
              \/ (CanFail \/ nat[x] = 0) /\ Fails
  BY <1>0, <1>2
<1>3. CASE /\ ~Recorded(x[1], Default) \/ add = (x \in ip_addr_map)
           /\ UNCHANGED <<ip_addr_map, nat, ipsvcs_lost>>
  BY <1>3 DEF NatTypes
<1> QED
  BY <1>1, <1>2, <1>3 DEF RuleProgramming, Fails

(* An event adds the rule of an address that had no mark, or deletes that  *)
(* of one that had.                                                        *)
LEMMA IpEventKeepsNat ==
  ASSUME NatInv, IpEvent, UNCHANGED modes
  PROVE  NatInv'
<1>0. NatTypes
  BY DEF NatInv
<1>1. PICK x \in Vrfs \X Addrs, add \in BOOLEAN :
        /\ ip_events' \in Seq(IpEvents) /\ UNCHANGED <<op, addr>>
        /\ RuleProgramming(x, add) \/ Ignored(x)
  BY <1>0, IpEventIs
<1>2. /\ ipsvcs_lost' \in BOOLEAN
      /\ \/ /\ x \notin ip_addr_map /\ ip_addr_map' = ip_addr_map \cup {x}
            /\ nat' = [nat EXCEPT ![x] = nat[x] + 1] \/ nat' = nat
         \/ /\ ip_addr_map' = ip_addr_map \ {x}
            /\ \/ nat[x] > 0 /\ nat' = [nat EXCEPT ![x] = nat[x] - 1]
               \/ nat' = nat /\ (CanFail \/ nat[x] = 0)
         \/ UNCHANGED <<ip_addr_map, nat>>
  BY <1>0, <1>1, RuleProgrammingIs DEF Ignored
<1>3. DOMAIN nat = Vrfs \X Addrs /\ \A y \in Vrfs \X Addrs : nat[y] \in Nat
  BY <1>0 DEF NatTypes
<1>4. nat' \in [Vrfs \X Addrs -> Nat] /\ \A y \in Vrfs \X Addrs : y # x => nat'[y] = nat[y]
  <2>1. ASSUME nat[x] > 0 PROVE nat[x] - 1 \in Nat
    BY <1>1, <1>3, <2>1
  <2>2. nat[x] + 1 \in Nat
    BY <1>1, <1>3
  <2> QED
    BY <1>0, <1>1, <1>2, <2>1, <2>2 DEF NatTypes
<1>5. ip_addr_map' \subseteq Vrfs \X Addrs
  BY <1>0, <1>1, <1>2 DEF NatTypes
<1>6. ASSUME ~CanFail, NEW y \in Vrfs \X Addrs PROVE nat'[y] <= IF y \in ip_addr_map' THEN 1 ELSE 0
  <2>1. nat[y] <= (IF y \in ip_addr_map THEN 1 ELSE 0) /\ nat[y] \in Nat
    BY <1>3, <1>6 DEF NatInv, NatMarked
  <2>2. CASE y # x
    <3>1. nat'[y] = nat[y] /\ (y \in ip_addr_map' <=> y \in ip_addr_map)
      BY <1>2, <1>4, <2>2
    <3> QED
      BY <2>1, <3>1
  <2>3. CASE y = x
    <3>1. \/ x \notin ip_addr_map /\ x \in ip_addr_map' /\ nat'[x] \in {nat[x], nat[x] + 1}
          \/ /\ x \notin ip_addr_map'
             /\ \/ nat[x] > 0 /\ nat'[x] = nat[x] - 1
                \/ nat'[x] = nat[x] /\ nat[x] = 0
          \/ nat'[x] = nat[x] /\ (x \in ip_addr_map' <=> x \in ip_addr_map)
      BY <1>2, <1>3, <1>6
    <3> QED
      BY <2>1, <2>3, <3>1
  <2> QED
    BY <2>2, <2>3
<1>7. NatMarked'
  BY <1>4, <1>6 DEF NatMarked, CanFail
<1> QED
  BY <1>1, <1>2, <1>4, <1>5, <1>7 DEF NatInv, NatTypes

(* Every step keeps the nat rules and their marks in order.                *)
LEMMA NatStep ==
  ASSUME BaseInv, NatInv, [Next]_vars
  PROVE  NatInv'
<1>0. OpShape /\ EventsOK /\ NatTypes
  BY DEF BaseInv, OpInv, NatInv
<1>1. CASE UNCHANGED vars
  <2>1. UNCHANGED <<modes, ips, op>>
    BY <1>1 DEF vars
  <2> QED
    BY <2>1, OthersKeepNat
<1>2. ASSUME UNCHANGED modes, Install \/ Uninstall \/ Teardown \/ VrfDeleteEnds PROVE NatInv'
  BY <1>0, <1>2, InstallKeepsNat, UninstallKeepsNat, TeardownKeepsNat, VrfDeleteEndsKeepsNat
<1>3. ASSUME UNCHANGED modes, SetupPair PROVE NatInv'
  <2>1. UNCHANGED ips /\ op' \in {NoOp, Dead}
    BY <1>3, SetupPairIs
  <2> QED
    BY <1>3, <2>1, IdleListed, OthersKeepNat
<1>4. ASSUME UNCHANGED modes, NEW key \in DOMAIN sub_net_map, TeardownStarts(key) PROVE NatInv'
  <2>1. op.kind = "delete" /\ UNCHANGED ips /\ (op' = NextPair(key) \/ op' \in {NoOp, Dead})
    BY <1>4, TeardownStartsIs
  <2>2. CASE op' = NextPair(key)
    <3>1. op'.listed = Listed(key)
      BY <1>0, <1>4, <2>1, <2>2, NextPairShape
    <3>2. Listed(key) \subseteq addr
      BY DEF Listed
    <3> QED
      BY <1>4, <2>1, <3>1, <3>2, OthersKeepNat
  <2> QED
    BY <1>4, <2>1, <2>2, IdleListed, OthersKeepNat
<1>5. ASSUME UNCHANGED modes, LeakStarts PROVE NatInv'
  <2>1. PICK e : UNCHANGED ips /\ (op' \in {NoOp, Dead} \/ SetupBegins("leak", e.vrf, e.src))
    BY <1>0, <1>5, LeakStartsIs
  <2>2. op' \in {NoOp, Dead} \/ op' = SetupOp("leak", e.vrf, e.src)
    BY <2>1 DEF SetupBegins
  <2> QED
    BY <1>5, <2>1, <2>2, IdleListed, SetupListed, OthersKeepNat
<1>6. ASSUME UNCHANGED modes, NEW v \in Vrfs, Service(v) PROVE NatInv'
  <2>1. UNCHANGED ips /\ (op' \in {NoOp, Dead} \/ op' = SetupOp("cps", v, Default))
    BY <1>6, ServiceIs DEF SetupBegins
  <2> QED
    BY <1>6, <2>1, IdleListed, SetupListed, OthersKeepNat
<1>7. ASSUME UNCHANGED modes, NEW v \in Vrfs, VrfDelete(v) PROVE NatInv'
  <2>1. UNCHANGED ips /\ (op' = DeleteOp(v) \/ op' \in {NoOp, Dead})
    BY <1>7, VrfDeleteIs
  <2>2. op'.listed \subseteq op.listed \cup addr
    BY <2>1, IdleListed, DeleteOpIs
  <2> QED
    BY <1>7, <2>1, <2>2, OthersKeepNat
<1>8. ASSUME UNCHANGED modes, NEW v \in Vrfs, VrfCreateFails(v) PROVE NatInv'
  <2>1. UNCHANGED ips /\ op' \in {NoOp, Dead}
    BY <1>8, RaisedInIs DEF VrfCreateFails
  <2> QED
    BY <1>8, <2>1, IdleListed, OthersKeepNat
<1>9. ASSUME UNCHANGED modes, NEW x \in Vrfs \X Addrs, AddrChange(x) PROVE NatInv'
  BY <1>9, AddrChangeKeepsNat
<1>10. ASSUME UNCHANGED modes,
              \/ \E v \in Vrfs : VrfCreate(v)
              \/ \E v \in Names : AddRule(v)
              \/ \E i \in DOMAIN cache : DelRule(i)
              \/ \E v \in Names, s \in SrcIps : SrcIpConfig(v, s)
              \/ \E e \in LeakEvents : PostLeak(e)
              \/ LeakRoute
       PROVE  NatInv'
  <2>1. UNCHANGED <<ips, op>>
    BY <1>10 DEF VrfCreate, AddRule, DelRule, SrcIpConfig, PostLeak, LeakRoute
  <2> QED
    BY <1>10, <2>1, OthersKeepNat
<1>11. ASSUME UNCHANGED modes, IpEvent PROVE NatInv'
  BY <1>11, IpEventKeepsNat
<1> QED
  BY <1>1, <1>2, <1>3, <1>4, <1>5, <1>6, <1>7, <1>8, <1>9, <1>10, <1>11
     DEF Next, HolderStep, LeakStep, Request

CoreInv == BaseInv /\ PairsInv /\ NatInv

(* Names, pairs and nat rules are in order, always.                        *)
LEMMA CoreAlways == Spec => []CoreInv
<1>1. Init => NatInv
  <2> SUFFICES ASSUME Init PROVE NatInv
    OBVIOUS
  <2>1. /\ addr = {} /\ ip_addr_map = {} /\ ip_events = <<>> /\ ipsvcs_lost = FALSE
        /\ nat = [x \in Vrfs \X Addrs |-> 0] /\ op = NoOp
    BY DEF Init
  <2>2. NatTypes /\ NatMarked
    <3>1. nat \in [Vrfs \X Addrs -> Nat] /\ \A x \in DOMAIN nat : nat[x] = 0
      BY <2>1
    <3>2. addr \subseteq Vrfs \X Addrs /\ ip_addr_map \subseteq Vrfs \X Addrs
      BY <2>1
    <3>3. ipsvcs_lost \in BOOLEAN
      BY <2>1
    <3>4. ip_events \in Seq(IpEvents)
      BY <2>1
    <3> QED
      BY <3>1, <3>2, <3>3, <3>4 DEF NatTypes, NatMarked
  <2> QED
    BY <2>1, <2>2, IdleOps DEF NatInv
<1>2. BaseInv /\ NatInv /\ [Next]_vars => NatInv'
  BY NatStep
<1> QED
  BY <1>1, <1>2, PairsAlways, PTL DEF Spec, CoreInv

(* The maps of dn_base_vrf_tool.py stay in order whatever fails, raises or *)
(* interleaves: every subnet has one pair and every pair is recorded in    *)
(* one direction, and no name keeps its id without its namespace.          *)
THEOREM WellFormedAlways == Spec => []WellFormed
<1>1. CoreInv => WellFormed
  <2> SUFFICES ASSUME CoreInv PROVE WellFormed
    OBVIOUS
  <2>1. /\ netns \subseteq Vrfs /\ known \subseteq netns \cup {Default}
        /\ DOMAIN default_rule \subseteq Names /\ taken \subseteq Names
        /\ \A v \in DOMAIN default_rule : default_rule[v] \subseteq Nat
        /\ DOMAIN cache \subseteq Nat
        /\ \A i \in DOMAIN cache : cache[i] \in Names \X {"default", "user"}
    BY DEF CoreInv, BaseInv, NamesInv, NamesOK, RulesTyped, OwnedOK
  <2>2. /\ sub_net_map \in [DOMAIN sub_net_map -> Vals]
        /\ DOMAIN sub_net_map \subseteq Names \X Names
        /\ src_ip_map \subseteq Names \X SrcIps /\ SubnetsDistinct
    BY DEF CoreInv, PairsInv, PairsOK
  <2>3. /\ op.kind \in {"none", "setup", "delete", "dead"}
        /\ ipsvcs_lost \in BOOLEAN /\ nat \in [Vrfs \X Addrs -> Nat]
        /\ ip_addr_map \subseteq Vrfs \X Addrs
    BY DEF CoreInv, BaseInv, OpInv, OpShape, NatInv, NatTypes
  <2> QED
    BY <2>1, <2>2, <2>3 DEF WellFormed, TypeOK
<1> QED
  BY <1>1, CoreAlways, PTL

-----------------------------------------------------------------------------
(* Leaked routes.  While the thread of leaked routes waits for a setup it  *)
(* has no next hop yet; the setup is the one its event asks for.           *)
LeakShape == leak = [ev |-> leak.ev, hop |-> leak.hop, runs |-> leak.runs]

LeakOwner ==
  op.kind = "setup" /\ op.by = "leak" =>
    /\ leak.ev \in LeakEvents /\ leak.hop = None
    /\ op.key = <<leak.ev.vrf, leak.ev.src>>

(* A delete finds no leaked route under way, unless some come late.        *)
LeakGone ==
  op.kind = "delete" /\ "late" \notin modes => leak_events = <<>> /\ leak \in {NoLeak, NoThread}

(* A next hop that was handed out stays the address of the pair it is of.  *)
HopRight ==
  leak.hop # None =>
    /\ leak.ev \in LeakEvents
    /\ ~({"vrf", "late"} \subseteq modes) =>
         /\ Recorded(leak.ev.vrf, leak.ev.src)
         /\ leak.hop = PeerHop(leak.ev.vrf, leak.ev.src, sub_net_map)

(* The VRFs that events and setups are about are known.                    *)
KnownEnds ==
  "late" \notin modes =>
    /\ \A i \in 1 .. Len(leak_events) : {leak_events[i].vrf, leak_events[i].src} \subseteq known
    /\ op.kind = "setup" => {op.key[1], op.key[2]} \subseteq known

LeaksInv ==
  /\ LeakShape /\ LeakOwner /\ LeakGone /\ HopRight /\ KnownEnds /\ RoutesRightUnlessLate

(* Steps that leave the routes and the records alone.                      *)
SetupStays ==
  op'.kind = "setup" =>
    \/ op.kind = "setup" /\ op'.by = op.by /\ op'.key = op.key
    \/ op'.by = "cps" /\ {op'.key[1], op'.key[2]} \subseteq known

DeleteStays ==
  op'.kind = "delete" =>
    \/ op.kind = "delete"
    \/ "late" \in modes \/ (leak_events = <<>> /\ leak \in {NoLeak, NoThread})

(* Steps that leave leaked routes and records alone.                       *)
LEMMA OthersKeepLeaks ==
  ASSUME LeaksInv, UNCHANGED <<modes, leaks, sub_net_map>>, known \subseteq known',
         SetupStays, DeleteStays
  PROVE  LeaksInv'
<1>0. UNCHANGED <<leak, leak_events, routes>>
  BY DEF leaks
<1>1. LeakShape'
  BY <1>0 DEF LeaksInv, LeakShape
<1>2. LeakOwner'
  BY <1>0 DEF LeaksInv, LeakOwner, SetupStays
<1>3. LeakGone'
  BY <1>0 DEF LeaksInv, LeakGone, DeleteStays
<1>4. HopRight'
  BY <1>0 DEF LeaksInv, HopRight, Recorded, PeerHop
<1>5. KnownEnds'
  BY <1>0 DEF LeaksInv, KnownEnds, SetupStays
<1>6. RoutesRightUnlessLate'
  BY <1>0 DEF LeaksInv, RoutesRightUnlessLate, RoutesRight
<1> QED
  BY <1>1, <1>2, <1>3, <1>4, <1>5, <1>6 DEF LeaksInv

(* Work that goes on or ends begins neither a setup nor a delete.          *)
LEMMA OpStaysLeaks ==
  ASSUME op' = op \/ op' \in {NoOp, Dead} PROVE SetupStays /\ DeleteStays
BY IdleOps DEF SetupStays, DeleteStays

(* Routes that go with a pair or a VRF.                                    *)
LEMMA FewerRoutes ==
  ASSUME RoutesRightUnlessLate, NEW kept, routes' = Keep(routes, kept), UNCHANGED modes
  PROVE  RoutesRightUnlessLate'
<1> DEFINE r == Keep(routes, kept)
<1>1. DOMAIN r = DOMAIN routes \cap kept /\ \A x \in DOMAIN routes \cap kept : r[x] = routes[x]
  BY ONLY KeepIs
<1>2. routes' = r
  OBVIOUS
<1> HIDE DEF r
<1> QED
  BY <1>1, <1>2 DEF RoutesRightUnlessLate, RoutesRight

(* What a delete does cannot disturb a next hop: there is none.            *)
LEMMA DeleteHasNoHop ==
  ASSUME LeaksInv, OpShape, op.kind = "delete", leak.hop # None
  PROVE  {"vrf", "late"} \subseteq modes
BY DEF LeaksInv, LeakGone, OpShape, NoLeak, NoThread

(* A teardown comes when no leaked route is under way, unless routes come  *)
(* late.                                                                   *)
LEMMA TeardownKeepsLeaks ==
  ASSUME LeaksInv, OpShape, Teardown, UNCHANGED modes
  PROVE  LeaksInv'
<1>1. /\ op.kind = "delete" /\ UNCHANGED <<known, leak, leak_events>>
      /\ op' = [op EXCEPT !.step = "none"] \/ op' \in {NoOp, Dead}
      /\ (\E kept : routes' = Keep(routes, kept)) \/ UNCHANGED routes
  BY TeardownIs
<1>2. op'.kind \notin {"setup", "delete"} \/ op'.kind = "delete"
  BY <1>1, IdleShape, StepShape
<1>3. HopRight'
  BY <1>1, DeleteHasNoHop DEF LeaksInv, HopRight
<1>4. LeakShape' /\ LeakOwner' /\ LeakGone' /\ KnownEnds'
  BY <1>1, <1>2 DEF LeaksInv, LeakShape, LeakOwner, LeakGone, KnownEnds
<1>5. RoutesRightUnlessLate'
  <2>1. CASE UNCHANGED routes
    BY <2>1 DEF LeaksInv, RoutesRightUnlessLate, RoutesRight
  <2>2. ASSUME NEW kept, routes' = Keep(routes, kept) PROVE RoutesRightUnlessLate'
    BY <2>2, FewerRoutes DEF LeaksInv
  <2> QED
    BY <1>1, <2>1, <2>2
<1> QED
  BY <1>3, <1>4, <1>5 DEF LeaksInv

(* The end of a delete takes the routes of its VRF along.                  *)
LEMMA VrfDeleteEndsKeepsLeaks ==
  ASSUME LeaksInv, OpShape, VrfDeleteEnds, UNCHANGED modes
  PROVE  LeaksInv'
<1>1. /\ op.kind = "delete" /\ op' \in {NoOp, Dead}
      /\ UNCHANGED <<sub_net_map, leak, leak_events>>
      /\ (\E kept : routes' = Keep(routes, kept)) \/ UNCHANGED routes
  BY VrfDeleteEndsIs
<1>2. op'.kind \notin {"setup", "delete"}
  BY <1>1, IdleShape
<1>3. HopRight'
  BY <1>1, DeleteHasNoHop DEF LeaksInv, HopRight
<1>4. LeakShape' /\ LeakOwner' /\ LeakGone'
  BY <1>1, <1>2 DEF LeaksInv, LeakShape, LeakOwner, LeakGone
<1>5. KnownEnds'
  BY <1>1, <1>2 DEF LeaksInv, LeakGone, KnownEnds
<1>6. RoutesRightUnlessLate'
  <2>1. CASE UNCHANGED routes
    BY <2>1 DEF LeaksInv, RoutesRightUnlessLate, RoutesRight
  <2>2. ASSUME NEW kept, routes' = Keep(routes, kept) PROVE RoutesRightUnlessLate'
    BY <2>2, FewerRoutes DEF LeaksInv
  <2> QED
    BY <1>1, <2>1, <2>2
<1> QED
  BY <1>3, <1>4, <1>5, <1>6 DEF LeaksInv

(* An event comes for VRFs that are known, unless it is late.              *)
LEMMA PostLeakKeepsLeaks ==
  ASSUME LeaksInv, EventsOK, NEW e \in LeakEvents, PostLeak(e), UNCHANGED modes
  PROVE  LeaksInv'
<1>1. /\ "late" \in modes \/ ({e.vrf, e.src} \subseteq known /\ op.kind # "delete")
      /\ leak_events' = Append(leak_events, e)
      /\ UNCHANGED <<op, known, sub_net_map, leak, routes>>
  BY DEF PostLeak, maps
<1>2. LeakShape' /\ LeakOwner' /\ LeakGone'
  BY <1>1 DEF LeaksInv, LeakShape, LeakOwner, LeakGone
<1>3. HopRight'
  BY <1>1 DEF LeaksInv, HopRight, Recorded, PeerHop
<1>4. RoutesRightUnlessLate'
  BY <1>1 DEF LeaksInv, RoutesRightUnlessLate, RoutesRight
<1>5. /\ leak_events \in Seq(LeakEvents) /\ Len(leak_events') = Len(leak_events) + 1
      /\ Len(leak_events) \in Nat
      /\ \A i \in 1 .. Len(leak_events) : leak_events'[i] = leak_events[i]
      /\ leak_events'[Len(leak_events) + 1] = e
  <2> HIDE DEF LeakEvents
  <2> QED
    BY <1>1 DEF EventsOK
<1>6. KnownEnds'
  <2>1. SUFFICES ASSUME "late" \notin modes
                 PROVE  /\ \A i \in 1 .. Len(leak_events') :
                             {leak_events'[i].vrf, leak_events'[i].src} \subseteq known
                        /\ op.kind = "setup" => {op.key[1], op.key[2]} \subseteq known
    BY <1>1 DEF KnownEnds
  <2>2. ASSUME NEW i \in 1 .. Len(leak_events')
        PROVE  {leak_events'[i].vrf, leak_events'[i].src} \subseteq known
    <3>1. i \in 1 .. Len(leak_events) \/ i = Len(leak_events) + 1
      BY <1>5
    <3>2. CASE i \in 1 .. Len(leak_events)
      BY <1>5, <2>1, <3>2 DEF LeaksInv, KnownEnds
    <3>3. CASE i = Len(leak_events) + 1
      BY <1>1, <1>5, <2>1, <3>3
    <3> QED
      BY <3>1, <3>2, <3>3
  <2> QED
    BY <2>1, <2>2 DEF LeaksInv, KnownEnds
<1> QED
  BY <1>2, <1>3, <1>4, <1>6 DEF LeaksInv

(* The states of the thread.                                               *)
LEMMA LeakStates ==
  /\ NoLeak = [ev |-> None, hop |-> None, runs |-> TRUE]
  /\ NoLeak.hop = None /\ NoThread.hop = None
  /\ NoLeak = [ev |-> NoLeak.ev, hop |-> NoLeak.hop, runs |-> NoLeak.runs]
  /\ NoThread = [ev |-> NoThread.ev, hop |-> NoThread.hop, runs |-> NoThread.runs]
<1>1. NoLeak = [ev |-> None, hop |-> None, runs |-> TRUE]
  BY DEF NoLeak
<1> DEFINE t == TRUE
           f == FALSE
<1>2. NoThread = [ev |-> None, hop |-> None, runs |-> f]
  <2>1. NoLeak = [ev |-> None, hop |-> None, runs |-> t]
    BY <1>1
  <2>2. NoThread = [NoLeak EXCEPT !.runs = f]
    BY DEF NoThread
  <2> HIDE DEF t, f
  <2> QED
    BY <2>1, <2>2
<1> HIDE DEF t, f
<1>3. NoLeak.hop = None /\ NoThread.hop = None
  BY <1>1, <1>2
<1>4. NoLeak = [ev |-> NoLeak.ev, hop |-> NoLeak.hop, runs |-> NoLeak.runs]
  BY <1>1
<1>5. NoThread = [ev |-> NoThread.ev, hop |-> NoThread.hop, runs |-> NoThread.runs]
  BY <1>2
<1> QED
  BY <1>1, <1>3, <1>4, <1>5

(* The thread of leaked routes as it waits, and as it has its next hop.    *)
LEMMA LeakWaits ==
  ASSUME NEW e, NEW h
  PROVE  /\ [NoLeak EXCEPT !.ev = e] = [ev |-> e, hop |-> None, runs |-> NoLeak.runs]
         /\ [NoLeak EXCEPT !.ev = e, !.hop = h] = [ev |-> e, hop |-> h, runs |-> NoLeak.runs]
<1> DEFINE r == NoLeak.runs
           l == [NoLeak EXCEPT !.ev = e]
           m == [l EXCEPT !.hop = h]
<1>1. NoLeak = [ev |-> None, hop |-> None, runs |-> r]
  BY LeakStates
<1>2. [NoLeak EXCEPT !.ev = e, !.hop = h] = m
  OBVIOUS
<1> HIDE DEF r
<1>3. l = [ev |-> e, hop |-> None, runs |-> r]
  BY <1>1
<1> HIDE DEF l
<1>4. m = [ev |-> e, hop |-> h, runs |-> r]
  BY <1>3
<1> QED
  BY <1>2, <1>3, <1>4 DEF l, r

(* The next hop is all that a release changes of that thread.              *)
LEMMA LeakHop ==
  ASSUME LeakShape, NEW h
  PROVE  [leak EXCEPT !.hop = h] = [ev |-> leak.ev, hop |-> h, runs |-> leak.runs]
BY DEF LeakShape

(* The VRF that a next hop leads into is the one its pair joins.           *)
LEMMA HopLeads ==
  ASSUME PairsOK, VethOK, NEW v \in Names, NEW u \in Names, v # u, Recorded(v, u),
         NEW hop, hop = PeerHop(v, u, sub_net_map), NEW w \in Via(v, hop)
  PROVE  w = u
<1>1. PICK k \in DOMAIN sub_net_map :
        {v, w} = {k[1], k[2]} /\ veth[{v, w}] = [first |-> k[1], val |-> sub_net_map[k]]
  BY DEF VethOK, Via
<1>2. w \in Names /\ v # w /\ sub_net_map[k] = hop[1]
  BY <1>1 DEF Via
<1>3. PICK l \in DOMAIN sub_net_map : hop[1] = sub_net_map[l] /\ (l = <<v, u>> \/ l = <<u, v>>)
  BY DEF PeerHop, Recorded
<1>4. k = l
  BY <1>2, <1>3 DEF PairsOK, SubnetsDistinct
<1>5. {v, w} = {v, u}
  BY <1>1, <1>3, <1>4
<1> QED
  BY <1>2, <1>5

(* The route leads over the pair its next hop is an address of.            *)
LEMMA LeakRouteKeepsLeaks ==
  ASSUME LeaksInv, PairsInv, LeakRoute, UNCHANGED modes
  PROVE  LeaksInv'
<1> DEFINE e == leak.ev
           to == <<e.vrf, e.prefix>>
<1>1. /\ leak.hop # None /\ leak' \in {NoLeak, NoThread}
      /\ UNCHANGED <<op, known, sub_net_map, leak_events>>
      /\ \/ /\ to \notin DOMAIN routes
            /\ \E w \in Via(e.vrf, leak.hop) :
                 routes' = With(routes, to, [src |-> e.src, via |-> w, hop |-> leak.hop])
         \/ routes' = Drop(routes, {to})
         \/ UNCHANGED routes
  BY DEF LeakRoute, maps
<1>2. leak'.hop = None /\ leak' = [ev |-> leak'.ev, hop |-> leak'.hop, runs |-> leak'.runs]
  BY <1>1, LeakStates
<1>3. LeakShape'
  BY <1>2 DEF LeakShape
<1>4. LeakOwner'
  BY <1>1 DEF LeaksInv, LeakOwner
<1>5. LeakGone'
  BY <1>1 DEF LeaksInv, LeakGone
<1>6. HopRight'
  BY <1>2 DEF HopRight
<1>7. KnownEnds'
  BY <1>1 DEF LeaksInv, KnownEnds
<1>8. ASSUME ~({"vrf", "late"} \subseteq modes) PROVE RoutesRight'
  <2>1. e \in LeakEvents /\ Recorded(e.vrf, e.src) /\ leak.hop = PeerHop(e.vrf, e.src, sub_net_map)
    BY <1>1, <1>8 DEF LeaksInv, HopRight
  <2>2. RoutesRight
    BY <1>8 DEF LeaksInv, RoutesRightUnlessLate
  <2>3. CASE UNCHANGED routes
    BY <2>2, <2>3 DEF RoutesRight
  <2>4. CASE routes' = Drop(routes, {to})
    <3> DEFINE r == Drop(routes, {to})
    <3>1. DOMAIN r = DOMAIN routes \ {to} /\ \A x \in DOMAIN routes \ {to} : r[x] = routes[x]
      BY ONLY DropIs
    <3>2. routes' = r
      BY <2>4
    <3> HIDE DEF r
    <3> QED
      BY <2>2, <3>1, <3>2 DEF RoutesRight
  <2>5. ASSUME to \notin DOMAIN routes, NEW w \in Via(e.vrf, leak.hop),
               routes' = With(routes, to, [src |-> e.src, via |-> w, hop |-> leak.hop])
        PROVE  RoutesRight'
    <3> DEFINE h == leak.hop
               u == e.src
               rt == [src |-> u, via |-> w, hop |-> h]
               r == With(routes, to, rt)
    <3>1. w = u
      <4>1. e.vrf \in Names /\ e.src \in Names /\ e.vrf # e.src
        BY <2>1 DEF LeakEvents
      <4>2. PairsOK /\ VethOK
        BY DEF PairsInv
      <4> QED
        BY <2>1, <4>1, <4>2, HopLeads
    <3> HIDE DEF u, h
    <3>2. rt.via = w /\ rt.src = u
      OBVIOUS
    <3> HIDE DEF rt, to
    <3>3. DOMAIN r = DOMAIN routes \cup {to} /\ r[to] = rt /\ \A x \in DOMAIN routes : r[x] = routes[x]
      BY ONLY <2>5, WithIs
    <3>4. routes' = r
      BY <2>5 DEF rt, u, h, to
    <3> HIDE DEF r
    <3> QED
      BY <2>2, <3>1, <3>2, <3>3, <3>4 DEF RoutesRight
  <2> QED
    BY <1>1, <2>3, <2>4, <2>5
<1>9. RoutesRightUnlessLate'
  BY <1>8 DEF RoutesRightUnlessLate
<1> QED
  BY <1>3, <1>4, <1>5, <1>6, <1>7, <1>9 DEF LeaksInv

(* The thread gets the next hop of the pair its event is about, or begins  *)
(* its setup.                                                              *)
LEMMA LeakStartsKeepsLeaks ==
  ASSUME LeaksInv, OpShape, NamesOK, EventsOK, LeakStarts, UNCHANGED modes
  PROVE  LeaksInv'
<1> DEFINE e == Head(leak_events)
           hop == PeerHop(e.vrf, e.src, sub_net_map)
<1>1. /\ op = NoOp /\ leak = NoLeak /\ leak_events # <<>>
      /\ e \in LeakEvents /\ leak_events' = Tail(leak_events)
      /\ UNCHANGED <<netns, maps, pairs, routes, ips>>
      /\ \/ /\ Recorded(e.vrf, e.src) /\ op' = NoOp
            /\ leak' = [NoLeak EXCEPT !.ev = e, !.hop = hop]
         \/ /\ SetupBegins("leak", e.vrf, e.src) \/ op' \in {NoOp, Dead}
            /\ leak' = [NoLeak EXCEPT !.ev = e]
         \/ op' = NoOp /\ leak' = NoLeak
  BY LeakStartsIs
<1>2. /\ leak_events[1] = e /\ 1 \in 1 .. Len(leak_events)
      /\ \A i \in 1 .. Len(leak_events') :
           i + 1 \in 1 .. Len(leak_events) /\ leak_events'[i] = leak_events[i + 1]
  <2> HIDE DEF LeakEvents
  <2>1. leak_events \in Seq(LeakEvents)
    BY DEF EventsOK
  <2> QED
    BY <1>1, <2>1
<1>3. /\ UNCHANGED <<known, sub_net_map, routes>>
  BY <1>1 DEF maps
<1> HIDE DEF e, hop
<1>4. \/ leak' = [ev |-> e, hop |-> hop, runs |-> NoLeak.runs] /\ Recorded(e.vrf, e.src)
      \/ leak' = [ev |-> e, hop |-> None, runs |-> NoLeak.runs]
      \/ leak' = NoLeak
  BY <1>1, LeakWaits
<1>5. LeakShape'
  <2> DEFINE r == NoLeak.runs
  <2>1. \/ leak' = [ev |-> e, hop |-> hop, runs |-> r]
        \/ leak' = [ev |-> e, hop |-> None, runs |-> r]
        \/ leak' = [ev |-> NoLeak.ev, hop |-> NoLeak.hop, runs |-> r]
    BY <1>4, LeakStates
  <2> HIDE DEF r
  <2> QED
    BY <2>1 DEF LeakShape
<1>6. leak'.hop # None => leak'.ev = e /\ leak'.hop = hop /\ Recorded(e.vrf, e.src)
  <2> DEFINE r == NoLeak.runs
  <2>1. \/ leak' = [ev |-> e, hop |-> hop, runs |-> r] /\ Recorded(e.vrf, e.src)
        \/ leak' = [ev |-> e, hop |-> None, runs |-> r]
        \/ leak'.hop = None
    BY <1>4, LeakStates
  <2> HIDE DEF r
  <2> QED
    BY <2>1
<1>7. HopRight'
  BY <1>1, <1>3, <1>6 DEF HopRight, Recorded, PeerHop, hop
<1>8. \/ op' \in {NoOp, Dead}
      \/ /\ op' = SetupOp("leak", e.vrf, e.src) /\ leak' = [NoLeak EXCEPT !.ev = e]
         /\ e.vrf \in known
  BY <1>1 DEF SetupBegins
<1>9. \/ op'.kind \notin {"setup", "delete"}
      \/ /\ op'.kind = "setup" /\ op'.key = <<e.vrf, e.src>>
         /\ leak' = [NoLeak EXCEPT !.ev = e]
  <2>1. CASE op' \in {NoOp, Dead}
    BY <2>1, IdleShape
  <2>2. CASE op' = SetupOp("leak", e.vrf, e.src) /\ leak' = [NoLeak EXCEPT !.ev = e]
    <3> DEFINE o == SetupOp("leak", e.vrf, e.src)
    <3>1. /\ o.by = "leak" /\ o.kind = "setup" /\ o.key = <<e.vrf, e.src>> /\ o.step = "install"
          /\ o.listed = Listed(<<e.vrf, e.src>>)
      BY ONLY SetupOpIs
    <3>2. op' = o
      BY <2>2
    <3> HIDE DEF o
    <3> QED
      BY <2>2, <3>1, <3>2
  <2> QED
    BY <1>8, <2>1, <2>2
<1>10. LeakOwner'
  <2>1. CASE op'.kind \notin {"setup", "delete"}
    BY <2>1 DEF LeakOwner
  <2>2. CASE op'.kind = "setup" /\ op'.key = <<e.vrf, e.src>> /\ leak' = [NoLeak EXCEPT !.ev = e]
    <3> DEFINE r == NoLeak.runs
    <3>1. leak' = [ev |-> e, hop |-> None, runs |-> r]
      BY <2>2, LeakWaits
    <3> HIDE DEF r
    <3>2. leak'.ev = e /\ leak'.hop = None
      BY <3>1
    <3> QED
      BY <1>1, <2>2, <3>2 DEF LeakOwner
  <2> QED
    BY <1>9, <2>1, <2>2
<1>11. LeakGone'
  BY <1>9 DEF LeakGone
<1>12. KnownEnds'
  <2>1. ASSUME "late" \notin modes
        PROVE  /\ {e.vrf, e.src} \subseteq known
               /\ \A i \in 1 .. Len(leak_events') :
                    {leak_events'[i].vrf, leak_events'[i].src} \subseteq known
    BY <1>2, <2>1 DEF LeaksInv, KnownEnds
  <2>2. op'.kind = "setup" => op'.key[1] = e.vrf /\ op'.key[2] = e.src
    BY <1>9
  <2> QED
    BY <1>3, <2>1, <2>2 DEF KnownEnds
<1>13. RoutesRightUnlessLate'
  BY <1>3 DEF LeaksInv, RoutesRightUnlessLate, RoutesRight
<1> QED
  BY <1>5, <1>7, <1>10, <1>11, <1>12, <1>13 DEF LeaksInv

(* The end of a setup: the thread of leaked routes goes on only if it was  *)
(* its own and the pair is there.                                          *)
LEMMA LeakAfterSetup ==
  ASSUME SetupPair
  PROVE  /\ op.by # "leak" => leak' = leak
         /\ op.by = "leak" =>
              \/ leak' \in {NoLeak, NoThread}
              \/ leak' = [leak EXCEPT !.hop = PeerHop(op.key[1], op.key[2], sub_net_map')]
         /\ \/ sub_net_map' = sub_net_map /\ (op.by = "leak" => leak' \in {NoLeak, NoThread})
            \/ \E val \in FreeVal : sub_net_map' = With(sub_net_map, op.key, val)
<1>1. ASSUME NEW map, Release(FALSE, map) \/ Failed
      PROVE  /\ op.by # "leak" => leak' = leak
             /\ op.by = "leak" => leak' \in {NoLeak, NoThread}
  BY <1>1 DEF Release, Failed
<1>2. ASSUME Release(TRUE, sub_net_map')
      PROVE  /\ op.by # "leak" => leak' = leak
             /\ op.by = "leak" =>
                  leak' = [leak EXCEPT !.hop = PeerHop(op.key[1], op.key[2], sub_net_map')]
  BY <1>2 DEF Release
<1>3. \/ (Release(FALSE, Empty) \/ Failed) \/ Release(TRUE, sub_net_map')
  BY DEF SetupPair
<1>4. \/ sub_net_map' = sub_net_map /\ Release(FALSE, Empty)
      \/ \E val \in FreeVal : sub_net_map' = With(sub_net_map, op.key, val)
  BY DEF SetupPair
<1> QED
  BY <1>1, <1>2, <1>3, <1>4

(* A setup that ends gives the thread that waits for it the next hop of    *)
(* the new pair.                                                           *)
LEMMA SetupPairKeepsLeaks ==
  ASSUME LeaksInv, PairsInv, OpShape, SetupPair, UNCHANGED modes
  PROVE  LeaksInv'
<1> DEFINE key == op.key
           hop == PeerHop(key[1], key[2], sub_net_map')
<1>1. /\ op.kind = "setup" /\ op' \in {NoOp, Dead}
      /\ UNCHANGED <<known, leak_events, routes>>
  BY SetupPairIs
<1>2. op'.kind \notin {"setup", "delete"}
  BY <1>1, IdleShape
<1>3. key \in Names \X Names /\ key[1] # key[2] /\ ~Recorded(key[1], key[2]) /\ key = <<key[1], key[2]>>
  BY <1>1 DEF OpShape, PairsInv, OpPairsOK
<1>4. /\ op.by # "leak" => leak' = leak
      /\ op.by = "leak" => leak' \in {NoLeak, NoThread} \/ leak' = [leak EXCEPT !.hop = hop]
      /\ \/ sub_net_map' = sub_net_map /\ (op.by = "leak" => leak' \in {NoLeak, NoThread})
         \/ \E val \in FreeVal : sub_net_map' = With(sub_net_map, key, val)
  BY LeakAfterSetup
<1>5. LeakShape'
  <2>1. CASE leak' = [leak EXCEPT !.hop = hop]
    <3> HIDE DEF hop
    <3>1. leak' = [ev |-> leak.ev, hop |-> hop, runs |-> leak.runs]
      BY <2>1, LeakHop DEF LeaksInv
    <3> QED
      BY <3>1 DEF LeakShape
  <2>2. CASE leak' = leak
    BY <2>2 DEF LeaksInv, LeakShape
  <2>3. CASE leak' \in {NoLeak, NoThread}
    BY <2>3, LeakStates DEF LeakShape
  <2> QED
    BY <1>4, <2>1, <2>2, <2>3
<1>6. LeakOwner' /\ LeakGone' /\ KnownEnds'
  BY <1>1, <1>2 DEF LeaksInv, LeakOwner, LeakGone, KnownEnds
<1>7. RoutesRightUnlessLate'
  BY <1>1 DEF LeaksInv, RoutesRightUnlessLate, RoutesRight
<1>8. HopRight'
  <2>1. CASE leak' \in {NoLeak, NoThread}
    BY <2>1, LeakStates DEF HopRight
  <2>2. CASE leak' = leak /\ sub_net_map' = sub_net_map
    BY <2>2 DEF LeaksInv, HopRight, Recorded, PeerHop
  <2>3. ASSUME NEW val, val \in FreeVal, sub_net_map' = With(sub_net_map, key, val),
               leak' = leak \/ (op.by = "leak" /\ leak' = [leak EXCEPT !.hop = hop])
        PROVE  HopRight'
    <3>1. /\ DOMAIN sub_net_map' = DOMAIN sub_net_map \cup {key}
          /\ \A k \in DOMAIN sub_net_map : sub_net_map'[k] = sub_net_map[k]
      <4> HIDE DEF key
      <4> QED
        BY <1>3, <2>3, RecordKeepsPairs DEF PairsInv
    <3>2. CASE leak' = leak
      <4>1. SUFFICES ASSUME leak.hop # None, ~({"vrf", "late"} \subseteq modes)
                     PROVE  /\ Recorded(leak.ev.vrf, leak.ev.src)'
                            /\ leak.hop = PeerHop(leak.ev.vrf, leak.ev.src, sub_net_map')
        BY <3>2 DEF LeaksInv, HopRight, Recorded
      <4> DEFINE v == leak.ev.vrf
                 u == leak.ev.src
      <4>2. Recorded(v, u) /\ leak.hop = PeerHop(v, u, sub_net_map)
        BY <4>1 DEF LeaksInv, HopRight
      <4> HIDE DEF v, u
      <4>3. key # <<v, u>>
        BY <1>3, <4>2
      <4>4. <<v, u>> \in DOMAIN sub_net_map' <=> <<v, u>> \in DOMAIN sub_net_map
        BY <3>1, <4>3
      <4>5. PeerHop(v, u, sub_net_map') = PeerHop(v, u, sub_net_map)
        BY <3>1, <4>2, <4>4 DEF PeerHop, Recorded
      <4>6. <<v, u>> \in DOMAIN sub_net_map' \/ <<u, v>> \in DOMAIN sub_net_map'
        BY <3>1, <4>2 DEF Recorded
      <4> QED
        BY <3>2, <4>2, <4>5, <4>6 DEF Recorded, v, u
    <3>3. CASE op.by = "leak" /\ leak' = [leak EXCEPT !.hop = hop]
      <4>1. leak.ev \in LeakEvents /\ key = <<leak.ev.vrf, leak.ev.src>>
        BY <1>1, <3>3 DEF LeaksInv, LeakOwner
      <4>2. leak' = [ev |-> leak.ev, hop |-> hop, runs |-> leak.runs]
        <5> HIDE DEF hop
        <5> QED
          BY <3>3, LeakHop DEF LeaksInv
      <4>3. leak'.ev = leak.ev /\ leak'.hop = hop
        <5> HIDE DEF hop
        <5> QED
          BY <4>2
      <4>4. hop = PeerHop(leak.ev.vrf, leak.ev.src, sub_net_map')
        BY <4>1
      <4>5. <<leak.ev.vrf, leak.ev.src>> \in DOMAIN sub_net_map'
        BY <3>1, <4>1
      <4> QED
        BY <4>1, <4>3, <4>4, <4>5 DEF HopRight, Recorded
    <3> QED
      BY <2>3, <3>2, <3>3
  <2> QED
    BY <1>4, <2>1, <2>2, <2>3
<1> QED
  BY <1>5, <1>6, <1>7, <1>8 DEF LeaksInv

(* Every step keeps leaked routes in order.                                *)
LEMMA LeaksStep ==
  ASSUME CoreInv, LeaksInv, [Next]_vars
  PROVE  LeaksInv'
<1>0. OpShape /\ EventsOK /\ NamesOK /\ PairsInv
  BY DEF CoreInv, BaseInv, OpInv, NamesInv
<1>1. CASE UNCHANGED vars
  <2>1. UNCHANGED <<modes, leaks, sub_net_map, known, op>>
    BY <1>1 DEF vars, maps
  <2> QED
    BY <2>1, OpStaysLeaks, OthersKeepLeaks
<1>2. ASSUME UNCHANGED modes, SetupPair \/ Teardown \/ VrfDeleteEnds PROVE LeaksInv'
  BY <1>0, <1>2, SetupPairKeepsLeaks, TeardownKeepsLeaks, VrfDeleteEndsKeepsLeaks
<1>3. ASSUME UNCHANGED modes, Install PROVE LeaksInv'
  <2>1. /\ op.kind = "setup" /\ UNCHANGED <<leaks, sub_net_map, known>>
        /\ op' = [op EXCEPT !.step = "setup"] \/ op' \in {NoOp, Dead}
    BY <1>3, InstallIs DEF maps
  <2>2. \/ op'.kind \notin {"setup", "delete"}
        \/ op'.kind = "setup" /\ op'.by = op.by /\ op'.key = op.key
    BY <1>0, <1>3, <2>1, IdleShape, StepShape
  <2>3. SetupStays /\ DeleteStays
    BY <2>1, <2>2 DEF SetupStays, DeleteStays
  <2> QED
    BY <1>3, <2>1, <2>3, OthersKeepLeaks
<1>4. ASSUME UNCHANGED modes, Uninstall PROVE LeaksInv'
  <2>1. /\ op.kind = "delete" /\ UNCHANGED <<leaks, sub_net_map, known>>
        /\ op' = [op EXCEPT !.step = "teardown"] \/ op' \in {NoOp, Dead}
    BY <1>4, UninstallIs DEF maps
  <2>2. op'.kind \notin {"setup", "delete"} \/ op'.kind = "delete"
    BY <1>0, <1>4, <2>1, IdleShape, StepShape
  <2>3. SetupStays /\ DeleteStays
    BY <2>1, <2>2 DEF SetupStays, DeleteStays
  <2> QED
    BY <1>4, <2>1, <2>3, OthersKeepLeaks
<1>5. ASSUME UNCHANGED modes, NEW key \in DOMAIN sub_net_map, TeardownStarts(key) PROVE LeaksInv'
  <2>1. /\ op.kind = "delete" /\ UNCHANGED <<leaks, sub_net_map, known>>
        /\ op' = NextPair(key) \/ op' \in {NoOp, Dead}
    BY <1>5, TeardownStartsIs DEF maps
  <2>2. op'.kind \notin {"setup", "delete"} \/ op'.kind = "delete"
    BY <1>0, <1>5, <2>1, IdleShape, NextPairShape
  <2>3. SetupStays /\ DeleteStays
    BY <2>1, <2>2 DEF SetupStays, DeleteStays
  <2> QED
    BY <1>5, <2>1, <2>3, OthersKeepLeaks
<1>6. ASSUME UNCHANGED modes, LeakStarts PROVE LeaksInv'
  BY <1>0, <1>6, LeakStartsKeepsLeaks
<1>7. ASSUME UNCHANGED modes, LeakRoute PROVE LeaksInv'
  BY <1>0, <1>7, LeakRouteKeepsLeaks
<1>8. ASSUME UNCHANGED modes, NEW v \in Vrfs, Service(v) PROVE LeaksInv'
  <2>1. /\ UNCHANGED <<leaks, sub_net_map, known>>
        /\ op' \in {NoOp, Dead} \/ SetupBegins("cps", v, Default)
    BY <1>8, ServiceIs DEF maps
  <2>2. CASE SetupBegins("cps", v, Default)
    <3> DEFINE o == SetupOp("cps", v, Default)
    <3>1. /\ o.by = "cps" /\ o.kind = "setup" /\ o.key = <<v, Default>> /\ o.step = "install"
          /\ o.listed = Listed(<<v, Default>>)
      BY ONLY SetupOpIs
    <3>2. op' = o /\ v \in known /\ Default \in known
      BY <1>0, <2>2 DEF SetupBegins, NamesOK
    <3> HIDE DEF o
    <3>3. SetupStays /\ DeleteStays
      BY <3>1, <3>2 DEF SetupStays, DeleteStays
    <3> QED
      BY <1>8, <2>1, <3>3, OthersKeepLeaks
  <2> QED
    BY <1>8, <2>1, <2>2, OpStaysLeaks, OthersKeepLeaks
<1>9. ASSUME UNCHANGED modes, NEW v \in Vrfs, VrfDelete(v) PROVE LeaksInv'
  <2>1. /\ UNCHANGED <<leaks, sub_net_map, known>>
        /\ "late" \in modes \/ (leak_events = <<>> /\ leak \in {NoLeak, NoThread})
        /\ op' = DeleteOp(v) \/ op' \in {NoOp, Dead}
    BY <1>9, VrfDeleteIs
  <2>2. op'.kind # "setup"
    BY <2>1, IdleShape, DeleteOpIs
  <2>3. SetupStays /\ DeleteStays
    BY <2>1, <2>2 DEF SetupStays, DeleteStays
  <2> QED
    BY <1>9, <2>1, <2>3, OthersKeepLeaks
<1>10. ASSUME UNCHANGED modes, NEW v \in Vrfs, VrfCreateFails(v) PROVE LeaksInv'
  <2>1. UNCHANGED <<leaks, sub_net_map>> /\ known \subseteq known' /\ op' \in {NoOp, Dead}
    BY <1>10, RaisedInIs DEF VrfCreateFails
  <2> QED
    BY <1>10, <2>1, OpStaysLeaks, OthersKeepLeaks
<1>11. ASSUME UNCHANGED modes, NEW e \in LeakEvents, PostLeak(e) PROVE LeaksInv'
  BY <1>0, <1>11, PostLeakKeepsLeaks
<1>12. ASSUME UNCHANGED modes,
              \/ \E v \in Vrfs : VrfCreate(v)
              \/ \E v \in Names : AddRule(v)
              \/ \E i \in DOMAIN cache : DelRule(i)
              \/ \E v \in Names, s \in SrcIps : SrcIpConfig(v, s)
              \/ \E x \in Vrfs \X Addrs : AddrChange(x)
              \/ IpEvent
       PROVE  LeaksInv'
  <2>1. UNCHANGED <<leaks, sub_net_map, op>> /\ known \subseteq known'
    BY <1>12 DEF VrfCreate, AddRule, DelRule, SrcIpConfig, AddrChange, IpEvent, maps
  <2> QED
    BY <1>12, <2>1, OpStaysLeaks, OthersKeepLeaks
<1> QED
  BY <1>1, <1>2, <1>3, <1>4, <1>5, <1>6, <1>7, <1>8, <1>9, <1>10, <1>11, <1>12
     DEF Next, HolderStep, LeakStep, Request

(* Leaked routes are in order, always.                                     *)
LEMMA LeaksAlways == Spec => [](CoreInv /\ LeaksInv)
<1>1. Init => LeaksInv
  <2> SUFFICES ASSUME Init PROVE LeaksInv
    OBVIOUS
  <2>1. /\ op = NoOp /\ leak = NoLeak /\ leak_events = <<>> /\ DOMAIN routes = {}
    BY DEF Init, Empty
  <2>2. op.kind = "none" /\ Len(leak_events) = 0
    BY <2>1, IdleOps
  <2>3. leak.hop = None /\ LeakShape
    BY <2>1, LeakStates DEF LeakShape
  <2> QED
    BY <2>1, <2>2, <2>3
       DEF LeaksInv, LeakOwner, LeakGone, HopRight, KnownEnds, RoutesRightUnlessLate, RoutesRight
<1>2. CoreInv /\ LeaksInv /\ [Next]_vars => LeaksInv'
  BY LeaksStep
<1> QED
  BY <1>1, <1>2, CoreAlways, PTL DEF Spec

(* handle_leaked_rt_event uses its next hop after it let go of the mutex,  *)
(* while services set up other pairs and VRFs come and go: unless VRFs are *)
(* deleted with routes under way, the route still leads into its VRF.      *)
THEOREM RoutesRightAlways == Spec => []RoutesRightUnlessLate
<1>1. LeaksInv => RoutesRightUnlessLate
  BY DEF LeaksInv
<1> QED
  BY <1>1, LeaksAlways, PTL

-----------------------------------------------------------------------------
(* Where no command fails and no leaked route comes late, every record has *)
(* its pair, and the source addresses on pairs are those of their VRFs.    *)
IpsRight ==
  /\ veth_ip \subseteq Names \X Names \X SrcIps
  /\ \A a, b \in Names, c \in SrcIps :
       <<a, b, c>> \in veth_ip <=> a # b /\ Recorded(a, b) /\ <<a, c>> \in src_ip_map

RealInv == CanFail \/ "late" \in modes \/ (PairsReal /\ IpsRight)

(* Steps that leave pairs, records and source addresses alone.             *)
LEMMA OthersKeepReal ==
  ASSUME RealInv, UNCHANGED <<modes, sub_net_map, src_ip_map, pairs>>, known \subseteq known'
  PROVE  RealInv'
<1>0. UNCHANGED <<veth, veth_ip>>
  BY DEF pairs
<1>1. PairsReal => PairsReal'
  BY <1>0 DEF PairsReal
<1>2. IpsRight => IpsRight'
  BY <1>0 DEF IpsRight, Recorded
<1> QED
  BY <1>1, <1>2 DEF RealInv, CanFail

(* What is recorded once a pair is, and once it is not any more.           *)
LEMMA RecordedAfter ==
  ASSUME NEW key, key \in Names \X Names, DOMAIN sub_net_map' = DOMAIN sub_net_map \cup {key},
         NEW a, NEW b
  PROVE  Recorded(a, b)' <=> Recorded(a, b) \/ {a, b} = {key[1], key[2]}
<1>1. key = <<key[1], key[2]>>
  OBVIOUS
<1>2. {a, b} = {key[1], key[2]} <=> (<<a, b>> = key \/ <<b, a>> = key)
  BY <1>1
<1> QED
  BY <1>2 DEF Recorded

(* What is recorded once a pair is not any more.                           *)
LEMMA UnrecordedAfter ==
  ASSUME PairsOK, NEW key \in DOMAIN sub_net_map, DOMAIN sub_net_map' = DOMAIN sub_net_map \ {key},
         NEW a, NEW b
  PROVE  Recorded(a, b)' <=> Recorded(a, b) /\ {a, b} # {key[1], key[2]}
<1>1. key \in Names \X Names /\ key = <<key[1], key[2]>>
  BY DEF PairsOK
<1>2. {a, b} = {key[1], key[2]} <=> (<<a, b>> = key \/ <<b, a>> = key)
  BY <1>1
<1>3. key[1] # key[2] /\ <<key[2], key[1]>> \notin DOMAIN sub_net_map
  BY <1>1 DEF PairsOK, SubnetsDistinct
<1>4. ASSUME Recorded(a, b)' PROVE Recorded(a, b) /\ {a, b} # {key[1], key[2]}
  <2>1. \/ <<a, b>> \in DOMAIN sub_net_map /\ <<a, b>> # key
        \/ <<b, a>> \in DOMAIN sub_net_map /\ <<b, a>> # key
    BY <1>4 DEF Recorded
  <2>2. <<a, b>> = key => <<b, a>> = <<key[2], key[1]>>
    BY <1>1
  <2>3. <<b, a>> = key => <<a, b>> = <<key[2], key[1]>>
    BY <1>1
  <2> QED
    BY <1>2, <1>3, <2>1, <2>2, <2>3 DEF Recorded
<1>5. ASSUME Recorded(a, b), {a, b} # {key[1], key[2]} PROVE Recorded(a, b)'
  BY <1>2, <1>5 DEF Recorded
<1> QED
  BY <1>4, <1>5

(* The pair goes with its record and the source addresses on it.           *)
LEMMA TeardownKeepsReal ==
  ASSUME RealInv, PairsInv, OpShape, Teardown, UNCHANGED modes
  PROVE  RealInv'
<1> DEFINE key == op.key
           ends == {key[1], key[2]}
<1>1. /\ op.kind = "delete" /\ op.step = "teardown" /\ UNCHANGED <<known, src_ip_map>>
      /\ \/ /\ veth' = Drop(veth, {ends}) /\ sub_net_map' = Drop(sub_net_map, {key})
            /\ veth_ip' = {x \in veth_ip : {x[1], x[2]} # ends}
         \/ UNCHANGED <<veth, veth_ip, sub_net_map>>
  BY TeardownIs
<1>2. PairsOK /\ key \in DOMAIN sub_net_map
  BY <1>1 DEF PairsInv, OpPairsOK
<1>3. CASE UNCHANGED <<veth, veth_ip, sub_net_map>>
  BY <1>1, <1>3, OthersKeepReal DEF pairs
<1>4. ASSUME veth' = Drop(veth, {ends}), sub_net_map' = Drop(sub_net_map, {key}),
             veth_ip' = {x \in veth_ip : {x[1], x[2]} # ends}, PairsReal, IpsRight
      PROVE  PairsReal' /\ IpsRight'
  <2> HIDE DEF key
  <2>1. /\ DOMAIN sub_net_map' = DOMAIN sub_net_map \ {key}
        /\ \A k \in DOMAIN sub_net_map' : sub_net_map'[k] = sub_net_map[k]
    BY <1>2, <1>4, DropKeepsPairs
  <2>2. DOMAIN veth' = DOMAIN veth \ {ends} /\ \A p \in DOMAIN veth \ {ends} : veth'[p] = veth[p]
    <3> HIDE DEF ends
    <3> DEFINE d == Drop(veth, {ends})
    <3>1. DOMAIN d = DOMAIN veth \ {ends} /\ \A p \in DOMAIN veth \ {ends} : d[p] = veth[p]
      BY ONLY DropIs
    <3>2. veth' = d
      BY <1>4
    <3> HIDE DEF d
    <3> QED
      BY <3>1, <3>2
  <2>3. ASSUME NEW k \in DOMAIN sub_net_map'
        PROVE  /\ {k[1], k[2]} \subseteq known /\ {k[1], k[2]} \in DOMAIN veth'
               /\ veth'[{k[1], k[2]}] = [first |-> k[1], val |-> sub_net_map'[k]]
    <3>1. k \in DOMAIN sub_net_map /\ k # key
      BY <2>1
    <3>2. {k[1], k[2]} # ends
      BY <1>2, <3>1, OneRecord
    <3> QED
      BY <1>4, <2>1, <2>2, <3>1, <3>2 DEF PairsReal
  <2>4. PairsReal'
    BY <1>1, <2>3 DEF PairsReal
  <2>5. ASSUME NEW a \in Names, NEW b \in Names, NEW c \in SrcIps
        PROVE  <<a, b, c>> \in veth_ip' <=> a # b /\ Recorded(a, b)' /\ <<a, c>> \in src_ip_map'
    <3>1. Recorded(a, b)' <=> Recorded(a, b) /\ {a, b} # ends
      BY <1>2, <2>1, UnrecordedAfter
    <3>2. <<a, b, c>> \in veth_ip' <=> <<a, b, c>> \in veth_ip /\ {a, b} # ends
      BY <1>4
    <3> QED
      BY <1>1, <1>4, <3>1, <3>2 DEF IpsRight
  <2>6. IpsRight'
    BY <1>4, <2>5 DEF IpsRight, Recorded
  <2> QED
    BY <2>4, <2>6
<1> QED
  BY <1>1, <1>3, <1>4 DEF RealInv, CanFail

(* A delete that ends finds no record of its VRF.                          *)
LEMMA VrfDeleteEndsKeepsReal ==
  ASSUME RealInv, PairsInv, NamesOK, OpShape, VrfDeleteEnds, UNCHANGED modes
  PROVE  RealInv'
<1> DEFINE v == op.vrf
<1>1. /\ op.kind = "delete" /\ KeysOf(v) = {} /\ known' = Forget(v)
      /\ UNCHANGED <<sub_net_map, src_ip_map>>
      /\ \/ /\ veth' = Keep(veth, {p \in DOMAIN veth : v \notin p})
            /\ veth_ip' = {x \in veth_ip : v \notin {x[1], x[2]}}
         \/ UNCHANGED <<veth, veth_ip>>
  BY VrfDeleteEndsIs
<1>2. v \in Vrfs
  BY <1>1 DEF OpShape
<1>3. \A k \in DOMAIN sub_net_map : v \notin {k[1], k[2]}
  BY <1>1 DEF KeysOf
<1> HIDE DEF v
<1>4. ASSUME PairsReal, NEW k \in DOMAIN sub_net_map PROVE {k[1], k[2]} \subseteq known'
  <2>1. {k[1], k[2]} \subseteq known /\ k[1] # k[2] /\ v \notin {k[1], k[2]}
    BY <1>3, <1>4 DEF PairsReal, PairsInv, PairsOK, SubnetsDistinct
  <2>2. known \ {v} # {Default}
    BY <2>1
  <2> QED
    BY <1>1, <2>1, <2>2 DEF Forget
<1>5. ASSUME PairsReal, NEW k \in DOMAIN sub_net_map
      PROVE  /\ {k[1], k[2]} \in DOMAIN veth'
             /\ veth'[{k[1], k[2]}] = [first |-> k[1], val |-> sub_net_map[k]]
  <2> DEFINE p == {k[1], k[2]}
  <2>1. p \in DOMAIN veth /\ veth[p] = [first |-> k[1], val |-> sub_net_map[k]] /\ v \notin p
    BY <1>3, <1>5 DEF PairsReal
  <2>2. CASE veth' = Keep(veth, {q \in DOMAIN veth : v \notin q})
    <3> DEFINE ps == {q \in DOMAIN veth : v \notin q}
               d == Keep(veth, ps)
    <3>1. p \in ps
      BY <2>1
    <3> HIDE DEF ps, p
    <3>2. DOMAIN d = DOMAIN veth \cap ps /\ \A q \in DOMAIN veth \cap ps : d[q] = veth[q]
      BY ONLY KeepIs
    <3>3. veth' = d
      BY <2>2 DEF ps
    <3> HIDE DEF d
    <3>4. p \in DOMAIN veth' /\ veth'[p] = veth[p]
      BY <2>1, <3>1, <3>2, <3>3
    <3> QED
      BY <2>1, <3>4 DEF p
  <2> QED
    BY <1>1, <2>1, <2>2
<1>6. PairsReal => PairsReal'
  BY <1>1, <1>4, <1>5 DEF PairsReal
<1>7. ASSUME IpsRight, NEW a \in Names, NEW b \in Names, NEW c \in SrcIps
      PROVE  <<a, b, c>> \in veth_ip' <=> a # b /\ Recorded(a, b) /\ <<a, c>> \in src_ip_map
  <2>1. <<a, b, c>> \in veth_ip <=> a # b /\ Recorded(a, b) /\ <<a, c>> \in src_ip_map
    BY <1>7 DEF IpsRight
  <2>2. Recorded(a, b) => v \notin {a, b}
    <3>1. <<a, b>> \in DOMAIN sub_net_map => v \notin {a, b}
      BY <1>3
    <3>2. <<b, a>> \in DOMAIN sub_net_map => v \notin {a, b}
      BY <1>3
    <3> QED
      BY <3>1, <3>2 DEF Recorded
  <2>3. CASE veth_ip' = {x \in veth_ip : v \notin {x[1], x[2]}}
    <3>1. <<a, b, c>> \in veth_ip' <=> <<a, b, c>> \in veth_ip /\ v \notin {a, b}
      BY <2>3
    <3> QED
      BY <2>1, <2>2, <3>1
  <2> QED
    BY <1>1, <2>1, <2>3
<1>8. veth_ip' \subseteq veth_ip
  BY <1>1
<1>9. IpsRight => IpsRight'
  BY <1>1, <1>7, <1>8 DEF IpsRight, Recorded
<1> QED
  BY <1>6, <1>9 DEF RealInv, CanFail

(* A new pair gets the source addresses of both its VRFs.                  *)
LEMMA SetupPairKeepsReal ==
  ASSUME RealInv, PairsInv, LeaksInv, OpShape, SetupPair, UNCHANGED modes
  PROVE  RealInv'
<1> DEFINE key == op.key
           ends == {key[1], key[2]}
<1>1. SUFFICES ASSUME ~CanFail, "late" \notin modes PROVE PairsReal' /\ IpsRight'
  BY DEF RealInv, CanFail
<1>2. PairsReal /\ IpsRight
  BY <1>1 DEF RealInv
<1>3. /\ op.kind = "setup" /\ UNCHANGED <<known, src_ip_map>>
      /\ \/ UNCHANGED <<sub_net_map, pairs>>
         \/ \E val \in FreeVal :
              /\ sub_net_map' = With(sub_net_map, key, val)
              /\ \/ key[2] \notin known
                 \/ veth' = WithPair(key, val) /\ veth_ip' = veth_ip \cup SrcIpsOf(key)
  BY <1>1, SetupPairIs
<1>4. key \in Names \X Names /\ key[1] # key[2] /\ ~Recorded(key[1], key[2]) /\ ends \subseteq known
  BY <1>1, <1>3 DEF OpShape, PairsInv, OpPairsOK, LeaksInv, KnownEnds
<1>5. CASE UNCHANGED <<sub_net_map, pairs>>
  BY <1>2, <1>3, <1>5 DEF PairsReal, IpsRight, Recorded, pairs
<1>6. ASSUME NEW val, val \in FreeVal, sub_net_map' = With(sub_net_map, key, val),
             veth' = WithPair(key, val), veth_ip' = veth_ip \cup SrcIpsOf(key)
      PROVE  PairsReal' /\ IpsRight'
  <2> DEFINE mk == [first |-> key[1], val |-> val]
             w == With(veth, ends, mk)
  <2>1. veth' = w
    BY <1>6 DEF WithPair
  <2> HIDE DEF key
  <2>2. /\ DOMAIN sub_net_map' = DOMAIN sub_net_map \cup {key} /\ sub_net_map'[key] = val
        /\ \A k \in DOMAIN sub_net_map : sub_net_map'[k] = sub_net_map[k]
    BY <1>4, <1>6, RecordKeepsPairs DEF PairsInv
  <2>3. ends \notin DOMAIN veth
    BY <1>4, NoVethUnrecorded DEF PairsInv
  <2>4. DOMAIN w = DOMAIN veth \cup {ends} /\ w[ends] = mk /\ \A p \in DOMAIN veth : w[p] = veth[p]
    <3> HIDE DEF mk, ends
    <3> QED
      BY ONLY <2>3, WithIs
  <2> HIDE DEF w
  <2>5. ASSUME NEW k \in DOMAIN sub_net_map'
        PROVE  /\ {k[1], k[2]} \subseteq known /\ {k[1], k[2]} \in DOMAIN veth'
               /\ veth'[{k[1], k[2]}] = [first |-> k[1], val |-> sub_net_map'[k]]
    <3>1. CASE k = key
      BY <1>4, <2>1, <2>2, <2>4, <3>1
    <3>2. CASE k \in DOMAIN sub_net_map
      BY <1>2, <2>1, <2>2, <2>4, <3>2 DEF PairsReal
    <3> QED
      BY <2>2, <3>1, <3>2
  <2>6. PairsReal'
    BY <1>3, <2>5 DEF PairsReal
  <2>7. ASSUME NEW a \in Names, NEW b \in Names, NEW c \in SrcIps
        PROVE  <<a, b, c>> \in veth_ip' <=> a # b /\ Recorded(a, b)' /\ <<a, c>> \in src_ip_map
    <3>1. Recorded(a, b)' <=> Recorded(a, b) \/ {a, b} = ends
      BY <1>4, <2>2, RecordedAfter
    <3>2. <<a, b, c>> \in SrcIpsOf(key) <=> {a, b} = ends /\ a # b /\ <<a, c>> \in src_ip_map
      BY DEF SrcIpsOf
    <3>3. <<a, b, c>> \in veth_ip' <=> <<a, b, c>> \in veth_ip \/ <<a, b, c>> \in SrcIpsOf(key)
      BY <1>6
    <3> QED
      BY <1>2, <3>1, <3>2, <3>3 DEF IpsRight
  <2>8. veth_ip' \subseteq Names \X Names \X SrcIps
    BY <1>2, <1>6 DEF IpsRight, SrcIpsOf
  <2>9. IpsRight'
    BY <1>3, <2>7, <2>8 DEF IpsRight, Recorded
  <2> QED
    BY <2>6, <2>9
<1> QED
  BY <1>3, <1>4, <1>5, <1>6

(* A source address is put on, or taken off, every pair of its VRF.        *)
LEMMA SrcIpConfigKeepsReal ==
  ASSUME RealInv, PairsInv, NEW v \in Names, NEW s \in SrcIps, SrcIpConfig(v, s), UNCHANGED modes
  PROVE  RealInv'
<1>1. /\ UNCHANGED <<known, sub_net_map, veth>>
      /\ \/ src_ip_map' = src_ip_map \cup {<<v, s>>} /\ veth_ip' = veth_ip \cup OnPairsOf(v, s)
         \/ src_ip_map' = src_ip_map \ {<<v, s>>} /\ veth_ip' = veth_ip \ OnPairsOf(v, s)
  BY DEF SrcIpConfig
<1>2. PairsReal => PairsReal'
  BY <1>1 DEF PairsReal
<1>3. ASSUME PairsReal, IpsRight PROVE IpsRight'
  <2>1. ASSUME NEW b \in Names, Recorded(v, b)
        PROVE  b \in known /\ v # b /\ {v, b} \in DOMAIN veth
    <3>1. CASE <<v, b>> \in DOMAIN sub_net_map
      <4> DEFINE k == <<v, b>>
      <4>1. k[1] = v /\ k[2] = b
        OBVIOUS
      <4>2. {k[1], k[2]} \subseteq known /\ {k[1], k[2]} \in DOMAIN veth /\ k[1] # k[2]
        BY <1>3, <3>1 DEF PairsReal, PairsInv, PairsOK, SubnetsDistinct
      <4> QED
        BY <4>1, <4>2
    <3>2. CASE <<b, v>> \in DOMAIN sub_net_map
      <4> DEFINE k == <<b, v>>
      <4>1. k[1] = b /\ k[2] = v
        OBVIOUS
      <4>2. {k[1], k[2]} \subseteq known /\ {k[1], k[2]} \in DOMAIN veth /\ k[1] # k[2]
        BY <1>3, <3>2 DEF PairsReal, PairsInv, PairsOK, SubnetsDistinct
      <4>3. {k[1], k[2]} = {v, b}
        BY <4>1
      <4> QED
        BY <4>1, <4>2, <4>3
    <3> QED
      BY <2>1, <3>1, <3>2 DEF Recorded
  <2>2. ASSUME NEW a \in Names, NEW b \in Names, NEW c \in SrcIps
        PROVE  <<a, b, c>> \in OnPairsOf(v, s) <=> a = v /\ c = s /\ Recorded(v, b)
    BY <2>1 DEF OnPairsOf
  <2>3. ASSUME NEW a \in Names, NEW b \in Names, NEW c \in SrcIps
        PROVE  <<a, b, c>> \in veth_ip' <=> a # b /\ Recorded(a, b) /\ <<a, c>> \in src_ip_map'
    <3>1. <<a, b, c>> \in veth_ip <=> a # b /\ Recorded(a, b) /\ <<a, c>> \in src_ip_map
      BY <1>3 DEF IpsRight
    <3>2. <<a, c>> = <<v, s>> <=> a = v /\ c = s
      OBVIOUS
    <3>3. CASE src_ip_map' = src_ip_map \cup {<<v, s>>} /\ veth_ip' = veth_ip \cup OnPairsOf(v, s)
      BY <2>1, <2>2, <3>1, <3>2, <3>3
    <3>4. CASE src_ip_map' = src_ip_map \ {<<v, s>>} /\ veth_ip' = veth_ip \ OnPairsOf(v, s)
      BY <2>1, <2>2, <3>1, <3>2, <3>4
    <3> QED
      BY <1>1, <3>3, <3>4
  <2>4. OnPairsOf(v, s) \subseteq Names \X Names \X SrcIps
    <3>1. ASSUME NEW w \in known, Recorded(v, w) PROVE w \in Names
      BY <3>1 DEF Recorded, PairsInv, PairsOK
    <3> QED
      <4>1. ASSUME NEW x \in OnPairsOf(v, s) PROVE x \in Names \X Names \X SrcIps
        <5>1. PICK w \in known : x = <<v, w, s>> /\ Recorded(v, w)
          BY <4>1 DEF OnPairsOf
        <5>2. w \in Names
          BY <3>1, <5>1
        <5> QED
          BY <5>1, <5>2
      <4> QED
        BY <4>1
  <2>5. veth_ip' \subseteq Names \X Names \X SrcIps
    BY <1>1, <1>3, <2>4 DEF IpsRight
  <2> QED
    BY <1>1, <2>3, <2>5 DEF IpsRight, Recorded
<1> QED
  BY <1>2, <1>3 DEF RealInv, CanFail

(* Every step keeps the pairs real.                                        *)
LEMMA RealStep ==
  ASSUME CoreInv, LeaksInv, RealInv, [Next]_vars
  PROVE  RealInv'
<1>0. OpShape /\ EventsOK /\ NamesOK /\ PairsInv
  BY DEF CoreInv, BaseInv, OpInv, NamesInv
<1>1. CASE UNCHANGED vars
  <2>1. UNCHANGED <<modes, sub_net_map, src_ip_map, pairs, known>>
    BY <1>1 DEF vars, maps
  <2> QED
    BY <2>1, OthersKeepReal
<1>2. ASSUME UNCHANGED modes, SetupPair \/ Teardown \/ VrfDeleteEnds PROVE RealInv'
  BY <1>0, <1>2, SetupPairKeepsReal, TeardownKeepsReal, VrfDeleteEndsKeepsReal
<1>3. ASSUME UNCHANGED modes, NEW v \in Names, NEW s \in SrcIps, SrcIpConfig(v, s) PROVE RealInv'
  BY <1>0, <1>3, SrcIpConfigKeepsReal
<1>4. ASSUME UNCHANGED modes,
             \/ Install \/ Uninstall \/ LeakStarts \/ LeakRoute \/ IpEvent
             \/ \E key \in DOMAIN sub_net_map : TeardownStarts(key)
             \/ \E v \in Vrfs : VrfCreate(v) \/ VrfCreateFails(v) \/ VrfDelete(v)
                                \/ Service(v)
             \/ \E v \in Names : AddRule(v)
             \/ \E i \in DOMAIN cache : DelRule(i)
             \/ \E e \in LeakEvents : PostLeak(e)
             \/ \E x \in Vrfs \X Addrs : AddrChange(x)
      PROVE  RealInv'
  <2>1. UNCHANGED <<sub_net_map, src_ip_map, pairs>> /\ known \subseteq known'
    BY <1>4 DEF Install, Uninstall, LeakStarts, LeakRoute, IpEvent, TeardownStarts, VrfCreate,
                VrfCreateFails, VrfDelete, Service, AddRule, DelRule, PostLeak, AddrChange, maps
  <2> QED
    BY <1>4, <2>1, OthersKeepReal
<1> QED
  BY <1>1, <1>2, <1>3, <1>4 DEF Next, HolderStep, LeakStep, Request

(* The pairs are real, always, unless a command fails or a leaked route is *)
(* late.                                                                   *)
LEMMA RealAlways == Spec => [](CoreInv /\ LeaksInv /\ RealInv)
<1>1. Init => RealInv
  <2> SUFFICES ASSUME Init PROVE RealInv
    OBVIOUS
  <2>1. DOMAIN sub_net_map = {} /\ veth_ip = {}
    BY DEF Init, Empty
  <2> QED
    BY <2>1 DEF RealInv, PairsReal, IpsRight, Recorded
<1>2. CoreInv /\ LeaksInv /\ RealInv /\ [Next]_vars => RealInv'
  BY RealStep
<1> QED
  BY <1>1, <1>2, LeaksAlways, PTL DEF Spec

(* _veth_ip_get hands out the addresses of a record without a look at the  *)
(* kernel: unless a command fails or a leaked route comes late, the record *)
(* is of a pair that is there, between VRFs that are, and the ends of all  *)
(* pairs have the source addresses of their VRFs.                          *)
THEOREM PairsRealAlways == Spec => []PairsRealUnlessLate
<1>1. CoreInv /\ RealInv => PairsRealUnlessLate
  <2>1. SUFFICES ASSUME CoreInv, PairsReal, IpsRight PROVE SrcIpsOnPairs
    BY DEF RealInv, PairsRealUnlessLate
  <2>2. ASSUME NEW k \in DOMAIN sub_net_map
        PROVE  {x \in veth_ip : {x[1], x[2]} = {k[1], k[2]}} = SrcIpsOf(k)
    <3>1. k \in Names \X Names /\ k = <<k[1], k[2]>> /\ PairsOK
      BY <2>1 DEF CoreInv, PairsInv, PairsOK
    <3>2. ASSUME NEW a \in Names, NEW b \in Names, NEW c \in SrcIps
          PROVE  <<a, b, c>> \in veth_ip /\ {a, b} = {k[1], k[2]} <=> <<a, b, c>> \in SrcIpsOf(k)
      <4>1. {a, b} = {k[1], k[2]} => Recorded(a, b)
        BY <2>2, <3>1 DEF Recorded
      <4>2. <<a, b, c>> \in SrcIpsOf(k) <=> {a, b} = {k[1], k[2]} /\ a # b /\ <<a, c>> \in src_ip_map
        BY DEF SrcIpsOf
      <4>3. <<a, b, c>> \in veth_ip <=> a # b /\ Recorded(a, b) /\ <<a, c>> \in src_ip_map
        BY <2>1 DEF IpsRight
      <4> QED
        BY <4>1, <4>2, <4>3
    <3>3. veth_ip \subseteq Names \X Names \X SrcIps /\ SrcIpsOf(k) \subseteq Names \X Names \X SrcIps
      BY <2>1 DEF IpsRight, SrcIpsOf
    <3>4. ASSUME NEW x
          PROVE  (x \in veth_ip /\ {x[1], x[2]} = {k[1], k[2]}) <=> x \in SrcIpsOf(k)
      <4>1. CASE x \in Names \X Names \X SrcIps
        <5>1. x = <<x[1], x[2], x[3]>> /\ x[1] \in Names /\ x[2] \in Names /\ x[3] \in SrcIps
          BY <4>1
        <5> QED
          BY <3>2, <5>1
      <4> QED
        BY <3>3, <4>1
    <3> QED
      BY <3>4
  <2> QED
    BY <2>2 DEF SrcIpsOnPairs
<1> QED
  BY <1>1, RealAlways, PTL

-----------------------------------------------------------------------------
(* Events of addresses: one that waits about x, and that the last one      *)
(* tells whether x is there.                                               *)
PendIn(s, x) == \E i \in 1 .. Len(s) : s[i].at = x

ToldIn(s, x, there) ==
  \A i \in 1 .. Len(s) :
    s[i].at = x /\ (\A j \in 1 .. Len(s) : j > i => s[j].at # x) => s[i].add = there

(* One more event is the last one about its address, and changes nothing   *)
(* for others.                                                             *)
LEMMA AppendTells ==
  ASSUME NEW s \in Seq(IpEvents), NEW e \in IpEvents, NEW y, NEW there
  PROVE  /\ PendIn(Append(s, e), e.at) /\ ToldIn(Append(s, e), e.at, e.add)
         /\ y # e.at => (PendIn(Append(s, e), y) <=> PendIn(s, y))
         /\ y # e.at /\ ToldIn(s, y, there) => ToldIn(Append(s, e), y, there)
<1> DEFINE t == Append(s, e)
           n == Len(s)
<1> HIDE DEF IpEvents
<1>1. /\ n \in Nat /\ Len(t) = n + 1 /\ t[n + 1] = e
      /\ \A i \in 1 .. n : t[i] = s[i]
  OBVIOUS
<1> HIDE DEF t
<1>2. PendIn(t, e.at)
  BY <1>1 DEF PendIn
<1>3. ToldIn(t, e.at, e.add)
  <2>1. SUFFICES ASSUME NEW i \in 1 .. Len(t), \A j \in 1 .. Len(t) : j > i => t[j].at # e.at
                 PROVE  t[i] = e
    BY DEF ToldIn
  <2>2. i = n + 1
    BY <1>1, <2>1
  <2> QED
    BY <1>1, <2>2
<1>4. ASSUME y # e.at PROVE PendIn(t, y) <=> PendIn(s, y)
  <2>1. ASSUME NEW i \in 1 .. Len(t), t[i].at = y PROVE PendIn(s, y)
    <3>1. i \in 1 .. n
      BY <1>1, <1>4, <2>1
    <3> QED
      BY <1>1, <2>1, <3>1 DEF PendIn
  <2>2. ASSUME NEW i \in 1 .. n, s[i].at = y PROVE PendIn(t, y)
    <3>1. i \in 1 .. Len(t) /\ t[i].at = y
      BY <1>1, <2>2
    <3> QED
      BY <3>1 DEF PendIn
  <2> QED
    BY <2>1, <2>2 DEF PendIn
<1>5. ASSUME y # e.at, ToldIn(s, y, there) PROVE ToldIn(t, y, there)
  <2>1. SUFFICES ASSUME NEW i \in 1 .. Len(t), t[i].at = y,
                        \A j \in 1 .. Len(t) : j > i => t[j].at # y
                 PROVE  t[i].add = there
    BY DEF ToldIn
  <2>2. i \in 1 .. n /\ t[i] = s[i]
    BY <1>1, <1>5, <2>1
  <2>3. ASSUME NEW j \in 1 .. n, j > i PROVE s[j].at # y
    BY <1>1, <2>1, <2>3
  <2> QED
    BY <1>5, <2>1, <2>2, <2>3 DEF ToldIn
<1> QED
  BY <1>2, <1>3, <1>4, <1>5 DEF t

(* Without its first event a queue tells the same of every address it      *)
(* still tells of; an event that was the only one about its address told   *)
(* the truth.                                                              *)
LEMMA TailTells ==
  ASSUME NEW s \in Seq(IpEvents), s # <<>>, NEW y, NEW there
  PROVE  /\ PendIn(s, y) <=> PendIn(Tail(s), y) \/ y = Head(s).at
         /\ ToldIn(s, y, there) => ToldIn(Tail(s), y, there)
         /\ ToldIn(s, y, there) /\ y = Head(s).at /\ ~PendIn(Tail(s), y) => Head(s).add = there
<1> DEFINE t == Tail(s)
           n == Len(t)
<1> HIDE DEF IpEvents
<1>1. /\ n \in Nat /\ Len(s) = n + 1 /\ s[1] = Head(s)
      /\ \A i \in 1 .. n : t[i] = s[i + 1]
  OBVIOUS
<1> HIDE DEF t
<1>2. ASSUME PendIn(s, y) PROVE PendIn(t, y) \/ y = Head(s).at
  <2>1. PICK i \in 1 .. Len(s) : s[i].at = y
    BY <1>2 DEF PendIn
  <2>2. CASE i = 1
    BY <1>1, <2>1, <2>2
  <2>3. CASE i # 1
    <3>1. i - 1 \in 1 .. n /\ t[i - 1] = s[i]
      BY <1>1, <2>1, <2>3
    <3> QED
      BY <2>1, <3>1 DEF PendIn
  <2> QED
    BY <2>2, <2>3
<1>3. ASSUME PendIn(t, y) \/ y = Head(s).at PROVE PendIn(s, y)
  <2>1. CASE y = Head(s).at
    <3>1. 1 \in 1 .. Len(s) /\ s[1].at = y
      BY <1>1, <2>1
    <3> QED
      BY <3>1 DEF PendIn
  <2>2. CASE PendIn(t, y)
    <3>1. PICK i \in 1 .. n : t[i].at = y
      BY <2>2 DEF PendIn
    <3>2. i + 1 \in 1 .. Len(s) /\ s[i + 1].at = y
      BY <1>1, <3>1
    <3> QED
      BY <3>2 DEF PendIn
  <2> QED
    BY <1>3, <2>1, <2>2
<1>4. ASSUME ToldIn(s, y, there) PROVE ToldIn(t, y, there)
  <2>1. SUFFICES ASSUME NEW i \in 1 .. n, t[i].at = y, \A j \in 1 .. n : j > i => t[j].at # y
                 PROVE  t[i].add = there
    BY DEF ToldIn
  <2>2. i + 1 \in 1 .. Len(s) /\ s[i + 1] = t[i]
    BY <1>1, <2>1
  <2>3. ASSUME NEW j \in 1 .. Len(s), j > i + 1 PROVE s[j].at # y
    <3>1. j - 1 \in 1 .. n /\ j - 1 > i /\ (j - 1) + 1 = j
      BY <1>1, <2>3
    <3>2. t[j - 1] = s[j]
      BY <1>1, <3>1
    <3> QED
      BY <2>1, <3>1, <3>2
  <2> QED
    BY <1>4, <2>1, <2>2, <2>3 DEF ToldIn
<1>5. ASSUME ToldIn(s, y, there), y = Head(s).at, ~PendIn(t, y) PROVE Head(s).add = there
  <2>1. ASSUME NEW j \in 1 .. Len(s), j > 1 PROVE s[j].at # y
    <3>1. j - 1 \in 1 .. n /\ t[j - 1] = s[j]
      <4>1. j - 1 \in 1 .. n /\ (j - 1) + 1 = j
        BY <1>1, <2>1
      <4> QED
        BY <1>1, <4>1
    <3> QED
      BY <1>5, <3>1 DEF PendIn
  <2>2. 1 \in 1 .. Len(s) /\ s[1].at = y
    BY <1>1, <1>5
  <2> QED
    BY <1>1, <1>5, <2>1, <2>2 DEF ToldIn
<1> QED
  BY <1>2, <1>3, <1>4, <1>5 DEF t

-----------------------------------------------------------------------------
(* The addresses that have a rule, where no command fails, address events  *)
(* wait for the mutex and VRFs stay.  An address that rules follow is      *)
(* covered once its VRF is paired with the default one, unless an event    *)
(* about it waits; while the setup is under way what it has listed, and    *)
(* then marked, is so.                                                     *)
Undisturbed == ~CanFail /\ modes \cap {"race", "vrf", "late"} = {}

Setting(x, st) == op.kind = "setup" /\ op.step = st /\ x[1] \in ServiceVrf(op.key)

Followed(x) == x \in OnMacvlan \/ (x[1] = Mgmt /\ x \notin missed)

(* A value is left for one more pair: without one a setup that has marked  *)
(* its addresses ends with no pair.                                        *)
Avail == Vals \ UsedVals # {}

CoverAt(x) ==
  /\ nat[x] = IF x \in ip_addr_map THEN 1 ELSE 0
  /\ ToldIn(ip_events, x, x \in addr)
  /\ ~PendIn(ip_events, x) =>
       /\ Recorded(x[1], Default) /\ Followed(x) => (x \in ip_addr_map <=> x \in addr)
       /\ Setting(x, "install") /\ x \in OnMacvlan => (x \in op.listed <=> x \in addr)
       /\ Setting(x, "setup") /\ Avail /\ Followed(x) => (x \in ip_addr_map <=> x \in addr)
  /\ Avail /\ ~Recorded(x[1], Default) /\ ~Setting(x, "setup") => x \notin ip_addr_map

EventsThere == \A i \in 1 .. Len(ip_events) : ip_events[i].at[1] \in netns

ListedRight ==
  op.kind = "setup" => \A x \in op.listed : x[1] \in ServiceVrf(op.key) /\ x \in OnMacvlan

CoverInv == Undisturbed => EventsThere /\ ListedRight /\ \A x \in Vrfs \X Addrs : CoverAt(x)

(* A pair serves the VRF that it joins with the default one.               *)
LEMMA PairServes ==
  ASSUME NEW key, key \in Names \X Names, key[1] # key[2], NEW v \in Vrfs
  PROVE  v \in ServiceVrf(key) <=> {v, Default} = {key[1], key[2]}
<1>1. v # Default
  BY DefaultAssumption
<1>2. v \in ServiceVrf(key) <=> v \in {key[1], key[2]} /\ Default \in {key[1], key[2]}
  BY DEF ServiceVrf
<1> QED
  BY <1>1, <1>2

(* A VRF is not served while its setup runs.                               *)
LEMMA SettingUnrecorded ==
  ASSUME OpShape, OpPairsOK, op.kind = "setup", NEW v \in Vrfs, v \in ServiceVrf(op.key)
  PROVE  ~Recorded(v, Default)
<1>1. op.key \in Names \X Names /\ op.key[1] # op.key[2] /\ ~Recorded(op.key[1], op.key[2])
  BY DEF OpShape, OpPairsOK
<1>2. {v, Default} = {op.key[1], op.key[2]}
  BY <1>1, PairServes
<1>3. \/ v = op.key[1] /\ Default = op.key[2]
      \/ v = op.key[2] /\ Default = op.key[1]
  BY <1>2
<1> QED
  BY <1>1, <1>3 DEF Recorded

(* Steps that leave addresses, events, marks, rules and records alone.     *)
LEMMA OthersKeepCover ==
  ASSUME CoverInv, UNCHANGED <<modes, sub_net_map, addr, ip_events, ip_addr_map, nat, missed>>,
         netns \subseteq netns', op' = op \/ (op = NoOp /\ op' \in {NoOp, Dead})
  PROVE  CoverInv'
<1>1. SUFFICES ASSUME Undisturbed
               PROVE  EventsThere' /\ ListedRight' /\ \A x \in Vrfs \X Addrs : CoverAt(x)'
  BY DEF CoverInv, Undisturbed, CanFail
<1>2. EventsThere /\ ListedRight /\ \A x \in Vrfs \X Addrs : CoverAt(x)
  BY <1>1 DEF CoverInv
<1>3. EventsThere'
  BY <1>2 DEF EventsThere
<1>4. op' = op \/ (op.kind # "setup" /\ op'.kind # "setup")
  BY IdleOps
<1>5. ListedRight'
  BY <1>2, <1>4 DEF ListedRight
<1>6. Avail' = Avail
  BY DEF Avail, UsedVals
<1>7. ASSUME NEW x \in Vrfs \X Addrs PROVE CoverAt(x)'
  <2>1. CoverAt(x)
    BY <1>2
  <2>2. Recorded(x[1], Default)' = Recorded(x[1], Default) /\ Followed(x)' = Followed(x)
    BY DEF Recorded, Followed
  <2>3. CASE op' = op
    BY <1>6, <2>1, <2>2, <2>3 DEF CoverAt, Setting, PendIn, ToldIn
  <2>4. CASE op.kind # "setup" /\ op'.kind # "setup"
    BY <1>6, <2>1, <2>2, <2>4 DEF CoverAt, Setting, PendIn, ToldIn
  <2> QED
    BY <1>4, <2>3, <2>4
<1> QED
  BY <1>3, <1>5, <1>7

(* A setup reads the addresses of its VRF.                                 *)
LEMMA SetupBeginsKeepsCover ==
  ASSUME CoverInv, NEW by, NEW v, NEW w, SetupBegins(by, v, w), UNCHANGED modes
  PROVE  CoverInv'
<1> DEFINE key == <<v, w>>
<1>1. SUFFICES ASSUME Undisturbed
               PROVE  EventsThere' /\ ListedRight' /\ \A x \in Vrfs \X Addrs : CoverAt(x)'
  BY DEF CoverInv, Undisturbed, CanFail
<1>2. EventsThere /\ \A x \in Vrfs \X Addrs : CoverAt(x)
  BY <1>1 DEF CoverInv
<1>3. UNCHANGED <<netns, sub_net_map, addr, ip_events, ip_addr_map, nat, missed>> /\ op = NoOp
  BY DEF SetupBegins, maps, ips
<1>4. op'.kind = "setup" /\ op'.step = "install" /\ op'.key = key /\ op'.listed = Listed(key)
  <2> DEFINE o == SetupOp(by, v, w)
  <2>1. /\ o.by = by /\ o.kind = "setup" /\ o.key = <<v, w>> /\ o.step = "install"
        /\ o.listed = Listed(<<v, w>>)
    BY ONLY SetupOpIs
  <2>2. op' = o
    BY DEF SetupBegins
  <2> HIDE DEF o
  <2> QED
    BY <2>1, <2>2
<1> HIDE DEF key
<1>5. EventsThere'
  BY <1>2, <1>3 DEF EventsThere
<1>6. ListedRight'
  BY <1>4 DEF ListedRight, Listed
<1>7. ASSUME NEW x \in Vrfs \X Addrs PROVE CoverAt(x)'
  <2>1. CoverAt(x) /\ ~Setting(x, "setup")
    BY <1>2, <1>3, IdleOps DEF Setting
  <2>2. /\ Recorded(x[1], Default)' = Recorded(x[1], Default)
        /\ Avail' = Avail
        /\ PendIn(ip_events', x) = PendIn(ip_events, x)
        /\ Followed(x)' = Followed(x)
    BY <1>3 DEF Recorded, Avail, UsedVals, Followed
  <2>3. ~Setting(x, "setup")'
    BY <1>4 DEF Setting
  <2>4. Setting(x, "install")' /\ x \in OnMacvlan => (x \in op'.listed <=> x \in addr)
    BY <1>4 DEF Setting, Listed
  <2> QED
    BY <1>3, <2>1, <2>2, <2>3, <2>4 DEF CoverAt
<1> QED
  BY <1>5, <1>6, <1>7

(* A change of an address is told by an event that now waits.              *)
LEMMA AddrChangeKeepsCover ==
  ASSUME CoverInv, NatTypes, NEW z \in Vrfs \X Addrs, AddrChange(z), UNCHANGED modes
  PROVE  CoverInv'
<1> DEFINE e == [add |-> z \notin addr, at |-> z]
<1>1. SUFFICES ASSUME Undisturbed
               PROVE  EventsThere' /\ ListedRight' /\ \A x \in Vrfs \X Addrs : CoverAt(x)'
  BY DEF CoverInv, Undisturbed, CanFail
<1>2. EventsThere /\ ListedRight /\ \A x \in Vrfs \X Addrs : CoverAt(x)
  BY <1>1 DEF CoverInv
<1>3. /\ UNCHANGED <<netns, sub_net_map, op, ip_addr_map, nat, missed>> /\ z[1] \in netns
      /\ ip_events' = Append(ip_events, e)
      /\ addr' = IF z \in addr THEN addr \ {z} ELSE addr \cup {z}
  BY DEF AddrChange, maps
<1>4. e \in IpEvents /\ e.at = z /\ e.add = (z \notin addr)
  BY DEF IpEvents
<1>5. (z \in addr') = (z \notin addr) /\ \A x : x # z => ((x \in addr') = (x \in addr))
  BY <1>3
<1> HIDE DEF e
<1>6. EventsThere'
  <2> HIDE DEF IpEvents
  <2>1. /\ Len(ip_events) \in Nat /\ Len(ip_events') = Len(ip_events) + 1
        /\ ip_events'[Len(ip_events) + 1] = e
        /\ \A i \in 1 .. Len(ip_events) : ip_events'[i] = ip_events[i]
    BY <1>3, <1>4 DEF NatTypes
  <2>2. ASSUME NEW i \in 1 .. Len(ip_events') PROVE ip_events'[i].at[1] \in netns
    <3>1. i \in 1 .. Len(ip_events) \/ i = Len(ip_events) + 1
      BY <2>1
    <3>2. CASE i \in 1 .. Len(ip_events)
      BY <1>2, <2>1, <3>2 DEF EventsThere
    <3>3. CASE i = Len(ip_events) + 1
      BY <1>3, <1>4, <2>1, <3>3
    <3> QED
      BY <3>1, <3>2, <3>3
  <2> QED
    BY <1>3, <2>2 DEF EventsThere
<1>7. ListedRight'
  BY <1>2, <1>3 DEF ListedRight
<1>8. ASSUME NEW x \in Vrfs \X Addrs PROVE CoverAt(x)'
  <2>1. CoverAt(x)
    BY <1>2
  <2>2. /\ Recorded(x[1], Default)' = Recorded(x[1], Default)
        /\ Avail' = Avail
        /\ Setting(x, "setup")' = Setting(x, "setup")
        /\ Setting(x, "install")' = Setting(x, "install")
        /\ Followed(x)' = Followed(x)
    BY <1>3 DEF Recorded, Avail, UsedVals, Setting, Followed
  <2>3. ip_events \in Seq(IpEvents)
    BY DEF NatTypes
  <2>4. CASE x = z
    <3>1. PendIn(ip_events', x) /\ ToldIn(ip_events', x, e.add)
      BY <1>3, <1>4, <2>3, <2>4, AppendTells
    <3>2. ToldIn(ip_events', x, x \in addr')
      BY <1>4, <1>5, <2>4, <3>1
    <3> QED
      BY <1>3, <2>1, <2>2, <3>1, <3>2 DEF CoverAt
  <2>5. CASE x # z
    <3> DEFINE there == x \in addr
    <3>1. there = (x \in addr')
      BY <1>5, <2>5
    <3>2. ToldIn(ip_events, x, there)
      BY <2>1 DEF CoverAt
    <3>3. (PendIn(ip_events', x) <=> PendIn(ip_events, x)) /\ ToldIn(ip_events', x, there)
      <4> HIDE DEF there
      <4> QED
        BY <1>3, <1>4, <2>3, <2>5, <3>2, AppendTells
    <3>4. ToldIn(ip_events', x, x \in addr')
      BY <3>1, <3>3
    <3> QED
      BY <1>3, <2>1, <2>2, <3>1, <3>3, <3>4 DEF CoverAt
  <2> QED
    BY <2>4, <2>5
<1> QED
  BY <1>6, <1>7, <1>8

(* A setup marks what it has listed, none of which was marked before.      *)
LEMMA InstallKeepsCover ==
  ASSUME CoverInv, NatInv, OpShape, OpPairsOK, Install, UNCHANGED modes
  PROVE  CoverInv'
<1>1. SUFFICES ASSUME Undisturbed
               PROVE  EventsThere' /\ ListedRight' /\ \A x \in Vrfs \X Addrs : CoverAt(x)'
  BY DEF CoverInv, Undisturbed, CanFail
<1>2. EventsThere /\ ListedRight /\ \A x \in Vrfs \X Addrs : CoverAt(x)
  BY <1>1 DEF CoverInv
<1> DEFINE todo == op.listed \ ip_addr_map
<1>3. PICK done \in SUBSET todo, failed \in SUBSET todo :
        /\ NatRules(todo, done, failed, "setup")
        /\ ip_addr_map' = ip_addr_map \cup done \cup failed
        /\ nat' = [x \in DOMAIN nat |-> IF x \in done THEN nat[x] + 1 ELSE nat[x]]
  BY DEF Install
<1>4. failed = {} /\ done = todo /\ op' = [op EXCEPT !.step = "setup"]
  BY <1>1, <1>3 DEF NatRules, Undisturbed
<1>5. /\ op.kind = "setup" /\ op.step = "install"
      /\ UNCHANGED <<netns, sub_net_map, addr, ip_events>>
  BY InstallIs DEF maps
<1>6. op'.kind = "setup" /\ op'.step = "setup" /\ op'.key = op.key /\ op'.listed = op.listed
  BY <1>4, <1>5, StepShape
<1>7. /\ ip_addr_map' = ip_addr_map \cup op.listed
      /\ \A x \in Vrfs \X Addrs : nat'[x] = IF x \in todo THEN nat[x] + 1 ELSE nat[x]
  BY <1>3, <1>4 DEF NatInv, NatTypes
<1>8. EventsThere' /\ ListedRight'
  BY <1>2, <1>5, <1>6 DEF EventsThere, ListedRight
<1>9. missed' = missed \cup {y \in addr \ op.listed : y[1] \in ServiceVrf(op.key)}
  BY DEF Install
<1>10. ASSUME NEW x \in Vrfs \X Addrs PROVE CoverAt(x)'
  <2>1. CoverAt(x) /\ x[1] \in Vrfs
    BY <1>2
  <2>2. /\ Recorded(x[1], Default)' = Recorded(x[1], Default)
        /\ Avail' = Avail
        /\ PendIn(ip_events', x) = PendIn(ip_events, x)
    BY <1>5 DEF Recorded, Avail, UsedVals
  <2>3. /\ ~Setting(x, "setup") /\ ~Setting(x, "install")'
        /\ Setting(x, "install") <=> x[1] \in ServiceVrf(op.key)
        /\ Setting(x, "setup")' <=> x[1] \in ServiceVrf(op.key)
    BY <1>5, <1>6 DEF Setting
  <2>4. x \in op.listed => x[1] \in ServiceVrf(op.key) /\ x \in OnMacvlan
    BY <1>2, <1>5 DEF ListedRight
  <2>5. x[1] \in ServiceVrf(op.key) => ~Recorded(x[1], Default)
    BY <1>5, <2>1, SettingUnrecorded
  <2>6. nat'[x] = IF x \in ip_addr_map' THEN 1 ELSE 0
    <3>1. nat[x] = IF x \in ip_addr_map THEN 1 ELSE 0
      BY <2>1 DEF CoverAt
    <3> QED
      BY <1>7, <3>1
  <2>7. x \in ip_addr_map' <=> x \in ip_addr_map \/ x \in op.listed
    BY <1>7
  <2>8. ToldIn(ip_events', x, x \in addr')
    BY <1>5, <2>1 DEF CoverAt
  <2>9. ASSUME ~PendIn(ip_events, x)
        PROVE  /\ Recorded(x[1], Default) /\ Followed(x)' => (x \in ip_addr_map' <=> x \in addr)
               /\ Setting(x, "setup")' /\ Avail /\ Followed(x)'
                    => (x \in ip_addr_map' <=> x \in addr)
    <3>1. ASSUME Recorded(x[1], Default), Followed(x)' PROVE x \in ip_addr_map' <=> x \in addr
      <4>1. x[1] \notin ServiceVrf(op.key)
        BY <2>5, <3>1
      <4>2. Followed(x)
        BY <1>9, <3>1, <4>1 DEF Followed
      <4> QED
        BY <2>1, <2>4, <2>7, <2>9, <3>1, <4>1, <4>2 DEF CoverAt
    <3>2. ASSUME x[1] \in ServiceVrf(op.key), Avail, Followed(x)'
          PROVE  x \in ip_addr_map' <=> x \in addr
      <4>1. x \notin ip_addr_map
        BY <2>1, <2>3, <2>5, <3>2 DEF CoverAt
      <4>2. CASE x \in OnMacvlan
        <5>1. x \in op.listed <=> x \in addr
          BY <2>1, <2>3, <2>9, <3>2, <4>2 DEF CoverAt
        <5> QED
          BY <2>7, <4>1, <5>1
      <4>3. CASE x \notin OnMacvlan
        <5>1. x \notin op.listed /\ x \notin missed'
          BY <2>4, <3>2, <4>3 DEF Followed
        <5>2. x \notin addr
          BY <1>9, <3>2, <5>1
        <5> QED
          BY <2>7, <4>1, <5>1, <5>2
      <4> QED
        BY <4>2, <4>3
    <3> QED
      BY <2>3, <3>1, <3>2
  <2>10. Avail /\ ~Recorded(x[1], Default) /\ ~Setting(x, "setup")' => x \notin ip_addr_map'
    BY <2>1, <2>3, <2>4, <2>7 DEF CoverAt
  <2> QED
    BY <1>5, <2>2, <2>3, <2>6, <2>8, <2>9, <2>10 DEF CoverAt
<1> QED
  BY <1>8, <1>10

(* The pair that is recorded is the one whose addresses are marked.        *)
LEMMA SetupPairKeepsCover ==
  ASSUME CoverInv, PairsInv, OpShape, SetupPair, UNCHANGED modes
  PROVE  CoverInv'
<1> DEFINE key == op.key
<1>1. SUFFICES ASSUME Undisturbed
               PROVE  EventsThere' /\ ListedRight' /\ \A x \in Vrfs \X Addrs : CoverAt(x)'
  BY DEF CoverInv, Undisturbed, CanFail
<1>2. EventsThere /\ \A x \in Vrfs \X Addrs : CoverAt(x)
  BY <1>1 DEF CoverInv
<1>3. /\ op.kind = "setup" /\ op.step = "setup" /\ op' \in {NoOp, Dead}
      /\ UNCHANGED <<netns, addr, ip_events, ip_addr_map, nat, missed>>
      /\ \/ FreeVal = {} /\ UNCHANGED sub_net_map
         \/ \E val \in FreeVal : sub_net_map' = With(sub_net_map, key, val)
  BY SetupPairIs DEF ips
<1>4. op'.kind \notin {"setup", "delete"}
  BY <1>3, IdleShape
<1>5. key \in Names \X Names /\ key[1] # key[2] /\ ~Recorded(key[1], key[2])
  BY <1>3 DEF OpShape, PairsInv, OpPairsOK
<1>6. EventsThere' /\ ListedRight'
  BY <1>2, <1>3, <1>4 DEF EventsThere, ListedRight
<1>7. ASSUME NEW x \in Vrfs \X Addrs PROVE CoverAt(x)'
  <2>1. CoverAt(x) /\ x[1] \in Vrfs
    BY <1>2
  <2>2. ~Setting(x, "setup")' /\ ~Setting(x, "install")' /\ Followed(x)' = Followed(x)
    BY <1>3, <1>4 DEF Setting, Followed
  <2>3. Setting(x, "setup") <=> x[1] \in ServiceVrf(key)
    BY <1>3 DEF Setting
  <2>4. CASE FreeVal = {} /\ UNCHANGED sub_net_map
    <3>1. ~Avail' /\ Recorded(x[1], Default)' = Recorded(x[1], Default)
      BY <2>4, FreeValIs DEF Avail, UsedVals, Recorded
    <3> QED
      BY <1>3, <2>1, <2>2, <3>1 DEF CoverAt
  <2>5. ASSUME NEW val, val \in FreeVal, sub_net_map' = With(sub_net_map, key, val)
        PROVE  CoverAt(x)'
    <3> HIDE DEF key
    <3>1. /\ DOMAIN sub_net_map' = DOMAIN sub_net_map \cup {key}
          /\ \A k \in DOMAIN sub_net_map : sub_net_map'[k] = sub_net_map[k]
      BY <1>5, <2>5, RecordKeepsPairs DEF PairsInv
    <3>2. Recorded(x[1], Default)' <=> Recorded(x[1], Default) \/ x[1] \in ServiceVrf(key)
      <4>1. Recorded(x[1], Default)' <=> Recorded(x[1], Default) \/ {x[1], Default} = {key[1], key[2]}
        BY <1>5, <3>1, RecordedAfter
      <4>2. x[1] \in ServiceVrf(key) <=> {x[1], Default} = {key[1], key[2]}
        BY <1>5, <2>1, PairServes
      <4> QED
        BY <4>1, <4>2
    <3>3. Avail
      BY <2>5, FreeValIs DEF Avail
    <3>4. /\ ~PendIn(ip_events, x) /\ Recorded(x[1], Default)' /\ Followed(x)
                => (x \in ip_addr_map <=> x \in addr)
          /\ ~Recorded(x[1], Default)' => x \notin ip_addr_map
      BY <2>1, <2>3, <3>2, <3>3 DEF CoverAt
    <3> QED
      BY <1>3, <2>1, <2>2, <3>4 DEF CoverAt
  <2> QED
    BY <1>3, <2>4, <2>5
<1> QED
  BY <1>6, <1>7

(* An event that is handled while nobody works tells the truth if it is    *)
(* the last one about its address.                                         *)
LEMMA IpEventKeepsCover ==
  ASSUME CoverInv, NatInv, IpEvent, UNCHANGED modes
  PROVE  CoverInv'
<1>1. SUFFICES ASSUME Undisturbed
               PROVE  EventsThere' /\ ListedRight' /\ \A x \in Vrfs \X Addrs : CoverAt(x)'
  BY DEF CoverInv, Undisturbed, CanFail
<1>2. EventsThere /\ ListedRight /\ \A x \in Vrfs \X Addrs : CoverAt(x)
  BY <1>1 DEF CoverInv
<1>0. NatTypes /\ ip_events \in Seq(IpEvents)
  BY DEF NatInv, NatTypes
<1>3. PICK z \in Vrfs \X Addrs, add \in BOOLEAN :
        /\ ip_events # <<>> /\ Head(ip_events) = [add |-> add, at |-> z]
        /\ ip_events' = Tail(ip_events) /\ ip_events' \in Seq(IpEvents)
        /\ "race" \in modes \/ op = NoOp
        /\ UNCHANGED <<netns, maps, pairs, op, leaks, addr>> /\ missed' = missed \ {z}
        /\ RuleProgramming(z, add) \/ Ignored(z)
  BY <1>0, IpEventIs
<1>4. /\ op = NoOp /\ op.kind # "setup" /\ UNCHANGED <<netns, sub_net_map, op, addr>>
  BY <1>1, <1>3, IdleOps DEF Undisturbed, maps
<1>5. Head(ip_events).at = z /\ Head(ip_events).add = add
  BY <1>3
<1>6. /\ ip_events[1] = Head(ip_events) /\ 1 \in 1 .. Len(ip_events)
      /\ \A i \in 1 .. Len(ip_events') :
           i + 1 \in 1 .. Len(ip_events) /\ ip_events'[i] = ip_events[i + 1]
  <2> HIDE DEF IpEvents
  <2> QED
    BY <1>0, <1>3
<1>7. z[1] \in netns
  <2>1. ip_events[1].at = z
    BY <1>5, <1>6
  <2>2. ip_events[1].at[1] \in netns
    BY <1>2, <1>6 DEF EventsThere
  <2> QED
    BY <2>1, <2>2
<1>8. EventsThere' /\ ListedRight'
  <2>1. \A i \in 1 .. Len(ip_events') : ip_events'[i].at[1] \in netns
    BY <1>2, <1>6 DEF EventsThere
  <2> QED
    BY <1>4, <2>1 DEF EventsThere, ListedRight
<1>9. nat[z] = IF z \in ip_addr_map THEN 1 ELSE 0
  BY <1>2 DEF CoverAt
<1>10. \/ /\ add /\ Recorded(z[1], Default) /\ z \notin ip_addr_map
          /\ ip_addr_map' = ip_addr_map \cup {z}
          /\ nat' = [nat EXCEPT ![z] = nat[z] + 1]
       \/ /\ ~add /\ Recorded(z[1], Default) /\ z \in ip_addr_map
          /\ ip_addr_map' = ip_addr_map \ {z}
          /\ nat' = [nat EXCEPT ![z] = nat[z] - 1]
       \/ /\ ~Recorded(z[1], Default) \/ add = (z \in ip_addr_map) \/ LookedAt(z)
          /\ UNCHANGED <<ip_addr_map, nat>>
  <2>1. nat[z] = 0 => z \notin ip_addr_map
    BY <1>9
  <2> QED
    BY <1>0, <1>1, <1>3, <1>7, <2>1, RuleProgrammingIs DEF Undisturbed, CanFail, Ignored
<1>11. /\ nat'[z] = IF z \in ip_addr_map' THEN 1 ELSE 0
       /\ Recorded(z[1], Default) /\ ~LookedAt(z) => (z \in ip_addr_map') = add
       /\ ~Recorded(z[1], Default) => ip_addr_map' = ip_addr_map
       /\ \A x \in Vrfs \X Addrs :
            x # z => nat'[x] = nat[x] /\ (x \in ip_addr_map' <=> x \in ip_addr_map)
  <2>1. DOMAIN nat = Vrfs \X Addrs
    BY <1>0 DEF NatTypes
  <2>2. nat'[z] = IF z \in ip_addr_map' THEN 1 ELSE 0
    BY <1>9, <1>10, <2>1
  <2>3. /\ Recorded(z[1], Default) /\ ~LookedAt(z) => (z \in ip_addr_map') = add
        /\ ~Recorded(z[1], Default) => ip_addr_map' = ip_addr_map
    BY <1>10
  <2>4. \A x \in Vrfs \X Addrs :
          x # z => nat'[x] = nat[x] /\ (x \in ip_addr_map' <=> x \in ip_addr_map)
    BY <1>10, <2>1
  <2> QED
    BY <2>2, <2>3, <2>4
<1>12. ASSUME NEW x \in Vrfs \X Addrs PROVE CoverAt(x)'
  <2>1. CoverAt(x)
    BY <1>2
  <2>2. /\ Recorded(x[1], Default)' = Recorded(x[1], Default)
        /\ Avail' = Avail
        /\ ~Setting(x, "setup") /\ ~Setting(x, "install")
        /\ ~Setting(x, "setup")' /\ ~Setting(x, "install")'
    BY <1>4 DEF Recorded, Avail, UsedVals, Setting
  <2> DEFINE there == x \in addr
  <2>3. /\ PendIn(ip_events, x) <=> PendIn(ip_events', x) \/ x = z
        /\ ToldIn(ip_events', x, there)
        /\ x = z /\ ~PendIn(ip_events', x) => add = there
    <3>1. ToldIn(ip_events, x, there)
      BY <2>1 DEF CoverAt
    <3> HIDE DEF there
    <3> QED
      BY <1>0, <1>3, <1>5, <3>1, TailTells
  <2>4. ToldIn(ip_events', x, x \in addr')
    BY <1>4, <2>3
  <2>5. CASE x = z
    <3>1. ~PendIn(ip_events', x) /\ Recorded(x[1], Default) /\ Followed(x)'
            => (x \in ip_addr_map') = there
      BY <1>11, <2>3, <2>5 DEF Followed, LookedAt
    <3>2. Avail /\ ~Recorded(x[1], Default) => x \notin ip_addr_map'
      BY <1>11, <2>1, <2>2, <2>5 DEF CoverAt
    <3> QED
      BY <1>4, <1>11, <2>2, <2>4, <2>5, <3>1, <3>2 DEF CoverAt
  <2>6. CASE x # z
    <3>1. Followed(x)' = Followed(x)
      BY <1>3, <2>6 DEF Followed
    <3> QED
      BY <1>4, <1>11, <2>1, <2>2, <2>3, <2>4, <2>6, <3>1 DEF CoverAt
  <2> QED
    BY <2>5, <2>6
<1> QED
  BY <1>8, <1>12

(* Every step keeps the addresses covered.                                 *)
LEMMA CoverStep ==
  ASSUME CoreInv, CoverInv, [Next]_vars
  PROVE  CoverInv'
<1>0. OpShape /\ EventsOK /\ PairsInv /\ OpPairsOK /\ NatInv /\ NatTypes
  BY DEF CoreInv, BaseInv, OpInv, PairsInv, NatInv
<1>1. CASE UNCHANGED vars
  <2>1. /\ UNCHANGED <<modes, sub_net_map, addr, ip_events, ip_addr_map, nat, missed>>
        /\ netns' = netns /\ op' = op
    BY <1>1 DEF vars, maps, ips
  <2> QED
    BY <2>1, OthersKeepCover
<1>2. ASSUME UNCHANGED modes, Install \/ SetupPair \/ IpEvent PROVE CoverInv'
  BY <1>0, <1>2, InstallKeepsCover, SetupPairKeepsCover, IpEventKeepsCover
<1>3. ASSUME UNCHANGED modes, NEW x \in Vrfs \X Addrs, AddrChange(x) PROVE CoverInv'
  BY <1>0, <1>3, AddrChangeKeepsCover
<1>4. ASSUME UNCHANGED modes, LeakStarts PROVE CoverInv'
  <2>1. PICK e : /\ op = NoOp /\ UNCHANGED <<netns, maps, pairs, routes, ips>>
                 /\ SetupBegins("leak", e.vrf, e.src) \/ op' \in {NoOp, Dead}
    BY <1>0, <1>4, LeakStartsIs
  <2>2. CASE SetupBegins("leak", e.vrf, e.src)
    BY <1>4, <2>2, SetupBeginsKeepsCover
  <2>3. CASE op' \in {NoOp, Dead}
    <3>1. UNCHANGED <<netns, sub_net_map, addr, ip_events, ip_addr_map, nat, missed>>
      BY <2>1 DEF maps, ips
    <3> QED
      BY <1>4, <2>1, <2>3, <3>1, OthersKeepCover
  <2> QED
    BY <2>1, <2>2, <2>3
<1>5. ASSUME UNCHANGED modes, NEW v \in Vrfs, Service(v) PROVE CoverInv'
  <2>1. /\ op = NoOp /\ UNCHANGED <<netns, maps, pairs, leaks, ips>>
        /\ SetupBegins("cps", v, Default) \/ op' \in {NoOp, Dead}
    BY <1>5, ServiceIs
  <2>2. CASE SetupBegins("cps", v, Default)
    BY <1>5, <2>2, SetupBeginsKeepsCover
  <2>3. CASE op' \in {NoOp, Dead}
    <3>1. UNCHANGED <<netns, sub_net_map, addr, ip_events, ip_addr_map, nat, missed>>
      BY <2>1 DEF maps, ips
    <3> QED
      BY <1>5, <2>1, <2>3, <3>1, OthersKeepCover
  <2> QED
    BY <2>1, <2>2, <2>3
<1>6. ASSUME UNCHANGED modes,
             \/ Uninstall \/ Teardown \/ VrfDeleteEnds
             \/ \E key \in DOMAIN sub_net_map : TeardownStarts(key)
             \/ \E v \in Vrfs : VrfDelete(v)
      PROVE  CoverInv'
  <2>1. "vrf" \in modes
    <3>1. CASE op.kind = "delete"
      BY <1>0, <3>1 DEF OpShape
    <3>2. CASE \E v \in Vrfs : VrfDelete(v)
      BY <3>2 DEF VrfDelete
    <3> QED
      BY <1>6, <3>1, <3>2 DEF Uninstall, Teardown, VrfDeleteEnds, TeardownStarts
  <2>2. ~Undisturbed'
    BY <1>6, <2>1 DEF Undisturbed
  <2> QED
    BY <2>2 DEF CoverInv
<1>7. ASSUME UNCHANGED modes, NEW v \in Vrfs, VrfCreate(v) \/ VrfCreateFails(v) PROVE CoverInv'
  <2>1. /\ op = NoOp /\ UNCHANGED <<sub_net_map, ips>>
        /\ netns \subseteq netns' /\ op' \in {NoOp, Dead}
    BY <1>7, RaisedInIs DEF VrfCreate, VrfCreateFails
  <2>2. UNCHANGED <<addr, ip_events, ip_addr_map, nat, missed>>
    BY <2>1 DEF ips
  <2> QED
    BY <1>7, <2>1, <2>2, OthersKeepCover
<1>8. ASSUME UNCHANGED modes,
             \/ \E v \in Names : AddRule(v)
             \/ \E i \in DOMAIN cache : DelRule(i)
             \/ \E v \in Names, s \in SrcIps : SrcIpConfig(v, s)
             \/ \E e \in LeakEvents : PostLeak(e)
             \/ LeakRoute
      PROVE  CoverInv'
  <2>1. UNCHANGED <<netns, sub_net_map, op, ips>>
    BY <1>8 DEF AddRule, DelRule, SrcIpConfig, PostLeak, LeakRoute, maps
  <2>2. UNCHANGED <<addr, ip_events, ip_addr_map, nat, missed>>
    BY <2>1 DEF ips
  <2> QED
    BY <1>8, <2>1, <2>2, OthersKeepCover
<1> QED
  BY <1>1, <1>2, <1>3, <1>4, <1>5, <1>6, <1>7, <1>8
     DEF Next, HolderStep, LeakStep, Request

(* The addresses are covered, always, where commands, events and VRFs      *)
(* leave the setups undisturbed.                                           *)
LEMMA CoverAlways == Spec => [](CoreInv /\ CoverInv)
<1>1. Init => CoverInv
  <2> SUFFICES ASSUME Init PROVE CoverInv
    OBVIOUS
  <2>1. /\ op = NoOp /\ DOMAIN sub_net_map = {} /\ addr = {} /\ ip_addr_map = {}
        /\ Len(ip_events) = 0 /\ nat = [x \in Vrfs \X Addrs |-> 0]
    BY DEF Init, Empty
  <2>2. op.kind = "none"
    BY <2>1, IdleOps
  <2>3. EventsThere /\ ListedRight
    BY <2>1, <2>2 DEF EventsThere, ListedRight
  <2>4. ASSUME NEW x \in Vrfs \X Addrs PROVE CoverAt(x)
    <3>1. nat[x] = 0 /\ x \notin addr /\ x \notin ip_addr_map
      BY <2>1
    <3>2. ~PendIn(ip_events, x) /\ ToldIn(ip_events, x, x \in addr)
      BY <2>1 DEF PendIn, ToldIn
    <3>3. ~Recorded(x[1], Default) /\ ~Setting(x, "install") /\ ~Setting(x, "setup")
      BY <2>1, <2>2 DEF Recorded, Setting
    <3> QED
      BY <3>1, <3>2, <3>3 DEF CoverAt
  <2> QED
    BY <2>3, <2>4 DEF CoverInv
<1>2. CoreInv /\ CoverInv /\ [Next]_vars => CoverInv'
  BY CoverStep
<1> QED
  BY <1>1, <1>2, CoreAlways, PTL DEF Spec

(* ip_svcs_iptable_rule_setup and the thread of address events share the   *)
(* nat rules of a VRF: no address has two of them, or one without a mark,  *)
(* and where events wait for a setup and VRFs stay, a VRF with services    *)
(* has the rule of an address exactly while it is there, once all events   *)
(* are handled, if it is on a macvlan interface, or in the management VRF  *)
(* and came after the setup.                                               *)
THEOREM NatRulesRightAlways == Spec => []NatRulesRight
<1>1. CoreInv /\ CoverInv => NatRulesRight
  <2> SUFFICES ASSUME CoreInv, CoverInv PROVE NatRulesRight
    OBVIOUS
  <2>1. NatMarked
    BY DEF CoreInv, NatInv
  <2>2. ASSUME Undisturbed, Quiet, NEW x \in Vrfs \X Addrs, Recorded(x[1], Default), Followed(x)
        PROVE  x \in addr <=> nat[x] > 0
    <3>1. CoverAt(x)
      BY <2>2 DEF CoverInv
    <3>2. ~PendIn(ip_events, x)
      BY <2>2 DEF Quiet, PendIn
    <3>3. x \in ip_addr_map <=> x \in addr
      BY <2>2, <3>1, <3>2 DEF CoverAt
    <3>4. nat[x] = IF x \in ip_addr_map THEN 1 ELSE 0
      BY <3>1 DEF CoverAt
    <3> QED
      BY <3>3, <3>4
  <2> QED
    BY <2>1, <2>2 DEF NatRulesRight, AddrsCovered, Undisturbed, Followed
<1> QED
  BY <1>1, CoverAlways, PTL
=============================================================================
