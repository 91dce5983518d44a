------------------------- MODULE OutgoingSvcsRules -------------------------
(***************************************************************************)
(* The cache of outgoing service rules (VrfOutgoingSvcsRuleCache in        *)
(* scripts/lib/python/dn_base_vrf_svcs_config.py), the private ports that  *)
(* dn_base_vrf_tool.py hands out for them and the nat chains of the VRFs'  *)
(* namespaces, which the cache programs by position and in which others    *)
(* append rules of their own.                                              *)
(*                                                                         *)
(* The rules belong to a source address (SNAT, chain POSTROUTING) or to a  *)
(* service binding (OUT_IP, chain PREROUTING), which has a private port:   *)
(* the port is recorded under the alias (VRF, address family, public       *)
(* address, protocol, public port), apart from the cache.  Every caller is *)
(* a CPS callback and holds _vrf_mutex, so a call is one action.           *)
(***************************************************************************)
EXTENDS Integers, FiniteSets, RuleList

CONSTANTS
  Chains,      \* one per address family, VRF and rule type
  OutChains,   \* those of service bindings (RULE_TYPE_OUT_IP)
  Vrfs,        \* the VRFs other than the default one
  VrfOf,       \* [Chains -> Vrfs \cup {None}]; None is the default VRF
  Dsts,        \* the replaceable part of a rule's key: addresses and port
  Protos,      \* the part of its key that replace_rule cannot change
  Ports,       \* _start_private_port .. _end_private_port - 1
  RuleIds,     \* the ids that callers ask for by number
  Modes,       \* what may happen in a behaviour, see modes
  Foreign,     \* a rule of someone else
  None

ASSUME OutChainsAssumption == OutChains \subseteq Chains
ASSUME OutVrfOfAssumption ==
  VrfOf \in [Chains -> Vrfs \cup {None}] /\ \A c \in OutChains : VrfOf[c] \in Vrfs
ASSUME PortsAssumption == Ports \subseteq Nat
ASSUME OutRuleIdsAssumption == RuleIds \subseteq Nat \ {0}
ASSUME OutNoneAssumption == None \notin Int /\ None \notin Vrfs
ASSUME ForeignAssumption ==
  Foreign \notin [key : Dsts \X Protos, port : Ports \cup {None}]
ASSUME ModesAssumption ==
  Modes \subseteq SUBSET {"insert", "delete", "show", "setup", "vrf", "teardown", "update"}

VARIABLES
  modes,       \* the commands that may fail ("setup": of a new VRF or veth pair,
               \* "teardown": of their removal), "vrf" if VRFs are deleted, "update"
               \* if the calls that no callback makes are made
  lists,       \* the rule list of each chain; a missing list is an empty one
  rule_ids,    \* ids reserved in the id generator
  svcs_map,    \* _outgoing_ip_svcs_map: alias -> private port
  known,       \* the VRFs in _vrf_name_to_id
  subnet,      \* the VRFs whose pair with the default VRF is in _vrf_sub_net_map
  netns,       \* the VRFs whose network namespace exists
  chain        \* the content of the chains: rule specifications and Foreign

vars == <<modes, lists, rule_ids, svcs_map, known, subnet, netns, chain>>

ChainsOf(v) == {c \in Chains : VrfOf[c] = v}

Init ==
  /\ modes \in Modes
  /\ lists = [c \in Chains |-> EmptyList]
  /\ rule_ids = {}
  /\ svcs_map = [a \in {} |-> 0]
  /\ known = {} /\ subnet = {} /\ netns = {}
  /\ chain = [c \in Chains |-> <<>>]

(* What a call can change, as a record: the methods of the cache are       *)
(* operators that give the set of their outcomes, the state they leave and *)
(* whether they report success, because update_rule calls the others.      *)
Now ==
  [lists |-> lists, ids |-> rule_ids, ports |-> svcs_map, subnet |-> subnet, chain |-> chain]

Becomes(s) ==
  /\ lists' = s.lists
  /\ rule_ids' = s.ids
  /\ svcs_map' = s.ports
  /\ subnet' = s.subnet
  /\ chain' = s.chain

Outcome(s, ok) == [s |-> s, ok |-> ok]
-----------------------------------------------------------------------------
(* The iptables commands of proc_rule, which name a rule by its position.  *)
(* The match of a service binding is on its private port.                  *)
SpecOf(r) == [key |-> r.key, port |-> r.port]

Exists(c) == VrfOf[c] \in netns \cup {None}

CanRun(c, pos, len) == Exists(c) /\ pos <= len

(* Mutant: iptables counts positions from 1, the list from 0. *)
DeleteOffByOne(ch, c, idx) ==
  IF CanRun(c, idx, Len(ch[c])) /\ idx > 0
    THEN {[ch EXCEPT ![c] = RemoveAt(@, idx)]} ELSE {ch}

(* A delete is skipped, with success, where "ip netns show" does not list  *)
(* the VRF or fails.                                                       *)
DeleteResults(ch, c, idx) ==
  (IF ~Exists(c) \/ ("show" \in modes /\ VrfOf[c] # None) THEN {ch} ELSE {})
  \cup (IF CanRun(c, idx + 1, Len(ch[c]))
          THEN {[ch EXCEPT ![c] = RemoveAt(@, idx + 1)]} ELSE {})

DeleteCanFail(ch, c, idx) ==
  Exists(c) /\ ("delete" \in modes \/ ~CanRun(c, idx + 1, Len(ch[c])))
-----------------------------------------------------------------------------
(* ip_svcs_subnet_setup for a VRF without a pair: the subnet is recorded   *)
(* before anything is configured, so the next call takes a setup that      *)
(* failed for done.  A setup appends rules to PREROUTING if the VRF has    *)
(* addresses, and to POSTROUTING.                                          *)
SubnetSetup(s, v, ok) ==
  {Outcome([s EXCEPT !.subnet = @ \cup {v},
                     !.chain = [c \in Chains |-> IF c \in cs THEN Append(@[c], Foreign)
                                                            ELSE @[c]]], ok) :
     cs \in {sub \in SUBSET ChainsOf(v) : ok => ChainsOf(v) \ OutChains \subseteq sub}}

(* _veth_ip_get for the pair of v and the default VRF. *)
VethIpGet(s, v) ==
  CASE v \in s.subnet -> {Outcome(s, TRUE)}
    [] v \notin s.subnet \cup known -> {Outcome(s, FALSE)}
    [] OTHER -> SubnetSetup(s, v, TRUE)
                \cup (IF "setup" \in modes THEN SubnetSetup(s, v, FALSE) ELSE {})

(* Service bindings have one alias per rule key and chain.                 *)
Alias(c, key) == <<c, key>>

(* The lowest port that is in no entry of the map. *)
FreePort(ports) ==
  LET free == Ports \ Range(ports)
  IN  {p \in free : \A q \in free : p <= q}

(* Mutant: nothing is taken out of the map. *)
KeepAlias(ports, a) == ports

PopAlias(ports, a) == [b \in DOMAIN ports \ {a} |-> ports[b]]

AddAlias(ports, a, p) == [b \in DOMAIN ports \cup {a} |-> IF b = a THEN p ELSE ports[b]]

(* outgoing_ip_svcs_rule_sub_net_config: an insert allocates a port, which *)
(* is None if there is no address, the alias is in use or no port is free. *)
AllocatePort(s, c, key) ==
  UNION {IF x.ok /\ Alias(c, key) \notin DOMAIN x.s.ports /\ FreePort(x.s.ports) # {}
           THEN {[s |-> [x.s EXCEPT !.ports = AddAlias(@, Alias(c, key), p)], port |-> p] :
                   p \in FreePort(x.s.ports)}
           ELSE {[s |-> x.s, port |-> None]} :
         x \in VethIpGet(s, VrfOf[c])}

(* A delete comes to the map only if _veth_ip_get has an address.          *)
ReleasePort(s, c, key) ==
  IF c \notin OutChains
    THEN {s}
    ELSE {IF x.ok THEN [x.s EXCEPT !.ports = PopAlias(@, Alias(c, key))] ELSE x.s :
            x \in VethIpGet(s, VrfOf[c])}
-----------------------------------------------------------------------------
Rule(key, id, port) == [key |-> key, seq |-> 0, id |-> id, port |-> port]

(* The rest of insert_rule, once the rule has its id and its port.         *)
InsertWithPort(s, c, rule) ==
  LET lst == s.lists[c]
      idx == InsertPos(lst, rule)
      pos == idx + 1
      len == Len(s.chain[c]) + 1
      taken == [s EXCEPT !.ids = @ \cup {rule.id}, !.lists[c] = Insert(lst, rule),
                         !.chain[c] = InsertAt(@, pos, SpecOf(rule))]
      failed == {Outcome(x, FALSE) : x \in ReleasePort(s, c, rule.key)}
  IN  IF CanInsert(lst, rule)
        THEN (IF CanRun(c, pos, len) THEN {Outcome(taken, TRUE)} ELSE {})
             \cup (IF "insert" \in modes \/ ~CanRun(c, pos, len) THEN failed ELSE {})
        ELSE failed

(* Mutant: the rule's id is not released when iptables refuses it. *)
InsertKeepsId(s, c, key, i) ==
  UNION {IF a.port = None /\ c \in OutChains
           THEN {Outcome(a.s, FALSE)}
           ELSE {[x EXCEPT !.s.ids = @ \cup {i}] :
                   x \in InsertWithPort(a.s, c, Rule(key, i, a.port))} :
         a \in IF c \in OutChains THEN AllocatePort(s, c, key)
                                 ELSE {[s |-> s, port |-> None]}}

(* insert_rule with an id that was free.  Whatever fails, the id and the   *)
(* port are released again; a subnet that was set up on the way stays.     *)
InsertRule(s, c, key, i) ==
  UNION {IF a.port = None /\ c \in OutChains
           THEN {Outcome(a.s, FALSE)}
           ELSE InsertWithPort(a.s, c, Rule(key, i, a.port)) :
         a \in IF c \in OutChains THEN AllocatePort(s, c, key)
                                 ELSE {[s |-> s, port |-> None]}}

(* The rule leaves its list, its id is free again and iptables has left ch. *)
WithoutRule(s, c, idx, ch) ==
  [s EXCEPT !.lists[c] = RemovePos(@, idx), !.ids = @ \ {s.lists[c].rules[idx + 1].id},
            !.chain = ch]

(* A rule that iptables does not delete goes back, behind its equals.      *)
PutBack(s, c, idx) ==
  [s EXCEPT !.lists[c] = Insert(RemovePos(@, idx), s.lists[c].rules[idx + 1])]

(* Mutant: the port is released before it is known whether the rule went.  *)
DeleteReleasesFirst(s, c, idx) ==
  LET key == s.lists[c].rules[idx + 1].key
      outcomes == {WithoutRule(s, c, idx, ch) : ch \in DeleteResults(s.chain, c, idx)}
  IN  {Outcome(x, TRUE) : x \in UNION {ReleasePort(g, c, key) : g \in outcomes}}
      \cup (IF DeleteCanFail(s.chain, c, idx)
              THEN {Outcome(PutBack(x, c, idx), FALSE) : x \in ReleasePort(s, c, key)} ELSE {})

(* The common part of delete_rule and delete_rule_by_id.                   *)
DeletePos(s, c, idx) ==
  LET key == s.lists[c].rules[idx + 1].key
      outcomes == {WithoutRule(s, c, idx, ch) : ch \in DeleteResults(s.chain, c, idx)}
  IN  {Outcome(x, TRUE) : x \in UNION {ReleasePort(g, c, key) : g \in outcomes}}
      \cup (IF DeleteCanFail(s.chain, c, idx) THEN {Outcome(PutBack(s, c, idx), FALSE)} ELSE {})

(* A key names the rule to delete, which has to have the private port if   *)
(* one is given as well.                                                   *)
Matches(c, key, port) ==
  /\ HasEqual(lists[c], [key |-> key])
  /\ port # None => lists[c].rules[IndexOf(lists[c], [key |-> key]) + 1].port = port

(* replace_rule puts the changed rule in the place of the old one, and     *)
(* leaves the port under the old alias.                                    *)
ReplaceRule(s, c, idx, key) ==
  LET u == [s.lists[c].rules[idx + 1] EXCEPT !.key = key]
  IN  IF CanRun(c, idx + 1, Len(s.chain[c]))
        THEN {Outcome([s EXCEPT !.lists[c] = Replace(@, idx, u),
                                !.chain[c][idx + 1] = SpecOf(u)], TRUE)}
        ELSE {}

(* update_rule deletes the rule and inserts the changed one where iptables *)
(* cannot replace it, and the old one again if that fails.                 *)
UpdateRule(s, c, idx, key) ==
  LET r == s.lists[c].rules[idx + 1]
  IN  IF key[2] = r.key[2]
        THEN ReplaceRule(s, c, idx, key)
        ELSE UNION {IF ~d.ok THEN {d}
                    ELSE UNION {IF n.ok THEN {n} ELSE InsertRule(n.s, c, r.key, r.id) :
                                  n \in InsertRule(d.s, c, key, r.id)} :
                    d \in DeletePos(s, c, idx)}

(* clear_all_rules deletes the rules by their specifications and ignores   *)
(* failures: a delete takes the first rule that matches.  No two rules of  *)
(* a list have one specification, so that the order does not matter.       *)
ClearResults(c, ch) ==
  LET specs == {SpecOf(r) : r \in Range(lists[c].rules)}
      Gone(failed) == {k \in DOMAIN ch : /\ ch[k] \in specs \ failed
                                        /\ \A j \in 1 .. (k - 1) : ch[j] # ch[k]}
      Left(rest) == {[k \in DOMAIN f |-> ch[f[k]]] :
                       f \in {g \in [1 .. Cardinality(rest) -> rest] :
                                \A j, k \in DOMAIN g : j < k => g[j] < g[k]}}
  IN  UNION {Left(DOMAIN ch \ Gone(failed)) :
               failed \in IF modes \cap {"delete", "show"} = {} THEN {{}} ELSE SUBSET specs}

(* The first service binding may find the pair of its VRF not set up: then *)
(* its own port stays recorded if the setup fails, but not the others.     *)
BoundChains(v) == {c \in OutChains \cap ChainsOf(v) : lists[c].rules # <<>>}

Aliases(v) == UNION {{Alias(c, r.key) : r \in Range(lists[c].rules)} : c \in BoundChains(v)}

KeptAliases(x, v) ==
  CASE x.ok                      -> {{}}
    [] ~x.ok /\ v \notin x.s.subnet -> {Aliases(v)}
    [] OTHER                     -> {{Alias(c, lists[c].rules[1].key)} : c \in BoundChains(v)}

-----------------------------------------------------------------------------
(* The id a new rule gets: the one asked for, or the lowest free one.      *)
NewIds(asked) ==
  IF asked # None
    THEN {asked} \ rule_ids
    ELSE {i \in {1} \cup {j + 1 : j \in rule_ids} :
            i \notin rule_ids /\ \A j \in 1 .. (i - 1) : j \in rule_ids}

Keys == Dsts \X Protos

(* The operations of config_outgoing_ip_svcs_int. *)
Create(c, key, asked) ==
  /\ \E i \in NewIds(asked) : \E x \in InsertRule(Now, c, key, i) : Becomes(x.s)
  /\ UNCHANGED <<known, netns>>

DeleteByKeys(c, key, port) ==
  /\ Matches(c, key, port)
  /\ \E x \in DeletePos(Now, c, IndexOf(lists[c], [key |-> key])) : Becomes(x.s)
  /\ UNCHANGED <<known, netns>>

DeleteById(c, i) ==
  /\ i \in DOMAIN lists[c].rule_id_map
  /\ \E x \in DeletePos(Now, c, lists[c].rule_id_map[i]) : Becomes(x.s)
  /\ UNCHANGED <<known, netns>>

(* process_vrf_outgoing_svcs_rule_set, which no callback calls.  It does   *)
(* nothing if another rule equals the changed one.                         *)
Set(c, i, key) ==
  /\ "update" \in modes
  /\ i \in DOMAIN lists[c].rule_id_map
  /\ ~HasEqual(lists[c], [key |-> key])
  /\ \E x \in UpdateRule(Now, c, lists[c].rule_id_map[i], key) : Becomes(x.s)
  /\ UNCHANGED <<known, netns>>

(* process_vrf_outgoing_svcs_clear_rules, which no callback calls.         *)
Clear(v) ==
  /\ "update" \in modes
  /\ \E x \in IF BoundChains(v) = {} THEN {Outcome(Now, TRUE)} ELSE VethIpGet(Now, v) :
       /\ subnet' = x.s.subnet
       /\ \E kept \in KeptAliases(x, v) :
            svcs_map' = [a \in DOMAIN svcs_map \ (Aliases(v) \ kept) |-> svcs_map[a]]
       /\ \E f \in [ChainsOf(v) -> UNION {ClearResults(c, x.s.chain[c]) : c \in ChainsOf(v)}] :
            /\ \A c \in ChainsOf(v) : f[c] \in ClearResults(c, x.s.chain[c])
            /\ chain' = [c \in Chains |-> IF c \in ChainsOf(v) THEN f[c] ELSE x.s.chain[c]]
  /\ lists' = [c \in Chains |-> IF c \in ChainsOf(v) THEN EmptyList ELSE lists[c]]
  /\ rule_ids' = rule_ids \ UNION {Ids(lists[c]) : c \in ChainsOf(v)}
  /\ UNCHANGED <<known, netns>>
-----------------------------------------------------------------------------
(* set_vrf_cb creates a VRF: "ip netns add" fails if the namespace exists, *)
(* and a failure further on leaves what was made.  It clears the cache of  *)
(* incoming rules, not this one.                                           *)
VrfCreate(v) ==
  /\ v \notin netns
  /\ netns' = netns \cup {v}
  /\ known' \in {known \cup {v}, IF "setup" \in modes THEN known ELSE known \cup {v}}
  /\ UNCHANGED <<lists, rule_ids, svcs_map, subnet, chain>>

(* Deleting a VRF first takes down its pair, which flushes the nat tables  *)
(* of both address families, then forgets its id and deletes the           *)
(* namespace.  A step that fails ends the delete.                          *)
VrfDeleteFails(v) ==
  /\ {"vrf", "teardown"} \subseteq modes
  /\ v \in netns
  /\ \E cs \in IF v \in subnet THEN SUBSET ChainsOf(v) ELSE {{}} :
       LET flushed == [c \in Chains |-> IF c \in cs THEN <<>> ELSE chain[c]]
       IN  \/ /\ v \in subnet
              /\ subnet' \in {subnet \ {v}, IF cs = {} THEN subnet ELSE subnet \ {v}}
              /\ chain' = flushed
              /\ UNCHANGED <<known, netns>>
           \/ /\ known' = known \ {v}
              /\ subnet' = subnet \ {v}
              /\ chain' = flushed
              /\ UNCHANGED netns
  /\ UNCHANGED <<lists, rule_ids, svcs_map>>

VrfDelete(v) ==
  /\ "vrf" \in modes
  /\ v \in netns
  /\ known' = known \ {v} /\ subnet' = subnet \ {v} /\ netns' = netns \ {v}
  /\ chain' = [c \in Chains |-> IF VrfOf[c] = v THEN <<>> ELSE chain[c]]
  /\ UNCHANGED <<lists, rule_ids, svcs_map>>

(* Interfaces and addresses of a VRF come and go: process_vrf_ip_nat_config *)
(* and the address events append rules and delete them by specification.   *)
ForeignRule(c) ==
  /\ Exists(c)
  /\ \/ chain' = [chain EXCEPT ![c] = Append(@, Foreign)]
     \/ \E k \in DOMAIN chain[c] :
          /\ chain[c][k] = Foreign /\ \A j \in 1 .. (k - 1) : chain[c][j] # Foreign
          /\ chain' = [chain EXCEPT ![c] = RemoveAt(@, k)]
  /\ UNCHANGED <<lists, rule_ids, svcs_map, known, subnet, netns>>

Call ==
  \/ \E c \in Chains, key \in Keys :
       \/ \E asked \in RuleIds \cup {None} : Create(c, key, asked)
       \/ \E port \in Ports \cup {None} : DeleteByKeys(c, key, port)
       \/ \E i \in rule_ids : Set(c, i, key)
  \/ \E c \in Chains, i \in rule_ids : DeleteById(c, i)
  \/ \E c \in Chains : ForeignRule(c)
  \/ \E v \in Vrfs : Clear(v) \/ VrfCreate(v) \/ VrfDelete(v) \/ VrfDeleteFails(v)

Next == Call /\ UNCHANGED modes

Spec == Init /\ [][Next]_vars
-----------------------------------------------------------------------------
(* The state has its shape. *)
TypeOK ==
  /\ \A c \in Chains :
       lists[c].rules \in Seq([key : Keys, seq : {0}, id : Nat \ {0}, port : Ports \cup {None}])
  /\ svcs_map \in [DOMAIN svcs_map -> Ports]
  /\ known \subseteq netns /\ subnet \subseteq known /\ netns \subseteq Vrfs
  /\ DOMAIN chain = Chains

(* Whatever insert_rule, delete_rule and update_rule roll back, an id is   *)
(* reserved exactly as long as one rule has it: no rule loses its id to    *)
(* another and a failure leaves no id behind that cannot be used again.    *)
IdsExact ==
  /\ rule_ids = UNION {Ids(lists[c]) : c \in Chains}
  /\ \A c, d \in Chains : c # d => Ids(lists[c]) \cap Ids(lists[d]) = {}
  /\ \A c \in Chains : MapExact(lists[c]) /\ NoEqualRules(lists[c])

(* Beside that, the lists and maps keep their types: a port is one of the  *)
(* range, and a pair is recorded only with a VRF that is known.            *)
WellFormed == TypeOK /\ IdsExact

(* _outgoing_ip_svcs_map never gives a port to two services.               *)
PortsUnique ==
  \A a, b \in DOMAIN svcs_map : svcs_map[a] = svcs_map[b] => a = b

(* So it is, and every service binding has the port recorded for it, so    *)
(* that no other can get it while the rule is there: two rules with one    *)
(* port would send each other's traffic to the wrong server.  update_rule  *)
(* breaks this, which is why the callback refuses "set".                   *)
PortsOwned ==
  /\ PortsUnique
  /\ "update" \notin modes =>
    \A c \in OutChains : \A k \in DOMAIN lists[c].rules :
      LET r == lists[c].rules[k]
      IN  Alias(c, r.key) \in DOMAIN svcs_map /\ svcs_map[Alias(c, r.key)] = r.port

(* A port is recorded only for a rule that exists: insert_rule and         *)
(* delete_rule "release private IP and port" on every path.                *)
PortsReleased ==
  \A a \in DOMAIN svcs_map : \E k \in DOMAIN lists[a[1]].rules :
    lists[a[1]].rules[k].key = a[2]

(* That holds as long as no VRF is deleted before its rules, whatever      *)
(* fails: the setup of the pair, an insert or a delete.                    *)
PortsReleasedUnlessVrfDeleted ==
  modes \cap {"vrf", "update"} = {} => PortsReleased

(* The cached rules are the first ones of the kernel's chain, in order: a  *)
(* command that names a position hits the rule it is meant for and never   *)
(* the rules that others append.                                           *)
InFront ==
  \A c \in Chains : Exists(c) =>
    /\ Len(lists[c].rules) <= Len(chain[c])
    /\ \A k \in DOMAIN lists[c].rules : chain[c][k] = SpecOf(lists[c].rules[k])
    /\ \A k \in DOMAIN chain[c] : k > Len(lists[c].rules) => chain[c][k] = Foreign

(* Only a delete that fails or is skipped, or the end of a VRF that still  *)
(* has rules, can put the cache out of step with the kernel.               *)
InFrontUnlessDeletesFail ==
  modes \cap {"delete", "show", "vrf"} = {} => InFront
=============================================================================
