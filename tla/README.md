# A TLA+ verification project for opx-nas-linux

opx-nas-linux connects the network abstraction service (NAS) of OpenSwitch with
the Linux kernel.  In one direction it turns CPS requests into netlink messages,
ioctls, writes to sysfs or `ip`/`iptables` commands; in the other it turns the
kernel's netlink notifications into CPS events.  Most files translate one
message into another.  What can go wrong, and what this project is about, lives
where nas-linux *remembers* something: caches that must stay in step with the
kernel, although several threads and the kernel change things at the same time
and every command may fail.

Paths below are relative to the repository's root.

## 1. Inventory

| component | state | operations | talks to |
|---|---|---|---|
| id generator (`scripts/lib/python/dn_base_id_tool.py`) | set of reserved ids, the cached next id, the cached highest id | `get_new_id`, `reserve_id`, `release_id`, `is_id_used` | both rule caches |
| incoming service rules (`dn_base_vrf_svcs_config.py`, `VrfIncomingSvcsRule*`) | per chain: rules, their sort keys, a map id → position | insert, delete, delete by id, update, replace, clear | id generator; iptables, by position; `base_vrf.py` |
| outgoing service rules (same file, `VrfOutgoingSvcsRule*`) | the same, and a map of private ports | insert, delete, delete by id, update, replace | id generator; iptables, by position; the VRF manager, for ports and veth pairs |
| VRF manager (`scripts/bin/base_vrf.py`, `dn_base_vrf_tool.py`) | ids of VRFs, subnets of veth pairs, source addresses, marked addresses, default rules | create and delete a VRF, set up a pair, leaked routes, address events | rule caches; `ip` and `iptables` commands; CPS callbacks and two threads |
| VRF interfaces (same files) | none but the kernel's: macvlan links, moved interfaces, IPv6 settings, rules | bind and unbind an interface | `ip` and `iptables` commands |
| netlink loop (`src/net_main.cpp`, `src/netlink_tools.c`) | sockets, `read_fds`, sequence numbers | select loop, dump at start, route refresh | kernel; all event handlers |
| link events and interface cache (`src/if/*`) | `if_info` cache, bridge and bond member tables, map port → VLANs, event mask | `os_interface_to_object` with its attribute handlers, CPS get | net_main; CPS threads; subscribers |
| bonds (`src/nas_os_lag.c`) | the event mask of the interface cache | create, delete, add and remove a port | kernel; link events |
| spanning tree state (`src/nas_os_stg.cpp`, `src/if/os_interface_stg.cpp`) | cached state per port | update by the STP stack, put a state back | kernel; net_main; MAC table |
| MAC table (`src/nas_os_mac.cpp`) | static entries, refused dynamic entries (two indexes), a socket pair | program an entry, handle a move, try again | kernel; net_main; its own thread |
| multicast snooping by the kernel (`base_mcast_snoop.py`, `dn_base_mcast_snoop_utils.py`) | caches of router ports and groups, static router ports still to be applied, a queue of `hash_max` settings | CPS requests, a polling thread | kernel, by files and `bridge mdb`; nas-interface; subscribers |
| multicast snooping by an application (`dn_base_mcast_snoop.py`) | ebtables and iptables rules | CPS requests, a thread that watches VLANs | kernel; nas-interface |
| duplicate address detection (`dn_base_ip_tool.py`, threads of `base_ip.py`) | addresses whose detection failed, a timer | interface and address events, a timer that deletes and adds | kernel; users, who change addresses another way |
| VLANs and bridges, IP addresses, routes, neighbours, loopbacks, interface settings, IPsec | none of their own, or very little | translation of requests and messages | kernel |

`PROJECT.json` lists every component with its status, and under `hazards` what
is hard to test in each, at its line.

**Hard behaviours.**

* *Several threads.*  `net_main` handles kernel notifications; CPS threads serve
  requests at the same time; `nas_os_mac_main` tries refused MAC entries again;
  the VRF service has CPS callbacks, a thread of leaked routes and one of address
  events.  Locks cover single
  accesses, not always a whole decision: STP and MAC handlers read a cache,
  drop its lock and then act; the VRF service reads a next hop under its mutex and
  uses it afterwards.
* *The kernel is a fourth thread.*  It changes states by itself and its
  notifications wait in a queue, so what a handler reads is old.
* *Failures in the middle.*  Commands run one by one, and each may fail after
  the cache was changed; most netlink requests carry no `NLM_F_ACK`, so that a
  refusal by the kernel is not even noticed.
* *Positions.*  iptables rules are named by position; cache and kernel must
  agree on all of them, or a delete hits another rule.
* *Messages that look alike.*  An addition, its duplicate, a stale one and a
  removal differ in one attribute.

## 2. Modules

| module | models | kind |
|---|---|---|
| `IdAllocator` | what users of the id generator rely on | abstract specification |
| `IdGenerator` | `dn_base_id_tool.py` | component, refines `IdAllocator` |
| `RuleList` | `VrfIncomingSvcsRuleList`: operators on one rule list | operators |
| `IncomingSvcsRules` | the rule cache, ids, iptables chains, VRFs coming and going | composition |
| `RuleListProofs` | | lemmas about `RuleList` |
| `IncomingSvcsProofs` | | theorems |
| `OutgoingSvcsRules` | the outgoing rule cache, ids, private ports, nat chains shared with others | composition, on `RuleList` |
| `OutgoingSvcsProofs` | | theorems, also about `IdGenerator` |
| `VrfMgr` | VRFs, veth pairs, leaked routes, nat rules of addresses, default rules; three threads and two mutexes | component with its environment |
| `VrfMgrProofs` | | theorems |
| `VrfIntf` | binding interfaces to VRFs, command by command | component with its environment |
| `VrfIntfProofs` | | theorems |
| `LinkEvents` | link messages, interface cache, member tables, published events, bond requests | component with its environment |
| `StpState` | STP cache, updates, put-back by net_main | component with its environment |
| `MacTable` | MAC entry caches, move handler, retry thread | component with its environment |
| `BridgeProofs` | | theorems about `StpState` and `MacTable` |
| `McastSnoop` | snooping by the kernel: requests, polling thread, caches, events | component with its environment |
| `McastSnoopProofs` | | theorems, also about `McastRules` |
| `McastRules` | snooping by an application: rules of VLANs, global rules, the VLAN monitor | component with its environment |
| `Ipv6Dad` | retries of addresses whose duplicate detection failed: events, timers, the kernel and a user | component with its environment |
| `Ipv6DadProofs` | | theorems |
| `MC*` | values of constants for TLC | model checking |

Definitions keep the source's names where they model one function.  A
definition whose comment begins with "Mutant" is a plausible mistake in the
definition that follows it; it is used by no specification.  It documents
which mistake the properties would catch.

### IdGenerator

State: `resved_ids`, `avail_id`, `max_resved_id` as in the class, and `ret`, the
answer to the last call.  Each method holds the generator's mutex, so a method is
one action.  The loops of `get_next_avail_id` and of `release_id` are modelled by
the id at which they stop.  Python 2 orders `None` below every number, which
matters at two places: `LowerAvail` does not lower a `None`, and so a generator
with an upper limit that once ran out hands out nothing any more, even when ids
are released.  `IdAllocator` states this as its variable `spent`; the
refinement mapping is `spent <- (avail_id = NoId)`, where `NoId` is the `None` of the
code.  The two generators of the
rule caches have no upper limit, so the effect is latent.

### RuleList and IncomingSvcsRules

A rule is a record of a key (what `is_rule_equal` compares), the negation of its
interface match (which it does not compare), a sort key that stands for
`(grp_priority, seq_num)`, and an id.  A list has the code's three parallel
structures.  The kernel's chain is a sequence of rule specifications.
`insert_rule`, `delete_rule`, `delete_rule_by_id` and `update_rule` are one
action each per outcome, because the class mutex is held throughout; the release
of a deleted rule's id happens after the mutex is dropped and is an action of
its own (`ReleaseId`, variable `pend`).  `VrfCreate` and `VrfDelete` are what
`base_vrf.py` and `dn_base_vrf_tool.py` do to the chains; each may stop halfway.  A
deletion flushes (`-F`) and removes (`-X`) the chains command by command and ignores
what fails, so that a VRF whose namespace then cannot be deleted keeps chains that are
as they were, flushed, or gone, while their rules stay in the cache.  A delete runs no
command if `ip netns show` fails.  The frozen variable `may_fail` says which commands
may fail in a behaviour.  The history variable `marred` has the chains of which a delete
was refused or skipped and those that were flushed by a deletion that did not end,
until they are made anew.

### OutgoingSvcsRules

A rule belongs to a source address or to a service binding; a binding has a private
port, recorded under its alias in `svcs_map`, apart from the cache.  Its key is a pair:
what `replace_rule` can change and what it cannot.  The methods call each other
(`update_rule` is a delete and an insert), so they are operators from a state record to
the set of their outcomes (`Now`, `Becomes`, `Outcome`), and an action takes one of
them: every caller holds `_vrf_mutex`. `_veth_ip_get` may set up the pair of the VRF
first, which appends rules of others (`Foreign`) to the same chains; a rule of others
has a specification that no rule of the cache has.  `Clear` is `clear_all_rules` as a
whole: it deletes the first rule in the chain that has the specification of each cached
one, so that what is left is the chain without these.  If the pair of the VRF is missing
and its setup fails, the port of the first rule stays recorded, and all ports do if the
VRF is unknown.  `update_rule` and `replace_rule` are reached by no callback (it refuses
"set"); they are in the model under the mode "update".  The frozen variable `modes` says
what fails and what happens in a behaviour, here and in the two modules that follow.
`VrfCreate` and `VrfDelete` are reduced to what they do to this cache: nothing.

### VrfMgr

`op` is what the holder of `_vrf_mutex` is doing: setting up a pair or deleting a
VRF, in steps between which the thread of address events runs, as it takes only
`_vrf_ipsvcs_mutex`.  `leak` is the thread of leaked routes after it has given the
mutex back with a next hop in its hand.  A command may fail, and may raise an
exception, which leaves `_vrf_mutex` taken where the code has no handler
(`Dead`, `NoThread`) or `_vrf_ipsvcs_mutex` (`ipsvcs_lost`).  The cache of
incoming rules is reduced to ids and owners, as the default rules are deleted by
id; requests add rules and delete any rule, default ones too, by id or by what it
matches.  A default rule may fail to be made, if its command fails or an equal rule is
there.  The kernel has pairs, routes, addresses and counts of nat rules; a route
goes with its link, a link with its namespace.  `OnMacvlan` has the addresses on
macvlan interfaces: the listing at the setup of services looks at these only, so at
none of the management VRF (`Mgmt`), for which the handlers of events make an exception.
History variables: `taken` are the names whose default rule was deleted in another way
than with its VRF, `missed` the addresses that a setup did not list, until an event
about them comes.

Abstractions: IPv4 and IPv6 rules of an address are one; the TTL mangle rules,
MAC addresses and the query callback are left out; a subnet is its value
(`_vrf_sub_net_val`), an end of a pair 1 or 2; a rule that "set" changes keeps its id
and its VRF, and one that it loses is one that is deleted; the VRF ids that nas-linux
and other services keep are `known`; the `nas_os_vrf.cpp` maps are left out.

### VrfIntf

A bind or an unbind is one action, as it holds `_vrf_mutex`, but it stops at the
first command that fails and undoes nothing, so that its outcomes are the states
after each prefix of its commands.  `bound` is what the requester was told.  VRFs
are created and deleted whole here.  When the management VRF's namespace is
deleted the kernel gives the interface back.  The modes are the faults: a command
fails, a bound interface is bound again, an unbind names another VRF, a bind names
one that does not exist, a VRF is deleted while it has interfaces.  A loopback
differs from other interfaces only in the MAC address, which is left out.

### LinkEvents

One module for the event path, because its properties are about the sum of the
handlers.  External parts are the kernel's links, its message queue and the subscriber.
Assumptions about the kernel: a full message has the kind, an AF_BRIDGE message has not;
joining a bond sets SLAVE before the master is set, and leaving clears the master first;
some kernels send one stale addition after a port has left a bridge; deleting a link is
the sequence of the releases and of the deletion; an ifindex is not used again.  In
net_main handling a message is one action: what the handler asks the kernel meanwhile is
answered from the state at that moment.  A CPS get is three actions, as its thread takes
no lock over the tables: it asks the kernel for the link (`GetAsk`), looks at the tables
and at the kernel's present master (`GetCheck`), and changes tables and cache
(`GetAdd`); net_main and the kernel go on in between.  Gets of ports, of members of
bonds, which are entered again without a look at the kernel, and of vlan links are
included.  History variables: `misled` are the links about which a get misled the
tables, `unadded` the ports whose addition to a bond failed after their events were
masked.  The scenario of a behaviour (which links exist, what happens to them) is the
frozen variable `net`.  Oper state, MTU and MAC are tracked as the admin state is and
left out; vxlan links are left out.  `nas_os_add_port_to_lag` and
`nas_os_delete_port_from_lag` are sequences of actions, one per request.

### StpState

`nl_int_update_stp_state` holds `_if_stp_mutex` from beginning to end and is one
action.  The handler in net_main makes two calls (read the cache, put the cached
state back) and so is two actions with `revert` in between.  `asked` is the
state the stack asked for last with success; `unsent` records the ports for
which net_main's request could not be sent.  Both are history variables that
the actions only write.

### MacTable

The caller of `nas_os_mac_update_entry`, net_main, the thread of
`nas_os_mac_main` and the kernel.  An update is three actions: the list of
static entries, the request, and the listing of a refused entry under
`dynamic_mac_lock`.  `nas_os_mac_main` holds that lock while it goes through the
entries of a port, one action per entry.  A bounded socket makes its writer
wait.  The sort of an entry (static, dynamic) does not change during a
behaviour.  The caller uses CREATE, SET and DELETE in any order.  `conf` is what it
asked for last.  `recreated` is history: the entries that a refused CREATE has left at
another port too, since a CREATE does not look where an entry waits already.

### McastSnoop

Two threads share the caches of `McastSnoopCacheMgr`.  The polling thread holds
the lock for a whole round; a round is the application of the remembered static
router ports (one action per write), the reading of the database, the update of
the router ports and that of the groups.  The request thread takes the lock for
single steps, between which files are written without it.  A request carries one
attribute; a static router request carries a list of ports.  The environment
changes memberships (the kernel follows nas-interface later), learns and ages
groups and routers, fails to find a VLAN, and refuses `hash_max` for a while
after snooping was enabled.  A port's file name depends on whether the port is
tagged, which is what makes a remembered entry stale.

Abstractions: the bridges exist throughout, so that writes to a bridge's own files
succeed; publishing the difference of one set is one step; subscribers forget a VLAN
whose snooping is disabled; expiry times are left out, as they are not part of an
entry's equality.  History variables, which no action reads but to update them:
`tainted` are the VLANs whose events were skipped or overtaken by a disable, `gone` the
static router ports whose delete was reported as a success, also where it was skipped
because a port is no member (`EndMrouterRequest`), `undone` those whose delete a poll
undid half-way, `spoiled` those of `gone` that were undone, were remembered when their
delete was skipped, or stand behind such a port in the list.  The properties except
these cases by name: they are behaviours of the code, listed under `hazards`.

### McastRules

When an application snoops, each VLAN with snooping enabled has a rule per
protocol that marks reports, and global parts stop what is marked: a chain whose
rules accept reports and special queries as they are marked and then take the mark off
the rest, a jump to it, nat rules and a switch (`Parts`).  The order in the chain is
modelled (`chain[pr]`: what is in front of the rule that takes the mark off, that rule, and
what is behind it), because an enable appends whatever it does not find, goes on after a
failure, and a repetition appends the missing rule at the end.  A request and the
monitor thread each read the table and then issue a
command, so these are separate actions and everything may happen in between.
A global request is one action: nobody else touches its rules.  Its outcome is
chosen by the rules of the chain and the part that fail (enable) or by the set of parts
that fail (disable).  History variables: `excused` records the VLANs whose deletion event
was handled late, in part, or while a request about the VLAN was under way, `skipped` the
protocols whose chain got its last rule without an earlier one and was not flushed since.

### Ipv6Dad

`addr` is the kernel's state of each address: absent, tentative, usable or failed.
Only events of failed addresses reach `events`, as `handle_addr_event` skips the
others before it takes a lock.  `failed_list` is the code's dictionary, `timers` the
number of `Timer` objects that have not fired: a new one starts whenever an address
is added to an empty list, also while an older one runs.  `hdl` is the place of
`handle_dad_failure_timer`, which holds `_addr_mutex` throughout; its delete and its
add are two actions, between which the kernel and the user act.  `modes` chooses
for a behaviour whether commands fail, raise an exception (the mutex then stays
taken, `hdl.at = "lost"`), or whether the user adds an address again that is still
wanted.  `wanted`, which no code reads, says which addresses were asked for.

## 3. Runs

| run | bounds | states | shows |
|---|---|---|---|
| `id_generator` | ids 2..6, requests 1..7 | 784 | cached values exact, no id twice, refinement; the range is small enough to run out and to have ids outside of it on both sides |
| `incoming_rules` | 2 threads, 2 chains, ids ≤ 3, chains ≤ 3, 3 keys × negation × 2 sort keys; where deletes may fail, chains ≤ 2, 2 keys and one rule of the VRF | 27 464 | list structure and order, ownership of ids, and cache and kernel equal rule by rule, but for a chain that is marred |
| `outgoing_rules` | 2 VRFs, 3 chains, ≤ 3 rules, 2 ports, ≤ 1 rule of others; 4 sets of faults | 26 057 | ids and ports belong to one rule, rollbacks give them back, cached rules are the first of the chain |
| `vrf_mgr` | 2 VRFs, one of them the management VRF, 2 subnets, 3 rules, 1 prefix and source address, queues ≤ 2; 12 sets of faults and inputs; 2 addresses where only they change, else 1 | 709 929 | pairs have their own subnet, exist and carry the source addresses; routes lead where they should; one nat rule per address; default rules keep their ids; operations end |
| `vrf_intf` | 2 interfaces, 2 VRFs and the management VRF, ≤ 2 DROP rules; each fault alone and all together | 138 588 | a reported link stays; interfaces, IPv6 and rules are those of the VRF that was asked for |
| `link` | 7 scenarios of 2–4 links, queue ≤ 4 | 1 041 108 | member tables and the VLAN map end up as the kernel's, but for links that a get misled; the mask of a bond's new port is lifted; where only events are handled, the cache and a subscriber end up as the kernel too |
| `link_restart` | a port in a bridge before nas-linux starts | | **violation** of `MembersPublished` |
| `stp_state` | 2 ports, 3 states, 3 events | 27 302 | the state asked for last holds, mismatches heal |
| `mac_table` | 1 entry, 2 ports, 3 events, socket of 1; CREATE, SET and DELETE | 187 552 | indexes agree, but for an entry that a CREATE left at an old port; static entries in place, noticed entries programmed |
| `mcast_snoop` | 1 VLAN, port and group, a port named once or twice, 3 requests, 2 changes around, 2 tries | 283 078 | caches agree, subscribers know what is cached, deletes last unless they are spoiled, remembered ports are applied, polling goes on |
| `mcast_rules` | 1 VLAN, 2 protocols, 3 requests, 3 creations and deletions | 210 003 | rules follow requests and VLANs, success means reports are stopped unless a rule of the chain was skipped, the kernel stops snooping |
| `ipv6_dad` | 2 addresses, one link-local, 2 waiting events, 2 timers; each fault alone | 1 090 088 | a listed address has a timer; retries bring no deleted address back and lose none; addresses recover |

A property of a run is often a conjunction of named parts: `WellFormed` joins a
module's type invariant with the consistency of its tables, and a name in
"Unless" says where the part is claimed: in which behaviours (`modes`), or for what a
history variable does not name (`marred`, `misled`, `recreated`, `spoiled`, `taken`; inside
other properties also `tainted`, `excused`, `skipped`, `missed`, `unadded`).  What is left
out is not forgotten: there the code breaks the part, as section 4 and the hazards' notes
say, and the run still checks everything else.  A history variable is as narrow as that:
it names the chain, the link, the entry or the rule to which it happened, everything
else is claimed in the same behaviour.

*Why the bounds are enough.*  A wrong position in a rule list needs two rules
with equal sort keys and a third around them; two threads and one release
outside the lock are enough for any overlap of two ids.  A membership is wrong
after at most a join, a leave and a stale or duplicate message of one port, so
that two candidates for its master and a queue that holds two such sequences
show it; a get of each sort of member needs one link and its master.  Stale decisions
of net_main in `StpState` and `MacTable` need one event in its hand, one queued and one
change by somebody else; an entry waits at two ports after a CREATE at each.  In `McastSnoop`
VLANs, ports and groups do not influence each other, but for a list of ports that
ends early; three requests are a disable, an enable and a third in between, two
changes are a membership that comes and goes or changes its tag.  In
`McastRules` three changes make a VLAN, delete it and make it again.  In
`VrfMgr` two subnets for three possible pairs make the range run out, and a value
is used again by another pair after a delete; one event in hand and one waiting
are enough for each of its threads, and `InBounds` of `MCVrfMgr` says which VRF the
events are about, by an argument of symmetry; three rules are the default rules of a VRF and of
the default VRF, and one that gets an id of theirs.  In `OutgoingSvcsRules` two ports
for three rules run out as well, and two rules with one of others behind them
show a wrong position.  In `VrfIntf` two interfaces and two VRFs are what a link
in the wrong place needs, and a third DROP rule would be one more of the same.  In `Ipv6Dad` two addresses make
the list shrink to one, or to none, while a timer runs, and two timers overlap; a
third would find nothing that the second does not.

*Deadlock.*  Checked everywhere but in `LinkEvents`, where the system may stop
(links that are gone do not come back and the queue is bounded), in
`McastRules`, where both threads wait once the bounded requests and VLAN changes
are used up, and in `VrfMgr`, where after an exception both mutexes may stay
taken: `OpsEnd` says that nothing else makes it stop in the middle.

*Symmetry.*  `incoming_rules` permutes threads and keys, `outgoing_rules` the
destinations, `vrf_intf` the interfaces and the VRFs with macvlan links, which the
specifications treat alike; none of them checks liveness.

*Fairness.*  `StpState` assumes weak fairness of net_main's steps, `MacTable` of
the steps of a call that has begun, of net_main's and of `nas_os_mac_main`'s.
`VrfMgr` assumes weak fairness of the steps of the thread that holds `_vrf_mutex`.
The threads are endless loops, and no step of theirs waits for anything but a
lock or a socket that another fair step frees.  `McastRules` assumes weak fairness
of the steps of a request that has begun and of the monitor's.  `McastSnoop`
assumes weak fairness of the polling thread and strong fairness of the steps of a
request that has begun, as these need a lock that the polling thread takes again
and again but lets go of between rounds, for seconds; and that a grace period of
the kernel ends.  `Ipv6Dad` assumes weak fairness of the event thread, of a timer
that was started, of the timer's function and of the kernel's detection, which ends
by itself.  Nothing else is assumed of the kernel or of the callers.

## 4. Findings

One run ends in a violation of a property that a comment in the code states.

1. `link_restart`: the dump at start lists links by ifindex; a port that comes
   before its bridge is entered in the tables, its event is dropped because the
   bridge's name is unknown, and every later message is a duplicate
   (`src/if/os_interface.cpp:435`).

Further behaviours met while modelling, which the passing runs leave out by
their scenarios, modes or history variables, or which are listed under `hazards` with a
note: a refused
insert keeps its id reserved (`dn_base_vrf_svcs_config.py:801`); a CPS get
swallows the event of a membership (`os_interface.cpp:503`), enters a bridge member
whose leave net_main handles between the get's look at the kernel and its addition
(`os_interface_bridge.cpp:121`), and a bond member without any such look
(`os_interface.cpp:640`); a get that is the first to see a vlan link gives it the type of
the port that its bridge makes of it, so that its leave is looked up among the untagged
members; a failed addition to a bond leaves admin events masked
(`nas_os_lag.c:323`); a deleted macvlan link stays cached
(`os_interface.cpp:414`); the cached master of a link without one is
uninitialised (`:268`); after a restart a tagged member is taken for an untagged
one (`os_interface_bridge.cpp:164`); the dummy member of a bond gets the type of
a loopback from the table of kinds before the handler that spares it runs
(`os_interface.cpp:148`); a MAC entry that is listed after its port began to
forward waits for ever (`nas_os_mac.cpp:476`); a static entry deleted while it is
being moved back stays in the kernel (`:153`); a request that succeeds does not forget
the entry that was refused before under the same key, and when the old port forwards
`nas_os_mac_main` moves the entry back to it (`:493`); a CREATE that is refused at one port
after another leaves the entry at the first one too, where it waits on after it was
programmed at the second (`:478`).  In the snooping service: the
global enable of MLD alone raises `KeyError` (`dn_base_mcast_snoop_utils.py:421`),
although the handler is called for either protocol; a delete of a static router port
fails when nothing is known of the VLAN (`:454`), which the comment at `:490` wants
ignored; one port that is no member ends the whole list, with success, also of a delete, so
that this port and those behind it may be remembered still and are applied later
(`:496`); the response interval
is written without the factor of the other intervals (`:282`); a table that cannot be
read looks empty (`dn_base_mcast_snoop.py:158`); the failure to delete the chain is
overwritten (`:351`); a rule of the chain that could not be appended is appended by the next
enable behind the rule that takes the mark off, where it stops nothing, and success is
reported (`:215`); a failed `hash_max` setting goes back to the queue and is taken
at once, so that all tries can be used up before the kernel's grace period ends
(`dn_base_mcast_snoop_utils.py:1071`).

In the VRF service: a delete that iptables refuses is rolled back by
`bisect_right`, behind the rules with the same sort key, so that the cache's
positions differ from the kernel's (`dn_base_vrf_svcs_config.py:831`); the subnet of
a pair is recorded before the pair is made, and a failure, or a leaked route of a
VRF that does not exist, leaves a record without a pair, whose addresses are then
handed out (`dn_base_vrf_tool.py:769`, `base_vrf.py:1064`); the next hop of a leaked
route may belong to another pair when it is used (`base_vrf.py:1065`); an address
whose event is handled between the listing of addresses and the record of the pair
gets no nat rule (`dn_base_vrf_tool.py:610`), and neither does one that the management VRF
had before the setup (`:618`), whose marks stay when its services are taken down; a deletion
that flushes the chains and then fails leaves their rules in the cache (`:326`); a create
of a VRF that exists deletes its default rules but keeps their ids (`base_vrf.py:155`), as
does a user's delete of a default rule by its id (`:503`): the later delete of the VRF
then deletes the rule that has got the id since (`:170`);
an exception in a command leaves `_vrf_mutex` taken (`base_vrf.py:186`); private
ports of a deleted VRF are never given back (`dn_base_vrf_tool.py:885`); a bind that
fails leaves the macvlan link in the default namespace, where its name is in the way
of every later bind (`:525`); DROP rules are never deleted, although the comment at
`:433` says so; and an unbind from the management VRF that fails at its last command
cannot be repeated (`:431`).  In the retries of `dn_base_ip_tool.py`: an address whose
add fails is gone and off the list (`:625`); one that the user adds again and deletes
between the two commands comes back (`:624`); a command that cannot be started leaves
`_addr_mutex` taken, and no address is tried any more (`:618`).

## 5. Proofs

Checked by TLAPS for every value of the constants that satisfies the named
assumptions of the modules.

**RuleListProofs.**  What the operations of `RuleList` do, for rules from any set:
what insertion and removal at a position do, that one undoes the other (the rollback of
a refused command), that the bisection of `dn_base_vrf_svcs_config.py` stops after the
last rule of a sort key (`BisectRightIs`), that the map from ids to positions follows
an insertion, a removal and a replacement (`UpdateRuleIdMapIs`), and hence that each
keeps a list in shape (`InsertKeeps`, `RemoveKeeps`, `ReplaceKeeps`): sorted, no rule or
id twice, map and sort keys in step.  Both rule caches rest on these.

**OutgoingSvcsProofs, the id generator.**  Assumptions: `MinId` is a natural number,
`MaxId` is above it or absent, `NoId` is no number.  Inductive invariant `IdInv ==
IdTypeOK /\ MaxExact /\ AvailIsLowest /\ NoneMeansLimited`. `AvailIsLowest` alone is not
inductive: `get_next_avail_id` ends its search at `max_resved_id` and skips all ids in
use only because `MaxExact` holds, and `MaxExact` survives `release_id` because its
downward search covers the whole range.  The lemmas follow that argument: least and
greatest elements of sets of naturals exist (`LeastExists`, `GreatestExists`), the
search stops at the first free id (`LoopEndIsFirstFree`, `NextAvailIsLowest`), the
downward search finds the highest (`HighestBelowIsMax`), and each method preserves
`IdInv`.  Theorems: `CachedValuesExact` (types included), `HandedOutOnce` (an action
property) and `Refinement`, that the generator implements `IdAllocator`, exhaustion
included (`SpentWhenFull`: `avail_id` becomes `NoId` exactly when the last free id is
taken).

**OutgoingSvcsProofs, the outgoing rules.**  For any VRFs, chains, keys, ports, ids and
modes; assumptions: a chain of service bindings belongs to a VRF other than the default
one, ports and ids are natural numbers, and a rule of others differs from every rule of the
cache.  A call is a composition of methods, so the invariant is stated of the record
that these pass on, `Keeps(s)`, and each method is shown to lead from states that
satisfy it to such states; `IInv` is `Keeps(Now)` and that a known VRF has its
namespace.  The parts of `Keeps` are claimed under the modes of the properties they are for:

* `Good` (always): lists are in shape, the reserved ids are those of the rules and no two
  chains share one, no two aliases share a port, a pair is recorded only of known VRFs.
  It gives `OutgoingWellFormed` and one half of `EveryBindingOwnsItsPort`.
* `Owned` (no rule is updated): a service binding has the port under its alias.  It survives
  the rollback of a refused insert because that takes out the alias of a key that no rule
  has: `outgoing_ip_svcs_rule_sub_net_config` gave it a port only as there was none.
* `Released` (no VRF is deleted, no rule updated), for `NoPortIsLost`.  That a port has
  its rule is not inductive: a delete gives the port back only if `_veth_ip_get` has an
  address.  So the invariant adds that the pair is recorded wherever a port is, and as
  it is recorded before it is set up, a failed setup does not matter.
* `Placed` (no delete fails, no show, no VRF goes), for `PositionsAreRight`: the chain
  begins with the cached rules, and the rest are `Foreign`.  It adds that a namespace that
  does not exist has neither chains nor rules, without which a VRF that is created would
  begin with rules in its lists and none in its chains.

The positions of `delete_rule` and `insert_rule` are followed through lemmas about
both sequences at once (`InPlaceAfterAppend`, `InPlaceAfterForeign` and their like).

**IncomingSvcsProofs.**  For any rules, sort keys, chains, threads and bounds, and
whatever fails.
`ListsWellFormedAlways` and `IdsOwnedAlways` are proved together (`CacheInv`), as an id
found by the map is released only if no other rule has it; a chain that is ready
belongs to a VRF that exists.  `InSyncAlways` (of `InSyncUnlessMarred`) adds that a chain
that is not ready is empty: without that the cache of a VRF that is made again would begin
out of step.  It holds whatever fails: of a chain whose delete was refused or skipped,
or that a VRF deletion flushed before it failed, nothing is claimed until it is made
anew; of every other chain, in the same behaviour, cache and kernel are equal.  The
steps at which a deletion may stop are followed as the set of chains that are gone by
then and the set of those that are flushed.

**BridgeProofs, spanning tree states.**  For any set of ports and states.  The inductive
invariant says that the cache is what the stack asked for last, and that every mismatch
of a port that is up, and whose last request went out, is *about to be noticed*: an
event in the queue shows the kernel's state, or net_main holds a revert to the state
that is still cached.  `AskedStateHolds` alone is not inductive, as it says nothing
while events wait.  Theorem: `AskedStateIsKept`, which includes the types
(`StatesRight`).

**McastSnoopProofs.**  For any VLANs, ports, groups and lists of ports.
`MapsAgreeAlways`: the maps by bridge agree with the sets; the inductive invariant
adds the shape of the maps and that a flush is of a VLAN, without which an update of
the map at the request's bridge says nothing.  `SubscribersMatchAlways`: outside a
disable, subscribers know what is cached of every VLAN that is not tainted.  It is
not inductive by itself: between the flush and its event the subscriber knows more
than the cache, so the invariant adds that a VLAN that is being disabled and is not
tainted has nothing cached (`FlushedWhenDisabling`), that only a disable flushes
(`FlushDisables`), and the first invariant, because what a flush leaves in the sets
is computed from the maps.  A round that changes something of such a VLAN taints
it, any other round tells subscribers exactly the difference.
`TypesAlways` needs the types of what a request and a round carry from step to step,
among them that the list of ports is not empty where its head is read.
`DeletedStaysDeletedAlways` is about a delete whose steps are apart: which name the
port has was read when the request began, the file is written without the lock, the
entry is forgotten with it.  By then the port is unset for one of two reasons, which
the invariant keeps apart: the delete wrote the file (`ClearedUnset`), or the port's
name is no longer the one read, so that the kernel has followed a change since and
made the port anew (`RenamedUnset`).  What a round has set in between is in `undone`.  A
delete that is skipped, as its port is no member, counts as reported like any other: such
a port is not set, because a kernel that has followed has no such member, and unless it
was remembered at that moment it stays forgotten when it joins again.  A
list may name a port twice: the second delete finds it as the first one left it.

The last part of the module is about `McastRules`, whose names do not meet those of
`McastSnoop`, for any VLANs and bounds.  `RulesFollowRequestsAlways`: with both threads
at rest the rules of a VLAN are those enabled on it, unless its deletion was handled
late or in part, and marked reports are stopped.  The invariant `AppInv` says what holds
while they are not at rest.  About a VLAN whose deletion still waits it claims nothing.
About any other (`RulesRight`): its rules are those enabled, but for the one that a
request has changed and not yet published, which is as the request asks; what a request
has read is still so when its command runs, because the monitor is not at the VLAN; and
of a VLAN that stayed away while the monitor is at it, the rules of the protocol it is
through with are gone.  A VLAN may go while a request about it is under way: then its
deletion waits or it is excused already (`GoneIsKnown`).  That the marked reports are
stopped rests on `GlobRight`, that success is reported only with all parts of the global
rules in place, and that the chain has no rule behind the one that takes the mark off
unless it is `skipped`: rules are appended in their order, so that the last one comes
without an earlier one only if that failed.

**Ipv6DadProofs.**  For any addresses, bounds and modes.  `ListedHasTimerAlways`:
inductive with the types, as the step that lists an address arms a timer or finds
the list non-empty, and every step of the timer's function takes an address off the
list and off what it still has to do together.  `RetriesKeepAddrsAlways`: that no
address comes back is not inductive, as the add of a retry does not look whether the
address is still wanted; the invariant adds `PendingWanted`, that between the two
commands the address is absent and wanted (it cannot be deleted, and it is added
only "again").  Assumptions: `Lla` is a set of addresses, at least one timer.

**BridgeProofs, the MAC table.**  For any entries, ports and bounds, and any operations,
CREATE included, which leaves a refused entry listed at its old port too
(`nas_os_mac.cpp:478` forgets on SET and DELETE only).  `IndexesAgreeAlways` says what
remains true then: the port by which the first index finds an entry is one where it
waits, it is the only one unless the entry is `recreated`, and an entry stays
`recreated` no longer than it waits somewhere.  It rests on an invariant that joins the
indexes with the type of everything in flight: only dynamic entries are listed
(`ListsOK`, `CallOK`), what the retry thread still has to do is listed (`RetryOK`), and
a static entry that net_main is moving back is static (`ChangeOK`), without which the
kernel's table could get an entry of the wrong sort. `StaticInPlaceAlways` speaks of
quiet states only; `PlaceInv` says what holds before: a static entry of the cache is in
place, or the call that listed it has yet to ask the kernel, or net_main is about to
move it back, or the event that tells where the kernel has it waits.  An event is taken
from the queue only to compare, so that the last event about an entry always finds what
is wrong.

**VrfIntfProofs.**  For any interfaces, VRFs and mixture of faults.  The four invariants
are proved as one (`IInv`), each part under the faults its property leaves out.  They need
each other: that IPv6 is on again after an unbind rests on the interface being in the VRF
it is unbound from, and that a rule is deleted from the right VRF on what the requester
was told.  `Housed` says that nothing is left in a namespace that does not exist.  Each
request is followed command by command, from the state before to every prefix at
which it may stop.

**VrfMgrProofs.**  For any VRFs, subnets, addresses, prefixes, bounds and mixture of
faults and inputs; assumptions: the default VRF is none of the others, values of subnets
are natural numbers.  The properties are proved one after the other.
`DefaultRulesOwnedAlways` (in `BaseInv`): the ids that were kept for a name that is not
`taken` stay those of its default rules.  A create clears the rules of a name that has
no list, the lowest free id of a finite cache exists and is in nobody's hands, and two
names that are not taken never keep one id.  A delete by id, a repeated create, and the
deletion of a VRF that is taken, which may delete anybody's rule, each make the owners
of what they delete taken. `WellFormedAlways` adds the pairs (`PairsInv`): a subnet is
chosen and recorded in one step of the holder of the mutex, and its key is recorded in
neither direction, as the setup that began is the only one there is (`OpPairsOK`).
Every pair in the kernel has its record (`VethOK`); the converse holds only where no
command fails. `RoutesRightAlways` is about what is used after the mutex is released:
`LeaksInv` says that a next hop in the hands of the thread of leaked routes is still the
address of the pair of its event (`HopRight`), that a setup on that thread's behalf is
the one its event asks for (`LeakOwner`), and that a delete finds nothing under way
(`LeakGone`); subnets are distinct, hence a next hop leads to one VRF (`HopLeads`).
`PairsRealAlways` needs more than itself: source addresses must be on the pairs exactly
where there is a record (`IpsRight`), and the ends of a setup and of waiting events are
known (`KnownEnds`), or a record would be made without its pair. `NatRulesRightAlways`:
a nat rule has a mark, whatever interleaves (`NatInv`).  That all addresses on macvlan
interfaces, and those of the management VRF that are not `missed`, are covered is
claimed of quiet states only and rests on `CoverInv`: of every such address about which
no event waits, a setup has listed it if and only if it is there, then marked it, then
recorded the pair; and the last event about an address tells whether it is there
(`ToldIn`), so that events in the queue need not be compared with each other.  Before
its pair is recorded a VRF has no marks, unless the range of subnets has run out: a
setup that finds no value leaves the marks it made, and as no VRF is deleted in these
behaviours no later setup finds a value and records the pair.

**Only model-checked.**  Liveness (`MismatchHeals`, `NoticedEntriesProgrammed`,
`StaticApplied`, `PollsForever`, `KernelStopsSnooping`, `OpsEnd`, `Recovers`), which
needs fairness and is out of this prover's reach; and the invariants of `LinkEvents`
(`TablesTracked`, `MaskLifted`, `MembersPublished`, `LinksTracked`).  These say what the
tables and a subscriber know once the queue is empty; an inductive invariant has to
say of every queue that may be waiting, with its duplicates and its stale
addition, what handling it to the end will make of the tables, which is a statement
about the fold of the handlers over a sequence, and so an induction over data.

## 6. What is not modelled, and the plan

In this order:

1. Proofs: `LinkEvents`, if its queue can be described message by message.
2. The sockets of net_main: dumps at start and on a route refresh, sequence
   numbers, events lost in between, overruns.  `LinkEvents`, `StpState` and
   `MacTable` take net_main's events from a queue in the kernel's order.
3. VLANs and bridges (`nas_os_vlan.cpp`), creation and deletion of bonds, MAC
   learning.

Not planned: the translation of single requests and messages (routes, neighbours,
addresses, the IP settings of `base_ip.py`, interface settings, `nas_os_vrf.cpp`),
statistics, and wrappers of the `ip` command: they keep no state, and a model would
repeat their attribute lists.
