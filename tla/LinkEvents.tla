----------------------------- MODULE LinkEvents -----------------------------
(***************************************************************************)
(* What nas-linux does with the link messages of the kernel               *)
(* (os_interface_to_object in src/if/os_interface.cpp, the attribute       *)
(* handlers it calls and the interface cache), and what a subscriber of    *)
(* the published events gets to know.                                      *)
(*                                                                         *)
(* Three parties: the kernel, which changes its links and queues messages  *)
(* (external); the thread of net_main, which handles one message after     *)
(* another; and the threads of the CPS handlers, which query a link        *)
(* (_get_interfaces) and add ports to a bond or remove them (nas_os_lag.c). *)
(* Tracked attributes other than the admin state and the master (oper,     *)
(* MTU, MAC) are left out: they are stored and published as admin is, but  *)
(* for the mask.  Namespaces other than the default one have no cache.     *)
(***************************************************************************)
EXTENDS Naturals, Sequences, FiniteSets, SequencesExt

CONSTANTS
  Scenarios,   \* the sets of links to look at, and what happens to them
  MaxQueue     \* bound on the messages in the kernel's queue

ASSUME ScenariosAssumption ==
  \A s \in Scenarios :
    /\ DOMAIN s.parent = DOMAIN s.kind /\ DOMAIN s.boot = DOMAIN s.kind
    /\ \A l \in DOMAIN s.kind :
         IF s.kind[l] = "vlan" THEN s.kind[s.parent[l]] \in {"tun", "bond"}
                               ELSE s.parent[l] = 0
    /\ \A l \in s.bond_dummy : s.kind[l] = "dummy"
    /\ s.flapping \subseteq DOMAIN s.kind
    /\ s.garbage # {} /\ s.garbage \subseteq DOMAIN s.kind \cup {0}
    /\ s.activities \subseteq {"get", "lag", "fail"}
ASSUME MaxQueueAssumption == MaxQueue \in Nat

VARIABLES
  net,     \* the scenario, which never changes
  link,    \* the kernel's links
  queue,   \* link messages that net_main has not read yet
  db,      \* the interface cache and the membership tables of nas-linux
  view,    \* what a subscriber knows from the published events
  get,     \* progress of a CPS get
  misled,  \* history: links that a get has misled the tables about
  lag,     \* progress of a request to add or remove a port of a bond
  unadded  \* history: masked ports of additions that the kernel did not do

vars == <<net, link, queue, db, view, get, misled, lag, unadded>>

Kind == net.kind              \* sequence: the kind of the link with each ifindex
Parent == net.parent          \* sequence: the link under a vlan link, else 0
Boot == net.boot              \* sequence: the kernel's links when nas-linux starts
BondDummy == net.bond_dummy   \* the dummy links named dummy0 or dummy-bo-<ifindex>
Flapping == net.flapping      \* links whose admin state the kernel changes by itself
Garbage == net.garbage        \* what an uninitialised master_idx may hold
Activities == net.activities  \* of CPS threads; "fail": requests may fail to be sent

Links == DOMAIN Kind
Kinds == {"tun", "bond", "bridge", "vlan", "macvlan", "dummy", "eth"}
LinkState == [st : {"none", "live", "gone"}, up : BOOLEAN, master : Links \cup {0}]

GetIdle == [pc |-> "idle"]

LagIdle == [pc |-> "idle", port |-> 0, bond |-> 0, was |-> FALSE]

Live(l) == l # 0 /\ link[l].st = "live"

-----------------------------------------------------------------------------
(* The kernel's messages.  A full message has the link's kind; a message   *)
(* of family AF_BRIDGE has none and always has the master.                 *)
Slave(l, master) == master # 0 /\ Kind[master] = "bond"

Full(op, l, s) ==
  [op |-> op, ifx |-> l, kind |-> IF Kind[l] = "eth" THEN "" ELSE Kind[l],
   master |-> s.master, slave |-> Slave(l, s.master), up |-> s.up]

AfBridge(op, l, s) ==
  [op |-> op, ifx |-> l, kind |-> "", master |-> s.master, slave |-> FALSE, up |-> s.up]

Messages ==
  [op : {"NEW", "DEL"}, ifx : Links, kind : Kinds \cup {""}, master : Links \cup {0},
   slave : BOOLEAN, up : BOOLEAN]

Dump(l) == IF Boot[l].st = "live" THEN <<Full("NEW", l, Boot[l])>> ELSE <<>>

Init ==
  /\ net \in Scenarios
  /\ link = Boot
  /\ queue = FlattenSeq([l \in Links |-> Dump(l)])
  /\ db = [if_map |-> [l \in {} |-> {}], tag |-> {}, untag |-> {}, bond |-> {},
           s_map |-> [l \in {} |-> 0], vlans |-> {}]
  /\ view = [up |-> [l \in {} |-> FALSE], mbrs |-> {}]
  /\ get = GetIdle /\ misled = {}
  /\ lag = LagIdle /\ unadded = {}
-----------------------------------------------------------------------------
(* The handlers work on the message's details d and on the tables b, and   *)
(* tell whether the message is to be handled further (ok).  d.mbr is the   *)
(* membership that the published object will be about, if any.             *)
Cont(b, d) == [b |-> b, d |-> d, ok |-> TRUE]
Drop(b, d) == [b |-> b, d |-> d, ok |-> FALSE]

Present(b, l) == l \in DOMAIN b.if_map

(* Mutant: the port stays masked although it was added. *)
LeaveMasked(b, l) == b

Unmask(b, l) ==
  IF Present(b, l) THEN [b EXCEPT !.if_map[l].mask = FALSE] ELSE b

BondMbrAdd(b, master, l) ==
  [b EXCEPT !.bond = @ \cup {<<master, l>>},
            !.s_map = IF l \in DOMAIN @ THEN @
                      ELSE [s \in DOMAIN @ \cup {l} |-> IF s = l THEN master ELSE @[s]]]

BondMbrDel(b, master, l) ==
  [b EXCEPT !.bond = @ \ {<<master, l>>},
            !.s_map = [s \in DOMAIN @ \ {l} |-> @[s]]]

(* A port that joined a bond: with a master and the SLAVE flag.  The       *)
(* tables have it before the names are looked up, of the port in the       *)
(* kernel and of the bond in the cache.                                    *)
LagMemberAdd(b, d) ==
  LET b2 == Unmask(BondMbrAdd(b, d.master, d.ifx), d.ifx)
      d2 == [d EXCEPT !.type = "LAG", !.op = "CREATE", !.mbr = <<d.master, d.ifx>>]
  IN  CASE <<d.master, d.ifx>> \in b.bond -> Cont(b, d)
        [] OTHER -> IF Live(d.ifx) /\ Present(b2, d.master) THEN Cont(b2, d2)
                                                            ELSE Drop(b2, d)

(* A port that left its bond: SLAVE, and no master any more.               *)
LagMemberDel(b, d) ==
  IF d.ifx \notin DOMAIN b.s_map
    THEN Cont(b, d)
    ELSE LET master == b.s_map[d.ifx]
             b2 == BondMbrDel(b, master, d.ifx)
         IN  IF Live(d.ifx)
               THEN Cont(b2, [d EXCEPT !.type = "LAG", !.op = "DELETE",
                                       !.mbr = <<master, d.ifx>>])
               ELSE Drop(b2, d)

os_interface_lag_attrs_handler(b, d) ==
  IF d.type = "LAG" \/ d.kind # "tun" \/ ~d.slave
    THEN Cont(b, d)
    ELSE IF d.master # 0 THEN LagMemberAdd(b, d) ELSE LagMemberDel(b, d)

-----------------------------------------------------------------------------
Tagged(d) == d.type = "VLAN_SUBINTF"

(* The port that a member of a VLAN stands for, if its name is known to    *)
(* the kernel.                                                             *)
VlanPorts(l, tag) ==
  IF tag THEN {p \in {Parent[l]} : Live(p)} ELSE {l}

BridgeMbrDel(b, d) ==
  [b EXCEPT !.tag = IF Tagged(d) THEN @ \ {<<d.master, d.ifx>>} ELSE @,
            !.untag = IF Tagged(d) THEN @ ELSE @ \ {<<d.master, d.ifx>>},
            !.vlans = @ \ {<<p, d.master>> : p \in VlanPorts(d.ifx, Tagged(d))}]

BridgeMbrAdd(b, d) ==
  [b EXCEPT !.tag = IF Tagged(d) THEN @ \cup {<<d.master, d.ifx>>} ELSE @,
            !.untag = IF Tagged(d) THEN @ ELSE @ \cup {<<d.master, d.ifx>>},
            !.vlans = @ \cup {<<p, d.master>> : p \in VlanPorts(d.ifx, Tagged(d))}]

(* Mutant: the kernel is not asked whether the message still holds. *)
IsAdditionUnchecked(b, d) == <<d.master, d.ifx>> \notin b.tag \cup b.untag

(* os_interface_vlan_bridge_handler: an addition counts unless it is a     *)
(* duplicate, or the kernel, asked anew, says otherwise.  The tables are   *)
(* changed after that, without a lock: d.new is what was found before.     *)
IsAddition(b, d) ==
  /\ <<d.master, d.ifx>> \notin b.tag \cup b.untag
  /\ Live(d.ifx) /\ link[d.ifx].master = d.master

AsMember(d, op) ==
  [d EXCEPT !.type = "L2_PORT", !.op = op, !.mbr = <<d.master, d.ifx>>]

os_interface_bridge_attrs_handler(b, d) ==
  CASE d.type = "BRIDGE" \/ d.master = 0 -> Cont(b, d)
    [] d.op = "DELETE" -> Cont(BridgeMbrDel(b, d), AsMember(d, "DELETE"))
    [] d.kind = "" \/ d.slave -> Cont(b, d)
    [] d.kind \in {"tun", "bond"} ->
         IF d.new THEN Cont(BridgeMbrAdd(b, d), AsMember(d, "CREATE"))
                             ELSE Cont(b, d)
    [] Tagged(d) ->
         IF d.new THEN Cont(BridgeMbrAdd(b, d), AsMember(d, "CREATE"))
                             ELSE Drop(b, d)
    [] OTHER -> Cont(b, d)

(* The dummy handler spares dummy0 and the dummies of bonds, but the kind  *)
(* has given them the type already.                                        *)
os_interface_dummy_attrs_handler(d) ==
  IF d.kind = "dummy" /\ d.ifx \notin BondDummy THEN [d EXCEPT !.type = "LOOPBACK"] ELSE d

os_interface_mgmt_attrs_handler(d) ==
  IF Kind[d.ifx] = "eth" THEN [d EXCEPT !.type = "MANAGEMENT"] ELSE d

if_hdlr(b, d) ==
  LET r1 == os_interface_lag_attrs_handler(b, d)
      r2 == os_interface_bridge_attrs_handler(r1.b, os_interface_dummy_attrs_handler(r1.d))
  IN  CASE ~r1.ok -> r1
        [] ~r2.ok -> r2
        [] OTHER -> Cont(r2.b, os_interface_mgmt_attrs_handler(r2.d))
-----------------------------------------------------------------------------
info_kind_to_intf_type ==
  [tun |-> "L3_PORT", bond |-> "LAG", bridge |-> "BRIDGE", vlan |-> "VLAN_SUBINTF",
   macvlan |-> "MACVLAN", dummy |-> "LOOPBACK"]

Types == {info_kind_to_intf_type[k] : k \in DOMAIN info_kind_to_intf_type}
         \cup {"L2_PORT", "MANAGEMENT"}

(* The type comes with the kind, else from the cache.                      *)
Details(b, m) ==
  [op |-> CASE m.op = "DEL" -> "DELETE"
            [] m.op = "NEW" /\ Present(b, m.ifx) -> "SET"
            [] OTHER -> "CREATE",
   type |-> CASE m.kind # "" -> info_kind_to_intf_type[m.kind]
              [] Present(b, m.ifx) -> b.if_map[m.ifx].type
              [] OTHER -> "L3_PORT",
   ifx |-> m.ifx, kind |-> m.kind, master |-> m.master, slave |-> m.slave,
   up |-> m.up, mbr |-> <<>>, new |-> IsAddition(b, m)]

if_info_track(b, l, info) ==
  IF ~Present(b, l)
    THEN {"ALL"}
    ELSE {c \in {"ADM"} : b.if_map[l].admin # info.admin}
         \cup {c \in {"MASTER"} : b.if_map[l].master # info.master}

(* Mutant: a change of the admin state is noticed and not stored. *)
UpdateKeepsAdmin(b, l, info) ==
  [b EXCEPT !.if_map = [k \in DOMAIN @ \cup {l} |->
     IF k # l THEN @[k]
     ELSE IF l \in DOMAIN @ THEN [@[l] EXCEPT !.master = info.master]
     ELSE info]]

(* The cache keeps type and mask of a known link.                          *)
if_info_update(b, l, info) ==
  [b EXCEPT !.if_map = [k \in DOMAIN @ \cup {l} |->
     IF k # l THEN @[k]
     ELSE IF l \in DOMAIN @ THEN [@[l] EXCEPT !.admin = info.admin, !.master = info.master]
     ELSE info]]

if_info_delete(b, l) == [b EXCEPT !.if_map = [k \in DOMAIN @ \ {l} |-> @[k]]]

(* What a deletion message takes out of the cache: not what leaves a       *)
(* bridge, and of bonds the bond itself.                                   *)
AfterDelete(b, d, info) ==
  CASE d.type \notin {"L2_PORT", "LAG", "MACVLAN"} -> if_info_delete(b, d.ifx)
    [] d.type = "LAG" /\ d.kind = "bond" -> if_info_delete(b, d.ifx)
    [] d.type = "L2_PORT" -> if_info_update(b, d.ifx, [info EXCEPT !.master = 0])
    [] OTHER -> b

is_reserved_interface(l) == Kind[l] = "eth"

(* The subscriber's side of net_publish_event: an object is about a        *)
(* membership or about the link itself.                                    *)
Apply(v, d, enabled) ==
  CASE d.mbr # <<>> /\ d.op = "DELETE" -> [v EXCEPT !.mbrs = @ \ {d.mbr}]
    [] d.mbr # <<>> -> [v EXCEPT !.mbrs = @ \cup {d.mbr}]
    [] d.op = "DELETE" -> [up |-> [l \in DOMAIN v.up \ {d.ifx} |-> v.up[l]],
                           mbrs |-> {p \in v.mbrs : d.ifx \notin {p[1], p[2]}}]
    [] ~enabled /\ d.ifx \in DOMAIN v.up -> v
    [] OTHER -> [v EXCEPT !.up = [l \in DOMAIN @ \cup {d.ifx} |->
                                    IF l = d.ifx THEN d.up ELSE @[l]]]

(* Mutant: what changes nothing in the cache is not published at all. *)
PublishedOnChange(b, d, track, v) ==
  CASE track = {} -> IF d.op = "DELETE" THEN Apply(v, d, TRUE) ELSE v
    [] d.type = "L2_PORT" \/ (d.type = "LAG" /\ d.master # 0) ->
         IF Present(b, d.master) THEN Apply(v, d, TRUE) ELSE v
    [] OTHER -> Apply(v, d, TRUE)

(* What is published once tables and cache are up to date.                 *)
Published(b, d, track, v) ==
  LET mask == Present(b, d.ifx) /\ b.if_map[d.ifx].mask
  IN  CASE d.type = "L2_PORT" \/ (d.type = "LAG" /\ d.master # 0) ->
             IF Present(b, d.master) THEN Apply(v, d, TRUE) ELSE v
        [] track = {} ->
             IF d.op = "DELETE" \/ is_reserved_interface(d.ifx) THEN Apply(v, d, TRUE) ELSE v
        [] mask -> IF track = {"ADM"} THEN v ELSE Apply(v, d, FALSE)
        [] OTHER -> Apply(v, d, TRUE)

(* os_interface_to_object.  master_idx is uninitialised unless the message *)
(* has a master: garbage stands for what it holds.                         *)
os_interface_to_object(m, d0, b, v, garbage) ==
  LET r == if_hdlr(b, d0)
      info == [type |-> r.d.type, admin |-> m.up, mask |-> FALSE,
               master |-> IF m.master # 0 THEN m.master ELSE garbage]
      track == if_info_track(r.b, m.ifx, info)
      b2 == if_info_update(r.b, m.ifx, info)
      b3 == IF d0.op = "DELETE" THEN AfterDelete(b2, r.d, info) ELSE b2
  IN  IF r.ok THEN [b |-> b3, v |-> Published(b3, r.d, track, v)]
              ELSE [b |-> r.b, v |-> v]

Leave(m) == m.op = "DEL" \/ (m.slave /\ m.master = 0)

Masked(b) == {l \in DOMAIN b.if_map : b.if_map[l].mask}

(* net_main reads the next message. *)
HandleEvent ==
  /\ queue # <<>>
  /\ LET m == Head(queue)
     IN  /\ \E g \in Garbage :
              LET r == os_interface_to_object(m, Details(db, m), db, view, g)
              IN  db' = r.b /\ view' = r.v
         /\ get' = IF get.pc # "idle" /\ m.ifx = get.msg.ifx /\ Leave(m)
                     THEN [get EXCEPT !.left = TRUE] ELSE get
  /\ queue' = Tail(queue)
  /\ unadded' = unadded \cap Masked(db')
  /\ UNCHANGED <<link, misled, lag>>

(* _get_interfaces asks the kernel for a link that is not in the cache,    *)
(* (get.left is history: net_main handles a leave of the link meanwhile)   *)
GetAsk(l) ==
  /\ "get" \in Activities /\ get.pc = "idle"
  /\ ~Present(db, l) /\ Live(l)
  /\ get' = [pc |-> "asked", msg |-> Full("NEW", l, link[l]), left |-> FALSE]
  /\ UNCHANGED <<link, queue, db, view, misled, lag, unadded>>

(* handles the answer as an event: looks at the tables and the kernel,     *)
GetCheck ==
  /\ get.pc = "asked"
  /\ get' = [pc |-> "checked", msg |-> get.msg, left |-> get.left, d |-> Details(db, get.msg)]
  /\ UNCHANGED <<link, queue, db, view, misled, lag, unadded>>

(* and changes tables and cache.  It publishes nothing.  (History: a link  *)
(* is misled about if it has left meanwhile, or if it is a vlan link that  *)
(* the get enters in the cache as the L2 port of its bridge: its leave     *)
(* message has no kind, and then takes it for an untagged member.)         *)
Mistyped(l) == Kind[l] = "vlan" /\ ~Present(db, l) /\ db'.if_map[l].type = "L2_PORT"

GetAdd ==
  /\ get.pc = "checked"
  /\ \E g \in Garbage : db' = os_interface_to_object(get.msg, get.d, db, view, g).b
  /\ misled' = misled \cup {l \in {get.msg.ifx} : get.left \/ (Present(db', l) /\ Mistyped(l))}
  /\ get' = GetIdle
  /\ UNCHANGED <<link, queue, view, lag, unadded>>
-----------------------------------------------------------------------------
(* The kernel.  Deleting a link that has members, a master or vlan links   *)
(* is the sequence of their releases and its own deletion, as the kernel   *)
(* notifies it; an ifindex is not used again.                              *)
Emit(ms) == Len(queue) + Len(ms) <= MaxQueue /\ queue' = queue \o ms

Change(l, s, ms) == link' = [link EXCEPT ![l] = s] /\ Emit(ms)

AsSlave(m) == [m EXCEPT !.slave = TRUE]

Members(b) == {l \in Links : Live(l) /\ link[l].master = b}

Port(l) == IF Kind[l] = "vlan" THEN Parent[l] ELSE l

KernelCreate(l) ==
  /\ link[l].st = "none"
  /\ Parent[l] # 0 => Live(Parent[l])
  /\ LET s == [st |-> "live", up |-> FALSE, master |-> 0]
     IN  Change(l, s, <<Full("NEW", l, s)>>)

KernelSetUp(l, up) ==
  /\ Live(l) /\ link[l].up # up
  /\ LET s == [link[l] EXCEPT !.up = up] IN Change(l, s, <<Full("NEW", l, s)>>)

(* A port is a member of a VLAN's bridge once: itself or one vlan link.    *)
KernelJoinBridge(l, b) ==
  /\ Live(l) /\ Live(b) /\ Kind[b] = "bridge" /\ Kind[l] \in {"tun", "bond", "vlan"}
  /\ link[l].master = 0 /\ \A k \in Members(b) : Port(k) # Port(l)
  /\ LET s == [link[l] EXCEPT !.master = b]
     IN  Change(l, s, <<AfBridge("NEW", l, s), Full("NEW", l, s)>>)

(* Some kernels send a last message with the old master after the leave.   *)
KernelLeaveBridge(l, stale) ==
  /\ Live(l) /\ link[l].master # 0 /\ Kind[link[l].master] = "bridge"
  /\ LET s == [link[l] EXCEPT !.master = 0]
         old == IF stale THEN <<Full("NEW", l, link[l])>> ELSE <<>>
     IN  Change(l, s, <<AfBridge("DEL", l, link[l])>> \o old \o <<Full("NEW", l, s)>>)

(* The kernel opens a port before it links it to its bond.                 *)
CanJoinBond(l, b) ==
  /\ Live(l) /\ Live(b) /\ Kind[b] = "bond" /\ Kind[l] \in {"tun", "dummy"}
  /\ link[l].master = 0 /\ ~link[l].up

KernelJoinBond(l, b) ==
  /\ CanJoinBond(l, b)
  /\ LET open == [link[l] EXCEPT !.up = TRUE]
         s == [open EXCEPT !.master = b]
     IN  Change(l, s, <<AsSlave(Full("NEW", l, open)), Full("NEW", l, s)>>)

(* It unlinks the port first, then clears SLAVE and closes it.             *)
KernelLeaveBond(l) ==
  /\ Live(l) /\ link[l].master # 0 /\ Kind[link[l].master] = "bond"
  /\ LET open == [link[l] EXCEPT !.master = 0]
         s == [open EXCEPT !.up = FALSE]
     IN  Change(l, s, <<AsSlave(Full("NEW", l, open)), Full("NEW", l, s)>>)

KernelDelete(l) ==
  /\ Live(l) /\ link[l].master = 0 /\ Members(l) = {}
  /\ \A k \in Links : Parent[k] = l => ~Live(k)
  /\ Change(l, [link[l] EXCEPT !.st = "gone"], <<Full("DEL", l, link[l])>>)

Kernel ==
  /\ \E l \in Links :
       \/ KernelCreate(l)
       \/ KernelDelete(l)
       \/ \E up \in BOOLEAN : l \in Flapping /\ KernelSetUp(l, up)
       \/ \E b \in Links : KernelJoinBridge(l, b) \/ KernelJoinBond(l, b)
       \/ \E stale \in BOOLEAN : KernelLeaveBridge(l, stale)
       \/ KernelLeaveBond(l)
  /\ UNCHANGED <<db, view, get, misled, lag, unadded>>
-----------------------------------------------------------------------------
(* nas_os_add_port_to_lag: read the port's admin state, mask its admin     *)
(* events, take it down if it is up, add it to the bond; a port that was   *)
(* down is taken down again.  A request that cannot be sent ends the call; *)
(* the requests ask for no acknowledgement, so that one which the kernel   *)
(* refuses is taken for granted.                                           *)
Fail == "fail" \in Activities

LagAddPort(l, b) ==
  /\ "lag" \in Activities /\ lag.pc = "idle"
  /\ Live(l) /\ Kind[l] \in {"tun", "dummy"} /\ Kind[b] = "bond"
  /\ lag' = [pc |-> "mask", port |-> l, bond |-> b, was |-> link[l].up]
  /\ UNCHANGED <<link, queue, db, view, get, misled, unadded>>

LagMask ==
  /\ lag.pc = "mask"
  /\ db' = IF Present(db, lag.port) THEN [db EXCEPT !.if_map[lag.port].mask = TRUE] ELSE db
  /\ lag' = [lag EXCEPT !.pc = IF lag.was THEN "down" ELSE "add"]
  /\ UNCHANGED <<link, queue, view, get, misled, unadded>>

(* A request for an admin state: no message when the port has it already.  *)
SetAdmin(l, up) ==
  /\ Live(l)
  /\ IF link[l].up # up THEN KernelSetUp(l, up) ELSE UNCHANGED <<link, queue>>

LagDown ==
  /\ lag.pc = "down"
  /\ \/ /\ SetAdmin(lag.port, FALSE)
        /\ lag' = [lag EXCEPT !.pc = "add"]
        /\ UNCHANGED unadded
     \/ /\ Fail \/ ~Live(lag.port)
        /\ lag' = LagIdle
        /\ unadded' = unadded \cup {lag.port}
        /\ UNCHANGED <<link, queue>>
  /\ UNCHANGED <<db, view, get, misled>>

LagAdd ==
  /\ lag.pc = "add"
  /\ \/ /\ \/ KernelJoinBond(lag.port, lag.bond) /\ UNCHANGED unadded
           \/ /\ ~CanJoinBond(lag.port, lag.bond)
              /\ unadded' = unadded \cup {lag.port}
              /\ UNCHANGED <<link, queue>>
        /\ lag' = IF lag.was THEN LagIdle ELSE [lag EXCEPT !.pc = "lower"]
     \/ /\ Fail
        /\ lag' = LagIdle
        /\ unadded' = unadded \cup {lag.port}
        /\ UNCHANGED <<link, queue>>
  /\ UNCHANGED <<db, view, get, misled>>

(* The last step of adding a port that was down, of removing one that was  *)
(* up.                                                                     *)
LagRestore ==
  /\ lag.pc \in {"lower", "raise"}
  /\ \/ SetAdmin(lag.port, lag.was)
     \/ (Fail \/ ~Live(lag.port)) /\ UNCHANGED <<link, queue>>
  /\ lag' = LagIdle
  /\ UNCHANGED <<db, view, get, misled, unadded>>

(* nas_os_delete_port_from_lag: the kernel takes the port down when it     *)
(* leaves; it is brought up again if it was up before.                     *)
LagDeletePort(l) ==
  /\ "lag" \in Activities /\ lag.pc = "idle"
  /\ Live(l) /\ Kind[l] \in {"tun", "dummy"}
  /\ link[l].master # 0 /\ Kind[link[l].master] = "bond"
  /\ lag' = [pc |-> "del", port |-> l, bond |-> link[l].master, was |-> link[l].up]
  /\ UNCHANGED <<link, queue, db, view, get, misled, unadded>>

LagDel ==
  /\ lag.pc = "del"
  /\ \/ /\ \/ KernelLeaveBond(lag.port)
           \/ ~(Live(lag.port) /\ link[lag.port].master # 0) /\ UNCHANGED <<link, queue>>
        /\ lag' = IF lag.was THEN [lag EXCEPT !.pc = "raise"] ELSE LagIdle
     \/ /\ Fail
        /\ lag' = LagIdle
        /\ UNCHANGED <<link, queue>>
  /\ UNCHANGED <<db, view, get, misled, unadded>>

Next ==
  /\ \/ HandleEvent
     \/ \E l \in Links : GetAsk(l)
     \/ GetCheck \/ GetAdd
     \/ Kernel
     \/ \E l, b \in Links : LagAddPort(l, b)
     \/ LagMask \/ LagDown \/ LagAdd
     \/ \E l \in Links : LagDeletePort(l)
     \/ LagDel \/ LagRestore
  /\ UNCHANGED net

Spec == Init /\ [][Next]_vars
-----------------------------------------------------------------------------
(* The state has its shape. *)
TypeOK ==
  /\ link \in [Links -> LinkState]
  /\ queue \in Seq(Messages) /\ Len(queue) <= MaxQueue
  /\ DOMAIN db.if_map \subseteq Links
  /\ \A l \in DOMAIN db.if_map :
       db.if_map[l] \in [type : Types, admin : BOOLEAN, mask : BOOLEAN, master : Links \cup {0}]
  /\ db.tag \cup db.untag \cup db.bond \cup db.vlans \cup view.mbrs \subseteq Links \X Links
  /\ DOMAIN db.s_map \subseteq Links
  /\ DOMAIN view.up \subseteq Links

(* Nothing is under way: every message is handled, no CPS call is running. *)
Quiet == queue = <<>> /\ get.pc = "idle" /\ lag.pc = "idle"

(* No CPS request has handled a message before its event came, which then  *)
(* counts as a duplicate, or has masked the events of a port.              *)
EventsOnly == net.activities = {}

Enslaved(kinds, mkind) ==
  {<<link[l].master, l>> : l \in
     {k \in Links : Live(k) /\ Kind[k] \in kinds /\ link[k].master # 0
                    /\ Kind[link[k].master] = mkind}}

(* The memberships the tables have are exactly those of set m, but for     *)
(* links that a get misled.                                                *)
Tracks(table, m) == m \subseteq table /\ \A p \in table \ m : p[2] \in misled

(* Once all messages are handled, the membership tables are those of the   *)
(* kernel, whatever joined, left and vanished in between: tagged and       *)
(* untagged members of bridges, members of bonds and the bond of a member. *)
MembersTracked ==
  Quiet =>
    /\ Tracks(db.tag, Enslaved({"vlan"}, "bridge"))
    /\ Tracks(db.untag, Enslaved({"tun", "bond"}, "bridge"))
    /\ Tracks(db.bond, Enslaved({"tun"}, "bond"))
    /\ \A s \in Links \ misled :
         s \in DOMAIN db.s_map <=> <<IF s \in DOMAIN db.s_map THEN db.s_map[s] ELSE 0, s>> \in db.bond

(* The table that tells whether a port is part of a VLAN is right for      *)
(* every port that exists, but for those that a get misled (a join of a    *)
(* link that still is in the tables counts as a duplicate).                *)
VlansTracked ==
  Quiet =>
    \A p \in {q \in Links : Live(q) /\ \A l \in misled : Port(l) # q} :
      \A b \in Links : <<p, b>> \in db.vlans <=>
        \E l \in Members(b) : Kind[b] = "bridge" /\ Port(l) = p

(* All tables of memberships are those of the kernel, also where CPS       *)
(* requests handle messages besides the event thread: no member is missed, *)
(* and there is one too many only if a get adds a link whose leave         *)
(* net_main has handled since the get asked for it, or learns of a vlan    *)
(* link before net_main does.                                              *)
TablesTracked == TypeOK /\ MembersTracked /\ VlansTracked

(* A port's admin events are masked only while it is being added to a      *)
(* bond: once the kernel's message of the addition is handled the mask is  *)
(* lifted.  A port that the kernel does not add keeps it.                  *)
MaskLifted == Quiet => Masked(db) \subseteq unadded

(* A subscriber knows exactly the kernel's memberships: a member   *)
(* addition or removal that the handlers saw was published, where no CPS   *)
(* request intervened.                                                     *)
MembersPublished ==
  Quiet /\ EventsOnly => view.mbrs = Enslaved({"tun", "bond", "vlan"}, "bridge") \cup Enslaved({"tun"}, "bond")

(* A subscriber knows exactly the kernel's links, with their admin state   *)
(* (of a vlan link that is in a bridge, messages are dropped), where no    *)
(* CPS request intervened.                                                 *)
LinksPublished ==
  Quiet /\ EventsOnly =>
    /\ DOMAIN view.up = {l \in Links : Live(l)}
    /\ \A l \in DOMAIN view.up : Kind[l] # "vlan" => view.up[l] = link[l].up

(* The cache has exactly the kernel's links, each with the type of its     *)
(* kind and the admin state that the neighbour handler reads, unmasked,    *)
(* where no CPS request intervened.                                        *)
CacheTracks ==
  Quiet /\ EventsOnly =>
    /\ DOMAIN db.if_map = {l \in Links : Live(l)}
    /\ \A l \in DOMAIN db.if_map :
         /\ Kind[l] # "eth" => db.if_map[l].type = info_kind_to_intf_type[Kind[l]]
         /\ Kind[l] # "vlan" => db.if_map[l].admin = link[l].up
         /\ ~db.if_map[l].mask

(* Links are the same in the kernel, in the cache and at a subscriber.     *)
LinksTracked == LinksPublished /\ CacheTracks
=============================================================================
