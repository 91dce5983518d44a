------------------------------ MODULE MacTable ------------------------------
(***************************************************************************)
(* MAC entries of bridges (src/nas_os_mac.cpp).  The kernel refuses a      *)
(* dynamic entry on a port that does not forward: nas-linux remembers the  *)
(* refused ones and tries again when the port starts to forward.  The      *)
(* kernel moves a static entry when it sees the address elsewhere:         *)
(* nas-linux remembers where it belongs and moves it back.                 *)
(*                                                                         *)
(* Four parties: the caller of nas_os_mac_update_entry; net_main, which    *)
(* handles the kernel's notifications; the thread of nas_os_mac_main,      *)
(* which tries again; and the kernel (external).  An entry's key is its    *)
(* bridge and address.  Addresses of remote endpoints and of the bridge    *)
(* itself, which have no part in this, are left out.                       *)
(***************************************************************************)
EXTENDS Naturals, Sequences, FiniteSets

CONSTANTS
  Keys,        \* entries: a VLAN's bridge and a MAC address
  Ports,       \* ifindexes of bridge ports
  Ops,         \* operations of the caller
  Sorts,       \* "static", "dynamic": the entries of the caller
  MaxEvents,   \* bound on the kernel's notifications that wait
  MaxSock,     \* bound on the ports in the socket; a writer waits for room
  None         \* no port

ASSUME OpsAssumption == Ops \subseteq {"CREATE", "SET", "DELETE"}
ASSUME SortsAssumption == Sorts \subseteq {"static", "dynamic"}
ASSUME BoundsAssumption == MaxEvents \in Nat /\ MaxSock \in Nat
ASSUME NoneAssumption == None \notin Ports

VARIABLES
  sort_of,      \* the sort the caller gives each entry, the same at every call
  forwarding,   \* the ports that forward
  fdb,          \* the kernel's entries
  events,       \* the kernel's notifications, not handled yet
  static_mac,   \* _static_mac_list
  dynamic_mac,  \* _dynamic_mac_list: the port of a refused entry
  port_mac,     \* _port_to_dynamic_mac_list: the refused entries of a port
  sock,         \* nas_os_mac_fd: ports with entries to try again
  call,         \* progress of nas_os_mac_update_entry
  retry,        \* progress of nas_os_mac_main, which holds dynamic_mac_lock
  chg,          \* progress of nas_os_handle_mac_port_chg in net_main
  conf,         \* what the caller asked for last: its port, none if deleted
  recreated     \* history: keys refused again by a CREATE at another port, as
                \* long as some port has them

vars == <<sort_of, forwarding, fdb, events, static_mac, dynamic_mac, port_mac, sock, call, retry, chg, conf,
          recreated>>
kernel == <<forwarding, fdb, events>>
lists == <<static_mac, dynamic_mac, port_mac, recreated>>

Absent == [port |-> None, sort |-> "none"]
Idle == [pc |-> "idle", op |-> "none", key |-> None, port |-> None]
NoRetry == [port |-> None, todo |-> {}]
NoChange == [key |-> None, port |-> None]

(* Maps of the code: a key that is absent is mapped to None. *)
Init ==
  /\ sort_of \in [Keys -> Sorts]
  /\ forwarding \in SUBSET Ports
  /\ fdb = [k \in Keys |-> Absent]
  /\ events = <<>>
  /\ static_mac = [k \in Keys |-> None]
  /\ dynamic_mac = [k \in Keys |-> None]
  /\ port_mac = [p \in {} |-> {}]
  /\ sock = <<>>
  /\ call = Idle /\ retry = NoRetry /\ chg = NoChange
  /\ conf = [k \in Keys |-> None]
  /\ recreated = {}
-----------------------------------------------------------------------------
(* The kernel's side of a request for an entry.                            *)
Accepts(p, sort) == sort = "static" \/ p \in forwarding

Moved(k, p) == [type |-> "fdb", key |-> k, port |-> p]
Forwards(p) == [type |-> "stp", key |-> None, port |-> p]

(* Only static entries are of interest when they change. *)
PutEntry(k, p, sort) ==
  LET e == [port |-> p, sort |-> sort]
  IN  /\ fdb' = [fdb EXCEPT ![k] = e]
      /\ events' = IF sort = "static" /\ fdb[k] # e THEN Append(events, Moved(k, p)) ELSE events
      /\ UNCHANGED forwarding

HasRoom == Len(events) < MaxEvents

PortForwards(p) ==
  /\ HasRoom /\ p \notin forwarding
  /\ forwarding' = forwarding \cup {p}
  /\ events' = Append(events, Forwards(p))
  /\ UNCHANGED <<fdb, sock, call, retry, chg, conf, lists>>

(* What net_main does with other states than forwarding is in StpState. *)
PortBlocks(p) ==
  /\ p \in forwarding
  /\ forwarding' = forwarding \ {p}
  /\ UNCHANGED <<fdb, events, sock, call, retry, chg, conf, lists>>

(* The address of a static entry is seen on another port. *)
KernelMoves(k, p) ==
  /\ HasRoom /\ p \in forwarding
  /\ fdb[k].sort = "static" /\ fdb[k].port # p
  /\ PutEntry(k, p, "static")
  /\ UNCHANGED <<sock, call, retry, chg, conf, lists>>

(* An entry is deleted at its port only. *)
Deletes(k, p) == fdb[k].port = p
-----------------------------------------------------------------------------
(* dynamic_mac_lock is held by nas_os_mac_main. *)
Locked == retry # NoRetry

(* nas_os_mac_update_entry: the list of static entries comes first,        *)
UpdateEntry(op, k, p) ==
  /\ call.pc = "idle"
  /\ op = "DELETE" => conf[k] = p
  /\ static_mac' =
       IF sort_of[k] = "dynamic" THEN static_mac
       ELSE [static_mac EXCEPT ![k] = IF op = "DELETE" THEN None ELSE p]
  /\ call' = [pc |-> "request", op |-> op, key |-> k, port |-> p]
  /\ conf' = [conf EXCEPT ![k] = IF op = "DELETE" THEN None ELSE p]
  /\ UNCHANGED <<kernel, dynamic_mac, port_mac, recreated, sock, retry, chg>>

(* then the request to the kernel,                                         *)
RequestEntry ==
  /\ call.pc = "request" /\ call.op # "DELETE"
  /\ HasRoom /\ Accepts(call.port, sort_of[call.key])
  /\ PutEntry(call.key, call.port, sort_of[call.key])
  /\ call' = Idle
  /\ UNCHANGED <<lists, sock, retry, chg, conf>>

RequestDelete ==
  /\ call.pc = "request" /\ call.op = "DELETE"
  /\ Deletes(call.key, call.port)
  /\ fdb' = [fdb EXCEPT ![call.key] = Absent]
  /\ call' = Idle
  /\ UNCHANGED <<forwarding, events, lists, sock, retry, chg, conf>>

RequestFails ==
  /\ call.pc = "request"
  /\ IF call.op = "DELETE" THEN ~Deletes(call.key, call.port)
                           ELSE ~Accepts(call.port, sort_of[call.key])
  /\ call' = IF sort_of[call.key] = "static" THEN Idle ELSE [call EXCEPT !.pc = "remember"]
  /\ UNCHANGED <<kernel, lists, sock, retry, chg, conf>>

Without(pm, k, p) == [q \in DOMAIN pm |-> IF q = p THEN pm[q] \ {k} ELSE pm[q]]
With(pm, k, p) ==
  [q \in DOMAIN pm \cup {p} |->
     (IF q \in DOMAIN pm THEN pm[q] ELSE {}) \cup (IF q = p THEN {k} ELSE {})]

Waits(k, p) == p \in DOMAIN port_mac /\ k \in port_mac[p]

(* Mutant: an entry that moves is left with its old port. *)
ForgottenOnDelete(op) == op = "DELETE"

(* The operations that take a remembered entry from its old port's set; a  *)
(* CREATE does not.                                                        *)
Forgotten(op) == op \in {"DELETE", "SET"}

(* and a refused dynamic entry is remembered.                              *)
Remember ==
  /\ call.pc = "remember" /\ ~Locked
  /\ LET k == call.key
         old == dynamic_mac[k]
         pm == IF Forgotten(call.op) /\ old # None THEN Without(port_mac, k, old) ELSE port_mac
     IN  /\ IF call.op = "DELETE"
              THEN /\ port_mac' = pm
                   /\ dynamic_mac' = [dynamic_mac EXCEPT ![k] = None]
              ELSE /\ port_mac' = With(pm, k, call.port)
                   /\ dynamic_mac' = [dynamic_mac EXCEPT ![k] = call.port]
         /\ recreated' = {j \in recreated \cup IF call.op = "CREATE" /\ old \notin {None, call.port}
                                                 THEN {k} ELSE {} :
                            \E p \in Ports : Waits(j, p)'}
  /\ call' = Idle
  /\ UNCHANGED <<kernel, static_mac, sock, retry, chg, conf>>
-----------------------------------------------------------------------------
(* Mutant: only a port with more than one entry is worth the news. *)
HasSeveralPending(p) == p \in DOMAIN port_mac /\ Cardinality(port_mac[p]) > 1

(* net_main: a port forwards (nas_os_mac_add_pending_mac_if_event).        *)
HasPending(p) == p \in DOMAIN port_mac

HandleForwarding ==
  /\ chg = NoChange /\ events # <<>> /\ Head(events).type = "stp" /\ ~Locked
  /\ LET p == Head(events).port
     IN  \/ HasPending(p) /\ Len(sock) < MaxSock /\ sock' = Append(sock, p)
         \/ ~HasPending(p) /\ sock' = sock
  /\ events' = Tail(events)
  /\ UNCHANGED <<forwarding, fdb, lists, call, retry, chg, conf>>

(* Mutant: a static entry is left where the kernel moved it. *)
BelongsElsewhereNever(k, p) == FALSE

(* net_main: a static entry is reported (nas_os_handle_mac_port_chg).      *)
BelongsElsewhere(k, p) == static_mac[k] \notin {None, p}

HandleMove ==
  /\ chg = NoChange /\ events # <<>> /\ Head(events).type = "fdb"
  /\ LET k == Head(events).key
     IN  chg' = IF BelongsElsewhere(k, Head(events).port)
                  THEN [key |-> k, port |-> static_mac[k]] ELSE NoChange
  /\ events' = Tail(events)
  /\ UNCHANGED <<forwarding, fdb, lists, sock, call, retry, conf>>

(* The lock of the static list is free again when the request is sent.     *)
MoveBack ==
  /\ chg # NoChange
  /\ PutEntry(chg.key, chg.port, "static")
  /\ chg' = NoChange
  /\ UNCHANGED <<lists, sock, call, retry, conf>>
-----------------------------------------------------------------------------
(* nas_os_mac_main: reads a port, then tries its entries under the lock.   *)
ReadPort ==
  /\ retry = NoRetry /\ sock # <<>>
  /\ LET p == Head(sock)
     IN  retry' = IF p \in DOMAIN port_mac THEN [port |-> p, todo |-> port_mac[p]] ELSE NoRetry
  /\ sock' = Tail(sock)
  /\ UNCHANGED <<kernel, lists, call, chg, conf>>

(* An entry that the kernel takes is forgotten.                            *)
RetrySucceeds(k) ==
  /\ k \in retry.todo /\ Accepts(retry.port, "dynamic")
  /\ PutEntry(k, retry.port, "dynamic")
  /\ port_mac' = Without(port_mac, k, retry.port)
  /\ dynamic_mac' = [dynamic_mac EXCEPT ![k] = None]
  /\ recreated' = {j \in recreated : \E p \in Ports : Waits(j, p)'}
  /\ retry' = [retry EXCEPT !.todo = @ \ {k}]
  /\ UNCHANGED <<static_mac, sock, call, chg, conf>>

RetryFails(k) ==
  /\ k \in retry.todo /\ ~Accepts(retry.port, "dynamic")
  /\ retry' = [retry EXCEPT !.todo = @ \ {k}]
  /\ UNCHANGED <<kernel, lists, sock, call, chg, conf>>

RetryEnds ==
  /\ Locked /\ retry.todo = {}
  /\ port_mac' = IF port_mac[retry.port] = {}
                   THEN [q \in DOMAIN port_mac \ {retry.port} |-> port_mac[q]] ELSE port_mac
  /\ retry' = NoRetry
  /\ UNCHANGED <<kernel, static_mac, dynamic_mac, recreated, sock, call, chg, conf>>

Caller == RequestEntry \/ RequestDelete \/ RequestFails \/ Remember
NetMain == HandleForwarding \/ HandleMove \/ MoveBack
MacMain == ReadPort \/ (\E k \in Keys : RetrySucceeds(k) \/ RetryFails(k)) \/ RetryEnds

Step ==
  \/ \E p \in Ports : PortForwards(p) \/ PortBlocks(p)
  \/ \E k \in Keys, p \in Ports : KernelMoves(k, p)
  \/ \E op \in Ops, k \in Keys, p \in Ports : UpdateEntry(op, k, p)
  \/ Caller \/ NetMain \/ MacMain

Next == Step /\ UNCHANGED sort_of

(* A call that has begun ends, and the two threads are loops that never    *)
(* stop reading.                                                           *)
Fairness ==
  /\ WF_vars(Caller /\ UNCHANGED sort_of)
  /\ WF_vars(NetMain /\ UNCHANGED sort_of)
  /\ WF_vars(MacMain /\ UNCHANGED sort_of)

Spec == Init /\ [][Next]_vars /\ Fairness
-----------------------------------------------------------------------------
(* The state has its shape. *)
TypeOK ==
  /\ forwarding \subseteq Ports
  /\ \A k \in Keys : fdb[k] = Absent \/ fdb[k] \in [port : Ports, sort : {sort_of[k]}]
  /\ static_mac \in [Keys -> Ports \cup {None}]
  /\ dynamic_mac \in [Keys -> Ports \cup {None}]
  /\ DOMAIN port_mac \subseteq Ports
  /\ \A p \in DOMAIN port_mac : port_mac[p] \subseteq Keys
  /\ retry.todo # {} => retry.todo \subseteq port_mac[retry.port]

(* _dynamic_mac_list and _port_to_dynamic_mac_list are two indexes of the  *)
(* same refused entries: a refused entry waits at one port, and the port   *)
(* by which a later SET or DELETE looks for it is that one.  A CREATE that *)
(* is refused while the entry waits at another port leaves it there, too;  *)
(* also then the port that the first index names is one where it waits,    *)
(* and once it waits nowhere the indexes agree again.                      *)
IndexesAgree ==
  /\ \A k \in Keys : dynamic_mac[k] # None => Waits(k, dynamic_mac[k])
  /\ \A k \in Keys \ recreated, p \in Ports : Waits(k, p) => dynamic_mac[k] = p
  /\ \A k \in recreated : \E p \in Ports : Waits(k, p)

(* The lists have their types and agree, also while nas_os_mac_main goes   *)
(* through the refused entries of a port: what it still has to retry is    *)
(* still in the list, since it holds dynamic_mac_lock.                     *)
WellFormed == TypeOK /\ IndexesAgree

Quiet ==
  /\ events = <<>> /\ sock = <<>>
  /\ call = Idle /\ retry = NoRetry /\ chg = NoChange

(* nas_os_handle_mac_port_chg: when all is handled, a static entry of the  *)
(* list is in the kernel at its configured port, whatever the kernel moved *)
(* and the caller changed meanwhile.                                       *)
StaticInPlace ==
  Quiet => \A k \in Keys : static_mac[k] # None =>
    fdb[k] = [port |-> static_mac[k], sort |-> "static"]

(* An entry that waits when its port starts to forward is programmed once  *)
(* net_main, the socket and nas_os_mac_main have passed the news on,       *)
(* unless the port blocks again first.                                     *)
NoticedEntriesProgrammed ==
  \A k \in Keys, p \in Ports :
    (Waits(k, p) /\ p \in forwarding /\ Forwards(p) \in {events[i] : i \in 1 .. Len(events)})
      ~> (~Waits(k, p) \/ p \notin forwarding)
=============================================================================
