------------------------------ MODULE Ipv6Dad ------------------------------
(***************************************************************************)
(* The IPv6 threads of base_ip.py (scripts/lib/python/dn_base_ip_tool.py). *)
(* An address whose duplicate address detection (DAD) failed stays unused  *)
(* in the kernel.  handle_addr_event lists such addresses and starts a     *)
(* timer with the first one; handle_dad_failure_timer deletes each listed  *)
(* address and adds it again, so that the kernel tries once more.          *)
(* handle_interface_event_for_lla_cfg adds the link-local address of an    *)
(* interface that is up.  A user, who goes another way, adds and deletes   *)
(* addresses at the same time.                                             *)
(*                                                                         *)
(* _addr_mutex is held for the handling of one event and for all of the    *)
(* timer's function, in which every command is a step.                     *)
(***************************************************************************)
EXTENDS Integers, FiniteSets, Sequences

CONSTANTS
  Addrs,      \* addresses with their VRF and interface
  Lla,        \* the link-local addresses made from an interface's MAC address
  MaxEvents,  \* how many events may wait when a user makes another one
  MaxTimers,  \* how many timers may run
  Modes,      \* what may happen in a behaviour, see modes
  None

ASSUME LlaAssumption == Lla \subseteq Addrs /\ None \notin Addrs
ASSUME DadBoundsAssumption == MaxEvents \in Nat /\ MaxTimers \in Nat \ {0}
ASSUME DadModesAssumption == Modes \subseteq SUBSET {"fail", "raise", "again"}

VARIABLES
  modes,        \* "fail": commands fail; "raise": they cannot be started; "again":
                \* an address is added that was added before and not deleted
  addr,         \* the kernel's addresses: address -> its state
  conflict,     \* addresses that another host has
  wanted,       \* addresses that were added, by the user or for an interface
                \* that is up, and not deleted by the user since
  events,       \* the address events that handle_addr_event does not skip
  failed_list,  \* _intf_addr_dad_failed_list
  timers,       \* how many timers have been started and have not expired
  hdl           \* where handle_dad_failure_timer is; it has _addr_mutex then

vars == <<modes, addr, conflict, wanted, events, failed_list, timers, hdl>>

States == {"none", "tentative", "ok", "failed"}

Idle == [at |-> "idle", todo |-> {}, key |-> None]
Lost == [Idle EXCEPT !.at = "lost"]

Init ==
  /\ modes \in Modes
  /\ addr = [a \in Addrs |-> "none"] /\ conflict = {}
  /\ wanted = {} /\ events = <<>>
  /\ failed_list = {} /\ timers = 0
  /\ hdl = Idle

CanFail == modes \cap {"fail", "raise"} # {}
-----------------------------------------------------------------------------
(* handle_addr_event skips events, without a lock, that have no attribute  *)
(* dad-failed or no name; only the others are queued here.                 *)
Publish(op, a, kept) ==
  events' = IF kept THEN Append(events, [op |-> op, a |-> a]) ELSE events

(* The kernel.  An address is added once, tried and then usable or failed. *)
Added(a) ==
  /\ addr[a] = "none"
  /\ addr' = [addr EXCEPT ![a] = "tentative"]
  /\ Publish("create", a, FALSE)

Deleted(a, named) ==
  /\ addr[a] # "none"
  /\ addr' = [addr EXCEPT ![a] = "none"]
  /\ Publish("delete", a, named /\ addr[a] = "failed")

DadEnds(a) ==
  /\ addr[a] = "tentative"
  /\ addr' = [addr EXCEPT ![a] = IF a \in conflict THEN "failed" ELSE "ok"]
  /\ Publish("create", a, a \in conflict)
  /\ UNCHANGED <<modes, conflict, wanted, failed_list, timers, hdl>>

OtherHost(a) ==
  /\ conflict' = IF a \in conflict THEN conflict \ {a} ELSE conflict \cup {a}
  /\ UNCHANGED <<modes, addr, wanted, events, failed_list, timers, hdl>>
-----------------------------------------------------------------------------
UserAdd(a) ==
  /\ Len(events) < MaxEvents
  /\ a \in wanted => "again" \in modes
  /\ Added(a)
  /\ wanted' = wanted \cup {a}
  /\ UNCHANGED <<modes, conflict, failed_list, timers, hdl>>

(* The event of an address that goes with its interface has no name.       *)
UserDelete(a) ==
  /\ Len(events) < MaxEvents
  /\ \E named \in BOOLEAN : Deleted(a, named)
  /\ wanted' = wanted \ {a}
  /\ UNCHANGED <<modes, conflict, failed_list, timers, hdl>>

(* handle_interface_event_for_lla_cfg: an event of an interface that is    *)
(* up.  That the address cannot be added, or is there, is ignored.         *)
IntfEvent(a) ==
  /\ a \in Lla /\ Len(events) < MaxEvents
  /\ a \in wanted => "again" \in modes
  /\ Added(a)
  /\ wanted' = wanted \cup {a}
  /\ UNCHANGED <<modes, conflict, failed_list, timers, hdl>>
-----------------------------------------------------------------------------
(* The first address of the list starts a timer, whether or not one is     *)
(* running still.                                                          *)
Arm(list) == Cardinality(list) = 1

(* handle_addr_event with an event of an address whose DAD failed.         *)
HandleEvent ==
  /\ events # <<>>
  /\ hdl = Idle
  /\ events' = Tail(events)
  /\ LET a == Head(events).a
     IN  \/ /\ Head(events).op = "create" /\ a \notin failed_list
            /\ failed_list' = failed_list \cup {a}
            /\ \/ Arm(failed_list') /\ timers < MaxTimers /\ timers' = timers + 1
               \/ ~Arm(failed_list') /\ UNCHANGED timers
         \/ /\ Head(events).op = "create" /\ a \in failed_list
            /\ UNCHANGED <<failed_list, timers>>
         \/ /\ Head(events).op = "delete"
            /\ failed_list' = failed_list \ {a}
            /\ UNCHANGED timers
  /\ UNCHANGED <<modes, addr, conflict, wanted, hdl>>
-----------------------------------------------------------------------------
(* The timer's function takes the lock and the keys of the list.          *)
TimerExpires ==
  /\ timers > 0 /\ hdl = Idle
  /\ timers' = timers - 1
  /\ hdl' = [Idle EXCEPT !.at = "loop", !.todo = failed_list]
  /\ UNCHANGED <<modes, addr, conflict, wanted, events, failed_list>>

(* Mutant: an address that was tried again stays in the list. *)
KeepListed(a) == failed_list

(* A key leaves the list once it is dealt with. *)
Unlisted(a) == failed_list \ {a}

Done(a) ==
  /\ failed_list' = Unlisted(a)
  /\ hdl' = [hdl EXCEPT !.at = "loop", !.todo = @ \ {a}, !.key = None]

(* A command that cannot be started ends the thread, with the mutex taken. *)
Raised ==
  /\ "raise" \in modes
  /\ hdl' = Lost
  /\ UNCHANGED <<addr, events, failed_list>>

(* Mutant: the address is added whether or not there was one to delete. *)
AddAnyway(a) == hdl' = [hdl EXCEPT !.at = "add", !.key = a] /\ UNCHANGED failed_list

(* del_ip_addr has failed: the user may have deleted the address.          *)
NotDeleted(a) == Done(a)

RetryDelete(a) ==
  /\ hdl.at = "loop" /\ a \in hdl.todo
  /\ \/ /\ Deleted(a, TRUE)
        /\ hdl' = [hdl EXCEPT !.at = "add", !.key = a]
        /\ UNCHANGED failed_list
     \/ /\ addr[a] = "none" \/ CanFail
        /\ NotDeleted(a) /\ UNCHANGED <<addr, events>>
     \/ Raised
  /\ UNCHANGED <<modes, conflict, wanted, timers>>

(* The result of add_ip_addr is not looked at.                             *)
RetryAdd ==
  /\ hdl.at = "add"
  /\ \/ Added(hdl.key) /\ Done(hdl.key)
     \/ /\ addr[hdl.key] # "none" \/ CanFail
        /\ Done(hdl.key) /\ UNCHANGED <<addr, events>>
     \/ Raised
  /\ UNCHANGED <<modes, conflict, wanted, timers>>

(* The last key is dealt with and the lock is released.                   *)
RetryEnds ==
  /\ hdl.at = "loop" /\ hdl.todo = {}
  /\ hdl' = Idle
  /\ UNCHANGED <<modes, addr, conflict, wanted, events, failed_list, timers>>
-----------------------------------------------------------------------------
TimerThread == RetryAdd \/ RetryEnds \/ \E a \in Addrs : RetryDelete(a)

Next ==
  \/ \E a \in Addrs : \/ UserAdd(a) \/ UserDelete(a) \/ IntfEvent(a)
                      \/ DadEnds(a) \/ OtherHost(a)
  \/ HandleEvent \/ TimerExpires \/ TimerThread

(* The threads are endless loops and timers expire; the kernel finishes    *)
(* what it tries.  Nothing is assumed of the user and of other hosts.      *)
Spec ==
  /\ Init /\ [][Next]_vars
  /\ WF_vars(HandleEvent) /\ WF_vars(TimerExpires) /\ WF_vars(TimerThread)
  /\ \A a \in Addrs : WF_vars(DadEnds(a))
-----------------------------------------------------------------------------
(* The state has its shape. *)
TypeOK ==
  /\ addr \in [Addrs -> States]
  /\ conflict \subseteq Addrs /\ wanted \subseteq Addrs /\ failed_list \subseteq Addrs
  /\ events \in Seq([op : {"create", "delete"}, a : Addrs])
  /\ timers \in 0 .. MaxTimers
  /\ hdl \in [at : {"idle", "lost", "loop", "add"}, todo : SUBSET Addrs, key : Addrs \cup {None}]

(* A listed address has a timer that will come to it, although events of   *)
(* deletes shorten the list while a timer runs and the timer is started    *)
(* with the first address only.                                            *)
ListedHasTimer == hdl.at # "lost" /\ failed_list \ hdl.todo # {} => timers > 0

(* The types are kept, too.                                                *)
WellFormed == TypeOK /\ ListedHasTimer

(* No address that the user has deleted comes back by a retry.             *)
NotResurrected == \A a \in Addrs : addr[a] # "none" => a \in wanted

(* ... and none is lost by it, but for the moment between its two commands. *)
NotLost ==
  \A a \in wanted : addr[a] # "none" \/ (hdl.at = "add" /\ hdl.key = a)

(* The latter holds if no command fails: the result of the second one is   *)
(* not looked at, and the address is off the list then.  The former holds  *)
(* unless the address is added, and deleted again, between the two.        *)
RetriesKeepAddrs ==
  /\ "again" \in modes \/ NotResurrected
  /\ CanFail \/ NotLost

(* "Every 60 seconds, an attempt will be made to clear the DAD failure": a *)
(* wanted address becomes usable once no other host has it any more.       *)
Recovers ==
  ~CanFail =>
    \A a \in Addrs :
      <>[](a \in wanted /\ a \notin conflict) => <>[](addr[a] = "ok")
=============================================================================
