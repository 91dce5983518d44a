----------------------------- MODULE McastRules -----------------------------
(***************************************************************************)
(* IGMP/MLD snooping done by an application, scripts/lib/python/           *)
(* dn_base_mcast_snoop.py: the kernel must not snoop itself, and must not  *)
(* flood the reports of VLANs on which the application snoops.  A rule of  *)
(* ebtables per protocol and VLAN marks the packets; rules made when the   *)
(* application enables a protocol globally stop the marked ones.           *)
(*                                                                         *)
(* Two threads: the one of the application's requests                      *)
(* (handle_snoop_updates) and monitor_VLAN_interface_event, which is told  *)
(* of created and deleted VLANs.  Each reads the table of ebtables and     *)
(* then changes it by a command of its own; nothing keeps them apart.      *)
(* To read the table, or to ask whether a rule is there, does not fail.    *)
(* Requests about routes and router ports are published and change no      *)
(* state.                                                                  *)
(***************************************************************************)
EXTENDS Naturals, Sequences, FiniteSets

CONSTANTS
  AppVlans,    \* VLANs; a VLAN made again has the same bridge name
  MaxAppReq,   \* bound on requests
  MaxVlan      \* bound on creations and deletions of VLANs

ASSUME AppBoundsAssumption == MaxAppReq \in Nat /\ MaxVlan \in Nat

VARIABLES
  exists,      \* VLANs that are there, with their bridges (external)
  events,      \* creations and deletions that the monitor has not seen yet
  ksnoop,      \* bridges on which the kernel snoops
  broute,      \* per protocol and VLAN rules of the broute table
  chain,       \* chain[pr]: the rules of the chain of marked packets, in order
  glob,        \* glob[pr]: the other global parts that are in place as a whole
  app_req,     \* the request under way
  mon,         \* what the monitor is at
  enabled,     \* <<pr, v>> whose last request that succeeded was to enable
  reported,    \* reported[pr]: the last global request, if it succeeded
  excused,     \* VLANs where a deletion was handled late or in part
  skipped,     \* protocols whose chain got its last rule without an earlier one
  n_app_req, n_vlan

globals == <<chain, glob, reported, skipped>>
app_vars == <<exists, events, ksnoop, broute, globals, app_req, mon, enabled,
              excused, n_app_req, n_vlan>>

Protos == {"igmp", "mld"}
(* The chain first accepts reports and special queries as they are marked, *)
(* to be stopped, and then takes the mark off whatever is left, which are  *)
(* the general queries.  "reports" stands for the rules of all types of    *)
(* reports: it is missing, or behind, if one of them is.                   *)
Accepts == {"reports", "queries"}
EmptyChain == [front |-> {}, reset |-> FALSE, back |-> {}]
(* The other global parts in the order in which they are made: the rule    *)
(* that jumps to the chain, the rules of the nat table, and the switch     *)
(* bridge-nf-call-(ip|ip6)tables.                                          *)
Parts == <<"jump", "nat", "nf">>
AllParts == {Parts[i] : i \in DOMAIN Parts}

Idle == [at |-> "idle", pr |-> "igmp", v |-> "none", val |-> 0, found |-> FALSE]

AppInit ==
  /\ exists = {}
  /\ events = <<>>
  /\ ksnoop = {}
  /\ broute = {}
  /\ chain = [pr \in Protos |-> EmptyChain]
  /\ glob = [pr \in Protos |-> {"nat"}]
  /\ app_req = Idle /\ mon = Idle
  /\ enabled = {}
  /\ reported = [pr \in Protos |-> "none"]
  /\ excused = {} /\ skipped = {}
  /\ n_app_req = 0 /\ n_vlan = 0
-----------------------------------------------------------------------------
(* nas-interface makes a VLAN, whose bridge snoops by default, or deletes  *)
(* one, and says so.                                                       *)
CreateVlan(v) ==
  /\ v \notin exists /\ n_vlan < MaxVlan
  /\ n_vlan' = n_vlan + 1
  /\ exists' = exists \cup {v}
  /\ ksnoop' = ksnoop \cup {v}
  /\ events' = Append(events, [op |-> "create", v |-> v])
  /\ UNCHANGED <<broute, globals, app_req, mon, enabled, excused, n_app_req>>

DeleteVlan(v) ==
  /\ v \in exists /\ n_vlan < MaxVlan
  /\ n_vlan' = n_vlan + 1
  /\ exists' = exists \ {v}
  /\ ksnoop' = ksnoop \ {v}
  /\ events' = Append(events, [op |-> "delete", v |-> v])
  /\ enabled' = {e \in enabled : e[2] # v}
  /\ UNCHANGED <<broute, globals, app_req, mon, excused, n_app_req>>
-----------------------------------------------------------------------------
(* A command that adds or deletes a rule, given whether the rule was found *)
(* before.  It is skipped if there is nothing to do; to delete a rule that *)
(* went away meanwhile fails; and it may fail for its own reasons.         *)
AddOrRemove(pr, v, val, found, ok) ==
  IF found = (val = 1) THEN ok /\ UNCHANGED broute
  ELSE IF val = 1
    THEN broute' = IF ok THEN broute \cup {<<pr, v>>} ELSE broute
    ELSE /\ ok => <<pr, v>> \in broute
         /\ broute' = IF ok THEN broute \ {<<pr, v>>} ELSE broute

(* A request to enable or disable snooping on a VLAN: it needs the VLAN to *)
(* exist when it begins.                                                   *)
BeginStatus ==
  /\ app_req.at = "idle" /\ n_app_req < MaxAppReq
  /\ n_app_req' = n_app_req + 1
  /\ \E pr \in Protos, v \in exists, val \in {0, 1} :
       app_req' = [at |-> "read", pr |-> pr, v |-> v, val |-> val, found |-> FALSE]
  /\ UNCHANGED <<exists, events, ksnoop, broute, globals, mon, enabled,
                 excused, n_vlan>>

read_ebtable_rules ==
  /\ app_req.at = "read"
  /\ app_req' = [app_req EXCEPT !.at = "command", !.found = <<app_req.pr, app_req.v>> \in broute]
  /\ UNCHANGED <<exists, events, ksnoop, broute, globals, mon, enabled,
                 excused, n_app_req, n_vlan>>

(* If the command fails the request does, and nothing is published.        *)
snoop_update_vlan_rules ==
  /\ app_req.at = "command"
  /\ \E ok \in BOOLEAN :
       /\ AddOrRemove(app_req.pr, app_req.v, app_req.val, app_req.found, ok)
       /\ app_req' = IF ok THEN [app_req EXCEPT !.at = "off"] ELSE Idle
  /\ UNCHANGED <<exists, events, ksnoop, globals, mon, enabled, excused,
                 n_app_req, n_vlan>>

(* Then the kernel's own snooping is switched off once more, and the       *)
(* status is published.                                                    *)
_parse_snoop_status ==
  /\ app_req.at = "off"
  /\ ksnoop' = ksnoop \ {app_req.v}
  /\ enabled' = IF app_req.v \notin exists THEN enabled
                ELSE IF app_req.val = 1 THEN enabled \cup {<<app_req.pr, app_req.v>>}
                ELSE enabled \ {<<app_req.pr, app_req.v>>}
  /\ app_req' = Idle
  /\ UNCHANGED <<exists, events, broute, globals, mon, excused, n_app_req, n_vlan>>

(* Snooping enabled globally.  First the rules of the chain that are not   *)
(* found are appended one after the other, also after one has failed.      *)
Missing(c) == (Accepts \ (c.front \cup c.back)) \cup (IF c.reset THEN {} ELSE {"reset"})

snoop_create_iptables_chain(c, failed) ==
  LET added == (Missing(c) \ failed) \cap Accepts
  IN  [front |-> IF c.reset THEN c.front ELSE c.front \cup added,
       reset |-> "reset" \notin Missing(c) \cap failed,
       back |-> IF c.reset THEN c.back \cup added ELSE c.back]

(* Then, if none has failed, the other parts are made in order up to the   *)
(* first failure.  A part that is found in place is left alone and does    *)
(* not fail, but the switch is written always.                             *)
MayFail(pr, i) == Parts[i] \notin glob[pr] \/ Parts[i] = "nf"

(* Mutant: a failure is logged, and not returned.                          *)
AlwaysOn(ok) == "on"

Returned(ok) == IF ok THEN "on" ELSE "failed"

MakeParts(pr) ==
  \/ /\ glob' = [glob EXCEPT ![pr] = AllParts]
     /\ reported' = [reported EXCEPT ![pr] = Returned(TRUE)]
  \/ \E i \in {j \in DOMAIN Parts : MayFail(pr, j)} :
       /\ glob' = [glob EXCEPT ![pr] = @ \cup {Parts[j] : j \in 1 .. i - 1}]
       /\ reported' = [reported EXCEPT ![pr] = Returned(FALSE)]

snoop_add_rule_chain(pr) ==
  /\ app_req.at = "idle" /\ n_app_req < MaxAppReq
  /\ n_app_req' = n_app_req + 1
  /\ \E failed \in SUBSET Missing(chain[pr]) :
       /\ chain' = [chain EXCEPT ![pr] = snoop_create_iptables_chain(@, failed)]
       /\ skipped' = IF failed \cap Accepts # {} /\ "reset" \notin failed
                       THEN skipped \cup {pr} ELSE skipped
       /\ IF failed = {} THEN MakeParts(pr)
          ELSE reported' = [reported EXCEPT ![pr] = Returned(FALSE)] /\ UNCHANGED glob
  /\ UNCHANGED <<exists, events, ksnoop, broute, app_req, mon, enabled, excused, n_vlan>>

(* Snooping disabled globally.  The chain is flushed only once no rule     *)
(* jumps to it; that either fails is overwritten by the result of the nat  *)
(* rules; the switch is turned off only if these are gone.  The nat rules  *)
(* go in several commands, so one that fails may leave them whole or in    *)
(* part, and a part counts as not in place.                                *)
snoop_remove_rule_chain(pr) ==
  /\ app_req.at = "idle" /\ n_app_req < MaxAppReq
  /\ n_app_req' = n_app_req + 1
  /\ \E failed \in SUBSET ({"flush"} \cup AllParts), whole \in SUBSET {"nat"} :
       LET jump == glob[pr] \cap failed \cap {"jump"}
           nat == glob[pr] \cap failed \cap whole
           nf == IF {"nat", "nf"} \cap failed # {} THEN glob[pr] \cap {"nf"} ELSE {}
           kept == jump # {} \/ "flush" \in failed
       IN  /\ glob' = [glob EXCEPT ![pr] = jump \cup nat \cup nf]
           /\ chain' = IF kept THEN chain ELSE [chain EXCEPT ![pr] = EmptyChain]
           /\ skipped' = IF kept THEN skipped ELSE skipped \ {pr}
           /\ reported' = [reported EXCEPT ![pr] =
                             IF {"nat", "nf"} \cap failed = {} THEN "off" ELSE "failed"]
  /\ UNCHANGED <<exists, events, ksnoop, broute, app_req, mon, enabled, excused, n_vlan>>
-----------------------------------------------------------------------------
(* What the monitor does next, having removed a rule.                      *)
ThenMld == IF mon.pr = "igmp" THEN [mon EXCEPT !.at = "read", !.pr = "mld"] ELSE Idle

(* The monitor takes an event.  Of a new VLAN it switches the kernel's     *)
(* snooping off, if the bridge is still there; of a deleted one it removes *)
(* the rules, first IGMP's, then MLD's.                                    *)
(* Mutant: the file is written with 1.                                     *)
SnoopOn(v) == ksnoop \cup {v}

SnoopOff(v) == ksnoop \ {v}

TakeEvent ==
  /\ mon.at = "idle" /\ events # <<>>
  /\ events' = Tail(events)
  /\ LET e == Head(events)
     IN  IF e.op = "create"
           THEN ksnoop' = SnoopOff(e.v) /\ UNCHANGED <<mon, excused>>
           ELSE /\ mon' = [Idle EXCEPT !.at = "read", !.v = e.v]
                /\ excused' = IF e.v \in exists \/ (app_req.at # "idle" /\ app_req.v = e.v)
                                THEN excused \cup {e.v} ELSE excused
                /\ UNCHANGED ksnoop
  /\ UNCHANGED <<exists, broute, globals, app_req, enabled, n_app_req, n_vlan>>

MonitorReads ==
  /\ mon.at = "read"
  /\ mon' = [mon EXCEPT !.at = "command", !.found = <<mon.pr, mon.v>> \in broute]
  /\ UNCHANGED <<exists, events, ksnoop, broute, globals, app_req, enabled,
                 excused, n_app_req, n_vlan>>

snoop_remove_vlan_rules ==
  /\ mon.at = "command"
  /\ \E ok \in BOOLEAN :
       /\ AddOrRemove(mon.pr, mon.v, 0, mon.found, ok)
       /\ excused' = IF ~ok \/ mon.v \in exists THEN excused \cup {mon.v} ELSE excused
  /\ mon' = ThenMld
  /\ UNCHANGED <<exists, events, ksnoop, globals, app_req, enabled, n_app_req, n_vlan>>

AppHandling == read_ebtable_rules \/ snoop_update_vlan_rules \/ _parse_snoop_status

Monitoring == TakeEvent \/ MonitorReads \/ snoop_remove_vlan_rules

AppNext ==
  \/ \E v \in AppVlans : CreateVlan(v) \/ DeleteVlan(v)
  \/ BeginStatus \/ AppHandling \/ Monitoring
  \/ \E pr \in Protos : snoop_add_rule_chain(pr) \/ snoop_remove_rule_chain(pr)

(* Both threads of the service go on.                                      *)
AppSpec == AppInit /\ [][AppNext]_app_vars /\ WF_app_vars(AppHandling) /\ WF_app_vars(Monitoring)
-----------------------------------------------------------------------------
(* The state is well formed.                                               *)
AppTypeOK ==
  /\ exists \subseteq AppVlans /\ ksnoop \subseteq exists /\ excused \subseteq AppVlans
  /\ events \in Seq([op : {"create", "delete"}, v : AppVlans])
  /\ broute \subseteq Protos \X AppVlans /\ enabled \subseteq Protos \X exists
  /\ chain \in [Protos -> [front : SUBSET Accepts, reset : BOOLEAN, back : SUBSET Accepts]]
  /\ glob \in [Protos -> SUBSET AllParts]
  /\ \A t \in {app_req, mon} : t.at \in {"idle", "read", "command", "off"}

Quiet == app_req.at = "idle" /\ mon.at = "idle" /\ events = <<>>

(* With both threads at rest, the rules of a VLAN are those of the         *)
(* protocols that the application enabled on it, none if it is gone;       *)
(* unless its deletion was handled in part, after it was made again, or    *)
(* while a request about it was under way.                                 *)
RulesFollow ==
  Quiet => \A e \in Protos \X AppVlans : e[2] \notin excused => (e \in broute <=> e \in enabled)

(* Whatever is marked for pr is stopped: the chain accepts what is to be   *)
(* stopped before it takes the mark off the rest, and packets get there.   *)
Stopped(pr) ==
  /\ chain[pr] = [front |-> Accepts, reset |-> TRUE, back |-> {}]
  /\ glob[pr] = AllParts

(* On such a VLAN the reports of an enabled protocol are marked, and what  *)
(* is marked is stopped once the protocol was enabled globally with        *)
(* success, whatever failed before; unless the chain got the rule that     *)
(* takes the mark off while an earlier one had failed, and was not flushed *)
(* since.                                                                  *)
ReportsStopped ==
  Quiet => \A e \in enabled :
    (e[2] \notin excused /\ e[1] \notin skipped /\ reported[e[1]] = "on")
      => e \in broute /\ Stopped(e[1])

(* Rules follow the requests and reports are not flooded; only VLANs that  *)
(* exist have a protocol enabled or are snooped by the kernel.             *)
RulesFollowRequests == AppTypeOK /\ RulesFollow /\ ReportsStopped

(* The kernel's own snooping on a bridge ends.                             *)
KernelStopsSnooping == \A v \in AppVlans : v \in ksnoop ~> v \notin ksnoop
=============================================================================
