------------------------------ MODULE StpState ------------------------------
(***************************************************************************)
(* The STP state of bridge ports (src/nas_os_stg.cpp and                   *)
(* src/if/os_interface_stg.cpp).  The switch's STP stack asks for states,  *)
(* which nas-linux programs and caches; the kernel changes states by       *)
(* itself when a port goes down or comes up, and tells; the thread of      *)
(* net_main then puts the cached state back.                               *)
(*                                                                         *)
(* nl_int_update_stp_state holds _if_stp_mutex from its first line to its  *)
(* last, and only it writes the cache, so a call is one step.  Reading the *)
(* cache and putting the state back are two calls: two steps.  Its request *)
(* asks for no acknowledgement: that the kernel refuses a state goes       *)
(* unnoticed, that the request cannot be sent does not.  Publishing and    *)
(* the refresh of multicast queriers change no state of this module.       *)
(***************************************************************************)
EXTENDS Naturals, Sequences

CONSTANTS
  BridgePorts,   \* ifindexes of bridge ports, or of vlan links on them
  States,        \* STP states
  MaxStpEvents,  \* bound on what stack and kernel do ahead of net_main
  NoState        \* no state

Disabled == "disabled"
Forwarding == "forwarding"

ASSUME StatesAssumption == {Disabled, Forwarding} \subseteq States /\ NoState \notin States
ASSUME MaxStpEventsAssumption == MaxStpEvents \in Nat

VARIABLES
  kstate,         \* the kernel's state of each port
  oper,           \* whether the port is operationally up
  stp_events,     \* the kernel's notifications, not handled yet
  if_stp_state,   \* the cache _if_stp_state
  asked,          \* the state that the stack asked for last, without error
  revert,         \* net_main between its two calls: what to put back where
  unsent          \* ports whose last request by net_main could not be sent

stp_vars == <<kstate, oper, stp_events, if_stp_state, asked, revert, unsent>>

NoRevert == [port |-> NoState, state |-> NoState]

StpInit ==
  /\ oper \in [BridgePorts -> BOOLEAN]
  /\ kstate = [p \in BridgePorts |-> IF oper[p] THEN Forwarding ELSE Disabled]
  /\ stp_events = <<>>
  /\ if_stp_state = [p \in BridgePorts |-> NoState]
  /\ asked = [p \in BridgePorts |-> NoState]
  /\ revert = NoRevert
  /\ unsent = {}
-----------------------------------------------------------------------------
(* The kernel grants a state, and announces it, unless the port is down    *)
(* and the state is not Disabled.                                          *)
Grants(p, s) == oper[p] \/ s = Disabled

Becomes(p, s) ==
  /\ kstate' = [kstate EXCEPT ![p] = s]
  /\ stp_events' = Append(stp_events, [port |-> p, state |-> s])
  /\ unsent' = unsent \ {p}

HasStpRoom == Len(stp_events) < MaxStpEvents

PortDown(p) ==
  /\ HasStpRoom /\ oper[p]
  /\ oper' = [oper EXCEPT ![p] = FALSE]
  /\ Becomes(p, Disabled)
  /\ UNCHANGED <<if_stp_state, asked, revert>>

(* A port that comes up starts to forward. *)
PortUp(p) ==
  /\ HasStpRoom /\ ~oper[p]
  /\ oper' = [oper EXCEPT ![p] = TRUE]
  /\ Becomes(p, Forwarding)
  /\ UNCHANGED <<if_stp_state, asked, revert>>
-----------------------------------------------------------------------------
(* The request of nl_int_update_stp_state.                                 *)
Program(p, s) ==
  IF Grants(p, s) THEN Becomes(p, s) ELSE UNCHANGED <<kstate, stp_events, unsent>>

(* nl_int_update_stp_state, called by the STP stack: nothing to do if the  *)
(* cache has the state,                                                    *)
UpdateSame(p, s) ==
  /\ if_stp_state[p] = s
  /\ asked' = [asked EXCEPT ![p] = s]
  /\ UNCHANGED <<kstate, oper, stp_events, if_stp_state, revert, unsent>>

(* else the request is sent and the cache follows,                         *)
UpdateNew(p, s) ==
  /\ HasStpRoom
  /\ if_stp_state[p] # s
  /\ Program(p, s)
  /\ if_stp_state' = [if_stp_state EXCEPT ![p] = s]
  /\ asked' = [asked EXCEPT ![p] = s]
  /\ UNCHANGED <<oper, revert>>

(* or it cannot be sent, and the call fails.                               *)
UpdateFails(p, s) ==
  /\ if_stp_state[p] # s
  /\ UNCHANGED stp_vars
-----------------------------------------------------------------------------
(* Mutant: only a state other than Disabled is put back. *)
MismatchButDisabled(e) ==
  if_stp_state[e.port] \notin {NoState, e.state, Disabled}

(* os_interface_stg_attrs_handler, first call: the event's state is not    *)
(* the cached one.                                                         *)
Mismatch(e) == if_stp_state[e.port] \notin {NoState, e.state}

HandleEvent ==
  /\ revert = NoRevert /\ stp_events # <<>>
  /\ LET e == Head(stp_events)
     IN  revert' = IF Mismatch(e) THEN [port |-> e.port, state |-> if_stp_state[e.port]]
                                  ELSE NoRevert
  /\ stp_events' = Tail(stp_events)
  /\ UNCHANGED <<kstate, oper, if_stp_state, asked, unsent>>

(* Mutant: the cached state is not compared again. *)
StillCachedAlways(p, s) == TRUE

(* Second call: nl_int_update_stp_state for the path from the kernel, which *)
(* gives way to an update by the stack since the first call.               *)
StillCached(p, s) == if_stp_state[p] = s

RevertNow ==
  /\ revert # NoRevert
  /\ LET p == revert.port
         s == revert.state
     IN  IF StillCached(p, s)
           THEN /\ Program(p, s)
                /\ if_stp_state' = [if_stp_state EXCEPT ![p] = s]
           ELSE UNCHANGED <<kstate, stp_events, if_stp_state, unsent>>
  /\ revert' = NoRevert
  /\ UNCHANGED <<oper, asked>>

(* The request cannot be sent; nobody tries again.                         *)
RevertFails ==
  /\ revert # NoRevert /\ StillCached(revert.port, revert.state)
  /\ unsent' = unsent \cup {revert.port}
  /\ revert' = NoRevert
  /\ UNCHANGED <<kstate, oper, stp_events, if_stp_state, asked>>

StpNetMain == HandleEvent \/ RevertNow \/ RevertFails

StpNext ==
  \/ \E p \in BridgePorts : PortDown(p) \/ PortUp(p)
  \/ \E p \in BridgePorts, s \in States :
       UpdateSame(p, s) \/ UpdateNew(p, s) \/ UpdateFails(p, s)
  \/ StpNetMain

(* net_main's thread is a loop that never stops reading. *)
StpSpec == StpInit /\ [][StpNext]_stp_vars /\ WF_stp_vars(StpNetMain)
-----------------------------------------------------------------------------
Event == [port : BridgePorts, state : States]

(* The state has its shape; net_main holds at most one event more. *)
StpTypeOK ==
  /\ kstate \in [BridgePorts -> States]
  /\ oper \in [BridgePorts -> BOOLEAN]
  /\ stp_events \in Seq(Event)
  /\ if_stp_state \in [BridgePorts -> States \cup {NoState}]
  /\ asked \in [BridgePorts -> States \cup {NoState}]
  /\ revert \in Event \cup {NoRevert}
  /\ unsent \subseteq BridgePorts

(* Mismatches left to heal: net_main has an event that shows the kernel's  *)
(* state of the port, or is about to put the cached one back.              *)
Healing(p) ==
  \/ \E i \in 1 .. Len(stp_events) : stp_events[i] = [port |-> p, state |-> kstate[p]]
  \/ revert = [port |-> p, state |-> if_stp_state[p]]

Unmatched(p) == if_stp_state[p] # NoState /\ oper[p] /\ kstate[p] # if_stp_state[p]

(* nl_int_update_stp_state against os_interface_stg_attrs_handler: once    *)
(* net_main has handled every event, each port that is up is in the state  *)
(* that the stack asked for last, however ports went down and up and       *)
(* updates fell between net_main's two calls, unless a request of net_main *)
(* could not be sent since the port's last change.                         *)
AskedStateHolds ==
  (stp_events = <<>> /\ revert = NoRevert) =>
    \A p \in BridgePorts \ unsent : asked[p] # NoState /\ oper[p] => kstate[p] = asked[p]

(* ... and never does the cache, net_main or the kernel hold a state of    *)
(* a port that is none (os_interface_stg_attrs_handler, nas_os_stg).       *)
StatesRight == StpTypeOK /\ AskedStateHolds

(* A state that the kernel changed by itself does not stay: a port is      *)
(* again and again down or in the state that the cache has, or the last    *)
(* request of net_main to put it back could not be sent.                   *)
MismatchHeals == \A p \in BridgePorts : []<>(~Unmatched(p) \/ p \in unsent)
=============================================================================
