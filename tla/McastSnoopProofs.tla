-------------------------- MODULE McastSnoopProofs --------------------------
(***************************************************************************)
(* Of the multicast cache, for all VLANs, ports, groups, lists of ports    *)
(* and bounds: its sets and the maps from which a flush takes what to drop *)
(* agree; what subscribers know is what is cached; every variable keeps    *)
(* its type; and a static router port that was deleted stays deleted.      *)
(* The last part is about snooping by an application: for all VLANs and    *)
(* bounds, the rules of ebtables follow the requests.                      *)
(***************************************************************************)
EXTENDS McastSnoop, McastRules, TLAPS

(* What the agreement rests on: the maps are functions on the VLANs, and a *)
(* flush is only asked for a VLAN.                                         *)
MapsShape ==
  /\ br_mrouter_map = [v \in Vlans |-> br_mrouter_map[v]]
  /\ br_group_map = [v \in Vlans |-> br_group_map[v]]

FlushOfVlan ==
  /\ "at" \in DOMAIN req
  /\ req.at = "flush" => req.br \in Vlans

IInv == MapsShape /\ FlushOfVlan /\ CacheMapsAgree

LEMMA InitIInv == Init => IInv
<1> SUFFICES ASSUME Init PROVE IInv
  OBVIOUS
<1>1. MapsShape
  BY DEF Init, MapsShape
<1>2. FlushOfVlan
  BY DEF Init, FlushOfVlan, NoRequest
<1>3. CacheMapsAgree
  BY DEF Init, CacheMapsAgree
<1> QED
  BY <1>1, <1>2, <1>3 DEF IInv

(* Only a new request, whose VLAN nas-interface knows, asks for a flush.   *)
LEMMA FlushOfVlanStep ==
  ASSUME FlushOfVlan, [Next]_vars
  PROVE  FlushOfVlan'
<1>1. CASE UNCHANGED req
  BY <1>1 DEF FlushOfVlan
<1>2. ASSUME NEW at, NEW op, NEW v \in Vlans, NEW ports, NEW val, NEW grp,
             Begin(at, op, v, ports, val, grp)
      PROVE  FlushOfVlan'
  BY <1>2 DEF Begin, FlushOfVlan
<1>3. CASE req' = NoRequest
  BY <1>3 DEF FlushOfVlan, NoRequest
<1>4. ASSUME NEW at \in {"router", "cache", "clear", "write", "publish"},
             req' = [req EXCEPT !.at = at] \/ req' = [req EXCEPT !.at = at, !.todo = Tail(@)]
      PROVE  FlushOfVlan'
  BY <1>4 DEF FlushOfVlan
<1>5. CASE req' = [req EXCEPT !.todo = Tail(@)] /\ req.at = "router"
  BY <1>5 DEF FlushOfVlan
<1>6. CASE handle_configs_fs
  BY <1>6, <1>2 DEF handle_configs_fs
<1>7. CASE StaticMrouter
  BY <1>7, <1>3, <1>4, <1>5 DEF StaticMrouter, EndMrouterRequest
<1>8. CASE update_static_mrouter_cache
  BY <1>8, <1>4 DEF update_static_mrouter_cache
<1>9. CASE clear_static_mrouter_cache
  BY <1>9, <1>4 DEF clear_static_mrouter_cache
<1>10. CASE StaticGroup
  BY <1>10, <1>3 DEF StaticGroup
<1>11. CASE flush_cache
  BY <1>11, <1>4 DEF flush_cache
<1>12. CASE SetSnooping
  BY <1>12, <1>4 DEF SetSnooping
<1>13. CASE PublishSnooping
  BY <1>13, <1>3 DEF PublishSnooping
<1>14. CASE Polling
  BY <1>14, <1>1 DEF Polling, StartPolling, apply_static_mrouter_configs,
       get_igmp_snooping_route, UpdateMrouters, UpdateGroups, QueueEmpty, SetHashMax
<1>15. CASE ChangeMember \/ KernelFollows \/ LearnOrAge \/ ChangeKnown \/ GraceEnds
  BY <1>15, <1>1 DEF ChangeMember, KernelFollows, LearnOrAge, ChangeKnown, GraceEnds
<1>16. CASE UNCHANGED vars
  BY <1>16, <1>1 DEF vars
<1> QED
  BY <1>6, <1>7, <1>8, <1>9, <1>10, <1>11, <1>12, <1>13, <1>14, <1>15, <1>16
  DEF Next, Handling

(* A flush drops from the sets and from the maps the same.                 *)
LEMMA FlushKeepsMaps ==
  ASSUME IInv, flush_cache
  PROVE  MapsShape' /\ CacheMapsAgree'
<1> DEFINE v == req.br
<1>1. /\ v \in Vlans
      /\ mrouter_set' = KeptMrouters(v)
      /\ br_mrouter_map' = [br_mrouter_map EXCEPT ![v] = {}]
      /\ group_set' = KeptGroups(v)
      /\ br_group_map' = [br_group_map EXCEPT ![v] = {}]
  BY DEF IInv, FlushOfVlan, flush_cache
<1>2. MapsShape'
  BY <1>1 DEF IInv, MapsShape
<1> HIDE DEF v
<1>3. ASSUME NEW u \in Vlans
      PROVE  br_mrouter_map'[u] = {p \in Ports : <<u, p>> \in mrouter_set'}
  <2>1. br_mrouter_map[u] = {p \in Ports : <<u, p>> \in mrouter_set}
    BY DEF IInv, CacheMapsAgree
  <2>2. CASE u = v
    BY <2>1, <2>2, <1>1 DEF IInv, MapsShape, KeptMrouters
  <2>3. CASE u # v
    <3>1. br_mrouter_map'[u] = br_mrouter_map[u]
      BY <2>3, <1>1 DEF IInv, MapsShape
    <3>2. \A p \in Ports : <<u, p>> \in mrouter_set' <=> <<u, p>> \in mrouter_set
      BY <2>3, <1>1 DEF KeptMrouters
    <3> QED
      BY <2>1, <3>1, <3>2
  <2> QED
    BY <2>2, <2>3
<1>4. ASSUME NEW u \in Vlans
      PROVE  br_group_map'[u] = {g \in group_set' : g[1] = u}
  <2>1. /\ br_group_map[u] = {g \in group_set : g[1] = u}
        /\ br_group_map[v] = {g \in group_set : g[1] = v}
    BY <1>1 DEF IInv, CacheMapsAgree
  <2>2. group_set' = {g \in group_set : g[1] # v}
    BY <2>1, <1>1 DEF KeptGroups
  <2>3. CASE u = v
    BY <2>2, <2>3, <1>1 DEF IInv, MapsShape
  <2>4. CASE u # v
    <3>1. br_group_map'[u] = br_group_map[u]
      BY <2>4, <1>1 DEF IInv, MapsShape
    <3> QED
      BY <2>1, <2>2, <2>4, <3>1
  <2> QED
    BY <2>3, <2>4
<1> QED
  BY <1>2, <1>3, <1>4 DEF CacheMapsAgree

LEMMA NextIInv == IInv /\ [Next]_vars => IInv'
<1> SUFFICES ASSUME IInv, [Next]_vars PROVE IInv'
  OBVIOUS
<1>1. FlushOfVlan'
  BY FlushOfVlanStep DEF IInv
<1>2. CASE UNCHANGED cacheVars
  BY <1>1, <1>2 DEF IInv, MapsShape, CacheMapsAgree, cacheVars
<1>3. CASE flush_cache
  BY <1>3, <1>1, FlushKeepsMaps DEF IInv
<1>4. CASE UpdateMrouters
  <2> DEFINE del_set == mrouter_set \ poll.mrouters
             add_set == poll.mrouters \ mrouter_set
  <2>1. /\ br_mrouter_map' = [v \in Vlans |->
             (br_mrouter_map[v] \ {p \in Ports : <<v, p>> \in del_set})
               \cup {p \in Ports : <<v, p>> \in add_set}]
        /\ mrouter_set' = poll.mrouters
        /\ UNCHANGED <<group_set, br_group_map>>
    BY <1>4 DEF UpdateMrouters
  <2>2. MapsShape'
    BY <2>1 DEF IInv, MapsShape
  <2>3. \A v \in Vlans : br_mrouter_map'[v] = {p \in Ports : <<v, p>> \in mrouter_set'}
    BY <2>1 DEF IInv, CacheMapsAgree
  <2> QED
    BY <1>1, <2>1, <2>2, <2>3 DEF IInv, CacheMapsAgree
<1>5. CASE UpdateGroups
  <2> DEFINE del_set == group_set \ poll.groups
             add_set == poll.groups \ group_set
  <2>1. /\ br_group_map' = [v \in Vlans |->
             (br_group_map[v] \ del_set) \cup {g \in add_set : g[1] = v}]
        /\ group_set' = poll.groups
        /\ UNCHANGED <<mrouter_set, br_mrouter_map>>
    BY <1>5 DEF UpdateGroups
  <2>2. MapsShape'
    BY <2>1 DEF IInv, MapsShape
  <2>3. \A v \in Vlans : br_group_map'[v] = {g \in group_set' : g[1] = v}
    BY <2>1 DEF IInv, CacheMapsAgree
  <2> QED
    BY <1>1, <2>1, <2>2, <2>3 DEF IInv, CacheMapsAgree
<1>6. CASE handle_configs_fs
  BY <1>6, <1>1, <1>2 DEF handle_configs_fs, Begin
<1>7. CASE Handling /\ ~flush_cache
  BY <1>7, <1>1, <1>2 DEF Handling, StaticMrouter, update_static_mrouter_cache,
       clear_static_mrouter_cache, StaticGroup, SetSnooping, PublishSnooping
<1>8. CASE Polling /\ ~UpdateMrouters /\ ~UpdateGroups
  BY <1>8, <1>1, <1>2 DEF Polling, StartPolling, apply_static_mrouter_configs,
       get_igmp_snooping_route, QueueEmpty, SetHashMax
<1>9. CASE ChangeMember \/ KernelFollows \/ LearnOrAge \/ ChangeKnown \/ GraceEnds
  BY <1>9, <1>1, <1>2 DEF ChangeMember, KernelFollows, LearnOrAge, ChangeKnown, GraceEnds
<1>10. CASE UNCHANGED vars
  BY <1>10, <1>1, <1>2 DEF vars
<1> QED
  BY <1>3, <1>4, <1>5, <1>6, <1>7, <1>8, <1>9, <1>10 DEF Next

-----------------------------------------------------------------------------
(* SubscribersMatchCache is not inductive: the event of a disable empties  *)
(* what subscribers know, so the cache must be empty of that VLAN too.     *)
Cached(v) == {m \in mrouter_set : m[1] = v} \cup {g \in group_set : g[1] = v}

FlushedWhenDisabling ==
  \A v \in Vlans \ tainted : Disabling(v) => Cached(v) = {}

(* A flush is the first step of a disable, not of an enable.               *)
FlushDisables == req.at = "flush" => req.val = 0

ReqShape == {"at", "val", "br"} \subseteq DOMAIN req /\ req.val \in {0, 1}

(* Router ports are pairs, cached or just read.                            *)
MroutersArePairs ==
  /\ {"at", "mrouters"} \subseteq DOMAIN poll
  /\ mrouter_set \subseteq Vlans \X Ports
  /\ poll.mrouters \subseteq Vlans \X Ports

SInv == ReqShape /\ MroutersArePairs /\ FlushDisables /\ FlushedWhenDisabling /\ SubscribersMatchCache

(* One round tells subscribers of a VLAN the difference between old and    *)
(* new, if it is told at all or there is none.                             *)
LEMMA DifferenceTold ==
  ASSUME NEW sub, NEW old, NEW new, NEW v, NEW R,
         {m \in sub : m[1] = v} = {m \in old : m[1] = v},
         v \in R \/ \A x \in (old \ new) \cup (new \ old) : x[1] # v
  PROVE  {m \in (sub \ {x \in old \ new : x[1] \in R}) \cup {x \in new \ old : x[1] \in R} : m[1] = v}
           = {m \in new : m[1] = v}
OBVIOUS

(* A VLAN without a difference keeps what was cached of it.                *)
LEMMA NoDifference ==
  ASSUME NEW old, NEW new, NEW v,
         \A x \in (old \ new) \cup (new \ old) : x[1] # v
  PROVE  {m \in new : m[1] = v} = {m \in old : m[1] = v}
OBVIOUS

(* What a round does not excuse: the VLAN is found, and not half disabled. *)
LEMMA NotOvertaken ==
  ASSUME NEW changed, NEW v, v \notin Overtaken(changed)
  PROVE  /\ v \in Resolved \/ \A x \in changed : x[1] # v
         /\ Disabling(v) => \A x \in changed : x[1] # v
BY DEF Overtaken, VlansOf, Disabling

(* A step that changes neither caches nor events, nor what is disabled.    *)
LEMMA DisablingUnchanged ==
  ASSUME SInv, UNCHANGED <<mrouter_set, group_set, subVars, tainted>>,
         \A v \in Vlans : Disabling(v)' <=> Disabling(v)
  PROVE  FlushedWhenDisabling' /\ SubscribersMatchCache'
BY DEF SInv, FlushedWhenDisabling, SubscribersMatchCache, SubscribersKnow, Cached, subVars

(* The request thread outside of a disable.                                *)
LEMMA NotDisabling ==
  ASSUME SInv, req.at \notin {"write", "publish"},
         req'.at \notin {"write", "publish"} \/ req'.val # 0,
         UNCHANGED <<mrouter_set, group_set, subVars, tainted>>
  PROVE  FlushedWhenDisabling' /\ SubscribersMatchCache'
<1>1. \A v \in Vlans : ~Disabling(v) /\ ~Disabling(v)'
  BY DEF Disabling
<1> QED
  BY <1>1, DisablingUnchanged

(* The shape of a request, and what a flush is for.                        *)
LEMMA ReqShapeStep ==
  ASSUME ReqShape, FlushDisables, [Next]_vars
  PROVE  ReqShape' /\ FlushDisables'
<1>1. CASE UNCHANGED req
  BY <1>1 DEF ReqShape, FlushDisables
<1>2. CASE handle_configs_fs
  BY <1>2 DEF handle_configs_fs, Begin, ReqShape, FlushDisables
<1>3. CASE req' = NoRequest
  BY <1>3 DEF ReqShape, FlushDisables, NoRequest
<1>4. ASSUME NEW at \in {"router", "cache", "clear", "write", "publish"},
             req' = [req EXCEPT !.at = at] \/ req' = [req EXCEPT !.at = at, !.todo = Tail(@)]
      PROVE  ReqShape' /\ FlushDisables'
  BY <1>4 DEF ReqShape, FlushDisables
<1>5. CASE req' = [req EXCEPT !.todo = Tail(@)] /\ req.at = "router"
  BY <1>5 DEF ReqShape, FlushDisables
<1>6. CASE StaticMrouter
  BY <1>6, <1>3, <1>4, <1>5 DEF StaticMrouter, EndMrouterRequest
<1>7. CASE update_static_mrouter_cache \/ clear_static_mrouter_cache
  BY <1>7, <1>4 DEF update_static_mrouter_cache, clear_static_mrouter_cache
<1>8. CASE StaticGroup \/ PublishSnooping
  BY <1>8, <1>3 DEF StaticGroup, PublishSnooping
<1>9. CASE flush_cache \/ SetSnooping
  BY <1>9, <1>4 DEF flush_cache, SetSnooping
<1>10. CASE Polling
  BY <1>10, <1>1 DEF Polling, StartPolling, apply_static_mrouter_configs,
       get_igmp_snooping_route, UpdateMrouters, UpdateGroups, QueueEmpty, SetHashMax
<1>11. CASE ChangeMember \/ KernelFollows \/ LearnOrAge \/ ChangeKnown \/ GraceEnds
  BY <1>11, <1>1 DEF ChangeMember, KernelFollows, LearnOrAge, ChangeKnown, GraceEnds
<1>12. CASE UNCHANGED vars
  BY <1>12, <1>1 DEF vars
<1> QED
  BY <1>2, <1>6, <1>7, <1>8, <1>9, <1>10, <1>11, <1>12 DEF Next, Handling

LEMMA MroutersArePairsStep ==
  ASSUME MroutersArePairs, [Next]_vars
  PROVE  MroutersArePairs'
<1>1. CASE UNCHANGED <<poll, mrouter_set>>
  BY <1>1 DEF MroutersArePairs
<1>2. CASE StartPolling
  BY <1>2 DEF StartPolling, Waiting, MroutersArePairs, cacheVars
<1>3. CASE apply_static_mrouter_configs
  BY <1>3 DEF apply_static_mrouter_configs, MroutersArePairs, cacheVars
<1>4. CASE get_igmp_snooping_route
  <2>1. ShownMrouters \subseteq Vlans \X Ports
    BY DEF ShownMrouters
  <2>2. UNCHANGED mrouter_set
    BY <1>4 DEF get_igmp_snooping_route, cacheVars
  <2>3. CASE Leave
    BY <2>2, <2>3 DEF Leave, Waiting, MroutersArePairs
  <2>4. CASE poll' = [poll EXCEPT !.at = "mrouters", !.mrouters = ShownMrouters,
                                  !.groups = ShownGroups]
    <3>1. poll'.mrouters = ShownMrouters /\ DOMAIN poll' = DOMAIN poll
      BY <2>4 DEF MroutersArePairs
    <3> QED
      BY <2>1, <2>2, <3>1 DEF MroutersArePairs
  <2> QED
    BY <1>4, <2>3, <2>4 DEF get_igmp_snooping_route
<1>5. CASE UpdateMrouters
  <2>1. mrouter_set' = poll.mrouters /\ poll'.mrouters = poll.mrouters
        /\ DOMAIN poll' = DOMAIN poll
    BY <1>5 DEF UpdateMrouters, MroutersArePairs
  <2> QED
    BY <2>1 DEF MroutersArePairs
<1>6. CASE UpdateGroups
  BY <1>6 DEF UpdateGroups, Leave, Waiting, MroutersArePairs
<1>7. CASE QueueEmpty
  BY <1>7 DEF QueueEmpty, PollNow, MroutersArePairs, cacheVars
<1>8. CASE SetHashMax
  BY <1>8 DEF SetHashMax, PollNow, MroutersArePairs, cacheVars
<1>9. CASE handle_configs_fs
  BY <1>9, <1>1 DEF handle_configs_fs, Begin, cacheVars
<1>10. CASE flush_cache
  BY <1>10 DEF flush_cache, KeptMrouters, MroutersArePairs
<1>11. CASE Handling /\ ~flush_cache
  BY <1>11, <1>1 DEF Handling, StaticMrouter, update_static_mrouter_cache,
       clear_static_mrouter_cache, StaticGroup, SetSnooping, PublishSnooping, cacheVars
<1>12. CASE ChangeMember \/ KernelFollows \/ LearnOrAge \/ ChangeKnown \/ GraceEnds
  BY <1>12, <1>1 DEF ChangeMember, KernelFollows, LearnOrAge, ChangeKnown, GraceEnds, cacheVars
<1>13. CASE UNCHANGED vars
  BY <1>13, <1>1 DEF vars, cacheVars
<1> QED
  BY <1>2, <1>3, <1>4, <1>5, <1>6, <1>7, <1>8, <1>9, <1>10, <1>11, <1>12, <1>13
  DEF Next, Polling

(* The steps of a disable: the flush, the file, the event.                 *)
LEMMA DisableKeepsSInv ==
  ASSUME IInv, SInv, flush_cache \/ SetSnooping \/ PublishSnooping
  PROVE  FlushedWhenDisabling' /\ SubscribersMatchCache'
<1>1. CASE flush_cache
  <2> DEFINE b == req.br
  <2>1. /\ b \in Vlans /\ req.val = 0
        /\ mrouter_set' = KeptMrouters(b)
        /\ group_set' = KeptGroups(b)
        /\ UNCHANGED <<sub_mrouters, sub_groups, tainted>>
        /\ req.at = "flush"
        /\ req' = [req EXCEPT !.at = "write"]
    BY <1>1 DEF flush_cache, subVars, histVars, IInv, FlushOfVlan, SInv, FlushDisables
  <2>2. /\ br_mrouter_map[b] = {p \in Ports : <<b, p>> \in mrouter_set}
        /\ br_group_map[b] = {g \in group_set : g[1] = b}
    BY <2>1 DEF IInv, CacheMapsAgree
  <2>3. \A v \in Vlans : ~Disabling(v) /\ (Disabling(v)' <=> v = b)
    BY <2>1 DEF Disabling, SInv, ReqShape
  <2>4. {g \in group_set' : g[1] = b} = {}
    BY <2>1, <2>2 DEF KeptGroups
  <2>5. ASSUME NEW v \in Vlans, v # b
        PROVE  /\ {m \in mrouter_set' : m[1] = v} = {m \in mrouter_set : m[1] = v}
               /\ {g \in group_set' : g[1] = v} = {g \in group_set : g[1] = v}
    BY <2>1, <2>2, <2>5 DEF KeptMrouters, KeptGroups
  <2>6. {m \in mrouter_set' : m[1] = b} = {}
    <3>1. \A m \in mrouter_set : m[1] = b => m = <<b, m[2]>> /\ m[2] \in Ports
      BY DEF SInv, MroutersArePairs
    <3> QED
      BY <2>1, <2>2, <3>1 DEF KeptMrouters
  <2>7. FlushedWhenDisabling'
    BY <2>3, <2>4, <2>6 DEF FlushedWhenDisabling, Cached
  <2>8. SubscribersMatchCache'
    BY <2>1, <2>3, <2>5 DEF SInv, SubscribersMatchCache, SubscribersKnow
  <2> QED
    BY <2>7, <2>8
<1>2. CASE SetSnooping
  <2>1. /\ req.at = "write" /\ req' = [req EXCEPT !.at = "publish"]
        /\ UNCHANGED <<mrouter_set, group_set, subVars, tainted>>
    BY <1>2 DEF SetSnooping, cacheVars, histVars
  <2>2. \A v \in Vlans : Disabling(v)' <=> Disabling(v)
    BY <2>1 DEF Disabling, SInv, ReqShape
  <2> QED
    BY <2>1, <2>2, DisablingUnchanged
<1>3. CASE PublishSnooping
  <2>1. /\ req.at = "publish" /\ req' = NoRequest
        /\ UNCHANGED <<mrouter_set, group_set, tainted>>
    BY <1>3 DEF PublishSnooping, cacheVars, histVars
  <2>2. \A v \in Vlans : ~Disabling(v)'
    BY <2>1 DEF Disabling, NoRequest
  <2>3. CASE req.val = 1
    <3>1. \A v \in Vlans : ~Disabling(v)
      BY <2>3 DEF Disabling
    <3>2. UNCHANGED subVars
      BY <1>3, <2>3 DEF PublishSnooping
    <3> QED
      BY <2>1, <2>2, <3>1, <3>2, DisablingUnchanged
  <2>4. CASE req.val # 1
    <3>1. /\ sub_mrouters' = {m \in sub_mrouters : m[1] # req.br}
          /\ sub_groups' = {g \in sub_groups : g[1] # req.br}
      BY <1>3, <2>4 DEF PublishSnooping
    <3>2. ASSUME NEW v \in Vlans \ tainted, v = req.br, req.val = 0
          PROVE  SubscribersKnow(v)'
      <4>1. Cached(v) = {}
        BY <2>1, <3>2 DEF SInv, FlushedWhenDisabling, Disabling
      <4> QED
        BY <2>1, <3>1, <3>2, <4>1 DEF Cached, SubscribersKnow
    <3>3. ASSUME NEW v \in Vlans \ tainted, v # req.br
          PROVE  SubscribersKnow(v)'
      <4>1. SubscribersKnow(v)
        BY <3>3 DEF SInv, SubscribersMatchCache, Disabling
      <4> QED
        BY <2>1, <3>1, <3>3, <4>1 DEF SubscribersKnow
    <3>4. req.val = 0
      BY <2>4, <2>1 DEF SInv, ReqShape
    <3> QED
      BY <2>1, <2>2, <3>2, <3>3, <3>4 DEF FlushedWhenDisabling, SubscribersMatchCache
  <2> QED
    BY <2>3, <2>4
<1> QED
  BY <1>1, <1>2, <1>3

(* A round, whose two steps replace a set and tell the difference.         *)
LEMMA RoundKeepsSInv ==
  ASSUME SInv, UpdateMrouters \/ UpdateGroups
  PROVE  FlushedWhenDisabling' /\ SubscribersMatchCache'
<1>1. UNCHANGED req /\ \A v \in Vlans : Disabling(v)' <=> Disabling(v)
  BY DEF UpdateMrouters, UpdateGroups, Disabling
<1>2. CASE UpdateMrouters
  <2> DEFINE changed == (mrouter_set \ poll.mrouters) \cup (poll.mrouters \ mrouter_set)
  <2>1. /\ sub_mrouters' = (sub_mrouters \ {x \in mrouter_set \ poll.mrouters : x[1] \in Resolved})
                             \cup {x \in poll.mrouters \ mrouter_set : x[1] \in Resolved}
        /\ mrouter_set' = poll.mrouters
        /\ tainted' = tainted \cup Overtaken(changed)
        /\ UNCHANGED <<group_set, sub_groups>>
    BY <1>2 DEF UpdateMrouters
  <2>2. ASSUME NEW v \in Vlans \ tainted'
        PROVE  /\ v \notin tainted
               /\ v \in Resolved \/ \A x \in changed : x[1] # v
               /\ Disabling(v) => \A x \in changed : x[1] # v
    <3>1. v \notin tainted /\ v \notin Overtaken(changed)
      BY <2>1
    <3> HIDE DEF changed
    <3> QED
      BY <3>1, NotOvertaken
  <2>3. ASSUME NEW v \in Vlans \ tainted', Disabling(v)
        PROVE  Cached(v)' = {}
    <3>1. Cached(v) = {}
      BY <2>2, <2>3 DEF SInv, FlushedWhenDisabling
    <3>2. {m \in mrouter_set' : m[1] = v} = {m \in mrouter_set : m[1] = v}
      BY <2>1, <2>2, <2>3, NoDifference
    <3> QED
      BY <2>1, <3>1, <3>2 DEF Cached
  <2>4. ASSUME NEW v \in Vlans \ tainted', ~Disabling(v)
        PROVE  SubscribersKnow(v)'
    <3>1. SubscribersKnow(v)
      BY <2>2, <2>4 DEF SInv, SubscribersMatchCache
    <3>2. {m \in sub_mrouters' : m[1] = v} = {m \in mrouter_set' : m[1] = v}
      <4>1. {m \in sub_mrouters : m[1] = v} = {m \in mrouter_set : m[1] = v}
        BY <3>1 DEF SubscribersKnow
      <4>2. v \in Resolved \/ \A x \in (mrouter_set \ poll.mrouters) \cup (poll.mrouters \ mrouter_set) : x[1] # v
        BY <2>2
      <4>3. {m \in (sub_mrouters \ {x \in mrouter_set \ poll.mrouters : x[1] \in Resolved})
                      \cup {x \in poll.mrouters \ mrouter_set : x[1] \in Resolved} : m[1] = v}
              = {m \in poll.mrouters : m[1] = v}
        BY <4>1, <4>2, DifferenceTold
      <4> QED
        BY <4>3, <2>1
    <3> QED
      BY <2>1, <3>1, <3>2 DEF SubscribersKnow
  <2> QED
    BY <1>1, <2>3, <2>4 DEF FlushedWhenDisabling, SubscribersMatchCache
<1>3. CASE UpdateGroups
  <2> DEFINE changed == (group_set \ poll.groups) \cup (poll.groups \ group_set)
  <2>1. /\ sub_groups' = (sub_groups \ {x \in group_set \ poll.groups : x[1] \in Resolved})
                           \cup {x \in poll.groups \ group_set : x[1] \in Resolved}
        /\ group_set' = poll.groups
        /\ tainted' = tainted \cup Overtaken(changed)
        /\ UNCHANGED <<mrouter_set, sub_mrouters>>
    BY <1>3 DEF UpdateGroups
  <2>2. ASSUME NEW v \in Vlans \ tainted'
        PROVE  /\ v \notin tainted
               /\ v \in Resolved \/ \A x \in changed : x[1] # v
               /\ Disabling(v) => \A x \in changed : x[1] # v
    <3>1. v \notin tainted /\ v \notin Overtaken(changed)
      BY <2>1
    <3> HIDE DEF changed
    <3> QED
      BY <3>1, NotOvertaken
  <2>3. ASSUME NEW v \in Vlans \ tainted', Disabling(v)
        PROVE  Cached(v)' = {}
    <3>1. Cached(v) = {}
      BY <2>2, <2>3 DEF SInv, FlushedWhenDisabling
    <3>2. {m \in group_set' : m[1] = v} = {m \in group_set : m[1] = v}
      BY <2>1, <2>2, <2>3, NoDifference
    <3> QED
      BY <2>1, <3>1, <3>2 DEF Cached
  <2>4. ASSUME NEW v \in Vlans \ tainted', ~Disabling(v)
        PROVE  SubscribersKnow(v)'
    <3>1. SubscribersKnow(v)
      BY <2>2, <2>4 DEF SInv, SubscribersMatchCache
    <3>2. {m \in sub_groups' : m[1] = v} = {m \in group_set' : m[1] = v}
      <4>1. {m \in sub_groups : m[1] = v} = {m \in group_set : m[1] = v}
        BY <3>1 DEF SubscribersKnow
      <4>2. v \in Resolved \/ \A x \in (group_set \ poll.groups) \cup (poll.groups \ group_set) : x[1] # v
        BY <2>2
      <4>3. {m \in (sub_groups \ {x \in group_set \ poll.groups : x[1] \in Resolved})
                      \cup {x \in poll.groups \ group_set : x[1] \in Resolved} : m[1] = v}
              = {m \in poll.groups : m[1] = v}
        BY <4>1, <4>2, DifferenceTold
      <4> QED
        BY <4>3, <2>1
    <3> QED
      BY <2>1, <3>1, <3>2 DEF SubscribersKnow
  <2> QED
    BY <1>1, <2>3, <2>4 DEF FlushedWhenDisabling, SubscribersMatchCache
<1> QED
  BY <1>2, <1>3

LEMMA InitSInv == Init => SInv
<1> SUFFICES ASSUME Init PROVE SInv
  OBVIOUS
<1>1. ReqShape /\ FlushDisables
  BY DEF Init, NoRequest, ReqShape, FlushDisables
<1>2. MroutersArePairs
  BY DEF Init, Waiting, MroutersArePairs
<1>3. FlushedWhenDisabling /\ SubscribersMatchCache
  BY DEF Init, FlushedWhenDisabling, SubscribersMatchCache, SubscribersKnow, Cached
<1> QED
  BY <1>1, <1>2, <1>3 DEF SInv

LEMMA NextSInv == IInv /\ SInv /\ [Next]_vars => SInv'
<1> SUFFICES ASSUME IInv, SInv, [Next]_vars PROVE SInv'
  OBVIOUS
<1>1. ReqShape' /\ FlushDisables' /\ MroutersArePairs'
  BY ReqShapeStep, MroutersArePairsStep DEF SInv
<1> DEFINE Goal == FlushedWhenDisabling' /\ SubscribersMatchCache'
<1>2. SUFFICES Goal
  BY <1>1 DEF SInv
<1>3. CASE UNCHANGED <<mrouter_set, group_set, subVars, tainted, req>>
  <2>1. \A v \in Vlans : Disabling(v)' <=> Disabling(v)
    BY <1>3 DEF Disabling
  <2> QED
    BY <1>3, <2>1, DisablingUnchanged
<1>4. CASE handle_configs_fs
  <2>1. ASSUME NEW at, NEW op, NEW v \in Vlans, NEW ports, NEW val, NEW grp,
               at \notin {"write", "publish"} \/ val # 0,
               Begin(at, op, v, ports, val, grp)
        PROVE  Goal
    <3>1. /\ req.at = "idle"
          /\ req'.at \notin {"write", "publish"} \/ req'.val # 0
          /\ UNCHANGED <<mrouter_set, group_set, subVars, tainted>>
      BY <2>1 DEF Begin, cacheVars, histVars
    <3> QED
      BY <3>1, NotDisabling
  <2>2. "router" \notin {"write", "publish"} /\ "group" \notin {"write", "publish"}
        /\ "flush" \notin {"write", "publish"} /\ 1 # 0
    OBVIOUS
  <2> HIDE DEF Goal
  <2>3. PICK v \in Vlans, op \in {"create", "delete"} :
          \/ \E ports \in RouterLists : Begin("router", op, v, ports, 0, None)
          \/ \E p \in Ports, g \in Groups : Begin("group", op, v, <<p>>, 0, g)
          \/ Begin("flush", op, v, <<>>, 0, None)
          \/ Begin("write", op, v, <<>>, 1, None)
    BY <1>4 DEF handle_configs_fs
  <2> QED
    BY <2>1, <2>2, <2>3, Zenon
<1>5. CASE StaticMrouter
  <2>1. req.at = "router" /\ req'.at \notin {"write", "publish"}
        /\ UNCHANGED <<mrouter_set, group_set, subVars, tainted>>
    BY <1>5 DEF StaticMrouter, EndMrouterRequest, NoRequest, cacheVars, SInv, ReqShape
  <2> QED
    BY <2>1, NotDisabling
<1>6. CASE update_static_mrouter_cache \/ clear_static_mrouter_cache \/ StaticGroup
  <2>1. UNCHANGED <<mrouter_set, group_set, subVars, tainted>>
    BY <1>6 DEF update_static_mrouter_cache, clear_static_mrouter_cache, StaticGroup,
         cacheVars, histVars
  <2>2. CASE update_static_mrouter_cache
    <3>1. req.at = "cache" /\ req'.at = "router"
      BY <2>2 DEF update_static_mrouter_cache, SInv, ReqShape
    <3> QED
      BY <2>1, <3>1, NotDisabling
  <2>3. CASE clear_static_mrouter_cache
    <3>1. req.at = "clear" /\ req'.at = "router"
      BY <2>3 DEF clear_static_mrouter_cache, SInv, ReqShape
    <3> QED
      BY <2>1, <3>1, NotDisabling
  <2>4. CASE StaticGroup
    <3>1. req.at = "group" /\ req'.at = "idle"
      BY <2>4 DEF StaticGroup, NoRequest
    <3> QED
      BY <2>1, <3>1, NotDisabling
  <2> QED
    BY <1>6, <2>2, <2>3, <2>4
<1>7. CASE flush_cache \/ SetSnooping \/ PublishSnooping
  BY <1>7, DisableKeepsSInv
<1>8. CASE UpdateMrouters \/ UpdateGroups
  BY <1>8, RoundKeepsSInv
<1>9. CASE Polling /\ ~UpdateMrouters /\ ~UpdateGroups
  BY <1>9, <1>3 DEF Polling, StartPolling, apply_static_mrouter_configs,
       get_igmp_snooping_route, QueueEmpty, SetHashMax, cacheVars, histVars
<1>10. CASE ChangeMember \/ KernelFollows \/ LearnOrAge \/ ChangeKnown \/ GraceEnds
  BY <1>10, <1>3 DEF ChangeMember, KernelFollows, LearnOrAge, ChangeKnown, GraceEnds,
       cacheVars, histVars
<1>11. CASE UNCHANGED vars
  BY <1>11, <1>3 DEF vars, cacheVars, histVars
<1> QED
  BY <1>4, <1>5, <1>6, <1>7, <1>8, <1>9, <1>10, <1>11 DEF Next, Handling

(* Polling and flushes keep, in every order, the maps by bridge equal to   *)
(* the sets.                                                               *)
THEOREM MapsAgreeAlways == Spec => []CacheMapsAgree
<1>1. Spec => []IInv
  BY InitIInv, NextIInv, PTL DEF Spec
<1>2. IInv => CacheMapsAgree
  BY DEF IInv
<1> QED
  BY <1>1, <1>2, PTL

(* Whatever the order of rounds, requests and changes of the kernel, what  *)
(* subscribers know from the events is what is cached, but for the VLANs   *)
(* that SubscribersMatchCache excuses.                                     *)
THEOREM SubscribersMatchAlways == Spec => []SubscribersMatchCache
<1>1. Spec => [](IInv /\ SInv)
  BY InitIInv, NextIInv, InitSInv, NextSInv, PTL DEF Spec
<1>2. SInv => SubscribersMatchCache
  BY DEF SInv
<1> QED
  BY <1>1, <1>2, PTL
-----------------------------------------------------------------------------
(* The types rest on what a request under way and a round carry along.     *)
RequestSteps ==
  {"idle", "router", "cache", "clear", "group", "flush", "write", "publish"}

Requests ==
  [at : RequestSteps, op : {"create", "delete"}, br : Vlans, todo : Seq(Ports),
   info : [Ports -> Tags], val : {0, 1}, grp : Groups \cup {None}]

RequestOK ==
  \/ req = NoRequest
  \/ /\ req \in Requests
     /\ req.at = "group" => req.grp \in Groups
     /\ req.at \in {"cache", "clear", "group"} => req.todo # <<>>
     /\ req.at = "cache" => req.info[Head(req.todo)] # "no"

PollOK ==
  poll \in [at : {"start", "apply", "mrouters", "groups", "wait"},
            mrouters : SUBSET Mrouters, groups : SUBSET Entries,
            todo : SUBSET Mrouters, vlan_map : SUBSET Vlans]

(* What nas-interface and the kernel hold.                                 *)
OutsideOK ==
  /\ known \subseteq Vlans /\ grace \subseteq Vlans /\ hash_max \subseteq Vlans
  /\ member \in [Vlans -> [Ports -> Tags]] /\ brif \in [Vlans -> [Ports -> Tags]]
  /\ router \in [Vlans -> [Ports -> {1, 2, Heard}]]
  /\ mdb \subseteq Entries
  /\ snooping \in [Vlans -> BOOLEAN]

(* What the program holds.                                                 *)
StaticOK == static_mrouter_set \in [Vlans -> [Ports -> Tags]]

CachedOK ==
  /\ group_set \subseteq Entries /\ sub_groups \subseteq Entries
  /\ mrouter_set \subseteq Mrouters /\ sub_mrouters \subseteq Mrouters
  /\ br_mrouter_map \in [Vlans -> SUBSET Ports]
  /\ br_group_map \in [Vlans -> SUBSET Entries]

Tasks == [br : Vlans, try : 0 .. MaxTry - 1]

QueueOK == hashmax_cfg_q \in Seq(Tasks)

RestOK ==
  /\ lock \in BOOLEAN
  /\ tainted \subseteq Vlans
  /\ gone \subseteq Mrouters /\ undone \subseteq Mrouters /\ spoiled \subseteq gone

TInv == RequestOK /\ PollOK /\ OutsideOK /\ StaticOK /\ CachedOK /\ QueueOK /\ RestOK

(* A request in one of its steps, whose next port is Head(req.todo).       *)
LEMMA RequestAt ==
  ASSUME TInv, req.at # "idle"
  PROVE  /\ req \in Requests
         /\ req.at \in {"cache", "clear", "group"} => req.todo # <<>>
         /\ req.todo # <<>> => Head(req.todo) \in Ports /\ Tail(req.todo) \in Seq(Ports)
<1>1. /\ req \in Requests
      /\ req.at \in {"cache", "clear", "group"} => req.todo # <<>>
  BY DEF TInv, RequestOK, NoRequest
<1>2. req.todo \in Seq(Ports)
  BY <1>1 DEF Requests
<1> QED
  BY <1>1, <1>2

(* One entry of a function of VLANs and ports changes.                     *)
LEMMA EntryChanges ==
  ASSUME NEW S, NEW f \in [Vlans -> [Ports -> S]], NEW v \in Vlans, NEW p \in Ports,
         NEW x \in S
  PROVE  /\ [f EXCEPT ![v][p] = x] \in [Vlans -> [Ports -> S]]
         /\ [f EXCEPT ![v][p] = x][v][p] = x
         /\ \A w \in Vlans, q \in Ports :
              <<w, q>> # <<v, p>> => [f EXCEPT ![v][p] = x][w][q] = f[w][q]
OBVIOUS

LEMMA InitTInv == Init => TInv
<1> SUFFICES ASSUME Init PROVE TInv
  OBVIOUS
<1>1. RequestOK /\ PollOK
  BY DEF Init, RequestOK, PollOK, Waiting
<1>2. OutsideOK /\ StaticOK
  BY DEF Init, OutsideOK, StaticOK, Tags, Heard
<1>3. CachedOK /\ RestOK
  BY DEF Init, CachedOK, RestOK
<1>4. QueueOK
  BY DEF Init, QueueOK
<1> QED
  BY <1>1, <1>2, <1>3, <1>4 DEF TInv

(* A new request.                                                          *)
LEMMA BeginRequest ==
  ASSUME TInv, handle_configs_fs
  PROVE  RequestOK'
<1>1. ASSUME NEW at \in RequestSteps \ {"idle", "cache", "clear"},
             NEW op \in {"create", "delete"}, NEW v \in Vlans, NEW ports \in Seq(Ports),
             NEW val \in {0, 1}, NEW grp \in Groups \cup {None},
             at = "group" => grp \in Groups /\ ports # <<>>,
             Begin(at, op, v, ports, val, grp)
      PROVE  RequestOK'
  <2>1. CASE req' = req
    BY <2>1 DEF TInv, RequestOK
  <2>2. CASE req' = [at |-> at, op |-> op, br |-> v, todo |-> ports,
                     info |-> member[v], val |-> val, grp |-> grp]
    <3>1. member[v] \in [Ports -> Tags]
      BY DEF TInv, OutsideOK
    <3>2. req' \in Requests
      BY <1>1, <2>2, <3>1 DEF Requests, RequestSteps
    <3>3. req'.at = at /\ req'.todo = ports /\ req'.grp = grp
      BY <2>2
    <3>4. at \notin {"cache", "clear"}
      OBVIOUS
    <3> QED
      BY <1>1, <3>2, <3>3, <3>4 DEF RequestOK
  <2> QED
    BY <1>1, <2>1, <2>2 DEF Begin
<1>2. PICK v \in Vlans, op \in {"create", "delete"} :
        \/ \E ports \in RouterLists : Begin("router", op, v, ports, 0, None)
        \/ \E p \in Ports, g \in Groups : Begin("group", op, v, <<p>>, 0, g)
        \/ Begin("flush", op, v, <<>>, 0, None)
        \/ Begin("write", op, v, <<>>, 1, None)
  BY DEF handle_configs_fs
<1>3. ASSUME NEW ports \in RouterLists, Begin("router", op, v, ports, 0, None)
      PROVE  RequestOK'
  <2>1. ports \in Seq(Ports)
    BY RouterListsAssumption
  <2>2. "router" \in RequestSteps \ {"idle", "cache", "clear"}
    BY DEF RequestSteps
  <2> QED
    BY <1>1, <1>3, <2>1, <2>2
<1>4. ASSUME NEW p \in Ports, NEW g \in Groups, Begin("group", op, v, <<p>>, 0, g)
      PROVE  RequestOK'
  <2>1. <<p>> \in Seq(Ports) /\ <<p>> # <<>>
    OBVIOUS
  <2>2. "group" \in RequestSteps \ {"idle", "cache", "clear"}
    BY DEF RequestSteps
  <2> QED
    BY <1>1, <1>4, <2>1, <2>2
<1>5. CASE Begin("flush", op, v, <<>>, 0, None)
  <2>1. "flush" \in RequestSteps \ {"idle", "cache", "clear"}
    BY DEF RequestSteps
  <2>2. <<>> \in Seq(Ports)
    OBVIOUS
  <2> QED
    BY <1>1, <1>5, <2>1, <2>2
<1>6. CASE Begin("write", op, v, <<>>, 1, None)
  <2>1. "write" \in RequestSteps \ {"idle", "cache", "clear"}
    BY DEF RequestSteps
  <2>2. <<>> \in Seq(Ports)
    OBVIOUS
  <2> QED
    BY <1>1, <1>6, <2>1, <2>2
<1> QED
  BY <1>2, <1>3, <1>4, <1>5, <1>6

(* A request that goes on to another step keeps the rest, or drops its     *)
(* first port.                                                             *)
LEMMA RequestGoesOn ==
  ASSUME TInv, req.at # "idle", NEW at \in RequestSteps \ {"group"},
         \/ /\ req' = [req EXCEPT !.at = at]
            /\ at \in {"cache", "clear"} => req.todo # <<>>
            /\ at = "cache" => req.info[Head(req.todo)] # "no"
         \/ /\ req' = [req EXCEPT !.at = at, !.todo = Tail(@)]
            /\ req.todo # <<>> /\ at = "router"
  PROVE  RequestOK'
<1>1. req \in Requests /\ (req.todo # <<>> => Tail(req.todo) \in Seq(Ports))
  BY RequestAt
<1>2. CASE req' = [req EXCEPT !.at = at]
  <2>1. req' \in Requests /\ req'.at = at /\ req'.todo = req.todo /\ req'.info = req.info
    BY <1>1, <1>2 DEF Requests
  <2> QED
    BY <2>1 DEF RequestOK
<1>3. CASE req' = [req EXCEPT !.at = at, !.todo = Tail(@)] /\ req.todo # <<>> /\ at = "router"
  <2>1. req' \in Requests /\ req'.at = "router"
    BY <1>1, <1>3 DEF Requests
  <2> QED
    BY <2>1 DEF RequestOK
<1> QED
  BY <1>2, <1>3

LEMMA RequestStep ==
  ASSUME TInv, [Next]_vars
  PROVE  RequestOK'
<1>1. CASE UNCHANGED req
  BY <1>1 DEF TInv, RequestOK
<1>2. CASE req' = NoRequest
  BY <1>2 DEF RequestOK
<1>3. CASE handle_configs_fs
  BY <1>3, BeginRequest
<1>4. CASE StaticMrouter
  <2>1. req.at = "router"
    BY <1>4 DEF StaticMrouter
  <2>2. CASE req.todo = <<>> \/ req.info[Head(req.todo)] = "no"
    BY <1>2, <1>4, <2>2 DEF StaticMrouter, EndMrouterRequest
  <2>3. CASE ~(req.todo = <<>> \/ req.info[Head(req.todo)] = "no")
    <3>1. \/ req' = [req EXCEPT !.at = "clear"]
          \/ req' = [req EXCEPT !.todo = Tail(@)]
          \/ req' = [req EXCEPT !.at = "cache"]
      BY <1>4, <2>3 DEF StaticMrouter
    <3>2. {"clear", "cache", "router"} \subseteq RequestSteps \ {"group"}
      BY DEF RequestSteps
    <3>3. CASE req' = [req EXCEPT !.at = "clear"]
      BY <2>1, <2>3, <3>2, <3>3, RequestGoesOn
    <3>4. CASE req' = [req EXCEPT !.at = "cache"]
      BY <2>1, <2>3, <3>2, <3>4, RequestGoesOn
    <3>5. CASE req' = [req EXCEPT !.todo = Tail(@)]
      <4>1. req' \in Requests /\ req'.at = "router"
        BY <2>1, <2>3, <3>5, RequestAt DEF Requests
      <4> QED
        BY <4>1 DEF RequestOK
    <3> QED
      BY <3>1, <3>3, <3>4, <3>5
  <2> QED
    BY <2>2, <2>3
<1>5. CASE update_static_mrouter_cache \/ clear_static_mrouter_cache
  <2>1. req.at \in {"cache", "clear"} /\ req' = [req EXCEPT !.at = "router", !.todo = Tail(@)]
    BY <1>5 DEF update_static_mrouter_cache, clear_static_mrouter_cache
  <2>2. req.todo # <<>>
    BY <2>1, RequestAt
  <2>3. "router" \in RequestSteps \ {"group"}
    BY DEF RequestSteps
  <2> QED
    BY <2>1, <2>2, <2>3, RequestGoesOn
<1>6. CASE StaticGroup \/ PublishSnooping
  BY <1>6, <1>2 DEF StaticGroup, PublishSnooping
<1>7. CASE flush_cache
  <2>1. req.at = "flush" /\ req' = [req EXCEPT !.at = "write"]
    BY <1>7 DEF flush_cache
  <2>2. "write" \in RequestSteps \ {"group"} /\ "write" \notin {"cache", "clear"}
    BY DEF RequestSteps
  <2> QED
    BY <2>1, <2>2, RequestGoesOn
<1>8. CASE SetSnooping
  <2>1. req.at = "write" /\ req' = [req EXCEPT !.at = "publish"]
    BY <1>8 DEF SetSnooping
  <2>2. "publish" \in RequestSteps \ {"group"} /\ "publish" \notin {"cache", "clear"}
    BY DEF RequestSteps
  <2> QED
    BY <2>1, <2>2, RequestGoesOn
<1>9. CASE Polling
  BY <1>9, <1>1 DEF Polling, StartPolling, apply_static_mrouter_configs,
       get_igmp_snooping_route, UpdateMrouters, UpdateGroups, QueueEmpty, SetHashMax
<1>10. CASE ChangeMember \/ KernelFollows \/ LearnOrAge \/ ChangeKnown \/ GraceEnds
  BY <1>10, <1>1 DEF ChangeMember, KernelFollows, LearnOrAge, ChangeKnown, GraceEnds
<1>11. CASE UNCHANGED vars
  BY <1>11, <1>1 DEF vars
<1> QED
  BY <1>3, <1>4, <1>5, <1>6, <1>7, <1>8, <1>9, <1>10, <1>11 DEF Next, Handling

LEMMA PollStep ==
  ASSUME TInv, [Next]_vars
  PROVE  PollOK'
<1>1. CASE UNCHANGED poll
  BY <1>1 DEF TInv, PollOK
<1>2. Waiting \in [at : {"start", "apply", "mrouters", "groups", "wait"},
                   mrouters : SUBSET Mrouters, groups : SUBSET Entries,
                   todo : SUBSET Mrouters, vlan_map : SUBSET Vlans]
  BY DEF Waiting
<1>3. CASE StartPolling
  <2>1. get_all_static_mrouter_cache \subseteq Mrouters
    BY DEF get_all_static_mrouter_cache, Mrouters
  <2>2. poll' = [Waiting EXCEPT !.at = "apply", !.todo = get_all_static_mrouter_cache]
    BY <1>3 DEF StartPolling
  <2> QED
    BY <1>2, <2>1, <2>2 DEF PollOK
<1>4. CASE apply_static_mrouter_configs
  <2>1. PICK m \in poll.todo : poll' = [poll EXCEPT !.todo = @ \ {m}]
    BY <1>4 DEF apply_static_mrouter_configs
  <2> QED
    BY <2>1 DEF TInv, PollOK
<1>5. CASE get_igmp_snooping_route
  <2>1. ShownMrouters \subseteq Mrouters /\ ShownGroups \subseteq Entries
    BY DEF ShownMrouters, ShownGroups, Mrouters, TInv, OutsideOK
  <2>2. \/ poll' = Waiting
        \/ poll' = [poll EXCEPT !.at = "mrouters", !.mrouters = ShownMrouters,
                                !.groups = ShownGroups]
    BY <1>5 DEF get_igmp_snooping_route, Leave
  <2> QED
    BY <1>2, <2>1, <2>2 DEF TInv, PollOK
<1>6. CASE UpdateMrouters
  <2> DEFINE changed == (mrouter_set \ poll.mrouters) \cup (poll.mrouters \ mrouter_set)
  <2>1. poll' = [poll EXCEPT !.at = "groups",
                   !.vlan_map = @ \cup (VlansOf(changed) \cap Resolved)]
    BY <1>6 DEF UpdateMrouters
  <2>2. Resolved \subseteq Vlans
    BY DEF Resolved, TInv, PollOK, OutsideOK
  <2> HIDE DEF changed
  <2> QED
    BY <2>1, <2>2 DEF TInv, PollOK
<1>7. CASE UpdateGroups
  BY <1>7, <1>2 DEF UpdateGroups, Leave, PollOK
<1>8. CASE QueueEmpty \/ SetHashMax
  <2>1. poll' = poll \/ poll' = [poll EXCEPT !.at = "start"]
    BY <1>8 DEF QueueEmpty, SetHashMax, PollNow
  <2> QED
    BY <2>1 DEF TInv, PollOK
<1>9. CASE handle_configs_fs
  BY <1>9, <1>1 DEF handle_configs_fs, Begin
<1>10. CASE Handling
  BY <1>10, <1>1 DEF Handling, StaticMrouter, update_static_mrouter_cache,
       clear_static_mrouter_cache, StaticGroup, flush_cache, SetSnooping, PublishSnooping
<1>11. CASE ChangeMember \/ KernelFollows \/ LearnOrAge \/ ChangeKnown \/ GraceEnds
  BY <1>11, <1>1 DEF ChangeMember, KernelFollows, LearnOrAge, ChangeKnown, GraceEnds
<1>12. CASE UNCHANGED vars
  BY <1>12, <1>1 DEF vars
<1> QED
  BY <1>3, <1>4, <1>5, <1>6, <1>7, <1>8, <1>9, <1>10, <1>11, <1>12 DEF Next, Polling

(* The three steps that write the kernel's router ports for the program.   *)
LEMMA OutsideStep ==
  ASSUME TInv, [Next]_vars
  PROVE  OutsideOK'
<1>1. CASE UNCHANGED <<nasVars, kernelVars>>
  BY <1>1 DEF TInv, OutsideOK, nasVars, kernelVars
<1>2. CASE StaticMrouter
  <2>1. UNCHANGED <<known, member, brif, mdb, snooping, grace, hash_max>>
    BY <1>2 DEF StaticMrouter, nasVars
  <2>2. router' \in [Vlans -> [Ports -> {1, 2, Heard}]]
    <3>1. CASE req.todo = <<>> \/ req.info[Head(req.todo)] = "no"
      BY <1>2, <3>1 DEF StaticMrouter, EndMrouterRequest, TInv, OutsideOK
    <3>2. CASE ~(req.todo = <<>> \/ req.info[Head(req.todo)] = "no")
      <4> DEFINE v == req.br
                 p == Head(req.todo)
      <4>1. v \in Vlans /\ p \in Ports
        BY <1>2, <3>2, RequestAt DEF StaticMrouter, Requests
      <4>2. router \in [Vlans -> [Ports -> {1, 2, Heard}]]
        BY DEF TInv, OutsideOK
      <4>3. PICK x : /\ router' = [router EXCEPT ![v][p] = x]
                     /\ x \in {router[v][p], 1, 2}
        <5>1. router' = [router EXCEPT ![v][p] =
                           IF ~FileExists(v, p, req.info[p]) THEN @
                           ELSE IF req.op = "create" THEN 2
                           ELSE IF @ = 2 THEN 1 ELSE @]
          BY <1>2, <3>2 DEF StaticMrouter
        <5> QED
          BY <5>1
      <4>4. x \in {1, 2, Heard}
        BY <4>1, <4>2, <4>3
      <4> HIDE DEF v, p
      <4> QED
        BY <4>1, <4>2, <4>3, <4>4, EntryChanges
    <3> QED
      BY <3>1, <3>2
  <2> QED
    BY <2>1, <2>2 DEF TInv, OutsideOK
<1>3. CASE apply_static_mrouter_configs
  <2>1. UNCHANGED <<known, member, brif, mdb, snooping, grace, hash_max>>
    BY <1>3 DEF apply_static_mrouter_configs, nasVars
  <2>2. PICK m \in poll.todo : router' = [router EXCEPT ![m[1]][m[2]] = 2] \/ router' = router
    BY <1>3 DEF apply_static_mrouter_configs
  <2>3. m[1] \in Vlans /\ m[2] \in Ports
    BY <2>2 DEF TInv, PollOK, Mrouters
  <2>4. router \in [Vlans -> [Ports -> {1, 2, Heard}]]
    BY DEF TInv, OutsideOK
  <2>5. router' \in [Vlans -> [Ports -> {1, 2, Heard}]]
    BY <2>2, <2>3, <2>4, EntryChanges
  <2> QED
    BY <2>1, <2>5 DEF TInv, OutsideOK
<1>4. CASE StaticGroup
  <2>1. UNCHANGED <<known, member, brif, router, snooping, grace, hash_max>>
    BY <1>4 DEF StaticGroup, nasVars
  <2>2. req.br \in Vlans /\ Head(req.todo) \in Ports /\ req.grp \in Groups
    BY <1>4, RequestAt DEF StaticGroup, Requests, TInv, RequestOK, NoRequest
  <2>3. <<req.br, Head(req.todo), req.grp>> \in Entries
    BY <2>2 DEF Entries
  <2>4. mdb' \subseteq Entries
    BY <1>4, <2>3 DEF StaticGroup, TInv, OutsideOK
  <2> QED
    BY <2>1, <2>4 DEF TInv, OutsideOK
<1>5. CASE SetSnooping
  <2>1. UNCHANGED <<known, member, brif, router, mdb, hash_max>>
    BY <1>5 DEF SetSnooping, nasVars
  <2>2. req.br \in Vlans
    BY <1>5, RequestAt DEF SetSnooping, Requests
  <2>3. snooping' \in [Vlans -> BOOLEAN] /\ grace' \subseteq Vlans
    BY <1>5, <2>2 DEF SetSnooping, TInv, OutsideOK
  <2> QED
    BY <2>1, <2>3 DEF TInv, OutsideOK
<1>6. CASE SetHashMax
  <2>1. UNCHANGED <<known, member, brif, router, mdb, snooping, grace>>
    BY <1>6 DEF SetHashMax, nasVars
  <2>2. Head(hashmax_cfg_q) \in Tasks
    BY <1>6 DEF SetHashMax, TInv, QueueOK
  <2>3. hash_max' \subseteq Vlans
    BY <1>6, <2>2 DEF SetHashMax, TInv, OutsideOK, Tasks
  <2> QED
    BY <2>1, <2>3 DEF TInv, OutsideOK
<1>7. CASE ChangeMember
  <2>1. UNCHANGED <<known, brif, router, mdb, snooping, grace, hash_max>>
    BY <1>7 DEF ChangeMember, kernelVars
  <2>2. PICK v \in Vlans, p \in Ports, t \in Tags : member' = [member EXCEPT ![v][p] = t]
    BY <1>7 DEF ChangeMember
  <2>3. member' \in [Vlans -> [Ports -> Tags]]
    BY <2>2, EntryChanges DEF TInv, OutsideOK
  <2> QED
    BY <2>1, <2>3 DEF TInv, OutsideOK
<1>8. CASE KernelFollows
  <2>1. UNCHANGED <<known, member, snooping, grace, hash_max>>
    BY <1>8 DEF KernelFollows, nasVars
  <2>2. PICK v \in Vlans, p \in Ports :
          /\ brif' = [brif EXCEPT ![v][p] = member[v][p]]
          /\ router' = [router EXCEPT ![v][p] = 1]
          /\ mdb' = {g \in mdb : ~(g[1] = v /\ g[2] = p)}
    BY <1>8 DEF KernelFollows
  <2>3. member[v][p] \in Tags /\ 1 \in {1, 2, Heard}
    BY DEF TInv, OutsideOK
  <2>4. /\ brif \in [Vlans -> [Ports -> Tags]]
        /\ router \in [Vlans -> [Ports -> {1, 2, Heard}]]
    BY DEF TInv, OutsideOK
  <2>5. brif' \in [Vlans -> [Ports -> Tags]]
    BY <2>2, <2>3, <2>4, EntryChanges
  <2>6. router' \in [Vlans -> [Ports -> {1, 2, Heard}]]
    BY <2>2, <2>3, <2>4, EntryChanges
  <2> QED
    BY <2>1, <2>2, <2>5, <2>6 DEF TInv, OutsideOK
<1>9. CASE LearnOrAge
  <2>1. UNCHANGED <<known, member, brif, snooping, grace, hash_max>>
    BY <1>9 DEF LearnOrAge, nasVars
  <2>2. mdb' \subseteq Entries
    <3>1. \/ mdb' \subseteq mdb
          \/ \E v \in Vlans, p \in Ports, g \in Groups : mdb' = mdb \cup {<<v, p, g>>}
      BY <1>9 DEF LearnOrAge
    <3> QED
      BY <3>1 DEF TInv, OutsideOK, Entries
  <2>3. router' \in [Vlans -> [Ports -> {1, 2, Heard}]]
    <3>1. \/ router' = router
          \/ \E v \in Vlans, p \in Ports, x \in {1, Heard} : router' = [router EXCEPT ![v][p] = x]
      BY <1>9 DEF LearnOrAge
    <3>2. router \in [Vlans -> [Ports -> {1, 2, Heard}]]
      BY DEF TInv, OutsideOK
    <3>3. ASSUME NEW v \in Vlans, NEW p \in Ports, NEW x \in {1, Heard},
                 router' = [router EXCEPT ![v][p] = x]
          PROVE  router' \in [Vlans -> [Ports -> {1, 2, Heard}]]
      <4>1. x \in {1, 2, Heard}
        OBVIOUS
      <4> QED
        BY <3>2, <3>3, <4>1, EntryChanges
    <3> QED
      BY <3>1, <3>2, <3>3
  <2> QED
    BY <2>1, <2>2, <2>3 DEF TInv, OutsideOK
<1>10. CASE ChangeKnown \/ GraceEnds
  BY <1>10 DEF ChangeKnown, GraceEnds, TInv, OutsideOK, nasVars, kernelVars
<1>11. CASE handle_configs_fs
  BY <1>11, <1>1 DEF handle_configs_fs, Begin
<1>12. CASE update_static_mrouter_cache \/ clear_static_mrouter_cache \/ flush_cache
              \/ PublishSnooping
  BY <1>12, <1>1 DEF update_static_mrouter_cache, clear_static_mrouter_cache, flush_cache,
       PublishSnooping
<1>13. CASE StartPolling \/ get_igmp_snooping_route \/ UpdateMrouters \/ UpdateGroups
              \/ QueueEmpty
  BY <1>13, <1>1 DEF StartPolling, get_igmp_snooping_route, UpdateMrouters, UpdateGroups,
       QueueEmpty
<1>14. CASE UNCHANGED vars
  BY <1>14, <1>1 DEF vars
<1> QED
  BY <1>2, <1>3, <1>4, <1>5, <1>6, <1>7, <1>8, <1>9, <1>10, <1>11, <1>12, <1>13, <1>14
  DEF Next, Handling, Polling

LEMMA StaticStep ==
  ASSUME TInv, [Next]_vars
  PROVE  StaticOK'
<1>1. CASE UNCHANGED static_mrouter_set
  BY <1>1 DEF TInv, StaticOK
<1>2. CASE update_static_mrouter_cache \/ clear_static_mrouter_cache
  <2> DEFINE v == req.br
             p == Head(req.todo)
  <2>1. req.at # "idle" /\ req.at \in {"cache", "clear", "group"}
    BY <1>2 DEF update_static_mrouter_cache, clear_static_mrouter_cache
  <2>2. v \in Vlans /\ p \in Ports /\ req.info \in [Ports -> Tags]
    BY <2>1, RequestAt DEF Requests
  <2>3. static_mrouter_set \in [Vlans -> [Ports -> Tags]]
    BY DEF TInv, StaticOK
  <2>4. PICK x \in {"no", req.info[p], static_mrouter_set[v][p]} :
          static_mrouter_set' = [static_mrouter_set EXCEPT ![v][p] = x]
    BY <1>2 DEF update_static_mrouter_cache, clear_static_mrouter_cache, Forget
  <2>5. x \in Tags
    BY <2>2, <2>3, <2>4 DEF Tags
  <2> HIDE DEF v, p
  <2> QED
    BY <2>2, <2>3, <2>4, <2>5, EntryChanges DEF StaticOK
<1>3. CASE apply_static_mrouter_configs
  <2>1. PICK m \in poll.todo :
          \/ static_mrouter_set' = [static_mrouter_set EXCEPT ![m[1]][m[2]] = "no"]
          \/ static_mrouter_set' = static_mrouter_set
    BY <1>3 DEF apply_static_mrouter_configs
  <2>2. m[1] \in Vlans /\ m[2] \in Ports /\ "no" \in Tags
    BY <2>1 DEF TInv, PollOK, Mrouters, Tags
  <2>3. static_mrouter_set \in [Vlans -> [Ports -> Tags]]
    BY DEF TInv, StaticOK
  <2>4. [static_mrouter_set EXCEPT ![m[1]][m[2]] = "no"] \in [Vlans -> [Ports -> Tags]]
    BY <2>2, <2>3, EntryChanges
  <2> QED
    BY <2>1, <2>3, <2>4 DEF StaticOK
<1>4. CASE handle_configs_fs
  BY <1>4, <1>1 DEF handle_configs_fs, Begin
<1>5. CASE StaticMrouter \/ StaticGroup \/ flush_cache \/ SetSnooping \/ PublishSnooping
  BY <1>5, <1>1 DEF StaticMrouter, StaticGroup, flush_cache, SetSnooping, PublishSnooping
<1>6. CASE StartPolling \/ get_igmp_snooping_route \/ UpdateMrouters \/ UpdateGroups
             \/ QueueEmpty \/ SetHashMax
  BY <1>6, <1>1 DEF StartPolling, get_igmp_snooping_route, UpdateMrouters, UpdateGroups,
       QueueEmpty, SetHashMax
<1>7. CASE ChangeMember \/ KernelFollows \/ LearnOrAge \/ ChangeKnown \/ GraceEnds
  BY <1>7, <1>1 DEF ChangeMember, KernelFollows, LearnOrAge, ChangeKnown, GraceEnds
<1>8. CASE UNCHANGED vars
  BY <1>8, <1>1 DEF vars
<1> QED
  BY <1>2, <1>3, <1>4, <1>5, <1>6, <1>7, <1>8 DEF Next, Handling, Polling

LEMMA CachedStep ==
  ASSUME TInv, [Next]_vars
  PROVE  CachedOK'
<1>1. CASE UNCHANGED <<cacheVars, subVars>>
  BY <1>1 DEF TInv, CachedOK, cacheVars, subVars
<1>2. CASE flush_cache
  <2>1. req.br \in Vlans
    BY <1>2, RequestAt DEF flush_cache, Requests
  <2>2. /\ mrouter_set' \subseteq mrouter_set /\ group_set' \subseteq group_set
        /\ br_mrouter_map' = [br_mrouter_map EXCEPT ![req.br] = {}]
        /\ br_group_map' = [br_group_map EXCEPT ![req.br] = {}]
        /\ UNCHANGED subVars
    BY <1>2 DEF flush_cache, KeptMrouters, KeptGroups
  <2> QED
    BY <2>1, <2>2 DEF TInv, CachedOK, subVars
<1>3. CASE PublishSnooping
  <2>1. UNCHANGED cacheVars
    BY <1>3 DEF PublishSnooping
  <2>2. sub_mrouters' \subseteq sub_mrouters /\ sub_groups' \subseteq sub_groups
    BY <1>3 DEF PublishSnooping, subVars
  <2> QED
    BY <2>1, <2>2 DEF TInv, CachedOK, cacheVars
<1>4. CASE UpdateMrouters
  <2>1. UNCHANGED <<group_set, br_group_map, sub_groups>>
    BY <1>4 DEF UpdateMrouters
  <2>2. mrouter_set' = poll.mrouters /\ poll.mrouters \subseteq Mrouters
    BY <1>4 DEF UpdateMrouters, TInv, PollOK
  <2>3. sub_mrouters' \subseteq sub_mrouters \cup poll.mrouters
    BY <1>4 DEF UpdateMrouters
  <2>4. br_mrouter_map' \in [Vlans -> SUBSET Ports]
    BY <1>4 DEF UpdateMrouters, TInv, CachedOK
  <2> QED
    BY <2>1, <2>2, <2>3, <2>4 DEF TInv, CachedOK
<1>5. CASE UpdateGroups
  <2>1. UNCHANGED <<mrouter_set, br_mrouter_map, sub_mrouters>>
    BY <1>5 DEF UpdateGroups
  <2>2. group_set' = poll.groups /\ poll.groups \subseteq Entries
    BY <1>5 DEF UpdateGroups, TInv, PollOK
  <2>3. sub_groups' \subseteq sub_groups \cup poll.groups
    BY <1>5 DEF UpdateGroups
  <2>4. br_group_map' \in [Vlans -> SUBSET Entries]
    BY <1>5, <2>2 DEF UpdateGroups, TInv, CachedOK
  <2> QED
    BY <2>1, <2>2, <2>3, <2>4 DEF TInv, CachedOK
<1>6. CASE handle_configs_fs
  BY <1>6, <1>1 DEF handle_configs_fs, Begin
<1>7. CASE StaticMrouter \/ StaticGroup \/ update_static_mrouter_cache
             \/ clear_static_mrouter_cache \/ SetSnooping
  BY <1>7, <1>1 DEF StaticMrouter, StaticGroup, update_static_mrouter_cache,
       clear_static_mrouter_cache, SetSnooping
<1>8. CASE StartPolling \/ get_igmp_snooping_route \/ apply_static_mrouter_configs
             \/ QueueEmpty \/ SetHashMax
  BY <1>8, <1>1 DEF StartPolling, get_igmp_snooping_route, apply_static_mrouter_configs,
       QueueEmpty, SetHashMax
<1>9. CASE ChangeMember \/ KernelFollows \/ LearnOrAge \/ ChangeKnown \/ GraceEnds
  BY <1>9, <1>1 DEF ChangeMember, KernelFollows, LearnOrAge, ChangeKnown, GraceEnds
<1>10. CASE UNCHANGED vars
  BY <1>10, <1>1 DEF vars
<1> QED
  BY <1>2, <1>3, <1>4, <1>5, <1>6, <1>7, <1>8, <1>9, <1>10 DEF Next, Handling, Polling

(* A task goes back to the queue only with fewer than MaxTry tries.        *)
LEMMA QueueStep ==
  ASSUME TInv, [Next]_vars
  PROVE  QueueOK'
<1>1. CASE UNCHANGED hashmax_cfg_q
  BY <1>1 DEF TInv, QueueOK
<1>2. CASE PublishSnooping
  <2>1. req.br \in Vlans
    BY <1>2, RequestAt DEF PublishSnooping, Requests
  <2>2. [br |-> req.br, try |-> 0] \in Tasks
    BY <2>1, MaxTryAssumption DEF Tasks
  <2>3. hashmax_cfg_q' \in {hashmax_cfg_q, Append(hashmax_cfg_q, [br |-> req.br, try |-> 0])}
    BY <1>2 DEF PublishSnooping
  <2> HIDE DEF Tasks
  <2> QED
    BY <2>2, <2>3 DEF TInv, QueueOK
<1>3. CASE SetHashMax
  <2> DEFINE task == Head(hashmax_cfg_q)
             tries == task.try + 1
             again == [task EXCEPT !.try = tries]
  <2>1. /\ hashmax_cfg_q # <<>>
        /\ \/ hashmax_cfg_q' = Append(Tail(hashmax_cfg_q), again) /\ TryAgain(tries)
           \/ hashmax_cfg_q' = Tail(hashmax_cfg_q)
    BY <1>3 DEF SetHashMax
  <2>2. task \in Tasks /\ Tail(hashmax_cfg_q) \in Seq(Tasks)
    BY <2>1 DEF TInv, QueueOK
  <2>3. TryAgain(tries) => again \in Tasks
    <3>1. task.br \in Vlans /\ task.try \in 0 .. MaxTry - 1
      BY <2>2 DEF Tasks
    <3>2. again = [br |-> task.br, try |-> tries]
      BY <2>2 DEF Tasks
    <3>3. TryAgain(tries) => tries \in 0 .. MaxTry - 1
      BY <3>1, MaxTryAssumption DEF TryAgain
    <3> QED
      BY <3>1, <3>2, <3>3 DEF Tasks
  <2> HIDE DEF task, tries, again
  <2> QED
    BY <2>1, <2>2, <2>3 DEF QueueOK
<1>4. CASE handle_configs_fs
  BY <1>4, <1>1 DEF handle_configs_fs, Begin
<1>5. CASE Handling /\ ~PublishSnooping
  BY <1>5, <1>1 DEF Handling, StaticMrouter, StaticGroup, update_static_mrouter_cache,
       clear_static_mrouter_cache, SetSnooping, flush_cache
<1>6. CASE Polling /\ ~SetHashMax
  BY <1>6, <1>1 DEF Polling, StartPolling, get_igmp_snooping_route,
       apply_static_mrouter_configs, QueueEmpty, UpdateMrouters, UpdateGroups
<1>7. CASE ChangeMember \/ KernelFollows \/ LearnOrAge \/ ChangeKnown \/ GraceEnds
  BY <1>7, <1>1 DEF ChangeMember, KernelFollows, LearnOrAge, ChangeKnown, GraceEnds
<1>8. CASE UNCHANGED vars
  BY <1>8, <1>1 DEF vars
<1> QED
  BY <1>2, <1>3, <1>4, <1>5, <1>6, <1>7, <1>8 DEF Next

LEMMA RestStep ==
  ASSUME TInv, [Next]_vars
  PROVE  RestOK'
<1>1. CASE UNCHANGED <<lock, histVars>>
  BY <1>1 DEF TInv, RestOK, histVars
<1>2. CASE StaticMrouter
  <2>1. UNCHANGED <<lock, tainted>>
    BY <1>2 DEF StaticMrouter
  <2>2. CASE EndMrouterRequest
    <3>1. req.at # "idle"
      BY <1>2 DEF StaticMrouter
    <3>2. req.br \in Vlans /\ req.todo \in Seq(Ports)
      BY <3>1, RequestAt DEF Requests
    <3>3. LeftOf(req.todo) \subseteq Mrouters
      BY <3>2 DEF LeftOf, Mrouters
    <3> QED
      BY <2>1, <2>2, <3>3 DEF EndMrouterRequest, TInv, RestOK
  <2>3. CASE ~EndMrouterRequest
    <3>1. PICK asked : gone' = gone \ asked /\ spoiled' = spoiled \ asked
      BY <1>2, <2>3 DEF StaticMrouter
    <3>2. undone' \subseteq undone
      BY <1>2, <2>3 DEF StaticMrouter
    <3> QED
      BY <2>1, <3>1, <3>2 DEF TInv, RestOK
  <2> QED
    BY <2>2, <2>3
<1>3. CASE clear_static_mrouter_cache
  <2>1. req.br \in Vlans /\ Head(req.todo) \in Ports
    BY <1>3, RequestAt DEF clear_static_mrouter_cache, Requests
  <2>2. <<req.br, Head(req.todo)>> \in Mrouters
    BY <2>1 DEF Mrouters
  <2> QED
    BY <1>3, <2>2 DEF clear_static_mrouter_cache, TInv, RestOK
<1>4. CASE StartPolling \/ get_igmp_snooping_route
  BY <1>4 DEF StartPolling, get_igmp_snooping_route, Leave, TInv, RestOK, histVars
<1>5. CASE apply_static_mrouter_configs
  <2>1. PICK m \in poll.todo : undone' \in {undone, undone \cup {m}}
    BY <1>5 DEF apply_static_mrouter_configs
  <2>2. m \in Mrouters
    BY <2>1 DEF TInv, PollOK
  <2> QED
    BY <1>5, <2>1, <2>2 DEF apply_static_mrouter_configs, TInv, RestOK
<1>6. CASE UpdateMrouters \/ UpdateGroups
  <2>1. PICK changed : /\ tainted' = tainted \cup Overtaken(changed)
                       /\ changed \subseteq Mrouters \/ changed \subseteq Entries
    <3>1. CASE UpdateMrouters
      <4> DEFINE changed == (mrouter_set \ poll.mrouters) \cup (poll.mrouters \ mrouter_set)
      <4>1. tainted' = tainted \cup Overtaken(changed)
        BY <3>1 DEF UpdateMrouters
      <4>2. changed \subseteq Mrouters
        BY DEF TInv, CachedOK, PollOK
      <4> QED
        BY <4>1, <4>2
    <3>2. CASE UpdateGroups
      <4> DEFINE changed == (group_set \ poll.groups) \cup (poll.groups \ group_set)
      <4>1. tainted' = tainted \cup Overtaken(changed)
        BY <3>2 DEF UpdateGroups
      <4>2. changed \subseteq Entries
        BY DEF TInv, CachedOK, PollOK
      <4> QED
        BY <4>1, <4>2
    <3> QED
      BY <1>6, <3>1, <3>2
  <2>2. VlansOf(changed) \subseteq Vlans
    BY <2>1 DEF VlansOf, Mrouters, Entries
  <2>3. Overtaken(changed) \subseteq Vlans
    BY <2>2 DEF Overtaken
  <2> QED
    BY <1>6, <2>1, <2>3 DEF UpdateMrouters, UpdateGroups, Leave, TInv, RestOK
<1>7. CASE handle_configs_fs
  BY <1>7, <1>1 DEF handle_configs_fs, Begin
<1>8. CASE update_static_mrouter_cache \/ StaticGroup \/ flush_cache \/ SetSnooping
             \/ PublishSnooping
  BY <1>8, <1>1 DEF update_static_mrouter_cache, StaticGroup, flush_cache, SetSnooping,
       PublishSnooping
<1>9. CASE QueueEmpty \/ SetHashMax
  BY <1>9, <1>1 DEF QueueEmpty, SetHashMax
<1>10. CASE ChangeMember \/ KernelFollows \/ LearnOrAge \/ ChangeKnown \/ GraceEnds
  BY <1>10, <1>1 DEF ChangeMember, KernelFollows, LearnOrAge, ChangeKnown, GraceEnds
<1>11. CASE UNCHANGED vars
  BY <1>11, <1>1 DEF vars
<1> QED
  BY <1>2, <1>3, <1>4, <1>5, <1>6, <1>7, <1>8, <1>9, <1>10, <1>11 DEF Next, Handling, Polling

LEMMA NextTInv == TInv /\ [Next]_vars => TInv'
<1> SUFFICES ASSUME TInv, [Next]_vars PROVE TInv'
  OBVIOUS
<1> QED
  BY RequestStep, PollStep, OutsideStep, StaticStep, CachedStep, QueueStep, RestStep DEF TInv

-----------------------------------------------------------------------------
(* DeletedStaysDeletedUnlessSpoiled is not inductive: whether the port     *)
(* that a delete adds to gone is set in the kernel was settled some steps  *)
(* before.  Either the delete wrote the file; or the name it had asked for *)
(* when it began was no longer the port's, so that the kernel has followed *)
(* a change of membership since, with which the port came back unset; or   *)
(* the delete found no name, and the port of a kernel that has followed is *)
(* none.  What a round has done since is in undone.                        *)
Unset(v, p) ==
  brif[v][p] = member[v][p] => router[v][p] # 2 \/ <<v, p>> \in undone

PortsLeft(todo) == {todo[i] : i \in DOMAIN todo}

IsDelete == req.op = "delete" /\ req.at \in {"router", "clear"}

(* A delete whose name is no longer the port's finds the port unset.       *)
RenamedUnset ==
  IsDelete => \A p \in PortsLeft(req.todo) : brif[req.br][p] # req.info[p] => Unset(req.br, p)

(* A port whose entry a delete is about to forget is unset.                *)
ClearedUnset == req.at = "clear" => req.op = "delete" /\ Unset(req.br, Head(req.todo))

(* A port that is about to be remembered was asked for.                    *)
RememberedAskedFor ==
  req.at = "cache" => req.op = "create" /\ <<req.br, Head(req.todo)>> \notin gone

(* What is no port of a bridge has no setting.                             *)
NoPortUnset == \A v \in Vlans, p \in Ports : brif[v][p] = "no" => router[v][p] # 2

DInv ==
  /\ DeletedStaysDeletedUnlessSpoiled /\ NoPortUnset
  /\ RenamedUnset /\ ClearedUnset /\ RememberedAskedFor

(* What Head and Tail are of the ports left.                               *)
LEMMA LeftOfTail ==
  ASSUME NEW todo \in Seq(Ports), todo # <<>>
  PROVE  Head(todo) \in PortsLeft(todo) /\ PortsLeft(Tail(todo)) \subseteq PortsLeft(todo)
<1>1. Len(todo) \in Nat /\ Len(todo) >= 1 /\ DOMAIN todo = 1 .. Len(todo)
  OBVIOUS
<1>2. Head(todo) = todo[1]
  OBVIOUS
<1>3. ASSUME NEW i \in DOMAIN Tail(todo)
      PROVE  i + 1 \in DOMAIN todo /\ Tail(todo)[i] = todo[i + 1]
  BY <1>1
<1> QED
  BY <1>1, <1>2, <1>3 DEF PortsLeft

LEMMA PortsLeftArePorts == ASSUME NEW todo \in Seq(Ports) PROVE PortsLeft(todo) \subseteq Ports
BY DEF PortsLeft

(* Outside of the requests of static router ports, a port of a kernel that *)
(* has followed is set only if it was, or if a round applied it, which a   *)
(* delete under way is told.                                               *)
LEMMA SetByRound ==
  ASSUME TInv, [Next]_vars, ~StaticMrouter, NEW v \in Vlans, NEW p \in Ports,
         brif'[v][p] = member'[v][p], router'[v][p] = 2
  PROVE  /\ brif'[v][p] = brif[v][p] /\ member'[v][p] = member[v][p]
         /\ \/ router[v][p] = 2
            \/ /\ static_mrouter_set[v][p] # "no"
               /\ IsDelete /\ req.br = v /\ p \in PortsLeft(req.todo) => <<v, p>> \in undone'
<1>1. /\ member \in [Vlans -> [Ports -> Tags]] /\ brif \in [Vlans -> [Ports -> Tags]]
      /\ router \in [Vlans -> [Ports -> {1, 2, Heard}]]
  BY DEF TInv, OutsideOK
<1>2. CASE UNCHANGED <<member, brif, router>>
  BY <1>2
<1>3. CASE apply_static_mrouter_configs
  <2>1. UNCHANGED <<member, brif>>
    BY <1>3 DEF apply_static_mrouter_configs, nasVars
  <2>2. PICK m \in poll.todo :
          IF FileExists(m[1], m[2], static_mrouter_set[m[1]][m[2]])
            THEN /\ router' = [router EXCEPT ![m[1]][m[2]] = 2]
                 /\ undone' = IF /\ req.op = "delete" /\ req.at \in {"router", "clear"}
                                 /\ req.br = m[1]
                                 /\ \E i \in DOMAIN req.todo : req.todo[i] = m[2]
                                THEN undone \cup {m} ELSE undone
            ELSE UNCHANGED router
    BY <1>3 DEF apply_static_mrouter_configs
  <2>3. m \in Mrouters
    BY <2>2 DEF TInv, PollOK
  <2>4. m = <<m[1], m[2]>> /\ m[1] \in Vlans /\ m[2] \in Ports
    BY <2>3 DEF Mrouters
  <2>5. CASE UNCHANGED router
    BY <2>1, <2>5
  <2>6. CASE m = <<v, p>> /\ router' # router
    <3>1. FileExists(v, p, static_mrouter_set[v][p])
      BY <2>2, <2>6
    <3>2. static_mrouter_set[v][p] # "no"
      BY <3>1 DEF FileExists
    <3>3. IsDelete /\ req.br = v /\ p \in PortsLeft(req.todo) => <<v, p>> \in undone'
      BY <2>2, <2>6, <3>1 DEF IsDelete, PortsLeft
    <3> QED
      BY <2>1, <3>2, <3>3
  <2>7. CASE m # <<v, p>> /\ router' # router
    <3> DEFINE w == m[1]
               q == m[2]
    <3>1. router' = [router EXCEPT ![w][q] = 2] /\ <<v, p>> # <<w, q>>
      BY <2>2, <2>4, <2>7
    <3>2. w \in Vlans /\ q \in Ports /\ 2 \in {1, 2, Heard}
      BY <2>4
    <3> HIDE DEF w, q
    <3>3. router'[v][p] = router[v][p]
      BY <1>1, <3>1, <3>2, EntryChanges
    <3> QED
      BY <2>1, <3>3
  <2> QED
    BY <2>5, <2>6, <2>7
<1>4. CASE ChangeMember
  <2>1. UNCHANGED <<brif, router>>
    BY <1>4 DEF ChangeMember, kernelVars
  <2>2. PICK w \in Vlans, q \in Ports, t \in Tags :
          /\ brif[w][q] = member[w][q] /\ t # member[w][q]
          /\ member' = [member EXCEPT ![w][q] = t]
    BY <1>4 DEF ChangeMember
  <2>3. member'[w][q] = t /\ (<<v, p>> # <<w, q>> => member'[v][p] = member[v][p])
    BY <1>1, <2>2, EntryChanges
  <2>4. <<v, p>> # <<w, q>>
    BY <2>1, <2>2, <2>3
  <2> QED
    BY <2>1, <2>3, <2>4
<1>5. CASE KernelFollows
  <2>1. UNCHANGED member
    BY <1>5 DEF KernelFollows, nasVars
  <2>2. PICK w \in Vlans, q \in Ports :
          /\ brif' = [brif EXCEPT ![w][q] = member[w][q]]
          /\ router' = [router EXCEPT ![w][q] = 1]
    BY <1>5 DEF KernelFollows
  <2>3. member[w][q] \in Tags /\ 1 \in {1, 2, Heard}
    BY <1>1
  <2>4. router'[w][q] = 1 /\ (<<v, p>> # <<w, q>> => router'[v][p] = router[v][p])
    BY <1>1, <2>2, <2>3, EntryChanges
  <2>5. <<v, p>> # <<w, q>> => brif'[v][p] = brif[v][p]
    BY <1>1, <2>2, <2>3, EntryChanges
  <2>6. <<v, p>> # <<w, q>>
    BY <2>4
  <2> QED
    BY <2>1, <2>4, <2>5, <2>6
<1>6. CASE LearnOrAge
  <2>1. UNCHANGED <<member, brif>>
    BY <1>6 DEF LearnOrAge, nasVars
  <2>2. \/ router' = router
        \/ \E w \in Vlans, q \in Ports, x \in {1, Heard} : router' = [router EXCEPT ![w][q] = x]
    BY <1>6 DEF LearnOrAge
  <2>3. ASSUME NEW w \in Vlans, NEW q \in Ports, NEW x \in {1, Heard},
               router' = [router EXCEPT ![w][q] = x]
        PROVE  router[v][p] = 2
    <3>1. x \in {1, 2, Heard} /\ x # 2
      BY DEF Heard
    <3>2. router'[w][q] = x /\ (<<v, p>> # <<w, q>> => router'[v][p] = router[v][p])
      BY <1>1, <2>3, <3>1, EntryChanges
    <3> QED
      BY <3>1, <3>2
  <2>4. router[v][p] = 2
    BY <2>2, <2>3
  <2> QED
    BY <2>1, <2>4
<1>7. CASE handle_configs_fs
  BY <1>7, <1>2 DEF handle_configs_fs, Begin, nasVars, kernelVars
<1>8. CASE Handling /\ ~StaticMrouter
  BY <1>8, <1>2 DEF Handling, StaticGroup, update_static_mrouter_cache,
       clear_static_mrouter_cache, SetSnooping, flush_cache, PublishSnooping, nasVars, kernelVars
<1>9. CASE Polling /\ ~apply_static_mrouter_configs
  BY <1>9, <1>2 DEF Polling, StartPolling, get_igmp_snooping_route, UpdateMrouters,
       UpdateGroups, QueueEmpty, SetHashMax, nasVars, kernelVars
<1>10. CASE ChangeKnown \/ GraceEnds
  BY <1>10, <1>2 DEF ChangeKnown, GraceEnds, kernelVars, nasVars
<1>11. CASE UNCHANGED vars
  BY <1>11, <1>2 DEF vars, nasVars, kernelVars
<1> QED
  BY <1>3, <1>4, <1>5, <1>6, <1>7, <1>8, <1>9, <1>10, <1>11 DEF Next

(* What a round has done to a delete is only forgotten by the delete.      *)
LEMMA UndoneKept ==
  ASSUME [Next]_vars, ~StaticMrouter
  PROVE  undone \subseteq undone'
<1>1. CASE UNCHANGED histVars
  BY <1>1 DEF histVars
<1>2. CASE handle_configs_fs
  BY <1>2, <1>1 DEF handle_configs_fs, Begin
<1>3. CASE Handling /\ ~StaticMrouter
  BY <1>3, <1>1 DEF Handling, StaticGroup, update_static_mrouter_cache,
       clear_static_mrouter_cache, SetSnooping, flush_cache, PublishSnooping
<1>4. CASE Polling
  BY <1>4, <1>1 DEF Polling, StartPolling, get_igmp_snooping_route, UpdateMrouters,
       UpdateGroups, QueueEmpty, SetHashMax, apply_static_mrouter_configs
<1>5. CASE ChangeMember \/ KernelFollows \/ LearnOrAge \/ ChangeKnown \/ GraceEnds
  BY <1>5, <1>1 DEF ChangeMember, KernelFollows, LearnOrAge, ChangeKnown, GraceEnds
<1>6. CASE UNCHANGED vars
  BY <1>6, <1>1 DEF vars
<1> QED
  BY <1>2, <1>3, <1>4, <1>5, <1>6 DEF Next

(* So a port that a delete leaves unset stays so while the delete lasts.   *)
LEMMA UnsetKept ==
  ASSUME TInv, [Next]_vars, ~StaticMrouter, IsDelete, req.br \in Vlans,
         NEW p \in PortsLeft(req.todo) \cap Ports,
         \/ Unset(req.br, p)
         \/ brif'[req.br][p] # req.info[p]
            /\ (brif[req.br][p] # req.info[p] => Unset(req.br, p))
  PROVE  LET v == req.br
         IN  brif'[v][p] = member'[v][p] => router'[v][p] # 2 \/ <<v, p>> \in undone'
<1> DEFINE v == req.br
<1>1. SUFFICES ASSUME brif'[v][p] = member'[v][p], router'[v][p] = 2
               PROVE  <<v, p>> \in undone'
  OBVIOUS
<1>2. /\ brif'[v][p] = brif[v][p] /\ member'[v][p] = member[v][p]
      /\ router[v][p] = 2 \/ <<v, p>> \in undone'
  BY <1>1, SetByRound
<1>3. Unset(v, p)
  BY <1>2
<1>4. undone \subseteq undone'
  BY UndoneKept
<1> QED
  BY <1>1, <1>2, <1>3, <1>4 DEF Unset

(* Only update_static_mrouter_cache remembers a port.                      *)
LEMMA OnlyCacheRemembers ==
  ASSUME TInv, [Next]_vars, NEW v \in Vlans, NEW p \in Ports,
         static_mrouter_set[v][p] = "no",
         ~(update_static_mrouter_cache /\ req.br = v /\ Head(req.todo) = p)
  PROVE  static_mrouter_set'[v][p] = "no"
<1>1. static_mrouter_set \in [Vlans -> [Ports -> Tags]] /\ "no" \in Tags
  BY DEF TInv, StaticOK, Tags
<1>2. CASE UNCHANGED static_mrouter_set
  BY <1>2
<1>3. ASSUME NEW w \in Vlans, NEW q \in Ports, NEW x \in Tags,
             static_mrouter_set' = [static_mrouter_set EXCEPT ![w][q] = x],
             x = "no" \/ <<v, p>> # <<w, q>>
      PROVE  static_mrouter_set'[v][p] = "no"
  <2>1. static_mrouter_set'[w][q] = x
    BY <1>1, <1>3, EntryChanges
  <2>2. <<v, p>> # <<w, q>> => static_mrouter_set'[v][p] = static_mrouter_set[v][p]
    BY <1>1, <1>3, EntryChanges
  <2> QED
    BY <1>3, <2>1, <2>2
<1>4. CASE update_static_mrouter_cache \/ clear_static_mrouter_cache
  <2> DEFINE w == req.br
             q == Head(req.todo)
  <2>1. req.at # "idle" /\ req.at \in {"cache", "clear", "group"}
    BY <1>4 DEF update_static_mrouter_cache, clear_static_mrouter_cache
  <2>2. w \in Vlans /\ q \in Ports /\ req.info \in [Ports -> Tags]
    BY <2>1, RequestAt DEF Requests
  <2>3. PICK x \in {"no", req.info[q], static_mrouter_set[w][q]} :
          /\ static_mrouter_set' = [static_mrouter_set EXCEPT ![w][q] = x]
          /\ clear_static_mrouter_cache => x = "no"
    <3>1. CASE clear_static_mrouter_cache
      BY <3>1 DEF clear_static_mrouter_cache, Forget
    <3>2. CASE update_static_mrouter_cache /\ ~clear_static_mrouter_cache
      BY <3>2 DEF update_static_mrouter_cache
    <3> QED
      BY <1>4, <3>1, <3>2
  <2>4. x \in Tags
    BY <1>1, <2>2, <2>3
  <2>5. x = "no" \/ <<v, p>> # <<w, q>>
    BY <1>4, <2>3
  <2> HIDE DEF w, q
  <2> QED
    BY <1>3, <2>2, <2>3, <2>4, <2>5
<1>5. CASE apply_static_mrouter_configs
  <2>1. PICK m \in poll.todo :
          \/ static_mrouter_set' = [static_mrouter_set EXCEPT ![m[1]][m[2]] = "no"]
          \/ static_mrouter_set' = static_mrouter_set
    BY <1>5 DEF apply_static_mrouter_configs
  <2>2. m[1] \in Vlans /\ m[2] \in Ports
    BY <2>1 DEF TInv, PollOK, Mrouters
  <2> QED
    BY <1>1, <1>2, <1>3, <2>1, <2>2
<1>6. CASE handle_configs_fs
  BY <1>6, <1>2 DEF handle_configs_fs, Begin
<1>7. CASE StaticMrouter \/ StaticGroup \/ flush_cache \/ SetSnooping \/ PublishSnooping
  BY <1>7, <1>2 DEF StaticMrouter, StaticGroup, flush_cache, SetSnooping, PublishSnooping
<1>8. CASE StartPolling \/ get_igmp_snooping_route \/ UpdateMrouters \/ UpdateGroups
             \/ QueueEmpty \/ SetHashMax
  BY <1>8, <1>2 DEF StartPolling, get_igmp_snooping_route, UpdateMrouters, UpdateGroups,
       QueueEmpty, SetHashMax
<1>9. CASE ChangeMember \/ KernelFollows \/ LearnOrAge \/ ChangeKnown \/ GraceEnds
  BY <1>9, <1>2 DEF ChangeMember, KernelFollows, LearnOrAge, ChangeKnown, GraceEnds
<1>10. CASE UNCHANGED vars
  BY <1>10, <1>2 DEF vars
<1> QED
  BY <1>4, <1>5, <1>6, <1>7, <1>8, <1>9, <1>10 DEF Next, Handling, Polling

(* Only a port of the bridge can be set.                                   *)
LEMMA NoPortStep ==
  ASSUME TInv, NoPortUnset, [Next]_vars
  PROVE  NoPortUnset'
<1>1. /\ member \in [Vlans -> [Ports -> Tags]] /\ brif \in [Vlans -> [Ports -> Tags]]
      /\ router \in [Vlans -> [Ports -> {1, 2, Heard}]]
  BY DEF TInv, OutsideOK
<1>2. CASE UNCHANGED <<brif, router>>
  BY <1>2 DEF NoPortUnset
<1>3. ASSUME UNCHANGED brif, NEW w \in Vlans, NEW q \in Ports, NEW x \in {1, 2, Heard},
             router' = [router EXCEPT ![w][q] = x],
             x # 2 \/ router[w][q] = 2 \/ brif[w][q] # "no"
      PROVE  NoPortUnset'
  <2>1. router'[w][q] = x
    BY <1>1, <1>3, EntryChanges
  <2>2. ASSUME NEW v \in Vlans, NEW p \in Ports, <<v, p>> # <<w, q>>
        PROVE  router'[v][p] = router[v][p]
    BY <1>1, <1>3, <2>2, EntryChanges
  <2> QED
    BY <1>3, <2>1, <2>2 DEF NoPortUnset
<1>4. CASE StaticMrouter
  <2>1. CASE UNCHANGED router
    BY <1>2, <1>4, <2>1 DEF StaticMrouter
  <2>2. CASE ~(req.todo = <<>> \/ req.info[Head(req.todo)] = "no")
    <3> DEFINE w == req.br
               q == Head(req.todo)
               written == FileExists(w, q, req.info[q])
               x == IF ~written THEN router[w][q] ELSE IF req.op = "create" THEN 2
                    ELSE IF router[w][q] = 2 THEN 1 ELSE router[w][q]
    <3>1. w \in Vlans /\ q \in Ports
      BY <1>4, <2>2, RequestAt DEF StaticMrouter, Requests
    <3>2. router' = [router EXCEPT ![w][q] = x] /\ UNCHANGED brif
      BY <1>4, <2>2 DEF StaticMrouter
    <3>3. x \in {1, 2, Heard} /\ (x # 2 \/ router[w][q] = 2 \/ brif[w][q] # "no")
      BY <1>1, <3>1 DEF FileExists
    <3> HIDE DEF w, q, x
    <3> QED
      BY <1>3, <3>1, <3>2, <3>3
  <2> QED
    BY <1>4, <2>1, <2>2 DEF StaticMrouter, EndMrouterRequest
<1>5. CASE apply_static_mrouter_configs
  <2>1. PICK m \in poll.todo :
          \/ UNCHANGED router
          \/ /\ FileExists(m[1], m[2], static_mrouter_set[m[1]][m[2]])
             /\ router' = [router EXCEPT ![m[1]][m[2]] = 2]
    BY <1>5 DEF apply_static_mrouter_configs
  <2>2. m[1] \in Vlans /\ m[2] \in Ports /\ UNCHANGED brif
    BY <1>5, <2>1 DEF apply_static_mrouter_configs, TInv, PollOK, Mrouters
  <2>3. ASSUME FileExists(m[1], m[2], static_mrouter_set[m[1]][m[2]]) PROVE brif[m[1]][m[2]] # "no"
    BY <2>3 DEF FileExists
  <2> QED
    BY <1>2, <1>3, <2>1, <2>2, <2>3
<1>6. CASE KernelFollows
  <2>1. PICK w \in Vlans, q \in Ports :
          /\ brif' = [brif EXCEPT ![w][q] = member[w][q]]
          /\ router' = [router EXCEPT ![w][q] = 1]
    BY <1>6 DEF KernelFollows
  <2>2. member[w][q] \in Tags /\ 1 \in {1, 2, Heard}
    BY <1>1
  <2>3. router'[w][q] = 1
    BY <1>1, <2>1, <2>2, EntryChanges
  <2>4. ASSUME NEW v \in Vlans, NEW p \in Ports, <<v, p>> # <<w, q>>
        PROVE  router'[v][p] = router[v][p] /\ brif'[v][p] = brif[v][p]
    BY <1>1, <2>1, <2>2, <2>4, EntryChanges
  <2> QED
    BY <2>3, <2>4 DEF NoPortUnset
<1>7. CASE LearnOrAge
  <2>1. \/ router' = router
        \/ \E w \in Vlans, q \in Ports, x \in {1, Heard} : router' = [router EXCEPT ![w][q] = x]
    BY <1>7 DEF LearnOrAge
  <2>2. UNCHANGED brif /\ \A x \in {1, Heard} : x \in {1, 2, Heard} /\ x # 2
    BY <1>7 DEF LearnOrAge, Heard
  <2> QED
    BY <1>2, <1>3, <2>1, <2>2
<1>8. CASE handle_configs_fs
  BY <1>8, <1>2 DEF handle_configs_fs, Begin, kernelVars
<1>9. CASE Handling /\ ~StaticMrouter
  BY <1>9, <1>2 DEF Handling, StaticGroup, update_static_mrouter_cache,
       clear_static_mrouter_cache, SetSnooping, flush_cache, PublishSnooping, kernelVars
<1>10. CASE Polling /\ ~apply_static_mrouter_configs
  BY <1>10, <1>2 DEF Polling, StartPolling, get_igmp_snooping_route, UpdateMrouters,
       UpdateGroups, QueueEmpty, SetHashMax, kernelVars
<1>11. CASE ChangeMember \/ ChangeKnown \/ GraceEnds
  BY <1>11, <1>2 DEF ChangeMember, ChangeKnown, GraceEnds, kernelVars
<1>12. CASE UNCHANGED vars
  BY <1>12, <1>2 DEF vars, kernelVars
<1> QED
  BY <1>4, <1>5, <1>6, <1>7, <1>8, <1>9, <1>10, <1>11, <1>12 DEF Next

(* What was deleted before, in a step that is not a router request's first. *)
LEMMA GoneKept ==
  ASSUME TInv, DInv, [Next]_vars, ~StaticMrouter, NEW m \in gone \ spoiled
  PROVE  LET v == m[1]
             p == m[2]
         IN  /\ static_mrouter_set'[v][p] = "no"
             /\ brif'[v][p] = member'[v][p] => router'[v][p] # 2
<1> DEFINE v == m[1]
           p == m[2]
<1>1. m = <<v, p>> /\ v \in Vlans /\ p \in Ports
  BY DEF TInv, RestOK, Mrouters
<1>2. /\ static_mrouter_set[v][p] = "no"
      /\ brif[v][p] = member[v][p] => router[v][p] # 2
  BY DEF DInv, DeletedStaysDeletedUnlessSpoiled, Remembered
<1>3. ~(update_static_mrouter_cache /\ req.br = v /\ Head(req.todo) = p)
  BY <1>1 DEF update_static_mrouter_cache, DInv, RememberedAskedFor
<1> HIDE DEF v, p
<1>4. static_mrouter_set'[v][p] = "no"
  BY <1>1, <1>2, <1>3, OnlyCacheRemembers
<1>5. brif'[v][p] = member'[v][p] => router'[v][p] # 2
  BY <1>1, <1>2, SetByRound
<1> QED
  BY <1>4, <1>5 DEF v, p

(* The steps in which a request is neither begun nor handles router ports. *)
LEMMA OtherKeepsDInv ==
  ASSUME TInv, DInv, [Next]_vars, ~handle_configs_fs, ~StaticMrouter,
         ~update_static_mrouter_cache, ~clear_static_mrouter_cache
  PROVE  DInv'
<1>0. NoPortUnset'
  BY NoPortStep DEF DInv
<1>1. UNCHANGED <<gone, spoiled>> /\ (req' = req \/ req'.at \in {"idle", "write", "publish"})
  <2>1. CASE UNCHANGED <<gone, spoiled, req>>
    BY <2>1
  <2>2. CASE StaticGroup \/ PublishSnooping
    BY <2>2 DEF StaticGroup, PublishSnooping, histVars, NoRequest
  <2>3. CASE flush_cache \/ SetSnooping
    <3>1. req \in Requests
      BY <2>3, RequestAt DEF flush_cache, SetSnooping
    <3> QED
      BY <2>3, <3>1 DEF flush_cache, SetSnooping, histVars, Requests
  <2>4. CASE Polling
    BY <2>4, <2>1 DEF Polling, StartPolling, get_igmp_snooping_route, UpdateMrouters,
         UpdateGroups, QueueEmpty, SetHashMax, apply_static_mrouter_configs, histVars
  <2>5. CASE ChangeMember \/ KernelFollows \/ LearnOrAge \/ ChangeKnown \/ GraceEnds
    BY <2>5, <2>1 DEF ChangeMember, KernelFollows, LearnOrAge, ChangeKnown, GraceEnds, histVars
  <2>6. CASE UNCHANGED vars
    BY <2>6, <2>1 DEF vars, histVars
  <2> QED
    BY <2>2, <2>3, <2>4, <2>5, <2>6 DEF Next, Handling
<1>2. DeletedStaysDeletedUnlessSpoiled'
  BY <1>1, GoneKept DEF DeletedStaysDeletedUnlessSpoiled, Remembered
<1>3. CASE req'.at \in {"idle", "write", "publish"}
  BY <1>0, <1>2, <1>3 DEF DInv, RenamedUnset, ClearedUnset, RememberedAskedFor, IsDelete
<1>4. CASE req' = req
  <2>1. RememberedAskedFor'
    BY <1>1, <1>4 DEF DInv, RememberedAskedFor
  <2>2. ASSUME req.at # "idle"
        PROVE  /\ req \in Requests /\ req.br \in Vlans
               /\ PortsLeft(req.todo) \subseteq Ports
               /\ req.at = "clear" => Head(req.todo) \in PortsLeft(req.todo)
    <3>1. req \in Requests /\ (req.at = "clear" => req.todo # <<>>)
      BY <2>2, RequestAt
    <3>2. req.todo \in Seq(Ports) /\ req.br \in Vlans
      BY <3>1 DEF Requests
    <3> QED
      BY <3>1, <3>2, PortsLeftArePorts, LeftOfTail
  <2>3. RenamedUnset'
    <3>1. SUFFICES ASSUME IsDelete, NEW p \in PortsLeft(req.todo), brif'[req.br][p] # req.info[p]
                   PROVE  Unset(req.br, p)'
      BY <1>4 DEF RenamedUnset, IsDelete
    <3>2. req.br \in Vlans /\ p \in PortsLeft(req.todo) \cap Ports
      BY <2>2, <3>1 DEF IsDelete
    <3>3. brif[req.br][p] # req.info[p] => Unset(req.br, p)
      BY <3>1 DEF DInv, RenamedUnset
    <3>4. brif'[req.br][p] = member'[req.br][p]
            => router'[req.br][p] # 2 \/ <<req.br, p>> \in undone'
      BY <3>1, <3>2, <3>3, UnsetKept
    <3> QED
      BY <1>4, <3>4 DEF Unset
  <2>4. ClearedUnset'
    <3>1. SUFFICES ASSUME req.at = "clear"
                   PROVE  req.op = "delete" /\ Unset(req.br, Head(req.todo))'
      BY <1>4 DEF ClearedUnset
    <3> DEFINE p == Head(req.todo)
    <3>2. req.op = "delete" /\ Unset(req.br, p)
      BY <3>1 DEF DInv, ClearedUnset
    <3>3. IsDelete /\ req.br \in Vlans /\ p \in PortsLeft(req.todo) \cap Ports
      BY <2>2, <3>1, <3>2 DEF IsDelete
    <3>4. brif'[req.br][p] = member'[req.br][p]
            => router'[req.br][p] # 2 \/ <<req.br, p>> \in undone'
      BY <3>2, <3>3, UnsetKept
    <3> QED
      BY <1>4, <3>2, <3>4 DEF Unset
  <2> QED
    BY <1>0, <1>2, <2>1, <2>3, <2>4 DEF DInv
<1> QED
  BY <1>1, <1>3, <1>4

(* A request begins with the membership of the moment: a port whose file   *)
(* has another name has yet to be changed by the kernel.                   *)
LEMMA BeginKeepsDInv ==
  ASSUME TInv, DInv, [Next]_vars, handle_configs_fs
  PROVE  DInv'
<1>0. PICK at \in RequestSteps \ {"idle", "cache", "clear"}, v \in Vlans :
        \E op, ports, val, grp : Begin(at, op, v, ports, val, grp)
  BY DEF handle_configs_fs, RequestSteps
<1>1. PICK op, ports, val, grp : Begin(at, op, v, ports, val, grp)
  BY <1>0
<1>2. ~StaticMrouter /\ req.at = "idle" /\ UNCHANGED <<member, brif, gone, spoiled>>
  BY <1>1 DEF Begin, StaticMrouter, nasVars, kernelVars, histVars
<1>3. DeletedStaysDeletedUnlessSpoiled'
  BY <1>2, GoneKept DEF DeletedStaysDeletedUnlessSpoiled, Remembered
<1>4. req'.at \notin {"cache", "clear"}
  BY <1>1, <1>2 DEF Begin
<1>5. RenamedUnset'
  <2>1. CASE req' = req
    BY <1>2, <2>1 DEF RenamedUnset, IsDelete
  <2>2. CASE req' # req
    <3>1. req'.br = v /\ req'.info = member[v]
      BY <1>1, <2>2 DEF Begin
    <3> QED
      BY <1>2, <3>1 DEF RenamedUnset, Unset
  <2> QED
    BY <2>1, <2>2
<1> QED
  BY <1>3, <1>4, <1>5, NoPortStep DEF DInv, ClearedUnset, RememberedAskedFor

(* A port that could not be written is remembered; it was asked for.       *)
LEMMA RememberKeepsDInv ==
  ASSUME TInv, DInv, [Next]_vars, update_static_mrouter_cache
  PROVE  DInv'
<1>1. /\ req.at = "cache" /\ ~StaticMrouter /\ UNCHANGED <<gone, spoiled>>
      /\ req' = [req EXCEPT !.at = "router", !.todo = Tail(@)]
  BY DEF update_static_mrouter_cache, StaticMrouter, histVars
<1>2. DeletedStaysDeletedUnlessSpoiled'
  BY <1>1, GoneKept DEF DeletedStaysDeletedUnlessSpoiled, Remembered
<1>3. req \in Requests
  BY <1>1, RequestAt
<1>4. req'.at = "router" /\ req'.op = "create"
  BY <1>1, <1>3 DEF Requests, DInv, RememberedAskedFor
<1> QED
  BY <1>2, <1>4, NoPortStep DEF DInv, RenamedUnset, ClearedUnset, RememberedAskedFor, IsDelete

(* The port of a delete joins gone, forgotten and unset.                   *)
LEMMA ClearKeepsDInv ==
  ASSUME TInv, DInv, [Next]_vars, clear_static_mrouter_cache
  PROVE  DInv'
<1> DEFINE v == req.br
           p == Head(req.todo)
<1>1. /\ req.at = "clear" /\ ~StaticMrouter
      /\ req' = [req EXCEPT !.at = "router", !.todo = Tail(@)]
      /\ UNCHANGED <<member, brif, router, undone>>
      /\ static_mrouter_set' = [static_mrouter_set EXCEPT ![v][p] = "no"]
      /\ gone' = gone \cup {<<v, p>>}
      /\ spoiled' = (spoiled \ {<<v, p>>}) \cup ({<<v, p>>} \cap undone)
  BY DEF clear_static_mrouter_cache, StaticMrouter, Forget, nasVars, kernelVars
<1>2. req \in Requests /\ req.todo # <<>>
  BY <1>1, RequestAt
<1>3. v \in Vlans /\ p \in Ports /\ req.todo \in Seq(Ports)
  BY <1>2 DEF Requests
<1>4. /\ req'.at = "router" /\ req'.op = "delete" /\ req'.br = v /\ req'.info = req.info
      /\ req'.todo = Tail(req.todo)
  BY <1>1, <1>2 DEF Requests, DInv, ClearedUnset
<1>5. static_mrouter_set'[v][p] = "no"
  BY <1>1, <1>3 DEF TInv, StaticOK
<1>6. DeletedStaysDeletedUnlessSpoiled'
  <2>1. Unset(v, p)
    BY <1>1 DEF DInv, ClearedUnset
  <2>2. ASSUME NEW m \in gone' \ spoiled'
        PROVE  /\ static_mrouter_set'[m[1]][m[2]] = "no"
               /\ brif'[m[1]][m[2]] = member'[m[1]][m[2]] => router'[m[1]][m[2]] # 2
    <3>1. CASE m \in gone \ spoiled
      BY <1>1, <3>1, GoneKept
    <3>2. CASE m = <<v, p>> /\ m \notin undone
      BY <1>1, <1>5, <2>1, <3>2 DEF Unset
    <3> QED
      BY <1>1, <2>2, <3>1, <3>2
  <2> QED
    BY <2>2 DEF DeletedStaysDeletedUnlessSpoiled, Remembered
<1>7. RenamedUnset'
  <2>1. PortsLeft(req'.todo) \subseteq PortsLeft(req.todo)
    BY <1>2, <1>3, <1>4, LeftOfTail
  <2>2. IsDelete
    BY <1>1 DEF IsDelete, DInv, ClearedUnset
  <2> QED
    BY <1>1, <1>4, <2>1, <2>2 DEF DInv, RenamedUnset, Unset
<1> QED
  BY <1>4, <1>6, <1>7, NoPortStep DEF DInv, ClearedUnset, RememberedAskedFor

(* The first step of a router request: the file is written, or not.        *)
LEMMA StaticMrouterKeepsDInv ==
  ASSUME TInv, DInv, [Next]_vars, StaticMrouter
  PROVE  DInv'
<1>0. NoPortUnset'
  BY NoPortStep DEF DInv
<1>1. /\ req.at = "router" /\ UNCHANGED <<member, brif, static_mrouter_set>>
  BY DEF StaticMrouter, nasVars
<1>2. CASE req.todo = <<>> \/ req.info[Head(req.todo)] = "no"
  <2>1. EndMrouterRequest
    BY <1>2 DEF StaticMrouter
  <2>2. req'.at = "idle" /\ UNCHANGED router
    BY <2>1 DEF EndMrouterRequest, NoRequest
  <2>3. ASSUME NEW m \in gone' \ spoiled'
        PROVE  ~Remembered(m) /\ (brif[m[1]][m[2]] = member[m[1]][m[2]] => router[m[1]][m[2]] # 2)
    <3>1. CASE m \in gone \ spoiled
      BY <3>1 DEF DInv, DeletedStaysDeletedUnlessSpoiled
    <3>2. CASE m \notin gone \ spoiled
      <4> DEFINE v == req.br
                 p == Head(req.todo)
      <4>1. /\ req.op = "delete" /\ m \in LeftOf(req.todo)
            /\ m[2] = p /\ m \notin undone /\ ~Remembered(m)
        BY <2>1, <2>3, <3>2 DEF EndMrouterRequest
      <4>2. req.todo # <<>> /\ m[1] = v
        BY <4>1 DEF LeftOf
      <4>3. req \in Requests
        BY <1>1, RequestAt
      <4>4. v \in Vlans /\ p \in Ports /\ p \in PortsLeft(req.todo) /\ req.info[p] = "no"
        BY <1>2, <4>2, <4>3, LeftOfTail DEF Requests
      <4>5. m = <<v, p>>
        BY <4>1, <4>2 DEF LeftOf
      <4>6. IsDelete
        BY <1>1, <4>1 DEF IsDelete
      <4>7. brif[v][p] = "no" => router[v][p] # 2
        BY <4>4 DEF DInv, NoPortUnset
      <4>8. brif[v][p] # "no" => Unset(v, p)
        BY <4>4, <4>6 DEF DInv, RenamedUnset
      <4> HIDE DEF v, p
      <4> QED
        BY <4>1, <4>5, <4>7, <4>8 DEF Unset
    <3> QED
      BY <3>1, <3>2
  <2>4. DeletedStaysDeletedUnlessSpoiled'
    BY <1>1, <2>2, <2>3 DEF DeletedStaysDeletedUnlessSpoiled, Remembered
  <2> QED
    BY <1>0, <2>2, <2>4 DEF DInv, RenamedUnset, IsDelete, ClearedUnset, RememberedAskedFor
<1>3. CASE ~(req.todo = <<>> \/ req.info[Head(req.todo)] = "no")
  <2> DEFINE v == req.br
             p == Head(req.todo)
             written == FileExists(v, p, req.info[p])
             x == IF ~written THEN router[v][p] ELSE IF req.op = "create" THEN 2
                  ELSE IF router[v][p] = 2 THEN 1 ELSE router[v][p]
  <2>1. req \in Requests /\ req.todo # <<>>
    BY <1>1, <1>3, RequestAt
  <2>2. v \in Vlans /\ p \in Ports /\ req.todo \in Seq(Ports)
        /\ req.op \in {"create", "delete"}
    BY <2>1 DEF Requests
  <2>3. router \in [Vlans -> [Ports -> {1, 2, Heard}]]
    BY DEF TInv, OutsideOK
  <2>4. router' = [router EXCEPT ![v][p] = x]
    BY <1>3 DEF StaticMrouter
  <2>5. /\ gone' = IF req.op = "create" THEN gone \ {<<v, p>>} ELSE gone
        /\ spoiled' = IF req.op = "create" THEN spoiled \ {<<v, p>>} ELSE spoiled
        /\ undone' = IF written THEN undone \ {<<v, p>>} ELSE undone
        /\ req' = IF req.op = "delete" THEN [req EXCEPT !.at = "clear"]
                  ELSE IF written THEN [req EXCEPT !.todo = Tail(@)]
                  ELSE [req EXCEPT !.at = "cache"]
    BY <1>3 DEF StaticMrouter
  <2>6. x \in {1, 2, Heard}
    BY <2>2, <2>3
  <2>7. router'[v][p] = x
    <3> HIDE DEF v, p, x
    <3> QED
      BY <2>2, <2>3, <2>4, <2>6, EntryChanges
  <2>8. ASSUME NEW w \in Vlans, NEW q \in Ports, <<w, q>> # <<v, p>>
        PROVE  router'[w][q] = router[w][q]
    <3> HIDE DEF v, p, x
    <3> QED
      BY <2>2, <2>3, <2>4, <2>6, <2>8, EntryChanges
  <2>9. DeletedStaysDeletedUnlessSpoiled'
    <3>1. ASSUME NEW m \in gone' \ spoiled'
          PROVE  /\ static_mrouter_set'[m[1]][m[2]] = "no"
                 /\ brif'[m[1]][m[2]] = member'[m[1]][m[2]] => router'[m[1]][m[2]] # 2
      <4>1. /\ m \in gone \ spoiled /\ m = <<m[1], m[2]>> /\ m[1] \in Vlans /\ m[2] \in Ports
            /\ req.op = "create" => m # <<v, p>>
        BY <2>5, <3>1 DEF TInv, RestOK, Mrouters
      <4>2. /\ static_mrouter_set[m[1]][m[2]] = "no"
            /\ brif[m[1]][m[2]] = member[m[1]][m[2]] => router[m[1]][m[2]] # 2
        BY <4>1 DEF DInv, DeletedStaysDeletedUnlessSpoiled, Remembered
      <4>3. CASE m # <<v, p>>
        BY <1>1, <2>8, <4>1, <4>2, <4>3
      <4>4. CASE m = <<v, p>>
        <5>1. req.op # "create" /\ (router[v][p] # 2 => x # 2)
          BY <4>1, <4>4
        <5> QED
          BY <1>1, <2>7, <4>2, <4>4, <5>1
      <4> QED
        BY <4>3, <4>4
    <3> QED
      BY <3>1 DEF DeletedStaysDeletedUnlessSpoiled, Remembered
  <2>10. CASE req.op = "create"
    <3>1. req'.at \in {"router", "cache"} /\ req'.op = "create" /\ req'.br = v
          /\ (req'.at = "cache" => req'.todo = req.todo)
      BY <1>1, <2>1, <2>5, <2>10 DEF Requests
    <3>2. <<v, p>> \notin gone'
      BY <2>5, <2>10
    <3> QED
      BY <1>0, <2>9, <3>1, <3>2 DEF DInv, RenamedUnset, IsDelete, ClearedUnset, RememberedAskedFor
  <2>11. CASE req.op = "delete"
    <3>1. /\ req'.at = "clear" /\ req'.op = "delete" /\ req'.br = v /\ req'.todo = req.todo
          /\ req'.info = req.info
      BY <2>1, <2>5, <2>11 DEF Requests
    <3>2. IsDelete /\ p \in PortsLeft(req.todo) /\ PortsLeft(req.todo) \subseteq Ports
      BY <1>1, <2>1, <2>2, <2>11, LeftOfTail, PortsLeftArePorts DEF IsDelete
    <3>3. written => x # 2
      BY <2>11
    <3>4. ~written => brif[v][p] # req.info[p]
      BY <1>3 DEF FileExists
    <3>5. Unset(v, p)'
      <4>1. CASE written
        <5>1. router'[v][p] # 2
          BY <2>7, <3>3, <4>1
        <5> QED
          BY <3>1, <5>1 DEF Unset
      <4>2. CASE ~written
        <5>1. Unset(v, p)
          BY <3>2, <3>4, <4>2 DEF DInv, RenamedUnset
        <5>2. router'[v][p] = router[v][p] /\ undone' = undone
          BY <2>5, <2>7, <4>2
        <5> QED
          BY <1>1, <3>1, <5>1, <5>2 DEF Unset
      <4> QED
        BY <4>1, <4>2
    <3>6. ASSUME NEW q \in PortsLeft(req.todo), brif[v][q] # req.info[q]
          PROVE  Unset(v, q)'
      <4>1. CASE q = p
        BY <3>1, <3>5, <4>1 DEF Unset
      <4>2. CASE q # p
        <5>1. Unset(v, q)
          BY <3>2, <3>6 DEF DInv, RenamedUnset
        <5>2. router'[v][q] = router[v][q]
          BY <2>2, <2>8, <3>2, <4>2
        <5>3. <<v, q>> \in undone => <<v, q>> \in undone'
          BY <2>5, <4>2
        <5> QED
          BY <1>1, <3>1, <5>1, <5>2, <5>3 DEF Unset
      <4> QED
        BY <4>1, <4>2
    <3>7. RenamedUnset'
      BY <1>1, <3>1, <3>6 DEF RenamedUnset
    <3>8. ClearedUnset'
      BY <3>1, <3>5 DEF ClearedUnset
    <3> QED
      BY <1>0, <2>9, <3>1, <3>7, <3>8 DEF DInv, RememberedAskedFor
  <2> QED
    BY <2>2, <2>10, <2>11
<1> QED
  BY <1>2, <1>3

LEMMA NextDInv == TInv /\ DInv /\ [Next]_vars => DInv'
BY BeginKeepsDInv, RememberKeepsDInv, ClearKeepsDInv, StaticMrouterKeepsDInv, OtherKeepsDInv

(* Every variable keeps its type; no request is left without a port where  *)
(* it reads one, no task of the queue has been tried MaxTry times.         *)
THEOREM TypesAlways == Spec => []TypeOK
<1>1. Spec => []TInv
  BY InitTInv, NextTInv, PTL DEF Spec
<1>2. TInv => TypeOK
  BY DEF TInv, OutsideOK, StaticOK, CachedOK, QueueOK, Tasks, RestOK, TypeOK
<1> QED
  BY <1>1, <1>2, PTL

(* A static router port whose delete returned success, also one that had   *)
(* left the VLAN, is neither remembered nor set again, whatever rounds and *)
(* changes of membership come in between; the deletes that a round undoes, *)
(* and those dropped with the port remembered or not looked at, excepted.  *)
THEOREM DeletedStaysDeletedAlways == Spec => []DeletedStaysDeletedUnlessSpoiled
<1>1. Init => DInv
  BY DEF Init, DInv, DeletedStaysDeletedUnlessSpoiled, NoPortUnset, RenamedUnset, IsDelete,
     ClearedUnset, RememberedAskedFor, NoRequest
<1>2. Spec => [](TInv /\ DInv)
  BY <1>1, InitTInv, NextTInv, NextDInv, PTL DEF Spec
<1>3. DInv => DeletedStaysDeletedUnlessSpoiled
  BY DEF DInv
<1> QED
  BY <1>2, <1>3, PTL
-----------------------------------------------------------------------------
(* Snooping by an application, with McastRules.                            *)

AppEvents == [op : {"create", "delete"}, v : AppVlans]

TaskShape(t) == t = [at |-> t.at, pr |-> t.pr, v |-> t.v, val |-> t.val, found |-> t.found]

AppTypes ==
  /\ AppTypeOK
  /\ TaskShape(app_req) /\ app_req.pr \in Protos /\ app_req.val \in {0, 1}
  /\ app_req.at # "idle" => app_req.v \in AppVlans
  /\ TaskShape(mon) /\ mon.pr \in Protos
  /\ mon.at \in {"idle", "read", "command"}
  /\ mon.at # "idle" => mon.v \in AppVlans

(* The deletion of a VLAN waits for the monitor; the monitor is at it.     *)
DeleteWaits(v) == \E i \in 1 .. Len(events) : events[i].op = "delete" /\ events[i].v = v

Monitored(v) == mon.at # "idle" /\ mon.v = v

Asked(e, at) == app_req.at = at /\ app_req.pr = e[1] /\ app_req.v = e[2]

(* A request that is under way about a VLAN that is gone is overtaken by   *)
(* the deletion.                                                           *)
GoneIsKnown ==
  app_req.at # "idle" /\ app_req.v \notin exists => DeleteWaits(app_req.v) \/ app_req.v \in excused

(* What is so of a VLAN about which no deletion waits: its rules are those *)
(* enabled, but for the one that a request has just changed, and a rule    *)
(* that was read is as it was read.  While the monitor is at a VLAN that   *)
(* has stayed away, the rules it has been through are gone.                *)
RuleRight(e) ==
  /\ ~Monitored(e[2]) =>
       /\ IF Asked(e, "off") THEN e \in broute <=> app_req.val = 1 ELSE e \in broute <=> e \in enabled
       /\ Asked(e, "command") => app_req.found = (e \in broute)
  /\ Monitored(e[2]) /\ e[2] \notin exists =>
       /\ mon.at = "command" /\ mon.pr = e[1] => mon.found = (e \in broute)
       /\ mon.pr = "mld" /\ e[1] = "igmp" => e \notin broute

RulesRight ==
  \A e \in Protos \X AppVlans : e[2] \notin excused /\ ~DeleteWaits(e[2]) => RuleRight(e)

(* A chain without a gap takes the mark off last.                          *)
Chains == [front : SUBSET Accepts, reset : BOOLEAN, back : SUBSET Accepts]

FullChain == [front |-> Accepts, reset |-> TRUE, back |-> {}]

InOrder(c) == c.back = {} /\ (c.reset => c.front = Accepts)

GlobRight ==
  /\ DOMAIN reported = Protos
  /\ \A pr \in Protos : pr \notin skipped => InOrder(chain[pr])
  /\ \A pr \in Protos : reported[pr] = "on" /\ pr \notin skipped => Stopped(pr)

AppInv == AppTypes /\ GoneIsKnown /\ RulesRight /\ GlobRight

(* What a request and the monitor become, field by field.                  *)
LEMMA TaskIs ==
  ASSUME NEW t, TaskShape(t), NEW f, NEW at
  PROVE  /\ [t EXCEPT !.at = at, !.found = f]
              = [at |-> at, pr |-> t.pr, v |-> t.v, val |-> t.val, found |-> f]
         /\ [t EXCEPT !.at = at]
              = [at |-> at, pr |-> t.pr, v |-> t.v, val |-> t.val, found |-> t.found]
         /\ [t EXCEPT !.at = at, !.pr = f]
              = [at |-> at, pr |-> f, v |-> t.v, val |-> t.val, found |-> t.found]
<1> DEFINE s == [t EXCEPT !.at = at]
<1>1. s = [at |-> at, pr |-> t.pr, v |-> t.v, val |-> t.val, found |-> t.found]
  BY DEF TaskShape
<1>2. /\ [t EXCEPT !.at = at, !.found = f] = [s EXCEPT !.found = f]
      /\ [t EXCEPT !.at = at, !.pr = f] = [s EXCEPT !.pr = f]
      /\ [t EXCEPT !.at = at] = s
  OBVIOUS
<1> HIDE DEF s
<1>3. /\ [s EXCEPT !.found = f] = [at |-> at, pr |-> t.pr, v |-> t.v, val |-> t.val, found |-> f]
      /\ [s EXCEPT !.pr = f] = [at |-> at, pr |-> f, v |-> t.v, val |-> t.val, found |-> t.found]
  BY <1>1
<1> QED
  BY <1>1, <1>2, <1>3

(* At rest a task is about nothing.                                        *)
LEMMA AppIdleIs ==
  /\ TaskShape(Idle) /\ Idle.at = "idle" /\ Idle.pr = "igmp" /\ Idle.val = 0
  /\ Protos = {"igmp", "mld"}
  /\ \A v : /\ TaskShape([Idle EXCEPT !.at = "read", !.v = v])
            /\ [Idle EXCEPT !.at = "read", !.v = v].at = "read"
            /\ [Idle EXCEPT !.at = "read", !.v = v].pr = "igmp"
            /\ [Idle EXCEPT !.at = "read", !.v = v].v = v
<1> DEFINE f == FALSE
<1>1. /\ Idle = [at |-> "idle", pr |-> "igmp", v |-> "none", val |-> 0, found |-> f]
      /\ Protos = {"igmp", "mld"}
  BY DEF Idle, Protos
<1> HIDE DEF f
<1>2. TaskShape(Idle)
  BY <1>1 DEF TaskShape
<1>3. ASSUME NEW v
      PROVE  /\ TaskShape([Idle EXCEPT !.at = "read", !.v = v])
             /\ [Idle EXCEPT !.at = "read", !.v = v].at = "read"
             /\ [Idle EXCEPT !.at = "read", !.v = v].pr = "igmp"
             /\ [Idle EXCEPT !.at = "read", !.v = v].v = v
  <2> DEFINE s == [Idle EXCEPT !.at = "read"]
             r == [s EXCEPT !.v = v]
  <2>1. [Idle EXCEPT !.at = "read", !.v = v] = r
    OBVIOUS
  <2>2. s = [at |-> "read", pr |-> "igmp", v |-> "none", val |-> 0, found |-> f]
    BY <1>1
  <2> HIDE DEF s
  <2>3. r = [at |-> "read", pr |-> "igmp", v |-> v, val |-> 0, found |-> f]
    BY <2>2
  <2> HIDE DEF r
  <2>4. TaskShape(r) /\ r.at = "read" /\ r.pr = "igmp" /\ r.v = v
    BY <2>3 DEF TaskShape
  <2> QED
    BY <2>1, <2>4
<1> QED
  BY <1>1, <1>2, <1>3

(* One more event: the deletions that wait are those that did, and this    *)
(* one if it is a deletion.                                                *)
LEMMA EventComes ==
  ASSUME NEW e \in AppEvents, events \in Seq(AppEvents), events' = Append(events, e)
  PROVE  /\ events' \in Seq(AppEvents)
         /\ \A v : DeleteWaits(v)' <=> DeleteWaits(v) \/ (e.op = "delete" /\ e.v = v)
<1> DEFINE n == Len(events)
<1> HIDE DEF AppEvents
<1>1. /\ events' \in Seq(AppEvents) /\ n \in Nat /\ Len(events') = n + 1 /\ events'[n + 1] = e
      /\ \A i \in 1 .. n : events'[i] = events[i]
  OBVIOUS
<1>2. ASSUME NEW v, DeleteWaits(v)' PROVE DeleteWaits(v) \/ (e.op = "delete" /\ e.v = v)
  <2>1. PICK i \in 1 .. Len(events') : events'[i].op = "delete" /\ events'[i].v = v
    BY <1>2 DEF DeleteWaits
  <2>2. CASE i = n + 1
    BY <1>1, <2>1, <2>2
  <2>3. CASE i # n + 1
    <3>1. i \in 1 .. n
      BY <1>1, <2>1, <2>3
    <3> QED
      BY <1>1, <2>1, <3>1 DEF DeleteWaits
  <2> QED
    BY <2>2, <2>3
<1>3. ASSUME NEW v, DeleteWaits(v) PROVE DeleteWaits(v)'
  <2>1. PICK i \in 1 .. n : events[i].op = "delete" /\ events[i].v = v
    BY <1>3 DEF DeleteWaits
  <2>2. i \in 1 .. Len(events') /\ events'[i] = events[i]
    BY <1>1, <2>1
  <2> QED
    BY <2>1, <2>2 DEF DeleteWaits
<1>4. ASSUME NEW v, e.op = "delete", e.v = v PROVE DeleteWaits(v)'
  <2>1. n + 1 \in 1 .. Len(events')
    BY <1>1
  <2> QED
    BY <1>1, <1>4, <2>1 DEF DeleteWaits
<1> QED
  BY <1>1, <1>2, <1>3, <1>4

(* The monitor takes the oldest event: the same deletions wait, but for    *)
(* the VLAN of the event if that is a deletion.                            *)
LEMMA EventGoes ==
  ASSUME events \in Seq(AppEvents), events # <<>>, events' = Tail(events)
  PROVE  /\ events' \in Seq(AppEvents) /\ Head(events) \in AppEvents
         /\ \A v : \/ DeleteWaits(v)' <=> DeleteWaits(v)
                   \/ Head(events).op = "delete" /\ Head(events).v = v
<1> DEFINE n == Len(events')
<1> HIDE DEF AppEvents
<1>1. /\ events' \in Seq(AppEvents) /\ Head(events) \in AppEvents
      /\ n \in Nat /\ Len(events) = n + 1 /\ events[1] = Head(events)
      /\ \A i \in 1 .. n : events'[i] = events[i + 1]
  OBVIOUS
<1>2. ASSUME NEW v, DeleteWaits(v)' PROVE DeleteWaits(v)
  <2>1. PICK i \in 1 .. n : events'[i].op = "delete" /\ events'[i].v = v
    BY <1>2 DEF DeleteWaits
  <2>2. i + 1 \in 1 .. Len(events) /\ events'[i] = events[i + 1]
    BY <1>1, <2>1
  <2> QED
    BY <2>1, <2>2 DEF DeleteWaits
<1>3. ASSUME NEW v, DeleteWaits(v), ~(Head(events).op = "delete" /\ Head(events).v = v)
      PROVE  DeleteWaits(v)'
  <2>1. PICK i \in 1 .. Len(events) : events[i].op = "delete" /\ events[i].v = v
    BY <1>3 DEF DeleteWaits
  <2>2. i # 1
    BY <1>1, <1>3, <2>1
  <2>3. i - 1 \in 1 .. n /\ (i - 1) + 1 = i
    BY <1>1, <2>1, <2>2
  <2>4. events'[i - 1] = events[i]
    BY <1>1, <2>3
  <2> QED
    BY <2>1, <2>3, <2>4 DEF DeleteWaits
<1> QED
  BY <1>1, <1>2, <1>3

(* A command about <<pr, v>> given what was found: it leaves other rules   *)
(* alone, and the rule is as asked if it succeeds and was as found.        *)
LEMMA CommandIs ==
  ASSUME NEW pr, NEW v, NEW val \in {0, 1}, NEW found, NEW ok \in BOOLEAN,
         AddOrRemove(pr, v, val, found, ok)
  PROVE  /\ \A e : e # <<pr, v>> => (e \in broute' <=> e \in broute)
         /\ broute' \subseteq broute \cup {<<pr, v>>}
         /\ ok /\ found = (<<pr, v>> \in broute) => (<<pr, v>> \in broute' <=> val = 1)
         /\ ~ok => broute' = broute
<1> DEFINE e == <<pr, v>>
           there == e \in broute
<1>0. there \in BOOLEAN
  OBVIOUS
<1>1. \/ found = (val = 1) /\ ok /\ broute' = broute
      \/ val = 1 /\ found # TRUE /\ broute' = IF ok THEN broute \cup {e} ELSE broute
      \/ val = 0 /\ found # FALSE /\ broute' = IF ok THEN broute \ {e} ELSE broute
  BY DEF AddOrRemove
<1>2. ASSUME ok, found = there PROVE e \in broute' <=> val = 1
  <2> HIDE DEF there
  <2>1. \/ there = (val = 1) /\ broute' = broute
        \/ val = 1 /\ broute' = broute \cup {e}
        \/ val = 0 /\ broute' = broute \ {e}
    BY <1>1, <1>2
  <2>2. CASE there = (val = 1) /\ broute' = broute
    BY <2>2 DEF there
  <2> HIDE DEF e
  <2>3. CASE val = 1 /\ broute' = broute \cup {e}
    BY <2>3
  <2>4. CASE val = 0 /\ broute' = broute \ {e}
    BY <2>4
  <2> QED
    BY <2>1, <2>2, <2>3, <2>4
<1>3. /\ \A x : x # e => (x \in broute' <=> x \in broute)
      /\ broute' \subseteq broute \cup {e}
      /\ ~ok => broute' = broute
  <2> HIDE DEF e
  <2> QED
    BY <1>1
<1> QED
  BY <1>2, <1>3

(* A new VLAN waits for the monitor as a creation: it changes no rule and  *)
(* no deletion stops or begins to wait.                                    *)
LEMMA CreateVlanStep ==
  ASSUME AppInv, NEW v \in AppVlans, CreateVlan(v)
  PROVE  AppInv'
<1> DEFINE e == [op |-> "create", v |-> v]
<1>1. /\ exists' = exists \cup {v} /\ ksnoop' = ksnoop \cup {v} /\ events' = Append(events, e)
      /\ UNCHANGED <<broute, globals, app_req, mon, enabled, excused>>
  BY DEF CreateVlan
<1>2. e \in AppEvents /\ e.op # "delete" /\ events \in Seq(AppEvents)
  BY DEF AppEvents, AppInv, AppTypes, AppTypeOK
<1> HIDE DEF e
<1>3. events' \in Seq(AppEvents) /\ \A w : DeleteWaits(w)' <=> DeleteWaits(w)
  BY <1>1, <1>2, EventComes
<1>4. AppTypes'
  BY <1>1, <1>3 DEF AppInv, AppTypes, AppTypeOK, AppEvents, TaskShape, globals
<1>5. GoneIsKnown' /\ GlobRight'
  BY <1>1, <1>3 DEF AppInv, GoneIsKnown, GlobRight, Stopped, globals
<1>6. RulesRight'
  BY <1>1, <1>3 DEF AppInv, RulesRight, RuleRight, Monitored, Asked
<1> QED
  BY <1>4, <1>5, <1>6 DEF AppInv

(* A VLAN that is deleted has a deletion waiting: of it nothing is         *)
(* claimed.                                                                *)
LEMMA DeleteVlanStep ==
  ASSUME AppInv, NEW v \in AppVlans, DeleteVlan(v)
  PROVE  AppInv'
<1> DEFINE e == [op |-> "delete", v |-> v]
<1>1. /\ exists' = exists \ {v} /\ ksnoop' = ksnoop \ {v} /\ events' = Append(events, e)
      /\ enabled' = {x \in enabled : x[2] # v}
      /\ UNCHANGED <<broute, globals, app_req, mon, excused>>
  BY DEF DeleteVlan
<1>2. e \in AppEvents /\ e.op = "delete" /\ e.v = v /\ events \in Seq(AppEvents)
  BY DEF AppEvents, AppInv, AppTypes, AppTypeOK
<1> HIDE DEF e
<1>3. events' \in Seq(AppEvents) /\ \A w : DeleteWaits(w)' <=> DeleteWaits(w) \/ w = v
  BY <1>1, <1>2, EventComes
<1>4. AppTypes'
  <2>1. enabled' \subseteq Protos \X exists'
    BY <1>1 DEF AppInv, AppTypes, AppTypeOK, globals
  <2> QED
    BY <1>1, <1>3, <2>1 DEF AppInv, AppTypes, AppTypeOK, AppEvents, TaskShape, globals
<1>5. GoneIsKnown' /\ GlobRight'
  BY <1>1, <1>3 DEF AppInv, GoneIsKnown, GlobRight, Stopped, globals
<1>6. RulesRight'
  BY <1>1, <1>3 DEF AppInv, RulesRight, RuleRight, Monitored, Asked
<1> QED
  BY <1>4, <1>5, <1>6 DEF AppInv

(* A request begins about a VLAN that exists, and has read nothing yet.    *)
LEMMA BeginStatusStep ==
  ASSUME AppInv, BeginStatus
  PROVE  AppInv'
<1>1. PICK pr \in Protos, v \in exists, val \in {0, 1} :
        app_req' = [at |-> "read", pr |-> pr, v |-> v, val |-> val, found |-> FALSE]
  BY DEF BeginStatus
<1>2. /\ app_req.at = "idle"
      /\ UNCHANGED <<exists, events, ksnoop, broute, globals, mon, enabled, excused>>
  BY DEF BeginStatus
<1>3. /\ TaskShape(app_req') /\ app_req'.at = "read" /\ app_req'.pr = pr /\ app_req'.v = v
      /\ app_req'.val = val
  BY <1>1 DEF TaskShape
<1>4. v \in AppVlans
  BY DEF AppInv, AppTypes, AppTypeOK, globals
<1>5. AppTypes'
  BY <1>2, <1>3, <1>4 DEF AppInv, AppTypes, AppTypeOK, TaskShape, globals
<1>6. GoneIsKnown' /\ GlobRight'
  BY <1>2, <1>3 DEF AppInv, GoneIsKnown, GlobRight, Stopped, globals, DeleteWaits
<1>7. RulesRight'
  BY <1>2, <1>3 DEF AppInv, RulesRight, RuleRight, Monitored, Asked, DeleteWaits
<1> QED
  BY <1>5, <1>6, <1>7 DEF AppInv

(* The request reads the table: what it found is what is there.            *)
LEMMA ReadStep ==
  ASSUME AppInv, read_ebtable_rules
  PROVE  AppInv'
<1> DEFINE there == <<app_req.pr, app_req.v>> \in broute
           r == [app_req EXCEPT !.at = "command", !.found = there]
<1>1. /\ app_req.at = "read" /\ app_req' = r
      /\ UNCHANGED <<exists, events, ksnoop, broute, globals, mon, enabled, excused>>
  BY DEF read_ebtable_rules
<1>2. TaskShape(app_req)
  BY DEF AppInv, AppTypes
<1>3. /\ TaskShape(app_req') /\ app_req'.at = "command" /\ app_req'.pr = app_req.pr
      /\ app_req'.v = app_req.v /\ app_req'.val = app_req.val /\ app_req'.found = there
  <2> HIDE DEF there
  <2>1. r = [at |-> "command", pr |-> app_req.pr, v |-> app_req.v, val |-> app_req.val,
             found |-> there]
    BY <1>2, TaskIs
  <2> HIDE DEF r
  <2> QED
    BY <1>1, <2>1 DEF TaskShape
<1> HIDE DEF r
<1>5. AppTypes'
  BY <1>1, <1>3 DEF AppInv, AppTypes, AppTypeOK, TaskShape, globals
<1>6. GoneIsKnown' /\ GlobRight'
  BY <1>1, <1>3 DEF AppInv, GoneIsKnown, GlobRight, Stopped, globals, DeleteWaits
<1>7. ASSUME NEW e \in Protos \X AppVlans, e[2] \notin excused, ~DeleteWaits(e[2])
      PROVE  RuleRight(e)'
  <2>1. RuleRight(e)
    BY <1>7 DEF AppInv, RulesRight
  <2>2. Asked(e, "command")' => app_req'.found = (e \in broute')
    <3>1. e = <<e[1], e[2]>>
      OBVIOUS
    <3>2. Asked(e, "command")' => e = <<app_req.pr, app_req.v>>
      BY <1>3, <3>1 DEF Asked
    <3> QED
      BY <1>1, <1>3, <3>2
  <2>3. ~Asked(e, "off") /\ ~Asked(e, "off")'
    BY <1>1, <1>3 DEF Asked
  <2> QED
    BY <1>1, <2>1, <2>2, <2>3 DEF RuleRight, Monitored
<1>8. RulesRight'
  BY <1>1, <1>7 DEF RulesRight, DeleteWaits
<1> QED
  BY <1>5, <1>6, <1>8 DEF AppInv

(* The command of a request: where the monitor is not at its VLAN, the     *)
(* rule is still as it was found and becomes as asked; if the command      *)
(* fails the rule stays.                                                   *)
LEMMA CommandStep ==
  ASSUME AppInv, snoop_update_vlan_rules
  PROVE  AppInv'
<1> DEFINE x == <<app_req.pr, app_req.v>>
           r == [app_req EXCEPT !.at = "off"]
<1>1. PICK ok \in BOOLEAN :
        /\ AddOrRemove(app_req.pr, app_req.v, app_req.val, app_req.found, ok)
        /\ app_req' = IF ok THEN r ELSE Idle
  BY DEF snoop_update_vlan_rules
<1>2. /\ app_req.at = "command"
      /\ UNCHANGED <<exists, events, ksnoop, globals, mon, enabled, excused>>
  BY DEF snoop_update_vlan_rules
<1>3. /\ TaskShape(app_req) /\ app_req.val \in {0, 1} /\ app_req.pr \in Protos
      /\ app_req.v \in AppVlans
  BY <1>2 DEF AppInv, AppTypes
<1>4. /\ TaskShape(r) /\ r.at = "off" /\ r.pr = app_req.pr /\ r.v = app_req.v
      /\ r.val = app_req.val
  <2>1. r = [at |-> "off", pr |-> app_req.pr, v |-> app_req.v, val |-> app_req.val,
             found |-> app_req.found]
    BY <1>3, TaskIs
  <2> HIDE DEF r
  <2> QED
    BY <2>1 DEF TaskShape
<1> HIDE DEF r
<1>5. /\ \A e : e # x => (e \in broute' <=> e \in broute)
      /\ broute' \subseteq broute \cup {x}
      /\ ok /\ app_req.found = (x \in broute) => (x \in broute' <=> app_req.val = 1)
      /\ ~ok => broute' = broute
  BY <1>1, <1>3, CommandIs
<1>6. x \in Protos \X AppVlans
  BY <1>3
<1>7. /\ TaskShape(app_req') /\ app_req'.pr \in Protos /\ app_req'.val \in {0, 1}
      /\ \/ ok /\ app_req'.at = "off" /\ app_req'.pr = app_req.pr /\ app_req'.v = app_req.v
            /\ app_req'.val = app_req.val
         \/ ~ok /\ app_req'.at = "idle"
  BY <1>1, <1>3, <1>4, AppIdleIs
<1>8. AppTypes'
  <2>1. broute' \subseteq Protos \X AppVlans
    BY <1>5, <1>6 DEF AppInv, AppTypes, AppTypeOK, globals
  <2> QED
    BY <1>2, <1>3, <1>7, <2>1 DEF AppInv, AppTypes, AppTypeOK, TaskShape, globals
<1>9. GoneIsKnown' /\ GlobRight'
  BY <1>2, <1>7 DEF AppInv, GoneIsKnown, GlobRight, Stopped, globals, DeleteWaits
<1>10. ASSUME NEW e \in Protos \X AppVlans, e[2] \notin excused, ~DeleteWaits(e[2])
       PROVE  RuleRight(e)'
  <2>1. RuleRight(e)
    BY <1>10 DEF AppInv, RulesRight
  <2>2. Monitored(e[2])' = Monitored(e[2]) /\ e = <<e[1], e[2]>>
    BY <1>2 DEF Monitored
  <2>3. ~Asked(e, "command")'
    BY <1>7 DEF Asked
  <2>4. CASE e # x
    <3>1. (e \in broute' <=> e \in broute) /\ ~Asked(e, "off") /\ ~Asked(e, "off")'
      BY <1>2, <1>5, <1>7, <2>2, <2>4 DEF Asked
    <3>2. (e \in broute') = (e \in broute)
      BY <3>1
    <3> QED
      BY <1>2, <2>1, <2>2, <2>3, <3>1, <3>2 DEF RuleRight
  <2>5. CASE e = x
    <3>1. Asked(e, "command") /\ ~Asked(e, "off") /\ e[2] = app_req.v
      BY <1>2, <2>5 DEF Asked
    <3>2. ok <=> Asked(e, "off")'
      BY <1>7, <2>5 DEF Asked
    <3>3. e[2] \in exists
      BY <1>2, <1>10, <3>1 DEF AppInv, GoneIsKnown
    <3>4. ASSUME ~Monitored(e[2])
          PROVE  IF Asked(e, "off")' THEN e \in broute' <=> app_req'.val = 1
                                     ELSE e \in broute' <=> e \in enabled'
      <4>1. app_req.found = (e \in broute) /\ (e \in broute <=> e \in enabled)
        BY <2>1, <3>1, <3>4 DEF RuleRight
      <4>2. CASE ok
        <5>1. e \in broute' <=> app_req.val = 1
          BY <1>5, <2>5, <4>1, <4>2
        <5> QED
          BY <1>7, <3>2, <4>2, <5>1
      <4>3. CASE ~ok
        BY <1>2, <1>5, <3>2, <4>1, <4>3
      <4> QED
        BY <4>2, <4>3
    <3> QED
      BY <1>2, <2>2, <2>3, <3>3, <3>4 DEF RuleRight
  <2> QED
    BY <2>4, <2>5
<1>11. RulesRight'
  BY <1>2, <1>10 DEF RulesRight, DeleteWaits
<1> QED
  BY <1>8, <1>9, <1>11 DEF AppInv

(* A request that succeeded is published: its rule is as asked for.        *)
LEMMA StatusStep ==
  ASSUME AppInv, _parse_snoop_status
  PROVE  AppInv'
<1> DEFINE x == <<app_req.pr, app_req.v>>
<1>1. /\ app_req.at = "off" /\ ksnoop' = ksnoop \ {app_req.v} /\ app_req' = Idle
      /\ enabled' = IF app_req.v \notin exists THEN enabled
                    ELSE IF app_req.val = 1 THEN enabled \cup {x} ELSE enabled \ {x}
      /\ UNCHANGED <<exists, events, broute, globals, mon, excused>>
  BY DEF _parse_snoop_status
<1>2. app_req.val \in {0, 1} /\ app_req.pr \in Protos /\ app_req.v \in AppVlans
  BY <1>1 DEF AppInv, AppTypes
<1>3. TaskShape(app_req') /\ app_req'.at = "idle" /\ app_req'.pr \in Protos /\ app_req'.val = 0
  BY <1>1, AppIdleIs
<1>4. AppTypes'
  <2>1. enabled' \subseteq Protos \X exists'
    BY <1>1, <1>2 DEF AppInv, AppTypes, AppTypeOK, globals
  <2> QED
    BY <1>1, <1>3, <2>1 DEF AppInv, AppTypes, AppTypeOK, TaskShape, globals
<1>5. GoneIsKnown' /\ GlobRight'
  BY <1>1, <1>3 DEF AppInv, GoneIsKnown, GlobRight, Stopped, globals
<1>6. ASSUME NEW e \in Protos \X AppVlans, e[2] \notin excused, ~DeleteWaits(e[2])
      PROVE  RuleRight(e)'
  <2>1. RuleRight(e)
    BY <1>6 DEF AppInv, RulesRight
  <2>2. Monitored(e[2])' = Monitored(e[2]) /\ e = <<e[1], e[2]>>
    BY <1>1 DEF Monitored
  <2>3. ~Asked(e, "command")' /\ ~Asked(e, "off")'
    BY <1>3 DEF Asked
  <2>4. ASSUME ~Monitored(e[2]) PROVE e \in broute <=> e \in enabled'
    <3>1. CASE e = x
      <4>1. Asked(e, "off") /\ e[2] = app_req.v
        BY <1>1, <3>1 DEF Asked
      <4>2. app_req.v \in exists
        BY <1>1, <1>6, <4>1 DEF AppInv, GoneIsKnown
      <4>3. e \in broute <=> app_req.val = 1
        BY <2>1, <2>4, <4>1 DEF RuleRight
      <4> QED
        BY <1>1, <1>2, <3>1, <4>2, <4>3
    <3>2. CASE e # x
      <4>1. ~Asked(e, "off")
        BY <2>2, <3>2 DEF Asked
      <4>2. e \in broute <=> e \in enabled
        BY <2>1, <2>4, <4>1 DEF RuleRight
      <4>3. e \in enabled' <=> e \in enabled
        <5> HIDE DEF x
        <5> QED
          BY <1>1, <3>2
      <4> QED
        BY <4>2, <4>3
    <3> QED
      BY <3>1, <3>2
  <2> QED
    BY <1>1, <2>1, <2>2, <2>3, <2>4 DEF RuleRight
<1>7. RulesRight'
  BY <1>1, <1>6 DEF RulesRight, DeleteWaits
<1> QED
  BY <1>4, <1>5, <1>7 DEF AppInv

(* What is appended to a chain without a gap leaves none, unless the last  *)
(* rule is appended though one before it failed; and all of it is there if *)
(* nothing failed.                                                         *)
LEMMA ChainMade ==
  ASSUME NEW c \in Chains, NEW failed \in SUBSET Missing(c)
  PROVE  /\ snoop_create_iptables_chain(c, failed) \in Chains
         /\ (InOrder(c) /\ ~(failed \cap Accepts # {} /\ "reset" \notin failed)) =>
              /\ InOrder(snoop_create_iptables_chain(c, failed))
              /\ failed = {} => snoop_create_iptables_chain(c, failed) = FullChain
<1> DEFINE added == (Missing(c) \ failed) \cap Accepts
           front == IF c.reset THEN c.front ELSE c.front \cup added
           reset == "reset" \notin Missing(c) \cap failed
           back == IF c.reset THEN c.back \cup added ELSE c.back
<1>1. snoop_create_iptables_chain(c, failed) = [front |-> front, reset |-> reset, back |-> back]
  BY DEF snoop_create_iptables_chain
<1>2. c.front \subseteq Accepts /\ c.back \subseteq Accepts /\ c.reset \in BOOLEAN
  BY DEF Chains
<1>3. front \in SUBSET Accepts /\ reset \in BOOLEAN /\ back \in SUBSET Accepts
  BY <1>2
<1>4. ASSUME InOrder(c), ~(failed \cap Accepts # {} /\ "reset" \notin failed)
      PROVE  back = {} /\ (reset => front = Accepts) /\ (failed = {} => reset)
  <2>1. CASE c.reset
    <3>1. Missing(c) = {}
      BY <1>4, <2>1 DEF InOrder, Missing
    <3> QED
      BY <1>4, <2>1, <3>1 DEF InOrder
  <2>2. CASE ~c.reset
    <3>1. Missing(c) = (Accepts \ c.front) \cup {"reset"} /\ back = {}
      BY <1>4, <2>2 DEF InOrder, Missing
    <3>2. ASSUME reset PROVE front = Accepts
      <4>1. failed \cap Accepts = {}
        BY <1>4, <3>1, <3>2
      <4>2. added = Accepts \ c.front
        BY <3>1, <4>1 DEF Accepts
      <4> QED
        BY <1>2, <2>2, <4>2
    <3> QED
      BY <3>1, <3>2
  <2> QED
    BY <1>2, <2>1, <2>2
<1> HIDE DEF front, reset, back
<1>5. ASSUME InOrder(c), ~(failed \cap Accepts # {} /\ "reset" \notin failed)
      PROVE  /\ InOrder(snoop_create_iptables_chain(c, failed))
             /\ failed = {} => snoop_create_iptables_chain(c, failed) = FullChain
  <2>1. back = {} /\ (reset => front = Accepts) /\ (failed = {} => reset = TRUE)
    BY <1>3, <1>4, <1>5
  <2> DEFINE made == snoop_create_iptables_chain(c, failed)
  <2>2. made.front = front /\ made.reset = reset /\ made.back = back
    BY <1>1
  <2>3. failed = {} => made = FullChain
    <3>1. ASSUME failed = {} PROVE front = Accepts /\ reset = TRUE /\ back = {}
      BY <2>1, <3>1
    <3> QED
      BY <1>1, <3>1 DEF FullChain
  <2> HIDE DEF made
  <2>4. InOrder(made)
    BY <1>3, <2>1, <2>2 DEF InOrder
  <2> QED
    BY <2>3, <2>4 DEF made
<1> QED
  BY <1>1, <1>3, <1>5 DEF Chains

(* What a global request for pr leaves: other protocols alone; of its own  *)
(* it says "on" only if all is in place, but for a chain with a gap.       *)
GlobalDone(pr, parts, c, said) ==
  /\ glob' = [glob EXCEPT ![pr] = parts] /\ chain' = [chain EXCEPT ![pr] = c]
  /\ reported' = [reported EXCEPT ![pr] = said]
  /\ skipped' \in {skipped, skipped \cup {pr}, skipped \ {pr}}
  /\ parts \subseteq AllParts /\ c \in Chains
  /\ pr \notin skipped' => InOrder(c)
  /\ said = "on" /\ pr \notin skipped' => c = FullChain /\ parts = AllParts

(* To make the parts other than the chain says "on" only with all made.    *)
LEMMA PartsMade ==
  ASSUME AppInv, NEW pr \in Protos, MakeParts(pr)
  PROVE  \E parts, said :
           /\ glob' = [glob EXCEPT ![pr] = parts]
           /\ reported' = [reported EXCEPT ![pr] = said]
           /\ parts \subseteq AllParts /\ (said = "on" => parts = AllParts)
<1>1. CASE /\ glob' = [glob EXCEPT ![pr] = AllParts]
           /\ reported' = [reported EXCEPT ![pr] = Returned(TRUE)]
  BY <1>1
<1>2. ASSUME NEW i \in DOMAIN Parts,
             glob' = [glob EXCEPT ![pr] = @ \cup {Parts[j] : j \in 1 .. i - 1}],
             reported' = [reported EXCEPT ![pr] = Returned(FALSE)]
      PROVE  \E parts, said :
               /\ glob' = [glob EXCEPT ![pr] = parts]
               /\ reported' = [reported EXCEPT ![pr] = said]
               /\ parts \subseteq AllParts /\ (said = "on" => parts = AllParts)
  <2> DEFINE parts == glob[pr] \cup {Parts[j] : j \in 1 .. i - 1}
  <2>1. glob[pr] \subseteq AllParts
    BY DEF AppInv, AppTypes, AppTypeOK
  <2>2. i \in 1 .. 3 /\ DOMAIN Parts = 1 .. 3
    BY DEF Parts
  <2>3. {Parts[j] : j \in 1 .. i - 1} \subseteq AllParts
    BY <2>2 DEF AllParts
  <2>4. Returned(FALSE) = "failed"
    BY DEF Returned
  <2>5. parts \subseteq AllParts /\ glob' = [glob EXCEPT ![pr] = parts]
    BY <1>2, <2>1, <2>3
  <2> HIDE DEF parts
  <2> QED
    BY <1>2, <2>4, <2>5
<1> QED
  BY <1>1, <1>2 DEF MakeParts

(* Snooping enabled globally.                                              *)
LEMMA AddDone ==
  ASSUME AppInv, NEW pr \in Protos, snoop_add_rule_chain(pr)
  PROVE  \E parts, c, said : GlobalDone(pr, parts, c, said)
<1>1. PICK failed \in SUBSET Missing(chain[pr]) :
        /\ chain' = [chain EXCEPT ![pr] = snoop_create_iptables_chain(@, failed)]
        /\ skipped' = IF failed \cap Accepts # {} /\ "reset" \notin failed
                        THEN skipped \cup {pr} ELSE skipped
        /\ IF failed = {} THEN MakeParts(pr)
           ELSE reported' = [reported EXCEPT ![pr] = Returned(FALSE)] /\ UNCHANGED glob
  BY DEF snoop_add_rule_chain
<1> DEFINE c == snoop_create_iptables_chain(chain[pr], failed)
<1>2. chain \in [Protos -> Chains] /\ glob \in [Protos -> SUBSET AllParts]
  BY DEF AppInv, AppTypes, AppTypeOK, Chains
<1>3. chain[pr] \in Chains
  BY <1>2
<1>4. c \in Chains
  BY <1>3, ChainMade
<1>5. chain' = [chain EXCEPT ![pr] = c]
  BY <1>1
<1>6. ASSUME pr \notin skipped'
      PROVE  InOrder(c) /\ (failed = {} => c = FullChain)
  <2>1. pr \notin skipped /\ ~(failed \cap Accepts # {} /\ "reset" \notin failed)
    BY <1>1, <1>6
  <2>2. InOrder(chain[pr])
    BY <2>1 DEF AppInv, GlobRight
  <2> QED
    BY <1>3, <2>1, <2>2, ChainMade
<1> HIDE DEF c
<1>7. skipped' \in {skipped, skipped \cup {pr}, skipped \ {pr}}
  BY <1>1
<1>8. CASE failed = {}
  <2>1. PICK parts, said :
          /\ glob' = [glob EXCEPT ![pr] = parts]
          /\ reported' = [reported EXCEPT ![pr] = said]
          /\ parts \subseteq AllParts /\ (said = "on" => parts = AllParts)
    BY <1>1, <1>8, PartsMade
  <2>2. GlobalDone(pr, parts, c, said)
    BY <1>4, <1>5, <1>6, <1>7, <1>8, <2>1 DEF GlobalDone
  <2> QED
    BY <2>2
<1>9. CASE failed # {}
  <2>1. reported' = [reported EXCEPT ![pr] = "failed"] /\ glob' = [glob EXCEPT ![pr] = glob[pr]]
    BY <1>1, <1>2, <1>9 DEF Returned
  <2>2. glob[pr] \subseteq AllParts
    BY <1>2
  <2>3. GlobalDone(pr, glob[pr], c, "failed")
    BY <1>4, <1>5, <1>6, <1>7, <2>1, <2>2 DEF GlobalDone
  <2> QED
    BY <2>3
<1> QED
  BY <1>8, <1>9

(* Snooping disabled globally.                                             *)
LEMMA RemoveDone ==
  ASSUME AppInv, NEW pr \in Protos, snoop_remove_rule_chain(pr)
  PROVE  \E parts, c, said : GlobalDone(pr, parts, c, said)
<1>1. PICK failed \in SUBSET ({"flush"} \cup AllParts), whole \in SUBSET {"nat"} :
        LET jump == glob[pr] \cap failed \cap {"jump"}
            nat == glob[pr] \cap failed \cap whole
            nf == IF {"nat", "nf"} \cap failed # {} THEN glob[pr] \cap {"nf"} ELSE {}
            kept == jump # {} \/ "flush" \in failed
        IN  /\ glob' = [glob EXCEPT ![pr] = jump \cup nat \cup nf]
            /\ chain' = IF kept THEN chain ELSE [chain EXCEPT ![pr] = EmptyChain]
            /\ skipped' = IF kept THEN skipped ELSE skipped \ {pr}
            /\ reported' = [reported EXCEPT ![pr] =
                              IF {"nat", "nf"} \cap failed = {} THEN "off" ELSE "failed"]
  BY DEF snoop_remove_rule_chain
<1> DEFINE jump == glob[pr] \cap failed \cap {"jump"}
           nat == glob[pr] \cap failed \cap whole
           nf == IF {"nat", "nf"} \cap failed # {} THEN glob[pr] \cap {"nf"} ELSE {}
           kept == jump # {} \/ "flush" \in failed
           parts == jump \cup nat \cup nf
           said == IF {"nat", "nf"} \cap failed = {} THEN "off" ELSE "failed"
           c == IF kept THEN chain[pr] ELSE EmptyChain
<1>2. chain \in [Protos -> Chains] /\ glob \in [Protos -> SUBSET AllParts]
  BY DEF AppInv, AppTypes, AppTypeOK, Chains
<1>3. glob' = [glob EXCEPT ![pr] = parts] /\ reported' = [reported EXCEPT ![pr] = said]
  BY <1>1
<1>4. said # "on" /\ parts \subseteq AllParts
  <2>1. parts \subseteq glob[pr] /\ said # "on"
    OBVIOUS
  <2>2. glob[pr] \subseteq AllParts
    BY <1>2
  <2> HIDE DEF parts, said
  <2> QED
    BY <2>1, <2>2
<1>5. chain' = IF kept THEN chain ELSE [chain EXCEPT ![pr] = EmptyChain]
  BY <1>1
<1>6. skipped' = IF kept THEN skipped ELSE skipped \ {pr}
  BY <1>1
<1> HIDE DEF kept, parts, said
<1>7. EmptyChain \in Chains /\ InOrder(EmptyChain)
  BY DEF EmptyChain, Chains, InOrder
<1>8. chain' = [chain EXCEPT ![pr] = c] /\ c \in Chains
  BY <1>2, <1>5, <1>7
<1>9. pr \notin skipped' => InOrder(c)
  BY <1>6, <1>7 DEF AppInv, GlobRight
<1>10. skipped' \in {skipped, skipped \cup {pr}, skipped \ {pr}}
  BY <1>6
<1> HIDE DEF c
<1>11. GlobalDone(pr, parts, c, said)
  BY <1>3, <1>4, <1>8, <1>9, <1>10 DEF GlobalDone
<1> QED
  BY <1>11

(* The global rules, and what was said of them, concern no VLAN.           *)
LEMMA GlobalStep ==
  ASSUME AppInv, NEW pr \in Protos, snoop_add_rule_chain(pr) \/ snoop_remove_rule_chain(pr)
  PROVE  AppInv'
<1>1. UNCHANGED <<exists, events, ksnoop, broute, app_req, mon, enabled, excused>>
  BY DEF snoop_add_rule_chain, snoop_remove_rule_chain
<1>2. glob \in [Protos -> SUBSET AllParts] /\ chain \in [Protos -> Chains]
  BY DEF AppInv, AppTypes, AppTypeOK, Chains
<1>3. PICK parts, c, said : GlobalDone(pr, parts, c, said)
  BY AddDone, RemoveDone
<1>4. glob' \in [Protos -> SUBSET AllParts] /\ chain' \in [Protos -> Chains]
  BY <1>2, <1>3 DEF GlobalDone
<1>5. GlobRight'
  <2>1. DOMAIN reported = Protos /\ DOMAIN reported' = Protos
    BY <1>3 DEF AppInv, GlobRight, GlobalDone
  <2>2. ASSUME NEW q \in Protos, q \notin skipped'
        PROVE  InOrder(chain'[q]) /\ (reported'[q] = "on" =>
                                        chain'[q] = FullChain /\ glob'[q] = AllParts)
    <3>1. CASE q # pr
      <4>1. q \notin skipped /\ chain'[q] = chain[q] /\ glob'[q] = glob[q] /\ reported'[q] = reported[q]
        BY <1>2, <1>3, <2>1, <2>2, <3>1 DEF GlobalDone
      <4> QED
        BY <4>1 DEF AppInv, GlobRight, Stopped, FullChain
    <3>2. CASE q = pr
      <4>1. chain'[q] = c /\ glob'[q] = parts /\ reported'[q] = said
        BY <1>2, <1>3, <2>1, <3>2 DEF GlobalDone
      <4> QED
        BY <1>3, <2>2, <3>2, <4>1 DEF GlobalDone
    <3> QED
      BY <3>1, <3>2
  <2> QED
    BY <2>1, <2>2 DEF GlobRight, Stopped, FullChain
<1>6. AppTypes'
  BY <1>1, <1>4 DEF AppInv, AppTypes, AppTypeOK, TaskShape, Chains
<1>7. GoneIsKnown' /\ RulesRight'
  BY <1>1 DEF AppInv, GoneIsKnown, RulesRight, RuleRight, Monitored, Asked, DeleteWaits
<1> QED
  BY <1>5, <1>6, <1>7 DEF AppInv

(* Taking up a deletion excuses its VLAN if it is there again, or if a     *)
(* request is about it.                                                    *)
LEMMA TakeEventStep ==
  ASSUME AppInv, TakeEvent
  PROVE  AppInv'
<1> DEFINE d == Head(events)
<1>1. /\ mon.at = "idle" /\ events # <<>> /\ events' = Tail(events)
      /\ UNCHANGED <<exists, broute, globals, app_req, enabled>>
      /\ \/ d.op = "create" /\ ksnoop' = ksnoop \ {d.v} /\ UNCHANGED <<mon, excused>>
         \/ /\ d.op # "create" /\ mon' = [Idle EXCEPT !.at = "read", !.v = d.v]
            /\ excused' = IF d.v \in exists \/ (app_req.at # "idle" /\ app_req.v = d.v)
                            THEN excused \cup {d.v} ELSE excused
            /\ UNCHANGED ksnoop
  BY DEF TakeEvent, SnoopOff
<1>2. events \in Seq(AppEvents)
  BY DEF AppInv, AppTypes, AppTypeOK, AppEvents
<1>3. /\ events' \in Seq(AppEvents) /\ d \in AppEvents
      /\ \A v : \/ DeleteWaits(v)' <=> DeleteWaits(v)
                \/ d.op = "delete" /\ d.v = v
  BY <1>1, <1>2, EventGoes
<1>4. d.v \in AppVlans /\ d.op \in {"create", "delete"}
  BY <1>3 DEF AppEvents
<1> HIDE DEF d
<1>5. CASE d.op = "create"
  <2>1. /\ ksnoop' = ksnoop \ {d.v} /\ UNCHANGED <<mon, excused>>
        /\ \A v : DeleteWaits(v)' <=> DeleteWaits(v)
    BY <1>1, <1>3, <1>5
  <2>2. AppTypes'
    BY <1>1, <1>3, <2>1 DEF AppInv, AppTypes, AppTypeOK, AppEvents, TaskShape, globals
  <2>3. GoneIsKnown' /\ GlobRight' /\ RulesRight'
    BY <1>1, <2>1 DEF AppInv, GoneIsKnown, GlobRight, Stopped, globals, RulesRight, RuleRight, Monitored, Asked
  <2> QED
    BY <2>2, <2>3 DEF AppInv
<1>6. CASE d.op = "delete"
  <2>1. /\ TaskShape(mon') /\ mon'.at = "read" /\ mon'.pr = "igmp" /\ mon'.v = d.v
        /\ UNCHANGED ksnoop
    <3> DEFINE r == [Idle EXCEPT !.at = "read", !.v = d.v]
    <3>1. mon' = r /\ UNCHANGED ksnoop
      BY <1>1, <1>6
    <3>2. TaskShape(r) /\ r.at = "read" /\ r.pr = "igmp" /\ r.v = d.v
      BY ONLY AppIdleIs
    <3> HIDE DEF r
    <3> QED
      BY <3>1, <3>2
  <2>2. /\ excused \subseteq excused' /\ excused' \subseteq excused \cup {d.v}
        /\ app_req.at # "idle" /\ app_req.v = d.v => d.v \in excused'
    BY <1>1, <1>6
  <2>3. AppTypes'
    BY <1>1, <1>3, <1>4, <2>1, <2>2, AppIdleIs
       DEF AppInv, AppTypes, AppTypeOK, AppEvents, TaskShape, globals
  <2>4. GoneIsKnown' /\ GlobRight'
    BY <1>1, <1>3, <2>2 DEF AppInv, GoneIsKnown, GlobRight, Stopped, globals
  <2>5. ASSUME NEW e \in Protos \X AppVlans, e[2] \notin excused', ~DeleteWaits(e[2])'
        PROVE  RuleRight(e)'
    <3>1. CASE e[2] = d.v
      BY <2>1, <3>1 DEF RuleRight, Monitored
    <3>2. CASE e[2] # d.v
      <4>1. RuleRight(e)
        BY <1>3, <2>2, <2>5, <3>2 DEF AppInv, RulesRight
      <4>2. ~Monitored(e[2]) /\ ~Monitored(e[2])'
        BY <1>1, <2>1, <3>2 DEF Monitored
      <4> QED
        BY <1>1, <4>1, <4>2 DEF RuleRight, Asked
    <3> QED
      BY <3>1, <3>2
  <2> QED
    BY <2>3, <2>4, <2>5 DEF AppInv, RulesRight
<1> QED
  BY <1>4, <1>5, <1>6

(* The monitor reads the table: what it found is what is there.            *)
LEMMA MonitorReadsStep ==
  ASSUME AppInv, MonitorReads
  PROVE  AppInv'
<1> DEFINE there == <<mon.pr, mon.v>> \in broute
           r == [mon EXCEPT !.at = "command", !.found = there]
<1>1. /\ mon.at = "read" /\ mon' = r
      /\ UNCHANGED <<exists, events, ksnoop, broute, globals, app_req, enabled, excused>>
  BY DEF MonitorReads
<1>2. TaskShape(mon)
  BY DEF AppInv, AppTypes
<1>3. /\ TaskShape(mon') /\ mon'.at = "command" /\ mon'.pr = mon.pr
      /\ mon'.v = mon.v /\ mon'.found = there
  <2> HIDE DEF there
  <2>1. r = [at |-> "command", pr |-> mon.pr, v |-> mon.v, val |-> mon.val, found |-> there]
    BY <1>2, TaskIs
  <2> HIDE DEF r
  <2> QED
    BY <1>1, <2>1 DEF TaskShape
<1> HIDE DEF r
<1>4. AppTypes'
  BY <1>1, <1>3 DEF AppInv, AppTypes, AppTypeOK, TaskShape, globals
<1>5. GoneIsKnown' /\ GlobRight'
  BY <1>1 DEF AppInv, GoneIsKnown, GlobRight, Stopped, globals, DeleteWaits
<1>6. ASSUME NEW e \in Protos \X AppVlans, e[2] \notin excused, ~DeleteWaits(e[2])
      PROVE  RuleRight(e)'
  <2>1. RuleRight(e)
    BY <1>6 DEF AppInv, RulesRight
  <2>2. Monitored(e[2])' = Monitored(e[2])
    BY <1>1, <1>3 DEF Monitored
  <2>3. Monitored(e[2])' /\ mon'.pr = e[1] => mon'.found = (e \in broute')
    <3>1. e = <<e[1], e[2]>>
      OBVIOUS
    <3>2. Monitored(e[2])' /\ mon'.pr = e[1] => e = <<mon.pr, mon.v>>
      BY <1>3, <3>1 DEF Monitored
    <3> QED
      BY <1>1, <1>3, <3>2
  <2> QED
    BY <1>1, <1>3, <2>1, <2>2, <2>3 DEF RuleRight, Asked
<1>7. RulesRight'
  BY <1>1, <1>6 DEF RulesRight, DeleteWaits
<1> QED
  BY <1>4, <1>5, <1>7 DEF AppInv

(* The monitor removes a rule: of a VLAN that stayed away it was found as  *)
(* it is, so that it is gone if the command succeeds.                      *)
LEMMA RemoveStep ==
  ASSUME AppInv, snoop_remove_vlan_rules
  PROVE  AppInv'
<1> DEFINE x == <<mon.pr, mon.v>>
<1>1. PICK ok \in BOOLEAN :
        /\ AddOrRemove(mon.pr, mon.v, 0, mon.found, ok)
        /\ excused' = IF ~ok \/ mon.v \in exists THEN excused \cup {mon.v} ELSE excused
  BY DEF snoop_remove_vlan_rules
<1>2. /\ mon.at = "command" /\ mon' = ThenMld
      /\ UNCHANGED <<exists, events, ksnoop, globals, app_req, enabled>>
  BY DEF snoop_remove_vlan_rules
<1>3. TaskShape(mon) /\ mon.pr \in Protos
  BY DEF AppInv, AppTypes
<1>4. \/ /\ mon.pr = "igmp" /\ mon'.at = "read" /\ mon'.pr = "mld" /\ mon'.v = mon.v
         /\ TaskShape(mon')
      \/ mon.pr = "mld" /\ mon'.at = "idle" /\ mon'.pr = "igmp" /\ TaskShape(mon')
  <2>1. CASE mon.pr = "igmp"
    <3> DEFINE r == [mon EXCEPT !.at = "read", !.pr = "mld"]
    <3>1. mon' = r
      BY <1>2, <2>1 DEF ThenMld
    <3>2. r = [at |-> "read", pr |-> "mld", v |-> mon.v, val |-> mon.val, found |-> mon.found]
      <4> DEFINE q == [mon EXCEPT !.at = "read"]
      <4>1. r = [q EXCEPT !.pr = "mld"]
        OBVIOUS
      <4>2. q = [at |-> "read", pr |-> mon.pr, v |-> mon.v, val |-> mon.val, found |-> mon.found]
        BY <1>3 DEF TaskShape
      <4> HIDE DEF q, r
      <4> QED
        BY <4>1, <4>2
    <3> HIDE DEF r
    <3> QED
      BY <2>1, <3>1, <3>2 DEF TaskShape
  <2>2. CASE mon.pr # "igmp"
    BY <1>2, <1>3, <2>2, AppIdleIs DEF ThenMld
  <2> QED
    BY <2>1, <2>2
<1>5. /\ \A e : e # x => (e \in broute' <=> e \in broute)
      /\ ok /\ mon.found = (x \in broute) => x \notin broute'
      /\ broute' \subseteq broute \cup {x}
  BY <1>1, CommandIs
<1>6. excused \subseteq excused' /\ excused' \subseteq excused \cup {mon.v}
  BY <1>1
<1>7. broute' \subseteq broute
  BY <1>1 DEF AddOrRemove
<1>8. AppTypes' /\ GoneIsKnown' /\ GlobRight'
  <2>1. mon.v \in AppVlans
    BY <1>2 DEF AppInv, AppTypes
  <2>2. AppTypes'
    BY <1>2, <1>4, <1>6, <1>7, <2>1, AppIdleIs DEF AppInv, AppTypes, AppTypeOK, TaskShape, globals
  <2>3. GoneIsKnown' /\ GlobRight'
    BY <1>2, <1>6 DEF AppInv, GoneIsKnown, GlobRight, Stopped, globals, DeleteWaits
  <2> QED
    BY <2>2, <2>3
<1>9. ASSUME NEW e \in Protos \X AppVlans, e[2] \notin excused', ~DeleteWaits(e[2])
      PROVE  RuleRight(e)'
  <2>1. RuleRight(e) /\ e = <<e[1], e[2]>>
    BY <1>6, <1>9 DEF AppInv, RulesRight
  <2>2. CASE e[2] # mon.v
    <3>1. (e \in broute') = (e \in broute) /\ ~Monitored(e[2]) /\ ~Monitored(e[2])'
      <4>1. e # x
        BY <2>2
      <4>2. ~Monitored(e[2]) /\ ~Monitored(e[2])'
        BY <1>4, <2>2 DEF Monitored
      <4>3. e \in broute' <=> e \in broute
        BY <1>5, <4>1
      <4> QED
        BY <4>2, <4>3
    <3> QED
      BY <1>2, <2>1, <3>1 DEF RuleRight, Asked
  <2>3. CASE e[2] = mon.v
    <3>1. ok /\ e[2] \notin exists /\ e[2] \notin excused
      BY <1>1, <1>9, <2>3
    <3>2. x \in Protos \X AppVlans /\ x[2] = e[2] /\ x[1] = mon.pr
      BY <1>3, <2>3
    <3>3. RuleRight(x)
      BY <1>9, <3>1, <3>2 DEF AppInv, RulesRight
    <3>4. Monitored(e[2])
      BY <1>2, <2>3 DEF Monitored
    <3>5. mon.found = (x \in broute)
      <4> HIDE DEF x
      <4> QED
        BY <1>2, <3>1, <3>2, <3>3, <3>4 DEF RuleRight
    <3>6. x \notin broute'
      BY <1>5, <3>1, <3>5
    <3>7. ~Asked(e, "off") /\ ~Asked(e, "command")
      BY <1>9, <3>1 DEF Asked, AppInv, GoneIsKnown
    <3>8. CASE mon.pr = "igmp"
      <4>1. e[1] = "igmp" => e = x
        BY <2>1, <2>3, <3>8
      <4>2. Monitored(e[2])' /\ mon'.at = "read"
        BY <1>4, <2>3, <3>8 DEF Monitored
      <4> QED
        BY <3>6, <4>1, <4>2 DEF RuleRight
    <3>9. CASE mon.pr = "mld"
      <4>1. ~Monitored(e[2])'
        BY <1>4, <3>9 DEF Monitored
      <4>2. e \notin broute'
        <5>1. CASE e[1] = "mld"
          BY <2>1, <2>3, <3>6, <3>9, <5>1
        <5>2. CASE e[1] = "igmp"
          BY <1>7, <2>1, <3>1, <3>4, <3>9, <5>2 DEF RuleRight
        <5> QED
          BY <5>1, <5>2, AppIdleIs
      <4>3. e \notin enabled'
        BY <1>2, <2>1, <3>1 DEF AppInv, AppTypes, AppTypeOK, globals
      <4>4. ~Asked(e, "off")' /\ ~Asked(e, "command")'
        BY <1>2, <3>7 DEF Asked
      <4> QED
        BY <4>1, <4>2, <4>3, <4>4 DEF RuleRight
    <3> QED
      BY <1>3, <3>8, <3>9, AppIdleIs
  <2> QED
    BY <2>2, <2>3
<1>10. RulesRight'
  BY <1>2, <1>9 DEF RulesRight, DeleteWaits
<1> QED
  BY <1>8, <1>10 DEF AppInv

(* Every step of the requests, of the monitor and of nas-interface keeps   *)
(* the invariant.                                                          *)
LEMMA AppInvStep == AppInv /\ [AppNext]_app_vars => AppInv'
<1> SUFFICES ASSUME AppInv, [AppNext]_app_vars PROVE AppInv'
  OBVIOUS
<1>1. CASE UNCHANGED app_vars
  BY <1>1 DEF app_vars, AppInv, AppTypes, AppTypeOK, TaskShape, GoneIsKnown, RulesRight,
              RuleRight, GlobRight, Stopped, globals, Monitored, Asked, DeleteWaits
<1>2. ASSUME NEW v \in AppVlans, CreateVlan(v) \/ DeleteVlan(v) PROVE AppInv'
  BY <1>2, CreateVlanStep, DeleteVlanStep
<1>3. CASE BeginStatus \/ AppHandling
  BY <1>3, BeginStatusStep, ReadStep, CommandStep, StatusStep DEF AppHandling
<1>4. CASE Monitoring
  BY <1>4, TakeEventStep, MonitorReadsStep, RemoveStep DEF Monitoring
<1>5. ASSUME NEW pr \in Protos, snoop_add_rule_chain(pr) \/ snoop_remove_rule_chain(pr)
      PROVE  AppInv'
  BY <1>5, GlobalStep
<1> QED
  BY <1>1, <1>2, <1>3, <1>4, <1>5 DEF AppNext

(* Without VLANs there are no rules; of the global rules a part is there.  *)
LEMMA AppInvInit == AppInit => AppInv
<1> SUFFICES ASSUME AppInit PROVE AppInv
  OBVIOUS
<1>1. /\ exists = {} /\ events = <<>> /\ ksnoop = {} /\ broute = {} /\ enabled = {}
      /\ app_req = Idle /\ mon = Idle /\ excused = {}
      /\ reported = [pr \in Protos |-> "none"] /\ chain = [pr \in Protos |-> EmptyChain]
  BY DEF AppInit
<1>2. glob \in [Protos -> SUBSET AllParts]
  <2>1. glob = [pr \in Protos |-> {"nat"}]
    BY DEF AppInit
  <2>2. 2 \in DOMAIN Parts /\ Parts[2] = "nat"
    BY DEF Parts
  <2>3. {"nat"} \subseteq AllParts
    BY <2>2 DEF AllParts
  <2> QED
    BY <2>1, <2>3
<1>3. AppTypes
  <2>1. events \in Seq(AppEvents)
    BY <1>1
  <2>2. /\ app_req.at = "idle" /\ app_req.pr \in Protos /\ app_req.val = 0 /\ TaskShape(app_req)
        /\ mon.at = "idle" /\ mon.pr \in Protos /\ TaskShape(mon)
    BY <1>1, AppIdleIs
  <2> QED
    BY <1>1, <1>2, <2>1, <2>2 DEF AppTypes, AppTypeOK, AppEvents, EmptyChain
<1>4. app_req.at = "idle" /\ mon.at = "idle"
  BY <1>1, AppIdleIs
<1>5. GoneIsKnown /\ RulesRight /\ GlobRight
  BY <1>1, <1>4 DEF GoneIsKnown, RulesRight, RuleRight, GlobRight, Monitored, Asked,
                    EmptyChain, InOrder
<1> QED
  BY <1>3, <1>5 DEF AppInv

(* Requests of the application and the monitor of VLANs change the table   *)
(* of ebtables each for itself: with both at rest the rules of a VLAN are  *)
(* those enabled on it, unless its deletion was handled late or in part,   *)
(* and the reports of an enabled protocol are stopped, whatever commands   *)
(* failed and were tried again, unless the chain has a gap: a rule behind  *)
(* the one that takes the mark off.                                        *)
THEOREM RulesFollowRequestsAlways == AppSpec => []RulesFollowRequests
<1>1. AppInv => RulesFollowRequests
  <2> SUFFICES ASSUME AppInv PROVE RulesFollowRequests
    OBVIOUS
  <2>1. AppTypeOK
    BY DEF AppInv, AppTypes
  <2>2. ASSUME Quiet, NEW e \in Protos \X AppVlans, e[2] \notin excused
        PROVE  e \in broute <=> e \in enabled
    <3>1. ~DeleteWaits(e[2]) /\ ~Monitored(e[2]) /\ ~Asked(e, "off")
      BY <2>2 DEF Quiet, DeleteWaits, Monitored, Asked
    <3>2. RuleRight(e)
      BY <2>2, <3>1 DEF AppInv, RulesRight
    <3> QED
      BY <3>1, <3>2 DEF RuleRight
  <2>3. RulesFollow
    BY <2>2 DEF RulesFollow
  <2>4. ASSUME Quiet, NEW e \in enabled,
               e[2] \notin excused, e[1] \notin skipped, reported[e[1]] = "on"
        PROVE  e \in broute /\ Stopped(e[1])
    <3>1. e \in Protos \X AppVlans /\ e[1] \in Protos
      BY <2>1 DEF AppTypeOK
    <3>2. Stopped(e[1])
      BY <2>4, <3>1 DEF AppInv, GlobRight
    <3> QED
      BY <2>2, <2>4, <3>1, <3>2
  <2> QED
    BY <2>1, <2>3, <2>4 DEF RulesFollowRequests, ReportsStopped
<1> QED
  BY <1>1, AppInvInit, AppInvStep, PTL DEF AppSpec
=============================================================================
