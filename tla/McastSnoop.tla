----------------------------- MODULE McastSnoop -----------------------------
(***************************************************************************)
(* IGMP/MLD snooping done by the kernel: scripts/lib/python/               *)
(* dn_base_mcast_snoop_utils.py, run by scripts/bin/base_mcast_snoop.py.   *)
(* Two threads: the one of CPS requests (handle_configs_fs), which writes  *)
(* the files of the bridges, and McastSnoopCacheMgr, which every five      *)
(* seconds applies the static router ports that could not be applied when  *)
(* asked for, reads the multicast database, publishes what changed since   *)
(* the last time, and in between retries the setting of hash_max.          *)
(*                                                                         *)
(* A bridge port is one file name: <port> if the port is untagged in the   *)
(* VLAN, <port>.<vlan> if tagged; a write under the wrong name fails.  The *)
(* thread of McastSnoopCacheMgr holds its lock from one action to another; *)
(* the request thread takes it for single steps, whose guard is ~lock.     *)
(* A key that a dictionary lacks and a key with the empty set differ only  *)
(* in what is logged, so the br_* maps are total.                          *)
(***************************************************************************)
EXTENDS Naturals, Sequences, FiniteSets

CONSTANTS
  Vlans,         \* VLANs, each one bridge
  Ports,         \* interfaces
  Groups,        \* multicast group addresses
  RouterLists,   \* the lists of ports that static router requests carry
  MaxTry,        \* MAX_HASHMAX_CFG_TRY_COUNT
  MaxReq,        \* bound on requests
  MaxEnv,        \* bound on changes of membership, groups and known VLANs
  None

ASSUME MaxTryAssumption == MaxTry \in Nat \ {0}
ASSUME RouterListsAssumption == RouterLists \subseteq Seq(Ports)
ASSUME BoundsAssumption == MaxReq \in Nat /\ MaxEnv \in Nat

VARIABLES
  (* What nas-interface answers (external).                                *)
  known,                \* VLANs it finds
  member,               \* member[v][p]: "no", "untagged" or "tagged"
  (* The kernel (external).                                                *)
  brif,                 \* brif[v][p]: the name under which p is a bridge port
  router,               \* multicast_router of each bridge port: 2 is static,
                        \* 1 learns; Heard is 1 on a port that has learnt
  mdb,                  \* learnt and static groups: <<vlan, port, group>>
  snooping,             \* multicast_snooping of each bridge
  grace,                \* bridges that refuse a new hash_max for now
  hash_max,             \* bridges whose hash_max is max_grps
  (* McastSnoopCacheMgr.                                                   *)
  mrouter_set, br_mrouter_map, group_set, br_group_map,
  static_mrouter_set,   \* the name remembered for <<v, p>>, "no" if none
  hashmax_cfg_q,
  lock,
  poll,                 \* where its thread is
  (* The request thread.                                                   *)
  req,
  (* What subscribers know from the events: a create adds, a delete        *)
  (* removes, and a VLAN that stops snooping has nothing left (external).  *)
  sub_mrouters, sub_groups,
  (* History.                                                              *)
  tainted,              \* VLANs whose events were lost or overtaken
  gone,                 \* static router ports deleted and not asked for since
  undone,               \* deletes that polling undoes before they are done
  spoiled,              \* members of gone whose delete was undone, or skipped
                        \* with the port remembered or not even looked at
  n_req, n_env

nasVars == <<known, member>>
kernelVars == <<brif, router, mdb, snooping, grace, hash_max>>
cacheVars == <<mrouter_set, br_mrouter_map, group_set, br_group_map>>
subVars == <<sub_mrouters, sub_groups>>
histVars == <<tainted, gone, undone, spoiled>>
vars == <<nasVars, kernelVars, cacheVars, static_mrouter_set, hashmax_cfg_q,
          lock, poll, req, subVars, histVars, n_req, n_env>>

Tags == {"no", "untagged", "tagged"}
Heard == 3
NoRequest == [at |-> "idle", op |-> "create", br |-> None, todo |-> <<>>,
              info |-> [p \in Ports |-> "no"], val |-> 0, grp |-> None]
Waiting == [at |-> "wait", mrouters |-> {},
            groups |-> {}, todo |-> {}, vlan_map |-> {}]

Init ==
  /\ known = Vlans
  /\ member = [v \in Vlans |-> [p \in Ports |-> "no"]]
  /\ brif = member
  /\ router = [v \in Vlans |-> [p \in Ports |-> 1]]
  /\ mdb = {}
  /\ snooping = [v \in Vlans |-> TRUE]
  /\ grace = {} /\ hash_max = {}
  /\ mrouter_set = {} /\ group_set = {}
  /\ br_mrouter_map = [v \in Vlans |-> {}]
  /\ br_group_map = [v \in Vlans |-> {}]
  /\ static_mrouter_set = [v \in Vlans |-> [p \in Ports |-> "no"]]
  /\ hashmax_cfg_q = <<>>
  /\ lock = FALSE
  /\ poll = [Waiting EXCEPT !.at = "start"]
  /\ req = NoRequest
  /\ sub_mrouters = {} /\ sub_groups = {}
  /\ tainted = {} /\ gone = {} /\ undone = {} /\ spoiled = {}
  /\ n_req = 0 /\ n_env = 0
-----------------------------------------------------------------------------
(* The file of <<v, p>> under the name that goes with tag t can be written. *)
FileExists(v, p, t) == t # "no" /\ brif[v][p] = t

(* Begin a request of the CPS: without an answer about the VLAN it fails   *)
(* at once; otherwise the answer is used until the request is done.        *)
Begin(at, op, v, ports, val, grp) ==
  /\ req.at = "idle" /\ n_req < MaxReq
  /\ n_req' = n_req + 1
  /\ req' = IF v \in known
              THEN [at |-> at, op |-> op, br |-> v, todo |-> ports,
                    info |-> member[v], val |-> val, grp |-> grp]
              ELSE req
  /\ UNCHANGED <<nasVars, kernelVars, cacheVars, static_mrouter_set,
                 hashmax_cfg_q, lock, poll, subVars, histVars, n_env>>

handle_configs_fs ==
  \E v \in Vlans, op \in {"create", "delete"} :
    \/ \E ports \in RouterLists : Begin("router", op, v, ports, 0, None)
    \/ \E p \in Ports, g \in Groups : Begin("group", op, v, <<p>>, 0, g)
    \/ op = "create" /\ Begin("flush", op, v, <<>>, 0, None)
    \/ op = "create" /\ Begin("write", op, v, <<>>, 1, None)

(* What remains of a request that is dropped at a port that is no member:  *)
(* nothing is done about it, nor about the ports behind it.                *)
LeftOf(todo) == {<<req.br, todo[i]>> : i \in DOMAIN todo}

Remembered(m) == static_mrouter_set[m[1]][m[2]] # "no"

(* The end of a static router request, at a port that is no member or when *)
(* all are done.  To the caller of a delete both are success.              *)
EndMrouterRequest ==
  /\ IF req.op = "delete"
       THEN /\ gone' = gone \cup LeftOf(req.todo)
            /\ spoiled' = (spoiled \ LeftOf(req.todo)) \cup
                 {m \in LeftOf(req.todo) : m[2] # Head(req.todo) \/ m \in undone \/ Remembered(m)}
       ELSE UNCHANGED <<gone, spoiled>>
  /\ req' = NoRequest /\ undone' = {}
  /\ UNCHANGED router

(* One port of a static router request.  A create that cannot write the    *)
(* file is remembered, a delete is forgotten either way.                   *)
StaticMrouter ==
  /\ req.at = "router"
  /\ IF req.todo = <<>> \/ req.info[Head(req.todo)] = "no"
       THEN EndMrouterRequest
       ELSE LET p == Head(req.todo)
                asked == IF req.op = "create" THEN {<<req.br, p>>} ELSE {}
                written == FileExists(req.br, p, req.info[p])
            IN  /\ router' = [router EXCEPT ![req.br][p] =
                                IF ~written THEN @
                                ELSE IF req.op = "create" THEN 2
                                ELSE IF @ = 2 THEN 1 ELSE @]
                /\ gone' = gone \ asked /\ spoiled' = spoiled \ asked
                /\ undone' = IF written THEN undone \ {<<req.br, p>>} ELSE undone
                /\ req' = IF req.op = "delete" THEN [req EXCEPT !.at = "clear"]
                          ELSE IF written THEN [req EXCEPT !.todo = Tail(@)]
                          ELSE [req EXCEPT !.at = "cache"]
  /\ UNCHANGED <<nasVars, brif, mdb, snooping, grace, hash_max, cacheVars,
                 static_mrouter_set, hashmax_cfg_q, lock, poll, subVars,
                 tainted, n_req, n_env>>

(* An entry that is there already stays as it is, with its old name: the   *)
(* names are not part of McastRouterInfo's equality.                       *)
update_static_mrouter_cache ==
  /\ req.at = "cache" /\ ~lock
  /\ LET p == Head(req.todo)
     IN  static_mrouter_set' = [static_mrouter_set EXCEPT ![req.br][p] =
                                  IF @ = "no" THEN req.info[p] ELSE @]
  /\ req' = [req EXCEPT !.at = "router", !.todo = Tail(@)]
  /\ UNCHANGED <<nasVars, kernelVars, cacheVars, hashmax_cfg_q, lock, poll,
                 subVars, histVars, n_req, n_env>>

(* Mutant: the entry stays.                                                *)
ForgetNothing(p) == static_mrouter_set

Forget(p) == [static_mrouter_set EXCEPT ![req.br][p] = "no"]

clear_static_mrouter_cache ==
  /\ req.at = "clear" /\ ~lock
  /\ LET p == Head(req.todo)
     IN  /\ static_mrouter_set' = Forget(p)
         /\ gone' = gone \cup {<<req.br, p>>}
         /\ spoiled' = (spoiled \ {<<req.br, p>>}) \cup ({<<req.br, p>>} \cap undone)
  /\ req' = [req EXCEPT !.at = "router", !.todo = Tail(@)]
  /\ UNCHANGED <<nasVars, kernelVars, cacheVars, hashmax_cfg_q, lock, poll,
                 subVars, tainted, undone, n_req, n_env>>

(* A static group: bridge mdb add or del, which the kernel refuses for a   *)
(* name that is not a port of the bridge.                                  *)
StaticGroup ==
  /\ req.at = "group"
  /\ LET p == Head(req.todo)
         entry == <<req.br, p, req.grp>>
     IN  mdb' = IF ~FileExists(req.br, p, req.info[p]) THEN mdb
                ELSE IF req.op = "create" THEN mdb \cup {entry}
                ELSE mdb \ {entry}
  /\ req' = NoRequest
  /\ UNCHANGED <<nasVars, brif, router, snooping, grace, hash_max, cacheVars,
                 static_mrouter_set, hashmax_cfg_q, lock, poll, subVars,
                 histVars, n_req, n_env>>

(* What a flush of bridge v leaves in the sets.                            *)
(* Mutants: it only empties the maps.                                      *)
AllMrouters(v) == mrouter_set

AllGroups(v) == group_set

KeptMrouters(v) == {m \in mrouter_set : ~(m[1] = v /\ m[2] \in br_mrouter_map[v])}

KeptGroups(v) == group_set \ br_group_map[v]

(* Snooping disabled on a VLAN: what is cached of its bridge is dropped    *)
(* first, without events.                                                  *)
flush_cache ==
  /\ req.at = "flush" /\ ~lock
  /\ LET v == req.br
     IN  /\ mrouter_set' = KeptMrouters(v)
         /\ br_mrouter_map' = [br_mrouter_map EXCEPT ![v] = {}]
         /\ group_set' = KeptGroups(v)
         /\ br_group_map' = [br_group_map EXCEPT ![v] = {}]
  /\ req' = [req EXCEPT !.at = "write"]
  /\ UNCHANGED <<nasVars, kernelVars, static_mrouter_set, hashmax_cfg_q, lock,
                 poll, subVars, histVars, n_req, n_env>>

(* Then the file is written; the kernel rebuilds its table when snooping   *)
(* starts, and refuses hash_max meanwhile.                                 *)
SetSnooping ==
  /\ req.at = "write"
  /\ snooping' = [snooping EXCEPT ![req.br] = (req.val = 1)]
  /\ grace' = IF req.val = 1 /\ ~snooping[req.br] THEN grace \cup {req.br} ELSE grace
  /\ req' = [req EXCEPT !.at = "publish"]
  /\ UNCHANGED <<nasVars, brif, router, mdb, hash_max, cacheVars,
                 static_mrouter_set, hashmax_cfg_q, lock, poll, subVars,
                 histVars, n_req, n_env>>

(* Then the new state is published, and hash_max is put in the queue if    *)
(* snooping was enabled.                                                   *)
PublishSnooping ==
  /\ req.at = "publish"
  /\ IF req.val = 1
       THEN /\ hashmax_cfg_q' = Append(hashmax_cfg_q, [br |-> req.br, try |-> 0])
            /\ UNCHANGED subVars
       ELSE /\ sub_mrouters' = {m \in sub_mrouters : m[1] # req.br}
            /\ sub_groups' = {g \in sub_groups : g[1] # req.br}
            /\ UNCHANGED hashmax_cfg_q
  /\ req' = NoRequest
  /\ UNCHANGED <<nasVars, kernelVars, cacheVars, static_mrouter_set, lock, poll,
                 histVars, n_req, n_env>>
-----------------------------------------------------------------------------
(* The static router ports that are remembered.                            *)
(* Mutant: only those of untagged ports.                                   *)
UntaggedStaticMrouters ==
  {m \in Vlans \X Ports : static_mrouter_set[m[1]][m[2]] = "untagged"}

get_all_static_mrouter_cache ==
  {m \in Vlans \X Ports : static_mrouter_set[m[1]][m[2]] # "no"}

(* One round of run: with the lock held, first every static router port    *)
(* that is remembered is tried again.                                      *)
StartPolling ==
  /\ poll.at = "start" /\ ~lock
  /\ lock' = TRUE
  /\ poll' = [Waiting EXCEPT !.at = "apply", !.todo = get_all_static_mrouter_cache]
  /\ UNCHANGED <<nasVars, kernelVars, cacheVars, static_mrouter_set, hashmax_cfg_q,
                 req, subVars, histVars, n_req, n_env>>

(* A write that succeeds takes the entry out of the set.  One that comes   *)
(* while a delete of the same port is under way may undo the delete.       *)
apply_static_mrouter_configs ==
  /\ poll.at = "apply"
  /\ \E m \in poll.todo :
       LET v == m[1]
           p == m[2]
           written == FileExists(v, p, static_mrouter_set[v][p])
           deleting == /\ req.op = "delete" /\ req.at \in {"router", "clear"}
                       /\ req.br = v /\ \E i \in DOMAIN req.todo : req.todo[i] = p
       IN  /\ poll' = [poll EXCEPT !.todo = @ \ {m}]
           /\ IF written
                THEN /\ router' = [router EXCEPT ![v][p] = 2]
                     /\ static_mrouter_set' = [static_mrouter_set EXCEPT ![v][p] = "no"]
                     /\ undone' = IF deleting THEN undone \cup {m} ELSE undone
                ELSE UNCHANGED <<router, static_mrouter_set, undone>>
  /\ UNCHANGED <<nasVars, brif, mdb, snooping, grace, hash_max, cacheVars,
                 hashmax_cfg_q, lock, req, subVars, tainted, gone, spoiled, n_req, n_env>>

(* What bridge mdb show tells: the router ports, static or learnt, and the *)
(* groups of the bridges that snoop.                                       *)
ShownMrouters == {m \in Vlans \X Ports : router[m[1]][m[2]] # 1}
ShownGroups == {g \in mdb : snooping[g[1]]}

(* The end of a round.                                                     *)
Leave == poll' = Waiting /\ lock' = FALSE

(* Then the database is read; if that fails the round is over.             *)
get_igmp_snooping_route ==
  /\ poll.at = "apply" /\ poll.todo = {}
  /\ \/ /\ poll' = [poll EXCEPT !.at = "mrouters", !.mrouters = ShownMrouters,
                                !.groups = ShownGroups]
        /\ UNCHANGED lock
     \/ Leave
  /\ UNCHANGED <<nasVars, kernelVars, cacheVars, static_mrouter_set, hashmax_cfg_q,
                 req, subVars, histVars, n_req, n_env>>

(* The VLANs of the items whose events go out: those looked up before in   *)
(* this round, and those that nas-interface finds now.  The others are     *)
(* skipped.                                                                *)
Resolved == poll.vlan_map \cup known

VlansOf(items) == {x[1] : x \in items}

(* Whose events do not tell subscribers what the cache says: those of VLANs *)
(* not found, and of one that is being disabled and was flushed already.   *)
Overtaken(changed) ==
  (VlansOf(changed) \ Resolved)
    \cup (IF req.at \in {"write", "publish"} /\ req.val = 0
            THEN VlansOf(changed) \cap {req.br} ELSE {})

UpdateMrouters ==
  /\ poll.at = "mrouters"
  /\ LET del_set == mrouter_set \ poll.mrouters
         add_set == poll.mrouters \ mrouter_set
         told(items) == {m \in items : m[1] \in Resolved}
     IN  /\ sub_mrouters' = (sub_mrouters \ told(del_set)) \cup told(add_set)
         /\ br_mrouter_map' = [v \in Vlans |->
              (br_mrouter_map[v] \ {p \in Ports : <<v, p>> \in del_set})
                \cup {p \in Ports : <<v, p>> \in add_set}]
         /\ mrouter_set' = poll.mrouters
         /\ poll' = [poll EXCEPT !.at = "groups",
                       !.vlan_map = @ \cup (VlansOf(del_set \cup add_set) \cap Resolved)]
         /\ tainted' = tainted \cup Overtaken(del_set \cup add_set)
  /\ UNCHANGED <<nasVars, kernelVars, group_set, br_group_map, static_mrouter_set,
                 hashmax_cfg_q, lock, req, sub_groups, gone, undone, spoiled,
                 n_req, n_env>>

UpdateGroups ==
  /\ poll.at = "groups"
  /\ LET del_set == group_set \ poll.groups
         add_set == poll.groups \ group_set
         told(items) == {g \in items : g[1] \in Resolved}
     IN  /\ sub_groups' = (sub_groups \ told(del_set)) \cup told(add_set)
         /\ br_group_map' = [v \in Vlans |->
              (br_group_map[v] \ del_set) \cup {g \in add_set : g[1] = v}]
         /\ group_set' = poll.groups
         /\ tainted' = tainted \cup Overtaken(del_set \cup add_set)
  /\ Leave
  /\ UNCHANGED <<nasVars, kernelVars, mrouter_set, br_mrouter_map,
                 static_mrouter_set, hashmax_cfg_q, req, sub_mrouters, gone,
                 undone, spoiled, n_req, n_env>>

(* Mutant: do_polling is not set again.                                    *)
StillWaiting == poll

PollNow == [poll EXCEPT !.at = "start"]

(* No task within the rest of the five seconds: the next round.            *)
QueueEmpty ==
  /\ poll.at = "wait" /\ hashmax_cfg_q = <<>>
  /\ poll' = PollNow
  /\ UNCHANGED <<nasVars, kernelVars, cacheVars, static_mrouter_set, hashmax_cfg_q,
                 lock, req, subVars, histVars, n_req, n_env>>

(* Whether a task that failed goes back to the queue.                      *)
(* Mutant: once too often.                                                 *)
TryOnceMore(tries) == tries <= MaxTry

TryAgain(tries) == tries < MaxTry

(* A task: hash_max is written, or the task goes back to the end of the    *)
(* queue until it was tried MaxTry times.  Afterwards the next round is    *)
(* due if the five seconds were used up waiting for the task.              *)
SetHashMax ==
  /\ poll.at = "wait" /\ hashmax_cfg_q # <<>>
  /\ LET task == Head(hashmax_cfg_q)
         tries == task.try + 1
     IN  /\ hash_max' = IF task.br \in grace THEN hash_max ELSE hash_max \cup {task.br}
         /\ hashmax_cfg_q' = IF task.br \in grace /\ TryAgain(tries)
                               THEN Append(Tail(hashmax_cfg_q), [task EXCEPT !.try = tries])
                               ELSE Tail(hashmax_cfg_q)
  /\ poll' \in {poll, PollNow}
  /\ UNCHANGED <<nasVars, brif, router, mdb, snooping, grace, cacheVars,
                 static_mrouter_set, lock, req, subVars, histVars, n_req, n_env>>
-----------------------------------------------------------------------------
(* The surroundings.  nas-interface changes the membership of a port, and  *)
(* makes the kernel follow.                                                *)
ChangeMember ==
  /\ n_env < MaxEnv /\ n_env' = n_env + 1
  /\ \E v \in Vlans, p \in Ports, t \in Tags :
       /\ brif[v][p] = member[v][p] /\ t # member[v][p]
       /\ member' = [member EXCEPT ![v][p] = t]
  /\ UNCHANGED <<known, kernelVars, cacheVars, static_mrouter_set, hashmax_cfg_q,
                 lock, poll, req, subVars, histVars, n_req>>

(* A port that leaves loses its groups, one that comes has the defaults.   *)
KernelFollows ==
  /\ \E v \in Vlans, p \in Ports :
       /\ brif[v][p] # member[v][p]
       /\ brif' = [brif EXCEPT ![v][p] = member[v][p]]
       /\ router' = [router EXCEPT ![v][p] = 1]
       /\ mdb' = {g \in mdb : ~(g[1] = v /\ g[2] = p)}
  /\ UNCHANGED <<nasVars, snooping, grace, hash_max, cacheVars, static_mrouter_set,
                 hashmax_cfg_q, lock, poll, req, subVars, histVars, n_req, n_env>>

(* The kernel learns a group or a router on a port, or it ages out.        *)
LearnOrAge ==
  /\ n_env < MaxEnv /\ n_env' = n_env + 1
  /\ \/ /\ \E v \in Vlans, p \in Ports, g \in Groups :
             \/ /\ snooping[v] /\ brif[v][p] # "no" /\ <<v, p, g>> \notin mdb
                /\ mdb' = mdb \cup {<<v, p, g>>}
             \/ <<v, p, g>> \in mdb /\ mdb' = mdb \ {<<v, p, g>>}
        /\ UNCHANGED router
     \/ /\ \E v \in Vlans, p \in Ports :
             \/ /\ snooping[v] /\ brif[v][p] # "no" /\ router[v][p] = 1
                /\ router' = [router EXCEPT ![v][p] = Heard]
             \/ /\ router[v][p] = Heard
                /\ router' = [router EXCEPT ![v][p] = 1]
        /\ UNCHANGED mdb
  /\ UNCHANGED <<nasVars, brif, snooping, grace, hash_max, cacheVars,
                 static_mrouter_set, hashmax_cfg_q, lock, poll, req, subVars,
                 histVars, n_req>>

(* nas-interface stops or starts finding a VLAN.                           *)
ChangeKnown ==
  /\ n_env < MaxEnv /\ n_env' = n_env + 1
  /\ \E v \in Vlans : known' = IF v \in known THEN known \ {v} ELSE known \cup {v}
  /\ UNCHANGED <<member, kernelVars, cacheVars, static_mrouter_set, hashmax_cfg_q,
                 lock, poll, req, subVars, histVars, n_req>>

(* The kernel has released its old table.                                  *)
GraceEnds ==
  /\ \E v \in grace : grace' = grace \ {v}
  /\ UNCHANGED <<nasVars, brif, router, mdb, snooping, hash_max, cacheVars,
                 static_mrouter_set, hashmax_cfg_q, lock, poll, req, subVars,
                 histVars, n_req, n_env>>

Polling ==
  \/ StartPolling \/ apply_static_mrouter_configs \/ get_igmp_snooping_route
  \/ UpdateMrouters \/ UpdateGroups \/ QueueEmpty \/ SetHashMax

Handling ==
  \/ StaticMrouter \/ update_static_mrouter_cache \/ clear_static_mrouter_cache
  \/ StaticGroup \/ flush_cache \/ SetSnooping \/ PublishSnooping

Next ==
  \/ handle_configs_fs \/ Handling \/ Polling
  \/ ChangeMember \/ KernelFollows \/ LearnOrAge \/ ChangeKnown \/ GraceEnds

(* Both threads go on; the request thread gets the lock between rounds in  *)
(* the end, as Polling lets go of it; a grace period ends.                 *)
Fairness == WF_vars(Polling) /\ SF_vars(Handling) /\ WF_vars(GraceEnds)

Spec == Init /\ [][Next]_vars /\ Fairness
-----------------------------------------------------------------------------
Mrouters == Vlans \X Ports
Entries == Vlans \X Ports \X Groups

(* The state is well formed.                                               *)
TypeOK ==
  /\ known \subseteq Vlans /\ grace \subseteq Vlans /\ hash_max \subseteq Vlans
  /\ member \in [Vlans -> [Ports -> Tags]] /\ brif \in [Vlans -> [Ports -> Tags]]
  /\ static_mrouter_set \in [Vlans -> [Ports -> Tags]]
  /\ router \in [Vlans -> [Ports -> {1, 2, Heard}]]
  /\ mdb \subseteq Entries /\ group_set \subseteq Entries /\ sub_groups \subseteq Entries
  /\ snooping \in [Vlans -> BOOLEAN]
  /\ mrouter_set \subseteq Mrouters /\ sub_mrouters \subseteq Mrouters
  /\ br_mrouter_map \in [Vlans -> SUBSET Ports]
  /\ br_group_map \in [Vlans -> SUBSET Entries]
  /\ hashmax_cfg_q \in Seq([br : Vlans, try : 0 .. MaxTry - 1])
  /\ lock \in BOOLEAN
  /\ tainted \subseteq Vlans 
  /\ gone \subseteq Mrouters /\ undone \subseteq Mrouters /\ spoiled \subseteq gone

(* The maps by bridge, from which flush_cache takes what to drop, hold     *)
(* exactly what the sets hold: nothing of a bridge survives its flush.     *)
CacheMapsAgree ==
  \A v \in Vlans :
    /\ br_mrouter_map[v] = {p \in Ports : <<v, p>> \in mrouter_set}
    /\ br_group_map[v] = {g \in group_set : g[1] = v}

Disabling(v) == req.at \in {"write", "publish"} /\ req.br = v /\ req.val = 0

(* What subscribers know of VLAN v from the events is what is cached of it. *)
SubscribersKnow(v) ==
  /\ {m \in sub_mrouters : m[1] = v} = {m \in mrouter_set : m[1] = v}
  /\ {g \in sub_groups : g[1] = v} = {g \in group_set : g[1] = v}

(* What subscribers know of a VLAN from the events is what the cache holds *)
(* of it, and so what the last round read, however polls and requests      *)
(* interleave; except between the flush and the event of a disable, and    *)
(* after a round that did not find the VLAN, or that ran in that interval. *)
SubscribersMatchCache ==
  \A v \in Vlans \ tainted : ~Disabling(v) => SubscribersKnow(v)

(* A static router port whose delete returned success, also one that left  *)
(* the VLAN before, is neither remembered for the next round nor set in a  *)
(* kernel that has followed nas-interface, whatever rounds and changes of  *)
(* membership come before, between and after; unless a round applied it    *)
(* after the delete had written the file, or the delete was dropped at a   *)
(* port that is no member while this one was remembered or behind it.      *)
DeletedStaysDeletedUnlessSpoiled ==
  \A m \in gone \ spoiled :
    LET v == m[1]
        p == m[2]
    IN  /\ ~Remembered(m)
        /\ brif[v][p] = member[v][p] => router[v][p] # 2

(* A static router port that is remembered is applied once the bridge has  *)
(* the port under the name remembered.                                     *)
StaticApplied ==
  \A v \in Vlans, p \in Ports, t \in Tags \ {"no"} :
    (static_mrouter_set[v][p] = t /\ brif[v][p] = t)
      ~> (static_mrouter_set[v][p] # t \/ brif[v][p] # t)

(* Neither retries of hash_max nor a round that failed keep the thread     *)
(* from its next round.                                                    *)
PollsForever == []<>(poll.at = "apply")
=============================================================================
