------------------------- MODULE IncomingSvcsRules -------------------------
(***************************************************************************)
(* The cache of incoming service rules (VrfIncomingSvcsRuleCache in        *)
(* scripts/lib/python/dn_base_vrf_svcs_config.py), the id generator it     *)
(* draws from and the iptables chains it programs by position.             *)
(*                                                                         *)
(* Every method holds the class mutex from its first to its last access to *)
(* the lists, so a method is one action; only the release of a deleted     *)
(* rule's id comes after the mutex is dropped, and is an action of its     *)
(* own.  The callers are threads of base_vrf.py: the CPS callbacks, one    *)
(* after another under _vrf_mutex, and the main thread, which adds and     *)
(* deletes its loopback rule without it.                                   *)
(***************************************************************************)
EXTENDS Integers, RuleList

CONSTANTS
  Threads,
  Chains,      \* one per address family, VRF and rule type
  Vrfs,        \* the VRFs other than the default one
  VrfOf,       \* [Chains -> Vrfs \cup {None}]; None is the default VRF
  Keys,        \* what is_rule_equal compares
  Negs,        \* whether the interface match is negated
  Seqs,        \* the sort keys (grp_priority, seq_num), numbered in order
  RuleIds,     \* the ids that callers ask for by number
  FailSets,    \* the sets of commands, of "insert", "delete", "show", that may fail
  None

ASSUME VrfOfAssumption == VrfOf \in [Chains -> Vrfs \cup {None}]
ASSUME NegsAssumption == Negs \subseteq BOOLEAN
ASSUME SeqsAssumption == Seqs \subseteq Int
ASSUME RuleIdsAssumption == RuleIds \subseteq Nat \ {0}
ASSUME NoneAssumption == None \notin Int /\ None \notin Vrfs

ASSUME FailSetsAssumption == FailSets \subseteq SUBSET {"insert", "delete", "show"}

VARIABLES
  may_fail,    \* the commands that may fail in this behaviour
  lists,       \* the rule list of each chain; a missing list is an empty one
  resved_ids,  \* ids reserved in the id generator
  pend,        \* the id a thread has yet to release, or None
  netns,       \* the VRFs whose network namespace exists
  known,       \* the VRFs that _vrf_name_to_id lists
  ready,       \* the chains that exist in the kernel
  chain,       \* their content: sequences of rule specifications
  marred       \* history: the chains with a delete refused or skipped, or flushed

vars == <<may_fail, lists, resved_ids, pend, netns, known, ready, chain, marred>>

ChainsOf(v) == {c \in Chains : VrfOf[c] = v}

(* The chains of the default VRF are set up before the first rule.         *)
Init ==
  /\ may_fail \in FailSets
  /\ lists = [c \in Chains |-> EmptyList]
  /\ resved_ids = {}
  /\ pend = [t \in Threads |-> None]
  /\ netns = {} /\ known = {}
  /\ ready = ChainsOf(None)
  /\ chain = [c \in Chains |-> <<>>]
  /\ marred = {}

-----------------------------------------------------------------------------
(* The iptables commands of IptablesHandler.proc_rule, which name a rule   *)
(* by its position.  A position that the chain does not have makes the     *)
(* command fail, and any command may fail for reasons of its own (the      *)
(* xtables lock, a namespace that just went away).                         *)
SpecOf(r) == [key |-> r.key, neg |-> r.neg]

CanRun(c, pos, len) == c \in ready /\ pos <= len

CanFail(op, c, pos, len) == op \in may_fail \/ ~CanRun(c, pos, len)

(* A delete runs no command, and succeeds, when "ip netns show" does not   *)
(* list the VRF, or fails.                                                 *)
Bypass(c) == VrfOf[c] \notin netns \cup {None}

MayBypass(c) == Bypass(c) \/ ("show" \in may_fail /\ VrfOf[c] # None)

(* Mutant: iptables counts positions from 1, the list from 0. *)
DeleteOffByOne(c, idx) ==
  IF ~Bypass(c) /\ CanRun(c, idx, Len(chain[c])) THEN {RemoveAt(chain[c], idx)} ELSE {}

(* What is left of a chain after a successful delete of position idx.      *)
DeleteResults(c, idx) ==
  (IF MayBypass(c) THEN {chain[c]} ELSE {})
  \cup (IF ~Bypass(c) /\ CanRun(c, idx + 1, Len(chain[c]))
          THEN {RemoveAt(chain[c], idx + 1)} ELSE {})

(* History: the chain keeps a rule that the list gives up.                 *)
Skipped(c, ch) == IF ch = chain[c] THEN {c} \cap ready ELSE {}

DeleteCanFail(c, idx) == ~Bypass(c) /\ CanFail("delete", c, idx + 1, Len(chain[c]))

-----------------------------------------------------------------------------
(* The id a new rule gets: the one asked for, or the lowest free one.      *)
NewIds(asked) ==
  IF asked # None
    THEN {asked} \ resved_ids
    ELSE {i \in {1} \cup {j + 1 : j \in resved_ids} :
            i \notin resved_ids /\ \A j \in 1 .. (i - 1) : j \in resved_ids}

(* A thread that still has to release an id is in the middle of a call.    *)
Idle(t) == pend[t] = None

InsertRule(t, c, r) ==
  /\ Idle(t) /\ CanInsert(lists[c], r)
  /\ LET idx == InsertPos(lists[c], r)
     IN  /\ CanRun(c, idx + 1, Len(chain[c]) + 1)
         /\ chain' = [chain EXCEPT ![c] = InsertAt(@, idx + 1, SpecOf(r))]
  /\ lists' = [lists EXCEPT ![c] = Insert(@, r)]
  /\ resved_ids' = resved_ids \cup {r.id}
  /\ UNCHANGED <<pend, netns, known, ready, marred>>

(* iptables refuses the rule: it is taken out of the list again, but its   *)
(* id stays reserved.                                                      *)
InsertRuleFails(t, c, r) ==
  /\ Idle(t) /\ CanInsert(lists[c], r)
  /\ LET idx == InsertPos(lists[c], r)
     IN  /\ CanFail("insert", c, idx + 1, Len(chain[c]) + 1)
         /\ lists' = [lists EXCEPT ![c] = RemovePos(Insert(@, r), idx)]
  /\ resved_ids' = resved_ids \cup {r.id}
  /\ UNCHANGED <<pend, netns, known, ready, chain, marred>>

(* delete_rule and delete_rule_by_id, once they have found the rule.       *)
DeletePos(t, c, idx) ==
  /\ Idle(t)
  /\ \E ch \in DeleteResults(c, idx) :
       /\ chain' = [chain EXCEPT ![c] = ch]
       /\ marred' = marred \cup Skipped(c, ch)
  /\ lists' = [lists EXCEPT ![c] = RemovePos(@, idx)]
  /\ pend' = [pend EXCEPT ![t] = lists[c].rules[idx + 1].id]
  /\ UNCHANGED <<resved_ids, netns, known, ready>>

(* Mutant: the id is released although the rule was kept. *)
DeletePosFailsReleasing(t, c, idx) ==
  /\ Idle(t)
  /\ DeleteCanFail(c, idx)
  /\ lists' = [lists EXCEPT ![c] = Insert(RemovePos(@, idx), @.rules[idx + 1])]
  /\ pend' = [pend EXCEPT ![t] = lists[c].rules[idx + 1].id]
  /\ marred' = marred \cup ({c} \cap ready)
  /\ UNCHANGED <<resved_ids, netns, known, ready, chain>>

(* iptables refuses: the rule goes back into the list, by its sort key.    *)
DeletePosFails(t, c, idx) ==
  /\ Idle(t)
  /\ DeleteCanFail(c, idx)
  /\ lists' = [lists EXCEPT ![c] = Insert(RemovePos(@, idx), @.rules[idx + 1])]
  /\ marred' = marred \cup ({c} \cap ready)
  /\ UNCHANGED <<resved_ids, pend, netns, known, ready, chain>>

DeleteRule(t, c, r) ==
  /\ HasEqual(lists[c], r)
  /\ \/ DeletePos(t, c, IndexOf(lists[c], r))
     \/ DeletePosFails(t, c, IndexOf(lists[c], r))

DeleteRuleById(t, c, i) ==
  /\ i \in DOMAIN lists[c].rule_id_map
  /\ \/ DeletePos(t, c, lists[c].rule_id_map[i])
     \/ DeletePosFails(t, c, lists[c].rule_id_map[i])

(* The call of release_id that follows the delete, outside the mutex.      *)
ReleaseId(t) ==
  /\ pend[t] # None
  /\ resved_ids' = resved_ids \ {pend[t]}
  /\ pend' = [pend EXCEPT ![t] = None]
  /\ UNCHANGED <<lists, netns, known, ready, chain, marred>>

(* update_rule turns rule r at position idx into u.  It does nothing when  *)
(* u changes nothing or another rule equals u.  The "!" of an interface is *)
(* no attribute of its own: naming the same interface without it is no     *)
(* change, so a negated match stays negated.                               *)
UpdateStarts(t, c, idx, u) ==
  LET r == lists[c].rules[idx + 1]
  IN  /\ Idle(t)
      /\ u # r /\ u.id = r.id
      /\ u.key = r.key => u.neg \in {TRUE, r.neg}
      /\ HasEqual(lists[c], u) => lists[c].rules[IndexOf(lists[c], u) + 1].id = r.id

UpdateReplaces(t, c, idx, u) ==
  /\ UpdateStarts(t, c, idx, u)
  /\ u.seq = lists[c].rules[idx + 1].seq
  /\ CanRun(c, idx + 1, Len(chain[c]))
  /\ chain' = [chain EXCEPT ![c][idx + 1] = SpecOf(u)]
  /\ lists' = [lists EXCEPT ![c] = Replace(@, idx, u)]
  /\ UNCHANGED <<resved_ids, pend, netns, known, ready, marred>>

(* A change of seq_num deletes the rule, which frees its id at once, and   *)
(* inserts it anew with the same id.                                       *)
UpdateMoves(t, c, idx, u) ==
  /\ UpdateStarts(t, c, idx, u)
  /\ u.seq # lists[c].rules[idx + 1].seq
  /\ LET rest == RemovePos(lists[c], idx)
         pos == InsertPos(rest, u) + 1
     IN  /\ lists' = [lists EXCEPT ![c] = Insert(rest, u)]
         /\ \E ch \in DeleteResults(c, idx) :
              /\ CanRun(c, pos, Len(ch) + 1)
              /\ chain' = [chain EXCEPT ![c] = InsertAt(ch, pos, SpecOf(u))]
              /\ marred' = marred \cup Skipped(c, ch)
  /\ UNCHANGED <<resved_ids, pend, netns, known, ready>>

(* iptables takes the delete but refuses the insert.  insert_rule leaves   *)
(* the id reserved, so that putting the old rule back is refused as well.  *)
UpdateLoses(t, c, idx, u) ==
  /\ UpdateStarts(t, c, idx, u)
  /\ u.seq # lists[c].rules[idx + 1].seq
  /\ LET rest == RemovePos(lists[c], idx)
         pos == InsertPos(rest, u) + 1
     IN  /\ lists' = [lists EXCEPT ![c] = RemovePos(Insert(rest, u), pos - 1)]
         /\ \E ch \in DeleteResults(c, idx) :
              /\ CanFail("insert", c, pos, Len(ch) + 1)
              /\ chain' = [chain EXCEPT ![c] = ch]
              /\ marred' = marred \cup Skipped(c, ch)
  /\ UNCHANGED <<resved_ids, pend, netns, known, ready>>

UpdateRule(t, c, i, u) ==
  /\ i \in DOMAIN lists[c].rule_id_map
  /\ LET idx == lists[c].rule_id_map[i]
     IN  \/ UpdateReplaces(t, c, idx, u)
         \/ UpdateMoves(t, c, idx, u)
         \/ UpdateLoses(t, c, idx, u)
         \/ /\ UpdateStarts(t, c, idx, u) /\ u.seq # lists[c].rules[idx + 1].seq
            /\ DeletePosFails(t, c, idx)
-----------------------------------------------------------------------------
(* clear_all_rules deletes every rule of a VRF by its specification and    *)
(* ignores failures: a delete takes the first rule that matches.           *)
SpecsIn(c) == {SpecOf(lists[c].rules[k]) : k \in DOMAIN lists[c].rules}

(* The specifications of a chain whose delete fails.                       *)
Refusals(c) ==
  IF c \in ready /\ may_fail \cap {"delete", "show"} # {} THEN SUBSET SpecsIn(c) ELSE {{}}

Cleared(c, failed) ==
  LET gone == {k \in DOMAIN chain[c] :
                 /\ chain[c][k] \in SpecsIn(c) \ failed
                 /\ \A j \in 1 .. (k - 1) : chain[c][j] # chain[c][k]}
      rest == DOMAIN chain[c] \ gone
      kept == CHOOSE f \in [1 .. Cardinality(rest) -> rest] :
                \A j, k \in DOMAIN f : j < k => f[j] < f[k]
  IN  [k \in DOMAIN kept |-> chain[c][kept[k]]]

(* Creating a VRF first clears what the cache still has for its name.      *)
(* "ip netns add" fails if the namespace exists; a failure further on      *)
(* leaves the name unknown, or only some of the chains made.               *)
VrfCreate(v) ==
  /\ lists' = [c \in Chains |-> IF VrfOf[c] = v THEN EmptyList ELSE lists[c]]
  /\ resved_ids' = resved_ids \ UNION {Ids(lists[c]) : c \in ChainsOf(v)}
  /\ \E failed \in [ChainsOf(v) -> UNION {Refusals(c) : c \in ChainsOf(v)}] :
       /\ \A c \in ChainsOf(v) : failed[c] \in Refusals(c)
       /\ chain' = [c \in Chains |-> IF VrfOf[c] = v THEN Cleared(c, failed[c]) ELSE chain[c]]
       /\ marred' = marred \cup {c \in ChainsOf(v) : failed[c] # {}}
  /\ \/ UNCHANGED <<netns, known, ready>>
     \/ /\ v \notin netns
        /\ netns' = netns \cup {v}
        /\ \/ UNCHANGED <<known, ready>>
           \/ /\ known' = known \cup {v}
              /\ \E made \in SUBSET ChainsOf(v) : ready' = ready \cup made
  /\ UNCHANGED pend

(* Deleting a VRF flushes and removes its chains one by one, whatever      *)
(* fails, and then removes its namespace, without a look at the cache.     *)
(* The chains are all gone with the namespace; if that stays, because its  *)
(* removal or a step before it failed, each chain is as it was, flushed,   *)
(* or gone.                                                                *)
VrfDelete(v) ==
  /\ v \in known
  /\ \E gone \in SUBSET ChainsOf(v) : \E flushed \in SUBSET (ChainsOf(v) \ gone) :
       /\ chain' = [c \in Chains |-> IF c \in gone \cup flushed THEN <<>> ELSE chain[c]]
       /\ ready' = ready \ gone
       /\ marred' = (marred \cup {c \in flushed : chain[c] # <<>>}) \ gone
       /\ \/ /\ gone = ChainsOf(v)
             /\ netns' = netns \ {v} /\ known' = known \ {v}
          \/ /\ known' \in {known, known \ {v}}
             /\ UNCHANGED netns
  /\ UNCHANGED <<lists, resved_ids, pend>>

Rules == [key : Keys, neg : Negs, seq : Seqs]

WithId(r, i) == [key |-> r.key, neg |-> r.neg, seq |-> r.seq, id |-> i]

Call ==
  \/ \E t \in Threads, c \in Chains, r \in Rules :
       \/ \E asked \in RuleIds \cup {None} : \E i \in NewIds(asked) :
            InsertRule(t, c, WithId(r, i)) \/ InsertRuleFails(t, c, WithId(r, i))
       \/ DeleteRule(t, c, r)
       \/ \E i \in resved_ids : UpdateRule(t, c, i, WithId(r, i))
  \/ \E t \in Threads, c \in Chains, i \in resved_ids : DeleteRuleById(t, c, i)
  \/ \E t \in Threads : ReleaseId(t)
  \/ \E v \in Vrfs : VrfCreate(v) \/ VrfDelete(v)

Next == Call /\ UNCHANGED may_fail

Spec == Init /\ [][Next]_vars
-----------------------------------------------------------------------------
(* The state has its shape. *)
TypeOK ==
  /\ \A c \in Chains : lists[c].rules \in Seq([key : Keys, neg : Negs, seq : Seqs, id : Nat])
  /\ resved_ids \subseteq Nat \ {0}
  /\ pend \in [Threads -> Nat \cup {None}]
  /\ known \subseteq netns /\ netns \subseteq Vrfs
  /\ marred \subseteq ready /\ ready \subseteq Chains
  /\ DOMAIN chain = Chains

(* The parallel structures of every list agree, whatever was inserted,     *)
(* rolled back or moved: a rule is found at the position its id maps to.   *)
ListsConsistent == \A c \in Chains : MapExact(lists[c])

(* Every list is sorted and has no two equal rules, so that the first      *)
(* match of a delete or an update is the only one.                         *)
ListsOrdered == \A c \in Chains : SortedBySeq(lists[c]) /\ NoEqualRules(lists[c])

(* Every list is what find_rule, delete_rule and update_rule take it to    *)
(* be: of the right types, without stale positions, sorted, without        *)
(* doubles.                                                                *)
WellFormed == TypeOK /\ ListsConsistent /\ ListsOrdered

(* An id names one rule only: ids of cached rules are reserved, no two     *)
(* rules share one, and an id that a thread is about to release belongs    *)
(* to no rule and to no other thread's release.                            *)
IdsOwned ==
  /\ \A c \in Chains : Ids(lists[c]) \subseteq resved_ids
  /\ \A c, d \in Chains : c # d => Ids(lists[c]) \cap Ids(lists[d]) = {}
  /\ \A t \in Threads : pend[t] # None =>
       /\ pend[t] \in resved_ids
       /\ \A c \in Chains : pend[t] \notin Ids(lists[c])
       /\ \A u \in Threads \ {t} : pend[u] # pend[t]

(* check_ipt_rules calls a cache in sync when it lists the kernel's rules  *)
(* in the kernel's order: a command that names a position hits the rule    *)
(* it is meant for.                                                        *)
InSync(c) == chain[c] = [k \in DOMAIN lists[c].rules |-> SpecOf(lists[c].rules[k])]

(* Failures of inserts, of VRF creation and of VRF deletion at any step,   *)
(* and refused deletes of other chains, leave the cache in sync with every *)
(* chain that exists.  What breaks it is named one by one: a delete of the *)
(* chain's own rules that is refused, or skipped because "ip netns show"   *)
(* fails, and a VRF deletion that flushes the chain and does not end.      *)
InSyncUnlessMarred == \A c \in ready \ marred : InSync(c)
=============================================================================
