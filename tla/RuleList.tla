------------------------------ MODULE RuleList ------------------------------
(***************************************************************************)
(* The sorted rule list that both rule caches keep per chain               *)
(* (VrfIncomingSvcsRuleList and VrfOutgoingSvcsRuleList of                 *)
(* scripts/lib/python/dn_base_vrf_svcs_config.py): the rules, a parallel   *)
(* list of their sort keys and a map from rule id to position.             *)
(*                                                                         *)
(* A rule is a record [key, neg, seq, id]: key stands for the attributes   *)
(* that is_rule_equal compares (KEY_ATTRS), neg for the "!" of a negated   *)
(* interface, which it does not compare, seq for the pair (grp_priority,   *)
(* seq_num) that orders the list.  Positions count from 0, as in Python.   *)
(***************************************************************************)
EXTENDS Naturals, Sequences, SequencesExt

EmptyList == [rules |-> <<>>, seq_num_list |-> <<>>, rule_id_map |-> [i \in {} |-> 0]]

Equal(r1, r2) == r1.key = r2.key

(* update_rule_id_map: the rules from position start on get their current  *)
(* position, the other entries stay as they are.                           *)
UpdateRuleIdMap(rules, map, start) ==
  LET moved == {rules[k].id : k \in (start + 1) .. Len(rules)}
  IN  [i \in DOMAIN map \cup moved |->
         IF i \in moved
           THEN (CHOOSE k \in (start + 1) .. Len(rules) : rules[k].id = i) - 1
           ELSE map[i]]

(* bisect_right: behind every key that is not greater.                     *)
BisectRight(seqs, seq) ==
  CHOOSE n \in 0 .. Len(seqs) :
    /\ \A k \in 1 .. n : seqs[k] <= seq
    /\ n < Len(seqs) => seqs[n + 1] > seq

(* insert gives no position when the id or an equal rule is in the list.   *)
CanInsert(lst, rule) ==
  /\ rule.id \notin DOMAIN lst.rule_id_map
  /\ \A k \in DOMAIN lst.rules : ~Equal(lst.rules[k], rule)

InsertPos(lst, rule) == BisectRight(lst.seq_num_list, rule.seq)

Insert(lst, rule) ==
  LET idx == InsertPos(lst, rule)
      rules == InsertAt(lst.rules, idx + 1, rule)
  IN  [rules |-> rules,
       seq_num_list |-> InsertAt(lst.seq_num_list, idx + 1, rule.seq),
       rule_id_map |-> UpdateRuleIdMap(rules, lst.rule_id_map, idx)]

Without(map, i) == [j \in DOMAIN map \ {i} |-> map[j]]

(* Mutant: the positions behind the removed rule are not brought up to date. *)
RemovePosStaleMap(lst, idx) ==
  [rules |-> RemoveAt(lst.rules, idx + 1),
   seq_num_list |-> RemoveAt(lst.seq_num_list, idx + 1),
   rule_id_map |-> Without(lst.rule_id_map, lst.rules[idx + 1].id)]

(* The common tail of remove and remove_by_id. *)
RemovePos(lst, idx) ==
  LET rules == RemoveAt(lst.rules, idx + 1)
  IN  [rules |-> rules,
       seq_num_list |-> RemoveAt(lst.seq_num_list, idx + 1),
       rule_id_map |->
         UpdateRuleIdMap(rules, Without(lst.rule_id_map, lst.rules[idx + 1].id), idx)]

(* replace_rule assigns the list element and nothing else. *)
Replace(lst, idx, rule) ==
  [rules |-> ReplaceAt(lst.rules, idx + 1, rule),
   seq_num_list |-> lst.seq_num_list,
   rule_id_map |-> lst.rule_id_map]

HasEqual(lst, rule) == \E k \in DOMAIN lst.rules : Equal(lst.rules[k], rule)

(* list.index: the first equal rule. *)
IndexOf(lst, rule) ==
  CHOOSE n \in 0 .. (Len(lst.rules) - 1) :
    /\ Equal(lst.rules[n + 1], rule)
    /\ \A k \in 1 .. n : ~Equal(lst.rules[k], rule)

Ids(lst) == {lst.rules[k].id : k \in DOMAIN lst.rules}
-----------------------------------------------------------------------------
(* Removing and inserting keep the three structures in step: every rule is *)
(* found at the position the map gives, and its sort key is listed there.  *)
MapExact(lst) ==
  /\ DOMAIN lst.rule_id_map = Ids(lst)
  /\ \A k \in DOMAIN lst.rules : lst.rule_id_map[lst.rules[k].id] = k - 1
  /\ Len(lst.seq_num_list) = Len(lst.rules)
  /\ \A k \in DOMAIN lst.rules : lst.seq_num_list[k] = lst.rules[k].seq

(* The list is in the order in which the kernel has to try the rules.      *)
SortedBySeq(lst) ==
  \A j, k \in DOMAIN lst.rules : j < k => lst.rules[j].seq <= lst.rules[k].seq

(* No two rules of a list are equal: delete by match would find only one.  *)
NoEqualRules(lst) ==
  \A j, k \in DOMAIN lst.rules : Equal(lst.rules[j], lst.rules[k]) => j = k
=============================================================================
