---------------------------- MODULE RuleListProofs ----------------------------
(***************************************************************************)
(* What the operations of RuleList do to a list, whatever set R its rules  *)
(* are taken from: each keeps the three structures of a list in step, its  *)
(* rules sorted and without doubles.  The proofs about both rule caches    *)
(* rest on these lemmas.                                                   *)
(***************************************************************************)
EXTENDS Integers, RuleList, SequenceTheorems, WellFoundedInduction, TLAPS

(* What Python's list.insert(i - 1, e) is given, and what it returns.      *)
Insertable(S, s, i, e) == s \in Seq(S) /\ i \in 1 .. Len(s) + 1 /\ e \in S

Inserted(S, s, i, e, t) ==
  /\ t \in Seq(S) /\ Len(t) = Len(s) + 1
  /\ \A k \in 1 .. Len(s) + 1 : t[k] = IF k < i THEN s[k] ELSE IF k = i THEN e ELSE s[k - 1]

(* It puts e at position i, and what was there and behind moves down.      *)
LEMMA InsertAtGives ==
  ASSUME NEW S, NEW s, NEW i, NEW e, Insertable(S, s, i, e)
  PROVE  Inserted(S, s, i, e, InsertAt(s, i, e))
<1> DEFINE a == SubSeq(s, 1, i - 1)
           b == SubSeq(s, i, Len(s))
           m == a \o <<e>>
           r == m \o b
<1> s \in Seq(S) /\ i \in 1 .. Len(s) + 1 /\ e \in S
  BY DEF Insertable
<1>0. Len(s) \in Nat /\ i \in Int /\ \A k \in 1 .. Len(s) : s[k] \in S
  BY LenProperties, ElementOfSeq
<1>1. a \in Seq(S) /\ Len(a) = i - 1 /\ \A k \in 1 .. i - 1 : a[k] = s[k]
  <2>1. \A k \in 1 .. i - 1 : s[k] \in S
    BY <1>0
  <2>2. /\ a \in Seq(S) /\ Len(a) = IF 1 <= i - 1 THEN (i - 1) - 1 + 1 ELSE 0
        /\ \A k \in 1 .. (i - 1) - 1 + 1 : a[k] = s[1 + k - 1]
    BY <1>0, <2>1, SubSeqProperties
  <2> QED
    BY <1>0, <2>2
<1>2. b \in Seq(S) /\ Len(b) = Len(s) - i + 1 /\ \A k \in 1 .. Len(s) - i + 1 : b[k] = s[i + k - 1]
  <2>1. \A k \in i .. Len(s) : s[k] \in S
    BY <1>0
  <2>2. /\ b \in Seq(S) /\ Len(b) = IF i <= Len(s) THEN Len(s) - i + 1 ELSE 0
        /\ \A k \in 1 .. Len(s) - i + 1 : b[k] = s[i + k - 1]
    BY <1>0, <2>1, SubSeqProperties
  <2> QED
    BY <1>0, <2>2
<1>3. <<e>> \in Seq(S) /\ Len(<<e>>) = 1 /\ <<e>>[1] = e
  OBVIOUS
<1> HIDE DEF a, b
<1>4. m \in Seq(S) /\ Len(m) = i /\ \A k \in 1 .. i : m[k] = IF k <= i - 1 THEN a[k] ELSE e
  <2>1. /\ m \in Seq(S) /\ Len(m) = Len(a) + Len(<<e>>)
        /\ \A k \in 1 .. Len(a) + Len(<<e>>) : m[k] = IF k <= Len(a) THEN a[k] ELSE <<e>>[k - Len(a)]
    BY <1>1, <1>3, ConcatProperties
  <2>2. Len(a) + Len(<<e>>) = i
    BY <1>0, <1>1, <1>3
  <2>3. \A k \in 1 .. i : ~(k <= i - 1) => k - (i - 1) = 1
    BY <1>0
  <2> QED
    BY <1>0, <1>1, <1>3, <2>1, <2>2, <2>3
<1> HIDE DEF m
<1>5. /\ r \in Seq(S) /\ Len(r) = i + (Len(s) - i + 1)
      /\ \A k \in 1 .. i + (Len(s) - i + 1) : r[k] = IF k <= i THEN m[k] ELSE b[k - i]
  <2>1. m \in Seq(S) /\ b \in Seq(S) /\ Len(m) = i /\ Len(b) = Len(s) - i + 1
    BY <1>2, <1>4
  <2>2. /\ r \in Seq(S) /\ Len(r) = Len(m) + Len(b)
        /\ \A k \in 1 .. Len(m) + Len(b) : r[k] = IF k <= Len(m) THEN m[k] ELSE b[k - Len(m)]
    BY <2>1, ConcatProperties
  <2> HIDE DEF r
  <2> QED
    BY <2>1, <2>2
<1>6. Len(r) = Len(s) + 1 /\ i + (Len(s) - i + 1) = Len(s) + 1
  BY <1>0, <1>5
<1>7. ASSUME NEW k \in 1 .. Len(s) + 1
      PROVE  r[k] = IF k < i THEN s[k] ELSE IF k = i THEN e ELSE s[k - 1]
  <2>1. r[k] = IF k <= i THEN m[k] ELSE b[k - i]
    BY <1>5, <1>6
  <2>2. CASE k < i
    BY <1>0, <1>1, <1>4, <2>1, <2>2
  <2>3. CASE k = i
    BY <1>0, <1>4, <2>1, <2>3
  <2>4. CASE k > i
    <3>1. k - i \in 1 .. Len(s) - i + 1 /\ i + (k - i) - 1 = k - 1
      BY <1>0, <2>4
    <3> QED
      BY <1>0, <1>2, <2>1, <2>4, <3>1
  <2>5. k < i \/ k = i \/ k > i
    BY <1>0
  <2> QED
    BY <2>2, <2>3, <2>4, <2>5
<1>8. r = InsertAt(s, i, e)
  BY DEF InsertAt, r, m, a, b
<1> HIDE DEF r
<1> QED
  BY <1>5, <1>6, <1>7, <1>8 DEF Inserted

(* The same, in full.                                                      *)
LEMMA InsertAtIs ==
  ASSUME NEW S, NEW s \in Seq(S), NEW i \in 1 .. Len(s) + 1, NEW e \in S
  PROVE  /\ InsertAt(s, i, e) \in Seq(S)
         /\ Len(InsertAt(s, i, e)) = Len(s) + 1
         /\ \A k \in 1 .. Len(s) + 1 :
              InsertAt(s, i, e)[k] = IF k < i THEN s[k] ELSE IF k = i THEN e ELSE s[k - 1]
<1>1. Insertable(S, s, i, e)
  BY DEF Insertable
<1>2. Inserted(S, s, i, e, InsertAt(s, i, e))
  BY <1>1, InsertAtGives
<1> QED
  BY <1>2 DEF Inserted

(* What del does to the elements of a list.                                *)
LEMMA RemoveAtIs ==
  ASSUME NEW S, NEW s \in Seq(S), NEW i \in 1 .. Len(s)
  PROVE  /\ RemoveAt(s, i) \in Seq(S)
         /\ Len(RemoveAt(s, i)) = Len(s) - 1
         /\ \A k \in 1 .. Len(s) - 1 :
              RemoveAt(s, i)[k] = IF k < i THEN s[k] ELSE s[k + 1]
<1> DEFINE a == SubSeq(s, 1, i - 1)
           b == SubSeq(s, i + 1, Len(s))
           r == a \o b
<1>0. Len(s) \in Nat /\ i \in Int /\ \A k \in 1 .. Len(s) : s[k] \in S
  BY LenProperties, ElementOfSeq
<1>1. a \in Seq(S) /\ Len(a) = i - 1 /\ \A k \in 1 .. i - 1 : a[k] = s[k]
  <2>1. \A k \in 1 .. i - 1 : s[k] \in S
    BY <1>0
  <2>2. /\ a \in Seq(S) /\ Len(a) = IF 1 <= i - 1 THEN (i - 1) - 1 + 1 ELSE 0
        /\ \A k \in 1 .. (i - 1) - 1 + 1 : a[k] = s[1 + k - 1]
    BY <1>0, <2>1, SubSeqProperties
  <2> QED
    BY <1>0, <2>2
<1>2. b \in Seq(S) /\ Len(b) = Len(s) - i /\ \A k \in 1 .. Len(s) - i : b[k] = s[i + k]
  <2>1. \A k \in i + 1 .. Len(s) : s[k] \in S
    BY <1>0
  <2>2. /\ b \in Seq(S) /\ Len(b) = IF i + 1 <= Len(s) THEN Len(s) - (i + 1) + 1 ELSE 0
        /\ \A k \in 1 .. Len(s) - (i + 1) + 1 : b[k] = s[i + 1 + k - 1]
    BY <1>0, <2>1, SubSeqProperties
  <2> QED
    BY <1>0, <2>2
<1> HIDE DEF a, b
<1>3. /\ r \in Seq(S) /\ Len(r) = Len(s) - 1
      /\ \A k \in 1 .. Len(s) - 1 : r[k] = IF k <= i - 1 THEN a[k] ELSE b[k - (i - 1)]
  <2>1. /\ r \in Seq(S) /\ Len(r) = Len(a) + Len(b)
        /\ \A k \in 1 .. Len(a) + Len(b) : r[k] = IF k <= Len(a) THEN a[k] ELSE b[k - Len(a)]
    BY <1>1, <1>2, ConcatProperties
  <2>2. Len(a) + Len(b) = Len(s) - 1
    BY <1>0, <1>1, <1>2
  <2> QED
    BY <1>1, <2>1, <2>2
<1>4. ASSUME NEW k \in 1 .. Len(s) - 1
      PROVE  r[k] = IF k < i THEN s[k] ELSE s[k + 1]
  <2>1. CASE k < i
    BY <1>0, <1>1, <1>3, <2>1
  <2>2. CASE ~(k < i)
    <3>1. k - (i - 1) \in 1 .. Len(s) - i /\ i + (k - (i - 1)) = k + 1 /\ ~(k <= i - 1) /\ ~(k < i)
      BY <1>0, <2>2
    <3> QED
      BY <1>2, <1>3, <3>1
  <2> QED
    BY <2>1, <2>2
<1>5. r = RemoveAt(s, i)
  BY DEF RemoveAt, r, a, b
<1> HIDE DEF r
<1> QED
  BY <1>3, <1>4, <1>5

(* A deletion undoes the insertion at its place.                           *)
LEMMA RemoveUndoesInsert ==
  ASSUME NEW S, NEW s \in Seq(S), NEW i \in 1 .. Len(s) + 1, NEW e \in S
  PROVE  RemoveAt(InsertAt(s, i, e), i) = s
<1> DEFINE t == InsertAt(s, i, e)
           u == RemoveAt(t, i)
<1>0. Len(s) \in Nat
  BY LenProperties
<1>1. /\ t \in Seq(S) /\ Len(t) = Len(s) + 1
      /\ \A k \in 1 .. Len(s) + 1 : t[k] = IF k < i THEN s[k] ELSE IF k = i THEN e ELSE s[k - 1]
  BY InsertAtIs
<1> HIDE DEF t
<1>2. i \in 1 .. Len(t)
  BY <1>1
<1>3. /\ u \in Seq(S) /\ Len(u) = Len(t) - 1
      /\ \A k \in 1 .. Len(t) - 1 : u[k] = IF k < i THEN t[k] ELSE t[k + 1]
  BY <1>1, <1>2, RemoveAtIs
<1>4. Len(u) = Len(s)
  BY <1>0, <1>1, <1>3
<1> HIDE DEF u
<1>5. ASSUME NEW k \in 1 .. Len(u) PROVE u[k] = s[k]
  <2>1. CASE k < i
    BY <1>0, <1>1, <1>3, <1>4, <2>1
  <2>2. CASE ~(k < i)
    <3>1. u[k] = t[k + 1]
      BY <1>1, <1>3, <1>4, <2>2
    <3>2. k + 1 \in 1 .. Len(s) + 1 /\ ~(k + 1 < i) /\ k + 1 # i /\ (k + 1) - 1 = k
      BY <1>0, <1>4, <2>2
    <3> QED
      BY <1>1, <3>1, <3>2
  <2> QED
    BY <2>1, <2>2
<1>6. u = s
  BY <1>3, <1>4, <1>5, SeqEqual
<1> QED
  BY <1>6 DEF u, t

(* A non-empty set of naturals has a least element.                        *)
LEMMA LeastExists ==
  ASSUME NEW S, S \subseteq Nat, S # {}
  PROVE  \E m \in S : \A k \in S : m <= k
<1> DEFINE R == OpToRel(<, Nat)
<1>1. IsWellFoundedOn(R, Nat)
  BY NatLessThanWellFounded
<1> HIDE DEF R
<1>2. PICK m \in S : \A k \in S : ~(<<k, m>> \in R)
  BY <1>1, WFMin
<1>3. ASSUME NEW k \in S PROVE m <= k
  <2>1. k < m => <<k, m>> \in R
    BY DEF R, OpToRel
  <2> QED
    BY <1>2, <2>1
<1> QED
  BY <1>3

(* bisect_right finds the place behind every key that is not greater: the  *)
(* least n from which on the keys are greater, or the end.                 *)
LEMMA BisectRightIs ==
  ASSUME NEW seqs \in Seq(Int), NEW q \in Int
  PROVE  /\ BisectRight(seqs, q) \in 0 .. Len(seqs)
         /\ \A k \in 1 .. BisectRight(seqs, q) : seqs[k] <= q
         /\ BisectRight(seqs, q) < Len(seqs) => seqs[BisectRight(seqs, q) + 1] > q
<1> DEFINE N == {n \in 0 .. Len(seqs) : n < Len(seqs) => seqs[n + 1] > q}
<1>0. Len(seqs) \in Nat /\ \A k \in 1 .. Len(seqs) : seqs[k] \in Int
  BY LenProperties, ElementOfSeq
<1>1. Len(seqs) \in N /\ N \subseteq Nat
  BY <1>0
<1>2. PICK n \in N : \A k \in N : n <= k
  BY <1>1, LeastExists
<1>3. n \in 0 .. Len(seqs) /\ (n < Len(seqs) => seqs[n + 1] > q)
  OBVIOUS
<1>4. ASSUME NEW k \in 1 .. n PROVE seqs[k] <= q
  <2>1. k - 1 \notin N
    <3> HIDE DEF N
    <3>1. k - 1 \in N => n <= k - 1
      BY <1>2
    <3>2. k \in Int /\ n \in Int /\ ~(n <= k - 1)
      BY <1>0, <1>3
    <3> QED
      BY <3>1, <3>2
  <2>2. k - 1 \in 0 .. Len(seqs) /\ k - 1 < Len(seqs) /\ (k - 1) + 1 = k
    BY <1>0, <1>3
  <2>3. ~(seqs[k] > q)
    BY <2>1, <2>2
  <2>4. seqs[k] \in Int
    BY <1>0, <1>3
  <2> QED
    BY <2>3, <2>4
<1> HIDE DEF N
<1>5. \E m \in 0 .. Len(seqs) :
        /\ \A k \in 1 .. m : seqs[k] <= q
        /\ m < Len(seqs) => seqs[m + 1] > q
  BY <1>3, <1>4
<1> QED
  BY <1>5 DEF BisectRight

(* The ids of a sequence of rules.                                         *)
IdsIn(rules) == {rules[k].id : k \in 1 .. Len(rules)}

DistinctIds(rules) == \A j, k \in 1 .. Len(rules) : rules[j].id = rules[k].id => j = k

(* The map gives the positions of the first n rules.                       *)
MapsFirst(map, rules, n) ==
  \A k \in 1 .. n : rules[k].id \in DOMAIN map /\ map[rules[k].id] = k - 1

(* update_rule_id_map completes a map that is exact before position start. *)
LEMMA UpdateRuleIdMapIs ==
  ASSUME NEW rules, Len(rules) \in Nat, NEW map, NEW start \in 0 .. Len(rules),
         DistinctIds(rules), DOMAIN map \subseteq IdsIn(rules), MapsFirst(map, rules, start)
  PROVE  /\ DOMAIN UpdateRuleIdMap(rules, map, start) = IdsIn(rules)
         /\ MapsFirst(UpdateRuleIdMap(rules, map, start), rules, Len(rules))
<1> DEFINE m == UpdateRuleIdMap(rules, map, start)
           moved == {rules[k].id : k \in (start + 1) .. Len(rules)}
<1>0. Len(rules) \in Nat
  OBVIOUS
<1>d. \A j, k \in 1 .. Len(rules) : rules[j].id = rules[k].id => j = k
  BY DEF DistinctIds
<1>f. \A k \in 1 .. start : rules[k].id \in DOMAIN map /\ map[rules[k].id] = k - 1
  BY DEF MapsFirst
<1>1. DOMAIN m = DOMAIN map \cup moved
  BY DEF UpdateRuleIdMap
<1>2. DOMAIN m = IdsIn(rules)
  <2>1. ASSUME NEW k \in 1 .. Len(rules) PROVE rules[k].id \in DOMAIN map \cup moved
    <3>1. k \in 1 .. start \/ k \in (start + 1) .. Len(rules)
      BY <1>0
    <3> QED
      BY <1>f, <3>1
  <2>2. \A k \in (start + 1) .. Len(rules) : k \in 1 .. Len(rules)
    BY <1>0
  <2>3. moved \subseteq IdsIn(rules)
    BY <2>2 DEF IdsIn
  <2> HIDE DEF moved, m
  <2> QED
    BY <1>1, <2>1, <2>3 DEF IdsIn
<1>3. ASSUME NEW k \in 1 .. Len(rules) PROVE m[rules[k].id] = k - 1
  <2>1. rules[k].id \in DOMAIN map \cup moved
    BY <1>1, <1>2 DEF IdsIn
  <2>2. m[rules[k].id] = IF rules[k].id \in moved
           THEN (CHOOSE j \in (start + 1) .. Len(rules) : rules[j].id = rules[k].id) - 1
           ELSE map[rules[k].id]
    BY <2>1 DEF UpdateRuleIdMap
  <2>3. CASE rules[k].id \in moved
    <3>1. k \in (start + 1) .. Len(rules)
      <4>1. PICK j \in (start + 1) .. Len(rules) : rules[j].id = rules[k].id
        BY <2>3
      <4>2. j \in 1 .. Len(rules)
        BY <1>0
      <4> QED
        BY <1>d, <4>1, <4>2
    <3>2. \A j \in (start + 1) .. Len(rules) : rules[j].id = rules[k].id => j = k
      BY <1>0, <1>d
    <3>3. (CHOOSE j \in (start + 1) .. Len(rules) : rules[j].id = rules[k].id) = k
      BY <3>1, <3>2
    <3> QED
      BY <2>2, <2>3, <3>3
  <2>4. CASE rules[k].id \notin moved
    <3>1. k \in 1 .. start
      BY <1>0, <2>4
    <3> QED
      BY <1>f, <2>2, <2>4, <3>1
  <2> QED
    BY <2>3, <2>4
<1>4. MapsFirst(m, rules, Len(rules))
  <2>1. \A k \in 1 .. Len(rules) : rules[k].id \in DOMAIN m
    BY <1>2 DEF IdsIn
  <2> HIDE DEF m
  <2> QED
    BY <1>3, <2>1 DEF MapsFirst
<1> QED
  BY <1>2, <1>4

(* Two rules never have one id: the map could hold only one's position.    *)
LEMMA IdsDistinct ==
  ASSUME NEW R, NEW l, l.rules \in Seq(R), MapExact(l)
  PROVE  \A j, k \in 1 .. Len(l.rules) : l.rules[j].id = l.rules[k].id => j = k
<1>1. DOMAIN l.rules = 1 .. Len(l.rules) /\ Len(l.rules) \in Nat
  BY LenProperties
<1>2. \A k \in 1 .. Len(l.rules) : l.rule_id_map[l.rules[k].id] = k - 1
  BY <1>1 DEF MapExact
<1> QED
  BY <1>1, <1>2

(* What every operation on a list of rules of R relies on and keeps.       *)
ListOK(R, l) ==
  /\ \A r \in R : r.seq \in Int
  /\ l.rules \in Seq(R) /\ l.seq_num_list \in Seq(Int)
  /\ MapExact(l) /\ SortedBySeq(l) /\ NoEqualRules(l)

(* An empty list satisfies it.                                             *)
LEMMA EmptyListOK ==
  ASSUME NEW R, \A r \in R : r.seq \in Int
  PROVE  ListOK(R, EmptyList) /\ Ids(EmptyList) = {} /\ EmptyList.rules = <<>>
<1>1. EmptyList.rules = <<>> /\ EmptyList.seq_num_list = <<>> /\ EmptyList.rule_id_map = [i \in {} |-> 0]
  BY DEF EmptyList
<1>2. <<>> \in Seq(R) /\ <<>> \in Seq(Int) /\ DOMAIN <<>> = {} /\ Len(<<>>) = 0
  BY EmptySeq
<1>3. Ids(EmptyList) = {}
  BY <1>1, <1>2 DEF Ids
<1> QED
  BY <1>1, <1>2, <1>3 DEF ListOK, MapExact, SortedBySeq, NoEqualRules

(* The id that the map maps to a position is that of the rule found there. *)
LEMMA MappedRule ==
  ASSUME NEW R, NEW l, ListOK(R, l), NEW i \in DOMAIN l.rule_id_map
  PROVE  /\ l.rule_id_map[i] \in 0 .. Len(l.rules) - 1
         /\ l.rules[l.rule_id_map[i] + 1].id = i
<1>1. DOMAIN l.rules = 1 .. Len(l.rules) /\ Len(l.rules) \in Nat
  BY LenProperties DEF ListOK
<1>2. PICK k \in 1 .. Len(l.rules) : l.rules[k].id = i
  BY <1>1 DEF ListOK, MapExact, Ids
<1>3. l.rule_id_map[i] = k - 1
  BY <1>1, <1>2 DEF ListOK, MapExact
<1> QED
  BY <1>1, <1>2, <1>3

(* list.index finds an equal rule, and it is the only one.                 *)
LEMMA IndexOfIs ==
  ASSUME NEW R, NEW l, ListOK(R, l), NEW r, HasEqual(l, r)
  PROVE  /\ IndexOf(l, r) \in 0 .. Len(l.rules) - 1
         /\ Equal(l.rules[IndexOf(l, r) + 1], r)
         /\ \A k \in 1 .. Len(l.rules) : Equal(l.rules[k], r) => k = IndexOf(l, r) + 1
<1>1. DOMAIN l.rules = 1 .. Len(l.rules) /\ Len(l.rules) \in Nat
  BY LenProperties DEF ListOK
<1>2. PICK k \in 1 .. Len(l.rules) : Equal(l.rules[k], r)
  BY <1>1 DEF HasEqual
<1>3. \A j \in 1 .. Len(l.rules) : Equal(l.rules[j], r) => j = k
  BY <1>1, <1>2 DEF ListOK, NoEqualRules, Equal
<1>4. k - 1 \in 0 .. Len(l.rules) - 1 /\ (k - 1) + 1 = k
  BY <1>1
<1>5. \A j \in 1 .. k - 1 : ~Equal(l.rules[j], r)
  BY <1>1, <1>3
<1>6. /\ IndexOf(l, r) \in 0 .. Len(l.rules) - 1
      /\ Equal(l.rules[IndexOf(l, r) + 1], r)
  <2>1. \E n \in 0 .. (Len(l.rules) - 1) :
          /\ Equal(l.rules[n + 1], r)
          /\ \A j \in 1 .. n : ~Equal(l.rules[j], r)
    BY <1>2, <1>4, <1>5
  <2> QED
    BY <2>1 DEF IndexOf
<1>7. IndexOf(l, r) + 1 \in 1 .. Len(l.rules)
  BY <1>1, <1>6
<1> QED
  BY <1>3, <1>6, <1>7

(* insert keeps the list exact, sorted and without doubles.                *)
LEMMA InsertKeeps ==
  ASSUME NEW R, NEW l, ListOK(R, l), NEW r \in R, r.id \notin Ids(l),
         \A k \in 1 .. Len(l.rules) : ~Equal(l.rules[k], r)
  PROVE  /\ InsertPos(l, r) \in 0 .. Len(l.rules)
         /\ Insert(l, r).rules = InsertAt(l.rules, InsertPos(l, r) + 1, r)
         /\ ListOK(R, Insert(l, r))
         /\ Ids(Insert(l, r)) = Ids(l) \cup {r.id}
<1> DEFINE n == InsertPos(l, r)
           m == Insert(l, r)
           map == UpdateRuleIdMap(m.rules, l.rule_id_map, n)
<1>0. /\ l.rules \in Seq(R) /\ l.seq_num_list \in Seq(Int)
      /\ Len(l.rules) \in Nat /\ DOMAIN l.rules = 1 .. Len(l.rules)
      /\ Len(l.seq_num_list) = Len(l.rules)
      /\ \A k \in 1 .. Len(l.rules) :
           /\ l.rules[k] \in R /\ l.rules[k].seq \in Int /\ l.seq_num_list[k] = l.rules[k].seq
           /\ l.rule_id_map[l.rules[k].id] = k - 1
      /\ DOMAIN l.rule_id_map = {l.rules[k].id : k \in 1 .. Len(l.rules)}
      /\ r.seq \in Int
  <2>1. Len(l.rules) \in Nat /\ DOMAIN l.rules = 1 .. Len(l.rules)
    BY LenProperties DEF ListOK
  <2>2. \A k \in 1 .. Len(l.rules) : l.rules[k] \in R
    BY ElementOfSeq DEF ListOK
  <2>3. \A s \in R : s.seq \in Int
    BY DEF ListOK
  <2> QED
    BY <2>1, <2>2, <2>3 DEF ListOK, MapExact, Ids
<1>1. /\ n \in 0 .. Len(l.rules)
      /\ \A k \in 1 .. n : l.seq_num_list[k] <= r.seq
      /\ n < Len(l.rules) => l.seq_num_list[n + 1] > r.seq
  <2>1. /\ n \in 0 .. Len(l.seq_num_list)
        /\ \A k \in 1 .. n : l.seq_num_list[k] <= r.seq
        /\ n < Len(l.seq_num_list) => l.seq_num_list[n + 1] > r.seq
    BY <1>0, BisectRightIs DEF InsertPos
  <2> QED
    BY <1>0, <2>1
<1> HIDE DEF n
<1>2. /\ m.rules = InsertAt(l.rules, n + 1, r)
      /\ m.seq_num_list = InsertAt(l.seq_num_list, n + 1, r.seq)
      /\ m.rule_id_map = map
  BY DEF Insert, n
<1> HIDE DEF m
<1>range. Len(l.rules) \in Nat /\ Len(l.seq_num_list) = Len(l.rules) /\ n \in 0 .. Len(l.rules)
  BY <1>0, <1>1
<1>3. n + 1 \in 1 .. Len(l.rules) + 1 /\ n + 1 \in 1 .. Len(l.seq_num_list) + 1
  BY <1>range
<1>4. /\ m.rules \in Seq(R) /\ Len(m.rules) = Len(l.rules) + 1
      /\ \A k \in 1 .. Len(l.rules) + 1 :
           m.rules[k] = IF k < n + 1 THEN l.rules[k] ELSE IF k = n + 1 THEN r ELSE l.rules[k - 1]
  <2> DEFINE s == l.rules
             p == n + 1
             T == R
             q == InsertAt(s, p, r)
  <2>1. s \in Seq(T) /\ p \in 1 .. Len(s) + 1 /\ r \in T
    BY <1>0, <1>3
  <2> HIDE DEF s, p, T
  <2>2. /\ q \in Seq(T) /\ Len(q) = Len(s) + 1
        /\ \A k \in 1 .. Len(s) + 1 : q[k] = IF k < p THEN s[k] ELSE IF k = p THEN r ELSE s[k - 1]
    BY <2>1, InsertAtIs
  <2>3. m.rules = q
    BY <1>2 DEF s, p
  <2> HIDE DEF q
  <2> QED
    BY <2>2, <2>3 DEF s, p, T
<1>5. /\ m.seq_num_list \in Seq(Int) /\ Len(m.seq_num_list) = Len(l.rules) + 1
      /\ \A k \in 1 .. Len(l.rules) + 1 :
           m.seq_num_list[k] =
             IF k < n + 1 THEN l.seq_num_list[k] ELSE IF k = n + 1 THEN r.seq ELSE l.seq_num_list[k - 1]
  <2>1. l.seq_num_list \in Seq(Int) /\ Len(l.seq_num_list) = Len(l.rules) /\ r.seq \in Int
    BY <1>0
  <2> DEFINE s == l.seq_num_list
             p == n + 1
             e == r.seq
             T == Int
             q == InsertAt(s, p, e)
  <2>2. s \in Seq(T) /\ p \in 1 .. Len(s) + 1 /\ e \in T
    BY <2>1, <1>3
  <2> HIDE DEF s, p, e, T
  <2>3. /\ q \in Seq(T) /\ Len(q) = Len(s) + 1
        /\ \A k \in 1 .. Len(s) + 1 : q[k] = IF k < p THEN s[k] ELSE IF k = p THEN e ELSE s[k - 1]
    BY <2>2, InsertAtIs
  <2>4. m.seq_num_list = q
    BY <1>2 DEF s, p, e
  <2> HIDE DEF q
  <2> QED
    BY <2>1, <2>3, <2>4 DEF s, p, e, T
<1>6. DOMAIN m.rules = 1 .. Len(l.rules) + 1
  BY <1>4, LenProperties
(* Where the rules of the new list come from. *)
<1>7. \A k \in 1 .. n : /\ k \in 1 .. Len(l.rules) + 1 /\ k \in 1 .. Len(l.rules)
                       /\ m.rules[k] = l.rules[k] /\ m.seq_num_list[k] = l.rules[k].seq
  <2> SUFFICES ASSUME NEW k \in 1 .. n
               PROVE  /\ k \in 1 .. Len(l.rules) + 1 /\ k \in 1 .. Len(l.rules)
                      /\ m.rules[k] = l.rules[k] /\ m.seq_num_list[k] = l.rules[k].seq
    OBVIOUS
  <2>1. k \in 1 .. Len(l.rules) + 1 /\ k \in 1 .. Len(l.rules) /\ k < n + 1
    BY <1>range
  <2>2. m.rules[k] = l.rules[k] /\ m.seq_num_list[k] = l.seq_num_list[k]
    BY <1>4, <1>5, <2>1
  <2>3. l.seq_num_list[k] = l.rules[k].seq
    BY <1>0, <2>1
  <2> QED
    BY <2>1, <2>2, <2>3
<1>8. n + 1 \in 1 .. Len(l.rules) + 1 /\ m.rules[n + 1] = r /\ m.seq_num_list[n + 1] = r.seq
  <2>1. n + 1 \in 1 .. Len(l.rules) + 1 /\ ~(n + 1 < n + 1)
    BY <1>range
  <2> QED
    BY <2>1, <1>4, <1>5
<1>9. \A k \in n + 2 .. Len(l.rules) + 1 :
        /\ k \in 1 .. Len(l.rules) + 1 /\ k - 1 \in 1 .. Len(l.rules) /\ k - 1 >= n + 1
        /\ m.rules[k] = l.rules[k - 1] /\ m.seq_num_list[k] = l.rules[k - 1].seq
  <2> SUFFICES ASSUME NEW k \in n + 2 .. Len(l.rules) + 1
               PROVE  /\ k \in 1 .. Len(l.rules) + 1 /\ k - 1 \in 1 .. Len(l.rules) /\ k - 1 >= n + 1
                      /\ m.rules[k] = l.rules[k - 1] /\ m.seq_num_list[k] = l.rules[k - 1].seq
    OBVIOUS
  <2>1. /\ k \in 1 .. Len(l.rules) + 1 /\ k - 1 \in 1 .. Len(l.rules) /\ k - 1 >= n + 1
        /\ ~(k < n + 1) /\ k # n + 1
    BY <1>range
  <2>2. m.rules[k] = l.rules[k - 1] /\ m.seq_num_list[k] = l.seq_num_list[k - 1]
    BY <1>4, <1>5, <2>1
  <2>3. l.seq_num_list[k - 1] = l.rules[k - 1].seq
    BY <1>0, <2>1
  <2> QED
    BY <2>1, <2>2, <2>3
<1>10. \A k \in 1 .. Len(l.rules) + 1 : k \in 1 .. n \/ k = n + 1 \/ k \in n + 2 .. Len(l.rules) + 1
  BY <1>range
<1>11. \A k \in 1 .. Len(l.rules) :
         \/ k \in 1 .. n
         \/ k + 1 \in n + 2 .. Len(l.rules) + 1 /\ (k + 1) - 1 = k /\ k >= n + 1
  BY <1>range
<1> HIDE DEF ListOK
<1>12. \A k \in 1 .. Len(l.rules) + 1 : m.seq_num_list[k] = m.rules[k].seq
  BY <1>7, <1>8, <1>9, <1>10
(* A rule at another place than n + 1 is an old one, each a different one.  *)
<1>13. ASSUME NEW j \in 1 .. Len(l.rules) + 1, NEW k \in 1 .. Len(l.rules) + 1, j # n + 1, k # n + 1
       PROVE  \E x, y \in 1 .. Len(l.rules) :
                m.rules[j] = l.rules[x] /\ m.rules[k] = l.rules[y] /\ (x = y => j = k)
  <2>1. CASE j \in 1 .. n /\ k \in 1 .. n
    BY <1>7, <2>1
  <2>2. CASE j \in 1 .. n /\ k \in n + 2 .. Len(l.rules) + 1
    <3>1. j # k - 1
      BY <1>0, <1>1, <2>2
    <3> QED
      BY <1>7, <1>9, <2>2, <3>1
  <2>3. CASE j \in n + 2 .. Len(l.rules) + 1 /\ k \in 1 .. n
    <3>1. j - 1 # k
      BY <1>0, <1>1, <2>3
    <3> QED
      BY <1>7, <1>9, <2>3, <3>1
  <2>4. CASE j \in n + 2 .. Len(l.rules) + 1 /\ k \in n + 2 .. Len(l.rules) + 1
    <3>1. j - 1 = k - 1 => j = k
      BY <1>0, <1>1, <2>4
    <3> QED
      BY <1>9, <2>4, <3>1
  <2> QED
    BY <1>10, <1>13, <2>1, <2>2, <2>3, <2>4
<1>14. ASSUME NEW k \in 1 .. Len(l.rules) + 1, k # n + 1
       PROVE  \E x \in 1 .. Len(l.rules) : m.rules[k] = l.rules[x]
  BY <1>13, <1>14
<1>15. Ids(m) = Ids(l) \cup {r.id}
  <2>1. \A k \in 1 .. Len(l.rules) + 1 : m.rules[k].id \in Ids(l) \cup {r.id}
    BY <1>0, <1>8, <1>14 DEF Ids
  <2>2. ASSUME NEW j \in 1 .. Len(l.rules) PROVE \E k \in 1 .. Len(l.rules) + 1 : m.rules[k].id = l.rules[j].id
    <3>1. CASE j \in 1 .. n
      BY <1>7, <3>1
    <3>2. CASE j + 1 \in n + 2 .. Len(l.rules) + 1 /\ (j + 1) - 1 = j
      BY <1>9, <3>2
    <3> QED
      BY <1>11, <3>1, <3>2
  <2>3. Ids(m) = {m.rules[k].id : k \in 1 .. Len(l.rules) + 1}
    BY <1>6 DEF Ids
  <2>4. Ids(l) = {l.rules[k].id : k \in 1 .. Len(l.rules)}
    BY <1>0 DEF Ids
  <2>5. \E k \in 1 .. Len(l.rules) + 1 : m.rules[k].id = r.id
    BY <1>8
  <2>6. Ids(l) \subseteq Ids(m)
    BY <2>2, <2>3, <2>4
  <2>7. r.id \in Ids(m)
    BY <2>3, <2>5
  <2>8. Ids(m) \subseteq Ids(l) \cup {r.id}
    BY <2>1, <2>3
  <2> QED
    BY <2>6, <2>7, <2>8
<1>16. \A j, k \in 1 .. Len(l.rules) + 1 : m.rules[j].id = m.rules[k].id => j = k
  <2>1. \A j, k \in 1 .. Len(l.rules) : l.rules[j].id = l.rules[k].id => j = k
    BY IdsDistinct DEF ListOK
  <2>2. \A j \in 1 .. Len(l.rules) : l.rules[j].id # r.id
    BY <1>0 DEF Ids
  <2> SUFFICES ASSUME NEW j \in 1 .. Len(l.rules) + 1, NEW k \in 1 .. Len(l.rules) + 1,
                      m.rules[j].id = m.rules[k].id
               PROVE  j = k
    OBVIOUS
  <2>3. CASE j = n + 1 \/ k = n + 1
    BY <1>8, <1>14, <2>2, <2>3
  <2>4. CASE j # n + 1 /\ k # n + 1
    <3>1. PICK x, y \in 1 .. Len(l.rules) :
            m.rules[j] = l.rules[x] /\ m.rules[k] = l.rules[y] /\ (x = y => j = k)
      BY <1>13, <2>4
    <3> QED
      BY <2>1, <3>1
  <2> QED
    BY <2>3, <2>4
<1>17. MapExact(m)
  <2>1. \A k \in 1 .. n : m.rules[k].id \in DOMAIN l.rule_id_map /\ l.rule_id_map[m.rules[k].id] = k - 1
    BY <1>0, <1>7
  <2>2. DOMAIN l.rule_id_map \subseteq IdsIn(m.rules)
    BY <1>0, <1>4, <1>6, <1>15 DEF Ids, IdsIn
  <2>3. n \in 0 .. Len(m.rules)
    BY <1>0, <1>1, <1>4
  <2>4. \A j, k \in 1 .. Len(m.rules) : m.rules[j].id = m.rules[k].id => j = k
    BY <1>4, <1>16
  <2>5. /\ DOMAIN map = IdsIn(m.rules)
        /\ \A k \in 1 .. Len(m.rules) : map[m.rules[k].id] = k - 1
    <3> DEFINE rules == m.rules
               old == l.rule_id_map
    <3>1. Len(rules) \in Nat
      BY <1>0, <1>4
    <3>2. DistinctIds(rules)
      BY <2>4 DEF DistinctIds
    <3>3. DOMAIN old \subseteq IdsIn(rules) /\ n \in 0 .. Len(rules)
      BY <2>2, <2>3
    <3>4. MapsFirst(old, rules, n)
      BY <2>1 DEF MapsFirst
    <3>5. map = UpdateRuleIdMap(rules, old, n)
      OBVIOUS
    <3> HIDE DEF rules, old, map
    <3>6. /\ DOMAIN UpdateRuleIdMap(rules, old, n) = IdsIn(rules)
          /\ MapsFirst(UpdateRuleIdMap(rules, old, n), rules, Len(rules))
      BY <3>1, <3>2, <3>3, <3>4, UpdateRuleIdMapIs
    <3>7. /\ DOMAIN map = IdsIn(rules)
          /\ \A k \in 1 .. Len(rules) : map[rules[k].id] = k - 1
      BY <3>5, <3>6 DEF MapsFirst
    <3> QED
      BY <3>7 DEF rules
  <2> HIDE DEF map
  <2> QED
    BY <1>2, <1>4, <1>5, <1>6, <1>12, <2>5 DEF MapExact, Ids, IdsIn
<1>18. SortedBySeq(m)
  <2>1. \A j, k \in 1 .. Len(l.rules) : j <= k => l.rules[j].seq <= l.rules[k].seq
    <3>1. \A j, k \in 1 .. Len(l.rules) : j < k => l.rules[j].seq <= l.rules[k].seq
      BY <1>0 DEF ListOK, SortedBySeq
    <3>2. \A j \in 1 .. Len(l.rules) : l.rules[j].seq <= l.rules[j].seq
      BY <1>0
    <3>3. \A j, k \in 1 .. Len(l.rules) : j <= k => j < k \/ j = k
      BY <1>0
    <3> QED
      BY <3>1, <3>2, <3>3
  <2>2. \A k \in 1 .. n : l.rules[k].seq <= r.seq
    BY <1>0, <1>1, <1>7
  <2>3. \A k \in 1 .. Len(l.rules) : k >= n + 1 => r.seq <= l.rules[k].seq
    <3> SUFFICES ASSUME NEW k \in 1 .. Len(l.rules), k >= n + 1 PROVE r.seq <= l.rules[k].seq
      OBVIOUS
    <3>1. n + 1 \in 1 .. Len(l.rules) /\ n < Len(l.rules) /\ n + 1 <= k
      BY <1>range
    <3>2. l.rules[n + 1].seq > r.seq
      BY <1>0, <1>1, <3>1
    <3>3. l.rules[n + 1].seq <= l.rules[k].seq
      BY <2>1, <3>1
    <3>4. l.rules[n + 1].seq \in Int /\ l.rules[k].seq \in Int /\ r.seq \in Int
      BY <1>0, <3>1
    <3> QED
      BY <3>2, <3>3, <3>4
  <2> SUFFICES ASSUME NEW j \in 1 .. Len(l.rules) + 1, NEW k \in 1 .. Len(l.rules) + 1, j < k
               PROVE  m.rules[j].seq <= m.rules[k].seq
    BY <1>6 DEF SortedBySeq
  <2>4. CASE j \in 1 .. n /\ k \in 1 .. n
    <3>1. j <= k
      BY <1>0
    <3> QED
      BY <1>7, <2>1, <2>4, <3>1
  <2>5. CASE j \in 1 .. n /\ k = n + 1
    BY <1>7, <1>8, <2>2, <2>5
  <2>6. CASE j \in 1 .. n /\ k \in n + 2 .. Len(l.rules) + 1
    <3>1. j <= k - 1
      BY <1>0
    <3> QED
      BY <1>7, <1>9, <2>1, <2>6, <3>1
  <2>7. CASE j = n + 1 /\ k \in n + 2 .. Len(l.rules) + 1
    BY <1>8, <1>9, <2>3, <2>7
  <2>8. CASE j \in n + 2 .. Len(l.rules) + 1 /\ k \in n + 2 .. Len(l.rules) + 1
    <3>1. j - 1 <= k - 1
      BY <1>0
    <3> QED
      BY <1>9, <2>1, <2>8, <3>1
  <2>9. /\ j \in 1 .. n \/ j = n + 1 \/ j \in n + 2 .. Len(l.rules) + 1
        /\ j = n + 1 => k \in n + 2 .. Len(l.rules) + 1
        /\ j \in n + 2 .. Len(l.rules) + 1 => k \in n + 2 .. Len(l.rules) + 1
        /\ k \in 1 .. n \/ k = n + 1 \/ k \in n + 2 .. Len(l.rules) + 1
    BY <1>range
  <2> QED
    BY <2>4, <2>5, <2>6, <2>7, <2>8, <2>9
<1>19. NoEqualRules(m)
  <2> SUFFICES ASSUME NEW j \in 1 .. Len(l.rules) + 1, NEW k \in 1 .. Len(l.rules) + 1,
                      m.rules[j].key = m.rules[k].key
               PROVE  j = k
    BY <1>6 DEF NoEqualRules, Equal
  <2>1. \A x \in 1 .. Len(l.rules) : l.rules[x].key # r.key
    BY DEF Equal
  <2>2. \A x, y \in 1 .. Len(l.rules) : l.rules[x].key = l.rules[y].key => x = y
    BY <1>0 DEF ListOK, NoEqualRules, Equal
  <2>3. CASE j = n + 1 \/ k = n + 1
    BY <1>8, <1>14, <2>1, <2>3
  <2>4. CASE j # n + 1 /\ k # n + 1
    <3>1. PICK x, y \in 1 .. Len(l.rules) :
            m.rules[j] = l.rules[x] /\ m.rules[k] = l.rules[y] /\ (x = y => j = k)
      BY <1>13, <2>4
    <3> QED
      BY <2>2, <3>1
  <2> QED
    BY <2>3, <2>4
<1> QED
  BY <1>1, <1>2, <1>4, <1>5, <1>15, <1>17, <1>18, <1>19 DEF ListOK, n, m

(* The rules of rest are rules of l at other positions than n.             *)
OthersOf(rest, l, n) ==
  \A k \in 1 .. Len(rest.rules) :
    \E x \in 1 .. Len(l.rules) : x # n + 1 /\ rest.rules[k] = l.rules[x]

(* remove and remove_by_id keep the list exact, sorted and without doubles.*)
LEMMA RemoveKeeps ==
  ASSUME NEW R, NEW l, ListOK(R, l), NEW n \in 0 .. Len(l.rules) - 1
  PROVE  /\ RemovePos(l, n).rules = RemoveAt(l.rules, n + 1)
         /\ ListOK(R, RemovePos(l, n))
         /\ Ids(RemovePos(l, n)) = Ids(l) \ {l.rules[n + 1].id}
         /\ OthersOf(RemovePos(l, n), l, n)
<1> DEFINE m == RemovePos(l, n)
           old == Without(l.rule_id_map, l.rules[n + 1].id)
           map == UpdateRuleIdMap(m.rules, old, n)
           from(k) == IF k < n + 1 THEN k ELSE k + 1
<1>0. /\ l.rules \in Seq(R) /\ l.seq_num_list \in Seq(Int)
      /\ Len(l.rules) \in Nat /\ DOMAIN l.rules = 1 .. Len(l.rules)
      /\ Len(l.seq_num_list) = Len(l.rules)
      /\ \A k \in 1 .. Len(l.rules) :
           /\ l.seq_num_list[k] = l.rules[k].seq
           /\ l.rule_id_map[l.rules[k].id] = k - 1
      /\ DOMAIN l.rule_id_map = IdsIn(l.rules)
      /\ \A j, k \in 1 .. Len(l.rules) : l.rules[j].id = l.rules[k].id => j = k
  <2>1. Len(l.rules) \in Nat /\ DOMAIN l.rules = 1 .. Len(l.rules)
    BY LenProperties DEF ListOK
  <2>2. \A j, k \in 1 .. Len(l.rules) : l.rules[j].id = l.rules[k].id => j = k
    BY IdsDistinct DEF ListOK
  <2> QED
    BY <2>1, <2>2 DEF ListOK, MapExact, Ids, IdsIn
<1>1. n \in Nat /\ n + 1 \in 1 .. Len(l.rules) /\ n + 1 \in 1 .. Len(l.seq_num_list)
  BY <1>0
<1>2. /\ m.rules = RemoveAt(l.rules, n + 1)
      /\ m.seq_num_list = RemoveAt(l.seq_num_list, n + 1)
      /\ m.rule_id_map = map
  BY DEF RemovePos
<1> HIDE DEF m
<1>3. /\ m.rules \in Seq(R) /\ Len(m.rules) = Len(l.rules) - 1
      /\ \A k \in 1 .. Len(l.rules) - 1 :
           m.rules[k] = IF k < n + 1 THEN l.rules[k] ELSE l.rules[k + 1]
  <2> DEFINE s == l.rules
             p == n + 1
             T == R
             q == RemoveAt(s, p)
  <2>1. s \in Seq(T) /\ p \in 1 .. Len(s)
    BY <1>0, <1>1
  <2> HIDE DEF s, p, T
  <2>2. /\ q \in Seq(T) /\ Len(q) = Len(s) - 1
        /\ \A k \in 1 .. Len(s) - 1 : q[k] = IF k < p THEN s[k] ELSE s[k + 1]
    BY <2>1, RemoveAtIs
  <2>3. m.rules = q
    BY <1>2 DEF s, p
  <2> HIDE DEF q
  <2> QED
    BY <2>2, <2>3 DEF s, p, T
<1>4. /\ m.seq_num_list \in Seq(Int) /\ Len(m.seq_num_list) = Len(l.rules) - 1
      /\ \A k \in 1 .. Len(l.rules) - 1 :
           m.seq_num_list[k] = IF k < n + 1 THEN l.seq_num_list[k] ELSE l.seq_num_list[k + 1]
  <2> DEFINE s == l.seq_num_list
             p == n + 1
             T == Int
             q == RemoveAt(s, p)
  <2>1. s \in Seq(T) /\ p \in 1 .. Len(s) /\ Len(s) = Len(l.rules)
    BY <1>0, <1>1
  <2> HIDE DEF s, p, T
  <2>2. /\ q \in Seq(T) /\ Len(q) = Len(s) - 1
        /\ \A k \in 1 .. Len(s) - 1 : q[k] = IF k < p THEN s[k] ELSE s[k + 1]
    BY <2>1, RemoveAtIs
  <2>3. m.seq_num_list = q
    BY <1>2 DEF s, p
  <2> HIDE DEF q
  <2> QED
    BY <2>1, <2>2, <2>3 DEF s, p, T
<1>5. DOMAIN m.rules = 1 .. Len(l.rules) - 1
  BY <1>3, LenProperties
<1>range. Len(l.rules) \in Nat /\ n \in Nat /\ n + 1 <= Len(l.rules)
  BY <1>0, <1>1
(* Where the rules of the new list come from. *)
<1>6. ASSUME NEW k \in 1 .. Len(l.rules) - 1
      PROVE  /\ from(k) \in 1 .. Len(l.rules) /\ from(k) # n + 1
             /\ m.rules[k] = l.rules[from(k)] /\ m.seq_num_list[k] = l.seq_num_list[from(k)]
  <2>1. from(k) \in 1 .. Len(l.rules) /\ from(k) # n + 1
    BY <1>range
  <2>2. CASE k < n + 1
    BY <1>3, <1>4, <2>1, <2>2
  <2>3. CASE ~(k < n + 1)
    BY <1>3, <1>4, <2>1, <2>3
  <2> QED
    BY <2>2, <2>3
<1>7. \A j, k \in 1 .. Len(l.rules) - 1 : j < k => from(j) < from(k)
  BY <1>range
<1>8. \A j, k \in 1 .. Len(l.rules) - 1 : from(j) = from(k) => j = k
  BY <1>range
<1>9. \A x \in 1 .. Len(l.rules) : x # n + 1 => \E k \in 1 .. Len(l.rules) - 1 : from(k) = x
  <2> SUFFICES ASSUME NEW x \in 1 .. Len(l.rules), x # n + 1
               PROVE  \E k \in 1 .. Len(l.rules) - 1 : from(k) = x
    OBVIOUS
  <2>1. CASE x < n + 1
    <3>1. x \in 1 .. Len(l.rules) - 1 /\ from(x) = x
      BY <1>range, <2>1
    <3> QED
      BY <3>1
  <2>2. CASE x > n + 1
    <3>1. x - 1 \in 1 .. Len(l.rules) - 1 /\ from(x - 1) = x
      BY <1>range, <2>2
    <3> QED
      BY <3>1
  <2>3. x < n + 1 \/ x > n + 1
    BY <1>range
  <2> QED
    BY <2>1, <2>2, <2>3
<1>10. \A k \in 1 .. n : k \in 1 .. Len(l.rules) - 1 /\ from(k) = k
  BY <1>range
<1> HIDE DEF from, ListOK
<1>11. IdsIn(m.rules) = IdsIn(l.rules) \ {l.rules[n + 1].id}
  <2>1. IdsIn(m.rules) = {m.rules[k].id : k \in 1 .. Len(l.rules) - 1}
    BY <1>3 DEF IdsIn
  <2>2. ASSUME NEW k \in 1 .. Len(l.rules) - 1
        PROVE  m.rules[k].id \in IdsIn(l.rules) /\ m.rules[k].id # l.rules[n + 1].id
    <3> DEFINE f == from(k)
    <3>1. f \in 1 .. Len(l.rules) /\ f # n + 1 /\ m.rules[k] = l.rules[f]
      BY <1>6
    <3> HIDE DEF f
    <3>2. l.rules[f].id # l.rules[n + 1].id
      BY <1>0, <1>1, <3>1
    <3> QED
      BY <3>1, <3>2 DEF IdsIn
  <2>3. ASSUME NEW x \in 1 .. Len(l.rules), l.rules[x].id # l.rules[n + 1].id
        PROVE  \E k \in 1 .. Len(l.rules) - 1 : m.rules[k].id = l.rules[x].id
    <3>1. x # n + 1
      BY <2>3
    <3>2. PICK k \in 1 .. Len(l.rules) - 1 : from(k) = x
      BY <1>9, <3>1
    <3>3. m.rules[k] = l.rules[from(k)]
      BY <1>6
    <3>4. m.rules[k].id = l.rules[x].id
      BY <3>2, <3>3
    <3> QED
      BY <3>4
  <2>4. IdsIn(l.rules) = {l.rules[k].id : k \in 1 .. Len(l.rules)}
    BY DEF IdsIn
  <2>5. IdsIn(m.rules) \subseteq IdsIn(l.rules) \ {l.rules[n + 1].id}
    BY <2>1, <2>2
  <2>6. IdsIn(l.rules) \ {l.rules[n + 1].id} \subseteq IdsIn(m.rules)
    <3> SUFFICES ASSUME NEW i \in IdsIn(l.rules), i # l.rules[n + 1].id PROVE i \in IdsIn(m.rules)
      OBVIOUS
    <3>1. PICK x \in 1 .. Len(l.rules) : l.rules[x].id = i
      BY <2>4
    <3>2. \E k \in 1 .. Len(l.rules) - 1 : m.rules[k].id = i
      BY <2>3, <3>1
    <3> QED
      BY <2>1, <3>2
  <2> QED
    BY <2>5, <2>6
<1>12. Ids(m) = IdsIn(m.rules) /\ Ids(l) = IdsIn(l.rules)
  BY <1>0, <1>3, <1>5 DEF Ids, IdsIn
<1>13. \A j, k \in 1 .. Len(m.rules) : m.rules[j].id = m.rules[k].id => j = k
  <2> SUFFICES ASSUME NEW j \in 1 .. Len(l.rules) - 1, NEW k \in 1 .. Len(l.rules) - 1,
                      m.rules[j].id = m.rules[k].id
               PROVE  j = k
    BY <1>3
  <2>1. from(j) \in 1 .. Len(l.rules) /\ m.rules[j] = l.rules[from(j)]
    BY <1>6
  <2>2. from(k) \in 1 .. Len(l.rules) /\ m.rules[k] = l.rules[from(k)]
    BY <1>6
  <2>3. l.rules[from(j)].id = l.rules[from(k)].id
    BY <2>1, <2>2
  <2>4. from(j) = from(k)
    BY <1>0, <2>1, <2>2, <2>3
  <2> QED
    BY <1>8, <2>4
<1>14. MapExact(m)
  <2>1. DOMAIN old = IdsIn(m.rules)
    BY <1>0, <1>11 DEF Without
  <2>2. ASSUME NEW k \in 1 .. n
        PROVE  m.rules[k].id \in DOMAIN old /\ old[m.rules[k].id] = k - 1
    <3>1. k \in 1 .. Len(l.rules) - 1 /\ m.rules[k] = l.rules[k] /\ k \in 1 .. Len(l.rules)
      BY <1>6, <1>10
    <3>2. m.rules[k].id \in IdsIn(m.rules)
      BY <1>3, <3>1 DEF IdsIn
    <3>3. old[m.rules[k].id] = l.rule_id_map[m.rules[k].id]
      BY <2>1, <3>2 DEF Without
    <3> QED
      BY <1>0, <2>1, <3>1, <3>2, <3>3
  <2>3. n \in 0 .. Len(m.rules) /\ Len(m.rules) \in Nat
    BY <1>0, <1>1, <1>3
  <2>4. /\ DOMAIN map = IdsIn(m.rules)
        /\ \A k \in 1 .. Len(m.rules) : map[m.rules[k].id] = k - 1
    <3> DEFINE rules == m.rules
    <3>1. Len(rules) \in Nat /\ n \in 0 .. Len(rules)
      BY <2>3
    <3>2. DistinctIds(rules)
      BY <1>13 DEF DistinctIds
    <3>3. DOMAIN old \subseteq IdsIn(rules)
      BY <2>1
    <3>4. MapsFirst(old, rules, n)
      BY <2>2 DEF MapsFirst
    <3>5. map = UpdateRuleIdMap(rules, old, n)
      OBVIOUS
    <3> HIDE DEF rules, old, map
    <3>6. /\ DOMAIN UpdateRuleIdMap(rules, old, n) = IdsIn(rules)
          /\ MapsFirst(UpdateRuleIdMap(rules, old, n), rules, Len(rules))
      BY <3>1, <3>2, <3>3, <3>4, UpdateRuleIdMapIs
    <3>7. /\ DOMAIN map = IdsIn(rules)
          /\ \A k \in 1 .. Len(rules) : map[rules[k].id] = k - 1
      BY <3>5, <3>6 DEF MapsFirst
    <3> QED
      BY <3>7 DEF rules
  <2>5. \A k \in 1 .. Len(m.rules) : m.seq_num_list[k] = m.rules[k].seq
    <3> SUFFICES ASSUME NEW k \in 1 .. Len(l.rules) - 1 PROVE m.seq_num_list[k] = m.rules[k].seq
      BY <1>3
    <3>1. from(k) \in 1 .. Len(l.rules)
      BY <1>6
    <3>2. m.rules[k] = l.rules[from(k)] /\ m.seq_num_list[k] = l.seq_num_list[from(k)]
      BY <1>6
    <3>3. l.seq_num_list[from(k)] = l.rules[from(k)].seq
      BY <1>0, <3>1
    <3> QED
      BY <3>2, <3>3
  <2> HIDE DEF map
  <2> QED
    BY <1>2, <1>3, <1>4, <1>5, <1>12, <2>4, <2>5 DEF MapExact
<1>15. SortedBySeq(m)
  <2>1. \A j, k \in 1 .. Len(l.rules) : j < k => l.rules[j].seq <= l.rules[k].seq
    BY <1>0 DEF ListOK, SortedBySeq
  <2> HIDE DEF from
  <2>2. ASSUME NEW j \in 1 .. Len(l.rules) - 1, NEW k \in 1 .. Len(l.rules) - 1, j < k
        PROVE  m.rules[j].seq <= m.rules[k].seq
    <3>1. /\ from(j) \in 1 .. Len(l.rules) /\ from(k) \in 1 .. Len(l.rules)
          /\ m.rules[j] = l.rules[from(j)] /\ m.rules[k] = l.rules[from(k)]
      BY <1>6
    <3>2. from(j) < from(k)
      BY <1>7, <2>2
    <3>3. l.rules[from(j)].seq <= l.rules[from(k)].seq
      BY <2>1, <3>1, <3>2
    <3> QED
      BY <3>1, <3>3
  <2> QED
    BY <1>5, <2>2 DEF SortedBySeq
<1>16. NoEqualRules(m)
  <2>1. \A j, k \in 1 .. Len(l.rules) : Equal(l.rules[j], l.rules[k]) => j = k
    BY <1>0 DEF ListOK, NoEqualRules
  <2> HIDE DEF from
  <2>2. ASSUME NEW j \in 1 .. Len(l.rules) - 1, NEW k \in 1 .. Len(l.rules) - 1,
               Equal(m.rules[j], m.rules[k])
        PROVE  j = k
    <3>1. /\ from(j) \in 1 .. Len(l.rules) /\ from(k) \in 1 .. Len(l.rules)
          /\ Equal(l.rules[from(j)], l.rules[from(k)])
      BY <1>6, <2>2
    <3>2. from(j) = from(k)
      BY <2>1, <3>1
    <3> QED
      BY <1>8, <3>2
  <2> QED
    BY <1>5, <2>2 DEF NoEqualRules
<1>17. ListOK(R, m)
  BY <1>3, <1>4, <1>14, <1>15, <1>16 DEF ListOK
<1>18. OthersOf(m, l, n)
  BY <1>3, <1>6 DEF OthersOf
<1> QED
  BY <1>2, <1>11, <1>12, <1>17, <1>18 DEF m

(* What replace_rule puts in place of the rule at n: it keeps its id and   *)
(* sort key and equals no other one.                                       *)
Replaces(R, l, n, u) ==
  /\ n \in 0 .. Len(l.rules) - 1 /\ u \in R
  /\ u.id = l.rules[n + 1].id /\ u.seq = l.rules[n + 1].seq
  /\ \A k \in 1 .. Len(l.rules) : Equal(l.rules[k], u) => k = n + 1

Replaced(R, l, n, u, m) ==
  m.rules = [l.rules EXCEPT ![n + 1] = u] /\ ListOK(R, m) /\ Ids(m) = Ids(l)

(* Then the list stays exact, sorted and without doubles.                  *)
LEMMA ReplaceKeeps ==
  ASSUME NEW R, NEW l, ListOK(R, l), NEW n, NEW u, Replaces(R, l, n, u)
  PROVE  Replaced(R, l, n, u, Replace(l, n, u))
<1> DEFINE m == Replace(l, n, u)
<1>0. /\ l.rules \in Seq(R) /\ l.seq_num_list \in Seq(Int)
      /\ Len(l.rules) \in Nat /\ DOMAIN l.rules = 1 .. Len(l.rules)
      /\ n + 1 \in 1 .. Len(l.rules) /\ u \in R
      /\ u.id = l.rules[n + 1].id /\ u.seq = l.rules[n + 1].seq
      /\ \A k \in 1 .. Len(l.rules) : Equal(l.rules[k], u) => k = n + 1
  <2>1. /\ l.rules \in Seq(R) /\ l.seq_num_list \in Seq(Int)
        /\ Len(l.rules) \in Nat /\ DOMAIN l.rules = 1 .. Len(l.rules)
    BY LenProperties DEF ListOK
  <2> QED
    BY <2>1 DEF Replaces
<1>1. /\ m.rules = [l.rules EXCEPT ![n + 1] = u]
      /\ m.seq_num_list = l.seq_num_list /\ m.rule_id_map = l.rule_id_map
  BY DEF Replace, ReplaceAt
<1> HIDE DEF m
<1>2. /\ m.rules \in Seq(R) /\ Len(m.rules) = Len(l.rules)
      /\ \A k \in 1 .. Len(l.rules) : m.rules[k] = IF k = n + 1 THEN u ELSE l.rules[k]
  BY <1>0, <1>1, ExceptSeq
<1>3. DOMAIN m.rules = 1 .. Len(l.rules)
  BY <1>2, LenProperties
<1>4. \A k \in 1 .. Len(l.rules) : m.rules[k].id = l.rules[k].id /\ m.rules[k].seq = l.rules[k].seq
  BY <1>0, <1>2
<1>5. Ids(m) = Ids(l)
  BY <1>0, <1>3, <1>4 DEF Ids
<1>6. MapExact(m)
  <2>1. /\ DOMAIN l.rule_id_map = Ids(l) /\ Len(l.seq_num_list) = Len(l.rules)
        /\ \A k \in 1 .. Len(l.rules) :
             l.rule_id_map[l.rules[k].id] = k - 1 /\ l.seq_num_list[k] = l.rules[k].seq
    BY <1>0 DEF ListOK, MapExact
  <2>2. \A k \in 1 .. Len(m.rules) :
          m.rule_id_map[m.rules[k].id] = k - 1 /\ m.seq_num_list[k] = m.rules[k].seq
    BY <1>1, <1>2, <1>4, <2>1
  <2> QED
    BY <1>1, <1>2, <1>3, <1>5, <2>1, <2>2 DEF MapExact
<1>7. SortedBySeq(m)
  BY <1>0, <1>3, <1>4 DEF ListOK, SortedBySeq
<1>8. NoEqualRules(m)
  <2>1. \A j, k \in 1 .. Len(l.rules) : Equal(l.rules[j], l.rules[k]) => j = k
    BY <1>0 DEF ListOK, NoEqualRules
  <2> QED
    BY <1>0, <1>2, <1>3, <2>1 DEF NoEqualRules, Equal
<1>9. ListOK(R, m)
  BY <1>0, <1>1, <1>2, <1>6, <1>7, <1>8 DEF ListOK
<1> QED
  BY <1>1, <1>5, <1>9 DEF Replaced, m
=============================================================================
