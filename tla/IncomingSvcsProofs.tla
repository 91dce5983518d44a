-------------------------- MODULE IncomingSvcsProofs --------------------------
(***************************************************************************)
(* IncomingSvcsRules for any callers, chains, VRFs, rules, ids and faults. *)
(* It rests on the lemmas of RuleListProofs; what is proved here is about  *)
(* the cache, the ids and the chains of the kernel.                        *)
(***************************************************************************)
EXTENDS IncomingSvcsRules, RuleListProofs, FiniteSetTheorems

RuleRec == [key : Keys, neg : Negs, seq : Seqs, id : Nat]

(* The sort keys of rules are integers.                                    *)
LEMMA RuleRecSeqs == \A r \in RuleRec : r.seq \in Int
BY SeqsAssumption DEF RuleRec

-----------------------------------------------------------------------------
SpecRec == [key : Keys, neg : Negs]

(* What iptables lists for a rule list.                                    *)
Specs(rules) == [k \in DOMAIN rules |-> SpecOf(rules[k])]

(* The specifications stand in the order of the rules.                     *)
LEMMA SpecsAre ==
  ASSUME NEW s \in Seq(RuleRec)
  PROVE  /\ Specs(s) \in Seq(SpecRec) /\ Len(Specs(s)) = Len(s)
         /\ \A k \in 1 .. Len(s) : Specs(s)[k] = SpecOf(s[k])
<1>1. DOMAIN s = 1 .. Len(s) /\ Len(s) \in Nat
  BY LenProperties
<1>2. \A k \in 1 .. Len(s) : SpecOf(s[k]) \in SpecRec
  <2>1. \A k \in 1 .. Len(s) : s[k] \in RuleRec
    BY ElementOfSeq
  <2> QED
    BY <2>1 DEF SpecOf, SpecRec, RuleRec
<1>3. Specs(s) = [k \in 1 .. Len(s) |-> SpecOf(s[k])]
  BY <1>1 DEF Specs
<1>4. Specs(s) \in [1 .. Len(s) -> SpecRec]
  BY <1>2, <1>3
<1>5. Specs(s) \in Seq(SpecRec)
  BY <1>1, <1>4, SeqDef
<1>6. Len(Specs(s)) = Len(s)
  BY <1>1, <1>4, <1>5, LenProperties
<1> QED
  BY <1>3, <1>5, <1>6

(* Inserting a rule and inserting its specification is the same.           *)
LEMMA SpecsOfInsert ==
  ASSUME NEW s \in Seq(RuleRec), NEW i \in 1 .. Len(s) + 1, NEW r \in RuleRec
  PROVE  Specs(InsertAt(s, i, r)) = InsertAt(Specs(s), i, SpecOf(r))
<1> DEFINE T == RuleRec
           U == SpecRec
           e == SpecOf(r)
           a == InsertAt(s, i, r)
           b == InsertAt(Specs(s), i, e)
<1>0. Len(s) \in Nat /\ i \in Int /\ e \in U
  BY LenProperties DEF SpecOf, SpecRec, RuleRec
<1>1. s \in Seq(T) /\ r \in T /\ Specs(s) \in Seq(U) /\ i \in 1 .. Len(Specs(s)) + 1
      /\ Len(Specs(s)) = Len(s) /\ \A k \in 1 .. Len(s) : Specs(s)[k] = SpecOf(s[k])
  BY SpecsAre
<1>2. \A q \in Seq(T) : /\ Specs(q) \in Seq(U) /\ Len(Specs(q)) = Len(q)
                        /\ \A k \in 1 .. Len(q) : Specs(q)[k] = SpecOf(q[k])
  BY SpecsAre
<1>3. e = SpecOf(r)
  OBVIOUS
<1> HIDE DEF T, U, e
<1>4. /\ a \in Seq(T) /\ Len(a) = Len(s) + 1
      /\ \A k \in 1 .. Len(s) + 1 : a[k] = IF k < i THEN s[k] ELSE IF k = i THEN r ELSE s[k - 1]
  BY <1>1, InsertAtIs
<1> DEFINE ss == Specs(s)
<1>5. /\ b \in Seq(U) /\ Len(b) = Len(s) + 1
      /\ \A k \in 1 .. Len(s) + 1 : b[k] = IF k < i THEN ss[k] ELSE IF k = i THEN e ELSE ss[k - 1]
  <2> HIDE DEF ss
  <2>1. ss \in Seq(U) /\ i \in 1 .. Len(ss) + 1 /\ Len(ss) = Len(s) /\ e \in U
    BY <1>0, <1>1 DEF ss
  <2> DEFINE q == InsertAt(ss, i, e)
  <2>2. /\ q \in Seq(U) /\ Len(q) = Len(ss) + 1
        /\ \A k \in 1 .. Len(ss) + 1 : q[k] = IF k < i THEN ss[k] ELSE IF k = i THEN e ELSE ss[k - 1]
    BY <2>1, InsertAtIs
  <2>3. q = b
    BY DEF ss
  <2> HIDE DEF q
  <2> QED
    BY <2>1, <2>2, <2>3
<1> HIDE DEF a, b, ss
<1>6. Specs(a) \in Seq(U) /\ Len(Specs(a)) = Len(s) + 1
      /\ \A k \in 1 .. Len(s) + 1 : Specs(a)[k] = SpecOf(a[k])
  BY <1>2, <1>4
<1>7. ASSUME NEW k \in 1 .. Len(s) + 1 PROVE Specs(a)[k] = b[k]
  <2>1. Specs(a)[k] = SpecOf(a[k])
    BY <1>6
  <2>2. CASE k < i
    <3>1. k \in 1 .. Len(s)
      BY <1>0, <2>2
    <3>2. a[k] = s[k] /\ b[k] = ss[k]
      BY <1>4, <1>5, <2>2
    <3> QED
      BY <1>1, <2>1, <3>1, <3>2 DEF ss
  <2>3. CASE k = i
    <3>1. a[k] = r /\ b[k] = e
      BY <1>0, <1>4, <1>5, <2>3
    <3> QED
      BY <1>3, <2>1, <3>1
  <2>4. CASE ~(k < i) /\ k # i
    <3>1. k - 1 \in 1 .. Len(s)
      BY <1>0, <2>4
    <3>2. a[k] = s[k - 1] /\ b[k] = ss[k - 1]
      BY <1>4, <1>5, <2>4
    <3> QED
      BY <1>1, <2>1, <3>1, <3>2 DEF ss
  <2> QED
    BY <2>2, <2>3, <2>4
<1>8. Specs(a) = b
  BY <1>5, <1>6, <1>7, SeqEqual
<1> QED
  BY <1>3, <1>8 DEF a, b

(* Deleting a rule and deleting its specification is the same.             *)
LEMMA SpecsOfRemove ==
  ASSUME NEW s \in Seq(RuleRec), NEW i \in 1 .. Len(s)
  PROVE  Specs(RemoveAt(s, i)) = RemoveAt(Specs(s), i)
<1> DEFINE T == RuleRec
           U == SpecRec
           a == RemoveAt(s, i)
           ss == Specs(s)
           b == RemoveAt(ss, i)
<1>0. Len(s) \in Nat /\ i \in Int
  BY LenProperties
<1>1. s \in Seq(T) /\ ss \in Seq(U) /\ i \in 1 .. Len(ss)
      /\ Len(ss) = Len(s) /\ \A k \in 1 .. Len(s) : ss[k] = SpecOf(s[k])
  BY SpecsAre
<1>2. \A q \in Seq(T) : /\ Specs(q) \in Seq(U) /\ Len(Specs(q)) = Len(q)
                        /\ \A k \in 1 .. Len(q) : Specs(q)[k] = SpecOf(q[k])
  BY SpecsAre
<1>3. Specs(RemoveAt(s, i)) = Specs(a) /\ RemoveAt(Specs(s), i) = b
  OBVIOUS
<1> HIDE DEF T, U, ss
<1>4. /\ a \in Seq(T) /\ Len(a) = Len(s) - 1
      /\ \A k \in 1 .. Len(s) - 1 : a[k] = IF k < i THEN s[k] ELSE s[k + 1]
  BY <1>1, RemoveAtIs
<1>5. /\ b \in Seq(U) /\ Len(b) = Len(s) - 1
      /\ \A k \in 1 .. Len(s) - 1 : b[k] = IF k < i THEN ss[k] ELSE ss[k + 1]
  <2>2. /\ b \in Seq(U) /\ Len(b) = Len(ss) - 1
        /\ \A k \in 1 .. Len(ss) - 1 : b[k] = IF k < i THEN ss[k] ELSE ss[k + 1]
    BY <1>1, RemoveAtIs
  <2> HIDE DEF b
  <2> QED
    BY <1>1, <2>2
<1> HIDE DEF a, b
<1>6. Specs(a) \in Seq(U) /\ Len(Specs(a)) = Len(s) - 1
      /\ \A k \in 1 .. Len(s) - 1 : Specs(a)[k] = SpecOf(a[k])
  BY <1>2, <1>4
<1>7. ASSUME NEW k \in 1 .. Len(s) - 1 PROVE Specs(a)[k] = b[k]
  <2>1. Specs(a)[k] = SpecOf(a[k])
    BY <1>6
  <2>2. k \in 1 .. Len(s) /\ k + 1 \in 1 .. Len(s)
    BY <1>0
  <2>3. CASE k < i
    <3>1. a[k] = s[k] /\ b[k] = ss[k]
      BY <1>4, <1>5, <2>3
    <3> QED
      BY <1>1, <2>1, <2>2, <3>1
  <2>4. CASE ~(k < i)
    <3>1. a[k] = s[k + 1] /\ b[k] = ss[k + 1]
      BY <1>4, <1>5, <2>4
    <3> QED
      BY <1>1, <2>1, <2>2, <3>1
  <2> QED
    BY <2>3, <2>4
<1>8. Specs(a) = b
  BY <1>5, <1>6, <1>7, SeqEqual
<1> QED
  BY <1>3, <1>8

(* Replacing a rule and replacing its specification is the same.           *)
LEMMA SpecsOfReplace ==
  ASSUME NEW s \in Seq(RuleRec), NEW i \in 1 .. Len(s), NEW r \in RuleRec
  PROVE  Specs([s EXCEPT ![i] = r]) = [Specs(s) EXCEPT ![i] = SpecOf(r)]
BY DEF Specs

(* An empty rule list has an empty chain.                                  *)
LEMMA SpecsOfEmpty == Specs(<<>>) = <<>>
<1>1. <<>> \in Seq(RuleRec) /\ Len(<<>>) = 0
  OBVIOUS
<1>2. Specs(<<>>) \in Seq(SpecRec) /\ Len(Specs(<<>>)) = 0
  BY <1>1, SpecsAre
<1> QED
  BY <1>2, EmptySeq

-----------------------------------------------------------------------------
(* The cache: lists in order, ids with one owner; chains of the kernel are *)
(* those of namespaces that exist.                                         *)
CacheInv ==
  /\ TypeOK
  /\ DOMAIN lists = Chains
  /\ \A c \in Chains : ListOK(RuleRec, lists[c])
  /\ IdsOwned
  /\ \A c \in ready : VrfOf[c] \in netns \cup {None}

(* A chain that is not marred lists what the cache lists; one that is not  *)
(* there is empty, as it needs to be when it is created again.             *)
SyncInv ==
  /\ \A c \in ready \ marred : chain[c] = Specs(lists[c].rules)
  /\ \A c \in Chains \ ready : chain[c] = <<>>

IInv == CacheInv /\ SyncInv

(* The rules of a list are ready to be named by position.                  *)
LEMMA RulesOf ==
  ASSUME CacheInv, NEW c \in Chains
  PROVE  /\ ListOK(RuleRec, lists[c])
         /\ lists[c].rules \in Seq(RuleRec)
         /\ Len(lists[c].rules) \in Nat /\ DOMAIN lists[c].rules = 1 .. Len(lists[c].rules)
         /\ Ids(lists[c]) \subseteq resved_ids
         /\ DOMAIN lists[c].rule_id_map = Ids(lists[c])
BY LenProperties DEF CacheInv, ListOK, MapExact, IdsOwned

(* A call that changes one list and releases no id.                        *)
LEMMA ListChanges ==
  ASSUME CacheInv, NEW c \in Chains, NEW m, ListOK(RuleRec, m),
         lists' = [lists EXCEPT ![c] = m],
         resved_ids \subseteq resved_ids', resved_ids' \subseteq Nat \ {0},
         Ids(m) \subseteq resved_ids', (Ids(m) \ Ids(lists[c])) \cap resved_ids = {},
         UNCHANGED <<pend, netns, known, ready>>, marred' \subseteq ready, DOMAIN chain' = Chains
  PROVE  CacheInv'
<1>1. DOMAIN lists' = Chains /\ lists'[c] = m /\ \A d \in Chains : d # c => lists'[d] = lists[d]
  BY DEF CacheInv
<1>2. \A d \in Chains : ListOK(RuleRec, lists'[d])
  BY <1>1 DEF CacheInv
<1>3. TypeOK'
  <2>1. \A d \in Chains : lists'[d].rules \in Seq([key : Keys, neg : Negs, seq : Seqs, id : Nat])
    BY <1>2 DEF ListOK, RuleRec
  <2> QED
    BY <2>1 DEF CacheInv, TypeOK
<1>4. IdsOwned'
  <2>1. \A d \in Chains : Ids(lists'[d]) \subseteq resved_ids'
    BY <1>1 DEF CacheInv, IdsOwned
  <2>2. \A d \in Chains : d # c => Ids(m) \cap Ids(lists[d]) = {}
    BY DEF CacheInv, IdsOwned
  <2>3. \A d, e \in Chains : d # e => Ids(lists'[d]) \cap Ids(lists'[e]) = {}
    BY <1>1, <2>2 DEF CacheInv, IdsOwned
  <2>4. ASSUME NEW t \in Threads, pend[t] # None
        PROVE  /\ pend[t] \in resved_ids' /\ \A d \in Chains : pend[t] \notin Ids(lists'[d])
               /\ \A u \in Threads \ {t} : pend[u] # pend[t]
    BY <1>1, <2>4 DEF CacheInv, IdsOwned
  <2> QED
    BY <2>1, <2>3, <2>4 DEF IdsOwned
<1>5. (\A d \in ready : VrfOf[d] \in netns \cup {None})'
  BY DEF CacheInv
<1> QED
  BY <1>1, <1>2, <1>3, <1>4, <1>5 DEF CacheInv

(* A delete hands the id of its rule to the thread that will release it.   *)
LEMMA DeleteChanges ==
  ASSUME CacheInv, NEW c \in Chains, NEW m, ListOK(RuleRec, m),
         NEW t \in Threads, Idle(t), NEW i \in Ids(lists[c]),
         lists' = [lists EXCEPT ![c] = m], Ids(m) = Ids(lists[c]) \ {i},
         pend' = [pend EXCEPT ![t] = i],
         UNCHANGED <<resved_ids, netns, known, ready>>, marred' \subseteq ready, DOMAIN chain' = Chains
  PROVE  CacheInv'
<1>0. i \in resved_ids /\ i \in Nat
  BY RulesOf DEF CacheInv, TypeOK
<1>1. DOMAIN lists' = Chains /\ lists'[c] = m /\ \A d \in Chains : d # c => lists'[d] = lists[d]
  BY DEF CacheInv
<1>2. \A d \in Chains : ListOK(RuleRec, lists'[d])
  BY <1>1 DEF CacheInv
<1>3. pend' \in [Threads -> Nat \cup {None}]
  BY <1>0 DEF CacheInv, TypeOK
<1>4. TypeOK'
  <2>1. \A d \in Chains : lists'[d].rules \in Seq([key : Keys, neg : Negs, seq : Seqs, id : Nat])
    BY <1>2 DEF ListOK, RuleRec
  <2> QED
    BY <1>3, <2>1 DEF CacheInv, TypeOK
<1>5. IdsOwned'
  <2>1. \A d \in Chains : Ids(lists'[d]) \subseteq Ids(lists[d])
    BY <1>1
  <2>2. \A d \in Chains : Ids(lists[d]) \subseteq resved_ids
    BY DEF CacheInv, IdsOwned
  <2>3. \A d, e \in Chains : d # e => Ids(lists[d]) \cap Ids(lists[e]) = {}
    BY DEF CacheInv, IdsOwned
  <2>4. \A d \in Chains : i \notin Ids(lists'[d])
    BY <1>1, <2>3
  <2>5. \A u \in Threads : u # t => pend'[u] = pend[u]
    BY DEF CacheInv, TypeOK
  <2>6. pend'[t] = i
    BY DEF CacheInv, TypeOK
  <2>7. \A u \in Threads : pend[u] # None =>
          /\ pend[u] \in resved_ids /\ \A d \in Chains : pend[u] \notin Ids(lists[d])
          /\ \A x \in Threads \ {u} : pend[x] # pend[u]
    BY DEF CacheInv, IdsOwned
  <2>8. \A u \in Threads : pend[u] # None => pend[u] # i
    BY <2>7
  <2>9. i # None
    BY <1>0, NoneAssumption
  <2>10. ASSUME NEW u \in Threads, pend'[u] # None
         PROVE  /\ pend'[u] \in resved_ids /\ \A d \in Chains : pend'[u] \notin Ids(lists'[d])
                /\ \A x \in Threads \ {u} : pend'[x] # pend'[u]
    <3>1. CASE u = t
      <4>1. \A x \in Threads \ {t} : pend'[x] # i
        BY <2>5, <2>8, <2>9
      <4> QED
        BY <1>0, <2>4, <2>6, <3>1, <4>1
    <3>2. CASE u # t
      <4>1. pend'[u] = pend[u] /\ pend[u] # None
        BY <2>5, <2>10, <3>2
      <4>2. \A x \in Threads \ {u} : pend'[x] # pend[u]
        BY <2>5, <2>6, <2>7, <2>8, <4>1
      <4> QED
        BY <2>1, <2>7, <4>1, <4>2
    <3> QED
      BY <3>1, <3>2
  <2> QED
    BY <2>1, <2>2, <2>3, <2>10 DEF IdsOwned
<1>6. (\A d \in ready : VrfOf[d] \in netns \cup {None})'
  BY DEF CacheInv
<1> QED
  BY <1>1, <1>2, <1>4, <1>5, <1>6 DEF CacheInv

(* A call that changes one list and its chain alike, or mars the chain.    *)
LEMMA ChainChanges ==
  ASSUME IInv, NEW c \in Chains, NEW m,
         lists' = [lists EXCEPT ![c] = m], UNCHANGED ready, marred \subseteq marred',
         \A d \in Chains : d # c => chain'[d] = chain[d],
         c \in ready \ marred' => chain'[c] = Specs(m.rules),
         c \notin ready => chain'[c] = <<>>
  PROVE  SyncInv'
<1>1. lists'[c] = m /\ \A d \in Chains : d # c => lists'[d] = lists[d]
  BY DEF IInv, CacheInv
<1>2. ready \subseteq Chains
  BY DEF IInv, CacheInv, TypeOK
<1>3. /\ \A d \in ready \ marred : chain[d] = Specs(lists[d].rules)
      /\ \A d \in Chains \ ready : chain[d] = <<>>
  BY DEF IInv, SyncInv
<1> QED
  BY <1>1, <1>2, <1>3 DEF SyncInv

(* insert, and remove at once, leaves the rules as they were.              *)
LEMMA TakenOut ==
  ASSUME NEW l, ListOK(RuleRec, l), NEW r \in RuleRec, ListOK(RuleRec, Insert(l, r)),
         NEW n \in 0 .. Len(l.rules), Insert(l, r).rules = InsertAt(l.rules, n + 1, r)
  PROVE  /\ ListOK(RuleRec, RemovePos(Insert(l, r), n))
         /\ RemovePos(Insert(l, r), n).rules = l.rules
         /\ Ids(RemovePos(Insert(l, r), n)) = Ids(l)
<1> DEFINE m == Insert(l, r)
           o == RemovePos(m, n)
           s == l.rules
           i == n + 1
           T == RuleRec
<1>0. s \in Seq(T) /\ Len(s) \in Nat /\ r \in T /\ i \in 1 .. Len(s) + 1
  BY LenProperties DEF ListOK
<1>1. m.rules = InsertAt(s, i, r)
  OBVIOUS
<1>2. ListOK(RuleRec, m)
  OBVIOUS
<1> HIDE DEF m, s, i, T
<1>3. Len(m.rules) = Len(s) + 1
  <2>1. Len(InsertAt(s, i, r)) = Len(s) + 1
    BY <1>0, InsertAtIs
  <2> QED
    BY <1>1, <2>1
<1>4. n \in 0 .. Len(m.rules) - 1
  BY <1>0, <1>3 DEF s
<1>5. ListOK(RuleRec, o) /\ o.rules = RemoveAt(m.rules, i)
  BY <1>2, <1>4, RemoveKeeps DEF i
<1>6. RemoveAt(InsertAt(s, i, r), i) = s
  BY <1>0, RemoveUndoesInsert
<1>7. o.rules = s
  BY <1>1, <1>5, <1>6
<1>8. Ids(o) = Ids(l)
  BY <1>7 DEF Ids, s
<1> QED
  BY <1>5, <1>7, <1>8 DEF m, s

(* A new id is free.                                                       *)
LEMMA NewIdIs ==
  ASSUME CacheInv, NEW asked \in RuleIds \cup {None}, NEW i \in NewIds(asked)
  PROVE  i \in Nat \ {0} /\ i \notin resved_ids
<1>1. resved_ids \subseteq Nat \ {0}
  BY DEF CacheInv, TypeOK
<1>2. CASE asked # None
  BY <1>2, RuleIdsAssumption DEF NewIds
<1>3. CASE asked = None
  BY <1>1, <1>3 DEF NewIds
<1> QED
  BY <1>2, <1>3

(* A rule with an id is a rule of the lists.                               *)
LEMMA WithIdIs ==
  ASSUME NEW r \in Rules, NEW i \in Nat
  PROVE  WithId(r, i) \in RuleRec /\ WithId(r, i).id = i
BY DEF Rules, WithId, RuleRec

(* insert_rule, when iptables takes the rule.                              *)
LEMMA InsertStep ==
  ASSUME IInv, NEW t \in Threads, NEW c \in Chains, NEW r \in RuleRec,
         r.id \in Nat \ {0}, r.id \notin resved_ids, InsertRule(t, c, r)
  PROVE  IInv'
<1> DEFINE l == lists[c]
           m == Insert(l, r)
           n == InsertPos(l, r)
<1>0. CacheInv /\ SyncInv
  BY DEF IInv
<1>1. /\ ListOK(RuleRec, l) /\ l.rules \in Seq(RuleRec) /\ Len(l.rules) \in Nat
      /\ DOMAIN l.rules = 1 .. Len(l.rules) /\ Ids(l) \subseteq resved_ids
  BY <1>0, RulesOf
<1>2. \A k \in 1 .. Len(l.rules) : ~Equal(l.rules[k], r)
  BY <1>1 DEF InsertRule, CanInsert
<1>3. r.id \notin Ids(l)
  BY <1>1
<1>4. /\ lists' = [lists EXCEPT ![c] = m]
      /\ chain' = [chain EXCEPT ![c] = InsertAt(chain[c], n + 1, SpecOf(r))]
      /\ resved_ids' = resved_ids \cup {r.id} /\ UNCHANGED <<pend, netns, known, ready, marred>>
      /\ c \in ready
  BY DEF InsertRule, CanRun
<1> HIDE DEF l, m, n
<1>5. /\ n \in 0 .. Len(l.rules) /\ m.rules = InsertAt(l.rules, n + 1, r)
      /\ ListOK(RuleRec, m) /\ Ids(m) = Ids(l) \cup {r.id}
  BY <1>1, <1>2, <1>3, InsertKeeps DEF m, n
<1>6. CacheInv'
  <2>1. Ids(m) \subseteq resved_ids' /\ (Ids(m) \ Ids(l)) \cap resved_ids = {}
    BY <1>1, <1>4, <1>5
  <2>2. resved_ids \subseteq resved_ids' /\ resved_ids' \subseteq Nat \ {0}
    BY <1>0, <1>4 DEF CacheInv, TypeOK
  <2>3. DOMAIN chain' = Chains /\ marred' \subseteq ready
    BY <1>0, <1>4 DEF CacheInv, TypeOK
  <2> QED
    BY <1>0, <1>4, <1>5, <2>1, <2>2, <2>3, ListChanges DEF l
<1>7. SyncInv'
  <2>1. \A d \in Chains : d # c => chain'[d] = chain[d]
    BY <1>0, <1>4 DEF CacheInv, TypeOK
  <2>2. ASSUME c \notin marred PROVE chain'[c] = Specs(m.rules)
    <3>1. chain[c] = Specs(l.rules)
      BY <1>0, <1>4, <2>2 DEF SyncInv, l
    <3>2. chain'[c] = InsertAt(Specs(l.rules), n + 1, SpecOf(r))
      BY <1>0, <1>4, <3>1 DEF CacheInv, TypeOK
    <3>3. n + 1 \in 1 .. Len(l.rules) + 1
      BY <1>1, <1>5
    <3>4. Specs(InsertAt(l.rules, n + 1, r)) = InsertAt(Specs(l.rules), n + 1, SpecOf(r))
      BY <1>1, <3>3, SpecsOfInsert
    <3> QED
      BY <1>5, <3>2, <3>4
  <2> QED
    BY <1>4, <2>1, <2>2, ChainChanges
<1> QED
  BY <1>6, <1>7 DEF IInv

(* insert_rule, when iptables refuses it and the rule is taken out again.  *)
LEMMA InsertFailsStep ==
  ASSUME IInv, NEW t \in Threads, NEW c \in Chains, NEW r \in RuleRec,
         r.id \in Nat \ {0}, r.id \notin resved_ids, InsertRuleFails(t, c, r)
  PROVE  IInv'
<1> DEFINE l == lists[c]
           n == InsertPos(l, r)
           m == Insert(l, r)
           o == RemovePos(m, n)
<1>0. CacheInv /\ SyncInv
  BY DEF IInv
<1>1. /\ ListOK(RuleRec, l) /\ l.rules \in Seq(RuleRec) /\ Len(l.rules) \in Nat
      /\ DOMAIN l.rules = 1 .. Len(l.rules) /\ Ids(l) \subseteq resved_ids
  BY <1>0, RulesOf
<1>2. \A k \in 1 .. Len(l.rules) : ~Equal(l.rules[k], r)
  BY <1>1 DEF InsertRuleFails, CanInsert
<1>3. r.id \notin Ids(l)
  BY <1>1
<1>4. /\ lists' = [lists EXCEPT ![c] = o]
      /\ resved_ids' = resved_ids \cup {r.id}
      /\ UNCHANGED <<pend, netns, known, ready, chain, marred>>
  BY DEF InsertRuleFails
<1>5. /\ n \in 0 .. Len(l.rules) /\ m.rules = InsertAt(l.rules, n + 1, r)
      /\ ListOK(RuleRec, m) /\ Ids(m) = Ids(l) \cup {r.id}
  BY <1>1, <1>2, <1>3, InsertKeeps
<1>6. /\ ListOK(RuleRec, o) /\ o.rules = l.rules /\ Ids(o) = Ids(l)
  BY <1>1, <1>5, TakenOut
<1> HIDE DEF l, m, n, o
<1>7. CacheInv'
  <2>1. resved_ids \subseteq resved_ids' /\ resved_ids' \subseteq Nat \ {0}
    BY <1>0, <1>4 DEF CacheInv, TypeOK
  <2>2. DOMAIN chain' = Chains /\ marred' \subseteq ready
    BY <1>0, <1>4 DEF CacheInv, TypeOK
  <2>3. Ids(o) \subseteq resved_ids' /\ (Ids(o) \ Ids(l)) \cap resved_ids = {}
    BY <1>1, <1>6, <2>1
  <2> QED
    BY <1>0, <1>4, <1>6, <2>1, <2>2, <2>3, ListChanges DEF l
<1>8. SyncInv'
  <2>1. /\ c \in ready \ marred => chain[c] = Specs(o.rules)
        /\ c \notin ready => chain[c] = <<>>
    BY <1>0, <1>6 DEF SyncInv, l
  <2> QED
    BY <1>4, <2>1, ChainChanges
<1> QED
  BY <1>7, <1>8 DEF IInv

(* Unless it is skipped, a delete by position takes the rule it is meant   *)
(* for from a chain that was not marred.                                   *)
LEMMA DeleteHits ==
  ASSUME IInv, NEW c \in Chains,
         NEW n \in 0 .. Len(lists[c].rules) - 1, NEW ch \in DeleteResults(c, n)
  PROVE  /\ c \in ready /\ c \notin marred \cup Skipped(c, ch)
              => ch = Specs(RemoveAt(lists[c].rules, n + 1))
         /\ c \notin ready => ch = <<>>
<1>0. CacheInv /\ SyncInv
  BY DEF IInv
<1>1. lists[c].rules \in Seq(RuleRec) /\ Len(lists[c].rules) \in Nat
  BY <1>0, RulesOf
<1>2. ASSUME c \in ready, c \notin marred \cup Skipped(c, ch)
      PROVE  ch = Specs(RemoveAt(lists[c].rules, n + 1))
  <2>1. ch # chain[c]
    BY <1>2 DEF Skipped
  <2>2. ch = RemoveAt(chain[c], n + 1)
    BY <2>1 DEF DeleteResults
  <2>3. chain[c] = Specs(lists[c].rules)
    BY <1>0, <1>2 DEF SyncInv
  <2>4. n + 1 \in 1 .. Len(lists[c].rules)
    BY <1>1
  <2>5. Specs(RemoveAt(lists[c].rules, n + 1)) = RemoveAt(Specs(lists[c].rules), n + 1)
    BY <1>1, <2>4, SpecsOfRemove
  <2> QED
    BY <2>2, <2>3, <2>5
<1>3. ASSUME c \notin ready PROVE ch = <<>>
  <2>1. ch = chain[c]
    BY <1>3 DEF DeleteResults, CanRun
  <2> QED
    BY <1>0, <1>3, <2>1 DEF SyncInv
<1> QED
  BY <1>2, <1>3

(* The delete of a rule, found by its match or by its id.                  *)
LEMMA DeletePosStep ==
  ASSUME IInv, NEW t \in Threads, NEW c \in Chains,
         NEW n \in 0 .. Len(lists[c].rules) - 1, DeletePos(t, c, n)
  PROVE  IInv'
<1> DEFINE l == lists[c]
           m == RemovePos(l, n)
           i == l.rules[n + 1].id
<1>0. CacheInv /\ SyncInv
  BY DEF IInv
<1>1. /\ ListOK(RuleRec, l) /\ l.rules \in Seq(RuleRec) /\ Len(l.rules) \in Nat
      /\ DOMAIN l.rules = 1 .. Len(l.rules) /\ Ids(l) \subseteq resved_ids
  BY <1>0, RulesOf
<1>2. n + 1 \in 1 .. Len(l.rules)
  BY <1>1
<1>3. i \in Ids(l)
  BY <1>1, <1>2 DEF Ids
<1>4. /\ lists' = [lists EXCEPT ![c] = m] /\ pend' = [pend EXCEPT ![t] = i]
      /\ UNCHANGED <<resved_ids, netns, known, ready>> /\ Idle(t)
  BY DEF DeletePos
<1>5. PICK ch \in DeleteResults(c, n) :
        chain' = [chain EXCEPT ![c] = ch] /\ marred' = marred \cup Skipped(c, ch)
  BY DEF DeletePos
<1>6. m.rules = RemoveAt(l.rules, n + 1) /\ ListOK(RuleRec, m) /\ Ids(m) = Ids(l) \ {i}
  BY <1>1, RemoveKeeps
<1> HIDE DEF l, m, i
<1>7. /\ DOMAIN chain' = Chains /\ chain'[c] = ch /\ \A d \in Chains : d # c => chain'[d] = chain[d]
      /\ marred' \subseteq ready
  BY <1>0, <1>5 DEF CacheInv, TypeOK, Skipped
<1>8. CacheInv'
  BY <1>0, <1>3, <1>4, <1>6, <1>7, DeleteChanges DEF l
<1>9. SyncInv'
  <2>1. /\ c \in ready \ marred' => chain'[c] = Specs(m.rules)
        /\ c \notin ready => chain'[c] = <<>>
    BY <1>5, <1>6, <1>7, DeleteHits DEF l
  <2> QED
    BY <1>4, <1>5, <1>7, <2>1, ChainChanges
<1> QED
  BY <1>8, <1>9 DEF IInv

(* A refused delete: the rule goes back into its list.                     *)
LEMMA DeletePosFailsStep ==
  ASSUME IInv, NEW t \in Threads, NEW c \in Chains,
         NEW n \in 0 .. Len(lists[c].rules) - 1, DeletePosFails(t, c, n)
  PROVE  IInv'
<1> DEFINE l == lists[c]
           r == l.rules[n + 1]
           m == RemovePos(l, n)
           o == Insert(m, r)
<1>0. CacheInv /\ SyncInv
  BY DEF IInv
<1>1. /\ ListOK(RuleRec, l) /\ l.rules \in Seq(RuleRec) /\ Len(l.rules) \in Nat
      /\ DOMAIN l.rules = 1 .. Len(l.rules) /\ Ids(l) \subseteq resved_ids
  BY <1>0, RulesOf
<1>2. n + 1 \in 1 .. Len(l.rules)
  BY <1>1
<1>3. r \in RuleRec /\ r.id \in Ids(l)
  BY <1>1, <1>2, ElementOfSeq DEF Ids
<1>4. /\ lists' = [lists EXCEPT ![c] = o]
      /\ UNCHANGED <<resved_ids, pend, netns, known, ready, chain>>
      /\ marred' = marred \cup ({c} \cap ready)
  BY DEF DeletePosFails
<1>5. /\ ListOK(RuleRec, m) /\ Ids(m) = Ids(l) \ {r.id}
      /\ OthersOf(m, l, n)
  <2>1. n \in 0 .. Len(l.rules) - 1
    OBVIOUS
  <2> HIDE DEF l
  <2> QED
    BY <1>1, <2>1, RemoveKeeps
<1> HIDE DEF m
<1>6. \A k \in 1 .. Len(m.rules) : ~Equal(m.rules[k], r)
  <2>1. \A x \in 1 .. Len(l.rules) : Equal(l.rules[x], r) => x = n + 1
    BY <1>1, <1>2 DEF ListOK, NoEqualRules
  <2> QED
    BY <1>5, <2>1 DEF OthersOf
<1> HIDE DEF l, r
<1>7. ListOK(RuleRec, o) /\ Ids(o) = Ids(m) \cup {r.id}
  BY <1>3, <1>5, <1>6, InsertKeeps
<1>8. Ids(o) = Ids(l)
  BY <1>3, <1>5, <1>7
<1> HIDE DEF o
<1>9. CacheInv'
  <2>1. resved_ids' \subseteq Nat \ {0} /\ DOMAIN chain' = Chains /\ marred' \subseteq ready
    BY <1>0, <1>4 DEF CacheInv, TypeOK
  <2> QED
    BY <1>0, <1>1, <1>4, <1>7, <1>8, <2>1, ListChanges DEF l
<1>10. SyncInv'
  <2>1. c \notin ready \ marred' /\ (c \notin ready => chain'[c] = <<>>)
    BY <1>0, <1>4 DEF SyncInv
  <2> QED
    BY <1>4, <2>1, ChainChanges
<1> QED
  BY <1>9, <1>10 DEF IInv

(* The release of a deleted rule's id.                                     *)
LEMMA ReleaseStep ==
  ASSUME IInv, NEW t \in Threads, ReleaseId(t)
  PROVE  IInv'
<1>0. CacheInv /\ SyncInv
  BY DEF IInv
<1>1. /\ pend[t] # None /\ resved_ids' = resved_ids \ {pend[t]}
      /\ pend' = [pend EXCEPT ![t] = None]
      /\ UNCHANGED <<lists, netns, known, ready, chain, marred>>
  BY DEF ReleaseId
<1>2. /\ \A c \in Chains : Ids(lists[c]) \subseteq resved_ids
      /\ \A c, d \in Chains : c # d => Ids(lists[c]) \cap Ids(lists[d]) = {}
      /\ \A u \in Threads : pend[u] # None =>
           /\ pend[u] \in resved_ids
           /\ \A c \in Chains : pend[u] \notin Ids(lists[c])
           /\ \A x \in Threads \ {u} : pend[x] # pend[u]
  BY <1>0 DEF CacheInv, IdsOwned
<1>3. TypeOK'
  BY <1>0, <1>1 DEF CacheInv, TypeOK
<1>4. \A u \in Threads : pend'[u] = IF u = t THEN None ELSE pend[u]
  BY <1>0, <1>1 DEF CacheInv, TypeOK
<1>5. IdsOwned'
  <2>1. \A c \in Chains : Ids(lists'[c]) = Ids(lists[c])
    BY <1>1
  <2>2. \A c \in Chains : Ids(lists[c]) \subseteq resved_ids'
    BY <1>1, <1>2
  <2>3. ASSUME NEW u \in Threads, pend'[u] # None
        PROVE  /\ pend'[u] \in resved_ids' /\ \A c \in Chains : pend'[u] \notin Ids(lists[c])
               /\ \A x \in Threads \ {u} : pend'[x] # pend'[u]
    <3>1. u # t /\ pend'[u] = pend[u]
      BY <1>4, <2>3
    <3>2. pend[u] # pend[t]
      BY <1>1, <1>2, <3>1
    <3> QED
      BY <1>1, <1>2, <1>4, <2>3, <3>1, <3>2
  <2> QED
    BY <1>2, <2>1, <2>2, <2>3 DEF IdsOwned
<1>6. CacheInv'
  BY <1>0, <1>1, <1>3, <1>5 DEF CacheInv
<1>7. SyncInv'
  BY <1>0, <1>1 DEF SyncInv
<1> QED
  BY <1>6, <1>7 DEF IInv

(* update_rule goes on only if no other rule of the list equals the update.*)
LEMMA UpdateUnique ==
  ASSUME CacheInv, NEW t, NEW c \in Chains, NEW n \in 0 .. Len(lists[c].rules) - 1, NEW u,
         UpdateStarts(t, c, n, u)
  PROVE  /\ u.id = lists[c].rules[n + 1].id
         /\ \A k \in 1 .. Len(lists[c].rules) : Equal(lists[c].rules[k], u) => k = n + 1
<1> DEFINE l == lists[c]
           x == IndexOf(l, u) + 1
<1>1. /\ ListOK(RuleRec, l) /\ l.rules \in Seq(RuleRec) /\ Len(l.rules) \in Nat
      /\ DOMAIN l.rules = 1 .. Len(l.rules) /\ n + 1 \in 1 .. Len(l.rules)
  BY RulesOf
<1>2. u.id = l.rules[n + 1].id /\ (HasEqual(l, u) => l.rules[x].id = l.rules[n + 1].id)
  BY DEF UpdateStarts
<1> HIDE DEF l
<1>3. ASSUME NEW k \in 1 .. Len(l.rules), Equal(l.rules[k], u) PROVE k = n + 1
  <2>1. HasEqual(l, u)
    BY <1>1, <1>3 DEF HasEqual
  <2>2. IndexOf(l, u) \in 0 .. Len(l.rules) - 1 /\ k = x
    BY <1>1, <1>3, <2>1, IndexOfIs
  <2>3. l.rules[k].id = l.rules[n + 1].id
    BY <1>2, <2>1, <2>2
  <2>4. \A i, j \in 1 .. Len(l.rules) : l.rules[i].id = l.rules[j].id => i = j
    BY <1>1, IdsDistinct DEF ListOK
  <2> QED
    BY <1>1, <2>3, <2>4
<1> QED
  BY <1>2, <1>3 DEF l

(* update_rule without a change of sort key.                               *)
LEMMA UpdateReplacesStep ==
  ASSUME IInv, NEW t \in Threads, NEW c \in Chains, NEW u \in RuleRec,
         NEW n \in 0 .. Len(lists[c].rules) - 1, UpdateReplaces(t, c, n, u)
  PROVE  IInv'
<1> DEFINE l == lists[c]
           m == Replace(l, n, u)
<1>0. CacheInv /\ SyncInv
  BY DEF IInv
<1>1. /\ ListOK(RuleRec, l) /\ l.rules \in Seq(RuleRec) /\ Len(l.rules) \in Nat
      /\ n + 1 \in 1 .. Len(l.rules) /\ Ids(l) \subseteq resved_ids
  BY <1>0, RulesOf
<1>2. u.id = l.rules[n + 1].id /\ \A k \in 1 .. Len(l.rules) : Equal(l.rules[k], u) => k = n + 1
  BY <1>0, UpdateUnique DEF UpdateReplaces
<1>3. /\ u.seq = l.rules[n + 1].seq /\ c \in ready
      /\ chain' = [chain EXCEPT ![c][n + 1] = SpecOf(u)]
      /\ lists' = [lists EXCEPT ![c] = m]
      /\ UNCHANGED <<resved_ids, pend, netns, known, ready, marred>>
  BY DEF UpdateReplaces, CanRun
<1>4. n \in 0 .. Len(l.rules) - 1
  OBVIOUS
<1> HIDE DEF l
<1>5. m.rules = [l.rules EXCEPT ![n + 1] = u] /\ ListOK(RuleRec, m) /\ Ids(m) = Ids(l)
  <2> DEFINE R == RuleRec
  <2>1. ListOK(R, l) /\ Replaces(R, l, n, u)
    BY <1>1, <1>2, <1>3, <1>4 DEF Replaces
  <2> HIDE DEF R
  <2>2. Replaced(R, l, n, u, m)
    BY ONLY <2>1, ReplaceKeeps
  <2> HIDE DEF m
  <2> QED
    BY <2>2 DEF Replaced, R
<1> HIDE DEF m
<1>6. /\ DOMAIN chain' = Chains /\ chain'[c] = [chain[c] EXCEPT ![n + 1] = SpecOf(u)]
      /\ \A d \in Chains : d # c => chain'[d] = chain[d]
  BY <1>0, <1>3 DEF CacheInv, TypeOK
<1>7. CacheInv'
  <2>1. resved_ids' \subseteq Nat \ {0}
    BY <1>0, <1>3 DEF CacheInv, TypeOK
  <2>2. /\ ListOK(RuleRec, m) /\ resved_ids \subseteq resved_ids' /\ Ids(m) \subseteq resved_ids'
        /\ (Ids(m) \ Ids(lists[c])) \cap resved_ids = {} /\ DOMAIN chain' = Chains
    BY <1>1, <1>3, <1>5, <1>6 DEF l
  <2>3. /\ lists' = [lists EXCEPT ![c] = m] /\ UNCHANGED <<pend, netns, known, ready>>
        /\ marred' \subseteq ready
    BY <1>0, <1>3 DEF CacheInv, TypeOK
  <2> QED
    BY ONLY <1>0, c \in Chains, <2>1, <2>2, <2>3, ListChanges
<1>8. SyncInv'
  <2>1. ASSUME c \notin marred PROVE chain'[c] = Specs(m.rules)
    <3>1. chain[c] = Specs(l.rules)
      BY <1>0, <1>3, <2>1 DEF SyncInv, l
    <3>2. Specs([l.rules EXCEPT ![n + 1] = u]) = [Specs(l.rules) EXCEPT ![n + 1] = SpecOf(u)]
      BY <1>1, SpecsOfReplace
    <3> QED
      BY <1>5, <1>6, <3>1, <3>2
  <2> QED
    BY <1>3, <1>6, <2>1, ChainChanges
<1> QED
  BY <1>7, <1>8 DEF IInv

(* What update_rule leaves for the insertion at the new place.             *)
LEMMA UpdateRest ==
  ASSUME NEW l, ListOK(RuleRec, l), NEW n \in 0 .. Len(l.rules) - 1, NEW u \in RuleRec,
         u.id = l.rules[n + 1].id,
         \A k \in 1 .. Len(l.rules) : Equal(l.rules[k], u) => k = n + 1,
         NEW rest, rest = RemovePos(l, n)
  PROVE  /\ rest.rules = RemoveAt(l.rules, n + 1)
         /\ ListOK(RuleRec, rest) /\ Ids(rest) = Ids(l) \ {u.id}
         /\ InsertPos(rest, u) \in 0 .. Len(rest.rules)
         /\ Insert(rest, u).rules = InsertAt(rest.rules, InsertPos(rest, u) + 1, u)
         /\ ListOK(RuleRec, Insert(rest, u))
         /\ Ids(Insert(rest, u)) = Ids(l)
<1>1. /\ Len(l.rules) \in Nat /\ DOMAIN l.rules = 1 .. Len(l.rules)
      /\ n + 1 \in 1 .. Len(l.rules)
  BY LenProperties DEF ListOK
<1>2. /\ rest.rules = RemoveAt(l.rules, n + 1) /\ ListOK(RuleRec, rest) /\ Ids(rest) = Ids(l) \ {u.id}
      /\ OthersOf(rest, l, n)
  BY RemoveKeeps
<1>3. u.id \in Ids(l)
  BY <1>1 DEF Ids
<1>4. u.id \notin Ids(rest) /\ \A k \in 1 .. Len(rest.rules) : ~Equal(rest.rules[k], u)
  BY <1>2 DEF OthersOf
<1>5. /\ InsertPos(rest, u) \in 0 .. Len(rest.rules)
      /\ Insert(rest, u).rules = InsertAt(rest.rules, InsertPos(rest, u) + 1, u)
      /\ ListOK(RuleRec, Insert(rest, u))
      /\ Ids(Insert(rest, u)) = Ids(rest) \cup {u.id}
  BY <1>2, <1>4, InsertKeeps
<1>6. Ids(Insert(rest, u)) = Ids(l)
  BY <1>2, <1>3, <1>5
<1> QED
  BY <1>2, <1>5, <1>6

(* update_rule with a change of sort key, when iptables takes both steps.  *)
LEMMA UpdateMovesStep ==
  ASSUME IInv, NEW t \in Threads, NEW c \in Chains, NEW u \in RuleRec,
         NEW n \in 0 .. Len(lists[c].rules) - 1, UpdateMoves(t, c, n, u)
  PROVE  IInv'
<1> DEFINE l == lists[c]
           rest == RemovePos(l, n)
           p == InsertPos(rest, u)
           m == Insert(rest, u)
<1>0. CacheInv /\ SyncInv
  BY DEF IInv
<1>1. Ids(l) \subseteq resved_ids
  BY <1>0, RulesOf
<1>2. /\ rest.rules = RemoveAt(l.rules, n + 1) /\ ListOK(RuleRec, rest)
      /\ p \in 0 .. Len(rest.rules) /\ m.rules = InsertAt(rest.rules, p + 1, u)
      /\ ListOK(RuleRec, m) /\ Ids(m) = Ids(l)
  <2>1. UpdateStarts(t, c, n, u)
    BY DEF UpdateMoves
  <2>2. u.id = l.rules[n + 1].id /\ \A k \in 1 .. Len(l.rules) : Equal(l.rules[k], u) => k = n + 1
    BY <1>0, <2>1, UpdateUnique
  <2>3. ListOK(RuleRec, l) /\ n \in 0 .. Len(l.rules) - 1 /\ rest = RemovePos(l, n)
    BY <1>0, RulesOf
  <2> HIDE DEF l, rest
  <2> QED
    BY <2>2, <2>3, UpdateRest
<1>3. /\ lists' = [lists EXCEPT ![c] = m]
      /\ UNCHANGED <<resved_ids, pend, netns, known, ready>>
  BY DEF UpdateMoves
<1>4. PICK ch \in DeleteResults(c, n) :
        /\ c \in ready
        /\ chain' = [chain EXCEPT ![c] = InsertAt(ch, p + 1, SpecOf(u))]
        /\ marred' = marred \cup Skipped(c, ch)
  BY DEF UpdateMoves, CanRun
<1> HIDE DEF p, m
<1>5. /\ DOMAIN chain' = Chains /\ chain'[c] = InsertAt(ch, p + 1, SpecOf(u))
      /\ \A d \in Chains : d # c => chain'[d] = chain[d]
  BY <1>0, <1>4 DEF CacheInv, TypeOK
<1>6. CacheInv'
  <2>1. resved_ids' \subseteq Nat \ {0} /\ marred' \subseteq ready
    BY <1>0, <1>3, <1>4 DEF CacheInv, TypeOK, Skipped
  <2> QED
    BY <1>0, <1>1, <1>2, <1>3, <1>5, <2>1, ListChanges
<1>7. SyncInv'
  <2>1. ASSUME c \notin marred' PROVE chain'[c] = Specs(m.rules)
    <3>1. ch = Specs(RemoveAt(l.rules, n + 1))
      BY <1>4, <2>1, DeleteHits
    <3>2. ch = Specs(rest.rules)
      BY <1>2, <3>1
    <3> HIDE DEF rest, l
    <3>3. rest.rules \in Seq(RuleRec) /\ p + 1 \in 1 .. Len(rest.rules) + 1
      BY <1>2, LenProperties DEF ListOK
    <3>4. Specs(InsertAt(rest.rules, p + 1, u)) = InsertAt(Specs(rest.rules), p + 1, SpecOf(u))
      BY <3>3, SpecsOfInsert
    <3> QED
      BY <1>2, <1>5, <3>2, <3>4
  <2> QED
    BY <1>3, <1>4, <1>5, <2>1, ChainChanges
<1> QED
  BY <1>6, <1>7 DEF IInv

(* update_rule with a change of sort key, when iptables takes the delete   *)
(* and refuses the insert: the rule is lost, its id stays reserved.        *)
LEMMA UpdateLosesStep ==
  ASSUME IInv, NEW t \in Threads, NEW c \in Chains, NEW u \in RuleRec,
         NEW n \in 0 .. Len(lists[c].rules) - 1, UpdateLoses(t, c, n, u)
  PROVE  IInv'
<1> DEFINE l == lists[c]
           rest == RemovePos(l, n)
           p == InsertPos(rest, u)
           m == Insert(rest, u)
           o == RemovePos(m, p)
<1>0. CacheInv /\ SyncInv
  BY DEF IInv
<1>1. Ids(l) \subseteq resved_ids
  BY <1>0, RulesOf
<1>2. /\ rest.rules = RemoveAt(l.rules, n + 1) /\ ListOK(RuleRec, rest) /\ Ids(rest) = Ids(l) \ {u.id}
      /\ p \in 0 .. Len(rest.rules) /\ m.rules = InsertAt(rest.rules, p + 1, u)
      /\ ListOK(RuleRec, m)
  <2>1. UpdateStarts(t, c, n, u)
    BY DEF UpdateLoses
  <2>2. u.id = l.rules[n + 1].id /\ \A k \in 1 .. Len(l.rules) : Equal(l.rules[k], u) => k = n + 1
    BY <1>0, <2>1, UpdateUnique
  <2>3. ListOK(RuleRec, l) /\ n \in 0 .. Len(l.rules) - 1 /\ rest = RemovePos(l, n)
    BY <1>0, RulesOf
  <2> HIDE DEF l, rest
  <2> QED
    BY ONLY <2>2, <2>3, u \in RuleRec, UpdateRest
<1>3. /\ lists' = [lists EXCEPT ![c] = o]
      /\ UNCHANGED <<resved_ids, pend, netns, known, ready>>
  <2>1. (p + 1) - 1 = p
    BY <1>2, LenProperties DEF ListOK
  <2> QED
    BY <2>1 DEF UpdateLoses
<1>4. PICK ch \in DeleteResults(c, n) :
        chain' = [chain EXCEPT ![c] = ch] /\ marred' = marred \cup Skipped(c, ch)
  BY DEF UpdateLoses
<1>5. /\ DOMAIN chain' = Chains /\ chain'[c] = ch
      /\ \A d \in Chains : d # c => chain'[d] = chain[d]
      /\ marred' \subseteq ready
  BY <1>0, <1>4 DEF CacheInv, TypeOK, Skipped
<1>6. ListOK(RuleRec, o) /\ o.rules = rest.rules /\ Ids(o) = Ids(rest)
  <2> HIDE DEF rest, p
  <2> QED
    BY <1>2, TakenOut
<1> HIDE DEF rest, p, m, o
<1>7. CacheInv'
  <2>1. resved_ids' \subseteq Nat \ {0}
    BY <1>0, <1>3 DEF CacheInv, TypeOK
  <2>2. Ids(o) \subseteq resved_ids /\ (Ids(o) \ Ids(l)) \cap resved_ids = {}
    BY <1>1, <1>2, <1>6
  <2> QED
    BY <1>0, <1>3, <1>5, <1>6, <2>1, <2>2, ListChanges
<1>8. SyncInv'
  <2>1. /\ c \in ready \ marred' => chain'[c] = Specs(o.rules)
        /\ c \notin ready => chain'[c] = <<>>
    BY <1>2, <1>4, <1>5, <1>6, DeleteHits
  <2> QED
    BY <1>3, <1>4, <1>5, <2>1, ChainChanges
<1> QED
  BY <1>7, <1>8 DEF IInv

(* Where no delete fails, clear_all_rules empties a chain that is in sync: *)
(* every rule of it is the first and only one that matches.                *)
LEMMA ClearEmpties ==
  ASSUME IInv, NEW c \in Chains, c \notin marred
  PROVE  Cleared(c, {}) = <<>>
<1> DEFINE rules == lists[c].rules
           specs == SpecsIn(c)
           gone == {k \in DOMAIN chain[c] :
                      /\ chain[c][k] \in specs \ {}
                      /\ \A j \in 1 .. (k - 1) : chain[c][j] # chain[c][k]}
           rest == DOMAIN chain[c] \ gone
           kept == CHOOSE f \in [1 .. Cardinality(rest) -> rest] :
                     \A j, k \in DOMAIN f : j < k => f[j] < f[k]
           left == [k \in DOMAIN kept |-> chain[c][kept[k]]]
<1>0. CacheInv /\ SyncInv
  BY DEF IInv
<1>1. rules \in Seq(RuleRec) /\ Len(rules) \in Nat /\ DOMAIN rules = 1 .. Len(rules) /\ ListOK(RuleRec, lists[c])
  BY <1>0, RulesOf
<1>2. Cleared(c, {}) = left
  BY DEF Cleared
<1>3. rest = {}
  <2> HIDE DEF specs
  <2>1. CASE c \notin ready
    <3>1. DOMAIN chain[c] = {}
      BY <1>0, <2>1 DEF SyncInv
    <3> QED
      BY <3>1
  <2>2. CASE c \in ready
    <3>1. chain[c] = Specs(rules)
      BY <1>0, <2>2 DEF SyncInv
    <3>2. \A j, k \in 1 .. Len(rules) : rules[j].key = rules[k].key => j = k
      BY <1>1 DEF ListOK, NoEqualRules, Equal
    <3>3. \A k \in 1 .. Len(rules) : SpecOf(rules[k]) \in specs
      BY <1>1 DEF SpecsIn, specs
    <3> HIDE DEF rules
    <3>4. /\ DOMAIN chain[c] = 1 .. Len(rules)
          /\ \A k \in 1 .. Len(rules) : chain[c][k] = SpecOf(rules[k])
      BY <1>1, <3>1 DEF Specs
    <3>5. ASSUME NEW k \in 1 .. Len(rules), NEW j \in 1 .. (k - 1) PROVE chain[c][j] # chain[c][k]
      <4>1. j \in 1 .. Len(rules) /\ j # k
        BY <1>1
      <4>2. rules[j].key # rules[k].key
        BY <3>2, <4>1
      <4>3. SpecOf(rules[j]) # SpecOf(rules[k])
        <5>1. SpecOf(rules[j]).key = rules[j].key /\ SpecOf(rules[k]).key = rules[k].key
          BY DEF SpecOf
        <5> QED
          BY <4>2, <5>1
      <4> QED
        BY <3>4, <4>1, <4>3
    <3>6. ASSUME NEW k \in 1 .. Len(rules) PROVE chain[c][k] \in specs \ {}
      BY <3>3, <3>4
    <3> QED
      BY <3>4, <3>5, <3>6
  <2> QED
    BY <2>1, <2>2
<1>4. /\ kept = CHOOSE f \in [1 .. Cardinality(rest) -> rest] :
                 \A j, k \in DOMAIN f : j < k => f[j] < f[k]
      /\ left = [k \in DOMAIN kept |-> chain[c][kept[k]]]
  OBVIOUS
<1> HIDE DEF rest
<1>5. Cardinality(rest) = 0
  BY <1>3, FS_EmptySet
<1>6. kept \in [1 .. Cardinality(rest) -> rest]
  <2> DEFINE e == [x \in {} |-> 0]
  <2>1. 1 .. Cardinality(rest) = {}
    BY <1>5
  <2>2. e \in [1 .. Cardinality(rest) -> rest] /\ DOMAIN e = {}
    BY <2>1
  <2> HIDE DEF e
  <2>3. \A j, k \in DOMAIN e : j < k => e[j] < e[k]
    BY <2>2
  <2>4. \E f \in [1 .. Cardinality(rest) -> rest] : \A j, k \in DOMAIN f : j < k => f[j] < f[k]
    BY <2>2, <2>3
  <2> HIDE DEF kept
  <2> QED
    BY <1>4, <2>4
<1> HIDE DEF kept
<1>7. DOMAIN kept = 1 .. 0
  BY <1>5, <1>6
<1>8. left \in [1 .. 0 -> {}] /\ DOMAIN left = 1 .. 0
  <2> HIDE DEF left
  <2> QED
    BY <1>4, <1>7
<1> HIDE DEF left
<1>9. left \in Seq({}) /\ Len(left) = 0
  BY <1>8, SeqDef, LenProperties
<1> QED
  BY <1>2, <1>9, EmptySeq

(* Creating a VRF: its lists are cleared, its chains too or made anew.     *)
LEMMA VrfCreateStep ==
  ASSUME IInv, NEW v \in Vrfs, VrfCreate(v)
  PROVE  IInv'
<1> DEFINE freed == UNION {Ids(lists[c]) : c \in ChainsOf(v)}
<1>0. CacheInv /\ SyncInv /\ ready \subseteq Chains
  BY DEF IInv, CacheInv, TypeOK
<1>1. /\ lists' = [c \in Chains |-> IF VrfOf[c] = v THEN EmptyList ELSE lists[c]]
      /\ resved_ids' = resved_ids \ freed /\ UNCHANGED pend
  BY DEF VrfCreate
<1>2. \A c \in Chains : lists'[c] = IF VrfOf[c] = v THEN EmptyList ELSE lists[c]
  BY <1>1
<1>f. PICK failed \in [ChainsOf(v) -> UNION {Refusals(c) : c \in ChainsOf(v)}] :
        /\ \A c \in ChainsOf(v) : failed[c] \in Refusals(c)
        /\ chain' = [c \in Chains |-> IF VrfOf[c] = v THEN Cleared(c, failed[c]) ELSE chain[c]]
        /\ marred' = marred \cup {c \in ChainsOf(v) : failed[c] # {}}
  BY DEF VrfCreate
<1>3. /\ DOMAIN chain' = Chains
      /\ netns \subseteq netns' /\ netns' \subseteq Vrfs /\ known' \subseteq netns'
      /\ ready \subseteq ready' /\ ready' \subseteq Chains
      /\ \A c \in ready' \ ready : VrfOf[c] = v /\ v \in netns'
      /\ \A c \in Chains : VrfOf[c] # v => chain'[c] = chain[c]
      /\ marred \subseteq marred' /\ marred' \subseteq ready
  <2>0. DOMAIN chain' = Chains /\ netns \subseteq Vrfs /\ known \subseteq netns /\ marred \subseteq ready
    BY <1>0, <1>f DEF CacheInv, TypeOK
  <2>1. \A c \in Chains : VrfOf[c] # v => chain'[c] = chain[c]
    BY <1>f
  <2>2. \A c \in ChainsOf(v) : failed[c] # {} => c \in ready
    BY <1>f DEF Refusals
  <2>3. CASE UNCHANGED <<netns, known, ready>>
    BY <1>0, <1>f, <2>0, <2>1, <2>2, <2>3
  <2>4. CASE v \notin netns /\ netns' = netns \cup {v}
    <3>1. known' \subseteq known \cup {v} /\ ready \subseteq ready' /\ ready' \subseteq ready \cup ChainsOf(v)
      BY <2>4 DEF VrfCreate
    <3> QED
      BY <1>0, <1>f, <2>0, <2>1, <2>2, <2>4, <3>1 DEF ChainsOf
  <2> QED
    BY <2>3, <2>4 DEF VrfCreate
<1>4. CacheInv'
  <2>1. \A c \in Chains : ListOK(RuleRec, lists'[c])
    BY <1>0, <1>2, EmptyListOK, RuleRecSeqs DEF CacheInv
  <2>2. \A c \in Chains : Ids(lists'[c]) = IF VrfOf[c] = v THEN {} ELSE Ids(lists[c])
    BY <1>2, EmptyListOK, RuleRecSeqs
  <2>3. \A c, d \in Chains : c # d => Ids(lists[c]) \cap Ids(lists[d]) = {}
    BY <1>0 DEF CacheInv, IdsOwned
  <2>4. \A c \in Chains : Ids(lists[c]) \subseteq resved_ids
    BY <1>0 DEF CacheInv, IdsOwned
  <2>5. \A c \in Chains : VrfOf[c] # v => Ids(lists[c]) \cap freed = {}
    BY <2>3 DEF ChainsOf
  <2>6. \A t \in Threads : pend[t] # None =>
          /\ pend[t] \in resved_ids /\ \A c \in Chains : pend[t] \notin Ids(lists[c])
          /\ \A u \in Threads \ {t} : pend[u] # pend[t]
    BY <1>0 DEF CacheInv, IdsOwned
  <2>7. \A t \in Threads : pend[t] # None => pend[t] \notin freed
    BY <2>6 DEF ChainsOf
  <2> HIDE DEF freed
  <2>8. IdsOwned'
    <3>1. \A c \in Chains : Ids(lists'[c]) \subseteq resved_ids'
      BY <1>1, <2>2, <2>4, <2>5
    <3>2. \A c, d \in Chains : c # d => Ids(lists'[c]) \cap Ids(lists'[d]) = {}
      BY <2>2, <2>3
    <3>3. ASSUME NEW t \in Threads, pend'[t] # None
          PROVE  /\ pend'[t] \in resved_ids' /\ \A c \in Chains : pend'[t] \notin Ids(lists'[c])
                 /\ \A u \in Threads \ {t} : pend'[u] # pend'[t]
      BY <1>1, <2>2, <2>6, <2>7, <3>3
    <3> QED
      BY <3>1, <3>2, <3>3 DEF IdsOwned
  <2>9. TypeOK'
    <3>1. \A c \in Chains : lists'[c].rules \in Seq([key : Keys, neg : Negs, seq : Seqs, id : Nat])
      BY <2>1 DEF ListOK, RuleRec
    <3> QED
      BY <1>0, <1>1, <1>3, <3>1 DEF CacheInv, TypeOK
  <2>10. (\A c \in ready : VrfOf[c] \in netns \cup {None})'
    BY <1>0, <1>3 DEF CacheInv
  <2>11. DOMAIN lists' = Chains
    BY <1>1
  <2> QED
    BY <2>1, <2>8, <2>9, <2>10, <2>11 DEF CacheInv
<1>5. SyncInv'
  <2>1. ASSUME NEW c \in Chains, VrfOf[c] = v, c \notin marred' PROVE chain'[c] = <<>>
    <3>1. c \in ChainsOf(v)
      BY <2>1 DEF ChainsOf
    <3>2. failed[c] = {} /\ c \notin marred
      BY <1>f, <2>1, <3>1
    <3>3. Cleared(c, {}) = <<>>
      BY <3>2, ClearEmpties
    <3> QED
      BY <1>f, <2>1, <3>2, <3>3
  <2>2. ASSUME NEW c \in Chains, VrfOf[c] = v PROVE Specs(lists'[c].rules) = <<>>
    BY <1>2, <2>2, EmptyListOK, RuleRecSeqs, SpecsOfEmpty
  <2>3. ASSUME NEW c \in Chains, VrfOf[c] # v
        PROVE  /\ c \in ready' => c \in ready
               /\ chain'[c] = chain[c] /\ lists'[c] = lists[c]
    BY <1>2, <1>3, <2>3
  <2>4. /\ \A c \in ready \ marred : chain[c] = Specs(lists[c].rules)
        /\ \A c \in Chains \ ready : chain[c] = <<>>
    BY <1>0 DEF SyncInv
  <2>5. ASSUME NEW c \in ready', c \notin marred' PROVE chain'[c] = Specs(lists'[c].rules)
    BY <1>3, <2>1, <2>2, <2>3, <2>4, <2>5
  <2>6. ASSUME NEW c \in Chains, c \notin ready' PROVE chain'[c] = <<>>
    BY <1>3, <2>1, <2>3, <2>4, <2>6
  <2> QED
    BY <2>5, <2>6 DEF SyncInv
<1> QED
  BY <1>4, <1>5 DEF IInv

(* Deleting a VRF: the chains go before the namespace.                     *)
LEMMA VrfDeleteStep ==
  ASSUME IInv, NEW v \in Vrfs, VrfDelete(v)
  PROVE  IInv'
<1>0. CacheInv /\ SyncInv /\ ready \subseteq Chains /\ netns \subseteq Vrfs
  BY DEF IInv, CacheInv, TypeOK
<1>g. PICK gone \in SUBSET ChainsOf(v) : \E flushed \in SUBSET (ChainsOf(v) \ gone) :
        /\ chain' = [c \in Chains |-> IF c \in gone \cup flushed THEN <<>> ELSE chain[c]]
        /\ ready' = ready \ gone
        /\ marred' = (marred \cup {c \in flushed : chain[c] # <<>>}) \ gone
        /\ \/ gone = ChainsOf(v) /\ netns' = netns \ {v} /\ known' = known \ {v}
           \/ known' \in {known, known \ {v}} /\ UNCHANGED netns
  BY DEF VrfDelete
<1>1. PICK flushed \in SUBSET (ChainsOf(v) \ gone) :
        /\ chain' = [c \in Chains |-> IF c \in gone \cup flushed THEN <<>> ELSE chain[c]]
        /\ ready' = ready \ gone
        /\ marred' = (marred \cup {c \in flushed : chain[c] # <<>>}) \ gone
        /\ \/ gone = ChainsOf(v) /\ netns' = netns \ {v} /\ known' = known \ {v}
           \/ known' \in {known, known \ {v}} /\ UNCHANGED netns
  BY <1>g
<1>2. UNCHANGED <<lists, resved_ids, pend>>
  BY DEF VrfDelete
<1>s. /\ \A c \in ready \ marred : chain[c] = Specs(lists[c].rules)
      /\ \A c \in Chains \ ready : chain[c] = <<>>
  BY <1>0 DEF SyncInv
<1>3. TypeOK'
  <2>1. marred' \subseteq ready'
    BY <1>0, <1>1, <1>s DEF CacheInv, TypeOK, ChainsOf
  <2>2. known' \subseteq netns' /\ netns' \subseteq Vrfs
    BY <1>0, <1>1 DEF CacheInv, TypeOK
  <2> QED
    BY <1>0, <1>1, <1>2, <2>1, <2>2 DEF CacheInv, TypeOK
<1>4. IdsOwned'
  BY <1>0, <1>2 DEF CacheInv, IdsOwned
<1>5. (\A c \in ready : VrfOf[c] \in netns \cup {None})'
  <2> SUFFICES ASSUME NEW c \in ready' PROVE VrfOf[c] \in netns' \cup {None}
    OBVIOUS
  <2>1. c \in ready /\ c \in Chains /\ c \notin gone /\ VrfOf[c] \in netns \cup {None}
    BY <1>0, <1>1 DEF CacheInv
  <2>2. CASE netns' = netns
    BY <2>1, <2>2
  <2>3. CASE gone = ChainsOf(v) /\ netns' = netns \ {v}
    <3>1. VrfOf[c] # v
      BY <2>1, <2>3 DEF ChainsOf
    <3> QED
      BY <2>1, <2>3, <3>1
  <2> QED
    BY <1>1, <2>2, <2>3
<1>6. CacheInv'
  BY <1>0, <1>2, <1>3, <1>4, <1>5 DEF CacheInv
<1>7. SyncInv'
  <2>1. \A c \in Chains : chain'[c] = IF c \in gone \cup flushed THEN <<>> ELSE chain[c]
    BY <1>1
  <2>2. ASSUME NEW c \in ready', c \notin marred' PROVE chain'[c] = Specs(lists'[c].rules)
    <3>1. c \in Chains /\ c \in ready \ marred /\ c \notin gone
      BY <1>0, <1>1, <2>2
    <3>2. chain'[c] = chain[c]
      BY <1>1, <2>1, <2>2, <3>1
    <3> QED
      BY <1>2, <1>s, <3>1, <3>2
  <2>3. ASSUME NEW c \in Chains, c \notin ready' PROVE chain'[c] = <<>>
    BY <1>1, <1>s, <2>1, <2>3
  <2> QED
    BY <2>2, <2>3 DEF SyncInv
<1> QED
  BY <1>6, <1>7 DEF IInv

(* The invariant is inductive.                                             *)
LEMMA Inductive == IInv /\ [Next]_vars => IInv'
<1> SUFFICES ASSUME IInv, [Next]_vars PROVE IInv'
  OBVIOUS
<1>0. CacheInv
  BY DEF IInv
<1>1. CASE UNCHANGED vars
  <2>1. UNCHANGED <<may_fail, lists, resved_ids, pend, netns, known, ready, chain, marred>>
    BY <1>1 DEF vars
  <2>2. CacheInv'
    BY <1>0, <2>1 DEF CacheInv, TypeOK, IdsOwned
  <2>3. SyncInv'
    BY <2>1 DEF IInv, SyncInv
  <2> QED
    BY <2>2, <2>3 DEF IInv
<1>2. CASE Next
  <2>0. Call
    BY <1>2 DEF Next
  <2>1. ASSUME NEW t \in Threads, NEW c \in Chains, NEW r \in Rules,
               NEW asked \in RuleIds \cup {None}, NEW i \in NewIds(asked),
               InsertRule(t, c, WithId(r, i)) \/ InsertRuleFails(t, c, WithId(r, i))
        PROVE  IInv'
    <3>1. i \in Nat \ {0} /\ i \notin resved_ids
      BY <1>0, NewIdIs
    <3>2. WithId(r, i) \in RuleRec /\ WithId(r, i).id = i
      BY <3>1, WithIdIs
    <3> QED
      BY <2>1, <3>1, <3>2, InsertStep, InsertFailsStep
  <2>2. ASSUME NEW t \in Threads, NEW c \in Chains, NEW r \in Rules, DeleteRule(t, c, r)
        PROVE  IInv'
    <3>1. ListOK(RuleRec, lists[c]) /\ HasEqual(lists[c], r)
      BY <1>0, <2>2, RulesOf DEF DeleteRule
    <3>2. IndexOf(lists[c], r) \in 0 .. Len(lists[c].rules) - 1
      BY <3>1, IndexOfIs
    <3> QED
      BY <2>2, <3>2, DeletePosStep, DeletePosFailsStep DEF DeleteRule
  <2>3. ASSUME NEW t \in Threads, NEW c \in Chains, NEW i \in resved_ids, DeleteRuleById(t, c, i)
        PROVE  IInv'
    <3>1. ListOK(RuleRec, lists[c]) /\ i \in DOMAIN lists[c].rule_id_map
      BY <1>0, <2>3, RulesOf DEF DeleteRuleById
    <3>2. lists[c].rule_id_map[i] \in 0 .. Len(lists[c].rules) - 1
      BY <3>1, MappedRule
    <3> QED
      BY <2>3, <3>2, DeletePosStep, DeletePosFailsStep DEF DeleteRuleById
  <2>4. ASSUME NEW t \in Threads, NEW c \in Chains, NEW r \in Rules, NEW i \in resved_ids,
               UpdateRule(t, c, i, WithId(r, i))
        PROVE  IInv'
    <3>1. ListOK(RuleRec, lists[c]) /\ i \in DOMAIN lists[c].rule_id_map
      BY <1>0, <2>4, RulesOf DEF UpdateRule
    <3>2. lists[c].rule_id_map[i] \in 0 .. Len(lists[c].rules) - 1
      BY <3>1, MappedRule
    <3>3. WithId(r, i) \in RuleRec
      <4>1. i \in Nat
        BY <1>0 DEF CacheInv, TypeOK
      <4> QED
        BY <4>1, WithIdIs
    <3> QED
      BY <2>4, <3>2, <3>3, UpdateReplacesStep, UpdateMovesStep, UpdateLosesStep,
         DeletePosFailsStep DEF UpdateRule
  <2>5. ASSUME NEW t \in Threads, ReleaseId(t) PROVE IInv'
    BY <2>5, ReleaseStep
  <2>6. ASSUME NEW v \in Vrfs, VrfCreate(v) \/ VrfDelete(v) PROVE IInv'
    BY <2>6, VrfCreateStep, VrfDeleteStep
  <2> QED
    BY <2>0, <2>1, <2>2, <2>3, <2>4, <2>5, <2>6 DEF Call
<1> QED
  BY <1>1, <1>2

(* It holds at the start.                                                  *)
LEMMA Initially == Init => IInv
<1> SUFFICES ASSUME Init PROVE IInv
  OBVIOUS
<1>1. /\ lists = [c \in Chains |-> EmptyList] /\ resved_ids = {} /\ pend = [t \in Threads |-> None]
      /\ netns = {} /\ known = {} /\ ready = ChainsOf(None) /\ chain = [c \in Chains |-> <<>>]
      /\ marred = {}
  BY DEF Init
<1>2. \A c \in Chains : lists[c] = EmptyList /\ chain[c] = <<>>
  BY <1>1
<1>3. \A c \in Chains : ListOK(RuleRec, lists[c]) /\ Ids(lists[c]) = {} /\ lists[c].rules = <<>>
  BY <1>2, EmptyListOK, RuleRecSeqs
<1>4. TypeOK
  <2>1. \A c \in Chains : lists[c].rules \in Seq([key : Keys, neg : Negs, seq : Seqs, id : Nat])
    BY <1>3 DEF ListOK, RuleRec
  <2> QED
    BY <1>1, <2>1 DEF TypeOK, ChainsOf
<1>5. IdsOwned
  BY <1>1, <1>3 DEF IdsOwned
<1>6. CacheInv
  BY <1>1, <1>3, <1>4, <1>5 DEF CacheInv, ChainsOf
<1>7. SyncInv
  BY <1>1, <1>2, <1>3, SpecsOfEmpty DEF SyncInv, ChainsOf
<1> QED
  BY <1>6, <1>7 DEF IInv

(* The invariant holds in every state.                                     *)
LEMMA Always == Spec => []IInv
BY Initially, Inductive, PTL DEF Spec

(* Whatever is inserted, rolled back, moved, replaced or cleared: every    *)
(* rule list keeps its three structures in step, sorted and without        *)
(* doubles, which find_rule, delete_rule and update_rule count on.         *)
THEOREM ListsWellFormedAlways == Spec => []WellFormed
<1>1. IInv => WellFormed
  BY DEF IInv, CacheInv, ListOK, WellFormed, ListsConsistent, ListsOrdered
<1> QED
  BY <1>1, Always, PTL

(* An id has one owner: a cached rule, or the thread that has deleted the  *)
(* rule and has yet to call release_id, or nobody.                         *)
THEOREM IdsOwnedAlways == Spec => []IdsOwned
<1>1. IInv => IdsOwned
  BY DEF IInv, CacheInv
<1> QED
  BY <1>1, Always, PTL

(* The cache lists what iptables has, in its order, for every chain that   *)
(* exists: a position names the rule it is meant for.  It holds until a    *)
(* delete of that chain's rules is refused or skipped, or a VRF deletion   *)
(* flushes the chain and fails, whatever other chains went through.        *)
THEOREM InSyncAlways == Spec => []InSyncUnlessMarred
<1>1. IInv => InSyncUnlessMarred
  BY DEF IInv, SyncInv, InSyncUnlessMarred, InSync, Specs
<1> QED
  BY <1>1, Always, PTL
=============================================================================
