------------------------- MODULE OutgoingSvcsProofs -------------------------
(***************************************************************************)
(* The id generator, for every range of ids and every set of requests, and *)
(* the cache of outgoing service rules, which reserves ids in one, for any *)
(* VRFs, chains, keys, ports and modes.                                    *)
(***************************************************************************)
EXTENDS OutgoingSvcsRules, IdGenerator, RuleListProofs, FiniteSetTheorems

(* A non-empty set of naturals with an upper bound has a greatest element. *)
LEMMA GreatestExists ==
  ASSUME NEW S, S \subseteq Nat, S # {}, NEW b \in Nat, \A k \in S : k <= b
  PROVE  \E m \in S : \A k \in S : m >= k
<1> DEFINE T == {b - k : k \in S}
<1>1. T \subseteq Nat /\ T # {}
  <2>1. \A k \in S : b - k \in Nat
    <3> SUFFICES ASSUME NEW k \in S PROVE b - k \in Nat
      OBVIOUS
    <3>1. k \in Nat /\ k <= b
      OBVIOUS
    <3> QED
      BY <3>1
  <2>2. T \subseteq Nat
    BY <2>1, Zenon
  <2>3. PICK k0 \in S : TRUE
    BY Zenon
  <2>4. b - k0 \in T
    BY Zenon
  <2> QED
    BY <2>2, <2>4, Zenon
<1>2. PICK t \in T : \A u \in T : t <= u
  BY <1>1, LeastExists
<1>3. PICK m \in S : t = b - m
  BY <1>2
<1>4. \A k \in S : b - m <= b - k
  BY <1>2, <1>3
<1>5. \A k \in S : m >= k
  BY <1>4
<1> QED
  BY <1>5

-----------------------------------------------------------------------------
(* The inductive invariant.  AvailIsLowest alone is not inductive: the     *)
(* search of get_next_avail_id ends at max_resved_id, so it skips every id *)
(* in use only because MaxExact holds.                                     *)
IdInv == IdTypeOK /\ MaxExact /\ AvailIsLowest /\ NoneMeansLimited

(* The search of get_next_avail_id leaves off at the first id above        *)
(* avail_id that is free once avail_id itself is taken.                    *)
LEMMA LoopEndIsFirstFree ==
  ASSUME IdInv, avail_id # NoId, NEW r, r = resved_ids \cup {avail_id}
  PROVE  /\ LoopEnd(r) \in Nat
         /\ LoopEnd(r) > avail_id
         /\ LoopEnd(r) \notin r
         /\ \A m \in (avail_id + 1) .. (LoopEnd(r) - 1) : m \in r
<1> DEFINE last == IF max_resved_id # NoId /\ max_resved_id > avail_id
                     THEN max_resved_id + 1
                     ELSE avail_id + Cardinality(r) + 1
           stops == {n \in (avail_id + 1) .. last : Stops(r, n)}
<1>1. avail_id \in Nat /\ (max_resved_id = NoId \/ max_resved_id \in Nat)
  BY DEF IdInv, IdTypeOK
<1>2. IsFiniteSet(r) /\ Cardinality(r) \in Nat
  <2>1. IsFiniteSet(r)
    BY FS_AddElement DEF IdInv, IdTypeOK
  <2> QED
    BY <2>1, FS_CardinalityType
<1>3. last \in Nat /\ last > avail_id
  BY <1>1, <1>2
<1>4. \A n \in Nat : n > avail_id /\ Stops(r, n) => n \notin r
  BY <1>1 DEF Stops, IdInv, IdTypeOK, MaxExact
<1>5. \E n \in stops : TRUE
  <2>1. CASE max_resved_id # NoId /\ max_resved_id > avail_id
    BY <2>1, <1>1, <1>3 DEF Stops
  <2>2. CASE max_resved_id # NoId /\ ~(max_resved_id > avail_id)
    <3>1. avail_id + 1 \in (avail_id + 1) .. last /\ avail_id + 1 > max_resved_id
      BY <2>2, <1>1, <1>3
    <3> QED
      BY <3>1, <2>2 DEF Stops
  <2>3. CASE max_resved_id = NoId
    <3>1. avail_id + 1 \in (avail_id + 1) .. last /\ avail_id + 1 \notin r
      BY <2>3, <1>1, <1>3 DEF IdInv, MaxExact
    <3> QED
      BY <3>1 DEF Stops
  <2> QED
    BY <2>1, <2>2, <2>3
<1>6. stops \subseteq Nat
  BY <1>1, <1>3
<1>7. \E n \in stops : \A m \in stops : n <= m
  BY <1>5, <1>6, LeastExists
<1>8. LoopEnd(r) = CHOOSE n \in stops : \A m \in stops : n <= m
  BY DEF LoopEnd
<1> DEFINE e == LoopEnd(r)
<1>9. e \in stops /\ \A m \in stops : e <= m
  BY <1>7, <1>8
<1>10. e \in Nat /\ e > avail_id /\ e <= last /\ Stops(r, e)
  BY <1>9, <1>6, <1>1, <1>3
<1> HIDE DEF e, stops, last
<1>11. ASSUME NEW m \in (avail_id + 1) .. (e - 1) PROVE m \in r
  <2>1. m \in (avail_id + 1) .. last /\ m < e /\ m \in Nat
    BY <1>10, <1>1, <1>3
  <2>2. m \in stops => e <= m
    BY <1>9
  <2>3. m \notin stops
    BY <2>1, <2>2, <1>10
  <2> QED
    BY <2>1, <2>3 DEF Stops, stops
<1> QED
  BY <1>4, <1>10, <1>11 DEF e

(* What get_next_avail_id leaves in avail_id when avail_id is taken.       *)
LEMMA NextAvailIsLowest ==
  ASSUME IdInv, avail_id # NoId, NEW r, r = resved_ids \cup {avail_id},
         NEW a, a = get_next_avail_id(r)
  PROVE  /\ a \in Nat \cup {NoId}
         /\ a = NoId => MaxId # NoId /\ \A i \in MinId .. MaxId : i \in r
         /\ a # NoId => /\ InRange(a) /\ a \notin r
                        /\ \A i \in MinId .. (a - 1) : i \in r
<1> DEFINE e == LoopEnd(r)
<1>1. /\ e \in Nat /\ e > avail_id /\ e \notin r
      /\ \A m \in (avail_id + 1) .. (e - 1) : m \in r
  BY LoopEndIsFirstFree
<1>2. avail_id \in Nat /\ avail_id >= MinId /\ \A i \in MinId .. (avail_id - 1) : i \in r
  BY DEF IdInv, IdTypeOK, AvailIsLowest, InRange
<1>3. a = IF MaxId # NoId /\ e > MaxId THEN NoId ELSE e
  BY DEF get_next_avail_id
<1> HIDE DEF e
<1>4. e # NoId
  BY <1>1, NoIdAssumption
<1>5. ASSUME NEW i \in MinId .. (e - 1) PROVE i \in r
  <2>1. CASE i < avail_id
    BY <2>1, <1>2, MinIdAssumption
  <2>2. CASE i = avail_id
    BY <2>2
  <2>3. CASE i > avail_id
    BY <2>3, <1>1, <1>2, MinIdAssumption
  <2> QED
    BY <2>1, <2>2, <2>3, <1>2, MinIdAssumption
<1>6. CASE MaxId # NoId /\ e > MaxId
  <2>1. \A i \in MinId .. MaxId : i \in MinId .. (e - 1)
    BY <1>1, <1>6, MinIdAssumption, MaxIdAssumption
  <2> QED
    BY <1>3, <1>5, <1>6, <2>1
<1>7. CASE ~(MaxId # NoId /\ e > MaxId)
  <2>1. a = e /\ a # NoId
    BY <1>3, <1>4, <1>7
  <2>2. InRange(e)
    BY <1>1, <1>2, <1>7, MinIdAssumption, MaxIdAssumption DEF InRange
  <2> QED
    BY <1>1, <1>5, <2>1, <2>2
<1> QED
  BY <1>6, <1>7

-----------------------------------------------------------------------------
(* What __init__ sets up satisfies the inductive invariant.                *)
LEMMA IdInitInv == IdInit => IdInv
<1> SUFFICES ASSUME IdInit PROVE IdInv
  OBVIOUS
<1>1. IsFiniteSet({})
  BY FS_EmptySet
<1>2. InRange(MinId)
  BY MinIdAssumption, MaxIdAssumption DEF InRange
<1>3. MinId # NoId
  BY MinIdAssumption, NoIdAssumption
<1> QED
  BY <1>1, <1>2, <1>3, MinIdAssumption
     DEF IdInit, IdInv, IdTypeOK, MaxExact, AvailIsLowest, NoneMeansLimited

(* A call that only answers.                                               *)
LEMMA AnswerPreserves ==
  ASSUME IdInv, UNCHANGED <<resved_ids, avail_id, max_resved_id>>,
         ret' \in [id : Int \cup {NoId}, ok : BOOLEAN]
  PROVE  IdInv'
BY DEF IdInv, IdTypeOK, MaxExact, AvailIsLowest, NoneMeansLimited, InRange

(* Taking a free id i, as get_new_id and reserve_id do.                    *)
LEMMA TakePreservesMax ==
  ASSUME IdInv, NEW i \in Nat, InRange(i),
         resved_ids' = resved_ids \cup {i}, max_resved_id' = RaiseMax(i)
  PROVE  /\ resved_ids' \subseteq {n \in Nat : InRange(n)}
         /\ IsFiniteSet(resved_ids')
         /\ max_resved_id' \in Nat \cup {NoId}
         /\ MaxExact'
<1>1. IsFiniteSet(resved_ids')
  BY FS_AddElement DEF IdInv, IdTypeOK
<1>2. i # NoId
  BY NoIdAssumption
<1>3. resved_ids \subseteq Nat /\ (max_resved_id = NoId \/ max_resved_id \in Nat)
  BY DEF IdInv, IdTypeOK
<1>4. MaxExact'
  BY <1>2, <1>3 DEF IdInv, MaxExact, RaiseMax
<1> QED
  BY <1>1, <1>3, <1>4 DEF IdInv, IdTypeOK, RaiseMax

(* get_new_id keeps the inductive invariant, also when it runs out.        *)
LEMMA GetNewIdPreserves == ASSUME IdInv, GetNewId PROVE IdInv'
<1>1. CASE avail_id = NoId
  <2>1. /\ UNCHANGED <<resved_ids, avail_id, max_resved_id>>
        /\ ret' = [id |-> NoId, ok |-> FALSE]
    BY <1>1 DEF GetNewId
  <2> QED
    BY <2>1, AnswerPreserves
<1>2. CASE avail_id # NoId
  <2>1. /\ resved_ids' = resved_ids \cup {avail_id}
        /\ avail_id' = get_next_avail_id(resved_ids')
        /\ max_resved_id' = RaiseMax(avail_id)
        /\ ret' = [id |-> avail_id, ok |-> TRUE]
    BY <1>2 DEF GetNewId
  <2>2. avail_id \in Nat /\ InRange(avail_id)
    BY <1>2 DEF IdInv, IdTypeOK, AvailIsLowest
  <2>3. /\ resved_ids' \subseteq {n \in Nat : InRange(n)}
        /\ IsFiniteSet(resved_ids')
        /\ max_resved_id' \in Nat \cup {NoId}
        /\ MaxExact'
    BY <2>1, <2>2, TakePreservesMax
  <2>4. /\ avail_id' \in Nat \cup {NoId}
        /\ avail_id' = NoId => MaxId # NoId
        /\ avail_id' # NoId => /\ InRange(avail_id') /\ avail_id' \notin resved_ids'
                               /\ \A i \in MinId .. (avail_id' - 1) : i \in resved_ids'
    BY <1>2, <2>1, NextAvailIsLowest
  <2>5. ret' \in [id : Int \cup {NoId}, ok : BOOLEAN]
    BY <2>1, <2>2
  <2> QED
    BY <2>3, <2>4, <2>5 DEF IdInv, IdTypeOK, AvailIsLowest, NoneMeansLimited, InRange
<1> QED
  BY <1>1, <1>2

(* reserve_id keeps the inductive invariant, whatever id it is asked for.  *)
LEMMA ReserveIdPreserves ==
  ASSUME IdInv, NEW i \in Requests, ReserveId(i) PROVE IdInv'
<1> i \in Int
  BY RequestsAssumption
<1>1. CASE ~InRange(i) \/ i \in resved_ids
  <2>1. /\ UNCHANGED <<resved_ids, avail_id, max_resved_id>>
        /\ ret' = [id |-> i, ok |-> FALSE]
    BY <1>1 DEF ReserveId
  <2> QED
    BY <2>1, AnswerPreserves
<1>2. CASE InRange(i) /\ i \notin resved_ids
  <2>1. /\ resved_ids' = resved_ids \cup {i}
        /\ avail_id' = IF i = avail_id THEN get_next_avail_id(resved_ids') ELSE avail_id
        /\ max_resved_id' = RaiseMax(i)
        /\ ret' = [id |-> i, ok |-> TRUE]
    BY <1>2 DEF ReserveId
  <2>2. i \in Nat
    BY <1>2, MinIdAssumption DEF InRange
  <2>3. /\ resved_ids' \subseteq {n \in Nat : InRange(n)}
        /\ IsFiniteSet(resved_ids')
        /\ max_resved_id' \in Nat \cup {NoId}
        /\ MaxExact'
    BY <1>2, <2>1, <2>2, TakePreservesMax
  <2>4. /\ avail_id' \in Nat \cup {NoId}
        /\ avail_id' = NoId => MaxId # NoId
        /\ avail_id' # NoId => /\ InRange(avail_id') /\ avail_id' \notin resved_ids'
                               /\ \A j \in MinId .. (avail_id' - 1) : j \in resved_ids'
    <3>1. CASE i = avail_id
      <4>1. avail_id # NoId
        BY <3>1, NoIdAssumption
      <4>2. resved_ids' = resved_ids \cup {avail_id} /\ avail_id' = get_next_avail_id(resved_ids')
        BY <2>1, <3>1
      <4> QED
        BY ONLY IdInv, <4>1, <4>2, NextAvailIsLowest
    <3>2. CASE i # avail_id
      BY <2>1, <3>2 DEF IdInv, IdTypeOK, AvailIsLowest, NoneMeansLimited
    <3> QED
      BY <3>1, <3>2
  <2>5. ret' \in [id : Int \cup {NoId}, ok : BOOLEAN]
    BY <2>1, <2>2
  <2> QED
    BY <2>3, <2>4, <2>5 DEF IdInv, IdTypeOK, AvailIsLowest, NoneMeansLimited, InRange
<1> QED
  BY <1>1, <1>2

(* The downward search of release_id finds the highest id still reserved.  *)
LEMMA HighestBelowIsMax ==
  ASSUME NEW r, r \subseteq {n \in Nat : n >= MinId},
         NEW i \in Nat, \A n \in r : n <= i
  PROVE  /\ HighestBelow(r, i) \in Nat \cup {NoId}
         /\ HighestBelow(r, i) = NoId => r = {}
         /\ HighestBelow(r, i) # NoId =>
              HighestBelow(r, i) \in r /\ \A n \in r : n <= HighestBelow(r, i)
<1> DEFINE below == {n \in MinId .. i : n \in r}
           h == HighestBelow(r, i)
<1>1. below = r
  <2>1. ASSUME NEW n \in r PROVE n \in below
    BY MinIdAssumption
  <2> QED
    BY <2>1
<1>2. h = IF below = {} THEN NoId ELSE CHOOSE n \in below : \A m \in below : n >= m
  BY DEF HighestBelow
<1> HIDE DEF below, h
<1>3. CASE below = {}
  BY <1>1, <1>2, <1>3 DEF h
<1>4. CASE below # {}
  <2>1. \E n \in below : \A m \in below : n >= m
    BY <1>1, <1>4, GreatestExists
  <2>2. h \in below /\ \A m \in below : h >= m
    BY <1>2, <1>4, <2>1
  <2>3. h \in Nat /\ h # NoId /\ \A m \in below : m <= h
    BY <1>1, <2>2, NoIdAssumption
  <2> QED
    BY <1>1, <2>2, <2>3 DEF h
<1> QED
  BY <1>3, <1>4

(* release_id keeps the inductive invariant, whatever id it is given.      *)
LEMMA ReleaseIdPreserves ==
  ASSUME IdInv, NEW i \in Requests, ReleaseId(i) PROVE IdInv'
<1> i \in Int
  BY RequestsAssumption
<1>1. CASE i \notin resved_ids
  <2>1. /\ UNCHANGED <<resved_ids, avail_id, max_resved_id>>
        /\ ret' = [id |-> i, ok |-> FALSE]
    BY <1>1 DEF ReleaseId
  <2> QED
    BY <2>1, AnswerPreserves
<1>2. CASE i \in resved_ids
  <2>1. /\ resved_ids' = resved_ids \ {i}
        /\ avail_id' = LowerAvail(i)
        /\ max_resved_id' = IF i = max_resved_id THEN HighestBelow(resved_ids', i)
                                                 ELSE max_resved_id
        /\ ret' = [id |-> i, ok |-> TRUE]
    BY <1>2 DEF ReleaseId
  <2>2. /\ i \in Nat /\ InRange(i) /\ i >= MinId /\ i # NoId
        /\ resved_ids \subseteq {n \in Nat : InRange(n)}
        /\ resved_ids \subseteq {n \in Nat : n >= MinId}
        /\ IsFiniteSet(resved_ids)
        /\ max_resved_id = NoId \/ max_resved_id \in Nat
        /\ avail_id = NoId \/ avail_id \in Nat
    BY <1>2, NoIdAssumption DEF IdInv, IdTypeOK, InRange
  <2>3. IsFiniteSet(resved_ids')
    BY <2>1, <2>2, FS_RemoveElement
  <2>4. max_resved_id' \in Nat \cup {NoId} /\ MaxExact'
    <3>1. CASE i = max_resved_id
      <4>1. \A n \in resved_ids' : n <= i
        BY <2>1, <2>2, <3>1 DEF IdInv, MaxExact
      <4>2. resved_ids' \subseteq {n \in Nat : n >= MinId}
        BY <2>1, <2>2
      <4>3. max_resved_id' = HighestBelow(resved_ids', i)
        BY <2>1, <3>1
      <4> QED
        BY <2>2, <4>1, <4>2, <4>3, HighestBelowIsMax DEF MaxExact
    <3>2. CASE i # max_resved_id
      BY <1>2, <2>1, <2>2, <3>2 DEF IdInv, MaxExact
    <3> QED
      BY <3>1, <3>2
  <2>5. /\ avail_id' \in Nat \cup {NoId}
        /\ avail_id' = NoId => MaxId # NoId
    BY <2>1, <2>2 DEF LowerAvail, IdInv, NoneMeansLimited
  <2>6. avail_id' # NoId => /\ InRange(avail_id') /\ avail_id' \notin resved_ids'
                            /\ \A j \in MinId .. (avail_id' - 1) : j \in resved_ids'
    <3>1. CASE avail_id # NoId /\ i < avail_id
      <4>1. avail_id' = i
        BY <2>1, <3>1 DEF LowerAvail
      <4>2. \A j \in MinId .. (i - 1) : j \in resved_ids /\ j # i
        BY <2>2, <3>1, MinIdAssumption DEF IdInv, AvailIsLowest
      <4> QED
        BY <2>1, <2>2, <4>1, <4>2
    <3>2. CASE avail_id # NoId /\ ~(i < avail_id)
      <4>1. avail_id' = avail_id
        BY <2>1, <3>2 DEF LowerAvail
      <4>2. \A j \in MinId .. (avail_id - 1) : j # i
        BY <2>2, <3>2, MinIdAssumption
      <4> QED
        BY <2>1, <3>2, <4>1, <4>2 DEF IdInv, AvailIsLowest
    <3>3. CASE avail_id = NoId
      BY <2>1, <3>3 DEF LowerAvail
    <3> QED
      BY <3>1, <3>2, <3>3
  <2>7. ret' \in [id : Int \cup {NoId}, ok : BOOLEAN]
    BY <2>1
  <2>8. resved_ids' \subseteq {n \in Nat : InRange(n)}
    BY <2>1, <2>2
  <2> QED
    BY <2>3, <2>4, <2>5, <2>6, <2>7, <2>8
       DEF IdInv, IdTypeOK, AvailIsLowest, NoneMeansLimited, InRange
<1> QED
  BY <1>1, <1>2

(* The inductive step: every method of the generator keeps the invariant.  *)
LEMMA IdNextPreserves == IdInv /\ [IdNext]_id_vars => IdInv'
<1> SUFFICES ASSUME IdInv, [IdNext]_id_vars PROVE IdInv'
  OBVIOUS
<1>1. CASE GetNewId
  BY <1>1, GetNewIdPreserves
<1>2. ASSUME NEW i \in Requests, ReleaseId(i) PROVE IdInv'
  BY <1>2, ReleaseIdPreserves
<1>3. ASSUME NEW i \in Requests, IsIdUsed(i) PROVE IdInv'
  <2> i \in Int
    BY RequestsAssumption
  <2> QED
    BY <1>3, AnswerPreserves DEF IsIdUsed
<1>4. ASSUME NEW i \in Requests, ReserveId(i) PROVE IdInv'
  BY <1>4, ReserveIdPreserves
<1>5. CASE UNCHANGED id_vars
  BY <1>5 DEF id_vars, IdInv, IdTypeOK, MaxExact, AvailIsLowest, NoneMeansLimited, InRange
<1> QED
  BY <1>1, <1>2, <1>3, <1>4, <1>5 DEF IdNext

(* The three facts together hold in every reachable state of dn_base_id_tool's generator. *)
THEOREM IdInvariance == IdSpec => []IdInv
<1> QED
  BY IdInitInv, IdNextPreserves, PTL DEF IdSpec

(* After any sequence of get_new_id, reserve_id and release_id the cached  *)
(* max_resved_id is the highest reserved id and the id that get_new_id is  *)
(* about to hand out is the lowest free one; its attributes keep their     *)
(* types.                                                                  *)
THEOREM CachedValuesExact == IdSpec => []CachesExact
<1>1. IdInv => CachesExact
  BY DEF IdInv, CachesExact
<1> QED
  BY <1>1, IdInvariance, PTL

(* get_new_id never returns an id that is in use.                          *)
THEOREM HandedOutOnce == IdSpec => NeverTwice
<1>1. IdInv /\ [IdNext]_id_vars => [GetNewId /\ ret'.ok => ret'.id \in resved_ids' \ resved_ids]_id_vars
  <2> SUFFICES ASSUME IdInv, GetNewId, ret'.ok
               PROVE  ret'.id \in resved_ids' \ resved_ids
    OBVIOUS
  <2>1. avail_id # NoId
    BY DEF GetNewId
  <2>2. resved_ids' = resved_ids \cup {avail_id} /\ ret' = [id |-> avail_id, ok |-> TRUE]
    BY <2>1 DEF GetNewId
  <2>3. avail_id \notin resved_ids
    BY <2>1 DEF IdInv, AvailIsLowest
  <2> QED
    BY <2>2, <2>3
<1> QED
  BY <1>1, IdInvariance, PTL DEF IdSpec, NeverTwice

-----------------------------------------------------------------------------
(* The lowest free id is MinId or follows a reserved one.                  *)
LEMMA LowestIsNear ==
  ASSUME IdInv, avail_id # NoId
  PROVE  avail_id \in {MinId} \cup {j + 1 : j \in resved_ids}
<1>1. avail_id \in Nat /\ avail_id >= MinId
  BY DEF IdInv, IdTypeOK, AvailIsLowest, InRange
<1>2. CASE avail_id = MinId
  BY <1>2
<1>3. CASE avail_id > MinId
  <2>1. avail_id - 1 \in resved_ids
    BY <1>1, <1>3, MinIdAssumption DEF IdInv, AvailIsLowest
  <2>2. avail_id = (avail_id - 1) + 1
    BY <1>1
  <2> QED
    BY <2>1, <2>2
<1> QED
  BY <1>1, <1>2, <1>3, MinIdAssumption

(* Taking an id spends a generator exactly when the id was its last.       *)
LEMMA SpentWhenFull ==
  ASSUME IdInv, IdInv', NEW i \in Nat, InRange(i), i \notin resved_ids,
         resved_ids' = resved_ids \cup {i},
         avail_id' = IF i = avail_id THEN get_next_avail_id(resved_ids') ELSE avail_id
  PROVE  avail_id' = NoId <=> avail_id = NoId \/ Abs!Full(resved_ids')
<1>1. CASE avail_id = NoId
  <2>1. i # avail_id
    BY <1>1, NoIdAssumption
  <2> QED
    BY <1>1, <2>1
<1>2. CASE avail_id # NoId
  <2>1. ASSUME avail_id' # NoId, Abs!Full(resved_ids') PROVE FALSE
    <3>1. avail_id' \in Nat /\ avail_id' >= MinId /\ avail_id' \notin resved_ids'
      BY <2>1 DEF IdInv, IdTypeOK, AvailIsLowest, InRange
    <3>2. MaxId # NoId /\ MaxId \in Int /\ (MinId .. MaxId) \subseteq resved_ids'
      BY <2>1, MaxIdAssumption DEF Abs!Full
    <3>3. avail_id' <= MaxId
      BY <2>1, <3>2 DEF IdInv, AvailIsLowest, InRange
    <3> QED
      BY <3>1, <3>2, <3>3, MinIdAssumption
  <2>2. ASSUME avail_id' = NoId PROVE Abs!Full(resved_ids')
    <3>1. i = avail_id
      BY <1>2, <2>2
    <3> DEFINE r == resved_ids'
    <3>2. r = resved_ids \cup {avail_id} /\ avail_id' = get_next_avail_id(r)
      BY <3>1
    <3> HIDE DEF r
    <3>3. MaxId # NoId /\ \A j \in MinId .. MaxId : j \in r
      BY <1>2, <2>2, <3>2, NextAvailIsLowest
    <3> QED
      BY <3>3 DEF Abs!Full, r
  <2> QED
    BY <1>2, <2>1, <2>2
<1> QED
  BY <1>1, <1>2

(* The generator behaves as the abstract allocator: every step of the code *)
(* is a step of it.  get_new_id answers with the lowest free id until a    *)
(* generator with an upper limit has once had all of its ids in use.       *)
THEOREM Refinement == IdSpec => ImplementsAllocator
<1>1. IdInit => Abs!Init
  BY MinIdAssumption, NoIdAssumption DEF IdInit, Abs!Init
<1>2. ASSUME IdInv, IdInv', IdNext PROVE Abs!Next
  <2>1. CASE GetNewId /\ avail_id # NoId
    <3>1. avail_id \in {MinId} \cup {j + 1 : j \in resved_ids}
      BY <1>2, <2>1, LowestIsNear
    <3>2. Abs!LowestFree(avail_id)
      BY <1>2, <2>1 DEF Abs!LowestFree, Abs!Free, Abs!InRange, InRange, IdInv, AvailIsLowest
    <3>3. /\ resved_ids' = resved_ids \cup {avail_id} /\ ret' = [id |-> avail_id, ok |-> TRUE]
          /\ avail_id' = get_next_avail_id(resved_ids')
      BY <2>1 DEF GetNewId
    <3>4. avail_id \in Nat /\ InRange(avail_id) /\ avail_id \notin resved_ids
      BY <1>2, <2>1 DEF IdInv, IdTypeOK, AvailIsLowest
    <3>5. avail_id' = NoId <=> avail_id = NoId \/ Abs!Full(resved_ids')
      BY <1>2, <3>3, <3>4, SpentWhenFull
    <3>6. Abs!Take(avail_id)
      BY <3>3, <3>5 DEF Abs!Take
    <3> QED
      BY <2>1, <3>1, <3>2, <3>6 DEF Abs!Next, Abs!GetNewId
  <2>2. CASE GetNewId /\ avail_id = NoId
    BY <2>2 DEF GetNewId, Abs!Next, Abs!NoNewId
  <2>3. ASSUME NEW i \in Requests, ReleaseId(i) PROVE Abs!ReleaseId(i)
    <3>1. CASE i \in resved_ids
      <4>1. i # NoId
        BY RequestsAssumption, NoIdAssumption
      <4>2. avail_id' = NoId <=> avail_id = NoId
        BY <2>3, <3>1, <4>1 DEF ReleaseId, LowerAvail
      <4> QED
        BY <2>3, <3>1, <4>2 DEF ReleaseId, Abs!ReleaseId
    <3>2. CASE i \notin resved_ids
      BY <2>3, <3>2 DEF ReleaseId, Abs!ReleaseId, Abs!Refuse
    <3> QED
      BY <3>1, <3>2
  <2>4. ASSUME NEW i \in Requests, IsIdUsed(i) PROVE Abs!IsIdUsed(i)
    BY <2>4 DEF IsIdUsed, Abs!IsIdUsed
  <2>5. ASSUME NEW i \in Requests, ReserveId(i) PROVE Abs!ReserveId(i)
    <3>1. InRange(i) /\ i \notin resved_ids <=> Abs!Free(i)
      BY DEF Abs!Free, Abs!InRange, InRange
    <3>2. CASE Abs!Free(i)
      <4>1. i \in Nat /\ InRange(i) /\ i \notin resved_ids
        BY <3>1, <3>2, RequestsAssumption, MinIdAssumption DEF InRange
      <4>2. /\ resved_ids' = resved_ids \cup {i} /\ ret' = [id |-> i, ok |-> TRUE]
            /\ avail_id' = IF i = avail_id THEN get_next_avail_id(resved_ids') ELSE avail_id
        BY <2>5, <4>1 DEF ReserveId
      <4>3. avail_id' = NoId <=> avail_id = NoId \/ Abs!Full(resved_ids')
        BY <1>2, <4>1, <4>2, SpentWhenFull
      <4> QED
        BY <3>2, <4>2, <4>3 DEF Abs!ReserveId, Abs!Take
    <3>3. CASE ~Abs!Free(i)
      BY <2>5, <3>1, <3>3 DEF ReserveId, Abs!ReserveId, Abs!Refuse
    <3> QED
      BY <3>2, <3>3
  <2> QED
    BY <1>2, <2>1, <2>2, <2>3, <2>4, <2>5 DEF IdNext, Abs!Next
<1>3. UNCHANGED id_vars => UNCHANGED Abs!vars
  BY DEF id_vars, Abs!vars
<1>4. IdInv /\ IdInv' /\ [IdNext]_id_vars => [Abs!Next]_(Abs!vars)
  BY <1>2, <1>3
<1> QED
  BY <1>1, <1>4, IdInvariance, PTL DEF IdSpec, ImplementsAllocator, Abs!Spec
-----------------------------------------------------------------------------
RuleRec == [key : Keys, seq : {0}, id : Nat \ {0}, port : Ports \cup {None}]

SpecRec == [key : Keys, port : Ports \cup {None}]

Entry == SpecRec \cup {Foreign}

(* The rules of this cache all have the sort key 0.                        *)
LEMMA RuleRecSeqs == \A r \in RuleRec : r.seq = 0 /\ r.seq \in Int
BY DEF RuleRec

(* A rule's specification is never mistaken for someone else's rule.       *)
LEMMA SpecIsEntry ==
  ASSUME NEW r \in RuleRec
  PROVE  SpecOf(r) \in Entry /\ SpecOf(r) # Foreign /\ Foreign \in Entry
<1>1. SpecOf(r) \in SpecRec
  BY DEF SpecOf, SpecRec, RuleRec
<1>2. Foreign \notin SpecRec
  BY ForeignAssumption DEF SpecRec, Keys
<1> QED
  BY <1>1, <1>2 DEF Entry

(* As the sort keys are all equal, a new rule goes behind the others.      *)
LEMMA InsertGoesLast ==
  ASSUME NEW l, ListOK(RuleRec, l), NEW r \in RuleRec, r.id \notin Ids(l),
         \A k \in 1 .. Len(l.rules) : l.rules[k].key # r.key,
         NEW m, m = Insert(l, r)
  PROVE  /\ InsertPos(l, r) = Len(l.rules)
         /\ ListOK(RuleRec, m) /\ Ids(m) = Ids(l) \cup {r.id}
         /\ Len(m.rules) = Len(l.rules) + 1
         /\ \A k \in 1 .. Len(l.rules) : m.rules[k] = l.rules[k]
         /\ m.rules[Len(l.rules) + 1] = r
<1> DEFINE n == InsertPos(l, r)
           R == RuleRec
           s == l.rules
<1>1. \A k \in 1 .. Len(l.rules) : ~Equal(l.rules[k], r)
  BY DEF Equal
<1>2. /\ n \in 0 .. Len(l.rules) /\ Insert(l, r).rules = InsertAt(l.rules, n + 1, r)
      /\ ListOK(RuleRec, Insert(l, r)) /\ Ids(Insert(l, r)) = Ids(l) \cup {r.id}
  <2>1. ListOK(R, l) /\ r \in R
    OBVIOUS
  <2> HIDE DEF R
  <2>2. /\ n \in 0 .. Len(l.rules) /\ Insert(l, r).rules = InsertAt(l.rules, n + 1, r)
        /\ ListOK(R, Insert(l, r)) /\ Ids(Insert(l, r)) = Ids(l) \cup {r.id}
    BY <1>1, <2>1, InsertKeeps
  <2> QED
    BY <2>2 DEF R
<1>3. /\ s \in Seq(R) /\ Len(s) \in Nat /\ l.seq_num_list \in Seq(Int)
      /\ Len(l.seq_num_list) = Len(s) /\ DOMAIN s = 1 .. Len(s)
      /\ \A k \in 1 .. Len(s) : l.seq_num_list[k] = s[k].seq
  BY LenProperties DEF ListOK, MapExact
<1>4. \A k \in 1 .. Len(s) : s[k].seq = 0
  <2> HIDE DEF R, s
  <2>1. \A k \in 1 .. Len(s) : s[k] \in R
    BY <1>3, ElementOfSeq
  <2> QED
    BY <2>1, RuleRecSeqs DEF R
<1>5. n = Len(s)
  <2>1. /\ n \in 0 .. Len(s)
        /\ n < Len(l.seq_num_list) => l.seq_num_list[n + 1] > r.seq
    <3>1. r.seq \in Int
      BY RuleRecSeqs
    <3> QED
      BY <1>2, <1>3, <3>1, BisectRightIs DEF InsertPos
  <2>2. r.seq = 0
    BY RuleRecSeqs
  <2>3. ASSUME n < Len(s) PROVE FALSE
    <3>1. n + 1 \in 1 .. Len(s)
      BY <1>3, <2>1, <2>3
    <3>2. l.seq_num_list[n + 1] = 0
      BY <1>3, <1>4, <3>1
    <3>3. l.seq_num_list[n + 1] > 0
      BY <1>3, <2>1, <2>2, <2>3
    <3> QED
      BY <3>2, <3>3
  <2> QED
    BY <1>3, <2>1, <2>3
<1>6. /\ Len(m.rules) = Len(s) + 1
      /\ \A k \in 1 .. Len(s) + 1 :
           m.rules[k] = IF k < Len(s) + 1 THEN s[k] ELSE IF k = Len(s) + 1 THEN r ELSE s[k - 1]
  <2>1. s \in Seq(R) /\ r \in R /\ Len(s) + 1 \in 1 .. Len(s) + 1
    BY <1>3
  <2>2. m.rules = InsertAt(s, Len(s) + 1, r)
    BY <1>2, <1>5
  <2> DEFINE p == Len(s) + 1
  <2>3. Insertable(R, s, p, r)
    BY <2>1 DEF Insertable
  <2> HIDE DEF s, R, p
  <2>4. Inserted(R, s, p, r, InsertAt(s, p, r))
    BY ONLY <2>3, InsertAtGives
  <2>5. m.rules = InsertAt(s, p, r)
    BY <2>2 DEF p
  <2>6. /\ Len(m.rules) = Len(s) + 1
        /\ \A k \in 1 .. Len(s) + 1 :
             m.rules[k] = IF k < p THEN s[k] ELSE IF k = p THEN r ELSE s[k - 1]
    BY <2>4, <2>5 DEF Inserted
  <2> QED
    BY <2>6 DEF p
<1>7. \A k \in 1 .. Len(s) : k \in 1 .. Len(s) + 1 /\ k < Len(s) + 1
  BY <1>3
<1>8. Len(s) + 1 \in 1 .. Len(s) + 1 /\ ~(Len(s) + 1 < Len(s) + 1)
  BY <1>3
<1> QED
  BY <1>2, <1>5, <1>6, <1>7, <1>8

(* A removal moves the rules behind it up by one.                          *)
LEMMA RemoveMovesUp ==
  ASSUME NEW l, ListOK(RuleRec, l), NEW n \in 0 .. Len(l.rules) - 1,
         NEW m, m = RemovePos(l, n)
  PROVE  /\ ListOK(RuleRec, m) /\ Ids(m) = Ids(l) \ {l.rules[n + 1].id}
         /\ Len(m.rules) = Len(l.rules) - 1
         /\ \A k \in 1 .. Len(l.rules) - 1 :
              m.rules[k] = IF k < n + 1 THEN l.rules[k] ELSE l.rules[k + 1]
<1> DEFINE R == RuleRec
           s == l.rules
<1>1. ListOK(R, l) /\ s \in Seq(R) /\ n + 1 \in 1 .. Len(s)
  <2>1. Len(s) \in Nat
    BY LenProperties DEF ListOK
  <2> QED
    BY <2>1 DEF ListOK
<1> HIDE DEF R
<1>2. /\ m.rules = RemoveAt(l.rules, n + 1) /\ ListOK(R, m)
      /\ Ids(m) = Ids(l) \ {l.rules[n + 1].id}
  BY <1>1, RemoveKeeps
<1> HIDE DEF s
<1>3. /\ Len(RemoveAt(s, n + 1)) = Len(s) - 1
      /\ \A k \in 1 .. Len(s) - 1 :
           RemoveAt(s, n + 1)[k] = IF k < n + 1 THEN s[k] ELSE s[k + 1]
  BY <1>1, RemoveAtIs
<1> QED
  BY <1>2, <1>3 DEF R, s

(* The rules of a list, each of which has another key and another id.      *)
Recs(l) == {l.rules[k] : k \in 1 .. Len(l.rules)}

LEMMA RecsOf ==
  ASSUME NEW l, ListOK(RuleRec, l)
  PROVE  /\ Len(l.rules) \in Nat /\ DOMAIN l.rules = 1 .. Len(l.rules)
         /\ l.rules \in Seq(RuleRec) /\ Recs(l) \subseteq RuleRec
         /\ Ids(l) = {r.id : r \in Recs(l)} /\ Ids(l) \subseteq Nat \ {0}
         /\ \A j, k \in 1 .. Len(l.rules) : l.rules[j].key = l.rules[k].key => j = k
         /\ \A q, r \in Recs(l) : q.key = r.key => q = r
         /\ \A q, r \in Recs(l) : q.id = r.id => q = r
<1>1. Len(l.rules) \in Nat /\ DOMAIN l.rules = 1 .. Len(l.rules) /\ l.rules \in Seq(RuleRec)
  BY LenProperties DEF ListOK
<1>2. Recs(l) \subseteq RuleRec
  BY <1>1, ElementOfSeq DEF Recs
<1>3. Ids(l) = {r.id : r \in Recs(l)}
  BY <1>1 DEF Ids, Recs
<1>4. Ids(l) \subseteq Nat \ {0}
  BY <1>2, <1>3 DEF RuleRec
<1>5. \A j, k \in 1 .. Len(l.rules) : l.rules[j].key = l.rules[k].key => j = k
  BY <1>1 DEF ListOK, NoEqualRules, Equal
<1>6. \A j, k \in 1 .. Len(l.rules) : l.rules[j].id = l.rules[k].id => j = k
  BY <1>1, IdsDistinct DEF ListOK
<1> QED
  BY <1>1, <1>2, <1>3, <1>4, <1>5, <1>6 DEF Recs

(* What an insertion and a removal do to the set of rules.                 *)
LEMMA RecsOfInsert ==
  ASSUME NEW l, ListOK(RuleRec, l), NEW r \in RuleRec, r.id \notin Ids(l),
         \A k \in 1 .. Len(l.rules) : l.rules[k].key # r.key
  PROVE  Recs(Insert(l, r)) = Recs(l) \cup {r}
<1> DEFINE m == Insert(l, r)
<1>1. /\ Len(m.rules) = Len(l.rules) + 1
      /\ \A k \in 1 .. Len(l.rules) : m.rules[k] = l.rules[k]
      /\ m.rules[Len(l.rules) + 1] = r
  BY InsertGoesLast
<1> HIDE DEF m
<1>2. Len(l.rules) \in Nat
  BY RecsOf
<1>3. 1 .. Len(m.rules) = (1 .. Len(l.rules)) \cup {Len(l.rules) + 1}
  BY <1>1, <1>2
<1> QED
  BY <1>1, <1>3 DEF Recs, m

(* A removal takes away the one rule, and no other.                        *)
LEMMA RecsOfRemove ==
  ASSUME NEW l, ListOK(RuleRec, l), NEW n \in 0 .. Len(l.rules) - 1
  PROVE  l.rules[n + 1] \in Recs(l) /\ Recs(RemovePos(l, n)) = Recs(l) \ {l.rules[n + 1]}
<1> DEFINE m == RemovePos(l, n)
           r == l.rules[n + 1]
<1>1. /\ Len(m.rules) = Len(l.rules) - 1
      /\ \A k \in 1 .. Len(l.rules) - 1 :
           m.rules[k] = IF k < n + 1 THEN l.rules[k] ELSE l.rules[k + 1]
  BY RemoveMovesUp
<1> HIDE DEF m
<1>2. /\ Len(l.rules) \in Nat /\ n \in Nat /\ n + 1 \in 1 .. Len(l.rules)
      /\ \A j, k \in 1 .. Len(l.rules) : l.rules[j].key = l.rules[k].key => j = k
  BY RecsOf
<1>3. ASSUME NEW k \in 1 .. Len(m.rules) PROVE m.rules[k] \in Recs(l) \ {r}
  <2>1. PICK j \in 1 .. Len(l.rules) : j # n + 1 /\ m.rules[k] = l.rules[j]
    <3>1. CASE k < n + 1
      BY <1>1, <1>2, <3>1
    <3>2. CASE ~(k < n + 1)
      <4>1. k + 1 \in 1 .. Len(l.rules) /\ k + 1 # n + 1 /\ m.rules[k] = l.rules[k + 1]
        BY <1>1, <1>2, <3>2
      <4> QED
        BY <4>1
    <3> QED
      BY <3>1, <3>2
  <2> QED
    BY <1>2, <2>1 DEF Recs
<1>4. ASSUME NEW j \in 1 .. Len(l.rules), l.rules[j] # r PROVE l.rules[j] \in Recs(m)
  <2>1. CASE j < n + 1
    <3>1. j \in 1 .. Len(m.rules) /\ m.rules[j] = l.rules[j]
      BY <1>1, <1>2, <2>1
    <3> QED
      BY <3>1 DEF Recs
  <2>2. CASE j > n + 1
    <3>1. j - 1 \in 1 .. Len(m.rules) /\ ~(j - 1 < n + 1) /\ (j - 1) + 1 = j
      BY <1>1, <1>2, <2>2
    <3>2. m.rules[j - 1] = l.rules[j]
      BY <1>1, <3>1
    <3> QED
      BY <3>1, <3>2 DEF Recs
  <2>3. j < n + 1 \/ j > n + 1
    BY <1>2, <1>4
  <2> QED
    BY <2>1, <2>2, <2>3
<1>5. r \in Recs(l)
  BY <1>2 DEF Recs
<1>6. Recs(m) \subseteq Recs(l) \ {r}
  BY <1>3 DEF Recs
<1>7. Recs(l) \ {r} \subseteq Recs(m)
  BY <1>4 DEF Recs
<1> HIDE DEF r
<1> QED
  BY <1>5, <1>6, <1>7 DEF m, r

-----------------------------------------------------------------------------
(* What the methods of the cache keep, said of the states they pass on.    *)
Fields == {"lists", "ids", "ports", "subnet", "chain"}

ListsOK(s) == DOMAIN s.lists = Chains /\ \A c \in Chains : ListOK(RuleRec, s.lists[c])

IdsOK(s) ==
  /\ s.ids = UNION {Ids(s.lists[c]) : c \in Chains}
  /\ \A c, d \in Chains : c # d => Ids(s.lists[c]) \cap Ids(s.lists[d]) = {}

PortsOK(ports) ==
  /\ DOMAIN ports \subseteq OutChains \X Keys
  /\ ports \in [DOMAIN ports -> Ports]
  /\ \A a, b \in DOMAIN ports : ports[a] = ports[b] => a = b

ChainsOK(s) == DOMAIN s.chain = Chains /\ \A c \in Chains : s.chain[c] \in Seq(Entry)

Good(s) ==
  /\ DOMAIN s = Fields
  /\ ListsOK(s) /\ IdsOK(s) /\ PortsOK(s.ports) /\ ChainsOK(s)
  /\ s.subnet \subseteq known

(* Every service binding has its port.                                     *)
Owned(s) ==
  \A c \in OutChains : \A r \in Recs(s.lists[c]) :
    Alias(c, r.key) \in DOMAIN s.ports /\ s.ports[Alias(c, r.key)] = r.port

(* Every port has its rule, and was recorded when the pair was there.      *)
Released(s) ==
  \A c \in OutChains, key \in Keys : Alias(c, key) \in DOMAIN s.ports =>
    VrfOf[c] \in s.subnet /\ \E r \in Recs(s.lists[c]) : r.key = key

(* The rules of l are the first ones of ch, and no others but Foreign.     *)
InPlace(l, ch) ==
  /\ Len(l.rules) <= Len(ch)
  /\ \A k \in 1 .. Len(l.rules) : ch[k] = SpecOf(l.rules[k])
  /\ \A k \in 1 .. Len(ch) : k > Len(l.rules) => ch[k] = Foreign

(* A namespace that does not exist has no chains, and no rules either as   *)
(* long as no VRF goes away with its rules.                                *)
Placed(s) ==
  \A c \in Chains :
    /\ Exists(c) => InPlace(s.lists[c], s.chain[c])
    /\ ~Exists(c) => Len(s.lists[c].rules) = 0 /\ s.chain[c] = <<>>

Keeps(s) ==
  /\ Good(s)
  /\ "update" \notin modes => Owned(s)
  /\ modes \cap {"vrf", "update"} = {} => Released(s)
  /\ modes \cap {"delete", "show", "vrf"} = {} => Placed(s)

IInv == Keeps(Now) /\ known \subseteq netns /\ netns \subseteq Vrfs

(* Only the fields of a state count.                                       *)
LEMMA SameFields ==
  ASSUME NEW s, Keeps(s), NEW t, DOMAIN t = Fields,
         t.lists = s.lists, t.ids = s.ids, t.ports = s.ports, t.subnet = s.subnet,
         t.chain = s.chain
  PROVE  Keeps(t)
<1>1. Good(t)
  BY DEF Keeps, Good, ListsOK, IdsOK, ChainsOK
<1>2. Owned(s) => Owned(t)
  BY DEF Owned
<1>3. Released(s) => Released(t)
  BY DEF Released
<1>4. Placed(s) => Placed(t)
  BY DEF Placed
<1> QED
  BY <1>1, <1>2, <1>3, <1>4 DEF Keeps

(* A method of the cache that leaves a good state keeps the invariant.     *)
LEMMA BecomesKeeps ==
  ASSUME IInv, NEW s, Keeps(s), Becomes(s), UNCHANGED <<modes, known, netns>>
  PROVE  IInv'
<1> DEFINE t == Now'
<1>1. /\ DOMAIN t = Fields
      /\ t.lists = lists' /\ t.ids = rule_ids' /\ t.ports = svcs_map' /\ t.subnet = subnet'
      /\ t.chain = chain'
  BY DEF Now, Fields
<1>2. /\ t.lists = s.lists /\ t.ids = s.ids /\ t.ports = s.ports /\ t.subnet = s.subnet
      /\ t.chain = s.chain
  BY <1>1 DEF Becomes
<1> HIDE DEF t
<1>3. Keeps(t)
  BY <1>1, <1>2, SameFields
<1>4. Keeps(Now)'
  BY <1>3 DEF Keeps, Good, Owned, Released, Placed, Exists, t, ListsOK, IdsOK, ChainsOK
<1> QED
  BY <1>4 DEF IInv

-----------------------------------------------------------------------------
(* A pair that is set up on the way: the state after it.                   *)
Prepared(s, t, v) ==
  /\ DOMAIN t = Fields
  /\ t.lists = s.lists /\ t.ids = s.ids /\ t.ports = s.ports
  /\ s.subnet \subseteq t.subnet /\ t.subnet \subseteq known
  /\ DOMAIN t.chain = Chains
  /\ \A c \in Chains :
       \/ t.chain[c] = s.chain[c]
       \/ VrfOf[c] = v /\ v \in known /\ t.chain[c] = Append(s.chain[c], Foreign)

(* _veth_ip_get leaves a state as it is or sets up the pair.               *)
LEMMA VethIpGetIs ==
  ASSUME NEW s, DOMAIN s = Fields, DOMAIN s.chain = Chains, s.subnet \subseteq known,
         NEW v, NEW x \in VethIpGet(s, v)
  PROVE  /\ Prepared(s, x.s, v)
         /\ x.ok => v \in x.s.subnet
         /\ v \in s.subnet => x.ok /\ x.s = s
         /\ v \notin x.s.subnet => ~x.ok /\ x.s = s
<1>1. CASE v \in s.subnet
  <2>1. x = Outcome(s, TRUE)
    BY <1>1 DEF VethIpGet
  <2>2. x.s = s /\ x.ok = TRUE
    BY <2>1 DEF Outcome
  <2> QED
    BY <1>1, <2>2 DEF Prepared
<1>2. CASE v \notin s.subnet \cup known
  <2>1. x = Outcome(s, FALSE)
    BY <1>2 DEF VethIpGet
  <2>2. x.s = s /\ x.ok = FALSE
    BY <2>1 DEF Outcome
  <2> QED
    BY <1>2, <2>2 DEF Prepared
<1>3. CASE v \notin s.subnet /\ v \in known
  <2>1. x \in SubnetSetup(s, v, TRUE) \cup SubnetSetup(s, v, FALSE)
    BY <1>3 DEF VethIpGet
  <2>2. PICK cs \in SUBSET ChainsOf(v), ok \in BOOLEAN :
          x = Outcome([s EXCEPT !.subnet = @ \cup {v},
                                !.chain = [c \in Chains |-> IF c \in cs THEN Append(@[c], Foreign)
                                                                       ELSE @[c]]], ok)
    BY <2>1 DEF SubnetSetup
  <2> DEFINE ch == [c \in Chains |-> IF c \in cs THEN Append(s.chain[c], Foreign) ELSE s.chain[c]]
             t == [s EXCEPT !.subnet = @ \cup {v}, !.chain = ch]
  <2>3. x.s = t
    BY <2>2 DEF Outcome
  <2>4. DOMAIN ch = Chains /\ \A c \in Chains : ch[c] = IF c \in cs THEN Append(s.chain[c], Foreign) ELSE s.chain[c]
    OBVIOUS
  <2> HIDE DEF ch
  <2>5. /\ DOMAIN t = Fields /\ t.lists = s.lists /\ t.ids = s.ids /\ t.ports = s.ports
        /\ t.subnet = s.subnet \cup {v} /\ t.chain = ch
    BY DEF Fields
  <2> HIDE DEF t
  <2>6. \A c \in cs : VrfOf[c] = v
    BY DEF ChainsOf
  <2>7. Prepared(s, t, v)
    BY <1>3, <2>4, <2>5, <2>6 DEF Prepared
  <2> QED
    BY <1>3, <2>3, <2>5, <2>7
<1> QED
  BY <1>1, <1>2, <1>3

(* Setting up a pair touches no rule of the cache.                         *)
LEMMA SetupKeepsGood ==
  ASSUME NEW s, Good(s), NEW v, NEW t, Prepared(s, t, v)
  PROVE  Good(t)
<1>1. Foreign \in Entry
  BY DEF Entry
<1>2. \A c \in Chains : t.chain[c] \in Seq(Entry)
  <2> SUFFICES ASSUME NEW c \in Chains PROVE t.chain[c] \in Seq(Entry)
    OBVIOUS
  <2>1. s.chain[c] \in Seq(Entry)
    BY DEF Good, ChainsOK
  <2>2. Append(s.chain[c], Foreign) \in Seq(Entry)
    BY <1>1, <2>1, AppendProperties
  <2> QED
    BY <2>1, <2>2 DEF Prepared
<1> QED
  BY <1>2 DEF Good, Prepared, ListsOK, IdsOK, ChainsOK

(* A rule of someone else goes to the end of the chain.                    *)
LEMMA InPlaceAfterAppend ==
  ASSUME NEW l, ListOK(RuleRec, l), NEW ch \in Seq(Entry), InPlace(l, ch)
  PROVE  InPlace(l, Append(ch, Foreign)) /\ Append(ch, Foreign) \in Seq(Entry)
<1> DEFINE d == Append(ch, Foreign)
<1>1. Foreign \in Entry /\ Len(ch) \in Nat /\ Len(l.rules) \in Nat
  BY LenProperties, RecsOf DEF Entry
<1>2. /\ Len(d) = Len(ch) + 1 /\ d[Len(ch) + 1] = Foreign /\ \A k \in 1 .. Len(ch) : d[k] = ch[k]
      /\ d \in Seq(Entry)
  BY <1>1, AppendProperties
<1> HIDE DEF d
<1>3. \A k \in 1 .. Len(l.rules) : k \in 1 .. Len(ch)
  BY <1>1 DEF InPlace
<1>4. \A k \in 1 .. Len(d) : k \in 1 .. Len(ch) \/ k = Len(ch) + 1
  BY <1>1, <1>2
<1>5. Len(l.rules) <= Len(d)
  BY <1>1, <1>2 DEF InPlace
<1>6. InPlace(l, d)
  BY <1>2, <1>3, <1>4, <1>5 DEF InPlace
<1> QED
  BY <1>2, <1>6 DEF d

(* A setup appends to the chains that exist only.                          *)
LEMMA SetupKeepsPlaced ==
  ASSUME NEW s, Good(s), Placed(s), known \subseteq netns, NEW v, NEW t, Prepared(s, t, v)
  PROVE  Placed(t)
<1> SUFFICES ASSUME NEW c \in Chains
             PROVE  /\ Exists(c) => InPlace(t.lists[c], t.chain[c])
                    /\ ~Exists(c) => Len(t.lists[c].rules) = 0 /\ t.chain[c] = <<>>
  BY DEF Placed
<1>1. /\ Exists(c) => InPlace(s.lists[c], s.chain[c])
      /\ ~Exists(c) => Len(s.lists[c].rules) = 0 /\ s.chain[c] = <<>>
      /\ t.lists = s.lists
  BY DEF Placed, Prepared
<1>2. CASE t.chain[c] = s.chain[c]
  BY <1>1, <1>2
<1>3. CASE VrfOf[c] \in known /\ t.chain[c] = Append(s.chain[c], Foreign)
  <2>1. Exists(c)
    BY <1>3 DEF Exists
  <2>2. ListOK(RuleRec, s.lists[c]) /\ s.chain[c] \in Seq(Entry)
    BY DEF Good, ListsOK, ChainsOK
  <2> QED
    BY <1>1, <1>3, <2>1, <2>2, InPlaceAfterAppend
<1> QED
  BY <1>2, <1>3 DEF Prepared

(* So it keeps what the methods of the cache keep.                         *)
LEMMA SetupKeeps ==
  ASSUME NEW s, Keeps(s), known \subseteq netns, NEW v, NEW t, Prepared(s, t, v)
  PROVE  Keeps(t)
<1>1. Good(t) /\ (Placed(s) => Placed(t))
  BY SetupKeepsGood, SetupKeepsPlaced DEF Keeps
<1>2. Owned(s) => Owned(t)
  BY DEF Owned, Prepared
<1>3. Released(s) => Released(t)
  BY DEF Released, Prepared
<1> QED
  BY <1>1, <1>2, <1>3 DEF Keeps

-----------------------------------------------------------------------------
(* A call that changes one list, and the ids with it.                      *)
LEMMA ListChanges ==
  ASSUME NEW s, Good(s), NEW c \in Chains, NEW m, ListOK(RuleRec, m),
         \A d \in Chains : d # c => Ids(m) \cap Ids(s.lists[d]) = {},
         NEW t, DOMAIN t = Fields, DOMAIN t.lists = Chains, t.lists[c] = m,
         \A d \in Chains : d # c => t.lists[d] = s.lists[d],
         t.ids = (s.ids \ Ids(s.lists[c])) \cup Ids(m),
         PortsOK(t.ports), ChainsOK(t), t.subnet \subseteq known
  PROVE  Good(t)
<1>1. DOMAIN t.lists = Chains /\ t.lists[c] = m /\ \A d \in Chains : d # c => t.lists[d] = s.lists[d]
  OBVIOUS
<1>2. ListsOK(t)
  BY <1>1 DEF Good, ListsOK
<1>3. \A d, e \in Chains : d # e => Ids(s.lists[d]) \cap Ids(s.lists[e]) = {}
  BY DEF Good, IdsOK
<1>4. s.ids = UNION {Ids(s.lists[d]) : d \in Chains}
  BY DEF Good, IdsOK
<1> DEFINE I(l) == Ids(l)
<1>5. t.ids = UNION {I(t.lists[d]) : d \in Chains}
  <2>1. \A d \in Chains : d # c => I(s.lists[d]) \cap I(s.lists[c]) = {}
    BY <1>3
  <2>2. s.ids = UNION {I(s.lists[d]) : d \in Chains} /\ t.ids = (s.ids \ I(s.lists[c])) \cup I(m)
    BY <1>4
  <2> HIDE DEF I
  <2> QED
    BY <1>1, <2>1, <2>2
<1>6. \A d, e \in Chains : d # e => Ids(t.lists[d]) \cap Ids(t.lists[e]) = {}
  BY <1>1, <1>3
<1> QED
  BY <1>1, <1>2, <1>5, <1>6 DEF Good, IdsOK

(* An id belongs to one list only.                                         *)
LEMMA IdsApart ==
  ASSUME NEW s, Good(s), NEW c \in Chains
  PROVE  /\ ListOK(RuleRec, s.lists[c]) /\ Ids(s.lists[c]) \subseteq s.ids
         /\ \A d \in Chains : d # c => Ids(s.lists[c]) \cap Ids(s.lists[d]) = {}
BY DEF Good, ListsOK, IdsOK

(* Aliases of different services differ.                                   *)
LEMMA AliasIs ==
  ASSUME NEW c, NEW d, NEW k, NEW j
  PROVE  /\ Alias(c, k) = Alias(d, j) <=> c = d /\ k = j
         /\ c \in OutChains /\ k \in Keys => Alias(c, k) \in OutChains \X Keys
BY DEF Alias

(* No port is None.                                                        *)
LEMMA PortNotNone == None \notin Ports
<1>1. \A n \in Nat : n \in Int
  OBVIOUS
<1>2. None \in Ports => None \in Nat
  BY PortsAssumption
<1> QED
  BY <1>1, <1>2, OutNoneAssumption, Zenon

(* A port and an alias that nobody has.                                    *)
FreeFor(ports, a, p) ==
  PortsOK(ports) /\ a \in OutChains \X Keys /\ a \notin DOMAIN ports /\ p \in FreePort(ports)

(* The port is added, and can be taken out again.                          *)
Added(ports, a, p, new) ==
  /\ PortsOK(new) /\ DOMAIN new = DOMAIN ports \cup {a} /\ new[a] = p
  /\ \A b \in DOMAIN ports : new[b] = ports[b]
  /\ PopAlias(new, a) = ports

(* It is recorded for no other service.                                    *)
LEMMA AddAliasOK ==
  ASSUME NEW ports, NEW a, NEW p, FreeFor(ports, a, p)
  PROVE  Added(ports, a, p, AddAlias(ports, a, p))
<1> DEFINE new == AddAlias(ports, a, p)
<1>0. PortsOK(ports) /\ a \in OutChains \X Keys /\ a \notin DOMAIN ports /\ p \in FreePort(ports)
  BY DEF FreeFor
<1>1. p \in Ports /\ \A b \in DOMAIN ports : ports[b] # p
  BY <1>0 DEF FreePort, Range
<1>2. /\ new = [b \in DOMAIN ports \cup {a} |-> IF b = a THEN p ELSE ports[b]]
      /\ DOMAIN new = DOMAIN ports \cup {a} /\ new[a] = p /\ \A b \in DOMAIN ports : new[b] = ports[b]
  BY <1>0 DEF AddAlias
<1> HIDE DEF new
<1>3. new \in [DOMAIN new -> Ports]
  BY <1>0, <1>1, <1>2 DEF PortsOK
<1>4. PopAlias(new, a) = ports
  <2>1. PopAlias(new, a) = [b \in DOMAIN ports |-> ports[b]]
    BY <1>0, <1>2 DEF PopAlias
  <2> QED
    BY <1>0, <2>1 DEF PortsOK
<1>5. PortsOK(new)
  BY <1>0, <1>1, <1>2, <1>3 DEF PortsOK
<1> QED
  BY <1>2, <1>4, <1>5 DEF new, Added

(* Nothing goes wrong with the others when a port is released.             *)
LEMMA PopAliasOK ==
  ASSUME NEW ports, PortsOK(ports), NEW a
  PROVE  /\ PortsOK(PopAlias(ports, a)) /\ DOMAIN PopAlias(ports, a) = DOMAIN ports \ {a}
         /\ \A b \in DOMAIN ports \ {a} : PopAlias(ports, a)[b] = ports[b]
BY DEF PortsOK, PopAlias

(* The outcome a of an allocation for the rule of key in chain c, the      *)
(* namespace being prepared as t: none, or a free port for its alias.      *)
Allocated(t, c, key, a) ==
  \/ a.port = None /\ a.s = t
  \/ /\ Alias(c, key) \notin DOMAIN t.ports /\ VrfOf[c] \in t.subnet
     /\ a.port \in FreePort(t.ports)
     /\ DOMAIN a.s = Fields
     /\ a.s.lists = t.lists /\ a.s.ids = t.ids /\ a.s.subnet = t.subnet
     /\ a.s.chain = t.chain
     /\ a.s.ports = AddAlias(t.ports, Alias(c, key), a.port)

(* What the allocation of a port leaves.                                   *)
LEMMA AllocatePortIs ==
  ASSUME NEW s, DOMAIN s = Fields, DOMAIN s.chain = Chains, s.subnet \subseteq known,
         NEW c \in OutChains, NEW key \in Keys, NEW a \in AllocatePort(s, c, key)
  PROVE  \E t : Prepared(s, t, VrfOf[c]) /\ Allocated(t, c, key, a)
<1>1. PICK x \in VethIpGet(s, VrfOf[c]) :
        a \in IF x.ok /\ Alias(c, key) \notin DOMAIN x.s.ports /\ FreePort(x.s.ports) # {}
                THEN {[s |-> [x.s EXCEPT !.ports = AddAlias(@, Alias(c, key), p)], port |-> p] :
                        p \in FreePort(x.s.ports)}
                ELSE {[s |-> x.s, port |-> None]}
  BY DEF AllocatePort
<1> DEFINE t == x.s
<1>2. Prepared(s, t, VrfOf[c]) /\ (x.ok => VrfOf[c] \in t.subnet)
  BY VethIpGetIs
<1>3. DOMAIN t = Fields
  BY <1>2 DEF Prepared
<1>4. CASE x.ok /\ Alias(c, key) \notin DOMAIN t.ports /\ FreePort(t.ports) # {}
  <2>1. PICK p \in FreePort(t.ports) : a = [s |-> [t EXCEPT !.ports = AddAlias(@, Alias(c, key), p)], port |-> p]
    BY <1>1, <1>4
  <2> HIDE DEF t
  <2>2. a.port = p /\ a.s = [t EXCEPT !.ports = AddAlias(@, Alias(c, key), p)]
    BY <2>1
  <2>3. /\ DOMAIN a.s = Fields
        /\ a.s.lists = t.lists /\ a.s.ids = t.ids /\ a.s.subnet = t.subnet /\ a.s.chain = t.chain
        /\ a.s.ports = AddAlias(t.ports, Alias(c, key), a.port)
    BY <1>3, <2>2 DEF Fields
  <2> QED
    <3>1. Allocated(x.s, c, key, a)
      BY <1>2, <1>4, <2>2, <2>3 DEF t, Allocated
    <3> QED
      BY <1>2, <3>1 DEF t
<1>5. CASE ~(x.ok /\ Alias(c, key) \notin DOMAIN t.ports /\ FreePort(t.ports) # {})
  <2>1. a = [s |-> t, port |-> None]
    BY <1>1, <1>5
  <2>2. a.s = t /\ a.port = None
    BY <2>1
  <2>3. Allocated(t, c, key, a)
    BY <2>2 DEF Allocated
  <2> QED
    BY <1>2, <2>3
<1> QED
  BY <1>4, <1>5

-----------------------------------------------------------------------------
(* A rule that iptables takes goes last in the list and, if the rules      *)
(* before it are in place, behind them in the chain.                       *)
LEMMA InPlaceAfterInsert ==
  ASSUME NEW l, ListOK(RuleRec, l), NEW ch \in Seq(Entry), InPlace(l, ch),
         NEW r \in RuleRec, NEW m, Len(m.rules) = Len(l.rules) + 1,
         \A k \in 1 .. Len(l.rules) : m.rules[k] = l.rules[k],
         m.rules[Len(l.rules) + 1] = r
  PROVE  InPlace(m, InsertAt(ch, Len(l.rules) + 1, SpecOf(r)))
<1> DEFINE n == Len(l.rules)
           p == n + 1
           e == SpecOf(r)
           d == InsertAt(ch, p, e)
           E == Entry
<1>1. n \in Nat /\ n <= Len(ch) /\ Len(ch) \in Nat
  BY RecsOf, LenProperties DEF InPlace
<1>2. ch \in Seq(E) /\ p \in 1 .. Len(ch) + 1 /\ e \in E
  BY <1>1, SpecIsEntry
<1> HIDE DEF n, p, e, E
<1>3. /\ Len(d) = Len(ch) + 1
      /\ \A k \in 1 .. Len(ch) + 1 : d[k] = IF k < p THEN ch[k] ELSE IF k = p THEN e ELSE ch[k - 1]
  BY ONLY <1>2, InsertAtIs DEF d
<1> HIDE DEF d
<1>4. /\ \A k \in 1 .. n : ch[k] = SpecOf(l.rules[k])
      /\ \A k \in 1 .. Len(ch) : k > n => ch[k] = Foreign
  BY DEF InPlace, n
<1>5. /\ Len(m.rules) = n + 1 /\ \A k \in 1 .. n : m.rules[k] = l.rules[k]
      /\ m.rules[n + 1] = r /\ p = n + 1
  BY DEF n, p
<1>6. ASSUME NEW k \in 1 .. n + 1 PROVE d[k] = SpecOf(m.rules[k])
  <2>1. CASE k = n + 1
    BY <1>1, <1>3, <1>5, <2>1 DEF e
  <2>2. CASE k # n + 1
    <3>1. k \in 1 .. n /\ k < p /\ k \in 1 .. Len(ch) + 1
      BY <1>1, <1>5, <2>2
    <3> QED
      BY <1>3, <1>4, <1>5, <3>1
  <2> QED
    BY <2>1, <2>2
<1>7. ASSUME NEW k \in 1 .. Len(d), k > n + 1 PROVE d[k] = Foreign
  <2>1. k - 1 \in 1 .. Len(ch) /\ k - 1 > n /\ ~(k < p) /\ k # p /\ k \in 1 .. Len(ch) + 1
    BY <1>1, <1>3, <1>5, <1>7
  <2> QED
    BY <1>3, <1>4, <2>1
<1>8. n + 1 <= Len(d)
  BY <1>1, <1>3
<1>9. InPlace(m, d)
  BY <1>5, <1>6, <1>7, <1>8 DEF InPlace
<1> QED
  BY <1>9 DEF d, p, e, n

(* The rule that iptables takes, with the port recorded for it.            *)
LEMMA RuleTaken ==
  ASSUME NEW t, Keeps(t), NEW c \in Chains, NEW key \in Keys,
         NEW i \in Nat \ {0}, i \notin t.ids, NEW port \in Ports \cup {None},
         NEW r, r = Rule(key, i, port), CanInsert(t.lists[c], r),
         CanRun(c, InsertPos(t.lists[c], r) + 1, Len(t.chain[c]) + 1),
         NEW u, DOMAIN u = Fields, u.subnet = t.subnet, u.ids = t.ids \cup {i},
         u.lists = [t.lists EXCEPT ![c] = Insert(t.lists[c], r)],
         u.chain = [t.chain EXCEPT ![c] = InsertAt(t.chain[c], InsertPos(t.lists[c], r) + 1, SpecOf(r))],
         \/ c \notin OutChains /\ u.ports = t.ports
         \/ /\ c \in OutChains /\ Alias(c, key) \notin DOMAIN t.ports /\ VrfOf[c] \in t.subnet
            /\ port \in FreePort(t.ports) /\ u.ports = AddAlias(t.ports, Alias(c, key), port)
  PROVE  Keeps(u)
<1> DEFINE l == t.lists[c]
           m == Insert(l, r)
           ch == t.chain[c]
           n == Len(l.rules)
<1>g. Good(t)
  BY DEF Keeps
<1>1. r.key = key /\ r.id = i /\ r.port = port /\ r \in RuleRec
  BY DEF Rule, RuleRec
<1>2. /\ ListOK(RuleRec, l) /\ Ids(l) \subseteq t.ids
      /\ \A d \in Chains : d # c => Ids(l) \cap Ids(t.lists[d]) = {} /\ Ids(t.lists[d]) \subseteq t.ids
  BY <1>g, IdsApart
<1>3. /\ n \in Nat /\ DOMAIN l.rules = 1 .. n
  BY <1>2, RecsOf
<1>4. r.id \notin Ids(l) /\ \A k \in 1 .. n : l.rules[k].key # r.key
  BY <1>1, <1>2, <1>3 DEF CanInsert, Equal
<1>5. ch \in Seq(Entry) /\ Len(ch) \in Nat /\ DOMAIN t.chain = Chains
  BY <1>g, LenProperties DEF Good, ChainsOK
<1>6. /\ u.subnet = t.subnet /\ u.ids = t.ids \cup {i}
      /\ u.lists = [t.lists EXCEPT ![c] = m]
      /\ u.chain = [t.chain EXCEPT ![c] = InsertAt(ch, InsertPos(l, r) + 1, SpecOf(r))]
      /\ CanRun(c, InsertPos(l, r) + 1, Len(ch) + 1)
  OBVIOUS
<1> HIDE DEF l, m, ch
<1>7. /\ InsertPos(l, r) = n /\ ListOK(RuleRec, m) /\ Ids(m) = Ids(l) \cup {i}
      /\ Len(m.rules) = n + 1 /\ \A k \in 1 .. n : m.rules[k] = l.rules[k]
      /\ m.rules[n + 1] = r
  BY <1>1, <1>2, <1>4, InsertGoesLast DEF m
<1>8. Recs(m) = Recs(l) \cup {r}
  BY <1>1, <1>2, <1>4, RecsOfInsert DEF m
<1> HIDE DEF n
<1>9. /\ DOMAIN u.chain = Chains /\ u.chain[c] = InsertAt(ch, n + 1, SpecOf(r))
      /\ \A d \in Chains : d # c => u.chain[d] = t.chain[d]
  BY <1>5, <1>6, <1>7
<1>10. ChainsOK(u)
  <2>1. n + 1 \in 1 .. Len(ch) + 1
    BY <1>3, <1>5, <1>6, <1>7 DEF CanRun
  <2>2. InsertAt(ch, n + 1, SpecOf(r)) \in Seq(Entry)
    <3> DEFINE e == SpecOf(r)
               p == n + 1
               E == Entry
    <3>1. ch \in Seq(E) /\ p \in 1 .. Len(ch) + 1 /\ e \in E
      BY <1>1, <1>5, <2>1, SpecIsEntry
    <3> HIDE DEF e, p, E
    <3>2. InsertAt(ch, p, e) \in Seq(E)
      BY <3>1, InsertAtIs
    <3> QED
      BY <3>2 DEF e, p, E
  <2> QED
    BY <1>9, <2>2, <1>g DEF Good, ChainsOK
<1>added. ASSUME c \in OutChains
          PROVE  /\ PortsOK(u.ports) /\ DOMAIN u.ports = DOMAIN t.ports \cup {Alias(c, key)}
                 /\ u.ports[Alias(c, key)] = port /\ \A b \in DOMAIN t.ports : u.ports[b] = t.ports[b]
  <2> DEFINE ports == t.ports
             a == Alias(c, key)
             new == AddAlias(ports, a, port)
  <2>1. PortsOK(ports) /\ a \notin DOMAIN ports /\ port \in FreePort(ports) /\ u.ports = new
    BY <1>g, <1>added DEF Good
  <2>2. FreeFor(ports, a, port)
    BY <1>added, <2>1, AliasIs DEF FreeFor
  <2> HIDE DEF ports, a
  <2>3. Added(ports, a, port, u.ports)
    BY <2>1, <2>2, AddAliasOK
  <2>4. /\ PortsOK(u.ports) /\ DOMAIN u.ports = DOMAIN t.ports \cup {Alias(c, key)}
        /\ u.ports[Alias(c, key)] = port /\ \A b \in DOMAIN t.ports : u.ports[b] = t.ports[b]
    BY <2>3 DEF Added, ports, a
  <2> QED
    BY <2>4
<1>11. PortsOK(u.ports) /\ \A a \in DOMAIN t.ports : a \in DOMAIN u.ports /\ u.ports[a] = t.ports[a]
  <2>1. CASE c \notin OutChains
    BY <1>g, <2>1 DEF Good
  <2>2. CASE c \in OutChains
    BY <1>added, <2>2
  <2> QED
    BY <2>1, <2>2
<1>12. Good(u) /\ u.lists[c] = m /\ \A d \in Chains : d # c => u.lists[d] = t.lists[d]
  <2>1. \A d \in Chains : d # c => Ids(m) \cap Ids(t.lists[d]) = {}
    BY <1>2, <1>7
  <2>2. u.ids = (t.ids \ Ids(l)) \cup Ids(m)
    BY <1>2, <1>6, <1>7
  <2>3. u.subnet \subseteq known
    BY <1>g, <1>6 DEF Good
  <2>4. \A d \in Chains : d # c => Ids(m) \cap Ids(t.lists[d]) = {}
    BY <2>1
  <2>5. /\ DOMAIN u.lists = Chains /\ u.lists[c] = m /\ DOMAIN u = Fields /\ ListOK(RuleRec, m)
        /\ \A d \in Chains : d # c => u.lists[d] = t.lists[d]
    BY <1>6, <1>7, <1>g DEF Good, ListsOK
  <2>6. PortsOK(u.ports)
    BY <1>11
  <2>7. u.ids = (t.ids \ Ids(t.lists[c])) \cup Ids(m)
    BY <2>2 DEF l
  <2>8. Good(u)
    BY ONLY c \in Chains, <1>g, <1>10, <2>3, <2>4, <2>5, <2>6, <2>7, ListChanges
  <2> QED
    BY <2>5, <2>8
<1>13. c \in OutChains => /\ DOMAIN u.ports = DOMAIN t.ports \cup {Alias(c, key)}
                          /\ u.ports[Alias(c, key)] = port /\ VrfOf[c] \in t.subnet
  BY <1>added
<1>14. Owned(t) => Owned(u)
  <2> SUFFICES ASSUME Owned(t), NEW d \in OutChains, NEW q \in Recs(u.lists[d])
               PROVE  Alias(d, q.key) \in DOMAIN u.ports /\ u.ports[Alias(d, q.key)] = q.port
    BY DEF Owned
  <2>0. d \in Chains
    BY OutChainsAssumption
  <2>1. CASE q \in Recs(t.lists[d])
    BY <1>11, <2>1 DEF Owned
  <2>2. CASE d = c /\ q = r
    BY <1>1, <1>13, <2>2
  <2>3. q \in Recs(t.lists[d]) \/ (d = c /\ q = r)
    BY <1>8, <1>12, <2>0 DEF l
  <2> QED
    BY <2>1, <2>2, <2>3
<1>15. Released(t) => Released(u)
  <2> SUFFICES ASSUME Released(t), NEW d \in OutChains, NEW k \in Keys, Alias(d, k) \in DOMAIN u.ports
               PROVE  VrfOf[d] \in u.subnet /\ \E q \in Recs(u.lists[d]) : q.key = k
    BY DEF Released
  <2>0. d \in Chains
    BY OutChainsAssumption
  <2>1. CASE Alias(d, k) \in DOMAIN t.ports
    <3>1. VrfOf[d] \in t.subnet /\ \E q \in Recs(t.lists[d]) : q.key = k
      BY <2>1 DEF Released
    <3>2. Recs(t.lists[d]) \subseteq Recs(u.lists[d])
      BY <1>8, <1>12, <2>0 DEF l
    <3> QED
      BY <1>6, <3>1, <3>2
  <2>2. CASE d = c /\ k = key
    BY <1>1, <1>6, <1>8, <1>12, <1>13, <2>2
  <2>3. Alias(d, k) \in DOMAIN t.ports \/ (d = c /\ k = key)
    BY <1>13, AliasIs
  <2> QED
    BY <2>1, <2>2, <2>3
<1>16. Placed(t) => Placed(u)
  <2> SUFFICES ASSUME Placed(t), NEW d \in Chains
               PROVE  /\ Exists(d) => InPlace(u.lists[d], u.chain[d])
                      /\ ~Exists(d) => Len(u.lists[d].rules) = 0 /\ u.chain[d] = <<>>
    BY DEF Placed
  <2>1. CASE d # c
    BY <1>9, <1>12, <2>1 DEF Placed
  <2>2. CASE d = c
    <3>1. Exists(c)
      BY <1>6 DEF CanRun
    <3>2. InPlace(l, ch)
      BY <3>1 DEF Placed, l, ch
    <3>3. InPlace(m, InsertAt(ch, n + 1, SpecOf(r)))
      BY <1>1, <1>2, <1>5, <1>7, <3>2, InPlaceAfterInsert DEF n
    <3> QED
      BY <1>9, <1>12, <2>2, <3>1, <3>3
  <2> QED
    BY <2>1, <2>2
<1> QED
  BY <1>12, <1>14, <1>15, <1>16 DEF Keeps

(* What the part of insert_rule behind the allocation of the port leaves.  *)
LEMMA InsertWithPortIs ==
  ASSUME NEW s, DOMAIN s = Fields, NEW c \in Chains, DOMAIN s.lists = Chains,
         DOMAIN s.chain = Chains, NEW r, NEW x \in InsertWithPort(s, c, r)
  PROVE  \/ /\ x.ok = TRUE /\ CanInsert(s.lists[c], r)
            /\ CanRun(c, InsertPos(s.lists[c], r) + 1, Len(s.chain[c]) + 1)
            /\ DOMAIN x.s = Fields /\ x.s.subnet = s.subnet /\ x.s.ports = s.ports
            /\ x.s.ids = s.ids \cup {r.id}
            /\ x.s.lists = [s.lists EXCEPT ![c] = Insert(s.lists[c], r)]
            /\ x.s.chain =
                 [s.chain EXCEPT ![c] = InsertAt(s.chain[c], InsertPos(s.lists[c], r) + 1, SpecOf(r))]
         \/ x.ok = FALSE /\ x.s \in ReleasePort(s, c, r.key)
<1> DEFINE lst == s.lists[c]
           pos == InsertPos(lst, r) + 1
           len == Len(s.chain[c]) + 1
           taken == [s EXCEPT !.ids = @ \cup {r.id}, !.lists[c] = Insert(lst, r),
                              !.chain[c] = InsertAt(@, pos, SpecOf(r))]
<1>1. \/ CanInsert(lst, r) /\ CanRun(c, pos, len) /\ x = Outcome(taken, TRUE)
      \/ \E y \in ReleasePort(s, c, r.key) : x = Outcome(y, FALSE)
  BY DEF InsertWithPort
<1>2. CASE CanInsert(lst, r) /\ CanRun(c, pos, len) /\ x = Outcome(taken, TRUE)
  <2>1. x.s = taken /\ x.ok = TRUE
    BY <1>2 DEF Outcome
  <2>2. /\ DOMAIN taken = Fields /\ taken.subnet = s.subnet /\ taken.ports = s.ports
        /\ taken.ids = s.ids \cup {r.id}
        /\ taken.lists = [s.lists EXCEPT ![c] = Insert(lst, r)]
        /\ taken.chain = [s.chain EXCEPT ![c] = InsertAt(s.chain[c], pos, SpecOf(r))]
    <3> HIDE DEF lst, pos
    <3> QED
      BY DEF Fields
  <2> HIDE DEF taken
  <2> QED
    BY <1>2, <2>1, <2>2
<1>3. CASE \E y \in ReleasePort(s, c, r.key) : x = Outcome(y, FALSE)
  BY <1>3 DEF Outcome
<1> QED
  BY <1>1, <1>2, <1>3

(* The port of a rule that iptables refuses is released at once, as the    *)
(* pair is there.                                                          *)
LEMMA ReleaseUndoesAllocate ==
  ASSUME NEW t, Good(t), NEW c \in OutChains, NEW key \in Keys,
         Alias(c, key) \notin DOMAIN t.ports, VrfOf[c] \in t.subnet,
         NEW p \in FreePort(t.ports),
         NEW s, DOMAIN s = Fields, s.lists = t.lists, s.ids = t.ids, s.subnet = t.subnet,
         s.chain = t.chain, s.ports = AddAlias(t.ports, Alias(c, key), p),
         NEW y \in ReleasePort(s, c, key)
  PROVE  /\ DOMAIN y = Fields /\ y.lists = t.lists /\ y.ids = t.ids /\ y.subnet = t.subnet
         /\ y.chain = t.chain /\ y.ports = t.ports
<1>1. PICK x \in VethIpGet(s, VrfOf[c]) :
        y = IF x.ok THEN [x.s EXCEPT !.ports = PopAlias(@, Alias(c, key))] ELSE x.s
  BY DEF ReleasePort
<1>2. x.ok /\ x.s = s
  BY VethIpGetIs DEF Good, ChainsOK
<1>3. y = [s EXCEPT !.ports = PopAlias(@, Alias(c, key))]
  BY <1>1, <1>2
<1>4. PopAlias(s.ports, Alias(c, key)) = t.ports
  <2>1. PortsOK(t.ports)
    BY DEF Good
  <2>2. PopAlias(AddAlias(t.ports, Alias(c, key), p), Alias(c, key)) = t.ports
    <3> DEFINE a == Alias(c, key)
               ports == t.ports
    <3>1. FreeFor(ports, a, p)
      BY <2>1, AliasIs DEF FreeFor
    <3> HIDE DEF a, ports
    <3>2. PopAlias(AddAlias(ports, a, p), a) = ports
      BY ONLY <3>1, AddAliasOK DEF Added
    <3> QED
      BY <3>2 DEF a, ports
  <2> QED
    BY <2>2
<1> QED
  BY <1>3, <1>4 DEF Fields

(* insert_rule: whatever fails, the ids are as they were.                  *)
LEMMA InsertRuleKeeps ==
  ASSUME NEW s, Keeps(s), known \subseteq netns, NEW c \in Chains, NEW key \in Keys,
         NEW i \in Nat \ {0}, i \notin s.ids, NEW x \in InsertRule(s, c, key, i)
  PROVE  Keeps(x.s) /\ (~x.ok => x.s.ids = s.ids)
<1>g. /\ Good(s) /\ DOMAIN s = Fields /\ DOMAIN s.lists = Chains /\ DOMAIN s.chain = Chains
      /\ s.subnet \subseteq known
  BY DEF Keeps, Good, ListsOK, ChainsOK
<1>1. CASE c \notin OutChains
  <2> DEFINE r == Rule(key, i, None)
  <2>1. x \in InsertWithPort(s, c, r)
    BY <1>1 DEF InsertRule
  <2>2. r.id = i /\ r.key = key
    BY DEF Rule
  <2>3. r = Rule(key, i, None) /\ None \in Ports \cup {None}
    OBVIOUS
  <2> HIDE DEF r
  <2>4. CASE x.ok = FALSE /\ x.s \in ReleasePort(s, c, r.key)
    <3>1. x.s = s
      BY <1>1, <2>4 DEF ReleasePort
    <3> QED
      BY <3>1
  <2>5. CASE ~(x.ok = FALSE /\ x.s \in ReleasePort(s, c, r.key))
    <3>1. /\ x.ok = TRUE /\ CanInsert(s.lists[c], r)
          /\ CanRun(c, InsertPos(s.lists[c], r) + 1, Len(s.chain[c]) + 1)
          /\ DOMAIN x.s = Fields /\ x.s.subnet = s.subnet /\ x.s.ports = s.ports
          /\ x.s.ids = s.ids \cup {r.id}
          /\ x.s.lists = [s.lists EXCEPT ![c] = Insert(s.lists[c], r)]
          /\ x.s.chain =
               [s.chain EXCEPT ![c] = InsertAt(s.chain[c], InsertPos(s.lists[c], r) + 1, SpecOf(r))]
      BY <1>g, <2>1, <2>5, InsertWithPortIs
    <3>2. Keeps(x.s)
      BY <1>1, <2>2, <2>3, <3>1, RuleTaken
    <3> QED
      BY <3>1, <3>2
  <2> QED
    BY <2>4, <2>5
<1>2. CASE c \in OutChains
  <2>1. PICK a \in AllocatePort(s, c, key) :
          x \in IF a.port = None THEN {Outcome(a.s, FALSE)} ELSE InsertWithPort(a.s, c, Rule(key, i, a.port))
    BY <1>2 DEF InsertRule
  <2> DEFINE v == VrfOf[c]
             r == Rule(key, i, a.port)
  <2>p. PICK t : Prepared(s, t, VrfOf[c]) /\ Allocated(t, c, key, a)
    BY <1>g, <1>2, AllocatePortIs
  <2>2. /\ Prepared(s, t, v)
        /\ \/ a.port = None /\ a.s = t
           \/ /\ Alias(c, key) \notin DOMAIN t.ports /\ v \in t.subnet
              /\ a.port \in FreePort(t.ports)
              /\ DOMAIN a.s = Fields
              /\ a.s.lists = t.lists /\ a.s.ids = t.ids /\ a.s.subnet = t.subnet
              /\ a.s.chain = t.chain
              /\ a.s.ports = AddAlias(t.ports, Alias(c, key), a.port)
    BY <2>p DEF Allocated
  <2>3. Keeps(t) /\ t.ids = s.ids
    BY <2>2, SetupKeeps DEF Prepared
  <2>4. Good(t) /\ DOMAIN t.lists = Chains /\ DOMAIN t.chain = Chains
    BY <2>3 DEF Keeps, Good, ListsOK, ChainsOK
  <2>5. CASE a.port = None
    <3>1. x = Outcome(a.s, FALSE)
      BY <2>1, <2>5
    <3>2. x.s = a.s /\ x.ok = FALSE
      BY <3>1 DEF Outcome
    <3>3. a.s = t
      <4>1. a.port \notin Ports
        BY <2>5, PortNotNone
      <4> QED
        BY <2>2, <4>1 DEF FreePort
    <3> QED
      BY <2>3, <3>2, <3>3
  <2>6. CASE a.port # None
    <3>1. /\ Alias(c, key) \notin DOMAIN t.ports /\ v \in t.subnet
          /\ a.port \in FreePort(t.ports)
          /\ DOMAIN a.s = Fields
          /\ a.s.lists = t.lists /\ a.s.ids = t.ids /\ a.s.subnet = t.subnet
          /\ a.s.chain = t.chain
          /\ a.s.ports = AddAlias(t.ports, Alias(c, key), a.port)
      BY <2>2, <2>6
    <3>2. x \in InsertWithPort(a.s, c, r)
      BY <2>1, <2>6
    <3>3. r.id = i /\ r.key = key /\ r = Rule(key, i, a.port)
      BY DEF Rule
    <3>4. a.port \in Ports \cup {None}
      BY <3>1 DEF FreePort
    <3> HIDE DEF r
    <3>5. CASE x.ok = FALSE /\ x.s \in ReleasePort(a.s, c, r.key)
      <4>1. /\ DOMAIN x.s = Fields /\ x.s.lists = t.lists /\ x.s.ids = t.ids
            /\ x.s.subnet = t.subnet /\ x.s.chain = t.chain /\ x.s.ports = t.ports
        BY <1>2, <2>4, <3>1, <3>3, <3>5, ReleaseUndoesAllocate
      <4>2. Keeps(x.s)
        BY <2>3, <4>1, SameFields
      <4> QED
        BY <2>3, <4>1, <4>2
    <3>6. CASE ~(x.ok = FALSE /\ x.s \in ReleasePort(a.s, c, r.key))
      <4>1. /\ x.ok = TRUE /\ CanInsert(a.s.lists[c], r)
            /\ CanRun(c, InsertPos(a.s.lists[c], r) + 1, Len(a.s.chain[c]) + 1)
            /\ DOMAIN x.s = Fields /\ x.s.subnet = a.s.subnet /\ x.s.ports = a.s.ports
            /\ x.s.ids = a.s.ids \cup {r.id}
            /\ x.s.lists = [a.s.lists EXCEPT ![c] = Insert(a.s.lists[c], r)]
            /\ x.s.chain =
                 [a.s.chain EXCEPT ![c] =
                    InsertAt(a.s.chain[c], InsertPos(a.s.lists[c], r) + 1, SpecOf(r))]
        BY <2>4, <3>1, <3>2, <3>6, InsertWithPortIs
      <4>2. Keeps(x.s)
        BY <1>2, <2>3, <3>1, <3>3, <3>4, <4>1, RuleTaken
      <4> QED
        BY <4>1, <4>2
    <3> QED
      BY <3>5, <3>6
  <2> QED
    BY <2>5, <2>6
<1> QED
  BY <1>1, <1>2

-----------------------------------------------------------------------------
(* The position that a delete names is the rule's own, if all rules are in *)
(* place, and the others stay so.                                          *)
LEMMA InPlaceAfterRemove ==
  ASSUME NEW l, ListOK(RuleRec, l), NEW ch \in Seq(Entry), InPlace(l, ch),
         NEW n \in 0 .. Len(l.rules) - 1, NEW m, Len(m.rules) = Len(l.rules) - 1,
         \A k \in 1 .. Len(l.rules) - 1 :
           m.rules[k] = IF k < n + 1 THEN l.rules[k] ELSE l.rules[k + 1]
  PROVE  InPlace(m, RemoveAt(ch, n + 1))
<1> DEFINE len == Len(l.rules)
           p == n + 1
           d == RemoveAt(ch, p)
           E == Entry
<1>1. len \in Nat /\ len <= Len(ch) /\ Len(ch) \in Nat /\ n \in Nat /\ n <= len - 1
  BY RecsOf, LenProperties DEF InPlace
<1>2. ch \in Seq(E) /\ p \in 1 .. Len(ch)
  BY <1>1
<1> HIDE DEF len, p, E
<1>3. /\ Len(d) = Len(ch) - 1
      /\ \A k \in 1 .. Len(ch) - 1 : d[k] = IF k < p THEN ch[k] ELSE ch[k + 1]
  BY ONLY <1>2, RemoveAtIs DEF d
<1> HIDE DEF d
<1>4. /\ \A k \in 1 .. len : ch[k] = SpecOf(l.rules[k])
      /\ \A k \in 1 .. Len(ch) : k > len => ch[k] = Foreign
  BY DEF InPlace, len
<1>5. /\ Len(m.rules) = len - 1 /\ p = n + 1
      /\ \A k \in 1 .. len - 1 : m.rules[k] = IF k < p THEN l.rules[k] ELSE l.rules[k + 1]
  BY DEF len, p
<1>6. ASSUME NEW k \in 1 .. len - 1 PROVE d[k] = SpecOf(m.rules[k])
  <2>1. k \in 1 .. Len(ch) - 1 /\ k \in 1 .. len /\ k + 1 \in 1 .. len
    BY <1>1
  <2> QED
    BY <1>3, <1>4, <1>5, <2>1
<1>7. ASSUME NEW k \in 1 .. Len(d), k > len - 1 PROVE d[k] = Foreign
  <2>1. k \in 1 .. Len(ch) - 1 /\ k + 1 \in 1 .. Len(ch) /\ k + 1 > len /\ ~(k < p)
    BY <1>1, <1>3, <1>5, <1>7
  <2> QED
    BY <1>3, <1>4, <2>1
<1>8. len - 1 <= Len(d)
  BY <1>1, <1>3
<1>9. InPlace(m, d)
  BY <1>5, <1>6, <1>7, <1>8 DEF InPlace
<1> QED
  BY <1>9 DEF d, p

(* What iptables can leave of the chains.                                  *)
LEMMA DeleteResultsAre ==
  ASSUME NEW s, Good(s), NEW c \in Chains, NEW n \in 0 .. Len(s.lists[c].rules) - 1,
         NEW ch \in DeleteResults(s.chain, c, n)
  PROVE  /\ DOMAIN ch = Chains /\ \A d \in Chains : ch[d] \in Seq(Entry)
         /\ \A d \in Chains : d # c => ch[d] = s.chain[d]
         /\ modes \cap {"delete", "show", "vrf"} = {} /\ Exists(c) => ch[c] = RemoveAt(s.chain[c], n + 1)
<1>1. \/ (~Exists(c) \/ "show" \in modes) /\ ch = s.chain
      \/ n + 1 <= Len(s.chain[c]) /\ ch = [s.chain EXCEPT ![c] = RemoveAt(@, n + 1)]
  BY DEF DeleteResults, CanRun
<1>2. DOMAIN s.chain = Chains /\ \A d \in Chains : s.chain[d] \in Seq(Entry)
  BY DEF Good, ChainsOK
<1>3. CASE (~Exists(c) \/ "show" \in modes) /\ ch = s.chain
  BY <1>2, <1>3
<1>4. CASE n + 1 <= Len(s.chain[c]) /\ ch = [s.chain EXCEPT ![c] = RemoveAt(@, n + 1)]
  <2> DEFINE q == s.chain[c]
             p == n + 1
             E == Entry
  <2>1. Len(s.lists[c].rules) \in Nat /\ Len(q) \in Nat
    BY <1>2, RecsOf, LenProperties DEF Good, ListsOK
  <2>2. q \in Seq(E) /\ p \in 1 .. Len(q)
    BY <1>2, <1>4, <2>1
  <2>3. DOMAIN ch = Chains /\ ch[c] = RemoveAt(q, p) /\ \A d \in Chains : d # c => ch[d] = s.chain[d]
    BY <1>2, <1>4
  <2> HIDE DEF q, p, E
  <2>4. RemoveAt(q, p) \in Seq(E)
    BY ONLY <2>2, RemoveAtIs
  <2> QED
    BY <1>2, <2>3, <2>4 DEF q, p, E
<1> QED
  BY <1>1, <1>3, <1>4

(* The state g after the rule is gone, before its port is released.        *)
AfterRemoval(s, c, n, ch, g) ==
  /\ DOMAIN g = Fields /\ DOMAIN g.lists = Chains
  /\ g.lists[c] = RemovePos(s.lists[c], n)
  /\ \A d \in Chains : d # c => g.lists[d] = s.lists[d]
  /\ g.ids = s.ids \ {s.lists[c].rules[n + 1].id}
  /\ g.chain = ch /\ g.ports = s.ports /\ g.subnet = s.subnet

(* Everything is as it should be but the port.                             *)
LEMMA RuleGone ==
  ASSUME NEW s, Good(s), NEW c \in Chains, NEW n \in 0 .. Len(s.lists[c].rules) - 1,
         NEW ch \in DeleteResults(s.chain, c, n), NEW g, AfterRemoval(s, c, n, ch, g)
  PROVE  /\ Good(g)
         /\ s.lists[c].rules[n + 1] \in Recs(s.lists[c])
         /\ Recs(g.lists[c]) = Recs(s.lists[c]) \ {s.lists[c].rules[n + 1]}
         /\ \A d \in Chains : d # c => g.lists[d] = s.lists[d]
         /\ Owned(s) => Owned(g)
         /\ modes \cap {"delete", "show", "vrf"} = {} /\ Placed(s) => Placed(g)
<1> DEFINE r == s.lists[c].rules[n + 1]
<1>0. /\ DOMAIN g = Fields /\ DOMAIN g.lists = Chains
      /\ g.lists[c] = RemovePos(s.lists[c], n)
      /\ \A d \in Chains : d # c => g.lists[d] = s.lists[d]
      /\ g.ids = s.ids \ {r.id}
      /\ g.chain = ch /\ g.ports = s.ports /\ g.subnet = s.subnet
      /\ r = s.lists[c].rules[n + 1]
  BY DEF AfterRemoval
<1> HIDE DEF r
<1> DEFINE l == s.lists[c]
           m == RemovePos(l, n)
<1>1. /\ ListOK(RuleRec, l) /\ Ids(l) \subseteq s.ids
      /\ \A d \in Chains : d # c => Ids(l) \cap Ids(s.lists[d]) = {}
  BY IdsApart
<1>2. DOMAIN g.lists = Chains /\ g.lists[c] = m /\ \A d \in Chains : d # c => g.lists[d] = s.lists[d]
  BY <1>0 DEF Good, ListsOK
<1>3. n \in 0 .. Len(l.rules) - 1 /\ r = l.rules[n + 1]
  BY <1>0
<1> HIDE DEF l, m
<1>4. /\ ListOK(RuleRec, m) /\ Ids(m) = Ids(l) \ {r.id}
      /\ Len(m.rules) = Len(l.rules) - 1
      /\ \A k \in 1 .. Len(l.rules) - 1 :
           m.rules[k] = IF k < n + 1 THEN l.rules[k] ELSE l.rules[k + 1]
  BY <1>1, <1>3, RemoveMovesUp DEF m
<1>5. r \in Recs(l) /\ Recs(m) = Recs(l) \ {r}
  BY <1>1, <1>3, RecsOfRemove DEF m
<1>6. /\ DOMAIN ch = Chains /\ \A d \in Chains : ch[d] \in Seq(Entry)
      /\ \A d \in Chains : d # c => ch[d] = s.chain[d]
      /\ modes \cap {"delete", "show", "vrf"} = {} /\ Exists(c) => ch[c] = RemoveAt(s.chain[c], n + 1)
  BY DeleteResultsAre
<1>7. Good(g)
  <2>1. r.id \in Ids(l)
    BY <1>1, <1>5, RecsOf
  <2>2. g.ids = (s.ids \ Ids(s.lists[c])) \cup Ids(m)
    BY <1>0, <1>1, <1>4, <2>1 DEF l
  <2>3. ChainsOK(g) /\ PortsOK(g.ports) /\ g.subnet \subseteq known
    BY <1>0, <1>6 DEF ChainsOK, Good
  <2>4. \A d \in Chains : d # c => Ids(m) \cap Ids(s.lists[d]) = {}
    BY <1>1, <1>4
  <2>5. Good(s) /\ c \in Chains /\ DOMAIN g = Fields
    BY <1>0
  <2> QED
    BY ONLY <1>2, <1>4, <2>2, <2>3, <2>4, <2>5, ListChanges
<1>8. Owned(s) => Owned(g)
  <2>1. \A d \in OutChains : Recs(g.lists[d]) \subseteq Recs(s.lists[d])
    BY <1>2, <1>5, OutChainsAssumption DEF l
  <2> QED
    BY <1>0, <2>1 DEF Owned
<1>9. ASSUME modes \cap {"delete", "show", "vrf"} = {}, Placed(s) PROVE Placed(g)
  <2> SUFFICES ASSUME NEW d \in Chains
               PROVE  /\ Exists(d) => InPlace(g.lists[d], g.chain[d])
                      /\ ~Exists(d) => Len(g.lists[d].rules) = 0 /\ g.chain[d] = <<>>
    BY DEF Placed
  <2>1. CASE d # c
    BY <1>0, <1>2, <1>6, <1>9, <2>1 DEF Placed
  <2>2. CASE d = c
    <3>0. Len(l.rules) \in Nat
      BY <1>1, RecsOf
    <3>1. Exists(c)
      <4>1. Len(l.rules) # 0
        BY <1>3, <3>0
      <4> QED
        BY <1>9, <4>1 DEF Placed, l
    <3>2. InPlace(l, s.chain[c]) /\ s.chain[c] \in Seq(Entry)
      BY <1>9, <3>1 DEF Placed, l, Good, ChainsOK
    <3>3. InPlace(m, RemoveAt(s.chain[c], n + 1))
      BY <1>1, <1>3, <1>4, <3>2, InPlaceAfterRemove
    <3>4. g.chain[c] = RemoveAt(s.chain[c], n + 1)
      BY <1>0, <1>6, <1>9, <3>1
    <3> QED
      BY <1>2, <2>2, <3>1, <3>3, <3>4
  <2> QED
    BY <2>1, <2>2
<1> QED
  BY <1>0, <1>2, <1>5, <1>7, <1>8, <1>9 DEF l

(* And after it: where ports belong to rules, as they do unless VRFs are   *)
(* deleted or rules updated, the pair is there and the port is released.   *)
LEMMA PortGone ==
  ASSUME NEW s, Keeps(s), known \subseteq netns, NEW c \in Chains,
         NEW r \in Recs(s.lists[c]), NEW g, Good(g), "update" \notin modes => Owned(g),
         Recs(g.lists[c]) = Recs(s.lists[c]) \ {r},
         \A d \in Chains : d # c => g.lists[d] = s.lists[d],
         modes \cap {"delete", "show", "vrf"} = {} => Placed(g),
         g.ports = s.ports, g.subnet = s.subnet, NEW y \in ReleasePort(g, c, r.key)
  PROVE  Keeps(y) /\ y.ids = g.ids
<1>0. /\ DOMAIN g = Fields /\ DOMAIN g.chain = Chains /\ g.subnet \subseteq known
      /\ OutChains \subseteq Chains /\ Good(s)
  BY OutChainsAssumption DEF Good, ChainsOK, Keeps
<1>r. ListOK(RuleRec, s.lists[c]) /\ r.key \in Keys
  <2>1. ListOK(RuleRec, s.lists[c])
    BY <1>0, IdsApart
  <2>2. r \in RuleRec
    BY <2>1, RecsOf
  <2> QED
    BY <2>1, <2>2 DEF RuleRec
<1>k. \A q \in Recs(s.lists[c]) : q.key = r.key => q = r
  BY <1>r, RecsOf
<1>1. CASE c \notin OutChains
  <2>1. y = g
    BY <1>1 DEF ReleasePort
  <2>2. Released(s) => Released(g)
    <3>1. \A d \in OutChains : g.lists[d] = s.lists[d]
      BY <1>0, <1>1
    <3> QED
      BY <3>1 DEF Released
  <2> QED
    BY <2>1, <2>2 DEF Keeps
<1>2. CASE c \in OutChains
  <2> DEFINE v == VrfOf[c]
             al == Alias(c, r.key)
  <2>1. PICK x \in VethIpGet(g, v) : y = IF x.ok THEN [x.s EXCEPT !.ports = PopAlias(@, al)] ELSE x.s
    BY <1>2 DEF ReleasePort
  <2> DEFINE t == x.s
  <2>2. /\ Prepared(g, t, v)
        /\ v \in g.subnet => x.ok /\ t = g
    BY <1>0, VethIpGetIs
  <2>3. Good(t) /\ (Owned(g) => Owned(t)) /\ (Placed(g) => Placed(t))
    <3>1. Good(g) /\ Prepared(g, t, v) /\ known \subseteq netns
      BY <2>2
    <3> HIDE DEF t, v
    <3>2. Good(t)
      BY ONLY <3>1, SetupKeepsGood
    <3>3. Placed(g) => Placed(t)
      BY ONLY <3>1, SetupKeepsPlaced
    <3>4. Owned(g) => Owned(t)
      BY <3>1 DEF Owned, Prepared
    <3> QED
      BY <3>2, <3>3, <3>4
  <2>4. t.lists = g.lists /\ t.ids = g.ids /\ t.ports = s.ports /\ DOMAIN t = Fields
    BY <2>2 DEF Prepared
  <2>5. y = IF x.ok THEN [t EXCEPT !.ports = PopAlias(@, al)] ELSE t
    BY <2>1
  <2> HIDE DEF t, al
  <2>6. /\ DOMAIN y = Fields /\ y.lists = t.lists /\ y.ids = t.ids /\ y.subnet = t.subnet
        /\ y.chain = t.chain /\ (y.ports = t.ports \/ y.ports = PopAlias(t.ports, al))
        /\ x.ok => y.ports = PopAlias(t.ports, al)
    BY <2>4, <2>5 DEF Fields
  <2>7. /\ PortsOK(y.ports) /\ DOMAIN t.ports \ {al} \subseteq DOMAIN y.ports
        /\ DOMAIN y.ports \subseteq DOMAIN t.ports
        /\ \A b \in DOMAIN t.ports \ {al} : y.ports[b] = t.ports[b]
        /\ x.ok => al \notin DOMAIN y.ports
    <3> DEFINE ports == t.ports
               pop == PopAlias(ports, al)
    <3>1. PortsOK(ports)
      BY <2>3 DEF Good
    <3> HIDE DEF ports, pop
    <3>2. PortsOK(pop) /\ DOMAIN pop = DOMAIN ports \ {al} /\ \A b \in DOMAIN ports \ {al} : pop[b] = ports[b]
      BY ONLY <3>1, PopAliasOK DEF pop
    <3>3. (y.ports = ports \/ y.ports = pop) /\ (x.ok => y.ports = pop)
      BY <2>6 DEF ports, pop
    <3>4. /\ PortsOK(y.ports) /\ DOMAIN ports \ {al} \subseteq DOMAIN y.ports
          /\ DOMAIN y.ports \subseteq DOMAIN ports
          /\ \A b \in DOMAIN ports \ {al} : y.ports[b] = ports[b]
          /\ x.ok => al \notin DOMAIN y.ports
      BY <3>1, <3>2, <3>3
    <3> QED
      BY <3>4 DEF ports
  <2>8. Good(y)
    <3>1. ListsOK(y)
      BY <2>3, <2>6 DEF Good, ListsOK
    <3>2. IdsOK(y)
      BY <2>3, <2>6 DEF Good, IdsOK
    <3>3. ChainsOK(y) /\ y.subnet \subseteq known
      BY <2>3, <2>6 DEF Good, ChainsOK
    <3> QED
      BY <2>6, <2>7, <3>1, <3>2, <3>3 DEF Good
  <2>9. Placed(t) => Placed(y)
    BY <2>6 DEF Placed
  <2>10. ASSUME Owned(t) PROVE Owned(y)
    <3> SUFFICES ASSUME NEW d \in OutChains, NEW q \in Recs(y.lists[d])
                 PROVE  Alias(d, q.key) \in DOMAIN y.ports /\ y.ports[Alias(d, q.key)] = q.port
      BY DEF Owned
    <3>1. q \in Recs(g.lists[d])
      BY <2>4, <2>6
    <3>2. Alias(d, q.key) \in DOMAIN t.ports /\ t.ports[Alias(d, q.key)] = q.port
      BY <2>4, <2>10, <3>1 DEF Owned
    <3>3. Alias(d, q.key) # al
      <4>1. d = c => q.key # r.key
        BY <1>k, <3>1
      <4> QED
        BY <4>1, AliasIs DEF al
    <3> QED
      BY <2>7, <3>2, <3>3
  <2>11. ASSUME modes \cap {"vrf", "update"} = {} PROVE Released(y)
    <3>1. Owned(s) /\ Released(s)
      BY <2>11 DEF Keeps
    <3>2. Alias(c, r.key) \in DOMAIN s.ports
      BY <1>2, <3>1 DEF Owned
    <3>3. v \in g.subnet
      BY <1>2, <1>r, <3>1, <3>2 DEF Released
    <3>4. x.ok /\ t = g
      BY <2>2, <3>3 DEF t
    <3> SUFFICES ASSUME NEW d \in OutChains, NEW k \in Keys, Alias(d, k) \in DOMAIN y.ports
                 PROVE  VrfOf[d] \in y.subnet /\ \E q \in Recs(y.lists[d]) : q.key = k
      BY DEF Released
    <3>5. Alias(d, k) \in DOMAIN s.ports /\ Alias(d, k) # al
      BY <2>4, <2>7, <3>4
    <3>6. VrfOf[d] \in s.subnet /\ \E q \in Recs(s.lists[d]) : q.key = k
      BY <3>1, <3>5 DEF Released
    <3>7. d # c \/ k # r.key
      BY <3>5 DEF al
    <3>8. \E q \in Recs(g.lists[d]) : q.key = k
      BY <1>0, <3>6, <3>7
    <3> QED
      BY <2>4, <2>6, <3>4, <3>6, <3>8
  <2> QED
    BY <2>3, <2>4, <2>6, <2>8, <2>9, <2>10, <2>11 DEF Keeps
<1> QED
  BY <1>1, <1>2

(* A rule that iptables does not delete goes back to the end of the list,  *)
(* which is out of place only where deletes fail.                          *)
LEMMA PutBackKeeps ==
  ASSUME NEW s, Keeps(s), NEW c \in Chains, NEW n \in 0 .. Len(s.lists[c].rules) - 1,
         DeleteCanFail(s.chain, c, n),
         NEW t, DOMAIN t = Fields,
         t.lists = [s.lists EXCEPT ![c] = Insert(RemovePos(s.lists[c], n), s.lists[c].rules[n + 1])],
         t.ids = s.ids, t.ports = s.ports, t.subnet = s.subnet, t.chain = s.chain
  PROVE  Keeps(t)
<1> DEFINE l == s.lists[c]
           r == l.rules[n + 1]
           rest == RemovePos(l, n)
           m == Insert(rest, r)
<1>g. Good(s)
  BY DEF Keeps
<1>1. /\ ListOK(RuleRec, l) /\ Ids(l) \subseteq s.ids
      /\ \A d \in Chains : d # c => Ids(l) \cap Ids(s.lists[d]) = {}
  BY <1>g, IdsApart
<1>2. DOMAIN t.lists = Chains /\ t.lists[c] = m /\ \A d \in Chains : d # c => t.lists[d] = s.lists[d]
  BY <1>g DEF Good, ListsOK
<1>3. n \in 0 .. Len(l.rules) - 1
  OBVIOUS
<1> HIDE DEF l, rest, m
<1>4. ListOK(RuleRec, rest) /\ Ids(rest) = Ids(l) \ {r.id}
  BY <1>1, <1>3, RemoveMovesUp DEF rest
<1>5. r \in Recs(l) /\ Recs(rest) = Recs(l) \ {r}
  BY <1>1, <1>3, RecsOfRemove DEF rest
<1> HIDE DEF r
<1>6. r \in RuleRec /\ r.id \in Ids(l)
  BY <1>1, <1>5, RecsOf
<1>7. \A k \in 1 .. Len(rest.rules) : rest.rules[k].key # r.key
  <2>1. \A q \in Recs(l) : q.key = r.key => q = r
    BY <1>1, <1>5, RecsOf
  <2>2. \A k \in 1 .. Len(rest.rules) : rest.rules[k] \in Recs(rest)
    BY DEF Recs
  <2> QED
    BY <1>5, <2>1, <2>2
<1>8. r.id \notin Ids(rest)
  BY <1>4
<1>9. ListOK(RuleRec, m) /\ Ids(m) = Ids(rest) \cup {r.id} /\ Recs(m) = Recs(rest) \cup {r}
  BY <1>4, <1>6, <1>7, <1>8, InsertGoesLast, RecsOfInsert DEF m
<1>10. Ids(m) = Ids(l) /\ Recs(m) = Recs(l)
  BY <1>4, <1>5, <1>6, <1>9
<1>11. Good(t)
  <2>1. Good(s) /\ c \in Chains /\ DOMAIN t = Fields
    BY <1>g
  <2>2. \A d \in Chains : d # c => Ids(m) \cap Ids(s.lists[d]) = {}
    BY <1>1, <1>10
  <2>3. t.ids = (s.ids \ Ids(s.lists[c])) \cup Ids(m)
    BY <1>1, <1>10 DEF l
  <2>4. PortsOK(t.ports) /\ ChainsOK(t) /\ t.subnet \subseteq known
    BY <1>g DEF Good, ChainsOK
  <2> QED
    BY ONLY <1>2, <1>9, <2>1, <2>2, <2>3, <2>4, ListChanges
<1>12. \A d \in OutChains : Recs(t.lists[d]) = Recs(s.lists[d])
  BY <1>2, <1>10, OutChainsAssumption DEF l
<1>13. (Owned(s) => Owned(t)) /\ (Released(s) => Released(t))
  BY <1>12 DEF Owned, Released
<1>14. ASSUME modes \cap {"delete", "show", "vrf"} = {} PROVE FALSE
  <2>1. Exists(c) /\ ~CanRun(c, n + 1, Len(s.chain[c]))
    BY <1>14 DEF DeleteCanFail
  <2>2. Len(l.rules) <= Len(s.chain[c])
    BY <1>14, <2>1 DEF Keeps, Placed, InPlace, l
  <2>3. Len(l.rules) \in Nat /\ Len(s.chain[c]) \in Nat
    BY <1>1, <1>g, RecsOf, LenProperties DEF Good, ChainsOK
  <2>4. n + 1 <= Len(s.chain[c])
    BY <1>3, <2>2, <2>3
  <2> QED
    BY <2>1, <2>4 DEF CanRun
<1> QED
  BY <1>11, <1>13, <1>14 DEF Keeps

(* delete_rule and delete_rule_by_id.                                      *)
LEMMA DeletePosKeeps ==
  ASSUME NEW s, Keeps(s), known \subseteq netns, NEW c \in Chains,
         NEW n \in 0 .. Len(s.lists[c].rules) - 1, NEW x \in DeletePos(s, c, n)
  PROVE  Keeps(x.s) /\ (x.ok => x.s.ids = s.ids \ {s.lists[c].rules[n + 1].id})
<1> DEFINE r == s.lists[c].rules[n + 1]
           rest == RemovePos(s.lists[c], n)
<1>g. Good(s) /\ DOMAIN s = Fields /\ DOMAIN s.lists = Chains
  BY DEF Keeps, Good, ListsOK
<1>1. \/ DeleteCanFail(s.chain, c, n) /\ x = Outcome(PutBack(s, c, n), FALSE)
      \/ \E ch \in DeleteResults(s.chain, c, n) :
           \E y \in ReleasePort(WithoutRule(s, c, n, ch), c, r.key) : x = Outcome(y, TRUE)
  BY DEF DeletePos
<1>2. CASE DeleteCanFail(s.chain, c, n) /\ x = Outcome(PutBack(s, c, n), FALSE)
  <2> DEFINE kept == PutBack(s, c, n)
  <2>1. /\ DOMAIN kept = Fields /\ kept.lists = [s.lists EXCEPT ![c] = Insert(rest, r)]
        /\ kept.ids = s.ids /\ kept.ports = s.ports /\ kept.subnet = s.subnet /\ kept.chain = s.chain
    <3>1. kept = [s EXCEPT !.lists[c] = Insert(rest, r)]
      BY <1>g DEF PutBack
    <3> HIDE DEF rest, r, kept
    <3> QED
      BY <1>g, <3>1 DEF Fields
  <2>2. x.s = kept /\ x.ok = FALSE
    BY <1>2 DEF Outcome
  <2> HIDE DEF kept
  <2>3. Keeps(kept)
    BY <1>2, <2>1, PutBackKeeps
  <2> QED
    BY <2>2, <2>3
<1>3. ASSUME NEW ch \in DeleteResults(s.chain, c, n),
             NEW y \in ReleasePort(WithoutRule(s, c, n, ch), c, r.key), x = Outcome(y, TRUE)
      PROVE  Keeps(x.s) /\ (x.ok => x.s.ids = s.ids \ {r.id})
  <2> DEFINE g == WithoutRule(s, c, n, ch)
             ids == s.ids \ {r.id}
  <2>1. x.s = y /\ x.ok = TRUE
    BY <1>3 DEF Outcome
  <2>2. /\ DOMAIN g = Fields /\ DOMAIN g.lists = Chains /\ g.lists[c] = rest
        /\ \A d \in Chains : d # c => g.lists[d] = s.lists[d]
        /\ g.ids = ids /\ g.ports = s.ports /\ g.subnet = s.subnet /\ g.chain = ch
    <3>1. g = [s EXCEPT !.lists[c] = rest, !.ids = ids, !.chain = ch]
      BY <1>g DEF WithoutRule
    <3> HIDE DEF rest, r, g, ids
    <3> QED
      BY <1>g, <3>1 DEF Fields
  <2> HIDE DEF g
  <2>3. AfterRemoval(s, c, n, ch, g)
    BY <2>2 DEF AfterRemoval
  <2>4. /\ Good(g)
        /\ r \in Recs(s.lists[c]) /\ Recs(g.lists[c]) = Recs(s.lists[c]) \ {r}
        /\ \A d \in Chains : d # c => g.lists[d] = s.lists[d]
        /\ Owned(s) => Owned(g)
        /\ modes \cap {"delete", "show", "vrf"} = {} /\ Placed(s) => Placed(g)
    <3>1. /\ Good(s) /\ c \in Chains /\ n \in 0 .. Len(s.lists[c].rules) - 1
          /\ ch \in DeleteResults(s.chain, c, n) /\ AfterRemoval(s, c, n, ch, g)
      BY <1>g, <2>3
    <3>2. Good(g)
      BY ONLY <3>1, RuleGone
    <3>3. r \in Recs(s.lists[c]) /\ Recs(g.lists[c]) = Recs(s.lists[c]) \ {r}
      <4>1. ListOK(RuleRec, s.lists[c])
        BY <1>g, IdsApart
      <4> QED
        BY <2>2, <4>1, RecsOfRemove
    <3>4. \A d \in Chains : d # c => g.lists[d] = s.lists[d]
      BY <2>2
    <3>5. Owned(s) => Owned(g)
      BY ONLY <3>1, RuleGone
    <3>6. modes \cap {"delete", "show", "vrf"} = {} /\ Placed(s) => Placed(g)
      BY ONLY <3>1, RuleGone
    <3> QED
      BY <3>2, <3>3, <3>4, <3>5, <3>6
  <2>5. Keeps(s) /\ known \subseteq netns /\ c \in Chains
    OBVIOUS
  <2>6. y \in ReleasePort(g, c, r.key)
    BY DEF g
  <2>7. g.ids = s.ids \ {r.id}
    BY <2>2
  <2>8. /\ "update" \notin modes => Owned(g)
        /\ modes \cap {"delete", "show", "vrf"} = {} => Placed(g)
    BY <2>4 DEF Keeps
  <2> HIDE DEF r, rest, ids
  <2>9. Keeps(y) /\ y.ids = g.ids
    BY ONLY <2>2, <2>4, <2>5, <2>6, <2>8, PortGone
  <2> QED
    BY <2>1, <2>7, <2>9
<1> QED
  BY <1>1, <1>2, <1>3

(* replace_rule changes the rule and its specification at one place.       *)
LEMMA ReplaceRuleKeeps ==
  ASSUME NEW s, Keeps(s), "update" \in modes, NEW c \in Chains,
         NEW n \in 0 .. Len(s.lists[c].rules) - 1, NEW key \in Keys,
         \A k \in 1 .. Len(s.lists[c].rules) : s.lists[c].rules[k].key # key,
         NEW x \in ReplaceRule(s, c, n, key)
  PROVE  Keeps(x.s)
<1> DEFINE l == s.lists[c]
           r == l.rules[n + 1]
           u == [r EXCEPT !.key = key]
           m == Replace(l, n, u)
           ch == s.chain[c]
           e == SpecOf(u)
           t == [s EXCEPT !.lists[c] = Replace(@, n, u), !.chain[c][n + 1] = e]
<1>g. Good(s) /\ DOMAIN s = Fields
  BY DEF Keeps, Good
<1>1. /\ ListOK(RuleRec, l) /\ Ids(l) \subseteq s.ids
      /\ \A d \in Chains : d # c => Ids(l) \cap Ids(s.lists[d]) = {}
  BY <1>g, IdsApart
<1>2. /\ Len(l.rules) \in Nat /\ n + 1 \in 1 .. Len(l.rules) /\ r \in RuleRec
      /\ n \in 0 .. Len(l.rules) - 1
  <2>1. Len(l.rules) \in Nat /\ Recs(l) \subseteq RuleRec
    BY <1>1, RecsOf
  <2>2. n + 1 \in 1 .. Len(l.rules)
    BY <2>1
  <2> QED
    BY <2>1, <2>2 DEF Recs
<1>3. CanRun(c, n + 1, Len(ch)) /\ x.s = t
  BY DEF ReplaceRule, Outcome
<1>4. u.id = r.id /\ u.seq = r.seq /\ u.key = key /\ u \in RuleRec
  <2> HIDE DEF r
  <2> QED
    BY <1>2 DEF RuleRec
<1>5. \A k \in 1 .. Len(l.rules) : Equal(l.rules[k], u) => k = n + 1
  BY <1>4 DEF Equal
<1>6. /\ DOMAIN s.lists = Chains /\ DOMAIN s.chain = Chains /\ ch \in Seq(Entry) /\ Len(ch) \in Nat
  BY <1>g, LenProperties DEF Good, ListsOK, ChainsOK
<1>7. /\ DOMAIN t = Fields /\ DOMAIN t.lists = Chains /\ t.lists[c] = m
      /\ \A d \in Chains : d # c => t.lists[d] = s.lists[d]
      /\ DOMAIN t.chain = Chains /\ t.chain[c] = [ch EXCEPT ![n + 1] = e]
      /\ \A d \in Chains : d # c => t.chain[d] = s.chain[d]
      /\ t.ids = s.ids /\ t.ports = s.ports /\ t.subnet = s.subnet
  <2> HIDE DEF u, e
  <2> QED
    BY <1>g, <1>6 DEF Fields
<1> HIDE DEF t
<1>8. n + 1 \in 1 .. Len(ch) /\ Exists(c)
  BY <1>2, <1>3, <1>6 DEF CanRun
<1>9. m.rules = [l.rules EXCEPT ![n + 1] = u] /\ ListOK(RuleRec, m) /\ Ids(m) = Ids(l)
  <2> DEFINE R == RuleRec
  <2>1. ListOK(R, l) /\ Replaces(R, l, n, u)
    BY <1>1, <1>2, <1>4, <1>5 DEF Replaces
  <2> HIDE DEF R, l, u
  <2>2. Replaced(R, l, n, u, m)
    BY ONLY <2>1, ReplaceKeeps
  <2> HIDE DEF m
  <2> QED
    BY <2>2 DEF Replaced, R
<1> HIDE DEF m
<1>10. l.rules \in Seq(RuleRec) /\ e \in Entry
  BY <1>1, <1>4, SpecIsEntry DEF ListOK
<1> HIDE DEF u, l, r, ch
<1>11. /\ Len(m.rules) = Len(l.rules)
       /\ \A k \in 1 .. Len(l.rules) : m.rules[k] = IF k = n + 1 THEN u ELSE l.rules[k]
  BY <1>2, <1>4, <1>9, <1>10, ExceptSeq
<1> HIDE DEF e
<1>12. /\ t.chain[c] \in Seq(Entry) /\ Len(t.chain[c]) = Len(ch)
       /\ \A k \in 1 .. Len(ch) : t.chain[c][k] = IF k = n + 1 THEN e ELSE ch[k]
  BY <1>6, <1>7, <1>8, <1>10, ExceptSeq
<1>13. Good(t)
  <2>1. Good(s) /\ c \in Chains /\ DOMAIN t = Fields /\ DOMAIN t.lists = Chains
    BY <1>g, <1>7
  <2>2. \A d \in Chains : d # c => Ids(m) \cap Ids(s.lists[d]) = {}
    BY <1>1, <1>9
  <2>3. t.ids = (s.ids \ Ids(s.lists[c])) \cup Ids(m)
    BY <1>1, <1>7, <1>9 DEF l
  <2>4. PortsOK(t.ports) /\ ChainsOK(t) /\ t.subnet \subseteq known
    BY <1>g, <1>7, <1>12 DEF Good, ChainsOK
  <2>5. t.lists[c] = m /\ ListOK(RuleRec, m) /\ \A d \in Chains : d # c => t.lists[d] = s.lists[d]
    BY <1>7, <1>9
  <2> QED
    BY ONLY <2>1, <2>2, <2>3, <2>4, <2>5, ListChanges
<1>14. Placed(s) => Placed(t)
  <2> SUFFICES ASSUME Placed(s), NEW d \in Chains
               PROVE  /\ Exists(d) => InPlace(t.lists[d], t.chain[d])
                      /\ ~Exists(d) => Len(t.lists[d].rules) = 0 /\ t.chain[d] = <<>>
    BY DEF Placed
  <2>1. CASE d # c
    BY <1>7, <2>1 DEF Placed
  <2>2. CASE d = c
    <3>1. InPlace(l, ch)
      BY <1>8 DEF Placed, l, ch
    <3> DEFINE q == t.chain[c]
    <3>2. Len(q) = Len(ch) /\ \A k \in 1 .. Len(ch) : q[k] = IF k = n + 1 THEN e ELSE ch[k]
      BY <1>12
    <3> HIDE DEF q
    <3>3. /\ Len(l.rules) <= Len(ch) /\ \A k \in 1 .. Len(l.rules) : ch[k] = SpecOf(l.rules[k])
          /\ \A k \in 1 .. Len(ch) : k > Len(l.rules) => ch[k] = Foreign
      BY <3>1 DEF InPlace
    <3>4. \A k \in 1 .. Len(l.rules) : k \in 1 .. Len(ch) /\ q[k] = SpecOf(m.rules[k])
      BY <1>2, <1>6, <1>11, <3>2, <3>3 DEF e
    <3>5. \A k \in 1 .. Len(ch) : k > Len(l.rules) => q[k] = Foreign
      <4>1. \A k \in 1 .. Len(ch) : k > Len(l.rules) => k # n + 1
        BY <1>2, <1>6
      <4> QED
        BY <3>2, <3>3, <4>1
    <3>6. InPlace(m, q)
      BY <1>11, <3>2, <3>3, <3>4, <3>5 DEF InPlace
    <3> QED
      BY <1>7, <1>8, <2>2, <3>6 DEF q
  <2> QED
    BY <2>1, <2>2
<1> QED
  BY <1>3, <1>13, <1>14 DEF Keeps

(* update_rule, with its fallback to the old rule.                         *)
LEMMA UpdateRuleKeeps ==
  ASSUME NEW s, Keeps(s), known \subseteq netns, "update" \in modes, NEW c \in Chains,
         NEW n \in 0 .. Len(s.lists[c].rules) - 1, NEW key \in Keys,
         \A k \in 1 .. Len(s.lists[c].rules) : s.lists[c].rules[k].key # key,
         NEW x \in UpdateRule(s, c, n, key)
  PROVE  Keeps(x.s)
<1> DEFINE r == s.lists[c].rules[n + 1]
<1>1. r \in RuleRec /\ r.key \in Keys /\ r.id \in Nat \ {0}
  <2>1. ListOK(RuleRec, s.lists[c])
    BY IdsApart DEF Keeps
  <2>2. Len(s.lists[c].rules) \in Nat /\ Recs(s.lists[c]) \subseteq RuleRec
    BY <2>1, RecsOf
  <2>3. r \in RuleRec
    BY <2>2 DEF Recs
  <2> QED
    BY <2>3 DEF RuleRec
<1>2. CASE key[2] = r.key[2]
  <2>1. x \in ReplaceRule(s, c, n, key)
    BY <1>2 DEF UpdateRule
  <2> QED
    BY <2>1, ReplaceRuleKeeps
<1>3. CASE key[2] # r.key[2]
  <2>1. PICK d \in DeletePos(s, c, n) :
          x \in IF ~d.ok THEN {d}
                ELSE UNION {IF y.ok THEN {y} ELSE InsertRule(y.s, c, r.key, r.id) :
                              y \in InsertRule(d.s, c, key, r.id)}
    BY <1>3 DEF UpdateRule
  <2>deleted. Keeps(d.s) /\ (d.ok => d.s.ids = s.ids \ {s.lists[c].rules[n + 1].id})
    BY ONLY Keeps(s), known \subseteq netns, c \in Chains,
            n \in 0 .. Len(s.lists[c].rules) - 1, d \in DeletePos(s, c, n), DeletePosKeeps
  <2>2. Keeps(d.s) /\ (d.ok => r.id \notin d.s.ids)
    BY <2>deleted
  <2> HIDE DEF r
  <2>3. CASE ~d.ok
    BY <2>1, <2>2, <2>3
  <2>4. CASE d.ok
    <3>1. PICK y \in InsertRule(d.s, c, key, r.id) :
            x \in IF y.ok THEN {y} ELSE InsertRule(y.s, c, r.key, r.id)
      BY <2>1, <2>4
    <3>2. Keeps(y.s) /\ (~y.ok => y.s.ids = d.s.ids)
      BY <1>1, <2>2, <2>4, InsertRuleKeeps
    <3>3. CASE y.ok
      BY <3>1, <3>2, <3>3
    <3>4. CASE ~y.ok
      <4>1. x \in InsertRule(y.s, c, r.key, r.id) /\ r.id \notin y.s.ids
        BY <2>2, <2>4, <3>1, <3>2, <3>4
      <4> QED
        BY <1>1, <3>2, <4>1, InsertRuleKeeps
    <3> QED
      BY <3>3, <3>4
  <2> QED
    BY <2>3, <2>4
<1> QED
  BY <1>2, <1>3

-----------------------------------------------------------------------------
(* The state that the methods of the cache start from.                     *)
LEMMA NowIs ==
  /\ DOMAIN Now = Fields
  /\ Now.lists = lists /\ Now.ids = rule_ids /\ Now.ports = svcs_map /\ Now.subnet = subnet
  /\ Now.chain = chain
BY DEF Now, Fields

(* What the invariant says of the lists.                                   *)
LEMMA ListsNow ==
  ASSUME IInv
  PROVE  /\ Good(Now) /\ Keeps(Now) /\ known \subseteq netns
         /\ \A c \in Chains : ListOK(RuleRec, lists[c])
         /\ rule_ids \subseteq Nat \ {0}
<1>1. Good(Now) /\ Keeps(Now) /\ known \subseteq netns
  BY DEF IInv, Keeps
<1>2. \A c \in Chains : ListOK(RuleRec, lists[c])
  BY <1>1, NowIs DEF Good, ListsOK
<1>3. \A c \in Chains : Ids(lists[c]) \subseteq Nat \ {0}
  BY <1>2, RecsOf
<1>4. rule_ids = UNION {Ids(lists[c]) : c \in Chains}
  BY <1>1, NowIs DEF Good, IdsOK
<1> QED
  BY <1>1, <1>2, <1>3, <1>4

(* A new id was free, and the lowest free one is positive.                 *)
LEMMA NewIdIs ==
  ASSUME rule_ids \subseteq Nat \ {0}, NEW asked \in RuleIds \cup {None}, NEW i \in NewIds(asked)
  PROVE  i \in Nat \ {0} /\ i \notin rule_ids
<1>1. CASE asked # None
  BY <1>1, OutRuleIdsAssumption DEF NewIds
<1>2. CASE asked = None
  <2>1. i \in {1} \cup {j + 1 : j \in rule_ids} /\ i \notin rule_ids
    BY <1>2 DEF NewIds
  <2>2. i = 1 \/ \E j \in rule_ids : i = j + 1
    BY <2>1
  <2>3. \A j \in rule_ids : j \in Nat /\ j + 1 \in Nat \ {0}
    OBVIOUS
  <2> QED
    BY <2>1, <2>2, <2>3
<1> QED
  BY <1>1, <1>2

(* process_vrf_outgoing_svcs_rule_add.                                     *)
LEMMA CreateKeeps ==
  ASSUME IInv, NEW c \in Chains, NEW key \in Keys, NEW asked \in RuleIds \cup {None},
         Create(c, key, asked), UNCHANGED modes
  PROVE  IInv'
<1>1. PICK i \in NewIds(asked) : \E x \in InsertRule(Now, c, key, i) : Becomes(x.s)
  BY DEF Create
<1>2. PICK x \in InsertRule(Now, c, key, i) : Becomes(x.s)
  BY <1>1
<1>3. i \in Nat \ {0} /\ i \notin Now.ids
  BY ListsNow, NewIdIs, NowIs
<1>4. Keeps(x.s)
  BY <1>3, ListsNow, InsertRuleKeeps
<1>5. UNCHANGED <<modes, known, netns>>
  BY DEF Create
<1> QED
  BY <1>2, <1>4, <1>5, BecomesKeeps

(* A delete of the rule at a position of the list.                         *)
LEMMA DeleteKeeps ==
  ASSUME IInv, NEW c \in Chains, NEW n \in 0 .. Len(lists[c].rules) - 1,
         NEW x \in DeletePos(Now, c, n), Becomes(x.s), UNCHANGED <<modes, known, netns>>
  PROVE  IInv'
<1>1. n \in 0 .. Len(Now.lists[c].rules) - 1
  BY NowIs
<1>2. Keeps(x.s)
  BY <1>1, ListsNow, DeletePosKeeps
<1> QED
  BY <1>2, BecomesKeeps

(* process_vrf_outgoing_svcs_rule_del, by key.                             *)
LEMMA DeleteByKeysKeeps ==
  ASSUME IInv, NEW c \in Chains, NEW key, NEW port, DeleteByKeys(c, key, port), UNCHANGED modes
  PROVE  IInv'
<1> DEFINE r == [key |-> key]
           n == IndexOf(lists[c], r)
<1>1. ListOK(RuleRec, lists[c]) /\ HasEqual(lists[c], r)
  BY ListsNow DEF DeleteByKeys, Matches
<1>2. PICK x \in DeletePos(Now, c, n) : Becomes(x.s)
  BY DEF DeleteByKeys
<1>3. UNCHANGED <<modes, known, netns>>
  BY DEF DeleteByKeys
<1> HIDE DEF r
<1>4. n \in 0 .. Len(lists[c].rules) - 1
  BY <1>1, IndexOfIs
<1> HIDE DEF n
<1> QED
  BY <1>2, <1>3, <1>4, DeleteKeeps

(* process_vrf_outgoing_svcs_rule_del, by id.                              *)
LEMMA DeleteByIdKeeps ==
  ASSUME IInv, NEW c \in Chains, NEW i, DeleteById(c, i), UNCHANGED modes
  PROVE  IInv'
<1> DEFINE n == lists[c].rule_id_map[i]
<1>1. ListOK(RuleRec, lists[c]) /\ i \in DOMAIN lists[c].rule_id_map
  BY ListsNow DEF DeleteById
<1>2. PICK x \in DeletePos(Now, c, n) : Becomes(x.s)
  BY DEF DeleteById
<1>3. UNCHANGED <<modes, known, netns>>
  BY DEF DeleteById
<1>4. n \in 0 .. Len(lists[c].rules) - 1
  BY <1>1, MappedRule
<1> HIDE DEF n
<1> QED
  BY <1>2, <1>3, <1>4, DeleteKeeps

(* process_vrf_outgoing_svcs_rule_set.                                     *)
LEMMA SetKeeps ==
  ASSUME IInv, NEW c \in Chains, NEW i, NEW key \in Keys, Set(c, i, key), UNCHANGED modes
  PROVE  IInv'
<1> DEFINE n == lists[c].rule_id_map[i]
<1>1. ListOK(RuleRec, lists[c]) /\ i \in DOMAIN lists[c].rule_id_map /\ "update" \in modes
  BY ListsNow DEF Set
<1>2. PICK x \in UpdateRule(Now, c, n, key) : Becomes(x.s)
  BY DEF Set
<1>3. UNCHANGED <<modes, known, netns>>
  BY DEF Set
<1>4. n \in 0 .. Len(lists[c].rules) - 1
  BY <1>1, MappedRule
<1>5. \A k \in 1 .. Len(lists[c].rules) : lists[c].rules[k].key # key
  <2>1. DOMAIN lists[c].rules = 1 .. Len(lists[c].rules)
    BY <1>1, RecsOf
  <2>2. ~HasEqual(lists[c], [key |-> key])
    BY DEF Set
  <2> QED
    BY <2>1, <2>2 DEF HasEqual, Equal
<1> HIDE DEF n
<1>6. Keeps(x.s)
  <2>1. /\ n \in 0 .. Len(Now.lists[c].rules) - 1
        /\ \A k \in 1 .. Len(Now.lists[c].rules) : Now.lists[c].rules[k].key # key
    BY <1>4, <1>5, NowIs
  <2> QED
    BY <1>1, <2>1, ListsNow, UpdateRuleKeeps
<1> QED
  BY <1>2, <1>3, <1>6, BecomesKeeps

(* clear_all_rules leaves rules of the chain in their order; where no      *)
(* delete fails and all rules are in place, it leaves those of others.     *)
LEMMA ClearResultsAre ==
  ASSUME NEW c, ListOK(RuleRec, lists[c]), NEW ch \in Seq(Entry), NEW m \in ClearResults(c, ch)
  PROVE  /\ m \in Seq(Entry)
         /\ ch = <<>> => m = <<>>
         /\ modes \cap {"delete", "show"} = {} /\ InPlace(lists[c], ch) => InPlace(EmptyList, m)
<1> DEFINE l == lists[c]
           specs == {SpecOf(r) : r \in Range(l.rules)}
           Gone(failed) == {k \in DOMAIN ch : /\ ch[k] \in specs \ failed
                                             /\ \A j \in 1 .. (k - 1) : ch[j] # ch[k]}
           Left(rest) == {[k \in DOMAIN f |-> ch[f[k]]] :
                            f \in {g \in [1 .. Cardinality(rest) -> rest] :
                                     \A j, k \in DOMAIN g : j < k => g[j] < g[k]}}
           Fails == IF modes \cap {"delete", "show"} = {} THEN {{}} ELSE SUBSET specs
<1>1. m \in UNION {Left(DOMAIN ch \ Gone(failed)) : failed \in Fails}
  BY DEF ClearResults
<1>2. PICK failed \in Fails : m \in Left(DOMAIN ch \ Gone(failed))
  <2> HIDE DEF Left, Fails, Gone
  <2> QED
    BY <1>1
<1> DEFINE rest == DOMAIN ch \ Gone(failed)
<1>3. PICK f \in [1 .. Cardinality(rest) -> rest] : m = [k \in DOMAIN f |-> ch[f[k]]]
  BY <1>2
<1>4. DOMAIN ch = 1 .. Len(ch) /\ Len(ch) \in Nat /\ \A k \in 1 .. Len(ch) : ch[k] \in Entry
  BY LenProperties, ElementOfSeq
<1>5. rest \subseteq 1 .. Len(ch)
  BY <1>4
<1>6. Cardinality(rest) \in Nat
  <2> HIDE DEF rest
  <2> QED
    <3>1. IsFiniteSet(1 .. Len(ch))
      BY <1>4, FS_Interval
    <3>2. IsFiniteSet(rest)
      BY <1>5, <3>1, FS_Subset
    <3> QED
      BY <3>2, FS_CardinalityType
<1>7. \A k \in rest : k \in 1 .. Len(ch) /\ (failed = {} /\ InPlace(l, ch) => ch[k] = Foreign)
  <2> SUFFICES ASSUME NEW k \in rest, failed = {}, InPlace(l, ch), k <= Len(l.rules)
               PROVE  FALSE
    <3> HIDE DEF rest
    <3>1. \A k \in 1 .. Len(ch) : k <= Len(l.rules) \/ k > Len(l.rules)
      BY RecsOf
    <3> QED
      BY <1>5, <3>1 DEF InPlace
  <2>1. /\ l.rules \in Seq(RuleRec) /\ DOMAIN l.rules = 1 .. Len(l.rules) /\ Len(l.rules) \in Nat
        /\ \A i, j \in 1 .. Len(l.rules) : l.rules[i].key = l.rules[j].key => i = j
    BY RecsOf
  <2>2. k \in 1 .. Len(ch) /\ k \in 1 .. Len(l.rules)
    BY <1>4, <1>5, <2>1
  <2>3. /\ ch[k] = SpecOf(l.rules[k])
        /\ \A j \in 1 .. k - 1 : j \in 1 .. Len(l.rules) /\ j # k /\ ch[j] = SpecOf(l.rules[j])
    BY <2>1, <2>2 DEF InPlace
  <2>4. \A j \in 1 .. k - 1 : ch[j] # ch[k]
    <3> SUFFICES ASSUME NEW j \in 1 .. k - 1, ch[j] = ch[k] PROVE FALSE
      OBVIOUS
    <3>1. j \in 1 .. Len(l.rules) /\ j # k /\ SpecOf(l.rules[j]) = SpecOf(l.rules[k])
      BY <2>3
    <3>2. l.rules[j].key = l.rules[k].key
      BY <3>1 DEF SpecOf
    <3> QED
      BY <2>1, <2>2, <3>1, <3>2
  <2>5. ch[k] \in specs
    BY <2>1, <2>2, <2>3 DEF Range
  <2>6. k \in Gone(failed)
    <3> HIDE DEF specs
    <3> QED
      BY <1>4, <2>2, <2>4, <2>5
  <2> QED
    BY <2>6
<1> DEFINE n == Cardinality(rest)
<1> HIDE DEF rest, n
<1>8. DOMAIN m = 1 .. n /\ \A k \in 1 .. n : m[k] = ch[f[k]] /\ f[k] \in rest
  BY <1>3 DEF n
<1>9. n \in Nat /\ m = [k \in 1 .. n |-> m[k]]
  BY <1>3, <1>6, <1>8 DEF n
<1>10. m \in Seq(Entry) /\ Len(m) = n
  <2>1. \A k \in 1 .. n : m[k] \in Entry
    BY <1>4, <1>7, <1>8
  <2>2. m \in [1 .. n -> Entry]
    BY <1>9, <2>1
  <2> QED
    BY <1>8, <1>9, <2>2, SeqDef, LenProperties
<1>11. ASSUME ch = <<>> PROVE m = <<>>
  <2>1. Len(ch) = 0
    BY <1>11
  <2>2. n = 0
    <3>1. rest = {}
      BY <1>5, <2>1
    <3> QED
      BY <3>1, FS_EmptySet DEF n
  <2> QED
    BY <1>10, <2>2, EmptySeq
<1>12. ASSUME modes \cap {"delete", "show"} = {}, InPlace(l, ch) PROVE InPlace(EmptyList, m)
  <2>1. failed = {}
    BY <1>12
  <2>2. \A k \in 1 .. n : m[k] = Foreign
    BY <1>7, <1>8, <1>12, <2>1
  <2>3. Len(EmptyList.rules) = 0
    BY DEF EmptyList
  <2> QED
    BY <1>9, <1>10, <2>2, <2>3 DEF InPlace
<1> QED
  BY <1>10, <1>11, <1>12

(* What a state that differs from this one has to satisfy.                 *)
LEMMA NextKeeps ==
  ASSUME Good(Now)',
         ("update" \notin modes => Owned(Now))',
         (modes \cap {"vrf", "update"} = {} => Released(Now))',
         (modes \cap {"delete", "show", "vrf"} = {} => Placed(Now))',
         (known \subseteq netns /\ netns \subseteq Vrfs)'
  PROVE  IInv'
BY DEF IInv, Keeps

(* process_vrf_outgoing_svcs_clear_rules.                                  *)
LEMMA ClearKeeps ==
  ASSUME IInv, NEW v \in Vrfs, Clear(v), UNCHANGED modes
  PROVE  IInv'
<1> DEFINE cs == ChainsOf(v)
<1>0. /\ "update" \in modes /\ UNCHANGED <<modes, known, netns>>
      /\ lists' = [c \in Chains |-> IF c \in cs THEN EmptyList ELSE lists[c]]
      /\ rule_ids' = rule_ids \ UNION {Ids(lists[c]) : c \in cs}
  BY DEF Clear
<1>1. PICK x \in IF BoundChains(v) = {} THEN {Outcome(Now, TRUE)} ELSE VethIpGet(Now, v) :
       /\ subnet' = x.s.subnet
       /\ \E kept \in KeptAliases(x, v) :
            svcs_map' = [a \in DOMAIN svcs_map \ (Aliases(v) \ kept) |-> svcs_map[a]]
       /\ \E f \in [cs -> UNION {ClearResults(c, x.s.chain[c]) : c \in cs}] :
            /\ \A c \in cs : f[c] \in ClearResults(c, x.s.chain[c])
            /\ chain' = [c \in Chains |-> IF c \in cs THEN f[c] ELSE x.s.chain[c]]
  BY DEF Clear
<1> DEFINE t == x.s
<1>2. /\ Good(Now) /\ Keeps(Now) /\ known \subseteq netns /\ netns \subseteq Vrfs
      /\ \A c \in Chains : ListOK(RuleRec, lists[c])
      /\ DOMAIN Now = Fields /\ DOMAIN Now.chain = Chains /\ Now.subnet \subseteq known
  BY ListsNow DEF IInv, Good, ChainsOK
<1>3. Prepared(Now, t, v)
  <2>1. CASE BoundChains(v) = {}
    <3>1. x.s = Now
      BY <1>1, <2>1 DEF Outcome
    <3> QED
      BY <1>2, <3>1 DEF Prepared
  <2>2. CASE BoundChains(v) # {}
    BY <1>1, <1>2, <2>2, VethIpGetIs
  <2> QED
    BY <2>1, <2>2
<1>4. PICK f \in [cs -> UNION {ClearResults(c, t.chain[c]) : c \in cs}] :
        /\ \A c \in cs : f[c] \in ClearResults(c, t.chain[c])
        /\ chain' = [c \in Chains |-> IF c \in cs THEN f[c] ELSE t.chain[c]]
  BY <1>1
<1>5. PICK S : S \subseteq DOMAIN svcs_map /\ svcs_map' = [a \in S |-> svcs_map[a]]
  BY <1>1
<1>6. subnet' = t.subnet
  BY <1>1
<1>7. Good(t) /\ (Placed(Now) => Placed(t))
  BY <1>2, <1>3, SetupKeepsGood, SetupKeepsPlaced
<1>8. cs \subseteq Chains /\ \A c \in cs : VrfOf[c] = v
  BY DEF ChainsOf
<1> HIDE DEF t, cs
<1>9. /\ \A c \in cs : chain'[c] \in ClearResults(c, t.chain[c])
      /\ \A c \in Chains \ cs : chain'[c] = t.chain[c]
      /\ DOMAIN chain' = Chains
  BY <1>4, <1>8
<1>10. \A c \in Chains : t.chain[c] \in Seq(Entry)
  BY <1>7 DEF Good, ChainsOK
<1>11. Good(Now)'
  <2>1. DOMAIN lists' = Chains /\ \A c \in Chains : ListOK(RuleRec, lists'[c])
    <3>1. ListOK(RuleRec, EmptyList)
      BY RuleRecSeqs, EmptyListOK
    <3> QED
      BY <1>0, <1>2, <3>1
  <2>2. IdsOK(Now)'
    <3>1. Ids(EmptyList) = {}
      BY RuleRecSeqs, EmptyListOK
    <3>2. /\ \A c \in cs : Ids(lists'[c]) = {}
          /\ \A c \in Chains \ cs : Ids(lists'[c]) = Ids(lists[c])
      BY <1>0, <1>8, <3>1
    <3>3. /\ rule_ids = UNION {Ids(lists[c]) : c \in Chains}
          /\ \A c, d \in Chains : c # d => Ids(lists[c]) \cap Ids(lists[d]) = {}
      BY <1>2, NowIs DEF Good, IdsOK
    <3>4. rule_ids' = UNION {Ids(lists'[c]) : c \in Chains}
      <4>1. \A i : i \in rule_ids' => \E c \in Chains : i \in Ids(lists'[c])
        BY <1>0, <3>2, <3>3
      <4>2. ASSUME NEW c \in Chains, NEW i \in Ids(lists'[c]) PROVE i \in rule_ids'
        <5>1. c \notin cs /\ i \in Ids(lists[c])
          BY <3>2, <4>2
        <5>2. \A d \in cs : i \notin Ids(lists[d])
          BY <1>8, <3>3, <5>1
        <5> QED
          BY <1>0, <3>3, <5>1, <5>2
      <4> QED
        BY <4>1, <4>2
    <3>5. \A c, d \in Chains : c # d => Ids(lists'[c]) \cap Ids(lists'[d]) = {}
      BY <3>2, <3>3
    <3> QED
      BY <3>4, <3>5, NowIs DEF IdsOK, Now
  <2>3. PortsOK(svcs_map')
    <3>1. PortsOK(svcs_map)
      BY <1>2, NowIs DEF Good
    <3> QED
      BY <1>5, <3>1 DEF PortsOK
  <2>4. \A c \in Chains : chain'[c] \in Seq(Entry)
    <3>1. ASSUME NEW c \in cs PROVE chain'[c] \in Seq(Entry)
      BY <1>2, <1>8, <1>9, <1>10, ClearResultsAre
    <3> QED
      BY <1>9, <1>10, <3>1
  <2>5. t.subnet \subseteq known
    BY <1>3 DEF Prepared
  <2> QED
    BY <1>0, <1>6, <1>9, <2>1, <2>2, <2>3, <2>4, <2>5 DEF Good, Now, Fields, ListsOK, ChainsOK
<1>12. (modes \cap {"delete", "show", "vrf"} = {} => Placed(Now))'
  <2> SUFFICES ASSUME modes \cap {"delete", "show", "vrf"} = {}, NEW c \in Chains
               PROVE  /\ Exists(c) => InPlace(lists'[c], chain'[c])
                      /\ ~Exists(c) => Len(lists'[c].rules) = 0 /\ chain'[c] = <<>>
    BY <1>0 DEF Placed, Now, Exists
  <2>1. /\ Exists(c) => InPlace(lists[c], t.chain[c])
        /\ ~Exists(c) => Len(lists[c].rules) = 0 /\ t.chain[c] = <<>>
    <3>1. Placed(t) /\ t.lists = lists
      BY <1>2, <1>3, <1>7, NowIs DEF Keeps, Prepared
    <3> QED
      BY <3>1 DEF Placed
  <2>2. CASE c \notin cs
    BY <1>0, <1>9, <2>1, <2>2
  <2>3. CASE c \in cs
    <3> DEFINE ch == t.chain[c]
               m == chain'[c]
    <3>1. lists'[c] = EmptyList /\ Len(EmptyList.rules) = 0
      BY <1>0, <2>3 DEF EmptyList
    <3>2. ch \in Seq(Entry) /\ m \in ClearResults(c, ch) /\ ListOK(RuleRec, lists[c])
      BY <1>2, <1>9, <1>10, <2>3
    <3> HIDE DEF ch, m
    <3>3. /\ ch = <<>> => m = <<>>
          /\ modes \cap {"delete", "show"} = {} /\ InPlace(lists[c], ch) => InPlace(EmptyList, m)
      BY <3>2, ClearResultsAre
    <3> QED
      BY <2>1, <3>1, <3>3 DEF ch, m
  <2> QED
    BY <2>2, <2>3
<1> QED
  BY <1>0, <1>2, <1>11, <1>12, NextKeeps

(* set_vrf_cb makes the chains of a VRF, which are empty.                  *)
LEMMA VrfCreateKeeps ==
  ASSUME IInv, NEW v \in Vrfs, VrfCreate(v), UNCHANGED modes
  PROVE  IInv'
<1>1. /\ v \notin netns /\ netns' = netns \cup {v}
      /\ known \subseteq known' /\ known' \subseteq known \cup {v}
      /\ UNCHANGED <<modes, lists, rule_ids, svcs_map, subnet, chain>>
  BY DEF VrfCreate
<1>2. Good(Now) /\ Keeps(Now) /\ known \subseteq netns /\ netns \subseteq Vrfs
  BY ListsNow DEF IInv
<1>3. Now' = Now
  BY <1>1 DEF Now
<1>4. Good(Now)'
  BY <1>1, <1>2, <1>3 DEF Good, ListsOK, IdsOK, ChainsOK
<1>5. (Owned(Now) => Owned(Now)') /\ (Released(Now) => Released(Now)')
  BY <1>3 DEF Owned, Released
<1>6. Placed(Now) => Placed(Now)'
  <2> SUFFICES ASSUME Placed(Now), NEW c \in Chains
               PROVE  /\ Exists(c)' => InPlace(lists[c], chain[c])
                      /\ ~Exists(c)' => Len(lists[c].rules) = 0 /\ chain[c] = <<>>
    BY <1>1 DEF Placed, Now
  <2>1. /\ Exists(c) => InPlace(lists[c], chain[c])
        /\ ~Exists(c) => Len(lists[c].rules) = 0 /\ chain[c] = <<>>
    BY NowIs DEF Placed
  <2>2. Exists(c) => Exists(c)'
    BY <1>1 DEF Exists
  <2>3. Len(lists[c].rules) = 0 /\ chain[c] = <<>> => InPlace(lists[c], chain[c])
    <3>1. Len(<<>>) = 0
      OBVIOUS
    <3> QED
      BY <3>1 DEF InPlace
  <2> QED
    BY <2>1, <2>2, <2>3
<1> QED
  BY <1>1, <1>2, <1>4, <1>5, <1>6, NextKeeps DEF Keeps

(* The end of a VRF, or a part of it, leaves lists and ports as they are.  *)
LEMMA VrfGoneKeeps ==
  ASSUME IInv, "vrf" \in modes, UNCHANGED <<modes, lists, rule_ids, svcs_map>>,
         known' \subseteq known, subnet' \subseteq known', subnet' \subseteq subnet,
         known' \subseteq netns', netns' \subseteq netns, DOMAIN chain' = Chains,
         \A c \in Chains : chain'[c] = <<>> \/ chain'[c] = chain[c]
  PROVE  IInv'
<1>1. Good(Now) /\ Keeps(Now) /\ netns \subseteq Vrfs
  BY ListsNow DEF IInv
<1>2. \A c \in Chains : chain'[c] \in Seq(Entry)
  <2>1. \A c \in Chains : chain[c] \in Seq(Entry)
    BY <1>1, NowIs DEF Good, ChainsOK
  <2>2. <<>> \in Seq(Entry)
    BY EmptySeq
  <2> QED
    BY <2>1, <2>2
<1>3. Good(Now)'
  BY <1>1, <1>2 DEF Good, ListsOK, IdsOK, ChainsOK, Now, Fields
<1>4. Owned(Now) => Owned(Now)'
  BY DEF Owned, Now
<1> QED
  BY <1>1, <1>3, <1>4, NextKeeps DEF Keeps

(* A VRF is deleted, or the delete ends at a step that fails.             *)
LEMMA VrfDeleteKeeps ==
  ASSUME IInv, NEW v \in Vrfs, VrfDelete(v) \/ VrfDeleteFails(v), UNCHANGED modes
  PROVE  IInv'
<1>0. subnet \subseteq known /\ known \subseteq netns /\ DOMAIN chain = Chains
  BY ListsNow, NowIs DEF Good, ChainsOK
<1>1. CASE VrfDelete(v)
  <2>1. /\ "vrf" \in modes /\ UNCHANGED <<modes, lists, rule_ids, svcs_map>>
        /\ known' = known \ {v} /\ subnet' = subnet \ {v} /\ netns' = netns \ {v}
        /\ DOMAIN chain' = Chains
        /\ \A c \in Chains : chain'[c] = <<>> \/ chain'[c] = chain[c]
    BY <1>1 DEF VrfDelete
  <2> QED
    BY <1>0, <2>1, VrfGoneKeeps
<1>2. CASE VrfDeleteFails(v)
  <2>1. PICK cs \in IF v \in subnet THEN SUBSET ChainsOf(v) ELSE {{}} :
       LET flushed == [c \in Chains |-> IF c \in cs THEN <<>> ELSE chain[c]]
       IN  \/ /\ v \in subnet
              /\ subnet' \in {subnet \ {v}, IF cs = {} THEN subnet ELSE subnet \ {v}}
              /\ chain' = flushed
              /\ UNCHANGED <<known, netns>>
           \/ /\ known' = known \ {v}
              /\ subnet' = subnet \ {v}
              /\ chain' = flushed
              /\ UNCHANGED netns
    BY <1>2 DEF VrfDeleteFails
  <2>2. /\ "vrf" \in modes /\ UNCHANGED <<modes, lists, rule_ids, svcs_map>>
    BY <1>2 DEF VrfDeleteFails
  <2>3. /\ DOMAIN chain' = Chains
        /\ \A c \in Chains : chain'[c] = <<>> \/ chain'[c] = chain[c]
    BY <2>1
  <2>4. /\ known' \subseteq known /\ subnet' \subseteq known' /\ subnet' \subseteq subnet
        /\ known' \subseteq netns' /\ netns' \subseteq netns
    BY <1>0, <2>1
  <2> QED
    BY <2>2, <2>3, <2>4, VrfGoneKeeps
<1> QED
  BY <1>1, <1>2

-----------------------------------------------------------------------------
(* Removing a rule of someone else leaves the rules in front in place.     *)
LEMMA InPlaceAfterForeign ==
  ASSUME NEW l, ListOK(RuleRec, l), NEW ch \in Seq(Entry), InPlace(l, ch),
         NEW p \in 1 .. Len(ch), ch[p] = Foreign, NEW d, d = RemoveAt(ch, p)
  PROVE  InPlace(l, d)
<1> DEFINE len == Len(l.rules)
           E == Entry
<1>1. len \in Nat /\ len <= Len(ch) /\ Len(ch) \in Nat
  BY RecsOf, LenProperties DEF InPlace
<1>2. \A k \in 1 .. len : k \in 1 .. Len(ch) /\ ch[k] = SpecOf(l.rules[k]) /\ ch[k] # Foreign
  <2> SUFFICES ASSUME NEW k \in 1 .. len
               PROVE  k \in 1 .. Len(ch) /\ ch[k] = SpecOf(l.rules[k]) /\ ch[k] # Foreign
    OBVIOUS
  <2>1. l.rules[k] \in RuleRec
    BY RecsOf DEF Recs
  <2>2. SpecOf(l.rules[k]) # Foreign
    BY <2>1, SpecIsEntry
  <2> QED
    BY <1>1, <2>2 DEF InPlace
<1>3. \A k \in 1 .. Len(ch) : k > len => ch[k] = Foreign
  BY DEF InPlace
<1>4. ch \in Seq(E) /\ p \in 1 .. Len(ch) /\ d = RemoveAt(ch, p)
  OBVIOUS
<1> HIDE DEF len, E
<1>5. /\ Len(d) = Len(ch) - 1
      /\ \A k \in 1 .. Len(ch) - 1 : d[k] = IF k < p THEN ch[k] ELSE ch[k + 1]
  BY ONLY <1>4, RemoveAtIs
<1>6. p > len
  BY <1>1, <1>2
<1>7. len <= Len(d)
  BY <1>1, <1>5, <1>6
<1>8. \A k \in 1 .. len : d[k] = SpecOf(l.rules[k])
  <2> SUFFICES ASSUME NEW k \in 1 .. len PROVE d[k] = SpecOf(l.rules[k])
    OBVIOUS
  <2>1. k \in 1 .. Len(ch) - 1 /\ k < p
    BY <1>1, <1>5, <1>6, <1>7
  <2> QED
    BY <1>2, <1>5, <2>1
<1>9. \A k \in 1 .. Len(d) : k > len => d[k] = Foreign
  <2> SUFFICES ASSUME NEW k \in 1 .. Len(d), k > len PROVE d[k] = Foreign
    OBVIOUS
  <2>1. k \in 1 .. Len(ch) - 1 /\ k \in 1 .. Len(ch) /\ k + 1 \in 1 .. Len(ch) /\ k + 1 > len
    BY <1>1, <1>5
  <2> QED
    BY <1>3, <1>5, <2>1
<1> QED
  BY <1>7, <1>8, <1>9 DEF InPlace, len

(* Others append rules of their own and delete them.                       *)
LEMMA ForeignRuleKeeps ==
  ASSUME IInv, NEW c \in Chains, ForeignRule(c), UNCHANGED modes
  PROVE  IInv'
<1> DEFINE ch == chain[c]
           E == Entry
<1>1. /\ Exists(c) /\ UNCHANGED <<modes, lists, rule_ids, svcs_map, known, subnet, netns>>
      /\ \/ chain' = [chain EXCEPT ![c] = Append(ch, Foreign)]
         \/ \E k \in DOMAIN ch : ch[k] = Foreign /\ chain' = [chain EXCEPT ![c] = RemoveAt(ch, k)]
  BY DEF ForeignRule
<1>2. /\ Good(Now) /\ Keeps(Now) /\ known \subseteq netns /\ netns \subseteq Vrfs
      /\ ListOK(RuleRec, lists[c])
      /\ DOMAIN chain = Chains /\ \A d \in Chains : chain[d] \in Seq(Entry)
  BY ListsNow, NowIs DEF IInv, Good, ChainsOK
<1>3. ch \in Seq(E) /\ Len(ch) \in Nat /\ DOMAIN ch = 1 .. Len(ch)
  BY <1>2, LenProperties
<1> HIDE DEF ch, E
<1>4. /\ DOMAIN chain' = Chains /\ \A d \in Chains : d # c => chain'[d] = chain[d]
      /\ chain'[c] \in Seq(E)
      /\ InPlace(lists[c], ch) => InPlace(lists[c], chain'[c])
  <2>1. CASE chain' = [chain EXCEPT ![c] = Append(ch, Foreign)]
    <3>1. Append(ch, Foreign) \in Seq(E)
      <4>1. Foreign \in E
        BY DEF E, Entry
      <4> QED
        BY <1>3, <4>1, AppendProperties
    <3>2. InPlace(lists[c], ch) => InPlace(lists[c], Append(ch, Foreign))
      BY <1>2, <1>3, InPlaceAfterAppend DEF E
    <3> QED
      BY <1>2, <2>1, <3>1, <3>2
  <2>2. CASE \E k \in DOMAIN ch : ch[k] = Foreign /\ chain' = [chain EXCEPT ![c] = RemoveAt(ch, k)]
    <3>1. PICK k \in 1 .. Len(ch) : ch[k] = Foreign /\ chain' = [chain EXCEPT ![c] = RemoveAt(ch, k)]
      BY <1>3, <2>2
    <3> DEFINE d == RemoveAt(ch, k)
    <3>2. d \in Seq(E)
      BY <1>3, RemoveAtIs
    <3>3. InPlace(lists[c], ch) => InPlace(lists[c], d)
      BY <1>2, <1>3, <3>1, InPlaceAfterForeign DEF E
    <3>4. DOMAIN chain' = Chains /\ chain'[c] = d /\ \A e \in Chains : e # c => chain'[e] = chain[e]
      BY <1>2, <3>1
    <3> HIDE DEF d
    <3> QED
      BY <3>2, <3>3, <3>4
  <2> QED
    BY <1>1, <2>1, <2>2
<1>5. Good(Now)'
  BY <1>1, <1>2, <1>4 DEF Good, ListsOK, IdsOK, ChainsOK, Now, Fields, E
<1>6. (Owned(Now) => Owned(Now)') /\ (Released(Now) => Released(Now)')
  BY <1>1 DEF Owned, Released, Now
<1>7. Placed(Now) => Placed(Now)'
  <2> SUFFICES ASSUME Placed(Now), NEW d \in Chains
               PROVE  /\ Exists(d) => InPlace(lists[d], chain'[d])
                      /\ ~Exists(d) => Len(lists[d].rules) = 0 /\ chain'[d] = <<>>
    BY <1>1 DEF Placed, Now, Exists
  <2>1. /\ Exists(d) => InPlace(lists[d], chain[d])
        /\ ~Exists(d) => Len(lists[d].rules) = 0 /\ chain[d] = <<>>
    BY NowIs DEF Placed
  <2> QED
    BY <1>1, <1>4, <2>1 DEF ch
<1> QED
  BY <1>1, <1>2, <1>5, <1>6, <1>7, NextKeeps DEF Keeps

-----------------------------------------------------------------------------
(* The empty cache of the start satisfies the invariant.                   *)
LEMMA Initially == Init => IInv
<1> SUFFICES ASSUME Init PROVE IInv
  OBVIOUS
<1>1. /\ lists = [c \in Chains |-> EmptyList] /\ rule_ids = {} /\ svcs_map = [a \in {} |-> 0]
      /\ known = {} /\ subnet = {} /\ netns = {} /\ chain = [c \in Chains |-> <<>>]
  BY DEF Init
<1>2. ListOK(RuleRec, EmptyList) /\ Ids(EmptyList) = {} /\ EmptyList.rules = <<>>
  BY RuleRecSeqs, EmptyListOK
<1>3. <<>> \in Seq(Entry) /\ Len(<<>>) = 0
  BY EmptySeq
<1>4. PortsOK(svcs_map) /\ DOMAIN svcs_map = {}
  BY <1>1 DEF PortsOK
<1>5. \A c \in Chains : ListOK(RuleRec, lists[c]) /\ Ids(lists[c]) = {} /\ lists[c].rules = <<>>
  BY <1>1, <1>2
<1>6. Good(Now)
  BY <1>1, <1>3, <1>4, <1>5, NowIs DEF Good, ListsOK, IdsOK, ChainsOK
<1>7. Owned(Now)
  BY <1>3, <1>5, NowIs, OutChainsAssumption DEF Owned, Recs
<1>8. Released(Now)
  BY <1>4, NowIs DEF Released
<1>9. Placed(Now)
  BY <1>1, <1>3, <1>5, NowIs DEF Placed, InPlace
<1> QED
  BY <1>1, <1>6, <1>7, <1>8, <1>9 DEF IInv, Keeps

(* Every step keeps it.                                                    *)
LEMMA Inductive == IInv /\ [Next]_vars => IInv'
<1> SUFFICES ASSUME IInv, [Next]_vars PROVE IInv'
  OBVIOUS
<1>1. CASE UNCHANGED vars
  <2>1. UNCHANGED <<modes, lists, rule_ids, svcs_map, known, subnet, netns, chain>>
    BY <1>1 DEF vars
  <2>2. Becomes(Now)
    BY <2>1, NowIs DEF Becomes
  <2>3. Keeps(Now)
    BY ListsNow
  <2> QED
    BY <2>1, <2>2, <2>3, BecomesKeeps
<1>2. CASE Call /\ UNCHANGED modes
  <2>1. ASSUME NEW c \in Chains, NEW key \in Keys, NEW asked \in RuleIds \cup {None},
               Create(c, key, asked)
        PROVE  IInv'
    BY <1>2, <2>1, CreateKeeps
  <2>2. ASSUME NEW c \in Chains, NEW key \in Keys, NEW port \in Ports \cup {None},
               DeleteByKeys(c, key, port)
        PROVE  IInv'
    BY <1>2, <2>2, DeleteByKeysKeeps
  <2>3. ASSUME NEW c \in Chains, NEW key \in Keys, NEW i \in rule_ids, Set(c, i, key)
        PROVE  IInv'
    BY <1>2, <2>3, SetKeeps
  <2>4. ASSUME NEW c \in Chains, NEW i \in rule_ids, DeleteById(c, i)
        PROVE  IInv'
    BY <1>2, <2>4, DeleteByIdKeeps
  <2>5. ASSUME NEW c \in Chains, ForeignRule(c) PROVE IInv'
    BY <1>2, <2>5, ForeignRuleKeeps
  <2>6. ASSUME NEW v \in Vrfs, Clear(v) PROVE IInv'
    BY <1>2, <2>6, ClearKeeps
  <2>7. ASSUME NEW v \in Vrfs, VrfCreate(v) PROVE IInv'
    BY <1>2, <2>7, VrfCreateKeeps
  <2>8. ASSUME NEW v \in Vrfs, VrfDelete(v) \/ VrfDeleteFails(v) PROVE IInv'
    BY <1>2, <2>8, VrfDeleteKeeps
  <2> QED
    BY <1>2, <2>1, <2>2, <2>3, <2>4, <2>5, <2>6, <2>7, <2>8 DEF Call
<1> QED
  BY <1>1, <1>2 DEF Next

(* So it holds at every time.                                              *)
LEMMA Always == Spec => []IInv
BY Initially, Inductive, PTL DEF Spec

(* A good state of the cache has its shape, and an id is reserved exactly  *)
(* as long as one rule has it, whatever insert_rule, delete_rule and       *)
(* update_rule roll back.                                                  *)
THEOREM OutgoingWellFormed == Spec => []WellFormed
<1>1. IInv => WellFormed
  <2> SUFFICES ASSUME IInv PROVE WellFormed
    OBVIOUS
  <2>1. /\ Good(Now) /\ known \subseteq netns /\ netns \subseteq Vrfs
        /\ \A c \in Chains : ListOK(RuleRec, lists[c])
    BY ListsNow DEF IInv
  <2>2. TypeOK
    <3>1. \A c \in Chains : lists[c].rules \in Seq(RuleRec)
      BY <2>1 DEF ListOK
    <3>2. svcs_map \in [DOMAIN svcs_map -> Ports] /\ subnet \subseteq known /\ DOMAIN chain = Chains
      BY <2>1, NowIs DEF Good, PortsOK, ChainsOK
    <3> QED
      BY <2>1, <3>1, <3>2 DEF TypeOK, RuleRec
  <2>3. IdsExact
    BY <2>1, NowIs DEF IdsExact, Good, IdsOK, ListOK
  <2> QED
    BY <2>2, <2>3 DEF WellFormed
<1> QED
  BY <1>1, Always, PTL

(* No two service bindings share a private port, and as long as no rule is *)
(* updated each has the one recorded for it in _outgoing_ip_svcs_map.      *)
THEOREM EveryBindingOwnsItsPort == Spec => []PortsOwned
<1>1. IInv => PortsOwned
  <2> SUFFICES ASSUME IInv PROVE PortsOwned
    OBVIOUS
  <2>1. Good(Now) /\ Keeps(Now) /\ \A c \in Chains : ListOK(RuleRec, lists[c])
    BY ListsNow
  <2>2. PortsUnique
    BY <2>1, NowIs DEF PortsUnique, Good, PortsOK
  <2>3. ASSUME "update" \notin modes, NEW c \in OutChains, NEW k \in DOMAIN lists[c].rules
        PROVE  LET r == lists[c].rules[k]
               IN  Alias(c, r.key) \in DOMAIN svcs_map /\ svcs_map[Alias(c, r.key)] = r.port
    <3>1. DOMAIN lists[c].rules = 1 .. Len(lists[c].rules)
      BY <2>1, RecsOf, OutChainsAssumption
    <3>2. lists[c].rules[k] \in Recs(lists[c])
      BY <3>1 DEF Recs
    <3> QED
      BY <2>1, <2>3, <3>2, NowIs DEF Keeps, Owned
  <2> QED
    BY <2>2, <2>3 DEF PortsOwned
<1> QED
  BY <1>1, Always, PTL

(* Whatever setup, insert or delete fails, a port is recorded only for a   *)
(* rule that exists, as long as no VRF is deleted and no rule updated.     *)
THEOREM NoPortIsLost == Spec => []PortsReleasedUnlessVrfDeleted
<1>1. IInv => PortsReleasedUnlessVrfDeleted
  <2> SUFFICES ASSUME IInv, modes \cap {"vrf", "update"} = {}, NEW a \in DOMAIN svcs_map
               PROVE  \E k \in DOMAIN lists[a[1]].rules : lists[a[1]].rules[k].key = a[2]
    BY DEF PortsReleasedUnlessVrfDeleted, PortsReleased
  <2>1. Good(Now) /\ Keeps(Now) /\ \A c \in Chains : ListOK(RuleRec, lists[c])
    BY ListsNow
  <2>2. PICK c \in OutChains, key \in Keys : a = Alias(c, key)
    BY <2>1, NowIs DEF Good, PortsOK, Alias
  <2>3. a[1] = c /\ a[2] = key
    BY <2>2 DEF Alias
  <2>4. PICK r \in Recs(lists[c]) : r.key = key
    BY <2>1, <2>2, NowIs DEF Keeps, Released
  <2>5. DOMAIN lists[c].rules = 1 .. Len(lists[c].rules)
    BY <2>1, RecsOf, OutChainsAssumption
  <2> QED
    BY <2>3, <2>4, <2>5 DEF Recs
<1> QED
  BY <1>1, Always, PTL

(* Unless a delete fails or is skipped or a VRF goes away, the kernel's    *)
(* chain begins with the cached rules: the position that a command of      *)
(* proc_rule names is that of its rule, however many rules others append.  *)
THEOREM PositionsAreRight == Spec => []InFrontUnlessDeletesFail
<1>1. IInv => InFrontUnlessDeletesFail
  <2> SUFFICES ASSUME IInv, modes \cap {"delete", "show", "vrf"} = {}, NEW c \in Chains, Exists(c)
               PROVE  /\ Len(lists[c].rules) <= Len(chain[c])
                      /\ \A k \in DOMAIN lists[c].rules : chain[c][k] = SpecOf(lists[c].rules[k])
                      /\ \A k \in DOMAIN chain[c] : k > Len(lists[c].rules) => chain[c][k] = Foreign
    BY DEF InFrontUnlessDeletesFail, InFront
  <2>1. Good(Now) /\ Keeps(Now) /\ \A d \in Chains : ListOK(RuleRec, lists[d])
    BY ListsNow
  <2>2. InPlace(lists[c], chain[c])
    BY <2>1, NowIs DEF Keeps, Placed
  <2>3. DOMAIN lists[c].rules = 1 .. Len(lists[c].rules)
    BY <2>1, RecsOf
  <2>4. DOMAIN chain[c] = 1 .. Len(chain[c])
    BY <2>1, NowIs, LenProperties DEF Good, ChainsOK
  <2> QED
    BY <2>2, <2>3, <2>4 DEF InPlace
<1> QED
  BY <1>1, Always, PTL
=============================================================================
