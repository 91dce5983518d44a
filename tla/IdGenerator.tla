---------------------------- MODULE IdGenerator ----------------------------
(***************************************************************************)
(* The id generator of scripts/lib/python/dn_base_id_tool.py.  It keeps    *)
(* the set of reserved ids and two cached values: the id the next          *)
(* get_new_id will hand out and the highest reserved id.  Every method     *)
(* but is_id_used runs under self.mutex, so a method is one action.        *)
(***************************************************************************)
EXTENDS Integers, FiniteSets

CONSTANTS MinId, MaxId, NoId, Requests    \* see IdAllocator; NoId is Python's None

ASSUME MinIdAssumption == MinId \in Nat
ASSUME NoIdAssumption == NoId \notin Int
ASSUME MaxIdAssumption == MaxId = NoId \/ (MaxId \in Int /\ MaxId > MinId)
ASSUME RequestsAssumption == Requests \subseteq Int

VARIABLES
  resved_ids,     \* set of ids in use
  avail_id,       \* the next id to hand out; NoId once the range ran out
  max_resved_id,  \* highest id in use; NoId when none is
  ret             \* the answer to the last call

id_vars == <<resved_ids, avail_id, max_resved_id, ret>>

IdInit ==
  /\ resved_ids = {}
  /\ avail_id = MinId
  /\ max_resved_id = NoId
  /\ ret = [id |-> NoId, ok |-> TRUE]

(* The loop of get_next_avail_id leaves off at the first id after avail_id *)
(* that is free or above the highest reserved one.                         *)
Stops(resved, n) == (max_resved_id # NoId /\ n > max_resved_id) \/ n \notin resved

LoopEnd(resved) ==
  LET last == IF max_resved_id # NoId /\ max_resved_id > avail_id
                THEN max_resved_id + 1
                ELSE avail_id + Cardinality(resved) + 1
      stops == {n \in (avail_id + 1) .. last : Stops(resved, n)}
  IN  CHOOSE n \in stops : \A m \in stops : n <= m

(* Mutant: the next number, in use or not. *)
NextWithoutSearch(resved) ==
  IF MaxId # NoId /\ avail_id + 1 > MaxId THEN NoId ELSE avail_id + 1

get_next_avail_id(resved) ==
  LET n == LoopEnd(resved)
  IN  IF MaxId # NoId /\ n > MaxId THEN NoId ELSE n

(* Mutant: the last id taken, not the highest. *)
LastTaken(i) == i

RaiseMax(i) ==
  IF max_resved_id = NoId \/ i > max_resved_id THEN i ELSE max_resved_id

GetNewId ==
  \/ /\ avail_id = NoId
     /\ ret' = [id |-> NoId, ok |-> FALSE]
     /\ UNCHANGED <<resved_ids, avail_id, max_resved_id>>
  \/ /\ avail_id # NoId
     /\ resved_ids' = resved_ids \cup {avail_id}
     /\ avail_id' = get_next_avail_id(resved_ids')
     /\ max_resved_id' = RaiseMax(avail_id)
     /\ ret' = [id |-> avail_id, ok |-> TRUE]

(* The downward search of release_id for the new highest reserved id.      *)
HighestBelow(resved, i) ==
  LET below == {n \in MinId .. i : n \in resved}
  IN  IF below = {} THEN NoId ELSE CHOOSE n \in below : \A m \in below : n >= m

(* Mutant: a released id is not handed out again. *)
KeepAvail(i) == avail_id

(* obj_id < avail_id is False when avail_id is None: in Python 2 None is   *)
(* below every integer.                                                    *)
LowerAvail(i) == IF avail_id # NoId /\ i < avail_id THEN i ELSE avail_id

ReleaseId(i) ==
  \/ /\ i \notin resved_ids
     /\ ret' = [id |-> i, ok |-> FALSE]
     /\ UNCHANGED <<resved_ids, avail_id, max_resved_id>>
  \/ /\ i \in resved_ids
     /\ resved_ids' = resved_ids \ {i}
     /\ avail_id' = LowerAvail(i)
     /\ max_resved_id' = IF i = max_resved_id THEN HighestBelow(resved_ids', i)
                                              ELSE max_resved_id
     /\ ret' = [id |-> i, ok |-> TRUE]

(* Reads resved_ids without the mutex: one set lookup. *)
IsIdUsed(i) ==
  /\ ret' = [id |-> i, ok |-> i \in resved_ids]
  /\ UNCHANGED <<resved_ids, avail_id, max_resved_id>>

InRange(i) == i >= MinId /\ (MaxId # NoId => i <= MaxId)

ReserveId(i) ==
  \/ /\ ~InRange(i) \/ i \in resved_ids
     /\ ret' = [id |-> i, ok |-> FALSE]
     /\ UNCHANGED <<resved_ids, avail_id, max_resved_id>>
  \/ /\ InRange(i) /\ i \notin resved_ids
     /\ resved_ids' = resved_ids \cup {i}
     /\ avail_id' = IF i = avail_id THEN get_next_avail_id(resved_ids') ELSE avail_id
     /\ max_resved_id' = RaiseMax(i)
     /\ ret' = [id |-> i, ok |-> TRUE]

IdNext ==
  \/ GetNewId
  \/ \E i \in Requests : ReleaseId(i) \/ IsIdUsed(i) \/ ReserveId(i)

IdSpec == IdInit /\ [][IdNext]_id_vars
-----------------------------------------------------------------------------
(* The state keeps its shape: a finite set of in-range ids, and the two    *)
(* cached values are ids or NoId (the attributes set by __init__).         *)
IdTypeOK ==
  /\ resved_ids \subseteq {i \in Nat : InRange(i)}
  /\ IsFiniteSet(resved_ids)
  /\ avail_id \in Nat \cup {NoId}
  /\ max_resved_id \in Nat \cup {NoId}
  /\ ret \in [id : Int \cup {NoId}, ok : BOOLEAN]

(* max_resved_id is exactly the highest reserved id.  get_next_avail_id    *)
(* trusts it to end its search, so a value that is too low would make it   *)
(* hand out an id that is in use.                                          *)
MaxExact ==
  IF max_resved_id = NoId
    THEN resved_ids = {}
    ELSE max_resved_id \in resved_ids /\ \A i \in resved_ids : i <= max_resved_id

(* avail_id is the lowest free id whatever was reserved, handed out and    *)
(* released before: the cached value is never in use and never skips one.  *)
AvailIsLowest ==
  avail_id # NoId =>
    /\ InRange(avail_id) /\ avail_id \notin resved_ids
    /\ \A i \in MinId .. (avail_id - 1) : i \in resved_ids

(* The two cached values are exact after any mix of calls, neither of      *)
(* which is kept right without the other, and reserved ids are in range.   *)
CachesExact == IdTypeOK /\ MaxExact /\ AvailIsLowest

(* The cached value is NoId only in a generator with an upper limit.       *)
NoneMeansLimited == avail_id = NoId => MaxId # NoId

(* get_new_id never hands out an id that some object still has: the id a   *)
(* successful call returns was free before it and is reserved after it.    *)
NeverTwice ==
  [][GetNewId /\ ret'.ok => ret'.id \in resved_ids' \ resved_ids]_id_vars

Abs == INSTANCE IdAllocator WITH spent <- (avail_id = NoId)

(* get_new_id, release_id, is_id_used and reserve_id answer as the         *)
(* abstract allocator does: always the lowest free id, until a generator   *)
(* with an upper limit has once had all of its ids in use.                 *)
ImplementsAllocator == Abs!Spec
=============================================================================
