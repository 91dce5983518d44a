---------------------------- MODULE IdAllocator ----------------------------
(***************************************************************************)
(* What the users of IdGenerator (scripts/lib/python/dn_base_id_tool.py)   *)
(* rely on: a set of reserved ids, from which get_new_id hands out the     *)
(* lowest free one.  An allocator with an upper limit is spent for good    *)
(* once all of its ids were in use together.  This is the abstract         *)
(* specification that IdGenerator implements.                              *)
(***************************************************************************)
EXTENDS Integers

CONSTANTS
  MinId,      \* lowest id that may be handed out
  MaxId,      \* highest one, or NoId when the generator has no limit
  NoId,       \* Python's None
  Requests    \* the ids that callers ask to reserve, release or look up

VARIABLES
  resved_ids, \* the ids in use
  spent,      \* all ids of a limited allocator were once in use together
  ret         \* the answer to the last call: the id it is about, and success

InRange(i) == i >= MinId /\ (MaxId # NoId => i <= MaxId)

Free(i) == InRange(i) /\ i \notin resved_ids

LowestFree(i) == Free(i) /\ \A j \in MinId .. (i - 1) : j \in resved_ids

Full(resved) == MaxId # NoId /\ (MinId .. MaxId) \subseteq resved

Take(i) ==
  /\ resved_ids' = resved_ids \cup {i}
  /\ spent' = (spent \/ Full(resved_ids \cup {i}))
  /\ ret' = [id |-> i, ok |-> TRUE]

Init ==
  /\ resved_ids = {}
  /\ spent = FALSE
  /\ ret = [id |-> NoId, ok |-> TRUE]

(* A new id is the lowest free one: MinId or the successor of a reserved   *)
(* id.                                                                     *)
GetNewId ==
  \E i \in {MinId} \cup {j + 1 : j \in resved_ids} :
    ~spent /\ LowestFree(i) /\ Take(i)

(* The call fails only when the allocator is spent. *)
NoNewId ==
  /\ spent
  /\ ret' = [id |-> NoId, ok |-> FALSE]
  /\ UNCHANGED <<resved_ids, spent>>

Refuse(i) ==
  /\ ret' = [id |-> i, ok |-> FALSE]
  /\ UNCHANGED <<resved_ids, spent>>

ReleaseId(i) ==
  \/ /\ i \in resved_ids
     /\ resved_ids' = resved_ids \ {i}
     /\ ret' = [id |-> i, ok |-> TRUE]
     /\ UNCHANGED spent
  \/ i \notin resved_ids /\ Refuse(i)

IsIdUsed(i) ==
  /\ ret' = [id |-> i, ok |-> i \in resved_ids]
  /\ UNCHANGED <<resved_ids, spent>>

ReserveId(i) ==
  \/ Free(i) /\ Take(i)
  \/ ~Free(i) /\ Refuse(i)

vars == <<resved_ids, spent, ret>>

Next ==
  \/ GetNewId
  \/ NoNewId
  \/ \E i \in Requests : ReleaseId(i) \/ IsIdUsed(i) \/ ReserveId(i)

Spec == Init /\ [][Next]_vars
=============================================================================
