--------------------------- MODULE Ipv6DadProofs ---------------------------
(***************************************************************************)
(* For any addresses and bounds, and whatever fails: a listed address has  *)
(* a timer, and retries neither bring addresses back nor lose them.        *)
(***************************************************************************)
EXTENDS Ipv6Dad, FiniteSetTheorems, TLAPS

Event == [op : {"create", "delete"}, a : Addrs]
Handler == [at : {"idle", "lost", "loop", "add"}, todo : SUBSET Addrs, key : Addrs \cup {None}]

(* Between the two commands of a retry the address is absent and wanted:   *)
(* the user cannot delete it, and adds it only "again".                    *)
PendingWanted ==
  hdl.at = "add" => hdl.key \in wanted /\ addr[hdl.key] = "none"

KeptUnlessAgain == "again" \in modes \/ (NotResurrected /\ PendingWanted)
-----------------------------------------------------------------------------
(* An event that is published keeps the queue's type. *)
LEMMA PublishType ==
  ASSUME events \in Seq(Event), NEW op \in {"create", "delete"}, NEW a \in Addrs,
         NEW kept, Publish(op, a, kept)
  PROVE  events' \in Seq(Event)
<1>1. [op |-> op, a |-> a] \in Event
  BY DEF Event
<1> QED
  BY <1>1 DEF Publish

(* The kernel's steps keep the types. *)
LEMMA AddedType ==
  ASSUME TypeOK, NEW a \in Addrs \cup {None}, Added(a)
  PROVE  addr' \in [Addrs -> States] /\ events' = events
BY DEF Added, Publish, TypeOK, States

(* ... also a delete, whose event may be published. *)
LEMMA DeletedType ==
  ASSUME TypeOK, NEW a \in Addrs, NEW named, Deleted(a, named)
  PROVE  addr' \in [Addrs -> States] /\ events' \in Seq(Event)
<1>1. addr' \in [Addrs -> States]
  BY DEF Deleted, TypeOK, States
<1>2. events' \in Seq(Event)
  BY PublishType DEF Deleted, TypeOK, Event
<1> QED
  BY <1>1, <1>2

(* A handler with one field changed is a handler. *)
LEMMA HandlerType ==
  ASSUME hdl \in Handler, NEW a \in Addrs \cup {None}
  PROVE  /\ [hdl EXCEPT !.at = "loop", !.todo = @ \ {a}, !.key = None] \in Handler
         /\ [hdl EXCEPT !.at = "add", !.key = a] \in Handler
         /\ \A T \in SUBSET Addrs : [Idle EXCEPT !.at = "loop", !.todo = T] \in Handler
         /\ Idle \in Handler /\ Lost \in Handler
<1>1. [hdl EXCEPT !.at = "loop", !.todo = @ \ {a}, !.key = None] \in Handler
  BY DEF Handler
<1>2. [hdl EXCEPT !.at = "add", !.key = a] \in Handler
  BY DEF Handler
<1>3. \A T \in SUBSET Addrs : [Idle EXCEPT !.at = "loop", !.todo = T] \in Handler
  BY DEF Handler, Idle
<1>4. Idle \in Handler /\ Lost \in Handler
  BY DEF Handler, Idle, Lost
<1> QED
  BY <1>1, <1>2, <1>3, <1>4

(* Everything is empty and idle at first. *)
LEMMA TypeInit == Init => TypeOK
<1> SUFFICES ASSUME Init PROVE TypeOK
  OBVIOUS
<1>1. hdl \in Handler
  BY DEF Init, Idle, Handler
<1>2. addr \in [Addrs -> States]
  BY DEF Init, States
<1>3. events \in Seq(Event) /\ timers \in 0 .. MaxTimers
  BY DadBoundsAssumption DEF Init
<1> QED
  BY <1>1, <1>2, <1>3 DEF Init, TypeOK, Event, Handler

(* Every step of the user, the kernel, the event thread and the timer's    *)
(* function keeps the types.                                               *)
LEMMA TypeNext == TypeOK /\ [Next]_vars => TypeOK'
<1> SUFFICES ASSUME TypeOK, [Next]_vars PROVE TypeOK'
  OBVIOUS
<1> USE DEF Event, Handler
<1>1. /\ addr \in [Addrs -> States] /\ conflict \subseteq Addrs
      /\ wanted \subseteq Addrs /\ failed_list \subseteq Addrs
      /\ events \in Seq(Event) /\ timers \in 0 .. MaxTimers /\ hdl \in Handler
  BY DEF TypeOK
<1>2. ASSUME NEW a \in Addrs, UserAdd(a) \/ IntfEvent(a) PROVE TypeOK'
  <2>1. addr' \in [Addrs -> States] /\ events' = events
    BY <1>2, AddedType DEF UserAdd, IntfEvent
  <2> QED
    BY <1>1, <1>2, <2>1 DEF UserAdd, IntfEvent, TypeOK
<1>3. ASSUME NEW a \in Addrs, UserDelete(a) PROVE TypeOK'
  <2>1. addr' \in [Addrs -> States] /\ events' \in Seq(Event)
    BY <1>3, DeletedType DEF UserDelete
  <2> QED
    BY <1>1, <1>3, <2>1 DEF UserDelete, TypeOK
<1>4. ASSUME NEW a \in Addrs, DadEnds(a) PROVE TypeOK'
  <2>1. addr' \in [Addrs -> States]
    BY <1>1, <1>4 DEF DadEnds, States
  <2>2. events' \in Seq(Event)
    BY <1>1, <1>4, PublishType DEF DadEnds
  <2> QED
    BY <1>1, <1>4, <2>1, <2>2 DEF DadEnds, TypeOK
<1>5. ASSUME NEW a \in Addrs, OtherHost(a) PROVE TypeOK'
  BY <1>1, <1>5 DEF OtherHost, TypeOK
<1>6. ASSUME HandleEvent PROVE TypeOK'
  <2> HIDE DEF Event
  <2>0. events # <<>> /\ events' = Tail(events)
    BY <1>6 DEF HandleEvent
  <2>1. Head(events) \in Event /\ events' \in Seq(Event)
    BY <1>1, <2>0
  <2>2. failed_list' \subseteq Addrs
    <3>1. Head(events).a \in Addrs
      BY <2>1 DEF Event
    <3> QED
      BY <1>1, <1>6, <3>1 DEF HandleEvent
  <2>3. timers' = timers \/ (timers < MaxTimers /\ timers' = timers + 1)
    BY <1>6, Zenon DEF HandleEvent
  <2>4. timers' \in 0 .. MaxTimers
    BY <1>1, <2>3, DadBoundsAssumption
  <2> QED
    BY <1>1, <1>6, <2>1, <2>2, <2>4 DEF HandleEvent, TypeOK, Event
<1>7. ASSUME TimerExpires PROVE TypeOK'
  <2>1. hdl' \in Handler
    BY <1>1, <1>7, HandlerType DEF TimerExpires
  <2>2. timers' \in 0 .. MaxTimers
    BY <1>1, <1>7, DadBoundsAssumption DEF TimerExpires
  <2> QED
    BY <1>1, <1>7, <2>1, <2>2 DEF TimerExpires, TypeOK
<1>8. ASSUME NEW a \in Addrs, RetryDelete(a) PROVE TypeOK'
  <2>1. hdl' \in Handler /\ failed_list' \subseteq Addrs
    BY <1>1, <1>8, HandlerType DEF RetryDelete, NotDeleted, Done, Unlisted, Raised
  <2>2. addr' \in [Addrs -> States] /\ events' \in Seq(Event)
    BY <1>1, <1>8, DeletedType DEF RetryDelete, Raised
  <2> QED
    BY <1>1, <1>8, <2>1, <2>2 DEF RetryDelete, TypeOK
<1>9. ASSUME RetryAdd PROVE TypeOK'
  <2>1. hdl.key \in Addrs \cup {None}
    BY <1>1
  <2>2. hdl' \in Handler /\ failed_list' \subseteq Addrs
    BY <1>1, <1>9, <2>1, HandlerType DEF RetryAdd, Done, Unlisted, Raised
  <2>3. addr' \in [Addrs -> States] /\ events' \in Seq(Event)
    BY <1>1, <1>9, <2>1, AddedType DEF RetryAdd, Raised
  <2> QED
    BY <1>1, <1>9, <2>2, <2>3 DEF RetryAdd, TypeOK
<1>10. ASSUME RetryEnds PROVE TypeOK'
  BY <1>1, <1>10, HandlerType DEF RetryEnds, TypeOK
<1>11. ASSUME UNCHANGED vars PROVE TypeOK'
  BY <1>11 DEF vars, TypeOK
<1> QED
  BY <1>2, <1>3, <1>4, <1>5, <1>6, <1>7, <1>8, <1>9, <1>10, <1>11 DEF Next, TimerThread
-----------------------------------------------------------------------------
(* HandleEvent arms a timer with the first address and expiry takes all;   *)
(* every other step removes an address from the list and from what the     *)
(* timer's function still has to do together.                              *)
LEMMA ListedNext == TypeOK /\ ListedHasTimer /\ [Next]_vars => ListedHasTimer'
<1> SUFFICES ASSUME TypeOK, ListedHasTimer, [Next]_vars PROVE ListedHasTimer'
  OBVIOUS
<1>1. failed_list \subseteq Addrs /\ timers \in Nat /\ hdl \in Handler
  BY DEF TypeOK, Handler
<1>2. ASSUME HandleEvent PROVE ListedHasTimer'
  <2>1. hdl.todo = {} /\ hdl.at # "lost" /\ UNCHANGED hdl
    BY <1>2 DEF HandleEvent, Idle
  <2>2. failed_list # {} => timers > 0
    BY <2>1 DEF ListedHasTimer
  <2> DEFINE a == Head(events).a
  <2>3. CASE failed_list' = failed_list \cup {a} /\ Arm(failed_list') /\ timers' = timers + 1
    BY <1>1, <2>3 DEF ListedHasTimer
  <2>4. CASE failed_list' = failed_list \cup {a} /\ ~Arm(failed_list') /\ UNCHANGED timers
    <3>1. failed_list # {}
      <4> SUFFICES ASSUME failed_list = {} PROVE FALSE
        OBVIOUS
      <4>1. failed_list' = {a}
        BY <2>4
      <4> QED
        BY <4>1, <2>4, FS_Singleton DEF Arm
    <3> QED
      BY <3>1, <2>2, <2>4 DEF ListedHasTimer
  <2>5. CASE failed_list' \subseteq failed_list /\ UNCHANGED timers
    BY <2>2, <2>5 DEF ListedHasTimer
  <2> QED
    BY <1>2, <2>3, <2>4, <2>5 DEF HandleEvent
<1>3. ASSUME TimerExpires PROVE ListedHasTimer'
  BY <1>3 DEF TimerExpires, ListedHasTimer, Idle
<1>4. ASSUME NEW a, Done(a), hdl.at # "lost", UNCHANGED timers PROVE ListedHasTimer'
  <2>1. failed_list' = failed_list \ {a} /\ hdl'.todo = hdl.todo \ {a}
    BY <1>1, <1>4 DEF Done, Unlisted, Handler
  <2>2. failed_list' \ hdl'.todo \subseteq failed_list \ hdl.todo
    BY <2>1
  <2> QED
    BY <1>4, <2>2 DEF ListedHasTimer
<1>5. ASSUME Raised PROVE ListedHasTimer'
  BY <1>5 DEF Raised, ListedHasTimer, Lost, Idle
<1>6. ASSUME NEW a \in Addrs, RetryDelete(a) PROVE ListedHasTimer'
  <2>1. CASE hdl' = [hdl EXCEPT !.at = "add", !.key = a] /\ UNCHANGED failed_list
    <3>1. hdl'.todo = hdl.todo
      BY <1>1, <2>1 DEF Handler
    <3> QED
      BY <1>6, <2>1, <3>1 DEF RetryDelete, ListedHasTimer
  <2>2. CASE Done(a)
    BY <1>6, <2>2, <1>4 DEF RetryDelete
  <2> QED
    BY <1>6, <2>1, <2>2, <1>5 DEF RetryDelete, NotDeleted
<1>7. ASSUME RetryAdd PROVE ListedHasTimer'
  BY <1>7, <1>4, <1>5 DEF RetryAdd
<1>8. ASSUME RetryEnds PROVE ListedHasTimer'
  BY <1>8 DEF RetryEnds, ListedHasTimer, Idle
<1>9. ASSUME UNCHANGED <<failed_list, timers, hdl>> PROVE ListedHasTimer'
  BY <1>9 DEF ListedHasTimer
<1> QED
  BY <1>2, <1>3, <1>6, <1>7, <1>8, <1>9
     DEF Next, TimerThread, UserAdd, UserDelete, IntfEvent, DadEnds, OtherHost, vars

(* No address is listed without a timer that will come to it, however      *)
(* handle_addr_event, the timers and the commands interleave.              *)
THEOREM ListedHasTimerAlways == Spec => []WellFormed
<1>1. Init => TypeOK /\ ListedHasTimer
  BY TypeInit DEF Init, ListedHasTimer
<1>2. TypeOK /\ ListedHasTimer /\ [Next]_vars => (TypeOK /\ ListedHasTimer)'
  BY TypeNext, ListedNext
<1> QED
  BY <1>1, <1>2, PTL DEF Spec, WellFormed
-----------------------------------------------------------------------------
(* A step of the user keeps what the retry in progress relies on.          *)
LEMMA KeptNext ==
  TypeOK /\ KeptUnlessAgain /\ [Next]_vars => KeptUnlessAgain'
<1> SUFFICES ASSUME TypeOK, NotResurrected, PendingWanted, "again" \notin modes, [Next]_vars
             PROVE  "again" \in modes' \/ (NotResurrected /\ PendingWanted)'
  BY DEF KeptUnlessAgain, Next, vars, UserAdd, IntfEvent, UserDelete, DadEnds, OtherHost,
         HandleEvent, TimerExpires, TimerThread, RetryAdd, RetryDelete, RetryEnds
<1>1. addr \in [Addrs -> States] /\ hdl \in Handler
  BY DEF TypeOK, Handler
<1>2. ASSUME NEW a \in Addrs, UserAdd(a) \/ IntfEvent(a)
      PROVE  (NotResurrected /\ PendingWanted)'
  <2>1. /\ a \notin wanted /\ wanted' = wanted \cup {a}
        /\ addr' = [addr EXCEPT ![a] = "tentative"] /\ hdl' = hdl
    BY <1>2 DEF UserAdd, IntfEvent, Added
  <2> QED
    BY <1>1, <2>1 DEF NotResurrected, PendingWanted
<1>3. ASSUME NEW a \in Addrs, UserDelete(a) PROVE (NotResurrected /\ PendingWanted)'
  <2>1. /\ addr[a] # "none" /\ wanted' = wanted \ {a}
        /\ addr' = [addr EXCEPT ![a] = "none"] /\ hdl' = hdl
    BY <1>3 DEF UserDelete, Deleted
  <2> QED
    BY <1>1, <2>1 DEF NotResurrected, PendingWanted
<1>4. ASSUME NEW a \in Addrs, DadEnds(a) PROVE (NotResurrected /\ PendingWanted)'
  <2>1. /\ addr[a] = "tentative" /\ wanted' = wanted /\ hdl' = hdl
        /\ \E s \in {"failed", "ok"} : addr' = [addr EXCEPT ![a] = s]
    BY <1>4 DEF DadEnds
  <2> QED
    BY <1>1, <2>1 DEF NotResurrected, PendingWanted
<1>5. ASSUME NEW a \in Addrs, RetryDelete(a) PROVE (NotResurrected /\ PendingWanted)'
  <2>1. wanted' = wanted /\ hdl.at = "loop"
    BY <1>5 DEF RetryDelete
  <2>2. CASE Deleted(a, TRUE) /\ hdl' = [hdl EXCEPT !.at = "add", !.key = a]
    <3>1. addr[a] # "none" /\ addr' = [addr EXCEPT ![a] = "none"] /\ hdl'.key = a
      BY <1>1, <2>2 DEF Deleted, Handler
    <3> QED
      BY <1>1, <2>1, <3>1 DEF NotResurrected, PendingWanted
  <2>3. CASE addr' = addr /\ hdl'.at # "add"
    BY <2>1, <2>3 DEF NotResurrected, PendingWanted
  <2>4. Done(a) => hdl'.at = "loop"
    BY <1>1 DEF Done, Handler
  <2>5. Raised => addr' = addr /\ hdl'.at = "lost"
    BY DEF Raised, Lost, Idle
  <2> QED
    BY <1>5, <2>2, <2>3, <2>4, <2>5 DEF RetryDelete, NotDeleted
<1>6. ASSUME RetryAdd PROVE (NotResurrected /\ PendingWanted)'
  <2>1. wanted' = wanted /\ hdl.at = "add" /\ hdl.key \in wanted
    BY <1>6 DEF RetryAdd, PendingWanted
  <2>2. Done(hdl.key) => hdl'.at = "loop"
    BY <1>1 DEF Done, Handler
  <2>3. Raised => addr' = addr /\ hdl'.at = "lost"
    BY DEF Raised, Lost, Idle
  <2>4. addr' = addr \/ addr' = [addr EXCEPT ![hdl.key] = "tentative"]
    BY <1>6, <2>3 DEF RetryAdd, Added
  <2>5. hdl'.at # "add"
    BY <1>6, <2>2, <2>3 DEF RetryAdd
  <2> QED
    BY <1>1, <2>1, <2>4, <2>5 DEF NotResurrected, PendingWanted
<1>7. ASSUME UNCHANGED <<addr, wanted>>, hdl' = hdl \/ hdl'.at # "add"
      PROVE  (NotResurrected /\ PendingWanted)'
  BY <1>7 DEF NotResurrected, PendingWanted
<1>8. TimerExpires \/ RetryEnds => hdl'.at # "add"
  <2>1. [Idle EXCEPT !.at = "loop", !.todo = failed_list].at = "loop"
    BY DEF Idle
  <2>2. Idle.at = "idle"
    BY DEF Idle
  <2>3. TimerExpires => hdl'.at = "loop"
    BY <2>1, Zenon DEF TimerExpires
  <2>4. RetryEnds => hdl'.at = "idle"
    BY <2>2, Zenon DEF RetryEnds
  <2> QED
    BY <2>3, <2>4
<1> QED
  BY <1>2, <1>3, <1>4, <1>5, <1>6, <1>7, <1>8
     DEF Next, TimerThread, OtherHost, HandleEvent, TimerExpires, RetryEnds, vars

(* Where no command fails, an address that is deleted for a retry is added *)
(* by the next step of the timer's function, or was added by the user.     *)
LEMMA NotLostNext ==
  TypeOK /\ (CanFail \/ NotLost) /\ [Next]_vars => (CanFail \/ NotLost)'
<1> SUFFICES ASSUME TypeOK, NotLost, ~CanFail, [Next]_vars
             PROVE  CanFail' \/ NotLost'
  BY DEF CanFail, Next, vars, UserAdd, IntfEvent, UserDelete, DadEnds, OtherHost,
         HandleEvent, TimerExpires, TimerThread, RetryAdd, RetryDelete, RetryEnds
<1>1. addr \in [Addrs -> States] /\ hdl \in Handler /\ wanted \subseteq Addrs
  BY DEF TypeOK, Handler
<1>0. ~Raised
  BY DEF CanFail, Raised
<1>2. ASSUME NEW a \in Addrs, UserAdd(a) \/ IntfEvent(a) PROVE NotLost'
  <2>1. /\ wanted' = wanted \cup {a}
        /\ addr' = [addr EXCEPT ![a] = "tentative"] /\ hdl' = hdl
    BY <1>2 DEF UserAdd, IntfEvent, Added
  <2> QED
    BY <1>1, <2>1 DEF NotLost
<1>3. ASSUME NEW a \in Addrs, UserDelete(a) PROVE NotLost'
  <2>1. /\ wanted' = wanted \ {a}
        /\ addr' = [addr EXCEPT ![a] = "none"] /\ hdl' = hdl
    BY <1>3 DEF UserDelete, Deleted
  <2> QED
    BY <1>1, <2>1 DEF NotLost
<1>4. ASSUME NEW a \in Addrs, DadEnds(a) PROVE NotLost'
  <2>1. /\ wanted' = wanted /\ hdl' = hdl
        /\ \E s \in {"failed", "ok"} : addr' = [addr EXCEPT ![a] = s]
    BY <1>4 DEF DadEnds
  <2> QED
    BY <1>1, <2>1 DEF NotLost
<1>5. ASSUME NEW a \in Addrs, RetryDelete(a) PROVE NotLost'
  <2>1. wanted' = wanted /\ hdl.at = "loop"
    BY <1>5 DEF RetryDelete
  <2>2. CASE Deleted(a, TRUE) /\ hdl' = [hdl EXCEPT !.at = "add", !.key = a]
    <3>1. addr' = [addr EXCEPT ![a] = "none"] /\ hdl'.key = a /\ hdl'.at = "add"
      BY <1>1, <2>2 DEF Deleted, Handler
    <3> QED
      BY <1>1, <2>1, <3>1 DEF NotLost
  <2>3. CASE addr' = addr
    BY <2>1, <2>3 DEF NotLost
  <2> QED
    BY <1>5, <1>0, <2>2, <2>3 DEF RetryDelete
<1>6. ASSUME RetryAdd PROVE NotLost'
  <2>1. wanted' = wanted /\ hdl.at = "add"
    BY <1>6 DEF RetryAdd
  <2>2. CASE Added(hdl.key)
    <3>1. addr' = [addr EXCEPT ![hdl.key] = "tentative"]
      BY <2>2 DEF Added
    <3> QED
      BY <1>1, <2>1, <3>1 DEF NotLost
  <2>3. CASE addr[hdl.key] # "none" /\ addr' = addr
    BY <2>1, <2>3 DEF NotLost
  <2> QED
    BY <1>6, <1>0, <2>2, <2>3 DEF RetryAdd
<1>7. ASSUME UNCHANGED <<addr, wanted>>, hdl' = hdl \/ hdl.at # "add" PROVE NotLost'
  BY <1>7 DEF NotLost
<1>8. TimerExpires \/ RetryEnds => hdl.at # "add"
  BY DEF TimerExpires, RetryEnds, Idle
<1> QED
  BY <1>2, <1>3, <1>4, <1>5, <1>6, <1>7, <1>8
     DEF Next, TimerThread, OtherHost, HandleEvent, TimerExpires, RetryEnds, vars

(* handle_dad_failure_timer: whatever users do between del_ip_addr and     *)
(* add_ip_addr, a retry loses no address where commands do not fail, and   *)
(* brings none back unless the address was added once more.                *)
THEOREM RetriesKeepAddrsAlways == Spec => []RetriesKeepAddrs
<1>1. Init => TypeOK /\ KeptUnlessAgain /\ (CanFail \/ NotLost)
  BY TypeInit DEF Init, KeptUnlessAgain, NotResurrected, PendingWanted, NotLost, Idle
<1>2. TypeOK /\ KeptUnlessAgain /\ (CanFail \/ NotLost) /\ [Next]_vars
        => (TypeOK /\ KeptUnlessAgain /\ (CanFail \/ NotLost))'
  BY TypeNext, KeptNext, NotLostNext
<1>3. KeptUnlessAgain /\ (CanFail \/ NotLost) => RetriesKeepAddrs
  BY DEF KeptUnlessAgain, RetriesKeepAddrs
<1> QED
  BY <1>1, <1>2, <1>3, PTL DEF Spec
=============================================================================
