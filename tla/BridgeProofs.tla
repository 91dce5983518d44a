---------------------------- MODULE BridgeProofs ----------------------------
(***************************************************************************)
(* What nas-linux keeps of the kernel's bridges: the MAC table, for any    *)
(* entries, ports and bounds, and the STP states, for any ports, states    *)
(* and bound on events.                                                    *)
(*                                                                         *)
(* Of the MAC table: the two indexes of refused entries agree, up to the   *)
(* entries that a second CREATE left listed at two ports.                  *)
(***************************************************************************)
EXTENDS MacTable, StpState, SequenceTheorems, TLAPS

MacEvent == [type : {"fdb"}, key : Keys, port : Ports]
         \cup [type : {"stp"}, key : {None}, port : Ports]

Entry == [port : Ports \cup {None}, sort : {"none", "static", "dynamic"}]

(* The kernel's table and what it reports: entries keep the caller's sort. *)
KernelOK ==
  /\ forwarding \subseteq Ports
  /\ fdb \in [Keys -> Entry]
  /\ \A k \in Keys : fdb[k] = Absent \/ (fdb[k].port \in Ports /\ fdb[k].sort = sort_of[k])
  /\ events \in Seq(MacEvent)

(* A call that has begun is about an entry; only a dynamic one is listed.  *)
CallOK ==
  /\ call.pc # "idle" => call.key \in Keys /\ call.port \in Ports /\ call.op \in Ops
  /\ call.pc = "remember" => sort_of[call.key] = "dynamic"

(* What is listed as static is static, what was refused is dynamic.        *)
ListsOK ==
  /\ static_mac \in [Keys -> Ports \cup {None}]
  /\ dynamic_mac \in [Keys -> Ports \cup {None}]
  /\ \A k \in Keys : static_mac[k] # None => sort_of[k] = "static"
  /\ \A k \in Keys : dynamic_mac[k] # None => sort_of[k] = "dynamic"
  /\ DOMAIN port_mac \subseteq Ports
  /\ \A p \in DOMAIN port_mac : port_mac[p] \subseteq {k \in Keys : sort_of[k] = "dynamic"}
  /\ recreated \subseteq Keys

(* While nas_os_mac_main goes through a port, its entries stay listed.     *)
RetryOK ==
  retry = NoRetry \/ (retry.port \in DOMAIN port_mac /\ retry.todo \subseteq port_mac[retry.port])

ChangeOK ==
  chg = NoChange \/ (chg.key \in Keys /\ chg.port \in Ports /\ sort_of[chg.key] = "static")

IInv ==
  /\ sort_of \in [Keys -> {"static", "dynamic"}]
  /\ sock \in Seq(Ports)
  /\ KernelOK /\ CallOK /\ ListsOK /\ RetryOK /\ ChangeOK /\ IndexesAgree
-----------------------------------------------------------------------------
(* The inductive invariant is enough. *)
LEMMA Implies == IInv => WellFormed
<1> SUFFICES ASSUME IInv PROVE TypeOK /\ IndexesAgree
  BY DEF WellFormed
<1>1. ASSUME NEW k \in Keys, fdb[k] # Absent PROVE fdb[k] \in [port : Ports, sort : {sort_of[k]}]
  <2>1. fdb[k] \in Entry /\ fdb[k].port \in Ports /\ fdb[k].sort = sort_of[k]
    BY <1>1 DEF IInv, KernelOK
  <2> QED
    BY <2>1 DEF Entry
<1>2. retry.todo # {} => retry.todo \subseteq port_mac[retry.port]
  BY DEF IInv, RetryOK, NoRetry
<1> QED
  BY <1>1, <1>2 DEF IInv, KernelOK, ListsOK, TypeOK

(* Empty tables satisfy it.                                                *)
LEMMA InitEstablishes == Init => IInv
<1> SUFFICES ASSUME Init PROVE IInv
  OBVIOUS
<1>1. sort_of \in [Keys -> {"static", "dynamic"}] /\ sock \in Seq(Ports)
  <2>1. sort_of \in [Keys -> Sorts]
    BY DEF Init
  <2>2. sort_of \in [Keys -> {"static", "dynamic"}]
    BY <2>1, SortsAssumption
  <2>3. sock \in Seq(Ports)
    BY DEF Init
  <2> QED
    BY <2>2, <2>3
<1>2. Absent \in Entry
  BY DEF Absent, Entry
<1>3. KernelOK
  <2>1. forwarding \subseteq Ports /\ events \in Seq(MacEvent)
    BY DEF Init
  <2>2. fdb = [k \in Keys |-> Absent]
    BY DEF Init
  <2> QED
    BY <1>2, <2>1, <2>2 DEF KernelOK
<1>4. CallOK
  BY DEF Init, CallOK, Idle
<1>5. ListsOK /\ IndexesAgree
  BY DEF Init, ListsOK, IndexesAgree, Waits
<1>6. RetryOK /\ ChangeOK
  BY DEF Init, RetryOK, ChangeOK
<1> QED
  BY <1>1, <1>3, <1>4, <1>5, <1>6 DEF IInv

(* A request for an entry of its own sort keeps the kernel's table.        *)
LEMMA PutEntryKeeps ==
  ASSUME KernelOK, sort_of \in [Keys -> {"static", "dynamic"}], UNCHANGED sort_of,
         NEW k \in Keys, NEW p \in Ports, PutEntry(k, p, sort_of[k])
  PROVE  KernelOK'
<1> DEFINE e == [port |-> p, sort |-> sort_of[k]]
<1>1. fdb' = [fdb EXCEPT ![k] = e] /\ forwarding' = forwarding
  BY DEF PutEntry
<1>2. e \in Entry /\ e.port = p /\ e.sort = sort_of[k]
  BY DEF Entry
<1>3. Moved(k, p) \in MacEvent
  BY DEF Moved, MacEvent
<1>4. events' = events \/ events' = Append(events, Moved(k, p))
  BY DEF PutEntry
<1>5. events' \in Seq(MacEvent)
  BY <1>3, <1>4 DEF KernelOK
<1> HIDE DEF e
<1>6. fdb' \in [Keys -> Entry]
  BY <1>1, <1>2 DEF KernelOK
<1>7. \A j \in Keys :
        fdb'[j] = Absent \/ (fdb'[j].port \in Ports /\ fdb'[j].sort = sort_of[j])
  BY <1>1, <1>2 DEF KernelOK
<1> QED
  BY <1>1, <1>5, <1>6, <1>7 DEF KernelOK

(* A port's set without one entry.                                         *)
LEMMA WithoutIs ==
  ASSUME NEW pm, NEW k, NEW p
  PROVE  /\ DOMAIN Without(pm, k, p) = DOMAIN pm
         /\ \A q \in DOMAIN pm : Without(pm, k, p)[q] = IF q = p THEN pm[q] \ {k} ELSE pm[q]
BY DEF Without

(* A step about one entry keeps the indexes if it keeps that entry's part. *)
LEMMA IndexesKept ==
  ASSUME NEW k \in Keys, IndexesAgree, dynamic_mac \in [Keys -> Ports \cup {None}],
         recreated \subseteq Keys, recreated' \subseteq Keys,
         \A j \in Keys \ {k} : dynamic_mac'[j] = dynamic_mac[j],
         \A j \in Keys \ {k}, q \in Ports : Waits(j, q)' <=> Waits(j, q),
         \A j \in Keys \ {k} : j \in recreated' <=> j \in recreated /\ \E q \in Ports : Waits(j, q)',
         dynamic_mac'[k] # None => Waits(k, dynamic_mac[k])',
         k \notin recreated' => \A q \in Ports : Waits(k, q)' => dynamic_mac'[k] = q,
         k \in recreated' => \E q \in Ports : Waits(k, q)'
  PROVE  IndexesAgree'
<1>1. ASSUME NEW j \in Keys, dynamic_mac'[j] # None PROVE Waits(j, dynamic_mac[j])'
  <2>1. CASE j = k
    BY <1>1, <2>1
  <2>2. CASE j # k
    <3>1. dynamic_mac[j] \in Ports /\ Waits(j, dynamic_mac[j]) /\ dynamic_mac'[j] = dynamic_mac[j]
      BY <1>1, <2>2 DEF IndexesAgree
    <3> QED
      BY <2>2, <3>1
  <2> QED
    BY <2>1, <2>2
<1>2. ASSUME NEW j \in Keys \ recreated', NEW q \in Ports, Waits(j, q)'
      PROVE  dynamic_mac'[j] = q
  <2>1. CASE j = k
    BY <1>2, <2>1
  <2>2. CASE j # k
    BY <1>2, <2>2 DEF IndexesAgree
  <2> QED
    BY <2>1, <2>2
<1>3. ASSUME NEW j \in recreated' PROVE \E q \in Ports : Waits(j, q)'
  BY <1>3
<1> QED
  BY <1>1, <1>2, <1>3 DEF IndexesAgree
-----------------------------------------------------------------------------
(* The steps of the kernel and of net_main leave the indexes alone. *)
LEMMA KernelSteps ==
  ASSUME IInv, UNCHANGED sort_of, NEW p \in Ports,
         PortForwards(p) \/ PortBlocks(p) \/ \E k \in Keys : KernelMoves(k, p)
  PROVE  IInv'
<1>1. UNCHANGED <<sock, call, retry, chg, conf, lists>>
  BY DEF PortForwards, PortBlocks, KernelMoves
<1>2. KernelOK'
  <2>1. ASSUME PortForwards(p) PROVE KernelOK'
    <3>1. Forwards(p) \in MacEvent
      BY DEF Forwards, MacEvent
    <3>2. events' \in Seq(MacEvent) /\ forwarding' \subseteq Ports /\ fdb' = fdb
      BY <2>1, <3>1 DEF PortForwards, IInv, KernelOK
    <3> QED
      BY <3>2 DEF IInv, KernelOK
  <2>2. ASSUME PortBlocks(p) PROVE KernelOK'
    BY <2>2 DEF PortBlocks, IInv, KernelOK
  <2>3. ASSUME NEW k \in Keys, KernelMoves(k, p) PROVE KernelOK'
    <3>1. fdb[k].sort = "static" /\ PutEntry(k, p, "static")
      BY <2>3 DEF KernelMoves
    <3>2. sort_of[k] = "static"
      BY <3>1 DEF IInv, KernelOK, Absent
    <3> QED
      BY <3>1, <3>2, PutEntryKeeps DEF IInv
  <2> QED
    BY <2>1, <2>2, <2>3
<1> QED
  BY <1>1, <1>2 DEF IInv, lists, CallOK, ListsOK, RetryOK, ChangeOK, IndexesAgree, Waits

(* net_main moves static entries only: the list has no others.             *)
LEMMA NetMainSteps ==
  ASSUME IInv, UNCHANGED sort_of, NetMain
  PROVE  IInv'
<1>1. UNCHANGED <<call, retry, conf, lists>>
  BY DEF NetMain, HandleForwarding, HandleMove, MoveBack
<1>2. (CallOK /\ ListsOK /\ RetryOK /\ IndexesAgree)'
  BY <1>1 DEF IInv, lists, CallOK, ListsOK, RetryOK, IndexesAgree, Waits
<1>3. ASSUME events # <<>> PROVE Head(events) \in MacEvent /\ Tail(events) \in Seq(MacEvent)
  BY <1>3 DEF IInv, KernelOK
<1>4. ASSUME HandleForwarding PROVE IInv'
  <2>1. Head(events).type = "stp" /\ events # <<>> /\ events' = Tail(events)
        /\ UNCHANGED <<forwarding, fdb, chg>>
        /\ (sock' = sock \/ sock' = Append(sock, Head(events).port))
    BY <1>4 DEF HandleForwarding
  <2>2. Head(events).port \in Ports
    BY <2>1, <1>3 DEF MacEvent
  <2>3. sock' \in Seq(Ports)
    <3> DEFINE p == Head(events).port
    <3>1. sock \in Seq(Ports) /\ p \in Ports
      BY <2>2 DEF IInv
    <3> HIDE DEF p
    <3>2. Append(sock, p) \in Seq(Ports)
      BY <3>1, AppendProperties
    <3> QED
      BY <2>1, <3>1, <3>2 DEF p
  <2>4. KernelOK' /\ ChangeOK'
    BY <2>1, <1>3 DEF IInv, KernelOK, ChangeOK
  <2> QED
    BY <2>3, <2>4, <1>2 DEF IInv
<1>5. ASSUME HandleMove PROVE IInv'
  <2>1. Head(events).type = "fdb" /\ events # <<>> /\ events' = Tail(events)
        /\ UNCHANGED <<forwarding, fdb, sock>>
    BY <1>5 DEF HandleMove
  <2>2. Head(events).key \in Keys
    BY <2>1, <1>3 DEF MacEvent
  <2> DEFINE k == Head(events).key
  <2>3. chg' = NoChange \/ (static_mac[k] # None /\ chg' = [key |-> k, port |-> static_mac[k]])
    BY <1>5 DEF HandleMove, BelongsElsewhere
  <2> HIDE DEF k
  <2>4. ChangeOK'
    BY <2>2, <2>3 DEF k, ChangeOK, IInv, ListsOK
  <2>5. KernelOK'
    BY <2>1, <1>3 DEF IInv, KernelOK
  <2> QED
    BY <2>1, <2>4, <2>5, <1>2 DEF IInv
<1>6. ASSUME MoveBack PROVE IInv'
  <2>1. chg # NoChange /\ PutEntry(chg.key, chg.port, "static") /\ chg' = NoChange /\ sock' = sock
    BY <1>6 DEF MoveBack
  <2>2. chg.key \in Keys /\ chg.port \in Ports /\ sort_of[chg.key] = "static"
    BY <2>1 DEF IInv, ChangeOK
  <2>3. KernelOK'
    BY <2>1, <2>2, PutEntryKeeps DEF IInv
  <2> QED
    BY <2>1, <2>3, <1>2 DEF IInv, ChangeOK
<1> QED
  BY <1>4, <1>5, <1>6 DEF NetMain

(* A call changes the indexes only when the entry was refused.             *)
LEMMA CallSteps ==
  ASSUME IInv, UNCHANGED sort_of,
         Caller \/ \E op \in Ops, k \in Keys, p \in Ports : UpdateEntry(op, k, p)
  PROVE  IInv'
<1>1. UNCHANGED <<sock, retry, chg>>
  BY DEF Caller, RequestEntry, RequestDelete, RequestFails, Remember, UpdateEntry
<1>2. ChangeOK' /\ sock' \in Seq(Ports)
  BY <1>1 DEF IInv, ChangeOK
<1>3. ASSUME NEW op \in Ops, NEW k \in Keys, NEW p \in Ports, UpdateEntry(op, k, p)
      PROVE  IInv'
  <2>1. UNCHANGED <<kernel, dynamic_mac, port_mac, recreated>>
        /\ call' = [pc |-> "request", op |-> op, key |-> k, port |-> p]
    BY <1>3 DEF UpdateEntry
  <2>2. static_mac' = static_mac
        \/ (sort_of[k] # "dynamic" /\ \E q \in Ports \cup {None} : static_mac' = [static_mac EXCEPT ![k] = q])
    BY <1>3 DEF UpdateEntry
  <2>3. sort_of[k] \in {"static", "dynamic"}
    BY DEF IInv
  <2>4. ListsOK'
    BY <2>1, <2>2, <2>3 DEF IInv, ListsOK
  <2>5. CallOK'
    BY <2>1 DEF CallOK
  <2>6. (KernelOK /\ RetryOK /\ IndexesAgree)'
    BY <1>1, <2>1 DEF IInv, kernel, KernelOK, RetryOK, IndexesAgree, Waits
  <2> QED
    BY <1>2, <2>4, <2>5, <2>6 DEF IInv
<1>4. ASSUME RequestEntry \/ RequestDelete \/ RequestFails PROVE IInv'
  <2>1. UNCHANGED lists /\ call.key \in Keys /\ call.port \in Ports /\ call.op \in Ops
    BY <1>4 DEF RequestEntry, RequestDelete, RequestFails, IInv, CallOK
  <2>2. (ListsOK /\ RetryOK /\ IndexesAgree)'
    BY <1>1, <2>1 DEF lists, IInv, ListsOK, RetryOK, IndexesAgree, Waits
  <2>3. CASE RequestEntry
    <3>1. KernelOK'
      BY <2>1, <2>3, PutEntryKeeps DEF RequestEntry, IInv
    <3>2. CallOK'
      BY <2>3 DEF RequestEntry, CallOK, Idle
    <3> QED
      BY <1>2, <2>2, <3>1, <3>2 DEF IInv
  <2>4. CASE RequestDelete
    <3>1. fdb' = [fdb EXCEPT ![call.key] = Absent] /\ UNCHANGED <<forwarding, events>>
      BY <2>4 DEF RequestDelete
    <3>2. Absent \in Entry
      BY DEF Absent, Entry
    <3>3. KernelOK'
      BY <3>1, <3>2 DEF IInv, KernelOK
    <3>4. CallOK'
      BY <2>4 DEF RequestDelete, CallOK, Idle
    <3> QED
      BY <1>2, <2>2, <3>3, <3>4 DEF IInv
  <2>5. CASE RequestFails
    <3>1. KernelOK'
      BY <2>5 DEF RequestFails, kernel, IInv, KernelOK
    <3>2. sort_of[call.key] \in {"static", "dynamic"} /\ call.pc = "request"
      BY <2>1, <2>5 DEF RequestFails, IInv
    <3>3. call' = Idle \/ (sort_of[call.key] = "dynamic" /\ call' = [call EXCEPT !.pc = "remember"])
      BY <2>5, <3>2 DEF RequestFails
    <3>4. ASSUME call' = Idle PROVE CallOK'
      BY <3>4 DEF CallOK, Idle
    <3>5. ASSUME sort_of[call.key] = "dynamic" /\ call' = [call EXCEPT !.pc = "remember"]
          PROVE  CallOK'
      <4>1. call'.key = call.key /\ call'.port = call.port /\ call'.op = call.op
        BY <3>5
      <4> QED
        BY <4>1, <3>5, <2>1 DEF CallOK
    <3> QED
      BY <1>2, <2>2, <3>1, <3>3, <3>4, <3>5 DEF IInv
  <2> QED
    BY <1>4, <2>3, <2>4, <2>5
<1>5. ASSUME Remember PROVE IInv'
  <2>0. PICK k \in Keys, p \in Ports : k = call.key /\ p = call.port
    BY <1>5 DEF Remember, IInv, CallOK
  <2> DEFINE old == dynamic_mac[k]
             left == Forgotten(call.op) /\ old # None
             pm == IF left THEN Without(port_mac, k, old) ELSE port_mac
             again == IF call.op = "CREATE" /\ old \notin {None, p} THEN {k} ELSE {}
             kept == call.op # "DELETE"
  <2>1. /\ k \in Keys /\ p \in Ports /\ sort_of[k] = "dynamic" /\ retry = NoRetry
        /\ call.op \in {"CREATE", "SET", "DELETE"}
    BY <1>5, <2>0, OpsAssumption DEF Remember, Locked, IInv, CallOK
  <2>2. UNCHANGED <<kernel, static_mac>> /\ call' = Idle
    BY <1>5 DEF Remember
  <2>3. /\ ~kept => port_mac' = pm /\ dynamic_mac' = [dynamic_mac EXCEPT ![k] = None]
        /\ kept => port_mac' = With(pm, k, p) /\ dynamic_mac' = [dynamic_mac EXCEPT ![k] = p]
        /\ recreated' = {j \in recreated \cup again : \E q \in Ports : Waits(j, q)'}
    BY <1>5, <2>0 DEF Remember
  <2>4. again \subseteq {k} /\ (kept /\ k \notin again /\ ~left => old \in {None, p})
        /\ (~kept /\ ~left => old = None)
    BY <2>1 DEF Forgotten
  <2>5. DOMAIN pm = DOMAIN port_mac
        /\ \A q \in DOMAIN port_mac : pm[q] = IF left /\ q = old THEN port_mac[q] \ {k} ELSE port_mac[q]
    <3>1. CASE left
      BY <3>1, WithoutIs
    <3>2. CASE ~left
      BY <3>2
    <3> QED
      BY <3>1, <3>2
  <2>6. /\ DOMAIN port_mac' = DOMAIN port_mac \cup (IF kept THEN {p} ELSE {})
        /\ \A q \in DOMAIN port_mac' :
             port_mac'[q] = (IF q \in DOMAIN port_mac THEN pm[q] ELSE {})
                            \cup (IF kept /\ q = p THEN {k} ELSE {})
    <3> HIDE DEF old, left, pm, again, kept
    <3>1. CASE kept
      <4>1. port_mac' = With(pm, k, p)
        BY <2>3, <3>1
      <4>2. DOMAIN port_mac' = DOMAIN port_mac \cup {p}
        BY ONLY <2>5, <4>1 DEF With
      <4>3. \A q \in DOMAIN port_mac' :
              port_mac'[q] = (IF q \in DOMAIN port_mac THEN pm[q] ELSE {}) \cup (IF q = p THEN {k} ELSE {})
        BY ONLY <2>5, <4>1, <4>2 DEF With
      <4> QED
        BY <3>1, <4>2, <4>3
    <3>2. CASE ~kept
      BY <2>3, <2>5, <3>2
    <3> QED
      BY <3>1, <3>2
  <2> HIDE DEF old, left, pm, again, kept
  <2>7. dynamic_mac' \in [Keys -> Ports \cup {None}] /\ dynamic_mac'[k] = (IF kept THEN p ELSE None)
        /\ \A j \in Keys \ {k} : dynamic_mac'[j] = dynamic_mac[j]
    BY <2>1, <2>3 DEF IInv, ListsOK
  <2>8. ListsOK'
    <3>1. DOMAIN port_mac' \subseteq Ports
          /\ \A q \in DOMAIN port_mac' : port_mac'[q] \subseteq {j \in Keys : sort_of[j] = "dynamic"}
      BY <2>1, <2>5, <2>6 DEF IInv, ListsOK
    <3>2. recreated' \subseteq Keys
      BY <2>1, <2>3, <2>4 DEF IInv, ListsOK
    <3> QED
      BY <2>1, <2>2, <2>7, <3>1, <3>2 DEF IInv, ListsOK
  <2>9. \A j \in Keys \ {k}, q \in Ports : Waits(j, q)' <=> Waits(j, q)
    BY <2>5, <2>6 DEF Waits
  <2>10. kept => Waits(k, p)'
    BY <2>6 DEF Waits
  <2>11. ASSUME NEW q \in Ports, Waits(k, q)'
         PROVE  (kept /\ q = p) \/ (Waits(k, q) /\ ~(left /\ q = old))
    BY <2>5, <2>6, <2>11 DEF Waits
  <2>12. k \notin recreated' => \A q \in Ports : Waits(k, q)' => dynamic_mac'[k] = q
    <3> SUFFICES ASSUME k \notin recreated', NEW q \in Ports, Waits(k, q)'
                 PROVE  dynamic_mac'[k] = q
      OBVIOUS
    <3>1. k \notin recreated /\ k \notin again
      BY <2>3
    <3>2. Waits(k, q) => old = q
      BY <2>1, <3>1 DEF IInv, IndexesAgree, old
    <3>3. q # None
      BY NoneAssumption
    <3> QED
      BY <2>4, <2>7, <2>11, <3>1, <3>2, <3>3
  <2>13. IndexesAgree'
    <3>1. /\ dynamic_mac'[k] # None => Waits(k, dynamic_mac[k])'
          /\ k \in recreated' => \E q \in Ports : Waits(k, q)'
      BY <2>3, <2>7, <2>10
    <3>2. \A j \in Keys \ {k} : j \in recreated' <=> j \in recreated /\ \E q \in Ports : Waits(j, q)'
      BY <2>3, <2>4
    <3>3. IndexesAgree /\ dynamic_mac \in [Keys -> Ports \cup {None}] /\ recreated \subseteq Keys
          /\ recreated' \subseteq Keys
      BY <2>8 DEF IInv, ListsOK
    <3> QED
      BY <2>1, <2>7, <2>9, <2>12, <3>1, <3>2, <3>3, IndexesKept
  <2>14. KernelOK'
    BY <2>2 DEF kernel, IInv, KernelOK
  <2>15. CallOK' /\ RetryOK'
    BY <1>1, <2>1, <2>2 DEF CallOK, RetryOK, Idle
  <2> QED
    BY <1>2, <2>8, <2>13, <2>14, <2>15 DEF IInv
<1> QED
  BY <1>3, <1>4, <1>5 DEF Caller

(* nas_os_mac_main takes an entry out of both indexes, and a port out of   *)
(* the second one when nothing waits there.                                *)
LEMMA MacMainSteps ==
  ASSUME IInv, UNCHANGED sort_of, MacMain
  PROVE  IInv'
<1>1. UNCHANGED <<static_mac, call, chg, forwarding>>
  BY DEF MacMain, ReadPort, RetrySucceeds, RetryFails, RetryEnds, kernel, lists, PutEntry
<1>2. CallOK' /\ ChangeOK'
  BY <1>1 DEF IInv, CallOK, ChangeOK
<1>3. ASSUME ReadPort PROVE IInv'
  <2>1. UNCHANGED <<kernel, lists>> /\ sock # <<>> /\ sock' = Tail(sock)
    BY <1>3 DEF ReadPort
  <2>2. sock' \in Seq(Ports)
    BY <2>1 DEF IInv
  <2>3. (KernelOK /\ ListsOK /\ IndexesAgree)'
    BY <2>1 DEF kernel, lists, IInv, KernelOK, ListsOK, IndexesAgree, Waits
  <2>4. RetryOK'
    <3>1. CASE retry' = NoRetry
      BY <3>1 DEF RetryOK
    <3>2. CASE Head(sock) \in DOMAIN port_mac /\ retry' = [port |-> Head(sock), todo |-> port_mac[Head(sock)]]
      BY <2>1, <3>2 DEF RetryOK, lists
    <3> QED
      BY <1>3, <3>1, <3>2 DEF ReadPort
  <2> QED
    BY <1>2, <2>2, <2>3, <2>4 DEF IInv
<1>4. ASSUME NEW k \in Keys, RetryFails(k) PROVE IInv'
  <2>1. UNCHANGED <<kernel, lists, sock>> /\ k \in retry.todo
        /\ retry' = [retry EXCEPT !.todo = retry.todo \ {k}]
    BY <1>4 DEF RetryFails
  <2>2. (KernelOK /\ ListsOK /\ IndexesAgree)'
    BY <2>1 DEF kernel, lists, IInv, KernelOK, ListsOK, IndexesAgree, Waits
  <2>3. retry.port \in DOMAIN port_mac /\ retry.todo \subseteq port_mac[retry.port]
    BY <2>1 DEF IInv, RetryOK, NoRetry
  <2>4. retry'.port = retry.port /\ retry'.todo \subseteq retry.todo
    BY <2>1
  <2>5. RetryOK'
    BY <2>1, <2>3, <2>4 DEF RetryOK, lists
  <2> QED
    BY <1>2, <2>1, <2>2, <2>5 DEF IInv
<1>5. ASSUME NEW k \in Keys, RetrySucceeds(k) PROVE IInv'
  <2>1. /\ k \in retry.todo /\ sock' = sock /\ PutEntry(k, retry.port, "dynamic")
        /\ port_mac' = Without(port_mac, k, retry.port)
        /\ dynamic_mac' = [dynamic_mac EXCEPT ![k] = None]
        /\ retry' = [retry EXCEPT !.todo = retry.todo \ {k}]
    BY <1>5 DEF RetrySucceeds
  <2>2. retry.port \in DOMAIN port_mac /\ retry.todo \subseteq port_mac[retry.port]
    BY <2>1 DEF IInv, RetryOK, NoRetry
  <2>3. retry.port \in Ports /\ k \in Keys /\ sort_of[k] = "dynamic" /\ Waits(k, retry.port)
    BY <2>1, <2>2 DEF IInv, ListsOK, Waits
  <2>4. recreated' = {j \in recreated : \E q \in Ports : Waits(j, q)'}
    BY <1>5 DEF RetrySucceeds
  <2>5. KernelOK'
    BY <2>1, <2>3, PutEntryKeeps DEF IInv
  <2>6. /\ DOMAIN port_mac' = DOMAIN port_mac
        /\ \A q \in DOMAIN port_mac :
             port_mac'[q] = IF q = retry.port THEN port_mac[q] \ {k} ELSE port_mac[q]
    BY <2>1, WithoutIs
  <2>7. dynamic_mac' \in [Keys -> Ports \cup {None}] /\ dynamic_mac'[k] = None
        /\ \A j \in Keys \ {k} : dynamic_mac'[j] = dynamic_mac[j]
    BY <2>1 DEF IInv, ListsOK
  <2>8. ListsOK'
    BY <1>1, <2>4, <2>6, <2>7 DEF IInv, ListsOK
  <2>9. IndexesAgree'
    <3>1. \A j \in Keys \ {k}, q \in Ports : Waits(j, q)' <=> Waits(j, q)
      BY <2>6 DEF Waits
    <3>2. ASSUME NEW q \in Ports, Waits(k, q)' PROVE Waits(k, q) /\ q # retry.port
      BY <2>6, <3>2 DEF Waits
    <3>3. k \notin recreated' => \A q \in Ports : ~Waits(k, q)'
      BY <2>3, <2>4, <3>2 DEF IInv, IndexesAgree
    <3>4. IndexesAgree /\ dynamic_mac \in [Keys -> Ports \cup {None}] /\ recreated \subseteq Keys
          /\ recreated' \subseteq Keys
      BY <2>4 DEF IInv, ListsOK
    <3>5. \A j \in Keys \ {k} : j \in recreated' <=> j \in recreated /\ \E q \in Ports : Waits(j, q)'
      BY <2>4
    <3>6. k \in recreated' => \E q \in Ports : Waits(k, q)'
      BY <2>4
    <3> QED
      BY <2>3, <2>7, <3>1, <3>3, <3>4, <3>5, <3>6, IndexesKept
  <2>10. retry'.port = retry.port /\ retry'.todo = retry.todo \ {k}
    BY <2>1
  <2>11. RetryOK'
    BY <2>2, <2>6, <2>10 DEF RetryOK
  <2> QED
    BY <1>2, <2>1, <2>5, <2>8, <2>9, <2>11 DEF IInv
<1>6. ASSUME RetryEnds PROVE IInv'
  <2>1. UNCHANGED <<kernel, static_mac, dynamic_mac, recreated, sock>> /\ retry' = NoRetry
    BY <1>6 DEF RetryEnds
  <2>2. (DOMAIN port_mac' = DOMAIN port_mac /\ \A q \in DOMAIN port_mac' : port_mac'[q] = port_mac[q])
        \/ (/\ DOMAIN port_mac' = DOMAIN port_mac \ {retry.port}
            /\ port_mac[retry.port] = {}
            /\ \A q \in DOMAIN port_mac' : port_mac'[q] = port_mac[q])
    BY <1>6 DEF RetryEnds
  <2>3. ListsOK'
    BY <2>1, <2>2 DEF IInv, ListsOK
  <2>4. IndexesAgree'
    BY <2>1, <2>2 DEF IInv, IndexesAgree, Waits
  <2>5. KernelOK' /\ RetryOK'
    BY <2>1 DEF kernel, IInv, KernelOK, RetryOK
  <2> QED
    BY <1>2, <2>1, <2>3, <2>4, <2>5 DEF IInv
<1> QED
  BY <1>3, <1>4, <1>5, <1>6 DEF MacMain
-----------------------------------------------------------------------------
(* The invariant is inductive.                                             *)
LEMMA Inductive == IInv /\ [Next]_vars => IInv'
<1> SUFFICES ASSUME IInv, [Next]_vars PROVE IInv'
  OBVIOUS
<1>1. CASE UNCHANGED vars
  BY <1>1 DEF vars, IInv, KernelOK, CallOK, ListsOK, RetryOK, ChangeOK, IndexesAgree, Waits
<1>2. CASE Next
  <2>1. UNCHANGED sort_of /\ Step
    BY <1>2 DEF Next
  <2> QED
    BY <2>1, KernelSteps, NetMainSteps, CallSteps, MacMainSteps DEF Step
<1> QED
  BY <1>1, <1>2

(* nas_os_mac_update_entry, net_main and nas_os_mac_main in any order: an  *)
(* entry that was refused waits at the port under which every later SET,   *)
(* DELETE and retry looks for it, and at no other unless a CREATE was      *)
(* refused while it waited, for as long as it waits; tables keep types.    *)
THEOREM IndexesAgreeAlways == Spec => []WellFormed
<1>1. Init => IInv
  BY InitEstablishes
<1>2. IInv /\ [Next]_vars => IInv'
  BY Inductive
<1>3. IInv => WellFormed
  BY Implies
<1> QED
  BY <1>1, <1>2, <1>3, PTL DEF Spec

-----------------------------------------------------------------------------
(* x is one of the events in queue s.                                      *)
Waiting(s, x) == \E i \in 1 .. Len(s) : s[i] = x

(* What waits goes on waiting while others come.                           *)
LEMMA AppendWaits ==
  ASSUME NEW S, NEW s \in Seq(S), NEW e \in S, NEW x
  PROVE  /\ Waiting(s, x) => Waiting(Append(s, e), x)
         /\ Waiting(Append(s, e), e)
<1> DEFINE t == Append(s, e)
<1>1. /\ Len(s) \in Nat /\ Len(t) = Len(s) + 1
      /\ \A i \in 1 .. Len(s) : t[i] = s[i]
      /\ t[Len(s) + 1] = e
  BY AppendProperties, LenProperties
<1> HIDE DEF t
<1>2. \A i \in 1 .. Len(s) : i \in 1 .. Len(t)
  BY <1>1
<1>3. Len(s) + 1 \in 1 .. Len(t)
  BY <1>1
<1>4. Waiting(s, x) => Waiting(t, x)
  BY <1>1, <1>2 DEF Waiting
<1>5. Waiting(t, e)
  BY <1>1, <1>3 DEF Waiting
<1> QED
  BY <1>4, <1>5 DEF t

(* Taking the head leaves what is not the head waiting.                    *)
LEMMA TailWaits ==
  ASSUME NEW S, NEW s \in Seq(S), s # <<>>, NEW x, Waiting(s, x), x # Head(s)
  PROVE  Waiting(Tail(s), x)
<1>1. /\ Len(s) \in Nat /\ Len(Tail(s)) = Len(s) - 1 /\ Head(s) = s[1]
      /\ \A i \in 1 .. Len(s) - 1 : Tail(s)[i] = s[i + 1]
  BY HeadTailProperties, LenProperties
<1>2. PICK i \in 1 .. Len(s) : s[i] = x
  BY DEF Waiting
<1>3. i # 1
  BY <1>1, <1>2
<1>4. i - 1 \in 1 .. Len(s) - 1 /\ (i - 1) + 1 = i
  BY <1>1, <1>3
<1>5. Tail(s)[i - 1] = x
  BY <1>1, <1>2, <1>4
<1> QED
  BY <1>1, <1>4, <1>5 DEF Waiting

(* A static entry of the list is where it belongs, or somebody will put it *)
(* there: the call that has listed it, net_main, which holds its place, or *)
(* net_main once it handles the report of where the kernel has it.         *)
Follows(k) ==
  static_mac[k] # None =>
    \/ fdb[k] = [port |-> static_mac[k], sort |-> "static"]
    \/ call.pc = "request" /\ call.key = k
    \/ chg # NoChange /\ chg.key = k /\ chg.port = static_mac[k]
    \/ Waiting(events, Moved(k, fdb[k].port))

(* A call asks the kernel for the place that it has listed.                *)
CallPlaces ==
  call.pc = "request" /\ static_mac[call.key] # None =>
    call.op # "DELETE" /\ call.port = static_mac[call.key]

PlaceInv == CallPlaces /\ \A k \in Keys : Follows(k)

(* A request changes one entry, and what it changes of a static entry is   *)
(* reported.                                                               *)
LEMMA PutEntryReports ==
  ASSUME IInv, NEW j \in Keys, NEW p \in Ports, PutEntry(j, p, sort_of[j])
  PROVE  /\ fdb'[j] = [port |-> p, sort |-> sort_of[j]]
         /\ \A k \in Keys : k # j => fdb'[k] = fdb[k]
         /\ sort_of[j] = "static" =>
              fdb[j] = [port |-> p, sort |-> "static"] \/ Waiting(events', Moved(j, p))
         /\ \A x : Waiting(events, x) => Waiting(events', x)
<1>1. Moved(j, p) \in MacEvent
  BY DEF Moved, MacEvent
<1>2. events \in Seq(MacEvent) /\ fdb \in [Keys -> Entry]
  BY DEF IInv, KernelOK
<1> HIDE DEF MacEvent
<1>3. fdb' = [fdb EXCEPT ![j] = [port |-> p, sort |-> sort_of[j]]]
  BY DEF PutEntry
<1>4. \/ events' = events /\ (sort_of[j] = "static" => fdb[j] = [port |-> p, sort |-> "static"])
      \/ events' = Append(events, Moved(j, p))
  BY DEF PutEntry
<1>5. Waiting(Append(events, Moved(j, p)), Moved(j, p))
  BY <1>1, <1>2, AppendWaits
<1>6. \A x : Waiting(events, x) => Waiting(Append(events, Moved(j, p)), x)
  BY <1>1, <1>2, AppendWaits
<1>7. fdb'[j] = [port |-> p, sort |-> sort_of[j]] /\ \A k \in Keys : k # j => fdb'[k] = fdb[k]
  BY <1>2, <1>3
<1> QED
  BY <1>4, <1>5, <1>6, <1>7

(* The kernel moves an entry and reports it; ports change their state.     *)
LEMMA KernelFollows ==
  ASSUME IInv, PlaceInv, UNCHANGED sort_of, NEW p \in Ports,
         PortForwards(p) \/ PortBlocks(p) \/ \E k \in Keys : KernelMoves(k, p)
  PROVE  PlaceInv'
<1>1. UNCHANGED <<static_mac, call, chg>>
  BY DEF PortForwards, PortBlocks, KernelMoves, lists
<1>2. CallPlaces'
  BY <1>1 DEF PlaceInv, CallPlaces
<1> SUFFICES ASSUME NEW k \in Keys PROVE Follows(k)'
  BY <1>2 DEF PlaceInv
<1>3. Follows(k)
  BY DEF PlaceInv
<1>4. ASSUME PortForwards(p) \/ PortBlocks(p) PROVE Follows(k)'
  <2>1. events \in Seq(MacEvent) /\ Forwards(p) \in MacEvent
    BY DEF IInv, KernelOK, Forwards, MacEvent
  <2>2. fdb' = fdb /\ (events' = events \/ events' = Append(events, Forwards(p)))
    BY <1>4 DEF PortForwards, PortBlocks
  <2>3. \A x : Waiting(events, x) => Waiting(Append(events, Forwards(p)), x)
    BY <2>1, AppendWaits
  <2>4. \A x : Waiting(events, x) => Waiting(events', x)
    BY <2>2, <2>3
  <2> QED
    BY <1>1, <1>3, <2>2, <2>4 DEF Follows
<1>5. ASSUME NEW j \in Keys, KernelMoves(j, p) PROVE Follows(k)'
  <2>1. fdb[j].sort = "static" /\ fdb[j].port # p /\ PutEntry(j, p, "static")
    BY <1>5 DEF KernelMoves
  <2>2. sort_of[j] = "static"
    BY <2>1 DEF IInv, KernelOK, Absent
  <2>3. /\ fdb'[j] = [port |-> p, sort |-> "static"]
        /\ \A i \in Keys : i # j => fdb'[i] = fdb[i]
        /\ fdb[j] = [port |-> p, sort |-> "static"] \/ Waiting(events', Moved(j, p))
        /\ \A x : Waiting(events, x) => Waiting(events', x)
    BY <2>1, <2>2, PutEntryReports
  <2>4. CASE k = j
    <3>1. Waiting(events', Moved(j, p)) /\ fdb'[j].port = p
      BY <2>1, <2>3
    <3> QED
      BY <2>4, <3>1 DEF Follows
  <2>5. CASE k # j
    BY <1>1, <1>3, <2>3, <2>5 DEF Follows
  <2> QED
    BY <2>4, <2>5
<1> QED
  BY <1>4, <1>5

(* net_main moves an entry to the place it was listed at when the report   *)
(* was handled; if that is no longer right, the kernel reports once more.  *)
LEMMA NetMainFollows ==
  ASSUME IInv, PlaceInv, UNCHANGED sort_of, NetMain
  PROVE  PlaceInv'
<1>1. UNCHANGED <<static_mac, call>>
  BY DEF NetMain, HandleForwarding, HandleMove, MoveBack, lists
<1>2. CallPlaces'
  BY <1>1 DEF PlaceInv, CallPlaces
<1> SUFFICES ASSUME NEW k \in Keys, static_mac[k] # None PROVE Follows(k)'
  BY <1>1, <1>2 DEF PlaceInv, Follows
<1>3. Follows(k)
  BY DEF PlaceInv
<1>4. events \in Seq(MacEvent)
  BY DEF IInv, KernelOK
<1>5. ASSUME HandleForwarding PROVE Follows(k)'
  <2>1. events # <<>> /\ Head(events).type = "stp" /\ events' = Tail(events) /\ UNCHANGED <<fdb, chg>>
    BY <1>5 DEF HandleForwarding
  <2>2. Moved(k, fdb[k].port) # Head(events)
    <3>1. Moved(k, fdb[k].port).type = "fdb"
      BY DEF Moved
    <3> QED
      BY <2>1, <3>1
  <2>3. Waiting(events, Moved(k, fdb[k].port)) => Waiting(events', Moved(k, fdb[k].port))
    BY <1>4, <2>1, <2>2, TailWaits
  <2> QED
    BY <1>1, <1>3, <2>1, <2>3 DEF Follows
<1>6. ASSUME HandleMove PROVE Follows(k)'
  <2>1. events # <<>> /\ chg = NoChange /\ events' = Tail(events) /\ UNCHANGED fdb
    BY <1>6 DEF HandleMove
  <2>2. CASE Waiting(events, Moved(k, fdb[k].port)) /\ Moved(k, fdb[k].port) # Head(events)
    <3>1. Waiting(events', Moved(k, fdb[k].port))
      BY <1>4, <2>1, <2>2, TailWaits
    <3> QED
      BY <2>1, <3>1 DEF Follows
  <2>3. CASE Moved(k, fdb[k].port) = Head(events)
    <3>1. Head(events).key = k /\ Head(events).port = fdb[k].port
      BY <2>3 DEF Moved
    <3>2. CASE fdb[k].port # static_mac[k]
      <4>1. chg' = [key |-> k, port |-> static_mac[k]]
        BY <1>6, <3>1, <3>2 DEF HandleMove, BelongsElsewhere
      <4>2. chg'.key = k /\ chg'.port = static_mac[k] /\ chg' # NoChange
        <5>1. NoChange.port = None
          BY DEF NoChange
        <5> QED
          BY <4>1, <5>1
      <4> QED
        BY <1>1, <4>2 DEF Follows
    <3>3. CASE fdb[k].port = static_mac[k]
      <4>1. fdb[k] # Absent
        BY <3>3 DEF Absent
      <4>2. fdb[k] \in Entry /\ fdb[k].sort = sort_of[k] /\ sort_of[k] = "static"
        BY <4>1 DEF IInv, KernelOK, ListsOK
      <4>3. fdb[k] = [port |-> static_mac[k], sort |-> "static"]
        BY <3>3, <4>2 DEF Entry
      <4> QED
        BY <1>1, <2>1, <4>3 DEF Follows
    <3> QED
      BY <3>2, <3>3
  <2>4. CASE ~Waiting(events, Moved(k, fdb[k].port))
    BY <1>1, <1>3, <2>1, <2>4 DEF Follows
  <2> QED
    BY <2>2, <2>3, <2>4
<1>7. ASSUME MoveBack PROVE Follows(k)'
  <2>1. chg # NoChange /\ PutEntry(chg.key, chg.port, "static") /\ chg' = NoChange
    BY <1>7 DEF MoveBack
  <2> DEFINE j == chg.key
             p == chg.port
  <2>2. j \in Keys /\ p \in Ports /\ sort_of[j] = "static"
    BY <2>1 DEF IInv, ChangeOK
  <2>3. PutEntry(j, p, "static")
    BY <2>1
  <2>4. /\ fdb'[j] = [port |-> p, sort |-> "static"]
        /\ \A i \in Keys : i # j => fdb'[i] = fdb[i]
        /\ fdb[j] = [port |-> p, sort |-> "static"] \/ Waiting(events', Moved(j, p))
        /\ \A x : Waiting(events, x) => Waiting(events', x)
    <3> HIDE DEF j, p
    <3> QED
      BY <2>2, <2>3, PutEntryReports
  <2>5. CASE k # j
    BY <1>1, <1>3, <2>4, <2>5 DEF Follows
  <2>6. CASE k = j /\ p = static_mac[k]
    <3>1. fdb'[k] = [port |-> static_mac'[k], sort |-> "static"]
      BY <1>1, <2>4, <2>6
    <3> QED
      BY <3>1 DEF Follows
  <2>7. CASE k = j /\ p # static_mac[k]
    <3>1. fdb'[k].port = p
      BY <2>4, <2>7
    <3>2. CASE Waiting(events', Moved(j, p))
      BY <2>7, <3>1, <3>2 DEF Follows
    <3>3. CASE fdb[j] = [port |-> p, sort |-> "static"]
      <4>1. fdb[k] = fdb'[k] /\ fdb[k].port = p
        BY <2>4, <2>7, <3>3
      <4>2. fdb[k] # [port |-> static_mac[k], sort |-> "static"]
        BY <2>7, <4>1
      <4>3. \/ call.pc = "request" /\ call.key = k
            \/ Waiting(events, Moved(k, fdb[k].port))
        BY <1>3, <2>7, <4>2 DEF Follows
      <4> QED
        BY <1>1, <2>4, <4>1, <4>3 DEF Follows
    <3> QED
      BY <2>4, <3>2, <3>3
  <2> QED
    BY <2>5, <2>6, <2>7
<1> QED
  BY <1>5, <1>6, <1>7 DEF NetMain

(* The caller lists a static entry and then asks the kernel for it.        *)
LEMMA CallFollows ==
  ASSUME IInv, PlaceInv, UNCHANGED sort_of,
         Caller \/ \E op \in Ops, k \in Keys, p \in Ports : UpdateEntry(op, k, p)
  PROVE  PlaceInv'
<1>1. UNCHANGED chg
  BY DEF Caller, RequestEntry, RequestDelete, RequestFails, Remember, UpdateEntry
<1>2. ASSUME NEW op \in Ops, NEW j \in Keys, NEW p \in Ports, UpdateEntry(op, j, p)
      PROVE  PlaceInv'
  <2>1. /\ call.pc = "idle" /\ call' = [pc |-> "request", op |-> op, key |-> j, port |-> p]
        /\ UNCHANGED <<fdb, events>>
    BY <1>2 DEF UpdateEntry, kernel
  <2>2. static_mac' = IF sort_of[j] = "dynamic" THEN static_mac
                      ELSE [static_mac EXCEPT ![j] = IF op = "DELETE" THEN None ELSE p]
    BY <1>2 DEF UpdateEntry
  <2>3. static_mac \in [Keys -> Ports \cup {None}] /\ (sort_of[j] = "dynamic" => static_mac[j] = None)
    BY DEF IInv, ListsOK
  <2>4. static_mac'[j] # None => op # "DELETE" /\ p = static_mac'[j]
    BY <2>2, <2>3
  <2>5. \A k \in Keys : k # j => static_mac'[k] = static_mac[k]
    BY <2>2, <2>3
  <2>6. call'.pc = "request" /\ call'.key = j /\ call'.op = op /\ call'.port = p
    BY <2>1
  <2>7. CallPlaces'
    BY <2>4, <2>6 DEF CallPlaces
  <2>8. ASSUME NEW k \in Keys PROVE Follows(k)'
    <3>1. CASE k = j
      BY <2>6, <3>1 DEF Follows
    <3>2. CASE k # j
      <4>1. Follows(k)
        BY DEF PlaceInv
      <4> QED
        BY <1>1, <2>1, <2>5, <3>2, <4>1 DEF Follows
    <3> QED
      BY <3>1, <3>2
  <2> QED
    BY <2>7, <2>8 DEF PlaceInv
<1>3. ASSUME RequestEntry \/ RequestDelete \/ RequestFails PROVE PlaceInv'
  <2>1. /\ call.pc = "request" /\ call.key \in Keys /\ call.port \in Ports /\ static_mac' = static_mac
        /\ call'.pc # "request"
    <3>1. call.pc = "request" /\ static_mac' = static_mac
          /\ (call' = Idle \/ call' = [call EXCEPT !.pc = "remember"])
      BY <1>3 DEF RequestEntry, RequestDelete, RequestFails, lists
    <3>2. call.key \in Keys /\ call.port \in Ports
      BY <3>1 DEF IInv, CallOK
    <3>3. call' = Idle => call'.pc = "idle"
      BY DEF Idle
    <3>4. call' = [call EXCEPT !.pc = "remember"] => call'.pc # "request"
      OBVIOUS
    <3> QED
      BY <3>1, <3>2, <3>3, <3>4
  <2>2. CallPlaces'
    BY <2>1 DEF CallPlaces
  <2> DEFINE j == call.key
             p == call.port
  <2>3. static_mac[j] # None => call.op # "DELETE" /\ p = static_mac[j] /\ sort_of[j] = "static"
    BY <2>1 DEF PlaceInv, CallPlaces, IInv, ListsOK
  <2>4. ASSUME RequestEntry
        PROVE  /\ static_mac[j] # None => fdb'[j] = [port |-> static_mac[j], sort |-> "static"]
               /\ \A k \in Keys : k # j => fdb'[k] = fdb[k]
               /\ \A x : Waiting(events, x) => Waiting(events', x)
    <3>1. PutEntry(j, p, sort_of[j])
      BY <2>4 DEF RequestEntry
    <3> HIDE DEF j, p
    <3>2. j \in Keys /\ p \in Ports
      BY <2>1 DEF j, p
    <3>3. /\ fdb'[j] = [port |-> p, sort |-> sort_of[j]]
          /\ \A k \in Keys : k # j => fdb'[k] = fdb[k]
          /\ \A x : Waiting(events, x) => Waiting(events', x)
      BY <3>1, <3>2, PutEntryReports
    <3> QED
      BY <2>3, <3>3
  <2>5. ASSUME RequestDelete \/ RequestFails
        PROVE  /\ static_mac[j] = None
               /\ \A k \in Keys : k # j => fdb'[k] = fdb[k]
               /\ events' = events
    <3>1. CASE RequestDelete
      <4>1. call.op = "DELETE" /\ fdb' = [fdb EXCEPT ![j] = Absent] /\ events' = events
        BY <3>1 DEF RequestDelete
      <4> QED
        BY <2>3, <4>1 DEF IInv, KernelOK
    <3>2. CASE RequestFails
      <4>1. UNCHANGED <<fdb, events>> /\ (call.op = "DELETE" \/ ~Accepts(call.port, sort_of[j]))
        BY <3>2 DEF RequestFails, kernel
      <4>2. call.op = "DELETE" \/ sort_of[j] # "static"
        BY <4>1 DEF Accepts
      <4> QED
        BY <2>3, <4>1, <4>2
    <3> QED
      BY <2>5, <3>1, <3>2
  <2>6. ASSUME NEW k \in Keys PROVE Follows(k)'
    <3>1. Follows(k)
      BY DEF PlaceInv
    <3>2. CASE RequestEntry
      <4>1. CASE k = j
        BY <2>1, <2>4, <3>2, <4>1 DEF Follows
      <4>2. CASE k # j
        BY <1>1, <2>1, <2>4, <3>1, <3>2, <4>2 DEF Follows
      <4> QED
        BY <4>1, <4>2
    <3>3. CASE RequestDelete \/ RequestFails
      <4>1. CASE k = j
        BY <2>1, <2>5, <3>3, <4>1 DEF Follows
      <4>2. CASE k # j
        BY <1>1, <2>1, <2>5, <3>1, <3>3, <4>2 DEF Follows
      <4> QED
        BY <4>1, <4>2
    <3> QED
      BY <1>3, <3>2, <3>3
  <2> QED
    BY <2>2, <2>6 DEF PlaceInv
<1>4. ASSUME Remember PROVE PlaceInv'
  <2>1. call.pc = "remember" /\ call' = Idle /\ UNCHANGED <<fdb, events, static_mac>>
    BY <1>4 DEF Remember, kernel
  <2>2. call'.pc # "request"
    BY <2>1 DEF Idle
  <2> QED
    BY <1>1, <2>1, <2>2 DEF PlaceInv, CallPlaces, Follows
<1> QED
  BY <1>2, <1>3, <1>4 DEF Caller

(* nas_os_mac_main tries dynamic entries only.                             *)
LEMMA MacMainFollows ==
  ASSUME IInv, PlaceInv, UNCHANGED sort_of, MacMain
  PROVE  PlaceInv'
<1>1. UNCHANGED <<static_mac, call, chg>>
  BY DEF MacMain, ReadPort, RetrySucceeds, RetryFails, RetryEnds, lists
<1>2. CallPlaces'
  BY <1>1 DEF PlaceInv, CallPlaces
<1> SUFFICES ASSUME NEW k \in Keys PROVE Follows(k)'
  BY <1>2 DEF PlaceInv
<1>3. Follows(k)
  BY DEF PlaceInv
<1>4. CASE UNCHANGED <<fdb, events>>
  BY <1>1, <1>3, <1>4 DEF Follows
<1>5. ASSUME NEW j \in Keys, RetrySucceeds(j) PROVE Follows(k)'
  <2>1. j \in retry.todo /\ PutEntry(j, retry.port, "dynamic")
    BY <1>5 DEF RetrySucceeds
  <2>2. retry.port \in DOMAIN port_mac /\ retry.todo \subseteq port_mac[retry.port]
    BY <2>1 DEF IInv, RetryOK, NoRetry
  <2>3. retry.port \in Ports /\ sort_of[j] = "dynamic"
    BY <2>1, <2>2 DEF IInv, ListsOK
  <2>5. static_mac[j] = None
    BY <2>3 DEF IInv, ListsOK
  <2>6. /\ \A i \in Keys : i # j => fdb'[i] = fdb[i]
        /\ \A x : Waiting(events, x) => Waiting(events', x)
    BY <2>1, <2>3, PutEntryReports
  <2>7. CASE k = j
    BY <1>1, <2>5, <2>7 DEF Follows
  <2>8. CASE k # j
    BY <1>1, <1>3, <2>6, <2>8 DEF Follows
  <2> QED
    BY <2>7, <2>8
<1> QED
  BY <1>4, <1>5 DEF MacMain, ReadPort, RetryFails, RetryEnds, kernel

(* Whatever the kernel moves and the caller changes, in any order: when    *)
(* everything is handled, a static entry is in the kernel at the place it  *)
(* is listed at (nas_os_handle_mac_port_chg).                              *)
THEOREM StaticInPlaceAlways == Spec => []StaticInPlace
<1>1. Init => IInv /\ PlaceInv
  <2> SUFFICES ASSUME Init PROVE PlaceInv
    BY InitEstablishes
  <2> QED
    BY DEF Init, PlaceInv, CallPlaces, Follows, Idle
<1>2. IInv /\ PlaceInv /\ [Next]_vars => IInv' /\ PlaceInv'
  <2> SUFFICES ASSUME IInv, PlaceInv, [Next]_vars PROVE PlaceInv'
    BY Inductive
  <2>1. CASE UNCHANGED vars
    BY <2>1 DEF vars, PlaceInv, CallPlaces, Follows
  <2>2. CASE Next
    <3>1. UNCHANGED sort_of /\ Step
      BY <2>2 DEF Next
    <3> QED
      BY <3>1, KernelFollows, NetMainFollows, CallFollows, MacMainFollows DEF Step
  <2> QED
    BY <2>1, <2>2
<1>3. IInv /\ PlaceInv => StaticInPlace
  <2> SUFFICES ASSUME IInv, PlaceInv, Quiet, NEW k \in Keys, static_mac[k] # None
               PROVE  fdb[k] = [port |-> static_mac[k], sort |-> "static"]
    BY DEF StaticInPlace
  <2>1. events = <<>> /\ call.pc # "request" /\ chg = NoChange
    BY DEF Quiet, Idle
  <2>2. ~Waiting(events, Moved(k, fdb[k].port))
    BY <2>1, EmptySeq DEF Waiting
  <2> QED
    BY <2>1, <2>2 DEF PlaceInv, Follows
<1> QED
  BY <1>1, <1>2, <1>3, PTL DEF Spec
-----------------------------------------------------------------------------
(* The inductive invariant.  AskedStateHolds speaks of the states in which *)
(* net_main has nothing left to do; what carries it there is that a        *)
(* mismatch is never left behind without an event that shows it, or a      *)
(* revert of the state that is still cached, unless a revert was not sent. *)
StpInv ==
  /\ StpTypeOK
  /\ asked = if_stp_state
  /\ \A p \in BridgePorts \ unsent : Unmatched(p) => Healing(p)

(* An event appended to the queue keeps those that are in it. *)
LEMMA AppendKeeps ==
  ASSUME NEW S, NEW q \in Seq(S), NEW e \in S, NEW q2, q2 = Append(q, e)
  PROVE  /\ q2 \in Seq(S)
         /\ Len(q2) = Len(q) + 1
         /\ \A i \in 1 .. Len(q) : q2[i] = q[i]
         /\ q2[Len(q) + 1] = e
  BY AppendProperties

(* Taking the first event keeps all others. *)
LEMMA TailKeeps ==
  ASSUME NEW S, NEW q \in Seq(S), q # <<>>
  PROVE  /\ Tail(q) \in Seq(S)
         /\ Head(q) = q[1] /\ Head(q) \in S
         /\ \A i \in 2 .. Len(q) : i - 1 \in 1 .. Len(Tail(q)) /\ Tail(q)[i - 1] = q[i]
  BY HeadTailProperties

(* A change of one port: it has an event that shows its new state, the     *)
(* others keep state and events.                                           *)
LEMMA BecomesHeals ==
  ASSUME StpTypeOK, NEW p \in BridgePorts, NEW s \in States, Becomes(p, s)
  PROVE  /\ kstate' \in [BridgePorts -> States]
         /\ stp_events' \in Seq(Event)
         /\ \E i \in 1 .. Len(stp_events') : stp_events'[i] = [port |-> p, state |-> kstate'[p]]
         /\ unsent' = unsent \ {p} /\ unsent' \subseteq BridgePorts
         /\ \A r \in BridgePorts \ {p} :
              /\ kstate'[r] = kstate[r]
              /\ \A i \in 1 .. Len(stp_events) :
                   i \in 1 .. Len(stp_events') /\ stp_events'[i] = stp_events[i]
<1> DEFINE e == [port |-> p, state |-> s]
<1>1. e \in Event
  BY DEF Event
<1>2. stp_events \in Seq(Event) /\ stp_events' = Append(stp_events, e)
  BY DEF StpTypeOK, Becomes
<1>3. /\ stp_events' \in Seq(Event)
      /\ Len(stp_events') = Len(stp_events) + 1
      /\ \A i \in 1 .. Len(stp_events) : stp_events'[i] = stp_events[i]
      /\ stp_events'[Len(stp_events) + 1] = e
  BY <1>1, <1>2, AppendKeeps
<1>4. Len(stp_events) \in Nat
  BY <1>2, LenProperties
<1>5. kstate' = [kstate EXCEPT ![p] = s] /\ kstate \in [BridgePorts -> States]
  BY DEF Becomes, StpTypeOK
<1>6. kstate'[p] = s
  BY <1>5
<1>7. Len(stp_events) + 1 \in 1 .. Len(stp_events')
  BY <1>3, <1>4
<1>8. \E i \in 1 .. Len(stp_events') : stp_events'[i] = [port |-> p, state |-> kstate'[p]]
  BY <1>3, <1>6, <1>7
<1>9. \A i \in 1 .. Len(stp_events) : i \in 1 .. Len(stp_events')
  BY <1>3, <1>4
<1>10. unsent' = unsent \ {p} /\ unsent' \subseteq BridgePorts
  BY DEF Becomes, StpTypeOK
<1> QED
  BY <1>3, <1>5, <1>8, <1>9, <1>10

(* Ports start in the kernel's state and without a cached one. *)
LEMMA StpInitEstablishes == StpInit => StpInv
<1> SUFFICES ASSUME StpInit PROVE StpInv
  OBVIOUS
<1>1. StpTypeOK
  BY StatesAssumption DEF StpInit, StpTypeOK, NoRevert
<1> QED
  BY <1>1 DEF StpInit, StpInv, Unmatched

(* The kernel's own changes, by which a mismatch comes about.              *)
LEMMA KernelPreserves ==
  ASSUME StpInv, NEW p \in BridgePorts, PortDown(p) \/ PortUp(p)
  PROVE  StpInv'
<1> USE DEF StpInv
<1>1. PICK s \in States : Becomes(p, s)
  BY StatesAssumption DEF PortDown, PortUp
<1>2. UNCHANGED <<if_stp_state, asked, revert>>
  BY DEF PortDown, PortUp
<1>3. oper' \in [BridgePorts -> BOOLEAN] /\ \A r \in BridgePorts \ {p} : oper'[r] = oper[r]
  BY DEF PortDown, PortUp, StpTypeOK
<1>4. StpTypeOK'
  BY <1>1, <1>2, <1>3, BecomesHeals DEF StpTypeOK
<1>5. ASSUME NEW r \in BridgePorts \ unsent', Unmatched(r)' PROVE Healing(r)'
  <2>1. CASE r = p
    BY <2>1, <1>1, BecomesHeals DEF Healing
  <2>2. CASE r # p
    <3>0. unsent' = unsent \ {p} /\ \A q \in BridgePorts \ {p} : kstate'[q] = kstate[q]
      BY ONLY StpTypeOK, p \in BridgePorts, <1>1, BecomesHeals
    <3>1. kstate'[r] = kstate[r] /\ oper'[r] = oper[r] /\ r \notin unsent
      BY <2>2, <1>3, <3>0
    <3>2. Healing(r)
      BY <3>1, <1>2, <1>5 DEF Unmatched
    <3> QED
      BY <3>1, <3>2, <2>2, <1>1, <1>2, BecomesHeals DEF Healing
  <2> QED
    BY <2>1, <2>2
<1> QED
  BY <1>2, <1>4, <1>5

(* A request for p's state s that goes with s in the cache leaves p, if it *)
(* is up, in that state, and changes no other port.                        *)
LEMMA ProgramKeeps ==
  ASSUME StpInv, NEW p \in BridgePorts, NEW s \in States, Program(p, s),
         if_stp_state' = [if_stp_state EXCEPT ![p] = s], oper' = oper,
         revert' = revert \/ (revert.port = p /\ revert' = NoRevert)
  PROVE  /\ kstate' \in [BridgePorts -> States] /\ stp_events' \in Seq(Event)
         /\ unsent' \subseteq BridgePorts
         /\ if_stp_state' \in [BridgePorts -> States \cup {NoState}]
         /\ \A r \in BridgePorts \ unsent' : Unmatched(r)' => Healing(r)'
<1> USE DEF StpInv
<1>1. if_stp_state' \in [BridgePorts -> States \cup {NoState}] /\ if_stp_state'[p] = s
      /\ \A r \in BridgePorts \ {p} : if_stp_state'[r] = if_stp_state[r]
  BY DEF StpTypeOK
<1>2. CASE Grants(p, s)
  <2>1. Becomes(p, s)
    BY <1>2 DEF Program
  <2>2. kstate'[p] = s
    BY <2>1 DEF Becomes, StpTypeOK
  <2>3. /\ kstate' \in [BridgePorts -> States] /\ stp_events' \in Seq(Event)
        /\ unsent' = unsent \ {p} /\ unsent' \subseteq BridgePorts
        /\ \A r \in BridgePorts \ {p} :
             /\ kstate'[r] = kstate[r]
             /\ \A i \in 1 .. Len(stp_events) :
                  i \in 1 .. Len(stp_events') /\ stp_events'[i] = stp_events[i]
    BY <2>1, BecomesHeals
  <2>4. ASSUME NEW r \in BridgePorts \ unsent', Unmatched(r)' PROVE Healing(r)'
    <3>1. r # p /\ r \in BridgePorts /\ r \notin unsent
      BY <2>2, <2>3, <2>4, <1>1 DEF Unmatched
    <3>2. kstate'[r] = kstate[r] /\ if_stp_state'[r] = if_stp_state[r]
      BY <3>1, <2>3, <1>1
    <3>3. Healing(r)
      BY <3>1, <3>2, <2>4 DEF Unmatched
    <3>4. CASE \E i \in 1 .. Len(stp_events) : stp_events[i] = [port |-> r, state |-> kstate[r]]
      BY <3>1, <3>2, <3>4, <2>3 DEF Healing
    <3>5. CASE revert = [port |-> r, state |-> if_stp_state[r]]
      <4>1. revert' = revert
        BY <3>1, <3>5
      <4> QED
        BY <4>1, <3>2, <3>5 DEF Healing
    <3> QED
      BY <3>3, <3>4, <3>5 DEF Healing
  <2> QED
    BY <1>1, <2>3, <2>4
<1>3. CASE ~Grants(p, s)
  <2>1. UNCHANGED <<kstate, stp_events, unsent>> /\ ~oper[p]
    BY <1>3 DEF Program, Grants
  <2>2. ASSUME NEW r \in BridgePorts \ unsent', Unmatched(r)' PROVE Healing(r)'
    <3>1. r # p /\ r \notin unsent
      BY <2>1, <2>2 DEF Unmatched
    <3>2. if_stp_state'[r] = if_stp_state[r]
      BY <3>1, <1>1
    <3>3. Healing(r)
      BY <3>1, <3>2, <2>1, <2>2 DEF Unmatched
    <3>4. CASE revert' = revert
      BY <3>2, <3>3, <3>4, <2>1 DEF Healing
    <3>5. CASE revert.port = p
      <4>1. revert # [port |-> r, state |-> if_stp_state[r]]
        BY <3>1, <3>5
      <4> QED
        BY <4>1, <3>2, <3>3, <2>1 DEF Healing
    <3> QED
      BY <3>4, <3>5
  <2> QED
    BY <1>1, <2>1, <2>2 DEF StpTypeOK
<1> QED
  BY <1>2, <1>3

(* An update by the stack sets the cache, and the kernel of a port that is *)
(* up alike.                                                               *)
LEMMA UpdatePreserves ==
  ASSUME StpInv, NEW p \in BridgePorts, NEW s \in States,
         UpdateSame(p, s) \/ UpdateNew(p, s) \/ UpdateFails(p, s)
  PROVE  StpInv'
<1>1. CASE UpdateSame(p, s)
  <2>1. asked' = asked
    BY <1>1 DEF UpdateSame, StpInv, StpTypeOK
  <2> QED
    BY <2>1, <1>1 DEF UpdateSame, StpInv, StpTypeOK, Unmatched, Healing
<1>2. CASE UpdateFails(p, s)
  BY <1>2 DEF UpdateFails, stp_vars, StpInv, StpTypeOK, Unmatched, Healing
<1>3. CASE UpdateNew(p, s)
  <2>1. Program(p, s) /\ UNCHANGED <<oper, revert>>
    BY <1>3 DEF UpdateNew
  <2>2. /\ if_stp_state' = [if_stp_state EXCEPT ![p] = s]
        /\ asked' = [asked EXCEPT ![p] = s]
    BY <1>3 DEF UpdateNew
  <2>3. /\ kstate' \in [BridgePorts -> States] /\ stp_events' \in Seq(Event)
        /\ unsent' \subseteq BridgePorts
        /\ if_stp_state' \in [BridgePorts -> States \cup {NoState}]
        /\ \A r \in BridgePorts \ unsent' : Unmatched(r)' => Healing(r)'
    BY <2>1, <2>2, ProgramKeeps
  <2>4. asked' = if_stp_state'
    BY <2>2 DEF StpInv
  <2>5. StpTypeOK'
    BY <2>1, <2>3, <2>4 DEF StpInv, StpTypeOK
  <2> QED
    BY <2>3, <2>4, <2>5 DEF StpInv
<1> QED
  BY <1>1, <1>2, <1>3

(* Handling an event: the mismatch it shows becomes a revert. *)
LEMMA HandlePreserves ==
  ASSUME StpInv, HandleEvent
  PROVE  StpInv'
<1> USE DEF StpInv
<1> DEFINE e == Head(stp_events)
<1>1. stp_events \in Seq(Event) /\ stp_events # <<>> /\ stp_events' = Tail(stp_events)
  BY DEF HandleEvent, StpTypeOK
<1>2. /\ stp_events' \in Seq(Event)
      /\ e = stp_events[1] /\ e \in Event
      /\ \A i \in 2 .. Len(stp_events) :
           i - 1 \in 1 .. Len(stp_events') /\ stp_events'[i - 1] = stp_events[i]
  BY <1>1, TailKeeps
<1>3. UNCHANGED <<kstate, oper, if_stp_state, asked, unsent>> /\ revert = NoRevert
  BY DEF HandleEvent
<1>4. revert' = IF Mismatch(e) THEN [port |-> e.port, state |-> if_stp_state[e.port]]
                               ELSE NoRevert
  BY DEF HandleEvent
<1>5. e.port \in BridgePorts /\ e.state \in States
  BY <1>2 DEF Event
<1>6. Mismatch(e) => if_stp_state[e.port] \in States
  BY <1>5 DEF Mismatch, StpTypeOK
<1>7. revert' \in Event \cup {NoRevert}
  BY <1>4, <1>5, <1>6 DEF Event
<1>8. StpTypeOK'
  BY <1>2, <1>3, <1>7 DEF StpTypeOK
<1>9. ASSUME NEW r \in BridgePorts \ unsent', Unmatched(r)' PROVE Healing(r)'
  <2>1. Unmatched(r)
    BY <1>3, <1>9 DEF Unmatched
  <2>2. if_stp_state[r] \in States
    BY <2>1 DEF Unmatched, StpTypeOK
  <2>3. revert # [port |-> r, state |-> if_stp_state[r]]
    BY <2>2, <1>3, StatesAssumption DEF NoRevert
  <2>4. PICK i \in 1 .. Len(stp_events) : stp_events[i] = [port |-> r, state |-> kstate[r]]
    BY <2>1, <2>3, <1>3 DEF Healing
  <2>5. CASE i = 1
    <3>1. e.port = r /\ e.state = kstate[r]
      BY <2>4, <2>5, <1>2
    <3>2. Mismatch(e)
      BY <3>1, <2>1, <2>2 DEF Mismatch, Unmatched
    <3> QED
      BY <3>1, <3>2, <1>3, <1>4 DEF Healing
  <2>6. CASE i # 1
    <3>1. i \in 2 .. Len(stp_events)
      BY <2>4, <2>6
    <3>2. i - 1 \in 1 .. Len(stp_events') /\ stp_events'[i - 1] = [port |-> r, state |-> kstate'[r]]
      BY <3>1, <2>4, <1>2, <1>3
    <3> QED
      BY <3>2 DEF Healing
  <2> QED
    BY <2>5, <2>6
<1> QED
  BY <1>3, <1>8, <1>9

(* Putting a state back: only the one that is still cached. *)
LEMMA RevertPreserves ==
  ASSUME StpInv, RevertNow \/ RevertFails
  PROVE  StpInv'
<1> DEFINE p == revert.port
           s == revert.state
<1>1. revert \in Event /\ p \in BridgePorts /\ s \in States /\ revert = [port |-> p, state |-> s]
  BY DEF RevertNow, RevertFails, StpInv, StpTypeOK, Event
<1>2. UNCHANGED <<oper, asked>> /\ revert' = NoRevert
  BY DEF RevertNow, RevertFails
<1>3. CASE RevertNow /\ StillCached(p, s)
  <2>1. Program(p, s) /\ if_stp_state' = [if_stp_state EXCEPT ![p] = s]
    BY <1>3 DEF RevertNow
  <2>2. if_stp_state' = if_stp_state
    BY <2>1, <1>3, <1>1 DEF StillCached, StpInv, StpTypeOK
  <2>3. /\ kstate' \in [BridgePorts -> States] /\ stp_events' \in Seq(Event)
        /\ unsent' \subseteq BridgePorts
        /\ \A r \in BridgePorts \ unsent' : Unmatched(r)' => Healing(r)'
    BY <2>1, <1>1, <1>2, ProgramKeeps
  <2>4. StpTypeOK'
    BY <2>2, <2>3, <1>2 DEF StpInv, StpTypeOK
  <2> QED
    BY <2>2, <2>3, <2>4, <1>2 DEF StpInv
<1>4. CASE RevertNow /\ ~StillCached(p, s)
  <2>1. UNCHANGED <<kstate, stp_events, if_stp_state, unsent>>
    BY <1>4 DEF RevertNow
  <2>2. StpTypeOK'
    BY <2>1, <1>2 DEF StpInv, StpTypeOK
  <2>3. ASSUME NEW r \in BridgePorts \ unsent', Unmatched(r)' PROVE Healing(r)'
    <3>1. Unmatched(r) /\ Healing(r)
      BY <2>1, <2>3, <1>2 DEF StpInv, Unmatched
    <3>2. revert # [port |-> r, state |-> if_stp_state[r]]
      BY <1>1, <1>4 DEF StillCached
    <3> QED
      BY <3>1, <3>2, <2>1 DEF Healing
  <2> QED
    BY <2>1, <2>2, <2>3, <1>2 DEF StpInv
<1>5. CASE RevertFails
  <2>1. UNCHANGED <<kstate, stp_events, if_stp_state>> /\ unsent' = unsent \cup {p}
    BY <1>5 DEF RevertFails
  <2>2. StpTypeOK'
    BY <2>1, <1>1, <1>2 DEF StpInv, StpTypeOK
  <2>3. ASSUME NEW r \in BridgePorts \ unsent', Unmatched(r)' PROVE Healing(r)'
    <3>1. Unmatched(r) /\ Healing(r) /\ r # p
      BY <2>1, <2>3, <1>2 DEF StpInv, Unmatched
    <3>2. revert # [port |-> r, state |-> if_stp_state[r]]
      BY <3>1, <1>1
    <3> QED
      BY <3>1, <3>2, <2>1 DEF Healing
  <2> QED
    BY <2>1, <2>2, <2>3, <1>2 DEF StpInv
<1> QED
  BY <1>3, <1>4, <1>5

(* Every step keeps the inductive invariant. *)
LEMMA StpNextPreserves == StpInv /\ [StpNext]_stp_vars => StpInv'
<1> SUFFICES ASSUME StpInv, [StpNext]_stp_vars PROVE StpInv'
  OBVIOUS
<1>1. CASE \E p \in BridgePorts : PortDown(p) \/ PortUp(p)
  BY <1>1, KernelPreserves
<1>2. CASE \E p \in BridgePorts, s \in States :
             UpdateSame(p, s) \/ UpdateNew(p, s) \/ UpdateFails(p, s)
  BY <1>2, UpdatePreserves
<1>3. CASE StpNetMain
  BY <1>3, HandlePreserves, RevertPreserves DEF StpNetMain
<1>4. CASE UNCHANGED stp_vars
  BY <1>4 DEF stp_vars, StpInv, StpTypeOK, Unmatched, Healing
<1> QED
  BY <1>1, <1>2, <1>3, <1>4 DEF StpNext

(* The inductive invariant holds in every reachable state. *)
THEOREM StpInvariance == StpSpec => []StpInv
<1>1. StpInit => StpInv
  BY StpInitEstablishes
<1>2. StpInv /\ [StpNext]_stp_vars => StpInv'
  BY StpNextPreserves
<1> QED
  BY <1>1, <1>2, PTL DEF StpSpec

(* nl_int_update_stp_state and os_interface_stg_attrs_handler: for any     *)
(* ports, states and interleaving, a port that is up has the state asked   *)
(* for last whenever net_main has caught up.                               *)
(* Kernel, cache and net_main keep their types.                            *)
THEOREM AskedStateIsKept == StpSpec => []StatesRight
<1>1. StpInv => AskedStateHolds
  <2> SUFFICES ASSUME StpInv, stp_events = <<>>, revert = NoRevert, NEW p \in BridgePorts \ unsent,
                      asked[p] # NoState, oper[p]
               PROVE  kstate[p] = asked[p]
    BY DEF AskedStateHolds
  <2>1. if_stp_state[p] \in States
    BY DEF StpInv, StpTypeOK
  <2>2. revert # [port |-> p, state |-> if_stp_state[p]]
    BY <2>1, StatesAssumption DEF NoRevert
  <2>3. Len(stp_events) = 0
    OBVIOUS
  <2>4. ~Healing(p)
    BY <2>2, <2>3 DEF Healing
  <2> QED
    BY <2>4 DEF StpInv, Unmatched
<1>2. StpInv => StatesRight
  BY <1>1 DEF StpInv, StatesRight
<1> QED
  BY <1>2, StpInvariance, PTL
=============================================================================
